----------------------- MODULE RequestLifecycleProofs -----------------------
(***************************************************************************)
(* The safety properties of RequestLifecycle for every number of requests, *)
(* Context objects, headers, values and method calls.                      *)
(***************************************************************************)
EXTENDS RequestLifecycle, SequenceTheorems, TLAPS

\* A well-formed Context.
Good(x) == x \in Context /\ x.alen <= Len(x.slots)

\* What holds of the contents of the Context a request is served with.
Mine(r, x) == Good(x) /\ OwnData(r, x) /\ LoggerFresh(x)

-----------------------------------------------------------------------------
(* Lemmas about the Context methods.                                       *)

\* A new Context is well formed and clean.
LEMMA NewContextGood == Good(NewContext) /\ Clean(NewContext)
  BY DEF Good, Clean, NewContext, Context, NoForm, NoFields, Fields, FormKind

\* acquireCtx makes a clean Context the request's own.
LEMMA AttachMine ==
  ASSUME NEW x, Good(x), Clean(x), NEW r \in Req, NEW kind \in Forms
  PROVE  Mine(r, Attach(x, r, kind)) /\ Preserved(Attach(x, r, kind)) = {}
  <1> DEFINE y == Attach(x, r, kind)
  <1> DEFINE f == IF kind = "nil" THEN x.form ELSE [kind |-> kind, req |-> r]
  <1>0. f \in [kind : FormKind, req : Req \cup {None}]
    BY ConstantsAssumption DEF Good, Context
  <1>1. Good(y)
    <2>1. y = [x EXCEPT !.method = r, !.form = f, !.requestID = r, !.context = r,
                        !.user = Anonymous, !.loggerCore = AppLog, !.logger = None]
      BY DEF Attach
    <2> HIDE DEF f
    <2> QED  BY <1>0, <2>1 DEF Good, Context
  <1>2. OwnData(r, y)
    BY ConstantsAssumption DEF Good, Clean, OwnData, From, Attach, Context, NoForm, NoFields, LogKey
  <1>3. LoggerFresh(y) /\ Preserved(y) = {}
    BY DEF Good, Clean, LoggerFresh, Preserved, Attach, Context
  <1> QED  BY <1>1, <1>2, <1>3 DEF Mine

\* Caching the request ID keeps the Context the request's own.
LEMMA MaterializeMine ==
  ASSUME NEW r \in Req, NEW x, Mine(r, x)
  PROVE  Mine(r, Materialize(x)) /\ Preserved(Materialize(x)) = Preserved(x)
  <1> DEFINE y == CacheID(x)
  <1>1. /\ Mine(r, y) /\ y.requestIDStr = r /\ y.alen = x.alen /\ y.slots = x.slots
        /\ y.logger = x.logger
    BY ConstantsAssumption DEF Mine, Good, OwnData, LoggerFresh, CacheID, Context
  <1>2. CASE x.logger # None
    BY <1>2 DEF Materialize
  <1>3. CASE x.logger = None
    <2> DEFINE l == [core |-> y.loggerCore, base |-> y.requestIDStr, fields |-> y.loggerFields]
               z == [y EXCEPT !.logger = l]
    <2>1. Materialize(x) = z
      BY <1>3 DEF Materialize
    <2>2. l \in Logger /\ l # None
      BY <1>1, ConstantsAssumption DEF Mine, Good, OwnData, Context, Logger
    <2>3. Good(z)
      BY <1>1, <2>2 DEF Mine, Good, Context
    <2>4. OwnData(r, z)
      BY <1>1, <2>2 DEF Mine, Good, OwnData, Context
    <2>5. LoggerFresh(z)
      BY <1>1, <2>2 DEF Mine, Good, LoggerFresh, Context
    <2>6. Preserved(z) = Preserved(x)
      BY <1>1 DEF Mine, Good, Preserved, Context
    <2> QED  BY <2>1, <2>3, <2>4, <2>5, <2>6 DEF Mine
  <1> QED  BY <1>2, <1>3

\* Adding one of the request's log fields keeps the Context its own.
LEMMA LogFieldMine ==
  ASSUME NEW r \in Req, NEW x, Mine(r, x), NEW k \in LogKey, NEW d \in {r} \X Val
  PROVE  /\ Mine(r, WithLogField(x, k, d))
         /\ Preserved(WithLogField(x, k, d)) = Preserved(x)
  <1> DEFINE y == WithLogField(x, k, d)
  <1>0. d \in Datum
    BY DEF Datum
  <1>1. Good(y)
    BY <1>0 DEF Mine, Good, WithLogField, Context, Fields
  <1>2. OwnData(r, y)
    BY ConstantsAssumption DEF Mine, Good, OwnData, From, WithLogField, Context, Fields
  <1>3. LoggerFresh(y) /\ Preserved(y) = Preserved(x)
    BY DEF Mine, Good, LoggerFresh, Preserved, WithLogField, Context
  <1> QED  BY <1>1, <1>2, <1>3 DEF Mine

\* So does setting its user, which may add a log field,
LEMMA UserMine ==
  ASSUME NEW r \in Req, NEW x, Mine(r, x), NEW u \in ({r} \X Val) \cup {Anonymous, None}
  PROVE  /\ Mine(r, WithUser(x, u))
         /\ Preserved(WithUser(x, u)) = Preserved(x)
  <1> DEFINE y == [x EXCEPT !.user = u]
  <1>1. Good(y)
    BY DEF Mine, Good, Context, Datum
  <1>2. OwnData(r, y)
    BY DEF Mine, Good, OwnData, From, Context
  <1>3. LoggerFresh(y) /\ Preserved(y) = Preserved(x)
    BY DEF Mine, Good, LoggerFresh, Preserved, Context
  <1>4. Mine(r, y)
    BY <1>1, <1>2, <1>3 DEF Mine
  <1>5. CASE u \in Datum
    <2>1. u \in {r} \X Val
      BY <1>5, ConstantsAssumption
    <2>2. Mine(r, WithLogField(y, "user.id", u)) /\ Preserved(WithLogField(y, "user.id", u)) = Preserved(y)
      <3> HIDE DEF y
      <3> QED BY <1>4, <2>1, LogFieldMine DEF LogKey
    <2> QED  BY <1>3, <1>5, <2>2 DEF WithUser
  <1>6. CASE u \notin Datum
    BY <1>3, <1>4, <1>6 DEF WithUser
  <1> QED  BY <1>5, <1>6

\* replacing its logger,
LEMMA LoggerMine ==
  ASSUME NEW r \in Req, NEW x, Mine(r, x), NEW d \in {r} \X Val
  PROVE  /\ Mine(r, WithLogger(x, d))
         /\ Preserved(WithLogger(x, d)) = Preserved(x)
  <1> DEFINE y == WithLogger(x, d)
  <1>0. d \in Datum
    BY DEF Datum
  <1>1. Good(y)
    BY <1>0 DEF Mine, Good, WithLogger, Context
  <1>2. OwnData(r, y)
    BY <1>0, ConstantsAssumption DEF Mine, Good, OwnData, From, WithLogger, Context
  <1>3. LoggerFresh(y) /\ Preserved(y) = Preserved(x)
    BY DEF Mine, Good, LoggerFresh, Preserved, WithLogger, Context
  <1> QED  BY <1>1, <1>2, <1>3 DEF Mine

\* and installing its effective context.
LEMMA ReqCtxMine ==
  ASSUME NEW r \in Req, NEW x, Mine(r, x), NEW d \in ({r} \X Val) \cup {None}
  PROVE  /\ Mine(r, [x EXCEPT !.reqCtx = d])
         /\ Preserved([x EXCEPT !.reqCtx = d]) = Preserved(x)
  <1> DEFINE y == [x EXCEPT !.reqCtx = d]
  <1>1. Good(y)
    BY DEF Mine, Good, Context, Datum
  <1>2. OwnData(r, y)
    BY DEF Mine, Good, OwnData, From, Context
  <1>3. LoggerFresh(y) /\ Preserved(y) = Preserved(x)
    BY DEF Mine, Good, LoggerFresh, Preserved, Context
  <1> QED  BY <1>1, <1>2, <1>3 DEF Mine

\* preserveHeader adds exactly the name, whether it reuses a slot or not.
LEMMA PreserveMine ==
  ASSUME NEW r \in Req, NEW x, Mine(r, x), NEW h \in Hdr
  PROVE  /\ Mine(r, Preserve(x, h))
         /\ Preserved(Preserve(x, h)) = Preserved(x) \cup {h}
  <1> USE DEF Mine
  <1> DEFINE n == x.alen + 1
  <1>1. CASE h \in Preserved(x)
    BY <1>1 DEF Preserve
  <1>2. CASE h \notin Preserved(x) /\ x.alen < Len(x.slots)
    <2> DEFINE t == [x.slots EXCEPT ![n].name = h]
               y == [x EXCEPT !.slots = t, !.alen = n]
    <2>1. Preserve(x, h) = y
      BY <1>2 DEF Preserve, Good, Context
    <2>2. x.slots \in Seq(Slot) /\ x.alen \in Nat /\ n \in 1..Len(x.slots)
      BY <1>2 DEF Good, Context
    <2>3. t \in Seq(Slot) /\ Len(t) = Len(x.slots)
      <3>1. x.slots[n] \in Slot
        BY <2>2
      <3>2. [x.slots[n] EXCEPT !.name = h] \in Slot
        BY <3>1 DEF Slot
      <3> QED  BY <2>2, <3>2, ExceptSeq
    <2>4. Good(y)
      <3>1. n \in Nat /\ n <= Len(t)
        BY <2>2, <2>3
      <3> HIDE DEF t, n
      <3> QED  BY <2>3, <3>1 DEF Good, Context
    <2>5. OwnData(r, y) /\ LoggerFresh(y)
      BY DEF Good, OwnData, LoggerFresh, Context
    <2>6. Preserved(y) = Preserved(x) \cup {h}
      <3>1. y.alen = n /\ y.slots = t
        BY DEF Good, Context
      <3>2. \A i \in 1..x.alen : t[i].name = x.slots[i].name
        BY <2>2
      <3>3. t[n].name = h
        BY <2>2 DEF Slot
      <3>4. 1..n = (1..x.alen) \cup {n}
        BY <2>2
      <3> HIDE DEF t, n, y
      <3> QED  BY <3>1, <3>2, <3>3, <3>4 DEF Preserved
    <2> QED  BY <2>1, <2>4, <2>5, <2>6
  <1>3. CASE h \notin Preserved(x) /\ ~(x.alen < Len(x.slots))
    <2> DEFINE e == [name |-> h, value |-> None]
               t == Append(x.slots, e)
               y == [x EXCEPT !.slots = t, !.alen = n]
    <2>1. Preserve(x, h) = y
      BY <1>3 DEF Preserve, Good, Context
    <2>2. /\ x.slots \in Seq(Slot) /\ x.alen \in Nat /\ x.alen = Len(x.slots)
          /\ e \in Slot
      BY <1>3 DEF Good, Context, Slot
    <2>3. t \in Seq(Slot) /\ Len(t) = n
      BY <2>2
    <2>4. Good(y)
      <3>1. n \in Nat /\ n <= Len(t)
        BY <2>2, <2>3
      <3> HIDE DEF t, n
      <3> QED  BY <2>3, <3>1 DEF Good, Context
    <2>5. OwnData(r, y) /\ LoggerFresh(y)
      BY DEF Good, OwnData, LoggerFresh, Context
    <2>6. Preserved(y) = Preserved(x) \cup {h}
      <3>1. y.alen = n /\ y.slots = t
        BY DEF Good, Context
      <3>2. \A i \in 1..x.alen : t[i].name = x.slots[i].name
        BY <2>2
      <3>3. t[n].name = h
        BY <2>2
      <3>4. 1..n = (1..x.alen) \cup {n}
        BY <2>2
      <3> HIDE DEF t, n, y
      <3> QED  BY <3>1, <3>2, <3>3, <3>4 DEF Preserved
    <2> QED  BY <2>1, <2>4, <2>5, <2>6
  <1> QED  BY <1>1, <1>2, <1>3

\* Capturing and re-applying yields the registered headers with the values
\* the response had: nothing of what the slots held before survives.
LEMMA CaptureApply ==
  ASSUME NEW r \in Req, NEW x, Mine(r, x), NEW hdr \in Headers
  PROVE  /\ Mine(r, Capture(x, hdr))
         /\ Preserved(Capture(x, hdr)) = Preserved(x)
         /\ Apply(Capture(x, hdr)) =
               [h \in Hdr |-> IF h \in Preserved(x) THEN hdr[h] ELSE None]
  <1> USE DEF Mine
  <1> DEFINE t == [i \in 1..Len(x.slots) |->
                     IF i <= x.alen
                     THEN [name |-> x.slots[i].name, value |-> hdr[x.slots[i].name]]
                     ELSE x.slots[i]]
             y == [x EXCEPT !.slots = t]
  <1>1. Capture(x, hdr) = y
    BY DEF Capture
  <1>2. /\ x.slots \in Seq(Slot) /\ x.alen \in Nat /\ x.alen <= Len(x.slots)
        /\ Len(x.slots) \in Nat
    BY DEF Good, Context
  <1>3. \A i \in 1..Len(x.slots) : x.slots[i] \in Slot /\ t[i] \in Slot
    <2> SUFFICES ASSUME NEW i \in 1..Len(x.slots)
                 PROVE  x.slots[i] \in Slot /\ t[i] \in Slot
      OBVIOUS
    <2>1. x.slots[i] \in Slot
      BY <1>2, ElementOfSeq
    <2>2. [name |-> x.slots[i].name, value |-> hdr[x.slots[i].name]] \in Slot
      BY <2>1 DEF Slot, Headers
    <2> QED  BY <2>1, <2>2
  <1>4. t \in Seq(Slot) /\ Len(t) = Len(x.slots)
    <2>1. t \in [1..Len(x.slots) -> Slot]
      <3>1. t = [i \in 1..Len(x.slots) |-> t[i]]
        OBVIOUS
      <3> HIDE DEF t
      <3> QED  BY <1>3, <3>1
    <2> HIDE DEF t
    <2> QED  BY <1>2, <2>1, SeqDef
  <1>5. \A i \in 1..x.alen : t[i].name = x.slots[i].name /\ t[i].value = hdr[t[i].name]
    BY <1>2
  <1>6. y.slots = t /\ y.alen = x.alen
    BY DEF Good, Context
  <1>7. Good(y)
    <2> HIDE DEF t
    <2> QED  BY <1>2, <1>4 DEF Good, Context
  <1>8. OwnData(r, y) /\ LoggerFresh(y)
    BY DEF Good, OwnData, LoggerFresh, Context
  <1>9. Preserved(y) = Preserved(x)
    <2> HIDE DEF t, y
    <2> QED  BY <1>5, <1>6 DEF Preserved
  <1>10. ASSUME NEW h \in Preserved(x)
         PROVE  t[CHOOSE i \in 1..x.alen : t[i].name = h].value = hdr[h]
    <2>1. \E i \in 1..x.alen : t[i].name = h
      BY <1>5 DEF Preserved
    <2> HIDE DEF t
    <2> QED  BY <2>1, <1>5
  <1>11. Apply(y) = [h \in Hdr |-> IF h \in Preserved(x) THEN hdr[h] ELSE None]
    <2> HIDE DEF t, y
    <2> QED  BY <1>6, <1>9, <1>10 DEF Apply
  <1> QED  BY <1>1, <1>7, <1>8, <1>9, <1>11

\* reset leaves a clean Context.
LEMMA ClearClean ==
  ASSUME NEW x, Good(x)
  PROVE  Good(Clear(x)) /\ Clean(Clear(x))
  <1>0. NoFields \in Fields /\ NoForm \in [kind : FormKind, req : Req \cup {None}]
    BY DEF NoForm, FormKind, NoFields, Fields
  <1>1. Good(Clear(x))
    <2>1. Clear(x).slots = x.slots /\ Clear(x).alen = 0 /\ 0 <= Len(x.slots)
      BY DEF Good, Clear, Context
    <2>2. Clear(x) \in Context
      BY <1>0 DEF Good, Clear, Context
    <2> QED  BY <2>1, <2>2 DEF Good
  <1>2. Clean(Clear(x))
    BY DEF Good, Clean, Clear, Context
  <1> QED  BY <1>1, <1>2
-----------------------------------------------------------------------------
(* The inductive invariant.                                                *)

\* A goroutine holds a Context from acquireCtx to Put.
HoldsWhileServing ==
    \A r \in Req : own[r] # None <=> pc[r] \in Serving \cup {"put"}

\* The Context of a request is its own while it is served, and registers the
\* names the handler gave to SetAlways; it is clean between reset and Put.
ServedWithOwn ==
    \A r \in Req :
        /\ pc[r] \in Serving => /\ Mine(r, ctx[own[r]])
                                /\ Preserved(ctx[own[r]]) = always[r]
        /\ pc[r] = "put" => Clean(ctx[own[r]])

\* A request that has not started has registered no header.
IdleUntouched == \A r \in Req : pc[r] = "idle" => always[r] = {}

OwnHeaders == \A r \in Req : \A h \in Hdr : From(r, resp[r].hdr[h])

\* The invariant in three parts: who holds which Context and what is in it,
OwnershipInv ==
    /\ pool \subseteq Ctx
    /\ ctx \in [Ctx -> Context]
    /\ \A c \in Ctx : ctx[c].alen <= Len(ctx[c].slots)
    /\ own \in [Req -> Ctx \cup {None}]
    /\ pc \in [Req -> PC]
    /\ always \in [Req -> SUBSET Hdr]
    /\ HoldsWhileServing
    /\ ContextExclusive
    /\ PooledClean
    /\ ServedWithOwn
    /\ IdleUntouched

\* the responses,
ResponseInv ==
    /\ resp \in [Req -> Response]
    /\ want \in [Req -> Headers]
    /\ OwnHeaders
    /\ AlwaysHeadersKept

\* and the flags of each goroutine.
FlagsOK ==
    /\ panicking \in [Req -> BOOLEAN]
    /\ panicked \in [Req -> BOOLEAN]
    /\ files \in [Req -> BOOLEAN]
    /\ span \in [Req -> {"none", "open", "closed"}]
    /\ ops \in [Req -> 0..MaxOps]
    /\ down \in BOOLEAN

IInv == OwnershipInv /\ ResponseInv /\ FlagsOK

\* The initial state satisfies the invariant.
LEMMA InitInv == Init => IInv
  <1> SUFFICES ASSUME Init PROVE IInv
    OBVIOUS
  <1>1. NoHeaders \in Headers /\ ResetResponse \in Response
    BY DEF NoHeaders, Headers, ResetResponse, Response
  <1>2. ctx \in [Ctx -> Context] /\ \A c \in Ctx : ctx[c].alen <= Len(ctx[c].slots)
    BY NewContextGood DEF Init, Good
  <1>3. HoldsWhileServing /\ ContextExclusive /\ PooledClean /\ ServedWithOwn /\ IdleUntouched
    BY DEF Init, HoldsWhileServing, ContextExclusive, PooledClean, ServedWithOwn, IdleUntouched, Serving
  <1>4. OwnershipInv
    BY <1>2, <1>3 DEF Init, OwnershipInv, PC
  <1>5. OwnHeaders /\ AlwaysHeadersKept
    BY <1>1 DEF Init, OwnHeaders, AlwaysHeadersKept, ResetResponse, NoHeaders, From
  <1>6. ResponseInv
    BY <1>1, <1>5 DEF Init, ResponseInv
  <1>7. FlagsOK
    <2>1. 0 \in 0..MaxOps
      BY ConstantsAssumption
    <2> QED  BY <2>1 DEF Init, FlagsOK
  <1> QED  BY <1>4, <1>6, <1>7 DEF IInv

\* The Context of a request that is served: it exists and is its own.
LEMMA Served ==
  ASSUME OwnershipInv, NEW r \in Req, pc[r] \in Serving
  PROVE  /\ own[r] \in Ctx /\ own[r] \notin pool
         /\ Mine(r, ctx[own[r]]) /\ Preserved(ctx[own[r]]) = always[r]
         /\ \A q \in Req \ {r} : own[q] # own[r]
  BY DEF OwnershipInv, HoldsWhileServing, ContextExclusive, ServedWithOwn

\* A step by which a served request changes its own Context into one that is
\* still its own keeps the ownership part.
LEMMA ServingStep ==
  ASSUME OwnershipInv, NEW r \in Req, pc[r] \in Serving,
         NEW y, Mine(r, y), NEW p \in Serving,
         ctx' = [ctx EXCEPT ![own[r]] = y],
         own' = own, pool' = pool,
         pc' = [pc EXCEPT ![r] = p],
         always' = [always EXCEPT ![r] = Preserved(y)],
         Preserved(y) \in SUBSET Hdr
  PROVE  OwnershipInv'
  <1>1. /\ own[r] \in Ctx /\ own[r] \notin pool
        /\ \A q \in Req \ {r} : own[q] # own[r]
    BY Served
  <1>2. /\ ctx' \in [Ctx -> Context]
        /\ \A c \in Ctx : ctx'[c].alen <= Len(ctx'[c].slots)
    BY <1>1 DEF OwnershipInv, Mine, Good
  <1>3. own' \in [Req -> Ctx \cup {None}] /\ pool' \subseteq Ctx
    BY DEF OwnershipInv
  <1>4. pc' \in [Req -> PC] /\ always' \in [Req -> SUBSET Hdr]
    BY DEF OwnershipInv, Serving, PC
  <1>5. HoldsWhileServing' /\ ContextExclusive'
    BY <1>1 DEF OwnershipInv, HoldsWhileServing, ContextExclusive
  <1>6. PooledClean'
    BY <1>1 DEF OwnershipInv, PooledClean
  <1>7. ServedWithOwn'
    <2> SUFFICES ASSUME NEW q \in Req
                 PROVE  /\ pc'[q] \in Serving => /\ Mine(q, ctx'[own'[q]])
                                                  /\ Preserved(ctx'[own'[q]]) = always'[q]
                        /\ pc'[q] = "put" => Clean(ctx'[own'[q]])
      BY DEF ServedWithOwn
    <2>1. CASE q = r
      BY <1>1, <2>1 DEF OwnershipInv, Serving
    <2>2. CASE q # r
      <3>1. pc'[q] = pc[q] /\ always'[q] = always[q] /\ ctx'[own'[q]] = ctx[own[q]]
        BY <1>1, <2>2 DEF OwnershipInv
      <3> QED  BY <3>1 DEF OwnershipInv, ServedWithOwn
    <2> QED  BY <2>1, <2>2
  <1>8. IdleUntouched'
    BY DEF OwnershipInv, IdleUntouched, Serving
  <1> QED  BY <1>2, <1>3, <1>4, <1>5, <1>6, <1>7, <1>8 DEF OwnershipInv

\* A step by which a served request keeps its Context as it is.
LEMMA ControlStep ==
  ASSUME OwnershipInv, NEW r \in Req, pc[r] \in Serving, NEW p \in Serving,
         ctx' = ctx, own' = own, pool' = pool, always' = always,
         pc' = [pc EXCEPT ![r] = p]
  PROVE  OwnershipInv'
  <1>0. PICK y : y = ctx[own[r]]
    OBVIOUS
  <1>1. Mine(r, y) /\ Preserved(y) = always[r] /\ Preserved(y) \in SUBSET Hdr
    BY <1>0, Served DEF OwnershipInv
  <1>2. ctx' = [ctx EXCEPT ![own[r]] = y] /\ always' = [always EXCEPT ![r] = Preserved(y)]
    BY <1>0, <1>1 DEF OwnershipInv
  <1> QED  BY <1>1, <1>2, ServingStep

\* Calling a method counts one operation and moves no goroutine.
LEMMA CallCounted ==
  ASSUME FlagsOK, NEW r \in Req, NEW m, CallsMethod(r, m)
  PROVE  ops' \in [Req -> 0..MaxOps] /\ pc[r] = "handler"
  BY ConstantsAssumption DEF FlagsOK, CallsMethod

\* A method that only changes the Context, into one that is still the
\* request's own, keeps the invariant.
LEMMA ContextMethod ==
  ASSUME IInv, NEW r \in Req, NEW m, NEW y, UpdatesContext(r, m, y),
         Mine(r, y), Preserved(y) = always[r]
  PROVE  IInv'
  <1> USE DEF UpdatesContext, IInv
  <1>1. pc[r] \in Serving /\ ops' \in [Req -> 0..MaxOps]
    BY CallCounted DEF Serving
  <1>2. Preserved(y) \in SUBSET Hdr
    BY DEF OwnershipInv
  <1>3. pc' = [pc EXCEPT ![r] = pc[r]] /\ always' = [always EXCEPT ![r] = Preserved(y)]
    BY DEF OwnershipInv
  <1>4. PICK p : p = pc[r]
    OBVIOUS
  <1>5. OwnershipInv'
    BY <1>1, <1>2, <1>3, <1>4, ServingStep
  <1>6. ResponseInv'
    BY DEF ResponseInv, OwnHeaders, AlwaysHeadersKept
  <1>7. FlagsOK'
    BY <1>1 DEF FlagsOK
  <1> QED  BY <1>5, <1>6, <1>7

\* A change of one response and of the headers it should carry alike.
LEMMA ResponseStep ==
  ASSUME ResponseInv, NEW r \in Req, NEW p \in Response,
         \A h \in Hdr : From(r, p.hdr[h]),
         resp' = [resp EXCEPT ![r] = p], want' = [want EXCEPT ![r] = p.hdr]
  PROVE  ResponseInv'
  <1>1. resp' \in [Req -> Response] /\ want' \in [Req -> Headers]
    BY DEF ResponseInv, Response
  <1>2. OwnHeaders' /\ AlwaysHeadersKept'
    BY DEF ResponseInv, OwnHeaders, AlwaysHeadersKept
  <1> QED  BY <1>1, <1>2 DEF ResponseInv

\* A method that only changes the response keeps the invariant.
LEMMA ResponseMethod ==
  ASSUME IInv, NEW r \in Req, NEW m, NEW p \in Response,
         UpdatesResponse(r, m, p, p.hdr),
         \A h \in Hdr : From(r, p.hdr[h])
  PROVE  IInv'
  <1> USE DEF UpdatesResponse, IInv
  <1>1. pc[r] \in Serving /\ ops' \in [Req -> 0..MaxOps]
    BY CallCounted DEF Serving
  <1>2. PICK q : q = pc[r]
    OBVIOUS
  <1>3. pc' = [pc EXCEPT ![r] = q] /\ q \in Serving
    BY <1>1, <1>2 DEF OwnershipInv
  <1>4. OwnershipInv'
    BY <1>1, <1>3, ControlStep
  <1>5. ResponseInv'
    BY ResponseStep
  <1>6. FlagsOK'
    BY <1>1 DEF FlagsOK
  <1> QED  BY <1>4, <1>5, <1>6

\* HandleError keeps the Context the request's own and renders a response
\* with the request's own SetAlways headers.
LEMMA HandleErrorStep ==
  ASSUME IInv, NEW r \in Req, NEW x, Mine(r, x), Preserved(x) = always[r],
         NEW isNil, NEW out, NEW eh, NEW v \in Val,
         HandleError(r, x, isNil, out, eh, v)
  PROVE  /\ ResponseInv'
         /\ \E y : /\ Mine(r, y) /\ Preserved(y) = always[r]
                   /\ ctx' = [ctx EXCEPT ![own[r]] = y]
  <1> USE DEF IInv
  <1>1. PICK hdr : hdr = resp[r].hdr
    OBVIOUS
  <1>2. hdr \in Headers /\ want[r] = hdr /\ \A h \in Hdr : From(r, hdr[h])
    BY <1>1 DEF ResponseInv, Response, OwnHeaders, AlwaysHeadersKept
  <1>3. PICK y : y = Capture(x, hdr)
    OBVIOUS
  <1> DEFINE k == [h \in Hdr |-> IF h \in always[r] THEN hdr[h] ELSE None]
             e == ErrorHeadersOver(k, out, eh, <<r, v>>)
  <1>4. Mine(r, y) /\ Preserved(y) = always[r] /\ Apply(y) = k
    BY <1>2, <1>3, CaptureApply
  <1>5. e \in Headers /\ \A h \in Hdr : From(r, e[h])
    BY <1>2 DEF Headers, Datum, ErrorHeadersOver, From
  <1>6. PICK p : p = Rendered(e, out)
    OBVIOUS
  <1>7. p \in Response /\ p.hdr = e
    BY <1>5, <1>6 DEF Response, Rendered
  <1>8. /\ ctx' = [ctx EXCEPT ![own[r]] = y]
        /\ resp' = [resp EXCEPT ![r] = p]
    BY <1>1, <1>3, <1>4, <1>6 DEF HandleError
  <1>9. want' = [want EXCEPT ![r] = e]
    BY <1>2 DEF HandleError, ResponseInv
  <1>10. ResponseInv'
    BY <1>5, <1>7, <1>8, <1>9, ResponseStep
  <1> QED  BY <1>4, <1>8, <1>10
-----------------------------------------------------------------------------
(* One lemma per group of actions.                                         *)

\* acquireCtx, with a clean Context nobody holds that is no longer pooled.
LEMMA AcquireStep ==
  ASSUME IInv, NEW r \in Req, NEW c \in Ctx, NEW x, Good(x), Clean(x),
         AcquireWith(r, c, x), c \notin pool', pool' \subseteq pool,
         \A q \in Req : own[q] # c
  PROVE  IInv'
  <1> USE DEF IInv
  <1>1. PICK kind \in Forms :
          /\ pc[r] = "idle"
          /\ ctx' = [ctx EXCEPT ![c] = Attach(x, r, kind)]
          /\ own' = [own EXCEPT ![r] = c]
          /\ pc' = [pc EXCEPT ![r] = "wrapped"]
          /\ files' = [files EXCEPT ![r] = (kind = "multipart")]
          /\ UNCHANGED <<panicking, panicked, resp, span, ops, always, want, down>>
    BY DEF AcquireWith
  <1>2. PICK y : y = Attach(x, r, kind)
    OBVIOUS
  <1>3. Mine(r, y) /\ Preserved(y) = {} /\ y \in Context /\ y.alen <= Len(y.slots)
    BY <1>2, AttachMine DEF Mine, Good
  <1>4. c # None
    BY ConstantsAssumption
  <1>5. /\ ctx' \in [Ctx -> Context]
        /\ \A d \in Ctx : ctx'[d].alen <= Len(ctx'[d].slots)
    BY <1>1, <1>2, <1>3 DEF OwnershipInv
  <1>6. /\ own' \in [Req -> Ctx \cup {None}] /\ pool' \subseteq Ctx
        /\ pc' \in [Req -> PC] /\ always' \in [Req -> SUBSET Hdr]
    BY <1>1 DEF OwnershipInv, PC
  <1>7. HoldsWhileServing'
    BY <1>1, <1>4 DEF OwnershipInv, HoldsWhileServing, Serving
  <1>8. ContextExclusive'
    BY <1>1 DEF OwnershipInv, ContextExclusive
  <1>9. PooledClean'
    BY <1>1 DEF OwnershipInv, PooledClean
  <1>10. ServedWithOwn'
    <2> SUFFICES ASSUME NEW q \in Req
                 PROVE  /\ pc'[q] \in Serving => /\ Mine(q, ctx'[own'[q]])
                                                  /\ Preserved(ctx'[own'[q]]) = always'[q]
                        /\ pc'[q] = "put" => Clean(ctx'[own'[q]])
      BY DEF ServedWithOwn
    <2>1. CASE q = r
      BY <1>1, <1>2, <1>3, <2>1 DEF OwnershipInv, IdleUntouched
    <2>2. CASE q # r
      <3>1. pc'[q] = pc[q] /\ always'[q] = always[q] /\ ctx'[own'[q]] = ctx[own[q]]
        BY <1>1, <2>2 DEF OwnershipInv
      <3> QED  BY <3>1 DEF OwnershipInv, ServedWithOwn
    <2> QED  BY <2>1, <2>2
  <1>11. IdleUntouched'
    BY <1>1 DEF OwnershipInv, IdleUntouched
  <1>12. OwnershipInv'
    BY <1>5, <1>6, <1>7, <1>8, <1>9, <1>10, <1>11 DEF OwnershipInv
  <1>13. ResponseInv'
    BY <1>1 DEF ResponseInv, OwnHeaders, AlwaysHeadersKept
  <1>14. FlagsOK'
    BY <1>1 DEF FlagsOK
  <1> QED  BY <1>12, <1>13, <1>14

\* Both ways to acquire a Context, and the collection of a pooled one.
LEMMA PoolStep ==
  ASSUME IInv, NEW r \in Req, Acquire(r) \/ CollectPooled
  PROVE  IInv'
  <1> USE DEF IInv
  <1>1. CASE AcquirePooled(r)
    <2>1. PICK c \in pool : pool' = pool \ {c} /\ AcquireWith(r, c, ctx[c])
      BY <1>1 DEF AcquirePooled
    <2>2. PICK x : x = ctx[c]
      OBVIOUS
    <2>3. c \in Ctx /\ Good(x) /\ Clean(x) /\ \A q \in Req : own[q] # c
      BY <2>2, ConstantsAssumption DEF OwnershipInv, PooledClean, ContextExclusive, Good
    <2> QED  BY <2>1, <2>2, <2>3, AcquireStep
  <1>2. CASE AcquireNew(r)
    <2>1. PICK c \in Ctx \ pool : /\ \A q \in Req : own[q] # c
                                   /\ AcquireWith(r, c, NewContext)
                                   /\ UNCHANGED pool
      BY <1>2 DEF AcquireNew
    <2>2. PICK x : x = NewContext
      OBVIOUS
    <2> QED  BY <2>1, <2>2, NewContextGood, AcquireStep
  <1>3. CASE CollectPooled
    <2>1. OwnershipInv'
      BY <1>3 DEF CollectPooled, OwnershipInv, HoldsWhileServing, ContextExclusive,
                  PooledClean, ServedWithOwn, IdleUntouched
    <2>2. ResponseInv'
      BY <1>3 DEF CollectPooled, ResponseInv, OwnHeaders, AlwaysHeadersKept
    <2>3. FlagsOK'
      BY <1>3 DEF CollectPooled, FlagsOK
    <2> QED  BY <2>1, <2>2, <2>3
  <1> QED  BY <1>1, <1>2, <1>3 DEF Acquire

\* Steps that only move control: they keep Contexts and responses.
LEMMA MoveStep ==
  ASSUME IInv, NEW r \in Req,
         Start(r) \/ Return(r) \/ Panic(r) \/ FinishSpan(r) \/ RecvNothing(r)
  PROVE  IInv'
  <1> USE DEF IInv
  <1>1. /\ pc[r] \in Serving
        /\ \E p \in Serving : pc' = [pc EXCEPT ![r] = p]
        /\ UNCHANGED <<pool, ctx, own, resp, always, want>>
    BY DEF Start, StartHandler, InstrumenterPanics, Return, Panic, StartsPanic,
           FinishSpan, RecvNothing, Serving
  <1>2. OwnershipInv'
    BY <1>1, ControlStep
  <1>3. ResponseInv'
    BY <1>1 DEF ResponseInv, OwnHeaders, AlwaysHeadersKept
  <1>4. FlagsOK'
    BY DEF Start, StartHandler, InstrumenterPanics, Return, Panic, StartsPanic,
           FinishSpan, RecvNothing, FlagsOK
  <1> QED  BY <1>2, <1>3, <1>4

\* Methods on the Context's fields.
LEMMA FieldStep ==
  ASSUME IInv, NEW r \in Req,
         SetUser(r) \/ AddLogFields(r) \/ ReplaceLogger(r) \/ Log(r) \/ SetContext(r)
  PROVE  IInv'
  <1>1. PICK x : x = ctx[own[r]]
    OBVIOUS
  <1>2. pc[r] = "handler"
    BY DEF SetUser, AddLogFields, ReplaceLogger, Log, SetContext, UpdatesContext, CallsMethod
  <1>3. Mine(r, x) /\ Preserved(x) = always[r]
    BY <1>1, <1>2, Served DEF IInv, Serving
  <1> SUFFICES \E m, y : UpdatesContext(r, m, y) /\ Mine(r, y) /\ Preserved(y) = Preserved(x)
    BY <1>3, ContextMethod
  <1>4. CASE SetUser(r)
    BY <1>1, <1>3, <1>4, UserMine DEF SetUser
  <1>5. CASE AddLogFields(r)
    <2>1. PICK v \in Val :
            UpdatesContext(r, "AddLogFields", WithLogField(x, "custom", <<r, v>>))
      BY <1>1, <1>5 DEF AddLogFields
    <2> QED  BY <1>3, <2>1, LogFieldMine DEF LogKey
  <1>6. CASE ReplaceLogger(r)
    <2>1. PICK v \in Val : UpdatesContext(r, "ReplaceLogger", WithLogger(x, <<r, v>>))
      BY <1>1, <1>6 DEF ReplaceLogger
    <2> QED  BY <1>3, <2>1, LoggerMine
  <1>7. CASE Log(r)
    BY <1>1, <1>3, <1>7, MaterializeMine DEF Log
  <1>8. CASE SetContext(r)
    BY <1>1, <1>3, <1>8, ReqCtxMine DEF SetContext
  <1> QED  BY <1>4, <1>5, <1>6, <1>7, <1>8

\* Methods on the response.
LEMMA HeaderStep ==
  ASSUME IInv, NEW r \in Req, SetHeader(r) \/ WriteBody(r) \/ NotFound(r)
  PROVE  IInv'
  <1>1. PICK p0 : p0 = resp[r]
    OBVIOUS
  <1>2. p0 \in Response /\ want[r] = p0.hdr /\ \A h \in Hdr : From(r, p0.hdr[h])
    BY <1>1 DEF IInv, ResponseInv, OwnHeaders, AlwaysHeadersKept
  <1> SUFFICES \E m : \E p \in Response : /\ UpdatesResponse(r, m, p, p.hdr)
                                         /\ \A h \in Hdr : From(r, p.hdr[h])
    BY ResponseMethod
  <1>3. CASE SetHeader(r)
    <2>1. PICK h \in Hdr, d \in ({r} \X Val) \cup {None} :
            UpdatesResponse(r, "SetHeader", [p0 EXCEPT !.hdr[h] = d], [p0.hdr EXCEPT ![h] = d])
      BY <1>1, <1>2, <1>3 DEF SetHeader
    <2> DEFINE p == [p0 EXCEPT !.hdr[h] = d]
    <2>2. p \in Response /\ p.hdr = [p0.hdr EXCEPT ![h] = d]
      BY <1>2 DEF Response, Headers, Datum
    <2>3. \A g \in Hdr : From(r, p.hdr[g])
      BY <1>2, <2>2 DEF From, Response, Headers
    <2> HIDE DEF p
    <2> QED  BY <2>1, <2>2, <2>3 DEF p
  <1>4. CASE WriteBody(r)
    <2> DEFINE p == [p0 EXCEPT !.body = "handler"]
    <2>1. p \in Response /\ p.hdr = p0.hdr
      BY <1>2 DEF Response
    <2>2. UpdatesResponse(r, "WriteBody", p, p0.hdr)
      BY <1>1, <1>2, <1>4 DEF WriteBody
    <2> HIDE DEF p
    <2> QED  BY <1>2, <2>1, <2>2
  <1>5. CASE NotFound(r)
    <2> DEFINE p == [status |-> "notfound", hdr |-> NoHeaders, body |-> "notfound"]
    <2>1. p \in Response /\ p.hdr = NoHeaders
      BY DEF Response, NoHeaders, Headers
    <2>2. \A h \in Hdr : From(r, NoHeaders[h])
      BY DEF NoHeaders, From
    <2>3. UpdatesResponse(r, "NotFound", p, NoHeaders)
      BY <1>5 DEF NotFound
    <2> HIDE DEF p
    <2> QED  BY <2>1, <2>2, <2>3
  <1> QED  BY <1>3, <1>4, <1>5

\* Header.SetAlways.
LEMMA SetAlwaysStep ==
  ASSUME IInv, NEW r \in Req, SetAlways(r)
  PROVE  IInv'
  <1> USE DEF IInv
  <1>1. PICK h \in Hdr, v \in Val :
          /\ CallsMethod(r, "SetAlways")
          /\ resp' = [resp EXCEPT ![r].hdr[h] = <<r, v>>]
          /\ ctx' = [ctx EXCEPT ![own[r]] = Preserve(ctx[own[r]], h)]
          /\ want' = [want EXCEPT ![r][h] = <<r, v>>]
          /\ always' = [always EXCEPT ![r] = @ \cup {h}]
          /\ UNCHANGED <<pool, own, pc, panicking, panicked, files, span, down>>
    BY DEF SetAlways
  <1>2. pc[r] = "handler" /\ ops' \in [Req -> 0..MaxOps]
    BY <1>1, CallCounted
  <1>3. PICK x : x = ctx[own[r]]
    OBVIOUS
  <1>4. Mine(r, x) /\ Preserved(x) = always[r]
    BY <1>2, <1>3, Served DEF Serving
  <1>5. PICK y : y = Preserve(x, h)
    OBVIOUS
  <1>6. Mine(r, y) /\ Preserved(y) = always[r] \cup {h}
    BY <1>4, <1>5, PreserveMine
  <1>7. OwnershipInv'
    <2>1. always' = [always EXCEPT ![r] = Preserved(y)] /\ Preserved(y) \in SUBSET Hdr
      BY <1>1, <1>6 DEF OwnershipInv
    <2>2. pc' = [pc EXCEPT ![r] = "handler"] /\ "handler" \in Serving
      BY <1>1, <1>2 DEF OwnershipInv, Serving
    <2>3. ctx' = [ctx EXCEPT ![own[r]] = y]
      BY <1>1, <1>3, <1>5
    <2> QED  BY <1>1, <1>2, <1>6, <2>1, <2>2, <2>3, ServingStep
  <1>8. ResponseInv'
    <2>1. PICK p0 : p0 = resp[r]
      OBVIOUS
    <2>2. p0 \in Response /\ want[r] = p0.hdr /\ \A g \in Hdr : From(r, p0.hdr[g])
      BY <2>1 DEF ResponseInv, OwnHeaders, AlwaysHeadersKept
    <2>3. PICK p : p = [p0 EXCEPT !.hdr[h] = <<r, v>>]
      OBVIOUS
    <2>4. p \in Response /\ p.hdr = [p0.hdr EXCEPT ![h] = <<r, v>>]
      BY <2>2, <2>3 DEF Response, Headers, Datum
    <2>5. \A g \in Hdr : From(r, p.hdr[g])
      BY <2>2, <2>4 DEF From, Response, Headers
    <2>6. resp' = [resp EXCEPT ![r] = p] /\ want' = [want EXCEPT ![r] = p.hdr]
      BY <1>1, <2>1, <2>2, <2>3, <2>4 DEF ResponseInv
    <2> QED  BY <2>4, <2>5, <2>6, ResponseStep
  <1>9. FlagsOK'
    BY <1>1, <1>2 DEF FlagsOK
  <1> QED  BY <1>7, <1>8, <1>9

\* Context.Error in the handler, and Recv after a panic.
LEMMA ErrorStep ==
  ASSUME IInv, NEW r \in Req, (\E isNil \in BOOLEAN : Error(r, isNil)) \/ RecvPanic(r)
  PROVE  IInv'
  <1> USE DEF IInv
  <1>1. PICK x0 : x0 = ctx[own[r]]
    OBVIOUS
  <1>2. pc[r] \in {"handler", "recv"}
    BY DEF Error, RecvPanic, CallsMethod
  <1>3. Mine(r, x0) /\ Preserved(x0) = always[r] /\ Preserved(x0) \in SUBSET Hdr
    BY <1>1, <1>2, Served DEF Serving, OwnershipInv
  <1>4. \E x, isNil, out, eh : \E v \in Val :
          Mine(r, x) /\ Preserved(x) = always[r] /\ HandleError(r, x, isNil, out, eh, v)
    <2>1. CASE \E isNil \in BOOLEAN : Error(r, isNil)
      BY <1>1, <1>3, <2>1 DEF Error
    <2>2. CASE RecvPanic(r)
      <3>1. Mine(r, Materialize(x0)) /\ Preserved(Materialize(x0)) = always[r]
        BY <1>3, MaterializeMine
      <3> QED  BY <1>1, <2>2, <3>1 DEF RecvPanic
    <2> QED  BY <2>1, <2>2
  <1>5. /\ ResponseInv'
        /\ \E y : /\ Mine(r, y) /\ Preserved(y) = always[r]
                  /\ ctx' = [ctx EXCEPT ![own[r]] = y]
    BY <1>4, HandleErrorStep
  <1>6. PICK y : /\ Mine(r, y) /\ Preserved(y) = always[r]
                 /\ ctx' = [ctx EXCEPT ![own[r]] = y]
    BY <1>5
  <1>7. /\ \E p \in Serving : pc' = [pc EXCEPT ![r] = p]
        /\ UNCHANGED <<pool, own, always>>
    BY <1>2 DEF Error, RecvPanic, StartsPanic, Serving, OwnershipInv
  <1>8. always' = [always EXCEPT ![r] = Preserved(y)]
    BY <1>6, <1>7 DEF OwnershipInv
  <1>9. OwnershipInv'
    BY <1>2, <1>3, <1>6, <1>7, <1>8, ServingStep DEF Serving
  <1>10. FlagsOK'
    <2>1. CASE \E isNil \in BOOLEAN : Error(r, isNil)
      <3>1. ops' \in [Req -> 0..MaxOps]
        BY <2>1, CallCounted DEF Error
      <3> QED  BY <2>1, <3>1 DEF Error, StartsPanic, FlagsOK
    <2>2. CASE RecvPanic(r)
      BY <2>2 DEF RecvPanic, FlagsOK
    <2> QED  BY <2>1, <2>2
  <1> QED  BY <1>5, <1>9, <1>10

\* releaseCtx: reset, then Put.
LEMMA ReleaseStep ==
  ASSUME IInv, NEW r \in Req, Reset(r) \/ Put(r)
  PROVE  IInv'
  <1> USE DEF IInv
  <1>1. ResponseInv'
    BY DEF Reset, Put, ResponseInv, OwnHeaders, AlwaysHeadersKept
  <1>2. FlagsOK'
    BY DEF Reset, Put, FlagsOK
  <1>3. CASE Reset(r)
    <2>1. pc[r] \in Serving /\ pc[r] = "reset"
      BY <1>3 DEF Reset, Serving
    <2>2. PICK y : y = Clear(ctx[own[r]])
      OBVIOUS
    <2>3. /\ own[r] \in Ctx /\ own[r] \notin pool
          /\ \A q \in Req \ {r} : own[q] # own[r]
          /\ Good(y) /\ Clean(y)
      BY <2>1, <2>2, Served, ClearClean DEF Mine
    <2>4. /\ pc' = [pc EXCEPT ![r] = "put"] /\ ctx' = [ctx EXCEPT ![own[r]] = y]
          /\ UNCHANGED <<pool, own, always>>
      BY <1>3, <2>2 DEF Reset
    <2>5. /\ ctx' \in [Ctx -> Context]
          /\ \A c \in Ctx : ctx'[c].alen <= Len(ctx'[c].slots)
      BY <2>3, <2>4 DEF OwnershipInv, Good
    <2>6. HoldsWhileServing' /\ ContextExclusive' /\ PooledClean' /\ IdleUntouched'
      BY <2>1, <2>3, <2>4 DEF OwnershipInv, HoldsWhileServing, ContextExclusive,
                              PooledClean, IdleUntouched, Serving
    <2>7. ServedWithOwn'
      <3> SUFFICES ASSUME NEW q \in Req
                   PROVE  /\ pc'[q] \in Serving => /\ Mine(q, ctx'[own'[q]])
                                                    /\ Preserved(ctx'[own'[q]]) = always'[q]
                          /\ pc'[q] = "put" => Clean(ctx'[own'[q]])
        BY DEF ServedWithOwn
      <3>1. CASE q = r
        BY <2>3, <2>4, <3>1 DEF OwnershipInv, Serving
      <3>2. CASE q # r
        <4>1. pc'[q] = pc[q] /\ always'[q] = always[q] /\ ctx'[own'[q]] = ctx[own[q]]
          BY <2>3, <2>4, <3>2 DEF OwnershipInv
        <4> QED  BY <4>1 DEF OwnershipInv, ServedWithOwn
      <3> QED  BY <3>1, <3>2
    <2>8. OwnershipInv'
      BY <2>4, <2>5, <2>6, <2>7 DEF OwnershipInv, PC
    <2> QED  BY <1>1, <1>2, <2>8
  <1>4. CASE Put(r)
    <2>1. pc[r] = "put"
      BY <1>4 DEF Put
    <2>2. own[r] # None /\ own[r] \in Ctx /\ \A q \in Req \ {r} : own[q] # own[r]
      BY <2>1 DEF OwnershipInv, HoldsWhileServing, ContextExclusive
    <2>3. /\ pool' = pool \cup {own[r]} /\ own' = [own EXCEPT ![r] = None]
          /\ \E p \in {"crashed", "done"} : pc' = [pc EXCEPT ![r] = p]
          /\ UNCHANGED <<ctx, always>>
      BY <1>4 DEF Put
    <2>4. HoldsWhileServing' /\ ContextExclusive' /\ PooledClean' /\ IdleUntouched'
      BY <2>1, <2>2, <2>3 DEF OwnershipInv, HoldsWhileServing, ContextExclusive,
                              PooledClean, IdleUntouched, ServedWithOwn, Serving
    <2>5. ServedWithOwn'
      BY <2>3 DEF OwnershipInv, ServedWithOwn, Serving
    <2>6. OwnershipInv'
      BY <2>2, <2>3, <2>4, <2>5 DEF OwnershipInv, PC
    <2> QED  BY <1>1, <1>2, <2>6
  <1> QED  BY <1>3, <1>4

\* Every step keeps the invariant.
LEMMA NextInv == IInv /\ [Next]_vars => IInv'
  <1> SUFFICES ASSUME IInv, [Next]_vars PROVE IInv'
    OBVIOUS
  <1>1. CASE UNCHANGED vars
    BY <1>1 DEF vars, IInv, OwnershipInv, ResponseInv, FlagsOK, HoldsWhileServing,
                ContextExclusive, PooledClean, ServedWithOwn, IdleUntouched,
                OwnHeaders, AlwaysHeadersKept
  <1>2. ASSUME NEW r \in Req, Acquire(r) \/ Start(r) \/ Handler(r) \/ Deferred(r)
        PROVE  IInv'
    BY <1>2, PoolStep, MoveStep, FieldStep, HeaderStep, SetAlwaysStep, ErrorStep, ReleaseStep
       DEF Handler, Deferred
  <1>3. CASE CollectPooled
    <2>1. CASE Req = {}
      BY <1>3, <2>1 DEF CollectPooled, IInv, OwnershipInv, ResponseInv, FlagsOK,
                HoldsWhileServing, ContextExclusive, PooledClean, ServedWithOwn,
                IdleUntouched, OwnHeaders, AlwaysHeadersKept
    <2>2. CASE Req # {}
      BY <1>3, <2>2, PoolStep
    <2> QED  BY <2>1, <2>2
  <1> QED  BY <1>1, <1>2, <1>3 DEF Next, Finished

-----------------------------------------------------------------------------
(* What a panic leaves, and what releaseCtx releases: two invariants on    *)
(* top of IInv, each about one request at a time.                          *)

ErrorRendered(p) == p.status \in {"error", "custom"} /\ p.body \in {"error", "custom"}

\* Where a panic can be: none until the handler is left, then it unwinds
\* until Recv renders it, and one that Recv let through ends the process.
PanicAt(r) ==
    /\ pc[r] \in {"idle", "wrapped", "handler"} => ~panicking[r] /\ ~panicked[r]
    /\ pc[r] \in {"unwind", "recv"} => (panicked[r] => panicking[r])
    /\ pc[r] \in {"reset", "put", "done"} =>
        (panicked[r] /\ ~panicking[r] => ErrorRendered(resp[r]))
    /\ pc[r] = "done" => ~panicking[r]

\* What a request still has to release: the files belong to the form of the
\* Context it holds.
ResourcesAt(r) ==
    /\ pc[r] \in {"idle", "wrapped"} => span[r] = "none"
    /\ pc[r] \in {"recv", "reset", "put", "done", "crashed"} => span[r] # "open"
    /\ pc[r] \in Serving => (files[r] => ctx[own[r]].form.kind = "multipart")
    /\ pc[r] \in {"idle", "put", "done", "crashed"} => ~files[r]

EndInv == \A r \in Req : PanicAt(r) /\ ResourcesAt(r)

LEMMA InitEnd == Init => EndInv
  BY DEF Init, EndInv, PanicAt, ResourcesAt, Serving

\* A step of r as another request sees it.
Untouched(q) ==
    /\ UNCHANGED <<pc[q], panicking[q], panicked[q], resp[q], files[q], span[q], own[q]>>
    /\ pc[q] \in Serving => UNCHANGED ctx[own[q]]

LEMMA UntouchedEnd ==
  ASSUME NEW q \in Req, PanicAt(q), ResourcesAt(q), Untouched(q)
  PROVE  PanicAt(q)' /\ ResourcesAt(q)'
  BY DEF PanicAt, ResourcesAt, Untouched

\* Only reset takes the form away.
LEMMA FormKept ==
  ASSUME NEW x, Good(x)
  PROVE  /\ Materialize(x).form = x.form
         /\ \A u : WithUser(x, u).form = x.form
         /\ \A k, d : WithLogField(x, k, d).form = x.form
         /\ \A d : WithLogger(x, d).form = x.form
         /\ \A d : [x EXCEPT !.reqCtx = d].form = x.form
         /\ \A h : Preserve(x, h).form = x.form
         /\ \A hdr : Capture(x, hdr).form = x.form
  <1> USE DEF Good, Context
  <1>1. Materialize(x).form = x.form BY DEF Materialize, CacheID
  <1>2. \A u : WithUser(x, u).form = x.form BY DEF WithUser, WithLogField
  <1>3. \A h : Preserve(x, h).form = x.form BY DEF Preserve
  <1>4. \A hdr : Capture(x, hdr).form = x.form BY DEF Capture
  <1> QED  BY <1>1, <1>2, <1>3, <1>4 DEF WithLogField, WithLogger

\* A served request that writes its own Context writes nobody else's.
LEMMA ServedAlone ==
  ASSUME IInv, NEW r \in Req, pc[r] \in Serving, NEW y,
         ctx' = [ctx EXCEPT ![own[r]] = y], own' = own, NEW q \in Req \ {r}
  PROVE  ctx'[own'[r]] = y /\ ctx'[own'[q]] = ctx[own[q]]
  BY Served DEF IInv, OwnershipInv

\* The steps that keep every Context.
LEMMA MoveEnd ==
  ASSUME IInv, EndInv, NEW r \in Req,
         \/ Start(r) \/ Return(r) \/ Panic(r) \/ FinishSpan(r) \/ RecvNothing(r)
         \/ SetHeader(r) \/ WriteBody(r) \/ NotFound(r)
  PROVE  EndInv'
  <1> USE DEF Start, StartHandler, InstrumenterPanics, Return, Panic, StartsPanic, FinishSpan,
              RecvNothing, SetHeader, WriteBody, NotFound, UpdatesResponse, CallsMethod
  <1>1. \A q \in Req \ {r} : Untouched(q)
    BY DEF Untouched, IInv, OwnershipInv, ResponseInv, FlagsOK
  <1>2. UNCHANGED <<ctx, own, files>>
    OBVIOUS
  <1>3. PanicAt(r)'
    BY DEF EndInv, PanicAt, IInv, OwnershipInv, FlagsOK
  <1>4. ResourcesAt(r)'
    BY <1>2 DEF EndInv, ResourcesAt, IInv, OwnershipInv, FlagsOK, Serving
  <1> QED  BY <1>1, <1>3, <1>4, UntouchedEnd DEF EndInv

\* The steps that change the Context of a request in its handler.
LEMMA FieldEnd ==
  ASSUME IInv, EndInv, NEW r \in Req,
         SetUser(r) \/ AddLogFields(r) \/ ReplaceLogger(r) \/ Log(r) \/ SetContext(r) \/ SetAlways(r)
  PROVE  EndInv'
  <1>1. PICK x : x = ctx[own[r]]
    OBVIOUS
  <1>2. pc[r] = "handler"
    BY DEF SetUser, AddLogFields, ReplaceLogger, Log, SetContext, UpdatesContext, SetAlways, CallsMethod
  <1>3. Good(x)
    BY <1>1, <1>2, Served DEF IInv, Serving, Mine
  <1>4. \E y : y.form = x.form /\ ctx' = [ctx EXCEPT ![own[r]] = y]
    <2>1. CASE SetUser(r)  BY <1>1, <1>3, <2>1, FormKept DEF SetUser, UpdatesContext
    <2>2. CASE AddLogFields(r)
      <3>1. PICK v \in Val : ctx' = [ctx EXCEPT ![own[r]] = WithLogField(x, "custom", <<r, v>>)]
        BY <1>1, <2>2 DEF AddLogFields, UpdatesContext
      <3>2. WithLogField(x, "custom", <<r, v>>).form = x.form
        BY <1>3, FormKept
      <3> QED  BY <3>1, <3>2
    <2>3. CASE ReplaceLogger(r)  BY <1>1, <1>3, <2>3, FormKept DEF ReplaceLogger, UpdatesContext
    <2>4. CASE Log(r)  BY <1>1, <1>3, <2>4, FormKept DEF Log, UpdatesContext
    <2>5. CASE SetContext(r)  BY <1>1, <1>3, <2>5, FormKept DEF SetContext, UpdatesContext
    <2>6. CASE SetAlways(r)  BY <1>1, <1>3, <2>6, FormKept DEF SetAlways
    <2> QED  BY <2>1, <2>2, <2>3, <2>4, <2>5, <2>6
  <1>5. PICK y : y.form = x.form /\ ctx' = [ctx EXCEPT ![own[r]] = y]
    BY <1>4
  <1>6. UNCHANGED <<own, pc, panicking, panicked, files, span>>
    BY DEF SetUser, AddLogFields, ReplaceLogger, Log, SetContext, UpdatesContext, SetAlways
  <1>7. \A q \in Req \ {r} : resp'[q] = resp[q]
    BY DEF SetUser, AddLogFields, ReplaceLogger, Log, SetContext, UpdatesContext, SetAlways,
           IInv, ResponseInv
  <1>8. \A q \in Req \ {r} : Untouched(q)
    BY <1>2, <1>5, <1>6, <1>7, ServedAlone DEF Untouched, Serving
  <1>9. ctx'[own'[r]] = y
    BY <1>2, <1>5, <1>6, Served DEF IInv, OwnershipInv, Serving
  <1>10. PanicAt(r)'
    BY <1>2, <1>6 DEF EndInv, PanicAt
  <1>11. ResourcesAt(r)'
    BY <1>1, <1>2, <1>5, <1>6, <1>9 DEF EndInv, ResourcesAt, Serving
  <1> QED  BY <1>8, <1>10, <1>11, UntouchedEnd DEF EndInv

\* Context.Error and Recv: a response is an error's once an outcome other
\* than a panic was reached for an error that is not nil.
LEMMA ErrorEnd ==
  ASSUME IInv, EndInv, NEW r \in Req, (\E isNil \in BOOLEAN : Error(r, isNil)) \/ RecvPanic(r)
  PROVE  EndInv'
  <1>1. PICK x : x = ctx[own[r]]
    OBVIOUS
  <1>2. pc[r] \in {"handler", "recv"}
    BY DEF Error, RecvPanic, CallsMethod
  <1>3. Good(x) /\ Good(Materialize(x))
    BY <1>1, <1>2, Served, MaterializeMine DEF IInv, Serving, Mine
  <1>4. \E y : y.form = x.form /\ ctx' = [ctx EXCEPT ![own[r]] = y]
    <2>1. CASE \E isNil \in BOOLEAN : Error(r, isNil)
      BY <1>1, <1>3, <2>1, FormKept DEF Error, HandleError
    <2>2. CASE RecvPanic(r)
      <3>1. \A hdr : Capture(Materialize(x), hdr).form = x.form
        BY <1>3, FormKept
      <3> QED  BY <1>1, <2>2, <3>1 DEF RecvPanic, HandleError
    <2> QED  BY <2>1, <2>2
  <1>5. PICK y : y.form = x.form /\ ctx' = [ctx EXCEPT ![own[r]] = y]
    BY <1>4
  <1>6. UNCHANGED <<own, files, span>>
    BY DEF Error, RecvPanic
  <1>7. \A q \in Req \ {r} : UNCHANGED <<pc[q], panicking[q], panicked[q], resp[q]>>
    <2> SUFFICES ASSUME NEW q \in Req \ {r}
                 PROVE  UNCHANGED <<pc[q], panicking[q], panicked[q], resp[q]>>
      OBVIOUS
    <2>1. resp'[q] = resp[q]  BY DEF Error, RecvPanic, HandleError, IInv, ResponseInv
    <2>2. pc'[q] = pc[q]  BY DEF Error, RecvPanic, StartsPanic, IInv, OwnershipInv
    <2>3. UNCHANGED <<panicking[q], panicked[q]>>  BY DEF Error, RecvPanic, StartsPanic, IInv, FlagsOK
    <2> QED  BY <2>1, <2>2, <2>3
  <1>8. \A q \in Req \ {r} : Untouched(q)
    BY <1>2, <1>5, <1>6, <1>7, ServedAlone DEF Untouched, Serving
  <1>9. ctx'[own'[r]] = y
    BY <1>2, <1>5, <1>6, Served DEF IInv, OwnershipInv, Serving
  <1>10. PanicAt(r)'
    <2>1. CASE \E isNil \in BOOLEAN : Error(r, isNil)
      BY <1>2, <2>1 DEF Error, CallsMethod, StartsPanic, EndInv, PanicAt, IInv, OwnershipInv, FlagsOK
    <2>2. CASE RecvPanic(r)
      <3>1. PICK out \in {"handled", "default", "panic"}, eh \in Hdr \cup {None}, v \in Val :
              /\ pc' = [pc EXCEPT ![r] = "reset"]
              /\ panicking' = [panicking EXCEPT ![r] = (out = "panic")]
              /\ HandleError(r, Materialize(ctx[own[r]]), FALSE, out, eh, v)
        BY <2>2 DEF RecvPanic
      <3>2. pc'[r] = "reset"
        BY <3>1 DEF IInv, OwnershipInv
      <3>3. panicking'[r] = (out = "panic")
        BY <3>1 DEF IInv, FlagsOK
      <3>4. out # "panic" => ErrorRendered(resp'[r])
        BY <3>1 DEF HandleError, Rendered, ErrorRendered, IInv, ResponseInv
      <3> QED  BY <3>2, <3>3, <3>4 DEF PanicAt
    <2> QED  BY <2>1, <2>2
  <1>11. ResourcesAt(r)'
    <2>1. pc'[r] \in {"handler", "unwind", "reset"}
          /\ (pc'[r] = "reset" => pc[r] = "recv")
      BY <1>2 DEF Error, CallsMethod, StartsPanic, RecvPanic, IInv, OwnershipInv
    <2> QED  BY <1>1, <1>2, <1>5, <1>6, <1>9, <2>1 DEF EndInv, ResourcesAt, Serving
  <1> QED  BY <1>8, <1>10, <1>11, UntouchedEnd DEF EndInv

\* acquireCtx: the files of a multipart form are the new form's.
LEMMA AcquireEnd ==
  ASSUME IInv, EndInv, NEW r \in Req, NEW c \in Ctx, NEW x, Good(x),
         AcquireWith(r, c, x), \A q \in Req : own[q] # c
  PROVE  EndInv'
  <1>1. PICK kind \in Forms :
          /\ pc[r] = "idle"
          /\ ctx' = [ctx EXCEPT ![c] = Attach(x, r, kind)]
          /\ own' = [own EXCEPT ![r] = c]
          /\ pc' = [pc EXCEPT ![r] = "wrapped"]
          /\ files' = [files EXCEPT ![r] = (kind = "multipart")]
          /\ UNCHANGED <<panicking, panicked, resp, span, ops, always, want, down>>
    BY DEF AcquireWith
  <1>2. \A q \in Req \ {r} : Untouched(q)
    <2> SUFFICES ASSUME NEW q \in Req \ {r} PROVE Untouched(q)
      OBVIOUS
    <2>1. UNCHANGED <<pc[q], panicking[q], panicked[q], resp[q], span[q], own[q]>>
      BY <1>1 DEF IInv, OwnershipInv
    <2>2. files'[q] = files[q]
      BY <1>1 DEF IInv, FlagsOK
    <2>3. pc[q] \in Serving => ctx'[own'[q]] = ctx[own[q]]
      BY <1>1, <2>1, Served DEF IInv, OwnershipInv
    <2> QED  BY <2>1, <2>2, <2>3 DEF Untouched
  <1>3. pc'[r] = "wrapped" /\ own'[r] = c /\ ctx'[own'[r]] = Attach(x, r, kind)
    BY <1>1 DEF IInv, OwnershipInv
  <1>4. files'[r] = (kind = "multipart")
    BY <1>1 DEF IInv, FlagsOK
  <1>5. kind = "multipart" => Attach(x, r, kind).form.kind = "multipart"
    BY DEF Attach, Good, Context
  <1>6. PanicAt(r)'
    BY <1>1, <1>3 DEF EndInv, PanicAt
  <1>7. ResourcesAt(r)'
    BY <1>1, <1>3, <1>4, <1>5 DEF EndInv, ResourcesAt, Serving
  <1> QED  BY <1>2, <1>6, <1>7, UntouchedEnd DEF EndInv

LEMMA PoolEnd ==
  ASSUME IInv, EndInv, NEW r \in Req, Acquire(r)
  PROVE  EndInv'
  <1>1. CASE AcquirePooled(r)
    <2>1. PICK c \in pool : AcquireWith(r, c, ctx[c])
      BY <1>1 DEF AcquirePooled
    <2>2. PICK x : x = ctx[c]
      OBVIOUS
    <2>3. c \in Ctx /\ Good(x) /\ \A q \in Req : own[q] # c
      BY <2>2, ConstantsAssumption DEF IInv, OwnershipInv, ContextExclusive, Good
    <2> QED  BY <2>1, <2>2, <2>3, AcquireEnd
  <1>2. CASE AcquireNew(r)
    <2>1. PICK c \in Ctx \ pool : (\A q \in Req : own[q] # c) /\ AcquireWith(r, c, NewContext)
      BY <1>2 DEF AcquireNew
    <2>2. PICK x : x = NewContext
      OBVIOUS
    <2> QED  BY <2>1, <2>2, NewContextGood, AcquireEnd
  <1> QED  BY <1>1, <1>2 DEF Acquire

\* releaseCtx: reset removes the files of the request the Context is
\* attached to, which is the one that releases it.
LEMMA ReleaseEnd ==
  ASSUME IInv, EndInv, NEW r \in Req, Reset(r) \/ Put(r)
  PROVE  EndInv'
  <1>1. CASE Reset(r)
    <2>1. pc[r] = "reset" /\ pc' = [pc EXCEPT ![r] = "put"]
          /\ UNCHANGED <<own, panicking, panicked, resp, span>>
      BY <1>1 DEF Reset
    <2>2. Mine(r, ctx[own[r]])
      BY <2>1, Served DEF IInv, Serving
    <2>3. ctx[own[r]].context = r
      BY <2>2 DEF Mine, OwnData
    <2>4. ~files'[r] /\ \A q \in Req \ {r} : files'[q] = files[q]
      <3>1. CASE ctx[own[r]].form.kind = "multipart"
        BY <1>1, <2>3, <3>1 DEF Reset, IInv, FlagsOK
      <3>2. CASE ctx[own[r]].form.kind # "multipart"
        BY <1>1, <2>1, <3>2 DEF Reset, EndInv, ResourcesAt, Serving
      <3> QED  BY <3>1, <3>2
    <2>5. PICK y : ctx' = [ctx EXCEPT ![own[r]] = y]
      BY <1>1 DEF Reset
    <2>6. \A q \in Req \ {r} : Untouched(q)
      <3>1. \A q \in Req \ {r} : pc'[q] = pc[q] /\ ctx'[own'[q]] = ctx[own[q]]
        BY <2>1, <2>5, ServedAlone DEF IInv, OwnershipInv, Serving
      <3> QED  BY <2>1, <2>4, <3>1 DEF Untouched
    <2>7. pc'[r] = "put"
      BY <2>1 DEF IInv, OwnershipInv
    <2>8. PanicAt(r)' /\ ResourcesAt(r)'
      BY <2>1, <2>4, <2>7 DEF EndInv, PanicAt, ResourcesAt, Serving
    <2> QED  BY <2>6, <2>8, UntouchedEnd DEF EndInv
  <1>2. CASE Put(r)
    <2>1. pc[r] = "put" /\ own' = [own EXCEPT ![r] = None]
          /\ pc' = [pc EXCEPT ![r] = IF panicking[r] THEN "crashed" ELSE "done"]
          /\ UNCHANGED <<ctx, panicking, panicked, resp, files, span>>
      BY <1>2 DEF Put
    <2>2. \A q \in Req \ {r} : Untouched(q)
      BY <2>1 DEF Untouched, IInv, OwnershipInv
    <2>3. pc'[r] = IF panicking[r] THEN "crashed" ELSE "done"
      BY <2>1 DEF IInv, OwnershipInv
    <2>4. PanicAt(r)' /\ ResourcesAt(r)'
      BY <2>1, <2>3 DEF EndInv, PanicAt, ResourcesAt, Serving
    <2> QED  BY <2>2, <2>4, UntouchedEnd DEF EndInv
  <1> QED  BY <1>1, <1>2

\* Every step keeps it.
LEMMA NextEnd == IInv /\ EndInv /\ [Next]_vars => EndInv'
  <1> SUFFICES ASSUME IInv, EndInv, [Next]_vars PROVE EndInv'
    OBVIOUS
  <1>1. CASE UNCHANGED vars \/ CollectPooled
    BY <1>1 DEF vars, CollectPooled, EndInv, PanicAt, ResourcesAt
  <1>2. ASSUME NEW r \in Req, Acquire(r) \/ Start(r) \/ Handler(r) \/ Deferred(r)
        PROVE  EndInv'
    BY <1>2, PoolEnd, MoveEnd, FieldEnd, ErrorEnd, ReleaseEnd DEF Handler, Deferred
  <1> QED  BY <1>1, <1>2 DEF Next, Finished

-----------------------------------------------------------------------------
(* A step of one goroutine and what the others hold.                       *)

\* A request whose own goroutine makes no step keeps its response, its files, the
\* Context it holds and everything in that Context.
Undisturbed(q) ==
    UNCHANGED <<pc[q], ops[q]>> =>
        /\ UNCHANGED <<own[q], resp[q], files[q]>>
        /\ own[q] # None => UNCHANGED ctx[own[q]]

\* Writing one's own Context disturbs nobody.
LEMMA WriteUndisturbed ==
  ASSUME IInv, NEW r \in Req, own[r] # None, NEW y,
         ctx' = [ctx EXCEPT ![own[r]] = y], own' = own,
         NEW q \in Req \ {r}, resp'[q] = resp[q], files'[q] = files[q]
  PROVE  Undisturbed(q)
  BY DEF Undisturbed, IInv, OwnershipInv, ContextExclusive

\* Reset removes the files of the request the Context is attached to, which is
\* the one that holds it.
LEMMA ResetUndisturbed ==
  ASSUME IInv, NEW r \in Req, Reset(r), NEW q \in Req \ {r}
  PROVE  Undisturbed(q)
  <1>1. pc[r] = "reset" /\ UNCHANGED <<own, resp>>
    BY DEF Reset
  <1>2. ctx[own[r]].context = r
    BY <1>1, Served DEF IInv, Serving, Mine, OwnData
  <1>3. files'[q] = files[q]
    BY <1>2 DEF Reset, IInv, FlagsOK
  <1>4. own[r] # None
    BY <1>1 DEF IInv, OwnershipInv, HoldsWhileServing, Serving
  <1>5. PICK y : ctx' = [ctx EXCEPT ![own[r]] = y]
    BY DEF Reset
  <1> QED  BY <1>1, <1>3, <1>4, <1>5, WriteUndisturbed

\* Attaching a Context, from the pool or new, takes it from nobody.
LEMMA AcquireUndisturbed ==
  ASSUME IInv, NEW r \in Req, Acquire(r), NEW q \in Req \ {r}
  PROVE  Undisturbed(q)
  <1>1. PICK c \in Ctx : /\ c \in pool \/ \A p \in Req : own[p] # c
                         /\ \E x : AcquireWith(r, c, x)
    BY DEF Acquire, AcquirePooled, AcquireNew, IInv, OwnershipInv
  <1>2. own[q] # c \/ own[q] = None
    BY <1>1 DEF IInv, OwnershipInv, ContextExclusive
  <1>3. own'[q] = own[q] /\ resp'[q] = resp[q] /\ files'[q] = files[q]
    BY <1>1 DEF AcquireWith, IInv, OwnershipInv, FlagsOK
  <1>4. own[q] # None => ctx'[own[q]] = ctx[own[q]]
    <2>1. PICK y : ctx' = [ctx EXCEPT ![c] = y]
      BY <1>1 DEF AcquireWith
    <2> QED  BY <1>2, <2>1 DEF IInv, OwnershipInv
  <1> QED  BY <1>3, <1>4 DEF Undisturbed

\* Every step leaves the other requests alone, and one's own step is seen in pc
\* or ops.
LEMMA NextUndisturbed ==
  ASSUME IInv, [Next]_vars, NEW q \in Req
  PROVE  Undisturbed(q)
  <1>1. CASE UNCHANGED vars \/ CollectPooled
    BY <1>1 DEF vars, CollectPooled, Undisturbed
  <1>2. ASSUME NEW r \in Req, Acquire(r) \/ Start(r) \/ Handler(r) \/ Deferred(r)
        PROVE  Undisturbed(q)
    <2>1. CASE q = r
      <3> USE DEF IInv, OwnershipInv, FlagsOK
      <3>1. CASE Acquire(r)
        BY <2>1, <3>1 DEF Acquire, AcquirePooled, AcquireNew, AcquireWith, Undisturbed
      <3>2. CASE Start(r)
        BY <2>1, <3>2 DEF Start, StartHandler, InstrumenterPanics, Undisturbed
      <3>3. CASE Handler(r)
        <4>1. CASE Return(r) \/ Panic(r)
          BY <2>1, <4>1 DEF Return, Panic, StartsPanic, Undisturbed
        <4>2. CASE ~(Return(r) \/ Panic(r))
          <5>1. \E m : CallsMethod(r, m)
            BY <3>3, <4>2 DEF Handler, SetUser, AddLogFields, ReplaceLogger, Log, SetContext,
               SetHeader, SetAlways, WriteBody, NotFound, Error, UpdatesContext, UpdatesResponse
          <5>2. ops'[r] = ops[r] + 1 /\ ops[r] \in Int
            BY <5>1, ConstantsAssumption DEF CallsMethod
          <5> QED  BY <2>1, <5>2 DEF Undisturbed
        <4> QED  BY <4>1, <4>2
      <3>4. CASE Deferred(r)
        <4>1. pc'[r] # pc[r]
          BY <3>4 DEF Deferred, FinishSpan, RecvNothing, RecvPanic, Reset, Put
        <4> QED  BY <2>1, <4>1 DEF Undisturbed
      <3> QED  BY <1>2, <3>1, <3>2, <3>3, <3>4
    <2>2. CASE q # r
      <3>1. CASE Acquire(r)
        BY <2>2, <3>1, AcquireUndisturbed
      <3>2. CASE \/ Start(r) \/ Return(r) \/ Panic(r) \/ FinishSpan(r) \/ RecvNothing(r)
                 \/ SetHeader(r) \/ WriteBody(r) \/ NotFound(r) \/ Put(r)
        BY <2>2, <3>2 DEF Start, StartHandler, InstrumenterPanics, Return, Panic, StartsPanic,
           FinishSpan, RecvNothing, SetHeader, WriteBody, NotFound, UpdatesResponse, CallsMethod,
           Put, Undisturbed, IInv, OwnershipInv, ResponseInv
      <3>3. CASE Reset(r)
        BY <2>2, <3>3, ResetUndisturbed
      <3>4. CASE \/ SetUser(r) \/ AddLogFields(r) \/ ReplaceLogger(r) \/ Log(r) \/ SetContext(r)
                 \/ SetAlways(r) \/ (\E isNil \in BOOLEAN : Error(r, isNil)) \/ RecvPanic(r)
        <4>1. pc[r] \in Serving
          BY <3>4 DEF SetUser, AddLogFields, ReplaceLogger, Log, SetContext, SetAlways, Error,
             RecvPanic, UpdatesContext, CallsMethod, Serving
        <4>2. own[r] # None
          BY <4>1 DEF IInv, OwnershipInv, HoldsWhileServing
        <4>3. \E y : ctx' = [ctx EXCEPT ![own[r]] = y]
          BY <3>4 DEF SetUser, AddLogFields, ReplaceLogger, Log, SetContext, SetAlways, Error,
             RecvPanic, UpdatesContext, HandleError
        <4>4. own' = own /\ files' = files /\ resp'[q] = resp[q]
          BY <2>2, <3>4 DEF SetUser, AddLogFields, ReplaceLogger, Log, SetContext, SetAlways,
             Error, RecvPanic, UpdatesContext, HandleError, IInv, ResponseInv
        <4> QED  BY <2>2, <4>2, <4>3, <4>4, WriteUndisturbed
      <3> QED  BY <1>2, <3>1, <3>2, <3>3, <3>4 DEF Handler, Deferred
    <2> QED  BY <2>1, <2>2
  <1> QED  BY <1>1, <1>2 DEF Next, Finished

-----------------------------------------------------------------------------
(* The theorems.                                                           *)

\* The invariant holds in every reachable state.
THEOREM Invariance == Spec => []IInv
  BY InitInv, NextInv, PTL DEF Spec

\* Every variable of the model of acquireCtx, WrapHandler and releaseCtx keeps
\* its type.
THEOREM TypeCorrect == Spec => []TypeOK
  <1>1. IInv => TypeOK
    BY DEF IInv, OwnershipInv, ResponseInv, FlagsOK, TypeOK
  <1> QED  BY <1>1, Invariance, PTL

\* Recycling through ctxPool never shares a Context, and a pooled one carries
\* nothing of the request that used it.
THEOREM PoolSafety == Spec => [](ContextExclusive /\ PooledClean)
  <1>1. IInv => ContextExclusive /\ PooledClean
    BY DEF IInv, OwnershipInv
  <1> QED  BY <1>1, Invariance, PTL

\* Whatever the handlers of concurrent requests do, a request only ever sees
\* its own data in its Context and sends its own data in its response.
THEOREM Isolation == Spec => []OwnDataOnly
  <1>1. IInv => OwnDataOnly
    BY DEF IInv, OwnershipInv, ServedWithOwn, Mine, ResponseInv, OwnHeaders, OwnDataOnly
  <1> QED  BY <1>1, Invariance, PTL

\* The lazily built logger is never stale.
THEOREM LoggerNeverStale == Spec => []LoggerCurrent
  <1>1. IInv => LoggerCurrent
    BY DEF IInv, OwnershipInv, ServedWithOwn, Mine, LoggerCurrent
  <1> QED  BY <1>1, Invariance, PTL

\* HandleError keeps exactly the headers registered with SetAlways, with their
\* current values, on error responses.
THEOREM AlwaysHeaders == Spec => []AlwaysHeadersKept
  <1>1. IInv => AlwaysHeadersKept
    BY DEF IInv, ResponseInv
  <1> QED  BY <1>1, Invariance, PTL

\* The state of a panic and the resources of a request are as its place says.
THEOREM EndInvariance == Spec => []EndInv
  BY Invariance, InitEnd, NextEnd, PTL DEF Spec

\* A request whose handler or instrumenter panicked, and which did not end the
\* process, ends with an error response and none of what the handler wrote.
THEOREM PanicAnswered == Spec => []PanicRendersError
  <1>1. EndInv => PanicRendersError
    BY DEF EndInv, PanicAt, ErrorRendered, PanicRendersError
  <1> QED  BY <1>1, EndInvariance, PTL

\* No path out of WrapHandler leaves temporary files or an open span.
THEOREM NothingLeftBehind == Spec => []ReleasedResources
  <1>1. EndInv => ReleasedResources
    BY DEF EndInv, ResourcesAt, ReleasedResources
  <1> QED  BY <1>1, EndInvariance, PTL

\* No step of another goroutine, in acquireCtx, a handler, HandleError, reset or
\* Put, changes what a request holds: its Context and the contents, its response
\* and its temporary files change in steps of its own goroutine only.
THEOREM NonInterference == Spec => [][\A q \in Req : Undisturbed(q)]_vars
  <1>1. IInv /\ [Next]_vars => [\A q \in Req : Undisturbed(q)]_vars
    BY NextUndisturbed
  <1> QED  BY <1>1, Invariance, PTL DEF Spec
=============================================================================
