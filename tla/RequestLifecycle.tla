-------------------------- MODULE RequestLifecycle --------------------------
(***************************************************************************)
(* One HTTP request from acquireCtx to releaseCtx, for several requests    *)
(* that run concurrently and recycle Context objects through App.ctxPool   *)
(* (request.go, mux.go WrapHandler / Recv / HandleError, header.go,        *)
(* logger.go, user.go, response.go).                                       *)
(*                                                                         *)
(* A request is served by one goroutine and owns its Context until it is   *)
(* put back, so a whole method of Context is one action; the steps of the  *)
(* deferred calls (instrumentation finish, Recv, reset, Put) are separate, *)
(* because other requests run between them and Put publishes the object.   *)
(*                                                                         *)
(* Data carries the request that produced it: a Datum is <<request, val>>. *)
(***************************************************************************)
EXTENDS Naturals, Sequences

CONSTANTS
    Req,        \* the requests the server receives
    Ctx,        \* the Context objects that may ever be allocated
    Hdr,        \* response header names
    Val,        \* values a handler can give to a header, a field or a user
    Methods,    \* the Context methods the handlers of this application call
    Forms,      \* the kinds of form the requests of this instance carry
    HasErrorHandler, \* RouterOptions.ErrorHandler is set
    HasInstrumenter, \* App.Instrumenter() is not Empty
    MaxOps,     \* bound: Context methods one handler calls
    None, Anonymous, AppLog   \* nil, user.Anonymous{}, App.Log()

MethodNames == {"SetUser", "AddLogFields", "ReplaceLogger", "Log", "SetContext",
                "SetHeader", "SetAlways", "WriteBody", "NotFound", "Error"}
FormKind    == {"nil", "post", "multipart"}

Datum    == Req \X Val
LogKey   == {"user.id", "custom"}
Fields   == [LogKey -> Datum \cup {None}]
\* A materialized logger: its core, its base fields, the request's fields.
Logger   == [core : Datum \cup {AppLog}, base : Req, fields : Fields]

ASSUME ConstantsAssumption ==
    /\ MaxOps \in Nat
    /\ Methods \subseteq MethodNames
    /\ Forms \subseteq FormKind
    /\ HasErrorHandler \in BOOLEAN
    /\ HasInstrumenter \in BOOLEAN
    /\ None \notin Req \cup Ctx \cup Hdr \cup Datum \cup Logger \cup {Anonymous, AppLog}
    /\ Anonymous \notin Datum

VARIABLES
    pool,       \* App.ctxPool
    ctx,        \* contents of every Context object
    own,        \* the Context a request's goroutine holds
    pc,         \* where the goroutine is in WrapHandler
    panicking,  \* a panic is unwinding the goroutine
    panicked,   \* history: the handler or the instrumenter panicked
    resp,       \* fasthttp's Response of the request
    files,      \* multipart temporary files of the request exist on disk
    span,       \* the request's instrumentation span
    ops,        \* Context methods called so far (bounded by MaxOps)
    always,     \* history: header names registered with SetAlways
    want,       \* history: headers the response should carry now
    down        \* an unrecovered panic ended the process

vars == <<pool, ctx, own, pc, panicking, panicked, resp, files, span, ops,
          always, want, down>>

-----------------------------------------------------------------------------
(* Types.                                                                  *)

PC       == {"idle", "wrapped", "handler", "unwind", "recv", "reset", "put",
             "done", "crashed"}
\* Between acquireCtx and reset the goroutine may use every field.
Serving  == {"wrapped", "handler", "unwind", "recv", "reset"}

Slot     == [name : Hdr, value : Datum \cup {None}]
NoFields == [k \in LogKey |-> None]
NoForm   == [kind |-> "nil", req |-> None]

\* The fields of Context that belong to a request.  slots is the backing
\* array of alwaysHeaders and alen its length: slots above alen are entries
\* an earlier request left behind, value included.
Context ==
    [context : Req \cup {None}, reqCtx : Datum \cup {None},
     method : Req \cup {None},
     requestID : Req \cup {None}, requestIDStr : Req \cup {None},
     user : Datum \cup {None, Anonymous},
     loggerCore : Datum \cup {None, AppLog}, loggerFields : Fields,
     logger : Logger \cup {None},
     form : [kind : FormKind, req : Req \cup {None}],
     slots : Seq(Slot), alen : Nat]

Headers   == [Hdr -> Datum \cup {None}]
NoHeaders == [h \in Hdr |-> None]
Response  == [status : {"ok", "error", "custom", "notfound"},
              hdr : Headers,
              body : {"none", "handler", "error", "custom", "notfound"}]

\* new(Context) with the pointers acquireCtx sets up.
NewContext ==
    [context |-> None, reqCtx |-> None, method |-> None,
     requestID |-> None, requestIDStr |-> None, user |-> None,
     loggerCore |-> None, loggerFields |-> NoFields, logger |-> None,
     form |-> NoForm, slots |-> <<>>, alen |-> 0]

\* fasthttp's Response.Reset(), also the state of a new response.
ResetResponse == [status |-> "ok", hdr |-> NoHeaders, body |-> "none"]
-----------------------------------------------------------------------------
(* Context methods, as functions of the Context's contents.                *)

\* acquireCtx after the pool lookup: assigns method, form (only when the
\* request has one), requestID, context, user and logger; every other field
\* keeps what reset() left.
Attach(x, r, kind) ==
    [x EXCEPT !.method = r,
              !.form = IF kind = "nil" THEN @ ELSE [kind |-> kind, req |-> r],
              !.requestID = r,
              !.context = r,
              !.user = Anonymous,
              !.loggerCore = AppLog,
              !.logger = None]

\* Context.ID: the string form is computed once.
CacheID(x) ==
    IF x.requestIDStr = None THEN [x EXCEPT !.requestIDStr = x.requestID] ELSE x

\* Context.Log: the logger is built on first use from the core, the base
\* fields (which call ID) and the request's own fields.
Materialize(x) ==
    IF x.logger # None
    THEN x
    ELSE LET y == CacheID(x)
         IN  [y EXCEPT !.logger = [core   |-> y.loggerCore,
                                   base   |-> y.requestIDStr,
                                   fields |-> y.loggerFields]]

\* A mutated AddLogFields that keeps the materialized logger.
WithLogFieldKeepLogger(x, k, d) == [x EXCEPT !.loggerFields[k] = d]

\* AddLogFields: replace or append the field, invalidate the logger.
WithLogField(x, k, d) ==
    [x EXCEPT !.loggerFields[k] = d, !.logger = None]

\* ReplaceLogger with a non-nil logger.
WithLogger(x, d) == [x EXCEPT !.loggerCore = d, !.logger = None]

\* SetUser: an authorized user also becomes a log field.
WithUser(x, u) ==
    LET y == [x EXCEPT !.user = u]
    IN  IF u \in Datum THEN WithLogField(y, "user.id", u) ELSE y

\* The names alwaysHeaders holds now.
Preserved(x) == {x.slots[i].name : i \in 1..x.alen}

\* preserveHeader: a name is kept once; a slot of the backing array is
\* reused with the value an earlier request left in it.
Preserve(x, h) ==
    IF h \in Preserved(x) THEN x
    ELSE IF x.alen < Len(x.slots)
    THEN [x EXCEPT !.slots[x.alen + 1].name = h, !.alen = @ + 1]
    ELSE [x EXCEPT !.slots = Append(@, [name |-> h, value |-> None]),
                   !.alen = @ + 1]

\* A mutated captureAlwaysHeaders that keeps a value already in the slot.
CaptureOnce(x, hdr) ==
    [x EXCEPT !.slots =
        [i \in 1..Len(x.slots) |->
            IF i <= x.alen /\ x.slots[i].value = None
            THEN [name |-> x.slots[i].name, value |-> hdr[x.slots[i].name]]
            ELSE x.slots[i]]]

\* captureAlwaysHeaders: copy the current value of every registered header.
Capture(x, hdr) ==
    [x EXCEPT !.slots =
        [i \in 1..Len(x.slots) |->
            IF i <= x.alen
            THEN [name |-> x.slots[i].name, value |-> hdr[x.slots[i].name]]
            ELSE x.slots[i]]]

\* applyAlwaysHeaders on a response that was just reset.
Apply(x) ==
    [h \in Hdr |->
        IF h \in Preserved(x)
        THEN x.slots[CHOOSE i \in 1..x.alen : x.slots[i].name = h].value
        ELSE None]

\* A mutated reset that forgets the cached request ID.
ClearKeepID(x) ==
    [x EXCEPT !.form = NoForm, !.user = None, !.context = None,
              !.reqCtx = None, !.loggerFields = NoFields,
              !.loggerCore = None, !.logger = None,
              !.requestID = None, !.alen = 0]

\* Context.reset: method, path and the backing array of alwaysHeaders stay.
Clear(x) ==
    [x EXCEPT !.form = NoForm, !.user = None, !.context = None,
              !.reqCtx = None, !.loggerFields = NoFields,
              !.loggerCore = None, !.logger = None,
              !.requestID = None, !.requestIDStr = None, !.alen = 0]
-----------------------------------------------------------------------------
(* WrapHandler: acquire, then the handler.                                 *)

Init ==
    /\ pool = {}
    /\ ctx = [c \in Ctx |-> NewContext]
    /\ own = [r \in Req |-> None]
    /\ pc = [r \in Req |-> "idle"]
    /\ panicking = [r \in Req |-> FALSE]
    /\ panicked = [r \in Req |-> FALSE]
    /\ resp = [r \in Req |-> ResetResponse]
    /\ files = [r \in Req |-> FALSE]
    /\ span = [r \in Req |-> "none"]
    /\ ops = [r \in Req |-> 0]
    /\ always = [r \in Req |-> {}]
    /\ want = [r \in Req |-> NoHeaders]
    /\ down = FALSE

\* acquireCtx with the Context c whose contents are x.  Parsing a multipart
\* form creates the request's temporary files.
AcquireWith(r, c, x) ==
    \E kind \in Forms :
        /\ pc[r] = "idle"
        /\ ctx' = [ctx EXCEPT ![c] = Attach(x, r, kind)]
        /\ own' = [own EXCEPT ![r] = c]
        /\ pc' = [pc EXCEPT ![r] = "wrapped"]
        /\ files' = [files EXCEPT ![r] = (kind = "multipart")]
        /\ UNCHANGED <<panicking, panicked, resp, span, ops, always, want, down>>

\* ctxPool.Get returns a pooled object.
AcquirePooled(r) ==
    \E c \in pool : pool' = pool \ {c} /\ AcquireWith(r, c, ctx[c])

\* ctxPool.Get returns nil, which sync.Pool may do whatever it holds.
AcquireNew(r) ==
    \E c \in Ctx \ pool :
        /\ \A q \in Req : own[q] # c
        /\ AcquireWith(r, c, NewContext)
        /\ UNCHANGED pool

\* The garbage collector empties sync.Pool.
CollectPooled ==
    \E c \in pool :
        /\ pool' = pool \ {c}
        /\ UNCHANGED <<ctx, own, pc, panicking, panicked, resp, files, span,
                       ops, always, want, down>>

\* WrapHandler starts the instrumentation span, when there is an
\* instrumenter, and calls the handler.
StartHandler(r) ==
    /\ pc[r] = "wrapped"
    /\ pc' = [pc EXCEPT ![r] = "handler"]
    /\ span' = [span EXCEPT ![r] = IF HasInstrumenter THEN "open" ELSE "none"]
    /\ UNCHANGED <<pool, ctx, own, panicking, panicked, resp, files, ops,
                   always, want, down>>

\* The instrumenter panics before its finish function is deferred.
InstrumenterPanics(r) ==
    /\ pc[r] = "wrapped"
    /\ HasInstrumenter
    /\ pc' = [pc EXCEPT ![r] = "recv"]
    /\ panicking' = [panicking EXCEPT ![r] = TRUE]
    /\ panicked' = [panicked EXCEPT ![r] = TRUE]
    /\ UNCHANGED <<pool, ctx, own, resp, files, span, ops, always, want, down>>
-----------------------------------------------------------------------------
(* What a handler can do with its Context.                                 *)

CallsMethod(r, m) ==
    /\ m \in Methods
    /\ pc[r] = "handler"
    /\ ops[r] < MaxOps
    /\ ops' = [ops EXCEPT ![r] = @ + 1]

\* Methods that only change the Context's fields.
UpdatesContext(r, m, y) ==
    /\ CallsMethod(r, m)
    /\ ctx' = [ctx EXCEPT ![own[r]] = y]
    /\ UNCHANGED <<pool, own, pc, panicking, panicked, resp, files, span,
                   always, want, down>>

SetUser(r) ==
    \E u \in ({r} \X Val) \cup {Anonymous, None} :
        UpdatesContext(r, "SetUser", WithUser(ctx[own[r]], u))
AddLogFields(r) ==
    \E v \in Val :
        UpdatesContext(r, "AddLogFields", WithLogField(ctx[own[r]], "custom", <<r, v>>))
ReplaceLogger(r) ==
    \E v \in Val :
        UpdatesContext(r, "ReplaceLogger", WithLogger(ctx[own[r]], <<r, v>>))
Log(r) == UpdatesContext(r, "Log", Materialize(ctx[own[r]]))
SetContext(r) ==
    \E d \in ({r} \X Val) \cup {None} :
        UpdatesContext(r, "SetContext", [ctx[own[r]] EXCEPT !.reqCtx = d])

\* Methods that only change the response.
UpdatesResponse(r, m, p, w) ==
    /\ CallsMethod(r, m)
    /\ resp' = [resp EXCEPT ![r] = p]
    /\ want' = [want EXCEPT ![r] = w]
    /\ UNCHANGED <<pool, ctx, own, pc, panicking, panicked, files, span,
                   always, down>>

\* Header.Set and Header.Del (d = None).
SetHeader(r) ==
    \E h \in Hdr, d \in ({r} \X Val) \cup {None} :
        UpdatesResponse(r, "SetHeader", [resp[r] EXCEPT !.hdr[h] = d],
                        [want[r] EXCEPT ![h] = d])
\* Header.SetAlways.
SetAlways(r) ==
    \E h \in Hdr, v \in Val :
        /\ CallsMethod(r, "SetAlways")
        /\ resp' = [resp EXCEPT ![r].hdr[h] = <<r, v>>]
        /\ ctx' = [ctx EXCEPT ![own[r]] = Preserve(@, h)]
        /\ want' = [want EXCEPT ![r][h] = <<r, v>>]
        /\ always' = [always EXCEPT ![r] = @ \cup {h}]
        /\ UNCHANGED <<pool, own, pc, panicking, panicked, files, span, down>>
\* Text, Raw, Stream, and JSON when marshalling succeeds.
WriteBody(r) ==
    UpdatesResponse(r, "WriteBody", [resp[r] EXCEPT !.body = "handler"], want[r])
\* Context.NotFound: reset the response, then the NotFound handler.  The
\* headers registered with SetAlways are not re-applied.
NotFound(r) ==
    UpdatesResponse(r, "NotFound",
        [status |-> "notfound", hdr |-> NoHeaders, body |-> "notfound"], NoHeaders)
-----------------------------------------------------------------------------
(* HandleError.                                                            *)

\* What rendering an error leads to.  With an ErrorHandler the error is
\* first formatted, which panics for a nil error; the handler then reports
\* the error handled, declines, or panics.  Without one a nil error does
\* nothing after the reset.
ErrorOutcomes(isNil) ==
    IF HasErrorHandler
    THEN IF isNil THEN {"panic"} ELSE {"handled", "default", "panic"}
    ELSE IF isNil THEN {"nothing"} ELSE {"default"}

\* Headers of the response once the error is rendered.  eh is a header the
\* error itself carries (ErrorHeaders), or None; d its value.
ErrorHeadersOver(hdr, out, eh, d) ==
    [h \in Hdr |-> IF out = "default" /\ h = eh THEN d ELSE hdr[h]]

Rendered(hdr, out) ==
    [status |-> CASE out = "default" -> "error"
                  [] out = "handled" -> "custom"
                  [] OTHER -> "ok",
     hdr  |-> hdr,
     body |-> CASE out = "default" -> "error"
                [] out = "handled" -> "custom"
                [] OTHER -> "none"]

\* HandleError on contents x: capture, Response.Reset, apply, render.
HandleError(r, x, isNil, out, eh, v) ==
    LET y == Capture(x, resp[r].hdr)
    IN  /\ out \in ErrorOutcomes(isNil)
        /\ ctx' = [ctx EXCEPT ![own[r]] = y]
        /\ resp' = [resp EXCEPT ![r] =
                       Rendered(ErrorHeadersOver(Apply(y), out, eh, <<r, v>>), out)]
        /\ want' = [want EXCEPT ![r] =
                       ErrorHeadersOver(
                           [h \in Hdr |-> IF h \in always[r] THEN @[h] ELSE None],
                           out, eh, <<r, v>>)]

\* The handler starts to panic: deferred calls run from here on.
StartsPanic(r) ==
    /\ pc' = [pc EXCEPT ![r] = "unwind"]
    /\ panicking' = [panicking EXCEPT ![r] = TRUE]
    /\ panicked' = [panicked EXCEPT ![r] = TRUE]

\* Context.Error (and JSON when marshalling fails).
Error(r, isNil) ==
    \E out \in {"handled", "default", "panic", "nothing"}, eh \in Hdr \cup {None}, v \in Val :
        /\ CallsMethod(r, "Error")
        /\ HandleError(r, ctx[own[r]], isNil, out, eh, v)
        /\ IF out = "panic" THEN StartsPanic(r) ELSE UNCHANGED <<pc, panicking, panicked>>
        /\ UNCHANGED <<pool, own, files, span, always, down>>

Return(r) ==
    /\ pc[r] = "handler"
    /\ pc' = [pc EXCEPT ![r] = "unwind"]
    /\ UNCHANGED <<pool, ctx, own, panicking, panicked, resp, files, span, ops,
                   always, want, down>>
Panic(r) ==
    /\ pc[r] = "handler"
    /\ StartsPanic(r)
    /\ UNCHANGED <<pool, ctx, own, resp, files, span, ops, always, want, down>>
-----------------------------------------------------------------------------
(* The deferred calls of WrapHandler, last deferred first.                 *)

\* finish(nil) of the instrumentation, deferred only when there is one.
FinishSpan(r) ==
    /\ pc[r] = "unwind"
    /\ pc' = [pc EXCEPT ![r] = "recv"]
    /\ span' = [span EXCEPT ![r] = IF @ = "open" THEN "closed" ELSE @]
    /\ UNCHANGED <<pool, ctx, own, panicking, panicked, resp, files, ops,
                   always, want, down>>

\* Recv without a panic: recover() is nil.
RecvNothing(r) ==
    /\ pc[r] = "recv"
    /\ ~panicking[r]
    /\ pc' = [pc EXCEPT ![r] = "reset"]
    /\ UNCHANGED <<pool, ctx, own, panicking, panicked, resp, files, span, ops,
                   always, want, down>>

\* A mutated Recv that recovers and logs, but renders no error.
RecvPanicSilent(r) ==
    /\ pc[r] = "recv"
    /\ panicking[r]
    /\ pc' = [pc EXCEPT ![r] = "reset"]
    /\ panicking' = [panicking EXCEPT ![r] = FALSE]
    /\ ctx' = [ctx EXCEPT ![own[r]] = Materialize(@)]
    /\ UNCHANGED <<pool, own, panicked, resp, files, span, ops, always, want, down>>

\* Recv after a panic: log it, render the error.  A panic of the
\* ErrorHandler here is not recovered: it keeps unwinding.
RecvPanic(r) ==
    \E out \in {"handled", "default", "panic"}, eh \in Hdr \cup {None}, v \in Val :
        /\ pc[r] = "recv"
        /\ panicking[r]
        /\ pc' = [pc EXCEPT ![r] = "reset"]
        /\ panicking' = [panicking EXCEPT ![r] = (out = "panic")]
        /\ HandleError(r, Materialize(ctx[own[r]]), FALSE, out, eh, v)
        /\ UNCHANGED <<pool, own, panicked, files, span, ops, always, down>>

\* A mutated reset that detaches the request before the form is reset, so
\* that the form has no request whose files it could remove.
ResetDetachFirst(r) ==
    /\ pc[r] = "reset"
    /\ pc' = [pc EXCEPT ![r] = "put"]
    /\ ctx' = [ctx EXCEPT ![own[r]] = Clear(@)]
    /\ UNCHANGED <<pool, own, panicking, panicked, resp, files, span, ops,
                   always, want, down>>

\* releaseCtx, first half: reset.  The form removes the temporary files of
\* the request the Context is attached to.
Reset(r) ==
    /\ pc[r] = "reset"
    /\ pc' = [pc EXCEPT ![r] = "put"]
    /\ files' = IF ctx[own[r]].form.kind = "multipart"
                THEN [files EXCEPT ![ctx[own[r]].context] = FALSE] ELSE files
    /\ ctx' = [ctx EXCEPT ![own[r]] = Clear(@)]
    /\ UNCHANGED <<pool, own, panicking, panicked, resp, span, ops,
                   always, want, down>>

\* releaseCtx, second half: ctxPool.Put.  A panic nobody recovered ends the
\* process once the last deferred call returns.
Put(r) ==
    /\ pc[r] = "put"
    /\ pool' = pool \cup {own[r]}
    /\ own' = [own EXCEPT ![r] = None]
    /\ pc' = [pc EXCEPT ![r] = IF panicking[r] THEN "crashed" ELSE "done"]
    /\ down' = panicking[r]
    /\ UNCHANGED <<ctx, panicking, panicked, resp, files, span, ops, always,
                   want>>

Handler(r) ==
    \/ SetUser(r) \/ AddLogFields(r) \/ ReplaceLogger(r) \/ Log(r)
    \/ SetContext(r) \/ SetHeader(r) \/ SetAlways(r) \/ WriteBody(r)
    \/ NotFound(r) \/ (\E isNil \in BOOLEAN : Error(r, isNil))
    \/ Return(r) \/ Panic(r)

Acquire(r) == AcquirePooled(r) \/ AcquireNew(r)
Start(r)   == StartHandler(r) \/ InstrumenterPanics(r)
Deferred(r) ==
    FinishSpan(r) \/ RecvNothing(r) \/ RecvPanic(r) \/ Reset(r) \/ Put(r)

\* All requests were served, or the process is gone.
Finished ==
    /\ down \/ \A r \in Req : pc[r] = "done"
    /\ UNCHANGED vars

Next ==
    \/ /\ ~down
       /\ \/ \E r \in Req : Acquire(r) \/ Start(r) \/ Handler(r) \/ Deferred(r)
          \/ CollectPooled
    \/ Finished

Spec == Init /\ [][Next]_vars
-----------------------------------------------------------------------------
(* Properties.                                                             *)

\* Every variable has its type.
TypeOK ==
    /\ pool \subseteq Ctx
    /\ ctx \in [Ctx -> Context]
    /\ \A c \in Ctx : ctx[c].alen <= Len(ctx[c].slots)
    /\ own \in [Req -> Ctx \cup {None}]
    /\ pc \in [Req -> PC]
    /\ panicking \in [Req -> BOOLEAN]
    /\ panicked \in [Req -> BOOLEAN]
    /\ resp \in [Req -> Response]
    /\ files \in [Req -> BOOLEAN]
    /\ span \in [Req -> {"none", "open", "closed"}]
    /\ ops \in [Req -> 0..MaxOps]
    /\ always \in [Req -> SUBSET Hdr]
    /\ want \in [Req -> Headers]
    /\ down \in BOOLEAN

\* A Context is in the pool or held by one goroutine, never by two: the
\* recycling of acquireCtx and releaseCtx never shares an object, on any path
\* out of a handler.
ContextExclusive ==
    \A r \in Req : own[r] # None =>
        /\ own[r] \notin pool
        /\ \A q \in Req \ {r} : own[q] # own[r]

\* x carries nothing of a request in the fields acquireCtx relies on.
Clean(x) ==
    /\ x.form = NoForm
    /\ x.reqCtx = None
    /\ x.loggerFields = NoFields
    /\ x.requestIDStr = None
    /\ x.alen = 0

\* A Context in the pool carries nothing of the request that used it, in the
\* fields acquireCtx does not assign itself.
PooledClean == \A c \in pool : Clean(ctx[c])

\* d was produced by request r, or is a default.
From(r, d) == d \in ({r} \X Val) \cup {None, Anonymous, AppLog}

\* The fields of x hold data of request r, or defaults, only.
OwnData(r, x) ==
    /\ x.context = r /\ x.method = r /\ x.requestID = r
    /\ x.requestIDStr \in {r, None}
    /\ x.form.req \in {r, None}
    /\ From(r, x.user) /\ From(r, x.reqCtx)
    /\ x.loggerCore # None /\ From(r, x.loggerCore)
    /\ \A k \in LogKey : From(r, x.loggerFields[k])
    /\ x.logger # None => /\ x.logger.base = r
                          /\ From(r, x.logger.core)
                          /\ \A k \in LogKey : From(r, x.logger.fields[k])

\* While a request is served, its user, effective context, form, request ID,
\* log fields, logger, and every response header are its own: recycling a
\* Context leaks nothing from one request into another.
OwnDataOnly ==
    \A r \in Req :
        /\ pc[r] \in Serving => OwnData(r, ctx[own[r]])
        /\ \A h \in Hdr : From(r, resp[r].hdr[h])

LoggerFresh(x) ==
    x.logger # None => /\ x.logger.core = x.loggerCore
                       /\ x.logger.fields = x.loggerFields

\* The cached logger is the one Log would build now: no AddLogFields, SetUser
\* or ReplaceLogger is missing from the lines a request logs later.
LoggerCurrent ==
    \A r \in Req : pc[r] \in Serving => LoggerFresh(ctx[own[r]])

\* The response carries exactly the headers this request set last; rendering
\* an error drops all of them but those registered with SetAlways, which keep
\* the value they had (also when the handler panicked, and whatever an
\* earlier request left in the recycled backing array).
AlwaysHeadersKept == \A r \in Req : resp[r].hdr = want[r]

\* A request whose handler panicked ends with an error response and none of
\* the body the handler had written.
PanicRendersError ==
    \A r \in Req : pc[r] = "done" /\ panicked[r] =>
        /\ resp[r].status \in {"error", "custom"}
        /\ resp[r].body \in {"error", "custom"}

\* When a goroutine gives its Context back, the temporary files of its form
\* are gone and its instrumentation span is closed, on every path.
ReleasedResources ==
    \A r \in Req : pc[r] \in {"put", "done", "crashed"} =>
        ~files[r] /\ span[r] # "open"

-----------------------------------------------------------------------------
(* What the comments of the code say and the code does not do (README).    *)

\* "If there is no error, we don't need to do anything" (mux.HandleError):
\* Context.Error(nil) never turns into a panic.
NilErrorHarmless ==
    [][\A r \in Req : Error(r, TRUE) => ~panicking'[r]]_vars

\* A 404 rendered by Context.NotFound keeps the SetAlways headers.
AlwaysHeadersOnNotFound ==
    [][\A r \in Req : NotFound(r) =>
          \A h \in always[r] : resp'[r].hdr[h] = resp[r].hdr[h]]_vars
=============================================================================
