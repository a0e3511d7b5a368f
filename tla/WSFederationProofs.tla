------------------------- MODULE WSFederationProofs -------------------------
(***************************************************************************)
(* Proofs about WSFederation, for any number of calls of every kind, any   *)
(* versions of the metadata and any tokens.                                *)
(***************************************************************************)
EXTENDS WSFederation, TLAPS

\* Where a call writes the new version, and where it holds the lock.
Writing == {"issuer", "add", "ready"}
Locked  == {"fixed", "fetch", "clear"} \cup Writing
Inside  == {"check", "lock"} \cup Locked
Targets == {"done", "url", "readiness", "decode"}
PC      == {"idle", "validate", "claims"} \cup Targets \cup Inside

Versions == 1..published
AllCerts == UNION {Signing(v) : v \in DOMAIN Metadata}

\* The types; a call that is inside check returns to its caller.
Types ==
    /\ metadataURL \in BOOLEAN /\ ready \in BOOLEAN /\ broken \in BOOLEAN
    /\ published \in 1..Len(Metadata)
    /\ roots \in Seq(SUBSET AllCerts) /\ Store > 0
    /\ endpoint \in {None} \cup Versions
    /\ pc \in [Calls -> PC] /\ ret \in [Calls -> Targets] /\ force \in [Calls -> BOOLEAN]
    /\ token \in [Parsers -> Tokens \cup {None}]
    /\ todo \in [Calls -> Seq(AllCerts)]
    /\ DOMAIN doc = Calls /\ DOMAIN result = Calls
    /\ store \in [Parsers -> Nat] /\ \A c \in Parsers : store[c] <= Store
    /\ retried \in [Parsers -> BOOLEAN]
    /\ quiet \in [Parsers -> {"quiet", "raced", "failed"}]

\* Whoever writes the fields holds the lock.
LockInv == \A c \in Calls : pc[c] \in Locked <=> writer = c

\* Every certificate there ever was in a store was published; the first one
\* comes after the issuer.  Without a MetadataURL nothing changes.
FieldsInv ==
    /\ \A i \in 1..Store : \A k \in roots[i] : \E v \in Versions : k \in Signing(v)
    /\ metadataURL =>
        \/ issuer = None /\ \A i \in 1..Store : roots[i] = {}
        \/ \E v \in Versions : issuer = Metadata[v].issuer
    /\ ~metadataURL => Store = 1 /\ roots[1] = Signing(1)

\* How far the call that writes is: what is in the store and what is still to
\* be added are the certificates of the version it fetched.
WriterInv ==
    \A c \in Calls :
        /\ pc[c] \in Locked \ {"fixed"} => metadataURL
        /\ pc[c] = "fixed" => ~metadataURL
        /\ pc[c] \in {"clear"} \cup Writing => doc[c] \in Versions
        /\ pc[c] = "issuer" => roots[Store] = {}
        /\ pc[c] \in {"add", "ready"} => issuer = Metadata[doc[c]].issuer
        /\ pc[c] = "add" => /\ Metadata[doc[c]].role
                            /\ roots[Store] \cup ToSet(todo[c]) = Signing(doc[c])
        /\ pc[c] = "ready" => roots[Store] = Signing(doc[c])

\* Nobody is between ClearCertificateStore and ready, and the last one who was
\* came to ready: the fields are of one version.
VersionInv ==
    (metadataURL /\ ready /\ ~broken /\ \A c \in Calls : pc[c] \notin Writing) =>
        \E v \in Versions : roots[Store] = Signing(v) /\ issuer = Metadata[v].issuer

\* What a parser relies on after it looked.
ParserAt(c) ==
    /\ pc[c] # "done" => result[c] = "none"
    /\ pc[c] = "validate" => store[c] \in 1..Store
    /\ pc[c] = "claims" => /\ \E v \in Versions : token[c].cert \in Signing(v)
                           /\ metadataURL => issuer # None

ParserInv == \A c \in Parsers : ParserAt(c)

\* A parser that nobody disturbed: nobody else writes; once it has refreshed,
\* it sees the version that is published.
QuietAt(c) ==
    /\ pc[c] \in Inside => retried[c] /\ force[c] /\ ret[c] = "decode"
    /\ retried[c] => metadataURL /\ pc[c] # "idle"
    /\ (quiet[c] = "quiet" /\ pc[c] \notin {"idle", "done"}) =>
        \A d \in Calls : d # c => pc[d] \notin Writing
    /\ (quiet[c] = "quiet" /\ pc[c] \in {"clear"} \cup Writing) => doc[c] = published
    /\ (quiet[c] = "quiet" /\ pc[c] = "decode" /\ retried[c]) =>
        roots[Store] = Signing(published)
    /\ (quiet[c] = "quiet" /\ pc[c] = "validate" /\ retried[c]) =>
        roots[store[c]] = Signing(published)

QuietInv == \A c \in Parsers : QuietAt(c)

\* The inductive invariant.
IInv ==
    /\ Types /\ LockInv /\ FieldsInv /\ WriterInv /\ VersionInv /\ ParserInv /\ QuietInv
    /\ AcceptedFromProvider /\ RefusedForCause
-----------------------------------------------------------------------------
(* The operators                                                           *)

\* What the versions of the metadata are.
LEMMA Published ==
    \A v \in 1..Len(Metadata) :
        /\ Metadata[v].issuer # None /\ Metadata[v].role \in BOOLEAN
        /\ Signing(v) \subseteq AllCerts
        /\ Metadata[v].role => /\ Metadata[v].certs \in Seq(AllCerts)
                               /\ ToSet(Metadata[v].certs) = Signing(v)
<1> TAKE v \in 1..Len(Metadata)
<1>1. v \in DOMAIN Metadata BY WSFederationAssumption
<1>2. Metadata[v].issuer # None /\ Metadata[v].role \in BOOLEAN
    BY <1>1, WSFederationAssumption
<1>3. Signing(v) \subseteq AllCerts BY <1>1 DEF AllCerts
<1>4. ASSUME Metadata[v].role
      PROVE  Metadata[v].certs \in Seq(AllCerts) /\ ToSet(Metadata[v].certs) = Signing(v)
    <2>1. ToSet(Metadata[v].certs) = Signing(v) BY <1>4 DEF Signing
    <2>2. Range(Metadata[v].certs) \subseteq AllCerts BY <1>3, <2>1 DEF ToSet, Range
    <2>3. Metadata[v].certs \in Seq(Range(Metadata[v].certs))
        BY <1>1, WSFederationAssumption
    <2> QED BY <2>1, <2>2, <2>3
<1> QED BY <1>2, <1>3, <1>4

\* Head and Tail part the elements of a sequence.
LEMMA ToSetHeadTail ==
    ASSUME NEW S, NEW s \in Seq(S), s # <<>>
    PROVE  /\ Head(s) \in S /\ Tail(s) \in Seq(S)
           /\ ToSet(s) = {Head(s)} \cup ToSet(Tail(s))
<1>1. Head(s) \in S /\ Tail(s) \in Seq(S) /\ Len(s) \in Nat \ {0} /\ Len(Tail(s)) = Len(s) - 1
    OBVIOUS
<1>2. DOMAIN s = 1..Len(s) /\ DOMAIN Tail(s) = 1..(Len(s) - 1) BY <1>1
<1>3. \A i \in 1..(Len(s) - 1) : Tail(s)[i] = s[i + 1] BY <1>1
<1>4. Head(s) = s[1] BY <1>1
<1>5. ASSUME NEW k \in ToSet(s) PROVE k \in {Head(s)} \cup ToSet(Tail(s))
    <2>1. PICK i \in 1..Len(s) : k = s[i] BY <1>2, <1>5 DEF ToSet
    <2>2. CASE i = 1 BY <2>1, <2>2, <1>4
    <2>3. CASE i # 1
        <3>1. i - 1 \in 1..(Len(s) - 1) /\ (i - 1) + 1 = i BY <1>1, <2>3
        <3>2. Tail(s)[i - 1] = k BY <3>1, <1>3, <2>1
        <3> QED BY <3>1, <3>2, <1>2 DEF ToSet
    <2> QED BY <2>2, <2>3
<1>6. ASSUME NEW k \in ToSet(Tail(s)) PROVE k \in ToSet(s)
    <2>1. PICK i \in 1..(Len(s) - 1) : k = Tail(s)[i] BY <1>2, <1>6 DEF ToSet
    <2>2. i + 1 \in 1..Len(s) /\ s[i + 1] = k BY <1>1, <1>3, <2>1
    <2> QED BY <2>2, <1>2 DEF ToSet
<1>7. Head(s) \in ToSet(s) BY <1>1, <1>2, <1>4 DEF ToSet
<1> QED BY <1>1, <1>5, <1>6, <1>7

\* A new store: the earlier ones stay.
LEMMA NewStore ==
    ASSUME NEW S, NEW s \in Seq(S), NEW k \in S, NEW t, t = Append(s, k)
    PROVE  /\ t \in Seq(S) /\ Len(t) = Len(s) + 1 /\ t[Len(t)] = k
           /\ \A i \in 1..Len(s) : t[i] = s[i]
<1> QED OBVIOUS

\* A certificate is added to the last store.
LEMMA GrownStore ==
    ASSUME NEW S, NEW s \in Seq(S), Len(s) > 0, NEW k \in S, NEW t,
           t = [s EXCEPT ![Len(s)] = k]
    PROVE  /\ t \in Seq(S) /\ Len(t) = Len(s) /\ t[Len(s)] = k
           /\ \A i \in 1..(Len(s) - 1) : t[i] = s[i]
<1> QED OBVIOUS

\* The error of Parse is the last check that failed, and there is none only if
\* all checks that were asked for succeed.
LEMMA LastFailed ==
    ASSUME NEW S \in SUBSET (DOMAIN CheckOrder), S # {}
    PROVE  Max(S) \in S /\ CheckOrder[Max(S)] \in {"iss", "aud", "iat", "exp", "nbf"}
<1>1. DOMAIN CheckOrder = 1..5 BY DEF CheckOrder
<1>2. \A i \in 1..5 : i = 1 \/ i = 2 \/ i = 3 \/ i = 4 \/ i = 5 OBVIOUS
<1>3. \E x \in S : \A y \in S : x >= y
    <2>1. \E x \in {1, 2, 3, 4, 5} : x \in S /\ \A y \in S : x >= y
        BY <1>1, <1>2
    <2> QED BY <2>1
<1>4. Max(S) \in S BY <1>3 DEF Max
<1>5. Max(S) \in 1..5 BY <1>1, <1>4
<1> QED BY <1>2, <1>4, <1>5 DEF CheckOrder
-----------------------------------------------------------------------------
(* The invariant                                                           *)

LEMMA InitIInv == Init => IInv
<1> SUFFICES ASSUME Init PROVE IInv
    OBVIOUS
<1> USE WSFederationAssumption, Published DEF Init, Store, Versions
<1>0. 1 \in 1..Len(Metadata) OBVIOUS
<1>1. Types
    <2>1. Signing(1) \in SUBSET AllCerts /\ {} \in SUBSET AllCerts BY <1>0
    <2>2. roots = <<{}>> \/ roots = <<Signing(1)>> OBVIOUS
    <2>3. roots \in Seq(SUBSET AllCerts) /\ Len(roots) = 1
        <3>1. \A k \in SUBSET AllCerts : <<k>> \in Seq(SUBSET AllCerts) /\ Len(<<k>>) = 1
            OBVIOUS
        <3> QED BY <2>1, <2>2, <3>1
    <2>4. force \in [Calls -> BOOLEAN] /\ retried \in [Parsers -> BOOLEAN] BY Zenon
    <2>5. metadataURL \in BOOLEAN /\ ready \in BOOLEAN /\ broken \in BOOLEAN BY Zenon
    <2>6. todo \in [Calls -> Seq(AllCerts)] OBVIOUS
    <2> QED BY <1>0, <2>3, <2>4, <2>5, <2>6 DEF Types, PC, Targets
<1>2. LockInv BY DEF LockInv, Locked, Writing
<1>3. FieldsInv BY <1>0 DEF FieldsInv
<1>4. WriterInv BY DEF WriterInv, Locked, Writing
<1>5. VersionInv BY DEF VersionInv
<1>6. ParserInv BY DEF ParserInv, ParserAt, Calls
<1>7. QuietInv BY DEF QuietInv, QuietAt, Inside, Locked, Writing, Calls
<1>8. AcceptedFromProvider BY DEF AcceptedFromProvider, Calls
<1>9. RefusedForCause BY DEF RefusedForCause, Calls
<1> QED BY <1>1, <1>2, <1>3, <1>4, <1>5, <1>6, <1>7, <1>8, <1>9 DEF IInv

\* What check leaves when it finds the metadata ready, or not.
PeekLeft(c) ==
    /\ pc[c] = "check" /\ writer = None
    /\ pc' \in [Calls -> PC] /\ \A d \in Calls : d # c => pc'[d] = pc[d]
    /\ pc'[c] \in Targets \cup {"lock"}
    /\ pc'[c] = "lock" \/ (~force[c] /\ pc'[c] = ret[c])
    /\ UNCHANGED <<metadataURL, published, fields, writer, broken, ret, force, parse, doc,
                   todo, result, quiet>>

LEMMA PeekLeaves == ASSUME Types, NEW c \in Calls, Peek(c) PROVE PeekLeft(c)
<1>1. ret[c] \in Targets /\ Targets \cup {"lock"} \subseteq PC
    BY DEF Types, PC, Inside
<1>2. PICK l \in Targets \cup {"lock"} :
        pc' = [pc EXCEPT ![c] = l] /\ (l = "lock" \/ (~force[c] /\ l = ret[c]))
    BY <1>1 DEF Peek, Goto
<1>3. /\ pc' \in [Calls -> PC] /\ pc'[c] = l
      /\ \A d \in Calls : d # c => pc'[d] = pc[d]
    BY <1>1, <1>2 DEF Types
<1> QED BY <1>2, <1>3 DEF PeekLeft, Peek, At

\* What check leaves without a MetadataURL.
FixedLeft(c) ==
    /\ pc[c] = "fixed" /\ writer' = None /\ ready' \in BOOLEAN
    /\ pc' \in [Calls -> PC] /\ \A d \in Calls : d # c => pc'[d] = pc[d]
    /\ pc'[c] \in Targets /\ pc'[c] \notin Inside
    /\ pc'[c] = "done" \/ pc'[c] = ret[c]
    /\ DOMAIN result' = Calls /\ \A d \in Calls : d # c => result'[d] = result[d]
    /\ result'[c] = result[c] \/ (result'[c] = "error" /\ pc'[c] = "done")
    /\ UNCHANGED <<metadataURL, published, roots, issuer, endpoint, broken, ret, force, parse,
                   doc, todo, quiet>>

LEMMA FixedLeaves == ASSUME Types, NEW c \in Calls, Fixed(c) PROVE FixedLeft(c)
<1>1. ret[c] \in Targets /\ Targets \subseteq PC /\ Targets \cap Inside = {}
    BY DEF Types, PC, Targets, Inside, Locked, Writing
<1>2. PICK l \in Targets : pc' = [pc EXCEPT ![c] = l] /\ (l = "done" \/ l = ret[c])
    BY <1>1 DEF Fixed, Return, Goto, Targets
<1>3. /\ pc' \in [Calls -> PC] /\ pc'[c] = l
      /\ \A d \in Calls : d # c => pc'[d] = pc[d]
    BY <1>1, <1>2 DEF Types
<1>4. /\ DOMAIN result' = Calls /\ \A d \in Calls : d # c => result'[d] = result[d]
      /\ result'[c] = result[c] \/ (result'[c] = "error" /\ pc'[c] = "done")
    BY <1>3 DEF Types, Fixed, Return, Goto
<1>5. ready' \in BOOLEAN BY Zenon DEF Types, Fixed
<1> QED BY <1>1, <1>2, <1>3, <1>4, <1>5 DEF FixedLeft, Fixed, At

\* What ClearCertificateStore leaves.
LEMMA ClearLeaves ==
    ASSUME Types, NEW c \in Calls, Clear(c)
    PROVE  /\ roots' \in Seq(SUBSET AllCerts) /\ Len(roots') = Store + 1
           /\ roots'[Store + 1] = {} /\ \A i \in 1..Store : roots'[i] = roots[i]
<1>1. roots \in Seq(SUBSET AllCerts) /\ {} \in SUBSET AllCerts BY DEF Types
<1>2. roots' = Append(roots, {}) BY DEF Clear
<1> QED BY <1>1, <1>2, NewStore DEF Store

\* What AddTrustedSigningCertificate leaves: a certificate moves from what is to
\* be added to the store.
LEMMA AddLeaves ==
    ASSUME Types, WriterInv, NEW c \in Calls, AddTrustedSigningCertificate(c)
    PROVE  /\ roots' \in Seq(SUBSET AllCerts) /\ Len(roots') = Store
           /\ \A i \in 1..(Store - 1) : roots'[i] = roots[i]
           /\ todo' \in [Calls -> Seq(AllCerts)]
           /\ \A d \in Calls : d # c => todo'[d] = todo[d]
           /\ roots'[Store] = roots[Store] \cup {Head(todo[c])}
           /\ Head(todo[c]) \in Signing(doc[c])
           /\ roots'[Store] \cup ToSet(todo'[c]) = Signing(doc[c])
<1>1. /\ roots \in Seq(SUBSET AllCerts) /\ Store > 0 /\ Store = Len(roots)
      /\ todo \in [Calls -> Seq(AllCerts)] /\ pc[c] = "add" /\ todo[c] # <<>>
      /\ roots[Store] \in SUBSET AllCerts
    BY DEF Types, AddTrustedSigningCertificate, At, Store
<1>2. roots[Store] \cup ToSet(todo[c]) = Signing(doc[c])
    BY <1>1 DEF WriterInv
<1>3. /\ Head(todo[c]) \in AllCerts /\ Tail(todo[c]) \in Seq(AllCerts)
      /\ ToSet(todo[c]) = {Head(todo[c])} \cup ToSet(Tail(todo[c]))
    BY <1>1, ToSetHeadTail
<1>4. todo' = [todo EXCEPT ![c] = Tail(todo[c])]
    BY DEF AddTrustedSigningCertificate
<1>5. roots' = [roots EXCEPT ![Len(roots)] = roots[Store] \cup {Head(todo[c])}]
    BY <1>1 DEF AddTrustedSigningCertificate
<1>6. roots[Store] \cup {Head(todo[c])} \in SUBSET AllCerts
    BY <1>1, <1>3
<1>7. /\ roots' \in Seq(SUBSET AllCerts) /\ Len(roots') = Len(roots)
      /\ roots'[Len(roots)] = roots[Store] \cup {Head(todo[c])}
      /\ \A i \in 1..(Len(roots) - 1) : roots'[i] = roots[i]
    BY <1>1, <1>5, <1>6, GrownStore
<1>8. todo'[c] = Tail(todo[c]) BY <1>1, <1>4
<1>9. roots'[Store] \cup ToSet(todo'[c]) = Signing(doc[c])
    BY <1>1, <1>2, <1>3, <1>7, <1>8
<1>10. todo' \in [Calls -> Seq(AllCerts)] /\ \A d \in Calls : d # c => todo'[d] = todo[d]
    BY <1>1, <1>3, <1>4
<1> QED BY <1>1, <1>2, <1>3, <1>7, <1>9, <1>10

\* A step inside check: the types.
LEMMA CheckTypes ==
    ASSUME Types, WriterInv, NEW c \in Calls, Check(c) PROVE Types'
<1> USE WSFederationAssumption, Published
    DEF Types, WriterInv,
        Calls, Store, Versions, PC, Targets, Inside, Locked, Writing,
        At, Goto, Return, Fails, Disturb, fields, parse
<1>1. CASE Peek(c) BY <1>1 DEF Peek
<1>2. CASE Lock(c) BY <1>2 DEF Lock
<1>3. CASE Fixed(c)
    <2>1. FixedLeft(c) BY <1>3, FixedLeaves
    <2> QED BY <2>1 DEF FixedLeft
<1>4. CASE Fetch(c) BY <1>4 DEF Fetch
<1>5. CASE FetchFails(c) BY <1>5 DEF FetchFails
<1>6. CASE Clear(c) BY <1>6 DEF Clear
<1>7. CASE SetIssuer(c) BY <1>7 DEF SetIssuer
<1>8. CASE AddTrustedSigningCertificate(c) BY <1>8 DEF AddTrustedSigningCertificate
<1>9. CASE AddFails(c) BY <1>9 DEF AddFails
<1>10. CASE SetEndpoint(c) BY <1>10 DEF SetEndpoint
<1>11. CASE SetReady(c) BY <1>11 DEF SetReady
<1> QED BY <1>1, <1>2, <1>3, <1>4, <1>5, <1>6, <1>7, <1>8, <1>9, <1>10, <1>11 DEF Check

\* A step inside check: the lock.
LEMMA CheckLock ==
    ASSUME Types, LockInv, NEW c \in Calls, Check(c) PROVE LockInv'
<1> USE WSFederationAssumption, Published
    DEF Types, LockInv,
        Calls, Store, Versions, PC, Targets, Inside, Locked, Writing,
        At, Goto, Return, Fails, Disturb, fields, parse
<1>1. CASE Peek(c)
    <2>1. PeekLeft(c) BY <1>1, PeekLeaves
    <2> QED BY <2>1 DEF PeekLeft
<1>2. CASE Lock(c) BY <1>2 DEF Lock
<1>3. CASE Fixed(c)
    <2>1. FixedLeft(c) BY <1>3, FixedLeaves
    <2>2. writer = c /\ \A d \in Calls : d # c => pc[d] \notin Locked BY <2>1 DEF FixedLeft
    <2> QED BY <2>1, <2>2 DEF FixedLeft
<1>4. CASE Fetch(c) BY <1>4 DEF Fetch
<1>5. CASE FetchFails(c) BY <1>5 DEF FetchFails
<1>6. CASE Clear(c) BY <1>6 DEF Clear
<1>7. CASE SetIssuer(c) BY <1>7 DEF SetIssuer
<1>8. CASE AddTrustedSigningCertificate(c) BY <1>8 DEF AddTrustedSigningCertificate
<1>9. CASE AddFails(c) BY <1>9 DEF AddFails
<1>10. CASE SetEndpoint(c) BY <1>10 DEF SetEndpoint
<1>11. CASE SetReady(c) BY <1>11 DEF SetReady
<1> QED BY <1>1, <1>2, <1>3, <1>4, <1>5, <1>6, <1>7, <1>8, <1>9, <1>10, <1>11 DEF Check

\* A step inside check: what was published.
LEMMA CheckFields ==
    ASSUME Types, FieldsInv, WriterInv, NEW c \in Calls, Check(c) PROVE FieldsInv'
<1> USE WSFederationAssumption, Published
    DEF Types, FieldsInv, WriterInv,
        Calls, Store, Versions, PC, Targets, Inside, Locked, Writing,
        At, Goto, Return, Fails, Disturb, fields, parse
<1>1. CASE Peek(c) BY <1>1 DEF Peek
<1>2. CASE Lock(c) BY <1>2 DEF Lock
<1>3. CASE Fixed(c) BY <1>3 DEF Fixed
<1>4. CASE Fetch(c) BY <1>4 DEF Fetch
<1>5. CASE FetchFails(c) BY <1>5 DEF FetchFails
<1>6. CASE Clear(c) BY <1>6 DEF Clear
<1>7. CASE SetIssuer(c) BY <1>7 DEF SetIssuer
<1>8. CASE AddTrustedSigningCertificate(c)
    <2>1. doc[c] \in 1..published /\ issuer = Metadata[doc[c]].issuer /\ metadataURL
        BY <1>8 DEF AddTrustedSigningCertificate
    <2>2. \A i \in 1..Store : i = Store \/ i \in 1..(Store - 1)
        OBVIOUS
    <2>3. /\ Len(roots') = Len(roots) /\ metadataURL' /\ issuer' = issuer
          /\ published' = published
        BY <1>8, <2>1, AddLeaves DEF AddTrustedSigningCertificate
    <2>4. ASSUME NEW i \in 1..Store, NEW k \in roots'[i]
          PROVE  \E v \in 1..published : k \in Signing(v)
        BY <1>8, <2>1, <2>2, <2>4, AddLeaves
    <2> QED BY <2>1, <2>3, <2>4
<1>9. CASE AddFails(c) BY <1>9 DEF AddFails
<1>10. CASE SetEndpoint(c) BY <1>10 DEF SetEndpoint
<1>11. CASE SetReady(c) BY <1>11 DEF SetReady
<1> QED BY <1>1, <1>2, <1>3, <1>4, <1>5, <1>6, <1>7, <1>8, <1>9, <1>10, <1>11 DEF Check

\* A step inside check: how far the writer is.
LEMMA CheckWriter ==
    ASSUME Types, LockInv, WriterInv, NEW c \in Calls, Check(c) PROVE WriterInv'
<1> USE WSFederationAssumption, Published
    DEF Types, LockInv, WriterInv,
        Calls, Store, Versions, PC, Targets, Inside, Locked, Writing,
        At, Goto, Return, Fails, Disturb, fields, parse
<1>1. CASE Peek(c)
    <2>1. PeekLeft(c) BY <1>1, PeekLeaves
    <2> QED BY <2>1 DEF PeekLeft
<1>2. CASE Lock(c) BY <1>2 DEF Lock
<1>3. CASE Fixed(c)
    <2>1. FixedLeft(c) BY <1>3, FixedLeaves
    <2> QED BY <2>1 DEF FixedLeft
<1>4. CASE Fetch(c) BY <1>4 DEF Fetch
<1>5. CASE FetchFails(c) BY <1>5 DEF FetchFails
<1>6. CASE Clear(c) BY <1>6 DEF Clear
<1>7. CASE SetIssuer(c)
    <2>1. doc[c] \in 1..Len(Metadata) /\ Metadata[doc[c]].role \in BOOLEAN /\ writer = c
        BY <1>7 DEF SetIssuer
    <2>2. CASE Metadata[doc[c]].role
        <3>1. todo'[c] = Metadata[doc[c]].certs BY <1>7, <2>2 DEF SetIssuer
        <3>2. ToSet(todo'[c]) = Signing(doc[c]) BY <2>1, <2>2, <3>1
        <3> QED BY <1>7, <2>1, <2>2, <3>2 DEF SetIssuer
    <2>3. CASE ~Metadata[doc[c]].role
        <3>1. Signing(doc[c]) = {} BY <2>3 DEF Signing
        <3> QED BY <1>7, <2>1, <2>3, <3>1 DEF SetIssuer
    <2> QED BY <2>2, <2>3
<1>8. CASE AddTrustedSigningCertificate(c)
    <2>1. /\ Len(roots') = Len(roots) /\ writer = c
          /\ UNCHANGED <<pc, doc, issuer, published, metadataURL>>
        BY <1>8, AddLeaves DEF AddTrustedSigningCertificate
    <2>2. roots'[Store] \cup ToSet(todo'[c]) = Signing(doc[c]) BY <1>8, AddLeaves
    <2>3. \A d \in Calls : d # c => pc[d] \notin Locked BY <2>1
    <2> QED BY <1>8, <2>1, <2>2, <2>3 DEF AddTrustedSigningCertificate
<1>9. CASE AddFails(c) BY <1>9 DEF AddFails
<1>10. CASE SetEndpoint(c)
    <2>1. ToSet(todo[c]) = {} BY <1>10 DEF SetEndpoint, ToSet
    <2>2. roots[Store] \cup ToSet(todo[c]) = Signing(doc[c]) BY <1>10 DEF SetEndpoint
    <2>3. roots[Store] = Signing(doc[c]) BY <2>1, <2>2
    <2> QED BY <1>10, <2>3 DEF SetEndpoint
<1>11. CASE SetReady(c) BY <1>11 DEF SetReady
<1> QED BY <1>1, <1>2, <1>3, <1>4, <1>5, <1>6, <1>7, <1>8, <1>9, <1>10, <1>11 DEF Check

\* A step inside check: one version when nobody writes.
LEMMA CheckVersion ==
    ASSUME Types, LockInv, WriterInv, VersionInv, NEW c \in Calls, Check(c) PROVE VersionInv'
<1> USE WSFederationAssumption, Published
    DEF Types, LockInv, WriterInv, VersionInv,
        Calls, Store, Versions, PC, Targets, Inside, Locked, Writing,
        At, Goto, Return, Fails, Disturb, fields, parse
<1>1. CASE Peek(c) BY <1>1 DEF Peek
<1>2. CASE Lock(c) BY <1>2 DEF Lock
<1>3. CASE Fixed(c) BY <1>3 DEF Fixed
<1>4. CASE Fetch(c) BY <1>4 DEF Fetch
<1>5. CASE FetchFails(c) BY <1>5 DEF FetchFails
<1>6. CASE Clear(c) BY <1>6 DEF Clear
<1>7. CASE SetIssuer(c) BY <1>7 DEF SetIssuer
<1>8. CASE AddTrustedSigningCertificate(c) BY <1>8 DEF AddTrustedSigningCertificate
<1>9. CASE AddFails(c) BY <1>9 DEF AddFails
<1>10. CASE SetEndpoint(c) BY <1>10 DEF SetEndpoint
<1>11. CASE SetReady(c) BY <1>11 DEF SetReady
<1> QED BY <1>1, <1>2, <1>3, <1>4, <1>5, <1>6, <1>7, <1>8, <1>9, <1>10, <1>11 DEF Check

\* A step inside check: what a parser relies on.
LEMMA CheckParser ==
    ASSUME Types, FieldsInv, WriterInv, ParserInv, NEW c \in Calls, Check(c) PROVE ParserInv'
<1> USE WSFederationAssumption, Published
    DEF Types, FieldsInv, WriterInv, ParserInv, ParserAt,
        Calls, Store, Versions, PC, Targets, Inside, Locked, Writing,
        At, Goto, Return, Fails, Disturb, fields, parse
<1>1. CASE Peek(c) BY <1>1 DEF Peek
<1>2. CASE Lock(c) BY <1>2 DEF Lock
<1>3. CASE Fixed(c)
    <2>1. FixedLeft(c) BY <1>3, FixedLeaves
    <2>2. pc'[c] \notin {"validate", "claims"} /\ (c \in Parsers => result[c] = "none")
        BY <2>1 DEF FixedLeft
    <2>3. /\ UNCHANGED <<roots, store, token, published, issuer, metadataURL>>
          /\ \A d \in Parsers : d # c => pc'[d] = pc[d] /\ result'[d] = result[d]
          /\ c \in Parsers => (pc'[c] # "done" => result'[c] = "none")
        BY <2>1, <2>2 DEF FixedLeft
    <2> HIDE DEF Types, FieldsInv, WriterInv
    <2> QED BY <2>2, <2>3
<1>4. CASE Fetch(c) BY <1>4 DEF Fetch
<1>5. CASE FetchFails(c) BY <1>5 DEF FetchFails
<1>6. CASE Clear(c)
    <2>1. Len(roots') = Len(roots) + 1 BY <1>6, ClearLeaves
    <2>2. \A d \in Parsers : store[d] \in 1..Len(roots) => store[d] \in 1..Len(roots')
        BY <2>1
    <2> QED BY <1>6, <2>2 DEF Clear
<1>7. CASE SetIssuer(c)
    <2>1. issuer' # None BY <1>7 DEF SetIssuer
    <2> QED BY <1>7, <2>1 DEF SetIssuer
<1>8. CASE AddTrustedSigningCertificate(c)
    <2>1. Len(roots') = Store BY <1>8, AddLeaves
    <2> QED BY <1>8, <2>1 DEF AddTrustedSigningCertificate
<1>9. CASE AddFails(c) BY <1>9 DEF AddFails
<1>10. CASE SetEndpoint(c) BY <1>10 DEF SetEndpoint
<1>11. CASE SetReady(c) BY <1>11 DEF SetReady
<1> QED BY <1>1, <1>2, <1>3, <1>4, <1>5, <1>6, <1>7, <1>8, <1>9, <1>10, <1>11 DEF Check

\* A step inside check: what a parser that nobody disturbs sees.
LEMMA CheckQuiet ==
    ASSUME Types, LockInv, WriterInv, QuietInv, NEW c \in Calls, Check(c) PROVE QuietInv'
<1> USE WSFederationAssumption, Published
    DEF Types, LockInv, WriterInv, QuietInv, QuietAt,
        Calls, Store, Versions, PC, Targets, Inside, Locked, Writing,
        At, Goto, Return, Fails, Disturb, fields, parse
<1>1. CASE Peek(c)
    <2>1. PeekLeft(c) BY <1>1, PeekLeaves
    <2> QED BY <2>1 DEF PeekLeft
<1>2. CASE Lock(c) BY <1>2 DEF Lock
<1>3. CASE Fixed(c)
    <2>1. FixedLeft(c) BY <1>3, FixedLeaves
    <2> QED BY <2>1 DEF FixedLeft
<1>4. CASE Fetch(c) BY <1>4 DEF Fetch
<1>5. CASE FetchFails(c) BY <1>5 DEF FetchFails
<1>6. CASE Clear(c) BY <1>6 DEF Clear
<1>7. CASE SetIssuer(c) BY <1>7 DEF SetIssuer
<1>8. CASE AddTrustedSigningCertificate(c) BY <1>8 DEF AddTrustedSigningCertificate
<1>9. CASE AddFails(c) BY <1>9 DEF AddFails
<1>10. CASE SetEndpoint(c) BY <1>10 DEF SetEndpoint
<1>11. CASE SetReady(c) BY <1>11 DEF SetReady
<1> QED BY <1>1, <1>2, <1>3, <1>4, <1>5, <1>6, <1>7, <1>8, <1>9, <1>10, <1>11 DEF Check

\* A step inside check accepts no token, and leaves what was accepted alone.
LEMMA CheckLeaves ==
    ASSUME Types, NEW c \in Calls, Check(c)
    PROVE  /\ UNCHANGED <<token, published, metadataURL>>
           /\ \A d \in Parsers : result'[d] = "accepted" => result[d] = "accepted"
<1> USE DEF Types, Calls, At, Goto, Return, Fails, fields, parse
<1>1. CASE Peek(c) BY <1>1 DEF Peek
<1>2. CASE Lock(c) BY <1>2 DEF Lock
<1>3. CASE Fixed(c)
    <2>1. UNCHANGED <<token, published, metadataURL>> BY <1>3 DEF Fixed
    <2>2. \/ UNCHANGED result
          \/ result' = [result EXCEPT ![c] = "error"]
        BY <1>3 DEF Fixed
    <2> QED BY <2>1, <2>2
<1>4. CASE Fetch(c) BY <1>4 DEF Fetch
<1>5. CASE FetchFails(c) BY <1>5 DEF FetchFails
<1>6. CASE Clear(c) BY <1>6 DEF Clear
<1>7. CASE SetIssuer(c) BY <1>7 DEF SetIssuer
<1>8. CASE AddTrustedSigningCertificate(c) BY <1>8 DEF AddTrustedSigningCertificate
<1>9. CASE AddFails(c) BY <1>9 DEF AddFails
<1>10. CASE SetEndpoint(c) BY <1>10 DEF SetEndpoint
<1>11. CASE SetReady(c) BY <1>11 DEF SetReady
<1> QED BY <1>1, <1>2, <1>3, <1>4, <1>5, <1>6, <1>7, <1>8, <1>9, <1>10, <1>11 DEF Check

LEMMA CheckAccepted ==
    ASSUME Types, AcceptedFromProvider, NEW c \in Calls, Check(c) PROVE AcceptedFromProvider'
BY CheckLeaves DEF AcceptedFromProvider

\* A step inside check: a parser that it refuses is not quiet.
LEMMA CheckRefused ==
    ASSUME Types, ParserInv, QuietInv, FieldsInv, RefusedForCause, NEW c \in Calls, Check(c) PROVE RefusedForCause'
<1> USE WSFederationAssumption, Published
    DEF Types, ParserInv, ParserAt, QuietInv, QuietAt, FieldsInv, RefusedForCause,
        Calls, Store, Versions, PC, Targets, Inside, Locked, Writing,
        At, Goto, Return, Fails, Disturb, fields, parse
<1>1. CASE Peek(c) BY <1>1 DEF Peek
<1>2. CASE Lock(c) BY <1>2 DEF Lock
<1>3. CASE Fixed(c) BY <1>3 DEF Fixed
<1>4. CASE Fetch(c) BY <1>4 DEF Fetch
<1>5. CASE FetchFails(c) BY <1>5 DEF FetchFails
<1>6. CASE Clear(c) BY <1>6 DEF Clear
<1>7. CASE SetIssuer(c) BY <1>7 DEF SetIssuer
<1>8. CASE AddTrustedSigningCertificate(c) BY <1>8 DEF AddTrustedSigningCertificate
<1>9. CASE AddFails(c) BY <1>9 DEF AddFails
<1>10. CASE SetEndpoint(c) BY <1>10 DEF SetEndpoint
<1>11. CASE SetReady(c) BY <1>11 DEF SetReady
<1> QED BY <1>1, <1>2, <1>3, <1>4, <1>5, <1>6, <1>7, <1>8, <1>9, <1>10, <1>11 DEF Check

\* A step of a call outside check: what check writes stays, and so do the other
\* calls.
OutsideLeft(c) ==
    /\ pc[c] \notin Inside /\ pc[c] # "done"
    /\ pc' \in [Calls -> PC] /\ \A d \in Calls : d # c => pc'[d] = pc[d]
    /\ pc'[c] \notin Locked
    /\ ret' \in [Calls -> Targets] /\ \A d \in Calls : d # c => ret'[d] = ret[d]
    /\ force' \in [Calls -> BOOLEAN] /\ \A d \in Calls : d # c => force'[d] = force[d]
    /\ DOMAIN result' = Calls /\ \A d \in Calls : d # c => result'[d] = result[d]
    /\ UNCHANGED <<metadataURL, published, fields, writer, broken, doc, todo>>

LEMMA OutsideLeaves ==
    ASSUME Types, NEW c \in Calls,
           \/ Ask(c) \/ URL(c) \/ Ready(c) \/ RefreshMetadata(c)
           \/ ReadResponse(c) \/ Decode(c) \/ Validated(c) \/ RefreshAndRetry(c) \/ Refuse(c)
           \/ Claims(c)
    PROVE  OutsideLeft(c)
<1> USE DEF At, Goto, Return, CallCheck
<1>1. PICK l \in {"done", "check", "decode", "validate", "claims"} :
        pc' = [pc EXCEPT ![c] = l]
    BY DEF Ask, URL, Ready, RefreshMetadata, ReadResponse, Decode, Validated, RefreshAndRetry,
           Refuse, Claims
<1>2. pc[c] \in {"idle", "url", "readiness", "decode", "validate", "claims"}
    BY DEF Ask, URL, Ready, RefreshMetadata, ReadResponse, Decode, Validated, RefreshAndRetry,
           Refuse, Claims
<1>3. /\ pc' \in [Calls -> PC] /\ pc'[c] \notin Locked
      /\ \A d \in Calls : d # c => pc'[d] = pc[d]
    BY <1>1 DEF Types, PC, Targets, Inside, Locked, Writing
<1>4. ret' = ret \/ \E t \in Targets : ret' = [ret EXCEPT ![c] = t]
    BY DEF Ask, URL, Ready, RefreshMetadata, ReadResponse, Decode, Validated, RefreshAndRetry,
           Refuse, Claims, Targets
<1>5. ret' \in [Calls -> Targets] /\ \A d \in Calls : d # c => ret'[d] = ret[d]
    BY <1>4 DEF Types
<1>6. \/ force' = force \/ force' = [force EXCEPT ![c] = TRUE]
      \/ force' = [force EXCEPT ![c] = FALSE]
    BY DEF Ask, URL, Ready, RefreshMetadata, ReadResponse, Decode, Validated, RefreshAndRetry,
           Refuse, Claims
<1>7. force' \in [Calls -> BOOLEAN] BY <1>6, Zenon DEF Types
<1>8. \A d \in Calls : d # c => force'[d] = force[d] BY <1>6 DEF Types
<1>9. result' = result \/ \E r : result' = [result EXCEPT ![c] = r]
    BY DEF Ask, URL, Ready, RefreshMetadata, ReadResponse, Decode, Validated, RefreshAndRetry,
           Refuse, Claims
<1>10. DOMAIN result' = Calls /\ \A d \in Calls : d # c => result'[d] = result[d]
    BY <1>9 DEF Types
<1>11. UNCHANGED <<metadataURL, published, fields, writer, broken, doc, todo>>
    BY DEF Ask, URL, Ready, RefreshMetadata, ReadResponse, Decode, Validated, RefreshAndRetry,
           Refuse, Claims
<1> QED BY <1>2, <1>3, <1>5, <1>7, <1>8, <1>10, <1>11
        DEF OutsideLeft, Inside, Locked, Writing

\* So it leaves what the invariant says of the fields and their writer.
LEMMA OutsideFields ==
    ASSUME Types, LockInv, FieldsInv, WriterInv, VersionInv, NEW c \in Calls, OutsideLeft(c)
    PROVE  LockInv' /\ FieldsInv' /\ WriterInv' /\ VersionInv'
<1> USE DEF OutsideLeft, fields, Store, Versions
<1>1. pc[c] \notin Locked /\ pc'[c] \notin Locked BY DEF Inside
<1>2. LockInv' BY <1>1 DEF LockInv
<1>3. FieldsInv' BY DEF FieldsInv
<1>4. WriterInv' BY <1>1 DEF WriterInv, Locked, Writing
<1>5. VersionInv' BY <1>1 DEF VersionInv, Locked, Writing
<1> QED BY <1>2, <1>3, <1>4, <1>5

\* RefreshMetadata, SigninURL, SignoutURL and Ready leave the parsers alone.
LEMMA OthersStep ==
    ASSUME IInv, NEW c \in Askers \cup Refreshers,
           Ask(c) \/ URL(c) \/ Ready(c) \/ RefreshMetadata(c)
    PROVE  IInv'
<1>1. OutsideLeft(c) BY OutsideLeaves DEF IInv, Calls
<1>2. LockInv' /\ FieldsInv' /\ WriterInv' /\ VersionInv'
    BY <1>1, OutsideFields DEF IInv, Calls
<1>3. UNCHANGED <<token, store, retried, quiet>>
    BY DEF Ask, URL, Ready, RefreshMetadata, parse
<1>4. \A d \in Parsers : d # c /\ d \in Calls BY WSFederationAssumption DEF Calls
<1>5. /\ \A d \in Parsers : /\ pc'[d] = pc[d] /\ ret'[d] = ret[d] /\ force'[d] = force[d]
                            /\ result'[d] = result[d]
      /\ \A d \in Calls : pc'[d] \in Writing => pc[d] \in Writing
      /\ UNCHANGED <<metadataURL, published, roots, issuer, doc>>
    BY <1>1, <1>4 DEF OutsideLeft, fields, Locked
<1> USE <1>3, <1>5 DEF IInv, Store, Versions
<1>6. Types' BY <1>1 DEF Types, OutsideLeft, fields
<1>7. ParserInv' BY DEF ParserInv, ParserAt
<1>8. QuietInv' BY DEF QuietInv, QuietAt
<1>9. AcceptedFromProvider' BY DEF AcceptedFromProvider
<1>10. RefusedForCause' BY DEF RefusedForCause
<1> QED BY <1>2, <1>6, <1>7, <1>8, <1>9, <1>10

\* The state of the parsers after a step of one of them.
LEMMA ParserTypes ==
    ASSUME Types, NEW c \in Parsers,
           \/ ReadResponse(c) \/ Decode(c) \/ Validated(c) \/ RefreshAndRetry(c) \/ Refuse(c)
           \/ Claims(c)
    PROVE  /\ Types'
           /\ \A d \in Parsers : d # c => /\ token'[d] = token[d] /\ store'[d] = store[d]
                                          /\ retried'[d] = retried[d] /\ quiet'[d] = quiet[d]
<1>0. c \in Calls BY DEF Calls
<1>1. OutsideLeft(c) BY <1>0, OutsideLeaves
<1>2. token' = token \/ \E t \in Tokens : token' = [token EXCEPT ![c] = t]
    BY DEF ReadResponse, Decode, Validated, RefreshAndRetry, Refuse, Claims, parse
<1>3. store' = store \/ \E n \in {0, Store} : store' = [store EXCEPT ![c] = n]
    BY DEF ReadResponse, Decode, Validated, RefreshAndRetry, Refuse, Claims, parse
<1>4. retried' = retried \/ retried' = [retried EXCEPT ![c] = TRUE]
    BY DEF ReadResponse, Decode, Validated, RefreshAndRetry, Refuse, Claims, parse
<1>5. quiet' = quiet \/ \E q \in {"quiet", "raced"} : quiet' = [quiet EXCEPT ![c] = q]
    BY DEF ReadResponse, Decode, Validated, RefreshAndRetry, Refuse, Claims, parse
<1>6. Store \in Nat /\ Store' = Store BY <1>1 DEF OutsideLeft, fields, Types, Store
<1>7. token' \in [Parsers -> Tokens \cup {None}] BY <1>2 DEF Types
<1>8. store' \in [Parsers -> Nat] /\ \A d \in Parsers : store'[d] <= Store
    <2>1. store \in [Parsers -> Nat] /\ \A d \in Parsers : store[d] <= Store BY DEF Types
    <2>2. CASE store' = store BY <2>1, <2>2
    <2>3. CASE \E n \in {0, Store} : store' = [store EXCEPT ![c] = n]
        <3>1. PICK n \in {0, Store} : store' = [store EXCEPT ![c] = n] BY <2>3
        <3>2. n \in Nat /\ n <= Store
            <4> HIDE DEF Store
            <4> QED BY <1>6, <3>1
        <3> QED BY <2>1, <3>1, <3>2
    <2> QED BY <1>3, <2>2, <2>3
<1>9. retried' \in [Parsers -> BOOLEAN] BY <1>4, Zenon DEF Types
<1>10. quiet' \in [Parsers -> {"quiet", "raced", "failed"}] BY <1>5 DEF Types
<1>11. Types'
    BY <1>1, <1>6, <1>7, <1>8, <1>9, <1>10 DEF Types, OutsideLeft, fields, Versions
<1>12. \A d \in Parsers : d # c => /\ token'[d] = token[d] /\ store'[d] = store[d]
                                   /\ retried'[d] = retried[d] /\ quiet'[d] = quiet[d]
    BY <1>2, <1>3, <1>4, <1>5 DEF Types
<1> QED BY <1>11, <1>12

\* What the claims of an accepted token say.
AcceptedClaims(c) ==
    /\ \E v \in Versions : token[c].cert \in Signing(v)
    /\ (metadataURL /\ "iss" \in Checks) =>
        \E v \in Versions : token[c].issuer = Metadata[v].issuer
    /\ "nbf" \in Checks => token[c].nbf <= Now + ClockSkew
    /\ "exp" \in Checks => Now < token[c].exp + ClockSkew

\* Claims accepts a token only if every check it was asked for succeeds.
LEMMA ClaimsAccepted ==
    ASSUME Types, FieldsInv, ParserInv, NEW c \in Parsers, Claims(c), result'[c] = "accepted"
    PROVE  AcceptedClaims(c)
<1> DEFINE failed == {i \in DOMAIN CheckOrder :
                         CheckOrder[i] \in Checks /\ ~Verify(token[c], CheckOrder[i])}
<1>1. result'[c] = IF failed = {} THEN "accepted" ELSE CheckOrder[Max(failed)]
    BY DEF Claims, Return, Types, Calls
<1>2. failed = {}
    <2> SUFFICES ASSUME failed # {} PROVE FALSE
        OBVIOUS
    <2>1. failed \in SUBSET (DOMAIN CheckOrder) OBVIOUS
    <2>2. CheckOrder[Max(failed)] # "accepted"
        <3> HIDE DEF failed
        <3> QED BY <2>1, LastFailed
    <2> QED BY <1>1, <2>2
<1>3. \A i \in DOMAIN CheckOrder : CheckOrder[i] \in Checks => Verify(token[c], CheckOrder[i])
    BY <1>2
<1>4. /\ DOMAIN CheckOrder = 1..5 /\ CheckOrder[1] = "iss" /\ CheckOrder[4] = "exp"
      /\ CheckOrder[5] = "nbf"
    BY DEF CheckOrder
<1>5. "iss" \in Checks => Verify(token[c], "iss") BY <1>3, <1>4
<1>6. "exp" \in Checks => Verify(token[c], "exp") BY <1>3, <1>4
<1>7. "nbf" \in Checks => Verify(token[c], "nbf") BY <1>3, <1>4
<1>8. pc[c] = "claims" BY DEF Claims, At
<1>9. "iss" \in Checks => (issuer # None => issuer = token[c].issuer)
    BY <1>5 DEF Verify, verifyIss
<1>10. "nbf" \in Checks => token[c].nbf <= Now + ClockSkew
    BY <1>7 DEF Verify, verifyNbf
<1>11. "exp" \in Checks => Now < token[c].exp + ClockSkew
    BY <1>6 DEF Verify, verifyExp
<1>12. /\ \E v \in Versions : token[c].cert \in Signing(v)
       /\ metadataURL => issuer # None
    BY <1>8 DEF ParserInv, ParserAt
<1>13. (metadataURL /\ issuer # None) => \E v \in Versions : issuer = Metadata[v].issuer
    BY DEF FieldsInv
<1> QED BY <1>9, <1>10, <1>11, <1>12, <1>13 DEF AcceptedClaims

\* Its errors are those of the claims.
LEMMA ClaimsNotSignature ==
    ASSUME Types, NEW c \in Parsers, Claims(c) PROVE result'[c] # "signature"
<1> DEFINE failed == {i \in DOMAIN CheckOrder :
                         CheckOrder[i] \in Checks /\ ~Verify(token[c], CheckOrder[i])}
<1>1. result'[c] = IF failed = {} THEN "accepted" ELSE CheckOrder[Max(failed)]
    BY DEF Claims, Return, Types, Calls
<1>2. failed \in SUBSET (DOMAIN CheckOrder) OBVIOUS
<1> HIDE DEF failed
<1> QED BY <1>1, <1>2, LastFailed

\* Where a step leads a parser, and what it relies on there.
LEMMA ParserKeepsAt ==
    ASSUME IInv, NEW c \in Parsers, OutsideLeft(c), ReadResponse(c) \/ Parse(c)
    PROVE  ParserAt(c)'
<1> USE DEF At, Goto, Return
<1>0. /\ c \in Calls /\ DOMAIN pc = Calls /\ DOMAIN result = Calls /\ DOMAIN store = Parsers
      /\ DOMAIN token = Parsers
    BY DEF IInv, Types, Calls
<1>1. /\ UNCHANGED <<metadataURL, published, roots, issuer>> /\ result[c] = "none"
      /\ Len(roots) \in Nat /\ Len(roots) > 0
    BY DEF OutsideLeft, fields, IInv, ParserInv, ParserAt, Types, Store
<1>2. CASE ReadResponse(c)
    <2>1. pc'[c] \in {"decode", "done"} /\ (pc'[c] = "decode" => result'[c] = "none")
        BY <1>0, <1>1, <1>2 DEF ReadResponse
    <2> QED BY <2>1 DEF ParserAt
<1>3. CASE Decode(c)
    <2>1. \/ pc'[c] = "done"
          \/ pc'[c] = "validate" /\ result'[c] = "none" /\ store'[c] = Len(roots)
        BY <1>0, <1>1, <1>3 DEF Decode, Store
    <2> QED BY <1>1, <2>1 DEF ParserAt, Store
<1>4. CASE Validated(c)
    <2>1. \/ pc'[c] = "done"
          \/ pc'[c] = "claims" /\ result'[c] = "none"
        BY <1>0, <1>1, <1>4 DEF Validated
    <2>2. token' = token /\ token[c].cert \in roots[store[c]] /\ pc[c] = "validate"
        BY <1>4 DEF Validated, Trusted
    <2>3. store[c] \in 1..Store BY <2>2 DEF IInv, ParserInv, ParserAt
    <2>4. \E v \in Versions : token[c].cert \in Signing(v)
        BY <2>2, <2>3 DEF IInv, FieldsInv
    <2>5. metadataURL => issuer # None
        <3>1. metadataURL => \E v \in Versions : issuer = Metadata[v].issuer
            BY <2>2, <2>3 DEF IInv, FieldsInv
        <3>2. Versions \subseteq 1..Len(Metadata) BY DEF IInv, Types, Versions
        <3> QED BY <3>1, <3>2, Published
    <2> QED BY <1>1, <2>1, <2>2, <2>4, <2>5 DEF ParserAt, Versions
<1>5. CASE RefreshAndRetry(c)
    <2>1. pc'[c] = "check" /\ result'[c] = "none"
        BY <1>0, <1>1, <1>5 DEF RefreshAndRetry, CallCheck
    <2> QED BY <2>1 DEF ParserAt
<1>6. CASE Refuse(c) \/ Claims(c)
    <2>1. pc'[c] = "done" BY <1>0, <1>6 DEF Refuse, Claims
    <2> QED BY <2>1 DEF ParserAt
<1> QED BY <1>2, <1>3, <1>4, <1>5, <1>6 DEF Parse

\* What an undisturbed parser sees there.
LEMMA ParserKeepsQuiet ==
    ASSUME IInv, NEW c \in Parsers, OutsideLeft(c), ReadResponse(c) \/ Parse(c)
    PROVE  QuietAt(c)'
<1> USE DEF At, Goto, Return
<1>0. /\ c \in Calls /\ DOMAIN pc = Calls /\ DOMAIN store = Parsers /\ DOMAIN quiet = Parsers
      /\ DOMAIN retried = Parsers /\ DOMAIN ret = Calls /\ DOMAIN force = Calls
    BY DEF IInv, Types, Calls
<1>1. /\ UNCHANGED <<metadataURL, published, roots, issuer, doc, writer>>
      /\ \A d \in Calls : d # c => pc'[d] = pc[d]
      /\ pc'[c] \notin Locked /\ QuietAt(c)
    BY DEF OutsideLeft, fields, IInv, QuietInv
<1>2. CASE ReadResponse(c)
    <2>1. /\ pc'[c] \in {"decode", "done"} /\ retried' = retried
          /\ quiet'[c] = "quiet" => writer = None
        BY <1>0, <1>2 DEF ReadResponse
    <2>2. ~retried[c] BY <1>2 DEF ReadResponse, IInv, QuietInv, QuietAt
    <2>3. writer = None => \A d \in Calls : pc[d] \notin Writing
        BY WSFederationAssumption DEF IInv, LockInv, Locked
    <2> QED BY <1>1, <2>1, <2>2, <2>3 DEF QuietAt, Inside, Locked, Writing
<1>3. CASE Decode(c)
    <2>1. /\ pc'[c] \in {"validate", "done"} /\ pc[c] = "decode"
          /\ pc'[c] = "validate" => store'[c] = Len(roots)
          /\ UNCHANGED <<retried, quiet>>
        BY <1>0, <1>3 DEF Decode, Store
    <2> QED BY <1>1, <2>1 DEF QuietAt, Inside, Locked, Writing, Store
<1>4. CASE Validated(c)
    <2>1. /\ pc'[c] \in {"claims", "done"} /\ pc[c] = "validate"
          /\ UNCHANGED <<retried, quiet>>
        BY <1>0, <1>4 DEF Validated
    <2> QED BY <1>1, <2>1 DEF QuietAt, Inside, Locked, Writing
<1>5. CASE RefreshAndRetry(c)
    <2>1. /\ pc'[c] = "check" /\ pc[c] = "validate" /\ metadataURL
          /\ retried'[c] /\ force'[c] /\ ret'[c] = "decode" /\ quiet' = quiet
        BY <1>0, <1>5 DEF RefreshAndRetry, CallCheck
    <2> QED BY <1>1, <2>1 DEF QuietAt, Inside, Locked, Writing
<1>6. CASE Refuse(c) \/ Claims(c)
    <2>1. pc'[c] = "done" /\ retried' = retried BY <1>0, <1>6 DEF Refuse, Claims, parse
    <2> QED BY <1>1, <2>1 DEF QuietAt, Inside, Locked, Writing
<1> QED BY <1>2, <1>3, <1>4, <1>5, <1>6 DEF Parse

\* A step of ReadResponse and Parse keeps the invariant.
LEMMA ParserStep ==
    ASSUME IInv, NEW c \in Parsers, ReadResponse(c) \/ Parse(c) PROVE IInv'
<1>0. c \in Calls BY DEF Calls
<1>1. OutsideLeft(c) BY <1>0, OutsideLeaves DEF IInv, Parse
<1>2. LockInv' /\ FieldsInv' /\ WriterInv' /\ VersionInv'
    BY <1>0, <1>1, OutsideFields DEF IInv
<1>3. /\ Types'
      /\ \A d \in Parsers : d # c => /\ token'[d] = token[d] /\ store'[d] = store[d]
                                     /\ retried'[d] = retried[d] /\ quiet'[d] = quiet[d]
    BY ParserTypes DEF IInv, Parse
<1>4. /\ \A d \in Parsers : d # c => /\ pc'[d] = pc[d] /\ ret'[d] = ret[d]
                                     /\ force'[d] = force[d] /\ result'[d] = result[d]
      /\ \A d \in Calls : pc'[d] \in Writing => pc[d] \in Writing
      /\ UNCHANGED <<metadataURL, published, roots, issuer, doc, writer>>
    BY <1>1 DEF OutsideLeft, fields, Locked, Calls
<1>5. pc[c] \notin Inside /\ pc[c] # "done" /\ result[c] = "none"
    BY <1>1 DEF OutsideLeft, IInv, ParserInv, ParserAt
<1> USE <1>0, <1>3, <1>4, <1>5 DEF At, Goto, Return
<1>6. ParserInv'
    <2>1. \A d \in Parsers : d # c => ParserAt(d)'
        BY DEF IInv, ParserInv, ParserAt, Store, Versions
    <2>2. ParserAt(c)' BY ParserKeepsAt, <1>1
    <2> QED BY <2>1, <2>2 DEF ParserInv
<1>7. QuietInv'
    <2>1. \A d \in Parsers : d # c => QuietAt(d)'
        BY DEF IInv, QuietInv, QuietAt, Store
    <2>2. QuietAt(c)' BY ParserKeepsQuiet, <1>1
    <2> QED BY <2>1, <2>2 DEF QuietInv
<1>8. AcceptedFromProvider'
    <2>1. result'[c] = "accepted" => AcceptedClaims(c)
        BY ClaimsAccepted, LastFailed DEF IInv, ReadResponse, Parse, Decode, Validated,
            RefreshAndRetry, Refuse, Types
    <2>2. result'[c] = "accepted" => token'[c] = token[c]
        BY DEF ReadResponse, Parse, Decode, Validated, RefreshAndRetry, Refuse, Claims, parse,
            IInv, Types
    <2> QED BY <2>1, <2>2 DEF IInv, AcceptedFromProvider, AcceptedClaims, Versions
<1>9. RefusedForCause'
    <2>1. CASE Refuse(c)
        <3>1. CASE metadataURL
            BY <2>1, <3>1 DEF Refuse, Trusted, IInv, Types, QuietInv, QuietAt, RefusedForCause
        <3>2. CASE ~metadataURL
            <4>1. roots[store[c]] = Signing(1)
                BY <2>1, <3>2 DEF Refuse, IInv, ParserInv, ParserAt, FieldsInv
            <4> QED BY <2>1, <3>2, <4>1 DEF Refuse, Trusted, IInv, Types, RefusedForCause
        <3> QED BY <3>1, <3>2
    <2>2. CASE ~Refuse(c)
        <3>1. result'[c] # "signature"
            BY <2>2, ClaimsNotSignature DEF ReadResponse, Parse, Decode, Validated,
                RefreshAndRetry, IInv, Types
        <3> QED BY <3>1 DEF IInv, RefusedForCause
    <2> QED BY <2>1, <2>2
<1> QED BY <1>2, <1>3, <1>6, <1>7, <1>8, <1>9 DEF IInv

\* The provider publishes the next version: everybody who parses raced.
LEMMA RotateStep == ASSUME IInv, Rotate PROVE IInv'
<1> USE DEF IInv, Rotate, Disturb, fields, parse
<1>1. published \in Nat /\ published' = published + 1 /\ Versions \subseteq Versions'
    BY WSFederationAssumption DEF Types, Versions
<1>2. \A d \in Parsers : quiet'[d] # "quiet" /\ quiet'[d] \in {"raced", "failed"}
    BY WSFederationAssumption DEF Types, Calls
<1>3. Types'
    <2>1. published' \in 1..Len(Metadata) BY <1>1, WSFederationAssumption DEF Types
    <2>2. quiet' \in [Parsers -> {"quiet", "raced", "failed"}] BY <1>2
    <2> QED BY <1>1, <2>1, <2>2 DEF Types, Store
<1>4. LockInv' BY DEF LockInv
<1>5. FieldsInv' BY <1>1 DEF FieldsInv, Store
<1>6. WriterInv' BY <1>1 DEF WriterInv, Store
<1>7. VersionInv' BY <1>1 DEF VersionInv, Store
<1>8. ParserInv' BY <1>1 DEF ParserInv, ParserAt, Store
<1>9. QuietInv' BY <1>2 DEF QuietInv, QuietAt
<1>10. AcceptedFromProvider' BY <1>1 DEF AcceptedFromProvider, Versions
<1>11. RefusedForCause' BY <1>2 DEF RefusedForCause
<1> QED BY <1>3, <1>4, <1>5, <1>6, <1>7, <1>8, <1>9, <1>10, <1>11

LEMMA NextIInv == IInv /\ [Next]_vars => IInv'
<1> SUFFICES ASSUME IInv, [Next]_vars PROVE IInv'
    OBVIOUS
<1>1. ASSUME NEW c \in Calls, Check(c) PROVE IInv'
    BY <1>1, CheckTypes, CheckLock, CheckFields, CheckWriter, CheckVersion, CheckParser,
       CheckQuiet, CheckAccepted, CheckRefused DEF IInv
<1>2. ASSUME NEW c \in Calls, Begin(c) \/ Step(c) PROVE IInv'
    BY <1>1, <1>2, OthersStep, ParserStep DEF Begin, Step
<1>3. CASE Rotate BY <1>3, RotateStep
<1>4. CASE UNCHANGED vars
    BY <1>4 DEF vars, fields, parse, IInv, Types, LockInv, FieldsInv, WriterInv, VersionInv,
        ParserInv, ParserAt, QuietInv, QuietAt, AcceptedFromProvider, RefusedForCause, Store, Versions
<1> QED BY <1>2, <1>3, <1>4 DEF Next, Finished

\* The invariant holds in every reachable state.
THEOREM Invariance == Spec => []IInv
<1>1. Init => IInv BY InitIInv
<1>2. IInv /\ [Next]_vars => IInv' BY NextIInv
<1> QED BY <1>1, <1>2, PTL DEF Spec

\* The type invariant; check writes the fields under the lock only.
THEOREM TypeCorrect == Spec => []TypeOK
<1>1. IInv => TypeOK
    BY WSFederationAssumption
       DEF IInv, Types, LockInv, TypeOK, Store, Versions, Locked, Writing
<1> QED BY <1>1, Invariance, PTL

\* Parse of token.go accepts only tokens that the provider signed with a
\* certificate, and under a name, it has published, in every interleaving of
\* any number of parsers with any number of refreshes and rotations.
THEOREM OnlyTheProviderSigns == Spec => []AcceptedFromProvider
<1>1. IInv => AcceptedFromProvider BY DEF IInv
<1> QED BY <1>1, Invariance, PTL

\* Refreshes that race leave the certificates and the issuer of one version.
THEOREM FieldsOfOneVersion == Spec => []OneVersion
<1>1. IInv => OneVersion
    <2> SUFFICES ASSUME IInv, metadataURL, ready, writer = None, ~broken
                 PROVE  \E v \in 1..published :
                            roots[Store] = Signing(v) /\ issuer = Metadata[v].issuer
        BY DEF OneVersion
    <2>1. \A c \in Calls : pc[c] \notin Writing
        BY WSFederationAssumption DEF IInv, LockInv, Locked
    <2> QED BY <2>1 DEF IInv, VersionInv, Versions
<1> QED BY <1>1, Invariance, PTL

\* The refresh inside Parse suffices: a token with a certificate that is
\* published is refused for its signature only after a race or a failure.
THEOREM RefreshSuffices == Spec => []RefusedForCause
<1>1. IInv => RefusedForCause BY DEF IInv
<1> QED BY <1>1, Invariance, PTL
=============================================================================
