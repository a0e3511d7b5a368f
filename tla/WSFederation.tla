---------------------------- MODULE WSFederation ----------------------------
(***************************************************************************)
(* The WS-Federation service (wsfed/): calls that parse sign-in responses, *)
(* ask for URLs or readiness, and refresh the metadata, while the identity *)
(* provider rotates its certificates.                                      *)
(*                                                                         *)
(* check writes the fields of the service under the lock; Parse and the    *)
(* URLs read them without it, so every field check writes is a step of its *)
(* own.  Outside this repository: the XML signature library, which accepts *)
(* a token whose certificate is in the store when it looks.                *)
(***************************************************************************)
EXTENDS Naturals, Sequences, SequencesExt

CONSTANTS
    Parsers, Askers, Refreshers,    \* calls: ReadResponse, URLs and Ready, RefreshMetadata
    Metadata,       \* versions the provider publishes: [certs, issuer, role]; certs is
                    \* a sequence
    Tokens,         \* the tokens of this instance
    Checks,         \* the checks the options of Parse ask for
    Audience, Now, ClockSkew,
    None            \* nil, ""

Calls == Parsers \cup Askers \cup Refreshers
CheckOrder == <<"iss", "aud", "iat", "exp", "nbf">>

\* Every call is of one kind; the provider names itself in what it publishes.
ASSUME WSFederationAssumption ==
    /\ None \notin Calls
    /\ Parsers \cap (Askers \cup Refreshers) = {} /\ Askers \cap Refreshers = {}
    /\ Metadata \in Seq(Range(Metadata)) /\ Metadata # <<>>
    /\ \A v \in DOMAIN Metadata :
        /\ Metadata[v].certs \in Seq(Range(Metadata[v].certs))
        /\ Metadata[v].issuer # None /\ Metadata[v].role \in BOOLEAN
    /\ Now \in Nat /\ ClockSkew \in Nat
    /\ Checks \subseteq Range(CheckOrder)

VARIABLES
    metadataURL,    \* MetadataURL is set
    published,      \* the version of the metadata the provider publishes
    roots,          \* the Roots of every certificate store made; the last one is in use
    issuer, endpoint, ready,    \* Issuer, IDPEndpoint, ready
    writer,         \* the call that holds lock
    broken,         \* history: the last check failed halfway
    pc, ret,        \* of every call: where it is; where check returns to
    force,          \* of every call: the argument of check
    token,          \* of every parser: what it parses
    doc,            \* of every call: the version it fetched
    todo,           \* of every call: certificates it has still to add
    store,          \* of every parser: the store its validation context has
    retried,        \* of every parser: this is the second decodeResponse
    result,         \* of every call: what it returned
    quiet           \* history, of every parser, since it began: "quiet"; "raced" with
                    \* another call's check or a rotation; some check "failed"

fields == <<roots, issuer, endpoint, ready>>
parse  == <<token, store, retried>>
vars == <<metadataURL, published, fields, writer, broken, pc, ret, force, parse, doc, todo,
          result, quiet>>

Store == Len(roots)

\* The certificates version v makes known.
Signing(v) == IF Metadata[v].role THEN ToSet(Metadata[v].certs) ELSE {}

\* New, and what an application without a MetadataURL sets itself.
Init ==
    /\ metadataURL \in BOOLEAN
    /\ published = 1
    /\ roots = IF metadataURL THEN <<{}>> ELSE <<Signing(1)>>
    /\ issuer \in IF metadataURL THEN {None} ELSE {None, Metadata[1].issuer}
    /\ endpoint \in IF metadataURL THEN {None} ELSE {None, 1}
    /\ ready = FALSE
    /\ writer = None /\ broken = FALSE
    /\ pc = [c \in Calls |-> "idle"]
    /\ ret = [c \in Calls |-> "done"]
    /\ force = [c \in Calls |-> FALSE]
    /\ token = [c \in Parsers |-> None]
    /\ doc = [c \in Calls |-> None]
    /\ todo = [c \in Calls |-> <<>>]
    /\ store = [c \in Parsers |-> 0]
    /\ retried = [c \in Parsers |-> FALSE]
    /\ result = [c \in Calls |-> "none"]
    /\ quiet = [c \in Parsers |-> "quiet"]

At(c, l) == pc[c] = l
Goto(c, l) == pc' = [pc EXCEPT ![c] = l]
Return(c, r) == Goto(c, "done") /\ result' = [result EXCEPT ![c] = r]

\* A write of c races with the parsers but itself.
Disturb(c) ==
    quiet' = [d \in Parsers |-> IF d # c /\ quiet[d] = "quiet" THEN "raced" ELSE quiet[d]]
-----------------------------------------------------------------------------
(* check, in metadata.go                                                   *)

\* The first look at ready, inside RLock.
Peek(c) ==
    /\ At(c, "check") /\ writer = None
    /\ Goto(c, IF ready /\ ~force[c] THEN ret[c] ELSE "lock")
    /\ UNCHANGED <<metadataURL, published, fields, writer, broken, ret, force, parse, doc,
                   todo, result, quiet>>

Lock(c) ==
    /\ At(c, "lock") /\ writer = None
    /\ writer' = c
    /\ Goto(c, IF metadataURL THEN "fetch" ELSE "fixed")
    /\ UNCHANGED <<metadataURL, published, fields, broken, ret, force, parse, doc, todo,
                   result, quiet>>

\* No MetadataURL: the endpoint the application set is all there is.
Fixed(c) ==
    /\ At(c, "fixed")
    /\ writer' = None
    /\ IF endpoint = None
       THEN Return(c, "error") /\ UNCHANGED ready
       ELSE Goto(c, ret[c]) /\ ready' = TRUE /\ UNCHANGED result
    /\ UNCHANGED <<metadataURL, published, roots, issuer, endpoint, broken, ret, force, parse,
                   doc, todo, quiet>>

\* client.Get and Unmarshal.
Fetch(c) ==
    /\ At(c, "fetch")
    /\ Goto(c, "clear")
    /\ doc' = [doc EXCEPT ![c] = published]
    /\ UNCHANGED <<metadataURL, published, fields, writer, broken, ret, force, parse, todo,
                   result, quiet>>

\* An error of check: Parse reports the signature it could not verify.
Fails(c) ==
    /\ writer' = None
    /\ Return(c, IF c \in Parsers THEN "signature" ELSE "error")
    /\ quiet' = [d \in Parsers |-> "failed"]

\* A mutated check that keeps the lock when it cannot get the metadata.
FetchFailsLocked(c) ==
    /\ At(c, "fetch")
    /\ Return(c, "error")
    /\ UNCHANGED <<metadataURL, published, fields, writer, broken, ret, force, parse, doc,
                   todo, quiet>>

FetchFails(c) ==
    /\ At(c, "fetch")
    /\ Fails(c)
    /\ UNCHANGED <<metadataURL, published, fields, broken, ret, force, parse, doc, todo>>

\* A mutated check that keeps the certificates it had.
ClearNot(c) ==
    /\ At(c, "clear")
    /\ Goto(c, "issuer")
    /\ roots' = Append(roots, Last(roots))
    /\ Disturb(c)
    /\ UNCHANGED <<metadataURL, published, issuer, endpoint, ready, writer, broken, ret, force,
                   parse, doc, todo, result>>

\* ClearCertificateStore: a new store without certificates.
Clear(c) ==
    /\ At(c, "clear")
    /\ Goto(c, "issuer")
    /\ roots' = Append(roots, {})
    /\ Disturb(c)
    /\ UNCHANGED <<metadataURL, published, issuer, endpoint, ready, writer, broken, ret, force,
                   parse, doc, todo, result>>

\* A mutated check that does not take the issuer from the metadata.
SetIssuerNot(c) ==
    LET m == Metadata[doc[c]]
    IN  /\ At(c, "issuer")
        /\ Goto(c, IF m.role THEN "add" ELSE "ready")
        /\ todo' = [todo EXCEPT ![c] = IF m.role THEN m.certs ELSE <<>>]
        /\ Disturb(c)
        /\ UNCHANGED <<metadataURL, published, fields, writer, broken, ret, force, parse, doc,
                       result>>

\* Issuer; then the RoleDescriptor of a security token service, if there is one.
SetIssuer(c) ==
    LET m == Metadata[doc[c]]
    IN  /\ At(c, "issuer")
        /\ issuer' = m.issuer
        /\ Goto(c, IF m.role THEN "add" ELSE "ready")
        /\ todo' = [todo EXCEPT ![c] = IF m.role THEN m.certs ELSE <<>>]
        /\ Disturb(c)
        /\ UNCHANGED <<metadataURL, published, roots, endpoint, ready, writer, broken, ret,
                       force, parse, doc, result>>

AddTrustedSigningCertificate(c) ==
    /\ At(c, "add") /\ todo[c] # <<>>
    /\ roots' = [roots EXCEPT ![Store] = @ \cup {Head(todo[c])}]
    /\ todo' = [todo EXCEPT ![c] = Tail(@)]
    /\ Disturb(c)
    /\ UNCHANGED <<metadataURL, published, issuer, endpoint, ready, writer, broken, pc, ret,
                   force, parse, doc, result>>

\* A certificate, or after them the address, is malformed.
AddFails(c) ==
    /\ At(c, "add")
    /\ Fails(c)
    /\ broken' = TRUE
    /\ doc' = [doc EXCEPT ![c] = None]
    /\ todo' = [todo EXCEPT ![c] = <<>>]
    /\ UNCHANGED <<metadataURL, published, fields, ret, force, parse>>

SetEndpoint(c) ==
    /\ At(c, "add") /\ todo[c] = <<>>
    /\ Goto(c, "ready")
    /\ endpoint' = doc[c]
    /\ Disturb(c)
    /\ UNCHANGED <<metadataURL, published, roots, issuer, ready, writer, broken, ret, force,
                   parse, doc, todo, result>>

\* ready, and the deferred Unlock.
SetReady(c) ==
    /\ At(c, "ready")
    /\ ready' = TRUE
    /\ writer' = None
    /\ broken' = FALSE
    /\ Goto(c, ret[c])
    /\ doc' = [doc EXCEPT ![c] = None]
    /\ UNCHANGED <<metadataURL, published, roots, issuer, endpoint, ret, force, parse, todo,
                   result, quiet>>

Check(c) ==
    \/ Peek(c) \/ Lock(c) \/ Fixed(c) \/ Fetch(c) \/ FetchFails(c) \/ Clear(c) \/ SetIssuer(c)
    \/ AddTrustedSigningCertificate(c) \/ AddFails(c) \/ SetEndpoint(c) \/ SetReady(c)

\* check(f), which returns to l.
CallCheck(c, f, l) ==
    /\ Goto(c, "check")
    /\ force' = [force EXCEPT ![c] = f]
    /\ ret' = [ret EXCEPT ![c] = l]
-----------------------------------------------------------------------------
(* RefreshMetadata, SigninURL, SignoutURL, Ready                           *)

RefreshMetadata(c) ==
    /\ At(c, "idle")
    /\ IF metadataURL THEN CallCheck(c, TRUE, "done")
       ELSE Goto(c, "done") /\ UNCHANGED <<force, ret>>
    /\ UNCHANGED <<metadataURL, published, fields, writer, broken, parse, doc, todo, result,
                   quiet>>

Ask(c) ==
    /\ At(c, "idle")
    /\ \E l \in {"url", "readiness"} : CallCheck(c, FALSE, l)
    /\ UNCHANGED <<metadataURL, published, fields, writer, broken, parse, doc, todo, result,
                   quiet>>

\* A URL made from *IDPEndpoint, which may be nil, and, to sign in, a nonce.
URL(c) ==
    /\ At(c, "url")
    /\ \E r \in {"url", "error"} : Return(c, IF endpoint = None THEN "panic" ELSE r)
    /\ UNCHANGED <<metadataURL, published, fields, writer, broken, ret, force, parse, doc,
                   todo, quiet>>

Ready(c) ==
    /\ At(c, "readiness") /\ writer = None
    /\ Return(c, IF ready THEN "ready" ELSE "notready")
    /\ UNCHANGED <<metadataURL, published, fields, writer, broken, ret, force, parse, doc,
                   todo, quiet>>
-----------------------------------------------------------------------------
(* ReadResponse and Parse                                                  *)

\* The form's wa and nonce come first: a sign-out or an error ends the call.
ReadResponse(c) ==
    /\ At(c, "idle")
    /\ \/ Goto(c, "decode") /\ \E t \in Tokens : token' = [token EXCEPT ![c] = t]
          /\ UNCHANGED result
       \/ (\E r \in {"signout", "nonce", "error"} : Return(c, r)) /\ UNCHANGED token
    /\ quiet' = [quiet EXCEPT ![c] = IF writer = None THEN "quiet" ELSE "raced"]
    /\ UNCHANGED <<metadataURL, published, fields, writer, broken, ret, force, store, retried,
                   doc, todo>>

\* decodeResponse: the XML, then the context with the store of the moment.
Decode(c) ==
    /\ At(c, "decode")
    /\ IF token[c].malformed = "early" THEN Return(c, "malformed")
       ELSE Goto(c, "validate") /\ UNCHANGED result
    /\ store' = [store EXCEPT ![c] = IF token[c].malformed = "early" THEN 0 ELSE Store]
    /\ UNCHANGED <<metadataURL, published, fields, writer, broken, ret, force, token, retried,
                   doc, todo, quiet>>

Trusted(c) == token[c].cert \in roots[store[c]]

\* The claims are read from what the signature covers.
Validated(c) ==
    /\ At(c, "validate") /\ Trusted(c)
    /\ IF token[c].malformed = "late" THEN Return(c, "malformed")
       ELSE Goto(c, "claims") /\ UNCHANGED result
    /\ store' = [store EXCEPT ![c] = 0]
    /\ UNCHANGED <<metadataURL, published, fields, writer, broken, ret, force, token, retried,
                   doc, todo, quiet>>

\* A mutated Parse that gives up at the first failure.
RefreshAndRetryNot(c) ==
    /\ At(c, "validate") /\ ~Trusted(c) /\ token[c].cert # None
    /\ metadataURL /\ ~retried[c]
    /\ Return(c, "signature")
    /\ store' = [store EXCEPT ![c] = 0]
    /\ UNCHANGED <<metadataURL, published, fields, writer, broken, ret, force, token, retried,
                   doc, todo, quiet>>

\* A certificate the store does not have: refresh once, and decode again.
RefreshAndRetry(c) ==
    /\ At(c, "validate") /\ ~Trusted(c) /\ token[c].cert # None
    /\ metadataURL /\ ~retried[c]
    /\ CallCheck(c, TRUE, "decode")
    /\ retried' = [retried EXCEPT ![c] = TRUE]
    /\ store' = [store EXCEPT ![c] = 0]
    /\ UNCHANGED <<metadataURL, published, fields, writer, broken, token, doc, todo, result,
                   quiet>>

\* No signature at all, or still none that is trusted.
Refuse(c) ==
    /\ At(c, "validate") /\ ~Trusted(c)
    /\ token[c].cert # None => ~metadataURL \/ retried[c]
    /\ Return(c, IF token[c].cert = None THEN "unverifiable" ELSE "signature")
    /\ store' = [store EXCEPT ![c] = 0]
    /\ UNCHANGED <<metadataURL, published, fields, writer, broken, ret, force, token, retried,
                   doc, todo, quiet>>

\* claims.go, with required = true: a missing claim does not verify.
verifyExp(exp) == exp # None /\ Now < exp + ClockSkew
verifyIat(iat) == iat # None /\ Now + ClockSkew >= iat
verifyNbf(nbf) == nbf # None /\ Now + ClockSkew >= nbf
verifyAud(aud) == Audience \in aud
verifyIss(iss) == issuer # None => issuer = iss

Verify(t, check) ==
    CASE check = "iss" -> verifyIss(t.issuer)
      [] check = "aud" -> verifyAud(t.aud)
      [] check = "iat" -> verifyIat(t.iat)
      [] check = "exp" -> verifyExp(t.exp)
      [] check = "nbf" -> verifyNbf(t.nbf)

\* Every check is made; the last one that fails is the error.
Claims(c) ==
    LET failed == {i \in DOMAIN CheckOrder :
                      CheckOrder[i] \in Checks /\ ~Verify(token[c], CheckOrder[i])}
    IN  /\ At(c, "claims")
        /\ Return(c, IF failed = {} THEN "accepted" ELSE CheckOrder[Max(failed)])
        /\ UNCHANGED <<metadataURL, published, fields, writer, broken, ret, force, parse, doc,
                       todo, quiet>>

Parse(c) ==
    Decode(c) \/ Validated(c) \/ RefreshAndRetry(c) \/ Refuse(c) \/ Claims(c)
-----------------------------------------------------------------------------
\* The provider publishes the next version.
Rotate ==
    /\ published < Len(Metadata)
    /\ published' = published + 1
    /\ Disturb(None)
    /\ UNCHANGED <<metadataURL, fields, writer, broken, pc, ret, force, parse, doc, todo,
                   result>>

Step(c) ==
    \/ Check(c)
    \/ c \in Askers /\ (URL(c) \/ Ready(c))
    \/ c \in Parsers /\ Parse(c)

Begin(c) ==
    \/ c \in Parsers /\ ReadResponse(c)
    \/ c \in Askers /\ Ask(c)
    \/ c \in Refreshers /\ RefreshMetadata(c)

Finished == (\A c \in Calls : At(c, "done")) /\ UNCHANGED vars

Next == (\E c \in Calls : Begin(c) \/ Step(c)) \/ Rotate \/ Finished

Spec == Init /\ [][Next]_vars

\* The goroutine of a call runs, and the provider's answer comes or fails.
FairSpec == Spec /\ \A c \in Calls : WF_vars(Step(c))
-----------------------------------------------------------------------------
(* Properties.                                                             *)

\* Every variable has its type; whoever writes the fields holds the lock.
TypeOK ==
    /\ metadataURL \in BOOLEAN /\ ready \in BOOLEAN /\ broken \in BOOLEAN
    /\ published \in DOMAIN Metadata
    /\ roots # <<>>
    /\ endpoint \in {None} \cup 1..published
    /\ token \in [Parsers -> Tokens \cup {None}]
    /\ \A c \in Parsers : store[c] \in 0..Store
    /\ \A c \in Calls :
        pc[c] \in {"fixed", "fetch", "clear", "issuer", "add", "ready"} <=> writer = c

\* An accepted token is signed with a certificate, and names an issuer, that
\* the provider has published, and is in time, as far as the options of Parse
\* ask for it: in every interleaving of Parse, which reads without the lock,
\* with check.  The issuer is there before the first certificate is.
AcceptedFromProvider ==
    \A c \in Parsers : result[c] = "accepted" =>
        LET t == token[c] IN
        /\ \E v \in 1..published : t.cert \in Signing(v)
        /\ (metadataURL /\ "iss" \in Checks) =>
            \E v \in 1..published : t.issuer = Metadata[v].issuer
        /\ "nbf" \in Checks => t.nbf <= Now + ClockSkew
        /\ "exp" \in Checks => Now < t.exp + ClockSkew

\* When no check runs and the last one did not fail halfway, the certificates
\* and the issuer are those of one version: a certificate that the provider
\* withdrew is gone after a refresh, however many checks raced.
OneVersion ==
    (metadataURL /\ ready /\ writer = None /\ ~broken) =>
        \E v \in 1..published :
            roots[Store] = Signing(v) /\ issuer = Metadata[v].issuer

\* A token signed with a certificate that is published is never refused for
\* its signature, however old the store is, unless the call raced with
\* another one's check or with a rotation, or a check failed.
RefusedForCause ==
    \A c \in Parsers : (result[c] = "signature" /\ quiet[c] = "quiet") =>
        token[c].cert \notin Signing(IF metadataURL THEN published ELSE 1)

\* Every call returns: the lock is given back on every path through check.
CallsReturn == \A c \in Calls : At(c, "check") ~> At(c, "done")

-----------------------------------------------------------------------------
(* What the comments of the code say and the code does not do (README).    *)

\* "Parse parses and validates a WS-Federation token": one whose certificate
\* every version publishes is not refused for its signature when no check
\* failed.
GoodTokenAccepted ==
    \A c \in Parsers : (result[c] = "signature" /\ quiet[c] # "failed") =>
        \E v \in DOMAIN Metadata : token[c].cert \notin Signing(v)

\* "SigninURL returns the signin URL": or an error, but does not panic.
SigninNeverPanics == \A c \in Askers : result[c] # "panic"
=============================================================================
