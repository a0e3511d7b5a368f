----------------------------- MODULE NonceStore -----------------------------
(***************************************************************************)
(* CacheNonceStore (token/nonce/memory.go): Create draws a ULID from a     *)
(* shared monotonic entropy source and stores it, Verify looks the nonce   *)
(* up and deletes it, in two calls of the cache.                           *)
(*                                                                         *)
(* The entropy source has no lock: a draw advances its state and then      *)
(* copies it, and two concurrent draws may both copy after both advanced.  *)
(* A nonce is the number drawn.                                            *)
(***************************************************************************)
EXTENDS Naturals, FiniteSets

CONSTANTS
    Creators,       \* calls of Create
    Verifiers       \* calls of Verify, other than those of Create

VARIABLES
    entropy,    \* state of ulid.MonotonicEntropy
    cache,      \* nonces in the cache
    pc,         \* of every call: where it is
    nonce,      \* of every call: the nonce it creates, or verifies
    result,     \* what a call of Verify returned
    undeleted   \* history: calls whose Delete failed

vars == <<entropy, cache, pc, nonce, result, undeleted>>

Calls == Creators \cup Verifiers

Init ==
    /\ entropy = 0
    /\ cache = {}
    /\ pc = [p \in Calls |-> "idle"]
    /\ nonce = [p \in Calls |-> 0]
    /\ result = [p \in Verifiers |-> FALSE]
    /\ undeleted = {}

Goto(p, from, to) == pc[p] = from /\ pc' = [pc EXCEPT ![p] = to]
-----------------------------------------------------------------------------
(* Create                                                                  *)

DrawAdvance(p) ==
    /\ Goto(p, "idle", "draw")
    /\ entropy' = entropy + 1
    /\ UNCHANGED <<cache, nonce, result, undeleted>>
DrawCopy(p) ==
    /\ Goto(p, "draw", "set")
    /\ nonce' = [nonce EXCEPT ![p] = entropy]
    /\ UNCHANGED <<entropy, cache, result, undeleted>>
Set(p) ==
    /\ Goto(p, "set", "done")
    /\ cache' = cache \cup {nonce[p]}
    /\ UNCHANGED <<entropy, nonce, result, undeleted>>

\* cache.Set fails: Create returns the error, the nonce is not stored.
SetFails(p) ==
    /\ Goto(p, "set", "failed")
    /\ UNCHANGED <<entropy, cache, nonce, result, undeleted>>
-----------------------------------------------------------------------------
(* Verify                                                                  *)

\* A request presents the nonce n.
Begin(p, n) ==
    /\ Goto(p, "idle", "get")
    /\ nonce' = [nonce EXCEPT ![p] = n]
    /\ UNCHANGED <<entropy, cache, result, undeleted>>

\* cache.Get; a nonce that is not there is false and is not deleted.
Get(p) ==
    /\ Goto(p, "get", IF nonce[p] \in cache THEN "delete" ELSE "done")
    /\ result' = [result EXCEPT ![p] = nonce[p] \in cache]
    /\ UNCHANGED <<entropy, cache, nonce, undeleted>>

Delete(p) ==
    /\ Goto(p, "delete", "done")
    /\ cache' = cache \ {nonce[p]}
    /\ UNCHANGED <<entropy, nonce, result, undeleted>>

\* cache.Delete fails, which Verify ignores.
DeleteFails(p) ==
    /\ Goto(p, "delete", "done")
    /\ undeleted' = undeleted \cup {p}
    /\ UNCHANGED <<entropy, cache, nonce, result>>

\* cache.Get fails: Verify returns the error.
GetFails(p) ==
    /\ Goto(p, "get", "failed")
    /\ UNCHANGED <<entropy, cache, nonce, result, undeleted>>

\* The cache drops an entry after its time to live.
Expire(n) ==
    /\ n \in cache
    /\ cache' = cache \ {n}
    /\ UNCHANGED <<entropy, pc, nonce, result, undeleted>>

Finished == (\A p \in Calls : pc[p] \in {"done", "failed"}) /\ UNCHANGED vars

Next ==
    \/ \E p \in Creators : DrawAdvance(p) \/ DrawCopy(p) \/ Set(p) \/ SetFails(p)
    \/ \E p \in Verifiers :
        \/ \E n \in 1..Cardinality(Creators) : Begin(p, n)
        \/ Get(p) \/ GetFails(p) \/ Delete(p) \/ DeleteFails(p)
    \/ \E n \in cache : Expire(n)
    \/ Finished

Spec == Init /\ [][Next]_vars
-----------------------------------------------------------------------------
(* Properties.                                                             *)

Accepted(p) == pc[p] = "done" /\ result[p]

-----------------------------------------------------------------------------
(* What the comments of the code say and the code does not do (README).    *)

\* Verify "checks and consumes a nonce": as long as every Delete succeeds it
\* accepts a nonce once.
ConsumesNonce ==
    \A p, q \in Verifiers :
        (p # q /\ Accepted(p) /\ Accepted(q) /\ undeleted = {}) => nonce[p] # nonce[q]

\* Create makes "a new nonce": two calls never return the same one.
CreatesNewNonce ==
    \A a, b \in Creators :
        (a # b /\ pc[a] = "done" /\ pc[b] = "done") => nonce[a] # nonce[b]
=============================================================================
