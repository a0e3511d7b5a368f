------------------------------ MODULE BasePath ------------------------------
(***************************************************************************)
(* mux.BasePath: the normalized base path, cached on first use under an    *)
(* RWMutex that is upgraded by releasing it.  Every request calls it.      *)
(*                                                                         *)
(* originalBasePath points into RouterOptions, so once it is set the       *)
(* comparison of its target with RouterOptions.BasePath compares the       *)
(* option with itself.                                                     *)
(***************************************************************************)
EXTENDS Naturals, Sequences, SequencesExt, RWMutex

CONSTANTS
    Callers,        \* goroutines that call BasePath once
    Raws,           \* values of RouterOptions.BasePath
    MaxChanges      \* bound: changes of the option

ASSUME BasePathAssumption ==
    /\ None \notin Callers \cup Raws
    /\ MaxChanges \in Nat

VARIABLES
    option,     \* RouterOptions.BasePath
    original,   \* originalBasePath is set
    fixed,      \* fixedBasePath
    pc, ret,    \* of every caller: where it is; what it returned
    began,      \* history: the option when the call began
    changes     \* history: changes of the option so far

vars == <<readers, writer, option, original, fixed, pc, ret, began, changes>>

Slash == "/"
AddLeading(s)    == IF s # <<>> /\ s[1] # Slash THEN <<Slash>> \o s ELSE s
StripTrailing(s) == IF s # <<>> /\ Last(s) = Slash THEN Front(s) ELSE s
Normalized(s)    == StripTrailing(AddLeading(s))

Init ==
    /\ readers = {} /\ writer = None
    /\ option \in Raws
    /\ original = FALSE
    /\ fixed = <<>>
    /\ pc = [p \in Callers |-> "idle"]
    /\ ret = [p \in Callers |-> None]
    /\ began = [p \in Callers |-> None]
    /\ changes = 0

Goto(p, from, to) == pc[p] = from /\ pc' = [pc EXCEPT ![p] = to]

\* RouterOptions().BasePath = s, or ApplyConfig.
SetOption(s) ==
    /\ changes < MaxChanges
    /\ s # option
    /\ option' = s
    /\ changes' = changes + 1
    /\ UNCHANGED <<readers, writer, original, fixed, pc, ret, began>>

Begin(p) ==
    /\ Goto(p, "idle", "check")
    /\ RLock(p)
    /\ began' = [began EXCEPT ![p] = option]
    /\ UNCHANGED <<option, original, fixed, ret, changes>>
Cached(p) ==
    /\ original
    /\ Goto(p, "check", "ret")
    /\ UNCHANGED <<readers, writer, option, original, fixed, ret, began, changes>>
Uncached(p) ==
    /\ ~original
    /\ Goto(p, "check", "lock")
    /\ RUnlock(p)
    /\ UNCHANGED <<option, original, fixed, ret, began, changes>>
Lock(p) ==
    /\ Goto(p, "lock", "pending")
    /\ Announce(p)
    /\ UNCHANGED <<option, original, fixed, ret, began, changes>>

\* A mutated upgrade that writes without waiting for the readers.
LockedAtOnce(p) ==
    /\ Goto(p, "pending", "assign")
    /\ UNCHANGED <<readers, writer, option, original, fixed, ret, began, changes>>
Locked(p) ==
    /\ Goto(p, "pending", "assign")
    /\ ReadersGone
    /\ UNCHANGED <<option, original, fixed, ret, began, changes>>

Assign(p) ==
    /\ Goto(p, "assign", "leading")
    /\ original' = TRUE
    /\ fixed' = option
    /\ UNCHANGED <<readers, writer, option, ret, began, changes>>
Leading(p) ==
    /\ Goto(p, "leading", "trailing")
    /\ fixed' = AddLeading(fixed)
    /\ UNCHANGED <<readers, writer, option, original, ret, began, changes>>
Trailing(p) ==
    /\ Goto(p, "trailing", "unlock")
    /\ fixed' = StripTrailing(fixed)
    /\ UNCHANGED <<readers, writer, option, original, ret, began, changes>>
Unlock(p) ==
    /\ Goto(p, "unlock", "rlock")
    /\ Release
    /\ UNCHANGED <<option, original, fixed, ret, began, changes>>
RLockAgain(p) ==
    /\ Goto(p, "rlock", "ret")
    /\ RLock(p)
    /\ UNCHANGED <<option, original, fixed, ret, began, changes>>
Return(p) ==
    /\ Goto(p, "ret", "done")
    /\ ret' = [ret EXCEPT ![p] = fixed]
    /\ RUnlock(p)
    /\ UNCHANGED <<option, original, fixed, began, changes>>

Call(p) ==
    \/ Begin(p) \/ Cached(p) \/ Uncached(p) \/ Lock(p) \/ Locked(p) \/ Assign(p)
    \/ Leading(p) \/ Trailing(p) \/ Unlock(p) \/ RLockAgain(p) \/ Return(p)

Finished == (\A p \in Callers : pc[p] = "done") /\ UNCHANGED vars

Next ==
    \/ \E p \in Callers : Call(p)
    \/ \E s \in Raws : SetOption(s)
    \/ Finished

Spec == Init /\ [][Next]_vars
-----------------------------------------------------------------------------
(* Properties.                                                             *)

\* What a call returns is the normalized form of a value the option has, and
\* of the option itself as long as it has not changed: never the value with
\* its slashes still to be fixed, which another call holds under the lock,
\* however the first calls race to fill the cache.
ReturnsOption ==
    \A p \in Callers : pc[p] = "done" =>
        /\ ret[p] \in {Normalized(s) : s \in Raws}
        /\ changes = 0 => ret[p] = Normalized(option)

-----------------------------------------------------------------------------
(* What the comments of the code say and the code does not do (README).    *)

\* The comparison with the original value notices a change of the option: a
\* call during which it did not change returns its normalized value.
FollowsOption ==
    [][\A p \in Callers :
        (Return(p) /\ began[p] = option) => ret'[p] = Normalized(option)]_vars
=============================================================================
