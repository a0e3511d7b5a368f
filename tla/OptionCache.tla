---------------------------- MODULE OptionCache -----------------------------
(***************************************************************************)
(* What a cache of a value built from options promises, without locks or a *)
(* cache: a call returns a value that was current at some moment between   *)
(* its beginning and its end, and a call that began returns, unless the    *)
(* component halts.  Versions only grow, so the versions that were current *)
(* during a call are those between the one at its beginning and the one of *)
(* now.                                                                    *)
(***************************************************************************)
EXTENDS Naturals

CONSTANTS
    Callers,        \* calls that ask for the value
    None            \* a call that has not begun, or not returned

VARIABLES
    version,    \* how often an option was added
    began,      \* of every call: the version when it began
    reply,      \* of every call: the version of the value it returned
    halted      \* the component does not answer any more

vars == <<version, began, reply, halted>>

Init ==
    /\ version = 0
    /\ began = [p \in Callers |-> None]
    /\ reply = [p \in Callers |-> None]
    /\ halted = FALSE

AddOption ==
    /\ ~halted
    /\ version' = version + 1
    /\ UNCHANGED <<began, reply, halted>>

Begin(p) ==
    /\ ~halted
    /\ began[p] = None
    /\ began' = [began EXCEPT ![p] = version]
    /\ UNCHANGED <<version, reply, halted>>

Reply(p) ==
    /\ ~halted
    /\ began[p] # None /\ reply[p] = None
    /\ \E v \in began[p]..version : reply' = [reply EXCEPT ![p] = v]
    /\ UNCHANGED <<version, began, halted>>

Halt ==
    /\ ~halted
    /\ halted' = TRUE
    /\ UNCHANGED <<version, began, reply>>

Next == AddOption \/ Halt \/ \E p \in Callers : Begin(p) \/ Reply(p)

Safety == Init /\ [][Next]_vars

Spec == Safety /\ \A p \in Callers : WF_vars(Reply(p))
=============================================================================
