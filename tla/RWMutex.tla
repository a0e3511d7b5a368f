------------------------------ MODULE RWMutex -------------------------------
(***************************************************************************)
(* Go's sync.RWMutex, as http_client.go and mux.go use it: Lock announces  *)
(* itself, which keeps new readers out, and then waits for the readers     *)
(* inside to leave.                                                        *)
(***************************************************************************)
CONSTANT None       \* nil

VARIABLES
    readers,    \* goroutines inside RLock
    writer      \* the goroutine that announced Lock, or holds it

RLock(p)    == writer = None /\ readers' = readers \cup {p} /\ UNCHANGED writer
RUnlock(p)  == readers' = readers \ {p} /\ UNCHANGED writer
Announce(p) == writer = None /\ writer' = p /\ UNCHANGED readers
ReadersGone == readers = {} /\ UNCHANGED <<readers, writer>>
Release     == writer' = None /\ UNCHANGED readers
=============================================================================
