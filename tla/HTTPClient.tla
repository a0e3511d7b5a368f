----------------------------- MODULE HTTPClient -----------------------------
(***************************************************************************)
(* The shared HTTP client (http_client.go): built on first use under an    *)
(* RWMutex that is upgraded by releasing it, dropped when an option is     *)
(* added.  A client is represented by the number of options it was built   *)
(* with.                                                                   *)
(***************************************************************************)
EXTENDS Naturals, RWMutex

CONSTANTS
    Callers,        \* goroutines that call HTTPClient once
    Adders          \* goroutines that call AddHTTPClientOption once

Procs == Callers \cup Adders

ASSUME ProcsAssumption ==
    /\ Callers \cap Adders = {}
    /\ None \notin Procs \cup Nat

VARIABLES
    http,       \* App.http
    httpOpts,   \* len(App.httpOpts)
    ready,      \* Config().Ready()
    pc, c,      \* of every goroutine: where it is; its local c
    seen,       \* history: options that were there when the call began
    fatal       \* the runtime stopped the process

vars == <<readers, writer, http, httpOpts, ready, pc, c, seen, fatal>>

CallerPC == {"idle", "check", "lock", "pending", "build", "unlock", "rlock", "ret", "done",
             "stuck"}
AdderPC  == {"idle", "pending", "append", "clear", "unlock", "done"}

Init ==
    /\ readers = {} /\ writer = None
    /\ http = None /\ httpOpts = 0
    /\ ready \in BOOLEAN
    /\ pc = [p \in Procs |-> "idle"]
    /\ c = [p \in Callers |-> None]
    /\ seen = [p \in Callers |-> 0]
    /\ fatal = FALSE

Goto(p, from, to) == pc[p] = from /\ pc' = [pc EXCEPT ![p] = to]

LoadConfig ==
    /\ ~ready /\ ready' = TRUE
    /\ UNCHANGED <<readers, writer, http, httpOpts, pc, c, seen, fatal>>
-----------------------------------------------------------------------------
(* HTTPClient                                                              *)

Begin(p) ==
    /\ Goto(p, "idle", "check")
    /\ RLock(p)
    /\ seen' = [seen EXCEPT ![p] = httpOpts]
    /\ UNCHANGED <<http, httpOpts, ready, c, fatal>>

\* The client is there.
Hit(p) ==
    /\ http # None
    /\ Goto(p, "check", "ret")
    /\ c' = [c EXCEPT ![p] = http]
    /\ UNCHANGED <<readers, writer, http, httpOpts, ready, seen, fatal>>

\* A mutated lookup that waits for another caller to build the client.
MissSpin(p) ==
    /\ http = None
    /\ Goto(p, "check", "check")
    /\ UNCHANGED <<readers, writer, http, httpOpts, ready, c, seen, fatal>>

\* It is not: give the read lock up.
Miss(p) ==
    /\ http = None
    /\ Goto(p, "check", "lock")
    /\ RUnlock(p)
    /\ UNCHANGED <<http, httpOpts, ready, c, seen, fatal>>

Lock(p) ==
    /\ Goto(p, "lock", "pending")
    /\ Announce(p)
    /\ UNCHANGED <<http, httpOpts, ready, c, seen, fatal>>

\* A mutated upgrade that does not wait for the readers inside.
LockedAtOnce(p) ==
    /\ Goto(p, "pending", "build")
    /\ UNCHANGED <<readers, writer, http, httpOpts, ready, c, seen, fatal>>
Locked(p) ==
    /\ ReadersGone
    /\ Goto(p, "pending", "build")
    /\ UNCHANGED <<http, httpOpts, ready, c, seen, fatal>>

\* A mutated build that uses the options the call began with.
BuildOld(p) ==
    /\ ready
    /\ Goto(p, "build", "unlock")
    /\ c' = [c EXCEPT ![p] = seen[p]]
    /\ http' = seen[p]
    /\ UNCHANGED <<readers, writer, httpOpts, ready, seen, fatal>>

\* NewClient with the options of now; another caller may have built one in
\* the meantime, which this one replaces.
Build(p) ==
    /\ ready
    /\ Goto(p, "build", "unlock")
    /\ c' = [c EXCEPT ![p] = httpOpts]
    /\ http' = httpOpts
    /\ UNCHANGED <<readers, writer, httpOpts, ready, seen, fatal>>

\* Config panics: the deferred RUnlock meets a mutex that is locked for
\* writing, which the runtime answers with a fatal error.
BuildPanics(p) ==
    /\ ~ready
    /\ pc[p] = "build"
    /\ fatal' = TRUE
    /\ UNCHANGED <<readers, writer, http, httpOpts, ready, pc, c, seen>>

\* Config panics while another goroutine waits in RLock: RUnlock takes that
\* one for its own, and the panic leaves the write lock locked for good.
BuildPanicsUnnoticed(p) ==
    /\ ~ready
    /\ \E q \in Callers \ {p} : pc[q] \in {"idle", "rlock"}
    /\ Goto(p, "build", "stuck")
    /\ UNCHANGED <<readers, writer, http, httpOpts, ready, c, seen, fatal>>

Unlock(p) ==
    /\ Goto(p, "unlock", "rlock")
    /\ Release
    /\ UNCHANGED <<http, httpOpts, ready, c, seen, fatal>>
RLockAgain(p) ==
    /\ Goto(p, "rlock", "ret")
    /\ RLock(p)
    /\ UNCHANGED <<http, httpOpts, ready, c, seen, fatal>>
Return(p) ==
    /\ Goto(p, "ret", "done")
    /\ RUnlock(p)
    /\ UNCHANGED <<http, httpOpts, ready, c, seen, fatal>>

HTTPClientStep(p) ==
    \/ Begin(p) \/ Hit(p) \/ Miss(p) \/ Lock(p) \/ Locked(p) \/ Build(p)
    \/ BuildPanics(p) \/ BuildPanicsUnnoticed(p) \/ Unlock(p) \/ RLockAgain(p) \/ Return(p)
-----------------------------------------------------------------------------
(* AddHTTPClientOption                                                     *)

AddLock(p) ==
    /\ Goto(p, "idle", "pending")
    /\ Announce(p)
    /\ UNCHANGED <<http, httpOpts, ready, c, seen, fatal>>
AddLocked(p) ==
    /\ ReadersGone
    /\ Goto(p, "pending", "append")
    /\ UNCHANGED <<http, httpOpts, ready, c, seen, fatal>>
AppendOption(p) ==
    /\ Goto(p, "append", "clear")
    /\ httpOpts' = httpOpts + 1
    /\ UNCHANGED <<readers, writer, http, ready, c, seen, fatal>>

DropClient(p) ==
    /\ Goto(p, "clear", "unlock")
    /\ http' = None
    /\ UNCHANGED <<readers, writer, httpOpts, ready, c, seen, fatal>>
AddUnlock(p) ==
    /\ Goto(p, "unlock", "done")
    /\ Release
    /\ UNCHANGED <<http, httpOpts, ready, c, seen, fatal>>

AddStep(p) ==
    AddLock(p) \/ AddLocked(p) \/ AppendOption(p) \/ DropClient(p) \/ AddUnlock(p)
-----------------------------------------------------------------------------
LockLost == \E p \in Callers : pc[p] = "stuck"

\* Every call has returned, the process is gone, or the lock is lost.
Finished ==
    /\ fatal \/ LockLost \/ \A p \in Procs : pc[p] = "done"
    /\ UNCHANGED vars

Next ==
    \/ /\ ~fatal
       /\ \/ \E p \in Callers : HTTPClientStep(p)
          \/ \E p \in Adders : AddStep(p)
          \/ LoadConfig
    \/ Finished

Spec == Init /\ [][Next]_vars

\* A goroutine that can run runs; a call, once made, is a goroutine.
Fairness ==
    /\ \A p \in Callers : WF_vars(~fatal /\ pc[p] # "idle" /\ HTTPClientStep(p))
    /\ \A p \in Adders : WF_vars(~fatal /\ pc[p] # "idle" /\ AddStep(p))
FairSpec == Spec /\ Fairness
-----------------------------------------------------------------------------
(* Properties.                                                             *)

\* Every variable has its type.
TypeOK ==
    /\ readers \subseteq Callers
    /\ writer \in Procs \cup {None}
    /\ http \in Nat \cup {None}
    /\ httpOpts \in Nat
    /\ ready \in BOOLEAN /\ fatal \in BOOLEAN
    /\ pc \in [Procs -> CallerPC \cup AdderPC]
    /\ \A p \in Callers : pc[p] \in CallerPC
    /\ \A p \in Adders : pc[p] \in AdderPC
    /\ c \in [Callers -> Nat \cup {None}]
    /\ seen \in [Callers -> Nat]

\* The cached client has every option, except while one is being added.
CachedClientCurrent ==
    (http # None /\ \A p \in Adders : pc[p] # "clear") => http = httpOpts

\* A call returns a client that has every option added before the call began,
\* although the lock is released between the look at App.http and the build.
ReturnedClientHasOptions ==
    \A p \in Callers : pc[p] = "done" => c[p] # None /\ c[p] >= seen[p]

\* Two goroutines are never in the two critical sections at once: the deferred
\* RUnlock always finds the read lock taken, also after the upgrade.
LocksBalanced ==
    /\ \A p \in Callers : pc[p] = "ret" => p \in readers
    /\ \A p, q \in Procs :
        (p # q /\ pc[p] \in {"build", "append", "clear"}) =>
            pc[q] \notin {"check", "build", "append", "clear", "ret"}

\* The shared client behaves as one that is built anew for every call, in one
\* step: what a call returns was current at some moment of the call, and a call
\* that has begun returns, unless Config panicked under the lock (OptionCache).
Promise == INSTANCE OptionCache WITH
    version <- httpOpts,
    began   <- [p \in Callers |-> IF pc[p] = "idle" THEN None ELSE seen[p]],
    reply   <- [p \in Callers |-> IF pc[p] = "done" THEN c[p] ELSE None],
    halted  <- fatal \/ LockLost

\* A call of HTTPClient takes effect at one moment, and returns.
KeepsPromise == Promise!Spec

\* The safety part of it.
KeepsPromiseSafely == Promise!Safety

-----------------------------------------------------------------------------
(* What the comments of the code say and the code does not do (README).    *)

\* Config "panics if configuration is not loaded": a panic, which the router
\* recovers from, and neither the end of the process nor of its HTTP clients.
NeverFatal == ~fatal /\ ~LockLost
=============================================================================
