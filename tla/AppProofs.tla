----------------------------- MODULE AppProofs ------------------------------
(***************************************************************************)
(* Proofs about the application: App.Stop for every number of calls and of *)
(* connections (AppLifecycle), and its shared HTTP client for every number *)
(* of callers and adders (HTTPClient).                                     *)
(***************************************************************************)
EXTENDS AppLifecycle, HTTPClient, TLAPS
-----------------------------------------------------------------------------
(* The order of App.Stop                                                   *)

\* Nothing runs before Start spawns it, and nobody takes what is not there.
StartInv ==
    /\ start \in {"idle", "publish"} => ~server /\ \A s \in Stops : ~took[s]
    /\ start \in {"idle", "publish", "http"} => \A l \in Enabled : ln[l] = "none"
    /\ start = "https" => \A l \in Enabled : l = "https" => ln[l] = "none"

\* Only the Stop that took the server shuts it down.
StopInv ==
    \A s \in Stops :
        /\ stop[s] \in {"h2", "close", "drain"} => took[s]
        /\ took[s] => stop[s] # "idle"

\* The Stop s has closed the listeners it found.
Closed(s) == took[s] /\ stop[s] \in {"drain", "core", "done"}

\* Until then a connection's listener listens; afterwards only late ones do.
ListenInv ==
    /\ (\A s \in Stops : ~Closed(s)) => \A cn \in Open : ln[conn[cn]] = "listening"
    /\ (\E s \in Stops : Closed(s)) =>
           \A l \in Enabled : ln[l] = "listening" => l \in late

\* The inductive invariant.
AppIInv == AppTypeOK /\ StartInv /\ StopInv /\ ListenInv /\ ConnectionsFirst

\* The initial state satisfies it.
LEMMA AppInitIInv == AppInit => AppIInv
<1> SUFFICES ASSUME AppInit PROVE AppIInv
    OBVIOUS
<1> USE LifecycleAssumption DEF AppInit
<1>1. AppTypeOK  BY DEF AppTypeOK
<1>2. StartInv /\ StopInv  BY DEF StartInv, StopInv
<1>3. Open = {}  BY DEF Open
<1>4. ListenInv /\ ConnectionsFirst  BY <1>3 DEF ListenInv, Closed, ConnectionsFirst
<1> QED  BY <1>1, <1>2, <1>4 DEF AppIInv

\* A step of Start.  It opens no listener and no connection.
LEMMA StartStep == ASSUME AppIInv, Start \/ StartFails PROVE AppIInv'
<1> USE LifecycleAssumption DEF AppIInv, Start, StartCore, StartFails, Publish, Spawn, SpawnHTTP,
        SpawnHTTPS, CertificateFails, Wait
<1>1. UNCHANGED <<conn, stop, took, expired, mu, late>>
    OBVIOUS
<1>2. AppTypeOK'
    <2>1. ln' \in [Enabled -> {"none", "spawned", "listening", "ended"}]
        BY DEF AppTypeOK
    <2>2. start' \in {"idle", "publish", "http", "https", "wait", "done"}
        BY DEF AppTypeOK
    <2>3. startErr' \in BOOLEAN /\ core' \in {"new", "started", "stopped"}
        BY DEF AppTypeOK
    <2>4. server' \in BOOLEAN /\ (server' => \A s \in Stops : ~took[s])
        <3>1. CASE Publish  BY <3>1 DEF StartInv
        <3>2. CASE ~Publish
            <4>1. server' = server  BY <3>2
            <4> QED  BY <4>1 DEF AppTypeOK
        <3> QED  BY <3>1, <3>2
    <2> QED  BY <1>1, <2>1, <2>2, <2>3, <2>4 DEF AppTypeOK
<1>3. StartInv'  BY <1>1 DEF AppTypeOK, StartInv
<1>4. StopInv'  BY <1>1 DEF StopInv
<1>5. Open' = Open  BY <1>1 DEF Open
<1>6. \A l \in Enabled : ln'[l] # ln[l] => ln[l] = "none" /\ ln'[l] = "spawned"
    BY DEF AppTypeOK, StartInv
<1>7. ListenInv'
    <2>1. \A s \in Stops : Closed(s)' <=> Closed(s)  BY <1>1 DEF Closed
    <2>2. \A cn \in Open : conn[cn] \in Enabled /\ conn'[cn] = conn[cn]  BY <1>1 DEF Open
    <2> QED  BY <1>1, <1>5, <1>6, <2>1, <2>2 DEF ListenInv
<1>8. ConnectionsFirst'  BY <1>1, <1>5 DEF ConnectionsFirst
<1> QED  BY <1>2, <1>3, <1>4, <1>7, <1>8

\* A listener opens, late if a Stop has taken the server, or fails.
LEMMA ListenStep ==
    ASSUME AppIInv, NEW l \in Enabled, Listen(l) \/ ListenFails(l) PROVE AppIInv'
<1> USE LifecycleAssumption DEF AppIInv, Listen, ListenFails
<1>1. UNCHANGED <<start, server, conn, stop, took, expired, mu>>
    OBVIOUS
<1>2. AppTypeOK'
    <2>1. ln' \in [Enabled -> {"none", "spawned", "listening", "ended"}]
        BY DEF AppTypeOK
    <2>2. late' \subseteq Enabled
        <3>1. late' = late \/ late' = late \cup {l}  OBVIOUS
        <3>2. late \subseteq Enabled  BY DEF AppTypeOK
        <3> HIDE DEF AppIInv, Listen, ListenFails
        <3> QED  BY <3>1, <3>2
    <2>3. UNCHANGED <<core, startErr>>
        OBVIOUS
    <2> QED  BY <1>1, <2>1, <2>2, <2>3 DEF AppTypeOK
<1>3. StartInv'  BY DEF AppTypeOK, StartInv
<1>4. StopInv'  BY <1>1 DEF StopInv
<1>5. Open' = Open  BY <1>1 DEF Open
<1>6. late \subseteq late'  OBVIOUS
<1>7. ListenInv'
    <2>1. \A s \in Stops : Closed(s)' <=> Closed(s)  BY <1>1 DEF Closed
    <2>2. \A cn \in Open : conn[cn] \in Enabled /\ conn'[cn] = conn[cn]  BY <1>1 DEF Open
    <2>3. \A k \in Enabled : k # l => ln'[k] = ln[k]  BY DEF AppTypeOK
    <2>4. ln[l] = "spawned"  OBVIOUS
    <2>5. (\E s \in Stops : took[s]) /\ ln'[l] = "listening" => l \in late'
        BY DEF AppTypeOK
    <2>6. (\E s \in Stops : Closed(s)) => \E s \in Stops : took[s]  BY DEF Closed
    <2> QED  BY <1>1, <1>5, <1>6, <2>1, <2>2, <2>3, <2>4, <2>5, <2>6 DEF ListenInv
<1>8. ConnectionsFirst'  BY <1>1, <1>5, <1>6 DEF ConnectionsFirst
<1> QED  BY <1>2, <1>3, <1>4, <1>7, <1>8

\* A client connects to a listener that listens, or goes.
LEMMA ConnStep == ASSUME AppIInv, NEW cn \in Conns, Accept(cn) \/ Close(cn) PROVE AppIInv'
<1> USE LifecycleAssumption DEF AppIInv, Accept, Close
<1>1. UNCHANGED <<start, server, ln, stop, took, expired, mu, late>>
    OBVIOUS
<1>2. AppTypeOK'
    <2>1. conn' \in [Conns -> Enabled \cup {"none", "closed"}]
        BY DEF AppTypeOK
    <2>2. UNCHANGED <<core, startErr>>
        OBVIOUS
    <2> QED  BY <1>1, <2>1, <2>2 DEF AppTypeOK
<1>3. StartInv' /\ StopInv'  BY <1>1 DEF StartInv, StopInv
<1>4. \A d \in Open' : (d \in Open /\ conn'[d] = conn[d]) \/ ln[conn'[d]] = "listening"
    BY DEF Open, AppTypeOK
<1>5. ListenInv'  BY <1>1, <1>4 DEF ListenInv, Closed, Open, AppTypeOK
<1>6. ConnectionsFirst'  BY <1>1, <1>4, <1>5 DEF ConnectionsFirst, ListenInv, Closed, Open, AppTypeOK
<1> QED  BY <1>2, <1>3, <1>5, <1>6

\* A Stop takes the server, if it is there.
LEMMA TakeStep == ASSUME AppIInv, NEW s \in Stops, Take(s) PROVE AppIInv'
<1> USE LifecycleAssumption DEF AppIInv, Take, StopTo
<1>1. UNCHANGED <<start, ln, conn, expired, mu, late>>
    OBVIOUS
<1>2. AppTypeOK'  BY DEF AppTypeOK, StopInv
<1>3. StartInv'
    <2>1. start \in {"idle", "publish"} => ~server
        BY DEF StartInv
    <2> QED  BY <1>1, <2>1 DEF StartInv, AppTypeOK
<1>4. StopInv'  BY DEF StopInv, AppTypeOK
<1>5. Open' = Open  BY <1>1 DEF Open
<1>6. \A t \in Stops : Closed(t)' <=> Closed(t)
    BY DEF Closed, AppTypeOK, StopInv
<1>7. ListenInv'  BY <1>1, <1>5, <1>6 DEF ListenInv
<1>8. ConnectionsFirst'  BY <1>1, <1>5 DEF ConnectionsFirst, AppTypeOK
<1> QED  BY <1>2, <1>3, <1>4, <1>7, <1>8

\* The Stop that took the server closes its listeners: no connection is open
\* if there is none.
LEMMA CloseStep == ASSUME AppIInv, NEW s \in Stops, CloseListeners(s) PROVE AppIInv'
<1> USE LifecycleAssumption DEF AppIInv, CloseListeners, StopTo
<1>1. UNCHANGED <<start, server, conn, took, expired, late>>
    OBVIOUS
<1>2. took[s] /\ stop[s] = "close"  BY DEF StopInv
<1>3. \A t \in Stops : ~Closed(t)
    BY <1>2 DEF Closed, ConnectionsFirst
<1>4. AppTypeOK'  BY <1>2 DEF AppTypeOK
<1>5. StartInv'  BY <1>1 DEF StartInv, AppTypeOK
<1>6. StopInv'  BY <1>1, <1>2 DEF StopInv, AppTypeOK
<1>7. Closed(s)'  BY <1>1, <1>2 DEF Closed, AppTypeOK
<1>8. \A l \in Enabled : ln'[l] # "listening"  BY DEF AppTypeOK
<1>9. ListenInv'  BY <1>7, <1>8 DEF ListenInv
<1>10. ConnectionsFirst'
    <2>1. ASSUME NEW t \in Stops, took'[t] PROVE t = s
        BY <1>1, <1>2, <2>1 DEF ConnectionsFirst
    <2>2. ASSUME stop'[s] \in {"core", "done"} PROVE Open' = {}
        <3>1. \A l \in Enabled : ln[l] # "listening"
            BY <2>2, <1>2 DEF AppTypeOK
        <3>2. Open = {}  BY <3>1, <1>3 DEF ListenInv, Open
        <3> QED  BY <3>2, <1>1 DEF Open
    <2> QED  BY <2>1, <2>2 DEF ConnectionsFirst
<1> QED  BY <1>4, <1>5, <1>6, <1>9, <1>10

\* The other steps of a Stop, and its timeout.
LEMMA DrainStep ==
    ASSUME AppIInv, NEW s \in Stops,
           ShutdownH2(s) \/ Drain(s) \/ StopCore(s) \/ Expire(s)
    PROVE  AppIInv'
<1> USE LifecycleAssumption DEF AppIInv, ShutdownH2, Drain, StopCore, Expire, StopTo
<1>1. UNCHANGED <<start, server, ln, conn, took, late>>
    OBVIOUS
<1>2. AppTypeOK'
    <2>1. stop' \in [Stops -> {"idle", "h2", "close", "drain", "core", "done"}]
        BY DEF AppTypeOK
    <2>2. expired' \in [Stops -> BOOLEAN]
        BY DEF AppTypeOK
    <2>3. mu' \in Stops \cup {Nil} /\ \A t \in Stops : mu' = t <=> stop'[t] = "drain"
        BY DEF AppTypeOK
    <2>4. core' \in {"new", "started", "stopped"} /\ startErr' = startErr
        BY DEF AppTypeOK
    <2> QED  BY <1>1, <2>1, <2>2, <2>3, <2>4 DEF AppTypeOK
<1>3. StartInv'  BY <1>1 DEF StartInv
<1>4. StopInv'  BY <1>1 DEF StopInv, AppTypeOK
<1>5. Open' = Open  BY <1>1 DEF Open
<1>6. \A t \in Stops : Closed(t)' <=> Closed(t)  BY <1>1 DEF Closed, AppTypeOK
<1>7. ListenInv'  BY <1>1, <1>5, <1>6 DEF ListenInv
<1>8. ConnectionsFirst'  BY <1>1, <1>5 DEF ConnectionsFirst, AppTypeOK
<1> QED  BY <1>2, <1>3, <1>4, <1>7, <1>8

\* Every step preserves the invariant.
LEMMA AppNextIInv == AppIInv /\ [AppNext]_appVars => AppIInv'
<1> SUFFICES ASSUME AppIInv, [AppNext]_appVars PROVE AppIInv'
    OBVIOUS
<1>1. CASE Start \/ StartFails  BY <1>1, StartStep
<1>2. ASSUME NEW l \in Enabled, Listen(l) \/ ListenFails(l) PROVE AppIInv'
    BY <1>2, ListenStep
<1>3. ASSUME NEW cn \in Conns, Accept(cn) \/ Close(cn) PROVE AppIInv'
    BY <1>3, ConnStep
<1>4. ASSUME NEW s \in Stops, Stop(s) \/ Expire(s) PROVE AppIInv'
    BY <1>4, TakeStep, CloseStep, DrainStep DEF Stop
<1>5. CASE UNCHANGED appVars
    BY <1>5 DEF appVars, AppIInv, AppTypeOK, StartInv, StopInv, ListenInv, Closed, Open, ConnectionsFirst
<1> QED  BY <1>1, <1>2, <1>3, <1>4, <1>5 DEF AppNext, AppFinished

\* The invariant holds in every reachable state.
THEOREM AppInvariance == AppSpec => []AppIInv
<1> QED  BY AppInitIInv, AppNextIInv, PTL DEF AppSpec

\* Of any number of Stops one at most takes the server, and the services stop
\* only after the connections, of any number, are closed or the timeout of
\* that Stop has passed (App.Stop).
THEOREM StopOrder == AppSpec => []ConnectionsFirst
<1>1. AppIInv => ConnectionsFirst  BY DEF AppIInv
<1> QED  BY <1>1, AppInvariance, PTL
-----------------------------------------------------------------------------
(* The shared HTTP client                                                  *)

\* writer is the goroutine between Lock and Unlock, readers are the ones
\* between RLock and RUnlock, and a writer past "pending" has no readers.
LockInv ==
    /\ \A p \in Callers :
        /\ p \in readers <=> pc[p] \in {"check", "ret"}
        /\ writer = p <=> pc[p] \in {"pending", "build", "unlock", "stuck"}
        /\ pc[p] \in {"build", "unlock", "stuck"} => readers = {}
    /\ \A p \in Adders :
        /\ writer = p <=> pc[p] \in {"pending", "append", "clear", "unlock"}
        /\ pc[p] \in {"append", "clear", "unlock"} => readers = {}

\* What a call knows about the options.
CallInv ==
    \A p \in Callers :
        /\ seen[p] <= httpOpts
        /\ pc[p] \in {"unlock", "rlock", "ret", "done"} =>
            c[p] # None /\ c[p] >= seen[p] /\ c[p] <= httpOpts

\* The inductive invariant.
IInv == TypeOK /\ LockInv /\ CallInv /\ CachedClientCurrent

LEMMA InitIInv == Init => IInv
<1> SUFFICES ASSUME Init PROVE IInv
    OBVIOUS
<1> USE ProcsAssumption DEF Init, Procs
<1>1. TypeOK BY DEF TypeOK, CallerPC, AdderPC
<1>2. LockInv BY DEF LockInv
<1>3. CallInv
    <2> SUFFICES ASSUME NEW p \in Callers
                 PROVE  /\ seen[p] <= httpOpts
                        /\ pc[p] \notin {"unlock", "rlock", "ret", "done"}
        BY DEF CallInv
    <2>1. seen[p] = 0 /\ httpOpts = 0 /\ pc[p] = "idle"
        OBVIOUS
    <2> QED BY <2>1
<1>4. CachedClientCurrent BY DEF CachedClientCurrent
<1> QED BY <1>1, <1>2, <1>3, <1>4 DEF IInv

\* Each step of HTTPClient keeps the invariant.
LEMMA CallerIInv ==
    ASSUME IInv, NEW p \in Callers, HTTPClientStep(p) PROVE IInv'
<1> USE ProcsAssumption DEF IInv, TypeOK, LockInv, CallInv, CachedClientCurrent,
    Procs, CallerPC, AdderPC, Goto, RLock, RUnlock, Announce,
    ReadersGone, Release
<1>1. CASE Begin(p) BY <1>1 DEF Begin
<1>2. CASE Hit(p) BY <1>2 DEF Hit
<1>3. CASE Miss(p) BY <1>3 DEF Miss
<1>4. CASE Lock(p) BY <1>4 DEF Lock
<1>5. CASE Locked(p) BY <1>5 DEF Locked
<1>6. CASE Build(p) BY <1>6 DEF Build
<1>7. CASE BuildPanics(p) BY <1>7 DEF BuildPanics
<1>11. CASE BuildPanicsUnnoticed(p) BY <1>11 DEF BuildPanicsUnnoticed
<1>8. CASE Unlock(p) BY <1>8 DEF Unlock
<1>9. CASE RLockAgain(p) BY <1>9 DEF RLockAgain
<1>10. CASE Return(p) BY <1>10 DEF Return
<1> QED BY <1>1, <1>2, <1>3, <1>4, <1>5, <1>6, <1>7, <1>8, <1>9, <1>10, <1>11
        DEF HTTPClientStep

\* Each step of AddHTTPClientOption keeps the invariant.
LEMMA AdderIInv ==
    ASSUME IInv, NEW p \in Adders, AddStep(p) PROVE IInv'
<1> USE ProcsAssumption DEF IInv, TypeOK, LockInv, CallInv, CachedClientCurrent,
    Procs, CallerPC, AdderPC, Goto, RLock, RUnlock, Announce,
    ReadersGone, Release
<1>1. CASE AddLock(p) BY <1>1 DEF AddLock
<1>2. CASE AddLocked(p) BY <1>2 DEF AddLocked
<1>3. CASE AppendOption(p) BY <1>3 DEF AppendOption
<1>4. CASE DropClient(p) BY <1>4 DEF DropClient
<1>5. CASE AddUnlock(p) BY <1>5 DEF AddUnlock
<1> QED BY <1>1, <1>2, <1>3, <1>4, <1>5 DEF AddStep

LEMMA NextIInv == IInv /\ [Next]_vars => IInv'
<1> SUFFICES ASSUME IInv, [Next]_vars PROVE IInv'
    OBVIOUS
<1>1. ASSUME NEW p \in Callers, HTTPClientStep(p) PROVE IInv'
    BY <1>1, CallerIInv
<1>2. ASSUME NEW p \in Adders, AddStep(p) PROVE IInv'
    BY <1>2, AdderIInv
<1>3. CASE LoadConfig
    BY <1>3 DEF LoadConfig, IInv, TypeOK, LockInv, CallInv, CachedClientCurrent
<1>4. CASE UNCHANGED vars
    BY <1>4 DEF vars, IInv, TypeOK, LockInv, CallInv, CachedClientCurrent
<1> QED BY <1>1, <1>2, <1>3, <1>4 DEF Next, Finished

\* The invariant holds in every reachable state.
THEOREM Invariance == Spec => []IInv
<1>1. Init => IInv BY InitIInv
<1>2. IInv /\ [Next]_vars => IInv' BY NextIInv
<1> QED BY <1>1, <1>2, PTL DEF Spec

\* The cached client is never out of date: http_client.go drops it under the
\* lock that adds the option.
THEOREM CacheCurrent == Spec => []CachedClientCurrent
<1>1. IInv => CachedClientCurrent BY DEF IInv
<1> QED BY <1>1, Invariance, PTL

\* HTTPClient returns a client with every option added before the call, for
\* any number of concurrent callers and of options added meanwhile.
THEOREM ClientFresh == Spec => []ReturnedClientHasOptions
<1>1. IInv => ReturnedClientHasOptions
    BY DEF IInv, CallInv, ReturnedClientHasOptions
<1> QED BY <1>1, Invariance, PTL

\* The upgrade of the lock keeps the critical sections apart and every
\* deferred RUnlock matched by an RLock.
THEOREM LockUpgradeSafe == Spec => []LocksBalanced
<1>1. IInv => LocksBalanced
    BY ProcsAssumption DEF IInv, TypeOK, LockInv, LocksBalanced, Procs, CallerPC, AdderPC
<1> QED BY <1>1, Invariance, PTL

\* A step that leaves the options, the begun and returned calls and the lock
\* alone is a stutter of the promise.
LEMMA Stutter ==
    ASSUME httpOpts' = httpOpts, fatal' = fatal,
           \A q \in Callers : /\ seen'[q] = seen[q]
                              /\ pc[q] = "idle" <=> pc'[q] = "idle"
                              /\ pc[q] = "stuck" <=> pc'[q] = "stuck"
                              /\ pc[q] = "done" <=> pc'[q] = "done"
                              /\ pc[q] = "done" => c'[q] = c[q]
    PROVE  UNCHANGED Promise!vars
<1>1. [q \in Callers |-> IF pc'[q] = "idle" THEN None ELSE seen'[q]]
      = [q \in Callers |-> IF pc[q] = "idle" THEN None ELSE seen[q]]
    OBVIOUS
<1>2. [q \in Callers |-> IF pc'[q] = "done" THEN c'[q] ELSE None]
      = [q \in Callers |-> IF pc[q] = "done" THEN c[q] ELSE None]
    OBVIOUS
<1>3. LockLost' <=> LockLost
    BY DEF LockLost
<1> QED BY <1>1, <1>2, <1>3 DEF Promise!vars

\* Each step of HTTPClient is a step of the promise, or a stutter.
LEMMA CallerRefines ==
    ASSUME IInv, ~fatal, NEW p \in Callers, HTTPClientStep(p)
    PROVE  [Promise!Next]_Promise!vars
<1> USE ProcsAssumption DEF IInv, TypeOK, Procs, CallerPC, AdderPC, Goto
<1>1. CASE Begin(p)
    <2>1. ~LockLost /\ ~LockLost'
        BY <1>1 DEF Begin, RLock, LockLost, LockInv
    <2>2. Promise!Begin(p)
        BY <1>1, <2>1 DEF Begin, Promise!Begin
    <2> QED BY <2>2 DEF Promise!Next
<1>2. CASE Return(p)
    <2>1. ~LockLost /\ ~LockLost'
        BY <1>2 DEF Return, RUnlock, LockLost, LockInv
    <2>2. c[p] \in seen[p]..httpOpts
        BY <1>2 DEF Return, CallInv
    <2> DEFINE reply == [q \in Callers |-> IF pc[q] = "done" THEN c[q] ELSE None]
               began == [q \in Callers |-> IF pc[q] = "idle" THEN None ELSE seen[q]]
    <2>3. reply' = [reply EXCEPT ![p] = c[p]] /\ reply[p] = None
        BY <1>2 DEF Return
    <2>4. began' = began /\ began[p] = seen[p] /\ began[p] # None
        BY <1>2 DEF Return
    <2>5. \E v \in began[p]..httpOpts : reply' = [reply EXCEPT ![p] = v]
        <3> HIDE DEF reply, began
        <3> QED BY <2>2, <2>3, <2>4
    <2>6. Promise!Reply(p)
        BY <1>2, <2>1, <2>3, <2>4, <2>5 DEF Return, Promise!Reply
    <2> QED BY <2>6 DEF Promise!Next
<1>3. CASE BuildPanics(p)
    <2>1. ~LockLost
        BY <1>3 DEF BuildPanics, LockLost, LockInv
    <2>2. Promise!Halt
        BY <1>3, <2>1 DEF BuildPanics, Promise!Halt
    <2> QED BY <2>2 DEF Promise!Next
<1>4. CASE BuildPanicsUnnoticed(p)
    <2>1. ~LockLost /\ LockLost'
        BY <1>4 DEF BuildPanicsUnnoticed, LockLost, LockInv
    <2>2. Promise!Halt
        BY <1>4, <2>1 DEF BuildPanicsUnnoticed, Promise!Halt
    <2> QED BY <2>2 DEF Promise!Next
<1>5. CASE Hit(p) BY <1>5, Stutter DEF Hit
<1>6. CASE Miss(p) BY <1>6, Stutter DEF Miss
<1>7. CASE Lock(p) BY <1>7, Stutter DEF Lock
<1>8. CASE Locked(p) BY <1>8, Stutter DEF Locked
<1>9. CASE Build(p) BY <1>9, Stutter DEF Build
<1>10. CASE Unlock(p) BY <1>10, Stutter DEF Unlock
<1>11. CASE RLockAgain(p) BY <1>11, Stutter DEF RLockAgain
<1> QED BY <1>1, <1>2, <1>3, <1>4, <1>5, <1>6, <1>7, <1>8, <1>9, <1>10, <1>11
        DEF HTTPClientStep

\* Each step of AddHTTPClientOption is a step of the promise, or a stutter.
LEMMA AdderRefines ==
    ASSUME IInv, ~fatal, NEW p \in Adders, AddStep(p)
    PROVE  [Promise!Next]_Promise!vars
<1> USE ProcsAssumption DEF IInv, TypeOK, Procs, CallerPC, AdderPC, Goto
<1>1. CASE AppendOption(p)
    <2>1. \A q \in Callers : pc'[q] = pc[q]
        BY <1>1 DEF AppendOption
    <2>2. ~LockLost /\ ~LockLost'
        BY <1>1, <2>1 DEF AppendOption, LockLost, LockInv
    <2>3. Promise!AddOption
        BY <1>1, <2>1, <2>2 DEF AppendOption, Promise!AddOption
    <2> QED BY <2>3 DEF Promise!Next
<1>2. CASE AddLock(p) BY <1>2, Stutter DEF AddLock
<1>3. CASE AddLocked(p) BY <1>3, Stutter DEF AddLocked
<1>4. CASE DropClient(p) BY <1>4, Stutter DEF DropClient
<1>5. CASE AddUnlock(p) BY <1>5, Stutter DEF AddUnlock
<1> QED BY <1>1, <1>2, <1>3, <1>4, <1>5 DEF AddStep

\* The shared client of http_client.go implements OptionCache: with any number
\* of goroutines, a call returns a client that was current at some moment of
\* the call, although the lock is given up in its middle.
THEOREM Refinement == Spec => KeepsPromiseSafely
<1>1. Init => Promise!Init
    <2> SUFFICES ASSUME Init PROVE Promise!Init
        OBVIOUS
    <2>1. ~LockLost BY DEF Init, LockLost, Procs
    <2> QED BY <2>1 DEF Init, Promise!Init, Procs
<1>2. IInv /\ [Next]_vars => [Promise!Next]_Promise!vars
    <2> SUFFICES ASSUME IInv, [Next]_vars PROVE [Promise!Next]_Promise!vars
        OBVIOUS
    <2>1. ASSUME NEW p \in Callers, HTTPClientStep(p), ~fatal
          PROVE  [Promise!Next]_Promise!vars
        BY <2>1, CallerRefines
    <2>2. ASSUME NEW p \in Adders, AddStep(p), ~fatal
          PROVE  [Promise!Next]_Promise!vars
        BY <2>2, AdderRefines
    <2>3. CASE LoadConfig BY <2>3, Stutter DEF LoadConfig
    <2>4. CASE UNCHANGED vars BY <2>4, Stutter DEF vars
    <2> QED BY <2>1, <2>2, <2>3, <2>4 DEF Next, Finished
<1> QED BY <1>1, <1>2, Invariance, PTL DEF Spec, KeepsPromiseSafely, Promise!Safety
=============================================================================
