---------------------------- MODULE AppLifecycle ----------------------------
(***************************************************************************)
(* App.Start and App.Stop (app.go): one goroutine starts the application   *)
(* and serves until its listeners end, others stop it, connections come    *)
(* and go meanwhile.                                                       *)
(*                                                                         *)
(* Outside this repository: the core application (Start, Stop) and         *)
(* fasthttp's Server, whose shutdown closes the listeners it knows, waits  *)
(* for the open connections, and does nothing when it has no listener yet. *)
(***************************************************************************)
EXTENDS Naturals, FiniteSets

CONSTANTS
    Enabled,        \* the listeners the configuration enables
    Stops,          \* calls of Stop
    Conns,          \* connections clients open
    Nil             \* nil

ASSUME LifecycleAssumption ==
    /\ Enabled \subseteq {"http", "https"}
    /\ Nil \notin Stops

VARIABLES
    core,           \* the core application and its services
    start,          \* where Start is
    startErr,       \* Start returned an error
    server,         \* App.server is not nil (set with App.h2server)
    ln,             \* of every listener: its goroutine and fasthttp's Serve
    conn,           \* of every connection: the listener it uses, or where it is
    stop,           \* of every call of Stop: where it is
    took,           \* of every call of Stop: it took the server out of App
    expired,        \* of every call of Stop: the shutdown timeout has passed
    mu,             \* fasthttp's Server.mu: the Stop whose shutdown holds it
    late            \* history: listeners that opened after a Stop took the server

appVars == <<core, start, startErr, server, ln, conn, stop, took, expired, mu, late>>

AppInit ==
    /\ core = "new"
    /\ start = "idle" /\ startErr = FALSE
    /\ server = FALSE
    /\ ln = [l \in Enabled |-> "none"]
    /\ conn = [c \in Conns |-> "none"]
    /\ stop = [s \in Stops |-> "idle"]
    /\ took = [s \in Stops |-> FALSE]
    /\ expired = [s \in Stops |-> FALSE]
    /\ mu = Nil
    /\ late = {}

Open == {c \in Conns : conn[c] \in Enabled}

\* h2server exists: HTTP/2 is served over HTTPS only.
HTTP2 == "https" \in Enabled
-----------------------------------------------------------------------------
(* Start                                                                   *)

StartCore ==
    /\ start = "idle"
    /\ start' = "publish"
    /\ core' = "started"
    /\ UNCHANGED <<startErr, server, ln, conn, stop, took, expired, mu, late>>

\* The core application does not start, or Start has an error of its own.
StartFails ==
    /\ start = "idle"
    /\ start' = "done" /\ startErr' = TRUE
    /\ UNCHANGED <<core, server, ln, conn, stop, took, expired, mu, late>>

\* server and h2server, under serverLock.
Publish ==
    /\ start = "publish"
    /\ start' = "http"
    /\ server' = TRUE
    /\ UNCHANGED <<core, startErr, ln, conn, stop, took, expired, mu, late>>

Spawn(l) == ln' = [k \in Enabled |-> IF k = l THEN "spawned" ELSE ln[k]]

SpawnHTTP ==
    /\ start = "http"
    /\ start' = "https"
    /\ Spawn("http")
    /\ UNCHANGED <<core, startErr, server, conn, stop, took, expired, mu, late>>

\* The certificate is loaded before the HTTPS goroutine starts.
SpawnHTTPS ==
    /\ start = "https"
    /\ start' = "wait"
    /\ Spawn("https")
    /\ UNCHANGED <<core, startErr, server, conn, stop, took, expired, mu, late>>
CertificateFails ==
    /\ start = "https" /\ "https" \in Enabled
    /\ start' = "done" /\ startErr' = TRUE
    /\ UNCHANGED <<core, server, ln, conn, stop, took, expired, mu, late>>

\* wg.Wait: both goroutines have returned.
Wait ==
    /\ start = "wait"
    /\ \A l \in Enabled : ln[l] = "ended"
    /\ start' = "done"
    /\ UNCHANGED <<core, startErr, server, ln, conn, stop, took, expired, mu, late>>

Start == StartCore \/ Publish \/ SpawnHTTP \/ SpawnHTTPS \/ CertificateFails \/ Wait
-----------------------------------------------------------------------------
(* fasthttp's Server                                                       *)

\* ListenAndServe registers the listener, unless a shutdown holds the mutex.
Listen(l) ==
    /\ ln[l] = "spawned"
    /\ mu = Nil
    /\ ln' = [ln EXCEPT ![l] = "listening"]
    /\ late' = IF \E s \in Stops : took[s] THEN late \cup {l} ELSE late
    /\ UNCHANGED <<core, start, startErr, server, conn, stop, took, expired, mu>>

\* The address is taken: the goroutine logs it and ends.
ListenFails(l) ==
    /\ ln[l] = "spawned"
    /\ ln' = [ln EXCEPT ![l] = "ended"]
    /\ UNCHANGED <<core, start, startErr, server, conn, stop, took, expired, mu, late>>

Accept(c) ==
    \E l \in Enabled :
        /\ ln[l] = "listening"
        /\ conn[c] = "none"
        /\ conn' = [conn EXCEPT ![c] = l]
        /\ UNCHANGED <<core, start, startErr, server, ln, stop, took, expired, mu, late>>
Close(c) ==
    /\ conn[c] \in Enabled
    /\ conn' = [conn EXCEPT ![c] = "closed"]
    /\ UNCHANGED <<core, start, startErr, server, ln, stop, took, expired, mu, late>>
-----------------------------------------------------------------------------
(* Stop                                                                    *)

StopTo(s, from, to) == stop[s] = from /\ stop' = [stop EXCEPT ![s] = to]

\* Swap server and h2server for nil, under serverLock.
Take(s) ==
    /\ StopTo(s, "idle", IF ~server THEN "core" ELSE IF HTTP2 THEN "h2" ELSE "close")
    /\ took' = [took EXCEPT ![s] = server]
    /\ server' = FALSE
    /\ UNCHANGED <<core, start, startErr, ln, conn, expired, mu, late>>

\* The timeout of the shutdown context.
Expire(s) ==
    /\ stop[s] \in {"h2", "close", "drain"}
    /\ ~expired[s]
    /\ expired' = [expired EXCEPT ![s] = TRUE]
    /\ UNCHANGED <<core, start, startErr, server, ln, conn, stop, took, mu, late>>

\* h2server.Shutdown returns: its connections are closed, or time is up.  The
\* HTTPS listener still accepts.
ShutdownH2(s) ==
    /\ StopTo(s, "h2", "close")
    /\ expired[s] \/ \A c \in Conns : conn[c] # "https"
    /\ UNCHANGED <<core, start, startErr, server, ln, conn, took, expired, mu, late>>

\* ShutdownWithContext closes the listeners; without one it returns at once.
CloseListeners(s) ==
    LET open == {l \in Enabled : ln[l] = "listening"}
    IN  /\ mu = Nil
        /\ StopTo(s, "close", IF open = {} THEN "core" ELSE "drain")
        /\ mu' = IF open = {} THEN Nil ELSE s
        /\ ln' = [l \in Enabled |-> IF l \in open THEN "ended" ELSE ln[l]]
        /\ UNCHANGED <<core, start, startErr, server, conn, took, expired, late>>

\* Mutated shutdowns: one that does not wait, one that waits for ever.
DrainNot(s) ==
    /\ StopTo(s, "drain", "core")
    /\ mu' = Nil
    /\ UNCHANGED <<core, start, startErr, server, ln, conn, took, expired, late>>
DrainForever(s) ==
    /\ StopTo(s, "drain", "core")
    /\ Open = {}
    /\ mu' = Nil
    /\ UNCHANGED <<core, start, startErr, server, ln, conn, took, expired, late>>

\* It then waits for the open connections, or for the timeout.
Drain(s) ==
    /\ StopTo(s, "drain", "core")
    /\ expired[s] \/ Open = {}
    /\ mu' = Nil
    /\ UNCHANGED <<core, start, startErr, server, ln, conn, took, expired, late>>

\* App.App.Stop: the services of the core application end.
StopCore(s) ==
    /\ StopTo(s, "core", "done")
    /\ core' = "stopped"
    /\ UNCHANGED <<start, startErr, server, ln, conn, took, expired, mu, late>>

Stop(s) == Take(s) \/ ShutdownH2(s) \/ CloseListeners(s) \/ Drain(s) \/ StopCore(s)

\* Every Stop has returned, and so has Start, unless it serves on.
AppFinished ==
    /\ \A s \in Stops : stop[s] = "done"
    /\ start = "done" \/ \E l \in Enabled : ln[l] = "listening"
    /\ UNCHANGED appVars

AppNext ==
    \/ Start \/ StartFails
    \/ \E l \in Enabled : Listen(l) \/ ListenFails(l)
    \/ \E c \in Conns : Accept(c) \/ Close(c)
    \/ \E s \in Stops : Stop(s) \/ Expire(s)
    \/ AppFinished

AppSpec == AppInit /\ [][AppNext]_appVars

\* The goroutines of a started application run, a call of Stop that was made
\* goes on, timeouts pass.  Nothing makes a client close its connection.
AppFairness ==
    /\ WF_appVars(start # "idle" /\ Start)
    /\ \A l \in Enabled : WF_appVars(Listen(l) \/ ListenFails(l))
    /\ \A s \in Stops : WF_appVars(stop[s] # "idle" /\ Stop(s)) /\ WF_appVars(Expire(s))
FairAppSpec == AppSpec /\ AppFairness
-----------------------------------------------------------------------------
(* Properties.                                                             *)

\* Every variable has its type; a server that was taken is not in the App, a
\* shutdown holds fasthttp's mutex exactly while it drains.
AppTypeOK ==
    /\ core \in {"new", "started", "stopped"}
    /\ start \in {"idle", "publish", "http", "https", "wait", "done"}
    /\ startErr \in BOOLEAN /\ server \in BOOLEAN
    /\ ln \in [Enabled -> {"none", "spawned", "listening", "ended"}]
    /\ conn \in [Conns -> Enabled \cup {"none", "closed"}]
    /\ stop \in [Stops -> {"idle", "h2", "close", "drain", "core", "done"}]
    /\ took \in [Stops -> BOOLEAN] /\ expired \in [Stops -> BOOLEAN]
    /\ mu \in Stops \cup {Nil}
    /\ late \subseteq Enabled
    /\ server => \A s \in Stops : ~took[s]
    /\ \A s \in Stops : mu = s <=> stop[s] = "drain"

\* One Stop at most takes the server, and it stops the services of the core
\* application only after every connection is closed or the timeout has
\* passed, whatever other calls of Stop do, except for connections of a
\* listener that opened after the server was taken.
ConnectionsFirst ==
    /\ \A s, t \in Stops : took[s] /\ took[t] => s = t
    /\ \A s \in Stops :
        (took[s] /\ stop[s] \in {"core", "done"} /\ ~expired[s]) =>
            \A c \in Open : conn[c] \in late

\* Every call of Stop returns, also when clients keep their connections open;
\* and once the server was taken and shut down, Start returns as well, unless a
\* listener opened too late to be closed.
CallsReturn ==
    /\ \A s \in Stops : stop[s] # "idle" ~> stop[s] = "done"
    /\ (\E s \in Stops : took[s]) ~> (start = "done" \/ late # {})

-----------------------------------------------------------------------------
(* What the comments of the code say and the code does not do (README).    *)

\* "Stop web application and its services": when the Stop of a started
\* application has returned, no listener opens or stays open.
StoppedForGood ==
    [][\A s \in Stops, l \in Enabled : (took[s] /\ stop[s] = "done") => ~Listen(l)]_appVars

\* Stop waits "for active connections to finish": no call of Stop stops the
\* services while a connection is open and no timeout has passed.
EveryStopWaits ==
    \A s \in Stops : (stop[s] = "done" /\ \A t \in Stops : ~expired[t]) =>
        \A c \in Open : conn[c] \in late
=============================================================================
