------------------------------- MODULE Server -------------------------------
(***************************************************************************)
(* The life cycle of server/server.go: /signal handlers register their     *)
(* sessions; Shutdown walks the registry, waits for the sessions, stops    *)
(* the HTTP server, upon which Run returns, and closes the devices.        *)
(* Program models who calls Shutdown and when the process ends.            *)
(*                                                                         *)
(* A session is seen from its handler: it runs until its WebSocket is      *)
(* closed, then tears itself down (Session models how).  Shutdown is under *)
(* a sync.Once, so one call of it is modelled.                             *)
(***************************************************************************)
EXTENDS Integers, FiniteSets

CONSTANT Handler    \* /signal requests served while the process runs

ASSUME HandlerAssumption == IsFiniteSet(Handler)

VARIABLES
    handler,        \* where the goroutine of each /signal request stands
    wsClosed,       \* the WebSocket of the session is closed
    capturing,      \* sessions whose capture pipeline runs
    sessions,       \* s.sessions
    wg,             \* the counter of s.sessionsWG
    shuttingDown,   \* s.shuttingDown
    shutdown,       \* where Shutdown stands
    toClose,        \* the snapshot of s.sessions still to be closed
    expired,        \* Shutdown's context is done
    timedOut,       \* Shutdown gave up waiting for the sessions
    listening,      \* the HTTPS listener accepts connections
    failed,         \* it stopped accepting by an error: Run returned one
    devices         \* the virtual devices not yet closed

sessionVars == <<handler, wsClosed, capturing>>
registryVars == <<sessions, wg, shuttingDown>>
shutdownVars == <<shutdown, toClose, expired, timedOut>>
outerVars == <<listening, failed, devices>>
vars == <<sessionVars, registryVars, shutdownVars, outerVars>>

HandlerPoints == {"idle", "request", "upgraded", "running", "tearing",
                  "returned", "removed", "gone"}
ShutdownPoints == {"none", "closing", "waiting", "http", "draining",
                   "pad", "tablet", "done"}

Device == {"trackpad", "tablet"}

Step(h, from, to) == handler[h] = from /\ handler' = [handler EXCEPT ![h] = to]
Advance(from, to) == shutdown = from /\ shutdown' = to

-----------------------------------------------------------------------------
(* The goroutine of a /signal request                                      *)

Accept(h) ==
    /\ listening
    /\ Step(h, "idle", "request")
    /\ UNCHANGED <<wsClosed, capturing, registryVars, shutdownVars, outerVars>>

\* auth.check, then Upgrade; either may refuse.
Upgrade(h) ==
    /\ Step(h, "request", "upgraded") \/ Step(h, "request", "gone")
    /\ UNCHANGED <<wsClosed, capturing, registryVars, shutdownVars, outerVars>>

\* Variant: the session is registered without looking at shuttingDown.
BugAddSession(h) ==
    /\ Step(h, "upgraded", "running")
    /\ sessions' = sessions \cup {h}
    /\ wg' = wg + 1
    /\ UNCHANGED <<wsClosed, capturing, shuttingDown, shutdownVars, outerVars>>

\* addSession, and the handler's early return when it refuses.
AddSession(h) ==
    /\ IF shuttingDown
       THEN /\ Step(h, "upgraded", "gone")
            /\ wsClosed' = wsClosed \cup {h}
            /\ UNCHANGED <<sessions, wg>>
       ELSE /\ Step(h, "upgraded", "running")
            /\ sessions' = sessions \cup {h}
            /\ wg' = wg + 1
            /\ UNCHANGED wsClosed
    /\ UNCHANGED <<capturing, shuttingDown, shutdownVars, outerVars>>

\* The peer connection connects and the session starts its video pipeline.
StartCapture(h) ==
    /\ handler[h] = "running"
    /\ h \notin capturing
    /\ capturing' = capturing \cup {h}
    /\ UNCHANGED <<handler, wsClosed, registryVars, shutdownVars, outerVars>>

\* The client or the network ends the WebSocket.
Disconnect(h) ==
    /\ handler[h] \in {"upgraded", "running"}
    /\ h \notin wsClosed
    /\ wsClosed' = wsClosed \cup {h}
    /\ UNCHANGED <<handler, capturing, registryVars, shutdownVars, outerVars>>

\* runLoop returns; the deferred calls of Run begin.
ReadError(h) ==
    /\ Step(h, "running", "tearing")
    /\ h \in wsClosed
    /\ UNCHANGED <<wsClosed, capturing, registryVars, shutdownVars, outerVars>>

\* The deferred calls are through: devices reset, video stopped.
RunReturns(h) ==
    /\ Step(h, "tearing", "returned")
    /\ capturing' = capturing \ {h}
    /\ UNCHANGED <<wsClosed, registryVars, shutdownVars, outerVars>>

\* removeSession: the map under the lock, the WaitGroup after it.
RemoveSession(h) ==
    /\ Step(h, "returned", "removed")
    /\ sessions' = sessions \ {h}
    /\ UNCHANGED <<wsClosed, capturing, wg, shuttingDown, shutdownVars,
                   outerVars>>

SessionDone(h) ==
    /\ Step(h, "removed", "gone")
    /\ wg' = wg - 1
    /\ UNCHANGED <<wsClosed, capturing, sessions, shuttingDown, shutdownVars,
                   outerVars>>

-----------------------------------------------------------------------------
(* Shutdown                                                                *)

\* The first call; shuttingDown and the snapshot share one lock section.
BeginShutdown ==
    /\ Advance("none", "closing")
    /\ shuttingDown' = TRUE
    /\ toClose' = sessions
    /\ UNCHANGED <<sessionVars, sessions, wg, expired, timedOut, outerVars>>

CloseSession(h) ==
    /\ shutdown = "closing"
    /\ h \in toClose
    /\ toClose' = toClose \ {h}
    /\ wsClosed' = wsClosed \cup {h}
    /\ UNCHANGED <<handler, capturing, registryVars, shutdown, expired,
                   timedOut, outerVars>>

AllClosed ==
    /\ Advance("closing", "waiting")
    /\ toClose = {}
    /\ UNCHANGED <<sessionVars, registryVars, toClose, expired, timedOut,
                   outerVars>>

\* The deadline of 5 seconds passes.
Expire ==
    /\ shutdown \notin {"none", "done"}
    /\ ~expired
    /\ expired' = TRUE
    /\ UNCHANGED <<sessionVars, registryVars, shutdown, toClose, timedOut,
                   outerVars>>

\* Variant: nobody waits for the sessions.
BugSessionsEnded ==
    /\ Advance("waiting", "http")
    /\ UNCHANGED <<sessionVars, registryVars, toClose, expired, timedOut,
                   outerVars>>

SessionsEnded ==
    /\ Advance("waiting", "http")
    /\ wg = 0
    /\ UNCHANGED <<sessionVars, registryVars, toClose, expired, timedOut,
                   outerVars>>

\* Variant: the wait for the sessions has no deadline.
BugWaitTimesOut == FALSE /\ UNCHANGED vars

WaitTimesOut ==
    /\ Advance("waiting", "http")
    /\ expired
    /\ timedOut' = TRUE
    /\ UNCHANGED <<sessionVars, registryVars, toClose, expired, outerVars>>

\* httpServer.Shutdown closes the listener before it waits for requests.
StopListening ==
    /\ Advance("http", "draining")
    /\ listening' = FALSE
    /\ UNCHANGED <<sessionVars, registryVars, toClose, expired, timedOut,
                   failed, devices>>

Requests == {h \in Handler : handler[h] = "request"}

\* Upgraded connections are hijacked: the HTTP server no longer waits for them.
Drained ==
    /\ Advance("draining", "pad")
    /\ Requests = {}
    /\ UNCHANGED <<sessionVars, registryVars, toClose, expired, timedOut,
                   outerVars>>

\* httpServer.Close cuts the requests that are left.
ForceClose ==
    /\ Advance("draining", "pad")
    /\ Requests # {} /\ expired
    /\ handler' = [h \in Handler |->
                     IF h \in Requests THEN "gone" ELSE handler[h]]
    /\ UNCHANGED <<wsClosed, capturing, registryVars, toClose, expired,
                   timedOut, outerVars>>

\* A device whose registration failed is nil and skipped; both are there here.
CloseDevice(from, to, d) ==
    /\ Advance(from, to)
    /\ devices' = devices \ {d}
    /\ UNCHANGED <<sessionVars, registryVars, toClose, expired, timedOut,
                   listening, failed>>

ClosePad == CloseDevice("pad", "tablet", "trackpad")
CloseTablet == CloseDevice("tablet", "done", "tablet")

\* The port is taken, or the listener fails later: Run returns the error.
ListenerFails ==
    /\ listening
    /\ listening' = FALSE
    /\ failed' = TRUE
    /\ UNCHANGED <<sessionVars, registryVars, shutdownVars, devices>>

-----------------------------------------------------------------------------
Init ==
    /\ handler = [h \in Handler |-> "idle"]
    /\ wsClosed = {}
    /\ capturing = {}
    /\ sessions = {}
    /\ wg = 0
    /\ shuttingDown = FALSE
    /\ shutdown = "none"
    /\ toClose = {}
    /\ expired = FALSE
    /\ timedOut = FALSE
    /\ listening = TRUE
    /\ devices = Device
    /\ failed = FALSE

Serve(h) ==
    \/ Accept(h) \/ Upgrade(h) \/ AddSession(h) \/ StartCapture(h)
    \/ Disconnect(h) \/ ReadError(h) \/ RunReturns(h) \/ RemoveSession(h)
    \/ SessionDone(h)

Shutdown ==
    \/ (\E h \in Handler : CloseSession(h)) \/ AllClosed
    \/ SessionsEnded \/ WaitTimesOut \/ StopListening
    \/ Drained \/ ForceClose \/ ClosePad \/ CloseTablet

Next ==
    \/ \E h \in Handler : Serve(h)
    \/ BeginShutdown \/ Shutdown \/ Expire
    \/ ListenerFails

Spec == Init /\ [][Next]_vars

-----------------------------------------------------------------------------
(* Properties                                                              *)

TypeOK ==
    /\ handler \in [Handler -> HandlerPoints]
    /\ wsClosed \in SUBSET Handler
    /\ capturing \in SUBSET Handler
    /\ sessions \in SUBSET Handler
    /\ wg \in Nat
    /\ shuttingDown \in BOOLEAN
    /\ shutdown \in ShutdownPoints
    /\ toClose \in SUBSET Handler
    /\ expired \in BOOLEAN /\ timedOut \in BOOLEAN
    /\ listening \in BOOLEAN /\ failed \in BOOLEAN
    /\ devices \in SUBSET Device

At(points) == {h \in Handler : handler[h] \in points}

\* addSession's comment: no session starts that Shutdown has already walked
\* past; every session still running is closed or about to be.  What Shutdown
\* waits for is what it walks over: the registry and the WaitGroup count the
\* same sessions, up to the step between the unlock and Done in removeSession.
NoSessionMissed ==
    /\ TypeOK
    /\ sessions = At({"running", "tearing", "returned"})
    /\ wg = Cardinality(At({"running", "tearing", "returned", "removed"}))
    /\ shuttingDown => \A h \in At({"running"}) : h \in toClose \cup wsClosed

\* Shutdown's order: the devices are closed after every session has reset
\* them, unless the wait for the sessions timed out.
DevicesOutliveSessions ==
    devices # Device =>
        timedOut \/ At({"running", "tearing"}) = {}
=============================================================================
