---------------------------- MODULE ServerProofs ----------------------------
(***************************************************************************)
(* Shutdown misses no session, closes no device too early and cuts no      *)
(* capture, for every set of connections: first for the server, under      *)
(* whatever calls it, then for the two programs around it.                 *)
(***************************************************************************)
EXTENDS Program, FiniteSetTheorems, TLAPS

\* What the registry and what the WaitGroup count.
Registered == {"running", "tearing", "returned"}
Counted == Registered \cup {"removed"}

\* Where Shutdown no longer waits for sessions, and where it has stopped
\* listening.
Waited == {"http", "draining", "pad", "tablet", "done"}
Stopped == Waited \ {"http"}

Registry == sessions = At(Registered) /\ wg = Cardinality(At(Counted))
Walked == shuttingDown => \A h \in At({"running"}) : h \in toClose \cup wsClosed
Captures == capturing \subseteq At({"running", "tearing"})
Order ==
    /\ shuttingDown = (shutdown # "none")
    /\ shutdown \in Waited => timedOut \/ At({"running", "tearing"}) = {}
    /\ devices # Device => shutdown \in {"tablet", "done"}
    /\ listening \/ failed \/ shutdown \in Stopped

IInv == TypeOK /\ Registry /\ Walked /\ Captures /\ Order

-----------------------------------------------------------------------------
(* Sets of handlers by where they stand.                                   *)

\* The sessions the WaitGroup counts are finitely many.
LEMMA AtFinite ==
    ASSUME NEW S
    PROVE  IsFiniteSet(At(S))
  <1>1. At(S) \in SUBSET Handler
    BY DEF At
  <1> QED
    BY <1>1, HandlerAssumption, FS_Subset

\* A step of one goroutine moves it in or out of a set of points, alone.
LEMMA AtStep ==
    ASSUME TypeOK, NEW h \in Handler, NEW from, NEW to, Step(h, from, to), NEW S
    PROVE  At(S)' = IF to \in S THEN At(S) \cup {h} ELSE At(S) \ {h}
  BY DEF TypeOK, Step, At

\* A goroutine that stays inside or outside of a set leaves it as it is.
LEMMA AtStays ==
    ASSUME TypeOK, NEW h \in Handler, NEW from, NEW to, Step(h, from, to), NEW S,
           from \in S <=> to \in S
    PROVE  At(S)' = At(S)
  BY DEF TypeOK, Step, At

\* The sets the invariant speaks of, when no goroutine of a session moves.
LEMMA AtSame ==
    ASSUME NEW S, handler' = handler
    PROVE  At(S)' = At(S)
  BY DEF At

-----------------------------------------------------------------------------
(* The server.                                                             *)

\* Before the first connection nothing is registered.
LEMMA InitSound == Init => IInv
  <1> SUFFICES ASSUME Init PROVE IInv
    OBVIOUS
  <1>1. TypeOK
    BY DEF Init, TypeOK, HandlerPoints, ShutdownPoints
  <1>2. \A S \in {Registered, Counted, {"running", "tearing"}} : At(S) = {}
    BY DEF Init, At, Registered, Counted
  <1>3. Registry
    BY <1>2, FS_EmptySet DEF Init, Registry
  <1> QED
    BY <1>1, <1>3 DEF Init, IInv, Walked, Captures, Order, Waited, Stopped

\* The goroutine of a request, outside of the registry and at its borders.
LEMMA ServeSound ==
    ASSUME IInv, NEW h \in Handler, Serve(h)
    PROVE  IInv'
  <1> USE DEF IInv, Registered, Counted, Waited, Stopped
  <1> DEFINE Live == {"running", "tearing"}
  <1>f. IsFiniteSet(At(Counted))
    BY AtFinite
  <1>1. CASE Accept(h) \/ Upgrade(h)
    <2>1. PICK from \in {"idle", "request"}, to \in {"request", "upgraded", "gone"} :
             Step(h, from, to)
      BY <1>1 DEF Accept, Upgrade
    <2>2. \A S \in {Registered, Counted, Live, {"running"}} : At(S)' = At(S)
      BY <2>1, AtStays
    <2>3. UNCHANGED <<wsClosed, capturing, registryVars, shutdownVars, outerVars>>
      BY <1>1 DEF Accept, Upgrade
    <2>4. TypeOK'
      BY <2>1, <2>3 DEF TypeOK, Step, HandlerPoints, registryVars, shutdownVars, outerVars
    <2> QED
      BY <2>2, <2>3, <2>4
         DEF Registry, Walked, Captures, Order, registryVars, shutdownVars, outerVars
  <1>2. CASE AddSession(h) /\ shuttingDown
    <2>1. Step(h, "upgraded", "gone")
      BY <1>2 DEF AddSession
    <2>2. \A S \in {Registered, Counted, Live, {"running"}} : At(S)' = At(S)
      BY <2>1, AtStays
    <2>3. /\ wsClosed' = wsClosed \cup {h}
          /\ UNCHANGED <<capturing, sessions, wg, shuttingDown, shutdownVars, outerVars>>
      BY <1>2 DEF AddSession
    <2>4. TypeOK'
      BY <2>1, <2>3 DEF TypeOK, Step, HandlerPoints, shutdownVars, outerVars
    <2> QED
      BY <2>2, <2>3, <2>4 DEF Registry, Walked, Captures, Order, shutdownVars, outerVars
  <1>3. CASE AddSession(h) /\ ~shuttingDown
    <2>1. Step(h, "upgraded", "running")
      BY <1>3 DEF AddSession
    <2>2. \A S \in {Registered, Counted, Live} : At(S)' = At(S) \cup {h}
      BY <2>1, AtStep
    <2>3. h \notin At(Counted)
      BY <2>1 DEF At, Step
    <2>4. /\ sessions' = sessions \cup {h}
          /\ wg' = wg + 1
          /\ UNCHANGED <<wsClosed, capturing, shuttingDown, shutdownVars, outerVars>>
      BY <1>3 DEF AddSession
    <2>5. TypeOK'
      BY <2>1, <2>4 DEF TypeOK, Step, HandlerPoints, shutdownVars, outerVars
    <2>6. Registry'
      BY <1>f, <2>2, <2>3, <2>4, FS_AddElement DEF Registry
    <2> QED
      BY <1>3, <2>2, <2>4, <2>5, <2>6 DEF Walked, Captures, Order, shutdownVars, outerVars
  <1>4. CASE StartCapture(h) \/ Disconnect(h)
    <2>1. \A S : At(S)' = At(S)
      BY <1>4, AtSame DEF StartCapture, Disconnect
    <2>2. UNCHANGED <<handler, registryVars, shutdownVars, outerVars>>
      BY <1>4 DEF StartCapture, Disconnect
    <2>3. /\ wsClosed' \in SUBSET Handler /\ wsClosed \subseteq wsClosed'
          /\ capturing' \subseteq capturing \cup {h}
          /\ capturing' # capturing => handler[h] = "running"
      BY <1>4 DEF StartCapture, Disconnect, TypeOK
    <2>4. TypeOK'
      BY <2>2, <2>3 DEF TypeOK, registryVars, shutdownVars, outerVars
    <2>5. Captures'
      BY <2>1, <2>3 DEF Captures, At
    <2> QED
      BY <2>1, <2>2, <2>3, <2>4, <2>5
         DEF Registry, Walked, Order, registryVars, shutdownVars, outerVars
  <1>5. CASE ReadError(h)
    <2>1. Step(h, "running", "tearing")
      BY <1>5 DEF ReadError
    <2>2. \A S \in {Registered, Counted, Live} : At(S)' = At(S)
      BY <2>1, AtStays
    <2>3. At({"running"})' = At({"running"}) \ {h}
      BY <2>1, AtStep
    <2>4. UNCHANGED <<wsClosed, capturing, registryVars, shutdownVars, outerVars>>
      BY <1>5 DEF ReadError
    <2>5. TypeOK'
      BY <2>1, <2>4 DEF TypeOK, Step, HandlerPoints, registryVars, shutdownVars, outerVars
    <2> QED
      BY <2>2, <2>3, <2>4, <2>5
         DEF Registry, Walked, Captures, Order, registryVars, shutdownVars, outerVars
  <1>6. CASE RunReturns(h)
    <2>1. Step(h, "tearing", "returned")
      BY <1>6 DEF RunReturns
    <2>2. \A S \in {Registered, Counted, {"running"}} : At(S)' = At(S)
      BY <2>1, AtStays
    <2>3. At(Live)' = At(Live) \ {h}
      BY <2>1, AtStep
    <2>4. /\ capturing' = capturing \ {h}
          /\ UNCHANGED <<wsClosed, registryVars, shutdownVars, outerVars>>
      BY <1>6 DEF RunReturns
    <2>5. TypeOK'
      BY <2>1, <2>4 DEF TypeOK, Step, HandlerPoints, registryVars, shutdownVars, outerVars
    <2> QED
      BY <2>2, <2>3, <2>4, <2>5
         DEF Registry, Walked, Captures, Order, registryVars, shutdownVars, outerVars
  <1>7. CASE RemoveSession(h)
    <2>1. Step(h, "returned", "removed")
      BY <1>7 DEF RemoveSession
    <2>2. \A S \in {Counted, Live, {"running"}} : At(S)' = At(S)
      BY <2>1, AtStays
    <2>3. At(Registered)' = At(Registered) \ {h}
      BY <2>1, AtStep
    <2>4. /\ sessions' = sessions \ {h}
          /\ UNCHANGED <<wsClosed, capturing, wg, shuttingDown, shutdownVars, outerVars>>
      BY <1>7 DEF RemoveSession
    <2>5. TypeOK'
      BY <2>1, <2>4 DEF TypeOK, Step, HandlerPoints, shutdownVars, outerVars
    <2> QED
      BY <2>2, <2>3, <2>4, <2>5 DEF Registry, Walked, Captures, Order, shutdownVars, outerVars
  <1>8. CASE SessionDone(h)
    <2>1. Step(h, "removed", "gone")
      BY <1>8 DEF SessionDone
    <2>2. \A S \in {Registered, Live, {"running"}} : At(S)' = At(S)
      BY <2>1, AtStays
    <2>3. At(Counted)' = At(Counted) \ {h}
      BY <2>1, AtStep
    <2>4. h \in At(Counted)
      BY <2>1 DEF At, Step
    <2>5. /\ wg' = wg - 1
          /\ UNCHANGED <<wsClosed, capturing, sessions, shuttingDown, shutdownVars, outerVars>>
      BY <1>8 DEF SessionDone
    <2>6. wg' = Cardinality(At(Counted)')
      BY <1>f, <2>3, <2>4, <2>5, FS_RemoveElement DEF Registry
    <2>7. wg' \in Nat
      BY <2>6, <2>3, <1>f, FS_RemoveElement, FS_CardinalityType
    <2>8. TypeOK'
      BY <2>1, <2>5, <2>7 DEF TypeOK, Step, HandlerPoints, shutdownVars, outerVars
    <2> QED
      BY <2>2, <2>5, <2>6, <2>8 DEF Registry, Walked, Captures, Order, shutdownVars, outerVars
  <1> QED
    BY <1>1, <1>2, <1>3, <1>4, <1>5, <1>6, <1>7, <1>8 DEF Serve

\* The steps of Shutdown, of its first call and of its deadline, and the end
\* of the listener: only ForceClose moves a goroutine, out of "request".
LEMMA ShutdownSound ==
    ASSUME IInv, BeginShutdown \/ Shutdown \/ Expire \/ ListenerFails
    PROVE  IInv'
  <1> USE DEF IInv, Registered, Counted, Waited, Stopped
  <1> DEFINE Live == {"running", "tearing"}
  <1>1. CASE BeginShutdown
    <2>1. \A S : At(S)' = At(S)
      BY <1>1, AtSame DEF BeginShutdown, sessionVars
    <2>2. /\ UNCHANGED <<sessionVars, sessions, wg, expired, timedOut, outerVars>>
          /\ shutdown = "none" /\ shutdown' = "closing"
          /\ shuttingDown' = TRUE /\ toClose' = sessions
      BY <1>1 DEF BeginShutdown, Advance
    <2>3. TypeOK'
      BY <2>2 DEF TypeOK, ShutdownPoints, sessionVars, outerVars
    <2>4. At({"running"}) \subseteq At(Registered)
      BY DEF At
    <2> QED
      BY <2>1, <2>2, <2>3, <2>4
         DEF Registry, Walked, Captures, Order, sessionVars, outerVars
  <1>2. ASSUME NEW h \in Handler, CloseSession(h)
        PROVE  IInv'
    <2>1. \A S : At(S)' = At(S)
      BY <1>2, AtSame DEF CloseSession
    <2>2. /\ UNCHANGED <<handler, capturing, registryVars, shutdown, expired, timedOut, outerVars>>
          /\ toClose' = toClose \ {h} /\ wsClosed' = wsClosed \cup {h}
      BY <1>2 DEF CloseSession
    <2>3. TypeOK'
      BY <2>2 DEF TypeOK, registryVars, outerVars
    <2> QED
      BY <2>1, <2>2, <2>3 DEF Registry, Walked, Captures, Order, registryVars, outerVars
  <1>3. CASE SessionsEnded
    <2>1. \A S : At(S)' = At(S)
      BY <1>3, AtSame DEF SessionsEnded, sessionVars
    <2>2. /\ UNCHANGED <<sessionVars, registryVars, toClose, expired, timedOut, outerVars>>
          /\ shutdown = "waiting" /\ shutdown' = "http" /\ wg = 0
      BY <1>3 DEF SessionsEnded, Advance
    <2>3. At(Counted) = {}
      BY <2>2, AtFinite, FS_EmptySet DEF Registry
    <2>4. At(Live) \subseteq At(Counted)
      BY DEF At
    <2>5. TypeOK'
      BY <2>2 DEF TypeOK, ShutdownPoints, sessionVars, registryVars, outerVars
    <2> QED
      BY <2>1, <2>2, <2>3, <2>4, <2>5
         DEF Registry, Walked, Captures, Order, sessionVars, registryVars, outerVars
  <1>4. CASE ForceClose
    <2>1. /\ UNCHANGED <<wsClosed, capturing, registryVars, toClose, expired, timedOut, outerVars>>
          /\ shutdown = "draining" /\ shutdown' = "pad"
          /\ handler' = [h \in Handler |->
                           IF h \in Requests THEN "gone" ELSE handler[h]]
      BY <1>4 DEF ForceClose, Advance
    <2>2. \A S \in {Registered, Counted, Live, {"running"}} : At(S)' = At(S)
      BY <2>1 DEF At, Requests, TypeOK
    <2>3. TypeOK'
      BY <2>1 DEF TypeOK, HandlerPoints, ShutdownPoints, Requests, registryVars, outerVars
    <2> QED
      BY <2>1, <2>2, <2>3 DEF Registry, Walked, Captures, Order, registryVars, outerVars
  <1>5. CASE \/ AllClosed \/ WaitTimesOut \/ StopListening \/ Drained
             \/ ClosePad \/ CloseTablet \/ Expire \/ ListenerFails
    <2>1. \A S : At(S)' = At(S)
      BY <1>5, AtSame DEF AllClosed, WaitTimesOut, StopListening, Drained, ClosePad,
                          CloseTablet, CloseDevice, Expire, ListenerFails, sessionVars
    <2>2. UNCHANGED <<sessionVars, registryVars, toClose>>
      BY <1>5 DEF AllClosed, WaitTimesOut, StopListening, Drained, ClosePad, CloseTablet,
                  CloseDevice, Expire, ListenerFails, shutdownVars
    <2>3. TypeOK'
      BY <1>5 DEF TypeOK, ShutdownPoints, Advance, AllClosed, WaitTimesOut, StopListening,
                  Drained, ClosePad, CloseTablet, CloseDevice, Expire, ListenerFails,
                  sessionVars, registryVars, shutdownVars, outerVars
    <2>4. Order'
      BY <1>5, <2>1, <2>2
         DEF Order, Advance, AllClosed, WaitTimesOut, StopListening, Drained, ClosePad,
             CloseTablet, CloseDevice, Expire, ListenerFails, sessionVars, registryVars,
             shutdownVars, outerVars
    <2> QED
      BY <2>1, <2>2, <2>3, <2>4 DEF Registry, Walked, Captures, sessionVars, registryVars
  <1> QED
    BY <1>1, <1>2, <1>3, <1>4, <1>5 DEF Shutdown

\* Every step of the server keeps the invariant.
LEMMA NextSound ==
    ASSUME IInv, [Next]_vars
    PROVE  IInv'
  <1>1. CASE UNCHANGED vars
    <2>1. \A S : At(S)' = At(S)
      BY <1>1, AtSame DEF vars, sessionVars
    <2> QED
      BY <1>1, <2>1 DEF IInv, TypeOK, Registry, Walked, Captures, Order, vars, sessionVars,
                        registryVars, shutdownVars, outerVars
  <1> QED
    BY <1>1, ServeSound, ShutdownSound DEF Next

LEMMA Invariant == Spec => []IInv
  BY InitSound, NextSound, PTL DEF Spec

\* No session starts that Shutdown has walked past, and what it waits for is
\* what it walks over (addSession, removeSession, Shutdown), for any number
\* of connections and whatever calls Shutdown.
THEOREM NoSessionMissedCorrect == Spec => []NoSessionMissed
  <1>1. IInv => NoSessionMissed
    BY DEF IInv, Registry, Walked, NoSessionMissed, Registered, Counted
  <1> QED
    BY <1>1, Invariant, PTL

\* No device is closed under a session that Shutdown has not given up on.
THEOREM DevicesCorrect == Spec => []DevicesOutliveSessions
  <1>1. IInv => DevicesOutliveSessions
    BY DEF IInv, Order, DevicesOutliveSessions, Waited
  <1> QED
    BY <1>1, Invariant, PTL

-----------------------------------------------------------------------------
(* The programs.                                                           *)

\* The GUI forgets the server only after Run has returned, and only it calls
\* saveAndExit; who exits has seen Run return, waited for Shutdown, or been
\* forced.
PInv ==
    /\ ProgramTypeOK
    /\ program = "gui" /\ ~srv => ~listening
    /\ \A c \in Caller : leaving[c] # "no" => program = "gui"
    /\ exited => signals = 2 \/ ~listening \/ shutdown = "done"

LEMMA ProgramInitSound == ProgramInit => PInv
  <1> SUFFICES ASSUME ProgramInit PROVE PInv
    OBVIOUS
  <1>1. srv \in BOOLEAN /\ (program = "gui" => srv)
    BY DEF ProgramInit
  <1>2. ~exited /\ exited \in BOOLEAN /\ stopping \in BOOLEAN
    BY DEF ProgramInit
  <1>3. leaving \in [Caller -> {"no", "checked", "waiting"}]
    BY DEF ProgramInit, Caller
  <1>4. \A c \in Caller : leaving[c] = "no"
    BY DEF ProgramInit
  <1> QED
    BY <1>1, <1>2, <1>3, <1>4 DEF ProgramInit, PInv, ProgramTypeOK

\* A step of a program is a step of the server or none.
LEMMA ProgramStep ==
    ASSUME [ProgramNext]_allVars
    PROVE  [Next]_vars
  BY DEF ProgramNext, Work, Inara, Gui, Leave, FirstSignal, SecondSignal, MainReturns, Stop,
         StopShutsDown, ResetUI, SaveAndExit, CallShutdown, Panic, ShutdownReturns, Exit, Next, allVars

\* Once stopped, the listener stays closed; once done, Shutdown stays done.
LEMMA Closed ==
    ASSUME [Next]_vars
    PROVE  /\ ~listening => ~listening'
           /\ shutdown = "done" => shutdown' = "done"
  <1>1. CASE UNCHANGED vars
    BY <1>1 DEF vars, shutdownVars, outerVars
  <1>2. ASSUME NEW h \in Handler, Serve(h)
        PROVE  UNCHANGED <<listening, shutdown>>
    BY <1>2 DEF Serve, Accept, Upgrade, AddSession, StartCapture, Disconnect, ReadError,
                RunReturns, RemoveSession, SessionDone, shutdownVars, outerVars
  <1>3. CASE BeginShutdown \/ Shutdown \/ Expire \/ ListenerFails
    BY <1>3 DEF BeginShutdown, Shutdown, Expire, ListenerFails, CloseSession, AllClosed,
                SessionsEnded, WaitTimesOut, StopListening, Drained, ForceClose, ClosePad,
                CloseTablet, CloseDevice, Advance, shutdownVars, outerVars
  <1> QED
    BY <1>1, <1>2, <1>3 DEF Next

LEMMA ProgramNextSound ==
    ASSUME PInv, [ProgramNext]_allVars
    PROVE  PInv'
  <1> USE DEF PInv, ProgramTypeOK, Caller
  <1>0. /\ ~listening => ~listening'
        /\ shutdown = "done" => shutdown' = "done"
    BY ProgramStep, Closed
  <1>1. CASE Work \/ StopShutsDown \/ UNCHANGED allVars
    <2>1. UNCHANGED programVars
      BY <1>1 DEF Work, StopShutsDown, allVars
    <2> QED
      BY <1>0, <2>1 DEF programVars
  <1>2. CASE Stop
    BY <1>0, <1>2 DEF Stop
  <1>3. CASE FirstSignal
    BY <1>0, <1>3 DEF FirstSignal
  <1>4. CASE SecondSignal
    BY <1>0, <1>4 DEF SecondSignal
  <1>5. CASE MainReturns
    BY <1>0, <1>5 DEF MainReturns, Exit
  <1>6. CASE ResetUI
    BY <1>0, <1>6 DEF ResetUI
  <1>7. ASSUME NEW c \in Caller, SaveAndExit(c) /\ srv
        PROVE  PInv'
    BY <1>0, <1>7 DEF SaveAndExit
  <1>8. ASSUME NEW c \in Caller, CallShutdown(c)
        PROVE  PInv'
    BY <1>0, <1>8 DEF CallShutdown
  <1>9. ASSUME NEW c \in Caller,
               (SaveAndExit(c) /\ ~srv) \/ Panic(c) \/ ShutdownReturns(c)
        PROVE  PInv'
    BY <1>0, <1>9 DEF SaveAndExit, Panic, ShutdownReturns, Exit
  <1> QED
    BY <1>1, <1>2, <1>3, <1>4, <1>5, <1>6, <1>7, <1>8, <1>9 DEF ProgramNext, Inara, Gui, Leave

\* The two programs only use the server: all that is proved of it holds for
\* both.
THEOREM ProgramUsesServer == ProgramSpec => Spec
  <1>1. ProgramInit => Init
    BY DEF ProgramInit
  <1> QED
    BY <1>1, ProgramStep, PTL DEF ProgramSpec, Spec

\* Neither program ends in the middle of a capture, whoever asks it to end
\* and in whatever order Run and Shutdown return, but for a wait that timed
\* out, a listener that failed, or a second signal.
THEOREM NoCaptureCorrect == ProgramSpec => []NoCaptureAtExit
  <1>1. ProgramSpec => []IInv
    BY ProgramUsesServer, Invariant
  <1>2. ProgramSpec => []PInv
    BY ProgramInitSound, ProgramNextSound, PTL DEF ProgramSpec
  <1>3. IInv /\ PInv => NoCaptureAtExit
    BY DEF IInv, PInv, Captures, Order, NoCaptureAtExit, Waited, Stopped
  <1> QED
    BY <1>1, <1>2, <1>3, PTL
=============================================================================
