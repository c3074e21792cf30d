------------------------------ MODULE Streamer ------------------------------
(***************************************************************************)
(* The life of the capture pipelines of video/video_linux.go: Start and    *)
(* Stop may be called by any goroutine at any time after the constructor,  *)
(* the capture loop is a goroutine of its own, and all pipelines publish   *)
(* their resolution in the globals CaptureWidth and CaptureHeight.         *)
(*                                                                         *)
(* A section under s.mu is one step; what follows the unlock is a step of  *)
(* its own.  Encoder composes these steps with what the constructor and    *)
(* the loop body do; taken alone, the loop may return at any time.         *)
(***************************************************************************)
EXTENDS Naturals

CONSTANTS
    Pipeline,   \* the pipelines built while the process runs
    NoPipeline  \* capture = 0x0

ASSUME PipelineAssumption == NoPipeline \notin Pipeline

VARIABLES
    built,      \* the constructor returned the pipeline
    started, stopped,   \* the flags under s.mu
    launching,  \* Start callers between the unlock and `go s.captureLoop()`
    running,    \* capture goroutines
    stopClosed, \* s.stop is closed
    doneCloses, \* how often close(s.done) ran
    stopper,    \* where the one Stop call that does the work stands
    freed,      \* the FFmpeg contexts are freed
    capture     \* whose resolution CaptureWidth and CaptureHeight hold

vars == <<built, started, stopped, launching, running, stopClosed,
          doneCloses, stopper, freed, capture>>

StopPoints == {"none", "signal", "wait", "free", "zero", "done"}

Set(f, p, v) == [f EXCEPT ![p] = v]

-----------------------------------------------------------------------------
\* The constructor opens the capture source and publishes its resolution.
New(p) ==
    /\ ~built[p]
    /\ built' = Set(built, p, TRUE)
    /\ capture' = p
    /\ UNCHANGED <<started, stopped, launching, running, stopClosed,
                   doneCloses, stopper, freed>>

\* Variant: a second Start launches a second capture goroutine.
BugRestart(p) ==
    /\ built[p] /\ ~stopped[p]
    /\ started' = Set(started, p, TRUE)
    /\ launching' = Set(launching, p, launching[p] + 1)
    /\ UNCHANGED <<built, stopped, running, stopClosed, doneCloses, stopper,
                   freed, capture>>

\* Variant: Start does not look at stopped.
BugLateStart(p) ==
    /\ built[p] /\ ~started[p]
    /\ started' = Set(started, p, TRUE)
    /\ launching' = Set(launching, p, launching[p] + 1)
    /\ UNCHANGED <<built, stopped, running, stopClosed, doneCloses, stopper,
                   freed, capture>>

\* Start, up to the unlock.  The call returns early when the pipeline was
\* started or stopped before.
Start(p) ==
    /\ built[p] /\ ~started[p] /\ ~stopped[p]
    /\ started' = Set(started, p, TRUE)
    /\ launching' = Set(launching, p, launching[p] + 1)
    /\ UNCHANGED <<built, stopped, running, stopClosed, doneCloses, stopper,
                   freed, capture>>

\* go s.captureLoop()
Launch(p) ==
    /\ launching[p] > 0
    /\ launching' = Set(launching, p, launching[p] - 1)
    /\ running' = Set(running, p, running[p] + 1)
    /\ UNCHANGED <<built, started, stopped, stopClosed, doneCloses, stopper,
                   freed, capture>>

\* The deferred close(s.done).
LoopReturns(p) ==
    /\ running[p] > 0
    /\ running' = Set(running, p, running[p] - 1)
    /\ doneCloses' = Set(doneCloses, p, doneCloses[p] + 1)
    /\ UNCHANGED <<built, started, stopped, launching, stopClosed, stopper,
                   freed, capture>>

\* Stop, up to the unlock.  Every later call returns here at once.
Stop(p) ==
    /\ built[p] /\ ~stopped[p]
    /\ stopped' = Set(stopped, p, TRUE)
    /\ stopper' = Set(stopper, p, "signal")
    /\ UNCHANGED <<built, started, launching, running, stopClosed,
                   doneCloses, freed, capture>>

\* Variant: Stop waits for a goroutine that may never have been started.
BugAlwaysWait(p) ==
    /\ stopper[p] = "signal"
    /\ stopClosed' = Set(stopClosed, p, TRUE)
    /\ stopper' = Set(stopper, p, "wait")
    /\ UNCHANGED <<built, started, stopped, launching, running, doneCloses,
                   freed, capture>>

\* close(s.stop).  The local copy of started equals the flag: Start cannot
\* change it once stopped is set.
SignalStop(p) ==
    /\ stopper[p] = "signal"
    /\ stopClosed' = Set(stopClosed, p, TRUE)
    /\ stopper' = Set(stopper, p, IF started[p] THEN "wait" ELSE "free")
    /\ UNCHANGED <<built, started, stopped, launching, running, doneCloses,
                   freed, capture>>

\* <-s.done
AwaitLoop(p) ==
    /\ stopper[p] = "wait"
    /\ doneCloses[p] > 0
    /\ stopper' = Set(stopper, p, "free")
    /\ UNCHANGED <<built, started, stopped, launching, running, stopClosed,
                   doneCloses, freed, capture>>

\* freeInputDecode and enc.free
Free(p) ==
    /\ stopper[p] = "free"
    /\ freed' = Set(freed, p, TRUE)
    /\ stopper' = Set(stopper, p, "zero")
    /\ UNCHANGED <<built, started, stopped, launching, running, stopClosed,
                   doneCloses, capture>>

ZeroCapture(p) ==
    /\ stopper[p] = "zero"
    /\ capture' = NoPipeline
    /\ stopper' = Set(stopper, p, "done")
    /\ UNCHANGED <<built, started, stopped, launching, running, stopClosed,
                   doneCloses, freed>>

-----------------------------------------------------------------------------
Everywhere(v) == [p \in Pipeline |-> v]

Init ==
    /\ built = Everywhere(FALSE)
    /\ started = Everywhere(FALSE)
    /\ stopped = Everywhere(FALSE)
    /\ launching = Everywhere(0)
    /\ running = Everywhere(0)
    /\ stopClosed = Everywhere(FALSE)
    /\ doneCloses = Everywhere(0)
    /\ stopper = Everywhere("none")
    /\ freed = Everywhere(FALSE)
    /\ capture = NoPipeline

Next ==
    \E p \in Pipeline :
        \/ New(p) \/ Start(p) \/ Launch(p)
        \/ LoopReturns(p)
        \/ Stop(p) \/ SignalStop(p) \/ AwaitLoop(p) \/ Free(p)
        \/ ZeroCapture(p)

Spec == Init /\ [][Next]_vars

-----------------------------------------------------------------------------
(* Properties                                                              *)

TypeOK ==
    /\ built \in [Pipeline -> BOOLEAN]
    /\ started \in [Pipeline -> BOOLEAN]
    /\ stopped \in [Pipeline -> BOOLEAN]
    /\ launching \in [Pipeline -> Nat]
    /\ running \in [Pipeline -> Nat]
    /\ stopClosed \in [Pipeline -> BOOLEAN]
    /\ doneCloses \in [Pipeline -> Nat]
    /\ stopper \in [Pipeline -> StopPoints]
    /\ freed \in [Pipeline -> BOOLEAN]
    /\ capture \in Pipeline \cup {NoPipeline}

\* The comment on started and stopped: a second capture loop would close done
\* twice and race two goroutines on the FFmpeg contexts.
SingleLoop ==
    /\ TypeOK
    /\ \A p \in Pipeline : launching[p] + running[p] + doneCloses[p] =< 1

\* Every Stop call that does the work returns: it must not block on done when
\* no goroutine will ever close it.
StopReturns ==
    \A p \in Pipeline : stopper[p] = "signal" ~> stopper[p] = "done"

\* The contract of video.Streamer, as its users see it: a pipeline whose loop
\* ended by itself still counts as capturing, until Stop releases it.
Phase ==
    [p \in Pipeline |->
        IF running[p] > 0 THEN "capturing"
        ELSE IF freed[p] THEN "released"
        ELSE IF doneCloses[p] > 0 THEN "capturing"
        ELSE IF built[p] THEN "ready" ELSE "absent"]
Contract == INSTANCE StreamerContract WITH phase <- Phase
ImplementsContract == Contract!Spec
=============================================================================
