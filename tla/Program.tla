------------------------------ MODULE Program ------------------------------
(***************************************************************************)
(* The two programs around Server.  cmd/inara runs it until a signal shuts *)
(* it down, and leaves when Run returns.  cmd/inara_gui keeps it behind a  *)
(* button; the window that is closed, and the restart after a permission   *)
(* fix, shut it down and exit.  One server is followed, from Run to the    *)
(* end: a later Start makes a new one that shares nothing with it.         *)
(***************************************************************************)
EXTENDS Server

VARIABLES
    program,    \* which of the two runs
    signals,    \* inara: signals received
    srv,        \* gui: srv refers to the server
    stopping,   \* gui: the button was pressed; it is disabled until Run returns
    leaving,    \* gui: where a caller of saveAndExit stands
    exited      \* the process has ended

programVars == <<program, signals, srv, stopping, leaving, exited>>
allVars == <<vars, programVars>>

\* The callback of the window, on the main thread, and the goroutine that
\* waits for pkexec.
Caller == {"window", "pkexec"}

Exit ==
    /\ exited' = TRUE
    /\ UNCHANGED <<vars, program, signals, srv, stopping, leaving>>

-----------------------------------------------------------------------------
(* cmd/inara                                                               *)

FirstSignal ==
    /\ program = "inara" /\ signals = 0
    /\ signals' = 1
    /\ BeginShutdown
    /\ UNCHANGED <<program, srv, stopping, leaving, exited>>

\* The second one does not wait for anything.
SecondSignal ==
    /\ program = "inara" /\ signals = 1
    /\ signals' = 2
    /\ exited' = TRUE
    /\ UNCHANGED <<vars, program, srv, stopping, leaving>>

\* Run returns nil or an error once the listener is closed, and main leaves.
MainReturns == program = "inara" /\ ~listening /\ Exit

-----------------------------------------------------------------------------
(* cmd/inara_gui                                                           *)

MainThreadFree == leaving["window"] = "no"

Stop ==
    /\ program = "gui" /\ srv /\ MainThreadFree
    /\ ~stopping
    /\ stopping' = TRUE
    /\ UNCHANGED <<vars, program, signals, srv, leaving, exited>>

\* The goroutine of Stop, which keeps its own reference to the server.
StopShutsDown == stopping /\ BeginShutdown /\ UNCHANGED programVars

\* What the goroutine of Run leaves to the main thread.
ResetUI ==
    /\ program = "gui" /\ srv /\ MainThreadFree
    /\ ~listening
    /\ srv' = FALSE
    /\ UNCHANGED <<vars, program, signals, stopping, leaving, exited>>

SaveAndExit(c) ==
    /\ program = "gui" /\ leaving[c] = "no"
    /\ IF srv
       THEN /\ leaving' = [leaving EXCEPT ![c] = "checked"]
            /\ UNCHANGED <<vars, program, signals, srv, stopping, exited>>
       ELSE Exit

\* srv is read again for the call.  Where the main thread has forgotten it in
\* between, the call panics; where Shutdown runs already, it waits for it.
CallShutdown(c) ==
    /\ leaving[c] = "checked"
    /\ srv
    /\ leaving' = [leaving EXCEPT ![c] = "waiting"]
    /\ BeginShutdown \/ (shutdown # "none" /\ UNCHANGED vars)
    /\ UNCHANGED <<program, signals, srv, stopping, exited>>

Panic(c) == leaving[c] = "checked" /\ ~srv /\ Exit

\* Variant: a Shutdown under way is not waited for.
BugShutdownReturns(c) == leaving[c] = "waiting" /\ Exit

ShutdownReturns(c) == leaving[c] = "waiting" /\ shutdown = "done" /\ Exit

-----------------------------------------------------------------------------
ProgramInit ==
    /\ Init
    /\ program \in {"inara", "gui"}
    /\ signals = 0
    /\ srv = (program = "gui")
    /\ stopping = FALSE
    /\ leaving = [c \in Caller |-> "no"]
    /\ exited = FALSE

\* The steps of the server that are not started from here.
Work ==
    /\ \/ \E h \in Handler : Serve(h)
       \/ Shutdown \/ Expire \/ ListenerFails
    /\ UNCHANGED programVars

Inara == FirstSignal \/ SecondSignal \/ MainReturns
Leave(c) == CallShutdown(c) \/ Panic(c) \/ ShutdownReturns(c)
Gui == Stop \/ StopShutsDown \/ ResetUI \/ \E c \in Caller : SaveAndExit(c) \/ Leave(c)

\* Everything ends with the process.
ProgramNext == ~exited /\ (Work \/ Inara \/ Gui)

ProgramSpec == ProgramInit /\ [][ProgramNext]_allVars

\* The goroutines of Shutdown, Stop and saveAndExit run when they can, and the
\* deadline passes.  No session is assumed to end: a capture may hang in its
\* clean-up.
ProgramFairSpec ==
    /\ ProgramSpec
    /\ WF_allVars(~exited /\ Shutdown /\ UNCHANGED programVars)
    /\ WF_allVars(~exited /\ Expire /\ UNCHANGED programVars)
    /\ WF_allVars(~exited /\ StopShutsDown)
    /\ \A c \in Caller : WF_allVars(~exited /\ Leave(c))

-----------------------------------------------------------------------------
(* Properties                                                              *)

ProgramTypeOK ==
    /\ program \in {"inara", "gui"}
    /\ signals \in 0..2
    /\ srv \in BOOLEAN /\ stopping \in BOOLEAN /\ exited \in BOOLEAN
    /\ leaving \in [Caller -> {"no", "checked", "waiting"}]

\* Neither program leaves a capture running (that can crash the compositor),
\* however its end is asked for, and although Run returns, and the window may
\* forget the server, before Shutdown does: unless the wait for the sessions
\* timed out, the listener failed or a second signal forced the end.
NoCaptureAtExit ==
    /\ ProgramTypeOK
    /\ exited => timedOut \/ failed \/ signals = 2 \/ capturing = {}

\* Shutdown's cap of 5 seconds: a stuck session or capture does not keep it
\* from finishing, nor the window from closing, whoever called it first.
ShutdownEnds ==
    /\ shuttingDown \/ stopping ~> (shutdown = "done" \/ exited)
    /\ (\E c \in Caller : leaving[c] # "no") ~> exited
=============================================================================
