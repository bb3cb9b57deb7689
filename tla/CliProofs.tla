------------------------------ MODULE CliProofs ------------------------------
(***************************************************************************)
(* Exit status 0 of start is honest, whatever signals come when and        *)
(* whatever becomes of the server (module Cli).                            *)
(*                                                                         *)
(* The status depends on which case of runStart's select is taken, so the  *)
(* invariant has to tell what errCh can hold while the main goroutine is   *)
(* still there: http.ErrServerClosed reaches it only after Shutdown.       *)
(***************************************************************************)
EXTENDS Cli, TLAPS

Early == {"main", "reading", "parsing", "building", "listening", "notifying", "launching"}

\* No request is cut off by an exit now.
Idle == \A r \in Requests : stage[r] # "running"

\* The server exists while the main goroutine waits for it, and after.
ServerLaunched ==
    /\ phase \in Early => server = "none" /\ Idle
    /\ server # "none" => phase \in {"waiting", "draining", "exited"}

\* Shutdown is called once, after the select.
ClosingInPhase ==
    /\ phase = "draining" => closing
    /\ closing => phase \in {"draining", "exited"}

\* What Serve returned.
ErrChTells ==
    /\ errCh = "closed" => closing
    /\ server = "failed" => errCh = "error"

ExitInPhase ==
    /\ exit = 0 => phase = "exited"
    /\ phase = "mcp" => args.command = "mcp"

Inv == ServerLaunched /\ ClosingInPhase /\ ErrChTells /\ ExitInPhase /\ CleanExit

LEMMA IdleMeans == Running = {} <=> Idle
  BY DEF Running, Idle

LEMMA InitInv == Init => Inv
  BY ExitAssumption DEF Init, Inv, ServerLaunched, ClosingInPhase, ErrChTells,
     ExitInPhase, CleanExit, Running, Idle, Early

(***************************************************************************)
(* Steps that leave the server, its channel and the requests alone: what   *)
(* matters is the phase they come from and lead to.                        *)
(***************************************************************************)
LEMMA CommandLineStep ==
  ASSUME Inv, Run \/ RejectFlags \/ RunStart \/ RunMCP
  PROVE  Inv'
  BY ExitAssumption DEF Run, RejectFlags, RunStart, RunMCP, Exit, Goto, process,
     checking, signalling, serving, Inv, ServerLaunched, ClosingInPhase, ErrChTells,
     ExitInPhase, CleanExit, Running, Idle, Early

LEMMA StartupStep ==
  ASSUME Inv, ReadSpec \/ ParseSpec \/ Build \/ Listen \/ NotifyUpdate \/ GracePeriodEnds
  PROVE  Inv'
  BY ExitAssumption DEF ReadSpec, ParseSpec, Build, Listen, NotifyUpdate,
     GracePeriodEnds, Exit, Goto, process, checking, signalling, serving, Inv,
     ServerLaunched, ClosingInPhase, ErrChTells, ExitInPhase, CleanExit, Running,
     Idle, Early

LEMMA CheckStep ==
  ASSUME Inv, CheckLatestVersion \/ CheckFails
  PROVE  Inv'
  BY DEF CheckLatestVersion, CheckFails, process, signalling, serving, Inv,
     ServerLaunched, ClosingInPhase, ErrChTells, ExitInPhase, CleanExit, Running, Idle

LEMMA SignalStep ==
  ASSUME Inv, SendSignal \/ CancelContext
  PROVE  Inv'
  BY ExitAssumption DEF SendSignal, CancelContext, Alive, Exit, process, checking,
     serving, Inv, ServerLaunched, ClosingInPhase, ErrChTells, ExitInPhase, CleanExit,
     Running, Idle, Early

LEMMA ServerStep ==
  ASSUME Inv, LaunchServer \/ Serve \/ ServeFails \/ ServeCloses
  PROVE  Inv'
  BY DEF LaunchServer, Serve, ServeFails, ServeCloses, Alive, Goto, process, checking,
     signalling, Inv, ServerLaunched, ClosingInPhase, ErrChTells, ExitInPhase,
     CleanExit, Running, Idle, Early

LEMMA RequestStep ==
  ASSUME Inv, NEW r \in Requests, Accept(r) \/ Finish(r)
  PROVE  Inv'
  BY DEF Accept, Finish, Alive, process, checking, signalling, Inv, ServerLaunched,
     ClosingInPhase, ErrChTells, ExitInPhase, CleanExit, Running, Idle, Early

LEMMA EndStep ==
  ASSUME Inv, Shutdown \/ Stopped \/ ShutdownTimesOut \/ ServerFailed \/ MCPReturns
  PROVE  Inv'
  BY ExitAssumption DEF Shutdown, Stopped, ShutdownTimesOut, ServerFailed, MCPReturns,
     Exit, Goto, process, checking, signalling, serving, Inv, ServerLaunched,
     ClosingInPhase, ErrChTells, ExitInPhase, CleanExit, Running, Idle, Early

LEMMA StepInv == Inv /\ [Next]_vars => Inv'
<1> SUFFICES ASSUME Inv, [Next]_vars PROVE Inv'
  OBVIOUS
<1>1. CASE MainStep
  BY <1>1, CommandLineStep, StartupStep, ServerStep, EndStep DEF MainStep
<1>2. CASE ServeStep \/ ServeFails
  BY <1>2, ServerStep DEF ServeStep
<1>3. CASE MCPReturns
  BY <1>3, EndStep
<1>4. CASE CheckLatestVersion \/ CheckFails
  BY <1>4, CheckStep
<1>5. CASE SendSignal \/ CancelContext
  BY <1>5, SignalStep
<1>6. CASE \E r \in Requests : Accept(r) \/ Finish(r)
  BY <1>6, RequestStep
<1>7. CASE UNCHANGED vars
  BY <1>7 DEF vars, process, checking, signalling, serving, Inv, ServerLaunched,
     ClosingInPhase, ErrChTells, ExitInPhase, CleanExit, Running, Idle
<1> QED
  BY <1>1, <1>2, <1>3, <1>4, <1>5, <1>6, <1>7 DEF Next

(***************************************************************************)
(* When start exits with 0, no request was cut off, and the server had not *)
(* broken down unless a shutdown was under way.                            *)
(***************************************************************************)
THEOREM HonestExit == Spec => []CleanExit
<1>1. Inv => CleanExit
  BY DEF Inv
<1> QED
  BY <1>1, InitInv, StepInv, PTL DEF Spec
==============================================================================
