--------------------------------- MODULE Cli ---------------------------------
(***************************************************************************)
(* The process (cmd/mimikos): command line, startup, the background check  *)
(* for a newer release, serving, signals and the exit status.              *)
(*                                                                         *)
(* Besides the main goroutine there are the one that asks GitHub, the one  *)
(* in srv.Serve, the one that cancels the context after a signal, and one  *)
(* per request.  phase is where the main goroutine stands.                 *)
(***************************************************************************)
EXTENDS Integers

CONSTANTS
    Requests,       \* HTTP requests to the mock server, each made once
    Ports, Limits,  \* values given to --port, and to --max-depth and --max-resources
    MaxPort,
    Versions,       \* of the build and of the latest release
    Dev,            \* the version of an untagged build
    Unparsable,     \* a version that is not three numbers
    MaxSignals,     \* bound: SIGINT and SIGTERM sent
    Killed,
    None

ASSUME MaxPortAssumption == MaxPort \in Nat
ASSUME MaxSignalsAssumption == MaxSignals \in Nat
ASSUME ExitAssumption == 0 \notin {None, Killed}

VARIABLES
    args,           \* the command line
    version,        \* of the build
    phase,
    exit,           \* status the process exited with, Killed by a signal, or None
    update,         \* of the check: "none", "asking", or what the channel holds
    notified,       \* an update was announced
    signals,        \* number sent
    catching,       \* signals cancel the context, and do not kill
    signalled,      \* the context's goroutine has received one
    cancelled,      \* ctx.Done() is closed
    server,         \* "none", "launched", "serving", "failed", "closed"
    errCh,          \* "empty", "error", "closed"
    closing,        \* Shutdown has begun
    stage           \* of each request: "new", "running", "done"

process == <<args, version, exit>>
checking == <<update, notified>>
signalling == <<signals, catching, signalled, cancelled>>
serving == <<server, errCh, closing, stage>>
vars == <<process, phase, checking, signalling, serving>>

StartFlags ==
    [command : {"start"}, parsed : {"ok", "help", "bad"}, spec : BOOLEAN,
     level : BOOLEAN, mode : BOOLEAN, port : Ports, maxDepth : Limits,
     maxResources : Limits]

CommandLines ==
    [command : {"none", "help", "version", "unknown"}]
    \cup StartFlags
    \cup [command : {"mcp"}, parsed : {"ok", "help", "bad"}, level : BOOLEAN]

Init ==
    /\ args \in CommandLines
    /\ version \in Versions
    /\ phase = "main"
    /\ exit = None
    /\ update = "none"
    /\ notified = FALSE
    /\ signals = 0
    /\ catching = FALSE /\ signalled = FALSE /\ cancelled = FALSE
    /\ server = "none"
    /\ errCh = "empty"
    /\ closing = FALSE
    /\ stage = [r \in Requests |-> "new"]

Alive == phase # "exited"

\* The main goroutine moves on, or ends the process.
Goto(where) == phase' = where /\ UNCHANGED process

Exit(code) ==
    /\ phase' = "exited"
    /\ exit' = code
    /\ UNCHANGED <<args, version>>

-----------------------------------------------------------------------------
(***************************************************************************)
(* Command line.                                                           *)
(***************************************************************************)
\* parseStartFlags; level and mode tell whether the value is a known one.
ValidFlags ==
    /\ args.spec /\ args.level /\ args.mode
    /\ args.port \in 1..MaxPort
    /\ args.maxDepth >= 1
    /\ args.maxResources >= 1

\* Commands that only print.
Run ==
    /\ phase = "main"
    /\ args.command \in {"none", "help", "version", "unknown"}
    /\ Exit(IF args.command \in {"help", "version"} THEN 0 ELSE 1)
    /\ UNCHANGED <<checking, signalling, serving>>

RejectFlags ==
    /\ phase = "main"
    /\ args.command \in {"start", "mcp"}
    /\ \/ args.parsed = "help" /\ Exit(0)
       \/ args.parsed = "bad" /\ Exit(1)
       \/ /\ args.parsed = "ok"
          /\ IF args.command = "start" THEN ~ValidFlags ELSE ~args.level
          /\ Exit(1)
    /\ UNCHANGED <<checking, signalling, serving>>

\* runStart launches the check before anything else.
RunStart ==
    /\ phase = "main"
    /\ args.command = "start" /\ args.parsed = "ok" /\ ValidFlags
    /\ Goto("reading")
    /\ update' = "asking"
    /\ UNCHANGED <<notified, signalling, serving>>

RunMCP ==
    /\ phase = "main"
    /\ args.command = "mcp" /\ args.parsed = "ok" /\ args.level
    /\ Goto("mcp")
    /\ catching' = TRUE
    /\ UNCHANGED <<checking, signals, signalled, cancelled, serving>>

-----------------------------------------------------------------------------
(***************************************************************************)
(* The check for a newer release.                                          *)
(***************************************************************************)
CompareVersions(current, release) ==
    IF Unparsable \in {current, release} THEN 0
    ELSE LET differ == {i \in 1..3 : current[i] # release[i]}
             first == CHOOSE i \in differ : \A j \in differ : i <= j
         IN  IF differ = {} THEN 0
             ELSE IF current[first] < release[first] THEN -1 ELSE 1

\* GitHub answers with the latest release.
CheckLatestVersion ==
    /\ Alive /\ update = "asking"
    /\ \E release \in Versions \ {Dev} :
          update' = IF version # Dev /\ CompareVersions(version, release) < 0
                    THEN "newer" ELSE "nil"
    /\ UNCHANGED <<process, phase, notified, signalling, serving>>

\* No network, a bad answer, or updateCheckTimeout.
CheckFails ==
    /\ Alive /\ update = "asking"
    /\ update' = "nil"
    /\ UNCHANGED <<process, phase, notified, signalling, serving>>

\* printUpdateNotification
NotifyUpdate ==
    /\ phase = "notifying"
    /\ update \in {"nil", "newer"}
    /\ notified' = (update = "newer")
    /\ update' = "none"
    /\ Goto("launching")
    /\ UNCHANGED <<signalling, serving>>

\* Mutant: startup waits for the check's answer.
WaitForAnswer == FALSE

\* updateGracePeriod
GracePeriodEnds ==
    /\ phase = "notifying"
    /\ Goto("launching")
    /\ UNCHANGED <<checking, signalling, serving>>

-----------------------------------------------------------------------------
(***************************************************************************)
(* Startup.                                                                *)
(***************************************************************************)
ReadSpec ==
    /\ phase = "reading"
    /\ \/ Exit(1) /\ UNCHANGED catching
       \/ Goto("parsing") /\ catching' = TRUE
    /\ UNCHANGED <<checking, signals, signalled, cancelled, serving>>

\* Parse gives up when the context is cancelled; the rest of Build does not
\* ask.
ParseSpec ==
    /\ phase = "parsing"
    /\ \/ Exit(1)
       \/ ~cancelled /\ Goto("building")
    /\ UNCHANGED <<checking, signalling, serving>>

Build ==
    /\ phase = "building"
    /\ Exit(1) \/ Goto("listening")
    /\ UNCHANGED <<checking, signalling, serving>>

Listen ==
    /\ phase = "listening"
    /\ Exit(1) \/ Goto("notifying")
    /\ UNCHANGED <<checking, signalling, serving>>

LaunchServer ==
    /\ phase = "launching"
    /\ Goto("waiting")
    /\ server' = "launched"
    /\ UNCHANGED <<checking, signalling, errCh, closing, stage>>

-----------------------------------------------------------------------------
(***************************************************************************)
(* The goroutine in srv.Serve.                                             *)
(***************************************************************************)
\* Shutdown may have come first.
Serve ==
    /\ Alive /\ server = "launched"
    /\ server' = IF closing THEN "closed" ELSE "serving"
    /\ errCh' = IF closing THEN "closed" ELSE errCh
    /\ UNCHANGED <<process, phase, checking, signalling, closing, stage>>

ServeFails ==
    /\ Alive /\ server = "serving" /\ ~closing
    /\ server' = "failed"
    /\ errCh' = "error"
    /\ UNCHANGED <<process, phase, checking, signalling, closing, stage>>

\* http.ErrServerClosed
ServeCloses ==
    /\ Alive /\ server = "serving" /\ closing
    /\ server' = "closed"
    /\ errCh' = "closed"
    /\ UNCHANGED <<process, phase, checking, signalling, closing, stage>>

\* With the mcp command, the tools' server serves.
Accept(r) ==
    /\ stage[r] = "new"
    /\ \/ server = "serving" /\ ~closing /\ Alive
       \/ phase = "mcp"
    /\ stage' = [stage EXCEPT ![r] = "running"]
    /\ UNCHANGED <<process, phase, checking, signalling, server, errCh, closing>>

Finish(r) ==
    /\ Alive /\ stage[r] = "running"
    /\ stage' = [stage EXCEPT ![r] = "done"]
    /\ UNCHANGED <<process, phase, checking, signalling, server, errCh, closing>>

-----------------------------------------------------------------------------
(***************************************************************************)
(* Signals.  NotifyContext's goroutine takes the first one it is given;    *)
(* later ones are lost until stop() gives them their default effect.       *)
(***************************************************************************)
SendSignal ==
    /\ Alive /\ signals < MaxSignals
    /\ signals' = signals + 1
    /\ IF catching
       THEN signalled' = TRUE /\ UNCHANGED <<process, phase>>
       ELSE Exit(Killed) /\ UNCHANGED signalled
    /\ UNCHANGED <<catching, cancelled, checking, serving>>

CancelContext ==
    /\ Alive /\ signalled /\ ~cancelled
    /\ cancelled' = TRUE
    /\ UNCHANGED <<process, phase, signals, catching, signalled, checking, serving>>

(***************************************************************************)
(* The select of runStart: when both channels are ready, either is taken.  *)
(***************************************************************************)
Shutdown ==
    /\ phase = "waiting" /\ cancelled
    /\ Goto("draining")
    /\ catching' = FALSE
    /\ closing' = TRUE
    /\ UNCHANGED <<checking, signals, signalled, cancelled, server, errCh, stage>>

Running == {r \in Requests : stage[r] = "running"}

\* Mutants: Shutdown does not wait, and waits for ever.
StopsAnyway ==
    /\ phase = "draining"
    /\ Exit(0)
    /\ UNCHANGED <<checking, signalling, serving>>

NeverTimesOut == FALSE

\* Shutdown waits for Serve to return (if it was called) and for requests.
Stopped ==
    /\ phase = "draining"
    /\ server # "serving" /\ Running = {}
    /\ Exit(0)
    /\ UNCHANGED <<checking, signalling, serving>>

ShutdownTimesOut ==
    /\ phase = "draining"
    /\ Running # {}
    /\ Exit(1)
    /\ UNCHANGED <<checking, signalling, serving>>

ServerFailed ==
    /\ phase = "waiting" /\ errCh \in {"error", "closed"}
    /\ Exit(IF errCh = "error" THEN 1 ELSE 0)
    /\ UNCHANGED <<checking, signalling, serving>>

\* Run returns after a signal or when the agent closes the transport; nothing
\* stops the tools' server.
MCPReturns ==
    /\ phase = "mcp"
    /\ \E code \in {0, 1} : Exit(code)
    /\ UNCHANGED <<checking, signalling, serving>>

-----------------------------------------------------------------------------
MainStep ==
    \/ Run \/ RejectFlags \/ RunStart \/ RunMCP
    \/ ReadSpec \/ ParseSpec \/ Build \/ Listen
    \/ NotifyUpdate \/ GracePeriodEnds \/ LaunchServer
    \/ Shutdown \/ Stopped \/ ShutdownTimesOut \/ ServerFailed
    \/ cancelled /\ MCPReturns

ServeStep == Serve \/ ServeCloses

Next ==
    \/ MainStep \/ ServeStep \/ ServeFails \/ MCPReturns
    \/ CheckLatestVersion \/ CheckFails
    \/ SendSignal \/ CancelContext
    \/ \E r \in Requests : Accept(r) \/ Finish(r)

(***************************************************************************)
(* Goroutines and timers go on.  GitHub need not answer, a request may     *)
(* hang, and nobody has to send a signal.                                  *)
(***************************************************************************)
Fairness == WF_vars(MainStep) /\ WF_vars(ServeStep) /\ WF_vars(CancelContext)

Spec == Init /\ [][Next]_vars /\ Fairness
-----------------------------------------------------------------------------
(***************************************************************************)
(* Properties.                                                             *)
(***************************************************************************)
(***************************************************************************)
(* "Graceful shutdown" (CHANGELOG): when start exits with 0, no request    *)
(* was cut off.  And nobody is told that all went well when the server     *)
(* broke down: the status is 0 then only if a signal had asked for the end *)
(* as well, and the select took that one.                                  *)
(***************************************************************************)
CleanExit ==
    exit = 0 /\ args.command = "start" =>
        /\ Running = {}
        /\ server = "failed" => closing

(***************************************************************************)
(* A signal ends the process, whatever it is doing and even if a request   *)
(* hangs.                                                                  *)
(***************************************************************************)
SignalEnds == signals > 0 ~> ~Alive

(***************************************************************************)
(* The check "doesn't block startup" (main.go), even if GitHub never       *)
(* answers: once the port is bound, the server gets to serve.              *)
(***************************************************************************)
ServesWithoutGitHub == phase = "notifying" ~> server = "serving" \/ ~Alive
=============================================================================
