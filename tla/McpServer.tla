------------------------------ MODULE McpServer -----------------------------
(***************************************************************************)
(* The mock server an agent controls through MCP tools (internal/mcp):     *)
(* the Instance, which owns at most one server at a time, the tool calls,  *)
(* which run concurrently, and the middleware each HTTP request goes       *)
(* through: status override, request log, router.                          *)
(*                                                                         *)
(* Instance's methods hold inst.mu; Stop holds it while it waits for the   *)
(* requests in flight.  A tool that calls several methods, or uses what a  *)
(* method returned, is cut at each call.                                   *)
(***************************************************************************)
EXTENDS Integers, Sequences, FiniteSets

CONSTANTS
    NumRequests,    \* bound: HTTP requests sent
    NumCalls,       \* bound: tool calls made
    NumEvents,      \* bound: tool calls and requests together
    NumOpen,        \* bound: tool calls under way at once
    Tools,          \* bound: the tools each tool call may be of
    Modes,          \* of start_server: "deterministic", "stateful"
    Endpoints,      \* "METHOD path", the key of an override
    Defined,        \* endpoint to the keys of ResponseSchemas, 0 for default
    Codes,          \* status codes asked of request_status
    Headers,        \* and in X-Mimikos-Status by a client
    LogCapacity,    \* of the request log
    None

ASSUME LogCapacityAssumption == LogCapacity \in Nat \ {0}
ASSUME NumbersAssumption == {NumRequests, NumCalls, NumEvents, NumOpen} \subseteq Nat
ASSUME CodesAssumption == Codes \cup Headers \subseteq Nat
\* None is none of the values it stands for the lack of.
ASSUME NoneAssumption ==
    /\ None \notin Nat
    /\ None \notin [code : Nat, by : Nat \cup {None}]
    /\ None \notin [endpoint : Endpoints, header : Nat \cup {None}, server : Nat]
    /\ None \notin {<<"set">>, <<"started">>, <<"stopped">>} \cup {<<"managed", m>> : m \in Modes \cup {"deterministic"}}

\* Numbered in the order in which they are accepted and made.
Requests == 1..NumRequests
Calls == 1..NumCalls

VARIABLES
    servers,        \* every server ever started, see NewServer
    running,        \* index of the instance's server, 0 when stopped
    lock,           \* the stop_server call that holds inst.mu, or None
    call,           \* what each tool call asks for
    progress,       \* "new", "called", ..., "answered"
    held,           \* the server a call has got hold of, or 0
    reported,       \* the servers start or stop will tell of, 0 for none
    result,         \* the answer of a call
    earlier,        \* per start and stop, those answered when it was made
    request,        \* each request: [endpoint, header, server]
    stage,          \* "new", "accepted", "routed", "served", "logged", "answered"
    forced,         \* [code, by]: X-Mimikos-Status as the router sees it
    sent,           \* the status code the client gets
    since,          \* per request, the overrides set when it was accepted
    crashed         \* a tool handler panicked: the process is over

http == <<request, stage, forced, sent, since>>
tools == <<call, progress, held, reported, result, earlier>>
live == <<servers, running, lock, tools, http>>
vars == <<live, crashed>>

SuccessCode == 200

\* recorded is history: the requests the log was ever given, in order.
NewServer(mode) ==
    [mode |-> mode, listening |-> TRUE, log |-> <<>>, recorded |-> <<>>,
     state |-> {}, overrides |-> [e \in Endpoints |-> None]]

ToolCalls ==
    [tool : {"start_server"}, mode : Modes]
      \cup [tool : {"stop_server", "get_request_log", "manage_state", "reset"}]
      \cup [tool : {"request_status"}, endpoint : Endpoints, code : Codes]

Init ==
    /\ servers = <<>>
    /\ running = 0
    /\ lock = None
    /\ call = [c \in Calls |-> None]
    /\ progress = [c \in Calls |-> "new"]
    /\ held = [c \in Calls |-> 0]
    /\ reported = [c \in Calls |-> {}]
    /\ earlier = [c \in Calls |-> {}]
    /\ result = [c \in Calls |-> None]
    /\ request = [r \in Requests |-> None]
    /\ stage = [r \in Requests |-> "new"]
    /\ forced = [r \in Requests |-> None]
    /\ sent = [r \in Requests |-> None]
    /\ since = [r \in Requests |-> {}]
    /\ crashed = FALSE

-----------------------------------------------------------------------------
(***************************************************************************)
(* Tool calls.                                                             *)
(***************************************************************************)
\* Both come from outside; see the bounds.
NextCall(c) == progress[c] = "new" /\ \A b \in 1..(c - 1) : progress[b] # "new"
NextRequest(r) == stage[r] = "new" /\ \A q \in 1..(r - 1) : stage[q] # "new"

EventsLeft ==
    Cardinality({c \in Calls : progress[c] # "new"})
      + Cardinality({r \in Requests : stage[r] # "new"}) < NumEvents

Open == {c \in Calls : progress[c] \notin {"new", "answered"}}

AnsweredTo(toolset) ==
    {c \in Calls : progress[c] = "answered" /\ call[c].tool \in toolset}

MakeCall(c) ==
    /\ NextCall(c) /\ EventsLeft /\ Cardinality(Open) < NumOpen
    /\ \E what \in ToolCalls :
          /\ what.tool \in Tools[c]
          /\ call' = [call EXCEPT ![c] = what]
          /\ earlier' = IF what.tool \in {"start_server", "stop_server"}
                        THEN [earlier EXCEPT ![c] = AnsweredTo({"start_server", "stop_server"})]
                        ELSE earlier
    /\ progress' = [progress EXCEPT ![c] = "called"]
    /\ UNCHANGED <<servers, running, lock, held, reported, result, http>>

AnswerCall(c, res) ==
    /\ progress' = [progress EXCEPT ![c] = "answered"]
    /\ result' = [result EXCEPT ![c] = res]
    /\ UNCHANGED <<call, held, reported, earlier>>

Advance(c, where) ==
    /\ progress' = [progress EXCEPT ![c] = where]
    /\ UNCHANGED <<call, held, reported, result, earlier>>

\* The call goes on with what it got of the server that runs.
Take(c, where) ==
    /\ held' = [held EXCEPT ![c] = running]
    /\ progress' = [progress EXCEPT ![c] = where]
    /\ UNCHANGED <<call, reported, result, earlier>>

At(c, tool, where) == progress[c] = where /\ call[c].tool = tool

\* A call that is about to lock inst.mu.
Locks(c, tool, where) == At(c, tool, where) /\ lock = None

\* The specification cannot be read, or the mode is unknown.
RejectStart(c) ==
    /\ At(c, "start_server", "called")
    /\ AnswerCall(c, <<"error">>)
    /\ UNCHANGED <<servers, running, lock, http>>

\* Start builds, binds and records everything under the lock.
StartServer(c) ==
    /\ Locks(c, "start_server", "called")
    /\ IF running = 0
       THEN /\ servers' = Append(servers, NewServer(call[c].mode))
            /\ running' = Len(servers')
            /\ held' = [held EXCEPT ![c] = running']
            /\ progress' = [progress EXCEPT ![c] = "started"]
            /\ UNCHANGED <<call, reported, result, earlier>>
       ELSE /\ AnswerCall(c, <<"error">>)
            /\ UNCHANGED <<servers, running>>
    /\ UNCHANGED <<lock, http>>

\* The call will tell of the server that runs now, or of none.
Report(c, where) ==
    /\ reported' = [reported EXCEPT ![c] = @ \cup {running}]
    /\ progress' = [progress EXCEPT ![c] = where]
    /\ UNCHANGED <<call, held, earlier>>

\* Status(), after the start.
TellStarted(c) ==
    /\ Locks(c, "start_server", "started")
    /\ Report(c, "told")
    /\ UNCHANGED <<servers, running, lock, result, http>>

\* StartupEntries(), after that.
TellEndpoints(c) ==
    /\ Locks(c, "start_server", "told")
    /\ Report(c, "answered")
    /\ result' = [result EXCEPT ![c] = <<"started">>]
    /\ UNCHANGED <<servers, running, lock, http>>

\* Mutant: stop_server does not ask before.
AsksNothing(c) ==
    /\ Locks(c, "stop_server", "called")
    /\ Advance(c, "asked")
    /\ UNCHANGED <<servers, running, lock, http>>

\* Status(), before the stop.
AskStatus(c) ==
    /\ Locks(c, "stop_server", "called")
    /\ Report(c, "asked")
    /\ UNCHANGED <<servers, running, lock, result, http>>

\* The specification does not build, or the port is taken.
StartFails(c) ==
    /\ Locks(c, "start_server", "called")
    /\ running = 0
    /\ AnswerCall(c, <<"error">>)
    /\ UNCHANGED <<servers, running, lock, http>>

StopRefused(c) ==
    /\ Locks(c, "stop_server", "asked")
    /\ running = 0
    /\ AnswerCall(c, <<"error">>)
    /\ UNCHANGED <<servers, running, lock, http>>

\* Shutdown closes the listener at once, then waits.
\* Mutant: the listener stays open.
LeftOpen(server) == server

Closed(server) == [server EXCEPT !.listening = FALSE]

StopBegins(c) ==
    /\ Locks(c, "stop_server", "asked")
    /\ running # 0
    /\ lock' = c
    /\ servers' = [servers EXCEPT ![running] = Closed(@)]
    /\ Take(c, "draining")
    /\ UNCHANGED <<running, http>>

InFlight(g) ==
    {r \in Requests : /\ stage[r] \in {"accepted", "routed", "served", "logged"}
                      /\ request[r].server = g}

\* The instance is cleared whether the requests drained or the time ran out.
Clear(c, res) ==
    /\ At(c, "stop_server", "draining")
    /\ running' = 0
    /\ lock' = None
    /\ AnswerCall(c, res)
    /\ UNCHANGED <<servers, http>>

\* Mutants: no waiting, and waiting for ever.
StopAnyway(c) == Clear(c, <<"stopped">>)
NeverTimesOut(c) == FALSE

StopDrained(c) == InFlight(running) = {} /\ Clear(c, <<"stopped">>)

\* Also on a connection on which no request has arrived yet.
StopTimesOut(c) == Clear(c, <<"error">>)

\* Overrides(), ReqLog(): the call gets hold of a part of the server.
Obtain(c, tool) ==
    /\ Locks(c, tool, "called")
    /\ IF running = 0
       THEN AnswerCall(c, <<"error">>)
       ELSE Take(c, "holding")
    /\ UNCHANGED <<servers, running, lock, http>>

\* Set, under the overrides' own mutex.
SetOverride(c) ==
    /\ At(c, "request_status", "holding")
    /\ servers' = [servers EXCEPT ![held[c]].overrides[call[c].endpoint] =
                      [code |-> call[c].code, by |-> c]]
    /\ AnswerCall(c, <<"set">>)
    /\ UNCHANGED <<running, lock, http>>

ReadLog(c) ==
    /\ At(c, "get_request_log", "holding")
    /\ AnswerCall(c, <<"log">>)
    /\ UNCHANGED <<servers, running, lock, http>>

(***************************************************************************)
(* manage_state asks IsRunning, Mode, then for the store or the handler:   *)
(* three separate critical sections.                                       *)
(***************************************************************************)
Managing(c, where) == At(c, "manage_state", where) \/ At(c, "reset", where)

CheckRunning(c) ==
    /\ Managing(c, "called") /\ lock = None
    /\ IF running = 0 THEN AnswerCall(c, <<"error">>) ELSE Advance(c, "running")
    /\ UNCHANGED <<servers, running, lock, http>>

\* Mutant: the mode is not asked for.
ForgetsMode(c) ==
    /\ Managing(c, "running") /\ lock = None
    /\ Advance(c, "stateful")
    /\ UNCHANGED <<servers, running, lock, http>>

CheckMode(c) ==
    /\ Managing(c, "running") /\ lock = None
    /\ IF running # 0 /\ servers[running].mode = "stateful"
       THEN Advance(c, "stateful")
       ELSE AnswerCall(c, <<"error">>)
    /\ UNCHANGED <<servers, running, lock, http>>

\* An unknown action, or a path or a body that is missing.
RejectArguments(c) ==
    /\ At(c, "manage_state", "stateful")
    /\ AnswerCall(c, <<"error">>)
    /\ UNCHANGED <<servers, running, lock, http>>

\* httptest.NewRequest panics on a path that does not parse, and nothing in
\* the repository recovers: the process ends with the call unanswered.
PathPanics(c) ==
    /\ At(c, "manage_state", "stateful")
    /\ crashed' = TRUE
    /\ UNCHANGED live

\* Store() is nil without a server and in deterministic mode: nothing is
\* reset then, and the answer is the same.
ObtainManaged(c) ==
    /\ Managing(c, "stateful") /\ lock = None
    /\ IF call[c].tool = "reset" /\ (running = 0 \/ servers[running].mode # "stateful")
       THEN AnswerCall(c, <<"done">>)
       ELSE IF running = 0
       THEN AnswerCall(c, <<"error">>)
       ELSE Take(c, "holding")
    /\ UNCHANGED <<servers, running, lock, http>>

ResetState(c) ==
    /\ At(c, "reset", "holding")
    /\ servers' = [servers EXCEPT ![held[c]].state = {}]
    /\ AnswerCall(c, <<"done">>)
    /\ UNCHANGED <<running, lock, http>>

\* Delegated to the router itself, around override and log.
Delegate(c) ==
    /\ At(c, "manage_state", "holding")
    /\ servers' = IF servers[held[c]].mode = "stateful"
                  THEN [servers EXCEPT ![held[c]].state = @ \cup {<<"call", c>>}]
                  ELSE servers
    /\ AnswerCall(c, <<"managed", servers[held[c]].mode>>)
    /\ UNCHANGED <<running, lock, http>>

-----------------------------------------------------------------------------
(***************************************************************************)
(* HTTP requests.  net/http accepts one while the server listens.          *)
(***************************************************************************)
Accept(r) ==
    /\ NextRequest(r) /\ EventsLeft
    /\ \E g \in DOMAIN servers, e \in Endpoints, header \in Headers \cup {None} :
          /\ servers[g].listening
          /\ request' = [request EXCEPT ![r] =
                            [endpoint |-> e, header |-> header, server |-> g]]
    /\ stage' = [stage EXCEPT ![r] = "accepted"]
    /\ since' = [since EXCEPT ![r] = AnsweredTo({"request_status"})]
    /\ UNCHANGED <<servers, running, lock, tools, forced, sent>>

ServerOf(r) == servers[request[r].server]

\* Mutant: the override is read and left there.
Peeked(overrides, e) == overrides

Consumed(overrides, e) == [overrides EXCEPT ![e] = None]

\* An override replaces the header the client may have sent.
ConsumeOverride(r) ==
    /\ stage[r] = "accepted"
    /\ LET e == request[r].endpoint
           override == ServerOf(r).overrides[e]
       IN  /\ forced' = [forced EXCEPT ![r] =
                 IF override # None THEN override
                 ELSE IF request[r].header # None
                 THEN [code |-> request[r].header, by |-> None]
                 ELSE None]
           /\ servers' = [servers EXCEPT ![request[r].server].overrides = Consumed(@, e)]
    /\ stage' = [stage EXCEPT ![r] = "routed"]
    /\ UNCHANGED <<running, lock, tools, request, sent, since>>

(***************************************************************************)
(* SelectScenario, and what is sent.  "0" names the default response, so   *)
(* hasStatusCode accepts it where there is one; WriteHeader panics on what *)
(* has no three digits and the recoverer answers 500.  An informational    *)
(* status is not final: the body that follows it goes out as 200.          *)
(***************************************************************************)
Scenario(e, code) ==
    IF code = None \/ code = SuccessCode THEN SuccessCode
    ELSE IF code \in Defined[e] THEN code
    ELSE 400

Informational == (100..199) \ {101}

Sent(scenario) ==
    IF scenario \notin 100..999 THEN 500
    ELSE IF scenario \in Informational THEN 200
    ELSE scenario

ForcedCode(r) == IF forced[r] = None THEN None ELSE forced[r].code

\* Mutant: the header as it was before the override middleware.
ConsultsStateBefore(r) ==
    ServerOf(r).mode = "stateful" /\ request[r].header = None

\* The state is consulted only when no status was asked for.
ConsultsState(r) == ServerOf(r).mode = "stateful" /\ forced[r] = None

Serve(r) ==
    /\ stage[r] = "routed"
    /\ sent' = [sent EXCEPT ![r] = Sent(Scenario(request[r].endpoint, ForcedCode(r)))]
    /\ servers' = IF ConsultsState(r)
                  THEN [servers EXCEPT ![request[r].server].state = @ \cup {<<"request", r>>}]
                  ELSE servers
    /\ stage' = [stage EXCEPT ![r] = "served"]
    /\ UNCHANGED <<running, lock, tools, request, forced, since>>

\* Mutant: the log is around the override and sees the client's header only.
RecordedBefore(r) == Scenario(request[r].endpoint, request[r].header)

\* statusRecorder keeps the code of the first WriteHeader, even if it panicked.
Recorded(r) == Scenario(request[r].endpoint, ForcedCode(r))

\* Mutant: an unbounded log.
WholeLog(n, s) == s

AtMost(n, s) == SubSeq(s, 1, IF n < Len(s) THEN n ELSE Len(s))

WithEntry(server, entry) ==
    [server EXCEPT !.log = AtMost(LogCapacity, <<entry>> \o @),
                   !.recorded = Append(@, entry.request)]

RecordRequest(r) ==
    /\ stage[r] = "served"
    /\ servers' = [servers EXCEPT ![request[r].server] =
          WithEntry(@, [request |-> r, status |-> Recorded(r)])]
    /\ stage' = [stage EXCEPT ![r] = "logged"]
    /\ UNCHANGED <<running, lock, tools, request, forced, sent, since>>

\* Mutant: the answer does not wait for the log.
FinishEarly(r) ==
    /\ stage[r] \in {"served", "logged"}
    /\ stage' = [stage EXCEPT ![r] = "answered"]
    /\ UNCHANGED <<servers, running, lock, tools, request, forced, sent, since>>

\* The client has the whole answer once the outermost handler has returned.
Finish(r) ==
    /\ stage[r] = "logged"
    /\ stage' = [stage EXCEPT ![r] = "answered"]
    /\ UNCHANGED <<servers, running, lock, tools, request, forced, sent, since>>

-----------------------------------------------------------------------------
CallStep(c) ==
    /\ c \in Open
    /\ \/ StartServer(c) \/ StartFails(c)
       \/ TellStarted(c) \/ TellEndpoints(c)
       \/ AskStatus(c) \/ StopRefused(c) \/ StopBegins(c)
       \/ StopDrained(c) \/ StopTimesOut(c)
       \/ Obtain(c, "request_status") \/ SetOverride(c)
       \/ Obtain(c, "get_request_log") \/ ReadLog(c)
       \/ CheckRunning(c) \/ CheckMode(c)
       \/ RejectArguments(c) \/ ObtainManaged(c)
       \/ ResetState(c) \/ Delegate(c)

RequestStep(r) ==
    Accept(r) \/ ConsumeOverride(r) \/ Serve(r) \/ RecordRequest(r) \/ Finish(r)

Step ==
    \/ \E c \in Calls : MakeCall(c) \/ RejectStart(c) \/ CallStep(c)
    \/ \E r \in Requests : RequestStep(r)

Next ==
    /\ ~ crashed
    /\ \/ Step /\ UNCHANGED crashed
       \/ \E c \in Calls : PathPanics(c)

\* A tool call that can take a step takes it; a request may hang for ever.
Fairness == \A c \in Calls : WF_vars(~ crashed /\ CallStep(c) /\ UNCHANGED crashed)

Spec == Init /\ [][Next]_vars /\ Fairness
-----------------------------------------------------------------------------
(***************************************************************************)
(* Properties.                                                             *)
(***************************************************************************)
TypeOK ==
    /\ running \in 0..Len(servers)
    /\ lock \in Calls \cup {None}
    /\ call \in [Calls -> ToolCalls \cup {None}]
    /\ held \in [Calls -> 0..Len(servers)]
    /\ reported \in [Calls -> SUBSET (0..Len(servers))]
    /\ crashed \in BOOLEAN
    /\ \A c \in Calls : (lock = c) <=> (progress[c] = "draining")
    /\ \A r \in Requests :
          /\ stage[r] = "new" <=> request[r] = None
          /\ sent[r] # None <=> stage[r] \in {"served", "logged", "answered"}
    /\ \A g \in DOMAIN servers : Len(servers[g].log) <= LogCapacity

Overridden(r, c) == forced[r] # None /\ forced[r].by = c

(***************************************************************************)
(* request_status is one-shot and hits its target: no two requests, not    *)
(* even simultaneous ones, get the status of the same call, and the one    *)
(* that does went to the endpoint and the server the call was about.       *)
(***************************************************************************)
OneShot ==
    \A c \in Calls, r \in Requests : Overridden(r, c) =>
        /\ \A q \in Requests : Overridden(q, c) => q = r
        /\ request[r].endpoint = call[c].endpoint
        /\ request[r].server = held[c]

(***************************************************************************)
(* It is the next request that gets it: once a request that was accepted   *)
(* after request_status had answered is past the override middleware, the  *)
(* override no longer waits for a later one.                               *)
(***************************************************************************)
NextRequestOverridden ==
    \A c \in Calls, r \in Requests :
        /\ result[c] = <<"set">>
        /\ c \in since[r]
        /\ stage[r] \in {"routed", "served", "logged", "answered"}
        /\ request[r].endpoint = call[c].endpoint
        /\ request[r].server = held[c]
        => servers[held[c]].overrides[call[c].endpoint] \in
              {None} \cup [code : Codes, by : Calls \ {c}]

EntriesOf(r) ==
    {i \in DOMAIN ServerOf(r).log : ServerOf(r).log[i].request = r}

(***************************************************************************)
(* A client that has its answer finds its request in the log, once, unless *)
(* as many requests as the log holds were recorded after it: then it is    *)
(* gone.                                                                   *)
(***************************************************************************)
AnsweredIsLogged ==
    \A r \in Requests : stage[r] = "answered" =>
        LET recorded == ServerOf(r).recorded
        IN  \E i \in DOMAIN recorded :
              /\ recorded[i] = r
              /\ Cardinality(EntriesOf(r)) =
                    IF Len(recorded) - i < LogCapacity THEN 1 ELSE 0

(***************************************************************************)
(* CHANGELOG: X-Mimikos-Status "bypasses stateful logic ... no state       *)
(* mutation", also when an override put it there after the request had     *)
(* arrived without it.                                                     *)
(***************************************************************************)
SimulatedLeavesState ==
    \A g \in DOMAIN servers, r \in Requests :
        <<"request", r>> \in servers[g].state => forced[r] = None

\* At most one server is active (comment on Instance): only the instance's
\* own server listens.
SingleInstance ==
    \A g \in DOMAIN servers : servers[g].listening => running = g

(***************************************************************************)
(* When stop_server answers "stopped", no request of that server is left   *)
(* running, then or later.                                                 *)
(***************************************************************************)
CleanStopDrains ==
    \A c \in Calls : result[c] = <<"stopped">> => InFlight(held[c]) = {}

(***************************************************************************)
(* Every tool call is answered, although stop_server keeps the instance    *)
(* locked while it waits for requests that may never end; unless a path    *)
(* that does not parse has ended the process.                              *)
(***************************************************************************)
EveryCallAnswered ==
    \A c \in Calls :
        progress[c] = "called" ~> (progress[c] = "answered" \/ crashed)

(***************************************************************************)
(* Entry.StatusCode "is the HTTP status code returned" (reqlog.go), also   *)
(* when an override or a header simulated it, but for two kinds of status  *)
(* a document can name: one net/http refuses, as the 0 the router takes    *)
(* for the default response, where the client got 500; and an              *)
(* informational one, where it got 200 in the end.                         *)
(***************************************************************************)
LogTellsStatus ==
    \A g \in DOMAIN servers : \A i \in DOMAIN servers[g].log :
        LET entry == servers[g].log[i]
        IN  \/ entry.status = sent[entry.request]
            \/ entry.status \notin 100..999 /\ sent[entry.request] = 500
            \/ entry.status \in Informational /\ sent[entry.request] = 200

(***************************************************************************)
(* "manage_state requires stateful mode" (tools.go): it reaches a          *)
(* deterministic server only when that one has replaced the stateful one   *)
(* whose mode it had asked for, between two of its questions.              *)
(***************************************************************************)
ManagesOnceStateful ==
    \A c \in Calls : result[c] = <<"managed", "deterministic">> =>
        \E g \in 1..(held[c] - 1) : servers[g].mode = "stateful"

(***************************************************************************)
(* What start_server and stop_server tell is of the server they started or *)
(* stopped, although they ask for it in other critical sections (twice,    *)
(* when starting): if not, another start or stop was under way meanwhile.  *)
(***************************************************************************)
ReportsOwnServer ==
    \A c \in Calls :
        result[c] \in {<<"started">>, <<"stopped">>} /\ reported[c] # {held[c]} =>
            \E q \in Calls \ {c} :
                /\ progress[q] # "new"
                /\ call[q].tool \in {"start_server", "stop_server"}
                /\ q \notin earlier[c] /\ c \notin earlier[q]
=============================================================================
