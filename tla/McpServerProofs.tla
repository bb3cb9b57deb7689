--------------------------- MODULE McpServerProofs ---------------------------
(***************************************************************************)
(* Proofs of the safety properties of McpServer, for any number of tool    *)
(* calls, requests, endpoints and servers and any capacity of the log.     *)
(*                                                                         *)
(* Basics, the shape of the state and what a call has in its hands at each *)
(* of its steps, is inductive by itself.  Every property then has its own  *)
(* invariant, inductive relative to Basics.  Their proofs do not look at   *)
(* the actions one by one: the lemmas named ...Effect and ...Outcome say   *)
(* what a step can do to the servers, to a call and to a request, and most *)
(* actions leave alone what a property is about.                           *)
(***************************************************************************)
EXTENDS McpServer, RequestLog, FiniteSetTheorems, TLAPS

(***************************************************************************)
(* The inductive invariants.                                               *)
(***************************************************************************)
Marks == ({"request"} \X Requests) \cup ({"call"} \X Calls)
Entry == [request : Requests, status : Nat]
Override == [code : Codes \cup Headers, by : Calls \cup {None}]
Pending == [code : Codes, by : Calls]
Server ==
    [mode : Modes, listening : BOOLEAN, log : Seq(Entry), recorded : Seq(Requests),
     state : SUBSET Marks,
     overrides : [Endpoints -> Pending \cup {None}]]
Request == [endpoint : Endpoints, header : Headers \cup {None}, server : Nat]
Stages == {"new", "accepted", "routed", "served", "logged", "answered"}
Places == {"new", "called", "asked", "started", "told", "draining", "holding", "running",
           "stateful", "answered"}

\* The instance's server is the last one started.
ServersOK == servers \in Seq(Server) /\ running \in {0, Len(servers)}

CallsOK ==
    /\ lock \in Calls \cup {None}
    /\ call \in [Calls -> ToolCalls \cup {None}]
    /\ progress \in [Calls -> Places]
    /\ held \in [Calls -> 0..Len(servers)]
    /\ reported \in [Calls -> SUBSET (0..Len(servers))]
    /\ earlier \in [Calls -> SUBSET Calls]
    /\ DOMAIN result = Calls

RequestsOK ==
    /\ request \in [Requests -> Request \cup {None}]
    /\ stage \in [Requests -> Stages]
    /\ forced \in [Requests -> Override \cup {None}]
    /\ sent \in [Requests -> Nat \cup {None}]
    /\ since \in [Requests -> SUBSET Calls]
    /\ \A r \in Requests :
          /\ stage[r] = "new" <=> request[r] = None
          /\ stage[r] # "new" => request[r].server \in DOMAIN servers
          /\ stage[r] \in {"new", "accepted"} => forced[r] = None
          /\ sent[r] # None <=> stage[r] \in {"served", "logged", "answered"}

\* What a call that stands where it does has in its hands.
Standing ==
    \A c \in Calls :
        /\ lock = c <=> progress[c] = "draining"
        /\ progress[c] = "draining" =>
              /\ running # 0 /\ held[c] = running
              /\ ~servers[running].listening
        /\ progress[c] # "new" => call[c] \in ToolCalls
        /\ progress[c] \in {"started", "told", "holding"} => held[c] \in DOMAIN servers
        /\ progress[c] # "answered" => result[c] = None

Basics == ServersOK /\ CallsOK /\ RequestsOK /\ Standing

\* A server that stopped without a request in flight accepts no more.
StoppedClosed ==
    \A c \in Calls : result[c] = <<"stopped">> =>
        /\ held[c] \in DOMAIN servers
        /\ ~servers[held[c]].listening
        /\ InFlight(held[c]) = {}

\* An override that waits, or that a request got, is of an answered call.
SetBy(c, g, e) ==
    /\ result[c] = <<"set">> /\ progress[c] = "answered"
    /\ g = held[c] /\ call[c].endpoint = e

WaitingOverrides ==
    \A g \in DOMAIN servers : \A e \in Endpoints :
        LET o == servers[g].overrides[e]
        IN  o # None => o.by \in Calls /\ SetBy(o.by, g, e)

\* The override of call c does not wait at endpoint e of server g.
NotWaiting(c, g, e) ==
    LET o == servers[g].overrides[e]
    IN  o # None => o.by # c

UsedOverrides ==
    \A c \in Calls, r \in Requests : Overridden(r, c) =>
        /\ SetBy(c, request[r].server, request[r].endpoint)
        /\ \A q \in Requests : Overridden(q, c) => q = r
        /\ NotWaiting(c, request[r].server, request[r].endpoint)

SinceAnswered == \A r \in Requests : \A c \in since[r] : progress[c] = "answered"

\* Once a later request is past the middleware, the override is gone.
Passed(r) == stage[r] \in {"routed", "served", "logged", "answered"}
PassedBy ==
    \A r \in Requests : \A c \in since[r] :
        Passed(r) => NotWaiting(c, request[r].server, request[r].endpoint)

\* The log is the newest part of what was recorded, and every request is
\* recorded once, when it is past the log.
Logged(r) == stage[r] \in {"logged", "answered"}
NewestOf(g) ==
    LET log == servers[g].log
        recorded == servers[g].recorded
    IN  /\ Len(log) = IF Len(recorded) < LogCapacity THEN Len(recorded) ELSE LogCapacity
        /\ \A i \in DOMAIN log : log[i].request = recorded[Len(recorded) - i + 1]
OnceIn(g) ==
    LET recorded == servers[g].recorded
    IN  \A i, j \in DOMAIN recorded :
          /\ Logged(recorded[i]) /\ request[recorded[i]].server = g
          /\ i # j => recorded[i] # recorded[j]
IsRecorded(r) == \E i \in DOMAIN ServerOf(r).recorded : ServerOf(r).recorded[i] = r

LogOnce ==
    /\ \A g \in DOMAIN servers : NewestOf(g) /\ OnceIn(g)
    /\ \A r \in Requests : Logged(r) => IsRecorded(r)

\* The answer and the entry come from the same scenario.
ServedTells ==
    /\ \A r \in Requests : stage[r] \in {"served", "logged", "answered"} =>
          sent[r] = Sent(Recorded(r))
    /\ \A g \in DOMAIN servers : \A i \in DOMAIN servers[g].log :
          LET e == servers[g].log[i]
          IN  e.status = Recorded(e.request)

\* What is forced no longer changes once the state has been consulted.
StateMarks ==
    \A g \in DOMAIN servers, r \in Requests :
        <<"request", r>> \in servers[g].state =>
            forced[r] = None /\ stage[r] \in {"served", "logged", "answered"}

\* A call that saw a stateful server saw one at or before the one it gets.
SomeStateful(n) == \E g \in 1..n : servers[g].mode = "stateful"

Manages(c) == call[c].tool \in {"manage_state", "reset"}
ManagedCall(c) ==
    /\ progress[c] = "stateful" => SomeStateful(Len(servers)) /\ Manages(c)
    /\ progress[c] = "holding" /\ Manages(c) => SomeStateful(held[c])
    /\ result[c] = <<"managed", "deterministic">> => SomeStateful(held[c] - 1)
Managed == \A c \in Calls : ManagedCall(c)

\* q, which starts or stops the instance, overlaps with c.
Rival(c, q) ==
    /\ q # c
    /\ progress[q] # "new"
    /\ call[q].tool \in {"start_server", "stop_server"}
    /\ q \notin earlier[c] /\ c \notin earlier[q]
Disturbed(c) == \E q \in Calls : Rival(c, q)

\* Either the call still has the instance's server in its hands, or a rival
\* has changed it since.
Earlier == \A c \in Calls : \A q \in earlier[c] : progress[q] = "answered"

ReportsCall(c) ==
    /\ progress[c] \in {"started", "told", "asked", "draining"} =>
          call[c].tool \in {"start_server", "stop_server"}
    /\ progress[c] \in {"new", "called", "started"} => reported[c] = {}
    /\ progress[c] = "started" => held[c] = running \/ Disturbed(c)
    /\ progress[c] = "told" => (held[c] = running /\ reported[c] = {running}) \/ Disturbed(c)
    /\ progress[c] \in {"asked", "draining"} => reported[c] = {running} \/ Disturbed(c)
    /\ result[c] \in {<<"started">>, <<"stopped">>} => reported[c] = {held[c]} \/ Disturbed(c)
Reports == \A c \in Calls : ReportsCall(c)

-----------------------------------------------------------------------------
\* A panic ends the process and changes nothing else.
LEMMA StepOrStill == [Next]_vars => Step \/ UNCHANGED live
BY DEF Next, PathPanics, vars

(* Effects: what a step does to the servers.                               *)
\* The given fields of the servers already there are as before; others may have
\* changed; a server may have been added.
Kept(fields) ==
    /\ servers' \in Seq(Server) /\ Len(servers') >= Len(servers)
    /\ \A h \in DOMAIN servers :
          /\ "mode" \in fields => servers'[h].mode = servers[h].mode
          /\ "listening" \in fields => servers'[h].listening = servers[h].listening
          /\ "log" \in fields => /\ servers'[h].log = servers[h].log
                                 /\ servers'[h].recorded = servers[h].recorded
          /\ "state" \in fields => servers'[h].state = servers[h].state
          /\ "overrides" \in fields => servers'[h].overrides = servers[h].overrides

LEMMA Replaced ==
  ASSUME NEW s \in Seq(Server), NEW g \in DOMAIN s, NEW x \in Server
  PROVE  /\ [s EXCEPT ![g] = x] \in Seq(Server)
         /\ Len([s EXCEPT ![g] = x]) = Len(s)
         /\ \A h \in DOMAIN s : [s EXCEPT ![g] = x][h] = IF h = g THEN x ELSE s[h]
BY SMT

LEMMA Extended ==
  ASSUME NEW s \in Seq(Server), NEW x \in Server
  PROVE  /\ Append(s, x) \in Seq(Server)
         /\ Len(Append(s, x)) = Len(s) + 1
         /\ \A h \in DOMAIN s : Append(s, x)[h] = s[h]
         /\ Append(s, x)[Len(s) + 1] = x
BY SMT

LEMMA ServerFields ==
  ASSUME NEW x \in Server
  PROVE  /\ x.mode \in Modes /\ x.listening \in BOOLEAN /\ x.log \in Seq(Entry)
         /\ x.recorded \in Seq(Requests) /\ x.state \in SUBSET Marks
         /\ x.overrides \in [Endpoints -> Pending \cup {None}]
BY DEF Server

LEMMA CallFields ==
  ASSUME NEW w \in ToolCalls
  PROVE  /\ w.tool = "start_server" => w.mode \in Modes
         /\ w.tool = "request_status" => w.endpoint \in Endpoints /\ w.code \in Codes
BY DEF ToolCalls

LEMMA CloseOne ==
  ASSUME NEW x \in Server
  PROVE  /\ [x EXCEPT !.listening = FALSE] \in Server
         /\ [x EXCEPT !.listening = FALSE].listening = FALSE
         /\ [x EXCEPT !.listening = FALSE].mode = x.mode
         /\ [x EXCEPT !.listening = FALSE].log = x.log
         /\ [x EXCEPT !.listening = FALSE].recorded = x.recorded
         /\ [x EXCEPT !.listening = FALSE].state = x.state
         /\ [x EXCEPT !.listening = FALSE].overrides = x.overrides
BY DEF Server

Relogged(x, l, w) == [x EXCEPT !.log = l, !.recorded = w]

LEMMA LogOne ==
  ASSUME NEW x \in Server, NEW l \in Seq(Entry), NEW w \in Seq(Requests)
  PROVE  /\ Relogged(x, l, w) \in Server
         /\ Relogged(x, l, w).listening = x.listening
         /\ Relogged(x, l, w).mode = x.mode
         /\ Relogged(x, l, w).log = l
         /\ Relogged(x, l, w).recorded = w
         /\ Relogged(x, l, w).state = x.state
         /\ Relogged(x, l, w).overrides = x.overrides
BY DEF Relogged, Server

LEMMA MarkOne ==
  ASSUME NEW x \in Server, NEW m \in SUBSET Marks
  PROVE  /\ [x EXCEPT !.state = m] \in Server
         /\ [x EXCEPT !.state = m].listening = x.listening
         /\ [x EXCEPT !.state = m].mode = x.mode
         /\ [x EXCEPT !.state = m].log = x.log
         /\ [x EXCEPT !.state = m].recorded = x.recorded
         /\ [x EXCEPT !.state = m].state = m
         /\ [x EXCEPT !.state = m].overrides = x.overrides
BY DEF Server

LEMMA OverrideOne ==
  ASSUME NEW x \in Server, NEW o \in [Endpoints -> Pending \cup {None}]
  PROVE  /\ [x EXCEPT !.overrides = o] \in Server
         /\ [x EXCEPT !.overrides = o].listening = x.listening
         /\ [x EXCEPT !.overrides = o].mode = x.mode
         /\ [x EXCEPT !.overrides = o].log = x.log
         /\ [x EXCEPT !.overrides = o].recorded = x.recorded
         /\ [x EXCEPT !.overrides = o].state = x.state
         /\ [x EXCEPT !.overrides = o].overrides = o
BY DEF Server

LEMMA StartEffect ==
  ASSUME Basics, NEW c \in Calls, StartServer(c), running = 0
  PROVE  /\ Kept({"mode", "listening", "log", "state", "overrides"})
         /\ Len(servers') = Len(servers) + 1
         /\ running' = Len(servers')
         /\ servers'[running'] = NewServer(call[c].mode)
         /\ NewServer(call[c].mode) \in Server
<1>1. call[c].mode \in Modes
  BY CallFields DEF StartServer, Locks, At, Basics, Standing
<1>2. NewServer(call[c].mode) \in Server
  BY <1>1 DEF NewServer, Server
<1>3. servers' = Append(servers, NewServer(call[c].mode)) /\ running' = Len(servers')
  BY DEF StartServer
<1>4. /\ servers' \in Seq(Server)
      /\ Len(servers') = Len(servers) + 1
      /\ \A h \in DOMAIN servers : servers'[h] = servers[h]
      /\ servers'[Len(servers) + 1] = NewServer(call[c].mode)
  BY <1>2, <1>3, Extended DEF Basics, ServersOK
<1>5. Kept({"mode", "listening", "log", "state", "overrides"})
  BY <1>4 DEF Kept, Basics, ServersOK
<1> QED
  BY <1>2, <1>3, <1>4, <1>5

LEMMA CloseEffect ==
  ASSUME Basics, NEW c \in Calls, StopBegins(c)
  PROVE  /\ Kept({"mode", "log", "state", "overrides"})
         /\ Len(servers') = Len(servers)
         /\ servers'[running].listening = FALSE
         /\ \A h \in DOMAIN servers \ {running} :
               servers'[h].listening = servers[h].listening
<1>1. running \in DOMAIN servers /\ servers[running] \in Server
  BY DEF StopBegins, Basics, ServersOK
<1> DEFINE x == [servers[running] EXCEPT !.listening = FALSE]
<1>2. servers' = [servers EXCEPT ![running] = x]
  BY DEF StopBegins, Closed
<1>3. x \in Server /\ x.listening = FALSE /\ x.mode = servers[running].mode
      /\ x.log = servers[running].log /\ x.recorded = servers[running].recorded /\ x.state = servers[running].state
      /\ x.overrides = servers[running].overrides
  BY <1>1, CloseOne
<1> HIDE DEF x
<1>4. servers' \in Seq(Server) /\ Len(servers') = Len(servers)
      /\ \A h \in DOMAIN servers : servers'[h] = IF h = running THEN x ELSE servers[h]
  BY <1>1, <1>2, <1>3, Replaced DEF Basics, ServersOK
<1>5. Kept({"mode", "log", "state", "overrides"})
  BY <1>3, <1>4 DEF Kept, Basics, ServersOK
<1> QED BY <1>1, <1>3, <1>4, <1>5
LEMMA SetEffect ==
  ASSUME Basics, NEW c \in Calls, SetOverride(c)
  PROVE  /\ Kept({"mode", "listening", "log", "state"})
         /\ Len(servers') = Len(servers)
         /\ held[c] \in DOMAIN servers
         /\ call[c].endpoint \in Endpoints /\ call[c].code \in Codes
         /\ servers'[held[c]].overrides[call[c].endpoint] = [code |-> call[c].code, by |-> c]
         /\ \A h \in DOMAIN servers, e \in Endpoints :
               h # held[c] \/ e # call[c].endpoint =>
                  servers'[h].overrides[e] = servers[h].overrides[e]
<1> DEFINE g == held[c]
           o == [servers[g].overrides EXCEPT ![call[c].endpoint] = [code |-> call[c].code, by |-> c]]
           x == [servers[g] EXCEPT !.overrides = o]
<1>1. g \in DOMAIN servers /\ servers[g] \in Server
  BY DEF SetOverride, At, Basics, ServersOK, Standing
<1>2. call[c].endpoint \in Endpoints /\ call[c].code \in Codes
  BY CallFields DEF SetOverride, At, Basics, Standing
<1>3. servers' = [servers EXCEPT ![g] = x]
  BY DEF SetOverride
<1>4. servers[g].overrides \in [Endpoints -> Pending \cup {None}]
  BY <1>1, ServerFields
<1>5. [code |-> call[c].code, by |-> c] \in Pending
  BY <1>2 DEF Pending
<1>6. /\ o \in [Endpoints -> Pending \cup {None}]
      /\ o[call[c].endpoint] = [code |-> call[c].code, by |-> c]
      /\ \A e \in Endpoints : e # call[c].endpoint => o[e] = servers[g].overrides[e]
  BY <1>2, <1>4, <1>5
<1> HIDE DEF o
<1>7. x \in Server /\ x.listening = servers[g].listening /\ x.mode = servers[g].mode
      /\ x.log = servers[g].log /\ x.recorded = servers[g].recorded /\ x.state = servers[g].state /\ x.overrides = o
  BY <1>1, <1>6, OverrideOne
<1> HIDE DEF x
<1>8. servers' \in Seq(Server) /\ Len(servers') = Len(servers)
      /\ \A h \in DOMAIN servers : servers'[h] = IF h = g THEN x ELSE servers[h]
  BY <1>1, <1>3, <1>7, Replaced DEF Basics, ServersOK
<1>9. Kept({"mode", "listening", "log", "state"})
  BY <1>7, <1>8 DEF Kept, Basics, ServersOK
<1>10. \A h \in DOMAIN servers, e \in Endpoints :
          h # g \/ e # call[c].endpoint => servers'[h].overrides[e] = servers[h].overrides[e]
  BY <1>6, <1>7, <1>8
<1> QED BY <1>1, <1>2, <1>6, <1>7, <1>8, <1>9, <1>10

LEMMA ConsumeEffect ==
  ASSUME Basics, NEW r \in Requests, ConsumeOverride(r)
  PROVE  /\ Kept({"mode", "listening", "log", "state"})
         /\ Len(servers') = Len(servers)
         /\ request[r].server \in DOMAIN servers
         /\ request[r].endpoint \in Endpoints
         /\ servers'[request[r].server].overrides[request[r].endpoint] = None
         /\ \A h \in DOMAIN servers, e \in Endpoints :
               h # request[r].server \/ e # request[r].endpoint =>
                  servers'[h].overrides[e] = servers[h].overrides[e]
<1> DEFINE g == request[r].server
           o == [servers[g].overrides EXCEPT ![request[r].endpoint] = None]
           x == [servers[g] EXCEPT !.overrides = o]
<1>1. g \in DOMAIN servers /\ servers[g] \in Server
  BY DEF ConsumeOverride, Basics, ServersOK, RequestsOK
<1>2. request[r].endpoint \in Endpoints
  BY DEF ConsumeOverride, Basics, RequestsOK, Request
<1>3. servers' = [servers EXCEPT ![g] = x]
  BY DEF ConsumeOverride, Consumed
<1>4. servers[g].overrides \in [Endpoints -> Pending \cup {None}]
  BY <1>1, ServerFields
<1>6. /\ o \in [Endpoints -> Pending \cup {None}]
      /\ o[request[r].endpoint] = None
      /\ \A e \in Endpoints : e # request[r].endpoint => o[e] = servers[g].overrides[e]
  BY <1>2, <1>4
<1> HIDE DEF o
<1>7. x \in Server /\ x.listening = servers[g].listening /\ x.mode = servers[g].mode
      /\ x.log = servers[g].log /\ x.recorded = servers[g].recorded /\ x.state = servers[g].state /\ x.overrides = o
  BY <1>1, <1>6, OverrideOne
<1> HIDE DEF x
<1>8. servers' \in Seq(Server) /\ Len(servers') = Len(servers)
      /\ \A h \in DOMAIN servers : servers'[h] = IF h = g THEN x ELSE servers[h]
  BY <1>1, <1>3, <1>7, Replaced DEF Basics, ServersOK
<1>9. Kept({"mode", "listening", "log", "state"})
  BY <1>7, <1>8 DEF Kept, Basics, ServersOK
<1>10. \A h \in DOMAIN servers, e \in Endpoints :
          h # g \/ e # request[r].endpoint => servers'[h].overrides[e] = servers[h].overrides[e]
  BY <1>6, <1>7, <1>8
<1> QED BY <1>1, <1>2, <1>6, <1>7, <1>8, <1>9, <1>10

\* A step that leaves a mark in the state of one server, or empties it.
LEMMA MarkEffect ==
  ASSUME Basics, NEW g \in DOMAIN servers, NEW m \in SUBSET Marks,
         servers' = [servers EXCEPT ![g].state = m]
  PROVE  /\ Kept({"mode", "listening", "log", "overrides"})
         /\ Len(servers') = Len(servers)
         /\ servers'[g].state = m
         /\ \A h \in DOMAIN servers \ {g} : servers'[h].state = servers[h].state
<1> DEFINE x == [servers[g] EXCEPT !.state = m]
<1>1. servers[g] \in Server
  BY DEF Basics, ServersOK
<1>2. servers' = [servers EXCEPT ![g] = x]
  OBVIOUS
<1>3. x \in Server /\ x.listening = servers[g].listening /\ x.mode = servers[g].mode
      /\ x.log = servers[g].log /\ x.recorded = servers[g].recorded /\ x.state = m /\ x.overrides = servers[g].overrides
  BY <1>1, MarkOne
<1> HIDE DEF x
<1>4. servers' \in Seq(Server) /\ Len(servers') = Len(servers)
      /\ \A h \in DOMAIN servers : servers'[h] = IF h = g THEN x ELSE servers[h]
  <2>1. servers \in Seq(Server) /\ x \in Server
    BY <1>3 DEF Basics, ServersOK
  <2> QED BY <1>2, <2>1, Replaced
<1>5. Kept({"mode", "listening", "log", "overrides"})
  BY <1>3, <1>4 DEF Kept, Basics, ServersOK
<1> QED BY <1>1, <1>3, <1>4, <1>5

LEMMA ServeEffect ==
  ASSUME Basics, NEW r \in Requests, Serve(r)
  PROVE  /\ Kept({"mode", "listening", "log", "overrides"})
         /\ Len(servers') = Len(servers)
         /\ \A h \in DOMAIN servers :
               \/ servers'[h].state = servers[h].state
               \/ /\ forced[r] = None
                  /\ servers'[h].state = servers[h].state \cup {<<"request", r>>}
<1>1. CASE ~ConsultsState(r)
  BY <1>1 DEF Serve, Kept, Basics, ServersOK
<1>2. CASE ConsultsState(r)
  <2> DEFINE g == request[r].server
             m == servers[g].state \cup {<<"request", r>>}
  <2>1. g \in DOMAIN servers /\ servers[g] \in Server
    BY DEF Serve, Basics, ServersOK, RequestsOK
  <2>2. m \in SUBSET Marks
    BY <2>1, ServerFields DEF Marks
  <2>3. servers' = [servers EXCEPT ![g].state = m]
    BY <1>2 DEF Serve
  <2>4. forced[r] = None
    BY <1>2 DEF ConsultsState
  <2> HIDE DEF g
  <2>5. /\ Kept({"mode", "listening", "log", "overrides"})
        /\ Len(servers') = Len(servers)
        /\ servers'[g].state = m
        /\ \A h \in DOMAIN servers \ {g} : servers'[h].state = servers[h].state
    <3> HIDE DEF m
    <3> QED BY <2>1, <2>2, <2>3, MarkEffect
  <2> QED BY <2>4, <2>5
<1> QED BY <1>1, <1>2

LEMMA ManageEffect ==
  ASSUME Basics, NEW c \in Calls, ResetState(c) \/ Delegate(c)
  PROVE  /\ Kept({"mode", "listening", "log", "overrides"})
         /\ Len(servers') = Len(servers)
         /\ \A h \in DOMAIN servers :
               servers'[h].state \in {{}, servers[h].state, servers[h].state \cup {<<"call", c>>}}
<1> DEFINE g == held[c]
<1>1. g \in DOMAIN servers /\ servers[g] \in Server
  BY DEF ResetState, Delegate, At, Basics, ServersOK, Standing
<1>2. CASE UNCHANGED servers
  BY <1>2 DEF Kept, Basics, ServersOK
<1>3. CASE ResetState(c)
  <2>1. servers' = [servers EXCEPT ![g].state = {}]
    BY <1>3 DEF ResetState
  <2>2. {} \in SUBSET Marks
    OBVIOUS
  <2> HIDE DEF g
  <2>3. /\ Kept({"mode", "listening", "log", "overrides"})
        /\ Len(servers') = Len(servers)
        /\ servers'[g].state = {}
        /\ \A h \in DOMAIN servers \ {g} : servers'[h].state = servers[h].state
    BY <1>1, <2>1, <2>2, MarkEffect
  <2> QED BY <2>3
<1>4. CASE Delegate(c) /\ ~UNCHANGED servers
  <2> DEFINE m == servers[g].state \cup {<<"call", c>>}
  <2>1. m \in SUBSET Marks
    BY <1>1, ServerFields DEF Marks
  <2>2. servers' = [servers EXCEPT ![g].state = m]
    BY <1>4 DEF Delegate
  <2> HIDE DEF g
  <2>3. /\ Kept({"mode", "listening", "log", "overrides"})
        /\ Len(servers') = Len(servers)
        /\ servers'[g].state = m
        /\ \A h \in DOMAIN servers \ {g} : servers'[h].state = servers[h].state
    <3> HIDE DEF m
    <3> QED BY <1>1, <2>1, <2>2, MarkEffect
  <2> QED BY <2>3
<1> QED BY <1>2, <1>3, <1>4

LEMMA NewestEntry ==
  ASSUME NEW e \in Entry, NEW s \in Seq(Entry)
  PROVE  LET l == AtMost(LogCapacity, <<e>> \o s)
         IN
         /\ l \in Seq(Entry)
         /\ Len(l) = IF Len(s) < LogCapacity THEN Len(s) + 1 ELSE LogCapacity
         /\ l[1] = e
         /\ \A i \in DOMAIN l : i # 1 => i - 1 \in DOMAIN s /\ l[i] = s[i - 1]
<1> DEFINE w == <<e>> \o s
           l == AtMost(LogCapacity, w)
<1>1. /\ w \in Seq(Entry) /\ Len(w) = Len(s) + 1 /\ w[1] = e
      /\ \A i \in 2..(Len(s) + 1) : w[i] = s[i - 1]
  OBVIOUS
<1> HIDE DEF w
<1> DEFINE n == IF LogCapacity < Len(w) THEN LogCapacity ELSE Len(w)
<1>2. l = SubSeq(w, 1, n)
  BY DEF AtMost
<1>3. n \in 1..Len(w) /\ n = IF Len(s) < LogCapacity THEN Len(s) + 1 ELSE LogCapacity
  BY <1>1, LogCapacityAssumption
<1> HIDE DEF n, l
<1>4. l \in Seq(Entry) /\ Len(l) = n /\ \A i \in 1..n : l[i] = w[i]
  <2>1. SubSeq(w, 1, n) \in Seq(Entry) /\ Len(SubSeq(w, 1, n)) = n
        /\ \A i \in 1..n : SubSeq(w, 1, n)[i] = w[i]
    BY <1>1, <1>3
  <2> QED BY <1>2, <2>1
<1>5. DOMAIN l = 1..n /\ DOMAIN s = 1..Len(s)
  BY <1>4
<1>6. \A i \in 1..n : i # 1 => i - 1 \in DOMAIN s /\ l[i] = s[i - 1]
  <2> SUFFICES ASSUME NEW i \in 1..n, i # 1
               PROVE  i - 1 \in DOMAIN s /\ l[i] = s[i - 1]
    OBVIOUS
  <2>1. n <= Len(s) + 1 /\ Len(s) \in Nat
    BY <1>1, <1>3
  <2>2. i \in 2..(Len(s) + 1) /\ i - 1 \in 1..Len(s)
    BY <1>3, <2>1
  <2> QED BY <1>1, <1>4, <1>5, <2>2
<1>7. l[1] = e
  BY <1>1, <1>3, <1>4
<1> QED BY <1>3, <1>4, <1>5, <1>6, <1>7, Zenon DEF l, w

LEMMA CodeOrNot ==
  ASSUME Basics, NEW r \in Requests
  PROVE  /\ ForcedCode(r) \in Codes \cup Headers \cup {None}
         /\ Recorded(r) \in Nat
         /\ Sent(Recorded(r)) \in Nat
<1>1. ForcedCode(r) \in Codes \cup Headers \cup {None}
  BY DEF ForcedCode, Basics, RequestsOK, Override
<1>2. Recorded(r) \in Nat
  BY <1>1, CodesAssumption DEF Recorded, Scenario, SuccessCode
<1> QED BY <1>1, <1>2 DEF Sent

LEMMA RecordEffect ==
  ASSUME Basics, NEW r \in Requests, RecordRequest(r)
  PROVE  LET g == request[r].server
             l == servers'[g].log
             s == servers[g].log
         IN  /\ Kept({"mode", "listening", "state", "overrides"})
             /\ Len(servers') = Len(servers)
             /\ g \in DOMAIN servers
             /\ \A h \in DOMAIN servers \ {g} : /\ servers'[h].log = servers[h].log
                                                 /\ servers'[h].recorded = servers[h].recorded
             /\ servers'[g].recorded = Append(servers[g].recorded, r)
             /\ Len(l) = IF Len(s) < LogCapacity THEN Len(s) + 1 ELSE LogCapacity
             /\ l[1] = [request |-> r, status |-> Recorded(r)]
             /\ \A i \in DOMAIN l : i # 1 => i - 1 \in DOMAIN s /\ l[i] = s[i - 1]
             /\ s \in Seq(Entry)
<1> DEFINE g == request[r].server
           e == [request |-> r, status |-> Recorded(r)]
           s == servers[g].log
           l == AtMost(LogCapacity, <<e>> \o s)
           w == Append(servers[g].recorded, r)
           x == Relogged(servers[g], l, w)
<1>1. g \in DOMAIN servers /\ servers[g] \in Server
  BY DEF RecordRequest, Basics, ServersOK, RequestsOK
<1>2. s \in Seq(Entry) /\ w \in Seq(Requests)
  BY <1>1, ServerFields
<1>3. e \in Entry
  BY CodeOrNot DEF Entry
<1>4. servers' = [servers EXCEPT ![g] = x]
  <2>1. servers' = [servers EXCEPT ![g] = WithEntry(servers[g], e)]
    BY DEF RecordRequest
  <2>2. WithEntry(servers[g], e) = x
    BY DEF WithEntry, Relogged
  <2> QED BY <2>1, <2>2
<1> HIDE DEF e, g
<1> HIDE DEF s, w
<1>5. /\ l \in Seq(Entry)
      /\ Len(l) = IF Len(s) < LogCapacity THEN Len(s) + 1 ELSE LogCapacity
      /\ l[1] = e
      /\ \A i \in DOMAIN l : i # 1 => i - 1 \in DOMAIN s /\ l[i] = s[i - 1]
  BY <1>2, <1>3, NewestEntry
<1> HIDE DEF l
<1>6. x \in Server /\ x.listening = servers[g].listening /\ x.mode = servers[g].mode
      /\ x.log = l /\ x.recorded = w /\ x.state = servers[g].state /\ x.overrides = servers[g].overrides
  <2>1. l \in Seq(Entry) /\ w \in Seq(Requests) /\ servers[g] \in Server
    BY <1>1, <1>2, <1>5
  <2>2. \A y \in Server : Relogged(y, l, w) \in Server
          /\ Relogged(y, l, w).listening = y.listening /\ Relogged(y, l, w).mode = y.mode
          /\ Relogged(y, l, w).log = l /\ Relogged(y, l, w).recorded = w
          /\ Relogged(y, l, w).state = y.state /\ Relogged(y, l, w).overrides = y.overrides
    BY <2>1, LogOne
  <2> QED BY <2>1, <2>2
<1> HIDE DEF x
<1>7. servers' \in Seq(Server) /\ Len(servers') = Len(servers)
      /\ \A h \in DOMAIN servers : servers'[h] = IF h = g THEN x ELSE servers[h]
  BY <1>1, <1>4, <1>6, Replaced DEF Basics, ServersOK
<1>8. Kept({"mode", "listening", "state", "overrides"})
  BY <1>6, <1>7 DEF Kept, Basics, ServersOK
<1>9. /\ servers'[g].log = l /\ servers'[g].recorded = w
      /\ \A h \in DOMAIN servers \ {g} : /\ servers'[h].log = servers[h].log
                                          /\ servers'[h].recorded = servers[h].recorded
  BY <1>1, <1>6, <1>7
<1> QED BY <1>1, <1>2, <1>5, <1>7, <1>8, <1>9 DEF e, g, s, w

-----------------------------------------------------------------------------
(* The steps of a call by what they do. *)
Elsewhere == UNCHANGED <<servers, running, lock, http>>

Dismissed(c) ==
    /\ progress[c] \in Places \ {"new", "draining", "answered"}
    /\ \E res \in {<<"error">>, <<"log">>, <<"done">>} : AnswerCall(c, res)
    /\ Elsewhere

Obtained(c) ==
    /\ lock = None /\ running # 0
    /\ \/ progress[c] = "called" /\ call[c].tool \in {"request_status", "get_request_log"}
       \/ Managing(c, "stateful")
    /\ Take(c, "holding")
    /\ Elsewhere

Moved(c) ==
    /\ \/ Managing(c, "called") /\ Advance(c, "running")
       \/ /\ Managing(c, "running") /\ Advance(c, "stateful")
          /\ running # 0 /\ servers[running].mode = "stateful"
    /\ Elsewhere

CallKinds(c) ==
    \/ Dismissed(c) \/ Obtained(c) \/ Moved(c)
    \/ StartServer(c) /\ running = 0
    \/ TellStarted(c) \/ TellEndpoints(c) \/ AskStatus(c)
    \/ StopBegins(c) \/ StopDrained(c) \/ StopTimesOut(c)
    \/ SetOverride(c) \/ ResetState(c) \/ Delegate(c)

LEMMA StepKinds ==
  ASSUME Basics, Step
  PROVE  \/ \E c \in Calls : MakeCall(c) \/ CallKinds(c)
         \/ \E r \in Requests : RequestStep(r)
<1> SUFFICES ASSUME NEW c \in Calls, RejectStart(c) \/ CallStep(c)
             PROVE  CallKinds(c)
  BY DEF Step
<1>1. progress[c] \in Places
  BY DEF Basics, CallsOK
<1>2. CASE RejectStart(c)
  BY <1>1, <1>2 DEF RejectStart, At, CallKinds, Dismissed, Elsewhere, Places
<1>3. CASE StartServer(c)
  BY <1>1, <1>3 DEF StartServer, Locks, At, CallKinds, Dismissed, Elsewhere, Places, http
<1>4. CASE StartFails(c) \/ StopRefused(c) \/ ReadLog(c) \/ RejectArguments(c)
  BY <1>1, <1>4 DEF StartFails, StopRefused, ReadLog, RejectArguments, Locks, At,
     CallKinds, Dismissed, Elsewhere, Places
<1>5. CASE Obtain(c, "request_status") \/ Obtain(c, "get_request_log")
  BY <1>1, <1>5 DEF Obtain, Locks, At, CallKinds, Dismissed, Obtained, Elsewhere, Places
<1>6. CASE CheckRunning(c) \/ CheckMode(c)
  BY <1>1, <1>6 DEF CheckRunning, CheckMode, Managing, At, CallKinds, Dismissed, Moved,
     Elsewhere, Places
<1>7. CASE ObtainManaged(c)
  BY <1>1, <1>7 DEF ObtainManaged, Managing, At, CallKinds, Dismissed, Obtained,
     Elsewhere, Places
<1> QED
  BY <1>2, <1>3, <1>4, <1>5, <1>6, <1>7 DEF CallStep, CallKinds

-----------------------------------------------------------------------------
(* Basics is inductive. *)
LEMMA Unmoved ==
  ASSUME Basics, UNCHANGED servers
  PROVE  Kept({"mode", "listening", "log", "state", "overrides"}) /\ Len(servers') = Len(servers)
BY DEF Kept, Basics, ServersOK

LEMMA ServersStep ==
  ASSUME Basics, Step
  PROVE  ServersOK' /\ Kept({"mode"})
<1>1. ASSUME NEW c \in Calls,
             MakeCall(c) \/ Dismissed(c) \/ Obtained(c) \/ Moved(c) \/ TellStarted(c) \/ TellEndpoints(c) \/ AskStatus(c)
      PROVE  ServersOK' /\ Kept({"mode"})
  <2>1. UNCHANGED <<servers, running>>
    BY <1>1 DEF MakeCall, Dismissed, Obtained, Moved, TellStarted, TellEndpoints, AskStatus, Elsewhere
  <2> QED BY <2>1, Unmoved DEF Kept, Basics, ServersOK
<1>2. ASSUME NEW c \in Calls, StopDrained(c) \/ StopTimesOut(c)
      PROVE  ServersOK' /\ Kept({"mode"})
  <2>1. UNCHANGED servers /\ running' = 0
    BY <1>2 DEF StopDrained, StopTimesOut, Clear
  <2> QED BY <2>1, Unmoved DEF Kept, Basics, ServersOK
<1>3. ASSUME NEW c \in Calls, StartServer(c), running = 0
      PROVE  ServersOK' /\ Kept({"mode"})
  BY <1>3, StartEffect DEF Kept, ServersOK
<1>4. ASSUME NEW c \in Calls, StopBegins(c)
      PROVE  ServersOK' /\ Kept({"mode"})
  <2>1. running' = running
    BY <1>4 DEF StopBegins
  <2> QED BY <1>4, <2>1, CloseEffect DEF Kept, Basics, ServersOK
<1>5. ASSUME NEW c \in Calls, SetOverride(c) \/ ResetState(c) \/ Delegate(c)
      PROVE  ServersOK' /\ Kept({"mode"})
  <2>1. running' = running
    BY <1>5 DEF SetOverride, ResetState, Delegate
  <2> QED BY <1>5, <2>1, SetEffect, ManageEffect DEF Kept, Basics, ServersOK
<1>6. ASSUME NEW r \in Requests, RequestStep(r)
      PROVE  ServersOK' /\ Kept({"mode"})
  <2>1. running' = running
    BY <1>6 DEF RequestStep, Accept, ConsumeOverride, Serve, RecordRequest, Finish
  <2>2. CASE Accept(r) \/ Finish(r)
    BY <2>1, <2>2, Unmoved DEF Accept, Finish, Kept, Basics, ServersOK
  <2>3. CASE ConsumeOverride(r)
    BY <2>1, <2>3, ConsumeEffect DEF Kept, Basics, ServersOK
  <2>4. CASE Serve(r)
    BY <2>1, <2>4, ServeEffect DEF Kept, Basics, ServersOK
  <2>5. CASE RecordRequest(r)
    BY <2>1, <2>5, RecordEffect DEF Kept, Basics, ServersOK
  <2> QED BY <1>6, <2>2, <2>3, <2>4, <2>5 DEF RequestStep
<1> QED
  BY <1>1, <1>2, <1>3, <1>4, <1>5, <1>6, StepKinds DEF CallKinds

LEMMA CallsStep ==
  ASSUME Basics, Step
  PROVE  CallsOK'
<1>1. Len(servers') \in Nat /\ Len(servers) \in Nat /\ Len(servers') >= Len(servers)
  BY ServersStep DEF Kept, Basics, ServersOK
<1>2. /\ running \in 0..Len(servers') /\ running \in Nat /\ running' \in 0..Len(servers')
      /\ held \in [Calls -> 0..Len(servers')]
      /\ reported \in [Calls -> SUBSET (0..Len(servers'))]
  BY <1>1, ServersStep DEF Basics, ServersOK, CallsOK
<1>3. ASSUME NEW c \in Calls, MakeCall(c)
      PROVE  CallsOK'
  BY <1>2, <1>3 DEF MakeCall, AnsweredTo, Basics, CallsOK, Places
<1>4. ASSUME NEW c \in Calls, Dismissed(c)
      PROVE  CallsOK'
  BY <1>2, <1>4 DEF Dismissed, Elsewhere, AnswerCall, Basics, CallsOK, Places
<1>9. ASSUME NEW c \in Calls, Obtained(c) \/ Moved(c)
      PROVE  CallsOK'
  <2>1. CASE Obtained(c)
    BY <1>2, <2>1 DEF Obtained, Elsewhere, Take, Advance, Basics, CallsOK, Places
  <2>2. CASE Moved(c)
    BY <1>2, <2>2 DEF Moved, Elsewhere, Take, Advance, Basics, CallsOK, Places
  <2> QED BY <1>9, <2>1, <2>2
<1>10. ASSUME NEW c \in Calls, TellStarted(c) \/ TellEndpoints(c) \/ AskStatus(c)
      PROVE  CallsOK'
  <2>1. \E n \in 0..Len(servers') : reported' = [reported EXCEPT ![c] = @ \cup {n}]
    BY <1>2, <1>10 DEF TellStarted, TellEndpoints, AskStatus, Report
  <2>2. reported' \in [Calls -> SUBSET (0..Len(servers'))]
    BY <1>2, <2>1
  <2> QED BY <1>2, <1>10, <2>2 DEF TellStarted, TellEndpoints, AskStatus, Report, Basics, CallsOK, Places
<1>5. ASSUME NEW c \in Calls, StartServer(c), running = 0
      PROVE  CallsOK'
  BY <1>1, <1>2, <1>5 DEF StartServer, Basics, CallsOK, Places
<1>6. ASSUME NEW c \in Calls, StopBegins(c)
      PROVE  CallsOK'
  BY <1>2, <1>6 DEF StopBegins, Take, Basics, CallsOK, Places
<1>11. ASSUME NEW c \in Calls, StopDrained(c) \/ StopTimesOut(c)
      PROVE  CallsOK'
  BY <1>2, <1>11 DEF StopDrained, StopTimesOut, Clear, AnswerCall, Basics, CallsOK, Places
<1>7. ASSUME NEW c \in Calls, SetOverride(c) \/ ResetState(c) \/ Delegate(c)
      PROVE  CallsOK'
  BY <1>2, <1>7 DEF SetOverride, ResetState, Delegate, AnswerCall, Basics, CallsOK, Places
<1>8. ASSUME NEW r \in Requests, RequestStep(r)
      PROVE  CallsOK'
  BY <1>2, <1>8 DEF RequestStep, Accept, ConsumeOverride, Serve, RecordRequest, Finish, tools,
     Basics, CallsOK
<1> QED
  BY <1>3, <1>4, <1>5, <1>6, <1>7, <1>8, <1>9, <1>10, <1>11, StepKinds DEF CallKinds

LEMMA CallsAreNumbers == Calls \subseteq Nat /\ None \notin Calls
BY NumbersAssumption, NoneAssumption DEF Calls

LEMMA RequestsStep ==
  ASSUME Basics, Step
  PROVE  RequestsOK'
<1>1. \A g \in DOMAIN servers : g \in DOMAIN servers'
  BY ServersStep DEF Kept, Basics, ServersOK
<1>2. ASSUME UNCHANGED http
      PROVE  RequestsOK'
  BY <1>1, <1>2 DEF http, Basics, RequestsOK
<1>3. ASSUME NEW c \in Calls, MakeCall(c) \/ CallKinds(c)
      PROVE  RequestsOK'
  <2>1. UNCHANGED http
    BY <1>3 DEF MakeCall, CallKinds, Dismissed, Obtained, Moved, Elsewhere, StartServer,
       TellStarted, TellEndpoints, AskStatus, StopBegins, StopDrained, StopTimesOut, Clear,
       SetOverride, ResetState, Delegate
  <2> QED BY <1>2, <2>1
<1>4. ASSUME NEW r \in Requests, Accept(r)
      PROVE  RequestsOK'
  <2>1. PICK g \in DOMAIN servers, e \in Endpoints, header \in Headers \cup {None} :
           request' = [request EXCEPT ![r] = [endpoint |-> e, header |-> header, server |-> g]]
    BY <1>4 DEF Accept
  <2> DEFINE new == [endpoint |-> e, header |-> header, server |-> g]
  <2>2. g \in Nat
    BY DEF Basics, ServersOK
  <2>3. new \in Request /\ new.server = g
    BY <2>2 DEF Request
  <2>4. new # None
    <3>1. new \in [endpoint : Endpoints, header : Nat \cup {None}, server : Nat]
      BY <2>2, CodesAssumption
    <3> HIDE DEF new
    <3> QED BY <3>1, NoneAssumption
  <2>5. AnsweredTo({"request_status"}) \in SUBSET Calls
    BY DEF AnsweredTo
  <2>6. request' = [request EXCEPT ![r] = new]
    BY <2>1
  <2> HIDE DEF new
  <2> QED
    BY <1>1, <1>4, <2>3, <2>4, <2>5, <2>6 DEF Accept, NextRequest, Basics, RequestsOK, Stages
<1>5. ASSUME NEW r \in Requests, ConsumeOverride(r)
      PROVE  RequestsOK'
  <2>1. /\ stage[r] = "accepted" /\ stage' = [stage EXCEPT ![r] = "routed"]
        /\ UNCHANGED <<request, sent, since>>
    BY <1>5 DEF ConsumeOverride
  <2>2. request[r] \in Request /\ request[r].server \in DOMAIN servers
    BY <2>1 DEF Basics, RequestsOK
  <2>3. ServerOf(r).overrides[request[r].endpoint] \in Override \cup {None}
    BY <2>2, ServerFields DEF ServerOf, Basics, ServersOK, Request, Pending, Override
  <2>4. request[r].header # None => [code |-> request[r].header, by |-> None] \in Override
    BY <2>2 DEF Request, Override
  <2>5. forced'[r] \in Override \cup {None} /\ \E f : forced' = [forced EXCEPT ![r] = f]
    BY <1>5, <2>3, <2>4 DEF ConsumeOverride, Basics, RequestsOK
  <2> QED
    BY <1>1, <2>1, <2>5 DEF Basics, RequestsOK, Stages
<1>6. ASSUME NEW r \in Requests, Serve(r)
      PROVE  RequestsOK'
  <2>1. Sent(Scenario(request[r].endpoint, ForcedCode(r))) \in Nat
    BY CodeOrNot DEF Recorded
  <2>2. None \notin Nat
    BY NoneAssumption
  <2> QED
    BY <1>1, <1>6, <2>1, <2>2 DEF Serve, Basics, RequestsOK, Stages
<1>7. ASSUME NEW r \in Requests, RecordRequest(r) \/ Finish(r)
      PROVE  RequestsOK'
  BY <1>1, <1>7 DEF RecordRequest, Finish, Basics, RequestsOK, Stages
<1> QED
  BY <1>3, <1>4, <1>5, <1>6, <1>7, StepKinds DEF RequestStep

LEMMA StandingStep ==
  ASSUME Basics, Step
  PROVE  Standing'
<1>1. \A g \in DOMAIN servers : g \in DOMAIN servers'
  BY ServersStep DEF Kept, Basics, ServersOK
<1>2. ASSUME NEW c \in Calls, MakeCall(c)
      PROVE  Standing'
  BY <1>2 DEF MakeCall, NextCall, Basics, CallsOK, Standing
<1>3. ASSUME NEW c \in Calls, Dismissed(c)
      PROVE  Standing'
  BY <1>3 DEF Dismissed, Elsewhere, AnswerCall, Basics, CallsOK, Standing
<1>4. ASSUME NEW c \in Calls, Obtained(c) \/ Moved(c)
      PROVE  Standing'
  BY <1>4 DEF Obtained, Moved, Managing, At, Elsewhere, Take, Advance, Basics, ServersOK,
     CallsOK, Standing
<1>5. ASSUME NEW c \in Calls, TellStarted(c) \/ TellEndpoints(c) \/ AskStatus(c)
      PROVE  Standing'
  BY <1>5 DEF TellStarted, TellEndpoints, AskStatus, Locks, At, Report, Basics, CallsOK, Standing
<1>6. ASSUME NEW c \in Calls, StartServer(c), running = 0
      PROVE  Standing'
  <2>1. running' \in DOMAIN servers'
    BY <1>6, ServersStep, StartEffect DEF Basics, ServersOK
  <2> QED
    BY <1>1, <1>6, <2>1, CallsAreNumbers DEF StartServer, Locks, At, Basics, CallsOK, Standing
<1>7. ASSUME NEW c \in Calls, StopBegins(c)
      PROVE  Standing'
  <2>1. /\ lock = None /\ lock' = c /\ running' = running /\ running \in DOMAIN servers
        /\ progress' = [progress EXCEPT ![c] = "draining"] /\ progress[c] = "asked"
        /\ held' = [held EXCEPT ![c] = running] /\ UNCHANGED <<call, result>>
    BY <1>7 DEF StopBegins, Locks, At, Take, Basics, ServersOK
  <2>2. ~servers'[running].listening
    BY <1>7, CloseEffect
  <2>3. /\ \A d \in Calls \ {c} : progress[d] # "draining" /\ progress'[d] = progress[d]
              /\ held'[d] = held[d]
        /\ progress'[c] = "draining" /\ held'[c] = running /\ progress[c] # "answered"
        /\ progress[c] # "new"
    BY <2>1, CallsAreNumbers DEF Basics, CallsOK, Standing
  <2>4. running' # 0
    BY <2>1 DEF Basics, ServersOK
  <2> QED
    BY <1>1, <2>1, <2>2, <2>3, <2>4, CallsAreNumbers DEF Basics, Standing
<1>8. ASSUME NEW c \in Calls, StopDrained(c) \/ StopTimesOut(c)
      PROVE  Standing'
  BY <1>8, CallsAreNumbers DEF StopDrained, StopTimesOut, Clear, At, AnswerCall, Basics,
     CallsOK, Standing
<1>9. ASSUME Kept({"listening"}), UNCHANGED <<running, lock, call, held>>,
             \/ UNCHANGED <<progress, result>>
             \/ \E c \in Calls : /\ progress[c] = "holding"
                               /\ progress' = [progress EXCEPT ![c] = "answered"]
                               /\ \E res : result' = [result EXCEPT ![c] = res]
      PROVE  Standing'
  <2>1. \A g \in DOMAIN servers : servers'[g].listening = servers[g].listening
    BY <1>9 DEF Kept
  <2>2. running # 0 => running \in DOMAIN servers
    BY DEF Basics, ServersOK
  <2>3. CASE UNCHANGED <<progress, result>>
    BY <1>1, <1>9, <2>1, <2>2, <2>3 DEF Basics, Standing
  <2>4. ASSUME NEW c \in Calls, progress[c] = "holding",
               progress' = [progress EXCEPT ![c] = "answered"],
               NEW res, result' = [result EXCEPT ![c] = res]
        PROVE  Standing'
    BY <1>1, <1>9, <2>1, <2>2, <2>4 DEF Basics, CallsOK, Standing
  <2> QED BY <1>9, <2>3, <2>4
<1>10. ASSUME NEW c \in Calls, SetOverride(c) \/ ResetState(c) \/ Delegate(c)
       PROVE  Standing'
  <2>1. Kept({"listening"})
    BY <1>10, SetEffect, ManageEffect DEF Kept
  <2>2. /\ UNCHANGED <<running, lock, call, held>> /\ progress[c] = "holding"
        /\ progress' = [progress EXCEPT ![c] = "answered"]
        /\ \E res : result' = [result EXCEPT ![c] = res]
    BY <1>10 DEF SetOverride, ResetState, Delegate, At, AnswerCall
  <2> QED BY <1>9, <2>1, <2>2
<1>11. ASSUME NEW r \in Requests, RequestStep(r)
       PROVE  Standing'
  <2>1. Kept({"listening"})
    BY <1>11, Unmoved, ConsumeEffect, ServeEffect, RecordEffect
       DEF RequestStep, Accept, Finish, Kept
  <2>2. UNCHANGED <<running, lock, tools>>
    BY <1>11 DEF RequestStep, Accept, ConsumeOverride, Serve, RecordRequest, Finish
  <2> QED BY <1>9, <2>1, <2>2 DEF tools
<1> QED
  BY <1>2, <1>3, <1>4, <1>5, <1>6, <1>7, <1>8, <1>10, <1>11, StepKinds DEF CallKinds

LEMMA BasicsInit == Init => Basics
<1> SUFFICES ASSUME Init PROVE Basics
  OBVIOUS
<1>1. ServersOK
  BY DEF Init, ServersOK
<1>2. CallsOK
  BY DEF Init, CallsOK, Places
<1>3. RequestsOK
  BY DEF Init, RequestsOK, Stages
<1>4. Standing
  BY CallsAreNumbers DEF Init, Standing
<1> QED BY <1>1, <1>2, <1>3, <1>4 DEF Basics

LEMMA BasicsStep == Basics /\ [Next]_vars => Basics'
<1>1. ASSUME Basics, Step PROVE Basics'
  BY <1>1, ServersStep, CallsStep, RequestsStep, StandingStep DEF Basics
<1>2. ASSUME Basics, UNCHANGED live PROVE Basics'
  BY <1>2 DEF live, http, tools, Basics, ServersOK, CallsOK, RequestsOK, Standing
<1> QED BY StepOrStill, <1>1, <1>2

\* The shape of the state, and what a call holds at each of its steps.
THEOREM BasicsTheorem == Spec => []Basics
BY BasicsInit, BasicsStep, PTL DEF Spec

-----------------------------------------------------------------------------
(* What a step may do to a call, to the servers and to a request. *)
Frozen(c) ==
    /\ result'[c] = result[c] /\ held'[c] = held[c] /\ call'[c] = call[c]
    /\ reported'[c] = reported[c] /\ earlier'[c] = earlier[c] /\ progress'[c] = progress[c]

LEMMA ResultsDiffer ==
  /\ \A m : <<"managed", m>> \notin {<<"error">>, <<"log">>, <<"done">>, <<"set">>, <<"started">>, <<"stopped">>}
  /\ {<<"error">>, <<"log">>, <<"done">>} \cap {<<"set">>, <<"started">>, <<"stopped">>} = {}
  /\ <<"set">> # <<"started">> /\ <<"set">> # <<"stopped">> /\ <<"started">> # <<"stopped">>
  /\ None \notin {<<"set">>, <<"started">>, <<"stopped">>}
  /\ \A m \in Modes : None # <<"managed", m>>
BY NoneAssumption

LEMMA ActingCall ==
  ASSUME Basics, Step, NEW d \in Calls
  PROVE  Frozen(d) \/ MakeCall(d) \/ CallKinds(d)
<1>1. ASSUME NEW c \in Calls, MakeCall(c) \/ CallKinds(c), c # d
      PROVE  Frozen(d)
  <2>1. CASE MakeCall(c)
    BY <1>1, <2>1 DEF MakeCall, Frozen, Basics, CallsOK
  <2>2. CASE Dismissed(c) \/ Obtained(c) \/ Moved(c)
    BY <1>1, <2>2 DEF Dismissed, Obtained, Moved, AnswerCall, Take, Advance, Frozen, Basics, CallsOK
  <2>3. CASE StartServer(c) /\ running = 0
    BY <1>1, <2>3 DEF StartServer, Frozen, Basics, CallsOK
  <2>4. CASE TellStarted(c) \/ TellEndpoints(c) \/ AskStatus(c)
    BY <1>1, <2>4 DEF TellStarted, TellEndpoints, AskStatus, Report, Frozen, Basics, CallsOK
  <2>5. CASE StopBegins(c) \/ StopDrained(c) \/ StopTimesOut(c)
    BY <1>1, <2>5 DEF StopBegins, StopDrained, StopTimesOut, Clear, AnswerCall, Take, Frozen,
       Basics, CallsOK
  <2>6. CASE SetOverride(c) \/ ResetState(c) \/ Delegate(c)
    BY <1>1, <2>6 DEF SetOverride, ResetState, Delegate, AnswerCall, Frozen, Basics, CallsOK
  <2> QED BY <1>1, <2>1, <2>2, <2>3, <2>4, <2>5, <2>6 DEF CallKinds
<1>2. ASSUME NEW r \in Requests, RequestStep(r)
      PROVE  Frozen(d)
  BY <1>2 DEF RequestStep, Accept, ConsumeOverride, Serve, RecordRequest, Finish, tools, Frozen
<1> QED
  BY <1>1, <1>2, StepKinds

LEMMA CallOutcome ==
  ASSUME Basics, Step, NEW d \in Calls
  PROVE  \/ Frozen(d)
         \/ /\ progress[d] # "answered"
            /\ \/ result'[d] \in {result[d], <<"error">>, <<"log">>, <<"done">>}
               \/ TellEndpoints(d) /\ result'[d] = <<"started">>
               \/ StopDrained(d) /\ result'[d] = <<"stopped">>
               \/ SetOverride(d) /\ result'[d] = <<"set">>
               \/ Delegate(d) /\ result'[d] = <<"managed", servers[held[d]].mode>>
<1>3. ASSUME MakeCall(d) \/ CallKinds(d)
      PROVE  progress[d] # "answered"
  BY <1>3 DEF MakeCall, NextCall, CallKinds, Dismissed, Obtained, Moved, StartServer, TellStarted, TellEndpoints,
     AskStatus, StopBegins, StopDrained, StopTimesOut, Clear, SetOverride, ResetState, Delegate,
     Managing, Locks, At
<1>4. CASE \/ MakeCall(d) \/ Obtained(d) \/ Moved(d) \/ TellStarted(d) \/ AskStatus(d) \/ StopBegins(d)
           \/ StartServer(d) /\ running = 0
  BY <1>3, <1>4 DEF MakeCall, Obtained, Moved, StartServer, TellStarted, Report, AskStatus, StopBegins, Take, Advance,
     CallKinds
<1>5. CASE Dismissed(d) \/ StopTimesOut(d) \/ ResetState(d)
  BY <1>3, <1>5 DEF Dismissed, StopTimesOut, ResetState, Clear, AnswerCall, CallKinds, Basics, CallsOK
<1>6. CASE TellEndpoints(d) \/ StopDrained(d) \/ SetOverride(d) \/ Delegate(d)
  BY <1>3, <1>6 DEF TellEndpoints, Report, StopDrained, SetOverride, Delegate, Clear, AnswerCall, CallKinds,
     Basics, CallsOK
<1>7. CASE MakeCall(d) \/ CallKinds(d)
  BY <1>3, <1>4, <1>5, <1>6, <1>7 DEF CallKinds
<1> QED
  BY <1>7, ActingCall

LEMMA ServersOutcome ==
  ASSUME Basics, Step
  PROVE  /\ \A h \in DOMAIN servers : servers'[h].listening => servers[h].listening
         /\ \/ Len(servers') = Len(servers) /\ running' = running
            \/ /\ UNCHANGED servers /\ running' = 0
               /\ running # 0 /\ ~servers[running].listening
            \/ running = 0 /\ Len(servers') = Len(servers) + 1 /\ running' = Len(servers')
<1>1. ASSUME NEW c \in Calls, MakeCall(c) \/ Dismissed(c) \/ Obtained(c) \/ Moved(c)
             \/ TellStarted(c) \/ TellEndpoints(c) \/ AskStatus(c)
      PROVE  UNCHANGED <<servers, running>>
  BY <1>1 DEF MakeCall, Dismissed, Obtained, Moved, Elsewhere, TellStarted, TellEndpoints, AskStatus
<1>2. ASSUME NEW c \in Calls, StartServer(c), running = 0
      PROVE  /\ \A h \in DOMAIN servers : servers'[h].listening => servers[h].listening
             /\ Len(servers') = Len(servers) + 1 /\ running' = Len(servers')
  BY <1>2, StartEffect DEF Kept
<1>3. ASSUME NEW c \in Calls, StopBegins(c)
      PROVE  /\ \A h \in DOMAIN servers : servers'[h].listening => servers[h].listening
             /\ Len(servers') = Len(servers) /\ running' = running
  BY <1>3, CloseEffect DEF StopBegins
<1>4. ASSUME NEW c \in Calls, StopDrained(c) \/ StopTimesOut(c)
      PROVE  /\ UNCHANGED servers /\ running' = 0
             /\ running # 0 /\ ~servers[running].listening
  BY <1>4 DEF StopDrained, StopTimesOut, Clear, At, Basics, Standing
<1>5. ASSUME NEW c \in Calls, SetOverride(c) \/ ResetState(c) \/ Delegate(c)
      PROVE  /\ \A h \in DOMAIN servers : servers'[h].listening => servers[h].listening
             /\ Len(servers') = Len(servers) /\ running' = running
  BY <1>5, SetEffect, ManageEffect DEF Kept, SetOverride, ResetState, Delegate
<1>6. ASSUME NEW r \in Requests, RequestStep(r)
      PROVE  /\ \A h \in DOMAIN servers : servers'[h].listening => servers[h].listening
             /\ Len(servers') = Len(servers) /\ running' = running
  BY <1>6, ConsumeEffect, ServeEffect, RecordEffect
     DEF RequestStep, Accept, ConsumeOverride, Serve, RecordRequest, Finish, Kept
<1> QED
  BY <1>1, <1>2, <1>3, <1>4, <1>5, <1>6, StepKinds DEF CallKinds

Untouched(r) ==
    /\ request'[r] = request[r] /\ stage'[r] = stage[r] /\ forced'[r] = forced[r]
    /\ sent'[r] = sent[r] /\ since'[r] = since[r]

LEMMA RequestOutcome ==
  ASSUME Basics, Step, NEW r \in Requests
  PROVE  \/ Untouched(r)
         \/ /\ UNCHANGED tools
            /\ \A q \in Requests \ {r} : Untouched(q)
            /\ \/ Accept(r) /\ stage[r] = "new" /\ stage'[r] = "accepted" /\ forced'[r] = None
                  /\ servers[request'[r].server].listening /\ UNCHANGED servers
                  /\ request'[r].server \in DOMAIN servers
               \/ /\ request'[r] = request[r] /\ since'[r] = since[r]
                  /\ \/ ConsumeOverride(r) /\ stage[r] = "accepted" /\ stage'[r] = "routed"
                     \/ Serve(r) /\ stage[r] = "routed" /\ stage'[r] = "served"
                         /\ forced'[r] = forced[r]
                     \/ RecordRequest(r) /\ stage[r] = "served" /\ stage'[r] = "logged"
                         /\ forced'[r] = forced[r] /\ sent'[r] = sent[r]
                     \/ Finish(r) /\ stage[r] = "logged" /\ stage'[r] = "answered"
                         /\ forced'[r] = forced[r] /\ sent'[r] = sent[r] /\ UNCHANGED servers
<1>1. ASSUME NEW c \in Calls, MakeCall(c) \/ CallKinds(c)
      PROVE  Untouched(r)
  <2>1. UNCHANGED http
    BY <1>1 DEF MakeCall, CallKinds, Dismissed, Obtained, Moved, Elsewhere, StartServer,
       TellStarted, TellEndpoints, AskStatus, StopBegins, StopDrained, StopTimesOut, Clear,
       SetOverride, ResetState, Delegate
  <2> QED BY <2>1 DEF http, Untouched
<1>2. ASSUME NEW q \in Requests, RequestStep(q), NEW p \in Requests, p # q
      PROVE  Untouched(p)
  <2>1. CASE Accept(q)
    BY <1>2, <2>1 DEF Accept, Untouched, Basics, RequestsOK
  <2>2. CASE ConsumeOverride(q)
    BY <1>2, <2>2 DEF ConsumeOverride, Untouched, Basics, RequestsOK
  <2>3. CASE Serve(q)
    BY <1>2, <2>3 DEF Serve, Untouched, Basics, RequestsOK
  <2>4. CASE RecordRequest(q) \/ Finish(q)
    BY <1>2, <2>4 DEF RecordRequest, Finish, Untouched, Basics, RequestsOK
  <2> QED BY <1>2, <2>1, <2>2, <2>3, <2>4 DEF RequestStep
<1>3. CASE Accept(r)
  <2>1. PICK g \in DOMAIN servers, e \in Endpoints, header \in Headers \cup {None} :
           /\ servers[g].listening
           /\ request' = [request EXCEPT ![r] = [endpoint |-> e, header |-> header, server |-> g]]
    BY <1>3 DEF Accept
  <2>2. request'[r].server = g
    BY <2>1 DEF Basics, RequestsOK
  <2>3. /\ stage[r] = "new" /\ stage'[r] = "accepted" /\ forced'[r] = None
        /\ UNCHANGED servers /\ UNCHANGED tools
    BY <1>3 DEF Accept, NextRequest, Basics, RequestsOK
  <2> QED BY <1>2, <1>3, <2>1, <2>2, <2>3 DEF RequestStep
<1>4. CASE ConsumeOverride(r)
  BY <1>2, <1>4 DEF RequestStep, ConsumeOverride, Basics, RequestsOK
<1>5. CASE Serve(r)
  BY <1>2, <1>5 DEF RequestStep, Serve, Basics, RequestsOK
<1>6. CASE RecordRequest(r) \/ Finish(r)
  BY <1>2, <1>6 DEF RequestStep, RecordRequest, Finish, Basics, RequestsOK
<1> QED
  BY <1>1, <1>2, <1>3, <1>4, <1>5, <1>6, StepKinds DEF RequestStep

\* A server that was not there has just been started.
LEMMA FieldsOutcome ==
  ASSUME Basics, Step
  PROVE  /\ \A h \in DOMAIN servers' :
               \/ h \in DOMAIN servers
               \/ /\ h = Len(servers) + 1 /\ servers'[h].log = <<>> /\ servers'[h].recorded = <<>> /\ servers'[h].state = {}
                  /\ \A e \in Endpoints : servers'[h].overrides[e] = None
         /\ \/ Kept({"log"})
            \/ \E r \in Requests : RecordRequest(r)
         /\ \/ Kept({"state"})
            \/ \E c \in Calls : ResetState(c) \/ Delegate(c)
            \/ \E r \in Requests : Serve(r)
         /\ \/ Kept({"overrides"})
            \/ \E c \in Calls : SetOverride(c)
            \/ \E r \in Requests : ConsumeOverride(r)
<1>1. \A h \in DOMAIN servers' :
         \/ h \in DOMAIN servers
         \/ /\ h = Len(servers) + 1 /\ servers'[h].log = <<>> /\ servers'[h].recorded = <<>> /\ servers'[h].state = {}
            /\ \A e \in Endpoints : servers'[h].overrides[e] = None
  <2> SUFFICES ASSUME NEW h \in DOMAIN servers', h \notin DOMAIN servers
               PROVE  /\ h = Len(servers) + 1 /\ servers'[h].log = <<>> /\ servers'[h].recorded = <<>> /\ servers'[h].state = {}
                      /\ \A e \in Endpoints : servers'[h].overrides[e] = None
    OBVIOUS
  <2>1. DOMAIN servers = 1..Len(servers) /\ DOMAIN servers' = 1..Len(servers')
        /\ Len(servers) \in Nat
    BY ServersStep DEF Basics, ServersOK
  <2>2. Len(servers') # Len(servers)
    BY <2>1
  <2>3. PICK c \in Calls : StartServer(c) /\ running = 0
    <3>1. ASSUME NEW c \in Calls, MakeCall(c) \/ Dismissed(c) \/ Obtained(c) \/ Moved(c)
                 \/ TellStarted(c) \/ TellEndpoints(c) \/ AskStatus(c) \/ StopDrained(c) \/ StopTimesOut(c)
          PROVE  UNCHANGED servers
      BY <3>1 DEF MakeCall, Dismissed, Obtained, Moved, Elsewhere, TellStarted, TellEndpoints, AskStatus,
         StopDrained, StopTimesOut, Clear
    <3>2. ASSUME NEW r \in Requests, RequestStep(r)
          PROVE  Len(servers') = Len(servers)
      BY <3>2, ConsumeEffect, ServeEffect, RecordEffect DEF RequestStep, Accept, Finish
    <3> QED BY <2>2, <3>1, <3>2, StepKinds, CloseEffect, SetEffect, ManageEffect DEF CallKinds
  <2>4. /\ Len(servers') = Len(servers) + 1
        /\ servers'[Len(servers')] = NewServer(call[c].mode)
    BY <2>3, StartEffect
  <2>5. h = Len(servers')
    BY <2>1, <2>4
  <2> QED BY <2>4, <2>5 DEF NewServer
<1>2. ASSUME NEW c \in Calls, \/ MakeCall(c) \/ Dismissed(c) \/ Obtained(c) \/ Moved(c)
                                 \/ TellStarted(c) \/ TellEndpoints(c) \/ AskStatus(c) \/ StopDrained(c) \/ StopTimesOut(c)
      PROVE  Kept({"log", "state", "overrides"})
  <2>1. UNCHANGED servers
    BY <1>2 DEF MakeCall, Dismissed, Obtained, Moved, Elsewhere, TellStarted, TellEndpoints, AskStatus,
       StopDrained, StopTimesOut, Clear
  <2> QED BY <2>1, Unmoved DEF Kept
<1>3. ASSUME NEW c \in Calls, StopBegins(c) \/ (StartServer(c) /\ running = 0)
      PROVE  Kept({"log", "state", "overrides"})
  BY <1>3, CloseEffect, StartEffect DEF Kept
<1>4. ASSUME NEW r \in Requests, Accept(r) \/ Finish(r)
      PROVE  Kept({"log", "state", "overrides"})
  BY <1>4, Unmoved DEF Accept, Finish, Kept
<1>5. ASSUME Kept({"log", "state", "overrides"})
      PROVE  Kept({"log"}) /\ Kept({"state"}) /\ Kept({"overrides"})
  BY <1>5 DEF Kept
<1>6. ASSUME NEW c \in Calls, SetOverride(c) PROVE Kept({"log"}) /\ Kept({"state"})
  BY <1>6, SetEffect DEF Kept
<1>7. ASSUME NEW c \in Calls, ResetState(c) \/ Delegate(c) PROVE Kept({"log"}) /\ Kept({"overrides"})
  BY <1>7, ManageEffect DEF Kept
<1>8. ASSUME NEW r \in Requests, ConsumeOverride(r) PROVE Kept({"log"}) /\ Kept({"state"})
  BY <1>8, ConsumeEffect DEF Kept
<1>9. ASSUME NEW r \in Requests, Serve(r) PROVE Kept({"log"}) /\ Kept({"overrides"})
  BY <1>9, ServeEffect DEF Kept
<1>10. ASSUME NEW r \in Requests, RecordRequest(r) PROVE Kept({"state"}) /\ Kept({"overrides"})
  BY <1>10, RecordEffect DEF Kept
<1> QED
  BY <1>1, <1>2, <1>3, <1>4, <1>5, <1>6, <1>7, <1>8, <1>9, <1>10, StepKinds DEF CallKinds, RequestStep

-----------------------------------------------------------------------------
\* At most one server is active: only the instance's own listens (Start, Stop).
THEOREM SingleInstanceTheorem == Spec => []SingleInstance
<1>1. Init => SingleInstance
  BY DEF Init, SingleInstance
<1>2. Basics /\ SingleInstance /\ [Next]_vars => SingleInstance'
  <2>1. ASSUME Basics, SingleInstance, Step, NEW g \in DOMAIN servers', servers'[g].listening
        PROVE  running' = g
    <3>1. \/ g \in DOMAIN servers
          \/ g = Len(servers) + 1 /\ Len(servers') = Len(servers) + 1
      <4>1. g \in 1..Len(servers')
        BY <2>1, ServersStep DEF ServersOK
      <4>2. Len(servers') \in {Len(servers), Len(servers) + 1} /\ Len(servers) \in Nat
        BY <2>1, ServersOutcome DEF Basics, ServersOK
      <4>3. DOMAIN servers = 1..Len(servers)
        BY <2>1 DEF Basics, ServersOK
      <4> QED BY <4>1, <4>2, <4>3
    <3>2. g \in DOMAIN servers => running = g
      BY <2>1, ServersOutcome DEF SingleInstance
    <3>3. 0 \notin DOMAIN servers
      BY <2>1 DEF Basics, ServersOK
    <3> QED BY <2>1, <3>1, <3>2, <3>3, ServersOutcome
  <2>2. ASSUME SingleInstance, UNCHANGED live PROVE SingleInstance'
    BY <2>2 DEF live, SingleInstance
  <2> QED BY StepOrStill, <2>1, <2>2 DEF SingleInstance
<1> QED BY <1>1, <1>2, BasicsTheorem, PTL DEF Spec

-----------------------------------------------------------------------------
LEMMA StaysDrained ==
  ASSUME Basics, Step, NEW g \in DOMAIN servers, ~servers[g].listening, InFlight(g) = {}
  PROVE  InFlight(g)' = {}
<1> SUFFICES ASSUME NEW r \in Requests, request'[r].server = g,
                    stage'[r] \in {"accepted", "routed", "served", "logged"}
             PROVE  FALSE
  BY DEF InFlight
<1>1. ~(stage[r] \in {"accepted", "routed", "served", "logged"} /\ request[r].server = g)
  BY DEF InFlight
<1> QED
  BY <1>1, RequestOutcome DEF Untouched

LEMMA StoppedInit == Init => StoppedClosed
BY ResultsDiffer DEF Init, StoppedClosed

LEMMA StoppedStep == Basics /\ StoppedClosed /\ [Next]_vars => StoppedClosed'
<1>1. ASSUME Basics, StoppedClosed, Step, NEW c \in Calls, result'[c] = <<"stopped">>
      PROVE  /\ held'[c] \in DOMAIN servers'
             /\ ~servers'[held'[c]].listening
             /\ InFlight(held[c])' = {}
  <2>1. \A g \in DOMAIN servers : g \in DOMAIN servers'
    BY <1>1, ServersStep DEF Kept, Basics, ServersOK
  <2>2. CASE result[c] = <<"stopped">>
    <3>1. Frozen(c)
      BY <1>1, <2>2, CallOutcome, ResultsDiffer DEF Basics, Standing
    <3>2. /\ held[c] \in DOMAIN servers /\ ~servers[held[c]].listening
          /\ InFlight(held[c]) = {} /\ held'[c] = held[c]
      BY <1>1, <2>2, <3>1 DEF StoppedClosed, Frozen
    <3> QED BY <1>1, <2>1, <3>2, StaysDrained, ServersOutcome DEF InFlight
  <2>3. CASE result[c] # <<"stopped">>
    <3>1. StopDrained(c)
      BY <1>1, <2>3, CallOutcome, ResultsDiffer DEF Frozen
    <3>2. /\ held[c] = running /\ running \in DOMAIN servers /\ ~servers[running].listening
          /\ InFlight(running) = {} /\ UNCHANGED <<servers, held>>
      BY <1>1, <3>1 DEF StopDrained, Clear, At, AnswerCall, Basics, ServersOK, Standing
    <3> QED BY <1>1, <3>2, StaysDrained DEF InFlight
  <2> QED BY <2>2, <2>3
<1>2. ASSUME StoppedClosed, UNCHANGED live PROVE StoppedClosed'
  BY <1>2 DEF live, http, tools, StoppedClosed, InFlight
<1> QED BY StepOrStill, <1>1, <1>2 DEF StoppedClosed

\* After a clean stop_server no request of that server runs, then or later.
THEOREM CleanStopDrainsTheorem == Spec => []CleanStopDrains
<1>1. StoppedClosed => CleanStopDrains
  BY DEF StoppedClosed, CleanStopDrains
<1> QED BY <1>1, StoppedInit, StoppedStep, BasicsTheorem, PTL DEF Spec

-----------------------------------------------------------------------------
LEMMA LoggedStays ==
  ASSUME Basics, Step, NEW r \in Requests, Logged(r)
  PROVE  Logged(r)' /\ request'[r] = request[r] /\ forced'[r] = forced[r] /\ sent'[r] = sent[r]
BY RequestOutcome DEF Logged, Untouched

LEMMA EntryOf ==
  ASSUME ServersOK, NEW g \in DOMAIN servers, NEW i \in DOMAIN servers[g].log
  PROVE  /\ servers[g].log[i].request \in Requests /\ servers[g].log \in Seq(Entry)
         /\ i \in 1..Len(servers[g].log) /\ servers[g].log[i].status \in Nat
<1>1. servers[g].log \in Seq(Entry)
  BY ServerFields DEF ServersOK
<1>2. servers[g].log[i] \in Entry /\ i \in 1..Len(servers[g].log)
  BY <1>1
<1> QED BY <1>1, <1>2 DEF Entry

LEMMA LogOnceInit == Init => LogOnce
BY DEF Init, LogOnce, Logged

LEMMA RecordedOf ==
  ASSUME ServersOK, NEW g \in DOMAIN servers
  PROVE  /\ servers[g].recorded \in Seq(Requests) /\ servers[g].log \in Seq(Entry)
         /\ DOMAIN servers[g].recorded = 1..Len(servers[g].recorded)
         /\ Len(servers[g].recorded) \in Nat
         /\ \A i \in DOMAIN servers[g].recorded : servers[g].recorded[i] \in Requests
<1>1. servers[g].recorded \in Seq(Requests) /\ servers[g].log \in Seq(Entry)
  BY ServerFields DEF ServersOK
<1> QED BY <1>1

\* One more request is recorded, at the end.
LEMMA Recording ==
  ASSUME Basics, NEW r \in Requests, RecordRequest(r)
  PROVE  LET h == servers[request[r].server].recorded
             w == servers'[request[r].server].recorded
         IN  /\ h \in Seq(Requests) /\ DOMAIN h = 1..Len(h) /\ Len(h) \in Nat
             /\ DOMAIN w = 1..(Len(h) + 1) /\ Len(w) = Len(h) + 1 /\ w[Len(h) + 1] = r
             /\ \A i \in 1..Len(h) : w[i] = h[i]
<1> DEFINE h == servers[request[r].server].recorded
           w == servers'[request[r].server].recorded
<1>1. h \in Seq(Requests) /\ w = Append(h, r)
  BY RecordEffect, RecordedOf DEF Basics
<1> HIDE DEF h, w
<1>2. /\ DOMAIN h = 1..Len(h) /\ Len(h) \in Nat
      /\ DOMAIN w = 1..(Len(h) + 1) /\ Len(w) = Len(h) + 1 /\ w[Len(h) + 1] = r
      /\ \A i \in 1..Len(h) : w[i] = h[i]
  BY <1>1
<1> QED BY <1>1, <1>2 DEF h, w

LEMMA NewestOfStep ==
  ASSUME Basics, LogOnce, Step, NEW g \in DOMAIN servers'
  PROVE  NewestOf(g)'
<1>1. CASE g \notin DOMAIN servers
  <2>1. servers'[g].log = <<>> /\ servers'[g].recorded = <<>>
    BY <1>1, FieldsOutcome
  <2> QED BY <2>1, LogCapacityAssumption DEF NewestOf
<1>2. ASSUME g \in DOMAIN servers, servers'[g].log = servers[g].log,
             servers'[g].recorded = servers[g].recorded
      PROVE  NewestOf(g)'
  BY <1>2 DEF LogOnce, NewestOf
<1>3. ASSUME NEW r \in Requests, RecordRequest(r), g = request[r].server
      PROVE  NewestOf(g)'
  <2> DEFINE s == servers[g].log
             l == servers'[g].log
             h == servers[g].recorded
             w == servers'[g].recorded
  <2>1. /\ g \in DOMAIN servers /\ s \in Seq(Entry)
        /\ Len(l) = IF Len(s) < LogCapacity THEN Len(s) + 1 ELSE LogCapacity
        /\ l[1] = [request |-> r, status |-> Recorded(r)]
        /\ \A i \in DOMAIN l : i # 1 => i - 1 \in DOMAIN s /\ l[i] = s[i - 1]
    BY <1>3, RecordEffect
  <2>2. /\ Len(h) \in Nat /\ Len(w) = Len(h) + 1 /\ w[Len(h) + 1] = r
        /\ \A i \in 1..Len(h) : w[i] = h[i]
    BY <1>3, Recording
  <2>3. /\ Len(s) = IF Len(h) < LogCapacity THEN Len(h) ELSE LogCapacity
        /\ \A i \in DOMAIN s : s[i].request = h[Len(h) - i + 1]
    BY <2>1 DEF LogOnce, NewestOf
  <2>4. l \in Seq(Entry)
    BY ServersStep, ServerFields DEF ServersOK
  <2>5. l[1].request = r
    BY <2>1
  <2> HIDE DEF s, l, h, w
  <2>6. Len(l) = IF Len(w) < LogCapacity THEN Len(w) ELSE LogCapacity
    BY <2>1, <2>2, <2>3, LogCapacityAssumption
  <2>7. ASSUME NEW i \in DOMAIN l
        PROVE  l[i].request = w[Len(w) - i + 1]
    <3>1. CASE i = 1
      BY <2>2, <2>5, <3>1
    <3>2. CASE i # 1
      <4>1. i - 1 \in DOMAIN s /\ l[i] = s[i - 1] /\ i \in Nat
        BY <2>1, <2>4, <3>2
      <4>2. i - 1 \in 1..Len(s) /\ Len(s) <= Len(h)
        <5>1. DOMAIN s = 1..Len(s)
          BY <2>1 DEF s
        <5> QED BY <2>1, <2>2, <2>3, <4>1, <5>1, LogCapacityAssumption
      <4>3. Len(h) - (i - 1) + 1 \in 1..Len(h) /\ Len(h) - (i - 1) + 1 = Len(w) - i + 1
        BY <2>2, <4>1, <4>2
      <4>4. s[i - 1].request = h[Len(h) - (i - 1) + 1]
        BY <2>3, <4>1
      <4> QED BY <2>2, <4>1, <4>3, <4>4
    <3> QED BY <3>1, <3>2
  <2> QED BY <2>6, <2>7 DEF NewestOf, l, w
<1>4. ASSUME NEW r \in Requests, RecordRequest(r), g # request[r].server, g \in DOMAIN servers
      PROVE  servers'[g].log = servers[g].log /\ servers'[g].recorded = servers[g].recorded
  BY <1>4, RecordEffect
<1>5. CASE g \in DOMAIN servers /\ Kept({"log"})
  BY <1>2, <1>5 DEF Kept
<1> QED BY <1>1, <1>2, <1>3, <1>4, <1>5, FieldsOutcome

LEMMA OnceInStep ==
  ASSUME Basics, LogOnce, Step, NEW g \in DOMAIN servers'
  PROVE  OnceIn(g)'
<1>1. CASE g \notin DOMAIN servers
  <2>1. servers'[g].recorded = <<>>
    BY <1>1, FieldsOutcome
  <2> QED BY <2>1 DEF OnceIn
<1>2. ASSUME g \in DOMAIN servers, NEW i \in DOMAIN servers[g].recorded
      PROVE  /\ Logged(servers[g].recorded[i])
             /\ stage'[servers[g].recorded[i]] \in {"logged", "answered"}
             /\ request'[servers[g].recorded[i]].server = g
  <2> DEFINE q == servers[g].recorded[i]
  <2>1. q \in Requests /\ Logged(q) /\ request[q].server = g
    BY <1>2, RecordedOf DEF Basics, LogOnce, OnceIn
  <2> HIDE DEF q
  <2>2. stage'[q] \in {"logged", "answered"} /\ request'[q].server = g
    BY <2>1, LoggedStays DEF Logged
  <2> QED BY <2>1, <2>2 DEF q
<1>3. ASSUME g \in DOMAIN servers, servers'[g].recorded = servers[g].recorded
      PROVE  OnceIn(g)'
  <2>1. OnceIn(g)
    BY <1>3 DEF LogOnce
  <2> QED BY <1>2, <1>3, <2>1 DEF OnceIn, Logged
<1>4. ASSUME NEW r \in Requests, RecordRequest(r), g = request[r].server
      PROVE  OnceIn(g)'
  <2> DEFINE h == servers[g].recorded
             w == servers'[g].recorded
  <2>1. /\ DOMAIN h = 1..Len(h) /\ Len(h) \in Nat
        /\ DOMAIN w = 1..(Len(h) + 1) /\ w[Len(h) + 1] = r
        /\ \A i \in 1..Len(h) : w[i] = h[i]
    BY <1>4, Recording
  <2>2. stage[r] = "served" /\ stage'[r] = "logged" /\ request' = request
    BY <1>4 DEF RecordRequest, Basics, RequestsOK
  <2>3. g \in DOMAIN servers
    BY <1>4, RecordEffect
  <2>4. \A i, j \in DOMAIN h : i # j => h[i] # h[j]
    BY <2>3 DEF LogOnce, OnceIn
  <2>5. \A i \in DOMAIN h : /\ Logged(h[i]) /\ stage'[h[i]] \in {"logged", "answered"}
                             /\ request'[h[i]].server = g
    BY <1>2, <2>3
  <2>6. \A i \in DOMAIN h : h[i] # r
    BY <2>2, <2>5 DEF Logged
  <2> HIDE DEF h, w
  <2>7. \A i \in DOMAIN w : stage'[w[i]] \in {"logged", "answered"} /\ request'[w[i]].server = g
    <3> SUFFICES ASSUME NEW i \in DOMAIN w
                 PROVE  stage'[w[i]] \in {"logged", "answered"} /\ request'[w[i]].server = g
      OBVIOUS
    <3>1. CASE i = Len(h) + 1
      BY <1>4, <2>1, <2>2, <3>1
    <3>2. CASE i \in DOMAIN h
      BY <2>1, <2>5, <3>2
    <3> QED BY <2>1, <3>1, <3>2
  <2>8. \A i, j \in DOMAIN w : i # j => w[i] # w[j]
    BY <2>1, <2>4, <2>6
  <2> QED BY <2>7, <2>8 DEF OnceIn, Logged, w
<1>5. ASSUME NEW r \in Requests, RecordRequest(r), g # request[r].server, g \in DOMAIN servers
      PROVE  servers'[g].recorded = servers[g].recorded
  BY <1>5, RecordEffect
<1>6. CASE g \in DOMAIN servers /\ Kept({"log"})
  BY <1>3, <1>6 DEF Kept
<1> QED BY <1>1, <1>3, <1>4, <1>5, <1>6, FieldsOutcome

LEMMA IsRecordedStep ==
  ASSUME Basics, LogOnce, Step, NEW r \in Requests, Logged(r)'
  PROVE  IsRecorded(r)'
<1> DEFINE g == request[r].server
<1>1. request'[r] = request[r] /\ (Logged(r) \/ RecordRequest(r))
  BY RequestOutcome DEF Logged, Untouched
<1>2. g \in DOMAIN servers
  BY <1>1 DEF Logged, RecordRequest, Basics, RequestsOK
<1>3. ServerOf(r)' = servers'[g] /\ ServerOf(r) = servers[g]
  BY <1>1 DEF ServerOf
<1>4. CASE RecordRequest(r)
  <2>1. \E i \in DOMAIN servers'[g].recorded : servers'[g].recorded[i] = r
    <3> DEFINE n == Len(servers[g].recorded) + 1
    <3>1. n \in DOMAIN servers'[g].recorded /\ servers'[g].recorded[n] = r
      BY <1>4, Recording
    <3> QED BY <3>1
  <2> QED BY <1>3, <2>1 DEF IsRecorded
<1>5. ASSUME Logged(r)
      PROVE  \E i \in DOMAIN servers[g].recorded : servers[g].recorded[i] = r
  BY <1>3, <1>5 DEF LogOnce, IsRecorded
<1> HIDE DEF g
<1>6. ASSUME Logged(r), NEW q \in Requests, RecordRequest(q), request[q].server = g
      PROVE  \E i \in DOMAIN servers'[g].recorded : servers'[g].recorded[i] = r
  <2>1. /\ DOMAIN servers[g].recorded = 1..Len(servers[g].recorded)
        /\ DOMAIN servers'[g].recorded = 1..(Len(servers[g].recorded) + 1)
        /\ Len(servers[g].recorded) \in Nat
        /\ \A i \in 1..Len(servers[g].recorded) : servers'[g].recorded[i] = servers[g].recorded[i]
    BY <1>6, Recording
  <2> QED BY <1>5, <1>6, <2>1
<1>7. ASSUME NEW q \in Requests, RecordRequest(q), request[q].server # g
      PROVE  servers'[g].recorded = servers[g].recorded
  BY <1>2, <1>7, RecordEffect
<1>8. Kept({"log"}) => servers'[g].recorded = servers[g].recorded
  BY <1>2 DEF Kept
<1> QED BY <1>1, <1>3, <1>4, <1>5, <1>6, <1>7, <1>8, FieldsOutcome DEF IsRecorded

LEMMA LogOnceStep == Basics /\ LogOnce /\ [Next]_vars => LogOnce'
<1>1. ASSUME Basics, LogOnce, Step PROVE LogOnce'
  BY <1>1, NewestOfStep, OnceInStep, IsRecordedStep DEF LogOnce
<1>2. ASSUME LogOnce, UNCHANGED live PROVE LogOnce'
  BY <1>2 DEF live, http, tools, LogOnce, NewestOf, OnceIn, IsRecorded, Logged, ServerOf
<1> QED BY StepOrStill, <1>1, <1>2

\* What the log holds, it has been given.
LEMMA EntryLogged ==
  ASSUME ServersOK, LogOnce, NEW g \in DOMAIN servers, NEW i \in DOMAIN servers[g].log
  PROVE  Logged(servers[g].log[i].request)
<1> DEFINE l == servers[g].log
           h == servers[g].recorded
<1>1. l \in Seq(Entry) /\ DOMAIN h = 1..Len(h) /\ Len(h) \in Nat
  BY RecordedOf
<1>2. /\ Len(l) = IF Len(h) < LogCapacity THEN Len(h) ELSE LogCapacity
      /\ l[i].request = h[Len(h) - i + 1]
      /\ \A j \in DOMAIN h : Logged(h[j])
  BY DEF LogOnce, NewestOf, OnceIn
<1> HIDE DEF h
<1>3. i \in 1..Len(l)
  BY <1>1
<1> HIDE DEF l
<1>4. Len(h) - i + 1 \in DOMAIN h
  BY <1>1, <1>2, <1>3, LogCapacityAssumption
<1> QED BY <1>2, <1>4 DEF l

LEMMA OneEntry ==
  ASSUME Basics, LogOnce, NEW r \in Requests, stage[r] = "answered"
  PROVE  LET recorded == ServerOf(r).recorded
         IN  \E i \in DOMAIN recorded :
               /\ recorded[i] = r
               /\ Cardinality(EntriesOf(r)) =
                     IF Len(recorded) - i < LogCapacity THEN 1 ELSE 0
<1> DEFINE l == ServerOf(r).log
           h == ServerOf(r).recorded
<1>1. request[r].server \in DOMAIN servers
  BY DEF Basics, RequestsOK
<1>2. /\ l \in Seq(Entry) /\ DOMAIN h = 1..Len(h) /\ Len(h) \in Nat
  BY <1>1, RecordedOf DEF ServerOf, Basics
<1>3. /\ Len(l) = IF Len(h) < LogCapacity THEN Len(h) ELSE LogCapacity
      /\ \A k \in DOMAIN l : l[k].request = h[Len(h) - k + 1]
      /\ \A j, k \in DOMAIN h : j # k => h[j] # h[k]
  BY <1>1 DEF ServerOf, LogOnce, NewestOf, OnceIn
<1>4. PICK i \in DOMAIN h : h[i] = r
  BY DEF LogOnce, IsRecorded, Logged
<1>5. EntriesOf(r) = {k \in DOMAIN l : l[k].request = r}
  BY DEF EntriesOf
<1>6. DOMAIN l = 1..Len(l)
  BY <1>2
<1> HIDE DEF l, h
<1>7. \A k \in DOMAIN l : l[k].request = r <=> k = Len(h) - i + 1
  <2> SUFFICES ASSUME NEW k \in DOMAIN l
               PROVE  l[k].request = r <=> k = Len(h) - i + 1
    OBVIOUS
  <2>1. k \in 1..Len(l) /\ Len(l) <= Len(h) /\ i \in 1..Len(h)
    BY <1>2, <1>3, <1>4, <1>6, LogCapacityAssumption
  <2>2. Len(h) - k + 1 \in DOMAIN h /\ (Len(h) - k + 1 = i <=> k = Len(h) - i + 1)
    BY <1>2, <2>1
  <2>3. l[k].request = h[Len(h) - k + 1]
    BY <1>3
  <2> QED BY <1>3, <1>4, <2>2, <2>3
<1>8. i \in 1..Len(h)
  BY <1>2, <1>4
<1>9. CASE Len(h) - i < LogCapacity
  <2>1. Len(h) - i + 1 \in DOMAIN l
    BY <1>2, <1>3, <1>6, <1>8, <1>9, LogCapacityAssumption
  <2>2. EntriesOf(r) = {Len(h) - i + 1}
    BY <1>5, <1>7, <2>1
  <2>3. Cardinality(EntriesOf(r)) = 1
    BY <2>2, FS_Singleton
  <2> QED BY <1>4, <1>9, <2>3 DEF h
<1>10. CASE ~ (Len(h) - i < LogCapacity)
  <2>1. Len(h) - i + 1 \notin DOMAIN l
    BY <1>2, <1>3, <1>6, <1>8, <1>10, LogCapacityAssumption
  <2>2. EntriesOf(r) = {}
    BY <1>5, <1>7, <2>1
  <2>3. Cardinality(EntriesOf(r)) = 0
    BY <2>2, FS_EmptySet
  <2> QED BY <1>4, <1>10, <2>3 DEF h
<1> QED BY <1>9, <1>10

\* An answered request is in the log, once, and gone from it exactly when as
\* many as the log holds were recorded after it (middleware order).
THEOREM AnsweredIsLoggedTheorem == Spec => []AnsweredIsLogged
<1>1. Basics /\ LogOnce => AnsweredIsLogged
  BY OneEntry DEF AnsweredIsLogged
<1> QED BY <1>1, LogOnceInit, LogOnceStep, BasicsTheorem, PTL DEF Spec

\* The type invariant of the runs, with the bound of the log.
THEOREM TypeOKTheorem == Spec => []TypeOK
<1> DEFINE CrashedOK == crashed \in BOOLEAN
<1>1. Basics /\ LogOnce /\ CrashedOK => TypeOK
  <2>1. Basics /\ LogOnce => \A g \in DOMAIN servers : Len(servers[g].log) <= LogCapacity
    BY RecordedOf, LogCapacityAssumption DEF Basics, LogOnce, NewestOf
  <2> QED BY <2>1 DEF Basics, ServersOK, CallsOK, RequestsOK, Standing, TypeOK
<1>2. Init => CrashedOK
  BY DEF Init
<1>3. CrashedOK /\ [Next]_vars => CrashedOK'
  BY DEF Next, PathPanics, vars
<1> QED BY <1>1, <1>2, <1>3, LogOnceInit, LogOnceStep, BasicsTheorem, PTL DEF Spec

-----------------------------------------------------------------------------
LEMMA RecordedStays ==
  ASSUME NEW r \in Requests, request'[r] = request[r], forced'[r] = forced[r]
  PROVE  Recorded(r)' = Recorded(r)
BY DEF Recorded, Scenario, ForcedCode

LEMMA ServedTellsInit == Init => ServedTells
BY DEF Init, ServedTells

LEMMA ServedTellsStep == Basics /\ LogOnce /\ ServedTells /\ [Next]_vars => ServedTells'
<1>1. ASSUME Basics, ServedTells, Step, NEW r \in Requests,
             stage'[r] \in {"served", "logged", "answered"}
      PROVE  sent'[r] = Sent(Recorded(r))'
  <2>1. CASE stage[r] \in {"served", "logged", "answered"}
    <3>1. sent'[r] = sent[r] /\ request'[r] = request[r] /\ forced'[r] = forced[r]
      BY <1>1, <2>1, RequestOutcome DEF Untouched
    <3>2. sent[r] = Sent(Recorded(r))
      BY <1>1, <2>1 DEF ServedTells
    <3> QED BY <3>1, <3>2, RecordedStays DEF Sent
  <2>2. CASE stage[r] \notin {"served", "logged", "answered"}
    <3>1. Serve(r) /\ request'[r] = request[r] /\ forced'[r] = forced[r]
      BY <1>1, <2>2, RequestOutcome DEF Untouched
    <3>2. sent'[r] = Sent(Recorded(r))
      BY <1>1, <3>1 DEF Serve, Recorded, Basics, RequestsOK
    <3> QED BY <3>1, <3>2, RecordedStays DEF Sent
  <2> QED BY <2>1, <2>2
<1>2. ASSUME Basics, LogOnce, ServedTells, Step, NEW g \in DOMAIN servers', NEW i \in DOMAIN servers'[g].log
      PROVE  servers'[g].log[i].status = Recorded(servers[g].log[i].request)'
  <2>1. ASSUME NEW q \in Requests, Logged(q) PROVE Recorded(q)' = Recorded(q)
    BY <1>2, <2>1, LoggedStays, RecordedStays
  <2>2. ASSUME g \in DOMAIN servers, NEW j \in DOMAIN servers[g].log,
               servers'[g].log[i] = servers[g].log[j]
        PROVE  servers'[g].log[i].status = Recorded(servers[g].log[i].request)'
    <3> DEFINE e == servers[g].log[j]
    <3>1. e.request \in Requests /\ Logged(e.request) /\ e.status = Recorded(e.request)
      BY <1>2, <2>2, EntryOf, EntryLogged DEF Basics, ServedTells
    <3>2. Recorded(e.request) = Scenario(request[e.request].endpoint, ForcedCode(e.request))
      BY DEF Recorded
    <3>3. /\ request'[e.request] = request[e.request] /\ forced'[e.request] = forced[e.request]
      BY <1>2, <3>1, LoggedStays
    <3> QED BY <2>2, <3>1, <3>2, <3>3 DEF Recorded, Scenario, ForcedCode
  <2>3. g \in DOMAIN servers
    BY <1>2, FieldsOutcome
  <2>4. ASSUME NEW r \in Requests, RecordRequest(r), g = request[r].server
        PROVE  servers'[g].log[i].status = Recorded(servers[g].log[i].request)'
    <3>1. /\ servers'[g].log[1] = [request |-> r, status |-> Recorded(r)]
          /\ i # 1 => i - 1 \in DOMAIN servers[g].log /\ servers'[g].log[i] = servers[g].log[i - 1]
      BY <1>2, <2>4, RecordEffect
    <3>2. CASE i = 1
      <4>1. servers'[g].log[i].request = r /\ servers'[g].log[i].status = Recorded(r)
        BY <3>1, <3>2
      <4>2. request' = request /\ forced' = forced
        BY <2>4 DEF RecordRequest
      <4> QED BY <4>1, <4>2 DEF Recorded, Scenario, ForcedCode
    <3>3. CASE i # 1
      <4> DEFINE j == i - 1
      <4>1. j \in DOMAIN servers[g].log /\ servers'[g].log[i] = servers[g].log[j]
        BY <3>1, <3>3
      <4> HIDE DEF j
      <4> QED BY <2>2, <2>3, <4>1
    <3> QED BY <3>2, <3>3
  <2>5. CASE servers'[g].log = servers[g].log
    BY <1>2, <2>2, <2>3, <2>5
  <2> QED BY <1>2, <2>3, <2>4, <2>5, RecordEffect, FieldsOutcome DEF Kept
<1>3. ASSUME ServedTells, UNCHANGED live PROVE ServedTells'
  BY <1>3 DEF live, http, tools, ServedTells, Recorded, Scenario, ForcedCode
<1>4. ASSUME Basics, LogOnce, ServedTells, Step PROVE ServedTells'
  BY <1>1, <1>2, <1>4 DEF ServedTells
<1> QED BY StepOrStill, <1>3, <1>4

\* The log shows the status the client got, but for one net/http refuses and
\* an informational one.
THEOREM LogTellsStatusTheorem == Spec => []LogTellsStatus
<1>1. Basics /\ LogOnce /\ ServedTells => LogTellsStatus
  <2> SUFFICES ASSUME Basics, LogOnce, ServedTells, NEW g \in DOMAIN servers,
                      NEW i \in DOMAIN servers[g].log
               PROVE  LET e == servers[g].log[i]
                      IN  \/ e.status = sent[e.request]
                          \/ e.status \notin 100..999 /\ sent[e.request] = 500
                          \/ e.status \in Informational /\ sent[e.request] = 200
    BY DEF LogTellsStatus
  <2>1. servers[g].log[i].request \in Requests
    BY EntryOf DEF Basics
  <2> QED BY <2>1, EntryLogged DEF Basics, Logged, ServedTells, Sent
<1> QED BY <1>1, LogOnceInit, LogOnceStep, ServedTellsInit, ServedTellsStep, BasicsTheorem, PTL DEF Spec

-----------------------------------------------------------------------------
LEMMA StateMarksInit == Init => StateMarks
BY DEF Init, StateMarks

LEMMA StateMarksStep == Basics /\ StateMarks /\ [Next]_vars => StateMarks'
<1>1. ASSUME Basics, StateMarks, Step, NEW g \in DOMAIN servers', NEW r \in Requests,
             <<"request", r>> \in servers'[g].state
      PROVE  forced'[r] = None /\ stage'[r] \in {"served", "logged", "answered"}
  <2>1. g \in DOMAIN servers
    BY <1>1, FieldsOutcome
  <2>2. CASE <<"request", r>> \in servers[g].state
    <3>1. forced[r] = None /\ stage[r] \in {"served", "logged", "answered"}
      BY <1>1, <2>1, <2>2 DEF StateMarks
    <3> QED BY <1>1, <3>1, RequestOutcome DEF Untouched
  <2>3. CASE <<"request", r>> \notin servers[g].state
    <3>1. \A c \in Calls : <<"request", r>> # <<"call", c>>
      OBVIOUS
    <3>2. ~Kept({"state"})
      BY <1>1, <2>1, <2>3 DEF Kept
    <3>3. ~ \E c \in Calls : ResetState(c) \/ Delegate(c)
      BY <1>1, <2>1, <2>3, <3>1, ManageEffect
    <3>4. PICK q \in Requests : Serve(q)
      BY <1>1, <3>2, <3>3, FieldsOutcome
    <3>5. forced[q] = None /\ <<"request", r>> = <<"request", q>>
      BY <1>1, <2>1, <2>3, <3>4, ServeEffect
    <3>6. r = q
      BY <3>5
    <3> QED BY <1>1, <3>4, <3>5, <3>6 DEF Serve, Basics, RequestsOK
  <2> QED BY <2>2, <2>3
<1>2. ASSUME StateMarks, UNCHANGED live PROVE StateMarks'
  BY <1>2 DEF live, http, StateMarks
<1> QED BY StepOrStill, <1>1, <1>2 DEF StateMarks

\* A request whose status is forced leaves the resource state alone.
THEOREM SimulatedLeavesStateTheorem == Spec => []SimulatedLeavesState
<1>1. StateMarks => SimulatedLeavesState
  BY DEF StateMarks, SimulatedLeavesState
<1> QED BY <1>1, StateMarksInit, StateMarksStep, BasicsTheorem, PTL DEF Spec

-----------------------------------------------------------------------------
LEMMA SetByStays ==
  ASSUME Basics, Step, NEW c \in Calls, NEW g, NEW e, SetBy(c, g, e)
  PROVE  SetBy(c, g, e)' /\ Frozen(c)
BY CallOutcome DEF SetBy, Frozen

LEMMA OverrideOutcome ==
  ASSUME Basics, Step, NEW g \in DOMAIN servers', NEW e \in Endpoints
  PROVE  \/ servers'[g].overrides[e] = None
         \/ g \in DOMAIN servers /\ servers'[g].overrides[e] = servers[g].overrides[e]
         \/ \E c \in Calls :
               /\ progress[c] = "holding" /\ SetBy(c, g, e)'
               /\ servers'[g].overrides[e].by = c
<1>1. CASE g \notin DOMAIN servers
  BY <1>1, FieldsOutcome
<1>2. CASE g \in DOMAIN servers /\ Kept({"overrides"})
  BY <1>2 DEF Kept
<1>3. ASSUME NEW r \in Requests, ConsumeOverride(r), g \in DOMAIN servers
      PROVE  \/ servers'[g].overrides[e] = None
             \/ servers'[g].overrides[e] = servers[g].overrides[e]
  BY <1>3, ConsumeEffect
<1>4. ASSUME NEW c \in Calls, SetOverride(c), g \in DOMAIN servers
      PROVE  \/ servers'[g].overrides[e] = servers[g].overrides[e]
             \/ /\ progress[c] = "holding" /\ SetBy(c, g, e)'
                /\ servers'[g].overrides[e].by = c
  <2>1. /\ progress[c] = "holding" /\ progress'[c] = "answered" /\ result'[c] = <<"set">>
        /\ held'[c] = held[c] /\ call'[c] = call[c]
    BY <1>4 DEF SetOverride, At, AnswerCall, Basics, CallsOK
  <2>4. /\ servers'[held[c]].overrides[call[c].endpoint] = [code |-> call[c].code, by |-> c]
        /\ \A h \in DOMAIN servers, f \in Endpoints :
              h # held[c] \/ f # call[c].endpoint =>
                 servers'[h].overrides[f] = servers[h].overrides[f]
    BY <1>4, SetEffect
  <2>2. CASE g # held[c] \/ e # call[c].endpoint
    BY <1>4, <2>2, <2>4
  <2>3. CASE g = held[c] /\ e = call[c].endpoint
    <3>1. servers'[g].overrides[e].by = c
      BY <2>3, <2>4
    <3>2. SetBy(c, g, e)'
      BY <2>1, <2>3 DEF SetBy
    <3> QED BY <2>1, <3>1, <3>2
  <2> QED BY <2>2, <2>3
<1> QED BY <1>1, <1>2, <1>3, <1>4, FieldsOutcome

LEMMA WaitingInit == Init => WaitingOverrides
BY DEF Init, WaitingOverrides

LEMMA WaitingStep == Basics /\ WaitingOverrides /\ [Next]_vars => WaitingOverrides'
<1>1. ASSUME Basics, WaitingOverrides, Step, NEW g \in DOMAIN servers', NEW e \in Endpoints,
             servers'[g].overrides[e] # None
      PROVE  /\ servers'[g].overrides[e].by \in Calls
             /\ SetBy(servers[g].overrides[e].by, g, e)'
  <2>1. CASE g \in DOMAIN servers /\ servers'[g].overrides[e] = servers[g].overrides[e]
    <3>1. servers[g].overrides[e].by \in Calls /\ SetBy(servers[g].overrides[e].by, g, e)
      BY <1>1, <2>1 DEF WaitingOverrides
    <3>2. PICK c \in Calls : c = servers[g].overrides[e].by
      BY <3>1
    <3>3. SetBy(c, g, e)'
      BY <1>1, <3>1, <3>2, SetByStays
    <3> QED BY <2>1, <3>2, <3>3 DEF SetBy
  <2>2. ASSUME NEW c \in Calls, SetBy(c, g, e)', servers'[g].overrides[e].by = c
        PROVE  /\ servers'[g].overrides[e].by \in Calls
               /\ SetBy(servers[g].overrides[e].by, g, e)'
    BY <2>2 DEF SetBy
  <2> QED BY <1>1, <2>1, <2>2, OverrideOutcome
<1>2. ASSUME WaitingOverrides, UNCHANGED live PROVE WaitingOverrides'
  BY <1>2 DEF live, tools, WaitingOverrides, SetBy
<1> QED BY StepOrStill, <1>1, <1>2 DEF WaitingOverrides

\* An override that does not wait any more never waits again.
LEMMA NotWaitingStays ==
  ASSUME Basics, Step, NEW c \in Calls, NEW g \in DOMAIN servers, NEW e \in Endpoints,
         progress[c] = "answered", NotWaiting(c, g, e)
  PROVE  NotWaiting(c, g, e)'
<1>1. g \in DOMAIN servers'
  BY ServersStep DEF Kept, Basics, ServersOK
<1> QED BY <1>1, OverrideOutcome DEF NotWaiting

LEMMA PlaceOf ==
  ASSUME Basics, NEW r \in Requests, stage[r] # "new"
  PROVE  request[r].server \in DOMAIN servers /\ request[r].endpoint \in Endpoints
BY DEF Basics, RequestsOK, Request

LEMMA UsedInit == Init => UsedOverrides
BY DEF Init, UsedOverrides, Overridden

LEMMA UsedStep == Basics /\ WaitingOverrides /\ UsedOverrides /\ [Next]_vars => UsedOverrides'
<1> DEFINE Same(r) == forced'[r] = forced[r] /\ request'[r] = request[r]
<1>1. ASSUME Basics, UsedOverrides, Step, NEW c \in Calls, NEW r \in Requests, Overridden(r, c)
      PROVE  /\ Same(r) /\ progress[c] = "answered"
             /\ SetBy(c, request[r].server, request[r].endpoint)'
             /\ NotWaiting(c, request[r].server, request[r].endpoint)'
             /\ request[r].server \in DOMAIN servers /\ request[r].endpoint \in Endpoints
  <2>1. stage[r] \notin {"new", "accepted"}
    BY <1>1 DEF Overridden, Basics, RequestsOK
  <2>2. Same(r)
    BY <1>1, <2>1, RequestOutcome DEF Untouched
  <2>3. /\ SetBy(c, request[r].server, request[r].endpoint)
        /\ NotWaiting(c, request[r].server, request[r].endpoint)
    BY <1>1 DEF UsedOverrides
  <2>4. PICK g \in DOMAIN servers, e \in Endpoints : g = request[r].server /\ e = request[r].endpoint
    BY <1>1, <2>1, PlaceOf
  <2>5. SetBy(c, g, e)' /\ NotWaiting(c, g, e)' /\ progress[c] = "answered"
    BY <1>1, <2>3, <2>4, SetByStays, NotWaitingStays DEF SetBy
  <2> QED BY <2>2, <2>4, <2>5 DEF SetBy, NotWaiting
<1>2. ASSUME Basics, Step, NEW c \in Calls, NEW r \in Requests, ~Overridden(r, c), Overridden(r, c)'
      PROVE  /\ ConsumeOverride(r)
             /\ request' = request
             /\ LET o == servers[request[r].server].overrides[request[r].endpoint]
                IN  o # None /\ o.by = c
  <2>1. ConsumeOverride(r)
    BY <1>2, RequestOutcome DEF Untouched, Overridden
  <2>2. request' = request /\ forced'[r] = 
           LET override == servers[request[r].server].overrides[request[r].endpoint]
           IN  IF override # None THEN override
               ELSE IF request[r].header # None
               THEN [code |-> request[r].header, by |-> None]
               ELSE None
    BY <1>2, <2>1 DEF ConsumeOverride, ServerOf, Basics, RequestsOK
  <2>3. [code |-> request[r].header, by |-> None].by # c
    BY CallsAreNumbers
  <2> QED BY <1>2, <2>1, <2>2, <2>3 DEF Overridden
<1>3. ASSUME Basics, WaitingOverrides, UsedOverrides, Step, NEW c \in Calls, NEW r \in Requests,
             ~Overridden(r, c), Overridden(r, c)'
      PROVE  /\ SetBy(c, request[r].server, request[r].endpoint)'
             /\ NotWaiting(c, request[r].server, request[r].endpoint)'
             /\ \A q \in Requests : ~Overridden(q, c)
  <2>1. /\ ConsumeOverride(r) /\ request' = request
        /\ LET o == servers[request[r].server].overrides[request[r].endpoint]
           IN  o # None /\ o.by = c
    BY <1>2, <1>3
  <2>2. /\ request[r].server \in DOMAIN servers /\ request[r].endpoint \in Endpoints
        /\ servers'[request[r].server].overrides[request[r].endpoint] = None
    BY <1>3, <2>1, ConsumeEffect
  <2>3. SetBy(c, request[r].server, request[r].endpoint)
    BY <1>3, <2>1, <2>2 DEF WaitingOverrides
  <2>4. ASSUME NEW q \in Requests, Overridden(q, c) PROVE FALSE
    <3>1. /\ SetBy(c, request[q].server, request[q].endpoint)
          /\ NotWaiting(c, request[q].server, request[q].endpoint)
      BY <1>3, <2>4 DEF UsedOverrides
    <3> QED BY <2>1, <2>3, <3>1 DEF SetBy, NotWaiting
  <2>5. PICK g \in DOMAIN servers, e \in Endpoints : g = request[r].server /\ e = request[r].endpoint
    BY <2>2
  <2>6. SetBy(c, g, e)'
    BY <1>3, <2>3, <2>5, SetByStays
  <2> QED BY <2>1, <2>2, <2>4, <2>5, <2>6 DEF SetBy, NotWaiting
<1>4. ASSUME Basics, WaitingOverrides, UsedOverrides, Step, NEW c \in Calls, NEW r \in Requests,
             Overridden(r, c)'
      PROVE  /\ SetBy(c, request[r].server, request[r].endpoint)'
             /\ NotWaiting(c, request[r].server, request[r].endpoint)'
             /\ \A q \in Requests : Overridden(q, c)' => q = r
  <2>1. CASE Overridden(r, c)
    <3>1. ASSUME NEW q \in Requests, Overridden(q, c)' PROVE q = r
      <4>1. Overridden(q, c)
        BY <1>3, <1>4, <2>1, <3>1
      <4> QED BY <1>4, <2>1, <4>1 DEF UsedOverrides
    <3> QED BY <1>1, <1>4, <2>1, <3>1
  <2>2. CASE ~Overridden(r, c)
    <3>1. ASSUME NEW q \in Requests, Overridden(q, c)' PROVE q = r
      <4>1. ~Overridden(q, c) /\ ConsumeOverride(r) /\ ConsumeOverride(q)
        BY <1>2, <1>3, <1>4, <2>2, <3>1
      <4>2. stage'[r] = "routed" /\ stage[r] = "accepted" /\ stage' = [stage EXCEPT ![q] = "routed"]
        BY <1>4, <4>1 DEF ConsumeOverride, Basics, RequestsOK
      <4> QED BY <1>4, <4>2 DEF Basics, RequestsOK
    <3> QED BY <1>3, <1>4, <2>2, <3>1
  <2> QED BY <2>1, <2>2
<1>5. ASSUME UsedOverrides, UNCHANGED live PROVE UsedOverrides'
  BY <1>5 DEF live, tools, http, UsedOverrides, Overridden, SetBy, NotWaiting
<1> QED BY StepOrStill, <1>4, <1>5 DEF UsedOverrides

\* An override is taken by one request at most, of its endpoint and server.
THEOREM OneShotTheorem == Spec => []OneShot
<1>1. UsedOverrides => OneShot
  BY DEF UsedOverrides, SetBy, OneShot
<1> QED BY <1>1, WaitingInit, WaitingStep, UsedInit, UsedStep, BasicsTheorem, PTL DEF Spec

-----------------------------------------------------------------------------
LEMMA SinceInit == Init => SinceAnswered /\ PassedBy
BY DEF Init, SinceAnswered, PassedBy

LEMMA SinceStep == Basics /\ SinceAnswered /\ [Next]_vars => SinceAnswered'
<1>1. ASSUME Basics, SinceAnswered, Step, NEW r \in Requests, NEW c \in since'[r]
      PROVE  progress'[c] = "answered"
  <2>1. c \in Calls
    BY <1>1, RequestsStep DEF RequestsOK
  <2>2. CASE c \in since[r]
    BY <1>1, <2>1, <2>2, CallOutcome DEF SinceAnswered, Frozen
  <2>3. CASE Accept(r)
    BY <1>1, <2>3 DEF Accept, AnsweredTo, tools, Basics, RequestsOK
  <2> QED BY <1>1, <2>2, <2>3, RequestOutcome DEF Untouched
<1>2. ASSUME SinceAnswered, UNCHANGED live PROVE SinceAnswered'
  BY <1>2 DEF live, tools, http, SinceAnswered
<1> QED BY StepOrStill, <1>1, <1>2 DEF SinceAnswered

LEMMA PassedStep == Basics /\ SinceAnswered /\ PassedBy /\ [Next]_vars => PassedBy'
<1>1. ASSUME Basics, SinceAnswered, PassedBy, Step, NEW r \in Requests, NEW c \in since'[r], Passed(r)'
      PROVE  NotWaiting(c, request[r].server, request[r].endpoint)'
  <2>1. /\ c \in Calls /\ request'[r] = request[r] /\ since'[r] = since[r]
        /\ Passed(r) \/ ConsumeOverride(r)
    BY <1>1, RequestsStep, RequestOutcome DEF Passed, RequestsOK, Untouched
  <2>2. PICK g \in DOMAIN servers, e \in Endpoints : g = request[r].server /\ e = request[r].endpoint
    BY <1>1, <2>1, PlaceOf DEF Passed, ConsumeOverride
  <2>3. CASE Passed(r)
    <3>1. NotWaiting(c, g, e) /\ progress[c] = "answered"
      BY <1>1, <2>1, <2>2, <2>3 DEF PassedBy, SinceAnswered
    <3>2. NotWaiting(c, g, e)'
      BY <1>1, <2>1, <3>1, NotWaitingStays
    <3> QED BY <2>1, <2>2, <3>2 DEF NotWaiting
  <2>4. CASE ConsumeOverride(r)
    <3>1. servers'[g].overrides[e] = None
      BY <1>1, <2>2, <2>4, ConsumeEffect
    <3> QED BY <2>1, <2>2, <3>1 DEF NotWaiting
  <2> QED BY <2>1, <2>3, <2>4
<1>2. ASSUME PassedBy, UNCHANGED live PROVE PassedBy'
  BY <1>2 DEF live, http, PassedBy, Passed, NotWaiting
<1> QED BY StepOrStill, <1>1, <1>2 DEF PassedBy

\* A request accepted after request_status answered leaves no override behind it.
THEOREM NextRequestOverriddenTheorem == Spec => []NextRequestOverridden
<1>1. Basics /\ WaitingOverrides /\ PassedBy => NextRequestOverridden
  <2> SUFFICES ASSUME Basics, WaitingOverrides, PassedBy, NEW c \in Calls, NEW r \in Requests,
                      c \in since[r], Passed(r),
                      request[r].endpoint = call[c].endpoint, request[r].server = held[c]
               PROVE  servers[held[c]].overrides[call[c].endpoint] \in
                         {None} \cup [code : Codes, by : Calls \ {c}]
    BY DEF NextRequestOverridden, Passed
  <2> DEFINE o == servers[held[c]].overrides[call[c].endpoint]
  <2>1. held[c] \in DOMAIN servers /\ call[c].endpoint \in Endpoints
    BY PlaceOf DEF Passed
  <2>2. o \in Pending \cup {None}
    BY <2>1, ServerFields DEF Basics, ServersOK
  <2>3. o # None => o.by \in Calls /\ o.by # c
    BY <2>1 DEF WaitingOverrides, PassedBy, NotWaiting
  <2> HIDE DEF o
  <2>4. o # None => o \in [code : Codes, by : Calls \ {c}]
    BY <2>2, <2>3 DEF Pending
  <2> QED BY <2>4 DEF o
<1> QED BY <1>1, WaitingInit, WaitingStep, SinceInit, SinceStep, PassedStep, BasicsTheorem, PTL DEF Spec

-----------------------------------------------------------------------------
LEMMA StatefulStays ==
  ASSUME Basics, Step, NEW n \in Int, n <= Len(servers)
  PROVE  (\E g \in 1..n : servers[g].mode = "stateful")
            => \E g \in 1..n : servers'[g].mode = "stateful"
<1> SUFFICES ASSUME NEW g \in 1..n, servers[g].mode = "stateful"
             PROVE  servers'[g].mode = "stateful"
  OBVIOUS
<1>1. g \in DOMAIN servers
  BY DEF Basics, ServersOK
<1> QED BY <1>1, ServersStep DEF Kept

LEMMA ManagedInit == Init => Managed
BY NoneAssumption DEF Init, Managed, ManagedCall

LEMMA ManagedStep == Basics /\ Managed /\ [Next]_vars => Managed'
<1>1. ASSUME Basics, Managed, Step, NEW c \in Calls
      PROVE  ManagedCall(c)'
  <2>1. Len(servers) \in Nat /\ Len(servers') \in Nat /\ Len(servers) <= Len(servers')
        /\ held[c] \in 0..Len(servers)
    BY <1>1, ServersStep DEF Basics, ServersOK, Kept, CallsOK
  <2>2. SomeStateful(Len(servers)) => SomeStateful(Len(servers))'
    <3>1. (\E g \in 1..Len(servers) : servers[g].mode = "stateful")
             => \E g \in 1..Len(servers) : servers'[g].mode = "stateful"
      BY <1>1, <2>1, StatefulStays
    <3> QED BY <2>1, <3>1 DEF SomeStateful
  <2>3. CASE Frozen(c)
    <3> DEFINE m == held[c]
               n == held[c] - 1
    <3>3. held'[c] = held[c] /\ m \in Int /\ n \in Int /\ m <= Len(servers) /\ n <= Len(servers)
      BY <2>1, <2>3 DEF Frozen
    <3>4. /\ (\E g \in 1..m : servers[g].mode = "stateful") => \E g \in 1..m : servers'[g].mode = "stateful"
          /\ (\E g \in 1..n : servers[g].mode = "stateful") => \E g \in 1..n : servers'[g].mode = "stateful"
      <4> HIDE DEF m, n
      <4> QED BY <1>1, <3>3, StatefulStays
    <3>1. SomeStateful(held[c]) => SomeStateful(held[c])'
      BY <3>3, <3>4 DEF SomeStateful
    <3>2. SomeStateful(held[c] - 1) => SomeStateful(held[c] - 1)'
      BY <3>3, <3>4 DEF SomeStateful
    <3> QED BY <1>1, <2>2, <2>3, <3>1, <3>2 DEF Managed, ManagedCall, Manages, Frozen
  <2>4. CASE Moved(c)
    <3>1. /\ progress'[c] \in {"running", "stateful"} /\ result'[c] = None /\ call'[c] = call[c]
          /\ Manages(c)
      BY <1>1, <2>4 DEF Moved, Managing, At, Advance, Manages, Basics, CallsOK, Standing
    <3>2. progress'[c] = "stateful" => SomeStateful(Len(servers))
      <4>1. progress'[c] = "stateful" => running # 0 /\ servers[running].mode = "stateful"
        BY <1>1, <2>4 DEF Moved, Advance, Basics, CallsOK
      <4>2. running # 0 => running \in 1..Len(servers)
        BY <1>1 DEF Basics, ServersOK
      <4> QED BY <4>1, <4>2 DEF SomeStateful
    <3> QED BY <2>2, <3>1, <3>2, NoneAssumption DEF ManagedCall, Manages
  <2>5. CASE Obtained(c)
    <3>1. /\ progress'[c] = "holding" /\ result'[c] = None /\ call'[c] = call[c]
          /\ held'[c] = running /\ running = Len(servers) /\ UNCHANGED servers
          /\ Manages(c) => progress[c] = "stateful"
      BY <1>1, <2>5 DEF Obtained, Elsewhere, Managing, At, Take, Manages, Basics, ServersOK, CallsOK, Standing
    <3>2. Manages(c) => SomeStateful(Len(servers))
      BY <1>1, <3>1 DEF Managed, ManagedCall
    <3> QED BY <3>1, <3>2, NoneAssumption DEF ManagedCall, Manages, SomeStateful
  <2>6. CASE Delegate(c)
    <3>1. /\ progress'[c] = "answered" /\ result'[c] = <<"managed", servers[held[c]].mode>>
          /\ held'[c] = held[c] /\ held[c] \in DOMAIN servers
          /\ progress[c] = "holding" /\ Manages(c)
      BY <1>1, <2>6 DEF Delegate, At, AnswerCall, Manages, Basics, CallsOK, Standing
    <3>2. SomeStateful(held[c])
      BY <1>1, <3>1 DEF Managed, ManagedCall
    <3>3. ASSUME servers[held[c]].mode = "deterministic" PROVE SomeStateful(held[c] - 1)
      <4>1. PICK g \in 1..held[c] : servers[g].mode = "stateful"
        BY <3>2 DEF SomeStateful
      <4>2. g # held[c]
        BY <3>3, <4>1
      <4>3. g \in 1..(held[c] - 1)
        BY <2>1, <4>1, <4>2
      <4> QED BY <4>1, <4>3 DEF SomeStateful
    <3>4. SomeStateful(held[c] - 1) => SomeStateful(held[c] - 1)'
      <4> DEFINE n == held[c] - 1
      <4>1. n \in Int /\ n <= Len(servers)
        BY <2>1
      <4>2. (\E g \in 1..n : servers[g].mode = "stateful") => \E g \in 1..n : servers'[g].mode = "stateful"
        <5> HIDE DEF n
        <5> QED BY <1>1, <4>1, StatefulStays
      <4> QED BY <3>1, <4>2 DEF SomeStateful
    <3>5. result'[c] = <<"managed", "deterministic">> => servers[held[c]].mode = "deterministic"
      BY <3>1
    <3> QED BY <3>1, <3>3, <3>4, <3>5 DEF ManagedCall
  <2>7. CASE ~Frozen(c) /\ ~Moved(c) /\ ~Obtained(c) /\ ~Delegate(c)
    <3>1. progress'[c] \notin {"stateful", "holding"}
      BY <1>1, <2>7, ActingCall DEF CallKinds, MakeCall, Dismissed, StartServer, TellStarted, TellEndpoints,
         AskStatus, StopBegins, StopDrained, StopTimesOut, SetOverride, ResetState, Clear, Report,
         Take, AnswerCall, Basics, CallsOK
    <3>2. result'[c] # <<"managed", "deterministic">>
      <4>1. result[c] # <<"managed", "deterministic">> \/ progress[c] = "answered"
        BY <1>1, NoneAssumption DEF Basics, Standing
      <4> QED BY <1>1, <2>7, <4>1, CallOutcome, ResultsDiffer
    <3> QED BY <3>1, <3>2 DEF ManagedCall
  <2> QED BY <2>3, <2>4, <2>5, <2>6, <2>7
<1>2. ASSUME Managed, UNCHANGED live PROVE Managed'
  BY <1>2 DEF live, tools, Managed, ManagedCall, Manages, SomeStateful
<1> QED BY StepOrStill, <1>1, <1>2 DEF Managed

\* manage_state meets a deterministic server only after a stateful one before it.
THEOREM ManagesOnceStatefulTheorem == Spec => []ManagesOnceStateful
<1>1. Managed => ManagesOnceStateful
  BY DEF Managed, ManagedCall, SomeStateful, ManagesOnceStateful
<1> QED BY <1>1, ManagedInit, ManagedStep, BasicsTheorem, PTL DEF Spec

-----------------------------------------------------------------------------
LEMMA EarlierInit == Init => Earlier
BY DEF Init, Earlier

LEMMA EarlierStep == Basics /\ Earlier /\ [Next]_vars => Earlier'
<1>1. ASSUME Basics, Earlier, Step, NEW c \in Calls, NEW q \in earlier'[c]
      PROVE  progress'[q] = "answered"
  <2>1. q \in Calls
    BY <1>1, CallsStep DEF CallsOK
  <2>2. progress[q] = "answered" => progress'[q] = "answered"
    BY <1>1, <2>1, CallOutcome DEF Frozen
  <2>3. earlier'[c] = earlier[c] \/ MakeCall(c)
    BY <1>1, ActingCall DEF Frozen, CallKinds, Dismissed, Obtained, Moved, StartServer, TellStarted, TellEndpoints,
       AskStatus, StopBegins, StopDrained, StopTimesOut, SetOverride, ResetState, Delegate, Clear,
       Report, Take, Advance, AnswerCall
  <2>4. CASE MakeCall(c)
    <3>1. q \in earlier[c] \/ q \in AnsweredTo({"start_server", "stop_server"})
      BY <1>1, <2>4 DEF MakeCall, Basics, CallsOK
    <3> QED BY <1>1, <2>2, <3>1 DEF AnsweredTo, Earlier
  <2> QED BY <1>1, <2>2, <2>3, <2>4 DEF Earlier
<1>2. ASSUME Earlier, UNCHANGED live PROVE Earlier'
  BY <1>2 DEF live, tools, Earlier
<1> QED BY StepOrStill, <1>1, <1>2 DEF Earlier

LEMMA Begun ==
  ASSUME Basics, Step, NEW c \in Calls, progress[c] # "new"
  PROVE  progress'[c] # "new" /\ call'[c] = call[c] /\ earlier'[c] = earlier[c]
BY ActingCall DEF Frozen, CallKinds, MakeCall, NextCall, Dismissed, Obtained, Moved, StartServer,
   TellStarted, TellEndpoints, AskStatus, StopBegins, StopDrained, StopTimesOut, SetOverride, ResetState, Delegate,
   Clear, Report, Take, Advance, AnswerCall, Basics, CallsOK

LEMMA DisturbedStays ==
  ASSUME Basics, Step, NEW c \in Calls, progress[c] # "new", Disturbed(c)
  PROVE  Disturbed(c)'
<1>1. PICK q \in Calls : Rival(c, q)
  BY DEF Disturbed
<1>2. Rival(c, q)'
  BY <1>1, Begun DEF Rival
<1> QED BY <1>2 DEF Disturbed

\* Who starts or stops the instance is a rival of every call under way.
LEMMA Intruder ==
  ASSUME Basics, Earlier, Reports, Step, running' # running, NEW c \in Calls, Frozen(c),
         progress[c] \notin {"new", "answered"}
  PROVE  Disturbed(c)'
<1>1. PICK x \in Calls : StopDrained(x) \/ StopTimesOut(x) \/ (StartServer(x) /\ running = 0)
  <2>1. ASSUME NEW x \in Calls, \/ MakeCall(x) \/ Dismissed(x) \/ Obtained(x) \/ Moved(x)
                                \/ TellStarted(x) \/ TellEndpoints(x) \/ AskStatus(x) \/ StopBegins(x)
                                \/ SetOverride(x) \/ ResetState(x) \/ Delegate(x)
        PROVE  FALSE
    BY <2>1 DEF MakeCall, Dismissed, Obtained, Moved, Elsewhere, TellStarted, TellEndpoints, AskStatus, StopBegins,
       SetOverride, ResetState, Delegate
  <2>2. ASSUME NEW r \in Requests, RequestStep(r) PROVE FALSE
    BY <2>2 DEF RequestStep, Accept, ConsumeOverride, Serve, RecordRequest, Finish
  <2> QED BY <2>1, <2>2, StepKinds DEF CallKinds
<1>2. /\ progress[x] \in {"draining", "called"} /\ progress'[x] # progress[x]
      /\ call[x].tool \in {"start_server", "stop_server"}
  BY <1>1 DEF StopDrained, StopTimesOut, StartServer, Clear, Locks, At, AnswerCall, Basics, CallsOK
<1>3. x # c
  BY <1>2 DEF Frozen
<1>4. Rival(c, x)
  BY <1>2, <1>3 DEF Rival, Earlier
<1>5. Disturbed(c)
  BY <1>4 DEF Disturbed
<1> QED BY <1>5, DisturbedStays

LEMMA ReportsInit == Init => Reports
BY ResultsDiffer DEF Init, Reports, ReportsCall

LEMMA ReportsStep == Basics /\ Earlier /\ Reports /\ [Next]_vars => Reports'
<1>1. ASSUME Basics, Earlier, Reports, Step, NEW c \in Calls
      PROVE  ReportsCall(c)'
  <2>1. progress[c] # "new" /\ Disturbed(c) => Disturbed(c)'
    BY <1>1, DisturbedStays
  <2>2. ReportsCall(c)
    BY <1>1 DEF Reports
  <2>3. result[c] \in {<<"started">>, <<"stopped">>} => progress[c] = "answered"
    BY <1>1, ResultsDiffer DEF Basics, Standing
  <2>4. CASE Frozen(c)
    <3>1. progress[c] \in {"started", "told", "asked", "draining"} =>
             running' = running \/ Disturbed(c)'
      BY <1>1, <2>4, Intruder
    <3> QED BY <2>1, <2>2, <2>3, <2>4, <3>1 DEF ReportsCall, Frozen
  <2>5. CASE StartServer(c) /\ running = 0
    <3>1. /\ progress'[c] = "started" /\ held'[c] = running' /\ result'[c] = None
          /\ call'[c].tool = "start_server" /\ progress[c] = "called" /\ reported'[c] = reported[c]
      BY <1>1, <2>5 DEF StartServer, Locks, At, Basics, CallsOK, Standing
    <3> QED BY <2>2, <3>1, ResultsDiffer DEF ReportsCall
  <2>6. CASE TellStarted(c)
    <3>1. /\ progress[c] = "started" /\ progress'[c] = "told" /\ result'[c] = None
          /\ reported'[c] = reported[c] \cup {running} /\ running' = running
          /\ held'[c] = held[c] /\ call'[c].tool = "start_server"
      BY <1>1, <2>6 DEF TellStarted, Locks, At, Report, Basics, CallsOK, Standing
    <3>2. reported'[c] = {running}
      BY <2>2, <3>1 DEF ReportsCall
    <3> QED BY <2>1, <2>2, <3>1, <3>2, ResultsDiffer DEF ReportsCall
  <2>11. CASE TellEndpoints(c)
    <3>1. /\ progress[c] = "told" /\ progress'[c] = "answered"
          /\ reported'[c] = reported[c] \cup {running} /\ held'[c] = held[c]
      BY <1>1, <2>11 DEF TellEndpoints, Locks, At, Report, Basics, CallsOK
    <3> QED BY <2>1, <2>2, <3>1 DEF ReportsCall
  <2>7. CASE AskStatus(c)
    <3>1. /\ progress[c] = "called" /\ progress'[c] = "asked" /\ running' = running
          /\ reported'[c] = reported[c] \cup {running}
          /\ result'[c] = None /\ call'[c].tool = "stop_server"
      BY <1>1, <2>7 DEF AskStatus, Locks, At, Report, Basics, CallsOK, Standing
    <3> QED BY <2>2, <3>1, ResultsDiffer DEF ReportsCall
  <2>8. CASE StopBegins(c)
    <3>1. /\ progress[c] = "asked" /\ progress'[c] = "draining" /\ reported'[c] = reported[c]
          /\ running' = running /\ result'[c] = None /\ call'[c].tool = "stop_server"
      BY <1>1, <2>8 DEF StopBegins, Locks, At, Take, Basics, CallsOK, Standing
    <3> QED BY <2>1, <2>2, <3>1, ResultsDiffer DEF ReportsCall
  <2>9. CASE StopDrained(c)
    <3>1. /\ progress[c] = "draining" /\ progress'[c] = "answered"
          /\ held[c] = running /\ held'[c] = held[c] /\ reported'[c] = reported[c]
      BY <1>1, <2>9 DEF StopDrained, Clear, At, AnswerCall, Basics, CallsOK, Standing
    <3> QED BY <2>1, <2>2, <3>1 DEF ReportsCall
  <2>10. CASE \/ MakeCall(c) \/ Dismissed(c) \/ Obtained(c) \/ Moved(c) \/ StopTimesOut(c)
              \/ SetOverride(c) \/ ResetState(c) \/ Delegate(c)
    <3>1. /\ progress'[c] \notin {"started", "told", "asked", "draining"}
          /\ reported'[c] = reported[c]
          /\ progress'[c] \in {"new", "called"} => progress[c] \in {"new", "called"}
      BY <1>1, <2>10 DEF MakeCall, NextCall, Dismissed, Obtained, Moved, StopTimesOut, SetOverride, ResetState,
         Delegate, Clear, Take, Advance, AnswerCall, Basics, CallsOK
    <3>2. ~TellEndpoints(c) /\ ~StopDrained(c)
      BY <1>1, <2>10 DEF TellEndpoints, StopDrained, MakeCall, NextCall, Dismissed, Obtained, Moved, Managing,
         StopTimesOut, SetOverride, ResetState, Delegate, Clear, Locks, At, Take, Advance, Report, AnswerCall,
         Basics, CallsOK
    <3>3. result'[c] \notin {<<"started">>, <<"stopped">>} \/ Frozen(c)
      BY <1>1, <2>3, <3>2, CallOutcome, ResultsDiffer
    <3> QED BY <2>2, <2>4, <3>1, <3>3 DEF ReportsCall
  <2> QED BY <1>1, <2>4, <2>5, <2>6, <2>7, <2>8, <2>9, <2>10, <2>11, ActingCall DEF CallKinds
<1>2. ASSUME Reports, UNCHANGED live PROVE Reports'
  BY <1>2 DEF live, tools, Reports, ReportsCall, Disturbed, Rival
<1> QED BY StepOrStill, <1>1, <1>2 DEF Reports

\* start_server and stop_server tell of their own server, or of a rival call's.
THEOREM ReportsOwnServerTheorem == Spec => []ReportsOwnServer
<1>1. Reports => ReportsOwnServer
  BY DEF Reports, ReportsCall, Disturbed, Rival, ReportsOwnServer
<1> QED BY <1>1, EarlierInit, EarlierStep, ReportsInit, ReportsStep, BasicsTheorem, PTL DEF Spec

-----------------------------------------------------------------------------
(***************************************************************************)
(* The ring buffer implements the bounded log that McpServer takes it for, *)
(* for every capacity, every set of entries and every set of limits.  The  *)
(* slot of the i-th newest entry becomes the slot of the (i+1)-th when     *)
(* head moves on, and none of those still in use is the one just written.  *)
(***************************************************************************)
(* Wrapping an index that is less than one turn too far. *)
LEMMA OneTurn ==
    ASSUME NEW n \in Nat \ {0}, NEW x \in 0..(2 * n - 1)
    PROVE  x % n = IF x < n THEN x ELSE x - n
<1>1. CASE x < n
  BY <1>1, SMT
<1>2. CASE x >= n
  <2>1. PICK y \in 0..(n - 1) : x = y + n
    BY <1>2, SMT
  <2>2. (y + n) % n = y
    BY SMT
  <2> QED BY <1>2, <2>1, <2>2
<1> QED BY <1>1, <1>2

(* The clamped capacity is positive. *)
LEMMA CapPositive == cap \in Nat \ {0}
BY CapacityAssumption DEF cap

(* The slot of the i-th newest entry, without the modulus. *)
LEMMA SlotOf ==
    ASSUME head \in 0..(cap - 1), NEW i \in 1..cap
    PROVE  Slot(i) = IF i <= head THEN head - i ELSE head - i + cap
<1>1. head - i + cap \in 0..(2 * cap - 1)
  BY CapPositive
<1> DEFINE x == head - i + cap
<1>2. Slot(i) = x % cap
  BY DEF Slot
<1>3. x \in 0..(2 * cap - 1)
  BY <1>1
<1> HIDE DEF x
<1>4. x % cap = IF x < cap THEN x ELSE x - cap
  BY <1>3, OneTurn, CapPositive
<1>5. Slot(i) = IF x < cap THEN x ELSE x - cap
  BY <1>2, <1>4
<1> QED BY <1>5, CapPositive DEF x

(* Where head goes after a record, without the modulus. *)
LEMMA NextHead ==
    ASSUME head \in 0..(cap - 1)
    PROVE  (head + 1) % cap = IF head + 1 < cap THEN head + 1 ELSE 0
<1> DEFINE x == head + 1
<1>1. x \in 0..(2 * cap - 1)
  BY CapPositive
<1> HIDE DEF x
<1>2. x % cap = IF x < cap THEN x ELSE x - cap
  BY <1>1, OneTurn, CapPositive
<1> QED BY <1>2, CapPositive DEF x

-----------------------------------------------------------------------------
(* A record puts its entry in the newest slot and ages the others by one,  *)
(* whose slots it does not touch.                                          *)
LEMMA RecordShifts ==
    ASSUME SlotsOK, NEW e \in Entries, Record(e)
    PROVE  /\ head' \in 0..(cap - 1)
           /\ entries'[Slot(1)'] = e
           /\ \A i \in 2..cap : entries'[Slot(i)'] = entries[Slot(i - 1)]
<1>1. head' = IF head + 1 < cap THEN head + 1 ELSE 0
  BY NextHead DEF SlotsOK, Record
<1>2. head' \in 0..(cap - 1)
  BY <1>1, CapPositive DEF SlotsOK
<1>3. cap' = cap
  BY DEF cap
<1>4. \A i \in 1..cap : Slot(i)' = IF i <= head' THEN head' - i ELSE head' - i + cap
  <2> DEFINE h == head'
  <2> SUFFICES ASSUME NEW i \in 1..cap
               PROVE  (h - i + cap) % cap = IF i <= h THEN h - i ELSE h - i + cap
    BY <1>3 DEF Slot
  <2> DEFINE x == h - i + cap
  <2>1. h \in 0..(cap - 1)
    BY <1>2
  <2> HIDE DEF h
  <2>2. x \in 0..(2 * cap - 1)
    BY <2>1, CapPositive
  <2> HIDE DEF x
  <2>3. x % cap = IF x < cap THEN x ELSE x - cap
    BY <2>2, OneTurn, CapPositive
  <2> QED BY <2>3, <2>1, CapPositive DEF x
<1>5. \A i \in 1..cap : Slot(i) = IF i <= head THEN head - i ELSE head - i + cap
  BY SlotOf DEF SlotsOK
<1>6. Slot(1)' = head
  BY <1>1, <1>2, <1>4, CapPositive DEF SlotsOK
<1>7. \A i \in 2..cap : Slot(i)' = Slot(i - 1) /\ Slot(i - 1) # head
                        /\ Slot(i - 1) \in 0..(cap - 1)
  <2> SUFFICES ASSUME NEW i \in 2..cap
               PROVE  Slot(i)' = Slot(i - 1) /\ Slot(i - 1) # head
                      /\ Slot(i - 1) \in 0..(cap - 1)
    OBVIOUS
  <2>1. i \in 1..cap /\ i - 1 \in 1..cap
    BY CapPositive
  <2>2. Slot(i)' = IF i <= head' THEN head' - i ELSE head' - i + cap
    BY <2>1, <1>4
  <2>3. Slot(i - 1) = IF i - 1 <= head THEN head - (i - 1) ELSE head - (i - 1) + cap
    BY <2>1, <1>5
  <2> QED BY <2>1, <2>2, <2>3, <1>1, CapPositive DEF SlotsOK
<1>8. entries'[head] = e
  BY DEF SlotsOK, Record
<1>9. \A s \in 0..(cap - 1) : s # head => entries'[s] = entries[s]
  BY DEF SlotsOK, Record
<1> QED BY <1>2, <1>6, <1>7, <1>8, <1>9

(* The bounded log after the record of e. *)
LEMMA Prepend ==
    ASSUME SlotsOK, NEW e, NEW n, n = (IF count < cap THEN count + 1 ELSE count)
    PROVE  Abstract!AtMost(cap, <<e>> \o Newest)
             = [i \in 1..n |-> IF i = 1 THEN e ELSE entries[Slot(i - 1)]]
<1> DEFINE s == <<e>> \o Newest
<1>1. Newest \in Seq(Entries) /\ Len(Newest) = count
  BY DEF SlotsOK, Newest
<1>2. Len(s) = count + 1 /\ \A i \in 1..(count + 1) : s[i] = IF i = 1 THEN e ELSE Newest[i - 1]
  BY <1>1 DEF SlotsOK
<1>3. \A i \in 1..(count + 1) : s[i] = IF i = 1 THEN e ELSE entries[Slot(i - 1)]
  BY <1>2 DEF SlotsOK, Newest
<1>4. n = IF cap < Len(s) THEN cap ELSE Len(s)
  BY <1>2, CapPositive DEF SlotsOK
<1>5. Abstract!AtMost(cap, s) = [i \in 1..n |-> s[i]]
  BY <1>4 DEF Abstract!AtMost
<1>6. \A i \in 1..n : s[i] = IF i = 1 THEN e ELSE entries[Slot(i - 1)]
  BY <1>3, <1>2, <1>4, CapPositive DEF SlotsOK
<1> HIDE DEF s
<1>7. [i \in 1..n |-> s[i]] = [i \in 1..n |-> IF i = 1 THEN e ELSE entries[Slot(i - 1)]]
  BY <1>6, Zenon
<1>8. Abstract!AtMost(cap, s) = [i \in 1..n |-> IF i = 1 THEN e ELSE entries[Slot(i - 1)]]
  BY <1>5, <1>7, Zenon
<1> QED BY <1>8 DEF s

(* A record is a record of the bounded log. *)
LEMMA RecordRefines ==
    ASSUME SlotsOK, NEW e \in Entries, Record(e)
    PROVE  SlotsOK' /\ Abstract!Record(e)
<1>1. /\ head' \in 0..(cap - 1)
      /\ entries'[Slot(1)'] = e
      /\ \A i \in 2..cap : entries'[Slot(i)'] = entries[Slot(i - 1)]
  BY RecordShifts
<1>2. count' = (IF count < cap THEN count + 1 ELSE count) /\ count' \in 1..cap
  BY CapPositive DEF SlotsOK, Record
<1>3. \A i \in 1..count' :
         entries'[Slot(i)'] = IF i = 1 THEN e ELSE entries[Slot(i - 1)]
  BY <1>1, <1>2, CapPositive
<1>4. cap' = cap
  BY DEF cap
<1>5. entries' \in [0..(cap - 1) -> Entries \cup {Blank}]
  BY DEF SlotsOK, Record
<1>6. \A i \in 2..count' : i - 1 \in 1..count
  BY <1>2 DEF SlotsOK
<1>7. SlotsOK'
  BY <1>1, <1>2, <1>3, <1>4, <1>5, <1>6 DEF SlotsOK
<1>8. Newest' = [i \in 1..count' |-> IF i = 1 THEN e ELSE entries[Slot(i - 1)]]
  BY <1>3 DEF Newest
<1>9. Newest' = Abstract!AtMost(cap, <<e>> \o Newest)
  BY <1>2, <1>8, Prepend
<1> QED BY <1>7, <1>9 DEF Abstract!Record, Record

(* Every step keeps the types and is a step of the bounded log. *)
LEMMA StepRefines ==
    ASSUME SlotsOK, [LogNext]_logVars
    PROVE  SlotsOK' /\ [Abstract!Next]_(Abstract!vars)
<1>1. ASSUME NEW e \in Entries, Record(e)
      PROVE  SlotsOK' /\ [Abstract!Next]_(Abstract!vars)
  BY <1>1, RecordRefines DEF Abstract!Next
<1>2. ASSUME NEW limit \in Limits, Recent(limit)
      PROVE  SlotsOK' /\ [Abstract!Next]_(Abstract!vars)
  <2>1. SlotsOK' /\ Newest' = Newest
    BY <1>2 DEF SlotsOK, Recent, Newest, Slot, cap
  <2>2. limit \in Nat
    BY LimitsAssumption
  <2>3. Len(Newest) = count /\ \A i \in 1..count : Newest[i] = entries[Slot(i)]
    BY DEF Newest, SlotsOK
  <2>4. Abstract!AtMost(limit, Newest)
           = [i \in 1..(IF limit < count THEN limit ELSE count) |-> Newest[i]]
    BY <2>3 DEF Abstract!AtMost
  <2> DEFINE n == IF limit < count THEN limit ELSE count
  <2>5. \A i \in 1..n : i \in 1..count
    BY <2>2 DEF SlotsOK
  <2> HIDE DEF n
  <2>6. [i \in 1..n |-> Newest[i]] = [i \in 1..n |-> entries[Slot(i)]]
    BY <2>3, <2>5
  <2>7. Abstract!Recent(limit)
    BY <1>2, <2>1, <2>4, <2>6 DEF Abstract!Recent, Recent, n
  <2> QED BY <2>1, <2>7 DEF Abstract!Next
<1>3. CASE Reset
  <2>1. SlotsOK'
    BY <1>3, CapPositive DEF SlotsOK, Reset, cap
  <2>2. Newest' = <<>>
    BY <1>3 DEF Reset, Newest
  <2> QED BY <1>3, <2>1, <2>2 DEF Abstract!Next, Abstract!Reset, Reset
<1>4. CASE UNCHANGED logVars
  BY <1>4 DEF logVars, SlotsOK, Slot, cap, Abstract!vars, Newest
<1> QED BY <1>1, <1>2, <1>3, <1>4 DEF LogNext

(* The initial buffer is an empty log. *)
LEMMA InitRefines ==
    ASSUME LogInit
    PROVE  SlotsOK /\ Abstract!Init
BY CapPositive DEF LogInit, SlotsOK, Abstract!Init, Newest

(* The indices stay in the buffer and no blank slot is ever in use, for    *)
(* every capacity.                                                         *)
THEOREM SlotsCorrect == LogSpec => []SlotsOK
<1>1. LogInit => SlotsOK
  BY InitRefines
<1>2. SlotsOK /\ [LogNext]_logVars => SlotsOK'
  BY StepRefines
<1> QED BY <1>1, <1>2, PTL DEF LogSpec

(* The ring buffer is the bounded log of BoundedLog, for every capacity.   *)
THEOREM LogRefinement == LogSpec => ImplementsBoundedLog
<1>1. LogInit => Abstract!Init
  BY InitRefines
<1>2. SlotsOK /\ [LogNext]_logVars => [Abstract!Next]_(Abstract!vars)
  BY StepRefines
<1> QED BY <1>1, <1>2, SlotsCorrect, PTL DEF LogSpec, ImplementsBoundedLog, Abstract!Spec
=============================================================================
