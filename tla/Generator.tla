------------------------------ MODULE Generator ------------------------------
(***************************************************************************)
(* What the requests of a server share through its one DataGenerator       *)
(* (internal/generator): the values of the examples in the schemas, which  *)
(* generate returns as they are, and the maps of the schemas already       *)
(* warned about.  Neither is locked.                                       *)
(*                                                                         *)
(* The schema is that of a wrapped list, whose items handleList (in        *)
(* internal/router) writes into what it generated.  Requests run           *)
(* concurrently; a step of one is what it does to one shared map.          *)
(***************************************************************************)
EXTENDS FiniteSets

CONSTANTS
    Requests,       \* each made once, all simulated ones alike
    Authored,       \* the items in the example of the document
    None

VARIABLES
    hasExample,     \* has the schema an example at its root?
    deep,           \* does generation meet the depth limit?
    example,        \* the items in the example
    warned,         \* has the schema been warned about?
    resources,      \* what the store holds
    kind,           \* "create", "list", "simulated" (X-Mimikos-Status), or None
    stage,          \* "new", "generating", "warning", "placing", "encoding", "answered"
    items,          \* of a list: what it read from the store
    answer,         \* the items in the answer
    alive           \* a fatal error of the runtime ends the process

setup == <<hasExample, deep>>
shared == <<example, warned, resources>>
vars == <<setup, shared, kind, stage, items, answer, alive>>

Init ==
    /\ hasExample \in BOOLEAN
    /\ deep \in BOOLEAN
    /\ example = Authored
    /\ warned = FALSE
    /\ resources = {}
    /\ kind = [r \in Requests |-> None]
    /\ stage = [r \in Requests |-> "new"]
    /\ items = [r \in Requests |-> None]
    /\ answer = [r \in Requests |-> None]
    /\ alive = TRUE

Goto(r, where) == stage' = [stage EXCEPT ![r] = where]

\* handleCreate stores a resource.
Create(r) ==
    /\ stage[r] = "new"
    /\ kind' = [kind EXCEPT ![r] = "create"]
    /\ resources' = resources \cup {r}
    /\ Goto(r, "answered")
    /\ UNCHANGED <<setup, example, warned, items, answer, alive>>

\* handleList reads the store and then generates its envelope.
List(r) ==
    /\ stage[r] = "new"
    /\ kind' = [kind EXCEPT ![r] = "list"]
    /\ items' = [items EXCEPT ![r] = resources]
    /\ Goto(r, "generating")
    /\ UNCHANGED <<setup, shared, answer, alive>>

\* With a status asked for, the same operation only generates.
Simulate(r) ==
    /\ stage[r] = "new"
    /\ kind' = [kind EXCEPT ![r] = "simulated"]
    /\ Goto(r, "generating")
    /\ UNCHANGED <<setup, shared, items, answer, alive>>

Generated(r) == IF kind[r] = "list" THEN "placing" ELSE "encoding"

\* An example ends generation; else the depth limit is warned about once.
Generate(r) ==
    /\ stage[r] = "generating"
    /\ Goto(r, IF ~hasExample /\ deep /\ ~warned THEN "warning" ELSE Generated(r))
    /\ UNCHANGED <<setup, shared, kind, items, answer, alive>>

Warn(r) ==
    /\ stage[r] = "warning"
    /\ warned' = TRUE
    /\ Goto(r, Generated(r))
    /\ UNCHANGED <<setup, example, resources, kind, items, answer, alive>>

\* envelope[entry.ListArrayKey] = items: the envelope may be the example.
PlaceItems(r) ==
    /\ stage[r] = "placing"
    /\ example' = IF hasExample THEN items[r] ELSE example
    /\ Goto(r, "encoding")
    /\ UNCHANGED <<setup, warned, resources, kind, items, answer, alive>>

\* Without an example, a simulated answer depends on the request only.
Encode(r) ==
    /\ stage[r] = "encoding"
    /\ answer' = [answer EXCEPT ![r] =
                     IF hasExample THEN example
                     ELSE IF kind[r] = "list" THEN items[r] ELSE Authored]
    /\ Goto(r, "answered")
    /\ UNCHANGED <<setup, shared, kind, items, alive>>

\* Two accesses to one map, one of them a write: Go's runtime may notice.
Collide(r, q) ==
    \/ stage[r] = "warning" /\ stage[q] \in {"generating", "warning"}
    \/ hasExample /\ stage[r] = "placing" /\ stage[q] \in {"placing", "encoding"}

FatalError ==
    /\ \E r, q \in Requests : r # q /\ Collide(r, q)
    /\ alive' = FALSE
    /\ UNCHANGED <<setup, shared, kind, stage, items, answer>>

Next ==
    /\ alive
    /\ \/ \E r \in Requests :
             \/ Create(r) \/ List(r) \/ Simulate(r)
             \/ Generate(r) \/ Warn(r) \/ PlaceItems(r) \/ Encode(r)
       \/ FatalError

Spec == Init /\ [][Next]_vars
-----------------------------------------------------------------------------
(***************************************************************************)
(* README: "same request always returns the same response".  The simulated *)
(* requests are all the same, and no state of the store is to be seen in   *)
(* their answers.                                                          *)
(***************************************************************************)
SameResponse ==
    \A r, q \in Requests :
        /\ kind[r] = "simulated" /\ stage[r] = "answered"
        /\ kind[q] = "simulated" /\ stage[q] = "answered"
        => answer[r] = answer[q]
==============================================================================
