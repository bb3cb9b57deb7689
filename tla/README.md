# Verification of Mimikos

Mimikos (Go, `src/`) turns an OpenAPI document into a mock server without any
configuration.  At startup it classifies each operation (create, fetch, list,
update, delete, generic) and compiles its schemas; at run time it answers from
seeded random data (deterministic mode) or from a bounded in-memory store
(stateful mode).  As an MCP server it lets an agent start and stop one mock
server, force the status of the next request, read a log and change the state.

This directory holds TLA+ models of it, TLC runs over small instances and
theorems checked by TLAPS.  Line numbers below are those of `src/`.

## 1. Inventory

| component | state | operations | what makes it correct |
|---|---|---|---|
| Resource store, `internal/state/in_memory.go`, `store.go` | nested maps namespace → scope → id → entry; an LRU list; a capacity; one mutex | Get, Put, Delete, List, Count, Reset, evict | maps and list agree; never over capacity; the victim is the least recently used; no empty inner maps |
| Resource identity, `internal/state/identity.go` | none | ResourceType, ParentScope, extractResourceID | what POST stores is where GET, PUT and DELETE look; parents do not mix |
| Stateful metadata, `internal/server/stateful_metadata.go` | ID hint, wrapper key and list array key of each operation, fixed at startup | computeIDFieldHint, detectWrapperKey, detectListArrayKey | POST, GET and the list agree on where in a body the resource is |
| Stateful handlers, `internal/router/stateful.go` | none but the store; one goroutine per request | create, fetch, list, update, delete | the sequential meaning of CRUD, as far as overlapping requests allow |
| Router, `internal/router/router.go`, `scenario.go`, `internal/errors` | none | validation, branch on the mode, scenario selection, recovery from panics | nothing is written before the checks; the status and content sent are those the request and the document account for |
| Startup, `internal/server/server.go`, `internal/builder` | the behavior map | Build, BuildBehaviorMap | each operation has an entry or a placeholder; degraded schemas are recorded |
| Classifier, `internal/classifier` | none | three layers | a later layer does not undo what method and path have settled |
| Data generator, `internal/generator` | warn-once maps and the examples inside schemas, shared by all requests, not locked | Generate | same request, same answer; complete data; ends on circular schemas; keeps to bounds |
| MCP server, `internal/mcp` | one Instance (mutex, running, server, log, overrides, store); one-shot status overrides; a ring buffer of requests | start, stop, status, request_status, get_request_log, manage_state, list/get endpoints; two middlewares | one server at a time; an override is used once, by the next request; what is answered is in the log |
| Command line, `cmd/mimikos` | the process: where the main goroutine is, the context, the server's channel, the release check | start, mcp, release check, signals, shutdown | clean shutdown, honest exit status, no waiting for GitHub |
| Parser, `internal/parser`, and compiler, `internal/compiler` | none over time | extraction of operations, normalisation of OpenAPI 3.0 schemas | what the document says of a response is what is sent |
| Request validator, `internal/validator` | none over time | Validate | nothing that fails is stored |

Interactions: the MCP instance wraps the router's handler as *override → log →
router*; the router's handlers call the generator and the store; the store is
the only component whose own lock protects everything it shares.
`manage_state` calls the router's handler directly, past both middlewares.

Where it is hard: `net/http` runs requests in parallel, and an update is a read
and a write of the store with nothing held in between; eviction may remove what
another request has just read; the ID of a resource is found in two different
ways by POST and by all others; stopping a server waits for requests, with a
time limit, while the instance's mutex is held; the generator hands out maps
that others write to.  `PROJECT.json`, "hazards", lists each at its line.

## 2. Modules

    LRUStore      what a store promises          InMemory   maps and list
        ^  \                                        |  \
        |   `----------- implemented by ------------'   LRUHistory (who was used when)
    StatefulHandler  requests over the store
    Identity <- Metadata <- IdentityCheck   keys and places of a resource in
                                            POST, GET and the list
    Parser <- Builder <- Pipeline           from a document to an answer
    Behaviors <- Builder       types of operations, by method
    Behaviors <- Classifier    the three layers
    Primitive <- Generation    what some seed generates for a schema
    Generator                  what requests share through the generator
    BoundedLog <- implemented by - RequestLog      the ring buffer
    McpServer                  instance, tools, middlewares, requests
    Cli                        the process
    MC*                        bounds for TLC
    InMemoryProofs, GenerationProofs, CliProofs, McpServerProofs,    theorems
    ClassifierProofs, PipelineProofs, StatefulHandlerProofs, IdentityProofs

* **LRUStore** is the abstract store: a function from keys to data, the order of
  last use as a set of pairs, and the result of the last call.  **InMemory** is
  the code: `resources` are the nested maps, `lru` the list from front to back, one
  action per method, with what each method does to each of the two structures
  as an operator.  Each method holds the mutex from start to end, hence one
  action.  Its property `ImplementsLRUStore` is the refinement.
  **LRUHistory** adds a history of uses of one watched key.
* **StatefulHandler** cuts each handler at its calls of the store: one step for
  create, fetch, list and delete, two for update.  It works over LRUStore, which
  is justified by the refinement.  `before` records which requests had been
  answered when a request arrived, so that properties can speak of overlap.
* **Identity** holds the operators that find namespace, scope and ID;
  **Metadata** those that read wrapper and list keys off compiled schemas (a
  graph with references and allOf), and wrap and unwrap with them.
  **IdentityCheck** annotates a family of operations as startup does and runs
  one POST, the fetch that follows or a list.  What is generated for the POST and
  for the envelope of the list is any member of `Generable` for the schema of the
  response: fields made for this request or taken from an example inside the
  schema (layer "static"), an example of the whole body, or no object at all.
  Example and request are laid over it (`Merged`) as `handleCreate` does, with
  and without envelope, and `URLParam` is what chi gives back for a value in a
  path, its escaped text where it needs one.  `Conforms` is what JSON Schema says
  of a value, written apart from the detection of keys that it judges.
* **Parser** extracts an operation from the document: the JSON media type, the
  responses with their codes, the default response, the request body, examples.
  **Builder** makes an entry of it; **Pipeline** takes a document's operation
  through all of it, then any request through the validator
  (`RoutingErrors` are those of the library's errors, an input, that decide
  between 404, 405 and 400), the checks, the choice of mode and
  scenario, and each way to answer.  Whether a resource is held is an input.
  Of examples and request bodies it keeps whether they set a field of a resource,
  which is what `handleCreate` asks before it lays them over (`Created`), and of a
  status what `net/http` makes of it (`Sent`, `Bodiless`).
* **Generation** gives the set of values that some seed generates for a schema
  of a document (a graph, cycles included) under the code's two recursion
  counters; **Primitive** gives the integers, with the bounds of both OpenAPI
  versions and the arithmetic of `generateInteger` on rationals.
* **Classifier** has one action per layer; confidences are integers in
  hundredths.  **Behaviors** is what it guarantees Builder and Pipeline: the
  types an operation may have by its method (`MethodAgrees`).  Any type is
  possible for a POST to an item, which names may make an update.
* **Generator** has, for the schema of a wrapped list, one step per access to a
  shared map, and a `FatalError` wherever Go's runtime may detect two at once.
* **RequestLog** is the ring buffer with its arithmetic; **BoundedLog** the
  sequence it stands for.
* **McpServer** has the instance's mutex (`lock`), the servers ever started,
  tool calls cut at each acquisition of the mutex, and requests cut at the
  middlewares.  A server's log is a bounded sequence, as BoundedLog has it;
  `recorded` beside it is history, all that was ever recorded.  `handleStopServer`
  asks the instance for the status before it stops, `handleStartServer` for the
  status and then for the endpoints after it has started, each a step of its own
  with the mutex released in between.  `crashed` is the end of the process by a
  panic in a tool's handler (`PathPanics`).
* **Cli** is the process from the command line to its exit status.  `phase` is
  the main goroutine; the goroutines of the release check, of `srv.Serve`, of
  the signal context and of the requests are actions beside it.

Operators marked *Mutant* are plausible errors in the code; the properties are
tested against them, one each.

## 3. Runs

| run | bounds | shows |
|---|---|---|
| store | 2 namespaces, 2 scopes, 2 ids, 2 data, capacity 2 | consistency of maps and list, capacity, refinement, LRU choice |
| identity | pets and categories, flat, below a clinic, below a pet, and below a clinic and a ward; 4 parameter names, 4 body fields, families of response schemas (plain, wrapped, by reference, by allOf, by default response, open, none), 2 values for each parent | POST and fetch address the same key; answers are valid for their own schemas; media-type examples never set the ID; parents are apart |
| identity_created | same | **violated**: a nested resource that repeats its parent's ID |
| handlers | 3 writers, 1 reader, 2 resources that evict each other | sequential meaning, revival only by a race, no leak |
| request_log | capacity 3 | the ring buffer is a bounded log |
| mcp | 2 requests, 4 tool calls, 2 of them at once, 4 events in all, which tools each call may be of (`MCTools`), 2 endpoints, log of 1, both modes, override 0, header 103 | overrides, log, simulated statuses, single instance, clean stop, what start and stop report, liveness of tool calls |
| pipeline | every mix of no, one or two responses, media types, schema none/good/bad, example, default response, request body, header, library error, mode, strict | the status and content of each answer |
| cli | all commands, flags at and beyond their limits, 2 signals, 2 requests | clean shutdown and honest status, a signal ends the process, startup waits for nobody |
| generation | two schemas in all the forms the generator tells apart, referring to each other or to fixed ones; an integer with every mix of bounds; maximum depth 1, 2 and the default; `MaxRecursion` 24, default array length 1, default maximum 8 | completeness, depth limit, integers within their bounds |
| nesting | same | **violated**: allOf with properties nests past the maximum depth |
| generator | 4 requests | **violated**: a list changes later simulated answers |
| classifier | all shapes of paths, names of up to two tokens | what layers may not undo |

Why the bounds are enough.  *Store*: all interactions are between two entries of
the same scope, of two scopes of a namespace, or of two namespaces, and each
pair occurs at and below capacity; the theorems drop the bounds.  *Handlers*: a
violation of the properties needs a write, two more that overlap, and a read; a
lookup changes the store only in the LRU order, which a capacity of 1 does not
show. Requests for a single resource never reach the limit, so the run covers
the unlimited store too, and a miss is excused only when as many other
resources as fit were written (`Crowded`).  *Identity*: a path below a resource
of its own kind is the one case in which a parent's parameter, without the
prefix, has the name of a field of the resource itself.  A parent's value
can be told from another's in any place of the scope only with two parents, which
one family has.  *MCP*: a race has two calls, or a call and a request, that read and
act, and what happens between.  For that a server has to be started first, and
to replace it takes two calls more, a stop and a start: hence four calls, two at
once, two requests, and four events in all, each of which may be either.  The
calls are of the tools that play these parts: the first starts a server, the
second is any tool, and those after it switch the server or set an override
(`MCTools`).  With those, `manage_state` reaches a deterministic server that has
replaced a stateful one, the exception in `ManagesOnceStateful`, and its mutant
reaches one that has replaced nothing.  Two answered requests, of which a log of one keeps
the later, are what `AnsweredIsLogged` needs in both of its cases.
*Pipeline and classifier*: one input at a time,
no state between requests; the inputs combine all values the code tells apart,
among them a document with `application/json` without a schema beside a `+json`
type with one.
*Process*: the flags have values on both sides of each limit; a second signal
and a second request add what the first of each leaves open; SIGINT and SIGTERM
are treated alike.  *Generation*: what a schema makes of another depends on the
other's values only, so two schemas and the ones they end in give each
combination of forms and each cycle; the counters are scaled: 24 calls, 64 in the code, leave
each of at most four levels (three of depth and the one that is cut) six, two
for each of the three schemas a chain of references and allOf can have here,
while a circular document still runs into the guard; and an array has one
element since elements do not influence each other.

Fairness.  `McpServer`: weak fairness of each step of a tool call (a goroutine
that can run does; a mutex released only once is obtained in the end) and of
nothing else: a request may hang for ever, which is why `Stop` has a time limit
and why `EveryCallAnswered` depends on it.  Rejecting a bad specification is an
action outside fairness, so that it cannot stand in for an action that waits
for the lock.  `Cli`: weak fairness of the main goroutine, whose waits all end
by a timer or a channel, of the goroutine in `Serve`, and of the one that cancels
the context.  GitHub need not answer, a request may hang, nobody has to send a
signal, the agent need not close the transport, and `Serve` need not fail.  The
other specifications say what may happen; their runs end when every request is
answered, and their configurations switch the deadlock check off for that
reason.

### Divergences found

`PROJECT.json`, "findings", quotes the lines.
1. `identity.go:143`: on `POST /clinics/{clinicId}/pets` the last path parameter
   is the parent's; a body that repeats `clinicId` makes it the ID of the pet.
   The same property fails without the parent for an exact match such as
   `liveStreamId` (`identity.go:151`): a collection path has no parameter and
   `stateful_metadata.go:239` leaves the hint empty.  And on
   `/pets/{petId}/pets/{pet_gid}` the parent's parameter without its prefix is
   `id` (`identity.go:163`), which comes before the hint `gid`.
2. `generator.go:174`: a schema with `allOf` and properties of its own never
   meets the depth check, and a circular one nests until `maxRecursion`.
3. `stateful.go:195` with `generator.go:193`: the list envelope is the schema's
   own example, not a copy.

Seen while modelling, stated as exceptions of properties or held in the models:

* Handlers: two concurrent PATCHes lose one's fields, and a PATCH revives a
  resource that a DELETE removed (`stateful.go:248,266`; `RevivedOnlyByRace` says
  exactly when).  A creation is not validated again after the example and the
  request are merged (`stateful.go:101`; a "resource" of `Created`).
* Identity: a schema without `type: object`, its properties notwithstanding, is
  no wrapper (`detectWrapperKey`, `stateful_metadata.go:114`), so the envelopes
  that `AnswersConform` is about admit objects only (`IsOnly`), are closed, and
  require their one property; the lists are those with one array.
  `generateListEnvelope` puts the items into an empty map where it generates no
  object (`stateful.go:209`), so an answer may lack what its schema requires: a list
  is claimed to be valid when its envelope was.  `RetrievableById` is about bodies that
  repeat no parameter of a parent, in either of the two forms of finding 1
  (`NoParentField`; the second form was found by the proof), and values that a
  path does not escape: chi hands out what stands in `RawPath`
  (`stateful.go:486`), so an ID with a slash is stored as it is and asked for as
  `%2F`, and GET answers 404 (`ReadAsWritten`).
* An example inside the schema, of the ID property (`primitive.go:97`) or of the
  whole body (`generator.go:192`), is generated for every creation, which then
  all have one ID, although the base layer "provides unique IDs"
  (`stateful.go:69`).  `ExampleNeverSetsId` is about the media-type example.
* `isDegradedStateful` (`stateful.go:344`) lets an operation without a usable
  schema pass for its example.  `handleDelete` does not use it, and `handleCreate`
  only if it is an object that sets something (`stateful.go:96`): a DELETE, and a
  POST with such an example and a request that sets nothing, answer `{}` where
  CHANGELOG.md:131 speaks of an error instead of `{}`.  `DegradedNeverEmpty` has
  these two exceptions.
  It is about the media type that the parser takes: with `application/json`
  without a schema beside a `+json` type with one, the answer is `{}`
  (`parser.go`, `findJSONMediaType`; found by the proof).
* A success whose own schema did not compile is answered from the default
  response (`scenario.go:83`); a response keyed `2XX` is ignored
  (`parser.go`, `ExtractResponses`).
* MCP: `manage_state` refuses the empty path only; on one that does not parse,
  such as `pets` or `/a b`, `httptest.NewRequest` panics (`tools.go:421`).  Nothing in
  the repository recovers from that: the process ends, unless the MCP library,
  which is not part of it, recovers (`PathPanics`; exception of
  `EveryCallAnswered`).
  A status that `net/http` refuses, such as an overriding 0, is sent as 500, and
  an informational one, 100 to 199 but 101, is followed by 200; the log has the
  first status in both cases (`reqlog.go:114`; exceptions of `LogTellsStatus`);
  log entries are stamped at the end, not when received (`reqlog.go:144` against `:21`); `manage_state` may
  act on a server in deterministic mode that replaced the stateful one it
  checked (`tools.go:355-407`), and always updates with PUT (`tools.go:333`).
* Generator: unlocked warn-once maps (`generator.go:149,197,216`, `FatalError`).
  A member of `allOf` without type or properties is generated as a string and
  replaces the object (`generator.go:493`; exception of `Complete`), and
  properties beside a `$ref` are left out, since the reference is followed first
  (another condition of `Complete`; found by the proof).  A chain of references
  and allOf that uses up the 64 calls ends in null although nothing in it is
  circular (`generator.go:148`; hence the room that `Complete` and `LeavesCalls`
  ask for).  Integers
  (`primitive.go:297-360`; conditions of `IntegersValid`): a negative maximum
  without a minimum gives 0, a range of negative multiples is snapped outside,
  fractional bounds are truncated, and a minimum above the default maximum with
  a `multipleOf` gives a multiple below the minimum.
* Classifier: the summary "Show ..." makes an override eligible and the
  operationId gives its type, so `findPet` becomes a list (`layer3.go:120,126`);
  a 204 lifts an unsure POST to an item out of the reach of layer 3
  (`layer2.go:73`).
* Process: a signal during `Parse` exits with 1 and "context canceled"; `mcp`
  returns without stopping the server its tools started (`main.go:378`); when a
  signal and an error of `Serve` come together, the `select` may take the signal
  and exit with 0 (`main.go:301`; `CleanExit` says when).

## 4. Proofs

All theorems hold for every value of the constants under the named assumptions
of the modules, which TLC evaluates in the runs.  They state every safety
property of the passing runs but `AnswersConform`.

* **InMemoryProofs**: `TypeCorrect`, `MapsMatchListAlways`, `NoEmptyMapsAlways`,
  `WithinCapacityAlways`.  The four invariants are proved together as one
  inductive invariant, since each needs another: that evicting keeps the maps
  and the list in step needs the list without repetitions; that at capacity the
  victim exists needs maps and list to match; the bound needs the list's length
  to be the number of resources held.  There is one lemma per operator on the
  maps (`Insert`, `Overwrite`, `AssignOrDrop`, `Remove3`) and on the list
  (`Unlink`, `PushFront`, `MoveToFront`), stated pointwise, then one step per
  action.  `Refinement`: every behaviour is one of LRUStore under the mapping
  that reads the entries off the maps and the order of use off the list, one
  lemma per action, results included.  `EvictedOnlyWhenStaleTheorem`, an action
  property: the additional invariant (`HInv`) is that every key in front of the
  watched one in the list was used since the watched one was; an eviction takes
  the last of a full list, so those are at least as many as the capacity.
* **GenerationProofs**: `CompleteCorrect`, `LimitCorrect`, `IntegersCorrect`, for
  every document, cycles included, every seed and all limits.  They are facts
  about a recursive function, and the library's induction theorems cannot be
  used; so the proofs look at the least argument at which a claim might fail
  (`Least`).  That functions with the equations of `Values`, `AtDepth` and `Level`
  exist at all is `RecursionEnds`: the finite stages of the recursion agree where
  they overlap, and put together satisfy the equation.  The schemas a value is
  put together from are the least set closed under references, choices and
  members of allOf (`ClosureIsLeast`); in a document that is not circular it
  shrinks with each of those (`PartIsSmaller`), so two calls per schema are enough,
  and this is what the premises `2 * Cardinality(parts) <= MaxRecursion` and
  `LeavesCalls` say.  `CompleteStep` follows one part; `Origin` says that what lies
  in a value was generated, one level deeper, for something the closure contains,
  whence what lies at a level of the answer (`Levels`), that nothing is below the
  limit (`LimitHolds`) and that null has a reason (`NotNull`).  The state
  invariant is only that the answer is among the `Values` of the root
  (`GeneratedOK`): there is one step, and all of the argument is in the operators.
  `IntegersKeepBounds`: each integer that `generateInteger` may draw keeps to its
  schema's bounds and is a multiple, under the conditions of `IntegersValid`.
  The witness that there is room is a multiple between the bounds, so the lower
  bound rounded up is at most that.
* **CliProofs**: `HonestExit`, that is `CleanExit`, for any flags, requests and
  number of signals.  The status depends on which channel the `select` takes, so
  the invariant says what the channel can hold: `http.ErrServerClosed` gets
  there only after `Shutdown`, which only the same goroutine calls, and an error
  of `Serve` is in the channel as soon as the server is down.  One lemma per
  group of steps.
* **McpServerProofs**: all nine safety properties and the type invariant, for
  any number of calls, requests and servers and any capacity of the log.
  `Basics` is inductive by itself: the types (`ServersOK`, `CallsOK`,
  `RequestsOK`) and `Standing`, what a call has in its hands at each of its
  steps (whoever drains holds the mutex and the running server, which no longer
  listens).  Lemmas named *Effect* and *Outcome* say what any step can do to a
  server, a call or a request; each property then has an invariant of its own
  relative to `Basics`:
  `CleanStopDrains` that a server stopped in time is closed and has nothing in
  flight, so that nothing comes after (`StoppedClosed`); `OneShot` that the
  override of a call waits at its own endpoint and server, or has been taken
  once, or is gone (`WaitingOverrides`, `UsedOverrides`); `NextRequestOverridden`
  that a request past the middleware has left behind none that was set before
  it came (`PassedBy`); `AnsweredIsLogged` that the log is the end of the
  history of what was recorded, newest first, and that each request stands in
  that history once after it was recorded (`LogOnce`): so its place there, and
  nothing else, decides whether the log still has it; `LogTellsStatus`
  that entry and answer come from the same scenario (`ServedTells`);
  `SimulatedLeavesState` that what is forced no longer changes once the state
  has been consulted (`StateMarks`); `ManagesOnceStateful` that a call past the
  check of the mode gets a server at or after a stateful one (`Managed`);
  `ReportsOwnServer` that a call still has the instance's server or a rival has
  acted since (`Reports`).
  Also here: the ring buffer that the log is.  `SlotsCorrect` is its
  invariant, `LogRefinement` that it implements BoundedLog, whose sequence is
  what McpServer keeps.  Recording shifts each entry by one place of the
  newest-first order; that the slot of the i-th newest after a record is the
  slot of the (i-1)-th before it is the heart, and takes the modulus apart by
  hand, since SMT does not reason about `%` with a symbolic divisor.
* **ClassifierProofs**: `ActionStaysGenericTheorem`, `MethodAgreesTheorem`,
  `ArrayStaysListTheorem`.  The argument is about confidences: what layer 1
  gives for the properties' operations is above the first threshold of layer 3
  (`Sure`), what layer 2 makes of a list that answers with an array is above the
  second (`ArrayCertain`), and types stay within the method's (`Typed`).
  `MethodAgreesTheorem` is also the link between the components: what the
  classifier hands on is what Builder and Pipeline, whose `Init` takes any type
  of `BehaviorsOf`, are about.
* **PipelineProofs**: the four properties, for every document.
  The invariant is that the entry is what the builder makes of the operation
  (`Built`), that a request is validated only when nothing refuses it
  (`Passed`) and that only such a request without a simulated status has written
  (`Wrote`).  `Sound` says of an answer what three of the properties need; each
  action that answers sends a sound one.
* **StatefulHandlerProofs**: `SequentialFetchTheorem`,
  `RevivedOnlyByRaceTheorem`, `NoLeakTheorem`, for any number of concurrent
  requests and any capacity.  A step is one of ten effects (`Does`).  Inductive
  over those: what is held, has been read by an update or was answered comes
  from requests for that key (`Owned`); what is held after a deletion was put
  there by a request the deletion did not follow (`Revivals`); and while the
  answered writes to a key are in sequence, the store holds what they say, or
  the key was evicted and at least as many other keys as fit were written
  (`Sequential`): everything more recently used than a key that was written and
  then evicted is itself written, since only writes insert.
* **IdentityProofs**: `RetrievableByIdTheorem`, `ParentsIsolatedTheorem`,
  `ExampleNeverSetsIdTheorem`, for every family of paths, every set of fields and
  all schemas.  The invariant says that the state is what the operators make of
  the family and the bodies; the properties are lemmas on the operators: the
  scope's values are those of the prefix in order (`RankIsBijection`,
  `ScopeTellsParents`), the first strategy that finds a field in the body finds
  the advertised one (`FirstFound`), all fields that the strategies look at are
  protected (`FoundIsIDField`), and what is protected comes from no media-type
  example through both layers, in its envelope or without (`LayOverGuarded`,
  `ProtectedNotExample`, `IDIsProtected`).  It has one hypothesis,
  `UuidsAreFresh`: no UUID is a value an example gives.

Only model-checked: liveness (`EveryCallAnswered`, `SignalEnds` and what else is
temporal in the runs `mcp` and `cli`), out of the prover's reach,
`AnswersConform`, and the runs that expect a violation.  It compares values with
schemas through what the detection of keys returns, for every shape a schema may
have; the run has those of `MCSchemas`.  tlapm knows
nothing of `SortSeq`, a recursion: hence
`Ascending` in LRUStore and `Nth` in Identity choose what a sort would compute.
Its SMT translation knows no functions of several arguments: hence `Values` takes
its three one after the other.

## 5. Not modelled, and abstractions

* Building pointers and compiling schemas (`compiler.go`, `parser.go:34-145`):
  conversions by libopenapi and jsonschema.  Whether a schema compiles, and
  which errors libopenapi-validator reports, are inputs of Pipeline; a reference
  that leads back to itself does not compile and is no input of Generation.
* Strings, numbers, booleans, formats and semantic values of the generator, its
  seeds and fingerprints: data.  In Generation they are one leaf; `const` and
  `enum`, which stand for a leaf whatever the type, and the retries for
  `uniqueItems`, which change no structure, are left out.
* `server_status`, `list_endpoints`, `get_endpoint`, the startup summary and the
  text of notices and errors: they only read or print.
* chi's routing, `net/http`, `os/signal` and GitHub are external: modelled as
  far as `src/` uses them.
* Wrapper keys are an envelope around the resource: Metadata and IdentityCheck
  have them, StatefulHandler leaves them out.
* That a value is a valid one of its format, or within its range, is no part of
  `Conforms`, which is about types, required properties and items.
* Field values are the names of the requests that sent them, paths are sequences
  of segments, names are triples or token sequences, SHA-256 is an injective
  operator.  `store.Put` of InMemory never fails, so its error path is left out.
* X-Mimikos-Status takes values among chosen codes: the default's key 0, an
  informational one, the success, one that is documented and one that is not.

## 6. Plan

1. (done) store, refinement, proofs; identity; handlers; log; MCP; pipeline;
   classifier; generator's shared maps.
2. (done) metadata; parser; the structure and integers of generated data; the
   process and its theorem.
3. (done) proofs: every safety property of the store, the handlers, identity,
   the log, MCP, the pipeline, the classifier and the process.
4. (done) the classifier's guarantee to Builder and Pipeline.
5. (done) Generation: completeness, the depth limit and the integers, through the
   definition of `Values`.
6. Left: composing InMemory with McpServer's `manage_state`, and Classifier with
   IdentityCheck; strings, numbers and formats, should a property ever be about
   them.
