# TLA+ specifications of FlexRIC

FlexRIC connects E2 agents (in base stations) with xApps (control
applications) through a near-RT RIC. These modules model the processes, threads
and shared state that carry a request from an xApp to an agent and its answer
and indications back. `PROJECT.json` lists components, runs, mutants, the
definitions with the source lines they model, findings, hazards and theorems.
Paths below are relative to `src/`.

## 1. The system

| Part | State it keeps | Operations | Hard about it |
| --- | --- | --- | --- |
| near-RT RIC, RIC thread (`src/ric`) | node addresses, connected nodes, pending timers, request counter | setup request, answers, indication, shutdown notification, timer | shares everything with the iApp thread; aborts on a failed assert |
| near-RT RIC, stopping (`free_near_ric`, `free_e42_iapp`) | stop tokens of two loops, eight structures with a mutex each | stop and free the RIC, then the iApp | the iApp thread still runs when the RIC's structures are freed |
| near-RT RIC, iApp thread (`src/ric/iApp`) | `map_ric_id` (RIC request id to xApp id and handle), xApp addresses, registry of nodes | E42 setup, subscription, delete and control request; renames and forwards | sends before it inserts; holds a mutex across both |
| E2 agent (`src/agent`) | two maps of timers (setup, subscriptions), epoll's ready list | setup with resends, subscription, delete, control, indication, loss of the RIC, stop | resends race late answers; edge-triggered socket; outlives runs of the RIC; reused descriptors |
| xApp (`src/xApp`) | active procedures by handle, pending timers, sync flag, two queues | synchronous report, unsubscribe and control; event loop; callbacks; stop | user's thread and event loop hand over through a flag; teardown of four threads |
| thread safe queue (`src/util/alg_ds/ds/ts_queue`) | ring, mutex, condition variable, two atomics | push, wait and pop, pop 10 or 100, size, free | stop token outside of the mutex; destroying what a worker uses |
| containers (`src/util/alg_ds`) | red-black tree, registry with compaction, pair of trees, ring | insert, extract, erase, iterate | sequential, index arithmetic |
| codecs, service models, plugins, SQL (`src/lib/ap`, `src/sm`, ...) | none that is shared | encode, decode, load, write | not a matter of state |

Interaction. Agents talk E2AP to the RIC over SCTP, xApps talk E42AP. The iApp
thread gives each request a RIC request id, starts its timer, sends it and
inserts the mapping, all under `map_ric_id.mtx`. The RIC thread stops the timer
of an answer, looks the mapping up under the same mutex and sends the answer to
the xApp under the xApp's own handle. In an xApp the user's thread sends,
arms a timer and sleeps; the event loop stops the timer and signals.
Asserts are compiled in (the default build is Debug, `CMakeLists.txt`), so a
failed assert ends the process and the models treat it as such.

What makes the parts correct:

* routing: what reaches an xApp under a handle was produced for the request
  issued under that handle; no lookup fails; indications stay inside their
  subscription;
* node views: addresses, connected nodes and the iApp's registry agree between
  events; every answer on its way still has its timer, and no answered request
  keeps one;
* xApp: a synchronous call returns only with its own answer, leaves no timer
  behind, and always returns or ends the process; teardown touches nothing that
  is freed, and ends;
* agent: timers, maps and epoll stay in step; what aborts an agent or a RIC is a
  message that outlived a run of the RIC; it reconnects and keeps reporting;
* stopping: mutexes are released, the stop ends, and a freed structure is met in
  one way only;
* queue: FIFO without loss or duplication, no lost wakeup, safe and terminating
  release;
* containers: each is the multimap, sequence or set of keys its users take it
  for, across growth, compaction and wrapped counters.

The components are listed with their sources in `PROJECT.json`, the hazards of
the code at their lines.

## 2. Modules

| Module | Models |
| --- | --- |
| `E2Routing` | RIC thread, iApp thread, agents and xApps exchanging messages |
| `MCE2Routing` | symmetry for the instances of `E2Routing` |
| `SubscriptionService` | abstract specification of what the RIC promises xApps |
| `E2RoutingProofs` | type correctness of `E2Routing`, routing invariant, invariant of the views of the nodes, and what follows from them |
| `E2RoutingRequestProofs` | invariant of requests on their way, that arrivals are expected, and the refinement of `SubscriptionService` |
| `E2RoutingTimerProofs` | invariant of the RIC's timers, that timers match requests, and what can end the RIC |
| `XApp` | user's thread, event loop and workers of one xApp |
| `XAppProofs` | inductive invariant of `XApp` and its safety properties |
| `TsQueue` | the thread safe queue with its three threads |
| `FifoQueue` | abstract specification of the queue |
| `TsQueueProofs` | invariant, safety and refinement of `TsQueue` |
| `E2Agent` | one agent with its timers and epoll, and runs of the RIC |
| `E2AgentProofs` | inductive invariant of `E2Agent` and its safety properties |
| `BiMap` | the pair of trees used for maps of timers |
| `RicStop` | stopping the RIC against the handlers of its two threads |
| `RicStopProofs` | that mutexes are released and which faults a stop can meet |
| `RbTree`, `Multimap` | the red-black tree, and the ordered multimap it implements |
| `SeqRing`, `SeqArr`, `AssocReg` | ring, array, and registry of procedures |
| `ContainerProofs` | proofs about ring and array |
| `MCContainers` | one of the four containers, chosen initially, for TLC |

`E2Routing` composes the RIC with abstract agents and xApps. `XApp` opens the
xApp up and closes the RIC down to what `E2Routing` establishes about it
(answers in order, indications between the subscription response and the delete
response). `XApp` uses atomic queues, which is what `FifoQueue` states and
`TsQueue` implements. `E2Agent` opens the agent up and keeps of the RIC what a
single agent meets of it, with the runs of its process, which `E2Routing` leaves
out. `RicStop` keeps of the handlers of `E2Routing` the order of their mutexes.
`BiMap` takes each tree for a multimap, which is what `RbTree` is shown to
implement.

### E2Routing

A step is one critical section or one socket operation of one thread, because
every shared structure of the RIC has its own mutex: `rpc` and `ipc` say how far
a handler has come, `rmsg`, `imsg`, `rto` and `irid` are its locals.

| Variables | Code |
| --- | --- |
| `sad`, `conn`, `reg` | `map_e2_node_sockaddr`, `conn_e2_nodes`, the iApp's `reg_e2_nodes` |
| `reqId`, `pending`, `mapRicId`, `mtx` | `req_id` (an `atomic_int`, cut to 16 bits when used), `pending`, `map_ric_id` and its mutex |
| `xappId`, `xsad` | xApp id counter, `map_xapps_sockaddr` |
| `ricIn`, `iappIn`, `iappEdge`, `agIn`, `agEdge`, `xIn` | receive queues of the sockets; for edge-triggered ones whether an event is still to be reported |
| `ast`, `assoc`, `agSubs`, `agSetup` | an agent, its association, its subscriptions, whether its setup timer runs |
| `xst`, `issued`, `active`, `xop` | an xApp: what it issued under each handle, active procedures, request it waits for (or waited for when it ended) |
| `ricAbort` | the assert that ended the RIC |

RIC thread: `RicSetupRequest`, `RicAddNode`, `RicAcceptNode` (setup),
`RicAnswer`, `RicIndication`, `RicLookup`, `RicNotify` (answers and
indications), `RicShutdown`, `RicEraseConn`, `RicRmNode` (shutdown),
`RicTimeout`. iApp thread: `IAppSetupRequest`, `IAppRegXApp`,
`IAppSetupResponse`; `IAppRequest`, `IAppLock`, `IAppStartTimer`,
`IAppForward`, `IAppAddMap`; `IAppDelete`, `IAppDeleteTimer`. The agents'
and xApps' actions carry the prefixes `Ag` and `XApp`, one per event they handle.
Two timers run for one request and do not know of each other. When the xApp's
(5 s) expires, an assert ends the xApp (`XAppTimeout`): the request stays
under way, its answer is renamed and sent to nobody, and the RIC's timer stays
armed until an answer comes. When the RIC's (3 s) expires (`RicTimeout`), it is
logged and stays armed too, as it is periodic.

Abstractions: messages are records with the fields routing depends on; payload
is the node that produced it. A message is in the receiver's queue when it is
sent (an earlier arrival only adds behaviour for the properties checked, and the
kernel's buffers keep the order of an association). A message to an association
that has ended is lost. An xApp ends in this module by an assert only (stopping one is
in `XApp`), and xApp ids do not wrap.

`ImplementsService` maps this to `SubscriptionService`: `asked` is `issued`;
`serving` is what the agents' subscriptions stand for, traced back through
`map_ric_id` and the entry that is still in flight; the phase of a request
follows from whether its xApp knows (`active`, `xop`), whether its answer is
under way, and otherwise has not been produced. What a node goes on serving to
an xApp that has ended is left out of `serving`, since nobody is served. A single step of the service, such as the
node's grant, is the one step of the agent among some ten of the RIC.

### E2Agent

The loop handles one event per turn. `rdl` is epoll's ready list: a descriptor
is appended at its edge, and the list is served in order; one message is read
per edge of the socket. `pending` and `indEvent` are bimaps from descriptors to
setup events and request ids; `timers` are the open descriptors, and a new timer
gets the lowest free number, as the kernel does. Actions: `AgStart`,
`AgTest`/`AgTimeout` (the loop), one per message, `AgNotification` (the RIC went
away), `AgIndication` and `AgPendingEvent` (the two kinds of timer),
`StopRequest` and `StopFree`. The RIC side starts, stops (`RicStop`), aborts and
starts again; a new run has empty maps and gives out the same request ids again.
`born`, `setupRun` and `stale` are history variables that only properties
read. `stale` is set when a run of the RIC, or the agent, takes a message about
an earlier run for one of its own, or aborts on it: an answer under a request id
that the new run has given out again stops the new request's timer, and the
real answer is then the one that finds none. That second effect needs two
requests in a run and four messages under way, more than the `agent` run has;
the proof of `AbortsExplained` for every bound showed it.

### RicStop

A handler is the list of mutexes it locks and unlocks (the handlers of
`E2Routing`, seen from the side of what they touch); freeing a structure
destroys its mutex. Locking what is destroyed or destroying what is locked is a
fault and ends the process. `Teardown` is the sequence of tokens, waits and
frees of `free_near_ric` and `free_e42_iapp`.

### Containers

`RbTree` executes one iteration of `insert_fixup` and `delete_fixup` per step,
equal keys included (subscriptions and timers share keys); left and right
branches are one definition with a side. `SeqRing` has the two 32-bit counters
that never return to 0 by themselves, `SeqArr` sizes, capacity and bytes,
`AssocReg` the buckets with holes, the handles given out and the binary search
among them. Each carries the set or sequence it should stand for as a reference.

### XApp

`upc`, `lpc` and `wpc` are the program counters of the user's thread, the event
loop and the two workers. `pend` holds the types of armed timers, since
`cmp_pending_event` compares types only. `flag` stands for `flag_sync` and
`msg_ack`, which change together. The 6 s wait of `cond_wait_sync_ui` is longer
than the 5 s timer armed before it; `UserTimeout` therefore fires only when that
timer is gone and nobody is about to signal. The loop tests `stop_token`, then
polls, so it may serve one more event after a stop. A stop is two steps,
`UserStop` (the dispatcher's queue was seen empty) and `UserStopToken`: an
indication may be dispatched between them.

### TsQueue

`stop_token` and `stopped` are atomics used outside of the mutex, so each access
is a step; the worker's critical section is split where it tests `stop_token`
and where `pthread_cond_wait` releases the mutex and blocks. Spurious wakeups
happen. The owner frees the queue when the event loop has ended, as
`free_e42_xapp` does. `Batched` selects the worker of `db.c` or that of
`msg_dispatcher_xapp.c`.

## 3. Runs

| Run | Instance | Distinct states | Shows |
| --- | --- | --- | --- |
| `routing` | 1 node, 2 xApps, 2 requests each, 1 indication, timers may expire | 2.4 million | types, `ArrivalsExpected` (answers awaited, indications inside their subscription), `AbortsExplained` |
| `churn` | 2 nodes with 2 associations each, 1 xApp, 2 requests, timers may expire | 1.0 million | `NodeViewsAgree`, `TimersMatchRequests`, `RoutedToRequester` while nodes leave and return and the xApp may end over a request |
| `resend` | 1 node, 1 xApp, 2 RAN functions, 3 requests whose ids are 14, 15 and 0 modulo 16, resent setups, timers may expire | 0.4 million | `LookupsSucceed`: resent setups and ids that wrap around do not break the renaming; `AbortsExplained` names what they do break; `ImplementsService` with nodes that return and an xApp that a second setup response or a timer ends while its request is under way |
| `answered` | 1 node, 2 xApps, 1 request each, fair | 31 thousand | `AnsweredOrStuck`: only a message left in an edge-triggered socket keeps a request waiting; `ImplementsService` for two xApps |
| `xapp` | 4 requests (handles for 3), 2 indications, 1 resend, fair | 171 thousand | `ReturnMeansAnswered`, `NoStaleTimer`, `DeathsExplained`, `NoUseAfterFree`, `CallReturns`, `StopEnds` |
| `agent` | 3 runs of the RIC with 1 request each, queues of 2, fair | 171 thousand | types, `TimersInStep`, `AbortsExplained` (agent and RIC), `Reconnects`, `Reports`, `StopEnds` |
| `ric_stop` | all handlers of both threads, fair | 3.4 thousand | `LocksReleased`, `FaultsExplained`, `StopEnds` |
| `ts_queue` | batches of 2 and 4 (for 10 and 100), 7 pushes, fair | 1.7 thousand | `SleepsOnlyWhenIdle`, `PopHasElements`, `NoUseAfterFree`, `ImplementsFifo`, `StopTerminates`, `Delivered` |
| `containers` | tree: 4 keys twice; ring: 4 slots growing to 8, counters modulo 16; array: 80 elements of 40 bytes; registry: 4 buckets, 10 handles | 237 thousand | `RedBlack`, `NoEntryMissed`, `ImplementsMultimap`, `FixupAscends` (tree); `RingHoldsSequence`; `ArrHasRoom`; `RegFindsLiveKeys` |

Bounds. Two xApps are enough for one xApp's answer to meet the other's
renaming; two requests per xApp for a handle to be used after another; two
associations per node for an answer of the old one to meet the new one; one
resend for a duplicate. Pushes exceed the larger batch, so that every branch of
the database worker is taken with elements left over, the branch that waits and
pops one element, which is the dispatcher's whole loop, included; the dispatcher
itself (`Batched = FALSE`) is covered by the theorems. What
section 5 proves does not depend on the bounds. Two cases stay out of these
bounds and rest on the theorems: an id that is still in `map_ric_id` when it is
given out again (it takes more requests than `UINT16`), and ids that wrap while
nodes leave and return (in `churn` they do not wrap). `NodeViewsAgree` speaks of
the moments between two events of the RIC thread; what the iApp thread reads in the
middle of a shutdown is the subject of `AbortsExplained`. Three
runs of the RIC are what it takes for a message of the first to meet a timer of the second
in the third, and thereby two setup timers; the invariants of `agent` also hold
with 2 runs of 2 requests each and with queues of 3. Eight entries make a tree in
which every case of both fixup loops occurs, with equal keys on both sides of a
rotation; a capacity that doubles once and counters that wrap are enough for the
ring, whose arithmetic is modulo both. An array of 80 elements grows four times
and shrinks back. `RicStop` has no bound. `CHECK_DEADLOCK FALSE`: these
systems stop, when a process has ended or has been freed, or when the bounded
inputs of an instance are used up; that they do not stop too early is what the
liveness properties say.

### Disagreements between the code and what it says

Each of these runs checks one statement of an assert, a comment or the
documentation, and TLC finds it violated.

| Run | Statement | What happens |
| --- | --- | --- |
| `request_answered` | `e42_xapp.c:400`, the answer will arrive | the RIC sends `SETUP_RESP`, then a request, before the agent reads: one edge of the agent's socket (`asio_agent.c:69`), one message read per event, and the request stays unread |
| `arr_fits` | `seq_arr.c:32`, the elements fit | `maybe_shrink` allocates `cap * cap` bytes (line 30) instead of `cap` elements |
| `restart` | `map_ric_id.c:176`, a request id is known | the agent keeps the subscriptions of an earlier run of the RIC and their first indication ends the new one |

The other asserts that can fail are named, with what it takes to fail them, by
the properties `AbortsExplained` (of `E2Routing` and of `E2Agent`),
`DeathsExplained` and `FaultsExplained`, which hold:

* RIC: a timer expires while the requests of two xApps are unanswered, be it that
  they wait or that they ended while they waited (`near_ric.c:342` expects one
  pending event); a node left between the validation of a request and its
  forwarding (`map_e2_node_sockaddr.c:152`) or after the xApp got its list of
  nodes, which is never updated (`msg_handler_iapp.c:305`); an agent repeats its
  setup request or comes back unnoticed (`reg_e2_nodes.c:110`); a request id cut
  to 16 bits is 0 or still mapped (`map_ric_id.c:142` and `:163`).
* xApp: the answer is handled before its timer is registered
  (`assoc_rb_tree.c:418`) or before the wait clears the flag (`sync_ui.c:82`,
  "Unforeseen path"); the handles are used up; a second setup response arrives
  (`msg_handler_xapp.c:343`). Records queued for the database when the xApp
  stops are discarded (`db.c:155`).
* agent: a second shutdown notification adds a second setup timer, and
  `pend_event` then asserts there is one (`e2_agent.c:222`); a setup response
  of an earlier run, read late, stops the timer of the current setup; a
  notification left unread behind another message of the same edge leaves the
  agent unregistered; an answer about an earlier run, under an id given out
  again, is taken for the current request's and its own answer then finds no
  pending event. `e2_free_agent` closes neither its timers nor epoll.
* stopping the RIC: the iApp thread forwards a request into structures that are
  already freed (`near_ric.c:476`-`492`).

## 4. Fairness

Every thread here runs a loop that polls or blocks in the kernel, and nothing
but the scheduler decides when it continues: weak fairness per thread.
`E2Routing`: the two RIC threads, each agent's loop and each xApp's loop; not
for setups resent, the RIC's timers, indications, new requests or processes that
end. The xApp's loop includes its timer of a request. The two runs with fairness
(`answered`, `request_answered`) are about what happens before a timer expires
and set `TimersMayExpire` to FALSE: else every wait would end with its process.
`XApp`: the user's thread inside a call, the loop, the workers; and strong
fairness for the timers of calls, because an expired `timerfd` stays readable
and `epoll_wait` serves ready descriptors in turn. The RIC's answers are not
fair: it may never answer. `TsQueue`: worker and owner; pushes and spurious
wakeups need not happen. `E2Agent`: the two loops, the start of the agent, the
end of a stop, and the expiry of armed timers, which is the kernel's; the RIC
need not start, and no request need come. `RicStop`: the stopping thread and
both loops, and strong fairness for the steps of a handler, because a thread
that waits for a mutex which is released again and again gets it in the end.

## 5. Proofs

For every value of the constants, checked by TLAPS:

* `TypeCorrect`: `E2Routing` is well typed. The type invariant also says which
  message a thread in the middle of a handler holds; without that the fields it
  reads would have no type.
* `RoutingInvariant`, and from it `RoutingCorrect` (`RoutedToRequester`) and
  `LookupsCorrect` (`LookupsSucceed`). Neither property is inductive: an answer
  is routed correctly because the id it carries was given to a request of the
  right xApp, and that has to be known of every place where an id can be. The
  strengthening says so place by place. `XAppIdsInv`: xApp ids name one xApp and
  are registered before they are told. `HandlesInv`: an active control
  procedure is the request waited for. `RequestsInv`: requests carry the id and
  handle of their owner. `MutexInv`: the mutex is held from before a request
  leaves until its id is mapped. `TracedInv`: every request id at a node, on its
  way back or in the RIC thread's hands leads to its owner through `map_ric_id`
  or through the one entry that is about to be inserted (`InFlight`). The step
  that matters is `RicLookup`: it needs the mutex, so nothing is in flight and
  the entry is in the map. There is one lemma per action and conjunct it can
  disturb. The only assumptions are `ConstAssumption`: `UINT16` is positive and
  bounds are natural numbers.
* `NodeInvariant`, and from it `NodeViewsCorrect` (`NodeViewsAgree`) and
  `NodeAbortsExplained` (the part `NodeAborts` of `AbortsExplained`). The views
  agree only between events, and a shutdown finds a node in all three only
  because its setup was handled before. `ViewsInv` says which views a handler has
  updated at each of its steps; `LinkInv` that a shutdown under way comes from an
  agent that ended, after the setup it revokes; `FirstSetupInv` that a node
  neither resent nor restarted has one setup request; `MetInv` that a node named
  by an xApp or in a request was registered once; `FreshIdInv` that ids in the map
  are below the counter until it wraps (this is where `ReqId0`, the counter's
  first value, must be at least 1; the code starts at 1021).
* `ArrivalsInvariant`, and from it `ArrivalsCorrect` (`ArrivalsExpected`). Nothing
  in the RIC orders answers and indications or keeps an answer from coming
  twice; the way they travel does. `MsgAt` names the place of a message: stage
  (iApp's socket, iApp thread, node's socket, subscriptions of the node, RIC's
  socket, RIC thread, xApp's socket) and position there. `OneTokenInv`: of the
  request an xApp waits for there is one token in all of these places, of any
  other request none. `WaitsInv` and `OwnersInv`: a call is open while its xApp
  waits, and requests come from connected xApps and have one mapping each.
  `MappingInv`: the mapping is made on the way out. `IndsInv`: an indication has
  the response to its subscription ahead of it, or that was delivered, and the
  response to the deletion behind it. A message keeps its stage or moves to the
  next, so an action is described once, by the stages it reads and writes (the
  `Moves` of the module), and each conjunct follows from that. When the counter
  of ids wraps, an id names two requests for a moment (`Clash`); the mutex keeps
  the RIC thread from looking it up, and the assert of `add_map_ric_id` ends the
  RIC before anybody is answered.
* `TimersInvariant`, and from it `TimersCorrect` (`TimersMatchRequests`) and, with
  `NodeAbortsExplained`, `AbortsAreExplained` (`AbortsExplained`). A timer knows
  only the type, the id and the RAN function of its request, and
  `stop_pending_event` stops any that fits. `UntimedInv`: a request has no timer
  before it is forwarded nor after its answer stopped it. `ArmedInv`: between the
  two (`Open`) it has one, and two requests that share an id have two.
  `OwnTimersInv`: a timer belongs to an open operation, which has no other; an id
  names the operation, so this is said only without a `Clash`. `AgesInv`: the
  counter tells a new timer from those that exist. `FewTimersInv`: there are no
  more timers than operations to answer, since timers map one to one into
  their owners and the request being forwarded and the answer being looked up
  have owners of their own. In a `Clash` the RIC thread cannot look up, so the
  bound lasts until the assert of `add_map_ric_id` ends the RIC. The operations
  to answer are those of the xApps that wait and of those that ended while they
  waited (`LeftUnanswered`; the proof counts `InCall`, the xApps with a call, which
  are the same): an xApp's end takes away neither its request nor the RIC's
  timer. Timers and these xApps are finite because they start empty and grow by
  one; the set of xApps need not be. The asserts of the lookups then hold: an answer finds its
  timer by `ArmedInv`, a deletion its mapping by `WaitsInv`.
* `ServiceImplemented`: `E2Routing` implements `SubscriptionService`
  (`ImplementsService`) as long as no id is given out while the map still holds
  it (`[]~Clash`), and with `FreshIdInv` `ServiceImplementedUntilWrap`: as long as
  the 16-bit id has not been through all its values. The hypothesis is needed:
  with `UINT16` = 2 TLC refutes the refinement, because a node receives the
  request that clashes before the assert ends the RIC. The mapping reads ids
  back through the map, which no step argues about easily; `TokensTell` shows it
  equal to one by tokens (`TokenState`: a request is granted when its answer is
  in stages 0 to 2, a subscription served when it is in stage 3). From there the
  `Moves` of the arrivals' proof decide: a step of the RIC, of the iApp or of a
  timer moves a token within the stages of one phase and is a stutter
  (`RicServes`), a node's answer is the grant or the release (`AgAnswered`), an
  end of a node or xApp loses what it had (`AgEnds`, `XAppQuits`), and an xApp
  asks, removes and learns. `HeldInv` is the one strengthening that is new. The
  attempt also corrected the abstract specification: a node may grant what an
  xApp asked for that has ended since, which no step of the service allowed
  until `serving` was restricted to live xApps; the instances of TLC then in use
  never ended an xApp with a request under way, and `resend` now does, by a second
  setup response and by the xApp's timer.
* `TsqInvariant`, and from it `TsqInOrder`, `TsqNoLostWakeup`,
  `TsqPopHasElements`, `TsqNoUseAfterFree`. `MutexHeld` says where the worker
  holds the mutex, `StopStages` orders the steps of stopping, `StillIdle` that a
  worker that decided to sleep still has a reason to until it sleeps (the
  owner's signal needs the mutex), `BatchReady` that what the size promised is
  still there (only the worker pops). Assumption: `1 < Small < Big`.
* `TsqImplementsFifo`: under the mapping in `TsQueue!Queue` every step is a step
  of `FifoQueue` or a stutter.

* `XAppInvariant`, and from it `XAppTypes`, `CallsAnswered`
  (`ReturnMeansAnswered`), `TimersCurrent` (`NoStaleTimer`),
  `DeathsAreExplained` (`DeathsExplained`) and `NothingUsedAfterFree`
  (`NoUseAfterFree`). All five rest on one fact that none of them states: a call
  has one request or one answer under way, and where it is decides about timer and
  flag. `ProcInv` says a handle names one procedure; `FlightInv` that a request
  is sent, answered and handled once; `TimerInv` that its timer is armed until
  the answer is handled; `IndInv` that the indications of a subscription precede
  the answer to its deletion, so that its entry is there for each; `SetupInv`
  counts setup responses; `StopInv` orders the teardown.
* `AgentInvariant`, and from it `AgentTypes`, `TimersStayInStep`
  (`TimersInStep`) and `EndsExplained` (`AbortsExplained`). `ReadyOnce` and
  `ToCome`: a descriptor is in the ready list once, and the descriptors of the
  instance suffice for every timer still to come, so that an action is never
  disabled for want of one. `RunsInv`, `SetupInv` and `LinkInv`: messages are read
  in the order of the runs, and the setup timer follows them. `BornInv`,
  `ExpectedInv`, `OnceInv` and `ClaimsInv`: an answer about the current run is
  awaited and comes once, and a delete request will find a timer of its id. The
  last one counts: old and new subscriptions share ids, so it compares, for each
  id, the timers and subscription requests with the delete requests at every
  place of the queue (`AgentAssumption`: the bounds are natural numbers, that of the queues is positive).
* `RingCorrect` (`RingHoldsSequence`) and `ArrKeepsRoom` (`ArrHasRoom`). The ring
  is proved for every capacity and width of the counters such that each capacity
  divides their range (`RingAssumption`, which powers of two satisfy): then the
  slot of a counter does not jump when the counter wraps. `Holds` is the
  invariant, slot by slot, with one lemma for pushing, enlarging and erasing.
  That `seq_arr` keeps a slot free needs nothing about its bytes, which
  `arr_fits` shows to be wrong.
* `StopInvariant`, and from it `LocksCorrect` (`LocksReleased`) and
  `FaultsAreExplained` (`FaultsExplained`). `RicStop` has no constants, so TLC's
  run visits all of its states; what the proof adds is the reason, which does
  not depend on how long the handlers are. A handler is `Closed`: it releases each
  mutex it takes before it takes it again. `Use` is closed, closed handlers in a
  row are (`ClosedConcat`), and so is one run under a mutex it does not take itself
  (`ClosedUnder`, for the request that is forwarded under the mutex of
  `map_ric_id`). `OrderInv` says which thread has stopped before a structure is
  freed, and leaves open just the RIC's structures while the iApp thread runs.

Only model-checked:

* all liveness, since TLAPS does not prove properties under fairness;
* the red-black tree and the registry: paths of a tree and the binary search are
  recursive functions, and what they compute is induction over data.

The inductive invariants are proved and no run repeats them; TLC checked each of
them on small instances before.

## 6. Not modelled

* Codecs (`src/lib/ap`), service models (`src/sm`), generated ASN.1 and
  flatbuffers code, the vendored SQLite, SQL texts, plugins, configuration,
  examples, language bindings and RAN patches are most of the repository's
  lines. They turn one value into another, or do I/O, without state that two
  operations share: what a model would state about them is that decoding undoes
  encoding, field by field, which needs their data and not their control.
* The local API of the RIC (`near_ric_api.c`) is compiled for tests of RIC and
  agent in one process only; its handlers of messages are those of `E2Routing`.
* `bi_map_extract_left` compares keys of different sides; its callers
  (`rm_map_ric_id`, `rm_map_e2_node_sad`, `rm_pending_event_fd`) are never
  called.
* Errors of `sctp_sendmsg` are ignored by the code, and messages to an
  association that has ended are lost in the models. Partial reads, several
  addresses per endpoint and failing allocations are left out.
* Handlers that only assert "Not implemented" change no state.

## 7. Plan

Modelled and checked: `E2Routing`, `TsQueue`, `XApp`, `E2Agent`, `RicStop`, the
containers, and three abstract specifications; every safety invariant of the
runs is a theorem, those of the tree and of the registry excepted, and so are
the refinements of `SubscriptionService` and `FifoQueue`. What is left stays with
TLC: the shape of the tree and what it stores (`ImplementsMultimap`), the
registry's search, and liveness.
