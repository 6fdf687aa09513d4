# TLA+ specifications of ZMQ-Comm

ZMQ-Comm carries inference requests through a cluster of machines that each hold
some layers of a model. One machine, the host (id 0), launches requests and
collects answers; the others are compute workers. This directory holds a TLA+
model of the cluster, the TLC configurations that check it on small clusters and
the proofs TLAPS checks for clusters of any size. Line numbers below are those
of `src/src/`.

Contents: [inventory](#inventory), [modules](#modules-and-how-they-follow-the-code),
[runs](#runs), [fairness](#fairness), [proofs](#proofs), [the finding](#finding),
[what is left out](#what-is-not-modelled), [plan](#plan).

## Inventory

| Part | State | Operations | Correct when |
| --- | --- | --- | --- |
| Machine graph (`config_parser.h` `Machine`) | id, address, `in_nodes`, `out_nodes`, layers | none after reading | every worker has an input, every machine reaches the host |
| Configuration (`config_parser.h`) | the table of machines | `read_config`, serialization of the table | the table is the file's, and every worker rebuilds it |
| Start-up: `config_broadcast` (host), the part of each network thread before its main loop | `machine_configs_initialized`, `input_port_initialized` / `cluster_initialized`, `stop_sending_init`, `..._in_main_loop`, the sets of inputs not ready / not complete | REQ/REP exchange, `Init` rounds, one `InitComplete` per link | every thread reaches its main loop; the host last; no `InitComplete` lost; no `Assert` fails |
| Host API (`host.h`) | `saved_routing_dict`, `launch_queue`, `finish_queue` | `host_launch_request`, `host_gather_finished_requests` | one answer per launch, decodes follow their prompt |
| Host network threads (`host.h`) | sockets, swarm weights | `msg_scatter_thread`, `msg_gather_thread` | messages go where their header says; `SwarmInfo` never reaches the host |
| Worker network threads (`compute_worker.h`) | sockets, swarm weights | `receiver_thread`, `sender_thread` | the same; layers of a prompt are fixed once, on arrival |
| Worker compute API (`compute_worker.h`) | `requests_on_the_fly`, `requests_to_release`, `tensors_to_release` | `fetch_new_requests`, `submit_requests` | what is submitted is what was fetched |
| Header (`msg.h`) | type, id, `creation_time`, `current_stage`, the route arrays, `swarm_delta` | `add_stage`, serialization | never more stages than the header has room for (`MAX_HOP`); a cell of `swarm_delta` is a time or a duration and is read as what it is |
| Links (`poller.h`) | ZeroMQ PUB/SUB queues | `PollServer::send`, `PollingClient::poll_once` | external: FIFO, drops before subscription and beyond the high-water mark |
| `ThreadSafeQueue` (`inproc_queue.h`) | `std::queue` and mutex | `push`, `pop_all` | FIFO, nothing lost |
| Buffer lifetime (`compute_worker.h`, `utils.h`) | `tensors_to_release`, the two deques of `tensor_gc` | `submit_requests`, `tensor_gc` | no message is read out of a released tensor; every tensor is released |
| Clocks (`utils.h` `get_time`) | the system clock of each machine | read by senders, `launch_request`, `tensor_gc` | a measured duration is right up to the skew and not negative |
| Sockets (`compute_worker.h`, `host.h`) | addresses bound and connected | each network thread, from the table | the sockets that meet are the edges of the graph |
| Swarm scheduler (`swarm.h`) | priority queue of servers, moving averages | `choose_server`, `update_weights` | no server starves; weights are fed durations |
| Bindings and drivers (`sys_*_api.cpp`, `python/`) | none | call the API in order | - |

How they interact. Threads of a machine share boolean flags during start-up and
thread-safe queues afterwards: the client thread and the gather thread both push
to `launch_queue`, the compute thread and the receiver both push to
`compute_send_queue`. Machines share nothing and exchange messages on one
PUB/SUB link per edge of the graph, plus one REQ/REP exchange for the
configuration. The graph is a ring through the host, and so is every wait of the
start-up.

What is hard. A PUB socket drops what it publishes before the subscription has
arrived, silently; the start-up answers by repeating `Init` and then relies on
a single `InitComplete` that must not be lost. Every wait of the start-up
depends on another machine. A message's `current_stage` is advanced by one thread,
its route extended by a second and its layers filled in by a third, on different
machines. `SwarmInfo` messages overtake requests, `saved_routing_dict` is
overwritten by every pass. `PROJECT.json` lists the hazards one by one, at their
lines, each with the properties that cover it or the reason none does yet.

## Modules and how they follow the code

    ClusterInit ------ MCClusterInit          implements StartBarrier
      |-- Cluster ---- MCCluster              start-up and main loops in one system,
      |      \-- ClusterProofs                implements RequestPipeline, RequestService
    RequestPipeline -- MCRequestPipeline      implements RequestService
      \-- RequestPipelineProofs
    ThreadSafeQueue -- MCThreadSafeQueue      implements TaskQueue
      \-- ThreadSafeQueueProofs
    SwarmScheduler --- MCSwarmScheduler
      \-- SwarmSchedulerProofs
    BufferLifetime ; BufferLifetimeProofs
    SwarmTiming ; SwarmTimingProofs
    Wiring ----------- MCWiring
      \-- WiringProofs
    ConfigParser ----- MCConfigParser
      \-- ConfigParserProofs
    Topology: extended by ClusterInit and RequestPipeline

**Topology** declares `Host`, `Workers` and `Edges` and three assumptions:
`TopologyTypes`, `WorkersHaveInputs`, `MachinesReachHost`. The edges are what
**Wiring** makes of the table, whose `in_nodes` and `out_nodes` have to agree. All
of these are conditions on the configuration file that the code does not check.

**ClusterInit** is everything the four kinds of network thread do before their
main loops, and `config_broadcast`.

| State | Code |
| --- | --- |
| `receiver[m]` | where `receiver_thread` (host: `msg_gather_thread`) stands: before the configuration, in the first wait (`ready`), in the second (`complete`), in the main loop |
| `sender[m]`, `to_send[m]` | where `sender_thread` (host: `msg_scatter_thread`) stands, and the outputs its `for` loop has left |
| `input_machines_not_ready`, `input_machines_not_complete` | the local sets of the two waits |
| `input_port_initialized` | the worker's flag of that name and the host's `cluster_initialized` |
| `stop_sending_init` | the worker's flag |
| `subscribed`, `chan` | the PUB side's knowledge of subscriptions, and the queues |
| `config_socket` | the REQ/REP exchange of each worker |

A round of `Init` is a loop over the outputs, one `SendInit` per output, so other
threads interleave with it. The receiver's wait takes any one message; the second
wait skips left-over `Init`s. An `Assert` prints and goes on in the build that is
used (`build.sh` selects Release), so no action stops at one; the invariants say
that none of the conditions is ever false. Where a thread waits for a flag that
is never reset, the step that leaves the wait stands at the later of the read and
the statement that matters: the read value stays true in between.

**StartBarrier** is what start-up promises: workers begin to accept in any order,
and the cluster opens once, after all of them.

**RequestPipeline** is the main loops of the host's and workers' network threads for
the three schedulers, the host API and the worker compute API.

| State | Code |
| --- | --- |
| `launch_queue`, `finish_queue`, `recv_compute_queue`, `compute_send_queue` | the thread-safe queues |
| `requests_on_the_fly`, `computing` | the worker's map, and the batch the compute program holds in the order it submits |
| `saved_routing_dict` | the host's map; `<<>>` is no entry |
| `gather_info` | the gather thread between its two pushes of one answer |
| `chan` | the PUB/SUB links |
| `ema` | what kind of value each swarm weight holds: the initial one, a measured duration, or garbage |
| `launched`, `waiting` | the client program: how often it launched a request id, and which are not yet gathered |
| `prompt_ran` | history variable: stages the last prompt of a request ran. No action reads it |

A message is a header and the kind of its buffer (`tokens`, `activations`,
`token_id`, `dummy`). Token values, lengths and offsets are left out. A
`swarm_delta` cell is `unset`, a `stamp` (time since the epoch) or `elapsed`
(a difference of two); subtracting a duration from a time gives back something
of the size of a time, as `Elapsed` says. `pop_all` hands a queue to its single
consumer, which handles it in order: for every queue but two it is modelled as
taking one message at a time, which has the same interleavings with the pushes.
The two exceptions are `Fetch` and `GatherFinished`, which take the whole queue
as the API calls do, because the batch is visible to the caller. `submit_requests`
pushes its requests one by one and is one step per request. The host's gather
thread pushes an answer and then its `SwarmInfo`; these are two steps, since the
client may gather and launch between them. `choose_server` and the random
generator may return any output.

The client follows `python/host.py` and its siblings: an id is launched again only
after it was gathered, and a decode under swarm or random only after a prompt.
The compute program follows `python/compute_worker.py`: fetch, compute, submit what was
fetched, in order, one batch at a time. `LayersFit` states what the configuration
must satisfy for the layers of consecutive workers to fit, `ClientRoutesFit` what the
client's routes must be under maxflow: through the whole model and back to the host.
Neither is checked by the code. Both ask that each stage runs a layer at least, and so
`PipelineTypeOK` can promise that no message has more than `MaxStages` stages, one for each layer and the one
back. It says nothing of `MAX_HOP` (16, `const.h:11`): nothing in the code compares that with the model it
runs, so `add_stage` stays inside its arrays for models of fewer than 16 layers, and of more only
where the machines are few. `MessagesInv`, at the end of the module, says what
the messages of each queue look like; the proofs rest on it.

A link may break (`BreakLink`, for the links in `Breakable`): what has not reached
the reader is gone, and so is what is published until libzmq has reconnected
(`RestoreLink`). No code in `src/` sees either. `subscribed` is what the PUB side
knows; `Publish` drops on a link that is not in it, or that is full.

**RequestService** is what the two host calls promise: a launched request is
answered at most once, answers are gathered in order, and (with fairness)
each is answered. `RequestPipeline` implements it with `processing <- waiting \
FinishedRequests` and `answers <- Answers`.

**Cluster** is `ClusterInit` and `RequestPipeline` at once. A thread takes the steps of its main
loop when its own part of the handshake has ended (`sender[m]`, `receiver[m] = "main"`),
a program calls the API when its `start_network_threads` has returned
(`NetworkStarted`), and no machine waits for another one in any other way. The two
modules share `subscribed`; a link is the messages of the start-up (`chan`)
followed by those of the pipeline (`requests`), so a request is polled once the
start-up messages before it are gone. An initialization loop that polls a request
throws it away (`Swallow`), as the code does. That this never happens, and that no
request is published before its subscription is there, is `PipelineFromStart`: with
`subscribed <- Edges` the cluster is a pipeline whose links are up from the beginning.
Connections stand in this module (`Breakable <- {}`); they still drop at their high-water mark.
`ServiceFromStart` is about requests that were launched; that the host's call returns at all
is `EveryMachineStarts` of `ClusterInit`.

**ThreadSafeQueue** takes `push` and `pop_all` apart: taking the lock, reading the `std::queue`, storing
the changed one, releasing the lock. A task is in the queue and in the returned vector
between the two statements of the loop (`:40`, `:41`). **TaskQueue** is what
`RequestPipeline` assumes: a push appends, the consumer deals with one task at a time.
The mapping reads batch, vector and queue as one sequence.

**SwarmScheduler** is the heap as a function from servers to priorities. Which of several equal
priorities is at the top depends on the history of the heap, so any may be. Numbers are
multiples of the smallest float and `Round` is any monotone, idempotent rounding that
saturates, so absorption (`swarm.h:43`: adding a weight to a large priority changes
nothing) is in the model and not assumed away. Nothing in the code prevents it and no property
catches it: `Balanced` stays true, and `BoundedWait` counts from the last absorbed addition on.

**BufferLifetime** follows the result tensors of `submit_requests`: the tensor goes to `tensor_gc`
first, the messages that point into it to the sender after, and libzmq reads them at
some later time. `output_tensors_on_hold` is the two deques of `tensor_gc` in one; an entry
keeps how long it has been held and the clock's offset at the start, which is what
the difference of two `get_time` amounts to. Nothing in the code bounds how long a message stays
with libzmq: `HoldSuffices` (`MaxDelay + 2 * MaxJump <= Hold`) says what the ten
seconds presume of network and clock. A message stuck for longer, or a clock set by more, is thereby
assumed away. What is left to go wrong, and checked, is the order of the push to
`tensor_gc` and the building of the messages, the boundary of the comparison, and what jumps within `MaxJump` add up to.

**SwarmTiming** is one request on its route with a clock on each machine that is off by at most `Skew` and
may be adjusted at any time. It gives the values for which `RequestPipeline` has only
`stamp` and `elapsed`. `MinHop`, the least time of a hop, is chosen as twice `Skew`: clocks further apart
make a duration negative, which nothing in the code rules out.

**Wiring** is how a thread finds its machine in the table (by address; the host by id 0) and which
addresses it binds and connects. The port is that of the reader, so it is the pair
of a host's address and the reader's id that makes a link.

**ConfigParser** is `read_config` line by line, with its local `machine` and the
save at the next `machine_id` and at the end of the file, and the serialization of the
table. A line is a key and a value, a stream is a sequence of cells, and the reader
takes the cells in the order the code does. Each round of the loops over the table
(`WriteMachine`, `ReadMachine`) is a step; `begins` is a history of where in the stream
the machines were put, which no step reads. `FilesWellFormed` states the form of `python/config.txt`,
at least one block, each beginning with a `machine_id` and giving a field once at most; the code relies on
it and does not check it.

## Runs

All sizes are those of the final models.

| Run | Asks | States |
| --- | --- | --- |
| `init_skip` | start-up on three workers, one fed by the host and by another worker: the inductive invariant of the proofs, the Assert conditions, host last, implements the barrier, all start | 141,448 |
| `pipeline_swarm` | routes chosen on the way, with `SwarmInfo`: types, routing, layers, buffers, weights, one copy of each request | 462,895 |
| `pipeline_random` | a prompt may be launched again over another route: what is fetched is submitted, decodes follow the last prompt; every request is answered | 32,535 |
| `pipeline_lossy` | client's routes over links that break and drop at a high-water mark of one: the inductive invariant of the proofs, no second copy, order, safety of the service | 249,944 |
| `cluster_start` | start-up and requests in one system: implements the pipeline, and the service with its progress | 10,279 |
| `queue_sender` | two producers and a consumer at the level of the lock: the lock's invariant, implements the task queue with its progress | 2,654 |
| `scheduler_three` | three servers, floats of three bits: bounded priorities, balance, bounded wait | 530,560 |
| `buffers_hold` | two result tensors of two messages each, a clock that jumps: nothing released is read, everything is released | 133,014 |
| `timing_measured` | a route of four machines, clocks off by one tick, hops of at least two: durations right, none negative | 803,439 |
| `wiring_tables` | all 64 graphs of three machines in all 6 orders: the sockets that meet are the edges | 24,576 |
| `config_order` | all orders of blocks and fields without the host last | 3,832 |
| `config_host_last` | the comment "Save the last machine" (expected violation) | - |

Bounds, and why they are enough for what is asked.

- `InitCap` (2 in `init_skip`, 1 in `cluster_start`): `Init` messages kept in a
  link. A further `Init` is treated as lost, which the protocol has to tolerate
  anyway. With one, an `Init` can already be left over for the second wait, with
  `InitComplete` behind it; with two, an `Init` can be left behind another. The
  proofs hold for every `InitCap`.
- Graphs: `Skip` has a worker with two inputs of different distance from the
  host, the shape of `python/partial_config.txt` in which waves of the start-up
  reach a machine at different times and the same worker runs different layers;
  in `init_skip` a third worker makes the waves meet once more.
  `Fork` has two workers in a stage, so requests overtake each other on different
  ways and meet again.
- `MaxLaunches`: two or three launches of each of two ids: a prompt and decodes,
  or a prompt repeated with another route. Two requests in flight together are
  what order and batches need; three in `pipeline_lossy`, where a lost request
  stays lost and two others have to go on. One each in `cluster_start`, where the
  question is what happens to the first ones. Requests of `pipeline_lossy` are
  interchangeable (launched once each, and no formula compares ids), hence the
  symmetry there.
- `HWM`: 4 or 6 never drops in those runs (at most two requests and their
  `SwarmInfo`s are in flight), 1 in `pipeline_lossy` drops whenever two messages
  meet in a link. `Breakable` there is the link into the last stage, where the ways
  join, and the one back to the host.
- `NumLayers` = 2: the longest route has three stages (two workers and the host), which is
  exactly `MaxStages`, so a stage too many is seen.
- `MaxPushes` (3 and 2): enough for a push between two pops and before, during and
  after a batch.
- `Limit` = 40 and `MaxWeight` = 3 with three significant bits: from 32 on, the distance of two floats is 8
  and every weight is absorbed; on the way there is every degree of rounding.
- `Hold` = 4, `MaxDelay` = 2, `MaxJump` = 1: the tight case `MaxDelay + 2 * MaxJump
  = Hold`; two tensors, so that an entry waits behind one that has not expired.
- `MinHop` = 2, `Skew` = 1: again the tight case; `MaxTime` = 7 lets all three hops
  take their least time and one tick more.
- `Files`: blocks for one to three machines in every order, fields forwards,
  backwards and with a list left out.

Deadlock is checked in every run. `ClusterUp`, `AllServed`, `ClusterServed`,
`Served` and `ClusterWired` are the stuttering steps of a system that has done
what it was asked; they do not hide a deadlock, since each requires that end. In
`pipeline_lossy`, where a lost request leaves the client waiting for ever, the links go on
breaking and coming back. `queue_sender` goes on with empty batches.

Every property of a passing run has a mutant in `PROJECT.json`: a plausible bug
of the mapped code, defined next to the original, with which TLC finds the property
violated in the same run.

## Fairness

All fairness is weak.

- Each network thread: it is an endless loop that at most sleeps or polls for a
  bounded time and holds no lock but a queue's, briefly, so an enabled step is
  taken in the end. Threads of one
  machine are fair one by one, not together.
- Each link of a receiver separately: a SUB socket takes its
  connections in turn, so no input is starved by another.
- `Subscribe`: a connection and its subscription are processed by libzmq's
  I/O thread in the end. No bound is assumed on how many `Init`s are lost before.
- `GatherFinished` and the worker's compute program: they poll in a loop
  (`python/host.py`, `python/compute_worker.py`). `LaunchRequest` is not fair: nothing
  makes a client launch.
- `Cluster`: the same conditions on the same threads, over all variables.
- `ThreadSafeQueue`: each thread keeps running, but the mutex is not fair. A thread that
  waits for the lock while others take it again and again may wait for ever, so a push is
  not promised to happen; `QueueImplemented` promises that what has been
  pushed is dealt with, which needs no more: once the consumer is inside, nobody
  interferes, and whether it gets in is decided while producers run out of tasks
  (`MaxPushes`). In the code a producer pauses between pushes.
- `BufferLifetime`: the threads, libzmq's sending, and time itself; not the
  adjustments of the clock. `TensorsReleased` holds although the clock jumps for
  ever, because each jump stays within `MaxJump`.

`EveryMachineStarts`, `ServiceImplemented`, `ServiceFromStart`, `QueueImplemented` and
`TensorsReleased` are the liveness properties; those about requests need runs
without drops, for no one retries a lost request.

## Proofs

Every theorem below is checked by TLAPS for all values of the constants that satisfy
the named assumptions: any number of machines, requests, messages and launches. Each
property of a run that is proved here was first checked by TLC in the runs above.

| Module | Theorems | Assumptions |
| --- | --- | --- |
| `RequestPipelineProofs` | `Invariance`, `MessagesInvariant`, `Typing`, `Routing`, `LayerOrder`, `Buffers`, `SwarmWeights`, `Batches`, `OneCopyAtMost`, `Refinement` | `PipelineConstants`, `LayersFit`, `ClientRoutesFit` |
| | `TraceInvariance`, `DecodesFindCache`, `NothingLost`, `OneCopyInQueues`, `OrderInvariance`, `OrderKeeps` | the same; the first two under swarm and random, the next two while no link drops |
| `ClusterProofs` | `TypeCorrect`, `HandshakeCorrect`, `CompletionNeverLost`, `FirstWaitCorrect`, `SecondWaitCorrect`, `StopFlagCorrect`, `MainLoopClean`, `HostStartsLast`, `HandshakeImplementsBarrier` | the three of `Topology`, `InitCap` positive |
| | `StartInvisible`, `ServiceFromPowerOn`, `OrderFromPowerOn`; `NothingLostWithRoom`, as long as requests meet room on the links (`RoomOnLinks`); `NothingLostFromPowerOn`, which is not about swarm and assumes `Cardinality(Requests) <= HWM` | those, and the pipeline's of the graph's own links (`PipelineFits`) |
| `ThreadSafeQueueProofs` | `LockCorrect`, `QueueImplementsTasks` | `QueueThreads` |
| `SwarmSchedulerProofs` | `WeightsBounded`, `SchedulerBalanced`, `WaitBounded` | `SwarmConstants`, `Saturation` |
| `BufferLifetimeProofs` | `LifetimeCorrect`, `HoldIsLongEnough` | `BufferConstants`, `HoldSuffices` |
| `SwarmTimingProofs` | `TimingCorrect`, `StagesMeasured`, `AssertHolds` | `TimingConstants`; the last one `HopsOutlastSkew` |
| `ConfigParserProofs` | `TableReceived`; `TableRead`, for files that do not end with the host (`WorkerLast`) | `FilesWellFormed` |
| `WiringProofs` | `WiringCorrect`, `LinksFollowTable` | `WiringConstants` with `SoundTable` |

**Start-up.** None of the safety properties is inductive as it stands: whether an
`InitComplete` may be lost depends on which messages were heard on the other
side of the ring. The invariant `HandshakeInv` has five parts.

- `ConfigInv`: a worker's exchange is under way while its receiver waits for it.
- `FlagsInv`: each shared flag says where the receiver is, and a sender announces
  nothing its receiver has not reached.
- `LinksInv`: a message in a link, or heard from it, proves the link subscribed.
- `WaveInv`: as soon as one sender announces completion, every first wait in
  the cluster is over.
- `CompleteInv`: an `InitComplete` is the last message of its link, and a link it
  was heard from is empty.

The step that needs the graph is `WaveInv` when the host leaves its `Init` loop.
The set of machines whose first wait is over contains the host; it is closed under
inputs, because a machine has heard from each of its inputs, and a worker sends
`Init` only after its own first wait. By `MachinesReachHost` it is all of them
(lemma `FirstWaitsOver`). The same argument, with completion in place of
readiness, gives `HostStartsLast`. From `WaveInv` and `LinksInv` every link is
subscribed before the first `InitComplete` is published: this is why "this
message will not be lost" (`compute_worker.h:566`) is true.
`WorkersHaveInputs` is used where a worker's waits must not be vacuous.
`TypeOK` is more than types: a link never queues more than `InitCap` `Init`s and, behind them, one
`InitComplete`. The first is the cap of the model (`InitsInv`); the second is not inductive and follows
from `CompleteInv`. `Types` is the types alone, which the steps of the invariant start from.

**Main loops.** The inductive invariant `PipelineInv` has two halves. `MessagesInv`
says of every queue, link and batch what the messages in it look like (`AtSender`,
`OnLink`, `AtWorker`, `Answered`): how much of the route there is, where it leads, which
stages have layers, which cells of `swarm_delta` are durations and which buffer
comes with it. It is what makes the header's three writers agree: the sender that adds a stage, the
receiver that fills in its layers, the compute thread that goes on to the next. `Once` says
that no two places hold a request with the same id, and that the client waits for
each request there is. It is stated over one function, `Held`, from all places of
the cluster to the sequence each holds, so that every step is one of a few kinds: a
message moves from the head of one place to the end of another (`OnceMoved`), a
place takes over a whole queue (`Fetch`), a place loses messages. A dropped message, a
broken link and a repeated prompt need no argument of their own. The properties follow from the
invariant through `LocatedSpot`: a located message is the i-th of some place.
`Refinement` adds that the steps other than launch, answer and gather leave the client's
view alone, and that an answer is to a request neither answered yet nor given up.

**What a request leaves behind.** `TraceInv` relates messages to the history `prompt_ran`: where the cluster
decides the routes, the stages a prompt has done, those of a decode's whole route and those of the
route the host has saved have been run by the request's last prompt. A new prompt empties the
history, which is sound because no other message of the request exists then (`Once`). Stages
are compared up to `delta`, which other threads write. A client's route (maxflow) is its own, and nothing
holds there.

**What is not lost.** `PlacedInv` says that what the client waits for is in some place; with `HeldCopies`, which counts
the copies of a request by the places that hold it, it is in exactly one. Only two steps of a
main loop can break it, the sends, so `NothingLost` has as its hypothesis that they find a subscribed link with
room (`NoLoss`). Under random and maxflow the hypothesis follows (`OneCopyInQueues`) from connections that stand
and `Cardinality(Requests) <= HWM`: the request about to be sent is itself in no link, and each
other one is in one place at most. Under swarm the `SwarmInfo`s in flight have no such bound, since
their sender answers for nobody.

**Order.** `NoOvertaking` compares messages in different queues of different machines and says nothing of two in the
same queue, so it is far from inductive. `OrderInv` orders all spots, a place and a position in it, by three statements:
each request in the cluster was launched before the next launch; of two whose ways agree as far as
the earlier one's goes, the later one has reached no further stage; and where both have reached the same stage, the one in front, in the same place or in a
later one of the same machine (`Rank`: link, receive queue, on the fly, send queue), was launched no later. A way and a rank tell the place (`WayTells`),
so what comes behind the last of a queue comes from the one place before it. Each kind of movement is then
one lemma: `OrderShortened` for losses, `OrderTogether` for `pop_all`, `OrderLeft` for the head of a place
that goes one place further, `OrderEntered` for a launch. Nothing in it depends on how
many messages there are, and a loss only removes spots.

**Both together.** `StartInvisible` says that `ClusterSpec` implements the pipeline with
`subscribed <- Edges`. `ClusterInv` adds one conjunct to the invariant of the start-up: until the
host's `start_network_threads` has returned, the pipeline is empty (`ClosedInv`). By
`HostStartedMeansClusterReady` anything in the pipeline therefore finds every receiver in
its main loop and every link subscribed (lemma `ReadyWhenUsed`), and a step of the main loops is the
same step of a pipeline that was always up.

`PipelineFits` says that the pipeline's assumptions hold of the links the graph has; the module
`RequestPipelineProofs`, instantiated with those links (`Proved`), then gives its theorems about
that pipeline, and they are stated of the whole cluster: `ServiceFromPowerOn` (from
`Refinement`), `OrderFromPowerOn`, `NothingLostWithRoom` (from `NothingLost`) and `NothingLostFromPowerOn`
(from `OneCopyInQueues`). The start-up itself costs no request under any of the three schedulers: the hypothesis of
`NothingLostWithRoom` speaks of the high-water mark alone. Without swarm it follows from the number of
requests. What a client was promised of a
running cluster it may count on from the moment the processes are started.

**Queue.** `QueueInv` says that whoever is between a read and its store owns the lock and
has read the queue as it still is. Every step then maps to a push, a take or a stutter.

**Scheduler.** `Balanced` is inductive. The chosen server was least, so it was within one choice
of each; monotone rounding keeps that. `Saturation` (no sum is rounded beyond
`Limit`) is where a float that never overflows enters. `WaitInv` is the counting behind
`BoundedWait`: the choices a server has waited for and the pairs of another server and a priority
that server has yet to pass through (`Ahead`) together stay below the bound. A choice that is not
absorbed takes at least one pair away (`AheadLess`), and a server that has just been chosen finds the
bound kept because by `Balanced` a weight spans at most `MaxWeight + 1` floats (`FloatsBetween`).

**Buffers.** `HoldInv`: a tensor that a message still points into is queued for `tensor_gc` or on
hold, and its entry counts no more time than has passed since the submission. What the two readings of
the clock add to that is at most twice `MaxJump`, so with `HoldSuffices` no such entry has expired.
Nothing in `src/` establishes `HoldSuffices`: the ten seconds are an assumption about the
network and the clock, and the theorem says which.

**Clocks.** Each cell of `swarm_delta` is a time within `Skew` of the true one, or a duration right
up to twice that. `AssertHolds` has `HopsOutlastSkew` as its hypothesis: the Asserts on
`delta_time` (`compute_worker.h:625`, `:641`) hold on clusters whose clocks are in step up to
half of the shortest hop, and no code sees to that.

**Sockets.** Each thread's sockets are a function of its entry in the table; two of them
meet exactly if the reader's id, as the port, and the address agree, which in a sound
table is an edge.

**Configuration.** `ReadInv` says that the local `machine` is what the lines since the last `machine_id`
say (`Tells`), that the table holds the machines of the blocks before it (`Saved`), and
that there are as many of them as `machine_id` lines before it. A field is given once in a block, so
the value it is set to meets a default (`FieldSet`), for a list the empty one; at the next
`machine_id` the machine is the block's (`BlockEnds`). At the end of the file that is saved only if its
id is not 0, which is why `TableRead` has the hypothesis `WorkerLast` and the run `config_host_last` a
counterexample. `StreamInv` says which machine stands where in the stream, each behind its size and directly
behind the one before (`WrittenAs`); the reader stands where the next one begins, and a machine's
cells are read as that machine (`RoundTrip`). No recursion is needed: the sizes add up in
`begins`, one step at a time.

Only model-checked:

- `OneCopyWhileWaiting` under swarm without the hypothesis that there is room (`NoLoss`, `RoomOnLinks`): what a link must hold then depends on how
  many `SwarmInfo`s are under way. What is proved of swarm without it is at most one copy.
- Liveness: it needs fairness and `ENABLED`, which the prover does not handle.

## Finding

`read_config` pushes the last machine of the file `if (machine.machine_id != 0)`
(`config_parser.h:104`), where the comparison at the next `machine_id` is with -1
(`config_parser.h:76`). A file whose last block is the host's yields a table
without the host. Run `config_host_last` shows it; `config_order` shows that every
other order is read correctly. The configurations in `python/` all begin with
the host.

## What is not modelled

- `MsgType::Terminate`: the receivers handle it, no code sends it.
- `message_gc`: it frees received messages whose contents
  `fetch_new_requests` has already copied or handed on; it has no effect on the queues. Where a small
  message lives inside libzmq's own structure is below the level of the models.
- A connection that breaks during start-up: `ClusterInit` keeps a link once it is
  subscribed. A lost `InitComplete` is sent by nobody again, so the cluster would not start;
  the code has no answer to it that could be checked. Links that break later are in `RequestPipeline`.
- The two plain `bool` flags of the threads are a data race by the language's
  rules; every loop that reads one calls `sleep_for`, an opaque call, so the build
  reads them anew and the models take each access as one step.
- Crashes and restarts: no state is persisted and no thread reconnects with one;
  a crashed machine ends the service.
- A table that `SoundTable` excludes (lists that disagree, two workers at one
  address): the code does not check the file. `stoi` of a malformed number and a bind
  that fails stop the program.
- A file that cannot be opened or that has no machine. `read_config` prints a message and returns an
  empty table in the first case (`config_parser.h:63`), and a table of one machine with id -1 in the second
  (`config_parser.h:104`); its caller goes on with either. `FilesWellFormed` excludes both.
- Values of tokens and activations, their lengths and offsets, copies to the GPU.
- Logging, the Python bindings, the sample programs in `tests/` and the dummy
  computation of the drivers.

## Plan

Done: every component of the inventory but the bindings and tests; the composition of
start-up and main loops; the proofs above.

Next, in this order:

1. Larger graphs in the runs: the cross of `python/config.txt` and all of
   `python/partial_config.txt`.
