# Leibrix master: TLA+ models and proofs

TLA+ specifications of the Leibrix master node, model-checked with TLC on small
instances, and theorems about them checked by TLAPS for every value of the
constants. The code under `src/` is the reference; `PROJECT.json` maps every
definition to the lines it models and lists runs, mutants, hazards, findings and
theorems.

## The system

A Leibrix cluster has a few master nodes. Each runs, in one process:

| Part | Source | Module |
|---|---|---|
| Leader election | `internal/cluster/election.go`, `cluster_event.go` | `LeaderElection` |
| Its listeners: sinks, leader and membership events | `internal/cluster/election.go` | `ListenerSink` |
| Membership listener queue | `internal/cluster/membership_listener.go` | `MembershipListener` |
| gRPC server: health, leader events, shutdown | `internal/api/grpc/lanuch_grpc_server.go`, `leadership.go` | `GrpcServer` |
| Worker streams and the session manager | `internal/api/grpc/control_plane_service.go`, `events/session_manager.go` | `WorkerSessions` |
| Session outbox | `events/session.go` | `SessionOutbox` |
| Event dispatch, state store, messages to workers | `control_plane_service.go`, `events/event_dispatcher.go`, `state_handlers.go`, `heartbeat_handler.go`, `session_manager.go` | `WorkerEvents` |
| Dataset admission and quotas | `internal/api/grpc/management_service.go`, `proto_serde.go` | `DatasetAdmission` |
| Epoch generation | `internal/api/grpc/epoch_generator.go` | `EpochGenerator` |
| Embedded etcd server | `internal/cluster/server.go` | `NodeServer` |
| Process life cycle | `cmd/main.go` | `MasterProcess` |
| Configuration, key strings, example code | `internal/conf`, `pkg/common`, `session_manager_example.go` | not modelled |

The election writes two keys into etcd with one lease: an election key, whose
create revision is the fencing token, and a member key. Two goroutines of each
node write its role: `campaign` and `observeLeader`. The gRPC server asks
`IsLeader()` before every leader-only call and listens for leader events, on
which it switches the health status and closes the worker sessions. A worker's
events are handled in one goroutine each, recorded in a store in memory and
acknowledged through the bounded outbox of its session. Requests to admit a
dataset are cut into epochs and stored in etcd with a compare-and-swap on the
ModRevision. `main` starts the embedded etcd, the election and the gRPC server,
and stops them in the reverse order.

## Modules

    LeaderTerms <-- implements -- LeaderElection -- implements --> Leadership
                                                                       |
                                       WorkerSessions -----------> GrpcServer
                                                                       |
                                       NodeServer -----------> MasterProcess

    OutboxChannel <-- implements -- SessionOutbox --> WorkerEvents
    ListenerSink --> MembershipListener
    DatasetAdmission        EpochGenerator

An arrow without a word leads to the module that extends, and so composes, the
modules it starts from.

* **LeaderTerms**: what the cluster may rely on. One leader at a time, a larger
  token with every new leader.
* **Leadership**: what the services of one node may rely on. `IsLeader()` and a
  channel with room for one event, written by two goroutines that set the role
  first and broadcast later. It is the interface between the election and
  `GrpcServer`: the election is proved to implement it, and the server is built
  on it instead of on the whole election.
* **LeaderElection**: leases, keys and revisions of etcd (external, modelled from
  the use of `concurrency.Session` and `concurrency.Election`), the process of
  each node, and a program counter for each of its goroutines. A step is one
  etcd request, one critical section or one channel operation. So the role is
  set in one step (`observeLeader`, `loseLeadership`) and broadcast in the next
  (`broadcastElected`, `broadcastExpired`). Faults: leases expire at any time;
  `session.Done()` closes before or after that; a node crashes and restarts
  under its name with a new lease; requests fail before or after they take
  effect; the channel of `Observe` closes. The goroutine of `Observe` may read the
  next key before `observeLeader` has handled the last one; the model reads it when it
  is received, and lets any time pass between that and its use, so that the key is as
  old when it is used as one read ahead.
* **WorkerSessions**: for each stream the handler `CoordinateWorker` and its
  receiving goroutine (of a session itself only that it closes); the map and the
  counter of `SessionManager`, one step per atomic operation, as the code has no
  lock; `Close` with its `Range`, `Clear` and `Store(0)`, called by any set of
  goroutines. `Range` is a visit of each worker in any order that finds what is
  stored at that moment. A stream may register several times, under any of its ids
  (`ids`) and under the empty one; its handler remembers the last (`workerID`) and
  unregisters that one only.
* **GrpcServer**: composes `WorkerSessions` and `Leadership` with `Start`, the
  goroutine of the listener, the health status and `Shutdown`. It has actions and
  no specification of its own; `MasterProcess` says when they may happen.
* **OutboxChannel**: what `Session.Send` promises. On each session the worker gets
  the messages that were accepted, in that order and once each; only a tail may be
  missing.
* **SessionOutbox**: `Send`, `writerLoop`, `drainOutbox` and `Close`. Go's rules for
  channels are part of it: `select` takes any ready case, a closed channel yields
  what it holds, a send to a closed channel panics. `Close` is three steps
  (compare-and-swap, cancel, close of the channel) and has three callers. A worker
  may stop reading, so that `stream.Send` blocks, and the connection may break.
* **WorkerEvents**: adds the goroutine of each event, the four handlers with what
  they refuse, the store with its concatenated keys, and `ToWorker` and `Broadcast`.
  A message is named by the goroutine that sends it. `Precedes` says which events a
  worker holds back until another is acknowledged.
* **ListenerSink**: `Watch`, the sinks and the broadcasts, one step per channel
  operation: two goroutines empty and fill the same channel of capacity 1, a third
  fills the membership channel, the goroutine of the listener takes leader events
  first. `LeaderElection` has all of `enqueueLeader` in one step; `LatestHeard` is
  what that step promises, checked on the steps the code takes.
* **MembershipListener**: puts the queue behind a sink: a goroutine for each event,
  which retries for half a second, and consumers.
* **NodeServer**: `LeibrixNodeServer`. The data directory outlives the process; etcd
  fills it in the order directory, snapshot database, WAL, and may be interrupted
  between them.
* **MasterProcess**: `run`, `startServices` with the clean-up of a partial start,
  `handleShutdown` and `shutdownServices`, on top of `GrpcServer` and `NodeServer`.
  The process crashes and is started again. The election's `Close` is the part the
  others see: its goroutines end, then the listeners.
* **DatasetAdmission**: concurrent `AdmitDataset` requests for one dataset and
  `UpsertTenantQuota` of its tenant, one step per access to etcd. The epoch list
  is a set: the code compares lists with `proto.Equal` regardless of order. The
  requests have no repeated epochs. One quota update is under way at a time.
* **EpochGenerator**: `GenerateEpochs`, one step per iteration of a loop: the cross
  product of `extractDimensionValueSets`, then `sliceTimeRange` for each set. Time
  is counted in half hours from Monday, 1 January 2024, so that truncation to the hour
  has something to remove; the Gregorian calendar is defined for every later year. An
  epoch id is the start and the suffix, three bytes of a hash (`hashSuffix`, a constant
  operator of which nothing is assumed). A request without a time partition or without
  an end of the range is refused, one whose partition has no filter panics.
* **MCElection, MCSessions, MCProcess, MCEvents, MCListeners, MCAdmission, MCGenerator**:
  the instances.
* **LeaderElectionProofs, ElectionInterfaces, ProcessProofs, SinkProofs, ListenerProofs,
  EventsProofs, AdmissionProofs, GeneratorProofs**: the theorems.

Operators whose comment begins with "Mutant" are plausible mistakes in the code;
put in place of the definition below them, they make TLC refute the property
named in `PROJECT.json`.

## Runs that pass

| Run | Instance | Shows | States |
|---|---|---|---|
| ElectionSafety | 2 nodes, 2 sessions; one node crashes, loses requests and has a listener | `TypeOK`, `IndInv`, `TermExclusion`, `SharedLease`, `EpochAgreement`, `EpochsIncrease`, `ImplementsTerms`, `ImplementsLeadership` | 705 k |
| ElectionConverges | 2 nodes, one loses requests; fair | `HealthyNodeConverges` | 122 k |
| ElectionClose | 1 node, 3 sessions, crashes, loses requests, closes; fair | `CloseReturns` | 19 k |
| SessionsLife | 2 streams of 1 worker, one registers again and also with an empty id, one Close; fair | `SessionsTypeOK`, `CountAccounting`, `LeftoverEntries`, `OpenSessionsFound`, `CloseReachesEntries`, `ClosedSessionsEnd` | 134 k |
| EventsOutbox | 1 session, 3 events, 1 broadcast, outbox of 1; the worker stalls, the connection breaks; fair | `EventsTypeOK`, `NoPanic`, `AckedRecorded`, `OutboxDelivers`, `EventsAnswered`, `CallsReturn`, `WritersEnd` | 106 k |
| ListenerDelivery | 1 listener with a queue of 1, 3 leader and 2 membership events; fair | `ListenersTypeOK`, `LatestHeard`, `LeaderFirst`, `BroadcastsReturn`, `ListenersEnd`, `AddersEnd` | 145 k |
| ProcessLife | 1 stream, any number of starts, crashes and shutdowns; fair | `ProcessTypeOK`, `RejoinsCluster`, `EtcdStopsLast`, `ProcessExits` | 292 k |
| AdmissionConcurrent | 5 requests, dataset new or existing, lost answers | `AdmissionTypeOK`, `AdmissionInv`, `AcceptedStored`, `EpochsKept` | 872 k |
| GeneratorSlices | 1,231 requests, most of them around the ends of February 2024 and 2025 | `ExactCover`, `CalendarAligned`, `GenerationEnds` | 10 k |

### Bounds

* `MaxLease` bounds the sessions of a behaviour. With two nodes, 2 lets either
  both nodes compete or one node restart while the keys of its former lease are
  still there. The theorems about the same properties hold for every `MaxLease`.
* Faults are limited to one node (`Crashers`, `Closers`, `Lossy`, `Watchers`); the
  code is the same on all nodes, and the other node then is the one that the
  properties protect. The theorems hold for any sets.
* Two streams of one worker are the fewest in which a reconnect replaces an entry and
  a stale handler deletes that of its successor; one of them changes between two ids,
  one the empty one. SessionsReconnect has three, for one stream more that does not
  find the second. The theorems hold for any number.
* `Repeats` are the streams on which a worker registers again, `Recloses` the
  goroutines that call `SessionManager.Close` again. SessionsLife has one closer and one
  call: `Close` then meets every state of the streams, and a second one at the same time
  is in ProcessLife, where both of its callers repeat it. `Faulty` are the streams whose
  client leaves or whose connection breaks. ProcessLife has one stream, without `Repeats`
  and not `Faulty`: what streams do by themselves is in SessionsLife, and here it is what
  leadership and shutdown do to them. `ProcessKeepsSessions` is proved for any of these sets.
* With an outbox of one message and four senders the writer holds a message, the
  outbox another and a third sender waits, which is every way in which a channel of
  1024 can be met. Sessions share nothing but the store and a `Broadcast`; two of
  them have millions of states. The theorems hold for any number.
* Three leader events are the fewest in which one waits in the sink while two
  goroutines replace it at the same time. Sinks do not know of each other.
* Two requests with overlapping epochs and a second attempt at one of them are the
  fewest in which a write comes between the read and the write of another and a
  third builds on either.
* `MaxEpochs` bounds the result of the generator; it is larger than what any of
  the requests with a positive granularity produces, so that only a loop that does not
  advance meets it. `MaxHours` is not a bound of the model but of the code: the longest
  `time.Duration` in hours.
* `Unread` stands for the revision that an admission has not read yet, so that the
  revision 0 of an absent list is told apart from it.

### Deadlock

No run is about deadlock. The runs other than the admission runs say `CHECK_DEADLOCK
FALSE` because their systems may stop; in the admission runs the check is on but cannot
fail, as the role of the node may always change. That nobody waits for ever is said by
the liveness properties. The systems stop when the sessions of a behaviour
are used up, all streams have ended, all messages are sent, a process has panicked on
its data directory, or `GenerateEpochs` has returned.

### Fairness

* A goroutine that can take a step takes it (weak fairness): the Go scheduler.
* A `select` that finds `session.Done()` ready again and again chooses it in the
  end (strong fairness of `LoopEnds`): Go chooses at random among ready cases.
* `Campaign` succeeds in the end if it is retried for ever and could succeed
  again and again (strong fairness of `CampaignReturns`). etcd is assumed to come
  back; the retry is the loop of `campaign`.
* A lease that nobody keeps alive expires, and a client whose lease is gone learns
  it: the TTL of etcd and the keepalive of the session.
* Nothing is assumed of crashes, failures, clients, signals and new leaders.
* In `WorkerEvents` and `MembershipListener` every behaviour is finite up to
  stuttering, so that one weak fairness condition for all goroutines of the master
  is as strong as one for each. It does not cover workers, connections, callbacks of
  listeners, consumers of the queue and the caller of `SessionManager.Close`.
* `LiveProcessSpec` has weak fairness of `main` together with what it waits for in
  `Close` of the election: the broadcasts that are due and the goroutine of the
  listener. It lets a handler of a stream hang for ever: `Shutdown` has a timeout.
  `FairProcessSpec`, for statements that TLC refutes, adds that listener and broadcasts
  always proceed, and `Start` and the handlers too.

## Runs that end in a violation

Each checks one statement of a document, a comment or an interface definition of
the repository against what the code does. `PROJECT.json` quotes the statements.

| Run | What happens |
|---|---|
| ElectionStepDown | `observeLeader` applies a key it received before the lease ended, after `loseLeadership`; the node answers `IsLeader()` with true without a lease. |
| SessionsReconnect | A replaced stream's deferred `Unregister` deletes the entry of its successor; the next reconnect does not close that successor. |
| AdmissionFirst | Two first admissions both use an unconditional Put; epochs answered ACCEPTED are lost. |

TLC refutes some more statements, which the modules define and no configuration
lists; the three runs above are those with the gravest consequences. The instance is the one of the run named, with the changes given.

| Statement | Instance | What happens |
|---|---|---|
| `LeadershipRecovers` (docs/leader-election.md:191) | ElectionConverges, `MaxLease` = 1, `Lossy` empty | After an expiry `campaign` retries for ever with the dead session. |
| `LeaderNameConverges` (docs/leader-election.md:65) | ElectionConverges | `loseLeadership` clears the name of a new leader that `observeLeader` has already stored. |
| `CountWhenQuiet` (session_manager.go:115) | SessionsLife | `Close` zeroes the counter between the two updates of a `Register` or an `Unregister`; after the latter the counter, and `ActiveWorkerCount`, is -1. |
| `LossEndsStreams` (docs/leader-election.md:97) | ProcessLife, `FairProcessSpec` | A `RegisterEvent` handled between `Range` and `Clear` leaves a stream open on a node that does not lead. |
| `HealthFollowsLeadership` (docs/leader-election.md:202) | ProcessLife, `FairProcessSpec` | `Start` reads `IsLeader()`; the term ends and its end is broadcast before `Start` registers the listener; health stays SERVING. |
| `ProcessAlwaysExits` (docs/leader-election.md:296) | ProcessLife, `FairProcessSpec` | `Start` registers its listener after `closeAllListeners`; `Close` waits for a goroutine that nobody ends. |
| `UndoneInReverseOrder` (docs/leader-election.md:219) | ProcessLife, `ProcessSpec`, as an invariant | When the election or the gRPC server fails to start, etcd is stopped before the election is closed. |
| `RestartsWithoutHelp` (server.go:43) | ProcessLife, `ProcessSpec`, as an invariant | A first start that is interrupted when only the member directory exists makes all later starts panic, which the comment at server.go:78 wants. |
| `OneEpochPerId` (proto/control_plane.proto:90) | AdmissionFirst, `r2` generating the one epoch `Days(1, 3)` | The same range with another granularity stores a second epoch with the same id. |
| `TenantWithinQuota` (README.md:15) | AdmissionFirst | `max_epochs` is compared with one request, not with what the tenant has. |
| `LeaderWrites` (docs/leader-election.md:308) | AdmissionFirst | The write of an admission happens after the leadership was lost. |
| `NoDuplicateEpochs` (proto/common.proto:114) | GeneratorSlices, requests `Repeated` | A value given twice generates its epochs twice. Different values share an id too if the 24 bits of their suffixes agree. |
| `UnknownUnitFallsBack` (epoch_generator.go:192) | GeneratorSlices | An unknown unit is truncated as a day and then panics. |

Some more things the models show and no document denies. The documentation says that
an event for a listener whose sink is full is dropped (docs/leader-election.md:75 and
264); of leader events the older one is dropped, so that `LatestHeard` holds. A crash
that leaves a database and no WAL counts as an existing cluster. With a granularity of 0
or less, which proto/common.proto:154 forbids and the code does not refuse, the loop of
`sliceTimeRange` never ends; a time partition without a filter makes `extractTimeRange`
panic. A session registered under an empty id, or under an id that its stream changed
later, stays in the map when the stream has ended, and `Broadcast` goes on finding it
(`LeftoverEntries` says that there are no others).

## What is proved

The theorems hold for any number of nodes, sessions, workers, streams, listeners,
events and requests, any capacities, and any number of starts and crashes. They rest
on the assumptions that the modules state about their constants
(`ElectionAssumption`, `SessionsAssumption`, `ServerAssumption`, `SinkAssumption`,
`QueueAssumption`, `AdmissionAssumption`, `OutboxAssumption`, `EventsAssumption`,
`GeneratorAssumption`), which say what kind of value each constant is. Three say more:

* `ServerAssumption`: the listener and `Shutdown` are the callers of
  `SessionManager.Close`, as in the code.
* `KeysAssumption`, for `AckedEventsRecorded`: events with the same key in the store
  are about the same thing. It holds because ids of epochs and names of event types
  have no slash; the code does not check what a worker sends.
* `GeneratorAssumption`: dates are not before 2024, and a granularity in hours fits a
  `time.Duration`. That a granularity is above 0, which `proto/common.proto` asks for and
  the code does not check, is no assumption but a premise (`PositiveGranularity`) of the
  theorems.

**LeaderElectionProofs** (`TypeCorrect`, `TermsExclude`, `LeaseIsShared`,
`EpochsAgree`, all from `Invariance`). The inductive invariant `IndInv` has five
parts, each needed by the next.

1. `TypeOK`.
2. `LeaseInv`: sessions are the youngest lease of their node; election keys and
   member keys hang on live leases.
3. `RevisionInv`: a create revision identifies a lease. A key is created at most
   once: while a campaign can still create the key of its live session, that key
   never existed. This is where the lost answer of a `Campaign` matters.
4. `CampaignInv`: a campaign that has returned has the first key, as long as its
   key exists. Later keys have larger revisions and earlier ones are gone; that
   gives `TermExclusion`.
5. `ObserverInv`: what observers and listeners hold was an election key once; with
   `RevisionInv` this gives `EpochAgreement`.

The steps of etcd are first classified (`EtcdStep`, lemma `StepKinds`), so that
parts 2 and 3 are proved per kind of change and not per action.

**ElectionInterfaces** says what others may rely on.

* `ElectionImplementsTerms`. The leader of `LeaderTerms` is the owner of the first
  election key, its token the key's revision. Keys vanish or one key appears with the
  largest revision; either maps to `Elect`, `Vacate` or a stuttering step. That every
  nonempty set of keys has a first one (`LowestKeyExists`) is an invariant for the same
  reason, so that no argument about finite sets is needed.
* `StaleLeadersFenced`. A node goes on leading until it learns that its lease is gone, and
  `Campaign` returns without looking at its own key. `FenceInv` says of both cases what
  `CampaignInv` says only as long as the key exists: a campaign that has returned keeps
  its revision, and no key has a lower one. So while the node holds its term its revision
  is the token, and afterwards every other leader has a larger token (`LeadersFenced`).
* `EpochInvariance` and `ListenersSeeEpochsIncrease`. `EpochInv` says that what a
  listener was given is below what its observer is about to publish, which is below
  every key that exists or will exist. It is stated node by node (`EpochAt`), as a step
  disturbs it for one node or moves only the keys.
* `ElectionImplementsLeadership`. Each action of a node maps to a step of `Leadership`
  for that node and a stuttering step for the others.

**ProcessProofs** begins with `WorkerSessions` (`OnlyGivenUpEntriesStay`,
`SessionsTypeCorrect`, `OpenSessionsAreFound`, `CounterIsExact`). `LeftoverEntries` and
`OpenSessionsFound` are inductive together with the types and with what a handler
remembers at each point (`HandlerInv`). For the counter, each step moves one stream between the sets of handlers in
flight and the map's entries; the cardinalities come from `FiniteSetTheorems`.

It goes on with `MasterProcess`, whose inductive invariant `ProcessInv` has the types
and three more parts.

1. `SessionsInv`, the invariant of `WorkerSessions`: every step of the process is a step
   of `WorkerSessions`, or stops all streams by force, or ends the process, which leaves
   the sessions as a new one finds them. This gives `ProcessKeepsSessions`.
2. `DiskInv`: etcd is ready only with a WAL on the disk, and the WAL stays. This gives
   `NodeRejoinsCluster`: whatever is left by the crash of a later start,
   `detectClusterState` finds an existing cluster.
3. `OrderInv`: the election exists between its start and its `Close`; without it no
   broadcast is due, no event waits and no callback runs; etcd is closed only after that
   or while a partial start is undone. This gives `ShutdownInReverseOrder`.

That the server may be built on `Leadership` is `ElectionImplementsLeadership`: the
process uses the actions of that module for everything it does with the election.

**SinkProofs** and **ListenerProofs** (`ListenersTypeCorrect`, `ListenersHearLatest`,
`LeaderEventsFirst`, `MembersHeardInOrder`). The inductive invariant `ListenersInv` is
about any number of listeners, whose sinks the broadcasts visit in any order.

1. `CastInv`, `SinkInv`, `EventInv`, `ToldInv`: a broadcast visits every sink of its
   snapshot once, sinks in the map are open, an event under way has not returned.
2. `DeliveryInv`, for `LatestHeard`: for an event that a listener was to be told, the
   sink or the listener has one that is not older, or a broadcast of it is yet to reach
   the sink, or the sink is empty and a goroutine between its drain and its second
   `select` is about to fill it. The last case is the interleaving the code is exposed
   to; it needs that what fills the sink after a drain is not older than the event of
   the goroutine that drained it.
3. `WaitInv`, for `LeaderFirst`: an event that was waiting when a callback returned
   stays in the sink until the first `select` takes it.
4. `CountInv`, for the bound on the goroutines of `tryAddEvent`: each event is at one
   place on its way to a listener.
5. `OrderInv`, for `MembersInOrder`, which no configuration lists: membership events that
   are not dropped are heard in the order of their broadcasts.

**AdmissionProofs** (`AdmissionInvariance`, `AcceptedEpochsStay`,
`TransactionsKeepEpochs`, `AdmissionTypeCorrect`, `RefusedRequestsLeaveNothing`). The strengthening says that a
list read at the revision the key still has is the list that is stored; a
transaction that succeeds therefore writes a superset. For the unconditional Put
it says that a request about to put is either the first to write or not the only
one that found no list, which is the exception `AcceptedStored` makes.
`RefusedRequestsLeaveNothing` says where the epochs of a list come from: the list that
was there at the beginning, or requests that passed the checks of `AdmitDataset`. It
needs that a merge writes back only what is stored.

**EventsProofs** (`EventsTypeCorrect`, `NeverPanics`, `OutboxImplementsChannel`,
`AckedEventsRecorded`). The inductive invariant is `EventsTypeOK` and `EventsInv`,
which has three parts that do not need each other.

1. `ClosedOnce`: at most one caller of `Close` is past the compare-and-swap, and the
   outbox is open until it has closed it. This gives `NoPanic`.
2. `OutboxAligned`: as long as the stream is not down, what was accepted is what was
   delivered, the message being written and the outbox, in this order. Once it is
   down nothing is delivered any more, so nothing needs to be said. A step of the
   outbox then maps to `Accept`, `Deliver` or a stuttering step of `OutboxChannel`.
3. `RecordInv`: a message on its way answers an event that is recorded; an event that
   was held back follows events that are recorded; what the store holds under a key
   is not older than any recorded event with that key. `AckedRecorded` follows.

Here too steps are first sorted by what they change (`StepKinds`, `MovingSteps`,
`CalmSteps`), so that each part is proved for the few actions that disturb it.

**GeneratorProofs** (`EpochsAligned`, `EpochsCoverExactly`, `GenerationAdvances`), for
every set of requests and every `hashSuffix`, and for requests with `PositiveGranularity`.
The theorem about coverage is for requests that also meet `DistinctDimensions`: their
partitions are of different columns and name no value twice.
With a value given twice the code generates its epochs twice (see above), and of two
partitions of one column the later overwrites the earlier.

* The calendar: months are 28 days or longer and begin in order, every instant has a
  month (`MonthOf` chooses one that exists), and `Bound(u, n)`, the n-th boundary of a
  unit, increases with n. Existence comes from the least element of a set of numbers
  (`LeastNumber`), not from induction over data. `truncateToGranularity` then yields the
  last boundary that is not after the instant, and `addGranularity` the boundary that is
  `value` further; between them lie exactly `value - 1` others.
* `SliceInv`: the loop is at a boundary, the epochs lie between boundaries and meet the
  range, and the instants up to `current` are covered for the set that is being sliced,
  all of them for the sets before it.
* `DistinctInv`: the sets are the choices of one value from each dimension that is done,
  each once; `nextSets` holds what the two inner loops have visited; of two epochs of the
  same set the earlier ends first.
* `GenerationAdvances`: every step makes `Remaining` smaller, a tuple of natural numbers
  in lexicographic order: the phases that are left, then the rounds of the loops from
  the outer to the inner one. The last part needs that `addGranularity` moves `current`
  forward. No request with a positive granularity can therefore keep a call busy for ever; that the call also goes
  on until it returns is `GenerationEnds`, which is checked by TLC.

`EpochInv`, `EventsInv`, `ProcessInv` and `ListenersInv`, being proved, are in no
configuration; as invariants of ElectionSafety, EventsOutbox, ProcessLife and
ListenerDelivery TLC finds no violation of them. The same holds of `FenceInv` and
`LeadersFenced` in ElectionSafety, of `RefusedLeaveNothing` in AdmissionConcurrent and of
`StepsAdvance` in GeneratorSlices. `SliceInv` and `DistinctInv` quantify over
all numbers and strings, and TLC was given them with finite sets in their place.

Only model-checked:

* Liveness (`CloseReturns`, `HealthyNodeConverges`, `ClosedSessionsEnd`,
  `CloseReachesEntries`, `GenerationEnds`, `EventsAnswered`, `CallsReturn`,
  `WritersEnd`, `BroadcastsReturn`, `ListenersEnd`, `AddersEnd`, `ProcessExits`): the
  prover does not handle fairness and `ENABLED`.

Every invariant and every action property that a passing run checks is also proved.

## Not modelled

* What membership events say (`buildMembershipEvent`) and `Members`, which reads; the
  sinks carry numbered events. The order in which consumers of a `MembershipListener`
  meet its events: each event has a goroutine of its own, so it is any order.
* A message too large for the stream (128 MB), for which `stream.Send` would fail on a
  connection that is up; a `RegisterEvent` without a worker, on which the handler panics.
* `Stop` and `initiateShutdown` of the gRPC server, which `main` never reaches.
* The configuration of etcd (`buildEtcdConfig`): it is accepted or refused.
* The composition of `SessionOutbox` with `WorkerSessions`, and of `ListenerSink` with
  `LeaderElection`: each is in the other as one step (`SessionBreaks`,
  `broadcastLeaderEvent`), for the products are out of TLC's reach.
* Torn reads of variables that are shared without synchronisation
  (`leadershipStop`).
* The inside of etcd: it is taken to be linearizable; its own faults show as failed
  requests and expired leases. Nobody reads the error channel of the embedded server.
* A granularity of more than 292 years in hours, for which the `time.Duration`
  overflows; ranges before 2024.
* Formats, key strings, logging, configuration.

## What may come next

1. `NoDuplicateEpochs` and the other refuted statements as runs of their own.
2. A theorem that `ListenerSink` implements the sink of `Leadership`: the two
   goroutines' `enqueueLeader` as one step each, up to the order of concurrent
   broadcasts.
3. Two streams in ProcessLife and two listeners in ListenerDelivery, with a reduction
   of their state spaces.
