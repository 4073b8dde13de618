# TLA+ models of IndiLog

IndiLog is a runtime for serverless functions with a shared log. Functions
append entries to the log and read them by seqnum and tag; the log is ordered
by sequencers, stored by storage nodes and located through distributed indexes.
It extends Boki (the log) and Nightcore (the function runtime).

This directory models the log (`src/src/log`: how the metalog is replicated and a
view is sealed, how engines obtain storage shards, how appends get their place in
the log, how entries move from memory to the database, and how reads find them
through a complete, a local or a distributed index), the function runtime under
it (`src/src/engine`, gateway, launcher and worker libraries), the ring of
operations under all connections (`src/src/server/io_uring.cpp`), and the state store
and queues that functions keep in the log (`src/slib`). TLC checks the models on
small instances, TLAPS proves the safety properties of the log's core (replication,
appends, storage, complete index, index tier, registration) for every instance.

    tlc -config MetaLogReplication.cfg MCMetaLogReplication
    tlapm MetaLogReplication_proofs.tla

`PROJECT.json` maps every definition to the lines it models and lists the runs,
the theorems, the hazards of the code and the seeded faults that show that each
property can fail.

## 1. The system

### Components

| Component | State | Operations | Talks to |
|---|---|---|---|
| Controller (`controller.cpp`) | the views, the seal under way, who holds which storage shard | commands start / reconfig, freeze, collect tails, finalize, assign shards | everybody through ZooKeeper; engines when they register |
| Primary sequencer (`MetaLogPrimary`, `sequencer.cpp`) | progress of every (shard, storage node), last cut, progress of every backup, replicated position | shard progress, mark cut on a timer, backup progress, freeze | backups, storage nodes, engines |
| Backup sequencer (`MetaLogBackup`) | its copy of the metalog | apply metalogs, report progress, freeze | primary |
| Engine, append side (`LogProducer`, `engine.cpp`) | next localid, pending appends, `current_view_active_` | append, apply metalogs, end of a view | storage nodes of its shard |
| Storage node (`LogStorage`, `storage.cpp`) | pending entries, live entries, persisted position, shard progress, waiting reads, index data | replicate, report progress, apply metalogs, flush, READ_AT, end of a view | sequencers, engines, index nodes |
| Engine, read side (`Index`, `IndexComplete`, `engine.cpp`) | received index data, cuts, indexed position, the index, pending and blocking queries | read, index data, metalogs, end of a view | storage nodes |
| Index tier (`index_shard`, `indexer`, `aggregator`, `aggregating`) | index shards by metalog position, reads being merged | index data, slave and master queries, merging | engines, storage nodes |
| Local index (`index_local_*`) | suffix of seqnums, per-tag cache, seqnum cache | apply cuts, lookups, eviction | the engine only |
| Registration (`controller`, `sequencer`, `storage`, `indexer`, `aggregator`, `engine`) | `view_mutable`, held requests | block, discard, unblock | a chain through all node types |
| Views (`view*`) | immutable configuration; watcher state | created, frozen, finalized | ZooKeeper |
| Function engine (`src/src/engine`, launcher, worker libraries) | queues and workers of each function, calls and their sessions, shared memory | external, nested and asynchronous calls, completions, discards, new and lost workers | gateway, launchers, functions, the log |
| Gateway (`src/src/gateway`) | pending, running and discarded calls, contexts of connections, load of the engines | requests, dispatch, answers, connections and engines that come and go | clients, engines |
| slib (`src/slib`) | replicas of objects and queues, auxiliary data of entries | writes, transactions, snapshots, push, pop, replay | the log API |
| Ring of an IO worker (`IOUring`) | descriptors in slots, operations, the chain of sends of a socket, read buffers | connect, read, write, send, cancel, close, completions | the kernel, connections |
| Server, ipc, common, utils, base | connections, buffers, timers | I/O | |

A log entry is identified by its localid (shard, counter) until a cut of the
metalog covers it and by its seqnum afterwards. A cut lists, for some shards, how
many entries it takes. All nodes apply the same cuts in the same order and
compute the same seqnums on their own. A view is a period with a fixed
configuration; a reconfiguration freezes the sequencers, takes the last metalogs
of a quorum of them, and publishes the final position of every metalog.

### What is hard

- Handlers run on many IO workers, over several connections between two nodes:
  messages are unordered. A failed send is logged and never repeated.
- Handlers take the lock of a log space several times. Results are taken out
  under the lock and used after it.
- The ZooKeeper thread freezes and finalizes a view while messages of that
  view are still in flight. No log space ever enters `kFinalized`.
- A storage node flushes in a background thread that shares only the lock of
  the log space with readers and with the application of metalogs.
- Engines register while views change and while other engines crash; a shard
  passes from hand to hand through eight message types and three znodes.
- The index is split over nodes by metalog position; each has another progress,
  and their answers to one read are merged. An engine's own index holds a suffix,
  drops what it does not need and must know what it does not have.
- A call of a function lives in tables of the gateway, the engine, the dispatcher,
  the tracer and the worker, each under its own lock.
- Clients of slib share nothing but the log and auxiliary data that may or may
  not be returned, and each one decides for itself what was committed.
- The connections of an IO worker share a ring: callbacks start operations while
  the one they belong to is being completed, sends are cut into pieces and chained,
  and slots, descriptor numbers and buffers are used again.
- Positions of three kinds (localids, metalog positions, seqnums) advance
  independently at every node. Many checks are `HLOG_F(FATAL)` or `DCHECK`.

`PROJECT.json` lists these hazards at their lines, with the properties for them,
or the reason why there is none yet.

### What makes each component correct

- Metalog: all log spaces apply prefixes of one log; what was propagated survives
  every seal; the sealed log is the same everywhere and final.
- Appends: one seqnum per entry and per seqnum one entry, answers only for entries
  on all replicas, no entry for an append that was reported as discarded,
  real-time order, every append is answered.
- Storage: every entry can be read from its seqnum on, memory is bounded, index
  data leaves once, waiting reads end.
- Reads: what a search of the log gives at some position, not older than what
  the function has seen; the same for the merged answers of the index tier and
  for what the local index answers alone; every read ends.
- Registration: one engine for a shard, known to all, starting where its
  predecessor's entries end.
- Function runtime: a call is answered once, with its own outcome, is never
  forgotten, and sees what its caller saw.
- Ring: bytes leave in the order of the calls, callbacks tell the truth and all run,
  no operation outlives its descriptor, what is closed ends.
- slib: snapshot isolation, FIFO, and caches that agree with the log.

## 2. Modules

| Module | Models |
|---|---|
| `OrderedMetaLog` | abstract: a log of cuts, committed in order, read in order, sealed at a position that covers what is committed |
| `MetaLogReplication` | the sequencers, the controller's seal and `LogSpaceBase`; implements `OrderedMetaLog` |
| `AppendLog` | abstract: the log as its producers see it |
| `SharedLog` | the append path on top of the ordered metalog; implements `AppendLog` |
| `LogStorage` | one storage node from the seqnum of an entry to the database |
| `LogIndex` | the complete index of an engine and its reads |
| `Registration` | views, storage shards and engines that come and go |
| `IndexTier` | index data, index shards, merging, and the answers of storage nodes |
| `LocalIndex` | suffix chain, seqnum cache and tag cache of an engine |
| `EngineService` | abstract: what an engine owes the gateway for a call |
| `FuncEngine` | engine, dispatchers, launchers and workers; implements `EngineService` |
| `Gateway` | the gateway, with engines that behave as `EngineService` says, and crash |
| `IOUring` | the ring of an IO worker and the connections on it |
| `SlibLog` | the log as slib sees it, with auxiliary data |
| `StateStore`, `SharedQueue` | objects with transactions, and queues, over `SlibLog` |
| `Slib` | the two on one log |
| `MetaLogReplication_proofs`, `SharedLog_proofs`, `LogStorage_proofs`, `LogIndex_proofs`, `IndexTier_proofs`, `Registration_proofs`, `Gateway_proofs` | the theorems about these modules |
| `SharedLogRefinement_proofs` | the two refinements of `SharedLog` |
| `MC...` | instances for TLC and fair specifications |

`SharedLog` does not repeat the replication protocol: its metalog actions are
those of `OrderedMetaLog` (`UsesOrderedMetaLog`, checked by the run `shared_log` and
proved), and `MetaLogReplication` is proved to provide them
(`ImplementsOrderedMetaLog`); `SharedLog` itself is proved to implement `AppendLog`. `LogStorage` and `LogIndex` start where `SharedLog`
ends: the sealed log of a view is given by constants, so every log of a given
size is an instance; `IndexTier` and `LocalIndex` do the same. `Gateway` takes its
engines from `EngineService`, which `FuncEngine` is checked to implement, and
`SlibLog` takes from `LogIndex` that a read of the tail is not older than what its
session has seen.

Definitions called "seeded fault" are not part of a specification. Each one
is a plausible mistake in the definition below it, and each property is violated
when its fault is put in.

### MetaLogReplication

`metalog[n]` is `applied_metalogs_` with `metalog_position_` as its length, and
`pending[n]` is `pending_metalogs_`, for the primary, the backups and the nodes
(storage nodes, and engines registered from the start). `progress` and
`replicated` are the primary's bookkeeping. `tails` and `final` are the znodes of
the seal, `outcome[n]` is how `Finalize` ended at n. FATAL outcomes stop the node.

| Action | Code |
|---|---|
| `MarkNextCutIfDoable` | the cut timer; `MarkNextCut`, `ReplicateMetaLog` |
| `OnRecvNewMetaLogsAtBackup`, `...AtNode` | `OnRecvNewMetaLogs`, `ProvideMetaLog`, `AdvanceMetaLogProgress`; the backup's META_PROG |
| `OnRecvMetaLogProgress` | `UpdateReplicaProgress`, `UpdateMetaLogReplicatedPosition`, `PropagateMetaLog` |
| `FreezeView`, `OnViewFrozen` | the controller's freeze znode; `Freeze`, the tail of each sequencer |
| `OnFreezeZNodeCreated` | collecting tails, `CheckAllSealed`, `BuildFinalTailMetalog` |
| `OnViewFinalized` | `FinalizedLogSpace`, `LogSpaceBase::Finalize` |
| `LoseMetaLogs`, `LoseMetaLogProgress` | a failed send |

A cut is an opaque value here, and backups and nodes are there from the start.

### SharedLog

A shard stands for its engine too. `replicateMsgs` and `progressMsgs` are unordered;
nothing obliges `Spec` to deliver them. `MarkNextCut` picks any order of the dirty
shards because `dirty_shards_` is a hash set. Applying cuts is one action for
storage nodes (`StorageOnRecvNewMetaLogs`) and one for engines; a missing entry
puts the node in `fatal`. `liveEntries` keeps entries that were persisted and
dropped from memory: `LogStorage` is about those. `floor` is a history variable
for `RealTimeOrder` and is read by no action.

### LogStorage

One step for each time a thread holds the lock: an IO worker decides a read
(`HandleReadAtRequest`) and answers it later (`ProcessReadResults`); the background
thread grabs entries, writes them one by one and moves the persisted position
(`GrabLogEntriesForPersistence`, `PutLogEntryToDB`, `LogEntriesPersisted`); the
ZooKeeper thread finalizes and then polls (`Finalize`, `PollFinalized`), holding
the lock of the view in between. Only entries of the node's own shards are read,
as an index that found the entry directs the engine to its storage nodes.

### LogIndex

`OnRecvNewMetaLogs` and `OnRecvNewIndexData` end in `AdvanceIndexProgress`, which
indexes complete cuts and then looks at blocking and pending queries; which
blocking reads are older than their timeout is a free choice. `session[c]` is the
metalog progress that `FinishLocalOpWithResponse` keeps for a function call;
`Learn` is what a call gets to know by appends and from other calls.
`MakeContinueQuery` is a query passed on by the index of the next view.

### Registration

`ctrl` and the znode variables are the controller; `seen[n]` counts the view
znodes that n's `ViewWatcher` has delivered, so each node changes view at its own
time. An engine asks for a shard by znode, blocks it (`REGISTER_ENGINE`), registers at
storage, index and aggregator nodes, unblocks it and appends. Metalogs are
propagated when they are marked: how they get there is `MetaLogReplication`'s
subject. `Crash` and `OnNodeOffline` are two steps, as the ZooKeeper session outlives
the process; with `LateMessages` the messages do too. `RemovePendingEntries` is
modelled as it is: with a pending entry its loop does not end, and the node serves
nobody any more. A storage node stores what reaches it after the end of its view, as
no log space ever is `finalized()`; only its progress reports end.

### IndexTier

Storage nodes apply cuts and send the packages of all of them to the index
nodes that own one. `index[i]` is an `IndexShard`; `polled` holds query results between
the lock of the index and their processing. `merger` chooses between a master
index node and an aggregator. A point hit is sent on to the storage node before
the merge is complete; when that send fails, the engine is told DATA_LOST. `MaxFailures`
bounds the reads whose requests do not all leave the engine.

`IndexNodes` is the list of the plan, in the order that the controller's shuffle gave it.
The plan takes the node at a place for the shard of the place (`IndexShardNodes`), index nodes and
storage nodes go by the node's id (`ShardOf`). With several replicas these may differ, and a
read then asks one shard twice and another never. `asked` in `reads` is the history of the
nodes a read was sent to; `EachShardAsked` says that they keep different shards, and is the
condition of `ReadSeesSession` and `AnsweredOnce`. Messages are sets, so equal requests of
a read that asked a shard twice are one.

### LocalIndex

`chain` has one link for each view with `LinkEntry`'s key differences; `cache` is the
tag cache with its views, suffixes, minima and popularity; `minMsgs` are READ_MIN
requests with the position at which they were made. Metalogs come in order of the
engine's log space, index data in any order; an engine that joins a view late
(`JoinPositions`) does not get the cuts before that. A read goes to the chain, to the
seqnum cache or to the tag cache, waits there, or is a miss and goes to the index tier;
READ_NEXT_B, for which the local index has no case, stops the engine.
`mixed`, `partial` and `hollow` are history variables: they name states in which the
code answers wrongly (section 5), which the properties exempt.

### FuncEngine

Every handler of the engine is one step; messages to and from a worker are
sequences. `dispatchers[f]` has pending calls, workers, running and requested
workers; `fn_call_ctx` is the metalog progress of each call. `exec[c]` is what the
library of worker c does: Go and C++ workers run one call and wait for nested
ones, event-driven workers interleave. Timeouts of nested calls, queueing delays
and concurrency limits are free choices, the latter within the dispatcher's clamp: its
minimum of workers is 0 unless one is configured (`MinWorkers[f] = -1`), while the worker
manager then asks for `DefaultMinWorkers`. Through a FIFO the callee answers in two
steps, the output region and the FIFO, and the caller may give up between them. A log operation
raises the context of its call and answers in two steps as well. `floor`, `zero` (calls queued
under a limit of 0) and `abandoned` (regions of callers that gave up) are history variables.

### Gateway

An IO worker runs one handler at a time, `task[w]` says where it is. Handlers are
cut at every lock, send and hand-over. The server's thread hands a new connection to
its worker (`OnNewConnection`) and enters it in `connections_` afterwards (`EnterConnection`);
`registering` is the connection in between. `context` is what a `FuncCallContext` object
holds: gRPC connections reuse them. `lost`, `overtaken`, `dropped` and `wild` are history
variables for the exemptions of `NoCallForgotten` and `LoadIsReal`.

### IOUring

One thread runs a ring and the connections on it, so their state is one record,
`io`, and each function of `IOUring` is an operator from one state of it to the next:
a callback that sends or closes is a call inside the handler of a completion, as
in the code. `io.ops` is `ops_`, `io.fds` the descriptors, `io.sendall_cbs` the
callbacks that move from op to op, `io.returned` the ops that were given back to the
pool and are still in `ops_`. `EventLoopRunOnce` takes one completion off `cq`; `Start` and
`Scheduled` are the functions of connections between completions. The kernel is
external: it takes the operations it was given in any order, sends any part of the
data, answers a cancel in its three ways (`-EALREADY`, `-ENOENT`, done), and `Reset` makes
every later send of a connection fail. The sends of a peer that does not read (`Stall`) wait
until it reads again (`ReadAgain`), or for ever. Data are pairs of call and byte, so that `wire`
tells who sent what. A descriptor gets the lowest number that is free, as in Unix.

### SlibLog, StateStore, SharedQueue, Slib

Every operation is an append and a replay backward from the appended seqnum:
two steps, between which the other clients do what they like. A replay is one
step: it reads entries below its start, which do not change, and auxiliary data,
for which a read returns any value ever set or none. Operations are names, the
contents of an object are the sequence of names applied to it, so two replicas agree
only when they applied the same operations in the same order. Names with equal
hashes share a tag. A read of a queue's replay may fail: on the way back the call
returns the error, while applying a pop it is ignored (`Swallow`; `swallowed` is the history
of these pops) and the replay goes on and caches a state that does not know of the pop.

## 3. Runs

| Run | Instance | Shows |
|---|---|---|
| `replication` | 3 backups, 1 node, 2 cut contents, 2 metalogs, tails of 2 | replicated metalogs survive a seal, finalized log spaces agree, `OrderedMetaLog` is implemented, with loss and reordering |
| `replication_live` | 2 backups of which one may stop, 1 node | replicated cuts reach the nodes, a seal completes |
| `shared_log` | 2 engines, one shard on two storage nodes and one on one, 2 appends in all, 2 cuts | `AppendLog` is implemented on top of `OrderedMetaLog`, answers are on all replicas and in real-time order, every append is answered |
| `log_index` | 2 cuts with 1 and 2 entries, 2 tags, 2 storage nodes with a common shard, 1 call | reads are searches of the log, sessions are kept, waiting reads end |
| `log_storage` | 3 cuts, 3 own entries, memory for 1, 2 requests at a time | no read loses its entry, index data leaves once, reads are answered, entries reach the database |
| `registration` | 2 engines, 1 shard, 1 storage and 1 peer node, 2 views, 2 events (changes of view, crashes, appends) | one active engine for a shard, known everywhere, starting where it was blocked; every cut is stored |
| `index_tier` | 3 storage nodes with overlapping shards, 2 index shards of one node, both mergers, 3 entries in 2 cuts, 1 read, 1 failing send; 1.1 million states | index shards hold their part of the log; a read sees its session, is answered once and ends |
| `local_index` | a log of 1 view with two competing tags, two of 2 views, joined at the start or late; suffix and cache of 2, 1 read, 1 activation | answers of the local index are searches of the log; reads wait when they must |
| `func_engine` | 2 functions that invoke each other, Go, C++ and event-driven, one without a minimum of workers, 2 calls of the gateway, 1 nested call for each worker, 1 exit; 1.1 million states | `EngineService` is implemented, no call is stranded but under a limit of 0, regions follow calls, sessions are inherited |
| `gateway` | 1 HTTP and 1 gRPC connection on 2 IO workers, 1 engine, up to 3 calls or up to 3 faults; 2.5 million states | responses are those of their calls, no call is forgotten, load is real |
| `io_uring` | a socket and a FIFO on 2 slots; sends of 2 bytes and of 3 spans with an empty one between; 7 budgets of starts, calls, read events, resets and peers that stop reading | the contract of SendAll, ops own their descriptor and buffer, sends and closes end unless the peer never reads again |
| `slib` | 2 clients, 2 objects and 2 queues with equal hashes, up to 5 entries, 1 ignored error | snapshot isolation, FIFO, caches agree with a replay, but for pops behind the error |

Deadlock is not checked: every instance is bounded, a finalized view has nothing
left to do, and function calls end.

### Why the bounds are enough

- Replication: three backups make the middle of the sorted progresses differ from
  the minimum and from the maximum, and a seal quorum (2 of 4) that can consist
  of the slow ones. Two metalogs let messages of one seqnum overtake the other,
  and let a sequencer be one ahead of the seal. Backups, nodes and cut contents
  are symmetric; the properties checked with symmetry are safety properties.
  The theorems cover every other number.
- Appends: two shards with one common storage node are the least case where a
  cut has several orders and nodes see different parts of it; the two appends are
  of one engine, and can be replicated out of order, or of two; two cuts let a view end with one
  replicated cut and one that is not.
- Index: two cuts, one of which needs data of both storage nodes, and a shard
  whose data comes twice.
- Storage: memory for one entry makes each flush shrink, an entry of the next
  cut arrives while a flush is under way, and one cut has no entry of the node.
- Registration: two engines that want one shard; two events let a holder append
  and crash, crash in the middle of a change of view, or change the view twice
  over a half-done registration.
- Index tier: two cuts, so that each index shard owns one and sees both; a cut
  whose data come from two storage shards, with common replicas. One
  node per shard, so that every read asks each shard; four nodes with this many storage
  nodes are too many states. `MCIndexTier` has the constants of a smaller instance for several
  replicas (`ShuffledIndexNodes`, `OneStorageNode`, `TwoCuts`, `IndexReplicas = 2`,
  `NumStorageShards = Replicas = 1`, 192,735 states): the plan takes nodes 1 and 2 for its first
  shard, so that of the four choices of a read two ask both shards and two ask one of them
  twice. `ReadSeesSession` and `AnsweredOnce` hold there, and fail without `EachShardAsked`.
  The theorems cover every plan.
- Local index: tags with an entry at the front of the log and one at the end, a
  cache too small for both, a view that starts while the data of the last one
  are still on the way, and an engine that joins the second view behind its first cut and
  still gets another.
- Function engine: fewer workers than calls, so that calls queue, and functions
  that wait for each other. One of them has a configured minimum of workers, the other
  has none, so that its limit can be 0. Ids of clients stop at two: one worker each, or a
  second one of f.
- Gateway: a limit of one running call makes the next two queue (the code admits
  one more than the limit); one context is used by several calls.
- Ring: `Budgets` trades the number of connections against calls, reads and resets,
  as all of them at once are too many states. Three calls let one be chained behind a
  vector that was chained itself, two connections let a slot and a number change
  hands, a reset between two chained calls makes the first fail and the second go on.
  A peer stops reading under a single call beside another connection, and under chained
  calls. There is one socket and one FIFO: two sockets that read at the same time, and
  take turns with the buffers, are too many states.
- slib: to have conflicting transactions within the bound the instance also starts
  from two states that `Init` reaches in three appends (`LaterInit` in `MCSlib`).
  Clients, objects and queues are symmetric; all properties are invariants. One ignored
  error, two pushes and two pops are enough for an element that is returned twice.

### Fairness

The liveness runs assume that no message is lost, because the code never
repeats one; that timers fire and that IO workers, the background thread and
ZooKeeper callbacks keep running. In `replication_live` this holds for the
primary and one of two backups only; the other may stop at any moment.
`MarkNextCut` in `SharedLog` is fair because it is driven by the global cut timer.
`FreezeView`, new appends, new reads and `OnViewFinalized` in `LogIndex` and
`LogStorage` are not fair: nothing has to start them. In `SharedLog` the rest of a
seal is fair once some part of it has begun. In `IndexTier` the nodes are fair as a
whole: metalogs and messages arrive and threads run; function calls may stop
reading. The enabling condition is written out there because it is much cheaper to
check than ENABLED. In `IOUring` the loop is fair, and so is the kernel, except for what waits for a
peer: reads, as a peer may be silent for ever, and sends to a peer that stopped reading, which
may never read again. All fairness is weak. The other modules check safety only.

## 4. Proofs

All proof modules follow the same plan: an inductive invariant, in most of them `IndInv`, a lemma
that `Init` implies it, one lemma per action that it is preserved, one lemma for
`[Next]_vars`, and the properties as consequences.

**MetaLogReplication**, under `ReplicationAssumption`: the primary is not a backup,
sequencers are not nodes, the backups are finite, tails hold at least one metalog.
The properties are not inductive alone. `ReplicatedSurvivesSeal`, for example, is
about positions the backups have, but the primary counts messages. `IndInv` adds:

- `Authentic`: metalogs in flight, pending, in tails and published are entries of
  the primary's log, which makes applying any of them at its place correct;
- `OneUnreplicated`: the primary is at most one metalog ahead;
- `ProgressIsTrue`: a backup has what it reported, and a frozen backup reported no
  more than the tail it published;
- `FewBehind`: at most half of the backups are behind the replicated position;
  with the size of the seal quorum a counting argument (`Cardinality` of unions)
  gives a common member;
- `NodesBehind`: nodes only know replicated or sealed metalogs;
- `SealIsQuorum`, `FinalizedWhere`: what the seal was made of and where it left
  the log spaces that finalized.

From `IndInv` follow the theorems for every property of the run `replication`,
among them the step simulation of `OrderedMetaLog` (`Refinement`), and five more:
types, agreement of prefixes, that nobody sees the future, that nothing is taken
back and that a finalized log does not change.

**LogStorage**, under `StorageAssumption`: cuts grow, own entries are in the log.
`IndInv` adds `LiveIsApplied`, `DatabaseIsComplete` (below the persisted position the
database is complete, and below the end of the flush under way it will be) and
`LookupsWillSucceed` (a request sent to the database finds its entry), which carry
the argument across the moments when no lock is held. Besides the two safety
properties of the run, types, that no entry is forgotten and that memory is bounded
are proved.

**SharedLog**, under `SharedLogAssumption`: shards and storage nodes are finite and
different, every shard is on at least one storage node. An answered append is on all
replicas because of a chain of positions that are kept at different nodes, so
`IndInv` has a part for each link:

- `ProgressInv`: last cut <= what the primary was told <= what the storage node has
  contiguously <= what the engine issued, also for the reports still under way;
- `StorageInv`: a storage node has every entry below its shard progress, pending or
  with its seqnum, until it finalizes;
- `LogInv`: the cuts number the entries below the last cuts without gaps, one seqnum
  for each, in a shard in the order of the localids. `SumDeltas`, a recursive
  function, is used through the lemma `SumDeltasFacts`;
- `EngineInv`: an append is pending, answered with the seqnum of its entry, or
  discarded, and exactly one of these;
- `MetaInv`: nodes do not pass what is replicated or sealed;
- `FloorInv`: an append that is not cut yet was issued below the next seqnum.

From it follow `AckedIsOnAllReplicas`, `RealTimeOrder`, and that no node stops for a
missing entry (the FATAL of `log_space.cpp`). `SharedLogRefinement_proofs` adds that
there is room for every cut (`Bounded`, by counting entries with an injection into the
localids given out) and proves both step simulations.

**LogIndex**, under `IndexAssumption`: cuts grow, every entry has a storage node.
`IndInv` says that the index is a prefix of the log (`IndexIsLogPrefix`), that what was
received and is not indexed has no gap below its position (`ProgressInv`) and that
an answer is a search of the log at a position the index had then (`AnswerInv`). That
position may be long passed when the property is looked at: entries that come
later must not change what the search at the old position gives. The theorems are
`ReadIsLogSearch`, `ReadsSeeSession` and that the index is complete.

**Registration**, under `RegistrationAssumption`: the sequencer, storage nodes, index and
aggregator nodes and engines are different nodes (the code has one type for each id),
`None` is no shard and no engine. `ShardHeldOnce` is about engines that finished a
registration; it is inductive only together with all that leads there:

- `ViewsInv`: a node has yet to see only views later than the one it is in, so a
  grant or an answer for a later view cannot be passed;
- `HolderInv`, `ClaimInv`: a shard has one holder in the controller's books, and a
  grant, a message under way or a held shard of an engine that has a session is a
  claim the books agree with; an engine claims one shard in a view. A crashed engine
  has a session until `OnNodeOffline`, and only then its shard is given away;
- `RequestInv`: an engine asks once for a shard of a view;
- `StageInv`: an engine has one message under way with each node, none with those that
  answered, and nothing is unblocked before all of them did;
- `KnownInv`: the nodes that answered know the engine as long as they are in its view,
  the sequencer keeps its shard blocked at the start it was told.

`ShardHeldOnce` is proved with and without `LateMessages`. `ActiveEngineIsKnown` is
proved without, like the run: a request of a dead engine that arrives after its shard was
given away overwrites its successor at a storage node, which the code does nothing
against.

`CutIsStored` rests on `EntryInv`, an invariant of its own over the sequencer and the storage
nodes; of `IndInv` it uses only the types and the order of the views. A storage node
reports no more than it has without a gap, and the sequencer believes no more of a node
in its view, and nothing of one that is not (`ReportInv`); cuts of a view are disjoint and end
below the last cut, a shard to be cut has more on every node (`CutInv`); so what is cut and
not applied, and what is reported and not cut, is pending (`PendingInv`). Progress grows over
ids that are stored because there are fewer entries than ids looked at (`AdvanceFacts`, a
counting argument). `FinalizeInv`, the order of the znodes, says that a view ends once at a storage
node. Who holds the shard does not matter, so late messages make no difference here.

**IndexTier**, under `PlanAssumption` (there are as many index nodes as the plan has places, which
`ReconfigView` checks, and ids are distinct; nothing is said of their order) and
`IndexTierAssumption` (node ids and seqnums are numbers, a log has its cuts in order, a call
appends entries of the log). The properties are about three different things and need
three arguments; the last two are for reads with `EachShardAsked`:

- `ShardIndexIsLog`: `IndexInv` says of every cut what an index node holds of it (`ShardOK`): all
  entries when the cut is indexed, otherwise those of the storage shards whose data came,
  and which shards are still missing. Replicas send the same data again, so what came
  is counted by shard and not by message.
- `ReadSeesSession`: a result of a node is an entry that matches, and no entry that the node
  has to know at the query's metalog progress is closer (`ResultOK`, with `Covers`). This is kept
  by each merge (`MergedOK`, for the nodes that contributed), by waiting (`OfRead`: a query keeps the
  progress its session had) and on the way to the storage node and the engine
  (`EntryAnswers`). When all have contributed, they are as many as there are shards and keep
  different ones, so by counting (`ShardsCovered`) together the whole log. It covers blocking
  reads as well.
- `AnsweredOnce`: `TokenInv` says that the request of a read to an index node exists at most
  once, as a message, waiting, polled, as a result or merged, and that a read was sent
  to the nodes in `asked` only. `AnswerInv` says that an answer that overtook its merge was a point
  hit, which the merge will still see and so not answer again (`PointHitSeen`); a second point
  hit cannot come, as the entry belongs to one shard and one node of that shard was asked.
  A merge that lacks a request that could not be sent never completes.

`Invariance` holds for every plan. `PlanDecides` says when the condition is none: if the plan's
shards are shards by id (`PlanFollowsNodeIds`, a definition of the proof module and assumed by
this theorem alone), every read asks each shard. One replica and consecutive ids give such a
plan, and so does a list in the order of the ids; the controller's shuffle
(`controller.cpp:468`) with several replicas does not.

**Gateway**, under `GatewayAssumption`: connections and nodes have a worker, the limits are
numbers, HTTP and gRPC connections are different and none has the id of an
asynchronous call, and the pool of a connection has as many contexts as there are calls
(`SimpleObjectPool` makes a new one when none is free). Calls, connections, nodes and
workers are as many as one likes. The three properties share the first of these
invariants and need another one each:

- `PlaceInv` (theorem `GatewayPlaces`): a call is queued once, or in the hands of one handler, or
  sent, once and to one node, and its answer is handled once. No lock is held over
  this: a handler that took a call from the queue has it alone until it is sent.
- `LoadIsReal`: `LoadOK` with `Load1` and `Load2`, the property call by call. A place is taken by
  the pick and given back by a failed send or the one handler of the answer, so that
  every step moves at most one call into or out of one `Holding` set.
- `ResponseIsOfItsCall`: `ContextInv`. A call is `Open` as long as its end is still to come; till
  then its context is its own and not written (`OpenOK`), although the connection may have
  gone, and an end that waits at the worker of the connection has a context with its outcome
  (`ScheduledOK`). `PoolOK` says that the pool always has a context for the next call, so that
  `Get` never gives one away twice.
- `NoCallForgotten`: `ProgressInv`, that each call is `Somewhere` or has `Ended`. A call that is being
  entered as running must have been with an engine (`InsertOK`), and only calls whose stream
  is gone are discarded (`ConnsOK`), or a handler could drop one that a client waits for.
  A connection that runs and is not in `connections_` is the one being registered, so that
  what is dropped for want of it is in `dropped`.

The natural numbers are the only place where these proofs need induction; there a
least counterexample (`NatMin`, `LeastNat`, from the well-foundedness of `<`) takes its place.

Only model-checked: liveness, which needs fairness and ENABLED and is outside of
what the prover does; the modules `LocalIndex`, `FuncEngine`, `IOUring` and
those of slib. What replays compute in slib and searches in the local index for logs of
every length would need induction over data, whose theorems the installed provers
cannot instantiate. `LocalIndex` declares two RECURSIVE operators (`CompleteUpdates`, `Evict`); no
module with a theorem uses it. Replays and everything that is proved about do without, with folds
and recursive functions.

## 5. Disagreements met while modelling

These are behaviours that the models contain. Where a property would be violated by
one, it exempts it by a condition of its own:

- `Index::OnFinalized` asserts that only queries continued from a later view are
  waiting when a view is finalized (`index.cpp:198`). Queries that wait for index data
  are waiting too, and in a release build they are answered from an index that is
  too old for them: `ReadsSeeSession` ends with the view.
- `~IOUring` checks that no op is left (`io_uring.cpp:82`), and an event loop ends when
  `ops_` is empty (`io_worker.cpp:172`). When a send of several spans fails, the ops of the
  remaining spans go back to the pool but stay in `ops_` (`io_uring.cpp:630`, `io.returned` in
  `IOUring`), so that a worker told to stop never does. Responses of `HttpConnection` are
  such sends. `OpsOwnWhatTheyUse` counts the ops that are not returned.

- `LogSpaceBase::Finalize` stops the process when the tails leave a gap
  (`log_space_base.cpp:88`), where `shared_log.proto:112` says that nodes fetch it from
  sequencers; and when closing a gap applies a metalog received out of order that
  lies beyond the seal (line 92), although a surplus of one is tolerated at line 81.
- A READ_NEXT merged from index shards with different progress may pass over an
  entry that the slower one has not indexed (`aggregating.cpp:50`): "the first log"
  holds only up to what the session has seen, which is what `ReadSeesSession` says.
- The controller shuffles the index nodes (`controller.cpp:468`), the plan gives them to shards
  by place (`view.cpp:92`), index nodes and storage nodes go by id (`indexer.cpp:42`,
  `storage_base.cpp:177`). With several shards and replicas a read may ask one shard twice and
  another never: it misses entries that its call has seen, and two point hits answer it
  twice (`EachShardAsked`).
- A hit that cannot be forwarded to a storage node is answered with DATA_LOST
  (`indexer.cpp:396`), although the entry is there.
- `RemovePendingEntries` does not end when an entry is pending (`log_space.cpp:471`). Entries
  that arrive after the view was finalized are pending too: `RETURN_IF_LOGSPACE_FINALIZED`
  never returns (`storage.cpp:175`).
- METALOGS that reach an engine before it is unblocked leave only their maximal
  position (`engine.cpp:300`). A view in which an engine was not active is not
  counted by its `FutureRequests`, and the next registration is FATAL (`utils.cpp:32`).
- The suffix chain passes over a later view's link when a READ_NEXT starts before its
  head (`index_local_suffix.cpp:518`). The tag cache looks into the wrong link for a
  READ_PREV between head and tail (`index_local_tag_cache.cpp:322`), keeps index data
  without their view, so that those of two views replace each other and are entered under
  either (line 560), and takes a READ_MIN answer for the truth about a tag that was evicted
  since (line 181). READ_NEXT_B is `UNREACHABLE` there (`index_local_suffix.cpp:175`).
- An engine that joins a view late never gets the cuts before its position
  (`engine.cpp:300`, `963`). While its chain or a tag still has entries of an earlier view, it answers
  READ_NEXT for what it missed with EMPTY or a later entry, also to a call that has seen it
  (`SkippedBehind`).
- The interval between requests for workers is tested the wrong way round
  (`dispatcher.cpp:273`): the model lets a request be made or not. A worker that
  exits during a call stops the engine (`dispatcher.cpp:70`).
- A function without a configured minimum of workers has the minimum 0 in its dispatcher
  (`dispatcher.cpp:17`, `33`), whatever `worker_manager.cpp:33` starts. The limit may then come
  out as 0 (lines 261 to 263), and a call queued under it waits beside idle workers until
  another call of the function ends.
- A caller whose poll times out after the callee wrote the output region and before it wrote
  the FIFO (`worker_lib.cpp:53`, `58`; `func_worker.cpp:320`) removes the FIFO and leaves the
  region.
- The gateway forgets a call whose answer comes before the call was entered as
  running (`server.cpp:433`), the calls of an engine that crashed, an
  asynchronous call from the queue whose send fails (line 228), and a call of a connection
  that its worker reads from before the connection is entered (lines 549 to 571): the call is
  dropped when it is taken from the queue (line 217) or answered (line 296). The load of an engine
  that came back is counted down by answers of its former life (`node_manager.cpp:64`),
  and one that was scaled in stays in the list of nodes (line 114).
- slib: `queue.go:196` ignores an error of `applyLog` and caches the state it had. Every
  client that starts from it returns an element again that a pop has taken (`Misread`).
- `Close` cancels the read and no send (`io_uring.cpp:264`): with a peer that never reads again
  neither the callback of the send nor that of `Close` comes (`Blocked`).
- An `EgressHub` calls `RemoveSocket` for every send that fails and when a socket connects
  after the hub was closed; the ring refuses the second `Close`, and `StartRecv`, which
  `URING_DCHECK_OK` reports in debug builds (`egress_hub.cpp:98`, `208`). The model has the
  refusal.

## 6. Plan

1. Proofs: `FuncEngine` (`ChildSeesParent`), `IOUring` (`OpsOwnWhatTheyUse`).
2. Two views in `LogIndex` and `IndexTier`: queries that continue in the previous view.
3. The end of a server: `IOWorker` and `ServerBase` that stop while connections and
   scheduled functions are on the way between threads.
4. A module for the SPSC queue, which only a benchmark uses.

## 7. Not modelled

TRIM, which the code does not implement; the contents of entries, inputs, outputs
and JSON values; serialization, HTTP and gRPC framing, pipelined HTTP requests,
sockets and the creation of processes; a submission queue of the ring that is full
(`io_uring_get_sqe` is not checked, and the code relies on its size), an io_uring call that
fails, which stops the process; how servers and IO workers stop; the log cache and the
database backends, beyond that what is written is read; statistics, load estimates,
tracing and logging; the width of counters (localids, client ids), which no
instance reaches; the ZooKeeper client, which is vendored.
