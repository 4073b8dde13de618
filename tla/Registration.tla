---------------------------- MODULE Registration ----------------------------
(***************************************************************************)
(* How an engine obtains a storage shard of a view and becomes active on   *)
(* it.  The controller installs views and hands out shards through znodes  *)
(* (controller.cpp); every node follows the views with a ViewWatcher; the  *)
(* engine blocks its shard at the sequencer, registers at every storage,   *)
(* index and aggregator node, unblocks the shard and is active             *)
(* (engine.cpp, OnRecvRegistrationResponse).  Engines crash: the           *)
(* controller frees their shards, another engine takes them over.          *)
(*                                                                         *)
(* There is one physical log (num_phylogs = 1), so the log space of a view *)
(* is named by the view.  Metalog replication is MetaLogReplication's: a   *)
(* cut is propagated as soon as it is marked.  A message for a view that   *)
(* its receiver has not installed stays in msgs: FutureRequests.           *)
(***************************************************************************)
EXTENDS Integers, Sequences, FiniteSets, FiniteSetsExt

CONSTANTS Engines, NumShards, StorageNodes, Sequencer, None,
          Peers,         \* the index and aggregator nodes
          MaxView,       \* the highest view the controller installs
          MaxAppends,    \* local ids an engine's producer may hand out
          MaxEvents,     \* view changes, crashes and appending engines together
          LateMessages   \* messages of a dead engine outlive its ZooKeeper session

ASSUME RegistrationAssumption ==
    /\ NumShards \in Nat \ {0} /\ MaxView \in Nat /\ MaxAppends \in Nat
    /\ IsFiniteSet(StorageNodes) /\ IsFiniteSet(Peers)
    /\ MaxEvents \in Nat
    /\ None \notin Engines \cup 0 .. NumShards - 1 /\ None \notin {"loop", "missing"}
    /\ LateMessages \in BOOLEAN
    \* NodeType is part of what identifies a node.
    /\ Sequencer \notin StorageNodes \cup Peers \cup Engines
    /\ StorageNodes \cap Peers = {} /\ Engines \cap (StorageNodes \cup Peers) = {}

VARIABLES
    ctrl,        \* the controller: its state, view, shard occupation, holders
    znodes,      \* the sequential znodes under view/: new, freeze, finalize
    seen,        \* how many of them each node's ViewWatcher has delivered
    shardReq,    \* storage_shard_req/<view>_<engine>
    shardResp,   \* storage_shard_resp/<view>_<engine> with its content
    seq,         \* the sequencer: MetaLogPrimary of its view, ViewMutable
    storage,     \* per storage node: LogStorage of its view, ViewMutable
    peer,        \* per index and aggregator node: its role, view, registered engines
    engine,      \* per engine
    msgs         \* messages in flight

vars == <<ctrl, znodes, seen, shardReq, shardResp, seq, storage, peer, engine, msgs>>

Shards == 0 .. NumShards - 1
Views  == 0 .. MaxView
Nodes  == {Sequencer} \cup StorageNodes \cup Peers \cup Engines

Alive(e) == engine[e].up /\ ~engine[e].failed

NewEngineConnection ==
    [sequencer_set |-> FALSE, local_start |-> 0, nodes |-> {}]

NewProducer(shard, position, start) ==
    [shard |-> shard, position |-> position, next |-> start, pending |-> {},
     finalized |-> FALSE]

\* MetaLogPrimary of a new view: every shard is blocked until an engine unblocks it.
NewPrimary(view, occupation) ==
    [view |-> view, frozen |-> FALSE, unblocked |-> {}, dirty |-> {},
     last_cut |-> [s \in Shards |-> 0],
     progress |-> [s \in Shards |-> [n \in StorageNodes |-> 0]],
     position |-> 0, occupation |-> occupation]

NewLogStorage(view, occupation) ==
    [view |-> view, failed |-> None, finalized |-> FALSE, pending |-> {}, position |-> 0,
     progress |-> [s \in Shards |-> 0], occupation |-> occupation]

PutStorageShardOccupation(node, s, e) == [node EXCEPT !.occupation[s] = e]

Serves(n) == storage[n].failed = None

NoOccupation == [s \in Shards |-> None]

NewPeer(role) == [role |-> role, view |-> -1, engines |-> {}]

ControllerInit ==
    [state |-> "created", view |-> -1, online |-> Engines, occupied |-> {},
     holder |-> [e \in Engines |-> None]]

EngineInit ==
    [up |-> TRUE, failed |-> FALSE, view |-> -1, active |-> FALSE, next_view |-> 0,
     conn |-> [v \in Views |-> NewEngineConnection],
     shards |-> [v \in Views |-> None],
     max_position |-> [v \in Views |-> 0],
     producer |-> [v \in Views |-> None]]

Init ==
    /\ ctrl = ControllerInit
    /\ znodes = <<>>
    /\ seen = [n \in Nodes |-> 0]
    /\ shardReq = {} /\ shardResp = {}
    /\ seq = NewPrimary(-1, NoOccupation)
    /\ storage = [n \in StorageNodes |-> NewLogStorage(-1, NoOccupation)]
    /\ peer \in [Peers -> {NewPeer(r) : r \in {"index", "aggregator"}}]
    /\ engine = [e \in Engines |-> EngineInit]
    /\ msgs = {}

-----------------------------------------------------------------------------
(* Messages.                                                               *)

RegisterMsg(type, view, shard, e, start, from, to) ==
    [op |-> "REGISTER", type |-> type, view |-> view, shard |-> shard, engine |-> e,
     start |-> start, position |-> 0, from |-> from, to |-> to]

ReplicateMsg(view, shard, id, e, to) ==
    [op |-> "REPLICATE", view |-> view, shard |-> shard, id |-> id, engine |-> e, to |-> to]

ShardProgMsg(view, progress, from) ==
    [op |-> "SHARD_PROG", view |-> view, progress |-> progress, from |-> from,
     to |-> Sequencer]

MetaLogsMsg(view, position, cuts, to) ==
    [op |-> "METALOGS", view |-> view, position |-> position, cuts |-> cuts, to |-> to]

-----------------------------------------------------------------------------
(* Controller.                                                             *)

Appended(e, v) ==
    /\ engine[e].producer[v] # None
    /\ engine[e].producer[v].next > engine[e].conn[v].local_start

Events ==
    Max({ctrl.view, 0}) + (IF ctrl.state = "reconfiguring" THEN 1 ELSE 0)
    + Cardinality({e \in Engines : ~engine[e].up})
    + Cardinality({ev \in Engines \X Views : Appended(ev[1], ev[2])})

Publish(type, view) == znodes' = Append(znodes, [type |-> type, view |-> view])

InstallNewView(view) ==
    /\ Publish("new", view)
    /\ ctrl' = [ctrl EXCEPT !.state = "normal", !.view = view, !.occupied = {},
                            !.holder = [e \in Engines |-> None]]

\* ReconfigView with enough nodes: a view in normal state is frozen first.
ReconfigView ==
    \/ /\ ctrl.state = "normal"
       /\ ctrl.view < MaxView /\ Events < MaxEvents
       /\ Publish("freeze", ctrl.view)
       /\ ctrl' = [ctrl EXCEPT !.state = "reconfiguring"]
    \/ /\ ctrl.state \in {"created", "frozen"}
       /\ InstallNewView(ctrl.view + 1)

StartCommandHandler ==
    /\ ctrl.state = "created"
    /\ ReconfigView
    /\ UNCHANGED <<seen, shardReq, shardResp, seq, storage, peer, engine, msgs>>

ReconfigCommandHandler ==
    /\ ctrl.state = "normal"
    /\ ReconfigView
    /\ UNCHANGED <<seen, shardReq, shardResp, seq, storage, peer, engine, msgs>>

\* The sequencer's freeze znode seals the view; the callback of view/finalize
\* makes the controller's state frozen and installs the pending configuration.
OnFreezeZNodeCreated ==
    /\ ctrl.state = "reconfiguring"
    /\ seq.view = ctrl.view /\ seq.frozen
    /\ Publish("finalize", ctrl.view)
    /\ ctrl' = [ctrl EXCEPT !.state = "frozen"]
    /\ UNCHANGED <<seen, shardReq, shardResp, seq, storage, peer, engine, msgs>>

OnFinalizePublished ==
    /\ ctrl.state = "frozen"
    /\ ReconfigView
    /\ UNCHANGED <<seen, shardReq, shardResp, seq, storage, peer, engine, msgs>>

\* Seeded fault: an assigned shard is not marked as occupied.
AnyShard == Shards

FreeShards == Shards \ ctrl.occupied

\* The first free shard of the view, or an error when the view is not the
\* current one or no shard is free.
OnStorageShardZNodeCreated(r) ==
    /\ r \in shardReq
    /\ shardReq' = shardReq \ {r}
    /\ \/ /\ r.view = ctrl.view
          /\ FreeShards # {}
          /\ LET shard == Min(FreeShards)
             IN  /\ ctrl' = [ctrl EXCEPT !.occupied = @ \cup {shard},
                                         !.holder[r.engine] = shard]
                 /\ shardResp' = shardResp \cup
                      {[view |-> r.view, engine |-> r.engine, shard |-> shard]}
       \/ /\ r.view # ctrl.view \/ FreeShards = {}
          /\ shardResp' = shardResp \cup
               {[view |-> r.view, engine |-> r.engine, shard |-> None]}
          /\ UNCHANGED ctrl
    /\ UNCHANGED <<znodes, seen, seq, storage, peer, engine, msgs>>

SentBy(e) ==
    {m \in msgs : \/ m.op = "REGISTER" /\ m.from = e
                  \/ m.op = "REPLICATE" /\ m.engine = e}

\* The session of a dead engine ends and its shard is free again.  Unless
\* LateMessages, what the engine had sent is received by then or lost with its
\* connections.
OnNodeOffline(e) ==
    /\ e \in ctrl.online /\ ~Alive(e)
    /\ ctrl' = [ctrl EXCEPT !.online = @ \ {e},
                            !.occupied = @ \ {ctrl.holder[e]},
                            !.holder[e] = None]
    /\ msgs' = IF LateMessages THEN msgs ELSE msgs \ SentBy(e)
    /\ UNCHANGED <<znodes, seen, shardReq, shardResp, seq, storage, peer, engine>>

\* Index and aggregator nodes forget an engine that went offline.
RemoveEngineNode(n, e) ==
    /\ ~Alive(e) /\ e \in peer[n].engines
    /\ peer' = [peer EXCEPT ![n].engines = @ \ {e}]
    /\ UNCHANGED <<ctrl, znodes, seen, shardReq, shardResp, seq, storage, engine, msgs>>

-----------------------------------------------------------------------------
(* Views at the nodes: ViewWatcher delivers view/ znodes in their order.   *)

\* The callbacks a kind of node has something to do in.
Handles(n) ==
    CASE n = Sequencer       -> {"new", "freeze"}
      [] n \in StorageNodes  -> {"new", "finalize"}
      [] n \in Peers         -> {"new"}
      [] OTHER               -> {"new", "freeze", "finalize"}

Unseen(n) == {i \in seen[n] + 1 .. Len(znodes) : znodes[i].type \in Handles(n)}

NextZNode(n, type) ==
    /\ Unseen(n) # {}
    /\ znodes[Min(Unseen(n))].type = type
    /\ seen' = [seen EXCEPT ![n] = Min(Unseen(n))]

NextView(n) == znodes[Min(Unseen(n))].view

SequencerOnViewCreated ==
    /\ NextZNode(Sequencer, "new")
    /\ seq' = NewPrimary(NextView(Sequencer), seq.occupation)
    /\ UNCHANGED <<ctrl, znodes, shardReq, shardResp, storage, peer, engine, msgs>>

SequencerOnViewFrozen ==
    /\ NextZNode(Sequencer, "freeze")
    /\ seq' = [seq EXCEPT !.frozen = TRUE]
    /\ UNCHANGED <<ctrl, znodes, shardReq, shardResp, storage, peer, engine, msgs>>

CutIds(m, s) == IF s \in DOMAIN m.cuts THEN m.cuts[s].from .. m.cuts[s].upto ELSE {}

StoredIds(pending, s) == {x.id : x \in {y \in pending : y.shard = s}}

\* The metalogs of its view that a storage node has not applied; Finalize applies
\* them from the tail of the finalized view.
RestOfMetaLog(n) == {m \in msgs : m.op = "METALOGS" /\ m.to = n /\ m.view = storage[n].view}

HoldsCut(n, metalogs) ==
    \A m \in metalogs : \A s \in Shards : CutIds(m, s) \subseteq StoredIds(storage[n].pending, s)

\* A node whose handler never returns holds view_mu_, and no callback gets past it.
StorageOnViewCreated(n) ==
    /\ Serves(n)
    /\ NextZNode(n, "new")
    /\ storage' = [storage EXCEPT ![n] = NewLogStorage(NextView(n), @.occupation)]
    /\ UNCHANGED <<ctrl, znodes, shardReq, shardResp, seq, peer, engine, msgs>>

StorageOnViewFinalized(n) ==
    /\ Serves(n)
    /\ NextZNode(n, "finalize")
    /\ storage' = [storage EXCEPT ![n].pending = {}, ![n].finalized = TRUE,
                     ![n].failed = IF HoldsCut(n, RestOfMetaLog(n)) THEN None ELSE "missing"]
    /\ UNCHANGED <<ctrl, znodes, shardReq, shardResp, seq, peer, engine, msgs>>

\* Index nodes forget the engines of the previous view.
IndexerOnViewCreated(n) ==
    /\ peer[n].role = "index" /\ NextZNode(n, "new")
    /\ peer' = [peer EXCEPT ![n].view = NextView(n), ![n].engines = {}]
    /\ UNCHANGED <<ctrl, znodes, shardReq, shardResp, seq, storage, engine, msgs>>

\* Aggregators keep them.
AggregatorOnViewCreated(n) ==
    /\ peer[n].role = "aggregator" /\ NextZNode(n, "new")
    /\ peer' = [peer EXCEPT ![n].view = NextView(n)]
    /\ UNCHANGED <<ctrl, znodes, shardReq, shardResp, seq, storage, engine, msgs>>

WaitsForShard(e) ==
    \/ \E r \in shardReq : r.engine = e
    \/ \E r \in shardResp : r.engine = e

\* OnViewCreated up to the shard request; the thread then waits for the answer
\* with view_mu_ held, and every handler of the engine waits for it.  The timer
\* of a second that precedes it is the time until the watcher's next delivery.
EngineOnViewCreated(e) ==
    /\ Alive(e) /\ ~WaitsForShard(e)
    /\ NextZNode(e, "new")
    /\ shardReq' = shardReq \cup {[view |-> NextView(e), engine |-> e]}
    /\ engine' = [engine EXCEPT ![e].conn[NextView(e)] = NewEngineConnection]
    /\ UNCHANGED <<ctrl, znodes, shardResp, seq, storage, peer, msgs>>

\* The rest of OnViewCreated; an error leaves current_view_ as it was.
EngineOnShardResponse(e, r) ==
    /\ Alive(e)
    /\ r \in shardResp /\ r.engine = e
    /\ shardResp' = shardResp \ {r}
    /\ \/ /\ r.shard # None
          /\ engine' = [engine EXCEPT ![e].view = r.view]
          /\ msgs' = msgs \cup
               {RegisterMsg("ENGINE", r.view, r.shard, e, 0, e, Sequencer)}
       \/ /\ r.shard = None
          /\ UNCHANGED <<engine, msgs>>
    /\ UNCHANGED <<ctrl, znodes, seen, shardReq, seq, storage, peer>>

EngineOnViewFrozen(e) ==
    /\ Alive(e) /\ ~WaitsForShard(e)
    /\ NextZNode(e, "freeze")
    /\ engine' = [engine EXCEPT ![e].active =
                    IF engine[e].shards[NextView(e)] # None THEN FALSE ELSE @]
    /\ UNCHANGED <<ctrl, znodes, shardReq, shardResp, seq, storage, peer, msgs>>

Discarded(p) == IF p = None THEN None ELSE [p EXCEPT !.pending = {}, !.finalized = TRUE]

EngineOnViewFinalized(e) ==
    /\ Alive(e) /\ ~WaitsForShard(e)
    /\ NextZNode(e, "finalize")
    /\ engine' = [engine EXCEPT ![e].producer[NextView(e)] = Discarded(@)]
    /\ UNCHANGED <<ctrl, znodes, shardReq, shardResp, seq, storage, peer, msgs>>

-----------------------------------------------------------------------------
(* Sequencer.                                                              *)

Received(m) == msgs \ {m}

Answer(m, type, view, start) == RegisterMsg(type, view, m.shard, m.engine, start, m.to, m.from)

\* Seeded fault: the blocked shard stays dirty and enters the next cut.
BlockAndStayDirty(s) == seq' = [seq EXCEPT !.unblocked = @ \ {s}]

\* BlockShard forgets uncut progress; a shard that is blocked stays blocked.
BlockShard(s) ==
    seq' = IF s \in seq.unblocked
           THEN [seq EXCEPT !.unblocked = @ \ {s}, !.dirty = @ \ {s}]
           ELSE seq

\* UnblockShard and the occupation that PropagateMetaLog reads.
UnblockShard(s, e) ==
    seq' = PutStorageShardOccupation([seq EXCEPT !.unblocked = @ \cup {s}], s, e)

\* OnRecvRegistration.  The second between a view and the engines' requests is
\* what makes the sequencer have a view (it dereferences current_view_).
SequencerOnRecvRegistration(m) ==
    /\ m \in msgs /\ m.op = "REGISTER" /\ m.to = Sequencer
    /\ seq.view >= 0
    /\ \/ /\ m.view # seq.view
          /\ msgs' = Received(m) \cup {Answer(m, "SEQUENCER_FAILED", seq.view, 0)}
          /\ UNCHANGED seq
       \/ /\ m.view = seq.view /\ seq.frozen
          /\ msgs' = Received(m)
          /\ UNCHANGED seq
       \/ /\ m.view = seq.view /\ ~seq.frozen /\ m.type = "ENGINE"
          /\ BlockShard(m.shard)
          /\ msgs' = Received(m) \cup
                       {Answer(m, "SEQUENCER_OK", m.view, seq.last_cut[m.shard])}
       \/ /\ m.view = seq.view /\ ~seq.frozen /\ m.type = "UNBLOCK"
          /\ m.shard \notin seq.unblocked
          /\ UnblockShard(m.shard, m.engine)
          /\ msgs' = Received(m) \cup
                       {[Answer(m, "UNBLOCK", m.view, seq.last_cut[m.shard])
                            EXCEPT !.position = seq.position]}
       \/ /\ m.view = seq.view /\ ~seq.frozen /\ m.type = "UNBLOCK"
          /\ m.shard \in seq.unblocked
          /\ msgs' = Received(m) \cup {Answer(m, "SEQUENCER_FAILED", m.view, 0)}
          /\ UNCHANGED seq
    /\ UNCHANGED <<ctrl, znodes, seen, shardReq, shardResp, storage, peer, engine>>

ReplicatedPosition(progress, s) == Min({progress[s][n] : n \in StorageNodes})

\* UpdateStorageProgress: blocked shards are skipped, positions only grow.
SequencerOnRecvShardProgress(m) ==
    /\ m \in msgs /\ m.op = "SHARD_PROG"
    /\ m.view <= seq.view
    /\ msgs' = Received(m)
    /\ \/ /\ m.view = seq.view /\ ~seq.frozen
          /\ LET grown == {s \in seq.unblocked : m.progress[s] > seq.progress[s][m.from]}
                 progress == [s \in Shards |->
                                IF s \in grown
                                THEN [seq.progress[s] EXCEPT ![m.from] = m.progress[s]]
                                ELSE seq.progress[s]]
             IN  seq' = [seq EXCEPT !.progress = progress,
                           !.dirty = @ \cup {s \in grown :
                               ReplicatedPosition(progress, s) > seq.last_cut[s]}]
       \/ /\ m.view < seq.view \/ seq.frozen
          /\ UNCHANGED seq
    /\ UNCHANGED <<ctrl, znodes, seen, shardReq, shardResp, storage, peer, engine>>

Occupants == {seq.occupation[s] : s \in Shards} \ {None}

\* MarkNextCut, and the cut propagated to the storage nodes of the view and to
\* the engines that occupy a shard of this sequencer.
MarkNextCut ==
    /\ ~seq.frozen /\ seq.dirty # {}
    /\ LET cuts == [s \in seq.dirty |->
                      [from |-> seq.last_cut[s],
                       upto |-> ReplicatedPosition(seq.progress, s) - 1]]
       IN  /\ seq' = [seq EXCEPT !.dirty = {}, !.position = @ + 1,
                        !.last_cut = [s \in Shards |->
                           IF s \in seq.dirty THEN cuts[s].upto + 1 ELSE @[s]]]
           /\ msgs' = msgs \cup {MetaLogsMsg(seq.view, seq.position, cuts, n) :
                                   n \in StorageNodes \cup {e \in Occupants : Alive(e)}}
    /\ UNCHANGED <<ctrl, znodes, seen, shardReq, shardResp, storage, peer, engine>>

-----------------------------------------------------------------------------
(* Storage, index and aggregator nodes.                                    *)

\* Seeded fault: the entries are discarded and the shard's progress is kept.
RemoveAndKeepProgress(logs, s) == [logs EXCEPT !.pending = {x \in @ : x.shard # s}]

\* RemovePendingEntries erases with an iterator it then uses and never advances:
\* with an entry pending the loop does not end and the node's lock stays held.
RemovePendingEntries(logs, s) ==
    IF logs.pending = {} THEN logs ELSE [logs EXCEPT !.failed = "loop"]

StorageOnRecvRegistration(n, m) ==
    /\ m \in msgs /\ m.op = "REGISTER" /\ m.to = n
    /\ Serves(n) /\ storage[n].view >= 0
    /\ \/ /\ m.view # storage[n].view
          /\ msgs' = Received(m) \cup {Answer(m, "STORAGE_FAILED", storage[n].view, m.start)}
          /\ UNCHANGED storage
       \/ /\ m.view = storage[n].view
          /\ LET logs == RemovePendingEntries(storage[n], m.shard) IN
             /\ storage' = [storage EXCEPT ![n] = PutStorageShardOccupation(logs, m.shard, m.engine)]
             /\ msgs' = Received(m) \cup
                  (IF logs.failed # None THEN {} ELSE {Answer(m, "STORAGE_OK", m.view, m.start)})
    /\ UNCHANGED <<ctrl, znodes, seen, shardReq, shardResp, seq, peer, engine>>

IndexerOnRecvRegistration(n, m) ==
    /\ m \in msgs /\ m.op = "REGISTER" /\ m.to = n
    /\ peer[n].role = "index" /\ peer[n].view >= 0
    /\ \/ /\ m.view # peer[n].view
          /\ msgs' = Received(m) \cup {Answer(m, "INDEX_FAILED", peer[n].view, m.start)}
          /\ UNCHANGED peer
       \/ /\ m.view = peer[n].view
          /\ peer' = [peer EXCEPT ![n].engines = @ \cup {m.engine}]
          /\ msgs' = Received(m) \cup {Answer(m, "INDEX_OK", m.view, m.start)}
    /\ UNCHANGED <<ctrl, znodes, seen, shardReq, shardResp, seq, storage, engine>>

AggregatorOnRecvRegistration(n, m) ==
    /\ m \in msgs /\ m.op = "REGISTER" /\ m.to = n
    /\ peer[n].role = "aggregator" /\ peer[n].view >= 0
    /\ \/ /\ m.view # peer[n].view
          /\ msgs' = Received(m) \cup {Answer(m, "AGGREGATOR_FAILED", peer[n].view, m.start)}
          /\ UNCHANGED peer
       \/ /\ m.view = peer[n].view
          /\ peer' = [peer EXCEPT ![n].engines = @ \cup {m.engine}]
          /\ msgs' = Received(m) \cup {Answer(m, "AGGREGATOR_OK", m.view, m.start)}
    /\ UNCHANGED <<ctrl, znodes, seen, shardReq, shardResp, seq, storage, engine>>

\* AdvanceShardProgress: the first id from the old progress on that is not stored.
AdvanceShardProgress(pending, progress, s) ==
    Min({i \in progress .. progress + Cardinality(pending) : i \notin StoredIds(pending, s)})

\* Store replaces an entry of the same local id; progress is sent when it grows,
\* until the view is finalized.  A request of a finalized view is stored all the
\* same: nothing sets the state that finalized() of a log space asks for.
HandleReplicateRequest(n, m) ==
    /\ m \in msgs /\ m.op = "REPLICATE" /\ m.to = n
    /\ Serves(n)
    /\ m.view <= storage[n].view
    /\ \/ /\ m.view = storage[n].view
          /\ LET kept     == {x \in storage[n].pending : x.shard # m.shard \/ x.id # m.id}
                 pending  == kept \cup {[shard |-> m.shard, id |-> m.id, engine |-> m.engine]}
                 old      == storage[n].progress
                 progress == [old EXCEPT ![m.shard] = AdvanceShardProgress(pending, @, m.shard)]
             IN  /\ storage' = [storage EXCEPT ![n].pending = pending,
                                               ![n].progress = progress]
                 /\ msgs' = Received(m) \cup
                      (IF progress = old \/ storage[n].finalized
                       THEN {} ELSE {ShardProgMsg(m.view, progress, n)})
       \/ /\ m.view < storage[n].view
          /\ msgs' = Received(m)
          /\ UNCHANGED storage
    /\ UNCHANGED <<ctrl, znodes, seen, shardReq, shardResp, seq, peer, engine>>

\* An entry of the cut that is not pending is fatal.  What arrives after the view
\* is finalized was applied by Finalize and lies below metalog_position_.
StorageOnRecvNewMetaLogs(n, m) ==
    /\ m \in msgs /\ m.op = "METALOGS" /\ m.to = n
    /\ Serves(n)
    /\ msgs' = Received(m)
    /\ \/ /\ m.view = storage[n].view /\ ~storage[n].finalized
          /\ m.position = storage[n].position
          /\ storage' = [storage EXCEPT ![n].position = @ + 1,
                ![n].pending = {x \in @ : x.id \notin CutIds(m, x.shard)},
                ![n].failed = IF HoldsCut(n, {m}) THEN None ELSE "missing"]
       \/ /\ m.view < storage[n].view \/ (m.view = storage[n].view /\ storage[n].finalized)
          /\ UNCHANGED storage
    /\ UNCHANGED <<ctrl, znodes, seen, shardReq, shardResp, seq, peer, engine>>

-----------------------------------------------------------------------------
(* Engine.                                                                 *)

\* Seeded fault: the index and aggregator nodes are not waited for.
ReadyWithStorage(c) == c.sequencer_set /\ StorageNodes \subseteq c.nodes

ConnectionReady(c) == c.sequencer_set /\ c.nodes = StorageNodes \cup Peers

WithNode(c, n) == [c EXCEPT !.nodes = @ \cup {n}]

EngineReceives(e, m, op) ==
    /\ m \in msgs /\ m.op = op /\ m.to = e
    /\ Alive(e) /\ ~WaitsForShard(e)

Failures == {"SEQUENCER_FAILED", "STORAGE_FAILED", "INDEX_FAILED", "AGGREGATOR_FAILED"}

\* Failures and answers of another view are logged and forgotten.
OnRegistrationFailed(e, m) ==
    /\ EngineReceives(e, m, "REGISTER")
    /\ m.type \in Failures \/ m.view # engine[e].view
    /\ msgs' = Received(m)
    /\ UNCHANGED <<ctrl, znodes, seen, shardReq, shardResp, seq, storage, peer, engine>>

OnSequencerRegistered(e, m) ==
    /\ EngineReceives(e, m, "REGISTER")
    /\ m.type = "SEQUENCER_OK" /\ m.view = engine[e].view
    /\ engine' = [engine EXCEPT ![e].conn[m.view].sequencer_set = TRUE,
                                ![e].conn[m.view].local_start = m.start]
    /\ msgs' = Received(m) \cup
         {RegisterMsg("ENGINE", m.view, m.shard, e, m.start, e, n) : n \in StorageNodes \cup Peers}
    /\ UNCHANGED <<ctrl, znodes, seen, shardReq, shardResp, seq, storage, peer>>

\* The last of the storage, index and aggregator nodes completes the connection.
OnNodeRegistered(e, m) ==
    /\ EngineReceives(e, m, "REGISTER")
    /\ m.type \in {"STORAGE_OK", "INDEX_OK", "AGGREGATOR_OK"} /\ m.view = engine[e].view
    /\ LET c == WithNode(engine[e].conn[m.view], m.from)
       IN  /\ engine' = [engine EXCEPT ![e].conn[m.view] = c]
           /\ \/ /\ ConnectionReady(c)
                 /\ msgs' = Received(m) \cup
                      {RegisterMsg("UNBLOCK", m.view, m.shard, e, c.local_start, e, Sequencer)}
              \/ /\ ~ConnectionReady(c)
                 /\ msgs' = Received(m)
    /\ UNCHANGED <<ctrl, znodes, seen, shardReq, shardResp, seq, storage, peer>>

\* REGISTER_UNBLOCK: the log spaces of the view are installed and the view is
\* active.  OnNewView of FutureRequests is fatal when this engine did not become
\* active in the view before.
OnShardUnblocked(e, m) ==
    /\ EngineReceives(e, m, "REGISTER")
    /\ m.type = "UNBLOCK" /\ m.view = engine[e].view
    /\ msgs' = Received(m)
    /\ engine' = [engine EXCEPT
         ![e].shards[m.view] = IF @ = None THEN m.shard ELSE @,
         ![e].producer[m.view] =
            NewProducer(m.shard, Max({m.position, engine[e].max_position[m.view]}), m.start),
         ![e].failed = engine[e].next_view # m.view,
         ![e].next_view = @ + 1,
         ![e].active = TRUE]
    /\ UNCHANGED <<ctrl, znodes, seen, shardReq, shardResp, seq, storage, peer>>

\* METALOGS of a log space the engine has no shard of are dropped and only their
\* position is kept; an entry of the cut that is not pending is fatal.
EngineOnRecvNewMetaLogs(e, m) ==
    /\ EngineReceives(e, m, "METALOGS")
    /\ LET me == engine[e]  p == me.producer[m.view]  IN
       \/ /\ me.shards[m.view] = None
          /\ engine' = [engine EXCEPT ![e].max_position[m.view] = Max({@, m.position})]
       \/ /\ me.shards[m.view] # None
          /\ m.view < me.view \/ m.position < p.position \/ p.finalized
          /\ UNCHANGED engine
       \/ /\ me.shards[m.view] # None
          /\ m.view = me.view /\ m.position = p.position /\ ~p.finalized
          /\ engine' = [engine EXCEPT
               ![e].producer[m.view].position = @ + 1,
               ![e].producer[m.view].pending = @ \ CutIds(m, p.shard),
               ![e].failed = ~(CutIds(m, p.shard) \subseteq p.pending)]
    /\ msgs' = Received(m)
    /\ UNCHANGED <<ctrl, znodes, seen, shardReq, shardResp, seq, storage, peer>>

\* An append at an active engine.  Without a shard of the current view the
\* operation is neither entered nor answered, and nothing changes.
HandleLocalAppend(e) ==
    LET v == engine[e].view  p == engine[e].producer[v]  IN
    /\ Alive(e) /\ engine[e].active /\ ~WaitsForShard(e)
    /\ engine[e].shards[v] # None
    /\ p.next < MaxAppends /\ Events < MaxEvents
    /\ engine' = [engine EXCEPT ![e].producer[v].next = @ + 1,
                                ![e].producer[v].pending = @ \cup {p.next}]
    /\ msgs' = msgs \cup {ReplicateMsg(v, p.shard, p.next, e, n) : n \in StorageNodes}
    /\ UNCHANGED <<ctrl, znodes, seen, shardReq, shardResp, seq, storage, peer>>

\* An engine process ends; one engine stays up.  Its messages stay in flight.
Crash(e) ==
    /\ Alive(e) /\ Events < MaxEvents
    /\ \E f \in Engines \ {e} : Alive(f)
    /\ engine' = [engine EXCEPT ![e].up = FALSE]
    /\ shardReq' = {r \in shardReq : r.engine # e}
    /\ msgs' = {m \in msgs : m.to # e}
    /\ UNCHANGED <<ctrl, znodes, seen, shardResp, seq, storage, peer>>

-----------------------------------------------------------------------------
Next ==
    \/ StartCommandHandler \/ ReconfigCommandHandler
    \/ OnFreezeZNodeCreated \/ OnFinalizePublished
    \/ SequencerOnViewCreated \/ SequencerOnViewFrozen \/ MarkNextCut
    \/ \E n \in StorageNodes : StorageOnViewCreated(n) \/ StorageOnViewFinalized(n)
    \/ \E n \in Peers : IndexerOnViewCreated(n) \/ AggregatorOnViewCreated(n)
    \/ \E n \in Peers, e \in Engines : RemoveEngineNode(n, e)
    \/ \E r \in shardReq : OnStorageShardZNodeCreated(r)
    \/ \E e \in Engines :
          \/ OnNodeOffline(e) \/ Crash(e)
          \/ EngineOnViewCreated(e)
          \/ EngineOnViewFrozen(e) \/ EngineOnViewFinalized(e)
          \/ HandleLocalAppend(e)
          \/ \E r \in shardResp : EngineOnShardResponse(e, r)
    \/ \E m \in msgs :
          \/ SequencerOnRecvRegistration(m) \/ SequencerOnRecvShardProgress(m)
          \/ \E n \in StorageNodes :
                \/ StorageOnRecvRegistration(n, m) \/ HandleReplicateRequest(n, m)
                \/ StorageOnRecvNewMetaLogs(n, m)
          \/ \E n \in Peers :
                IndexerOnRecvRegistration(n, m) \/ AggregatorOnRecvRegistration(n, m)
          \/ \E e \in Engines :
                \/ OnRegistrationFailed(e, m) \/ OnSequencerRegistered(e, m)
                \/ OnNodeRegistered(e, m) \/ OnShardUnblocked(e, m)
                \/ EngineOnRecvNewMetaLogs(e, m)

Spec == Init /\ [][Next]_vars

-----------------------------------------------------------------------------
(* Properties.                                                             *)

ActiveOn(e, v, s) == Alive(e) /\ engine[e].view = v /\ engine[e].shards[v] = s

\* No two live engines append to the same storage shard of a view: shards pass
\* from the controller to an engine and, after a crash, to another
\* (Controller::OnStorageShardZNodeCreated, OnNodeOffline, Engine registration).
ShardHeldOnce ==
    \A e, f \in Engines : \A v \in Views : \A s \in Shards :
        ActiveOn(e, v, s) /\ ActiveOn(f, v, s) => e = f

\* While an engine is active in the view that all its peers are in, each storage
\* node sends it index data, the sequencer sends it metalogs and the index and
\* aggregator nodes answer it (ViewMutable occupation, REGISTER_* handlers).  Its
\* local ids start where the cuts of the shard's earlier holders end: the start its
\* REGISTER_UNBLOCK carries is the one it was given when the shard was blocked
\* (DCHECK_EQ of local_start_id in OnRecvRegistrationResponse).
ActiveEngineIsKnown ==
    /\ \A e \in Engines : \A s \in Shards :
        LET v == engine[e].view IN
        v >= 0 /\ ActiveOn(e, v, s) =>
            /\ seq.view = v => seq.occupation[s] = e
            /\ \A n \in StorageNodes : storage[n].view = v => storage[n].occupation[s] = e
            /\ \A n \in Peers : peer[n].view = v => e \in peer[n].engines
    /\ \A m \in msgs :
        (/\ m.op = "REGISTER" /\ m.type = "UNBLOCK" /\ m.to \in Engines
         /\ Alive(m.to) /\ engine[m.to].view = m.view)
            => m.start = engine[m.to].conn[m.view].local_start

\* What a cut orders is there: no storage node is asked for an entry it does not
\* hold ("MetalogUpdate: Cannot find pending log entry"), across crashes of the
\* shard's holder and its takeover by another engine (LogStorage::OnNewLogs).
CutIsStored == \A n \in StorageNodes : storage[n].failed # "missing"
=============================================================================
