----------------------------- MODULE IndexTier -----------------------------
(***************************************************************************)
(* The index tier: storage nodes send the index data of the cuts they      *)
(* apply to the index nodes (storage_base.cpp, log_space.cpp); an index    *)
(* node keeps every NumShards-th cut (index_shard.cpp) and answers reads   *)
(* for its part; the answers of one index node per shard are merged by one *)
(* of them or by an aggregator (indexer.cpp, aggregator.cpp,               *)
(* aggregating.cpp), and a storage node sends the entry to the engine.     *)
(*                                                                         *)
(* One view and one physical log.  The log is given: it is what the        *)
(* metalog has ordered; storage nodes learn it cut by cut.  The payload of *)
(* index data is determined by its sender and the position of the cut, and *)
(* is computed from them.  Messages may be received in any order.          *)
(***************************************************************************)
EXTENDS Integers, Sequences, FiniteSets, FiniteSetsExt

CONSTANTS
    NumShards,        \* num_index_shards
    IndexReplicas,    \* index_replicas
    IndexNodes,       \* index nodes of the view, a sequence of node ids
    Aggregators,      \* aggregator nodes of the view
    StorageNodes,     \* storage nodes of the view, a sequence
    NumStorageShards, Replicas,
    Logs,             \* logs to consider: sequences of [pos, shard, tag]
    QueryTags,        \* tags that are read; EmptyTag reads every entry
    QuerySeqnums,     \* seqnums that are read
    Directions,       \* the kinds of reads
    MaxReads,         \* reads of the function call
    OwnEntries,       \* the seqnums of entries the function call appends itself
    MaxFailures,      \* reads whose requests cannot all be sent
    None

EmptyTag == 0
StorageShards == 0 .. NumStorageShards - 1
ReadIds == 1 .. MaxReads

Elements(seq) == {seq[i] : i \in DOMAIN seq}

IndexNodeIds == Elements(IndexNodes)

\* The shard whose data an index node keeps.
ShardOf(n) == n % NumShards

\* index_tier_plan: the nodes a reader takes for shard s.  They go by their place
\* in the view, which the controller shuffles, and need not keep data of shard s.
IndexShardNodes(s) ==
    {IndexNodes[i] : i \in {j \in 1 .. NumShards * IndexReplicas : (j - 1) % NumShards = s}}

\* storage_plan: the replicas of storage shard s.
StoragePlan(s) ==
    {StorageNodes[((s * Replicas + j) % Len(StorageNodes)) + 1] : j \in 0 .. Replicas - 1}

LocalStorageShardIds(n) == {s \in StorageShards : n \in StoragePlan(s)}

\* A view has enough different index nodes for its plan, in any order.
ASSUME PlanAssumption ==
    /\ NumShards \in Nat \ {0} /\ IndexReplicas \in Nat \ {0}
    /\ Len(IndexNodes) >= NumShards * IndexReplicas
    /\ \A j, k \in DOMAIN IndexNodes : IndexNodes[j] = IndexNodes[k] => j = k

\* Node ids and seqnums are numbers, logs have their cuts in order, and the call
\* appends entries of the log.
ASSUME IndexTierAssumption ==
    /\ IndexNodes \in Seq(Nat)
    /\ MaxReads \in Nat /\ QuerySeqnums \subseteq Nat /\ Directions \subseteq {"next", "prev", "nextB"}
    /\ None \notin {"READ_OK", "EMPTY", "DATA_LOST"}
    /\ \A l \in Logs :
         /\ l \in Seq([pos : Nat \ {0}, shard : StorageShards, tag : Nat]) /\ l # << >>
         /\ \A j, k \in 1 .. Len(l) : j <= k => l[j].pos <= l[k].pos
         /\ OwnEntries \subseteq 0 .. Len(l) - 1

VARIABLES
    log,       \* the ordered log, with each entry's cut, storage shard and tag
    merger,    \* UseMasterSlaveMerging when the view has no aggregators, or not
    applied,   \* per storage node: its metalog position
    index,     \* per index node: its IndexShard
    polled,    \* query results polled from an index and not yet processed
    reads,     \* the reads of the function call at the engine
    session,   \* the call's metalog progress, and the entries it has seen
    ongoing,   \* ongoing_index_reads_ of each merging node
    storageReads, \* READ_AT requests waiting at a storage node
    msgs

vars == <<log, merger, applied, index, polled, reads, session, ongoing, storageReads, msgs>>

Mergers == IndexNodeIds \cup Aggregators

-----------------------------------------------------------------------------
(* The log.  Entry number k of the sequence has seqnum k - 1.              *)

Seqnums      == 0 .. Len(log) - 1
Entry(q)     == log[q + 1]
LastPosition == Entry(Len(log) - 1).pos
Cut(p)       == {q \in Seqnums : Entry(q).pos = p}
EndSeqnum(p) == Cardinality({q \in Seqnums : Entry(q).pos <= p})
Matches(q, tag) == tag = EmptyTag \/ Entry(q).tag = tag

\* kInvalidLogSeqNum: larger than every seqnum.
Invalid == Len(log)

-----------------------------------------------------------------------------
(* Storage nodes.                                                          *)

\* The index data of cut p at storage node n: what it has of the cut.
Package(n, p) ==
    [pos     |-> p,
     entries |-> {q \in Cut(p) : Entry(q).shard \in LocalStorageShardIds(n)},
     mine    |-> {Entry(q).shard : q \in Cut(p)} \cap LocalStorageShardIds(n),
     num     |-> Cardinality({Entry(q).shard : q \in Cut(p)}),
     end     |-> EndSeqnum(p)]

\* A cut without an entry of this node adds no package.
PackagePositions(n, from, to) == {p \in from + 1 .. to : Package(n, p).entries # {}}

IndexDataMsg(n, to, positions) ==
    [op |-> "INDEX_DATA", from |-> n, to |-> to, positions |-> positions]

OwnsPosition(i, p) == (p - 1) % NumShards = ShardOf(i)

\* The packages go, all together, to each index node that owns one of them.
SendIndexData(n, positions) ==
    {IndexDataMsg(n, i, positions) :
        i \in {j \in IndexNodeIds : \E p \in positions : OwnsPosition(j, p)}}

Response(result, id, seqnum, progress) ==
    [op |-> "RESPONSE", result |-> result, id |-> id, seqnum |-> seqnum, progress |-> progress]

ReadOkResponse(r) == Response("READ_OK", r.id, r.seqnum, r.progress)

\* Metalogs reach a storage node in batches; the reads that waited for the new
\* entries are answered.
OnRecvNewMetaLogs(n, position) ==
    /\ position \in applied[n] + 1 .. LastPosition
    /\ applied' = [applied EXCEPT ![n] = position]
    /\ LET ready == {r \in storageReads : r.to = n /\ Entry(r.seqnum).pos <= position}
       IN  /\ storageReads' = storageReads \ ready
           /\ msgs' = msgs \cup SendIndexData(n, PackagePositions(n, applied[n], position))
                           \cup {ReadOkResponse(r) : r \in ready}
    /\ UNCHANGED <<log, merger, index, polled, reads, session, ongoing>>

\* READ_AT of an entry that this replica has not ordered yet waits for it.
HandleReadAtRequest(m) ==
    /\ m.op = "READ_AT"
    /\ \/ /\ Entry(m.seqnum).pos <= applied[m.to]
          /\ msgs' = (msgs \ {m}) \cup {ReadOkResponse(m)}
          /\ UNCHANGED storageReads
       \/ /\ Entry(m.seqnum).pos > applied[m.to]
          /\ msgs' = msgs \ {m}
          /\ storageReads' = storageReads \cup {m}
    /\ UNCHANGED <<log, merger, applied, index, polled, reads, session, ongoing>>

-----------------------------------------------------------------------------
(* IndexShard.                                                             *)

\* Seeded fault: every index shard starts at the first position.
IndexShardFromZero(s) ==
    [indexed |-> 0, updates |-> {}, expected |-> {}, received |-> {}, entries |-> {},
     blocking |-> {}, pending |-> {}, results |-> {}]

NewIndexShard(s) ==
    [indexed  |-> s,           \* indexed_metalog_position_
     updates  |-> {},          \* storage_shards_index_updates_: <<position, shard>>
     expected |-> {},          \* the positions with data, their size and end: <<p, num, end>>
     received |-> {}, entries |-> {}, blocking |-> {}, pending |-> {},
     results  |-> {}]

ShardsReceived(ix, p) == {u[2] : u \in {v \in ix.updates : v[1] = p}}

\* Whether a package brings a shard that had not contributed yet.
IsNewIndexData(ix, d) ==
    /\ d.pos > ix.indexed
    /\ \/ ShardsReceived(ix, d.pos) = {}
       \/ ~(d.mine \subseteq ShardsReceived(ix, d.pos))

ProvideIndexData(ix, d) ==
    [ix EXCEPT !.received = @ \cup d.entries,
               !.updates  = @ \cup {<<d.pos, s>> : s \in d.mine},
               !.expected = @ \cup {<<d.pos, d.num, d.end>>}]

\* The position of the log up to which all shards together are known when this
\* one has indexed what it has.
IndexMetalogProgress(ix) == Max({0, ix.indexed - (NumShards - 1)})

FindNext(entries, tag, seqnum) ==
    LET found == {q \in entries : Matches(q, tag) /\ q >= seqnum}
    IN  IF found = {} THEN Invalid ELSE Min(found)

FindPrev(entries, tag, seqnum) ==
    LET found == {q \in entries : Matches(q, tag) /\ q <= seqnum}
    IN  IF found = {} THEN Invalid ELSE Max(found)

Find(ix, query) ==
    IF query.dir = "prev" THEN FindPrev(ix.entries, query.tag, query.seqnum)
                          ELSE FindNext(ix.entries, query.tag, query.seqnum)

\* BuildFoundResult, BuildEmptyResult: Invalid stands for an empty result.
QueryResult(ix, query, found) ==
    [query |-> query, found |-> found, progress |-> IndexMetalogProgress(ix)]

\* A blocking read without a match stays with the index.
ProcessQuery(ix, query) ==
    LET found == Find(ix, query)
    IN  IF query.dir = "nextB" /\ found = Invalid
        THEN [ix EXCEPT !.blocking = @ \cup {query}]
        ELSE [ix EXCEPT !.results = @ \cup {QueryResult(ix, query, found)}]

MakeQuery(ix, query) ==
    IF query.progress <= ix.indexed
    THEN ProcessQuery(ix, query)
    ELSE [ix EXCEPT !.pending = @ \cup {query}]

\* Blocking reads are tried again; one that finds nothing ends when it expired.
ProcessBlockingReads(ix, expired) ==
    LET found   == {b \in ix.blocking : Find(ix, b) # Invalid}
        emptied == {b \in ix.blocking \ found : b.id \in expired}
    IN  [ix EXCEPT !.blocking = @ \ (found \cup emptied),
                   !.results  = @ \cup {QueryResult(ix, b, Find(ix, b)) : b \in found}
                                  \cup {QueryResult(ix, b, Invalid) : b \in emptied}]

\* The queries whose position is reached are processed, as ProcessQuery does.
ProcessPendingQueries(ix) ==
    LET ready == {q \in ix.pending : q.progress <= ix.indexed}
        stay  == {q \in ready : q.dir = "nextB" /\ Find(ix, q) = Invalid}
    IN  [ix EXCEPT !.pending  = @ \ ready,
                   !.blocking = @ \cup stay,
                   !.results  = @ \cup {QueryResult(ix, q, Find(ix, q)) : q \in ready \ stay}]

\* Seeded fault: the first data of a cut completes it.
CompleteWithAnyData(ix) == \E x \in ix.expected : x[1] = ix.indexed + 1

\* The next position of this shard is complete when all productive storage
\* shards of the cut have contributed.
NextPositionComplete(ix) ==
    \E x \in ix.expected :
        x[1] = ix.indexed + 1 /\ Cardinality(ShardsReceived(ix, x[1])) = x[2]

TryCompleteIndexUpdates(ix) ==
    LET x == CHOOSE y \in ix.expected : y[1] = ix.indexed + 1
        complete == {q \in ix.received : q < x[3]}
    IN  [ix EXCEPT !.indexed  = @ + NumShards,
                   !.expected = @ \ {x},
                   !.updates  = {u \in @ : u[1] # x[1]},
                   !.entries  = @ \cup complete,
                   !.received = @ \ complete]

\* One position is completed and the reads that it ends are answered.
CompletePosition(ix, expired) ==
    IF ~NextPositionComplete(ix) THEN ix
    ELSE ProcessPendingQueries(ProcessBlockingReads(TryCompleteIndexUpdates(ix), expired))

\* One package: it is added, then positions are completed as long as possible.
AdvanceIndexProgress(ix, d, expired) ==
    LET rounds[k \in 0 .. LastPosition] ==
            IF k = 0 THEN IF IsNewIndexData(ix, d) THEN ProvideIndexData(ix, d) ELSE ix
            ELSE CompletePosition(rounds[k - 1], expired)
    IN  rounds[LastPosition]

-----------------------------------------------------------------------------
(* Index nodes and aggregators.                                            *)

\* PollQueryResults: the results leave the index with its lock; a thread
\* processes them afterwards.
PollQueryResults(i, ix) ==
    /\ index'  = [index EXCEPT ![i] = [ix EXCEPT !.results = {}]]
    /\ polled' = polled \cup {[node |-> i, result |-> r] : r \in ix.results}

\* The packages of a message that are for index node i, one after the other.
ApplyRelevantPackages(i, m, expired) ==
    LET upTo[p \in 0 .. LastPosition] ==
            IF p = 0 THEN index[i]
            ELSE IF p \in m.positions /\ OwnsPosition(i, p)
                 THEN AdvanceIndexProgress(upTo[p - 1], Package(m.from, p), expired)
            ELSE upTo[p - 1]
    IN  upTo[LastPosition]

IndexerOnRecvNewIndexData(m) ==
    /\ m.op = "INDEX_DATA"
    /\ \E expired \in SUBSET {b.id : b \in index[m.to].blocking} :
         PollQueryResults(m.to, ApplyRelevantPackages(m.to, m, expired))
    /\ msgs' = msgs \ {m}
    /\ UNCHANGED <<log, merger, applied, reads, session, ongoing, storageReads>>

HandleReadRequest(m) ==
    /\ m.op = "READ"
    /\ PollQueryResults(m.to, MakeQuery(index[m.to], m.query))
    /\ msgs' = msgs \ {m}
    /\ UNCHANGED <<log, merger, applied, reads, session, ongoing, storageReads>>

IsFound(r)    == r.found # Invalid
IsPointHit(r) == IsFound(r) /\ r.found = r.query.seqnum

SendStorageReadRequest(r, n) ==
    [op |-> "READ_AT", to |-> n, id |-> r.query.id, seqnum |-> r.found, progress |-> r.progress]

\* The read of a found entry goes to one of its replicas: one set of messages
\* for every choice of PickStorageNode, and one when all tries to send failed.
ForwardReadRequest(r) ==
    {{SendStorageReadRequest(r, n)} : n \in StoragePlan(Entry(r.found).shard)}
    \cup {{Response("DATA_LOST", r.query.id, Invalid, 0)}}

\* A point hit cannot be beaten: it is forwarded before the results are merged.
PointHitMsgs(r) == IF IsPointHit(r) THEN ForwardReadRequest(r) ELSE {{}}

SendMasterIndexResult(i, r) ==
    [op |-> "INDEX_RESULT", from |-> i, to |-> r.query.master, result |-> r]

SendIndexReadFailureResponse(r) == Response("EMPTY", r.query.id, Invalid, 0)

NoReadOp == [nodes |-> {}, result |-> None]

\* Of two results the found one, and of two found ones the closer.
Closer(a, b) ==
    IF IsFound(a) /\ ~IsFound(b) THEN a
    ELSE IF ~IsFound(a) /\ IsFound(b) THEN b
    ELSE IF a.query.dir = "prev" THEN (IF a.found < b.found THEN b ELSE a)
    ELSE IF b.found < a.found THEN b ELSE a

\* IndexReadOp with the result r of index node i added.
Merged(readOp, i, r) ==
    [nodes  |-> readOp.nodes \cup {i},
     result |-> IF readOp.nodes = {} THEN r ELSE Closer(readOp.result, r)]

\* Seeded fault: the first result is taken for the merged one.
CompleteWithFirst(readOp) == Cardinality(readOp.nodes) = 1

Complete(readOp) == Cardinality(readOp.nodes) = NumShards

\* EngineIndexReadOp::Aggregate: the entry is erased when it is complete.
Aggregate(node, id, readOp) ==
    ongoing' = [ongoing EXCEPT ![node][id] = IF Complete(readOp) THEN NoReadOp ELSE readOp]

\* Seeded fault: the merging node forwards point hits too.
MergeForwardsPointHits(readOp) ==
    IF ~Complete(readOp) THEN {{}}
    ELSE IF ~IsFound(readOp.result) THEN {{SendIndexReadFailureResponse(readOp.result)}}
    ELSE ForwardReadRequest(readOp.result)

\* What the merging node sends: a point hit was forwarded by the node that had it.
MergeMsgs(readOp) ==
    IF ~Complete(readOp) THEN {{}}
    ELSE IF ~IsFound(readOp.result) THEN {{SendIndexReadFailureResponse(readOp.result)}}
    ELSE IF IsPointHit(readOp.result) THEN {{}}
    ELSE ForwardReadRequest(readOp.result)

\* An index node processes a result of its own index.
ProcessIndexResult(x) ==
    /\ polled' = polled \ {x}
    /\ LET r      == x.result
           readOp == Merged(ongoing[x.node][r.query.id], x.node, r)
       IN  \E hit \in PointHitMsgs(r) :
           \/ /\ r.query.type = "aggregator" \/ r.query.master # x.node
              /\ msgs' = msgs \cup hit \cup {SendMasterIndexResult(x.node, r)}
              /\ UNCHANGED ongoing
           \/ /\ r.query.type = "master-slave" /\ r.query.master = x.node
              /\ Aggregate(x.node, r.query.id, readOp)
              /\ \E merged \in MergeMsgs(readOp) : msgs' = msgs \cup hit \cup merged
    /\ UNCHANGED <<log, merger, applied, index, reads, session, storageReads>>

\* A result of another index node reaches the merging node.
HandleSlaveResult(m) ==
    /\ m.op = "INDEX_RESULT"
    /\ LET readOp == Merged(ongoing[m.to][m.result.query.id], m.from, m.result)
       IN  /\ Aggregate(m.to, m.result.query.id, readOp)
           /\ \E merged \in MergeMsgs(readOp) : msgs' = (msgs \ {m}) \cup merged
    /\ UNCHANGED <<log, merger, applied, index, polled, reads, session, storageReads>>

-----------------------------------------------------------------------------
(* The engine.                                                             *)

NoRead == [status |-> "new", dir |-> "next", tag |-> EmptyTag, seqnum |-> 0,
           seen |-> {}, asked |-> {}, result |-> None, found |-> Invalid]

\* PickAggregatorNode: any picked index node, or any aggregator of the view.
MergerChoices(picked) == IF merger = "master-slave" THEN picked ELSE Aggregators

PickIndexNodePerShard ==
    {picked \in SUBSET UNION {IndexShardNodes(s) : s \in 0 .. NumShards - 1} :
        \A s \in 0 .. NumShards - 1 : Cardinality(picked \cap IndexShardNodes(s)) = 1}

ReadMsg(id, dir, tag, seqnum, progress, master, to) ==
    [op |-> "READ", to |-> to,
     query |-> [id |-> id, dir |-> dir, tag |-> tag, seqnum |-> seqnum,
                progress |-> progress, master |-> master, type |-> merger]]

\* Operation ids are handed out in order.
NextRead == {id \in ReadIds : /\ reads[id].status = "new"
                              /\ \A j \in 1 .. id - 1 : reads[j].status # "new"}

Failures == Cardinality({id \in ReadIds : reads[id].result = "DATA_LOST"})

\* A read is sent to one index node of every shard.  When one of the sends
\* fails the operation is finished at once; the other requests are on their way.
HandleIndexTierRead(id, dir, tag, seqnum, picked, master, sent) ==
    /\ sent # picked => Failures < MaxFailures
    /\ reads' = [reads EXCEPT ![id] =
          [status |-> IF sent = picked THEN "ongoing" ELSE "done",
           dir |-> dir, tag |-> tag, seqnum |-> seqnum, seen |-> session.seen, asked |-> picked,
           result |-> IF sent = picked THEN None ELSE "DATA_LOST", found |-> Invalid]]
    /\ msgs' = msgs \cup
          {ReadMsg(id, dir, tag, seqnum, session.progress, master, i) : i \in sent}
    /\ UNCHANGED <<log, merger, applied, index, polled, session, ongoing, storageReads>>

\* The response ends the read; one for a read that is no longer known is ignored.
\* The call's metalog progress never goes back.
OnRecvResponse(m) ==
    /\ m.op = "RESPONSE"
    /\ msgs' = msgs \ {m}
    /\ \/ /\ reads[m.id].status = "ongoing"
          /\ reads' = [reads EXCEPT ![m.id].status = "done", ![m.id].result = m.result,
                                    ![m.id].found = m.seqnum]
          /\ session' = [session EXCEPT !.progress = Max({@, m.progress}),
                                        !.seen = @ \cup ({m.seqnum} \ {Invalid})]
       \/ /\ reads[m.id].status # "ongoing"
          /\ UNCHANGED <<reads, session>>
    /\ UNCHANGED <<log, merger, applied, index, polled, ongoing, storageReads>>

\* An append of the call is acknowledged with the position of its cut.
AppendFinished(q) ==
    /\ q \in OwnEntries \ session.seen
    /\ session' = [progress |-> Max({session.progress, Entry(q).pos}),
                   seen |-> session.seen \cup {q}]
    /\ UNCHANGED <<log, merger, applied, index, polled, reads, ongoing, storageReads, msgs>>

-----------------------------------------------------------------------------
Init ==
    /\ log \in Logs
    /\ merger \in {"master-slave"} \cup (IF Aggregators = {} THEN {} ELSE {"aggregator"})
    /\ applied = [n \in Elements(StorageNodes) |-> 0]
    /\ index = [i \in IndexNodeIds |-> NewIndexShard(ShardOf(i))]
    /\ polled = {}
    /\ reads = [id \in ReadIds |-> NoRead]
    /\ session = [progress |-> 0, seen |-> {}]
    /\ ongoing = [i \in Mergers |-> [id \in ReadIds |-> NoReadOp]]
    /\ storageReads = {}
    /\ msgs = {}

\* What the function does.
FunctionNext ==
    \/ \E q \in OwnEntries : AppendFinished(q)
    \/ \E id \in NextRead, picked \in PickIndexNodePerShard :
        \E dir \in Directions, tag \in QueryTags, seqnum \in QuerySeqnums,
           master \in MergerChoices(picked), sent \in SUBSET picked :
            HandleIndexTierRead(id, dir, tag, seqnum, picked, master, sent)

\* What the nodes do.
SystemNext ==
    \/ \E n \in Elements(StorageNodes), p \in 1 .. LastPosition : OnRecvNewMetaLogs(n, p)
    \/ \E m \in msgs : \/ HandleReadAtRequest(m)
                       \/ HandleReadRequest(m)
                       \/ OnRecvResponse(m)
                       \/ IndexerOnRecvNewIndexData(m)
                       \/ HandleSlaveResult(m)
    \/ \E x \in polled : ProcessIndexResult(x)

Next == FunctionNext \/ SystemNext

\* A step of a node is possible: every message has a handler that accepts it.
SystemEnabled ==
    msgs # {} \/ polled # {} \/ \E n \in Elements(StorageNodes) : applied[n] < LastPosition

\* The steps of Next that are steps of SystemNext: a function call neither moves
\* a storage node nor processes a result, and only a new read sends messages.
SystemStep ==
    applied' # applied \/ polled' # polled \/ (msgs' # msgs /\ NextRead' = NextRead)

\* Weak fairness of SystemNext, with its enabling condition and its steps written
\* out for the model checker: metalogs and messages reach the nodes, threads run.
Fairness == []<>(~SystemEnabled) \/ []<><<SystemStep>>_vars

Spec == Init /\ [][Next]_vars /\ Fairness

-----------------------------------------------------------------------------
\* The index of a node is the part of the log that its shard has up to the
\* position it has indexed: nothing is missing, nothing is early, although the
\* cuts arrive in pieces, out of order and several times (index_shard.cpp).
ShardIndexIsLog ==
    \A i \in IndexNodeIds :
        index[i].entries = {q \in Seqnums : /\ OwnsPosition(i, Entry(q).pos)
                                            /\ Entry(q).pos <= index[i].indexed}

\* The nodes that were asked for read id keep different index shards, so all of
\* them.  The plan does not promise it: view.cpp assigns a node by its place in the
\* plan, indexer.cpp and storage_base.cpp by its id.
EachShardAsked(id) ==
    \A i, j \in reads[id].asked : ShardOf(i) = ShardOf(j) => i = j

\* A read is answered with an entry that it asks for and, when each index shard
\* was asked, with nothing farther from the query than what the call had seen
\* when it read: its own appends and earlier answers (the purpose of
\* metalog_progress in index.cpp, MakeQuery).
ReadSeesSession ==
    \A id \in ReadIds :
        LET r == reads[id]
            mustSee == {q \in r.seen : Matches(q, r.tag) /\ EachShardAsked(id)}
        IN  /\ r.result = "READ_OK" =>
                 /\ Matches(r.found, r.tag)
                 /\ r.dir = "prev" => /\ r.found <= r.seqnum
                                      /\ \A q \in mustSee : q <= r.seqnum => q <= r.found
                 /\ r.dir # "prev" => /\ r.found >= r.seqnum
                                      /\ \A q \in mustSee : q >= r.seqnum => q >= r.found
            /\ r.result = "EMPTY" =>
                 \A q \in mustSee : IF r.dir = "prev" THEN q > r.seqnum ELSE q < r.seqnum

\* What is under way to answer a read: responses and reads at the storage nodes.
AnswersUnderWay(id) ==
    {m \in msgs : m.op \in {"RESPONSE", "READ_AT"} /\ m.id = id}
    \cup {r \in storageReads : r.id = id}

\* A read is answered once when each index shard was asked: while it is ongoing at
\* most one answer is under way, and none when it was answered, although a point
\* hit is forwarded before the results are merged (indexer.cpp, ProcessIndexResult).
\* Two nodes of one shard would both forward it.
AnsweredOnce ==
    \A id \in ReadIds : EachShardAsked(id) =>
        /\ Cardinality(AnswersUnderWay(id)) <= 1
        /\ reads[id].result \in {"READ_OK", "EMPTY"} => AnswersUnderWay(id) = {}

\* Every read that does not block is answered, also on an idle log.
ReadsEnd ==
    \A id \in ReadIds :
        (reads[id].status = "ongoing" /\ reads[id].dir # "nextB") ~> (reads[id].status = "done")

=============================================================================
