------------------------------ MODULE SharedLog ------------------------------
(***************************************************************************)
(* The append path of one physical log in one view.  An engine gives an    *)
(* append a localid of its storage shard and replicates the entry to the   *)
(* storage nodes of the shard; storage nodes report how far they hold each *)
(* shard without gaps; the primary sequencer cuts the log at the positions *)
(* all replicas hold; storage nodes and engines apply the cuts, which is   *)
(* where an entry gets its seqnum and an append its answer.                *)
(*                                                                         *)
(* Sources: log/log_space.cpp (MetaLogPrimary, LogProducer, LogStorage),   *)
(* log/log_space_base.cpp (ApplyMetaLog), log/engine.cpp                   *)
(* (HandleLocalAppend, OnViewFrozen), log/storage.cpp, log/sequencer.cpp.  *)
(*                                                                         *)
(* How cuts are replicated and delivered is what OrderedMetaLog promises   *)
(* and MetaLogReplication implements; here it is UseMetaLog below.  Each   *)
(* shard has one engine, registered before the first cut.                  *)
(***************************************************************************)
EXTENDS Integers, Sequences, FiniteSets

CONSTANTS
    Shards,        \* storage shards; a shard also stands for its engine
    Storages,      \* storage nodes
    StorageNodes,  \* StorageNodes[sh]: View::StorageShard::GetStorageNodes
    MaxAppends,    \* bound: appends of all engines together
    MaxCuts        \* bound: cuts the primary may mark

Nodes == Storages \cup Shards

ASSUME SharedLogAssumption ==
    /\ Storages \cap Shards = {}
    /\ IsFiniteSet(Shards) /\ IsFiniteSet(Storages)
    /\ StorageNodes \in [Shards -> (SUBSET Storages) \ {{}}]
    /\ MaxAppends \in Nat
    /\ MaxCuts \in Nat

\* A localid: the shard in its high half, a counter in its low half.
LocalIds == UNION {[shard : {sh}, id : 0..(MaxAppends - 1)] : sh \in Shards}
Entry(seqnum, localid) == [seqnum |-> seqnum, localid |-> localid]

VARIABLES
    nextId,          \* nextId[sh]: low half of next_localid_
    pendingAppends,  \* pendingAppends[sh]: pending_appends_
    acked,           \* acked[sh]: appends answered with a seqnum
    discarded,       \* discarded[sh]: appends answered with kInvalidLogSeqNum
    active,          \* active[sh]: current_view_active_ of the engine
    pendingEntries,  \* pendingEntries[st]: pending_log_entries_
    liveEntries,     \* liveEntries[st]: live_log_entries_ and what was persisted of them
    shardProgress,   \* shardProgress[st][sh]: shard_progresses_
    progressDirty,   \* progressDirty[st]: shard_progress_dirty_
    viewFinalized,   \* storage nodes with view_finalized_, engines finalized
    storageProgress, \* storageProgress[sh][st]: shard_progrsses_ of the primary
    lastCut,         \* last_cut_
    dirtyShards,     \* dirty_shards_
    frozen,          \* the primary's log space is frozen
    cuts,            \* the metalog: cuts the primary marked
    committed,       \* how many of them are replicated
    position,        \* position[n]: metalog_position_ of storage node or engine n
    sealed,          \* {} or {final metalog position}
    fatal,           \* nodes stopped by "Cannot find pending log entry"
    replicateMsgs,   \* REPLICATE messages in flight
    progressMsgs,    \* SHARD_PROG messages in flight
    floor            \* history: floor[sh][id + 1], the seqnums below which
                     \* appends were acked when append id was issued

engineVars  == <<nextId, pendingAppends, acked, discarded, active, floor>>
storageVars == <<pendingEntries, liveEntries, shardProgress, progressDirty>>
primaryVars == <<storageProgress, lastCut, dirtyShards>>
metaVars    == <<cuts, committed, position, sealed>>
netVars     == <<replicateMsgs, progressMsgs>>
vars == <<engineVars, storageVars, primaryVars, frozen, metaVars, viewFinalized,
          fatal, netVars>>

Init ==
    /\ nextId = [sh \in Shards |-> 0]
    /\ pendingAppends = [sh \in Shards |-> {}]
    /\ acked = [sh \in Shards |-> {}]
    /\ discarded = [sh \in Shards |-> {}]
    /\ active = [sh \in Shards |-> TRUE]
    /\ pendingEntries = [st \in Storages |-> {}]
    /\ liveEntries = [st \in Storages |-> {}]
    /\ shardProgress = [st \in Storages |-> [sh \in Shards |-> 0]]
    /\ progressDirty = [st \in Storages |-> FALSE]
    /\ viewFinalized = {}
    /\ storageProgress = [sh \in Shards |-> [st \in StorageNodes[sh] |-> 0]]
    /\ lastCut = [sh \in Shards |-> 0]
    /\ dirtyShards = {}
    /\ frozen = FALSE
    /\ cuts = <<>>
    /\ committed = 0
    /\ position = [n \in Nodes |-> 0]
    /\ sealed = {}
    /\ fatal = {}
    /\ replicateMsgs = {}
    /\ progressMsgs = {}
    /\ floor = [sh \in Shards |-> <<>>]

-----------------------------------------------------------------------------
(* Engines. *)

\* The localids given out so far; MaxAppends bounds their number.
Issued == {l \in LocalIds : l.id < nextId[l.shard]}

AckedSeqnums == {e.seqnum : e \in UNION {acked[sh] : sh \in Shards}}

\* Engine::HandleLocalAppend, LogProducer::LocalAppend and ReplicateLogEntry,
\* while the view is active (otherwise the operation fails at once).
HandleLocalAppend(sh) ==
    LET localid == [shard |-> sh, id |-> nextId[sh]]
        low == {s + 1 : s \in AckedSeqnums} \cup {0}
    IN  /\ sh \notin fatal
        /\ active[sh]
        /\ Cardinality(Issued) < MaxAppends
        /\ nextId' = [nextId EXCEPT ![sh] = @ + 1]
        /\ pendingAppends' = [pendingAppends EXCEPT ![sh] = @ \cup {localid}]
        /\ replicateMsgs' = replicateMsgs \cup
             {[dst |-> st, localid |-> localid] : st \in StorageNodes[sh]}
        /\ floor' = [floor EXCEPT ![sh] =
             Append(@, CHOOSE s \in low : \A x \in low : x <= s)]
        /\ UNCHANGED <<acked, discarded, active, storageVars, primaryVars, frozen,
                       metaVars, viewFinalized, fatal, progressMsgs>>

\* Engine::OnViewFrozen: the controller has started to seal the view.
EngineOnViewFrozen(sh) ==
    /\ active[sh]
    /\ active' = [active EXCEPT ![sh] = FALSE]
    /\ UNCHANGED <<nextId, pendingAppends, acked, discarded, floor, storageVars,
                   primaryVars, frozen, metaVars, viewFinalized, fatal, netVars>>

-----------------------------------------------------------------------------
(* Storage nodes. *)

\* LogStorage::AdvanceShardProgress: the first localid from p on not in pend.
AdvanceShardProgress(sh, p, pend) ==
    CHOOSE q \in p..MaxAppends :
        /\ [shard |-> sh, id |-> q] \notin pend
        /\ \A i \in p..(q - 1) : [shard |-> sh, id |-> i] \in pend

\* Storage::HandleReplicateRequest and LogStorage::Store.
HandleReplicateRequest(msg) ==
    LET st   == msg.dst
        sh   == msg.localid.shard
        pend == pendingEntries[st] \cup {msg.localid}
        q    == AdvanceShardProgress(sh, shardProgress[st][sh], pend)
    IN  /\ msg \in replicateMsgs
        /\ st \notin fatal
        /\ replicateMsgs' = replicateMsgs \ {msg}
        /\ pendingEntries' = [pendingEntries EXCEPT ![st] = pend]
        /\ shardProgress' = [shardProgress EXCEPT ![st][sh] = q]
        /\ progressDirty' = [progressDirty EXCEPT ![st] = @ \/ q > shardProgress[st][sh]]
        /\ UNCHANGED <<engineVars, liveEntries, primaryVars, frozen, metaVars,
                       viewFinalized, fatal, progressMsgs>>

\* Storage::SendShardProgressIfNeeded, on a timer.
SendShardProgressIfNeeded(st) ==
    /\ st \notin fatal
    /\ st \notin viewFinalized
    /\ progressDirty[st]
    /\ progressDirty' = [progressDirty EXCEPT ![st] = FALSE]
    /\ progressMsgs' = progressMsgs \cup {[src |-> st, progress |-> shardProgress[st]]}
    /\ UNCHANGED <<engineVars, pendingEntries, liveEntries, shardProgress, primaryVars,
                   frozen, metaVars, viewFinalized, fatal, replicateMsgs>>

-----------------------------------------------------------------------------
(* The primary sequencer. *)

\* Seeded fault: the maximum, one replica is enough.
HeldBySomeReplica(prog, sh) ==
    CHOOSE p \in {prog[sh][st] : st \in StorageNodes[sh]} :
        \A st \in StorageNodes[sh] : p >= prog[sh][st]

\* GetShardReplicatedPosition: the minimum over the shard's storage nodes.
GetShardReplicatedPosition(prog, sh) ==
    CHOOSE p \in {prog[sh][st] : st \in StorageNodes[sh]} :
        \A st \in StorageNodes[sh] : p <= prog[sh][st]

\* Seeded fault: a shard is dirty only when more than one entry is new.
DirtyBeyondNext(prog, more) ==
    {sh \in more : GetShardReplicatedPosition(prog, sh) > lastCut[sh] + 1}

\* UpdateStorageProgress: the shards, of those whose progress advanced, that
\* now have entries beyond the last cut.
NewlyDirty(prog, more) ==
    {sh \in more : GetShardReplicatedPosition(prog, sh) > lastCut[sh]}

\* OnRecvShardProgress and MetaLogPrimary::UpdateStorageProgress.
OnRecvShardProgress(msg) ==
    LET mine == {sh \in Shards : msg.src \in StorageNodes[sh]}
        more == {sh \in mine : msg.progress[sh] > storageProgress[sh][msg.src]}
        prog == [sh \in Shards |-> [st \in StorageNodes[sh] |->
                   IF sh \in more /\ st = msg.src THEN msg.progress[sh]
                   ELSE storageProgress[sh][st]]]
    IN  /\ msg \in progressMsgs
        /\ progressMsgs' = progressMsgs \ {msg}
        /\ IF frozen THEN UNCHANGED primaryVars
           ELSE /\ storageProgress' = prog
                /\ dirtyShards' = dirtyShards \cup NewlyDirty(prog, more)
                /\ UNCHANGED lastCut
        /\ UNCHANGED <<engineVars, storageVars, frozen, metaVars, viewFinalized,
                       fatal, replicateMsgs>>

\* A cut: its first seqnum and, in the order of the protocol message, the
\* shards with the first localid and the number of entries each contributes.
SumDeltas(c) ==
    LET sum[i \in 0..Len(c.shards)] ==
          IF i = 0 THEN 0 ELSE sum[i - 1] + c.shards[i].delta
    IN  sum

\* Seeded fault: a cut starts where the last one started.
SeqnumOfLastStart == IF cuts = <<>> THEN 0 ELSE cuts[Len(cuts)].start

NextSeqnum ==
    IF cuts = <<>> THEN 0
    ELSE LET c == cuts[Len(cuts)] IN c.start + SumDeltas(c)[Len(c.shards)]

\* The orders in which a set can be iterated.
Orders(S) == {o \in [1..Cardinality(S) -> S] : \A i, j \in DOMAIN o : o[i] = o[j] => i = j}

NextCut(o) ==
    [start |-> NextSeqnum,
     shards |-> [i \in DOMAIN o |->
       [shard |-> o[i], start |-> lastCut[o[i]],
        delta |-> GetShardReplicatedPosition(storageProgress, o[i]) - lastCut[o[i]]]]]
CutPosition ==
    [sh \in Shards |-> IF sh \in dirtyShards
       THEN GetShardReplicatedPosition(storageProgress, sh) ELSE lastCut[sh]]

\* Seeded fault: the next cut does not wait until the last one is replicated.
MarkWithoutWaiting ==
    /\ ~frozen
    /\ dirtyShards # {}
    /\ Len(cuts) < MaxCuts
    /\ \E o \in Orders(dirtyShards) : cuts' = Append(cuts, NextCut(o))
    /\ lastCut' = CutPosition
    /\ dirtyShards' = {}
    /\ UNCHANGED <<engineVars, storageVars, storageProgress, frozen, committed, position,
                   sealed, viewFinalized, fatal, netVars>>

\* MarkNextCutIfDoable and MetaLogPrimary::MarkNextCut; dirty_shards_ is a hash
\* set, iterated in some order.
MarkNextCut ==
    /\ ~frozen
    /\ committed = Len(cuts)
    /\ dirtyShards # {}
    /\ Len(cuts) < MaxCuts
    /\ \E o \in Orders(dirtyShards) : cuts' = Append(cuts, NextCut(o))
    /\ lastCut' = CutPosition
    /\ dirtyShards' = {}
    /\ UNCHANGED <<engineVars, storageVars, storageProgress, frozen, committed, position,
                   sealed, viewFinalized, fatal, netVars>>

\* Sequencer::OnViewFrozen at the primary.
PrimaryOnViewFrozen ==
    /\ ~frozen
    /\ frozen' = TRUE
    /\ UNCHANGED <<engineVars, storageVars, primaryVars, metaVars, viewFinalized,
                   fatal, netVars>>

-----------------------------------------------------------------------------
(* The metalog, as OrderedMetaLog promises it. *)

\* UpdateMetaLogReplicatedPosition: the last cut became replicated.
ReplicateMetaLog ==
    /\ committed < Len(cuts)
    /\ \A p \in sealed : committed < p
    /\ committed' = committed + 1
    /\ UNCHANGED <<engineVars, storageVars, primaryVars, frozen, cuts, position, sealed,
                   viewFinalized, fatal, netVars>>

\* Seeded fault: the seal may lose replicated cuts.
SealAnywhere ==
    /\ sealed = {}
    /\ \E p \in 0..Len(cuts) : sealed' = {p}
    /\ UNCHANGED <<engineVars, storageVars, primaryVars, frozen, cuts, committed, position,
                   viewFinalized, fatal, netVars>>

\* The controller publishes the finalized view: a position that covers what is
\* replicated.
SealView ==
    /\ sealed = {}
    /\ \E p \in committed..Len(cuts) : sealed' = {p}
    /\ UNCHANGED <<engineVars, storageVars, primaryVars, frozen, cuts, committed, position,
                   viewFinalized, fatal, netVars>>

\* ApplyMetaLog: the entries of a cut with their seqnums.
CutEntries(c) ==
    UNION {LET d == c.shards[i]
           IN  {Entry(c.start + SumDeltas(c)[i - 1] + k,
                      [shard |-> d.shard, id |-> d.start + k]) : k \in 0..(d.delta - 1)} :
           i \in DOMAIN c.shards}
EntriesOf(from, to) == UNION {CutEntries(cuts[i]) : i \in (from + 1)..to}

\* LogStorage::OnNewLogs for the entries E of the shards it stores.
StorageOnNewLogs(st, E) ==
    LET mine == {e \in E : st \in StorageNodes[e.localid.shard]}
        ids  == {e.localid : e \in mine}
    IN  IF ids \subseteq pendingEntries[st]
        THEN /\ pendingEntries' = [pendingEntries EXCEPT ![st] = @ \ ids]
             /\ liveEntries' = [liveEntries EXCEPT ![st] = @ \cup mine]
             /\ UNCHANGED fatal
        ELSE /\ fatal' = fatal \cup {st}
             /\ UNCHANGED <<pendingEntries, liveEntries>>

\* LogProducer::OnNewLogs for the entries E of the engine's shard.
EngineOnNewLogs(sh, E) ==
    LET mine == {e \in E : e.localid.shard = sh}
        ids  == {e.localid : e \in mine}
    IN  IF ids \subseteq pendingAppends[sh]
        THEN /\ pendingAppends' = [pendingAppends EXCEPT ![sh] = @ \ ids]
             /\ acked' = [acked EXCEPT ![sh] = @ \cup mine]
             /\ UNCHANGED fatal
        ELSE /\ fatal' = fatal \cup {sh}
             /\ UNCHANGED <<pendingAppends, acked>>

\* Storage::OnRecvNewMetaLogs: replicated cuts, in order.
StorageOnRecvNewMetaLogs(st) ==
    /\ st \notin fatal
    /\ \E to \in (position[st] + 1)..committed :
         /\ position' = [position EXCEPT ![st] = to]
         /\ StorageOnNewLogs(st, EntriesOf(position[st], to))
    /\ UNCHANGED <<engineVars, shardProgress, progressDirty, primaryVars, frozen, cuts,
                   committed, sealed, viewFinalized, netVars>>

\* Engine::OnRecvNewMetaLogs; ProcessAppendResults answers the appends.
EngineOnRecvNewMetaLogs(sh) ==
    /\ sh \notin fatal
    /\ \E to \in (position[sh] + 1)..committed :
         /\ position' = [position EXCEPT ![sh] = to]
         /\ EngineOnNewLogs(sh, EntriesOf(position[sh], to))
    /\ UNCHANGED <<nextId, discarded, active, floor, storageVars, primaryVars, frozen,
                   cuts, committed, sealed, viewFinalized, netVars>>

\* Storage::OnViewFinalized: catch up from the tail, then LogStorage::OnFinalized
\* discards the pending entries.
StorageOnViewFinalized(st) ==
    \E p \in sealed :
      LET E    == EntriesOf(position[st], p)
          mine == {e \in E : st \in StorageNodes[e.localid.shard]}
          found == {e.localid : e \in mine} \subseteq pendingEntries[st]
      IN  /\ st \notin fatal \cup viewFinalized
          /\ position' = [position EXCEPT ![st] = p]
          /\ IF found
               THEN /\ pendingEntries' = [pendingEntries EXCEPT ![st] = {}]
                    /\ liveEntries' = [liveEntries EXCEPT ![st] = @ \cup mine]
                    /\ viewFinalized' = viewFinalized \cup {st}
                    /\ UNCHANGED fatal
               ELSE /\ fatal' = fatal \cup {st}
                    /\ UNCHANGED <<pendingEntries, liveEntries, viewFinalized>>
          /\ UNCHANGED <<engineVars, shardProgress, progressDirty, primaryVars, frozen,
                         cuts, committed, sealed, netVars>>

\* Engine::OnViewFinalized, after OnViewFrozen: catch up, then
\* LogProducer::OnFinalized answers what is still pending with kInvalidLogSeqNum.
EngineOnViewFinalized(sh) ==
    \E p \in sealed :
      LET E    == EntriesOf(position[sh], p)
          mine == {e \in E : e.localid.shard = sh}
          ids  == {e.localid : e \in mine}
      IN  /\ sh \notin fatal \cup viewFinalized
          /\ ~active[sh]
          /\ position' = [position EXCEPT ![sh] = p]
          /\ IF ids \subseteq pendingAppends[sh]
               THEN /\ acked' = [acked EXCEPT ![sh] = @ \cup mine]
                    /\ discarded' = [discarded EXCEPT ![sh] = pendingAppends[sh] \ ids]
                    /\ pendingAppends' = [pendingAppends EXCEPT ![sh] = {}]
                    /\ viewFinalized' = viewFinalized \cup {sh}
                    /\ UNCHANGED fatal
               ELSE /\ fatal' = fatal \cup {sh}
                    /\ UNCHANGED <<acked, discarded, pendingAppends, viewFinalized>>
          /\ UNCHANGED <<nextId, active, floor, storageVars, primaryVars, frozen,
                         cuts, committed, sealed, netVars>>

-----------------------------------------------------------------------------
(* A failed send is logged and not repeated: the message stays in flight for
   ever, which Spec allows because it promises no delivery. *)

Next ==
    \/ \E sh \in Shards : HandleLocalAppend(sh)
    \/ \E sh \in Shards : EngineOnViewFrozen(sh)
    \/ \E msg \in replicateMsgs : HandleReplicateRequest(msg)
    \/ \E st \in Storages : SendShardProgressIfNeeded(st)
    \/ \E msg \in progressMsgs : OnRecvShardProgress(msg)
    \/ MarkNextCut
    \/ PrimaryOnViewFrozen
    \/ ReplicateMetaLog
    \/ SealView
    \/ \E st \in Storages : StorageOnRecvNewMetaLogs(st)
    \/ \E sh \in Shards : EngineOnRecvNewMetaLogs(sh)
    \/ \E st \in Storages : StorageOnViewFinalized(st)
    \/ \E sh \in Shards : EngineOnViewFinalized(sh)

Spec == Init /\ [][Next]_vars
-----------------------------------------------------------------------------
(* Correctness. *)

Delta == [shard : Shards, start : 0..(MaxAppends - 1), delta : 1..MaxAppends]
Cut   == [start : 0..(MaxAppends - 1),
          shards : UNION {[1..k -> Delta] : k \in 1..Cardinality(Shards)}]

Answers == UNION {acked[sh] : sh \in Shards}

\* An append is answered with a seqnum only when every storage node of its
\* shard holds the entry; none of them discards it at the end of the view.
AckedIsOnAllReplicas ==
    \A sh \in Shards : \A e \in acked[sh] : \A st \in StorageNodes[sh] :
        e \in liveEntries[st] \/ e.localid \in pendingEntries[st]

\* An append issued after another one was answered, by whatever engine, gets a
\* larger seqnum.
RealTimeOrder ==
    \A sh \in Shards : \A e \in acked[sh] : e.seqnum >= floor[sh][e.localid.id + 1]

\* The part of the log that can no longer disappear.
VisiblePosition ==
    IF sealed = {} THEN committed ELSE CHOOSE p \in sealed : TRUE
Visible == EntriesOf(0, VisiblePosition)

\* The append path implements AppendLog: the log is the entries of the cuts
\* that are replicated, or sealed, in seqnum order.
Log == INSTANCE AppendLog WITH
    Producers <- Shards,
    issued    <- nextId,
    log       <- [i \in 1..Cardinality(Visible) |->
                    (CHOOSE e \in Visible : e.seqnum = i - 1).localid],
    answered  <- Answers,
    dropped   <- UNION {discarded[sh] : sh \in Shards}
ImplementsAppendLog == Log!Spec

\* The cuts are used as OrderedMetaLog provides them, so that
\* MetaLogReplication can stand for the metalog.
UseMetaLog == INSTANCE OrderedMetaLog WITH
    Readers   <- Nodes,
    Cuts      <- Cut,
    log       <- cuts,
    committed <- committed,
    reader    <- [n \in Nodes |-> SubSeq(cuts, 1, position[n])],
    sealed    <- sealed
UsesOrderedMetaLog == UseMetaLog!Spec

-----------------------------------------------------------------------------
(* Liveness, when no message is lost: deliveries are fair. *)

Freezing == frozen \/ sealed # {} \/ \E sh \in Shards : ~active[sh]

Fairness ==
    /\ WF_vars(\E msg \in replicateMsgs : HandleReplicateRequest(msg))
    /\ \A st \in Storages : WF_vars(SendShardProgressIfNeeded(st))
    /\ WF_vars(\E msg \in progressMsgs : OnRecvShardProgress(msg))
    /\ WF_vars(MarkNextCut)
    /\ WF_vars(ReplicateMetaLog)
    /\ WF_vars(Freezing /\ SealView)
    /\ \A sh \in Shards : WF_vars(Freezing /\ EngineOnViewFrozen(sh))
    /\ \A sh \in Shards : WF_vars(EngineOnRecvNewMetaLogs(sh))
    /\ \A sh \in Shards : WF_vars(EngineOnViewFinalized(sh))

\* Every append is answered, with a seqnum or, at the end of the view, with a
\* failure: no caller waits for ever.
AppendsAreAnswered ==
    \A l \in LocalIds : l \in pendingAppends[l.shard] ~> l \notin pendingAppends[l.shard]
=============================================================================
