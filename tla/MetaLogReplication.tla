------------------------- MODULE MetaLogReplication -------------------------
(***************************************************************************)
(* The metalog of one physical log ("phylog") in one view: the primary     *)
(* sequencer marks cuts, backup sequencers replicate them, replicated cuts *)
(* are propagated to the storage and engine nodes, and a reconfiguration   *)
(* freezes the sequencers, seals the log at the controller and finalizes   *)
(* it at every log space.                                                  *)
(*                                                                         *)
(* Sources: log/log_space_base.cpp (ProvideMetaLog, Finalize),             *)
(* log/log_space.cpp (MetaLogPrimary), log/sequencer.cpp,                  *)
(* log/sequencer_base.cpp, log/controller.cpp (the seal).                  *)
(*                                                                         *)
(* What a cut says about the shards is opaque here (a member of Cuts);     *)
(* module SharedLog gives cuts their content.  Messages travel over many   *)
(* connections served by many IO workers, so they are unordered, and a     *)
(* message whose send fails is only logged, so they may be lost.           *)
(***************************************************************************)
EXTENDS Integers, Sequences, FiniteSets

CONSTANTS
    Primary,      \* the sequencer that owns the phylog
    Backups,      \* View::Sequencer::replica_sequencer_nodes of the primary
    Nodes,        \* storage nodes, and engines registered since position 0
    Cuts,         \* contents of a NEW_LOGS metalog
    NumTail,      \* FLAGS_slog_num_tail_metalog_entries
    MaxMetaLogs   \* bound: metalogs the primary may mark in this view

Sequencers == {Primary} \cup Backups
LogSpaces  == Sequencers \cup Nodes

ASSUME ReplicationAssumption ==
    /\ Primary \notin Backups
    /\ Sequencers \cap Nodes = {}
    /\ IsFiniteSet(Backups)
    /\ NumTail \in Nat \ {0}
    /\ MaxMetaLogs \in Nat

\* MetaLogProto, reduced to its seqnum and its content.
MetaLogs == [seqnum : 0..(MaxMetaLogs - 1), cut : Cuts]

VARIABLES
    metalog,     \* metalog[n]: metalogs applied at n; metalog_position_ is its length
    pending,     \* pending[n]: pending_metalogs_, received out of order
    progress,    \* progress[b]: metalog_progresses_ of the primary
    replicated,  \* replicated_metalog_position_ of the primary
    frozen,      \* sequencers whose log space is in state kFrozen
    metaLogMsgs, \* METALOGS messages in flight
    progMsgs,    \* META_PROG messages in flight
    freezing,    \* "view/freeze" was created: the controller is sealing
    tails,       \* tails[s]: tail in the "freeze/" znode of a frozen sequencer s
    collected,   \* sequencers whose tail is in ongoing_seal_->tail_metalogs
    final,       \* {} or the one FinalizedViewProto published as "view/finalize"
    outcome      \* how Finalize ended at each log space

replicaVars == <<metalog, pending>>
primaryVars == <<progress, replicated>>
netVars     == <<metaLogMsgs, progMsgs>>
sealVars    == <<freezing, tails, collected, final>>
vars == <<replicaVars, primaryVars, frozen, netVars, sealVars, outcome>>

\* "insufficient", "uncommon" and "future" end in an HLOG_F(FATAL): the process
\* is gone.
Fatal    == {"insufficient", "uncommon", "future"}
Outcomes == {"none", "ok", "ahead"} \cup Fatal
Alive(n) == outcome[n] \notin Fatal

Pos(n) == Len(metalog[n])

Init ==
    /\ metalog = [n \in LogSpaces |-> <<>>]
    /\ pending = [n \in LogSpaces |-> {}]
    /\ progress = [b \in Backups |-> 0]
    /\ replicated = 0
    /\ frozen = {}
    /\ metaLogMsgs = {}
    /\ progMsgs = {}
    /\ freezing = FALSE
    /\ tails = [s \in Sequencers |-> {}]
    /\ collected = {}
    /\ final = {}
    /\ outcome = [n \in LogSpaces |-> "none"]

-----------------------------------------------------------------------------
(* LogSpaceBase: applying metalogs in order. *)

Seqnums(S) == {m.seqnum : m \in S}

\* Where AdvanceMetaLogProgress stops: the first position not in pend.
AdvanceMetaLogProgress(pos, pend) ==
    CHOOSE q \in pos..MaxMetaLogs :
        /\ q \notin Seqnums(pend)
        /\ \A s \in pos..(q - 1) : s \in Seqnums(pend)

CutAt(pend, s) == (CHOOSE m \in pend : m.seqnum = s).cut

\* ProvideMetaLog for every metalog of S: one below the position is dropped,
\* the others overwrite the pending entry of their seqnum.
PendingWith(n, S) ==
    LET new == {m \in S : m.seqnum >= Pos(n)}
    IN  {m \in pending[n] : m.seqnum \notin Seqnums(new)} \cup new

\* The log after AdvanceMetaLogProgress applied what is consecutive in pend.
AppliedWith(n, pend) ==
    LET q == AdvanceMetaLogProgress(Pos(n), pend)
    IN  [i \in 1..q |-> IF i <= Pos(n) THEN metalog[n][i] ELSE CutAt(pend, i - 1)]

ProvideMetaLogs(n, S) ==
    LET pend == PendingWith(n, S)
        log  == AppliedWith(n, pend)
    IN  /\ metalog' = [metalog EXCEPT ![n] = log]
        /\ pending' = [pending EXCEPT ![n] = {m \in pend : m.seqnum >= Len(log)}]

-----------------------------------------------------------------------------
(* The primary and its backups. *)

MetaLogMsg(dst, m) == [dst |-> dst, metalog |-> m]

\* Seeded fault: a cut goes to the nodes as soon as it is marked.
MarkAndPropagate(c) ==
    /\ Alive(Primary)
    /\ Primary \notin frozen
    /\ replicated = Pos(Primary)
    /\ Pos(Primary) < MaxMetaLogs
    /\ metalog' = [metalog EXCEPT ![Primary] = Append(@, c)]
    /\ metaLogMsgs' = metaLogMsgs \cup
         {MetaLogMsg(n, [seqnum |-> Pos(Primary), cut |-> c]) : n \in Backups \cup Nodes}
    /\ UNCHANGED <<pending, primaryVars, frozen, progMsgs, sealVars, outcome>>

\* Sequencer::MarkNextCutIfDoable, on the global cut timer: at most one
\* unreplicated metalog; MarkNextCut applies it and ReplicateMetaLog sends it.
MarkNextCutIfDoable(c) ==
    /\ Alive(Primary)
    /\ Primary \notin frozen
    /\ replicated = Pos(Primary)
    /\ Pos(Primary) < MaxMetaLogs
    /\ metalog' = [metalog EXCEPT ![Primary] = Append(@, c)]
    /\ metaLogMsgs' = metaLogMsgs \cup
         {MetaLogMsg(b, [seqnum |-> Pos(Primary), cut |-> c]) : b \in Backups}
    /\ UNCHANGED <<pending, primaryVars, frozen, progMsgs, sealVars, outcome>>

\* Seeded fault: a frozen backup still applies and reports metalogs.
BackupIgnoresFreeze(msg) ==
    /\ msg \in metaLogMsgs
    /\ msg.dst \in Backups
    /\ Alive(msg.dst)
    /\ metaLogMsgs' = metaLogMsgs \ {msg}
    /\ ProvideMetaLogs(msg.dst, {msg.metalog})
    /\ progMsgs' = progMsgs \cup {[src |-> msg.dst, position |-> Len(metalog'[msg.dst])]}
    /\ UNCHANGED <<primaryVars, frozen, sealVars, outcome>>

\* Sequencer::OnRecvNewMetaLogs at a backup: apply, and report the position
\* to the primary when it advanced.  A frozen backup drops the message.
OnRecvNewMetaLogsAtBackup(msg) ==
    /\ msg \in metaLogMsgs
    /\ msg.dst \in Backups
    /\ Alive(msg.dst)
    /\ metaLogMsgs' = metaLogMsgs \ {msg}
    /\ IF msg.dst \in frozen
         THEN UNCHANGED <<replicaVars, progMsgs>>
         ELSE /\ ProvideMetaLogs(msg.dst, {msg.metalog})
              /\ progMsgs' = IF Len(metalog'[msg.dst]) > Pos(msg.dst)
                             THEN progMsgs \cup {[src |-> msg.dst,
                                                  position |-> Len(metalog'[msg.dst])]}
                             ELSE progMsgs
    /\ UNCHANGED <<primaryVars, frozen, sealVars, outcome>>

\* tmp.at(k) of the sorted progresses of the backups.
SortedAt(prog, k) ==
    CHOOSE v \in {prog[b] : b \in Backups} :
        /\ Cardinality({b \in Backups : prog[b] < v}) <= k
        /\ Cardinality({b \in Backups : prog[b] <= v}) > k

\* MetaLogPrimary::UpdateReplicaProgress and, when the progress advanced,
\* UpdateMetaLogReplicatedPosition.
UpdateReplicaProgress(msg) ==
    IF msg.position > progress[msg.src]
    THEN [progress EXCEPT ![msg.src] = msg.position] ELSE progress

\* Seeded fault: the index into the sorted progresses is rounded up.
ReplicatedAtUpperMedian(prog) ==
    IF prog = progress \/ replicated = Pos(Primary) \/ Backups = {}
    THEN replicated
    ELSE SortedAt(prog, (Cardinality(Backups) + 1) \div 2)

UpdateMetaLogReplicatedPosition(prog) ==
    IF prog = progress \/ replicated = Pos(Primary) \/ Backups = {}
    THEN replicated
    ELSE SortedAt(prog, Cardinality(Backups) \div 2)

\* Seeded fault: replicated metalogs are not propagated.
ProgressWithoutPropagation(msg) ==
    /\ msg \in progMsgs
    /\ Alive(Primary)
    /\ progMsgs' = progMsgs \ {msg}
    /\ IF Primary \in frozen THEN UNCHANGED primaryVars
       ELSE /\ progress' = UpdateReplicaProgress(msg)
            /\ replicated' = UpdateMetaLogReplicatedPosition(UpdateReplicaProgress(msg))
    /\ UNCHANGED <<replicaVars, frozen, metaLogMsgs, sealVars, outcome>>

\* Sequencer::OnRecvMetaLogProgress: record a backup's progress; metalogs
\* that became replicated are propagated to the nodes.
OnRecvMetaLogProgress(msg) ==
    LET prog == UpdateReplicaProgress(msg)
        repl == UpdateMetaLogReplicatedPosition(prog)
    IN  /\ msg \in progMsgs
        /\ Alive(Primary)
        /\ progMsgs' = progMsgs \ {msg}
        /\ IF Primary \in frozen
             THEN UNCHANGED <<primaryVars, metaLogMsgs, outcome>>
             ELSE IF msg.position > Pos(Primary)
             THEN /\ outcome' = [outcome EXCEPT ![Primary] = "future"]
                  /\ UNCHANGED <<primaryVars, metaLogMsgs>>
             ELSE /\ progress' = prog
                  /\ replicated' = repl
                  /\ metaLogMsgs' = metaLogMsgs \cup
                       {MetaLogMsg(n, [seqnum |-> p, cut |-> metalog[Primary][p + 1]]) :
                           n \in Nodes, p \in replicated..(repl - 1)}
                  /\ UNCHANGED outcome
        /\ UNCHANGED <<replicaVars, frozen, sealVars>>

\* OnRecvNewMetaLogs at a storage node or engine.  A log space never enters
\* kFinalized, so the message is applied even after Finalize.
OnRecvNewMetaLogsAtNode(msg) ==
    /\ msg \in metaLogMsgs
    /\ msg.dst \in Nodes
    /\ Alive(msg.dst)
    /\ metaLogMsgs' = metaLogMsgs \ {msg}
    /\ ProvideMetaLogs(msg.dst, {msg.metalog})
    /\ UNCHANGED <<primaryVars, frozen, progMsgs, sealVars, outcome>>

-----------------------------------------------------------------------------
(* Sealing the view. *)

\* Controller::FreezeView, on a reconfiguration in state kNormal.
FreezeView ==
    /\ ~freezing
    /\ freezing' = TRUE
    /\ UNCHANGED <<replicaVars, primaryVars, frozen, netVars, tails,
                   collected, final, outcome>>

\* FreezeLogSpace: the last NumTail metalogs of s.
TailOf(s) ==
    {[seqnum |-> p, cut |-> metalog[s][p + 1]] :
        p \in {p \in 0..(Pos(s) - 1) : p >= Pos(s) - NumTail}}

\* Sequencer::OnViewFrozen.
OnViewFrozen(s) ==
    /\ Alive(s)
    /\ freezing
    /\ s \notin frozen
    /\ frozen' = frozen \cup {s}
    /\ tails' = [tails EXCEPT ![s] = TailOf(s)]
    /\ UNCHANGED <<replicaVars, primaryVars, netVars, freezing, collected,
                   final, outcome>>

\* Seeded fault: the final position is that of the last metalog.
PositionOfLast(tail) ==
    IF tail = {} THEN 0
    ELSE (CHOOSE m \in tail : \A x \in tail : x.seqnum <= m.seqnum).seqnum
\* BuildFinalTailMetalog: union by seqnum; the position after the last one.
FinalPosition(tail) ==
    IF tail = {} THEN 0
    ELSE (CHOOSE m \in tail : \A x \in tail : x.seqnum <= m.seqnum).seqnum + 1

\* Seeded fault: all sequencers must seal.
AllMustSeal == Cardinality(Sequencers)

SealQuorum == (Cardinality(Sequencers) + 1) \div 2

\* Controller::OnFreezeZNodeCreated for the znode of s, and CheckAllSealed: once
\* a quorum of tails is collected the finalized view is published and
\* ongoing_seal_ is reset.
OnFreezeZNodeCreated(s) ==
    LET all  == collected \cup {s}
        tail == UNION {tails[x] : x \in all}
    IN  /\ s \in frozen
        /\ s \notin collected
        /\ final = {}
        /\ collected' = all
        /\ final' = IF Cardinality(all) >= SealQuorum
                    THEN {[position |-> FinalPosition(tail), tail |-> tail]}
                    ELSE {}
        /\ UNCHANGED <<replicaVars, primaryVars, frozen, netVars, freezing,
                       tails, outcome>>

\* LogSpaceBase::Finalize, called once per log space from OnViewFinalized; a
\* sequencer sees "view/freeze" before "view/finalize".  FinalizedLogSpace
\* turns an insufficient tail into a FATAL.
OnViewFinalized(n) ==
    \E f \in final :
      LET pend == PendingWith(n, f.tail)
          log  == AppliedWith(n, pend)
          catchUp == Pos(n) < f.position
      IN  /\ outcome[n] = "none"
          /\ n \in Sequencers => n \in frozen
          /\ IF catchUp THEN ProvideMetaLogs(n, f.tail) ELSE UNCHANGED replicaVars
          /\ outcome' = [outcome EXCEPT ![n] =
               CASE Pos(n) = f.position               -> "ok"
                 [] Pos(n) = f.position + 1           -> "ahead"
                 [] Pos(n) > f.position + 1           -> "future"
                 [] catchUp /\ Len(log) < f.position  -> "insufficient"
                 [] catchUp /\ Len(log) > f.position  -> "uncommon"
                 [] catchUp /\ Len(log) = f.position  -> "ok"]
          /\ UNCHANGED <<primaryVars, frozen, netVars, sealVars>>

-----------------------------------------------------------------------------
(* A send that fails is logged and forgotten (SendSharedLogMessage). *)

LoseMetaLogs(msg) ==
    /\ msg \in metaLogMsgs
    /\ metaLogMsgs' = metaLogMsgs \ {msg}
    /\ UNCHANGED <<replicaVars, primaryVars, frozen, progMsgs, sealVars, outcome>>

LoseMetaLogProgress(msg) ==
    /\ msg \in progMsgs
    /\ progMsgs' = progMsgs \ {msg}
    /\ UNCHANGED <<replicaVars, primaryVars, frozen, metaLogMsgs, sealVars, outcome>>

\* Steps of the program.
Step ==
    \/ \E c \in Cuts : MarkNextCutIfDoable(c)
    \/ \E msg \in metaLogMsgs : OnRecvNewMetaLogsAtBackup(msg)
    \/ \E msg \in progMsgs : OnRecvMetaLogProgress(msg)
    \/ \E msg \in metaLogMsgs : OnRecvNewMetaLogsAtNode(msg)
    \/ FreezeView
    \/ \E s \in Sequencers : OnViewFrozen(s)
    \/ \E s \in Sequencers : OnFreezeZNodeCreated(s)
    \/ \E n \in LogSpaces : OnViewFinalized(n)

Loss ==
    \/ \E msg \in metaLogMsgs : LoseMetaLogs(msg)
    \/ \E msg \in progMsgs : LoseMetaLogProgress(msg)

Next == Step \/ Loss

Spec == Init /\ [][Next]_vars
-----------------------------------------------------------------------------
(* Correctness. *)

\* Every variable keeps its type; positions stay within the bound.
TypeOK ==
    /\ metalog \in [LogSpaces -> Seq(Cuts)]
    /\ \A n \in LogSpaces : Pos(n) <= MaxMetaLogs
    /\ pending \in [LogSpaces -> SUBSET MetaLogs]
    /\ progress \in [Backups -> 0..MaxMetaLogs]
    /\ replicated \in 0..MaxMetaLogs
    /\ frozen \subseteq Sequencers
    /\ metaLogMsgs \subseteq [dst : Backups \cup Nodes, metalog : MetaLogs]
    /\ progMsgs \subseteq [src : Backups, position : 0..MaxMetaLogs]
    /\ freezing \in BOOLEAN
    /\ tails \in [Sequencers -> SUBSET MetaLogs]
    /\ collected \subseteq frozen
    /\ final \subseteq [position : 0..MaxMetaLogs, tail : SUBSET MetaLogs]
    /\ outcome \in [LogSpaces -> Outcomes]

\* Reordering, loss, catching up from tails: the metalog of every backup and
\* node is a prefix of the primary's (ProvideMetaLog, AdvanceMetaLogProgress).
PrefixAgreement ==
    \A n \in LogSpaces :
        /\ Pos(n) <= Pos(Primary)
        /\ \A i \in 1..Pos(n) : metalog[n][i] = metalog[Primary][i]

\* What UpdateMetaLogReplicatedPosition calls replicated is held by some
\* member of every set of sequencers large enough to seal the view.
ReplicatedSurvivesSeal ==
    \A Q \in SUBSET Sequencers :
        Cardinality(Q) >= SealQuorum => \E s \in Q : Pos(s) >= replicated

\* The position the controller seals covers every metalog that was or will
\* be propagated to a node: nobody outside the sequencers "sees the future".
SealCoversPropagated ==
    \A f \in final :
        /\ replicated <= f.position
        /\ \A n \in Nodes : Pos(n) <= f.position
        /\ \A msg \in metaLogMsgs : msg.dst \in Nodes => msg.metalog.seqnum < f.position

\* "Receive future position" and "See the future" are never reached, and a
\* node never runs past the sealed position while it catches up.
NobodySeesTheFuture ==
    /\ \A n \in LogSpaces : outcome[n] # "future"
    /\ \A n \in Nodes : outcome[n] # "uncommon"

\* All log spaces that finalized "ok" agree on the whole log of the view, and
\* it is the sealed one; only a sequencer can be left one metalog ahead.
FinalizedAgree ==
    \A f \in final : \A n \in LogSpaces :
        /\ outcome[n] = "ok" =>
             /\ Pos(n) = f.position
             /\ \A m \in LogSpaces : outcome[m] = "ok" => metalog[m] = metalog[n]
        /\ outcome[n] = "ahead" => n \in Sequencers

\* The log of a finalized log space never changes again, although its state_
\* is not kFinalized and late METALOGS messages are still handed to it.
FinalizedLogIsStable ==
    [][\A n \in LogSpaces : outcome[n] \in {"ok", "ahead"} =>
           metalog'[n] = metalog[n]]_vars

\* DCHECK_GE(progress, replicated_metalog_position_) and the append-only log:
\* neither the replicated position nor any applied metalog is taken back.
NothingTakenBack ==
    [][/\ replicated' >= replicated
       /\ \A n \in LogSpaces :
            /\ Len(metalog'[n]) >= Pos(n)
            /\ \A i \in 1..Pos(n) : metalog'[n][i] = metalog[n][i]]_vars

\* The protocol implements the ordered metalog: readers are the nodes, a cut
\* is committed when the primary counts it as replicated, and the log is sealed
\* when the controller publishes the finalized view.
Abstract == INSTANCE OrderedMetaLog WITH
    Readers   <- Nodes,
    log       <- metalog[Primary],
    committed <- replicated,
    reader    <- [n \in Nodes |-> metalog[n]],
    sealed    <- {f.position : f \in final}
ImplementsOrderedMetaLog == Abstract!Spec

-----------------------------------------------------------------------------
(* The inductive invariant behind the safety properties. *)

\* m is the metalog the primary applied at m.seqnum.
IsEntry(m) == /\ m.seqnum < Pos(Primary)
              /\ m.cut = metalog[Primary][m.seqnum + 1]

\* Nothing in flight, pending or published differs from the primary's log.
Authentic ==
    /\ \A msg \in metaLogMsgs : IsEntry(msg.metalog)
    /\ \A n \in LogSpaces : \A m \in pending[n] : IsEntry(m)
    /\ \A s \in Sequencers : \A m \in tails[s] : IsEntry(m)
    /\ \A f \in final : \A m \in f.tail : IsEntry(m)

\* The primary is at most one metalog ahead of the replicated position.
OneUnreplicated == replicated <= Pos(Primary) /\ Pos(Primary) <= replicated + 1

\* A backup has what it reported, and a frozen one reported no more than the
\* tail it published.
ProgressIsTrue ==
    /\ \A b \in Backups : progress[b] <= Pos(b)
    /\ \A msg \in progMsgs : msg.position <= Pos(msg.src)
    /\ \A b \in Backups \cap frozen :
         /\ progress[b] <= FinalPosition(tails[b])
         /\ \A msg \in progMsgs : msg.src = b => msg.position <= FinalPosition(tails[b])

\* Less than half of the backups may be behind the replicated position.
FewBehind ==
    Cardinality({b \in Backups : progress[b] < replicated}) <= Cardinality(Backups) \div 2

\* Nodes only know replicated or sealed metalogs.
Covered(p) == p <= replicated \/ \E f \in final : p <= f.position
NodesBehind ==
    /\ \A n \in Nodes : Covered(Pos(n))
    /\ \A n \in Nodes : \A m \in pending[n] : Covered(m.seqnum + 1)
    /\ \A msg \in metaLogMsgs : msg.dst \in Nodes => msg.metalog.seqnum < replicated

\* The sealed view: a quorum of frozen sequencers, none above the position.
SealIsQuorum ==
    /\ Primary \in frozen => Pos(Primary) = FinalPosition(tails[Primary])
    /\ \A f, g \in final : f = g
    /\ \A f \in final :
         /\ Cardinality(collected) >= SealQuorum
         /\ \A s \in collected : FinalPosition(tails[s]) <= f.position
         /\ \A m \in f.tail : m.seqnum < f.position
         /\ f.position <= Pos(Primary)
         /\ replicated <= f.position

\* Which log spaces have been finalized, and where that left them.
FinalizedWhere ==
    /\ \A n \in LogSpaces : outcome[n] # "none" => final # {}
    /\ \A s \in Sequencers : outcome[s] # "none" => s \in frozen
    /\ \A f \in final : \A n \in LogSpaces : outcome[n] = "ok" => Pos(n) = f.position
    /\ \A n \in LogSpaces : outcome[n] = "ahead" => n \in Sequencers

IndInv ==
    /\ TypeOK
    /\ PrefixAgreement
    /\ Authentic
    /\ OneUnreplicated
    /\ ProgressIsTrue
    /\ FewBehind
    /\ NodesBehind
    /\ SealIsQuorum
    /\ FinalizedWhere
    /\ NobodySeesTheFuture

-----------------------------------------------------------------------------
(* Liveness, when no message is lost and the sequencers in Live run. *)

Fairness(Live) ==
    /\ \A b \in Backups \cap Live :
         WF_vars(\E msg \in metaLogMsgs : msg.dst = b /\ OnRecvNewMetaLogsAtBackup(msg))
    /\ \A b \in Backups \cap Live :
         WF_vars(\E msg \in progMsgs : msg.src = b /\ OnRecvMetaLogProgress(msg))
    /\ \A n \in Nodes :
         WF_vars(\E msg \in metaLogMsgs : msg.dst = n /\ OnRecvNewMetaLogsAtNode(msg))
    /\ \A s \in Sequencers \cap Live : WF_vars(OnViewFrozen(s))
    /\ WF_vars(\E s \in Sequencers : OnFreezeZNodeCreated(s))
    /\ \A n \in Nodes \cup Live : WF_vars(OnViewFinalized(n))

\* A replicated metalog reaches every node, through METALOGS or through the
\* tail of the finalized view.
ReplicatedReachesNodes ==
    \A n \in Nodes, k \in 1..MaxMetaLogs : (replicated >= k) ~> (Pos(n) >= k)

\* Once the controller starts sealing, every node finalizes the view.
SealCompletes == freezing ~> \A n \in Nodes : outcome[n] # "none"
=============================================================================
