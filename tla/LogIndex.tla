------------------------------ MODULE LogIndex ------------------------------
(***************************************************************************)
(* The complete index an engine keeps of one physical log in one view, and *)
(* the reads it serves.  Metalogs say where cuts end; storage nodes send   *)
(* the index data of the entries they hold, so data of a replicated shard  *)
(* comes several times, in any order and before or after its metalog.  A   *)
(* cut is indexed when all data below its end is there.  A read carries    *)
(* the metalog position its function has seen and waits until the index    *)
(* has reached it.                                                         *)
(*                                                                         *)
(* Sources: log/index.cpp, log/index_complete.cpp, log/engine.cpp          *)
(* (HandleLocalRead, OnRecvNewMetaLogs, OnRecvNewIndexData,                *)
(* OnViewFinalized), log/engine_base.cpp (FinishLocalOpWithResponse).      *)
(*                                                                         *)
(* Metalogs are applied in order (MetaLogReplication) and what they cut is *)
(* SharedLog's matter: here the log of the view is given by constants.     *)
(***************************************************************************)
EXTENDS Integers, Sequences, FiniteSets

CONSTANTS
    Clients,   \* function calls that read the log
    Storages,  \* storage nodes
    CutEnds,   \* CutEnds[p]: the seqnum position after p metalogs
    Tags,
    AnyTag,    \* kEmptyLogTag: selects every entry
    TagOf,     \* TagOf[s]: the user tag of the entry with seqnum s
    Holds      \* Holds[st]: seqnums of the entries in the shards of st

NumCuts == Len(CutEnds)
End(p)  == IF p = 0 THEN 0 ELSE CutEnds[p]
Seqnums == 0..(End(NumCuts) - 1)

ASSUME IndexAssumption ==
    /\ CutEnds \in Seq(Nat)
    /\ \A p \in 1..NumCuts : End(p - 1) < End(p)
    /\ TagOf \in [Seqnums -> Tags] /\ AnyTag \notin Tags
    /\ Holds \in [Storages -> SUBSET Seqnums]
    /\ UNION {Holds[st] : st \in Storages} = Seqnums

\* kInvalidLogSeqNum: nothing found.
None == -1
Directions == {"prev", "next", "nextB"}

\* One IndexDataProto: what storage node st sends when it applies metalog p.
IndexData(st, p) == {s \in Holds[st] : End(p - 1) <= s /\ s < End(p)}
Packages == {[src |-> st, position |-> p] : st \in Storages, p \in 1..NumCuts}

VARIABLES
    metalogPos,     \* metalog_position_; cuts_ holds the ends of the metalogs
                    \* from indexedPos on
    received,       \* keys of received_data_
    dataPos,        \* data_received_seqnum_position_
    indexedPos,     \* indexed_metalog_position_
    indexedSeqnum,  \* indexed_seqnum_position_
    index,          \* seqnums_ of PerSpaceIndex, in the order of Add
    packages,       \* INDEX_DATA messages in flight
    op,             \* op[c]: the last read of c
    session,        \* session[c]: metalog_progress of c's function context
    viewFinalized   \* OnViewFinalized has run

indexVars == <<metalogPos, received, dataPos, indexedPos, indexedSeqnum, index>>
vars == <<indexVars, packages, op, session, viewFinalized>>

NoOp == [state |-> "none"]

Init ==
    /\ metalogPos = 0
    /\ received = {}
    /\ dataPos = 0
    /\ indexedPos = 0
    /\ indexedSeqnum = 0
    /\ index = <<>>
    /\ packages = {k \in Packages : IndexData(k.src, k.position) # {}}
    /\ op = [c \in Clients |-> NoOp]
    /\ session = [c \in Clients |-> 0]
    /\ viewFinalized = FALSE

-----------------------------------------------------------------------------
(* Looking up the index. *)

Matches(s, tag) == tag = AnyTag \/ TagOf[s] = tag
Least(S)    == IF S = {} THEN None ELSE CHOOSE s \in S : \A x \in S : s <= x
Greatest(S) == IF S = {} THEN None ELSE CHOOSE s \in S : \A x \in S : s >= x
Hits(idx, tag) == {idx[i] : i \in {j \in DOMAIN idx : Matches(idx[j], tag)}}

\* Seeded fault: upper_bound in place of lower_bound.
FindStrictlyNext(idx, q) == Least({s \in Hits(idx, q.tag) : s > q.seqnum})

\* PerSpaceIndex::FindNext and FindPrev.
FindNext(idx, q) == Least({s \in Hits(idx, q.tag) : s >= q.seqnum})

FindPrev(idx, q) == Greatest({s \in Hits(idx, q.tag) : s <= q.seqnum})

Find(idx, q) == IF q.dir = "prev" THEN FindPrev(idx, q) ELSE FindNext(idx, q)

\* BuildFoundResult and BuildEmptyResult: the answer carries the position of
\* the index.
Answered(q, result, pos) ==
    [q EXCEPT !.state = "done", !.result = result, !.at = pos]

\* Index::ProcessQuery in the first view: a blocking read that finds nothing
\* is kept in blocking_reads_.
ProcessQuery(q, idx, pos) ==
    IF q.dir = "nextB" /\ Find(idx, q) = None
    THEN [q EXCEPT !.state = "blocking"]
    ELSE Answered(q, Find(idx, q), pos)

\* FinishLocalOpWithResponse: the context of the call remembers the position.
Sessions(ops) ==
    [c \in Clients |-> IF ops[c].state = "done" /\ ops[c].at > session[c]
                       THEN ops[c].at ELSE session[c]]

-----------------------------------------------------------------------------
(* Reads. *)

Query(dir, seqnum, tag, progress) ==
    [state |-> "pending", dir |-> dir, seqnum |-> seqnum, tag |-> tag,
     progress |-> progress, initial |-> TRUE, result |-> None, at |-> 0]

\* An append of c's call, or of a call it made, was answered with a metalog
\* position.
Learn(c, p) ==
    /\ p > session[c]
    /\ session' = [session EXCEPT ![c] = p]
    /\ UNCHANGED <<indexVars, packages, op, viewFinalized>>

Idle(c) == op[c].state \in {"none", "done"}

\* Seeded fault: the position the call has seen is not looked at.
QueryWithoutWaiting(c, dir, seqnum, tag) ==
    LET q == Query(dir, seqnum, tag, session[c])
    IN  /\ Idle(c)
        /\ op' = [op EXCEPT ![c] = ProcessQuery(q, index, indexedPos)]
        /\ session' = Sessions(op')
        /\ UNCHANGED <<indexVars, packages, viewFinalized>>

\* HandleLocalRead and Index::MakeQuery for the query of a client.
MakeQuery(c, dir, seqnum, tag) ==
    LET q == Query(dir, seqnum, tag, session[c])
    IN  /\ Idle(c)
        /\ op' = [op EXCEPT ![c] = IF q.progress <= indexedPos
                                   THEN ProcessQuery(q, index, indexedPos) ELSE q]
        /\ session' = Sessions(op')
        /\ UNCHANGED <<indexVars, packages, viewFinalized>>

\* ProcessIndexContinueResult: the index of the next view, which is created
\* after this one is finalized, passes a query on.  finalized() is never true,
\* so MakeQuery keeps it with key kMaxMetalogPosition.
MakeContinueQuery(c, dir, seqnum, tag) ==
    /\ Idle(c)
    /\ viewFinalized
    /\ dir # "nextB"
    /\ op' = [op EXCEPT ![c] =
                [Query(dir, seqnum, tag, session[c]) EXCEPT !.initial = FALSE]]
    /\ UNCHANGED <<indexVars, packages, session, viewFinalized>>

-----------------------------------------------------------------------------
(* Index progress. *)

SortedSeq(S) ==
    CHOOSE f \in [1..Cardinality(S) -> S] :
        \A i, j \in DOMAIN f : i < j => f[i] < f[j]

\* ProvideIndexData: new seqnums are kept, known and indexed ones are not.
KeepIndexData(S) == received \cup {s \in S : s >= indexedSeqnum}

\* Where data_received_seqnum_position_ stops: the first seqnum not received.
DataPosition(recv) ==
    CHOOSE p \in dataPos..End(NumCuts) :
        /\ p \notin recv
        /\ \A s \in dataPos..(p - 1) : s \in recv

\* The last cut of cuts_ whose data is complete.
IndexablePosition(mpos, dpos) ==
    CHOOSE p \in indexedPos..mpos :
        /\ p = indexedPos \/ End(p) <= dpos
        /\ \A r \in (p + 1)..mpos : End(r) > dpos

\* blocking_reads_ then pending_queries_ at the end of AdvanceIndexProgress;
\* late are the blocking reads older than kBlockingQueryTimeout.
WakeUp(o, idx, pos, late) ==
    CASE o.state = "blocking" ->
           IF Find(idx, o) # None THEN Answered(o, Find(idx, o), pos)
           ELSE IF late THEN Answered(o, None, pos) ELSE o
      [] o.state = "pending" /\ o.initial /\ o.progress <= pos -> ProcessQuery(o, idx, pos)
      [] OTHER -> o

\* AdvanceIndexProgress after metalogs up to mpos and data recv up to dpos.
AdvanceIndexProgress(mpos, recv, dpos) ==
    LET pos   == IndexablePosition(mpos, dpos)
        end   == IF pos = indexedPos THEN indexedSeqnum ELSE End(pos)
        batch == IF pos = indexedPos THEN {} ELSE {s \in recv : s < end}
    IN  /\ metalogPos' = mpos
        /\ dataPos' = dpos
        /\ indexedPos' = pos
        /\ indexedSeqnum' = end
        /\ index' = index \o SortedSeq(batch)
        /\ received' = recv \ batch
        /\ \E late \in SUBSET {c \in Clients : op[c].state = "blocking"} :
             op' = [c \in Clients |-> WakeUp(op[c], index', pos, c \in late)]
        /\ session' = Sessions(op')

\* Engine::OnRecvNewMetaLogs, the index's part: metalogs up to mpos are applied.
OnRecvNewMetaLogs(mpos) ==
    /\ mpos > metalogPos
    /\ AdvanceIndexProgress(mpos, received, dataPos)
    /\ UNCHANGED <<packages, viewFinalized>>

\* Seeded fault: index data is kept, but the index does not advance.
IndexDataWithoutAdvance(k) ==
    LET recv == KeepIndexData(IndexData(k.src, k.position))
    IN  /\ k \in packages
        /\ packages' = packages \ {k}
        /\ received' = recv
        /\ dataPos' = DataPosition(recv)
        /\ UNCHANGED <<metalogPos, indexedPos, indexedSeqnum, index, op, session,
                       viewFinalized>>

\* Engine::OnRecvNewIndexData.
OnRecvNewIndexData(k) ==
    LET recv == KeepIndexData(IndexData(k.src, k.position))
    IN  /\ k \in packages
        /\ packages' = packages \ {k}
        /\ AdvanceIndexProgress(metalogPos, recv, DataPosition(recv))
        /\ UNCHANGED viewFinalized

\* Engine::OnViewFinalized: Finalize applies the remaining metalogs, and
\* Index::OnFinalized processes every pending query.
OnViewFinalized ==
    /\ ~viewFinalized
    /\ viewFinalized' = TRUE
    /\ metalogPos' = NumCuts
    /\ op' = [c \in Clients |-> IF op[c].state = "pending"
                                THEN ProcessQuery(op[c], index, indexedPos) ELSE op[c]]
    /\ session' = Sessions(op')
    /\ UNCHANGED <<received, dataPos, indexedPos, indexedSeqnum, index, packages>>

Next ==
    \/ \E c \in Clients, p \in 1..NumCuts : Learn(c, p)
    \/ \E c \in Clients, dir \in Directions, s \in Seqnums, tag \in Tags \cup {AnyTag} :
         \/ MakeQuery(c, dir, s, tag)
         \/ MakeContinueQuery(c, dir, s, tag)
    \/ \E mpos \in 1..NumCuts : OnRecvNewMetaLogs(mpos)
    \/ \E k \in packages : OnRecvNewIndexData(k)
    \/ OnViewFinalized

Spec == Init /\ [][Next]_vars
-----------------------------------------------------------------------------
(* Correctness. *)

Ops == [state : {"pending", "blocking", "done"}, dir : Directions, seqnum : Seqnums,
        tag : Tags \cup {AnyTag}, progress : 0..NumCuts, initial : BOOLEAN,
        result : Seqnums \cup {None}, at : 0..NumCuts] \cup {NoOp}

\* An answered read is what a search of the log up to the position in the
\* answer gives: nothing nearer to the query exists there.
ReadIsLogSearch ==
    \A c \in Clients : LET o == op[c] IN
        o.state = "done" /\ o.dir # "nextB" =>
            LET log == {s \in 0..(End(o.at) - 1) : Matches(s, o.tag)}
            IN  o.result = IF o.dir = "prev" THEN Greatest({s \in log : s <= o.seqnum})
                                             ELSE Least({s \in log : s >= o.seqnum})

\* Read your writes and monotonic reads: a read misses no entry that its call
\* knew of when it was made; only the end of the view may answer early.
ReadsSeeSession ==
    \A c \in Clients : LET o == op[c] IN
        o.state = "done" /\ ~viewFinalized =>
            \A s \in 0..(End(o.progress) - 1) : Matches(s, o.tag) =>
                /\ o.dir # "prev" /\ s >= o.seqnum => o.result # None /\ o.result <= s
                /\ o.dir = "prev" /\ s <= o.seqnum => o.result >= s

-----------------------------------------------------------------------------
(* Liveness, when metalogs and index data are delivered. *)

Fairness ==
    /\ WF_vars(OnRecvNewMetaLogs(NumCuts))
    /\ WF_vars(\E k \in packages : OnRecvNewIndexData(k))

\* A read that waits for the index is answered, or becomes a blocking read,
\* unless the view ends.
WaitingReadsEnd ==
    \A c \in Clients : op[c].state = "pending" ~> (op[c].state # "pending" \/ viewFinalized)
=============================================================================
