----------------------------- MODULE LogStorage -----------------------------
(***************************************************************************)
(* One storage node and one physical log in one view, from the moment the  *)
(* entries get their seqnums: entries are kept in memory, flushed to the   *)
(* database by the background thread and dropped from memory; READ_AT      *)
(* requests wait for metalogs and are answered from memory or from the     *)
(* database; the index data of every metalog is sent on.                   *)
(*                                                                         *)
(* IO workers, the background thread and the ZooKeeper thread that         *)
(* finalizes the view take the lock of the log space several times, so     *)
(* their steps interleave at those points.                                 *)
(*                                                                         *)
(* Sources: log/log_space.cpp (LogStorage), log/storage.cpp,               *)
(* log/storage_base.cpp.                                                   *)
(*                                                                         *)
(* That every entry a metalog names is in pending_log_entries_ is shown in *)
(* SharedLog.  The log of the view, as it is sealed in the end, is given   *)
(* by constants; metalogs are applied in order (MetaLogReplication).       *)
(***************************************************************************)
EXTENDS Integers, Sequences, FiniteSets

CONSTANTS
    Readers,   \* READ_AT requests that can be under way at a time
    CutEnds,   \* CutEnds[p]: the seqnum position after p metalogs
    Mine,      \* seqnums of the entries in the shards of this node
    MaxLive    \* FLAGS_slog_storage_max_live_entries

NumCuts == Len(CutEnds)
End(p)  == IF p = 0 THEN 0 ELSE CutEnds[p]
Seqnums == 0..(End(NumCuts) - 1)

ASSUME StorageAssumption ==
    /\ CutEnds \in Seq(Nat)
    /\ \A p, q \in 0..NumCuts : p < q => End(p) < End(q)
    /\ Mine \subseteq Seqnums
    /\ MaxLive \in Nat

VARIABLES
    position,   \* metalog_position_; End(position) is seqnum_position_
    live,       \* live_seqnums_ and the keys of live_log_entries_
    persisted,  \* persisted_seqnum_position_
    db,         \* seqnums in the database
    flush,      \* the background thread in FlushLogEntries
    read,       \* read[r]: a READ_AT request
    packages,   \* metalog positions of index_data_packages_
    sent,       \* sent[p]: INDEX_DATA messages sent for metalog position p
    finalizing  \* where the ZooKeeper thread is in OnViewFinalized

vars == <<position, live, persisted, db, flush, read, packages, sent, finalizing>>

Idle == [phase |-> "idle", todo |-> {}, end |-> 0]
NoRead == [state |-> "none", seqnum |-> 0, status |-> "none"]

Init ==
    /\ position = 0
    /\ live = {}
    /\ persisted = 0
    /\ db = {}
    /\ flush = Idle
    /\ read = [r \in Readers |-> NoRead]
    /\ packages = {}
    /\ sent = [p \in 1..NumCuts |-> 0]
    /\ finalizing = "no"

-----------------------------------------------------------------------------
(* The log space. *)

\* ShrinkLiveEntriesIfNeeded: from the front, while there are too many and the
\* front is persisted.
ShrinkLiveEntriesIfNeeded(L, pos) ==
    {s \in L : s >= pos \/ Cardinality({x \in L : x >= s}) <= MaxLive}

\* My entries of the metalogs from position p up to position q.
NewEntries(p, q) == {s \in Mine : End(p) <= s /\ s < End(q)}

\* LogStorage::OnNewLogs for a waiting request when the log has grown to end:
\* it is served with the entry, one of mine.
Served(rd, end) ==
    IF rd.state = "pending" /\ rd.seqnum < end
    THEN [rd EXCEPT !.state = "queued", !.status = "ok"] ELSE rd

\* OnMetaLogApplied: a package for each metalog with entries of mine.
IndexDataPackages(p, q) == {k \in (p + 1)..q : NewEntries(k - 1, k) # {}}

\* Metalogs up to position q are applied.
ApplyMetaLogs(q) ==
    /\ position' = q
    /\ live' = ShrinkLiveEntriesIfNeeded(live \cup NewEntries(position, q), persisted)

\* PollReadResults: the calling thread takes the results that are queued.
PollReadResults(reads) ==
    [r \in Readers |-> IF reads[r].state = "queued"
                       THEN [reads[r] EXCEPT !.state = "polled"] ELSE reads[r]]

\* Seeded fault: the packages are copied, not swapped out.
PollAndKeepIndexData(P) ==
    /\ packages' = P
    /\ sent' = [p \in 1..NumCuts |-> IF p \in P THEN sent[p] + 1 ELSE sent[p]]

\* PollIndexData and SendIndexData.
PollIndexData(P) ==
    /\ packages' = {}
    /\ sent' = [p \in 1..NumCuts |-> IF p \in P THEN sent[p] + 1 ELSE sent[p]]

-----------------------------------------------------------------------------
(* IO workers. *)

\* Seeded fault: the seqnum is not looked up in memory once it is below the
\* position that will be persisted.
ReadAtBeforePersisted(s) ==
    [state |-> IF s >= End(position) THEN "pending" ELSE "queued", seqnum |-> s,
     status |-> IF s >= End(position) THEN "none"
                ELSE IF flush.phase = "put" /\ s < flush.end THEN "lookupDB"
                ELSE IF s \in live THEN "ok" ELSE "failed"]

\* LogStorage::ReadAt for seqnum s.
ReadAt(s) ==
    [state |-> IF s >= End(position) THEN "pending" ELSE "queued", seqnum |-> s,
     status |-> IF s >= End(position) THEN "none"
                ELSE IF s \in live THEN "ok"
                ELSE IF s < persisted THEN "lookupDB"
                ELSE "failed"]

\* Storage::HandleReadAtRequest.  An engine reads what an index found, on a node
\* that stores the entry; the node may not have applied its metalog yet.
HandleReadAtRequest(r, s) ==
    /\ read[r].state \in {"none", "done"}
    /\ read' = PollReadResults([read EXCEPT ![r] = ReadAt(s)])
    /\ UNCHANGED <<position, live, persisted, db, flush, packages, sent, finalizing>>

\* Storage::ProcessReadResults and ProcessReadFromDB, without any lock.
ProcessReadResults(r) ==
    /\ read[r].state = "polled"
    /\ LET found == \/ read[r].status = "ok"
                    \/ read[r].status = "lookupDB" /\ read[r].seqnum \in db
       IN  read' = [read EXCEPT ![r].state = "done",
                                ![r].status = IF found THEN "ok" ELSE "dataLost"]
    /\ UNCHANGED <<position, live, persisted, db, flush, packages, sent, finalizing>>

\* Seeded fault: what is waiting for the metalogs is not looked at.
MetaLogsWithoutReads(q) ==
    /\ finalizing # "locked"
    /\ q > position
    /\ ApplyMetaLogs(q)
    /\ PollIndexData(packages \cup IndexDataPackages(position, q))
    /\ UNCHANGED <<persisted, db, flush, read, finalizing>>

\* Storage::OnRecvNewMetaLogs, under the reader lock of the view: metalogs up to
\* position q.
OnRecvNewMetaLogs(q) ==
    /\ finalizing # "locked"
    /\ q > position
    /\ ApplyMetaLogs(q)
    /\ read' = PollReadResults([r \in Readers |-> Served(read[r], End(q))])
    /\ PollIndexData(packages \cup IndexDataPackages(position, q))
    /\ UNCHANGED <<persisted, db, flush, finalizing>>

-----------------------------------------------------------------------------
(* The background thread: FlushLogEntries. *)

Greatest(S) == CHOOSE s \in S : \A x \in S : s >= x

\* Seeded fault: the loop ends before the last entry.
GrabWithoutLast ==
    LET todo == {s \in live : s >= persisted}
    IN  /\ finalizing # "locked"
        /\ flush.phase = "idle"
        /\ todo # {}
        /\ flush' = [phase |-> "put", todo |-> todo \ {Greatest(live)},
                     end |-> Greatest(live) + 1]
        /\ UNCHANGED <<position, live, persisted, db, read, packages, sent, finalizing>>

\* GrabLogEntriesForPersistence, under the reader locks.
GrabLogEntriesForPersistence ==
    LET todo == {s \in live : s >= persisted}
    IN  /\ finalizing # "locked"
        /\ flush.phase = "idle"
        /\ todo # {}
        /\ flush' = [phase |-> "put", todo |-> todo, end |-> Greatest(live) + 1]
        /\ UNCHANGED <<position, live, persisted, db, read, packages, sent, finalizing>>

\* PutLogEntryToDB, in seqnum order and without any lock.
PutLogEntryToDB ==
    \E s \in flush.todo :
        /\ \A x \in flush.todo : s <= x
        /\ db' = db \cup {s}
        /\ flush' = [flush EXCEPT !.todo = @ \ {s}]
        /\ UNCHANGED <<position, live, persisted, read, packages, sent, finalizing>>

\* LogEntriesPersisted; finalized() is never true, so the log space stays in
\* the set that FlushLogEntries visits.
LogEntriesPersisted ==
    /\ flush.phase = "put"
    /\ flush.todo = {}
    /\ persisted' = flush.end
    /\ live' = ShrinkLiveEntriesIfNeeded(live, flush.end)
    /\ flush' = Idle
    /\ UNCHANGED <<position, db, read, packages, sent, finalizing>>

-----------------------------------------------------------------------------
(* The ZooKeeper thread: OnViewFinalized holds the lock of the view throughout,
   and that of the log space first in Finalize and then to poll. *)

Finalize ==
    /\ finalizing = "no"
    /\ finalizing' = "locked"
    /\ ApplyMetaLogs(NumCuts)
    /\ read' = [r \in Readers |-> Served(read[r], End(NumCuts))]
    /\ packages' = packages \cup IndexDataPackages(position, NumCuts)
    /\ UNCHANGED <<persisted, db, flush, sent>>

PollFinalized ==
    /\ finalizing = "locked"
    /\ finalizing' = "done"
    /\ read' = PollReadResults(read)
    /\ PollIndexData(packages)
    /\ UNCHANGED <<position, live, persisted, db, flush>>

Next ==
    \/ \E r \in Readers, s \in Mine : HandleReadAtRequest(r, s)
    \/ \E r \in Readers : ProcessReadResults(r)
    \/ \E q \in 1..NumCuts : OnRecvNewMetaLogs(q)
    \/ GrabLogEntriesForPersistence
    \/ PutLogEntryToDB
    \/ LogEntriesPersisted
    \/ Finalize
    \/ PollFinalized

Spec == Init /\ [][Next]_vars
-----------------------------------------------------------------------------
(* Correctness. *)

Requests == [state : {"none", "pending", "queued", "polled", "done"},
             seqnum : Seqnums \cup {0},
             status : {"none", "ok", "lookupDB", "failed", "dataLost"}]

\* Every variable keeps its type.
TypeOK ==
    /\ position \in 0..NumCuts
    /\ live \subseteq Mine
    /\ persisted \in 0..End(NumCuts)
    /\ db \subseteq Mine
    /\ flush \in [phase : {"idle", "put"}, todo : SUBSET Mine, end : 0..End(NumCuts)]
    /\ read \in [Readers -> Requests]
    /\ packages \subseteq 1..NumCuts
    /\ sent \in [1..NumCuts -> Nat]
    /\ finalizing \in {"no", "locked", "done"}

\* Whatever ReadAt, the flush, the shrinking of memory and the database lookup
\* after the unlock interleave to: a node never answers DATA_LOST for an entry
\* of its own.
ReadsFindTheirEntry == \A r \in Readers : read[r].status \notin {"failed", "dataLost"}

\* Every entry of an applied metalog is in memory, or it is in the database and
\* ReadAt knows so.
NothingForgotten ==
    \A s \in NewEntries(0, position) : s \in live \/ (s < persisted /\ s \in db)

\* Memory holds more than slog_storage_max_live_entries only while none of it
\* is persisted.
LiveIsBounded == Cardinality(live) <= MaxLive \/ \A s \in live : s >= persisted

\* Each applied metalog's index data leaves the node exactly once, also when the
\* view is finalized while metalogs arrive.
IndexDataSentOnce ==
    \A p \in 1..NumCuts :
        sent[p] + (IF p \in packages THEN 1 ELSE 0) =
            IF p <= position /\ NewEntries(p - 1, p) # {} THEN 1 ELSE 0

-----------------------------------------------------------------------------
(* The inductive invariant behind the safety properties. *)

\* Memory holds entries of applied metalogs only.
LiveIsApplied == \A s \in live : s < End(position)

\* Below persisted_seqnum_position_ the database is complete; below the end of
\* a flush it will be when the flush is done.
DatabaseIsComplete ==
    /\ persisted <= End(position)
    /\ \A s \in Mine : s < persisted => s \in db
    /\ flush.phase = "put" =>
         /\ persisted <= flush.end /\ flush.end <= End(position)
         /\ \A s \in Mine : s < flush.end => s \in db \/ s \in flush.todo

\* A result that is not processed yet has a status, and a request sent to the
\* database finds its entry there.
LookupsWillSucceed ==
    \A r \in Readers :
        /\ read[r].state \in {"queued", "polled"} => read[r].status # "none"
        /\ read[r].status = "lookupDB" => read[r].seqnum \in db

IndInv ==
    /\ TypeOK
    /\ ReadsFindTheirEntry
    /\ NothingForgotten
    /\ LiveIsApplied
    /\ DatabaseIsComplete
    /\ LookupsWillSucceed
    /\ LiveIsBounded
    /\ IndexDataSentOnce

-----------------------------------------------------------------------------
(* Liveness: timers fire, threads run, and metalogs are delivered. *)

Fairness ==
    /\ WF_vars(\E q \in 1..NumCuts : OnRecvNewMetaLogs(q))
    /\ \A r \in Readers : WF_vars(ProcessReadResults(r))
    /\ WF_vars(GrabLogEntriesForPersistence)
    /\ WF_vars(PutLogEntryToDB)
    /\ WF_vars(LogEntriesPersisted)
    /\ WF_vars(PollFinalized)

\* Every READ_AT request is answered, also one that waits for a metalog when
\* the view ends.
ReadsAreAnswered ==
    \A r \in Readers : read[r].state \in {"pending", "queued", "polled"} ~> read[r].state = "done"

\* Every entry of an applied metalog gets to the database.
EntriesArePersisted == \A s \in Mine : (s < End(position)) ~> (s \in db)

\* What a storage node has begun it ends: waiting reads are answered, and memory
\* can shrink because the entries in it are persisted.
StorageMakesProgress == ReadsAreAnswered /\ EntriesArePersisted
=============================================================================
