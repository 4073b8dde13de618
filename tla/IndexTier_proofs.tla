--------------------------- MODULE IndexTier_proofs ---------------------------
(***************************************************************************)
(* Proofs about IndexTier, for every number and order of index and storage *)
(* nodes, all logs and all reads: an index shard is its part of the log,   *)
(* and of reads for which the plan chose nodes of different shards, a      *)
(* merged answer is not older than what the call has seen, and a read has  *)
(* one answer although point hits overtake the merge.                      *)
(***************************************************************************)
EXTENDS IndexTier, FiniteSetTheorems, SequenceTheorems, WellFoundedInduction, TLAPS

-----------------------------------------------------------------------------
(* The inductive invariant. *)

Queries == [id : ReadIds, dir : Directions, tag : QueryTags, seqnum : QuerySeqnums,
            progress : Nat, master : Mergers, type : {"master-slave", "aggregator"}]
Results == [query : Queries, found : 0 .. Len(log), progress : Nat]
Shards  == [indexed  : Nat,
            updates  : SUBSET (Nat \X StorageShards), expected : SUBSET (Nat \X Nat \X Nat),
            received : SUBSET Seqnums, entries : SUBSET Seqnums,
            blocking : SUBSET Queries, pending : SUBSET Queries, results : SUBSET Results]
Reads   == [status : {"new", "ongoing", "done"}, dir : Directions \cup {"next"},
            tag : QueryTags \cup {EmptyTag}, seqnum : Nat, seen : SUBSET Seqnums,
            asked : SUBSET IndexNodeIds,
            result : {None, "READ_OK", "EMPTY", "DATA_LOST"}, found : 0 .. Len(log)]

CutShards(p)  == {Entry(s).shard : s \in Cut(p)}
Indexed(i, p) == {s \in Seqnums : OwnsPosition(i, Entry(s).pos) /\ Entry(s).pos <= p}

\* What an index shard holds of the log: all of its cuts up to the position it has
\* indexed, and of later ones what the storage shards that contributed had.
ShardOK(i, ix) ==
    /\ ix \in Shards
    /\ ix.indexed % NumShards = ShardOf(i)
    /\ ix.entries = Indexed(i, ix.indexed)
    /\ \A s \in ix.received : OwnsPosition(i, Entry(s).pos) /\ Entry(s).pos > ix.indexed
    /\ \A u \in ix.updates :
         /\ u[2] \in CutShards(u[1])
         /\ \A s \in Cut(u[1]) : Entry(s).shard = u[2] => s \in ix.received
    /\ \A x \in ix.expected :
         x[2] = Cardinality(CutShards(x[1])) /\ x[3] = EndSeqnum(x[1])

\* A query, or a read, asks for entry s, and s is not closer than the answer f.
InRange(q, s) ==
    Matches(s, q.tag) /\ IF q.dir = "prev" THEN s <= q.seqnum ELSE s >= q.seqnum
NotCloser(q, f, s) == IF q.dir = "prev" THEN s <= f ELSE s >= f

\* A query carries what the engine has written down for the read, and a position
\* that covers what the call had seen.
OfRead(q) ==
    /\ reads[q.id].status # "new"
    /\ q.dir = reads[q.id].dir /\ q.tag = reads[q.id].tag /\ q.seqnum = reads[q.id].seqnum
    /\ \A s \in reads[q.id].seen : s \in Seqnums /\ Entry(s).pos <= q.progress

\* The entry of a result is one of those that are asked for; the position that goes
\* with it covers it.
FoundOK(r) ==
    IsFound(r) => InRange(r.query, r.found) /\ Entry(r.found).pos <= r.progress

\* Nothing that index node i has to know of is closer than the result.
Covers(i, r) ==
    \A s \in reads[r.query.id].seen :
        OwnsPosition(i, Entry(s).pos) /\ InRange(r.query, s) =>
            IsFound(r) /\ NotCloser(r.query, r.found, s)

ResultOK(i, r) ==
    /\ r \in Results /\ OfRead(r.query)
    /\ FoundOK(r) /\ Covers(i, r)
    /\ IsFound(r) => OwnsPosition(i, Entry(r.found).pos)

QueriesOK(i, ix) ==
    /\ \A q \in ix.pending \cup ix.blocking : OfRead(q)
    /\ \A q \in ix.blocking : q.progress <= ix.indexed
    /\ \A r \in ix.results : ResultOK(i, r)

MergedOK(readOp, id) ==
    readOp.nodes # {} =>
        LET r == readOp.result IN
        /\ r \in Results /\ r.query.id = id /\ OfRead(r.query)
        /\ FoundOK(r) /\ \A i \in readOp.nodes : Covers(i, r)
        /\ IsFound(r) => \E i \in readOp.nodes : OwnsPosition(i, Entry(r.found).pos)

\* Entry s, with a position that covers it, answers the read: nothing the call
\* had seen is closer if each index shard was asked.
EntryAnswers(id, s, progress) ==
    /\ id \in ReadIds /\ reads[id].status # "new"
    /\ s \in Seqnums /\ InRange(reads[id], s)
    /\ progress \in Nat /\ Entry(s).pos <= progress
    /\ EachShardAsked(id) =>
         \A t \in reads[id].seen : InRange(reads[id], t) => NotCloser(reads[id], s, t)

NothingAnswers(id) ==
    /\ id \in ReadIds /\ reads[id].status # "new"
    /\ EachShardAsked(id) => \A t \in reads[id].seen : ~InRange(reads[id], t)

MessageOK(m) ==
    /\ m.op \in {"INDEX_DATA", "READ", "INDEX_RESULT", "READ_AT", "RESPONSE"}
    /\ m.op = "INDEX_DATA" => m.to \in IndexNodeIds
    /\ m.op = "READ" => m.to \in IndexNodeIds /\ m.query \in Queries /\ OfRead(m.query)
    /\ m.op = "INDEX_RESULT" =>
         m.from \in IndexNodeIds /\ m.to \in Mergers /\ ResultOK(m.from, m.result)
    /\ m.op = "READ_AT" => EntryAnswers(m.id, m.seqnum, m.progress)
    /\ m.op = "RESPONSE" =>
         /\ m.result \in {"READ_OK", "EMPTY", "DATA_LOST"}
         /\ m.id \in ReadIds /\ reads[m.id].status # "new"
         /\ m.result = "READ_OK" => EntryAnswers(m.id, m.seqnum, m.progress)
         /\ m.result # "READ_OK" => m.seqnum = Invalid /\ m.progress = 0
         /\ m.result = "EMPTY" => NothingAnswers(m.id)

\* What stands for the request of read id to index node i, wherever it has got to:
\* at the index, or elsewhere.
Single(S) == \A t, u \in S : t = u

AtIndex(i, ix, id) ==
    {<<"pending", q>> : q \in {p \in ix.pending : p.id = id}}
    \cup {<<"blocking", q>> : q \in {p \in ix.blocking : p.id = id}}
    \cup {<<"polled", [node |-> i, result |-> r]>> : r \in {p \in ix.results : p.query.id = id}}

Carried(i, id) ==
    {<<"asked", m>> : m \in {k \in msgs : k.op = "READ" /\ k.to = i /\ k.query.id = id}}
    \cup {<<"polled", x>> : x \in {y \in polled : y.node = i /\ y.result.query.id = id}}
    \cup {<<"sent", m>> :
            m \in {k \in msgs : k.op = "INDEX_RESULT" /\ k.from = i /\ k.result.query.id = id}}

MergedAt(i, id) == {<<"merged", g>> : g \in {h \in Mergers : i \in ongoing[h][id].nodes}}

Tokens(i, id) == AtIndex(i, index[i], id) \cup Carried(i, id) \cup MergedAt(i, id)
Asked(id)     == {i \in IndexNodeIds : Tokens(i, id) # {}}

TokenInv(id) ==
    /\ \A i \in IndexNodeIds : Single(Tokens(i, id))
    /\ Asked(id) \subseteq reads[id].asked
    /\ reads[id].status = "new" => Asked(id) = {}

Answered(id) == reads[id].result \in {"READ_OK", "EMPTY"}

\* An answer that went ahead of the merge was a point hit, and the merge will see it.
PointHitSeen(id) ==
    \/ \E m \in msgs : m.op = "INDEX_RESULT" /\ m.result.query.id = id /\ IsPointHit(m.result)
    \/ \E g \in Mergers : ongoing[g][id].nodes # {} /\ IsPointHit(ongoing[g][id].result)

\* Of a read for which each index shard was asked.
OneAnswerOf(id) ==
    /\ Single(AnswersUnderWay(id))
    /\ \A r \in storageReads : r.id = id => r \notin msgs
    /\ Answered(id) => AnswersUnderWay(id) = {}
    /\ AnswersUnderWay(id) # {} \/ Answered(id) => Asked(id) = {} \/ PointHitSeen(id)
    /\ reads[id].status = "new" => AnswersUnderWay(id) = {}

AnswerInv(id) == EachShardAsked(id) => OneAnswerOf(id)

ReadOK(id) ==
    /\ reads[id] \in Reads
    /\ reads[id].status # "done" => reads[id].result = None
    /\ reads[id].status = "new" => reads[id].asked = {}
    /\ reads[id].result = "READ_OK" => EntryAnswers(id, reads[id].found, LastPosition)
    /\ reads[id].result = "EMPTY" => NothingAnswers(id)

SessionOK ==
    /\ session \in [progress : Nat, seen : SUBSET Seqnums]
    /\ \A s \in session.seen : Entry(s).pos <= session.progress

ReadOps == [nodes : SUBSET IndexNodeIds, result : Results \cup {None}]

IndexOK(i, ix) == ShardOK(i, ix) /\ QueriesOK(i, ix)

IndexInv ==
    /\ DOMAIN index = IndexNodeIds
    /\ \A i \in IndexNodeIds : IndexOK(i, index[i]) /\ index[i].results = {}

PolledInv == \A x \in polled : x.node \in IndexNodeIds /\ ResultOK(x.node, x.result)

OngoingInv ==
    /\ ongoing \in [Mergers -> [ReadIds -> ReadOps]]
    /\ \A g \in Mergers, id \in ReadIds : MergedOK(ongoing[g][id], id)

MessageInv == \A m \in msgs : MessageOK(m)

StorageInv ==
    \A r \in storageReads : r.op = "READ_AT" /\ EntryAnswers(r.id, r.seqnum, r.progress)

ReadInv == DOMAIN reads = ReadIds /\ \A id \in ReadIds : ReadOK(id)

DataInv ==
    /\ log \in Logs /\ merger \in {"master-slave", "aggregator"}
    /\ IndexInv /\ PolledInv /\ OngoingInv /\ MessageInv /\ StorageInv /\ ReadInv /\ SessionOK

IndInv == DataInv /\ \A id \in ReadIds : TokenInv(id) /\ AnswerInv(id)
-----------------------------------------------------------------------------
(* Positions modulo the number of shards. *)

\* Remainders are small.
LEMMA ModFacts ==
    ASSUME NEW a \in Nat
    PROVE  a % NumShards \in 0 .. NumShards - 1 /\ a % NumShards <= a
<1>1. NumShards \in Nat /\ NumShards > 0
  BY PlanAssumption
<1> QED
  BY <1>1

\* A number is its remainder and a multiple of what it is divided by.
LEMMA Division ==
    ASSUME NEW a \in Nat, NEW N \in Nat, N > 0
    PROVE  \E j \in Int : a = N * j + (a % N)
  OBVIOUS

\* A round later the same shard has its turn.
LEMMA ModAdd ==
    ASSUME NEW a \in Nat
    PROVE  (a + NumShards) % NumShards = a % NumShards
<1>1. NumShards \in Nat /\ NumShards > 0
  BY PlanAssumption
<1>2. PICK N \in Nat : N = NumShards /\ N > 0
  BY <1>1
<1>3. PICK b \in Nat : b = a + N
  BY <1>2
<1>4. PICK j \in Int, k \in Int : a = N * j + (a % N) /\ b = N * k + (b % N)
  BY <1>2, Division
<1>5. PICK r \in 0 .. N - 1, t \in 0 .. N - 1 : r = a % N /\ t = b % N
  BY <1>2
<1>6. N * (j + 1 - k) = t - r /\ t - r < N /\ t - r > -N
  BY <1>2, <1>3, <1>4, <1>5
<1>7. j + 1 - k = 0
  BY <1>2, <1>6
<1> QED
  BY <1>2, <1>3, <1>5, <1>6, <1>7

\* And not before.
LEMMA ModNext ==
    ASSUME NEW a \in Nat, NEW b \in Nat, a % NumShards = b % NumShards, a < b
    PROVE  a + NumShards <= b
<1>1. PICK N \in Nat : N = NumShards /\ N > 0
  BY PlanAssumption
<1>2. a % N = b % N
  BY <1>1
<1>3. PICK j \in Int, k \in Int : a = N * j + (a % N) /\ b = N * k + (b % N)
  BY <1>1, Division, ZenonT(60)
<1>4. j < k
  BY <1>1, <1>2, <1>3
<1>5. N * (k - j) >= N
  BY <1>1, <1>4
<1> QED
  BY <1>1, <1>2, <1>3, <1>5
-----------------------------------------------------------------------------
(* The log. *)

\* A non-empty set of natural numbers has a least element.
LEMMA NatMin ==
    ASSUME NEW S \in SUBSET Nat, S # {}
    PROVE  \E s \in S : \A x \in S : s <= x
<1> DEFINE R == {ss \in Nat \X Nat : ss[1] < ss[2]}
<1>1. IsWellFoundedOn(R, Nat)
  BY NatLessThanWellFounded DEF OpToRel
<1> HIDE DEF R
<1>2. PICK s \in S : \A x \in S : ~(<<x, s>> \in R)
  BY <1>1, WFMin
<1>3. \A x \in S : ~(x < s)
  BY <1>2 DEF R
<1> QED
  BY <1>3

\* The log as IndexTierAssumption has it, by seqnum.
LEMMA LogFacts ==
    ASSUME log \in Logs
    PROVE  /\ Len(log) \in Nat /\ Len(log) > 0
           /\ Seqnums = 0 .. Len(log) - 1 /\ Invalid = Len(log)
           /\ \A s \in Seqnums :
                /\ Entry(s).pos \in Nat /\ Entry(s).pos > 0 /\ Entry(s).pos <= LastPosition
                /\ Entry(s).shard \in StorageShards
           /\ \A s, t \in Seqnums : s <= t => Entry(s).pos <= Entry(t).pos
           /\ OwnEntries \subseteq Seqnums
           /\ LastPosition \in Nat
<1>1. /\ log \in Seq([pos : Nat \ {0}, shard : StorageShards, tag : Nat]) /\ log # << >>
      /\ \A j, k \in 1 .. Len(log) : j <= k => log[j].pos <= log[k].pos
      /\ OwnEntries \subseteq 0 .. Len(log) - 1
  BY IndexTierAssumption
<1>2. Len(log) \in Nat /\ Len(log) > 0 /\ DOMAIN log = 1 .. Len(log)
  BY <1>1
<1>3. \A j \in 1 .. Len(log) : log[j] \in [pos : Nat \ {0}, shard : StorageShards, tag : Nat]
  BY <1>1, <1>2, ElementOfSeq
<1>4. \A s \in Seqnums : s + 1 \in 1 .. Len(log) /\ Entry(s) = log[s + 1]
  BY <1>2 DEF Seqnums, Entry
<1>5. LastPosition = log[Len(log)].pos
  BY <1>2 DEF LastPosition, Entry
<1>6. \A s, t \in Seqnums : s <= t => Entry(s).pos <= Entry(t).pos
  BY <1>1, <1>2, <1>4, SMTT(60) DEF Seqnums
<1>7. \A s \in Seqnums : Entry(s).pos <= LastPosition
  BY <1>1, <1>2, <1>4, <1>5
<1>8. LastPosition \in Nat
  BY <1>2, <1>3, <1>5
<1>9. \A s \in Seqnums :
        Entry(s).pos \in Nat /\ Entry(s).pos > 0 /\ Entry(s).shard \in StorageShards
  BY <1>3, <1>4
<1> QED
  BY <1>1, <1>2, <1>6, <1>7, <1>8, <1>9 DEF Seqnums, Invalid

\* The cuts up to p are the entries below EndSeqnum(p).
LEMMA EndFacts ==
    ASSUME log \in Logs, NEW p \in Nat
    PROVE  /\ EndSeqnum(p) \in Nat
           /\ \A s \in Seqnums : s < EndSeqnum(p) <=> Entry(s).pos <= p
<1> DEFINE S == {q \in Seqnums : Entry(q).pos <= p}
           Out == {n \in 0 .. Len(log) : n \notin S}
<1>1. Len(log) \in Out /\ Out \in SUBSET Nat
  BY LogFacts
<1>2. PICK k \in Out : \A x \in Out : k <= x
  <2> HIDE DEF Out
  <2> QED BY <1>1, NatMin
<1>3. ASSUME NEW s \in Seqnums PROVE s \in S <=> s < k
  <2>1. CASE s < k
    BY <1>2, <2>1, LogFacts
  <2>2. CASE s >= k
    <3>1. k \in Seqnums /\ k \notin S /\ s \in Nat
      BY <1>2, <2>2, LogFacts
    <3>2. ~(Entry(k).pos <= p) /\ Entry(k).pos <= Entry(s).pos
      BY <2>2, <3>1, LogFacts
    <3>3. Entry(k).pos \in Nat /\ Entry(s).pos \in Nat
      BY <3>1, LogFacts
    <3> QED
      BY <2>2, <3>1, <3>2, <3>3, LogFacts
  <2> QED
    BY <1>2, <2>1, <2>2, LogFacts
<1>4. S = 0 .. k - 1
  <2> HIDE DEF S
  <2>1. S \subseteq Seqnums
    BY DEF S
  <2>2. k \in Nat /\ k <= Len(log) /\ Seqnums = 0 .. Len(log) - 1 /\ Len(log) \in Nat
    BY <1>2, LogFacts
  <2>3. \A s : s \in S => s \in 0 .. k - 1
    BY <1>3, <2>1, <2>2
  <2>4. \A s \in 0 .. k - 1 : s \in S
    BY <1>3, <2>2
  <2> QED
    BY <2>3, <2>4
<1>5. Cardinality(0 .. k - 1) = k
  BY <1>2, FS_Interval
<1>6. EndSeqnum(p) = k
  BY <1>4, <1>5 DEF EndSeqnum
<1> QED
  BY <1>2, <1>3, <1>6

\* A cut has finitely many storage shards.
LEMMA CutShardsFinite ==
    ASSUME log \in Logs, NEW p
    PROVE  IsFiniteSet(CutShards(p)) /\ Cardinality(CutShards(p)) \in Nat
<1>1. IsFiniteSet(Seqnums)
  BY LogFacts, FS_Interval
<1>2. IsFiniteSet(Cut(p))
  BY <1>1, FS_Subset DEF Cut
<1> DEFINE f == [s \in Cut(p) |-> Entry(s).shard]
<1>3. f \in Surjection(Cut(p), CutShards(p))
  BY DEF Surjection, CutShards
<1>4. IsFiniteSet(CutShards(p))
  BY <1>2, <1>3, FS_Surjection
<1> QED
  BY <1>4, FS_CardinalityType
-----------------------------------------------------------------------------
(* Index shards hold their part of the log. *)

\* Of the positions between two turns a shard has the first.
LEMMA OwnedNext ==
    ASSUME NEW i \in Nat, NEW n \in Nat, n % NumShards = ShardOf(i),
           NEW p \in Nat, OwnsPosition(i, p), n < p, p <= n + NumShards
    PROVE  p = n + 1
<1>1. NumShards \in Nat /\ p - 1 \in Nat /\ (p - 1) % NumShards = n % NumShards
  BY PlanAssumption DEF OwnsPosition
<1>2. CASE n < p - 1
  <2>1. n + NumShards <= p - 1
    BY <1>1, <1>2, ModNext
  <2> QED
    BY <1>1, <2>1
<1> QED
  BY <1>1, <1>2

\* The last position of a shard up to n is a turn before n.
LEMMA OwnedLast ==
    ASSUME NEW i \in Nat, NEW n \in Nat, n % NumShards = ShardOf(i),
           NEW p \in Nat, p > 0, OwnsPosition(i, p), p <= n
    PROVE  p <= n - (NumShards - 1)
<1>1. NumShards \in Nat /\ p - 1 \in Nat /\ (p - 1) % NumShards = n % NumShards
  BY PlanAssumption DEF OwnsPosition
<1>2. PICK a \in Nat : a = p - 1
  BY <1>1
<1>3. a < n /\ a % NumShards = n % NumShards
  BY <1>1, <1>2
<1>4. a + NumShards <= n
  BY <1>3, ModNext
<1> QED
  BY <1>1, <1>2, <1>4

\* A package is the part of its cut that the storage node has.
LEMMA PackageFacts ==
    ASSUME log \in Logs, NEW n, NEW p
    PROVE  LET d == Package(n, p) IN
           /\ d.pos = p /\ d.entries \subseteq Cut(p) /\ d.mine \subseteq CutShards(p)
           /\ d.num = Cardinality(CutShards(p)) /\ d.end = EndSeqnum(p)
           /\ \A s \in Cut(p) : Entry(s).shard \in d.mine => s \in d.entries
           /\ CutShards(p) \subseteq StorageShards /\ Cut(p) \subseteq Seqnums
<1>1. CutShards(p) \subseteq StorageShards /\ Cut(p) \subseteq Seqnums
  BY LogFacts DEF CutShards, Cut
<1> QED
  BY <1>1 DEF Package, CutShards

\* New data are kept with the storage shards that they come from.
LEMMA ProvideOK ==
    ASSUME log \in Logs, NEW i \in Nat, NEW ix, ShardOK(i, ix), NEW n, NEW p \in Nat,
           OwnsPosition(i, p), IsNewIndexData(ix, Package(n, p))
    PROVE  ShardOK(i, ProvideIndexData(ix, Package(n, p)))
<1> DEFINE d == Package(n, p)
           x == ProvideIndexData(ix, d)
<1>1. /\ d.pos = p /\ d.entries \subseteq Cut(p) /\ d.mine \subseteq CutShards(p)
      /\ d.num = Cardinality(CutShards(p)) /\ d.end = EndSeqnum(p)
      /\ \A s \in Cut(p) : Entry(s).shard \in d.mine => s \in d.entries
      /\ CutShards(p) \subseteq StorageShards /\ Cut(p) \subseteq Seqnums
  BY PackageFacts
<1>2. d.num \in Nat /\ d.end \in Nat
  BY <1>1, CutShardsFinite, EndFacts
<1>3. p > ix.indexed
  BY <1>1 DEF IsNewIndexData
<1> HIDE DEF d
<1>4. /\ x.indexed = ix.indexed /\ x.entries = ix.entries
      /\ x.received = ix.received \cup d.entries
      /\ x.updates = ix.updates \cup {<<p, s>> : s \in d.mine}
      /\ x.expected = ix.expected \cup {<<p, d.num, d.end>>}
      /\ x.pending = ix.pending /\ x.blocking = ix.blocking /\ x.results = ix.results
  BY <1>1 DEF ProvideIndexData, ShardOK, Shards
<1>5. x \in Shards
  <2>1. {<<p, s>> : s \in d.mine} \subseteq Nat \X StorageShards
    BY <1>1
  <2>2. <<p, d.num, d.end>> \in Nat \X Nat \X Nat
    BY <1>2
  <2>3. ix \in Shards
    BY DEF ShardOK
  <2>4. /\ x.updates \in SUBSET (Nat \X StorageShards)
        /\ x.expected \in SUBSET (Nat \X Nat \X Nat)
        /\ x.received \in SUBSET Seqnums
    BY <1>1, <1>4, <2>1, <2>2, <2>3 DEF Shards
  <2>5. x = [ix EXCEPT !.received = x.received, !.updates = x.updates, !.expected = x.expected]
    BY <1>4, <2>3 DEF ProvideIndexData, Shards
  <2> HIDE DEF x
  <2> QED
    BY <2>3, <2>4, <2>5 DEF Shards
<1> HIDE DEF x
<1>6. \A s \in d.entries : Entry(s).pos = p
  BY <1>1 DEF Cut
<1>7. \A s \in x.received : OwnsPosition(i, Entry(s).pos) /\ Entry(s).pos > x.indexed
  BY <1>3, <1>4, <1>6 DEF ShardOK
<1>8. ASSUME NEW u \in x.updates
      PROVE  /\ u[2] \in CutShards(u[1])
             /\ \A s \in Cut(u[1]) : Entry(s).shard = u[2] => s \in x.received
  <2>1. CASE u \in ix.updates
    BY <1>4, <2>1 DEF ShardOK
  <2>2. ASSUME NEW s \in d.mine, u = <<p, s>>
        PROVE  u[1] = p /\ u[2] \in d.mine
    BY <2>2
  <2>3. CASE u[1] = p /\ u[2] \in d.mine
    BY <1>1, <1>4, <2>3
  <2> QED
    BY <1>4, <2>1, <2>2, <2>3
<1>9. \A y \in x.expected : y[2] = Cardinality(CutShards(y[1])) /\ y[3] = EndSeqnum(y[1])
  BY <1>1, <1>4 DEF ShardOK
<1>10. x.indexed % NumShards = ShardOf(i) /\ x.entries = Indexed(i, x.indexed)
  BY <1>4 DEF ShardOK
<1>11. ShardOK(i, x)
  BY <1>5, <1>7, <1>8, <1>9, <1>10 DEF ShardOK
<1> QED
  BY <1>11 DEF x, d

\* When all storage shards of the next cut have contributed, its entries are there.
LEMMA AllReceived ==
    ASSUME log \in Logs, NEW i \in Nat, NEW ix, ShardOK(i, ix),
           NEW x \in ix.expected, Cardinality(ShardsReceived(ix, x[1])) = x[2]
    PROVE  Cut(x[1]) \subseteq ix.received
<1> DEFINE p == x[1]
           R == ShardsReceived(ix, p)
<1>1. \A s \in R : s \in CutShards(p) /\ \A t \in Cut(p) : Entry(t).shard = s => t \in ix.received
  BY DEF ShardsReceived, ShardOK
<1>2. Cardinality(R) = Cardinality(CutShards(p))
  BY DEF ShardOK
<1> HIDE DEF R
<1>3. R = CutShards(p)
  <2>1. R \in SUBSET CutShards(p)
    BY <1>1
  <2>2. IsFiniteSet(CutShards(p))
    BY CutShardsFinite
  <2> QED
    BY <1>2, <2>1, <2>2, FS_Subset
<1> QED
  BY <1>1, <1>3 DEF CutShards

\* A completed cut moves to the index as a whole, and nothing else does.
LEMMA CompleteOK ==
    ASSUME log \in Logs, NEW i \in Nat, NEW ix, ShardOK(i, ix), NextPositionComplete(ix)
    PROVE  LET x == TryCompleteIndexUpdates(ix) IN
           /\ ShardOK(i, x)
           /\ x.indexed >= ix.indexed
           /\ x.pending = ix.pending /\ x.blocking = ix.blocking /\ x.results = ix.results
<1> DEFINE y == CHOOSE z \in ix.expected : z[1] = ix.indexed + 1
           complete == {q \in ix.received : q < y[3]}
           x == TryCompleteIndexUpdates(ix)
           n == ix.indexed
<1>1. ix \in Shards /\ n \in Nat /\ NumShards \in Nat /\ NumShards > 0
  BY PlanAssumption DEF ShardOK, Shards
<1>2. y \in ix.expected /\ y[1] = n + 1
  BY DEF NextPositionComplete
<1>3. y[3] = EndSeqnum(n + 1) /\ y[2] = Cardinality(CutShards(n + 1))
  BY <1>2 DEF ShardOK
<1>4. Cut(n + 1) \subseteq ix.received
  <2>1. PICK z \in ix.expected : z[1] = n + 1 /\ Cardinality(ShardsReceived(ix, z[1])) = z[2]
    BY DEF NextPositionComplete
  <2> QED
    BY <2>1, AllReceived
<1> HIDE DEF y
<1>5. \A s \in ix.received :
        /\ s \in Seqnums /\ Entry(s).pos \in Nat
        /\ OwnsPosition(i, Entry(s).pos) /\ Entry(s).pos > n
  BY <1>1, LogFacts DEF ShardOK, Shards
<1>6. complete = Cut(n + 1)
  <2>1. ASSUME NEW s \in ix.received, s < y[3] PROVE s \in Cut(n + 1)
    <3>1. Entry(s).pos <= n + 1
      BY <1>1, <1>3, <1>5, <2>1, EndFacts
    <3> QED
      BY <1>1, <1>5, <3>1 DEF Cut
  <2>2. ASSUME NEW s \in Cut(n + 1) PROVE s \in ix.received /\ s < y[3]
    <3>1. s \in Seqnums /\ Entry(s).pos <= n + 1
      BY <1>1 DEF Cut
    <3> QED
      BY <1>1, <1>3, <1>4, <3>1, EndFacts
  <2> QED
    BY <2>1, <2>2
<1>7. /\ x.indexed = n + NumShards
      /\ x.entries = ix.entries \cup complete /\ x.received = ix.received \ complete
      /\ x.updates = {u \in ix.updates : u[1] # y[1]} /\ x.expected = ix.expected \ {y}
      /\ x.pending = ix.pending /\ x.blocking = ix.blocking /\ x.results = ix.results
  BY <1>1 DEF TryCompleteIndexUpdates, Shards, y
<1> HIDE DEF complete
<1>8. x \in Shards
  <2>1. complete \subseteq Seqnums
    BY <1>5 DEF complete
  <2>2. /\ x.indexed \in Nat /\ x.entries \in SUBSET Seqnums /\ x.received \in SUBSET Seqnums
        /\ x.updates \in SUBSET (Nat \X StorageShards)
        /\ x.expected \in SUBSET (Nat \X Nat \X Nat)
    BY <1>1, <1>7, <2>1 DEF Shards
  <2>3. x = [ix EXCEPT !.indexed = x.indexed, !.expected = x.expected, !.updates = x.updates,
                       !.entries = x.entries, !.received = x.received]
    BY <1>1, <1>7 DEF TryCompleteIndexUpdates, Shards, y, complete
  <2> HIDE DEF x
  <2> QED
    BY <1>1, <2>2, <2>3 DEF Shards
<1> HIDE DEF x
<1>9. x.indexed % NumShards = ShardOf(i)
  BY <1>1, <1>7, ModAdd DEF ShardOK
<1>10. x.entries = Indexed(i, x.indexed)
  <2>1. ix.entries = Indexed(i, n) /\ n % NumShards = ShardOf(i)
    BY DEF ShardOK
  <2>2. ASSUME NEW s \in Seqnums, OwnsPosition(i, Entry(s).pos), Entry(s).pos <= n + NumShards
        PROVE  s \in ix.entries \/ s \in Cut(n + 1)
    <3>1. Entry(s).pos \in Nat
      BY LogFacts
    <3>2. CASE Entry(s).pos <= n
      BY <2>1, <2>2, <3>2 DEF Indexed
    <3>3. CASE n < Entry(s).pos
      <4>1. Entry(s).pos = n + 1
        BY <1>1, <2>1, <2>2, <3>1, <3>3, OwnedNext
      <4> QED
        BY <4>1 DEF Cut
    <3> QED
      BY <1>1, <3>1, <3>2, <3>3
  <2>3. ASSUME NEW s \in ix.entries
        PROVE  s \in Seqnums /\ OwnsPosition(i, Entry(s).pos) /\ Entry(s).pos <= n + NumShards
    <3>1. s \in Seqnums /\ OwnsPosition(i, Entry(s).pos) /\ Entry(s).pos <= n
      BY <2>1 DEF Indexed
    <3>2. Entry(s).pos \in Nat
      BY <3>1, LogFacts
    <3> QED
      BY <1>1, <3>1, <3>2
  <2>4. ASSUME NEW s \in Cut(n + 1)
        PROVE  s \in Seqnums /\ OwnsPosition(i, Entry(s).pos) /\ Entry(s).pos <= n + NumShards
    <3>1. s \in Seqnums /\ Entry(s).pos = n + 1
      BY DEF Cut
    <3> QED
      BY <1>1, <1>4, <1>5, <3>1
  <2> QED
    BY <1>6, <1>7, <2>2, <2>3, <2>4 DEF Indexed
<1>11. ASSUME NEW s \in x.received
       PROVE  OwnsPosition(i, Entry(s).pos) /\ Entry(s).pos > x.indexed
  <2>1. s \in ix.received /\ s \notin Cut(n + 1) /\ s \in Seqnums
    BY <1>5, <1>6, <1>7
  <2>2. Entry(s).pos # n + 1
    BY <2>1 DEF Cut
  <2>3. Entry(s).pos \in Nat /\ OwnsPosition(i, Entry(s).pos) /\ Entry(s).pos > n
    BY <1>5, <2>1
  <2>4. ~(Entry(s).pos <= n + NumShards)
    BY <1>1, <2>2, <2>3, OwnedNext DEF ShardOK
  <2> QED
    BY <1>1, <1>7, <2>3, <2>4
<1>12. ASSUME NEW u \in x.updates
       PROVE  /\ u[2] \in CutShards(u[1])
              /\ \A s \in Cut(u[1]) : Entry(s).shard = u[2] => s \in x.received
  <2>1. u \in ix.updates /\ u[1] # n + 1
    BY <1>2, <1>7
  <2>2. \A s \in Cut(u[1]) : s \notin Cut(n + 1)
    BY <2>1 DEF Cut
  <2>3. /\ u[2] \in CutShards(u[1])
        /\ \A s \in Cut(u[1]) : Entry(s).shard = u[2] => s \in ix.received
    BY <2>1 DEF ShardOK
  <2> QED
    BY <1>6, <1>7, <2>2, <2>3
<1>13. \A z \in x.expected : z[2] = Cardinality(CutShards(z[1])) /\ z[3] = EndSeqnum(z[1])
  BY <1>7 DEF ShardOK
<1>14. ShardOK(i, x)
  BY <1>8, <1>9, <1>10, <1>11, <1>12, <1>13 DEF ShardOK
<1>15. x.indexed >= ix.indexed
  BY <1>1, <1>7
<1> QED
  BY <1>7, <1>14, <1>15 DEF x

\* Queries come and go without touching the entries.
LEMMA QueriesApart ==
    ASSUME NEW i, NEW ix, ShardOK(i, ix), NEW x \in Shards,
           x.indexed = ix.indexed, x.entries = ix.entries, x.updates = ix.updates,
           x.received = ix.received, x.expected = ix.expected
    PROVE  ShardOK(i, x)
  BY DEF ShardOK

-----------------------------------------------------------------------------
(* Queries at an index shard. *)

\* A non-empty set of natural numbers with a bound has a greatest element.
LEMMA NatMax ==
    ASSUME NEW n \in Nat, NEW S \in SUBSET (0 .. n), S # {}
    PROVE  \E s \in S : \A x \in S : s >= x
<1> DEFINE T == {n - s : s \in S}
<1>1. T \in SUBSET Nat /\ T # {}
  <2>1. \A s \in S : n - s \in Nat
    OBVIOUS
  <2> QED
    BY <2>1
<1> HIDE DEF T
<1>2. PICK t \in T : \A x \in T : t <= x
  BY <1>1, NatMin
<1>3. PICK s \in S : t = n - s
  BY <1>2 DEF T
<1>4. \A x \in S : n - s <= n - x
  BY <1>2, <1>3 DEF T
<1> QED
  BY <1>4

\* A search finds the closest entry of the index that is asked for, if there is one.
LEMMA FindFacts ==
    ASSUME log \in Logs, NEW ix, ix.entries \in SUBSET Seqnums, NEW q \in Queries
    PROVE  LET F == {s \in ix.entries : InRange(q, s)}
               f == Find(ix, q)
           IN  /\ f \in 0 .. Len(log)
               /\ F = {} <=> f = Invalid
               /\ F # {} => f \in F /\ \A s \in F : NotCloser(q, f, s)
<1> DEFINE F == {s \in ix.entries : InRange(q, s)}
           f == Find(ix, q)
<1>1. F \in SUBSET Seqnums /\ Seqnums = 0 .. Len(log) - 1 /\ Len(log) \in Nat /\ Invalid = Len(log)
  BY LogFacts
<1>2. q.dir = "prev" => f = IF F = {} THEN Invalid ELSE Max(F)
  <2> SUFFICES ASSUME q.dir = "prev" PROVE f = IF F = {} THEN Invalid ELSE Max(F)
    OBVIOUS
  <2>1. F = {s \in ix.entries : Matches(s, q.tag) /\ s <= q.seqnum}
    BY DEF InRange
  <2> HIDE DEF F
  <2> QED
    BY <2>1 DEF Find, FindPrev
<1>3. q.dir # "prev" => f = IF F = {} THEN Invalid ELSE Min(F)
  <2> SUFFICES ASSUME q.dir # "prev" PROVE f = IF F = {} THEN Invalid ELSE Min(F)
    OBVIOUS
  <2>1. F = {s \in ix.entries : Matches(s, q.tag) /\ s >= q.seqnum}
    BY DEF InRange
  <2> HIDE DEF F
  <2> QED
    BY <2>1 DEF Find, FindNext
<1> HIDE DEF F, f
<1>4. CASE F = {}
  BY <1>1, <1>2, <1>3, <1>4 DEF F, f
<1>5. CASE F # {} /\ q.dir = "prev"
  <2>1. F \in SUBSET (0 .. Len(log)) /\ F \in SUBSET Nat
    BY <1>1
  <2>2. \E s \in F : \A x \in F : s >= x
    BY <1>1, <1>5, <2>1, NatMax
  <2>3. Max(F) \in F /\ \A x \in F : Max(F) >= x
    BY <2>2 DEF Max
  <2>4. f \in F /\ \A x \in F : x <= f
    BY <1>2, <1>5, <2>1, <2>3
  <2>5. f \in 0 .. Len(log) /\ f # Invalid
    BY <1>1, <2>4
  <2> QED
    BY <1>5, <2>4, <2>5 DEF NotCloser, F, f
<1>6. CASE F # {} /\ q.dir # "prev"
  <2>1. F \in SUBSET Nat
    BY <1>1
  <2>2. \E s \in F : \A x \in F : s <= x
    BY <1>6, <2>1, NatMin
  <2>3. Min(F) \in F /\ \A x \in F : Min(F) <= x
    BY <2>2 DEF Min
  <2>4. f \in F /\ \A x \in F : x >= f
    BY <1>3, <1>6, <2>1, <2>3
  <2>5. f \in 0 .. Len(log) /\ f # Invalid
    BY <1>1, <2>4
  <2> QED
    BY <1>6, <2>4, <2>5 DEF NotCloser, F, f
<1> QED
  BY <1>4, <1>5, <1>6

\* The progress that goes with a result covers the entries of the index.
LEMMA ProgressFacts ==
    ASSUME log \in Logs, NEW i \in Nat, NEW ix, ShardOK(i, ix)
    PROVE  /\ IndexMetalogProgress(ix) \in Nat
           /\ \A s \in ix.entries : Entry(s).pos <= IndexMetalogProgress(ix)
<1> DEFINE m == ix.indexed - (NumShards - 1)
           x == IndexMetalogProgress(ix)
<1>1. ix.indexed \in Nat /\ NumShards \in Nat /\ m \in Int
  BY PlanAssumption DEF ShardOK, Shards
<1> HIDE DEF m
<1>2. \E y \in {0, m} : \A z \in {0, m} : y >= z
  BY <1>1
<1>3. x \in {0, m} /\ \A z \in {0, m} : x >= z
  BY <1>2 DEF IndexMetalogProgress, Max, m
<1> HIDE DEF x
<1>4. x \in Nat /\ x >= m
  BY <1>1, <1>3
<1>5. ASSUME NEW s \in ix.entries PROVE Entry(s).pos <= x
  <2>1. s \in Seqnums /\ OwnsPosition(i, Entry(s).pos) /\ Entry(s).pos <= ix.indexed
    BY DEF ShardOK, Indexed
  <2>2. Entry(s).pos \in Nat /\ Entry(s).pos > 0
    BY <2>1, LogFacts
  <2>3. Entry(s).pos <= m
    BY <1>1, <2>1, <2>2, OwnedLast DEF ShardOK, m
  <2> QED
    BY <1>1, <1>4, <2>2, <2>3
<1> QED
  BY <1>4, <1>5 DEF x

\* A query is answered from an index that has its position.
LEMMA FindOK ==
    ASSUME log \in Logs, NEW i \in Nat, NEW ix, ShardOK(i, ix),
           NEW q \in Queries, OfRead(q), q.progress <= ix.indexed
    PROVE  ResultOK(i, QueryResult(ix, q, Find(ix, q)))
<1> DEFINE F == {s \in ix.entries : InRange(q, s)}
           f == Find(ix, q)
           r == QueryResult(ix, q, f)
<1>1. /\ ix.entries = Indexed(i, ix.indexed) /\ ix.entries \in SUBSET Seqnums
      /\ ix.indexed \in Nat
  BY DEF ShardOK, Shards
<1>2. /\ f \in 0 .. Len(log)
      /\ F = {} <=> f = Invalid
      /\ F # {} => f \in F /\ \A s \in F : NotCloser(q, f, s)
  BY <1>1, FindFacts
<1>3. /\ IndexMetalogProgress(ix) \in Nat
      /\ \A s \in ix.entries : Entry(s).pos <= IndexMetalogProgress(ix)
  BY ProgressFacts
<1> HIDE DEF f
<1>4. r.query = q /\ r.found = f /\ r.progress = IndexMetalogProgress(ix) /\ r \in Results
  BY <1>2, <1>3 DEF QueryResult, Results
<1> HIDE DEF r, F
<1>5. IsFound(r) <=> F # {}
  BY <1>2, <1>4 DEF IsFound
<1>6. FoundOK(r)
  BY <1>2, <1>3, <1>4, <1>5 DEF FoundOK, F
<1>7. IsFound(r) => OwnsPosition(i, Entry(r.found).pos)
  BY <1>1, <1>2, <1>4, <1>5 DEF Indexed, F
<1>8. Covers(i, r)
  <2> SUFFICES ASSUME NEW s \in reads[q.id].seen, OwnsPosition(i, Entry(s).pos), InRange(q, s)
               PROVE  IsFound(r) /\ NotCloser(q, f, s)
    BY <1>4 DEF Covers
  <2>1. s \in Seqnums /\ Entry(s).pos <= q.progress
    BY DEF OfRead
  <2>2. Entry(s).pos \in Nat /\ q.progress \in Nat
    BY <2>1, LogFacts DEF Queries
  <2>3. s \in ix.entries
    BY <1>1, <2>1, <2>2 DEF Indexed
  <2>4. s \in F
    BY <2>3 DEF F
  <2> QED
    BY <1>2, <1>5, <2>4
<1>9. ResultOK(i, r)
  BY <1>4, <1>6, <1>7, <1>8 DEF ResultOK
<1> QED
  BY <1>9 DEF r, f

\* The index has no request of read id, or one.
NoneAt(ix, id) ==
    /\ \A q \in ix.pending : q.id # id
    /\ \A q \in ix.blocking : q.id # id
    /\ \A r \in ix.results : r.query.id # id

OneAt(ix, id) ==
    /\ \A p, q \in ix.pending : p.id = id /\ q.id = id => p = q
    /\ \A p, q \in ix.blocking : p.id = id /\ q.id = id => p = q
    /\ \A p, q \in ix.results : p.query.id = id /\ q.query.id = id => p = q
    /\ \A p \in ix.pending, q \in ix.blocking : ~(p.id = id /\ q.id = id)
    /\ \A p \in ix.pending, r \in ix.results : ~(p.id = id /\ r.query.id = id)
    /\ \A p \in ix.blocking, r \in ix.results : ~(p.id = id /\ r.query.id = id)

\* What an operation of the index makes of the requests: none appears or is doubled.
Moves(ix, x) ==
    \A id \in ReadIds : (NoneAt(ix, id) => NoneAt(x, id)) /\ (OneAt(ix, id) => OneAt(x, id))

\* The same as tokens.
LEMMA TokensAtIndex ==
    ASSUME NEW i, NEW ix, NEW id
    PROVE  /\ AtIndex(i, ix, id) = {} <=> NoneAt(ix, id)
           /\ Single(AtIndex(i, ix, id)) <=> OneAt(ix, id)
<1> DEFINE P == {p \in ix.pending : p.id = id}
           B == {p \in ix.blocking : p.id = id}
           R == {p \in ix.results : p.query.id = id}
<1>1. AtIndex(i, ix, id) = {} <=> P = {} /\ B = {} /\ R = {}
  BY DEF AtIndex
<1>2. NoneAt(ix, id) <=> P = {} /\ B = {} /\ R = {}
  BY DEF NoneAt
<1>3. OneAt(ix, id) <=>
        /\ \A p, q \in P : p = q
        /\ \A p, q \in B : p = q
        /\ \A p, q \in R : p = q
        /\ P = {} \/ B = {}
        /\ P = {} \/ R = {}
        /\ B = {} \/ R = {}
  BY DEF OneAt
<1>4. /\ \A t : t \in AtIndex(i, ix, id) <=>
             \/ \E p \in P : t = <<"pending", p>>
             \/ \E p \in B : t = <<"blocking", p>>
             \/ \E p \in R : t = <<"polled", [node |-> i, result |-> p]>>
  BY DEF AtIndex
<1> HIDE DEF P, B, R
<1>5. ASSUME OneAt(ix, id) PROVE Single(AtIndex(i, ix, id))
  BY <1>3, <1>4, <1>5 DEF Single
<1>6. ASSUME Single(AtIndex(i, ix, id)) PROVE OneAt(ix, id)
  <2>1. \A t, u : t \in AtIndex(i, ix, id) /\ u \in AtIndex(i, ix, id) => t = u
    BY <1>6 DEF Single
  <2>2. /\ \A p \in P : <<"pending", p>> \in AtIndex(i, ix, id)
        /\ \A p \in B : <<"blocking", p>> \in AtIndex(i, ix, id)
        /\ \A p \in R : <<"polled", [node |-> i, result |-> p]>> \in AtIndex(i, ix, id)
    BY <1>4
  <2>3. /\ \A p, q \in P : <<"pending", p>> = <<"pending", q>>
        /\ \A p, q \in B : <<"blocking", p>> = <<"blocking", q>>
        /\ \A p, q \in R : <<"polled", [node |-> i, result |-> p]>> =
                           <<"polled", [node |-> i, result |-> q]>>
    BY <2>1, <2>2
  <2>4. /\ \A p, q \in P : p = q
        /\ \A p, q \in B : p = q
    BY <2>3
  <2>5. ASSUME NEW p \in R, NEW q \in R PROVE p = q
    <3>1. [node |-> i, result |-> p] = [node |-> i, result |-> q]
      BY <2>3
    <3>2. [node |-> i, result |-> p].result = [node |-> i, result |-> q].result
      BY <3>1
    <3> QED
      BY <3>2
  <2>6. ~\E p \in P, q \in B : TRUE
    BY <2>1, <2>2
  <2>7. ~\E p \in P, q \in R : TRUE
    BY <2>1, <2>2
  <2>8. ~\E p \in B, q \in R : TRUE
    BY <2>1, <2>2
  <2> QED
    BY <1>3, <2>4, <2>5, <2>6, <2>7, <2>8
<1> QED
  BY <1>1, <1>2, <1>5, <1>6

\* Operations follow each other.
LEMMA MovesChain ==
    ASSUME NEW a, NEW b, NEW c, Moves(a, b), Moves(b, c)
    PROVE  Moves(a, c)
  BY DEF Moves

\* Operations that leave the queries alone.
LEMMA MovesSame ==
    ASSUME NEW ix, NEW x, x.pending = ix.pending, x.blocking = ix.blocking, x.results = ix.results
    PROVE  Moves(ix, x)
  BY DEF Moves, NoneAt, OneAt

\* The answer to query q.
AnswerOf(ix, q) == QueryResult(ix, q, Find(ix, q))

\* Blocking reads end with a result or when they are expired.
LEMMA BlockingStep ==
    ASSUME log \in Logs, NEW i \in Nat, NEW ix, IndexOK(i, ix), NEW expired
    PROVE  LET x == ProcessBlockingReads(ix, expired)
           IN  IndexOK(i, x) /\ x.indexed = ix.indexed /\ Moves(ix, x)
<1> DEFINE found   == {b \in ix.blocking : Find(ix, b) # Invalid}
           emptied == {b \in ix.blocking \ found : b.id \in expired}
           gone    == found \cup emptied
           B       == ix.blocking \ gone
           R       == ix.results \cup {AnswerOf(ix, b) : b \in gone}
           x       == [ix EXCEPT !.pending = ix.pending, !.blocking = B, !.results = R]
<1>1. ix \in Shards /\ ix.pending \in SUBSET Queries /\ ix.blocking \in SUBSET Queries
  BY DEF IndexOK, ShardOK, Shards
<1>2. ProcessBlockingReads(ix, expired) = x
  <2>1. {QueryResult(ix, b, Invalid) : b \in emptied} = {AnswerOf(ix, b) : b \in emptied}
    BY DEF AnswerOf
  <2>2. R = ix.results \cup {QueryResult(ix, b, Find(ix, b)) : b \in found}
                       \cup {QueryResult(ix, b, Invalid) : b \in emptied}
    BY <2>1 DEF AnswerOf
  <2>3. ProcessBlockingReads(ix, expired) = [ix EXCEPT !.blocking = B, !.results = R]
    BY <2>2 DEF ProcessBlockingReads
  <2>4. ix = [ix EXCEPT !.pending = ix.pending]
    BY <1>1 DEF Shards
  <2> QED
    BY <2>3, <2>4
<1>3. gone \subseteq ix.blocking
  OBVIOUS
<1> HIDE DEF gone
<1>4. \A b \in gone : ResultOK(i, AnswerOf(ix, b))
  BY <1>1, <1>3, FindOK DEF IndexOK, QueriesOK, AnswerOf
<1>5. R \in SUBSET Results
  BY <1>4 DEF ResultOK, IndexOK, ShardOK, Shards
<1> HIDE DEF R, B
<1>6. /\ ShardOK(i, x) /\ x.indexed = ix.indexed
      /\ x.pending = ix.pending /\ x.blocking = B /\ x.results = R
  <2>1. B \in SUBSET Queries
    BY <1>1 DEF B
  <2>2. /\ x \in Shards
        /\ x.indexed = ix.indexed /\ x.entries = ix.entries /\ x.updates = ix.updates
        /\ x.received = ix.received /\ x.expected = ix.expected
        /\ x.pending = ix.pending /\ x.blocking = B /\ x.results = R
    BY <1>1, <1>5, <2>1 DEF Shards
  <2> HIDE DEF x
  <2> QED
    BY <2>2, QueriesApart DEF IndexOK
<1> HIDE DEF x
<1>7. QueriesOK(i, x)
  BY <1>4, <1>6 DEF IndexOK, QueriesOK, B, R
<1>8. ASSUME NEW id, NoneAt(ix, id) PROVE NoneAt(x, id)
  <2>1. \A b \in gone : AnswerOf(ix, b).query = b
    BY DEF AnswerOf, QueryResult
  <2> QED
    BY <1>3, <1>6, <1>8, <2>1 DEF NoneAt, B, R
<1>9. ASSUME NEW id, OneAt(ix, id) PROVE OneAt(x, id)
  <2>1. \A b \in gone : AnswerOf(ix, b).query = b
    BY DEF AnswerOf, QueryResult
  <2>2. \A r \in x.results : r \in ix.results \/ \E b \in gone : r = AnswerOf(ix, b)
    BY <1>6 DEF R
  <2>3. \A b \in x.blocking : b \in ix.blocking /\ b \notin gone
    BY <1>6 DEF B
  <2>4. \A p, q \in x.results : p.query.id = id /\ q.query.id = id => p = q
    BY <1>3, <1>9, <2>1, <2>2 DEF OneAt
  <2>5. \A p \in x.blocking, r \in x.results : ~(p.id = id /\ r.query.id = id)
    BY <1>3, <1>9, <2>1, <2>2, <2>3 DEF OneAt
  <2>6. \A p \in x.pending, r \in x.results : ~(p.id = id /\ r.query.id = id)
    BY <1>3, <1>6, <1>9, <2>1, <2>2 DEF OneAt
  <2> QED
    BY <1>6, <1>9, <2>3, <2>4, <2>5, <2>6 DEF OneAt
<1>10. IndexOK(i, x) /\ Moves(ix, x)
  BY <1>6, <1>7, <1>8, <1>9 DEF IndexOK, Moves
<1> QED
  BY <1>2, <1>6, <1>10

\* Queries whose position is reached are answered or block.
LEMMA PendingStep ==
    ASSUME log \in Logs, NEW i \in Nat, NEW ix, IndexOK(i, ix)
    PROVE  LET x == ProcessPendingQueries(ix)
           IN  IndexOK(i, x) /\ x.indexed = ix.indexed /\ Moves(ix, x)
<1> DEFINE ready == {q \in ix.pending : q.progress <= ix.indexed}
           stay  == {q \in ready : q.dir = "nextB" /\ Find(ix, q) = Invalid}
           gone  == ready \ stay
           P     == ix.pending \ ready
           B     == ix.blocking \cup stay
           R     == ix.results \cup {AnswerOf(ix, q) : q \in gone}
           x     == [ix EXCEPT !.pending = P, !.blocking = B, !.results = R]
<1>1. ix \in Shards /\ ix.pending \in SUBSET Queries /\ ix.blocking \in SUBSET Queries
  BY DEF IndexOK, ShardOK, Shards
<1>2. ProcessPendingQueries(ix) = x
  BY DEF ProcessPendingQueries, AnswerOf
<1>3. /\ ready \subseteq ix.pending /\ \A q \in ready : q.progress <= ix.indexed
      /\ stay \subseteq ready /\ gone \subseteq ready /\ \A q \in stay : q \notin gone
  OBVIOUS
<1> HIDE DEF ready, stay, gone
<1>4. \A q \in gone : ResultOK(i, AnswerOf(ix, q))
  BY <1>1, <1>3, FindOK DEF IndexOK, QueriesOK, AnswerOf
<1>5. R \in SUBSET Results
  BY <1>4 DEF ResultOK, IndexOK, ShardOK, Shards
<1>6. P \in SUBSET Queries /\ B \in SUBSET Queries
  BY <1>1, <1>3
<1> HIDE DEF P, B, R
<1>7. /\ ShardOK(i, x) /\ x.indexed = ix.indexed
      /\ x.pending = P /\ x.blocking = B /\ x.results = R
  <2>1. /\ x \in Shards
        /\ x.indexed = ix.indexed /\ x.entries = ix.entries /\ x.updates = ix.updates
        /\ x.received = ix.received /\ x.expected = ix.expected
        /\ x.pending = P /\ x.blocking = B /\ x.results = R
    BY <1>1, <1>5, <1>6 DEF Shards
  <2> HIDE DEF x
  <2> QED
    BY <2>1, QueriesApart DEF IndexOK
<1> HIDE DEF x
<1>8. QueriesOK(i, x)
  BY <1>3, <1>4, <1>7 DEF IndexOK, QueriesOK, P, B, R
<1>9. /\ \A q \in gone : AnswerOf(ix, q).query = q
      /\ \A r \in x.results : r \in ix.results \/ \E q \in gone : r = AnswerOf(ix, q)
      /\ \A q \in x.pending : q \in ix.pending /\ q \notin ready
      /\ \A q \in x.blocking : q \in ix.blocking \/ q \in stay
  BY <1>7 DEF P, B, R, AnswerOf, QueryResult
<1>10. ASSUME NEW id, NoneAt(ix, id) PROVE NoneAt(x, id)
  BY <1>3, <1>9, <1>10 DEF NoneAt
<1>11. ASSUME NEW id, OneAt(ix, id) PROVE OneAt(x, id)
  <2>1. \A p, q \in x.pending : p.id = id /\ q.id = id => p = q
    BY <1>9, <1>11 DEF OneAt
  <2>2. \A p, q \in x.blocking : p.id = id /\ q.id = id => p = q
    BY <1>3, <1>9, <1>11 DEF OneAt
  <2>3. \A p, q \in x.results : p.query.id = id /\ q.query.id = id => p = q
    BY <1>3, <1>9, <1>11 DEF OneAt
  <2>4. \A p \in x.pending, q \in x.blocking : ~(p.id = id /\ q.id = id)
    BY <1>3, <1>9, <1>11 DEF OneAt
  <2>5. \A p \in x.pending, r \in x.results : ~(p.id = id /\ r.query.id = id)
    BY <1>3, <1>9, <1>11 DEF OneAt
  <2>6. \A p \in x.blocking, r \in x.results : ~(p.id = id /\ r.query.id = id)
    BY <1>3, <1>9, <1>11 DEF OneAt
  <2> QED
    BY <2>1, <2>2, <2>3, <2>4, <2>5, <2>6 DEF OneAt
<1>12. IndexOK(i, x) /\ Moves(ix, x)
  BY <1>7, <1>8, <1>10, <1>11 DEF IndexOK, Moves
<1> QED
  BY <1>2, <1>7, <1>12

\* A query that arrives is answered, blocks or waits for its position.
LEMMA MakeQueryStep ==
    ASSUME log \in Logs, NEW i \in Nat, NEW ix, IndexOK(i, ix), NEW q \in Queries, OfRead(q)
    PROVE  LET x == MakeQuery(ix, q) IN
           /\ IndexOK(i, x)
           /\ \A id \in ReadIds \ {q.id} :
                (NoneAt(ix, id) => NoneAt(x, id)) /\ (OneAt(ix, id) => OneAt(x, id))
           /\ NoneAt(ix, q.id) => OneAt(x, q.id)
<1> DEFINE x == MakeQuery(ix, q)
           a == AnswerOf(ix, q)
<1>1. ix \in Shards
  BY DEF IndexOK, ShardOK
<1>2. \/ x = [ix EXCEPT !.pending = ix.pending \cup {q}]
      \/ q.progress <= ix.indexed /\ x = [ix EXCEPT !.blocking = ix.blocking \cup {q}]
      \/ q.progress <= ix.indexed /\ x = [ix EXCEPT !.results = ix.results \cup {a}]
  BY DEF MakeQuery, ProcessQuery, AnswerOf
<1>3. q.progress <= ix.indexed => ResultOK(i, a) /\ a \in Results
  BY FindOK DEF IndexOK, AnswerOf, ResultOK
<1>4. a.query = q
  BY DEF AnswerOf, QueryResult
<1> HIDE DEF x, a
<1>5. /\ x \in Shards
      /\ x.indexed = ix.indexed /\ x.entries = ix.entries /\ x.updates = ix.updates
      /\ x.received = ix.received /\ x.expected = ix.expected
      /\ \/ /\ x.pending = ix.pending \cup {q}
            /\ x.blocking = ix.blocking /\ x.results = ix.results
         \/ /\ q.progress <= ix.indexed
            /\ x.blocking = ix.blocking \cup {q}
            /\ x.pending = ix.pending /\ x.results = ix.results
         \/ /\ q.progress <= ix.indexed
            /\ x.results = ix.results \cup {a}
            /\ x.pending = ix.pending /\ x.blocking = ix.blocking
  <2>1. CASE x = [ix EXCEPT !.pending = ix.pending \cup {q}]
    BY <1>1, <2>1 DEF Shards
  <2>2. CASE q.progress <= ix.indexed /\ x = [ix EXCEPT !.blocking = ix.blocking \cup {q}]
    BY <1>1, <2>2 DEF Shards
  <2>3. CASE q.progress <= ix.indexed /\ x = [ix EXCEPT !.results = ix.results \cup {a}]
    BY <1>1, <1>3, <2>3 DEF Shards
  <2> QED
    BY <1>2, <2>1, <2>2, <2>3
<1>6. ShardOK(i, x)
  BY <1>5, QueriesApart DEF IndexOK
<1>7. QueriesOK(i, x)
  BY <1>3, <1>5 DEF IndexOK, QueriesOK
<1>8. \A id \in ReadIds \ {q.id} :
        (NoneAt(ix, id) => NoneAt(x, id)) /\ (OneAt(ix, id) => OneAt(x, id))
  BY <1>4, <1>5 DEF NoneAt, OneAt
<1>9. NoneAt(ix, q.id) => OneAt(x, q.id)
  BY <1>4, <1>5 DEF NoneAt, OneAt
<1> QED
  BY <1>6, <1>7, <1>8, <1>9 DEF IndexOK, x

\* One position is completed, with the reads that wait for it.
LEMMA CompletePositionStep ==
    ASSUME log \in Logs, NEW i \in Nat, NEW ix, IndexOK(i, ix), NEW expired
    PROVE  LET x == CompletePosition(ix, expired) IN IndexOK(i, x) /\ Moves(ix, x)
<1>1. CASE ~NextPositionComplete(ix)
  BY <1>1 DEF CompletePosition, Moves
<1>2. CASE NextPositionComplete(ix)
  <2> DEFINE a == TryCompleteIndexUpdates(ix)
             b == ProcessBlockingReads(a, expired)
             c == ProcessPendingQueries(b)
  <2>1. /\ ShardOK(i, a) /\ a.indexed >= ix.indexed
        /\ a.pending = ix.pending /\ a.blocking = ix.blocking /\ a.results = ix.results
    BY <1>2, CompleteOK DEF IndexOK
  <2>2. CompletePosition(ix, expired) = c
    BY <1>2 DEF CompletePosition
  <2> HIDE DEF a
  <2>3. QueriesOK(i, a)
    <3>1. \A q \in ix.blocking : q.progress \in Nat
      BY DEF IndexOK, ShardOK, Shards, Queries
    <3>2. ix.indexed \in Nat /\ a.indexed \in Nat
      BY <2>1 DEF IndexOK, ShardOK, Shards
    <3> QED
      BY <2>1, <3>1, <3>2 DEF IndexOK, QueriesOK
  <2>4. IndexOK(i, a) /\ Moves(ix, a)
    BY <2>1, <2>3, MovesSame DEF IndexOK
  <2>5. IndexOK(i, b) /\ Moves(a, b)
    BY <2>4, BlockingStep
  <2> HIDE DEF b
  <2>6. IndexOK(i, c) /\ Moves(b, c)
    BY <2>5, PendingStep
  <2> QED
    BY <2>2, <2>4, <2>5, <2>6, MovesChain
<1> QED
  BY <1>1, <1>2

\* One package, with all positions that it completes.
LEMMA AdvanceStep ==
    ASSUME log \in Logs, NEW i \in Nat, NEW ix, IndexOK(i, ix), NEW expired,
           NEW s, NEW p \in Nat, OwnsPosition(i, p)
    PROVE  LET x == AdvanceIndexProgress(ix, Package(s, p), expired)
           IN  IndexOK(i, x) /\ Moves(ix, x)
<1> DEFINE n == LastPosition
           d == Package(s, p)
           start == IF IsNewIndexData(ix, d) THEN ProvideIndexData(ix, d) ELSE ix
           Step(y, k) == CompletePosition(y, expired)
           Iterates(f, k) == /\ f = [j \in 0 .. k |-> f[j]] /\ f[0] = start
                             /\ \A j \in 1 .. k : f[j] = Step(f[j - 1], j)
           Eq(f) == f = [k \in 0 .. n |-> IF k = 0 THEN start ELSE Step(f[k - 1], k)]
           Good(y) == IndexOK(i, y) /\ Moves(ix, y)
<1>1. n \in Nat
  BY LogFacts
<1> HIDE DEF n
<1>2. ASSUME NEW m \in 0 .. n, ~\E f : Iterates(f, m)
      PROVE  FALSE
  <2> HIDE DEF start, Step
  <2> DEFINE Bad == {k \in 0 .. n : ~\E f : Iterates(f, k)}
  <2>1. Bad \in SUBSET Nat /\ Bad # {}
    <3> HIDE DEF Iterates
    <3> QED BY <1>1, <1>2
  <2>2. PICK k \in Bad : \A y \in Bad : k <= y
    <3> HIDE DEF Bad
    <3> QED BY <2>1, NatMin
  <2>3. k # 0
    <3> SUFFICES ASSUME k = 0 PROVE FALSE
      OBVIOUS
    <3>1. Iterates([j \in 0 .. 0 |-> start], 0)
      OBVIOUS
    <3> QED
      BY <3>1, <2>2
  <2>4. k - 1 \in 0 .. n /\ k - 1 \notin Bad /\ k \in 1 .. n
    <3>1. k \in 0 .. n /\ \A y \in Bad : k <= y
      BY <2>2
    <3>2. k - 1 \in 0 .. n /\ k \in 1 .. n /\ ~(k <= k - 1)
      BY <1>1, <2>3, <3>1
    <3> HIDE DEF Bad
    <3> QED BY <3>1, <3>2
  <2>5. PICK f : Iterates(f, k - 1)
    <3> HIDE DEF Iterates
    <3> QED BY <2>4
  <2> DEFINE g == [j \in 0 .. k |-> IF j = k THEN Step(f[k - 1], k) ELSE f[j]]
  <2>6. g = [j \in 0 .. k |-> g[j]] /\ g[0] = start
    BY <1>1, <2>4, <2>5
  <2>7. ASSUME NEW j \in 1 .. k PROVE g[j] = Step(g[j - 1], j)
    <3>1. CASE j = k
      <4>1. g[k] = Step(f[k - 1], k) /\ g[k - 1] = f[k - 1]
        BY <1>1, <2>4
      <4> HIDE DEF g
      <4> QED BY <3>1, <4>1
    <3>2. CASE j # k
      <4>1. j \in 1 .. k - 1 /\ j - 1 \in 0 .. k - 1
        BY <1>1, <2>4, <3>2
      <4>2. g[j] = f[j] /\ g[j - 1] = f[j - 1]
        BY <1>1, <2>4, <3>2, <4>1
      <4>3. f[j] = Step(f[j - 1], j)
        BY <2>5, <4>1
      <4> HIDE DEF g
      <4> QED BY <4>2, <4>3
    <3> QED
      BY <3>1, <3>2
  <2> HIDE DEF g
  <2>8. Iterates(g, k)
    BY <2>6, <2>7
  <2> QED
    BY <2>2, <2>8
<1>3. PICK f : Iterates(f, n)
  <2>1. n \in 0 .. n
    BY <1>1
  <2> HIDE DEF Iterates
  <2> QED BY <1>2, <2>1
<1>4. Eq(f)
  <2> HIDE DEF start, Step
  <2> DEFINE h == [k \in 0 .. n |-> IF k = 0 THEN start ELSE Step(f[k - 1], k)]
  <2>1. ASSUME NEW k \in 0 .. n PROVE h[k] = f[k]
    <3>1. CASE k = 0
      BY <1>3, <3>1
    <3>2. CASE k # 0
      <4>1. k \in 1 .. n
        BY <1>1, <3>2
      <4>2. f[k] = Step(f[k - 1], k)
        BY <1>3, <4>1
      <4> QED
        BY <3>2, <4>2
    <3> QED
      BY <3>1, <3>2
  <2>2. h = [k \in 0 .. n |-> h[k]]
    OBVIOUS
  <2> HIDE DEF h
  <2>3. f = h
    BY <1>3, <2>1, <2>2
  <2> QED
    BY <2>3 DEF h
<1> DEFINE F == CHOOSE g : Eq(g)
<1>5. AdvanceIndexProgress(ix, Package(s, p), expired) = F[n]
  BY DEF AdvanceIndexProgress, n
<1>6. Eq(F)
  <2> HIDE DEF Eq
  <2> QED BY <1>4
<1>7. F[0] = start /\ \A k \in 1 .. n : F[k] = Step(F[k - 1], k)
  <2> HIDE DEF start, Step, F
  <2> QED BY <1>1, <1>6
<1> HIDE DEF F
<1>8. Good(start)
  <2>1. CASE ~IsNewIndexData(ix, d)
    BY <2>1 DEF Moves
  <2>2. CASE IsNewIndexData(ix, d)
    <3> DEFINE y == ProvideIndexData(ix, d)
    <3>1. ShardOK(i, y)
      BY <2>2, ProvideOK DEF IndexOK
    <3>2. /\ y.indexed = ix.indexed /\ y.pending = ix.pending
          /\ y.blocking = ix.blocking /\ y.results = ix.results
      BY DEF ProvideIndexData, IndexOK, ShardOK, Shards
    <3> HIDE DEF y
    <3>3. QueriesOK(i, y)
      BY <3>2 DEF IndexOK, QueriesOK
    <3>4. IndexOK(i, y) /\ Moves(ix, y)
      BY <3>1, <3>2, <3>3, MovesSame DEF IndexOK
    <3> QED
      BY <2>2, <3>4 DEF y
  <2> QED
    BY <2>1, <2>2
<1>9. ASSUME NEW y, NEW k \in 1 .. n, Good(y) PROVE Good(Step(y, k))
  <2>1. IndexOK(i, Step(y, k)) /\ Moves(y, Step(y, k))
    BY <1>9, CompletePositionStep
  <2> HIDE DEF Step
  <2> QED
    BY <1>9, <2>1, MovesChain
<1>10. ASSUME NEW m \in 0 .. n, ~Good(F[m])
      PROVE  FALSE
  <2> HIDE DEF start, Step
  <2> DEFINE Bad == {k \in 0 .. n : ~Good(F[k])}
  <2>1. Bad \in SUBSET Nat /\ Bad # {}
    <3> HIDE DEF Good
    <3> QED BY <1>1, <1>10
  <2>2. PICK k \in Bad : \A y \in Bad : k <= y
    <3> HIDE DEF Bad
    <3> QED BY <2>1, NatMin
  <2>3. k # 0
    <3> HIDE DEF Good
    <3> QED BY <1>7, <1>8, <2>2
  <2>4. k - 1 \in 0 .. n /\ k - 1 \notin Bad /\ k \in 1 .. n
    <3>1. k \in 0 .. n /\ \A y \in Bad : k <= y
      BY <2>2
    <3>2. k - 1 \in 0 .. n /\ k \in 1 .. n /\ ~(k <= k - 1)
      BY <1>1, <2>3, <3>1
    <3> HIDE DEF Bad
    <3> QED BY <3>1, <3>2
  <2> HIDE DEF Good
  <2>5. Good(F[k - 1])
    BY <2>4
  <2>6. Good(Step(F[k - 1], k))
    BY <1>9, <2>4, <2>5
  <2> QED
    BY <1>7, <2>2, <2>4, <2>6
<1> QED
  <2>1. n \in 0 .. n
    BY <1>1
  <2> HIDE DEF Good
  <2>2. Good(F[n])
    BY <1>10, <2>1
  <2> QED
    BY <1>5, <2>2 DEF Good

\* One message with index data.
LEMMA ApplyStep ==
    ASSUME log \in Logs, NEW i \in Nat, IndexOK(i, index[i]), NEW expired, NEW m
    PROVE  LET x == ApplyRelevantPackages(i, m, expired)
           IN  IndexOK(i, x) /\ Moves(index[i], x)
<1> DEFINE n == LastPosition
           start == index[i]
           Step(y, k) == IF k \in m.positions /\ OwnsPosition(i, k)
                         THEN AdvanceIndexProgress(y, Package(m.from, k), expired) ELSE y
           Iterates(f, k) == /\ f = [j \in 0 .. k |-> f[j]] /\ f[0] = start
                             /\ \A j \in 1 .. k : f[j] = Step(f[j - 1], j)
           Eq(f) == f = [k \in 0 .. n |-> IF k = 0 THEN start ELSE Step(f[k - 1], k)]
           Good(y) == IndexOK(i, y) /\ Moves(index[i], y)
<1>1. n \in Nat
  BY LogFacts
<1> HIDE DEF n
<1>2. ASSUME NEW bad \in 0 .. n, ~\E f : Iterates(f, bad)
      PROVE  FALSE
  <2> HIDE DEF start, Step
  <2> DEFINE Bad == {k \in 0 .. n : ~\E f : Iterates(f, k)}
  <2>1. Bad \in SUBSET Nat /\ Bad # {}
    <3> HIDE DEF Iterates
    <3> QED BY <1>1, <1>2
  <2>2. PICK k \in Bad : \A y \in Bad : k <= y
    <3> HIDE DEF Bad
    <3> QED BY <2>1, NatMin
  <2>3. k # 0
    <3> SUFFICES ASSUME k = 0 PROVE FALSE
      OBVIOUS
    <3>1. Iterates([j \in 0 .. 0 |-> start], 0)
      OBVIOUS
    <3> QED
      BY <3>1, <2>2
  <2>4. k - 1 \in 0 .. n /\ k - 1 \notin Bad /\ k \in 1 .. n
    <3>1. k \in 0 .. n /\ \A y \in Bad : k <= y
      BY <2>2
    <3>2. k - 1 \in 0 .. n /\ k \in 1 .. n /\ ~(k <= k - 1)
      BY <1>1, <2>3, <3>1
    <3> HIDE DEF Bad
    <3> QED BY <3>1, <3>2
  <2>5. PICK f : Iterates(f, k - 1)
    <3> HIDE DEF Iterates
    <3> QED BY <2>4
  <2> DEFINE g == [j \in 0 .. k |-> IF j = k THEN Step(f[k - 1], k) ELSE f[j]]
  <2>6. g = [j \in 0 .. k |-> g[j]] /\ g[0] = start
    BY <1>1, <2>4, <2>5
  <2>7. ASSUME NEW j \in 1 .. k PROVE g[j] = Step(g[j - 1], j)
    <3>1. CASE j = k
      <4>1. g[k] = Step(f[k - 1], k) /\ g[k - 1] = f[k - 1]
        BY <1>1, <2>4
      <4> HIDE DEF g
      <4> QED BY <3>1, <4>1
    <3>2. CASE j # k
      <4>1. j \in 1 .. k - 1 /\ j - 1 \in 0 .. k - 1
        BY <1>1, <2>4, <3>2
      <4>2. g[j] = f[j] /\ g[j - 1] = f[j - 1]
        BY <1>1, <2>4, <3>2, <4>1
      <4>3. f[j] = Step(f[j - 1], j)
        BY <2>5, <4>1
      <4> HIDE DEF g
      <4> QED BY <4>2, <4>3
    <3> QED
      BY <3>1, <3>2
  <2> HIDE DEF g
  <2>8. Iterates(g, k)
    BY <2>6, <2>7
  <2> QED
    BY <2>2, <2>8
<1>3. PICK f : Iterates(f, n)
  <2>1. n \in 0 .. n
    BY <1>1
  <2> HIDE DEF Iterates
  <2> QED BY <1>2, <2>1
<1>4. Eq(f)
  <2> HIDE DEF start, Step
  <2> DEFINE h == [k \in 0 .. n |-> IF k = 0 THEN start ELSE Step(f[k - 1], k)]
  <2>1. ASSUME NEW k \in 0 .. n PROVE h[k] = f[k]
    <3>1. CASE k = 0
      BY <1>3, <3>1
    <3>2. CASE k # 0
      <4>1. k \in 1 .. n
        BY <1>1, <3>2
      <4>2. f[k] = Step(f[k - 1], k)
        BY <1>3, <4>1
      <4> QED
        BY <3>2, <4>2
    <3> QED
      BY <3>1, <3>2
  <2>2. h = [k \in 0 .. n |-> h[k]]
    OBVIOUS
  <2> HIDE DEF h
  <2>3. f = h
    BY <1>3, <2>1, <2>2
  <2> QED
    BY <2>3 DEF h
<1> DEFINE F == CHOOSE g : Eq(g)
<1>5. ApplyRelevantPackages(i, m, expired) = F[n]
  BY DEF ApplyRelevantPackages, n
<1>6. Eq(F)
  <2> HIDE DEF Eq
  <2> QED BY <1>4
<1>7. F[0] = start /\ \A k \in 1 .. n : F[k] = Step(F[k - 1], k)
  <2> HIDE DEF start, Step, F
  <2> QED BY <1>1, <1>6
<1> HIDE DEF F
<1>8. Good(start)
  BY DEF Moves
<1>9. ASSUME NEW y, NEW k \in 1 .. n, Good(y) PROVE Good(Step(y, k))
  <2>1. CASE k \in m.positions /\ OwnsPosition(i, k)
    <3> DEFINE z == AdvanceIndexProgress(y, Package(m.from, k), expired)
    <3>1. IndexOK(i, z) /\ Moves(y, z)
      BY <1>1, <1>9, <2>1, AdvanceStep
    <3> HIDE DEF z
    <3>2. Good(z)
      BY <1>9, <3>1, MovesChain
    <3>3. Step(y, k) = z
      BY <2>1 DEF z
    <3> HIDE DEF Good, Step
    <3> QED
      BY <3>2, <3>3
  <2>2. CASE ~(k \in m.positions /\ OwnsPosition(i, k))
    BY <1>9, <2>2
  <2> QED
    BY <2>1, <2>2
<1>10. ASSUME NEW bad \in 0 .. n, ~Good(F[bad])
      PROVE  FALSE
  <2> HIDE DEF start, Step
  <2> DEFINE Bad == {k \in 0 .. n : ~Good(F[k])}
  <2>1. Bad \in SUBSET Nat /\ Bad # {}
    <3> HIDE DEF Good
    <3> QED BY <1>1, <1>10
  <2>2. PICK k \in Bad : \A y \in Bad : k <= y
    <3> HIDE DEF Bad
    <3> QED BY <2>1, NatMin
  <2>3. k # 0
    <3> HIDE DEF Good
    <3> QED BY <1>7, <1>8, <2>2
  <2>4. k - 1 \in 0 .. n /\ k - 1 \notin Bad /\ k \in 1 .. n
    <3>1. k \in 0 .. n /\ \A y \in Bad : k <= y
      BY <2>2
    <3>2. k - 1 \in 0 .. n /\ k \in 1 .. n /\ ~(k <= k - 1)
      BY <1>1, <2>3, <3>1
    <3> HIDE DEF Bad
    <3> QED BY <3>1, <3>2
  <2> HIDE DEF Good
  <2>5. Good(F[k - 1])
    BY <2>4
  <2>6. Good(Step(F[k - 1], k))
    BY <1>9, <2>4, <2>5
  <2> QED
    BY <1>7, <2>2, <2>4, <2>6
<1> QED
  <2>1. n \in 0 .. n
    BY <1>1
  <2> HIDE DEF Good
  <2>2. Good(F[n])
    BY <1>10, <2>1
  <2> QED
    BY <1>5, <2>2 DEF Good
-----------------------------------------------------------------------------
(* What a step leaves alone. *)

\* The log does not change, and a read keeps what it was asked.
Keeps ==
    /\ log' = log
    /\ \A id \in ReadIds : reads[id].status # "new" =>
         /\ reads'[id].status # "new" /\ reads'[id].dir = reads[id].dir
         /\ reads'[id].tag = reads[id].tag /\ reads'[id].seqnum = reads[id].seqnum
         /\ reads'[id].seen = reads[id].seen /\ reads'[id].asked = reads[id].asked

\* All that is computed from the log stays.
LEMMA LogSame ==
    ASSUME log' = log
    PROVE  /\ Seqnums' = Seqnums /\ Invalid' = Invalid /\ LastPosition' = LastPosition
           /\ Results' = Results /\ Shards' = Shards
           /\ \A s : Entry(s)' = Entry(s)
           /\ \A p : Cut(p)' = Cut(p) /\ CutShards(p)' = CutShards(p)
           /\ \A p : EndSeqnum(p)' = EndSeqnum(p)
           /\ \A i, p : Indexed(i, p)' = Indexed(i, p)
           /\ \A q, s : InRange(q, s)' <=> InRange(q, s)
           /\ \A r : (IsFound(r)' <=> IsFound(r)) /\ (IsPointHit(r)' <=> IsPointHit(r))
           /\ \A r : FoundOK(r)' <=> FoundOK(r)
<1>1. Seqnums' = Seqnums /\ Invalid' = Invalid /\ \A s : Entry(s)' = Entry(s)
  BY DEF Seqnums, Invalid, Entry
<1>2. LastPosition' = LastPosition
  BY DEF LastPosition, Entry
<1>3. Results' = Results /\ Shards' = Shards
  BY <1>1 DEF Results, Shards
<1>4. \A p : Cut(p)' = Cut(p)
  BY <1>1 DEF Cut
<1>5. \A p : CutShards(p)' = CutShards(p)
  BY <1>1, <1>4 DEF CutShards
<1>6. ASSUME NEW p PROVE EndSeqnum(p)' = EndSeqnum(p)
  BY DEF EndSeqnum, Seqnums, Entry
<1>7. \A i, p : Indexed(i, p)' = Indexed(i, p)
  BY <1>1 DEF Indexed
<1>8. \A q, s : InRange(q, s)' <=> InRange(q, s)
  BY <1>1 DEF InRange, Matches
<1>9. \A r : (IsFound(r)' <=> IsFound(r)) /\ (IsPointHit(r)' <=> IsPointHit(r))
  BY <1>1 DEF IsFound, IsPointHit
<1>10. \A r : FoundOK(r)' <=> FoundOK(r)
  BY <1>1, <1>8, <1>9 DEF FoundOK
<1> QED
  BY <1>1, <1>2, <1>3, <1>4, <1>5, <1>6, <1>7, <1>8, <1>9, <1>10

\* What holds of queries, results and answers goes on to hold.
LEMMA KeepsAnswers ==
    ASSUME Keeps
    PROVE  /\ \A q \in Queries : OfRead(q) => OfRead(q)'
           /\ \A i, r : ResultOK(i, r) => ResultOK(i, r)'
           /\ \A readOp, id : MergedOK(readOp, id) => MergedOK(readOp, id)'
           /\ \A id, s, p : EntryAnswers(id, s, p) => EntryAnswers(id, s, p)'
           /\ \A id : NothingAnswers(id) => NothingAnswers(id)'
           /\ \A m : MessageOK(m) => MessageOK(m)'
           /\ \A id \in ReadIds : reads[id].status # "new" =>
                (EachShardAsked(id)' <=> EachShardAsked(id))
<1>0. ASSUME NEW id \in ReadIds, reads[id].status # "new"
      PROVE  EachShardAsked(id)' <=> EachShardAsked(id)
  <2>1. reads'[id].asked = reads[id].asked
    BY <1>0 DEF Keeps
  <2> QED
    BY <2>1 DEF EachShardAsked
<1>1. /\ Seqnums' = Seqnums /\ Invalid' = Invalid /\ Results' = Results
      /\ \A s : Entry(s)' = Entry(s)
      /\ \A q, s : InRange(q, s)' <=> InRange(q, s)
      /\ \A r : (IsFound(r)' <=> IsFound(r)) /\ (FoundOK(r)' <=> FoundOK(r))
  BY LogSame DEF Keeps
<1>2. ASSUME NEW q \in Queries, OfRead(q) PROVE OfRead(q)'
  <2>1. q.id \in ReadIds
    BY DEF Queries
  <2> QED
    BY <1>1, <1>2, <2>1 DEF Keeps, OfRead
<1>3. ASSUME NEW i, NEW r \in Results, OfRead(r.query), Covers(i, r) PROVE Covers(i, r)'
  <2>1. r.query.id \in ReadIds
    BY DEF Queries, Results
  <2>2. reads'[r.query.id].seen = reads[r.query.id].seen
    BY <1>3, <2>1 DEF Keeps, OfRead
  <2> QED
    BY <1>1, <1>3, <2>2 DEF Covers
<1>4. ASSUME NEW i, NEW r, ResultOK(i, r) PROVE ResultOK(i, r)'
  <2>1. r \in Results /\ r.query \in Queries
    BY <1>4 DEF ResultOK, Results
  <2> QED
    BY <1>1, <1>2, <1>3, <1>4, <2>1 DEF ResultOK
<1>5. ASSUME NEW readOp, NEW id, MergedOK(readOp, id) PROVE MergedOK(readOp, id)'
  <2> SUFFICES ASSUME readOp.nodes # {} PROVE MergedOK(readOp, id)'
    BY DEF MergedOK
  <2> DEFINE r == readOp.result
  <2>1. /\ r \in Results /\ r.query.id = id /\ OfRead(r.query) /\ r.query \in Queries
        /\ FoundOK(r) /\ \A i \in readOp.nodes : Covers(i, r)
        /\ IsFound(r) => \E i \in readOp.nodes : OwnsPosition(i, Entry(r.found).pos)
    BY <1>5 DEF MergedOK, Results
  <2>2. OfRead(r.query)' /\ \A i \in readOp.nodes : Covers(i, r)'
    BY <1>2, <1>3, <2>1
  <2> QED
    BY <1>1, <2>1, <2>2 DEF MergedOK
<1>6. ASSUME NEW id, NEW s, NEW p, EntryAnswers(id, s, p) PROVE EntryAnswers(id, s, p)'
  <2>1. id \in ReadIds /\ reads[id].status # "new"
    BY <1>6 DEF EntryAnswers
  <2>2. EachShardAsked(id)' <=> EachShardAsked(id)
    BY <1>0, <2>1
  <2> QED
    BY <1>1, <1>6, <2>1, <2>2 DEF EntryAnswers, Keeps, InRange, NotCloser, Matches
<1>7. ASSUME NEW id, NothingAnswers(id) PROVE NothingAnswers(id)'
  <2>1. id \in ReadIds /\ reads[id].status # "new"
    BY <1>7 DEF NothingAnswers
  <2>2. EachShardAsked(id)' <=> EachShardAsked(id)
    BY <1>0, <2>1
  <2> QED
    BY <1>1, <1>7, <2>1, <2>2 DEF NothingAnswers, Keeps, InRange, Matches
<1>8. ASSUME NEW m, MessageOK(m) PROVE MessageOK(m)'
  <2>1. m.op = "RESPONSE" => reads'[m.id].status # "new"
    BY <1>8 DEF MessageOK, Keeps
  <2> QED
    BY <1>1, <1>2, <1>4, <1>6, <1>7, <1>8, <2>1 DEF MessageOK
<1> QED
  BY <1>0, <1>2, <1>4, <1>5, <1>6, <1>7, <1>8

\* The same for the index of a node.
LEMMA KeepsIndex ==
    ASSUME Keeps, NEW i, NEW ix, IndexOK(i, ix)
    PROVE  ShardOK(i, ix)' /\ QueriesOK(i, ix)'
<1>1. /\ \A q \in Queries : OfRead(q) => OfRead(q)'
      /\ \A r : ResultOK(i, r) => ResultOK(i, r)'
  BY KeepsAnswers
<1>2. /\ Shards' = Shards
      /\ \A s : Entry(s)' = Entry(s)
      /\ \A p : Cut(p)' = Cut(p) /\ CutShards(p)' = CutShards(p) /\ EndSeqnum(p)' = EndSeqnum(p)
      /\ \A p : Indexed(i, p)' = Indexed(i, p)
  BY LogSame DEF Keeps
<1>3. ix.pending \in SUBSET Queries /\ ix.blocking \in SUBSET Queries
  BY DEF IndexOK, ShardOK, Shards
<1>4. ShardOK(i, ix)'
  BY <1>2 DEF IndexOK, ShardOK
<1>5. QueriesOK(i, ix)'
  BY <1>1, <1>3 DEF IndexOK, QueriesOK
<1> QED
  BY <1>4, <1>5
-----------------------------------------------------------------------------
(* Merging. *)

\* Index nodes have numbers.
LEMMA IndexNodeFacts == IndexNodeIds \subseteq Nat /\ IsFiniteSet(IndexNodeIds)
<1>1. IndexNodes \in Seq(Nat) /\ DOMAIN IndexNodes = 1 .. Len(IndexNodes) /\ Len(IndexNodes) \in Nat
  BY IndexTierAssumption
<1>2. \A j \in DOMAIN IndexNodes : IndexNodes[j] \in Nat
  BY <1>1, ElementOfSeq
<1>3. IndexNodeIds \subseteq Nat
  BY <1>2 DEF IndexNodeIds, Elements
<1> DEFINE f == [j \in DOMAIN IndexNodes |-> IndexNodes[j]]
<1>4. f \in Surjection(DOMAIN IndexNodes, IndexNodeIds)
  BY DEF Surjection, IndexNodeIds, Elements
<1>5. IsFiniteSet(DOMAIN IndexNodes)
  BY <1>1, FS_Interval
<1> QED
  BY <1>3, <1>4, <1>5, FS_Surjection

\* The plan is made of index nodes.
LEMMA PickedNodes ==
    ASSUME NEW P \in PickIndexNodePerShard
    PROVE  P \subseteq IndexNodeIds
<1>1. DOMAIN IndexNodes = 1 .. Len(IndexNodes) /\ Len(IndexNodes) \in Nat
  BY IndexTierAssumption
<1>2. PICK k \in Nat : k = NumShards * IndexReplicas /\ k <= Len(IndexNodes)
  BY PlanAssumption
<1>3. ASSUME NEW s, NEW n \in IndexShardNodes(s) PROVE n \in IndexNodeIds
  <2>1. PICK j \in 1 .. k : n = IndexNodes[j]
    BY <1>2, <1>3, Zenon DEF IndexShardNodes
  <2>2. j \in DOMAIN IndexNodes
    BY <1>1, <1>2
  <2> QED
    BY <2>1, <2>2 DEF IndexNodeIds, Elements
<1> QED
  BY <1>3 DEF PickIndexNodePerShard

\* When nodes of different shards are as many as there are shards, each shard has one.
LEMMA ShardsCovered ==
    ASSUME NEW P \in SUBSET IndexNodeIds, \A m, n \in P : ShardOf(m) = ShardOf(n) => m = n,
           NEW S \in SUBSET P, Cardinality(S) = NumShards
    PROVE  S = P /\ \A sh \in 0 .. NumShards - 1 : \E i \in S : ShardOf(i) = sh
<1>1. NumShards \in Nat /\ NumShards > 0
  BY PlanAssumption
<1>2. IsFiniteSet(P)
  BY IndexNodeFacts, FS_Subset
<1> DEFINE f == [i \in P |-> ShardOf(i)]
           T == 0 .. NumShards - 1
<1>4. f \in Injection(P, T)
  <2>1. \A i \in P : ShardOf(i) \in T
    BY <1>1, IndexNodeFacts, ModFacts DEF ShardOf
  <2>2. f \in [P -> T]
    BY <2>1
  <2> HIDE DEF T
  <2> QED
    BY <2>2 DEF Injection, IsInjective
<1>5. IsFiniteSet(T) /\ Cardinality(T) = NumShards
  BY <1>1, FS_Interval
<1>6. Cardinality(P) <= NumShards /\ (Cardinality(P) = NumShards => f \in Surjection(P, T))
  <2> HIDE DEF T, f
  <2> QED
    BY <1>4, <1>5, FS_Injection
<1>7. Cardinality(S) <= Cardinality(P) /\ (Cardinality(P) = Cardinality(S) => P = S)
  BY <1>2, FS_Subset
<1>8. Cardinality(P) \in Nat
  BY <1>2, FS_CardinalityType
<1>9. Cardinality(P) = NumShards
  BY <1>1, <1>6, <1>7, <1>8
<1>10. f \in Surjection(P, T) /\ S = P
  BY <1>6, <1>7, <1>9
<1>11. \A sh \in T : \E i \in P : f[i] = sh
  BY <1>10 DEF Surjection
<1> QED
  BY <1>10, <1>11

\* Queries of one read ask for the same.
LEMMA SameQuery ==
    ASSUME NEW p, NEW q, OfRead(p), OfRead(q), p.id = q.id
    PROVE  /\ p.dir = q.dir /\ p.tag = q.tag /\ p.seqnum = q.seqnum
           /\ \A s : InRange(p, s) <=> InRange(q, s)
           /\ \A s : InRange(p, s) <=> InRange(reads[p.id], s)
           /\ \A f, s : NotCloser(p, f, s) <=> NotCloser(q, f, s)
           /\ \A f, s : NotCloser(p, f, s) <=> NotCloser(reads[p.id], f, s)
  BY DEF OfRead, InRange, NotCloser

\* The closer of two results is as good as both.
LEMMA CloserFacts ==
    ASSUME log \in Logs, NEW a \in Results, NEW b \in Results, OfRead(a.query), OfRead(b.query),
           a.query.id = b.query.id, FoundOK(a), FoundOK(b)
    PROVE  LET c == Closer(a, b) IN
           /\ c = a \/ c = b
           /\ IsFound(c) <=> IsFound(a) \/ IsFound(b)
           /\ \A i : Covers(i, a) \/ Covers(i, b) => Covers(i, c)
           /\ IsPointHit(a) \/ IsPointHit(b) => IsPointHit(c)
<1> DEFINE c == Closer(a, b)
<1>1. /\ a.query.dir = b.query.dir /\ a.query.tag = b.query.tag /\ a.query.seqnum = b.query.seqnum
      /\ \A s : InRange(a.query, s) <=> InRange(b.query, s)
      /\ \A f, s : NotCloser(a.query, f, s) <=> NotCloser(b.query, f, s)
  BY SameQuery
<1>2. /\ a.found \in Nat /\ b.found \in Nat /\ Invalid \in Nat
      /\ a.query.seqnum \in Nat /\ a.query.id = b.query.id
      /\ \A s \in reads[a.query.id].seen : s \in Nat
      /\ (~IsFound(a) => a.found = Invalid) /\ (~IsFound(b) => b.found = Invalid)
  <2>1. Len(log) \in Nat /\ Invalid = Len(log) /\ Seqnums \subseteq Nat
    BY LogFacts
  <2>2. QuerySeqnums \subseteq Nat
    BY IndexTierAssumption
  <2>3. a.found \in 0 .. Len(log) /\ b.found \in 0 .. Len(log) /\ a.query \in Queries
    BY DEF Results
  <2>4. a.query.seqnum \in Nat
    BY <2>2, <2>3 DEF Queries
  <2>5. \A s \in reads[a.query.id].seen : s \in Nat
    BY <2>1 DEF OfRead
  <2> QED
    BY <2>1, <2>3, <2>4, <2>5 DEF IsFound
<1>3. /\ c = a \/ c = b
      /\ IsFound(c) <=> IsFound(a) \/ IsFound(b)
      /\ IsFound(a) /\ IsFound(b) => NotCloser(a.query, c.found, a.found)
                                  /\ NotCloser(a.query, c.found, b.found)
  BY <1>1, <1>2 DEF Closer, IsFound, NotCloser
<1> HIDE DEF c
<1>4. ASSUME NEW i, Covers(i, a) \/ Covers(i, b) PROVE Covers(i, c)
  <2> SUFFICES ASSUME NEW s \in reads[a.query.id].seen, OwnsPosition(i, Entry(s).pos),
                      InRange(a.query, s)
               PROVE  IsFound(c) /\ NotCloser(a.query, c.found, s)
    BY <1>1, <1>2, <1>3 DEF Covers
  <2>1. \/ IsFound(a) /\ NotCloser(a.query, a.found, s)
        \/ IsFound(b) /\ NotCloser(a.query, b.found, s)
    BY <1>1, <1>2, <1>4 DEF Covers
  <2>2. CASE IsFound(a) /\ IsFound(b)
    BY <1>2, <1>3, <2>1, <2>2 DEF NotCloser
  <2>3. CASE ~(IsFound(a) /\ IsFound(b))
    <3>1. IsFound(c)
      BY <1>3, <2>1
    <3>2. NotCloser(a.query, c.found, s)
      BY <1>3, <2>1, <2>3, <3>1
    <3> QED
      BY <3>1, <3>2
  <2> QED
    BY <2>2, <2>3
<1>5. ASSUME IsPointHit(a) \/ IsPointHit(b) PROVE IsPointHit(c)
  <2>1. IsFound(c) /\ c.query.seqnum = a.query.seqnum
    BY <1>1, <1>3, <1>5 DEF IsPointHit
  <2>2. CASE IsFound(a) /\ IsFound(b)
    <3>1. InRange(a.query, c.found)
      BY <1>1, <1>3, <2>2 DEF FoundOK
    <3>2. NotCloser(a.query, c.found, a.query.seqnum)
      BY <1>1, <1>3, <1>5, <2>2 DEF IsPointHit
    <3>3. c.found = a.query.seqnum
      BY <1>2, <1>3, <3>1, <3>2 DEF InRange, NotCloser
    <3> QED
      BY <2>1, <3>3 DEF IsPointHit
  <2>3. CASE ~(IsFound(a) /\ IsFound(b))
    BY <1>1, <1>3, <1>5, <2>1, <2>3 DEF IsPointHit
  <2> QED
    BY <2>2, <2>3
<1> QED
  BY <1>3, <1>4, <1>5 DEF c

\* A result is added to those of other index nodes.
LEMMA MergedFacts ==
    ASSUME log \in Logs, NEW readOp \in ReadOps, NEW id, MergedOK(readOp, id),
           NEW i \in IndexNodeIds, NEW r, ResultOK(i, r), r.query.id = id
    PROVE  LET m == Merged(readOp, i, r) IN
           /\ m \in ReadOps /\ m.nodes = readOp.nodes \cup {i}
           /\ m.result \in Results /\ MergedOK(m, id)
           /\ IsPointHit(r) => IsPointHit(m.result)
           /\ readOp.nodes # {} /\ IsPointHit(readOp.result) => IsPointHit(m.result)
<1> DEFINE m == Merged(readOp, i, r)
           a == readOp.result
<1>1. /\ r \in Results /\ OfRead(r.query) /\ FoundOK(r) /\ Covers(i, r)
      /\ IsFound(r) => OwnsPosition(i, Entry(r.found).pos)
  BY DEF ResultOK
<1>2. CASE readOp.nodes = {}
  <2>1. m = [nodes |-> readOp.nodes \cup {i}, result |-> r]
    BY <1>2 DEF Merged
  <2>2. m \in ReadOps /\ m.nodes = {i} /\ m.nodes = readOp.nodes \cup {i} /\ m.result = r
    BY <1>1, <1>2, <2>1 DEF ReadOps
  <2> HIDE DEF m
  <2>3. MergedOK(m, id)
    BY <1>1, <2>2 DEF MergedOK
  <2> QED
    BY <1>1, <1>2, <2>2, <2>3 DEF m
<1>3. CASE readOp.nodes # {}
  <2>1. /\ a \in Results /\ a.query.id = id /\ OfRead(a.query)
        /\ FoundOK(a) /\ \A j \in readOp.nodes : Covers(j, a)
        /\ IsFound(a) => \E j \in readOp.nodes : OwnsPosition(j, Entry(a.found).pos)
    BY <1>3 DEF MergedOK
  <2> DEFINE c == Closer(a, r)
  <2>2. /\ c = a \/ c = r
        /\ IsFound(c) <=> IsFound(a) \/ IsFound(r)
        /\ \A j : Covers(j, a) \/ Covers(j, r) => Covers(j, c)
        /\ IsPointHit(a) \/ IsPointHit(r) => IsPointHit(c)
    BY <1>1, <2>1, CloserFacts
  <2>3. m = [nodes |-> readOp.nodes \cup {i}, result |-> c]
    BY <1>3 DEF Merged
  <2> HIDE DEF c
  <2>4. m.nodes = readOp.nodes \cup {i} /\ m.result = c /\ c \in Results
    BY <1>1, <2>1, <2>2, <2>3
  <2>5. m \in ReadOps
    BY <2>3, <2>4 DEF ReadOps
  <2> HIDE DEF m
  <2>6. MergedOK(m, id)
    BY <1>1, <2>1, <2>2, <2>4 DEF MergedOK
  <2> QED
    BY <2>2, <2>4, <2>5, <2>6 DEF m
<1> QED
  BY <1>2, <1>3

\* When as many nodes as there are shards have contributed the result is an answer.
LEMMA CompleteAnswers ==
    ASSUME log \in Logs, NEW id \in ReadIds, NEW readOp \in ReadOps, MergedOK(readOp, id),
           Complete(readOp), reads[id] \in Reads, readOp.nodes \subseteq reads[id].asked
    PROVE  LET r == readOp.result IN
           /\ EachShardAsked(id) => readOp.nodes = reads[id].asked
           /\ r \in Results /\ r.query.id = id
           /\ IsFound(r) => EntryAnswers(id, r.found, r.progress)
           /\ ~IsFound(r) => NothingAnswers(id)
<1> DEFINE r == readOp.result
<1>1. ASSUME EachShardAsked(id)
      PROVE  /\ readOp.nodes = reads[id].asked
             /\ \A sh \in 0 .. NumShards - 1 : \E i \in readOp.nodes : ShardOf(i) = sh
  <2>1. PICK P \in SUBSET IndexNodeIds : P = reads[id].asked
    BY DEF Reads
  <2>2. \A m, n \in P : ShardOf(m) = ShardOf(n) => m = n
    BY <1>1, <2>1 DEF EachShardAsked
  <2>3. PICK S \in SUBSET P : S = readOp.nodes /\ Cardinality(S) = NumShards
    BY <2>1 DEF Complete
  <2>4. S = P /\ \A sh \in 0 .. NumShards - 1 : \E i \in S : ShardOf(i) = sh
    BY <2>2, <2>3, ShardsCovered
  <2> QED
    BY <2>1, <2>3, <2>4
<1>2. readOp.nodes # {}
  BY PlanAssumption, FS_EmptySet DEF Complete
<1>3. /\ r \in Results /\ r.query.id = id /\ OfRead(r.query)
      /\ FoundOK(r) /\ \A i \in readOp.nodes : Covers(i, r)
  BY <1>2 DEF MergedOK
<1>4. ASSUME EachShardAsked(id), NEW s \in reads[id].seen, InRange(reads[id], s)
      PROVE  IsFound(r) /\ NotCloser(reads[id], r.found, s)
  <2>1. s \in Seqnums
    BY <1>3 DEF OfRead
  <2>2. Entry(s).pos - 1 \in Nat
    BY <2>1, LogFacts
  <2>3. (Entry(s).pos - 1) % NumShards \in 0 .. NumShards - 1
    BY <2>2, ModFacts
  <2>4. PICK i \in readOp.nodes : OwnsPosition(i, Entry(s).pos)
    BY <1>1, <1>4, <2>3 DEF OwnsPosition
  <2>5. InRange(r.query, s)
    BY <1>3, <1>4, SameQuery
  <2>6. IsFound(r) /\ NotCloser(r.query, r.found, s)
    BY <1>3, <2>4, <2>5 DEF Covers
  <2> QED
    BY <1>3, <2>6, SameQuery
<1>5. reads[id].status # "new"
  BY <1>3 DEF OfRead
<1>6. ASSUME IsFound(r) PROVE EntryAnswers(id, r.found, r.progress)
  <2>1. InRange(reads[id], r.found) /\ Entry(r.found).pos <= r.progress
    BY <1>3, <1>6, SameQuery DEF FoundOK
  <2>2. r.found \in Seqnums /\ r.progress \in Nat
    BY <1>3, <1>6, LogFacts DEF Results, IsFound
  <2> QED
    BY <1>4, <1>5, <2>1, <2>2 DEF EntryAnswers
<1>7. ASSUME ~IsFound(r) PROVE NothingAnswers(id)
  BY <1>4, <1>5, <1>7 DEF NothingAnswers
<1> QED
  BY <1>1, <1>3, <1>6, <1>7

\* So is a point hit, alone.
LEMMA PointHitAnswers ==
    ASSUME log \in Logs, NEW i, NEW r, ResultOK(i, r), IsPointHit(r)
    PROVE  EntryAnswers(r.query.id, r.found, r.progress)
<1>1. r \in Results /\ OfRead(r.query) /\ FoundOK(r) /\ IsFound(r) /\ r.found = r.query.seqnum
  BY DEF ResultOK, IsPointHit
<1>2. r.query.id \in ReadIds /\ reads[r.query.id].status # "new"
  BY <1>1 DEF Results, Queries, OfRead
<1>3. InRange(reads[r.query.id], r.found) /\ Entry(r.found).pos <= r.progress
  BY <1>1, SameQuery DEF FoundOK
<1>4. r.found \in Seqnums /\ r.progress \in Nat
  BY <1>1, LogFacts DEF Results, IsFound
<1>5. \A t \in reads[r.query.id].seen :
        InRange(reads[r.query.id], t) => NotCloser(reads[r.query.id], r.found, t)
  BY <1>1 DEF OfRead, InRange, NotCloser
<1> QED
  BY <1>2, <1>3, <1>4, <1>5 DEF EntryAnswers
-----------------------------------------------------------------------------
(* Steps. *)

\* A step that keeps the reads keeps what holds of the variables it leaves alone.
LEMMA Frame ==
    ASSUME Keeps
    PROVE  /\ IndexInv /\ index' = index => IndexInv'
           /\ PolledInv /\ polled' \subseteq polled => PolledInv'
           /\ OngoingInv /\ ongoing' = ongoing => OngoingInv'
           /\ MessageInv => \A m \in msgs : MessageOK(m)'
           /\ StorageInv => \A r \in storageReads : EntryAnswers(r.id, r.seqnum, r.progress)'
           /\ SessionOK /\ session' = session => SessionOK'
           /\ ReadInv /\ reads' = reads => ReadInv'
<1>1. /\ \A i, r : ResultOK(i, r) => ResultOK(i, r)'
      /\ \A readOp, id : MergedOK(readOp, id) => MergedOK(readOp, id)'
      /\ \A id, s, p : EntryAnswers(id, s, p) => EntryAnswers(id, s, p)'
      /\ \A id : NothingAnswers(id) => NothingAnswers(id)'
      /\ \A m : MessageOK(m) => MessageOK(m)'
  BY KeepsAnswers
<1>2. /\ Seqnums' = Seqnums /\ Results' = Results /\ LastPosition' = LastPosition
      /\ \A s : Entry(s)' = Entry(s)
      /\ log' = log
  BY LogSame DEF Keeps
<1>3. ASSUME IndexInv, index' = index PROVE IndexInv'
  BY <1>3, KeepsIndex DEF IndexInv, IndexOK
<1>4. ASSUME PolledInv, polled' \subseteq polled PROVE PolledInv'
  BY <1>1, <1>4 DEF PolledInv
<1>5. ASSUME OngoingInv, ongoing' = ongoing PROVE OngoingInv'
  <2>1. ReadOps' = ReadOps
    BY <1>2 DEF ReadOps
  <2> QED
    BY <1>1, <1>5, <2>1 DEF OngoingInv
<1>6. ASSUME SessionOK, session' = session PROVE SessionOK'
  BY <1>2, <1>6 DEF SessionOK
<1>7. ASSUME ReadInv, reads' = reads PROVE ReadInv'
  <2>1. Reads' = Reads
    BY <1>2 DEF Reads
  <2> QED
    BY <1>1, <1>2, <1>7, <2>1 DEF ReadInv, ReadOK
<1> QED
  BY <1>1, <1>3, <1>4, <1>5, <1>6, <1>7 DEF MessageInv, StorageInv

\* A step that leaves log and reads alone keeps the reads.
LEMMA KeepsSame ==
    ASSUME log' = log, reads' = reads
    PROVE  Keeps
  BY DEF Keeps

\* Tokens of a read move, and none is doubled.
LEMMA TokensMove ==
    ASSUME NEW id, TokenInv(id), reads'[id].status = "new" => reads[id].status = "new",
           reads'[id].asked = reads[id].asked,
           \A i \in IndexNodeIds : (Tokens(i, id) = {} => Tokens(i, id)' = {})
                                   /\ (Single(Tokens(i, id)) => Single(Tokens(i, id)'))
    PROVE  TokenInv(id)' /\ (Asked(id) = {} => Asked(id)' = {})
<1>1. Asked(id)' \subseteq Asked(id)
  BY DEF Asked
<1>2. Asked(id)' \subseteq reads'[id].asked
  BY <1>1 DEF TokenInv
<1>3. \A i \in IndexNodeIds : Single(Tokens(i, id)')
  BY DEF TokenInv
<1> QED
  BY <1>1, <1>2, <1>3 DEF TokenInv, Single

\* Subsets have no more tokens.
LEMMA SingleFacts ==
    /\ \A S, T : Single(T) /\ S \subseteq T => Single(S)
    /\ \A S, t, u : Single(S) /\ t \in S /\ u \in S => t = u
    /\ \A t : Single({t})
    /\ Single({})
  BY DEF Single

\* Steps with neither requests nor results of the index.
LEMMA QuietStep ==
    ASSUME log' = log, index' = index, polled' = polled, ongoing' = ongoing,
           \A m : m.op \in {"READ", "INDEX_RESULT"} => (m \in msgs' <=> m \in msgs)
    PROVE  /\ \A i, id : Tokens(i, id)' = Tokens(i, id)
           /\ \A id : Asked(id)' = Asked(id) /\ (PointHitSeen(id)' <=> PointHitSeen(id))
<1>1. \A r : IsPointHit(r)' <=> IsPointHit(r)
  BY LogSame
<1>2. ASSUME NEW i, NEW id PROVE Tokens(i, id)' = Tokens(i, id)
  <2>1. AtIndex(i, index[i], id)' = AtIndex(i, index[i], id)
    BY DEF AtIndex
  <2>2. MergedAt(i, id)' = MergedAt(i, id)
    BY DEF MergedAt
  <2>3. /\ {k \in msgs' : k.op = "READ" /\ k.to = i /\ k.query.id = id}
           = {k \in msgs : k.op = "READ" /\ k.to = i /\ k.query.id = id}
        /\ {k \in msgs' : k.op = "INDEX_RESULT" /\ k.from = i /\ k.result.query.id = id}
           = {k \in msgs : k.op = "INDEX_RESULT" /\ k.from = i /\ k.result.query.id = id}
    OBVIOUS
  <2>4. Carried(i, id)' = Carried(i, id)
    BY <2>3 DEF Carried
  <2> QED
    BY <2>1, <2>2, <2>4 DEF Tokens
<1>3. \A id : Asked(id)' = Asked(id)
  BY <1>2 DEF Asked
<1>4. ASSUME NEW id PROVE PointHitSeen(id)' <=> PointHitSeen(id)
  <2>1. ASSUME PointHitSeen(id) PROVE PointHitSeen(id)'
    <3>1. CASE \E m \in msgs : m.op = "INDEX_RESULT" /\ m.result.query.id = id /\ IsPointHit(m.result)
      BY <1>1, <3>1 DEF PointHitSeen
    <3>2. CASE \E g \in Mergers : ongoing[g][id].nodes # {} /\ IsPointHit(ongoing[g][id].result)
      BY <1>1, <3>2 DEF PointHitSeen
    <3> QED
      BY <2>1, <3>1, <3>2 DEF PointHitSeen
  <2>2. ASSUME PointHitSeen(id)' PROVE PointHitSeen(id)
    BY <1>1, <2>2 DEF PointHitSeen
  <2> QED
    BY <2>1, <2>2
<1> QED
  BY <1>2, <1>3, <1>4

\* Then the tokens stay as they are.
LEMMA QuietTokens ==
    ASSUME NEW id, TokenInv(id), Asked(id)' = Asked(id), \A i : Tokens(i, id)' = Tokens(i, id),
           reads'[id].status = "new" => reads[id].status = "new",
           reads'[id].asked = reads[id].asked
    PROVE  TokenInv(id)'
<1>1. \A i \in IndexNodeIds : Single(Tokens(i, id)')
  BY DEF TokenInv
<1> QED
  BY <1>1 DEF TokenInv, Single

\* An acknowledged append adds to what the call has seen.
LEMMA AppendFinishedStep ==
    ASSUME IndInv, NEW s \in OwnEntries, AppendFinished(s)
    PROVE  IndInv'
<1>1. Keeps /\ log \in Logs /\ log' = log
  BY KeepsSame DEF AppendFinished, IndInv, DataInv
<1>2. IndexInv' /\ PolledInv' /\ OngoingInv' /\ MessageInv' /\ StorageInv' /\ ReadInv'
  <2>1. /\ index' = index /\ polled' = polled /\ ongoing' = ongoing /\ msgs' = msgs
        /\ storageReads' = storageReads /\ reads' = reads
    BY DEF AppendFinished
  <2>2. StorageInv /\ MessageInv
    BY DEF IndInv, DataInv
  <2>3. MessageInv' /\ StorageInv'
    BY <1>1, <2>1, <2>2, Frame DEF MessageInv, StorageInv
  <2> QED
    BY <1>1, <2>1, <2>3, Frame DEF IndInv, DataInv
<1>3. SessionOK'
  <2>1. /\ session \in [progress : Nat, seen : SUBSET Seqnums]
        /\ \A q \in session.seen : q \in Seqnums /\ Entry(q).pos <= session.progress
    BY DEF IndInv, DataInv, SessionOK
  <2>2. /\ s \in Seqnums /\ Entry(s).pos \in Nat
        /\ \A q \in session.seen : Entry(q).pos \in Nat
    BY <1>1, <2>1, LogFacts
  <2> DEFINE P == {session.progress, Entry(s).pos}
  <2>3. \E y \in P : \A z \in P : y >= z
    BY <2>1, <2>2
  <2>4. Max(P) \in P /\ \A z \in P : Max(P) >= z
    BY <2>3 DEF Max
  <2>5. session' = [progress |-> Max(P), seen |-> session.seen \cup {s}]
    BY DEF AppendFinished
  <2>6. session'.progress \in Nat /\ session'.progress >= session.progress
        /\ session'.progress >= Entry(s).pos /\ session'.seen = session.seen \cup {s}
    BY <2>1, <2>2, <2>4, <2>5
  <2>7. session' \in [progress : Nat, seen : SUBSET Seqnums]
    BY <2>1, <2>2, <2>5, <2>6
  <2>8. \A q \in session'.seen : Entry(q).pos <= session'.progress
    BY <2>1, <2>2, <2>6
  <2> QED
    BY <1>1, <2>7, <2>8, LogSame DEF SessionOK
<1>4. ASSUME NEW id \in ReadIds PROVE TokenInv(id)' /\ AnswerInv(id)'
  <2>1. \A i : Tokens(i, id)' = Tokens(i, id)
    BY <1>1, QuietStep DEF AppendFinished
  <2>2. Asked(id)' = Asked(id) /\ (PointHitSeen(id)' <=> PointHitSeen(id))
    BY <1>1, QuietStep DEF AppendFinished
  <2>3. AnswersUnderWay(id)' = AnswersUnderWay(id) /\ (Answered(id)' <=> Answered(id))
    BY DEF AppendFinished, AnswersUnderWay, Answered
  <2>4. reads' = reads
    BY DEF AppendFinished
  <2>5. TokenInv(id) /\ AnswerInv(id)
    BY DEF IndInv
  <2>6. TokenInv(id)'
    BY <2>1, <2>2, <2>4, <2>5, QuietTokens
  <2>7. msgs' = msgs /\ storageReads' = storageReads /\ (EachShardAsked(id)' <=> EachShardAsked(id))
    BY <2>4 DEF AppendFinished, EachShardAsked
  <2> QED
    BY <2>2, <2>3, <2>4, <2>5, <2>6, <2>7 DEF AnswerInv, OneAnswerOf, Single
<1> QED
  BY <1>1, <1>2, <1>3, <1>4 DEF IndInv, DataInv, AppendFinished

\* The response of a storage node is an answer when the request was.
LEMMA ReadOkFacts ==
    ASSUME NEW r, EntryAnswers(r.id, r.seqnum, r.progress)
    PROVE  LET a == ReadOkResponse(r) IN
           a.op = "RESPONSE" /\ a.id = r.id /\ a.id \in ReadIds /\ MessageOK(a)
<1> DEFINE a == ReadOkResponse(r)
<1>1. /\ a.op = "RESPONSE" /\ a.result = "READ_OK" /\ a.id = r.id /\ a.seqnum = r.seqnum
      /\ a.progress = r.progress
  BY DEF ReadOkResponse, Response
<1> HIDE DEF a
<1>2. MessageOK(a)
  BY <1>1 DEF MessageOK, EntryAnswers
<1> QED
  BY <1>1, <1>2 DEF EntryAnswers, a

\* A storage node answers a read, or keeps it for later.
LEMMA HandleReadAtRequestStep ==
    ASSUME IndInv, NEW m \in msgs, HandleReadAtRequest(m)
    PROVE  IndInv'
<1> DEFINE a == ReadOkResponse(m)
<1>1. Keeps /\ log \in Logs /\ log' = log
  BY KeepsSame DEF HandleReadAtRequest, IndInv, DataInv
<1>2. m.op = "READ_AT" /\ EntryAnswers(m.id, m.seqnum, m.progress)
  BY DEF HandleReadAtRequest, IndInv, DataInv, MessageInv, MessageOK
<1>3. a.op = "RESPONSE" /\ a.id = m.id /\ m.id \in ReadIds /\ MessageOK(a)
  BY <1>2, ReadOkFacts
<1>4. /\ index' = index /\ polled' = polled /\ ongoing' = ongoing
      /\ session' = session /\ reads' = reads /\ merger' = merger
  BY DEF HandleReadAtRequest
<1>5. \/ msgs' = (msgs \ {m}) \cup {a} /\ storageReads' = storageReads
      \/ msgs' = msgs \ {m} /\ storageReads' = storageReads \cup {m}
  BY DEF HandleReadAtRequest
<1> HIDE DEF a
<1>6. /\ \A k \in msgs : MessageOK(k)
      /\ \A r \in storageReads : EntryAnswers(r.id, r.seqnum, r.progress) /\ r.op = "READ_AT"
  BY DEF IndInv, DataInv, MessageInv, StorageInv
<1>7. MessageInv' /\ StorageInv'
  <2>1. \A k \in msgs' : MessageOK(k)'
    BY <1>1, <1>3, <1>5, <1>6, KeepsAnswers
  <2>2. \A r \in storageReads' : EntryAnswers(r.id, r.seqnum, r.progress)' /\ r.op = "READ_AT"
    BY <1>1, <1>2, <1>5, <1>6, KeepsAnswers
  <2> QED
    BY <2>1, <2>2 DEF MessageInv, StorageInv
<1>8. IndexInv' /\ PolledInv' /\ OngoingInv' /\ ReadInv' /\ SessionOK'
  BY <1>1, <1>4, Frame DEF IndInv, DataInv
<1>9. ASSUME NEW id \in ReadIds PROVE TokenInv(id)' /\ AnswerInv(id)'
  <2>1. \A k : k.op \in {"READ", "INDEX_RESULT"} => (k \in msgs' <=> k \in msgs)
    BY <1>2, <1>3, <1>5
  <2>2. /\ \A i : Tokens(i, id)' = Tokens(i, id)
        /\ Asked(id)' = Asked(id) /\ (PointHitSeen(id)' <=> PointHitSeen(id))
    BY <1>1, <1>4, <2>1, QuietStep
  <2>3. TokenInv(id) /\ AnswerInv(id)
    BY DEF IndInv
  <2>4. TokenInv(id)'
    BY <1>4, <2>2, <2>3, QuietTokens
  <2> SUFFICES ASSUME EachShardAsked(id), OneAnswerOf(id) PROVE OneAnswerOf(id)'
    BY <1>4, <2>3, <2>4 DEF AnswerInv, EachShardAsked
  <2>5. CASE id # m.id
    <3>1. AnswersUnderWay(id)' = AnswersUnderWay(id)
      BY <1>3, <1>5, <2>5 DEF AnswersUnderWay
    <3>2. \A r \in storageReads' : r.id = id => r \notin msgs'
      BY <1>3, <1>5, <2>5 DEF OneAnswerOf
    <3> QED
      BY <1>4, <2>2, <3>1, <3>2 DEF OneAnswerOf, Single, Answered
  <2>6. CASE id = m.id
    <3>1. m \in AnswersUnderWay(id)
      BY <1>2, <2>6 DEF AnswersUnderWay
    <3>2. \A k \in AnswersUnderWay(id) : k = m
      BY <3>1 DEF OneAnswerOf, Single
    <3>3. \A r \in storageReads : r.id # id
      BY <3>2 DEF AnswersUnderWay, OneAnswerOf
    <3>4. AnswersUnderWay(id)' \subseteq {m, a} /\ (AnswersUnderWay(id)' # {m, a} \/ a = m)
      <4>1. \A k \in msgs \ {m} : ~(k.op \in {"RESPONSE", "READ_AT"} /\ k.id = id)
        BY <3>2 DEF AnswersUnderWay
      <4>2. CASE msgs' = (msgs \ {m}) \cup {a} /\ storageReads' = storageReads
        BY <1>2, <1>3, <3>3, <4>1, <4>2 DEF AnswersUnderWay
      <4>3. CASE msgs' = msgs \ {m} /\ storageReads' = storageReads \cup {m}
        BY <1>2, <1>3, <3>3, <4>1, <4>3 DEF AnswersUnderWay
      <4> QED
        BY <1>5, <4>2, <4>3
    <3>5. Single(AnswersUnderWay(id)')
      BY <3>4 DEF Single
    <3>6. \A r \in storageReads' : r.id = id => r \notin msgs'
      BY <1>2, <1>3, <1>5, <2>6, <3>3
    <3> QED
      BY <1>4, <2>2, <3>1, <3>5, <3>6 DEF OneAnswerOf, Single, Answered
  <2> QED
    BY <2>5, <2>6
<1> QED
  BY <1>1, <1>4, <1>7, <1>8, <1>9 DEF IndInv, DataInv

\* A storage node learns the order, sends index data and answers what waited.
LEMMA OnRecvNewMetaLogsStep ==
    ASSUME IndInv, NEW n, NEW p, OnRecvNewMetaLogs(n, p)
    PROVE  IndInv'
<1> DEFINE ready == {r \in storageReads : r.to = n /\ Entry(r.seqnum).pos <= p}
           data  == SendIndexData(n, PackagePositions(n, applied[n], p))
           done  == {ReadOkResponse(r) : r \in ready}
<1>1. Keeps /\ log \in Logs /\ log' = log
  BY KeepsSame DEF OnRecvNewMetaLogs, IndInv, DataInv
<1>2. /\ \A k \in msgs : MessageOK(k)
      /\ \A r \in storageReads : EntryAnswers(r.id, r.seqnum, r.progress) /\ r.op = "READ_AT"
  BY DEF IndInv, DataInv, MessageInv, StorageInv
<1>3. /\ index' = index /\ polled' = polled /\ ongoing' = ongoing
      /\ session' = session /\ reads' = reads /\ merger' = merger
      /\ storageReads' = storageReads \ ready
      /\ msgs' = msgs \cup data \cup done
  BY DEF OnRecvNewMetaLogs
<1>4. \A k \in data : k.op = "INDEX_DATA" /\ k.to \in IndexNodeIds
  BY DEF SendIndexData, IndexDataMsg
<1>5. /\ ready \subseteq storageReads
      /\ \A k \in done : k.op = "RESPONSE" /\ MessageOK(k) /\ \E r \in ready : k = ReadOkResponse(r)
                         /\ k.id = r.id
  BY <1>2, ReadOkFacts
<1> HIDE DEF ready, data, done
<1>6. \A k \in data : MessageOK(k)
  BY <1>4 DEF MessageOK
<1>7. MessageInv' /\ StorageInv'
  <2>1. \A k \in msgs' : MessageOK(k)'
    BY <1>1, <1>2, <1>3, <1>5, <1>6, KeepsAnswers
  <2>2. \A r \in storageReads' : EntryAnswers(r.id, r.seqnum, r.progress)' /\ r.op = "READ_AT"
    BY <1>1, <1>2, <1>3, KeepsAnswers
  <2> QED
    BY <2>1, <2>2 DEF MessageInv, StorageInv
<1>8. IndexInv' /\ PolledInv' /\ OngoingInv' /\ ReadInv' /\ SessionOK'
  BY <1>1, <1>3, Frame DEF IndInv, DataInv
<1>9. ASSUME NEW id \in ReadIds PROVE TokenInv(id)' /\ AnswerInv(id)'
  <2>1. \A k : k.op \in {"READ", "INDEX_RESULT"} => (k \in msgs' <=> k \in msgs)
    BY <1>3, <1>4, <1>5
  <2>2. /\ \A i : Tokens(i, id)' = Tokens(i, id)
        /\ Asked(id)' = Asked(id) /\ (PointHitSeen(id)' <=> PointHitSeen(id))
    BY <1>1, <1>3, <2>1, QuietStep
  <2>3. TokenInv(id) /\ AnswerInv(id)
    BY DEF IndInv
  <2>4. TokenInv(id)'
    BY <1>3, <2>2, <2>3, QuietTokens
  <2> SUFFICES ASSUME EachShardAsked(id), OneAnswerOf(id) PROVE OneAnswerOf(id)'
    BY <1>3, <2>3, <2>4 DEF AnswerInv, EachShardAsked
  <2>7. \A r \in storageReads' : r.id = id => r \notin msgs'
    BY <1>2, <1>3, <1>4, <1>5 DEF OneAnswerOf
  <2>5. CASE \A r \in ready : r.id # id
    <3>1. AnswersUnderWay(id)' = AnswersUnderWay(id)
      BY <1>3, <1>4, <1>5, <2>5 DEF AnswersUnderWay
    <3> QED
      BY <1>3, <2>2, <2>7, <3>1 DEF OneAnswerOf, Single, Answered
  <2>6. CASE \E r \in ready : r.id = id
    <3>1. PICK r \in ready : r.id = id
      BY <2>6
    <3>2. r \in AnswersUnderWay(id) /\ r \notin msgs
      BY <1>2, <1>5, <3>1 DEF AnswersUnderWay, OneAnswerOf
    <3>3. \A k \in AnswersUnderWay(id) : k = r
      BY <3>2 DEF OneAnswerOf, Single
    <3>4. \A k \in msgs : ~(k.op \in {"RESPONSE", "READ_AT"} /\ k.id = id)
      BY <3>2, <3>3 DEF AnswersUnderWay
    <3>5. \A q \in storageReads : q.id = id => q = r
      BY <3>3 DEF AnswersUnderWay
    <3>6. \A k \in done : k.id = id => k = ReadOkResponse(r)
      BY <1>5, <3>5
    <3>7. \A k \in AnswersUnderWay(id)' : k = ReadOkResponse(r)
      BY <1>3, <1>4, <3>1, <3>4, <3>5, <3>6 DEF AnswersUnderWay
    <3>8. Single(AnswersUnderWay(id)')
      BY <3>7 DEF Single
    <3> QED
      BY <1>3, <2>2, <2>7, <3>2, <3>8 DEF OneAnswerOf, Single, Answered
  <2> QED
    BY <2>5, <2>6
<1> QED
  BY <1>1, <1>3, <1>7, <1>8, <1>9 DEF IndInv, DataInv

\* The engine gets the response.
LEMMA OnRecvResponseStep ==
    ASSUME IndInv, NEW m \in msgs, OnRecvResponse(m)
    PROVE  IndInv'
<1> DEFINE id0 == m.id
<1>1. /\ log \in Logs /\ log' = log /\ m.op = "RESPONSE" /\ msgs' = msgs \ {m}
      /\ index' = index /\ polled' = polled /\ ongoing' = ongoing /\ merger' = merger
      /\ storageReads' = storageReads
  BY DEF OnRecvResponse, IndInv, DataInv
<1>2. MessageOK(m) /\ ReadInv /\ SessionOK
  BY DEF IndInv, DataInv, MessageInv
<1>3. /\ m.result \in {"READ_OK", "EMPTY", "DATA_LOST"}
      /\ m.result = "READ_OK" => EntryAnswers(id0, m.seqnum, m.progress)
      /\ m.result # "READ_OK" => m.seqnum = Invalid /\ m.progress = 0
      /\ m.result = "EMPTY" => NothingAnswers(id0)
      /\ id0 \in ReadIds /\ reads[id0].status # "new"
  BY <1>1, <1>2 DEF MessageOK, EntryAnswers, NothingAnswers
<1>4. \/ /\ reads[id0].status = "ongoing"
         /\ reads' = [reads EXCEPT ![id0].status = "done", ![id0].result = m.result,
                                   ![id0].found = m.seqnum]
         /\ session' = [session EXCEPT !.progress = Max({session.progress, m.progress}),
                                       !.seen = session.seen \cup ({m.seqnum} \ {Invalid})]
      \/ reads' = reads /\ session' = session
  BY DEF OnRecvResponse
<1>5. /\ DOMAIN reads = ReadIds /\ \A id \in ReadIds : reads[id] \in Reads
  BY <1>2 DEF ReadInv, ReadOK
<1>6. /\ DOMAIN reads' = ReadIds
      /\ \A id \in ReadIds \ {id0} : reads'[id] = reads[id]
      /\ \/ reads'[id0] = [reads[id0] EXCEPT !.status = "done", !.result = m.result,
                                             !.found = m.seqnum]
         \/ reads'[id0] = reads[id0]
  BY <1>3, <1>4, <1>5
<1>7. /\ \/ /\ reads'[id0].status = "done" /\ reads'[id0].result = m.result
            /\ reads'[id0].found = m.seqnum
            /\ reads'[id0].dir = reads[id0].dir /\ reads'[id0].tag = reads[id0].tag
            /\ reads'[id0].seqnum = reads[id0].seqnum /\ reads'[id0].seen = reads[id0].seen
            /\ reads'[id0].asked = reads[id0].asked
            /\ m.seqnum \in 0 .. Len(log) => reads'[id0] \in Reads
         \/ reads'[id0] = reads[id0]
  BY <1>3, <1>5, <1>6, ZenonT(60) DEF Reads
<1>8. Keeps
  BY <1>1, <1>3, <1>6, <1>7 DEF Keeps
<1>9. MessageInv' /\ StorageInv'
  <2>1. /\ \A k \in msgs : MessageOK(k)'
        /\ \A r \in storageReads : EntryAnswers(r.id, r.seqnum, r.progress)'
    BY <1>8, Frame DEF IndInv, DataInv
  <2>2. \A r \in storageReads : r.op = "READ_AT"
    BY DEF IndInv, DataInv, StorageInv
  <2> QED
    BY <1>1, <2>1, <2>2 DEF MessageInv, StorageInv
<1>10. IndexInv' /\ PolledInv' /\ OngoingInv'
  BY <1>1, <1>8, Frame DEF IndInv, DataInv
<1>11. /\ Len(log) \in Nat /\ Invalid = Len(log)
       /\ m.seqnum \in 0 .. Len(log) /\ m.progress \in Nat
       /\ m.seqnum # Invalid => m.seqnum \in Seqnums /\ Entry(m.seqnum).pos <= m.progress
       /\ m.result = "READ_OK" => EntryAnswers(id0, m.seqnum, LastPosition)
  <2>1. Len(log) \in Nat /\ Invalid = Len(log) /\ Seqnums = 0 .. Len(log) - 1 /\ LastPosition \in Nat
    BY <1>1, LogFacts
  <2>2. CASE m.result = "READ_OK"
    <3>1. m.seqnum \in Seqnums /\ m.progress \in Nat /\ Entry(m.seqnum).pos <= m.progress
      BY <1>3, <2>2 DEF EntryAnswers
    <3>2. Entry(m.seqnum).pos <= LastPosition
      BY <1>1, <3>1, LogFacts
    <3>3. EntryAnswers(id0, m.seqnum, LastPosition)
      BY <1>3, <2>1, <2>2, <3>2 DEF EntryAnswers
    <3> QED
      BY <2>1, <3>1, <3>3
  <2>3. CASE m.result # "READ_OK"
    BY <1>3, <2>1, <2>3
  <2> QED
    BY <2>2, <2>3
<1>12. ReadInv'
  <2>1. ASSUME NEW id \in ReadIds PROVE ReadOK(id)'
    <3>1. /\ Reads' = Reads /\ LastPosition' = LastPosition
      BY <1>1, LogSame DEF Reads
    <3>2. /\ \A s, p : EntryAnswers(id, s, p) => EntryAnswers(id, s, p)'
          /\ NothingAnswers(id) => NothingAnswers(id)'
      BY <1>8, KeepsAnswers
    <3>3. ReadOK(id)
      BY <1>2 DEF ReadInv
    <3>4. CASE reads'[id] = reads[id]
      BY <3>1, <3>2, <3>3, <3>4 DEF ReadOK
    <3>5. CASE reads'[id] # reads[id]
      <4>1. /\ id = id0 /\ reads'[id].status = "done" /\ reads'[id].result = m.result
            /\ reads'[id].found = m.seqnum /\ reads'[id] \in Reads
        BY <1>6, <1>7, <1>11, <3>5
      <4>2. reads'[id].result = "READ_OK" => EntryAnswers(id, reads[id].found, LastPosition)'
        <5> SUFFICES ASSUME reads'[id].result = "READ_OK"
                     PROVE  EntryAnswers(id, reads[id].found, LastPosition)'
          OBVIOUS
        <5>1. EntryAnswers(id, m.seqnum, LastPosition)
          BY <1>11, <4>1
        <5>2. (EntryAnswers(id, m.seqnum, LastPosition))'
          BY <1>8, <3>1, <5>1, KeepsAnswers
        <5> QED
          BY <4>1, <5>2
      <4>3. reads'[id].result = "EMPTY" => NothingAnswers(id)'
        BY <1>3, <3>2, <4>1
      <4> QED
        BY <3>1, <4>1, <4>2, <4>3 DEF ReadOK
    <3> QED
      BY <3>4, <3>5
  <2> QED
    BY <1>6, <2>1 DEF ReadInv
<1>13. SessionOK'
  <2>1. /\ session \in [progress : Nat, seen : SUBSET Seqnums]
        /\ \A q \in session.seen : q \in Seqnums /\ Entry(q).pos <= session.progress
    BY <1>2 DEF SessionOK
  <2>2. CASE session' = session
    BY <1>2, <1>8, <2>2, Frame
  <2>3. CASE session' # session
    <3> DEFINE P == {session.progress, m.progress}
               new == {m.seqnum} \ {Invalid}
    <3>1. \E y \in P : \A z \in P : y >= z
      BY <1>11, <2>1
    <3>2. Max(P) \in P /\ \A z \in P : Max(P) >= z
      BY <3>1 DEF Max
    <3>3. /\ session'.progress = Max(P) /\ session'.seen = session.seen \cup new
          /\ session' = [progress |-> Max(P), seen |-> session.seen \cup new]
      BY <1>4, <2>1, <2>3
    <3>4. /\ session'.progress \in Nat /\ session'.progress >= session.progress
          /\ session'.progress >= m.progress
      BY <1>11, <2>1, <3>2, <3>3
    <3>5. \A q \in new : q \in Seqnums /\ Entry(q).pos <= m.progress
      BY <1>11
    <3>6. \A q \in Seqnums : Entry(q).pos \in Nat
      BY <1>1, LogFacts
    <3>7. session' \in [progress : Nat, seen : SUBSET Seqnums]
      BY <2>1, <3>3, <3>4, <3>5
    <3>8. \A q \in session'.seen : Entry(q).pos <= session'.progress
      BY <1>11, <2>1, <3>3, <3>4, <3>5, <3>6
    <3> QED
      BY <1>1, <3>7, <3>8, LogSame DEF SessionOK
  <2> QED
    BY <2>2, <2>3
<1>14. ASSUME NEW id \in ReadIds PROVE TokenInv(id)' /\ AnswerInv(id)'
  <2>1. \A k : k.op \in {"READ", "INDEX_RESULT"} => (k \in msgs' <=> k \in msgs)
    BY <1>1
  <2>2. /\ \A i : Tokens(i, id)' = Tokens(i, id)
        /\ Asked(id)' = Asked(id) /\ (PointHitSeen(id)' <=> PointHitSeen(id))
    BY <1>1, <2>1, QuietStep
  <2>3. TokenInv(id) /\ AnswerInv(id)
    BY DEF IndInv
  <2>4. /\ reads'[id].status = "new" => reads[id].status = "new"
        /\ reads'[id].asked = reads[id].asked
    BY <1>6, <1>7
  <2>5. TokenInv(id)'
    BY <2>2, <2>3, <2>4, QuietTokens
  <2> SUFFICES ASSUME EachShardAsked(id), OneAnswerOf(id) PROVE OneAnswerOf(id)'
    BY <2>3, <2>4, <2>5 DEF AnswerInv, EachShardAsked
  <2>8. \A r \in storageReads' : r.id = id => r \notin msgs'
    BY <1>1 DEF OneAnswerOf
  <2>6. CASE id # id0
    <3>1. AnswersUnderWay(id)' = AnswersUnderWay(id)
      BY <1>1, <2>6 DEF AnswersUnderWay
    <3>2. reads'[id] = reads[id]
      BY <1>6, <2>6
    <3> QED
      BY <2>2, <2>8, <3>1, <3>2 DEF OneAnswerOf, Single, Answered
  <2>7. CASE id = id0
    <3>1. m \in AnswersUnderWay(id)
      BY <1>1, <2>7 DEF AnswersUnderWay
    <3>2. \A k \in AnswersUnderWay(id) : k = m
      BY <3>1 DEF OneAnswerOf, Single
    <3>3. \A r \in storageReads : r # m
      BY <1>1 DEF IndInv, DataInv, StorageInv
    <3>4. AnswersUnderWay(id)' = {}
      BY <1>1, <3>2, <3>3 DEF AnswersUnderWay
    <3>5. Asked(id) = {} \/ PointHitSeen(id)
      BY <3>1 DEF OneAnswerOf
    <3> QED
      BY <2>2, <2>8, <3>4, <3>5 DEF OneAnswerOf, Single
  <2> QED
    BY <2>6, <2>7
<1> QED
  BY <1>1, <1>9, <1>10, <1>12, <1>13, <1>14 DEF IndInv, DataInv

\* The engine sends a read to one index node of every shard, or to some of them.
LEMMA HandleIndexTierReadStep ==
    ASSUME IndInv, NEW id0 \in NextRead, NEW picked \in PickIndexNodePerShard,
           NEW dir \in Directions, NEW tag \in QueryTags, NEW seqnum \in QuerySeqnums,
           NEW master \in MergerChoices(picked), NEW sent \in SUBSET picked,
           HandleIndexTierRead(id0, dir, tag, seqnum, picked, master, sent)
    PROVE  IndInv'
<1>0. PICK q : q = [id |-> id0, dir |-> dir, tag |-> tag, seqnum |-> seqnum,
                   progress |-> session.progress, master |-> master, type |-> merger]
  OBVIOUS
<1> DEFINE new == {[op |-> "READ", to |-> i, query |-> q] : i \in sent}
           rd == [status |-> IF sent = picked THEN "ongoing" ELSE "done",
                  dir |-> dir, tag |-> tag, seqnum |-> seqnum, seen |-> session.seen, asked |-> picked,
                  result |-> IF sent = picked THEN None ELSE "DATA_LOST", found |-> Invalid]
<1>1. /\ log \in Logs /\ log' = log /\ msgs' = msgs \cup new
      /\ index' = index /\ polled' = polled /\ ongoing' = ongoing /\ merger' = merger
      /\ storageReads' = storageReads /\ session' = session
      /\ reads' = [reads EXCEPT ![id0] = rd]
  BY <1>0 DEF HandleIndexTierRead, ReadMsg, IndInv, DataInv
<1>2. /\ id0 \in ReadIds /\ reads[id0].status = "new"
      /\ DOMAIN reads = ReadIds /\ ReadInv /\ SessionOK /\ merger \in {"master-slave", "aggregator"}
  BY DEF NextRead, IndInv, DataInv, ReadInv
<1>3. /\ DOMAIN reads' = ReadIds /\ reads'[id0] = rd
      /\ \A id \in ReadIds \ {id0} : reads'[id] = reads[id]
  BY <1>1, <1>2
<1>4. Keeps
  BY <1>1, <1>2, <1>3 DEF Keeps
<1>5. /\ session.progress \in Nat /\ session.seen \in SUBSET Seqnums
      /\ \A s \in session.seen : Entry(s).pos <= session.progress
  BY <1>2 DEF SessionOK
<1>6. q \in Queries
  <2>1. master \in Mergers
    BY PickedNodes DEF MergerChoices, Mergers
  <2> QED
    BY <1>0, <1>2, <1>5, <2>1 DEF Queries
<1>7. OfRead(q)'
  <2>1. /\ reads'[q.id].status # "new" /\ q.dir = reads'[q.id].dir
        /\ q.tag = reads'[q.id].tag /\ q.seqnum = reads'[q.id].seqnum
        /\ reads'[q.id].seen = session.seen /\ q.progress = session.progress
    BY <1>0, <1>3
  <2>2. \A s \in reads'[q.id].seen : s \in Seqnums' /\ Entry(s)'.pos <= q.progress
    BY <1>1, <1>5, <2>1, LogSame
  <2> QED
    BY <2>1, <2>2 DEF OfRead
<1>8. /\ \A m \in new : m.op = "READ" /\ m.to \in sent /\ m.query = q
      /\ \A m \in new : m = [op |-> "READ", to |-> m.to, query |-> q]
      /\ q.id = id0
  BY <1>0
<1>9. sent \subseteq picked /\ picked \subseteq IndexNodeIds
  BY PickedNodes
<1>10. rd \in Reads /\ rd.status # "new" /\ rd.asked = picked /\ rd.result \in {None, "DATA_LOST"}
       /\ (rd.status # "done" => rd.result = None)
  <2>1. Invalid \in 0 .. Len(log) /\ seqnum \in Nat
    BY <1>1, LogFacts, IndexTierAssumption
  <2> QED
    BY <1>5, <1>9, <2>1 DEF Reads
<1> HIDE DEF new, rd
<1>11. MessageInv' /\ StorageInv'
  <2>1. /\ \A k \in msgs : MessageOK(k)'
        /\ \A r \in storageReads : EntryAnswers(r.id, r.seqnum, r.progress)'
    BY <1>4, Frame DEF IndInv, DataInv
  <2>2. \A r \in storageReads : r.op = "READ_AT"
    BY DEF IndInv, DataInv, StorageInv
  <2>3. \A k \in new : MessageOK(k)'
    BY <1>6, <1>7, <1>8, <1>9 DEF MessageOK
  <2> QED
    BY <1>1, <1>8, <2>1, <2>2, <2>3 DEF MessageInv, StorageInv
<1>12. IndexInv' /\ PolledInv' /\ OngoingInv' /\ SessionOK'
  BY <1>1, <1>4, Frame DEF IndInv, DataInv
<1>13. None \notin {"READ_OK", "EMPTY", "DATA_LOST"}
  BY IndexTierAssumption
<1>14. ReadInv'
  <2>1. ASSUME NEW id \in ReadIds PROVE ReadOK(id)'
    <3>1. Reads' = Reads /\ LastPosition' = LastPosition
      BY <1>1, LogSame DEF Reads
    <3>2. /\ \A s, p : EntryAnswers(id, s, p) => EntryAnswers(id, s, p)'
          /\ NothingAnswers(id) => NothingAnswers(id)'
      BY <1>4, KeepsAnswers
    <3>3. ReadOK(id)
      BY <1>2 DEF ReadInv
    <3>4. CASE id = id0
      BY <1>3, <1>10, <1>13, <3>1, <3>4 DEF ReadOK
    <3>5. CASE id # id0
      <4>1. reads'[id] = reads[id]
        BY <1>3, <3>5
      <4> QED
        BY <3>1, <3>2, <3>3, <4>1 DEF ReadOK
    <3> QED
      BY <3>4, <3>5
  <2> QED
    BY <1>3, <2>1 DEF ReadInv
<1>15. \A r : IsPointHit(r)' <=> IsPointHit(r)
  BY <1>1, LogSame
<1>16. ASSUME NEW id \in ReadIds, id # id0 PROVE TokenInv(id)' /\ AnswerInv(id)'
  <2>1. ASSUME NEW i PROVE Tokens(i, id)' = Tokens(i, id)
    <3>1. AtIndex(i, index[i], id)' = AtIndex(i, index[i], id) /\ MergedAt(i, id)' = MergedAt(i, id)
      BY <1>1 DEF AtIndex, MergedAt
    <3>2. /\ {k \in msgs' : k.op = "READ" /\ k.to = i /\ k.query.id = id}
             = {k \in msgs : k.op = "READ" /\ k.to = i /\ k.query.id = id}
          /\ {k \in msgs' : k.op = "INDEX_RESULT" /\ k.from = i /\ k.result.query.id = id}
             = {k \in msgs : k.op = "INDEX_RESULT" /\ k.from = i /\ k.result.query.id = id}
      BY <1>1, <1>8, <1>16
    <3>3. Carried(i, id)' = Carried(i, id)
      BY <1>1, <3>2 DEF Carried
    <3> QED
      BY <3>1, <3>3 DEF Tokens
  <2>2. Asked(id)' = Asked(id)
    BY <2>1 DEF Asked
  <2>3. AnswersUnderWay(id)' = AnswersUnderWay(id) /\ reads'[id] = reads[id]
    BY <1>1, <1>3, <1>8, <1>16 DEF AnswersUnderWay
  <2>4. PointHitSeen(id) => PointHitSeen(id)'
    BY <1>1, <1>15 DEF PointHitSeen
  <2>5. TokenInv(id) /\ AnswerInv(id)
    BY DEF IndInv
  <2>6. TokenInv(id)'
    BY <2>1, <2>2, <2>3, <2>5, QuietTokens
  <2> SUFFICES ASSUME EachShardAsked(id), OneAnswerOf(id) PROVE OneAnswerOf(id)'
    BY <2>3, <2>5, <2>6 DEF AnswerInv, EachShardAsked
  <2>7. \A r \in storageReads' : r.id = id => r \notin msgs'
    <3>1. \A r \in storageReads : r.op = "READ_AT"
      BY DEF IndInv, DataInv, StorageInv
    <3> QED
      BY <1>1, <1>8, <3>1 DEF OneAnswerOf
  <2> QED
    BY <2>2, <2>3, <2>4, <2>7 DEF OneAnswerOf, Single, Answered
<1>17. TokenInv(id0)'
  <2>1. TokenInv(id0) /\ Asked(id0) = {}
    BY <1>2 DEF IndInv, TokenInv
  <2>2. ASSUME NEW i \in IndexNodeIds, NEW t \in Tokens(i, id0)'
        PROVE  i \in sent /\ t = <<"asked", [op |-> "READ", to |-> i, query |-> q]>>
    <3>1. Tokens(i, id0) = {}
      BY <2>1 DEF Asked
    <3>2. AtIndex(i, index[i], id0)' = AtIndex(i, index[i], id0) /\ MergedAt(i, id0)' = MergedAt(i, id0)
      BY <1>1 DEF AtIndex, MergedAt
    <3>3. t \in Carried(i, id0)' /\ Carried(i, id0) = {}
      BY <3>1, <3>2 DEF Tokens
    <3>4. /\ \A k \in msgs : ~(k.op = "READ" /\ k.to = i /\ k.query.id = id0)
          /\ \A k \in msgs : ~(k.op = "INDEX_RESULT" /\ k.from = i /\ k.result.query.id = id0)
          /\ \A x \in polled : ~(x.node = i /\ x.result.query.id = id0)
      <4>1. ASSUME NEW k \in msgs, k.op = "READ", k.to = i, k.query.id = id0 PROVE FALSE
        <5>1. <<"asked", k>> \in Carried(i, id0)
          BY <4>1 DEF Carried
        <5> QED BY <3>3, <5>1
      <4>2. ASSUME NEW k \in msgs, k.op = "INDEX_RESULT", k.from = i, k.result.query.id = id0
            PROVE  FALSE
        <5>1. <<"sent", k>> \in Carried(i, id0)
          BY <4>2 DEF Carried
        <5> QED BY <3>3, <5>1
      <4>3. ASSUME NEW x \in polled, x.node = i, x.result.query.id = id0 PROVE FALSE
        <5>1. <<"polled", x>> \in Carried(i, id0)
          BY <4>3 DEF Carried
        <5> QED BY <3>3, <5>1
      <4> QED
        BY <4>1, <4>2, <4>3
    <3>5. \E k \in msgs' : /\ t = <<"asked", k>> /\ k.op = "READ" /\ k.to = i
                           /\ k.query.id = id0
      BY <1>1, <1>8, <3>3, <3>4 DEF Carried
    <3>6. PICK k \in new : t = <<"asked", k>> /\ k.to = i
      BY <1>1, <3>4, <3>5
    <3> QED
      BY <1>8, <3>6
  <2>3. Asked(id0)' \subseteq picked
    BY <1>9, <2>2 DEF Asked
  <2>4. \A i \in IndexNodeIds : Single(Tokens(i, id0)')
    BY <2>2 DEF Single
  <2>5. reads'[id0].status # "new" /\ reads'[id0].asked = picked
    BY <1>3, <1>10
  <2> QED
    BY <2>3, <2>4, <2>5 DEF TokenInv, Single
<1>18. AnswerInv(id0)'
  <2>1. AnswersUnderWay(id0) = {}
    <3>1. EachShardAsked(id0)
      BY <1>2 DEF ReadInv, ReadOK, EachShardAsked
    <3> QED
      BY <1>2, <3>1 DEF IndInv, AnswerInv, OneAnswerOf
  <2>2. AnswersUnderWay(id0)' = {}
    BY <1>1, <1>8, <2>1 DEF AnswersUnderWay
  <2>3. ~Answered(id0)'
    BY <1>3, <1>10, <1>13 DEF Answered
  <2>4. \A r \in storageReads' : r.id # id0
    BY <2>2 DEF AnswersUnderWay
  <2> QED
    BY <2>2, <2>3, <2>4 DEF AnswerInv, OneAnswerOf, Single
<1> QED
  BY <1>1, <1>2, <1>11, <1>12, <1>14, <1>16, <1>17, <1>18 DEF IndInv, DataInv

\* Results that are polled leave the index; the tokens are those of the index before.
LEMMA PollTokens ==
    ASSUME IndexInv, NEW i \in IndexNodeIds, NEW x \in Shards, PollQueryResults(i, x),
           msgs' \subseteq msgs, ongoing' = ongoing, NEW id
    PROVE  /\ Tokens(i, id)' \subseteq AtIndex(i, x, id) \cup Carried(i, id) \cup MergedAt(i, id)
           /\ \A j \in IndexNodeIds \ {i} : Tokens(j, id)' \subseteq Tokens(j, id)
           /\ \A j, m : m \notin msgs' => <<"asked", m>> \notin Tokens(j, id)'
           /\ \A j \in IndexNodeIds \ {i} : index'[j] = index[j]
           /\ index'[i] = [x EXCEPT !.results = {}] /\ DOMAIN index' = IndexNodeIds
<1> DEFINE y == [x EXCEPT !.results = {}]
<1>1. /\ index' = [index EXCEPT ![i] = y] /\ DOMAIN index = IndexNodeIds
      /\ polled' = polled \cup {[node |-> i, result |-> r] : r \in x.results}
  BY DEF PollQueryResults, IndexInv
<1>2. y.pending = x.pending /\ y.blocking = x.blocking /\ y.results = {}
  BY DEF Shards
<1>3. /\ index'[i] = y /\ DOMAIN index' = IndexNodeIds
      /\ \A j \in IndexNodeIds \ {i} : index'[j] = index[j]
  BY <1>1
<1> HIDE DEF y
<1>4. \A j : MergedAt(j, id)' = MergedAt(j, id)
  BY DEF MergedAt
<1>5. ASSUME NEW j, NEW t \in Carried(j, id)'
      PROVE  \/ t \in Carried(j, id)
             \/ j = i /\ \E r \in x.results : r.query.id = id /\ t = <<"polled", [node |-> i, result |-> r]>>
  <2>1. \/ \E m \in msgs' : t = <<"asked", m>> /\ m.op = "READ" /\ m.to = j /\ m.query.id = id
        \/ \E z \in polled' : t = <<"polled", z>> /\ z.node = j /\ z.result.query.id = id
        \/ \E m \in msgs' : /\ t = <<"sent", m>> /\ m.op = "INDEX_RESULT" /\ m.from = j
                            /\ m.result.query.id = id
    BY <1>5 DEF Carried
  <2>2. CASE \E m \in msgs' : t = <<"asked", m>> /\ m.op = "READ" /\ m.to = j /\ m.query.id = id
    BY <2>2 DEF Carried
  <2>3. CASE \E m \in msgs' : /\ t = <<"sent", m>> /\ m.op = "INDEX_RESULT" /\ m.from = j
                              /\ m.result.query.id = id
    BY <2>3 DEF Carried
  <2>4. CASE \E z \in polled' : t = <<"polled", z>> /\ z.node = j /\ z.result.query.id = id
    <3>1. PICK z \in polled' : t = <<"polled", z>> /\ z.node = j /\ z.result.query.id = id
      BY <2>4
    <3>2. CASE z \in polled
      BY <3>1, <3>2 DEF Carried
    <3>3. CASE z \notin polled
      <4>1. PICK r \in x.results : z = [node |-> i, result |-> r]
        BY <1>1, <3>3
      <4>2. z.node = i /\ z.result = r
        BY <4>1
      <4> QED
        BY <3>1, <4>1, <4>2
    <3> QED
      BY <3>2, <3>3
  <2> QED
    BY <2>1, <2>2, <2>3, <2>4
<1>6. ASSUME NEW t \in Tokens(i, id)'
      PROVE  t \in AtIndex(i, x, id) \cup Carried(i, id) \cup MergedAt(i, id)
  <2>1. t \in AtIndex(i, y, id) \/ t \in Carried(i, id)' \/ t \in MergedAt(i, id)
    BY <1>3, <1>4, <1>6 DEF Tokens, AtIndex
  <2>2. AtIndex(i, y, id) \subseteq AtIndex(i, x, id)
    BY <1>2 DEF AtIndex
  <2>3. t \in Carried(i, id)' => t \in Carried(i, id) \cup AtIndex(i, x, id)
    BY <1>5 DEF AtIndex
  <2> QED
    BY <2>1, <2>2, <2>3
<1>7. ASSUME NEW j \in IndexNodeIds \ {i} PROVE Tokens(j, id)' \subseteq Tokens(j, id)
  <2>1. AtIndex(j, index[j], id)' = AtIndex(j, index[j], id)
    BY <1>3 DEF AtIndex
  <2>2. Carried(j, id)' \subseteq Carried(j, id)
    BY <1>5
  <2> QED
    BY <1>4, <2>1, <2>2 DEF Tokens
<1>8. ASSUME NEW j, NEW m, m \notin msgs', <<"asked", m>> \in Tokens(j, id)' PROVE FALSE
  <2>1. <<"asked", m>> \in Carried(j, id)'
    BY <1>8 DEF Tokens, AtIndex, MergedAt
  <2>2. \E k \in msgs' : <<"asked", m>> = <<"asked", k>>
    BY <2>1 DEF Carried
  <2> QED
    BY <1>8, <2>2
<1> QED
  BY <1>3, <1>6, <1>7, <1>8 DEF y

\* What an index node does for a message, apart from the tokens.
LEMMA PollStep ==
    ASSUME IndInv, NEW i \in IndexNodeIds, NEW x, IndexOK(i, x), PollQueryResults(i, x),
           NEW m \in msgs, m.op \in {"READ", "INDEX_DATA"}, msgs' = msgs \ {m},
           UNCHANGED <<log, merger, applied, reads, session, ongoing, storageReads>>,
           \A id \in ReadIds : \A j \in IndexNodeIds :
               (Tokens(j, id) = {} => Tokens(j, id)' = {})
               /\ (Single(Tokens(j, id)) => Single(Tokens(j, id)'))
    PROVE  IndInv'
<1>1. Keeps /\ log \in Logs /\ log' = log
  BY KeepsSame DEF IndInv, DataInv
<1>2. /\ x \in Shards /\ index'[i] = [x EXCEPT !.results = {}] /\ DOMAIN index' = IndexNodeIds
      /\ \A j \in IndexNodeIds \ {i} : index'[j] = index[j]
  <2>1. x \in Shards /\ IndexInv
    BY DEF IndexOK, ShardOK, IndInv, DataInv
  <2> QED
    BY <2>1, PollTokens
<1>3. IndexInv'
  <2> DEFINE y == [x EXCEPT !.results = {}]
  <2>1. IndexOK(i, y) /\ y.results = {}
    <3>1. /\ y \in Shards
          /\ y.indexed = x.indexed /\ y.entries = x.entries /\ y.updates = x.updates
          /\ y.received = x.received /\ y.expected = x.expected
          /\ y.pending = x.pending /\ y.blocking = x.blocking /\ y.results = {}
      BY <1>2 DEF Shards
    <3> HIDE DEF y
    <3>2. ShardOK(i, y)
      BY <3>1, QueriesApart DEF IndexOK
    <3>3. QueriesOK(i, y)
      BY <3>1 DEF IndexOK, QueriesOK
    <3> QED
      BY <3>1, <3>2, <3>3 DEF IndexOK
  <2> HIDE DEF y
  <2>2. \A j \in IndexNodeIds : IndexOK(j, index[j]) /\ index[j].results = {}
    BY DEF IndInv, DataInv, IndexInv
  <2>3. ASSUME NEW j \in IndexNodeIds PROVE IndexOK(j, index[j])' /\ index'[j].results = {}
    <3>1. PICK z : z = index'[j]
      OBVIOUS
    <3>2. IndexOK(j, z) /\ z.results = {}
      BY <1>2, <2>1, <2>2, <3>1 DEF y
    <3>3. ShardOK(j, z)' /\ QueriesOK(j, z)'
      BY <1>1, <3>2, KeepsIndex
    <3> QED
      BY <3>1, <3>2, <3>3 DEF IndexOK
  <2> QED
    BY <1>2, <2>3 DEF IndexInv
<1>4. PolledInv'
  <2>1. polled' = polled \cup {[node |-> i, result |-> r] : r \in x.results}
    BY DEF PollQueryResults
  <2>2. \A r \in x.results : ResultOK(i, r)
    BY DEF IndexOK, QueriesOK
  <2>3. \A z \in polled' : z.node \in IndexNodeIds /\ ResultOK(z.node, z.result)
    BY <2>1, <2>2 DEF IndInv, DataInv, PolledInv
  <2> QED
    BY <1>1, <2>3, KeepsAnswers DEF PolledInv
<1>5. OngoingInv' /\ ReadInv' /\ SessionOK'
  BY <1>1, Frame DEF IndInv, DataInv
<1>6. MessageInv' /\ StorageInv'
  <2>1. /\ \A k \in msgs : MessageOK(k)'
        /\ \A r \in storageReads : EntryAnswers(r.id, r.seqnum, r.progress)'
    BY <1>1, Frame DEF IndInv, DataInv
  <2>2. \A r \in storageReads : r.op = "READ_AT"
    BY DEF IndInv, DataInv, StorageInv
  <2> QED
    BY <2>1, <2>2 DEF MessageInv, StorageInv
<1>7. ASSUME NEW id \in ReadIds PROVE TokenInv(id)' /\ AnswerInv(id)'
  <2>1. TokenInv(id) /\ AnswerInv(id)
    BY DEF IndInv
  <2>2. TokenInv(id)' /\ (Asked(id) = {} => Asked(id)' = {})
    BY <2>1, TokensMove
  <2>3. AnswersUnderWay(id)' = AnswersUnderWay(id)
    BY DEF AnswersUnderWay
  <2>4. PointHitSeen(id) => PointHitSeen(id)'
    <3>1. \A r : IsPointHit(r)' <=> IsPointHit(r)
      BY <1>1, LogSame
    <3> QED
      BY <3>1 DEF PointHitSeen
  <2>5. EachShardAsked(id)' <=> EachShardAsked(id)
    BY DEF EachShardAsked
  <2>6. \A r \in storageReads' : r.id = id /\ r \notin msgs => r \notin msgs'
    OBVIOUS
  <2> QED
    BY <2>1, <2>2, <2>3, <2>4, <2>5, <2>6 DEF AnswerInv, OneAnswerOf, Single, Answered
<1> QED
  BY <1>1, <1>3, <1>4, <1>5, <1>6, <1>7 DEF IndInv, DataInv

\* An operation of the index that doubles no token there doubles none of the node's.
LEMMA IndexMoves ==
    ASSUME IndexInv, NEW i \in IndexNodeIds, NEW x, NEW id, NEW T,
           AtIndex(i, index[i], id) = {} => AtIndex(i, x, id) = {},
           Single(AtIndex(i, index[i], id)) => Single(AtIndex(i, x, id)),
           T \subseteq AtIndex(i, x, id) \cup Carried(i, id) \cup MergedAt(i, id)
    PROVE  /\ Tokens(i, id) = {} => T = {}
           /\ Single(Tokens(i, id)) => Single(T)
<1>1. \A t \in AtIndex(i, index[i], id) : t \notin Carried(i, id) \cup MergedAt(i, id)
  <2>1. index[i].results = {}
    BY DEF IndexInv
  <2> QED
    BY <2>1 DEF AtIndex, Carried, MergedAt
<1>2. Tokens(i, id) = AtIndex(i, index[i], id) \cup Carried(i, id) \cup MergedAt(i, id)
  BY DEF Tokens
<1>3. ASSUME Single(Tokens(i, id)) PROVE Single(T)
  <2>1. CASE AtIndex(i, index[i], id) = {}
    <3>1. T \subseteq Tokens(i, id)
      BY <1>2, <2>1
    <3> QED
      BY <1>3, <3>1, SingleFacts
  <2>2. CASE AtIndex(i, index[i], id) # {}
    <3>1. PICK t : t \in AtIndex(i, index[i], id)
      BY <2>2
    <3>2. \A u \in Tokens(i, id) : u = t
      BY <1>2, <1>3, <3>1 DEF Single
    <3>3. Carried(i, id) \cup MergedAt(i, id) = {}
      BY <1>1, <1>2, <3>1, <3>2
    <3>4. Single(AtIndex(i, index[i], id))
      BY <1>2, <1>3, SingleFacts
    <3>5. T \subseteq AtIndex(i, x, id)
      BY <3>3
    <3> QED
      BY <3>4, <3>5, SingleFacts
  <2> QED
    BY <2>1, <2>2
<1> QED
  BY <1>2, <1>3

\* An index node takes a request.
LEMMA HandleReadRequestStep ==
    ASSUME IndInv, NEW m \in msgs, HandleReadRequest(m)
    PROVE  IndInv'
<1> DEFINE i == m.to
           q == m.query
           x == MakeQuery(index[i], q)
<1>1. /\ m.op = "READ" /\ PollQueryResults(i, x) /\ msgs' = msgs \ {m}
      /\ UNCHANGED <<log, merger, applied, reads, session, ongoing, storageReads>>
  BY DEF HandleReadRequest
<1>2. /\ i \in IndexNodeIds /\ q \in Queries /\ OfRead(q) /\ log \in Logs
      /\ IndexInv /\ IndexOK(i, index[i])
  BY <1>1 DEF IndInv, DataInv, MessageInv, MessageOK, IndexInv
<1>3. i \in Nat /\ q.id \in ReadIds
  BY <1>2, IndexNodeFacts DEF Queries
<1>4. /\ IndexOK(i, x)
      /\ \A id \in ReadIds \ {q.id} : (NoneAt(index[i], id) => NoneAt(x, id))
                                      /\ (OneAt(index[i], id) => OneAt(x, id))
      /\ NoneAt(index[i], q.id) => OneAt(x, q.id)
  BY <1>2, <1>3, MakeQueryStep
<1>5. x \in Shards
  BY <1>4 DEF IndexOK, ShardOK
<1> HIDE DEF i, q, x
<1>6. ASSUME NEW id \in ReadIds, NEW j \in IndexNodeIds
      PROVE  (Tokens(j, id) = {} => Tokens(j, id)' = {})
             /\ (Single(Tokens(j, id)) => Single(Tokens(j, id)'))
  <2>1. /\ Tokens(i, id)' \subseteq AtIndex(i, x, id) \cup Carried(i, id) \cup MergedAt(i, id)
        /\ j # i => Tokens(j, id)' \subseteq Tokens(j, id)
        /\ <<"asked", m>> \notin Tokens(i, id)'
    BY <1>1, <1>2, <1>5, PollTokens
  <2>2. CASE j # i
    BY <2>1, <2>2, SingleFacts
  <2>3. CASE j = i /\ id = q.id
    <3>1. <<"asked", m>> \in Tokens(i, id)
      BY <1>1, <2>3 DEF Tokens, Carried, i, q
    <3>2. SUFFICES ASSUME Single(Tokens(i, id)) PROVE Single(Tokens(i, id)')
      BY <2>3, <3>1
    <3>3. \A t \in Tokens(i, id) : t = <<"asked", m>>
      BY <3>1, <3>2 DEF Single
    <3>4. AtIndex(i, index[i], id) = {}
      <4>1. <<"asked", m>> \notin AtIndex(i, index[i], id)
        BY DEF AtIndex
      <4> QED
        BY <3>3, <4>1 DEF Tokens
    <3>5. OneAt(x, id)
      BY <1>4, <2>3, <3>4, TokensAtIndex
    <3>6. Single(AtIndex(i, x, id))
      BY <3>5, TokensAtIndex
    <3>7. Tokens(i, id)' \subseteq AtIndex(i, x, id)
      BY <2>1, <3>3 DEF Tokens
    <3> QED
      BY <3>6, <3>7, SingleFacts
  <2>4. CASE j = i /\ id # q.id
    <3>1. /\ NoneAt(index[i], id) => NoneAt(x, id)
          /\ OneAt(index[i], id) => OneAt(x, id)
      BY <1>4, <2>4
    <3>2. /\ AtIndex(i, index[i], id) = {} => AtIndex(i, x, id) = {}
          /\ Single(AtIndex(i, index[i], id)) => Single(AtIndex(i, x, id))
      BY <3>1, TokensAtIndex
    <3> QED
      BY <1>2, <2>1, <2>4, <3>2, IndexMoves
  <2> QED
    BY <2>2, <2>3, <2>4
<1> QED
  BY <1>1, <1>2, <1>4, <1>6, PollStep

\* An index node takes index data.
LEMMA IndexerOnRecvNewIndexDataStep ==
    ASSUME IndInv, NEW m \in msgs, IndexerOnRecvNewIndexData(m)
    PROVE  IndInv'
<1> DEFINE i == m.to
<1>1. PICK expired \in SUBSET {b.id : b \in index[i].blocking} :
        PollQueryResults(i, ApplyRelevantPackages(i, m, expired))
  BY DEF IndexerOnRecvNewIndexData
<1> DEFINE x == ApplyRelevantPackages(i, m, expired)
<1>2. /\ m.op = "INDEX_DATA" /\ PollQueryResults(i, x) /\ msgs' = msgs \ {m}
      /\ UNCHANGED <<log, merger, applied, reads, session, ongoing, storageReads>>
  BY <1>1 DEF IndexerOnRecvNewIndexData
<1>3. i \in IndexNodeIds /\ log \in Logs /\ IndexInv /\ IndexOK(i, index[i])
  BY <1>2 DEF IndInv, DataInv, MessageInv, MessageOK, IndexInv
<1>4. i \in Nat
  BY <1>3, IndexNodeFacts
<1>5. IndexOK(i, x) /\ Moves(index[i], x)
  BY <1>3, <1>4, ApplyStep
<1>6. x \in Shards
  BY <1>5 DEF IndexOK, ShardOK
<1> HIDE DEF i, x
<1>7. ASSUME NEW id \in ReadIds, NEW j \in IndexNodeIds
      PROVE  (Tokens(j, id) = {} => Tokens(j, id)' = {})
             /\ (Single(Tokens(j, id)) => Single(Tokens(j, id)'))
  <2>1. /\ Tokens(i, id)' \subseteq AtIndex(i, x, id) \cup Carried(i, id) \cup MergedAt(i, id)
        /\ j # i => Tokens(j, id)' \subseteq Tokens(j, id)
    BY <1>2, <1>3, <1>6, PollTokens
  <2>2. CASE j # i
    BY <2>1, <2>2, SingleFacts
  <2>3. CASE j = i
    <3>1. /\ NoneAt(index[i], id) => NoneAt(x, id)
          /\ OneAt(index[i], id) => OneAt(x, id)
      BY <1>5 DEF Moves
    <3>2. /\ AtIndex(i, index[i], id) = {} => AtIndex(i, x, id) = {}
          /\ Single(AtIndex(i, index[i], id)) => Single(AtIndex(i, x, id))
      BY <3>1, TokensAtIndex
    <3> QED
      BY <1>3, <2>1, <2>3, <3>2, IndexMoves
  <2> QED
    BY <2>2, <2>3
<1> QED
  BY <1>2, <1>3, <1>5, <1>7, PollStep
-----------------------------------------------------------------------------
(* A result reaches a merging node. *)

\* Result r of index node i is under way as token t.
UnderWay(i, r, t) ==
    /\ i \in IndexNodeIds /\ ResultOK(i, r) /\ t \in Carried(i, r.query.id)
    /\ t[1] \in {"polled", "sent"} /\ t[2].result = r

\* The node and the read of a result.
LEMMA UnderWayFacts ==
    ASSUME IndInv, NEW i, NEW r, NEW t, UnderWay(i, r, t)
    PROVE  /\ r.query.id \in ReadIds /\ r \in Results /\ OfRead(r.query)
           /\ reads[r.query.id].status # "new"
           /\ t \in Tokens(i, r.query.id) /\ Asked(r.query.id) # {}
           /\ \A u \in Tokens(i, r.query.id) : u = t
           /\ Asked(r.query.id) \subseteq reads[r.query.id].asked
<1>1. r \in Results /\ OfRead(r.query) /\ i \in IndexNodeIds
  BY DEF UnderWay, ResultOK
<1>2. r.query.id \in ReadIds /\ reads[r.query.id].status # "new"
  BY <1>1 DEF Results, Queries, OfRead
<1>3. t \in Tokens(i, r.query.id)
  BY DEF UnderWay, Tokens
<1>4. TokenInv(r.query.id)
  BY <1>2 DEF IndInv
<1> QED
  BY <1>1, <1>2, <1>3, <1>4 DEF TokenInv, Single, Asked

\* A point hit that the merge will see has a token.
LEMMA PointHitToken ==
    ASSUME IndInv, NEW id \in ReadIds, PointHitSeen(id)
    PROVE  \E j \in IndexNodeIds : \E u \in Tokens(j, id), f \in Seqnums :
             /\ OwnsPosition(j, Entry(f).pos) /\ f = reads[id].seqnum
             /\ \/ u[1] = "sent" /\ IsPointHit(u[2].result)
                \/ u[1] = "merged" /\ u[2] \in Mergers /\ ongoing[u[2]][id].nodes # {}
                   /\ IsPointHit(ongoing[u[2]][id].result)
<1>1. log \in Logs /\ MessageInv /\ OngoingInv
  BY DEF IndInv, DataInv
<1>2. ASSUME NEW r \in Results, IsPointHit(r), OfRead(r.query), r.query.id = id
      PROVE  r.found \in Seqnums /\ r.found = reads[id].seqnum
  <2>1. r.found \in 0 .. Len(log) /\ r.found # Invalid /\ r.found = r.query.seqnum
    BY <1>2 DEF Results, IsPointHit, IsFound
  <2>2. r.found \in Seqnums
    BY <1>1, <2>1, LogFacts
  <2> QED
    BY <1>2, <2>1, <2>2 DEF OfRead
<1>3. CASE \E m \in msgs : m.op = "INDEX_RESULT" /\ m.result.query.id = id /\ IsPointHit(m.result)
  <2>1. PICK m \in msgs : m.op = "INDEX_RESULT" /\ m.result.query.id = id /\ IsPointHit(m.result)
    BY <1>3
  <2>2. m.from \in IndexNodeIds /\ ResultOK(m.from, m.result)
    BY <1>1, <2>1 DEF MessageInv, MessageOK
  <2>3. /\ m.result.found \in Seqnums /\ m.result.found = reads[id].seqnum
        /\ OwnsPosition(m.from, Entry(m.result.found).pos)
    BY <1>2, <2>1, <2>2 DEF ResultOK, IsPointHit
  <2>4. <<"sent", m>> \in Tokens(m.from, id)
    BY <2>1 DEF Tokens, Carried
  <2>5. <<"sent", m>>[1] = "sent" /\ <<"sent", m>>[2] = m
    OBVIOUS
  <2> QED
    BY <2>1, <2>2, <2>3, <2>4, <2>5
<1>4. CASE \E g \in Mergers : ongoing[g][id].nodes # {} /\ IsPointHit(ongoing[g][id].result)
  <2>1. PICK g \in Mergers : ongoing[g][id].nodes # {} /\ IsPointHit(ongoing[g][id].result)
    BY <1>4
  <2> DEFINE r == ongoing[g][id].result
             N == ongoing[g][id].nodes
  <2>2. /\ r \in Results /\ r.query.id = id /\ OfRead(r.query)
        /\ IsFound(r) => \E i \in N : OwnsPosition(i, Entry(r.found).pos)
    BY <1>1, <2>1 DEF OngoingInv, MergedOK
  <2>3. PICK i \in N : OwnsPosition(i, Entry(r.found).pos)
    BY <2>1, <2>2 DEF IsPointHit
  <2>4. i \in IndexNodeIds
    BY <1>1, <2>1, <2>3 DEF OngoingInv, ReadOps
  <2>5. <<"merged", g>> \in Tokens(i, id)
    BY <2>3 DEF Tokens, MergedAt
  <2>6. r.found \in Seqnums /\ r.found = reads[id].seqnum
    BY <1>2, <2>1, <2>2
  <2>7. <<"merged", g>>[1] = "merged" /\ <<"merged", g>>[2] = g
    OBVIOUS
  <2> QED
    BY <2>1, <2>3, <2>4, <2>5, <2>6, <2>7
<1> QED
  BY <1>3, <1>4 DEF PointHitSeen

\* The merging node adds the result; when all have contributed no other token is left,
\* and the result is an answer. It is a point hit if one went ahead.
LEMMA MergeFacts ==
    ASSUME IndInv, NEW g \in Mergers, NEW i, NEW r, NEW t, UnderWay(i, r, t)
    PROVE  LET id == r.query.id
               M  == Merged(ongoing[g][id], i, r)
           IN  /\ M \in ReadOps /\ MergedOK(M, id) /\ M.nodes = ongoing[g][id].nodes \cup {i}
               /\ M.result \in Results
               /\ IsPointHit(r) => IsPointHit(M.result)
               /\ ongoing[g][id].nodes # {} /\ IsPointHit(ongoing[g][id].result) =>
                    IsPointHit(M.result)
               /\ Complete(M) =>
                    /\ M.result.query.id = id
                    /\ IsFound(M.result) => EntryAnswers(id, M.result.found, M.result.progress)
                    /\ ~IsFound(M.result) => NothingAnswers(id)
               /\ Complete(M) /\ EachShardAsked(id) =>
                    /\ \A j \in IndexNodeIds : Tokens(j, id) \subseteq {t, <<"merged", g>>}
                    /\ PointHitSeen(id) => IsPointHit(M.result)
<1> DEFINE id == r.query.id
           old == ongoing[g][id]
           M  == Merged(old, i, r)
<1>1. /\ id \in ReadIds /\ t \in Tokens(i, id) /\ \A u \in Tokens(i, id) : u = t
      /\ i \in IndexNodeIds /\ ResultOK(i, r)
  BY UnderWayFacts DEF UnderWay
<1>2. PICK P : P = reads[id].asked /\ Asked(id) \subseteq P
  BY UnderWayFacts
<1>3. log \in Logs /\ old \in ReadOps /\ MergedOK(old, id) /\ reads[id] \in Reads
  BY <1>1 DEF IndInv, DataInv, OngoingInv, ReadInv, ReadOK
<1> HIDE DEF id, old
<1>4. /\ M \in ReadOps /\ M.nodes = old.nodes \cup {i}
      /\ M.result \in Results /\ MergedOK(M, id)
      /\ IsPointHit(r) => IsPointHit(M.result)
      /\ old.nodes # {} /\ IsPointHit(old.result) => IsPointHit(M.result)
  <2>1. r.query.id = id
    BY DEF id
  <2> QED
    BY <1>1, <1>3, <2>1, MergedFacts
<1> HIDE DEF M
<1>5. \A j \in old.nodes : j \in IndexNodeIds /\ <<"merged", g>> \in Tokens(j, id)
  BY <1>3 DEF ReadOps, old, Tokens, MergedAt
<1>6. M.nodes \subseteq P
  BY <1>1, <1>2, <1>4, <1>5 DEF Asked
<1>7. ASSUME Complete(M)
      PROVE  /\ EachShardAsked(id) => M.nodes = P
             /\ M.result.query.id = id
             /\ IsFound(M.result) => EntryAnswers(id, M.result.found, M.result.progress)
             /\ ~IsFound(M.result) => NothingAnswers(id)
  BY <1>1, <1>2, <1>3, <1>4, <1>6, <1>7, CompleteAnswers
<1>8. ASSUME Complete(M), EachShardAsked(id), NEW j \in IndexNodeIds, NEW u \in Tokens(j, id)
      PROVE  u = t \/ u = <<"merged", g>>
  <2>1. j \in M.nodes
    BY <1>2, <1>7, <1>8 DEF Asked
  <2>2. CASE j = i
    BY <1>1, <1>8, <2>2
  <2>3. CASE j \in old.nodes
    <3>1. Single(Tokens(j, id))
      BY <1>1, <1>8 DEF IndInv, TokenInv
    <3> QED
      BY <1>5, <1>8, <2>3, <3>1, SingleFacts
  <2> QED
    BY <1>4, <2>1, <2>2, <2>3
<1>9. ASSUME Complete(M), EachShardAsked(id), PointHitSeen(id) PROVE IsPointHit(M.result)
  <2>1. PICK j \in IndexNodeIds : \E u \in Tokens(j, id) :
             \/ u[1] = "sent" /\ IsPointHit(u[2].result)
             \/ u[1] = "merged" /\ ongoing[u[2]][id].nodes # {}
                /\ IsPointHit(ongoing[u[2]][id].result)
    BY <1>1, <1>9, PointHitToken
  <2>2. PICK u \in Tokens(j, id) :
             \/ u[1] = "sent" /\ IsPointHit(u[2].result)
             \/ u[1] = "merged" /\ ongoing[u[2]][id].nodes # {}
                /\ IsPointHit(ongoing[u[2]][id].result)
    BY <2>1
  <2>3. u = t \/ u = <<"merged", g>>
    BY <1>8, <1>9
  <2>4. CASE u = t
    <3>1. t[1] # "merged" /\ t[2].result = r
      BY DEF UnderWay
    <3> QED
      BY <1>4, <2>2, <2>4, <3>1
  <2>5. CASE u = <<"merged", g>>
    <3>1. u[1] = "merged" /\ u[2] = g
      BY <2>5, SMTT(60)
    <3> QED
      BY <1>4, <2>2, <3>1 DEF old
  <2> QED
    BY <2>3, <2>4, <2>5
<1> QED
  BY <1>4, <1>7, <1>8, <1>9, Zenon DEF M, old, id

\* The facts about a merge at node g.
MergeOK(g, i, r) ==
    LET id  == r.query.id
        old == ongoing[g][id]
        M   == Merged(old, i, r)
    IN  /\ M.nodes = old.nodes \cup {i}
        /\ IsPointHit(r) => IsPointHit(M.result)
        /\ old.nodes # {} /\ IsPointHit(old.result) => IsPointHit(M.result)
        /\ Complete(M) =>
             /\ M.result.query.id = id
             /\ IsFound(M.result) => EntryAnswers(id, M.result.found, M.result.progress)
             /\ ~IsFound(M.result) => NothingAnswers(id)
             /\ EachShardAsked(id) /\ PointHitSeen(id) => IsPointHit(M.result)

\* They hold of every result under way.
LEMMA MergeIsOK ==
    ASSUME IndInv, NEW g \in Mergers, NEW i, NEW r, NEW t, UnderWay(i, r, t)
    PROVE  MergeOK(g, i, r)
  BY MergeFacts DEF MergeOK

\* The merging node keeps the merged result, or forgets the read when all have contributed.
LEMMA AggregateFacts ==
    ASSUME OngoingInv, NEW g \in Mergers, NEW id \in ReadIds, NEW M, Aggregate(g, id, M)
    PROVE  /\ ongoing'[g][id] = IF Complete(M) THEN NoReadOp ELSE M
           /\ \A h \in Mergers, k \in ReadIds :
                h # g \/ k # id => ongoing'[h][k] = ongoing[h][k]
           /\ M \in ReadOps => ongoing' \in [Mergers -> [ReadIds -> ReadOps]]
<1> DEFINE v == IF Complete(M) THEN NoReadOp ELSE M
<1>1. ongoing' = [ongoing EXCEPT ![g][id] = v] /\ ongoing \in [Mergers -> [ReadIds -> ReadOps]]
  BY DEF Aggregate, OngoingInv
<1>2. NoReadOp \in ReadOps
  BY DEF NoReadOp, ReadOps
<1>3. M \in ReadOps => v \in ReadOps
  BY <1>2
<1> HIDE DEF v
<1>4. M \in ReadOps => ongoing' \in [Mergers -> [ReadIds -> ReadOps]]
  BY <1>1, <1>3
<1>5. ongoing'[g][id] = v
  BY <1>1
<1>6. \A h \in Mergers, k \in ReadIds : h # g \/ k # id => ongoing'[h][k] = ongoing[h][k]
  BY <1>1
<1> QED
  BY <1>4, <1>5, <1>6 DEF v

\* What merging does to the tokens and to the data of the merging nodes.
LEMMA MergeTokens ==
    ASSUME IndInv, NEW g \in Mergers, NEW i, NEW r, NEW t, UnderWay(i, r, t),
           Keeps, index' = index, Aggregate(g, r.query.id, Merged(ongoing[g][r.query.id], i, r)),
           \A j, k : Carried(j, k)' \subseteq Carried(j, k) \ {t}
    PROVE  LET id == r.query.id
               M  == Merged(ongoing[g][id], i, r)
           IN  /\ OngoingInv'
               /\ \A k \in ReadIds : \A j \in IndexNodeIds :
                    (Tokens(j, k) = {} => Tokens(j, k)' = {})
                    /\ (Single(Tokens(j, k)) => Single(Tokens(j, k)'))
               /\ Complete(M) /\ EachShardAsked(id) => Asked(id)' = {}
<1> DEFINE id == r.query.id
           M  == Merged(ongoing[g][id], i, r)
<1>1. id \in ReadIds /\ OngoingInv /\ (\A u \in Tokens(i, id) : u = t) /\ t \in Tokens(i, id)
  BY UnderWayFacts DEF IndInv, DataInv
<1>2. /\ M \in ReadOps /\ MergedOK(M, id) /\ M.nodes = ongoing[g][id].nodes \cup {i}
      /\ Complete(M) /\ EachShardAsked(id) =>
           \A j \in IndexNodeIds : Tokens(j, id) \subseteq {t, <<"merged", g>>}
  BY MergeFacts, SMTT(60)
<1>3. Aggregate(g, id, M)
  OBVIOUS
<1> HIDE DEF id, M
<1>4. /\ ongoing'[g][id] = IF Complete(M) THEN NoReadOp ELSE M
      /\ \A h \in Mergers, k \in ReadIds : h # g \/ k # id => ongoing'[h][k] = ongoing[h][k]
      /\ ongoing' \in [Mergers -> [ReadIds -> ReadOps]]
  BY <1>1, <1>2, <1>3, AggregateFacts
<1>5. OngoingInv'
  <2>1. MergedOK(NoReadOp, id)
    BY DEF MergedOK, NoReadOp
  <2>2. \A h \in Mergers, k \in ReadIds : MergedOK(ongoing'[h][k], k)
    BY <1>1, <1>2, <1>4, <2>1 DEF OngoingInv
  <2>3. \A readOp, k : MergedOK(readOp, k) => MergedOK(readOp, k)'
    BY KeepsAnswers
  <2>4. ASSUME NEW h \in Mergers, NEW k \in ReadIds PROVE MergedOK(ongoing[h][k], k)'
    <3>1. PICK z : z = ongoing'[h][k]
      OBVIOUS
    <3>2. MergedOK(z, k)'
      BY <2>2, <2>3, <3>1
    <3> QED
      BY <3>1, <3>2
  <2>5. ReadOps' = ReadOps
    BY LogSame DEF ReadOps, Keeps
  <2> QED
    BY <1>4, <2>4, <2>5 DEF OngoingInv
<1>6. ASSUME NEW j \in IndexNodeIds, NEW k \in ReadIds, NEW u \in Tokens(j, k)'
      PROVE  \/ u \in Tokens(j, k) /\ u # t /\ (k = id /\ Complete(M) => u # <<"merged", g>>)
             \/ k = id /\ j = i /\ ~Complete(M) /\ u = <<"merged", g>>
  <2>1. t[1] \notin {"merged", "pending", "blocking"}
    BY DEF UnderWay
  <2>2. CASE u \in Carried(j, k)'
    <3>1. u \in Carried(j, k) /\ u # t
      BY <2>2
    <3>2. u # <<"merged", g>>
      BY <3>1 DEF Carried
    <3> QED
      BY <3>1, <3>2 DEF Tokens
  <2>3. CASE u \in AtIndex(j, index[j], k)'
    <3>1. u \in AtIndex(j, index[j], k)
      BY <2>3 DEF AtIndex
    <3>2. index[j].results = {}
      BY DEF IndInv, DataInv, IndexInv
    <3>3. u[1] \in {"pending", "blocking"}
      BY <3>1, <3>2 DEF AtIndex
    <3>4. u # t /\ u # <<"merged", g>>
      BY <2>1, <3>3
    <3> QED
      BY <3>1, <3>4 DEF Tokens
  <2>4. CASE u \in MergedAt(j, k)'
    <3>1. PICK h \in Mergers : u = <<"merged", h>> /\ j \in ongoing'[h][k].nodes
      BY <2>4 DEF MergedAt
    <3>2. u # t
      BY <2>1, <3>1
    <3>3. CASE h = g /\ k = id
      <4>1. ~Complete(M) /\ j \in ongoing[g][id].nodes \cup {i}
        BY <1>2, <1>4, <3>1, <3>3 DEF NoReadOp
      <4>2. j \in ongoing[g][id].nodes => u \in Tokens(j, k)
        BY <3>1, <3>3 DEF Tokens, MergedAt
      <4> QED
        BY <3>1, <3>2, <3>3, <4>1, <4>2
    <3>4. CASE ~(h = g /\ k = id)
      <4>1. j \in ongoing[h][k].nodes
        BY <1>4, <3>1, <3>4
      <4>2. u \in Tokens(j, k)
        BY <3>1, <4>1 DEF Tokens, MergedAt
      <4>3. k = id => u # <<"merged", g>>
        BY <3>1, <3>4
      <4> QED
        BY <3>2, <4>2, <4>3
    <3> QED
      BY <3>3, <3>4
  <2> QED
    BY <1>6, <2>2, <2>3, <2>4 DEF Tokens
<1>7. ASSUME NEW j \in IndexNodeIds, NEW k \in ReadIds
      PROVE  (Tokens(j, k) = {} => Tokens(j, k)' = {})
             /\ (Single(Tokens(j, k)) => Single(Tokens(j, k)'))
  <2>1. CASE k = id /\ j = i
    <3>1. \A u \in Tokens(j, k)' : u = <<"merged", g>>
      BY <1>1, <1>6, <2>1
    <3> QED
      BY <1>1, <2>1, <3>1 DEF Single
  <2>2. CASE ~(k = id /\ j = i)
    <3>1. Tokens(j, k)' \subseteq Tokens(j, k)
      BY <1>6, <2>2
    <3> QED
      BY <3>1, SingleFacts
  <2> QED
    BY <2>1, <2>2
<1>8. ASSUME Complete(M), EachShardAsked(id) PROVE Asked(id)' = {}
  <2>1. ASSUME NEW j \in IndexNodeIds, NEW u \in Tokens(j, id)' PROVE FALSE
    <3>1. u \in Tokens(j, id) /\ u # t /\ u # <<"merged", g>>
      BY <1>1, <1>6, <1>8, <2>1
    <3> QED
      BY <1>2, <1>8, <3>1
  <2> QED
    BY <2>1 DEF Asked
<1> QED
  BY <1>5, <1>7, <1>8 DEF M, id

\* Forwarding sends one answer: a request to a storage node, or that the entry is lost.
LEMMA ForwardFacts ==
    ASSUME NEW r, NEW sent \in ForwardReadRequest(r),
           EntryAnswers(r.query.id, r.found, r.progress)
    PROVE  \E a : /\ sent = {a} /\ a.op \in {"READ_AT", "RESPONSE"}
                  /\ a.id = r.query.id /\ MessageOK(a)
<1>1. r.query.id \in ReadIds /\ reads[r.query.id].status # "new"
  BY DEF EntryAnswers
<1>2. CASE \E n : sent = {SendStorageReadRequest(r, n)}
  <2>1. PICK n : sent = {SendStorageReadRequest(r, n)}
    BY <1>2
  <2> DEFINE a == SendStorageReadRequest(r, n)
  <2>2. a.op = "READ_AT" /\ a.id = r.query.id /\ a.seqnum = r.found /\ a.progress = r.progress
    BY DEF SendStorageReadRequest
  <2>3. sent = {a}
    BY <2>1
  <2> HIDE DEF a
  <2>4. MessageOK(a)
    BY <2>2 DEF MessageOK
  <2> QED
    BY <2>2, <2>3, <2>4
<1>3. CASE sent = {Response("DATA_LOST", r.query.id, Invalid, 0)}
  <2> DEFINE a == Response("DATA_LOST", r.query.id, Invalid, 0)
  <2>1. /\ a.op = "RESPONSE" /\ a.result = "DATA_LOST" /\ a.id = r.query.id
        /\ a.seqnum = Invalid /\ a.progress = 0
    BY DEF Response
  <2>2. sent = {a}
    BY <1>3
  <2> HIDE DEF a
  <2>3. MessageOK(a)
    BY <1>1, <2>1 DEF MessageOK
  <2> QED
    BY <2>1, <2>2, <2>3
<1> QED
  BY <1>2, <1>3 DEF ForwardReadRequest

\* What a merging node sends: nothing, or one answer.
LEMMA MergeMsgsFacts ==
    ASSUME log \in Logs, NEW id \in ReadIds, NEW M, NEW sent \in MergeMsgs(M),
           Complete(M) => /\ M.result.query.id = id
                          /\ IsFound(M.result) => EntryAnswers(id, M.result.found, M.result.progress)
                          /\ ~IsFound(M.result) => NothingAnswers(id)
    PROVE  \/ sent = {} /\ (Complete(M) => IsPointHit(M.result))
           \/ /\ Complete(M) /\ ~IsPointHit(M.result)
              /\ \E a : /\ sent = {a} /\ a.op \in {"READ_AT", "RESPONSE"}
                        /\ a.id = id /\ MessageOK(a)
<1> DEFINE r == M.result
<1>1. CASE ~Complete(M)
  BY <1>1 DEF MergeMsgs
<1>2. CASE Complete(M) /\ ~IsFound(r)
  <2> DEFINE a == SendIndexReadFailureResponse(r)
  <2>1. sent = {a} /\ ~IsPointHit(r)
    BY <1>2 DEF MergeMsgs, IsPointHit
  <2>2. a.op = "RESPONSE" /\ a.result = "EMPTY" /\ a.id = id /\ a.seqnum = Invalid /\ a.progress = 0
    BY <1>2 DEF SendIndexReadFailureResponse, Response
  <2> HIDE DEF a
  <2>3. MessageOK(a)
    BY <1>2, <2>2 DEF MessageOK, NothingAnswers
  <2> QED
    BY <1>2, <2>1, <2>2, <2>3
<1>3. CASE Complete(M) /\ IsFound(r) /\ IsPointHit(r)
  BY <1>3 DEF MergeMsgs
<1>4. CASE Complete(M) /\ IsFound(r) /\ ~IsPointHit(r)
  <2>1. sent \in ForwardReadRequest(r)
    BY <1>4 DEF MergeMsgs
  <2>2. r.query.id = id /\ EntryAnswers(r.query.id, r.found, r.progress)
    BY <1>4
  <2> HIDE DEF r
  <2>3. \E a : sent = {a} /\ a.op \in {"READ_AT", "RESPONSE"} /\ a.id = id /\ MessageOK(a)
    BY <2>1, <2>2, ForwardFacts
  <2> QED
    BY <1>4, <2>3 DEF r
<1> QED
  BY <1>1, <1>2, <1>3, <1>4

\* A point hit is forwarded.
LEMMA PointHitMsgsFacts ==
    ASSUME log \in Logs, NEW i, NEW r, ResultOK(i, r), NEW hit \in PointHitMsgs(r)
    PROVE  \/ hit = {} /\ ~IsPointHit(r)
           \/ /\ IsPointHit(r)
              /\ \E a : /\ hit = {a} /\ a.op \in {"READ_AT", "RESPONSE"}
                        /\ a.id = r.query.id /\ MessageOK(a)
<1>1. CASE ~IsPointHit(r)
  BY <1>1 DEF PointHitMsgs
<1>2. CASE IsPointHit(r)
  <2>1. hit \in ForwardReadRequest(r)
    BY <1>2 DEF PointHitMsgs
  <2>2. EntryAnswers(r.query.id, r.found, r.progress)
    BY <1>2, PointHitAnswers
  <2> QED
    BY <1>2, <2>1, <2>2, ForwardFacts
<1> QED
  BY <1>1, <1>2

IsAnswer(m) == m.op \in {"RESPONSE", "READ_AT"}

\* A step merges or passes on a result of read id; it takes messages gone away and adds
\* messages add. If each index shard was asked an answer is sent only if there was none.
ResultMove(id, gone, add) ==
    /\ UNCHANGED <<log, merger, index, reads, session, storageReads>>
    /\ polled' \subseteq polled /\ OngoingInv'
    /\ id \in ReadIds /\ reads[id].status # "new"
    /\ msgs' = (msgs \ gone) \cup add
    /\ \A m \in gone : m.op = "INDEX_RESULT"
    /\ \A a \in add : MessageOK(a) /\ (a.op = "INDEX_RESULT" \/ (IsAnswer(a) /\ a.id = id))
    /\ \A a, b \in add : IsAnswer(a) /\ IsAnswer(b) => a = b
    /\ EachShardAsked(id) /\ (\E a \in add : IsAnswer(a)) =>
           AnswersUnderWay(id) = {} /\ ~Answered(id)
    /\ \A k \in ReadIds : \A j \in IndexNodeIds :
           (Tokens(j, k) = {} => Tokens(j, k)' = {})
           /\ (Single(Tokens(j, k)) => Single(Tokens(j, k)'))
    /\ \A k \in ReadIds \ {id} : PointHitSeen(k) => PointHitSeen(k)'
    /\ /\ EachShardAsked(id)
       /\ AnswersUnderWay(id) # {} \/ Answered(id) \/ (\E a \in add : IsAnswer(a))
       => Asked(id)' = {} \/ PointHitSeen(id)'

\* Such a step preserves the invariant.
LEMMA ResultStep ==
    ASSUME IndInv, NEW id, NEW gone, NEW add, ResultMove(id, gone, add)
    PROVE  IndInv'
<1> USE DEF ResultMove
<1>1. Keeps /\ log \in Logs /\ log' = log
  BY KeepsSame DEF IndInv, DataInv
<1>2. IndexInv' /\ PolledInv' /\ ReadInv' /\ SessionOK'
  BY <1>1, Frame DEF IndInv, DataInv
<1>3. EachShardAsked(id) => \A a \in add : a \notin storageReads
  <2>1. \A r \in storageReads : r.op = "READ_AT"
    BY DEF IndInv, DataInv, StorageInv
  <2>2. ASSUME EachShardAsked(id), NEW a \in add, a \in storageReads PROVE FALSE
    <3>1. IsAnswer(a) /\ a.id = id
      BY <2>1, <2>2
    <3>2. a \in AnswersUnderWay(id)
      BY <2>2, <3>1 DEF AnswersUnderWay
    <3> QED
      BY <2>2, <3>1, <3>2
  <2> QED
    BY <2>2
<1>4. MessageInv' /\ StorageInv'
  <2>1. /\ \A k \in msgs : MessageOK(k)'
        /\ \A r \in storageReads : EntryAnswers(r.id, r.seqnum, r.progress)'
    BY <1>1, Frame DEF IndInv, DataInv
  <2>2. \A r \in storageReads : r.op = "READ_AT"
    BY DEF IndInv, DataInv, StorageInv
  <2>3. \A a \in add : MessageOK(a)'
    BY <1>1, KeepsAnswers
  <2>4. MessageInv'
    BY <2>1, <2>3 DEF MessageInv
  <2> QED
    BY <2>1, <2>2, <2>4 DEF StorageInv
<1>5. ASSUME NEW k \in ReadIds PROVE TokenInv(k)' /\ AnswerInv(k)'
  <2>1. TokenInv(k) /\ AnswerInv(k)
    BY DEF IndInv
  <2>2. TokenInv(k)' /\ (Asked(k) = {} => Asked(k)' = {})
    BY <2>1, TokensMove
  <2>3. AnswersUnderWay(k)' = AnswersUnderWay(k) \cup {a \in add : IsAnswer(a) /\ a.id = k}
    BY DEF AnswersUnderWay, IsAnswer
  <2> SUFFICES ASSUME EachShardAsked(k), OneAnswerOf(k) PROVE OneAnswerOf(k)'
    BY <2>1, <2>2 DEF AnswerInv, EachShardAsked
  <2>6. \A r \in storageReads' : r.id = k => r \notin msgs'
    <3>1. ASSUME NEW r \in storageReads, r.id = k, r \in add PROVE FALSE
      <4>1. r.op = "READ_AT"
        BY DEF IndInv, DataInv, StorageInv
      <4>2. k = id
        BY <3>1, <4>1
      <4> QED
        BY <1>3, <3>1, <4>2
    <3> QED
      BY <3>1 DEF OneAnswerOf
  <2>4. CASE k # id
    <3>1. AnswersUnderWay(k)' = AnswersUnderWay(k)
      BY <2>3, <2>4 DEF IsAnswer
    <3> QED
      BY <2>2, <2>4, <2>6, <3>1 DEF OneAnswerOf, Single, Answered
  <2>5. CASE k = id
    <3>1. CASE \E a \in add : IsAnswer(a)
      <4>1. AnswersUnderWay(id) = {} /\ ~Answered(id)
        BY <2>5, <3>1
      <4>2. Single(AnswersUnderWay(id)')
        BY <2>3, <2>5, <4>1 DEF Single
      <4> QED
        BY <2>5, <2>6, <3>1, <4>1, <4>2 DEF OneAnswerOf, Single, Answered
    <3>2. CASE ~\E a \in add : IsAnswer(a)
      <4>1. AnswersUnderWay(id)' = AnswersUnderWay(id)
        BY <2>3, <2>5, <3>2
      <4> QED
        BY <2>2, <2>5, <2>6, <4>1 DEF OneAnswerOf, Single, Answered
    <3> QED
      BY <3>1, <3>2
  <2> QED
    BY <2>4, <2>5
<1> QED
  BY <1>1, <1>2, <1>4, <1>5 DEF IndInv, DataInv

\* A result of another index node reaches the merging node.
LEMMA HandleSlaveResultStep ==
    ASSUME IndInv, NEW m \in msgs, HandleSlaveResult(m)
    PROVE  IndInv'
<1>0. PICK g, i, r, id, t :
        g = m.to /\ i = m.from /\ r = m.result /\ id = r.query.id /\ t = <<"sent", m>>
  OBVIOUS
<1> DEFINE old == ongoing[g][id]
           M   == Merged(old, i, r)
<1>1. /\ m.op = "INDEX_RESULT" /\ Aggregate(g, id, M)
      /\ UNCHANGED <<log, merger, applied, index, polled, reads, session, storageReads>>
  BY <1>0 DEF HandleSlaveResult
<1>2. PICK merged \in MergeMsgs(M) : msgs' = (msgs \ {m}) \cup merged
  BY <1>0 DEF HandleSlaveResult
<1>3. i \in IndexNodeIds /\ g \in Mergers /\ ResultOK(i, r)
  BY <1>0, <1>1 DEF IndInv, DataInv, MessageInv, MessageOK
<1>4. UnderWay(i, r, t)
  <2>1. t \in Carried(i, id)
    BY <1>0, <1>1 DEF Carried
  <2>2. t[1] = "sent" /\ t[2] = m
    BY <1>0
  <2> QED
    BY <1>0, <1>3, <2>1, <2>2 DEF UnderWay
<1>5. /\ id \in ReadIds /\ Asked(id) # {} /\ reads[id].status # "new"
      /\ Keeps /\ log \in Logs /\ AnswerInv(id)
  <2>1. id \in ReadIds /\ Asked(id) # {} /\ reads[id].status # "new"
    BY <1>0, <1>4, UnderWayFacts
  <2> QED
    BY <1>1, <2>1, KeepsSame DEF IndInv, DataInv
<1>6. /\ M.nodes = old.nodes \cup {i}
      /\ IsPointHit(r) => IsPointHit(M.result)
      /\ old.nodes # {} /\ IsPointHit(old.result) => IsPointHit(M.result)
      /\ Complete(M) =>
           /\ M.result.query.id = id
           /\ IsFound(M.result) => EntryAnswers(id, M.result.found, M.result.progress)
           /\ ~IsFound(M.result) => NothingAnswers(id)
           /\ EachShardAsked(id) /\ PointHitSeen(id) => IsPointHit(M.result)
  <2>1. MergeOK(g, i, r)
    BY <1>3, <1>4, MergeIsOK
  <2> QED
    BY <1>0, <2>1, Zenon DEF MergeOK
<1> HIDE DEF old, M
<1>7. \/ merged = {} /\ (Complete(M) => IsPointHit(M.result))
      \/ /\ Complete(M) /\ ~IsPointHit(M.result)
         /\ \E a : merged = {a} /\ a.op \in {"READ_AT", "RESPONSE"} /\ a.id = id /\ MessageOK(a)
  BY <1>5, <1>6, MergeMsgsFacts
<1>8. \A a \in merged : MessageOK(a) /\ IsAnswer(a) /\ a.id = id /\ a.op # "INDEX_RESULT"
                        /\ a.op # "READ" /\ \A b \in merged : a = b
  BY <1>7 DEF IsAnswer
<1>9. \A j, k : Carried(j, k)' \subseteq Carried(j, k) \ {t}
  <2>1. ASSUME NEW j, NEW k, NEW u \in Carried(j, k)' PROVE u \in Carried(j, k) /\ u # t
    <3>1. \/ \E n \in msgs' : u = <<"asked", n>> /\ n.op = "READ" /\ n.to = j /\ n.query.id = k
          \/ \E z \in polled' : u = <<"polled", z>> /\ z.node = j /\ z.result.query.id = k
          \/ \E n \in msgs' : /\ u = <<"sent", n>> /\ n.op = "INDEX_RESULT" /\ n.from = j
                              /\ n.result.query.id = k
      BY <2>1 DEF Carried
    <3>2. CASE \E n \in msgs' : u = <<"asked", n>> /\ n.op = "READ" /\ n.to = j /\ n.query.id = k
      BY <1>0, <1>2, <1>8, <3>2 DEF Carried
    <3>3. CASE \E z \in polled' : u = <<"polled", z>> /\ z.node = j /\ z.result.query.id = k
      BY <1>0, <1>1, <3>3 DEF Carried
    <3>4. CASE \E n \in msgs' : /\ u = <<"sent", n>> /\ n.op = "INDEX_RESULT" /\ n.from = j
                                /\ n.result.query.id = k
      <4>1. PICK n \in msgs' : /\ u = <<"sent", n>> /\ n.op = "INDEX_RESULT" /\ n.from = j
                               /\ n.result.query.id = k
        BY <3>4
      <4>2. n \in msgs /\ n # m
        BY <1>2, <1>8, <4>1
      <4>3. u \in Carried(j, k)
        BY <4>1, <4>2 DEF Carried
      <4> QED
        BY <1>0, <4>1, <4>2, <4>3
    <3> QED
      BY <3>1, <3>2, <3>3, <3>4
  <2> QED
    BY <2>1
<1>10. /\ OngoingInv'
       /\ \A k \in ReadIds : \A j \in IndexNodeIds :
            (Tokens(j, k) = {} => Tokens(j, k)' = {})
            /\ (Single(Tokens(j, k)) => Single(Tokens(j, k)'))
       /\ Complete(M) /\ EachShardAsked(id) => Asked(id)' = {}
  BY <1>0, <1>1, <1>3, <1>4, <1>5, <1>9, MergeTokens DEF old, M
<1>11. /\ ongoing'[g][id] = IF Complete(M) THEN NoReadOp ELSE M
       /\ \A h \in Mergers, k \in ReadIds : h # g \/ k # id => ongoing'[h][k] = ongoing[h][k]
  <2>1. OngoingInv /\ g \in Mergers
    BY <1>3 DEF IndInv, DataInv
  <2>2. Aggregate(g, id, M)
    BY <1>1
  <2> QED
    BY <1>5, <2>1, <2>2, AggregateFacts
<1>12. \A x : IsPointHit(x)' <=> IsPointHit(x)
  BY <1>1, LogSame
<1>13. ASSUME NEW k \in ReadIds, PointHitSeen(k), k = id => ~Complete(M)
       PROVE  PointHitSeen(k)'
  <2>1. CASE \E n \in msgs \ {m} : n.op = "INDEX_RESULT" /\ n.result.query.id = k /\ IsPointHit(n.result)
    BY <1>2, <1>12, <2>1 DEF PointHitSeen
  <2>2. CASE k = id /\ (IsPointHit(r) \/ (old.nodes # {} /\ IsPointHit(old.result)))
    <3>1. g \in Mergers /\ ongoing'[g][id] = M /\ M.nodes # {} /\ IsPointHit(M.result)
      BY <1>3, <1>6, <1>11, <1>13, <2>2
    <3> QED
      BY <1>12, <2>2, <3>1 DEF PointHitSeen
  <2>3. CASE \E h \in Mergers : (h # g \/ k # id) /\ ongoing[h][k].nodes # {}
                                /\ IsPointHit(ongoing[h][k].result)
    <3>1. PICK h \in Mergers : (h # g \/ k # id) /\ ongoing[h][k].nodes # {}
                               /\ IsPointHit(ongoing[h][k].result)
      BY <2>3
    <3>2. ongoing'[h][k] = ongoing[h][k]
      BY <1>11, <3>1
    <3> QED
      BY <1>12, <3>1, <3>2 DEF PointHitSeen
  <2> QED
    BY <1>0, <1>13, <2>1, <2>2, <2>3 DEF PointHitSeen, old
<1>14. EachShardAsked(id) /\ (AnswersUnderWay(id) # {} \/ Answered(id)) => PointHitSeen(id)
  BY <1>5 DEF AnswerInv, OneAnswerOf
<1>15. EachShardAsked(id) /\ (\E a \in merged : IsAnswer(a)) =>
         Complete(M) /\ AnswersUnderWay(id) = {} /\ ~Answered(id)
  BY <1>6, <1>7, <1>14
<1>16. PICK gone : gone = {m}
  OBVIOUS
<1>17. /\ UNCHANGED <<log, merger, index, reads, session, storageReads>>
       /\ polled' \subseteq polled /\ msgs' = (msgs \ gone) \cup merged
       /\ \A n \in gone : n.op = "INDEX_RESULT"
  BY <1>1, <1>2, <1>16
<1>18. \A a, b \in merged : IsAnswer(a) /\ IsAnswer(b) => a = b
  BY <1>8
<1>19. /\ EachShardAsked(id)
       /\ AnswersUnderWay(id) # {} \/ Answered(id) \/ (\E a \in merged : IsAnswer(a))
       => Asked(id)' = {} \/ PointHitSeen(id)'
  BY <1>5, <1>10, <1>13, <1>14, <1>15
<1>20. \A k \in ReadIds \ {id} : PointHitSeen(k) => PointHitSeen(k)'
  BY <1>13
<1>21. \A a \in merged : MessageOK(a) /\ (a.op = "INDEX_RESULT" \/ (IsAnswer(a) /\ a.id = id))
  BY <1>8
<1>22. EachShardAsked(id) /\ (\E a \in merged : IsAnswer(a)) =>
         AnswersUnderWay(id) = {} /\ ~Answered(id)
  BY <1>15
<1>23. ResultMove(id, gone, merged)
  BY <1>5, <1>10, <1>17, <1>18, <1>19, <1>20, <1>21, <1>22 DEF ResultMove
<1> QED
  BY <1>23, ResultStep

\* A read has one point hit: the entry is of one shard, and if different shards were
\* asked one node of that shard.
LEMMA OnePointHit ==
    ASSUME IndInv, NEW i, NEW r, NEW t, UnderWay(i, r, t), t[1] = "polled", IsPointHit(r),
           EachShardAsked(r.query.id)
    PROVE  ~PointHitSeen(r.query.id)
<1> SUFFICES ASSUME PointHitSeen(r.query.id) PROVE FALSE
  OBVIOUS
<1>1. PICK id : id = r.query.id
  OBVIOUS
<1>2. /\ id \in ReadIds /\ r \in Results /\ OfRead(r.query)
      /\ t \in Tokens(i, id) /\ \A u \in Tokens(i, id) : u = t
  BY <1>1, UnderWayFacts
<1>3. Asked(id) \subseteq reads[id].asked
  BY <1>1, UnderWayFacts
<1>4. PICK j \in IndexNodeIds : \E u \in Tokens(j, id), f \in Seqnums :
             /\ OwnsPosition(j, Entry(f).pos) /\ f = reads[id].seqnum
             /\ u[1] \in {"sent", "merged"}
  BY <1>1, <1>2, PointHitToken
<1>5. PICK u \in Tokens(j, id), f \in Seqnums :
             /\ OwnsPosition(j, Entry(f).pos) /\ f = reads[id].seqnum
             /\ u[1] \in {"sent", "merged"}
  BY <1>4
<1>6. r.found = f /\ OwnsPosition(i, Entry(f).pos) /\ i \in IndexNodeIds
  BY <1>1, <1>2, <1>5 DEF UnderWay, ResultOK, IsPointHit, OfRead
<1>7. ShardOf(i) = ShardOf(j)
  BY <1>5, <1>6 DEF OwnsPosition
<1>8. i \in reads[id].asked /\ j \in reads[id].asked
  BY <1>2, <1>3, <1>5, <1>6 DEF Asked
<1>9. i = j
  BY <1>1, <1>7, <1>8 DEF EachShardAsked
<1> QED
  BY <1>2, <1>5, <1>9

\* What an index node knows when it processes a result of its own.
LEMMA PolledFacts ==
    ASSUME IndInv, NEW x \in polled, NEW i, NEW r, NEW t,
           i = x.node, r = x.result, t = <<"polled", x>>
    PROVE  /\ UnderWay(i, r, t) /\ t[1] = "polled" /\ log \in Logs
           /\ r.query.id \in ReadIds /\ i \in Mergers /\ r.query.master \in Mergers
           /\ reads[r.query.id].status # "new"
           /\ EachShardAsked(r.query.id) =>
                /\ AnswersUnderWay(r.query.id) # {} \/ Answered(r.query.id) =>
                     PointHitSeen(r.query.id)
                /\ IsPointHit(r) => AnswersUnderWay(r.query.id) = {} /\ ~Answered(r.query.id)
<1>1. i \in IndexNodeIds /\ ResultOK(i, r) /\ log \in Logs
  BY DEF IndInv, DataInv, PolledInv
<1>2. t \in Carried(i, r.query.id)
  BY DEF Carried
<1>3. t[1] = "polled" /\ t[2] = x
  OBVIOUS
<1>4. UnderWay(i, r, t)
  BY <1>1, <1>2, <1>3 DEF UnderWay
<1>5. /\ r.query.id \in ReadIds /\ Asked(r.query.id) # {} /\ r \in Results
      /\ reads[r.query.id].status # "new"
  BY <1>4, UnderWayFacts
<1>6. r.query.master \in Mergers /\ i \in Mergers
  BY <1>1, <1>5 DEF Results, Queries, Mergers
<1>7. AnswerInv(r.query.id)
  BY <1>5 DEF IndInv
<1>8. EachShardAsked(r.query.id) =>
        (AnswersUnderWay(r.query.id) # {} \/ Answered(r.query.id) => PointHitSeen(r.query.id))
  BY <1>5, <1>7 DEF AnswerInv, OneAnswerOf
<1>9. EachShardAsked(r.query.id) /\ IsPointHit(r) => ~PointHitSeen(r.query.id)
  BY <1>3, <1>4, OnePointHit
<1> QED
  BY <1>1, <1>3, <1>4, <1>5, <1>6, <1>8, <1>9

\* The result is passed on to the merging node.
LEMMA SendResultStep ==
    ASSUME IndInv, NEW x \in polled, NEW hit \in PointHitMsgs(x.result), polled' = polled \ {x},
           msgs' = msgs \cup hit \cup {SendMasterIndexResult(x.node, x.result)},
           UNCHANGED <<log, merger, applied, index, reads, session, ongoing, storageReads>>
    PROVE  IndInv'
<1>1. PICK i, r, id, t, s : /\ i = x.node /\ r = x.result /\ id = r.query.id /\ t = <<"polled", x>>
                            /\ s = SendMasterIndexResult(i, r)
  OBVIOUS
<1>2. /\ UnderWay(i, r, t) /\ log \in Logs
      /\ id \in ReadIds /\ r.query.master \in Mergers /\ reads[id].status # "new"
      /\ EachShardAsked(id) =>
           /\ AnswersUnderWay(id) # {} \/ Answered(id) => PointHitSeen(id)
           /\ IsPointHit(r) => AnswersUnderWay(id) = {} /\ ~Answered(id)
  BY <1>1, PolledFacts
<1>3. i \in IndexNodeIds /\ ResultOK(i, r) /\ \A u \in Tokens(i, id) : u = t
  BY <1>1, <1>2, UnderWayFacts DEF UnderWay
<1>4. s.op = "INDEX_RESULT" /\ s.from = i /\ s.to = r.query.master /\ s.result = r
  BY <1>1 DEF SendMasterIndexResult
<1>5. MessageOK(s)
  BY <1>2, <1>3, <1>4 DEF MessageOK
<1>6. \/ hit = {} /\ ~IsPointHit(r)
      \/ /\ IsPointHit(r)
         /\ \E a : hit = {a} /\ a.op \in {"READ_AT", "RESPONSE"} /\ a.id = id /\ MessageOK(a)
  BY <1>1, <1>2, <1>3, PointHitMsgsFacts
<1>7. \A a \in hit : /\ a.op \notin {"READ", "INDEX_RESULT"} /\ a.id = id
                     /\ MessageOK(a) /\ IsAnswer(a) /\ \A b \in hit : a = b
  BY <1>6 DEF IsAnswer
<1>8. PICK add, gone : add = hit \cup {s} /\ gone = {}
  OBVIOUS
<1>9. Keeps /\ OngoingInv'
  <2>1. Keeps
    BY KeepsSame
  <2> QED
    BY <2>1, Frame DEF IndInv, DataInv
<1>10. ASSUME NEW j, NEW k, NEW u \in Carried(j, k)'
       PROVE  \/ u \in Carried(j, k) /\ u # t
              \/ j = i /\ k = id /\ u = <<"sent", s>>
  <2>1. \/ \E n \in msgs' : u = <<"asked", n>> /\ n.op = "READ" /\ n.to = j /\ n.query.id = k
        \/ \E z \in polled' : u = <<"polled", z>> /\ z.node = j /\ z.result.query.id = k
        \/ \E n \in msgs' : /\ u = <<"sent", n>> /\ n.op = "INDEX_RESULT" /\ n.from = j
                            /\ n.result.query.id = k
    BY <1>10 DEF Carried
  <2>2. CASE \E n \in msgs' : u = <<"asked", n>> /\ n.op = "READ" /\ n.to = j /\ n.query.id = k
    <3>1. PICK n \in msgs' : u = <<"asked", n>> /\ n.op = "READ" /\ n.to = j /\ n.query.id = k
      BY <2>2
    <3>2. n \in msgs
      BY <1>1, <1>4, <1>7, <3>1
    <3> QED
      BY <1>1, <3>1, <3>2 DEF Carried
  <2>3. CASE \E z \in polled' : u = <<"polled", z>> /\ z.node = j /\ z.result.query.id = k
    <3>1. PICK z \in polled' : u = <<"polled", z>> /\ z.node = j /\ z.result.query.id = k
      BY <2>3
    <3>2. z \in polled /\ z # x
      OBVIOUS
    <3>3. u \in Carried(j, k)
      BY <3>1, <3>2 DEF Carried
    <3> QED
      BY <1>1, <3>1, <3>2, <3>3
  <2>4. CASE \E n \in msgs' : /\ u = <<"sent", n>> /\ n.op = "INDEX_RESULT" /\ n.from = j
                              /\ n.result.query.id = k
    <3>1. PICK n \in msgs' : /\ u = <<"sent", n>> /\ n.op = "INDEX_RESULT" /\ n.from = j
                             /\ n.result.query.id = k
      BY <2>4
    <3>2. n \in msgs \/ n = s
      BY <1>1, <1>7, <3>1
    <3>3. n \in msgs => u \in Carried(j, k) /\ u # t
      BY <1>1, <3>1 DEF Carried
    <3> QED
      BY <1>1, <1>4, <3>1, <3>2, <3>3
  <2> QED
    BY <2>1, <2>2, <2>3, <2>4
<1>11. ASSUME NEW k \in ReadIds, NEW j \in IndexNodeIds
       PROVE  (Tokens(j, k) = {} => Tokens(j, k)' = {})
              /\ (Single(Tokens(j, k)) => Single(Tokens(j, k)'))
  <2>1. AtIndex(j, index[j], k)' = AtIndex(j, index[j], k) /\ MergedAt(j, k)' = MergedAt(j, k)
    BY DEF AtIndex, MergedAt
  <2>2. CASE ~(j = i /\ k = id)
    <3>1. Carried(j, k)' \subseteq Carried(j, k)
      BY <1>10, <2>2
    <3>2. Tokens(j, k)' \subseteq Tokens(j, k)
      BY <2>1, <3>1 DEF Tokens
    <3> QED
      BY <3>2, SingleFacts
  <2>3. CASE j = i /\ k = id
    <3>1. t \in Carried(j, k)
      BY <1>1, <1>2, <2>3 DEF UnderWay
    <3>2. AtIndex(j, index[j], k) = {} /\ MergedAt(j, k) = {}
      <4>1. \A u \in AtIndex(j, index[j], k) \cup MergedAt(j, k) : u = t
        BY <1>3, <2>3 DEF Tokens
      <4>2. t \notin MergedAt(j, k)
        BY <1>1 DEF MergedAt
      <4>3. t \notin AtIndex(j, index[j], k)
        <5>1. index[j].results = {}
          BY DEF IndInv, DataInv, IndexInv
        <5> QED
          BY <1>1, <5>1 DEF AtIndex
      <4> QED
        BY <4>1, <4>2, <4>3
    <3>3. \A u \in Tokens(j, k)' : u = <<"sent", s>>
      BY <1>3, <1>10, <2>1, <2>3, <3>2 DEF Tokens
    <3> QED
      BY <3>1, <3>3 DEF Single, Tokens
  <2> QED
    BY <2>2, <2>3
<1>12. \A y : IsPointHit(y)' <=> IsPointHit(y)
  BY LogSame
<1>13. \A k \in ReadIds : PointHitSeen(k) => PointHitSeen(k)'
  BY <1>12 DEF PointHitSeen
<1>14. IsPointHit(r) => PointHitSeen(id)'
  <2>1. s \in msgs' /\ s.result.query.id = id
    BY <1>1, <1>4
  <2> QED
    BY <1>4, <1>12, <2>1 DEF PointHitSeen
<1>15. /\ UNCHANGED <<log, merger, index, reads, session, storageReads>>
       /\ polled' \subseteq polled /\ msgs' = (msgs \ gone) \cup add
       /\ \A n \in gone : n.op = "INDEX_RESULT"
  BY <1>1, <1>8
<1>16. /\ \A a, b \in add : IsAnswer(a) /\ IsAnswer(b) => a = b
       /\ (\E a \in add : IsAnswer(a)) => IsPointHit(r)
  BY <1>4, <1>6, <1>7, <1>8 DEF IsAnswer
<1>17. /\ EachShardAsked(id)
       /\ AnswersUnderWay(id) # {} \/ Answered(id) \/ (\E a \in add : IsAnswer(a))
       => Asked(id)' = {} \/ PointHitSeen(id)'
  BY <1>2, <1>13, <1>14, <1>16
<1>18. \A a \in add : MessageOK(a) /\ (a.op = "INDEX_RESULT" \/ (IsAnswer(a) /\ a.id = id))
  BY <1>4, <1>5, <1>7, <1>8
<1>19. EachShardAsked(id) /\ (\E a \in add : IsAnswer(a)) =>
         AnswersUnderWay(id) = {} /\ ~Answered(id)
  BY <1>2, <1>16
<1>20. \A k \in ReadIds \ {id} : PointHitSeen(k) => PointHitSeen(k)'
  BY <1>13
<1>21. ResultMove(id, gone, add)
  BY <1>2, <1>9, <1>11, <1>15, <1>16, <1>17, <1>18, <1>19, <1>20 DEF ResultMove
<1> QED
  BY <1>21, ResultStep

\* The result is of the merging node itself.
LEMMA OwnResultStep ==
    ASSUME IndInv, NEW x \in polled, NEW i, i = x.node, NEW r, r = x.result,
           NEW hit \in PointHitMsgs(r), polled' = polled \ {x},
           Aggregate(i, r.query.id, Merged(ongoing[i][r.query.id], i, r)),
           NEW merged \in MergeMsgs(Merged(ongoing[i][r.query.id], i, r)),
           msgs' = msgs \cup hit \cup merged,
           UNCHANGED <<log, merger, applied, index, reads, session, storageReads>>
    PROVE  IndInv'
<1>1. PICK t, id : t = <<"polled", x>> /\ id = r.query.id
  OBVIOUS
<1> DEFINE old == ongoing[i][id]
           M   == Merged(old, i, r)
<1>0. Aggregate(i, id, M) /\ merged \in MergeMsgs(M)
  BY <1>1
<1>2. /\ UnderWay(i, r, t) /\ log \in Logs
      /\ id \in ReadIds /\ i \in Mergers /\ reads[id].status # "new"
      /\ EachShardAsked(id) =>
           /\ AnswersUnderWay(id) # {} \/ Answered(id) => PointHitSeen(id)
           /\ IsPointHit(r) => AnswersUnderWay(id) = {} /\ ~Answered(id)
  BY <1>1, PolledFacts
<1>3. i \in IndexNodeIds /\ ResultOK(i, r) /\ Keeps
  BY <1>1, <1>2, KeepsSame DEF UnderWay
<1>4. \/ hit = {} /\ ~IsPointHit(r)
      \/ /\ IsPointHit(r)
         /\ \E a : hit = {a} /\ a.op \in {"READ_AT", "RESPONSE"} /\ a.id = id /\ MessageOK(a)
  BY <1>1, <1>2, <1>3, PointHitMsgsFacts
<1>5. /\ M.nodes = old.nodes \cup {i}
      /\ IsPointHit(r) => IsPointHit(M.result)
      /\ old.nodes # {} /\ IsPointHit(old.result) => IsPointHit(M.result)
      /\ Complete(M) =>
           /\ M.result.query.id = id
           /\ IsFound(M.result) => EntryAnswers(id, M.result.found, M.result.progress)
           /\ ~IsFound(M.result) => NothingAnswers(id)
           /\ EachShardAsked(id) /\ PointHitSeen(id) => IsPointHit(M.result)
  <2>1. MergeOK(i, i, r)
    BY <1>2, MergeIsOK
  <2> QED
    BY <1>1, <2>1, Zenon DEF MergeOK
<1> HIDE DEF old, M
<1>6. \/ merged = {} /\ (Complete(M) => IsPointHit(M.result))
      \/ /\ Complete(M) /\ ~IsPointHit(M.result)
         /\ \E a : merged = {a} /\ a.op \in {"READ_AT", "RESPONSE"} /\ a.id = id /\ MessageOK(a)
  BY <1>0, <1>2, <1>5, MergeMsgsFacts
<1>7. PICK add, gone : add = hit \cup merged /\ gone = {}
  OBVIOUS
<1>8. /\ \A a \in add : /\ MessageOK(a) /\ IsAnswer(a) /\ a.id = id
                        /\ a.op # "INDEX_RESULT" /\ a.op # "READ"
      /\ \A a, b \in add : a = b
      /\ hit = {} \/ merged = {}
  <2>1. hit = {} \/ merged = {}
    BY <1>4, <1>5, <1>6
  <2>2. \A a \in hit : /\ MessageOK(a) /\ IsAnswer(a) /\ a.id = id
                       /\ a.op # "INDEX_RESULT" /\ a.op # "READ" /\ \A b \in hit : a = b
    BY <1>4 DEF IsAnswer
  <2>3. \A a \in merged : /\ MessageOK(a) /\ IsAnswer(a) /\ a.id = id
                          /\ a.op # "INDEX_RESULT" /\ a.op # "READ" /\ \A b \in merged : a = b
    BY <1>6 DEF IsAnswer
  <2> QED
    BY <1>7, <2>1, <2>2, <2>3
<1>9. msgs' = (msgs \ gone) \cup add
  BY <1>7
<1>10. \A j, k : Carried(j, k)' \subseteq Carried(j, k) \ {t}
  <2>1. ASSUME NEW j, NEW k, NEW u \in Carried(j, k)' PROVE u \in Carried(j, k) /\ u # t
    <3>1. \/ \E n \in msgs' : u = <<"asked", n>> /\ n.op = "READ" /\ n.to = j /\ n.query.id = k
          \/ \E z \in polled' : u = <<"polled", z>> /\ z.node = j /\ z.result.query.id = k
          \/ \E n \in msgs' : /\ u = <<"sent", n>> /\ n.op = "INDEX_RESULT" /\ n.from = j
                              /\ n.result.query.id = k
      BY <2>1 DEF Carried
    <3>2. CASE \E n \in msgs' : u = <<"asked", n>> /\ n.op = "READ" /\ n.to = j /\ n.query.id = k
      <4>1. PICK n \in msgs' : u = <<"asked", n>> /\ n.op = "READ" /\ n.to = j /\ n.query.id = k
        BY <3>2
      <4>2. n \in msgs
        BY <1>8, <1>9, <4>1
      <4> QED
        BY <1>1, <4>1, <4>2 DEF Carried
    <3>3. CASE \E z \in polled' : u = <<"polled", z>> /\ z.node = j /\ z.result.query.id = k
      <4>1. PICK z \in polled' : u = <<"polled", z>> /\ z.node = j /\ z.result.query.id = k
        BY <3>3
      <4>2. z \in polled /\ z # x
        OBVIOUS
      <4>3. u \in Carried(j, k)
        BY <4>1, <4>2 DEF Carried
      <4> QED
        BY <1>1, <4>1, <4>2, <4>3
    <3>4. CASE \E n \in msgs' : /\ u = <<"sent", n>> /\ n.op = "INDEX_RESULT" /\ n.from = j
                                /\ n.result.query.id = k
      <4>1. PICK n \in msgs' : /\ u = <<"sent", n>> /\ n.op = "INDEX_RESULT" /\ n.from = j
                               /\ n.result.query.id = k
        BY <3>4
      <4>2. n \in msgs
        BY <1>8, <1>9, <4>1
      <4> QED
        BY <1>1, <4>1, <4>2 DEF Carried
    <3> QED
      BY <3>1, <3>2, <3>3, <3>4
  <2> QED
    BY <2>1
<1>11. /\ OngoingInv'
       /\ \A k \in ReadIds : \A j \in IndexNodeIds :
            (Tokens(j, k) = {} => Tokens(j, k)' = {})
            /\ (Single(Tokens(j, k)) => Single(Tokens(j, k)'))
       /\ Complete(M) /\ EachShardAsked(id) => Asked(id)' = {}
  BY <1>1, <1>2, <1>3, <1>10, MergeTokens DEF old, M
<1>12. /\ ongoing'[i][id] = IF Complete(M) THEN NoReadOp ELSE M
       /\ \A h \in Mergers, k \in ReadIds : h # i \/ k # id => ongoing'[h][k] = ongoing[h][k]
  <2>1. OngoingInv /\ Aggregate(i, id, M)
    BY <1>0 DEF IndInv, DataInv
  <2> QED
    BY <1>2, <2>1, AggregateFacts
<1>13. \A y : IsPointHit(y)' <=> IsPointHit(y)
  BY LogSame
<1>14. ~Complete(M) /\ IsPointHit(M.result) => PointHitSeen(id)'
  <2>1. ~Complete(M) => ongoing'[i][id] = M /\ M.nodes # {} /\ i \in Mergers
    BY <1>2, <1>5, <1>12
  <2> QED
    BY <1>13, <2>1 DEF PointHitSeen
<1>15. ASSUME NEW k \in ReadIds, PointHitSeen(k), k = id => ~Complete(M)
       PROVE  PointHitSeen(k)'
  <2>1. CASE \E n \in msgs : n.op = "INDEX_RESULT" /\ n.result.query.id = k /\ IsPointHit(n.result)
    BY <1>13, <2>1 DEF PointHitSeen
  <2>2. CASE k = id /\ old.nodes # {} /\ IsPointHit(old.result)
    BY <1>5, <1>14, <1>15, <2>2
  <2>3. CASE \E h \in Mergers : (h # i \/ k # id) /\ ongoing[h][k].nodes # {}
                                /\ IsPointHit(ongoing[h][k].result)
    <3>1. PICK h \in Mergers : (h # i \/ k # id) /\ ongoing[h][k].nodes # {}
                               /\ IsPointHit(ongoing[h][k].result)
      BY <2>3
    <3>2. ongoing'[h][k] = ongoing[h][k]
      BY <1>12, <3>1
    <3> QED
      BY <1>13, <3>1, <3>2 DEF PointHitSeen
  <2> QED
    BY <1>15, <2>1, <2>2, <2>3 DEF PointHitSeen, old
<1>16. EachShardAsked(id) /\ (\E a \in add : IsAnswer(a)) =>
         AnswersUnderWay(id) = {} /\ ~Answered(id) /\ (Complete(M) \/ IsPointHit(r))
  BY <1>2, <1>4, <1>5, <1>6, <1>7
<1>17. /\ UNCHANGED <<log, merger, index, reads, session, storageReads>>
       /\ polled' \subseteq polled
       /\ \A n \in gone : n.op = "INDEX_RESULT"
  BY <1>7
<1>18. \A a, b \in add : IsAnswer(a) /\ IsAnswer(b) => a = b
  BY <1>8
<1>19. /\ EachShardAsked(id)
       /\ AnswersUnderWay(id) # {} \/ Answered(id) \/ (\E a \in add : IsAnswer(a))
       => Asked(id)' = {} \/ PointHitSeen(id)'
  BY <1>2, <1>5, <1>11, <1>14, <1>15, <1>16
<1>20. \A k \in ReadIds \ {id} : PointHitSeen(k) => PointHitSeen(k)'
  BY <1>15
<1>21. \A a \in add : MessageOK(a) /\ (a.op = "INDEX_RESULT" \/ (IsAnswer(a) /\ a.id = id))
  BY <1>8
<1>22. EachShardAsked(id) /\ (\E a \in add : IsAnswer(a)) =>
         AnswersUnderWay(id) = {} /\ ~Answered(id)
  BY <1>16
<1>23. ResultMove(id, gone, add)
  BY <1>2, <1>9, <1>11, <1>17, <1>18, <1>19, <1>20, <1>21, <1>22 DEF ResultMove
<1> QED
  BY <1>23, ResultStep

\* An index node processes a result of its own index.
LEMMA ProcessIndexResultStep ==
    ASSUME IndInv, NEW x \in polled, ProcessIndexResult(x)
    PROVE  IndInv'
<1>1. PICK r, i : r = x.result /\ i = x.node
  OBVIOUS
<1>2. PICK hit \in PointHitMsgs(r) :
        \/ /\ r.query.type = "aggregator" \/ r.query.master # i
           /\ msgs' = msgs \cup hit \cup {SendMasterIndexResult(i, r)}
           /\ UNCHANGED ongoing
        \/ /\ r.query.type = "master-slave" /\ r.query.master = i
           /\ Aggregate(i, r.query.id, Merged(ongoing[i][r.query.id], i, r))
           /\ \E merged \in MergeMsgs(Merged(ongoing[i][r.query.id], i, r)) : msgs' = msgs \cup hit \cup merged
  BY <1>1 DEF ProcessIndexResult
<1>3. /\ polled' = polled \ {x}
      /\ UNCHANGED <<log, merger, applied, index, reads, session, storageReads>>
  BY DEF ProcessIndexResult
<1>4. CASE /\ msgs' = msgs \cup hit \cup {SendMasterIndexResult(i, r)}
           /\ UNCHANGED ongoing
  BY <1>1, <1>3, <1>4, SendResultStep
<1>5. CASE /\ Aggregate(i, r.query.id, Merged(ongoing[i][r.query.id], i, r))
           /\ \E merged \in MergeMsgs(Merged(ongoing[i][r.query.id], i, r)) : msgs' = msgs \cup hit \cup merged
  <2>1. PICK merged \in MergeMsgs(Merged(ongoing[i][r.query.id], i, r)) : msgs' = msgs \cup hit \cup merged
    BY <1>5
  <2> QED
    BY <1>1, <1>3, <1>5, <2>1, OwnResultStep
<1> QED
  BY <1>2, <1>4, <1>5
-----------------------------------------------------------------------------
(* The theorems. *)

\* A new index shard has nothing of the log, and nothing of its part of the log comes
\* before the position it starts at.
LEMMA NewShardOK ==
    ASSUME log \in Logs, NEW i \in IndexNodeIds
    PROVE  LET ix == NewIndexShard(ShardOf(i)) IN IndexOK(i, ix) /\ ix.results = {}
<1> DEFINE ix == NewIndexShard(ShardOf(i))
<1>1. i \in Nat
  BY IndexNodeFacts
<1>2. PICK s \in Nat : s = ShardOf(i) /\ s < NumShards
  BY <1>1, ModFacts, PlanAssumption DEF ShardOf
<1>3. s % NumShards = s
  <2>1. PICK N \in Nat : N = NumShards /\ N > 0
    BY PlanAssumption
  <2>2. PICK j \in Int : s = N * j + (s % N)
    BY <2>1, Division
  <2>3. s % N \in 0 .. N - 1
    BY <2>1
  <2>4. j = 0
    BY <1>2, <2>1, <2>2, <2>3
  <2> QED
    BY <2>1, <2>2, <2>3, <2>4
<1>4. /\ ix \in Shards /\ ix.indexed = s /\ ix.updates = {} /\ ix.expected = {}
      /\ ix.received = {} /\ ix.entries = {} /\ ix.blocking = {} /\ ix.pending = {}
      /\ ix.results = {}
  BY <1>2 DEF NewIndexShard, Shards
<1> HIDE DEF ix
<1>5. Indexed(i, s) = {}
  <2>1. ASSUME NEW q \in Seqnums, OwnsPosition(i, Entry(q).pos), Entry(q).pos <= s PROVE FALSE
    <3>1. Entry(q).pos - 1 \in Nat /\ Entry(q).pos \in Nat
      BY LogFacts
    <3>2. (Entry(q).pos - 1) % NumShards <= Entry(q).pos - 1
      BY <3>1, ModFacts
    <3>3. (Entry(q).pos - 1) % NumShards = s
      BY <1>2, <2>1 DEF OwnsPosition
    <3> QED
      BY <2>1, <3>1, <3>2, <3>3
  <2> QED
    BY <2>1 DEF Indexed
<1>6. ShardOK(i, ix)
  BY <1>2, <1>3, <1>4, <1>5 DEF ShardOK
<1>7. QueriesOK(i, ix)
  BY <1>4 DEF QueriesOK
<1> QED
  BY <1>4, <1>6, <1>7 DEF IndexOK, ix

\* The invariant holds at the beginning.
LEMMA InitInv == Init => IndInv
<1> SUFFICES ASSUME Init PROVE IndInv
  OBVIOUS
<1>1. /\ log \in Logs /\ merger \in {"master-slave", "aggregator"}
      /\ polled = {} /\ storageReads = {} /\ msgs = {}
      /\ index = [i \in IndexNodeIds |-> NewIndexShard(ShardOf(i))]
      /\ reads = [id \in ReadIds |-> NoRead]
      /\ session = [progress |-> 0, seen |-> {}]
      /\ ongoing = [i \in Mergers |-> [id \in ReadIds |-> NoReadOp]]
  BY DEF Init
<1>2. IndexInv
  BY <1>1, NewShardOK DEF IndexInv
<1>3. PolledInv /\ MessageInv /\ StorageInv /\ SessionOK
  BY <1>1 DEF PolledInv, MessageInv, StorageInv, SessionOK
<1>4. NoReadOp \in ReadOps /\ NoReadOp.nodes = {}
  BY DEF NoReadOp, ReadOps
<1>5. OngoingInv
  <2>1. \A id : MergedOK(NoReadOp, id)
    BY <1>4 DEF MergedOK
  <2> QED
    BY <1>1, <1>4, <2>1 DEF OngoingInv
<1>6. ReadInv
  <2>1. Invalid \in 0 .. Len(log)
    BY <1>1, LogFacts
  <2>2. NoRead \in Reads /\ NoRead.status = "new" /\ NoRead.result = None /\ NoRead.asked = {}
    BY <2>1 DEF NoRead, Reads
  <2>3. None \notin {"READ_OK", "EMPTY", "DATA_LOST"}
    BY IndexTierAssumption
  <2> QED
    BY <1>1, <2>2, <2>3 DEF ReadInv, ReadOK
<1>7. ASSUME NEW id \in ReadIds PROVE TokenInv(id) /\ AnswerInv(id)
  <2>1. ASSUME NEW i \in IndexNodeIds PROVE Tokens(i, id) = {}
    <3>1. NoneAt(index[i], id)
      BY <1>1 DEF NoneAt, NewIndexShard
    <3>2. AtIndex(i, index[i], id) = {}
      BY <3>1, TokensAtIndex
    <3>3. Carried(i, id) = {}
      BY <1>1 DEF Carried
    <3>4. MergedAt(i, id) = {}
      BY <1>1, <1>4 DEF MergedAt
    <3> QED
      BY <3>2, <3>3, <3>4 DEF Tokens
  <2>2. Asked(id) = {}
    BY <2>1 DEF Asked
  <2>3. AnswersUnderWay(id) = {}
    BY <1>1 DEF AnswersUnderWay
  <2>4. ~Answered(id)
    BY <1>1, IndexTierAssumption DEF Answered, NoRead
  <2>5. TokenInv(id)
    BY <2>1, <2>2 DEF TokenInv, Single
  <2> QED
    BY <1>1, <2>3, <2>4, <2>5 DEF AnswerInv, OneAnswerOf, Single
<1> QED
  BY <1>1, <1>2, <1>3, <1>5, <1>6, <1>7 DEF IndInv, DataInv

\* Nothing changes.
LEMMA StutterStep ==
    ASSUME IndInv, UNCHANGED vars
    PROVE  IndInv'
<1>1. UNCHANGED <<log, merger, applied, index, polled, reads, session, ongoing, storageReads, msgs>>
  BY DEF vars
<1>2. Keeps /\ log \in Logs
  BY <1>1, KeepsSame DEF IndInv, DataInv
<1>3. IndexInv' /\ PolledInv' /\ OngoingInv' /\ ReadInv' /\ SessionOK'
  BY <1>1, <1>2, Frame DEF IndInv, DataInv
<1>4. MessageInv' /\ StorageInv'
  <2>1. MessageInv /\ StorageInv
    BY DEF IndInv, DataInv
  <2> QED
    BY <1>1, <1>2, <2>1, Frame DEF MessageInv, StorageInv
<1>5. ASSUME NEW id \in ReadIds PROVE TokenInv(id)' /\ AnswerInv(id)'
  <2>1. /\ \A i : Tokens(i, id)' = Tokens(i, id)
        /\ Asked(id)' = Asked(id) /\ (PointHitSeen(id)' <=> PointHitSeen(id))
    BY <1>1, QuietStep
  <2>2. AnswersUnderWay(id)' = AnswersUnderWay(id) /\ (Answered(id)' <=> Answered(id))
    BY <1>1 DEF AnswersUnderWay, Answered
  <2>3. TokenInv(id) /\ AnswerInv(id)
    BY DEF IndInv
  <2>4. TokenInv(id)' /\ (EachShardAsked(id)' <=> EachShardAsked(id))
    BY <1>1, <2>1, <2>3, QuietTokens DEF EachShardAsked
  <2> QED
    BY <1>1, <2>1, <2>2, <2>3, <2>4 DEF AnswerInv, OneAnswerOf, Single
<1> QED
  BY <1>1, <1>2, <1>3, <1>4, <1>5 DEF IndInv, DataInv

\* Every step preserves the invariant.
LEMMA NextInv == IndInv /\ [Next]_vars => IndInv'
<1> SUFFICES ASSUME IndInv, [Next]_vars PROVE IndInv'
  OBVIOUS
<1>1. CASE UNCHANGED vars
  BY <1>1, StutterStep
<1>2. CASE \E q \in OwnEntries : AppendFinished(q)
  BY <1>2, AppendFinishedStep
<1>3. ASSUME NEW id \in NextRead, NEW picked \in PickIndexNodePerShard,
             NEW dir \in Directions, NEW tag \in QueryTags, NEW seqnum \in QuerySeqnums,
             NEW master \in MergerChoices(picked), NEW sent \in SUBSET picked,
             HandleIndexTierRead(id, dir, tag, seqnum, picked, master, sent)
      PROVE  IndInv'
  BY <1>3, HandleIndexTierReadStep
<1>4. ASSUME NEW n, NEW p, OnRecvNewMetaLogs(n, p) PROVE IndInv'
  BY <1>4, OnRecvNewMetaLogsStep
<1>5. ASSUME NEW m \in msgs, HandleReadAtRequest(m) PROVE IndInv'
  BY <1>5, HandleReadAtRequestStep
<1>6. ASSUME NEW m \in msgs, HandleReadRequest(m) PROVE IndInv'
  BY <1>6, HandleReadRequestStep
<1>7. ASSUME NEW m \in msgs, OnRecvResponse(m) PROVE IndInv'
  BY <1>7, OnRecvResponseStep
<1>8. ASSUME NEW m \in msgs, IndexerOnRecvNewIndexData(m) PROVE IndInv'
  BY <1>8, IndexerOnRecvNewIndexDataStep
<1>9. ASSUME NEW m \in msgs, HandleSlaveResult(m) PROVE IndInv'
  BY <1>9, HandleSlaveResultStep
<1>10. ASSUME NEW x \in polled, ProcessIndexResult(x) PROVE IndInv'
  BY <1>10, ProcessIndexResultStep
<1>11. FunctionNext => IndInv'
  BY <1>2, <1>3 DEF FunctionNext
<1>12. SystemNext => IndInv'
  BY <1>4, <1>5, <1>6, <1>7, <1>8, <1>9, <1>10 DEF SystemNext
<1> QED
  BY <1>1, <1>11, <1>12 DEF Next

\* The inductive invariant: what indexes, messages, merges and reads hold of the log, that
\* every request exists once and, when each index shard was asked, every answer too.  It
\* assumes nothing of the order of the nodes in the plan (controller.cpp shuffles them).
THEOREM Invariance == Spec => []IndInv
<1> QED
  BY InitInv, NextInv, PTL DEF Spec

\* An index node has exactly its part of the log up to the position it has indexed, for
\* all logs, plans and orders of the index data (index_shard.cpp, ProvideIndexData and
\* AdvanceIndexProgress).
THEOREM ShardsAreTheLog == Spec => []ShardIndexIsLog
<1>1. IndInv => ShardIndexIsLog
  <2> SUFFICES ASSUME IndInv, NEW i \in IndexNodeIds
               PROVE  index[i].entries = {q \in Seqnums : /\ OwnsPosition(i, Entry(q).pos)
                                                          /\ Entry(q).pos <= index[i].indexed}
    BY DEF ShardIndexIsLog
  <2>1. ShardOK(i, index[i])
    BY DEF IndInv, DataInv, IndexInv, IndexOK
  <2> QED
    BY <2>1 DEF ShardOK, Indexed
<1> QED
  BY <1>1, Invariance, PTL

\* For every order of the nodes in the plan: a merged answer is an entry that was asked for,
\* and when the nodes that were picked are of different index shards nothing that the call
\* had seen when it read is closer (index.cpp, MakeQuery; aggregating.cpp, Merge).
THEOREM MergedReadsSeeSession == Spec => []ReadSeesSession
<1>1. IndInv => ReadSeesSession
  <2> SUFFICES ASSUME IndInv, NEW id \in ReadIds
               PROVE  LET r == reads[id]
                          mustSee == {q \in r.seen : Matches(q, r.tag) /\ EachShardAsked(id)}
                      IN  /\ r.result = "READ_OK" =>
                               /\ Matches(r.found, r.tag)
                               /\ r.dir = "prev" => /\ r.found <= r.seqnum
                                                    /\ \A q \in mustSee : q <= r.seqnum => q <= r.found
                               /\ r.dir # "prev" => /\ r.found >= r.seqnum
                                                    /\ \A q \in mustSee : q >= r.seqnum => q >= r.found
                          /\ r.result = "EMPTY" =>
                               \A q \in mustSee : IF r.dir = "prev" THEN q > r.seqnum ELSE q < r.seqnum
    BY DEF ReadSeesSession
  <2>1. ReadOK(id) /\ log \in Logs
    BY DEF IndInv, DataInv, ReadInv
  <2>2. reads[id].seqnum \in Nat /\ \A q \in reads[id].seen : q \in Nat
    BY <2>1, LogFacts DEF ReadOK, Reads
  <2>3. reads[id].result = "READ_OK" => EntryAnswers(id, reads[id].found, LastPosition)
    BY <2>1 DEF ReadOK
  <2>4. reads[id].result = "EMPTY" => NothingAnswers(id)
    BY <2>1 DEF ReadOK
  <2>5. ASSUME reads[id].result = "READ_OK"
        PROVE  /\ InRange(reads[id], reads[id].found)
               /\ \A q \in reads[id].seen : EachShardAsked(id) /\
                    InRange(reads[id], q) => NotCloser(reads[id], reads[id].found, q)
    BY <2>3, <2>5 DEF EntryAnswers
  <2>6. ASSUME reads[id].result = "EMPTY"
        PROVE  \A q \in reads[id].seen : EachShardAsked(id) => ~InRange(reads[id], q)
    BY <2>4, <2>6 DEF NothingAnswers
  <2> QED
    BY <2>2, <2>5, <2>6 DEF InRange, NotCloser
<1> QED
  BY <1>1, Invariance, PTL

\* For every order of the nodes in the plan: a read for which nodes of different index
\* shards were picked has at most one answer under way, and none when it was answered,
\* although point hits overtake the merge (indexer.cpp, ProcessIndexResult).
THEOREM OneAnswer == Spec => []AnsweredOnce
<1>1. IndInv => AnsweredOnce
  <2> SUFFICES ASSUME IndInv, NEW id \in ReadIds, EachShardAsked(id)
               PROVE  /\ Cardinality(AnswersUnderWay(id)) <= 1
                      /\ reads[id].result \in {"READ_OK", "EMPTY"} => AnswersUnderWay(id) = {}
    BY DEF AnsweredOnce
  <2>1. OneAnswerOf(id)
    BY DEF IndInv, AnswerInv
  <2>2. PICK S : S = AnswersUnderWay(id)
    OBVIOUS
  <2>3. S = {} \/ \E t : S = {t}
    BY <2>1, <2>2 DEF OneAnswerOf, Single
  <2>4. Cardinality(S) <= 1
    <3>1. Cardinality({}) = 0
      BY FS_EmptySet
    <3>2. \A t : Cardinality({t}) = 1
      BY FS_Singleton
    <3>3. CASE S = {}
      BY <3>1, <3>3
    <3>4. CASE \E t : S = {t}
      <4>1. Cardinality(S) = 1
        BY <3>2, <3>4, Zenon
      <4> QED
        BY <4>1
    <3> QED
      BY <2>3, <3>3, <3>4
  <2> QED
    BY <2>1, <2>2, <2>4 DEF OneAnswerOf, Answered
<1> QED
  BY <1>1, Invariance, PTL

\* The plan takes for its s-th shard the nodes that keep the data of one index shard, as it
\* does when view.cpp's place in the plan and indexer.cpp's node id agree.
PlanFollowsNodeIds ==
    \A s, t \in 0 .. NumShards - 1 : \A m \in IndexShardNodes(s), n \in IndexShardNodes(t) :
        ShardOf(m) = ShardOf(n) => s = t

\* With such a plan every read asks each index shard, so that what is proved of those reads
\* holds of all (view.h, PickIndexNodePerShard).
THEOREM PlanDecides ==
    ASSUME PlanFollowsNodeIds
    PROVE  Spec => [](\A id \in ReadIds : EachShardAsked(id))
<1> DEFINE Different(P) == \A m, n \in P : ShardOf(m) = ShardOf(n) => m = n
           AllAsked == \A id \in ReadIds : EachShardAsked(id)
<1>1. ASSUME NEW P \in PickIndexNodePerShard PROVE Different(P)
  <2> SUFFICES ASSUME NEW m \in P, NEW n \in P, ShardOf(m) = ShardOf(n) PROVE m = n
    OBVIOUS
  <2>1. PICK s \in 0 .. NumShards - 1 : m \in IndexShardNodes(s)
    BY DEF PickIndexNodePerShard
  <2>2. PICK t \in 0 .. NumShards - 1 : n \in IndexShardNodes(t)
    BY DEF PickIndexNodePerShard
  <2>3. s = t
    BY <2>1, <2>2 DEF PlanFollowsNodeIds
  <2> DEFINE C == P \cap IndexShardNodes(s)
  <2>4. IsFiniteSet(C) /\ Cardinality(C) = 1 /\ m \in C /\ n \in C
    BY <2>1, <2>2, <2>3, PickedNodes, IndexNodeFacts, FS_Subset DEF PickIndexNodePerShard
  <2> HIDE DEF C
  <2>5. PICK c : C = {c}
    BY <2>4, FS_Singleton
  <2> QED
    BY <2>4, <2>5
<1>2. Init => AllAsked
  BY DEF Init, NoRead, EachShardAsked
<1>3. ASSUME IndInv, AllAsked, [Next]_vars PROVE AllAsked'
  <2>1. DOMAIN reads = ReadIds /\ \A id \in ReadIds : reads[id] \in Reads
    BY <1>3 DEF IndInv, DataInv, ReadInv, ReadOK
  <2>2. CASE reads' = reads
    BY <1>3, <2>2 DEF EachShardAsked
  <2>3. ASSUME NEW id0, NEW picked \in PickIndexNodePerShard, NEW dir, NEW tag, NEW seqnum,
               NEW master, NEW sent,
               HandleIndexTierRead(id0, dir, tag, seqnum, picked, master, sent)
        PROVE  AllAsked'
    <3> DEFINE new == [status |-> IF sent = picked THEN "ongoing" ELSE "done",
                       dir |-> dir, tag |-> tag, seqnum |-> seqnum, seen |-> session.seen,
                       asked |-> picked, result |-> IF sent = picked THEN None ELSE "DATA_LOST",
                       found |-> Invalid]
    <3>0. new.asked = picked /\ reads' = [reads EXCEPT ![id0] = new]
      BY <2>3 DEF HandleIndexTierRead
    <3> HIDE DEF new
    <3>1. PICK rd : rd.asked = picked /\ reads' = [reads EXCEPT ![id0] = rd]
      BY <3>0
    <3>2. \A id \in ReadIds : reads'[id].asked = reads[id].asked \/ reads'[id].asked = picked
      BY <2>1, <3>1
    <3> QED
      BY <1>1, <1>3, <3>2 DEF EachShardAsked
  <2>4. ASSUME NEW m, OnRecvResponse(m) PROVE AllAsked'
    <3>1. \/ reads' = reads
          \/ reads' = [reads EXCEPT ![m.id].status = "done", ![m.id].result = m.result,
                                    ![m.id].found = m.seqnum]
      BY <2>4 DEF OnRecvResponse
    <3>2. \A id \in ReadIds : reads'[id].asked = reads[id].asked
      BY <2>1, <3>1 DEF Reads
    <3> QED
      BY <1>3, <3>2 DEF EachShardAsked
  <2>5. FunctionNext => AllAsked'
    BY <2>2, <2>3 DEF FunctionNext, AppendFinished
  <2>6. SystemNext => AllAsked'
    BY <2>2, <2>4 DEF SystemNext, OnRecvNewMetaLogs, HandleReadAtRequest, HandleReadRequest,
                      IndexerOnRecvNewIndexData, HandleSlaveResult, ProcessIndexResult
  <2>7. UNCHANGED vars => AllAsked'
    BY <2>2 DEF vars
  <2> QED
    BY <1>3, <2>5, <2>6, <2>7 DEF Next
<1> HIDE DEF AllAsked
<1>4. Spec => []AllAsked
  BY <1>2, <1>3, Invariance, PTL DEF Spec
<1> QED
  BY <1>4 DEF AllAsked
=============================================================================
