--------------------------- MODULE SharedLog_proofs ---------------------------
(***************************************************************************)
(* Proofs about SharedLog: for every set of shards and storage nodes,      *)
(* every placing of the shards and every bound, IndInv is inductive.  No   *)
(* node stops for a missing entry, an answered append is on all replicas,  *)
(* seqnums respect real time, and the cuts are used as OrderedMetaLog      *)
(* provides them.                                                          *)
(***************************************************************************)
EXTENDS SharedLog, FiniteSetTheorems, SequenceTheorems, WellFoundedInduction, TLAPS

-----------------------------------------------------------------------------
(* The inductive invariant. *)

\* The seqnum after the first k cuts.
CutEnd(c)    == c.start + SumDeltas(c)[Len(c.shards)]
SeqnumEnd(k) == IF k = 0 THEN 0 ELSE CutEnd(cuts[k])

AllEntries == EntriesOf(0, Len(cuts))
Has(E, l)  == \E e \in E : e.localid = l

\* What MarkNextCut may produce: some entries of each of some shards.
Deltas    == [shard : Shards, start : Nat, delta : Nat \ {0}]
CutShapes ==
    {c \in [start : Nat, shards : UNION {[1..k -> Deltas] : k \in Nat \ {0}}] :
       \A i, j \in DOMAIN c.shards : c.shards[i].shard = c.shards[j].shard => i = j}

Entries == [seqnum : Nat, localid : LocalIds]

TypeOK ==
    /\ nextId \in [Shards -> 0..MaxAppends]
    /\ pendingAppends \in [Shards -> SUBSET LocalIds]
    /\ acked \in [Shards -> SUBSET Entries]
    /\ discarded \in [Shards -> SUBSET LocalIds]
    /\ active \in [Shards -> BOOLEAN]
    /\ pendingEntries \in [Storages -> SUBSET LocalIds]
    /\ liveEntries \in [Storages -> SUBSET Entries]
    /\ shardProgress \in [Storages -> [Shards -> 0..MaxAppends]]
    /\ progressDirty \in [Storages -> BOOLEAN]
    /\ viewFinalized \in SUBSET Nodes
    /\ storageProgress \in [Shards -> UNION {[S -> 0..MaxAppends] : S \in SUBSET Storages}]
    /\ \A sh \in Shards : storageProgress[sh] \in [StorageNodes[sh] -> 0..MaxAppends]
    /\ lastCut \in [Shards -> 0..MaxAppends]
    /\ dirtyShards \in SUBSET Shards
    /\ frozen \in BOOLEAN
    /\ cuts \in Seq(CutShapes)
    /\ committed \in 0..Len(cuts)
    /\ position \in [Nodes -> 0..Len(cuts)]
    /\ sealed \in SUBSET (0..Len(cuts))
    /\ replicateMsgs \in SUBSET [dst : Storages, localid : LocalIds]
    /\ progressMsgs \in SUBSET [src : Storages, progress : [Shards -> 0..MaxAppends]]
    /\ floor \in [Shards -> Seq(Nat)]

\* The metalog gives every entry below lastCut one seqnum, without gaps, and in
\* a shard in the order of the localids.
LogInv ==
    /\ \A k \in 1..Len(cuts) : cuts[k].start = SeqnumEnd(k - 1)
    /\ \A j, k \in 0..Len(cuts) : j <= k => SeqnumEnd(j) <= SeqnumEnd(k)
    /\ \A s \in 0..(SeqnumEnd(Len(cuts)) - 1) : \E e \in AllEntries : e.seqnum = s
    /\ \A e \in AllEntries : e \in Entries /\ e.localid.id < lastCut[e.localid.shard]
    /\ \A e, f \in AllEntries :
         /\ e.seqnum = f.seqnum => e = f
         /\ e.localid.shard = f.localid.shard =>
              (e.localid.id < f.localid.id <=> e.seqnum < f.seqnum)
    /\ \A sh \in Shards : \A i \in 0..(lastCut[sh] - 1) :
         Has(AllEntries, [shard |-> sh, id |-> i])

\* Each position on the way of an entry is behind the one before it.
ProgressInv ==
    /\ \A st \in Storages, sh \in Shards : shardProgress[st][sh] <= nextId[sh]
    /\ \A msg \in progressMsgs : \A sh \in Shards :
         msg.progress[sh] <= shardProgress[msg.src][sh]
    /\ \A sh \in Shards : \A st \in StorageNodes[sh] :
         /\ lastCut[sh] <= storageProgress[sh][st]
         /\ sh \in dirtyShards => lastCut[sh] < storageProgress[sh][st]
         /\ storageProgress[sh][st] <= shardProgress[st][sh]
    /\ \A msg \in replicateMsgs : msg.localid.id < nextId[msg.localid.shard]
    /\ \A st \in Storages : \A l \in pendingEntries[st] : l.id < nextId[l.shard]

\* A storage node has every entry below its shard progress, with its seqnum
\* once it has applied the cut.
StorageInv ==
    \A st \in Storages :
        /\ liveEntries[st] =
             {e \in EntriesOf(0, position[st]) : st \in StorageNodes[e.localid.shard]}
        /\ st \notin viewFinalized =>
             \A sh \in Shards : st \in StorageNodes[sh] =>
               \A i \in 0..(shardProgress[st][sh] - 1) :
                 \/ [shard |-> sh, id |-> i] \in pendingEntries[st]
                 \/ Has(EntriesOf(0, position[st]), [shard |-> sh, id |-> i])

\* An append is pending, answered with the seqnum of its entry or discarded.
EngineInv ==
    \A sh \in Shards :
        LET open == {l \in Issued : l.shard = sh /\ ~Has(EntriesOf(0, position[sh]), l)}
        IN  /\ acked[sh] = {e \in EntriesOf(0, position[sh]) : e.localid.shard = sh}
            /\ sh \notin viewFinalized => pendingAppends[sh] = open /\ discarded[sh] = {}
            /\ sh \in viewFinalized =>
                 pendingAppends[sh] = {} /\ discarded[sh] = open /\ ~active[sh]

\* Positions stay below what is replicated or sealed.
MetaInv ==
    /\ \A p, q \in sealed : p = q
    /\ \A p \in sealed : committed <= p
    /\ \A n \in Nodes : position[n] <= committed \/ \E p \in sealed : position[n] <= p
    /\ \A n \in viewFinalized : position[n] \in sealed

\* Appends that are not cut yet were issued below the next seqnum.
FloorInv ==
    \A sh \in Shards :
        /\ Len(floor[sh]) = nextId[sh]
        /\ \A i \in 1..nextId[sh] : floor[sh][i] <= SeqnumEnd(Len(cuts))
        /\ \A e \in AllEntries :
             e.localid.shard = sh => floor[sh][e.localid.id + 1] <= e.seqnum

IndInv ==
    /\ TypeOK /\ fatal = {}
    /\ LogInv /\ ProgressInv /\ StorageInv /\ EngineInv /\ MetaInv /\ FloorInv
-----------------------------------------------------------------------------
(* The operators of the model. *)

\* A non-empty set of natural numbers has a least element.
LEMMA NatMin ==
    ASSUME NEW S \in SUBSET Nat, S # {}
    PROVE  \E s \in S : \A x \in S : s <= x
<1> DEFINE R == {ss \in Nat \X Nat : ss[1] < ss[2]}
<1>1. IsWellFoundedOn(R, Nat)
  BY NatLessThanWellFounded DEF OpToRel
<1> HIDE DEF R
<1>2. PICK s \in S : \A x \in S : ~(<<x, s>> \in R)
  BY <1>1, WFMin
<1>3. \A x \in S : ~(x < s)
  BY <1>2 DEF R
<1> QED
  BY <1>3

\* The shape of a cut, spelled out.
LEMMA CutShapeFacts ==
    ASSUME NEW c \in CutShapes
    PROVE  /\ c.start \in Nat
           /\ Len(c.shards) \in Nat /\ Len(c.shards) > 0
           /\ DOMAIN c.shards = 1..Len(c.shards)
           /\ \A i \in 1..Len(c.shards) :
                /\ c.shards[i].shard \in Shards /\ c.shards[i].start \in Nat
                /\ c.shards[i].delta \in Nat /\ c.shards[i].delta > 0
           /\ \A i, j \in 1..Len(c.shards) : c.shards[i].shard = c.shards[j].shard => i = j
<1>1. PICK k \in Nat \ {0} : c.shards \in [1..k -> Deltas]
  BY DEF CutShapes
<1>2. Len(c.shards) = k /\ DOMAIN c.shards = 1..k
  BY <1>1
<1>3. \A i \in 1..k : c.shards[i] \in Deltas
  BY <1>1
<1>4. \A i \in 1..k :
        /\ c.shards[i].shard \in Shards /\ c.shards[i].start \in Nat
        /\ c.shards[i].delta \in Nat /\ c.shards[i].delta > 0
  BY <1>3 DEF Deltas
<1>5. c.start \in Nat
  BY DEF CutShapes
<1>6. \A i, j \in DOMAIN c.shards : c.shards[i].shard = c.shards[j].shard => i = j
  BY DEF CutShapes
<1> QED
  BY <1>2, <1>4, <1>5, <1>6, SMTT(60)

\* SumDeltas adds up the deltas: the recursive function exists and obeys its
\* equation.
LEMMA SumDeltasFacts ==
    ASSUME NEW c \in CutShapes
    PROVE  /\ SumDeltas(c) \in [0..Len(c.shards) -> Nat]
           /\ SumDeltas(c)[0] = 0
           /\ \A i \in 1..Len(c.shards) :
                SumDeltas(c)[i] = SumDeltas(c)[i - 1] + c.shards[i].delta
<1> DEFINE n == Len(c.shards)
           Adds(f, k) == /\ f \in [0..k -> Nat]
                         /\ f[0] = 0
                         /\ \A i \in 1..k : f[i] = f[i - 1] + c.shards[i].delta
           Eq(f) == f = [i \in 0..n |-> IF i = 0 THEN 0 ELSE f[i - 1] + c.shards[i].delta]
<1>1. n \in Nat /\ \A i \in 1..n : c.shards[i].delta \in Nat
  BY CutShapeFacts
<1> HIDE DEF n
<1>2. ASSUME NEW m \in 0..n, ~\E f : Adds(f, m)
      PROVE  FALSE
  <2> DEFINE Bad == {k \in 0..n : ~\E f : Adds(f, k)}
  <2>1. Bad \in SUBSET Nat /\ Bad # {}
    <3> HIDE DEF Adds
    <3> QED BY <1>1, <1>2
  <2>2. PICK k \in Bad : \A x \in Bad : k <= x
    <3> HIDE DEF Bad
    <3> QED BY <2>1, NatMin
  <2>3. k # 0
    <3> SUFFICES ASSUME k = 0 PROVE FALSE
      OBVIOUS
    <3>1. Adds([i \in 0..0 |-> 0], 0)
      OBVIOUS
    <3> QED
      BY <3>1, <2>2
  <2>4. k - 1 \in 0..n /\ k - 1 \notin Bad /\ k \in 1..n
    <3>1. k \in 0..n /\ \A x \in Bad : k <= x
      BY <2>2
    <3>2. k - 1 \in 0..n /\ k \in 1..n /\ ~(k <= k - 1)
      BY <1>1, <2>3, <3>1
    <3> HIDE DEF Bad
    <3> QED BY <3>1, <3>2
  <2>5. PICK f : Adds(f, k - 1)
    <3> HIDE DEF Adds
    <3> QED BY <2>4
  <2> DEFINE g == [i \in 0..k |-> IF i = k THEN f[k - 1] + c.shards[k].delta ELSE f[i]]
  <2>6. g \in [0..k -> Nat] /\ g[0] = 0
    BY <1>1, <2>4, <2>5
  <2>7. ASSUME NEW i \in 1..k PROVE g[i] = g[i - 1] + c.shards[i].delta
    BY <1>1, <2>4, <2>5
  <2>8. Adds(g, k)
    BY <2>6, <2>7
  <2> QED
    BY <2>2, <2>8
<1>3. PICK f : Adds(f, n)
  <2>1. n \in 0..n
    BY <1>1
  <2> HIDE DEF Adds
  <2> QED BY <1>2, <2>1
<1>4. Eq(f)
  <2> DEFINE h == [i \in 0..n |-> IF i = 0 THEN 0 ELSE f[i - 1] + c.shards[i].delta]
  <2>1. DOMAIN h = 0..n /\ \A i \in 0..n : h[i] = f[i]
    BY <1>1, <1>3
  <2> HIDE DEF h
  <2>2. f = h
    BY <1>3, <2>1 DEF h
  <2> QED
    BY <2>2 DEF h
<1>5. SumDeltas(c) = CHOOSE g : Eq(g)
  BY DEF SumDeltas, n
<1>6. Eq(SumDeltas(c))
  BY <1>4, <1>5
<1> DEFINE S == SumDeltas(c)
<1>7. DOMAIN S = 0..n /\ S[0] = 0 /\ \A i \in 1..n : S[i] = S[i - 1] + c.shards[i].delta
  BY <1>1, <1>6
<1> HIDE DEF S
<1>8. ASSUME NEW m \in 0..n, S[m] \notin Nat
      PROVE  FALSE
  <2> DEFINE Bad == {k \in 0..n : S[k] \notin Nat}
  <2>1. Bad \in SUBSET Nat /\ Bad # {}
    BY <1>1, <1>8
  <2>2. PICK k \in Bad : \A x \in Bad : k <= x
    <3> HIDE DEF Bad
    <3> QED BY <2>1, NatMin
  <2>3. k # 0
    BY <1>7, <2>2
  <2>4. k - 1 \in 0..n /\ k - 1 \notin Bad /\ k \in 1..n
    BY <1>1, <2>2, <2>3
  <2>5. S[k - 1] \in Nat /\ c.shards[k].delta \in Nat /\ S[k] = S[k - 1] + c.shards[k].delta
    BY <1>1, <1>7, <2>4
  <2>6. S[k] \in Nat
    BY <2>5
  <2> QED
    BY <2>2, <2>6
<1>9. S \in [0..n -> Nat]
  <2>1. S = [i \in 0..n |-> S[i]]
    BY <1>6 DEF S
  <2> QED
    BY <1>7, <1>8, <2>1
<1> QED
  BY <1>7, <1>9 DEF S, n

\* The sums grow with each shard of the cut.
LEMMA SumsGrow ==
    ASSUME NEW c \in CutShapes, NEW a \in 0..Len(c.shards), NEW b \in 0..Len(c.shards)
    PROVE  /\ a <= b => SumDeltas(c)[a] <= SumDeltas(c)[b]
           /\ a < b  => SumDeltas(c)[a] < SumDeltas(c)[b]
<1> DEFINE n == Len(c.shards)
           S == SumDeltas(c)
           Bad == {j \in 0..n : a < j /\ ~(S[a] < S[j])}
<1>1. /\ n \in Nat /\ S \in [0..n -> Nat]
      /\ \A i \in 1..n : S[i] = S[i - 1] + c.shards[i].delta
      /\ \A i \in 1..n : c.shards[i].delta \in Nat /\ c.shards[i].delta > 0
  BY CutShapeFacts, SumDeltasFacts
<1> HIDE DEF n, S
<1>2. Bad = {}
  <2> SUFFICES ASSUME Bad # {} PROVE FALSE
    OBVIOUS
  <2>1. Bad \in SUBSET Nat
    BY <1>1
  <2>2. PICK j \in Bad : \A x \in Bad : j <= x
    <3> HIDE DEF Bad
    <3> QED BY <2>1, NatMin
  <2>3. j \in 1..n /\ j - 1 \in 0..n /\ a <= j - 1 /\ ~(j <= j - 1) /\ a \in 0..n
    BY <1>1, <2>2 DEF n
  <2>4. j - 1 \notin Bad
    <3> HIDE DEF Bad
    <3> QED BY <2>2, <2>3
  <2>a. S[j - 1] \in Nat /\ S[j] \in Nat /\ S[a] \in Nat /\ j - 1 \in Int /\ a \in Int
    BY <1>1, <2>3
  <2>5. S[a] <= S[j - 1]
    <3>1. CASE a = j - 1
      BY <3>1, <2>a
    <3>2. CASE a < j - 1
      BY <3>2, <2>3, <2>4, <2>a
    <3> QED
      BY <3>1, <3>2, <2>3, <2>a
  <2>6. S[j - 1] < S[j]
    <3>1. S[j] = S[j - 1] + c.shards[j].delta /\ c.shards[j].delta \in Nat /\ c.shards[j].delta > 0
      BY <1>1, <2>3
    <3> QED
      BY <3>1, <2>a, SMTT(60)
  <2>7. S[a] < S[j]
    BY <2>5, <2>6, <2>a
  <2> QED
    BY <2>2, <2>7
<1>3. a < b => S[a] < S[b]
  BY <1>2 DEF n
<1>4. a \in Nat /\ b \in Nat /\ S[a] \in Nat /\ S[b] \in Nat
  BY <1>1, SMTT(60) DEF n
<1>5. a <= b => S[a] <= S[b]
  BY <1>3, <1>4
<1> QED
  BY <1>3, <1>5 DEF S

\* Every offset in a cut belongs to one of its shards.
LEMMA OffsetHasShard ==
    ASSUME NEW c \in CutShapes, NEW s \in Nat, s < SumDeltas(c)[Len(c.shards)]
    PROVE  \E i \in 1..Len(c.shards) : SumDeltas(c)[i - 1] <= s /\ s < SumDeltas(c)[i]
<1> DEFINE n == Len(c.shards)
           S == SumDeltas(c)
           Above == {j \in 0..n : s < S[j]}
<1>1. n \in Nat /\ S \in [0..n -> Nat] /\ S[0] = 0 /\ s < S[n]
  BY CutShapeFacts, SumDeltasFacts
<1> HIDE DEF n, S
<1>2. Above \in SUBSET Nat /\ Above # {}
  BY <1>1
<1>3. PICK i \in Above : \A x \in Above : i <= x
  <2> HIDE DEF Above
  <2> QED BY <1>2, NatMin
<1>4. i # 0
  BY <1>1, <1>3
<1>5. i \in 1..n /\ i - 1 \in 0..n /\ ~(i <= i - 1)
  BY <1>1, <1>3, <1>4
<1>6. i - 1 \notin Above
  <2> HIDE DEF Above
  <2> QED BY <1>3, <1>5
<1>7. S[i - 1] \in Nat /\ ~(s < S[i - 1]) /\ s < S[i]
  BY <1>1, <1>3, <1>5, <1>6
<1>8. S[i - 1] <= s
  BY <1>7
<1> QED
  BY <1>5, <1>7, <1>8 DEF n, S

\* An entry of a cut, by the index of its shard and its offset there.
LEMMA InCut ==
    ASSUME NEW c \in CutShapes, NEW e
    PROVE  e \in CutEntries(c) <=>
             \E i \in 1..Len(c.shards) : \E k \in 0..(c.shards[i].delta - 1) :
               e = Entry(c.start + SumDeltas(c)[i - 1] + k,
                         [shard |-> c.shards[i].shard, id |-> c.shards[i].start + k])
<1>1. DOMAIN c.shards = 1..Len(c.shards)
  BY CutShapeFacts
<1> QED
  BY <1>1 DEF CutEntries

\* Where an entry of a cut lies.
LEMMA CutPlace ==
    ASSUME NEW c \in CutShapes, NEW e \in CutEntries(c)
    PROVE  \E i \in 1..Len(c.shards) :
             /\ e.localid.shard = c.shards[i].shard
             /\ e.localid.id \in Nat /\ e.seqnum \in Nat
             /\ e = Entry(e.seqnum, [shard |-> e.localid.shard, id |-> e.localid.id])
             /\ c.shards[i].start <= e.localid.id
             /\ e.localid.id < c.shards[i].start + c.shards[i].delta
             /\ e.seqnum - c.start - SumDeltas(c)[i - 1] = e.localid.id - c.shards[i].start
             /\ c.start + SumDeltas(c)[i - 1] <= e.seqnum
             /\ e.seqnum < c.start + SumDeltas(c)[i]
<1>1. PICK i \in 1..Len(c.shards) : \E k \in 0..(c.shards[i].delta - 1) :
               e = Entry(c.start + SumDeltas(c)[i - 1] + k,
                         [shard |-> c.shards[i].shard, id |-> c.shards[i].start + k])
  BY InCut
<1>2. PICK k \in 0..(c.shards[i].delta - 1) :
               e = Entry(c.start + SumDeltas(c)[i - 1] + k,
                         [shard |-> c.shards[i].shard, id |-> c.shards[i].start + k])
  BY <1>1
<1>3. /\ c.start \in Nat /\ c.shards[i].start \in Nat /\ c.shards[i].delta \in Nat
      /\ SumDeltas(c)[i - 1] \in Nat
      /\ SumDeltas(c)[i] = SumDeltas(c)[i - 1] + c.shards[i].delta
  <2>1. /\ c.start \in Nat /\ Len(c.shards) \in Nat
        /\ c.shards[i].start \in Nat /\ c.shards[i].delta \in Nat
    BY CutShapeFacts
  <2>2. i - 1 \in 0..Len(c.shards)
    BY <2>1
  <2>3. SumDeltas(c) \in [0..Len(c.shards) -> Nat]
    BY SumDeltasFacts
  <2>4. SumDeltas(c)[i - 1] \in Nat
    BY <2>2, <2>3
  <2>5. SumDeltas(c)[i] = SumDeltas(c)[i - 1] + c.shards[i].delta
    BY SumDeltasFacts
  <2> QED
    BY <2>1, <2>4, <2>5
<1>4. /\ e.seqnum = c.start + SumDeltas(c)[i - 1] + k
      /\ e.localid.shard = c.shards[i].shard
      /\ e.localid.id = c.shards[i].start + k
      /\ e = Entry(e.seqnum, [shard |-> e.localid.shard, id |-> e.localid.id])
  BY <1>2 DEF Entry
<1>5. k \in Nat /\ k < c.shards[i].delta
  BY <1>2, <1>3
<1>6. /\ e.localid.id \in Nat /\ e.seqnum \in Nat
      /\ c.shards[i].start <= e.localid.id
      /\ e.localid.id < c.shards[i].start + c.shards[i].delta
      /\ e.seqnum - c.start - SumDeltas(c)[i - 1] = e.localid.id - c.shards[i].start
      /\ c.start + SumDeltas(c)[i - 1] <= e.seqnum
      /\ e.seqnum < c.start + SumDeltas(c)[i]
  <2> DEFINE x == c.start
             y == SumDeltas(c)[i - 1]
             z == SumDeltas(c)[i]
             u == c.shards[i].start
             v == c.shards[i].delta
  <2>1. x \in Nat /\ y \in Nat /\ u \in Nat /\ v \in Nat /\ k \in Nat /\ k < v /\ z = y + v
    BY <1>3, <1>5
  <2>2. e.seqnum = x + y + k /\ e.localid.id = u + k
    BY <1>4
  <2> HIDE DEF x, y, z, u, v
  <2>3. /\ e.localid.id \in Nat /\ e.seqnum \in Nat
        /\ u <= e.localid.id /\ e.localid.id < u + v
        /\ e.seqnum - x - y = e.localid.id - u
        /\ x + y <= e.seqnum /\ e.seqnum < x + z
    BY <2>1, <2>2, SMTT(60)
  <2> QED
    BY <2>3 DEF x, y, z, u, v
<1> QED
  BY <1>4, <1>6

\* A cut gives its seqnums to its entries one to one, and the entries of a
\* shard get theirs in the order of their localids.
LEMMA CutSeqnums ==
    ASSUME NEW c \in CutShapes
    PROVE  /\ CutEnd(c) \in Nat /\ c.start < CutEnd(c)
           /\ \A e \in CutEntries(c) :
                e.seqnum \in Nat /\ c.start <= e.seqnum /\ e.seqnum < CutEnd(c)
           /\ \A s \in c.start..(CutEnd(c) - 1) : \E e \in CutEntries(c) : e.seqnum = s
           /\ \A e, f \in CutEntries(c) :
                /\ e.seqnum = f.seqnum => e = f
                /\ e.localid.shard = f.localid.shard =>
                     (e.localid.id < f.localid.id <=> e.seqnum < f.seqnum)
<1> DEFINE n == Len(c.shards)
           S == SumDeltas(c)
<1>1. /\ n \in Nat /\ n > 0 /\ S \in [0..n -> Nat] /\ S[0] = 0 /\ c.start \in Nat
      /\ \A i \in 1..n : S[i] = S[i - 1] + c.shards[i].delta
      /\ \A i \in 1..n : c.shards[i].delta \in Nat /\ c.shards[i].start \in Nat
      /\ \A i, j \in 1..n : c.shards[i].shard = c.shards[j].shard => i = j
  BY CutShapeFacts, SumDeltasFacts
<1>2. \A a, b \in 0..n : (a <= b => S[a] <= S[b]) /\ (a < b => S[a] < S[b])
  BY SumsGrow
<1>3. CutEnd(c) = c.start + S[n]
  BY DEF CutEnd
<1>4. ASSUME NEW e \in CutEntries(c)
      PROVE  \E i \in 1..n :
             /\ e.localid.shard = c.shards[i].shard
             /\ e.localid.id \in Nat /\ e.seqnum \in Nat
             /\ e = Entry(e.seqnum, [shard |-> e.localid.shard, id |-> e.localid.id])
             /\ e.seqnum - c.start - S[i - 1] = e.localid.id - c.shards[i].start
             /\ c.start + S[i - 1] <= e.seqnum
             /\ e.seqnum < c.start + S[i]
  BY CutPlace
<1>5. ASSUME NEW s \in c.start..(CutEnd(c) - 1)
      PROVE  \E e \in CutEntries(c) : e.seqnum = s
  <2>1. s - c.start \in Nat /\ s - c.start < S[n] /\ s \in Int
    <3>1. S[n] \in Nat
      BY <1>1
    <3> HIDE DEF S, n
    <3> QED BY <3>1, <1>1, <1>3
  <2>2. PICK i \in 1..n : S[i - 1] <= s - c.start /\ s - c.start < S[i]
    BY <2>1, OffsetHasShard
  <2> DEFINE k == s - c.start - S[i - 1]
             e == Entry(c.start + S[i - 1] + k,
                        [shard |-> c.shards[i].shard, id |-> c.shards[i].start + k])
  <2>3. S[i - 1] \in Nat /\ S[i] = S[i - 1] + c.shards[i].delta /\ c.shards[i].delta \in Nat
    BY <1>1, SMTT(60)
  <2>4. k \in 0..(c.shards[i].delta - 1) /\ c.start + S[i - 1] + k = s
    <3> DEFINE x == c.start
               y == S[i - 1]
               z == S[i]
               v == c.shards[i].delta
    <3>1. x \in Nat /\ y \in Nat /\ v \in Nat /\ z = y + v /\ y <= s - x /\ s - x < z /\ s \in Int
      BY <1>1, <2>1, <2>2, <2>3
    <3> HIDE DEF x, y, z, v
    <3>2. s - x - y \in 0..(v - 1) /\ x + y + (s - x - y) = s
      BY <3>1
    <3> QED
      BY <3>2 DEF x, y, v
  <2> HIDE DEF k
  <2>5. e \in CutEntries(c)
    BY <2>4, InCut
  <2>6. e.seqnum = s
    BY <2>4 DEF Entry
  <2> QED
    BY <2>5, <2>6
<1> HIDE DEF n, S
<1>6. CutEnd(c) \in Nat /\ c.start < CutEnd(c)
  <2>1. 0 \in 0..n /\ n \in 0..n /\ 0 < n
    BY <1>1
  <2>2. S[0] < S[n] /\ S[n] \in Nat
    BY <1>1, <1>2, <2>1
  <2> QED
    BY <1>1, <1>3, <2>2
<1>7. ASSUME NEW e \in CutEntries(c)
      PROVE  e.seqnum \in Nat /\ c.start <= e.seqnum /\ e.seqnum < CutEnd(c)
  <2>1. PICK i \in 1..n :
          e.seqnum \in Nat /\ c.start + S[i - 1] <= e.seqnum /\ e.seqnum < c.start + S[i]
    BY <1>4
  <2>2. i \in 0..n /\ n \in 0..n /\ i - 1 \in 0..n /\ i <= n
    BY <1>1
  <2>3. S[i - 1] \in Nat /\ S[i] \in Nat /\ S[n] \in Nat /\ S[i] <= S[n]
    BY <1>1, <1>2, <2>2
  <2> QED
    BY <1>1, <1>3, <2>1, <2>3
<1>8. ASSUME NEW e \in CutEntries(c), NEW f \in CutEntries(c)
      PROVE  /\ e.seqnum = f.seqnum => e = f
             /\ e.localid.shard = f.localid.shard =>
                  (e.localid.id < f.localid.id <=> e.seqnum < f.seqnum)
  <2>1. PICK i \in 1..n :
             /\ e.localid.shard = c.shards[i].shard
             /\ e.localid.id \in Nat /\ e.seqnum \in Nat
             /\ e = Entry(e.seqnum, [shard |-> e.localid.shard, id |-> e.localid.id])
             /\ e.seqnum - c.start - S[i - 1] = e.localid.id - c.shards[i].start
             /\ c.start + S[i - 1] <= e.seqnum
             /\ e.seqnum < c.start + S[i]
    BY <1>4
  <2>2. PICK j \in 1..n :
             /\ f.localid.shard = c.shards[j].shard
             /\ f.localid.id \in Nat /\ f.seqnum \in Nat
             /\ f = Entry(f.seqnum, [shard |-> f.localid.shard, id |-> f.localid.id])
             /\ f.seqnum - c.start - S[j - 1] = f.localid.id - c.shards[j].start
             /\ c.start + S[j - 1] <= f.seqnum
             /\ f.seqnum < c.start + S[j]
    BY <1>4
  <2>3. i \in 0..n /\ j \in 0..n /\ i - 1 \in 0..n /\ j - 1 \in 0..n /\ i \in Int /\ j \in Int
    BY <1>1
  <2>4. S[i - 1] \in Nat /\ S[j - 1] \in Nat /\ S[i] \in Nat /\ S[j] \in Nat
    BY <1>1, <2>3
  <2>5. e.localid.shard = f.localid.shard => i = j
    BY <1>1, <2>1, <2>2
  <2> DEFINE x == c.start
             a == S[i - 1]
             aa == S[i]
             b == S[j - 1]
             bb == S[j]
             u == c.shards[i].start
             v == c.shards[j].start
  <2>a. /\ x \in Nat /\ a \in Nat /\ aa \in Nat /\ b \in Nat /\ bb \in Nat
        /\ u \in Nat /\ v \in Nat
    BY <1>1, <2>4
  <2>b. /\ e.localid.id \in Nat /\ e.seqnum \in Nat /\ f.localid.id \in Nat /\ f.seqnum \in Nat
        /\ e.seqnum - x - a = e.localid.id - u /\ x + a <= e.seqnum /\ e.seqnum < x + aa
        /\ f.seqnum - x - b = f.localid.id - v /\ x + b <= f.seqnum /\ f.seqnum < x + bb
    BY <2>1, <2>2
  <2>c. i = j => a = b /\ u = v
    OBVIOUS
  <2>6. i = j => (e.localid.id < f.localid.id <=> e.seqnum < f.seqnum)
    <3> HIDE DEF x, a, aa, b, bb, u, v
    <3> QED BY <2>a, <2>b, <2>c
  <2>7. e.seqnum = f.seqnum => i = j
    <3>1. i < j => S[i] <= S[j - 1]
      BY <1>2, <2>3
    <3>2. j < i => S[j] <= S[i - 1]
      BY <1>2, <2>3
    <3>a. (i < j => aa <= b) /\ (j < i => bb <= a)
      BY <3>1, <3>2
    <3>3. (i < j => e.seqnum < f.seqnum) /\ (j < i => f.seqnum < e.seqnum)
      <4> HIDE DEF x, a, aa, b, bb, u, v
      <4> QED BY <2>a, <2>b, <3>a
    <3> QED
      BY <2>b, <2>3, <3>3
  <2>8. e.seqnum = f.seqnum => e.localid.id = f.localid.id /\ e.localid.shard = f.localid.shard
    <3>1. e.seqnum = f.seqnum => e.localid.id = f.localid.id
      <4> HIDE DEF x, a, aa, b, bb, u, v
      <4> QED BY <2>a, <2>b, <2>c, <2>7
    <3>2. e.seqnum = f.seqnum => e.localid.shard = f.localid.shard
      BY <2>1, <2>2, <2>7
    <3> QED
      BY <3>1, <3>2
  <2>9. e.seqnum = f.seqnum => e = f
    BY <2>1, <2>2, <2>8
  <2> QED
    BY <2>5, <2>6, <2>9
<1> QED
  BY <1>5, <1>6, <1>7, <1>8

\* The localids of a cut: an interval for each of its shards.
LEMMA CutLocalIds ==
    ASSUME NEW c \in CutShapes
    PROVE  /\ \A e \in CutEntries(c) : \E i \in 1..Len(c.shards) :
                /\ e.localid.shard = c.shards[i].shard
                /\ e.localid.id \in Nat /\ e.seqnum \in Nat
                /\ e = Entry(e.seqnum, [shard |-> e.localid.shard, id |-> e.localid.id])
                /\ c.shards[i].start <= e.localid.id
                /\ e.localid.id < c.shards[i].start + c.shards[i].delta
           /\ \A i \in 1..Len(c.shards) :
                \A m \in c.shards[i].start..(c.shards[i].start + c.shards[i].delta - 1) :
                  Has(CutEntries(c), [shard |-> c.shards[i].shard, id |-> m])
<1>1. ASSUME NEW i \in 1..Len(c.shards),
             NEW m \in c.shards[i].start..(c.shards[i].start + c.shards[i].delta - 1)
      PROVE  Has(CutEntries(c), [shard |-> c.shards[i].shard, id |-> m])
  <2> DEFINE k == m - c.shards[i].start
             e == Entry(c.start + SumDeltas(c)[i - 1] + k,
                        [shard |-> c.shards[i].shard, id |-> c.shards[i].start + k])
  <2>1. k \in 0..(c.shards[i].delta - 1) /\ c.shards[i].start + k = m
    BY CutShapeFacts
  <2> HIDE DEF k
  <2>2. e \in CutEntries(c)
    BY <2>1, InCut
  <2>3. e.localid = [shard |-> c.shards[i].shard, id |-> m]
    BY <2>1 DEF Entry
  <2> QED
    BY <2>2, <2>3 DEF Has
<1> QED
  BY <1>1, CutPlace

\* A localid is a shard and a counter below the bound.
LEMMA LocalIdFacts ==
    /\ LocalIds = [shard : Shards, id : 0..(MaxAppends - 1)]
    /\ MaxAppends \in Nat
<1>1. MaxAppends \in Nat
  BY SharedLogAssumption
<1>2. \A l \in LocalIds : l \in [shard : Shards, id : 0..(MaxAppends - 1)]
  BY DEF LocalIds
<1>3. \A l \in [shard : Shards, id : 0..(MaxAppends - 1)] : l \in LocalIds
  BY DEF LocalIds
<1> QED
  BY <1>1, <1>2, <1>3

\* The bound on appends makes the set of localids finite.
LEMMA LocalIdsFinite == IsFiniteSet(LocalIds)
<1> DEFINE P == Shards \X (0..(MaxAppends - 1))
           f == [p \in P |-> [shard |-> p[1], id |-> p[2]]]
<1>1. IsFiniteSet(P)
  <2>1. IsFiniteSet(0..(MaxAppends - 1))
    BY LocalIdFacts, FS_Interval
  <2> QED
    BY <2>1, SharedLogAssumption, FS_Product
<1>2. f \in [P -> LocalIds]
  BY LocalIdFacts
<1>3. ASSUME NEW l \in LocalIds PROVE \E p \in P : f[p] = l
  <2>1. l = [shard |-> l.shard, id |-> l.id] /\ <<l.shard, l.id>> \in P
    BY LocalIdFacts
  <2>2. f[<<l.shard, l.id>>] = [shard |-> l.shard, id |-> l.id]
    BY <2>1
  <2> QED
    BY <2>1, <2>2
<1> HIDE DEF P, f
<1>4. f \in Surjection(P, LocalIds)
  BY <1>2, <1>3 DEF Surjection
<1> QED
  BY <1>1, <1>4, FS_Surjection

\* An engine that may append has a localid left.
LEMMA IssuedBound ==
    ASSUME TypeOK, NEW sh \in Shards
    PROVE  /\ IsFiniteSet(Issued) /\ Cardinality(Issued) \in Nat
           /\ nextId[sh] <= Cardinality(Issued)
<1> DEFINE n == nextId[sh]
           f == [i \in 0..(n - 1) |-> [shard |-> sh, id |-> i]]
<1>1. IsFiniteSet(Issued) /\ Cardinality(Issued) \in Nat
  <2>1. Issued \in SUBSET LocalIds
    BY DEF Issued
  <2> QED
    BY <2>1, LocalIdsFinite, FS_Subset, FS_CardinalityType
<1>2. n \in Nat /\ n <= MaxAppends /\ MaxAppends \in Nat
  BY LocalIdFacts DEF TypeOK
<1>3. \A i \in 0..(n - 1) : [shard |-> sh, id |-> i] \in Issued
  <2> SUFFICES ASSUME NEW i \in 0..(n - 1)
               PROVE  [shard |-> sh, id |-> i] \in LocalIds /\ i < n
    BY DEF Issued
  <2> QED
    BY <1>2, LocalIdFacts
<1>4. f \in Injection(0..(n - 1), Issued)
  <2>1. f \in [0..(n - 1) -> Issued]
    BY <1>3
  <2>2. ASSUME NEW i \in 0..(n - 1), NEW j \in 0..(n - 1), f[i] = f[j] PROVE i = j
    <3>1. f[i].id = i /\ f[j].id = j
      OBVIOUS
    <3> QED
      BY <2>2, <3>1
  <2> HIDE DEF f
  <2> QED
    BY <2>1, <2>2 DEF Injection, IsInjective
<1>5. Cardinality(0..(n - 1)) = n
  <2>1. 0 \in Int /\ n - 1 \in Int
    BY <1>2
  <2>2. Cardinality(0..(n - 1)) = IF 0 > n - 1 THEN 0 ELSE (n - 1) - 0 + 1
    BY <2>1, FS_Interval
  <2> QED
    BY <1>2, <2>2
<1> HIDE DEF f, n
<1>6. n <= Cardinality(Issued)
  BY <1>1, <1>4, <1>5, FS_Injection
<1> QED
  BY <1>1, <1>6 DEF n

\* The position all storage nodes of a shard have reached.
LEMMA ReplicatedFacts ==
    ASSUME NEW prog, NEW sh \in Shards,
           \A st \in StorageNodes[sh] : prog[sh][st] \in 0..MaxAppends
    PROVE  /\ GetShardReplicatedPosition(prog, sh) \in 0..MaxAppends
           /\ \E st \in StorageNodes[sh] : GetShardReplicatedPosition(prog, sh) = prog[sh][st]
           /\ \A st \in StorageNodes[sh] : GetShardReplicatedPosition(prog, sh) <= prog[sh][st]
<1> DEFINE P == {prog[sh][st] : st \in StorageNodes[sh]}
<1>1. StorageNodes[sh] # {}
  BY SharedLogAssumption
<1>2. P \in SUBSET Nat /\ P # {}
  BY <1>1, LocalIdFacts
<1>3. PICK p \in P : \A x \in P : p <= x
  <2> HIDE DEF P
  <2> QED BY <1>2, NatMin
<1>4. \A st \in StorageNodes[sh] : p <= prog[sh][st]
  BY <1>3
<1>5. /\ GetShardReplicatedPosition(prog, sh) \in P
      /\ \A st \in StorageNodes[sh] : GetShardReplicatedPosition(prog, sh) <= prog[sh][st]
  BY <1>3, <1>4 DEF GetShardReplicatedPosition
<1> QED
  BY <1>5

\* A storage node's progress moves to the first localid it does not hold.
LEMMA AdvanceFacts ==
    ASSUME NEW sh \in Shards, NEW p \in 0..MaxAppends, NEW pend \in SUBSET LocalIds
    PROVE  LET q == AdvanceShardProgress(sh, p, pend)
           IN  /\ q \in p..MaxAppends
               /\ \A i \in p..(q - 1) : [shard |-> sh, id |-> i] \in pend
<1> DEFINE Missing == {q \in p..MaxAppends : [shard |-> sh, id |-> q] \notin pend}
<1>1. MaxAppends \in Nat /\ MaxAppends \notin 0..(MaxAppends - 1)
  BY LocalIdFacts
<1>2. [shard |-> sh, id |-> MaxAppends] \notin pend
  <2>1. [shard |-> sh, id |-> MaxAppends].id = MaxAppends
    OBVIOUS
  <2> QED
    BY <1>1, <2>1, LocalIdFacts
<1>3. Missing \in SUBSET Nat /\ Missing # {}
  BY <1>1, <1>2
<1>4. PICK q \in Missing : \A x \in Missing : q <= x
  <2> HIDE DEF Missing
  <2> QED BY <1>3, NatMin
<1>5. q \in p..MaxAppends /\ [shard |-> sh, id |-> q] \notin pend
  BY <1>4
<1>6. ASSUME NEW i \in p..(q - 1) PROVE [shard |-> sh, id |-> i] \in pend
  <2>1. i \in p..MaxAppends /\ ~(q <= i)
    BY <1>1, <1>5
  <2>2. i \notin Missing
    <3> HIDE DEF Missing
    <3> QED BY <1>4, <2>1
  <2> QED
    BY <2>1, <2>2
<1> QED
  BY <1>5, <1>6 DEF AdvanceShardProgress
-----------------------------------------------------------------------------
(* The log that the cuts make. *)

\* An entry lies between two positions when one of the cuts there has it.
LEMMA InEntries ==
    ASSUME NEW a, NEW b, NEW e
    PROVE  e \in EntriesOf(a, b) <=> \E i \in (a + 1)..b : e \in CutEntries(cuts[i])
  BY DEF EntriesOf

\* Entries of a prefix of the cuts are those below its last seqnum.
LEMMA PrefixFacts ==
    ASSUME cuts \in Seq(CutShapes), LogInv
    PROVE  /\ Len(cuts) \in Nat
           /\ \A k \in 0..Len(cuts) : SeqnumEnd(k) \in Nat
           /\ \A e \in AllEntries : e.seqnum \in Nat
           /\ \A a, b \in 0..Len(cuts) : \A e :
                e \in EntriesOf(a, b) <=>
                  e \in AllEntries /\ SeqnumEnd(a) <= e.seqnum /\ e.seqnum < SeqnumEnd(b)
<1>1. Len(cuts) \in Nat /\ \A k \in 1..Len(cuts) : cuts[k] \in CutShapes
  BY LenProperties, ElementOfSeq
<1>2. \A k \in 0..Len(cuts) : SeqnumEnd(k) \in Nat
  BY <1>1, CutSeqnums DEF SeqnumEnd
<1>3. ASSUME NEW k \in 1..Len(cuts), NEW e \in CutEntries(cuts[k])
      PROVE  /\ e \in AllEntries /\ e.seqnum \in Nat
             /\ SeqnumEnd(k - 1) <= e.seqnum /\ e.seqnum < SeqnumEnd(k)
  <2>1. e.seqnum \in Nat /\ cuts[k].start <= e.seqnum /\ e.seqnum < CutEnd(cuts[k])
    BY <1>1, CutSeqnums
  <2>2. cuts[k].start = SeqnumEnd(k - 1) /\ k # 0
    BY <1>1 DEF LogInv
  <2>3. e \in AllEntries
    BY <1>1, InEntries DEF AllEntries
  <2> QED
    BY <2>1, <2>2, <2>3 DEF SeqnumEnd
<1>4. \A e \in AllEntries : \E k \in 1..Len(cuts) : e \in CutEntries(cuts[k])
  BY <1>1, InEntries DEF AllEntries
<1>5. \A j, k \in 0..Len(cuts) : j <= k => SeqnumEnd(j) <= SeqnumEnd(k)
  BY DEF LogInv
<1>6. ASSUME NEW a \in 0..Len(cuts), NEW b \in 0..Len(cuts), NEW e
      PROVE  e \in EntriesOf(a, b) <=>
               e \in AllEntries /\ SeqnumEnd(a) <= e.seqnum /\ e.seqnum < SeqnumEnd(b)
  <2>1. ASSUME e \in EntriesOf(a, b)
        PROVE  e \in AllEntries /\ SeqnumEnd(a) <= e.seqnum /\ e.seqnum < SeqnumEnd(b)
    <3>1. PICK k \in (a + 1)..b : e \in CutEntries(cuts[k])
      BY <2>1, InEntries
    <3>2. k \in 1..Len(cuts) /\ k - 1 \in 0..Len(cuts) /\ k \in 0..Len(cuts) /\ a <= k - 1 /\ k <= b
      BY <1>1
    <3>3. /\ e \in AllEntries /\ e.seqnum \in Nat
          /\ SeqnumEnd(k - 1) <= e.seqnum /\ e.seqnum < SeqnumEnd(k)
      BY <1>3, <3>1, <3>2
    <3>4. /\ SeqnumEnd(a) <= SeqnumEnd(k - 1) /\ SeqnumEnd(k) <= SeqnumEnd(b)
          /\ SeqnumEnd(a) \in Nat /\ SeqnumEnd(k - 1) \in Nat /\ SeqnumEnd(k) \in Nat /\ SeqnumEnd(b) \in Nat
      BY <1>2, <1>5, <3>2
    <3> QED
      BY <3>3, <3>4
  <2>2. ASSUME e \in AllEntries, SeqnumEnd(a) <= e.seqnum, e.seqnum < SeqnumEnd(b)
        PROVE  e \in EntriesOf(a, b)
    <3>1. PICK k \in 1..Len(cuts) : e \in CutEntries(cuts[k])
      BY <1>4, <2>2
    <3>2. k - 1 \in 0..Len(cuts) /\ k \in 0..Len(cuts) /\ k \in Int /\ a \in Int /\ b \in Int
      BY <1>1
    <3>3. /\ e.seqnum \in Nat /\ SeqnumEnd(k - 1) <= e.seqnum /\ e.seqnum < SeqnumEnd(k)
          /\ SeqnumEnd(a) \in Nat /\ SeqnumEnd(k - 1) \in Nat /\ SeqnumEnd(k) \in Nat /\ SeqnumEnd(b) \in Nat
      BY <1>2, <1>3, <3>1, <3>2
    <3>4. ~(SeqnumEnd(k) <= SeqnumEnd(a)) /\ ~(SeqnumEnd(b) <= SeqnumEnd(k - 1))
      BY <2>2, <3>3
    <3>5. ~(k <= a) /\ ~(b <= k - 1)
      BY <1>5, <3>2, <3>4
    <3>6. k \in (a + 1)..b
      BY <3>2, <3>5
    <3> QED
      BY <3>1, <3>6, InEntries
  <2> QED
    BY <2>1, <2>2
<1>7. \A e \in AllEntries : e.seqnum \in Nat
  BY <1>3, <1>4
<1> QED
  BY <1>1, <1>2, <1>6, <1>7

\* Applying cuts from a to b adds entries with localids that are not below a.
LEMMA NewEntries ==
    ASSUME cuts \in Seq(CutShapes), LogInv, NEW a \in 0..Len(cuts), NEW b \in 0..Len(cuts), a <= b
    PROVE  /\ EntriesOf(0, b) = EntriesOf(0, a) \cup EntriesOf(a, b)
           /\ EntriesOf(0, b) \subseteq AllEntries
           /\ \A e \in EntriesOf(a, b) : ~Has(EntriesOf(0, a), e.localid)
<1>1. /\ Len(cuts) \in Nat
      /\ \A k \in 0..Len(cuts) : SeqnumEnd(k) \in Nat
      /\ \A e \in AllEntries : e.seqnum \in Nat
      /\ 0 \in 0..Len(cuts)
  BY PrefixFacts
<1>2. \A c, d \in 0..Len(cuts) : \A e :
        e \in EntriesOf(c, d) <=>
          e \in AllEntries /\ SeqnumEnd(c) <= e.seqnum /\ e.seqnum < SeqnumEnd(d)
  BY PrefixFacts
<1>3. SeqnumEnd(0) = 0 /\ SeqnumEnd(a) <= SeqnumEnd(b) /\ SeqnumEnd(a) \in Nat /\ SeqnumEnd(b) \in Nat
  BY <1>1 DEF SeqnumEnd, LogInv
<1>4. ASSUME NEW e PROVE e \in EntriesOf(0, b) <=> e \in EntriesOf(0, a) \/ e \in EntriesOf(a, b)
  BY <1>1, <1>2, <1>3
<1>5. \A e \in EntriesOf(0, b) : e \in AllEntries
  BY <1>1, <1>2
<1>6. ASSUME NEW e \in EntriesOf(a, b), NEW f \in EntriesOf(0, a), f.localid = e.localid PROVE FALSE
  <2>1. /\ e \in AllEntries /\ f \in AllEntries /\ SeqnumEnd(a) <= e.seqnum /\ f.seqnum < SeqnumEnd(a)
        /\ e.seqnum \in Nat /\ f.seqnum \in Nat
    BY <1>1, <1>2
  <2>2. f.seqnum < e.seqnum
    BY <1>3, <2>1
  <2>3. f.localid.id < e.localid.id /\ e.localid.id \in Int
    BY <1>6, <2>1, <2>2, LocalIdFacts DEF LogInv, Entries
  <2> QED
    BY <1>6, <2>3
<1> QED
  BY <1>4, <1>5, <1>6 DEF Has

\* A new cut adds its entries to the log and leaves the rest of it alone.
LEMMA CutsGrow ==
    ASSUME cuts \in Seq(CutShapes), NEW c \in CutShapes, cuts' = Append(cuts, c)
    PROVE  /\ cuts' \in Seq(CutShapes) /\ Len(cuts') = Len(cuts) + 1 /\ Len(cuts) \in Nat
           /\ cuts'[Len(cuts')] = c /\ \A k \in 1..Len(cuts) : cuts'[k] = cuts[k]
           /\ \A k \in 0..Len(cuts) : SeqnumEnd(k)' = SeqnumEnd(k)
           /\ SeqnumEnd(Len(cuts))' = CutEnd(c)
           /\ \A a, b \in 0..Len(cuts) : EntriesOf(a, b)' = EntriesOf(a, b)
           /\ AllEntries' = AllEntries \cup CutEntries(c)
<1>1. /\ cuts' \in Seq(CutShapes) /\ Len(cuts') = Len(cuts) + 1 /\ Len(cuts) \in Nat
      /\ cuts'[Len(cuts')] = c /\ \A k \in 1..Len(cuts) : cuts'[k] = cuts[k]
  BY AppendProperties, LenProperties
<1>2. \A k \in 0..Len(cuts) : SeqnumEnd(k)' = SeqnumEnd(k)
  BY <1>1 DEF SeqnumEnd
<1>3. SeqnumEnd(Len(cuts))' = CutEnd(c)
  <2>1. Len(cuts') # 0
    BY <1>1
  <2> QED
    BY <1>1, <2>1 DEF SeqnumEnd
<1>4. ASSUME NEW a \in 0..Len(cuts), NEW b \in 0..Len(cuts)
      PROVE  EntriesOf(a, b)' = EntriesOf(a, b)
  <2>1. \A i \in (a + 1)..b : cuts'[i] = cuts[i]
    BY <1>1
  <2> QED
    BY <2>1 DEF EntriesOf
<1>5. AllEntries' = AllEntries \cup CutEntries(c)
  <2>1. AllEntries' = UNION {CutEntries(cuts'[i]) : i \in (0 + 1)..Len(cuts')}
    BY DEF AllEntries, EntriesOf
  <2>2. AllEntries = UNION {CutEntries(cuts[i]) : i \in (0 + 1)..Len(cuts)}
    BY DEF AllEntries, EntriesOf
  <2>3. ASSUME NEW e \in AllEntries' PROVE e \in AllEntries \cup CutEntries(c)
    <3>1. PICK i \in (0 + 1)..Len(cuts') : e \in CutEntries(cuts'[i])
      BY <2>1
    <3>2. CASE i = Len(cuts')
      BY <1>1, <3>1, <3>2
    <3>3. CASE i # Len(cuts')
      <4>1. i \in (0 + 1)..Len(cuts) /\ cuts'[i] = cuts[i]
        BY <1>1, <3>3
      <4> QED
        BY <2>2, <3>1, <4>1
    <3> QED
      BY <3>2, <3>3
  <2>4. ASSUME NEW e \in AllEntries PROVE e \in AllEntries'
    <3>1. PICK i \in (0 + 1)..Len(cuts) : e \in CutEntries(cuts[i])
      BY <2>2
    <3>2. i \in (0 + 1)..Len(cuts') /\ cuts'[i] = cuts[i]
      BY <1>1
    <3> QED
      BY <2>1, <3>1, <3>2
  <2>5. CutEntries(c) \subseteq AllEntries'
    <3>1. Len(cuts') \in (0 + 1)..Len(cuts')
      BY <1>1
    <3> QED
      BY <1>1, <2>1, <3>1
  <2> QED
    BY <2>3, <2>4, <2>5
<1> QED
  BY <1>1, <1>2, <1>3, <1>4, <1>5

\* A cut from lastCut to lastCut' keeps the log in order and without gaps.
LEMMA LogGrows ==
    ASSUME cuts \in Seq(CutShapes), lastCut \in [Shards -> 0..MaxAppends], LogInv,
           NEW c \in CutShapes, c.start = SeqnumEnd(Len(cuts)), cuts' = Append(cuts, c),
           lastCut' \in [Shards -> 0..MaxAppends],
           \A i \in 1..Len(c.shards) :
             /\ c.shards[i].start = lastCut[c.shards[i].shard]
             /\ c.shards[i].start + c.shards[i].delta = lastCut'[c.shards[i].shard],
           \A sh \in Shards : lastCut'[sh] = lastCut[sh]
             \/ \E i \in 1..Len(c.shards) : c.shards[i].shard = sh
    PROVE  LogInv'
<1>0. PICK n : n = Len(cuts)
  OBVIOUS
<1> DEFINE New == CutEntries(c)
<1>1. /\ n \in Nat /\ Len(cuts') = n + 1
      /\ cuts'[n + 1] = c /\ \A k \in 1..n : cuts'[k] = cuts[k]
      /\ \A k \in 0..n : SeqnumEnd(k)' = SeqnumEnd(k)
      /\ SeqnumEnd(n + 1)' = CutEnd(c)
      /\ AllEntries' = AllEntries \cup New
  <2>1. /\ Len(cuts) \in Nat /\ Len(cuts') = Len(cuts) + 1
        /\ cuts'[Len(cuts')] = c /\ \A k \in 1..Len(cuts) : cuts'[k] = cuts[k]
        /\ \A k \in 0..Len(cuts) : SeqnumEnd(k)' = SeqnumEnd(k)
        /\ SeqnumEnd(Len(cuts))' = CutEnd(c)
        /\ AllEntries' = AllEntries \cup New
    BY CutsGrow
  <2>2. Len(cuts') = n + 1
    BY <1>0, <2>1
  <2>3. SeqnumEnd(n + 1)' = CutEnd(c)
    BY <2>1, <2>2 DEF SeqnumEnd
  <2> QED
    BY <1>0, <2>1, <2>2, <2>3
<1>2. /\ \A k \in 0..n : SeqnumEnd(k) \in Nat
      /\ \A e \in AllEntries : e.seqnum \in Nat /\ e.seqnum < SeqnumEnd(n)
  <2>1. 0 \in 0..n /\ n \in 0..n
    BY <1>1
  <2> QED
    BY <1>0, <2>1, PrefixFacts DEF AllEntries
<1>3. /\ CutEnd(c) \in Nat /\ c.start < CutEnd(c)
      /\ \A e \in New : e.seqnum \in Nat /\ c.start <= e.seqnum /\ e.seqnum < CutEnd(c)
      /\ \A s \in c.start..(CutEnd(c) - 1) : \E e \in New : e.seqnum = s
      /\ \A e, f \in New :
           /\ e.seqnum = f.seqnum => e = f
           /\ e.localid.shard = f.localid.shard =>
                (e.localid.id < f.localid.id <=> e.seqnum < f.seqnum)
  BY CutSeqnums
<1>4. c.start = SeqnumEnd(n) /\ n \in 0..n /\ SeqnumEnd(n) \in Nat
  BY <1>0, <1>1, <1>2
<1>5. /\ \A i \in 1..Len(c.shards) :
           /\ c.shards[i].shard \in Shards /\ c.shards[i].start \in Nat /\ c.shards[i].delta \in Nat
           /\ c.shards[i].delta > 0
      /\ \A sh \in Shards : lastCut[sh] \in Nat /\ lastCut'[sh] \in Nat /\ lastCut'[sh] <= MaxAppends
      /\ MaxAppends \in Nat
  BY CutShapeFacts, LocalIdFacts
<1>6. ASSUME NEW sh \in Shards PROVE lastCut[sh] <= lastCut'[sh]
  <2>1. CASE lastCut'[sh] = lastCut[sh]
    BY <1>5, <2>1
  <2>2. ASSUME NEW i \in 1..Len(c.shards), c.shards[i].shard = sh PROVE lastCut[sh] <= lastCut'[sh]
    <3>1. /\ c.shards[i].start = lastCut[sh] /\ c.shards[i].start + c.shards[i].delta = lastCut'[sh]
          /\ c.shards[i].delta \in Nat /\ lastCut[sh] \in Nat /\ lastCut'[sh] \in Nat
      BY <1>5, <2>2
    <3> QED
      BY <3>1
  <2> QED
    BY <2>1, <2>2
<1>7. ASSUME NEW e \in New
      PROVE  /\ e \in Entries /\ e.localid.shard \in Shards /\ e.localid.id \in Nat
             /\ lastCut[e.localid.shard] <= e.localid.id
             /\ e.localid.id < lastCut'[e.localid.shard]
  <2>1. PICK i \in 1..Len(c.shards) :
                /\ e.localid.shard = c.shards[i].shard
                /\ e.localid.id \in Nat /\ e.seqnum \in Nat
                /\ e = Entry(e.seqnum, [shard |-> e.localid.shard, id |-> e.localid.id])
                /\ c.shards[i].start <= e.localid.id
                /\ e.localid.id < c.shards[i].start + c.shards[i].delta
    BY CutLocalIds
  <2>2. /\ e.localid.shard \in Shards
        /\ lastCut[e.localid.shard] <= e.localid.id /\ e.localid.id < lastCut'[e.localid.shard]
    BY <1>5, <2>1
  <2>3. e.localid.id \in 0..(MaxAppends - 1)
    BY <1>5, <2>1, <2>2
  <2>4. [shard |-> e.localid.shard, id |-> e.localid.id] \in LocalIds
    BY <2>2, <2>3, LocalIdFacts
  <2>5. e \in Entries
    BY <2>1, <2>4 DEF Entry, Entries
  <2> QED
    BY <2>1, <2>2, <2>5
<1>8. ASSUME NEW e \in AllEntries
      PROVE  /\ e \in Entries /\ e.localid.shard \in Shards /\ e.localid.id \in Nat
             /\ e.localid.id < lastCut[e.localid.shard]
  BY LocalIdFacts DEF LogInv, Entries
<1> HIDE DEF New
<1>9. (\A k \in 1..Len(cuts) : cuts[k].start = SeqnumEnd(k - 1))'
  <2> SUFFICES ASSUME NEW k \in 1..(n + 1) PROVE cuts'[k].start = SeqnumEnd(k - 1)'
    BY <1>1
  <2>1. CASE k = n + 1
    <3>1. k - 1 = n /\ SeqnumEnd(n)' = SeqnumEnd(n)
      BY <1>1, <1>4, <2>1
    <3> QED
      BY <1>1, <1>4, <2>1, <3>1
  <2>2. CASE k # n + 1
    <3>1. k \in 1..n /\ k - 1 \in 0..n
      BY <1>1, <2>2
    <3> QED
      BY <1>0, <1>1, <3>1 DEF LogInv
  <2> QED
    BY <2>1, <2>2
<1>10. (\A j, k \in 0..Len(cuts) : j <= k => SeqnumEnd(j) <= SeqnumEnd(k))'
  <2> SUFFICES ASSUME NEW j \in 0..(n + 1), NEW k \in 0..(n + 1), j <= k
               PROVE  SeqnumEnd(j)' <= SeqnumEnd(k)'
    BY <1>1
  <2>1. CASE j = n + 1
    <3>1. k = n + 1
      BY <1>1, <2>1
    <3> QED
      BY <1>1, <1>3, <2>1, <3>1
  <2>2. CASE j # n + 1 /\ k = n + 1
    <3>1. j \in 0..n /\ n \in 0..n /\ j <= n
      BY <1>1, <2>2
    <3>2. SeqnumEnd(j)' = SeqnumEnd(j) /\ SeqnumEnd(j) <= SeqnumEnd(n) /\ SeqnumEnd(j) \in Nat
      BY <1>0, <1>1, <1>2, <3>1 DEF LogInv
    <3> QED
      BY <1>1, <1>3, <1>4, <2>2, <3>2
  <2>3. CASE k # n + 1
    <3>1. j \in 0..n /\ k \in 0..n
      BY <1>1, <2>3
    <3> QED
      BY <1>0, <1>1, <3>1 DEF LogInv
  <2> QED
    BY <2>1, <2>2, <2>3
<1>11. (\A s \in 0..(SeqnumEnd(Len(cuts)) - 1) : \E e \in AllEntries : e.seqnum = s)'
  <2> SUFFICES ASSUME NEW s \in 0..(CutEnd(c) - 1)
               PROVE  \E e \in AllEntries \cup New : e.seqnum = s
    BY <1>1
  <2>1. CASE s < c.start
    <3>1. s \in 0..(SeqnumEnd(n) - 1)
      BY <1>3, <1>4, <2>1
    <3> QED
      BY <1>0, <3>1 DEF LogInv
  <2>2. CASE ~(s < c.start)
    BY <1>3, <1>4, <2>2
  <2> QED
    BY <2>1, <2>2
<1>12. (\A e \in AllEntries : e \in Entries /\ e.localid.id < lastCut[e.localid.shard])'
  <2>1. ASSUME NEW e \in AllEntries \cup New
        PROVE  e \in Entries /\ e.localid.id < lastCut'[e.localid.shard]
    BY <1>5, <1>6, <1>7, <1>8
  <2>2. Entries' = Entries
    BY DEF Entries, LocalIds
  <2> QED
    BY <1>1, <2>1, <2>2
<1>13. (\A e, f \in AllEntries :
          /\ e.seqnum = f.seqnum => e = f
          /\ e.localid.shard = f.localid.shard =>
               (e.localid.id < f.localid.id <=> e.seqnum < f.seqnum))'
  <2> SUFFICES ASSUME NEW e \in AllEntries \cup New, NEW f \in AllEntries \cup New
               PROVE  /\ e.seqnum = f.seqnum => e = f
                      /\ e.localid.shard = f.localid.shard =>
                           (e.localid.id < f.localid.id <=> e.seqnum < f.seqnum)
    BY <1>1
  <2>1. CASE e \in AllEntries /\ f \in AllEntries
    BY <2>1 DEF LogInv
  <2>2. CASE e \in New /\ f \in New
    BY <1>3, <2>2
  <2>3. CASE e \in AllEntries /\ f \in New
    <3>1. /\ e.seqnum \in Nat /\ f.seqnum \in Nat /\ e.seqnum < f.seqnum
      BY <1>2, <1>3, <1>4, <2>3
    <3>2. e.localid.shard = f.localid.shard => e.localid.id < f.localid.id
      BY <1>5, <1>7, <1>8, <2>3
    <3> QED
      BY <3>1, <3>2
  <2>4. CASE e \in New /\ f \in AllEntries
    <3>1. /\ e.seqnum \in Nat /\ f.seqnum \in Nat /\ f.seqnum < e.seqnum
      BY <1>2, <1>3, <1>4, <2>4
    <3>2. e.localid.shard = f.localid.shard => ~(e.localid.id < f.localid.id)
      BY <1>5, <1>7, <1>8, <2>4
    <3> QED
      BY <3>1, <3>2
  <2> QED
    BY <2>1, <2>2, <2>3, <2>4
<1>14. (\A sh \in Shards : \A i \in 0..(lastCut[sh] - 1) :
          Has(AllEntries, [shard |-> sh, id |-> i]))'
  <2> SUFFICES ASSUME NEW sh \in Shards, NEW i \in 0..(lastCut'[sh] - 1)
               PROVE  Has(AllEntries \cup New, [shard |-> sh, id |-> i])
    BY <1>1 DEF Has
  <2>1. CASE i < lastCut[sh]
    <3>1. i \in 0..(lastCut[sh] - 1)
      BY <1>5, <2>1
    <3> QED
      BY <3>1 DEF LogInv, Has
  <2>2. CASE ~(i < lastCut[sh])
    <3>1. lastCut'[sh] # lastCut[sh]
      BY <1>5, <2>2
    <3>2. PICK j \in 1..Len(c.shards) : c.shards[j].shard = sh
      BY <3>1
    <3>3. /\ c.shards[j].start = lastCut[sh]
          /\ c.shards[j].start + c.shards[j].delta = lastCut'[sh]
      BY <3>2
    <3>4. i \in c.shards[j].start..(c.shards[j].start + c.shards[j].delta - 1)
      BY <1>5, <2>2, <3>3, SMTT(60)
    <3>5. Has(New, [shard |-> sh, id |-> i])
      BY <3>2, <3>4, CutLocalIds DEF New
    <3> QED
      BY <3>5 DEF Has
  <2> QED
    BY <2>1, <2>2
<1> QED
  BY <1>9, <1>10, <1>11, <1>12, <1>13, <1>14 DEF LogInv
-----------------------------------------------------------------------------
(* What a step that leaves a part of the state alone preserves. *)

\* The entries of the cuts that were there are the same after the step.
CutsKept ==
    /\ Len(cuts) <= Len(cuts')
    /\ \A k \in 0..Len(cuts) : EntriesOf(0, k)' = EntriesOf(0, k)

\* While the cuts stay, so does the log.
LEMMA LogFrame ==
    ASSUME UNCHANGED cuts, cuts \in Seq(CutShapes)
    PROVE  /\ CutsKept /\ AllEntries' = AllEntries
           /\ SeqnumEnd(Len(cuts))' = SeqnumEnd(Len(cuts))
           /\ LogInv /\ UNCHANGED lastCut => LogInv'
<1>1. Len(cuts) \in Nat
  BY LenProperties
<1>2. CutsKept
  BY <1>1 DEF CutsKept, EntriesOf
<1>3. AllEntries' = AllEntries
  BY DEF AllEntries, EntriesOf
<1>4. \A k : SeqnumEnd(k)' = SeqnumEnd(k)
  BY DEF SeqnumEnd
<1>5. SeqnumEnd(Len(cuts))' = SeqnumEnd(Len(cuts))
  BY DEF SeqnumEnd
<1>6. ASSUME LogInv, UNCHANGED lastCut PROVE LogInv'
  BY <1>3, <1>4, <1>5, <1>6 DEF LogInv, Has, Entries, LocalIds
<1> QED
  BY <1>2, <1>3, <1>5, <1>6

\* The node n keeps its position in the metalog.
Stays(n) == position'[n] = position[n] /\ (n \in viewFinalized' <=> n \in viewFinalized)

\* StorageInv survives steps that leave the storage nodes alone, also new cuts.
LEMMA StorageFrame ==
    ASSUME TypeOK, StorageInv, CutsKept, \A st \in Storages : Stays(st),
           UNCHANGED <<liveEntries, shardProgress, pendingEntries>>
    PROVE  StorageInv'
<1>1. \A st \in Storages : position[st] \in 0..Len(cuts)
  BY DEF TypeOK, Nodes
<1>2. \A st \in Storages : EntriesOf(0, position[st])' = EntriesOf(0, position[st])
  <2> SUFFICES ASSUME NEW st \in Storages
               PROVE  EntriesOf(0, position[st])' = EntriesOf(0, position[st])
    OBVIOUS
  <2>1. PICK k \in 0..Len(cuts) : k = position[st]
    BY <1>1
  <2>2. EntriesOf(0, k)' = EntriesOf(0, k)
    BY DEF CutsKept
  <2>3. position'[st] = k
    BY <2>1 DEF Stays
  <2> QED
    BY <2>1, <2>2, <2>3 DEF EntriesOf
<1> QED
  BY <1>2 DEF StorageInv, Has, Stays

\* EngineInv survives steps that leave appends alone or make an engine inactive.
LEMMA EngineFrame ==
    ASSUME TypeOK, EngineInv, CutsKept,
           UNCHANGED <<nextId, acked, pendingAppends, discarded>>, \A sh \in Shards : Stays(sh),
           \A sh \in Shards : active'[sh] => active[sh]
    PROVE  EngineInv'
<1>1. \A sh \in Shards : position[sh] \in 0..Len(cuts)
  BY DEF TypeOK, Nodes
<1>2. \A sh \in Shards : EntriesOf(0, position[sh])' = EntriesOf(0, position[sh])
  <2> SUFFICES ASSUME NEW sh \in Shards
               PROVE  EntriesOf(0, position[sh])' = EntriesOf(0, position[sh])
    OBVIOUS
  <2>1. PICK k \in 0..Len(cuts) : k = position[sh]
    BY <1>1
  <2>2. EntriesOf(0, k)' = EntriesOf(0, k)
    BY DEF CutsKept
  <2>3. position'[sh] = k
    BY <2>1 DEF Stays
  <2> QED
    BY <2>1, <2>2, <2>3 DEF EntriesOf
<1>3. Issued' = Issued
  BY DEF Issued, LocalIds
<1> QED
  BY <1>2, <1>3 DEF EngineInv, Has, Stays

\* FloorInv depends on the floors, the localids given out and the log.
LEMMA FloorFrame ==
    ASSUME FloorInv, cuts \in Seq(CutShapes), UNCHANGED <<floor, nextId, cuts>>
    PROVE  FloorInv'
<1>1. AllEntries' = AllEntries /\ SeqnumEnd(Len(cuts))' = SeqnumEnd(Len(cuts))
  BY LogFrame
<1> QED
  BY <1>1 DEF FloorInv

\* ProgressInv depends on localids, messages and the progress of nodes and primary.
LEMMA ProgressFrame ==
    ASSUME ProgressInv,
           UNCHANGED <<nextId, shardProgress, progressMsgs, lastCut, storageProgress, dirtyShards,
                       replicateMsgs, pendingEntries>>
    PROVE  ProgressInv'
  BY DEF ProgressInv

\* MetaInv depends on the positions and the seal.
LEMMA MetaFrame ==
    ASSUME MetaInv, UNCHANGED <<sealed, committed, position, viewFinalized>>
    PROVE  MetaInv'
  BY DEF MetaInv
-----------------------------------------------------------------------------
(* One lemma for each action. *)

\* The invariant holds before the first append.
LEMMA InitIndInv == Init => IndInv
<1> SUFFICES ASSUME Init PROVE IndInv
  OBVIOUS
<1>1. MaxAppends \in Nat /\ 0 \in 0..MaxAppends
  BY LocalIdFacts
<1>2. cuts = <<>> /\ Len(cuts) = 0 /\ cuts \in Seq(CutShapes)
  BY DEF Init
<1>3. EntriesOf(0, 0) = {} /\ AllEntries = {}
  BY <1>2 DEF EntriesOf, AllEntries
<1>4. \A sh \in Shards : StorageNodes[sh] \in SUBSET Storages
  BY SharedLogAssumption
<1>5. TypeOK
  <2>1. /\ nextId \in [Shards -> 0..MaxAppends]
        /\ lastCut \in [Shards -> 0..MaxAppends]
        /\ shardProgress \in [Storages -> [Shards -> 0..MaxAppends]]
    BY <1>1 DEF Init
  <2>2. /\ pendingAppends \in [Shards -> SUBSET LocalIds]
        /\ acked \in [Shards -> SUBSET Entries]
        /\ discarded \in [Shards -> SUBSET LocalIds]
        /\ pendingEntries \in [Storages -> SUBSET LocalIds]
        /\ liveEntries \in [Storages -> SUBSET Entries]
    BY DEF Init
  <2>3. /\ active \in [Shards -> BOOLEAN] /\ progressDirty \in [Storages -> BOOLEAN]
        /\ frozen \in BOOLEAN
    BY DEF Init
  <2>4. /\ storageProgress \in [Shards -> UNION {[S -> 0..MaxAppends] : S \in SUBSET Storages}]
        /\ \A sh \in Shards : storageProgress[sh] \in [StorageNodes[sh] -> 0..MaxAppends]
    BY <1>1, <1>4 DEF Init
  <2>5. committed \in 0..Len(cuts) /\ position \in [Nodes -> 0..Len(cuts)]
    BY <1>2 DEF Init
  <2>6. floor \in [Shards -> Seq(Nat)]
    BY DEF Init
  <2>7. /\ viewFinalized = {} /\ dirtyShards = {} /\ sealed = {} /\ replicateMsgs = {}
        /\ progressMsgs = {}
    BY DEF Init
  <2> QED
    BY <1>2, <2>1, <2>2, <2>3, <2>4, <2>5, <2>6, <2>7 DEF TypeOK
<1>6. LogInv
  <2>1. SeqnumEnd(0) = 0
    BY DEF SeqnumEnd
  <2>2. lastCut = [sh \in Shards |-> 0]
    BY DEF Init
  <2> QED
    BY <1>2, <1>3, <2>1, <2>2 DEF LogInv
<1>7. ProgressInv
  <2>1. \A sh \in Shards : \A st \in StorageNodes[sh] : st \in Storages /\ storageProgress[sh][st] = 0
    BY <1>4 DEF Init
  <2>2. \A sh \in Shards : nextId[sh] = 0 /\ lastCut[sh] = 0
    BY DEF Init
  <2>3. \A st \in Storages, sh \in Shards : shardProgress[st][sh] = 0
    BY DEF Init
  <2>4. /\ progressMsgs = {} /\ replicateMsgs = {} /\ dirtyShards = {}
        /\ \A st \in Storages : pendingEntries[st] = {}
    BY DEF Init
  <2> QED
    BY <2>1, <2>2, <2>3, <2>4 DEF ProgressInv
<1>8. StorageInv
  <2>1. \A st \in Storages : position[st] = 0
    BY DEF Init, Nodes
  <2> QED
    BY <1>3, <2>1 DEF Init, StorageInv
<1>9. EngineInv
  <2>1. \A sh \in Shards : position[sh] = 0
    BY DEF Init, Nodes
  <2>2. Issued = {}
    BY LocalIdFacts DEF Init, Issued
  <2> QED
    BY <1>3, <2>1, <2>2 DEF Init, EngineInv
<1>10. MetaInv
  BY DEF Init, MetaInv
<1>11. FloorInv
  <2>1. \A sh \in Shards : nextId[sh] = 0 /\ floor[sh] = <<>>
    BY DEF Init
  <2> QED
    BY <1>3, <2>1 DEF FloorInv
<1>12. fatal = {}
  BY DEF Init
<1> QED
  BY <1>5, <1>6, <1>7, <1>8, <1>9, <1>10, <1>11, <1>12 DEF IndInv

\* EngineOnViewFrozen keeps the invariant.
LEMMA EngineFrozenStep ==
    ASSUME IndInv, NEW sh \in Shards, EngineOnViewFrozen(sh)
    PROVE  IndInv'
<1> USE DEF EngineOnViewFrozen, storageVars, primaryVars, metaVars, netVars
<1>1. active' \in [Shards -> BOOLEAN] /\ \A x \in Shards : active'[x] => active[x]
  BY DEF IndInv, TypeOK
<1>2. TypeOK'
  BY <1>1 DEF IndInv, TypeOK
<1>3. CutsKept /\ LogInv'
  BY LogFrame DEF IndInv, TypeOK
<1>4. ProgressInv' /\ MetaInv'
  BY ProgressFrame, MetaFrame DEF IndInv
<1>5. StorageInv'
  BY <1>3, StorageFrame DEF IndInv, Stays
<1>6. EngineInv'
  BY <1>1, <1>3, EngineFrame DEF IndInv, Stays
<1>7. FloorInv'
  BY FloorFrame DEF IndInv, TypeOK
<1>8. fatal' = {}
  BY DEF IndInv
<1> QED
  BY <1>2, <1>3, <1>4, <1>5, <1>6, <1>7, <1>8 DEF IndInv

\* PrimaryOnViewFrozen keeps the invariant.
LEMMA PrimaryFrozenStep ==
    ASSUME IndInv, PrimaryOnViewFrozen
    PROVE  IndInv'
<1> USE DEF PrimaryOnViewFrozen, engineVars, storageVars, primaryVars, metaVars, netVars
<1>1. frozen' \in BOOLEAN
  OBVIOUS
<1>2. TypeOK'
  BY <1>1 DEF IndInv, TypeOK
<1>3. CutsKept /\ LogInv'
  BY LogFrame DEF IndInv, TypeOK
<1>4. ProgressInv' /\ MetaInv'
  BY ProgressFrame, MetaFrame DEF IndInv
<1>5. StorageInv'
  BY <1>3, StorageFrame DEF IndInv, Stays
<1>6. EngineInv'
  BY <1>3, EngineFrame DEF IndInv, Stays
<1>7. FloorInv'
  BY FloorFrame DEF IndInv, TypeOK
<1>8. fatal' = {}
  BY DEF IndInv
<1> QED
  BY <1>2, <1>3, <1>4, <1>5, <1>6, <1>7, <1>8 DEF IndInv

\* A progress message carries what its sender has.
LEMMA SendProgressStep ==
    ASSUME IndInv, NEW st \in Storages, SendShardProgressIfNeeded(st)
    PROVE  IndInv'
<1> USE DEF SendShardProgressIfNeeded, engineVars, primaryVars, metaVars
<1> DEFINE msg == [src |-> st, progress |-> shardProgress[st]]
<1>1. /\ msg \in [src : Storages, progress : [Shards -> 0..MaxAppends]]
      /\ \A sh \in Shards : shardProgress[st][sh] \in 0..MaxAppends
  BY DEF IndInv, TypeOK
<1>2. progressDirty' \in [Storages -> BOOLEAN]
  BY DEF IndInv, TypeOK
<1>3. progressMsgs' \in SUBSET [src : Storages, progress : [Shards -> 0..MaxAppends]]
  BY <1>1 DEF IndInv, TypeOK
<1>4. TypeOK'
  BY <1>2, <1>3 DEF IndInv, TypeOK
<1>5. CutsKept /\ LogInv'
  BY LogFrame DEF IndInv, TypeOK
<1>6. ProgressInv'
  <2>1. ASSUME NEW m \in progressMsgs', NEW sh \in Shards
        PROVE  m.progress[sh] <= shardProgress'[m.src][sh]
    <3>1. CASE m \in progressMsgs
      BY <3>1 DEF IndInv, ProgressInv
    <3>2. CASE m = msg
      BY <1>1, <3>2, LocalIdFacts
    <3> QED
      BY <3>1, <3>2
  <2> QED
    BY <2>1 DEF IndInv, ProgressInv
<1>7. MetaInv'
  BY MetaFrame DEF IndInv
<1>8. StorageInv'
  BY <1>5, StorageFrame DEF IndInv, Stays
<1>9. EngineInv'
  BY <1>5, EngineFrame DEF IndInv, Stays
<1>10. FloorInv'
  BY FloorFrame DEF IndInv, TypeOK
<1>11. fatal' = {}
  BY DEF IndInv
<1> QED
  BY <1>4, <1>5, <1>6, <1>7, <1>8, <1>9, <1>10, <1>11 DEF IndInv

\* A cut that becomes replicated changes no log.
LEMMA ReplicateMetaLogStep ==
    ASSUME IndInv, ReplicateMetaLog
    PROVE  IndInv'
<1> USE DEF ReplicateMetaLog, engineVars, storageVars, primaryVars, netVars
<1>1. Len(cuts) \in Nat /\ committed \in Nat /\ committed' = committed + 1
  BY LenProperties DEF IndInv, TypeOK
<1>2. committed' \in 0..Len(cuts)
  BY <1>1
<1>3. TypeOK'
  BY <1>2 DEF IndInv, TypeOK
<1>4. CutsKept /\ LogInv'
  BY LogFrame DEF IndInv, TypeOK
<1>5. ProgressInv'
  BY ProgressFrame DEF IndInv
<1>6. MetaInv'
  <2>1. \A p \in sealed : p \in Int /\ committed' <= p
    BY <1>1 DEF IndInv, TypeOK
  <2>2. \A n \in Nodes : position[n] \in Int /\ (position[n] <= committed => position[n] <= committed')
    BY <1>1 DEF IndInv, TypeOK
  <2> QED
    BY <2>1, <2>2 DEF IndInv, MetaInv
<1>7. StorageInv'
  BY <1>4, StorageFrame DEF IndInv, Stays
<1>8. EngineInv'
  BY <1>4, EngineFrame DEF IndInv, Stays
<1>9. FloorInv'
  BY FloorFrame DEF IndInv, TypeOK
<1>10. fatal' = {}
  BY DEF IndInv
<1> QED
  BY <1>3, <1>4, <1>5, <1>6, <1>7, <1>8, <1>9, <1>10 DEF IndInv

\* The seal covers what was replicated.
LEMMA SealStep ==
    ASSUME IndInv, SealView
    PROVE  IndInv'
<1> USE DEF SealView, engineVars, storageVars, primaryVars, netVars
<1>1. Len(cuts) \in Nat /\ committed \in Nat
  BY LenProperties DEF IndInv, TypeOK
<1>2. PICK p \in committed..Len(cuts) : sealed' = {p}
  OBVIOUS
<1>3. sealed' \in SUBSET (0..Len(cuts)) /\ committed <= p
  BY <1>1, <1>2
<1>4. TypeOK'
  BY <1>3 DEF IndInv, TypeOK
<1>5. CutsKept /\ LogInv'
  BY LogFrame DEF IndInv, TypeOK
<1>6. ProgressInv'
  BY ProgressFrame DEF IndInv
<1>7. MetaInv'
  <2>1. viewFinalized = {}
    BY DEF IndInv, MetaInv
  <2> QED
    BY <1>2, <1>3, <2>1 DEF IndInv, MetaInv
<1>8. StorageInv'
  BY <1>5, StorageFrame DEF IndInv, Stays
<1>9. EngineInv'
  BY <1>5, EngineFrame DEF IndInv, Stays
<1>10. FloorInv'
  BY FloorFrame DEF IndInv, TypeOK
<1>11. fatal' = {}
  BY DEF IndInv
<1> QED
  BY <1>4, <1>5, <1>6, <1>7, <1>8, <1>9, <1>10, <1>11 DEF IndInv

\* What is cut was issued.
LEMMA CutIsIssued ==
    ASSUME IndInv, NEW sh \in Shards
    PROVE  /\ lastCut[sh] \in Nat /\ nextId[sh] \in Nat /\ lastCut[sh] <= nextId[sh]
           /\ \A e \in AllEntries : e.localid.shard = sh =>
                e.localid \in LocalIds /\ e.localid.id \in Nat /\ e.localid.id < nextId[sh]
<1>1. PICK st \in StorageNodes[sh] : TRUE
  BY SharedLogAssumption
<1>2. st \in Storages
  BY SharedLogAssumption
<1>3. /\ lastCut[sh] <= storageProgress[sh][st] /\ storageProgress[sh][st] <= shardProgress[st][sh]
      /\ shardProgress[st][sh] <= nextId[sh]
  BY <1>1, <1>2 DEF IndInv, ProgressInv
<1>4. /\ lastCut[sh] \in Nat /\ nextId[sh] \in Nat /\ shardProgress[st][sh] \in Nat
      /\ storageProgress[sh][st] \in Nat
  BY <1>1, <1>2, LocalIdFacts DEF IndInv, TypeOK
<1>5. lastCut[sh] <= nextId[sh]
  BY <1>3, <1>4
<1>6. ASSUME NEW e \in AllEntries, e.localid.shard = sh
      PROVE  e.localid \in LocalIds /\ e.localid.id \in Nat /\ e.localid.id < nextId[sh]
  <2>1. e.localid \in LocalIds /\ e.localid.id < lastCut[sh]
    BY <1>6 DEF IndInv, LogInv, Entries
  <2>2. e.localid.id \in Nat
    BY <2>1, LocalIdFacts
  <2> QED
    BY <1>4, <1>5, <2>1, <2>2
<1> QED
  BY <1>4, <1>5, <1>6

\* The floor an append gets is the end of what was answered: at most the end of
\* the log.
LEMMA FloorFacts ==
    ASSUME IndInv
    PROVE  LET low == {s + 1 : s \in AckedSeqnums} \cup {0}
               top == CHOOSE s \in low : \A x \in low : x <= s
           IN  top \in Nat /\ top <= SeqnumEnd(Len(cuts)) /\ \A s \in AckedSeqnums : s < top
<1> DEFINE low == {s + 1 : s \in AckedSeqnums} \cup {0}
           N   == SeqnumEnd(Len(cuts))
           T   == {N - x : x \in low}
<1>1. N \in Nat /\ Len(cuts) \in 0..Len(cuts)
  BY PrefixFacts DEF IndInv, TypeOK
<1>2. \A s \in AckedSeqnums : s \in Nat /\ s < N
  <2> SUFFICES ASSUME NEW sh \in Shards, NEW e \in acked[sh]
               PROVE  e.seqnum \in Nat /\ e.seqnum < N
    BY DEF AckedSeqnums
  <2>1. e \in EntriesOf(0, position[sh]) /\ position[sh] \in 0..Len(cuts)
    BY DEF IndInv, EngineInv, TypeOK, Nodes
  <2>2. e \in AllEntries /\ e.seqnum < SeqnumEnd(position[sh])
    <3>1. 0 \in 0..Len(cuts)
      BY LenProperties DEF IndInv, TypeOK
    <3>2. \A a, b \in 0..Len(cuts) : \A f :
            f \in EntriesOf(a, b) => f \in AllEntries /\ f.seqnum < SeqnumEnd(b)
      BY PrefixFacts DEF IndInv, TypeOK
    <3> QED
      BY <2>1, <3>1, <3>2
  <2>3. e.seqnum \in Nat /\ SeqnumEnd(position[sh]) \in Nat /\ SeqnumEnd(position[sh]) <= N
    BY <1>1, <2>1, <2>2, PrefixFacts DEF IndInv, TypeOK, LogInv
  <2> QED
    BY <1>1, <2>2, <2>3
<1> HIDE DEF N
<1>3. \A x \in low : x \in Nat /\ x <= N
  BY <1>1, <1>2
<1>4. T \in SUBSET Nat /\ T # {}
  <2>1. 0 \in low
    OBVIOUS
  <2> HIDE DEF low
  <2>2. \A x \in low : N - x \in Nat
    BY <1>1, <1>3
  <2> QED BY <2>1, <2>2
<1>5. PICK t \in T : \A x \in T : t <= x
  <2> HIDE DEF T
  <2> QED BY <1>4, NatMin
<1>6. PICK m \in low : t = N - m
  <2> HIDE DEF low
  <2> QED BY <1>5
<1>7. \A x \in low : x <= m
  <2>1. \A x \in low : N - m <= N - x
    <3> HIDE DEF low
    <3> QED BY <1>5, <1>6
  <2> HIDE DEF low
  <2> QED BY <1>1, <1>3, <1>6, <2>1
<1> DEFINE top == CHOOSE s \in low : \A x \in low : x <= s
<1>8. top \in low /\ \A x \in low : x <= top
  <2> HIDE DEF low
  <2> QED BY <1>6, <1>7
<1>9. \A s \in AckedSeqnums : s + 1 \in low
  OBVIOUS
<1> HIDE DEF low, top
<1>10. top \in Nat /\ top <= N /\ \A s \in AckedSeqnums : s < top
  BY <1>1, <1>2, <1>3, <1>8, <1>9
<1> QED
  BY <1>10 DEF low, top, N

\* A new append gets a localid that nobody has.
LEMMA AppendStep ==
    ASSUME IndInv, NEW sh \in Shards, HandleLocalAppend(sh)
    PROVE  IndInv'
<1> DEFINE l == [shard |-> sh, id |-> nextId[sh]]
           low == {s + 1 : s \in AckedSeqnums} \cup {0}
           top == CHOOSE s \in low : \A x \in low : x <= s
<1>1. /\ active[sh] /\ Cardinality(Issued) < MaxAppends
      /\ nextId' = [nextId EXCEPT ![sh] = nextId[sh] + 1]
      /\ pendingAppends' = [pendingAppends EXCEPT ![sh] = pendingAppends[sh] \cup {l}]
      /\ replicateMsgs' = replicateMsgs \cup {[dst |-> st, localid |-> l] : st \in StorageNodes[sh]}
      /\ floor' = [floor EXCEPT ![sh] = Append(floor[sh], top)]
      /\ UNCHANGED <<acked, discarded, active, storageVars, primaryVars, frozen,
                     metaVars, viewFinalized, fatal, progressMsgs>>
  BY DEF HandleLocalAppend
<1>2. /\ nextId \in [Shards -> 0..MaxAppends] /\ MaxAppends \in Nat /\ nextId[sh] \in Nat
      /\ nextId[sh] < MaxAppends
  <2>1. nextId \in [Shards -> 0..MaxAppends] /\ MaxAppends \in Nat /\ TypeOK
    BY LocalIdFacts DEF IndInv, TypeOK
  <2>2. Cardinality(Issued) \in Nat /\ nextId[sh] <= Cardinality(Issued)
    BY <2>1, IssuedBound
  <2>3. nextId[sh] \in Nat
    BY <2>1
  <2>4. Cardinality(Issued) < MaxAppends
    BY <1>1
  <2> QED
    BY <2>1, <2>2, <2>3, <2>4
<1>3. l \in LocalIds /\ l.shard = sh /\ l.id = nextId[sh]
  BY <1>2, LocalIdFacts
<1>4. top \in Nat /\ top <= SeqnumEnd(Len(cuts))
  BY FloorFacts
<1> HIDE DEF l, low, top
<1>5. /\ nextId' \in [Shards -> 0..MaxAppends]
      /\ \A x \in Shards : nextId[x] \in Nat /\ nextId'[x] \in Nat /\ nextId[x] <= nextId'[x]
      /\ nextId'[sh] = nextId[sh] + 1
      /\ \A x \in Shards : x # sh => nextId'[x] = nextId[x]
  BY <1>1, <1>2
<1>6. TypeOK'
  <2>1. pendingAppends' \in [Shards -> SUBSET LocalIds]
    BY <1>1, <1>3 DEF IndInv, TypeOK
  <2>2. replicateMsgs' \in SUBSET [dst : Storages, localid : LocalIds]
    <3>1. \A st \in StorageNodes[sh] : [dst |-> st, localid |-> l] \in [dst : Storages, localid : LocalIds]
      BY <1>3, SharedLogAssumption
    <3> QED
      BY <1>1, <3>1 DEF IndInv, TypeOK
  <2>3. floor' \in [Shards -> Seq(Nat)]
    <3>1. floor \in [Shards -> Seq(Nat)] /\ Append(floor[sh], top) \in Seq(Nat)
      BY <1>4, AppendProperties DEF IndInv, TypeOK
    <3> QED
      BY <1>1, <3>1
  <2> QED
    BY <1>1, <1>5, <2>1, <2>2, <2>3 DEF IndInv, TypeOK, storageVars, primaryVars, metaVars
<1>7. CutsKept /\ LogInv' /\ AllEntries' = AllEntries
      /\ SeqnumEnd(Len(cuts))' = SeqnumEnd(Len(cuts))
  BY <1>1, LogFrame DEF IndInv, TypeOK, primaryVars, metaVars
<1>8. ProgressInv'
  <2>1. ASSUME NEW st \in Storages, NEW x \in Shards
        PROVE  shardProgress[st][x] <= nextId'[x]
    <3>1. shardProgress[st][x] \in Nat /\ shardProgress[st][x] <= nextId[x]
      BY LocalIdFacts DEF IndInv, TypeOK, ProgressInv
    <3> QED
      BY <1>5, <3>1
  <2>2. ASSUME NEW m \in replicateMsgs' PROVE m.localid.id < nextId'[m.localid.shard]
    <3>1. CASE m \in replicateMsgs
      <4>1. m.localid \in LocalIds /\ m.localid.id < nextId[m.localid.shard]
        BY <3>1 DEF IndInv, TypeOK, ProgressInv
      <4>2. m.localid.shard \in Shards /\ m.localid.id \in Nat
        BY <4>1, LocalIdFacts
      <4> QED
        BY <1>5, <4>1, <4>2
    <3>2. CASE m \in {[dst |-> st, localid |-> l] : st \in StorageNodes[sh]}
      <4>1. m.localid = l
        BY <3>2
      <4> QED
        BY <1>2, <1>3, <1>5, <4>1
    <3> QED
      BY <1>1, <3>1, <3>2
  <2>3. ASSUME NEW st \in Storages, NEW x \in pendingEntries[st] PROVE x.id < nextId'[x.shard]
    <3>1. x \in LocalIds /\ x.id < nextId[x.shard]
      BY DEF IndInv, TypeOK, ProgressInv
    <3>2. x.shard \in Shards /\ x.id \in Nat
      BY <3>1, LocalIdFacts
    <3> QED
      BY <1>5, <3>1, <3>2
  <2> QED
    BY <1>1, <2>1, <2>2, <2>3 DEF IndInv, ProgressInv, storageVars, primaryVars
<1>9. MetaInv'
  BY <1>1, MetaFrame DEF IndInv, metaVars
<1>10. StorageInv'
  BY <1>1, <1>7, StorageFrame DEF IndInv, Stays, storageVars, metaVars
<1>11. EngineInv'
  <2>1. ASSUME NEW x \in Shards PROVE EntriesOf(0, position[x])' = EntriesOf(0, position[x])
    BY <1>1 DEF EntriesOf, metaVars
  <2>2. \A y \in Issued' : y \in Issued \/ y = l
    <3> SUFFICES ASSUME NEW y \in LocalIds, y.id < nextId'[y.shard], y.id >= nextId[y.shard]
                 PROVE  y = l
      BY <1>5, LocalIdFacts DEF Issued, LocalIds
    <3>1. y.shard \in Shards /\ y.id \in Nat /\ y = [shard |-> y.shard, id |-> y.id]
      BY LocalIdFacts
    <3>2. y.shard = sh
      BY <1>5, <3>1
    <3>3. y.id = nextId[sh]
      BY <1>5, <3>1, <3>2
    <3> QED
      BY <3>1, <3>2, <3>3 DEF l
  <2>3. l \in Issued' /\ Issued \subseteq Issued'
    <3>1. l.id < nextId'[l.shard]
      BY <1>3, <1>5
    <3>2. \A y \in LocalIds : y.shard \in Shards /\ y.id \in Nat
      BY LocalIdFacts
    <3>3. LocalIds' = LocalIds
      BY DEF LocalIds
    <3> QED
      BY <1>3, <1>5, <3>1, <3>2, <3>3 DEF Issued
  <2>4. ~Has(EntriesOf(0, position[sh]), l)
    <3>1. position[sh] \in 0..Len(cuts) /\ 0 \in 0..Len(cuts)
      BY LenProperties DEF IndInv, TypeOK, Nodes
    <3>2. \A e \in EntriesOf(0, position[sh]) : e \in AllEntries
      BY <3>1, PrefixFacts DEF IndInv, TypeOK
    <3>3. \A e \in AllEntries : e.localid.shard = sh => e.localid.id \in Nat /\ e.localid.id < nextId[sh]
      BY CutIsIssued
    <3> QED
      BY <1>2, <1>3, <3>2, <3>3 DEF Has
  <2>5. sh \notin viewFinalized
    BY <1>1 DEF IndInv, EngineInv
  <2>6. ASSUME NEW x \in Shards
        PROVE  {y \in Issued' : y.shard = x /\ ~Has(EntriesOf(0, position[x]), y)} =
               {y \in Issued : y.shard = x /\ ~Has(EntriesOf(0, position[x]), y)}
                 \cup (IF x = sh THEN {l} ELSE {})
    BY <1>3, <2>2, <2>3, <2>4
  <2>7. ASSUME NEW x \in Shards
        PROVE  pendingAppends'[x] = pendingAppends[x] \cup (IF x = sh THEN {l} ELSE {})
    BY <1>1 DEF IndInv, TypeOK
  <2> QED
    BY <1>1, <2>1, <2>5, <2>6, <2>7 DEF IndInv, EngineInv, Has
<1>12. FloorInv'
  <2> SUFFICES ASSUME NEW x \in Shards
               PROVE  /\ Len(floor'[x]) = nextId'[x]
                      /\ \A i \in 1..nextId'[x] : floor'[x][i] <= SeqnumEnd(Len(cuts))
                      /\ \A e \in AllEntries : e.localid.shard = x =>
                           floor'[x][e.localid.id + 1] <= e.seqnum
    BY <1>7 DEF FloorInv
  <2>1. /\ floor \in [Shards -> Seq(Nat)] /\ Len(floor[x]) = nextId[x]
        /\ \A i \in 1..nextId[x] : floor[x][i] <= SeqnumEnd(Len(cuts))
        /\ \A e \in AllEntries : e.localid.shard = x => floor[x][e.localid.id + 1] <= e.seqnum
    BY DEF IndInv, TypeOK, FloorInv
  <2>2. CASE x # sh
    BY <1>1, <1>5, <2>1, <2>2
  <2>3. CASE x = sh
    <3>1. floor'[sh] = Append(floor[sh], top) /\ floor[sh] \in Seq(Nat)
      BY <1>1, <2>1
    <3>2. /\ Len(floor'[sh]) = Len(floor[sh]) + 1 /\ floor'[sh][Len(floor[sh]) + 1] = top
          /\ \A i \in 1..Len(floor[sh]) : floor'[sh][i] = floor[sh][i]
      BY <1>4, <3>1, AppendProperties
    <3>3. \A i \in 1..nextId'[sh] : i \in 1..nextId[sh] \/ i = nextId[sh] + 1
      BY <1>2, <1>5
    <3>4. \A i \in 1..nextId'[sh] : floor'[sh][i] <= SeqnumEnd(Len(cuts))
      BY <1>4, <2>1, <2>3, <3>2, <3>3
    <3>5. ASSUME NEW e \in AllEntries, e.localid.shard = sh
          PROVE  floor'[sh][e.localid.id + 1] <= e.seqnum
      <4>1. e.localid.id \in Nat /\ e.localid.id < nextId[sh]
        BY <3>5, CutIsIssued
      <4>2. e.localid.id + 1 \in 1..nextId[sh]
        BY <1>2, <4>1
      <4> QED
        BY <2>1, <2>3, <3>2, <3>5, <4>2
    <3> QED
      BY <1>5, <2>1, <2>3, <3>2, <3>4, <3>5
  <2> QED
    BY <2>2, <2>3
<1>13. fatal' = {}
  BY <1>1 DEF IndInv
<1> QED
  BY <1>6, <1>7, <1>8, <1>9, <1>10, <1>11, <1>12, <1>13 DEF IndInv

\* HandleReplicateRequest: the progress moves over what the node holds, which
\* was issued.
LEMMA ReplicateStep ==
    ASSUME IndInv, NEW msg \in replicateMsgs, HandleReplicateRequest(msg)
    PROVE  IndInv'
<1> DEFINE st   == msg.dst
           sh   == msg.localid.shard
           p    == shardProgress[st][sh]
           pend == pendingEntries[st] \cup {msg.localid}
           q    == AdvanceShardProgress(sh, p, pend)
<1>1. /\ replicateMsgs' = replicateMsgs \ {msg}
      /\ pendingEntries' = [pendingEntries EXCEPT ![st] = pend]
      /\ shardProgress' = [shardProgress EXCEPT ![st] = [shardProgress[st] EXCEPT ![sh] = q]]
      /\ progressDirty' = [progressDirty EXCEPT ![st] = progressDirty[st] \/ q > p]
      /\ UNCHANGED <<engineVars, liveEntries, primaryVars, frozen, metaVars,
                     viewFinalized, fatal, progressMsgs>>
  BY DEF HandleReplicateRequest
<1>2. st \in Storages /\ msg.localid \in LocalIds /\ sh \in Shards
  <2>1. st \in Storages /\ msg.localid \in LocalIds
    BY DEF IndInv, TypeOK
  <2> QED
    BY <2>1, LocalIdFacts
<1>3. pend \in SUBSET LocalIds /\ p \in 0..MaxAppends /\ MaxAppends \in Nat
  BY <1>2, LocalIdFacts DEF IndInv, TypeOK
<1>4. q \in p..MaxAppends /\ \A i \in p..(q - 1) : [shard |-> sh, id |-> i] \in pend
  BY <1>2, <1>3, AdvanceFacts
<1>5. \A l \in pend : l.id < nextId[l.shard]
  BY <1>2 DEF IndInv, ProgressInv
<1> HIDE DEF st, sh, p, pend, q
<1>6. nextId[sh] \in Nat /\ p <= nextId[sh] /\ q \in Nat /\ p \in Nat /\ p <= q /\ q \in 0..MaxAppends
  <2>1. nextId[sh] \in Nat /\ p <= nextId[sh]
    BY <1>2, <1>3 DEF IndInv, TypeOK, ProgressInv, p
  <2> QED
    BY <1>3, <1>4, <2>1
<1>7. q <= nextId[sh]
  <2>1. CASE q = p
    BY <1>6, <2>1
  <2>2. CASE q # p
    <3>1. q - 1 \in p..(q - 1)
      BY <1>6, <2>2
    <3>2. [shard |-> sh, id |-> q - 1] \in pend
      BY <1>4, <3>1
    <3>3. q - 1 < nextId[sh]
      BY <1>5, <3>2
    <3> QED
      BY <1>6, <3>3
  <2> QED
    BY <2>1, <2>2
<1>8. /\ shardProgress \in [Storages -> [Shards -> 0..MaxAppends]]
      /\ pendingEntries \in [Storages -> SUBSET LocalIds]
  BY DEF IndInv, TypeOK
<1>9. /\ shardProgress' \in [Storages -> [Shards -> 0..MaxAppends]]
      /\ shardProgress'[st][sh] = q
      /\ \A t \in Storages, x \in Shards : t # st \/ x # sh => shardProgress'[t][x] = shardProgress[t][x]
  BY <1>1, <1>2, <1>6, <1>8
<1>10. /\ pendingEntries' \in [Storages -> SUBSET LocalIds]
       /\ pendingEntries'[st] = pend
       /\ \A t \in Storages : t # st => pendingEntries'[t] = pendingEntries[t]
  BY <1>1, <1>2, <1>3, <1>8
<1>11. TypeOK'
  <2>1. progressDirty' \in [Storages -> BOOLEAN]
    BY <1>1, <1>2 DEF IndInv, TypeOK
  <2> QED
    BY <1>1, <1>9, <1>10, <2>1 DEF IndInv, TypeOK, engineVars, primaryVars, metaVars
<1>12. CutsKept /\ LogInv'
  BY <1>1, LogFrame DEF IndInv, TypeOK, primaryVars, metaVars
<1>13. \A t \in Storages, x \in Shards :
         /\ shardProgress[t][x] \in Nat /\ shardProgress'[t][x] \in Nat
         /\ shardProgress[t][x] <= shardProgress'[t][x]
  <2> SUFFICES ASSUME NEW t \in Storages, NEW x \in Shards
               PROVE  /\ shardProgress[t][x] \in Nat /\ shardProgress'[t][x] \in Nat
                      /\ shardProgress[t][x] <= shardProgress'[t][x]
    OBVIOUS
  <2>1. shardProgress[t][x] \in 0..MaxAppends /\ shardProgress'[t][x] \in 0..MaxAppends
    BY <1>8, <1>9
  <2>2. CASE t = st /\ x = sh
    BY <1>3, <1>6, <1>9, <2>1, <2>2 DEF p
  <2>3. CASE t # st \/ x # sh
    BY <1>3, <1>9, <2>1, <2>3
  <2> QED
    BY <2>2, <2>3
<1>14. ProgressInv'
  <2>1. ASSUME NEW t \in Storages, NEW x \in Shards PROVE shardProgress'[t][x] <= nextId[x]
    <3>1. CASE t = st /\ x = sh
      BY <1>7, <1>9, <3>1
    <3>2. CASE t # st \/ x # sh
      BY <1>9, <3>2 DEF IndInv, ProgressInv
    <3> QED
      BY <3>1, <3>2
  <2>2. ASSUME NEW m \in progressMsgs, NEW x \in Shards
        PROVE  m.progress[x] <= shardProgress'[m.src][x]
    <3>1. m.src \in Storages /\ m.progress[x] \in Nat /\ m.progress[x] <= shardProgress[m.src][x]
      BY <1>3 DEF IndInv, TypeOK, ProgressInv
    <3> QED
      BY <1>13, <3>1
  <2>3. ASSUME NEW x \in Shards, NEW t \in StorageNodes[x]
        PROVE  storageProgress[x][t] <= shardProgress'[t][x]
    <3>1. t \in Storages
      BY SharedLogAssumption
    <3>2. storageProgress[x][t] \in Nat /\ storageProgress[x][t] <= shardProgress[t][x]
      BY <1>3 DEF IndInv, TypeOK, ProgressInv
    <3> QED
      BY <1>13, <3>1, <3>2
  <2>4. ASSUME NEW t \in Storages, NEW l \in pendingEntries'[t] PROVE l.id < nextId[l.shard]
    <3>1. CASE t = st
      BY <1>5, <1>10, <3>1
    <3>2. CASE t # st
      BY <1>10, <3>2 DEF IndInv, ProgressInv
    <3> QED
      BY <3>1, <3>2
  <2>5. /\ UNCHANGED <<nextId, progressMsgs, lastCut, storageProgress, dirtyShards>>
        /\ replicateMsgs' \subseteq replicateMsgs
    BY <1>1 DEF engineVars, primaryVars
  <2> QED
    BY <2>1, <2>2, <2>3, <2>4, <2>5 DEF IndInv, ProgressInv
<1>15. MetaInv'
  BY <1>1, MetaFrame DEF IndInv, metaVars
<1>16. StorageInv'
  <2>1. ASSUME NEW t \in Storages PROVE EntriesOf(0, position[t])' = EntriesOf(0, position[t])
    BY <1>1 DEF EntriesOf, metaVars
  <2>2. ASSUME NEW t \in Storages, t \notin viewFinalized, NEW x \in Shards, t \in StorageNodes[x],
               NEW i \in 0..(shardProgress'[t][x] - 1)
        PROVE  \/ [shard |-> x, id |-> i] \in pendingEntries'[t]
               \/ Has(EntriesOf(0, position[t]), [shard |-> x, id |-> i])
    <3>1. pendingEntries[t] \subseteq pendingEntries'[t]
      BY <1>10 DEF pend
    <3>2. CASE i \in 0..(shardProgress[t][x] - 1)
      BY <2>2, <3>1, <3>2 DEF IndInv, StorageInv
    <3>3. CASE i \notin 0..(shardProgress[t][x] - 1)
      <4>1. i \in Nat /\ shardProgress[t][x] \in Nat /\ shardProgress'[t][x] \in Nat
        BY <1>13
      <4>2. t = st /\ x = sh
        BY <1>9, <3>3
      <4>3. i \in p..(q - 1)
        BY <1>6, <1>9, <3>3, <4>1, <4>2 DEF p
      <4> QED
        BY <1>4, <1>10, <4>2, <4>3
    <3> QED
      BY <3>2, <3>3
  <2>3. UNCHANGED <<liveEntries, viewFinalized>>
    BY <1>1
  <2> QED
    BY <2>1, <2>2, <2>3 DEF IndInv, StorageInv, Has
<1>17. EngineInv'
  BY <1>1, <1>12, EngineFrame DEF IndInv, Stays, engineVars, metaVars
<1>18. FloorInv'
  BY <1>1, FloorFrame DEF IndInv, TypeOK, engineVars, metaVars
<1>19. fatal' = {}
  BY <1>1 DEF IndInv
<1> QED
  BY <1>11, <1>12, <1>14, <1>15, <1>16, <1>17, <1>18, <1>19 DEF IndInv

\* OnRecvShardProgress: a shard is dirty only when all its storage nodes are
\* beyond the last cut.
LEMMA RecvProgressStep ==
    ASSUME IndInv, NEW msg \in progressMsgs, OnRecvShardProgress(msg)
    PROVE  IndInv'
<1> DEFINE mine == {sh \in Shards : msg.src \in StorageNodes[sh]}
           more == {sh \in mine : msg.progress[sh] > storageProgress[sh][msg.src]}
           prog == [sh \in Shards |-> [st \in StorageNodes[sh] |->
                      IF sh \in more /\ st = msg.src THEN msg.progress[sh]
                      ELSE storageProgress[sh][st]]]
<1>1. /\ progressMsgs' = progressMsgs \ {msg}
      /\ UNCHANGED <<engineVars, storageVars, frozen, metaVars, viewFinalized,
                     fatal, replicateMsgs>>
      /\ \/ UNCHANGED primaryVars
         \/ /\ storageProgress' = prog
            /\ dirtyShards' = dirtyShards \cup NewlyDirty(prog, more)
            /\ UNCHANGED lastCut
  BY DEF OnRecvShardProgress
<1>2. MaxAppends \in Nat /\ msg.src \in Storages /\ \A sh \in Shards : msg.progress[sh] \in 0..MaxAppends
  BY LocalIdFacts DEF IndInv, TypeOK
<1>3. ASSUME NEW sh \in Shards, NEW st \in StorageNodes[sh]
      PROVE  /\ st \in Storages
             /\ storageProgress[sh][st] \in 0..MaxAppends /\ prog[sh][st] \in 0..MaxAppends
             /\ storageProgress[sh][st] <= prog[sh][st]
             /\ prog[sh][st] <= shardProgress[st][sh]
  <2>1. st \in Storages /\ storageProgress[sh][st] \in 0..MaxAppends
    BY SharedLogAssumption DEF IndInv, TypeOK
  <2>2. storageProgress[sh][st] <= shardProgress[st][sh] /\ msg.progress[sh] <= shardProgress[msg.src][sh]
    BY DEF IndInv, ProgressInv
  <2>3. CASE sh \in more /\ st = msg.src
    <3>1. prog[sh][st] = msg.progress[sh] /\ msg.progress[sh] > storageProgress[sh][st]
      BY <2>3
    <3> QED
      BY <1>2, <2>1, <2>2, <2>3, <3>1
  <2>4. CASE ~(sh \in more /\ st = msg.src)
    <3>1. prog[sh][st] = storageProgress[sh][st]
      BY <2>4
    <3> QED
      BY <1>2, <2>1, <2>2, <3>1
  <2> QED
    BY <2>3, <2>4
<1>4. \A sh \in Shards : prog[sh] \in [StorageNodes[sh] -> 0..MaxAppends]
  <2> SUFFICES ASSUME NEW sh \in Shards PROVE prog[sh] \in [StorageNodes[sh] -> 0..MaxAppends]
    OBVIOUS
  <2>1. prog[sh] = [st \in StorageNodes[sh] |-> prog[sh][st]]
    OBVIOUS
  <2>2. \A st \in StorageNodes[sh] : prog[sh][st] \in 0..MaxAppends
    BY <1>3
  <2> HIDE DEF prog
  <2> QED
    BY <2>1, <2>2
<1>5. DOMAIN prog = Shards /\ prog = [sh \in Shards |-> prog[sh]]
  OBVIOUS
<1>6. more \subseteq Shards
  OBVIOUS
<1> HIDE DEF prog, more, mine
<1>7. prog \in [Shards -> UNION {[S -> 0..MaxAppends] : S \in SUBSET Storages}]
  <2>1. \A sh \in Shards : StorageNodes[sh] \in SUBSET Storages
    BY SharedLogAssumption
  <2>2. \A sh \in Shards : prog[sh] \in UNION {[S -> 0..MaxAppends] : S \in SUBSET Storages}
    BY <1>4, <2>1
  <2> QED
    BY <1>5, <2>2
<1>8. NewlyDirty(prog, more) \subseteq Shards
  BY <1>6 DEF NewlyDirty
<1>9. TypeOK'
  <2>1. progressMsgs' \in SUBSET [src : Storages, progress : [Shards -> 0..MaxAppends]]
    BY <1>1 DEF IndInv, TypeOK
  <2>2. /\ storageProgress' \in [Shards -> UNION {[S -> 0..MaxAppends] : S \in SUBSET Storages}]
        /\ \A sh \in Shards : storageProgress'[sh] \in [StorageNodes[sh] -> 0..MaxAppends]
        /\ lastCut' \in [Shards -> 0..MaxAppends]
        /\ dirtyShards' \in SUBSET Shards
    BY <1>1, <1>4, <1>7, <1>8 DEF IndInv, TypeOK, primaryVars
  <2> QED
    BY <1>1, <2>1, <2>2 DEF IndInv, TypeOK, engineVars, storageVars, metaVars
<1>10. lastCut' = lastCut
  BY <1>1 DEF primaryVars
<1>11. CutsKept /\ LogInv'
  BY <1>1, <1>10, LogFrame DEF IndInv, TypeOK, metaVars
<1>12. ASSUME NEW sh \in Shards, NEW st \in StorageNodes[sh]
       PROVE  /\ lastCut[sh] <= storageProgress'[sh][st]
              /\ sh \in dirtyShards' => lastCut[sh] < storageProgress'[sh][st]
              /\ storageProgress'[sh][st] <= shardProgress[st][sh]
  <2>0. /\ lastCut[sh] <= storageProgress[sh][st]
        /\ sh \in dirtyShards => lastCut[sh] < storageProgress[sh][st]
        /\ storageProgress[sh][st] <= shardProgress[st][sh]
    BY DEF IndInv, ProgressInv
  <2>1. CASE UNCHANGED primaryVars
    BY <2>0, <2>1 DEF primaryVars
  <2>2. CASE storageProgress' = prog /\ dirtyShards' = dirtyShards \cup NewlyDirty(prog, more)
    <3>1. lastCut[sh] \in Nat /\ storageProgress[sh][st] \in Nat /\ prog[sh][st] \in Nat
          /\ storageProgress[sh][st] <= prog[sh][st] /\ prog[sh][st] <= shardProgress[st][sh]
      BY <1>2, <1>3 DEF IndInv, TypeOK
    <3>2. ASSUME sh \in NewlyDirty(prog, more) PROVE lastCut[sh] < prog[sh][st]
      <4>1. GetShardReplicatedPosition(prog, sh) > lastCut[sh]
        BY <3>2 DEF NewlyDirty
      <4>2. /\ GetShardReplicatedPosition(prog, sh) \in 0..MaxAppends
            /\ GetShardReplicatedPosition(prog, sh) <= prog[sh][st]
        BY <1>3, ReplicatedFacts
      <4> QED
        BY <1>2, <3>1, <4>1, <4>2
    <3>3. ASSUME sh \in dirtyShards PROVE lastCut[sh] < prog[sh][st]
      BY <2>0, <3>1, <3>3
    <3>4. lastCut[sh] <= prog[sh][st]
      BY <2>0, <3>1
    <3> QED
      BY <2>2, <3>1, <3>2, <3>3, <3>4
  <2> QED
    BY <1>1, <2>1, <2>2
<1>13. ProgressInv'
  BY <1>1, <1>10, <1>12 DEF IndInv, ProgressInv, engineVars, storageVars
<1>14. MetaInv'
  BY <1>1, MetaFrame DEF IndInv, metaVars
<1>15. StorageInv'
  BY <1>1, <1>11, StorageFrame DEF IndInv, Stays, storageVars, metaVars
<1>16. EngineInv'
  BY <1>1, <1>11, EngineFrame DEF IndInv, Stays, engineVars, metaVars
<1>17. FloorInv'
  BY <1>1, FloorFrame DEF IndInv, TypeOK, engineVars, metaVars
<1>18. fatal' = {}
  BY <1>1 DEF IndInv
<1> QED
  BY <1>9, <1>11, <1>13, <1>14, <1>15, <1>16, <1>17, <1>18 DEF IndInv

\* The primary cuts each dirty shard, from lastCut to where all its storage
\* nodes are, and gives the entries the next seqnums.
LEMMA NextCutFacts ==
    ASSUME IndInv, dirtyShards # {}, NEW o \in Orders(dirtyShards)
    PROVE  LET c == NextCut(o)
           IN  /\ c \in CutShapes /\ c.start = SeqnumEnd(Len(cuts))
               /\ Len(c.shards) \in 1..Cardinality(Shards)
               /\ \A i \in 1..Len(c.shards) :
                    /\ c.shards[i].shard \in dirtyShards
                    /\ c.shards[i].start = lastCut[c.shards[i].shard]
                    /\ c.shards[i].start + c.shards[i].delta = CutPosition[c.shards[i].shard]
               /\ \A sh \in dirtyShards : \E i \in 1..Len(c.shards) : c.shards[i].shard = sh
               /\ CutPosition \in [Shards -> 0..MaxAppends]
               /\ \A sh \in Shards : \A st \in StorageNodes[sh] :
                    CutPosition[sh] <= storageProgress[sh][st]
               /\ \A sh \in Shards : sh \notin dirtyShards => CutPosition[sh] = lastCut[sh]
<1> DEFINE c == NextCut(o)
           n == Cardinality(dirtyShards)
           R(sh) == GetShardReplicatedPosition(storageProgress, sh)
<1>1. /\ dirtyShards \in SUBSET Shards /\ MaxAppends \in Nat
      /\ lastCut \in [Shards -> 0..MaxAppends]
  BY LocalIdFacts DEF IndInv, TypeOK
<1>2. IsFiniteSet(Shards) /\ IsFiniteSet(dirtyShards) /\ n \in Nat /\ n > 0
      /\ Cardinality(Shards) \in Nat /\ n <= Cardinality(Shards)
  <2>1. IsFiniteSet(Shards)
    BY SharedLogAssumption
  <2>2. IsFiniteSet(dirtyShards) /\ n <= Cardinality(Shards)
    BY <1>1, <2>1, FS_Subset
  <2>3. n \in Nat /\ Cardinality(Shards) \in Nat /\ n # 0
    BY <2>1, <2>2, FS_CardinalityType, FS_EmptySet
  <2> HIDE DEF n
  <2> QED
    BY <2>1, <2>2, <2>3
<1>3. o \in [1..n -> dirtyShards] /\ \A i, j \in 1..n : o[i] = o[j] => i = j
  BY DEF Orders
<1>4. \A sh \in dirtyShards : \E i \in 1..n : o[i] = sh
  <2>1. o \in Injection(1..n, dirtyShards)
    BY <1>3 DEF Injection, IsInjective
  <2>2. Cardinality(1..n) = n
    <3>1. Cardinality(1..n) = IF 1 > n THEN 0 ELSE n - 1 + 1
      BY <1>2, FS_Interval
    <3> HIDE DEF n
    <3> QED
      BY <1>2, <3>1
  <2>3. o \in Surjection(1..n, dirtyShards)
    BY <1>2, <2>1, <2>2, FS_Injection
  <2> QED
    BY <2>3 DEF Surjection
<1> HIDE DEF n
<1>5. ASSUME NEW sh \in Shards
      PROVE  /\ lastCut[sh] \in Nat /\ R(sh) \in 0..MaxAppends
             /\ \A st \in StorageNodes[sh] : R(sh) <= storageProgress[sh][st]
             /\ sh \in dirtyShards => lastCut[sh] < R(sh)
  <2>1. /\ R(sh) \in 0..MaxAppends
        /\ \E st \in StorageNodes[sh] : R(sh) = storageProgress[sh][st]
        /\ \A st \in StorageNodes[sh] : R(sh) <= storageProgress[sh][st]
    <3>1. \A st \in StorageNodes[sh] : storageProgress[sh][st] \in 0..MaxAppends
      BY DEF IndInv, TypeOK
    <3> QED
      BY <3>1, ReplicatedFacts
  <2>2. sh \in dirtyShards => \A st \in StorageNodes[sh] : lastCut[sh] < storageProgress[sh][st]
    BY DEF IndInv, ProgressInv
  <2> HIDE DEF R
  <2> QED
    BY <1>1, <2>1, <2>2
<1>6. /\ DOMAIN o = 1..n
      /\ c = [start |-> NextSeqnum,
              shards |-> [i \in 1..n |->
                [shard |-> o[i], start |-> lastCut[o[i]], delta |-> R(o[i]) - lastCut[o[i]]]]]
  BY <1>3 DEF NextCut
<1>7. CutPosition = [sh \in Shards |-> IF sh \in dirtyShards THEN R(sh) ELSE lastCut[sh]]
  BY DEF CutPosition
<1> HIDE DEF c, R
<1>8. /\ c.start = NextSeqnum
      /\ c.shards \in [1..n -> Deltas] /\ DOMAIN c.shards = 1..n /\ Len(c.shards) = n
      /\ \A i \in 1..n : /\ c.shards[i].shard = o[i] /\ o[i] \in dirtyShards /\ o[i] \in Shards
                         /\ c.shards[i].start = lastCut[o[i]]
                         /\ c.shards[i].start + c.shards[i].delta = R(o[i])
  <2> DEFINE D(i) == [shard |-> o[i], start |-> lastCut[o[i]], delta |-> R(o[i]) - lastCut[o[i]]]
  <2>1. ASSUME NEW i \in 1..n
        PROVE  /\ o[i] \in dirtyShards /\ o[i] \in Shards /\ D(i) \in Deltas
               /\ D(i).shard = o[i] /\ D(i).start = lastCut[o[i]]
               /\ D(i).start + D(i).delta = R(o[i])
    <3>1. o[i] \in dirtyShards /\ o[i] \in Shards
      BY <1>1, <1>3
    <3>2. lastCut[o[i]] \in Nat /\ R(o[i]) \in Nat /\ lastCut[o[i]] < R(o[i])
      BY <1>1, <1>5, <3>1
    <3>3. R(o[i]) - lastCut[o[i]] \in Nat \ {0}
      BY <3>2
    <3>4. D(i).start + D(i).delta = R(o[i])
      BY <3>2
    <3> QED
      BY <3>1, <3>2, <3>3, <3>4 DEF Deltas
  <2>2. c.shards = [i \in 1..n |-> D(i)] /\ c.start = NextSeqnum
    BY <1>6
  <2> HIDE DEF D
  <2> QED
    BY <1>2, <2>1, <2>2
<1>9. NextSeqnum = SeqnumEnd(Len(cuts)) /\ NextSeqnum \in Nat
  <2>1. cuts \in Seq(CutShapes) /\ Len(cuts) \in Nat
    BY LenProperties DEF IndInv, TypeOK
  <2>2. cuts = <<>> <=> Len(cuts) = 0
    BY <2>1, EmptySeq
  <2>3. NextSeqnum = SeqnumEnd(Len(cuts))
    BY <2>2 DEF NextSeqnum, SeqnumEnd, CutEnd
  <2>4. Len(cuts) \in 0..Len(cuts) /\ \A k \in 0..Len(cuts) : SeqnumEnd(k) \in Nat
    BY <2>1, PrefixFacts DEF IndInv
  <2> QED
    BY <2>3, <2>4
<1>10. c \in CutShapes
  <2>1. c.shards \in UNION {[1..k -> Deltas] : k \in Nat \ {0}}
    BY <1>2, <1>8
  <2>2. c \in [start : Nat, shards : UNION {[1..k -> Deltas] : k \in Nat \ {0}}]
    BY <1>6, <1>8, <1>9, <2>1
  <2>3. \A i, j \in DOMAIN c.shards : c.shards[i].shard = c.shards[j].shard => i = j
    BY <1>3, <1>8
  <2> QED
    BY <2>2, <2>3 DEF CutShapes
<1>11. \A sh \in dirtyShards : \E i \in 1..Len(c.shards) : c.shards[i].shard = sh
  BY <1>4, <1>8
<1>12. \A i \in 1..Len(c.shards) :
         /\ c.shards[i].shard \in dirtyShards
         /\ c.shards[i].start = lastCut[c.shards[i].shard]
         /\ c.shards[i].start + c.shards[i].delta = CutPosition[c.shards[i].shard]
  BY <1>7, <1>8
<1>13. CutPosition \in [Shards -> 0..MaxAppends]
  BY <1>1, <1>5, <1>7
<1>14. \A sh \in Shards : \A st \in StorageNodes[sh] : CutPosition[sh] <= storageProgress[sh][st]
  BY <1>5, <1>7 DEF IndInv, ProgressInv
<1>15. \A sh \in Shards : sh \notin dirtyShards => CutPosition[sh] = lastCut[sh]
  BY <1>7
<1>16. Len(c.shards) \in 1..Cardinality(Shards)
  BY <1>2, <1>8
<1> QED
  BY <1>8, <1>9, <1>10, <1>11, <1>12, <1>13, <1>14, <1>15, <1>16 DEF c

\* MarkNextCut: the log grows by the new cut.
LEMMA MarkStep ==
    ASSUME IndInv, MarkNextCut
    PROVE  IndInv'
<1>1. PICK o \in Orders(dirtyShards) : cuts' = Append(cuts, NextCut(o))
  BY DEF MarkNextCut
<1> DEFINE c == NextCut(o)
<1>2. /\ dirtyShards # {} /\ cuts' = Append(cuts, c) /\ lastCut' = CutPosition /\ dirtyShards' = {}
      /\ UNCHANGED <<engineVars, storageVars, storageProgress, frozen, committed, position,
                     sealed, viewFinalized, fatal, netVars>>
  BY <1>1 DEF MarkNextCut
<1>3. /\ c \in CutShapes /\ c.start = SeqnumEnd(Len(cuts))
      /\ \A i \in 1..Len(c.shards) :
           /\ c.shards[i].start = lastCut[c.shards[i].shard]
           /\ c.shards[i].start + c.shards[i].delta = CutPosition[c.shards[i].shard]
      /\ \A sh \in dirtyShards : \E i \in 1..Len(c.shards) : c.shards[i].shard = sh
      /\ CutPosition \in [Shards -> 0..MaxAppends]
      /\ \A sh \in Shards : \A st \in StorageNodes[sh] : CutPosition[sh] <= storageProgress[sh][st]
      /\ \A sh \in Shards : sh \notin dirtyShards => CutPosition[sh] = lastCut[sh]
  BY <1>2, NextCutFacts
<1> HIDE DEF c
<1>4. cuts \in Seq(CutShapes) /\ lastCut \in [Shards -> 0..MaxAppends] /\ LogInv
  BY DEF IndInv, TypeOK
<1>5. /\ cuts' \in Seq(CutShapes) /\ Len(cuts') = Len(cuts) + 1 /\ Len(cuts) \in Nat
      /\ SeqnumEnd(Len(cuts))' = CutEnd(c)
      /\ \A a, b \in 0..Len(cuts) : EntriesOf(a, b)' = EntriesOf(a, b)
      /\ AllEntries' = AllEntries \cup CutEntries(c)
  BY <1>2, <1>3, <1>4, CutsGrow
<1>6. CutsKept
  <2>1. 0 \in 0..Len(cuts) /\ Len(cuts) <= Len(cuts')
    BY <1>5
  <2> QED
    BY <1>5, <2>1 DEF CutsKept
<1>7. LogInv'
  <2>1. lastCut' \in [Shards -> 0..MaxAppends]
    BY <1>2, <1>3
  <2>2. \A i \in 1..Len(c.shards) :
          /\ c.shards[i].start = lastCut[c.shards[i].shard]
          /\ c.shards[i].start + c.shards[i].delta = lastCut'[c.shards[i].shard]
    BY <1>2, <1>3
  <2>3. \A sh \in Shards : lastCut'[sh] = lastCut[sh]
          \/ \E i \in 1..Len(c.shards) : c.shards[i].shard = sh
    BY <1>2, <1>3
  <2>4. c \in CutShapes /\ c.start = SeqnumEnd(Len(cuts)) /\ cuts' = Append(cuts, c)
    BY <1>2, <1>3
  <2> QED
    BY <1>4, <2>1, <2>2, <2>3, <2>4, LogGrows
<1>8. TypeOK'
  <2>1. /\ committed' \in 0..Len(cuts') /\ position' \in [Nodes -> 0..Len(cuts')]
        /\ sealed' \in SUBSET (0..Len(cuts'))
    <3>1. 0..Len(cuts) \subseteq 0..Len(cuts')
      BY <1>5
    <3> HIDE DEF c
    <3> QED
      BY <1>2, <3>1 DEF IndInv, TypeOK
  <2>2. lastCut' \in [Shards -> 0..MaxAppends] /\ dirtyShards' \in SUBSET Shards
    BY <1>2, <1>3
  <2> QED
    BY <1>2, <1>5, <2>1, <2>2 DEF IndInv, TypeOK, engineVars, storageVars, netVars
<1>9. ProgressInv'
  <2>1. \A sh \in Shards : \A st \in StorageNodes[sh] : lastCut'[sh] <= storageProgress[sh][st]
    BY <1>2, <1>3
  <2> QED
    BY <1>2, <2>1 DEF IndInv, ProgressInv, engineVars, storageVars, netVars
<1>10. MetaInv'
  BY <1>2, MetaFrame DEF IndInv
<1>11. StorageInv'
  BY <1>2, <1>6, StorageFrame DEF IndInv, Stays, storageVars
<1>12. EngineInv'
  BY <1>2, <1>6, EngineFrame DEF IndInv, Stays, engineVars
<1>13. FloorInv'
  <2>1. /\ CutEnd(c) \in Nat /\ c.start \in Nat /\ c.start < CutEnd(c)
        /\ \A e \in CutEntries(c) : e.seqnum \in Nat /\ c.start <= e.seqnum
    BY <1>3, CutSeqnums, CutShapeFacts
  <2> SUFFICES ASSUME NEW sh \in Shards
               PROVE  /\ Len(floor[sh]) = nextId[sh]
                      /\ \A i \in 1..nextId[sh] : floor[sh][i] <= CutEnd(c)
                      /\ \A e \in AllEntries \cup CutEntries(c) : e.localid.shard = sh =>
                           floor[sh][e.localid.id + 1] <= e.seqnum
    BY <1>2, <1>5 DEF FloorInv, engineVars
  <2>2. /\ Len(floor[sh]) = nextId[sh] /\ floor[sh] \in Seq(Nat) /\ nextId[sh] \in Nat
        /\ \A i \in 1..nextId[sh] : floor[sh][i] <= c.start
        /\ \A e \in AllEntries : e.localid.shard = sh => floor[sh][e.localid.id + 1] <= e.seqnum
    BY <1>3, LocalIdFacts DEF IndInv, FloorInv, TypeOK
  <2>3. \A i \in 1..nextId[sh] : floor[sh][i] \in Nat
    BY <2>2, ElementOfSeq
  <2>4. \A i \in 1..nextId[sh] : floor[sh][i] <= CutEnd(c)
    BY <2>1, <2>2, <2>3
  <2>5. ASSUME NEW e \in CutEntries(c), e.localid.shard = sh
        PROVE  floor[sh][e.localid.id + 1] <= e.seqnum
    <3>1. e \in AllEntries'
      BY <1>5
    <3>2. e.localid.id < lastCut'[sh] /\ e \in Entries'
      BY <1>7, <2>5, <3>1 DEF LogInv
    <3>3. e.localid.id \in Nat
      BY <3>2, LocalIdFacts DEF Entries, LocalIds
    <3>4. lastCut'[sh] \in Nat /\ lastCut'[sh] <= nextId[sh]
      <4>1. PICK st \in StorageNodes[sh] : st \in Storages
        BY SharedLogAssumption
      <4>2. /\ CutPosition[sh] <= storageProgress[sh][st]
            /\ storageProgress[sh][st] <= shardProgress[st][sh]
            /\ shardProgress[st][sh] <= nextId[sh]
        BY <1>3, <4>1 DEF IndInv, ProgressInv
      <4>3. /\ CutPosition[sh] \in Nat /\ shardProgress[st][sh] \in Nat
            /\ storageProgress[sh][st] \in Nat
        BY <1>3, <4>1, LocalIdFacts DEF IndInv, TypeOK
      <4> QED
        BY <1>2, <2>2, <4>2, <4>3
    <3>5. e.localid.id + 1 \in 1..nextId[sh]
      BY <2>2, <3>2, <3>3, <3>4
    <3>6. floor[sh][e.localid.id + 1] \in Nat /\ floor[sh][e.localid.id + 1] <= c.start
      BY <2>2, <2>3, <3>5
    <3>7. e.seqnum \in Nat /\ c.start <= e.seqnum
      BY <2>1
    <3> QED
      BY <2>1, <3>6, <3>7
  <2> QED
    BY <2>2, <2>4, <2>5
<1>14. fatal' = {}
  BY <1>2 DEF IndInv
<1> QED
  BY <1>7, <1>8, <1>9, <1>10, <1>11, <1>12, <1>13, <1>14 DEF IndInv

-----------------------------------------------------------------------------
(* Cuts applied by a storage node or an engine. *)

\* Where node n may move: to the cuts it applies with OnRecvNewMetaLogs, or to
\* the end of the finalized view.  A node that is finalized does not move.
LEMMA MoveFacts ==
    ASSUME IndInv, NEW n \in Nodes, NEW to,
           \/ to \in (position[n] + 1)..committed
           \/ to \in sealed /\ n \notin viewFinalized
    PROVE  /\ position[n] \in 0..Len(cuts) /\ to \in 0..Len(cuts) /\ position[n] <= to
           /\ n \notin viewFinalized
           /\ to <= committed \/ to \in sealed
<1>1. /\ position[n] \in 0..Len(cuts) /\ committed \in 0..Len(cuts) /\ Len(cuts) \in Nat
      /\ sealed \in SUBSET (0..Len(cuts))
  BY LenProperties DEF IndInv, TypeOK
<1>2. /\ \A p, q \in sealed : p = q
      /\ \A p \in sealed : committed <= p
      /\ position[n] <= committed \/ \E p \in sealed : position[n] <= p
      /\ n \in viewFinalized => position[n] \in sealed
  BY DEF IndInv, MetaInv
<1>3. CASE to \in (position[n] + 1)..committed
  <2>1. position[n] < to /\ to <= committed /\ to \in 0..Len(cuts) /\ position[n] <= to
    BY <1>1, <1>3
  <2>2. n \notin viewFinalized
    <3> SUFFICES ASSUME n \in viewFinalized PROVE FALSE
      OBVIOUS
    <3>1. committed <= position[n]
      BY <1>2
    <3> QED
      BY <1>1, <2>1, <3>1
  <2> QED
    BY <1>1, <2>1, <2>2
<1>4. CASE to \in sealed /\ n \notin viewFinalized
  <2>1. committed <= to /\ to \in 0..Len(cuts)
    BY <1>1, <1>2, <1>4
  <2>2. position[n] <= to
    BY <1>1, <1>2, <1>4, <2>1
  <2> QED
    BY <1>1, <1>4, <2>1, <2>2
<1> QED
  BY <1>3, <1>4

\* MetaInv of such a move.
LEMMA MoveMeta ==
    ASSUME IndInv, NEW n \in Nodes, NEW to \in 0..Len(cuts), n \notin viewFinalized,
           to <= committed \/ to \in sealed,
           position' = [position EXCEPT ![n] = to], UNCHANGED <<cuts, committed, sealed>>,
           \/ UNCHANGED viewFinalized
           \/ to \in sealed /\ viewFinalized' = viewFinalized \cup {n}
    PROVE  /\ MetaInv' /\ position' \in [Nodes -> 0..Len(cuts)]
           /\ viewFinalized' \in SUBSET Nodes
           /\ \A m \in Nodes : m # n => Stays(m)
           /\ position'[n] = to
<1>1. position \in [Nodes -> 0..Len(cuts)] /\ viewFinalized \in SUBSET Nodes
  BY DEF IndInv, TypeOK
<1>2. /\ position'[n] = to /\ \A m \in Nodes : m # n => position'[m] = position[m]
      /\ position' \in [Nodes -> 0..Len(cuts)] /\ viewFinalized' \in SUBSET Nodes
      /\ \A m \in Nodes : m # n => (m \in viewFinalized' <=> m \in viewFinalized)
  BY <1>1
<1>3. ASSUME NEW m \in Nodes PROVE position'[m] <= committed \/ \E p \in sealed : position'[m] <= p
  <2>1. CASE m = n
    <3>1. to \in Int
      OBVIOUS
    <3> QED
      BY <1>2, <2>1, <3>1
  <2>2. CASE m # n
    BY <1>2, <2>2 DEF IndInv, MetaInv
  <2> QED
    BY <2>1, <2>2
<1>4. ASSUME NEW m \in viewFinalized' PROVE position'[m] \in sealed
  <2>1. CASE m = n
    BY <1>2, <1>4, <2>1
  <2>2. CASE m # n
    <3>1. m \in viewFinalized /\ m \in Nodes
      BY <1>1, <1>2, <1>4, <2>2
    <3> QED
      BY <1>2, <2>2, <3>1 DEF IndInv, MetaInv
  <2> QED
    BY <2>1, <2>2
<1>5. MetaInv'
  BY <1>3, <1>4 DEF IndInv, MetaInv
<1> QED
  BY <1>2, <1>5 DEF Stays

\* An entry of the log is held by every storage node of its shard, and was
\* issued: a cut covers only what all of them reported.
LEMMA CutIsHeld ==
    ASSUME IndInv, NEW e \in AllEntries
    PROVE  /\ e.localid \in LocalIds /\ e.localid.shard \in Shards
           /\ e.localid = [shard |-> e.localid.shard, id |-> e.localid.id]
           /\ e.localid \in Issued
           /\ \A st \in StorageNodes[e.localid.shard] :
                e.localid.id \in 0..(shardProgress[st][e.localid.shard] - 1)
<1> DEFINE sh == e.localid.shard
           i  == e.localid.id
<1>1. e.localid \in LocalIds /\ i < lastCut[sh]
  BY DEF IndInv, LogInv, Entries
<1>2. sh \in Shards /\ i \in Nat /\ e.localid = [shard |-> sh, id |-> i]
  BY <1>1, LocalIdFacts
<1> HIDE DEF sh, i
<1>3. ASSUME NEW st \in StorageNodes[sh] PROVE i \in 0..(shardProgress[st][sh] - 1)
  <2>1. st \in Storages
    BY <1>2, SharedLogAssumption
  <2>2. /\ lastCut[sh] <= storageProgress[sh][st]
        /\ storageProgress[sh][st] <= shardProgress[st][sh]
    BY <1>2 DEF IndInv, ProgressInv
  <2>3. lastCut[sh] \in Nat /\ storageProgress[sh][st] \in Nat /\ shardProgress[st][sh] \in Nat
    BY <1>2, <2>1, LocalIdFacts DEF IndInv, TypeOK
  <2> QED
    BY <1>1, <1>2, <2>2, <2>3
<1>4. i < nextId[sh]
  <2>1. lastCut[sh] \in Nat /\ nextId[sh] \in Nat /\ lastCut[sh] <= nextId[sh]
    BY <1>2, CutIsIssued
  <2> QED
    BY <1>1, <1>2, <2>1
<1>5. e.localid \in Issued
  BY <1>1, <1>4 DEF Issued, sh, i
<1> QED
  BY <1>1, <1>2, <1>3, <1>5 DEF sh, i

\* LogStorage::OnNewLogs finds every entry it is asked for.
LEMMA StorageApplies ==
    ASSUME IndInv, NEW st \in Storages, NEW to \in 0..Len(cuts), position[st] <= to,
           st \notin viewFinalized
    PROVE  LET mine == {e \in EntriesOf(position[st], to) : st \in StorageNodes[e.localid.shard]}
               ids  == {e.localid : e \in mine}
           IN  /\ ids \subseteq pendingEntries[st]
               /\ mine \subseteq Entries
               /\ liveEntries[st] \cup mine =
                    {e \in EntriesOf(0, to) : st \in StorageNodes[e.localid.shard]}
               /\ \A sh \in Shards : st \in StorageNodes[sh] =>
                    \A i \in 0..(shardProgress[st][sh] - 1) :
                      \/ [shard |-> sh, id |-> i] \in pendingEntries[st] \ ids
                      \/ Has(EntriesOf(0, to), [shard |-> sh, id |-> i])
<1> DEFINE a    == position[st]
           mine == {e \in EntriesOf(a, to) : st \in StorageNodes[e.localid.shard]}
           ids  == {e.localid : e \in mine}
<1>1. a \in 0..Len(cuts)
  BY DEF IndInv, TypeOK, Nodes
<1>2. /\ EntriesOf(0, to) = EntriesOf(0, a) \cup EntriesOf(a, to)
      /\ EntriesOf(0, to) \subseteq AllEntries
      /\ \A e \in EntriesOf(a, to) : ~Has(EntriesOf(0, a), e.localid)
  <2>1. a <= to /\ cuts \in Seq(CutShapes) /\ LogInv
    BY DEF IndInv, TypeOK
  <2> HIDE DEF a
  <2> QED
    BY <1>1, <2>1, NewEntries
<1>3. /\ liveEntries[st] = {e \in EntriesOf(0, a) : st \in StorageNodes[e.localid.shard]}
      /\ \A sh \in Shards : st \in StorageNodes[sh] =>
           \A i \in 0..(shardProgress[st][sh] - 1) :
             \/ [shard |-> sh, id |-> i] \in pendingEntries[st]
             \/ Has(EntriesOf(0, a), [shard |-> sh, id |-> i])
  BY DEF IndInv, StorageInv
<1> HIDE DEF a
<1>4. ASSUME NEW e \in mine PROVE e.localid \in pendingEntries[st] /\ e \in Entries
  <2>1. e \in AllEntries /\ st \in StorageNodes[e.localid.shard] /\ ~Has(EntriesOf(0, a), e.localid)
    BY <1>2
  <2>2. /\ e.localid.shard \in Shards
        /\ e.localid = [shard |-> e.localid.shard, id |-> e.localid.id]
        /\ e.localid.id \in 0..(shardProgress[st][e.localid.shard] - 1)
    BY <2>1, CutIsHeld
  <2>3. e.localid \in pendingEntries[st]
    BY <1>3, <2>1, <2>2
  <2> QED
    BY <2>1, <2>3 DEF IndInv, LogInv
<1>5. liveEntries[st] \cup mine = {e \in EntriesOf(0, to) : st \in StorageNodes[e.localid.shard]}
  BY <1>2, <1>3
<1>6. ASSUME NEW sh \in Shards, st \in StorageNodes[sh], NEW i \in 0..(shardProgress[st][sh] - 1)
      PROVE  \/ [shard |-> sh, id |-> i] \in pendingEntries[st] \ ids
             \/ Has(EntriesOf(0, to), [shard |-> sh, id |-> i])
  <2>1. [shard |-> sh, id |-> i] \in ids => Has(EntriesOf(0, to), [shard |-> sh, id |-> i])
    BY <1>2 DEF Has
  <2>2. Has(EntriesOf(0, a), [shard |-> sh, id |-> i]) => Has(EntriesOf(0, to), [shard |-> sh, id |-> i])
    BY <1>2 DEF Has
  <2> HIDE DEF ids
  <2> QED
    BY <1>3, <1>6, <2>1, <2>2
<1>7. ids \subseteq pendingEntries[st] /\ mine \subseteq Entries
  BY <1>4
<1> QED
  BY <1>5, <1>6, <1>7 DEF a

\* StorageInv of a storage node that has applied cuts.
LEMMA StorageMoves ==
    ASSUME IndInv, NEW st \in Storages, NEW to \in 0..Len(cuts), position[st] <= to,
           st \notin viewFinalized, position'[st] = to,
           \A t \in Storages : t # st => Stays(t), UNCHANGED <<cuts, shardProgress>>,
           liveEntries' = [liveEntries EXCEPT ![st] = liveEntries[st] \cup
             {e \in EntriesOf(position[st], to) : st \in StorageNodes[e.localid.shard]}],
           \/ /\ st \in viewFinalized'
              /\ pendingEntries' = [pendingEntries EXCEPT ![st] = {}]
           \/ pendingEntries' = [pendingEntries EXCEPT ![st] = pendingEntries[st] \
                {e.localid : e \in {f \in EntriesOf(position[st], to) :
                                      st \in StorageNodes[f.localid.shard]}}]
    PROVE  /\ StorageInv' /\ liveEntries' \in [Storages -> SUBSET Entries]
           /\ pendingEntries' \in [Storages -> SUBSET LocalIds]
           /\ \A t \in Storages : pendingEntries'[t] \subseteq pendingEntries[t]
<1> DEFINE mine == {e \in EntriesOf(position[st], to) : st \in StorageNodes[e.localid.shard]}
           ids  == {e.localid : e \in mine}
<1>1. /\ mine \subseteq Entries
      /\ liveEntries[st] \cup mine =
           {e \in EntriesOf(0, to) : st \in StorageNodes[e.localid.shard]}
      /\ \A sh \in Shards : st \in StorageNodes[sh] =>
           \A i \in 0..(shardProgress[st][sh] - 1) :
             \/ [shard |-> sh, id |-> i] \in pendingEntries[st] \ ids
             \/ Has(EntriesOf(0, to), [shard |-> sh, id |-> i])
  BY StorageApplies
<1> HIDE DEF mine, ids
<1>2. liveEntries' = [liveEntries EXCEPT ![st] = liveEntries[st] \cup mine]
  BY DEF mine
<1>3. \/ st \in viewFinalized' /\ pendingEntries' = [pendingEntries EXCEPT ![st] = {}]
      \/ pendingEntries' = [pendingEntries EXCEPT ![st] = pendingEntries[st] \ ids]
  BY DEF mine, ids
<1>4. /\ liveEntries \in [Storages -> SUBSET Entries] /\ pendingEntries \in [Storages -> SUBSET LocalIds]
  BY DEF IndInv, TypeOK
<1>5. /\ liveEntries' \in [Storages -> SUBSET Entries]
      /\ liveEntries'[st] = {e \in EntriesOf(0, to) : st \in StorageNodes[e.localid.shard]}
      /\ \A t \in Storages : t # st => liveEntries'[t] = liveEntries[t]
  BY <1>1, <1>2, <1>4
<1>6. /\ pendingEntries' \in [Storages -> SUBSET LocalIds]
      /\ \A t \in Storages : pendingEntries'[t] \subseteq pendingEntries[t]
      /\ \A t \in Storages : t # st => pendingEntries'[t] = pendingEntries[t]
      /\ st \notin viewFinalized' => pendingEntries'[st] = pendingEntries[st] \ ids
  BY <1>3, <1>4
<1>8. ASSUME NEW t \in Storages
      PROVE  /\ liveEntries'[t] =
                  {e \in EntriesOf(0, position'[t]) : t \in StorageNodes[e.localid.shard]}
             /\ t \notin viewFinalized' =>
                  \A sh \in Shards : t \in StorageNodes[sh] =>
                    \A i \in 0..(shardProgress[t][sh] - 1) :
                      \/ [shard |-> sh, id |-> i] \in pendingEntries'[t]
                      \/ Has(EntriesOf(0, position'[t]), [shard |-> sh, id |-> i])
  <2>1. CASE t = st
    BY <1>1, <1>5, <1>6, <2>1
  <2>2. CASE t # st
    <3>1. position'[t] = position[t] /\ (t \in viewFinalized' <=> t \in viewFinalized)
      BY <2>2 DEF Stays
    <3> QED
      BY <1>5, <1>6, <2>2, <3>1 DEF IndInv, StorageInv
  <2> QED
    BY <2>1, <2>2
<1>9. StorageInv'
  <2>1. \A t \in Storages : EntriesOf(0, position[t])' = EntriesOf(0, position'[t])
    BY DEF EntriesOf
  <2> QED
    BY <1>8, <2>1 DEF StorageInv, Has
<1> QED
  BY <1>5, <1>6, <1>9

\* LogProducer::OnNewLogs finds every append it is asked for.
LEMMA EngineApplies ==
    ASSUME IndInv, NEW sh \in Shards, NEW to \in 0..Len(cuts), position[sh] <= to,
           sh \notin viewFinalized
    PROVE  LET mine == {e \in EntriesOf(position[sh], to) : e.localid.shard = sh}
               ids  == {e.localid : e \in mine}
           IN  /\ ids \subseteq pendingAppends[sh]
               /\ mine \subseteq Entries
               /\ acked[sh] \cup mine = {e \in EntriesOf(0, to) : e.localid.shard = sh}
               /\ pendingAppends[sh] \ ids =
                    {l \in Issued : l.shard = sh /\ ~Has(EntriesOf(0, to), l)}
<1> DEFINE a    == position[sh]
           mine == {e \in EntriesOf(a, to) : e.localid.shard = sh}
           ids  == {e.localid : e \in mine}
<1>1. a \in 0..Len(cuts)
  BY DEF IndInv, TypeOK, Nodes
<1>2. /\ EntriesOf(0, to) = EntriesOf(0, a) \cup EntriesOf(a, to)
      /\ EntriesOf(0, to) \subseteq AllEntries
      /\ \A e \in EntriesOf(a, to) : ~Has(EntriesOf(0, a), e.localid)
  <2>1. a <= to /\ cuts \in Seq(CutShapes) /\ LogInv
    BY DEF IndInv, TypeOK
  <2> HIDE DEF a
  <2> QED
    BY <1>1, <2>1, NewEntries
<1>3. /\ acked[sh] = {e \in EntriesOf(0, a) : e.localid.shard = sh}
      /\ pendingAppends[sh] = {l \in Issued : l.shard = sh /\ ~Has(EntriesOf(0, a), l)}
  BY DEF IndInv, EngineInv
<1> HIDE DEF a
<1>4. ASSUME NEW e \in mine PROVE e.localid \in pendingAppends[sh] /\ e \in Entries
  <2>1. e \in AllEntries /\ e.localid.shard = sh /\ ~Has(EntriesOf(0, a), e.localid)
    BY <1>2
  <2>2. e.localid \in Issued
    BY <2>1, CutIsHeld
  <2>3. e.localid \in pendingAppends[sh]
    BY <1>3, <2>1, <2>2
  <2> QED
    BY <2>1, <2>3 DEF IndInv, LogInv
<1>5. acked[sh] \cup mine = {e \in EntriesOf(0, to) : e.localid.shard = sh}
  BY <1>2, <1>3
<1>6. ASSUME NEW l, l.shard = sh
      PROVE  Has(EntriesOf(0, to), l) <=> Has(EntriesOf(0, a), l) \/ l \in ids
  BY <1>2, <1>6 DEF Has
<1>7. pendingAppends[sh] \ ids = {l \in Issued : l.shard = sh /\ ~Has(EntriesOf(0, to), l)}
  <2> HIDE DEF ids
  <2> QED
    BY <1>3, <1>6
<1>8. ids \subseteq pendingAppends[sh] /\ mine \subseteq Entries
  BY <1>4
<1> QED
  BY <1>5, <1>7, <1>8 DEF a

\* EngineInv of an engine that has applied cuts.
LEMMA EngineMoves ==
    ASSUME IndInv, NEW sh \in Shards, NEW to \in 0..Len(cuts), position[sh] <= to,
           sh \notin viewFinalized, position'[sh] = to,
           \A x \in Shards : x # sh => Stays(x), UNCHANGED <<cuts, nextId, active>>,
           acked' = [acked EXCEPT ![sh] = acked[sh] \cup
             {e \in EntriesOf(position[sh], to) : e.localid.shard = sh}],
           NEW rest, rest = pendingAppends[sh] \
             {e.localid : e \in {f \in EntriesOf(position[sh], to) : f.localid.shard = sh}},
           \/ /\ sh \in viewFinalized' /\ ~active[sh]
              /\ discarded' = [discarded EXCEPT ![sh] = rest]
              /\ pendingAppends' = [pendingAppends EXCEPT ![sh] = {}]
           \/ /\ sh \notin viewFinalized' /\ UNCHANGED discarded
              /\ pendingAppends' = [pendingAppends EXCEPT ![sh] = rest]
    PROVE  /\ EngineInv' /\ acked' \in [Shards -> SUBSET Entries]
           /\ pendingAppends' \in [Shards -> SUBSET LocalIds]
           /\ discarded' \in [Shards -> SUBSET LocalIds]
<1> DEFINE mine == {e \in EntriesOf(position[sh], to) : e.localid.shard = sh}
           Open(x, k) == {l \in Issued : l.shard = x /\ ~Has(EntriesOf(0, k), l)}
<1>1. /\ mine \subseteq Entries
      /\ acked[sh] \cup mine = {e \in EntriesOf(0, to) : e.localid.shard = sh}
      /\ rest = Open(sh, to)
  BY EngineApplies
<1>2. acked' = [acked EXCEPT ![sh] = acked[sh] \cup mine]
  OBVIOUS
<1>3. /\ acked \in [Shards -> SUBSET Entries] /\ pendingAppends \in [Shards -> SUBSET LocalIds]
      /\ discarded \in [Shards -> SUBSET LocalIds]
  BY DEF IndInv, TypeOK
<1>4. rest \in SUBSET LocalIds
  BY <1>3
<1> HIDE DEF mine
<1>5. /\ acked' \in [Shards -> SUBSET Entries]
      /\ acked'[sh] = {e \in EntriesOf(0, to) : e.localid.shard = sh}
      /\ \A x \in Shards : x # sh => acked'[x] = acked[x]
  BY <1>1, <1>2, <1>3
<1>6. /\ pendingAppends' \in [Shards -> SUBSET LocalIds]
      /\ discarded' \in [Shards -> SUBSET LocalIds]
      /\ \A x \in Shards : x # sh => pendingAppends'[x] = pendingAppends[x] /\ discarded'[x] = discarded[x]
      /\ sh \notin viewFinalized' => pendingAppends'[sh] = rest /\ discarded'[sh] = discarded[sh]
      /\ sh \in viewFinalized' => pendingAppends'[sh] = {} /\ discarded'[sh] = rest /\ ~active[sh]
  BY <1>3, <1>4
<1>7. discarded[sh] = {}
  BY DEF IndInv, EngineInv
<1>8. ASSUME NEW x \in Shards
      PROVE  /\ acked'[x] = {e \in EntriesOf(0, position'[x]) : e.localid.shard = x}
             /\ x \notin viewFinalized' => pendingAppends'[x] = Open(x, position'[x]) /\ discarded'[x] = {}
             /\ x \in viewFinalized' =>
                  pendingAppends'[x] = {} /\ discarded'[x] = Open(x, position'[x]) /\ ~active[x]
  <2>1. CASE x = sh
    <3> HIDE DEF Open
    <3> QED
      BY <1>1, <1>5, <1>6, <1>7, <2>1
  <2>2. CASE x # sh
    <3>1. position'[x] = position[x] /\ (x \in viewFinalized' <=> x \in viewFinalized)
      BY <2>2 DEF Stays
    <3> QED
      BY <1>5, <1>6, <2>2, <3>1 DEF IndInv, EngineInv
  <2> QED
    BY <2>1, <2>2
<1>9. Issued' = Issued /\ \A x \in Shards : EntriesOf(0, position[x])' = EntriesOf(0, position'[x])
  BY DEF EntriesOf, Issued, LocalIds
<1>10. EngineInv'
  BY <1>8, <1>9 DEF EngineInv, Has
<1> QED
  BY <1>5, <1>6, <1>10

LocalIdsOf(E) == {e.localid : e \in E}

\* The entries storage node st applies on its way to cut `to', and the step that does it.
StorageMine(st, to) == {e \in EntriesOf(position[st], to) : st \in StorageNodes[e.localid.shard]}
StorageMoved(st, to) ==
    /\ \/ to \in (position[st] + 1)..committed
       \/ to \in sealed /\ st \notin viewFinalized
    /\ position' = [position EXCEPT ![st] = to]
    /\ liveEntries' = [liveEntries EXCEPT ![st] = liveEntries[st] \cup StorageMine(st, to)]
    /\ \/ /\ to \in sealed /\ viewFinalized' = viewFinalized \cup {st}
          /\ pendingEntries' = [pendingEntries EXCEPT ![st] = {}]
       \/ /\ UNCHANGED viewFinalized
          /\ pendingEntries' = [pendingEntries EXCEPT ![st] = pendingEntries[st] \ LocalIdsOf(StorageMine(st, to))]
    /\ UNCHANGED <<engineVars, shardProgress, progressDirty, primaryVars, frozen,
                   cuts, committed, sealed, fatal, netVars>>

\* No entry is missing, so this is what the two actions do.
LEMMA StorageMoveShape ==
    ASSUME IndInv, NEW st \in Storages, StorageOnRecvNewMetaLogs(st) \/ StorageOnViewFinalized(st)
    PROVE  \E to : StorageMoved(st, to)
<1> DEFINE Mine(to) == {e \in EntriesOf(position[st], to) : st \in StorageNodes[e.localid.shard]}
           Ids(to)  == {e.localid : e \in Mine(to)}
<1>1. st \in Nodes
  BY DEF Nodes
<1>2. CASE StorageOnRecvNewMetaLogs(st)
  <2>1. PICK to \in (position[st] + 1)..committed :
          /\ position' = [position EXCEPT ![st] = to]
          /\ StorageOnNewLogs(st, EntriesOf(position[st], to))
    BY <1>2 DEF StorageOnRecvNewMetaLogs
  <2>2. /\ to \in 0..Len(cuts) /\ position[st] <= to /\ st \notin viewFinalized
    BY <1>1, MoveFacts
  <2>3. Ids(to) \subseteq pendingEntries[st]
    BY <2>2, StorageApplies
  <2>4. /\ pendingEntries' = [pendingEntries EXCEPT ![st] = pendingEntries[st] \ Ids(to)]
        /\ liveEntries' = [liveEntries EXCEPT ![st] = liveEntries[st] \cup Mine(to)]
        /\ UNCHANGED fatal
    BY <2>1, <2>3 DEF StorageOnNewLogs
  <2> QED
    BY <1>2, <2>1, <2>4 DEF StorageOnRecvNewMetaLogs, StorageMoved, StorageMine, LocalIdsOf
<1>3. CASE StorageOnViewFinalized(st)
  <2>1. PICK p \in sealed :
          /\ st \notin viewFinalized
          /\ position' = [position EXCEPT ![st] = p]
          /\ Ids(p) \subseteq pendingEntries[st] =>
               /\ pendingEntries' = [pendingEntries EXCEPT ![st] = {}]
               /\ liveEntries' = [liveEntries EXCEPT ![st] = liveEntries[st] \cup Mine(p)]
               /\ viewFinalized' = viewFinalized \cup {st}
               /\ UNCHANGED fatal
          /\ UNCHANGED <<engineVars, shardProgress, progressDirty, primaryVars, frozen,
                         cuts, committed, sealed, netVars>>
    BY <1>3 DEF StorageOnViewFinalized
  <2>2. /\ p \in 0..Len(cuts) /\ position[st] <= p
    BY <1>1, <2>1, MoveFacts
  <2>3. Ids(p) \subseteq pendingEntries[st]
    BY <2>1, <2>2, StorageApplies
  <2> QED
    BY <2>1, <2>3 DEF StorageMoved, StorageMine, LocalIdsOf
<1> QED
  BY <1>2, <1>3

\* Storage::OnRecvNewMetaLogs and Storage::OnViewFinalized.
LEMMA StorageStep ==
    ASSUME IndInv, NEW st \in Storages, StorageOnRecvNewMetaLogs(st) \/ StorageOnViewFinalized(st)
    PROVE  IndInv'
<1>1. /\ st \in Nodes /\ \A sh \in Shards : sh # st /\ sh \in Nodes
      /\ \A t \in Storages : t \in Nodes
  BY SharedLogAssumption DEF Nodes
<1>3. PICK to : StorageMoved(st, to)
  BY StorageMoveShape
<1>4. /\ position[st] \in 0..Len(cuts) /\ to \in 0..Len(cuts) /\ position[st] <= to
      /\ st \notin viewFinalized /\ (to <= committed \/ to \in sealed)
  BY <1>1, <1>3, MoveFacts DEF StorageMoved, StorageMine, LocalIdsOf
<1>5. UNCHANGED <<engineVars, shardProgress, progressDirty, primaryVars, frozen,
                  cuts, committed, sealed, fatal, netVars>>
  BY <1>3 DEF StorageMoved, StorageMine, LocalIdsOf
<1>6. /\ MetaInv' /\ position' \in [Nodes -> 0..Len(cuts)] /\ viewFinalized' \in SUBSET Nodes
      /\ \A m \in Nodes : m # st => Stays(m)
      /\ position'[st] = to
  <2>1. \/ UNCHANGED viewFinalized
        \/ to \in sealed /\ viewFinalized' = viewFinalized \cup {st}
    BY <1>3 DEF StorageMoved, StorageMine, LocalIdsOf
  <2>2. position' = [position EXCEPT ![st] = to] /\ UNCHANGED <<cuts, committed, sealed>>
    BY <1>3 DEF StorageMoved, StorageMine, LocalIdsOf
  <2> QED
    BY <1>1, <1>4, <2>1, <2>2, MoveMeta
<1>7. /\ StorageInv' /\ liveEntries' \in [Storages -> SUBSET Entries]
      /\ pendingEntries' \in [Storages -> SUBSET LocalIds]
      /\ \A t \in Storages : pendingEntries'[t] \subseteq pendingEntries[t]
  <2>1. \A t \in Storages : t # st => Stays(t)
    BY <1>1, <1>6
  <2>2. liveEntries' = [liveEntries EXCEPT ![st] = liveEntries[st] \cup
             {e \in EntriesOf(position[st], to) : st \in StorageNodes[e.localid.shard]}]
    BY <1>3 DEF StorageMoved, StorageMine, LocalIdsOf
  <2>3. \/ /\ st \in viewFinalized'
           /\ pendingEntries' = [pendingEntries EXCEPT ![st] = {}]
        \/ pendingEntries' = [pendingEntries EXCEPT ![st] = pendingEntries[st] \
                {e.localid : e \in {f \in EntriesOf(position[st], to) :
                                      st \in StorageNodes[f.localid.shard]}}]
    BY <1>3 DEF StorageMoved, StorageMine, LocalIdsOf
  <2> QED
    BY <1>4, <1>5, <1>6, <2>1, <2>2, <2>3, StorageMoves
<1>8. TypeOK'
  BY <1>5, <1>6, <1>7 DEF IndInv, TypeOK, engineVars, primaryVars, netVars
<1>9. CutsKept /\ LogInv'
  BY <1>5, LogFrame DEF IndInv, TypeOK, primaryVars
<1>10. ProgressInv'
  BY <1>5, <1>7 DEF IndInv, ProgressInv, engineVars, primaryVars, netVars
<1>11. EngineInv'
  <2>1. \A sh \in Shards : Stays(sh)
    BY <1>1, <1>6
  <2> QED
    BY <1>5, <1>9, <2>1, EngineFrame DEF IndInv, engineVars
<1>12. FloorInv'
  BY <1>5, FloorFrame DEF IndInv, TypeOK, engineVars
<1>13. fatal' = {}
  BY <1>5 DEF IndInv
<1> QED
  BY <1>6, <1>7, <1>8, <1>9, <1>10, <1>11, <1>12, <1>13 DEF IndInv

\* The entries engine sh applies on its way to cut `to', and the step that does it.
EngineMine(sh, to) == {e \in EntriesOf(position[sh], to) : e.localid.shard = sh}
EngineMoved(sh, to) ==
    /\ \/ to \in (position[sh] + 1)..committed
       \/ to \in sealed /\ sh \notin viewFinalized
    /\ position' = [position EXCEPT ![sh] = to]
    /\ acked' = [acked EXCEPT ![sh] = acked[sh] \cup EngineMine(sh, to)]
    /\ \/ /\ to \in sealed /\ viewFinalized' = viewFinalized \cup {sh} /\ ~active[sh]
          /\ discarded' = [discarded EXCEPT ![sh] = pendingAppends[sh] \ LocalIdsOf(EngineMine(sh, to))]
          /\ pendingAppends' = [pendingAppends EXCEPT ![sh] = {}]
       \/ /\ UNCHANGED <<viewFinalized, discarded>>
          /\ pendingAppends' = [pendingAppends EXCEPT ![sh] = pendingAppends[sh] \ LocalIdsOf(EngineMine(sh, to))]
    /\ UNCHANGED <<nextId, active, floor, storageVars, primaryVars, frozen,
                   cuts, committed, sealed, fatal, netVars>>

\* No entry is missing, so this is what the two actions do.
LEMMA EngineMoveShape ==
    ASSUME IndInv, NEW sh \in Shards, EngineOnRecvNewMetaLogs(sh) \/ EngineOnViewFinalized(sh)
    PROVE  \E to : EngineMoved(sh, to)
<1> DEFINE Mine(to) == {e \in EntriesOf(position[sh], to) : e.localid.shard = sh}
           Ids(to)  == {e.localid : e \in Mine(to)}
<1>1. sh \in Nodes
  BY DEF Nodes
<1>2. CASE EngineOnRecvNewMetaLogs(sh)
  <2>1. PICK to \in (position[sh] + 1)..committed :
          /\ position' = [position EXCEPT ![sh] = to]
          /\ EngineOnNewLogs(sh, EntriesOf(position[sh], to))
    BY <1>2 DEF EngineOnRecvNewMetaLogs
  <2>2. /\ to \in 0..Len(cuts) /\ position[sh] <= to /\ sh \notin viewFinalized
    BY <1>1, MoveFacts
  <2>3. Ids(to) \subseteq pendingAppends[sh]
    BY <2>2, EngineApplies
  <2>4. /\ pendingAppends' = [pendingAppends EXCEPT ![sh] = pendingAppends[sh] \ Ids(to)]
        /\ acked' = [acked EXCEPT ![sh] = acked[sh] \cup Mine(to)]
        /\ UNCHANGED fatal
    BY <2>1, <2>3 DEF EngineOnNewLogs
  <2> QED
    BY <1>2, <2>1, <2>4 DEF EngineOnRecvNewMetaLogs, EngineMoved, EngineMine, LocalIdsOf
<1>3. CASE EngineOnViewFinalized(sh)
  <2>1. PICK p \in sealed :
          /\ sh \notin viewFinalized /\ ~active[sh]
          /\ position' = [position EXCEPT ![sh] = p]
          /\ Ids(p) \subseteq pendingAppends[sh] =>
               /\ acked' = [acked EXCEPT ![sh] = acked[sh] \cup Mine(p)]
               /\ discarded' = [discarded EXCEPT ![sh] = pendingAppends[sh] \ Ids(p)]
               /\ pendingAppends' = [pendingAppends EXCEPT ![sh] = {}]
               /\ viewFinalized' = viewFinalized \cup {sh}
               /\ UNCHANGED fatal
          /\ UNCHANGED <<nextId, active, floor, storageVars, primaryVars, frozen,
                         cuts, committed, sealed, netVars>>
    BY <1>3 DEF EngineOnViewFinalized
  <2>2. /\ p \in 0..Len(cuts) /\ position[sh] <= p
    BY <1>1, <2>1, MoveFacts
  <2>3. Ids(p) \subseteq pendingAppends[sh]
    BY <2>1, <2>2, EngineApplies
  <2> QED
    BY <2>1, <2>3 DEF EngineMoved, EngineMine, LocalIdsOf
<1> QED
  BY <1>2, <1>3

\* Engine::OnRecvNewMetaLogs and Engine::OnViewFinalized.
LEMMA EngineStep ==
    ASSUME IndInv, NEW sh \in Shards, EngineOnRecvNewMetaLogs(sh) \/ EngineOnViewFinalized(sh)
    PROVE  IndInv'
<1>1. /\ sh \in Nodes /\ \A st \in Storages : st # sh /\ st \in Nodes
      /\ \A x \in Shards : x \in Nodes
  BY SharedLogAssumption DEF Nodes
<1>3. PICK to : EngineMoved(sh, to)
  BY EngineMoveShape
<1>4. /\ position[sh] \in 0..Len(cuts) /\ to \in 0..Len(cuts) /\ position[sh] <= to
      /\ sh \notin viewFinalized /\ (to <= committed \/ to \in sealed)
  BY <1>1, <1>3, MoveFacts DEF EngineMoved, EngineMine, LocalIdsOf
<1>5. UNCHANGED <<nextId, active, floor, storageVars, primaryVars, frozen,
                  cuts, committed, sealed, fatal, netVars>>
  BY <1>3 DEF EngineMoved, EngineMine, LocalIdsOf
<1>6. /\ MetaInv' /\ position' \in [Nodes -> 0..Len(cuts)] /\ viewFinalized' \in SUBSET Nodes
      /\ \A m \in Nodes : m # sh => Stays(m)
      /\ position'[sh] = to
  <2>1. \/ UNCHANGED viewFinalized
        \/ to \in sealed /\ viewFinalized' = viewFinalized \cup {sh}
    BY <1>3 DEF EngineMoved, EngineMine, LocalIdsOf
  <2>2. position' = [position EXCEPT ![sh] = to] /\ UNCHANGED <<cuts, committed, sealed>>
    BY <1>3 DEF EngineMoved, EngineMine, LocalIdsOf
  <2> QED
    BY <1>1, <1>4, <2>1, <2>2, MoveMeta
<1>7. /\ EngineInv' /\ acked' \in [Shards -> SUBSET Entries]
      /\ pendingAppends' \in [Shards -> SUBSET LocalIds]
      /\ discarded' \in [Shards -> SUBSET LocalIds]
  <2>0. PICK rest : rest = pendingAppends[sh] \
             {e.localid : e \in {f \in EntriesOf(position[sh], to) : f.localid.shard = sh}}
    OBVIOUS
  <2>1. \A x \in Shards : x # sh => Stays(x)
    BY <1>1, <1>6
  <2>2. acked' = [acked EXCEPT ![sh] = acked[sh] \cup
             {e \in EntriesOf(position[sh], to) : e.localid.shard = sh}]
    BY <1>3 DEF EngineMoved, EngineMine, LocalIdsOf
  <2>3. \/ /\ sh \in viewFinalized' /\ ~active[sh]
           /\ discarded' = [discarded EXCEPT ![sh] = rest]
           /\ pendingAppends' = [pendingAppends EXCEPT ![sh] = {}]
        \/ /\ sh \notin viewFinalized' /\ UNCHANGED discarded
           /\ pendingAppends' = [pendingAppends EXCEPT ![sh] = rest]
    BY <1>3, <1>4, <2>0 DEF EngineMoved, EngineMine, LocalIdsOf
  <2>4. UNCHANGED <<cuts, nextId, active>>
    BY <1>5
  <2> QED
    BY <1>4, <1>6, <2>0, <2>1, <2>2, <2>3, <2>4, EngineMoves
<1>8. TypeOK'
  BY <1>5, <1>6, <1>7 DEF IndInv, TypeOK, storageVars, primaryVars, netVars
<1>9. CutsKept /\ LogInv'
  BY <1>5, LogFrame DEF IndInv, TypeOK, primaryVars
<1>10. ProgressInv'
  BY <1>5, ProgressFrame DEF IndInv, storageVars, primaryVars, netVars
<1>11. StorageInv'
  <2>1. \A st \in Storages : Stays(st)
    BY <1>1, <1>6
  <2> QED
    BY <1>5, <1>9, <2>1, StorageFrame DEF IndInv, storageVars
<1>12. FloorInv'
  BY <1>5, FloorFrame DEF IndInv, TypeOK
<1>13. fatal' = {}
  BY <1>5 DEF IndInv
<1> QED
  BY <1>6, <1>7, <1>8, <1>9, <1>10, <1>11, <1>12, <1>13 DEF IndInv

\* Every step preserves the invariant.
LEMMA StepIndInv == IndInv /\ [Next]_vars => IndInv'
<1> SUFFICES ASSUME IndInv, [Next]_vars PROVE IndInv'
  OBVIOUS
<1>1. CASE \E sh \in Shards : HandleLocalAppend(sh)
  BY <1>1, AppendStep
<1>2. CASE \E sh \in Shards : EngineOnViewFrozen(sh)
  BY <1>2, EngineFrozenStep
<1>3. CASE \E msg \in replicateMsgs : HandleReplicateRequest(msg)
  BY <1>3, ReplicateStep
<1>4. CASE \E st \in Storages : SendShardProgressIfNeeded(st)
  BY <1>4, SendProgressStep
<1>5. CASE \E msg \in progressMsgs : OnRecvShardProgress(msg)
  BY <1>5, RecvProgressStep
<1>6. CASE MarkNextCut
  BY <1>6, MarkStep
<1>7. CASE PrimaryOnViewFrozen
  BY <1>7, PrimaryFrozenStep
<1>8. CASE ReplicateMetaLog
  BY <1>8, ReplicateMetaLogStep
<1>9. CASE SealView
  BY <1>9, SealStep
<1>10. CASE \E st \in Storages : StorageOnRecvNewMetaLogs(st) \/ StorageOnViewFinalized(st)
  BY <1>10, StorageStep
<1>11. CASE \E sh \in Shards : EngineOnRecvNewMetaLogs(sh) \/ EngineOnViewFinalized(sh)
  BY <1>11, EngineStep
<1>12. CASE UNCHANGED vars
  <2> USE <1>12 DEF vars, engineVars, storageVars, primaryVars, metaVars, netVars
  <2>1. TypeOK'
    BY DEF IndInv, TypeOK
  <2>2. CutsKept /\ LogInv'
    BY LogFrame DEF IndInv, TypeOK
  <2>3. ProgressInv' /\ MetaInv'
    BY ProgressFrame, MetaFrame DEF IndInv
  <2>4. StorageInv'
    BY <2>2, StorageFrame DEF IndInv, Stays
  <2>5. EngineInv'
    BY <2>2, EngineFrame DEF IndInv, Stays
  <2>6. FloorInv'
    BY FloorFrame DEF IndInv, TypeOK
  <2> QED
    BY <2>1, <2>2, <2>3, <2>4, <2>5, <2>6 DEF IndInv
<1> QED
  BY <1>1, <1>2, <1>3, <1>4, <1>5, <1>6, <1>7, <1>8, <1>9, <1>10, <1>11, <1>12 DEF Next

\* An entry an engine has answered lies in the part of the log it has applied.
LEMMA AckedIsCut ==
    ASSUME IndInv, NEW sh \in Shards, NEW e \in acked[sh]
    PROVE  /\ e \in AllEntries /\ e \in EntriesOf(0, position[sh]) /\ e.localid.shard = sh
           /\ e.seqnum \in Nat /\ position[sh] \in 0..Len(cuts)
<1>1. e \in EntriesOf(0, position[sh]) /\ e.localid.shard = sh /\ position[sh] \in 0..Len(cuts)
  BY DEF IndInv, EngineInv, TypeOK, Nodes
<1>2. 0 \in 0..Len(cuts) /\ cuts \in Seq(CutShapes) /\ LogInv
  BY LenProperties DEF IndInv, TypeOK
<1>3. /\ \A f \in AllEntries : f.seqnum \in Nat
      /\ \A a, b \in 0..Len(cuts) : \A f : f \in EntriesOf(a, b) => f \in AllEntries
  BY <1>2, PrefixFacts
<1> QED
  BY <1>1, <1>2, <1>3

\* The invariant implies what is claimed of answered appends.
LEMMA ConsequenceReplicas == IndInv => AckedIsOnAllReplicas
<1> SUFFICES ASSUME IndInv, NEW sh \in Shards, NEW e \in acked[sh], NEW st \in StorageNodes[sh]
             PROVE  e \in liveEntries[st] \/ e.localid \in pendingEntries[st]
  BY DEF AckedIsOnAllReplicas
<1>1. /\ e \in AllEntries /\ e \in EntriesOf(0, position[sh]) /\ e.localid.shard = sh
      /\ e.seqnum \in Nat /\ position[sh] \in 0..Len(cuts)
  BY AckedIsCut
<1>2. st \in Storages /\ position[st] \in 0..Len(cuts) /\ 0 \in 0..Len(cuts) /\ Len(cuts) \in Nat
  BY SharedLogAssumption, LenProperties DEF IndInv, TypeOK, Nodes
<1>3. /\ liveEntries[st] = {f \in EntriesOf(0, position[st]) : st \in StorageNodes[f.localid.shard]}
      /\ st \notin viewFinalized =>
           \A i \in 0..(shardProgress[st][sh] - 1) :
             \/ [shard |-> sh, id |-> i] \in pendingEntries[st]
             \/ Has(EntriesOf(0, position[st]), [shard |-> sh, id |-> i])
  BY <1>2 DEF IndInv, StorageInv
<1>4. CASE st \notin viewFinalized
  <2>1. /\ e.localid = [shard |-> sh, id |-> e.localid.id] /\ e.localid \in LocalIds
        /\ e.localid.id \in 0..(shardProgress[st][sh] - 1)
    BY <1>1, CutIsHeld
  <2>2. ASSUME NEW f \in EntriesOf(0, position[st]), f.localid = e.localid PROVE f = e
    <3>1. f \in AllEntries /\ f.seqnum \in Nat
      BY <1>2, PrefixFacts DEF IndInv, TypeOK
    <3>2. e.localid.id \in Int
      BY <2>1, LocalIdFacts
    <3>3. ~(e.seqnum < f.seqnum) /\ ~(f.seqnum < e.seqnum)
      BY <1>1, <2>2, <3>1, <3>2 DEF IndInv, LogInv
    <3>4. f.seqnum = e.seqnum
      BY <1>1, <3>1, <3>3
    <3> QED
      BY <1>1, <3>1, <3>4 DEF IndInv, LogInv
  <2> QED
    BY <1>1, <1>3, <1>4, <2>1, <2>2 DEF Has
<1>5. CASE st \in viewFinalized
  <2>1. position[sh] <= position[st]
    <3>1. /\ position[st] \in sealed /\ committed <= position[st]
          /\ position[sh] <= committed \/ \E p \in sealed : position[sh] <= p
          /\ \A p \in sealed : p = position[st]
      BY <1>5 DEF IndInv, MetaInv, Nodes
    <3>2. committed \in Int /\ position[sh] \in Int /\ position[st] \in Int
      BY <1>1, <1>2 DEF IndInv, TypeOK
    <3> QED
      BY <3>1, <3>2
  <2>2. e \in EntriesOf(0, position[st])
    <3>1. EntriesOf(0, position[st]) = EntriesOf(0, position[sh]) \cup EntriesOf(position[sh], position[st])
      BY <1>1, <1>2, <2>1, NewEntries DEF IndInv, TypeOK
    <3> QED
      BY <1>1, <3>1
  <2> QED
    BY <1>1, <1>3, <2>2
<1> QED
  BY <1>4, <1>5

\* Entries of later appends lie behind the floor of their call.
LEMMA ConsequenceRealTime == IndInv => RealTimeOrder
<1> SUFFICES ASSUME IndInv, NEW sh \in Shards, NEW e \in acked[sh]
             PROVE  e.seqnum >= floor[sh][e.localid.id + 1]
  BY DEF RealTimeOrder
<1>1. e \in AllEntries /\ e.localid.shard = sh /\ e.seqnum \in Nat
  BY AckedIsCut
<1>2. floor[sh][e.localid.id + 1] <= e.seqnum
  BY <1>1 DEF IndInv, FloorInv
<1> QED
  BY <1>1, <1>2

-----------------------------------------------------------------------------
(* The theorems. *)

\* IndInv is an invariant of the append path.
THEOREM Invariance == Spec => []IndInv
  BY InitIndInv, StepIndInv, PTL DEF Spec

\* The variables keep their types, cuts and positions included.
THEOREM TypeCorrect == Spec => []TypeOK
<1>1. IndInv => TypeOK
  BY DEF IndInv
<1> QED
  BY <1>1, Invariance, PTL

\* No storage node and no engine ever stops because a cut names an entry it
\* does not hold: the FATAL of OnNewLogs is never reached.
THEOREM NoEntryIsMissing == Spec => [](fatal = {})
<1>1. IndInv => fatal = {}
  BY DEF IndInv
<1> QED
  BY <1>1, Invariance, PTL

\* An append that was answered is on all storage nodes of its shard, whenever
\* the view is frozen, sealed and finalized.
THEOREM AcksAreDurable == Spec => []AckedIsOnAllReplicas
  BY ConsequenceReplicas, Invariance, PTL

\* An append issued after another one was answered gets a larger seqnum.
THEOREM SeqnumsFollowRealTime == Spec => []RealTimeOrder
  BY ConsequenceRealTime, Invariance, PTL

\* The metalog gives seqnums without gaps, to each entry below lastCut once,
\* and in each shard in the order of the localids.
THEOREM LogIsTotallyOrdered == Spec => []LogInv
<1>1. IndInv => LogInv
  BY DEF IndInv
<1> QED
  BY <1>1, Invariance, PTL
=============================================================================
