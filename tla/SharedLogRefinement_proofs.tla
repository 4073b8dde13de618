---------------------- MODULE SharedLogRefinement_proofs ----------------------
(***************************************************************************)
(* Proofs that the append path uses the metalog as OrderedMetaLog provides *)
(* it, so that MetaLogReplication can stand for it, and implements         *)
(* AppendLog, the sequence of entries that those who append see.           *)
(***************************************************************************)
EXTENDS SharedLog_proofs

-----------------------------------------------------------------------------
(* There is room for every cut: entries are at most as many as appends. *)

Bounded == Cardinality(Issued) <= MaxAppends

\* Only an append issues a localid, and only below the bound.
LEMMA StepBounded == IndInv /\ Bounded /\ [Next]_vars => Bounded'
<1> SUFFICES ASSUME IndInv, Bounded, [Next]_vars PROVE Bounded'
  OBVIOUS
<1>1. CASE UNCHANGED nextId
  <2>1. Issued' = Issued
    BY <1>1 DEF Issued, LocalIds
  <2> QED
    BY <2>1 DEF Bounded
<1>2. ASSUME NEW sh \in Shards, HandleLocalAppend(sh) PROVE Bounded'
  <2> DEFINE l == [shard |-> sh, id |-> nextId[sh]]
  <2>1. /\ Cardinality(Issued) < MaxAppends
        /\ nextId' = [nextId EXCEPT ![sh] = nextId[sh] + 1]
    BY <1>2 DEF HandleLocalAppend
  <2>2. TypeOK /\ nextId \in [Shards -> 0..MaxAppends] /\ MaxAppends \in Nat
    BY LocalIdFacts DEF IndInv, TypeOK
  <2>3. IsFiniteSet(Issued) /\ Cardinality(Issued) \in Nat
    BY <2>2, IssuedBound
  <2>4. Issued' \subseteq Issued \cup {l}
    <3> SUFFICES ASSUME NEW y \in LocalIds, y.id < nextId'[y.shard]
                 PROVE  y.id < nextId[y.shard] \/ y = l
      BY DEF Issued, LocalIds
    <3>1. y.shard \in Shards /\ y.id \in Nat /\ y = [shard |-> y.shard, id |-> y.id]
      BY LocalIdFacts
    <3>2. CASE y.shard = sh
      <4>1. nextId'[sh] = nextId[sh] + 1 /\ nextId[sh] \in Nat
        BY <2>1, <2>2
      <4>2. y.id < nextId[sh] \/ y.id = nextId[sh]
        BY <3>1, <3>2, <4>1
      <4> QED
        BY <3>1, <3>2, <4>2
    <3>3. CASE y.shard # sh
      BY <2>1, <2>2, <3>1, <3>3
    <3> QED
      BY <3>2, <3>3
  <2> HIDE DEF l
  <2>5. /\ IsFiniteSet(Issued \cup {l}) /\ Cardinality(Issued \cup {l}) \in Nat
        /\ Cardinality(Issued \cup {l}) <= Cardinality(Issued) + 1
    <3>1. IsFiniteSet(Issued \cup {l})
      BY <2>3, FS_AddElement
    <3>2. Cardinality(Issued \cup {l}) = IF l \in Issued THEN Cardinality(Issued) ELSE Cardinality(Issued) + 1
      BY <2>3, FS_AddElement
    <3> QED
      BY <2>3, <3>1, <3>2
  <2>6. Cardinality(Issued') \in Nat /\ Cardinality(Issued') <= Cardinality(Issued \cup {l})
    <3>1. PICK I : I = Issued'
      OBVIOUS
    <3>2. IsFiniteSet(I) /\ Cardinality(I) <= Cardinality(Issued \cup {l})
      BY <2>4, <2>5, <3>1, FS_Subset
    <3> QED
      BY <3>1, <3>2, FS_CardinalityType
  <2> QED
    BY <2>1, <2>2, <2>3, <2>5, <2>6 DEF Bounded
<1>3. UNCHANGED nextId \/ \E sh \in Shards : HandleLocalAppend(sh)
  BY DEF Next, vars, engineVars, EngineOnViewFrozen, HandleReplicateRequest,
         SendShardProgressIfNeeded, OnRecvShardProgress, MarkNextCut, PrimaryOnViewFrozen,
         ReplicateMetaLog, SealView, StorageOnRecvNewMetaLogs, EngineOnRecvNewMetaLogs,
         StorageOnViewFinalized, EngineOnViewFinalized
<1> QED
  BY <1>1, <1>2, <1>3

\* Init satisfies the bound: nothing is issued.
LEMMA InitBounded == Init => Bounded
<1> SUFFICES ASSUME Init PROVE Bounded
  OBVIOUS
<1>1. Issued = {}
  BY LocalIdFacts DEF Init, Issued
<1> QED
  BY <1>1, FS_EmptySet, LocalIdFacts DEF Bounded

\* Two entries with one localid are one entry.
LEMMA LocalIdIsUnique ==
    ASSUME IndInv, NEW e \in AllEntries, NEW f \in AllEntries, e.localid = f.localid
    PROVE  e = f
<1>1. e.seqnum \in Nat /\ f.seqnum \in Nat
  BY PrefixFacts DEF IndInv, TypeOK
<1>2. e.localid.id \in Int
  <2>1. e.localid \in LocalIds
    BY CutIsHeld
  <2> QED
    BY <2>1, LocalIdFacts
<1>3. ~(e.seqnum < f.seqnum) /\ ~(f.seqnum < e.seqnum)
  BY <1>2 DEF IndInv, LogInv
<1>4. e.seqnum = f.seqnum
  BY <1>1, <1>3
<1> QED
  BY <1>4 DEF IndInv, LogInv

\* While a shard is dirty the log is shorter than the bound: its entries and
\* one more append have localids of their own.
LEMMA SeqnumsBounded ==
    ASSUME IndInv, Bounded, NEW sh \in dirtyShards
    PROVE  SeqnumEnd(Len(cuts)) < MaxAppends
<1> DEFINE N == SeqnumEnd(Len(cuts))
           l == [shard |-> sh, id |-> lastCut[sh]]
           At(s) == CHOOSE e \in AllEntries : e.seqnum = s
           f == [s \in 0..N |-> IF s = N THEN l ELSE At(s).localid]
<1>1. N \in Nat /\ MaxAppends \in Nat /\ TypeOK /\ sh \in Shards
  <2>1. Len(cuts) \in 0..Len(cuts) /\ cuts \in Seq(CutShapes)
    BY LenProperties DEF IndInv, TypeOK
  <2> QED
    BY <2>1, PrefixFacts, LocalIdFacts DEF IndInv, TypeOK
<1>2. \A s \in 0..(N - 1) : At(s) \in AllEntries /\ At(s).seqnum = s
  BY DEF IndInv, LogInv
<1> HIDE DEF N, At
<1>3. l \in Issued /\ ~Has(AllEntries, l)
  <2>1. PICK st \in StorageNodes[sh] : st \in Storages
    BY <1>1, SharedLogAssumption
  <2>2. /\ lastCut[sh] < storageProgress[sh][st] /\ storageProgress[sh][st] <= shardProgress[st][sh]
        /\ shardProgress[st][sh] <= nextId[sh]
    BY <1>1, <2>1 DEF IndInv, ProgressInv
  <2>3. /\ lastCut[sh] \in Nat /\ shardProgress[st][sh] \in Nat /\ nextId[sh] \in Nat
        /\ storageProgress[sh][st] \in Nat /\ nextId[sh] <= MaxAppends
    BY <1>1, <2>1 DEF IndInv, TypeOK
  <2>4. lastCut[sh] < nextId[sh] /\ lastCut[sh] \in 0..(MaxAppends - 1)
    BY <1>1, <2>2, <2>3
  <2>5. l \in Issued
    BY <1>1, <2>4, LocalIdFacts DEF Issued
  <2>6. \A e \in AllEntries : e.localid.id < lastCut[e.localid.shard]
    BY DEF IndInv, LogInv
  <2>7. l.id = lastCut[sh] /\ l.shard = sh /\ ~(lastCut[sh] < lastCut[sh])
    BY <2>3
  <2> HIDE DEF l
  <2> QED
    BY <2>5, <2>6, <2>7 DEF Has
<1> HIDE DEF l
<1>4. ASSUME NEW s \in 0..N PROVE f[s] \in Issued
  <2>1. CASE s = N
    BY <1>3, <2>1
  <2>2. CASE s # N
    <3>1. s \in 0..(N - 1)
      BY <1>1, <2>2
    <3> QED
      BY <1>2, <2>2, <3>1, CutIsHeld
  <2> QED
    BY <2>1, <2>2
<1>5. ASSUME NEW s \in 0..N, NEW t \in 0..N, f[s] = f[t] PROVE s = t
  <2>1. \A x \in 0..N : x # N => x \in 0..(N - 1)
    BY <1>1
  <2>2. CASE s # N /\ t # N
    <3>1. At(s).localid = At(t).localid
      BY <1>5, <2>2
    <3>2. At(s) = At(t)
      BY <1>2, <2>1, <2>2, <3>1, LocalIdIsUnique
    <3> QED
      BY <1>2, <2>1, <2>2, <3>2
  <2>3. CASE s = N /\ t # N
    BY <1>2, <1>3, <1>5, <2>1, <2>3 DEF Has
  <2>4. CASE s # N /\ t = N
    BY <1>2, <1>3, <1>5, <2>1, <2>4 DEF Has
  <2> QED
    BY <2>2, <2>3, <2>4
<1>6. f \in [0..N -> Issued]
  <2>1. f = [s \in 0..N |-> f[s]]
    OBVIOUS
  <2> HIDE DEF f
  <2> QED
    BY <1>4, <2>1
<1> HIDE DEF f
<1>7. f \in Injection(0..N, Issued)
  BY <1>5, <1>6 DEF Injection, IsInjective
<1>8. Cardinality(0..N) <= Cardinality(Issued) /\ Cardinality(Issued) \in Nat
  BY <1>1, <1>7, IssuedBound, FS_Injection
<1>9. Cardinality(0..N) = N + 1
  <2>1. Cardinality(0..N) = IF 0 > N THEN 0 ELSE N - 0 + 1
    BY <1>1, FS_Interval
  <2> QED
    BY <1>1, <2>1
<1>10. N < MaxAppends
  BY <1>1, <1>8, <1>9 DEF Bounded
<1> QED
  BY <1>10 DEF N

\* The next cut is one of those OrderedMetaLog is told of.
LEMMA NextCutIsCut ==
    ASSUME IndInv, Bounded, dirtyShards # {}, NEW o \in Orders(dirtyShards)
    PROVE  NextCut(o) \in Cut
<1> DEFINE c == NextCut(o)
<1>1. /\ c \in CutShapes /\ c.start = SeqnumEnd(Len(cuts))
      /\ Len(c.shards) \in 1..Cardinality(Shards)
      /\ \A i \in 1..Len(c.shards) :
           /\ c.shards[i].start = lastCut[c.shards[i].shard]
           /\ c.shards[i].start + c.shards[i].delta = CutPosition[c.shards[i].shard]
      /\ CutPosition \in [Shards -> 0..MaxAppends]
  BY NextCutFacts
<1> HIDE DEF c
<1>2. MaxAppends \in Nat /\ lastCut \in [Shards -> 0..MaxAppends]
  BY LocalIdFacts DEF IndInv, TypeOK
<1>3. c.start \in 0..(MaxAppends - 1)
  <2>1. PICK sh \in dirtyShards : TRUE
    OBVIOUS
  <2>2. c.start < MaxAppends /\ c.start \in Nat
    BY <1>1, <2>1, SeqnumsBounded, CutShapeFacts
  <2> QED
    BY <1>2, <2>2
<1>4. PICK k \in Nat \ {0} : c.shards \in [1..k -> Deltas]
  BY <1>1 DEF CutShapes
<1>5. Len(c.shards) = k /\ k \in 1..Cardinality(Shards)
  BY <1>1, <1>4
<1>6. ASSUME NEW i \in 1..k PROVE c.shards[i] \in Delta
  <2>1. c.shards[i] \in Deltas
    BY <1>4
  <2>2. c.shards[i].shard \in Shards /\ c.shards[i].start \in Nat /\ c.shards[i].delta \in Nat \ {0}
    BY <2>1 DEF Deltas
  <2>3. c.shards[i].start + c.shards[i].delta <= MaxAppends
    BY <1>1, <1>2, <1>5, <2>2
  <2>4. c.shards[i].start \in 0..(MaxAppends - 1) /\ c.shards[i].delta \in 1..MaxAppends
    <3> DEFINE a == c.shards[i].start
               d == c.shards[i].delta
    <3>1. a \in Nat /\ d \in Nat \ {0} /\ a + d <= MaxAppends
      BY <2>2, <2>3
    <3> HIDE DEF a, d
    <3>2. a \in 0..(MaxAppends - 1) /\ d \in 1..MaxAppends
      BY <1>2, <3>1
    <3> QED
      BY <3>2 DEF a, d
  <2> QED
    BY <2>1, <2>2, <2>4 DEF Deltas, Delta
<1>7. c.shards \in [1..k -> Delta]
  BY <1>4, <1>6
<1>8. c = [start |-> c.start, shards |-> c.shards]
  BY <1>1 DEF CutShapes
<1>9. c \in Cut
  BY <1>3, <1>5, <1>7, <1>8 DEF Cut
<1> QED
  BY <1>9 DEF c

-----------------------------------------------------------------------------
(* The metalog as OrderedMetaLog provides it. *)

\* The prefix of the cuts a node has applied.
LEMMA PrefixOfCuts ==
    ASSUME NEW s \in Seq(CutShapes), NEW k \in 0..Len(s)
    PROVE  /\ SubSeq(s, 1, k) \in Seq(CutShapes) /\ Len(SubSeq(s, 1, k)) = k
           /\ \A i \in 1..k : SubSeq(s, 1, k)[i] = s[i]
<1>1. Len(s) \in Nat
  BY LenProperties
<1>2. k \in Nat /\ k \in Int /\ k <= Len(s)
  BY <1>1
<1>3. \A i \in 1..k : s[i] \in CutShapes
  BY <1>1, <1>2, ElementOfSeq
<1>4. /\ SubSeq(s, 1, k) \in Seq(CutShapes)
      /\ Len(SubSeq(s, 1, k)) = IF 1 <= k THEN k - 1 + 1 ELSE 0
      /\ \A i \in 1..(k - 1 + 1) : SubSeq(s, 1, k)[i] = s[1 + i - 1]
  BY <1>2, <1>3, SubSeqProperties
<1>5. Len(SubSeq(s, 1, k)) = k
  BY <1>2, <1>4
<1>6. \A i \in 1..k : i \in 1..(k - 1 + 1) /\ 1 + i - 1 = i
  BY <1>2
<1> QED
  BY <1>4, <1>5, <1>6

\* A new cut leaves the prefixes alone.
LEMMA PrefixKept ==
    ASSUME NEW s \in Seq(CutShapes), NEW c \in CutShapes, NEW k \in 0..Len(s)
    PROVE  SubSeq(Append(s, c), 1, k) = SubSeq(s, 1, k)
<1> DEFINE t == Append(s, c)
<1>1. t \in Seq(CutShapes) /\ Len(t) = Len(s) + 1 /\ \A i \in 1..Len(s) : t[i] = s[i]
  BY AppendProperties
<1>2. Len(s) \in Nat
  BY LenProperties
<1> HIDE DEF t
<1>3. k \in 0..Len(t) /\ \A i \in 1..k : i \in 1..Len(s)
  BY <1>1, <1>2
<1>4. /\ SubSeq(s, 1, k) \in Seq(CutShapes) /\ Len(SubSeq(s, 1, k)) = k
      /\ \A i \in 1..k : SubSeq(s, 1, k)[i] = s[i]
  BY PrefixOfCuts
<1>5. /\ SubSeq(t, 1, k) \in Seq(CutShapes) /\ Len(SubSeq(t, 1, k)) = k
      /\ \A i \in 1..k : SubSeq(t, 1, k)[i] = t[i]
  BY <1>1, <1>3, PrefixOfCuts
<1>6. SubSeq(t, 1, k) = SubSeq(s, 1, k)
  BY <1>1, <1>3, <1>4, <1>5, SeqEqual
<1> QED
  BY <1>6 DEF t

\* A node that moves reads the cuts up to where it moves.
LEMMA ReadStep ==
    ASSUME IndInv, NEW n \in Nodes, NEW to,
           \/ to \in (position[n] + 1)..committed
           \/ to \in sealed /\ n \notin viewFinalized,
           position' = [position EXCEPT ![n] = to], UNCHANGED <<cuts, committed, sealed>>
    PROVE  UseMetaLog!Next
<1> DEFINE R == [m \in Nodes |-> SubSeq(cuts, 1, position[m])]
<1>1. /\ position[n] \in 0..Len(cuts) /\ to \in 0..Len(cuts) /\ position[n] <= to
      /\ to <= committed \/ to \in sealed
  BY MoveFacts
<1>2. /\ cuts \in Seq(CutShapes) /\ Len(cuts) \in Nat /\ to \in Int
      /\ position \in [Nodes -> 0..Len(cuts)]
  BY <1>1, LenProperties DEF IndInv, TypeOK
<1>3. Len(R[n]) = position[n] /\ to \in Len(R[n])..Len(cuts)
  <2>1. Len(R[n]) = position[n]
    BY <1>1, <1>2, PrefixOfCuts
  <2> HIDE DEF R
  <2> QED
    BY <1>1, <1>2, <2>1
<1>4. to <= committed \/ \E p \in sealed : to <= p
  BY <1>1, <1>2
<1>5. [m \in Nodes |-> SubSeq(cuts', 1, position'[m])] = [R EXCEPT ![n] = SubSeq(cuts, 1, to)]
  <2>1. \A m \in Nodes : position'[m] = IF m = n THEN to ELSE position[m]
    BY <1>2
  <2>2. \A m \in Nodes : SubSeq(cuts', 1, position'[m]) = IF m = n THEN SubSeq(cuts, 1, to) ELSE R[m]
    <3> SUFFICES ASSUME NEW m \in Nodes
                 PROVE  SubSeq(cuts', 1, position'[m]) = IF m = n THEN SubSeq(cuts, 1, to) ELSE R[m]
      OBVIOUS
    <3>1. cuts' = cuts /\ R[m] = SubSeq(cuts, 1, position[m])
      OBVIOUS
    <3>2. CASE m = n
      <4>1. position'[m] = to
        BY <2>1, <3>2
      <4>2. SubSeq(cuts', 1, position'[m]) = SubSeq(cuts, 1, to)
        BY <3>1, <4>1, Zenon
      <4> QED
        BY <3>2, <4>2, Zenon
    <3>3. CASE m # n
      <4>1. position'[m] = position[m]
        BY <2>1, <3>3
      <4>2. SubSeq(cuts', 1, position'[m]) = R[m]
        BY <3>1, <4>1, Zenon
      <4> QED
        BY <3>3, <4>2, Zenon
    <3> QED
      BY <3>2, <3>3
  <2>3. [R EXCEPT ![n] = SubSeq(cuts, 1, to)] = [m \in Nodes |-> IF m = n THEN SubSeq(cuts, 1, to) ELSE R[m]]
    OBVIOUS
  <2> HIDE DEF R
  <2> QED
    BY <2>2, <2>3
<1>6. UseMetaLog!Read(n)
  BY <1>3, <1>4, <1>5 DEF UseMetaLog!Read
<1> QED
  BY <1>6 DEF UseMetaLog!Next

\* The append path uses the metalog as OrderedMetaLog provides it: a cut is
\* marked when the last one is committed, a node applies only what is committed
\* or sealed, in order.  With the refinement of MetaLogReplication this is the
\* interface between the two protocols.
THEOREM MetaLogRefinement == Spec => UsesOrderedMetaLog
<1>1. Init => UseMetaLog!Init
  <2> SUFFICES ASSUME Init PROVE UseMetaLog!Init
    OBVIOUS
  <2>1. cuts = <<>> /\ committed = 0 /\ sealed = {} /\ \A n \in Nodes : position[n] = 0
    BY DEF Init
  <2>2. SubSeq(cuts, 1, 0) = <<>>
    BY <2>1, SubSeqEmpty
  <2>3. [n \in Nodes |-> SubSeq(cuts, 1, position[n])] = [n \in Nodes |-> <<>>]
    BY <2>1, <2>2
  <2> QED
    BY <2>1, <2>3 DEF UseMetaLog!Init
<1>2. ASSUME IndInv, Bounded, [Next]_vars
      PROVE  [UseMetaLog!Next]_(UseMetaLog!vars)
  <2> USE <1>2
  <2> DEFINE Goal == [UseMetaLog!Next]_(UseMetaLog!vars)
  <2>1. ASSUME UNCHANGED metaVars PROVE Goal
    BY <2>1 DEF metaVars, UseMetaLog!vars
  <2>2. ASSUME MarkNextCut PROVE Goal
    <3>1. PICK o \in Orders(dirtyShards) : cuts' = Append(cuts, NextCut(o))
      BY <2>2 DEF MarkNextCut
    <3>2. /\ dirtyShards # {} /\ committed = Len(cuts)
          /\ UNCHANGED <<committed, position, sealed>>
      BY <2>2 DEF MarkNextCut
    <3>3. NextCut(o) \in Cut /\ NextCut(o) \in CutShapes
      BY <3>2, NextCutIsCut, NextCutFacts
    <3>4. cuts \in Seq(CutShapes) /\ \A n \in Nodes : position[n] \in 0..Len(cuts)
      BY DEF IndInv, TypeOK
    <3>5. \A n \in Nodes : SubSeq(cuts', 1, position'[n]) = SubSeq(cuts, 1, position[n])
      BY <3>1, <3>2, <3>3, <3>4, PrefixKept
    <3>6. UseMetaLog!Mark
      BY <3>1, <3>2, <3>3, <3>5 DEF UseMetaLog!Mark
    <3> QED
      BY <3>6 DEF UseMetaLog!Next
  <2>3. ASSUME ReplicateMetaLog PROVE Goal
    <3>1. /\ committed < Len(cuts) /\ committed' = committed + 1 /\ UNCHANGED <<cuts, position, sealed>>
          /\ \A p \in sealed : committed < p
      BY <2>3 DEF ReplicateMetaLog
    <3>2. committed \in Nat /\ Len(cuts) \in Nat /\ \A p \in sealed : p \in Int
      BY LenProperties DEF IndInv, TypeOK
    <3>3. committed' \in (committed + 1)..Len(cuts) /\ \A p \in sealed : committed' <= p
      BY <3>1, <3>2
    <3>4. UseMetaLog!Commit
      BY <3>1, <3>3 DEF UseMetaLog!Commit
    <3> QED
      BY <3>4 DEF UseMetaLog!Next
  <2>4. ASSUME SealView PROVE Goal
    <3>1. UseMetaLog!Seal
      BY <2>4 DEF SealView, UseMetaLog!Seal
    <3> QED
      BY <3>1 DEF UseMetaLog!Next
  <2>5. ASSUME NEW st \in Storages, StorageOnRecvNewMetaLogs(st) \/ StorageOnViewFinalized(st)
        PROVE  Goal
    <3>1. PICK to : StorageMoved(st, to)
      BY <2>5, StorageMoveShape
    <3>2. UseMetaLog!Next
      BY <3>1, ReadStep DEF StorageMoved, Nodes
    <3> QED
      BY <3>2
  <2>6. ASSUME NEW sh \in Shards, EngineOnRecvNewMetaLogs(sh) \/ EngineOnViewFinalized(sh)
        PROVE  Goal
    <3>1. PICK to : EngineMoved(sh, to)
      BY <2>6, EngineMoveShape
    <3>2. UseMetaLog!Next
      BY <3>1, ReadStep DEF EngineMoved, Nodes
    <3> QED
      BY <3>2
  <2>7. ASSUME \/ \E sh \in Shards : HandleLocalAppend(sh) \/ EngineOnViewFrozen(sh)
               \/ \E msg \in replicateMsgs : HandleReplicateRequest(msg)
               \/ \E st \in Storages : SendShardProgressIfNeeded(st)
               \/ \E msg \in progressMsgs : OnRecvShardProgress(msg)
               \/ PrimaryOnViewFrozen
               \/ UNCHANGED vars
        PROVE  UNCHANGED metaVars
    BY <2>7 DEF HandleLocalAppend, EngineOnViewFrozen, HandleReplicateRequest,
                SendShardProgressIfNeeded, OnRecvShardProgress, PrimaryOnViewFrozen, vars
  <2> HIDE DEF Goal
  <2>8. Goal
    BY <2>1, <2>2, <2>3, <2>4, <2>5, <2>6, <2>7 DEF Next
  <2> QED
    BY <2>8 DEF Goal
<1> QED
  BY <1>1, <1>2, Invariance, InitBounded, StepBounded, PTL
     DEF Spec, UsesOrderedMetaLog, UseMetaLog!Spec

-----------------------------------------------------------------------------
(* The log as AppendLog promises it. *)

\* The localids of the first k cuts, in seqnum order; the log of the refinement
\* mapping is LogOf(VisiblePosition).
LogOf(k) ==
    [i \in 1..Cardinality(EntriesOf(0, k)) |->
       (CHOOSE e \in EntriesOf(0, k) : e.seqnum = i - 1).localid]
LogSeq ==
    [i \in 1..Cardinality(Visible) |-> (CHOOSE e \in Visible : e.seqnum = i - 1).localid]

\* What is visible covers all positions.
LEMMA VisibleFacts ==
    ASSUME IndInv
    PROVE  /\ VisiblePosition \in 0..Len(cuts) /\ committed <= VisiblePosition
           /\ LogSeq = LogOf(VisiblePosition)
           /\ sealed = {} => VisiblePosition = committed
           /\ \A p \in sealed : p = VisiblePosition
           /\ \A n \in Nodes : position[n] <= VisiblePosition
<1>1. /\ committed \in 0..Len(cuts) /\ sealed \in SUBSET (0..Len(cuts)) /\ Len(cuts) \in Nat
      /\ \A n \in Nodes : position[n] \in 0..Len(cuts)
  BY LenProperties DEF IndInv, TypeOK
<1>2. /\ \A p, q \in sealed : p = q
      /\ \A p \in sealed : committed <= p
      /\ \A n \in Nodes : position[n] <= committed \/ \E p \in sealed : position[n] <= p
  BY DEF IndInv, MetaInv
<1>3. LogSeq = LogOf(VisiblePosition)
  BY DEF LogSeq, LogOf, Visible
<1>4. CASE sealed = {}
  <2>1. VisiblePosition = committed
    BY <1>4 DEF VisiblePosition
  <2> QED
    BY <1>1, <1>2, <1>3, <1>4, <2>1
<1>5. CASE sealed # {}
  <2>1. VisiblePosition \in sealed
    BY <1>5 DEF VisiblePosition
  <2>2. \A n \in Nodes : position[n] <= VisiblePosition
    BY <1>1, <1>2, <2>1
  <2> QED
    BY <1>1, <1>2, <1>3, <1>5, <2>1, <2>2
<1> QED
  BY <1>4, <1>5

\* The log of the first k cuts has an entry for each seqnum.
LEMMA LogOfFacts ==
    ASSUME IndInv, NEW k \in 0..Len(cuts)
    PROVE  /\ SeqnumEnd(k) \in Nat
           /\ LogOf(k) \in Seq(LocalIds) /\ Len(LogOf(k)) = SeqnumEnd(k)
           /\ DOMAIN LogOf(k) = 1..SeqnumEnd(k)
           /\ \A i \in 1..SeqnumEnd(k) :
                \E e \in AllEntries : e.seqnum = i - 1 /\ LogOf(k)[i] = e.localid
           /\ \A e \in AllEntries : e.seqnum \in Nat /\
                (e.seqnum < SeqnumEnd(k) => /\ e.seqnum + 1 \in 1..SeqnumEnd(k)
                                            /\ LogOf(k)[e.seqnum + 1] = e.localid)
           /\ \A e \in EntriesOf(0, k) : e \in AllEntries /\ e.seqnum < SeqnumEnd(k)
           /\ \A e \in AllEntries : e.seqnum < SeqnumEnd(k) => e \in EntriesOf(0, k)
<1> DEFINE N == SeqnumEnd(k)
           E == EntriesOf(0, k)
           At(s) == CHOOSE e \in E : e.seqnum = s
           f == [s \in 0..(N - 1) |-> At(s)]
<1>1. /\ N \in Nat /\ SeqnumEnd(0) = 0 /\ Len(cuts) \in Nat /\ 0 \in 0..Len(cuts)
      /\ \A e \in AllEntries : e.seqnum \in Nat
  BY PrefixFacts, LenProperties DEF IndInv, TypeOK, SeqnumEnd
<1>2. \A e : e \in E <=> e \in AllEntries /\ e.seqnum < N
  <2>1. \A e : e \in E <=> e \in AllEntries /\ SeqnumEnd(0) <= e.seqnum /\ e.seqnum < N
    BY <1>1, PrefixFacts DEF IndInv, TypeOK
  <2> HIDE DEF N, E
  <2> QED
    BY <1>1, <2>1
<1>3. \A s \in 0..(N - 1) : \E e \in AllEntries : e.seqnum = s
  <2>1. SeqnumEnd(Len(cuts)) \in Nat /\ N <= SeqnumEnd(Len(cuts))
    <3>1. Len(cuts) \in 0..Len(cuts) /\ k <= Len(cuts)
      BY <1>1
    <3> QED
      BY <3>1, PrefixFacts DEF IndInv, TypeOK, LogInv
  <2>2. \A s \in 0..(SeqnumEnd(Len(cuts)) - 1) : \E e \in AllEntries : e.seqnum = s
    BY DEF IndInv, LogInv
  <2> HIDE DEF N
  <2> QED
    BY <1>1, <2>1, <2>2
<1> HIDE DEF N, E
<1>4. \A s \in 0..(N - 1) : At(s) \in E /\ At(s).seqnum = s
  <2>1. \A s \in 0..(N - 1) : s < N
    BY <1>1
  <2> QED
    BY <1>2, <1>3, <2>1
<1>5. \A e \in E : e.seqnum \in 0..(N - 1) /\ At(e.seqnum) = e
  <2> SUFFICES ASSUME NEW e \in E PROVE e.seqnum \in 0..(N - 1) /\ At(e.seqnum) = e
    OBVIOUS
  <2>1. e.seqnum \in 0..(N - 1)
    BY <1>1, <1>2
  <2>2. At(e.seqnum) \in AllEntries /\ At(e.seqnum).seqnum = e.seqnum /\ e \in AllEntries
    BY <1>2, <1>4, <2>1
  <2> HIDE DEF At
  <2> QED
    BY <2>1, <2>2 DEF IndInv, LogInv
<1> HIDE DEF At
<1>6. f \in Bijection(0..(N - 1), E)
  <2>1. f \in [0..(N - 1) -> E]
    BY <1>4
  <2>2. \A s, t \in 0..(N - 1) : f[s] = f[t] => s = t
    BY <1>4
  <2>3. \A e \in E : \E s \in 0..(N - 1) : f[s] = e
    BY <1>5
  <2> HIDE DEF f
  <2> QED
    BY <2>1, <2>2, <2>3 DEF Bijection, Injection, Surjection, IsInjective
<1>7. Cardinality(E) = N
  <2>1. IsFiniteSet(0..(N - 1)) /\ Cardinality(0..(N - 1)) = IF 0 > N - 1 THEN 0 ELSE (N - 1) - 0 + 1
    <3>1. PICK m \in Int : m = N - 1
      BY <1>1
    <3>2. IsFiniteSet(0..m) /\ Cardinality(0..m) = IF 0 > m THEN 0 ELSE m - 0 + 1
      BY FS_Interval
    <3> QED
      BY <3>1, <3>2
  <2>2. Cardinality(0..(N - 1)) = N
    BY <1>1, <2>1
  <2>3. ExistsBijection(0..(N - 1), E)
    BY <1>6 DEF ExistsBijection
  <2> QED
    BY <2>1, <2>2, <2>3, FS_Bijection
<1>8. LogOf(k) = [i \in 1..N |-> At(i - 1).localid]
  BY <1>7 DEF LogOf, E, At
<1>9. \A i \in 1..N : i - 1 \in 0..(N - 1)
  BY <1>1
<1>10. ASSUME NEW i \in 1..N
       PROVE  /\ At(i - 1) \in AllEntries /\ At(i - 1).seqnum = i - 1
              /\ At(i - 1).localid \in LocalIds
  <2>1. At(i - 1) \in AllEntries /\ At(i - 1).seqnum = i - 1
    BY <1>2, <1>4, <1>9
  <2> QED
    BY <2>1, CutIsHeld
<1>11. LogOf(k) \in Seq(LocalIds) /\ Len(LogOf(k)) = N /\ DOMAIN LogOf(k) = 1..N
  BY <1>1, <1>8, <1>10
<1>12. \A i \in 1..N : LogOf(k)[i] = At(i - 1).localid
  BY <1>8
<1>13. ASSUME NEW e \in AllEntries, e.seqnum < N
       PROVE  e.seqnum + 1 \in 1..N /\ LogOf(k)[e.seqnum + 1] = e.localid
  <2>1. e \in E /\ e.seqnum \in Nat
    BY <1>1, <1>2, <1>13
  <2>2. e.seqnum + 1 \in 1..N /\ (e.seqnum + 1) - 1 = e.seqnum
    BY <1>1, <1>13, <2>1
  <2> QED
    BY <1>5, <1>12, <2>1, <2>2
<1> QED
  BY <1>1, <1>2, <1>10, <1>11, <1>12, <1>13 DEF N, E

\* A step that neither commits nor seals leaves the log alone.
LEMMA LogKept ==
    ASSUME IndInv, CutsKept, UNCHANGED <<committed, sealed>>
    PROVE  LogSeq' = LogSeq
<1>1. PICK k \in 0..Len(cuts) : k = VisiblePosition
  BY VisibleFacts
<1>2. VisiblePosition' = k
  BY <1>1 DEF VisiblePosition
<1>3. EntriesOf(0, k)' = EntriesOf(0, k)
  BY DEF CutsKept
<1>4. Visible' = Visible
  BY <1>1, <1>2, <1>3 DEF Visible, EntriesOf
<1> QED
  BY <1>4 DEF LogSeq

\* In the log of the first k cuts an entry has as many entries of its shard
\* before it as its localid says.
LEMMA ShardOrder ==
    ASSUME IndInv, NEW k \in 0..Len(cuts), NEW i \in 1..SeqnumEnd(k)
    PROVE  Cardinality({j \in 1..(i - 1) : LogOf(k)[j].shard = LogOf(k)[i].shard}) = LogOf(k)[i].id
<1> DEFINE N == SeqnumEnd(k)
           L == LogOf(k)
           B == {j \in 1..(i - 1) : L[j].shard = L[i].shard}
           f == [j \in B |-> L[j].id]
<1>1. /\ N \in Nat
      /\ \A j \in 1..N : \E e \in AllEntries : e.seqnum = j - 1 /\ L[j] = e.localid
      /\ \A e \in AllEntries : e.seqnum \in Nat /\
           (e.seqnum < N => e.seqnum + 1 \in 1..N /\ L[e.seqnum + 1] = e.localid)
  BY LogOfFacts
<1> HIDE DEF N, L
<1>2. i \in 1..N /\ i \in Nat /\ \A j \in 1..(i - 1) : j \in 1..N /\ j < i
  BY <1>1 DEF N
<1>3. PICK e \in AllEntries : e.seqnum = i - 1 /\ L[i] = e.localid
  BY <1>1, <1>2
<1>4. /\ e.localid \in LocalIds /\ e.localid.shard \in Shards /\ e.localid.id \in Nat
      /\ e.localid = [shard |-> e.localid.shard, id |-> e.localid.id]
      /\ e.localid.id < lastCut[e.localid.shard]
  <2>1. e.localid \in LocalIds /\ e.localid.id < lastCut[e.localid.shard]
    BY CutIsHeld DEF IndInv, LogInv
  <2> QED
    BY <2>1, LocalIdFacts
<1>5. \A g, h \in AllEntries :
        g.localid.shard = h.localid.shard => (g.localid.id < h.localid.id <=> g.seqnum < h.seqnum)
  BY DEF IndInv, LogInv
<1>6. ASSUME NEW j \in B
      PROVE  \E g \in AllEntries : /\ g.seqnum = j - 1 /\ L[j] = g.localid
                                   /\ g.localid.id \in 0..(L[i].id - 1)
  <2>1. j \in 1..N /\ j < i /\ L[j].shard = L[i].shard /\ j \in Nat
    BY <1>2
  <2>2. PICK g \in AllEntries : g.seqnum = j - 1 /\ L[j] = g.localid
    BY <1>1, <2>1
  <2>3. g.seqnum < e.seqnum
    BY <1>2, <1>3, <2>1, <2>2
  <2>4. g.localid.id < e.localid.id
    BY <1>3, <1>5, <2>1, <2>2, <2>3
  <2>5. g.localid.id \in Nat
    <3>1. g.localid \in LocalIds
      BY CutIsHeld
    <3> QED
      BY <3>1, LocalIdFacts
  <2> QED
    BY <1>3, <1>4, <2>2, <2>4, <2>5
<1>7. f \in [B -> 0..(L[i].id - 1)]
  <2>1. \A j \in B : L[j].id \in 0..(L[i].id - 1)
    BY <1>6
  <2> HIDE DEF B
  <2> QED
    BY <2>1
<1>8. ASSUME NEW j \in B, NEW m \in B, f[j] = f[m] PROVE j = m
  <2>1. PICK g \in AllEntries : g.seqnum = j - 1 /\ L[j] = g.localid
    BY <1>6
  <2>2. PICK h \in AllEntries : h.seqnum = m - 1 /\ L[m] = h.localid
    BY <1>6
  <2>3. g.localid.shard = h.localid.shard /\ g.localid.id = h.localid.id
    BY <1>8, <2>1, <2>2
  <2>4. g.localid = h.localid
    <3>1. /\ g.localid = [shard |-> g.localid.shard, id |-> g.localid.id]
          /\ h.localid = [shard |-> h.localid.shard, id |-> h.localid.id]
      BY CutIsHeld
    <3> QED
      BY <2>3, <3>1
  <2>5. g = h
    BY <2>4, LocalIdIsUnique
  <2>6. j \in Int /\ m \in Int
    BY <1>2
  <2> QED
    BY <2>1, <2>2, <2>5, <2>6
<1>9. ASSUME NEW x \in 0..(L[i].id - 1) PROVE \E j \in B : f[j] = x
  <2>1. x \in 0..(lastCut[e.localid.shard] - 1) /\ x < e.localid.id /\ x \in Nat
    <3>1. lastCut[e.localid.shard] \in Nat
      BY <1>4, LocalIdFacts DEF IndInv, TypeOK
    <3> QED
      BY <1>3, <1>4, <3>1
  <2>2. Has(AllEntries, [shard |-> e.localid.shard, id |-> x])
    BY <1>4, <2>1 DEF IndInv, LogInv
  <2>3. PICK g \in AllEntries : g.localid = [shard |-> e.localid.shard, id |-> x]
    BY <2>2 DEF Has
  <2>4. g.localid.shard = e.localid.shard /\ g.localid.id = x
    BY <2>3
  <2>5. g.seqnum \in Nat /\ g.seqnum < e.seqnum
    BY <1>1, <1>5, <2>1, <2>4
  <2>6. g.seqnum < N /\ g.seqnum + 1 \in 1..(i - 1)
    BY <1>1, <1>2, <1>3, <2>5
  <2>7. L[g.seqnum + 1] = g.localid
    BY <1>1, <2>6
  <2>8. g.seqnum + 1 \in B
    BY <1>3, <2>4, <2>6, <2>7
  <2> QED
    BY <2>4, <2>7, <2>8
<1> HIDE DEF f, B
<1>10. f \in Bijection(B, 0..(L[i].id - 1))
  BY <1>7, <1>8, <1>9 DEF Bijection, Injection, Surjection, IsInjective
<1>11. Cardinality(B) = L[i].id
  <2>1. PICK m \in Int : m = L[i].id - 1
    BY <1>3, <1>4
  <2>2. IsFiniteSet(0..m) /\ Cardinality(0..m) = IF 0 > m THEN 0 ELSE m - 0 + 1
    BY FS_Interval
  <2>3. Cardinality(0..m) = L[i].id
    BY <1>3, <1>4, <2>1, <2>2
  <2>4. f \in Injection(B, 0..m) /\ f \in Surjection(B, 0..m)
    BY <1>10, <2>1 DEF Bijection
  <2>5. Cardinality(B) = Cardinality(0..m)
    BY <2>2, <2>4, FS_Injection
  <2> QED
    BY <2>3, <2>5
<1> QED
  BY <1>11 DEF B, L

\* AppendLog counts as this module does.
LEMMA SameCardinality == \A S : Log!Cardinality(S) = Cardinality(S)
  BY DEF Log!Cardinality, Cardinality

\* Committing a cut, or sealing beyond the committed ones, makes entries
\* visible: an Order step.
LEMMA OrderStep ==
    ASSUME IndInv, UNCHANGED <<cuts, nextId, acked, discarded>>, sealed = {},
           NEW k \in 0..Len(cuts), committed < k, VisiblePosition' = k
    PROVE  Log!Next
<1> DEFINE a == committed
<1>1. a \in 0..Len(cuts) /\ LogSeq = LogOf(a) /\ Len(cuts) \in Nat
  BY VisibleFacts, LenProperties DEF IndInv, TypeOK
<1>2. LogSeq' = LogOf(k)
  <2>1. EntriesOf(0, k)' = EntriesOf(0, k)
    BY DEF EntriesOf
  <2>2. Visible' = EntriesOf(0, k)
    BY <2>1 DEF Visible, EntriesOf
  <2> QED
    BY <2>2 DEF LogSeq, LogOf
<1> HIDE DEF a
<1>3. SeqnumEnd(a) \in Nat /\ SeqnumEnd(k) \in Nat /\ SeqnumEnd(a) < SeqnumEnd(k)
  <2>1. a <= k - 1 /\ k - 1 \in 0..Len(cuts) /\ k \in 1..Len(cuts) /\ a \in Int
    BY <1>1 DEF a
  <2>2. cuts \in Seq(CutShapes) /\ cuts[k] \in CutShapes
    BY <2>1, ElementOfSeq DEF IndInv, TypeOK
  <2>3. /\ SeqnumEnd(a) <= SeqnumEnd(k - 1) /\ cuts[k].start = SeqnumEnd(k - 1)
        /\ SeqnumEnd(k) = CutEnd(cuts[k])
    <3>1. k # 0
      BY <2>1
    <3> QED
      BY <1>1, <2>1, <3>1 DEF IndInv, LogInv, SeqnumEnd
  <2>4. cuts[k].start < CutEnd(cuts[k]) /\ CutEnd(cuts[k]) \in Nat
    BY <2>2, CutSeqnums
  <2>5. SeqnumEnd(a) \in Nat /\ SeqnumEnd(k - 1) \in Nat
    BY <1>1, <2>1, <2>2, PrefixFacts DEF IndInv
  <2> QED
    BY <2>3, <2>4, <2>5
<1>4. /\ LogOf(a) \in Seq(LocalIds) /\ Len(LogOf(a)) = SeqnumEnd(a)
      /\ \A i \in 1..SeqnumEnd(a) : \E e \in AllEntries : e.seqnum = i - 1 /\ LogOf(a)[i] = e.localid
  BY <1>1, LogOfFacts
<1>5. /\ LogOf(k) \in Seq(LocalIds) /\ Len(LogOf(k)) = SeqnumEnd(k)
      /\ \A i \in 1..SeqnumEnd(k) : \E e \in AllEntries : e.seqnum = i - 1 /\ LogOf(k)[i] = e.localid
      /\ \A e \in AllEntries : e.seqnum \in Nat /\
           (e.seqnum < SeqnumEnd(k) => LogOf(k)[e.seqnum + 1] = e.localid)
  BY LogOfFacts
<1> DEFINE La == LogOf(a)
           Lk == LogOf(k)
           Na == SeqnumEnd(a)
           Nk == SeqnumEnd(k)
<1> HIDE DEF La, Lk, Na, Nk
<1>6. SubSeq(Lk, 1, Na) = La
  <2>1. \A i \in 1..Na : i \in 1..Nk /\ Lk[i] \in LocalIds
    BY <1>3, <1>5, ElementOfSeq DEF Lk, Na, Nk
  <2>2. /\ SubSeq(Lk, 1, Na) \in Seq(LocalIds)
        /\ Len(SubSeq(Lk, 1, Na)) = IF 1 <= Na THEN Na - 1 + 1 ELSE 0
        /\ \A i \in 1..(Na - 1 + 1) : SubSeq(Lk, 1, Na)[i] = Lk[1 + i - 1]
    <3>1. Na \in Int /\ 1 \in Int
      BY <1>3 DEF Na
    <3> QED
      BY <2>1, <3>1, SubSeqProperties
  <2>3. Na \in Nat
    BY <1>3 DEF Na
  <2>4. Len(SubSeq(Lk, 1, Na)) = Na
    BY <2>2, <2>3
  <2>5. ASSUME NEW i \in 1..Na PROVE SubSeq(Lk, 1, Na)[i] = La[i]
    <3>1. i \in 1..(Na - 1 + 1) /\ 1 + i - 1 = i
      BY <2>3
    <3>2. PICK e \in AllEntries : e.seqnum = i - 1 /\ La[i] = e.localid
      BY <1>4 DEF La, Na
    <3>3. e.seqnum < Nk /\ e.seqnum + 1 = i
      BY <1>3, <2>3, <3>2 DEF Na, Nk
    <3>4. Lk[i] = e.localid
      BY <1>5, <3>3 DEF Lk, Nk
    <3> QED
      BY <2>2, <3>1, <3>2, <3>4
  <2> QED
    BY <1>4, <2>2, <2>4, <2>5, SeqEqual DEF La, Na
<1>7. UNION {discarded[sh] : sh \in Shards} = {}
  <2>1. viewFinalized = {}
    BY DEF IndInv, MetaInv
  <2> QED
    BY <2>1 DEF IndInv, EngineInv
<1>8. ASSUME NEW i \in (Na + 1)..Nk
      PROVE  /\ Lk[i].id < nextId[Lk[i].shard]
             /\ Cardinality({j \in 1..(i - 1) : Lk[j].shard = Lk[i].shard}) = Lk[i].id
  <2>1. i \in 1..SeqnumEnd(k)
    BY <1>3 DEF Na, Nk
  <2>2. PICK e \in AllEntries : Lk[i] = e.localid
    BY <1>5, <2>1 DEF Lk
  <2>3. e.localid \in Issued
    BY CutIsHeld
  <2> QED
    BY <2>1, <2>2, <2>3, ShardOrder DEF Lk, Issued
<1>9. Len(Lk) = Nk /\ Len(La) = Na /\ Nk > Na
  BY <1>3, <1>4, <1>5 DEF La, Lk, Na, Nk
<1>10. LogSeq = La /\ LogSeq' = Lk
  BY <1>1, <1>2 DEF La, Lk
<1>11. Answers' = Answers
  BY DEF Answers
<1>12. /\ Len(LogSeq') > Len(LogSeq)
       /\ SubSeq(LogSeq', 1, Len(LogSeq)) = LogSeq
       /\ \A i \in (Len(LogSeq) + 1)..Len(LogSeq') :
            /\ LogSeq'[i] \notin UNION {discarded[sh] : sh \in Shards}
            /\ LogSeq'[i].id < nextId[LogSeq'[i].shard]
            /\ Log!Cardinality({j \in 1..(i - 1) : LogSeq'[j].shard = LogSeq'[i].shard}) = LogSeq'[i].id
  BY <1>6, <1>7, <1>8, <1>9, <1>10, SameCardinality
<1>13. UNCHANGED <<nextId, Answers, UNION {discarded[sh] : sh \in Shards}>>
  BY <1>11
<1>14. Log!Order
  BY <1>12, <1>13, Zenon DEF Log!Order, LogSeq
<1> QED
  BY <1>14 DEF Log!Next

\* An engine that applies cuts answers with the seqnums of the log; at the end
\* of the view it discards only what is not in the log.
LEMMA AnswerStep ==
    ASSUME IndInv, NEW sh \in Shards, NEW to, EngineMoved(sh, to)
    PROVE  Log!Next
<1> DEFINE V == VisiblePosition
           N == SeqnumEnd(V)
           mine == EngineMine(sh, to)
           rest == pendingAppends[sh] \ LocalIdsOf(mine)
           Dropped == UNION {discarded[x] : x \in Shards}
<1>1. /\ \/ to \in (position[sh] + 1)..committed
         \/ to \in sealed /\ sh \notin viewFinalized
      /\ acked' = [acked EXCEPT ![sh] = acked[sh] \cup mine]
      /\ \/ to \in sealed /\ discarded' = [discarded EXCEPT ![sh] = rest]
         \/ UNCHANGED discarded
      /\ UNCHANGED <<nextId, cuts, committed, sealed>>
  BY DEF EngineMoved
<1>2. /\ position[sh] \in 0..Len(cuts) /\ to \in 0..Len(cuts) /\ position[sh] <= to
      /\ sh \notin viewFinalized /\ (to <= committed \/ to \in sealed)
  BY <1>1, MoveFacts DEF Nodes
<1>3. /\ V \in 0..Len(cuts) /\ committed <= V /\ LogSeq = LogOf(V) /\ \A p \in sealed : p = V
  BY VisibleFacts
<1>4. Len(cuts) \in Nat /\ committed \in Nat /\ cuts \in Seq(CutShapes) /\ LogInv
  BY LenProperties DEF IndInv, TypeOK
<1>5. to <= V
  BY <1>2, <1>3, <1>4
<1>6. /\ N \in Nat /\ DOMAIN LogOf(V) = 1..N
      /\ \A i \in 1..N : \E e \in AllEntries : e.seqnum = i - 1 /\ LogOf(V)[i] = e.localid
      /\ \A e \in AllEntries : e.seqnum < N => e.seqnum + 1 \in 1..N /\ LogOf(V)[e.seqnum + 1] = e.localid
      /\ \A e \in EntriesOf(0, V) : e \in AllEntries /\ e.seqnum < N
      /\ \A e \in AllEntries : e.seqnum \in Nat /\ (e.seqnum < N => e \in EntriesOf(0, V))
  BY <1>3, LogOfFacts
<1>7. /\ rest = {l \in Issued : l.shard = sh /\ ~Has(EntriesOf(0, to), l)}
      /\ acked[sh] \cup mine = {e \in EntriesOf(0, to) : e.localid.shard = sh}
  BY <1>2, EngineApplies DEF EngineMine, LocalIdsOf
<1>8. EntriesOf(0, to) \subseteq EntriesOf(0, V)
  <2>1. EntriesOf(0, V) = EntriesOf(0, to) \cup EntriesOf(to, V)
    BY <1>2, <1>3, <1>4, <1>5, NewEntries
  <2> QED
    BY <2>1
<1> HIDE DEF V, N, mine, rest
<1>9. /\ acked \in [Shards -> SUBSET Entries] /\ discarded \in [Shards -> SUBSET LocalIds]
      /\ discarded[sh] = {}
  BY <1>2 DEF IndInv, TypeOK, EngineInv
<1>10. Answers' = Answers \cup mine
  <2>1. \A x \in Shards : acked'[x] = IF x = sh THEN acked[sh] \cup mine ELSE acked[x]
    BY <1>1, <1>9
  <2> QED
    BY <2>1 DEF Answers
<1>11. Dropped' = Dropped \/ (to \in sealed /\ Dropped' = Dropped \cup rest)
  <2>1. CASE UNCHANGED discarded
    BY <2>1
  <2>2. CASE to \in sealed /\ discarded' = [discarded EXCEPT ![sh] = rest]
    <3>1. \A x \in Shards : discarded'[x] = IF x = sh THEN rest ELSE discarded[x]
      BY <1>9, <2>2
    <3>2. Dropped' = Dropped \cup rest
      BY <1>9, <3>1
    <3> QED
      BY <2>2, <3>2
  <2> QED
    BY <1>1, <2>1, <2>2
<1> HIDE DEF Dropped
<1>12. LogSeq' = LogSeq
  <2>1. CutsKept
    BY <1>1, <1>4, LogFrame
  <2> QED
    BY <1>1, <2>1, LogKept
<1>13. ASSUME NEW e \in mine
       PROVE  e.seqnum + 1 \in DOMAIN LogSeq /\ LogSeq[e.seqnum + 1] = e.localid
  <2>1. e \in EntriesOf(0, V)
    BY <1>7, <1>8
  <2>2. e \in AllEntries /\ e.seqnum < N
    BY <1>6, <2>1
  <2> QED
    BY <1>3, <1>6, <2>2
<1>14. ASSUME to \in sealed, NEW l \in rest
       PROVE  l.id < nextId[l.shard] /\ ~\E i \in DOMAIN LogSeq : LogSeq[i] = l
  <2>1. to = V /\ l \in Issued /\ ~Has(EntriesOf(0, V), l)
    BY <1>3, <1>7, <1>14
  <2>2. ASSUME NEW i \in DOMAIN LogSeq, LogSeq[i] = l PROVE FALSE
    <3>1. i \in 1..N
      BY <1>3, <1>6
    <3>2. PICK e \in AllEntries : e.seqnum = i - 1 /\ LogSeq[i] = e.localid
      BY <1>3, <1>6, <3>1
    <3>3. e.seqnum < N
      BY <1>6, <3>1, <3>2
    <3>4. e \in EntriesOf(0, V)
      BY <1>6, <3>3
    <3> QED
      BY <2>1, <2>2, <3>2, <3>4 DEF Has
  <2> QED
    BY <2>1, <2>2 DEF Issued
<1>15. /\ Answers \subseteq Answers' /\ Dropped \subseteq Dropped'
       /\ \A a \in Answers' \ Answers : a.seqnum + 1 \in DOMAIN LogSeq /\ LogSeq[a.seqnum + 1] = a.localid
       /\ \A l \in Dropped' \ Dropped :
            l.id < nextId[l.shard] /\ ~\E i \in DOMAIN LogSeq : LogSeq[i] = l
  BY <1>10, <1>11, <1>13, <1>14
<1>16. UNCHANGED <<nextId, LogSeq>>
  BY <1>1, <1>12
<1>17. Log!Answer
  BY <1>15, <1>16, Zenon DEF Log!Answer, Log!InLog, LogSeq, Dropped
<1> QED
  BY <1>17 DEF Log!Next

\* The append path implements AppendLog, for every number of shards, storage
\* nodes, appends and cuts: the log grows only at its end, holds the entries of
\* each engine in their order and without gaps, and every append is answered
\* with its place in it or is discarded and never in it.
THEOREM LogRefinement == Spec => ImplementsAppendLog
<1>1. Init => Log!Init
  <2> SUFFICES ASSUME Init PROVE Log!Init
    OBVIOUS
  <2>1. Visible = {}
    <3>1. VisiblePosition = 0
      BY DEF Init, VisiblePosition
    <3> QED
      BY <3>1 DEF Visible, EntriesOf
  <2>2. Cardinality(Visible) = 0
    BY <2>1, FS_EmptySet
  <2>3. LogSeq = <<>>
    BY <2>2 DEF LogSeq
  <2>4. Answers = {} /\ UNION {discarded[sh] : sh \in Shards} = {}
    BY DEF Init, Answers
  <2>5. nextId = [p \in Shards |-> 0]
    BY DEF Init
  <2> QED
    BY <2>3, <2>4, <2>5 DEF Log!Init, LogSeq
<1>2. ASSUME IndInv, [Next]_vars
      PROVE  [Log!Next]_(Log!vars)
  <2> USE <1>2
  <2> DEFINE Goal == [Log!Next]_(Log!vars)
             Dropped == UNION {discarded[sh] : sh \in Shards}
  <2>0. cuts \in Seq(CutShapes) /\ Len(cuts) \in Nat /\ committed \in 0..Len(cuts)
    BY LenProperties DEF IndInv, TypeOK
  <2>1. ASSUME UNCHANGED <<nextId, acked, discarded>>, LogSeq' = LogSeq PROVE Goal
    <3>1. Answers' = Answers /\ Dropped' = Dropped
      BY <2>1 DEF Answers
    <3> QED
      BY <2>1, <3>1 DEF Log!vars, LogSeq
  <2>2. ASSUME NEW sh \in Shards, HandleLocalAppend(sh) PROVE Goal
    <3>1. /\ nextId' = [nextId EXCEPT ![sh] = nextId[sh] + 1]
          /\ UNCHANGED <<acked, discarded, cuts, committed, sealed>>
      BY <2>2 DEF HandleLocalAppend, metaVars
    <3>2. LogSeq' = LogSeq
      BY <2>0, <3>1, LogFrame, LogKept
    <3>3. Answers' = Answers /\ Dropped' = Dropped
      BY <3>1 DEF Answers
    <3>4. Log!Issue(sh)
      BY <3>1, <3>2, <3>3 DEF Log!Issue, LogSeq
    <3> QED
      BY <3>4 DEF Log!Next
  <2>3. ASSUME MarkNextCut PROVE Goal
    <3>1. PICK o \in Orders(dirtyShards) : cuts' = Append(cuts, NextCut(o))
      BY <2>3 DEF MarkNextCut
    <3>2. dirtyShards # {} /\ UNCHANGED <<nextId, acked, discarded, committed, sealed>>
      BY <2>3 DEF MarkNextCut, engineVars
    <3>3. NextCut(o) \in CutShapes
      BY <3>2, NextCutFacts
    <3>4. CutsKept
      <4>1. /\ Len(cuts') = Len(cuts) + 1
            /\ \A a, b \in 0..Len(cuts) : EntriesOf(a, b)' = EntriesOf(a, b)
        BY <2>0, <3>1, <3>3, CutsGrow
      <4>2. Len(cuts) <= Len(cuts') /\ 0 \in 0..Len(cuts)
        BY <2>0, <4>1
      <4> QED
        BY <4>1, <4>2 DEF CutsKept
    <3> QED
      BY <2>1, <3>2, <3>4, LogKept
  <2>4. ASSUME ReplicateMetaLog PROVE Goal
    <3>1. /\ committed < Len(cuts) /\ committed' = committed + 1
          /\ UNCHANGED <<nextId, acked, discarded, cuts, sealed>>
      BY <2>4 DEF ReplicateMetaLog, engineVars
    <3>2. CASE sealed = {}
      <4>1. PICK k : k = committed + 1
        OBVIOUS
      <4>2. VisiblePosition' = k
        BY <3>1, <3>2, <4>1 DEF VisiblePosition
      <4>3. k \in 0..Len(cuts) /\ committed < k
        BY <2>0, <3>1, <4>1
      <4>4. Log!Next
        BY <3>1, <3>2, <4>2, <4>3, OrderStep
      <4> QED
        BY <4>4
    <3>3. CASE sealed # {}
      <4>1. VisiblePosition' = VisiblePosition
        BY <3>1, <3>3 DEF VisiblePosition
      <4>2. Visible' = Visible
        BY <3>1, <4>1 DEF Visible, EntriesOf
      <4>3. LogSeq' = LogSeq
        BY <4>2 DEF LogSeq
      <4> QED
        BY <2>1, <3>1, <4>3
    <3> QED
      BY <3>2, <3>3
  <2>5. ASSUME SealView PROVE Goal
    <3>1. sealed = {} /\ UNCHANGED <<nextId, acked, discarded, cuts, committed>>
      BY <2>5 DEF SealView, engineVars
    <3>2. PICK p \in committed..Len(cuts) : sealed' = {p}
      BY <2>5 DEF SealView
    <3>3. VisiblePosition' = p
      BY <3>2 DEF VisiblePosition
    <3>4. CASE p = committed
      <4>1. VisiblePosition' = VisiblePosition
        BY <3>1, <3>3, <3>4 DEF VisiblePosition
      <4>2. Visible' = Visible
        BY <3>1, <4>1 DEF Visible, EntriesOf
      <4>3. LogSeq' = LogSeq
        BY <4>2 DEF LogSeq
      <4> QED
        BY <2>1, <3>1, <4>3
    <3>5. CASE p # committed
      <4>1. p \in 0..Len(cuts) /\ committed < p
        BY <2>0, <3>2, <3>5
      <4>2. Log!Next
        BY <3>1, <3>3, <4>1, OrderStep
      <4> QED
        BY <4>2
    <3> QED
      BY <3>4, <3>5
  <2>6. ASSUME NEW st \in Storages, StorageOnRecvNewMetaLogs(st) \/ StorageOnViewFinalized(st)
        PROVE  Goal
    <3>1. UNCHANGED <<nextId, acked, discarded, cuts, committed, sealed>>
      <4>1. PICK to : StorageMoved(st, to)
        BY <2>6, StorageMoveShape
      <4> QED
        BY <4>1 DEF StorageMoved, engineVars
    <3>2. LogSeq' = LogSeq
      BY <2>0, <3>1, LogFrame, LogKept
    <3> QED
      BY <2>1, <3>1, <3>2
  <2>7. ASSUME NEW sh \in Shards, EngineOnRecvNewMetaLogs(sh) \/ EngineOnViewFinalized(sh)
        PROVE  Goal
    <3>1. PICK to : EngineMoved(sh, to)
      BY <2>7, EngineMoveShape
    <3>2. Log!Next
      BY <3>1, AnswerStep
    <3> QED
      BY <3>2
  <2>8. ASSUME \/ \E sh \in Shards : EngineOnViewFrozen(sh)
               \/ \E msg \in replicateMsgs : HandleReplicateRequest(msg)
               \/ \E st \in Storages : SendShardProgressIfNeeded(st)
               \/ \E msg \in progressMsgs : OnRecvShardProgress(msg)
               \/ PrimaryOnViewFrozen
               \/ UNCHANGED vars
        PROVE  Goal
    <3>1. UNCHANGED <<nextId, acked, discarded, cuts, committed, sealed>>
      BY <2>8 DEF EngineOnViewFrozen, HandleReplicateRequest, SendShardProgressIfNeeded,
                  OnRecvShardProgress, PrimaryOnViewFrozen, vars, engineVars, metaVars
    <3>2. LogSeq' = LogSeq
      BY <2>0, <3>1, LogFrame, LogKept
    <3> QED
      BY <2>1, <3>1, <3>2
  <2> HIDE DEF Goal
  <2>9. Goal
    BY <2>2, <2>3, <2>4, <2>5, <2>6, <2>7, <2>8 DEF Next
  <2> QED
    BY <2>9 DEF Goal
<1> QED
  BY <1>1, <1>2, Invariance, PTL DEF Spec, ImplementsAppendLog, Log!Spec
=============================================================================
