---------------------- MODULE MetaLogReplication_proofs ----------------------
(***************************************************************************)
(* Proofs about MetaLogReplication, for every set of backups and nodes and *)
(* every bound.                                                            *)
(***************************************************************************)
EXTENDS MetaLogReplication, FiniteSetTheorems, SequenceTheorems,
        WellFoundedInduction, TLAPS

-----------------------------------------------------------------------------
(* Least and greatest elements. *)

\* Every non-empty set of naturals has a least element: the form of induction
\* on which the facts about CHOOSE below rest.
LEMMA NatMin ==
    ASSUME NEW T \in SUBSET Nat, T # {}
    PROVE  \E x \in T : \A y \in T : x <= y
<1> DEFINE R == {ss \in Nat \X Nat : ss[1] < ss[2]}
<1>1. IsWellFoundedOn(R, Nat)
  BY NatLessThanWellFounded DEF OpToRel
<1> HIDE DEF R
<1>2. PICK x \in T : \A y \in T : ~(<<y, x>> \in R)
  BY <1>1, WFMin
<1>3. \A y \in T : ~(y < x)
  BY <1>2 DEF R
<1> QED
  BY <1>3

\* AdvanceMetaLogProgress stops at the first position that is not pending.
LEMMA AdvanceStops ==
    ASSUME NEW pos \in 0..MaxMetaLogs, NEW pend \in SUBSET MetaLogs
    PROVE  LET q == AdvanceMetaLogProgress(pos, pend)
           IN  /\ q \in pos..MaxMetaLogs
               /\ q \notin Seqnums(pend)
               /\ \A s \in pos..(q - 1) : s \in Seqnums(pend)
<1> USE ReplicationAssumption
<1> DEFINE T == {q \in pos..MaxMetaLogs : q \notin Seqnums(pend)}
<1>1. MaxMetaLogs \in T /\ T \in SUBSET Nat
  BY DEF Seqnums, MetaLogs
<1> HIDE DEF T
<1>2. PICK q \in T : \A y \in T : q <= y
  BY <1>1, NatMin
<1>3. \A s \in pos..(q - 1) : s \in Seqnums(pend)
  BY <1>2 DEF T
<1>4. \E x \in pos..MaxMetaLogs :
        /\ x \notin Seqnums(pend)
        /\ \A s \in pos..(x - 1) : s \in Seqnums(pend)
  BY <1>2, <1>3 DEF T
<1> QED
  BY <1>4 DEF AdvanceMetaLogProgress

\* FinalPosition is the position after the last metalog of a tail.
LEMMA FinalPositionIsMax ==
    ASSUME NEW tail \in SUBSET MetaLogs
    PROVE  /\ FinalPosition(tail) \in 0..MaxMetaLogs
           /\ \A m \in tail : m.seqnum < FinalPosition(tail)
           /\ tail = {} => FinalPosition(tail) = 0
           /\ tail # {} => \E m \in tail : FinalPosition(tail) = m.seqnum + 1
<1> USE ReplicationAssumption
<1>1. CASE tail = {}
  BY <1>1 DEF FinalPosition
<1>2. CASE tail # {}
  <2> DEFINE T == {k \in 0..MaxMetaLogs : \E m \in tail : k = MaxMetaLogs - m.seqnum}
  <2>1. \A m \in tail : m.seqnum \in 0..(MaxMetaLogs - 1)
    BY DEF MetaLogs
  <2>2. T \in SUBSET Nat /\ \A m \in tail : MaxMetaLogs - m.seqnum \in T
    BY <2>1
  <2> HIDE DEF T
  <2>3. PICK k \in T : \A y \in T : k <= y
    BY <1>2, <2>2, NatMin
  <2>4. PICK m \in tail : k = MaxMetaLogs - m.seqnum
    BY <2>3 DEF T
  <2>5. \A x \in tail : x.seqnum <= m.seqnum
    BY <2>1, <2>2, <2>3, <2>4
  <2> DEFINE top == CHOOSE y \in tail : \A x \in tail : x.seqnum <= y.seqnum
  <2>6. top \in tail /\ \A x \in tail : x.seqnum <= top.seqnum
    BY <2>5
  <2>7. FinalPosition(tail) = top.seqnum + 1
    BY <1>2 DEF FinalPosition
  <2> HIDE DEF top
  <2> QED
    BY <1>2, <2>1, <2>6, <2>7
<1> QED
  BY <1>1, <1>2

\* SortedAt(prog, k) exists for an index k of the sorted array.
LEMMA SortedAtExists ==
    ASSUME NEW prog \in [Backups -> 0..MaxMetaLogs],
           NEW k \in Nat, k < Cardinality(Backups)
    PROVE  LET v == SortedAt(prog, k)
           IN  /\ v \in {prog[b] : b \in Backups}
               /\ Cardinality({b \in Backups : prog[b] < v}) <= k
               /\ Cardinality({b \in Backups : prog[b] <= v}) > k
<1> USE ReplicationAssumption
<1> DEFINE AtMost(v) == {b \in Backups : prog[b] <= v}
           Below(v)  == {b \in Backups : prog[b] < v}
           T == {v \in 0..MaxMetaLogs : Cardinality(AtMost(v)) > k}
<1>1. \A v : /\ Cardinality(AtMost(v)) \in Nat
             /\ Cardinality(Below(v)) \in Nat
             /\ IsFiniteSet(AtMost(v))
             /\ IsFiniteSet(Below(v))
  BY FS_Subset, FS_CardinalityType
<1>2. AtMost(MaxMetaLogs) = Backups
  OBVIOUS
<1>3. MaxMetaLogs \in T /\ T \in SUBSET Nat
  BY <1>2
<1> HIDE DEF T
<1>4. PICK v \in T : \A y \in T : v <= y
  BY <1>3, NatMin
<1>4a. v \in 0..MaxMetaLogs /\ Cardinality(AtMost(v)) > k
  BY <1>4 DEF T
<1>5. Cardinality(Below(v)) <= k
  <2>1. CASE v = 0
    <3>1. Below(v) = {}
      BY <2>1
    <3> QED
      BY <3>1, FS_EmptySet
  <2>2. CASE v # 0
    <3>1. Below(v) = AtMost(v - 1)
      BY <2>2, <1>4a
    <3>2. v - 1 \in 0..MaxMetaLogs /\ v - 1 \notin T
      BY <2>2, <1>4, <1>4a
    <3>3. ~(Cardinality(AtMost(v - 1)) > k)
      BY <3>2 DEF T
    <3>4. Cardinality(AtMost(v - 1)) \in Nat
      BY <1>1
    <3> HIDE DEF AtMost, Below
    <3> QED
      BY <3>1, <3>3, <3>4
  <2> QED
    BY <2>1, <2>2
<1>6. v \in {prog[b] : b \in Backups}
  <2>1. Below(v) # AtMost(v)
    BY <1>1, <1>4a, <1>5, SMTT(60)
  <2> QED
    BY <2>1, <1>4a
<1>7. \E x \in {prog[b] : b \in Backups} :
        /\ Cardinality({b \in Backups : prog[b] < x}) <= k
        /\ Cardinality({b \in Backups : prog[b] <= x}) > k
  BY <1>4a, <1>5, <1>6
<1> QED
  BY <1>7 DEF SortedAt

-----------------------------------------------------------------------------
(* What ProvideMetaLog does to a log space. *)

\* Providing true metalogs to a log space extends its prefix of the primary's
\* log, and by nothing but pending or provided metalogs.
LEMMA ProvideExtends ==
    ASSUME TypeOK, PrefixAgreement, NEW n \in LogSpaces,
           \A m \in pending[n] : IsEntry(m),
           NEW S \in SUBSET MetaLogs, \A m \in S : IsEntry(m)
    PROVE  LET pend == PendingWith(n, S)
               log  == AppliedWith(n, pend)
           IN  /\ pend \in SUBSET MetaLogs
               /\ pend \subseteq pending[n] \cup S
               /\ \A m \in pend : IsEntry(m)
               /\ log \in Seq(Cuts)
               /\ Len(log) \in Nat
               /\ Pos(n) <= Len(log)
               /\ Len(log) <= Pos(Primary)
               /\ Len(log) <= MaxMetaLogs
               /\ \A i \in 1..Len(log) : log[i] = metalog[Primary][i]
               /\ \A i \in 1..Pos(n) : log[i] = metalog[n][i]
               /\ Len(log) = Pos(n) \/ \E m \in pend : Len(log) = m.seqnum + 1
<1> DEFINE pend == PendingWith(n, S)
           q == AdvanceMetaLogProgress(Pos(n), pend)
           log == AppliedWith(n, pend)
<1>1. /\ metalog[n] \in Seq(Cuts)
      /\ metalog[Primary] \in Seq(Cuts)
      /\ Pos(n) \in 0..MaxMetaLogs
      /\ Pos(Primary) \in 0..MaxMetaLogs
      /\ MaxMetaLogs \in Nat
  BY ReplicationAssumption DEF TypeOK, Pos, LogSpaces, Sequencers
<1>2. pend \in SUBSET MetaLogs /\ pend \subseteq pending[n] \cup S
  BY DEF TypeOK, PendingWith
<1>3. \A m \in pend : IsEntry(m)
  BY <1>2
<1> HIDE DEF pend
<1>4. /\ q \in Pos(n)..MaxMetaLogs
      /\ \A s \in Pos(n)..(q - 1) : s \in Seqnums(pend)
  BY <1>1, <1>2, AdvanceStops
<1> HIDE DEF q
<1>5. \A s \in Pos(n)..(q - 1) :
         /\ \E m \in pend : m.seqnum = s
         /\ s < Pos(Primary)
         /\ CutAt(pend, s) = metalog[Primary][s + 1]
  <2> SUFFICES ASSUME NEW s \in Pos(n)..(q - 1)
               PROVE  /\ \E m \in pend : m.seqnum = s
                      /\ s < Pos(Primary)
                      /\ CutAt(pend, s) = metalog[Primary][s + 1]
    OBVIOUS
  <2>1. PICK m \in pend : m.seqnum = s
    BY <1>4 DEF Seqnums
  <2> DEFINE c == CHOOSE x \in pend : x.seqnum = s
  <2>2. c \in pend /\ c.seqnum = s
    BY <2>1
  <2>3. CutAt(pend, s) = c.cut
    BY DEF CutAt
  <2> HIDE DEF c
  <2> QED
    BY <2>1, <2>2, <2>3, <1>3 DEF IsEntry
<1>6. q <= Pos(Primary)
  <2>1. CASE q = Pos(n)
    BY <2>1 DEF PrefixAgreement
  <2>2. CASE q > Pos(n)
    <3>1. q - 1 \in Pos(n)..(q - 1)
      BY <2>2, <1>1, <1>4
    <3> QED
      BY <3>1, <1>1, <1>4, <1>5
  <2> QED
    BY <2>1, <2>2, <1>1, <1>4
<1>7. log = [i \in 1..q |-> IF i <= Pos(n) THEN metalog[n][i] ELSE CutAt(pend, i - 1)]
  BY DEF AppliedWith, q
<1>8. \A i \in 1..q : log[i] = metalog[Primary][i]
  <2> SUFFICES ASSUME NEW i \in 1..q
               PROVE  log[i] = metalog[Primary][i]
    OBVIOUS
  <2>1. CASE i <= Pos(n)
    BY <2>1, <1>1, <1>7 DEF PrefixAgreement
  <2>2. CASE ~(i <= Pos(n))
    <3>1. i - 1 \in Pos(n)..(q - 1)
      BY <2>2, <1>1, <1>4
    <3>2. CutAt(pend, i - 1) = metalog[Primary][(i - 1) + 1]
      BY <3>1, <1>5
    <3>3. (i - 1) + 1 = i
      BY <1>4
    <3> QED
      BY <2>2, <3>2, <3>3, <1>7
  <2> QED
    BY <2>1, <2>2
<1>9. \A i \in 1..q : metalog[Primary][i] \in Cuts
  BY <1>1, <1>4, <1>6 DEF Pos
<1>10. log \in Seq(Cuts) /\ Len(log) = q
  <2>1. q \in Nat
    BY <1>1, <1>4
  <2>2. log \in [1..q -> Cuts]
    BY <1>7, <1>8, <1>9
  <2> QED
    BY <2>1, <2>2, <1>7
<1>11. \A i \in 1..Pos(n) : log[i] = metalog[n][i]
  BY <1>1, <1>4, <1>7
<1>12. q = Pos(n) \/ \E m \in pend : q = m.seqnum + 1
  <2>1. CASE q > Pos(n)
    <3>1. q - 1 \in Pos(n)..(q - 1)
      BY <2>1, <1>1, <1>4
    <3>2. PICK m \in pend : m.seqnum = q - 1
      BY <3>1, <1>5
    <3>3. q = m.seqnum + 1
      BY <3>2, <1>4
    <3> QED
      BY <3>3
  <2> QED
    BY <2>1, <1>1, <1>4
<1> HIDE DEF log
<1>13. /\ pend \in SUBSET MetaLogs
       /\ pend \subseteq pending[n] \cup S
       /\ \A m \in pend : IsEntry(m)
       /\ log \in Seq(Cuts)
       /\ Len(log) \in Nat
       /\ Pos(n) <= Len(log)
       /\ Len(log) <= Pos(Primary)
       /\ Len(log) <= MaxMetaLogs
       /\ \A i \in 1..Len(log) : log[i] = metalog[Primary][i]
       /\ \A i \in 1..Pos(n) : log[i] = metalog[n][i]
       /\ Len(log) = Pos(n) \/ \E m \in pend : Len(log) = m.seqnum + 1
  BY <1>1, <1>2, <1>3, <1>4, <1>6, <1>8, <1>10, <1>11, <1>12
<1> QED
  BY <1>13 DEF log, pend

-----------------------------------------------------------------------------
(* Quorums. *)

\* The sequencers that hold the replicated prefix meet every seal quorum.
LEMMA QuorumsMeet ==
    ASSUME NEW prog \in [Backups -> Nat], NEW r \in Nat,
           Cardinality({b \in Backups : prog[b] < r}) <= Cardinality(Backups) \div 2,
           NEW Q \in SUBSET Sequencers, Cardinality(Q) >= SealQuorum
    PROVE  \E s \in Q : s = Primary \/ (s \in Backups /\ prog[s] >= r)
<1> DEFINE Behind == {b \in Backups : prog[b] < r}
           Holders == Sequencers \ Behind
<1>1. /\ IsFiniteSet(Backups) /\ IsFiniteSet(Sequencers) /\ IsFiniteSet(Behind)
      /\ Cardinality(Backups) \in Nat
      /\ Cardinality(Sequencers) = Cardinality(Backups) + 1
      /\ Cardinality(Behind) \in Nat
  <2>1. IsFiniteSet(Backups) /\ Primary \notin Backups
    BY ReplicationAssumption
  <2>2. Sequencers = Backups \cup {Primary}
    BY DEF Sequencers
  <2>3. IsFiniteSet(Sequencers) /\ Cardinality(Sequencers) = Cardinality(Backups) + 1
    BY <2>1, <2>2, FS_AddElement
  <2>4. IsFiniteSet(Behind)
    BY <2>1, FS_Subset
  <2> QED
    BY <2>1, <2>3, <2>4, FS_CardinalityType
<1>2. Cardinality(Holders) = Cardinality(Sequencers) - Cardinality(Behind)
  <2>1. Sequencers \cap Behind = Behind
    BY DEF Sequencers
  <2> HIDE DEF Behind
  <2>2. Cardinality(Sequencers \ Behind) =
          Cardinality(Sequencers) - Cardinality(Sequencers \cap Behind)
    BY <1>1, FS_Difference
  <2> QED
    BY <2>1, <2>2
<1>3. /\ IsFiniteSet(Holders) /\ IsFiniteSet(Q)
      /\ Cardinality(Holders) \in Nat /\ Cardinality(Q) \in Nat
  BY <1>1, FS_Subset, FS_CardinalityType
<1> HIDE DEF Behind, Holders
<1>4. Cardinality(Holders) + Cardinality(Q) > Cardinality(Sequencers)
  <2>1. Cardinality(Behind) <= Cardinality(Backups) \div 2
    BY DEF Behind
  <2>2. Cardinality(Q) >= (Cardinality(Backups) + 2) \div 2
    BY <1>1 DEF SealQuorum
  <2>3. ASSUME NEW b \in Nat, NEW x \in Nat, NEW y \in Nat, NEW h \in Nat,
               x <= b \div 2, y >= (b + 2) \div 2, h = (b + 1) - x
        PROVE  h + y > b + 1
    <3>1. (b + 2) \div 2 = b \div 2 + 1
      OBVIOUS
    <3> DEFINE d == b \div 2
    <3>2. d \in Nat
      OBVIOUS
    <3> HIDE DEF d
    <3>3. x <= d /\ y >= d + 1
      BY <2>3, <3>1 DEF d
    <3> QED
      BY <2>3, <3>2, <3>3
  <2> QED
    BY <1>1, <1>2, <1>3, <2>1, <2>2, <2>3
<1>5. Holders \cap Q # {}
  BY <1>1, <1>3, <1>4, FS_MajoritiesIntersect DEF Holders
<1>6. PICK s : s \in Holders /\ s \in Q
  BY <1>5
<1>7. s \in Sequencers /\ s \notin Behind
  BY <1>6 DEF Holders
<1>8. s = Primary \/ (s \in Backups /\ prog[s] >= r)
  BY <1>7 DEF Behind, Sequencers
<1> QED
  BY <1>6, <1>8

-----------------------------------------------------------------------------
(* The initial states, and what ProvideMetaLogs keeps. *)

\* All logs are empty at first.
LEMMA InitIndInv == Init => IndInv
<1> SUFFICES ASSUME Init PROVE IndInv
  OBVIOUS
<1> USE ReplicationAssumption
<1>1. \A n \in LogSpaces : metalog[n] = <<>> /\ Pos(n) = 0
  BY DEF Init, Pos
<1>2. Primary \in LogSpaces /\ Backups \subseteq LogSpaces /\ Nodes \subseteq LogSpaces
  BY DEF LogSpaces, Sequencers
<1>3. TypeOK
  <2>1. <<>> \in Seq(Cuts)
    OBVIOUS
  <2>2. metalog \in [LogSpaces -> Seq(Cuts)]
    BY <2>1 DEF Init
  <2>3. progress \in [Backups -> 0..MaxMetaLogs] /\ replicated \in 0..MaxMetaLogs
    BY DEF Init
  <2>4. pending \in [LogSpaces -> SUBSET MetaLogs] /\ tails \in [Sequencers -> SUBSET MetaLogs]
    BY DEF Init
  <2>5. outcome \in [LogSpaces -> Outcomes]
    BY DEF Init, Outcomes
  <2>6. \A n \in LogSpaces : Pos(n) <= MaxMetaLogs
    BY <1>1
  <2> QED
    BY <2>2, <2>3, <2>4, <2>5, <2>6 DEF Init, TypeOK
<1>4. PrefixAgreement /\ OneUnreplicated
  BY <1>1, <1>2 DEF Init, PrefixAgreement, OneUnreplicated
<1>5. Authentic
  BY DEF Init, Authentic
<1>6. ProgressIsTrue
  BY <1>1, <1>2 DEF Init, ProgressIsTrue
<1>7. FewBehind
  <2>1. {b \in Backups : progress[b] < replicated} = {}
    BY DEF Init
  <2>2. Cardinality(Backups) \in Nat
    BY FS_CardinalityType
  <2>3. Cardinality(Backups) \div 2 >= 0
    BY <2>2
  <2> QED
    BY <2>1, <2>3, FS_EmptySet DEF FewBehind
<1>8. NodesBehind
  BY <1>1, <1>2 DEF Init, NodesBehind, Covered
<1>9. SealIsQuorum /\ FinalizedWhere /\ NobodySeesTheFuture
  BY DEF Init, SealIsQuorum, FinalizedWhere, NobodySeesTheFuture, LogSpaces
<1> QED
  BY <1>3, <1>4, <1>5, <1>6, <1>7, <1>8, <1>9 DEF IndInv

\* Handing true metalogs to one log space: its log grows, to the position
\* after a metalog it was given, and every log stays a prefix of the primary's.
LEMMA ProvidePreserves ==
    ASSUME TypeOK, PrefixAgreement, Authentic, NEW n \in LogSpaces,
           NEW S \in SUBSET MetaLogs, \A m \in S : IsEntry(m),
           ProvideMetaLogs(n, S)
    PROVE  /\ metalog' \in [LogSpaces -> Seq(Cuts)]
           /\ \A x \in LogSpaces : Len(metalog'[x]) <= MaxMetaLogs
           /\ pending' \in [LogSpaces -> SUBSET MetaLogs]
           /\ metalog'[Primary] = metalog[Primary]
           /\ \A x \in LogSpaces \ {n} : metalog'[x] = metalog[x] /\ pending'[x] = pending[x]
           /\ pending'[n] \subseteq pending[n] \cup S
           /\ Len(metalog'[n]) >= Pos(n)
           /\ \A i \in 1..Pos(n) : metalog'[n][i] = metalog[n][i]
           /\ \/ Len(metalog'[n]) = Pos(n)
              \/ \E m \in pending[n] \cup S : Len(metalog'[n]) = m.seqnum + 1
           /\ PrefixAgreement'
           /\ \A x \in LogSpaces : \A m \in pending'[x] : IsEntry(m)
<1> DEFINE pend == PendingWith(n, S)
           log  == AppliedWith(n, pend)
<1>1. /\ pend \in SUBSET MetaLogs
      /\ pend \subseteq pending[n] \cup S
      /\ \A m \in pend : IsEntry(m)
      /\ log \in Seq(Cuts)
      /\ Len(log) \in Nat
      /\ Pos(n) <= Len(log)
      /\ Len(log) <= Pos(Primary)
      /\ Len(log) <= MaxMetaLogs
      /\ \A i \in 1..Len(log) : log[i] = metalog[Primary][i]
      /\ \A i \in 1..Pos(n) : log[i] = metalog[n][i]
      /\ Len(log) = Pos(n) \/ \E m \in pend : Len(log) = m.seqnum + 1
  BY ProvideExtends DEF Authentic
<1>2. /\ metalog' = [metalog EXCEPT ![n] = log]
      /\ pending' = [pending EXCEPT ![n] = {m \in pend : m.seqnum >= Len(log)}]
  BY DEF ProvideMetaLogs
<1> HIDE DEF log, pend
<1>3. /\ metalog \in [LogSpaces -> Seq(Cuts)]
      /\ pending \in [LogSpaces -> SUBSET MetaLogs]
      /\ Primary \in LogSpaces
      /\ \A x \in LogSpaces : Len(metalog[x]) <= MaxMetaLogs
  BY DEF TypeOK, LogSpaces, Sequencers, Pos
<1>4. metalog'[n] = log /\ \A x \in LogSpaces \ {n} : metalog'[x] = metalog[x]
  BY <1>2, <1>3
<1>5. /\ pending'[n] = {m \in pend : m.seqnum >= Len(log)}
      /\ \A x \in LogSpaces \ {n} : pending'[x] = pending[x]
  BY <1>2, <1>3
<1>6. metalog'[Primary] = metalog[Primary]
  <2>1. CASE n = Primary
    <3>1. Len(log) = Len(metalog[Primary])
      BY <2>1, <1>1, <1>3 DEF Pos
    <3>2. metalog[Primary] \in Seq(Cuts)
      BY <1>3
    <3>3. log = metalog[Primary]
      BY <3>1, <3>2, <1>1, SeqEqual
    <3> QED
      BY <3>3, <1>4, <2>1
  <2> QED
    BY <2>1, <1>3, <1>4
<1>7. metalog' \in [LogSpaces -> Seq(Cuts)] /\ pending' \in [LogSpaces -> SUBSET MetaLogs]
  BY <1>1, <1>2, <1>3
<1>8. \A x \in LogSpaces : Len(metalog'[x]) <= MaxMetaLogs
  BY <1>1, <1>3, <1>4
<1>9. PrefixAgreement'
  <2> SUFFICES ASSUME NEW x \in LogSpaces
               PROVE  /\ Len(metalog'[x]) <= Len(metalog'[Primary])
                      /\ \A i \in 1..Len(metalog'[x]) : metalog'[x][i] = metalog'[Primary][i]
    BY DEF PrefixAgreement, Pos
  <2>1. CASE x = n
    BY <2>1, <1>1, <1>4, <1>6 DEF Pos
  <2>2. CASE x # n
    BY <2>2, <1>4, <1>6 DEF PrefixAgreement, Pos
  <2> QED
    BY <2>1, <2>2
<1>10. \A x \in LogSpaces : \A m \in pending'[x] : IsEntry(m)
  BY <1>1, <1>5 DEF Authentic
<1>11. /\ pending'[n] \subseteq pending[n] \cup S
       /\ Len(metalog'[n]) >= Pos(n)
       /\ \A i \in 1..Pos(n) : metalog'[n][i] = metalog[n][i]
       /\ \/ Len(metalog'[n]) = Pos(n)
          \/ \E m \in pending[n] \cup S : Len(metalog'[n]) = m.seqnum + 1
  BY <1>1, <1>3, <1>4, <1>5 DEF Pos
<1> QED
  BY <1>4, <1>5, <1>6, <1>7, <1>8, <1>9, <1>10, <1>11

-----------------------------------------------------------------------------
(* Every step keeps the inductive invariant: one lemma per action. *)

\* What the proofs below use of the types.
LEMMA Facts ==
    ASSUME TypeOK
    PROVE  /\ Primary \in LogSpaces /\ Primary \in Sequencers
           /\ Backups \subseteq LogSpaces /\ Nodes \subseteq LogSpaces
           /\ LogSpaces = {Primary} \cup Backups \cup Nodes
           /\ Sequencers = {Primary} \cup Backups
           /\ Primary \notin Backups /\ Primary \notin Nodes /\ Backups \cap Nodes = {}
           /\ MaxMetaLogs \in Nat
           /\ \A n \in LogSpaces : metalog[n] \in Seq(Cuts) /\ Pos(n) \in 0..MaxMetaLogs
           /\ replicated \in Nat
           /\ \A b \in Backups : progress[b] \in Nat
BY ReplicationAssumption DEF TypeOK, Pos, LogSpaces, Sequencers

\* A backup that reports nothing new and takes nothing back reported the truth.
LEMMA ProgressStays ==
    ASSUME TypeOK, ProgressIsTrue,
           \A b \in Backups : Pos(b)' \in Nat /\ Pos(b)' >= Pos(b),
           progMsgs' \subseteq progMsgs, UNCHANGED <<progress, frozen, tails>>
    PROVE  ProgressIsTrue'
<1>1. \A b \in Backups : progress'[b] <= Pos(b)'
  BY Facts DEF ProgressIsTrue
<1>2. \A msg \in progMsgs' : msg.position <= Pos(msg.src)'
  <2> SUFFICES ASSUME NEW msg \in progMsgs' PROVE msg.position <= Pos(msg.src)'
    OBVIOUS
  <2>1. msg \in progMsgs /\ msg.src \in Backups /\ msg.position \in Nat
    BY Facts DEF TypeOK
  <2>2. msg.position <= Pos(msg.src)
    BY <2>1 DEF ProgressIsTrue
  <2> QED
    BY <2>1, <2>2, Facts
<1> QED
  BY <1>1, <1>2 DEF ProgressIsTrue

\* The primary's log only grows, so what agreed with it still does.
LEMMA MarkStep ==
    ASSUME IndInv, NEW c \in Cuts, MarkNextCutIfDoable(c)
    PROVE  IndInv'
<1> USE DEF IndInv
<1> DEFINE new == Append(metalog[Primary], c)
<1>1. /\ metalog' = [metalog EXCEPT ![Primary] = new]
      /\ metaLogMsgs' = metaLogMsgs \cup
           {MetaLogMsg(b, [seqnum |-> Pos(Primary), cut |-> c]) : b \in Backups}
      /\ Primary \notin frozen
      /\ replicated = Pos(Primary)
      /\ Pos(Primary) < MaxMetaLogs
      /\ UNCHANGED <<pending, progress, replicated, frozen, progMsgs, freezing,
                     tails, collected, final, outcome>>
  BY DEF MarkNextCutIfDoable, primaryVars, sealVars
<1>2. /\ new \in Seq(Cuts)
      /\ Len(new) = Pos(Primary) + 1
      /\ \A i \in 1..Pos(Primary) : new[i] = metalog[Primary][i]
      /\ new[Pos(Primary) + 1] = c
  BY Facts, AppendProperties DEF Pos
<1> HIDE DEF new
<1>3. /\ metalog'[Primary] = new
      /\ \A x \in LogSpaces \ {Primary} : metalog'[x] = metalog[x]
      /\ metalog' \in [LogSpaces -> Seq(Cuts)]
  BY <1>1, <1>2, Facts DEF TypeOK
<1>4. /\ Pos(Primary)' = Pos(Primary) + 1
      /\ \A x \in LogSpaces \ {Primary} : Pos(x)' = Pos(x)
  BY <1>2, <1>3 DEF Pos
<1>5. [seqnum |-> Pos(Primary), cut |-> c] \in MetaLogs
  BY <1>1, Facts DEF MetaLogs
<1>6. TypeOK'
  <2>1. \A x \in LogSpaces : Pos(x)' <= MaxMetaLogs
    BY <1>1, <1>4, Facts
  <2>2. metaLogMsgs' \subseteq [dst : Backups \cup Nodes, metalog : MetaLogs]
    BY <1>1, <1>5 DEF TypeOK, MetaLogMsg
  <2> QED
    BY <1>1, <1>3, <2>1, <2>2 DEF TypeOK, Pos
<1>7. \A m \in MetaLogs : IsEntry(m) => IsEntry(m)'
  <2> SUFFICES ASSUME NEW m \in MetaLogs, IsEntry(m) PROVE IsEntry(m)'
    OBVIOUS
  <2>1. m.seqnum \in Nat /\ m.seqnum + 1 \in 1..Pos(Primary)
    BY Facts DEF MetaLogs, IsEntry
  <2> QED
    BY <2>1, <1>2, <1>3, <1>4, Facts DEF IsEntry
<1>8. PrefixAgreement'
  <2> SUFFICES ASSUME NEW x \in LogSpaces
               PROVE  /\ Pos(x)' <= Pos(Primary)'
                      /\ \A i \in 1..Pos(x)' : metalog'[x][i] = metalog'[Primary][i]
    BY DEF PrefixAgreement
  <2>1. CASE x = Primary
    BY <2>1, <1>4, Facts
  <2>2. CASE x # Primary
    BY <2>2, <1>2, <1>3, <1>4, Facts DEF PrefixAgreement
  <2> QED
    BY <2>1, <2>2
<1>9. Authentic'
  <2>1. \A msg \in metaLogMsgs' : IsEntry(msg.metalog)'
    <3> SUFFICES ASSUME NEW msg \in metaLogMsgs' PROVE IsEntry(msg.metalog)'
      OBVIOUS
    <3>1. CASE msg \in metaLogMsgs
      BY <3>1, <1>7 DEF Authentic, TypeOK
    <3>2. CASE msg \notin metaLogMsgs
      <4>1. msg.metalog = [seqnum |-> Pos(Primary), cut |-> c]
        BY <3>2, <1>1 DEF MetaLogMsg
      <4> QED
        BY <4>1, <1>2, <1>3, <1>4, Facts DEF IsEntry
    <3> QED
      BY <3>1, <3>2
  <2>2. \A x \in LogSpaces : \A m \in pending'[x] : IsEntry(m)'
    BY <1>1, <1>7 DEF Authentic, TypeOK
  <2>3. \A x \in Sequencers : \A m \in tails'[x] : IsEntry(m)'
    BY <1>1, <1>7 DEF Authentic, TypeOK
  <2>4. \A f \in final' : \A m \in f.tail : IsEntry(m)'
    BY <1>1, <1>7 DEF Authentic, TypeOK
  <2> QED
    BY <2>1, <2>2, <2>3, <2>4 DEF Authentic
<1>10. OneUnreplicated'
  BY <1>1, <1>4, Facts DEF OneUnreplicated
<1>11. ProgressIsTrue'
  <2>1. \A b \in Backups : Pos(b)' \in Nat /\ Pos(b)' >= Pos(b)
    BY <1>4, Facts
  <2> QED
    BY <1>1, <2>1, ProgressStays
<1>12. FewBehind'
  BY <1>1 DEF FewBehind
<1>13. NodesBehind'
  <2>1. \A msg \in metaLogMsgs' : msg.dst \in Nodes => msg \in metaLogMsgs
    BY <1>1, Facts DEF MetaLogMsg
  <2>2. \A q : Covered(q) => Covered(q)'
    BY <1>1 DEF Covered
  <2> QED
    BY <1>1, <1>4, <2>1, <2>2, Facts DEF NodesBehind
<1>14. SealIsQuorum'
  BY <1>1, <1>4, Facts DEF SealIsQuorum, TypeOK
<1>15. FinalizedWhere'
  BY <1>1, <1>4, Facts DEF FinalizedWhere
<1>16. NobodySeesTheFuture'
  BY <1>1 DEF NobodySeesTheFuture
<1> QED
  BY <1>6, <1>8, <1>9, <1>10, <1>11, <1>12, <1>13, <1>14, <1>15, <1>16

\* Steps that only consume messages, or start the seal.
LEMMA QuietStep ==
    ASSUME IndInv, metaLogMsgs' \subseteq metaLogMsgs, progMsgs' \subseteq progMsgs,
           freezing' \in BOOLEAN,
           UNCHANGED <<metalog, pending, progress, replicated, frozen, tails,
                       collected, final, outcome>>
    PROVE  IndInv'
<1> USE DEF IndInv
<1>1. \A x : Pos(x)' = Pos(x)
  BY DEF Pos
<1>2. \A m : IsEntry(m)' <=> IsEntry(m)
  BY DEF IsEntry, Pos
<1>3. TypeOK'
  BY <1>1 DEF TypeOK
<1>4. PrefixAgreement' /\ OneUnreplicated' /\ FewBehind' /\ SealIsQuorum'
  BY <1>1 DEF PrefixAgreement, OneUnreplicated, FewBehind, SealIsQuorum
<1>5. Authentic'
  BY <1>2 DEF Authentic
<1>6. ProgressIsTrue'
  BY <1>1, Facts, ProgressStays
<1>7. NodesBehind' /\ FinalizedWhere' /\ NobodySeesTheFuture'
  BY <1>1 DEF NodesBehind, Covered, FinalizedWhere, NobodySeesTheFuture
<1> QED
  BY <1>3, <1>4, <1>5, <1>6, <1>7

\* A backup applies a metalog and reports its new position.
LEMMA BackupStep ==
    ASSUME IndInv, NEW msg \in metaLogMsgs, OnRecvNewMetaLogsAtBackup(msg)
    PROVE  IndInv'
<1> USE DEF IndInv
<1> DEFINE b == msg.dst
<1>1. /\ b \in Backups /\ b \in LogSpaces /\ b # Primary /\ b \notin Nodes
      /\ metaLogMsgs' = metaLogMsgs \ {msg}
      /\ UNCHANGED <<progress, replicated, frozen, freezing, tails, collected,
                     final, outcome>>
  BY Facts DEF OnRecvNewMetaLogsAtBackup, primaryVars, sealVars
<1>2. CASE b \in frozen
  <2>1. UNCHANGED <<metalog, pending, progMsgs>>
    BY <1>2 DEF OnRecvNewMetaLogsAtBackup, replicaVars
  <2> QED
    BY <1>1, <2>1, QuietStep DEF TypeOK
<1>3. CASE b \notin frozen
  <2>1. /\ ProvideMetaLogs(b, {msg.metalog})
        /\ progMsgs' \subseteq progMsgs \cup {[src |-> b, position |-> Len(metalog'[b])]}
    BY <1>3 DEF OnRecvNewMetaLogsAtBackup
  <2>2. msg.metalog \in MetaLogs /\ IsEntry(msg.metalog)
    BY DEF TypeOK, Authentic
  <2>3. /\ metalog' \in [LogSpaces -> Seq(Cuts)]
        /\ \A x \in LogSpaces : Len(metalog'[x]) <= MaxMetaLogs
        /\ pending' \in [LogSpaces -> SUBSET MetaLogs]
        /\ metalog'[Primary] = metalog[Primary]
        /\ \A x \in LogSpaces \ {b} : metalog'[x] = metalog[x] /\ pending'[x] = pending[x]
        /\ Len(metalog'[b]) >= Pos(b)
        /\ PrefixAgreement'
        /\ \A x \in LogSpaces : \A m \in pending'[x] : IsEntry(m)
    BY <1>1, <2>1, <2>2, ProvidePreserves
  <2> HIDE DEF b
  <2>4. /\ \A x \in LogSpaces \ {b} : Pos(x)' = Pos(x)
        /\ Pos(b)' >= Pos(b)
        /\ \A x \in LogSpaces : Pos(x)' \in 0..MaxMetaLogs
        /\ Pos(b)' = Len(metalog'[b])
    BY <1>1, <2>3 DEF Pos
  <2>5. \A m : IsEntry(m)' <=> IsEntry(m)
    BY <2>3 DEF IsEntry, Pos
  <2>6. TypeOK'
    <3>1. progMsgs' \subseteq [src : Backups, position : 0..MaxMetaLogs]
      BY <1>1, <2>1, <2>4 DEF TypeOK
    <3> QED
      BY <1>1, <2>3, <2>4, <3>1 DEF TypeOK
  <2>7. Authentic'
    BY <1>1, <2>3, <2>5 DEF Authentic
  <2>8. OneUnreplicated' /\ FewBehind'
    BY <1>1, <2>4, Facts DEF OneUnreplicated, FewBehind
  <2>9. ProgressIsTrue'
    <3>1. \A x \in Backups : progress'[x] <= Pos(x)'
      BY <1>1, <2>4, Facts DEF ProgressIsTrue
    <3>2. \A g \in progMsgs' : g.position <= Pos(g.src)'
      <4> SUFFICES ASSUME NEW g \in progMsgs' PROVE g.position <= Pos(g.src)'
        OBVIOUS
      <4>1. CASE g \in progMsgs
        <5>1. g.src \in Backups /\ g.position \in Nat /\ g.position <= Pos(g.src)
          BY <4>1, Facts DEF TypeOK, ProgressIsTrue
        <5> QED
          BY <5>1, <2>4, Facts
      <4>2. CASE g \notin progMsgs
        BY <4>2, <2>1, <2>4, Facts
      <4> QED
        BY <4>1, <4>2
    <3>3. \A x \in Backups \cap frozen : \A g \in progMsgs' : g.src = x => g \in progMsgs
      BY <1>3, <2>1
    <3> QED
      BY <1>1, <3>1, <3>2, <3>3 DEF ProgressIsTrue
  <2>10. NodesBehind'
    <3>1. \A x \in Nodes : Pos(x)' = Pos(x) /\ pending'[x] = pending[x]
      BY <1>1, <2>3, <2>4, Facts
    <3> QED
      BY <1>1, <3>1 DEF NodesBehind, Covered
  <2>11. SealIsQuorum'
    BY <1>1, <2>4, Facts DEF SealIsQuorum
  <2>12. FinalizedWhere' /\ NobodySeesTheFuture'
    BY <1>1, <1>3, <2>4, Facts DEF FinalizedWhere, NobodySeesTheFuture
  <2> QED
    BY <2>3, <2>6, <2>7, <2>8, <2>9, <2>10, <2>11, <2>12
<1> QED
  BY <1>2, <1>3

\* A node applies a replicated metalog, before or after the seal.
LEMMA NodeStep ==
    ASSUME IndInv, NEW msg \in metaLogMsgs, OnRecvNewMetaLogsAtNode(msg)
    PROVE  IndInv'
<1> USE DEF IndInv
<1> DEFINE n == msg.dst
<1>1. /\ n \in Nodes /\ n \in LogSpaces /\ n # Primary /\ n \notin Backups
      /\ metaLogMsgs' = metaLogMsgs \ {msg}
      /\ ProvideMetaLogs(n, {msg.metalog})
      /\ UNCHANGED <<progress, replicated, frozen, progMsgs, freezing, tails,
                     collected, final, outcome>>
  BY Facts DEF OnRecvNewMetaLogsAtNode, primaryVars, sealVars
<1>2. /\ msg.metalog \in MetaLogs /\ IsEntry(msg.metalog)
      /\ msg.metalog.seqnum \in Nat /\ msg.metalog.seqnum < replicated
  BY <1>1, Facts DEF TypeOK, Authentic, NodesBehind, MetaLogs
<1>3. /\ metalog' \in [LogSpaces -> Seq(Cuts)]
      /\ \A x \in LogSpaces : Len(metalog'[x]) <= MaxMetaLogs
      /\ pending' \in [LogSpaces -> SUBSET MetaLogs]
      /\ metalog'[Primary] = metalog[Primary]
      /\ \A x \in LogSpaces \ {n} : metalog'[x] = metalog[x] /\ pending'[x] = pending[x]
      /\ pending'[n] \subseteq pending[n] \cup {msg.metalog}
      /\ Len(metalog'[n]) >= Pos(n)
      /\ \/ Len(metalog'[n]) = Pos(n)
         \/ \E m \in pending[n] \cup {msg.metalog} : Len(metalog'[n]) = m.seqnum + 1
      /\ PrefixAgreement'
      /\ \A x \in LogSpaces : \A m \in pending'[x] : IsEntry(m)
  BY <1>1, <1>2, ProvidePreserves
<1> HIDE DEF n
<1>4. /\ \A x \in LogSpaces \ {n} : Pos(x)' = Pos(x)
      /\ Pos(n)' >= Pos(n)
      /\ \A x \in LogSpaces : Pos(x)' \in 0..MaxMetaLogs
      /\ Pos(n)' = Len(metalog'[n])
  BY <1>1, <1>3 DEF Pos
<1>5. \A m : IsEntry(m)' <=> IsEntry(m)
  BY <1>3 DEF IsEntry, Pos
<1>6. TypeOK'
  BY <1>1, <1>3, <1>4 DEF TypeOK
<1>7. Authentic'
  BY <1>1, <1>3, <1>5 DEF Authentic
<1>8. OneUnreplicated' /\ FewBehind' /\ SealIsQuorum'
  BY <1>1, <1>4, Facts DEF OneUnreplicated, FewBehind, SealIsQuorum
<1>9. ProgressIsTrue'
  BY <1>1, <1>4, Facts, ProgressStays
<1>10. \A q : Covered(q)' <=> Covered(q)
  BY <1>1 DEF Covered
<1>11. /\ \A m \in pending[n] \cup {msg.metalog} : Covered(m.seqnum + 1)
       /\ Covered(Pos(n)')
  <2>1. Covered(msg.metalog.seqnum + 1)
    BY <1>2, Facts DEF Covered
  <2>2. \A m \in pending[n] \cup {msg.metalog} : Covered(m.seqnum + 1)
    BY <1>1, <2>1 DEF NodesBehind
  <2>3. Covered(Pos(n))
    BY <1>1 DEF NodesBehind
  <2> QED
    BY <1>3, <1>4, <2>2, <2>3
<1>12. NodesBehind'
  <2>1. \A x \in Nodes : Covered(Pos(x)')
    BY <1>4, <1>11, Facts DEF NodesBehind
  <2>2. \A x \in Nodes : \A m \in pending'[x] : Covered(m.seqnum + 1)
    BY <1>3, <1>11, Facts DEF NodesBehind
  <2>3. \A g \in metaLogMsgs' : g.dst \in Nodes => g.metalog.seqnum < replicated
    BY <1>1 DEF NodesBehind
  <2> QED
    BY <1>1, <2>1, <2>2, <2>3 DEF NodesBehind, Covered
<1>13. FinalizedWhere'
  <2>1. \A f \in final : outcome[n] = "ok" => Pos(n)' = f.position
    <3> SUFFICES ASSUME NEW f \in final, outcome[n] = "ok"
                 PROVE  Pos(n)' = f.position
      OBVIOUS
    <3>1. Pos(n)' <= f.position
      BY <1>4, <1>11, Facts DEF Covered, SealIsQuorum, TypeOK
    <3>2. f.position <= Pos(n)'
      BY <1>1, <1>4 DEF FinalizedWhere
    <3> QED
      BY <1>1, <1>4, <3>1, <3>2 DEF TypeOK
  <2> QED
    BY <1>1, <1>4, <2>1 DEF FinalizedWhere
<1>14. NobodySeesTheFuture'
  BY <1>1 DEF NobodySeesTheFuture
<1> QED
  BY <1>3, <1>6, <1>7, <1>8, <1>9, <1>12, <1>13, <1>14

\* The new replicated position: never taken back, never beyond the log, and
\* again less than half of the backups behind it.
LEMMA NewPosition ==
    ASSUME TypeOK, PrefixAgreement, OneUnreplicated, FewBehind,
           NEW prog \in [Backups -> 0..MaxMetaLogs], Backups # {},
           \A b \in Backups : progress[b] <= prog[b] /\ prog[b] <= Pos(b)
    PROVE  LET repl == UpdateMetaLogReplicatedPosition(prog)
           IN  /\ repl \in 0..MaxMetaLogs
               /\ replicated <= repl
               /\ repl <= Pos(Primary)
               /\ Cardinality({b \in Backups : prog[b] < repl}) <= Cardinality(Backups) \div 2
<1> DEFINE k == Cardinality(Backups) \div 2
           Old == {b \in Backups : progress[b] < replicated}
<1>1. /\ IsFiniteSet(Backups) /\ Cardinality(Backups) \in Nat
      /\ \A A \in SUBSET Backups : IsFiniteSet(A) /\ Cardinality(A) \in Nat
  BY ReplicationAssumption, FS_Subset, FS_CardinalityType
<1>2. Cardinality(Backups) # 0
  BY <1>1, FS_EmptySet
<1>3. k \in Nat /\ k < Cardinality(Backups)
  BY <1>1, <1>2
<1>4. Old \in SUBSET Backups /\ Cardinality(Old) <= k /\ IsFiniteSet(Old)
  BY <1>1 DEF FewBehind
<1>5. CASE prog = progress \/ replicated = Pos(Primary)
  <2>1. UpdateMetaLogReplicatedPosition(prog) = replicated
    BY <1>5 DEF UpdateMetaLogReplicatedPosition
  <2> DEFINE New == {b \in Backups : prog[b] < replicated}
  <2>2. New \in SUBSET Old
    BY Facts
  <2> HIDE DEF New, Old
  <2>3. Cardinality(New) <= Cardinality(Old)
    BY <1>4, <2>2, FS_Subset
  <2>4. New \in SUBSET Backups
    BY <1>4, <2>2
  <2>5. Cardinality(New) <= k
    BY <1>1, <1>3, <1>4, <2>3, <2>4
  <2> QED
    BY <2>1, <2>5, Facts DEF New, OneUnreplicated
<1>6. CASE ~(prog = progress \/ replicated = Pos(Primary))
  <2> DEFINE v == SortedAt(prog, k)
             AtMost == {b \in Backups : prog[b] <= v}
  <2>1. UpdateMetaLogReplicatedPosition(prog) = v
    BY <1>6 DEF UpdateMetaLogReplicatedPosition
  <2>2. /\ v \in {prog[b] : b \in Backups}
        /\ Cardinality({b \in Backups : prog[b] < v}) <= k
        /\ Cardinality({b \in Backups : prog[b] <= v}) > k
    <3> HIDE DEF k
    <3> QED
      BY <1>3, SortedAtExists
  <2> HIDE DEF v
  <2>3. /\ v \in 0..MaxMetaLogs /\ v <= Pos(Primary)
    BY <2>2, Facts DEF PrefixAgreement
  <2>4. replicated <= v
    <3> SUFFICES ASSUME v < replicated PROVE FALSE
      BY <2>3, Facts
    <3>1. AtMost \in SUBSET Old
      BY <2>3, Facts
    <3>2. Cardinality(AtMost) > k
      BY <2>2
    <3> HIDE DEF AtMost, Old
    <3>3. Cardinality(AtMost) <= Cardinality(Old) /\ AtMost \in SUBSET Backups
      BY <1>4, <3>1, FS_Subset
    <3> QED
      BY <1>1, <1>3, <1>4, <3>2, <3>3
  <2> QED
    BY <2>1, <2>2, <2>3, <2>4
<1> QED
  BY <1>5, <1>6

\* The primary counts a report; what became replicated goes to the nodes.
LEMMA ProgressStep ==
    ASSUME IndInv, NEW msg \in progMsgs, OnRecvMetaLogProgress(msg)
    PROVE  IndInv'
<1> USE DEF IndInv
<1> DEFINE prog == UpdateReplicaProgress(msg)
           repl == UpdateMetaLogReplicatedPosition(prog)
<1>1. /\ progMsgs' = progMsgs \ {msg}
      /\ UNCHANGED <<metalog, pending, frozen, freezing, tails, collected, final>>
  BY DEF OnRecvMetaLogProgress, replicaVars, sealVars
<1>2. /\ msg.src \in Backups /\ msg.position \in 0..MaxMetaLogs
      /\ msg.position <= Pos(msg.src) /\ msg.position <= Pos(Primary)
  <2>1. msg.src \in Backups /\ msg.position \in 0..MaxMetaLogs
    BY DEF TypeOK
  <2>2. msg.position <= Pos(msg.src)
    BY DEF ProgressIsTrue
  <2>3. Pos(msg.src) <= Pos(Primary)
    BY <2>1, Facts DEF PrefixAgreement
  <2> QED
    BY <2>1, <2>2, <2>3, Facts
<1>3. CASE Primary \in frozen
  <2>1. UNCHANGED <<progress, replicated, metaLogMsgs, outcome>>
    BY <1>3 DEF OnRecvMetaLogProgress, primaryVars
  <2> QED
    BY <1>1, <2>1, QuietStep DEF TypeOK
<1>4. CASE Primary \notin frozen
  <2>1. ~(msg.position > Pos(Primary))
    BY <1>2, Facts
  <2>2. /\ progress' = prog
        /\ replicated' = repl
        /\ metaLogMsgs' = metaLogMsgs \cup
             {MetaLogMsg(n, [seqnum |-> q, cut |-> metalog[Primary][q + 1]]) :
                 n \in Nodes, q \in replicated..(repl - 1)}
        /\ outcome' = outcome
    BY <1>4, <2>1 DEF OnRecvMetaLogProgress
  <2>3. /\ prog \in [Backups -> 0..MaxMetaLogs]
        /\ \A b \in Backups : /\ progress[b] <= prog[b]
                              /\ prog[b] <= Pos(b)
                              /\ prog[b] = progress[b] \/ (b = msg.src /\ prog[b] = msg.position)
    <3>1. progress \in [Backups -> 0..MaxMetaLogs]
      BY DEF TypeOK
    <3> QED
      BY <1>2, <3>1, Facts DEF ProgressIsTrue, UpdateReplicaProgress
  <2> HIDE DEF prog
  <2>4. /\ repl \in 0..MaxMetaLogs
        /\ replicated <= repl
        /\ repl <= Pos(Primary)
        /\ Cardinality({b \in Backups : prog[b] < repl}) <= Cardinality(Backups) \div 2
    BY <1>2, <2>3, NewPosition
  <2> HIDE DEF repl
  <2>5. \A x : Pos(x)' = Pos(x)
    BY <1>1 DEF Pos
  <2>6. \A m : IsEntry(m)' <=> IsEntry(m)
    BY <1>1 DEF IsEntry, Pos
  <2>7. \A q \in replicated..(repl - 1) :
           LET m == [seqnum |-> q, cut |-> metalog[Primary][q + 1]]
           IN  m \in MetaLogs /\ IsEntry(m) /\ m.seqnum < repl
    <3> SUFFICES ASSUME NEW q \in replicated..(repl - 1)
                 PROVE  /\ q \in 0..(MaxMetaLogs - 1)
                        /\ q < Pos(Primary) /\ q < repl
                        /\ metalog[Primary][q + 1] \in Cuts
      BY DEF IsEntry, MetaLogs
    <3>1. q \in 0..(MaxMetaLogs - 1) /\ q < Pos(Primary) /\ q < repl
      BY <2>4, Facts
    <3>2. metalog[Primary] \in Seq(Cuts) /\ q + 1 \in 1..Len(metalog[Primary])
      BY <3>1, Facts DEF Pos
    <3> QED
      BY <3>1, <3>2
  <2>8. \A g \in metaLogMsgs' :
          g \in metaLogMsgs \/ (/\ g.dst \in Nodes
                                /\ g \in [dst : Backups \cup Nodes, metalog : MetaLogs]
                                /\ IsEntry(g.metalog)
                                /\ g.metalog.seqnum < repl)
    BY <2>2, <2>7 DEF MetaLogMsg
  <2>9. TypeOK'
    <3>1. metaLogMsgs' \subseteq [dst : Backups \cup Nodes, metalog : MetaLogs]
      BY <2>8 DEF TypeOK
    <3> QED
      BY <1>1, <2>2, <2>3, <2>4, <2>5, <3>1 DEF TypeOK
  <2>10. PrefixAgreement'
    BY <1>1, <2>5 DEF PrefixAgreement
  <2>11. Authentic'
    BY <1>1, <2>6, <2>8 DEF Authentic
  <2>12. OneUnreplicated'
    BY <2>2, <2>4, <2>5, Facts DEF OneUnreplicated
  <2>13. ProgressIsTrue'
    <3>1. \A b \in Backups \cap frozen : prog[b] <= FinalPosition(tails[b])
      BY <2>3 DEF ProgressIsTrue
    <3> QED
      BY <1>1, <2>2, <2>3, <2>5, <3>1 DEF ProgressIsTrue
  <2>14. FewBehind'
    BY <2>2, <2>4 DEF FewBehind
  <2>15. NodesBehind'
    <3>1. \A q \in Nat : Covered(q) => Covered(q)'
      BY <1>1, <2>2, <2>4, Facts DEF Covered
    <3>2. \A n \in Nodes : Covered(Pos(n))'
      BY <2>5, <3>1, Facts DEF NodesBehind
    <3>3. \A n \in Nodes : \A m \in pending'[n] : Covered(m.seqnum + 1)'
      <4> SUFFICES ASSUME NEW n \in Nodes, NEW m \in pending'[n]
                   PROVE  Covered(m.seqnum + 1)'
        OBVIOUS
      <4>1. m \in pending[n] /\ m.seqnum + 1 \in Nat
        BY <1>1, Facts, SMTT(60) DEF TypeOK, MetaLogs
      <4> QED
        BY <4>1, <3>1 DEF NodesBehind
    <3>4. \A g \in metaLogMsgs' : g.dst \in Nodes => g.metalog.seqnum < repl
      <4> SUFFICES ASSUME NEW g \in metaLogMsgs', g.dst \in Nodes
                   PROVE  g.metalog.seqnum < repl
        OBVIOUS
      <4>1. CASE g \in metaLogMsgs
        <5>1. g.metalog.seqnum \in Nat /\ g.metalog.seqnum < replicated
          BY <4>1, Facts DEF TypeOK, MetaLogs, NodesBehind
        <5> QED
          BY <5>1, <2>4, Facts
      <4> QED
        BY <4>1, <2>8
    <3> QED
      BY <2>2, <3>2, <3>3, <3>4 DEF NodesBehind
  <2>16. SealIsQuorum'
    <3>1. \A f \in final : repl <= f.position
      <4> SUFFICES ASSUME NEW f \in final PROVE repl <= f.position
        OBVIOUS
      <4>1. /\ collected \in SUBSET Sequencers /\ Cardinality(collected) >= SealQuorum
            /\ prog \in [Backups -> Nat] /\ repl \in Nat
        BY <2>3, <2>4, Facts DEF SealIsQuorum, TypeOK
      <4>2. PICK s \in collected : s = Primary \/ (s \in Backups /\ prog[s] >= repl)
        BY <4>1, <2>4, QuorumsMeet
      <4>3. s \in Backups \cap frozen /\ prog[s] >= repl
        BY <4>2, <1>4 DEF TypeOK
      <4>4. prog[s] <= FinalPosition(tails[s])
        BY <4>3, <2>3 DEF ProgressIsTrue
      <4>5. FinalPosition(tails[s]) <= f.position
        BY <4>2 DEF SealIsQuorum
      <4>6. tails[s] \in SUBSET MetaLogs /\ f.position \in Nat /\ prog[s] \in Nat
        BY <4>1, <4>3, Facts DEF TypeOK
      <4>7. FinalPosition(tails[s]) \in Nat
        BY <4>6, Facts, FinalPositionIsMax
      <4> QED
        BY <4>1, <4>3, <4>4, <4>5, <4>6, <4>7
    <3> QED
      BY <1>1, <2>2, <2>5, <3>1 DEF SealIsQuorum
  <2>17. FinalizedWhere' /\ NobodySeesTheFuture'
    BY <1>1, <2>2, <2>5 DEF FinalizedWhere, NobodySeesTheFuture
  <2> QED
    BY <2>9, <2>10, <2>11, <2>12, <2>13, <2>14, <2>15, <2>16, <2>17
<1> QED
  BY <1>3, <1>4

\* A sequencer's tail is part of the primary's log and ends at its position.
LEMMA TailFacts ==
    ASSUME TypeOK, PrefixAgreement, NEW s \in Sequencers
    PROVE  /\ TailOf(s) \in SUBSET MetaLogs
           /\ \A m \in TailOf(s) : IsEntry(m)
           /\ FinalPosition(TailOf(s)) = Pos(s)
<1>1. /\ s \in LogSpaces /\ Pos(s) \in 0..MaxMetaLogs /\ MaxMetaLogs \in Nat
      /\ metalog[s] \in Seq(Cuts) /\ NumTail \in Nat \ {0}
  BY Facts, ReplicationAssumption DEF LogSpaces
<1>2. \A m \in TailOf(s) : /\ m \in MetaLogs /\ IsEntry(m)
                           /\ m.seqnum \in Nat /\ m.seqnum < Pos(s)
  <2> SUFFICES ASSUME NEW m \in TailOf(s)
               PROVE  /\ m \in MetaLogs /\ IsEntry(m)
                      /\ m.seqnum \in Nat /\ m.seqnum < Pos(s)
    OBVIOUS
  <2>1. PICK q \in 0..(Pos(s) - 1) : m = [seqnum |-> q, cut |-> metalog[s][q + 1]]
    BY DEF TailOf
  <2>2. q \in Nat /\ q < Pos(s) /\ q + 1 \in 1..Pos(s) /\ q \in 0..(MaxMetaLogs - 1)
    BY <1>1
  <2>3. metalog[s][q + 1] \in Cuts
    BY <1>1, <2>2 DEF Pos
  <2>4. q < Pos(Primary) /\ metalog[s][q + 1] = metalog[Primary][q + 1]
    BY <1>1, <2>2, Facts DEF PrefixAgreement
  <2> QED
    BY <2>1, <2>2, <2>3, <2>4 DEF MetaLogs, IsEntry
<1> DEFINE T == TailOf(s)
<1>3. T \in SUBSET MetaLogs
  BY <1>2
<1>4. Pos(s) = 0 => T = {}
  BY <1>1, <1>2
<1>5. Pos(s) # 0 => \E m \in T : m.seqnum = Pos(s) - 1
  <2> SUFFICES ASSUME Pos(s) # 0 PROVE \E m \in T : m.seqnum = Pos(s) - 1
    OBVIOUS
  <2>1. Pos(s) - 1 \in {q \in 0..(Pos(s) - 1) : q >= Pos(s) - NumTail}
    BY <1>1
  <2>2. [seqnum |-> Pos(s) - 1, cut |-> metalog[s][(Pos(s) - 1) + 1]] \in T
    BY <2>1 DEF TailOf
  <2> QED
    BY <2>2
<1> HIDE DEF T
<1>6. FinalPosition(T) = Pos(s)
  <2>1. /\ FinalPosition(T) \in 0..MaxMetaLogs
        /\ \A m \in T : m.seqnum < FinalPosition(T)
        /\ T = {} => FinalPosition(T) = 0
        /\ T # {} => \E m \in T : FinalPosition(T) = m.seqnum + 1
    BY <1>3, FinalPositionIsMax
  <2>2. CASE Pos(s) = 0
    BY <2>1, <2>2, <1>4
  <2>3. CASE Pos(s) # 0
    <3>1. PICK m \in T : m.seqnum = Pos(s) - 1
      BY <2>3, <1>5
    <3>2. Pos(s) - 1 < FinalPosition(T)
      BY <2>1, <3>1
    <3>3. PICK x \in T : FinalPosition(T) = x.seqnum + 1
      BY <2>1, <3>1
    <3>4. x.seqnum \in Nat /\ x.seqnum < Pos(s)
      BY <1>2, <3>3 DEF T
    <3> QED
      BY <1>1, <2>1, <3>2, <3>3, <3>4
  <2> QED
    BY <2>2, <2>3
<1> QED
  BY <1>2, <1>3, <1>6 DEF T

\* A sequencer freezes and publishes its tail.
LEMMA FrozenStep ==
    ASSUME IndInv, NEW s \in Sequencers, OnViewFrozen(s)
    PROVE  IndInv'
<1> USE DEF IndInv
<1>1. /\ s \notin frozen
      /\ frozen' = frozen \cup {s}
      /\ tails' = [tails EXCEPT ![s] = TailOf(s)]
      /\ UNCHANGED <<metalog, pending, progress, replicated, metaLogMsgs, progMsgs,
                     freezing, collected, final, outcome>>
  BY DEF OnViewFrozen, replicaVars, primaryVars, netVars
<1>2. /\ TailOf(s) \in SUBSET MetaLogs
      /\ \A m \in TailOf(s) : IsEntry(m)
      /\ FinalPosition(TailOf(s)) = Pos(s)
  BY TailFacts
<1>3. /\ tails' \in [Sequencers -> SUBSET MetaLogs]
      /\ tails'[s] = TailOf(s)
      /\ \A x \in Sequencers \ {s} : tails'[x] = tails[x]
  BY <1>1, <1>2 DEF TypeOK
<1>4. \A x : Pos(x)' = Pos(x)
  BY <1>1 DEF Pos
<1>5. \A m : IsEntry(m)' <=> IsEntry(m)
  BY <1>1 DEF IsEntry, Pos
<1>6. TypeOK'
  BY <1>1, <1>3, <1>4 DEF TypeOK
<1>7. PrefixAgreement' /\ OneUnreplicated' /\ FewBehind' /\ NodesBehind'
  BY <1>1, <1>4 DEF PrefixAgreement, OneUnreplicated, FewBehind, NodesBehind, Covered
<1>8. Authentic'
  <2>1. \A x \in Sequencers : \A m \in tails'[x] : IsEntry(m)'
    BY <1>2, <1>3, <1>5 DEF Authentic
  <2> QED
    BY <1>1, <1>5, <2>1 DEF Authentic
<1>9. ProgressIsTrue'
  <2>1. \A b \in Backups \cap frozen' :
          /\ progress[b] <= FinalPosition(tails'[b])
          /\ \A msg \in progMsgs : msg.src = b => msg.position <= FinalPosition(tails'[b])
    BY <1>1, <1>2, <1>3, Facts DEF ProgressIsTrue
  <2> QED
    BY <1>1, <1>4, <2>1 DEF ProgressIsTrue
<1>10. SealIsQuorum'
  <2>1. Primary \in frozen' => Pos(Primary) = FinalPosition(tails'[Primary])
    BY <1>1, <1>2, <1>3, Facts DEF SealIsQuorum
  <2>2. \A x \in collected : x \in Sequencers /\ tails'[x] = tails[x]
    BY <1>1, <1>3 DEF TypeOK
  <2> QED
    BY <1>1, <1>4, <2>1, <2>2 DEF SealIsQuorum
<1>11. FinalizedWhere' /\ NobodySeesTheFuture'
  BY <1>1, <1>4 DEF FinalizedWhere, NobodySeesTheFuture
<1> QED
  BY <1>6, <1>7, <1>8, <1>9, <1>10, <1>11

\* A larger tail ends no earlier.
LEMMA FinalPositionGrows ==
    ASSUME NEW S \in SUBSET MetaLogs, NEW T \in SUBSET S
    PROVE  FinalPosition(T) <= FinalPosition(S)
<1>1. T \in SUBSET MetaLogs /\ MaxMetaLogs \in Nat
  BY ReplicationAssumption
<1>2. /\ FinalPosition(S) \in 0..MaxMetaLogs
      /\ \A m \in S : m.seqnum < FinalPosition(S)
  BY FinalPositionIsMax
<1>3. /\ FinalPosition(T) \in 0..MaxMetaLogs
      /\ T = {} => FinalPosition(T) = 0
      /\ T # {} => \E m \in T : FinalPosition(T) = m.seqnum + 1
  BY <1>1, FinalPositionIsMax
<1>4. \A m \in T : m.seqnum \in Nat
  BY <1>1 DEF MetaLogs
<1> QED
  BY <1>1, <1>2, <1>3, <1>4

\* The controller collects a tail and, with a quorum of them, seals the view
\* at a position that covers everything replicated.
LEMMA SealStep ==
    ASSUME IndInv, NEW s \in Sequencers, OnFreezeZNodeCreated(s)
    PROVE  IndInv'
<1> USE DEF IndInv
<1> DEFINE all  == collected \cup {s}
           tail == UNION {tails[x] : x \in all}
           f    == [position |-> FinalPosition(tail), tail |-> tail]
<1>1. /\ s \in frozen /\ final = {} /\ collected' = all
      /\ final' = IF Cardinality(all) >= SealQuorum THEN {f} ELSE {}
      /\ UNCHANGED <<metalog, pending, progress, replicated, frozen, metaLogMsgs,
                     progMsgs, freezing, tails, outcome>>
  BY DEF OnFreezeZNodeCreated, replicaVars, primaryVars, netVars
<1>2. /\ all \in SUBSET frozen /\ all \in SUBSET Sequencers
      /\ tails \in [Sequencers -> SUBSET MetaLogs]
  BY <1>1 DEF TypeOK
<1>3. tail \in SUBSET MetaLogs /\ \A m \in tail : IsEntry(m)
  BY <1>2 DEF Authentic
<1>4. \A x \in all : tails[x] \in SUBSET tail
  OBVIOUS
<1> HIDE DEF tail, all
<1>5. /\ FinalPosition(tail) \in 0..MaxMetaLogs
      /\ \A m \in tail : m.seqnum < FinalPosition(tail)
      /\ tail = {} => FinalPosition(tail) = 0
      /\ tail # {} => \E m \in tail : FinalPosition(tail) = m.seqnum + 1
  BY <1>3, FinalPositionIsMax
<1>6. \A x \in all : /\ FinalPosition(tails[x]) <= FinalPosition(tail)
                     /\ FinalPosition(tails[x]) \in Nat
  <2> SUFFICES ASSUME NEW x \in all
               PROVE  /\ FinalPosition(tails[x]) <= FinalPosition(tail)
                      /\ FinalPosition(tails[x]) \in Nat
    OBVIOUS
  <2>1. tails[x] \in SUBSET MetaLogs /\ tails[x] \in SUBSET tail
    BY <1>2, <1>4
  <2>2. FinalPosition(tails[x]) \in 0..MaxMetaLogs
    BY <2>1, FinalPositionIsMax
  <2>3. FinalPosition(tails[x]) <= FinalPosition(tail)
    BY <1>3, <2>1, FinalPositionGrows
  <2> QED
    BY <2>2, <2>3, Facts
<1>7. FinalPosition(tail) <= Pos(Primary)
  BY <1>3, <1>5, Facts DEF IsEntry, MetaLogs
<1>8. Cardinality(all) >= SealQuorum => replicated <= FinalPosition(tail)
  <2> SUFFICES ASSUME Cardinality(all) >= SealQuorum
               PROVE  replicated <= FinalPosition(tail)
    OBVIOUS
  <2>1. progress \in [Backups -> Nat] /\ replicated \in Nat
    BY Facts DEF TypeOK
  <2>2. PICK x \in all : x = Primary \/ (x \in Backups /\ progress[x] >= replicated)
    BY <1>2, <2>1, QuorumsMeet DEF FewBehind
  <2>3. x \in frozen
    BY <1>2
  <2>4. CASE x = Primary
    BY <2>3, <2>4, <1>5, <1>6, Facts DEF OneUnreplicated, SealIsQuorum
  <2>5. CASE x \in Backups /\ progress[x] >= replicated
    <3>1. progress[x] <= FinalPosition(tails[x])
      BY <2>3, <2>5 DEF ProgressIsTrue
    <3> QED
      BY <2>1, <2>5, <3>1, <1>5, <1>6, Facts
  <2> QED
    BY <2>2, <2>4, <2>5
<1>9. \A x : Pos(x)' = Pos(x)
  BY <1>1 DEF Pos
<1>10. \A m : IsEntry(m)' <=> IsEntry(m)
  BY <1>1 DEF IsEntry, Pos
<1>11. TypeOK'
  <2>1. final' \subseteq [position : 0..MaxMetaLogs, tail : SUBSET MetaLogs]
    BY <1>1, <1>3, <1>5
  <2>2. collected' \subseteq frozen'
    BY <1>1, <1>2
  <2> QED
    BY <1>1, <1>9, <2>1, <2>2 DEF TypeOK
<1>12. PrefixAgreement' /\ OneUnreplicated' /\ FewBehind' /\ ProgressIsTrue'
  BY <1>1, <1>9 DEF PrefixAgreement, OneUnreplicated, FewBehind, ProgressIsTrue
<1>13. Authentic'
  <2>1. \A g \in final' : \A m \in g.tail : IsEntry(m)'
    BY <1>1, <1>3, <1>10
  <2> QED
    BY <1>1, <1>10, <2>1 DEF Authentic
<1>14. NodesBehind'
  BY <1>1, <1>9 DEF NodesBehind, Covered
<1>15. SealIsQuorum'
  <2>1. \A g \in final' : g = f /\ Cardinality(all) >= SealQuorum
    BY <1>1
  <2>2. \A g \in final' :
          /\ Cardinality(collected') >= SealQuorum
          /\ \A x \in collected' : FinalPosition(tails'[x]) <= g.position
          /\ \A m \in g.tail : m.seqnum < g.position
          /\ g.position <= Pos(Primary)'
          /\ replicated' <= g.position
    BY <1>1, <1>5, <1>6, <1>7, <1>8, <1>9, <2>1
  <2> QED
    BY <1>1, <1>9, <2>1, <2>2 DEF SealIsQuorum
<1>16. FinalizedWhere' /\ NobodySeesTheFuture'
  <2>1. \A n \in LogSpaces : outcome[n] = "none"
    BY <1>1 DEF FinalizedWhere
  <2> QED
    BY <1>1, <1>9, <2>1, Facts DEF FinalizedWhere, NobodySeesTheFuture
<1> QED
  BY <1>11, <1>12, <1>13, <1>14, <1>15, <1>16

\* Where Finalize leaves a log space: the outcome, and what changed.
LEMMA FinalizeFacts ==
    ASSUME IndInv, NEW n \in LogSpaces, NEW f \in final,
           outcome[n] = "none",
           IF Pos(n) < f.position THEN ProvideMetaLogs(n, f.tail) ELSE UNCHANGED replicaVars
    PROVE  /\ metalog' \in [LogSpaces -> Seq(Cuts)]
           /\ \A x \in LogSpaces : Pos(x)' \in 0..MaxMetaLogs
           /\ pending' \in [LogSpaces -> SUBSET MetaLogs]
           /\ metalog'[Primary] = metalog[Primary]
           /\ \A x \in LogSpaces \ {n} : metalog'[x] = metalog[x] /\ pending'[x] = pending[x]
           /\ pending'[n] \subseteq pending[n] \cup f.tail
           /\ Pos(n)' >= Pos(n)
           /\ \A i \in 1..Pos(n) : metalog'[n][i] = metalog[n][i]
           /\ \/ Pos(n)' = Pos(n)
              \/ \E m \in pending[n] \cup f.tail : Pos(n)' = m.seqnum + 1
           /\ PrefixAgreement'
           /\ \A x \in LogSpaces : \A m \in pending'[x] : IsEntry(m)
<1> USE DEF IndInv
<1>1. CASE Pos(n) < f.position
  <2>1. f.tail \in SUBSET MetaLogs /\ \A m \in f.tail : IsEntry(m)
    BY DEF TypeOK, Authentic
  <2>2. ProvideMetaLogs(n, f.tail)
    BY <1>1
  <2> QED
    BY <2>1, <2>2, ProvidePreserves DEF Pos
<1>2. CASE ~(Pos(n) < f.position)
  <2>1. UNCHANGED <<metalog, pending>>
    BY <1>2 DEF replicaVars
  <2>2. \A x : Pos(x)' = Pos(x)
    BY <2>1 DEF Pos
  <2>3. PrefixAgreement'
    BY <2>1, <2>2 DEF PrefixAgreement
  <2>4. \A x \in LogSpaces : \A m \in pending'[x] : IsEntry(m)
    BY <2>1 DEF Authentic
  <2> QED
    BY <2>1, <2>2, <2>3, <2>4, Facts DEF TypeOK
<1> QED
  BY <1>1, <1>2

\* A log space finalizes: a node ends at the sealed position or is stopped by a
\* gap; a sequencer may besides be one metalog ahead.
LEMMA FinalizeStep ==
    ASSUME IndInv, NEW n \in LogSpaces, OnViewFinalized(n)
    PROVE  IndInv'
<1> USE DEF IndInv
<1> DEFINE L(f) == Len(AppliedWith(n, PendingWith(n, f.tail)))
           result(f) ==
             CASE Pos(n) = f.position                        -> "ok"
               [] Pos(n) = f.position + 1                    -> "ahead"
               [] Pos(n) > f.position + 1                    -> "future"
               [] Pos(n) < f.position /\ L(f) < f.position   -> "insufficient"
               [] Pos(n) < f.position /\ L(f) > f.position   -> "uncommon"
               [] Pos(n) < f.position /\ L(f) = f.position   -> "ok"
<1>1. PICK f \in final :
        /\ outcome[n] = "none"
        /\ n \in Sequencers => n \in frozen
        /\ IF Pos(n) < f.position THEN ProvideMetaLogs(n, f.tail) ELSE UNCHANGED replicaVars
        /\ outcome' = [outcome EXCEPT ![n] = result(f)]
        /\ UNCHANGED <<progress, replicated, frozen, metaLogMsgs, progMsgs, freezing,
                       tails, collected, final>>
  BY DEF OnViewFinalized, primaryVars, netVars, sealVars
<1>2. /\ metalog' \in [LogSpaces -> Seq(Cuts)]
      /\ \A x \in LogSpaces : Pos(x)' \in 0..MaxMetaLogs
      /\ pending' \in [LogSpaces -> SUBSET MetaLogs]
      /\ metalog'[Primary] = metalog[Primary]
      /\ \A x \in LogSpaces \ {n} : metalog'[x] = metalog[x] /\ pending'[x] = pending[x]
      /\ pending'[n] \subseteq pending[n] \cup f.tail
      /\ Pos(n)' >= Pos(n)
      /\ \/ Pos(n)' = Pos(n)
         \/ \E m \in pending[n] \cup f.tail : Pos(n)' = m.seqnum + 1
      /\ PrefixAgreement'
      /\ \A x \in LogSpaces : \A m \in pending'[x] : IsEntry(m)
  BY <1>1, FinalizeFacts
<1>3. /\ Pos(Primary)' = Pos(Primary)
      /\ \A x \in LogSpaces \ {n} : Pos(x)' = Pos(x)
      /\ \A m : IsEntry(m)' <=> IsEntry(m)
  BY <1>2 DEF Pos, IsEntry
<1>4. /\ f.position \in 0..MaxMetaLogs
      /\ f.position <= Pos(Primary) /\ replicated <= f.position
      /\ \A g \in final : g = f
      /\ \A m \in f.tail : m.seqnum < f.position /\ m.seqnum \in Nat
  BY DEF TypeOK, SealIsQuorum, MetaLogs
<1>5. Pos(n) \in Nat /\ Pos(n) <= f.position + 1
  <2>1. Pos(n) <= Pos(Primary) /\ Pos(Primary) <= replicated + 1
    BY DEF PrefixAgreement, OneUnreplicated
  <2> QED
    BY <1>4, <2>1, Facts
<1>6. \A q \in Nat : Covered(q) => q <= f.position
  BY <1>4, Facts DEF Covered
<1>7. n \in Nodes => /\ Pos(n)' <= f.position
                     /\ \A m \in pending[n] : m.seqnum + 1 <= f.position
                     /\ Pos(n) <= f.position
  <2> SUFFICES ASSUME n \in Nodes
               PROVE  /\ Pos(n)' <= f.position
                      /\ \A m \in pending[n] : m.seqnum + 1 <= f.position
                      /\ Pos(n) <= f.position
    OBVIOUS
  <2>1. Pos(n) <= f.position
    BY <1>5, <1>6 DEF NodesBehind
  <2>2. \A m \in pending[n] : m.seqnum + 1 <= f.position
    <3> SUFFICES ASSUME NEW m \in pending[n] PROVE m.seqnum + 1 <= f.position
      OBVIOUS
    <3>1. m.seqnum + 1 \in Nat
      BY DEF TypeOK, MetaLogs
    <3>2. Covered(m.seqnum + 1)
      BY DEF NodesBehind
    <3> QED
      BY <1>6, <3>1, <3>2
  <2>3. \A m \in f.tail : m.seqnum + 1 <= f.position
    BY <1>4
  <2> QED
    BY <1>2, <2>1, <2>2, <2>3
<1>8. Pos(n) < f.position => L(f) = Pos(n)'
  <2> SUFFICES ASSUME Pos(n) < f.position PROVE L(f) = Pos(n)'
    OBVIOUS
  <2>1. metalog' = [metalog EXCEPT ![n] = AppliedWith(n, PendingWith(n, f.tail))]
    BY <1>1 DEF ProvideMetaLogs
  <2> QED
    BY <2>1 DEF TypeOK, Pos
<1> DEFINE o == result(f)
<1>9. /\ o = "ok" => Pos(n)' = f.position
      /\ o \in Outcomes /\ o # "future"
      /\ o = "ahead" => Pos(n) = f.position + 1
      /\ o = "uncommon" => Pos(n)' > f.position
  <2> HIDE DEF L
  <2>1. Pos(n)' \in Nat /\ (~(Pos(n) < f.position) => Pos(n)' = Pos(n))
    BY <1>1, <1>2, Facts DEF replicaVars, Pos
  <2>2. CASE Pos(n) = f.position
    BY <2>1, <2>2, <1>4, <1>5 DEF Outcomes, Fatal
  <2>3. CASE Pos(n) = f.position + 1
    BY <2>1, <2>3, <1>4, <1>5 DEF Outcomes, Fatal
  <2>4. CASE Pos(n) < f.position
    BY <2>1, <2>4, <1>4, <1>5, <1>8 DEF Outcomes, Fatal
  <2>5. Pos(n) = f.position \/ Pos(n) = f.position + 1 \/ Pos(n) < f.position
    BY <1>4, <1>5
  <2> HIDE DEF o
  <2> QED
    BY <2>2, <2>3, <2>4, <2>5
<1>10. outcome' = [outcome EXCEPT ![n] = o]
  BY <1>1
<1> HIDE DEF o, result, L
<1>11. outcome'[n] = o /\ \A x \in LogSpaces \ {n} : outcome'[x] = outcome[x]
  BY <1>10 DEF TypeOK
<1>12. TypeOK'
  <2>1. outcome' \in [LogSpaces -> Outcomes]
    BY <1>9, <1>10 DEF TypeOK
  <2>2. \A x \in LogSpaces : Pos(x)' <= MaxMetaLogs
    BY <1>2, Facts
  <2> QED
    BY <1>1, <1>2, <2>1, <2>2 DEF TypeOK
<1>13. Authentic'
  BY <1>1, <1>2, <1>3 DEF Authentic
<1>14. OneUnreplicated' /\ FewBehind' /\ SealIsQuorum'
  BY <1>1, <1>3 DEF OneUnreplicated, FewBehind, SealIsQuorum
<1>15. ProgressIsTrue'
  <2>1. \A b \in Backups : Pos(b)' \in Nat /\ Pos(b)' >= Pos(b)
    <3> SUFFICES ASSUME NEW b \in Backups PROVE Pos(b)' \in Nat /\ Pos(b)' >= Pos(b)
      OBVIOUS
    <3>1. b \in LogSpaces /\ Pos(b) \in Nat /\ Pos(b)' \in Nat
      BY <1>2, Facts
    <3>2. CASE b = n
      BY <1>2, <3>1, <3>2
    <3>3. CASE b # n
      BY <1>3, <3>1, <3>3
    <3> QED
      BY <3>2, <3>3
  <2> QED
    BY <1>1, <2>1, ProgressStays
<1>16. NodesBehind'
  <2>1. \A x \in Nodes : Covered(Pos(x)')
    BY <1>3, <1>7, Facts DEF NodesBehind, Covered
  <2>2. \A x \in Nodes : \A m \in pending'[x] : Covered(m.seqnum + 1)
    <3> SUFFICES ASSUME NEW x \in Nodes, NEW m \in pending'[x]
                 PROVE  Covered(m.seqnum + 1)
      OBVIOUS
    <3>1. CASE x = n /\ m \in f.tail
      BY <3>1, <1>4 DEF Covered
    <3>2. CASE ~(x = n /\ m \in f.tail)
      BY <3>2, <1>2, Facts DEF NodesBehind
    <3> QED
      BY <3>1, <3>2
  <2>3. \A g \in metaLogMsgs : g.dst \in Nodes => g.metalog.seqnum < replicated
    BY DEF NodesBehind
  <2> QED
    BY <1>1, <2>1, <2>2, <2>3 DEF NodesBehind, Covered
<1>17. FinalizedWhere'
  <2>1. \A x \in LogSpaces : outcome'[x] # "none" => final' # {}
    BY <1>1
  <2>2. \A x \in Sequencers : outcome'[x] # "none" => x \in frozen'
    BY <1>1, <1>11, Facts DEF FinalizedWhere
  <2>3. \A g \in final' : \A x \in LogSpaces : outcome'[x] = "ok" => Pos(x)' = g.position
    BY <1>1, <1>3, <1>4, <1>9, <1>11 DEF FinalizedWhere
  <2>4. \A x \in LogSpaces : outcome'[x] = "ahead" => x \in Sequencers
    BY <1>4, <1>7, <1>9, <1>11, Facts DEF FinalizedWhere
  <2> QED
    BY <2>1, <2>2, <2>3, <2>4 DEF FinalizedWhere
<1>18. NobodySeesTheFuture'
  <2>1. \A x \in LogSpaces : outcome'[x] # "future"
    BY <1>9, <1>11 DEF NobodySeesTheFuture
  <2>2. \A x \in Nodes : outcome'[x] # "uncommon"
    <3> SUFFICES ASSUME NEW x \in Nodes, outcome'[x] = "uncommon" PROVE FALSE
      OBVIOUS
    <3>1. CASE x = n
      BY <3>1, <1>2, <1>4, <1>7, <1>9, <1>11
    <3>2. CASE x # n
      BY <3>2, <1>11, Facts DEF NobodySeesTheFuture
    <3> QED
      BY <3>1, <3>2
  <2> QED
    BY <2>1, <2>2 DEF NobodySeesTheFuture
<1> QED
  BY <1>2, <1>12, <1>13, <1>14, <1>15, <1>16, <1>17, <1>18

-----------------------------------------------------------------------------
(* Theorems. *)

\* Every step of the protocol, and every loss, keeps the invariant.
LEMMA StepIndInv == IndInv /\ [Next]_vars => IndInv'
<1> SUFFICES ASSUME IndInv, [Next]_vars PROVE IndInv'
  OBVIOUS
<1>1. CASE \E c \in Cuts : MarkNextCutIfDoable(c)
  BY <1>1, MarkStep
<1>2. CASE \E msg \in metaLogMsgs : OnRecvNewMetaLogsAtBackup(msg)
  BY <1>2, BackupStep
<1>3. CASE \E msg \in progMsgs : OnRecvMetaLogProgress(msg)
  BY <1>3, ProgressStep
<1>4. CASE \E msg \in metaLogMsgs : OnRecvNewMetaLogsAtNode(msg)
  BY <1>4, NodeStep
<1>5. CASE FreezeView
  BY <1>5, QuietStep DEF FreezeView, replicaVars, primaryVars, netVars
<1>6. CASE \E s \in Sequencers : OnViewFrozen(s)
  BY <1>6, FrozenStep
<1>7. CASE \E s \in Sequencers : OnFreezeZNodeCreated(s)
  BY <1>7, SealStep
<1>8. CASE \E n \in LogSpaces : OnViewFinalized(n)
  BY <1>8, FinalizeStep
<1>9. freezing \in BOOLEAN
  BY DEF IndInv, TypeOK
<1>10. CASE Loss
  <2>1. /\ metaLogMsgs' \subseteq metaLogMsgs /\ progMsgs' \subseteq progMsgs
        /\ UNCHANGED <<metalog, pending, progress, replicated, frozen, freezing,
                       tails, collected, final, outcome>>
    BY <1>10 DEF Loss, LoseMetaLogs, LoseMetaLogProgress, replicaVars, primaryVars, sealVars
  <2> QED
    BY <1>9, <2>1, QuietStep
<1>11. CASE UNCHANGED vars
  BY <1>9, <1>11, QuietStep DEF vars, replicaVars, primaryVars, netVars, sealVars
<1> QED
  BY <1>1, <1>2, <1>3, <1>4, <1>5, <1>6, <1>7, <1>8, <1>10, <1>11 DEF Next, Step

\* The inductive invariant holds in every reachable state.
THEOREM Invariance == Spec => []IndInv
<1>1. Init => IndInv
  BY InitIndInv
<1>2. IndInv /\ [Next]_vars => IndInv'
  BY StepIndInv
<1> QED
  BY <1>1, <1>2, PTL DEF Spec

\* Every variable keeps its type.
THEOREM TypeCorrect == Spec => []TypeOK
<1>1. IndInv => TypeOK
  BY DEF IndInv
<1> QED
  BY <1>1, Invariance, PTL

\* Every log space holds a prefix of the primary's metalog.
THEOREM PrefixesAgree == Spec => []PrefixAgreement
<1>1. IndInv => PrefixAgreement
  BY DEF IndInv
<1> QED
  BY <1>1, Invariance, PTL

\* No "Receive future position", no "See the future", no node past the seal.
THEOREM NoFuture == Spec => []NobodySeesTheFuture
<1>1. IndInv => NobodySeesTheFuture
  BY DEF IndInv
<1> QED
  BY <1>1, Invariance, PTL

\* Every seal quorum has a member that holds all that is counted as replicated,
\* for any number of backups, odd or even.
THEOREM ReplicationIsDurable == Spec => []ReplicatedSurvivesSeal
<1>1. IndInv => ReplicatedSurvivesSeal
  <2> SUFFICES ASSUME IndInv, NEW Q \in SUBSET Sequencers, Cardinality(Q) >= SealQuorum
               PROVE  \E s \in Q : Pos(s) >= replicated
    BY DEF ReplicatedSurvivesSeal
  <2> USE DEF IndInv
  <2>1. progress \in [Backups -> Nat] /\ replicated \in Nat
    BY Facts DEF TypeOK
  <2>2. PICK s \in Q : s = Primary \/ (s \in Backups /\ progress[s] >= replicated)
    BY <2>1, QuorumsMeet DEF FewBehind
  <2>3. s \in LogSpaces
    BY Facts
  <2>4. Pos(s) >= replicated
    BY <2>1, <2>2, <2>3, Facts DEF ProgressIsTrue, OneUnreplicated
  <2> QED
    BY <2>4
<1> QED
  BY <1>1, Invariance, PTL

\* The sealed position covers every metalog a node has or will be sent.
THEOREM SealCovers == Spec => []SealCoversPropagated
<1>1. IndInv => SealCoversPropagated
  <2> SUFFICES ASSUME IndInv, NEW f \in final
               PROVE  /\ replicated <= f.position
                      /\ \A n \in Nodes : Pos(n) <= f.position
                      /\ \A msg \in metaLogMsgs :
                           msg.dst \in Nodes => msg.metalog.seqnum < f.position
    BY DEF SealCoversPropagated
  <2> USE DEF IndInv
  <2>1. replicated <= f.position /\ f.position \in Nat /\ \A g \in final : g = f
    BY Facts DEF SealIsQuorum, TypeOK
  <2>2. \A n \in Nodes : Pos(n) <= f.position
    BY <2>1, Facts DEF NodesBehind, Covered
  <2>3. \A msg \in metaLogMsgs : msg.dst \in Nodes => msg.metalog.seqnum < f.position
    <3> SUFFICES ASSUME NEW msg \in metaLogMsgs, msg.dst \in Nodes
                 PROVE  msg.metalog.seqnum < f.position
      OBVIOUS
    <3>1. msg.metalog.seqnum \in Nat /\ msg.metalog.seqnum < replicated
      BY Facts DEF TypeOK, MetaLogs, NodesBehind
    <3> QED
      BY <2>1, <3>1, Facts
  <2> QED
    BY <2>1, <2>2, <2>3
<1> QED
  BY <1>1, Invariance, PTL

\* All log spaces that finalized have the same log, of the sealed length.
THEOREM FinalAgreement == Spec => []FinalizedAgree
<1>1. IndInv => FinalizedAgree
  <2> SUFFICES ASSUME IndInv, NEW f \in final, NEW n \in LogSpaces
               PROVE  /\ outcome[n] = "ok" =>
                           /\ Pos(n) = f.position
                           /\ \A m \in LogSpaces : outcome[m] = "ok" => metalog[m] = metalog[n]
                      /\ outcome[n] = "ahead" => n \in Sequencers
    BY DEF FinalizedAgree
  <2> USE DEF IndInv
  <2>1. ASSUME NEW m \in LogSpaces, outcome[m] = "ok", outcome[n] = "ok"
        PROVE  metalog[m] = metalog[n]
    <3>1. Pos(m) = Pos(n)
      BY <2>1 DEF FinalizedWhere
    <3>2. metalog[m] \in Seq(Cuts) /\ metalog[n] \in Seq(Cuts)
      BY Facts
    <3>3. \A i \in 1..Len(metalog[m]) : metalog[m][i] = metalog[n][i]
      BY <3>1 DEF PrefixAgreement, Pos
    <3> QED
      BY <3>1, <3>2, <3>3, SeqEqual DEF Pos
  <2> QED
    BY <2>1 DEF FinalizedWhere
<1> QED
  BY <1>1, Invariance, PTL

-----------------------------------------------------------------------------
(* What a step may do to the logs. *)

\* Logs grow, the replicated position grows, and the log of a frozen sequencer
\* changes in nothing but its own Finalize.
LEMMA Growth ==
    ASSUME IndInv, [Next]_vars
    PROVE  /\ replicated' >= replicated
           /\ \A n \in LogSpaces :
                /\ Len(metalog'[n]) >= Pos(n)
                /\ \A i \in 1..Pos(n) : metalog'[n][i] = metalog[n][i]
           /\ \A n \in LogSpaces :
                \/ metalog'[n] = metalog[n]
                \/ n \in Sequencers /\ n \notin frozen
                \/ outcome[n] = "none"
                \/ n \in Nodes /\ final' = final /\ outcome' = outcome
<1> USE DEF IndInv
<1> DEFINE Goal ==
       /\ replicated' >= replicated
       /\ \A n \in LogSpaces :
            /\ Len(metalog'[n]) >= Pos(n)
            /\ \A i \in 1..Pos(n) : metalog'[n][i] = metalog[n][i]
       /\ \A n \in LogSpaces :
            \/ metalog'[n] = metalog[n]
            \/ n \in Sequencers /\ n \notin frozen
            \/ outcome[n] = "none"
            \/ n \in Nodes /\ final' = final /\ outcome' = outcome
<1>0. replicated \in Nat /\ \A n \in LogSpaces : Pos(n) \in Nat
  BY Facts
<1>1. ASSUME NEW c \in Cuts, MarkNextCutIfDoable(c) PROVE Goal
  <2>1. /\ metalog' = [metalog EXCEPT ![Primary] = Append(metalog[Primary], c)]
        /\ Primary \notin frozen /\ replicated' = replicated
    BY <1>1 DEF MarkNextCutIfDoable, primaryVars
  <2> DEFINE new == Append(metalog[Primary], c)
  <2>2. Len(new) = Pos(Primary) + 1 /\ \A i \in 1..Pos(Primary) : new[i] = metalog[Primary][i]
    BY Facts, AppendProperties DEF Pos
  <2> HIDE DEF new
  <2>3. metalog'[Primary] = new /\ \A x \in LogSpaces \ {Primary} : metalog'[x] = metalog[x]
    BY <2>1, Facts DEF TypeOK, new
  <2> QED
    BY <1>0, <2>1, <2>2, <2>3, Facts DEF Pos
<1>2. ASSUME NEW msg \in metaLogMsgs, OnRecvNewMetaLogsAtBackup(msg) PROVE Goal
  <2>1. msg.dst \in LogSpaces /\ msg.dst \in Sequencers /\ replicated' = replicated
    BY <1>2, Facts DEF OnRecvNewMetaLogsAtBackup, primaryVars
  <2>2. CASE msg.dst \in frozen
    BY <1>0, <1>2, <2>1, <2>2 DEF OnRecvNewMetaLogsAtBackup, replicaVars, Pos
  <2>3. CASE msg.dst \notin frozen
    <3>1. /\ ProvideMetaLogs(msg.dst, {msg.metalog})
          /\ {msg.metalog} \in SUBSET MetaLogs /\ \A m \in {msg.metalog} : IsEntry(m)
      BY <1>2, <2>3 DEF OnRecvNewMetaLogsAtBackup, TypeOK, Authentic
    <3>2. /\ \A x \in LogSpaces \ {msg.dst} : metalog'[x] = metalog[x]
          /\ Len(metalog'[msg.dst]) >= Pos(msg.dst)
          /\ \A i \in 1..Pos(msg.dst) : metalog'[msg.dst][i] = metalog[msg.dst][i]
      BY <2>1, <3>1, ProvidePreserves
    <3> QED
      BY <1>0, <2>1, <2>3, <3>2 DEF Pos
  <2> QED
    BY <2>2, <2>3
<1>3. ASSUME NEW msg \in progMsgs, OnRecvMetaLogProgress(msg) PROVE Goal
  <2>1. metalog' = metalog
    BY <1>3 DEF OnRecvMetaLogProgress, replicaVars
  <2> DEFINE prog == UpdateReplicaProgress(msg)
  <2>2. replicated' = replicated \/ replicated' = UpdateMetaLogReplicatedPosition(prog)
    BY <1>3 DEF OnRecvMetaLogProgress, primaryVars
  <2>3. /\ prog \in [Backups -> 0..MaxMetaLogs] /\ Backups # {}
        /\ \A b \in Backups : progress[b] <= prog[b] /\ prog[b] <= Pos(b)
    <3>1. /\ progress \in [Backups -> 0..MaxMetaLogs]
          /\ msg.src \in Backups /\ msg.position \in 0..MaxMetaLogs
          /\ msg.position <= Pos(msg.src)
      BY DEF TypeOK, ProgressIsTrue
    <3> QED
      BY <3>1, Facts DEF ProgressIsTrue, UpdateReplicaProgress
  <2>4. UpdateMetaLogReplicatedPosition(prog) >= replicated
    <3> HIDE DEF prog
    <3>1. /\ UpdateMetaLogReplicatedPosition(prog) \in 0..MaxMetaLogs
          /\ replicated <= UpdateMetaLogReplicatedPosition(prog)
      BY <2>3, NewPosition
    <3> QED
      BY <1>0, <3>1
  <2> HIDE DEF prog
  <2> QED
    BY <1>0, <2>1, <2>2, <2>4 DEF Pos
<1>4. ASSUME NEW msg \in metaLogMsgs, OnRecvNewMetaLogsAtNode(msg) PROVE Goal
  <2>1. /\ msg.dst \in LogSpaces /\ msg.dst \in Nodes /\ replicated' = replicated
        /\ final' = final /\ outcome' = outcome
        /\ ProvideMetaLogs(msg.dst, {msg.metalog})
        /\ {msg.metalog} \in SUBSET MetaLogs /\ \A m \in {msg.metalog} : IsEntry(m)
    BY <1>4, Facts DEF OnRecvNewMetaLogsAtNode, primaryVars, sealVars, TypeOK, Authentic
  <2>2. /\ \A x \in LogSpaces \ {msg.dst} : metalog'[x] = metalog[x]
        /\ Len(metalog'[msg.dst]) >= Pos(msg.dst)
        /\ \A i \in 1..Pos(msg.dst) : metalog'[msg.dst][i] = metalog[msg.dst][i]
    BY <2>1, ProvidePreserves
  <2> QED
    BY <1>0, <2>1, <2>2 DEF Pos
<1>5. ASSUME NEW n \in LogSpaces, OnViewFinalized(n) PROVE Goal
  <2>1. PICK f \in final :
          /\ outcome[n] = "none" /\ replicated' = replicated
          /\ IF Pos(n) < f.position THEN ProvideMetaLogs(n, f.tail) ELSE UNCHANGED replicaVars
    BY <1>5 DEF OnViewFinalized, primaryVars
  <2>2. /\ \A x \in LogSpaces \ {n} : metalog'[x] = metalog[x]
        /\ Pos(n)' >= Pos(n)
        /\ \A i \in 1..Pos(n) : metalog'[n][i] = metalog[n][i]
    BY <2>1, FinalizeFacts
  <2> QED
    BY <1>0, <2>1, <2>2 DEF Pos
<1>6. ASSUME metalog' = metalog, replicated' = replicated PROVE Goal
  BY <1>0, <1>6 DEF Pos
<1>7. ASSUME \/ FreezeView
             \/ \E s \in Sequencers : OnViewFrozen(s) \/ OnFreezeZNodeCreated(s)
             \/ Loss
             \/ UNCHANGED vars
      PROVE  metalog' = metalog /\ replicated' = replicated
  BY <1>7 DEF FreezeView, OnViewFrozen, OnFreezeZNodeCreated, Loss, LoseMetaLogs,
              LoseMetaLogProgress, vars, replicaVars, primaryVars
<1> HIDE DEF Goal
<1>8. Goal
  BY <1>1, <1>2, <1>3, <1>4, <1>5, <1>6, <1>7 DEF Next, Step
<1> QED
  BY <1>8 DEF Goal

\* Neither the replicated position nor an applied metalog is ever taken back.
THEOREM AppendOnly == Spec => NothingTakenBack
<1>1. IndInv /\ [Next]_vars =>
        [/\ replicated' >= replicated
         /\ \A n \in LogSpaces :
              /\ Len(metalog'[n]) >= Pos(n)
              /\ \A i \in 1..Pos(n) : metalog'[n][i] = metalog[n][i]]_vars
  BY Growth
<1> QED
  BY <1>1, Invariance, PTL DEF Spec, NothingTakenBack

\* The log of a finalized log space never changes again, late messages or not.
THEOREM FinalizedIsFinal == Spec => FinalizedLogIsStable
<1>1. ASSUME IndInv, [Next]_vars, NEW n \in LogSpaces, outcome[n] \in {"ok", "ahead"}
      PROVE  metalog'[n] = metalog[n]
  <2> USE DEF IndInv
  <2>1. IndInv'
    BY <1>1, StepIndInv
  <2>2. CASE n \in Sequencers
    BY <1>1, <2>2, Growth, Facts DEF FinalizedWhere
  <2>3. CASE n \in Nodes
    <3> SUFFICES ASSUME final' = final, outcome' = outcome
                 PROVE  metalog'[n] = metalog[n]
      BY <1>1, <2>3, Growth, Facts
    <3>1. outcome[n] = "ok" /\ final # {}
      BY <1>1, <2>3, Facts DEF FinalizedWhere
    <3>2. PICK f : f \in final
      BY <3>1
    <3>3. Pos(n) = f.position /\ Pos(n)' = f.position
      BY <1>1, <2>1, <3>1, <3>2 DEF FinalizedWhere
    <3>4. metalog[n] \in Seq(Cuts) /\ metalog'[n] \in Seq(Cuts)
      BY <1>1, <2>1 DEF TypeOK
    <3>5. \A i \in 1..Len(metalog[n]) : metalog[n][i] = metalog'[n][i]
      BY <1>1, Growth DEF Pos
    <3> QED
      BY <3>3, <3>4, <3>5, SeqEqual DEF Pos
  <2> QED
    BY <1>1, <2>2, <2>3, Facts
<1>2. IndInv /\ [Next]_vars =>
        [\A n \in LogSpaces : outcome[n] \in {"ok", "ahead"} => metalog'[n] = metalog[n]]_vars
  BY <1>1
<1> QED
  BY <1>2, Invariance, PTL DEF Spec, FinalizedLogIsStable

-----------------------------------------------------------------------------
(* The protocol implements OrderedMetaLog. *)

\* A node's longer prefix is a Read of the abstract log.
LEMMA ReadStep ==
    ASSUME IndInv, IndInv', NEW n \in Nodes,
           metalog'[Primary] = metalog[Primary],
           \A x \in LogSpaces \ {n} : metalog'[x] = metalog[x],
           Len(metalog'[n]) >= Pos(n),
           UNCHANGED <<replicated, final>>
    PROVE  Abstract!Read(n)
<1> USE DEF IndInv
<1> DEFINE k == Len(metalog'[n])
           reader == [x \in Nodes |-> metalog[x]]
<1>1. /\ metalog[n] \in Seq(Cuts) /\ metalog'[n] \in Seq(Cuts)
      /\ metalog[Primary] \in Seq(Cuts)
      /\ n \in LogSpaces /\ k \in Nat /\ Pos(n)' = k
  BY Facts DEF TypeOK, Pos
<1>2. /\ k <= Len(metalog[Primary])
      /\ \A i \in 1..k : metalog'[n][i] = metalog[Primary][i]
  BY <1>1, Facts DEF PrefixAgreement, Pos
<1>3. k \in Len(reader[n])..Len(metalog[Primary])
  BY <1>1, <1>2 DEF Pos
<1>4. metalog'[n] = SubSeq(metalog[Primary], 1, k)
  <2>1. \A i \in 1..k : metalog[Primary][i] \in Cuts
    BY <1>1, <1>2
  <2> DEFINE t == SubSeq(metalog[Primary], 1, k)
  <2>2. /\ t \in Seq(Cuts)
        /\ Len(t) = k
        /\ \A i \in 1..k : t[i] = metalog[Primary][i]
    <3>1. /\ t \in Seq(Cuts)
          /\ Len(t) = IF 1 <= k THEN k - 1 + 1 ELSE 0
          /\ \A i \in 1..(k - 1 + 1) : t[i] = metalog[Primary][1 + i - 1]
      <4> HIDE DEF k
      <4> QED
        BY <1>1, <2>1, SubSeqProperties
    <3> HIDE DEF k, t
    <3> QED
      BY <1>1, <3>1
  <2> HIDE DEF t
  <2>3. \A i \in 1..Len(metalog'[n]) : metalog'[n][i] = t[i]
    BY <1>2, <2>2
  <2>4. metalog'[n] = t
    BY <1>1, <2>2, <2>3, SeqEqual
  <2> QED
    BY <2>4 DEF t
<1>5. k <= replicated \/ \E q \in {f.position : f \in final} : k <= q
  BY <1>1 DEF NodesBehind, Covered
<1>6. [x \in Nodes |-> metalog'[x]] = [reader EXCEPT ![n] = SubSeq(metalog[Primary], 1, k)]
  <2>1. \A x \in Nodes : x # n => metalog'[x] = metalog[x]
    BY Facts
  <2> QED
    BY <1>4, <2>1
<1> HIDE DEF k
<1>7. \E j \in Len(reader[n])..Len(metalog[Primary]) :
         /\ j <= replicated \/ \E q \in {f.position : f \in final} : j <= q
         /\ [x \in Nodes |-> metalog'[x]] = [reader EXCEPT ![n] = SubSeq(metalog[Primary], 1, j)]
  BY <1>3, <1>5, <1>6
<1> QED
  BY <1>7 DEF Abstract!Read

\* The refinement: marking a cut, counting it as replicated, a node's progress
\* and the seal are the abstract steps; everything else stutters.
THEOREM Refinement == Spec => ImplementsOrderedMetaLog
<1>1. Init => Abstract!Init
  <2> SUFFICES ASSUME Init PROVE Abstract!Init
    OBVIOUS
  <2>1. Primary \in LogSpaces /\ Nodes \subseteq LogSpaces
    BY DEF LogSpaces, Sequencers
  <2>2. metalog[Primary] = <<>> /\ [x \in Nodes |-> metalog[x]] = [x \in Nodes |-> <<>>]
    BY <2>1 DEF Init
  <2> QED
    BY <2>2 DEF Init, Abstract!Init
<1>2. ASSUME IndInv, IndInv', [Next]_vars
      PROVE  [Abstract!Next]_(Abstract!vars)
  <2> USE <1>2 DEF IndInv
  <2> DEFINE Goal == [Abstract!Next]_(Abstract!vars)
  <2>1. ASSUME metalog' = metalog, replicated' = replicated, final' = final PROVE Goal
    BY <2>1 DEF Abstract!vars
  <2>2. ASSUME NEW c \in Cuts, MarkNextCutIfDoable(c) PROVE Goal
    <3>1. /\ metalog' = [metalog EXCEPT ![Primary] = Append(metalog[Primary], c)]
          /\ replicated = Len(metalog[Primary])
          /\ replicated' = replicated /\ final' = final
      BY <2>2 DEF MarkNextCutIfDoable, primaryVars, sealVars, Pos
    <3>2. metalog'[Primary] = Append(metalog[Primary], c)
      BY <3>1, Facts DEF TypeOK
    <3>3. \A x \in Nodes : metalog'[x] = metalog[x]
      BY <3>1, Facts DEF TypeOK
    <3>4. Abstract!Mark
      BY <3>1, <3>2, <3>3 DEF Abstract!Mark
    <3> QED
      BY <3>4 DEF Abstract!Next
  <2>3. ASSUME NEW msg \in metaLogMsgs, OnRecvNewMetaLogsAtBackup(msg) PROVE Goal
    <3>1. /\ msg.dst \in Backups /\ replicated' = replicated /\ final' = final
          /\ {msg.metalog} \in SUBSET MetaLogs /\ \A m \in {msg.metalog} : IsEntry(m)
      BY <2>3 DEF OnRecvNewMetaLogsAtBackup, primaryVars, sealVars, TypeOK, Authentic
    <3>2. CASE msg.dst \in frozen
      BY <2>1, <2>3, <3>1, <3>2 DEF OnRecvNewMetaLogsAtBackup, replicaVars
    <3>3. CASE msg.dst \notin frozen
      <4>1. ProvideMetaLogs(msg.dst, {msg.metalog})
        BY <2>3, <3>3 DEF OnRecvNewMetaLogsAtBackup
      <4>2. /\ metalog'[Primary] = metalog[Primary]
            /\ \A x \in LogSpaces \ {msg.dst} : metalog'[x] = metalog[x]
        BY <3>1, <4>1, Facts, ProvidePreserves
      <4>3. \A x \in Nodes : metalog'[x] = metalog[x]
        BY <3>1, <4>2, Facts
      <4> QED
        BY <3>1, <4>2, <4>3 DEF Abstract!vars
    <3> QED
      BY <3>2, <3>3
  <2>4. ASSUME NEW msg \in progMsgs, OnRecvMetaLogProgress(msg) PROVE Goal
    <3>1. metalog' = metalog /\ final' = final
      BY <2>4 DEF OnRecvMetaLogProgress, replicaVars, sealVars
    <3>2. CASE replicated' = replicated
      BY <2>1, <3>1, <3>2
    <3>3. CASE replicated' # replicated
      <4>1. replicated' >= replicated
        BY Growth
      <4>2. replicated' \in (replicated + 1)..Len(metalog[Primary])
        BY <3>1, <3>3, <4>1, Facts DEF OneUnreplicated, TypeOK, Pos
      <4>3. \A q \in {f.position : f \in final} : replicated' <= q
        BY <3>1 DEF SealIsQuorum
      <4>4. Abstract!Commit
        BY <3>1, <4>2, <4>3 DEF Abstract!Commit
      <4> QED
        BY <4>4 DEF Abstract!Next
    <3> QED
      BY <3>2, <3>3
  <2>5. ASSUME NEW msg \in metaLogMsgs, OnRecvNewMetaLogsAtNode(msg) PROVE Goal
    <3>1. /\ msg.dst \in Nodes /\ replicated' = replicated /\ final' = final
          /\ {msg.metalog} \in SUBSET MetaLogs /\ \A m \in {msg.metalog} : IsEntry(m)
          /\ ProvideMetaLogs(msg.dst, {msg.metalog})
      BY <2>5 DEF OnRecvNewMetaLogsAtNode, primaryVars, sealVars, TypeOK, Authentic
    <3>2. /\ metalog'[Primary] = metalog[Primary]
          /\ \A x \in LogSpaces \ {msg.dst} : metalog'[x] = metalog[x]
          /\ Len(metalog'[msg.dst]) >= Pos(msg.dst)
      BY <3>1, Facts, ProvidePreserves
    <3>3. Abstract!Read(msg.dst)
      BY <3>1, <3>2, ReadStep
    <3> QED
      BY <3>1, <3>3 DEF Abstract!Next
  <2>6. ASSUME NEW s \in Sequencers, OnFreezeZNodeCreated(s) PROVE Goal
    <3>1. metalog' = metalog /\ replicated' = replicated /\ final = {}
      BY <2>6 DEF OnFreezeZNodeCreated, replicaVars, primaryVars
    <3>2. CASE final' = {}
      BY <2>1, <3>1, <3>2
    <3>3. CASE final' # {}
      <4>1. PICK f : f \in final'
        BY <3>3
      <4>2. final' = {f}
        BY <4>1 DEF SealIsQuorum
      <4>3. f.position \in replicated..Len(metalog[Primary])
        BY <3>1, <4>1, Facts DEF SealIsQuorum, TypeOK, Pos
      <4>4. {g.position : g \in final'} = {f.position}
        BY <4>2
      <4>5. {g.position : g \in final} = {}
        BY <3>1
      <4>6. Abstract!Seal
        BY <3>1, <4>3, <4>4, <4>5 DEF Abstract!Seal
      <4> QED
        BY <4>6 DEF Abstract!Next
    <3> QED
      BY <3>2, <3>3
  <2>7. ASSUME NEW n \in LogSpaces, OnViewFinalized(n) PROVE Goal
    <3>1. PICK f \in final :
            /\ outcome[n] = "none" /\ replicated' = replicated /\ final' = final
            /\ IF Pos(n) < f.position THEN ProvideMetaLogs(n, f.tail) ELSE UNCHANGED replicaVars
      BY <2>7 DEF OnViewFinalized, primaryVars, sealVars
    <3>2. /\ metalog'[Primary] = metalog[Primary]
          /\ \A x \in LogSpaces \ {n} : metalog'[x] = metalog[x]
          /\ Len(metalog'[n]) >= Pos(n)
      BY <3>1, FinalizeFacts DEF Pos
    <3>3. CASE n \in Nodes
      <4>1. Abstract!Read(n)
        BY <3>1, <3>2, <3>3, ReadStep
      <4> QED
        BY <3>3, <4>1 DEF Abstract!Next
    <3>4. CASE n \notin Nodes
      <4>1. \A x \in Nodes : metalog'[x] = metalog[x]
        BY <3>2, <3>4, Facts
      <4> QED
        BY <3>1, <3>2, <4>1 DEF Abstract!vars
    <3> QED
      BY <3>3, <3>4
  <2>8. ASSUME \/ FreezeView
               \/ \E s \in Sequencers : OnViewFrozen(s)
               \/ Loss
               \/ UNCHANGED vars
        PROVE  metalog' = metalog /\ replicated' = replicated /\ final' = final
    BY <2>8 DEF FreezeView, OnViewFrozen, Loss, LoseMetaLogs, LoseMetaLogProgress,
                vars, replicaVars, primaryVars, sealVars
  <2> HIDE DEF Goal
  <2>9. Goal
    BY <1>2, <2>1, <2>2, <2>3, <2>4, <2>5, <2>6, <2>7, <2>8 DEF Next, Step
  <2> QED
    BY <2>9 DEF Goal
<1> QED
  BY <1>1, <1>2, Invariance, PTL DEF Spec, ImplementsOrderedMetaLog, Abstract!Spec

=============================================================================
