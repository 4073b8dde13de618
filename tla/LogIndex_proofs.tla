--------------------------- MODULE LogIndex_proofs ---------------------------
(***************************************************************************)
(* Proofs about LogIndex: for every log, every set of cuts, every placing  *)
(* of the entries on storage nodes and every order of metalogs and index   *)
(* data, IndInv is inductive.  Reads are therefore searches of the log,    *)
(* and no read misses what its call knew of.                               *)
(***************************************************************************)
EXTENDS LogIndex, FiniteSetTheorems, SequenceTheorems, WellFoundedInduction, TLAPS

-----------------------------------------------------------------------------
(* The inductive invariant. *)

\* What a search of the first n entries of the log gives for query q.
LogBelow(n, tag) == {s \in 0..(n - 1) : Matches(s, tag)}
Search(q, n) ==
    IF q.dir = "prev" THEN Greatest({s \in LogBelow(n, q.tag) : s <= q.seqnum})
                      ELSE Least({s \in LogBelow(n, q.tag) : s >= q.seqnum})

TypeOK ==
    /\ metalogPos \in 0..NumCuts
    /\ received \in SUBSET Seqnums
    /\ dataPos \in 0..End(NumCuts)
    /\ indexedPos \in 0..NumCuts
    /\ indexedSeqnum \in 0..End(NumCuts)
    /\ index \in Seq(Seqnums)
    /\ packages \in SUBSET Packages
    /\ op \in [Clients -> Ops]
    /\ session \in [Clients -> 0..NumCuts]
    /\ viewFinalized \in BOOLEAN

\* seqnums_ holds the seqnums of the indexed cuts, each once and in order.
IndexIsLogPrefix == index = [i \in 1..End(indexedPos) |-> i - 1]

\* What is kept in received_data_ is what is not indexed yet, without a gap up
\* to data_received_seqnum_position_.
ProgressInv ==
    /\ indexedPos <= metalogPos
    /\ indexedSeqnum = End(indexedPos)
    /\ indexedSeqnum <= dataPos
    /\ \A s \in indexedSeqnum..(dataPos - 1) : s \in received
    /\ \A s \in received : indexedSeqnum <= s

\* An answer is a search of the log at a position the index had reached; only
\* the end of the view lets a query pass that waits for a later position.
AnswerInv(o, pos, final) ==
    /\ o.state = "done" =>
         /\ o.at <= pos
         /\ o.result = Search(o, End(o.at))
         /\ final \/ o.progress <= o.at
    /\ o.state = "blocking" => o.dir = "nextB" /\ (final \/ o.progress <= pos)

IndInv ==
    /\ TypeOK
    /\ IndexIsLogPrefix
    /\ ProgressInv
    /\ \A c \in Clients : AnswerInv(op[c], indexedPos, viewFinalized)
-----------------------------------------------------------------------------
(* The operators of the model. *)

\* A non-empty set of natural numbers has a least element.
LEMMA NatMin ==
    ASSUME NEW S \in SUBSET Nat, S # {}
    PROVE  \E s \in S : \A x \in S : s <= x
<1> DEFINE R == {ss \in Nat \X Nat : ss[1] < ss[2]}
<1>1. IsWellFoundedOn(R, Nat)
  BY NatLessThanWellFounded DEF OpToRel
<1> HIDE DEF R
<1>2. PICK s \in S : \A x \in S : ~(<<x, s>> \in R)
  BY <1>1, WFMin
<1>3. \A x \in S : ~(x < s)
  BY <1>2 DEF R
<1> QED
  BY <1>3

\* A non-empty set of natural numbers with a bound has a greatest element.
LEMMA NatMax ==
    ASSUME NEW n \in Nat, NEW S \in SUBSET (0..n), S # {}
    PROVE  \E s \in S : \A x \in S : s >= x
<1> DEFINE T == {n - s : s \in S}
<1>1. T \in SUBSET Nat /\ T # {}
  <2>1. \A s \in S : n - s \in Nat
    OBVIOUS
  <2> QED
    BY <2>1
<1> HIDE DEF T
<1>2. PICK t \in T : \A x \in T : t <= x
  BY <1>1, NatMin
<1>3. PICK s \in S : t = n - s
  BY <1>2 DEF T
<1>4. \A x \in S : n - s <= n - x
  BY <1>2, <1>3 DEF T
<1> QED
  BY <1>4

\* Ends of cuts are natural numbers and grow with the position.
LEMMA EndFacts ==
    /\ NumCuts \in Nat
    /\ \A p \in 0..NumCuts : End(p) \in Nat
    /\ \A p, q \in 0..NumCuts : p <= q => End(p) <= End(q)
<1>1. NumCuts \in Nat
  BY IndexAssumption DEF NumCuts
<1>2. \A p \in 0..NumCuts : End(p) \in Nat
  BY IndexAssumption, <1>1 DEF End, NumCuts
<1>3. ASSUME NEW p \in 0..NumCuts, NEW q \in 0..NumCuts, p <= q, End(p) > End(q)
      PROVE  FALSE
  <2> DEFINE Bad == {r \in 0..NumCuts : p <= r /\ End(p) > End(r)}
  <2>1. Bad \in SUBSET Nat /\ Bad # {}
    BY <1>1, <1>3
  <2>2. PICK r \in Bad : \A x \in Bad : r <= x
    <3> HIDE DEF Bad
    <3> QED BY <2>1, NatMin
  <2>3. r # p
    BY <2>2, <1>2
  <2>4. r - 1 \in 0..NumCuts /\ p <= r - 1 /\ r \in 1..NumCuts
    BY <2>2, <2>3, <1>1
  <2>5. End(r - 1) < End(r)
    BY <2>4, IndexAssumption
  <2>6. r - 1 \in Bad
    BY <2>2, <2>4, <2>5, <1>2
  <2> QED
    BY <2>6, <2>2, <2>4
<1> QED
  BY <1>1, <1>2, <1>3

\* Least and Greatest are what their names say on sets of seqnums.
LEMMA LeastFacts ==
    ASSUME NEW S \in SUBSET Nat
    PROVE  /\ S = {} => Least(S) = None
           /\ S # {} => Least(S) \in S /\ \A x \in S : Least(S) <= x
<1>1. S # {} => \E s \in S : \A x \in S : s <= x
  BY NatMin
<1> QED
  BY <1>1 DEF Least

\* A set of naturals with an upper bound has a greatest element.
LEMMA GreatestFacts ==
    ASSUME NEW n \in Nat, NEW S \in SUBSET (0..n)
    PROVE  /\ S = {} => Greatest(S) = None
           /\ S # {} => Greatest(S) \in S /\ \A x \in S : Greatest(S) >= x
<1>1. S # {} => \E s \in S : \A x \in S : s >= x
  BY NatMax
<1> QED
  BY <1>1 DEF Greatest

\* Sorting the seqnums of an interval gives them one by one.
LEMMA SortedInterval ==
    ASSUME NEW a \in Nat, NEW b \in Nat, a <= b
    PROVE  SortedSeq(a..(b - 1)) = [i \in 1..(b - a) |-> a + i - 1]
<1> DEFINE n == b - a
           g == [i \in 1..n |-> a + i - 1]
           Sorted(f) == \A i, j \in DOMAIN f : i < j => f[i] < f[j]
           f == SortedSeq(a..(b - 1))
<1>1. n \in Nat /\ Cardinality(a..(b - 1)) = n
  <2>1. b - 1 \in Int /\ a \in Int
    OBVIOUS
  <2>2. Cardinality(a..(b - 1)) = IF a > b - 1 THEN 0 ELSE (b - 1) - a + 1
    BY <2>1, FS_Interval
  <2> QED
    BY <2>2
<1>2. g \in [1..n -> a..(b - 1)] /\ Sorted(g)
  OBVIOUS
<1>3. f \in [1..n -> a..(b - 1)] /\ Sorted(f)
  BY <1>1, <1>2 DEF SortedSeq
<1> HIDE DEF f
<1>4. ASSUME NEW k \in 1..n, f[k] < a + k - 1
      PROVE  FALSE
  <2> DEFINE Bad == {i \in 1..n : f[i] < a + i - 1}
  <2>1. Bad \in SUBSET Nat /\ Bad # {}
    BY <1>4
  <2>2. PICK i \in Bad : \A x \in Bad : i <= x
    <3> HIDE DEF Bad
    <3> QED BY <2>1, NatMin
  <2>3. i # 1
    BY <2>2, <1>3
  <2>4. i - 1 \in 1..n /\ ~(i <= i - 1)
    BY <2>2, <2>3
  <2>5. i - 1 \notin Bad
    BY <2>2, <2>4
  <2>6. f[i - 1] >= a + i - 2 /\ f[i - 1] < f[i]
    BY <2>2, <2>4, <2>5, <1>3
  <2> QED
    BY <2>2, <2>4, <2>6, <1>3
<1>5. ASSUME NEW k \in 1..n, f[k] > a + k - 1
      PROVE  FALSE
  <2> DEFINE Bad == {i \in 0..n : i # 0 /\ f[i] > a + i - 1}
  <2>1. Bad \in SUBSET (0..n) /\ Bad # {}
    BY <1>5
  <2>2. PICK i \in Bad : \A x \in Bad : i >= x
    <3> HIDE DEF Bad
    <3> QED BY <2>1, <1>1, NatMax
  <2>3. i # n
    BY <2>2, <1>3, <1>1
  <2>4. i + 1 \in 1..n /\ i \in 1..n /\ i + 1 # 0 /\ ~(i >= i + 1)
    BY <2>2, <2>3
  <2>5. i + 1 \notin Bad
    BY <2>2, <2>4
  <2>6. f[i + 1] <= a + i /\ f[i] < f[i + 1]
    BY <2>2, <2>4, <2>5, <1>3
  <2> QED
    BY <2>2, <2>4, <2>6, <1>3
<1>6. ASSUME NEW i \in 1..n PROVE f[i] = a + i - 1
  <2>1. f[i] \in Int /\ a + i - 1 \in Int
    BY <1>3
  <2>2. ~(f[i] < a + i - 1) /\ ~(f[i] > a + i - 1)
    BY <1>4, <1>5
  <2> QED
    BY <2>1, <2>2
<1>7. f = g
  BY <1>3, <1>6
<1> QED
  BY <1>7 DEF f

\* data_received_seqnum_position_ moves to the first seqnum not received.
LEMMA DataPositionFacts ==
    ASSUME NEW recv \in SUBSET Seqnums, dataPos \in 0..End(NumCuts)
    PROVE  /\ DataPosition(recv) \in dataPos..End(NumCuts)
           /\ \A s \in dataPos..(DataPosition(recv) - 1) : s \in recv
<1> DEFINE n == End(NumCuts)
           Missing == {p \in dataPos..n : p \notin recv}
<1>1. n \in Nat /\ n \notin recv
  BY EndFacts DEF Seqnums
<1> HIDE DEF n
<1>2. Missing \in SUBSET Nat /\ Missing # {}
  BY <1>1 DEF n
<1>3. PICK p \in Missing : \A x \in Missing : p <= x
  <2> HIDE DEF Missing
  <2> QED BY <1>2, NatMin
<1>4. \A s \in dataPos..(p - 1) : s \in recv
  BY <1>1, <1>3 DEF n
<1>5. p \in dataPos..n /\ p \notin recv
  BY <1>3
<1> QED
  BY <1>4, <1>5 DEF DataPosition, n

\* The index advances to the last metalog whose data is complete.
LEMMA IndexableFacts ==
    ASSUME indexedPos \in 0..NumCuts, NEW mpos \in 0..NumCuts, indexedPos <= mpos, NEW d \in Nat
    PROVE  /\ IndexablePosition(mpos, d) \in indexedPos..mpos
           /\ IndexablePosition(mpos, d) = indexedPos \/ End(IndexablePosition(mpos, d)) <= d
<1> DEFINE Good == {p \in indexedPos..mpos : p = indexedPos \/ End(p) <= d}
<1>1. NumCuts \in Nat /\ \A p \in 0..NumCuts : End(p) \in Nat
  BY EndFacts
<1>2. Good \in SUBSET (0..NumCuts) /\ Good # {}
  BY <1>1
<1>3. PICK p \in Good : \A x \in Good : p >= x
  <2> HIDE DEF Good
  <2> QED BY <1>1, <1>2, NatMax
<1>4. ASSUME NEW r \in (p + 1)..mpos PROVE End(r) > d
  <2>1. r \notin Good /\ r \in indexedPos..mpos /\ r \in 0..NumCuts
    BY <1>1, <1>3
  <2> QED
    BY <2>1, <1>1
<1>5. p \in indexedPos..mpos /\ (p = indexedPos \/ End(p) <= d)
  BY <1>3
<1> QED
  BY <1>4, <1>5 DEF IndexablePosition

\* A lookup in an index that is a prefix of the log is a search of that prefix.
LEMMA FindIsSearch ==
    ASSUME NEW n \in Nat, NEW q
    PROVE  Find([i \in 1..n |-> i - 1], q) = Search(q, n)
<1> DEFINE idx == [i \in 1..n |-> i - 1]
<1>1. Hits(idx, q.tag) = LogBelow(n, q.tag)
  <2>1. ASSUME NEW s \in Hits(idx, q.tag) PROVE s \in LogBelow(n, q.tag)
    <3>1. PICK i \in {j \in DOMAIN idx : Matches(idx[j], q.tag)} : s = idx[i]
      BY DEF Hits
    <3>2. i \in 1..n /\ s = i - 1 /\ Matches(s, q.tag)
      BY <3>1
    <3> QED
      BY <3>2 DEF LogBelow
  <2>2. ASSUME NEW s \in LogBelow(n, q.tag) PROVE s \in Hits(idx, q.tag)
    <3>1. s + 1 \in DOMAIN idx /\ idx[s + 1] = s
      BY DEF LogBelow
    <3> QED
      BY <3>1 DEF Hits, LogBelow
  <2> QED
    BY <2>1, <2>2
<1> HIDE DEF idx
<1>2. Find(idx, q) = Search(q, n)
  BY <1>1 DEF Find, FindNext, FindPrev, Search
<1> QED
  BY <1>2 DEF idx

\* A search gives the nearest entry, or nothing when there is none.
LEMMA SearchFacts ==
    ASSUME NEW n \in Nat, NEW q, q.seqnum \in Int
    PROVE  /\ Search(q, n) \in (0..(n - 1)) \cup {None}
           /\ \A s \in LogBelow(n, q.tag) :
                /\ q.dir # "prev" /\ s >= q.seqnum =>
                     Search(q, n) # None /\ Search(q, n) <= s
                /\ q.dir = "prev" /\ s <= q.seqnum => Search(q, n) >= s
<1> DEFINE A == {s \in LogBelow(n, q.tag) : s >= q.seqnum}
           B == {s \in LogBelow(n, q.tag) : s <= q.seqnum}
<1>1. A \in SUBSET Nat /\ A \subseteq 0..(n - 1) /\ B \in SUBSET (0..n) /\ B \subseteq 0..(n - 1)
  BY DEF LogBelow
<1>2. q.dir # "prev" => Search(q, n) = Least(A)
  BY DEF Search
<1>3. q.dir = "prev" => Search(q, n) = Greatest(B)
  BY DEF Search
<1>4. \A s \in LogBelow(n, q.tag) : (s >= q.seqnum => s \in A) /\ (s <= q.seqnum => s \in B)
  OBVIOUS
<1> HIDE DEF A, B
<1>5. /\ A = {} => Least(A) = None
      /\ A # {} => Least(A) \in A /\ \A x \in A : Least(A) <= x
  BY <1>1, LeastFacts
<1>6. /\ B = {} => Greatest(B) = None
      /\ B # {} => Greatest(B) \in B /\ \A x \in B : Greatest(B) >= x
  BY <1>1, GreatestFacts
<1>7. CASE q.dir = "prev"
  BY <1>1, <1>3, <1>4, <1>6, <1>7
<1>8. CASE q.dir # "prev"
  <2>1. Search(q, n) \in (0..(n - 1)) \cup {None}
    BY <1>1, <1>2, <1>5, <1>8
  <2>2. ASSUME NEW s \in LogBelow(n, q.tag), s >= q.seqnum
        PROVE  Search(q, n) # None /\ Search(q, n) <= s
    <3>1. s \in A /\ A # {}
      BY <1>4, <2>2
    <3>2. Least(A) \in Nat /\ Least(A) <= s
      BY <3>1, <1>1, <1>5
    <3> QED
      BY <3>2, <1>2, <1>8 DEF None
  <2> QED
    BY <2>1, <2>2, <1>8
<1> QED
  BY <1>7, <1>8

\* Appending the seqnums from a to b - 1 to those below a gives those below b.
LEMMA PrefixConcat ==
    ASSUME NEW a \in Nat, NEW b \in Nat, a <= b
    PROVE  [i \in 1..a |-> i - 1] \o [i \in 1..(b - a) |-> a + i - 1] = [i \in 1..b |-> i - 1]
<1> DEFINE f == [i \in 1..a |-> i - 1]
           g == [i \in 1..(b - a) |-> a + i - 1]
           h == [i \in 1..b |-> i - 1]
<1>1. f \in Seq(Int)
  BY IsASeq
<1>2. b - a \in Nat
  OBVIOUS
<1>3. g \in Seq(Int)
  <2>1. \A i \in 1..(b - a) : a + i - 1 \in Int
    OBVIOUS
  <2> QED
    BY <1>2, <2>1, IsASeq
<1>4. Len(f) = a /\ Len(g) = b - a
  BY <1>1, <1>2, <1>3, LenProperties
<1>5. f \o g \in Seq(Int) /\ Len(f \o g) = b
  BY <1>1, <1>3, <1>4, ConcatProperties
<1>6. h \in Seq(Int) /\ Len(h) = b
  <2>1. h \in Seq(Int)
    BY IsASeq
  <2> QED
    BY <2>1, LenProperties
<1>7. ASSUME NEW i \in 1..b PROVE (f \o g)[i] = h[i]
  <2>1. CASE i <= a
    BY <2>1, <1>1, <1>3, <1>4, ConcatProperties
  <2>2. CASE i > a
    <3>1. (f \o g)[i] = g[i - a] /\ i - a \in 1..(b - a)
      <4> HIDE DEF f, g
      <4> QED
        BY <2>2, <1>1, <1>3, <1>4, ConcatProperties
    <3> QED
      BY <3>1
  <2> QED
    BY <2>1, <2>2
<1> HIDE DEF f, g, h
<1>8. f \o g = h
  BY <1>5, <1>6, <1>7, SeqEqual
<1> QED
  BY <1>8 DEF f, g, h

-----------------------------------------------------------------------------
(* Queries. *)

\* A read that was made, as opposed to NoOp.
Reads == [state : {"pending", "blocking", "done"}, dir : Directions, seqnum : Seqnums,
          tag : Tags \cup {AnyTag}, progress : 0..NumCuts, initial : BOOLEAN,
          result : Seqnums \cup {None}, at : 0..NumCuts]

\* A call has no operation, or a read of some state.
LEMMA OpsAreReads ==
    /\ Ops = Reads \cup {NoOp}
    /\ NoOp.state = "none"
    /\ \A o \in Ops : o.state # "none" => o \in Reads
<1>1. NoOp.state = "none"
  BY DEF NoOp
<1>2. Ops = Reads \cup {NoOp}
  BY DEF Ops, Reads
<1> QED
  BY <1>1, <1>2

\* Ends below the end of the log are seqnum positions.
LEMMA PositionFacts ==
    ASSUME NEW p \in 0..NumCuts
    PROVE  /\ End(p) \in Nat
           /\ End(p) <= End(NumCuts)
           /\ 0..(End(p) - 1) \subseteq Seqnums
<1>1. NumCuts \in Nat /\ NumCuts \in 0..NumCuts
  BY EndFacts
<1>2. End(p) \in Nat /\ End(NumCuts) \in Nat /\ End(p) <= End(NumCuts)
  BY <1>1, EndFacts
<1> QED
  BY <1>2 DEF Seqnums

\* Answering a read keeps its query and gives it the result.
LEMMA AnsweredFacts ==
    ASSUME NEW q \in Reads, NEW r \in Seqnums \cup {None}, NEW p \in 0..NumCuts,
           r = Search(q, End(p)), NEW final \in BOOLEAN, final \/ q.progress <= p
    PROVE  /\ Answered(q, r, p) \in Reads
           /\ AnswerInv(Answered(q, r, p), p, final)
<1> DEFINE o == Answered(q, r, p)
<1>1. /\ o \in Reads
      /\ o.state = "done" /\ o.dir = q.dir /\ o.seqnum = q.seqnum /\ o.tag = q.tag
      /\ o.progress = q.progress /\ o.result = r /\ o.at = p
  BY DEF Answered, Reads
<1> HIDE DEF o
<1>2. Search(o, End(p)) = Search(q, End(p))
  BY <1>1 DEF Search
<1>3. p <= p
  BY EndFacts
<1>4. AnswerInv(o, p, final)
  BY <1>1, <1>2, <1>3 DEF AnswerInv
<1> QED
  BY <1>1, <1>4 DEF o

\* A lookup in the index at position p, as a value.
LEMMA FindFacts ==
    ASSUME NEW q \in Reads, NEW p \in 0..NumCuts, NEW idx, idx = [i \in 1..End(p) |-> i - 1]
    PROVE  /\ Find(idx, q) = Search(q, End(p))
           /\ Find(idx, q) \in Seqnums \cup {None}
<1>1. End(p) \in Nat /\ 0..(End(p) - 1) \subseteq Seqnums
  BY PositionFacts
<1>2. Find(idx, q) = Search(q, End(p))
  BY <1>1, FindIsSearch
<1>3. q.seqnum \in Int
  BY EndFacts DEF Reads, Seqnums
<1>4. Search(q, End(p)) \in (0..(End(p) - 1)) \cup {None}
  BY <1>1, <1>3, SearchFacts
<1> QED
  BY <1>1, <1>2, <1>4

\* ProcessQuery answers from the index, or keeps a blocking read.
LEMMA ProcessQueryFacts ==
    ASSUME NEW q \in Reads, NEW p \in 0..NumCuts, NEW idx, idx = [i \in 1..End(p) |-> i - 1],
           NEW final \in BOOLEAN, final \/ q.progress <= p
    PROVE  /\ ProcessQuery(q, idx, p) \in Reads
           /\ AnswerInv(ProcessQuery(q, idx, p), p, final)
<1>1. Find(idx, q) = Search(q, End(p)) /\ Find(idx, q) \in Seqnums \cup {None}
  BY FindFacts
<1>2. CASE q.dir = "nextB" /\ Find(idx, q) = None
  <2> DEFINE o == [q EXCEPT !.state = "blocking"]
  <2>1. o \in Reads /\ o.state = "blocking" /\ o.dir = q.dir /\ o.progress = q.progress
    BY DEF Reads
  <2>2. ProcessQuery(q, idx, p) = o
    BY <1>2 DEF ProcessQuery
  <2> HIDE DEF o
  <2> QED
    BY <2>1, <2>2, <1>2 DEF AnswerInv
<1>3. CASE ~(q.dir = "nextB" /\ Find(idx, q) = None)
  <2>1. ProcessQuery(q, idx, p) = Answered(q, Find(idx, q), p)
    BY <1>3 DEF ProcessQuery
  <2> QED
    BY <2>1, <1>1, AnsweredFacts
<1> QED
  BY <1>2, <1>3

\* The context of a call remembers a position of the log.
LEMMA SessionsFacts ==
    ASSUME NEW ops \in [Clients -> Ops], session \in [Clients -> 0..NumCuts]
    PROVE  Sessions(ops) \in [Clients -> 0..NumCuts]
<1>1. \A c \in Clients : ops[c].state = "done" => ops[c].at \in 0..NumCuts
  BY OpsAreReads DEF Reads
<1> QED
  BY <1>1 DEF Sessions

\* What an answer says stays true when the index moves on or the view ends.
LEMMA AnswerStays ==
    ASSUME NEW o \in Ops, NEW p \in 0..NumCuts, NEW r \in 0..NumCuts, p <= r,
           NEW f \in BOOLEAN, NEW g \in BOOLEAN, f => g, AnswerInv(o, p, f)
    PROVE  AnswerInv(o, r, g)
<1>1. NumCuts \in Nat
  BY EndFacts
<1>2. CASE o.state = "none"
  BY <1>2 DEF AnswerInv
<1>3. CASE o \in Reads
  BY <1>1, <1>3 DEF AnswerInv, Reads
<1> QED
  BY <1>2, <1>3, OpsAreReads
-----------------------------------------------------------------------------
(* One lemma for each kind of step. *)

\* The invariant holds before the first metalog.
LEMMA InitIndInv == Init => IndInv
<1> SUFFICES ASSUME Init PROVE IndInv
  OBVIOUS
<1>1. NumCuts \in Nat /\ End(NumCuts) \in Nat /\ End(0) = 0
  BY EndFacts DEF End
<1>2. TypeOK
  <2>1. op \in [Clients -> Ops]
    BY OpsAreReads DEF Init
  <2>2. index \in Seq(Seqnums)
    BY DEF Init
  <2>3. packages \in SUBSET Packages
    BY DEF Init
  <2>4. session \in [Clients -> 0..NumCuts] /\ received \in SUBSET Seqnums
    BY <1>1 DEF Init
  <2>5. viewFinalized \in BOOLEAN
    BY DEF Init
  <2>6. /\ metalogPos \in 0..NumCuts /\ indexedPos \in 0..NumCuts
        /\ dataPos \in 0..End(NumCuts) /\ indexedSeqnum \in 0..End(NumCuts)
    BY <1>1 DEF Init
  <2> QED
    BY <2>1, <2>2, <2>3, <2>4, <2>5, <2>6 DEF TypeOK
<1>3. IndexIsLogPrefix
  BY <1>1 DEF Init, IndexIsLogPrefix
<1>4. ProgressInv
  BY <1>1 DEF Init, ProgressInv
<1>5. \A c \in Clients : AnswerInv(op[c], indexedPos, viewFinalized)
  BY OpsAreReads DEF Init, AnswerInv
<1> QED
  BY <1>2, <1>3, <1>4, <1>5 DEF IndInv

\* The steps that leave the index alone change reads one by one.
LEMMA ReadsStep ==
    ASSUME IndInv, UNCHANGED <<received, dataPos, indexedPos, indexedSeqnum, index, packages>>,
           metalogPos' \in metalogPos..NumCuts, viewFinalized' \in BOOLEAN,
           op' \in [Clients -> Ops], session' \in [Clients -> 0..NumCuts],
           \A c \in Clients : AnswerInv(op'[c], indexedPos, viewFinalized')
    PROVE  IndInv'
<1>1. TypeOK'
  BY EndFacts DEF IndInv, TypeOK
<1>2. IndexIsLogPrefix' /\ ProgressInv'
  <2>1. indexedPos \in Int /\ metalogPos \in Int /\ metalogPos' \in Int
    BY EndFacts DEF IndInv, TypeOK
  <2> QED
    BY <2>1 DEF IndInv, IndexIsLogPrefix, ProgressInv, End
<1> QED
  BY <1>1, <1>2 DEF IndInv

\* Learn: only the session changes.
LEMMA LearnStep ==
    ASSUME IndInv, NEW c \in Clients, NEW p \in 1..NumCuts, Learn(c, p)
    PROVE  IndInv'
<1>1. NumCuts \in Nat /\ metalogPos' \in metalogPos..NumCuts
  BY EndFacts DEF Learn, IndInv, TypeOK, indexVars
<1>2. session' \in [Clients -> 0..NumCuts]
  BY <1>1 DEF Learn, IndInv, TypeOK
<1> QED
  BY <1>1, <1>2, ReadsStep DEF Learn, IndInv, TypeOK, indexVars

\* A query of the right form is a read.
LEMMA QueryFacts ==
    ASSUME IndInv, NEW c \in Clients, NEW dir \in Directions, NEW s \in Seqnums,
           NEW tag \in Tags \cup {AnyTag}
    PROVE  LET q == Query(dir, s, tag, session[c])
           IN  /\ q \in Reads /\ q.state = "pending" /\ q.progress = session[c]
               /\ [q EXCEPT !.initial = FALSE] \in Reads
               /\ [q EXCEPT !.initial = FALSE].state = "pending"
<1>1. session[c] \in 0..NumCuts /\ 0 \in 0..NumCuts
  BY EndFacts DEF IndInv, TypeOK
<1> QED
  BY <1>1 DEF Query, Reads

\* MakeQuery: the query waits, or is processed on the index as it is.
LEMMA MakeQueryStep ==
    ASSUME IndInv, NEW c \in Clients, NEW dir \in Directions, NEW s \in Seqnums,
           NEW tag \in Tags \cup {AnyTag}, MakeQuery(c, dir, s, tag)
    PROVE  IndInv'
<1> DEFINE q == Query(dir, s, tag, session[c])
           o == IF q.progress <= indexedPos THEN ProcessQuery(q, index, indexedPos) ELSE q
<1>1. q \in Reads /\ q.state = "pending"
  BY QueryFacts
<1>2. /\ op' = [op EXCEPT ![c] = o]
      /\ session' = Sessions(op')
      /\ UNCHANGED <<indexVars, packages, viewFinalized>>
  BY DEF MakeQuery
<1>3. /\ indexedPos \in 0..NumCuts /\ index = [i \in 1..End(indexedPos) |-> i - 1]
      /\ viewFinalized \in BOOLEAN
  BY DEF IndInv, TypeOK, IndexIsLogPrefix
<1> HIDE DEF q
<1>4. o \in Reads /\ AnswerInv(o, indexedPos, viewFinalized)
  <2>1. CASE q.progress <= indexedPos
    BY <2>1, <1>1, <1>3, ProcessQueryFacts
  <2>2. CASE ~(q.progress <= indexedPos)
    BY <2>2, <1>1 DEF AnswerInv
  <2> QED
    BY <2>1, <2>2
<1> HIDE DEF o
<1>5. op' \in [Clients -> Ops]
  BY <1>2, <1>4, OpsAreReads DEF IndInv, TypeOK
<1>6. session' \in [Clients -> 0..NumCuts]
  BY <1>2, <1>5, SessionsFacts DEF IndInv, TypeOK
<1>7. \A d \in Clients : AnswerInv(op'[d], indexedPos, viewFinalized')
  BY <1>2, <1>4 DEF IndInv, TypeOK
<1>8. metalogPos' \in metalogPos..NumCuts
  BY <1>2, EndFacts DEF IndInv, TypeOK, indexVars
<1> QED
  BY <1>2, <1>3, <1>5, <1>6, <1>7, <1>8, ReadsStep DEF indexVars

\* MakeContinueQuery: the query is kept.
LEMMA MakeContinueQueryStep ==
    ASSUME IndInv, NEW c \in Clients, NEW dir \in Directions, NEW s \in Seqnums,
           NEW tag \in Tags \cup {AnyTag}, MakeContinueQuery(c, dir, s, tag)
    PROVE  IndInv'
<1> DEFINE o == [Query(dir, s, tag, session[c]) EXCEPT !.initial = FALSE]
<1>1. o \in Reads /\ o.state = "pending"
  BY QueryFacts
<1>2. op' = [op EXCEPT ![c] = o] /\ UNCHANGED <<indexVars, packages, session, viewFinalized>>
  BY DEF MakeContinueQuery
<1> HIDE DEF o
<1>3. op' \in [Clients -> Ops]
  BY <1>1, <1>2, OpsAreReads DEF IndInv, TypeOK
<1>4. AnswerInv(o, indexedPos, viewFinalized)
  BY <1>1 DEF AnswerInv
<1>5. \A d \in Clients : AnswerInv(op'[d], indexedPos, viewFinalized')
  BY <1>2, <1>4 DEF IndInv, TypeOK
<1>6. metalogPos' \in metalogPos..NumCuts
  BY <1>2, EndFacts DEF IndInv, TypeOK, indexVars
<1> QED
  BY <1>2, <1>3, <1>5, <1>6, ReadsStep DEF IndInv, TypeOK, indexVars

\* OnViewFinalized: every pending query is processed, whatever it waits for.
LEMMA ViewFinalizedStep ==
    ASSUME IndInv, OnViewFinalized
    PROVE  IndInv'
<1>1. /\ indexedPos \in 0..NumCuts /\ index = [i \in 1..End(indexedPos) |-> i - 1]
      /\ op \in [Clients -> Ops] /\ viewFinalized \in BOOLEAN
  BY DEF IndInv, TypeOK, IndexIsLogPrefix
<1>2. ASSUME NEW c \in Clients
      PROVE  op'[c] \in Ops /\ AnswerInv(op'[c], indexedPos, TRUE)
  <2>1. CASE op[c].state = "pending"
    <3>1. op[c] \in Reads /\ op'[c] = ProcessQuery(op[c], index, indexedPos)
      BY <2>1, <1>1, OpsAreReads DEF OnViewFinalized
    <3> QED
      BY <3>1, <1>1, ProcessQueryFacts, OpsAreReads
  <2>2. CASE op[c].state # "pending"
    <3>1. op'[c] = op[c] /\ AnswerInv(op[c], indexedPos, viewFinalized) /\ indexedPos <= indexedPos
      BY <2>2, <1>1, EndFacts DEF OnViewFinalized, IndInv
    <3>2. TRUE \in BOOLEAN /\ (viewFinalized => TRUE) /\ op[c] \in Ops
      BY <1>1
    <3>3. AnswerInv(op[c], indexedPos, TRUE)
      BY <3>1 DEF AnswerInv
    <3> QED
      BY <3>1, <3>2, <3>3
  <2> QED
    BY <2>1, <2>2
<1>3. op' \in [Clients -> Ops]
  BY <1>2 DEF OnViewFinalized
<1>4. session' \in [Clients -> 0..NumCuts]
  BY <1>3, SessionsFacts DEF OnViewFinalized, IndInv, TypeOK
<1>5. metalogPos' \in metalogPos..NumCuts
  BY EndFacts DEF OnViewFinalized, IndInv, TypeOK
<1> QED
  BY <1>2, <1>3, <1>4, <1>5, ReadsStep DEF OnViewFinalized

\* The end of AdvanceIndexProgress: what WakeUp makes of a read.
LEMMA WakeUpFacts ==
    ASSUME NEW o \in Ops, NEW p \in 0..NumCuts, NEW r \in 0..NumCuts, p <= r,
           NEW final \in BOOLEAN, AnswerInv(o, p, final), NEW late \in BOOLEAN,
           NEW idx, idx = [i \in 1..End(r) |-> i - 1]
    PROVE  /\ WakeUp(o, idx, r, late) \in Ops
           /\ AnswerInv(WakeUp(o, idx, r, late), r, final)
<1>1. AnswerInv(o, r, final)
  BY AnswerStays
<1>2. CASE o.state = "blocking"
  <2>1. o \in Reads
    BY <1>2, OpsAreReads
  <2>2. Find(idx, o) = Search(o, End(r)) /\ Find(idx, o) \in Seqnums \cup {None}
    BY <2>1, FindFacts
  <2>3. final \/ o.progress <= r
    BY <1>1, <1>2 DEF AnswerInv
  <2>4. CASE Find(idx, o) # None
    <3>1. WakeUp(o, idx, r, late) = Answered(o, Find(idx, o), r)
      BY <1>2, <2>4 DEF WakeUp
    <3> QED
      BY <3>1, <2>1, <2>2, <2>3, AnsweredFacts, OpsAreReads
  <2>5. CASE Find(idx, o) = None /\ late
    <3>1. WakeUp(o, idx, r, late) = Answered(o, Find(idx, o), r)
      BY <1>2, <2>5 DEF WakeUp
    <3> QED
      BY <3>1, <2>1, <2>2, <2>3, AnsweredFacts, OpsAreReads
  <2>6. CASE Find(idx, o) = None /\ ~late
    <3>1. WakeUp(o, idx, r, late) = o
      BY <1>2, <2>6 DEF WakeUp
    <3> QED
      BY <3>1, <1>1
  <2> QED
    BY <2>4, <2>5, <2>6
<1>3. CASE o.state = "pending" /\ o.initial /\ o.progress <= r
  <2>1. o \in Reads /\ o.state # "blocking"
    BY <1>3, OpsAreReads
  <2>2. WakeUp(o, idx, r, late) = ProcessQuery(o, idx, r)
    BY <1>3, <2>1 DEF WakeUp
  <2> QED
    BY <2>1, <2>2, <1>3, ProcessQueryFacts, OpsAreReads
<1>4. CASE o.state # "blocking" /\ ~(o.state = "pending" /\ o.initial /\ o.progress <= r)
  <2>1. WakeUp(o, idx, r, late) = o
    BY <1>4 DEF WakeUp
  <2> QED
    BY <2>1, <1>1
<1> QED
  BY <1>2, <1>3, <1>4

\* AdvanceIndexProgress after metalogs up to mpos and data recv up to d.
LEMMA AdvanceStep ==
    ASSUME IndInv, NEW mpos \in metalogPos..NumCuts, NEW recv \in SUBSET Seqnums,
           \A s \in recv : indexedSeqnum <= s, received \subseteq recv,
           NEW d \in dataPos..End(NumCuts), \A s \in dataPos..(d - 1) : s \in recv,
           AdvanceIndexProgress(mpos, recv, d), UNCHANGED viewFinalized,
           packages' \in SUBSET Packages
    PROVE  IndInv'
<1> DEFINE pos == IndexablePosition(mpos, d)
           a   == End(indexedPos)
           b   == End(pos)
<1>1. /\ NumCuts \in Nat /\ metalogPos \in 0..NumCuts /\ indexedPos \in 0..NumCuts
      /\ indexedPos <= metalogPos /\ dataPos \in Nat /\ End(NumCuts) \in Nat
      /\ indexedSeqnum = a /\ a <= dataPos /\ a \in Nat
      /\ \A s \in a..(dataPos - 1) : s \in received
      /\ op \in [Clients -> Ops] /\ viewFinalized \in BOOLEAN
      /\ session \in [Clients -> 0..NumCuts]
      /\ index = [i \in 1..a |-> i - 1]
  BY EndFacts DEF IndInv, TypeOK, ProgressInv, IndexIsLogPrefix
<1>2. mpos \in 0..NumCuts /\ indexedPos <= mpos /\ d \in Nat /\ d <= End(NumCuts) /\ dataPos <= d
  BY <1>1
<1>3. pos \in indexedPos..mpos /\ (pos = indexedPos \/ End(pos) <= d)
  BY <1>1, <1>2, IndexableFacts
<1> HIDE DEF pos
<1>4. pos \in 0..NumCuts /\ indexedPos <= pos /\ pos <= mpos
  BY <1>1, <1>2, <1>3
<1>5. b \in Nat /\ a <= b /\ b <= d /\ b <= End(NumCuts)
  <2>1. b \in Nat /\ a <= b /\ b <= End(NumCuts)
    BY <1>1, <1>4, EndFacts, PositionFacts
  <2> QED
    BY <2>1, <1>1, <1>2, <1>3
<1>6. \A s \in a..(d - 1) : s \in recv
  BY <1>1, <1>2
<1>7. {s \in recv : s < b} = a..(b - 1)
  <2>1. \A s \in recv : s \in Int /\ a <= s
    BY <1>1, EndFacts DEF Seqnums
  <2>2. \A s \in a..(b - 1) : s \in recv /\ s < b
    BY <1>1, <1>2, <1>5, <1>6
  <2> HIDE DEF a, b
  <2> QED
    BY <2>1, <2>2, <1>1, <1>5
<1> DEFINE batch == IF pos = indexedPos THEN {} ELSE {s \in recv : s < End(pos)}
<1>8. batch = a..(b - 1)
  <2>1. CASE pos = indexedPos
    BY <2>1, <1>1
  <2>2. CASE pos # indexedPos
    BY <2>2, <1>7
  <2> QED
    BY <2>1, <2>2
<1>9. /\ metalogPos' = mpos /\ dataPos' = d /\ indexedPos' = pos
      /\ indexedSeqnum' = b
      /\ index' = index \o SortedSeq(a..(b - 1))
      /\ received' = recv \ (a..(b - 1))
      /\ session' = Sessions(op')
  <2>1. /\ metalogPos' = mpos /\ dataPos' = d /\ indexedPos' = pos
        /\ indexedSeqnum' = (IF pos = indexedPos THEN indexedSeqnum ELSE End(pos))
        /\ session' = Sessions(op')
    BY DEF AdvanceIndexProgress, pos
  <2>2. index' = index \o SortedSeq(batch) /\ received' = recv \ batch
    BY <1>1 DEF AdvanceIndexProgress, pos
  <2> HIDE DEF batch
  <2> QED
    BY <2>1, <2>2, <1>1, <1>8
<1>10. PICK late \in SUBSET {c \in Clients : op[c].state = "blocking"} :
         op' = [c \in Clients |-> WakeUp(op[c], index', pos, c \in late)]
  BY DEF AdvanceIndexProgress, pos
<1>11. index' = [i \in 1..b |-> i - 1]
  <2>1. SortedSeq(a..(b - 1)) = [i \in 1..(b - a) |-> a + i - 1]
    BY <1>1, <1>5, SortedInterval
  <2>2. [i \in 1..a |-> i - 1] \o [i \in 1..(b - a) |-> a + i - 1] = [i \in 1..b |-> i - 1]
    BY <1>1, <1>5, PrefixConcat
  <2> QED
    BY <2>1, <2>2, <1>1, <1>9
<1>12. ASSUME NEW c \in Clients
       PROVE  op'[c] \in Ops /\ AnswerInv(op'[c], pos, viewFinalized)
  <2>1. op'[c] = WakeUp(op[c], index', pos, c \in late) /\ op[c] \in Ops
    BY <1>1, <1>10
  <2>2. AnswerInv(op[c], indexedPos, viewFinalized)
    BY DEF IndInv
  <2>3. (c \in late) \in BOOLEAN
    OBVIOUS
  <2> QED
    BY <2>1, <2>2, <2>3, <1>1, <1>4, <1>11, WakeUpFacts, ZenonT(60)
<1>13. op' \in [Clients -> Ops]
  BY <1>10, <1>12
<1>14. session' \in [Clients -> 0..NumCuts]
  BY <1>1, <1>9, <1>13, SessionsFacts
<1>15. index' \in Seq(Seqnums)
  BY <1>5, <1>11, <1>1, SMTT(60) DEF Seqnums
<1>16. TypeOK'
  <2>1. metalogPos' \in 0..NumCuts /\ indexedPos' \in 0..NumCuts /\ received' \in SUBSET Seqnums
    BY <1>2, <1>4, <1>9
  <2>2. dataPos' \in 0..End(NumCuts) /\ indexedSeqnum' \in 0..End(NumCuts)
    BY <1>2, <1>5, <1>9, <1>1
  <2>3. viewFinalized' \in BOOLEAN
    BY <1>1
  <2> QED
    BY <2>1, <2>2, <2>3, <1>13, <1>14, <1>15 DEF TypeOK
<1>17. IndexIsLogPrefix'
  BY <1>9, <1>11 DEF IndexIsLogPrefix, End
<1>18. ProgressInv'
  <2>1. indexedSeqnum' = End(indexedPos')
    BY <1>9
  <2>2. \A s \in b..(d - 1) : s \in recv \ (a..(b - 1))
    BY <1>1, <1>5, <1>6
  <2>3. \A s \in recv \ (a..(b - 1)) : b <= s
    BY <1>1, <1>5, EndFacts DEF Seqnums
  <2> QED
    BY <2>1, <2>2, <2>3, <1>4, <1>5, <1>9 DEF ProgressInv, End
<1> QED
  BY <1>9, <1>12, <1>16, <1>17, <1>18 DEF IndInv

\* OnRecvNewMetaLogs: the index advances with the data it has.
LEMMA MetaLogsStep ==
    ASSUME IndInv, NEW mpos \in 1..NumCuts, OnRecvNewMetaLogs(mpos)
    PROVE  IndInv'
<1>1. mpos \in metalogPos..NumCuts /\ dataPos \in dataPos..End(NumCuts)
  BY EndFacts DEF OnRecvNewMetaLogs, IndInv, TypeOK
<1>2. \A s \in dataPos..(dataPos - 1) : s \in received
  BY EndFacts DEF IndInv, TypeOK
<1> QED
  BY <1>1, <1>2, AdvanceStep DEF OnRecvNewMetaLogs, IndInv, TypeOK, ProgressInv

\* OnRecvNewIndexData: the index advances with the data of the package.
LEMMA IndexDataStep ==
    ASSUME IndInv, NEW k \in packages, OnRecvNewIndexData(k)
    PROVE  IndInv'
<1> DEFINE recv == KeepIndexData(IndexData(k.src, k.position))
           d    == DataPosition(recv)
<1>1. k \in Packages /\ received \in SUBSET Seqnums /\ dataPos \in 0..End(NumCuts)
  BY DEF IndInv, TypeOK
<1>2. IndexData(k.src, k.position) \in SUBSET Seqnums
  BY <1>1, IndexAssumption DEF Packages, IndexData
<1>3. recv \in SUBSET Seqnums /\ received \subseteq recv
  BY <1>1, <1>2 DEF KeepIndexData
<1>4. \A s \in recv : indexedSeqnum <= s
  BY <1>2, EndFacts DEF KeepIndexData, IndInv, TypeOK, ProgressInv, Seqnums
<1>5. /\ AdvanceIndexProgress(metalogPos, recv, d)
      /\ UNCHANGED viewFinalized /\ packages' \in SUBSET Packages
  BY DEF OnRecvNewIndexData, IndInv, TypeOK
<1> HIDE DEF recv
<1>6. d \in dataPos..End(NumCuts) /\ \A s \in dataPos..(d - 1) : s \in recv
  BY <1>1, <1>3, DataPositionFacts
<1> HIDE DEF d
<1>7. metalogPos \in metalogPos..NumCuts
  BY EndFacts DEF IndInv, TypeOK
<1> QED
  BY <1>3, <1>4, <1>5, <1>6, <1>7, AdvanceStep
-----------------------------------------------------------------------------
(* The theorems. *)

\* Every step keeps the invariant.
LEMMA StepIndInv == IndInv /\ [Next]_vars => IndInv'
<1> SUFFICES ASSUME IndInv, [Next]_vars PROVE IndInv'
  OBVIOUS
<1>1. ASSUME NEW c \in Clients, NEW p \in 1..NumCuts, Learn(c, p) PROVE IndInv'
  BY <1>1, LearnStep
<1>2. ASSUME NEW c \in Clients, NEW dir \in Directions, NEW s \in Seqnums,
             NEW tag \in Tags \cup {AnyTag}, MakeQuery(c, dir, s, tag)
      PROVE  IndInv'
  BY <1>2, MakeQueryStep
<1>3. ASSUME NEW c \in Clients, NEW dir \in Directions, NEW s \in Seqnums,
             NEW tag \in Tags \cup {AnyTag}, MakeContinueQuery(c, dir, s, tag)
      PROVE  IndInv'
  BY <1>3, MakeContinueQueryStep
<1>4. ASSUME NEW mpos \in 1..NumCuts, OnRecvNewMetaLogs(mpos) PROVE IndInv'
  BY <1>4, MetaLogsStep
<1>5. ASSUME NEW k \in packages, OnRecvNewIndexData(k) PROVE IndInv'
  BY <1>5, IndexDataStep
<1>6. ASSUME OnViewFinalized PROVE IndInv'
  BY <1>6, ViewFinalizedStep
<1>7. CASE UNCHANGED vars
  <2>1. metalogPos' \in metalogPos..NumCuts
    BY <1>7, EndFacts DEF vars, indexVars, IndInv, TypeOK
  <2> QED
    BY <1>7, <2>1, ReadsStep DEF vars, indexVars, IndInv, TypeOK
<1> QED
  BY <1>1, <1>2, <1>3, <1>4, <1>5, <1>6, <1>7 DEF Next

\* IndInv is an invariant of the index and its reads.
THEOREM Invariance == Spec => []IndInv
  BY InitIndInv, StepIndInv, PTL DEF Spec

\* The state of Index and of the reads of an engine has its type: positions
\* never pass the end of the view's log.
THEOREM TypeCorrect == Spec => []TypeOK
<1>1. IndInv => TypeOK
  BY DEF IndInv
<1> QED
  BY Invariance, <1>1, PTL

\* The vector PerSpaceIndex searches with lower_bound and upper_bound is
\* sorted, complete and free of duplicates, although each entry may come from
\* several storage nodes, in any order and before its metalog.
THEOREM IndexIsComplete == Spec => []IndexIsLogPrefix
<1>1. IndInv => IndexIsLogPrefix
  BY DEF IndInv
<1> QED
  BY Invariance, <1>1, PTL

\* Index::ProcessQuery and ProcessBlockingQuery: a read is answered with what a
\* search of the log up to the position in the answer gives.
THEOREM ReadsAreSearches == Spec => []ReadIsLogSearch
<1>1. IndInv => ReadIsLogSearch
  <2> SUFFICES ASSUME IndInv, NEW c \in Clients, op[c].state = "done"
               PROVE  op[c].result = Search(op[c], End(op[c].at))
    BY DEF ReadIsLogSearch, Search, LogBelow
  <2> QED
    BY DEF IndInv, AnswerInv
<1> QED
  BY Invariance, <1>1, PTL

\* Index::MakeQuery and AdvanceIndexProgress: until the view ends, a read sees
\* every entry up to the metalog position its call had seen.
THEOREM ReadYourWrites == Spec => []ReadsSeeSession
<1>1. IndInv => ReadsSeeSession
  <2> SUFFICES ASSUME IndInv, NEW c \in Clients, op[c].state = "done", ~viewFinalized,
                      NEW s \in 0..(End(op[c].progress) - 1), Matches(s, op[c].tag)
               PROVE  /\ op[c].dir # "prev" /\ s >= op[c].seqnum =>
                            op[c].result # None /\ op[c].result <= s
                      /\ op[c].dir = "prev" /\ s <= op[c].seqnum => op[c].result >= s
    BY DEF ReadsSeeSession
  <2> DEFINE o == op[c]
  <2>1. o \in Reads
    BY OpsAreReads DEF IndInv, TypeOK
  <2>2. o.result = Search(o, End(o.at)) /\ o.progress <= o.at
    BY DEF IndInv, AnswerInv
  <2> HIDE DEF o
  <2>3. o.at \in 0..NumCuts /\ o.progress \in 0..NumCuts /\ o.seqnum \in Int
    BY <2>1, EndFacts DEF Reads, Seqnums
  <2>4. End(o.at) \in Nat /\ End(o.progress) \in Nat /\ End(o.progress) <= End(o.at)
    BY <2>2, <2>3, EndFacts
  <2>5. s \in LogBelow(End(o.at), o.tag)
    BY <2>4 DEF LogBelow, o
  <2>6. /\ o.dir # "prev" /\ s >= o.seqnum =>
             Search(o, End(o.at)) # None /\ Search(o, End(o.at)) <= s
        /\ o.dir = "prev" /\ s <= o.seqnum => Search(o, End(o.at)) >= s
    BY <2>3, <2>4, <2>5, SearchFacts
  <2> QED
    BY <2>2, <2>6 DEF o
<1> QED
  BY Invariance, <1>1, PTL
=============================================================================
