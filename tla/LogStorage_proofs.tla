-------------------------- MODULE LogStorage_proofs --------------------------
(***************************************************************************)
(* Proofs about LogStorage: for every log, every set of shards of the node *)
(* and every limit on the entries in memory, IndInv is inductive, so that  *)
(* no entry is lost sight of and no read of an own entry fails.            *)
(***************************************************************************)
EXTENDS LogStorage, FiniteSetTheorems, WellFoundedInduction, TLAPS

\* Ends of cuts are natural numbers and grow with the position.
LEMMA EndFacts ==
    /\ NumCuts \in Nat
    /\ \A p \in 0..NumCuts : End(p) \in Nat
    /\ \A p, q \in 0..NumCuts : p <= q => End(p) <= End(q)
<1>1. NumCuts \in Nat
  BY StorageAssumption DEF NumCuts
<1>2. \A p \in 0..NumCuts : End(p) \in Nat
  BY StorageAssumption, <1>1 DEF End, NumCuts
<1>3. \A p, q \in 0..NumCuts : p <= q => End(p) <= End(q)
  <2> SUFFICES ASSUME NEW p \in 0..NumCuts, NEW q \in 0..NumCuts, p <= q
               PROVE  End(p) <= End(q)
    OBVIOUS
  <2>1. CASE p = q
    BY <2>1, <1>2
  <2>2. CASE p < q
    BY <2>2, <1>2, StorageAssumption
  <2> QED BY <2>1, <2>2, <1>1
<1> QED BY <1>1, <1>2, <1>3

\* The node's entries are seqnums of the log.
LEMMA MineFacts == \A s \in Mine : s \in Nat /\ s < End(NumCuts) /\ s \in Seqnums
<1>1. End(NumCuts) \in Nat
  BY EndFacts
<1> QED BY <1>1, StorageAssumption DEF Seqnums

\* A non-empty set of seqnums has a least element: the front of live_seqnums_.
LEMMA LeastExists ==
    ASSUME NEW S \in SUBSET Nat, S # {}
    PROVE  \E s \in S : \A x \in S : s <= x
<1> DEFINE R == {ss \in Nat \X Nat : ss[1] < ss[2]}
<1>1. IsWellFoundedOn(R, Nat)
  BY NatLessThanWellFounded DEF OpToRel
<1> HIDE DEF R
<1>2. PICK s \in S : \A x \in S : ~(<<x, s>> \in R)
  BY <1>1, WFMin
<1>3. \A x \in S : ~(x < s)
  BY <1>2 DEF R
<1> QED
  BY <1>3

\* Greatest is the last of a non-empty set of entries: the back of live_seqnums_.
LEMMA GreatestIsLast ==
    ASSUME NEW S \in SUBSET Mine, S # {}
    PROVE  Greatest(S) \in S /\ \A x \in S : Greatest(S) >= x
<1> DEFINE N == End(NumCuts)
           T == {N - s : s \in S}
<1>1. N \in Nat /\ \A s \in S : s \in Nat /\ s < N
  BY EndFacts, MineFacts
<1> HIDE DEF N
<1>2. T \in SUBSET Nat /\ T # {}
  BY <1>1
<1>3. PICK t \in T : \A y \in T : t <= y
  <2> HIDE DEF T
  <2> QED BY <1>2, LeastExists
<1>4. PICK s \in S : t = N - s
  BY <1>3
<1>5. \A x \in S : s >= x
  BY <1>1, <1>3, <1>4
<1> QED
  BY <1>5 DEF Greatest

\* Shrinking drops persisted entries only, and leaves too many entries only
\* when none of them is persisted.
LEMMA ShrinkFacts ==
    ASSUME NEW L \in SUBSET Mine, NEW pos \in Nat
    PROVE  LET K == ShrinkLiveEntriesIfNeeded(L, pos)
           IN  /\ K \subseteq L
               /\ \A s \in L : s >= pos => s \in K
               /\ Cardinality(K) <= MaxLive \/ \A s \in K : s >= pos
<1> DEFINE K == ShrinkLiveEntriesIfNeeded(L, pos)
           From(s) == {x \in L : x >= s}
<1>1. K \subseteq L /\ \A s \in L : s >= pos => s \in K
  BY DEF ShrinkLiveEntriesIfNeeded
<1>2. IsFiniteSet(L)
  <2>1. IsFiniteSet(Seqnums)
    BY EndFacts, FS_Interval DEF Seqnums
  <2> QED BY <2>1, FS_Subset, StorageAssumption
<1>3. L \subseteq Nat
  BY MineFacts
<1>4. ASSUME NEW s \in K, ~(s >= pos)
      PROVE  Cardinality(K) <= MaxLive
  <2>1. PICK m \in K : \A x \in K : m <= x
    BY LeastExists, <1>1, <1>3
  <2>2. ~(m >= pos)
    <3>1. m \in Nat /\ s \in Nat /\ m <= s
      BY <2>1, <1>1, <1>3
    <3> QED BY <3>1, <1>4
  <2>3. Cardinality(From(m)) <= MaxLive
    BY <2>1, <2>2 DEF ShrinkLiveEntriesIfNeeded
  <2>4. K \subseteq From(m)
    BY <2>1, <1>1, <1>3
  <2>5. IsFiniteSet(From(m))
    BY <1>2, FS_Subset
  <2>6. /\ Cardinality(K) <= Cardinality(From(m))
        /\ Cardinality(K) \in Nat /\ Cardinality(From(m)) \in Nat
    <3> HIDE DEF K, From
    <3> QED BY <2>4, <2>5, FS_Subset, FS_CardinalityType
  <2> QED BY <2>3, <2>6, StorageAssumption
<1> QED
  BY <1>1, <1>4

-----------------------------------------------------------------------------
(* The initial states. *)

\* A new log space satisfies the invariant.
LEMMA InitIndInv == Init => IndInv
<1> SUFFICES ASSUME Init PROVE IndInv
  OBVIOUS
<1> USE DEF Init
<1>0. End(0) = 0 /\ NumCuts \in Nat /\ End(NumCuts) \in Nat /\ \A s \in Mine : s \in Nat
  BY EndFacts, MineFacts DEF End
<1>1. TypeOK
  BY <1>0 DEF TypeOK, Idle, NoRead, Requests
<1>2. ReadsFindTheirEntry /\ LookupsWillSucceed
  BY DEF ReadsFindTheirEntry, LookupsWillSucceed, NoRead
<1>3. NothingForgotten /\ LiveIsApplied
  BY <1>0 DEF NothingForgotten, LiveIsApplied, NewEntries
<1>4. DatabaseIsComplete
  BY <1>0 DEF DatabaseIsComplete, Idle
<1>5. LiveIsBounded
  BY DEF LiveIsBounded
<1>6. IndexDataSentOnce
  BY <1>0 DEF IndexDataSentOnce
<1> QED
  BY <1>1, <1>2, <1>3, <1>4, <1>5, <1>6 DEF IndInv

-----------------------------------------------------------------------------
(* The steps. *)

\* The arithmetic facts that every step needs.
LEMMA Facts ==
    ASSUME TypeOK
    PROVE  /\ NumCuts \in Nat /\ position \in Nat /\ position <= NumCuts
           /\ End(position) \in Nat /\ End(position) <= End(NumCuts)
           /\ End(NumCuts) \in Nat /\ End(0) = 0
           /\ persisted \in Nat /\ flush.end \in Nat
           /\ Mine \subseteq Nat
           /\ \A s \in Mine : s < End(NumCuts)
<1>1. position \in 0..NumCuts /\ NumCuts \in 0..NumCuts /\ NumCuts \in Nat
  BY EndFacts DEF TypeOK
<1>2. flush.end \in 0..End(NumCuts) /\ persisted \in 0..End(NumCuts)
  BY DEF TypeOK
<1> QED
  BY <1>1, <1>2, EndFacts, MineFacts DEF End

\* A step that changes the requests only.
LEMMA ReadStep ==
    ASSUME IndInv,
           UNCHANGED <<position, live, persisted, db, flush, packages, sent, finalizing>>,
           read' \in [Readers -> Requests],
           ReadsFindTheirEntry', LookupsWillSucceed'
    PROVE  IndInv'
<1>1. TypeOK'
  BY DEF IndInv, TypeOK
<1>2. NothingForgotten' /\ LiveIsApplied' /\ DatabaseIsComplete'
  BY DEF IndInv, NothingForgotten, LiveIsApplied, DatabaseIsComplete, NewEntries
<1>3. LiveIsBounded' /\ IndexDataSentOnce'
  BY DEF IndInv, LiveIsBounded, IndexDataSentOnce
<1> QED
  BY <1>1, <1>2, <1>3 DEF IndInv

\* HandleReadAtRequest: what ReadAt decides is sound, because of
\* NothingForgotten and DatabaseIsComplete.
LEMMA ReadAtStep ==
    ASSUME IndInv, NEW r \in Readers, NEW s \in Mine, HandleReadAtRequest(r, s)
    PROVE  IndInv'
<1>0. TypeOK
  BY DEF IndInv
<1> DEFINE rd == ReadAt(s)
<1>1. rd \in Requests
  BY MineFacts DEF ReadAt, Requests
<1>2. rd.status \notin {"failed", "dataLost"} /\ rd.seqnum = s
  <2>1. s < End(position) => s \in live \/ (s < persisted /\ s \in db)
    BY <1>0, Facts DEF IndInv, NothingForgotten, NewEntries
  <2>2. s \in Nat /\ End(position) \in Nat
    BY <1>0, Facts
  <2> QED BY <2>1, <2>2 DEF ReadAt
<1>3. (rd.status = "lookupDB" => s \in db) /\ (rd.state = "queued" => rd.status # "none")
      /\ rd.state # "polled"
  <2>1. rd.status = "lookupDB" => s < persisted
    BY DEF ReadAt
  <2>2. (rd.state = "queued" => rd.status # "none") /\ rd.state # "polled"
    BY DEF ReadAt
  <2> QED BY <2>1, <2>2 DEF IndInv, DatabaseIsComplete
<1> HIDE DEF rd
<1> DEFINE reads == [read EXCEPT ![r] = rd]
<1>4. reads \in [Readers -> Requests] /\ \A x \in Readers : reads[x] = IF x = r THEN rd ELSE read[x]
  BY <1>0, <1>1 DEF TypeOK
<1> HIDE DEF reads
<1>5. read' = PollReadResults(reads)
  BY DEF HandleReadAtRequest, reads, rd
<1>6. read' \in [Readers -> Requests]
      /\ \A x \in Readers :
           /\ read'[x].status = reads[x].status /\ read'[x].seqnum = reads[x].seqnum
           /\ read'[x].state \in {"queued", "polled"} => reads[x].state \in {"queued", "polled"}
  BY <1>4, <1>5 DEF PollReadResults, Requests
<1>7. ReadsFindTheirEntry'
  BY <1>2, <1>4, <1>6 DEF IndInv, ReadsFindTheirEntry
<1>8. UNCHANGED <<position, live, persisted, db, flush, packages, sent, finalizing>>
  BY DEF HandleReadAtRequest
<1>9. LookupsWillSucceed'
  BY <1>2, <1>3, <1>4, <1>6, <1>8 DEF IndInv, LookupsWillSucceed
<1> QED
  BY <1>6, <1>7, <1>8, <1>9, ReadStep

\* ProcessReadResults: a lookup in the database succeeds.
LEMMA ProcessStep ==
    ASSUME IndInv, NEW r \in Readers, ProcessReadResults(r)
    PROVE  IndInv'
<1>0. read \in [Readers -> Requests]
  BY DEF IndInv, TypeOK
<1>1. UNCHANGED <<position, live, persisted, db, flush, packages, sent, finalizing>>
  BY DEF ProcessReadResults
<1>2. PICK st \in {"ok", "dataLost"} :
        /\ read' = [read EXCEPT ![r].state = "done", ![r].status = st]
        /\ st = "dataLost" => read[r].status # "ok"
                              /\ ~(read[r].status = "lookupDB" /\ read[r].seqnum \in db)
  BY DEF ProcessReadResults
<1>3. read[r].status \in {"none", "ok", "lookupDB"}
  BY <1>0 DEF IndInv, ReadsFindTheirEntry, Requests
<1>4. read[r].status = "lookupDB" => read[r].seqnum \in db
  BY DEF IndInv, LookupsWillSucceed
<1>4a. read[r].status # "none"
  BY DEF IndInv, LookupsWillSucceed, ProcessReadResults
<1>5. read' \in [Readers -> Requests]
  BY <1>0, <1>2, ZenonT(60) DEF Requests
<1>6. st = "ok"
  BY <1>2, <1>3, <1>4, <1>4a
<1>7. \A x \in Readers : x # r => read'[x] = read[x]
  BY <1>0, <1>2
<1>8. read'[r].status = "ok"
  BY <1>0, <1>2, <1>6
<1>9. ReadsFindTheirEntry'
  BY <1>7, <1>8 DEF IndInv, ReadsFindTheirEntry
<1>10. LookupsWillSucceed'
  BY <1>1, <1>7, <1>8 DEF IndInv, LookupsWillSucceed
<1> QED
  BY <1>1, <1>5, <1>9, <1>10, ReadStep

\* Applying metalogs: entries of the new ones are in memory, older ones leave it
\* only when they are persisted.
LEMMA ApplyFacts ==
    ASSUME IndInv, NEW q \in 0..NumCuts, q >= position, ApplyMetaLogs(q),
           UNCHANGED <<persisted, db, flush>>
    PROVE  /\ position' \in 0..NumCuts
           /\ live' \in SUBSET Mine
           /\ NothingForgotten'
           /\ LiveIsApplied'
           /\ DatabaseIsComplete'
           /\ LiveIsBounded'
<1> DEFINE L == live \cup NewEntries(position, q)
<1>0. TypeOK
  BY DEF IndInv
<1>1. /\ End(q) \in Nat /\ End(position) <= End(q)
      /\ End(position) \in Nat /\ persisted \in Nat /\ Mine \subseteq Nat
  <2>1. position \in 0..NumCuts
    BY <1>0 DEF TypeOK
  <2> QED BY <1>0, <2>1, Facts, EndFacts
<1>2. position' = q /\ live' = ShrinkLiveEntriesIfNeeded(L, persisted)
  BY DEF ApplyMetaLogs
<1>3. L \in SUBSET Mine
  BY <1>0 DEF TypeOK, NewEntries
<1>3a. \A s \in L : s < End(q)
  <2>1. \A s \in live : s < End(position) /\ s \in Nat
    BY <1>0, <1>1 DEF IndInv, LiveIsApplied, TypeOK
  <2>2. \A s \in NewEntries(position, q) : s < End(q)
    BY DEF NewEntries
  <2> QED BY <1>1, <2>1, <2>2
<1>3b. \A s \in Mine : s < End(q) => s \in L \/ (s < persisted /\ s \in db)
  <2> SUFFICES ASSUME NEW s \in Mine, s < End(q)
               PROVE  s \in L \/ (s < persisted /\ s \in db)
    OBVIOUS
  <2>1. CASE s < End(position)
    BY <2>1, <1>1, <1>0, Facts DEF IndInv, NothingForgotten, NewEntries
  <2>2. CASE ~(s < End(position))
    BY <2>2, <1>1 DEF NewEntries
  <2> QED BY <2>1, <2>2
<1> HIDE DEF L
<1>4. /\ live' \subseteq L
      /\ \A s \in L : s >= persisted => s \in live'
      /\ Cardinality(live') <= MaxLive \/ \A s \in live' : s >= persisted
  BY <1>1, <1>2, <1>3, ShrinkFacts
<1>5. NothingForgotten'
  <2> SUFFICES ASSUME NEW s \in Mine, s < End(q)
               PROVE  s \in live' \/ (s < persisted /\ s \in db)
    BY <1>2 DEF NothingForgotten, NewEntries
  <2>1. CASE s < persisted
    BY <2>1 DEF IndInv, DatabaseIsComplete
  <2>2. CASE ~(s < persisted)
    BY <2>2, <1>1, <1>3b, <1>4
  <2> QED BY <2>1, <2>2
<1>6. LiveIsApplied'
  BY <1>2, <1>3a, <1>4 DEF LiveIsApplied
<1>7. DatabaseIsComplete'
  <2>1. flush.end \in Nat
    BY <1>0, Facts
  <2> QED BY <1>1, <1>2, <2>1 DEF IndInv, DatabaseIsComplete
<1>8. LiveIsBounded'
  BY <1>4 DEF LiveIsBounded
<1> QED
  BY <1>2, <1>3, <1>4, <1>5, <1>6, <1>7, <1>8

\* Requests none of which has failed or can fail, given the database D.
Sound(reads, D) ==
    /\ reads \in [Readers -> Requests]
    /\ \A r \in Readers :
         /\ reads[r].status \notin {"failed", "dataLost"}
         /\ reads[r].state \in {"queued", "polled"} => reads[r].status # "none"
         /\ reads[r].status = "lookupDB" => reads[r].seqnum \in D

\* Serving the requests that wait for the new entries keeps them sound.
LEMMA ServedFacts ==
    ASSUME IndInv, NEW end
    PROVE  Sound([r \in Readers |-> Served(read[r], end)], db)
<1>1. read \in [Readers -> Requests]
  BY DEF IndInv, TypeOK
<1>2. \A r \in Readers :
        /\ read[r].status \notin {"failed", "dataLost"}
        /\ read[r].state \in {"queued", "polled"} => read[r].status # "none"
        /\ read[r].status = "lookupDB" => read[r].seqnum \in db
  BY DEF IndInv, ReadsFindTheirEntry, LookupsWillSucceed
<1> QED
  BY <1>1, <1>2, ZenonT(60) DEF Sound, Served, Requests

\* Polling results changes neither their status nor their seqnum.
LEMMA PollFacts ==
    ASSUME NEW reads, NEW D, Sound(reads, D)
    PROVE  Sound(PollReadResults(reads), D)
BY DEF Sound, PollReadResults, Requests

\* The counts of index data: metalogs that are applied now were not before, so
\* each of them makes one package.
LEMMA PackageFacts ==
    ASSUME IndInv, NEW q \in 0..NumCuts, q >= position,
           NEW P, P = packages \cup IndexDataPackages(position, q)
    PROVE  /\ P \subseteq 1..NumCuts
           /\ \A p \in 1..NumCuts :
                /\ sent[p] \in Nat
                /\ sent[p] + (IF p \in P THEN 1 ELSE 0) =
                      IF p <= q /\ NewEntries(p - 1, p) # {} THEN 1 ELSE 0
<1>0. /\ position \in 0..NumCuts /\ NumCuts \in Nat /\ packages \subseteq 1..NumCuts
      /\ sent \in [1..NumCuts -> Nat]
  BY EndFacts DEF IndInv, TypeOK
<1>1. P \subseteq 1..NumCuts
  <2>1. \A k \in IndexDataPackages(position, q) : k \in (position + 1)..q
    BY DEF IndexDataPackages
  <2>2. IndexDataPackages(position, q) \subseteq 1..NumCuts
    BY <1>0, <2>1
  <2> QED BY <1>0, <2>2
<1>2. ASSUME NEW p \in 1..NumCuts
      PROVE  sent[p] + (IF p \in P THEN 1 ELSE 0) =
                IF p <= q /\ NewEntries(p - 1, p) # {} THEN 1 ELSE 0
  <2>1. sent[p] + (IF p \in packages THEN 1 ELSE 0) =
            IF p <= position /\ NewEntries(p - 1, p) # {} THEN 1 ELSE 0
    BY DEF IndInv, IndexDataSentOnce
  <2>2. sent[p] \in Nat
    BY <1>0
  <2>3. p \in IndexDataPackages(position, q) <=>
            p > position /\ p <= q /\ NewEntries(p - 1, p) # {}
    BY <1>0 DEF IndexDataPackages
  <2>4. CASE p <= position
    BY <1>0, <2>1, <2>3, <2>4
  <2>5. CASE p > position
    BY <1>0, <2>1, <2>2, <2>3, <2>5
  <2> QED BY <1>0, <2>4, <2>5
<1> QED
  BY <1>0, <1>1, <1>2

\* OnRecvNewMetaLogs.
LEMMA MetaLogsStep ==
    ASSUME IndInv, NEW q \in 1..NumCuts, OnRecvNewMetaLogs(q)
    PROVE  IndInv'
<1> DEFINE reads == [r \in Readers |-> Served(read[r], End(q))]
           P == packages \cup IndexDataPackages(position, q)
<1>0. /\ position \in 0..NumCuts /\ q \in 0..NumCuts /\ q >= position
      /\ NumCuts \in Nat /\ persisted \in 0..End(NumCuts) /\ db \subseteq Mine
      /\ UNCHANGED <<persisted, db, flush, finalizing>>
  BY EndFacts DEF IndInv, TypeOK, OnRecvNewMetaLogs
<1>1. /\ position' \in 0..NumCuts /\ live' \in SUBSET Mine
      /\ NothingForgotten' /\ LiveIsApplied' /\ DatabaseIsComplete' /\ LiveIsBounded'
  BY <1>0, ApplyFacts DEF OnRecvNewMetaLogs
<1>2. position' = q /\ packages' = {} /\ read' = PollReadResults(reads)
      /\ sent' = [p \in 1..NumCuts |-> IF p \in P THEN sent[p] + 1 ELSE sent[p]]
  BY DEF OnRecvNewMetaLogs, ApplyMetaLogs, PollIndexData
<1> HIDE DEF P
<1>3. /\ P \subseteq 1..NumCuts
      /\ \A p \in 1..NumCuts :
           /\ sent[p] \in Nat
           /\ sent[p] + (IF p \in P THEN 1 ELSE 0) =
                IF p <= q /\ NewEntries(p - 1, p) # {} THEN 1 ELSE 0
  BY <1>0, PackageFacts DEF P
<1>4. Sound(reads, db)
  BY ServedFacts
<1> HIDE DEF reads
<1>5. Sound(read', db)
  BY <1>2, <1>4, PollFacts
<1>6. sent' \in [1..NumCuts -> Nat]
  BY <1>2, <1>3
<1>7. TypeOK'
  BY <1>0, <1>1, <1>2, <1>5, <1>6 DEF IndInv, TypeOK, Sound
<1>8. ReadsFindTheirEntry' /\ LookupsWillSucceed'
  BY <1>0, <1>5 DEF ReadsFindTheirEntry, LookupsWillSucceed, Sound
<1>9. IndexDataSentOnce'
  <2> SUFFICES ASSUME NEW p \in 1..NumCuts
               PROVE  sent'[p] + 0 = IF p <= q /\ NewEntries(p - 1, p) # {} THEN 1 ELSE 0
    BY <1>2 DEF IndexDataSentOnce
  <2>1. sent'[p] = sent[p] + (IF p \in P THEN 1 ELSE 0) /\ sent[p] \in Nat
    BY <1>2, <1>3
  <2>2. sent'[p] \in Nat
    BY <1>6
  <2> QED BY <1>3, <2>1, <2>2
<1> QED
  BY <1>1, <1>7, <1>8, <1>9 DEF IndInv

\* Finalize applies the rest of the log; results and packages are polled later.
LEMMA FinalizeStep ==
    ASSUME IndInv, Finalize
    PROVE  IndInv'
<1> DEFINE P == packages \cup IndexDataPackages(position, NumCuts)
<1>0. /\ position \in 0..NumCuts /\ NumCuts \in 0..NumCuts /\ NumCuts >= position
      /\ NumCuts \in Nat /\ persisted \in 0..End(NumCuts) /\ db \subseteq Mine
      /\ UNCHANGED <<persisted, db, flush, sent>>
  BY EndFacts DEF IndInv, TypeOK, Finalize
<1>1. /\ position' \in 0..NumCuts /\ live' \in SUBSET Mine
      /\ NothingForgotten' /\ LiveIsApplied' /\ DatabaseIsComplete' /\ LiveIsBounded'
  BY <1>0, ApplyFacts DEF Finalize
<1>2. /\ position' = NumCuts /\ packages' = P /\ finalizing' = "locked"
      /\ read' = [r \in Readers |-> Served(read[r], End(NumCuts))]
  BY DEF Finalize, ApplyMetaLogs
<1> HIDE DEF P
<1>3. /\ P \subseteq 1..NumCuts
      /\ \A p \in 1..NumCuts :
           sent[p] + (IF p \in P THEN 1 ELSE 0) =
                IF p <= NumCuts /\ NewEntries(p - 1, p) # {} THEN 1 ELSE 0
  BY <1>0, PackageFacts, ZenonT(60) DEF P
<1>4. Sound(read', db)
  BY <1>2, ServedFacts
<1>5. TypeOK'
  BY <1>0, <1>1, <1>2, <1>3, <1>4 DEF IndInv, TypeOK, Sound
<1>6. ReadsFindTheirEntry' /\ LookupsWillSucceed'
  BY <1>0, <1>4 DEF ReadsFindTheirEntry, LookupsWillSucceed, Sound
<1>7. IndexDataSentOnce'
  BY <1>0, <1>2, <1>3 DEF IndexDataSentOnce
<1> QED
  BY <1>1, <1>5, <1>6, <1>7 DEF IndInv

\* PollFinalized.
LEMMA PollStep ==
    ASSUME IndInv, PollFinalized
    PROVE  IndInv'
<1>0. /\ UNCHANGED <<position, live, persisted, db, flush>> /\ finalizing' = "done"
      /\ packages' = {} /\ packages \subseteq 1..NumCuts /\ sent \in [1..NumCuts -> Nat]
      /\ sent' = [p \in 1..NumCuts |-> IF p \in packages THEN sent[p] + 1 ELSE sent[p]]
  BY DEF PollFinalized, PollIndexData, IndInv, TypeOK
<1>1. Sound(read', db)
  <2>1. Sound(read, db)
    BY DEF Sound, IndInv, TypeOK, ReadsFindTheirEntry, LookupsWillSucceed
  <2> QED BY <2>1, PollFacts DEF PollFinalized
<1>2. sent' \in [1..NumCuts -> Nat]
  BY <1>0
<1>3. TypeOK'
  BY <1>0, <1>1, <1>2 DEF IndInv, TypeOK, Sound
<1>4. ReadsFindTheirEntry' /\ LookupsWillSucceed'
  BY <1>0, <1>1 DEF ReadsFindTheirEntry, LookupsWillSucceed, Sound
<1>5. NothingForgotten' /\ LiveIsApplied' /\ DatabaseIsComplete' /\ LiveIsBounded'
  BY <1>0 DEF IndInv, NothingForgotten, LiveIsApplied, DatabaseIsComplete, LiveIsBounded,
              NewEntries
<1>6. IndexDataSentOnce'
  <2> SUFFICES ASSUME NEW p \in 1..NumCuts
               PROVE  sent'[p] + 0 = IF p <= position /\ NewEntries(p - 1, p) # {}
                                     THEN 1 ELSE 0
    BY <1>0 DEF IndexDataSentOnce
  <2>1. sent'[p] = sent[p] + (IF p \in packages THEN 1 ELSE 0) /\ sent[p] \in Nat
    BY <1>0
  <2>2. sent'[p] \in Nat
    BY <1>2
  <2> QED BY <2>1, <2>2 DEF IndInv, IndexDataSentOnce
<1> QED
  BY <1>3, <1>4, <1>5, <1>6 DEF IndInv

\* GrabLogEntriesForPersistence: what is to be put are all entries from the
\* persisted position to the end of the flush.
LEMMA GrabStep ==
    ASSUME IndInv, GrabLogEntriesForPersistence
    PROVE  IndInv'
<1> DEFINE todo == {s \in live : s >= persisted}
           end == Greatest(live) + 1
<1>0. /\ TypeOK /\ live \in SUBSET Mine /\ todo # {}
      /\ UNCHANGED <<position, live, persisted, db, read, packages, sent, finalizing>>
      /\ flush' = [phase |-> "put", todo |-> todo, end |-> end]
  BY DEF IndInv, TypeOK, GrabLogEntriesForPersistence
<1>1. Greatest(live) \in live /\ \A x \in live : Greatest(live) >= x
  BY <1>0, GreatestIsLast
<1>2. /\ Mine \subseteq Nat /\ persisted \in Nat /\ End(position) \in Nat
      /\ End(position) <= End(NumCuts) /\ End(NumCuts) \in Nat
  BY <1>0, Facts
<1>3. /\ end \in Nat /\ persisted <= end /\ end <= End(position)
      /\ \A s \in live : s < end
  <2>1. Greatest(live) \in Nat /\ Greatest(live) < End(position)
    BY <1>0, <1>1, <1>2 DEF IndInv, LiveIsApplied
  <2>2. Greatest(live) >= persisted
    <3>1. PICK s \in live : s >= persisted
      BY <1>0
    <3>2. s \in Nat /\ Greatest(live) >= s
      BY <1>0, <1>1, <1>2, <3>1
    <3> QED BY <1>2, <2>1, <3>1, <3>2
  <2>3. \A s \in live : s \in Nat
    BY <1>0, <1>2
  <2> QED BY <1>1, <1>2, <2>1, <2>2, <2>3
<1>4. \A s \in Mine : s < end => s \in db \/ s \in todo
  <2> SUFFICES ASSUME NEW s \in Mine, s < end PROVE s \in db \/ s \in todo
    OBVIOUS
  <2>1. s \in live \/ (s < persisted /\ s \in db)
    <3>1. s < End(position) /\ s \in Nat
      BY <1>2, <1>3
    <3> HIDE DEF end
    <3> QED BY <3>1, <1>0, Facts DEF IndInv, NothingForgotten, NewEntries
  <2>2. s < persisted => s \in db
    BY DEF IndInv, DatabaseIsComplete
  <2> QED BY <1>2, <2>1, <2>2
<1> HIDE DEF end, todo
<1>5. todo \subseteq Mine
  BY <1>0 DEF todo
<1>6. TypeOK'
  BY <1>0, <1>2, <1>3, <1>5 DEF TypeOK
<1>7. DatabaseIsComplete'
  BY <1>0, <1>3, <1>4 DEF IndInv, DatabaseIsComplete
<1>8. /\ ReadsFindTheirEntry' /\ LookupsWillSucceed' /\ NothingForgotten'
      /\ LiveIsApplied' /\ LiveIsBounded' /\ IndexDataSentOnce'
  BY <1>0 DEF IndInv, ReadsFindTheirEntry, LookupsWillSucceed, NothingForgotten,
              LiveIsApplied, LiveIsBounded, IndexDataSentOnce, NewEntries
<1> QED
  BY <1>6, <1>7, <1>8 DEF IndInv

\* PutLogEntryToDB.
LEMMA PutStep ==
    ASSUME IndInv, PutLogEntryToDB
    PROVE  IndInv'
<1>0. TypeOK
  BY DEF IndInv
<1>1. PICK s \in flush.todo :
        /\ db' = db \cup {s}
        /\ flush' = [flush EXCEPT !.todo = flush.todo \ {s}]
        /\ UNCHANGED <<position, live, persisted, read, packages, sent, finalizing>>
  BY DEF PutLogEntryToDB
<1>2. /\ flush.todo \subseteq Mine
      /\ flush' = [phase |-> flush.phase, todo |-> flush.todo \ {s}, end |-> flush.end]
  BY <1>0, <1>1 DEF TypeOK
<1>3. TypeOK'
  BY <1>0, <1>1, <1>2 DEF TypeOK
<1>4. DatabaseIsComplete'
  BY <1>1, <1>2 DEF IndInv, DatabaseIsComplete
<1>5. NothingForgotten' /\ LookupsWillSucceed'
  BY <1>1 DEF IndInv, NothingForgotten, LookupsWillSucceed, NewEntries
<1>6. ReadsFindTheirEntry' /\ LiveIsApplied' /\ LiveIsBounded' /\ IndexDataSentOnce'
  BY <1>1 DEF IndInv, ReadsFindTheirEntry, LiveIsApplied, LiveIsBounded, IndexDataSentOnce
<1> QED
  BY <1>3, <1>4, <1>5, <1>6 DEF IndInv

\* LogEntriesPersisted: the flush is complete, so everything below its end is in
\* the database when memory is shrunk.
LEMMA PersistedStep ==
    ASSUME IndInv, LogEntriesPersisted
    PROVE  IndInv'
<1>0. /\ TypeOK /\ live \in SUBSET Mine /\ flush.end \in 0..End(NumCuts)
      /\ flush.phase = "put" /\ flush.todo = {}
      /\ UNCHANGED <<position, db, read, packages, sent, finalizing>>
      /\ persisted' = flush.end /\ flush' = Idle
      /\ live' = ShrinkLiveEntriesIfNeeded(live, flush.end)
  BY DEF IndInv, TypeOK, LogEntriesPersisted
<1>1. Mine \subseteq Nat /\ flush.end \in Nat /\ End(position) \in Nat /\ End(NumCuts) \in Nat
  BY <1>0, Facts
<1>2. /\ live' \subseteq live
      /\ \A s \in live : s >= flush.end => s \in live'
      /\ Cardinality(live') <= MaxLive \/ \A s \in live' : s >= flush.end
  BY <1>0, <1>1, ShrinkFacts
<1>3. /\ \A s \in Mine : s < flush.end => s \in db
      /\ persisted <= flush.end /\ flush.end <= End(position)
  BY <1>0 DEF IndInv, DatabaseIsComplete
<1>4. TypeOK'
  <2>1. live' \subseteq Mine /\ persisted' \in 0..End(NumCuts)
    BY <1>0, <1>2
  <2>2. flush' \in [phase : {"idle", "put"}, todo : SUBSET Mine, end : 0..End(NumCuts)]
    BY <1>0, <1>1 DEF Idle
  <2> QED BY <1>0, <2>1, <2>2 DEF TypeOK
<1>5. DatabaseIsComplete'
  BY <1>0, <1>3 DEF DatabaseIsComplete, Idle
<1>6. NothingForgotten'
  <2> SUFFICES ASSUME NEW s \in Mine, s < End(position), End(0) <= s
               PROVE  s \in live' \/ (s < flush.end /\ s \in db)
    BY <1>0 DEF NothingForgotten, NewEntries
  <2>1. CASE s < flush.end
    BY <2>1, <1>3
  <2>2. CASE ~(s < flush.end)
    <3>1. ~(s < persisted)
      BY <2>2, <1>0, <1>1, <1>3, Facts
    <3>2. s \in live
      BY <3>1 DEF IndInv, NothingForgotten, NewEntries
    <3> QED BY <2>2, <3>2, <1>1, <1>2
  <2> QED BY <2>1, <2>2
<1>7. LiveIsApplied' /\ LiveIsBounded'
  BY <1>0, <1>2 DEF IndInv, LiveIsApplied, LiveIsBounded
<1>8. ReadsFindTheirEntry' /\ LookupsWillSucceed' /\ IndexDataSentOnce'
  BY <1>0 DEF IndInv, ReadsFindTheirEntry, LookupsWillSucceed, IndexDataSentOnce
<1> QED
  BY <1>4, <1>5, <1>6, <1>7, <1>8 DEF IndInv

\* Every step of the node keeps the invariant.
LEMMA StepIndInv == IndInv /\ [Next]_vars => IndInv'
<1> SUFFICES ASSUME IndInv, [Next]_vars PROVE IndInv'
  OBVIOUS
<1>1. CASE \E r \in Readers, s \in Mine : HandleReadAtRequest(r, s)
  BY <1>1, ReadAtStep
<1>2. CASE \E r \in Readers : ProcessReadResults(r)
  BY <1>2, ProcessStep
<1>3. CASE \E q \in 1..NumCuts : OnRecvNewMetaLogs(q)
  BY <1>3, MetaLogsStep
<1>4. CASE GrabLogEntriesForPersistence
  BY <1>4, GrabStep
<1>5. CASE PutLogEntryToDB
  BY <1>5, PutStep
<1>6. CASE LogEntriesPersisted
  BY <1>6, PersistedStep
<1>7. CASE Finalize
  BY <1>7, FinalizeStep
<1>8. CASE PollFinalized
  BY <1>8, PollStep
<1>9. CASE UNCHANGED vars
  <2>1. TypeOK'
    BY <1>9 DEF IndInv, TypeOK, vars
  <2>2. /\ ReadsFindTheirEntry' /\ LookupsWillSucceed' /\ NothingForgotten'
        /\ LiveIsApplied' /\ DatabaseIsComplete' /\ LiveIsBounded' /\ IndexDataSentOnce'
    BY <1>9 DEF IndInv, vars, ReadsFindTheirEntry, LookupsWillSucceed, NothingForgotten,
                LiveIsApplied, DatabaseIsComplete, LiveIsBounded, IndexDataSentOnce, NewEntries
  <2> QED BY <2>1, <2>2 DEF IndInv
<1> QED
  BY <1>1, <1>2, <1>3, <1>4, <1>5, <1>6, <1>7, <1>8, <1>9 DEF Next

-----------------------------------------------------------------------------
(* The theorems. *)

\* IndInv holds in every reachable state.
THEOREM Invariance == Spec => []IndInv
BY InitIndInv, StepIndInv, PTL DEF Spec

\* A storage node's state keeps its type.
THEOREM TypeCorrect == Spec => []TypeOK
<1>1. IndInv => TypeOK
  BY DEF IndInv
<1> QED BY <1>1, Invariance, PTL

\* For every log, every shard assignment and every slog_storage_max_live_entries,
\* no READ_AT of an own entry is answered with DATA_LOST.
THEOREM NoDataLost == Spec => []ReadsFindTheirEntry
<1>1. IndInv => ReadsFindTheirEntry
  BY DEF IndInv
<1> QED BY <1>1, Invariance, PTL

\* Flushing and shrinking never lose sight of an entry of an applied metalog.
THEOREM NoEntryForgotten == Spec => []NothingForgotten
<1>1. IndInv => NothingForgotten
  BY DEF IndInv
<1> QED BY <1>1, Invariance, PTL

\* Memory exceeds its limit only by entries that are not persisted.
THEOREM MemoryIsBounded == Spec => []LiveIsBounded
<1>1. IndInv => LiveIsBounded
  BY DEF IndInv
<1> QED BY <1>1, Invariance, PTL

\* The index data of every applied metalog leaves the node exactly once.
THEOREM IndexDataComplete == Spec => []IndexDataSentOnce
<1>1. IndInv => IndexDataSentOnce
  BY DEF IndInv
<1> QED BY <1>1, Invariance, PTL
=============================================================================
