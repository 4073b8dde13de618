---------------------------- MODULE SharedQueue ----------------------------
(***************************************************************************)
(* slib/sync Queue: a FIFO queue kept as a log of pushes and pops.  A pop   *)
(* entry names no element: which one it took follows from a replay.  A     *)
(* client keeps three seqnums per queue, consumed, tail and nextSeqNum;    *)
(* the pushes in consumed .. tail - 1 are the elements of the queue at     *)
(* nextSeqNum.  <<consumed, tail>> after an entry is cached as the entry's *)
(* auxiliary data.  The element of a push is the push's seqnum.            *)
(* A ShardedQueue is a set of such queues: its Push and Pop choose the      *)
(* queue and do the rest here.                                             *)
(***************************************************************************)
EXTENDS SlibLog

CONSTANTS
    Queues,         \* names of queues
    QueueTagOf      \* NameHash(name): names may collide

VARIABLES
    queue,          \* queue[c][q]: the Queue object of client c
    popping,        \* popping[c]: the pop that c is in the middle of
    popped,         \* popped[s]: what the call that appended pop s returned
    swallowed       \* history: the pops that a replay passed over after a failed read

queueVars == <<queue, popping, popped, swallowed>>

NoPop == [at |-> 0, q |-> "none", blocking |-> FALSE, reads |-> FALSE]

FreshQueue == [consumed |-> 0, tail |-> 0, next |-> 0]

QueueInit ==
    /\ queue = [c \in Clients |-> [q \in Queues |-> FreshQueue]]
    /\ popping = [c \in Clients |-> NoPop]
    /\ popped = <<>>
    /\ swallowed = {}

-----------------------------------------------------------------------------
(* Replaying the log.                                                      *)

IsQueueEntry(e) == e.t \in {"push", "pop"}

\* Entries read with the queue's tag whose QueueName is q.
IsOf(s, q) ==
    /\ IsQueueEntry(log[s])
    /\ QueueTagOf[log[s].q] = QueueTagOf[q]
    /\ log[s].q = q

\* findNext: the first push of the queue in from .. to - 1; 0 if there is none.
findNext(q, from, to) ==
    LET found == {s \in DOMAIN log : s >= from /\ s < to /\ IsOf(s, q) /\ log[s].t = "push"}
    IN  IF found = {} THEN 0 ELSE Min(found)

isEmpty(st) == st.consumed >= st.tail

\* applyLog: a push moves the tail; a pop consumes the oldest element, or, when
\* the queue is empty, everything before itself.
applyLog(st, s) ==
    IF log[s].t = "push"
    THEN [st EXCEPT !.tail = s + 1, !.next = s + 1]
    ELSE LET n == findNext(log[s].q, st.consumed, st.tail)
         IN  [st EXCEPT !.consumed = IF n # 0 THEN n + 1 ELSE s, !.next = s + 1]

\* syncToBackward: back from tail (exclusive) to the last entry of the queue
\* that has auxiliary data, or to nextSeqNum; then forward, setting auxiliary
\* data after each entry.  A pop of errs is one for which findNext fails: the
\* error that applyLog returns is ignored, and the state that does not know of
\* the pop becomes the auxiliary data of its entry.
SyncQueue(q, st, tail, p, errs) ==
    LET mine == {s \in DOMAIN log : s >= st.next /\ s < tail /\ IsOf(s, q)}
        cached == {s \in mine : p[s] # NoAux}
        base == IF cached = {} THEN 0 ELSE Max(cached)
        init == IF base = 0 THEN st
                ELSE [consumed |-> p[base].consumed, tail |-> p[base].tail, next |-> base + 1]
        todo == {s \in mine : s > base}
        order == SetToSortSeq(todo, <)
        apply(states, s) ==
            Append(states, IF s \in errs THEN Last(states) ELSE applyLog(Last(states), s))
        states == FoldLeft(apply, <<init>>, order)
    IN  [states |-> states,
         w |-> [i \in DOMAIN order |->
                  <<order[i], [consumed |-> states[i + 1].consumed, tail |-> states[i + 1].tail]>>],
         mayFail |-> {order[i] : i \in {j \in DOMAIN order :
                                         log[order[j]].t = "pop" /\ ~isEmpty(states[j])}}]

\* The pops for which a replay may fail to read, within the bound budget.errors.
Errors == {e \in SUBSET {s \in DOMAIN log : log[s].t = "pop"} :
             Cardinality(swallowed \cup e) <= budget.errors}

Swallow(errs, sync) ==
    /\ errs \subseteq sync.mayFail
    /\ swallowed' = swallowed \cup errs

-----------------------------------------------------------------------------
(* Operations.                                                             *)

Free(c) == popping[c] = NoPop

QueueEntry(t, q) == [t |-> t, q |-> q]

Push(c, q) ==
    /\ Free(c)
    /\ Spend("pushes")
    /\ SharedLogAppend(c, QueueEntry("push", q))
    /\ UNCHANGED queueVars

\* NewQueue: a new function call opens the queue and synchronises it.
NewQueue(c, q) ==
    /\ Free(c)
    /\ Spend("syncs")
    /\ \E t \in Tails(c), p \in AuxReads, errs \in Errors :
        LET s == SyncQueue(q, FreshQueue, t + 1, p, errs)
        IN  /\ Swallow(errs, s)
            /\ queue' = [queue EXCEPT ![c][q] = Last(s.states)]
            /\ aux' = AuxAfter(Range(s.w))
            /\ seen' = [seen EXCEPT ![c] = t]
    /\ UNCHANGED <<log, popping, popped>>

\* The first half of Pop and PopBlocking: a queue that looks empty is
\* synchronised up to the tail; one that still is has nothing to pop (Pop) or
\* makes the call wait for a push (PopBlocking).  Otherwise appendPopLogAndSync
\* appends the pop entry.
StartPop(c, q, blocking) ==
    /\ Free(c) \/ (popping[c].blocking /\ popping[c].at = 0 /\ ~popping[c].reads
                   /\ blocking /\ popping[c].q = q)
    /\ \E t \in Tails(c), p \in AuxReads, errs \in Errors :
        LET looksEmpty == isEmpty(queue[c][q])
            s == IF looksEmpty THEN SyncQueue(q, queue[c][q], t + 1, p, errs)
                 ELSE [states |-> <<queue[c][q]>>, w |-> <<>>, mayFail |-> {}]
            st == Last(s.states)
        IN  /\ ~looksEmpty => t = seen[c]
            /\ Swallow(errs, s)
            /\ queue' = [queue EXCEPT ![c][q] = st]
            /\ \/ /\ isEmpty(st)
                  /\ aux' = AuxAfter(Range(s.w))
                  /\ seen' = [seen EXCEPT ![c] = t]
                  /\ popping' = [popping EXCEPT ![c] =
                        IF blocking THEN [at |-> 0, q |-> q, blocking |-> TRUE, reads |-> TRUE]
                        ELSE NoPop]
                  /\ Spend("syncs")
                  /\ UNCHANGED log
               \/ /\ ~isEmpty(st)
                  /\ Spend("pops")
                  /\ log' = Append(log, QueueEntry("pop", q))
                  /\ aux' = Append(AuxAfter(Range(s.w)), {})
                  /\ seen' = [seen EXCEPT ![c] = Len(log) + 1]
                  /\ popping' = [popping EXCEPT ![c] =
                        [at |-> Len(log) + 1, q |-> q, blocking |-> blocking, reads |-> FALSE]]
    /\ UNCHANGED popped

\* PopBlocking: SharedLogReadNextBlock finds a push of the queue from
\* nextSeqNum on, and the pop entry is appended.
BlockedReadReturns(c) ==
    /\ popping[c].reads
    /\ Spend("pops")
    /\ findNext(popping[c].q, queue[c][popping[c].q].next, Len(log) + 1) # 0
    /\ SharedLogAppend(c, QueueEntry("pop", popping[c].q))
    /\ popping' = [popping EXCEPT ![c].reads = FALSE, ![c].at = Len(log) + 1]
    /\ UNCHANGED <<queue, popped, swallowed>>

\* PopBlocking gives up after kBlockingPopTimeout, while it waits for a push or
\* before another attempt.
PopTimesOut(c) ==
    /\ ~Free(c)
    /\ popping[c].at = 0
    /\ popping' = [popping EXCEPT ![c] = NoPop]
    /\ UNCHANGED <<logVars, queue, popped, swallowed>>

\* Seeded fault: the replay after a pop takes the pop itself along.
UpToAndWithPop(s) == s + 1

\* Where the replay that precedes the answer to pop s ends (exclusive).
PopSyncsTo(s) == s

\* The second half: the queue is synchronised up to the pop entry and the
\* element found there is the call's; PopBlocking tries again if there is none.
FinishPop(c) ==
    /\ popping[c].at # 0
    /\ \E p \in AuxReads, errs \in Errors :
        LET pop == popping[c]
            s == SyncQueue(pop.q, queue[c][pop.q], PopSyncsTo(pop.at), p, errs)
            st == Last(s.states)
            n == findNext(pop.q, st.consumed, st.tail)
        IN  /\ Swallow(errs, s)
            /\ queue' = [queue EXCEPT ![c][pop.q] = st]
            /\ aux' = AuxAfter(Range(s.w))
            /\ popped' = (pop.at :> n) @@ popped
            /\ popping' = [popping EXCEPT ![c] =
                 IF pop.blocking /\ n = 0 THEN [pop EXCEPT !.at = 0] ELSE NoPop]
    /\ UNCHANGED <<log, seen, budget>>

\* ... or the call returns an error and the pop stays in the log: a read of the
\* way back failed and nothing was replayed; auxiliary data could not be set and
\* the replay ended there; or it was complete and the read of the element failed.
FailPop(c) ==
    /\ popping[c].at # 0
    /\ \/ UNCHANGED <<queue, aux, swallowed>>
       \/ \E p \in AuxReads, errs \in Errors :
            LET q == popping[c].q
                s == SyncQueue(q, queue[c][q], PopSyncsTo(popping[c].at), p, errs)
                n == Len(s.w)
            IN  \E k \in IF n = 0 THEN {0} ELSE 1 .. n :
                  /\ Swallow(errs, s) /\ \A e \in errs : e <= s.w[k][1]
                  /\ queue' = [queue EXCEPT ![c][q] = s.states[k + 1]]
                  /\ aux' = AuxAfter(Range(SubSeq(s.w, 1, k)))
    /\ popping' = [popping EXCEPT ![c] = NoPop]
    /\ UNCHANGED <<log, seen, budget, popped>>

QueueNext(c) ==
    \/ BlockedReadReturns(c) \/ PopTimesOut(c) \/ FinishPop(c) \/ FailPop(c)
    \/ \E q \in Queues : \/ Push(c, q) \/ NewQueue(c, q)
                         \/ StartPop(c, q, FALSE) \/ StartPop(c, q, TRUE)

-----------------------------------------------------------------------------
(* What the queue promises.                                                *)

\* The reference: the elements of a FIFO queue after the entries below n.
Elements(q, n) ==
    FoldLeft(LAMBDA els, s : IF log[s].t = "push" THEN Append(els, s)
                             ELSE IF els = <<>> THEN els ELSE Tail(els),
             <<>>, SetToSortSeq({s \in DOMAIN log : s < n /\ IsQueueEntry(log[s]) /\ log[s].q = q}, <))

\* The error of a read was swallowed below n: some replica of queue q may not
\* know of a pop.
Misread(q, n) == \E s \in swallowed : s < n /\ log[s].q = q

\* Every pop that was answered returned the element that is at the head of the
\* queue at its place in the log, and "empty" only when there is none: no
\* element is returned twice, none is skipped, whatever other clients push, pop
\* and cache in between (Pop, PopBlocking, syncToBackward, findNext).  Only after
\* an error that applyLog swallowed may a pop return an older element, that an
\* earlier pop has taken; one further back in the queue it never returns.
PopsAreFifo ==
    \A s \in DOMAIN popped :
        LET els == Elements(log[s].q, s)
            n == popped[s]
        IN  \/ n = IF els = <<>> THEN 0 ELSE Head(els)
            \/ Misread(log[s].q, s) /\ n # 0 /\ (els = <<>> \/ n < Head(els))

\* <<consumed, tail>> at a place in the log stands for the elements there; after a
\* swallowed error, for these and elements that were taken.
Describes(consumed, tail, q, n) ==
    LET held == {s \in DOMAIN log : s >= consumed /\ s < tail /\ IsOf(s, q) /\ log[s].t = "push"}
    IN  IF Misread(q, n) THEN Range(Elements(q, n)) \subseteq held
        ELSE Range(Elements(q, n)) = held

QueuesAreReplays ==
    \A c \in Clients, q \in Queues :
        Describes(queue[c][q].consumed, queue[c][q].tail, q, queue[c][q].next)

QueueCachesAgree ==
    \A s \in DOMAIN log : IsQueueEntry(log[s]) =>
        \A a \in aux[s] : Describes(a.consumed, a.tail, log[s].q, s + 1)

=============================================================================
