------------------------------ MODULE AppendLog ------------------------------
(***************************************************************************)
(* What the shared log promises to those who append: one sequence of       *)
(* entries that only grows at its end; the entries of a producer enter it  *)
(* in the order the producer issued them, at most once; an append is       *)
(* answered with the index of its entry, or is discarded and then its      *)
(* entry never enters the log.                                             *)
(***************************************************************************)
EXTENDS Integers, Sequences, FiniteSets

CONSTANTS Producers

VARIABLES
    issued,     \* issued[p]: how many appends p has issued, numbered from 0
    log,        \* the entries [shard, id], in order
    answered,   \* [seqnum, localid] of the appends answered with a seqnum
    dropped     \* localids of the appends answered with a failure

vars == <<issued, log, answered, dropped>>

Init ==
    /\ issued = [p \in Producers |-> 0]
    /\ log = <<>>
    /\ answered = {}
    /\ dropped = {}

Issue(p) ==
    /\ issued' = [issued EXCEPT ![p] = @ + 1]
    /\ UNCHANGED <<log, answered, dropped>>

InLog(l) == \E i \in DOMAIN log : log[i] = l

\* A batch of issued entries enters the log; every producer's entries are in
\* it in their order and without gaps.
Order ==
    /\ Len(log') > Len(log)
    /\ SubSeq(log', 1, Len(log)) = log
    /\ \A i \in (Len(log) + 1)..Len(log') :
         /\ log'[i] \notin dropped
         /\ log'[i].id < issued[log'[i].shard]
         /\ Cardinality({j \in 1..(i - 1) : log'[j].shard = log'[i].shard}) = log'[i].id
    /\ UNCHANGED <<issued, answered, dropped>>

\* Answers: seqnums of entries in the log, or failures of entries that are not.
Answer ==
    /\ answered \subseteq answered' /\ dropped \subseteq dropped'
    /\ \A a \in answered' \ answered :
         /\ a.seqnum + 1 \in DOMAIN log
         /\ log[a.seqnum + 1] = a.localid
    /\ \A l \in dropped' \ dropped : l.id < issued[l.shard] /\ ~InLog(l)
    /\ UNCHANGED <<issued, log>>

Next == Order \/ Answer \/ \E p \in Producers : Issue(p)

Spec == Init /\ [][Next]_vars
=============================================================================
