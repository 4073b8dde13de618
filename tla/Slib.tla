-------------------------------- MODULE Slib --------------------------------
(***************************************************************************)
(* The state store and the queues of slib, used by the same function calls *)
(* over the same shared log.                                               *)
(***************************************************************************)
EXTENDS StateStore, SharedQueue

vars == <<logVars, storeVars, queueVars>>

Init == LogInit /\ StoreInit /\ QueueInit

Next ==
    \E c \in Clients :
        \/ StoreNext(c) /\ UNCHANGED queueVars
        \/ QueueNext(c) /\ UNCHANGED storeVars

Spec == Init /\ [][Next]_vars

\* Everything ever cached as auxiliary data of an entry - views, commit results,
\* queue positions - and every replica that a client built from such caches is
\* what a replay of the whole log gives at that place: a wrong value would spread
\* to every later reader (checkTxnCommitResult, cacheObjectView, the two
\* syncToBackward, applyLog).  The one wrong value known is that of a queue after an
\* error that applyLog swallowed: it may hold elements that were taken, and it does
\* spread, but it never misses one.
ReplicasAgreeWithLog ==
    ViewsAreReplays /\ StoreCachesAgree /\ QueuesAreReplays /\ QueueCachesAgree

=============================================================================
