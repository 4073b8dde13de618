---------------------------- MODULE MCIndexTier ----------------------------
(* Two index shards with one node each and three storage nodes with overlapping *)
(* storage shards; and, for two replicas, an order of the index nodes in which  *)
(* the plan takes node 2 for a replica of node 1, whose shard it does not keep. *)
EXTENDS IndexTier

CONSTANTS n1, n2, n3, ag, none

MCIndexNodes == <<1, 2>>
MCStorageNodes == <<n1, n2, n3>>
MCAggregators == {ag}
NewEntry(p, s, t) == [pos |-> p, shard |-> s, tag |-> t]
MCLogs == {<<NewEntry(1, 0, 1), NewEntry(1, 1, 2), NewEntry(2, 0, 1)>>}

ShuffledIndexNodes == <<1, 3, 2, 4>>
OneStorageNode == <<n1>>
TwoCuts == {<<NewEntry(1, 0, 1), NewEntry(2, 0, 1)>>}
=============================================================================
