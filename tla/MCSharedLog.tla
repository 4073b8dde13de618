----------------------------- MODULE MCSharedLog -----------------------------
(***************************************************************************)
(* Models of SharedLog for TLC.                                            *)
(***************************************************************************)
EXTENDS SharedLog, TLC

CONSTANTS e1, e2, s1, s2

\* Two engines; the first shard is replicated, the second is not.
TwoShards == (e1 :> {s1, s2}) @@ (e2 :> {s2})

LiveSpec == Init /\ [][Next]_vars /\ Fairness
=============================================================================
