------------------------ MODULE MCMetaLogReplication ------------------------
(***************************************************************************)
(* Model of MetaLogReplication for TLC.                                    *)
(***************************************************************************)
EXTENDS MetaLogReplication, TLC

CONSTANTS Live   \* the sequencers assumed to keep running

Symmetry == Permutations(Backups) \cup Permutations(Nodes) \cup Permutations(Cuts)

\* No loss, and fairness only for Live: the other sequencers may stop at any
\* moment.
LiveSpec == Init /\ [][Step]_vars /\ Fairness(Live)
=============================================================================
