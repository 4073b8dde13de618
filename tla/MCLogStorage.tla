---------------------------- MODULE MCLogStorage ----------------------------
(***************************************************************************)
(* Model of LogStorage for TLC: three metalogs; the node holds one entry   *)
(* of the first, none of the second and two of the third.                  *)
(***************************************************************************)
EXTENDS LogStorage

ThreeCuts == <<2, 3, 5>>

LiveSpec == Spec /\ Fairness
=============================================================================
