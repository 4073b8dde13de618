----------------------------- MODULE MCLogIndex -----------------------------
(***************************************************************************)
(* Model of LogIndex for TLC: a cut of one entry and one of two; the       *)
(* second storage node also holds the shard of the first.                  *)
(***************************************************************************)
EXTENDS LogIndex, TLC

CONSTANTS s1, s2, t1, t2

TwoCuts   == <<1, 3>>
TagsOfTwoCuts   == (0 :> t1) @@ (1 :> t1) @@ (2 :> t2)
HoldsOfTwoCuts   == (s1 :> {0, 1}) @@ (s2 :> {0, 1, 2})

LiveSpec == Spec /\ Fairness
=============================================================================
