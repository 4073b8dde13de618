---------------------------- MODULE MCLocalIndex ----------------------------
(* LocalIndex on three logs: one of one view with two tags that compete    *)
(* for the cache, and two of two views; in the last one an engine that     *)
(* joins the second view at position 1 still gets a cut of it.             *)
EXTENDS LocalIndex

E(p, s, t) == [pos |-> p, shard |-> s, tag |-> t]

MCLogs ==
    {0 :> <<E(1, 1, 2), E(2, 1, 1), E(3, 0, 1)>>,
     0 :> <<E(1, 1, 1), E(2, 1, 0), E(2, 2, 1), E(2, 2, 1)>> @@ 1 :> <<E(1, 1, 1), E(1, 1, 0)>>,
     0 :> <<E(1, 1, 1)>> @@ 1 :> <<E(1, 1, 1), E(2, 1, 1)>>}

Q(d, t, q) == [dir |-> d, tag |-> t, q |-> q]

MCQueries == {Q("next", 0, 1), Q("prev", 1, 2), Q("nextB", 0, 1)}
=============================================================================
