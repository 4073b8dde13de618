------------------------------- MODULE MCSlib -------------------------------
(* A small instance of slib for TLC: two clients; two objects and two       *)
(* queues whose names have the same hash.                                   *)
EXTENDS Slib

CONSTANTS c1, c2, x, y, q1, q2

OneObjectTag == [o \in Objects |-> 1]

OneQueueTag == [q \in Queues |-> 2]

B(entries, ops, pushes, pops, syncs, errors) ==
    [entries |-> entries, ops |-> ops, pushes |-> pushes, pops |-> pops, syncs |-> syncs,
     errors |-> errors]

MCBudgets ==
    {B(3, 1, 0, 0, 1, 0), B(2, 2, 0, 0, 1, 0), B(0, 0, 2, 2, 2, 1), B(1, 1, 1, 1, 1, 0)}

\* Later states of the store to start from, so that conflicts of transactions are
\* within the bounds: c1 and c2 have begun transactions and written x and y in
\* them; in the first state a call that has ended wrote x in between, so that the
\* transaction of c1 fails and is no conflict for that of c2.
Begun(c, id, ops) == c :> [NoEnv EXCEPT !.kind = "txn", !.id = id, !.ops = ops]

LaterInit ==
    /\ \/ /\ log = <<Entry("TxnBegin", <<>>, 0), Entry("NormalOp", <<x>>, 0),
                     Entry("TxnBegin", <<>>, 0)>>
          /\ seen = (c1 :> 1) @@ (c2 :> 3)
          /\ env = Begun(c1, 1, <<x, y>>) @@ Begun(c2, 3, <<y>>)
       \/ /\ log = <<Entry("TxnBegin", <<>>, 0), Entry("TxnBegin", <<>>, 0)>>
          /\ seen = (c1 :> 1) @@ (c2 :> 2)
          /\ env = Begun(c1, 1, <<x>>) @@ Begun(c2, 2, <<x, y>>)
    /\ aux = [s \in DOMAIN log |-> {}]
    /\ budget = B(2, 1, 0, 0, 1, 0)
    /\ result = <<>>
    /\ QueueInit

MCSpec == (Init \/ LaterInit) /\ [][Next]_vars

Symmetry == Permutations(Clients) \cup Permutations(Objects) \cup Permutations(Queues)

=============================================================================
