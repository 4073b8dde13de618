----------------------------- MODULE MCGateway -----------------------------
(* An HTTP and a gRPC connection on different IO workers and one engine.    *)
EXTENDS Gateway

MCHttpConns == {"h"}
MCGrpcConns == {"g"}
MCNodes == {"n1"}
MCWorkers == {"w1", "w2"}
MCConnWorker == [h |-> "w1", g |-> "w2"]
MCBudgets ==
  {[calls |-> 1, faults |-> 3], [calls |-> 2, faults |-> 1], [calls |-> 3, faults |-> 0]}
MCNodeWorker == [n1 |-> "w1"]
=============================================================================
