--------------------------- MODULE MCFuncEngine ---------------------------
(* Functions f and g that invoke each other: f runs on Go or C++ workers,  *)
(* g, with no minimum of workers configured, on event-driven ones.         *)
EXTENDS FuncEngine

MCFuncs == {"f", "g"}
MCNests == [f |-> {"g"}, g |-> {"f"}]
MCMinWorkers == [f |-> 1, g |-> -1]
MCMaxWorkers == [f |-> 2, g |-> 1]
MCExtCalls ==
  { [cl |-> 0, id |-> 0, fn |-> "f", big |-> TRUE, async |-> FALSE],
    [cl |-> 0, id |-> 1, fn |-> "f", big |-> FALSE, async |-> FALSE] }
Go == [f |-> "go", g |-> "event"]
Cpp == [f |-> "cpp", g |-> "event"]
MCFlags ==
  { [fifo |-> FALSE, delay |-> FALSE, registered |-> TRUE, library |-> Go],
    [fifo |-> TRUE, delay |-> TRUE, registered |-> FALSE, library |-> Go],
    [fifo |-> FALSE, delay |-> FALSE, registered |-> TRUE, library |-> Cpp],
    [fifo |-> TRUE, delay |-> TRUE, registered |-> TRUE, library |-> Cpp] }
=============================================================================
