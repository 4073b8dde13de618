--------------------------- MODULE EngineService ---------------------------
(***************************************************************************)
(* What an engine owes the gateway.  A call that the gateway dispatches to *)
(* an engine is taken in once and answered at most once, with FUNC_CALL_   *)
(* COMPLETE or FUNC_CALL_FAILED, and never before it was taken in or       *)
(* refused.  FuncEngine implements this module; the engines in Gateway     *)
(* behave as it says.                                                      *)
(***************************************************************************)
EXTENDS Naturals

CONSTANT Calls       \* the function calls the gateway may dispatch

VARIABLES
  dispatched,        \* calls on their way to the engine
  taken,             \* calls the engine works on
  answered           \* answered[x]: the answers the engine has sent for x

vars == <<dispatched, taken, answered>>

Init ==
  /\ dispatched \in SUBSET Calls
  /\ taken = {}
  /\ answered = [x \in Calls |-> 0]

Dispatch(x) ==
  /\ x \notin dispatched \cup taken /\ answered[x] = 0
  /\ dispatched' = dispatched \cup {x}
  /\ UNCHANGED <<taken, answered>>

Take(x) ==
  /\ x \in dispatched
  /\ dispatched' = dispatched \ {x}
  /\ taken' = taken \cup {x}
  /\ UNCHANGED answered

\* A call whose input finds no shared memory is answered when it arrives.
Refuse(x) ==
  /\ x \in dispatched
  /\ dispatched' = dispatched \ {x}
  /\ answered' = [answered EXCEPT ![x] = @ + 1]
  /\ UNCHANGED taken

Answer(x) ==
  /\ x \in taken
  /\ taken' = taken \ {x}
  /\ answered' = [answered EXCEPT ![x] = @ + 1]
  /\ UNCHANGED dispatched

Next == \E x \in Calls : Dispatch(x) \/ Take(x) \/ Refuse(x) \/ Answer(x)

Spec == Init /\ [][Next]_vars
=============================================================================
