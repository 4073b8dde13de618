----------------------------- MODULE MCIOUring -----------------------------
(***************************************************************************)
(* Model of IOUring for TLC: a socket and a FIFO, which may get the slot   *)
(* and the number of each other; messages of one span and of several, one  *)
(* of them empty.                                                          *)
(***************************************************************************)
EXTENDS IOUring, TLC

MCVectors == {<<2>>, <<1, 0, 1, 1>>}

Budget(starts, calls, events, resets, stalls) ==
  [starts |-> starts, calls |-> calls, events |-> events, resets |-> resets, stalls |-> stalls]
MCBudgets ==
  {Budget(2, 1, 0, 0, 0),    \* one descriptor after the other
   Budget(2, 0, 1, 0, 0),
   Budget(2, 1, 0, 0, 1),    \* a peer that stops reading, beside another
   Budget(1, 2, 0, 1, 0),    \* chained calls that fail
   Budget(1, 2, 0, 0, 1),    \* ... and that block
   Budget(1, 1, 1, 1, 0),    \* a read and a send that fail
   Budget(1, 3, 0, 0, 0)}    \* long chains
=============================================================================
