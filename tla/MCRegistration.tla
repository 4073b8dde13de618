--------------------------- MODULE MCRegistration ---------------------------
(* The instance of Registration that TLC checks.                             *)
EXTENDS Registration, TLC

CONSTANTS e1, e2, n1, p1, sq, none

MCEngines == {e1, e2}
MCStorageNodes == {n1}
MCPeers == {p1}
Symmetry == Permutations(MCEngines)
=============================================================================
