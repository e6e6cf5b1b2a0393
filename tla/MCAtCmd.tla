------------------------------ MODULE MCAtCmd ------------------------------
(***************************************************************************)
(* A query of three registers of which the last two are refreshed, and one *)
(* console command that is also a register of the query.                   *)
(***************************************************************************)
EXTENDS AtCmd, TLC

CONSTANTS n1, n2   \* two network addresses

ThreeRegs == <<"AI", "NP", "MY">>
Keys == {"MY"}

NetworkSymmetry == Permutations({n1, n2})
============================================================================
