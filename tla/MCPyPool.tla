----------------------------- MODULE MCPyPool -----------------------------
(***************************************************************************)
(* Clients are interchangeable, for the run of PyPool.                     *)
(***************************************************************************)
EXTENDS PyPool

MCSymmetry == Permutations(Client)
=============================================================================
