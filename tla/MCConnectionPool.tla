-------------------------- MODULE MCConnectionPool --------------------------
(***************************************************************************)
(* ConnectionPool for TLC.  Which Context is which does not matter: states *)
(* are identified up to a permutation of Contexts.                         *)
(***************************************************************************)
EXTENDS ConnectionPool, TLC

Symmetry == Permutations(Contexts)
=============================================================================
