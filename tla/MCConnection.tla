---- MODULE MCConnection ----
(* Connection for TLC: the bounds of its counters.                         *)
EXTENDS Connection
=============================
