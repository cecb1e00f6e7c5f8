--------------------------- MODULE MCExecutorGates ---------------------------
(* Small instances of ExecutorGates for TLC. *)
EXTENDS ExecutorGates

\* Two accounts of one realm share its upstream.
MCExitOf == [a \in Accounts |-> CHOOSE k \in Exits : TRUE]
=============================================================================
