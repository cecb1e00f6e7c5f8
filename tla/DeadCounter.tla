---------------------------- MODULE DeadCounter ----------------------------
(***************************************************************************)
(* deadSessions (ops_disable.go): per account, how many 12153 answers came *)
(* in a row, and whether that disabled the account.  Each operation holds  *)
(* the counter's own lock and is one atomic change.                        *)
(***************************************************************************)
EXTENDS Naturals

CONSTANT DeadThreshold  \* sessionDeadThreshold, 3

ASSUME DeadThresholdAssumption == DeadThreshold \in Nat \ {0}

DeadRec == [fails : 0..DeadThreshold - 1, disabled : BOOLEAN]

NeverDead == [fails |-> 0, disabled |-> FALSE]

\* Wrong variant: the count goes on after the account is disabled.
NoteDeadOnly(d) ==
  [fails |-> d.fails + 1, disabled |-> d.disabled \/ d.fails + 1 >= DeadThreshold]

\* note: the answer that reaches the threshold drops the count and disables.
NoteDead(d) ==
  IF d.fails + 1 < DeadThreshold
  THEN [d EXCEPT !.fails = @ + 1]
  ELSE [fails |-> 0, disabled |-> TRUE]

\* clear: a success drops the count; it does not lift a disabling.
ClearDead(d) == [d EXCEPT !.fails = 0]
=============================================================================
