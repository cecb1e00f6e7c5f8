------------------------------ MODULE TailLog -------------------------------
(***************************************************************************)
(* What the ledger of credits promises (ops_ledger.go): the newest Cap     *)
(* observations in the order they were appended, each with what its        *)
(* account's balance has changed by since the one before.  There is no     *)
(* ring and no head here, only the sequence.                               *)
(***************************************************************************)
EXTENDS Integers, Sequences

CONSTANTS Auths, Balances, Cap

VARIABLE log

\* The account's observations in the log, by place.
Of(auth) == {i \in DOMAIN log : log[i].auth = auth}

Change(auth, balance) ==
  IF Of(auth) = {} THEN 0
  ELSE balance - log[CHOOSE i \in Of(auth) : \A j \in Of(auth) : j <= i].balance

Observe(auth, balance) ==
  LET longer == Append(log, [auth |-> auth, balance |-> balance,
                             delta |-> Change(auth, balance)])
  IN log' = IF Len(log) < Cap THEN longer ELSE Tail(longer)

Init == log = <<>>

Next == \E auth \in Auths, balance \in Balances : Observe(auth, balance)

Spec == Init /\ [][Next]_log
=============================================================================
