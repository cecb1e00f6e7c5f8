------------------------------- MODULE Ledger -------------------------------
(***************************************************************************)
(* The two records of what was done for the accounts: the ring of the      *)
(* credits ledger (creditsLedger, ops_ledger.go) and the task log          *)
(* (taskRing, ops_tasklog.go).  Each operation holds its record's lock     *)
(* and is one atomic change.  The time and the source of an entry, and the *)
(* text of an error, are left out.                                         *)
(***************************************************************************)
EXTENDS Integers, Sequences

CONSTANTS
  LedgerCap,   \* ledgerCap, 200
  TaskLogMax   \* the max of globalTaskLog, 200

ASSUME LedgerAssumption == LedgerCap \in Nat \ {0} /\ TaskLogMax \in Nat \ {0}

Slots == 0..LedgerCap - 1
Unused == [auth |-> "", balance |-> 0, delta |-> 0]
NewLedger == [entries |-> [s \in Slots |-> Unused], head |-> 0, size |-> 0]

\* The slot of the entry before the last i.
Back(l, i) == (l.head - 1 - i + LedgerCap) % LedgerCap

\* Wrong variant: the search for the account's last entry begins at the oldest.
DeltaOldest(l, auth, balance) ==
  LET places == {i \in 0..l.size - 1 : l.entries[Back(l, i)].auth = auth}
  IN IF places = {} THEN 0
     ELSE balance - l.entries[Back(l, CHOOSE i \in places : \A j \in places : j <= i)].balance

Delta(l, auth, balance) ==
  LET places == {i \in 0..l.size - 1 : l.entries[Back(l, i)].auth = auth}
  IN IF places = {} THEN 0
     ELSE balance - l.entries[Back(l, CHOOSE i \in places : \A j \in places : i <= j)].balance

\* creditsLedger.append
Record(l, auth, balance) ==
  [entries |-> [l.entries EXCEPT ![l.head] =
                 [auth |-> auth, balance |-> balance, delta |-> Delta(l, auth, balance)]],
   head |-> (l.head + 1) % LedgerCap,
   size |-> IF l.size < LedgerCap THEN l.size + 1 ELSE l.size]

\* creditsLedger.snapshot
Snapshot(l) ==
  LET start == IF l.size = LedgerCap THEN l.head ELSE 0
  IN [i \in 1..l.size |-> l.entries[(start + i - 1) % LedgerCap]]

\* taskRing.append keeps the tail.
Note(log, entry) ==
  LET longer == Append(log, entry)
  IN IF Len(longer) > TaskLogMax
     THEN SubSeq(longer, Len(longer) - TaskLogMax + 1, Len(longer)) ELSE longer
=============================================================================
