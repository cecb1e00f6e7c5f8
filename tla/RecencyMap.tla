----------------------------- MODULE RecencyMap -----------------------------
(***************************************************************************)
(* What the scheduler's sticky map promises (lruMap, scheduler_state.go):  *)
(* a map of at most Cap keys that forgets the key whose last use is the    *)
(* longest ago.  There is no list and no index here, only the order in     *)
(* which keys were last used, as a relation.                               *)
(***************************************************************************)
EXTENDS Naturals, FiniteSets

CONSTANTS Keys, Values, NoValue, Cap

VARIABLES
  binds,   \* the value of each key, or NoValue
  older    \* the pairs <<k, l>> of bound keys of which k was used before l

recencyVars == <<binds, older>>

Bound == {k \in Keys : binds[k] # NoValue}

\* The relation once k is the newest of the keys in among.
Newest(k, among) ==
  {p \in older : p[1] \in among \ {k} /\ p[2] \in among \ {k}} \cup {<<l, k>> : l \in among \ {k}}

Init ==
  /\ binds = [k \in Keys |-> NoValue]
  /\ older = {}

Use(k) ==
  /\ k \in Bound
  /\ older' = Newest(k, Bound)
  /\ UNCHANGED binds

Bind(k, v) ==
  /\ k \in Bound \/ Cardinality(Bound) < Cap
  /\ binds' = [binds EXCEPT ![k] = v]
  /\ older' = Newest(k, Bound \cup {k})

\* k takes the place of the key used the longest ago.
Replace(k, v) ==
  /\ k \notin Bound
  /\ Cardinality(Bound) >= Cap
  /\ \E o \in Bound :
       /\ \A l \in Bound \ {o} : <<o, l>> \in older
       /\ binds' = [binds EXCEPT ![o] = NoValue, ![k] = v]
       /\ older' = Newest(k, (Bound \ {o}) \cup {k})

Next == \E k \in Keys : Use(k) \/ \E v \in Values : Bind(k, v) \/ Replace(k, v)

Spec == Init /\ [][Next]_recencyVars
=============================================================================
