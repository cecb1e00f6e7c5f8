----------------------------- MODULE StickyMap ------------------------------
(***************************************************************************)
(* lruMap of scheduler_state.go: the map m, the list order of its keys     *)
(* from the oldest to the newest, and idx, where each key is in the list.  *)
(* Positions count from 1.  A method is an operator from the map before    *)
(* the call to the map after it.                                           *)
(***************************************************************************)
EXTENDS Naturals, Sequences, FiniteSets

CONSTANTS Keys, Accounts, NoAccount, StickyMax

ASSUME StickyAssumption == StickyMax \in Nat \ {0} /\ NoAccount \notin Accounts

EmptyMap == [m |-> [k \in {} |-> NoAccount], order |-> <<>>, idx |-> [k \in {} |-> 0]]

With(f, k, v) == [x \in DOMAIN f \cup {k} |-> IF x = k THEN v ELSE f[x]]
Less(f, k) == [x \in DOMAIN f \ {k} |-> f[x]]

\* order without its i-th key: append(order[:i], order[i+1:]...).
Cut(order, i) == [j \in 1..Len(order) - 1 |-> IF j < i THEN order[j] ELSE order[j + 1]]

\* Wrong variant: the keys that move up keep their old numbers.
ReindexNothing(idx, order, i) == idx

\* The loop that numbers order from position i on.
Reindex(idx, order, i) ==
  [k \in DOMAIN idx \cup {order[j] : j \in i..Len(order)} |->
     IF \E j \in i..Len(order) : order[j] = k
     THEN CHOOSE j \in i..Len(order) : order[j] = k
     ELSE idx[k]]

Touch(l, k) ==
  IF k \notin DOMAIN l.idx \/ l.idx[k] >= Len(l.order) THEN l
  ELSE LET i == l.idx[k]
           order == Cut(l.order, i)
       IN [l EXCEPT !.order = Append(order, k),
                    !.idx = With(Reindex(l.idx, order, i), k, Len(l.order))]

Get(l, k) == IF k \in DOMAIN l.m THEN Touch(l, k) ELSE l

EvictOldest(l) ==
  IF l.order = <<>> THEN l
  ELSE LET oldest == l.order[1]
           order == Cut(l.order, 1)
       IN [m |-> Less(l.m, oldest), order |-> order,
           idx |-> Reindex(Less(l.idx, oldest), order, 1)]

\* Wrong variant: a new key is put at the end where the oldest are taken.
SetOldest(l, k, v) ==
  IF k \in DOMAIN l.m THEN Touch([l EXCEPT !.m = With(l.m, k, v)], k)
  ELSE LET r == IF Cardinality(DOMAIN l.m) >= StickyMax THEN EvictOldest(l) ELSE l
           order == <<k>> \o r.order
       IN [m |-> With(r.m, k, v), order |-> order, idx |-> Reindex(r.idx, order, 1)]

Set(l, k, v) ==
  IF k \in DOMAIN l.m THEN Touch([l EXCEPT !.m = With(l.m, k, v)], k)
  ELSE LET r == IF Cardinality(DOMAIN l.m) >= StickyMax THEN EvictOldest(l) ELSE l
       IN [m |-> With(r.m, k, v), order |-> Append(r.order, k),
           idx |-> With(r.idx, k, Len(r.order) + 1)]

IsMap(l) ==
  /\ l \in [m: {l.m}, order: Seq(Keys), idx: {l.idx}]
  /\ DOMAIN l.m \subseteq Keys
  /\ l.m \in [DOMAIN l.m -> Accounts]

\* Map, list and index tell of the same keys, each is in the list once, at
\* the place the index says, and there are no more than StickyMax of them.
Indexed(l) ==
  /\ DOMAIN l.idx = DOMAIN l.m
  /\ \A j \in DOMAIN l.order : l.order[j] \in DOMAIN l.m /\ l.idx[l.order[j]] = j
  /\ \A k \in DOMAIN l.m : l.idx[k] \in DOMAIN l.order /\ l.order[l.idx[k]] = k
  /\ Cardinality(DOMAIN l.m) <= StickyMax

Bindings(l) == [k \in Keys |-> IF k \in DOMAIN l.m THEN l.m[k] ELSE NoAccount]
OlderThan(l) ==
  {p \in Keys \X Keys : \E i, j \in DOMAIN l.order : i < j /\ p = <<l.order[i], l.order[j]>>}
=============================================================================
