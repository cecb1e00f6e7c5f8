-------------------------- MODULE SchedulerProofs ---------------------------
(***************************************************************************)
(* Proofs about Scheduler, for any accounts, conversations, pickers and    *)
(* any size of the sticky map.  The first part is about the sticky map     *)
(* alone: its list and index stay in step (Numbered), and its list is the  *)
(* order of last use.  The second is the inductive invariant of the picks. *)
(***************************************************************************)
EXTENDS Scheduler, SequenceTheorems, FiniteSetTheorems, TLAPS

\* The list order has each element of D once, at the place idx says.
Numbered(D, order, idx) ==
  /\ order \in Seq(Keys)
  /\ \A j \in 1..Len(order) : order[j] \in D /\ idx[order[j]] = j
  /\ \A k \in D : idx[k] \in 1..Len(order) /\ order[idx[k]] = k

Before(order) ==
  {p \in Keys \X Keys : \E i, j \in 1..Len(order) : i < j /\ p = <<order[i], order[j]>>}

\* RecencyMap's Newest as an operator on relations.
NewestIn(older, k, among) ==
  {p \in older : p[1] \in among \ {k} /\ p[2] \in among \ {k}} \cup {<<l, k>> : l \in among \ {k}}

Sound(l) == IsMap(l) /\ Indexed(l)

\* A list without its i-th element (lruMap.touch, evictOldest).
LEMMA CutSeq ==
  ASSUME NEW o \in Seq(Keys), NEW i \in 1..Len(o)
  PROVE  /\ Cut(o, i) \in Seq(Keys)
         /\ Len(Cut(o, i)) = Len(o) - 1
         /\ \A j \in 1..Len(o) - 1 : Cut(o, i)[j] = IF j < i THEN o[j] ELSE o[j + 1]
<1> DEFINE n == Len(o) - 1
<1>1. /\ n \in Nat
      /\ \A j \in 1..Len(o) : o[j] \in Keys
  BY LenProperties, ElementOfSeq
<1>2. Cut(o, i) \in [1..n -> Keys]
  BY <1>1 DEF Cut
<1>3. Cut(o, i) \in Seq(Keys)
  BY <1>1, <1>2, SeqDef
<1>4. Len(Cut(o, i)) = n
  BY <1>1, <1>2, <1>3, LenProperties
<1>5. QED
  BY <1>3, <1>4 DEF Cut

\* The loop that numbers a list from position i on.
LEMMA ReindexValues ==
  ASSUME NEW o \in Seq(Keys), NEW i \in Nat \ {0}, NEW idx,
         \A j, k \in 1..Len(o) : o[j] = o[k] => j = k
  PROVE  /\ \A j \in i..Len(o) : Reindex(idx, o, i)[o[j]] = j
         /\ \A k \in DOMAIN idx :
              (\A j \in i..Len(o) : o[j] # k) => Reindex(idx, o, i)[k] = idx[k]
<1>1. Len(o) \in Nat
  BY LenProperties
<1>2. \A j \in i..Len(o) : (CHOOSE k \in i..Len(o) : o[k] = o[j]) = j
  <2>1. SUFFICES ASSUME NEW j \in i..Len(o)
                 PROVE  (CHOOSE k \in i..Len(o) : o[k] = o[j]) = j
    OBVIOUS
  <2>2. \A k \in i..Len(o) : o[k] = o[j] => k = j
    BY <1>1
  <2>3. QED
    BY <2>2
<1>3. QED
  BY <1>2 DEF Reindex

\* Taking an element out of a numbered list and numbering the rest again.
LEMMA NumberedCut ==
  ASSUME NEW D, NEW o, NEW idx, NEW s, Numbered(D, o, idx), NEW i \in 1..Len(o),
         \A x \in D \ {o[i]} : x \in DOMAIN s /\ s[x] = idx[x]
  PROVE  Numbered(D \ {o[i]}, Cut(o, i), Reindex(s, Cut(o, i), i))
<1> DEFINE c == Cut(o, i)
           r == Reindex(s, c, i)
           E == D \ {o[i]}
<1>1. o \in Seq(Keys) /\ Len(o) \in Nat /\ \A j, k \in 1..Len(o) : o[j] = o[k] => j = k
  BY LenProperties DEF Numbered
<1>2. /\ c \in Seq(Keys) /\ Len(c) = Len(o) - 1
      /\ \A j \in 1..Len(c) : c[j] = IF j < i THEN o[j] ELSE o[j + 1]
  <2>1. /\ c \in Seq(Keys) /\ Len(c) = Len(o) - 1
        /\ \A j \in 1..Len(o) - 1 : c[j] = IF j < i THEN o[j] ELSE o[j + 1]
    BY <1>1, CutSeq
  <2> HIDE DEF c
  <2>2. QED
    BY <2>1
<1>4. i \in Nat \ {0}
  BY <1>1
<1> HIDE DEF c
<1>3. \A j, k \in 1..Len(c) : c[j] = c[k] => j = k
  <2>1. SUFFICES ASSUME NEW j \in 1..Len(c), NEW k \in 1..Len(c), c[j] = c[k]
                 PROVE  j = k
    OBVIOUS
  <2> DEFINE a == IF j < i THEN j ELSE j + 1
             b == IF k < i THEN k ELSE k + 1
  <2>2. a \in 1..Len(o) /\ b \in 1..Len(o)
    BY <1>1, <1>2
  <2>3. c[j] = o[a] /\ c[k] = o[b]
    BY <1>2
  <2>4. a = b
    <3> HIDE DEF a, b
    <3>1. QED
      BY <1>1, <2>1, <2>2, <2>3
  <2>5. QED
    BY <1>1, <1>2, <2>4
<1>5. /\ \A j \in i..Len(c) : r[c[j]] = j
      /\ \A k \in D \ {o[i]} : (\A j \in i..Len(c) : c[j] # k) => r[k] = s[k]
  <2>1. /\ \A j \in i..Len(c) : r[c[j]] = j
        /\ \A k \in DOMAIN s : (\A j \in i..Len(c) : c[j] # k) => r[k] = s[k]
    <3>1. c \in Seq(Keys)
      BY <1>2
    <3>2. QED
      BY <3>1, <1>3, <1>4, ReindexValues
  <2>2. \A k \in D \ {o[i]} : k \in DOMAIN s
    OBVIOUS
  <2> HIDE DEF r
  <2>3. QED
    BY <2>1, <2>2, Zenon
<1> HIDE DEF r
<1>5a. \A j \in 1..Len(c) : c[j] \in E
  BY <1>1, <1>2 DEF Numbered
<1>6. \A j \in 1..Len(c) : r[c[j]] = j
  <2>1. SUFFICES ASSUME NEW j \in 1..Len(c)
                 PROVE  r[c[j]] = j
    OBVIOUS
  <2>2. CASE j >= i
    BY <2>2, <1>1, <1>2, <1>5
  <2>3. CASE j < i
    <3>1. c[j] = o[j] /\ c[j] \in E /\ idx[o[j]] = j
      BY <2>3, <1>1, <1>2, <1>5a DEF Numbered
    <3>2. \A k \in i..Len(c) : c[k] # c[j]
      <4>1. \A k \in i..Len(c) : k \in 1..Len(c) /\ k # j
        BY <2>3, <1>1, <1>2
      <4>2. QED
        BY <4>1, <1>3
    <3>3. QED
      BY <3>1, <3>2, <1>5
  <2>4. QED
    BY <2>2, <2>3, <1>1, <1>2
<1>7. \A x \in E : \E j \in 1..Len(c) : c[j] = x
  <2>1. SUFFICES ASSUME NEW x \in E
                 PROVE  \E j \in 1..Len(c) : c[j] = x
    OBVIOUS
  <2>2. idx[x] \in 1..Len(o) /\ o[idx[x]] = x /\ idx[x] # i
    BY DEF Numbered
  <2>3. CASE idx[x] < i
    BY <2>2, <2>3, <1>1, <1>2
  <2>4. CASE idx[x] > i
    <3>1. idx[x] - 1 \in 1..Len(c) /\ ~(idx[x] - 1 < i) /\ idx[x] - 1 + 1 = idx[x]
      BY <2>2, <2>4, <1>1, <1>2
    <3>2. c[idx[x] - 1] = x
      BY <3>1, <2>2, <1>2
    <3>3. QED
      BY <3>1, <3>2
  <2>5. QED
    BY <2>2, <2>3, <2>4, <1>1
<1>8. \A x \in E : r[x] \in 1..Len(c) /\ c[r[x]] = x
  BY <1>6, <1>7
<1>9. QED
  BY <1>2, <1>5a, <1>6, <1>8 DEF Numbered, c, r

\* A new element at the end of a numbered list.
LEMMA NumberedAppend ==
  ASSUME NEW D, NEW o, NEW idx, Numbered(D, o, idx), D \subseteq DOMAIN idx,
         NEW k \in Keys, k \notin D
  PROVE  Numbered(D \cup {k}, Append(o, k), With(idx, k, Len(o) + 1))
<1>1. o \in Seq(Keys) /\ Len(o) \in Nat
  BY LenProperties DEF Numbered
<1>2. /\ Append(o, k) \in Seq(Keys) /\ Len(Append(o, k)) = Len(o) + 1
      /\ \A j \in 1..Len(o) : Append(o, k)[j] = o[j]
      /\ Append(o, k)[Len(o) + 1] = k
  BY <1>1, AppendProperties
<1> DEFINE a == Append(o, k)
           w == With(idx, k, Len(o) + 1)
<1>3. /\ w[k] = Len(o) + 1
      /\ \A x \in D : w[x] = idx[x]
  BY DEF With
<1> HIDE DEF a, w
<1>4. \A j \in 1..Len(a) : a[j] \in D \cup {k} /\ w[a[j]] = j
  <2>1. \A j \in 1..Len(o) : a[j] = o[j] /\ o[j] \in D /\ idx[o[j]] = j
    BY <1>2 DEF a, Numbered
  <2>2. QED
    BY <2>1, <1>1, <1>2, <1>3 DEF a
<1>5. \A x \in D \cup {k} : w[x] \in 1..Len(a) /\ a[w[x]] = x
  <2>1. \A x \in D : idx[x] \in 1..Len(o) /\ o[idx[x]] = x
    BY DEF Numbered
  <2>2. QED
    BY <2>1, <1>1, <1>2, <1>3 DEF a
<1>6. QED
  BY <1>2, <1>4, <1>5 DEF Numbered, a, w

\* What is in a numbered list is finite.
LEMMA NumberedFinite ==
  ASSUME NEW D, NEW o, NEW idx, Numbered(D, o, idx)
  PROVE  IsFiniteSet(D) /\ (D # {} => o # <<>>)
<1>1. o \in Seq(Keys) /\ Len(o) \in Nat /\ o \in [1..Len(o) -> D] /\ DOMAIN o = 1..Len(o)
  BY LenProperties DEF Numbered
<1>2. \A x \in D : \E j \in 1..Len(o) : o[j] = x
  BY DEF Numbered
<1>3. o \in Surjection(1..Len(o), D)
  BY <1>1, <1>2 DEF Surjection
<1>4. IsFiniteSet(D)
  BY <1>1, <1>3, FS_NatSurjection DEF ExistsSurjection
<1>5. D # {} => o # <<>>
  BY <1>1, <1>2, EmptySeq
<1>6. QED
  BY <1>4, <1>5

----------------------------------------------------------------------------
\* The order of use after an element has been taken out of the list.
LEMMA BeforeCut ==
  ASSUME NEW o \in Seq(Keys), NEW i \in 1..Len(o), \A j, k \in 1..Len(o) : o[j] = o[k] => j = k
  PROVE  Before(Cut(o, i)) = {p \in Before(o) : p[1] # o[i] /\ p[2] # o[i]}
<1> DEFINE c == Cut(o, i)
<1>1. /\ Len(o) \in Nat
      /\ c \in Seq(Keys) /\ Len(c) = Len(o) - 1
      /\ \A j \in 1..Len(c) : c[j] = IF j < i THEN o[j] ELSE o[j + 1]
  BY CutSeq, LenProperties
<1> HIDE DEF c
<1>2. ASSUME NEW p \in Before(c)
      PROVE  p \in Before(o) /\ p[1] # o[i] /\ p[2] # o[i]
  <2>1. PICK j, k \in 1..Len(c) : j < k /\ p = <<c[j], c[k]>>
    BY <1>2 DEF Before
  <2>2. p \in Keys \X Keys
    BY <1>2 DEF Before
  <2> DEFINE a == IF j < i THEN j ELSE j + 1
             b == IF k < i THEN k ELSE k + 1
  <2>3. a \in 1..Len(o) /\ b \in 1..Len(o) /\ a < b /\ a # i /\ b # i
    BY <2>1, <1>1
  <2>4. c[j] = o[a] /\ c[k] = o[b]
    BY <2>1, <1>1
  <2>5. p = <<o[a], o[b]>> /\ o[a] # o[i] /\ o[b] # o[i]
    BY <2>1, <2>3, <2>4
  <2> HIDE DEF a, b
  <2>6. QED
    BY <2>2, <2>3, <2>5 DEF Before
<1>3. ASSUME NEW p \in Before(o), p[1] # o[i], p[2] # o[i]
      PROVE  p \in Before(c)
  <2>1. PICK j, k \in 1..Len(o) : j < k /\ p = <<o[j], o[k]>>
    BY <1>3 DEF Before
  <2>2. p \in Keys \X Keys /\ j # i /\ k # i
    BY <1>3, <2>1 DEF Before
  <2> DEFINE a == IF j < i THEN j ELSE j - 1
             b == IF k < i THEN k ELSE k - 1
  <2>3. a \in 1..Len(c) /\ b \in 1..Len(c) /\ a < b
    BY <2>1, <2>2, <1>1
  <2>4. /\ c[a] = o[IF a < i THEN a ELSE a + 1]
        /\ c[b] = o[IF b < i THEN b ELSE b + 1]
    BY <2>3, <1>1
  <2>5. /\ (IF a < i THEN a ELSE a + 1) = j
        /\ (IF b < i THEN b ELSE b + 1) = k
    BY <2>1, <2>2, <1>1
  <2>6. c[a] = o[j] /\ c[b] = o[k]
    BY <2>4, <2>5
  <2> HIDE DEF a, b
  <2>7. QED
    BY <2>1, <2>2, <2>3, <2>6 DEF Before
<1>4. QED
  BY <1>2, <1>3 DEF c

\* The order of use after a key has been added as the newest.
LEMMA BeforeAppend ==
  ASSUME NEW o \in Seq(Keys), NEW k \in Keys
  PROVE  Before(Append(o, k)) = Before(o) \cup {<<l, k>> : l \in {o[j] : j \in 1..Len(o)}}
<1> DEFINE a == Append(o, k)
           N == {<<l, k>> : l \in {o[j] : j \in 1..Len(o)}}
<1>1. /\ Len(o) \in Nat /\ Len(a) = Len(o) + 1
      /\ \A j \in 1..Len(o) : a[j] = o[j] /\ o[j] \in Keys
      /\ a[Len(o) + 1] = k
  BY AppendProperties, LenProperties, ElementOfSeq
<1> HIDE DEF a
<1>2. ASSUME NEW p \in Before(a)
      PROVE  p \in Before(o) \/ p \in N
  <2>1. PICK i, j \in 1..Len(a) : i < j /\ p = <<a[i], a[j]>>
    BY <1>2 DEF Before
  <2>2. p \in Keys \X Keys
    BY <1>2 DEF Before
  <2>3. CASE j \in 1..Len(o)
    <3>1. i \in 1..Len(o) /\ p = <<o[i], o[j]>>
      BY <2>1, <2>3, <1>1
    <3>2. QED
      BY <2>1, <2>2, <2>3, <3>1 DEF Before
  <2>4. CASE j = Len(o) + 1
    <3>1. i \in 1..Len(o) /\ p = <<o[i], k>>
      BY <2>1, <2>4, <1>1
    <3>2. QED
      BY <3>1
  <2>5. j \in 1..Len(o) \/ j = Len(o) + 1
    <3>1. j \in 1..Len(a)
      BY <2>1
    <3>2. Len(o) \in Nat /\ Len(a) = Len(o) + 1
      BY <1>1
    <3>3. QED
      BY <3>1, <3>2
  <2> HIDE DEF N
  <2>6. QED
    BY <2>3, <2>4, <2>5
<1>3. ASSUME NEW p \in Before(o)
      PROVE  p \in Before(a)
  <2>1. PICK i, j \in 1..Len(o) : i < j /\ p = <<o[i], o[j]>>
    BY <1>3 DEF Before
  <2>2. i \in 1..Len(a) /\ j \in 1..Len(a) /\ p = <<a[i], a[j]>>
    BY <2>1, <1>1
  <2>3. QED
    BY <1>3, <2>1, <2>2 DEF Before
<1>4. ASSUME NEW p \in N
      PROVE  p \in Before(a)
  <2>0. PICK l \in {o[j] : j \in 1..Len(o)} : p = <<l, k>>
    BY <1>4
  <2>1. PICK j \in 1..Len(o) : p = <<o[j], k>>
    BY <2>0
  <2>2. j \in 1..Len(a) /\ Len(o) + 1 \in 1..Len(a) /\ j < Len(o) + 1
    BY <2>1, <1>1
  <2>3. p = <<a[j], a[Len(o) + 1]>> /\ p \in Keys \X Keys
    BY <2>1, <1>1
  <2>4. QED
    BY <2>2, <2>3 DEF Before
<1>5. QED
  BY <1>2, <1>3, <1>4 DEF a

----------------------------------------------------------------------------
\* IsMap and Indexed by means of Numbered.
LEMMA SoundNumbered ==
  ASSUME NEW l, Sound(l)
  PROVE  /\ Numbered(DOMAIN l.m, l.order, l.idx)
         /\ DOMAIN l.idx = DOMAIN l.m /\ DOMAIN l.m \subseteq Keys
         /\ l.m \in [DOMAIN l.m -> Accounts]
         /\ l = [m |-> l.m, order |-> l.order, idx |-> l.idx]
         /\ l.order \in Seq(Keys) /\ Len(l.order) \in Nat
         /\ \A j, k \in 1..Len(l.order) : l.order[j] = l.order[k] => j = k
         /\ DOMAIN l.m = {l.order[j] : j \in 1..Len(l.order)}
         /\ OlderThan(l) = Before(l.order)
         /\ IsFiniteSet(DOMAIN l.m) /\ Cardinality(DOMAIN l.m) <= StickyMax
<1>1. l.order \in Seq(Keys) /\ DOMAIN l.order = 1..Len(l.order) /\ Len(l.order) \in Nat
  BY LenProperties DEF Sound, IsMap
<1>2. Numbered(DOMAIN l.m, l.order, l.idx)
  BY <1>1 DEF Sound, Indexed, Numbered
<1>3. \A j, k \in 1..Len(l.order) : l.order[j] = l.order[k] => j = k
  BY <1>2 DEF Numbered
<1>4. DOMAIN l.m = {l.order[j] : j \in 1..Len(l.order)}
  BY <1>2 DEF Numbered
<1>5. IsFiniteSet(DOMAIN l.m)
  BY <1>2, NumberedFinite
<1>6. OlderThan(l) = Before(l.order)
  BY <1>1 DEF OlderThan, Before
<1>7. l = [m |-> l.m, order |-> l.order, idx |-> l.idx]
  BY DEF Sound, IsMap
<1>8. QED
  BY <1>1, <1>2, <1>3, <1>4, <1>5, <1>6, <1>7 DEF Sound, IsMap, Indexed

\* A map whose list numbers its keys is in step.
LEMMA NumberedSound ==
  ASSUME NEW m, NEW order, NEW idx, NEW D \in SUBSET Keys, D = DOMAIN m, m \in [D -> Accounts],
         DOMAIN idx = D, Numbered(D, order, idx), Cardinality(D) <= StickyMax
  PROVE  Sound([m |-> m, order |-> order, idx |-> idx])
<1>1. order \in Seq(Keys) /\ DOMAIN order = 1..Len(order)
  BY LenProperties DEF Numbered
<1>2. QED
  BY <1>1 DEF Sound, IsMap, Indexed, Numbered

\* The elements of a list that has lost its i-th.
LEMMA CutElements ==
  ASSUME NEW o \in Seq(Keys), NEW i \in 1..Len(o), \A j, k \in 1..Len(o) : o[j] = o[k] => j = k
  PROVE  {Cut(o, i)[j] : j \in 1..Len(Cut(o, i))} = {o[j] : j \in 1..Len(o)} \ {o[i]}
<1> DEFINE c == Cut(o, i)
<1>1. /\ Len(o) \in Nat
      /\ Len(c) = Len(o) - 1
      /\ \A j \in 1..Len(c) : c[j] = IF j < i THEN o[j] ELSE o[j + 1]
  BY CutSeq, LenProperties
<1> HIDE DEF c
<1>2. ASSUME NEW j \in 1..Len(c)
      PROVE  \E k \in 1..Len(o) : k # i /\ c[j] = o[k]
  <2>1. CASE j < i
    BY <2>1, <1>1
  <2>2. CASE j >= i
    <3>1. j + 1 \in 1..Len(o) /\ j + 1 # i /\ c[j] = o[j + 1]
      BY <2>2, <1>1
    <3>2. QED
      BY <3>1
  <2>3. QED
    BY <2>1, <2>2, <1>1
<1>3. ASSUME NEW k \in 1..Len(o), k # i
      PROVE  \E j \in 1..Len(c) : c[j] = o[k]
  <2>1. CASE k < i
    BY <2>1, <1>1
  <2>2. CASE k > i
    <3>1. k - 1 \in 1..Len(c) /\ ~(k - 1 < i) /\ k - 1 + 1 = k
      BY <2>2, <1>1
    <3>2. c[k - 1] = o[k]
      BY <3>1, <1>1
    <3>3. QED
      BY <3>1, <3>2
  <2>3. QED
    BY <1>3, <2>1, <2>2, <1>1
<1>4. \A k \in 1..Len(o) : k # i <=> o[k] # o[i]
  OBVIOUS
<1>5. ASSUME NEW x
      PROVE  x \in {c[j] : j \in 1..Len(c)} <=> x \in {o[j] : j \in 1..Len(o)} \ {o[i]}
  <2>1. x \in {c[j] : j \in 1..Len(c)} => x \in {o[j] : j \in 1..Len(o)} \ {o[i]}
    BY <1>2, <1>4
  <2>2. x \in {o[j] : j \in 1..Len(o)} \ {o[i]} => x \in {c[j] : j \in 1..Len(c)}
    BY <1>3, <1>4
  <2>3. QED
    BY <2>1, <2>2
<1>6. QED
  BY <1>5 DEF c

\* A key that is moved to the end becomes the newest.
LEMMA BeforeMoved ==
  ASSUME NEW o \in Seq(Keys), NEW i \in 1..Len(o), \A j, k \in 1..Len(o) : o[j] = o[k] => j = k
  PROVE  Before(Append(Cut(o, i), o[i])) =
           NewestIn(Before(o), o[i], {o[j] : j \in 1..Len(o)})
<1> DEFINE D == {o[j] : j \in 1..Len(o)}
<1>1. Cut(o, i) \in Seq(Keys) /\ o[i] \in Keys
  BY CutSeq, ElementOfSeq
<1>2. Before(Append(Cut(o, i), o[i])) =
        Before(Cut(o, i)) \cup {<<l, o[i]>> : l \in {Cut(o, i)[j] : j \in 1..Len(Cut(o, i))}}
  BY <1>1, BeforeAppend
<1>3. Before(Cut(o, i)) = {p \in Before(o) : p[1] # o[i] /\ p[2] # o[i]}
  BY BeforeCut
<1>4. {Cut(o, i)[j] : j \in 1..Len(Cut(o, i))} = D \ {o[i]}
  BY CutElements
<1>5. \A p \in Before(o) : p[1] \in D /\ p[2] \in D
  BY DEF Before
<1> HIDE DEF D
<1>6. {p \in Before(o) : p[1] # o[i] /\ p[2] # o[i]} =
        {p \in Before(o) : p[1] \in D \ {o[i]} /\ p[2] \in D \ {o[i]}}
  BY <1>5
<1>7. Before(Append(Cut(o, i), o[i])) = NewestIn(Before(o), o[i], D)
  BY <1>2, <1>3, <1>4, <1>6 DEF NewestIn
<1>8. QED
  BY <1>7 DEF D

\* lruMap.touch keeps list and index in step ...
LEMMA TouchNumbered ==
  ASSUME NEW D, NEW o, NEW idx, Numbered(D, o, idx), DOMAIN idx = D, D \subseteq Keys, NEW k \in D
  PROVE  /\ Numbered(D, Append(Cut(o, idx[k]), k),
                     With(Reindex(idx, Cut(o, idx[k]), idx[k]), k, Len(o)))
         /\ DOMAIN With(Reindex(idx, Cut(o, idx[k]), idx[k]), k, Len(o)) = D
<1>1. PICK i : i = idx[k]
  OBVIOUS
<1>2. PICK c : c = Cut(o, i)
  OBVIOUS
<1>3. PICK r : r = Reindex(idx, c, i)
  OBVIOUS
<1>4. o \in Seq(Keys) /\ Len(o) \in Nat /\ i \in 1..Len(o) /\ o[i] = k /\ k \in Keys
  BY <1>1, LenProperties DEF Numbered
<1>5. Len(c) = Len(o) - 1
  BY <1>2, <1>4, CutSeq
<1>6. Numbered(D \ {k}, c, r) /\ DOMAIN r = D
  <2>1. Numbered(D \ {o[i]}, Cut(o, i), Reindex(idx, Cut(o, i), i))
        /\ DOMAIN Reindex(idx, Cut(o, i), i) = DOMAIN idx
    <3>1. \A x \in D \ {o[i]} : x \in DOMAIN idx /\ idx[x] = idx[x]
      OBVIOUS
    <3>2. Numbered(D \ {o[i]}, Cut(o, i), Reindex(idx, Cut(o, i), i))
      BY <3>1, <1>4, NumberedCut
    <3>3. \A j \in i..Len(c) : c[j] \in DOMAIN idx
      BY <3>2, <1>2, <1>4, <1>5 DEF Numbered
    <3>4. DOMAIN Reindex(idx, c, i) = DOMAIN idx
      BY <3>3 DEF Reindex
    <3>5. QED
      BY <3>2, <3>4, <1>2
  <2>2. QED
    BY <2>1, <1>2, <1>3, <1>4
<1>7. Numbered((D \ {k}) \cup {k}, Append(c, k), With(r, k, Len(c) + 1))
      /\ DOMAIN With(r, k, Len(c) + 1) = D \cup {k}
  <2>1. k \notin D \ {k} /\ D \ {k} \subseteq DOMAIN r
    BY <1>6
  <2>2. QED
    <3>1. PICK E : E = D \ {k}
      OBVIOUS
    <3>2. Numbered(E, c, r) /\ E \subseteq DOMAIN r /\ k \in Keys /\ k \notin E
      BY <3>1, <2>1, <1>4, <1>6
    <3>3. Numbered(E \cup {k}, Append(c, k), With(r, k, Len(c) + 1))
      BY <3>2, NumberedAppend
    <3>4. DOMAIN With(r, k, Len(c) + 1) = DOMAIN r \cup {k}
      BY DEF With
    <3>5. QED
      BY <3>1, <3>3, <3>4, <1>6
<1>8. (D \ {k}) \cup {k} = D /\ D \cup {k} = D /\ Len(c) + 1 = Len(o)
  BY <1>4, <1>5
<1>9. Numbered(D, Append(c, k), With(r, k, Len(o))) /\ DOMAIN With(r, k, Len(o)) = D
  BY <1>7, <1>8
<1>10. QED
  BY <1>9, <1>1, <1>2, <1>3

\* ... and makes the key the newest.
LEMMA TouchSound ==
  ASSUME NEW l, Sound(l), NEW k \in DOMAIN l.m
  PROVE  /\ Sound(Touch(l, k)) /\ Touch(l, k).m = l.m
         /\ OlderThan(Touch(l, k)) = NewestIn(OlderThan(l), k, DOMAIN l.m)
<1>1. PICK o, idx, D : o = l.order /\ idx = l.idx /\ D = DOMAIN l.m
  OBVIOUS
<1>2. l = [m |-> l.m, order |-> o, idx |-> idx]
  BY <1>1, SoundNumbered
<1>3. /\ Numbered(D, o, idx) /\ DOMAIN idx = D /\ D \subseteq Keys
      /\ l.m \in [D -> Accounts] /\ Cardinality(D) <= StickyMax
  BY <1>1, SoundNumbered
<1>4. /\ o \in Seq(Keys) /\ Len(o) \in Nat /\ D = {o[j] : j \in 1..Len(o)}
      /\ \A j, h \in 1..Len(o) : o[j] = o[h] => j = h
      /\ OlderThan(l) = Before(o)
  BY <1>1, SoundNumbered
<1>5. PICK i : i = idx[k]
  OBVIOUS
<1>6. PICK c : c = Cut(o, i)
  OBVIOUS
<1>7. i \in 1..Len(o) /\ o[i] = k /\ k \in DOMAIN idx /\ k \in Keys
  BY <1>1, <1>3, <1>5 DEF Numbered
<1>8. Before(Append(c, k)) = NewestIn(OlderThan(l), k, D)
  BY <1>4, <1>6, <1>7, BeforeMoved
<1>9. c \in Seq(Keys) /\ Len(c) = Len(o) - 1
      /\ \A j \in 1..Len(o) - 1 : c[j] = IF j < i THEN o[j] ELSE o[j + 1]
  BY <1>4, <1>6, <1>7, CutSeq
<1>10. CASE i = Len(o)
  <2>1. Touch(l, k) = l
    BY <1>1, <1>4, <1>5, <1>10 DEF Touch
  <2>2. Append(c, k) = o
    <3>1. /\ Append(c, k) \in Seq(Keys) /\ Len(Append(c, k)) = Len(o)
          /\ \A j \in 1..Len(o) - 1 : Append(c, k)[j] = c[j]
          /\ Append(c, k)[Len(o)] = k
      BY <1>4, <1>7, <1>9, AppendProperties
    <3>2. \A j \in 1..Len(o) : Append(c, k)[j] = o[j]
      BY <3>1, <1>4, <1>7, <1>9, <1>10
    <3>3. QED
      BY <3>1, <3>2, <1>4, SeqEqual
  <2>3. QED
    BY <2>1, <2>2, <1>1, <1>4, <1>8
<1>11. CASE i # Len(o)
  <2>1. PICK x : x = With(Reindex(idx, c, i), k, Len(o))
    OBVIOUS
  <2>2. Touch(l, k) = [m |-> l.m, order |-> Append(c, k), idx |-> x]
    <3>1. ~(k \notin DOMAIN l.idx \/ l.idx[k] >= Len(l.order))
      BY <1>1, <1>4, <1>5, <1>7, <1>11
    <3>2. Touch(l, k) = [l EXCEPT !.order = Append(c, k), !.idx = x]
      BY <3>1, <2>1, <1>1, <1>5, <1>6 DEF Touch
    <3>3. QED
      BY <3>2, <1>2
  <2>3. Numbered(D, Append(c, k), x) /\ DOMAIN x = D
    BY <2>1, <1>1, <1>3, <1>5, <1>6, TouchNumbered
  <2>4. Sound(Touch(l, k))
    BY <2>2, <2>3, <1>1, <1>3, NumberedSound
  <2>5. Touch(l, k).order = Append(c, k) /\ Touch(l, k).m = l.m
    BY <2>2
  <2>6. OlderThan(Touch(l, k)) = Before(Append(c, k))
    BY <2>4, <2>5, SoundNumbered
  <2>7. QED
    BY <2>4, <2>5, <2>6, <1>1, <1>8
<1>12. QED
  BY <1>10, <1>11

\* lruMap.get
LEMMA GetSound ==
  ASSUME NEW l, Sound(l), NEW k
  PROVE  /\ Sound(Get(l, k)) /\ Get(l, k).m = l.m
         /\ k \notin DOMAIN l.m => Get(l, k) = l
         /\ k \in DOMAIN l.m => OlderThan(Get(l, k)) = NewestIn(OlderThan(l), k, DOMAIN l.m)
  BY TouchSound DEF Get

\* The order of use is between keys of the list.
LEMMA OlderInside ==
  ASSUME NEW l, Sound(l)
  PROVE  \A p \in OlderThan(l) : p[1] \in DOMAIN l.m /\ p[2] \in DOMAIN l.m
<1>1. OlderThan(l) = Before(l.order) /\ Numbered(DOMAIN l.m, l.order, l.idx)
  BY SoundNumbered
<1>2. QED
  BY <1>1 DEF Before, Numbered

\* evictOldest takes out the first key of the list, the one before all others.
LEMMA EvictSound ==
  ASSUME NEW l, Sound(l), l.order # <<>>, NEW k, k = l.order[1]
  PROVE  /\ Sound(EvictOldest(l)) /\ EvictOldest(l).m = Less(l.m, k)
         /\ \A p \in OlderThan(EvictOldest(l)) : p \in OlderThan(l) /\ p[1] # k /\ p[2] # k
         /\ \A p \in OlderThan(l) : p[1] # k /\ p[2] # k => p \in OlderThan(EvictOldest(l))
         /\ k \in DOMAIN l.m
         /\ \A x \in DOMAIN l.m \ {k} : <<k, x>> \in OlderThan(l)
         /\ Cardinality(DOMAIN l.m \ {k}) = Cardinality(DOMAIN l.m) - 1
<1>1. PICK o, idx, D : o = l.order /\ idx = l.idx /\ D = DOMAIN l.m
  OBVIOUS
<1>2. /\ Numbered(D, o, idx) /\ DOMAIN idx = D /\ D \subseteq Keys
      /\ l.m \in [D -> Accounts] /\ Cardinality(D) <= StickyMax /\ IsFiniteSet(D)
  BY <1>1, SoundNumbered
<1>3. /\ o \in Seq(Keys) /\ Len(o) \in Nat
      /\ \A j, h \in 1..Len(o) : o[j] = o[h] => j = h
      /\ OlderThan(l) = Before(o)
  BY <1>1, SoundNumbered
<1>4. 1 \in 1..Len(o) /\ o[1] = k /\ k \in D
  <2>1. Len(o) # 0
    BY <1>1, <1>3, EmptySeq
  <2>2. QED
    BY <2>1, <1>1, <1>2, <1>3 DEF Numbered
<1>5. PICK s : s = Less(idx, k)
  OBVIOUS
<1>6. DOMAIN s = D \ {k} /\ \A x \in D \ {k} : s[x] = idx[x]
  BY <1>2, <1>5 DEF Less
<1>7. PICK c : c = Cut(o, 1)
  OBVIOUS
<1>8. PICK r : r = Reindex(s, c, 1)
  OBVIOUS
<1>9. Numbered(D \ {k}, c, r)
  <2>1. Numbered(D \ {o[1]}, Cut(o, 1), Reindex(s, Cut(o, 1), 1))
    BY <1>2, <1>4, <1>6, NumberedCut
  <2>2. QED
    BY <2>1, <1>4, <1>7, <1>8
<1>10. DOMAIN r = D \ {k}
  <2>1. \A j \in 1..Len(c) : c[j] \in DOMAIN s
    BY <1>6, <1>9 DEF Numbered
  <2>2. QED
    BY <2>1, <1>6, <1>8 DEF Reindex
<1>11. Cardinality(D \ {k}) = Cardinality(D) - 1 /\ Cardinality(D) \in Nat
  BY <1>2, <1>4, FS_RemoveElement, FS_CardinalityType
<1>12. EvictOldest(l) = [m |-> Less(l.m, k), order |-> c, idx |-> r]
  BY <1>1, <1>4, <1>5, <1>7, <1>8 DEF EvictOldest
<1>13. PICK n : n = Less(l.m, k)
  OBVIOUS
<1>14. DOMAIN n = D \ {k} /\ n \in [D \ {k} -> Accounts]
  BY <1>1, <1>2, <1>13 DEF Less
<1>15. Cardinality(D \ {k}) <= StickyMax
  BY <1>2, <1>11, StickyAssumption
<1>16. Sound([m |-> n, order |-> c, idx |-> r])
  <2>1. PICK E : E = D \ {k}
    OBVIOUS
  <2>2. QED
    BY <2>1, <1>2, <1>9, <1>10, <1>14, <1>15, NumberedSound
<1>17. Before(c) = {p \in OlderThan(l) : p[1] # k /\ p[2] # k}
  BY <1>3, <1>4, <1>7, BeforeCut
<1>18. OlderThan(EvictOldest(l)) = Before(c)
  <2>1. Sound(EvictOldest(l)) /\ EvictOldest(l).order = c
    BY <1>12, <1>13, <1>16
  <2>2. QED
    BY <2>1, SoundNumbered
<1>19. \A x \in D \ {k} : <<k, x>> \in Before(o)
  <2>1. SUFFICES ASSUME NEW x \in D \ {k}
                 PROVE  <<k, x>> \in Before(o)
    OBVIOUS
  <2>2. idx[x] \in 1..Len(o) /\ o[idx[x]] = x /\ idx[x] # 1
    BY <1>2, <1>4 DEF Numbered
  <2>3. 1 < idx[x] /\ <<k, x>> = <<o[1], o[idx[x]]>> /\ <<k, x>> \in Keys \X Keys
    BY <2>2, <1>2, <1>3, <1>4
  <2>4. QED
    BY <2>2, <2>3, <1>4 DEF Before
<1>20. QED
  BY <1>1, <1>3, <1>4, <1>11, <1>12, <1>13, <1>16, <1>17, <1>18, <1>19

\* set, for a new key and with room for it, makes it the newest.
LEMMA AddSound ==
  ASSUME NEW l, Sound(l), NEW k \in Keys, k \notin DOMAIN l.m, NEW v \in Accounts,
         Cardinality(DOMAIN l.m) < StickyMax, NEW n,
         n = [m |-> With(l.m, k, v), order |-> Append(l.order, k),
              idx |-> With(l.idx, k, Len(l.order) + 1)]
  PROVE  Sound(n) /\ OlderThan(n) = NewestIn(OlderThan(l), k, DOMAIN l.m)
<1>1. PICK o, idx, D : o = l.order /\ idx = l.idx /\ D = DOMAIN l.m
  OBVIOUS
<1>2. /\ Numbered(D, o, idx) /\ DOMAIN idx = D /\ D \subseteq Keys
      /\ l.m \in [D -> Accounts] /\ Cardinality(D) < StickyMax /\ IsFiniteSet(D)
  BY <1>1, SoundNumbered
<1>3. /\ o \in Seq(Keys) /\ Len(o) \in Nat
      /\ D = {o[j] : j \in 1..Len(o)}
      /\ OlderThan(l) = Before(o)
  BY <1>1, SoundNumbered
<1>4. PICK w, x : w = With(l.m, k, v) /\ x = With(idx, k, Len(o) + 1)
  OBVIOUS
<1>5. Numbered(D \cup {k}, Append(o, k), x)
  BY <1>1, <1>2, <1>4, NumberedAppend
<1>6. DOMAIN x = D \cup {k} /\ DOMAIN w = D \cup {k} /\ w \in [D \cup {k} -> Accounts]
  BY <1>1, <1>2, <1>4 DEF With
<1>7. Cardinality(D \cup {k}) <= StickyMax
  <2>1. Cardinality(D \cup {k}) = Cardinality(D) + 1 /\ Cardinality(D) \in Nat
    BY <1>1, <1>2, FS_AddElement, FS_CardinalityType
  <2>2. QED
    BY <2>1, <1>2, StickyAssumption
<1>8. n = [m |-> w, order |-> Append(o, k), idx |-> x]
  BY <1>1, <1>4
<1>9. Sound(n)
  <2>1. PICK E : E = D \cup {k}
    OBVIOUS
  <2>2. QED
    <3>1. PICK a : a = Append(o, k)
      OBVIOUS
    <3>2. /\ E \in SUBSET Keys /\ E = DOMAIN w /\ w \in [E -> Accounts] /\ DOMAIN x = E
          /\ Numbered(E, a, x) /\ Cardinality(E) <= StickyMax
      BY <2>1, <3>1, <1>2, <1>5, <1>6, <1>7
    <3>3. Sound([m |-> w, order |-> a, idx |-> x])
      BY <3>2, NumberedSound
    <3>4. QED
      BY <3>1, <3>3, <1>8
<1>10. OlderThan(n) = Before(Append(o, k))
  <2>1. n.order = Append(o, k)
    BY <1>8
  <2>2. OlderThan(n) = Before(n.order)
    BY <1>9, SoundNumbered
  <2>3. QED
    BY <2>1, <2>2
<1>11. Before(Append(o, k)) = Before(o) \cup {<<h, k>> : h \in D}
  BY <1>3, BeforeAppend
<1>12. \A p \in OlderThan(l) : p[1] \in D /\ p[2] \in D
  BY <1>1, OlderInside
<1>13. D \ {k} = D
  BY <1>1
<1>14. NewestIn(OlderThan(l), k, D) = Before(o) \cup {<<h, k>> : h \in D}
  BY <1>3, <1>12, <1>13 DEF NewestIn
<1>15. QED
  BY <1>1, <1>9, <1>10, <1>11, <1>14

\* lruMap.set, when its key is in the map or there is room for it ...
LEMMA SetKeeps ==
  ASSUME NEW l, Sound(l), NEW k \in Keys, NEW v \in Accounts,
         k \in DOMAIN l.m \/ Cardinality(DOMAIN l.m) < StickyMax
  PROVE  /\ Sound(Set(l, k, v)) /\ Set(l, k, v).m = With(l.m, k, v)
         /\ OlderThan(Set(l, k, v)) = NewestIn(OlderThan(l), k, DOMAIN l.m \cup {k})
<1>1. PICK D, w : D = DOMAIN l.m /\ w = With(l.m, k, v)
  OBVIOUS
<1>2. NewestIn(OlderThan(l), k, D) = NewestIn(OlderThan(l), k, D \cup {k})
  <2>1. D \ {k} = (D \cup {k}) \ {k}
    OBVIOUS
  <2>2. QED
    BY <2>1 DEF NewestIn
<1>3. CASE k \in D
  <2>1. PICK n : n = [m |-> w, order |-> l.order, idx |-> l.idx]
    OBVIOUS
  <2>2. /\ Numbered(D, l.order, l.idx) /\ DOMAIN l.idx = D /\ D \in SUBSET Keys
        /\ l.m \in [D -> Accounts] /\ Cardinality(D) <= StickyMax
        /\ l = [m |-> l.m, order |-> l.order, idx |-> l.idx] /\ OlderThan(l) = Before(l.order)
    BY <1>1, SoundNumbered
  <2>3. D = DOMAIN w /\ w \in [D -> Accounts]
    BY <1>1, <1>3, <2>2 DEF With
  <2>4. Sound(n)
    BY <2>1, <2>2, <2>3, NumberedSound
  <2>5. n.m = w /\ n.order = l.order
    BY <2>1
  <2>6. OlderThan(n) = OlderThan(l)
    BY <2>2, <2>4, <2>5, SoundNumbered
  <2>7. Set(l, k, v) = Touch(n, k)
    <3>1. n = [l EXCEPT !.m = w]
      BY <2>1, <2>2
    <3>2. QED
      BY <3>1, <1>1, <1>3 DEF Set
  <2>8. /\ Sound(Touch(n, k)) /\ Touch(n, k).m = n.m
        /\ OlderThan(Touch(n, k)) = NewestIn(OlderThan(n), k, DOMAIN n.m)
    BY <1>3, <2>3, <2>4, <2>5, TouchSound
  <2>9. QED
    BY <1>1, <1>2, <2>3, <2>5, <2>6, <2>7, <2>8
<1>4. CASE k \notin D
  <2>1. PICK n : n = [m |-> w, order |-> Append(l.order, k),
                      idx |-> With(l.idx, k, Len(l.order) + 1)]
    OBVIOUS
  <2>2. Cardinality(D) < StickyMax /\ ~(Cardinality(D) >= StickyMax)
    <3>1. Cardinality(D) \in Nat
      BY <1>1, SoundNumbered, FS_CardinalityType
    <3>2. QED
      BY <3>1, <1>1, <1>4, StickyAssumption
  <2>3. Set(l, k, v) = n
    BY <1>1, <1>4, <2>1, <2>2 DEF Set
  <2>4. Sound(n) /\ OlderThan(n) = NewestIn(OlderThan(l), k, D)
    BY <1>1, <1>4, <2>1, <2>2, AddSound
  <2>5. n.m = w
    BY <2>1
  <2>6. QED
    BY <1>1, <1>2, <2>3, <2>4, <2>5
<1>5. QED
  BY <1>3, <1>4

\* ... and when the oldest key has to go.
LEMMA SetReplaces ==
  ASSUME NEW l, Sound(l), NEW k \in Keys, NEW v \in Accounts,
         k \notin DOMAIN l.m, Cardinality(DOMAIN l.m) >= StickyMax
  PROVE  /\ Sound(Set(l, k, v))
         /\ \E o \in DOMAIN l.m :
              /\ \A x \in DOMAIN l.m \ {o} : <<o, x>> \in OlderThan(l)
              /\ Set(l, k, v).m = With(Less(l.m, o), k, v)
              /\ OlderThan(Set(l, k, v)) = NewestIn(OlderThan(l), k, (DOMAIN l.m \ {o}) \cup {k})
<1> DEFINE D == DOMAIN l.m
           o == l.order[1]
           r == EvictOldest(l)
<1>1. D = DOMAIN l.m /\ o = l.order[1] /\ r = EvictOldest(l)
  OBVIOUS
<1>2. IsFiniteSet(D) /\ Cardinality(D) <= StickyMax /\ Cardinality(D) \in Nat
  BY <1>1, SoundNumbered, FS_CardinalityType
<1>3. l.order # <<>>
  <2>1. D # {}
    BY <1>2, FS_EmptySet, StickyAssumption
  <2>2. Numbered(D, l.order, l.idx)
    BY SoundNumbered
  <2>3. QED
    BY <2>1, <2>2, NumberedFinite
<1>5. /\ Sound(r) /\ r.m = Less(l.m, o)
      /\ \A p \in OlderThan(r) : p \in OlderThan(l) /\ p[1] # o /\ p[2] # o
      /\ \A p \in OlderThan(l) : p[1] # o /\ p[2] # o => p \in OlderThan(r)
      /\ o \in D /\ \A x \in D \ {o} : <<o, x>> \in OlderThan(l)
      /\ Cardinality(D \ {o}) = Cardinality(D) - 1
  <2>1. /\ Sound(EvictOldest(l)) /\ EvictOldest(l).m = Less(l.m, l.order[1])
        /\ \A p \in OlderThan(EvictOldest(l)) :
             p \in OlderThan(l) /\ p[1] # l.order[1] /\ p[2] # l.order[1]
        /\ \A p \in OlderThan(l) : p[1] # l.order[1] /\ p[2] # l.order[1]
                                      => p \in OlderThan(EvictOldest(l))
        /\ l.order[1] \in DOMAIN l.m
        /\ \A x \in DOMAIN l.m \ {l.order[1]} : <<l.order[1], x>> \in OlderThan(l)
        /\ Cardinality(DOMAIN l.m \ {l.order[1]}) = Cardinality(DOMAIN l.m) - 1
    BY <1>3, EvictSound
  <2>2. QED
    BY <2>1
<1> HIDE DEF D, o, r
<1>6. DOMAIN r.m = D \ {o}
  BY <1>1, <1>5 DEF Less
<1>7. PICK n : n = [m |-> With(r.m, k, v), order |-> Append(r.order, k),
                    idx |-> With(r.idx, k, Len(r.order) + 1)]
  OBVIOUS
<1>8. Set(l, k, v) = n
  BY <1>1, <1>7 DEF Set
<1>9. Sound(n) /\ OlderThan(n) = NewestIn(OlderThan(r), k, D \ {o})
  <2>1. Cardinality(DOMAIN r.m) < StickyMax /\ k \notin DOMAIN r.m
    BY <1>1, <1>2, <1>5, <1>6, StickyAssumption
  <2>2. Sound(n) /\ OlderThan(n) = NewestIn(OlderThan(r), k, DOMAIN r.m)
    BY <1>5, <1>7, <2>1, AddSound
  <2>3. QED
    BY <2>2, <1>6
<1>10. NewestIn(OlderThan(r), k, D \ {o}) = NewestIn(OlderThan(l), k, (D \ {o}) \cup {k})
  <2>1. (D \ {o}) \ {k} = ((D \ {o}) \cup {k}) \ {k}
    OBVIOUS
  <2>2. QED
    BY <2>1, <1>5 DEF NewestIn
<1>11. n.m = With(Less(l.m, o), k, v)
  <2>1. n.m = With(r.m, k, v)
    BY <1>7
  <2>2. QED
    BY <2>1, <1>5
<1>12. QED
  BY <1>1, <1>5, <1>8, <1>9, <1>10, <1>11

----------------------------------------------------------------------------
\* The sets and the answer of a pick are among its candidates.
Narrowed(k) ==
  /\ k.left \subseteq k.cands /\ k.usable \subseteq k.cands
  /\ k.at \in {"check", "bind"} => k.answer \in k.cands

\* A candidate is, at any moment of the pick, one that was cooling down during
\* it or one that was not, as it is now.
Watched(k) ==
  \A a \in k.cands : IF <<a, k.model>> \in cooling THEN a \in k.cooled ELSE a \in k.warm

\* What a pick has looked at, it has seen at some moment.
Seen(k) ==
  /\ k.at \in {"scan", "sticky", "check"} => k.usable = {}
  /\ k.at = "scan" => k.cands \ k.left \subseteq k.cooled
  /\ k.at = "filter" => (k.cands \ k.left) \ k.usable \subseteq k.cooled
  /\ k.at \in {"filter", "weigh"} => k.usable \subseteq k.warm
  /\ k.at = "bind" => k.answer \in k.warm

\* A pick that is past the sticky map has found the account of its
\* conversation, as it still is, out of reach or cooling down, or answers it.
Honoured(k) ==
  ~k.moved /\ k.key # NoKey =>
    LET own == AccountOf(sticky, k.key)
    IN /\ k.at = "check" => k.answer = own
       /\ k.at \in {"filter", "weigh"} => own \notin k.cands \ k.cooled
       /\ k.at = "bind" => (own \in k.cands \ k.cooled => k.answer = own)

PickInv(k) == Narrowed(k) /\ Watched(k) /\ Seen(k) /\ Honoured(k)

\* The inductive invariant of the picks.
SchedInv == SchedTypeOK /\ \A p \in Pickers : Placing(p) => PickInv(picks[p])

PickType ==
  [at: {"idle", "scan", "sticky", "check", "filter", "weigh", "bind"},
   model: Models, key: Keys \cup {NoKey}, cands: SUBSET Accounts, left: SUBSET Accounts,
   usable: SUBSET Accounts, answer: Accounts \cup {NoAccount},
   cooled: SUBSET Accounts, warm: SUBSET Accounts, moved: BOOLEAN]

\* The type invariant by its parts.
LEMMA TypeParts ==
  SchedTypeOK <=> /\ cooling \subseteq Accounts \X Models /\ credited \subseteq Accounts
                  /\ Sound(sticky) /\ picks \in [Pickers -> PickType]
BY DEF SchedTypeOK, Sound, PickType

\* A picker that is not at work has the type of a pick.
LEMMA NoPickType == NoPick \in PickType /\ NoPick.at = "idle"
<1>1. (CHOOSE m \in Models : TRUE) \in Models
  BY SchedulerAssumption
<1>2. QED
  BY <1>1 DEF NoPick, PickType

\* A step of one pick that leaves the cooldowns and the bindings as they are
\* keeps the invariant if the pick it makes has it.
LEMMA StepKeeps ==
  ASSUME SchedInv, NEW p \in Pickers, NEW now \in PickType, NEW at, Step(p, at, now),
         UNCHANGED <<cooling, credited>>, Sound(sticky'),
         \A k : AccountOf(sticky', k) = AccountOf(sticky, k),
         now.at # "idle" => PickInv(now)
  PROVE  SchedInv'
<1>1. /\ cooling \subseteq Accounts \X Models /\ credited \subseteq Accounts
      /\ picks \in [Pickers -> PickType]
  BY TypeParts DEF SchedInv
<1>2. picks' = [picks EXCEPT ![p] = now]
  BY DEF Step
<1>3. picks' \in [Pickers -> PickType]
  BY <1>1, <1>2
<1>4. SchedTypeOK'
  BY <1>1, <1>3 DEF SchedTypeOK, Sound, PickType
<1>5. ASSUME NEW q \in Pickers, Placing(q)'
      PROVE  PickInv(picks[q])'
  <2>1. PickInv(picks'[q])
    BY <1>1, <1>2, <1>5 DEF SchedInv, Placing
  <2>2. Narrowed(picks[q])' /\ Seen(picks[q])'
    BY <2>1 DEF PickInv, Narrowed, Seen
  <2>3. Watched(picks[q])'
    BY <2>1 DEF PickInv, Watched
  <2>4. Honoured(picks[q])'
    BY <2>1 DEF PickInv, Honoured
  <2>5. QED
    BY <2>2, <2>3, <2>4 DEF PickInv
<1>6. QED
  BY <1>4, <1>5 DEF SchedInv

\* Each step of a pick.
LEMMA ArriveKeeps ==
  ASSUME SchedInv, NEW p \in Pickers, Arrive(p)
  PROVE  SchedInv'
<1>1. PICK asked \in SUBSET (Accounts \cup Others), model \in Models,
              key \in Keys \cup {NoKey} :
        LET own == Own(asked)
            cold == {a \in own : IsCoolingDown(a, model)}
        IN /\ own # {}
           /\ picks' = [picks EXCEPT ![p] =
                [NoPick EXCEPT !.at = "scan", !.model = model, !.key = key, !.cands = own,
                               !.left = own, !.cooled = cold, !.warm = own \ cold,
                               !.moved = key \notin DOMAIN sticky.m]]
  BY DEF Arrive
<1>1a. PICK own : own = Own(asked) /\ own \in SUBSET Accounts
  BY DEF Own
<1>2. PICK cold : cold = {a \in own : IsCoolingDown(a, model)}
  OBVIOUS
<1>3. PICK now : now = [NoPick EXCEPT !.at = "scan", !.model = model, !.key = key, !.cands = own,
                          !.left = own, !.cooled = cold, !.warm = own \ cold,
                          !.moved = key \notin DOMAIN sticky.m]
  OBVIOUS
<1>4. now \in PickType
  <2>1. cold \in SUBSET Accounts /\ own \ cold \in SUBSET Accounts
    BY <1>1a, <1>2
  <2>2. QED
    BY <2>1, <1>3, NoPickType DEF PickType
<1>5. /\ now.at = "scan" /\ now.cands = own /\ now.left = own /\ now.usable = {}
      /\ now.cooled = cold /\ now.warm = own \ cold /\ now.model = model
  BY <1>3, NoPickType DEF PickType, NoPick
<1>6. PickInv(now)
  BY <1>2, <1>5 DEF PickInv, Narrowed, Watched, Seen, Honoured, IsCoolingDown
<1>7. Step(p, picks[p].at, now) /\ UNCHANGED <<cooling, credited, sticky>>
  BY <1>1, <1>1a, <1>2, <1>3 DEF Step, Arrive
<1>8. Sound(sticky)
  BY TypeParts DEF SchedInv
<1>9. QED
  BY <1>4, <1>6, <1>7, <1>8, StepKeeps

\* A pick under way has the invariant and its type.
LEMMA PickHas ==
  ASSUME SchedInv, NEW p \in Pickers, Placing(p)
  PROVE  /\ picks[p] \in PickType /\ PickInv(picks[p]) /\ Sound(sticky)
         /\ picks[p].cands \subseteq Accounts
BY TypeParts DEF SchedInv, PickType

\* availableCandidates looks at a candidate.
LEMMA ScanKeeps ==
  ASSUME SchedInv, NEW p \in Pickers, Scan(p)
  PROVE  SchedInv'
<1>1. PICK k : k = picks[p]
  OBVIOUS
<1>2. PICK a \in k.left :
        Step(p, "scan",
             CASE ~IsCoolingDown(a, k.model) -> [k EXCEPT !.at = "sticky", !.left = {}]
               [] IsCoolingDown(a, k.model) /\ k.left \ {a} # {} ->
                    [k EXCEPT !.left = k.left \ {a}]
               [] OTHER -> NoPick)
  BY <1>1 DEF Scan
<1>3. UNCHANGED <<cooling, credited, sticky>> /\ Placing(p)
  BY <1>2 DEF Scan, Placing, Step
<1>4. /\ k \in PickType /\ PickInv(k) /\ Sound(sticky) /\ k.at = "scan"
      /\ k.cands \subseteq Accounts
  BY <1>1, <1>2, <1>3, PickHas DEF Step
<1>5. CASE ~IsCoolingDown(a, k.model)
  <2>1. PICK now : now = [k EXCEPT !.at = "sticky", !.left = {}]
    OBVIOUS
  <2>2. Step(p, "scan", now)
    BY <1>2, <1>5, <2>1
  <2>3. now \in PickType
    BY <2>1, <1>4 DEF PickType
  <2>4. PickInv(now)
    BY <2>1, <1>4 DEF PickType, PickInv, Narrowed, Watched, Seen, Honoured
  <2>5. QED
    BY <2>2, <2>3, <2>4, <1>3, <1>4, StepKeeps
<1>6. CASE IsCoolingDown(a, k.model) /\ k.left \ {a} # {}
  <2>1. PICK now : now = [k EXCEPT !.left = k.left \ {a}]
    OBVIOUS
  <2>2. Step(p, "scan", now)
    BY <1>2, <1>6, <2>1
  <2>3. now \in PickType
    BY <2>1, <1>4 DEF PickType
  <2>4. a \in k.cooled
    BY <1>2, <1>4, <1>6 DEF PickInv, Narrowed, Watched, IsCoolingDown
  <2>5. PickInv(now)
    BY <2>1, <2>4, <1>4 DEF PickType, PickInv, Narrowed, Watched, Seen, Honoured
  <2>6. QED
    BY <2>2, <2>3, <2>5, <1>3, <1>4, StepKeeps
<1>7. CASE IsCoolingDown(a, k.model) /\ k.left \ {a} = {}
  <2>1. Step(p, "scan", NoPick)
    BY <1>2, <1>7
  <2>2. QED
    BY <2>1, <1>3, <1>4, NoPickType, StepKeeps
<1>8. QED
  BY <1>5, <1>6, <1>7

\* What a map without the key gives is no account.
LEMMA AccountTypes ==
  ASSUME NEW l, Sound(l), NEW k
  PROVE  /\ AccountOf(l, k) \in Accounts \cup {NoAccount}
         /\ AccountOf(l, k) \in Accounts <=> k \in DOMAIN l.m
BY StickyAssumption DEF AccountOf, Sound, IsMap

\* get renews the binding, and moves none.
LEMMA StickyGetKeeps ==
  ASSUME SchedInv, NEW p \in Pickers, StickyGet(p)
  PROVE  SchedInv'
<1>1. PICK k, a : k = picks[p] /\ a = AccountOf(sticky, k.key)
  OBVIOUS
<1>2. /\ Step(p, "sticky", IF a \in k.cands THEN [k EXCEPT !.at = "check", !.answer = a]
                           ELSE ToFilter(p))
      /\ sticky' = Get(sticky, k.key) /\ UNCHANGED <<cooling, credited>>
  BY <1>1 DEF StickyGet
<1>3. /\ k \in PickType /\ PickInv(k) /\ Sound(sticky) /\ k.at = "sticky"
      /\ k.cands \subseteq Accounts
  <2>1. Placing(p) /\ k.at = "sticky"
    BY <1>1, <1>2 DEF Placing, Step
  <2>2. QED
    BY <2>1, <1>1, PickHas
<1>4. Sound(sticky') /\ \A x : AccountOf(sticky', x) = AccountOf(sticky, x)
  <2>1. Sound(sticky') /\ sticky'.m = sticky.m
    BY <1>2, <1>3, GetSound
  <2>2. QED
    BY <2>1 DEF AccountOf
<1>5. CASE a \in k.cands
  <2>1. PICK now : now = [k EXCEPT !.at = "check", !.answer = a]
    OBVIOUS
  <2>2. Step(p, "sticky", now)
    BY <1>2, <1>5, <2>1
  <2>3. now \in PickType
    BY <2>1, <1>3, <1>5 DEF PickType
  <2>4. PickInv(now)
    BY <2>1, <1>1, <1>3, <1>5 DEF PickType, PickInv, Narrowed, Watched, Seen, Honoured
  <2>5. QED
    BY <2>2, <2>3, <2>4, <1>2, <1>4, StepKeeps
<1>6. CASE a \notin k.cands
  <2>1. PICK now : now = [k EXCEPT !.at = "filter", !.left = k.cands, !.answer = NoAccount]
    OBVIOUS
  <2>2. Step(p, "sticky", now)
    BY <1>1, <1>2, <1>6, <2>1 DEF ToFilter
  <2>3. now \in PickType
    BY <2>1, <1>3 DEF PickType
  <2>4. PickInv(now)
    <3>1. /\ now.at = "filter" /\ now.left = k.cands /\ now.cands = k.cands
          /\ now.model = k.model /\ now.cooled = k.cooled /\ now.warm = k.warm
          /\ now.key = k.key /\ now.moved = k.moved /\ now.usable = k.usable
      BY <2>1, <1>3 DEF PickType
    <3>2. Narrowed(now) /\ Watched(now)
      BY <3>1, <1>3 DEF PickInv, Narrowed, Watched
    <3>3. Seen(now)
      BY <3>1, <1>3 DEF PickInv, Seen
    <3>4. Honoured(now)
      BY <3>1, <1>1, <1>6 DEF Honoured
    <3>5. QED
      BY <3>2, <3>3, <3>4 DEF PickInv
  <2>5. QED
    BY <2>2, <2>3, <2>4, <1>2, <1>4, StepKeeps
<1>7. QED
  BY <1>5, <1>6

\* The bound account is looked at before it is answered.
LEMMA StickyCheckKeeps ==
  ASSUME SchedInv, NEW p \in Pickers, StickyCheck(p)
  PROVE  SchedInv'
<1>1. PICK k : k = picks[p]
  OBVIOUS
<1>2. /\ Step(p, "check", IF IsCoolingDown(k.answer, k.model) THEN ToFilter(p)
                          ELSE [k EXCEPT !.at = "bind"])
      /\ UNCHANGED <<cooling, credited, sticky>>
  BY <1>1 DEF StickyCheck
<1>3. /\ k \in PickType /\ PickInv(k) /\ Sound(sticky) /\ k.at = "check"
      /\ k.cands \subseteq Accounts
  <2>1. Placing(p) /\ k.at = "check"
    BY <1>1, <1>2 DEF Placing, Step
  <2>2. QED
    BY <2>1, <1>1, PickHas
<1>4. CASE IsCoolingDown(k.answer, k.model)
  <2>1. PICK now : now = [k EXCEPT !.at = "filter", !.left = k.cands, !.answer = NoAccount]
    OBVIOUS
  <2>2. Step(p, "check", now)
    BY <1>1, <1>2, <1>4, <2>1 DEF ToFilter
  <2>3. now \in PickType
    BY <2>1, <1>3 DEF PickType
  <2>4. k.answer \in k.cooled
    BY <1>3, <1>4 DEF PickInv, Narrowed, Watched, IsCoolingDown
  <2>5. PickInv(now)
    <3>1. /\ now.at = "filter" /\ now.left = k.cands /\ now.cands = k.cands
          /\ now.model = k.model /\ now.cooled = k.cooled /\ now.warm = k.warm
          /\ now.key = k.key /\ now.moved = k.moved /\ now.usable = k.usable
      BY <2>1, <1>3 DEF PickType
    <3>2. Narrowed(now) /\ Watched(now)
      BY <3>1, <1>3 DEF PickInv, Narrowed, Watched
    <3>3. Seen(now)
      BY <3>1, <1>3 DEF PickInv, Seen
    <3>4. Honoured(now)
      BY <3>1, <2>4, <1>3 DEF PickInv, Honoured
    <3>5. QED
      BY <3>2, <3>3, <3>4 DEF PickInv
  <2>6. QED
    BY <2>2, <2>3, <2>5, <1>2, <1>3, StepKeeps
<1>5. CASE ~IsCoolingDown(k.answer, k.model)
  <2>1. PICK now : now = [k EXCEPT !.at = "bind"]
    OBVIOUS
  <2>2. Step(p, "check", now)
    BY <1>2, <1>5, <2>1
  <2>3. now \in PickType
    BY <2>1, <1>3 DEF PickType
  <2>4. k.answer \in k.warm
    BY <1>3, <1>5 DEF PickInv, Narrowed, Watched, IsCoolingDown
  <2>5. PickInv(now)
    BY <2>1, <2>4, <1>3 DEF PickType, PickInv, Narrowed, Watched, Seen, Honoured
  <2>6. QED
    BY <2>2, <2>3, <2>5, <1>2, <1>3, StepKeeps
<1>6. QED
  BY <1>4, <1>5

\* The candidates are looked at again for the choice by credits.
LEMMA FilterKeeps ==
  ASSUME SchedInv, NEW p \in Pickers, FilterCooling(p)
  PROVE  SchedInv'
<1>1. PICK k : k = picks[p]
  OBVIOUS
<1>2. PICK a, u :
        /\ a \in k.left
        /\ u = IF IsCoolingDown(a, k.model) THEN k.usable ELSE k.usable \cup {a}
        /\ Step(p, "filter",
             CASE k.left \ {a} # {} -> [k EXCEPT !.left = k.left \ {a}, !.usable = u]
               [] k.left \ {a} = {} /\ u # {} ->
                    [k EXCEPT !.at = "weigh", !.left = {}, !.usable = u]
               [] OTHER -> NoPick)
  BY <1>1 DEF FilterCooling
<1>3. UNCHANGED <<cooling, credited, sticky>> /\ Placing(p)
  BY <1>2 DEF FilterCooling, Placing, Step
<1>4. /\ k \in PickType /\ PickInv(k) /\ Sound(sticky) /\ k.at = "filter"
      /\ k.cands \subseteq Accounts
  BY <1>1, <1>2, <1>3, PickHas DEF Step
<1>5. /\ u \subseteq k.cands /\ u \subseteq k.warm
      /\ (k.cands \ (k.left \ {a})) \ u \subseteq k.cooled
  <2>1. /\ k.left \subseteq k.cands /\ k.usable \subseteq k.cands
        /\ (k.cands \ k.left) \ k.usable \subseteq k.cooled /\ k.usable \subseteq k.warm
    BY <1>4 DEF PickInv, Narrowed, Seen
  <2>2. a \in k.cands /\ (IF IsCoolingDown(a, k.model) THEN a \in k.cooled ELSE a \in k.warm)
    BY <1>2, <1>4, <2>1 DEF PickInv, Watched, IsCoolingDown
  <2>3. QED
    BY <1>2, <2>1, <2>2
<1>6. CASE k.left \ {a} # {}
  <2>1. PICK now : now = [k EXCEPT !.left = k.left \ {a}, !.usable = u]
    OBVIOUS
  <2>2. Step(p, "filter", now)
    BY <1>2, <1>6, <2>1
  <2>3. /\ now.at = "filter" /\ now.left = k.left \ {a} /\ now.cands = k.cands
        /\ now.model = k.model /\ now.cooled = k.cooled /\ now.warm = k.warm
        /\ now.key = k.key /\ now.moved = k.moved /\ now.usable = u /\ now.answer = k.answer
    BY <2>1, <1>4 DEF PickType
  <2>4. now \in PickType
    BY <2>1, <1>4, <1>5 DEF PickType
  <2>5. PickInv(now)
    BY <2>3, <1>4, <1>5 DEF PickInv, Narrowed, Watched, Seen, Honoured
  <2>6. QED
    BY <2>2, <2>4, <2>5, <1>3, <1>4, StepKeeps
<1>7. CASE k.left \ {a} = {} /\ u # {}
  <2>1. PICK now : now = [k EXCEPT !.at = "weigh", !.left = {}, !.usable = u]
    OBVIOUS
  <2>2. Step(p, "filter", now)
    BY <1>2, <1>7, <2>1
  <2>3. /\ now.at = "weigh" /\ now.left = {} /\ now.cands = k.cands
        /\ now.model = k.model /\ now.cooled = k.cooled /\ now.warm = k.warm
        /\ now.key = k.key /\ now.moved = k.moved /\ now.usable = u /\ now.answer = k.answer
    BY <2>1, <1>4 DEF PickType
  <2>4. now \in PickType
    BY <2>1, <1>4, <1>5 DEF PickType
  <2>5. PickInv(now)
    BY <2>3, <1>4, <1>5 DEF PickInv, Narrowed, Watched, Seen, Honoured
  <2>6. QED
    BY <2>2, <2>4, <2>5, <1>3, <1>4, StepKeeps
<1>8. CASE k.left \ {a} = {} /\ u = {}
  <2>1. Step(p, "filter", NoPick)
    BY <1>2, <1>8
  <2>2. QED
    BY <2>1, <1>3, <1>4, NoPickType, StepKeeps
<1>9. QED
  BY <1>6, <1>7, <1>8

\* The choice is among those seen usable.
LEMMA ChooseKeeps ==
  ASSUME SchedInv, NEW p \in Pickers, Choose(p)
  PROVE  SchedInv'
<1>1. PICK k : k = picks[p]
  OBVIOUS
<1>2. PICK a \in k.usable : Step(p, "weigh", [k EXCEPT !.at = "bind", !.usable = {}, !.answer = a])
  BY <1>1 DEF Choose, Highest
<1>3. UNCHANGED <<cooling, credited, sticky>> /\ Placing(p)
  BY <1>2 DEF Choose, Placing, Step
<1>4. /\ k \in PickType /\ PickInv(k) /\ Sound(sticky) /\ k.at = "weigh"
      /\ k.cands \subseteq Accounts
  BY <1>1, <1>2, <1>3, PickHas DEF Step
<1>5. PICK now : now = [k EXCEPT !.at = "bind", !.usable = {}, !.answer = a]
  OBVIOUS
<1>6. /\ now.at = "bind" /\ now.left = k.left /\ now.cands = k.cands
      /\ now.model = k.model /\ now.cooled = k.cooled /\ now.warm = k.warm
      /\ now.key = k.key /\ now.moved = k.moved /\ now.usable = {} /\ now.answer = a
  BY <1>4, <1>5 DEF PickType
<1>7. a \in k.cands /\ a \in k.warm
  BY <1>2, <1>4 DEF PickInv, Narrowed, Seen
<1>8. now \in PickType
  BY <1>4, <1>5, <1>7 DEF PickType
<1>9. PickInv(now)
  BY <1>4, <1>6, <1>7 DEF PickInv, Narrowed, Watched, Seen, Honoured
<1>10. QED
  BY <1>2, <1>3, <1>4, <1>5, <1>8, <1>9, StepKeeps

\* set keeps the map sound, with room and without.
LEMMA SetSound ==
  ASSUME NEW l, Sound(l), NEW k \in Keys, NEW v \in Accounts
  PROVE  Sound(Set(l, k, v))
<1>1. CASE k \in DOMAIN l.m \/ Cardinality(DOMAIN l.m) < StickyMax
  BY <1>1, SetKeeps
<1>2. CASE k \notin DOMAIN l.m /\ ~(Cardinality(DOMAIN l.m) < StickyMax)
  <2>1. Cardinality(DOMAIN l.m) >= StickyMax
    BY <1>2, SoundNumbered, FS_CardinalityType, StickyAssumption
  <2>2. QED
    BY <1>2, <2>1, SetReplaces
<1>3. QED
  BY <1>1, <1>2

\* set may evict the binding of a conversation another pick is placing; that pick
\* is then one whose account has moved.
LEMMA BindKeeps ==
  ASSUME SchedInv, NEW p \in Pickers, Bind(p)
  PROVE  SchedInv'
<1>1. PICK k, after :
        /\ k = picks[p]
        /\ after = IF k.key = NoKey THEN sticky ELSE Set(sticky, k.key, k.answer)
  OBVIOUS
<1>2. /\ k.at = "bind" /\ sticky' = after /\ UNCHANGED <<cooling, credited>>
      /\ picks' = [q \in Pickers |->
           IF q = p THEN NoPick
           ELSE [picks[q] EXCEPT !.moved = @ \/
                   (Placing(q) /\ AccountOf(after, picks[q].key) # AccountOf(sticky, picks[q].key))]]
  BY <1>1 DEF Bind
<1>3. /\ k \in PickType /\ PickInv(k) /\ Sound(sticky) /\ k.cands \subseteq Accounts
  BY <1>1, <1>2, PickHas DEF Placing
<1>4. /\ cooling \subseteq Accounts \X Models /\ credited \subseteq Accounts
      /\ picks \in [Pickers -> PickType]
  BY TypeParts DEF SchedInv
<1>5. Sound(sticky')
  <2>1. k.answer \in Accounts /\ k.key \in Keys \cup {NoKey}
    BY <1>2, <1>3 DEF PickInv, Narrowed, PickType
  <2>2. QED
    BY <2>1, <1>1, <1>2, <1>3, SetSound
<1>6. picks' \in [Pickers -> PickType]
  <2>1. ASSUME NEW q \in Pickers
        PROVE  picks'[q] \in PickType
    <3>1. NoPick \in PickType /\ picks[q] \in PickType
      BY <1>4, NoPickType
    <3>2. picks[q].moved \in BOOLEAN
      BY <3>1 DEF PickType
    <3>3. PICK b \in BOOLEAN : picks'[q] = IF q = p THEN NoPick ELSE [picks[q] EXCEPT !.moved = b]
      BY <1>2, <3>2
    <3>4. [picks[q] EXCEPT !.moved = b] \in PickType
      BY <3>1 DEF PickType
    <3>5. QED
      BY <3>1, <3>3, <3>4
  <2>2. QED
    BY <2>1, <1>2
<1>7. SchedTypeOK'
  BY <1>2, <1>4, <1>5, <1>6 DEF SchedTypeOK, Sound, PickType
<1>8. ASSUME NEW q \in Pickers, Placing(q)'
      PROVE  PickInv(picks[q])'
  <2>1. q # p
    BY <1>2, <1>8, NoPickType DEF Placing
  <2>2. PICK b : b = (picks[q].moved \/
          (Placing(q) /\ AccountOf(after, picks[q].key) # AccountOf(sticky, picks[q].key)))
    OBVIOUS
  <2>3. picks'[q] = [picks[q] EXCEPT !.moved = b]
    BY <1>2, <2>1, <2>2
  <2>4. PICK now : now = picks'[q]
    OBVIOUS
  <2>5. PICK was : was = picks[q] /\ was \in PickType
    BY <1>4
  <2>6. /\ now.at = was.at /\ now.left = was.left /\ now.cands = was.cands
        /\ now.model = was.model /\ now.cooled = was.cooled /\ now.warm = was.warm
        /\ now.key = was.key /\ now.usable = was.usable /\ now.answer = was.answer
        /\ now.moved = b
    BY <2>3, <2>4, <2>5 DEF PickType
  <2>7. Placing(q) /\ PickInv(was)
    BY <1>8, <2>4, <2>5, <2>6 DEF Placing, SchedInv
  <2>8. ~b => ~was.moved /\ AccountOf(sticky', was.key) = AccountOf(sticky, was.key)
    BY <1>2, <2>2, <2>5, <2>7
  <2>9. Narrowed(picks[q])' /\ Seen(picks[q])'
    BY <2>4, <2>6, <2>7 DEF PickInv, Narrowed, Seen
  <2>10. Watched(picks[q])'
    BY <1>2, <2>4, <2>6, <2>7 DEF PickInv, Watched
  <2>11. Honoured(picks[q])'
    BY <2>4, <2>6, <2>7, <2>8 DEF PickInv, Honoured
  <2>12. QED
    BY <2>9, <2>10, <2>11 DEF PickInv
<1>9. QED
  BY <1>7, <1>8 DEF SchedInv

\* A cooldown that begins or ends is noted by each pick it is about.
LEMMA CooldownKeeps ==
  ASSUME SchedInv, NEW a \in Accounts, NEW model \in Models,
         ExecuteFails(a, model) \/ CooldownEnds(a, model)
  PROVE  SchedInv'
<1>1. /\ cooling \subseteq Accounts \X Models /\ credited \subseteq Accounts
      /\ Sound(sticky) /\ picks \in [Pickers -> PickType]
  BY TypeParts DEF SchedInv
<1>2. /\ UNCHANGED <<credited, sticky>> /\ cooling' \subseteq Accounts \X Models
      /\ DOMAIN picks' = Pickers
  BY <1>1 DEF ExecuteFails, CooldownEnds
<1>3. ASSUME NEW q \in Pickers
      PROVE  /\ picks'[q] \in PickType
             /\ Placing(q)' => PickInv(picks[q])'
  <2>1. PICK was, now : was = picks[q] /\ now = picks'[q]
    OBVIOUS
  <2>2. was \in PickType /\ was.cooled \subseteq Accounts /\ was.warm \subseteq Accounts
    BY <1>1, <2>1 DEF PickType
  <2>3. PICK C \in SUBSET Accounts, W \in SUBSET Accounts :
          /\ now = [was EXCEPT !.cooled = C, !.warm = W]
          /\ was.cooled \subseteq C /\ was.warm \subseteq W
          /\ Placing(q) /\ model = was.model /\ a \in was.cands =>
               a \in IF ExecuteFails(a, model) THEN C ELSE W
    <3>1. CASE ~(Placing(q) /\ model = was.model /\ a \in was.cands)
      <4>1. now = [was EXCEPT !.cooled = was.cooled, !.warm = was.warm]
        BY <2>1, <2>2, <3>1 DEF ExecuteFails, CooldownEnds, PickType
      <4>2. QED
        BY <2>2, <3>1, <4>1
    <3>2. CASE (Placing(q) /\ model = was.model /\ a \in was.cands) /\ ExecuteFails(a, model)
      <4>1. now = [was EXCEPT !.cooled = was.cooled \cup {a}, !.warm = was.warm]
        BY <2>1, <2>2, <3>2 DEF ExecuteFails, PickType
      <4>2. PICK C : C = was.cooled \cup {a}
        OBVIOUS
      <4>3. C \in SUBSET Accounts /\ was.cooled \subseteq C /\ a \in C
        BY <2>2, <4>2
      <4>4. QED
        BY <2>2, <3>2, <4>1, <4>2, <4>3
    <3>3. CASE (Placing(q) /\ model = was.model /\ a \in was.cands) /\ ~ExecuteFails(a, model)
      <4>1. now = [was EXCEPT !.cooled = was.cooled, !.warm = was.warm \cup {a}]
        <5>1. now = [was EXCEPT !.warm = was.warm \cup {a}]
          BY <2>1, <3>3 DEF CooldownEnds
        <5>2. was = [was EXCEPT !.cooled = was.cooled]
          BY <2>2 DEF PickType
        <5>3. QED
          BY <2>2, <5>1, <5>2 DEF PickType
      <4>2. PICK W : W = was.warm \cup {a}
        OBVIOUS
      <4>3. W \in SUBSET Accounts /\ was.warm \subseteq W /\ a \in W
        BY <2>2, <4>2
      <4>4. QED
        BY <2>2, <3>3, <4>1, <4>2, <4>3
    <3>4. QED
      BY <3>1, <3>2, <3>3
  <2>4. /\ now.at = was.at /\ now.left = was.left /\ now.cands = was.cands
        /\ now.model = was.model /\ now.key = was.key /\ now.usable = was.usable
        /\ now.answer = was.answer /\ now.moved = was.moved /\ now.cooled = C /\ now.warm = W
    BY <2>2, <2>3 DEF PickType
  <2>5. now \in PickType
    BY <2>2, <2>3 DEF PickType
  <2>6. ASSUME Placing(q)'
        PROVE  PickInv(picks[q])'
    <3>1. PickInv(was)
      BY <2>1, <2>4, <2>6 DEF Placing, SchedInv
    <3>2. Narrowed(picks[q])' /\ Seen(picks[q])'
      BY <2>1, <2>3, <2>4, <3>1 DEF PickInv, Narrowed, Seen
    <3>3. Watched(picks[q])'
      <4>1. SUFFICES ASSUME NEW b \in was.cands
                     PROVE  IF <<b, was.model>> \in cooling' THEN b \in C ELSE b \in W
        BY <2>1, <2>4 DEF Watched
      <4>2. /\ IF <<b, was.model>> \in cooling THEN b \in was.cooled ELSE b \in was.warm
            /\ Placing(q)
        BY <2>1, <2>4, <2>6, <3>1 DEF PickInv, Watched, Placing
      <4>3. CASE ExecuteFails(a, model)
        <5>1. cooling' = cooling \cup {<<a, model>>}
          BY <4>3 DEF ExecuteFails
        <5>2. QED
          BY <2>3, <4>2, <4>3, <5>1
      <4>4. CASE ~ExecuteFails(a, model)
        <5>1. cooling' = cooling \ {<<a, model>>}
          BY <4>4 DEF CooldownEnds
        <5>2. QED
          BY <2>3, <4>2, <4>4, <5>1
      <4>5. QED
        BY <4>3, <4>4
    <3>4. Honoured(picks[q])'
      BY <1>2, <2>1, <2>3, <2>4, <3>1 DEF PickInv, Honoured
    <3>5. QED
      BY <3>2, <3>3, <3>4 DEF PickInv
  <2>7. QED
    BY <2>1, <2>5, <2>6
<1>4. picks' \in [Pickers -> PickType]
  <2>1. picks' = [q \in Pickers |-> picks'[q]]
    BY DEF ExecuteFails, CooldownEnds
  <2>2. QED
    BY <1>3, <2>1
<1>5. SchedTypeOK'
  BY <1>1, <1>2, <1>4 DEF SchedTypeOK, Sound, PickType
<1>6. QED
  BY <1>3, <1>5 DEF SchedInv

\* No picks, no bindings.
LEMMA InitSchedInv == SchedInit => SchedInv
<1> SUFFICES ASSUME SchedInit PROVE SchedInv
  OBVIOUS
<1>1. cooling = {} /\ credited = {} /\ sticky = EmptyMap /\ picks = [p \in Pickers |-> NoPick]
  BY DEF SchedInit
<1>2. picks \in [Pickers -> PickType] /\ \A p \in Pickers : ~Placing(p)
  BY <1>1, NoPickType DEF Placing
<1>3. Sound(EmptyMap)
  <2>1. EmptyMap = [m |-> EmptyMap.m, order |-> <<>>, idx |-> EmptyMap.idx]
        /\ DOMAIN EmptyMap.m = {} /\ DOMAIN EmptyMap.idx = {}
    BY DEF EmptyMap
  <2>2. <<>> \in Seq(Keys) /\ Len(<<>>) = 0
    BY EmptySeq
  <2>3. Numbered({}, <<>>, EmptyMap.idx)
    BY <2>2 DEF Numbered
  <2>4. Cardinality({}) <= StickyMax
    BY FS_EmptySet, StickyAssumption
  <2>5. EmptyMap.m \in [{} -> Accounts]
    BY <2>1 DEF EmptyMap
  <2>6. PICK m, idx : m = EmptyMap.m /\ idx = EmptyMap.idx
    OBVIOUS
  <2>7. PICK o, D : o = <<>> /\ D = {}
    OBVIOUS
  <2>8. Sound([m |-> m, order |-> o, idx |-> idx])
    <3>1. /\ D \in SUBSET Keys /\ D = DOMAIN m /\ m \in [D -> Accounts] /\ DOMAIN idx = D
          /\ Numbered(D, o, idx) /\ Cardinality(D) <= StickyMax
      BY <2>1, <2>3, <2>4, <2>5, <2>6, <2>7
    <3>2. QED
      BY <3>1, NumberedSound
  <2>9. QED
    BY <2>1, <2>6, <2>7, <2>8
<1>4. QED
  BY <1>1, <1>2, <1>3, TypeParts DEF SchedInv

\* Every step keeps the invariant of the picks.
LEMMA NextSchedInv == SchedInv /\ [SchedNext]_schedVars => SchedInv'
<1> SUFFICES ASSUME SchedInv, [SchedNext]_schedVars PROVE SchedInv'
  OBVIOUS
<1>1. ASSUME NEW p \in Pickers, Pick(p)
      PROVE  SchedInv'
  BY <1>1, ArriveKeeps, ScanKeeps, StickyGetKeeps, StickyCheckKeeps, FilterKeeps, ChooseKeeps,
     BindKeeps DEF Pick
<1>2. ASSUME NEW a \in Accounts, NEW model \in Models,
             ExecuteFails(a, model) \/ CooldownEnds(a, model)
      PROVE  SchedInv'
  BY <1>2, CooldownKeeps
<1>3. ASSUME NEW a \in Accounts, QuotaFetched(a) \/ CreditsAge(a)
      PROVE  SchedInv'
  <2>1. credited \subseteq Accounts /\ UNCHANGED <<cooling, sticky, picks>>
    BY <1>3 DEF SchedInv, SchedTypeOK, QuotaFetched, CreditsAge
  <2>2. credited' \subseteq Accounts
    BY <1>3, <2>1 DEF QuotaFetched, CreditsAge
  <2>3. SchedTypeOK'
    BY <2>1, <2>2 DEF SchedInv, SchedTypeOK
  <2>4. QED
    BY <2>1, <2>3 DEF SchedInv, Placing, PickInv, Narrowed, Watched, Seen, Honoured
<1>4. CASE UNCHANGED schedVars
  BY <1>4 DEF schedVars, SchedInv, SchedTypeOK, Placing, PickInv, Narrowed, Watched, Seen, Honoured
<1>5. QED
  BY <1>1, <1>2, <1>3, <1>4 DEF SchedNext

\* Whatever picks, failures and quota fetches come between the reads of
\* schedulerPick, each pick still knows what it has seen of its candidates and of
\* the account of its conversation.
THEOREM SchedulerInvariant == SchedSpec => []SchedInv
BY InitSchedInv, NextSchedInv, PTL DEF SchedSpec

\* Map, list and index of the sticky map stay in step (touch and evictOldest
\* number them by hand), and the scheduler's state keeps its types.
THEOREM StickyMapInStep == SchedSpec => []SchedTypeOK
<1>1. SchedInv => SchedTypeOK
  BY DEF SchedInv
<1>2. QED
  BY <1>1, SchedulerInvariant, PTL

\* A conversation keeps its account, unless that is out of reach or cooling
\* down, or another pick changed or evicted it meanwhile.
THEOREM ConversationsKeepAccounts == SchedSpec => []KeepsConversation
<1>1. SchedInv => KeepsConversation
  BY DEF SchedInv, Placing, PickInv, Honoured, KeepsConversation
<1>2. QED
  BY <1>1, SchedulerInvariant, PTL

\* A pick that a step of another leaves alone stays where it is.
LEMMA OthersStay ==
  ASSUME SchedInv, [SchedNext]_schedVars, NEW p \in Pickers, ~Pick(p)
  PROVE  picks'[p].at = picks[p].at
<1>1. picks \in [Pickers -> PickType]
  BY TypeParts DEF SchedInv
<1>2. ASSUME NEW q \in Pickers, q # p, Pick(q)
      PROVE  picks'[p].at = picks[p].at
  <2>1. CASE Bind(q)
    <3>1. PICK b : picks'[p] = [picks[p] EXCEPT !.moved = b]
      BY <1>2, <2>1 DEF Bind
    <3>2. QED
      BY <3>1, <1>1 DEF PickType
  <2>2. CASE ~Bind(q)
    <3>1. \E now : picks' = [picks EXCEPT ![q] = now]
      <4>1. CASE Arrive(q)
        BY <4>1 DEF Arrive
      <4>2. CASE Scan(q) \/ FilterCooling(q)
        BY <4>2 DEF Scan, FilterCooling, Step
      <4>3. CASE StickyGet(q) \/ StickyCheck(q) \/ Choose(q)
        BY <4>3 DEF StickyGet, StickyCheck, Choose, Step
      <4>4. QED
        BY <1>2, <2>2, <4>1, <4>2, <4>3 DEF Pick
    <3>2. QED
      BY <1>1, <1>2, <3>1
  <2>3. QED
    BY <2>1, <2>2
<1>3. ASSUME NEW a \in Accounts, NEW model \in Models, ExecuteFails(a, model)
      PROVE  picks'[p].at = picks[p].at
  <2>1. picks'[p] = picks[p] \/ \E C : picks'[p] = [picks[p] EXCEPT !.cooled = C]
    BY <1>3 DEF ExecuteFails
  <2>2. QED
    BY <2>1, <1>1 DEF PickType
<1>4. ASSUME NEW a \in Accounts, NEW model \in Models, CooldownEnds(a, model)
      PROVE  picks'[p].at = picks[p].at
  <2>1. picks'[p] = picks[p] \/ \E W : picks'[p] = [picks[p] EXCEPT !.warm = W]
    BY <1>4 DEF CooldownEnds
  <2>2. QED
    BY <2>1, <1>1 DEF PickType
<1>5. ASSUME NEW a \in Accounts, QuotaFetched(a) \/ CreditsAge(a)
      PROVE  picks'[p].at = picks[p].at
  BY <1>5 DEF QuotaFetched, CreditsAge
<1>6. CASE UNCHANGED schedVars
  BY <1>6 DEF schedVars
<1>7. QED
  BY <1>2, <1>3, <1>4, <1>5, <1>6 DEF SchedNext

\* A look that ends the pick has seen the last candidate cooling down.
LEMMA RefusalJustified ==
  ASSUME SchedInv, NEW p \in Pickers, Scan(p) \/ FilterCooling(p), picks'[p] = NoPick
  PROVE  picks[p].at # "bind" /\ picks[p].cands \subseteq picks[p].cooled
<1>1. PICK k : k = picks[p]
  OBVIOUS
<1>2. k.at \in {"scan", "filter"} /\ Placing(p)
  BY <1>1 DEF Scan, FilterCooling, Step, Placing
<1>3. k \in PickType /\ PickInv(k) /\ picks \in [Pickers -> PickType]
  BY <1>1, <1>2, PickHas, TypeParts DEF SchedInv
<1>4. NoPick.at = "idle"
  BY NoPickType
<1>5. CASE Scan(p)
  <2>1. PICK a \in k.left :
          picks'[p] = CASE ~IsCoolingDown(a, k.model) -> [k EXCEPT !.at = "sticky", !.left = {}]
                        [] IsCoolingDown(a, k.model) /\ k.left \ {a} # {} ->
                             [k EXCEPT !.left = k.left \ {a}]
                        [] OTHER -> NoPick
    BY <1>1, <1>3, <1>5 DEF Scan, Step
  <2>2. k.at = "scan"
    BY <1>1, <1>5 DEF Scan, Step
  <2>3. CASE ~IsCoolingDown(a, k.model)
    <3>1. picks'[p] = [k EXCEPT !.at = "sticky", !.left = {}]
      BY <2>1, <2>3
    <3>2. QED
      BY <3>1, <1>3, <1>4 DEF PickType
  <2>4. CASE IsCoolingDown(a, k.model) /\ k.left \ {a} # {}
    <3>1. picks'[p] = [k EXCEPT !.left = k.left \ {a}]
      BY <2>1, <2>4
    <3>2. QED
      BY <3>1, <1>3, <1>4, <2>2 DEF PickType
  <2>5. CASE IsCoolingDown(a, k.model) /\ k.left \ {a} = {}
    BY <1>1, <1>3, <2>1, <2>2, <2>5 DEF PickInv, Narrowed, Watched, Seen, IsCoolingDown
  <2>6. QED
    BY <2>3, <2>4, <2>5
<1>6. CASE FilterCooling(p)
  <2>0. PICK a \in k.left :
          Step(p, "filter",
            LET left == k.left \ {a}
                usable == IF IsCoolingDown(a, k.model) THEN k.usable ELSE k.usable \cup {a}
            IN CASE left # {} -> [k EXCEPT !.left = left, !.usable = usable]
                 [] left = {} /\ usable # {} ->
                      [k EXCEPT !.at = "weigh", !.left = {}, !.usable = usable]
                 [] OTHER -> NoPick)
    BY <1>1, <1>6 DEF FilterCooling
  <2>1. PICK u :
          /\ u = IF IsCoolingDown(a, k.model) THEN k.usable ELSE k.usable \cup {a}
          /\ picks'[p] = CASE k.left \ {a} # {} -> [k EXCEPT !.left = k.left \ {a}, !.usable = u]
                           [] k.left \ {a} = {} /\ u # {} ->
                                [k EXCEPT !.at = "weigh", !.left = {}, !.usable = u]
                           [] OTHER -> NoPick
    BY <1>1, <1>3, <2>0 DEF Step
  <2>2. k.at = "filter"
    BY <1>1, <1>6 DEF FilterCooling, Step
  <2>3. CASE k.left \ {a} # {}
    <3>1. picks'[p] = [k EXCEPT !.left = k.left \ {a}, !.usable = u]
      BY <2>1, <2>3
    <3>2. QED
      BY <3>1, <1>3, <1>4, <2>2 DEF PickType
  <2>4. CASE k.left \ {a} = {} /\ u # {}
    <3>1. picks'[p] = [k EXCEPT !.at = "weigh", !.left = {}, !.usable = u]
      BY <2>1, <2>4
    <3>2. QED
      BY <3>1, <1>3, <1>4 DEF PickType
  <2>5. CASE k.left \ {a} = {} /\ u = {}
    <3>1. k.usable = {} /\ IsCoolingDown(a, k.model)
      BY <2>1, <2>5
    <3>2. (k.cands \ k.left) \ k.usable \subseteq k.cooled /\ a \in k.cands
      BY <1>3, <2>1, <2>2 DEF PickInv, Narrowed, Seen
    <3>3. a \in k.cooled
      BY <1>3, <3>1, <3>2 DEF PickInv, Watched, IsCoolingDown
    <3>4. QED
      BY <1>1, <2>2, <2>5, <3>1, <3>2, <3>3
  <2>6. QED
    BY <2>3, <2>4, <2>5
<1>7. QED
  BY <1>5, <1>6

\* A pick answers a candidate that was free of cooldown at some moment of it,
\* and leaves the choice to the host only if each was cooling down at one.
THEOREM PicksAreJustified == SchedSpec => PickJustified
<1>1. ASSUME SchedInv, [SchedNext]_schedVars, NEW p \in Pickers, Placing(p), picks'[p] = NoPick
      PROVE  IF picks[p].at = "bind" THEN picks[p].answer \in picks[p].cands \cap picks[p].warm
             ELSE picks[p].cands \subseteq picks[p].cooled
  <2>1. picks[p].at # "idle" /\ picks'[p].at = "idle" /\ PickInv(picks[p])
    BY <1>1, NoPickType DEF Placing, SchedInv
  <2>2. Pick(p)
    BY <1>1, <2>1, OthersStay
  <2>3. picks \in [Pickers -> PickType]
    BY <1>1, TypeParts DEF SchedInv
  <2>4. CASE Scan(p) \/ FilterCooling(p)
    BY <1>1, <2>4, RefusalJustified
  <2>5. CASE Bind(p)
    BY <2>1, <2>5 DEF Bind, PickInv, Narrowed, Seen
  <2>6. CASE Arrive(p)
    BY <1>1, <2>6 DEF Arrive
  <2>7. CASE StickyGet(p) \/ StickyCheck(p) \/ Choose(p)
    <3>1. \E at \in {"check", "filter", "bind"} : picks'[p].at = at
      <4>1. picks[p] \in PickType
        BY <2>3
      <4>2. CASE StickyGet(p)
        <5>1. \E a : picks'[p] = [picks[p] EXCEPT !.at = "check", !.answer = a]
                     \/ picks'[p] = ToFilter(p)
          BY <2>3, <4>2 DEF StickyGet, Step
        <5>2. QED
          BY <4>1, <5>1 DEF ToFilter, PickType
      <4>3. CASE StickyCheck(p)
        <5>1. picks'[p] = [picks[p] EXCEPT !.at = "bind"] \/ picks'[p] = ToFilter(p)
          BY <2>3, <4>3 DEF StickyCheck, Step
        <5>2. QED
          BY <4>1, <5>1 DEF ToFilter, PickType
      <4>4. CASE Choose(p)
        <5>1. \E a : picks'[p] = [picks[p] EXCEPT !.at = "bind", !.usable = {}, !.answer = a]
          BY <2>3, <4>4 DEF Choose, Step
        <5>2. QED
          BY <4>1, <5>1 DEF PickType
      <4>5. QED
        BY <2>7, <4>2, <4>3, <4>4
    <3>2. QED
      BY <2>1, <3>1
  <2>8. QED
    BY <2>2, <2>4, <2>5, <2>6, <2>7 DEF Pick
<1>2. SchedInv /\ [SchedNext]_schedVars =>
        [\A p \in Pickers : Placing(p) /\ picks'[p] = NoPick =>
           IF picks[p].at = "bind" THEN picks[p].answer \in picks[p].cands \cap picks[p].warm
           ELSE picks[p].cands \subseteq picks[p].cooled]_schedVars
  BY <1>1
<1>3. QED
  BY <1>2, SchedulerInvariant, PTL DEF SchedSpec, PickJustified

----------------------------------------------------------------------------
\* The sticky map implements RecencyMap.
LEMMA BoundKeys ==
  ASSUME Sound(sticky)
  PROVE  /\ Recency!Bound = DOMAIN sticky.m
         /\ \A k, among : Recency!Newest(k, among) = NewestIn(OlderThan(sticky), k, among)
<1>1. \A k \in Keys : Bindings(sticky)[k] # NoAccount <=> k \in DOMAIN sticky.m
  BY StickyAssumption DEF Bindings, Sound, IsMap
<1>2. DOMAIN sticky.m \subseteq Keys
  BY DEF Sound, IsMap
<1>3. Recency!Bound = DOMAIN sticky.m
  BY <1>1, <1>2 DEF Recency!Bound
<1>4. \A k, among : Recency!Newest(k, among) = NewestIn(OlderThan(sticky), k, among)
  BY Zenon DEF Recency!Newest, NewestIn
<1>5. QED
  BY <1>3, <1>4

\* The instance counts as FiniteSets does.
LEMMA SameCardinality == ASSUME NEW S PROVE Recency!Cardinality(S) = Cardinality(S)
BY Zenon DEF Recency!Cardinality, Cardinality

\* A look at the map uses its key, if it is bound.
LEMMA LookIsUse ==
  ASSUME Sound(sticky), NEW k, sticky' = Get(sticky, k)
  PROVE  [Recency!Next]_(Recency!recencyVars)
<1>1. CASE k \notin DOMAIN sticky.m
  <2>1. sticky' = sticky
    BY <1>1 DEF Get
  <2>2. QED
    BY <2>1 DEF Recency!recencyVars
<1>2. CASE k \in DOMAIN sticky.m
  <2>1. /\ sticky'.m = sticky.m
        /\ OlderThan(sticky') = NewestIn(OlderThan(sticky), k, DOMAIN sticky.m)
    BY <1>2, GetSound
  <2>2. Bindings(sticky') = Bindings(sticky)
    BY <2>1 DEF Bindings
  <2>3. k \in Keys
    BY <1>2 DEF Sound, IsMap
  <2>4. Recency!Use(k)
    BY <1>2, <2>1, <2>2, BoundKeys DEF Recency!Use
  <2>5. QED
    BY <2>3, <2>4 DEF Recency!Next
<1>3. QED
  BY <1>1, <1>2

\* A binding binds its key, in the place of the oldest if there is no room.
LEMMA SetIsBind ==
  ASSUME Sound(sticky), NEW k \in Keys, NEW v \in Accounts, sticky' = Set(sticky, k, v)
  PROVE  Recency!Next
<1>1. PICK D : D = DOMAIN sticky.m
  OBVIOUS
<1>2. D \subseteq Keys /\ Cardinality(D) \in Nat
  BY <1>1, SoundNumbered, FS_CardinalityType
<1>3. CASE k \in D \/ Cardinality(D) < StickyMax
  <2>1. /\ sticky'.m = With(sticky.m, k, v)
        /\ OlderThan(sticky') = NewestIn(OlderThan(sticky), k, D \cup {k})
    BY <1>1, <1>3, SetKeeps
  <2>2. Bindings(sticky') = [Bindings(sticky) EXCEPT ![k] = v]
    BY <2>1 DEF Bindings, With
  <2>3. Recency!Bound = D /\ OlderThan(sticky') = Recency!Newest(k, D \cup {k})
    BY <1>1, <2>1, BoundKeys
  <2>4. Recency!Bind(k, v)
    BY <1>3, <2>2, <2>3, SameCardinality DEF Recency!Bind
  <2>5. QED
    BY <2>4 DEF Recency!Next
<1>4. CASE k \notin D /\ Cardinality(D) >= StickyMax
  <2>1. PICK o \in D :
          /\ \A x \in D \ {o} : <<o, x>> \in OlderThan(sticky)
          /\ sticky'.m = With(Less(sticky.m, o), k, v)
          /\ OlderThan(sticky') = NewestIn(OlderThan(sticky), k, (D \ {o}) \cup {k})
    BY <1>1, <1>4, SetReplaces
  <2>2. Bindings(sticky') = [Bindings(sticky) EXCEPT ![o] = NoAccount, ![k] = v]
    <3>1. PICK m : m = sticky'.m
      OBVIOUS
    <3>2. /\ DOMAIN m = (D \ {o}) \cup {k} /\ m[k] = v
          /\ \A x \in D \ {o} : m[x] = sticky.m[x]
      BY <1>1, <1>4, <2>1, <3>1 DEF With, Less
    <3>3. QED
      BY <1>1, <1>2, <1>4, <3>1, <3>2 DEF Bindings
  <2>3. /\ Recency!Bound = D
        /\ OlderThan(sticky') = Recency!Newest(k, (D \ {o}) \cup {k})
    BY <1>1, <2>1, BoundKeys
  <2>4. Recency!Replace(k, v)
    BY <1>4, <2>1, <2>2, <2>3, SameCardinality DEF Recency!Replace
  <2>5. QED
    BY <2>4 DEF Recency!Next
<1>5. QED
  BY <1>2, <1>3, <1>4, StickyAssumption

\* Refinement: a conversation's account is forgotten only for want of room, and
\* then it is the one whose last pick is the longest ago.
THEOREM StickyMapIsLRU == SchedSpec => ImplementsRecency
<1>1. SchedInit => Recency!Init
  <2>1. EmptyMap.m = [k \in {} |-> NoAccount] /\ EmptyMap.order = <<>> /\ DOMAIN <<>> = {}
    BY EmptySeq DEF EmptyMap
  <2>2. Bindings(EmptyMap) = [k \in Keys |-> NoAccount] /\ OlderThan(EmptyMap) = {}
    BY <2>1 DEF Bindings, OlderThan
  <2>3. QED
    BY <2>2 DEF SchedInit, Recency!Init
<1>2. ASSUME SchedInv, [SchedNext]_schedVars
      PROVE  [Recency!Next]_(Recency!recencyVars)
  <2>1. Sound(sticky)
    BY <1>2, TypeParts DEF SchedInv
  <2>2. CASE UNCHANGED sticky
    BY <2>2 DEF Recency!recencyVars
  <2>3. ASSUME NEW p \in Pickers, StickyGet(p)
        PROVE  [Recency!Next]_(Recency!recencyVars)
    <3>1. sticky' = Get(sticky, picks[p].key)
      BY <2>3 DEF StickyGet
    <3>2. QED
      BY <2>1, <3>1, LookIsUse
  <2>4. ASSUME NEW p \in Pickers, Bind(p), picks[p].key # NoKey
        PROVE  [Recency!Next]_(Recency!recencyVars)
    <3>1. sticky' = Set(sticky, picks[p].key, picks[p].answer) /\ picks[p].at = "bind"
      BY <2>4 DEF Bind
    <3>2. picks[p].key \in Keys /\ picks[p].answer \in Accounts
      <4>1. picks[p] \in PickType /\ PickInv(picks[p]) /\ picks[p].cands \subseteq Accounts
        BY <1>2, <3>1, PickHas DEF Placing
      <4>2. QED
        BY <2>4, <3>1, <4>1 DEF PickType, PickInv, Narrowed
    <3>3. QED
      BY <2>1, <3>1, <3>2, SetIsBind
  <2>5. ASSUME NEW p \in Pickers, Pick(p), ~StickyGet(p), ~(Bind(p) /\ picks[p].key # NoKey)
        PROVE  UNCHANGED sticky
    BY <2>5 DEF Pick, Arrive, Scan, StickyCheck, FilterCooling, Choose, Bind
  <2>6. ASSUME NEW a \in Accounts, QuotaFetched(a) \/ CreditsAge(a) \/
               \E model \in Models : ExecuteFails(a, model) \/ CooldownEnds(a, model)
        PROVE  UNCHANGED sticky
    BY <2>6 DEF QuotaFetched, CreditsAge, ExecuteFails, CooldownEnds
  <2>7. CASE UNCHANGED schedVars
    BY <2>2, <2>7 DEF schedVars
  <2>8. QED
    BY <1>2, <2>2, <2>3, <2>4, <2>5, <2>6, <2>7 DEF SchedNext
<1>3. QED
  BY <1>1, <1>2, SchedulerInvariant, PTL DEF SchedSpec, ImplementsRecency, Recency!Spec
=============================================================================
