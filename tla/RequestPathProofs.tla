------------------------- MODULE RequestPathProofs --------------------------
(***************************************************************************)
(* What RequestPath promises of a request, for all model lists and all     *)
(* histories: the ids an account offers lead back to their models, the     *)
(* reasoning effort fits, and what goes upstream is paired.  Lists are     *)
(* built and messages repacked by recursion; what those compute is proved  *)
(* by induction, as the absence of a least (or greatest) counterexample.   *)
(***************************************************************************)
EXTENDS RequestPath, Integers, FunctionTheorems, FiniteSetTheorems, SequenceTheorems,
        WellFoundedInduction, TLAPS

----------------------------------------------------------------------------
(***************************************************************************)
(* Least and greatest numbers                                              *)
(***************************************************************************)

\* A set of numbers that is not empty has a least one.
LEMMA Least ==
  ASSUME NEW T \in SUBSET Nat, T # {}
  PROVE  \E x \in T : \A y \in T : x <= y
<1>1. \E x \in T : \A y \in T : ~(<<y, x>> \in OpToRel(<, Nat))
  BY NatLessThanWellFounded, WFMin, Zenon
<1>2. PICK x \in T : \A y \in T : ~(<<y, x>> \in OpToRel(<, Nat))
  BY <1>1, Zenon
<1>3. \A y \in T : ~(y < x)
  <2>1. \A y \in T : y < x => <<y, x>> \in OpToRel(<, Nat)
    BY DEF OpToRel
  <2>2. QED
    BY <1>2, <2>1, Zenon
<1>4. QED
  BY <1>3

\* And a greatest, if none is above n.
LEMMA Greatest ==
  ASSUME NEW n \in Nat, NEW T \in SUBSET (0..n), T # {}
  PROVE  \E x \in T : \A y \in T : y <= x
<1> DEFINE R == {n - x : x \in T}
<1>1. R \in SUBSET Nat /\ R # {}
  <2>1. \A x \in T : n - x \in Nat
    OBVIOUS
  <2>2. PICK x \in T : n - x \in R
    OBVIOUS
  <2>3. QED
    BY <2>1, <2>2
<1> HIDE DEF R
<1>2. PICK r \in R : \A q \in R : r <= q
  BY <1>1, Least
<1>3. PICK x \in T : r = n - x
  BY DEF R
<1>4. \A y \in T : r <= n - y
  BY <1>2 DEF R
<1>5. QED
  BY <1>3, <1>4

----------------------------------------------------------------------------
(***************************************************************************)
(* Subsequences                                                            *)
(***************************************************************************)

\* The positions of a finite set are counted through in their order.
LEMMA Counted ==
  ASSUME NEW n \in Nat, NEW I \in SUBSET (1..n)
  PROVE  /\ Cardinality(I) \in Nat
         /\ \A k \in 1..Cardinality(I) : Nth(I, k) \in I
         /\ \A k, l \in 1..Cardinality(I) : k < l => Nth(I, k) < Nth(I, l)
         /\ \A i \in I : \E k \in 1..Cardinality(I) : Nth(I, k) = i
<1> DEFINE Upto(i) == {j \in I : j <= i}
           N == Cardinality(I)
           count == [i \in I |-> Cardinality(Upto(i))]
<1>1. IsFiniteSet(I) /\ N \in Nat
  <2>1. IsFiniteSet(1..n)
    BY FS_Interval
  <2>2. IsFiniteSet(I)
    BY <2>1, FS_Subset
  <2>3. QED
    BY <2>2, FS_CardinalityType
<1>2. ASSUME NEW i \in I
      PROVE  count[i] \in 1..N
  <2>1. Upto(i) \in SUBSET I /\ i \in Upto(i)
    OBVIOUS
  <2>2. IsFiniteSet(Upto(i)) /\ Cardinality(Upto(i)) <= N /\ Cardinality(Upto(i)) \in Nat
    BY <1>1, <2>1, FS_Subset, FS_CardinalityType
  <2>3. Cardinality(Upto(i)) # 0
    BY <2>1, <2>2, FS_EmptySet
  <2>4. QED
    BY <1>1, <2>2, <2>3
<1>3. ASSUME NEW i \in I, NEW j \in I, i < j
      PROVE  count[i] < count[j]
  <2>1. Upto(i) \in SUBSET Upto(j) /\ j \in Upto(j) /\ j \notin Upto(i)
    <3>1. i \in Int /\ j \in Int /\ \A k \in I : k \in Int
      OBVIOUS
    <3>2. \A k \in I : k <= i => k <= j
      BY <1>3, <3>1
    <3>3. Upto(i) \in SUBSET Upto(j)
      BY <3>2
    <3>4. j \in Upto(j) /\ ~(j <= i)
      BY <1>3, <3>1
    <3>5. QED
      BY <3>3, <3>4
  <2>2. IsFiniteSet(Upto(j)) /\ IsFiniteSet(Upto(i))
    BY <1>1, FS_Subset
  <2>3. /\ Cardinality(Upto(i)) <= Cardinality(Upto(j))
        /\ Cardinality(Upto(i)) # Cardinality(Upto(j))
    BY <2>1, <2>2, FS_Subset
  <2>4. Cardinality(Upto(i)) \in Nat /\ Cardinality(Upto(j)) \in Nat
    BY <2>2, FS_CardinalityType
  <2>5. QED
    BY <2>3, <2>4
<1> HIDE DEF count, N
<1>4. count \in Surjection(I, 1..N)
  <2>1. count \in [I -> 1..N]
    BY <1>2 DEF count
  <2>2. \A i, j \in I : count[i] = count[j] => i = j
    <3>1. SUFFICES ASSUME NEW i \in I, NEW j \in I, count[i] = count[j], i # j
                   PROVE  FALSE
      OBVIOUS
    <3>2. count[i] \in Nat /\ count[j] \in Nat /\ (i < j \/ j < i)
      BY <1>2, <3>1
    <3>3. QED
      BY <1>3, <3>1, <3>2
  <2>3. count \in Injection(I, 1..N)
    BY <2>1, <2>2 DEF Injection, IsInjective
  <2>4. IsFiniteSet(1..N) /\ Cardinality(1..N) = N
    BY <1>1, FS_Interval
  <2>5. QED
    BY <2>3, <2>4, FS_Injection DEF N
<1>5. \A k \in 1..N : \E i \in I : count[i] = k
  BY <1>4 DEF Surjection
<1>6. ASSUME NEW k \in 1..N
      PROVE  Nth(I, k) \in I /\ count[Nth(I, k)] = k
  <2>1. PICK i \in I : count[i] = k
    BY <1>5
  <2>2. Nth(I, k) = CHOOSE m \in I : count[m] = k
    BY DEF Nth, count
  <2>3. QED
    BY <2>1, <2>2
<1>7. ASSUME NEW k \in 1..N, NEW l \in 1..N, k < l
      PROVE  Nth(I, k) < Nth(I, l)
  <2>1. PICK i \in I, j \in I : i = Nth(I, k) /\ j = Nth(I, l) /\ count[i] = k /\ count[j] = l
    BY <1>6
  <2>2. i # j /\ ~(j < i)
    BY <1>3, <1>7, <2>1
  <2>3. QED
    BY <2>1, <2>2
<1>8. ASSUME NEW i \in I
      PROVE  \E k \in 1..N : Nth(I, k) = i
  <2>1. PICK k \in 1..N : k = count[i]
    BY <1>2
  <2>2. PICK j \in I : j = Nth(I, k) /\ count[j] = k
    BY <1>6
  <2>3. ~(i < j) /\ ~(j < i)
    BY <1>1, <1>3, <2>1, <2>2
  <2>4. QED
    BY <2>2, <2>3
<1>9. QED
  BY <1>1, <1>6, <1>7, <1>8 DEF N

\* What is kept of s are its elements at the positions I, in their order.
Embeds(p, t, s, I) ==
  /\ p \in [DOMAIN t -> I]
  /\ \A k \in DOMAIN t : t[k] = s[p[k]]
  /\ \A k, l \in DOMAIN t : k < l => p[k] < p[l]
  /\ \A i \in I : \E k \in DOMAIN t : p[k] = i

\* AtPositions keeps the elements at these positions, each once and in their order.
LEMMA Keeps ==
  ASSUME NEW S, NEW s \in Seq(S), NEW I \in SUBSET (DOMAIN s)
  PROVE  /\ AtPositions(s, I) \in Seq(S)
         /\ \E p : Embeds(p, AtPositions(s, I), s, I)
<1> DEFINE N == Cardinality(I)
           t == AtPositions(s, I)
           p == [k \in 1..N |-> Nth(I, k)]
<1>1. DOMAIN s = 1..Len(s) /\ Len(s) \in Nat /\ \A i \in DOMAIN s : s[i] \in S
  BY LenProperties, ElementOfSeq
<1>2. /\ N \in Nat
      /\ \A k \in 1..N : Nth(I, k) \in I
      /\ \A k, l \in 1..N : k < l => Nth(I, k) < Nth(I, l)
      /\ \A i \in I : \E k \in 1..N : Nth(I, k) = i
  <2>1. I \in SUBSET (1..Len(s))
    BY <1>1
  <2>2. QED
    BY <1>1, <2>1, Counted
<1> HIDE DEF N
<1>3. t \in [1..N -> S] /\ DOMAIN t = 1..N /\ \A k \in 1..N : t[k] = s[Nth(I, k)]
  BY <1>1, <1>2 DEF AtPositions, N
<1>4. t \in Seq(S)
  BY <1>2, <1>3, SeqDef
<1> HIDE DEF t
<1>5. Embeds(p, t, s, I)
  BY <1>2, <1>3 DEF Embeds
<1>6. QED
  BY <1>4, <1>5 DEF t

----------------------------------------------------------------------------
(***************************************************************************)
(* Model lists: what is parsed and merged                                  *)
(***************************************************************************)

\* The models a list is built from have an id, and neither id nor name begins
\* with the prefix.
Unprefixed == {text \in Text : text # <<>> => text[1] # Provider}
Usable ==
  {m \in ListedModel :
     m.id \in Unprefixed \ {<<>>} /\ m.name \in Unprefixed /\ m.efforts \subseteq EffortRanks}

DistinctIds(models) ==
  \A i, j \in DOMAIN models : models[i].id = models[j].id => i = j
Lists == {models \in Seq(Usable) : DistinctIds(models)}

\* Parsing leaves models that can be used.
LEMMA ParsedUsable ==
  ASSUME NEW list \in Catalogs
  PROVE  ParseConfigModels(list) \in Seq(Usable)
<1> DEFINE I == {i \in DOMAIN list : ~list[i].off}
           usable == AtPositions(list, I)
<1>1. list \in Seq(ListedModel)
  BY RegistryAssumption
<1>2. usable \in Seq(ListedModel) /\ \E p : Embeds(p, usable, list, I)
  BY <1>1, Keeps
<1>3. PICK p : Embeds(p, usable, list, I)
  BY <1>2
<1>4. \A i \in I : /\ list[i] \in ListedModel
                   /\ list[i].id # <<>> \/ list[i].name # <<>>
                   /\ \A text \in {list[i].id, list[i].name} : text # <<>> => text[1] # 0
                   /\ list[i].efforts \subseteq EffortRanks
  <2>1. \A i \in DOMAIN list : list[i] \in ListedModel
    BY <1>1, LenProperties, ElementOfSeq
  <2>2. QED
    BY <2>1, RegistryAssumption, PathAssumption
<1> HIDE DEF usable
<1>5. ASSUME NEW k \in DOMAIN usable
      PROVE  [usable[k] EXCEPT !.id = IdOf(usable[k])] \in Usable
  <2>1. PICK m : m = usable[k] /\ m = list[p[k]] /\ p[k] \in I
    BY <1>3 DEF Embeds
  <2>2. /\ m \in ListedModel /\ (m.id # <<>> \/ m.name # <<>>)
        /\ (m.id # <<>> => m.id[1] # 0) /\ (m.name # <<>> => m.name[1] # 0)
        /\ m.efforts \subseteq EffortRanks
    BY <1>4, <2>1
  <2>3. IdOf(m) \in Text /\ IdOf(m) # <<>> /\ IdOf(m)[1] # 0
    BY <2>2 DEF IdOf, ListedModel
  <2>4. QED
    BY <2>1, <2>2, <2>3 DEF Usable, Unprefixed, ListedModel, Provider
<1>6. DOMAIN usable = 1..Len(usable) /\ Len(usable) \in Nat
  BY <1>2, LenProperties
<1> DEFINE parsed == [i \in DOMAIN usable |-> [usable[i] EXCEPT !.id = IdOf(usable[i])]]
<1>7. parsed \in [1..Len(usable) -> Usable]
  BY <1>5, <1>6
<1>8. ParseConfigModels(list) = parsed
  BY DEF ParseConfigModels, usable
<1> HIDE DEF parsed
<1>9. QED
  BY <1>6, <1>7, <1>8, SeqDef

\* Merging lists never repeats an id.
LEMMA MergeDistinct ==
  ASSUME NEW merged \in Lists, NEW models \in Seq(Usable)
  PROVE  Merge(merged, models) \in Lists
<1> DEFINE fresh == {i \in DOMAIN models :
                       models[i].id \notin Ids(merged) \cup Ids(SubSeq(models, 1, i - 1))}
           added == AtPositions(models, fresh)
           both == merged \o added
<1>1. /\ DOMAIN models = 1..Len(models) /\ Len(models) \in Nat
      /\ \A i \in DOMAIN models : models[i] \in Usable
  BY LenProperties, ElementOfSeq
<1>2. added \in Seq(Usable) /\ \E p : Embeds(p, added, models, fresh)
  BY Keeps
<1>3. PICK p : Embeds(p, added, models, fresh)
  BY <1>2
<1>4. \A i \in fresh : \A j \in DOMAIN merged : merged[j].id # models[i].id
  BY DEF Ids
<1>5. ASSUME NEW i \in fresh, NEW j \in fresh, i < j
      PROVE  models[i].id # models[j].id
  <2>1. i \in 1..j - 1 /\ j - 1 \in Int /\ \A k \in 1..j - 1 : models[k] \in Usable
    BY <1>1, <1>5
  <2>2. /\ SubSeq(models, 1, j - 1) \in Seq(Usable)
        /\ Len(SubSeq(models, 1, j - 1)) = j - 1
        /\ SubSeq(models, 1, j - 1)[i] = models[i]
    BY <2>1, SubSeqProperties
  <2>3. i \in DOMAIN SubSeq(models, 1, j - 1)
    BY <2>1, <2>2, LenProperties
  <2>4. models[i].id \in Ids(SubSeq(models, 1, j - 1))
    BY <2>2, <2>3 DEF Ids
  <2>5. QED
    BY <2>4
<1> HIDE DEF fresh, added
<1>6. /\ merged \in Seq(Usable) /\ DistinctIds(merged) /\ DOMAIN merged = 1..Len(merged)
      /\ Len(merged) \in Nat
  BY LenProperties DEF Lists
<1>7. DOMAIN added = 1..Len(added) /\ Len(added) \in Nat
  BY <1>2, LenProperties
<1>8. /\ both \in Seq(Usable) /\ Len(both) = Len(merged) + Len(added)
      /\ DOMAIN both = 1..Len(merged) + Len(added)
      /\ \A i \in 1..Len(merged) + Len(added) :
           both[i] = IF i <= Len(merged) THEN merged[i] ELSE added[i - Len(merged)]
  BY <1>2, <1>6, <1>7, ConcatProperties, LenProperties
<1>9. \A k, l \in DOMAIN added : added[k].id = added[l].id => k = l
  <2>1. SUFFICES ASSUME NEW k \in DOMAIN added, NEW l \in DOMAIN added, k < l
                 PROVE  added[k].id # added[l].id
    BY <1>7
  <2>2. QED
    BY <1>3, <1>5, <2>1 DEF Embeds
<1>10. \A k \in DOMAIN added, j \in DOMAIN merged : added[k].id # merged[j].id
  BY <1>3, <1>4 DEF Embeds
<1> HIDE DEF both
<1>11. ASSUME NEW i \in DOMAIN both, NEW j \in DOMAIN both, i < j
       PROVE  both[i].id # both[j].id
  <2>1. CASE j <= Len(merged)
    <3>1. /\ i \in DOMAIN merged /\ j \in DOMAIN merged
          /\ both[i] = merged[i] /\ both[j] = merged[j]
      BY <1>6, <1>7, <1>8, <1>11, <2>1
    <3>2. QED
      BY <1>6, <1>8, <1>11, <3>1 DEF DistinctIds
  <2>2. CASE i <= Len(merged) /\ ~(j <= Len(merged))
    <3>1. /\ i \in DOMAIN merged /\ j - Len(merged) \in DOMAIN added
          /\ both[i] = merged[i] /\ both[j] = added[j - Len(merged)]
      BY <1>6, <1>7, <1>8, <1>11, <2>2
    <3>2. QED
      BY <1>10, <3>1
  <2>3. CASE ~(i <= Len(merged))
    <3>1. i \in 1..Len(merged) + Len(added) /\ j \in 1..Len(merged) + Len(added)
      BY <1>8
    <3>2. /\ i - Len(merged) \in 1..Len(added) /\ j - Len(merged) \in 1..Len(added)
          /\ i - Len(merged) # j - Len(merged) /\ ~(j <= Len(merged))
      BY <1>6, <1>7, <1>11, <2>3, <3>1
    <3>3. both[i] = added[i - Len(merged)] /\ both[j] = added[j - Len(merged)]
      BY <1>8, <2>3, <3>1, <3>2
    <3>4. QED
      BY <1>7, <1>9, <3>2, <3>3
  <2>4. QED
    BY <1>6, <1>7, <1>8, <2>1, <2>2, <2>3
<1>12. DistinctIds(both)
  <2>1. SUFFICES ASSUME NEW i \in DOMAIN both, NEW j \in DOMAIN both,
                        both[i].id = both[j].id, i # j
                 PROVE  FALSE
    BY DEF DistinctIds
  <2>2. i < j \/ j < i
    BY <1>6, <1>7, <1>8, <2>1
  <2>3. QED
    BY <1>11, <2>1, <2>2
<1>13. Merge(merged, models) = both
  BY DEF Merge, fresh, added, both
<1>14. QED
  BY <1>8, <1>12, <1>13 DEF Lists

----------------------------------------------------------------------------
(***************************************************************************)
(* Public ids                                                              *)
(***************************************************************************)

\* The public ids: the prefix and a text without one.
Publics == {PublicModelID(text) : text \in Unprefixed \ {<<>>}}

\* The shape of a public id.
LEMMA PublicShape ==
  ASSUME NEW text \in Text
  PROVE  /\ PublicModelID(text) \in Seq(Nat)
         /\ Len(PublicModelID(text)) = Len(text) + 1
         /\ PublicModelID(text)[1] = Provider
         /\ \A i \in 1..Len(text) : PublicModelID(text)[i + 1] = text[i]
         /\ Tail(PublicModelID(text)) = text
<1> DEFINE prefix == <<Provider>>
<1>1. prefix \in Seq(Nat) /\ Len(prefix) = 1 /\ prefix[1] = Provider
  BY DEF Provider
<1>2. text \in Seq(Nat) /\ Len(text) \in Nat /\ DOMAIN text = 1..Len(text)
  BY LenProperties DEF Text
<1> HIDE DEF prefix
<1> DEFINE both == prefix \o text
<1>3. /\ both \in Seq(Nat) /\ Len(both) = Len(text) + 1
      /\ \A i \in 1..Len(text) + 1 : both[i] = IF i <= 1 THEN prefix[i] ELSE text[i - 1]
  <2>1. /\ both \in Seq(Nat) /\ Len(both) = Len(prefix) + Len(text)
        /\ \A i \in 1..Len(prefix) + Len(text) :
             both[i] = IF i <= Len(prefix) THEN prefix[i] ELSE text[i - Len(prefix)]
    BY <1>1, <1>2, ConcatProperties
  <2>2. Len(prefix) + Len(text) = Len(text) + 1
    BY <1>1, <1>2
  <2> HIDE DEF both
  <2>3. QED
    BY <1>1, <2>1, <2>2
<1> HIDE DEF both
<1>4. both[1] = Provider
  <2>1. 1 \in 1..Len(text) + 1 /\ 1 <= 1
    BY <1>2
  <2>2. QED
    BY <1>1, <1>3, <2>1
<1>5. ASSUME NEW i \in 1..Len(text)
      PROVE  both[i + 1] = text[i]
  <2>1. i + 1 \in 1..Len(text) + 1 /\ ~(i + 1 <= 1) /\ (i + 1) - 1 = i
    BY <1>2
  <2>2. QED
    BY <1>3, <2>1
<1>6. both # <<>>
  BY <1>2, <1>3
<1>7. /\ Tail(both) \in Seq(Nat) /\ Len(Tail(both)) = Len(text)
      /\ \A i \in 1..Len(text) : Tail(both)[i] = text[i]
  <2>1. /\ Tail(both) \in Seq(Nat)
        /\ Len(Tail(both)) = Len(both) - 1
        /\ \A i \in 1..Len(Tail(both)) : Tail(both)[i] = both[i + 1]
    BY <1>3, <1>6, HeadTailProperties
  <2>2. Len(Tail(both)) = Len(text)
    BY <1>2, <1>3, <2>1
  <2>3. QED
    BY <1>5, <2>1, <2>2
<1>8. Tail(both) = text
  BY <1>2, <1>7, SeqEqual
<1>9. PublicModelID(text) = both
  BY DEF PublicModelID, both, prefix
<1>10. QED
  BY <1>3, <1>4, <1>5, <1>8, <1>9

\* Some suffix leads to a public id that is not taken, and there is a first one.
LEMMA FreeSuffix ==
  ASSUME NEW id \in Text, NEW D, IsFiniteSet(D)
  PROVE  \E n \in 2..Cardinality(D) + 2 :
           /\ PublicModelID(Append(id, n)) \notin D
           /\ \A k \in 2..n - 1 : PublicModelID(Append(id, k)) \in D
<1> DEFINE N == Cardinality(D)
           f == [n \in 2..N + 2 |-> PublicModelID(Append(id, n))]
<1>1. N \in Nat
  BY FS_CardinalityType
<1>2. ASSUME NEW k \in Nat
      PROVE  /\ Append(id, k) \in Text /\ Len(Append(id, k)) = Len(id) + 1
             /\ Append(id, k)[Len(id) + 1] = k
  BY AppendProperties DEF Text
<1>3. \A k, l \in Nat : PublicModelID(Append(id, k)) = PublicModelID(Append(id, l)) => k = l
  <2>1. \A k \in Nat : Tail(PublicModelID(Append(id, k))) = Append(id, k)
    BY <1>2, PublicShape
  <2>2. \A k, l \in Nat : PublicModelID(Append(id, k)) = PublicModelID(Append(id, l))
                            => Append(id, k) = Append(id, l)
    BY <2>1
  <2>3. QED
    BY <1>2, <2>2
<1> HIDE DEF N
<1>4. \A n \in 2..N + 2 : f[n] = PublicModelID(Append(id, n)) /\ n \in Nat
  BY <1>1
<1>5. \E n \in 2..N + 2 : f[n] \notin D
  <2>1. SUFFICES ASSUME \A n \in 2..N + 2 : f[n] \in D
                 PROVE  FALSE
    OBVIOUS
  <2>2. f \in [2..N + 2 -> D]
    BY <2>1
  <2>3. IsFiniteSet(2..N + 2) /\ Cardinality(2..N + 2) = N + 1
    BY <1>1, FS_Interval
  <2>4. Cardinality(D) < Cardinality(2..N + 2)
    BY <1>1, <2>3 DEF N
  <2> HIDE DEF f
  <2>5. \E k, l \in 2..N + 2 : k # l /\ f[k] = f[l]
    BY <2>2, <2>3, <2>4, FS_PigeonHole
  <2>6. QED
    BY <1>3, <1>4, <2>5
<1> DEFINE T == {n \in 2..N + 2 : f[n] \notin D}
<1>6. T \in SUBSET Nat /\ T # {}
  BY <1>1, <1>5
<1>7. PICK n \in T : \A k \in T : n <= k
  BY <1>6, Least
<1>8. n \in 2..N + 2 /\ \A k \in 2..n - 1 : k \in 2..N + 2 /\ ~(n <= k)
  BY <1>1, <1>7
<1>9. \A k \in 2..n - 1 : f[k] \in D
  BY <1>7, <1>8
<1> HIDE DEF f
<1>10. f[n] \notin D
  BY <1>7
<1>11. /\ f[n] = PublicModelID(Append(id, n))
       /\ \A k \in 2..n - 1 : f[k] = PublicModelID(Append(id, k))
  BY <1>4, <1>8
<1>12. PublicModelID(Append(id, n)) \notin D
  BY <1>10, <1>11
<1>13. \A k \in 2..n - 1 : PublicModelID(Append(id, k)) \in D
  BY <1>9, <1>11
<1>14. QED
  BY <1>8, <1>12, <1>13 DEF N

\* A model that is not in the mapping yet gets a public id that is not taken.
LEMMA PublicIsFree ==
  ASSUME NEW m \in Usable, NEW mapping, IsFiniteSet(DOMAIN mapping),
         \A p \in DOMAIN mapping : mapping[p] # m.id
  PROVE  UniquePublicModelID(m, mapping) \in Publics \ DOMAIN mapping
<1> DEFINE Suffixed(n) == PublicModelID(Append(m.id, n))
           n == CHOOSE k \in 2..Cardinality(DOMAIN mapping) + 2 :
                  Suffixed(k) \notin DOMAIN mapping /\ \A j \in 2..k - 1 : ~(Suffixed(j) \notin DOMAIN mapping)
<1>1. /\ m.id \in Text /\ m.id # <<>> /\ m.id[1] # Provider /\ m.name \in Text
      /\ m.name # <<>> => m.name[1] # Provider
  BY DEF Usable, Unprefixed
<1>2. PublicModelID(DisplayNameForModel(m)) \in Publics /\ PublicModelID(m.id) \in Publics
  BY <1>1 DEF DisplayNameForModel, Publics, Unprefixed
<1>3. \E k \in 2..Cardinality(DOMAIN mapping) + 2 :
        Suffixed(k) \notin DOMAIN mapping /\ \A j \in 2..k - 1 : ~(Suffixed(j) \notin DOMAIN mapping)
  BY <1>1, FreeSuffix
<1>4. n \in 2..Cardinality(DOMAIN mapping) + 2 /\ Suffixed(n) \notin DOMAIN mapping
  BY <1>3
<1>5. Suffixed(n) \in Publics
  <2>1. n \in Nat
    BY <1>4, FS_CardinalityType
  <2> HIDE DEF n
  <2>2. m.id \in Seq(Nat) /\ Len(m.id) \in Nat /\ Len(m.id) # 0
    BY <1>1, LenProperties, EmptySeq DEF Text
  <2>3. /\ Append(m.id, n) \in Seq(Nat) /\ Append(m.id, n) # <<>>
        /\ Append(m.id, n)[1] = m.id[1]
    <3>1. 1 \in 1..Len(m.id)
      BY <2>2
    <3>2. QED
      BY <2>1, <2>2, <3>1, AppendProperties
  <2>4. Append(m.id, n) \in Unprefixed \ {<<>>}
    BY <1>1, <2>2, <2>3 DEF Unprefixed, Text
  <2>5. QED
    BY <2>4 DEF Publics
<1>6. UniquePublicModelID(m, mapping) \in
        {p \in {PublicModelID(DisplayNameForModel(m)), PublicModelID(m.id)} :
           p \notin DOMAIN mapping \/ mapping[p] = m.id} \cup {Suffixed(n)}
  BY DEF UniquePublicModelID
<1> HIDE DEF Suffixed, n
<1>7. QED
  BY <1>2, <1>4, <1>5, <1>6

----------------------------------------------------------------------------
(***************************************************************************)
(* The build of a list                                                     *)
(***************************************************************************)

Entry == [public : Publics, model : Usable]

\* b is what the first n models of a list make, under the public ids pub.
Builds(models, n, b, pub) ==
  /\ pub \in [1..n -> Publics]
  /\ \A i, j \in 1..n : pub[i] = pub[j] => i = j
  /\ b.entries = [i \in 1..n |-> [public |-> pub[i], model |-> models[i]]]
  /\ DOMAIN b.mapping = {pub[i] : i \in 1..n}
  /\ \A i \in 1..n : b.mapping[pub[i]] = models[i].id

\* The elements of a list of models.
LEMMA ListElements ==
  ASSUME NEW models \in Lists
  PROVE  /\ models \in Seq(Usable) /\ Len(models) \in Nat /\ DOMAIN models = 1..Len(models)
         /\ \A i \in 1..Len(models) : models[i] \in Usable
         /\ \A i, j \in 1..Len(models) : models[i].id = models[j].id => i = j
BY LenProperties, ElementOfSeq DEF Lists, DistinctIds

\* The next model joins the build.
LEMMA BuildsOn ==
  ASSUME NEW models \in Lists, NEW n \in Nat, n + 1 <= Len(models),
         NEW b, NEW pub, Builds(models, n, b, pub)
  PROVE  \E new : Builds(models, n + 1, AddEntry(b, models[n + 1]), new)
<1> DEFINE m == models[n + 1]
           public == UniquePublicModelID(m, b.mapping)
           new == [i \in 1..n + 1 |-> IF i = n + 1 THEN public ELSE pub[i]]
           after == AddEntry(b, m)
           before == [i \in 1..n |-> [public |-> pub[i], model |-> models[i]]]
           all == [i \in 1..n + 1 |-> [public |-> new[i], model |-> models[i]]]
<1>1. /\ m \in Usable /\ \A i \in 1..n : models[i] \in Usable /\ models[i].id # m.id
      /\ n + 1 \in 1..n + 1 /\ \A i \in 1..n : i \in 1..n + 1 /\ i # n + 1
      /\ \A i \in 1..n + 1 : i = n + 1 \/ i \in 1..n
  <2>1. n + 1 \in 1..Len(models) /\ \A i \in 1..n : i \in 1..Len(models) /\ i # n + 1
    BY ListElements
  <2>2. QED
    BY <2>1, ListElements
<1>2. /\ pub \in [1..n -> Publics]
      /\ \A i, j \in 1..n : pub[i] = pub[j] => i = j
      /\ b.entries = before
      /\ DOMAIN b.mapping = {pub[i] : i \in 1..n}
      /\ \A i \in 1..n : b.mapping[pub[i]] = models[i].id
  BY DEF Builds
<1>3. public \in Publics /\ public \notin DOMAIN b.mapping
  <2>1. IsFiniteSet(DOMAIN b.mapping)
    <3>1. IsFiniteSet(1..n)
      BY FS_Interval
    <3>2. pub \in Surjection(1..n, DOMAIN b.mapping)
      BY <1>2 DEF Surjection
    <3>3. QED
      BY <3>1, <3>2, FS_Surjection
  <2>2. \A p \in DOMAIN b.mapping : b.mapping[p] # m.id
    BY <1>1, <1>2
  <2>3. QED
    BY <1>1, <2>1, <2>2, PublicIsFree
<1>4. after.mapping = [p \in DOMAIN b.mapping \cup {public} |->
                         IF p = public THEN m.id ELSE b.mapping[p]]
      /\ after.entries = Append(b.entries, [public |-> public, model |-> m])
  BY DEF AddEntry
<1> HIDE DEF public, after, m
<1>5. new \in [1..n + 1 -> Publics]
  BY <1>1, <1>2, <1>3
<1>6. new[n + 1] = public /\ \A i \in 1..n : new[i] = pub[i]
  BY <1>1
<1> HIDE DEF new
<1>7. DOMAIN after.mapping = {new[i] : i \in 1..n + 1}
  BY <1>1, <1>2, <1>4, <1>6
<1>8. \A i, j \in 1..n + 1 : new[i] = new[j] => i = j
  <2>1. \A i \in 1..n : new[i] # new[n + 1]
    BY <1>2, <1>3, <1>6
  <2>2. \A i, j \in 1..n : new[i] = new[j] => i = j
    BY <1>2, <1>6
  <2>3. QED
    BY <1>1, <2>1, <2>2
<1>9. \A i \in 1..n + 1 : after.mapping[new[i]] = models[i].id
  <2>1. after.mapping[new[n + 1]] = models[n + 1].id
    BY <1>4, <1>6 DEF m
  <2>2. \A i \in 1..n : new[i] \in DOMAIN b.mapping /\ new[i] # public
    BY <1>2, <1>3, <1>6
  <2>3. \A i \in 1..n : after.mapping[new[i]] = models[i].id
    BY <1>2, <1>4, <1>6, <2>2
  <2>4. QED
    BY <1>1, <2>1, <2>3
<1>10. after.entries = all
  <2>1. before \in Seq(Entry) /\ Len(before) = n
    <3>1. before \in [1..n -> Entry]
      BY <1>1, <1>2 DEF Entry
    <3>2. QED
      BY <3>1, SeqDef, LenProperties
  <2>2. all \in Seq(Entry) /\ Len(all) = n + 1
    <3>1. all \in [1..n + 1 -> Entry]
      BY <1>1, <1>5 DEF Entry, m
    <3>2. n + 1 \in Nat
      OBVIOUS
    <3> HIDE DEF all
    <3>3. QED
      BY <3>1, <3>2, SeqDef, LenProperties
  <2>3. /\ \A i \in 1..n : before[i] = [public |-> pub[i], model |-> models[i]]
        /\ \A i \in 1..n + 1 : all[i] = [public |-> new[i], model |-> models[i]]
    OBVIOUS
  <2> DEFINE last == [public |-> public, model |-> m]
  <2>4. last \in Entry
    BY <1>1, <1>3 DEF Entry
  <2>5. last = all[n + 1]
    BY <1>1, <1>6, <2>3 DEF m
  <2>6. \A i \in 1..n : before[i] = all[i]
    BY <1>1, <1>6, <2>3
  <2> HIDE DEF before, all, last
  <2> DEFINE longer == Append(before, last)
  <2>7. /\ longer \in Seq(Entry) /\ Len(longer) = n + 1
        /\ \A i \in 1..n : longer[i] = before[i]
    BY <2>1, <2>4, AppendProperties
  <2>8. longer[n + 1] = last
    BY <2>1, <2>4, AppendProperties
  <2>9. \A i \in 1..n + 1 : longer[i] = all[i]
    BY <1>1, <2>5, <2>6, <2>7, <2>8
  <2> HIDE DEF longer
  <2>10. longer = all
    BY <2>2, <2>7, <2>9, SeqEqual
  <2>11. QED
    BY <1>2, <1>4, <2>10 DEF longer, last
<1>11. Builds(models, n + 1, after, new)
  BY <1>5, <1>7, <1>8, <1>9, <1>10 DEF Builds
<1>12. QED
  BY <1>11 DEF after, m

\* What a recursive definition over the first k models has to satisfy.
Folds(models, k, f) ==
  f = [n \in 0..k |-> IF n = 0 THEN NoEntries ELSE AddEntry(f[n - 1], models[n])]

\* Such a function exists for each list.
LEMMA BuiltExists ==
  ASSUME NEW models, NEW n \in Nat
  PROVE  \E f : Folds(models, n, f)
<1> DEFINE T == {k \in Nat : ~\E f : Folds(models, k, f)}
<1>1. SUFFICES ASSUME T # {}
               PROVE  FALSE
  OBVIOUS
<1>2. PICK k \in T : \A l \in T : k <= l
  BY <1>1, Least
<1>3. CASE k = 0
  <2> DEFINE f == [i \in 0..0 |-> NoEntries]
  <2>1. Folds(models, 0, f)
    BY DEF Folds
  <2>2. QED
    BY <1>2, <1>3, <2>1
<1>4. CASE k # 0
  <2>1. k - 1 \in Nat /\ k \in Nat /\ ~(k <= k - 1)
    BY <1>4
  <2>2. PICK f : Folds(models, k - 1, f)
    BY <1>2, <2>1
  <2> DEFINE g == [i \in 0..k |-> IF i = k THEN AddEntry(f[k - 1], models[k]) ELSE f[i]]
             h == [i \in 0..k |-> IF i = 0 THEN NoEntries ELSE AddEntry(g[i - 1], models[i])]
  <2>3. \A i \in 0..k - 1 : f[i] = IF i = 0 THEN NoEntries ELSE AddEntry(f[i - 1], models[i])
    BY <2>2 DEF Folds
  <2>4. /\ 0 \in 0..k - 1 /\ \A i \in 0..k : i = k \/ i \in 0..k - 1
        /\ \A i \in 0..k : i # 0 => i - 1 \in 0..k /\ i - 1 # k
        /\ \A i \in 0..k - 1 : i \in 0..k /\ i # k
    BY <2>1, <1>4
  <2>5. \A i \in 0..k : i # 0 => g[i - 1] = f[i - 1]
    BY <2>4
  <2>6. g[k] = AddEntry(f[k - 1], models[k]) /\ \A i \in 0..k - 1 : g[i] = f[i]
    BY <2>1, <2>4
  <2>7. ASSUME NEW i \in 0..k
        PROVE  g[i] = h[i]
    <3>1. h[i] = IF i = 0 THEN NoEntries ELSE AddEntry(g[i - 1], models[i])
      OBVIOUS
    <3> HIDE DEF g, h
    <3>2. CASE i = k
      BY <1>4, <2>5, <2>6, <3>1, <3>2
    <3>3. CASE i \in 0..k - 1
      BY <2>3, <2>5, <2>6, <3>1, <3>3
    <3>4. QED
      BY <2>4, <3>2, <3>3
  <2>8. g = h
    <3>1. g = [i \in 0..k |-> g[i]] /\ h = [i \in 0..k |-> h[i]]
      OBVIOUS
    <3> HIDE DEF g, h
    <3>2. QED
      BY <2>7, <3>1
  <2>9. Folds(models, k, g)
    BY <2>8 DEF Folds
  <2>10. QED
    BY <1>2, <2>9
<1>5. QED
  BY <1>3, <1>4

\* Each step of the recursion adds one model to the build.
LEMMA FoldsBuild ==
  ASSUME NEW models \in Lists, NEW f, Folds(models, Len(models), f)
  PROVE  \A n \in 0..Len(models) : \E pub : Builds(models, n, f[n], pub)
<1> DEFINE T == {n \in 0..Len(models) : ~\E pub : Builds(models, n, f[n], pub)}
<1>1. SUFFICES ASSUME T # {}
               PROVE  FALSE
  OBVIOUS
<1>2. Len(models) \in Nat
  BY ListElements
<1>3. T \in SUBSET Nat
  BY <1>2
<1>4. PICK n \in T : \A k \in T : n <= k
  BY <1>1, <1>3, Least
<1>5. \A i \in 0..Len(models) : f[i] = IF i = 0 THEN NoEntries ELSE AddEntry(f[i - 1], models[i])
  BY DEF Folds
<1>6. CASE n = 0
  <2> DEFINE pub == [i \in 1..0 |-> <<>>]
  <2>1. f[0] = NoEntries
    BY <1>2, <1>5
  <2>2. Builds(models, 0, f[0], pub)
    BY <2>1 DEF Builds, NoEntries
  <2>3. QED
    BY <1>4, <1>6, <2>2
<1>7. CASE n # 0
  <2>1. /\ n - 1 \in Nat /\ (n - 1) + 1 = n /\ n <= Len(models) /\ n - 1 \in 0..Len(models)
        /\ ~(n <= n - 1)
    BY <1>2, <1>4, <1>7
  <2>2. PICK pub : Builds(models, n - 1, f[n - 1], pub)
    BY <1>4, <2>1
  <2>3. PICK new : Builds(models, (n - 1) + 1, AddEntry(f[n - 1], models[(n - 1) + 1]), new)
    BY <2>1, <2>2, BuildsOn
  <2>4. f[n] = AddEntry(f[n - 1], models[n])
    BY <1>4, <1>5, <1>7
  <2>5. QED
    BY <1>4, <2>1, <2>3, <2>4
<1>8. QED
  BY <1>6, <1>7

IsBuild(b) == \E models \in Lists : \E pub : Builds(models, Len(models), b, pub)

\* FilterAndBuild is such a build.
LEMMA FilterBuilds ==
  ASSUME NEW models \in Lists
  PROVE  IsBuild(FilterAndBuild(models))
<1> DEFINE built == CHOOSE f : Folds(models, Len(models), f)
<1>1. Len(models) \in Nat
  BY ListElements
<1>2. Folds(models, Len(models), built)
  BY <1>1, BuiltExists
<1>3. FilterAndBuild(models) = built[Len(models)]
  BY DEF FilterAndBuild, Folds
<1> HIDE DEF built
<1>4. \E pub : Builds(models, Len(models), built[Len(models)], pub)
  BY <1>1, <1>2, FoldsBuild
<1>5. QED
  BY <1>3, <1>4 DEF IsBuild

\* What is stored of a build: each public id leads to one model, with its levels.
LEMMA RecordsOfBuild ==
  ASSUME NEW b, IsBuild(b)
  PROVE  LET bucket == Records(b)
         IN /\ b.entries \in Seq(Entry)
            /\ \A i, j \in DOMAIN b.entries : b.entries[i].public = b.entries[j].public => i = j
            /\ \A i \in DOMAIN b.entries :
                 /\ b.entries[i].public \in DOMAIN bucket
                 /\ bucket[b.entries[i].public] = [internal |-> b.entries[i].model.id,
                                                  efforts |-> b.entries[i].model.efforts]
            /\ \A p \in DOMAIN bucket : \E i \in DOMAIN b.entries : p = b.entries[i].public
            /\ \A i, j \in DOMAIN b.entries : b.entries[i].model.id = b.entries[j].model.id => i = j
<1>0. PICK models \in Lists : \E pub : Builds(models, Len(models), b, pub)
  BY DEF IsBuild
<1>1. PICK pub : Builds(models, Len(models), b, pub)
  BY <1>0
<1> DEFINE n == Len(models)
           bucket == Records(b)
<1>2. /\ n \in Nat
      /\ \A i \in 1..n : models[i] \in Usable
      /\ \A i, j \in 1..n : models[i].id = models[j].id => i = j
  BY ListElements
<1>3. /\ pub \in [1..n -> Publics]
      /\ \A i, j \in 1..n : pub[i] = pub[j] => i = j
      /\ b.entries = [i \in 1..n |-> [public |-> pub[i], model |-> models[i]]]
      /\ DOMAIN b.mapping = {pub[i] : i \in 1..n}
      /\ \A i \in 1..n : b.mapping[pub[i]] = models[i].id
  BY <1>1 DEF Builds
<1> HIDE DEF n
<1>4. b.entries \in Seq(Entry)
  <2>1. b.entries \in [1..n -> Entry]
    BY <1>2, <1>3 DEF Entry
  <2>2. QED
    BY <1>2, <2>1, SeqDef
<1>5. /\ DOMAIN b.entries = 1..n
      /\ \A i \in 1..n : b.entries[i].public = pub[i] /\ b.entries[i].model = models[i]
  BY <1>3
<1> DEFINE E == {b.entries[i] : i \in DOMAIN b.entries}
<1>6. /\ DOMAIN bucket = DOMAIN b.mapping
      /\ \A p \in DOMAIN b.mapping :
           bucket[p] = [internal |-> b.mapping[p],
                        efforts |-> (CHOOSE e \in E : e.public = p).model.efforts]
  BY DEF Records
<1>7. ASSUME NEW i \in 1..n
      PROVE  (CHOOSE e \in E : e.public = pub[i]) = b.entries[i]
  <2>1. b.entries[i] \in E /\ b.entries[i].public = pub[i]
    BY <1>5
  <2>2. \A e \in E : e.public = pub[i] => e = b.entries[i]
    BY <1>3, <1>5
  <2> HIDE DEF E
  <2>3. QED
    BY <2>1, <2>2
<1> HIDE DEF bucket, E
<1>8. \A i \in 1..n : /\ pub[i] \in DOMAIN bucket
                      /\ bucket[pub[i]] = [internal |-> models[i].id, efforts |-> models[i].efforts]
  BY <1>3, <1>5, <1>6, <1>7
<1>9. \A p \in DOMAIN bucket : \E i \in 1..n : p = pub[i]
  BY <1>3, <1>6
<1>10. QED
  BY <1>2, <1>3, <1>4, <1>5, <1>8, <1>9 DEF bucket

----------------------------------------------------------------------------
(***************************************************************************)
(* The registry: what is stored for an account leads back                  *)
(***************************************************************************)

IsBucket(bucket) == \E b : IsBuild(b) /\ bucket = Records(b)

\* What an account's bucket holds.
LEMMA BucketShape ==
  ASSUME NEW bucket, IsBucket(bucket)
  PROVE  /\ \A p \in DOMAIN bucket :
              /\ p \in Publics /\ bucket[p].internal \in Text \ {<<>>}
              /\ bucket[p].efforts \subseteq EffortRanks
         /\ \A p, q \in DOMAIN bucket : bucket[p].internal = bucket[q].internal => p = q
<1>1. PICK b : IsBuild(b) /\ bucket = Records(b)
  BY DEF IsBucket
<1> DEFINE entries == b.entries
<1>2. /\ entries \in Seq(Entry)
      /\ \A i \in DOMAIN entries :
           bucket[entries[i].public] = [internal |-> entries[i].model.id,
                                        efforts |-> entries[i].model.efforts]
      /\ \A p \in DOMAIN bucket : \E i \in DOMAIN entries : p = entries[i].public
      /\ \A i, j \in DOMAIN entries : entries[i].model.id = entries[j].model.id => i = j
  BY <1>1, RecordsOfBuild
<1> HIDE DEF entries
<1>3. \A i \in DOMAIN entries : entries[i].public \in Publics /\ entries[i].model \in Usable
  <2>1. \A i \in DOMAIN entries : entries[i] \in Entry
    BY <1>2, ElementOfSeq, LenProperties
  <2>2. QED
    BY <2>1 DEF Entry
<1>4. \A m \in Usable : m.id \in Text \ {<<>>} /\ m.efforts \subseteq EffortRanks
  BY DEF Usable, Unprefixed
<1>5. ASSUME NEW p \in DOMAIN bucket
      PROVE  \E i \in DOMAIN entries :
               /\ p = entries[i].public
               /\ bucket[p].internal = entries[i].model.id
               /\ bucket[p].efforts = entries[i].model.efforts
  <2>1. PICK i \in DOMAIN entries : p = entries[i].public
    BY <1>2
  <2>2. bucket[p] = [internal |-> entries[i].model.id, efforts |-> entries[i].model.efforts]
    BY <1>2, <2>1
  <2>3. QED
    BY <2>1, <2>2
<1>6. ASSUME NEW p \in DOMAIN bucket
      PROVE  /\ p \in Publics /\ bucket[p].internal \in Text \ {<<>>}
             /\ bucket[p].efforts \subseteq EffortRanks
  BY <1>3, <1>4, <1>5
<1>7. ASSUME NEW p \in DOMAIN bucket, NEW q \in DOMAIN bucket,
             bucket[p].internal = bucket[q].internal
      PROVE  p = q
  <2>1. \A i, j \in DOMAIN entries : entries[i].model.id = entries[j].model.id => i = j
    BY <1>2
  <2>2. QED
    BY <1>5, <1>7, <2>1
<1>8. QED
  BY <1>6, <1>7

\* Both forms of a public id find its record.
LEMMA Finds ==
  ASSUME NEW bucket, NEW p \in DOMAIN bucket,
         \A q \in DOMAIN bucket : q \in Publics /\ bucket[q].internal # <<>>
  PROVE  Lookup(bucket, p) = bucket[p] /\ Lookup(bucket, Tail(p)) = bucket[p]
<1>1. PICK text \in Unprefixed \ {<<>>} : p = PublicModelID(text)
  BY DEF Publics
<1>2. text \in Text /\ text # <<>> /\ text[1] # Provider
  BY <1>1 DEF Unprefixed
<1>3. p[1] = Provider /\ Tail(p) = text
  BY <1>1, <1>2, PublicShape
<1>4. text \notin DOMAIN bucket
  <2>1. \A q \in Publics : q[1] = Provider
    BY PublicShape DEF Publics, Unprefixed
  <2>2. QED
    BY <1>2, <2>1
<1>5. Lookup(bucket, p) = bucket[p]
  BY DEF Lookup, RecordAt
<1>6. Lookup(bucket, text) = RecordAt(bucket, p)
  BY <1>1, <1>2, <1>4 DEF Lookup, RecordAt, NoRecord, OtherForm
<1>7. QED
  BY <1>3, <1>5, <1>6 DEF RecordAt

FetchRec == [at : {"idle", "asking", "stored"}, page : BOOLEAN, auth : Auths, asked : Nat,
             ok : Nat, merged : Lists, entries : Seq(Entry)]

\* The entries and the bucket are of one build.
Match(entries, bucket) == \E b : IsBuild(b) /\ bucket = Records(b) /\ entries = b.entries

\* f is to offer what is stored for the account a.
Holds(f, a) ==
  fetches[f].at = "stored" /\ fetches[f].auth = a /\ Match(fetches[f].entries, byAuth[a])

RegistryInv ==
  /\ fetches \in [Fetches -> FetchRec]
  /\ \A f \in Fetches : fetches[f].ok <= fetches[f].asked /\ fetches[f].asked <= Len(UserAgents)
  /\ DOMAIN byAuth = Auths /\ DOMAIN offered = Auths
  /\ \A a \in Auths : IsBucket(byAuth[a])
  /\ latest \in [Auths -> SUBSET (Fetches \cup {Host})]
  /\ \A a \in Auths : \A x, y \in latest[a] : x = y
  /\ \A a \in Auths : \A f \in latest[a] \ {Host} : Holds(f, a)
  /\ \A a \in Auths : Host \in latest[a] => Match(offered[a], byAuth[a])

\* A fetch that has not begun, or failed.
LEMMA NoFetchType == NoFetch \in FetchRec /\ <<>> \in Lists
<1>1. (CHOOSE a \in Auths : TRUE) \in Auths
  BY RegistryAssumption
<1>2. <<>> \in Lists /\ <<>> \in Seq(Entry)
  BY DEF Lists, DistinctIds
<1>3. QED
  BY <1>1, <1>2 DEF NoFetch, FetchRec

\* At first nothing is stored.
LEMMA RegistryStarts ==
  ASSUME RegistryInit
  PROVE  RegistryInv
<1> DEFINE none == [p \in {} |-> NoRecord]
<1>1. IsBucket(none)
  <2> DEFINE pub == [i \in 1..0 |-> <<>>]
  <2>1. Builds(<<>>, 0, NoEntries, pub)
    BY DEF Builds, NoEntries
  <2>2. IsBuild(NoEntries)
    BY <2>1, NoFetchType DEF IsBuild
  <2>3. Records(NoEntries) = none
    BY DEF Records, NoEntries
  <2>4. QED
    BY <2>2, <2>3 DEF IsBucket
<1> HIDE DEF none
<1>2. /\ fetches = [f \in Fetches |-> NoFetch]
      /\ byAuth = [a \in Auths |-> none]
      /\ offered = [a \in Auths |-> <<>>]
      /\ latest = [a \in Auths |-> {}]
  BY DEF RegistryInit, none
<1>3. fetches \in [Fetches -> FetchRec]
  BY <1>2, NoFetchType
<1>4. NoFetch.ok <= NoFetch.asked /\ NoFetch.asked <= Len(UserAgents)
  BY RegistryAssumption DEF NoFetch
<1>5. QED
  BY <1>1, <1>2, <1>3, <1>4 DEF RegistryInv

\* A fetch that has not stored its list may go on, or give up.
LEMMA FetchGoesOn ==
  ASSUME RegistryInv, NEW f \in Fetches, fetches[f].at # "stored", NEW q \in FetchRec,
         q.ok <= q.asked, q.asked <= Len(UserAgents),
         fetches' = [fetches EXCEPT ![f] = q], UNCHANGED <<byAuth, offered, latest>>
  PROVE  RegistryInv'
<1>1. fetches' \in [Fetches -> FetchRec]
  BY DEF RegistryInv
<1>2. \A g \in Fetches : fetches'[g].ok <= fetches'[g].asked /\ fetches'[g].asked <= Len(UserAgents)
  BY DEF RegistryInv
<1>3. ASSUME NEW a \in Auths, NEW g \in latest[a] \ {Host}
      PROVE  Holds(g, a)'
  <2>1. g \in Fetches /\ Holds(g, a)
    BY <1>3 DEF RegistryInv
  <2>2. g # f
    BY <2>1 DEF Holds
  <2>3. fetches'[g] = fetches[g]
    BY <2>1, <2>2 DEF RegistryInv
  <2>4. QED
    BY <2>1, <2>3 DEF Holds
<1>4. QED
  BY <1>1, <1>2, <1>3 DEF RegistryInv

\* Each step of a fetch keeps that.
LEMMA RegistrySteps ==
  ASSUME RegistryInv, [RegistryNext]_registryVars
  PROVE  RegistryInv'
<1>1. /\ fetches \in [Fetches -> FetchRec]
      /\ \A f \in Fetches : fetches[f].ok <= fetches[f].asked /\ fetches[f].asked <= Len(UserAgents)
      /\ DOMAIN byAuth = Auths /\ DOMAIN offered = Auths
      /\ \A a \in Auths : IsBucket(byAuth[a])
      /\ latest \in [Auths -> SUBSET (Fetches \cup {Host})]
      /\ \A a \in Auths : \A x, y \in latest[a] : x = y
      /\ \A a \in Auths : \A f \in latest[a] \ {Host} : Holds(f, a)
      /\ \A a \in Auths : Host \in latest[a] => Match(offered[a], byAuth[a])
  BY DEF RegistryInv
<1>2. NoFetch \in FetchRec /\ NoFetch.ok <= NoFetch.asked /\ NoFetch.asked <= Len(UserAgents)
  BY NoFetchType, RegistryAssumption DEF NoFetch
<1>3. CASE UNCHANGED registryVars
  <2>1. fetches' = fetches /\ byAuth' = byAuth /\ offered' = offered /\ latest' = latest
    BY <1>3 DEF registryVars
  <2>2. QED
    BY <1>1, <2>1 DEF RegistryInv, Holds
<1>4. ASSUME NEW f \in Fetches, NEW auth \in Auths, NEW page \in BOOLEAN, BeginFetch(f, auth, page)
      PROVE  RegistryInv'
  <2> DEFINE q == [NoFetch EXCEPT !.at = "asking", !.page = page, !.auth = auth]
  <2>1. /\ fetches[f].at # "stored" /\ fetches' = [fetches EXCEPT ![f] = q]
        /\ UNCHANGED <<byAuth, offered, latest>>
    BY <1>4 DEF BeginFetch
  <2>2. q \in FetchRec /\ q.ok <= q.asked /\ q.asked <= Len(UserAgents)
    BY <1>2 DEF FetchRec, NoFetch
  <2> HIDE DEF q
  <2>3. QED
    BY <2>1, <2>2, FetchGoesOn
<1>5. ASSUME NEW f \in Fetches, AskUserAgent(f)
      PROVE  RegistryInv'
  <2>1. PICK q : q = fetches[f]
    OBVIOUS
  <2>2. /\ q \in FetchRec /\ q.at = "asking" /\ q.asked < Len(UserAgents) /\ q.ok <= q.asked
        /\ Len(UserAgents) \in Nat /\ q.asked \in Nat /\ q.ok \in Nat /\ q.merged \in Lists
    BY <1>1, <1>5, <2>1, RegistryAssumption DEF AskUserAgent, FetchRec
  <2>3. fetches[f].at # "stored" /\ UNCHANGED <<byAuth, offered, latest>>
    BY <1>5 DEF AskUserAgent
  <2>4. CASE fetches' = [fetches EXCEPT ![f].asked = @ + 1]
    <3> DEFINE r == [q EXCEPT !.asked = q.asked + 1]
    <3>1. r \in FetchRec /\ r.ok = q.ok /\ r.asked = q.asked + 1
      BY <2>2 DEF FetchRec
    <3>2. r.ok <= r.asked /\ r.asked <= Len(UserAgents)
      BY <2>2, <3>1
    <3>3. fetches' = [fetches EXCEPT ![f] = r]
      BY <1>1, <2>1, <2>4
    <3> HIDE DEF r
    <3>4. QED
      BY <2>3, <3>1, <3>2, <3>3, FetchGoesOn
  <2>5. ASSUME NEW list \in Catalogs,
               fetches' = [fetches EXCEPT ![f].asked = @ + 1, ![f].ok = @ + 1,
                                          ![f].merged = Merge(@, ParseConfigModels(list))]
        PROVE  RegistryInv'
    <3> DEFINE merged == Merge(q.merged, ParseConfigModels(list))
               r == [q EXCEPT !.asked = q.asked + 1, !.ok = q.ok + 1, !.merged = merged]
    <3>1. merged \in Lists
      BY <2>2, ParsedUsable, MergeDistinct
    <3> HIDE DEF merged
    <3>2. /\ q.ok + 1 \in Nat /\ q.asked + 1 \in Nat
          /\ q.ok + 1 <= q.asked + 1 /\ q.asked + 1 <= Len(UserAgents)
      BY <2>2
    <3>3. r \in FetchRec /\ r.ok = q.ok + 1 /\ r.asked = q.asked + 1
      <4>1. q \in FetchRec /\ q.ok + 1 \in Nat /\ q.asked + 1 \in Nat
        BY <2>2, <3>2
      <4>2. QED
        BY <3>1, <4>1 DEF FetchRec
    <3>4. fetches' = [fetches EXCEPT ![f] = r]
      BY <1>1, <2>1, <2>5 DEF merged
    <3>5. r.ok <= r.asked /\ r.asked <= Len(UserAgents)
      BY <3>2, <3>3
    <3> HIDE DEF r
    <3>6. QED
      BY <2>3, <3>3, <3>4, <3>5, FetchGoesOn
  <2>6. QED
    BY <1>5, <2>4, <2>5 DEF AskUserAgent
<1>6. ASSUME NEW f \in Fetches, FetchFails(f)
      PROVE  RegistryInv'
  <2>1. /\ fetches[f].at # "stored" /\ fetches' = [fetches EXCEPT ![f] = NoFetch]
        /\ UNCHANGED <<byAuth, offered, latest>>
    BY <1>6 DEF FetchFails
  <2>2. QED
    BY <1>2, <2>1, FetchGoesOn
<1>7. ASSUME NEW f \in Fetches, Register(f)
      PROVE  RegistryInv'
  <2>1. PICK q : q = fetches[f]
    OBVIOUS
  <2> DEFINE build == FilterAndBuild(q.merged)
             r == [NoFetch EXCEPT !.at = "stored", !.auth = q.auth, !.entries = build.entries]
             next == IF q.page THEN NoFetch ELSE r
             who == IF q.page THEN {} ELSE {f}
  <2>2. q \in FetchRec /\ q.at = "asking" /\ q.merged \in Lists /\ q.auth \in Auths
    BY <1>1, <1>7, <2>1 DEF Register, FetchRec
  <2>3. IsBuild(build) /\ build.entries \in Seq(Entry)
    BY <2>2, FilterBuilds, RecordsOfBuild
  <2>4. /\ fetches' = [fetches EXCEPT ![f] = next]
        /\ byAuth' = [byAuth EXCEPT ![q.auth] = Records(build)]
        /\ latest' = [latest EXCEPT ![q.auth] = who]
        /\ offered' = offered
    BY <1>7, <2>1 DEF Register
  <2> HIDE DEF build
  <2>5. /\ r \in FetchRec /\ r.ok = 0 /\ r.asked = 0 /\ r.at = "stored" /\ r.auth = q.auth
        /\ r.entries = build.entries
    BY <1>2, <2>2, <2>3 DEF FetchRec, NoFetch
  <2> HIDE DEF r
  <2>6. next \in FetchRec /\ next.ok <= next.asked /\ next.asked <= Len(UserAgents)
    BY <1>2, <2>5, RegistryAssumption
  <2>7. who \in SUBSET Fetches /\ (\A g \in who : g = f /\ next = r)
    OBVIOUS
  <2> HIDE DEF next, who
  <2>8. fetches' \in [Fetches -> FetchRec]
    BY <1>1, <2>4, <2>6
  <2>9. \A g \in Fetches : fetches'[g].ok <= fetches'[g].asked /\ fetches'[g].asked <= Len(UserAgents)
    BY <1>1, <2>4, <2>6
  <2>10. /\ DOMAIN byAuth' = Auths /\ DOMAIN offered' = Auths
         /\ \A a \in Auths : IsBucket(byAuth'[a])
    BY <1>1, <2>2, <2>3, <2>4 DEF IsBucket
  <2>11. /\ latest' \in [Auths -> SUBSET (Fetches \cup {Host})]
         /\ \A a \in Auths : \A x, y \in latest'[a] : x = y
    BY <1>1, <2>2, <2>4, <2>7
  <2>12. ASSUME NEW a \in Auths, NEW g \in latest'[a] \ {Host}
         PROVE  Holds(g, a)'
    <3>1. CASE a = q.auth
      <4>1. g = f /\ next = r
        BY <1>1, <2>2, <2>4, <2>7, <2>12, <3>1
      <4>2. byAuth'[a] = Records(build) /\ fetches'[g] = r
        BY <1>1, <2>2, <2>4, <3>1, <4>1
      <4>3. QED
        BY <2>3, <2>5, <3>1, <4>2 DEF Holds, Match
    <3>2. CASE a # q.auth
      <4>1. g \in latest[a] \ {Host} /\ byAuth'[a] = byAuth[a]
        BY <1>1, <2>2, <2>4, <2>12, <3>2
      <4>2. g \in Fetches /\ Holds(g, a)
        BY <1>1, <4>1
      <4>3. g # f
        BY <2>1, <2>2, <4>2 DEF Holds
      <4>4. fetches'[g] = fetches[g]
        BY <1>1, <2>4, <4>2, <4>3
      <4>5. QED
        BY <4>1, <4>2, <4>4 DEF Holds
    <3>3. QED
      BY <3>1, <3>2
  <2>13. ASSUME NEW a \in Auths, Host \in latest'[a]
         PROVE  Match(offered[a], byAuth[a])'
    <3>1. a # q.auth
      BY <1>1, <2>2, <2>4, <2>7, <2>13, RegistryAssumption
    <3>2. Host \in latest[a] /\ byAuth'[a] = byAuth[a] /\ offered'[a] = offered[a]
      BY <1>1, <2>2, <2>4, <2>13, <3>1
    <3>3. QED
      BY <1>1, <3>2
  <2>14. QED
    BY <2>8, <2>9, <2>10, <2>11, <2>12, <2>13 DEF RegistryInv
<1>8. ASSUME NEW f \in Fetches, Offer(f)
      PROVE  RegistryInv'
  <2>1. PICK q : q = fetches[f]
    OBVIOUS
  <2> DEFINE who == IF f \in latest[q.auth] THEN {Host} ELSE latest[q.auth] \ {Host}
  <2>2. q \in FetchRec /\ q.at = "stored" /\ q.auth \in Auths
    BY <1>1, <1>8, <2>1 DEF Offer, FetchRec
  <2>3. /\ fetches' = [fetches EXCEPT ![f] = NoFetch]
        /\ offered' = [offered EXCEPT ![q.auth] = q.entries]
        /\ latest' = [latest EXCEPT ![q.auth] = who]
        /\ byAuth' = byAuth
    BY <1>8, <2>1 DEF Offer
  <2>4. /\ who \in SUBSET (Fetches \cup {Host}) /\ \A x, y \in who : x = y
        /\ \A g \in who \ {Host} : g \in latest[q.auth] /\ g # f
        /\ Host \in who => f \in latest[q.auth]
    BY <1>1, <2>2
  <2> HIDE DEF who
  <2>5. fetches' \in [Fetches -> FetchRec]
    BY <1>1, <1>2, <2>3
  <2>6. \A g \in Fetches : fetches'[g].ok <= fetches'[g].asked /\ fetches'[g].asked <= Len(UserAgents)
    BY <1>1, <1>2, <2>3
  <2>7. /\ DOMAIN byAuth' = Auths /\ DOMAIN offered' = Auths
        /\ \A a \in Auths : IsBucket(byAuth'[a])
    BY <1>1, <2>3
  <2>8. /\ latest' \in [Auths -> SUBSET (Fetches \cup {Host})]
        /\ \A a \in Auths : \A x, y \in latest'[a] : x = y
    BY <1>1, <2>2, <2>3, <2>4
  <2>9. ASSUME NEW a \in Auths, NEW g \in latest'[a] \ {Host}
        PROVE  Holds(g, a)'
    <3>1. g \in latest[a] \ {Host}
      BY <1>1, <2>2, <2>3, <2>4, <2>9
    <3>2. g \in Fetches /\ Holds(g, a)
      BY <1>1, <3>1
    <3>3. g # f
      <4>1. CASE a = q.auth
        BY <1>1, <2>2, <2>3, <2>4, <2>9, <4>1
      <4>2. CASE a # q.auth
        BY <2>1, <3>2, <4>2 DEF Holds
      <4>3. QED
        BY <4>1, <4>2
    <3>4. fetches'[g] = fetches[g]
      BY <1>1, <2>3, <3>2, <3>3
    <3>5. QED
      BY <2>3, <3>2, <3>4 DEF Holds
  <2>10. ASSUME NEW a \in Auths, Host \in latest'[a]
         PROVE  Match(offered[a], byAuth[a])'
    <3>1. CASE a = q.auth
      <4>1. f \in latest[a] \ {Host}
        BY <1>1, <2>2, <2>3, <2>4, <2>10, <3>1, RegistryAssumption
      <4>2. Match(q.entries, byAuth[a])
        BY <1>1, <2>1, <4>1 DEF Holds
      <4>3. offered'[a] = q.entries /\ byAuth'[a] = byAuth[a]
        BY <1>1, <2>2, <2>3, <3>1
      <4>4. QED
        BY <4>2, <4>3
    <3>2. CASE a # q.auth
      <4>1. Host \in latest[a] /\ offered'[a] = offered[a] /\ byAuth'[a] = byAuth[a]
        BY <1>1, <2>2, <2>3, <2>10, <3>2
      <4>2. QED
        BY <1>1, <4>1
    <3>3. QED
      BY <3>1, <3>2
  <2>11. QED
    BY <2>5, <2>6, <2>7, <2>8, <2>9, <2>10 DEF RegistryInv
<1>9. QED
  BY <1>3, <1>4, <1>5, <1>6, <1>7, <1>8 DEF RegistryNext

\* The list the host has leads back to its models.
LEMMA Offers ==
  ASSUME RegistryInv
  PROVE  OffersResolve
<1>1. SUFFICES ASSUME NEW a \in Auths, Host \in latest[a], NEW i \in DOMAIN offered[a]
               PROVE  LET entries == offered[a]
                      IN /\ \A j \in DOMAIN entries : entries[i].public = entries[j].public => i = j
                         /\ \A p \in {entries[i].public, Tail(entries[i].public)} :
                              /\ Resolve(a, p) = entries[i].model.id
                              /\ Efforts(a, p) = entries[i].model.efforts
  BY DEF OffersResolve
<1> DEFINE entries == offered[a]
           bucket == byAuth[a]
<1>2. PICK b : IsBuild(b) /\ bucket = Records(b) /\ entries = b.entries
  BY <1>1 DEF RegistryInv, Match
<1>3. /\ \A j, k \in DOMAIN entries : entries[j].public = entries[k].public => j = k
      /\ entries[i].public \in DOMAIN bucket
      /\ bucket[entries[i].public] = [internal |-> entries[i].model.id,
                                      efforts |-> entries[i].model.efforts]
  <2>1. i \in DOMAIN b.entries
    BY <1>1, <1>2
  <2> HIDE DEF entries, bucket
  <2>2. QED
    BY <1>2, <2>1, RecordsOfBuild
<1>4. \A q \in DOMAIN bucket : q \in Publics /\ bucket[q].internal # <<>>
  BY <1>2, BucketShape DEF IsBucket
<1> HIDE DEF entries
<1>5. \A p \in {entries[i].public, Tail(entries[i].public)} :
        Lookup(bucket, p) = bucket[entries[i].public]
  <2>1. entries[i].public \in DOMAIN bucket
    BY <1>3
  <2> HIDE DEF bucket
  <2>2. /\ Lookup(bucket, entries[i].public) = bucket[entries[i].public]
        /\ Lookup(bucket, Tail(entries[i].public)) = bucket[entries[i].public]
    BY <1>4, <2>1, Finds
  <2>3. QED
    BY <2>2
<1>6. \A p \in {entries[i].public, Tail(entries[i].public)} :
        Resolve(a, p) = entries[i].model.id /\ Efforts(a, p) = entries[i].model.efforts
  <2>1. /\ bucket[entries[i].public].internal = entries[i].model.id
        /\ bucket[entries[i].public].efforts = entries[i].model.efforts
    BY <1>3
  <2>2. \A p : /\ Resolve(a, p) = Lookup(bucket, p).internal
               /\ Efforts(a, p) = Lookup(bucket, p).efforts
    BY DEF Resolve, Efforts
  <2> HIDE DEF bucket
  <2>3. QED
    BY <1>5, <2>1, <2>2
<1>7. i \in DOMAIN entries
  BY <1>1 DEF entries
<1>8. QED
  BY <1>3, <1>6, <1>7 DEF entries

----------------------------------------------------------------------------
(***************************************************************************)
(* Messages: results that follow their calls                               *)
(***************************************************************************)

Msgs == Seq(MessageRec)

\* The messages of a history.
LEMMA MessagesOf ==
  ASSUME NEW msgs \in Msgs
  PROVE  /\ Len(msgs) \in Nat /\ DOMAIN msgs = 1..Len(msgs)
         /\ \A i \in 1..Len(msgs) : msgs[i] \in MessageRec
BY LenProperties, ElementOfSeq DEF Msgs

\* Two histories, one after the other.
LEMMA Joined ==
  ASSUME NEW x \in Msgs, NEW y \in Msgs
  PROVE  /\ x \o y \in Msgs
         /\ DOMAIN (x \o y) = 1..Len(x) + Len(y)
         /\ \A i \in DOMAIN x : i \in DOMAIN (x \o y) /\ (x \o y)[i] = x[i]
         /\ \A i \in DOMAIN y : Len(x) + i \in DOMAIN (x \o y) /\ (x \o y)[Len(x) + i] = y[i]
         /\ \A i \in DOMAIN (x \o y) : i \in DOMAIN x \/ \E k \in DOMAIN y : i = Len(x) + k
<1> DEFINE both == x \o y
<1>1. /\ Len(x) \in Nat /\ DOMAIN x = 1..Len(x) /\ Len(y) \in Nat /\ DOMAIN y = 1..Len(y)
  BY MessagesOf
<1>2. /\ both \in Msgs /\ Len(both) = Len(x) + Len(y)
      /\ \A i \in 1..Len(x) + Len(y) : both[i] = IF i <= Len(x) THEN x[i] ELSE y[i - Len(x)]
  BY ConcatProperties DEF Msgs
<1> HIDE DEF both
<1>3. DOMAIN both = 1..Len(x) + Len(y)
  BY <1>2, MessagesOf
<1>4. \A i \in 1..Len(x) : i \in 1..Len(x) + Len(y) /\ i <= Len(x)
  BY <1>1
<1>5. \A i \in 1..Len(y) : /\ Len(x) + i \in 1..Len(x) + Len(y) /\ ~(Len(x) + i <= Len(x))
                           /\ (Len(x) + i) - Len(x) = i
  BY <1>1
<1>6. \A i \in 1..Len(x) + Len(y) :
        i \in 1..Len(x) \/ (i - Len(x) \in 1..Len(y) /\ i = Len(x) + (i - Len(x)))
  BY <1>1
<1>7. \A i \in DOMAIN x : i \in DOMAIN both /\ both[i] = x[i]
  BY <1>1, <1>2, <1>3, <1>4
<1>8. \A i \in DOMAIN y : Len(x) + i \in DOMAIN both /\ both[Len(x) + i] = y[i]
  BY <1>1, <1>2, <1>3, <1>5
<1>9. QED
  BY <1>1, <1>2, <1>3, <1>6, <1>7, <1>8 DEF both

\* One message as a history.
LEMMA Alone ==
  ASSUME NEW m \in MessageRec
  PROVE  <<m>> \in Msgs /\ Len(<<m>>) = 1 /\ DOMAIN <<m>> = {1} /\ <<m>>[1] = m
BY DEF Msgs

NoTools(msgs) == \A i \in DOMAIN msgs : msgs[i].role # "tool"

\* Where results follow their calls in two histories, they do in both together.
LEMMA AdjacentJoined ==
  ASSUME NEW x \in Msgs, NEW y \in Msgs, Adjacent(x), Adjacent(y)
  PROVE  Adjacent(x \o y)
<1> DEFINE both == x \o y
<1>1. /\ Len(x) \in Nat /\ DOMAIN x = 1..Len(x) /\ Len(y) \in Nat /\ DOMAIN y = 1..Len(y)
  BY MessagesOf
<1>2. /\ \A i \in 1..Len(x) : both[i] = x[i]
      /\ \A i \in 1..Len(y) : both[Len(x) + i] = y[i]
      /\ \A i \in DOMAIN both : i \in 1..Len(x) \/ \E k \in 1..Len(y) : i = Len(x) + k
  <2>1. /\ \A i \in DOMAIN x : both[i] = x[i]
        /\ \A i \in DOMAIN y : both[Len(x) + i] = y[i]
        /\ \A i \in DOMAIN both : i \in DOMAIN x \/ \E k \in DOMAIN y : i = Len(x) + k
    BY Joined
  <2> HIDE DEF both
  <2>2. QED
    BY <1>1, <2>1
<1> HIDE DEF both
<1>3. SUFFICES ASSUME NEW j \in DOMAIN both, both[j].role = "tool"
               PROVE  \E i \in 1..j - 1 :
                        /\ both[j].answers \in CallsOf(both[i])
                        /\ \A k \in i + 1..j - 1 : both[k].role = "tool"
  BY DEF both, Adjacent
<1>4. CASE j \in 1..Len(x)
  <2>1. PICK i \in 1..j - 1 :
          /\ x[j].answers \in CallsOf(x[i])
          /\ \A k \in i + 1..j - 1 : x[k].role = "tool"
    BY <1>1, <1>2, <1>3, <1>4 DEF Adjacent
  <2>2. i \in 1..Len(x) /\ \A k \in i + 1..j - 1 : k \in 1..Len(x)
    BY <1>1, <1>4
  <2>3. QED
    BY <1>2, <1>4, <2>1, <2>2
<1>5. ASSUME NEW l \in 1..Len(y), j = Len(x) + l
      PROVE  \E i \in 1..j - 1 :
               /\ both[j].answers \in CallsOf(both[i])
               /\ \A k \in i + 1..j - 1 : both[k].role = "tool"
  <2>1. PICK i \in 1..l - 1 :
          /\ y[l].answers \in CallsOf(y[i])
          /\ \A k \in i + 1..l - 1 : y[k].role = "tool"
    BY <1>1, <1>2, <1>3, <1>5 DEF Adjacent
  <2>2. /\ i \in 1..Len(y) /\ Len(x) + i \in 1..j - 1
        /\ \A k \in (Len(x) + i) + 1..j - 1 :
             /\ k - Len(x) \in 1..Len(y) /\ k - Len(x) \in i + 1..l - 1
             /\ k = Len(x) + (k - Len(x))
    BY <1>1, <1>5
  <2>3. both[Len(x) + i] = y[i] /\ both[j] = y[l]
    BY <1>2, <1>5, <2>2
  <2>4. ASSUME NEW k \in (Len(x) + i) + 1..j - 1
        PROVE  both[k].role = "tool"
    <3>1. PICK h \in 1..Len(y) : h \in i + 1..l - 1 /\ k = Len(x) + h
      BY <2>2
    <3>2. QED
      BY <1>2, <2>1, <3>1
  <2>5. QED
    BY <2>1, <2>2, <2>3, <2>4
<1>6. QED
  BY <1>2, <1>4, <1>5

\* A call's message and then its results.
LEMMA AdjacentCalls ==
  ASSUME NEW m \in MessageRec, m.role # "tool", NEW w \in Msgs,
         \A i \in DOMAIN w : w[i].role = "tool" /\ w[i].answers \in CallsOf(m)
  PROVE  <<m>> \o w \in Msgs /\ Adjacent(<<m>> \o w)
<1> DEFINE x == <<m>>
           both == x \o w
<1>1. x \in Msgs /\ Len(x) = 1 /\ x[1] = m /\ DOMAIN x = {1}
  BY Alone
<1> HIDE DEF x
<1>2. /\ both \in Msgs /\ Len(w) \in Nat /\ DOMAIN w = 1..Len(w)
      /\ DOMAIN both = 1..1 + Len(w)
      /\ both[1] = m
      /\ \A i \in 1..Len(w) : both[1 + i] = w[i]
  <2>1. Len(w) \in Nat /\ DOMAIN w = 1..Len(w)
    BY MessagesOf
  <2>2. /\ both \in Msgs
        /\ DOMAIN both = 1..Len(x) + Len(w)
        /\ \A i \in DOMAIN x : both[i] = x[i]
        /\ \A i \in DOMAIN w : both[Len(x) + i] = w[i]
    BY <1>1, Joined
  <2> HIDE DEF both
  <2>3. QED
    BY <1>1, <2>1, <2>2
<1> HIDE DEF both
<1>3. \A k \in 2..1 + Len(w) : \E h \in 1..Len(w) : k = 1 + h
  <2>1. \A k \in 2..1 + Len(w) : k - 1 \in 1..Len(w) /\ k = 1 + (k - 1)
    BY <1>2
  <2>2. QED
    BY <2>1
<1>4. \A k \in 2..1 + Len(w) : both[k].role = "tool" /\ both[k].answers \in CallsOf(m)
  BY <1>2, <1>3
<1>5. ASSUME NEW j \in DOMAIN both, both[j].role = "tool"
      PROVE  \E i \in 1..j - 1 :
               /\ both[j].answers \in CallsOf(both[i])
               /\ \A k \in i + 1..j - 1 : both[k].role = "tool"
  <2>1. j # 1
    BY <1>2, <1>5
  <2>2. j \in 2..1 + Len(w) /\ 1 \in 1..j - 1 /\ \A k \in 1 + 1..j - 1 : k \in 2..1 + Len(w)
    BY <1>2, <2>1
  <2>3. QED
    BY <1>2, <1>4, <2>2
<1>6. Adjacent(both)
  BY <1>5 DEF Adjacent
<1>7. QED
  BY <1>2, <1>6 DEF both, x

\* Leaving messages out keeps results with their calls, if calls that are
\* answered stay.
LEMMA AdjacentKept ==
  ASSUME NEW s \in Msgs, Adjacent(s), NEW t \in Msgs,
         NEW p \in [DOMAIN t -> DOMAIN s],
         \A k, l \in DOMAIN t : k < l => p[k] < p[l],
         \A k \in DOMAIN t : t[k].role = s[p[k]].role /\ t[k].answers = s[p[k]].answers,
         \A j \in DOMAIN t, i \in DOMAIN s :
           t[j].role = "tool" /\ t[j].answers \in CallsOf(s[i]) =>
             \E k \in DOMAIN t : p[k] = i /\ t[j].answers \in CallsOf(t[k])
  PROVE  Adjacent(t)
<1>1. /\ Len(s) \in Nat /\ DOMAIN s = 1..Len(s) /\ Len(t) \in Nat /\ DOMAIN t = 1..Len(t)
      /\ \A k \in 1..Len(t) : p[k] \in 1..Len(s)
  BY MessagesOf
<1>2. SUFFICES ASSUME NEW j \in 1..Len(t), t[j].role = "tool"
               PROVE  \E i \in 1..j - 1 :
                        /\ t[j].answers \in CallsOf(t[i])
                        /\ \A k \in i + 1..j - 1 : t[k].role = "tool"
  BY <1>1 DEF Adjacent
<1>3. s[p[j]].role = "tool" /\ s[p[j]].answers = t[j].answers
  BY <1>1, <1>2
<1>4. PICK a \in 1..p[j] - 1 :
        /\ t[j].answers \in CallsOf(s[a])
        /\ \A k \in a + 1..p[j] - 1 : s[k].role = "tool"
  BY <1>1, <1>3 DEF Adjacent
<1>5. a \in 1..Len(s)
  BY <1>1, <1>4
<1>6. PICK i \in 1..Len(t) : p[i] = a /\ t[j].answers \in CallsOf(t[i])
  BY <1>1, <1>2, <1>4, <1>5
<1>7. \A k, l \in 1..Len(t) : k < l => p[k] < p[l]
  BY <1>1
<1>8. i \in 1..j - 1
  <2>1. p[i] < p[j] /\ p[i] \in Int /\ p[j] \in Int
    BY <1>1, <1>4, <1>6
  <2>2. ~(j < i) /\ i # j
    BY <1>7, <2>1
  <2>3. QED
    BY <1>1, <2>2
<1>9. ASSUME NEW k \in i + 1..j - 1
      PROVE  t[k].role = "tool"
  <2>1. k \in 1..Len(t) /\ i < k /\ k < j
    BY <1>1, <1>8
  <2>2. p[i] < p[k] /\ p[k] < p[j] /\ p[k] \in Int /\ p[i] \in Int /\ p[j] \in Int
    BY <1>1, <1>7, <2>1
  <2>3. p[k] \in a + 1..p[j] - 1
    BY <1>6, <2>2
  <2>4. QED
    BY <1>1, <1>4, <2>1, <2>3
<1>10. QED
  BY <1>6, <1>8, <1>9

----------------------------------------------------------------------------
(***************************************************************************)
(* Messages: repacking the blocks of results                               *)
(***************************************************************************)

\* A block has an end.
LEMMA BlockEnds ==
  ASSUME NEW msgs \in Msgs, NEW i \in 1..Len(msgs)
  PROVE  LET e == BlockEnd(msgs, i)
         IN /\ e \in i..Len(msgs)
            /\ \A j \in i + 1..e : InBlockOf(msgs[i], msgs[j])
            /\ e = Len(msgs) \/ ~InBlockOf(msgs[i], msgs[e + 1])
<1> DEFINE n == Len(msgs)
           Block(e) == \A j \in i + 1..e : InBlockOf(msgs[i], msgs[j])
           T == {e \in i..n : Block(e)}
<1>1. n \in Nat /\ i \in Nat /\ i \in 1..n
  BY MessagesOf
<1> HIDE DEF n
<1>2. T \in SUBSET (0..n) /\ i \in T
  <2>1. i + 1..i = {} /\ i \in i..n
    BY <1>1
  <2>2. Block(i)
    BY <2>1
  <2>3. T \in SUBSET (0..n)
    BY <1>1
  <2>4. QED
    BY <2>1, <2>2, <2>3
<1>3. PICK e \in T : \A d \in T : d <= e
  <2> HIDE DEF T
  <2>1. T # {}
    BY <1>2
  <2>2. QED
    BY <1>1, <1>2, <2>1, Greatest
<1>4. e = n \/ ~InBlockOf(msgs[i], msgs[e + 1])
  <2>1. SUFFICES ASSUME e # n, InBlockOf(msgs[i], msgs[e + 1])
                 PROVE  FALSE
    OBVIOUS
  <2>2. e + 1 \in i..n /\ ~(e + 1 <= e) /\ \A j \in i + 1..e + 1 : j = e + 1 \/ j \in i + 1..e
    BY <1>1, <1>3, <2>1
  <2>3. Block(e + 1)
    BY <1>3, <2>1, <2>2
  <2>4. QED
    BY <1>3, <2>2, <2>3
<1>5. \E d \in i..n : Block(d) /\ (d = n \/ ~InBlockOf(msgs[i], msgs[d + 1]))
  BY <1>3, <1>4
<1>6. BlockEnd(msgs, i) = CHOOSE d \in i..n : Block(d) /\ (d = n \/ ~InBlockOf(msgs[i], msgs[d + 1]))
  BY DEF BlockEnd, n
<1> HIDE DEF Block
<1>7. LET last == BlockEnd(msgs, i)
      IN last \in i..n /\ Block(last) /\ (last = n \/ ~InBlockOf(msgs[i], msgs[last + 1]))
  BY <1>5, <1>6
<1>8. QED
  BY <1>7 DEF n, Block

\* What is packed together is not empty.
LEMMA PackEnds ==
  ASSUME NEW msgs \in Msgs, NEW i \in 1..Len(msgs)
  PROVE  PackEnd(msgs, i) \in i..Len(msgs)
<1>1. i \in i..Len(msgs)
  BY MessagesOf
<1>2. QED
  BY <1>1, BlockEnds DEF PackEnd

\* Messages of msgs from the i-th on.
From(msgs, i) == {msgs[k] : k \in i..Len(msgs)}

\* From s on each result has its call, and only what belongs to a block between.
Closed(msgs, s) ==
  \A j \in s..Len(msgs) : msgs[j].role = "tool" =>
    \E i \in s..j - 1 :
      /\ msgs[j].answers \in CallsOf(msgs[i]) \ {NoId}
      /\ \A k \in i + 1..j - 1 : InBlockOf(msgs[i], msgs[k])

\* The elements of two histories one after the other are those of either.
LEMMA JoinedWithin ==
  ASSUME NEW x \in Msgs, NEW y \in Msgs, NEW S,
         \A i \in DOMAIN x : x[i] \in S, \A i \in DOMAIN y : y[i] \in S
  PROVE  x \o y \in Msgs /\ \A i \in DOMAIN (x \o y) : (x \o y)[i] \in S
<1> DEFINE both == x \o y
<1>1. /\ both \in Msgs
      /\ \A i \in DOMAIN x : both[i] = x[i]
      /\ \A i \in DOMAIN y : both[Len(x) + i] = y[i]
      /\ \A i \in DOMAIN both : i \in DOMAIN x \/ \E k \in DOMAIN y : i = Len(x) + k
  BY Joined
<1> HIDE DEF both
<1>2. \A i \in DOMAIN both : both[i] \in S
  BY <1>1
<1>3. QED
  BY <1>1, <1>2 DEF both

\* A pack: messages of the block, results next to their calls.
LEMMA Packed ==
  ASSUME NEW msgs \in Msgs, NEW s \in 1..Len(msgs)
  PROVE  /\ Pack(msgs, s) \in Msgs
         /\ \A k \in DOMAIN Pack(msgs, s) : Pack(msgs, s)[k] \in From(msgs, s)
         /\ Closed(msgs, s) => Adjacent(Pack(msgs, s))
<1> DEFINE m == msgs[s]
           e == PackEnd(msgs, s)
           block == SubSeq(msgs, s + 1, e)
           results == WithoutNotices(block)
           notices == AtPositions(block, Notices(block))
           called == <<m>> \o results
<1>1. /\ Len(msgs) \in Nat /\ s \in Nat /\ e \in s..Len(msgs) /\ m \in MessageRec
      /\ m \in From(msgs, s)
  <2>1. Len(msgs) \in Nat /\ m \in MessageRec
    BY MessagesOf
  <2>2. s \in s..Len(msgs) /\ s \in Nat
    BY <2>1
  <2>3. QED
    BY <2>1, <2>2, PackEnds DEF From
<1>2. block \in Msgs /\ \A i \in DOMAIN block : /\ block[i] = msgs[s + i]
                                                /\ s + i \in s + 1..e
  <2>1. \A i \in s + 1..e : i \in 1..Len(msgs)
    BY <1>1
  <2>2. \A i \in s + 1..e : msgs[i] \in MessageRec
    BY <2>1, MessagesOf
  <2>3. s + 1 \in Int /\ e \in Int
    BY <1>1
  <2> HIDE DEF e
  <2>4. /\ block \in Seq(MessageRec)
        /\ Len(block) = IF s + 1 <= e THEN e - (s + 1) + 1 ELSE 0
        /\ \A i \in 1..e - (s + 1) + 1 : block[i] = msgs[(s + 1) + i - 1]
    BY <2>2, <2>3, SubSeqProperties
  <2> HIDE DEF block
  <2>5. DOMAIN block = 1..Len(block) /\ block \in Msgs
    BY <2>4, MessagesOf DEF Msgs
  <2>6. \A i \in 1..Len(block) : /\ i \in 1..e - (s + 1) + 1 /\ (s + 1) + i - 1 = s + i
                                 /\ s + i \in s + 1..e
    BY <1>1, <2>3, <2>4
  <2>7. QED
    BY <2>4, <2>5, <2>6
<1>3. \A i \in DOMAIN block : block[i] \in From(msgs, s)
  <2>1. \A i \in s + 1..e : i \in s..Len(msgs)
    BY <1>1
  <2>2. \A i \in s + 1..e : msgs[i] \in From(msgs, s)
    BY <2>1 DEF From
  <2> HIDE DEF block, e
  <2>3. QED
    BY <1>2, <2>2
<1> HIDE DEF block
<1>4. /\ results \in Msgs /\ notices \in Msgs
      /\ \A i \in DOMAIN results : \E k \in DOMAIN block : results[i] = block[k] /\ ~IsNotice(block[k])
      /\ \A i \in DOMAIN notices : \E k \in DOMAIN block : notices[i] = block[k] /\ IsNotice(block[k])
  <2>1. /\ Notices(block) \in SUBSET DOMAIN block
        /\ \A k \in Notices(block) : IsNotice(block[k])
        /\ \A k \in DOMAIN block \ Notices(block) : ~IsNotice(block[k])
    BY DEF Notices
  <2>2. /\ results \in Msgs
        /\ \E p : Embeds(p, results, block, DOMAIN block \ Notices(block))
    BY <1>2, Keeps DEF Msgs, WithoutNotices
  <2>3. notices \in Msgs /\ \E p : Embeds(p, notices, block, Notices(block))
    BY <1>2, <2>1, Keeps DEF Msgs
  <2>4. PICK p : Embeds(p, results, block, DOMAIN block \ Notices(block))
    BY <2>2
  <2>5. PICK q : Embeds(q, notices, block, Notices(block))
    BY <2>3
  <2> HIDE DEF results, notices
  <2>6. \A i \in DOMAIN results : results[i] = block[p[i]] /\ p[i] \in DOMAIN block \ Notices(block)
    BY <2>4 DEF Embeds
  <2>7. \A i \in DOMAIN notices : notices[i] = block[q[i]] /\ q[i] \in Notices(block)
    BY <2>5 DEF Embeds
  <2>8. QED
    BY <2>1, <2>2, <2>3, <2>6, <2>7
<1>5. Pack(msgs, s) = called \o notices
  BY DEF Pack, block
<1> HIDE DEF results, notices
<1>6. called \in Msgs /\ \A k \in DOMAIN called : called[k] \in From(msgs, s)
  <2>1. <<m>> \in Msgs /\ \A k \in DOMAIN <<m>> : <<m>>[k] \in From(msgs, s)
    BY <1>1, Alone
  <2>2. \A k \in DOMAIN results : results[k] \in From(msgs, s)
    BY <1>3, <1>4
  <2>3. QED
    BY <1>4, <2>1, <2>2, JoinedWithin
<1>7. \A k \in DOMAIN notices : notices[k] \in From(msgs, s)
  BY <1>3, <1>4
<1>8. ASSUME Closed(msgs, s)
      PROVE  Adjacent(called \o notices)
  <2>1. m.role # "tool"
    <3>1. s \in s..Len(msgs) /\ s..s - 1 = {}
      BY <1>1
    <3>2. QED
      BY <1>8, <3>1 DEF Closed
  <2>2. ASSUME NEW i \in DOMAIN results
        PROVE  results[i].role = "tool" /\ results[i].answers \in CallsOf(m)
    <3>1. PICK k \in DOMAIN block : results[i] = block[k] /\ ~IsNotice(block[k])
      BY <1>4
    <3>2. block[k] = msgs[s + k] /\ s + k \in s + 1..e
      BY <1>2
    <3>3. e # s
      BY <1>1, <3>2
    <3>4. e = BlockEnd(msgs, s)
      BY <3>3 DEF PackEnd
    <3>5. InBlockOf(m, msgs[s + k])
      BY <3>2, <3>4, BlockEnds
    <3>6. QED
      BY <3>1, <3>2, <3>5 DEF InBlockOf
  <2>3. Adjacent(called)
    BY <1>1, <1>4, <2>1, <2>2, AdjacentCalls
  <2>4. Adjacent(notices)
    <3>1. \A i \in DOMAIN notices : IsNotice(notices[i])
      BY <1>4
    <3>2. \A i \in DOMAIN notices : notices[i].role # "tool"
      BY <3>1 DEF IsNotice
    <3>3. QED
      BY <3>2 DEF Adjacent
  <2> HIDE DEF called
  <2>5. QED
    BY <1>4, <1>6, <2>3, <2>4, AdjacentJoined
<1> HIDE DEF called
<1>9. /\ called \o notices \in Msgs
      /\ \A k \in DOMAIN (called \o notices) : (called \o notices)[k] \in From(msgs, s)
  BY <1>4, <1>6, <1>7, JoinedWithin
<1>10. QED
  BY <1>5, <1>8, <1>9

\* What follows a pack is closed as well: no call of the pack is answered there.
LEMMA ClosedOn ==
  ASSUME NEW msgs \in Msgs, NEW s \in 1..Len(msgs), Closed(msgs, s)
  PROVE  Closed(msgs, PackEnd(msgs, s) + 1)
<1> DEFINE e == PackEnd(msgs, s)
           n == Len(msgs)
<1>1. n \in Nat /\ s \in 1..n /\ e \in s..n
  BY MessagesOf, PackEnds
<1>2. SUFFICES ASSUME NEW j \in e + 1..n, msgs[j].role = "tool"
               PROVE  \E i \in e + 1..j - 1 :
                        /\ msgs[j].answers \in CallsOf(msgs[i]) \ {NoId}
                        /\ \A k \in i + 1..j - 1 : InBlockOf(msgs[i], msgs[k])
  BY DEF Closed
<1> HIDE DEF e
<1>3. PICK i \in s..j - 1 :
        /\ msgs[j].answers \in CallsOf(msgs[i]) \ {NoId}
        /\ \A k \in i + 1..j - 1 : InBlockOf(msgs[i], msgs[k])
  <2>1. j \in s..n
    BY <1>1, <1>2
  <2>2. QED
    BY <1>2, <2>1 DEF Closed
<1>4. msgs[i].role = "assistant" /\ msgs[i].calls # <<>>
  <2>1. CallsOf(msgs[i]) # {}
    BY <1>3
  <2>2. QED
    BY <2>1 DEF CallsOf
<1>5. i \notin s + 1..e
  <2>1. SUFFICES ASSUME i \in s + 1..e
                 PROVE  FALSE
    OBVIOUS
  <2>2. e = BlockEnd(msgs, s)
    <3>1. e # s
      BY <1>1, <2>1
    <3>2. QED
      BY <3>1 DEF PackEnd, e
  <2>3. InBlockOf(msgs[s], msgs[i])
    BY <1>1, <2>1, <2>2, BlockEnds
  <2>4. QED
    BY <1>4, <2>3 DEF InBlockOf, IsNotice
<1>6. i # s
  <2>1. SUFFICES ASSUME i = s
                 PROVE  FALSE
    OBVIOUS
  <2>2. e = BlockEnd(msgs, s)
    BY <1>4, <2>1 DEF PackEnd, e
  <2>3. e = n \/ ~InBlockOf(msgs[s], msgs[e + 1])
    BY <1>1, <2>2, BlockEnds
  <2>4. e + 1 \in s + 1..j - 1 \/ e + 1 = j
    BY <1>1, <1>2
  <2>5. InBlockOf(msgs[s], msgs[j])
    BY <1>2, <1>3, <2>1 DEF InBlockOf
  <2>6. InBlockOf(msgs[s], msgs[e + 1])
    BY <1>3, <2>1, <2>4, <2>5
  <2>7. e # n
    BY <1>1, <1>2
  <2>8. QED
    BY <2>3, <2>6, <2>7
<1>7. i \in e + 1..j - 1
  BY <1>1, <1>2, <1>3, <1>5, <1>6
<1>8. QED
  BY <1>3, <1>7

\* What a recursive definition from the end down to s has to satisfy.
Repacks(msgs, s, f) ==
  f = [i \in s..Len(msgs) + 1 |->
         IF i > Len(msgs) THEN <<>> ELSE Pack(msgs, i) \o f[PackEnd(msgs, i) + 1]]

\* Such a function exists.
LEMMA RepackExists ==
  ASSUME NEW msgs \in Msgs, NEW s \in 1..Len(msgs) + 1
  PROVE  \E f : Repacks(msgs, s, f)
<1> DEFINE n == Len(msgs)
           T == {i \in 1..n + 1 : ~\E f : Repacks(msgs, i, f)}
<1>1. n \in Nat /\ s \in 1..n + 1
  BY MessagesOf
<1> HIDE DEF n
<1>2. SUFFICES ASSUME T # {}
               PROVE  FALSE
  BY <1>1
<1>3. PICK x \in T : \A y \in T : y <= x
  <2>1. T \in SUBSET (0..n + 1) /\ n + 1 \in Nat
    BY <1>1
  <2> HIDE DEF T
  <2>2. QED
    BY <1>2, <2>1, Greatest
<1>4. CASE x = n + 1
  <2> DEFINE f == [i \in n + 1..n + 1 |-> <<>>]
             g == [i \in n + 1..n + 1 |->
                     IF i > n THEN <<>> ELSE Pack(msgs, i) \o f[PackEnd(msgs, i) + 1]]
  <2>1. \A i \in n + 1..n + 1 : i > n
    BY <1>1
  <2>2. f = g
    BY <2>1
  <2>3. Repacks(msgs, n + 1, f)
    BY <2>2 DEF Repacks, n
  <2>4. QED
    BY <1>3, <1>4, <2>3
<1>5. CASE x # n + 1
  <2>1. x \in 1..n /\ x + 1 \in 1..n + 1 /\ ~(x + 1 <= x)
    BY <1>1, <1>3, <1>5
  <2>2. PICK f : Repacks(msgs, x + 1, f)
    BY <1>3, <2>1
  <2> DEFINE g == [i \in x..n + 1 |->
                     IF i = x THEN Pack(msgs, x) \o f[PackEnd(msgs, x) + 1] ELSE f[i]]
             h == [i \in x..n + 1 |->
                     IF i > n THEN <<>> ELSE Pack(msgs, i) \o g[PackEnd(msgs, i) + 1]]
  <2>3. \A i \in x + 1..n + 1 :
          f[i] = IF i > n THEN <<>> ELSE Pack(msgs, i) \o f[PackEnd(msgs, i) + 1]
    BY <2>2 DEF Repacks, n
  <2>4. /\ \A i \in x..n + 1 : i = x \/ i \in x + 1..n + 1
        /\ \A i \in x + 1..n + 1 : i \in x..n + 1 /\ i # x
        /\ x \in x..n + 1 /\ ~(x > n)
    BY <1>1, <2>1
  <2>5. g[x] = Pack(msgs, x) \o f[PackEnd(msgs, x) + 1] /\ \A i \in x + 1..n + 1 : g[i] = f[i]
    BY <2>4
  <2>6. \A i \in x..n + 1 : ~(i > n) => PackEnd(msgs, i) + 1 \in x + 1..n + 1
    <3>1. \A i \in x..n + 1 : ~(i > n) => PackEnd(msgs, i) \in i..n
      BY <1>1, <2>1, PackEnds DEF n
    <3>2. ASSUME NEW i \in x..n + 1, ~(i > n)
          PROVE  PackEnd(msgs, i) + 1 \in x + 1..n + 1
      <4>1. PICK d : d = PackEnd(msgs, i) /\ d \in i..n
        BY <3>1, <3>2
      <4>2. d + 1 \in x + 1..n + 1
        BY <1>1, <2>1, <3>2, <4>1
      <4>3. QED
        BY <4>1, <4>2
    <3>3. QED
      BY <3>2
  <2>7. ASSUME NEW i \in x..n + 1
        PROVE  g[i] = h[i]
    <3>1. h[i] = IF i > n THEN <<>> ELSE Pack(msgs, i) \o g[PackEnd(msgs, i) + 1]
      OBVIOUS
    <3> HIDE DEF g, h
    <3>2. ~(i > n) => g[PackEnd(msgs, i) + 1] = f[PackEnd(msgs, i) + 1]
      BY <2>5, <2>6
    <3>3. CASE i = x
      BY <2>4, <2>5, <3>1, <3>2, <3>3
    <3>4. CASE i \in x + 1..n + 1
      BY <2>3, <2>5, <3>1, <3>2, <3>4
    <3>5. QED
      BY <2>4, <3>3, <3>4
  <2>8. g = h
    <3>1. g = [i \in x..n + 1 |-> g[i]] /\ h = [i \in x..n + 1 |-> h[i]]
      OBVIOUS
    <3> HIDE DEF g, h
    <3>2. QED
      BY <2>7, <3>1
  <2>9. Repacks(msgs, x, g)
    BY <2>8 DEF Repacks, n
  <2>10. QED
    BY <1>3, <2>9
<1>6. QED
  BY <1>4, <1>5

\* Repacking adds no message and puts results next to their calls.
LEMMA Repacked ==
  ASSUME NEW msgs \in Msgs
  PROVE  LET out == RepackToolResultBlocks(msgs)
         IN /\ out \in Msgs
            /\ \A k \in DOMAIN out : out[k] \in From(msgs, 1)
            /\ Closed(msgs, 1) => Adjacent(out)
<1> DEFINE n == Len(msgs)
           f == CHOOSE g : Repacks(msgs, 1, g)
           Fine(s) == /\ f[s] \in Msgs
                      /\ \A k \in DOMAIN f[s] : f[s][k] \in From(msgs, s)
                      /\ Closed(msgs, s) => Adjacent(f[s])
           T == {s \in 1..n + 1 : ~Fine(s)}
<1>1. n \in Nat /\ 1 \in 1..n + 1
  BY MessagesOf
<1>2. \A i \in 1..n + 1 :
        f[i] = IF i > n THEN <<>> ELSE Pack(msgs, i) \o f[PackEnd(msgs, i) + 1]
  <2>1. Repacks(msgs, 1, f)
    BY <1>1, RepackExists
  <2> HIDE DEF f
  <2>2. QED
    BY <2>1 DEF Repacks
<1>3. RepackToolResultBlocks(msgs) = f[1]
  BY DEF RepackToolResultBlocks, Repacks
<1> HIDE DEF f
<1>4. T = {}
  <2>1. SUFFICES ASSUME T # {}
                 PROVE  FALSE
    OBVIOUS
  <2>2. PICK x \in T : \A y \in T : y <= x
    <3>1. T \in SUBSET (0..n + 1) /\ n + 1 \in Nat
      BY <1>1
    <3> HIDE DEF T, n
    <3>2. QED
      BY <2>1, <3>1, Greatest
  <2>3. CASE x > n
    <3>1. f[x] = <<>>
      BY <1>2, <2>2, <2>3
    <3>2. <<>> \in Msgs /\ DOMAIN <<>> = {}
      BY DEF Msgs
    <3>3. f[x] \in Msgs /\ DOMAIN f[x] = {}
      BY <3>1, <3>2
    <3>4. Adjacent(f[x])
      BY <3>3 DEF Adjacent
    <3>5. Fine(x)
      BY <3>3, <3>4
    <3>6. QED
      BY <2>2, <3>5
  <2>4. CASE ~(x > n)
    <3>1. x \in 1..n
      BY <1>1, <2>2, <2>4
    <3>2. PICK e : e = PackEnd(msgs, x) /\ e \in x..n
      BY <3>1, PackEnds
    <3>3. e + 1 \in 1..n + 1 /\ ~(e + 1 <= x) /\ x <= e + 1
      BY <1>1, <3>1, <3>2
    <3>4. Fine(e + 1)
      BY <2>2, <3>3
    <3>5. f[x] = Pack(msgs, x) \o f[e + 1]
      BY <1>2, <2>2, <2>4, <3>2
    <3>6. From(msgs, e + 1) \subseteq From(msgs, x)
      <4>1. \A k \in e + 1..n : k \in x..n
        BY <1>1, <3>1, <3>2
      <4>2. QED
        BY <4>1 DEF From
    <3>7. /\ Pack(msgs, x) \in Msgs
          /\ \A k \in DOMAIN Pack(msgs, x) : Pack(msgs, x)[k] \in From(msgs, x)
          /\ Closed(msgs, x) => Adjacent(Pack(msgs, x))
      BY <3>1, Packed
    <3>8. \A k \in DOMAIN f[e + 1] : f[e + 1][k] \in From(msgs, x)
      BY <3>4, <3>6
    <3>9. f[x] \in Msgs /\ \A k \in DOMAIN f[x] : f[x][k] \in From(msgs, x)
      <4> DEFINE pack == Pack(msgs, x)
                 rest == f[e + 1]
      <4>1. pack \in Msgs /\ \A k \in DOMAIN pack : pack[k] \in From(msgs, x)
        BY <3>7
      <4>2. rest \in Msgs /\ \A k \in DOMAIN rest : rest[k] \in From(msgs, x)
        BY <3>4, <3>8
      <4> HIDE DEF pack, rest
      <4>3. /\ pack \o rest \in Msgs
            /\ \A k \in DOMAIN (pack \o rest) : (pack \o rest)[k] \in From(msgs, x)
        BY <4>1, <4>2, JoinedWithin
      <4>4. f[x] = pack \o rest
        BY <3>5 DEF pack, rest
      <4>5. QED
        BY <4>3, <4>4
    <3>10. Closed(msgs, x) => Adjacent(f[x])
      <4>1. Closed(msgs, x) => Closed(msgs, e + 1)
        BY <3>1, <3>2, ClosedOn
      <4>2. QED
        BY <3>4, <3>5, <3>7, <4>1, AdjacentJoined
    <3>11. Fine(x)
      BY <3>9, <3>10
    <3>12. QED
      BY <2>2, <3>11
  <2>5. QED
    BY <2>3, <2>4
<1>5. Fine(1)
  BY <1>1, <1>4
<1>6. QED
  BY <1>3, <1>5

----------------------------------------------------------------------------
(***************************************************************************)
(* Messages: what goes upstream                                            *)
(***************************************************************************)

NoDevelopers(msgs) == \A i \in DOMAIN msgs : msgs[i].role # "developer"

\* An id is called, or answered, where a message names it.
LEMMA NamedIds ==
  ASSUME NEW msgs
  PROVE  /\ \A a : a \in CallIds(msgs) <=>
                     a # NoId /\ \E i \in DOMAIN msgs : a \in CallsOf(msgs[i])
         /\ \A a : a \in ResultIds(msgs) <=>
                     a # NoId /\ \E i \in DOMAIN msgs : msgs[i].role = "tool" /\ msgs[i].answers = a
<1>1. \A a : a \in CallIds(msgs) <=>
               a # NoId /\ \E i \in DOMAIN msgs : a \in CallsOf(msgs[i])
  BY DEF CallIds
<1>2. \A a : a \in ResultIds(msgs) <=>
               a # NoId /\ \E i \in DOMAIN msgs : msgs[i].role = "tool" /\ msgs[i].answers = a
  BY DEF ResultIds
<1>3. QED
  BY <1>1, <1>2

\* The developer's messages become the system's; nothing else changes.
LEMMA RolesNormalized ==
  ASSUME NEW msgs \in Msgs
  PROVE  LET out == NormalizeRoles(msgs)
         IN /\ out \in Msgs
            /\ NoDevelopers(out)
            /\ InOrder(msgs) => Closed(out, 1)
<1> DEFINE out == NormalizeRoles(msgs)
           n == Len(msgs)
<1>1. n \in Nat /\ DOMAIN msgs = 1..n /\ \A i \in 1..n : msgs[i] \in MessageRec
  BY MessagesOf
<1> HIDE DEF n
<1>2. DOMAIN out = 1..n
  BY <1>1 DEF NormalizeRoles
<1>3. ASSUME NEW i \in 1..n
      PROVE  /\ out[i] \in MessageRec
             /\ out[i].role # "developer"
             /\ out[i].role = "tool" <=> msgs[i].role = "tool"
             /\ IsNotice(out[i]) <=> IsNotice(msgs[i])
             /\ CallsOf(out[i]) = CallsOf(msgs[i])
             /\ out[i].answers = msgs[i].answers
  <2>1. PICK m \in MessageRec : m = msgs[i]
    BY <1>1
  <2>2. out[i] = IF m.role = "developer" THEN [m EXCEPT !.role = "system"] ELSE m
    BY <1>1, <2>1 DEF NormalizeRoles
  <2> HIDE DEF out
  <2>3. CASE m.role = "developer"
    <3>1. out[i] = [role |-> "system", calls |-> m.calls, answers |-> m.answers]
      BY <2>2, <2>3 DEF MessageRec
    <3>2. /\ out[i].role = "system" /\ out[i].answers = m.answers
          /\ CallsOf(out[i]) = {} /\ CallsOf(m) = {} /\ IsNotice(out[i]) /\ IsNotice(m)
      BY <2>3, <3>1 DEF IsNotice, CallsOf
    <3>3. out[i] \in MessageRec
      BY <2>1, <3>1 DEF MessageRec, Roles
    <3>4. QED
      BY <2>1, <2>3, <3>2, <3>3
  <2>4. CASE m.role # "developer"
    BY <2>1, <2>2, <2>4
  <2>5. QED
    BY <2>3, <2>4
<1> HIDE DEF out
<1>4. out \in Msgs /\ Len(out) = n
  <2>1. out = [i \in 1..n |-> out[i]]
    BY <1>1 DEF out, NormalizeRoles
  <2>2. out \in [1..n -> MessageRec]
    BY <1>3, <2>1
  <2>3. QED
    BY <1>1, <2>2, SeqDef, LenProperties DEF Msgs
<1>5. \A i, j \in 1..n : InBlockOf(msgs[i], msgs[j]) <=> InBlockOf(out[i], out[j])
  BY <1>3 DEF InBlockOf
<1>6. ASSUME InOrder(msgs)
      PROVE  Closed(out, 1)
  <2>1. SUFFICES ASSUME NEW j \in 1..n, out[j].role = "tool"
                 PROVE  \E i \in 1..j - 1 :
                          /\ out[j].answers \in CallsOf(out[i]) \ {NoId}
                          /\ \A k \in i + 1..j - 1 : InBlockOf(out[i], out[k])
    BY <1>4 DEF Closed
  <2>2. msgs[j].role = "tool"
    BY <1>3, <2>1
  <2>3. PICK i \in 1..j - 1 :
          /\ msgs[j].answers \in CallsOf(msgs[i]) \ {NoId}
          /\ \A k \in i + 1..j - 1 : InBlockOf(msgs[i], msgs[k])
    BY <1>1, <1>6, <2>1, <2>2 DEF InOrder
  <2>4. i \in 1..n /\ \A k \in i + 1..j - 1 : k \in 1..n
    BY <1>1, <2>1
  <2>5. QED
    BY <1>3, <1>5, <2>1, <2>3, <2>4
<1>7. QED
  BY <1>2, <1>3, <1>4, <1>6 DEF NoDevelopers, out

\* Of a message's calls only those stay that have a result.
LEMMA CallsKept ==
  ASSUME NEW m \in MessageRec, NEW keep
  PROVE  /\ OnlyCalls(m, keep) \in MessageRec
         /\ OnlyCalls(m, keep).role = m.role
         /\ OnlyCalls(m, keep).answers = m.answers
         /\ CallsOf(OnlyCalls(m, keep)) = CallsOf(m) \cap keep
<1>1. CASE m.role # "assistant"
  BY <1>1 DEF OnlyCalls, CallsOf
<1>2. CASE m.role = "assistant"
  <2> DEFINE calls == m.calls
             I == {i \in DOMAIN calls : calls[i] \in keep}
             some == AtPositions(calls, I)
  <2>1. calls \in Seq(STRING)
    BY DEF MessageRec
  <2> HIDE DEF calls
  <2>2. some \in Seq(STRING) /\ \E p : Embeds(p, some, calls, I)
    BY <2>1, Keeps
  <2>3. PICK p : Embeds(p, some, calls, I)
    BY <2>2
  <2> HIDE DEF some
  <2>4. /\ p \in [DOMAIN some -> I]
        /\ \A k \in DOMAIN some : some[k] = calls[p[k]]
        /\ \A i \in I : \E k \in DOMAIN some : p[k] = i
    BY <2>3 DEF Embeds
  <2>5. {some[k] : k \in DOMAIN some} = {calls[i] : i \in DOMAIN calls} \cap keep
    BY <2>4
  <2>6. OnlyCalls(m, keep) = [m EXCEPT !.calls = some]
    BY <1>2 DEF OnlyCalls, some, calls
  <2>7. OnlyCalls(m, keep) = [role |-> m.role, calls |-> some, answers |-> m.answers]
    BY <2>6 DEF MessageRec
  <2>8. OnlyCalls(m, keep) \in MessageRec
    BY <2>2, <2>7 DEF MessageRec
  <2>9. QED
    BY <1>2, <2>5, <2>7, <2>8 DEF CallsOf, calls
<1>3. QED
  BY <1>1, <1>2

\* After the cleanup each call has its result and each result its call.
LEMMA Cleaned ==
  ASSUME NEW msgs \in Msgs, NoDevelopers(msgs)
  PROVE  LET out == CleanupOrphanToolCalls(msgs)
         IN /\ out \in Msgs
            /\ NoDevelopers(out)
            /\ Paired(out)
            /\ Adjacent(msgs) => Adjacent(out)
<1> DEFINE keep == CallIds(msgs) \cap ResultIds(msgs)
           I == {i \in DOMAIN msgs : msgs[i].role # "tool" \/ msgs[i].answers \in keep}
           kept == AtPositions(msgs, I)
           out == [i \in DOMAIN kept |-> OnlyCalls(kept[i], keep)]
<1>1. CASE CallIds(msgs) \cup ResultIds(msgs) = {}
  <2>1. CleanupOrphanToolCalls(msgs) = msgs
    BY <1>1 DEF CleanupOrphanToolCalls
  <2>2. Paired(msgs)
    BY <1>1 DEF Paired
  <2>3. QED
    BY <2>1, <2>2
<1>2. CASE CallIds(msgs) \cup ResultIds(msgs) # {}
  <2>1. CleanupOrphanToolCalls(msgs) = out
    BY <1>2 DEF CleanupOrphanToolCalls, WithResultsOf
  <2>2. \A a \in keep : /\ a # NoId
                        /\ \E i \in DOMAIN msgs : a \in CallsOf(msgs[i])
                        /\ \E i \in DOMAIN msgs : msgs[i].role = "tool" /\ msgs[i].answers = a
    BY NamedIds
  <2>3. \A i \in DOMAIN msgs : \A a \in CallsOf(msgs[i]) : i \in I
    BY DEF CallsOf
  <2>4. kept \in Msgs /\ \E p : Embeds(p, kept, msgs, I)
    BY Keeps DEF Msgs
  <2>5. PICK p : Embeds(p, kept, msgs, I)
    BY <2>4
  <2> HIDE DEF kept, keep
  <2>6. /\ p \in [DOMAIN kept -> I]
        /\ \A k \in DOMAIN kept : kept[k] = msgs[p[k]]
        /\ \A k, l \in DOMAIN kept : k < l => p[k] < p[l]
        /\ \A i \in I : \E k \in DOMAIN kept : p[k] = i
    BY <2>5 DEF Embeds
  <2>7. /\ DOMAIN msgs = 1..Len(msgs) /\ Len(msgs) \in Nat
        /\ \A i \in DOMAIN msgs : msgs[i] \in MessageRec
        /\ DOMAIN kept = 1..Len(kept) /\ Len(kept) \in Nat
    BY <2>4, MessagesOf
  <2>8. DOMAIN out = DOMAIN kept /\ \A k \in DOMAIN kept : out[k] = OnlyCalls(msgs[p[k]], keep)
    BY <2>6
  <2>9. ASSUME NEW k \in DOMAIN kept
        PROVE  /\ p[k] \in I /\ p[k] \in DOMAIN msgs
               /\ out[k] \in MessageRec
               /\ out[k].role = msgs[p[k]].role
               /\ out[k].answers = msgs[p[k]].answers
               /\ CallsOf(out[k]) = CallsOf(msgs[p[k]]) \cap keep
    <3>1. p[k] \in I /\ p[k] \in DOMAIN msgs
      BY <2>6
    <3>2. msgs[p[k]] \in MessageRec
      BY <2>7, <3>1
    <3> HIDE DEF out, I
    <3>3. QED
      BY <2>8, <3>1, <3>2, CallsKept
  <2>10. out \in Msgs
    <3>1. out = [k \in 1..Len(kept) |-> out[k]]
      BY <2>7
    <3> HIDE DEF out
    <3>2. out \in [1..Len(kept) -> MessageRec]
      BY <2>7, <2>9, <3>1
    <3>3. QED
      BY <2>7, <3>2, SeqDef DEF Msgs
  <2> HIDE DEF out
  <2>11. NoDevelopers(out)
    BY <2>8, <2>9 DEF NoDevelopers
  <2>12. CallIds(out) = keep
    <3>1. \A a : a \in CallIds(out) <=> a # NoId /\ \E k \in DOMAIN out : a \in CallsOf(out[k])
      BY NamedIds
    <3>2. ASSUME NEW a, a \in CallIds(out)
          PROVE  a \in keep
      BY <2>8, <2>9, <3>1, <3>2
    <3>3. ASSUME NEW a \in keep
          PROVE  a \in CallIds(out)
      <4>1. PICK i \in DOMAIN msgs : a \in CallsOf(msgs[i])
        BY <2>2
      <4>2. PICK k \in DOMAIN kept : p[k] = i
        BY <2>3, <2>6, <4>1
      <4>3. a \in CallsOf(out[k])
        BY <2>9, <4>1, <4>2
      <4>4. QED
        BY <2>2, <2>8, <3>1, <4>3
    <3>4. QED
      BY <3>2, <3>3
  <2>13. ResultIds(out) = keep
    <3>1. \A a : a \in ResultIds(out) <=>
            a # NoId /\ \E k \in DOMAIN out : out[k].role = "tool" /\ out[k].answers = a
      BY NamedIds
    <3>2. ASSUME NEW a, a \in ResultIds(out)
          PROVE  a \in keep
      BY <2>8, <2>9, <3>1, <3>2
    <3>3. ASSUME NEW a \in keep
          PROVE  a \in ResultIds(out)
      <4>1. PICK i \in DOMAIN msgs : msgs[i].role = "tool" /\ msgs[i].answers = a
        BY <2>2
      <4>2. PICK k \in DOMAIN kept : p[k] = i
        BY <2>6, <4>1
      <4>3. out[k].role = "tool" /\ out[k].answers = a
        BY <2>9, <4>1, <4>2
      <4>4. QED
        BY <2>2, <2>8, <3>1, <4>3
    <3>4. QED
      BY <3>2, <3>3
  <2>14. ASSUME Adjacent(msgs)
         PROVE  Adjacent(out)
    <3>1. ASSUME NEW j \in DOMAIN out, NEW i \in DOMAIN msgs,
                 out[j].role = "tool", out[j].answers \in CallsOf(msgs[i])
          PROVE  \E k \in DOMAIN out : p[k] = i /\ out[j].answers \in CallsOf(out[k])
      <4>1. out[j].answers \in keep
        BY <2>8, <2>9, <3>1
      <4>2. PICK k \in DOMAIN kept : p[k] = i
        BY <2>3, <2>6, <3>1
      <4>3. out[j].answers \in CallsOf(out[k])
        BY <2>9, <3>1, <4>1, <4>2
      <4>4. QED
        BY <2>8, <4>2, <4>3
    <3>2. p \in [DOMAIN out -> DOMAIN msgs]
      BY <2>6, <2>8, <2>9
    <3>3. /\ \A k, l \in DOMAIN out : k < l => p[k] < p[l]
          /\ \A k \in DOMAIN out : /\ out[k].role = msgs[p[k]].role
                                   /\ out[k].answers = msgs[p[k]].answers
      BY <2>6, <2>8, <2>9
    <3> HIDE DEF I
    <3>4. QED
      BY <2>10, <2>14, <3>1, <3>2, <3>3, AdjacentKept
  <2>15. QED
    BY <2>1, <2>10, <2>11, <2>12, <2>13, <2>14 DEF Paired
<1>3. QED
  BY <1>1, <1>2

\* A system message before the others changes nothing else.
LEMMA Headed ==
  ASSUME NEW m \in MessageRec, m.role = "system", NEW msgs \in Msgs
  PROVE  LET out == <<m>> \o msgs
         IN /\ out \in Msgs /\ out # <<>> /\ out[1].role = "system"
            /\ NoDevelopers(msgs) => NoDevelopers(out)
            /\ Paired(msgs) => Paired(out)
            /\ Adjacent(msgs) => Adjacent(out)
<1> DEFINE x == <<m>>
           out == x \o msgs
<1>1. x \in Msgs /\ Len(x) = 1 /\ DOMAIN x = {1} /\ x[1] = m
  BY Alone
<1> HIDE DEF x
<1>2. /\ out \in Msgs
      /\ \A i \in DOMAIN x : i \in DOMAIN out /\ out[i] = x[i]
      /\ \A i \in DOMAIN msgs : Len(x) + i \in DOMAIN out /\ out[Len(x) + i] = msgs[i]
      /\ \A i \in DOMAIN out : i \in DOMAIN x \/ \E k \in DOMAIN msgs : i = Len(x) + k
  BY <1>1, Joined
<1> HIDE DEF out
<1>3. /\ 1 \in DOMAIN out /\ out[1] = m
      /\ \A i \in DOMAIN msgs : 1 + i \in DOMAIN out /\ out[1 + i] = msgs[i]
      /\ \A i \in DOMAIN out : out[i] = m \/ \E k \in DOMAIN msgs : out[i] = msgs[k]
  BY <1>1, <1>2
<1>4. m.role # "tool" /\ m.role # "developer" /\ CallsOf(m) = {}
  BY DEF CallsOf
<1>5. out # <<>>
  BY <1>3
<1>6. NoDevelopers(msgs) => NoDevelopers(out)
  BY <1>3, <1>4 DEF NoDevelopers
<1>7. CallIds(out) = CallIds(msgs)
  <2>1. /\ \A a : a \in CallIds(out) <=> a # NoId /\ \E i \in DOMAIN out : a \in CallsOf(out[i])
        /\ \A a : a \in CallIds(msgs) <=> a # NoId /\ \E i \in DOMAIN msgs : a \in CallsOf(msgs[i])
    BY NamedIds
  <2>2. \A a : (\E i \in DOMAIN out : a \in CallsOf(out[i])) <=>
               (\E i \in DOMAIN msgs : a \in CallsOf(msgs[i]))
    BY <1>3, <1>4
  <2>3. QED
    BY <2>1, <2>2
<1>8. ResultIds(out) = ResultIds(msgs)
  <2> DEFINE Answers(ms, a) == \E i \in DOMAIN ms : ms[i].role = "tool" /\ ms[i].answers = a
  <2>1. /\ \A a : a \in ResultIds(out) <=> a # NoId /\ Answers(out, a)
        /\ \A a : a \in ResultIds(msgs) <=> a # NoId /\ Answers(msgs, a)
    BY NamedIds
  <2>2. \A a : Answers(out, a) <=> Answers(msgs, a)
    BY <1>3, <1>4
  <2>3. QED
    BY <2>1, <2>2
<1>9. ASSUME Adjacent(msgs)
      PROVE  Adjacent(out)
  <2>1. Adjacent(x)
    BY <1>1, <1>4 DEF Adjacent
  <2>2. QED
    BY <1>1, <1>9, <2>1, AdjacentJoined DEF out
<1>10. QED
  BY <1>2, <1>3, <1>5, <1>6, <1>7, <1>8, <1>9 DEF Paired, out, x

\* Notices may be left out: they neither call nor answer.
LEMMA NoticesDropped ==
  ASSUME NEW msgs \in Msgs, NEW I \in SUBSET DOMAIN msgs,
         \A i \in DOMAIN msgs \ I : IsNotice(msgs[i])
  PROVE  LET out == AtPositions(msgs, I)
         IN /\ out \in Msgs
            /\ NoDevelopers(msgs) => NoDevelopers(out)
            /\ Paired(msgs) => Paired(out)
            /\ Adjacent(msgs) => Adjacent(out)
<1> DEFINE out == AtPositions(msgs, I)
<1>1. out \in Msgs /\ \E p : Embeds(p, out, msgs, I)
  BY Keeps DEF Msgs
<1>2. PICK p : Embeds(p, out, msgs, I)
  BY <1>1
<1> HIDE DEF out
<1>3. /\ p \in [DOMAIN out -> I]
      /\ \A k \in DOMAIN out : out[k] = msgs[p[k]]
      /\ \A k, l \in DOMAIN out : k < l => p[k] < p[l]
      /\ \A i \in I : \E k \in DOMAIN out : p[k] = i
  BY <1>2 DEF Embeds
<1>4. p \in [DOMAIN out -> DOMAIN msgs]
  BY <1>3
<1>5. /\ \A i \in DOMAIN msgs : msgs[i].role = "tool" => i \in I
      /\ \A i \in DOMAIN msgs : \A a \in CallsOf(msgs[i]) : i \in I
  BY DEF CallsOf, IsNotice
<1>6. NoDevelopers(msgs) => NoDevelopers(out)
  BY <1>3 DEF NoDevelopers
<1>7. CallIds(out) = CallIds(msgs)
  <2> DEFINE Calls(ms, a) == \E i \in DOMAIN ms : a \in CallsOf(ms[i])
  <2>1. /\ \A a : a \in CallIds(out) <=> a # NoId /\ Calls(out, a)
        /\ \A a : a \in CallIds(msgs) <=> a # NoId /\ Calls(msgs, a)
    BY NamedIds
  <2>2. \A a : Calls(out, a) <=> Calls(msgs, a)
    BY <1>3, <1>5
  <2>3. QED
    BY <2>1, <2>2
<1>8. ResultIds(out) = ResultIds(msgs)
  <2> DEFINE Answers(ms, a) == \E i \in DOMAIN ms : ms[i].role = "tool" /\ ms[i].answers = a
  <2>1. /\ \A a : a \in ResultIds(out) <=> a # NoId /\ Answers(out, a)
        /\ \A a : a \in ResultIds(msgs) <=> a # NoId /\ Answers(msgs, a)
    BY NamedIds
  <2>2. \A a : Answers(out, a) <=> Answers(msgs, a)
    BY <1>3, <1>5
  <2>3. QED
    BY <2>1, <2>2
<1>9. ASSUME Adjacent(msgs)
      PROVE  Adjacent(out)
  <2>1. \A j \in DOMAIN out, i \in DOMAIN msgs :
          out[j].role = "tool" /\ out[j].answers \in CallsOf(msgs[i]) =>
            \E k \in DOMAIN out : p[k] = i /\ out[j].answers \in CallsOf(out[k])
    BY <1>3, <1>5
  <2>2. \A k \in DOMAIN out : out[k].role = msgs[p[k]].role /\ out[k].answers = msgs[p[k]].answers
    BY <1>3
  <2>3. \A k, l \in DOMAIN out : k < l => p[k] < p[l]
    BY <1>3
  <2>4. QED
    BY <1>1, <1>4, <1>9, <2>1, <2>2, <2>3, AdjacentKept
<1>10. QED
  BY <1>1, <1>6, <1>7, <1>8, <1>9 DEF Paired, out

\* The system message that is made up.
LEMMA SystemMessage == Message("system") \in MessageRec /\ Message("system").role = "system"
BY IdAssumption DEF Message, MessageRec, Roles

\* What may go upstream: typed, a system message first, calls and results paired.
Upstream(msgs) ==
  /\ msgs \in Msgs
  /\ msgs # <<>> => msgs[1].role = "system"
  /\ NoDevelopers(msgs)
  /\ Paired(msgs)

\* The head becomes the system's.
LEMMA LedBySystem ==
  ASSUME NEW msgs \in Msgs, NoDevelopers(msgs), Paired(msgs)
  PROVE  LET out == EnsureLeadingSystem(msgs)
         IN Upstream(out) /\ (Adjacent(msgs) => Adjacent(out))
<1> DEFINE systems == {i \in DOMAIN msgs : msgs[i].role = "system"}
<1>1. CASE msgs = <<>>
  <2>1. EnsureLeadingSystem(msgs) = msgs
    BY <1>1 DEF EnsureLeadingSystem
  <2>2. QED
    BY <1>1, <2>1 DEF Upstream
<1>2. CASE msgs # <<>> /\ systems = {}
  <2>1. EnsureLeadingSystem(msgs) = <<Message("system")>> \o msgs
    BY <1>2 DEF EnsureLeadingSystem
  <2>2. QED
    BY <2>1, Headed, SystemMessage DEF Upstream
<1>3. CASE msgs # <<>> /\ systems # {}
  <2> DEFINE first == CHOOSE i \in systems : \A j \in systems : i <= j
             m == msgs[first]
             others == AtPositions(msgs, DOMAIN msgs \ {first})
  <2>1. first \in systems
    <3>1. systems \in SUBSET Nat
      BY MessagesOf
    <3> HIDE DEF systems
    <3>2. \E i \in systems : \A j \in systems : i <= j
      BY <1>3, <3>1, Least
    <3>3. QED
      BY <3>2
  <2>2. EnsureLeadingSystem(msgs) = <<m>> \o others
    BY <1>3 DEF EnsureLeadingSystem
  <2> HIDE DEF first
  <2>3. first \in DOMAIN msgs /\ m \in MessageRec /\ m.role = "system" /\ IsNotice(m)
    BY <2>1, MessagesOf DEF IsNotice
  <2>4. \A i \in DOMAIN msgs \ (DOMAIN msgs \ {first}) : IsNotice(msgs[i])
    BY <2>3
  <2>5. /\ others \in Msgs /\ NoDevelopers(others) /\ Paired(others)
        /\ Adjacent(msgs) => Adjacent(others)
    BY <2>4, NoticesDropped
  <2> HIDE DEF others, m
  <2> DEFINE out == <<m>> \o others
  <2>6. /\ out \in Msgs /\ out[1].role = "system" /\ NoDevelopers(out) /\ Paired(out)
        /\ Adjacent(others) => Adjacent(out)
    BY <2>3, <2>5, Headed
  <2> HIDE DEF out
  <2>7. Upstream(out) /\ (Adjacent(msgs) => Adjacent(out))
    BY <2>5, <2>6 DEF Upstream
  <2>8. QED
    BY <2>2, <2>7 DEF out
<1>4. QED
  BY <1>1, <1>2, <1>3

\* PreparePayload makes messages that may go upstream of any history.
LEMMA Prepared ==
  ASSUME NEW msgs \in Msgs
  PROVE  LET out == PrepareMessages(msgs)
         IN Upstream(out) /\ (InOrder(msgs) => Adjacent(out))
<1> DEFINE roles == NormalizeRoles(msgs)
           packed == RepackToolResultBlocks(roles)
           clean == CleanupOrphanToolCalls(packed)
           out == EnsureLeadingSystem(clean)
<1>1. roles \in Msgs /\ NoDevelopers(roles) /\ (InOrder(msgs) => Closed(roles, 1))
  BY RolesNormalized
<1> HIDE DEF roles
<1>2. /\ packed \in Msgs
      /\ \A k \in DOMAIN packed : packed[k] \in From(roles, 1)
      /\ Closed(roles, 1) => Adjacent(packed)
  BY <1>1, Repacked
<1> HIDE DEF packed
<1>3. NoDevelopers(packed)
  <2>1. \A m \in From(roles, 1) : m.role # "developer"
    BY <1>1, MessagesOf DEF From, NoDevelopers
  <2>2. QED
    BY <1>2, <2>1 DEF NoDevelopers
<1>4. /\ clean \in Msgs /\ NoDevelopers(clean) /\ Paired(clean)
      /\ Adjacent(packed) => Adjacent(clean)
  BY <1>2, <1>3, Cleaned
<1> HIDE DEF clean
<1>5. Upstream(out) /\ (Adjacent(clean) => Adjacent(out))
  BY <1>4, LedBySystem
<1>6. PrepareMessages(msgs) = out
  BY DEF PrepareMessages, out, clean, packed, roles
<1> HIDE DEF out
<1>7. Upstream(out) /\ (InOrder(msgs) => Adjacent(out))
  BY <1>1, <1>2, <1>4, <1>5
<1>8. QED
  BY <1>6, <1>7

\* The neutral form of such messages may go upstream too.
LEMMA Neutralized ==
  ASSUME NEW msgs, Upstream(msgs)
  PROVE  LET out == Neutral(msgs)
         IN Upstream(out) /\ (Adjacent(msgs) => Adjacent(out))
<1> DEFINE I == DOMAIN msgs \ Notices(msgs)
           rest == AtPositions(msgs, I)
           out == <<Message("system")>> \o rest
<1>1. /\ msgs \in Msgs /\ NoDevelopers(msgs) /\ Paired(msgs)
      /\ \A i \in DOMAIN msgs \ I : IsNotice(msgs[i])
  BY DEF Upstream, Notices
<1>2. /\ rest \in Msgs /\ NoDevelopers(rest) /\ Paired(rest)
      /\ Adjacent(msgs) => Adjacent(rest)
  BY <1>1, NoticesDropped
<1> HIDE DEF rest
<1>3. /\ out \in Msgs /\ out[1].role = "system" /\ NoDevelopers(out) /\ Paired(out)
      /\ Adjacent(rest) => Adjacent(out)
  BY <1>2, Headed, SystemMessage
<1>4. Neutral(msgs) = out
  BY DEF Neutral, WithoutNotices, rest
<1> HIDE DEF out
<1>5. Upstream(out) /\ (Adjacent(msgs) => Adjacent(out))
  BY <1>2, <1>3 DEF Upstream
<1>6. QED
  BY <1>4, <1>5

----------------------------------------------------------------------------
(***************************************************************************)
(* Efforts and the fields next to the messages                             *)
(***************************************************************************)

AnyEffort == EffortRanks \cup {NoEffort}

\* The level that goes upstream is one of the model's, above the one asked for
\* only if all are.
LEMMA EffortChosen ==
  ASSUME NEW asked \in AnyEffort, NEW levels \in SUBSET EffortRanks
  PROVE  LET chosen == NormalizeReasoningEffort(asked, levels)
         IN /\ chosen \in AnyEffort
            /\ asked # NoEffort /\ levels # {} =>
                 chosen \in levels /\ (chosen > asked => \A l \in levels : l > asked)
<1> DEFINE atMost == {e \in levels : e <= asked}
           chosen == NormalizeReasoningEffort(asked, levels)
<1>1. asked \in Nat /\ levels \in SUBSET Nat /\ atMost \in SUBSET (0..asked)
  <2>1. asked \in Nat /\ \A l \in levels : l \in Nat
    BY DEF AnyEffort, EffortRanks, NoEffort
  <2>2. \A l \in levels : l <= asked => l \in 0..asked
    BY <2>1
  <2>3. QED
    BY <2>1, <2>2
<1>2. CASE asked = NoEffort \/ levels = {}
  BY <1>2 DEF NormalizeReasoningEffort
<1>3. CASE asked # NoEffort /\ levels # {} /\ atMost # {}
  <2>1. chosen = CHOOSE e \in atMost : \A d \in atMost : d <= e
    BY <1>3 DEF NormalizeReasoningEffort
  <2> HIDE DEF atMost
  <2>2. \E e \in atMost : \A d \in atMost : d <= e
    BY <1>1, <1>3, Greatest
  <2> HIDE DEF chosen
  <2>3. chosen \in atMost
    BY <2>1, <2>2
  <2>4. chosen \in levels /\ chosen <= asked /\ chosen \in Nat
    BY <1>1, <2>3 DEF atMost
  <2>5. ~(chosen > asked)
    BY <1>1, <2>4
  <2>6. QED
    BY <2>4, <2>5 DEF AnyEffort, chosen
<1>4. CASE asked # NoEffort /\ levels # {} /\ atMost = {}
  <2>1. chosen = CHOOSE e \in levels : \A d \in levels : e <= d
    BY <1>4 DEF NormalizeReasoningEffort
  <2>2. \A l \in levels : l > asked
    BY <1>1, <1>4
  <2> HIDE DEF chosen
  <2>3. chosen \in levels
    BY <1>1, <1>4, <2>1, Least
  <2>4. QED
    BY <2>2, <2>3 DEF AnyEffort, chosen
<1>5. QED
  BY <1>2, <1>3, <1>4

NoChat == [msgs |-> <<>>]
BodyRec == [msgs : Msgs, maxTokens : Nat, toolChoice : {"absent", "auto"} \cup STRING,
            tools : BOOLEAN, effort : AnyEffort]

\* The fields of a prepared body.
LEMMA FieldsPrepared ==
  ASSUME NEW c \in ChatRec
  PROVE  /\ MaxTokens(c.maxTokens, c.maxCompletionTokens) \in Nat
         /\ NormalizeToolChoice(c.toolChoice) \in {"absent", "auto"} \cup STRING
         /\ (c.tools /\ KeepsTools(c.toolChoice)) \in BOOLEAN
<1>1. /\ c.maxTokens \in Nat /\ c.maxCompletionTokens \in Nat
      /\ c.toolChoice.type \in STRING /\ c.toolChoice.name \in STRING
  BY DEF ChatRec
<1>2. MaxTokens(c.maxTokens, c.maxCompletionTokens) \in Nat
  BY <1>1 DEF MaxTokens, DefaultMaxTokens
<1>3. NormalizeToolChoice(c.toolChoice) \in {"absent", "auto"} \cup STRING
  BY <1>1 DEF NormalizeToolChoice
<1>4. (c.tools /\ KeepsTools(c.toolChoice)) \in BOOLEAN
  OBVIOUS
<1>5. QED
  BY <1>2, <1>3, <1>4

----------------------------------------------------------------------------
(***************************************************************************)
(* Requests                                                                *)
(***************************************************************************)

RequestRec ==
  [at : {"idle", "resolve", "prepare", "send", "resend"}, auth : Auths,
   asked : Asked \cup {<<>>}, effort : AnyEffort, model : Text, chat : Chats \cup {NoChat},
   body : BodyRec \cup {NoChat}, replaced : BOOLEAN]

\* What a request carries, as far as it got.
Ready(q) ==
  /\ q.at # "idle" => q.chat \in Chats
  /\ q.at \in {"send", "resend"} =>
       /\ q.body \in BodyRec
       /\ Upstream(q.body.msgs)
       /\ InOrder(q.chat.msgs) => Adjacent(q.body.msgs)

\* Model and effort are those of the accounts' lists, while these are not replaced.
Current(q, lists) ==
  LET record == Lookup(lists[q.auth], q.asked)
  IN ~q.replaced =>
       /\ q.at \in {"prepare", "send"} => q.model = record.internal /\ q.model # <<>>
       /\ q.at = "send" => q.body.effort = NormalizeReasoningEffort(q.effort, record.efforts)

PathInv ==
  /\ RegistryInv
  /\ requests \in [Requests -> RequestRec]
  /\ \A r \in Requests : Ready(requests[r]) /\ Current(requests[r], byAuth)

\* What looking up a public id finds.
LEMMA LookedUp ==
  ASSUME NEW bucket, IsBucket(bucket), NEW p
  PROVE  LET record == Lookup(bucket, p)
         IN /\ record.internal \in Text /\ record.efforts \subseteq EffortRanks
            /\ record.internal # <<>> => \E q \in DOMAIN bucket : record = bucket[q]
<1>1. \A q \in DOMAIN bucket :
        bucket[q].internal \in Text \ {<<>>} /\ bucket[q].efforts \subseteq EffortRanks
  BY BucketShape
<1>2. NoRecord.internal = <<>> /\ NoRecord.efforts = {} /\ <<>> \in Text
  BY DEF NoRecord, Text
<1>3. Lookup(bucket, p) = NoRecord \/ \E q \in DOMAIN bucket : Lookup(bucket, p) = bucket[q]
  BY DEF Lookup, RecordAt
<1>4. QED
  BY <1>1, <1>2, <1>3

\* A request that has not come.
LEMMA NoRequestType ==
  /\ NoRequest \in RequestRec
  /\ Ready(NoRequest)
  /\ \A lists : Current(NoRequest, lists)
<1>1. (CHOOSE a \in Auths : TRUE) \in Auths
  BY RegistryAssumption
<1>2. <<>> \in Text
  BY DEF Text
<1>3. NoRequest \in RequestRec
  BY <1>1, <1>2 DEF NoRequest, RequestRec, NoChat, AnyEffort
<1>4. Ready(NoRequest) /\ \A lists : Current(NoRequest, lists)
  BY DEF NoRequest, Ready, Current
<1>5. QED
  BY <1>3, <1>4

\* A step of one request keeps the invariant.
LEMMA RequestMoves ==
  ASSUME PathInv, NEW r \in Requests, NEW q \in RequestRec, Ready(q), Current(q, byAuth),
         requests' = [requests EXCEPT ![r] = q], UNCHANGED registryVars
  PROVE  PathInv'
<1>1. RegistryInv'
  BY RegistrySteps DEF PathInv
<1>2. byAuth' = byAuth
  BY DEF registryVars
<1>3. /\ requests \in [Requests -> RequestRec]
      /\ \A s \in Requests : Ready(requests[s]) /\ Current(requests[s], byAuth)
  BY DEF PathInv
<1>4. requests' \in [Requests -> RequestRec]
  BY <1>3
<1>5. ASSUME NEW s \in Requests
      PROVE  Ready(requests'[s]) /\ Current(requests'[s], byAuth')
  <2>1. requests'[s] = IF s = r THEN q ELSE requests[s]
    BY <1>3
  <2>2. QED
    BY <1>2, <1>3, <2>1
<1>6. \A s \in Requests : (Ready(requests[s]) /\ Current(requests[s], byAuth))'
  <2>1. ASSUME NEW s \in Requests
        PROVE  (Ready(requests[s]) /\ Current(requests[s], byAuth))'
    BY <1>5 DEF Ready, Current
  <2>2. QED
    BY <2>1
<1>7. QED
  BY <1>1, <1>4, <1>6 DEF PathInv

\* A request that goes on keeps what it was.
LEMMA Resolves ==
  ASSUME PathInv, NEW r \in Requests, ResolveModel(r)
  PROVE  PathInv'
<1>1. PICK q : q = requests[r]
  OBVIOUS
<1> DEFINE model == Resolve(q.auth, q.asked)
           next == [q EXCEPT !.at = "prepare", !.model = model]
<1>2. q \in RequestRec /\ Ready(q) /\ Current(q, byAuth) /\ q.at = "resolve" /\ q.auth \in Auths
  BY <1>1 DEF PathInv, RequestRec, ResolveModel
<1>3. UNCHANGED registryVars
  BY DEF ResolveModel
<1>4. CASE model = <<>>
  <2>1. requests' = [requests EXCEPT ![r] = NoRequest]
    BY <1>1, <1>4 DEF ResolveModel
  <2>2. QED
    BY <1>3, <2>1, NoRequestType, RequestMoves
<1>5. CASE model # <<>>
  <2>1. requests' = [requests EXCEPT ![r] = next]
    BY <1>1, <1>5 DEF ResolveModel
  <2>2. model \in Text
    BY <1>2, LookedUp DEF PathInv, RegistryInv, Resolve
  <2>3. /\ next \in RequestRec /\ next.at = "prepare" /\ next.model = model
        /\ next.chat = q.chat /\ next.auth = q.auth /\ next.asked = q.asked
    BY <1>2, <2>2 DEF RequestRec
  <2> HIDE DEF next
  <2>4. Ready(next)
    BY <1>2, <2>3 DEF Ready
  <2>5. Current(next, byAuth)
    BY <1>5, <2>3 DEF Current, Resolve
  <2>6. QED
    BY <1>3, <2>1, <2>3, <2>4, <2>5, RequestMoves
<1>6. QED
  BY <1>4, <1>5

\* Preparing the payload.
LEMMA Prepares ==
  ASSUME PathInv, NEW r \in Requests, PreparePayload(r)
  PROVE  PathInv'
<1>1. PICK q : q = requests[r]
  OBVIOUS
<1> DEFINE c == q.chat
           effort == NormalizeReasoningEffort(q.effort, Efforts(q.auth, q.asked))
           body == [msgs |-> PrepareMessages(c.msgs),
                    maxTokens |-> MaxTokens(c.maxTokens, c.maxCompletionTokens),
                    toolChoice |-> NormalizeToolChoice(c.toolChoice),
                    tools |-> c.tools /\ KeepsTools(c.toolChoice),
                    effort |-> effort]
           next == [q EXCEPT !.at = "send", !.body = body]
<1>2. /\ q \in RequestRec /\ Ready(q) /\ Current(q, byAuth) /\ q.at = "prepare"
      /\ q.auth \in Auths /\ q.effort \in AnyEffort
  BY <1>1 DEF PathInv, RequestRec, PreparePayload
<1>3. UNCHANGED registryVars /\ requests' = [requests EXCEPT ![r] = next]
  <2>1. requests' = [requests EXCEPT ![r].at = "send", ![r].body = body]
    BY <1>1 DEF PreparePayload
  <2> HIDE DEF body
  <2>2. requests' = [requests EXCEPT ![r] = next]
    BY <1>1, <2>1 DEF PathInv
  <2>3. QED
    BY <2>2 DEF PreparePayload
<1>4. c \in ChatRec
  <2>1. c \in Chats
    BY <1>2 DEF Ready
  <2>2. QED
    BY <2>1, PathAssumption
<1>5. c.msgs \in Msgs
  BY <1>4 DEF ChatRec, Msgs
<1>6. /\ Upstream(PrepareMessages(c.msgs))
      /\ InOrder(c.msgs) => Adjacent(PrepareMessages(c.msgs))
  BY <1>5, Prepared
<1>7. effort \in AnyEffort
  <2>1. Efforts(q.auth, q.asked) \in SUBSET EffortRanks
    BY <1>2, LookedUp DEF PathInv, RegistryInv, Efforts
  <2>2. QED
    BY <1>2, <2>1, EffortChosen
<1>8. body \in BodyRec
  <2>1. PrepareMessages(c.msgs) \in Msgs
    BY <1>6 DEF Upstream
  <2> HIDE DEF effort, c
  <2>2. QED
    BY <1>4, <1>7, <2>1, FieldsPrepared DEF BodyRec
<1>9. body.msgs = PrepareMessages(c.msgs) /\ body.effort = effort
  OBVIOUS
<1> HIDE DEF body
<1>10. /\ next \in RequestRec /\ next.at = "send" /\ next.body = body /\ next.model = q.model
       /\ next.chat = c /\ next.auth = q.auth /\ next.asked = q.asked
       /\ next.effort = q.effort /\ next.replaced = q.replaced
  BY <1>2, <1>8 DEF RequestRec
<1> HIDE DEF next
<1>11. Ready(next)
  BY <1>2, <1>6, <1>8, <1>9, <1>10 DEF Ready
<1>12. Current(next, byAuth)
  <2>1. q.at \in {"prepare", "send"}
    BY <1>2
  <2>2. next.body.effort = NormalizeReasoningEffort(next.effort, Lookup(byAuth[next.auth], next.asked).efforts)
    BY <1>9, <1>10 DEF Efforts
  <2>3. QED
    BY <1>2, <1>10, <2>1, <2>2 DEF Current
<1>13. QED
  BY <1>3, <1>10, <1>11, <1>12, RequestMoves

\* The neutral form.
LEMMA Neutralizes ==
  ASSUME PathInv, NEW r \in Requests, Neutralize(r)
  PROVE  PathInv'
<1>1. PICK q : q = requests[r]
  OBVIOUS
<1> DEFINE body == [q.body EXCEPT !.msgs = Neutral(q.body.msgs)]
           next == [q EXCEPT !.at = "resend", !.body = body]
<1>2. q \in RequestRec /\ Ready(q) /\ q.at = "send"
  BY <1>1 DEF PathInv, Neutralize
<1>3. /\ q.body \in BodyRec /\ Upstream(q.body.msgs)
      /\ InOrder(q.chat.msgs) => Adjacent(q.body.msgs)
  BY <1>2 DEF Ready
<1>4. UNCHANGED registryVars /\ requests' = [requests EXCEPT ![r] = next]
  <2>1. requests' = [requests EXCEPT ![r].at = "resend", ![r].body.msgs = Neutral(@)]
    BY DEF Neutralize
  <2>2. requests' = [requests EXCEPT ![r] = next]
    BY <1>1, <2>1 DEF PathInv
  <2>3. QED
    BY <2>2 DEF Neutralize
<1>5. /\ Upstream(Neutral(q.body.msgs))
      /\ Adjacent(q.body.msgs) => Adjacent(Neutral(q.body.msgs))
  BY <1>3, Neutralized
<1>6. body \in BodyRec /\ body.msgs = Neutral(q.body.msgs)
  <2>1. Neutral(q.body.msgs) \in Msgs
    BY <1>5 DEF Upstream
  <2>2. QED
    BY <1>3, <2>1 DEF BodyRec
<1> HIDE DEF body
<1>7. /\ next \in RequestRec /\ next.at = "resend" /\ next.body = body /\ next.chat = q.chat
  BY <1>2, <1>6 DEF RequestRec
<1> HIDE DEF next
<1>8. Ready(next)
  BY <1>2, <1>3, <1>5, <1>6, <1>7 DEF Ready
<1>9. Current(next, byAuth)
  BY <1>7 DEF Current
<1>10. QED
  BY <1>4, <1>7, <1>8, <1>9, RequestMoves

\* A request that comes.
LEMMA Comes ==
  ASSUME PathInv, NEW r \in Requests, NEW auth \in Auths, NEW asked \in Asked,
         NEW effort \in AnyEffort, NEW chat \in Chats, Receive(r, auth, asked, effort, chat)
  PROVE  PathInv'
<1> DEFINE next == [NoRequest EXCEPT !.at = "resolve", !.auth = auth, !.asked = asked,
                                     !.effort = effort, !.chat = chat]
<1>1. UNCHANGED registryVars /\ requests' = [requests EXCEPT ![r] = next]
  BY DEF Receive
<1>2. next \in RequestRec /\ next.at = "resolve" /\ next.chat = chat
  BY NoRequestType DEF RequestRec
<1> HIDE DEF next
<1>3. Ready(next) /\ Current(next, byAuth)
  BY <1>2 DEF Ready, Current
<1>4. QED
  BY <1>1, <1>2, <1>3, RequestMoves

\* A fetch: requests whose account's list is replaced know it.
LEMMA Fetched ==
  ASSUME PathInv, FetchStep
  PROVE  PathInv'
<1>1. /\ RegistryInv
      /\ requests \in [Requests -> RequestRec]
      /\ \A r \in Requests : Ready(requests[r]) /\ Current(requests[r], byAuth)
  BY DEF PathInv
<1>2. RegistryInv'
  BY <1>1, RegistrySteps DEF FetchStep
<1> DEFINE Replaced(r) ==
             \/ requests[r].replaced
             \/ /\ requests[r].at \in {"prepare", "send"}
                /\ byAuth'[requests[r].auth] # byAuth[requests[r].auth]
<1>3. requests' = [r \in Requests |-> [requests[r] EXCEPT !.replaced = Replaced(r)]]
  <2>1. requests' = [r \in Requests |->
          [requests[r] EXCEPT !.replaced =
             @ \/ (requests[r].at \in {"prepare", "send"}
                   /\ byAuth'[requests[r].auth] # byAuth[requests[r].auth])]]
    BY DEF FetchStep
  <2>2. QED
    BY <1>1, <2>1 DEF RequestRec
<1>4. ASSUME NEW r \in Requests
      PROVE  /\ requests'[r] \in RequestRec
             /\ Ready(requests'[r]) /\ Current(requests'[r], byAuth')
  <2>1. PICK q : q = requests[r]
    OBVIOUS
  <2>2. PICK b \in BOOLEAN : b = Replaced(r)
    BY <1>1 DEF RequestRec
  <2>3. q \in RequestRec /\ Ready(q) /\ Current(q, byAuth)
    BY <1>1, <2>1
  <2>4. b = (q.replaced \/ (q.at \in {"prepare", "send"} /\ byAuth'[q.auth] # byAuth[q.auth]))
    BY <2>1, <2>2
  <2> HIDE DEF Replaced
  <2>5. requests'[r] = [q EXCEPT !.replaced = b]
    BY <1>3, <2>1, <2>2
  <2>6. PICK n : n = requests'[r]
    OBVIOUS
  <2>7. /\ n \in RequestRec /\ n.replaced = b
        /\ n.at = q.at /\ n.auth = q.auth /\ n.asked = q.asked /\ n.effort = q.effort
        /\ n.model = q.model /\ n.chat = q.chat /\ n.body = q.body
    BY <2>3, <2>5, <2>6 DEF RequestRec
  <2>8. Ready(n)
    BY <2>3, <2>7 DEF Ready
  <2>9. Current(n, byAuth')
    <3>1. CASE b
      BY <2>7, <3>1 DEF Current
    <3>2. CASE ~b /\ n.at \in {"prepare", "send"}
      <4>1. ~q.replaced /\ byAuth'[q.auth] = byAuth[q.auth]
        BY <2>4, <2>7, <3>2
      <4>2. QED
        BY <2>3, <2>7, <4>1 DEF Current
    <3>3. CASE n.at \notin {"prepare", "send"}
      BY <3>3 DEF Current
    <3>4. QED
      BY <3>1, <3>2, <3>3
  <2>10. QED
    BY <2>6, <2>7, <2>8, <2>9
<1>5. requests' \in [Requests -> RequestRec]
  BY <1>3, <1>4
<1>6. \A r \in Requests : (Ready(requests[r]) /\ Current(requests[r], byAuth))'
  <2>1. ASSUME NEW r \in Requests
        PROVE  (Ready(requests[r]) /\ Current(requests[r], byAuth))'
    BY <1>4 DEF Ready, Current
  <2>2. QED
    BY <2>1
<1>7. QED
  BY <1>2, <1>5, <1>6 DEF PathInv

\* What every reachable state satisfies.
THEOREM PathInvariant == PathSpec => []PathInv
<1>1. PathInit => PathInv
  <2>1. SUFFICES ASSUME PathInit
                 PROVE  PathInv
    OBVIOUS
  <2>2. RegistryInv
    BY <2>1, RegistryStarts DEF PathInit
  <2>3. requests = [r \in Requests |-> NoRequest]
    BY <2>1 DEF PathInit
  <2>4. QED
    BY <2>2, <2>3, NoRequestType DEF PathInv
<1>2. PathInv /\ [PathNext]_pathVars => PathInv'
  <2>1. SUFFICES ASSUME PathInv, [PathNext]_pathVars
                 PROVE  PathInv'
    OBVIOUS
  <2>2. CASE UNCHANGED pathVars
    <3>1. UNCHANGED registryVars /\ requests' = requests /\ byAuth' = byAuth
      BY <2>2 DEF pathVars, registryVars
    <3>2. RegistryInv'
      BY <2>1, <3>1, RegistrySteps DEF PathInv
    <3>3. QED
      BY <2>1, <3>1, <3>2 DEF PathInv, Ready, Current
  <2>3. ASSUME NEW r \in Requests, Finish(r)
        PROVE  PathInv'
    <3>1. UNCHANGED registryVars /\ requests' = [requests EXCEPT ![r] = NoRequest]
      BY <2>3 DEF Finish
    <3>2. QED
      BY <2>1, <3>1, NoRequestType, RequestMoves
  <2>4. ASSUME NEW r \in Requests, NEW auth \in Auths, NEW asked \in Asked,
               NEW effort \in EffortRanks \cup {NoEffort}, NEW chat \in Chats,
               Receive(r, auth, asked, effort, chat)
        PROVE  PathInv'
    BY <2>1, <2>4, Comes DEF AnyEffort
  <2>5. ASSUME NEW r \in Requests, Handle(r)
        PROVE  PathInv'
    BY <2>1, <2>3, <2>5, Resolves, Prepares, Neutralizes DEF Handle
  <2>6. CASE FetchStep
    BY <2>1, <2>6, Fetched
  <2>7. QED
    BY <2>1, <2>2, <2>4, <2>5, <2>6 DEF PathNext
<1>3. QED
  BY <1>1, <1>2, PTL DEF PathSpec

\* However fetches and their answers overlap, and whatever names and ids the
\* upstream gives: as long as no other fetch has stored a list since, every id
\* in the one the host has leads back to the model it was made for, with its
\* levels, in either form.
THEOREM OffersAlwaysResolve == PathSpec => []OffersResolve
<1>1. PathInv => OffersResolve
  BY Offers DEF PathInv
<1>2. QED
  BY <1>1, PathInvariant, PTL

\* Whatever the client's history, what goes upstream has the system first, no
\* developer, calls and results that answer each other, and the results of a
\* history in order next to their calls.
THEOREM AlwaysPaired == PathSpec => []PairedForUpstream
<1>1. PathInv => PairedForUpstream
  <2>1. SUFFICES ASSUME PathInv, NEW r \in Requests, Sent(r)
                 PROVE  LET msgs == requests[r].body.msgs
                        IN /\ msgs # <<>> => msgs[1].role = "system"
                           /\ \A i \in DOMAIN msgs : msgs[i].role # "developer"
                           /\ Paired(msgs)
                           /\ InOrder(requests[r].chat.msgs) => Adjacent(msgs)
    BY DEF PairedForUpstream
  <2>2. Ready(requests[r]) /\ requests[r].at \in {"send", "resend"}
    BY <2>1 DEF PathInv, Sent
  <2>3. QED
    BY <2>2 DEF Ready, Upstream, NoDevelopers
<1>2. QED
  BY <1>1, PathInvariant, PTL

\* The effort that goes upstream is a level of the model it goes with, and above
\* the one asked for only if all its levels are, unless the list was replaced.
THEOREM EffortAlwaysFits == PathSpec => []EffortFits
<1>1. PathInv => EffortFits
  <2>1. SUFFICES ASSUME PathInv, NEW r \in Requests, NEW q, q = requests[r],
                        NEW levels, levels = LevelsOf(q.auth, q.model),
                        q.at = "send", ~q.replaced, q.effort # NoEffort, levels # {}
                 PROVE  /\ q.body.effort \in levels
                        /\ q.body.effort > q.effort => \A l \in levels : l > q.effort
    BY DEF EffortFits
  <2>2. q \in RequestRec /\ Current(q, byAuth)
    BY <2>1 DEF PathInv
  <2> DEFINE bucket == byAuth[q.auth]
             record == Lookup(bucket, q.asked)
  <2>3. q.auth \in Auths /\ q.effort \in AnyEffort
    BY <2>2 DEF RequestRec
  <2>4. IsBucket(bucket)
    BY <2>1, <2>3 DEF PathInv, RegistryInv
  <2>5. /\ q.model = record.internal /\ q.model # <<>>
        /\ q.body.effort = NormalizeReasoningEffort(q.effort, record.efforts)
    BY <2>1, <2>2 DEF Current
  <2>6. LevelsOf(q.auth, q.model) =
          UNION {bucket[p].efforts : p \in {x \in DOMAIN bucket : bucket[x].internal = q.model}}
    BY DEF LevelsOf
  <2> HIDE DEF bucket
  <2>7. record.efforts \subseteq EffortRanks /\ \E p \in DOMAIN bucket : record = bucket[p]
    BY <2>4, <2>5, LookedUp
  <2> HIDE DEF record
  <2>8. PICK p \in DOMAIN bucket : record = bucket[p]
    BY <2>7
  <2>9. {x \in DOMAIN bucket : bucket[x].internal = q.model} = {p}
    BY <2>4, <2>5, <2>8, BucketShape
  <2>10. levels = record.efforts
    BY <2>1, <2>6, <2>8, <2>9
  <2>11. QED
    BY <2>1, <2>3, <2>5, <2>7, <2>10, EffortChosen
<1>2. QED
  BY <1>1, PathInvariant, PTL

\* Fetches and requests stay in their types.
THEOREM PathTypes == PathSpec => []PathTypeOK
<1>1. PathInv => PathTypeOK
  <2>1. SUFFICES ASSUME PathInv
                 PROVE  PathTypeOK
    OBVIOUS
  <2>2. /\ fetches \in [Fetches -> FetchRec]
        /\ \A f \in Fetches : fetches[f].ok <= fetches[f].asked /\ fetches[f].asked <= Len(UserAgents)
        /\ latest \in [Auths -> SUBSET (Fetches \cup {Host})]
        /\ \A a \in Auths : \A x, y \in latest[a] : x = y
    BY <2>1 DEF PathInv, RegistryInv
  <2>3. ASSUME NEW a \in Auths
        PROVE  latest[a] \subseteq Fetches \cup {Host} /\ Cardinality(latest[a]) <= 1
    <3>1. CASE latest[a] = {}
      <4>1. Cardinality(latest[a]) = 0
        BY <3>1, FS_EmptySet
      <4>2. QED
        BY <2>2, <4>1
    <3>2. ASSUME NEW f \in latest[a]
          PROVE  Cardinality(latest[a]) <= 1
      <4>1. latest[a] = {f}
        BY <2>2
      <4>2. Cardinality(latest[a]) = 1
        BY <4>1, FS_Singleton
      <4>3. QED
        BY <4>2
    <3>3. QED
      BY <2>2, <3>1, <3>2
  <2>4. \A f \in Fetches :
          /\ fetches[f].at \in {"idle", "asking", "stored"}
          /\ fetches[f].page \in BOOLEAN /\ fetches[f].auth \in Auths
    BY <2>2 DEF FetchRec
  <2>5. RegistryTypeOK
    BY <2>2, <2>3, <2>4 DEF RegistryTypeOK
  <2>6. \A r \in Requests : requests[r] \in RequestRec /\ Ready(requests[r])
    BY <2>1 DEF PathInv
  <2>7. ASSUME NEW r \in Requests
        PROVE  /\ requests[r].at \in {"idle", "resolve", "prepare", "send", "resend"}
               /\ requests[r].auth \in Auths
               /\ requests[r].effort \in EffortRanks \cup {NoEffort}
               /\ Sent(r) => requests[r].body.effort \in EffortRanks \cup {NoEffort}
    BY <2>6 DEF RequestRec, Ready, Sent, BodyRec, AnyEffort
  <2>8. QED
    BY <2>5, <2>7 DEF PathTypeOK
<1>2. QED
  BY <1>1, PathInvariant, PTL

=============================================================================
