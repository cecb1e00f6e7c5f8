---------------------------- MODULE UpkeepProofs ----------------------------
(***************************************************************************)
(* Proofs about the upkeep of the accounts.  DailyWakes, for any day, any  *)
(* tasks with their hours, draws and realms: the loop's invariant, and     *)
(* that a task runs at most twice a day and leaves out no two in a row.    *)
(* AccountTasks, for any accounts, fetchers, rewards and packages, and any *)
(* capacity of the ledger: the ring of the ledger implements TailLog, and  *)
(* the page reports what the upstream has.                                 *)
(***************************************************************************)
EXTENDS DailyWakes, AccountTasks, SequenceTheorems, FiniteSetTheorems, TLAPS

\* The times of day of a task.
LEMMA SlotTimes ==
  ASSUME NEW t \in Tasks
  PROVE  /\ Slot(t) \subseteq 0..Day - 1
         /\ \E s \in Slot(t) : TRUE
<1>1. Hour[t] \in Nat /\ \A m \in Draws : m \in Nat /\ Hour[t] + m < Day
  BY WakesAssumption
<1>2. ASSUME NEW m \in Draws
      PROVE  Hour[t] + m \in 0..Day - 1
  BY <1>1, <1>2, WakesAssumption
<1>3. QED
  BY <1>2, WakesAssumption DEF Slot

\* What a set of tasks takes, one more and one less.
LEMMA TollOf ==
  ASSUME NEW S \in SUBSET Tasks
  PROVE  /\ Toll(S) \in Nat
         /\ \A T \in SUBSET S : Toll(T) <= Toll(S)
         /\ \A t \in S : Toll(S \ {t}) = Toll(S) - MaxRun
<1>1. IsFiniteSet(S) /\ \A T \in SUBSET S : IsFiniteSet(T)
  BY WakesAssumption, FS_Subset
<1>2. Cardinality(S) \in Nat
  BY <1>1, FS_CardinalityType
<1>3. MaxRun \in Nat
  BY WakesAssumption
<1>4. Toll(S) \in Nat
  BY <1>2, <1>3 DEF Toll
<1>5. ASSUME NEW T \in SUBSET S
      PROVE  Toll(T) <= Toll(S)
  <2>1. Cardinality(T) \in Nat /\ Cardinality(T) <= Cardinality(S)
    BY <1>1, FS_Subset, FS_CardinalityType
  <2> DEFINE a == Cardinality(T)
             b == Cardinality(S) - Cardinality(T)
  <2>2. a \in Nat /\ b \in Nat /\ Cardinality(S) = a + b
    BY <1>2, <2>1
  <2>3. MaxRun * b \in Nat /\ MaxRun * a \in Nat /\ MaxRun * (a + b) = MaxRun * a + MaxRun * b
    BY <1>3, <2>2
  <2>4. QED
    BY <2>2, <2>3 DEF Toll
<1>6. ASSUME NEW t \in S
      PROVE  Toll(S \ {t}) = Toll(S) - MaxRun
  <2>1. Cardinality(S \ {t}) = Cardinality(S) - 1
    BY <1>1, FS_RemoveElement
  <2>2. MaxRun * (Cardinality(S) - 1) = MaxRun * Cardinality(S) - MaxRun
    BY <1>2, <1>3
  <2>3. QED
    BY <2>1, <2>2 DEF Toll
<1>7. QED
  BY <1>4, <1>5, <1>6

\* A task and those that may come after it are through before midnight.
LEMMA FitsBeforeMidnight ==
  ASSUME NEW t \in Tasks, NEW at \in Slot(t), NEW S \in SUBSET (Tasks \ {t}),
         \A u \in S : \E s \in Slot(u) : s >= at
  PROVE  at + Toll(S) < Day
<1>1. S \subseteq Later(t, at) /\ Later(t, at) \subseteq Tasks
  BY DEF Later
<1>2. Toll(S) <= Toll(Later(t, at)) /\ Toll(S) \in Nat /\ Toll(Later(t, at)) \in Nat
  BY <1>1, TollOf
<1>3. at + Toll(Later(t, at)) < Day
  BY HoursAssumption
<1>4. at \in Int /\ Day \in Int
  BY SlotTimes, WakesAssumption
<1>5. QED
  BY <1>2, <1>3, <1>4

OwedFits == Owed # {} => \A t \in Earliest : due[t] + Toll(Owed) - MaxRun < Day

\* What is owed fits from the earliest wake on.
LEMMA EarliestFits == WakesTypeOK /\ WithinADay => OwedFits
<1> SUFFICES ASSUME WakesTypeOK, WithinADay, Owed # {}, NEW t \in Earliest
             PROVE  due[t] + Toll(Owed) - MaxRun < Day
  BY DEF OwedFits
<1>1. t \in DOMAIN due /\ \A u \in DOMAIN due : due[t] <= due[u]
  BY DEF Earliest
<1>2. DOMAIN due \subseteq Applying /\ Applying \subseteq Tasks
  BY DEF WakesTypeOK, Applying
<1>3. Day \in Int
  BY WakesAssumption
<1>4. \A u \in DOMAIN due : due[u] \in Int
  <2>1. TAKE u \in DOMAIN due
  <2>2. Slot(u) \subseteq 0..Day - 1
    BY <1>2, SlotTimes
  <2>3. \E s \in Slot(u) : due[u] \in {s, s + Day}
    BY DEF WakesTypeOK
  <2>4. QED
    BY <1>3, <2>2, <2>3
<1>5. ASSUME NEW u \in Owed
      PROVE  \E s \in Slot(u) : s >= due[t]
  <2>1. u \in Applying /\ u \in Tasks /\ Slot(u) \subseteq 0..Day - 1
    BY <1>2, SlotTimes DEF Owed
  <2>2. CASE u \in DOMAIN due
    <3>1. due[u] < Day
      BY <2>2 DEF Owed, Pending, PendingToday
    <3>2. due[u] \in Slot(u)
      BY <1>3, <2>1, <2>2, <3>1 DEF WakesTypeOK
    <3>3. QED
      BY <1>1, <1>4, <2>2, <3>2
  <2>3. CASE u \notin DOMAIN due
    <3>1. ran[u] = 0
      BY <2>3 DEF Owed, Pending
    <3>2. PICK s \in Slot(u) : due[t] < s + (IF ran[u] > 0 THEN Day ELSE 0)
      BY <1>1, <2>1, <2>3 DEF WithinADay
    <3>3. due[t] < s
      BY <1>1, <1>4, <2>1, <3>1, <3>2
    <3>4. QED
      BY <1>1, <1>4, <2>1, <3>3
  <2>4. QED
    BY <2>2, <2>3
<1>6. due[t] < Day
  <2>1. PICK u \in Owed : TRUE
    OBVIOUS
  <2>2. PICK s \in Slot(u) : s >= due[t]
    BY <1>5
  <2>3. s \in 0..Day - 1
    BY <1>2, <2>2, SlotTimes DEF Owed
  <2>4. QED
    BY <1>1, <1>3, <1>4, <2>2, <2>3
<1>7. due[t] \in Slot(t) /\ t \in Owed /\ t \in Tasks
  <2>1. Slot(t) \subseteq 0..Day - 1
    BY <1>1, <1>2, SlotTimes
  <2>2. due[t] \in Slot(t)
    BY <1>1, <1>3, <1>6, <2>1 DEF WakesTypeOK
  <2>3. QED
    BY <1>1, <1>2, <1>6, <2>2 DEF Owed, Pending, PendingToday
<1>8. Owed \ {t} \in SUBSET (Tasks \ {t}) /\ Owed \in SUBSET Tasks
  BY <1>2 DEF Owed
<1>9. due[t] + Toll(Owed \ {t}) < Day
  BY <1>5, <1>7, <1>8, FitsBeforeMidnight
<1>10. Toll(Owed \ {t}) = Toll(Owed) - MaxRun /\ Toll(Owed) \in Nat /\ MaxRun \in Nat
  BY <1>7, <1>8, TollOf, WakesAssumption
<1>11. QED
  BY <1>1, <1>4, <1>9, <1>10

\* A list that is built, as it looks from the midnight before: each task is
\* due at its next time.
LEMMA Built ==
  ASSUME realm \in Realms, UNCHANGED realm,
         NEW time \in 0..2 * Day - 1, NEW pending \in BuildWakes(time), Pass(time, pending, {})
  PROVE  /\ now' = (IF time < Day THEN time ELSE time - Day)
         /\ now' \in 0..Day - 1
         /\ DOMAIN due' = Applying
         /\ \A t \in Applying : \E s \in Slot(t) : due'[t] = IF s > now' THEN s ELSE s + Day
<1>1. Day \in Nat
  BY WakesAssumption
<1>2. PICK draw \in [Applying -> Draws] :
        pending = [t \in Applying |->
          LET at == Midnight(time) + Hour[t] + draw[t] IN IF at > time THEN at ELSE at + Day]
  BY DEF BuildWakes
<1>3. now' = (IF time < Day THEN time ELSE time - Day)
  BY DEF Pass
<1>4. now' \in 0..Day - 1
  BY <1>1, <1>3
<1>5. DOMAIN due' = Applying
  BY <1>2 DEF Pass
<1>6. ASSUME NEW t \in Applying
      PROVE  \E s \in Slot(t) : due'[t] = IF s > now' THEN s ELSE s + Day
  <2> DEFINE s == Hour[t] + draw[t]
  <2>1. t \in Tasks /\ s \in Slot(t) /\ s \in 0..Day - 1 /\ Hour[t] \in Nat /\ draw[t] \in Nat
    <3>1. t \in Tasks /\ draw[t] \in Draws
      BY DEF Applying
    <3>2. Slot(t) \subseteq 0..Day - 1
      BY <3>1, SlotTimes
    <3>3. s \in Slot(t)
      BY <3>1 DEF Slot
    <3>4. QED
      BY <3>1, <3>2, <3>3, WakesAssumption
  <2>2. CASE time < Day
    <3>1. now' = time /\ due' = pending
      BY <2>2 DEF Pass
    <3>2. Midnight(time) + Hour[t] + draw[t] = s
      BY <2>1, <2>2 DEF Midnight
    <3>3. pending[t] = IF s > time THEN s ELSE s + Day
      BY <1>2, <3>2
    <3>4. QED
      BY <2>1, <3>1, <3>3
  <2>3. CASE ~(time < Day)
    <3>1. now' = time - Day /\ due'[t] = pending[t] - Day
      BY <1>2, <2>3 DEF Pass
    <3>2. Midnight(time) + Hour[t] + draw[t] = s + Day
      BY <1>1, <2>1, <2>3 DEF Midnight
    <3>3. pending[t] = IF s + Day > time THEN s + Day ELSE s + Day + Day
      BY <1>2, <3>2
    <3>4. due'[t] = IF s > now' THEN s ELSE s + Day
      BY <1>1, <2>1, <3>1, <3>3
    <3>5. QED
      BY <2>1, <3>4
  <2>4. QED
    BY <2>2, <2>3
<1>7. QED
  BY <1>3, <1>4, <1>5, <1>6

\* The next time of a task is within a day.
LEMMA NextTime ==
  ASSUME NEW n \in 0..Day - 1, NEW s \in 0..Day - 1, NEW next,
         next = IF s > n THEN s ELSE s + Day
  PROVE  next \in Int /\ next > n /\ next <= n + Day
<1>1. Day \in Nat
  BY WakesAssumption
<1>2. QED
  BY <1>1

\* The loop with a list that has just been built.
LEMMA ListBuilt ==
  ASSUME realm \in Realms, UNCHANGED realm, loop' = "wait", now' \in 0..Day - 1,
         DOMAIN due' = Applying,
         \A t \in Applying : \E s \in Slot(t) : due'[t] = IF s > now' THEN s ELSE s + Day,
         ran' \in [Applying -> 0..2], missed' \in [Applying -> -1..1],
         \A t \in Applying :
           /\ ran'[t] = 0 => missed'[t] <= 0
           /\ ran'[t] > 0 => \E s \in Slot(t) : s <= now'
           /\ ran'[t] = 2 => \A s \in Slot(t) : s <= now'
  PROVE  WakesInv'
<1>1. Day \in Nat /\ now' \in Int /\ 0 <= now' /\ now' < Day
  BY WakesAssumption
<1>2. Applying' = Applying /\ Applying \subseteq Tasks
  BY DEF Applying
<1>3. \A t \in Applying : Slot(t) \subseteq 0..Day - 1
  BY <1>2, SlotTimes
<1>4. \A t \in Applying : due'[t] \in Int /\ due'[t] > now' /\ due'[t] <= now' + Day
  <2>1. TAKE t \in Applying
  <2>2. PICK s \in Slot(t) : due'[t] = IF s > now' THEN s ELSE s + Day
    OBVIOUS
  <2>3. s \in 0..Day - 1
    BY <1>3
  <2>4. QED
    BY <2>2, <2>3, NextTime
<1>5. WakesTypeOK'
  <2>1. \A t \in Applying : \E s \in Slot(t) : due'[t] \in {s, s + Day}
    OBVIOUS
  <2>2. /\ realm' \in Realms /\ now' \in 0..Day - 1
        /\ loop' \in {"first", "wait", "run", "over"}
        /\ DOMAIN due' \subseteq Applying'
        /\ \A t \in DOMAIN due' : \E s \in Slot(t) : due'[t] \in {s, s + Day}
    BY <1>2, <2>1
  <2>3. ran' \in [Applying' -> 0..2] /\ missed' \in [Applying' -> -1..1]
    BY <1>2
  <2>4. QED
    BY <2>2, <2>3 DEF WakesTypeOK
<1>6. WithinADay'
  <2>1. \A t, u \in Applying : due'[t] < due'[u] + Day
    BY <1>1, <1>4
  <2>2. QED
    BY <1>2, <2>1 DEF WithinADay
<1>7. ASSUME NEW t \in Applying, due'[t] < Day
      PROVE  \E s \in Slot(t) : s > now'
  <2>1. PICK s \in Slot(t) : due'[t] = IF s > now' THEN s ELSE s + Day
    OBVIOUS
  <2>2. s \in 0..Day - 1
    BY <1>3
  <2>3. QED
    BY <1>1, <1>7, <2>1, <2>2
<1>8. ASSUME NEW t \in Applying, NEW c \in Slot(t), c <= now'
      PROVE  \E u \in Applying : \A s \in Slot(t) : due'[u] > s
  <2>1. realm \in Scope[t]
    BY DEF Applying
  <2>2. PICK u \in Tasks : /\ realm \in Scope[u]
                           /\ \/ \A s \in Slot(t), d \in Slot(u) : d < s
                              \/ \A s \in Slot(t), d \in Slot(u) : d > s
    BY <1>2, <2>1, HoursAssumption
  <2>3. u \in Applying
    BY <2>2 DEF Applying
  <2>4. PICK d \in Slot(u) : due'[u] = IF d > now' THEN d ELSE d + Day
    BY <2>3
  <2>5. d \in 0..Day - 1 /\ c \in 0..Day - 1 /\ \A s \in Slot(t) : s \in 0..Day - 1
    BY <1>3, <2>3
  <2>6. CASE \A s \in Slot(t), e \in Slot(u) : e < s
    <3>1. d < c
      BY <2>6
    <3>2. due'[u] = d + Day
      BY <1>1, <1>8, <2>4, <2>5, <3>1
    <3>3. \A s \in Slot(t) : due'[u] > s
      BY <1>1, <2>5, <3>2
    <3>4. QED
      BY <2>3, <3>3
  <2>7. CASE \A s \in Slot(t), e \in Slot(u) : e > s
    <3>1. \A s \in Slot(t) : d > s
      BY <2>7
    <3>2. \A s \in Slot(t) : due'[u] > s
      BY <1>1, <2>4, <2>5, <3>1
    <3>3. QED
      BY <2>3, <3>2
  <2>8. QED
    BY <2>2, <2>6, <2>7
<1>9. TwiceAtMost'
  <2> SUFFICES ASSUME NEW t \in Applying
               PROVE  /\ ran'[t] > 0 => \E s \in Slot(t) : s <= now'
                      /\ PendingToday(t)' => ran'[t] <= 1
                      /\ ran'[t] = 2 \/ (ran'[t] = 1 /\ PendingToday(t)') =>
                           \/ \A s \in Slot(t) : s <= now'
                           \/ \E u \in DOMAIN due' : \A s \in Slot(t) : due'[u] > s
    BY <1>2 DEF TwiceAtMost
  <2>1. ran'[t] \in 0..2
    OBVIOUS
  <2>2. ASSUME PendingToday(t)'
        PROVE  ran'[t] <= 1
    <3>1. PICK s \in Slot(t) : s > now'
      BY <1>7, <2>2 DEF PendingToday
    <3>2. s \in Int
      BY <1>3
    <3>3. ran'[t] # 2
      BY <1>1, <3>1, <3>2
    <3>4. QED
      BY <2>1, <3>3
  <2>3. ASSUME ran'[t] = 1
        PROVE  \E u \in DOMAIN due' : \A s \in Slot(t) : due'[u] > s
    <3>1. PICK c \in Slot(t) : c <= now'
      BY <2>3
    <3>2. QED
      BY <1>8, <3>1
  <2>4. QED
    BY <2>2, <2>3
<1>10. MissedOnce' /\ Fresh'
  BY <1>2 DEF MissedOnce, Fresh
<1>11. BeforeMidnight'
  <2> SUFFICES ASSUME Owed' # {}, NEW t \in Earliest'
               PROVE  LaterOf(now', due'[t]) + Toll(Owed') - MaxRun < Day
    BY DEF BeforeMidnight
  <2>1. due'[t] + Toll(Owed') - MaxRun < Day
    <3>1. OwedFits'
      BY <1>5, <1>6, EarliestFits, PTL
    <3>2. QED
      BY <3>1 DEF OwedFits
  <2>2. LaterOf(now', due'[t]) = due'[t]
    BY <1>1, <1>4 DEF LaterOf, Earliest
  <2>3. QED
    BY <2>1, <2>2
<1>12. QED
  BY <1>5, <1>6, <1>9, <1>10, <1>11 DEF WakesInv

\* The facts about the loop's variables that the steps need.
LEMMA LoopFacts ==
  ASSUME WakesTypeOK
  PROVE  /\ Day \in Nat /\ MaxRun \in Nat /\ MaxRun < Day
         /\ now \in 0..Day - 1
         /\ Applying \subseteq Tasks /\ DOMAIN due \subseteq Applying
         /\ \A t \in Applying : Slot(t) \subseteq 0..Day - 1
         /\ \A t \in DOMAIN due : due[t] \in Int
         /\ Toll(Owed) \in Nat
         /\ Owed # {} => MaxRun <= Toll(Owed)
<1>1. Day \in Nat /\ MaxRun \in Nat /\ MaxRun < Day
  BY WakesAssumption
<1>2. now \in 0..Day - 1 /\ Applying \subseteq Tasks /\ DOMAIN due \subseteq Applying
  BY DEF WakesTypeOK, Applying
<1>3. \A t \in Applying : Slot(t) \subseteq 0..Day - 1
  BY <1>2, SlotTimes
<1>4. \A t \in DOMAIN due : due[t] \in Int
  <2>1. TAKE t \in DOMAIN due
  <2>2. PICK s \in Slot(t) : due[t] \in {s, s + Day}
    BY DEF WakesTypeOK
  <2>3. s \in 0..Day - 1
    BY <1>2, <1>3
  <2>4. QED
    BY <1>1, <2>2, <2>3
<1>5. Owed \in SUBSET Tasks
  BY <1>2 DEF Owed
<1>6. ASSUME NEW t \in Owed
      PROVE  MaxRun <= Toll(Owed)
  <2>1. Toll(Owed \ {t}) = Toll(Owed) - MaxRun /\ Toll(Owed \ {t}) \in Nat /\ Toll(Owed) \in Nat
    BY <1>5, TollOf
  <2>2. QED
    BY <1>1, <2>1
<1>7. QED
  BY <1>1, <1>2, <1>3, <1>4, <1>5, <1>6, TollOf

\* The loop's first step builds its first list.
LEMMA FirstKeeps == WakesInv /\ First => WakesInv'
<1> SUFFICES ASSUME WakesInv, First
             PROVE  WakesInv'
  OBVIOUS
<1>1. WakesTypeOK /\ DOMAIN due = {} /\ \A t \in Applying : ran[t] = 0 /\ missed[t] = -1
  BY DEF WakesInv, Fresh, First
<1>2. PICK took \in 0..MaxRun : Ends(now + took)
  <2>1. MaxRun \in Nat
    BY WakesAssumption
  <2>2. QED
    BY <2>1 DEF First
<1> DEFINE time == now + took
<1>3. time \in 0..2 * Day - 1
  <2>1. Day \in Nat /\ MaxRun \in Nat /\ MaxRun < Day /\ now \in 0..Day - 1
    BY <1>1, LoopFacts
  <2>2. QED
    BY <2>1
<1>4. PICK pending \in BuildWakes(time) : Pass(time, pending, {})
  BY <1>1, <1>2 DEF Ends
<1>5. realm \in Realms /\ UNCHANGED realm /\ loop' = "wait"
  BY <1>1, <1>2 DEF WakesTypeOK, First, Ends
<1>6. ran' = [t \in Applying |-> 0] /\ (missed' = missed \/ missed' = [t \in Applying |-> 0])
  <2>1. CASE time < Day
    <3>1. ran' = [t \in Applying |-> ran[t] + (IF t \in {} THEN 1 ELSE 0)] /\ missed' = missed
      BY <1>4, <2>1 DEF Pass
    <3>2. QED
      BY <1>1, <3>1
  <2>2. CASE ~(time < Day)
    <3>1. /\ ran' = [t \in Applying |-> [u \in Applying |-> 0][t] + (IF t \in {} THEN 1 ELSE 0)]
          /\ missed' = [t \in Applying |-> IF ran[t] = 0 THEN missed[t] + 1 ELSE 0]
      BY <1>4, <2>2 DEF Pass
    <3>2. QED
      BY <1>1, <3>1
  <2>3. QED
    BY <2>1, <2>2
<1>7. ran' \in [Applying -> 0..2] /\ missed' \in [Applying -> -1..1]
  BY <1>1, <1>6 DEF WakesTypeOK
<1>8. \A t \in Applying : ran'[t] = 0 /\ missed'[t] <= 0
  BY <1>1, <1>6
<1>9. /\ now' \in 0..Day - 1
      /\ DOMAIN due' = Applying
      /\ \A t \in Applying : \E s \in Slot(t) : due'[t] = IF s > now' THEN s ELSE s + Day
  BY <1>3, <1>4, <1>5, Built
<1>10. QED
  BY <1>5, <1>7, <1>8, <1>9, ListBuilt

\* When midnight comes with nothing owed, all wakes that are left are today's,
\* and a task was left out at most once.
LEMMA AcrossMidnight ==
  ASSUME WakesInv, loop # "first", Owed = {},
         missed' = [t \in Applying |-> IF ran[t] = 0 THEN missed[t] + 1 ELSE 0]
  PROVE  /\ \A t \in DOMAIN due : due[t] - Day \in Slot(t)
         /\ \A t \in Applying \ DOMAIN due : ran[t] > 0
         /\ missed' \in [Applying -> -1..1]
         /\ \A t \in Applying \ DOMAIN due : missed'[t] = 0
<1> USE DEF WakesInv
<1>1. \A t \in Applying : ran[t] \in 0..2 /\ missed[t] \in -1..1
  BY DEF WakesTypeOK
<1>2. ASSUME NEW t \in DOMAIN due
      PROVE  due[t] - Day \in Slot(t) /\ ~(due[t] < Day)
  <2>1. t \in Applying /\ ~(due[t] < Day)
    BY LoopFacts DEF Owed, Pending, PendingToday
  <2>2. PICK s \in Slot(t) : due[t] \in {s, s + Day}
    BY DEF WakesTypeOK
  <2>3. s \in 0..Day - 1 /\ Day \in Nat
    BY <2>1, LoopFacts
  <2>4. due[t] = s + Day
    BY <2>1, <2>2, <2>3
  <2>5. QED
    BY <2>1, <2>3, <2>4
<1>3. ASSUME NEW t \in Applying \ DOMAIN due
      PROVE  ran[t] > 0 /\ missed'[t] = 0
  <2>1. ran[t] # 0
    BY DEF Owed, Pending
  <2>2. QED
    BY <1>1, <2>1
<1>4. ASSUME NEW t \in Applying
      PROVE  missed'[t] \in -1..1
  <2>1. CASE ran[t] = 0
    <3>1. ~PendingToday(t)
      BY <1>2 DEF PendingToday, Pending
    <3>2. missed[t] <= 0
      BY <2>1, <3>1 DEF MissedOnce
    <3>3. QED
      BY <1>1, <2>1, <3>2
  <2>2. CASE ran[t] # 0
    BY <2>2
  <2>3. QED
    BY <2>1, <2>2
<1>5. QED
  BY <1>2, <1>3, <1>4

\* A wake on the same day.
LEMMA WakeToday ==
  ASSUME WakesInv, loop = "wait", NEW t \in Earliest, LaterOf(now, due[t]) < Day,
         Pass(LaterOf(now, due[t]), [u \in DOMAIN due \ {t} |-> due[u]], {t}),
         loop' = "run", UNCHANGED realm
  PROVE  WakesInv'
<1> DEFINE time == LaterOf(now, due[t])
<1>1. WakesTypeOK /\ WithinADay /\ TwiceAtMost /\ MissedOnce /\ BeforeMidnight
  BY DEF WakesInv
<1>2. Applying' = Applying /\ Applying \subseteq Tasks
  BY DEF Applying
<1>3. t \in DOMAIN due /\ t \in Applying /\ \A u \in DOMAIN due : due[t] <= due[u]
  BY <1>1, LoopFacts DEF Earliest
<1>4. /\ Day \in Nat /\ now \in 0..Day - 1 /\ \A u \in DOMAIN due : due[u] \in Int
      /\ DOMAIN due \subseteq Applying /\ \A u \in Applying : Slot(u) \subseteq 0..Day - 1
  BY <1>1, LoopFacts
<1>5. time \in 0..Day - 1 /\ now <= time /\ due[t] <= time /\ due[t] < Day
  BY <1>3, <1>4 DEF LaterOf
<1>6. due[t] \in Slot(t) /\ PendingToday(t)
  <2>1. PICK s \in Slot(t) : due[t] \in {s, s + Day}
    BY <1>1, <1>3 DEF WakesTypeOK
  <2>2. s \in 0..Day - 1
    BY <1>3, <1>4
  <2>3. due[t] = s
    BY <1>4, <1>5, <2>1, <2>2
  <2>4. QED
    BY <1>3, <1>5, <2>3 DEF Pending, PendingToday
<1>7. /\ now' = time /\ UNCHANGED missed
      /\ DOMAIN due' = DOMAIN due \ {t} /\ \A u \in DOMAIN due' : due'[u] = due[u]
      /\ ran' = [u \in Applying |-> ran[u] + (IF u \in {t} THEN 1 ELSE 0)]
  BY <1>5 DEF Pass
<1>8. \A u \in Applying : ran[u] \in 0..2
  BY <1>1 DEF WakesTypeOK
<1>9. /\ ran'[t] = ran[t] + 1 /\ ran'[t] \in 1..2
      /\ \A u \in Applying \ {t} : ran'[u] = ran[u]
  <2>1. ran[t] <= 1
    BY <1>1, <1>3, <1>6 DEF TwiceAtMost
  <2>2. ran'[t] = ran[t] + 1
    BY <1>3, <1>7
  <2>3. ASSUME NEW u \in Applying \ {t}
        PROVE  ran'[u] = ran[u]
    BY <1>7, <1>8
  <2>4. QED
    BY <1>3, <1>8, <2>1, <2>2, <2>3
<1>10. \A u \in Applying \ {t} : (Pending(u)' <=> Pending(u)) /\ (PendingToday(u)' <=> PendingToday(u))
  BY <1>7 DEF Pending, PendingToday
<1>11. ~Pending(t)' /\ ~PendingToday(t)'
  BY <1>7 DEF Pending, PendingToday
<1>12. WakesTypeOK'
  <2>1. DOMAIN ran' = Applying /\ \A u \in Applying : ran'[u] \in 0..2
    BY <1>7, <1>8, <1>9
  <2>2. ran' \in [Applying' -> 0..2] /\ missed' \in [Applying' -> -1..1]
    BY <1>1, <1>2, <1>7, <2>1 DEF WakesTypeOK
  <2>3. \A u \in DOMAIN due' : \E s \in Slot(u) : due'[u] \in {s, s + Day}
    BY <1>1, <1>7 DEF WakesTypeOK
  <2>4. /\ realm' \in Realms /\ now' \in 0..Day - 1 /\ loop' \in {"first", "wait", "run", "over"}
        /\ DOMAIN due' \subseteq Applying'
    BY <1>1, <1>2, <1>4, <1>5, <1>7 DEF WakesTypeOK
  <2>5. QED
    BY <2>2, <2>3, <2>4 DEF WakesTypeOK
<1>13. WithinADay'
  <2>1. \A v, u \in DOMAIN due' : due'[v] < due'[u] + Day
    BY <1>1, <1>7 DEF WithinADay
  <2>2. ASSUME NEW v \in Applying \ DOMAIN due', NEW u \in DOMAIN due'
        PROVE  \E s \in Slot(v) : due'[u] < s + (IF ran'[v] > 0 THEN Day ELSE 0)
    <3>1. CASE v = t
      <4>1. due[u] < due[t] + Day
        BY <1>1, <1>3, <1>7 DEF WithinADay
      <4>2. ran'[t] > 0
        BY <1>9
      <4>3. QED
        BY <1>6, <1>7, <3>1, <4>1, <4>2
    <3>2. CASE v # t
      <4>1. \E s \in Slot(v) : due[u] < s + (IF ran[v] > 0 THEN Day ELSE 0)
        BY <1>1, <1>7, <3>2 DEF WithinADay
      <4>2. QED
        BY <1>7, <1>9, <3>2, <4>1
    <3>3. QED
      BY <3>1, <3>2
  <2>3. QED
    BY <1>2, <2>1, <2>2 DEF WithinADay
<1>14. TwiceAtMost'
  <2> SUFFICES ASSUME NEW x \in Applying
               PROVE  /\ ran'[x] > 0 => \E s \in Slot(x) : s <= now'
                      /\ PendingToday(x)' => ran'[x] <= 1
                      /\ ran'[x] = 2 \/ (ran'[x] = 1 /\ PendingToday(x)') =>
                           \/ \A s \in Slot(x) : s <= now'
                           \/ \E u \in DOMAIN due' : \A s \in Slot(x) : due'[u] > s
    BY <1>2 DEF TwiceAtMost
  <2>1. \A s \in Slot(x) : s \in Int /\ (s <= now => s <= now')
    BY <1>4, <1>5, <1>7
  <2>2. ASSUME ran[x] = 2 \/ (ran[x] = 1 /\ PendingToday(x))
        PROVE  \/ \A s \in Slot(x) : s <= now'
               \/ \E u \in DOMAIN due' : \A s \in Slot(x) : due'[u] > s
    <3>1. \/ \A s \in Slot(x) : s <= now
          \/ \E u \in DOMAIN due : \A s \in Slot(x) : due[u] > s
      BY <1>1, <2>2 DEF TwiceAtMost
    <3>2. CASE \A s \in Slot(x) : s <= now
      BY <2>1, <3>2
    <3>3. ASSUME NEW u \in DOMAIN due, \A s \in Slot(x) : due[u] > s
          PROVE  \/ \A s \in Slot(x) : s <= now'
                 \/ \E v \in DOMAIN due' : \A s \in Slot(x) : due'[v] > s
      <4>1. CASE u = t
        BY <1>3, <1>4, <1>5, <1>7, <2>1, <3>3, <4>1
      <4>2. CASE u # t
        BY <1>7, <3>3, <4>2
      <4>3. QED
        BY <4>1, <4>2
    <3>4. QED
      BY <3>1, <3>2, <3>3
  <2>3. CASE x = t
    <3>1. due[t] <= now'
      BY <1>5, <1>7
    <3>2. ran'[t] = 2 => ran[t] = 1
      BY <1>8, <1>3, <1>9
    <3>3. QED
      BY <1>6, <1>11, <2>2, <2>3, <3>1, <3>2
  <2>4. CASE x # t
    <3>1. ran'[x] = ran[x] /\ (PendingToday(x)' <=> PendingToday(x))
      BY <1>9, <1>10, <2>4
    <3>2. /\ ran[x] > 0 => \E s \in Slot(x) : s <= now
          /\ PendingToday(x) => ran[x] <= 1
      BY <1>1 DEF TwiceAtMost
    <3>3. QED
      BY <2>1, <2>2, <3>1, <3>2
  <2>5. QED
    BY <2>3, <2>4
<1>15. MissedOnce'
  <2>1. ASSUME NEW x \in Applying, ran'[x] = 0, ~PendingToday(x)'
        PROVE  missed'[x] <= 0
    <3>1. x # t
      BY <1>9, <2>1
    <3>2. ran[x] = 0 /\ ~PendingToday(x)
      BY <1>9, <1>10, <2>1, <3>1
    <3>3. QED
      BY <1>1, <1>7, <3>2 DEF MissedOnce
  <2>2. QED
    BY <1>2, <2>1 DEF MissedOnce
<1>16. BeforeMidnight'
  <2>1. t \in Owed
    BY <1>3, <1>6 DEF Owed, PendingToday
  <2>2. Owed' = Owed \ {t}
    <3>1. t \notin Owed'
      BY <1>2, <1>9, <1>11 DEF Owed
    <3>2. ASSUME NEW u \in Applying \ {t}
          PROVE  u \in Owed' <=> u \in Owed
      BY <1>2, <1>9, <1>10 DEF Owed
    <3>3. QED
      BY <1>2, <3>1, <3>2 DEF Owed
  <2>3. time + Toll(Owed) - MaxRun < Day
    BY <1>1, <2>1 DEF BeforeMidnight
  <2>4. Toll(Owed \ {t}) = Toll(Owed) - MaxRun /\ Toll(Owed) \in Nat /\ MaxRun \in Nat
    <3>1. Owed \in SUBSET Tasks
      BY <1>2 DEF Owed
    <3>2. QED
      BY <2>1, <3>1, TollOf, WakesAssumption
  <2>5. now' + Toll(Owed') < Day
    <3> HIDE DEF time
    <3>1. QED
      BY <1>5, <1>7, <2>2, <2>3, <2>4
  <2>6. QED
    BY <2>5 DEF BeforeMidnight
<1>17. Fresh'
  BY DEF Fresh
<1>18. QED
  BY <1>12, <1>13, <1>14, <1>15, <1>16, <1>17 DEF WakesInv

\* A wake on the next day.
LEMMA WakeTomorrow ==
  ASSUME WakesInv, loop = "wait", NEW t \in Earliest, ~(LaterOf(now, due[t]) < Day),
         Pass(LaterOf(now, due[t]), [u \in DOMAIN due \ {t} |-> due[u]], {t}),
         loop' = "run", UNCHANGED realm
  PROVE  WakesInv'
<1>1. WakesTypeOK /\ WithinADay /\ BeforeMidnight
  BY DEF WakesInv
<1>2. Applying' = Applying /\ Applying \subseteq Tasks
  BY DEF Applying
<1>3. t \in DOMAIN due /\ t \in Applying /\ t \in Tasks /\ \A u \in DOMAIN due : due[t] <= due[u]
  BY <1>1, <1>2, LoopFacts DEF Earliest
<1>4. /\ Day \in Nat /\ now \in 0..Day - 1 /\ \A u \in DOMAIN due : due[u] \in Int
      /\ DOMAIN due \subseteq Applying /\ \A u \in Applying : Slot(u) \subseteq 0..Day - 1
  BY <1>1, LoopFacts
<1>5. LaterOf(now, due[t]) = due[t] /\ ~(due[t] < Day)
  BY <1>3, <1>4 DEF LaterOf
<1>6. Owed = {}
  <2> SUFFICES ASSUME Owed # {}
               PROVE  FALSE
    OBVIOUS
  <2>1. due[t] + Toll(Owed) - MaxRun < Day
    BY <1>1, <1>5 DEF BeforeMidnight
  <2>2. Toll(Owed) \in Nat /\ MaxRun \in Nat /\ MaxRun <= Toll(Owed)
    BY <1>1, LoopFacts
  <2>3. QED
    BY <1>3, <1>4, <1>5, <2>1, <2>2
<1> DEFINE left == [u \in DOMAIN due \ {t} |-> due[u]]
<1>7. /\ now' = due[t] - Day
      /\ due' = [u \in DOMAIN left |-> left[u] - Day]
      /\ ran' = [u \in Applying |-> [v \in Applying |-> 0][u] + (IF u \in {t} THEN 1 ELSE 0)]
      /\ missed' = [u \in Applying |-> IF ran[u] = 0 THEN missed[u] + 1 ELSE 0]
  BY <1>5 DEF Pass
<1>8. DOMAIN due' = DOMAIN due \ {t} /\ \A u \in DOMAIN due' : due'[u] = due[u] - Day
  BY <1>7
<1>9. DOMAIN ran' = Applying /\ ran'[t] = 1 /\ \A u \in Applying \ {t} : ran'[u] = 0
  BY <1>3, <1>7
<1>10. /\ \A u \in DOMAIN due : due[u] - Day \in Slot(u)
       /\ \A u \in Applying \ DOMAIN due : ran[u] > 0
       /\ missed' \in [Applying -> -1..1]
       /\ \A u \in Applying \ DOMAIN due : missed'[u] = 0
  BY <1>6, <1>7, AcrossMidnight
<1>11. now' \in Slot(t) /\ now' \in 0..Day - 1
  BY <1>3, <1>4, <1>7, <1>10
<1>12. \A u \in DOMAIN due' : /\ due'[u] \in Slot(u) /\ due'[u] \in 0..Day - 1
                              /\ PendingToday(u)' /\ now' <= due'[u]
  <2>1. TAKE u \in DOMAIN due'
  <2>2. due'[u] \in Slot(u) /\ due'[u] \in 0..Day - 1
    BY <1>4, <1>8, <1>10
  <2>3. due[t] <= due[u] /\ due[t] \in Int /\ due[u] \in Int
    BY <1>3, <1>4, <1>8
  <2>4. now' <= due'[u]
    BY <1>4, <1>7, <1>8, <2>3
  <2>5. QED
    BY <1>4, <2>2, <2>4 DEF PendingToday, Pending
<1>13. WakesTypeOK'
  <2>1. ran' \in [Applying' -> 0..2] /\ missed' \in [Applying' -> -1..1]
    <3>1. \A u \in Applying : ran'[u] \in 0..2
      BY <1>9
    <3>2. ran' = [u \in Applying |-> ran'[u]]
      BY <1>7
    <3>3. QED
      BY <1>2, <1>10, <3>1, <3>2
  <2>2. \A u \in DOMAIN due' : \E s \in Slot(u) : due'[u] \in {s, s + Day}
    BY <1>12
  <2>3. /\ realm' \in Realms /\ now' \in 0..Day - 1 /\ loop' \in {"first", "wait", "run", "over"}
        /\ DOMAIN due' \subseteq Applying'
    BY <1>1, <1>2, <1>4, <1>8, <1>11 DEF WakesTypeOK
  <2>4. QED
    BY <2>1, <2>2, <2>3 DEF WakesTypeOK
<1>14. WithinADay'
  <2>1. \A v, u \in DOMAIN due' : due'[v] < due'[u] + Day
    BY <1>4, <1>12
  <2>2. ASSUME NEW v \in Applying \ DOMAIN due', NEW u \in DOMAIN due'
        PROVE  \E s \in Slot(v) : due'[u] < s + (IF ran'[v] > 0 THEN Day ELSE 0)
    <3>1. CASE v = t
      <4>1. due'[u] < now' + Day
        BY <1>4, <1>11, <1>12
      <4>2. ran'[v] > 0
        BY <1>9, <3>1
      <4>3. QED
        BY <1>11, <3>1, <4>1, <4>2
    <3>2. CASE v # t
      <4>1. v \in Applying \ DOMAIN due /\ u \in DOMAIN due
        BY <1>8, <3>2
      <4>2. PICK s \in Slot(v) : due[u] < s + (IF ran[v] > 0 THEN Day ELSE 0)
        BY <1>1, <4>1 DEF WithinADay
      <4>3. s \in 0..Day - 1 /\ due[u] \in Int /\ ran[v] > 0
        BY <1>4, <1>10, <4>1
      <4>4. due'[u] < s
        BY <1>4, <1>8, <4>2, <4>3
      <4>5. due'[u] < s + 0 /\ ran'[v] = 0
        BY <1>9, <3>2, <4>3, <4>4
      <4>6. QED
        BY <4>5
    <3>3. QED
      BY <3>1, <3>2
  <2>3. QED
    BY <1>2, <2>1, <2>2 DEF WithinADay
<1>15. TwiceAtMost'
  <2> SUFFICES ASSUME NEW x \in Applying
               PROVE  /\ ran'[x] > 0 => \E s \in Slot(x) : s <= now'
                      /\ PendingToday(x)' => ran'[x] <= 1
                      /\ ~(ran'[x] = 2 \/ (ran'[x] = 1 /\ PendingToday(x)'))
    BY <1>2 DEF TwiceAtMost
  <2>1. CASE x = t
    <3>1. ~PendingToday(x)'
      BY <1>8, <2>1 DEF PendingToday, Pending
    <3>2. now' <= now'
      BY <1>11
    <3>3. QED
      BY <1>9, <1>11, <2>1, <3>1, <3>2
  <2>2. CASE x # t
    BY <1>9, <2>2
  <2>3. QED
    BY <2>1, <2>2
<1>16. MissedOnce'
  <2>1. ASSUME NEW x \in Applying, ran'[x] = 0, ~PendingToday(x)'
        PROVE  missed'[x] <= 0
    <3>1. x # t /\ x \notin DOMAIN due'
      BY <1>9, <1>12, <2>1
    <3>2. missed'[x] = 0
      BY <1>8, <1>10, <3>1
    <3>3. QED
      BY <3>2
  <2>2. QED
    BY <1>2, <2>1 DEF MissedOnce
<1>17. BeforeMidnight'
  <2>1. Owed' \in SUBSET (Tasks \ {t})
    <3>1. t \notin Owed'
      BY <1>2, <1>8, <1>9 DEF Owed, Pending
    <3>2. QED
      BY <1>2, <3>1 DEF Owed
  <2>2. ASSUME NEW u \in Owed'
        PROVE  \E s \in Slot(u) : s >= now'
    <3>1. u \in Applying /\ u # t
      BY <1>2, <2>1 DEF Owed
    <3>2. CASE u \in DOMAIN due'
      <4>1. due'[u] >= now'
        BY <1>11, <1>12, <3>2
      <4>2. QED
        BY <1>12, <3>2, <4>1
    <3>3. CASE u \notin DOMAIN due'
      <4>1. u \in Applying \ DOMAIN due
        BY <1>8, <3>1, <3>3
      <4>2. PICK s \in Slot(u) : due[t] < s + (IF ran[u] > 0 THEN Day ELSE 0)
        BY <1>1, <1>3, <4>1 DEF WithinADay
      <4>3. s \in 0..Day - 1 /\ due[t] \in Int /\ ran[u] > 0
        BY <1>3, <1>4, <1>10, <4>1
      <4>4. s >= now'
        BY <1>4, <1>7, <4>2, <4>3
      <4>5. QED
        BY <4>4
    <3>4. QED
      BY <3>2, <3>3
  <2>3. now' + Toll(Owed') < Day
    BY <1>3, <1>11, <2>1, <2>2, FitsBeforeMidnight
  <2>4. QED
    BY <2>3 DEF BeforeMidnight
<1>18. Fresh'
  BY DEF Fresh
<1>19. QED
  BY <1>13, <1>14, <1>15, <1>16, <1>17, <1>18 DEF WakesInv

\* The timer fires.
LEMMA WakeKeeps == WakesInv /\ Wake => WakesInv'
<1> SUFFICES ASSUME WakesInv, Wake
             PROVE  WakesInv'
  OBVIOUS
<1>1. PICK t \in Earliest :
        Pass(LaterOf(now, due[t]), [u \in DOMAIN due \ {t} |-> due[u]], {t})
  <2>1. \A t \in Earliest : (IF due[t] > now THEN due[t] ELSE now) = LaterOf(now, due[t])
    <3>1. TAKE t \in Earliest
    <3>2. due[t] \in Int /\ now \in Int
      BY LoopFacts DEF WakesInv, Earliest
    <3>3. QED
      BY <3>2 DEF LaterOf
  <2>2. QED
    BY <2>1 DEF Wake
<1>2. loop = "wait" /\ loop' = "run" /\ UNCHANGED realm
  BY DEF Wake
<1>3. QED
  BY <1>1, <1>2, WakeToday, WakeTomorrow

\* A task ends: when that is, with what is owed.
LEMMA EndOfRun ==
  ASSUME WakesInv, loop = "run", NEW took \in 0..MaxRun
  PROVE  /\ now + took \in 0..2 * Day - 1
         /\ now + took - Day < MaxRun
         /\ Owed # {} => /\ now + took < Day
                         /\ now + took + Toll(Owed) - MaxRun < Day
<1>1. /\ Day \in Nat /\ MaxRun \in Nat /\ MaxRun < Day /\ now \in 0..Day - 1
      /\ Toll(Owed) \in Nat /\ (Owed # {} => MaxRun <= Toll(Owed))
  BY LoopFacts DEF WakesInv
<1>2. Owed # {} => now + Toll(Owed) < Day
  BY DEF WakesInv, BeforeMidnight
<1>3. QED
  BY <1>1, <1>2

\* A task ends on the day it began, and the list is not used up.
LEMMA EndsToday ==
  ASSUME WakesInv, loop = "run", NEW took \in 0..MaxRun, now + took < Day,
         Pass(now + took, due, {}), loop' = "wait", UNCHANGED realm
  PROVE  WakesInv'
<1>1. WakesTypeOK /\ WithinADay /\ TwiceAtMost /\ MissedOnce /\ BeforeMidnight
  BY DEF WakesInv
<1>2. Applying' = Applying /\ Applying \subseteq Tasks
  BY DEF Applying
<1>3. /\ Day \in Nat /\ MaxRun \in Nat /\ now \in 0..Day - 1 /\ Toll(Owed) \in Nat
      /\ \A t \in Applying : Slot(t) \subseteq 0..Day - 1
      /\ \A t \in DOMAIN due : due[t] \in Int
  BY <1>1, LoopFacts
<1>4. now' = now + took /\ UNCHANGED <<due, missed>>
  BY DEF Pass
<1>5. ran' = ran
  <2>1. ran' = [t \in Applying |-> ran[t] + (IF t \in {} THEN 1 ELSE 0)]
    BY DEF Pass
  <2>2. \A t \in Applying : ran[t] + 0 = ran[t]
    BY <1>1 DEF WakesTypeOK
  <2>3. ran = [t \in Applying |-> ran[t]]
    BY <1>1 DEF WakesTypeOK
  <2>4. QED
    BY <2>1, <2>2, <2>3
<1>6. now' \in 0..Day - 1 /\ now <= now'
  BY <1>3, <1>4
<1>7. WakesTypeOK'
  BY <1>1, <1>2, <1>4, <1>5, <1>6 DEF WakesTypeOK
<1>8. WithinADay'
  BY <1>1, <1>2, <1>4, <1>5 DEF WithinADay
<1>9. \A t \in Applying : PendingToday(t)' <=> PendingToday(t)
  BY <1>4 DEF PendingToday, Pending
<1>10. TwiceAtMost'
  <2>1. \A t \in Applying : \A s \in Slot(t) : s <= now => s <= now'
    BY <1>3, <1>6
  <2>2. QED
    BY <1>1, <1>2, <1>4, <1>5, <1>9, <2>1 DEF TwiceAtMost
<1>11. MissedOnce'
  BY <1>1, <1>2, <1>4, <1>5, <1>9 DEF MissedOnce
<1>12. Owed' = Owed /\ Earliest' = Earliest
  BY <1>2, <1>4, <1>5 DEF Owed, Earliest, Pending, PendingToday
<1>13. BeforeMidnight'
  <2> SUFFICES ASSUME Owed # {}, NEW t \in Earliest
               PROVE  LaterOf(now', due'[t]) + Toll(Owed') - MaxRun < Day
    BY <1>12 DEF BeforeMidnight
  <2>1. now' + Toll(Owed) - MaxRun < Day
    BY <1>4, EndOfRun
  <2>2. due[t] + Toll(Owed) - MaxRun < Day
    BY <1>1, EarliestFits DEF OwedFits
  <2>3. QED
    BY <1>4, <1>12, <2>1, <2>2 DEF LaterOf
<1>14. Fresh'
  BY DEF Fresh
<1>15. QED
  BY <1>7, <1>8, <1>10, <1>11, <1>13, <1>14 DEF WakesInv

\* A task ends after midnight, and the list is not used up.
LEMMA EndsTomorrow ==
  ASSUME WakesInv, loop = "run", NEW took \in 0..MaxRun, ~(now + took < Day),
         Pass(now + took, due, {}), loop' = "wait", UNCHANGED realm
  PROVE  WakesInv'
<1>1. WakesTypeOK /\ WithinADay
  BY DEF WakesInv
<1>2. Applying' = Applying /\ Applying \subseteq Tasks
  BY DEF Applying
<1>3. /\ Day \in Nat /\ MaxRun \in Nat /\ MaxRun < Day /\ now \in 0..Day - 1
      /\ \A t \in Applying : Slot(t) \subseteq 0..Day - 1
      /\ DOMAIN due \subseteq Applying /\ \A t \in DOMAIN due : due[t] \in Int
  BY <1>1, LoopFacts
<1>4. Owed = {}
  BY EndOfRun
<1>5. /\ now' = now + took - Day
      /\ DOMAIN due' = DOMAIN due /\ \A t \in DOMAIN due' : due'[t] = due[t] - Day
      /\ ran' = [t \in Applying |-> [u \in Applying |-> 0][t] + (IF t \in {} THEN 1 ELSE 0)]
      /\ missed' = [t \in Applying |-> IF ran[t] = 0 THEN missed[t] + 1 ELSE 0]
  <2>1. /\ now' = now + took - Day
        /\ due' = [t \in DOMAIN due |-> due[t] - Day]
        /\ ran' = [t \in Applying |-> [u \in Applying |-> 0][t] + (IF t \in {} THEN 1 ELSE 0)]
        /\ missed' = [t \in Applying |-> IF ran[t] = 0 THEN missed[t] + 1 ELSE 0]
    BY <1>3 DEF Pass
  <2>2. DOMAIN due' = DOMAIN due /\ \A t \in DOMAIN due' : due'[t] = due[t] - Day
    BY <2>1
  <2>3. QED
    BY <2>1, <2>2
<1>6. DOMAIN ran' = Applying /\ ran' = [t \in Applying |-> 0] /\ \A t \in Applying : ran'[t] = 0
  BY <1>5
<1>7. now' \in 0..Day - 1 /\ now' < MaxRun
  BY <1>3, <1>5, EndOfRun
<1>8. /\ \A t \in DOMAIN due : due[t] - Day \in Slot(t)
      /\ \A t \in Applying \ DOMAIN due : ran[t] > 0
      /\ missed' \in [Applying -> -1..1]
      /\ \A t \in Applying \ DOMAIN due : missed'[t] = 0
  BY <1>4, <1>5, AcrossMidnight
<1>9. \A t \in DOMAIN due' : due'[t] \in Slot(t) /\ due'[t] \in 0..Day - 1 /\ PendingToday(t)'
  <2>1. TAKE t \in DOMAIN due'
  <2>2. due'[t] \in Slot(t) /\ due'[t] \in 0..Day - 1
    BY <1>3, <1>5, <1>8
  <2>3. QED
    BY <1>3, <2>2 DEF PendingToday, Pending
<1>10. WakesTypeOK'
  <2>1. ran' \in [Applying' -> 0..2] /\ missed' \in [Applying' -> -1..1]
    BY <1>2, <1>6, <1>8
  <2>2. \A t \in DOMAIN due' : \E s \in Slot(t) : due'[t] \in {s, s + Day}
    BY <1>9
  <2>3. /\ realm' \in Realms /\ now' \in 0..Day - 1 /\ loop' \in {"first", "wait", "run", "over"}
        /\ DOMAIN due' \subseteq Applying'
    BY <1>1, <1>2, <1>3, <1>5, <1>7 DEF WakesTypeOK
  <2>4. QED
    BY <2>1, <2>2, <2>3 DEF WakesTypeOK
<1>11. WithinADay'
  <2>1. \A v, u \in DOMAIN due' : due'[v] < due'[u] + Day
    BY <1>3, <1>9
  <2>2. ASSUME NEW v \in Applying \ DOMAIN due', NEW u \in DOMAIN due'
        PROVE  \E s \in Slot(v) : due'[u] < s + (IF ran'[v] > 0 THEN Day ELSE 0)
    <3>1. v \in Applying \ DOMAIN due /\ u \in DOMAIN due
      BY <1>5
    <3>2. PICK s \in Slot(v) : due[u] < s + (IF ran[v] > 0 THEN Day ELSE 0)
      BY <1>1, <3>1 DEF WithinADay
    <3>3. s \in 0..Day - 1 /\ due[u] \in Int /\ ran[v] > 0
      BY <1>3, <1>8, <3>1
    <3>4. due'[u] < s
      BY <1>3, <1>5, <3>2, <3>3
    <3>5. due'[u] < s + 0 /\ ran'[v] = 0
      BY <1>6, <3>3, <3>4
    <3>6. QED
      BY <3>5
  <2>3. QED
    BY <1>2, <2>1, <2>2 DEF WithinADay
<1>12. TwiceAtMost'
  BY <1>2, <1>6 DEF TwiceAtMost
<1>13. MissedOnce'
  <2>1. ASSUME NEW t \in Applying, ~PendingToday(t)'
        PROVE  missed'[t] <= 0
    <3>1. missed'[t] = 0
      BY <1>5, <1>8, <1>9, <2>1
    <3>2. QED
      BY <3>1
  <2>2. QED
    BY <1>2, <2>1 DEF MissedOnce
<1>14. BeforeMidnight'
  <2> SUFFICES ASSUME Owed' # {}, NEW t \in Earliest'
               PROVE  LaterOf(now', due'[t]) + Toll(Owed') - MaxRun < Day
    BY DEF BeforeMidnight
  <2>1. OwedFits'
    BY <1>10, <1>11, EarliestFits, PTL
  <2>2. due'[t] + Toll(Owed') - MaxRun < Day
    BY <2>1 DEF OwedFits
  <2>3. Owed' \in SUBSET Tasks
    BY <1>2 DEF Owed
  <2>4. Toll(Owed') <= Toll(Tasks) /\ Toll(Owed') \in Nat /\ Toll(Tasks) \in Nat
    BY <2>3, TollOf
  <2>5. Toll(Tasks) <= Day
    BY HoursAssumption
  <2>6. now' + Toll(Owed') - MaxRun < Day
    BY <1>3, <1>7, <2>4, <2>5
  <2>7. QED
    BY <2>2, <2>6 DEF LaterOf
<1>15. Fresh'
  BY DEF Fresh
<1>16. QED
  BY <1>10, <1>11, <1>12, <1>13, <1>14, <1>15 DEF WakesInv

\* The last task of a list ends, and the next list is built.
LEMMA EndsList ==
  ASSUME WakesInv, loop = "run", NEW took \in 0..MaxRun, DOMAIN due = {},
         NEW pending \in BuildWakes(now + took), Pass(now + took, pending, {}),
         loop' = "wait", UNCHANGED realm
  PROVE  WakesInv'
<1> DEFINE time == now + took
<1>1. WakesTypeOK /\ TwiceAtMost /\ MissedOnce
  BY DEF WakesInv
<1>2. /\ Day \in Nat /\ now \in 0..Day - 1 /\ realm \in Realms
      /\ Applying \subseteq Tasks /\ \A t \in Applying : Slot(t) \subseteq 0..Day - 1
  BY <1>1, LoopFacts DEF WakesTypeOK
<1>3. time \in 0..2 * Day - 1
  BY EndOfRun
<1>4. /\ now' = (IF time < Day THEN time ELSE time - Day)
      /\ now' \in 0..Day - 1
      /\ DOMAIN due' = Applying
      /\ \A t \in Applying : \E s \in Slot(t) : due'[t] = IF s > now' THEN s ELSE s + Day
  BY <1>2, <1>3, Built
<1>5. \A t \in Applying : ~PendingToday(t) /\ ~Pending(t) /\ ran[t] \in 0..2
  BY <1>1 DEF PendingToday, Pending, WakesTypeOK
<1>6. CASE time < Day
  <2>1. ran' = [t \in Applying |-> ran[t] + (IF t \in {} THEN 1 ELSE 0)] /\ missed' = missed
    BY <1>6 DEF Pass
  <2>2. \A t \in Applying : ran'[t] = ran[t]
    BY <1>5, <2>1
  <2>3. ran' \in [Applying -> 0..2] /\ missed' \in [Applying -> -1..1]
    BY <1>1, <1>5, <2>1, <2>2 DEF WakesTypeOK
  <2>4. \A t \in Applying : ran'[t] = 0 => missed'[t] <= 0
    BY <1>1, <1>5, <2>1, <2>2 DEF MissedOnce
  <2>5. \A t \in Applying : \A s \in Slot(t) : s <= now => s <= now'
    <3>1. now <= now' /\ now' \in Int
      BY <1>2, <1>4, <1>6
    <3>2. QED
      BY <1>2, <3>1
  <2>6. \A t \in Applying : /\ ran'[t] > 0 => \E s \in Slot(t) : s <= now'
                            /\ ran'[t] = 2 => \A s \in Slot(t) : s <= now'
    BY <1>1, <2>2, <2>5 DEF TwiceAtMost
  <2>7. QED
    BY <1>2, <1>4, <2>3, <2>4, <2>6, ListBuilt
<1>7. CASE ~(time < Day)
  <2>1. /\ ran' = [t \in Applying |-> [u \in Applying |-> 0][t] + (IF t \in {} THEN 1 ELSE 0)]
        /\ missed' = [t \in Applying |-> IF ran[t] = 0 THEN missed[t] + 1 ELSE 0]
    BY <1>7 DEF Pass
  <2>2. ran' = [t \in Applying |-> 0]
    BY <2>1
  <2>3. Owed = {}
    BY <1>7, EndOfRun
  <2>4. missed' \in [Applying -> -1..1] /\ \A t \in Applying : missed'[t] = 0
    BY <2>1, <2>3, AcrossMidnight
  <2>5. \A t \in Applying : ran'[t] = 0 /\ missed'[t] <= 0
    BY <2>2, <2>4
  <2>6. ran' \in [Applying -> 0..2]
    BY <2>2
  <2>7. QED
    BY <1>2, <1>4, <2>4, <2>5, <2>6, ListBuilt
<1>8. QED
  BY <1>6, <1>7

\* A task ends.
LEMMA RunKeeps == WakesInv /\ Run => WakesInv'
<1> SUFFICES ASSUME WakesInv, Run
             PROVE  WakesInv'
  OBVIOUS
<1>1. PICK took \in 0..MaxRun : Ends(now + took)
  BY DEF Run
<1>2. loop = "run" /\ loop' = "wait" /\ UNCHANGED realm
  BY <1>1 DEF Run, Ends
<1>3. CASE DOMAIN due # {}
  <2>1. Pass(now + took, due, {})
    BY <1>1, <1>3 DEF Ends
  <2>2. QED
    BY <1>2, <2>1, EndsToday, EndsTomorrow
<1>4. CASE DOMAIN due = {}
  <2>1. PICK pending \in BuildWakes(now + took) : Pass(now + took, pending, {})
    BY <1>1, <1>4 DEF Ends
  <2>2. QED
    BY <1>2, <1>4, <2>1, EndsList
<1>5. QED
  BY <1>3, <1>4

\* The loop starts with nothing run, left out or to come.
LEMMA InitWakesInv == WakesInit => WakesInv
<1> SUFFICES ASSUME WakesInit
             PROVE  WakesInv
  OBVIOUS
<1>1. /\ realm \in Realms /\ now \in 0..Day - 1 /\ loop = "first" /\ due = <<>>
      /\ ran = [t \in Applying |-> 0] /\ missed = [t \in Applying |-> -1]
  BY DEF WakesInit
<1>2. DOMAIN due = {}
  BY <1>1
<1>3. \A t \in Applying : ran[t] = 0 /\ missed[t] = -1 /\ ~PendingToday(t)
  BY <1>1, <1>2 DEF PendingToday, Pending
<1>4. WakesTypeOK
  BY <1>1, <1>2 DEF WakesTypeOK
<1>5. WithinADay /\ Fresh
  BY <1>2, <1>3 DEF WithinADay, Fresh
<1>6. TwiceAtMost /\ MissedOnce
  BY <1>3 DEF TwiceAtMost, MissedOnce
<1>7. BeforeMidnight
  BY <1>1 DEF BeforeMidnight
<1>8. QED
  BY <1>4, <1>5, <1>6, <1>7 DEF WakesInv

\* Every step of the loop keeps its invariant.
LEMMA NextWakesInv == WakesInv /\ [WakesNext]_wakeVars => WakesInv'
<1> SUFFICES ASSUME WakesInv, [WakesNext]_wakeVars
             PROVE  WakesInv'
  OBVIOUS
<1>1. CASE Over \/ UNCHANGED wakeVars
  <2>1. UNCHANGED <<realm, now, due, ran, missed>> /\ loop' \in {loop, "over"}
    BY <1>1 DEF Over, wakeVars
  <2>2. /\ Applying' = Applying /\ Owed' = Owed /\ Earliest' = Earliest
        /\ \A t \in Applying : PendingToday(t)' <=> PendingToday(t)
    BY <2>1 DEF Applying, Owed, Earliest, Pending, PendingToday
  <2>3. WakesTypeOK' /\ Fresh'
    BY <2>1, <2>2 DEF WakesInv, WakesTypeOK, Fresh
  <2>4. WithinADay' /\ TwiceAtMost' /\ MissedOnce'
    BY <2>1, <2>2 DEF WakesInv, WithinADay, TwiceAtMost, MissedOnce
  <2>5. BeforeMidnight'
    BY <2>1, <2>2 DEF WakesInv, BeforeMidnight
  <2>6. QED
    BY <2>3, <2>4, <2>5 DEF WakesInv
<1>2. QED
  BY <1>1, FirstKeeps, WakeKeeps, RunKeeps DEF WakesNext

\* The invariant of a loop holds at any hour it may start, however long its
\* tasks take and whatever is drawn (accountLoop, buildWakes).
THEOREM WakesInvariant == WakesSpec => []WakesInv
<1>1. QED
  BY InitWakesInv, NextWakesInv, PTL DEF WakesSpec

\* No task runs three times on a day or leaves out two in a row.
THEOREM TasksRunDaily == WakesSpec => []RunsAboutDaily
<1>1. ASSUME WakesTypeOK
      PROVE  RunsAboutDaily
  <2>1. \A t \in Applying : ran[t] \in 0..2 /\ missed[t] \in -1..1
    BY <1>1 DEF WakesTypeOK
  <2>2. QED
    BY <2>1 DEF RunsAboutDaily
<1>2. WakesInv => RunsAboutDaily
  BY <1>1 DEF WakesInv
<1>3. QED
  BY <1>2, WakesInvariant, PTL
-----------------------------------------------------------------------------
\* A ring: its head is where the next entry goes.
Ring(l) ==
  /\ DOMAIN l.entries = Slots
  /\ l.head \in Slots /\ l.size \in 0..LedgerCap
  /\ l.size < LedgerCap => l.head = l.size

\* The slot of a place in the snapshot.
SlotOf(l, i) == ((IF l.size = LedgerCap THEN l.head ELSE 0) + i - 1) % LedgerCap

\* A slot once round the ring.
LEMMA Wrap ==
  ASSUME NEW x \in 0..2 * LedgerCap - 1
  PROVE  x % LedgerCap = IF x < LedgerCap THEN x ELSE x - LedgerCap
<1>1. LedgerCap \in Nat \ {0}
  BY LedgerAssumption
<1>2. CASE x < LedgerCap
  BY <1>1, <1>2
<1>3. CASE ~(x < LedgerCap)
  BY <1>1, <1>3
<1>4. QED
  BY <1>2, <1>3

\* A non-empty set of numbers with a bound has a least one.
LEMMA LeastOf ==
  ASSUME NEW n \in Nat, NEW T \in SUBSET (0..n), T # {}
  PROVE  \E x \in T : \A y \in T : x <= y
<1> DEFINE F == {0..x : x \in T}
<1>1. IsFiniteSet(0..n)
  BY FS_Interval
<1>2. IsWellFoundedOn(StrictSubsetOrdering(0..n), SUBSET (0..n))
  BY <1>1, FS_FiniteSubsetsOfFinite, FS_StrictSubsetOrderingWellFounded
<1>3. F \subseteq SUBSET (0..n) /\ F # {}
  <2>1. \A x \in T : 0..x \in SUBSET (0..n)
    OBVIOUS
  <2>2. QED
    BY <2>1
<1>4. \E I \in F : \A J \in F : ~(<<J, I>> \in StrictSubsetOrdering(0..n))
  BY <1>2, <1>3, WFMin
<1>5. PICK x \in T : \A y \in T : ~(<<0..y, 0..x>> \in StrictSubsetOrdering(0..n))
  BY <1>4
<1>6. ASSUME NEW y \in T, y < x
      PROVE  FALSE
  <2>1. 0..y \subseteq 0..x /\ 0..y # 0..x /\ 0..x \in SUBSET (0..n) /\ 0..y \in SUBSET (0..n)
    BY <1>6
  <2>2. QED
    BY <2>1, <1>5 DEF StrictSubsetOrdering
<1>7. QED
  BY <1>6

\* The snapshot is a sequence of the entries.
LEMMA SnapshotSeq ==
  ASSUME NEW l, Ring(l), NEW S, \A s \in Slots : l.entries[s] \in S
  PROVE  /\ Snapshot(l) \in Seq(S) /\ Len(Snapshot(l)) = l.size
         /\ \A i \in 1..l.size : SlotOf(l, i) \in Slots /\ Snapshot(l)[i] = l.entries[SlotOf(l, i)]
<1>1. l.size \in Nat /\ l.head \in Nat /\ LedgerCap \in Nat \ {0}
  BY LedgerAssumption DEF Ring, Slots
<1>2. \A i \in 1..l.size : SlotOf(l, i) \in Slots
  BY <1>1 DEF SlotOf, Slots
<1>3. Snapshot(l) = [i \in 1..l.size |-> l.entries[SlotOf(l, i)]]
  BY DEF Snapshot, SlotOf
<1>4. Snapshot(l) \in [1..l.size -> S]
  BY <1>2, <1>3
<1>5. Snapshot(l) \in Seq(S)
  BY <1>1, <1>4, SeqDef
<1>6. Len(Snapshot(l)) = l.size
  BY <1>1, <1>4, <1>5, LenProperties
<1>7. QED
  BY <1>2, <1>3, <1>5, <1>6

\* append puts its entry at the end, and drops the oldest of a full ring.
LEMMA RecordTail ==
  ASSUME NEW l, Ring(l), NEW auth, NEW balance, NEW e,
         e = [auth |-> auth, balance |-> balance, delta |-> Delta(l, auth, balance)]
  PROVE  /\ Ring(Record(l, auth, balance))
         /\ Snapshot(Record(l, auth, balance)) =
              IF l.size < LedgerCap THEN Append(Snapshot(l), e)
              ELSE Tail(Append(Snapshot(l), e))
<1>1. PICK n : n = Record(l, auth, balance)
  OBVIOUS
<1>2. /\ n.entries = [l.entries EXCEPT ![l.head] = e]
      /\ n.head = (l.head + 1) % LedgerCap
      /\ n.size = IF l.size < LedgerCap THEN l.size + 1 ELSE l.size
  BY <1>1 DEF Record
<1>3. /\ LedgerCap \in Nat \ {0} /\ l.head \in 0..LedgerCap - 1 /\ l.size \in 0..LedgerCap
      /\ l.size < LedgerCap => l.head = l.size
  BY LedgerAssumption DEF Ring, Slots
<1>4. n.head = IF l.head + 1 = LedgerCap THEN 0 ELSE l.head + 1
  BY <1>2, <1>3
<1>5. Ring(n)
  BY <1>2, <1>3, <1>4 DEF Ring, Slots
<1>6. n.entries[l.head] = e /\ \A s \in Slots : s # l.head => n.entries[s] = l.entries[s]
  BY <1>2 DEF Ring
<1>7. PICK S : S = {l.entries[s] : s \in Slots} \cup {e}
  OBVIOUS
<1>8. e \in S /\ \A s \in Slots : l.entries[s] \in S /\ n.entries[s] \in S
  BY <1>6, <1>7
<1>9. /\ Snapshot(l) \in Seq(S) /\ Len(Snapshot(l)) = l.size
      /\ \A i \in 1..l.size : SlotOf(l, i) \in Slots /\ Snapshot(l)[i] = l.entries[SlotOf(l, i)]
  BY <1>8, SnapshotSeq
<1>10. /\ Snapshot(n) \in Seq(S) /\ Len(Snapshot(n)) = n.size
       /\ \A i \in 1..n.size : SlotOf(n, i) \in Slots /\ Snapshot(n)[i] = n.entries[SlotOf(n, i)]
  BY <1>5, <1>8, SnapshotSeq
<1>11. PICK a : a = Append(Snapshot(l), e)
  OBVIOUS
<1>12. /\ a \in Seq(S) /\ a # <<>> /\ Len(a) = l.size + 1
       /\ \A i \in 1..l.size : a[i] = Snapshot(l)[i]
       /\ a[l.size + 1] = e
  BY <1>8, <1>9, <1>11, AppendProperties
<1>13. CASE l.size < LedgerCap
  <2>1. \A i \in 1..l.size + 1 : SlotOf(n, i) = i - 1
    <3>1. (IF n.size = LedgerCap THEN n.head ELSE 0) = 0
      BY <1>2, <1>3, <1>4, <1>13
    <3>2. \A i \in 1..l.size + 1 : SlotOf(n, i) = (0 + i - 1) % LedgerCap
      BY <3>1 DEF SlotOf
    <3>3. SUFFICES ASSUME NEW i \in 1..l.size + 1
                   PROVE  SlotOf(n, i) = i - 1
      OBVIOUS
    <3>4. 0 + i - 1 \in 0..2 * LedgerCap - 1 /\ 0 + i - 1 < LedgerCap /\ 0 + i - 1 = i - 1
      BY <1>3, <1>13
    <3>5. QED
      BY <3>2, <3>4, Wrap
  <2>2. \A i \in 1..l.size : SlotOf(l, i) = i - 1
    BY <1>3, <1>13 DEF SlotOf
  <2>3. \A i \in 1..l.size : Snapshot(n)[i] = a[i]
    <3>1. SUFFICES ASSUME NEW i \in 1..l.size
                   PROVE  Snapshot(n)[i] = a[i]
      OBVIOUS
    <3>2. i \in 1..n.size /\ i \in 1..l.size + 1 /\ i - 1 \in Slots /\ i - 1 # l.head
      BY <1>2, <1>3, <1>13 DEF Slots
    <3>3. Snapshot(n)[i] = n.entries[i - 1] /\ Snapshot(l)[i] = l.entries[i - 1]
      BY <2>1, <2>2, <3>2, <1>9, <1>10
    <3>4. QED
      BY <3>2, <3>3, <1>6, <1>12
  <2>4. Snapshot(n)[l.size + 1] = a[l.size + 1]
    BY <2>1, <1>2, <1>3, <1>6, <1>10, <1>12, <1>13
  <2>5. Len(Snapshot(n)) = Len(a) /\ \A i \in 1..Len(a) : Snapshot(n)[i] = a[i]
    BY <2>3, <2>4, <1>2, <1>3, <1>10, <1>12, <1>13
  <2>6. Snapshot(n) = a
    BY <2>5, <1>10, <1>12, SeqEqual
  <2>7. QED
    BY <2>6, <1>1, <1>5, <1>11, <1>13
<1>14. CASE l.size = LedgerCap
  <2>1. PICK t : t = Tail(a)
    OBVIOUS
  <2>2. t \in Seq(S) /\ Len(t) = l.size /\ \A i \in 1..l.size : t[i] = a[i + 1]
    BY <2>1, <1>3, <1>12, HeadTailProperties
  <2>3. n.size = LedgerCap
    BY <1>2, <1>3, <1>14
  <2>4. \A i \in 1..LedgerCap - 1 : SlotOf(n, i) = SlotOf(l, i + 1) /\ SlotOf(n, i) # l.head
    <3>1. SUFFICES ASSUME NEW i \in 1..LedgerCap - 1
                   PROVE  SlotOf(n, i) = SlotOf(l, i + 1) /\ SlotOf(n, i) # l.head
      OBVIOUS
    <3>2. SlotOf(n, i) = (n.head + i - 1) % LedgerCap
          /\ SlotOf(l, i + 1) = (l.head + (i + 1) - 1) % LedgerCap
      BY <2>3, <1>14 DEF SlotOf
    <3>3. CASE l.head + i < LedgerCap
      <4>1. SlotOf(l, i + 1) = l.head + i
        BY <3>2, <3>3, <1>3
      <4>2. SlotOf(n, i) = l.head + i
        BY <3>2, <3>3, <1>3, <1>4
      <4>3. QED
        BY <4>1, <4>2, <1>3
    <3>4. CASE l.head + i >= LedgerCap
      <4>1. SlotOf(l, i + 1) = l.head + i - LedgerCap
        BY <3>2, <3>4, <1>3
      <4>2. SlotOf(n, i) = l.head + i - LedgerCap
        <5>1. PICK x : x = n.head + i - 1
          OBVIOUS
        <5>2. x \in 0..2 * LedgerCap - 1 /\ x = IF l.head + 1 = LedgerCap THEN i - 1 ELSE l.head + i
          BY <5>1, <1>3, <1>4
        <5>3. x % LedgerCap = IF x < LedgerCap THEN x ELSE x - LedgerCap
          BY <5>2, Wrap
        <5>4. SlotOf(n, i) = IF x < LedgerCap THEN x ELSE x - LedgerCap
          BY <3>2, <5>1, <5>3
        <5>5. QED
          BY <5>2, <5>4, <3>4, <1>3
      <4>3. QED
        BY <4>1, <4>2, <1>3
    <3>5. QED
      BY <3>3, <3>4, <1>3
  <2>5. SlotOf(n, LedgerCap) = l.head
    BY <2>3, <1>3, <1>4 DEF SlotOf
  <2>6. \A i \in 1..LedgerCap - 1 : Snapshot(n)[i] = t[i]
    <3>1. SUFFICES ASSUME NEW i \in 1..LedgerCap - 1
                   PROVE  Snapshot(n)[i] = t[i]
      OBVIOUS
    <3>2. i \in 1..l.size /\ i + 1 \in 1..l.size /\ i \in 1..n.size
      BY <2>3, <1>3, <1>14
    <3>3. Snapshot(n)[i] = l.entries[SlotOf(l, i + 1)]
      BY <2>4, <3>2, <1>6, <1>9, <1>10
    <3>4. QED
      BY <2>2, <3>2, <3>3, <1>9, <1>12
  <2>7. Snapshot(n)[LedgerCap] = t[LedgerCap]
    BY <2>2, <2>3, <2>5, <1>3, <1>6, <1>10, <1>12, <1>14
  <2>8. Len(Snapshot(n)) = Len(t) /\ \A i \in 1..Len(t) : Snapshot(n)[i] = t[i]
    <3>1. Len(Snapshot(n)) = LedgerCap /\ Len(t) = LedgerCap
      BY <2>2, <2>3, <1>3, <1>10, <1>14
    <3>2. \A i \in 1..LedgerCap : i \in 1..LedgerCap - 1 \/ i = LedgerCap
      BY <1>3
    <3>3. QED
      BY <2>6, <2>7, <3>1, <3>2
  <2>9. Snapshot(n) = t
    BY <2>2, <2>8, <1>10, SeqEqual
  <2>10. QED
    BY <2>1, <2>9, <1>1, <1>3, <1>5, <1>11, <1>14
<1>15. QED
  BY <1>3, <1>13, <1>14

\* Going back from the head is going back in the snapshot.
LEMMA Backwards ==
  ASSUME NEW l, Ring(l), NEW i \in 0..l.size - 1
  PROVE  l.entries[Back(l, i)] = Snapshot(l)[l.size - i]
<1>1. /\ LedgerCap \in Nat \ {0} /\ l.head \in 0..LedgerCap - 1 /\ l.size \in 0..LedgerCap
      /\ l.size < LedgerCap => l.head = l.size
  BY LedgerAssumption DEF Ring, Slots
<1>2. l.size - i \in 1..l.size
  BY <1>1
<1>3. Snapshot(l)[l.size - i] = l.entries[SlotOf(l, l.size - i)]
  <2>1. PICK S : S = {l.entries[s] : s \in Slots}
    OBVIOUS
  <2>2. \A s \in Slots : l.entries[s] \in S
    BY <2>1
  <2>3. QED
    BY <1>2, <2>2, SnapshotSeq
<1>4. CASE l.size = LedgerCap
  <2>1. l.head - 1 - i + LedgerCap = l.head + (l.size - i) - 1
    BY <1>1, <1>4
  <2>2. Back(l, i) = SlotOf(l, l.size - i)
    BY <2>1, <1>4 DEF Back, SlotOf
  <2>3. QED
    BY <2>2, <1>3
<1>5. CASE l.size < LedgerCap
  <2>1. PICK x : x = l.head - 1 - i + LedgerCap
    OBVIOUS
  <2>1a. x \in 0..2 * LedgerCap - 1 /\ ~(x < LedgerCap) /\ x - LedgerCap = l.size - 1 - i
    BY <2>1, <1>1, <1>5
  <2>2. Back(l, i) = l.size - 1 - i
    <3>1. x % LedgerCap = l.size - 1 - i
      BY <2>1a, Wrap
    <3>2. QED
      BY <2>1, <3>1 DEF Back
  <2>3. /\ 0 + (l.size - i) - 1 \in 0..2 * LedgerCap - 1 /\ 0 + (l.size - i) - 1 < LedgerCap
        /\ 0 + (l.size - i) - 1 = l.size - 1 - i
    BY <1>1, <1>5
  <2>4. SlotOf(l, l.size - i) = (0 + (l.size - i) - 1) % LedgerCap
    BY <1>1, <1>5 DEF SlotOf
  <2>5. SlotOf(l, l.size - i) = l.size - 1 - i
    BY <2>3, <2>4, Wrap
  <2>6. QED
    BY <2>2, <2>5, <1>3
<1>6. QED
  BY <1>1, <1>4, <1>5

\* append finds the newest entry of its account.
LEMMA DeltaIsChange ==
  ASSUME Ring(ledger), NEW auth, NEW balance
  PROVE  Delta(ledger, auth, balance) = Observations!Change(auth, balance)
<1>1. PICK n, log : n = ledger.size /\ log = Snapshot(ledger)
  OBVIOUS
<1>2. n \in Nat /\ DOMAIN log = 1..n
  BY <1>1, LedgerAssumption DEF Ring, Snapshot
<1>3. PICK places : places = {i \in 0..n - 1 : ledger.entries[Back(ledger, i)].auth = auth}
  OBVIOUS
<1>4. PICK of : of = {j \in 1..n : log[j].auth = auth}
  OBVIOUS
<1>5. Observations!Of(auth) = of
  BY <1>1, <1>2, <1>4 DEF Observations!Of
<1>6. \A i \in 0..n - 1 : ledger.entries[Back(ledger, i)] = log[n - i]
  BY <1>1, Backwards
<1>7. \A i \in 0..n - 1 : i \in places <=> n - i \in of
  BY <1>2, <1>3, <1>4, <1>6
<1>8. Delta(ledger, auth, balance) =
        IF places = {} THEN 0
        ELSE balance - ledger.entries[Back(ledger, CHOOSE i \in places : \A j \in places : i <= j)].balance
  BY <1>1, <1>3 DEF Delta
<1>9. Observations!Change(auth, balance) =
        IF of = {} THEN 0
        ELSE balance - log[CHOOSE i \in of : \A j \in of : j <= i].balance
  BY <1>1, <1>5 DEF Observations!Change
<1>10. CASE places = {}
  <2>1. \A j \in 1..n : n - j \in 0..n - 1 /\ n - (n - j) = j
    BY <1>2
  <2>2. of = {}
    BY <2>1, <1>4, <1>7, <1>10
  <2>3. QED
    BY <2>2, <1>8, <1>9, <1>10
<1>11. CASE places # {}
  <2>1. PICK first \in places : \A j \in places : first <= j
    <3>1. places \in SUBSET (0..n) /\ n \in Nat
      BY <1>2, <1>3
    <3>2. QED
      BY <3>1, <1>11, LeastOf
  <2>2. first \in 0..n - 1 /\ \A j \in places : j \in 0..n - 1
    BY <2>1, <1>3
  <2>3. (CHOOSE i \in places : \A j \in places : i <= j) = first
    <3>1. \A i \in places : (\A j \in places : i <= j) => i = first
      BY <2>1, <2>2
    <3>2. QED
      BY <2>1, <3>1
  <2>4. n - first \in of /\ \A j \in of : j <= n - first
    <3>1. n - first \in of
      BY <2>1, <2>2, <1>7
    <3>2. ASSUME NEW j \in of
          PROVE  j <= n - first
      <4>1. j \in 1..n /\ n - j \in 0..n - 1 /\ n - (n - j) = j
        BY <1>2, <1>4
      <4>2. n - j \in places
        BY <4>1, <1>7
      <4>3. first <= n - j
        BY <4>2, <2>1
      <4>4. QED
        BY <4>1, <4>3, <2>2, <1>2
    <3>3. QED
      BY <3>1, <3>2
  <2>5. (CHOOSE i \in of : \A j \in of : j <= i) = n - first
    <3>1. \A i \in of : i \in 1..n
      BY <1>4
    <3>2. \A i \in of : (\A j \in of : j <= i) => i = n - first
      BY <2>4, <3>1, <1>2, <2>2
    <3>3. QED
      BY <2>4, <3>2
  <2>6. of # {}
    BY <2>4
  <2>7. ledger.entries[Back(ledger, first)] = log[n - first]
    BY <2>2, <1>6
  <2>8. QED
    BY <2>3, <2>5, <2>6, <2>7, <1>8, <1>9, <1>11
<1>12. QED
  BY <1>10, <1>11

----------------------------------------------------------------------------
\* What the loop keeps of the tiers are tiers.
LEMMA Kept ==
  ASSUME NEW S, NEW s \in Seq(S), NEW I \in SUBSET (DOMAIN s)
  PROVE  AtPositions(s, I) \in Seq(S)
<1> DEFINE Upto(i) == {j \in I : j <= i}
           N == Cardinality(I)
           count == [i \in I |-> Cardinality(Upto(i))]
<1>1. DOMAIN s = 1..Len(s) /\ Len(s) \in Nat /\ \A i \in DOMAIN s : s[i] \in S
  BY LenProperties, ElementOfSeq
<1>2. IsFiniteSet(I) /\ N \in Nat /\ I \subseteq Nat
  <2>1. IsFiniteSet(1..Len(s)) /\ I \subseteq 1..Len(s)
    BY <1>1, FS_Interval
  <2>2. IsFiniteSet(I)
    BY <2>1, FS_Subset
  <2>3. QED
    BY <1>1, <2>1, <2>2, FS_CardinalityType
<1>3. ASSUME NEW i \in I
      PROVE  count[i] \in 1..N
  <2>1. Upto(i) \in SUBSET I /\ i \in Upto(i)
    BY <1>2
  <2>2. IsFiniteSet(Upto(i)) /\ Cardinality(Upto(i)) <= N /\ Cardinality(Upto(i)) \in Nat
    BY <1>2, <2>1, FS_Subset, FS_CardinalityType
  <2>3. Cardinality(Upto(i)) # 0
    BY <2>1, <2>2, FS_EmptySet
  <2>4. QED
    BY <1>2, <2>2, <2>3
<1>4. ASSUME NEW i \in I, NEW j \in I, i < j
      PROVE  count[i] # count[j]
  <2>1. Upto(i) \in SUBSET Upto(j) /\ j \in Upto(j) /\ j \notin Upto(i)
    <3>1. \A k \in I : k <= i => k <= j
      BY <1>2, <1>4
    <3>2. j \in Upto(j) /\ ~(j <= i)
      BY <1>2, <1>4
    <3>3. QED
      BY <3>1, <3>2
  <2>2. IsFiniteSet(Upto(j)) /\ IsFiniteSet(Upto(i))
    BY <1>2, FS_Subset
  <2>3. Cardinality(Upto(i)) # Cardinality(Upto(j))
    BY <2>1, <2>2, FS_Subset
  <2>4. QED
    BY <2>3
<1> HIDE DEF count, N
<1>5. count \in Surjection(I, 1..N)
  <2>1. count \in [I -> 1..N]
    BY <1>3 DEF count
  <2>2. \A i, j \in I : count[i] = count[j] => i = j
    BY <1>2, <1>4
  <2>3. count \in Injection(I, 1..N)
    BY <2>1, <2>2 DEF Injection, IsInjective
  <2>4. IsFiniteSet(1..N) /\ Cardinality(1..N) = N
    BY <1>2, FS_Interval
  <2>5. QED
    BY <1>2, <2>3, <2>4, FS_Injection DEF N
<1>6. ASSUME NEW k \in 1..N
      PROVE  Nth(I, k) \in I
  <2>1. \E i \in I : count[i] = k
    BY <1>5 DEF Surjection
  <2>2. Nth(I, k) = CHOOSE m \in I : count[m] = k
    BY DEF Nth, count
  <2>3. QED
    BY <2>1, <2>2
<1>7. AtPositions(s, I) \in [1..N -> S]
  BY <1>1, <1>6 DEF AtPositions, N
<1>8. QED
  BY <1>2, <1>7, SeqDef

----------------------------------------------------------------------------
\* What remains of a package is a number.
LEMMA RemainIsInt ==
  ASSUME NEW p \in PackageRec
  PROVE  PackageRemainUsed(p).remain \in Int
<1>1. \A x, y \in Int : Max({x, y}) \in Int /\ Min({x, y}) \in Int
  <2>1. ASSUME NEW x \in Int, NEW y \in Int
        PROVE  Max({x, y}) \in Int /\ Min({x, y}) \in Int
    <3>1. \E m \in {x, y} : \A z \in {x, y} : m >= z
      OBVIOUS
    <3>2. \E m \in {x, y} : \A z \in {x, y} : m <= z
      OBVIOUS
    <3>3. Max({x, y}) \in {x, y}
      BY <3>1 DEF Max
    <3>4. Min({x, y}) \in {x, y}
      BY <3>2 DEF Min
    <3>5. QED
      BY <3>3, <3>4
  <2>2. QED
    BY <2>1
<1>2. /\ p.cycleSize \in Int /\ p.cycleRemain \in Int /\ p.cycleUsed \in Int
      /\ p.capRemain \in Int
  BY DEF PackageRec
<1>3. CASE p.cycleSize > 0
  <2>0. Min({p.cycleRemain, p.cycleSize}) \in Int
    BY <1>1, <1>2
  <2>1. PICK rest \in Int : rest = Max({0, Min({p.cycleRemain, p.cycleSize})})
    BY <1>1, <2>0
  <2>2. PICK used \in Int : used = Max({p.cycleSize - rest, p.cycleUsed})
    BY <1>1, <1>2
  <2>3. PackageRemainUsed(p).remain =
          IF p.cycleUsed > p.cycleSize - rest /\ p.cycleSize >= used
          THEN p.cycleSize - used ELSE rest
    BY <1>3, <2>1, <2>2 DEF PackageRemainUsed
  <2>4. p.cycleSize - used \in Int
    BY <1>2
  <2>5. QED
    BY <2>3, <2>4
<1>4. CASE ~(p.cycleSize > 0)
  <2>1. PackageRemainUsed(p).remain = p.capRemain
    BY <1>4 DEF PackageRemainUsed
  <2>2. QED
    BY <1>2, <2>1
<1>5. QED
  BY <1>3, <1>4

\* The sums over the first packages.
Sums(packages, n, f) ==
  f = [i \in 0..n |-> IF i = 0 THEN 0 ELSE f[i - 1] + PackageRemainUsed(packages[i]).remain]

\* The partial sums of resourceSummary's loop exist for every number of packages.
LEMMA SumsExist ==
  ASSUME NEW packages, NEW n \in Nat
  PROVE  \E f : Sums(packages, n, f)
<1> DEFINE T == {k \in 0..n : ~\E f : Sums(packages, k, f)}
<1>1. SUFFICES ASSUME T # {}
               PROVE  FALSE
  OBVIOUS
<1>2. PICK k \in T : \A l \in T : k <= l
  BY <1>1, LeastOf
<1>3. CASE k = 0
  <2> DEFINE f == [i \in 0..0 |-> 0]
  <2>1. Sums(packages, 0, f)
    BY DEF Sums
  <2>2. QED
    BY <1>2, <1>3, <2>1
<1>4. CASE k # 0
  <2>1. k - 1 \in 0..n /\ k \in Nat /\ ~(k <= k - 1)
    BY <1>4
  <2>2. PICK f : Sums(packages, k - 1, f)
    BY <1>2, <2>1
  <2> DEFINE Next1(h, i) == h[i - 1] + PackageRemainUsed(packages[i]).remain
             g == [i \in 0..k |-> IF i = k THEN Next1(f, k) ELSE f[i]]
             h == [i \in 0..k |-> IF i = 0 THEN 0 ELSE Next1(g, i)]
  <2>3. \A i \in 0..k - 1 : f[i] = IF i = 0 THEN 0 ELSE Next1(f, i)
    BY <2>2 DEF Sums
  <2>4. /\ 0 \in 0..k - 1 /\ \A i \in 0..k : i = k \/ i \in 0..k - 1
        /\ \A i \in 0..k : i # 0 => i - 1 \in 0..k /\ i - 1 # k
        /\ \A i \in 0..k - 1 : i \in 0..k /\ i # k
    BY <2>1, <1>4
  <2>5. \A i \in 0..k : i # 0 => g[i - 1] = f[i - 1]
    BY <2>4
  <2>6. g[k] = Next1(f, k) /\ \A i \in 0..k - 1 : g[i] = f[i]
    BY <2>1, <2>4
  <2>7. ASSUME NEW i \in 0..k
        PROVE  g[i] = h[i]
    <3>1. h[i] = IF i = 0 THEN 0 ELSE Next1(g, i)
      OBVIOUS
    <3> HIDE DEF g, h
    <3>2. CASE i = k
      BY <1>4, <2>5, <2>6, <3>1, <3>2
    <3>3. CASE i \in 0..k - 1
      BY <2>3, <2>5, <2>6, <3>1, <3>3
    <3>4. QED
      BY <2>4, <3>2, <3>3
  <2>8. g = h
    <3>1. g = [i \in 0..k |-> g[i]] /\ h = [i \in 0..k |-> h[i]]
      OBVIOUS
    <3> HIDE DEF g, h
    <3>2. QED
      BY <2>7, <3>1
  <2>9. Sums(packages, k, g)
    BY <2>8 DEF Sums
  <2>10. QED
    BY <1>2, <2>9
<1>5. QED
  BY <1>3, <1>4

\* The balance of an account is a number.
LEMMA RemainingIsInt ==
  ASSUME NEW packages \in Seq(PackageRec)
  PROVE  Remaining(packages) \in Int
<1>1. Len(packages) \in Nat
  OBVIOUS
<1> DEFINE n == Len(packages)
           sum == CHOOSE f : Sums(packages, n, f)
<1>2. Sums(packages, n, sum)
  BY <1>1, SumsExist
<1>3. Remaining(packages) = sum[n]
  BY DEF Remaining, Sums
<1>4. \A i \in 1..n : PackageRemainUsed(packages[i]).remain \in Int
  BY ElementOfSeq, RemainIsInt
<1> HIDE DEF sum
<1> DEFINE T == {i \in 0..n : sum[i] \notin Int}
<1>5. \A i \in 0..n :
        sum[i] = IF i = 0 THEN 0 ELSE sum[i - 1] + PackageRemainUsed(packages[i]).remain
  BY <1>2 DEF Sums
<1>6. T = {}
  <2>1. SUFFICES ASSUME T # {}
                 PROVE  FALSE
    OBVIOUS
  <2>2. PICK i \in T : \A j \in T : i <= j
    BY <1>1, <2>1, LeastOf
  <2>3. CASE i = 0
    BY <1>5, <2>2, <2>3
  <2>4. CASE i # 0
    <3>1. i \in 1..n /\ i - 1 \in 0..n /\ ~(i <= i - 1)
      BY <1>1, <2>2, <2>4
    <3>2. sum[i - 1] \in Int
      BY <2>2, <3>1
    <3>3. sum[i] = sum[i - 1] + PackageRemainUsed(packages[i]).remain
      BY <1>5, <2>4, <3>1
    <3>4. sum[i] \in Int
      BY <1>4, <3>1, <3>2, <3>3
    <3>5. QED
      BY <2>2, <3>4
  <2>5. QED
    BY <2>3, <2>4
<1>7. n \in 0..n
  BY <1>1
<1>8. QED
  BY <1>3, <1>6, <1>7

\* What resourceSummary finds to remain is a whole number.
LEMMA BalancesAreInts == Balances \subseteq Int
BY RemainingIsInt, TasksAssumption DEF Balances

----------------------------------------------------------------------------
\* What a worker is at makes sense: a worker that is not idle has a task and
\* an account, one that is about to record a balance has one, and one that is
\* at the benefits has a kind to go on with.
Busy(x) ==
  /\ x \in WorkRec
  /\ x.at # "idle" => x.task \in TaskNames /\ x.todo # <<>>
  /\ x.at \in {"query", "claim", "verify"} => x.left \in Seq(Range(Kinds)) /\ x.left # <<>>
  /\ x.at = "redeem" => x.left # <<>>
  /\ x.at = "record" => x.balance \in Balances

WorkInv == work \in [Workers -> WorkRec] /\ \A w \in Workers : Busy(work[w])

\* What the page has answered is about rewards there are.
RowsInv ==
  /\ rewards \in [Accounts \X Rewards -> RewardStates]
  /\ rows \subseteq Accounts \X Rewards \X Statuses
  /\ PageTellsTruth

\* Where a task begins.
LEMMA Starts ==
  ASSUME NEW task \in TaskNames, NEW accounts \in Seq(Accounts), accounts # <<>>
  PROVE  Busy(StartOn(task, accounts)) /\ StartOn(task, accounts).at # "idle"
<1>1. /\ FirstStep[task] \in {"checkin", "report", "streak", "query", "trial", "balance"}
      /\ FirstStep[task] = "query" => task = "benefits"
  BY DEF TaskNames, FirstStep, ScopeOf
<1>2. PICK x : x = StartOn(task, accounts)
  OBVIOUS
<1>3. x = [at |-> FirstStep[task], task |-> task, todo |-> accounts,
           left |-> IF task = "benefits" THEN Kinds ELSE <<>>, balance |-> 0]
  BY <1>2 DEF StartOn, Idle
<1>4. /\ Kinds \in Seq(Range(Kinds)) /\ Kinds # <<>> /\ Kinds \in Seq(Rewards)
      /\ <<>> \in Seq(Rewards)
  BY TasksAssumption, SeqMonotonic, EmptySeq DEF Rewards
<1>5. x \in WorkRec
  BY <1>1, <1>3, <1>4 DEF WorkRec, Places
<1>6. Busy(x) /\ x.at # "idle"
  BY <1>1, <1>3, <1>4, <1>5 DEF Busy
<1>7. QED
  BY <1>2, <1>6

\* A worker that has nothing to do.
LEMMA IdleIsBusy == Busy(Idle)
<1>1. <<>> \in Seq(Accounts) /\ <<>> \in Seq(Rewards)
  BY EmptySeq
<1>2. Idle \in WorkRec
  BY <1>1 DEF WorkRec, Places, Idle
<1>3. QED
  BY <1>2 DEF Busy, Idle

\* What a worker is at next, with the same account.
Placed(x, at, left, b) ==
  [at |-> at, task |-> x.task, todo |-> x.todo, left |-> left, balance |-> b]

\* A busy worker that goes on to another place of its task is still a busy worker.
LEMMA NextPlace ==
  ASSUME NEW x, Busy(x), x.at # "idle", NEW at \in Places \ {"idle"},
         NEW left \in Seq(Rewards), NEW b \in Balances \cup {0},
         at \in {"query", "claim", "verify"} => left \in Seq(Range(Kinds)) /\ left # <<>>,
         at = "redeem" => left # <<>>,
         at = "record" => b \in Balances
  PROVE  Busy(Placed(x, at, left, b))
<1>1. x \in WorkRec /\ x.task \in TaskNames /\ x.todo \in Seq(Accounts) /\ x.todo # <<>>
  BY DEF Busy, WorkRec
<1>2. PICK y : y = [at |-> at, task |-> x.task, todo |-> x.todo, left |-> left, balance |-> b]
  OBVIOUS
<1>3. y \in WorkRec
  BY <1>1, <1>2 DEF WorkRec
<1>4. Busy(y)
  BY <1>1, <1>2, <1>3 DEF Busy
<1>5. QED
  BY <1>2, <1>4 DEF Placed

\* What a worker has at hand.
LEMMA HasAtHand ==
  ASSUME NEW x, Busy(x)
  PROVE  x.left \in Seq(Rewards) /\ x.balance \in Balances \cup {0}
BY DEF Busy, WorkRec

\* Changes of a worker's record, written out: of its place alone, ...
LEMMA PlacedAt ==
  ASSUME NEW x, Busy(x), NEW at
  PROVE  [x EXCEPT !.at = at] = Placed(x, at, x.left, x.balance)
<1>1. x = [at |-> x.at, task |-> x.task, todo |-> x.todo, left |-> x.left, balance |-> x.balance]
  BY DEF Busy, WorkRec
<1>2. QED
  BY <1>1 DEF Placed

\* ... of its place and of what is left, ...
LEMMA PlacedLeft ==
  ASSUME NEW x, Busy(x), NEW at, NEW left
  PROVE  [x EXCEPT !.at = at, !.left = left] = Placed(x, at, left, x.balance)
<1>1. [x EXCEPT !.at = at, !.left = left] = [Placed(x, at, x.left, x.balance) EXCEPT !.left = left]
  BY PlacedAt
<1>2. [Placed(x, at, x.left, x.balance) EXCEPT !.left = left] = Placed(x, at, left, x.balance)
  BY DEF Placed
<1>3. QED
  BY <1>1, <1>2

\* ... of its place and of the balance it has read.
LEMMA PlacedBalance ==
  ASSUME NEW x, Busy(x), NEW at, NEW b
  PROVE  [x EXCEPT !.at = at, !.balance = b] = Placed(x, at, x.left, b)
<1>1. [x EXCEPT !.at = at, !.balance = b] = [Placed(x, at, x.left, x.balance) EXCEPT !.balance = b]
  BY PlacedAt
<1>2. [Placed(x, at, x.left, x.balance) EXCEPT !.balance = b] = Placed(x, at, x.left, b)
  BY DEF Placed
<1>3. QED
  BY <1>1, <1>2

\* A worker that goes on.
LEMMA GoesKeeps ==
  ASSUME WorkInv, NEW w \in Workers, NEW x, Busy(x), Goes(w, x)
  PROVE  WorkInv'
<1>1. work' = [work EXCEPT ![w] = x]
  BY DEF Goes
<1>2. work' \in [Workers -> WorkRec] /\ \A v \in Workers : Busy(work'[v])
  <2>1. work' \in [Workers -> WorkRec]
    BY <1>1 DEF WorkInv, Busy
  <2>2. \A v \in Workers : Busy(work'[v])
    BY <1>1 DEF WorkInv
  <2>3. QED
    BY <2>1, <2>2
<1>3. QED
  BY <1>2, Zenon DEF WorkInv, Busy, Workers

\* A worker that is done with an account goes on to its next one.
LEMMA DoneKeeps ==
  ASSUME WorkInv, NEW w \in Workers, work[w].at # "idle", NEW ok, Done(w, ok)
  PROVE  WorkInv'
<1>1. CASE w \in Accounts
  <2>1. work' = [work EXCEPT ![w] = Idle]
    BY <1>1 DEF Done
  <2>2. work' \in [Workers -> WorkRec]
    BY <2>1, IdleIsBusy DEF WorkInv, Busy
  <2>3. \A v \in Workers : Busy(work'[v])
    BY <2>1, IdleIsBusy DEF WorkInv
  <2>4. QED
    BY <2>2, <2>3 DEF WorkInv, Busy
<1>2. CASE w \notin Accounts
  <2>1. PICK x : /\ x = IF Len(work[w].todo) > 1
                        THEN StartOn(work[w].task, Tail(work[w].todo)) ELSE Idle
                 /\ Goes(w, x)
    BY <1>2 DEF Done
  <2>2. /\ work[w].task \in TaskNames /\ work[w].todo \in Seq(Accounts)
        /\ work[w].todo # <<>>
    BY DEF WorkInv, Busy, WorkRec
  <2>3. CASE Len(work[w].todo) > 1
    <3>1. PICK t : t = Tail(work[w].todo)
      OBVIOUS
    <3>2. t \in Seq(Accounts) /\ Len(t) = Len(work[w].todo) - 1
      BY <2>2, <3>1, HeadTailProperties
    <3>3. Len(t) # 0
      BY <2>2, <2>3, <3>2, LenProperties
    <3>4. t # <<>>
      BY <3>2, <3>3, EmptySeq
    <3>5. Busy(x)
      BY <2>1, <2>2, <2>3, <3>1, <3>2, <3>4, Starts
    <3>6. QED
      BY <2>1, <3>5, GoesKeeps
  <2>4. CASE ~(Len(work[w].todo) > 1)
    BY <2>1, <2>4, IdleIsBusy, GoesKeeps
  <2>5. QED
    BY <2>3, <2>4
<1>3. QED
  BY <1>1, <1>2

\* A worker that is done with a benefit goes on to its next one.
LEMMA NextKindKeeps ==
  ASSUME WorkInv, NEW w \in Workers, work[w].at \in {"query", "claim", "verify"},
         NEW status, NextKind(w, status)
  PROVE  WorkInv'
<1>1. PICK x : x = work[w] /\ Busy(x) /\ x.at # "idle"
  BY DEF WorkInv
<1>2. x.left \in Seq(Range(Kinds)) /\ x.left # <<>> /\ Len(x.left) \in Nat
  BY <1>1, LenProperties DEF Busy
<1>3. CASE Len(x.left) = 1
  BY <1>1, <1>3, DoneKeeps DEF NextKind
<1>4. CASE Len(x.left) # 1
  <2>1. Goes(w, [x EXCEPT !.at = "query", !.left = Tail(x.left)])
    BY <1>1, <1>4 DEF NextKind
  <2>2. PICK t : t = Tail(x.left)
    OBVIOUS
  <2>3. t \in Seq(Range(Kinds)) /\ Len(t) = Len(x.left) - 1
    BY <1>2, <2>2, HeadTailProperties
  <2>4. t # <<>>
    <3>1. Len(t) # 0
      BY <2>3, <1>2, <1>4
    <3>2. QED
      BY <2>3, <3>1, EmptySeq
  <2>5. PICK y : y = Placed(x, "query", t, x.balance) /\ Goes(w, y)
    BY <1>1, <2>1, <2>2, PlacedLeft
  <2>6. Busy(y)
    <3>1. t \in Seq(Rewards)
      BY <2>3, SeqMonotonic DEF Rewards
    <3>2. "query" \in Places \ {"idle"}
      BY DEF Places
    <3>3. x.left \in Seq(Rewards) /\ x.balance \in Balances \cup {0}
      BY <1>1, <2>1, HasAtHand
    <3>4. QED
      BY <1>1, <2>3, <2>4, <2>5, <3>1, <3>2, <3>3, NextPlace
  <2>7. QED
    BY <2>5, <2>6, GoesKeeps
<1>5. QED
  BY <1>3, <1>4

\* An account that goes on to its next tier.
LEMMA TriesNextTier ==
  ASSUME WorkInv, NEW a \in Accounts, work[a].at # "idle", NEW tiers \in Seq(Rewards),
         NextTier(a, tiers)
  PROVE  WorkInv'
<1>1. a \in Workers
  BY DEF Workers
<1>2. CASE tiers = <<>>
  BY <1>1, <1>2, DoneKeeps DEF NextTier
<1>3. CASE tiers # <<>>
  <2>1. PICK x, y : /\ x = work[a] /\ Busy(x) /\ x.at # "idle"
                    /\ y = [x EXCEPT !.at = "redeem", !.left = tiers] /\ Goes(a, y)
    BY <1>1, <1>3 DEF WorkInv, NextTier
  <2>2. y = Placed(x, "redeem", tiers, x.balance)
    BY <2>1, PlacedLeft
  <2>3. Busy(y)
    <3>1. "redeem" \in Places \ {"idle"}
      BY DEF Places
    <3>2. x.left \in Seq(Rewards) /\ x.balance \in Balances \cup {0}
      BY <1>1, <2>1, HasAtHand
    <3>3. QED
      BY <1>3, <2>1, <2>2, <3>1, <3>2, NextPlace
  <2>4. QED
    BY <1>1, <2>1, <2>3, GoesKeeps
<1>4. QED
  BY <1>2, <1>3

\* The tasks of the loop and of the page keep the invariant of the work.
LEMMA BeginKeepsWork ==
  ASSUME WorkInv, NEW a \in Accounts, NEW task \in TaskNames,
         Begin(a, task) \/ BeginFails(a, task) \/ \E f \in Fetchers : FetchQuota(f, a)
  PROVE  WorkInv'
<1>1. PICK one : one = <<a>> /\ one \in Seq(Accounts) /\ one # <<>>
  <2>1. <<a>> \in Seq(Accounts)
    OBVIOUS
  <2>2. <<a>> # <<>>
    OBVIOUS
  <2>3. QED
    BY <2>1, <2>2, Zenon
<1>2. a \in Workers /\ Fetchers \subseteq Workers
  BY DEF Workers
<1>3. "quota" \in TaskNames
  BY DEF TaskNames, ScopeOf
<1>4. CASE Begin(a, task)
  <2>1. Goes(a, StartOn(task, one))
    BY <1>1, <1>4 DEF Begin
  <2>2. QED
    BY <1>1, <1>2, <2>1, Starts, GoesKeeps
<1>5. CASE BeginFails(a, task)
  BY <1>5 DEF BeginFails, WorkInv, Busy
<1>6. ASSUME NEW f \in Fetchers, FetchQuota(f, a)
      PROVE  WorkInv'
  <2>1. Goes(f, StartOn("quota", one))
    BY <1>1, <1>6 DEF FetchQuota
  <2>2. QED
    BY <1>1, <1>2, <1>3, <2>1, Starts, GoesKeeps
<1>7. QED
  BY <1>4, <1>5, <1>6

\* The page begins with the first of the accounts asked for.
LEMMA AskKeepsWork ==
  ASSUME WorkInv, NEW accounts \in SetToAllKPermutations(Accounts),
         NEW task \in {"checkin", "benefits"}, AskPage(task, accounts)
  PROVE  WorkInv'
<1>1. PICK s \in SUBSET Accounts : accounts \in SetToSeqs(s)
  BY DEF SetToAllKPermutations
<1>2. Cardinality(s) \in Nat
  BY TasksAssumption, FS_Subset, FS_CardinalityType
<1>3. accounts \in [1..Cardinality(s) -> s]
  BY <1>1 DEF SetToSeqs
<1>4. accounts \in Seq(s)
  BY <1>2, <1>3, SeqDef
<1>5. accounts \in Seq(Accounts) /\ accounts # <<>>
  BY <1>4, SeqMonotonic DEF AskPage
<1>6. task \in TaskNames /\ Page \in Workers
  BY DEF TaskNames, ScopeOf, Workers
<1>7. Goes(Page, StartOn(task, accounts))
  BY DEF AskPage
<1>8. QED
  BY <1>5, <1>6, <1>7, Starts, GoesKeeps

\* Check-in and quota end with a balance to be recorded.
LEMMA BalanceKeepsWork ==
  ASSUME WorkInv, NEW w \in Workers, CheckIn(w) \/ Balance(w) \/ RecordBalance(w)
  PROVE  WorkInv'
<1>1. work[w].at # "idle"
  BY DEF CheckIn, Balance, RecordBalance, At
<1>2. CASE CheckIn(w)
  <2>1. \/ Goes(w, [work[w] EXCEPT !.at = "balance"])
        \/ \E ok : Done(w, ok)
    BY <1>2 DEF CheckIn
  <2>2. CASE Goes(w, [work[w] EXCEPT !.at = "balance"])
    <3>1. PICK x, y : x = work[w] /\ Busy(x) /\ y = [x EXCEPT !.at = "balance"] /\ Goes(w, y)
      BY <2>2 DEF WorkInv
    <3>2. y = Placed(x, "balance", x.left, x.balance)
      BY <3>1, PlacedAt
    <3>3. Busy(y)
      <4>1. "balance" \in Places \ {"idle"}
        BY DEF Places
      <4>2. x.left \in Seq(Rewards) /\ x.balance \in Balances \cup {0}
        BY <1>1, <3>1, HasAtHand
      <4>3. QED
        BY <1>1, <3>1, <3>2, <4>1, <4>2, NextPlace
    <3>4. QED
      BY <3>1, <3>3, GoesKeeps
  <2>3. QED
    BY <1>1, <2>1, <2>2, DoneKeeps
<1>3. CASE Balance(w)
  <2>1. \/ \E packages \in Packages :
             Goes(w, [work[w] EXCEPT !.at = "record", !.balance = Remaining(packages)])
        \/ \E ok : Done(w, ok)
    BY <1>3 DEF Balance
  <2>2. ASSUME NEW packages \in Packages,
               Goes(w, [work[w] EXCEPT !.at = "record", !.balance = Remaining(packages)])
        PROVE  WorkInv'
    <3>1. PICK x : x = work[w] /\ Busy(x)
      BY DEF WorkInv
    <3>2. PICK b \in Balances : b = Remaining(packages)
      BY DEF Balances
    <3>2a. Goes(w, [x EXCEPT !.at = "record", !.balance = b])
      BY <2>2, <3>1, <3>2
    <3>3. PICK y : y = Placed(x, "record", x.left, b) /\ Goes(w, y)
      BY <3>1, <3>2a, PlacedBalance
    <3>4. Busy(y)
      <4>1. "record" \in Places \ {"idle"}
        BY DEF Places
      <4>2. x.left \in Seq(Rewards) /\ x.balance \in Balances \cup {0}
        BY <1>1, <3>1, HasAtHand
      <4>3. QED
        BY <1>1, <3>1, <3>2, <3>3, <4>1, <4>2, NextPlace
    <3>5. QED
      BY <3>3, <3>4, GoesKeeps
  <2>3. QED
    BY <1>1, <2>1, <2>2, DoneKeeps
<1>4. CASE RecordBalance(w)
  BY <1>1, <1>4, DoneKeeps DEF RecordBalance
<1>5. QED
  BY <1>2, <1>3, <1>4

\* Streak rewards, reports and the trial.
LEMMA TierKeepsWork ==
  ASSUME WorkInv, NEW a \in Accounts, Streak(a) \/ Redeem(a) \/ Report(a) \/ Trial(a)
  PROVE  WorkInv'
<1>1. work[a].at # "idle" /\ a \in Workers
  BY DEF Streak, Redeem, Report, Trial, At, Workers
<1>3. CASE Streak(a)
  <2>0. \A I \in SUBSET (DOMAIN Tiers) : AtPositions(Tiers, I) \in Seq(Rewards)
    <3>1. Tiers \in Seq(Rewards)
      BY TasksAssumption, SeqMonotonic DEF Rewards
    <3>2. QED
      BY <3>1, Kept
  <2>1. (\E ok : Done(a, ok)) \/ \E tiers \in Seq(Rewards) : NextTier(a, tiers)
    <3> DEFINE open == {i \in DOMAIN Tiers : Shown(a, Tiers[i])}
    <3>1. (\E ok : Done(a, ok)) \/ NextTier(a, AtPositions(Tiers, open))
      BY <1>3 DEF Streak
    <3>2. open \in SUBSET (DOMAIN Tiers)
      OBVIOUS
    <3> HIDE DEF open
    <3>3. QED
      BY <2>0, <3>1, <3>2
  <2>2. QED
    BY <1>1, <2>1, DoneKeeps, TriesNextTier
<1>4. CASE Redeem(a)
  <2>0. Tail(work[a].left) \in Seq(Rewards)
    <3>1. Busy(work[a]) /\ work[a].at = "redeem"
      BY <1>1, <1>4 DEF WorkInv, Redeem, At
    <3>2. work[a].left \in Seq(Rewards) /\ work[a].left # <<>>
      BY <3>1, HasAtHand DEF Busy
    <3>3. QED
      BY <3>2, HeadTailProperties
  <2>1. (\E ok : Done(a, ok)) \/ \E tiers \in Seq(Rewards) : NextTier(a, tiers)
    BY <1>4, <2>0 DEF Redeem
  <2>2. QED
    BY <1>1, <2>1, DoneKeeps, TriesNextTier
<1>5. CASE Report(a) \/ Trial(a)
  <2>1. \E ok : Done(a, ok)
    BY <1>5 DEF Report, Trial
  <2>2. QED
    BY <1>1, <2>1, DoneKeeps
<1>6. QED
  BY <1>3, <1>4, <1>5

\* Benefits, by the loop or by the page.
LEMMA BenefitKeepsWork ==
  ASSUME WorkInv, NEW w \in Workers, Query(w) \/ Claim(w) \/ Verify(w)
  PROVE  WorkInv'
<1>1. work[w].at \in {"query", "claim", "verify"} /\ work[w].at # "idle"
  BY DEF Query, Claim, Verify, At
<1>2. \/ \E status : NextKind(w, status)
      \/ \E ok : Done(w, ok)
      \/ Goes(w, [work[w] EXCEPT !.at = "claim"])
      \/ Goes(w, [work[w] EXCEPT !.at = "verify"])
  BY DEF Query, Claim, Verify, KindFails, Claimed
<1>3. ASSUME NEW at \in {"claim", "verify"}, Goes(w, [work[w] EXCEPT !.at = at])
      PROVE  WorkInv'
  <2>1. PICK x, y : x = work[w] /\ Busy(x) /\ y = [x EXCEPT !.at = at] /\ Goes(w, y)
    BY <1>3 DEF WorkInv
  <2>2. y = Placed(x, at, x.left, x.balance)
    BY <2>1, PlacedAt
  <2>3. Busy(y)
    <3>1. at \in Places \ {"idle"}
      BY DEF Places
    <3>2. x.left \in Seq(Range(Kinds)) /\ x.left # <<>>
      BY <1>1, <2>1 DEF Busy
    <3>3. x.left \in Seq(Rewards) /\ x.balance \in Balances \cup {0}
      BY <1>1, <2>1, HasAtHand
    <3>4. QED
      BY <1>1, <2>1, <2>2, <3>1, <3>2, <3>3, NextPlace
  <2>4. QED
    BY <2>1, <2>3, GoesKeeps
<1>4. QED
  BY <1>1, <1>2, <1>3, DoneKeeps, NextKindKeeps

\* Every step keeps what the workers are at in order.
LEMMA NextKeepsWork == WorkInv /\ [TasksNext]_taskVars => WorkInv'
<1> SUFFICES ASSUME WorkInv, [TasksNext]_taskVars PROVE WorkInv'
  OBVIOUS
<1>1. ASSUME NEW w \in Workers, ManualStep(w)
      PROVE  WorkInv'
  BY <1>1, BalanceKeepsWork, BenefitKeepsWork DEF ManualStep
<1>2. ASSUME NEW a \in Accounts, LoopStep(a)
      PROVE  WorkInv'
  <2>1. a \in Workers
    BY DEF Workers
  <2>2. QED
    BY <1>2, <2>1, BalanceKeepsWork, BenefitKeepsWork, TierKeepsWork DEF LoopStep
<1>3. ASSUME NEW a \in Accounts, NEW f \in Fetchers, FetchQuota(f, a)
      PROVE  WorkInv'
  <2>1. "quota" \in TaskNames
    BY DEF TaskNames, ScopeOf
  <2>2. QED
    BY <1>3, <2>1, BeginKeepsWork
<1>4. ASSUME NEW a, NEW r, RewardOpens(a, r) \/ BenefitCloses(a, r) \/ Expires(a)
      PROVE  WorkInv'
  BY <1>4 DEF RewardOpens, BenefitCloses, Expires, WorkInv, Busy
<1>5. CASE UNCHANGED taskVars
  BY <1>5 DEF taskVars, WorkInv, Busy
<1>6. Fetchers \cup {Page} \subseteq Workers
  BY DEF Workers
<1>7. QED
  BY <1>1, <1>2, <1>3, <1>4, <1>5, <1>6, BeginKeepsWork, AskKeepsWork DEF TasksNext

----------------------------------------------------------------------------
\* What is claimed stays claimed.
LEMMA ClaimedStays ==
  ASSUME rewards \in [Accounts \X Rewards -> RewardStates], [TasksNext]_taskVars
  PROVE  /\ rewards' \in [Accounts \X Rewards -> RewardStates]
         /\ \A x \in Accounts \X Rewards : rewards[x] = "claimed" => rewards'[x] = "claimed"
<1>1. "open" \in RewardStates /\ "closed" \in RewardStates /\ "claimed" \in RewardStates
  BY DEF RewardStates
<1>2. ASSUME NEW a, NEW r, Granted(a, r) \/ RewardOpens(a, r) \/ BenefitCloses(a, r)
      PROVE  /\ rewards' \in [Accounts \X Rewards -> RewardStates]
             /\ \A x \in Accounts \X Rewards : rewards[x] = "claimed" => rewards'[x] = "claimed"
  <2>1. CASE Granted(a, r)
    <3>1. rewards' = [rewards EXCEPT ![<<a, r>>] = "claimed"]
      BY <2>1 DEF Granted
    <3>2. QED
      BY <3>1, <1>1
  <2>2. CASE RewardOpens(a, r)
    <3>1. /\ rewards' = [rewards EXCEPT ![<<a, r>>] = "open"]
          /\ rewards[<<a, r>>] # "claimed"
      BY <2>2 DEF RewardOpens
    <3>2. QED
      BY <3>1, <1>1
  <2>3. CASE BenefitCloses(a, r)
    <3>1. /\ rewards' = [rewards EXCEPT ![<<a, r>>] = "closed"]
          /\ rewards[<<a, r>>] # "claimed"
      BY <2>3 DEF BenefitCloses, Shown
    <3>2. QED
      BY <3>1, <1>1
  <2>4. QED
    BY <1>2, <2>1, <2>2, <2>3
<1>3. ASSUME NEW w, Redeem(w) \/ Claim(w)
      PROVE  UNCHANGED rewards \/ \E a, r : Granted(a, r)
  BY <1>3 DEF Redeem, Claim, Lost
<1>4. ASSUME NEW w, \/ CheckIn(w) \/ Balance(w) \/ RecordBalance(w) \/ Streak(w) \/ Query(w)
                    \/ Report(w) \/ Trial(w) \/ Verify(w)
      PROVE  UNCHANGED rewards
  BY <1>4 DEF CheckIn, Balance, RecordBalance, Streak, Query, Report, Trial, Verify
<1>5. ASSUME NEW w, NEW task, NEW accounts, NEW f,
             \/ Begin(w, task) \/ BeginFails(w, task) \/ AskPage(task, accounts)
             \/ FetchQuota(f, w) \/ Expires(w)
      PROVE  UNCHANGED rewards
  BY <1>5 DEF Begin, BeginFails, AskPage, FetchQuota, Expires
<1>6. CASE UNCHANGED taskVars
  BY <1>6 DEF taskVars
<1>7. CASE TasksNext
  <2>1. \/ \E a, r : Granted(a, r) \/ RewardOpens(a, r) \/ BenefitCloses(a, r)
        \/ UNCHANGED rewards
    BY <1>3, <1>4, <1>5, <1>7 DEF TasksNext, LoopStep, ManualStep
  <2>2. QED
    BY <1>2, <2>1
<1>8. QED
  BY <1>6, <1>7

\* A row the page adds is about a reward there is.
LEMMA RowAdded ==
  ASSUME WorkInv, RowsInv, [TasksNext]_taskVars, NEW w \in Workers,
         work[w].at \in {"query", "claim", "verify"}, NEW status, NextKind(w, status),
         w = Page => status \in Statuses,
         status \in {"OK", "ALREADY"} => rewards[<<Account(w), Kind(w)>>] = "claimed"
  PROVE  RowsInv'
<1>1. /\ rewards' \in [Accounts \X Rewards -> RewardStates]
      /\ \A x \in Accounts \X Rewards : rewards[x] = "claimed" => rewards'[x] = "claimed"
  BY ClaimedStays DEF RowsInv
<1>2. Account(w) \in Accounts /\ Kind(w) \in Rewards
  <2>1. /\ work[w].todo \in Seq(Accounts) /\ work[w].todo # <<>>
        /\ work[w].left \in Seq(Range(Kinds)) /\ work[w].left # <<>>
    BY DEF WorkInv, Busy, WorkRec
  <2>2. Head(work[w].left) \in Range(Kinds)
    BY <2>1, HeadTailProperties
  <2>3. work[w].todo[1] \in Accounts
    <3>1. PICK s : s = work[w].todo /\ s \in Seq(Accounts) /\ s # <<>>
      BY <2>1
    <3>2. Len(s) \in Nat /\ Len(s) # 0
      BY <3>1, LenProperties, EmptySeq
    <3>3. QED
      BY <3>1, <3>2, ElementOfSeq
  <2>4. QED
    BY <2>2, <2>3 DEF Account, Kind, Rewards
<1>3. \A row \in rows' : row \in rows \/ (w = Page /\ row = <<Account(w), Kind(w), status>>)
  BY DEF NextKind
<1>4. ASSUME NEW row \in rows'
      PROVE  /\ row \in Accounts \X Rewards \X Statuses
             /\ row[3] \in {"OK", "ALREADY"} => rewards'[<<row[1], row[2]>>] = "claimed"
  <2>1. CASE row \in rows
    BY <1>1, <2>1 DEF RowsInv, PageTellsTruth
  <2>2. CASE w = Page /\ row = <<Account(w), Kind(w), status>>
    <3>1. row[1] = Account(w) /\ row[2] = Kind(w) /\ row[3] = status
      BY <2>2
    <3>2. row \in Accounts \X Rewards \X Statuses
      BY <1>2, <2>2
    <3>3. QED
      BY <1>1, <1>2, <3>1, <3>2
  <2>3. QED
    BY <1>3, <2>1, <2>2
<1>5. QED
  BY <1>1, <1>4 DEF RowsInv, PageTellsTruth

\* A step that adds no row keeps the rows true: what is claimed stays claimed.
LEMMA RowsStay ==
  ASSUME RowsInv, [TasksNext]_taskVars, rows' \subseteq rows
  PROVE  RowsInv'
<1>1. /\ rewards' \in [Accounts \X Rewards -> RewardStates]
      /\ \A x \in Accounts \X Rewards : rewards[x] = "claimed" => rewards'[x] = "claimed"
  BY ClaimedStays DEF RowsInv
<1>2. ASSUME NEW row \in rows'
      PROVE  /\ row \in Accounts \X Rewards \X Statuses
             /\ row[3] \in {"OK", "ALREADY"} => rewards'[<<row[1], row[2]>>] = "claimed"
  BY <1>1 DEF RowsInv, PageTellsTruth
<1>3. QED
  BY <1>1, <1>2 DEF RowsInv, PageTellsTruth

\* The page says "OK" or "ALREADY" after it has seen the reward claimed.
LEMMA BenefitKeepsRows ==
  ASSUME WorkInv, RowsInv, [TasksNext]_taskVars, NEW w \in Workers,
         Query(w) \/ Claim(w) \/ Verify(w)
  PROVE  RowsInv'
<1>1. work[w].at \in {"query", "claim", "verify"}
  BY DEF Query, Claim, Verify, At
<1>2. \/ UNCHANGED rows
      \/ \E status : /\ NextKind(w, status)
                     /\ w = Page => status \in Statuses
                     /\ status \in {"OK", "ALREADY"} =>
                          rewards[<<Account(w), Kind(w)>>] = "claimed"
  <2>a. PICK of : of = rewards[<<Account(w), Kind(w)>>]
    OBVIOUS
  <2>1. CASE Query(w)
    <3>1. \/ UNCHANGED rows \/ NextKind(w, "FAIL")
          \/ NextKind(w, IF of = "claimed" THEN "ALREADY" ELSE "SKIP")
      BY <2>1, <2>a DEF Query, KindFails
    <3>2. QED
      BY <3>1, <2>a DEF Statuses
  <2>2. CASE Claim(w)
    <3>1. KindFails(w) \/ Claimed(w)
      BY <2>2 DEF Claim
    <3>2. UNCHANGED rows \/ NextKind(w, "FAIL") \/ (w # Page /\ NextKind(w, ""))
      BY <3>1 DEF KindFails, Claimed
    <3>3. "FAIL" \in Statuses /\ "FAIL" \notin {"OK", "ALREADY"} /\ "" \notin {"OK", "ALREADY"}
      BY DEF Statuses
    <3>4. QED
      BY <3>2, <3>3, Zenon
  <2>3. CASE Verify(w)
    <3>1. NextKind(w, "SUBMITTED") \/ NextKind(w, IF of = "claimed" THEN "OK" ELSE "SUBMITTED")
      BY <2>3, <2>a DEF Verify
    <3>2. QED
      BY <3>1, <2>a DEF Statuses
  <2>4. QED
    BY <2>1, <2>2, <2>3
<1>3. CASE UNCHANGED rows
  BY <1>3, RowsStay
<1>4. QED
  BY <1>1, <1>2, <1>3, RowAdded

\* Every step keeps the rows of the page true.
LEMMA NextKeepsRows == WorkInv /\ RowsInv /\ [TasksNext]_taskVars => RowsInv'
<1> SUFFICES ASSUME WorkInv, RowsInv, [TasksNext]_taskVars PROVE RowsInv'
  OBVIOUS
<1>1. ASSUME NEW w \in Workers, Query(w) \/ Claim(w) \/ Verify(w)
      PROVE  RowsInv'
  BY <1>1, BenefitKeepsRows
<1>2. ASSUME NEW w, \/ CheckIn(w) \/ Balance(w) \/ RecordBalance(w) \/ Streak(w) \/ Redeem(w)
                    \/ Report(w) \/ Trial(w)
      PROVE  UNCHANGED rows
  BY <1>2 DEF CheckIn, Balance, RecordBalance, Streak, Redeem, Report, Trial
<1>3. ASSUME NEW w, NEW task, NEW f, NEW r,
             \/ Begin(w, task) \/ BeginFails(w, task) \/ FetchQuota(f, w)
             \/ RewardOpens(w, r) \/ BenefitCloses(w, r) \/ Expires(w)
      PROVE  UNCHANGED rows
  BY <1>3 DEF Begin, BeginFails, FetchQuota, RewardOpens, BenefitCloses, Expires
<1>4. ASSUME NEW task, NEW accounts, AskPage(task, accounts)
      PROVE  rows' \subseteq rows
  BY <1>4 DEF AskPage
<1>5. CASE UNCHANGED taskVars
  BY <1>5, RowsStay DEF taskVars
<1>6. CASE TasksNext
  <2>1. Accounts \subseteq Workers /\ Fetchers \cup {Page} \subseteq Workers
    BY DEF Workers
  <2>2. rows' \subseteq rows \/ RowsInv'
    BY <1>1, <1>2, <1>3, <1>4, <1>6, <2>1 DEF TasksNext, LoopStep, ManualStep
  <2>3. QED
    BY <2>2, RowsStay
<1>7. QED
  BY <1>5, <1>6, RowsStay

----------------------------------------------------------------------------
\* Nothing but RecordBalance touches the ledger.
LEMMA OnlyRecords ==
  ASSUME [TasksNext]_taskVars
  PROVE  UNCHANGED ledger \/ \E w \in Workers : RecordBalance(w)
<1>1. ASSUME NEW w, \/ CheckIn(w) \/ Balance(w) \/ Streak(w) \/ Redeem(w) \/ Query(w)
                    \/ Claim(w) \/ Report(w) \/ Trial(w) \/ Verify(w)
      PROVE  UNCHANGED ledger
  BY <1>1 DEF CheckIn, Balance, Streak, Redeem, Query, Claim, Report, Trial, Verify
<1>2. ASSUME NEW w, NEW task, NEW accounts, NEW f, NEW r,
             \/ Begin(w, task) \/ BeginFails(w, task) \/ AskPage(task, accounts)
             \/ FetchQuota(f, w) \/ RewardOpens(w, r) \/ BenefitCloses(w, r) \/ Expires(w)
      PROVE  UNCHANGED ledger
  BY <1>2 DEF Begin, BeginFails, AskPage, FetchQuota, RewardOpens, BenefitCloses, Expires
<1>3. CASE UNCHANGED taskVars
  BY <1>3 DEF taskVars
<1>4. CASE TasksNext
  <2>1. Accounts \subseteq Workers /\ Fetchers \cup {Page} \subseteq Workers
    BY DEF Workers
  <2>2. QED
    BY <1>1, <1>2, <1>4, <2>1 DEF TasksNext, LoopStep, ManualStep
<1>5. QED
  BY <1>3, <1>4

\* Every step keeps the ring.
LEMMA NextKeepsRing == Ring(ledger) /\ [TasksNext]_taskVars => Ring(ledger')
<1> SUFFICES ASSUME Ring(ledger), [TasksNext]_taskVars PROVE Ring(ledger')
  OBVIOUS
<1>1. ASSUME NEW w \in Workers, RecordBalance(w)
      PROVE  Ring(ledger')
  BY <1>1, RecordTail DEF RecordBalance
<1>2. CASE UNCHANGED ledger
  BY <1>2
<1>3. QED
  BY <1>1, <1>2, OnlyRecords

\* Who is about to record a balance has an account and one of the balances.
LEMMA RecordsOne ==
  ASSUME WorkInv, NEW w \in Workers, RecordBalance(w)
  PROVE  Account(w) \in Accounts /\ work[w].balance \in Balances
<1>1. PICK x : x = work[w] /\ Busy(x) /\ x.at = "record"
  BY DEF RecordBalance, At, WorkInv
<1>2. x.todo \in Seq(Accounts) /\ x.todo # <<>> /\ x.balance \in Balances
  BY <1>1 DEF Busy, WorkRec
<1>3. PICK s : s = x.todo /\ s \in Seq(Accounts) /\ s # <<>>
  BY <1>2
<1>4. Len(s) \in Nat /\ Len(s) # 0
  BY <1>3, LenProperties, EmptySeq
<1>5. s[1] \in Accounts
  BY <1>3, <1>4, ElementOfSeq
<1>6. QED
  BY <1>1, <1>2, <1>3, <1>5 DEF Account

\* An entry of the ring is an observation of the log.
LEMMA RecordIsObserve ==
  ASSUME WorkInv, Ring(ledger), NEW w \in Workers, RecordBalance(w)
  PROVE  Observations!Next
<1>1. PICK a, b : a = Account(w) /\ b = work[w].balance /\ a \in Accounts /\ b \in Balances
  BY RecordsOne
<1>2. PICK e : e = [auth |-> a, balance |-> b, delta |-> Delta(ledger, a, b)]
  OBVIOUS
<1>3. e = [auth |-> a, balance |-> b, delta |-> Observations!Change(a, b)]
  BY <1>2, DeltaIsChange
<1>4. Snapshot(ledger)' = Snapshot(Record(ledger, a, b))
  BY <1>1 DEF RecordBalance, Snapshot
<1>5. Len(Snapshot(ledger)) = ledger.size
  <2>1. PICK S : S = {ledger.entries[s] : s \in Slots}
    OBVIOUS
  <2>2. \A s \in Slots : ledger.entries[s] \in S
    BY <2>1
  <2>3. QED
    BY <2>2, SnapshotSeq
<1>6. Snapshot(ledger)' = IF Len(Snapshot(ledger)) < LedgerCap
                          THEN Append(Snapshot(ledger), e)
                          ELSE Tail(Append(Snapshot(ledger), e))
  BY <1>2, <1>4, <1>5, RecordTail
<1>7. Observations!Observe(a, b)
  BY <1>3, <1>6, Zenon DEF Observations!Observe
<1>8. QED
  BY <1>1, <1>7 DEF Observations!Next

----------------------------------------------------------------------------
\* The types of the ledger, of the task log and of what no proof above needs.
LedgerRec == [entries: [Slots -> Entry], head: Slots, size: 0..LedgerCap]

BooksInv ==
  /\ ledger \in LedgerRec
  /\ tasklog \in Seq(TaskEntry) /\ Len(tasklog) <= TaskLogMax
  /\ stuck \cup barred \subseteq Accounts \X Rewards
  /\ expired \subseteq Accounts
  /\ failures \in 0..MaxFailures

\* What append puts into the ring is an entry.
LEMMA RecordTyped ==
  ASSUME NEW l \in LedgerRec, Ring(l), NEW auth \in Accounts, NEW balance \in Int
  PROVE  Record(l, auth, balance) \in LedgerRec
<1>1. /\ LedgerCap \in Nat \ {0} /\ l.head \in 0..LedgerCap - 1 /\ l.size \in 0..LedgerCap
      /\ l.entries \in [Slots -> Entry]
  BY LedgerAssumption DEF LedgerRec, Slots
<1>2. \A i \in 0..l.size - 1 : l.entries[Back(l, i)].balance \in Int
  <2>1. ASSUME NEW i \in 0..l.size - 1
        PROVE  Back(l, i) \in Slots
    <3>1. PICK x : x = l.head - 1 - i + LedgerCap
      OBVIOUS
    <3>2. x \in 0..2 * LedgerCap - 1
      BY <1>1, <3>1
    <3>3. x % LedgerCap \in 0..LedgerCap - 1
      BY <1>1, <3>2, Wrap
    <3>4. QED
      BY <3>1, <3>3 DEF Back, Slots
  <2>2. \A s \in Slots : l.entries[s].balance \in Int
    BY <1>1 DEF Entry
  <2>3. QED
    BY <2>1, <2>2
<1>3. Delta(l, auth, balance) \in Int
  <2> DEFINE places == {i \in 0..l.size - 1 : l.entries[Back(l, i)].auth = auth}
             last == CHOOSE i \in places : \A j \in places : i <= j
  <2>1. Delta(l, auth, balance) =
          IF places = {} THEN 0 ELSE balance - l.entries[Back(l, last)].balance
    BY DEF Delta
  <2>2. CASE places = {}
    BY <2>1, <2>2
  <2>3. CASE places # {}
    <3>1. l.size \in Nat /\ places \in SUBSET (0..l.size)
      BY <1>1
    <3>2. \E i \in places : \A j \in places : i <= j
      BY <2>3, <3>1, LeastOf
    <3>3. last \in places
      BY <3>2
    <3>4. l.entries[Back(l, last)].balance \in Int
      BY <1>2, <3>3
    <3> HIDE DEF places, last
    <3>5. balance - l.entries[Back(l, last)].balance \in Int
      BY <3>4
    <3>6. QED
      BY <2>1, <2>3, <3>5
  <2>4. QED
    BY <2>2, <2>3
<1>4. PICK e : e = [auth |-> auth, balance |-> balance, delta |-> Delta(l, auth, balance)]
  OBVIOUS
<1>5. e \in Entry
  BY <1>3, <1>4 DEF Entry
<1>6. PICK h, s : h = (l.head + 1) % LedgerCap
                  /\ s = IF l.size < LedgerCap THEN l.size + 1 ELSE l.size
  OBVIOUS
<1>7. h \in Slots /\ s \in 0..LedgerCap
  <2>1. PICK x \in 0..2 * LedgerCap - 1 : x = l.head + 1
    BY <1>1
  <2>2. h = IF x < LedgerCap THEN x ELSE x - LedgerCap
    <3>1. h = x % LedgerCap
      BY <1>6, <2>1
    <3>2. QED
      BY <3>1, Wrap
  <2>3. h \in 0..LedgerCap - 1
    BY <1>1, <2>1, <2>2
  <2>4. s \in 0..LedgerCap
    BY <1>1, <1>6
  <2>5. QED
    BY <2>3, <2>4 DEF Slots
<1>8. PICK f : f = [l.entries EXCEPT ![l.head] = e]
  OBVIOUS
<1>9. f \in [Slots -> Entry]
  BY <1>1, <1>5, <1>8
<1>10. Record(l, auth, balance) = [entries |-> f, head |-> h, size |-> s]
  BY <1>4, <1>6, <1>8 DEF Record
<1>11. QED
  BY <1>7, <1>9, <1>10 DEF LedgerRec

\* taskRing.append keeps no more than its maximum.
LEMMA NoteKeeps ==
  ASSUME NEW log \in Seq(TaskEntry), Len(log) <= TaskLogMax, NEW e \in TaskEntry
  PROVE  Note(log, e) \in Seq(TaskEntry) /\ Len(Note(log, e)) <= TaskLogMax
<1>1. PICK longer : longer = Append(log, e)
  OBVIOUS
<1>2. longer \in Seq(TaskEntry) /\ Len(longer) = Len(log) + 1
  BY <1>1, AppendProperties
<1>3. Len(log) \in Nat /\ TaskLogMax \in Nat \ {0}
  BY LenProperties, LedgerAssumption
<1>4. CASE Len(longer) > TaskLogMax
  <2>1. PICK m : m = Len(longer) - TaskLogMax + 1
    OBVIOUS
  <2>2. m \in 1..Len(longer) + 1 /\ Len(longer) - m + 1 = TaskLogMax
    BY <1>2, <1>3, <1>4, <2>1
  <2>3. /\ SubSeq(longer, m, Len(longer)) \in Seq(TaskEntry)
        /\ Len(SubSeq(longer, m, Len(longer))) = TaskLogMax
    <3>1. m \in 1..Len(longer) + 1 /\ Len(longer) \in m - 1..Len(longer)
          /\ m <= Len(longer)
      BY <1>2, <1>3, <2>2
    <3>2. QED
      BY <1>2, <2>2, <3>1, SubSeqProperties
  <2>4. Note(log, e) = SubSeq(longer, m, Len(longer))
    BY <1>1, <1>4, <2>1 DEF Note
  <2>5. QED
    BY <1>3, <2>3, <2>4
<1>5. CASE ~(Len(longer) > TaskLogMax)
  <2>1. Note(log, e) = longer
    BY <1>1, <1>5 DEF Note
  <2>2. QED
    BY <1>2, <1>3, <1>5, <2>1
<1>6. QED
  BY <1>4, <1>5

\* The task log stays, or a task's end is noted.
Noting == UNCHANGED tasklog \/ \E e \in TaskEntry : tasklog' = Note(tasklog, e)

\* finishTask notes the task of the loop, and nothing else.
LEMMA DoneNotes ==
  ASSUME WorkInv, NEW w \in Workers, work[w].at # "idle", NEW ok \in BOOLEAN, Done(w, ok)
  PROVE  Noting
<1>1. CASE w \in Accounts
  <2>1. work[w].task \in TaskNames
    BY DEF WorkInv, Busy
  <2>2. PICK e : e = [task |-> work[w].task, auth |-> w, ok |-> ok]
    OBVIOUS
  <2>3. e \in TaskEntry
    BY <1>1, <2>1, <2>2 DEF TaskEntry
  <2>4. tasklog' = Note(tasklog, e)
    BY <1>1, <2>2 DEF Done
  <2>5. QED
    BY <2>3, <2>4 DEF Noting
<1>2. CASE w \notin Accounts
  BY <1>2 DEF Done, Goes, Noting
<1>3. QED
  BY <1>1, <1>2

\* Every step of a worker ends with one of them.
LEMMA WorkNotes ==
  ASSUME WorkInv, NEW w \in Workers,
         \/ CheckIn(w) \/ Balance(w) \/ RecordBalance(w) \/ Streak(w) \/ Redeem(w) \/ Query(w)
         \/ Claim(w) \/ Report(w) \/ Trial(w) \/ Verify(w)
  PROVE  Noting
<1>1. work[w].at # "idle"
  BY DEF CheckIn, Balance, RecordBalance, Streak, Redeem, Query, Claim, Report, Trial, Verify, At
<1>2. \A x : Goes(w, x) => UNCHANGED tasklog
  BY DEF Goes
<1>3. \A tiers : NextTier(w, tiers) => Done(w, TRUE) \/ UNCHANGED tasklog
  BY <1>2 DEF NextTier
<1>4. \A status : NextKind(w, status) => Done(w, TRUE) \/ UNCHANGED tasklog
  BY <1>2 DEF NextKind
<1>5. KindFails(w) \/ Claimed(w) => Done(w, TRUE) \/ Done(w, FALSE) \/ UNCHANGED tasklog
  BY <1>2, <1>4 DEF KindFails, Claimed
<1>6. CASE RecordBalance(w) \/ Streak(w) \/ Redeem(w) \/ Query(w) \/ Claim(w) \/ Verify(w)
  <2>1. Done(w, TRUE) \/ Done(w, FALSE) \/ UNCHANGED tasklog
    BY <1>2, <1>3, <1>4, <1>5, <1>6 DEF RecordBalance, Streak, Redeem, Query, Claim, Verify
  <2>2. QED
    BY <1>1, <2>1, DoneNotes DEF Noting
<1>7. CASE CheckIn(w)
  <2>1. UNCHANGED tasklog \/ \E texts \in Texts : Done(w, IsAlreadyCheckin(texts))
    BY <1>2, <1>7 DEF CheckIn
  <2>2. \A texts : IsAlreadyCheckin(texts) \in BOOLEAN
    BY DEF IsAlreadyCheckin
  <2>3. QED
    BY <1>1, <2>1, <2>2, DoneNotes DEF Noting
<1>8. CASE Balance(w)
  <2>1. UNCHANGED tasklog \/ \E ok \in BOOLEAN : Done(w, ok)
    BY <1>2, <1>8, Zenon DEF Balance
  <2>2. QED
    BY <1>1, <2>1, DoneNotes DEF Noting
<1>9. CASE Report(w)
  <2>1. \E ok \in BOOLEAN : Done(w, ok)
    BY <1>9, Zenon DEF Report
  <2>2. QED
    BY <1>1, <2>1, DoneNotes DEF Noting
<1>10. CASE Trial(w)
  <2>1. \E ok \in BOOLEAN : Done(w, ok)
    BY <1>10, Zenon DEF Trial
  <2>2. QED
    BY <1>1, <2>1, DoneNotes DEF Noting
<1>11. QED
  BY <1>6, <1>7, <1>8, <1>9, <1>10

\* So does every step.
LEMMA NextNotes ==
  ASSUME WorkInv, [TasksNext]_taskVars
  PROVE  Noting
<1>1. ASSUME NEW w, NEW task, NEW accounts, NEW f, NEW r,
             \/ Begin(w, task) \/ AskPage(task, accounts)
             \/ FetchQuota(f, w) \/ RewardOpens(w, r) \/ BenefitCloses(w, r) \/ Expires(w)
      PROVE  UNCHANGED tasklog
  BY <1>1 DEF Begin, AskPage, FetchQuota, RewardOpens, BenefitCloses, Expires, Goes
<1>2. ASSUME NEW a \in Accounts, NEW task \in TaskNames, BeginFails(a, task)
      PROVE  Noting
  <2>1. PICK e : e = [task |-> task, auth |-> a, ok |-> FALSE]
    OBVIOUS
  <2>2. e \in TaskEntry
    BY <2>1 DEF TaskEntry
  <2>3. tasklog' = Note(tasklog, e)
    BY <1>2, <2>1 DEF BeginFails
  <2>4. QED
    BY <2>2, <2>3 DEF Noting
<1>3. CASE UNCHANGED taskVars
  BY <1>3 DEF taskVars, Noting
<1>4. CASE TasksNext
  <2>1. Accounts \subseteq Workers /\ Fetchers \cup {Page} \subseteq Workers
    BY DEF Workers
  <2>2. UNCHANGED tasklog \/ Noting
    BY <1>1, <1>2, <1>4, <2>1, WorkNotes DEF TasksNext, LoopStep, ManualStep
  <2>3. QED
    BY <2>2 DEF Noting
<1>5. QED
  BY <1>3, <1>4

\* What the upstream refuses stays so, and the failures stay within their bound.
LEMMA BoundsKept ==
  ASSUME BooksInv, [TasksNext]_taskVars
  PROVE  /\ UNCHANGED <<stuck, barred>>
         /\ expired' \subseteq Accounts
         /\ failures' \in 0..MaxFailures
<1> DEFINE Counted == UNCHANGED failures \/ (failures < MaxFailures /\ failures' = failures + 1)
<1>1. Counted => failures' \in 0..MaxFailures
  BY TasksAssumption DEF BooksInv
<1>2. \A l : Fails(l) => Counted
  BY DEF Fails
<1>3. ASSUME NEW w,
             \/ CheckIn(w) \/ Balance(w) \/ RecordBalance(w) \/ Streak(w) \/ Redeem(w) \/ Query(w)
             \/ Claim(w) \/ Report(w) \/ Trial(w) \/ Verify(w)
      PROVE  UNCHANGED lasting /\ Counted
  <2>1. UNCHANGED lasting /\ (UNCHANGED failures \/ \E l : Fails(l))
    BY <1>3
    DEF CheckIn, Balance, RecordBalance, Streak, Redeem, Query, Claim, Report, Trial, Verify
  <2>2. QED
    BY <1>2, <2>1
<1>4. ASSUME NEW w, NEW task, NEW accounts, NEW f, NEW r,
             \/ Begin(w, task) \/ BeginFails(w, task) \/ AskPage(task, accounts)
             \/ FetchQuota(f, w) \/ RewardOpens(w, r) \/ BenefitCloses(w, r)
      PROVE  UNCHANGED lasting /\ Counted
  <2>1. UNCHANGED lasting /\ (UNCHANGED failures \/ \E l : Fails(l))
    BY <1>4 DEF Begin, BeginFails, AskPage, FetchQuota, RewardOpens, BenefitCloses
  <2>2. QED
    BY <1>2, <2>1
<1>5. ASSUME NEW a \in Accounts, Expires(a)
      PROVE  UNCHANGED <<stuck, barred, failures>> /\ expired' = expired \cup {a}
  BY <1>5 DEF Expires
<1>6. \/ UNCHANGED lasting /\ Counted
      \/ UNCHANGED <<stuck, barred, failures>> /\ \E a \in Accounts : expired' = expired \cup {a}
  <2>1. CASE UNCHANGED taskVars
    BY <2>1 DEF taskVars
  <2>2. CASE TasksNext
    BY <1>3, <1>4, <1>5, <2>2 DEF TasksNext, LoopStep, ManualStep
  <2>3. QED
    BY <2>1, <2>2
<1>7. UNCHANGED <<stuck, barred>> /\ Counted
  BY <1>6 DEF lasting
<1>8. expired' \subseteq Accounts
  BY <1>6 DEF lasting, BooksInv
<1> HIDE DEF Counted
<1>9. QED
  BY <1>1, <1>7, <1>8

\* Every step keeps the types of the ledger and of the log.
LEMMA NextKeepsBooks ==
  ASSUME WorkInv, Ring(ledger), BooksInv, [TasksNext]_taskVars
  PROVE  BooksInv'
<1>1. ledger' \in LedgerRec
  <2>1. ASSUME NEW w \in Workers, RecordBalance(w)
        PROVE  ledger' \in LedgerRec
    <3>1. Account(w) \in Accounts /\ work[w].balance \in Int
      BY <2>1, RecordsOne, BalancesAreInts
    <3>2. ledger' = Record(ledger, Account(w), work[w].balance)
      BY <2>1 DEF RecordBalance
    <3>3. QED
      BY <3>1, <3>2, RecordTyped DEF BooksInv
  <2>2. CASE UNCHANGED ledger
    BY <2>2 DEF BooksInv
  <2>3. QED
    BY <2>1, <2>2, OnlyRecords
<1>2. tasklog' \in Seq(TaskEntry) /\ Len(tasklog') <= TaskLogMax
  BY NextNotes, NoteKeeps DEF Noting, BooksInv
<1>3. QED
  BY <1>1, <1>2, BoundsKept DEF BooksInv

----------------------------------------------------------------------------
\* The inductive invariant.
TasksInv == WorkInv /\ Ring(ledger) /\ RowsInv /\ BooksInv

\* Nobody works, and the ledger is empty.
LEMMA InitTasksInv == TasksInit => TasksInv
<1> SUFFICES ASSUME TasksInit PROVE TasksInv
  OBVIOUS
<1>1. WorkInv
  <2>1. \A w \in Workers : work[w] = Idle
    BY DEF TasksInit
  <2>2. work \in [Workers -> WorkRec]
    BY IdleIsBusy DEF TasksInit, Busy
  <2>3. QED
    BY <2>1, <2>2, IdleIsBusy DEF WorkInv
<1>2. Ring(ledger)
  BY LedgerAssumption DEF TasksInit, NewLedger, Ring, Slots
<1>3. RowsInv
  BY DEF TasksInit, RowsInv, PageTellsTruth, RewardStates
<1>4. BooksInv
  <2>1. Unused \in Entry
    BY DEF Unused, Entry
  <2>2. PICK f : f = [s \in Slots |-> Unused]
    OBVIOUS
  <2>3. f \in [Slots -> Entry] /\ 0 \in Slots /\ 0 \in 0..LedgerCap
    BY <2>1, <2>2, LedgerAssumption DEF Slots
  <2>4. [entries |-> f, head |-> 0, size |-> 0] \in LedgerRec
    BY <2>3 DEF LedgerRec
  <2>5. ledger \in LedgerRec
    BY <2>2, <2>4 DEF TasksInit, NewLedger
  <2>6. tasklog \in Seq(TaskEntry) /\ Len(tasklog) = 0
    BY EmptySeq DEF TasksInit
  <2>7. QED
    BY <2>5, <2>6, TasksAssumption, LedgerAssumption DEF TasksInit, BooksInv
<1>5. QED
  BY <1>1, <1>2, <1>3, <1>4 DEF TasksInv

\* Every step keeps the invariant.
LEMMA NextTasksInv == TasksInv /\ [TasksNext]_taskVars => TasksInv'
<1> SUFFICES ASSUME TasksInv, [TasksNext]_taskVars PROVE TasksInv'
  OBVIOUS
<1>1. WorkInv /\ Ring(ledger) /\ RowsInv /\ BooksInv
  BY DEF TasksInv
<1>2. WorkInv' /\ Ring(ledger') /\ RowsInv' /\ BooksInv'
  BY <1>1, NextKeepsWork, NextKeepsRing, NextKeepsRows, NextKeepsBooks
<1>3. Ring(ledger)' <=> Ring(ledger')
  BY DEF Ring
<1>4. QED
  BY <1>2, <1>3 DEF TasksInv

\* Whoever works for whatever account, what it is at makes sense, the ledger is
\* a ring, and the page's rows are about rewards it has seen claimed.
THEOREM TasksInvariant == TasksSpec => []TasksInv
BY InitTasksInv, NextTasksInv, PTL DEF TasksSpec

\* The tasks, the ledger and the task log keep their types and stay within their
\* capacities, whatever packages the upstream sends.
THEOREM TasksTyped == TasksSpec => []TasksTypeOK
<1>1. TasksInv => TasksTypeOK
  BY DEF TasksInv, WorkInv, Ring, RowsInv, BooksInv, LedgerRec, TasksTypeOK
<1>2. QED
  BY <1>1, TasksInvariant, PTL

\* claimBenefitsHandler answers "OK" or "ALREADY" for a benefit only if the
\* upstream has it as claimed, whoever else claims meanwhile and whatever the
\* upstream answers to the claim itself.
THEOREM PageReportsTruth == TasksSpec => []PageTellsTruth
<1>1. TasksInv => PageTellsTruth
  BY DEF TasksInv, RowsInv
<1>2. QED
  BY <1>1, TasksInvariant, PTL

\* The ring buffer of creditsLedger implements the log of the newest
\* observations: its snapshot is the tail of what was appended, and each delta
\* is the change since the account's newest observation in it.
THEOREM LedgerIsTail == TasksSpec => LedgerKeepsTail
<1>1. TasksInit => Observations!Init
  <2> SUFFICES ASSUME TasksInit PROVE Snapshot(ledger) = <<>>
    BY DEF Observations!Init
  <2>2. ledger.size = 0
    BY DEF TasksInit, NewLedger
  <2>3. Ring(ledger)
    BY InitTasksInv DEF TasksInv
  <2>4. PICK S : S = {ledger.entries[s] : s \in Slots}
    OBVIOUS
  <2>5. \A s \in Slots : ledger.entries[s] \in S
    BY <2>4
  <2>6. Snapshot(ledger) \in Seq(S) /\ Len(Snapshot(ledger)) = 0
    BY <2>2, <2>3, <2>5, SnapshotSeq
  <2>7. QED
    BY <2>6, EmptySeq
<1>2. TasksInv /\ [TasksNext]_taskVars => [Observations!Next]_(Snapshot(ledger))
  <2> SUFFICES ASSUME TasksInv, [TasksNext]_taskVars
               PROVE  [Observations!Next]_(Snapshot(ledger))
    OBVIOUS
  <2>1. ASSUME NEW w \in Workers, RecordBalance(w)
        PROVE  Observations!Next
    BY <2>1, RecordIsObserve DEF TasksInv
  <2>2. CASE UNCHANGED ledger
    BY <2>2 DEF Snapshot
  <2>3. QED
    BY <2>1, <2>2, OnlyRecords
<1>3. QED
  BY <1>1, <1>2, TasksInvariant, PTL DEF TasksSpec, LedgerKeepsTail, Observations!Spec
=============================================================================
