--------------------------- MODULE OpsTickerProofs ---------------------------
(***************************************************************************)
(* Proofs about OpsTicker.  TickerRuns is not inductive by itself: that    *)
(* the newest runner is not stopped by an old channel rests on what it     *)
(* last read, which SelectsSeen and ClosedSoFar record.  The wait group     *)
(* counts the goroutines because each go statement finds a goroutine that  *)
(* does not run; with that, and with what a start without overlap finds,   *)
(* follow the type invariant, StopDrains and SafeWithoutOverlap.           *)
(***************************************************************************)
EXTENDS OpsTicker, FiniteSetTheorems, TLAPS

\* A goroutine in a select waits on the newest channel it has seen.
SelectsSeen ==
  \A g \in Goroutines : at[g] = "select" => ch[g] = seen[g]

\* Only channels that were made have been closed.
ClosedSoFar == \A c \in closed : c \in Nat /\ c <= gen

\* The variables the argument is about have their shape.
TickerShape ==
  /\ gen \in Nat
  /\ started \in BOOLEAN
  /\ at \in [Goroutines -> {"dead", "enter", "select", "discover", "spawn",
                            "task"}]
  /\ seen \in [Goroutines -> Nat]
  /\ ch \in [Goroutines -> Nat]

\* The inductive invariant behind TickerRuns.
TickerInv ==
  /\ TickerShape
  /\ ClosedSoFar
  /\ SelectsSeen
  /\ TickerRuns

\* The ticker starts out stopped, with no channel made.
LEMMA InitTickerInv == Init => TickerInv
<1> SUFFICES ASSUME Init PROVE TickerInv
  OBVIOUS
<1>1. TickerShape
  <2>1. /\ at = [g \in Goroutines |-> "dead"]
        /\ seen = [g \in Goroutines |-> 0]
        /\ ch = [g \in Goroutines |-> 0]
        /\ gen = 0 /\ started = FALSE
    BY DEF Init
  <2>2. QED
    BY <2>1 DEF TickerShape
<1>2. ClosedSoFar /\ SelectsSeen /\ TickerRuns
  BY DEF Init, ClosedSoFar, SelectsSeen, TickerRuns
<1>3. QED
  BY <1>1, <1>2 DEF TickerInv

\* start makes a channel that is not closed and a runner that has seen it.
LEMMA StartTickerInv ==
  ASSUME TickerInv, NEW r \in Runners, Start(r)
  PROVE  TickerInv'
<1> USE DEF TickerInv, TickerShape
<1>1. r \in Goroutines
  BY DEF Goroutines
<1>2. TickerShape'
  BY <1>1 DEF Start
<1>3. ClosedSoFar'
  BY DEF Start, ClosedSoFar
<1>4. SelectsSeen'
  BY DEF Start, SelectsSeen
<1>5. TickerRuns'
  <2>1. gen' = gen + 1 /\ closed' = closed
    BY DEF Start
  <2>2. gen' \notin closed'
    BY <2>1 DEF ClosedSoFar
  <2>3. at'[r] = "enter" /\ seen'[r] = gen'
    BY <1>1 DEF Start
  <2>4. QED
    BY <2>2, <2>3 DEF TickerRuns
<1>6. QED
  BY <1>2, <1>3, <1>4, <1>5

\* stop leaves a ticker that is not started.
LEMMA StopTickerInv ==
  ASSUME TickerInv, NEW s \in Stoppers, Stop(s)
  PROVE  TickerInv'
<1> USE DEF TickerInv, TickerShape
<1>1. UNCHANGED <<gen, at, seen, ch>> /\ closed' = closed \cup {gen} /\ started' = FALSE
  BY DEF Stop, goVars
<1>2. TickerShape'
  BY <1>1
<1>3. ClosedSoFar'
  BY <1>1 DEF ClosedSoFar
<1>4. SelectsSeen' /\ TickerRuns'
  BY <1>1 DEF SelectsSeen, TickerRuns
<1>5. QED
  BY <1>2, <1>3, <1>4

\* A goroutine that reads t.stopCh sees nothing older than it has seen, nor
\* anything newer than the present channel.
LEMMA EnterSelectTickerInv ==
  ASSUME TickerInv, NEW g \in Goroutines, EnterSelect(g)
  PROVE  TickerInv'
<1> USE DEF TickerInv, TickerShape
<1>1. PICK c \in seen[g]..gen :
        /\ ch' = [ch EXCEPT ![g] = c]
        /\ seen' = [seen EXCEPT ![g] = c]
  BY DEF EnterSelect
<1>2. c \in Nat /\ seen[g] <= c /\ c <= gen
  BY <1>1
<1>3. TickerShape'
  BY <1>1, <1>2 DEF EnterSelect
<1>4. ClosedSoFar'
  BY DEF EnterSelect, ClosedSoFar
<1>5. SelectsSeen'
  BY <1>1, <1>2 DEF EnterSelect, SelectsSeen
<1>6. TickerRuns'
  <2>1. SUFFICES ASSUME started
                 PROVE  /\ gen \notin closed
                        /\ \E r \in Runners : at'[r] # "dead" /\ seen'[r] = gen
    BY DEF EnterSelect, TickerRuns
  <2>2. PICK r \in Runners : at[r] # "dead" /\ seen[r] = gen
    BY <2>1 DEF TickerRuns
  <2>3. r \in Goroutines
    BY DEF Goroutines
  <2>4. at'[r] # "dead"
    BY <2>2, <2>3 DEF EnterSelect
  <2>5. seen'[r] = gen
    BY <1>1, <1>2, <2>2, <2>3
  <2>6. QED
    BY <2>1, <2>4, <2>5 DEF TickerRuns
<1>7. QED
  BY <1>3, <1>4, <1>5, <1>6

\* A goroutine that ends, as Exit describes it, is not the newest runner as long
\* as some other one is.
LEMMA ExitTickerInv ==
  ASSUME TickerInv, NEW g \in Goroutines, Exit(g),
         UNCHANGED <<started, gen, closed>>,
         started => \E r \in Runners \ {g} : at[r] # "dead" /\ seen[r] = gen
  PROVE  TickerInv'
<1> USE DEF TickerInv, TickerShape, Exit
<1>1. TickerShape' /\ ClosedSoFar' /\ SelectsSeen'
  BY DEF ClosedSoFar, SelectsSeen
<1>2. TickerRuns'
  BY DEF TickerRuns, Goroutines
<1>3. QED
  BY <1>1, <1>2

\* The newest runner waits on a channel that is open, so it is not stopped.
LEMMA StoppedTickerInv ==
  ASSUME TickerInv, NEW g \in Goroutines, Stopped(g)
  PROVE  TickerInv'
<1>1. ch[g] = seen[g] /\ ch[g] \in closed
  BY DEF Stopped, TickerInv, SelectsSeen
<1>2. started => \E r \in Runners \ {g} : at[r] # "dead" /\ seen[r] = gen
  BY <1>1 DEF TickerInv, TickerRuns
<1>3. QED
  BY <1>2, ExitTickerInv DEF Stopped

\* A loop that ends because its account is disabled is not a runner.
LEMMA DisabledTickerInv ==
  ASSUME TickerInv, NEW l \in Loops, DisabledTimer(l)
  PROVE  TickerInv'
<1>1. l \in Goroutines /\ l \notin Runners
  BY TickerAssumption DEF Goroutines, Loops
<1>2. started => \E r \in Runners \ {l} : at[r] # "dead" /\ seen[r] = gen
  BY <1>1 DEF TickerInv, TickerRuns
<1>3. QED
  BY <1>1, <1>2, ExitTickerInv DEF DisabledTimer

\* Goroutines that begin with the present channel do not replace the newest
\* runner by an older one.
LEMMA SpawnTickerInv ==
  ASSUME TickerInv, NEW r \in Runners, Spawn(r)
  PROVE  TickerInv'
<1> USE DEF TickerInv, TickerShape
<1>1. PICK begins :
        /\ at' = [g \in Goroutines |-> IF g \in begins THEN "enter" ELSE at[g]]
        /\ seen' = [g \in Goroutines |-> IF g \in begins THEN gen ELSE seen[g]]
  BY DEF Spawn
<1>2. UNCHANGED <<started, gen, closed, ch>>
  BY DEF Spawn
<1>3. TickerShape'
  BY <1>1, <1>2
<1>4. ClosedSoFar' /\ SelectsSeen'
  BY <1>1, <1>2 DEF ClosedSoFar, SelectsSeen
<1>5. TickerRuns'
  BY <1>1, <1>2 DEF TickerRuns, Goroutines
<1>6. QED
  BY <1>3, <1>4, <1>5

\* The other steps of a goroutine move it from one place to another.
LEMMA MoveTickerInv ==
  ASSUME TickerInv, NEW g \in Goroutines,
         NEW p \in {"enter", "discover", "spawn", "task"},
         at' = [at EXCEPT ![g] = p], at[g] # "dead",
         UNCHANGED <<started, gen, closed, seen, ch>>
  PROVE  TickerInv'
<1> USE DEF TickerInv, TickerShape
<1>1. TickerShape' /\ ClosedSoFar' /\ SelectsSeen'
  BY DEF ClosedSoFar, SelectsSeen
<1>2. TickerRuns'
  BY DEF TickerRuns, Goroutines
<1>3. QED
  BY <1>1, <1>2

\* Every step of the system preserves the invariant.
LEMMA NextTickerInv == TickerInv /\ [Next]_vars => TickerInv'
<1> SUFFICES ASSUME TickerInv, [Next]_vars
             PROVE  TickerInv'
  OBVIOUS
<1>1. CASE UNCHANGED vars
  BY <1>1 DEF vars, goVars, TickerInv, TickerShape, ClosedSoFar, SelectsSeen,
              TickerRuns
<1>2. ASSUME NEW r \in Runners, Start(r)
      PROVE  TickerInv'
  BY <1>2, StartTickerInv
<1>3. ASSUME NEW r \in Runners, RunnerStep(r)
      PROVE  TickerInv'
  <2>1. r \in Goroutines
    BY DEF Goroutines
  <2>2. CASE EnterSelect(r)
    BY <2>1, <2>2, EnterSelectTickerInv
  <2>3. CASE RunTimer(r)
    BY <2>1, <2>3, MoveTickerInv DEF RunTimer
  <2>4. CASE Discover(r)
    BY <2>1, <2>4, MoveTickerInv DEF Discover
  <2>5. CASE Spawn(r)
    BY <2>5, SpawnTickerInv
  <2>6. QED
    BY <1>3, <2>2, <2>3, <2>4, <2>5 DEF RunnerStep
<1>4. ASSUME NEW l \in Loops, LoopStep(l)
      PROVE  TickerInv'
  <2>1. l \in Goroutines
    BY DEF Goroutines
  <2>2. CASE EnterSelect(l)
    BY <2>1, <2>2, EnterSelectTickerInv
  <2>3. CASE FirstTimer(l)
    <3>1. PICK p \in {"task", "enter"} : at' = [at EXCEPT ![l] = p]
      BY <2>3 DEF FirstTimer
    <3>2. QED
      BY <2>1, <2>3, <3>1, MoveTickerInv DEF FirstTimer
  <2>4. CASE TaskTimer(l)
    BY <2>1, <2>4, MoveTickerInv DEF TaskTimer
  <2>5. CASE DisabledTimer(l)
    BY <2>5, DisabledTickerInv
  <2>6. CASE Task(l)
    BY <2>1, <2>6, MoveTickerInv DEF Task
  <2>7. QED
    BY <1>4, <2>2, <2>3, <2>4, <2>5, <2>6 DEF LoopStep
<1>5. ASSUME NEW g \in Goroutines, Stopped(g)
      PROVE  TickerInv'
  BY <1>5, StoppedTickerInv
<1>6. ASSUME NEW s \in Stoppers, Stop(s)
      PROVE  TickerInv'
  BY <1>6, StopTickerInv
<1>7. ASSUME NEW s \in Stoppers, StopWaits(s) \/ StopReturns(s)
      PROVE  TickerInv'
  BY <1>7 DEF StopWaits, StopReturns, goVars, TickerInv, TickerShape, ClosedSoFar,
              SelectsSeen, TickerRuns
<1>8. QED
  BY <1>1, <1>2, <1>3, <1>4, <1>5, <1>6, <1>7 DEF Next

\* For any number of accounts, runners, stops and restarts, however early: a
\* started ticker keeps a runner that no stop has told to end.
THEOREM StartedTickerRuns == Spec => []TickerRuns
<1>1. TickerInv => TickerRuns
  BY DEF TickerInv
<1>2. QED
  BY <1>1, InitTickerInv, NextTickerInv, PTL DEF Spec, Safety

-----------------------------------------------------------------------------
\* The types of what TickerShape leaves out.
RestShape ==
  /\ gen <= MaxStarts
  /\ closed \subseteq Gens
  /\ spawned \subseteq Accounts
  /\ seen \in [Goroutines -> Gens]
  /\ ch \in [Goroutines -> Gens]
  /\ found \in [Runners -> SUBSET Accounts]
  /\ jitter \subseteq Loops
  /\ stopper \in [Stoppers -> {"idle", "stopped", "wait", "woken", "panicked"}]
  /\ dead \in [Accounts -> DeadRec]
  /\ overlap \in BOOLEAN

\* Without overlapping starts: who has a loop is in t.spawned and has one; a
\* started ticker is not being stopped; a woken stop finds the counter at zero.
NoOverlapInv ==
  ~overlap =>
    /\ \A a \in Accounts, i \in Slots : at[<<a, i>>] # "dead" => a \in spawned
    /\ \A a \in Accounts, i, j \in Slots :
         at[<<a, i>>] # "dead" /\ at[<<a, j>>] # "dead" => i = j
    /\ started => \A s \in Stoppers : stopper[s] = "idle"
    /\ \A s \in Stoppers : stopper[s] # "panicked" /\ (stopper[s] = "woken" => wg = 0)

WholeInv == TickerInv /\ RestShape /\ WgCountsGoroutines /\ NoOverlapInv

\* There are finitely many goroutines, so those that run can be counted.
LEMMA AliveFinite ==
  /\ IsFiniteSet(Goroutines)
  /\ IsFiniteSet(Alive) /\ Cardinality(Alive) \in Nat
  /\ Cardinality(Alive) <= Cardinality(Goroutines) /\ Cardinality(Goroutines) \in Nat
<1>1. IsFiniteSet(Goroutines)
  BY TickerAssumption, FS_Product, FS_Union DEF Goroutines, Loops
<1>2. Alive \subseteq Goroutines
  BY DEF Alive
<1>3. QED
  BY <1>1, <1>2, FS_Subset, FS_CardinalityType

\* Runners are no loops.
LEMMA GoroutineKinds ==
  /\ \A r \in Runners : r \in Goroutines /\ r \notin Loops
  /\ \A l \in Loops : l \in Goroutines /\ l[1] \in Accounts
  /\ \A a \in Accounts, i \in Slots : <<a, i>> \in Loops /\ <<a, i>> \in Goroutines
BY TickerAssumption DEF Goroutines, Loops

\* A goroutine that changes its place stays alive or stays dead.
LEMMA AliveMoves ==
  ASSUME TickerShape, NEW g \in Goroutines, at[g] # "dead", NEW p, p # "dead",
         at' = [at EXCEPT ![g] = p]
  PROVE  Alive' = Alive
BY DEF TickerShape, Alive

\* The dead sessions keep their type whatever a task reports.
LEMMA DeadTyped ==
  \A d \in DeadRec : NoteDead(d) \in DeadRec /\ ClearDead(d) \in DeadRec
BY DeadThresholdAssumption DEF DeadRec, NoteDead, ClearDead

\* Before the first start nothing runs.
LEMMA InitWholeInv == Init => WholeInv
<1> SUFFICES ASSUME Init PROVE WholeInv
  OBVIOUS
<1>1. RestShape
  <2>1. 0 \in Gens /\ NeverDead \in DeadRec
    BY TickerAssumption, DeadThresholdAssumption DEF Gens, NeverDead, DeadRec
  <2>2. /\ closed \subseteq Gens /\ spawned \subseteq Accounts
        /\ jitter \subseteq Loops /\ overlap \in BOOLEAN
    BY DEF Init
  <2>7. gen <= MaxStarts
    BY TickerAssumption DEF Init
  <2>3. seen \in [Goroutines -> Gens] /\ ch \in [Goroutines -> Gens]
    BY <2>1 DEF Init
  <2>4. /\ found \in [Runners -> SUBSET Accounts]
        /\ stopper \in [Stoppers -> {"idle", "stopped", "wait", "woken", "panicked"}]
    BY DEF Init
  <2>5. dead \in [Accounts -> DeadRec]
    BY <2>1 DEF Init
  <2>6. QED
    BY <2>2, <2>3, <2>4, <2>5, <2>7 DEF RestShape
<1>2. Alive = {} /\ wg = 0
  BY DEF Init, Alive
<1>3. NoOverlapInv
  BY GoroutineKinds DEF Init, NoOverlapInv
<1>4. QED
  BY <1>1, <1>2, <1>3, InitTickerInv, FS_EmptySet DEF WholeInv, WgCountsGoroutines

\* start adds one runner; if everything was drained, there is no loop yet.
LEMMA StartWhole ==
  ASSUME WholeInv, NEW r \in Runners, Start(r)
  PROVE  WholeInv'
<1> USE GoroutineKinds DEF WholeInv, TickerInv, TickerShape
<1>1. RestShape'
  <2>1. gen + 1 \in Gens /\ gen + 1 <= MaxStarts
    BY TickerAssumption DEF Start, Gens
  <2>2. QED
    BY <2>1 DEF Start, RestShape
<1>2. WgCountsGoroutines'
  <2>1. Alive' = Alive \cup {r} /\ r \notin Alive
    BY DEF Start, Alive
  <2>2. QED
    BY <2>1, AliveFinite, FS_AddElement DEF Start, WgCountsGoroutines
<1>3. NoOverlapInv'
  <2>1. SUFFICES ASSUME ~overlap' PROVE NoOverlapInv'
    BY DEF NoOverlapInv
  <2>2. Alive = {} /\ \A s \in Stoppers : stopper[s] = "idle"
    BY <2>1 DEF Start, Drained, NoOverlapInv
  <2>3. \A a \in Accounts, i \in Slots : at'[<<a, i>>] = "dead"
    BY <2>2 DEF Start, Alive
  <2>4. stopper' = stopper
    BY DEF Start
  <2>5. QED
    BY <2>2, <2>3, <2>4 DEF NoOverlapInv
<1>4. QED
  BY <1>1, <1>2, <1>3, StartTickerInv

\* stop, and the wait of stop, change only the stoppers.
LEMMA StopWhole ==
  ASSUME WholeInv, NEW s \in Stoppers, Stop(s) \/ StopWaits(s) \/ StopReturns(s)
  PROVE  WholeInv'
<1> USE DEF WholeInv, goVars
<1>1. /\ UNCHANGED <<gen, spawned, wg, at, seen, ch, found, jitter, dead, overlap>>
      /\ \E p \in {"idle", "stopped", "wait", "panicked"} :
           stopper' = [stopper EXCEPT ![s] = p]
  BY DEF Stop, StopWaits, StopReturns
<1>2. RestShape'
  <2>1. closed' \subseteq Gens
    BY TickerAssumption
    DEF Stop, StopWaits, StopReturns, RestShape, Gens, TickerInv, TickerShape
  <2>2. QED
    BY <1>1, <2>1 DEF RestShape
<1>3. WgCountsGoroutines'
  BY <1>1 DEF WgCountsGoroutines, Alive
<1>4. NoOverlapInv'
  <2>1. CASE Stop(s)
    BY <1>1, <2>1 DEF Stop, NoOverlapInv, RestShape
  <2>2. CASE StopWaits(s)
    BY <1>1, <2>2 DEF StopWaits, NoOverlapInv, RestShape
  <2>3. CASE StopReturns(s)
    BY <1>1, <2>3 DEF StopReturns, NoOverlapInv, RestShape
  <2>4. QED
    BY <2>1, <2>2, <2>3
<1>5. TickerInv'
  BY StopTickerInv DEF StopWaits, StopReturns, TickerInv, TickerShape, ClosedSoFar,
     SelectsSeen, TickerRuns
<1>6. QED
  BY <1>2, <1>3, <1>4, <1>5

\* A goroutine that ends is counted no more, and may wake the stops that wait.
LEMMA ExitWhole ==
  ASSUME WholeInv, NEW g \in Goroutines, Exit(g), at[g] # "dead", jitter' \subseteq jitter,
         UNCHANGED <<started, gen, closed, spawned, found, dead, overlap>>, TickerInv'
  PROVE  WholeInv'
<1> USE DEF WholeInv, TickerInv, TickerShape
<1>1. g \in Alive /\ Alive' = Alive \ {g}
  BY DEF Exit, Alive
<1>2. WgCountsGoroutines'
  BY <1>1, AliveFinite, FS_RemoveElement DEF Exit, WgCountsGoroutines
<1>3. wg \in Nat /\ wg' = wg - 1 /\ wg # 0
  <2>1. wg = Cardinality(Alive) /\ wg' = wg - 1
    BY DEF Exit, WgCountsGoroutines
  <2>2. QED
    BY <1>1, <2>1, AliveFinite, FS_EmptySet
<1>4. RestShape'
  <2>1. seen' \in [Goroutines -> Gens] /\ ch' \in [Goroutines -> Gens]
    BY TickerAssumption DEF Exit, RestShape, Gens
  <2>2. stopper' \in [Stoppers -> {"idle", "stopped", "wait", "woken", "panicked"}]
    BY DEF Exit, RestShape
  <2>3. QED
    BY <2>1, <2>2 DEF RestShape
<1>5. NoOverlapInv'
  <2>1. \A h \in Goroutines : at'[h] # "dead" => at[h] # "dead"
    BY DEF Exit
  <2>2. \A s \in Stoppers : /\ stopper[s] = "idle" => stopper'[s] = "idle"
                            /\ stopper'[s] = "panicked" => stopper[s] = "panicked"
                            /\ stopper'[s] = "woken" =>
                                 stopper[s] = "woken" \/ (stopper[s] = "wait" /\ wg = 1)
    BY DEF Exit, RestShape
  <2>3. QED
    BY <1>3, <2>1, <2>2, GoroutineKinds DEF NoOverlapInv
<1>6. QED
  BY <1>2, <1>4, <1>5

\* A goroutine that moves is alive before and after.
LEMMA MoveWhole ==
  ASSUME WholeInv, NEW g \in Goroutines, at[g] # "dead", NEW p, p # "dead",
         at' = [at EXCEPT ![g] = p],
         UNCHANGED <<started, spawned, wg, stopper, overlap>>, RestShape', TickerInv'
  PROVE  WholeInv'
<1>1. WgCountsGoroutines'
  BY AliveMoves DEF WholeInv, TickerInv, WgCountsGoroutines
<1>2. \A h \in Goroutines : at'[h] # "dead" <=> at[h] # "dead"
  BY DEF WholeInv, TickerInv, TickerShape
<1>3. NoOverlapInv'
  BY <1>2, GoroutineKinds DEF WholeInv, NoOverlapInv
<1>4. QED
  BY <1>1, <1>3 DEF WholeInv

\* The accounts that get a loop find a goroutine that does not run, each its own.
LEMMA NewLoops ==
  ASSUME WholeInv, NEW new \in SUBSET Accounts,
         \A a \in new : \E i \in Slots : at[<<a, i>>] = "dead"
  PROVE  LET begun == {FreeSlot(a) : a \in new}
         IN  /\ \A a \in new : /\ FreeSlot(a) \in Loops
                               /\ FreeSlot(a)[1] = a
                               /\ at[FreeSlot(a)] = "dead"
             /\ IsFiniteSet(begun) /\ Cardinality(begun) = Cardinality(new)
             /\ Cardinality(new) \in Nat
<1> DEFINE begun == {FreeSlot(a) : a \in new}
           slot == [a \in new |-> FreeSlot(a)]
<1>1. \A a \in new : FreeSlot(a) \in Loops /\ FreeSlot(a)[1] = a /\ at[FreeSlot(a)] = "dead"
  BY DEF FreeSlot, Loops
<1>2. slot \in [new -> begun] /\ \A a \in new : slot[a] = FreeSlot(a)
  OBVIOUS
<1>3. \A a, b \in new : slot[a] = slot[b] => a = b
  BY <1>1, <1>2
<1>4. \A l \in begun : \E a \in new : slot[a] = l
  BY <1>2
<1>5. slot \in Bijection(new, begun)
  BY <1>2, <1>3, <1>4 DEF Bijection, Injection, Surjection, IsInjective
<1>6. IsFiniteSet(new) /\ Cardinality(new) \in Nat
  BY TickerAssumption, FS_Subset, FS_CardinalityType
<1>7. IsFiniteSet(begun) /\ Cardinality(begun) = Cardinality(new)
  BY <1>5, <1>6, FS_Bijection DEF ExistsBijection
<1>8. QED
  BY <1>1, <1>6, <1>7

\* A spawn counts each loop before it begins, and begins none for an account that
\* is in t.spawned.
LEMMA SpawnWhole ==
  ASSUME WholeInv, NEW r \in Runners, Spawn(r)
  PROVE  WholeInv'
<1> USE DEF WholeInv, TickerInv, TickerShape
<1> DEFINE new == IF started THEN ToSpawn(found[r]) ELSE {}
           begun == {FreeSlot(a) : a \in new}
<1>1. new \in SUBSET Accounts /\ new \cap spawned = {} /\ (~started => new = {})
  BY DEF ToSpawn, RestShape
<1>2. /\ at[r] = "spawn" /\ r \in Goroutines
      /\ \A a \in new : \E i \in Slots : at[<<a, i>>] = "dead"
      /\ at' = [g \in Goroutines |-> IF g \in {r} \cup begun THEN "enter" ELSE at[g]]
      /\ seen' = [g \in Goroutines |-> IF g \in {r} \cup begun THEN gen ELSE seen[g]]
      /\ wg' = wg + Cardinality(new)
      /\ spawned' = spawned \cup new
      /\ found' = [found EXCEPT ![r] = {}]
      /\ jitter' = jitter \cup (({r} \cup begun) \ {r})
      /\ UNCHANGED <<started, gen, closed, ch, stopper, dead, overlap>>
  BY GoroutineKinds DEF Spawn
<1> HIDE DEF new
<1>3. /\ \A a \in new : FreeSlot(a) \in Loops /\ FreeSlot(a)[1] = a /\ at[FreeSlot(a)] = "dead"
      /\ IsFiniteSet(begun) /\ Cardinality(begun) = Cardinality(new)
      /\ Cardinality(new) \in Nat
  BY <1>1, <1>2, NewLoops
<1>4. begun \subseteq Loops /\ begun \subseteq Goroutines /\ \A l \in begun : at[l] = "dead"
  BY <1>3, GoroutineKinds
<1>5. RestShape'
  <2>1. gen \in Gens
    BY DEF RestShape, Gens
  <2>2. seen' \in [Goroutines -> Gens]
    BY <1>2, <2>1 DEF RestShape
  <2>3. jitter' \subseteq Loops
    BY <1>2, <1>4 DEF RestShape
  <2>4. QED
    BY <1>1, <1>2, <2>2, <2>3 DEF RestShape
<1>6. WgCountsGoroutines'
  <2>1. Alive' = Alive \cup begun
    BY <1>2, <1>4 DEF Alive
  <2>2. Alive \cap begun = {}
    BY <1>4 DEF Alive
  <2>3. Cardinality(Alive \cup begun) = Cardinality(Alive) + Cardinality(new)
    <3>1. Cardinality(Alive \cap begun) = 0
      BY <2>2, FS_EmptySet
    <3>2. Cardinality(Alive \cup begun)
            = Cardinality(Alive) + Cardinality(begun) - Cardinality(Alive \cap begun)
      BY <1>3, AliveFinite, FS_Union
    <3>3. QED
      BY <1>3, <3>1, <3>2, AliveFinite
  <2>4. QED
    BY <1>2, <2>1, <2>3 DEF WgCountsGoroutines
<1>7. NoOverlapInv'
  <2>1. SUFFICES ASSUME ~overlap PROVE NoOverlapInv'
    BY <1>2 DEF NoOverlapInv
  <2>2. \A a \in Accounts, i \in Slots :
          at'[<<a, i>>] # "dead" =>
            at[<<a, i>>] # "dead" \/ (a \in new /\ <<a, i>> = FreeSlot(a))
    <3>1. TAKE a \in Accounts, i \in Slots
    <3>2. <<a, i>> \in Goroutines /\ <<a, i>> # r
      BY GoroutineKinds
    <3>3. ASSUME <<a, i>> \in begun
          PROVE  a \in new /\ <<a, i>> = FreeSlot(a)
      <4>1. PICK b \in new : <<a, i>> = FreeSlot(b)
        BY <3>3
      <4>2. b = a
        BY <1>3, <4>1
      <4>3. QED
        BY <4>1, <4>2
    <3>4. QED
      BY <1>2, <3>2, <3>3
  <2>3. \A a \in new, i \in Slots : at[<<a, i>>] = "dead"
    BY <1>1, <2>1 DEF NoOverlapInv
  <2>4. ASSUME NEW a \in Accounts, NEW i \in Slots, NEW j \in Slots,
               at'[<<a, i>>] # "dead", at'[<<a, j>>] # "dead"
        PROVE  i = j
    <3>1. CASE a \in new
      <4>1. <<a, i>> = FreeSlot(a) /\ <<a, j>> = FreeSlot(a)
        BY <2>2, <2>3, <2>4, <3>1
      <4>2. QED
        BY <4>1
    <3>2. CASE a \notin new
      BY <2>1, <2>2, <2>4, <3>2 DEF NoOverlapInv
    <3>3. QED
      BY <3>1, <3>2
  <2>5. \A a \in Accounts, i \in Slots : at'[<<a, i>>] # "dead" => a \in spawned'
    BY <1>2, <2>1, <2>2 DEF NoOverlapInv
  <2>6. \A s \in Stoppers : stopper[s] = "woken" => wg' = 0
    <3>1. SUFFICES ASSUME NEW s \in Stoppers, stopper[s] = "woken" PROVE wg' = 0
      OBVIOUS
    <3>2. wg = 0 /\ Alive = {}
      BY <2>1, <3>1, AliveFinite, FS_EmptySet DEF NoOverlapInv, WgCountsGoroutines
    <3>3. QED
      BY <1>2, <3>2 DEF Alive
  <2>7. QED
    BY <1>2, <2>1, <2>4, <2>5, <2>6 DEF NoOverlapInv
<1>8. QED
  BY <1>5, <1>6, <1>7, SpawnTickerInv

\* What of the types the steps that move a goroutine leave in place.
LEMMA MovesTyped ==
  ASSUME WholeInv, NEW g \in Goroutines,
         EnterSelect(g) \/ (g \in Runners /\ (RunTimer(g) \/ Discover(g)))
         \/ (g \in Loops /\ (FirstTimer(g) \/ TaskTimer(g) \/ Task(g)))
  PROVE  RestShape'
<1> USE DEF WholeInv, TickerInv, TickerShape
<1>1. CASE EnterSelect(g)
  <2>1. PICK c \in seen[g]..gen :
          ch' = [ch EXCEPT ![g] = c] /\ seen' = [seen EXCEPT ![g] = c]
    BY <1>1 DEF EnterSelect
  <2>2. c \in Gens
    BY <2>1, TickerAssumption DEF RestShape, Gens
  <2>3. QED
    BY <1>1, <2>1, <2>2 DEF EnterSelect, RestShape
<1>2. CASE g \in Runners /\ (RunTimer(g) \/ Discover(g))
  BY <1>2 DEF RunTimer, Discover, RestShape
<1>3. CASE g \in Loops /\ (FirstTimer(g) \/ TaskTimer(g))
  BY <1>3 DEF FirstTimer, TaskTimer, RestShape
<1>4. CASE g \in Loops /\ Task(g)
  <2>1. g[1] \in Accounts
    BY <1>4, GoroutineKinds
  <2>2. dead' \in [Accounts -> DeadRec]
    BY <1>4, <2>1, DeadTyped DEF Task, RestShape
  <2>3. QED
    BY <1>4, <2>2 DEF Task, RestShape
<1>5. QED
  BY <1>1, <1>2, <1>3, <1>4

\* Every step keeps the whole invariant.
LEMMA NextWholeInv == WholeInv /\ [Next]_vars => WholeInv'
<1> SUFFICES ASSUME WholeInv, [Next]_vars
             PROVE  WholeInv'
  OBVIOUS
<1>1. TickerInv'
  BY NextTickerInv DEF WholeInv
<1>2. CASE UNCHANGED vars
  BY <1>1, <1>2 DEF vars, goVars, WholeInv, RestShape, WgCountsGoroutines, Alive, NoOverlapInv
<1>3. ASSUME NEW r \in Runners, Start(r) \/ Spawn(r)
      PROVE  WholeInv'
  BY <1>3, StartWhole, SpawnWhole
<1>4. ASSUME NEW r \in Runners, EnterSelect(r) \/ RunTimer(r) \/ Discover(r)
      PROVE  WholeInv'
  <2>1. r \in Goroutines
    BY GoroutineKinds
  <2>2. RestShape'
    BY <1>4, <2>1, MovesTyped
  <2>3. /\ at[r] # "dead"
        /\ \E p \in {"select", "discover", "spawn"} : at' = [at EXCEPT ![r] = p]
        /\ UNCHANGED <<started, spawned, wg, stopper, overlap>>
    BY <1>4 DEF EnterSelect, RunTimer, Discover
  <2>4. QED
    BY <1>1, <2>1, <2>2, <2>3, MoveWhole
<1>5. ASSUME NEW l \in Loops, EnterSelect(l) \/ FirstTimer(l) \/ TaskTimer(l) \/ Task(l)
      PROVE  WholeInv'
  <2>1. l \in Goroutines
    BY GoroutineKinds
  <2>2. RestShape'
    BY <1>5, <2>1, MovesTyped
  <2>3. /\ at[l] # "dead"
        /\ \E p \in {"select", "task", "enter"} : at' = [at EXCEPT ![l] = p]
        /\ UNCHANGED <<started, spawned, wg, stopper, overlap>>
    BY <1>5 DEF EnterSelect, FirstTimer, TaskTimer, Task
  <2>4. QED
    BY <1>1, <2>1, <2>2, <2>3, MoveWhole
<1>6. ASSUME NEW l \in Loops, DisabledTimer(l)
      PROVE  WholeInv'
  BY <1>1, <1>6, GoroutineKinds, ExitWhole DEF DisabledTimer
<1>7. ASSUME NEW g \in Goroutines, Stopped(g)
      PROVE  WholeInv'
  BY <1>1, <1>7, ExitWhole DEF Stopped
<1>8. ASSUME NEW s \in Stoppers, Stop(s) \/ StopWaits(s) \/ StopReturns(s)
      PROVE  WholeInv'
  BY <1>8, StopWhole
<1>9. QED
  BY <1>2, <1>3, <1>4, <1>5, <1>6, <1>7, <1>8 DEF Next, RunnerStep, LoopStep

\* The variables of the ticker keep their types; above all the wait group's counter
\* is never below zero, where sync.WaitGroup panics.
THEOREM TickerTypesHold == Spec => []TickerTypeOK
<1>1. WholeInv => TickerTypeOK
  <2> SUFFICES ASSUME WholeInv PROVE TickerTypeOK
    OBVIOUS
  <2>2. wg \in 0..Cardinality(Goroutines)
    BY AliveFinite DEF WholeInv, WgCountsGoroutines
  <2>3. gen \in Gens
    BY TickerAssumption DEF WholeInv, TickerInv, TickerShape, RestShape, Gens
  <2>4. QED
    BY <2>2, <2>3 DEF WholeInv, TickerInv, TickerShape, RestShape, TickerTypeOK
<1>2. QED
  BY <1>1, InitWholeInv, NextWholeInv, PTL DEF Spec, Safety

\* The wait group counts the goroutines that run, whatever starts and stops overlap.
THEOREM WaitGroupCounts == Spec => []WgCountsGoroutines
<1>1. WholeInv => WgCountsGoroutines
  BY DEF WholeInv
<1>2. QED
  BY <1>1, InitWholeInv, NextWholeInv, PTL DEF Spec, Safety

\* Without a start during a stop no account has two loops and no stop panics.
THEOREM SafeUnlessOverlapped == Spec => []SafeWithoutOverlap
<1>1. WholeInv => SafeWithoutOverlap
  BY DEF WholeInv, NoOverlapInv, SafeWithoutOverlap
<1>2. QED
  BY <1>1, InitWholeInv, NextWholeInv, PTL DEF Spec, Safety

\* A stop that returns leaves no goroutine behind.
THEOREM StopsDrain == Spec => StopDrains
<1>1. ASSUME WholeInv, [Next]_vars, NEW s \in Stoppers, stopper[s] # "idle",
             stopper'[s] = "idle"
      PROVE  Alive = {}
  <2>1. wg = 0
    <3>1. stopper[s] \in {"stopped", "wait", "woken", "panicked"}
      BY <1>1 DEF WholeInv, RestShape
    <3>2. CASE \E u \in Stoppers : StopWaits(u) \/ StopReturns(u)
      BY <1>1, <3>1, <3>2 DEF StopWaits, StopReturns, WholeInv, RestShape
    <3>3. CASE \E u \in Stoppers : Stop(u)
      BY <1>1, <3>1, <3>3 DEF Stop, WholeInv, RestShape
    <3>4. CASE \E g \in Goroutines : Exit(g)
      BY <1>1, <3>1, <3>4 DEF Exit
    <3>5. CASE UNCHANGED stopper
      BY <1>1, <3>5
    <3>6. Loops \subseteq Goroutines
      BY DEF Goroutines
    <3>7. QED
      BY <1>1, <3>2, <3>3, <3>4, <3>5, <3>6
      DEF Next, RunnerStep, LoopStep, Start, EnterSelect, RunTimer, Discover, Spawn,
          FirstTimer, TaskTimer, DisabledTimer, Task, Stopped, vars
  <2>2. QED
    BY <1>1, <2>1, AliveFinite, FS_EmptySet DEF WholeInv, WgCountsGoroutines
<1>2. WholeInv /\ [Next]_vars
        => [\A s \in Stoppers :
              stopper[s] # "idle" /\ stopper'[s] = "idle" => Alive = {}]_vars
  BY <1>1
<1>3. QED
  BY <1>2, InitWholeInv, NextWholeInv, PTL DEF Spec, Safety, StopDrains
=============================================================================
