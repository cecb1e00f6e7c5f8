------------------------------ MODULE OpsTicker ------------------------------
(***************************************************************************)
(* opsTicker (ops_scheduler.go, ops_account.go): start and stop, the run   *)
(* goroutine that discovers accounts, and one accountLoop per account.     *)
(*                                                                         *)
(* Every select of a goroutine evaluates t.stopCh afresh and without t.mu. *)
(* A stop channel is named by the start that made it (its generation), and *)
(* the unsynchronised read may return the channel of any generation from   *)
(* the last one the goroutine is ordered after, seen, to the present one.  *)
(* What a task does is reduced to what it does to deadSessions; when it is *)
(* due is left to the timer, which may fire at any time.                   *)
(***************************************************************************)
EXTENDS DeadCounter, FiniteSets

CONSTANTS
  Accounts,  \* authIndex values
  CheckinAccounts, \* those whose realm has the checkin task
  Runners,   \* goroutines that execute run
  Slots,     \* per account, the goroutines that may execute its accountLoop
  Stoppers,  \* host calls of plugin.quiesce and plugin.shutdown
  MaxStarts  \* bound: how often start makes a new generation

ASSUME TickerAssumption ==
  /\ CheckinAccounts \subseteq Accounts
  /\ IsFiniteSet(Accounts) /\ IsFiniteSet(Runners) /\ IsFiniteSet(Slots)
  /\ Runners \cap (Accounts \X Slots) = {}
  /\ MaxStarts \in Nat \ {0}

VARIABLES
  started,  \* t.started
  gen,      \* the generation of t.stopCh, 0 before the first start
  closed,   \* the generations whose stop channel is closed
  spawned,  \* t.spawned
  wg,       \* the counter of t.wg
  at,       \* where a goroutine is, "dead" before it is started and after it ends
  seen,     \* the newest generation a goroutine is ordered after
  ch,       \* the stop channel its current select waits on
  found,    \* what discovery has returned to a runner
  stopper,  \* where a call of stop is
  jitter,   \* the loops that have not got past their initial jitter
  dead,     \* deadSessions
  overlap   \* history: a start came before an earlier stop was through

goVars == <<at, seen, ch, found, jitter>>
vars == <<started, gen, closed, spawned, wg, goVars, stopper, dead, overlap>>

Loops == Accounts \X Slots
Goroutines == Runners \cup Loops
Gens == 0..MaxStarts
Alive == {g \in Goroutines : at[g] # "dead"}

TickerTypeOK ==
  /\ started \in BOOLEAN
  /\ gen \in Gens
  /\ closed \subseteq Gens
  /\ spawned \subseteq Accounts
  /\ wg \in 0..Cardinality(Goroutines)
  /\ at \in [Goroutines -> {"dead", "enter", "select", "discover", "spawn",
                            "task"}]
  /\ seen \in [Goroutines -> Gens]
  /\ ch \in [Goroutines -> Gens]
  /\ found \in [Runners -> SUBSET Accounts]
  /\ jitter \subseteq Loops
  /\ stopper \in [Stoppers -> {"idle", "stopped", "wait", "woken", "panicked"}]
  /\ dead \in [Accounts -> DeadRec]
  /\ overlap \in BOOLEAN

Init ==
  /\ started = FALSE
  /\ gen = 0
  /\ closed = {}
  /\ spawned = {}
  /\ wg = 0
  /\ at = [g \in Goroutines |-> "dead"]
  /\ seen = [g \in Goroutines |-> 0]
  /\ ch = [g \in Goroutines |-> 0]
  /\ found = [r \in Runners |-> {}]
  /\ jitter = {}
  /\ stopper = [s \in Stoppers |-> "idle"]
  /\ dead = [a \in Accounts |-> NeverDead]
  /\ overlap = FALSE

-----------------------------------------------------------------------------
(***************************************************************************)
(* start and stop                                                          *)
(***************************************************************************)

\* No goroutine is left of an earlier start, and no call of stop is under way.
Drained ==
  /\ Alive = {}
  /\ \A s \in Stoppers : stopper[s] \in {"idle", "panicked"}

\* Wrong variant: start keeps the old, closed channel.
StartOldChannel(r) ==
  /\ ~started
  /\ gen < MaxStarts
  /\ at[r] = "dead"
  /\ started' = TRUE
  /\ gen' = IF gen = 0 THEN 1 ELSE gen
  /\ spawned' = {}
  /\ wg' = wg + 1
  /\ at' = [at EXCEPT ![r] = "enter"]
  /\ seen' = [seen EXCEPT ![r] = gen']
  /\ overlap' = (overlap \/ ~Drained)
  /\ UNCHANGED <<closed, ch, found, jitter, stopper, dead>>

\* start, from plugin.register, from a refresh or from a login; a second start
\* of a started ticker returns at once.
Start(r) ==
  /\ ~started
  /\ gen < MaxStarts
  /\ at[r] = "dead"
  /\ started' = TRUE
  /\ gen' = gen + 1
  /\ spawned' = {}
  /\ wg' = wg + 1
  /\ at' = [at EXCEPT ![r] = "enter"]
  /\ seen' = [seen EXCEPT ![r] = gen + 1]
  /\ overlap' = (overlap \/ ~Drained)
  /\ UNCHANGED <<closed, ch, found, jitter, stopper, dead>>

\* Wrong variant: stop does not close the channel.
StopUnclosed(s) ==
  /\ stopper[s] = "idle"
  /\ started
  /\ started' = FALSE
  /\ stopper' = [stopper EXCEPT ![s] = "stopped"]
  /\ UNCHANGED <<gen, closed, spawned, wg, goVars, dead, overlap>>

\* stop under t.mu: of several calls one closes the channel, the others find the
\* ticker stopped and return.
Stop(s) ==
  /\ stopper[s] = "idle"
  /\ started
  /\ closed' = closed \cup {gen}
  /\ started' = FALSE
  /\ stopper' = [stopper EXCEPT ![s] = "stopped"]
  /\ UNCHANGED <<gen, spawned, wg, goVars, dead, overlap>>

\* wg.Wait, outside t.mu, returns at once if the counter is zero.
StopWaits(s) ==
  /\ stopper[s] = "stopped"
  /\ stopper' = [stopper EXCEPT ![s] = IF wg = 0 THEN "idle" ELSE "wait"]
  /\ UNCHANGED <<started, gen, closed, spawned, wg, goVars, dead, overlap>>

\* A woken wg.Wait returns, unless the counter has been raised again since it reached
\* zero: sync.WaitGroup panics then.
StopReturns(s) ==
  /\ stopper[s] = "woken"
  /\ stopper' = [stopper EXCEPT ![s] = IF wg = 0 THEN "idle" ELSE "panicked"]
  /\ UNCHANGED <<started, gen, closed, spawned, wg, goVars, dead, overlap>>

\* wg.Done as goroutine g ends; the one that reaches zero wakes all waiters.
Exit(g) ==
  /\ at' = [at EXCEPT ![g] = "dead"]
  /\ seen' = [seen EXCEPT ![g] = 0]
  /\ ch' = [ch EXCEPT ![g] = 0]
  /\ wg' = wg - 1
  /\ stopper' = IF wg = 1
                THEN [s \in Stoppers |->
                        IF stopper[s] = "wait" THEN "woken" ELSE stopper[s]]
                ELSE stopper

-----------------------------------------------------------------------------
(***************************************************************************)
(* The selects of run and accountLoop                                      *)
(***************************************************************************)

\* The goroutine enters a select and reads t.stopCh.
EnterSelect(g) ==
  /\ at[g] = "enter"
  /\ \E c \in seen[g]..gen :
       /\ ch' = [ch EXCEPT ![g] = c]
       /\ seen' = [seen EXCEPT ![g] = c]
  /\ at' = [at EXCEPT ![g] = "select"]
  /\ UNCHANGED <<started, gen, closed, spawned, wg, found, jitter, stopper,
                 dead, overlap>>

\* The channel it waits on is closed: the goroutine ends.
Stopped(g) ==
  /\ at[g] = "select"
  /\ ch[g] \in closed
  /\ Exit(g)
  /\ jitter' = jitter \ {g}
  /\ UNCHANGED <<started, gen, closed, spawned, found, dead, overlap>>

-----------------------------------------------------------------------------
(***************************************************************************)
(* run and spawnTickers                                                    *)
(***************************************************************************)

\* Two seconds, later an hour, have passed: discover the accounts.
RunTimer(r) ==
  /\ at[r] = "select"
  /\ at' = [at EXCEPT ![r] = "discover"]
  /\ UNCHANGED <<started, gen, closed, spawned, wg, seen, ch, found, jitter,
                 stopper, dead, overlap>>

\* discoverAccounts, outside t.mu: a file the host cannot read, or does not list
\* yet, is left out.
Discover(r) ==
  /\ at[r] = "discover"
  /\ \E F \in SUBSET Accounts : found' = [found EXCEPT ![r] = F]
  /\ at' = [at EXCEPT ![r] = "spawn"]
  /\ UNCHANGED <<started, gen, closed, spawned, wg, seen, ch, jitter,
                 stopper, dead, overlap>>

\* Wrong variant: accounts that have a loop are spawned again.
ToSpawnAgain(F) == {a \in F : ~dead[a].disabled}

\* The accounts of F that get a loop.
ToSpawn(F) == {a \in F : ~dead[a].disabled} \ spawned

\* A goroutine of account a that does not run.
FreeSlot(a) == <<a, CHOOSE i \in Slots : at[<<a, i>>] = "dead">>

\* Wrong variant: each loop calls wg.Add itself once it runs.
SpawnLateAdd(r) ==
  LET new == IF started THEN ToSpawn(found[r]) ELSE {}
      begins == {r} \cup {FreeSlot(a) : a \in new} IN
  /\ at[r] = "spawn"
  /\ \A a \in new : \E i \in Slots : at[<<a, i>>] = "dead"
  /\ at' = [g \in Goroutines |-> IF g \in begins THEN "enter" ELSE at[g]]
  /\ seen' = [g \in Goroutines |-> IF g \in begins THEN gen ELSE seen[g]]
  /\ spawned' = spawned \cup new
  /\ found' = [found EXCEPT ![r] = {}]
  /\ jitter' = jitter \cup (begins \ {r})
  /\ UNCHANGED <<started, gen, closed, wg, ch, stopper, dead, overlap>>

\* spawnTickers under t.mu: one new loop per account, each with wg.Add before
\* its go statement; nothing if the ticker was stopped during discovery.
Spawn(r) ==
  LET new == IF started THEN ToSpawn(found[r]) ELSE {}
      begins == {r} \cup {FreeSlot(a) : a \in new} IN
  /\ at[r] = "spawn"
  /\ \A a \in new : \E i \in Slots : at[<<a, i>>] = "dead"
  /\ at' = [g \in Goroutines |-> IF g \in begins THEN "enter" ELSE at[g]]
  /\ seen' = [g \in Goroutines |-> IF g \in begins THEN gen ELSE seen[g]]
  /\ wg' = wg + Cardinality(new)
  /\ spawned' = spawned \cup new
  /\ found' = [found EXCEPT ![r] = {}]
  /\ jitter' = jitter \cup (begins \ {r})
  /\ UNCHANGED <<started, gen, closed, ch, stopper, dead, overlap>>

-----------------------------------------------------------------------------
(***************************************************************************)
(* accountLoop                                                             *)
(***************************************************************************)

\* The initial jitter has passed: check in at once where the realm has that task,
\* without asking whether the account is disabled.
FirstTimer(l) ==
  /\ at[l] = "select"
  /\ l \in jitter
  /\ jitter' = jitter \ {l}
  /\ at' = [at EXCEPT ![l] = IF l[1] \in CheckinAccounts THEN "task" ELSE "enter"]
  /\ UNCHANGED <<started, gen, closed, spawned, wg, seen, ch, found, stopper,
                 dead, overlap>>

\* A task is due and the account is not disabled.
TaskTimer(l) ==
  /\ at[l] = "select"
  /\ l \notin jitter
  /\ ~dead[l[1]].disabled
  /\ at' = [at EXCEPT ![l] = "task"]
  /\ UNCHANGED <<started, gen, closed, spawned, wg, seen, ch, found, jitter,
                 stopper, dead, overlap>>

\* A task is due and the account is disabled: the loop ends for good.
DisabledTimer(l) ==
  /\ at[l] = "select"
  /\ l \notin jitter
  /\ dead[l[1]].disabled
  /\ Exit(l)
  /\ UNCHANGED <<started, gen, closed, spawned, found, jitter, dead, overlap>>

\* A task runs to its end.  Checkin and keepalive note a 12153 and clear the
\* count on success; a task that fails otherwise, or another one, does neither.
Task(l) ==
  /\ at[l] = "task"
  /\ \/ dead' = [dead EXCEPT ![l[1]] = NoteDead(@)]
     \/ dead' = [dead EXCEPT ![l[1]] = ClearDead(@)]
     \/ UNCHANGED dead
  /\ at' = [at EXCEPT ![l] = "enter"]
  /\ UNCHANGED <<started, gen, closed, spawned, wg, seen, ch, found, jitter,
                 stopper, overlap>>

-----------------------------------------------------------------------------
RunnerStep(r) ==
  \/ EnterSelect(r)
  \/ RunTimer(r)
  \/ Discover(r)
  \/ Spawn(r)

LoopStep(l) ==
  \/ EnterSelect(l)
  \/ FirstTimer(l)
  \/ TaskTimer(l)
  \/ DisabledTimer(l)
  \/ Task(l)

Next ==
  \/ \E r \in Runners : Start(r) \/ RunnerStep(r)
  \/ \E l \in Loops : LoopStep(l)
  \/ \E g \in Goroutines : Stopped(g)
  \/ \E s \in Stoppers : Stop(s) \/ StopWaits(s) \/ StopReturns(s)

(***************************************************************************)
(* Timers fire and tasks end (their requests have timeouts).  A select     *)
(* whose channel is closed takes that branch sooner or later: select picks *)
(* among ready branches at random, and its timer is minutes or hours away, *)
(* so the branch is not passed over for ever.  Nobody has to start or stop *)
(* the ticker.                                                             *)
(***************************************************************************)
Fairness ==
  /\ \A r \in Runners : WF_vars(RunnerStep(r))
  /\ \A l \in Loops : WF_vars(LoopStep(l))
  /\ \A g \in Goroutines : SF_vars(Stopped(g))
  /\ \A s \in Stoppers : WF_vars(StopWaits(s) \/ StopReturns(s))

Safety == Init /\ [][Next]_vars

Spec == Safety /\ Fairness

-----------------------------------------------------------------------------
(***************************************************************************)
(* Properties                                                              *)
(***************************************************************************)

\* The wait group counts exactly the goroutines that run, at every moment
\* between a go statement and the return of the goroutine.
WgCountsGoroutines == wg = Cardinality(Alive)

\* A started ticker has a runner that no stop has told to end: it has seen the
\* newest channel, which is open, so new accounts are looked for every hour.
TickerRuns ==
  started => /\ gen \notin closed
             /\ \E r \in Runners : at[r] # "dead" /\ seen[r] = gen

\* When the stop that closed the channel returns, every goroutine has ended.
StopDrains ==
  [][\A s \in Stoppers :
       stopper[s] # "idle" /\ stopper'[s] = "idle" => Alive = {}]_vars

\* Unless the ticker was started again before an earlier stop was through, an
\* account has at most one loop and stop does not panic.
SafeWithoutOverlap ==
  overlap \/ /\ \A a \in Accounts, i, j \in Slots :
               at[<<a, i>>] # "dead" /\ at[<<a, j>>] # "dead" => i = j
             /\ \A s \in Stoppers : stopper[s] # "panicked"

\* A ticker that is stopped and not started again comes to rest: all goroutines
\* end and no call of stop waits, even if it had been restarted too early before.
ComesToRest ==
  <>[]~started => <>[]Drained

\* What ops_scheduler.go says of stop and of spawning: stop ends all tickers, and
\* no account gets a second loop; so two loops of one account never both wait for
\* their next task with nothing that would end them.
NoStackedLoops ==
  \A a \in Accounts, i, j \in Slots :
    /\ at[<<a, i>>] = "select" /\ ch[<<a, i>>] \notin closed
    /\ at[<<a, j>>] = "select" /\ ch[<<a, j>>] \notin closed
    => i = j
=============================================================================
