----------------------------- MODULE DailyWakes -----------------------------
(***************************************************************************)
(* When the daily tasks of one account run (buildWakes and accountLoop,    *)
(* ops_account.go).  A task is due in its hour, at a minute that is drawn  *)
(* anew each time the list of wakes is built; the list is built again only *)
(* when it is used up.                                                     *)
(*                                                                         *)
(* Time is counted in ticks from the midnight before.  It passes while the *)
(* loop waits for a wake and while a task runs, never otherwise: what the  *)
(* timer and the tasks are late by is part of a task's run.                *)
(***************************************************************************)
EXTENDS Integers, FiniteSets

CONSTANTS
  Day,        \* ticks of a day
  Tasks,      \* the slots of opsDailyTasks
  Hour,       \* the tick at which the hour of each task begins
  Scope,      \* the realms each task is for
  Realms,
  Draws,      \* the minutes that can be drawn, in ticks
  FirstTask,  \* the check-ins, one of which runs when the loop starts
  MaxRun      \* the most ticks a task takes

ASSUME WakesAssumption ==
  /\ Day \in Nat
  /\ Draws \subseteq Nat
  /\ Draws # {}
  /\ MaxRun \in Nat
  /\ MaxRun < Day
  /\ IsFiniteSet(Tasks)
  /\ Hour \in [Tasks -> Nat]
  /\ \A t \in Tasks, m \in Draws : Hour[t] + m < Day
  /\ Scope \in [Tasks -> SUBSET Realms]
  /\ FirstTask \subseteq Tasks

\* The times of day that can be drawn for a task.
Slot(t) == {Hour[t] + m : m \in Draws}

\* The most ticks these tasks take, and the tasks that may come after t when
\* t is due at a time.
Toll(tasks) == MaxRun * Cardinality(tasks)
Later(t, at) == {u \in Tasks \ {t} : \E s \in Slot(u) : s >= at}

\* What the table of hours (opsDailyTasks) provides for: tasks that run one
\* after the other, each as long as it may, are through before midnight; and
\* of the tasks of a realm none has an hour to which all others are so close
\* that the one or the other may come first.
ASSUME HoursAssumption ==
  /\ Toll(Tasks) <= Day
  /\ \A t \in Tasks : \A at \in Slot(t) : at + Toll(Later(t, at)) < Day
  /\ \A t \in Tasks : \A r \in Scope[t] : \E u \in Tasks :
       /\ r \in Scope[u]
       /\ \/ \A s \in Slot(t), d \in Slot(u) : d < s
          \/ \A s \in Slot(t), d \in Slot(u) : d > s

VARIABLES
  realm,      \* of the account
  now,
  loop,       \* "first", "wait", "run" or "over"
  due,        \* pending: when each of its tasks is due
  ran,        \* how often each task has run since midnight
  missed      \* the days in a row each task has not run on, -1 before the first

wakeVars == <<realm, now, loop, due, ran, missed>>

Applying == {t \in Tasks : realm \in Scope[t]}

WakesInit ==
  /\ realm \in Realms
  /\ now \in 0..Day - 1
  /\ loop = "first"
  /\ due = <<>>
  /\ ran = [t \in Applying |-> 0]
  /\ missed = [t \in Applying |-> -1]

Midnight(time) == IF time < Day THEN 0 ELSE Day

\* Wrong variant: an hour that is over is not put off to tomorrow.
BuildToday(time) ==
  {[t \in Applying |-> Midnight(time) + Hour[t] + draw[t]] : draw \in [Applying -> Draws]}

\* The lists that can be built at a time: a task whose minute is not to come
\* today is put off to tomorrow.
BuildWakes(time) ==
  {[t \in Applying |->
      LET at == Midnight(time) + Hour[t] + draw[t] IN IF at > time THEN at ELSE at + Day] :
   draw \in [Applying -> Draws]}

\* The clock reaches a time with these wakes pending, and these tasks start
\* there; when it is after midnight all times are counted from there.
Pass(time, pending, starting) ==
  LET count(before) == [t \in Applying |-> before[t] + (IF t \in starting THEN 1 ELSE 0)]
  IN IF time < Day
     THEN /\ now' = time /\ due' = pending /\ ran' = count(ran)
          /\ UNCHANGED missed
     ELSE /\ now' = time - Day
          /\ due' = [t \in DOMAIN pending |-> pending[t] - Day]
          /\ ran' = count([t \in Applying |-> 0])
          /\ missed' = [t \in Applying |-> IF ran[t] = 0 THEN missed[t] + 1 ELSE 0]

\* A task ends; a list that is used up is built again.
Ends(time) ==
  /\ loop' = "wait"
  /\ IF DOMAIN due # {} THEN Pass(time, due, {})
     ELSE \E pending \in BuildWakes(time) : Pass(time, pending, {})

\* After its first pause the loop checks in, whatever the hour, where the
\* realm has check-ins.
First ==
  /\ loop = "first"
  /\ \E took \in IF FirstTask \cap Applying # {} THEN 0..MaxRun ELSE {0} : Ends(now + took)
  /\ UNCHANGED realm

Earliest == {t \in DOMAIN due : \A u \in DOMAIN due : due[t] <= due[u]}

\* The timer fires: the wake leaves the list before its task runs.
Wake ==
  /\ loop = "wait"
  /\ \E t \in Earliest :
       Pass(IF due[t] > now THEN due[t] ELSE now,
            [u \in DOMAIN due \ {t} |-> due[u]], {t})
  /\ loop' = "run"
  /\ UNCHANGED realm

Run ==
  /\ loop = "run"
  /\ \E took \in 0..MaxRun : Ends(now + took)
  /\ UNCHANGED realm

\* stopCh is closed, or the wake finds the account disabled.
Over ==
  /\ loop \in {"first", "wait"}
  /\ loop' = "over"
  /\ UNCHANGED <<realm, now, due, ran, missed>>

WakesNext == First \/ Wake \/ Run \/ Over

WakesSpec == WakesInit /\ [][WakesNext]_wakeVars
-----------------------------------------------------------------------------
WakesTypeOK ==
  /\ realm \in Realms
  /\ now \in 0..Day - 1
  /\ loop \in {"first", "wait", "run", "over"}
  /\ DOMAIN due \subseteq Applying
  /\ \A t \in DOMAIN due : \E s \in Slot(t) : due[t] \in {s, s + Day}
  /\ ran \in [Applying -> 0..2]
  /\ missed \in [Applying -> -1..1]

Pending(t) == t \in DOMAIN due
PendingToday(t) == Pending(t) /\ due[t] < Day

\* The list spans a day, so that the wakes which are left come before the
\* next turn of those that are gone.
WithinADay ==
  /\ \A t, u \in DOMAIN due : due[t] < due[u] + Day
  /\ \A t \in Applying \ DOMAIN due, u \in DOMAIN due :
       \E s \in Slot(t) : due[u] < s + (IF ran[t] > 0 THEN Day ELSE 0)

\* A task has run at a time of its own, and one that is to run twice today has
\* none of those left, or will not when another wake has come.
TwiceAtMost ==
  \A t \in Applying :
    /\ ran[t] > 0 => \E s \in Slot(t) : s <= now
    /\ PendingToday(t) => ran[t] <= 1
    /\ ran[t] = 2 \/ (ran[t] = 1 /\ PendingToday(t)) =>
         \/ \A s \in Slot(t) : s <= now
         \/ \E u \in DOMAIN due : \A s \in Slot(t) : due[u] > s

\* A task that was left out yesterday runs today.
MissedOnce ==
  \A t \in Applying : ran[t] = 0 /\ ~PendingToday(t) => missed[t] <= 0

\* Those that must still run today: the next list has to be built by then.
Owed == {t \in Applying : IF Pending(t) THEN PendingToday(t) ELSE ran[t] = 0}

LaterOf(time, other) == IF time < other THEN other ELSE time

BeforeMidnight ==
  Owed # {} =>
    /\ loop = "run" => now + Toll(Owed) < Day
    /\ loop = "wait" => \A t \in Earliest : LaterOf(now, due[t]) + Toll(Owed) - MaxRun < Day

Fresh ==
  loop = "first" => DOMAIN due = {} /\ \A t \in Applying : ran[t] = 0 /\ missed[t] = -1

\* The invariant of the loop: what its list, its clock and its counts have to
\* do with each other, and that the day's work is done by midnight.
WakesInv == WakesTypeOK /\ Fresh /\ WithinADay /\ TwiceAtMost /\ MissedOnce /\ BeforeMidnight

\* However the minutes are drawn and whenever the loop starts, a task never
\* runs more than twice on a day and never leaves out two days in a row.  (It
\* does run twice on some days and leaves out others: a task that shares the
\* hour in which the list is used up may be drawn again later in that hour, or
\* earlier in it and so for the day after.)
RunsAboutDaily ==
  \A t \in Applying : ran[t] <= 2 /\ missed[t] <= 1
=============================================================================
