------------------------------ MODULE MCUpkeep ------------------------------
(***************************************************************************)
(* The upkeep of the accounts, part by part: when the daily tasks run      *)
(* (DailyWakes), and what those do that end in the ledger, that claim      *)
(* streak rewards, that claim benefits and that only leave a note          *)
(* (AccountTasks).  A behaviour is one of the parts; what the others keep  *)
(* stays as it is.                                                         *)
(***************************************************************************)
EXTENDS DailyWakes, AccountTasks, TLC

CONSTANTS
  Cn, Global,   \* an account of each realm
  Parts         \* the parts a run takes

VARIABLE part

MCHours ==
  [checkin9 |-> 9, checkin21 |-> 21, activity |-> 10, claim |-> 11, benefits |-> 11,
   trial |-> 12, quota |-> 23, keepalive |-> 22]
MCTasks == DOMAIN MCHours
TicksOfHour == 4
MCDay == 24 * TicksOfHour
MCHour == [t \in MCTasks |-> TicksOfHour * MCHours[t]]
MCDraws == 0..1
MCScope ==
  [t \in MCTasks |->
     IF t \in {"checkin9", "checkin21", "claim"} THEN {"cn"}
     ELSE IF t \in {"trial", "quota"} THEN {"global"} ELSE {"cn", "global"}]

MCRealmOf == [a \in Accounts |-> IF a = Cn THEN "cn" ELSE "global"]
MCTiers == <<"7d", "14d", "28d">>
MCKinds == <<"gift", "compensation">>

Package(cycleSize, cycleRemain, cycleUsed, capSize, capRemain, capUsed) ==
  [cycleSize |-> cycleSize, cycleRemain |-> cycleRemain, cycleUsed |-> cycleUsed,
   capSize |-> capSize, capRemain |-> capRemain, capUsed |-> capUsed]
\* No package; one in a cycle that has used more than is gone from its rest,
\* and one without a cycle.
MCPackages == {<<>>, <<Package(5, 4, 3, 0, 0, 0), Package(0, 0, 0, 2, 1, 0)>>}

Quiet == [p \in Accounts \X Rewards |-> "closed"]
NoWakes == WakesInit /\ realm = "cn" /\ now = 0

\* The rewards some of which may be open from the start, or be refused though
\* they are shown as open.
Offered(theirs) ==
  /\ rewards \in {q \in [Accounts \X Rewards -> {"closed", "open", "claimed"}] :
                    \A p \in DOMAIN q \ theirs : q[p] = "closed"}
  /\ barred \in SUBSET theirs
  /\ stuck \in SUBSET (theirs \ barred)

Nothing == rewards = Quiet /\ barred = {} /\ stuck = {}

UpkeepInit ==
  /\ ledger = NewLedger
  /\ tasklog = <<>>
  /\ work = [w \in Workers |-> Idle]
  /\ rows = {} /\ expired = {}
  /\ part \in Parts
  /\ \/ part = "wakes" /\ WakesInit /\ Nothing /\ failures = 0
     \/ part = "ledger" /\ NoWakes /\ Nothing /\ failures = MaxFailures
     \/ part = "tiers" /\ NoWakes /\ failures = 0 /\ Offered({Cn} \X Range(Tiers))
     \/ part = "notes" /\ NoWakes /\ Nothing /\ failures = 0
     \/ part = "benefits" /\ NoWakes /\ failures = 0 /\ Offered({Global} \X Range(Kinds))

WakesPart == part = "wakes" /\ WakesNext /\ UNCHANGED <<part, taskVars>>

\* Bound: two at a time add to the ledger.
RoomForOne == Cardinality({w \in Workers : ~At(w, "idle")}) < 2

LedgerPart ==
  /\ part = "ledger"
  /\ \/ \E a \in Accounts : LoopStep(a)
     \/ \E w \in Fetchers \cup {Page} : ManualStep(w)
     \/ /\ RoomForOne
        /\ \/ Begin(Cn, "checkin") \/ Begin(Global, "quota")
           \/ AskPage("checkin", <<Cn>>)
           \/ \E f \in Fetchers : FetchQuota(f, Global)
  /\ UNCHANGED <<part, wakeVars>>

ClaimStep == part = "tiers" /\ (LoopStep(Cn) \/ Begin(Cn, "claim")) /\ UNCHANGED <<part, wakeVars>>

TiersPart ==
  \/ ClaimStep
  \/ /\ part = "tiers"
     /\ \/ BeginFails(Cn, "claim") \/ Expires(Cn)
        \/ \E r \in Range(Tiers) : RewardOpens(Cn, r)
     /\ UNCHANGED <<part, wakeVars>>

BenefitStep ==
  part = "benefits" /\ (LoopStep(Global) \/ Begin(Global, "benefits")) /\ UNCHANGED <<part, wakeVars>>

BenefitsPart ==
  \/ BenefitStep
  \/ /\ part = "benefits"
     /\ \/ BeginFails(Global, "benefits") \/ Expires(Global)
        \/ ManualStep(Page) \/ AskPage("benefits", <<Global>>)
        \/ \E r \in Range(Kinds) : RewardOpens(Global, r) \/ BenefitCloses(Global, r)
     /\ UNCHANGED <<part, wakeVars>>

NotesPart ==
  /\ part = "notes"
  /\ LoopStep(Global) \/ \E task \in {"activity", "trial"} : Begin(Global, task)
  /\ UNCHANGED <<part, wakeVars>>

UpkeepVars == <<part, wakeVars, taskVars>>

UpkeepNext == WakesPart \/ LedgerPart \/ TiersPart \/ BenefitsPart \/ NotesPart

\* Of TasksFair what the parts have: one task each, so that it is enabled as
\* long as its loop is idle.
UpkeepSpec ==
  /\ UpkeepInit /\ [][UpkeepNext]_UpkeepVars
  /\ WF_UpkeepVars(ClaimStep) /\ WF_UpkeepVars(BenefitStep)
=============================================================================
