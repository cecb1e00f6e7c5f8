---------------------------- MODULE AccountTasks ----------------------------
(***************************************************************************)
(* What the daily tasks and the management page do for the accounts: check *)
(* in, fetch quotas, claim rewards.  Each account's loop runs one task at  *)
(* a time, the page one handler at a time (it holds s.mu), and the host    *)
(* asks for quotas at any time.  A request to the upstream and what is     *)
(* done with its answer are one step; between two requests all others may  *)
(* act.  When a task runs is DailyWakes; what a check-in does to           *)
(* deadSessions is OpsTicker, what a keepalive does CredentialFile.        *)
(***************************************************************************)
EXTENDS Billing, Ledger, Subsequences, SequencesExt

CONSTANTS
  Accounts,
  RealmOf,
  Page,         \* the management page
  Fetchers,     \* callers for a quota
  Tiers,        \* the streak rewards in the order they are tried
  Kinds,        \* the benefits in the order they are tried
  Packages,     \* the lists of packages the upstream may send
  MaxFailures   \* bound: requests for a reward that fail in passing or are dropped

ASSUME TasksAssumption ==
  /\ RealmOf \in [Accounts -> {"cn", "global"}]
  /\ Page \notin Accounts
  /\ Fetchers \cap (Accounts \cup {Page}) = {}
  /\ MaxFailures \in Nat
  /\ IsFiniteSet(Accounts)
  /\ Tiers \in Seq(Range(Tiers))
  /\ Kinds \in Seq(Range(Kinds)) /\ Kinds # <<>>
  /\ Packages \subseteq Seq(PackageRec)

Workers == Accounts \cup {Page} \cup Fetchers
Rewards == Range(Tiers) \cup Range(Kinds)
Balances == {Remaining(packages) : packages \in Packages}

VARIABLES
  ledger,
  tasklog,
  work,       \* what each worker is at
  rewards,    \* the upstream's: each account's rewards
  stuck,      \* those it shows as open but refuses: duplicate, too few days
  barred,     \* those it refuses for any other reason, with any other answer
  expired,    \* accounts whose loop goes on with a credential that has expired
  failures,
  rows        \* what the page's last claim has answered so far

lasting == <<stuck, barred, expired>>
taskVars == <<ledger, tasklog, work, rewards, lasting, failures, rows>>

Idle == [at |-> "idle", task |-> "", todo |-> <<>>, left |-> <<>>, balance |-> 0]

TasksInit ==
  /\ ledger = NewLedger
  /\ tasklog = <<>>
  /\ work = [w \in Workers |-> Idle]
  /\ rewards \in [Accounts \X Rewards -> {"closed", "open", "claimed"}]
  /\ stuck \in SUBSET (Accounts \X Rewards)
  /\ barred \in SUBSET (Accounts \X Rewards)
  /\ expired = {}
  /\ failures = 0
  /\ rows = {}

At(w, at) == work[w].at = at
Account(w) == work[w].todo[1]
Shown(a, r) == rewards[<<a, r>>] = "open"
\* Tiers are for accounts of the cn realm only.
Grants(a, r) ==
  /\ Shown(a, r) /\ <<a, r>> \notin stuck \cup barred
  /\ r \in Range(Tiers) => RealmOf[a] = "cn"

\* A loop has the credential of its discovery as long as it lives; the page and
\* the callers for a quota read the file, the activity and the trial do too.
Accepted(w) == w \notin expired

\* Whether the upstream refuses a worker's request for a reward each time, and
\* whether the request has its effect.
Refuses(w, r) == ~Accepted(w) \/ <<Account(w), r>> \in barred
Takes(w, r) == Accepted(w) /\ Grants(Account(w), r)
Granted(a, r) == rewards' = [rewards EXCEPT ![<<a, r>>] = "claimed"]

\* A request fails, for a reason that lasts or in passing, as one whose time has
\* run out does; it may have had its effect all the same (Lost).
Fails(lasts) ==
  IF lasts THEN UNCHANGED failures ELSE failures < MaxFailures /\ failures' = failures + 1
Lost(w, r) ==
  \/ UNCHANGED rewards
  \/ Takes(w, r) /\ Granted(Account(w), r)

\* The first request of each task.
FirstStep ==
  [checkin |-> "checkin", activity |-> "report", claim |-> "streak", benefits |-> "query",
   trial |-> "trial", quota |-> "balance"]

StartOn(task, accounts) ==
  [Idle EXCEPT !.at = FirstStep[task], !.task = task, !.todo = accounts,
               !.left = IF task = "benefits" THEN Kinds ELSE <<>>]

Goes(w, now) == work' = [work EXCEPT ![w] = now] /\ UNCHANGED tasklog

\* A worker is done with an account: the loop notes how its task ended
\* (finishTask), the page goes on with the next account.
Done(w, ok) ==
  IF w \in Accounts
  THEN /\ work' = [work EXCEPT ![w] = Idle]
       /\ tasklog' = Note(tasklog, [task |-> work[w].task, auth |-> w, ok |-> ok])
  ELSE Goes(w, IF Len(work[w].todo) > 1 THEN StartOn(work[w].task, Tail(work[w].todo)) ELSE Idle)

----------------------------------------------------------------------------
\* The beginning of a task of the loop, of a handler of the page, of a call for
\* a quota.

ScopeOf ==
  [checkin |-> {"cn"}, activity |-> {"cn", "global"}, claim |-> {"cn"},
   benefits |-> {"cn", "global"}, trial |-> {"global"}, quota |-> {"global"}]

Begin(a, task) ==
  /\ At(a, "idle")
  /\ RealmOf[a] \in ScopeOf[task]
  /\ Goes(a, StartOn(task, <<a>>))
  /\ UNCHANGED <<ledger, rewards, lasting, failures, rows>>

\* No client, or no credential from the host.
BeginFails(a, task) ==
  /\ At(a, "idle")
  /\ RealmOf[a] \in ScopeOf[task]
  /\ Fails(FALSE)
  /\ work' = work
  /\ tasklog' = Note(tasklog, [task |-> task, auth |-> a, ok |-> FALSE])
  /\ UNCHANGED <<ledger, rewards, lasting, rows>>

\* checkinHandler and claimBenefitsHandler take one account or all of them and
\* pass over those whose credential cannot be read; the check-in passes over
\* those of the global realm too.
AskPage(task, accounts) ==
  /\ At(Page, "idle")
  /\ \/ task = "benefits"
     \/ task = "checkin" /\ \A i \in DOMAIN accounts : RealmOf[accounts[i]] = "cn"
  /\ accounts # <<>>
  /\ Goes(Page, StartOn(task, accounts))
  /\ rows' = IF task = "benefits" THEN {} ELSE rows
  /\ UNCHANGED <<ledger, rewards, lasting, failures>>

\* A quota RPC of the host (handleQuotaFetch), or the page's quotaRefreshHandler,
\* which does the same; that it waits for s.mu only takes interleavings away.
FetchQuota(f, a) ==
  /\ At(f, "idle")
  /\ Goes(f, StartOn("quota", <<a>>))
  /\ UNCHANGED <<ledger, rewards, lasting, failures, rows>>

----------------------------------------------------------------------------
\* Check-in and quota, which end in the ledger.

Texts == {{"12153"}, {"10001"}, {"12153", "10001"}, {"5xx"}}
IsAlreadyCheckin(texts) == "10001" \in texts
IsSessionDead(texts) == "12153" \in texts

\* The page's word for it (checkinStatus) ...
CheckinStatus(texts) ==
  IF IsSessionDead(texts) THEN "AUTH_INVALID"
  ELSE IF IsAlreadyCheckin(texts) THEN "ALREADY" ELSE "FAIL"

\* ... and what follows: the loop looks for a dead session first, the page
\* asks for the balance whenever the texts say that the check-in was made.
CheckIn(w) ==
  /\ At(w, "checkin")
  /\ \/ Accepted(w) /\ Goes(w, [work[w] EXCEPT !.at = "balance"])
     \/ \E texts \in Texts :
          IF IsAlreadyCheckin(texts) /\ (w = Page \/ CheckinStatus(texts) = "ALREADY")
          THEN Goes(w, [work[w] EXCEPT !.at = "balance"])
          ELSE Done(w, IsAlreadyCheckin(texts))
  /\ UNCHANGED <<ledger, rewards, lasting, failures, rows>>

Answers == [{"plain", "v2"} -> {"ok", "missing", "error"}]

\* resourceSummary; a check-in counts as made whether or not it succeeds.
Balance(w) ==
  /\ At(w, "balance")
  /\ \E answers \in Answers :
       IF Accepted(w) /\ MeterAnswer(RealmOf[Account(w)], answers) = "ok"
       THEN \E packages \in Packages :
              Goes(w, [work[w] EXCEPT !.at = "record", !.balance = Remaining(packages)])
       ELSE Done(w, work[w].task = "checkin")
  /\ UNCHANGED <<ledger, rewards, lasting, failures, rows>>

RecordBalance(w) ==
  /\ At(w, "record")
  /\ ledger' = Record(ledger, Account(w), work[w].balance)
  /\ Done(w, TRUE)
  /\ UNCHANGED <<rewards, lasting, failures, rows>>

----------------------------------------------------------------------------
\* Streak rewards (claimCredits): the first tier that is granted ends the task.

NextTier(a, tiers) ==
  IF tiers = <<>> THEN Done(a, TRUE) ELSE Goes(a, [work[a] EXCEPT !.at = "redeem", !.left = tiers])

Streak(a) ==
  /\ At(a, "streak")
  /\ \/ Fails(~Accepted(a)) /\ Done(a, FALSE)
     \/ LET open == {i \in DOMAIN Tiers : Shown(a, Tiers[i])}
        IN Accepted(a) /\ NextTier(a, AtPositions(Tiers, open)) /\ UNCHANGED failures
  /\ UNCHANGED <<ledger, rewards, lasting, rows>>

\* Wrong variant: any refusal ends the task.
RedeemOnce(a) ==
  /\ At(a, "redeem")
  /\ LET r == Head(work[a].left)
     IN \/ Fails(Refuses(a, r)) /\ Lost(a, r) /\ Done(a, FALSE)
        \/ Takes(a, r) /\ Granted(a, r) /\ Done(a, TRUE) /\ UNCHANGED failures
        \/ ~Refuses(a, r) /\ ~Grants(a, r) /\ Done(a, FALSE) /\ UNCHANGED <<rewards, failures>>
  /\ UNCHANGED <<ledger, lasting, rows>>

\* Refused as a duplicate or for too few days, the next tier is tried; any other
\* refusal ends the task.
Redeem(a) ==
  /\ At(a, "redeem")
  /\ LET r == Head(work[a].left)
     IN \/ Fails(Refuses(a, r)) /\ Lost(a, r) /\ Done(a, FALSE)
        \/ Takes(a, r) /\ Granted(a, r) /\ Done(a, TRUE) /\ UNCHANGED failures
        \/ /\ ~Refuses(a, r) /\ ~Grants(a, r)
           /\ NextTier(a, Tail(work[a].left)) /\ UNCHANGED <<rewards, failures>>
  /\ UNCHANGED <<ledger, lasting, rows>>

----------------------------------------------------------------------------
\* Benefits, by the loop (claimAllBenefits) or the page (claimBenefitsHandler):
\* a request for the state of each kind, and one for the benefit if it is to
\* be had.

Kind(w) == Head(work[w].left)

\* A kind is done with; after the last, the account.  The page notes a row.
NextKind(w, status) ==
  /\ rows' = IF w = Page THEN rows \cup {<<Account(w), Kind(w), status>>} ELSE rows
  /\ IF Len(work[w].left) = 1 THEN Done(w, TRUE)
     ELSE Goes(w, [work[w] EXCEPT !.at = "query", !.left = Tail(work[w].left)])

\* An error ends the loop's task, but only this kind's row of the page.
KindFails(w) == IF w = Page THEN NextKind(w, "FAIL") ELSE Done(w, FALSE) /\ UNCHANGED rows

Query(w) ==
  /\ At(w, "query")
  /\ \/ Fails(Refuses(w, Kind(w))) /\ KindFails(w)
     \/ /\ Accepted(w)
        /\ IF Shown(Account(w), Kind(w))
           THEN Goes(w, [work[w] EXCEPT !.at = "claim"]) /\ UNCHANGED rows
           ELSE NextKind(w, IF rewards[<<Account(w), Kind(w)>>] = "claimed"
                            THEN "ALREADY" ELSE "SKIP")
        /\ UNCHANGED failures
  /\ UNCHANGED <<ledger, rewards, lasting>>

\* 200, or 409 for a duplicate, which counts as success; the page then looks
\* whether the benefit has arrived.
Claimed(w) ==
  IF w = Page THEN Goes(w, [work[w] EXCEPT !.at = "verify"]) /\ UNCHANGED rows
  ELSE NextKind(w, "")

\* The upstream may answer 200 and credit nothing.
Claim(w) ==
  /\ At(w, "claim")
  /\ LET a == Account(w)
         r == Kind(w)
     IN \/ Fails(Refuses(w, r)) /\ Lost(w, r) /\ KindFails(w)
        \/ ~Refuses(w, r) /\ Fails(FALSE) /\ UNCHANGED rewards /\ Claimed(w)
        \/ Takes(w, r) /\ Granted(a, r) /\ Claimed(w) /\ UNCHANGED failures
        \/ ~Refuses(w, r) /\ ~Grants(a, r) /\ Claimed(w) /\ UNCHANGED <<rewards, failures>>
  /\ UNCHANGED <<ledger, lasting>>

\* Wrong variant: the page takes the upstream's 200 for the benefit.
VerifyNothing(w) ==
  /\ At(w, "verify")
  /\ NextKind(w, "OK")
  /\ UNCHANGED <<ledger, rewards, lasting, failures>>

Verify(w) ==
  /\ At(w, "verify")
  /\ \/ Fails(FALSE) /\ NextKind(w, "SUBMITTED")
     \/ /\ NextKind(w, IF rewards[<<Account(w), Kind(w)>>] = "claimed" THEN "OK" ELSE "SUBMITTED")
        /\ UNCHANGED failures
  /\ UNCHANGED <<ledger, rewards, lasting>>

----------------------------------------------------------------------------
\* Tasks of which only the note remains.

\* Five reports, the first that fails is the last.
Reports == 5
Report(a) ==
  /\ At(a, "report")
  /\ \E sent \in 0..Reports : Done(a, sent = Reports)
  /\ UNCHANGED <<ledger, rewards, lasting, failures, rows>>

\* 14051 says that the trial has been claimed before.
Trial(a) ==
  /\ At(a, "trial")
  /\ \E answer \in {"ok", "14051", "error"} : Done(a, answer # "error")
  /\ UNCHANGED <<ledger, rewards, lasting, failures, rows>>

----------------------------------------------------------------------------
\* A reward opens for an account, or the time of a benefit is over.
RewardOpens(a, r) ==
  /\ rewards[<<a, r>>] = "closed"
  /\ rewards' = [rewards EXCEPT ![<<a, r>>] = "open"]
  /\ UNCHANGED <<ledger, tasklog, work, lasting, failures, rows>>

BenefitCloses(a, r) ==
  /\ r \in Range(Kinds)
  /\ Shown(a, r)
  /\ rewards' = [rewards EXCEPT ![<<a, r>>] = "closed"]
  /\ UNCHANGED <<ledger, tasklog, work, lasting, failures, rows>>

\* The token a loop has from its discovery is over its time.
Expires(a) ==
  /\ expired' = expired \cup {a}
  /\ UNCHANGED <<ledger, tasklog, work, rewards, stuck, barred, failures, rows>>

LoopStep(a) ==
  \/ CheckIn(a) \/ Balance(a) \/ RecordBalance(a) \/ Streak(a) \/ Redeem(a)
  \/ Query(a) \/ Claim(a) \/ Report(a) \/ Trial(a)

ManualStep(w) ==
  \/ CheckIn(w) \/ Balance(w) \/ RecordBalance(w) \/ Query(w) \/ Claim(w) \/ Verify(w)

TaskNames == DOMAIN ScopeOf

TasksNext ==
  \/ \E a \in Accounts :
       \/ LoopStep(a)
       \/ \E task \in TaskNames : Begin(a, task) \/ BeginFails(a, task)
       \/ \E f \in Fetchers : FetchQuota(f, a)
       \/ \E r \in Rewards : RewardOpens(a, r) \/ BenefitCloses(a, r)
       \/ Expires(a)
  \/ \E w \in Fetchers \cup {Page} : ManualStep(w)
  \/ \E task \in {"checkin", "benefits"}, accounts \in SetToAllKPermutations(Accounts) :
       AskPage(task, accounts)

\* Each task of an account begins again and again (RunsAboutDaily), and goes on.
TasksFair ==
  \A a \in Accounts :
    /\ WF_taskVars(LoopStep(a))
    /\ \A task \in TaskNames : SF_taskVars(Begin(a, task))

TasksSpec == TasksInit /\ [][TasksNext]_taskVars /\ TasksFair
----------------------------------------------------------------------------
Entry == [auth: Accounts \cup {""}, balance: Int, delta: Int]
TaskEntry == [task: TaskNames, auth: Accounts, ok: BOOLEAN]
Places ==
  {"idle", "checkin", "report", "streak", "query", "trial", "balance", "record", "redeem",
   "claim", "verify"}
WorkRec ==
  [at: Places, task: TaskNames \cup {""}, todo: Seq(Accounts), left: Seq(Rewards),
   balance: Balances \cup {0}]
RewardStates == {"closed", "open", "claimed"}
Statuses == {"OK", "ALREADY", "SKIP", "FAIL", "SUBMITTED"}

\* The types, and the ring of the ledger no larger than its capacity.
TasksTypeOK ==
  /\ ledger \in [entries: [Slots -> Entry], head: Slots, size: 0..LedgerCap]
  /\ ledger.size < LedgerCap => ledger.head = ledger.size
  /\ tasklog \in Seq(TaskEntry)
  /\ Len(tasklog) <= TaskLogMax
  /\ work \in [Workers -> WorkRec]
  /\ rewards \in [Accounts \X Rewards -> RewardStates]
  /\ stuck \cup barred \subseteq Accounts \X Rewards
  /\ expired \subseteq Accounts
  /\ failures \in 0..MaxFailures
  /\ rows \subseteq Accounts \X Rewards \X Statuses

\* Whoever appends, in whatever order, a reader of the ledger finds the newest
\* observations and each one's change since the one before of its account: the
\* ring implements TailLog.
Observations == INSTANCE TailLog WITH
  Auths <- Accounts, Balances <- Balances, Cap <- LedgerCap, log <- Snapshot(ledger)
LedgerKeepsTail == Observations!Spec

\* The page says that a benefit is claimed only when the upstream has it so,
\* though it may have answered 200 for nothing, and though the loop claims at
\* the same time.
PageTellsTruth ==
  \A row \in rows : row[3] \in {"OK", "ALREADY"} => rewards[<<row[1], row[2]>>] = "claimed"

\* A reward the task comes to before another one, and that ends it each day.
Blocked(a, r) ==
  \/ \E i, j \in DOMAIN Tiers :
       i < j /\ Tiers[j] = r /\ <<a, Tiers[i]>> \in barred /\ Shown(a, Tiers[i])
  \/ \E i, j \in DOMAIN Kinds : i < j /\ Kinds[j] = r /\ <<a, Kinds[i]>> \in barred

\* A reward that can be had is claimed in the end, or its time runs out, unless
\* the loop's credential expires or another reward stands before it that the
\* upstream refuses with an error other than the tolerated ones: those, a
\* duplicate and too few days, may come again every day and keep the task from
\* nothing (ops_claim.go:213).
RewardsCollected ==
  \A a \in Accounts, r \in Rewards :
    Grants(a, r) ~> ~Shown(a, r) \/ Blocked(a, r) \/ a \in expired

\* What ops_benefits.go says of claimAllBenefits: all benefits that can be had
\* are claimed; so a refused one does not keep the task from the next.
AllBenefitsClaimed ==
  \A a \in Accounts, r \in Range(Kinds) : Grants(a, r) ~> ~Shown(a, r) \/ a \in expired
=============================================================================
