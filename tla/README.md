# TLA+ models of workbuddy-cpa

workbuddy-cpa is a plugin of the CLIProxyAPI host, loaded as a C shared library.
The host calls it through one entry point, `handleMethod` (`main.go`), from many
goroutines at once; the plugin calls the host back to read, list and save auth
files and to make HTTP requests. In between it keeps process-wide state that all
these calls and its own background goroutines share. That shared state, and the
auth files that outlive it, are what these modules are about.

## Components

| component | code | state it keeps | operations |
|---|---|---|---|
| refresh mutex | `internal/wbauth/refresh.go` | `inflight` map of flights, each with `done`, `res`, `err` | `Do` |
| credential file writers | `ops_account.go`, `auth_dispatch.go`, `executor_restricted.go`, `ops_save_merge.go` | the auth file (kept by the host), the refresh_token (kept by the upstream), `authFileWriteMu` | `runKeepalive`, `handleAuthRefresh`, `disableRestrictedAccount`, the host's own writes |
| dead sessions | `ops_disable.go` | consecutive 12153 per account, disabled accounts | `note`, `clear`, `isDisabled` |
| ops ticker | `ops_scheduler.go`, `ops_account.go`, `main.go` | `started`, `stopCh`, `spawned`, `wg`; one `run` goroutine, one `accountLoop` per account | `start`, `stop`, `spawnTickers`, the timers |
| executor gates | `internal/wbexecutor/{executor,degrade,egress,prompt_degrade}.go` | per account: failures and window; per exit: streak and time of the last failure; the content window | `enter`, `note`, `Active`, `Trigger` around `Execute` and `ExecuteStream` |
| daily wakes and tasks | `ops_account.go`, `ops_activity.go`, `ops_claim.go`, `checkin.go`, `ops_benefits.go`, `ops_trial.go`, `ops_quota.go` | the `pending` list of a loop; upstream, each account's rewards | `buildWakes`, the tasks; the page's check-in and claims |
| account scheduler | `scheduler.go`, `scheduler_state.go` | sticky LRU, model cooldowns, cached credits | `schedulerPick`, `setCooldown`, `setCredits` |
| stream pump | `internal/wbexecutor/{pump,stream,sse,toolcall_hold,truncation,normalize,usage}.go`, `host_http_stream.go` | the held tool calls of a stream, how often the host's stream was closed | `ExecuteStream`, `pumpStream`, `feed`, `Aggregate` |
| payload preparation | `internal/wbexecutor/{payload,tool_pairing,prompt_degrade,headers,blocked_diag,types}.go` | none | roles, pairing and order of the messages, token limit, tool choice, reasoning effort |
| error classification | `internal/wbexecutor/errors.go`, `executor_classify.go` | none | `Classify`, envelope codes |
| model registry | `internal/wbmodels`, `model_dispatch.go`, `management_handlers.go` | public id -> model, per account | `FetchAndRegister` for `modelsForAuth` and `modelsHandler`, `StoreWithMeta`, `Resolve`, `Efforts` |
| ledgers | `ops_ledger.go`, `ops_tasklog.go`, `ops_cost.go` | rings of the last entries, cost averages | `append`, readers |
| login, credential, realm | `internal/wbauth/{login,credential,realm}.go` | none | parsing, login poll |
| billing and quota | `billing*.go`, `quota_dispatch.go` | none | paths tried in turn, what remains of the packages |
| management pages, host bridge | the rest | none, or set once | views, proxies, envelopes |

How they interact. A ticker loop runs keepalive once a day; keepalive and the
host's `auth.refresh` go through one `RefreshMutex`, so of several refreshes of an
account one reaches the upstream. Keepalive writes the new token into the auth file
under `authFileWriteMu`, which it takes *inside* the flight; an executor goroutine
that meets an 11140 disables the account in the same file under the same lock; the
host writes that file without any lock of the plugin. Check-in and keepalive feed
`deadSessions`, which ends an account's loop and keeps it from being spawned again.
Every chat request passes the account gate and the exit gate before it is sent, and
is noted by both after; a content block opens the process-wide content window. A
streamed answer goes through the pump, which holds tool calls back until the upstream
has said how the answer ends, and to the host; an answer that is not streamed is read
whole and put together by `Aggregate`. Before all that the host asks the scheduler
which account shall serve the request; a failure of class `model_rate_limit` puts that
account's model into a cooldown the scheduler sees, and quota fetches feed it credits.
The executor then asks the registry which model the public id stands for, and the
payload is prepared with that model's effort levels. The registry is filled when the
host asks for an account's models, which it is answered after the list is stored, and
when the management page shows them, which answers the host nothing. Quota fetches, check-ins and the
page append the balance they saw to one ledger.

What makes this hard: refresh tokens that are valid once, and three writers of one
file with two locks and a fourth with none; a singleflight whose waiters outlive the
run; a ticker that is stopped and started by host calls while its goroutines are
between two looks at the stop channel; gates that are read at the start of a request
and written at its end, minutes later, by requests that were admitted under another
state; one upstream response read by two programs that should agree on it; a pick that
looks at four structures one after the other, each under a lock of its own; model lists
that are replaced under the requests that use them, and stored in one order and answered
in another; daily tasks that meet the same refusal every day. Every
hazard we know of is in `PROJECT.json`, at its line, with the
properties that watch it or the reason why none does yet.

What correctness means for each:

- refresh mutex: refreshes of one id do not overlap; a waiter gets the outcome of
  the run it joined; everyone returns.
- credential file: no writer undoes another; the file holds the token the upstream
  accepts, or it is known why not.
- dead sessions: the count is below its threshold and reset when it disables.
- ticker: a stop that returns has drained every goroutine; an account has one loop;
  a started ticker looks for accounts.
- gates: a failure is charged to the account or to the exit, never both; a window is
  not extended by stragglers; every gate reopens.
- scheduler: an account in cooldown is not picked, a conversation keeps its account.
- stream pump: a client that streams gets what one that does not gets; no half tool
  call; the host's stream is closed, and first with what really happened.
- daily wakes: a task runs every day, or nearly so, and not again and again.
- tasks: a reward that can be had is claimed, unless the upstream refuses another one
  before it, or the loop's old token; the page says only what is so.
- ledger: its readers see the newest observations, with the change of each account.
- registry: an id of the list the host has leads back to its model, as long as nobody
  has stored another list since; payload: what goes
  upstream is a conversation the upstream accepts.

## Modules

| module | models | extends |
|---|---|---|
| `RefreshMutex` | `RefreshMutex.Do` | |
| `DeadCounter` | `deadCounter` of one account, as operators on a record | |
| `CredentialFile` | the writers of the auth file | `RefreshMutex`, `DeadCounter` |
| `OpsTicker` | `opsTicker` and the account loops | `DeadCounter` |
| `ExecutorGates` | the three gates around `Execute`, `ExecuteStream` | |
| `StreamPump` | one streamed request, beside `Aggregate` on the same lines | |
| `StickyMap` | `lruMap`, as operators on a record of map, list and index | |
| `RecencyMap` | abstract: a map that forgets its least recently used key | |
| `ErrorClasses` | `Classify`, as the ordered list of its tests | |
| `Scheduler` | `schedulerPick` among cooldowns, credits and other picks | `StickyMap`, `ErrorClasses`; instantiates `RecencyMap` |
| `Subsequences` | the elements of a sequence that a loop keeps | |
| `ModelRegistry` | fetches of model lists, public ids, the store, the lookups | `Subsequences` |
| `Payload` | `PreparePayload` and what it calls, as operators | `Subsequences` |
| `RequestPath` | a request's way from the public id to the body sent | `ModelRegistry`, `Payload` |
| `DailyWakes` | when the tasks of an account run | |
| `Billing` | what remains of the packages, paths of the billing API | |
| `Ledger` | the ring of the credits ledger and the task log | |
| `TailLog` | abstract: the newest observations as a sequence | |
| `AccountTasks` | the daily tasks and the page's handlers, request by request | `Billing`, `Ledger`, `Subsequences`; instantiates `TailLog` |
| `MCRequests` | the run `requests`: `Scheduler` and `RequestPath` | both |
| `MCRefresh` | the run `refresh_calls`: `RefreshMutex` by itself and the handlers | `CredentialFile` |
| `MCUpkeep` | the run `upkeep`: `DailyWakes` and `AccountTasks` | both |
| other `MC...` | the values TLC needs that a cfg cannot write | the module they are named after |
| `UpkeepProofs` | theorems about `DailyWakes` and `AccountTasks` | both |
| other `...Proofs` | theorems and their proofs | the module they are named after |

In each module an action is a stretch of code between two points where another
goroutine can come in: a critical section, a call of the host or of the upstream, a
channel operation. Definitions keep the names of the code where they can. The
definitions named "Wrong variant" are no part of any specification: each is an action
or helper changed in the way a plausible bug would change it, kept beside the original
to show that a property notices.

### RefreshMutex

`pc` is where a caller is in `Do`, `at` the `*refreshResult` it points to, `inflight`,
`done` and `res` the fields of the code. The sections under `m.mu` are one action each
(`Join`, `Lead`, `DeleteEntry`). `CloseDone` and `DeleteEntry` are two actions because
the deferred function closes `r.done` before it takes `m.mu`: between them a caller
may still join a flight that is over. `FnPanic` leaves `r.res` and `r.err` at zero.
Flights are recycled when nothing reaches them, as by the garbage collector, which
keeps the model finite and lets a premature reuse show up as a changed outcome.

### CredentialFile

A file is the refresh_token (for the keys the plugin owns) and `disabled` (for all
keys it does not own): `mergeForeignAuthMetadata` splits a file exactly there. `NoRT`
is a credential without refresh_token, `Blank` one without access token, which
`wbauth.Parse` refuses. The upstream accepts the last token it issued; it may refuse
a good one as well, keep the old token, or rotate it while the response is lost.
`snap` is what a handler has read (`oldRaw`, `req.StorageJSON`, `saved.JSON`) and
works with until it writes. `HostStore` is the host storing the answer of
`auth.refresh`, `HostPatch` its administrator; both are external and take no lock.
`lost` and `hostWrote` are history variables. Abstracted: `authID` and `authIndex`
name the same account; a call of `auth.refresh` with an empty id (which `Do` does not
merge) and a panic of fn are modelled in `RefreshMutex` only.

### OpsTicker

A stop channel is named by the start that made it (`gen`); `closed` are those closed.
Reads of `t.stopCh` in `run` and `accountLoop` are not synchronised with the writes in
`start`: a goroutine may see the channel of any generation from the last one it is
ordered after (`seen`) to the present (`EnterSelect`). `wg.Wait` is modelled with its
rule that the counter must not be raised before all waiters of the last zero have
returned (`StopReturns`). Timers may fire whenever they are set. A task is its effect
on `deadSessions`; its requests, and which of the day's tasks is due, are left out.

### ExecutorGates

Both entry points have the same control and are one set of actions. `Enter`,
`EgressRead` and the decision on what it read are separate steps, as are the two notes
at the end: each gate has its own lock and `EgressGate.enter` judges after it has
unlocked. Responses are reduced to the classes of errors the gates tell apart. Time
passes in ticks: a deadline is the ticks left, a time stamp the ticks since, up to
where it stops to matter, so no bound on time is needed. `counted` and `early` are
history variables. Abstracted: requests without `AuthID` or base URL, which pass the
gates unseen.

### StreamPump

One request, from the goroutine of `executorExecuteStream` to the close of the host's
stream. `client` is what the chunks the host has taken add up to; `assembly` is what
`Aggregate` would have collected from the same lines, and `Assembled` the answer it
would make of that. Both readers use the same `Absorb`, one on the chunks the pump
emits, the other on those the upstream sends, so that they can be compared. A chunk is
reduced to text (a count), the arguments it brings for each call, `finish_reason` and
`usage`; arguments are halves of an object, whole when both are there in order. A step
is a line of the stream with everything `feed` and `flush` emit for it; the host may
take all of that or a first part. `""` and `null` are kept apart, because
`NormalizeChunk` maps one to the other for the pump and nobody does for `Aggregate`.

`InOrder` is an assumption about the upstream: nothing of the content follows the
finish, and nothing at all the usage. Neither reader checks it. What the code does
otherwise is visible in `feed`: calls after the finish are held again, and let go as
they are at `[DONE]`. With `FlatTail` a chunk after the finish may write its fields out
empty, as all chunks in `normalize_test.go` do. Two differences are outside the model's
properties: a stream of `[DONE]` alone is complete for the pump and an error for
`Aggregate` (`events`), and of several ids or names of one call both keep the last one
that is not empty, where the comment of `merge` says the first.

### StickyMap, RecencyMap, Scheduler

`StickyMap` has the methods of `lruMap` with their arithmetic: `Cut` and `Reindex` are
the `append` and the loop that number the keys by hand. `RecencyMap` has no list and no
index, only the relation "was used before". `Scheduler` takes `schedulerPick` apart at
its locks: one step for each look at a cooldown (`Scan`, `StickyCheck`,
`FilterCooling`), for the look at the sticky map, which also renews the key
(`StickyGet`), for the choice among credits or priorities (`Choose`) and for the binding
(`Bind`). Around it `ExecuteFails` starts a cooldown if and only if `Classify` can answer
`model_rate_limit` for a body the upstream sends, `CooldownEnds` and `CreditsAge` are
the TTLs, `QuotaFetched` the hook of a quota fetch. An entry past its TTL counts as
absent, as it does in the code. Which account of those with known credits is drawn is
left open, since no weight is 0. `cooled`, `warm` and `moved` are history variables: what
has been true at some moment of the pick.

### ModelRegistry, Payload, RequestPath

A fetch asks each user agent of the catalogue in turn; one that fails is left out of the
list (`AskUserAgent`). `Merge`, `UniquePublicModelID` and `FilterAndBuild` are pure; a
text is a sequence of words, so that a name can be another's id, an id can end in `-2`,
and the prefix of the provider can be put before a name or taken away. `Register`
replaces the account's list as a whole, and `Offer`, a later step, is the host receiving
the answer: in between other fetches may store theirs, and answers may come in another
order than the stores. A fetch of the management page (`page`, one at a time under
`s.mu`) ends with the store. `offered` is the list the host has; `latest`, a history
variable, says who has the list that is stored: the fetch that is still to answer, the
host, or nobody. The key of the registry is the host's `AuthID` for one caller and
`auth_index` for the other; the model takes them for the same. The catalogue's ids and names are assumed not to
begin with the prefix themselves (`RegistryAssumption`).

`Payload` reduces a message to its role, the ids of the calls it makes and the id it
answers. The steps of `PreparePayload` are operators composed in the code's order, as
are the neutral prompt, the token limit, the tool choice and the reasoning effort by
rank. `RequestPath` runs them on requests whose model is resolved, and whose effort
levels are read, under two locks.

### DailyWakes

The loop of one account, with time in ticks since midnight. `BuildWakes` draws a minute
for each task that applies to the realm; a wake leaves the list before its task runs and
a list that is used up is built again. Wakes at the same time run in any order. `ran` and
`missed` are history variables. Daylight saving, which moves a wake built by adding 24
hours, is left out.

`HoursAssumption` is what the table `opsDailyTasks` provides and any table would have to:
if a task and all that may be due after it run one after the other, each as long as it
may, the last still begins before midnight; and each task has another one of its realm
whose minutes all lie on one side of its own. A request to the upstream ends within 30 s
(`host_http.go:16`), a refresh within 60 s, and a task makes a few of them. The hours
of the code (9, 10, 11, 11, 12, 21, 22, 23, each with up to 29 minutes) leave room for
tasks of more than an hour.

### Billing, Ledger, TailLog, AccountTasks

A request to the upstream and what is done with its answer are one step; a worker is an
account's loop, the page, or a call for a quota, and between two requests all others may
act. `rewards` is what the upstream has: closed, open, claimed. Three kinds of refusals come
again every day: `stuck` are the rewards it shows as open and refuses as a duplicate or
for too few days, benefits it answers 200 for and credits nothing included; `barred` those it refuses
with any other error; `expired` the accounts whose loop goes on with an access token that
has run out, since a loop keeps the credential of its discovery (`Accepted`). A request
may also fail in passing (`Fails`), before or after it had its effect (`Lost`). A balance is read in one step and appended
in a later one (`Balance`, `RecordBalance`). `FetchQuota` stands for the quota RPC and
for the page's refresh, which do the same. `Ledger` has the ring with its head and size,
`TailLog` only the sequence of what a reader should find.

## What the runs check

| run | instance | shows |
|---|---|---|
| `refresh_calls` | two parts: 3 callers of `Do`, 2 ids, 3 flights; 2 keepalives and a disabling, 1 token; 106 thousand states | `MutexInv` (the inductive invariant), `OneRunPerId`, `OutcomeFrozen`, `JoinsLiveRun`, `CallsReturn`; `HandlersReturn`: the lock order cannot deadlock |
| `credential_file` | 1 keepalive, 1 refresh call, 1 disabling, the host, 3 tokens; 1.5 million | `SnapshotIsCurrent`, `SavedTokenIsCurrent`, `LagIsExplained`, `OnlyHostEnables` |
| `stale_token` | as `credential_file` | a disagreement: `NeverSendsRotatedToken` is violated |
| `blank_token` | as `credential_file` | a disagreement: `AnswersCredential` is violated |
| `ops_ticker` | 1 account with 2 loop slots, 2 runners, 2 stops, 2 starts; 183 thousand | `StopDrains`, `WgCountsGoroutines`, `TickerRuns`, `SafeWithoutOverlap`, `ComesToRest` |
| `ticker_overlap` | the same with 1 stop | a disagreement: `NoStackedLoops` is violated |
| `executor_gates` | 2 requests, 2 accounts behind 1 exit; 0.9 million | `OneBlame`, `WindowNotExtended`, `OnlyEarlierRequestsLift`, `GatesReopen` |
| `stream_pump` | 2 calls, 5 chunks of 136 kinds; 1.9 million | `StreamMatchesAssembly`, `CallsAwaitVerdict`, `FirstCloseTells`, `NothingAfterClose` |
| `stream_halves` | 2 calls, 3 chunks, `FlatTail` | a disagreement: `AssemblyDropsHalves` is violated |
| `requests` | four parts side by side: 2 picks, 3 keys, 2 accounts; 2 fetches for host or page, 2 user agents; 1 request while a list is replaced; every history of up to 5 messages; 0.4 million | `SchedTypeOK`, `KeepsConversation`, `PickJustified`, `ImplementsRecency`; `OffersResolve`; `EffortFits`; `PairedForUpstream` |
| `upkeep` | five parts: the wakes of all 8 tasks; 3 workers on a ledger of 3 entries; 3 tiers; 2 benefits; activity and trial; 0.4 million | `WakesInv` (the inductive invariant), `RunsAboutDaily`; `LedgerKeepsTail`; `RewardsCollected`; `PageTellsTruth` |
| `benefit_blocked` | the benefits of `upkeep` | a disagreement: `AllBenefitsClaimed` is violated |

The types of the variables are checked or, for `RequestPath` and `AccountTasks`,
proved. A behaviour of `refresh_calls`, `requests` or `upkeep` is one of the run's parts.
Those of the latter two share no state in the code, so this saves TLC the product of what
cannot interact; in the first, one part is `Do` alone, with a fn that may panic, and the
other the handlers that call it.

The five disagreements are described under `findings` in `PROJECT.json`. In short:

1. `handleAuthRefresh` parses the token *before* it enters `Do`. If another run ends in
   between, it leads a run of its own with the token just rotated away; the comment at
   `auth_dispatch.go:153` says this does not happen. `runKeepalive` re-reads inside fn.
2. `runKeepalive` returns a zero result without an error when there is no
   refresh_token. A host call that waits for the flight answers blank credentials.
3. A `start` while a `stop` waits lets goroutines of the old generation adopt the new
   stop channel: two loops of one account.
4. `Aggregate` lets an empty `finish_reason` overwrite `"length"` and then answers the
   half tool calls it should drop; `pumpStream`, which normalises first, drops them.
5. `claimAllBenefits` ends at the first error, so a gift that is refused every day keeps
   the compensation, whose window ends, from being claimed; the comment at
   `ops_benefits.go:120` says that all are claimed. The page's handler goes on.

`SafeWithoutOverlap` is the counterpart of the third: as long as no start comes before
the previous stop is through, none of this can happen; and `ComesToRest` says that even
then a last stop ends everything. `RewardsCollected` is the counterpart of the fifth: a
refusal that lasts, of another reward or of an old token, is its only excuse.

Some comments are not what the code does, and have no run because they are small or
because the models show it at once:

- `internal/wbmodels/entry.go:150`: the order of the catalogue does not change the
  public ids. The first of two models of one name gets the name.
- `ops_account.go:21`: each task once a day. A task in the hour where the list is used
  up may be drawn again later in that hour, and may then be left out for a day.
  `RunsAboutDaily` is the bound that holds; once a day, and no day left out, are both
  violated.
- `ops_trial.go:36`: a task may come after the access token of the discovery has run
  out, so it reads the credential anew. The trial, the activity and the keepalive do; the
  check-in, the claims and the quota snapshot do not, and fail every day from then on.
- `ops_claim.go:199`: all available tiers are claimed. The first that is granted ends
  the task; `RewardsCollected` shows that the others follow on later days, a refusal that
  lasts apart.
- `checkin.go:37`: a bare network error is not taken for an answer. `10001` is looked
  for anywhere in the text.
- `ops_ledger.go:55` and `:88`: chronological order. The time is taken before the lock,
  so two appenders may append out of it; `LedgerKeepsTail` is about the order of
  appends.

### Bounds

- Three callers are a leader, a waiter of its flight and a late one; with two ids the
  leader of one may be a waiter of the other next. A flight per caller is enough, since
  a caller points to one at a time. fn returns a token or panics, which leaves the zero
  pair: `Do` only passes on what it gets.
- One goroutine of each kind on one account: the kinds differ in what they lock and
  read, and two of one kind only meet in `RefreshMutex` or in the lock, which the other
  runs cover. Three tokens allow two rotations, so that a writer can be two behind.
  `DeadThreshold` is 2: below and at the threshold.
- Two starts suffice for an old and a new generation; two runners and two loops per
  account for one of each. `MaxStarts` is the only bound on behaviour: after it the
  ticker may stop for good, so deadlock is not checked in the ticker runs.
- The gates' constants keep the order of the code's: Retry-After is absent, below and
  above the cooldown (0, 1, 3 against 2), the streak runs below, at and past its
  threshold, the backoff reaches its maximum. `MaxStreak` caps a streak where a longer
  one makes no difference to the backoff.
- Five chunks are two halves of a call, a half of another, the finish and the usage; as
  a chunk may bring a piece of each call and the finish at once, three would do. Garbage
  lines are not bounded; the attempts are two at most by the code.
- A sticky map of two entries for three keys evicts, renews and replaces; with two
  pickers one can lose its binding to the other. `FewConversations` is a bound: while two
  picks are under way no credits are known, and one conversation is in use, or two and
  no cooldown. Credits only narrow the choice of a pick, which no property tells apart;
  a cooldown and an eviction each take one other actor.
- The catalogue has two models of one name, one named as another's id, one whose id ends
  as a suffix would, one without an id and one switched off, in lists for two user agents;
  so all branches of `UniquePublicModelID` are taken. Histories of up to five messages
  have two calls, their results in any order, a notice, an orphan and an empty id.
- A day has 96 ticks of a quarter of an hour, a task is drawn to the first or second of
  its hour and takes at most one. With ticks of five minutes and three draws TLC finds
  the same (1.0 million states, not part of the runs).
- The ledger holds three entries, so that it wraps, with at most two workers adding at a
  time (`RoomForOne`): a balance can be overtaken by one read later. One request for a
  reward fails in passing (`MaxFailures`), at any place; more would be the same again.
  Refusals that last are not bounded, and any set of rewards may meet them.
- Two fetches, each for the host or for the page: one may store or answer between any two
  steps of the other. Where a request is under way (the part "list") one fetch at a time
  replaces the list, and only the page's, since a request does not see the answer.

### Fairness

- `RefreshMutex`, `CredentialFile`: a call that has begun goes on. The refresh of a
  keepalive has a timeout of 60 s, that of a host call the context of the call, and
  `host.auth.*` returns. `sync.Mutex` serves a waiter of more than a millisecond first:
  strong fairness of taking `authFileWriteMu`. Nobody has to begin a call.
- `OpsTicker`: timers fire, tasks end. A closed channel is taken sooner or later even
  when the timer is ready as well, because `select` picks at random: strong fairness of
  `Stopped`. Nobody has to start or stop the ticker.
- `ExecutorGates`: time passes, and nothing else. In particular a request may stay in
  the upstream for ever, which is why `GatesReopen` speaks of gates and not of requests.
- `AccountTasks`: a task that has begun goes on, since its requests have timeouts (weak
  fairness of `LoopStep`), and each task begins again and again (strong fairness of
  `Begin`): `RunsAboutDaily` says so as long as the loop lives. In the parts of `upkeep` a
  loop has one task, so weak fairness of both together is the same. The upstream fails
  `MaxFailures` requests for rewards in passing and then no more, which is what "in the
  end" means; a refusal that lasts is no such failure, but an excuse in the property.
  The loops may stop, so deadlock is not checked; nor is it in `requests`, where the host
  may stop asking.
- `Scheduler`, `RequestPath`: none; nothing waits.
- `StreamPump`: none. Nothing bounds the time between two lines of the upstream, so no
  progress is claimed; `FirstCloseTells` is about requests that are over.

## What is proved

For every value of the constants that meets the named assumptions:

| theorem | says |
|---|---|
| `MutexInvariant`, `RefreshesDoNotOverlap` | `MutexInv` and `OneRunPerId` always hold |
| `OutcomeIsFrozen`, `WaitersJoinLiveRuns` | the action properties `OutcomeFrozen` and `JoinsLiveRun` |
| `SnapshotsAreCurrent`, `SavedTokensAreCurrent`, `LagsAreExplained`, `CredentialTypesHold` | the four invariants of the credential file |
| `OnlyTheHostEnables` | the action property `OnlyHostEnables` |
| `StartedTickerRuns`, `WaitGroupCounts`, `SafeUnlessOverlapped`, `TickerTypesHold` | the four invariants of the ticker |
| `StopsDrain` | the action property `StopDrains` |
| `LinkFailuresSpareAccounts`, `OpenWindowsOnlyShrink`, `EarlierRequestsLift`, `GateTypesHold` | `OneBlame`, `WindowNotExtended`, `OnlyEarlierRequestsLift`, `GateTypeOK` |
| `StreamsMatchAssembly`, `CallsWaitForVerdict` | `StreamMatchesAssembly`, `CallsAwaitVerdict`, without `FlatTail` |
| `FirstCloseIsTold`, `ClosedIsClosed`, `StreamTypesHold` | `FirstCloseTells`, `NothingAfterClose`, `StreamTypeOK` |
| `SchedulerInvariant`, `ConversationsKeepAccounts`, `PicksAreJustified` | the inductive invariant of the picks, `KeepsConversation`, `PickJustified` |
| `StickyMapInStep`, `StickyMapIsLRU` | list and index number the keys of the map; the refinement `ImplementsRecency` |
| `PathInvariant`, `OffersAlwaysResolve`, `EffortAlwaysFits` | the inductive invariant of the lists and the requests, `OffersResolve`, `EffortFits` |
| `AlwaysPaired`, `PathTypes` | `PairedForUpstream`, for histories of any length; `PathTypeOK` |
| `WakesInvariant`, `TasksRunDaily` | `WakesInv`, `RunsAboutDaily` |
| `TasksTyped`, `PageReportsTruth`, `LedgerIsTail` | `TasksTypeOK`, `PageTellsTruth`; the refinement `LedgerKeepsTail` |

So every invariant and every action property the runs check is proved, liveness apart.

The assumptions are those of the modules, none stronger than the code:

- sets of workers and accounts do not overlap and are finite where something is counted
  (`TickerAssumption`, `TasksAssumption`), a capacity is at least 1, there is a model,
  there is a kind of benefit, a package has whole numbers (`jsonNumber` through `int64`);
- `IdAssumption`, `PathAssumption`: the data is of its type, and an effort is one of
  `effortRank`;
- `RegistryAssumption`: the upstream's ids and names do not begin with "workbuddy/". One
  that did would be found under a prefix it shares with another model's public id;
- `WakesAssumption`, `HoursAssumption`: the table of hours, as described for `DailyWakes`.

The arguments:

- `OneRunPerId` is not inductive: that a leader's entry is still its own
  (`LeaderOwnsEntry`) is what keeps a second one out, and that in turn needs that two
  callers do not lead one flight (`OneLeaderPerFlight`) and that an entry has a leader
  (`EntryHasLeader`). `NoOrphanWaiter` and `WrittenBeforeClose` complete `MutexInv`.
- The actions of `CredentialFile` are built from those of `RefreshMutex`
  (`StepUsesMutex`), so that `MutexInv` holds there too. `CredentialInv` adds `HandlerInv`: a
  handler between its read and its write holds the lock (`LockHeld`) and has an account
  (`HasAccount`); a keepalive past `Do` is the leader of its flight (`RunsAsLeader`),
  so `OneRunPerId` says that nobody else can rotate the token between its refresh and
  its save (`SavesToken`, `SavedTokenIsCurrent`). The types need that a caller which takes
  a result has one (`HasResult`) and that a keepalive which saves has tries left
  (`HasTries`). `OnlyHostEnables` follows from the few actions that write at all
  (`OnlyWritersWrite`) and from `SnapshotIsCurrent`. `LagIsExplained` needs most: that
  a caller asleep in `Do` is a handler that waits for its answer (`WaitersWait`), and, for
  each handler between its refresh and its write, that what it is about to store is what the
  upstream accepts (`Explained`); a keepalive counts there only if the token it got differs
  from the one it had read, since nothing is lost when the others fail to save.
- `TickerRuns` needs that the current channel is closed by nobody but the stop that
  clears `started`, and that the runner of the current start has seen its generation.
  For the wait group, every go statement must find a goroutine that does not run
  (`FreeSlot`, and a runner per start), and the loops a discovery spawns are counted by a
  bijection. `NoOverlapInv` says what a ticker without overlap looks like: an account with
  a loop is in `spawned` and has one, a started ticker is not being stopped, and a stop
  that wakes finds the counter at zero.
- The gates' action properties follow from the types and bounds, strengthened by
  what the history variables mean: a request in `counted` carries a transport error to the
  second note, and every request under way for an account with an open window is in
  `early` (`EarlyInv`).
- `ControlInv` says for each place of the request what may have been closed and read;
  the two theorems about closes follow. `DataInv` is the coupling of the two readers:
  before the finish what is held is all of `assembly`'s calls and the client has none
  (`Agree`), after it the client has `Assembled`'s and nothing is held. It rests on a
  few lemmas about `Merge` and `DropTruncated`, and on `~FlatTail`: `stream_halves`
  shows that the theorem is false otherwise. The types (`TypesInv`) need no such thing.
- `SchedInv` says what a pick may still rely on after it has looked: its `left` and
  `usable` are among its candidates (`Narrowed`), the history has each candidate as it
  is now (`Watched`), those it has passed over have been cooling and those it kept have
  not (`Seen`), and an account that is not the conversation's own is excused
  (`Honoured`). `KeepsConversation` alone is not inductive: only what was seen at the
  earlier looks makes the answer at `Bind` right. For the refinement, `Get` and `Set`
  keep list and index in step, and the order of the list is shown to be the relation of
  `RecencyMap` after each.
- The list of an account is what one build made of one list of models (`IsBucket`). The
  entries the host has may well be of another build; what `RegistryInv` says is that the
  fetch that is to answer with the stored list (`Holds`), and the host once it has been
  answered by it, have the entries of the build the bucket is of (`Match`), however many
  other fetches store and answer in between. That a build gives each model a public id of its own
  (`Builds`) needs that the merged list has no id twice (`DistinctIds`, kept by
  `MergeDistinct`), and that `UniquePublicModelID` finds a free suffix (`FreeSuffix`: n
  taken ids cannot be n + 1 different ones). Since all public ids begin with the prefix
  and no name does, an id without prefix is never another one's id (`Finds`).
- For `PairedForUpstream` each step of `PreparePayload` has a lemma of what it leaves of
  a history: `Repacked` (no message that was not there, and the results of a history in
  order next to their calls; `ClosedOn` says that behind a pack the history is in order
  by itself), `Cleaned` (calls and results have the same ids, and results are still
  next to their calls), `Headed` (a system message in front parts nothing) and
  `NoticesDropped` for the neutral prompt. `Prepared` and `Neutralized` put them together.
- `EffortFits` needs that a model has one public id in a list, so that the levels found
  by the public id are all the levels of the model (`BucketShape`); `Current` says what
  a request knows as long as nobody replaced its list.
- `FilterAndBuild`, `RepackToolResultBlocks` and `Remaining` are recursive functions. The
  induction that their values exist and what they are is done without the library's
  induction theorems: of the lengths for which the claim fails the least one (`Least`,
  `LeastOf`) has a predecessor for which it holds, a contradiction.
- `RunsAboutDaily` is far from inductive. `WakesInv` has five parts. `WithinADay`: the
  pending wakes lie within a day of each other, and before the next turn of those already
  gone. `TwiceAtMost`: a task that has run twice today, or once and is to run again, has
  no minutes left to be drawn, or not before the list is used up. `MissedOnce`: a task
  left out yesterday ran today or is still to come today. `BeforeMidnight`: what
  must still run today, at its longest, is through by midnight (here `HoursAssumption`
  enters). `Fresh`: before the loop's first list nothing has run. The steps that cross
  midnight are proved apart from those that do not (`WakeToday`, `WakeTomorrow`,
  `EndsToday`, `EndsTomorrow`), and the end of a list (`EndsList`), where all minutes
  are drawn anew, uses that a list is never used up with work of today still owed.
- `TasksTypeOK` is `TasksInv` with the bounds of ring, log and failures (`BooksInv`).
- `TasksInv` has the work of each worker typed (`WorkInv`), the ring in shape (`Ring`), and
  the page's rows true (`RowsInv`), which needs that a claimed reward stays claimed
  (`ClaimedStays`). For the refinement `RecordTail` computes the snapshot after an append,
  before and after the ring is full, and `DeltaIsChange` shows that the search backwards
  round the ring finds the same entry as the search in the sequence.

Model-checked only:

- liveness, which is out of this prover's reach: `CallsReturn`, `HandlersReturn`,
  `ComesToRest`, `GatesReopen`, `RewardsCollected`;
- the five disagreements, which are counterexamples;
- that the hours of the code meet `HoursAssumption`: TLC evaluates it for ticks of a
  quarter of an hour.

## Not modelled

- Login and the parsing of credentials: one poll per call, no state in the plugin.
- The cost average of `ops_cost.go`, which is floating point; `Retry-After` and the
  time of a rate reset, whose results `ExecutorGates` takes as inputs.
- The C ABI, envelopes and dispatch, headers, wording, the log of blocked requests, the
  web page; handlers that only read (`streakHandler`, `benefitsHandler`,
  `toPluginModelInfo` and the views, `modelsHandler` excepted, which stores).
- In the stream: the cost samples, the 1 MB limits and the reads of the host's stream
  below a line.
- What the models leave open is in `PROJECT.json` under `hazards`, with a note:
  places where no source says what is meant, what no code of the plugin could prevent, and
  what depends on the host.

## Plan

1. Done: the refresh mutex, the credential file, the ticker, the gates, the pump; the
   scheduler over its sticky map; the registry, the payload and the way of a request; the
   wakes, the tasks, the ledger; two refinements to abstract specifications; proofs of all
   invariants and action properties the runs check.
2. Left to prove: an abstract specification of the model lists, stored and offered, and the refinement
   of the dead-session count.
3. Left to model: the limits of 1 MB on lines and bodies, once a property tells them
   apart.
