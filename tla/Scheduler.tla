----------------------------- MODULE Scheduler ------------------------------
(***************************************************************************)
(* scheduler.pick (scheduler.go) over the state of scheduler_state.go.     *)
(* Every look at a cooldown, at the credits or at the sticky map takes the *)
(* lock for itself, so between two looks of one pick the others may change *)
(* what it has seen: other picks, a failed request that starts a cooldown, *)
(* a quota fetch that stores credits, and time.                            *)
(*                                                                         *)
(* An entry that has expired counts as absent, as it does in the code.     *)
(***************************************************************************)
EXTENDS StickyMap, ErrorClasses

CONSTANTS
  Others,     \* candidates without a name or of another provider
  Models,
  NoKey,      \* no conversation can be told from the request
  Priority,   \* the host's priority of each account
  Bodies,     \* the bodies of failed answers, as sets of texts
  Pickers     \* requests that are being placed

ASSUME SchedulerAssumption ==
  /\ Models # {}
  /\ Priority \in [Accounts -> Nat]
  /\ NoKey \notin Keys
  /\ Others \cap Accounts = {}

VARIABLES
  cooling,    \* the pairs <<account, model>> with a cooldown that is not over
  credited,   \* the accounts with a snapshot of their credits not over its TTL
  sticky,     \* the sticky map
  picks       \* one pick of each picker

schedVars == <<cooling, credited, sticky, picks>>

\* cooled, warm and moved are only read by properties: the candidates that
\* have been cooling, or not, at some moment of the pick, and whether the
\* conversation has got another account, or lost its own, since it began.
NoPick ==
  [at |-> "idle", model |-> CHOOSE m \in Models : TRUE, key |-> NoKey, cands |-> {}, left |-> {},
   usable |-> {}, answer |-> NoAccount, cooled |-> {}, warm |-> {}, moved |-> FALSE]

SchedInit ==
  /\ cooling = {}
  /\ credited = {}
  /\ sticky = EmptyMap
  /\ picks = [p \in Pickers |-> NoPick]

IsCoolingDown(a, model) == <<a, model>> \in cooling
GetCredits(a) == a \in credited
Own(asked) == asked \cap Accounts
Placing(p) == picks[p].at # "idle"
AccountOf(l, k) == IF k \in DOMAIN l.m THEN l.m[k] ELSE NoAccount

Step(p, at, now) ==
  /\ picks[p].at = at
  /\ picks' = [picks EXCEPT ![p] = now]

\* Step 1: a request whose candidates are none of ours is left to the host at
\* once, and nothing of it stays.
Arrive(p) ==
  /\ ~Placing(p)
  /\ \E asked \in SUBSET (Accounts \cup Others), model \in Models, key \in Keys \cup {NoKey} :
       LET own == Own(asked)
           cold == {a \in own : IsCoolingDown(a, model)}
       IN /\ own # {}
          /\ picks' = [picks EXCEPT ![p] =
               [NoPick EXCEPT !.at = "scan", !.model = model, !.key = key, !.cands = own,
                              !.left = own, !.cooled = cold, !.warm = own \ cold,
                              !.moved = key \notin DOMAIN sticky.m]]
  /\ UNCHANGED <<cooling, credited, sticky>>

\* Wrong variant: the candidates found cooling by the first look are left out
\* of the second as well, and the rest is taken as usable.
ScanOnce(p) ==
  /\ \E a \in picks[p].left :
       LET left == picks[p].left \ {a}
       IN Step(p, "scan",
            CASE ~IsCoolingDown(a, picks[p].model) ->
                   [picks[p] EXCEPT !.at = "weigh", !.usable = picks[p].left, !.left = {}]
              [] IsCoolingDown(a, picks[p].model) /\ left # {} -> [picks[p] EXCEPT !.left = left]
              [] OTHER -> NoPick)
  /\ UNCHANGED <<cooling, credited, sticky>>

\* Step 2 looks for one candidate that is not cooling down.
Scan(p) ==
  /\ \E a \in picks[p].left :
       LET left == picks[p].left \ {a}
       IN Step(p, "scan",
            CASE ~IsCoolingDown(a, picks[p].model) ->
                   [picks[p] EXCEPT !.at = "sticky", !.left = {}]
              [] IsCoolingDown(a, picks[p].model) /\ left # {} -> [picks[p] EXCEPT !.left = left]
              [] OTHER -> NoPick)
  /\ UNCHANGED <<cooling, credited, sticky>>

ToFilter(p) == [picks[p] EXCEPT !.at = "filter", !.left = picks[p].cands, !.answer = NoAccount]

\* Step 3: the account of the conversation, if it is among the candidates and
\* not cooling down.  The look at the map makes the key its newest.
StickyGet(p) ==
  LET a == AccountOf(sticky, picks[p].key)
  IN /\ Step(p, "sticky",
          IF a \in picks[p].cands THEN [picks[p] EXCEPT !.at = "check", !.answer = a]
          ELSE ToFilter(p))
     /\ sticky' = Get(sticky, picks[p].key)
     /\ UNCHANGED <<cooling, credited>>

\* Wrong variant: the candidates are weighed whether the check passed or not.
StickyCheckIgnored(p) ==
  /\ Step(p, "check", ToFilter(p))
  /\ UNCHANGED <<cooling, credited, sticky>>

StickyCheck(p) ==
  /\ Step(p, "check",
       IF IsCoolingDown(picks[p].answer, picks[p].model) THEN ToFilter(p)
       ELSE [picks[p] EXCEPT !.at = "bind"])
  /\ UNCHANGED <<cooling, credited, sticky>>

\* Step 4 takes the candidates that are not cooling down ...
FilterCooling(p) ==
  /\ \E a \in picks[p].left :
       LET left == picks[p].left \ {a}
           usable == IF IsCoolingDown(a, picks[p].model) THEN picks[p].usable
                     ELSE picks[p].usable \cup {a}
       IN Step(p, "filter",
            CASE left # {} -> [picks[p] EXCEPT !.left = left, !.usable = usable]
              [] left = {} /\ usable # {} ->
                   [picks[p] EXCEPT !.at = "weigh", !.left = {}, !.usable = usable]
              [] OTHER -> NoPick)
  /\ UNCHANGED <<cooling, credited, sticky>>

Highest(accounts) == {a \in accounts : \A b \in accounts : Priority[a] >= Priority[b]}

\* ... and draws one of those whose credits are known: none has weight 0.
\* Step 5, when there is none, takes one of the highest priority.  The credits
\* are read one after the other; as nothing else is read meanwhile, any mix of
\* known and unknown that can be read so can be read at once.
Choose(p) ==
  LET known == {a \in picks[p].usable : GetCredits(a)}
  IN /\ \E a \in IF known # {} THEN known ELSE Highest(picks[p].usable) :
          Step(p, "weigh", [picks[p] EXCEPT !.at = "bind", !.usable = {}, !.answer = a])
     /\ UNCHANGED <<cooling, credited, sticky>>

\* The conversation stays with the answer, which ends the pick.
Bind(p) ==
  LET key == picks[p].key
      after == IF key = NoKey THEN sticky ELSE Set(sticky, key, picks[p].answer)
  IN /\ picks[p].at = "bind"
     /\ sticky' = after
     /\ picks' = [q \in Pickers |->
          IF q = p THEN NoPick
          ELSE [picks[q] EXCEPT !.moved = @ \/
                  (Placing(q) /\ AccountOf(after, picks[q].key) # AccountOf(sticky, picks[q].key))]]
     /\ UNCHANGED <<cooling, credited>>

Pick(p) ==
  \/ Arrive(p) \/ Scan(p) \/ StickyGet(p) \/ StickyCheck(p)
  \/ FilterCooling(p) \/ Choose(p) \/ Bind(p)

----------------------------------------------------------------------------
\* What goes on around the picks.

\* The codes a failed request can end with (executorFailure.code).
Failures == {Classify(status, body) : status \in Statuses, body \in Bodies}

\* An execute that does not stream fails for its model.
ExecuteFails(a, model) ==
  /\ "model_rate_limit" \in Failures
  /\ cooling' = cooling \cup {<<a, model>>}
  /\ picks' = [p \in Pickers |->
       IF Placing(p) /\ model = picks[p].model /\ a \in picks[p].cands
       THEN [picks[p] EXCEPT !.cooled = @ \cup {a}] ELSE picks[p]]
  /\ UNCHANGED <<credited, sticky>>

\* cooldownTTL is over.
CooldownEnds(a, model) ==
  /\ cooling' = cooling \ {<<a, model>>}
  /\ picks' = [p \in Pickers |->
       IF Placing(p) /\ model = picks[p].model /\ a \in picks[p].cands
       THEN [picks[p] EXCEPT !.warm = @ \cup {a}] ELSE picks[p]]
  /\ UNCHANGED <<credited, sticky>>

QuotaFetched(a) ==
  /\ credited' = credited \cup {a}
  /\ UNCHANGED <<cooling, sticky, picks>>

\* creditsTTL is over.
CreditsAge(a) ==
  /\ credited' = credited \ {a}
  /\ UNCHANGED <<cooling, sticky, picks>>

SchedNext ==
  \/ \E p \in Pickers : Pick(p)
  \/ \E a \in Accounts, model \in Models : ExecuteFails(a, model) \/ CooldownEnds(a, model)
  \/ \E a \in Accounts : QuotaFetched(a) \/ CreditsAge(a)

SchedSpec == SchedInit /\ [][SchedNext]_schedVars
----------------------------------------------------------------------------
\* The types, and the sticky map's list and index in step with it, whatever is
\* renewed, replaced or evicted (touch and evictOldest number them by hand).
SchedTypeOK ==
  /\ cooling \subseteq Accounts \X Models
  /\ credited \subseteq Accounts
  /\ IsMap(sticky)
  /\ Indexed(sticky)
  /\ picks \in [Pickers ->
       [at: {"idle", "scan", "sticky", "check", "filter", "weigh", "bind"},
        model: Models, key: Keys \cup {NoKey}, cands: SUBSET Accounts, left: SUBSET Accounts,
        usable: SUBSET Accounts, answer: Accounts \cup {NoAccount},
        cooled: SUBSET Accounts, warm: SUBSET Accounts, moved: BOOLEAN]]

\* A conversation's account is forgotten only for want of room, and then it is
\* the one whose last pick is the longest ago: the sticky map implements
\* RecencyMap.
Recency == INSTANCE RecencyMap WITH
  Values <- Accounts, NoValue <- NoAccount, Cap <- StickyMax,
  binds <- Bindings(sticky), older <- OlderThan(sticky)
ImplementsRecency == Recency!Spec

\* However the looks of a pick interleave with the rest, it answers a
\* candidate that was free of cooldown at some moment of the pick, and leaves
\* the choice to the host only if each candidate was cooling down at some
\* moment of it.
PickJustified ==
  [][\A p \in Pickers : Placing(p) /\ picks'[p] = NoPick =>
       IF picks[p].at = "bind" THEN picks[p].answer \in picks[p].cands \cap picks[p].warm
       ELSE picks[p].cands \subseteq picks[p].cooled]_schedVars

\* A conversation keeps its account: a pick that ends with another one had
\* its own not among the candidates or cooling down at some moment, or another
\* pick changed or evicted the binding meanwhile.
KeepsConversation ==
  \A p \in Pickers :
    picks[p].at = "bind" /\ ~picks[p].moved /\ picks[p].key # NoKey =>
      LET a == AccountOf(sticky, picks[p].key)
      IN a \in picks[p].cands \ picks[p].cooled => picks[p].answer = a
=============================================================================
