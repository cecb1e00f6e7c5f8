---------------------------- MODULE ExecutorGates ----------------------------
(***************************************************************************)
(* Execute and ExecuteStream (internal/wbexecutor/executor.go) between the *)
(* three gates all requests share: DegradeGate per account (degrade.go),   *)
(* EgressGate per upstream base URL (egress.go) and ContentDegradeGate for *)
(* the whole process (prompt_degrade.go).  Both entry points have the same *)
(* control; what a response contains is reduced to the class of its error. *)
(*                                                                         *)
(* Time passes in ticks.  A deadline is kept as the ticks that are left of *)
(* it and a time stamp as the ticks that have passed since, up to where it *)
(* stops to matter, so that time needs no bound.                           *)
(***************************************************************************)
EXTENDS Naturals

CONSTANTS
  Requests,        \* goroutines that execute requests, one after the other
  Accounts,        \* AuthIDs
  Exits,           \* ChatBaseURLs
  ExitOf,          \* the base URL of the realm an account belongs to
  DegradeThreshold, DegradeCooldown,            \* 5, 10 minutes
  EgressThreshold, StreakReset,                 \* 3, 60 seconds
  BackoffBase, BackoffMax,                      \* 1 second, 15 seconds
  RetryAfters,     \* values of RetryAfterSec, 0 if the upstream gave none
  MaxStreak,       \* bound: a longer streak makes no difference to the backoff
  None             \* no account

ASSUME GateAssumption ==
  /\ ExitOf \in [Accounts -> Exits]
  /\ None \notin Accounts
  /\ {DegradeThreshold, DegradeCooldown, EgressThreshold, BackoffBase}
       \subseteq Nat \ {0}
  /\ StreakReset \in Nat
  /\ BackoffMax \in Nat /\ BackoffMax >= BackoffBase
  /\ RetryAfters \subseteq Nat
  /\ MaxStreak \in Nat /\ MaxStreak > EgressThreshold

VARIABLES
  fails,    \* DegradeGate: fails of an account
  left,     \* DegradeGate: ticks left until s.until, 0 when it has passed
  streak,   \* EgressGate: streak of an exit, 0 when it has no entry
  age,      \* EgressGate: ticks since s.last
  content,  \* ContentDegradeGate: whether its window, until midnight, is open
  pc,       \* where a request is
  acct,     \* its account
  backoff,  \* the backoff egress.enter read, what is left of it
  neutral,  \* whether its system prompt is replaced
  err,      \* the class of the error its last attempt returned
  retry,    \* and its RetryAfterSec
  counted,  \* history: requests that lengthened the streak of their exit
  early     \* history: requests of an account with an open window that were
            \* admitted before it opened

gates == <<fails, left, streak, age, content>>
request == <<pc, acct, backoff, neutral, err, retry>>
vars == <<gates, request, counted, early>>

(***************************************************************************)
(* The error classes the gates tell apart: "ok" no error; "transport"      *)
(* ErrTransport; "known" an ErrKind of degradeKnownKind; "restricted" an   *)
(* 11140 with Restricted set; "blocked" ErrContentBlocked; "other" any     *)
(* other kind made from a response, or made with no request sent at all.   *)
(***************************************************************************)
Classes == {"ok", "transport", "known", "restricted", "blocked", "other"}

Backoffs == 0..BackoffMax
Windows == 0..DegradeCooldown

GateTypeOK ==
  /\ fails \in [Accounts -> 0..DegradeThreshold - 1]
  /\ left \in [Accounts -> Windows]
  /\ streak \in [Exits -> 0..MaxStreak]
  /\ age \in [Exits -> Nat]
  /\ content \in BOOLEAN
  /\ pc \in [Requests -> {"idle", "egress", "decide", "prepare", "send",
                          "trigger", "noteEgress", "noteDegrade"}]
  /\ acct \in [Requests -> Accounts \cup {None}]
  /\ backoff \in [Requests -> Backoffs]
  /\ neutral \in [Requests -> BOOLEAN]
  /\ err \in [Requests -> Classes]
  /\ retry \in [Requests -> RetryAfters \cup {0}]
  /\ counted \subseteq Requests
  /\ early \subseteq Requests

Init ==
  /\ fails = [a \in Accounts |-> 0]
  /\ left = [a \in Accounts |-> 0]
  /\ streak = [k \in Exits |-> 0]
  /\ age = [k \in Exits |-> 0]
  /\ content = FALSE
  /\ pc = [r \in Requests |-> "idle"]
  /\ acct = [r \in Requests |-> None]
  /\ backoff = [r \in Requests |-> 0]
  /\ neutral = [r \in Requests |-> FALSE]
  /\ err = [r \in Requests |-> "ok"]
  /\ retry = [r \in Requests |-> 0]
  /\ counted = {}
  /\ early = {}

-----------------------------------------------------------------------------
(***************************************************************************)
(* The gates                                                               *)
(***************************************************************************)
Smaller(m, n) == IF m < n THEN m ELSE n

\* egressBackoff: doubled with every failure past the threshold, up to the
\* maximum.
EgressBackoff(n) ==
  Smaller(BackoffMax, BackoffBase * 2^(IF n > EgressThreshold
                                       THEN n - EgressThreshold ELSE 0))

\* What is left of the backoff of exit k.
EgressLeft(k) ==
  IF streak[k] >= EgressThreshold /\ age[k] < EgressBackoff(streak[k])
  THEN EgressBackoff(streak[k]) - age[k]
  ELSE 0

\* Wrong variant: the upstream's Retry-After is taken as it is.
RetryAfterWindow(s) == IF s > 0 THEN s ELSE DegradeCooldown

\* degradeWindow: Retry-After if the upstream gave one below the cooldown.
DegradeWindow(s) == IF s > 0 /\ s < DegradeCooldown THEN s ELSE DegradeCooldown

\* Wrong variant: a failure that has no response counts against the account.
CountsAgainstAnyone(c) == c \in {"known", "transport"}

\* degradeKnownKind; a restricted account is not counted but disabled.
CountsAgainstAccount(c) == c = "known"

-----------------------------------------------------------------------------
(***************************************************************************)
(* Admission                                                               *)
(***************************************************************************)

\* Wrong variant: Execute does not ask the account's gate.
EnterUnchecked(r, a) ==
  /\ pc[r] = "idle"
  /\ pc' = [pc EXCEPT ![r] = "egress"]
  /\ acct' = [acct EXCEPT ![r] = a]
  /\ UNCHANGED <<gates, backoff, neutral, err, retry, counted, early>>

\* Degrade.enter: in its window an account's requests fail fast, and nothing
\* else happens; otherwise the request goes on.
Enter(r, a) ==
  /\ pc[r] = "idle"
  /\ left[a] = 0
  /\ pc' = [pc EXCEPT ![r] = "egress"]
  /\ acct' = [acct EXCEPT ![r] = a]
  /\ UNCHANGED <<gates, backoff, neutral, err, retry, counted, early>>

\* Egress.enter reads streak and last under its lock.
EgressRead(r) ==
  /\ pc[r] = "egress"
  /\ backoff' = [backoff EXCEPT ![r] = EgressLeft(ExitOf[acct[r]])]
  /\ pc' = [pc EXCEPT ![r] = "decide"]
  /\ UNCHANGED <<gates, acct, neutral, err, retry, counted, early>>

\* The request is over: its local variables are gone.
Finish(r) ==
  /\ pc' = [pc EXCEPT ![r] = "idle"]
  /\ acct' = [acct EXCEPT ![r] = None]
  /\ backoff' = [backoff EXCEPT ![r] = 0]
  /\ neutral' = [neutral EXCEPT ![r] = FALSE]
  /\ err' = [err EXCEPT ![r] = "ok"]
  /\ retry' = [retry EXCEPT ![r] = 0]
  /\ counted' = counted \ {r}

\* Wrong variant: the refusal, an ErrTransport, is noted like any result.
RefuseAndNote(r) ==
  /\ pc[r] = "decide"
  /\ backoff[r] > 0
  /\ err' = [err EXCEPT ![r] = "transport"]
  /\ pc' = [pc EXCEPT ![r] = "noteEgress"]
  /\ UNCHANGED <<gates, acct, backoff, neutral, retry, counted, early>>

\* It decides after it has released the lock: the request fails fast, and is not
\* noted by any gate.
EgressRefuse(r) ==
  /\ pc[r] = "decide"
  /\ backoff[r] > 0
  /\ Finish(r)
  /\ early' = early \ {r}
  /\ UNCHANGED gates

EgressAdmit(r) ==
  /\ pc[r] = "decide"
  /\ backoff[r] = 0
  /\ pc' = [pc EXCEPT ![r] = "prepare"]
  /\ UNCHANGED <<gates, acct, backoff, neutral, err, retry, counted, early>>

-----------------------------------------------------------------------------
(***************************************************************************)
(* execute and executeStream                                               *)
(***************************************************************************)

\* The request goes to the notes with an error of class c.
Outcome(r, c, s) ==
  /\ err' = [err EXCEPT ![r] = c]
  /\ retry' = [retry EXCEPT ![r] = s]
  /\ pc' = [pc EXCEPT ![r] = "noteEgress"]

\* The body is made, with a neutral prompt while the content window is open; or
\* the model or the payload is no good and nothing is sent.
Prepare(r) ==
  /\ pc[r] = "prepare"
  /\ \/ /\ neutral' = [neutral EXCEPT ![r] = content]
        /\ pc' = [pc EXCEPT ![r] = "send"]
        /\ UNCHANGED <<err, retry>>
     \/ /\ Outcome(r, "other", 0)
        /\ UNCHANGED neutral
  /\ UNCHANGED <<gates, acct, backoff, counted, early>>

\* One upstream request ends.  A content block of the original prompt is tried
\* again, any other result is final.
Send(r) ==
  /\ pc[r] = "send"
  /\ \/ \E c \in Classes \ {"known", "blocked"} : Outcome(r, c, 0)
     \/ \E s \in RetryAfters : Outcome(r, "known", s)
     \/ neutral[r] /\ Outcome(r, "blocked", 0)
     \/ /\ ~neutral[r]
        /\ pc' = [pc EXCEPT ![r] = "trigger"]
        /\ UNCHANGED <<err, retry>>
  /\ UNCHANGED <<gates, acct, backoff, neutral, counted, early>>

\* ContentDegrade.Trigger, then the second and last attempt.
Trigger(r) ==
  /\ pc[r] = "trigger"
  /\ content' = TRUE
  /\ neutral' = [neutral EXCEPT ![r] = TRUE]
  /\ pc' = [pc EXCEPT ![r] = "send"]
  /\ UNCHANGED <<fails, left, streak, age, acct, backoff, err, retry, counted, early>>

-----------------------------------------------------------------------------
(***************************************************************************)
(* The notes                                                               *)
(***************************************************************************)

\* Egress.note: a transport failure lengthens the streak, or starts one after a
\* quiet period; everything else ends it.
NoteEgress(r) ==
  LET k == ExitOf[acct[r]]
      goesOn == streak[k] > 0 /\ age[k] <= StreakReset IN
  /\ pc[r] = "noteEgress"
  /\ pc' = [pc EXCEPT ![r] = "noteDegrade"]
  /\ age' = [age EXCEPT ![k] = 0]
  /\ \/ /\ err[r] = "transport"
        /\ streak' = [streak EXCEPT
                        ![k] = IF goesOn THEN Smaller(MaxStreak, @ + 1) ELSE 1]
        /\ counted' = counted \cup {r}
     \/ /\ err[r] # "transport"
        /\ streak' = [streak EXCEPT ![k] = 0]
        /\ UNCHANGED counted
  /\ UNCHANGED <<fails, left, content, acct, backoff, neutral, err, retry, early>>

\* A success: the account starts afresh, in its window too.
ClearAccount(a) ==
  /\ fails' = [fails EXCEPT ![a] = 0]
  /\ left' = [left EXCEPT ![a] = 0]
  /\ early' = {q \in early : acct[q] # a}

\* A failure that counts opens the window when it is the last of a run; every
\* other request of the account under way has been admitted before.
CountFailure(r, a) ==
  \/ /\ fails[a] + 1 < DegradeThreshold
     /\ fails' = [fails EXCEPT ![a] = @ + 1]
     /\ early' = early \ {r}
     /\ UNCHANGED left
  \/ /\ fails[a] + 1 >= DegradeThreshold
     /\ fails' = [fails EXCEPT ![a] = 0]
     /\ left' = [left EXCEPT ![a] = DegradeWindow(retry[r])]
     /\ early' = {q \in Requests \ {r} : acct[q] = a} \cup (early \ {r})

\* A failure that does not count, or that comes in the window.
IgnoreFailure(r) == early' = early \ {r} /\ UNCHANGED <<fails, left>>

\* Wrong variant: a failure in the window counts like any other.
NoteDegradeStacked(r) ==
  LET a == acct[r] IN
  /\ pc[r] = "noteDegrade"
  /\ \/ err[r] = "ok" /\ ClearAccount(a)
     \/ CountsAgainstAccount(err[r]) /\ CountFailure(r, a)
     \/ err[r] # "ok" /\ ~CountsAgainstAccount(err[r]) /\ IgnoreFailure(r)
  /\ Finish(r)
  /\ UNCHANGED <<streak, age, content>>

\* Degrade.note; the request returns.
NoteDegrade(r) ==
  LET a == acct[r] IN
  /\ pc[r] = "noteDegrade"
  /\ \/ err[r] = "ok" /\ ClearAccount(a)
     \/ CountsAgainstAccount(err[r]) /\ left[a] = 0 /\ CountFailure(r, a)
     \/ /\ err[r] # "ok"
        /\ CountsAgainstAccount(err[r]) => left[a] > 0
        /\ IgnoreFailure(r)
  /\ Finish(r)
  /\ UNCHANGED <<streak, age, content>>

-----------------------------------------------------------------------------
Less(n) == IF n > 0 THEN n - 1 ELSE 0

\* Where the age of a streak stops to matter.
MaxAge == StreakReset + BackoffMax + 1

\* A tick of the clock, which may cross midnight; windows that run out forget
\* which requests were admitted before them.
Tick ==
  /\ left' = [a \in Accounts |-> Less(left[a])]
  /\ age' = [k \in Exits |-> IF streak[k] = 0 THEN 0
                             ELSE Smaller(MaxAge, age[k] + 1)]
  /\ backoff' = [r \in Requests |-> Less(backoff[r])]
  /\ content' \in {content, FALSE}
  /\ early' = {r \in early : left'[acct[r]] > 0}
  /\ UNCHANGED <<fails, streak, pc, acct, neutral, err, retry, counted>>

Step(r) ==
  \/ \E a \in Accounts : Enter(r, a)
  \/ EgressRead(r)
  \/ EgressRefuse(r)
  \/ EgressAdmit(r)
  \/ Prepare(r)
  \/ Send(r)
  \/ Trigger(r)
  \/ NoteEgress(r)
  \/ NoteDegrade(r)

Next == Tick \/ \E r \in Requests : Step(r)

Safety == Init /\ [][Next]_vars

(***************************************************************************)
(* Time passes.  Nothing else is fair: a request may wait for the upstream *)
(* for as long as it likes, and nobody has to send one.                    *)
(***************************************************************************)
Spec == Safety /\ WF_vars(Tick)

-----------------------------------------------------------------------------
(***************************************************************************)
(* Properties                                                              *)
(***************************************************************************)

\* A failure is blamed on one side only: a request that lengthened the streak of
\* its exit leaves the window and the count of its account alone, so a broken
\* link never degrades the accounts that share it.
OneBlame ==
  [][\A r \in Requests :
       r \in counted /\ pc[r] = "noteDegrade" /\ pc'[r] = "idle" =>
         UNCHANGED <<fails, left>>]_vars

\* An open window of an account only runs down or is lifted: requests that were
\* under way when it opened and fail in it do not make it longer, nor do they
\* count for the next one.
WindowNotExtended ==
  [][\A a \in Accounts :
       left[a] > 0 => left'[a] <= left[a] /\ fails'[a] = 0]_vars

\* Only a request that was admitted before the window opened can lift it: while
\* it is open the account sends nothing new, whatever its other requests do.
OnlyEarlierRequestsLift ==
  [][\A a \in Accounts, r \in Requests :
       left[a] > 0 /\ acct[r] = a /\ err[r] = "ok"
         /\ pc[r] = "noteDegrade" /\ pc'[r] = "idle" => r \in early]_vars

\* A gate that is shut lets requests through again some time, however many are
\* refused meanwhile: refusals do not feed the backoff.  The backoff of an exit
\* need not end for that: a request that read it before the last failure was noted
\* and decides after its own reading has run out goes through all the same.
GatesReopen ==
  /\ \A a \in Accounts : left[a] > 0 ~> left[a] = 0
  /\ \A k \in Exits :
       EgressLeft(k) > 0 ~>
         \/ EgressLeft(k) = 0
         \/ \E r \in Requests : pc[r] = "prepare" /\ ExitOf[acct[r]] = k
=============================================================================
