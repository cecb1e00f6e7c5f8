------------------------- MODULE ExecutorGatesProofs -------------------------
(***************************************************************************)
(* Proofs about ExecutorGates: its three action properties, for any        *)
(* number of requests, accounts and exits, and any thresholds and windows. *)
(* Each rests on a small invariant of its own.                             *)
(***************************************************************************)
EXTENDS ExecutorGates, Integers, TLAPS

\* Where a request can be.
Places == {"idle", "egress", "decide", "prepare", "send", "trigger", "noteEgress",
           "noteDegrade"}

\* The variables the invariants are about have their shape.
GateShape ==
  /\ pc \in [Requests -> Places]
  /\ err \in [Requests -> Classes]
  /\ fails \in [Accounts -> Nat]
  /\ left \in [Accounts -> Nat]
  /\ retry \in [Requests -> Nat]
  /\ acct \in [Requests -> Accounts \cup {None}]

\* A request under way has an account; one that is not has none.
HasAccount == \A r \in Requests : pc[r] # "idle" => acct[r] \in Accounts

\* Only a request on its way from one note to the other is counted, and its
\* error is a transport failure.
CountedIsTransport ==
  \A r \in Requests : r \in counted => pc[r] = "noteDegrade" /\ err[r] = "transport"

\* An account with an open window has no failures on its count.
WindowStartsAfresh == \A a \in Accounts : left[a] > 0 => fails[a] = 0

GateInv ==
  /\ GateShape
  /\ HasAccount
  /\ CountedIsTransport
  /\ WindowStartsAfresh

\* In the beginning no request is under way and no window is open.
LEMMA InitGateInv == Init => GateInv
<1> SUFFICES ASSUME Init PROVE GateInv
  OBVIOUS
<1>1. /\ pc = [r \in Requests |-> "idle"]
      /\ err = [r \in Requests |-> "ok"]
      /\ retry = [r \in Requests |-> 0]
      /\ acct = [r \in Requests |-> None]
      /\ counted = {}
  BY DEF Init
<1>2. /\ fails = [a \in Accounts |-> 0]
      /\ left = [a \in Accounts |-> 0]
  BY DEF Init
<1>3. GateShape
  BY <1>1, <1>2 DEF GateShape, Places, Classes
<1>4. HasAccount /\ CountedIsTransport /\ WindowStartsAfresh
  BY <1>1, <1>2 DEF HasAccount, CountedIsTransport, WindowStartsAfresh
<1>5. QED
  BY <1>3, <1>4 DEF GateInv

\* The window an upstream failure opens is a number of ticks.
LEMMA WindowIsNat ==
  ASSUME NEW n \in Nat
  PROVE  DegradeWindow(n) \in Nat
  BY GateAssumption DEF DegradeWindow

\* Finish clears what a request holds and nothing of another request.
LEMMA FinishShape ==
  ASSUME GateInv, NEW r \in Requests, Finish(r)
  PROVE  /\ pc' \in [Requests -> Places]
         /\ err' \in [Requests -> Classes]
         /\ retry' \in [Requests -> Nat]
         /\ acct' \in [Requests -> Accounts \cup {None}]
         /\ HasAccount'
         /\ CountedIsTransport'
<1> USE DEF GateInv, GateShape, Finish, Places, Classes
<1>1. /\ pc' \in [Requests -> Places]
      /\ err' \in [Requests -> Classes]
  OBVIOUS
<1>2. /\ retry' \in [Requests -> Nat]
      /\ acct' \in [Requests -> Accounts \cup {None}]
  OBVIOUS
<1>3. HasAccount'
  BY DEF HasAccount
<1>4. CountedIsTransport'
  BY DEF CountedIsTransport
<1>5. QED
  BY <1>1, <1>2, <1>3, <1>4

\* A step of a request before its notes leaves both gates of this module alone.
LEMMA MoveGateInv ==
  ASSUME GateInv, NEW r \in Requests, NEW p \in Places, p # "idle",
         pc[r] \notin {"idle", "noteDegrade"},
         pc' = [pc EXCEPT ![r] = p],
         err' \in [Requests -> Classes], retry' \in [Requests -> Nat],
         \A q \in Requests \ {r} : err'[q] = err[q],
         UNCHANGED <<fails, left, acct, counted>>
  PROVE  GateInv'
<1> USE DEF GateInv, GateShape
<1>1. GateShape'
  OBVIOUS
<1>2. HasAccount'
  BY DEF HasAccount
<1>3. CountedIsTransport'
  BY DEF CountedIsTransport
<1>4. WindowStartsAfresh'
  BY DEF WindowStartsAfresh
<1>5. QED
  BY <1>1, <1>2, <1>3, <1>4

\* Execute begins: the request gets an account.
LEMMA EnterGateInv ==
  ASSUME GateInv, NEW r \in Requests, NEW a \in Accounts, Enter(r, a)
  PROVE  GateInv'
<1> USE DEF GateInv, GateShape, Enter, gates, Places
<1>1. GateShape'
  OBVIOUS
<1>2. HasAccount'
  BY DEF HasAccount
<1>3. CountedIsTransport'
  BY DEF CountedIsTransport
<1>4. WindowStartsAfresh'
  BY DEF WindowStartsAfresh
<1>5. QED
  BY <1>1, <1>2, <1>3, <1>4

\* Egress.note counts a request only if its error is a transport failure.
LEMMA NoteEgressGateInv ==
  ASSUME GateInv, NEW r \in Requests, NoteEgress(r)
  PROVE  GateInv'
<1> USE DEF GateInv, GateShape
<1>1. /\ pc[r] = "noteEgress"
      /\ pc' = [pc EXCEPT ![r] = "noteDegrade"]
      /\ UNCHANGED <<fails, left, acct, err, retry>>
      /\ \/ err[r] = "transport" /\ counted' = counted \cup {r}
         \/ counted' = counted
  BY DEF NoteEgress
<1>2. GateShape'
  BY <1>1 DEF Places
<1>3. HasAccount'
  BY <1>1 DEF HasAccount
<1>4. CountedIsTransport'
  BY <1>1 DEF CountedIsTransport
<1>5. WindowStartsAfresh'
  BY <1>1 DEF WindowStartsAfresh
<1>6. QED
  BY <1>2, <1>3, <1>4, <1>5

\* What Degrade.note does to the gate, by the class of the error.
LEMMA NoteDegradeCases ==
  ASSUME GateInv, NEW r \in Requests, NoteDegrade(r)
  PROVE  \/ UNCHANGED <<fails, left>>
         \/ /\ err[r] = "ok"
            /\ fails' = [fails EXCEPT ![acct[r]] = 0]
            /\ left' = [left EXCEPT ![acct[r]] = 0]
         \/ /\ err[r] = "known"
            /\ left[acct[r]] = 0
            /\ fails' = [fails EXCEPT ![acct[r]] = @ + 1]
            /\ left' = left
         \/ /\ err[r] = "known"
            /\ left[acct[r]] = 0
            /\ fails' = [fails EXCEPT ![acct[r]] = 0]
            /\ left' = [left EXCEPT ![acct[r]] = DegradeWindow(retry[r])]
  BY DEF NoteDegrade, ClearAccount, CountFailure, IgnoreFailure,
         CountsAgainstAccount

\* Degrade.note opens a window only with an empty count.
LEMMA NoteDegradeGateInv ==
  ASSUME GateInv, NEW r \in Requests, NoteDegrade(r)
  PROVE  GateInv'
<1>1. Finish(r)
  BY DEF NoteDegrade
<1>2. acct[r] \in Accounts
  BY DEF NoteDegrade, GateInv, HasAccount
<1>3. DegradeWindow(retry[r]) \in Nat
  BY WindowIsNat DEF GateInv, GateShape
<1>4. fails' \in [Accounts -> Nat] /\ left' \in [Accounts -> Nat]
  BY <1>2, <1>3, NoteDegradeCases DEF GateInv, GateShape
<1>5. WindowStartsAfresh'
  BY <1>2, <1>3, NoteDegradeCases DEF GateInv, GateShape, WindowStartsAfresh
<1>6. QED
  BY <1>1, <1>4, <1>5, FinishShape DEF GateInv, GateShape

\* A tick shortens windows and does nothing else to the gate.
LEMMA TickGateInv ==
  ASSUME GateInv, Tick
  PROVE  /\ GateInv'
         /\ \A a \in Accounts : left'[a] <= left[a]
<1> USE DEF GateInv, GateShape
<1>1. /\ left' = [a \in Accounts |-> Less(left[a])]
      /\ UNCHANGED <<fails, pc, acct, err, retry, counted>>
  BY DEF Tick
<1>2. \A a \in Accounts : left'[a] \in Nat /\ left'[a] <= left[a]
  BY <1>1 DEF Less
<1>3. GateShape'
  BY <1>1, <1>2
<1>4. HasAccount' /\ CountedIsTransport'
  BY <1>1 DEF HasAccount, CountedIsTransport
<1>5. WindowStartsAfresh'
  BY <1>1, <1>2 DEF WindowStartsAfresh
<1>6. QED
  BY <1>2, <1>3, <1>4, <1>5

\* The steps of a request between its admission and its notes.
Between(r) == \/ EgressRead(r) \/ EgressAdmit(r) \/ Prepare(r)
              \/ Send(r) \/ Trigger(r)

\* They move the request on and leave the windows, the counts and the history
\* alone.
LEMMA BetweenMoves ==
  ASSUME GateInv, NEW r \in Requests, Between(r)
  PROVE  /\ GateInv'
         /\ UNCHANGED <<fails, left, counted>>
         /\ \A q \in Requests : pc[q] = "noteDegrade" => pc'[q] = "noteDegrade"
<1> USE DEF gates
<1>1. PICK p \in {"decide", "prepare", "send", "noteEgress", "trigger"} :
        pc' = [pc EXCEPT ![r] = p]
  BY DEF Between, EgressRead, EgressAdmit, Prepare, Send, Trigger, Outcome
<1>2. pc[r] \notin {"idle", "noteDegrade"}
  BY DEF Between, EgressRead, EgressAdmit, Prepare, Send, Trigger
<1>3. UNCHANGED <<fails, left, acct, counted>>
  BY DEF Between, EgressRead, EgressAdmit, Prepare, Send, Trigger
<1>4. \/ UNCHANGED <<err, retry>>
      \/ \E c \in Classes, n \in RetryAfters \cup {0} :
           /\ err' = [err EXCEPT ![r] = c]
           /\ retry' = [retry EXCEPT ![r] = n]
  BY DEF Between, EgressRead, EgressAdmit, Prepare, Send, Trigger, Outcome, Classes
<1>5. /\ err' \in [Requests -> Classes]
      /\ retry' \in [Requests -> Nat]
      /\ \A q \in Requests \ {r} : err'[q] = err[q]
  <2>1. CASE UNCHANGED <<err, retry>>
    BY <2>1 DEF GateInv, GateShape
  <2>2. ASSUME NEW c \in Classes, NEW n \in RetryAfters \cup {0},
               err' = [err EXCEPT ![r] = c], retry' = [retry EXCEPT ![r] = n]
        PROVE  /\ err' \in [Requests -> Classes]
               /\ retry' \in [Requests -> Nat]
               /\ \A q \in Requests \ {r} : err'[q] = err[q]
    <3>1. n \in Nat
      BY GateAssumption
    <3>2. QED
      BY <2>2, <3>1 DEF GateInv, GateShape
  <2>3. QED
    BY <1>4, <2>1, <2>2
<1>6. GateInv'
  BY <1>1, <1>2, <1>3, <1>5, MoveGateInv DEF Places
<1>7. \A q \in Requests : pc[q] = "noteDegrade" => pc'[q] = "noteDegrade"
  BY <1>1, <1>2 DEF GateInv, GateShape
<1>8. QED
  BY <1>3, <1>6, <1>7

\* One step of the system, in the cases the theorems distinguish.
LEMMA NextCases ==
  ASSUME Next
  PROVE  \/ Tick
         \/ \E r \in Requests :
              \/ Between(r)
              \/ \E a \in Accounts : Enter(r, a)
              \/ EgressRefuse(r)
              \/ NoteEgress(r)
              \/ NoteDegrade(r)
  BY DEF Next, Step, Between

\* Every step preserves the invariant.
LEMMA NextGateInv == GateInv /\ [Next]_vars => GateInv'
<1> SUFFICES ASSUME GateInv, [Next]_vars
             PROVE  GateInv'
  OBVIOUS
<1>1. CASE UNCHANGED vars
  BY <1>1 DEF vars, gates, request, GateInv, GateShape, HasAccount,
              CountedIsTransport, WindowStartsAfresh
<1>2. CASE Tick
  BY <1>2, TickGateInv
<1>3. ASSUME NEW r \in Requests, EgressRefuse(r)
      PROVE  GateInv'
  <2>1. Finish(r) /\ UNCHANGED <<fails, left>>
    BY <1>3 DEF EgressRefuse, gates
  <2>2. QED
    BY <2>1, FinishShape DEF GateInv, GateShape, WindowStartsAfresh
<1>4. QED
  BY <1>1, <1>2, <1>3, NextCases, BetweenMoves, EnterGateInv, NoteEgressGateInv,
     NoteDegradeGateInv

\* A request that lengthened the streak of its exit never touches an account.
THEOREM LinkFailuresSpareAccounts == Spec => OneBlame
<1>1. ASSUME GateInv, Next, NEW r \in Requests,
             r \in counted, pc[r] = "noteDegrade", pc'[r] = "idle"
      PROVE  UNCHANGED <<fails, left>>
  <2>1. CASE Tick
    BY <1>1, <2>1 DEF Tick
  <2>2. ASSUME NEW q \in Requests, NoteDegrade(q)
        PROVE  UNCHANGED <<fails, left>>
    <3>1. q = r
      BY <1>1, <2>2 DEF NoteDegrade, Finish, GateInv, GateShape
    <3>2. err[q] = "transport"
      BY <1>1, <3>1 DEF GateInv, CountedIsTransport
    <3>3. QED
      BY <1>1, <2>2, <3>2, NoteDegradeCases
  <2>3. ASSUME NEW q \in Requests, NEW a \in Accounts, Enter(q, a)
        PROVE  UNCHANGED <<fails, left>>
    BY <2>3 DEF Enter, gates
  <2>4. ASSUME NEW q \in Requests, EgressRefuse(q) \/ NoteEgress(q)
        PROVE  UNCHANGED <<fails, left>>
    BY <2>4 DEF EgressRefuse, NoteEgress, gates
  <2>5. QED
    BY <1>1, <2>1, <2>2, <2>3, <2>4, NextCases, BetweenMoves
<1>2. GateInv /\ [Next]_vars =>
        [\A r \in Requests :
           r \in counted /\ pc[r] = "noteDegrade" /\ pc'[r] = "idle" =>
             UNCHANGED <<fails, left>>]_vars
  BY <1>1
<1>3. QED
  BY <1>2, InitGateInv, NextGateInv, PTL DEF Spec, Safety, OneBlame

\* No failure lengthens an open window or counts towards the next one.
THEOREM OpenWindowsOnlyShrink == Spec => WindowNotExtended
<1>1. ASSUME GateInv, Next, NEW a \in Accounts, left[a] > 0
      PROVE  left'[a] <= left[a] /\ fails'[a] = 0
  <2>1. left[a] \in Nat /\ fails[a] = 0
    BY <1>1 DEF GateInv, GateShape, WindowStartsAfresh
  <2>2. CASE Tick
    BY <1>1, <2>1, <2>2, TickGateInv DEF Tick
  <2>3. ASSUME NEW q \in Requests, NoteDegrade(q)
        PROVE  left'[a] <= left[a] /\ fails'[a] = 0
    <3>1. acct[q] \in Accounts
      BY <1>1, <2>3 DEF NoteDegrade, GateInv, HasAccount
    <3>2. QED
      BY <1>1, <2>1, <2>3, <3>1, NoteDegradeCases DEF GateInv, GateShape
  <2>4. ASSUME NEW q \in Requests, NEW b \in Accounts, Enter(q, b)
        PROVE  left'[a] <= left[a] /\ fails'[a] = 0
    BY <2>1, <2>4 DEF Enter, gates
  <2>5. ASSUME NEW q \in Requests, EgressRefuse(q) \/ NoteEgress(q)
        PROVE  left'[a] <= left[a] /\ fails'[a] = 0
    BY <2>1, <2>5 DEF EgressRefuse, NoteEgress, gates
  <2>6. ASSUME NEW q \in Requests, Between(q)
        PROVE  left'[a] <= left[a] /\ fails'[a] = 0
    BY <1>1, <2>1, <2>6, BetweenMoves
  <2>7. QED
    BY <1>1, <2>2, <2>3, <2>4, <2>5, <2>6, NextCases
<1>2. GateInv /\ [Next]_vars =>
        [\A a \in Accounts :
           left[a] > 0 => left'[a] <= left[a] /\ fails'[a] = 0]_vars
  BY <1>1
<1>3. QED
  BY <1>2, InitGateInv, NextGateInv, PTL DEF Spec, Safety, WindowNotExtended

-----------------------------------------------------------------------------
\* A request under way for an account with an open window was admitted before it
\* opened.
EarlyInv ==
  \A r \in Requests : pc[r] # "idle" /\ left[acct[r]] > 0 => r \in early

\* Degrade.note leaves the history in step with the windows: a window it opens is
\* younger than every other request of the account.
LEMMA NoteDegradeEarly ==
  ASSUME GateInv, EarlyInv, NEW r \in Requests, NoteDegrade(r)
  PROVE  EarlyInv'
<1> USE DEF GateInv, GateShape, EarlyInv
<1>1. /\ \A q \in Requests \ {r} : pc'[q] = pc[q] /\ acct'[q] = acct[q]
      /\ pc'[r] = "idle"
  BY DEF NoteDegrade, Finish, Places
<1>2. PICK a \in Accounts : a = acct[r]
  BY DEF NoteDegrade, HasAccount
<1>3. CASE ClearAccount(a)
  BY <1>1, <1>2, <1>3 DEF ClearAccount, HasAccount
<1>4. CASE IgnoreFailure(r)
  BY <1>1, <1>4 DEF IgnoreFailure
<1>5. CASE left[a] = 0 /\ CountFailure(r, a)
  <2>1. CASE early' = early \ {r} /\ left' = left
    BY <1>1, <2>1
  <2>2. CASE /\ left' = [left EXCEPT ![a] = DegradeWindow(retry[r])]
             /\ early' = {q \in Requests \ {r} : acct[q] = a} \cup (early \ {r})
    <3>1. ASSUME NEW q \in Requests \ {r}, pc[q] # "idle", left'[acct[q]] > 0
          PROVE  q \in early'
      <4>1. acct[q] \in Accounts
        BY <3>1 DEF HasAccount
      <4>2. QED
        BY <1>2, <2>2, <3>1, <4>1
    <3>2. QED
      BY <1>1, <3>1
  <2>3. QED
    BY <1>5, <2>1, <2>2 DEF CountFailure
<1>6. QED
  BY <1>2, <1>3, <1>4, <1>5 DEF NoteDegrade

\* A tick forgets only requests whose window has run out.
LEMMA TickEarly ==
  ASSUME GateInv, EarlyInv, Tick
  PROVE  EarlyInv'
<1>1. /\ UNCHANGED <<pc, acct>> /\ early' = {r \in early : left'[acct[r]] > 0}
      /\ left' = [a \in Accounts |-> Less(left[a])]
  BY DEF Tick
<1>2. ASSUME NEW r \in Requests, pc[r] # "idle", left'[acct[r]] > 0
      PROVE  r \in early'
  <2>1. PICK a \in Accounts : a = acct[r]
    BY <1>2 DEF GateInv, HasAccount
  <2>2. left[a] \in Nat /\ left'[a] = Less(left[a]) /\ left'[a] > 0
    BY <1>1, <1>2, <2>1 DEF GateInv, GateShape
  <2>3. left[a] > 0
    BY <2>2 DEF Less
  <2>4. QED
    BY <1>1, <1>2, <2>1, <2>3 DEF EarlyInv
<1>3. QED
  BY <1>1, <1>2 DEF EarlyInv

\* Every step keeps the history in step with the windows; Enter does because the
\* gate refuses the account while its window is open.
LEMMA NextEarlyInv == GateInv /\ EarlyInv /\ [Next]_vars => EarlyInv'
<1> SUFFICES ASSUME GateInv, EarlyInv, [Next]_vars
             PROVE  EarlyInv'
  OBVIOUS
<1> USE DEF GateInv, GateShape, EarlyInv
<1>1. CASE UNCHANGED vars
  BY <1>1 DEF vars, gates, request
<1>2. ASSUME NEW r \in Requests, NEW a \in Accounts, Enter(r, a)
      PROVE  EarlyInv'
  BY <1>2 DEF Enter, gates, Places
<1>3. ASSUME NEW r \in Requests, EgressRefuse(r)
      PROVE  EarlyInv'
  BY <1>3 DEF EgressRefuse, Finish, gates, Places
<1>4. ASSUME NEW r \in Requests, NoteEgress(r)
      PROVE  EarlyInv'
  BY <1>4 DEF NoteEgress, Places
<1>5. ASSUME NEW r \in Requests, Between(r)
      PROVE  EarlyInv'
  <2>1. PICK p \in {"decide", "prepare", "send", "noteEgress", "trigger"} :
          pc' = [pc EXCEPT ![r] = p]
    BY <1>5 DEF Between, EgressRead, EgressAdmit, Prepare, Send, Trigger, Outcome
  <2>2. pc[r] # "idle" /\ UNCHANGED <<left, acct, early>>
    BY <1>5 DEF Between, EgressRead, EgressAdmit, Prepare, Send, Trigger, gates
  <2>3. QED
    BY <2>1, <2>2
<1>6. QED
  BY <1>1, <1>2, <1>3, <1>4, <1>5, NextCases, NoteDegradeEarly, TickEarly

\* What lifts an open window is a request that was admitted before it opened.
THEOREM EarlierRequestsLift == Spec => OnlyEarlierRequestsLift
<1>1. Init => EarlyInv
  BY DEF Init, EarlyInv
<1>2. GateInv /\ EarlyInv /\ [Next]_vars =>
        [\A a \in Accounts, r \in Requests :
           left[a] > 0 /\ acct[r] = a /\ err[r] = "ok"
             /\ pc[r] = "noteDegrade" /\ pc'[r] = "idle" => r \in early]_vars
  BY DEF EarlyInv
<1>3. QED
  BY <1>1, <1>2, InitGateInv, NextGateInv, NextEarlyInv, PTL
  DEF Spec, Safety, OnlyEarlierRequestsLift

-----------------------------------------------------------------------------
\* The bounds of the gates, beyond what GateShape says.
GateBounds ==
  /\ fails \in [Accounts -> 0..DegradeThreshold - 1]
  /\ left \in [Accounts -> Windows]
  /\ streak \in [Exits -> 0..MaxStreak]
  /\ age \in [Exits -> Nat]
  /\ content \in BOOLEAN
RequestBounds ==
  /\ backoff \in [Requests -> Backoffs]
  /\ neutral \in [Requests -> BOOLEAN]
  /\ retry \in [Requests -> RetryAfters \cup {0}]
  /\ counted \subseteq Requests
  /\ early \subseteq Requests

BoundsInv == GateInv /\ GateBounds /\ RequestBounds

\* What is left of a backoff is at most the longest one, however long the streak.
LEMMA BackoffBounded ==
  ASSUME GateBounds, NEW k \in Exits
  PROVE  EgressLeft(k) \in Backoffs
<1>1. streak[k] \in Nat /\ age[k] \in Nat
  BY GateAssumption DEF GateBounds
<1>2. PICK n \in Nat :
        EgressBackoff(streak[k]) = Smaller(BackoffMax, BackoffBase * 2^n)
  <2>1. PICK n : n = IF streak[k] > EgressThreshold
                     THEN streak[k] - EgressThreshold ELSE 0
    OBVIOUS
  <2>2. n \in Nat
    BY <1>1, <2>1, GateAssumption
  <2>3. EgressBackoff(streak[k]) = Smaller(BackoffMax, BackoffBase * 2^n)
    BY <2>1 DEF EgressBackoff
  <2>4. QED
    BY <2>2, <2>3
<1>3. BackoffMax \in Nat /\ 2^n \in Int /\ BackoffBase \in Int
  BY <1>2, GateAssumption
<1>4. BackoffBase * 2^n \in Int
  BY <1>3
<1>5. EgressBackoff(streak[k]) \in Int /\ EgressBackoff(streak[k]) <= BackoffMax
  BY <1>2, <1>3, <1>4 DEF Smaller
<1>6. CASE EgressLeft(k) = 0
  BY <1>3, <1>6 DEF Backoffs
<1>7. CASE /\ age[k] < EgressBackoff(streak[k])
           /\ EgressLeft(k) = EgressBackoff(streak[k]) - age[k]
  <2>1. PICK m \in Int : m = EgressBackoff(streak[k])
    BY <1>5
  <2>2. age[k] < m /\ m <= BackoffMax /\ EgressLeft(k) = m - age[k]
    BY <1>5, <1>7, <2>1
  <2>3. QED
    BY <1>1, <1>3, <2>1, <2>2 DEF Backoffs
<1>8. QED
  BY <1>6, <1>7 DEF EgressLeft

\* A window is never longer than the cooldown, whatever Retry-After says.
LEMMA WindowBounded ==
  ASSUME NEW n \in Nat
  PROVE  DegradeWindow(n) \in Windows
BY GateAssumption DEF DegradeWindow, Windows

\* Every step keeps the bounds of the gates.
LEMMA NextGateBounds ==
  ASSUME BoundsInv, Next
  PROVE  GateBounds'
<1> USE DEF BoundsInv, GateBounds
<1>1. CASE Tick
  <2>1. \A a \in Accounts : Less(left[a]) \in Windows
    BY GateAssumption DEF Less, Windows
  <2>2. \A k \in Exits : Smaller(MaxAge, age[k] + 1) \in Nat
    BY GateAssumption DEF Smaller, MaxAge
  <2>3. QED
    BY <1>1, <2>1, <2>2 DEF Tick
<1>2. ASSUME NEW r \in Requests, NoteEgress(r)
      PROVE  GateBounds'
  <2>1. ExitOf[acct[r]] \in Exits
    BY <1>2, GateAssumption DEF NoteEgress, GateInv, HasAccount
  <2>2. PICK k \in Exits : k = ExitOf[acct[r]]
    BY <2>1
  <2>3. \E n \in 0..MaxStreak : streak' = [streak EXCEPT ![k] = n]
    <3>1. Smaller(MaxStreak, streak[k] + 1) \in 0..MaxStreak
      BY GateAssumption DEF Smaller
    <3>2. 0 \in 0..MaxStreak /\ 1 \in 0..MaxStreak
      BY GateAssumption
    <3>3. QED
      BY <1>2, <2>2, <3>1, <3>2 DEF NoteEgress
  <2>4. age' = [age EXCEPT ![k] = 0] /\ UNCHANGED <<fails, left, content>>
    BY <1>2, <2>2 DEF NoteEgress
  <2>5. QED
    BY <2>3, <2>4
<1>3. ASSUME NEW r \in Requests, NoteDegrade(r)
      PROVE  GateBounds'
  <2>1. PICK a \in Accounts : a = acct[r]
    BY <1>3 DEF NoteDegrade, GateInv, HasAccount
  <2>2. retry[r] \in Nat /\ DegradeWindow(retry[r]) \in Windows
    BY WindowBounded DEF GateInv, GateShape
  <2>3. \/ fails' = fails
        \/ \E n \in 0..DegradeThreshold - 1 : fails' = [fails EXCEPT ![a] = n]
    <3>1. fails[a] + 1 < DegradeThreshold => fails[a] + 1 \in 0..DegradeThreshold - 1
      BY GateAssumption
    <3>2. 0 \in 0..DegradeThreshold - 1
      BY GateAssumption
    <3>3. QED
      BY <1>3, <2>1, <3>1, <3>2
      DEF NoteDegrade, ClearAccount, CountFailure, IgnoreFailure
  <2>4. left' = left \/ \E n \in Windows : left' = [left EXCEPT ![a] = n]
    <3>1. 0 \in Windows
      BY GateAssumption DEF Windows
    <3>2. QED
      BY <1>3, <2>1, <2>2, <3>1
      DEF NoteDegrade, ClearAccount, CountFailure, IgnoreFailure
  <2>5. UNCHANGED <<streak, age, content>>
    BY <1>3 DEF NoteDegrade
  <2>6. QED
    BY <2>3, <2>4, <2>5
<1>4. ASSUME NEW r \in Requests,
             Between(r) \/ (\E a \in Accounts : Enter(r, a)) \/ EgressRefuse(r)
      PROVE  GateBounds'
  <2>1. UNCHANGED <<fails, left, streak, age>> /\ content' \in {content, TRUE}
    BY <1>4
    DEF Between, Enter, EgressRead, EgressRefuse, EgressAdmit, Prepare, Send, Trigger, gates
  <2>2. QED
    BY <2>1
<1>5. QED
  BY <1>1, <1>2, <1>3, <1>4, NextCases

\* Every step keeps the bounds of what the requests hold.
LEMMA NextRequestBounds ==
  ASSUME BoundsInv, Next
  PROVE  RequestBounds'
<1> USE DEF BoundsInv, RequestBounds
<1>1. 0 \in Backoffs
  BY GateAssumption DEF Backoffs
<1>2. CASE Tick
  <2>1. \A r \in Requests : Less(backoff[r]) \in Backoffs
    BY GateAssumption DEF Less, Backoffs
  <2>2. QED
    BY <1>2, <2>1 DEF Tick
<1>3. ASSUME NEW r \in Requests, Finish(r), early' \subseteq Requests
      PROVE  RequestBounds'
  BY <1>1, <1>3 DEF Finish
<1>4. ASSUME NEW r \in Requests, EgressRefuse(r) \/ NoteDegrade(r)
      PROVE  RequestBounds'
  <2>1. Finish(r) /\ early' \subseteq Requests
    BY <1>4
    DEF EgressRefuse, NoteDegrade, ClearAccount, CountFailure, IgnoreFailure
  <2>2. QED
    BY <1>3, <2>1
<1>5. ASSUME NEW r \in Requests, EgressRead(r)
      PROVE  RequestBounds'
  <2>1. ExitOf[acct[r]] \in Exits
    BY <1>5, GateAssumption DEF EgressRead, GateInv, HasAccount
  <2>2. EgressLeft(ExitOf[acct[r]]) \in Backoffs
    BY <2>1, BackoffBounded
  <2>3. QED
    BY <1>5, <2>2 DEF EgressRead
<1>6. ASSUME NEW r \in Requests,
             \/ \E a \in Accounts : Enter(r, a)
             \/ EgressAdmit(r)
             \/ NoteEgress(r)
      PROVE  RequestBounds'
  BY <1>6 DEF Enter, EgressAdmit, NoteEgress
<1>7. ASSUME NEW r \in Requests, Prepare(r) \/ Send(r) \/ Trigger(r)
      PROVE  RequestBounds'
  <2>1. UNCHANGED <<backoff, counted, early>>
    BY <1>7 DEF Prepare, Send, Trigger
  <2>2. neutral' = neutral \/ \E b \in BOOLEAN : neutral' = [neutral EXCEPT ![r] = b]
    BY <1>7 DEF Prepare, Send, Trigger, GateBounds
  <2>3. \/ retry' = retry
        \/ \E n \in RetryAfters \cup {0} : retry' = [retry EXCEPT ![r] = n]
    BY <1>7 DEF Prepare, Send, Trigger, Outcome
  <2>4. QED
    BY <2>1, <2>2, <2>3
<1>8. QED
  BY <1>2, <1>4, <1>5, <1>6, <1>7, NextCases DEF Between

\* The counts stay below their thresholds and the windows within the cooldown, for
\* any thresholds and any Retry-After.
THEOREM GateTypesHold == Spec => []GateTypeOK
<1>1. Init => BoundsInv
  <2> SUFFICES ASSUME Init PROVE BoundsInv
    OBVIOUS
  <2>1. /\ 0 \in 0..DegradeThreshold - 1 /\ 0 \in Windows /\ 0 \in Backoffs
        /\ 0 \in 0..MaxStreak
    BY GateAssumption DEF Windows, Backoffs
  <2>2. GateBounds
    BY <2>1 DEF Init, GateBounds
  <2>3. RequestBounds
    BY <2>1 DEF Init, RequestBounds
  <2>4. QED
    BY <2>2, <2>3, InitGateInv DEF BoundsInv
<1>2. BoundsInv /\ [Next]_vars => BoundsInv'
  <2>1. BoundsInv /\ UNCHANGED vars => GateBounds' /\ RequestBounds'
    BY DEF BoundsInv, GateBounds, RequestBounds, vars, gates, request
  <2>2. QED
    BY <2>1, NextGateInv, NextGateBounds, NextRequestBounds DEF BoundsInv
<1>3. BoundsInv => GateTypeOK
  BY DEF BoundsInv, GateInv, GateShape, GateBounds, RequestBounds, GateTypeOK, Places
<1>4. QED
  BY <1>1, <1>2, <1>3, PTL DEF Spec, Safety
=============================================================================
