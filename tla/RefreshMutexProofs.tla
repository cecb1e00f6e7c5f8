-------------------------- MODULE RefreshMutexProofs --------------------------
(***************************************************************************)
(* RefreshMutex is correct for every number of callers, ids and flights:   *)
(* its invariant is inductive, two refreshes of one credential never       *)
(* overlap, and a waiter only ever gets the outcome of the run it joined.  *)
(***************************************************************************)
EXTENDS RefreshMutex, TLAPS

\* The initial state satisfies the invariant: nobody leads, nothing is shared.
LEMMA InitMutexInv == MutexInit => MutexInv
  BY MutexAssumption
  DEF MutexInit, MutexInv, MutexTypeOK, OneRunPerId, LeaderOwnsEntry,
      EntryHasLeader, OneLeaderPerFlight, NoOrphanWaiter, WrittenBeforeClose,
      Leading, LeaderPCs, Outcomes

\* A call without an id touches no flight.
LEMMA DirectInv ==
  ASSUME MutexInv, NEW c \in Callers, Direct(c)
  PROVE  MutexInv'
<1> USE MutexAssumption DEF MutexInv, MutexTypeOK, Leading, LeaderPCs, Outcomes
<1>1. MutexTypeOK'
  BY DEF Direct
<1>2. OneRunPerId'
  BY DEF Direct, OneRunPerId, LeaderOwnsEntry
<1>3. LeaderOwnsEntry'
  BY DEF Direct, LeaderOwnsEntry, OneRunPerId
<1>4. EntryHasLeader'
  BY DEF Direct, EntryHasLeader, LeaderOwnsEntry, OneRunPerId
<1>5. OneLeaderPerFlight'
  BY DEF Direct, OneLeaderPerFlight, LeaderOwnsEntry
<1>6. NoOrphanWaiter'
  BY DEF Direct, NoOrphanWaiter, LeaderOwnsEntry, EntryHasLeader
<1>7. WrittenBeforeClose'
  BY DEF Direct, WrittenBeforeClose, LeaderOwnsEntry, OneLeaderPerFlight
<1>8. QED
  BY <1>1, <1>2, <1>3, <1>4, <1>5, <1>6, <1>7

\* Nor does its return.
LEMMA DirectReturnInv ==
  ASSUME MutexInv, NEW c \in Callers, NEW v \in Results, DirectReturn(c, v)
  PROVE  MutexInv'
<1> USE MutexAssumption DEF MutexInv, MutexTypeOK, Leading, LeaderPCs, Outcomes
<1>1. MutexTypeOK'
  BY DEF DirectReturn
<1>2. OneRunPerId'
  BY DEF DirectReturn, OneRunPerId, LeaderOwnsEntry
<1>3. LeaderOwnsEntry'
  BY DEF DirectReturn, LeaderOwnsEntry, OneRunPerId
<1>4. EntryHasLeader'
  BY DEF DirectReturn, EntryHasLeader, LeaderOwnsEntry, OneRunPerId
<1>5. OneLeaderPerFlight'
  BY DEF DirectReturn, OneLeaderPerFlight, LeaderOwnsEntry
<1>6. NoOrphanWaiter'
  BY DEF DirectReturn, NoOrphanWaiter, LeaderOwnsEntry, EntryHasLeader
<1>7. WrittenBeforeClose'
  BY DEF DirectReturn, WrittenBeforeClose, LeaderOwnsEntry, OneLeaderPerFlight
<1>8. QED
  BY <1>1, <1>2, <1>3, <1>4, <1>5, <1>6, <1>7

\* A caller that joins finds a leader that has yet to delete the entry.
LEMMA JoinInv ==
  ASSUME MutexInv, NEW c \in Callers, NEW id \in Ids, Join(c, id)
  PROVE  MutexInv'
<1> USE MutexAssumption DEF MutexInv, MutexTypeOK, Leading, LeaderPCs, Outcomes
<1>1. MutexTypeOK'
  BY DEF Join
<1>2. OneRunPerId'
  BY DEF Join, OneRunPerId, LeaderOwnsEntry
<1>3. LeaderOwnsEntry'
  BY DEF Join, LeaderOwnsEntry, OneRunPerId
<1>4. EntryHasLeader'
  BY DEF Join, EntryHasLeader, LeaderOwnsEntry, OneRunPerId
<1>5. OneLeaderPerFlight'
  BY DEF Join, OneLeaderPerFlight, LeaderOwnsEntry
<1>6. NoOrphanWaiter'
  <2>1. ASSUME NEW w \in Callers, w # c, pc'[w] = "wait"
        PROVE  /\ at'[w] \in Flights
               /\ \/ done'[at'[w]]
                  \/ \E d \in Callers : pc'[d] \in {"fn", "close"} /\ at'[d] = at'[w]
    <3>1. pc[w] = "wait" /\ at'[w] = at[w] /\ done' = done
      BY <2>1 DEF Join
    <3>2. ASSUME NEW d \in Callers, pc[d] \in {"fn", "close"}
          PROVE  pc'[d] = pc[d] /\ at'[d] = at[d]
      BY <3>2 DEF Join
    <3>3. QED
      BY <3>1, <3>2 DEF NoOrphanWaiter
  <2>2. /\ at'[c] \in Flights
        /\ \/ done'[at'[c]]
           \/ \E d \in Callers : pc'[d] \in {"fn", "close"} /\ at'[d] = at'[c]
    <3>1. PICK d \in Callers : Leading(d) /\ key[d] = id /\ at[d] = inflight[id]
      BY DEF Join, EntryHasLeader
    <3>2. d # c /\ pc'[d] = pc[d] /\ at'[d] = at[d] /\ at'[c] = at[d] /\ done' = done
      BY <3>1 DEF Join
    <3>3. QED
      BY <3>1, <3>2 DEF LeaderOwnsEntry, WrittenBeforeClose
  <2>3. QED
    BY <2>1, <2>2 DEF NoOrphanWaiter
<1>7. WrittenBeforeClose'
  BY DEF Join, WrittenBeforeClose, LeaderOwnsEntry, OneLeaderPerFlight
<1>8. QED
  BY <1>1, <1>2, <1>3, <1>4, <1>5, <1>6, <1>7

\* A caller leads only where no entry is, hence where no leader is, and with a
\* flight that no waiter points to.
LEMMA LeadInv ==
  ASSUME MutexInv, NEW c \in Callers, NEW id \in Ids, NEW f \in Flights, Lead(c, id, f)
  PROVE  MutexInv'
<1> USE MutexAssumption DEF MutexInv, MutexTypeOK, Leading, LeaderPCs, Outcomes
<1>1. MutexTypeOK'
  BY DEF Lead, Free
<1>2. OneRunPerId'
  BY DEF Lead, Free, OneRunPerId, LeaderOwnsEntry
<1>3. LeaderOwnsEntry'
  BY DEF Lead, Free, LeaderOwnsEntry, OneRunPerId
<1>4. EntryHasLeader'
  BY DEF Lead, Free, EntryHasLeader, LeaderOwnsEntry, OneRunPerId
<1>5. OneLeaderPerFlight'
  BY DEF Lead, Free, OneLeaderPerFlight, LeaderOwnsEntry
<1>6. NoOrphanWaiter'
  BY DEF Lead, Free, NoOrphanWaiter, LeaderOwnsEntry, EntryHasLeader
<1>7. WrittenBeforeClose'
  BY DEF Lead, Free, WrittenBeforeClose, LeaderOwnsEntry, OneLeaderPerFlight
<1>8. QED
  BY <1>1, <1>2, <1>3, <1>4, <1>5, <1>6, <1>7

\* The result is written before the channel is closed.
LEMMA FnReturnInv ==
  ASSUME MutexInv, NEW c \in Callers, NEW v \in Results, FnReturn(c, v)
  PROVE  MutexInv'
<1> USE MutexAssumption DEF MutexInv, MutexTypeOK, Leading, LeaderPCs, Outcomes
<1>1. MutexTypeOK'
  BY DEF FnReturn
<1>2. OneRunPerId'
  BY DEF FnReturn, OneRunPerId, LeaderOwnsEntry
<1>3. LeaderOwnsEntry'
  BY DEF FnReturn, LeaderOwnsEntry, OneRunPerId
<1>4. EntryHasLeader'
  BY DEF FnReturn, EntryHasLeader, LeaderOwnsEntry, OneRunPerId
<1>5. OneLeaderPerFlight'
  BY DEF FnReturn, OneLeaderPerFlight, LeaderOwnsEntry
<1>6. NoOrphanWaiter'
  BY DEF FnReturn, NoOrphanWaiter, LeaderOwnsEntry, EntryHasLeader
<1>7. WrittenBeforeClose'
  BY DEF FnReturn, WrittenBeforeClose, LeaderOwnsEntry, OneLeaderPerFlight
<1>8. QED
  BY <1>1, <1>2, <1>3, <1>4, <1>5, <1>6, <1>7

\* A panic leaves the flight as it was.
LEMMA FnPanicInv ==
  ASSUME MutexInv, NEW c \in Callers, FnPanic(c)
  PROVE  MutexInv'
<1> USE MutexAssumption DEF MutexInv, MutexTypeOK, Leading, LeaderPCs, Outcomes
<1>1. MutexTypeOK'
  BY DEF FnPanic
<1>2. OneRunPerId'
  BY DEF FnPanic, OneRunPerId, LeaderOwnsEntry
<1>3. LeaderOwnsEntry'
  BY DEF FnPanic, LeaderOwnsEntry, OneRunPerId
<1>4. EntryHasLeader'
  BY DEF FnPanic, EntryHasLeader, LeaderOwnsEntry, OneRunPerId
<1>5. OneLeaderPerFlight'
  BY DEF FnPanic, OneLeaderPerFlight, LeaderOwnsEntry
<1>6. NoOrphanWaiter'
  BY DEF FnPanic, NoOrphanWaiter, LeaderOwnsEntry, EntryHasLeader
<1>7. WrittenBeforeClose'
  BY DEF FnPanic, WrittenBeforeClose, LeaderOwnsEntry, OneLeaderPerFlight
<1>8. QED
  BY <1>1, <1>2, <1>3, <1>4, <1>5, <1>6, <1>7

\* Closing the channel satisfies every waiter of the flight.
LEMMA CloseDoneInv ==
  ASSUME MutexInv, NEW c \in Callers, CloseDone(c)
  PROVE  MutexInv'
<1> USE MutexAssumption DEF MutexInv, MutexTypeOK, Leading, LeaderPCs, Outcomes
<1>1. MutexTypeOK'
  BY DEF CloseDone
<1>2. OneRunPerId'
  BY DEF CloseDone, OneRunPerId, LeaderOwnsEntry
<1>3. LeaderOwnsEntry'
  BY DEF CloseDone, LeaderOwnsEntry, OneRunPerId
<1>4. EntryHasLeader'
  BY DEF CloseDone, EntryHasLeader, LeaderOwnsEntry, OneRunPerId
<1>5. OneLeaderPerFlight'
  BY DEF CloseDone, OneLeaderPerFlight, LeaderOwnsEntry
<1>6. NoOrphanWaiter'
  BY DEF CloseDone, NoOrphanWaiter, LeaderOwnsEntry, EntryHasLeader
<1>7. WrittenBeforeClose'
  BY DEF CloseDone, WrittenBeforeClose, LeaderOwnsEntry, OneLeaderPerFlight
<1>8. QED
  BY <1>1, <1>2, <1>3, <1>4, <1>5, <1>6, <1>7

\* The leader removes its own entry and no waiter needs it any more.
LEMMA DeleteEntryInv ==
  ASSUME MutexInv, NEW c \in Callers, DeleteEntry(c)
  PROVE  MutexInv'
<1> USE MutexAssumption DEF MutexInv, MutexTypeOK, Leading, LeaderPCs, Outcomes
<1>1. MutexTypeOK'
  BY DEF DeleteEntry, Drop
<1>2. OneRunPerId'
  BY DEF DeleteEntry, Drop, OneRunPerId, LeaderOwnsEntry
<1>3. LeaderOwnsEntry'
  BY DEF DeleteEntry, Drop, LeaderOwnsEntry, OneRunPerId
<1>4. EntryHasLeader'
  BY DEF DeleteEntry, Drop, EntryHasLeader, LeaderOwnsEntry, OneRunPerId
<1>5. OneLeaderPerFlight'
  BY DEF DeleteEntry, Drop, OneLeaderPerFlight, LeaderOwnsEntry
<1>6. NoOrphanWaiter'
  BY DEF DeleteEntry, Drop, NoOrphanWaiter, LeaderOwnsEntry, EntryHasLeader
<1>7. WrittenBeforeClose'
  BY DEF DeleteEntry, Drop, WrittenBeforeClose, LeaderOwnsEntry, OneLeaderPerFlight
<1>8. QED
  BY <1>1, <1>2, <1>3, <1>4, <1>5, <1>6, <1>7

\* A waiter that leaves is nobody's leader.
LEMMA WakeInv ==
  ASSUME MutexInv, NEW c \in Callers, Wake(c)
  PROVE  MutexInv'
<1> USE MutexAssumption DEF MutexInv, MutexTypeOK, Leading, LeaderPCs, Outcomes
<1>1. MutexTypeOK'
  <2>1. at[c] \in Flights
    BY DEF Wake, NoOrphanWaiter
  <2>2. at' \in [Callers -> Flights \cup {None}]
    BY DEF Wake, Drop
  <2>3. done' \in [Flights -> BOOLEAN] /\ res' \in [Flights -> Outcomes]
    BY <2>1 DEF Wake, Drop
  <2>4. QED
    BY <2>1, <2>2, <2>3 DEF Wake
<1>2. OneRunPerId'
  BY DEF Wake, Drop, OneRunPerId, LeaderOwnsEntry
<1>3. LeaderOwnsEntry'
  BY DEF Wake, Drop, LeaderOwnsEntry, OneRunPerId
<1>4. EntryHasLeader'
  BY DEF Wake, Drop, EntryHasLeader, LeaderOwnsEntry, OneRunPerId
<1>5. OneLeaderPerFlight'
  BY DEF Wake, Drop, OneLeaderPerFlight, LeaderOwnsEntry
<1>6. NoOrphanWaiter'
  BY DEF Wake, Drop, NoOrphanWaiter, LeaderOwnsEntry, EntryHasLeader
<1>7. WrittenBeforeClose'
  BY DEF Wake, Drop, WrittenBeforeClose, LeaderOwnsEntry, OneLeaderPerFlight
<1>8. QED
  BY <1>1, <1>2, <1>3, <1>4, <1>5, <1>6, <1>7

\* A caller that looks at its result has left its flight behind.
LEMMA TakeInv ==
  ASSUME MutexInv, NEW c \in Callers, Take(c)
  PROVE  MutexInv'
<1> USE MutexAssumption DEF MutexInv, MutexTypeOK, Leading, LeaderPCs, Outcomes
<1>1. MutexTypeOK'
  BY DEF Take, NoOrphanWaiter
<1>2. OneRunPerId'
  BY DEF Take, OneRunPerId, LeaderOwnsEntry
<1>3. LeaderOwnsEntry'
  BY DEF Take, LeaderOwnsEntry, OneRunPerId
<1>4. EntryHasLeader'
  BY DEF Take, EntryHasLeader, LeaderOwnsEntry, OneRunPerId
<1>5. OneLeaderPerFlight'
  BY DEF Take, OneLeaderPerFlight, LeaderOwnsEntry
<1>6. NoOrphanWaiter'
  BY DEF Take, NoOrphanWaiter, LeaderOwnsEntry, EntryHasLeader
<1>7. WrittenBeforeClose'
  BY DEF Take, WrittenBeforeClose, LeaderOwnsEntry, OneLeaderPerFlight
<1>8. QED
  BY <1>1, <1>2, <1>3, <1>4, <1>5, <1>6, <1>7

\* Every step of the mutex keeps the invariant: one case per action.
LEMMA NextMutexInv == MutexInv /\ [MutexNext]_mutexVars => MutexInv'
<1>1. ASSUME MutexInv, UNCHANGED mutexVars
      PROVE  MutexInv'
  BY <1>1
  DEF mutexVars, MutexInv, MutexTypeOK, OneRunPerId, LeaderOwnsEntry,
      EntryHasLeader, OneLeaderPerFlight, NoOrphanWaiter, WrittenBeforeClose,
      Leading
<1>2. ASSUME MutexInv, NEW c \in Callers, Begin(c)
      PROVE  MutexInv'
  BY <1>2, DirectInv, JoinInv, LeadInv DEF Begin
<1>3. ASSUME MutexInv, NEW c \in Callers, Proceed(c)
      PROVE  MutexInv'
  BY <1>3, DirectReturnInv, FnReturnInv, FnPanicInv, CloseDoneInv,
     DeleteEntryInv, WakeInv, TakeInv DEF Proceed
<1>4. QED
  BY <1>1, <1>2, <1>3 DEF MutexNext

\* The invariant of RefreshMutex holds in every reachable state, for any number
\* of callers, credentials and flights.
THEOREM MutexInvariant == MutexSpec => []MutexInv
<1>1. QED
  BY InitMutexInv, NextMutexInv, PTL DEF MutexSpec, MutexSafety

\* Two refreshes of one credential never overlap (the reason RefreshMutex exists).
THEOREM RefreshesDoNotOverlap == MutexSpec => []OneRunPerId
<1>1. MutexInv => OneRunPerId
  BY DEF MutexInv
<1>2. QED
  BY <1>1, MutexInvariant, PTL

\* A step leaves the result of a closed flight alone while a waiter points to it.
LEMMA NextFrozen ==
  ASSUME MutexInv, [MutexNext]_mutexVars, NEW w \in Callers,
         pc[w] = "wait", pc'[w] = "wait", done[at[w]]
  PROVE  done'[at[w]] /\ res'[at[w]] = res[at[w]]
<1> USE DEF MutexInv, MutexTypeOK
<1>1. at[w] \in Flights
  BY DEF NoOrphanWaiter
<1>2. CASE UNCHANGED mutexVars
  BY <1>2 DEF mutexVars
<1>3. ASSUME NEW c \in Callers, Begin(c)
      PROVE  done'[at[w]] /\ res'[at[w]] = res[at[w]]
  BY <1>1, <1>3 DEF Begin, Direct, Join, Lead, Free
<1>4. ASSUME NEW c \in Callers, Proceed(c)
      PROVE  done'[at[w]] /\ res'[at[w]] = res[at[w]]
  <2>1. ASSUME NEW v \in Results, FnReturn(c, v)
        PROVE  at[c] # at[w]
    BY <2>1 DEF FnReturn, WrittenBeforeClose, Leading, LeaderPCs
  <2>2. QED
    BY <1>1, <1>4, <2>1
    DEF Proceed, DirectReturn, FnReturn, FnPanic, CloseDone, DeleteEntry, Wake, Take, Drop
<1>5. QED
  BY <1>2, <1>3, <1>4 DEF MutexNext

\* What a waiter will read is final once its flight is closed.
THEOREM OutcomeIsFrozen == MutexSpec => OutcomeFrozen
<1>1. MutexInv /\ [MutexNext]_mutexVars =>
        [\A w \in Callers :
           pc[w] = "wait" /\ pc'[w] = "wait" /\ done[at[w]] =>
             done'[at[w]] /\ res'[at[w]] = res[at[w]]]_mutexVars
  BY NextFrozen
<1>2. QED
  BY <1>1, MutexInvariant, PTL DEF MutexSpec, MutexSafety, OutcomeFrozen

\* A waiter always joins a run whose leader has not left Do.
THEOREM WaitersJoinLiveRuns == MutexSpec => JoinsLiveRun
<1>1. ASSUME MutexInv, MutexNext, NEW w \in Callers,
             pc[w] = "idle", pc'[w] = "wait"
      PROVE  \E c \in Callers \ {w} :
               Leading(c) /\ key[c] = key'[w] /\ at[c] = at'[w]
  <2>1. PICK id \in Ids : Join(w, id)
    BY <1>1
    DEF MutexNext, Begin, Proceed, Direct, DirectReturn, Join, Lead, FnReturn,
        FnPanic, CloseDone, DeleteEntry, Wake, Take, MutexInv, MutexTypeOK
  <2>2. QED
    BY <1>1, <2>1
    DEF Join, MutexInv, MutexTypeOK, EntryHasLeader, Leading, LeaderPCs
<1>2. MutexInv /\ [MutexNext]_mutexVars =>
        [\A w \in Callers :
           pc[w] = "idle" /\ pc'[w] = "wait" =>
             \E c \in Callers \ {w} :
               Leading(c) /\ key[c] = key'[w] /\ at[c] = at'[w]]_mutexVars
  BY <1>1
<1>3. QED
  BY <1>2, MutexInvariant, PTL DEF MutexSpec, MutexSafety, JoinsLiveRun
===============================================================================
