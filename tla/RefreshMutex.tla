---------------------------- MODULE RefreshMutex ----------------------------
(***************************************************************************)
(* RefreshMutex.Do (internal/wbauth/refresh.go): concurrent refreshes of   *)
(* one credential are merged into one run of fn, and the callers that came *)
(* late wait on r.done and return r.res, r.err.                            *)
(*                                                                         *)
(* A flight is a *refreshResult on the heap.  Flights are recycled as the  *)
(* garbage collector does: a flight that neither a caller nor the inflight *)
(* map can reach is free.  The short sections under m.mu are single        *)
(* actions; closing r.done and deleting the entry are two actions, because *)
(* the deferred function does the first before it takes m.mu again.        *)
(***************************************************************************)
EXTENDS FiniteSets

CONSTANTS
  Callers,   \* the goroutines that call Do
  Ids,       \* the credential ids, without the empty one
  NoId,      \* the empty id, for which Do merges nothing
  Flights,   \* the refreshResult objects
  Results,   \* the (RefreshResult, error) pairs fn may return
  Zero,      \* the zero pair: no credential and a nil error
  Panicked,  \* a call of Do left by a panic of fn
  None       \* no flight, no value

ASSUME MutexAssumption ==
  /\ NoId \notin Ids
  /\ None \notin Flights
  /\ None \notin Results
  /\ Panicked \notin Results \cup {Zero, None}
  /\ Zero # None

VARIABLES
  inflight,  \* m.inflight: the flight registered for an id, or None
  done,      \* whether r.done is closed
  res,       \* r.res and r.err
  pc,        \* where a caller is in Do
  key,       \* the id a caller passed to Do
  at,        \* the flight a caller points to
  ret        \* what a call returned that the caller has not looked at yet

mutexVars == <<inflight, done, res, pc, key, at, ret>>

Outcomes == Results \cup {Zero}

\* Where the caller that registered a flight can be until it leaves Do.
LeaderPCs == {"fn", "close", "delete"}

Leading(c) == pc[c] \in LeaderPCs

\* Wrong variant: objects recycled through a pool as soon as the map drops them.
PooledFree(f) == \A id \in Ids : inflight[id] # f

\* No caller and no entry of the map reaches f.
Free(f) == /\ \A c \in Callers : at[c] # f
           /\ \A id \in Ids : inflight[id] # f

\* Caller c lets go of its flight; one that nobody points to any more is
\* collected, which here clears what it held.
Drop(c) ==
  LET f == at[c] IN
  /\ at' = [at EXCEPT ![c] = None]
  /\ IF \E d \in Callers \ {c} : at[d] = f
     THEN UNCHANGED <<done, res>>
     ELSE /\ done' = [done EXCEPT ![f] = FALSE]
          /\ res' = [res EXCEPT ![f] = Zero]

-----------------------------------------------------------------------------
MutexTypeOK ==
  /\ inflight \in [Ids -> Flights \cup {None}]
  /\ done \in [Flights -> BOOLEAN]
  /\ res \in [Flights -> Outcomes]
  /\ pc \in [Callers -> LeaderPCs \cup {"idle", "direct", "wait", "returned"}]
  /\ key \in [Callers -> Ids \cup {NoId}]
  /\ at \in [Callers -> Flights \cup {None}]
  /\ ret \in [Callers -> Outcomes \cup {Panicked, None}]

MutexInit ==
  /\ inflight = [id \in Ids |-> None]
  /\ done = [f \in Flights |-> FALSE]
  /\ res = [f \in Flights |-> Zero]
  /\ pc = [c \in Callers |-> "idle"]
  /\ key = [c \in Callers |-> NoId]
  /\ at = [c \in Callers |-> None]
  /\ ret = [c \in Callers |-> None]

-----------------------------------------------------------------------------
(***************************************************************************)
(* Wrong variants of the actions below, for the runs that show which       *)
(* property would notice the bug.  None of them is part of MutexNext.      *)
(***************************************************************************)

\* The registration does not look whether a flight is there already.
LeadUnchecked(c, id, f) ==
  /\ pc[c] = "idle"
  /\ Free(f)
  /\ inflight' = [inflight EXCEPT ![id] = f]
  /\ done' = [done EXCEPT ![f] = FALSE]
  /\ res' = [res EXCEPT ![f] = Zero]
  /\ pc' = [pc EXCEPT ![c] = "fn"]
  /\ key' = [key EXCEPT ![c] = id]
  /\ at' = [at EXCEPT ![c] = f]
  /\ UNCHANGED ret

\* The leader returns its result and forgets to store it in r.
FnReturnUnstored(c, v) ==
  /\ pc[c] = "fn"
  /\ ret' = [ret EXCEPT ![c] = v]
  /\ pc' = [pc EXCEPT ![c] = "close"]
  /\ UNCHANGED <<inflight, done, res, key, at>>

\* close(r.done) after fn() instead of in the deferred function.
CloseUnlessPanicked(c) ==
  /\ pc[c] = "close"
  /\ done' = [done EXCEPT ![at[c]] = ret[c] # Panicked]
  /\ pc' = [pc EXCEPT ![c] = "delete"]
  /\ UNCHANGED <<inflight, res, key, at, ret>>

\* The entry stays in the map after the run.
LeaveEntry(c) ==
  /\ pc[c] = "delete"
  /\ pc' = [pc EXCEPT ![c] = "returned"]
  /\ at' = [at EXCEPT ![c] = None]
  /\ UNCHANGED <<inflight, done, res, key, ret>>

-----------------------------------------------------------------------------
\* Do with an empty id runs fn at once and merges nothing.
Direct(c) ==
  /\ pc[c] = "idle"
  /\ pc' = [pc EXCEPT ![c] = "direct"]
  /\ UNCHANGED <<inflight, done, res, key, at, ret>>

DirectReturn(c, v) ==
  /\ pc[c] = "direct"
  /\ pc' = [pc EXCEPT ![c] = "returned"]
  /\ ret' = [ret EXCEPT ![c] = v]
  /\ UNCHANGED <<inflight, done, res, key, at>>

\* A flight is registered for id: unlock and wait for it.
Join(c, id) ==
  /\ pc[c] = "idle"
  /\ inflight[id] # None
  /\ pc' = [pc EXCEPT ![c] = "wait"]
  /\ key' = [key EXCEPT ![c] = id]
  /\ at' = [at EXCEPT ![c] = inflight[id]]
  /\ UNCHANGED <<inflight, done, res, ret>>

\* No flight for id: allocate one, register it and run fn.
Lead(c, id, f) ==
  /\ pc[c] = "idle"
  /\ inflight[id] = None
  /\ Free(f)
  /\ inflight' = [inflight EXCEPT ![id] = f]
  /\ done' = [done EXCEPT ![f] = FALSE]
  /\ res' = [res EXCEPT ![f] = Zero]
  /\ pc' = [pc EXCEPT ![c] = "fn"]
  /\ key' = [key EXCEPT ![c] = id]
  /\ at' = [at EXCEPT ![c] = f]
  /\ UNCHANGED ret

\* fn returns: r.res and r.err are written before the deferred function.
FnReturn(c, v) ==
  /\ pc[c] = "fn"
  /\ res' = [res EXCEPT ![at[c]] = v]
  /\ ret' = [ret EXCEPT ![c] = v]
  /\ pc' = [pc EXCEPT ![c] = "close"]
  /\ UNCHANGED <<inflight, done, key, at>>

\* fn panics: the deferred function still runs, with r.res and r.err unset.
FnPanic(c) ==
  /\ pc[c] = "fn"
  /\ ret' = [ret EXCEPT ![c] = Panicked]
  /\ pc' = [pc EXCEPT ![c] = "close"]
  /\ UNCHANGED <<inflight, done, res, key, at>>

\* close(r.done), outside m.mu.
CloseDone(c) ==
  /\ pc[c] = "close"
  /\ done' = [done EXCEPT ![at[c]] = TRUE]
  /\ pc' = [pc EXCEPT ![c] = "delete"]
  /\ UNCHANGED <<inflight, res, key, at, ret>>

\* delete(m.inflight, id) under m.mu; Do returns.
DeleteEntry(c) ==
  /\ pc[c] = "delete"
  /\ inflight' = [inflight EXCEPT ![key[c]] = None]
  /\ pc' = [pc EXCEPT ![c] = "returned"]
  /\ Drop(c)
  /\ UNCHANGED <<key, ret>>

\* <-r.done returns and the waiter takes the result of the run it joined.
Wake(c) ==
  /\ pc[c] = "wait"
  /\ done[at[c]]
  /\ ret' = [ret EXCEPT ![c] = res[at[c]]]
  /\ pc' = [pc EXCEPT ![c] = "returned"]
  /\ Drop(c)
  /\ UNCHANGED <<inflight, key>>

\* The caller goes on with what Do returned.
Take(c) ==
  /\ pc[c] = "returned"
  /\ pc' = [pc EXCEPT ![c] = "idle"]
  /\ key' = [key EXCEPT ![c] = NoId]
  /\ ret' = [ret EXCEPT ![c] = None]
  /\ UNCHANGED <<inflight, done, res, at>>

Begin(c) ==
  \/ Direct(c)
  \/ \E id \in Ids : Join(c, id)
  \/ \E id \in Ids, f \in Flights : Lead(c, id, f)

\* What a call does once it has begun.
Proceed(c) ==
  \/ \E v \in Results : DirectReturn(c, v) \/ FnReturn(c, v)
  \/ FnPanic(c)
  \/ CloseDone(c)
  \/ DeleteEntry(c)
  \/ Wake(c)
  \/ Take(c)

MutexNext == \E c \in Callers : Begin(c) \/ Proceed(c)

MutexSafety == MutexInit /\ [][MutexNext]_mutexVars

(***************************************************************************)
(* fn ends: the refresh it makes has a timeout, or the context of the host *)
(* call that asked for it.  Nobody has to call Do, so Begin is not fair.   *)
(***************************************************************************)
MutexSpec == MutexSafety /\ \A c \in Callers : WF_mutexVars(Proceed(c))

-----------------------------------------------------------------------------
(***************************************************************************)
(* Properties                                                              *)
(***************************************************************************)

\* Two calls of Do with the same id are never both between registering a
\* flight and removing it: a refresh_token is sent upstream by one at a time.
OneRunPerId ==
  \A c, d \in Callers :
    Leading(c) /\ Leading(d) /\ key[c] = key[d] => c = d

\* The entry a leader will delete is its own: the deferred delete(id) never
\* removes a flight that another call registered meanwhile.
LeaderOwnsEntry ==
  \A c \in Callers :
    Leading(c) => key[c] \in Ids /\ at[c] \in Flights
                  /\ inflight[key[c]] = at[c]

\* Every registered flight has a leader that is still inside Do.
EntryHasLeader ==
  \A id \in Ids : inflight[id] # None =>
    \E c \in Callers : Leading(c) /\ key[c] = id /\ at[c] = inflight[id]

\* A waiter is never left behind: its flight is closed, or some leader is on
\* its way to close it.
NoOrphanWaiter ==
  \A w \in Callers : pc[w] = "wait" =>
    /\ at[w] \in Flights
    /\ \/ done[at[w]]
       \/ \E c \in Callers : pc[c] \in {"fn", "close"} /\ at[c] = at[w]

\* When the channel is closed the leader's outcome is already in r, so no
\* waiter can read a result that is still to be written.
WrittenBeforeClose ==
  \A c \in Callers :
    /\ pc[c] \in {"close", "delete"} /\ ret[c] \in Results
       => res[at[c]] = ret[c]
    /\ Leading(c) => (done[at[c]] <=> pc[c] = "delete")

\* The outcome a sleeping waiter will read does not change once its flight is
\* closed, even if the leader starts other refreshes before it wakes.
OutcomeFrozen ==
  [][\A w \in Callers :
       pc[w] = "wait" /\ pc'[w] = "wait" /\ done[at[w]] =>
         done'[at[w]] /\ res'[at[w]] = res[at[w]]]_mutexVars

\* A caller only reuses a run whose leader has not left Do: the result of a
\* refresh that ended before the call began is never handed out, except in
\* the window between close(r.done) and the delete.
JoinsLiveRun ==
  [][\A w \in Callers :
       pc[w] = "idle" /\ pc'[w] = "wait" =>
         \E c \in Callers \ {w} :
           Leading(c) /\ key[c] = key'[w] /\ at[c] = at'[w]]_mutexVars

\* Every call of Do returns, whatever other callers do and even if fn panics.
CallsReturn == \A c \in Callers : pc[c] # "idle" ~> pc[c] = "returned"

-----------------------------------------------------------------------------
(***************************************************************************)
(* The inductive invariant: besides the named parts, two callers that      *)
(* point to one flight cannot both lead it.                                *)
(***************************************************************************)
OneLeaderPerFlight ==
  \A c, d \in Callers : Leading(c) /\ Leading(d) /\ at[c] = at[d] => c = d

MutexInv ==
  /\ MutexTypeOK
  /\ OneRunPerId
  /\ LeaderOwnsEntry
  /\ EntryHasLeader
  /\ OneLeaderPerFlight
  /\ NoOrphanWaiter
  /\ WrittenBeforeClose
=============================================================================
