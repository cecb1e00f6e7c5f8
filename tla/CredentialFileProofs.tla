------------------------- MODULE CredentialFileProofs -------------------------
(***************************************************************************)
(* Proofs about CredentialFile, for any number of accounts, keepalives,    *)
(* host calls and disablings.  The handlers use RefreshMutex, so MutexInv  *)
(* holds of them (module RefreshMutexProofs); from it, and from who holds  *)
(* authFileWriteMu when, follow SnapshotIsCurrent and SavedTokenIsCurrent; *)
(* with the types of all locals also that only the host enables an account *)
(* and that a file that lags behind its token has an explanation.          *)
(***************************************************************************)
EXTENDS CredentialFile, RefreshMutexProofs

\* The local variables of the handlers are functions on the writers.
LocalsShape ==
  /\ DOMAIN step = Writers
  /\ DOMAIN acct = Writers
  /\ DOMAIN snap = Writers
  /\ DOMAIN fresh = Callers
  /\ DOMAIN valid = Ids
  /\ DOMAIN file = Ids

\* Who has read the file and not left holds authFileWriteMu; the refresh handler
\* never does.
LockHeld ==
  /\ \A k \in Keepers : step[k] \in {"read", "refresh", "save"} => mu = k
  /\ \A d \in Disablers : step[d] \in {"read", "save"} => mu = d
  /\ mu \notin HostCalls

\* A handler under way has an account, and one inside Do is under way.
HasAccount ==
  /\ \A w \in Writers : step[w] # "idle" => acct[w] \in Ids
  /\ \A c \in Callers :
       pc[c] # "idle" => step[c] \in {"lock", "read", "refresh", "save", "leaving",
                                    "waiting", "returned"}

\* A caller that runs fn leads the flight registered for its account.
RunsAsLeader ==
  /\ \A k \in Keepers :
       step[k] \in {"lock", "read", "refresh", "save"} =>
         pc[k] = "fn" /\ key[k] = acct[k]
  /\ \A h \in HostCalls :
       step[h] = "refresh" => pc[h] = "fn" /\ key[h] = acct[h]

\* A keepalive that saves has a token to save.
SavesToken == \A k \in Keepers : step[k] = "save" => fresh[k] \in Tokens

\* The inductive invariant of the handlers, on top of MutexInv.
HandlerInv ==
  /\ LocalsShape
  /\ LockHeld
  /\ HasAccount
  /\ RunsAsLeader
  /\ SavesToken
  /\ SnapshotIsCurrent
  /\ SavedTokenIsCurrent

CredentialInv == MutexInv /\ HandlerInv

\* Before any call nobody holds the lock and nothing has been read.
LEMMA InitCredentialInv == Init => CredentialInv
<1> SUFFICES ASSUME Init PROVE CredentialInv
  OBVIOUS
<1>1. MutexInv
  BY InitMutexInv DEF Init
<1>2. /\ step = [w \in Writers |-> "idle"]
      /\ acct = [w \in Writers |-> None]
      /\ snap = [w \in Writers |-> Unread]
      /\ fresh = [c \in Callers |-> NoRT]
      /\ valid \in [Ids -> {1, NoRT}]
      /\ DOMAIN file = Ids
      /\ mu = None
      /\ pc = [c \in Callers |-> "idle"]
  BY DEF Init, MutexInit
<1>3. LocalsShape
  BY <1>2 DEF LocalsShape
<1>4. LockHeld /\ HasAccount /\ RunsAsLeader /\ SavesToken /\ SavedTokenIsCurrent
  BY <1>2, CredentialAssumption
  DEF LockHeld, HasAccount, RunsAsLeader, SavesToken, SavedTokenIsCurrent, Writers
<1>5. SnapshotIsCurrent
  BY <1>2 DEF SnapshotIsCurrent, HoldsSnapshot
<1>6. QED
  BY <1>1, <1>3, <1>4, <1>5 DEF CredentialInv, HandlerInv

\* The kinds of writers do not overlap.
LEMMA WriterKinds ==
  /\ \A k \in Keepers : k \in Callers /\ k \in Writers /\ k \notin HostCalls
  /\ \A h \in HostCalls : h \in Callers /\ h \in Writers /\ h \notin Keepers
  /\ \A d \in Disablers : d \in Writers /\ d \notin Callers
  /\ None \notin Writers
  BY CredentialAssumption DEF Writers

\* What of MutexInv the handlers rest on: the shape of pc and key.
LEMMA MutexTyped ==
  ASSUME CredentialInv
  PROVE  /\ DOMAIN pc = Callers
         /\ DOMAIN key = Callers
  BY DEF CredentialInv, MutexInv, MutexTypeOK

\* Two callers that run fn do not work for the same account.
LEMMA RunsAlone ==
  ASSUME CredentialInv, NEW c \in Callers, NEW d \in Callers,
         pc[c] = "fn", pc[d] = "fn", key[c] = key[d]
  PROVE  c = d
  BY DEF CredentialInv, MutexInv, OneRunPerId, Leading, LeaderPCs

\* A keepalive begins.
LEMMA KeepaliveCallInv ==
  ASSUME CredentialInv, NEW k \in Keepers, NEW a \in Ids, KeepaliveCall(k, a)
  PROVE  HandlerInv'
<1> USE WriterKinds, MutexTyped
    DEF CredentialInv, HandlerInv, LocalsShape, KeepaliveCall, Join, Lead
<1>1. LocalsShape'
  OBVIOUS
<1>2. LockHeld'
  BY DEF LockHeld
<1>3. HasAccount'
  <2>1. \A w \in Writers : step'[w] # "idle" => acct'[w] \in Ids
    BY DEF HasAccount
  <2>2. \A c \in Callers :
          pc'[c] # "idle" => step'[c] \in {"lock", "read", "refresh", "save",
                                           "leaving", "waiting", "returned"}
    <3>1. TAKE c \in Callers
    <3>2. c \in Writers
      BY DEF Writers
    <3>3. CASE c = k
      BY <3>2, <3>3 DEF HasAccount
    <3>4. CASE c # k
      BY <3>2, <3>4 DEF HasAccount
    <3>5. QED
      BY <3>3, <3>4
  <2>3. QED
    BY <2>1, <2>2 DEF HasAccount
<1>4. RunsAsLeader'
  BY DEF RunsAsLeader
<1>5. SavesToken'
  BY DEF SavesToken
<1>6. SnapshotIsCurrent'
  BY DEF SnapshotIsCurrent, HoldsSnapshot, LockHeld, HasAccount
<1>7. SavedTokenIsCurrent'
  BY RunsAlone DEF SavedTokenIsCurrent, LockHeld, RunsAsLeader, HasAccount
<1>8. QED
  BY <1>1, <1>2, <1>3, <1>4, <1>5, <1>6, <1>7

\* It gets the lock.
LEMMA KeepaliveLockInv ==
  ASSUME CredentialInv, NEW k \in Keepers, KeepaliveLock(k)
  PROVE  HandlerInv'
<1> USE WriterKinds, MutexTyped
    DEF CredentialInv, HandlerInv, LocalsShape, KeepaliveLock, mutexVars
<1>1. LocalsShape'
  OBVIOUS
<1>2. LockHeld'
  BY DEF LockHeld
<1>3. HasAccount'
  BY DEF HasAccount
<1>4. RunsAsLeader'
  BY DEF RunsAsLeader
<1>5. SavesToken'
  BY DEF SavesToken
<1>6. SnapshotIsCurrent'
  BY DEF SnapshotIsCurrent, HoldsSnapshot, LockHeld, HasAccount
<1>7. SavedTokenIsCurrent'
  BY RunsAlone DEF SavedTokenIsCurrent, LockHeld, RunsAsLeader, HasAccount
<1>8. QED
  BY <1>1, <1>2, <1>3, <1>4, <1>5, <1>6, <1>7

\* It reads the file, and goes on or leaves.
LEMMA KeepaliveReadInv ==
  ASSUME CredentialInv, NEW k \in Keepers, KeepaliveRead(k)
  PROVE  HandlerInv'
<1> USE WriterKinds, MutexTyped
    DEF CredentialInv, HandlerInv, LocalsShape, KeepaliveRead, mutexVars, LeaveFlight,
        FnReturn, Unlock
<1>1. LocalsShape'
  OBVIOUS
<1>2. LockHeld'
  BY DEF LockHeld
<1>3. HasAccount'
  <2>1. \A w \in Writers : step'[w] # "idle" => acct'[w] \in Ids
    BY DEF HasAccount
  <2>2. \A c \in Callers :
          pc'[c] # "idle" => step'[c] \in {"lock", "read", "refresh", "save",
                                           "leaving", "waiting", "returned"}
    <3>1. TAKE c \in Callers
    <3>2. c \in Writers
      BY DEF Writers
    <3>3. CASE c = k
      BY <3>2, <3>3 DEF HasAccount
    <3>4. CASE c # k
      BY <3>2, <3>4 DEF HasAccount
    <3>5. QED
      BY <3>3, <3>4
  <2>3. QED
    BY <2>1, <2>2 DEF HasAccount
<1>4. RunsAsLeader'
  BY DEF RunsAsLeader
<1>5. SavesToken'
  BY DEF SavesToken
<1>6. SnapshotIsCurrent'
  BY DEF SnapshotIsCurrent, HoldsSnapshot, LockHeld, HasAccount
<1>7. SavedTokenIsCurrent'
  BY RunsAlone DEF SavedTokenIsCurrent, LockHeld, RunsAsLeader, HasAccount
<1>8. QED
  BY <1>1, <1>2, <1>3, <1>4, <1>5, <1>6, <1>7

\* It leaves without a refresh.
LEMMA KeepaliveUnavailableInv ==
  ASSUME CredentialInv, NEW k \in Keepers, KeepaliveUnavailable(k)
  PROVE  HandlerInv'
<1> USE WriterKinds, MutexTyped
    DEF CredentialInv, HandlerInv, LocalsShape, KeepaliveUnavailable, LeaveFlight,
        FnReturn, Unlock
<1>1. LocalsShape'
  OBVIOUS
<1>2. LockHeld'
  BY DEF LockHeld
<1>3. HasAccount'
  BY DEF HasAccount
<1>4. RunsAsLeader'
  BY DEF RunsAsLeader
<1>5. SavesToken'
  BY DEF SavesToken
<1>6. SnapshotIsCurrent'
  BY DEF SnapshotIsCurrent, HoldsSnapshot, LockHeld, HasAccount
<1>7. SavedTokenIsCurrent'
  BY RunsAlone DEF SavedTokenIsCurrent, LockHeld, RunsAsLeader, HasAccount
<1>8. QED
  BY <1>1, <1>2, <1>3, <1>4, <1>5, <1>6, <1>7

\* Its refresh rotates the token of its own account.
LEMMA KeepaliveRefreshInv ==
  ASSUME CredentialInv, NEW k \in Keepers, KeepaliveRefresh(k)
  PROVE  HandlerInv'
<1> USE WriterKinds, MutexTyped
    DEF CredentialInv, HandlerInv, LocalsShape, KeepaliveRefresh, UpstreamAccepts,
        mutexVars
<1>1. LocalsShape'
  OBVIOUS
<1>2. LockHeld'
  BY DEF LockHeld
<1>3. HasAccount'
  BY DEF HasAccount
<1>4. RunsAsLeader'
  BY DEF RunsAsLeader
<1>5. SavesToken'
  BY DEF SavesToken
<1>6. SnapshotIsCurrent'
  BY DEF SnapshotIsCurrent, HoldsSnapshot, LockHeld, HasAccount
<1>7. SavedTokenIsCurrent'
  BY RunsAlone DEF SavedTokenIsCurrent, LockHeld, RunsAsLeader, HasAccount
<1>8. QED
  BY <1>1, <1>2, <1>3, <1>4, <1>5, <1>6, <1>7

\* Its refresh fails, after a rotation or without one.
LEMMA KeepaliveRefreshFailsInv ==
  ASSUME CredentialInv, NEW k \in Keepers, KeepaliveRefreshFails(k)
  PROVE  HandlerInv'
<1> USE WriterKinds, MutexTyped
    DEF CredentialInv, HandlerInv, LocalsShape, KeepaliveRefreshFails, UpstreamFails,
        LeaveFlight, FnReturn, Unlock
<1>1. LocalsShape'
  OBVIOUS
<1>2. LockHeld'
  BY DEF LockHeld
<1>3. HasAccount'
  BY DEF HasAccount
<1>4. RunsAsLeader'
  BY DEF RunsAsLeader
<1>5. SavesToken'
  BY DEF SavesToken
<1>6. SnapshotIsCurrent'
  BY DEF SnapshotIsCurrent, HoldsSnapshot, LockHeld, HasAccount
<1>7. SavedTokenIsCurrent'
  BY RunsAlone DEF SavedTokenIsCurrent, LockHeld, RunsAsLeader, HasAccount
<1>8. QED
  BY <1>1, <1>2, <1>3, <1>4, <1>5, <1>6, <1>7

\* It saves and releases the lock.
LEMMA KeepaliveSaveInv ==
  ASSUME CredentialInv, NEW k \in Keepers, KeepaliveSave(k)
  PROVE  HandlerInv'
<1> USE WriterKinds, MutexTyped
    DEF CredentialInv, HandlerInv, LocalsShape, KeepaliveSave, LeaveFlight, FnReturn,
        Unlock
<1>1. LocalsShape'
  OBVIOUS
<1>2. LockHeld'
  BY DEF LockHeld
<1>3. HasAccount'
  BY DEF HasAccount
<1>4. RunsAsLeader'
  BY DEF RunsAsLeader
<1>5. SavesToken'
  BY DEF SavesToken
<1>6. SnapshotIsCurrent'
  BY DEF SnapshotIsCurrent, HoldsSnapshot, LockHeld, HasAccount
<1>7. SavedTokenIsCurrent'
  BY RunsAlone DEF SavedTokenIsCurrent, LockHeld, RunsAsLeader, HasAccount
<1>8. QED
  BY <1>1, <1>2, <1>3, <1>4, <1>5, <1>6, <1>7

\* It fails to save, and tries again or leaves.
LEMMA KeepaliveSaveFailsInv ==
  ASSUME CredentialInv, NEW k \in Keepers, KeepaliveSaveFails(k)
  PROVE  HandlerInv'
<1> USE WriterKinds, MutexTyped
    DEF CredentialInv, HandlerInv, LocalsShape, KeepaliveSaveFails, mutexVars,
        LeaveFlight, FnReturn, Unlock
<1>1. LocalsShape'
  OBVIOUS
<1>2. LockHeld'
  BY DEF LockHeld
<1>3. HasAccount'
  <2>1. \A w \in Writers : step'[w] # "idle" => acct'[w] \in Ids
    BY DEF HasAccount
  <2>2. \A c \in Callers :
          pc'[c] # "idle" => step'[c] \in {"lock", "read", "refresh", "save",
                                           "leaving", "waiting", "returned"}
    <3>1. TAKE c \in Callers
    <3>2. c \in Writers
      BY DEF Writers
    <3>3. CASE c = k
      BY <3>2, <3>3 DEF HasAccount
    <3>4. CASE c # k
      BY <3>2, <3>4 DEF HasAccount
    <3>5. QED
      BY <3>3, <3>4
  <2>3. QED
    BY <2>1, <2>2 DEF HasAccount
<1>4. RunsAsLeader'
  BY DEF RunsAsLeader
<1>5. SavesToken'
  BY DEF SavesToken
<1>6. SnapshotIsCurrent'
  BY DEF SnapshotIsCurrent, HoldsSnapshot, LockHeld, HasAccount
<1>7. SavedTokenIsCurrent'
  BY RunsAlone DEF SavedTokenIsCurrent, LockHeld, RunsAsLeader, HasAccount
<1>8. QED
  BY <1>1, <1>2, <1>3, <1>4, <1>5, <1>6, <1>7

\* It ends.
LEMMA KeepaliveEndsInv ==
  ASSUME CredentialInv, NEW k \in Keepers, KeepaliveEnds(k)
  PROVE  HandlerInv'
<1> USE WriterKinds, MutexTyped
    DEF CredentialInv, HandlerInv, LocalsShape, KeepaliveEnds, Take, Leave
<1>1. LocalsShape'
  OBVIOUS
<1>2. LockHeld'
  BY DEF LockHeld
<1>3. HasAccount'
  BY DEF HasAccount
<1>4. RunsAsLeader'
  BY DEF RunsAsLeader
<1>5. SavesToken'
  BY DEF SavesToken
<1>6. SnapshotIsCurrent'
  BY DEF SnapshotIsCurrent, HoldsSnapshot, LockHeld, HasAccount
<1>7. SavedTokenIsCurrent'
  BY RunsAlone DEF SavedTokenIsCurrent, LockHeld, RunsAsLeader, HasAccount
<1>8. QED
  BY <1>1, <1>2, <1>3, <1>4, <1>5, <1>6, <1>7

\* The host calls auth.refresh.
LEMMA HostRefreshCallInv ==
  ASSUME CredentialInv, NEW h \in HostCalls, NEW a \in Ids, HostRefreshCall(h, a)
  PROVE  HandlerInv'
<1> USE WriterKinds, MutexTyped
    DEF CredentialInv, HandlerInv, LocalsShape, HostRefreshCall, mutexVars
<1>1. LocalsShape'
  OBVIOUS
<1>2. LockHeld'
  BY DEF LockHeld
<1>3. HasAccount'
  BY DEF HasAccount
<1>4. RunsAsLeader'
  BY DEF RunsAsLeader
<1>5. SavesToken'
  BY DEF SavesToken
<1>6. SnapshotIsCurrent'
  BY DEF SnapshotIsCurrent, HoldsSnapshot, LockHeld, HasAccount
<1>7. SavedTokenIsCurrent'
  BY RunsAlone DEF SavedTokenIsCurrent, LockHeld, RunsAsLeader, HasAccount
<1>8. QED
  BY <1>1, <1>2, <1>3, <1>4, <1>5, <1>6, <1>7

\* The handler calls Do.
LEMMA HostRefreshDoInv ==
  ASSUME CredentialInv, NEW h \in HostCalls, HostRefreshDo(h)
  PROVE  HandlerInv'
<1> USE WriterKinds, MutexTyped
    DEF CredentialInv, HandlerInv, LocalsShape, HostRefreshDo, Join, Lead
<1>1. LocalsShape'
  OBVIOUS
<1>2. LockHeld'
  BY DEF LockHeld
<1>3. HasAccount'
  <2>1. \A w \in Writers : step'[w] # "idle" => acct'[w] \in Ids
    BY DEF HasAccount
  <2>2. \A c \in Callers :
          pc'[c] # "idle" => step'[c] \in {"lock", "read", "refresh", "save",
                                           "leaving", "waiting", "returned"}
    <3>1. TAKE c \in Callers
    <3>2. c \in Writers
      BY DEF Writers
    <3>3. CASE c = h
      BY <3>2, <3>3 DEF HasAccount
    <3>4. CASE c # h
      BY <3>2, <3>4 DEF HasAccount
    <3>5. QED
      BY <3>3, <3>4
  <2>3. QED
    BY <2>1, <2>2 DEF HasAccount
<1>4. RunsAsLeader'
  BY DEF RunsAsLeader
<1>5. SavesToken'
  BY DEF SavesToken
<1>6. SnapshotIsCurrent'
  BY DEF SnapshotIsCurrent, HoldsSnapshot, LockHeld, HasAccount
<1>7. SavedTokenIsCurrent'
  BY RunsAlone DEF SavedTokenIsCurrent, LockHeld, RunsAsLeader, HasAccount
<1>8. QED
  BY <1>1, <1>2, <1>3, <1>4, <1>5, <1>6, <1>7

\* Its refresh rotates the token.
LEMMA HostRefreshSendInv ==
  ASSUME CredentialInv, NEW h \in HostCalls, HostRefreshSend(h)
  PROVE  HandlerInv'
<1> USE WriterKinds, MutexTyped
    DEF CredentialInv, HandlerInv, LocalsShape, HostRefreshSend, UpstreamAccepts,
        LeaveFlight, FnReturn, Unlock
<1>1. LocalsShape'
  OBVIOUS
<1>2. LockHeld'
  BY DEF LockHeld
<1>3. HasAccount'
  BY DEF HasAccount
<1>4. RunsAsLeader'
  BY DEF RunsAsLeader
<1>5. SavesToken'
  BY DEF SavesToken
<1>6. SnapshotIsCurrent'
  BY DEF SnapshotIsCurrent, HoldsSnapshot, LockHeld, HasAccount
<1>7. SavedTokenIsCurrent'
  BY RunsAlone DEF SavedTokenIsCurrent, LockHeld, RunsAsLeader, HasAccount
<1>8. QED
  BY <1>1, <1>2, <1>3, <1>4, <1>5, <1>6, <1>7

\* Its refresh fails.
LEMMA HostRefreshFailsInv ==
  ASSUME CredentialInv, NEW h \in HostCalls, HostRefreshFails(h)
  PROVE  HandlerInv'
<1> USE WriterKinds, MutexTyped
    DEF CredentialInv, HandlerInv, LocalsShape, HostRefreshFails, UpstreamFails,
        LeaveFlight, FnReturn, Unlock
<1>1. LocalsShape'
  OBVIOUS
<1>2. LockHeld'
  BY DEF LockHeld
<1>3. HasAccount'
  BY DEF HasAccount
<1>4. RunsAsLeader'
  BY DEF RunsAsLeader
<1>5. SavesToken'
  BY DEF SavesToken
<1>6. SnapshotIsCurrent'
  BY DEF SnapshotIsCurrent, HoldsSnapshot, LockHeld, HasAccount
<1>7. SavedTokenIsCurrent'
  BY RunsAlone DEF SavedTokenIsCurrent, LockHeld, RunsAsLeader, HasAccount
<1>8. QED
  BY <1>1, <1>2, <1>3, <1>4, <1>5, <1>6, <1>7

\* It answers.
LEMMA HostRefreshEndsInv ==
  ASSUME CredentialInv, NEW h \in HostCalls, HostRefreshEnds(h)
  PROVE  HandlerInv'
<1> USE WriterKinds, MutexTyped
    DEF CredentialInv, HandlerInv, LocalsShape, HostRefreshEnds, Take, Leave
<1>1. LocalsShape'
  OBVIOUS
<1>2. LockHeld'
  BY DEF LockHeld
<1>3. HasAccount'
  <2>1. \A w \in Writers : step'[w] # "idle" => acct'[w] \in Ids
    BY DEF HasAccount
  <2>2. \A c \in Callers :
          pc'[c] # "idle" => step'[c] \in {"lock", "read", "refresh", "save",
                                           "leaving", "waiting", "returned"}
    <3>1. TAKE c \in Callers
    <3>2. c \in Writers
      BY DEF Writers
    <3>3. CASE c = h
      BY <3>2, <3>3 DEF HasAccount
    <3>4. CASE c # h
      BY <3>2, <3>4 DEF HasAccount
    <3>5. QED
      BY <3>3, <3>4
  <2>3. QED
    BY <2>1, <2>2 DEF HasAccount
<1>4. RunsAsLeader'
  BY DEF RunsAsLeader
<1>5. SavesToken'
  BY DEF SavesToken
<1>6. SnapshotIsCurrent'
  BY DEF SnapshotIsCurrent, HoldsSnapshot, LockHeld, HasAccount
<1>7. SavedTokenIsCurrent'
  BY RunsAlone DEF SavedTokenIsCurrent, LockHeld, RunsAsLeader, HasAccount
<1>8. QED
  BY <1>1, <1>2, <1>3, <1>4, <1>5, <1>6, <1>7

\* The host stores the answer, without the lock.
LEMMA HostStoreInv ==
  ASSUME CredentialInv, NEW h \in HostCalls, HostStore(h)
  PROVE  HandlerInv'
<1> USE WriterKinds, MutexTyped
    DEF CredentialInv, HandlerInv, LocalsShape, HostStore, HostWrites, Leave, mutexVars
<1>1. LocalsShape'
  OBVIOUS
<1>2. LockHeld'
  BY DEF LockHeld
<1>3. HasAccount'
  BY DEF HasAccount
<1>4. RunsAsLeader'
  BY DEF RunsAsLeader
<1>5. SavesToken'
  BY DEF SavesToken
<1>6. SnapshotIsCurrent'
  BY DEF SnapshotIsCurrent, HoldsSnapshot, LockHeld, HasAccount
<1>7. SavedTokenIsCurrent'
  BY RunsAlone DEF SavedTokenIsCurrent, LockHeld, RunsAsLeader, HasAccount
<1>8. QED
  BY <1>1, <1>2, <1>3, <1>4, <1>5, <1>6, <1>7

\* The host edits its keys, without the lock.
LEMMA HostPatchInv ==
  ASSUME CredentialInv, NEW a \in Ids, HostPatch(a)
  PROVE  HandlerInv'
<1> USE WriterKinds, MutexTyped
    DEF CredentialInv, HandlerInv, LocalsShape, HostPatch, HostWrites, mutexVars
<1>1. LocalsShape'
  OBVIOUS
<1>2. LockHeld'
  BY DEF LockHeld
<1>3. HasAccount'
  BY DEF HasAccount
<1>4. RunsAsLeader'
  BY DEF RunsAsLeader
<1>5. SavesToken'
  BY DEF SavesToken
<1>6. SnapshotIsCurrent'
  <2>1. \A b \in Ids : b # a => file'[b] = file[b]
    OBVIOUS
  <2>2. ASSUME NEW w \in Writers, HoldsSnapshot(w)', ~hostWrote'
        PROVE  snap'[w] = file'[acct'[w]]
    <3>1. HoldsSnapshot(w) /\ mu = w /\ ~hostWrote /\ mu # None /\ acct[w] # a
      BY <2>2 DEF HoldsSnapshot
    <3>2. acct[w] \in Ids /\ snap[w] = file[acct[w]]
      BY <3>1 DEF SnapshotIsCurrent, HoldsSnapshot, HasAccount
    <3>3. QED
      BY <2>1, <3>1, <3>2
  <2>3. QED
    BY <2>2 DEF SnapshotIsCurrent
<1>7. SavedTokenIsCurrent'
  BY RunsAlone DEF SavedTokenIsCurrent, LockHeld, RunsAsLeader, HasAccount
<1>8. QED
  BY <1>1, <1>2, <1>3, <1>4, <1>5, <1>6, <1>7

\* A disabling begins.
LEMMA DisableCallInv ==
  ASSUME CredentialInv, NEW d \in Disablers, NEW a \in Ids, DisableCall(d, a)
  PROVE  HandlerInv'
<1> USE WriterKinds, MutexTyped
    DEF CredentialInv, HandlerInv, LocalsShape, DisableCall, mutexVars
<1>1. LocalsShape'
  OBVIOUS
<1>2. LockHeld'
  BY DEF LockHeld
<1>3. HasAccount'
  BY DEF HasAccount
<1>4. RunsAsLeader'
  BY DEF RunsAsLeader
<1>5. SavesToken'
  BY DEF SavesToken
<1>6. SnapshotIsCurrent'
  BY DEF SnapshotIsCurrent, HoldsSnapshot, LockHeld, HasAccount
<1>7. SavedTokenIsCurrent'
  BY RunsAlone DEF SavedTokenIsCurrent, LockHeld, RunsAsLeader, HasAccount
<1>8. QED
  BY <1>1, <1>2, <1>3, <1>4, <1>5, <1>6, <1>7

\* It gets the lock.
LEMMA DisableLockInv ==
  ASSUME CredentialInv, NEW d \in Disablers, DisableLock(d)
  PROVE  HandlerInv'
<1> USE WriterKinds, MutexTyped
    DEF CredentialInv, HandlerInv, LocalsShape, DisableLock, mutexVars
<1>1. LocalsShape'
  OBVIOUS
<1>2. LockHeld'
  BY DEF LockHeld
<1>3. HasAccount'
  BY DEF HasAccount
<1>4. RunsAsLeader'
  BY DEF RunsAsLeader
<1>5. SavesToken'
  BY DEF SavesToken
<1>6. SnapshotIsCurrent'
  BY DEF SnapshotIsCurrent, HoldsSnapshot, LockHeld, HasAccount
<1>7. SavedTokenIsCurrent'
  BY RunsAlone DEF SavedTokenIsCurrent, LockHeld, RunsAsLeader, HasAccount
<1>8. QED
  BY <1>1, <1>2, <1>3, <1>4, <1>5, <1>6, <1>7

\* It reads the file.
LEMMA DisableReadInv ==
  ASSUME CredentialInv, NEW d \in Disablers, DisableRead(d)
  PROVE  HandlerInv'
<1> USE WriterKinds, MutexTyped
    DEF CredentialInv, HandlerInv, LocalsShape, DisableRead, mutexVars
<1>1. LocalsShape'
  OBVIOUS
<1>2. LockHeld'
  BY DEF LockHeld
<1>3. HasAccount'
  BY DEF HasAccount
<1>4. RunsAsLeader'
  BY DEF RunsAsLeader
<1>5. SavesToken'
  BY DEF SavesToken
<1>6. SnapshotIsCurrent'
  BY DEF SnapshotIsCurrent, HoldsSnapshot, LockHeld, HasAccount
<1>7. SavedTokenIsCurrent'
  BY RunsAlone DEF SavedTokenIsCurrent, LockHeld, RunsAsLeader, HasAccount
<1>8. QED
  BY <1>1, <1>2, <1>3, <1>4, <1>5, <1>6, <1>7

\* It gives up.
LEMMA DisableFailsInv ==
  ASSUME CredentialInv, NEW d \in Disablers, DisableFails(d)
  PROVE  HandlerInv'
<1> USE WriterKinds, MutexTyped
    DEF CredentialInv, HandlerInv, LocalsShape, DisableFails, Leave, Unlock, mutexVars
<1>1. LocalsShape'
  OBVIOUS
<1>2. LockHeld'
  BY DEF LockHeld
<1>3. HasAccount'
  BY DEF HasAccount
<1>4. RunsAsLeader'
  BY DEF RunsAsLeader
<1>5. SavesToken'
  BY DEF SavesToken
<1>6. SnapshotIsCurrent'
  BY DEF SnapshotIsCurrent, HoldsSnapshot, LockHeld, HasAccount
<1>7. SavedTokenIsCurrent'
  BY RunsAlone DEF SavedTokenIsCurrent, LockHeld, RunsAsLeader, HasAccount
<1>8. QED
  BY <1>1, <1>2, <1>3, <1>4, <1>5, <1>6, <1>7

\* It writes the file back and releases the lock.
LEMMA DisableSaveInv ==
  ASSUME CredentialInv, NEW d \in Disablers, DisableSave(d)
  PROVE  HandlerInv'
<1> USE WriterKinds, MutexTyped
    DEF CredentialInv, HandlerInv, LocalsShape, DisableSave, Leave, Unlock, mutexVars
<1>1. LocalsShape'
  OBVIOUS
<1>2. LockHeld'
  BY DEF LockHeld
<1>3. HasAccount'
  BY DEF HasAccount
<1>4. RunsAsLeader'
  BY DEF RunsAsLeader
<1>5. SavesToken'
  BY DEF SavesToken
<1>6. SnapshotIsCurrent'
  BY DEF SnapshotIsCurrent, HoldsSnapshot, LockHeld, HasAccount
<1>7. SavedTokenIsCurrent'
  BY RunsAlone DEF SavedTokenIsCurrent, LockHeld, RunsAsLeader, HasAccount
<1>8. QED
  BY <1>1, <1>2, <1>3, <1>4, <1>5, <1>6, <1>7

\* A leader closes its flight.
LEMMA ReleaseInv ==
  ASSUME CredentialInv, NEW c \in Callers, Release(c)
  PROVE  HandlerInv'
<1> USE WriterKinds, MutexTyped
    DEF CredentialInv, HandlerInv, LocalsShape, Release, CloseDone, fileVars
<1>1. LocalsShape'
  OBVIOUS
<1>2. LockHeld'
  BY DEF LockHeld
<1>3. HasAccount'
  BY DEF HasAccount
<1>4. RunsAsLeader'
  BY DEF RunsAsLeader
<1>5. SavesToken'
  BY DEF SavesToken
<1>6. SnapshotIsCurrent'
  BY DEF SnapshotIsCurrent, HoldsSnapshot, LockHeld, HasAccount
<1>7. SavedTokenIsCurrent'
  BY RunsAlone DEF SavedTokenIsCurrent, LockHeld, RunsAsLeader, HasAccount
<1>8. QED
  BY <1>1, <1>2, <1>3, <1>4, <1>5, <1>6, <1>7

\* Do returns.
LEMMA DoReturnsInv ==
  ASSUME CredentialInv, NEW c \in Callers, DoReturns(c)
  PROVE  HandlerInv'
<1> USE WriterKinds, MutexTyped
    DEF CredentialInv, HandlerInv, LocalsShape, DoReturns, DeleteEntry, Wake
<1>1. LocalsShape'
  OBVIOUS
<1>2. LockHeld'
  BY DEF LockHeld
<1>3. HasAccount'
  BY DEF HasAccount
<1>4. RunsAsLeader'
  BY DEF RunsAsLeader
<1>5. SavesToken'
  BY DEF SavesToken
<1>6. SnapshotIsCurrent'
  BY DEF SnapshotIsCurrent, HoldsSnapshot, LockHeld, HasAccount
<1>7. SavedTokenIsCurrent'
  BY RunsAlone DEF SavedTokenIsCurrent, LockHeld, RunsAsLeader, HasAccount
<1>8. QED
  BY <1>1, <1>2, <1>3, <1>4, <1>5, <1>6, <1>7

\* Every step of a handler preserves what the handlers rely on.
LEMMA NextHandlerInv ==
  ASSUME CredentialInv, [Next]_vars
  PROVE  HandlerInv'
<1>1. CASE UNCHANGED vars
  BY <1>1
  DEF vars, mutexVars, fileVars, CredentialInv, HandlerInv, LocalsShape, LockHeld,
      HasAccount, RunsAsLeader, SavesToken, SnapshotIsCurrent, HoldsSnapshot,
      SavedTokenIsCurrent
<1>2. ASSUME NEW k \in Keepers,
             \/ \E a \in Ids : KeepaliveCall(k, a)
             \/ KeepaliveLock(k)
             \/ KeepaliveStep(k)
      PROVE  HandlerInv'
  BY <1>2, WriterKinds, KeepaliveCallInv, KeepaliveLockInv, KeepaliveReadInv,
     KeepaliveUnavailableInv, KeepaliveRefreshInv, KeepaliveRefreshFailsInv,
     KeepaliveSaveInv, KeepaliveSaveFailsInv, ReleaseInv, DoReturnsInv,
     KeepaliveEndsInv
  DEF KeepaliveStep
<1>3. ASSUME NEW h \in HostCalls,
             (\E a \in Ids : HostRefreshCall(h, a)) \/ HostStep(h)
      PROVE  HandlerInv'
  BY <1>3, WriterKinds, HostRefreshCallInv, HostRefreshDoInv, HostRefreshSendInv,
     HostRefreshFailsInv, ReleaseInv, DoReturnsInv, HostRefreshEndsInv, HostStoreInv
  DEF HostStep
<1>4. ASSUME NEW d \in Disablers,
             \/ \E a \in Ids : DisableCall(d, a)
             \/ DisableLock(d)
             \/ DisableStep(d)
      PROVE  HandlerInv'
  BY <1>4, DisableCallInv, DisableLockInv, DisableReadInv, DisableFailsInv,
     DisableSaveInv
  DEF DisableStep
<1>5. ASSUME NEW a \in Ids, HostPatch(a)
      PROVE  HandlerInv'
  BY <1>5, HostPatchInv
<1>6. QED
  BY <1>1, <1>2, <1>3, <1>4, <1>5 DEF Next

\* A handler that leaves fn does so with a result fn may return.
LEMMA LeavesWithResult ==
  ASSUME NEW c \in Callers, NEW v \in Results, LeaveFlight(c, v)
  PROVE  MutexNext
  BY DEF LeaveFlight, MutexNext, Proceed

\* A handler that calls Do joins a flight or leads one.
LEMMA CallsDo ==
  ASSUME NEW c \in Callers, NEW a \in Ids,
         Join(c, a) \/ \E f \in Flights : Lead(c, a, f)
  PROVE  MutexNext
  BY DEF MutexNext, Begin

\* The rest of Do is the same for all callers.
LEMMA EndsDo ==
  ASSUME NEW c \in Callers, Release(c) \/ DoReturns(c) \/ Take(c)
  PROVE  MutexNext
  BY DEF Release, DoReturns, MutexNext, Proceed

\* Every step of the system is a step of Do or leaves the mutex alone.
LEMMA StepUsesMutex ==
  ASSUME CredentialInv, [Next]_vars
  PROVE  [MutexNext]_mutexVars
<1> USE DEF CredentialInv, HandlerInv
<1>1. Tokens \cup {Blank, Failed, Zero} \subseteq Results
  BY CredentialAssumption
<1>2. CASE UNCHANGED vars
  BY <1>2 DEF vars
<1>3. ASSUME NEW k \in Keepers,
             \/ \E a \in Ids : KeepaliveCall(k, a)
             \/ KeepaliveLock(k)
             \/ KeepaliveStep(k)
      PROVE  [MutexNext]_mutexVars
  <2>1. k \in Callers
    BY WriterKinds
  <2>2. CASE \E a \in Ids : KeepaliveCall(k, a)
    BY <2>1, <2>2, CallsDo DEF KeepaliveCall
  <2>3. CASE KeepaliveLock(k) \/ KeepaliveRefresh(k)
    BY <2>3 DEF KeepaliveLock, KeepaliveRefresh
  <2>4. CASE KeepaliveRead(k) \/ KeepaliveUnavailable(k)
    BY <1>1, <2>1, <2>4, LeavesWithResult DEF KeepaliveRead, KeepaliveUnavailable
  <2>5. CASE KeepaliveRefreshFails(k) \/ KeepaliveSaveFails(k)
    BY <1>1, <2>1, <2>5, LeavesWithResult
    DEF KeepaliveRefreshFails, KeepaliveSaveFails
  <2>6. CASE KeepaliveSave(k)
    <3>1. fresh[k] \in Results
      BY <1>1, <2>6 DEF KeepaliveSave, SavesToken
    <3>2. QED
      BY <2>1, <2>6, <3>1, LeavesWithResult DEF KeepaliveSave
  <2>7. CASE Release(k) \/ DoReturns(k) \/ KeepaliveEnds(k)
    BY <2>1, <2>7, EndsDo DEF KeepaliveEnds
  <2>8. QED
    BY <1>3, <2>2, <2>3, <2>4, <2>5, <2>6, <2>7 DEF KeepaliveStep
<1>4. ASSUME NEW h \in HostCalls,
             (\E a \in Ids : HostRefreshCall(h, a)) \/ HostStep(h)
      PROVE  [MutexNext]_mutexVars
  <2>1. h \in Callers /\ h \in Writers
    BY WriterKinds
  <2>2. CASE (\E a \in Ids : HostRefreshCall(h, a)) \/ HostStore(h)
    BY <2>2 DEF HostRefreshCall, HostStore
  <2>3. CASE HostRefreshDo(h)
    <3>1. acct[h] \in Ids
      BY <2>1, <2>3 DEF HostRefreshDo, HasAccount
    <3>2. QED
      BY <2>1, <2>3, <3>1, CallsDo DEF HostRefreshDo
  <2>4. CASE HostRefreshSend(h) \/ HostRefreshFails(h)
    BY <1>1, <2>1, <2>4, LeavesWithResult DEF HostRefreshSend, HostRefreshFails
  <2>5. CASE Release(h) \/ DoReturns(h) \/ HostRefreshEnds(h)
    BY <2>1, <2>5, EndsDo DEF HostRefreshEnds
  <2>6. QED
    BY <1>4, <2>2, <2>3, <2>4, <2>5 DEF HostStep
<1>5. ASSUME NEW d \in Disablers,
             \/ \E a \in Ids : DisableCall(d, a)
             \/ DisableLock(d)
             \/ DisableStep(d)
      PROVE  UNCHANGED mutexVars
  BY <1>5 DEF DisableStep, DisableCall, DisableLock, DisableRead, DisableFails,
              DisableSave
<1>6. ASSUME NEW a \in Ids, HostPatch(a)
      PROVE  UNCHANGED mutexVars
  BY <1>6 DEF HostPatch
<1>7. QED
  BY <1>2, <1>3, <1>4, <1>5, <1>6 DEF Next

\* So the invariant of the mutex and that of the handlers hold together.
LEMMA NextCredentialInv == CredentialInv /\ [Next]_vars => CredentialInv'
  BY StepUsesMutex, NextHandlerInv, NextMutexInv DEF CredentialInv

\* Keepalive and disabling never lose each other's update of the file.
THEOREM SnapshotsAreCurrent == Spec => []SnapshotIsCurrent
<1>1. CredentialInv => SnapshotIsCurrent
  BY DEF CredentialInv, HandlerInv
<1>2. QED
  BY <1>1, InitCredentialInv, NextCredentialInv, PTL DEF Spec, Safety

\* No other refresh rotates a token between its refresh and its save by a
\* keepalive.
THEOREM SavedTokensAreCurrent == Spec => []SavedTokenIsCurrent
<1>1. CredentialInv => SavedTokenIsCurrent
  BY DEF CredentialInv, HandlerInv
<1>2. QED
  BY <1>1, InitCredentialInv, NextCredentialInv, PTL DEF Spec, Safety

----------------------------------------------------------------------------
\* The types of the files and what is known of the accounts, of where the
\* handlers are, and of what they carry along.
FileShape ==
  /\ file \in [Ids -> FileRec]
  /\ valid \in [Ids -> Tokens \cup {NoRT}]
  /\ dead \in [Ids -> DeadRec]
  /\ lost \in [Ids -> BOOLEAN]
ControlShape ==
  /\ mu \in Writers \cup {None}
  /\ step \in [Writers -> {"idle", "called", "lock", "read", "refresh", "save",
                           "leaving", "waiting", "returned", "reply"}]
  /\ acct \in [Writers -> Ids \cup {None}]
  /\ hostWrote \in BOOLEAN
CarriedShape ==
  /\ snap \in [Writers -> FileRec]
  /\ fresh \in [Callers -> Tokens \cup {NoRT}]
  /\ tries \in [Keepers -> 0..SaveTries]

\* fn never panics here, so what Do returns is a result of fn.
HasResult ==
  \A c \in Callers : pc[c] \in {"close", "delete", "returned"} => ret[c] \in Results

\* A keepalive that saves has a try left.
HasTries ==
  \A k \in Keepers : step[k] \notin {"leaving", "returned"} => tries[k] < SaveTries

TypedShape == FileShape /\ ControlShape /\ CarriedShape /\ HasResult /\ HasTries
TypedInv == CredentialInv /\ TypedShape

\* What the steps rest on: a record of a file with one field replaced is one.
LEMMA FileRecs ==
  /\ Unread \in FileRec
  /\ \A r \in FileRec : /\ r.rt \in Tokens \cup {NoRT, Blank}
                        /\ \A t \in Tokens \cup {NoRT, Blank} :
                             [r EXCEPT !.rt = t] \in FileRec /\ [r EXCEPT !.rt = t].rt = t
                             /\ [r EXCEPT !.rt = t].disabled = r.disabled
                        /\ \A d \in BOOLEAN :
                             [r EXCEPT !.disabled = d] \in FileRec
                             /\ [r EXCEPT !.disabled = d].rt = r.rt
                             /\ [r EXCEPT !.disabled = d].disabled = d
BY DEF FileRec, Unread

\* What note and clear leave of a count.
LEMMA DeadRecs ==
  /\ NeverDead \in DeadRec
  /\ \A d \in DeadRec : NoteDead(d) \in DeadRec /\ ClearDead(d) \in DeadRec
BY DeadThresholdAssumption DEF DeadRec, NeverDead, NoteDead, ClearDead

\* Whoever may hold the lock lets go of it.
LEMMA UnlockShape ==
  ASSUME ControlShape, NEW w, Unlock(w)
  PROVE  mu' \in Writers \cup {None} /\ hostWrote' \in BOOLEAN
BY DEF ControlShape, Unlock

\* A handler goes on to another place of its code, or ends.
LEMMA MoveShape ==
  ASSUME ControlShape, mu' \in Writers \cup {None}, hostWrote' \in BOOLEAN,
         NEW w \in Writers,
         \/ step' = step
         \/ \E next \in {"idle", "leaving", "refresh"} :
              step' = [step EXCEPT ![w] = next],
         acct' = acct \/ acct' = [acct EXCEPT ![w] = None]
  PROVE  ControlShape'
<1>1. step' \in [Writers -> {"idle", "called", "lock", "read", "refresh", "save",
                            "leaving", "waiting", "returned", "reply"}]
  BY DEF ControlShape
<1>2. acct' \in [Writers -> Ids \cup {None}]
  BY DEF ControlShape
<1>3. QED
  BY <1>1, <1>2 DEF ControlShape

\* A refresh may rotate a token and lose it, a save may fail.
LEMMA LossShape ==
  ASSUME FileShape, NEW a \in Ids, file' = file, dead' \in [Ids -> DeadRec],
         valid' = valid \/ \E t \in Tokens : valid' = [valid EXCEPT ![a] = t],
         lost' = lost \/ lost' = [lost EXCEPT ![a] = TRUE]
  PROVE  FileShape'
<1>1. valid' \in [Ids -> Tokens \cup {NoRT}]
  BY DEF FileShape
<1>2. lost' \in [Ids -> BOOLEAN]
  BY DEF FileShape
<1>3. QED
  BY <1>1, <1>2 DEF FileShape

\* What the other invariants say of a handler's locals.
LEMMA LocalFacts ==
  ASSUME CredentialInv
  PROVE  /\ \A w \in Writers : step[w] # "idle" => acct[w] \in Ids
         /\ \A k \in Keepers : step[k] = "save" => fresh[k] \in Tokens
         /\ Results = Tokens \cup {Blank, Failed} /\ Zero = Blank
         /\ DOMAIN pc = Callers /\ DOMAIN ret = Callers
         /\ \A c \in Callers : pc[c] = "wait" => res[at[c]] \in Results
<1>1. Results = Tokens \cup {Blank, Failed} /\ Zero = Blank
  BY CredentialAssumption
<1>2. MutexTypeOK
  BY DEF CredentialInv, MutexInv
<1>3. \A c \in Callers : pc[c] = "wait" => res[at[c]] \in Results
  BY <1>1, <1>2 DEF CredentialInv, MutexInv, NoOrphanWaiter, MutexTypeOK, Outcomes
<1>4. QED
  BY <1>1, <1>2, <1>3 DEF MutexTypeOK, CredentialInv, HandlerInv, HasAccount, SavesToken

\* Before any call the types hold.
LEMMA InitTypedInv == Init => TypedInv
<1> SUFFICES ASSUME Init PROVE TypedInv
  OBVIOUS
<1>1. 1 \in Tokens /\ NoRT \in Tokens \cup {NoRT}
  BY CredentialAssumption DEF Tokens
<1>2. \A a \in Ids : valid[a] \in Tokens \cup {NoRT}
  BY <1>1 DEF Init
<1>3. \A a \in Ids : [rt |-> valid[a], disabled |-> FALSE] \in FileRec
  BY <1>2 DEF FileRec
<1>4. FileShape
  BY <1>1, <1>2, <1>3, DeadRecs DEF Init, FileShape
<1>5. ControlShape
  BY DEF Init, ControlShape
<1>6. CarriedShape /\ HasResult /\ HasTries
  BY FileRecs DEF Init, MutexInit, CarriedShape, HasResult, HasTries, SaveTries
<1>7. QED
  BY <1>4, <1>5, <1>6, InitCredentialInv DEF TypedInv, TypedShape

\* The keepalive: it sets out for an account,
LEMMA KeepaliveCallTyped ==
  ASSUME TypedInv, NEW k \in Keepers, NEW a \in Ids, KeepaliveCall(k, a)
  PROVE  TypedShape'
<1> USE WriterKinds, LocalFacts, FileRecs, DeadRecs
    DEF TypedInv, TypedShape, KeepaliveCall, Join, Lead
<1>1. FileShape'
  BY DEF FileShape, ControlShape, CarriedShape
<1>2. ControlShape'
  BY DEF ControlShape
<1>3. CarriedShape'
  BY DEF FileShape, ControlShape, CarriedShape, HasResult, HasTries, SaveTries
<1>4. HasResult'
  BY DEF HasResult, CarriedShape
<1>5. HasTries'
  BY DEF HasTries, CarriedShape, ControlShape, SaveTries
<1>6. QED
  BY <1>1, <1>2, <1>3, <1>4, <1>5

\* takes the lock,
LEMMA KeepaliveLockTyped ==
  ASSUME TypedInv, NEW k \in Keepers, KeepaliveLock(k)
  PROVE  TypedShape'
<1> USE WriterKinds, LocalFacts, FileRecs, DeadRecs
    DEF TypedInv, TypedShape, KeepaliveLock, mutexVars
<1>1. FileShape'
  BY DEF FileShape, ControlShape, CarriedShape
<1>2. ControlShape'
  BY DEF ControlShape
<1>3. CarriedShape'
  BY DEF FileShape, ControlShape, CarriedShape, HasResult, HasTries, SaveTries
<1>4. HasResult'
  BY DEF HasResult, CarriedShape
<1>5. HasTries'
  BY DEF HasTries, CarriedShape, ControlShape, SaveTries
<1>6. QED
  BY <1>1, <1>2, <1>3, <1>4, <1>5

\* reads the file or leaves with the zero result,
LEMMA KeepaliveReadTyped ==
  ASSUME TypedInv, NEW k \in Keepers, KeepaliveRead(k)
  PROVE  TypedShape'
<1>0. /\ acct' = acct
      /\ \E next \in {"leaving", "refresh"} : step' = [step EXCEPT ![k] = next]
      /\ mu' \in {mu, None} /\ hostWrote' = FALSE
  BY DEF KeepaliveRead, LeaveFlight, Unlock
<1>7. mu' \in Writers \cup {None} /\ hostWrote' \in BOOLEAN
  BY <1>0 DEF TypedInv, TypedShape, ControlShape
<1> USE WriterKinds, LocalFacts, FileRecs, DeadRecs
    DEF TypedInv, TypedShape, KeepaliveRead, LeaveFlight, FnReturn, Unlock, mutexVars
<1>1. FileShape'
  BY DEF FileShape, ControlShape, CarriedShape
<1>2. ControlShape'
  BY <1>0, <1>7, MoveShape
<1>3. CarriedShape'
  BY DEF FileShape, ControlShape, CarriedShape, HasResult, HasTries, SaveTries
<1>4. HasResult'
  BY DEF HasResult, CarriedShape
<1>5. HasTries'
  BY DEF HasTries, CarriedShape, ControlShape, SaveTries
<1>6. QED
  BY <1>1, <1>2, <1>3, <1>4, <1>5

\* leaves without a client,
LEMMA KeepaliveUnavailableTyped ==
  ASSUME TypedInv, NEW k \in Keepers, KeepaliveUnavailable(k)
  PROVE  TypedShape'
<1>0. /\ acct' = acct
      /\ step' = [step EXCEPT ![k] = "leaving"]
  BY DEF KeepaliveUnavailable, LeaveFlight
<1> USE WriterKinds, LocalFacts, FileRecs, DeadRecs
    DEF TypedInv, TypedShape, KeepaliveUnavailable, LeaveFlight, FnReturn, Unlock
<1>1. FileShape'
  BY DEF FileShape, ControlShape, CarriedShape
<1>2. ControlShape'
  <2>1. mu' \in Writers \cup {None} /\ hostWrote' \in BOOLEAN
    BY UnlockShape DEF ControlShape
  <2>2. QED
    BY <1>0, <2>1, MoveShape
<1>3. CarriedShape'
  BY DEF FileShape, ControlShape, CarriedShape, HasResult, HasTries, SaveTries
<1>4. HasResult'
  BY DEF HasResult, CarriedShape
<1>5. HasTries'
  BY DEF HasTries, CarriedShape, ControlShape, SaveTries
<1>6. QED
  BY <1>1, <1>2, <1>3, <1>4, <1>5

\* gets a token,
LEMMA KeepaliveRefreshTyped ==
  ASSUME TypedInv, NEW k \in Keepers, KeepaliveRefresh(k)
  PROVE  TypedShape'
<1> USE WriterKinds, LocalFacts, FileRecs, DeadRecs
    DEF TypedInv, TypedShape, KeepaliveRefresh, UpstreamAccepts, mutexVars
<1>1. FileShape'
  BY DEF FileShape, ControlShape, CarriedShape
<1>2. ControlShape'
  BY DEF ControlShape
<1>3. CarriedShape'
  BY DEF FileShape, ControlShape, CarriedShape, HasResult, HasTries, SaveTries
<1>4. HasResult'
  BY DEF HasResult, CarriedShape
<1>5. HasTries'
  BY DEF HasTries, CarriedShape, ControlShape, SaveTries
<1>6. QED
  BY <1>1, <1>2, <1>3, <1>4, <1>5

\* gets none, and may have lost the new one,
LEMMA KeepaliveRefreshFailsTyped ==
  ASSUME TypedInv, NEW k \in Keepers, KeepaliveRefreshFails(k)
  PROVE  TypedShape'
<1>0. /\ acct' = acct
      /\ step' = [step EXCEPT ![k] = "leaving"]
  BY DEF KeepaliveRefreshFails, LeaveFlight
<1> USE WriterKinds, LocalFacts, FileRecs, DeadRecs
    DEF TypedInv, TypedShape, KeepaliveRefreshFails, UpstreamFails, LeaveFlight, FnReturn,
    Unlock
<1>1. FileShape'
  <2>1. PICK a : a = acct[k] /\ a \in Ids
    BY DEF ControlShape
  <2>2. file' = file /\ dead' \in [Ids -> DeadRec]
    BY <2>1 DEF FileShape
  <2>3. \/ valid' = valid /\ lost' = lost
        \/ \E t \in Tokens : /\ valid' = [valid EXCEPT ![a] = t]
                             /\ lost' = [lost EXCEPT ![a] = TRUE]
    BY <2>1 DEF FileShape
  <2>4. QED
    BY <2>1, <2>2, <2>3, LossShape
<1>2. ControlShape'
  <2>1. mu' \in Writers \cup {None} /\ hostWrote' \in BOOLEAN
    BY UnlockShape DEF ControlShape
  <2>2. QED
    BY <1>0, <2>1, MoveShape
<1>3. CarriedShape'
  BY DEF FileShape, ControlShape, CarriedShape, HasResult, HasTries, SaveTries
<1>4. HasResult'
  BY DEF HasResult, CarriedShape
<1>5. HasTries'
  BY DEF HasTries, CarriedShape, ControlShape, SaveTries
<1>6. QED
  BY <1>1, <1>2, <1>3, <1>4, <1>5

\* writes the token into the file it read,
LEMMA KeepaliveSaveTyped ==
  ASSUME TypedInv, NEW k \in Keepers, KeepaliveSave(k)
  PROVE  TypedShape'
<1>0. /\ acct' = acct
      /\ step' = [step EXCEPT ![k] = "leaving"]
  BY DEF KeepaliveSave, LeaveFlight
<1> USE WriterKinds, LocalFacts, FileRecs, DeadRecs
    DEF TypedInv, TypedShape, KeepaliveSave, MergeForeign, LeaveFlight, FnReturn, Unlock
<1>1. FileShape'
  BY DEF FileShape, ControlShape, CarriedShape
<1>2. ControlShape'
  <2>1. mu' \in Writers \cup {None} /\ hostWrote' \in BOOLEAN
    BY UnlockShape DEF ControlShape
  <2>2. QED
    BY <1>0, <2>1, MoveShape
<1>3. CarriedShape'
  BY DEF FileShape, ControlShape, CarriedShape, HasResult, HasTries, SaveTries
<1>4. HasResult'
  BY DEF HasResult, CarriedShape
<1>5. HasTries'
  BY DEF HasTries, CarriedShape, ControlShape, SaveTries
<1>6. QED
  BY <1>1, <1>2, <1>3, <1>4, <1>5

\* fails to, three times at most,
LEMMA KeepaliveSaveFailsTyped ==
  ASSUME TypedInv, NEW k \in Keepers, KeepaliveSaveFails(k)
  PROVE  TypedShape'
<1>0. /\ acct' = acct
      /\ step' = step \/ step' = [step EXCEPT ![k] = "leaving"]
  BY DEF KeepaliveSaveFails, LeaveFlight
<1> USE WriterKinds, LocalFacts, FileRecs, DeadRecs
    DEF TypedInv, TypedShape, KeepaliveSaveFails, LeaveFlight, FnReturn, Unlock, mutexVars
<1>1. FileShape'
  <2>1. /\ UNCHANGED <<file, valid, dead>>
        /\ lost' = lost \/ lost' = [lost EXCEPT ![acct[k]] = TRUE]
    OBVIOUS
  <2>2. acct[k] \in Ids /\ dead' \in [Ids -> DeadRec]
    BY <2>1 DEF FileShape, ControlShape
  <2>3. QED
    BY <2>1, <2>2, LossShape
<1>2. ControlShape'
  <2>1. mu' \in Writers \cup {None} /\ hostWrote' \in BOOLEAN
    BY UnlockShape DEF ControlShape
  <2>2. QED
    BY <1>0, <2>1, MoveShape
<1>3. CarriedShape'
  BY DEF FileShape, ControlShape, CarriedShape, HasResult, HasTries, SaveTries
<1>4. HasResult'
  BY DEF HasResult, CarriedShape
<1>5. HasTries'
  BY DEF HasTries, CarriedShape, ControlShape, SaveTries
<1>6. QED
  BY <1>1, <1>2, <1>3, <1>4, <1>5

\* and ends with its tries reset.
LEMMA KeepaliveEndsTyped ==
  ASSUME TypedInv, NEW k \in Keepers, KeepaliveEnds(k)
  PROVE  TypedShape'
<1> USE WriterKinds, LocalFacts, FileRecs, DeadRecs
    DEF TypedInv, TypedShape, KeepaliveEnds, Take, Leave
<1>1. FileShape'
  BY DEF FileShape, ControlShape, CarriedShape
<1>2. ControlShape'
  BY DEF ControlShape
<1>3. CarriedShape'
  BY DEF FileShape, ControlShape, CarriedShape, HasResult, HasTries, SaveTries
<1>4. HasResult'
  BY DEF HasResult, CarriedShape
<1>5. HasTries'
  BY DEF HasTries, CarriedShape, ControlShape, SaveTries
<1>6. QED
  BY <1>1, <1>2, <1>3, <1>4, <1>5

\* The host call: it takes the file along,
LEMMA HostRefreshCallTyped ==
  ASSUME TypedInv, NEW h \in HostCalls, NEW a \in Ids, HostRefreshCall(h, a)
  PROVE  TypedShape'
<1> USE WriterKinds, LocalFacts, FileRecs, DeadRecs
    DEF TypedInv, TypedShape, HostRefreshCall, mutexVars
<1>1. FileShape'
  BY DEF FileShape, ControlShape, CarriedShape
<1>2. ControlShape'
  BY DEF ControlShape
<1>3. CarriedShape'
  BY DEF FileShape, ControlShape, CarriedShape, HasResult, HasTries, SaveTries
<1>4. HasResult'
  BY DEF HasResult, CarriedShape
<1>5. HasTries'
  BY DEF HasTries, CarriedShape, ControlShape, SaveTries
<1>6. QED
  BY <1>1, <1>2, <1>3, <1>4, <1>5

\* calls Do,
LEMMA HostRefreshDoTyped ==
  ASSUME TypedInv, NEW h \in HostCalls, HostRefreshDo(h)
  PROVE  TypedShape'
<1> USE WriterKinds, LocalFacts, FileRecs, DeadRecs
    DEF TypedInv, TypedShape, HostRefreshDo, Join, Lead
<1>1. FileShape'
  BY DEF FileShape, ControlShape, CarriedShape
<1>2. ControlShape'
  BY DEF ControlShape
<1>3. CarriedShape'
  BY DEF FileShape, ControlShape, CarriedShape, HasResult, HasTries, SaveTries
<1>4. HasResult'
  BY DEF HasResult, CarriedShape
<1>5. HasTries'
  BY DEF HasTries, CarriedShape, ControlShape, SaveTries
<1>6. QED
  BY <1>1, <1>2, <1>3, <1>4, <1>5

\* gets a token,
LEMMA HostRefreshSendTyped ==
  ASSUME TypedInv, NEW h \in HostCalls, HostRefreshSend(h)
  PROVE  TypedShape'
<1>0. /\ acct' = acct
      /\ step' = [step EXCEPT ![h] = "leaving"]
  BY DEF HostRefreshSend, LeaveFlight
<1> USE WriterKinds, LocalFacts, FileRecs, DeadRecs
    DEF TypedInv, TypedShape, HostRefreshSend, UpstreamAccepts, LeaveFlight, FnReturn, Unlock
<1>1. FileShape'
  BY DEF FileShape, ControlShape, CarriedShape
<1>2. ControlShape'
  <2>1. mu' \in Writers \cup {None} /\ hostWrote' \in BOOLEAN
    BY UnlockShape DEF ControlShape
  <2>2. QED
    BY <1>0, <2>1, MoveShape
<1>3. CarriedShape'
  BY DEF FileShape, ControlShape, CarriedShape, HasResult, HasTries, SaveTries
<1>4. HasResult'
  BY DEF HasResult, CarriedShape
<1>5. HasTries'
  BY DEF HasTries, CarriedShape, ControlShape, SaveTries
<1>6. QED
  BY <1>1, <1>2, <1>3, <1>4, <1>5

\* gets none,
LEMMA HostRefreshFailsTyped ==
  ASSUME TypedInv, NEW h \in HostCalls, HostRefreshFails(h)
  PROVE  TypedShape'
<1>0. /\ acct' = acct
      /\ step' = [step EXCEPT ![h] = "leaving"]
  BY DEF HostRefreshFails, LeaveFlight
<1> USE WriterKinds, LocalFacts, FileRecs, DeadRecs
    DEF TypedInv, TypedShape, HostRefreshFails, UpstreamFails, LeaveFlight, FnReturn, Unlock
<1>1. FileShape'
  <2>1. PICK a : a = acct[h] /\ a \in Ids
    BY DEF ControlShape
  <2>2. file' = file /\ dead' \in [Ids -> DeadRec]
    BY <2>1 DEF FileShape
  <2>3. \/ valid' = valid /\ lost' = lost
        \/ \E t \in Tokens : /\ valid' = [valid EXCEPT ![a] = t]
                             /\ lost' = [lost EXCEPT ![a] = TRUE]
    BY <2>1 DEF FileShape
  <2>4. QED
    BY <2>1, <2>2, <2>3, LossShape
<1>2. ControlShape'
  <2>1. mu' \in Writers \cup {None} /\ hostWrote' \in BOOLEAN
    BY UnlockShape DEF ControlShape
  <2>2. QED
    BY <1>0, <2>1, MoveShape
<1>3. CarriedShape'
  BY DEF FileShape, ControlShape, CarriedShape, HasResult, HasTries, SaveTries
<1>4. HasResult'
  BY DEF HasResult, CarriedShape
<1>5. HasTries'
  BY DEF HasTries, CarriedShape, ControlShape, SaveTries
<1>6. QED
  BY <1>1, <1>2, <1>3, <1>4, <1>5

\* answers with what Do returned, which is a credential unless it failed,
LEMMA HostRefreshEndsTyped ==
  ASSUME TypedInv, NEW h \in HostCalls, HostRefreshEnds(h)
  PROVE  TypedShape'
<1> USE WriterKinds, LocalFacts, FileRecs, DeadRecs
    DEF TypedInv, TypedShape, HostRefreshEnds, Take, Leave, MergeForeign
<1>1. FileShape'
  BY DEF FileShape, ControlShape, CarriedShape
<1>2. ControlShape'
  BY DEF ControlShape
<1>3. CarriedShape'
  <2>1. snap' \in [Writers -> FileRec]
    <3>1. CASE ret[h] = Failed
      BY <3>1 DEF CarriedShape
    <3>2. CASE ret[h] # Failed
      <4>1. ret[h] \in Tokens \cup {NoRT, Blank}
        BY <3>2 DEF HasResult
      <4>2. PICK old, new : /\ old = snap[h] /\ new = [old EXCEPT !.rt = ret[h]]
                            /\ snap' = [snap EXCEPT ![h] = new]
        BY <3>2 DEF CarriedShape
      <4>3. new \in FileRec
        BY <4>1, <4>2 DEF CarriedShape
      <4>4. QED
        BY <4>2, <4>3 DEF CarriedShape
    <3>3. QED
      BY <3>1, <3>2
  <2>2. fresh' \in [Callers -> Tokens \cup {NoRT}] /\ tries' = tries
    BY DEF CarriedShape
  <2>3. QED
    BY <2>1, <2>2 DEF CarriedShape
<1>4. HasResult'
  BY DEF HasResult, CarriedShape
<1>5. HasTries'
  BY DEF HasTries, CarriedShape, ControlShape, SaveTries
<1>6. QED
  BY <1>1, <1>2, <1>3, <1>4, <1>5

\* and the host stores the answer.
LEMMA HostStoreTyped ==
  ASSUME TypedInv, NEW h \in HostCalls, HostStore(h)
  PROVE  TypedShape'
<1> USE WriterKinds, LocalFacts, FileRecs, DeadRecs
    DEF TypedInv, TypedShape, HostStore, HostWrites, Leave, mutexVars
<1>1. FileShape'
  BY DEF FileShape, ControlShape, CarriedShape
<1>2. ControlShape'
  BY DEF ControlShape
<1>3. CarriedShape'
  BY DEF FileShape, ControlShape, CarriedShape, HasResult, HasTries, SaveTries
<1>4. HasResult'
  BY DEF HasResult, CarriedShape
<1>5. HasTries'
  BY DEF HasTries, CarriedShape, ControlShape, SaveTries
<1>6. QED
  BY <1>1, <1>2, <1>3, <1>4, <1>5

\* An administrator replaces one field.
LEMMA HostPatchTyped ==
  ASSUME TypedInv, NEW a \in Ids, HostPatch(a)
  PROVE  TypedShape'
<1> USE WriterKinds, LocalFacts, FileRecs, DeadRecs
    DEF TypedInv, TypedShape, HostPatch, HostWrites, mutexVars
<1>1. FileShape'
  BY DEF FileShape, ControlShape, CarriedShape
<1>2. ControlShape'
  BY DEF ControlShape
<1>3. CarriedShape'
  BY DEF FileShape, ControlShape, CarriedShape, HasResult, HasTries, SaveTries
<1>4. HasResult'
  BY DEF HasResult, CarriedShape
<1>5. HasTries'
  BY DEF HasTries, CarriedShape, ControlShape, SaveTries
<1>6. QED
  BY <1>1, <1>2, <1>3, <1>4, <1>5

\* The disabling: it begins,
LEMMA DisableCallTyped ==
  ASSUME TypedInv, NEW d \in Disablers, NEW a \in Ids, DisableCall(d, a)
  PROVE  TypedShape'
<1> USE WriterKinds, LocalFacts, FileRecs, DeadRecs
    DEF TypedInv, TypedShape, DisableCall, mutexVars
<1>1. FileShape'
  BY DEF FileShape, ControlShape, CarriedShape
<1>2. ControlShape'
  BY DEF ControlShape
<1>3. CarriedShape'
  BY DEF FileShape, ControlShape, CarriedShape, HasResult, HasTries, SaveTries
<1>4. HasResult'
  BY DEF HasResult, CarriedShape
<1>5. HasTries'
  BY DEF HasTries, CarriedShape, ControlShape, SaveTries
<1>6. QED
  BY <1>1, <1>2, <1>3, <1>4, <1>5

\* takes the lock,
LEMMA DisableLockTyped ==
  ASSUME TypedInv, NEW d \in Disablers, DisableLock(d)
  PROVE  TypedShape'
<1> USE WriterKinds, LocalFacts, FileRecs, DeadRecs
    DEF TypedInv, TypedShape, DisableLock, mutexVars
<1>1. FileShape'
  BY DEF FileShape, ControlShape, CarriedShape
<1>2. ControlShape'
  BY DEF ControlShape
<1>3. CarriedShape'
  BY DEF FileShape, ControlShape, CarriedShape, HasResult, HasTries, SaveTries
<1>4. HasResult'
  BY DEF HasResult, CarriedShape
<1>5. HasTries'
  BY DEF HasTries, CarriedShape, ControlShape, SaveTries
<1>6. QED
  BY <1>1, <1>2, <1>3, <1>4, <1>5

\* reads the file,
LEMMA DisableReadTyped ==
  ASSUME TypedInv, NEW d \in Disablers, DisableRead(d)
  PROVE  TypedShape'
<1> USE WriterKinds, LocalFacts, FileRecs, DeadRecs
    DEF TypedInv, TypedShape, DisableRead, mutexVars
<1>1. FileShape'
  BY DEF FileShape, ControlShape, CarriedShape
<1>2. ControlShape'
  BY DEF ControlShape
<1>3. CarriedShape'
  BY DEF FileShape, ControlShape, CarriedShape, HasResult, HasTries, SaveTries
<1>4. HasResult'
  BY DEF HasResult, CarriedShape
<1>5. HasTries'
  BY DEF HasTries, CarriedShape, ControlShape, SaveTries
<1>6. QED
  BY <1>1, <1>2, <1>3, <1>4, <1>5

\* gives up,
LEMMA DisableFailsTyped ==
  ASSUME TypedInv, NEW d \in Disablers, DisableFails(d)
  PROVE  TypedShape'
<1>0. /\ acct' = [acct EXCEPT ![d] = None]
      /\ step' = [step EXCEPT ![d] = "idle"]
  BY DEF DisableFails, Leave
<1> USE WriterKinds, LocalFacts, FileRecs, DeadRecs
    DEF TypedInv, TypedShape, DisableFails, Leave, Unlock, mutexVars
<1>1. FileShape'
  BY DEF FileShape, ControlShape, CarriedShape
<1>2. ControlShape'
  <2>1. mu' \in Writers \cup {None} /\ hostWrote' \in BOOLEAN
    BY UnlockShape DEF ControlShape
  <2>2. QED
    BY <1>0, <2>1, MoveShape
<1>3. CarriedShape'
  BY DEF FileShape, ControlShape, CarriedShape, HasResult, HasTries, SaveTries
<1>4. HasResult'
  BY DEF HasResult, CarriedShape
<1>5. HasTries'
  BY DEF HasTries, CarriedShape, ControlShape, SaveTries
<1>6. QED
  BY <1>1, <1>2, <1>3, <1>4, <1>5

\* or writes back what it read with one field replaced.
LEMMA DisableSaveTyped ==
  ASSUME TypedInv, NEW d \in Disablers, DisableSave(d)
  PROVE  TypedShape'
<1>0. /\ acct' = [acct EXCEPT ![d] = None]
      /\ step' = [step EXCEPT ![d] = "idle"]
  BY DEF DisableSave, Leave
<1> USE WriterKinds, LocalFacts, FileRecs, DeadRecs
    DEF TypedInv, TypedShape, DisableSave, Leave, Unlock, mutexVars
<1>1. FileShape'
  BY DEF FileShape, ControlShape, CarriedShape
<1>2. ControlShape'
  <2>1. mu' \in Writers \cup {None} /\ hostWrote' \in BOOLEAN
    BY UnlockShape DEF ControlShape
  <2>2. QED
    BY <1>0, <2>1, MoveShape
<1>3. CarriedShape'
  BY DEF FileShape, ControlShape, CarriedShape, HasResult, HasTries, SaveTries
<1>4. HasResult'
  BY DEF HasResult, CarriedShape
<1>5. HasTries'
  BY DEF HasTries, CarriedShape, ControlShape, SaveTries
<1>6. QED
  BY <1>1, <1>2, <1>3, <1>4, <1>5

\* The rest of Do changes no type: the flight is closed,
LEMMA ReleaseTyped ==
  ASSUME TypedInv, NEW c \in Callers, Release(c)
  PROVE  TypedShape'
<1> USE WriterKinds, LocalFacts, FileRecs, DeadRecs
    DEF TypedInv, TypedShape, Release, CloseDone, fileVars
<1>1. FileShape'
  BY DEF FileShape, ControlShape, CarriedShape
<1>2. ControlShape'
  BY DEF ControlShape
<1>3. CarriedShape'
  BY DEF FileShape, ControlShape, CarriedShape, HasResult, HasTries, SaveTries
<1>4. HasResult'
  BY DEF HasResult, CarriedShape
<1>5. HasTries'
  BY DEF HasTries, CarriedShape, ControlShape, SaveTries
<1>6. QED
  BY <1>1, <1>2, <1>3, <1>4, <1>5

\* and its outcome, which is a result of fn, is passed on.
LEMMA DoReturnsTyped ==
  ASSUME TypedInv, NEW c \in Callers, DoReturns(c)
  PROVE  TypedShape'
<1> USE WriterKinds, LocalFacts, FileRecs, DeadRecs
    DEF TypedInv, TypedShape, DoReturns, DeleteEntry, Wake
<1>1. FileShape'
  BY DEF FileShape, ControlShape, CarriedShape
<1>2. ControlShape'
  BY DEF ControlShape
<1>3. CarriedShape'
  BY DEF FileShape, ControlShape, CarriedShape, HasResult, HasTries, SaveTries
<1>4. HasResult'
  <2>1. CASE DeleteEntry(c)
    BY <2>1 DEF HasResult
  <2>2. CASE Wake(c)
    BY <2>2 DEF HasResult
  <2>3. QED
    BY <2>1, <2>2
<1>5. HasTries'
  BY DEF HasTries, CarriedShape, ControlShape, SaveTries
<1>6. QED
  BY <1>1, <1>2, <1>3, <1>4, <1>5

\* Every step keeps the types.
LEMMA NextTypedShape ==
  ASSUME TypedInv, [Next]_vars
  PROVE  TypedShape'
<1>1. CASE UNCHANGED vars
  BY <1>1 DEF vars, mutexVars, fileVars, TypedInv, TypedShape, FileShape, ControlShape,
              CarriedShape, HasResult, HasTries
<1>2. ASSUME NEW k \in Keepers,
             \/ \E a \in Ids : KeepaliveCall(k, a)
             \/ KeepaliveLock(k)
             \/ KeepaliveStep(k)
      PROVE  TypedShape'
  BY <1>2, WriterKinds, KeepaliveCallTyped, KeepaliveLockTyped, KeepaliveReadTyped,
     KeepaliveUnavailableTyped, KeepaliveRefreshTyped, KeepaliveRefreshFailsTyped,
     KeepaliveSaveTyped, KeepaliveSaveFailsTyped, ReleaseTyped, DoReturnsTyped,
     KeepaliveEndsTyped
  DEF KeepaliveStep
<1>3. ASSUME NEW h \in HostCalls,
             (\E a \in Ids : HostRefreshCall(h, a)) \/ HostStep(h)
      PROVE  TypedShape'
  BY <1>3, WriterKinds, HostRefreshCallTyped, HostRefreshDoTyped, HostRefreshSendTyped,
     HostRefreshFailsTyped, ReleaseTyped, DoReturnsTyped, HostRefreshEndsTyped,
         HostStoreTyped
  DEF HostStep
<1>4. ASSUME NEW d \in Disablers,
             \/ \E a \in Ids : DisableCall(d, a)
             \/ DisableLock(d)
             \/ DisableStep(d)
      PROVE  TypedShape'
  BY <1>4, DisableCallTyped, DisableLockTyped, DisableReadTyped, DisableFailsTyped,
     DisableSaveTyped
  DEF DisableStep
<1>5. ASSUME NEW a \in Ids, HostPatch(a)
      PROVE  TypedShape'
  BY <1>5, HostPatchTyped
<1>6. QED
  BY <1>1, <1>2, <1>3, <1>4, <1>5 DEF Next

\* So the types join the invariant.
LEMMA NextTypedInv == TypedInv /\ [Next]_vars => TypedInv'
  BY NextTypedShape, NextCredentialInv DEF TypedInv

\* The files, the tokens and what the handlers carry keep their types: no
\* keepalive tries a fourth save, no refresh stores what is not a token.
THEOREM CredentialTypesHold == Spec => []CredentialTypeOK
<1>1. TypedInv => CredentialTypeOK
  BY DEF TypedInv, TypedShape, FileShape, ControlShape, CarriedShape, CredentialInv,
         MutexInv, CredentialTypeOK
<1>2. QED
  BY <1>1, InitTypedInv, NextTypedInv, PTL DEF Spec, Safety

----------------------------------------------------------------------------
\* A write of the holder of authFileWriteMu that nobody overtook keeps a
\* disabling: it puts back the disabled it has read.
LEMMA KeepaliveSaveKeeps ==
  ASSUME TypedInv, NEW k \in Keepers, KeepaliveSave(k), ~hostWrote,
         NEW a \in Ids, file[a].disabled
  PROVE  file'[a].disabled
<1>1. k \in Writers /\ k \in Callers
  BY WriterKinds
<1>2. acct[k] \in Ids /\ snap[k] \in FileRec /\ fresh[k] \in Tokens
  BY <1>1, LocalFacts DEF TypedInv, TypedShape, CarriedShape, KeepaliveSave
<1>3. snap[k] = file[acct[k]]
  BY <1>1 DEF TypedInv, CredentialInv, HandlerInv, LockHeld, SnapshotIsCurrent,
              HoldsSnapshot, KeepaliveSave
<1>4. PICK r : r = [snap[k] EXCEPT !.rt = fresh[k]]
  OBVIOUS
<1>5. r.disabled = snap[k].disabled
  BY <1>2, <1>4, FileRecs
<1>6. file' = [file EXCEPT ![acct[k]] = r]
  BY <1>4 DEF KeepaliveSave, MergeForeign
<1>7. QED
  BY <1>2, <1>3, <1>5, <1>6 DEF TypedInv, TypedShape, FileShape

\* A disabling sets the field it could undo.
LEMMA DisableSaveKeeps ==
  ASSUME TypedInv, NEW d \in Disablers, DisableSave(d), NEW a \in Ids, file[a].disabled
  PROVE  file'[a].disabled
<1>1. acct[d] \in Ids /\ snap[d] \in FileRec
  BY WriterKinds, LocalFacts DEF TypedInv, TypedShape, CarriedShape, DisableSave
<1>2. PICK r : r = [snap[d] EXCEPT !.disabled = TRUE]
  OBVIOUS
<1>3. r.disabled = TRUE
  BY <1>1, <1>2, FileRecs
<1>4. file' = [file EXCEPT ![acct[d]] = r]
  BY <1>2 DEF DisableSave
<1>5. QED
  BY <1>1, <1>3, <1>4 DEF TypedInv, TypedShape, FileShape

\* Nobody but these four writes a file.
LEMMA OnlyWritersWrite ==
  ASSUME [Next]_vars, file' # file
  PROVE  \/ \E k \in Keepers : KeepaliveSave(k)
         \/ \E d \in Disablers : DisableSave(d)
         \/ \E h \in HostCalls : HostStore(h)
         \/ \E a \in Ids : HostPatch(a)
<1>1. ASSUME NEW k \in Keepers,
             \/ \E a \in Ids : KeepaliveCall(k, a)
             \/ KeepaliveLock(k)
             \/ KeepaliveStep(k)
      PROVE  file' = file \/ KeepaliveSave(k)
  BY <1>1 DEF KeepaliveStep, KeepaliveCall, KeepaliveLock, KeepaliveRead,
     KeepaliveUnavailable, KeepaliveRefresh, KeepaliveRefreshFails, KeepaliveSaveFails,
     Release, DoReturns, KeepaliveEnds, fileVars
<1>2. ASSUME NEW h \in HostCalls,
             (\E a \in Ids : HostRefreshCall(h, a)) \/ HostStep(h)
      PROVE  file' = file \/ HostStore(h)
  BY <1>2 DEF HostStep, HostRefreshCall, HostRefreshDo, HostRefreshSend, HostRefreshFails,
     Release, DoReturns, HostRefreshEnds, fileVars
<1>3. ASSUME NEW d \in Disablers,
             \/ \E a \in Ids : DisableCall(d, a)
             \/ DisableLock(d)
             \/ DisableStep(d)
      PROVE  file' = file \/ DisableSave(d)
  BY <1>3 DEF DisableStep, DisableCall, DisableLock, DisableRead, DisableFails
<1>4. CASE UNCHANGED vars
  BY <1>4 DEF vars, fileVars
<1>5. QED
  BY <1>1, <1>2, <1>3, <1>4 DEF Next

\* A store of the host changes the file of its own account only.
LEMMA HostWritesOneFile ==
  ASSUME TypedInv, NEW a \in Ids, file'[a] # file[a]
  PROVE  /\ \A h \in HostCalls : HostStore(h) => acct[h] = a
         /\ \A b \in Ids : HostPatch(b) => b = a
BY DEF HostStore, HostPatch, TypedInv, TypedShape, FileShape

\* A disabling is undone only by the host, or by a write the host overtook.
THEOREM OnlyTheHostEnables == Spec => OnlyHostEnables
<1>1. ASSUME TypedInv, [Next]_vars, NEW a \in Ids, file[a].disabled, ~file'[a].disabled
      PROVE  \/ hostWrote
             \/ HostPatch(a)
             \/ \E h \in HostCalls : acct[h] = a /\ HostStore(h)
  <2>1. file' # file /\ file'[a] # file[a]
    BY <1>1
  <2>2. \/ \E k \in Keepers : KeepaliveSave(k)
        \/ \E h \in HostCalls : HostStore(h)
        \/ \E b \in Ids : HostPatch(b)
    BY <1>1, <2>1, OnlyWritersWrite, DisableSaveKeeps
  <2>3. QED
    BY <1>1, <2>1, <2>2, KeepaliveSaveKeeps, HostWritesOneFile
<1>2. TypedInv /\ [Next]_vars
        => [\A a \in Ids : file[a].disabled /\ ~file'[a].disabled =>
              \/ hostWrote
              \/ HostPatch(a)
              \/ \E h \in HostCalls : acct[h] = a /\ HostStore(h)]_vars
  BY <1>1
<1>3. QED
  BY <1>2, InitTypedInv, NextTypedInv, PTL DEF Spec, Safety, OnlyHostEnables

----------------------------------------------------------------------------
\* A caller whose Do has not returned yet, and who does not lead, waits.
WaitersWait == \A c \in Callers : pc[c] = "wait" => step[c] = "waiting"

\* What a caller is about to store for the account: a keepalive a token that
\* differs from the one it read, the host the token that is valid.
Stores(c, a) ==
  /\ acct[c] = a
  /\ \/ c \in Keepers /\ step[c] = "save" /\ snap[c].rt # fresh[c]
     \/ /\ c \in HostCalls
        /\ \/ step[c] \in {"leaving", "returned"} /\ ret[c] = valid[a]
           \/ step[c] = "reply" /\ snap[c].rt = valid[a]

\* LagIsExplained, without the keepalives that would only store what is there:
\* if their saves fail nothing is lost.
Explained(a) == file[a].rt = valid[a] \/ lost[a] \/ \E c \in Callers : Stores(c, a)

LagInv == TypedInv /\ WaitersWait /\ \A a \in Ids : Explained(a)

\* The locals of everyone but c stay as they are.
OthersAsBefore(c) ==
  \A d \in Callers \ {c} :
    /\ step'[d] = step[d]
    /\ acct'[d] = acct[d]
    /\ snap'[d] = snap[d]
    /\ fresh'[d] = fresh[d]
    /\ ret'[d] = ret[d]

\* What explains the lag of an account goes on explaining it, as long as neither
\* its tokens change nor the handler that steps was the one to store it.
LEMMA StillExplained ==
  ASSUME NEW c, NEW a \in Ids, Explained(a), OthersAsBefore(c),
         file'[a].rt = file[a].rt, valid'[a] = valid[a], lost[a] => lost'[a],
         c \in Callers /\ Stores(c, a) => Explained(a)'
  PROVE  Explained(a)'
<1>1. ASSUME NEW d \in Callers, d # c, Stores(d, a)
      PROVE  Stores(d, a)'
  BY <1>1 DEF Stores, OthersAsBefore
<1>2. QED
  BY <1>1 DEF Explained

\* An account of which neither the file nor the token changes and for which the
\* handler that steps has nothing to store.
LEMMA ElsewhereExplained ==
  ASSUME LagInv, NEW c, OthersAsBefore(c), NEW a \in Ids,
         file'[a] = file[a], valid'[a] = valid[a], lost'[a] = lost[a],
         c \in Callers => ~Stores(c, a)
  PROVE  Explained(a)'
BY StillExplained DEF LagInv

\* A keepalive that begins has stored nothing yet.
LEMMA KeepaliveCallLag ==
  ASSUME LagInv, NEW k \in Keepers, NEW a \in Ids, KeepaliveCall(k, a)
  PROVE  \A b \in Ids : Explained(b)'
<1> USE DEF LagInv
<1>1. OthersAsBefore(k)
  <2>1. ASSUME NEW e \in Callers \ {k}
        PROVE  /\ step'[e] = step[e] /\ acct'[e] = acct[e] /\ snap'[e] = snap[e]
               /\ fresh'[e] = fresh[e] /\ ret'[e] = ret[e]
    <3>1. e \in Writers
      BY DEF Writers
    <3>2. QED
      BY <2>1, <3>1
      DEF TypedInv, TypedShape, ControlShape, CarriedShape, KeepaliveCall, Join, Lead
  <2>2. QED
    BY <2>1 DEF OthersAsBefore
<1>2. UNCHANGED <<file, valid, lost>>
  BY DEF KeepaliveCall, Join, Lead
<1>3. \A b \in Ids : k \in Callers => ~Stores(k, b)
  BY WriterKinds DEF Stores, KeepaliveCall
<1>4. QED
  BY <1>1, <1>2, <1>3, ElsewhereExplained

\* Nor has one that has not refreshed.
LEMMA KeepaliveStartLag ==
  ASSUME LagInv, NEW k \in Keepers,
      KeepaliveLock(k) \/ KeepaliveRead(k) \/ KeepaliveUnavailable(k)
  PROVE  \A b \in Ids : Explained(b)'
<1> USE DEF LagInv
<1>1. OthersAsBefore(k)
  <2>1. ASSUME NEW e \in Callers \ {k}
        PROVE  /\ step'[e] = step[e] /\ acct'[e] = acct[e] /\ snap'[e] = snap[e]
               /\ fresh'[e] = fresh[e] /\ ret'[e] = ret[e]
    <3>1. e \in Writers
      BY DEF Writers
    <3>2. CASE KeepaliveLock(k)
      BY <2>1, <3>1, <3>2 DEF TypedInv, TypedShape, ControlShape, KeepaliveLock, mutexVars
    <3>3. CASE KeepaliveRead(k)
      <4>1. /\ UNCHANGED <<acct, fresh>>
            /\ snap' = [snap EXCEPT ![k] = file[acct[k]]]
        BY <3>3 DEF KeepaliveRead
      <4>2. step'[e] = step[e]
        BY <2>1, <3>1, <3>3
        DEF KeepaliveRead, LeaveFlight, TypedInv, TypedShape, ControlShape
      <4>3. ret'[e] = ret[e]
        BY <2>1, <3>3, LocalFacts
        DEF KeepaliveRead, LeaveFlight, FnReturn, mutexVars, TypedInv
      <4>4. QED
        BY <2>1, <3>1, <4>1, <4>2, <4>3 DEF TypedInv, TypedShape, CarriedShape
    <3>4. CASE KeepaliveUnavailable(k)
      BY <2>1, <3>1, <3>4, LocalFacts
      DEF TypedInv, TypedShape, ControlShape, KeepaliveUnavailable, LeaveFlight, FnReturn
    <3>5. QED
      BY <3>2, <3>3, <3>4
  <2>2. QED
    BY <2>1 DEF OthersAsBefore
<1>2. UNCHANGED <<file, valid, lost>>
  BY DEF KeepaliveLock, KeepaliveRead, KeepaliveUnavailable, LeaveFlight, FnReturn,
      mutexVars
<1>3. \A b \in Ids : k \in Callers => ~Stores(k, b)
  BY WriterKinds DEF Stores, KeepaliveLock, KeepaliveRead, KeepaliveUnavailable
<1>4. QED
  BY <1>1, <1>2, <1>3, ElsewhereExplained

\* One that ends has stored what it had.
LEMMA KeepaliveEndsLag ==
  ASSUME LagInv, NEW k \in Keepers, KeepaliveEnds(k)
  PROVE  \A b \in Ids : Explained(b)'
<1> USE DEF LagInv
<1>1. OthersAsBefore(k)
  <2>1. ASSUME NEW e \in Callers \ {k}
        PROVE  /\ step'[e] = step[e] /\ acct'[e] = acct[e] /\ snap'[e] = snap[e]
               /\ fresh'[e] = fresh[e] /\ ret'[e] = ret[e]
    <3>1. e \in Writers
      BY DEF Writers
    <3>2. QED
      BY <2>1, <3>1
      DEF TypedInv, TypedShape, ControlShape, CarriedShape, KeepaliveEnds, Take, Leave
  <2>2. QED
    BY <2>1 DEF OthersAsBefore
<1>2. UNCHANGED <<file, valid, lost>>
  BY DEF KeepaliveEnds, Take, Leave
<1>3. \A b \in Ids : k \in Callers => ~Stores(k, b)
  BY WriterKinds
  DEF Stores, KeepaliveEnds, Take, TypedInv, CredentialInv, HandlerInv, RunsAsLeader,
      HasAccount
<1>4. QED
  BY <1>1, <1>2, <1>3, ElsewhereExplained

\* A host call that begins has no token to store.
LEMMA HostRefreshCallLag ==
  ASSUME LagInv, NEW h \in HostCalls, NEW a \in Ids, HostRefreshCall(h, a)
  PROVE  \A b \in Ids : Explained(b)'
<1> USE DEF LagInv
<1>1. OthersAsBefore(h)
  <2>1. ASSUME NEW e \in Callers \ {h}
        PROVE  /\ step'[e] = step[e] /\ acct'[e] = acct[e] /\ snap'[e] = snap[e]
               /\ fresh'[e] = fresh[e] /\ ret'[e] = ret[e]
    <3>1. e \in Writers
      BY DEF Writers
    <3>2. QED
      BY <2>1, <3>1
      DEF TypedInv, TypedShape, ControlShape, CarriedShape, HostRefreshCall, mutexVars
  <2>2. QED
    BY <2>1 DEF OthersAsBefore
<1>2. UNCHANGED <<file, valid, lost>>
  BY DEF HostRefreshCall, mutexVars
<1>3. \A b \in Ids : h \in Callers => ~Stores(h, b)
  BY WriterKinds DEF Stores, HostRefreshCall
<1>4. QED
  BY <1>1, <1>2, <1>3, ElsewhereExplained

\* Nor has one that calls Do.
LEMMA HostRefreshDoLag ==
  ASSUME LagInv, NEW h \in HostCalls, HostRefreshDo(h)
  PROVE  \A b \in Ids : Explained(b)'
<1> USE DEF LagInv
<1>1. OthersAsBefore(h)
  <2>1. ASSUME NEW e \in Callers \ {h}
        PROVE  /\ step'[e] = step[e] /\ acct'[e] = acct[e] /\ snap'[e] = snap[e]
               /\ fresh'[e] = fresh[e] /\ ret'[e] = ret[e]
    <3>1. e \in Writers
      BY DEF Writers
    <3>2. QED
      BY <2>1, <3>1
      DEF TypedInv, TypedShape, ControlShape, CarriedShape, HostRefreshDo, Join, Lead
  <2>2. QED
    BY <2>1 DEF OthersAsBefore
<1>2. UNCHANGED <<file, valid, lost>>
  BY DEF HostRefreshDo, Join, Lead
<1>3. \A b \in Ids : h \in Callers => ~Stores(h, b)
  BY WriterKinds DEF Stores, HostRefreshDo
<1>4. QED
  BY <1>1, <1>2, <1>3, ElsewhereExplained

\* A disabling stores nothing before it saves.
LEMMA DisableStartLag ==
  ASSUME LagInv, NEW d \in Disablers,
      \/ DisableLock(d) \/ DisableRead(d) \/ DisableFails(d)
         \/ \E a \in Ids : DisableCall(d, a)
  PROVE  \A b \in Ids : Explained(b)'
<1> USE DEF LagInv
<1>1. OthersAsBefore(d)
  <2>1. ASSUME NEW e \in Callers \ {d}
        PROVE  /\ step'[e] = step[e] /\ acct'[e] = acct[e] /\ snap'[e] = snap[e]
               /\ fresh'[e] = fresh[e] /\ ret'[e] = ret[e]
    <3>1. e \in Writers
      BY DEF Writers
    <3>2. QED
      BY <2>1, <3>1
      DEF TypedInv, TypedShape, ControlShape, CarriedShape, DisableCall, DisableLock,
          DisableRead, DisableFails, Leave, mutexVars
  <2>2. QED
    BY <2>1 DEF OthersAsBefore
<1>2. UNCHANGED <<file, valid, lost>>
  BY DEF DisableCall, DisableLock, DisableRead, DisableFails, Leave, mutexVars
<1>3. \A b \in Ids : d \in Callers => ~Stores(d, b)
  BY WriterKinds
<1>4. QED
  BY <1>1, <1>2, <1>3, ElsewhereExplained

\* The leader that closes its flight keeps its result.
LEMMA ReleaseLag ==
  ASSUME LagInv, NEW c \in Callers, Release(c)
  PROVE  \A b \in Ids : Explained(b)'
<1> USE DEF LagInv
<1>1. OthersAsBefore(c)
  <2>1. ASSUME NEW e \in Callers \ {c}
        PROVE  /\ step'[e] = step[e] /\ acct'[e] = acct[e] /\ snap'[e] = snap[e]
               /\ fresh'[e] = fresh[e] /\ ret'[e] = ret[e]
    <3>1. e \in Writers
      BY DEF Writers
    <3>2. QED
      BY <2>1, <3>1
      DEF TypedInv, TypedShape, ControlShape, CarriedShape, Release, CloseDone, fileVars
  <2>2. QED
    BY <2>1 DEF OthersAsBefore
<1>2. UNCHANGED <<file, valid, lost, step, acct, snap, fresh, ret>>
  BY DEF Release, CloseDone, fileVars
<1>3. \A b \in Ids : Stores(c, b) => Stores(c, b)'
  BY <1>2 DEF Stores
<1>4. \A b \in Ids : Stores(c, b) => Explained(b)'
  BY <1>3 DEF Explained
<1>5. QED
  BY <1>1, <1>2, <1>4, StillExplained

\* Do returns to the leader what fn returned; a waiter had nothing before.
LEMMA DoReturnsLag ==
  ASSUME LagInv, NEW c \in Callers, DoReturns(c)
  PROVE  \A b \in Ids : Explained(b)'
<1> USE DEF LagInv
<1>1. OthersAsBefore(c)
  <2>1. ASSUME NEW e \in Callers \ {c}
        PROVE  /\ step'[e] = step[e] /\ acct'[e] = acct[e] /\ snap'[e] = snap[e]
               /\ fresh'[e] = fresh[e] /\ ret'[e] = ret[e]
    <3>1. e \in Writers
      BY DEF Writers
    <3>2. QED
      BY <2>1, <3>1, LocalFacts
      DEF TypedInv, TypedShape, ControlShape, CarriedShape, DoReturns, DeleteEntry, Wake
  <2>2. QED
    BY <2>1 DEF OthersAsBefore
<1>2. UNCHANGED <<file, valid, lost, acct, snap, fresh>>
  BY DEF DoReturns, DeleteEntry, Wake
<1>3. ASSUME NEW b \in Ids, Stores(c, b)
      PROVE  Stores(c, b)'
  <2>1. c \in HostCalls /\ step[c] \in {"leaving", "returned"} /\ ret[c] = valid[b]
    BY <1>3, WriterKinds
    DEF Stores, DoReturns, DeleteEntry, Wake, WaitersWait, TypedInv, CredentialInv,
        HandlerInv, RunsAsLeader, HasAccount
  <2>2. ret' = ret
    BY <2>1 DEF DoReturns, DeleteEntry, Wake, WaitersWait
  <2>3. step'[c] = "returned"
    BY <2>1, WriterKinds DEF DoReturns, TypedInv, TypedShape, ControlShape
  <2>4. QED
    BY <1>2, <1>3, <2>1, <2>2, <2>3 DEF Stores
<1>4. \A b \in Ids : Stores(c, b) => Explained(b)'
  BY <1>3 DEF Explained
<1>5. QED
  BY <1>1, <1>2, <1>4, StillExplained

\* A rotation by a keepalive makes it the one to store the new token.
LEMMA KeepaliveRefreshLag ==
  ASSUME LagInv, NEW k \in Keepers, KeepaliveRefresh(k)
  PROVE  \A b \in Ids : Explained(b)'
<1> USE DEF LagInv
<1>1. OthersAsBefore(k)
  <2>1. ASSUME NEW e \in Callers \ {k}
        PROVE  /\ step'[e] = step[e] /\ acct'[e] = acct[e] /\ snap'[e] = snap[e]
               /\ fresh'[e] = fresh[e] /\ ret'[e] = ret[e]
    <3>1. e \in Writers
      BY DEF Writers
    <3>2. QED
      BY <2>1, <3>1
      DEF TypedInv, TypedShape, ControlShape, CarriedShape, KeepaliveRefresh,
          UpstreamAccepts, mutexVars
  <2>2. QED
    BY <2>1 DEF OthersAsBefore
<1>2. k \in Callers /\ k \in Writers /\ acct[k] \in Ids /\ UNCHANGED <<file, lost>>
  BY WriterKinds, LocalFacts DEF TypedInv, KeepaliveRefresh, UpstreamAccepts
<1>acct. PICK a \in Ids : a = acct[k]
  BY <1>2
<1>3. \A b \in Ids : ~Stores(k, b)
  BY <1>acct, <1>2, WriterKinds DEF Stores, KeepaliveRefresh
<1>4. PICK t \in Tokens : /\ snap[k].rt = valid[acct[k]]
                         /\ valid' = [valid EXCEPT ![acct[k]] = t]
                         /\ fresh' = [fresh EXCEPT ![k] = t]
  BY DEF KeepaliveRefresh, UpstreamAccepts
<1>5. CASE t = valid[acct[k]]
  <2>1. valid' = valid
    BY <1>acct, <1>2, <1>4, <1>5 DEF TypedInv, TypedShape, FileShape
  <2>2. QED
    BY <1>acct, <1>1, <1>2, <1>3, <2>1, ElsewhereExplained
<1>6. CASE t # valid[acct[k]]
  <2>1. Stores(k, a)'
    BY <1>acct, <1>2, <1>4, <1>6
    DEF Stores, KeepaliveRefresh, TypedInv, TypedShape, ControlShape,
       CarriedShape
  <2>2. Explained(a)'
    BY <1>acct, <1>2, <2>1 DEF Explained, KeepaliveRefresh
  <2>3. ASSUME NEW b \in Ids, b # a
        PROVE  Explained(b)'
    <3>1. valid'[b] = valid[b]
      BY <1>acct, <1>4, <2>3 DEF TypedInv, TypedShape, FileShape
    <3>2. QED
      BY <1>acct, <1>1, <1>2, <1>3, <3>1, ElsewhereExplained
  <2>4. QED
    BY <1>acct, <2>2, <2>3
<1>7. QED
  BY <1>acct, <1>5, <1>6

\* A response that is lost explains the lag of its account.
LEMMA KeepaliveRefreshFailsLag ==
  ASSUME LagInv, NEW k \in Keepers, KeepaliveRefreshFails(k)
  PROVE  \A b \in Ids : Explained(b)'
<1> USE DEF LagInv
<1>1. OthersAsBefore(k)
  <2>1. ASSUME NEW e \in Callers \ {k}
        PROVE  /\ step'[e] = step[e] /\ acct'[e] = acct[e] /\ snap'[e] = snap[e]
               /\ fresh'[e] = fresh[e] /\ ret'[e] = ret[e]
    <3>1. e \in Writers
      BY DEF Writers
    <3>2. QED
      BY <2>1, <3>1
      DEF TypedInv, TypedShape, ControlShape, CarriedShape, KeepaliveRefreshFails,
          UpstreamFails, LeaveFlight, FnReturn
  <2>2. QED
    BY <2>1 DEF OthersAsBefore
<1>2. k \in Callers /\ k \in Writers /\ acct[k] \in Ids /\ file' = file
  BY WriterKinds, LocalFacts DEF TypedInv, KeepaliveRefreshFails
<1>acct. PICK a \in Ids : a = acct[k]
  BY <1>2
<1>3. \A b \in Ids : ~Stores(k, b)
  BY <1>acct, <1>2, WriterKinds DEF Stores, KeepaliveRefreshFails
<1>4. CASE UNCHANGED <<valid, lost>>
  BY <1>acct, <1>1, <1>2, <1>3, <1>4, ElsewhereExplained
<1>5. CASE /\ valid' = [valid EXCEPT ![acct[k]] = @ + 1]
           /\ lost' = [lost EXCEPT ![acct[k]] = TRUE]
  <2>1. Explained(a)'
    <3>1. lost'[a]
      BY <1>acct, <1>2, <1>5 DEF TypedInv, TypedShape, FileShape
    <3>2. acct' = acct
      BY DEF KeepaliveRefreshFails
    <3>3. QED
      BY <3>1, <3>2 DEF Explained
  <2>2. ASSUME NEW b \in Ids, b # a
        PROVE  Explained(b)'
    <3>1. valid'[b] = valid[b] /\ lost'[b] = lost[b]
      BY <1>acct, <1>5, <2>2 DEF TypedInv, TypedShape, FileShape
    <3>2. QED
      BY <1>acct, <1>1, <1>2, <1>3, <3>1, ElsewhereExplained
  <2>3. QED
    BY <1>acct, <2>1, <2>2
<1>6. QED
  BY <1>acct, <1>4, <1>5 DEF KeepaliveRefreshFails, UpstreamFails

\* So it does when the host had asked.
LEMMA HostRefreshFailsLag ==
  ASSUME LagInv, NEW h \in HostCalls, HostRefreshFails(h)
  PROVE  \A b \in Ids : Explained(b)'
<1> USE DEF LagInv
<1>1. OthersAsBefore(h)
  <2>1. ASSUME NEW e \in Callers \ {h}
        PROVE  /\ step'[e] = step[e] /\ acct'[e] = acct[e] /\ snap'[e] = snap[e]
               /\ fresh'[e] = fresh[e] /\ ret'[e] = ret[e]
    <3>1. e \in Writers
      BY DEF Writers
    <3>2. QED
      BY <2>1, <3>1
      DEF TypedInv, TypedShape, ControlShape, CarriedShape, HostRefreshFails,
          UpstreamFails, LeaveFlight, FnReturn
  <2>2. QED
    BY <2>1 DEF OthersAsBefore
<1>2. h \in Callers /\ h \in Writers /\ acct[h] \in Ids /\ file' = file
  BY WriterKinds, LocalFacts DEF TypedInv, HostRefreshFails
<1>acct. PICK a \in Ids : a = acct[h]
  BY <1>2
<1>3. \A b \in Ids : ~Stores(h, b)
  BY <1>acct, <1>2, WriterKinds DEF Stores, HostRefreshFails
<1>4. CASE UNCHANGED <<valid, lost>>
  BY <1>acct, <1>1, <1>2, <1>3, <1>4, ElsewhereExplained
<1>5. CASE /\ valid' = [valid EXCEPT ![acct[h]] = @ + 1]
           /\ lost' = [lost EXCEPT ![acct[h]] = TRUE]
  <2>1. Explained(a)'
    <3>1. lost'[a]
      BY <1>acct, <1>2, <1>5 DEF TypedInv, TypedShape, FileShape
    <3>2. acct' = acct
      BY DEF HostRefreshFails
    <3>3. QED
      BY <3>1, <3>2 DEF Explained
  <2>2. ASSUME NEW b \in Ids, b # a
        PROVE  Explained(b)'
    <3>1. valid'[b] = valid[b] /\ lost'[b] = lost[b]
      BY <1>acct, <1>5, <2>2 DEF TypedInv, TypedShape, FileShape
    <3>2. QED
      BY <1>acct, <1>1, <1>2, <1>3, <3>1, ElsewhereExplained
  <2>3. QED
    BY <1>acct, <2>1, <2>2
<1>6. QED
  BY <1>acct, <1>4, <1>5 DEF HostRefreshFails, UpstreamFails

\* What a keepalive saves is the valid token.
LEMMA KeepaliveSaveLag ==
  ASSUME LagInv, NEW k \in Keepers, KeepaliveSave(k)
  PROVE  \A b \in Ids : Explained(b)'
<1> USE DEF LagInv
<1>1. OthersAsBefore(k)
  <2>1. ASSUME NEW e \in Callers \ {k}
        PROVE  /\ step'[e] = step[e] /\ acct'[e] = acct[e] /\ snap'[e] = snap[e]
               /\ fresh'[e] = fresh[e] /\ ret'[e] = ret[e]
    <3>1. e \in Writers
      BY DEF Writers
    <3>2. QED
      BY <2>1, <3>1
      DEF TypedInv, TypedShape, ControlShape, CarriedShape, KeepaliveSave, LeaveFlight,
          FnReturn
  <2>2. QED
    BY <2>1 DEF OthersAsBefore
<1>2. k \in Callers /\ k \in Writers /\ acct[k] \in Ids /\ UNCHANGED <<valid, lost, acct>>
  BY WriterKinds, LocalFacts DEF TypedInv, KeepaliveSave
<1>acct. PICK a \in Ids : a = acct[k]
  BY <1>2
<1>3. fresh[k] = valid[acct[k]] /\ fresh[k] \in Tokens /\ snap[k] \in FileRec
  BY <1>acct, <1>2, LocalFacts
  DEF TypedInv, TypedShape, CarriedShape, CredentialInv, HandlerInv, SavedTokenIsCurrent,
      KeepaliveSave
<1>4. PICK r : r = [snap[k] EXCEPT !.rt = fresh[k]]
  OBVIOUS
<1>5. r.rt = fresh[k]
  BY <1>acct, <1>3, <1>4, FileRecs
<1>6. file' = [file EXCEPT ![acct[k]] = r]
  BY <1>acct, <1>4 DEF KeepaliveSave, MergeForeign
<1>7. file'[acct[k]].rt = valid'[acct[k]]
  BY <1>acct, <1>2, <1>3, <1>5, <1>6 DEF TypedInv, TypedShape, FileShape
<1>8. Explained(a)'
  BY <1>acct, <1>2, <1>7 DEF Explained
<1>9. ASSUME NEW b \in Ids, b # a
      PROVE  Explained(b)'
  <2>1. file'[b] = file[b]
    BY <1>acct, <1>6, <1>9 DEF TypedInv, TypedShape, FileShape
  <2>2. ~Stores(k, b)
    BY <1>acct, <1>9 DEF Stores
  <2>3. QED
    BY <1>acct, <1>1, <1>2, <2>1, <2>2, ElsewhereExplained
<1>10. QED
  BY <1>acct, <1>8, <1>9

\* The last save that fails loses the token it was to store, if it was new.
LEMMA KeepaliveSaveFailsLag ==
  ASSUME LagInv, NEW k \in Keepers, KeepaliveSaveFails(k)
  PROVE  \A b \in Ids : Explained(b)'
<1> USE DEF LagInv
<1>1. OthersAsBefore(k)
  <2>1. ASSUME NEW e \in Callers \ {k}
        PROVE  /\ step'[e] = step[e] /\ acct'[e] = acct[e] /\ snap'[e] = snap[e]
               /\ fresh'[e] = fresh[e] /\ ret'[e] = ret[e]
    <3>1. e \in Writers
      BY DEF Writers
    <3>2. CASE tries[k] + 1 < SaveTries
      BY <3>2 DEF KeepaliveSaveFails, mutexVars
    <3>3. CASE ~(tries[k] + 1 < SaveTries)
      BY <2>1, <3>1, <3>3, LocalFacts
      DEF TypedInv, TypedShape, ControlShape, KeepaliveSaveFails, LeaveFlight, FnReturn
    <3>4. QED
      BY <3>2, <3>3
  <2>2. QED
    BY <2>1 DEF OthersAsBefore
<1>2. k \in Callers /\ k \in Writers /\ acct[k] \in Ids /\ UNCHANGED <<file, valid,
    acct, snap, fresh>>
  BY WriterKinds, LocalFacts DEF TypedInv, KeepaliveSaveFails
<1>acct. PICK a \in Ids : a = acct[k]
  BY <1>2
<1>3. CASE tries[k] + 1 < SaveTries
  <2>1. UNCHANGED <<step, lost, ret>>
    BY <1>acct, <1>3 DEF KeepaliveSaveFails, mutexVars
  <2>2. \A b \in Ids : Stores(k, b) => Explained(b)'
    BY <1>acct, <1>2, <2>1 DEF Stores, Explained
  <2>3. QED
    BY <1>acct, <1>1, <1>2, <2>1, <2>2, StillExplained
<1>4. CASE ~(tries[k] + 1 < SaveTries) /\ snap[k].rt = fresh[k]
  <2>1. lost' = lost
    BY <1>acct, <1>4 DEF KeepaliveSaveFails
  <2>2. \A b \in Ids : ~Stores(k, b)
    BY <1>acct, <1>4, WriterKinds DEF Stores
  <2>3. QED
    BY <1>acct, <1>1, <1>2, <2>1, <2>2, ElsewhereExplained
<1>5. CASE ~(tries[k] + 1 < SaveTries) /\ snap[k].rt # fresh[k]
  <2>1. lost' = [lost EXCEPT ![acct[k]] = TRUE]
    BY <1>acct, <1>5 DEF KeepaliveSaveFails
  <2>2. Explained(a)'
    BY <1>acct, <1>2, <2>1 DEF Explained, TypedInv, TypedShape, FileShape
  <2>3. ASSUME NEW b \in Ids, b # a
        PROVE  Explained(b)'
    <3>1. lost'[b] = lost[b] /\ ~Stores(k, b)
      BY <1>acct, <2>1, <2>3 DEF Stores, TypedInv, TypedShape, FileShape
    <3>2. QED
      BY <1>acct, <1>1, <1>2, <3>1, ElsewhereExplained
  <2>4. QED
    BY <1>acct, <2>2, <2>3
<1>6. QED
  BY <1>acct, <1>3, <1>4, <1>5

\* After a rotation for the host, its answer holds the valid token.
LEMMA HostRefreshSendLag ==
  ASSUME LagInv, NEW h \in HostCalls, HostRefreshSend(h)
  PROVE  \A b \in Ids : Explained(b)'
<1> USE DEF LagInv
<1>1. OthersAsBefore(h)
  <2>1. ASSUME NEW e \in Callers \ {h}
        PROVE  /\ step'[e] = step[e] /\ acct'[e] = acct[e] /\ snap'[e] = snap[e]
               /\ fresh'[e] = fresh[e] /\ ret'[e] = ret[e]
    <3>1. e \in Writers
      BY DEF Writers
    <3>2. QED
      BY <2>1, <3>1
      DEF TypedInv, TypedShape, ControlShape, CarriedShape, HostRefreshSend,
          UpstreamAccepts, LeaveFlight, FnReturn
  <2>2. QED
    BY <2>1 DEF OthersAsBefore
<1>2. h \in Callers /\ h \in Writers /\ acct[h] \in Ids /\ UNCHANGED <<file, lost, acct>>
  BY WriterKinds, LocalFacts DEF TypedInv, HostRefreshSend, UpstreamAccepts
<1>acct. PICK a \in Ids : a = acct[h]
  BY <1>2
<1>3. \A b \in Ids : ~Stores(h, b)
  BY <1>acct, <1>2, WriterKinds DEF Stores, HostRefreshSend
<1>4. PICK t \in Tokens : /\ valid' = [valid EXCEPT ![acct[h]] = t]
                         /\ ret' = [ret EXCEPT ![h] = t]
                         /\ step' = [step EXCEPT ![h] = "leaving"]
  BY DEF HostRefreshSend, UpstreamAccepts, LeaveFlight, FnReturn
<1>5. Stores(h, a)'
  BY <1>acct, <1>2, <1>4, LocalFacts
  DEF Stores, TypedInv, TypedShape, ControlShape, FileShape
<1>6. Explained(a)'
  BY <1>acct, <1>2, <1>5 DEF Explained
<1>7. ASSUME NEW b \in Ids, b # a
      PROVE  Explained(b)'
  <2>1. valid'[b] = valid[b]
    BY <1>acct, <1>4, <1>7 DEF TypedInv, TypedShape, FileShape
  <2>2. QED
    BY <1>acct, <1>1, <1>2, <1>3, <2>1, ElsewhereExplained
<1>8. QED
  BY <1>acct, <1>6, <1>7

\* The answer to the host carries the token that Do returned.
LEMMA HostRefreshEndsLag ==
  ASSUME LagInv, NEW h \in HostCalls, HostRefreshEnds(h)
  PROVE  \A b \in Ids : Explained(b)'
<1> USE DEF LagInv
<1>1. OthersAsBefore(h)
  <2>1. ASSUME NEW e \in Callers \ {h}
        PROVE  /\ step'[e] = step[e] /\ acct'[e] = acct[e] /\ snap'[e] = snap[e]
               /\ fresh'[e] = fresh[e] /\ ret'[e] = ret[e]
    <3>1. e \in Writers
      BY DEF Writers
    <3>2. QED
      BY <2>1, <3>1
      DEF TypedInv, TypedShape, ControlShape, CarriedShape, HostRefreshEnds, Take, Leave
  <2>2. QED
    BY <2>1 DEF OthersAsBefore
<1>2. h \in Callers /\ h \in Writers /\ UNCHANGED <<file, valid, lost>>
  BY WriterKinds DEF HostRefreshEnds
<1>3. ASSUME NEW b \in Ids, Stores(h, b)
      PROVE  Stores(h, b)'
  <2>1. acct[h] = b /\ ret[h] = valid[b]
    BY <1>2, <1>3, WriterKinds
    DEF Stores, HostRefreshEnds, Take, TypedInv, CredentialInv, HandlerInv,
        RunsAsLeader, HasAccount
  <2>2. valid[b] \in Tokens \cup {NoRT} /\ valid[b] # Failed
    BY CredentialAssumption DEF TypedInv, TypedShape, FileShape
  <2>3. /\ snap' = [snap EXCEPT ![h] = [@ EXCEPT !.rt = ret[h]]]
        /\ step' = [step EXCEPT ![h] = "reply"]
        /\ acct' = acct
    BY <2>1, <2>2 DEF HostRefreshEnds, MergeForeign
  <2>4. PICK r : r = [snap[h] EXCEPT !.rt = ret[h]]
    OBVIOUS
  <2>5. r.rt = valid[b]
    BY <1>2, <2>1, <2>2, <2>4, FileRecs DEF TypedInv, TypedShape, CarriedShape
  <2>6. snap'[h].rt = valid'[b] /\ step'[h] = "reply"
    BY <1>2, <2>3, <2>4, <2>5 DEF TypedInv, TypedShape, CarriedShape, ControlShape
  <2>7. QED
    BY <2>1, <2>3, <2>6 DEF Stores
<1>4. \A b \in Ids : Stores(h, b) => Explained(b)'
  BY <1>2, <1>3 DEF Explained
<1>5. QED
  BY <1>1, <1>2, <1>4, StillExplained

\* The host stores the valid token, or loses it.
LEMMA HostStoreLag ==
  ASSUME LagInv, NEW h \in HostCalls, HostStore(h)
  PROVE  \A b \in Ids : Explained(b)'
<1> USE DEF LagInv
<1>1. OthersAsBefore(h)
  <2>1. ASSUME NEW e \in Callers \ {h}
        PROVE  /\ step'[e] = step[e] /\ acct'[e] = acct[e] /\ snap'[e] = snap[e]
               /\ fresh'[e] = fresh[e] /\ ret'[e] = ret[e]
    <3>1. e \in Writers
      BY DEF Writers
    <3>2. QED
      BY <2>1, <3>1
      DEF TypedInv, TypedShape, ControlShape, CarriedShape, HostStore, Leave, mutexVars
  <2>2. QED
    BY <2>1 DEF OthersAsBefore
<1>2. h \in Callers /\ h \in Writers /\ acct[h] \in Ids /\ valid' = valid
  BY WriterKinds, LocalFacts DEF TypedInv, HostStore
<1>3. /\ file'[acct[h]].rt = snap[h].rt
      /\ \A b \in Ids : b # acct[h] => file'[b] = file[b]
  BY <1>2 DEF HostStore, TypedInv, TypedShape, FileShape
<1>4. /\ snap[h].rt # valid[acct[h]] => lost'[acct[h]]
      /\ \A b \in Ids : b # acct[h] => lost'[b] = lost[b]
  BY <1>2 DEF HostStore, TypedInv, TypedShape, FileShape
<1>5. PICK a \in Ids : a = acct[h]
  BY <1>2
<1>6. Explained(a)'
  BY <1>2, <1>3, <1>4, <1>5 DEF Explained
<1>7. ASSUME NEW b \in Ids, b # a
      PROVE  Explained(b)'
  <2>1. ~Stores(h, b)
    BY <1>5, <1>7 DEF Stores
  <2>2. QED
    BY <1>1, <1>2, <1>3, <1>4, <1>5, <1>7, <2>1, ElsewhereExplained
<1>8. QED
  BY <1>6, <1>7

\* An administrator changes no token.
LEMMA HostPatchLag ==
  ASSUME LagInv, NEW a \in Ids, HostPatch(a)
  PROVE  \A b \in Ids : Explained(b)'
<1> USE DEF LagInv
<1>1. UNCHANGED <<valid, lost, step, acct, snap, fresh, ret>>
  BY DEF HostPatch, mutexVars
<1>2. ASSUME NEW b \in Ids
      PROVE  file'[b].rt = file[b].rt
  <2>1. PICK d \in BOOLEAN : file' = [file EXCEPT ![a].disabled = d]
    BY DEF HostPatch
  <2>2. PICK r : r = [file[a] EXCEPT !.disabled = d]
    OBVIOUS
  <2>3. r.rt = file[a].rt
    BY <2>1, <2>2, FileRecs DEF TypedInv, TypedShape, FileShape
  <2>4. file' = [file EXCEPT ![a] = r]
    BY <2>1, <2>2
  <2>5. QED
    BY <2>3, <2>4 DEF TypedInv, TypedShape, FileShape
<1>3. OthersAsBefore(None) /\ None \notin Callers
  BY <1>1, WriterKinds DEF OthersAsBefore, Writers
<1>4. QED
  BY <1>1, <1>2, <1>3, StillExplained

\* A disabling writes back the token it read: the one that is there, the valid
\* one, or an old one, which is then lost.
LEMMA DisableSaveLag ==
  ASSUME LagInv, NEW d \in Disablers, DisableSave(d)
  PROVE  \A b \in Ids : Explained(b)'
<1> USE DEF LagInv
<1>1. OthersAsBefore(d)
  <2>1. ASSUME NEW e \in Callers \ {d}
        PROVE  /\ step'[e] = step[e] /\ acct'[e] = acct[e] /\ snap'[e] = snap[e]
               /\ fresh'[e] = fresh[e] /\ ret'[e] = ret[e]
    <3>1. e \in Writers
      BY DEF Writers
    <3>2. QED
      BY <2>1, <3>1
      DEF TypedInv, TypedShape, ControlShape, CarriedShape, DisableSave, Leave, mutexVars
  <2>2. QED
    BY <2>1 DEF OthersAsBefore
<1>2. d \notin Callers /\ d \in Writers /\ acct[d] \in Ids /\ valid' = valid
  BY WriterKinds, LocalFacts DEF TypedInv, DisableSave
<1>3. PICK a \in Ids : a = acct[d]
  BY <1>2
<1>4. PICK r : r = [snap[d] EXCEPT !.disabled = TRUE]
  OBVIOUS
<1>5. r.rt = snap[d].rt
  BY <1>2, <1>4, FileRecs DEF TypedInv, TypedShape, CarriedShape
<1>6. file' = [file EXCEPT ![a] = r]
  BY <1>3, <1>4 DEF DisableSave
<1>7. /\ file'[a].rt = snap[d].rt
      /\ \A b \in Ids : b # a => file'[b] = file[b]
  BY <1>5, <1>6 DEF TypedInv, TypedShape, FileShape
<1>8. /\ snap[d].rt \notin {file[a].rt, valid[a]} => lost'[a]
      /\ lost[a] => lost'[a]
      /\ \A b \in Ids : b # a => lost'[b] = lost[b]
  BY <1>3 DEF DisableSave, TypedInv, TypedShape, FileShape
<1>9. Explained(a)'
  <2>1. CASE snap[d].rt = file[a].rt
    BY <1>1, <1>2, <1>7, <1>8, <2>1, StillExplained
  <2>2. CASE snap[d].rt # file[a].rt
    BY <1>2, <1>7, <1>8, <2>2 DEF Explained
  <2>3. QED
    BY <2>1, <2>2
<1>10. ASSUME NEW b \in Ids, b # a
       PROVE  Explained(b)'
  BY <1>1, <1>2, <1>7, <1>8, <1>10, ElsewhereExplained
<1>11. QED
  BY <1>9, <1>10

\* Where callers are in Do and in their handlers, after a step of c: the others
\* stay, c waits in both or in neither.
WaitsAfter(c) ==
  /\ \A d \in Callers \ {c} : pc'[d] = pc[d] /\ step'[d] = step[d]
  /\ c \in Callers => (pc'[c] = "wait" => step'[c] = "waiting")

\* A keepalive waits in runKeepalive when it has joined a flight.
LEMMA KeepaliveWaits ==
  ASSUME TypedInv, WaitersWait, NEW k \in Keepers,
         \/ \E a \in Ids : KeepaliveCall(k, a)
         \/ KeepaliveLock(k)
         \/ KeepaliveStep(k)
  PROVE  WaitsAfter(k)
<1>1. /\ k \in Callers /\ k \in Writers /\ DOMAIN pc = Callers
      /\ \A d \in Callers : d \in Writers
      /\ DOMAIN step = Writers
  BY WriterKinds, LocalFacts DEF TypedInv, TypedShape, ControlShape, Writers
<1>2. step[k] \in {"lock", "read", "refresh", "save"} => pc[k] = "fn"
  BY DEF TypedInv, CredentialInv, HandlerInv, RunsAsLeader
<1>3. CASE \E a \in Ids : KeepaliveCall(k, a)
  BY <1>1, <1>3 DEF WaitsAfter, KeepaliveCall, Join, Lead
<1>4. CASE KeepaliveLock(k) \/ KeepaliveRefresh(k)
  BY <1>1, <1>2, <1>4 DEF WaitsAfter, KeepaliveLock, KeepaliveRefresh, mutexVars
<1>5. CASE \E v : LeaveFlight(k, v)
  BY <1>1, <1>5 DEF WaitsAfter, LeaveFlight, FnReturn
<1>6. CASE KeepaliveRead(k)
  <2>1. CASE step' = [step EXCEPT ![k] = "refresh"] /\ UNCHANGED mutexVars
    BY <1>1, <1>2, <1>6, <2>1 DEF WaitsAfter, KeepaliveRead, mutexVars
  <2>2. QED
    BY <1>5, <1>6, <2>1 DEF KeepaliveRead
<1>7. CASE KeepaliveSaveFails(k)
  <2>1. CASE UNCHANGED <<mutexVars, step>>
    BY <1>2, <1>7, <2>1 DEF WaitsAfter, KeepaliveSaveFails, mutexVars
  <2>2. QED
    BY <1>5, <1>7, <2>1 DEF KeepaliveSaveFails
<1>8. CASE Release(k) \/ DoReturns(k) \/ KeepaliveEnds(k)
  BY <1>1, <1>8
  DEF WaitsAfter, Release, CloseDone, fileVars, DoReturns, DeleteEntry, Wake,
      KeepaliveEnds,
      Take, Leave
<1>9. CASE KeepaliveUnavailable(k) \/ KeepaliveRefreshFails(k) \/ KeepaliveSave(k)
  BY <1>5, <1>9 DEF KeepaliveUnavailable, KeepaliveRefreshFails, KeepaliveSave
<1>10. QED
  BY <1>3, <1>4, <1>6, <1>7, <1>8, <1>9 DEF KeepaliveStep

\* So does a call of the host in handleAuthRefresh.
LEMMA HostWaits ==
  ASSUME TypedInv, WaitersWait, NEW h \in HostCalls,
         (\E a \in Ids : HostRefreshCall(h, a)) \/ HostStep(h)
  PROVE  WaitsAfter(h)
<1>1. /\ h \in Callers /\ h \in Writers /\ DOMAIN pc = Callers
      /\ \A d \in Callers : d \in Writers
      /\ DOMAIN step = Writers
  BY WriterKinds, LocalFacts DEF TypedInv, TypedShape, ControlShape, Writers
<1>2. step[h] \in {"idle", "called", "reply"} => pc[h] # "wait"
  BY <1>1 DEF WaitersWait
<1>3. CASE (\E a \in Ids : HostRefreshCall(h, a)) \/ HostStore(h)
  BY <1>1, <1>2, <1>3 DEF WaitsAfter, HostRefreshCall, HostStore, Leave, mutexVars
<1>4. CASE HostRefreshDo(h)
  BY <1>1, <1>4 DEF WaitsAfter, HostRefreshDo, Join, Lead
<1>5. CASE \E v : LeaveFlight(h, v)
  BY <1>1, <1>5 DEF WaitsAfter, LeaveFlight, FnReturn
<1>6. CASE HostRefreshSend(h) \/ HostRefreshFails(h)
  BY <1>5, <1>6 DEF HostRefreshSend, HostRefreshFails
<1>7. CASE Release(h) \/ DoReturns(h)
  BY <1>1, <1>7
  DEF WaitsAfter, Release, CloseDone, fileVars, DoReturns, DeleteEntry, Wake
<1>8. CASE HostRefreshEnds(h)
  <2>1. \E next \in {"idle", "reply"} : step' = [step EXCEPT ![h] = next]
    BY <1>8 DEF HostRefreshEnds, Leave
  <2>2. pc' = [pc EXCEPT ![h] = "idle"]
    BY <1>8 DEF HostRefreshEnds, Take
  <2>3. QED
    BY <1>1, <2>1, <2>2 DEF WaitsAfter
<1>9. QED
  BY <1>3, <1>4, <1>6, <1>7, <1>8 DEF HostStep

\* A disabling calls nothing that waits.
LEMMA DisableWaits ==
  ASSUME TypedInv, NEW d \in Disablers,
         \/ \E a \in Ids : DisableCall(d, a)
         \/ DisableLock(d)
         \/ DisableStep(d)
  PROVE  WaitsAfter(d)
<1>1. d \notin Callers /\ UNCHANGED pc
  BY WriterKinds
  DEF DisableStep, DisableCall, DisableLock, DisableRead, DisableFails, DisableSave,
      mutexVars
<1>2. \E next \in {"lock", "read", "save", "idle"} : step' = [step EXCEPT ![d] = next]
  BY DEF DisableStep, DisableCall, DisableLock, DisableRead, DisableFails, DisableSave,
      Leave
<1>3. \A c \in Callers : c \in Writers /\ c # d
  BY <1>1 DEF Writers
<1>4. QED
  BY <1>1, <1>2, <1>3 DEF WaitsAfter, TypedInv, TypedShape, ControlShape

\* Every step keeps each lag explained.
LEMMA NextExplained ==
  ASSUME LagInv, [Next]_vars
  PROVE  \A b \in Ids : Explained(b)'
<1>1. CASE UNCHANGED vars
  BY <1>1 DEF vars, mutexVars, fileVars, LagInv, Explained, Stores
<1>2. ASSUME NEW k \in Keepers,
             \/ \E a \in Ids : KeepaliveCall(k, a)
             \/ KeepaliveLock(k)
             \/ KeepaliveStep(k)
      PROVE  \A b \in Ids : Explained(b)'
  BY <1>2, WriterKinds, KeepaliveCallLag, KeepaliveStartLag, KeepaliveRefreshLag,
     KeepaliveRefreshFailsLag, KeepaliveSaveLag, KeepaliveSaveFailsLag, ReleaseLag,
     DoReturnsLag, KeepaliveEndsLag
  DEF KeepaliveStep
<1>3. ASSUME NEW h \in HostCalls,
             (\E a \in Ids : HostRefreshCall(h, a)) \/ HostStep(h)
      PROVE  \A b \in Ids : Explained(b)'
  BY <1>3, WriterKinds, HostRefreshCallLag, HostRefreshDoLag, HostRefreshSendLag,
     HostRefreshFailsLag, ReleaseLag, DoReturnsLag, HostRefreshEndsLag, HostStoreLag
  DEF HostStep
<1>4. ASSUME NEW d \in Disablers,
             \/ \E a \in Ids : DisableCall(d, a)
             \/ DisableLock(d)
             \/ DisableStep(d)
      PROVE  \A b \in Ids : Explained(b)'
  BY <1>4, DisableStartLag, DisableSaveLag DEF DisableStep
<1>5. ASSUME NEW a \in Ids, HostPatch(a)
      PROVE  \A b \in Ids : Explained(b)'
  BY <1>5, HostPatchLag
<1>6. QED
  BY <1>1, <1>2, <1>3, <1>4, <1>5 DEF Next

\* Every step of a caller leaves the waiters waiting.
LEMMA NextWaitersWait ==
  ASSUME TypedInv, WaitersWait, [Next]_vars
  PROVE  WaitersWait'
<1>1. CASE UNCHANGED vars
  BY <1>1 DEF vars, mutexVars, fileVars, WaitersWait
<1>2. ASSUME NEW c, WaitsAfter(c)
      PROVE  WaitersWait'
  BY <1>2 DEF WaitsAfter, WaitersWait
<1>3. ASSUME NEW a \in Ids, HostPatch(a)
      PROVE  WaitersWait'
  BY <1>3 DEF HostPatch, mutexVars, WaitersWait
<1>4. QED
  BY <1>1, <1>2, <1>3, KeepaliveWaits, HostWaits, DisableWaits DEF Next

\* The file of an account lags behind the token the upstream accepts only while
\* its store is under way, or after one of the losses the code accepts.
THEOREM LagsAreExplained == Spec => []LagIsExplained
<1>1. Init => LagInv
  <2>1. SUFFICES ASSUME Init PROVE LagInv
    OBVIOUS
  <2>2. \A a \in Ids : file[a].rt = valid[a]
    BY <2>1 DEF Init
  <2>3. WaitersWait
    BY <2>1 DEF Init, MutexInit, WaitersWait
  <2>4. QED
    BY <2>1, <2>2, <2>3, InitTypedInv DEF LagInv, Explained
<1>2. LagInv /\ [Next]_vars => LagInv'
  <2>1. LagInv => TypedInv /\ WaitersWait
    BY DEF LagInv
  <2>2. QED
    BY <2>1, NextTypedInv, NextWaitersWait, NextExplained DEF LagInv
<1>3. LagInv => LagIsExplained
  BY DEF LagInv, LagIsExplained, Explained, Stores, StoreUnderWay
<1>4. QED
  BY <1>1, <1>2, <1>3, PTL DEF Spec, Safety
=============================================================================
