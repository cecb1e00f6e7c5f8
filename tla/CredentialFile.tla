--------------------------- MODULE CredentialFile ---------------------------
(***************************************************************************)
(* One credential file and everyone who writes it: the daily keepalive of  *)
(* the ticker (ops_account.go), the auth.refresh handler the host calls    *)
(* (auth_dispatch.go), the disabling of a restricted account               *)
(* (executor_restricted.go), and the host itself.  Refreshes go through    *)
(* RefreshMutex; keepalive and disabling also hold authFileWriteMu.        *)
(*                                                                         *)
(* A refresh_token is a number; the upstream accepts only the last one it  *)
(* issued.  Of a file only what the writers can lose is kept: the token,   *)
(* which stands for the plugin's own keys, and disabled, which stands for  *)
(* the foreign keys (disabled, note, priority).                            *)
(***************************************************************************)
EXTENDS RefreshMutex, DeadCounter

CONSTANTS
  Keepers,    \* goroutines that run runKeepalive
  HostCalls,  \* host calls of auth.refresh in progress
  Disablers,  \* executor goroutines that met an 11140
  MaxToken,   \* bound: the refresh_tokens the upstream issues for an account
  NoRT,       \* a credential with an access token and no refresh_token
  Blank,      \* a credential with no token at all, as the zero value has
  Failed      \* a refresh that returned an error

Tokens == 1..MaxToken

ASSUME CredentialAssumption ==
  /\ MaxToken \in Nat \ {0}
  /\ Callers = Keepers \cup HostCalls
  /\ Keepers \cap HostCalls = {}
  /\ Disablers \cap Callers = {}
  /\ None \notin Callers \cup Disablers
  /\ Results = Tokens \cup {Blank, Failed}
  /\ Zero = Blank
  /\ NoRT \notin Tokens \cup {Blank, Failed}
  /\ Blank \notin Tokens \cup {Failed}
  /\ Failed \notin Tokens

VARIABLES
  file,    \* the credential file of an account, as host.auth.get returns it
  valid,   \* the refresh_token the upstream accepts
  mu,      \* the holder of authFileWriteMu, or None
  step,    \* where a writer is in its handler
  acct,    \* the account it works for
  snap,    \* the file as it read it (oldRaw, req.StorageJSON, saved.JSON)
  fresh,   \* the token its refresh returned
  tries,   \* saves a keepalive has tried
  dead,    \* deadSessions (module DeadCounter)
  lost,    \* history: a response was lost, all saves failed, or a stale write
  hostWrote \* history: the host wrote the file since the holder of mu read it

fileVars == <<file, valid, mu, step, acct, snap, fresh, tries, dead, lost,
              hostWrote>>
vars == <<mutexVars, fileVars>>

Writers == Callers \cup Disablers
SaveTries == 3

FileRec == [rt : Tokens \cup {NoRT, Blank}, disabled : BOOLEAN]

\* What the local variables of a handler hold before it has read anything.
Unread == [rt |-> Blank, disabled |-> FALSE]

CredentialTypeOK ==
  /\ MutexTypeOK
  /\ file \in [Ids -> FileRec]
  /\ valid \in [Ids -> Tokens \cup {NoRT}]
  /\ mu \in Writers \cup {None}
  /\ step \in [Writers -> {"idle", "called", "lock", "read", "refresh", "save",
                           "leaving", "waiting", "returned", "reply"}]
  /\ acct \in [Writers -> Ids \cup {None}]
  /\ snap \in [Writers -> FileRec]
  /\ fresh \in [Callers -> Tokens \cup {NoRT}]
  /\ tries \in [Keepers -> 0..SaveTries]
  /\ dead \in [Ids -> DeadRec]
  /\ lost \in [Ids -> BOOLEAN]
  /\ hostWrote \in BOOLEAN

Init ==
  /\ MutexInit
  /\ valid \in [Ids -> {1, NoRT}]
  /\ file = [a \in Ids |-> [rt |-> valid[a], disabled |-> FALSE]]
  /\ mu = None
  /\ step = [w \in Writers |-> "idle"]
  /\ acct = [w \in Writers |-> None]
  /\ snap = [w \in Writers |-> Unread]
  /\ fresh = [c \in Callers |-> NoRT]
  /\ tries = [k \in Keepers |-> 0]
  /\ dead = [a \in Ids |-> NeverDead]
  /\ lost = [a \in Ids |-> FALSE]
  /\ hostWrote = FALSE

-----------------------------------------------------------------------------
(***************************************************************************)
(* Helpers                                                                 *)
(***************************************************************************)

\* mergeForeignAuthMetadata: own keys from the fresh credential, every other
\* key from the file that was read.
MergeForeign(old, t) == [old EXCEPT !.rt = t]

\* The upstream answers the refresh of c with token t: a new one, or none in
\* the response, which leaves the old one in place.
UpstreamAccepts(c, t) ==
  LET a == acct[c] IN
  /\ snap[c].rt \in Tokens
  /\ snap[c].rt = valid[a]
  /\ t \in {valid[a], valid[a] + 1} \cap Tokens
  /\ valid' = [valid EXCEPT ![a] = t]
  /\ UNCHANGED lost

\* The refresh fails: it never arrived or was refused, which the upstream may do
\* to a good token as well, or it rotated the token and the response was lost.
UpstreamFails(c) ==
  LET a == acct[c] IN
  \/ UNCHANGED <<valid, lost>>
  \/ /\ snap[c].rt \in Tokens
     /\ snap[c].rt = valid[a]
     /\ valid[a] + 1 \in Tokens
     /\ valid' = [valid EXCEPT ![a] = @ + 1]
     /\ lost' = [lost EXCEPT ![a] = TRUE]

\* A handler returns and its local variables are gone.
Leave(w) == /\ step' = [step EXCEPT ![w] = "idle"]
            /\ acct' = [acct EXCEPT ![w] = None]
            /\ snap' = [snap EXCEPT ![w] = Unread]

Unlock(w) == IF mu = w THEN mu' = None /\ hostWrote' = FALSE
                       ELSE UNCHANGED <<mu, hostWrote>>

\* The host overwrites the file of a without asking for authFileWriteMu.
HostWrites(a) == hostWrote' = (hostWrote \/ (mu # None /\ acct[mu] = a))

\* fn returns v to Do; the deferred Unlock has run before.
LeaveFlight(c, v) ==
  /\ FnReturn(c, v)
  /\ step' = [step EXCEPT ![c] = "leaving"]
  /\ Unlock(c)

-----------------------------------------------------------------------------
(***************************************************************************)
(* opsTicker.runKeepalive                                                  *)
(***************************************************************************)

\* Wrong variant: authFileWriteMu is taken before Do instead of inside fn.
KeepaliveCallLocked(k, a) ==
  /\ step[k] = "idle"
  /\ mu = None
  /\ mu' = k
  /\ acct' = [acct EXCEPT ![k] = a]
  /\ \/ /\ Join(k, a)
        /\ step' = [step EXCEPT ![k] = "waiting"]
     \/ /\ \E f \in Flights : Lead(k, a, f)
        /\ step' = [step EXCEPT ![k] = "read"]
  /\ UNCHANGED <<file, valid, snap, fresh, tries, dead, lost, hostWrote>>

\* authRefreshMutex.Do(acct.authID, ...): wait for a refresh under way or lead.
KeepaliveCall(k, a) ==
  /\ step[k] = "idle"
  /\ acct' = [acct EXCEPT ![k] = a]
  /\ \/ /\ Join(k, a)
        /\ step' = [step EXCEPT ![k] = "waiting"]
     \/ /\ \E f \in Flights : Lead(k, a, f)
        /\ step' = [step EXCEPT ![k] = "lock"]
  /\ UNCHANGED <<file, valid, mu, snap, fresh, tries, dead, lost, hostWrote>>

\* authFileWriteMu.Lock() inside fn.
KeepaliveLock(k) ==
  /\ step[k] = "lock"
  /\ mu = None
  /\ mu' = k
  /\ step' = [step EXCEPT ![k] = "read"]
  /\ UNCHANGED <<mutexVars, file, valid, acct, snap, fresh, tries, dead, lost,
                 hostWrote>>

\* oldRaw is read and parsed; without a refresh_token fn returns the zero
\* RefreshResult and no error.
KeepaliveRead(k) ==
  LET a == acct[k] IN
  /\ step[k] = "read"
  /\ snap' = [snap EXCEPT ![k] = file[a]]
  /\ hostWrote' = FALSE
  /\ \/ /\ file[a].rt \in Tokens
        /\ step' = [step EXCEPT ![k] = "refresh"]
        /\ UNCHANGED <<mutexVars, mu>>
     \/ file[a].rt = NoRT /\ LeaveFlight(k, Zero)
     \/ file[a].rt = Blank /\ LeaveFlight(k, Failed)
  /\ UNCHANGED <<file, valid, acct, fresh, tries, dead, lost>>

\* host.auth.get, or the HTTP client for the call, is not to be had.
KeepaliveUnavailable(k) ==
  /\ step[k] \in {"read", "refresh"}
  /\ LeaveFlight(k, Failed)
  /\ UNCHANGED <<file, valid, acct, snap, fresh, tries, dead, lost>>

\* wbauth.Refresh succeeds: the 12153 count is cleared, the file is still old.
KeepaliveRefresh(k) ==
  LET a == acct[k] IN
  /\ step[k] = "refresh"
  /\ \E t \in Tokens : /\ UpstreamAccepts(k, t)
                       /\ fresh' = [fresh EXCEPT ![k] = t]
  /\ dead' = [dead EXCEPT ![a] = ClearDead(@)]
  /\ step' = [step EXCEPT ![k] = "save"]
  /\ UNCHANGED <<mutexVars, file, mu, acct, snap, tries, hostWrote>>

\* wbauth.Refresh fails, with a 12153 or another error: nothing is written.
KeepaliveRefreshFails(k) ==
  LET a == acct[k] IN
  /\ step[k] = "refresh"
  /\ UpstreamFails(k)
  /\ \/ dead' = [dead EXCEPT ![a] = NoteDead(@)]
     \/ UNCHANGED dead
  /\ LeaveFlight(k, Failed)
  /\ UNCHANGED <<file, acct, snap, fresh, tries>>

\* Wrong variant: the old file wins for the plugin's own keys.
KeepaliveSaveOldKeys(k) ==
  /\ step[k] = "save"
  /\ file' = [file EXCEPT ![acct[k]] = snap[k]]
  /\ LeaveFlight(k, fresh[k])
  /\ UNCHANGED <<valid, acct, snap, fresh, tries, dead, lost>>

\* host.auth.save succeeds and fn returns the refreshed credential.
KeepaliveSave(k) ==
  /\ step[k] = "save"
  /\ file' = [file EXCEPT ![acct[k]] = MergeForeign(snap[k], fresh[k])]
  /\ LeaveFlight(k, fresh[k])
  /\ UNCHANGED <<valid, acct, snap, fresh, tries, dead, lost>>

\* host.auth.save fails: two more tries a second apart, then the error is all
\* that is left of the new token.
KeepaliveSaveFails(k) ==
  LET a == acct[k] IN
  /\ step[k] = "save"
  /\ tries' = [tries EXCEPT ![k] = @ + 1]
  /\ IF tries[k] + 1 < SaveTries
     THEN UNCHANGED <<mutexVars, mu, step, lost, hostWrote>>
     ELSE /\ LeaveFlight(k, Failed)
          /\ lost' = IF snap[k].rt = fresh[k] THEN lost
                     ELSE [lost EXCEPT ![a] = TRUE]
  /\ UNCHANGED <<file, valid, acct, snap, fresh, dead>>

-----------------------------------------------------------------------------
(***************************************************************************)
(* handleAuthRefresh, and the host that calls it and stores its answer     *)
(***************************************************************************)

\* The request carries StorageJSON as the host has it now; a credential without
\* access token does not parse and ends the call.
HostRefreshCall(h, a) ==
  /\ step[h] = "idle"
  /\ file[a].rt # Blank
  /\ step' = [step EXCEPT ![h] = "called"]
  /\ acct' = [acct EXCEPT ![h] = a]
  /\ snap' = [snap EXCEPT ![h] = file[a]]
  /\ UNCHANGED <<mutexVars, file, valid, mu, fresh, tries, dead, lost, hostWrote>>

\* authRefreshMutex.Do(req.AuthID, ...), the same key as the keepalive's.
HostRefreshDo(h) ==
  LET a == acct[h] IN
  /\ step[h] = "called"
  /\ \/ /\ Join(h, a)
        /\ step' = [step EXCEPT ![h] = "waiting"]
     \/ /\ \E f \in Flights : Lead(h, a, f)
        /\ step' = [step EXCEPT ![h] = "refresh"]
  /\ UNCHANGED <<file, valid, mu, acct, snap, fresh, tries, dead, lost, hostWrote>>

\* wbauth.Refresh with the credential of the request.
HostRefreshSend(h) ==
  /\ step[h] = "refresh"
  /\ \E t \in Tokens : /\ UpstreamAccepts(h, t)
                       /\ fresh' = [fresh EXCEPT ![h] = t]
                       /\ LeaveFlight(h, t)
  /\ UNCHANGED <<file, acct, snap, tries, dead>>

\* wbauth.Refresh fails; so it does at once without a refresh_token.
HostRefreshFails(h) ==
  /\ step[h] = "refresh"
  /\ UpstreamFails(h)
  /\ LeaveFlight(h, Failed)
  /\ UNCHANGED <<file, acct, snap, fresh, tries, dead>>

\* The handler passes an error on, or answers with the credential Do returned and
\* the foreign keys of the request.
HostRefreshEnds(h) ==
  /\ Take(h)
  /\ IF ret[h] = Failed
     THEN Leave(h)
     ELSE /\ snap' = [snap EXCEPT ![h] = MergeForeign(@, ret[h])]
          /\ step' = [step EXCEPT ![h] = "reply"]
          /\ UNCHANGED acct
  /\ fresh' = [fresh EXCEPT ![h] = NoRT]
  /\ UNCHANGED <<file, valid, mu, tries, dead, lost, hostWrote>>

\* The host stores the answer.
HostStore(h) ==
  LET a == acct[h] IN
  /\ step[h] = "reply"
  /\ file' = [file EXCEPT ![a] = snap[h]]
  /\ lost' = IF snap[h].rt = valid[a] THEN lost
             ELSE [lost EXCEPT ![a] = TRUE]
  /\ HostWrites(a)
  /\ Leave(h)
  /\ UNCHANGED <<mutexVars, valid, mu, fresh, tries, dead>>

\* An administrator edits the host's keys of the account.
HostPatch(a) ==
  /\ \E d \in BOOLEAN : file' = [file EXCEPT ![a].disabled = d]
  /\ HostWrites(a)
  /\ UNCHANGED <<mutexVars, valid, mu, step, acct, snap, fresh, tries, dead, lost>>

-----------------------------------------------------------------------------
(***************************************************************************)
(* disableRestrictedAccount                                                *)
(***************************************************************************)
DisableCall(d, a) ==
  /\ step[d] = "idle"
  /\ step' = [step EXCEPT ![d] = "lock"]
  /\ acct' = [acct EXCEPT ![d] = a]
  /\ UNCHANGED <<mutexVars, file, valid, mu, snap, fresh, tries, dead, lost,
                 hostWrote>>

\* Wrong variant: the account is disabled without authFileWriteMu.
DisableUnlocked(d) ==
  /\ step[d] = "lock"
  /\ step' = [step EXCEPT ![d] = "read"]
  /\ UNCHANGED <<mutexVars, file, valid, mu, acct, snap, fresh, tries, dead, lost,
                 hostWrote>>

DisableLock(d) ==
  /\ step[d] = "lock"
  /\ mu = None
  /\ mu' = d
  /\ step' = [step EXCEPT ![d] = "read"]
  /\ UNCHANGED <<mutexVars, file, valid, acct, snap, fresh, tries, dead, lost,
                 hostWrote>>

DisableRead(d) ==
  LET a == acct[d] IN
  /\ step[d] = "read"
  /\ snap' = [snap EXCEPT ![d] = file[a]]
  /\ hostWrote' = FALSE
  /\ step' = [step EXCEPT ![d] = "save"]
  /\ UNCHANGED <<mutexVars, file, valid, mu, acct, fresh, tries, dead, lost>>

\* Any of the host calls fails: the file is left alone and the lock released.
DisableFails(d) ==
  /\ step[d] \in {"read", "save"}
  /\ Leave(d)
  /\ Unlock(d)
  /\ UNCHANGED <<mutexVars, file, valid, fresh, tries, dead, lost>>

\* The file read is written back with disabled set.
DisableSave(d) ==
  LET a == acct[d] IN
  /\ step[d] = "save"
  /\ file' = [file EXCEPT ![a] = [snap[d] EXCEPT !.disabled = TRUE]]
  /\ lost' = IF snap[d].rt \in {file[a].rt, valid[a]} THEN lost
             ELSE [lost EXCEPT ![a] = TRUE]
  /\ Leave(d)
  /\ Unlock(d)
  /\ UNCHANGED <<mutexVars, valid, fresh, tries, dead>>

-----------------------------------------------------------------------------
(***************************************************************************)
(* The rest of Do, and the specification                                   *)
(***************************************************************************)

\* The leader closes r.done.
Release(c) == CloseDone(c) /\ UNCHANGED fileVars

\* Do returns, to the leader or to a waiter.
DoReturns(c) ==
  /\ DeleteEntry(c) \/ Wake(c)
  /\ step' = [step EXCEPT ![c] = "returned"]
  /\ UNCHANGED <<file, valid, mu, acct, snap, fresh, tries, dead, lost, hostWrote>>

\* runKeepalive ends, whatever Do returned.
KeepaliveEnds(k) ==
  /\ Take(k)
  /\ Leave(k)
  /\ fresh' = [fresh EXCEPT ![k] = NoRT]
  /\ tries' = [tries EXCEPT ![k] = 0]
  /\ UNCHANGED <<file, valid, mu, dead, lost, hostWrote>>

KeepaliveStep(k) ==
  \/ KeepaliveRead(k)
  \/ KeepaliveUnavailable(k)
  \/ KeepaliveRefresh(k)
  \/ KeepaliveRefreshFails(k)
  \/ KeepaliveSave(k)
  \/ KeepaliveSaveFails(k)
  \/ Release(k)
  \/ DoReturns(k)
  \/ KeepaliveEnds(k)

HostStep(h) ==
  \/ HostRefreshDo(h)
  \/ HostRefreshSend(h)
  \/ HostRefreshFails(h)
  \/ Release(h)
  \/ DoReturns(h)
  \/ HostRefreshEnds(h)
  \/ HostStore(h)

DisableStep(d) ==
  \/ DisableRead(d)
  \/ DisableFails(d)
  \/ DisableSave(d)

Next ==
  \/ \E k \in Keepers : \/ \E a \in Ids : KeepaliveCall(k, a)
                         \/ KeepaliveLock(k)
                         \/ KeepaliveStep(k)
  \/ \E h \in HostCalls : (\E a \in Ids : HostRefreshCall(h, a)) \/ HostStep(h)
  \/ \E d \in Disablers : \/ \E a \in Ids : DisableCall(d, a)
                           \/ DisableLock(d)
                           \/ DisableStep(d)
  \/ \E a \in Ids : HostPatch(a)

(***************************************************************************)
(* Handlers run to their end: the refresh has a timeout and host calls     *)
(* return.  sync.Mutex hands itself over in FIFO order to a waiter that    *)
(* has waited for a millisecond, hence strong fairness of the two locks.   *)
(* Nothing forces a keepalive, a host call or an 11140 to happen.          *)
(***************************************************************************)
Fairness ==
  /\ \A k \in Keepers : SF_vars(KeepaliveLock(k)) /\ WF_vars(KeepaliveStep(k))
  /\ \A h \in HostCalls : WF_vars(HostStep(h))
  /\ \A d \in Disablers : SF_vars(DisableLock(d)) /\ WF_vars(DisableStep(d))

Safety == Init /\ [][Next]_vars

Spec == Safety /\ Fairness

-----------------------------------------------------------------------------
(***************************************************************************)
(* Properties                                                              *)
(***************************************************************************)

HoldsSnapshot(w) == mu = w /\ step[w] \in {"refresh", "save"}

\* Between its read and its write the holder of authFileWriteMu works on the
\* file as it still is, unless the host, which takes no lock, wrote meanwhile:
\* keepalive and disabling never lose each other's update.
SnapshotIsCurrent ==
  \A w \in Writers :
    HoldsSnapshot(w) => hostWrote \/ snap[w] = file[acct[w]]

\* A keepalive that saves writes the token the upstream accepts now: nobody can
\* have rotated it between the refresh and the save.
SavedTokenIsCurrent ==
  \A k \in Keepers : step[k] = "save" => fresh[k] = valid[acct[k]]

\* Someone is still on the way to store the valid token of account a.
StoreUnderWay(a) ==
  \/ \E k \in Keepers : step[k] = "save" /\ acct[k] = a
  \/ \E h \in HostCalls : /\ acct[h] = a
                           /\ \/ step[h] \in {"leaving", "returned"} /\ ret[h] = valid[a]
                              \/ step[h] = "reply" /\ snap[h].rt = valid[a]

\* The file holds the token the upstream accepts, or the new one is about to be
\* stored, or one of three things has happened: the response with the new token
\* was lost, all saves failed, or a write from an older reading of the file (the
\* host's, or a disabling the host overtook) put an old token back.
LagIsExplained ==
  \A a \in Ids :
    file[a].rt = valid[a] \/ StoreUnderWay(a) \/ lost[a]

\* A disabling that is in the file stays there until the host itself writes: no
\* keepalive undoes it, with whatever it has read, unless the host wrote between
\* its read and its write.
OnlyHostEnables ==
  [][\A a \in Ids :
       file[a].disabled /\ ~file'[a].disabled =>
         \/ hostWrote
         \/ HostPatch(a)
         \/ \E h \in HostCalls : acct[h] = a /\ HostStore(h)]_vars

\* Every handler that has begun ends: a flight's leader may wait for
\* authFileWriteMu, but its holder never waits for a flight.
HandlersReturn == \A w \in Writers : step[w] # "idle" ~> step[w] = "idle"

\* What auth_dispatch.go says of the refresh handler: a caller that comes late
\* takes over the result, its stale StorageJSON is not used for a rotation; so no
\* request is sent with a token that another refresh has rotated already.
NeverSendsRotatedToken ==
  \A h \in HostCalls :
    step[h] = "refresh" /\ snap[h].rt \in Tokens =>
      snap[h].rt = valid[acct[h]] \/ lost[acct[h]]

\* What refresh.go says of a refresh: it returns a new credential, or an error
\* and the old credential stays; so no answer to the host is without a token.
AnswersCredential ==
  \A h \in HostCalls : step[h] = "reply" => snap[h].rt # Blank
=============================================================================
