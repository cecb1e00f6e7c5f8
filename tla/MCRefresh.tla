------------------------------- MODULE MCRefresh -----------------------------
(***************************************************************************)
(* The calls of Do and the handlers around them, as two parts of one run:  *)
(* Do by itself, with callers that pass any id and a fn that may panic     *)
(* (RefreshMutex), and the handlers of one account that share a flight and *)
(* compete for authFileWriteMu (CredentialFile).  A behaviour is one of    *)
(* the parts.                                                              *)
(***************************************************************************)
EXTENDS CredentialFile

CONSTANTS
  Account,   \* the account the handlers work for
  Two        \* flights, one for each keepalive

VARIABLE part

MCCallers == Keepers \cup HostCalls
MCResults == Tokens \cup {Blank, Failed}

refreshVars == <<part, mutexVars, fileVars>>

RefreshInit ==
  /\ Init
  /\ part \in {"do", "handlers"}
  /\ \A a \in Ids : part = "do" \/ a # Account => valid[a] = 1

\* Bound: fn returns a token, or panics and leaves the zero pair.
DoStep(c) ==
  /\ part = "do"
  /\ \/ \E v \in Tokens : DirectReturn(c, v) \/ FnReturn(c, v)
     \/ FnPanic(c) \/ CloseDone(c) \/ DeleteEntry(c) \/ Wake(c) \/ Take(c)
  /\ UNCHANGED <<part, fileVars>>

DoPart ==
  \/ \E c \in Callers : DoStep(c)
  \/ part = "do" /\ (\E c \in Callers : Begin(c)) /\ UNCHANGED <<part, fileVars>>

\* Whether a handler ends does not depend on how often a token is rotated, nor
\* on a host call, which takes no lock: MaxToken is 1, and HostCalls are idle.
Handlers(handler) ==
  part = "handlers" /\ handler /\ (\A c \in Callers : at'[c] \in Two \cup {None}) /\ UNCHANGED part

HandlersPart ==
  \/ \E k \in Keepers :
       Handlers(KeepaliveCall(k, Account) \/ KeepaliveLock(k) \/ KeepaliveStep(k))
  \/ \E d \in Disablers :
       Handlers(DisableCall(d, Account) \/ DisableLock(d) \/ DisableStep(d))
  \/ Handlers(HostPatch(Account))

RefreshNext == DoPart \/ HandlersPart

\* MutexSpec's fairness for the one part, CredentialFile's for the other.
RefreshFair ==
  /\ \A c \in Callers : WF_refreshVars(DoStep(c))
  /\ \A k \in Keepers :
       /\ SF_refreshVars(Handlers(KeepaliveLock(k)))
       /\ WF_refreshVars(Handlers(KeepaliveStep(k)))
  /\ \A d \in Disablers :
       /\ SF_refreshVars(Handlers(DisableLock(d)))
       /\ WF_refreshVars(Handlers(DisableStep(d)))

RefreshSpec == RefreshInit /\ [][RefreshNext]_refreshVars /\ RefreshFair
=============================================================================
