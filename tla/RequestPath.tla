---------------------------- MODULE RequestPath -----------------------------
(***************************************************************************)
(* How execute and executeStream (internal/wbexecutor/executor.go) turn a  *)
(* chat request into what goes upstream, over the model lists that         *)
(* ModelRegistry keeps: the model is resolved, the body prepared with the  *)
(* effort levels of the model, and, if the upstream blocks the content,    *)
(* sent once more with a neutral prompt.  Model and levels are read under  *)
(* two locks, so the list may be replaced in between.                      *)
(***************************************************************************)
EXTENDS ModelRegistry, Payload

CONSTANTS
  Requests,
  Asked,      \* the model ids requests come with, offered or not
  Chats       \* the chats: messages and the fields next to them

ChatRec == [msgs : Seq(MessageRec), maxTokens : Nat, maxCompletionTokens : Nat,
            toolChoice : [form : STRING, type : STRING, name : STRING], tools : BOOLEAN]

ASSUME PathAssumption ==
  /\ \A list \in Catalogs : \A i \in DOMAIN list : list[i].efforts \subseteq EffortRanks
  /\ Chats \subseteq ChatRec

VARIABLE requests

pathVars == <<requests, fetches, byAuth, offered, latest>>

\* replaced is only read by properties: the account's list has been replaced
\* since the model was resolved.
NoRequest ==
  [at |-> "idle", auth |-> CHOOSE a \in Auths : TRUE, asked |-> <<>>, effort |-> NoEffort,
   model |-> <<>>, chat |-> [msgs |-> <<>>], body |-> [msgs |-> <<>>], replaced |-> FALSE]

PathInit ==
  /\ RegistryInit
  /\ requests = [r \in Requests |-> NoRequest]

Receive(r, auth, asked, effort, chat) ==
  /\ requests[r].at = "idle"
  /\ requests' = [requests EXCEPT ![r] =
       [NoRequest EXCEPT !.at = "resolve", !.auth = auth, !.asked = asked, !.effort = effort,
                         !.chat = chat]]
  /\ UNCHANGED registryVars

\* A model that is not in the account's list ends the request.
ResolveModel(r) ==
  LET model == Resolve(requests[r].auth, requests[r].asked)
  IN /\ requests[r].at = "resolve"
     /\ requests' = [requests EXCEPT ![r] =
          IF model = <<>> THEN NoRequest ELSE [@ EXCEPT !.at = "prepare", !.model = model]]
     /\ UNCHANGED registryVars

\* PreparePayload and setModel.
PreparePayload(r) ==
  LET q == requests[r]
      c == q.chat
      body == [msgs |-> PrepareMessages(c.msgs),
               maxTokens |-> MaxTokens(c.maxTokens, c.maxCompletionTokens),
               toolChoice |-> NormalizeToolChoice(c.toolChoice),
               tools |-> c.tools /\ KeepsTools(c.toolChoice),
               effort |-> NormalizeReasoningEffort(q.effort, Efforts(q.auth, q.asked))]
  IN /\ q.at = "prepare"
     /\ requests' = [requests EXCEPT ![r].at = "send", ![r].body = body]
     /\ UNCHANGED registryVars

\* The content gate is open for a neutral prompt, or shut (ExecutorGates).
Neutralize(r) ==
  /\ requests[r].at = "send"
  /\ requests' = [requests EXCEPT ![r].at = "resend", ![r].body.msgs = Neutral(@)]
  /\ UNCHANGED registryVars

\* An answer that is final.
Finish(r) ==
  /\ requests[r].at \in {"send", "resend"}
  /\ requests' = [requests EXCEPT ![r] = NoRequest]
  /\ UNCHANGED registryVars

Handle(r) == ResolveModel(r) \/ PreparePayload(r) \/ Neutralize(r) \/ Finish(r)

\* A step of a fetch; the requests notice when it replaces a list.
FetchStep ==
  /\ RegistryNext
  /\ requests' = [r \in Requests |->
       [requests[r] EXCEPT !.replaced =
          @ \/ (requests[r].at \in {"prepare", "send"}
                /\ byAuth'[requests[r].auth] # byAuth[requests[r].auth])]]

PathNext ==
  \/ FetchStep
  \/ \E r \in Requests :
       \/ Handle(r)
       \/ \E auth \in Auths, asked \in Asked, effort \in EffortRanks \cup {NoEffort}, chat \in Chats :
            Receive(r, auth, asked, effort, chat)

PathSpec == PathInit /\ [][PathNext]_pathVars
----------------------------------------------------------------------------
Sent(r) == requests[r].at \in {"send", "resend"}

PathTypeOK ==
  /\ RegistryTypeOK
  /\ \A r \in Requests :
       /\ requests[r].at \in {"idle", "resolve", "prepare", "send", "resend"}
       /\ requests[r].auth \in Auths
       /\ requests[r].effort \in EffortRanks \cup {NoEffort}
       /\ Sent(r) => requests[r].body.effort \in EffortRanks \cup {NoEffort}

\* A chat as clients write it: each call is made once and answered at most
\* once, after the call and before another role than a notice speaks, and a
\* result answers a call of the message before.
InOrder(msgs) ==
  /\ \A i \in DOMAIN msgs : \A k, l \in DOMAIN msgs[i].calls :
       msgs[i].calls[k] = msgs[i].calls[l] => k = l
  /\ \A i, j \in DOMAIN msgs : (CallsOf(msgs[i]) \cap CallsOf(msgs[j])) \ {NoId} # {} => i = j
  /\ \A j \in DOMAIN msgs : msgs[j].role = "tool" =>
       \E i \in 1..j - 1 :
         /\ msgs[j].answers \in CallsOf(msgs[i]) \ {NoId}
         /\ \A k \in i + 1..j - 1 : InBlockOf(msgs[i], msgs[k]) /\ msgs[k].answers # msgs[j].answers

\* Each call has its result and each result its call.
Paired(msgs) == CallIds(msgs) = ResultIds(msgs)

\* The results follow their calls at once.
Adjacent(msgs) ==
  \A j \in DOMAIN msgs : msgs[j].role = "tool" =>
    \E i \in 1..j - 1 :
      /\ msgs[j].answers \in CallsOf(msgs[i])
      /\ \A k \in i + 1..j - 1 : msgs[k].role = "tool"

\* Whatever the client's history holds, what goes upstream has a system
\* message first and none of the developer's, its calls and results answer
\* each other, results of a history in order follow their calls though
\* notices came in between, and so it is in the neutral form too
\* (tool_pairing.go:6-11, payload.go:220).
PairedForUpstream ==
  \A r \in Requests : Sent(r) =>
    LET msgs == requests[r].body.msgs
    IN /\ msgs # <<>> => msgs[1].role = "system"
       /\ \A i \in DOMAIN msgs : msgs[i].role # "developer"
       /\ Paired(msgs)
       /\ InOrder(requests[r].chat.msgs) => Adjacent(msgs)

LevelsOf(auth, model) ==
  UNION {byAuth[auth][p].efforts : p \in {q \in DOMAIN byAuth[auth] : byAuth[auth][q].internal = model}}

\* The effort that goes upstream is one the model sent with it takes, and more
\* than was asked only if the model has nothing less, unless the account's
\* list was replaced between the two looks at it (executor.go:35-42).
EffortFits ==
  \A r \in Requests :
    LET q == requests[r]
        levels == LevelsOf(q.auth, q.model)
    IN q.at = "send" /\ ~q.replaced /\ q.effort # NoEffort /\ levels # {} =>
         /\ q.body.effort \in levels
         /\ (q.body.effort > q.effort => \A l \in levels : l > q.effort)
=============================================================================
