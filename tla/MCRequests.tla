---------------------------- MODULE MCRequests ------------------------------
(***************************************************************************)
(* Four parts of a request's way, side by side: its account is picked      *)
(* (Scheduler), the lists of models are fetched for the host and the page  *)
(* (ModelRegistry), its model is resolved while a list is replaced, and    *)
(* its chat prepared (RequestPath).  A behaviour is one of the parts; what *)
(* the others keep stays as it is.                                         *)
(***************************************************************************)
EXTENDS Scheduler, RequestPath, TLC

VARIABLE part

MCPriority == CHOOSE f \in [Accounts -> 1..2] : \E a, b \in Accounts : f[a] < f[b]
MCBodies == {{}, {"code:6004"}}

MCUserAgents == <<"cli", "workbuddy">>
Model(id, name, levels, off) == [id |-> id, name |-> name, efforts |-> levels, off |-> off]
\* Two models of one name, one named as another's id or as an id with a suffix,
\* one without an id, one that is disabled.
MCCatalogs == {
  <<Model(<<1>>, <<2>>, {2, 4}, FALSE), Model(<<2>>, <<>>, {}, FALSE)>>,
  <<Model(<<3>>, <<2, 2>>, {3}, FALSE), Model(<<2>>, <<2>>, {1}, FALSE)>>,
  <<Model(<<>>, <<2>>, {6}, FALSE), Model(<<1>>, <<1>>, {}, TRUE)>>}
MCAsked == {<<0, 2>>, <<2>>, <<0, 2, 2>>}

\* Choices of a tool, and what clients say about tokens.
Choice(form, type, name) == [form |-> form, type |-> type, name |-> name]
Fields(max, alias, choice) ==
  [msgs |-> <<Message("user")>>, maxTokens |-> max, maxCompletionTokens |-> alias,
   toolChoice |-> choice, tools |-> TRUE]
Plain == Fields(0, 0, Choice("absent", "", ""))

Calls(ids) == [Message("assistant") EXCEPT !.calls = ids]
Result(id) == [Message("tool") EXCEPT !.answers = id]
Pool ==
  {Message(role) : role \in {"user", "developer"}} \cup
  {Calls(ids) : ids \in {<<"c1">>, <<"c1", "c2">>, <<NoId>>}} \cup
  {Result(id) : id \in {"c1", "c2", NoId}}
MaxHistory == 5
MCChats ==
  {[Plain EXCEPT !.msgs = h] : h \in UNION {[1..n -> Pool] : n \in 0..MaxHistory}} \cup
  {Fields(max, alias, choice) : max \in {0, 5}, alias \in {0, 7}, choice \in
     {Choice("text", "none", ""), Choice("object", "function", ""), Choice("object", "other", "")}}

\* The chats come to accounts whose list has been stored.
SomeList == CHOOSE list \in MCCatalogs : list[1].id = <<3>>
Stored == Records(FilterAndBuild(ParseConfigModels(SomeList)))

RequestsInit ==
  /\ SchedInit
  /\ \/ part \in {"pick", "offer", "list"} /\ PathInit
     \/ /\ part = "chat"
        /\ fetches = [f \in Fetches |-> NoFetch]
        /\ byAuth = [a \in Auths |-> Stored]
        /\ offered = [a \in Auths |-> <<>>]
        /\ latest = [a \in Auths |-> {}]
        /\ requests = [r \in Requests |-> NoRequest]

PickNext == part = "pick" /\ SchedNext /\ UNCHANGED <<part, pathVars>>

OfferNext == part = "offer" /\ FetchStep /\ UNCHANGED <<part, schedVars>>

\* Bound: here one fetch at a time, and the page's only.
ListNext ==
  /\ part = "list"
  /\ \/ FetchStep /\ \A f \in Fetches : fetches'[f].at # "idle" => fetches'[f].page
     \/ \E r \in Requests :
          \/ Handle(r)
          \/ \E auth \in Auths, asked \in Asked, effort \in {1, 5, NoEffort} :
               Receive(r, auth, asked, effort, Plain)
  /\ UNCHANGED <<part, schedVars>>

ChatNext ==
  /\ part = "chat"
  /\ \E r \in Requests :
       \/ Handle(r)
       \/ /\ requests[r].at = "idle"
          /\ \E auth \in Auths, chat \in Chats : Receive(r, auth, <<0, 2>>, NoEffort, chat)
  /\ UNCHANGED <<part, schedVars>>

RequestsNext == PickNext \/ OfferNext \/ ListNext \/ ChatNext

RequestsSpec == RequestsInit /\ [][RequestsNext]_<<part, schedVars, pathVars>>

\* Bound: while two picks are under way no credits are known, and there is one
\* conversation in the sticky map or being placed, or two and no cooldown.
KeysInUse == (DOMAIN sticky.m \cup {picks[p].key : p \in Pickers}) \ {NoKey}
FewConversations ==
  (\A p \in Pickers : Placing(p)) =>
    /\ credited = {}
    /\ Cardinality(KeysInUse) <= IF cooling = {} THEN 2 ELSE 1

Symmetric == Permutations(Keys) \cup Permutations(Pickers) \cup Permutations(Fetches)
=============================================================================
