--------------------------- MODULE ModelRegistry ----------------------------
(***************************************************************************)
(* The model list of an account (internal/wbmodels, model_dispatch.go):    *)
(* fetched once per user agent, merged, given public ids and stored as the *)
(* account's way back from public ids to the upstream's.  The host asks    *)
(* for the list of an account (modelsForAuth) and is answered after it has *)
(* been stored; the management page (modelsHandler) has it fetched and     *)
(* stored too, and gives it to nobody.  Several fetches of an account may  *)
(* be under way; each call upstream is a step.                             *)
(*                                                                         *)
(* A text is a sequence of words and a word a number: 0 is the prefix      *)
(* "workbuddy/", n at the end of an id the suffix "-n".                    *)
(***************************************************************************)
EXTENDS Subsequences

CONSTANTS
  Auths,
  Fetches,      \* calls of FetchAndRegister
  Host,
  UserAgents,   \* the user agents of the catalogue, in their order
  Catalogs      \* the lists the upstream may answer a user agent with

Text == Seq(Nat)
ListedModel == [id : Text, name : Text, efforts : SUBSET Nat, off : BOOLEAN]

\* What the upstream is relied on for: an entry that is used has an id or a
\* name, and neither begins with the prefix of public ids.
ASSUME RegistryAssumption ==
  /\ Auths # {} /\ Host \notin Fetches
  /\ Len(UserAgents) \in Nat
  /\ Catalogs \subseteq Seq(ListedModel)
  /\ \A list \in Catalogs : \A i \in DOMAIN list : ~list[i].off =>
       /\ list[i].id # <<>> \/ list[i].name # <<>>
       /\ \A text \in {list[i].id, list[i].name} : text # <<>> => text[1] # 0

VARIABLES
  fetches,      \* the fetches
  byAuth,       \* the bucket of each account: public id -> record
  offered,      \* the entries the host has been answered last for each account
  latest        \* who has the list that is stored: the fetch that stored it, the host

registryVars == <<fetches, byAuth, offered, latest>>

\* An entry of a list; off says disabled, without id and name, or not for chat.
\* The id of an entry without one is its name.
IdOf(m) == IF m.id = <<>> THEN m.name ELSE m.id

ParseConfigModels(list) ==
  LET usable == AtPositions(list, {i \in DOMAIN list : ~list[i].off})
  IN [i \in DOMAIN usable |-> [usable[i] EXCEPT !.id = IdOf(usable[i])]]

Ids(list) == {list[i].id : i \in DOMAIN list}

\* models after those of merged, of one id only the first.
Merge(merged, models) ==
  LET fresh == {i \in DOMAIN models :
        models[i].id \notin Ids(merged) \cup Ids(SubSeq(models, 1, i - 1))}
  IN merged \o AtPositions(models, fresh)

Provider == 0
PublicModelID(name) == <<Provider>> \o name
DisplayNameForModel(m) == IF m.name = <<>> THEN m.id ELSE m.name

\* Wrong variant: a name that is taken is not looked for.
PreferredModelID(m, mapping) == PublicModelID(DisplayNameForModel(m))

\* The first of the public ids a model may have that is free, or its own.
\* mapping has Cardinality(DOMAIN mapping) keys, so some suffix is free.
UniquePublicModelID(m, mapping) ==
  LET Free(p) == p \notin DOMAIN mapping
      Mine(p) == Free(p) \/ mapping[p] = m.id
      preferred == PublicModelID(DisplayNameForModel(m))
      fallback == PublicModelID(m.id)
      Suffixed(n) == PublicModelID(Append(m.id, n))
      suffix == CHOOSE n \in 2..Cardinality(DOMAIN mapping) + 2 :
                  Free(Suffixed(n)) /\ \A k \in 2..n - 1 : ~Free(Suffixed(k))
  IN IF Mine(preferred) THEN preferred ELSE IF Mine(fallback) THEN fallback ELSE Suffixed(suffix)

\* A model joins the list under its public id.
AddEntry(before, m) ==
  LET public == UniquePublicModelID(m, before.mapping)
  IN [mapping |-> [p \in DOMAIN before.mapping \cup {public} |->
                     IF p = public THEN m.id ELSE before.mapping[p]],
      entries |-> Append(before.entries, [public |-> public, model |-> m])]

NoEntries == [mapping |-> [p \in {} |-> <<>>], entries |-> <<>>]

\* The entries of a list without double ids, each with its public id.
FilterAndBuild(models) ==
  LET built[n \in 0..Len(models)] ==
        IF n = 0 THEN NoEntries ELSE AddEntry(built[n - 1], models[n])
  IN built[Len(models)]

\* What StoreWithMeta keeps of a build.
Records(build) ==
  [p \in DOMAIN build.mapping |->
     [internal |-> build.mapping[p],
      efforts |-> (CHOOSE e \in {build.entries[i] : i \in DOMAIN build.entries} :
                     e.public = p).model.efforts]]

NoRecord == [internal |-> <<>>, efforts |-> {}]
RecordAt(mapping, p) == IF p \in DOMAIN mapping THEN mapping[p] ELSE NoRecord

\* The other form of a public id: without the prefix, or with it.
OtherForm(p) == IF p[1] = Provider THEN Tail(p) ELSE PublicModelID(p)

Lookup(mapping, p) ==
  LET record == RecordAt(mapping, p)
  IN IF record.internal = <<>> THEN RecordAt(mapping, OtherForm(p)) ELSE record

Resolve(auth, p) == Lookup(byAuth[auth], p).internal
Efforts(auth, p) == Lookup(byAuth[auth], p).efforts

----------------------------------------------------------------------------
NoFetch == [at |-> "idle", page |-> FALSE, auth |-> CHOOSE a \in Auths : TRUE, asked |-> 0,
            ok |-> 0, merged |-> <<>>, entries |-> <<>>]

RegistryInit ==
  /\ fetches = [f \in Fetches |-> NoFetch]
  /\ byAuth = [a \in Auths |-> [p \in {} |-> NoRecord]]
  /\ offered = [a \in Auths |-> <<>>]
  /\ latest = [a \in Auths |-> {}]

\* The page fetches the lists one after the other, in s.mu.
BeginFetch(f, auth, page) ==
  /\ fetches[f].at = "idle"
  /\ page => \A g \in Fetches : ~fetches[g].page
  /\ fetches' = [fetches EXCEPT ![f] =
       [NoFetch EXCEPT !.at = "asking", !.page = page, !.auth = auth]]
  /\ UNCHANGED <<byAuth, offered, latest>>

\* One user agent's answer: a list, or an error, which only matters when all fail.
AskUserAgent(f) ==
  /\ fetches[f].at = "asking"
  /\ fetches[f].asked < Len(UserAgents)
  /\ \/ fetches' = [fetches EXCEPT ![f].asked = @ + 1]
     \/ \E list \in Catalogs :
          fetches' = [fetches EXCEPT
            ![f].asked = @ + 1, ![f].ok = @ + 1, ![f].merged = Merge(@, ParseConfigModels(list))]
  /\ UNCHANGED <<byAuth, offered, latest>>

FetchFails(f) ==
  /\ fetches[f].at = "asking"
  /\ fetches[f].asked = Len(UserAgents) /\ fetches[f].ok = 0
  /\ fetches' = [fetches EXCEPT ![f] = NoFetch]
  /\ UNCHANGED <<byAuth, offered, latest>>

\* The list takes the place of the account's last one; the page then only looks
\* at it.
Register(f) ==
  LET build == FilterAndBuild(fetches[f].merged)
      auth == fetches[f].auth
      page == fetches[f].page
  IN /\ fetches[f].at = "asking"
     /\ fetches[f].asked = Len(UserAgents) /\ fetches[f].ok > 0
     /\ fetches' = [fetches EXCEPT ![f] =
          IF page THEN NoFetch
          ELSE [NoFetch EXCEPT !.at = "stored", !.auth = auth, !.entries = build.entries]]
     /\ byAuth' = [byAuth EXCEPT ![auth] = Records(build)]
     /\ latest' = [latest EXCEPT ![auth] = IF page THEN {} ELSE {f}]
     /\ UNCHANGED offered

\* The answer reaches the host, after those of other fetches that have stored
\* later, or before.
Offer(f) ==
  LET auth == fetches[f].auth
  IN /\ fetches[f].at = "stored"
     /\ fetches' = [fetches EXCEPT ![f] = NoFetch]
     /\ offered' = [offered EXCEPT ![auth] = fetches[f].entries]
     /\ latest' = [latest EXCEPT ![auth] = IF f \in @ THEN {Host} ELSE @ \ {Host}]
     /\ UNCHANGED byAuth

RegistryNext ==
  \E f \in Fetches :
    \/ \E auth \in Auths, page \in BOOLEAN : BeginFetch(f, auth, page)
    \/ AskUserAgent(f) \/ FetchFails(f) \/ Register(f) \/ Offer(f)
----------------------------------------------------------------------------
RegistryTypeOK ==
  /\ \A f \in Fetches :
       /\ fetches[f].at \in {"idle", "asking", "stored"}
       /\ fetches[f].page \in BOOLEAN /\ fetches[f].auth \in Auths
       /\ fetches[f].ok <= fetches[f].asked /\ fetches[f].asked <= Len(UserAgents)
  /\ \A a \in Auths : latest[a] \subseteq Fetches \cup {Host} /\ Cardinality(latest[a]) <= 1

\* The list the host has for an account leads back, as long as no other fetch has
\* stored one since: each public id in it is there once, resolves to the model
\* it was made for, with that model's levels, and does so too when the host
\* leaves the prefix out, however names and ids coincide.  Another fetch has
\* stored since when its answer is still on its way, when the answers came in the
\* opposite order of the stores, or when it is the page's; the ids the host has
\* may then stand for nothing, or for another model (registry.go:59).
OffersResolve ==
  \A a \in Auths : Host \in latest[a] =>
    \A i \in DOMAIN offered[a] :
      LET entry == offered[a][i]
      IN /\ \A j \in DOMAIN offered[a] : entry.public = offered[a][j].public => i = j
         /\ \A p \in {entry.public, Tail(entry.public)} :
              Resolve(a, p) = entry.model.id /\ Efforts(a, p) = entry.model.efforts
=============================================================================
