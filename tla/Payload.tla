------------------------------ MODULE Payload -------------------------------
(***************************************************************************)
(* What becomes of a chat request before it goes upstream: PreparePayload, *)
(* setModel (payload.go), the pairing of tool calls with their results     *)
(* (tool_pairing.go) and the neutral system prompt (prompt_degrade.go).    *)
(*                                                                         *)
(* A message is a role, the ids of the calls it makes (an assistant's) and *)
(* the id of the call it answers (a tool's); NoId is the empty id.  A      *)
(* message that is not an object behaves as one of another role.           *)
(***************************************************************************)
EXTENDS Subsequences

CONSTANT NoId

Roles == {"system", "developer", "user", "assistant", "tool", "other"}
MessageRec == [role : Roles, calls : Seq(STRING), answers : STRING]
ASSUME IdAssumption == NoId \in STRING

Message(role) == [role |-> role, calls |-> <<>>, answers |-> NoId]
CallsOf(m) == IF m.role = "assistant" THEN {m.calls[i] : i \in DOMAIN m.calls} ELSE {}
IsNotice(m) == m.role \in {"system", "developer"}

NormalizeRoles(msgs) ==
  [i \in DOMAIN msgs |->
     IF msgs[i].role = "developer" THEN [msgs[i] EXCEPT !.role = "system"] ELSE msgs[i]]

\* A message that stays in the block of the calls of the assistant message m.
InBlockOf(m, n) ==
  \/ IsNotice(n)
  \/ n.role = "tool" /\ n.answers \in CallsOf(m) \ {NoId}

\* The last message of the block that follows msgs[i].
BlockEnd(msgs, i) ==
  CHOOSE e \in i..Len(msgs) :
    /\ \A j \in i + 1..e : InBlockOf(msgs[i], msgs[j])
    /\ e = Len(msgs) \/ ~InBlockOf(msgs[i], msgs[e + 1])

\* The last message that is packed together with msgs[i].
PackEnd(msgs, i) ==
  IF msgs[i].role = "assistant" /\ msgs[i].calls # <<>> THEN BlockEnd(msgs, i) ELSE i

Notices(msgs) == {i \in DOMAIN msgs : IsNotice(msgs[i])}
WithoutNotices(msgs) == AtPositions(msgs, DOMAIN msgs \ Notices(msgs))

\* In a block the results go before the notices.
Pack(msgs, i) ==
  LET block == SubSeq(msgs, i + 1, PackEnd(msgs, i))
  IN <<msgs[i]>> \o WithoutNotices(block) \o AtPositions(block, Notices(block))

RepackToolResultBlocks(msgs) ==
  LET from[i \in 1..Len(msgs) + 1] ==
        IF i > Len(msgs) THEN <<>> ELSE Pack(msgs, i) \o from[PackEnd(msgs, i) + 1]
  IN from[1]

CallIds(msgs) == (UNION {CallsOf(msgs[i]) : i \in DOMAIN msgs}) \ {NoId}
ResultIds(msgs) == {msgs[i].answers : i \in {j \in DOMAIN msgs : msgs[j].role = "tool"}} \ {NoId}

\* The messages but for the results of other calls than these.
WithResultsOf(msgs, keep) ==
  AtPositions(msgs, {i \in DOMAIN msgs : msgs[i].role # "tool" \/ msgs[i].answers \in keep})

\* Wrong variant: an assistant message loses its calls only when none has a result.
CleanupWholeCalls(msgs) ==
  LET keep == CallIds(msgs) \cap ResultIds(msgs)
      kept == WithResultsOf(msgs, keep)
  IN [i \in DOMAIN kept |->
        IF kept[i].role # "assistant" \/ CallsOf(kept[i]) \cap keep # {} THEN kept[i]
        ELSE [kept[i] EXCEPT !.calls = <<>>]]

OnlyCalls(m, keep) ==
  IF m.role # "assistant" THEN m
  ELSE [m EXCEPT !.calls = AtPositions(@, {i \in DOMAIN @ : @[i] \in keep})]

\* Calls without a result and results without a call go, unless the whole
\* conversation names none.
CleanupOrphanToolCalls(msgs) ==
  LET keep == CallIds(msgs) \cap ResultIds(msgs)
      kept == WithResultsOf(msgs, keep)
  IN IF CallIds(msgs) \cup ResultIds(msgs) = {} THEN msgs
     ELSE [i \in DOMAIN kept |-> OnlyCalls(kept[i], keep)]

\* The first system message, or a default one, becomes the head.
EnsureLeadingSystem(msgs) ==
  LET systems == {i \in DOMAIN msgs : msgs[i].role = "system"}
      first == CHOOSE i \in systems : \A j \in systems : i <= j
  IN IF msgs = <<>> THEN msgs
     ELSE IF systems = {} THEN <<Message("system")>> \o msgs
     ELSE <<msgs[first]>> \o AtPositions(msgs, DOMAIN msgs \ {first})

PrepareMessages(msgs) ==
  EnsureLeadingSystem(CleanupOrphanToolCalls(RepackToolResultBlocks(NormalizeRoles(msgs))))

\* rewriteSystemNeutral.
Neutral(msgs) == <<Message("system")>> \o WithoutNotices(msgs)
----------------------------------------------------------------------------
\* The fields next to the messages: how many tokens the request asks for, as
\* max_tokens (0: not there) or as its alias (0: not there, or not a positive
\* whole number), the tool choice, whether there are tools.
DefaultMaxTokens == 8192

MaxTokens(asked, alias) ==
  IF asked # 0 THEN asked ELSE IF alias > 0 THEN alias ELSE DefaultMaxTokens

\* A tool choice: absent, a text, or an object of a type with or without a name.
NormalizeToolChoice(choice) ==
  CASE choice.form = "text" -> IF choice.type = "none" THEN "absent" ELSE choice.type
    [] choice.form = "object" /\ choice.type \in {"auto", "required"} -> choice.type
    [] choice.form = "object" /\ choice.type = "function" ->
         IF choice.name = "" THEN "auto" ELSE choice.name
    [] OTHER -> "absent"

KeepsTools(choice) == ~(choice.form \in {"text", "object"} /\ choice.type = "none")
----------------------------------------------------------------------------
\* Reasoning efforts by their rank (effortRank); NoEffort: the request asks for none.
EffortRanks == 0..6
NoEffort == 7

\* Wrong variant: below the lowest level the effort stays as asked.
NormalizeDownwards(asked, supported) ==
  LET atMost == {e \in supported : e <= asked}
  IN IF asked = NoEffort \/ atMost = {} THEN asked
     ELSE CHOOSE e \in atMost : \A d \in atMost : d <= e

NormalizeReasoningEffort(asked, supported) ==
  LET atMost == {e \in supported : e <= asked}
  IN IF asked = NoEffort \/ supported = {} THEN asked
     ELSE IF atMost # {} THEN CHOOSE e \in atMost : \A d \in atMost : d <= e
     ELSE CHOOSE e \in supported : \A d \in supported : e <= d

=============================================================================
