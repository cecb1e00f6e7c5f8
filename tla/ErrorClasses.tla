---------------------------- MODULE ErrorClasses ----------------------------
(***************************************************************************)
(* Classify (internal/wbexecutor/errors.go): from an HTTP status and the   *)
(* texts found in a body to the class of the error.  A body is the set of  *)
(* the texts it contains; "code:n" stands for n as the value of a field    *)
(* code, and a bare number for the digits anywhere.                        *)
(***************************************************************************)
EXTENDS Naturals, Sequences

Statuses == {200, 400, 402, 403, 404, 413, 429, 500}

IsModelBlocked(status, body) ==
  status \in {400, 404} /\ ("11102" \in body \/ "service info not found" \in body)

IsAccountRestricted(body) ==
  "code:11140" \in body /\ "unusual activity" \in body

IsToolCallMismatch(body) == "code:11148" \in body \/ "tool results do not match" \in body

\* The tests of Classify in their order, each with the class it returns.
Rules(status, body) == <<
  <<IsModelBlocked(status, body), "model_blocked">>,
  <<status = 402, "hard_credit">>,
  <<status >= 400 /\ "code:6004" \in body, "model_rate_limit">>,
  <<"code:14003" \in body, "model_rate_limit">>,
  <<"12153" \in body \/ "offline user session" \in body, "session_dead">>,
  <<IsAccountRestricted(body) \/ "request illegal" \in body \/ "trial not activated" \in body,
    "account_fault">>,
  <<status >= 400 /\ "code:14018" \in body, "hard_credit">>,
  <<"daily_budget_exceeded" \in body, "daily_budget_exceeded">>,
  <<status = 429 \/ "rate limit" \in body \/ "too many requests" \in body, "soft_rate">>,
  <<status \in {400, 404, 413} /\ ("11115" \in body \/ "prompt is too long" \in body),
    "prompt_too_long">>,
  <<status = 404, "client">>,
  <<status >= 500, "server">>,
  <<status = 400 /\ IsToolCallMismatch(body), "tool_call_mismatch">>,
  <<status >= 400 /\ "security policy" \in body, "content_blocked">>,
  <<status >= 400 /\ ("11101" \in body \/ "11128" \in body), "bad_params">>,
  <<status >= 400, "client">> >>

Classify(status, body) ==
  LET rules == Rules(status, body)
      holds == {i \in DOMAIN rules : rules[i][1]}
  IN IF holds = {} THEN "none"
     ELSE rules[CHOOSE i \in holds : \A j \in holds : i <= j][2]
=============================================================================
