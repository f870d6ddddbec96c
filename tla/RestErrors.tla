----------------------------- MODULE RestErrors -----------------------------
(***************************************************************************)
(* What a failed REST call tells the adapter: map_http_error (Kite),       *)
(* map_kotak_error with the rejection classifier (Kotak), the taxonomy of  *)
(* errors/error.cpp.  An answer is an HTTP status (0: no answer at all)    *)
(* and the verdict its body carries: "none" when the body is no envelope   *)
(* of the broker, else what its text or error_type says.                   *)
(***************************************************************************)
EXTENDS Integers

Statuses == {0, 200, 400, 401, 404, 429, 500}
Verdicts == {"none", "session", "token", "throttle", "margin", "input",
             "order", "notfound", "already", "rms", "timeout", "other"}
Answer == [status : Statuses, verdict : Verdicts]

default_action_for(category) ==
    CASE category \in {"Transient", "RateLimited"}          -> "RetrySafe"
      [] category \in {"Auth", "SessionExpired"}            -> "ReEstablishSession"
      [] category \in {"Validation", "NotSupported"}        -> "DoNotRetry"
      [] category \in {"InsufficientFunds", "MarketClosed", "DataStale"}
                                                            -> "BlockStrategy"
      [] category = "Internal"                              -> "RaiseAlert"
      [] OTHER                                              -> "ReconcileFirst"

Error(category, action) == [category |-> category, action |-> action]
make_error(category) == Error(category, default_action_for(category))

-----------------------------------------------------------------------------
\* brokerreason::classify_rejection: the reason in order of precedence of its
\* keywords, Unknown for an empty or unclassifiable text.  A bare "token"
\* matches the keywords of a dead session.
classify_rejection(verdict) ==
    CASE verdict = "margin"                -> "Margin"
      [] verdict \in {"session", "token"}  -> "SessionExpired"
      [] verdict = "throttle"              -> "RateLimited"
      [] verdict = "already"               -> "AlreadyComplete"
      [] verdict = "notfound"              -> "OrderNotFound"
      [] verdict = "timeout"               -> "Indeterminate"
      [] verdict = "rms"                   -> "RmsBlock"
      [] OTHER                             -> "Unknown"

\* rule_for and to_suggested_action: the posture of a reason.
posture(reason) ==
    CASE reason = "RateLimited" -> "RetrySafe"
      [] reason \in {"SessionExpired", "OrderNotFound", "AlreadyComplete",
                     "Indeterminate"} -> "ReconcileFirst"
      [] OTHER -> "DoNotRetry"

has_session_co_phrase(verdict) == verdict = "session"

category_for_reason(reason) ==
    CASE reason = "Margin"          -> "InsufficientFunds"
      [] reason = "RmsBlock"        -> "RiskRejected"
      [] reason = "OrderNotFound"   -> "OrderNotFound"
      [] reason = "AlreadyComplete" -> "BrokerRejected"
      [] OTHER                      -> "none"

\* Mutant of map_kotak_error: the text of the body before the status.
MapKotakTextFirst(a) ==
    IF a.verdict = "margin" THEN Error("InsufficientFunds", "DoNotRetry")
    ELSE Error("Network", "ReconcileFirst")

\* The possibly-live guard first, then session, throttling, the classified
\* verdict, 404, client input, and reconcile for everything else.
map_kotak_error(a) ==
    LET matched == classify_rejection(a.verdict)
        reason  == IF matched = "SessionExpired" /\ ~has_session_co_phrase(a.verdict)
                   THEN "Unknown" ELSE matched
    IN  IF a.status >= 500 \/ a.status <= 0 \/ reason = "Indeterminate"
          THEN Error("Network", "ReconcileFirst")
        ELSE IF a.status = 401 \/ reason = "SessionExpired"
          THEN Error("SessionExpired", "ReEstablishSession")
        ELSE IF a.status = 429 \/ reason = "RateLimited"
          THEN Error("RateLimited", "RetrySafe")
        ELSE IF category_for_reason(reason) # "none"
          THEN Error(category_for_reason(reason), posture(reason))
        ELSE IF a.status = 404 THEN Error("OrderNotFound", "ReconcileFirst")
        ELSE IF a.status = 400 THEN Error("Validation", "DoNotRetry")
        ELSE IF a.verdict # "none" THEN Error("BrokerRejected", "ReconcileFirst")
        ELSE Error("Unknown", "ReconcileFirst")

\* request_json's guard_mutation: what may have reached the exchange is never
\* called safe to retry.
guard_mutation(e) ==
    IF e.action = "RetrySafe" THEN [e EXCEPT !.action = "ReconcileFirst"] ELSE e

\* Kite: the broker's verdict, then the status.
map_http_error(a) ==
    IF a.verdict = "session" \/ a.status = 401
      THEN Error("SessionExpired", "ReEstablishSession")
    ELSE IF a.verdict = "throttle" \/ a.status = 429
      THEN Error("RateLimited", "RetrySafe")
    ELSE IF a.status = 404 THEN Error("OrderNotFound", "ReconcileFirst")
    ELSE IF a.verdict = "margin" THEN Error("InsufficientFunds", "DoNotRetry")
    ELSE IF a.verdict \in {"order", "timeout"} \/ a.status >= 500
      THEN Error("Network", "ReconcileFirst")
    ELSE IF a.verdict = "input" \/ (a.verdict # "none" /\ a.status = 400)
      THEN Error("Validation", "DoNotRetry")
    ELSE IF a.verdict # "none" THEN Error("BrokerRejected", "ReconcileFirst")
    ELSE Error("Unknown", "ReconcileFirst")

\* A mutation's error: no answer is the transport's Network error, a 2xx whose
\* body is no envelope is Unknown, anything else goes through the broker's map.
kite_mutation_error(a) ==
    IF a.status = 0 THEN make_error("Network")
    ELSE IF a.status = 200 /\ a.verdict = "none" THEN make_error("Unknown")
    ELSE map_http_error(a)

kotak_mutation_error(a) ==
    IF a.status = 0 THEN make_error("Network")
    ELSE IF a.status = 200 /\ a.verdict = "none" THEN make_error("Unknown")
    ELSE guard_mutation(map_kotak_error(a))

\* is_ambiguous_outcome, which restates Dispatcher::is_reconcile_first.
is_ambiguous_outcome(e) ==
    \/ e.action = "ReconcileFirst"
    \/ e.category \in {"Timeout", "Network", "Unknown"}
=============================================================================
