------------------------------ MODULE FillNorm ------------------------------
(***************************************************************************)
(* fillnorm/fill_normalizer.cpp: one broker order event becomes a canonical *)
(* state and quantities.  A status is the class of its text: "reject" and   *)
(* "cancel" for a text that contains the word, "working" for one            *)
(* classify_status knows as working, anything else for the rest.            *)
(***************************************************************************)
EXTENDS Integers

clamp_non_negative(q) == IF q > 0 THEN q ELSE 0

\* brokerreason::classify_status, as far as normalize_fill asks: Indeterminate
\* without an alert is a recognised working status.
classify_status(status) ==
    [reason |-> IF status \in {"complete", "cancel"} THEN "AlreadyComplete"
                ELSE IF status = "reject" THEN "Unknown" ELSE "Indeterminate",
     should_alert |-> status \notin {"complete", "cancel", "working"}]

recognized_working(status) ==
    /\ classify_status(status).reason = "Indeterminate"
    /\ ~classify_status(status).should_alert

\* Terminal by status, else by quantity, else by what the status admits.
canonical_state(status, filled, pending) ==
    CASE status = "reject"              -> "Rejected"
      [] status = "cancel"              -> "Cancelled"
      [] OTHER ->
         IF filled > 0 THEN IF pending > 0 THEN "PartiallyFilled" ELSE "Filled"
         ELSE IF pending > 0 \/ recognized_working(status)
              THEN "Acknowledged" ELSE "Unknown"

normalize_fill(status, filled_qty, total_qty, from_reconcile) ==
    LET filled  == clamp_non_negative(filled_qty)
        total   == clamp_non_negative(total_qty)
        pending == clamp_non_negative(total - filled)
    IN  [canonical_state      |-> canonical_state(status, filled, pending),
         filled_qty           |-> filled,
         pending_qty          |-> pending,
         authoritative        |-> from_reconcile,
         exit_qty_trustworthy |-> from_reconcile /\ filled > 0]

\* The only basis for the size of an exit.
exit_qty_for(snap) == IF snap.exit_qty_trustworthy THEN snap.filled_qty ELSE 0
=============================================================================
