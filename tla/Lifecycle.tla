------------------------------ MODULE Lifecycle ------------------------------
(***************************************************************************)
(* The order state machine of src/src/lifecycle/lifecycle.cpp as pure      *)
(* operators: the transition table, the canonicalisation of an adapter's   *)
(* "still working" view, and LifecycleEngine::apply.                       *)
(*                                                                         *)
(* An order is a record [state, filled, bid]: filled stands for the pair   *)
(* (filled_qty, avg_price), which the code always copies together, and     *)
(* bid is the broker order id, 0 when it is empty.  A broker view is a     *)
(* record [state, filled, bid, key].  The engine's last_key_ entry of one  *)
(* order is an integer, NoKey when the map has no entry (every key the     *)
(* code assigns is at least 1).                                            *)
(***************************************************************************)
EXTENDS Integers

OrderState == {"Created", "Validated", "PendingSend", "Sent", "Acknowledged",
               "PartiallyFilled", "Filled", "Rejected", "Cancelled", "Unknown",
               "Reconciled", "PartiallyPlaced", "ManualInterventionRequired"}

NoKey == -1
NoBid == 0

Orders == [state : OrderState, filled : Nat, bid : Nat]
Views  == [state : OrderState, filled : Nat, bid : Nat, key : Nat]

Terminal == {"Filled", "Rejected", "Cancelled"}
is_terminal(st) == st \in Terminal

(* The documented successors of a state; self transitions are added by     *)
(* is_valid_transition.                                                    *)
Successors ==
  [Created         |-> {"Validated", "Rejected", "Unknown"},
   Validated       |-> {"PendingSend", "Rejected", "Unknown"},
   PendingSend     |-> {"Sent", "Rejected", "Unknown"},
   Sent            |-> {"Acknowledged", "PartiallyFilled", "Filled", "Rejected",
                        "Cancelled", "Unknown"},
   Acknowledged    |-> {"PartiallyFilled", "Filled", "Rejected", "Cancelled", "Unknown"},
   PartiallyFilled |-> {"PartiallyFilled", "Filled", "Cancelled", "Rejected", "Unknown"},
   Filled          |-> {},
   Rejected        |-> {},
   Cancelled       |-> {},
   Unknown         |-> {"Acknowledged", "PartiallyFilled", "Filled", "Rejected", "Cancelled",
                        "Reconciled", "PartiallyPlaced", "ManualInterventionRequired"},
   Reconciled      |-> {"Acknowledged", "PartiallyFilled", "Filled", "Rejected", "Cancelled",
                        "Unknown", "ManualInterventionRequired"},
   PartiallyPlaced |-> {"PartiallyPlaced", "PartiallyFilled", "Filled", "Cancelled", "Rejected",
                        "Unknown", "ManualInterventionRequired"},
   ManualInterventionRequired |-> {"Reconciled", "Cancelled"}]

table_allows(from, to) == to \in Successors[from]

is_valid_transition(from, to) == from = to \/ table_allows(from, to)

(* Mutant: an Unknown order does not understand Sent.                      *)
still_working_once_acked(from) == from \in {"Sent", "Acknowledged", "PartiallyFilled"}

(* The states in which an observed Sent says "still working at the         *)
(* broker" instead of being a forward step.                                *)
sent_means_still_working(from) ==
  from \in {"Sent", "Acknowledged", "PartiallyFilled", "Unknown", "Reconciled"}

canonical_observed(from, view) ==
  IF view.state # "Sent" \/ ~sent_means_still_working(from) THEN view.state
  ELSE IF view.filled > 0 THEN "PartiallyFilled" ELSE "Acknowledged"

-----------------------------------------------------------------------------
(* LifecycleEngine::apply on one order: the outcome, the order afterwards  *)
(* and the ordering key the engine remembers afterwards.                   *)

Refused(order, key, view) ==
  ~is_valid_transition(order.state, canonical_observed(order.state, view))

Observed(order, view) ==
  [state  |-> canonical_observed(order.state, view),
   filled |-> view.filled,
   bid    |-> IF view.bid # NoBid THEN view.bid ELSE order.bid]

(* Mutant: views are applied in whatever order they come.                  *)
apply_in_any_order(order, key, view) ==
  IF is_terminal(order.state)
    THEN [outcome |-> "DroppedTerminal", order |-> order, key |-> key]
  ELSE IF Refused(order, key, view)
    THEN [outcome |-> "NoChange", order |-> order, key |-> key]
  ELSE [outcome |-> "Applied", order |-> Observed(order, view), key |-> view.key]

apply(order, key, view) ==
  IF is_terminal(order.state)
    THEN [outcome |-> "DroppedTerminal", order |-> order, key |-> key]
  ELSE IF view.key < key
    THEN [outcome |-> "DroppedStale", order |-> order, key |-> key]
  ELSE IF Refused(order, key, view)
    THEN [outcome |-> "NoChange", order |-> order, key |-> key]
  ELSE [outcome |-> IF Observed(order, view) = order THEN "NoChange" ELSE "Applied",
        order   |-> Observed(order, view),
        key     |-> view.key]
-----------------------------------------------------------------------------
(* A sliced parent has no state of its own: it is the fold of the states   *)
(* of its children that the engine has been told of.                       *)

(* Mutant: children that all ended are a parent that filled.               *)
fold_terminal_as_filled(states) ==
  IF states \subseteq Terminal THEN "Filled" ELSE "PartiallyPlaced"

fold_parent_state(states) ==
  IF states = {}                      THEN "Created"
  ELSE IF "Unknown" \in states        THEN "PartiallyPlaced"
  ELSE IF "Rejected" \in states       THEN "ManualInterventionRequired"
  ELSE IF states = {"Filled"}         THEN "Filled"
  ELSE IF states = {"Cancelled"}      THEN "Cancelled"
  ELSE IF states \subseteq Terminal   THEN "PartiallyFilled"
  ELSE "PartiallyPlaced"

parent_state(children) == fold_parent_state({children[k] : k \in DOMAIN children})
=============================================================================
