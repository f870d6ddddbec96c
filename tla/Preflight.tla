------------------------------ MODULE Preflight -----------------------------
(***************************************************************************)
(* The decision core an order passes before it may be dispatched: posture, *)
(* session guard, the validation gate with funds, risk and hedge checks,   *)
(* the price band, the buffered margin and the modify guard.  Everything   *)
(* here is a function of an order `o' (with its resolved instrument, band  *)
(* and book), of the world `w' the injected sources report, and of the     *)
(* engine `e' that make_engine composed.                                   *)
(***************************************************************************)
EXTENDS Integers, Sequences, FiniteSets

CONSTANTS Calendar,   \* [holidays, specials, weekends, open, entry_cutoff]
          Cadence,    \* ticks a funds snapshot stays usable
          Buffer,     \* MarginSafetyConfig: [bps, flat]
          PaiseMax    \* the largest amount

ASSUME PreflightAssumption ==
    Cadence \in Nat /\ Buffer \in [bps : Int, flat : Int] /\ PaiseMax \in Nat

Pass == [ok |-> TRUE]
Refuse(stage, category) == [ok |-> FALSE, stage |-> stage, category |-> category]
Check(good, stage, category) == IF good THEN Pass ELSE Refuse(stage, category)

\* The first refusal of a list of verdicts, or a pass.
FirstRefusal(verdicts) ==
    IF \A i \in DOMAIN verdicts : verdicts[i].ok THEN Pass
    ELSE verdicts[CHOOSE i \in DOMAIN verdicts :
             ~verdicts[i].ok /\ \A j \in 1 .. i - 1 : verdicts[j].ok]

-----------------------------------------------------------------------------
(* Degradation posture.                                                    *)
Postures == <<"Normal", "BlockEntries", "ExitOnly", "SoftKill", "Panic">>
severity(p) == CHOOSE i \in DOMAIN Postures : Postures[i] = p

posture_for(signal) ==
    CASE signal \in {"StaleData", "MuteFeed", "Unknown", "Mismatch", "SessionExpiry"} -> "BlockEntries"
      [] signal \in {"BrokerDown", "ClockSkew", "ClockStall", "ResourcePressure"} -> "ExitOnly"
      [] OTHER -> "SoftKill"

\* The severest of the operator's floor and what the detectors ask for.
evaluate(signals, operator_floor) ==
    LET asked == {operator_floor} \union {posture_for(s) : s \in signals}
    IN  CHOOSE p \in asked : \A q \in asked : severity(q) <= severity(p)

allows_entries(p) == p = "Normal"
allows_risk_reducing_exits(p) == p # "Panic"

-----------------------------------------------------------------------------
(* Session guard.                                                          *)
\* A broker text that says the session expired overrides the known state.
assess_session(state, text) == IF text = "SessionExpired" THEN "NeedsReauth" ELSE state

\* Mutant of require_op_allowed: a frozen session stops exits too.
SessionStopsAll(state, op) == state = "Healthy"

require_op_allowed(state, op) == op \in {"exit", "reconcile_read"} \/ state = "Healthy"

-----------------------------------------------------------------------------
(* The entry time window.                                                  *)
is_trading_day(day) ==
    \/ day \in Calendar.specials
    \/ day \notin Calendar.holidays /\ day \notin Calendar.weekends

require_entry_allowed(w) ==
    /\ is_trading_day(w.day)
    /\ Calendar.open <= w.minute /\ w.minute < Calendar.entry_cutoff

-----------------------------------------------------------------------------
(* Funds view: a snapshot, usable while it is held and no older than the   *)
(* cadence.  A failed fetch leaves it as it is.                            *)
NoFunds == [has |-> FALSE, age |-> 0, available |-> 0]

is_fresh(f) == f.has /\ f.age <= Cadence

\* Mutant of ensure_fresh: a snapshot that could not be replaced is used.
KeepStale(f, w) == IF is_fresh(f) \/ ~w.line THEN [f EXCEPT !.has = TRUE, !.age = 0]
                   ELSE [has |-> TRUE, age |-> 0, available |-> w.available]

\* The view after ensure_fresh(); the caller tests is_fresh again.
ensure_fresh(f, w) ==
    IF is_fresh(f) \/ ~w.line THEN f
    ELSE [has |-> TRUE, age |-> 0, available |-> w.available]

check_margin(f, required) == is_fresh(f) /\ f.available >= required

\* A fill makes the next check fetch.
invalidate(f) == [f EXCEPT !.has = FALSE]

-----------------------------------------------------------------------------
(* Margin buffer.                                                          *)
sat_add(a, b) == IF b > 0 /\ a > PaiseMax - b THEN PaiseMax ELSE a + b

bps_cushion(base, bps) ==
    IF base <= 0 \/ bps <= 0 THEN 0
    ELSE IF base > (PaiseMax - 9999) \div bps THEN PaiseMax
    ELSE (base * bps + 9999) \div 10000

\* An untrusted benefit of a multi-leg order is not relied on.
base_required(q) ==
    IF q.is_multi_leg /\ ~q.benefit_trusted /\ q.summed_leg_margin > q.api_required
    THEN q.summed_leg_margin ELSE q.api_required

effective_required(q) ==
    LET flat == IF Buffer.flat > 0 THEN Buffer.flat ELSE 0
    IN  sat_add(sat_add(base_required(q), flat), bps_cushion(base_required(q), Buffer.bps))

require_margin_ok(f, q) == f.available >= effective_required(q)

-----------------------------------------------------------------------------
(* Risk engine.  0 disarms a limit; sums are compared by subtraction.      *)
sum_over(a, b, ceiling) == a > ceiling - b

over_cap(limit, held, added) ==
    limit > 0 /\ (held < 0 \/ added < 0 \/ sum_over(held, added, limit))

check_account(l, s) ==
    /\ ~(l.daily_loss > 0 /\ s.account_pnl <= -l.daily_loss)
    /\ ~(l.max_open_positions > 0 /\ s.is_entry /\ s.open_positions >= l.max_open_positions)
    /\ l.max_account_margin > 0 =>
          s.order_value_known /\ ~over_cap(l.max_account_margin, s.used_margin, s.order_value)

check_strategy(l, s) ==
    /\ s.strategy_enabled
    /\ ~(l.strategy_daily_loss > 0 /\ s.strategy_pnl <= -l.strategy_daily_loss)
    /\ ~over_cap(l.max_lots_per_strategy, s.strategy_lots, s.order_lots)

check_instrument(l, s) ==
    /\ ~over_cap(l.max_lots_per_instrument, s.instrument_lots, s.order_lots)
    /\ s.data_tradable

check_order(o, l, s) ==
    /\ ~(l.block_market_orders /\ o.type = "Market")
    /\ l.max_order_value > 0 =>
          s.order_value_known /\ s.order_value \in 0 .. l.max_order_value
    /\ ~(l.max_slippage > 0 /\ s.slippage > l.max_slippage)

check_all(o, l, s) ==
    check_account(l, s) /\ check_strategy(l, s) /\ check_instrument(l, s) /\ check_order(o, l, s)

any_risk_limit_armed(l) ==
    \/ l.block_market_orders
    \/ \E f \in DOMAIN l \ {"block_market_orders"} : l[f] # 0

\* What the engine hands to the risk engine: a zero value is an unknown value.
RiskStateOf(o, w, isEntry) ==
    [w.book EXCEPT !.is_entry = isEntry,
                   !.order_value_known = @ /\ w.book.order_value > 0]

-----------------------------------------------------------------------------
(* Price band.                                                             *)
clamp(price, band) ==
    IF price < band.lower THEN band.lower ELSE IF price > band.upper THEN band.upper ELSE price
in_band(price, band) == band.lower <= price /\ price <= band.upper

uses_limit_price(type) == type \in {"Limit", "StopLoss"}
uses_trigger_price(type) == type \in {"StopLoss", "StopLossMarket"}

check_price_band(o, is_exit) ==
    IF ~(o.band.known /\ o.band.lower <= o.band.upper) THEN "BandUnknown"
    ELSE IF ~uses_limit_price(o.type) /\ ~uses_trigger_price(o.type) THEN "MarketUnchecked"
    ELSE IF /\ uses_limit_price(o.type) => in_band(o.price, o.band)
            /\ uses_trigger_price(o.type) => in_band(o.trigger, o.band)
         THEN "WithinBand"
    ELSE IF is_exit THEN "OutsideBandExitClamped" ELSE "OutsideBandBlocked"

\* A passed exit takes the prices the band check suggests.
apply_clamp(o) ==
    IF check_price_band(o, TRUE) # "OutsideBandExitClamped" THEN o
    ELSE [o EXCEPT !.price = IF uses_limit_price(o.type) THEN clamp(@, o.band) ELSE @,
                   !.trigger = IF uses_trigger_price(o.type) THEN clamp(@, o.band) ELSE @]

-----------------------------------------------------------------------------
(* Validation gate.  0 stands for an absent trigger.                       *)
tick_violation(price, tick) == price <= 0 \/ tick <= 0 \/ price % tick # 0

lot_ok(o) == /\ o.qty > 0 /\ o.instrument.lot > 0
             /\ o.qty >= o.instrument.lot /\ o.qty % o.instrument.lot = 0

shape_ok(o) ==
    /\ uses_trigger_price(o.type) <=> o.trigger # 0
    /\ o.type = "StopLoss" =>
          IF o.side = "Sell" THEN o.price <= o.trigger ELSE o.price >= o.trigger

tick_ok(o) ==
    /\ uses_limit_price(o.type) => ~tick_violation(o.price, o.instrument.tick)
    /\ uses_trigger_price(o.type) => ~tick_violation(o.trigger, o.instrument.tick)

freeze_ok(e, o) ==
    o.instrument.freeze > 0 /\ (o.qty > o.instrument.freeze => e.options.slice_mode)

\* The gate's checks that need nothing but the order and the allow lists.
OrderChecks(e, o) ==
    FirstRefusal(
      << Check(/\ o.instrument.exchange # "none"
               /\ e.options.allowed_exchanges # {} =>
                     o.instrument.exchange \in e.options.allowed_exchanges,
               "gate", "Validation"),
         Check(e.options.allowed_products # {} => o.product \in e.options.allowed_products,
               "gate", "Validation"),
         Check(lot_ok(o), "gate", "Validation"), Check(shape_ok(o), "gate", "Validation"),
         Check(tick_ok(o), "gate", "Validation"), Check(freeze_ok(e, o), "gate", "Validation") >>)

\* A probe that fails counts as a duplicate, and is reported for what it is.
DuplicateCheck(w) ==
    CASE w.duplicate = "new"   -> Pass
      [] w.duplicate = "seen"  -> Refuse("gate", "DuplicateOrder")
      [] w.duplicate = "error" -> Refuse("duplicate-probe", "Internal")

HedgeCheck(e, o) == Check("hedge_check" \in e.deps => o.hedged, "gate", "RiskRejected")
RiskCheck(o, w, isEntry) ==
    Check(check_all(o, w.limits, RiskStateOf(o, w, isEntry)), "gate", "RiskRejected")

-----------------------------------------------------------------------------
(* Composition.                                                            *)
AlwaysRequired == {"kill_state", "posture", "detector_signals", "session"}
EntryRequired == {"funds_view", "calendar", "risk_engine", "unknown_pause",
                  "duplicate_probe", "margin_inputs"}

\* Mutant of make_engine: a missing calendar is not noticed.
MakeEngineLoose(e) ==
    /\ AlwaysRequired \subseteq e.deps
    /\ e.options.mode = "EntryCapable" => EntryRequired \ {"calendar"} \subseteq e.deps
    /\ e.options.risk_gates_exits => "risk_engine" \in e.deps
    /\ "hedge_check" \in e.deps \/ e.options.declares_no_hedge_check

make_engine(e) ==
    /\ AlwaysRequired \subseteq e.deps
    /\ e.options.mode = "EntryCapable" => EntryRequired \subseteq e.deps
    /\ e.options.risk_gates_exits => "risk_engine" \in e.deps
    /\ "hedge_check" \in e.deps \/ e.options.declares_no_hedge_check

\* The posture for one strategy: the kills count only if one covers it.
evaluate_posture_for_strategy(w, blocked, killFloor) ==
    evaluate(w.signals, IF blocked THEN killFloor ELSE "Normal")

\* preflight_entry up to the gate's funds check.
EntryBeforeFunds(e, o, w, blocked, killFloor) ==
    FirstRefusal(
      << Check(e.options.mode = "EntryCapable", "engine-mode", "NotSupported"),
         Check(allows_entries(evaluate_posture_for_strategy(w, blocked, killFloor)),
               "posture", "RiskRejected"),
         Check(require_op_allowed(assess_session(w.session, w.text), "entry"),
               "session", "SessionExpired"),
         Check(o.symbol = o.instrument.symbol, "instrument", "Validation"),
         Check(e.options.declares_no_risk_limits \/ any_risk_limit_armed(w.limits),
               "risk-limits", "Validation"),
         Check(w.quote.ok, "margin", "DataStale"),
         Check(w.quote.ok => w.quote.api_required > 0, "margin", "DataStale"),
         Check(~blocked, "gate", "RiskRejected"),
         Check(~w.pause, "gate", "RiskRejected"),
         DuplicateCheck(w),
         OrderChecks(e, o),
         Check("calendar" \in e.deps => require_entry_allowed(w), "gate", "MarketClosed") >>)

\* The gate's funds check and what follows it, with the view `f' it fetched.
EntryFromFunds(e, o, w, f) ==
    FirstRefusal(
      << Check(is_fresh(f), "gate", "DataStale"),
         Check(check_margin(f, w.quote.api_required), "gate", "InsufficientFunds"),
         RiskCheck(o, w, TRUE), HedgeCheck(e, o) >>)

\* The price band of an entry.
EntryBand(e, o) ==
    FirstRefusal(
      << Check(check_price_band(o, FALSE) # "OutsideBandBlocked", "price-band", "Validation"),
         Check(~(e.options.block_entry_on_unknown_band
                 /\ check_price_band(o, FALSE) = "BandUnknown"), "price-band", "DataStale") >>)

\* The buffered requirement against a view that is fresh once more.
EntryMargin(w, f) ==
    FirstRefusal(
      << Check(is_fresh(f), "margin", "DataStale"),
         Check(require_margin_ok(f, w.quote), "margin", "RiskRejected") >>)

exit_chain(e, o, w, blocked, killFloor) ==
    FirstRefusal(
      << Check(allows_risk_reducing_exits(evaluate_posture_for_strategy(w, blocked, killFloor)),
               "posture", "RiskRejected"),
         Check(require_op_allowed(assess_session(w.session, w.text), "exit"),
               "session", "SessionExpired"),
         Check(o.symbol = o.instrument.symbol, "instrument", "Validation"),
         OrderChecks(e, o),
         IF e.options.risk_gates_exits THEN RiskCheck(o, w, FALSE) ELSE Pass,
         HedgeCheck(e, o) >>)

preflight_exit(e, o, w, blocked, killFloor) ==
    FirstRefusal(<< Check("is_reducing" \in e.deps => o.reduces, "exit-class", "Validation"),
                    exit_chain(e, o, w, blocked, killFloor) >>)

\* A modify is judged against the order as last reconciled, then as an exit.
evaluate_modify(m) ==
    IF m.state \in {"Filled", "Cancelled", "Rejected"} THEN "RejectTerminal"
    ELSE IF m.state \in {"Created", "Validated", "PendingSend", "Sent", "Unknown", "Reconciled",
                         "ManualInterventionRequired", "PartiallyPlaced"} THEN "RejectNotModifiable"
    ELSE IF m.filled > m.observed THEN "RejectRacedFill"
    ELSE IF m.changes_quantity /\ m.state = "PartiallyFilled" THEN "RejectQtyOnPartial"
    ELSE IF m.changes_quantity /\ m.new_total <= m.filled THEN "RejectShrinkBelowFilled"
    ELSE "Allow"

rejection_for(verdict) ==
    CASE verdict \in {"RejectQtyOnPartial", "RejectShrinkBelowFilled"} -> "RiskRejected"
      [] verdict = "RejectTerminal" -> "OrderNotFound"
      [] OTHER -> "Validation"

preflight_modify(e, o, w, blocked, killFloor) ==
    FirstRefusal(<< Check(evaluate_modify(o.modify) = "Allow", "modify-guard",
                          rejection_for(evaluate_modify(o.modify))),
                    exit_chain(e, o, w, blocked, killFloor) >>)
=============================================================================
