----------------------------- MODULE MCControls -----------------------------
EXTENDS Controls

MCKills == {[type |-> "Panic", scope |-> "none", auth |-> TRUE],
            [type |-> "Strategy", scope |-> "s1", auth |-> TRUE],
            [type |-> "Strategy", scope |-> "none", auth |-> TRUE],
            [type |-> "Broker", scope |-> "none", auth |-> FALSE]}

MCPerSec == [order |-> 2, quote |-> 2]
MCClasses == {"order", "quote"}

MCCalendar == [holidays |-> {"holiday"}, specials |-> {"special"},
               weekends |-> {"special", "saturday"}, open |-> 1, entry_cutoff |-> 2]
MCBuffer == [bps |-> 500, flat |-> 1]

Limits0 == [daily_loss |-> 5, max_open_positions |-> 2, max_account_margin |-> 50,
            strategy_daily_loss |-> 3, max_lots_per_strategy |-> 2,
            max_lots_per_instrument |-> 4, block_market_orders |-> TRUE,
            max_order_value |-> 20, max_slippage |-> 0]
Book0 == [account_pnl |-> 0, open_positions |-> 0, used_margin |-> 0, order_value |-> 10,
          order_value_known |-> TRUE, order_lots |-> 1, slippage |-> 0, is_entry |-> TRUE,
          strategy_lots |-> 0, strategy_pnl |-> 0, strategy_enabled |-> TRUE,
          instrument_lots |-> 0, data_tradable |-> TRUE]
Quote0 == [ok |-> TRUE, api_required |-> 10, summed_leg_margin |-> 0,
           is_multi_leg |-> FALSE, benefit_trusted |-> TRUE]
MCCalm == [signals |-> {}, session |-> "Healthy", text |-> "none", pause |-> FALSE,
           duplicate |-> "new", day |-> "weekday", minute |-> 1, line |-> TRUE,
           available |-> 12, quote |-> Quote0, limits |-> Limits0, book |-> Book0]

D(f, v) == [field |-> f, value |-> v]
MCDeviations ==
    {D("signals", {"StaleData"}), D("signals", {"BrokerDown", "RiskBreach"}),
     D("session", "NeedsReauth"), D("text", "SessionExpired"), D("pause", TRUE),
     D("duplicate", "seen"), D("duplicate", "error"),
     D("day", "holiday"), D("day", "special"), D("minute", 2), D("line", FALSE),
     D("available", 11),
     D("quote", [Quote0 EXCEPT !.ok = FALSE]), D("quote", [Quote0 EXCEPT !.api_required = 0]),
     D("quote", [Quote0 EXCEPT !.is_multi_leg = TRUE, !.benefit_trusted = FALSE,
                               !.summed_leg_margin = 11]),
     D("book", [Book0 EXCEPT !.account_pnl = -5]),
     D("book", [Book0 EXCEPT !.strategy_lots = 2]),
     D("book", [Book0 EXCEPT !.order_value = 0]),
     D("limits", [f \in DOMAIN Limits0 |-> IF f = "block_market_orders" THEN FALSE ELSE 0])}

Lot == [symbol |-> "x", exchange |-> "NSE", lot |-> 2, tick |-> 5, freeze |-> 4]
Band0 == [known |-> TRUE, lower |-> 10, upper |-> 30]
Base == [id |-> "buy", kind |-> "entry", strategy |-> "s1", symbol |-> "x", instrument |-> Lot,
         type |-> "Limit", side |-> "Buy", qty |-> 2, price |-> 20, trigger |-> 0,
         product |-> "NRML", band |-> Band0, hedged |-> TRUE, reduces |-> FALSE]
ExitBase == [Base EXCEPT !.id = "exit", !.kind = "exit", !.side = "Sell", !.reduces = TRUE]
Stop == [ExitBase EXCEPT !.id = "stop", !.type = "StopLoss", !.price = 5, !.trigger = 40]
Amend(o, id, m) ==
    [f \in DOMAIN o \union {"modify"} |->
        IF f = "modify" THEN m ELSE IF f = "id" THEN id ELSE IF f = "kind" THEN "modify" ELSE o[f]]
Mod0 == [state |-> "Acknowledged", filled |-> 0, observed |-> 0, changes_quantity |-> TRUE,
         new_total |-> 4]
AllOrders ==
    {Base, [Base EXCEPT !.id = "other", !.strategy = "s2", !.band.known = FALSE],
     [Base EXCEPT !.id = "oddlot", !.qty = 3], [Base EXCEPT !.id = "high", !.price = 35],
     ExitBase, Stop, [Stop EXCEPT !.id = "naked", !.reduces = FALSE],
     Amend(Stop, "move", Mod0), Amend(Stop, "raced", [Mod0 EXCEPT !.filled = 1])}

AllDeps == AlwaysRequired \union EntryRequired \union {"hedge_check", "is_reducing"}
Options0 == [mode |-> "EntryCapable", allowed_exchanges |-> {"NSE"}, allowed_products |-> {},
             slice_mode |-> TRUE, risk_gates_exits |-> FALSE, declares_no_hedge_check |-> FALSE,
             declares_no_risk_limits |-> FALSE, block_entry_on_unknown_band |-> FALSE]
Full == [deps |-> AllDeps, options |-> Options0]
Wirings ==
    {Full,
     [Full EXCEPT !.options.block_entry_on_unknown_band = TRUE],
     [Full EXCEPT !.deps = AllDeps \ {"calendar"}],
     [deps |-> AlwaysRequired, options |-> [Options0 EXCEPT !.mode = "ExitOnly",
                                                    !.declares_no_hedge_check = TRUE]]}

Left(o, k, c, w, f, t, q) ==
    [order |-> o, kill |-> k, crash |-> c, world |-> w, fill |-> f, throttle |-> t, quote |-> q]

\* Behaviours about the kill switch, the limiter, and the pre-flight checks.
MCScenarios ==
    {[engine |-> Full, orders |-> {Base, ExitBase}, left |-> Left(2, 2, 1, 0, 0, 0, 0)],
     [engine |-> Full, orders |-> {Base, ExitBase}, left |-> Left(4, 0, 0, 0, 0, 3, 1)],
     [engine |-> Full, orders |-> {Base}, left |-> Left(2, 0, 0, 1, 1, 0, 0)]}
    \union
    {[engine |-> e, orders |-> AllOrders, left |-> Left(1, 1, 0, 1, 0, 0, 0)] : e \in Wirings}
=============================================================================
