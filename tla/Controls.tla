------------------------------ MODULE Controls ------------------------------
(***************************************************************************)
(* The controls around one order loop: the kill switch handed over from    *)
(* the control thread, the pre-flight chains, the funds view and the send  *)
(* limiter, with time passing, fills arriving, the world changing and the  *)
(* process dying between steps.  The repository has the parts and no loop: *)
(* the one modelled is the caller killswitch.hpp prescribes, which drains  *)
(* the kill queue at the top of every iteration and again immediately      *)
(* before it dispatches, and acts on what it drained.                      *)
(***************************************************************************)
EXTENDS KillSwitch, Limiter, Preflight

CONSTANTS Calm,        \* the world when nothing is wrong
          Deviations,  \* [field, value]: what may change in it
          Scenarios    \* [engine, orders, left]: the wiring the composition root
                       \* presents, the orders submitted to it, and how many
                       \* events of each kind one behaviour contains

VARIABLES engine, offered, world, funds,
          at,        \* the loop's step, or "down" or "refused"
          order,     \* the order in hand
          last,      \* the verdict on the last order, and what it was given for
          sent,      \* the last dispatch, with what held at that moment
          late,      \* kills acknowledged since the last drain (history)
          truth,     \* margin the broker reported last, before any later fill (history)
          left       \* the budget that is left

\* What the types of the code say of an order and of each source of the world.
OrderOK(o) ==
    /\ {"kind", "strategy", "symbol", "instrument", "type", "side", "qty", "price", "trigger",
        "product", "band", "hedged", "reduces"} \subseteq DOMAIN o
    /\ o.price \in Int /\ o.trigger \in Int
    /\ o.band \in [known : BOOLEAN, lower : Int, upper : Int]

Book == [account_pnl : Int, open_positions : Int, used_margin : Int, order_value : Int,
         order_value_known : BOOLEAN, order_lots : Int, slippage : Int, is_entry : BOOLEAN,
         strategy_lots : Int, strategy_pnl : Int, strategy_enabled : BOOLEAN,
         instrument_lots : Int, data_tradable : BOOLEAN]
Limits == [daily_loss : Int, max_open_positions : Int, max_account_margin : Int,
           strategy_daily_loss : Int, max_lots_per_strategy : Int, max_lots_per_instrument : Int,
           block_market_orders : BOOLEAN, max_order_value : Int, max_slippage : Int]
MarginQuote == [ok : BOOLEAN, api_required : Int, summed_leg_margin : Int,
                is_multi_leg : BOOLEAN, benefit_trusted : BOOLEAN]

SourceOK(field, value) ==
    CASE field = "book" -> value \in Book
      [] field = "limits" -> value \in Limits
      [] field = "quote" -> value \in MarginQuote
      [] field = "available" -> value \in Int
      [] field = "duplicate" -> value \in {"new", "seen", "error"}
      [] OTHER -> TRUE

ASSUME ControlsAssumption ==
    /\ \A s \in Scenarios : \A o \in s.orders : OrderOK(o)
    /\ {"book", "limits", "quote", "available", "duplicate"} \subseteq DOMAIN Calm
    /\ \A f \in DOMAIN Calm : SourceOK(f, Calm[f])
    /\ \A d \in Deviations : SourceOK(d.field, d.value)

loopVars == <<engine, offered, world, funds, at, order, last, sent, late, truth>>
vars == <<killVars, limiterVars, loopVars, left>>

NoOrder == [id |-> "none"]
NoSend == [order |-> NoOrder]
NoVerdict == [order |-> NoOrder, verdict |-> Pass]

Spend(k) == left[k] > 0 /\ left' = [left EXCEPT ![k] = @ - 1]

Init ==
    /\ KillInit /\ LimiterInit
    /\ \E s \in Scenarios : engine = s.engine /\ offered = s.orders /\ left = s.left
    /\ world = Calm /\ funds = NoFunds
    /\ at = "down" /\ order = NoOrder /\ last = NoVerdict /\ sent = NoSend
    /\ late = {} /\ truth = NoFunds

-----------------------------------------------------------------------------
(* The process.                                                            *)
\* Composition.  KillState starts empty: the durable kills are not replayed.
Start ==
    /\ at = "down"
    /\ IF make_engine(engine) THEN at' = "top" /\ LimiterRestart
       ELSE at' = "refused" /\ UNCHANGED limiterVars
    /\ UNCHANGED <<killVars, engine, offered, world, funds, order, last, sent, late, truth, left>>

Crash ==
    /\ at \notin {"down", "refused"} /\ Spend("crash")
    /\ KillCrash /\ LimiterRestart
    /\ at' = "down" /\ order' = NoOrder /\ funds' = NoFunds /\ truth' = NoFunds
    /\ late' = {}
    /\ last' = NoVerdict /\ sent' = NoSend
    /\ UNCHANGED <<engine, offered, world>>

\* The control thread; nothing of the loop moves.
Control ==
    /\ at \notin {"down", "refused"}
    /\ UNCHANGED <<limiterVars, engine, offered, world, funds, at, order, last, sent, truth>>
    /\ \/ \E r \in KillRequests : Spend("kill") /\ SubmitKill(r) /\ UNCHANGED late
       \/ \E r \in KillRequests : Spend("kill") /\ RefuseKill(r) /\ UNCHANGED late
       \/ \E ok \in BOOLEAN : PersistKill(ok) /\ UNCHANGED <<late, left>>
       \/ PushKill /\ late' = late \union {control.cmd} /\ UNCHANGED left

\* Time passes, a fill arrives, the world changes.
Tick ==
    /\ at \notin {"down", "refused"}
    /\ LimiterTick
    /\ funds' = [funds EXCEPT !.age = Least(@ + 1, Cadence + 1)]
    /\ truth' = [truth EXCEPT !.age = Least(@ + 1, Cadence + 1)]
    /\ UNCHANGED <<killVars, engine, offered, world, at, order, last, sent, late, left>>

\* A fill changes what is available, so the loop invalidates the view.
Fill ==
    /\ at = "top" /\ Spend("fill")
    /\ funds' = invalidate(funds) /\ truth' = NoFunds /\ last' = NoVerdict
    /\ UNCHANGED <<killVars, limiterVars, engine, offered, world, at, order, sent, late>>

Deviate(d) ==
    /\ at = "top" /\ Spend("world")
    /\ world[d.field] # d.value
    /\ world' = [world EXCEPT ![d.field] = d.value] /\ last' = NoVerdict
    /\ UNCHANGED <<killVars, limiterVars, engine, offered, funds, at, order, sent, late, truth>>

-----------------------------------------------------------------------------
(* One iteration.                                                          *)
LoopTop(o) ==
    /\ at = "top" /\ Spend("order")
    /\ DrainKills /\ late' = {}
    /\ order' = o /\ last' = NoVerdict
    /\ at' = IF o.kind = "entry" THEN "entry" ELSE "exit"
    /\ UNCHANGED <<limiterVars, engine, offered, world, funds, sent, truth>>

Verdict(v) == last' = [order |-> order, verdict |-> v, world |-> world, truth |-> truth',
                       panic |-> panic_active]

\* The view after a fetch, and what the broker said in it.
Fetch ==
    /\ funds' = ensure_fresh(funds, world)
    /\ truth' = IF ~is_fresh(funds) /\ world.line
                THEN [has |-> TRUE, age |-> 0, available |-> world.available] ELSE truth

\* preflight_entry through the gate: the funds are fetched only if the gate
\* gets that far.
PreflightEntry ==
    /\ at = "entry"
    /\ LET before == EntryBeforeFunds(engine, order, world,
                                      blocks_strategy(order.strategy), kill_posture)
           v == IF before.ok
                THEN EntryFromFunds(engine, order, world, ensure_fresh(funds, world))
                ELSE before
       IN  /\ IF before.ok THEN Fetch ELSE UNCHANGED <<funds, truth>>
           /\ IF v.ok THEN at' = "margin" /\ UNCHANGED last ELSE at' = "top" /\ Verdict(v)
    /\ UNCHANGED <<killVars, limiterVars, engine, offered, world, order, sent, late, left>>

\* Band and buffered margin; time may have passed since the gate.
PreflightMargin ==
    /\ at = "margin"
    /\ LET band == EntryBand(engine, order)
           v == IF band.ok THEN EntryMargin(world, ensure_fresh(funds, world)) ELSE band
       IN  /\ IF band.ok THEN Fetch ELSE UNCHANGED <<funds, truth>>
           /\ Verdict(v)
           /\ at' = IF v.ok THEN "dispatch" ELSE "top"
    /\ UNCHANGED <<killVars, limiterVars, engine, offered, world, order, sent, late, left>>

\* An exit or a modify; a passed one takes the suggested prices.
PreflightExit ==
    /\ at = "exit"
    /\ UNCHANGED <<killVars, limiterVars, engine, offered, world, funds, sent, late, truth, left>>
    /\ LET blocked == blocks_strategy(order.strategy)
           v == IF order.kind = "modify"
                THEN preflight_modify(engine, order, world, blocked, kill_posture)
                ELSE preflight_exit(engine, order, world, blocked, kill_posture)
       IN  /\ Verdict(v)
           /\ order' = IF v.ok THEN apply_clamp(order) ELSE order
           /\ at' = IF v.ok THEN "dispatch" ELSE "top"

\* The second drain: an entry that a kill now covers is dropped.
BeforeDispatch ==
    /\ at = "dispatch"
    /\ DrainKills /\ late' = {}
    /\ at' = "send"
    /\ UNCHANGED <<limiterVars, engine, offered, world, funds, order, last, sent, truth, left>>

Dispatch ==
    /\ at = "send"
    /\ LET is_exit == order.kind # "entry"
           stopped == IF is_exit THEN panic_active ELSE blocks_strategy(order.strategy)
       IN  IF stopped
           THEN at' = "top" /\ UNCHANGED <<limiterVars, sent>>
           ELSE /\ acquire("order", is_exit)
                /\ IF Granted("order", is_exit)
                   THEN /\ at' = "reply"
                        /\ sent' = [order |-> order, killed |-> {c \in engaged \ late : Covers(c, order.strategy)},
                                    hits |-> hits["order"], quiet |-> quiet["order"]]
                   ELSE at' = "top" /\ UNCHANGED sent
    /\ UNCHANGED <<killVars, engine, offered, world, funds, order, last, late, truth, left>>

\* The broker's answer to the call; quotes have an endpoint of their own.
Reply(throttled) ==
    /\ at = "reply"
    /\ IF throttled THEN Spend("throttle") /\ record_429("order")
       ELSE record_success("order") /\ UNCHANGED left
    /\ at' = "top" /\ sent' = NoSend /\ last' = NoVerdict /\ order' = NoOrder
    /\ UNCHANGED <<killVars, engine, offered, world, funds, late, truth>>

Quote(c) ==
    /\ at = "top" /\ Spend("quote")
    /\ c # "order" /\ acquire(c, FALSE)
    /\ UNCHANGED <<killVars, loopVars>>

Next ==
    \/ Start \/ Crash \/ Control \/ Tick \/ Fill
    \/ \E d \in Deviations : Deviate(d)
    \/ \E o \in offered : LoopTop(o)
    \/ PreflightEntry \/ PreflightMargin \/ PreflightExit
    \/ BeforeDispatch \/ Dispatch
    \/ \E throttled \in BOOLEAN : Reply(throttled)
    \/ \E c \in Classes : Quote(c)

\* The clock always advances; nothing else is promised.
Spec == Init /\ [][Next]_vars /\ WF_vars(Tick)

-----------------------------------------------------------------------------
TypeOK ==
    /\ KillTypeOK /\ LimiterTypeOK
    /\ at \in {"down", "refused", "top", "entry", "margin", "exit", "dispatch", "send", "reply"}
    /\ order \in offered \union {NoOrder} \union {apply_clamp(o) : o \in offered}
    /\ late \subseteq engaged
    /\ funds.age \in 0 .. Cadence + 1

Up == at \notin {"down", "refused"}

\* A kill that KillController::submit acknowledged is in force or waits in the queue
\* for as long as the process lives: none is lost between the control thread's push
\* and the loop's drains.  A restart ends it: the durable kills are not replayed.
EngagedKillInForce == engaged \subseteq active \union ToSet(queue)

\* A command submit() acknowledged is durable, over any crash: replay() would find it.
AckedKillIsDurable == acked \subseteq journal

\* In a loop that keeps killswitch.hpp's contract, an entry leaves under a kill that
\* covers its strategy and was acknowledged in this life of the process only if that
\* was after the loop's last drain: one call, never a second one.
KillLandsBeforeNextEntry ==
    sent.order # NoOrder /\ sent.order.kind = "entry" => sent.killed = {}

\* An exit that is well formed for its instrument and on the allow lists is refused
\* only by a panic kill: not by detectors, session, pause, clock, funds or losses
\* (unless the operator asked for risk to gate exits), and what is sent is inside
\* the band, wherever there is one, with its trigger and price still in order.
SoundShape(o) == /\ o.symbol = o.instrument.symbol /\ lot_ok(o) /\ shape_ok(o) /\ tick_ok(o)
                 /\ o.instrument.freeze > 0
                 /\ o.qty > o.instrument.freeze => engine.options.slice_mode
                 /\ o.instrument.exchange # "none"
                 /\ engine.options.allowed_exchanges = {}
                    \/ o.instrument.exchange \in engine.options.allowed_exchanges
                 /\ engine.options.allowed_products = {}
                    \/ o.product \in engine.options.allowed_products
                 /\ o.hedged /\ o.reduces
Banded(o) == o.band.known /\ 0 < o.band.lower /\ o.band.lower <= o.band.upper
ExitNeverStranded ==
    /\ last.order # NoOrder /\ last.order.kind = "exit" /\ SoundShape(last.order)
       /\ ~engine.options.risk_gates_exits /\ ~last.verdict.ok => last.panic
    /\ at \in {"dispatch", "send", "reply"} /\ order.kind # "entry" /\ Banded(order) =>
          /\ shape_ok(order)
          /\ uses_limit_price(order.type) => in_band(order.price, order.band)
          /\ uses_trigger_price(order.type) => in_band(order.trigger, order.band)

\* Whatever was wired, an admitted entry was really judged: the market was open,
\* no duplicate, no pause, a live session, no detector raised, a limit armed unless
\* the deployment declared that there is none, and the book within the armed ones.
\* A check that passes because its input is missing breaks it.
ReallyJudged(w) ==
    /\ w.day \notin Calendar.holidays \/ w.day \in Calendar.specials
    /\ Calendar.open <= w.minute /\ w.minute < Calendar.entry_cutoff
    /\ w.duplicate = "new" /\ ~w.pause /\ w.signals = {}
    /\ w.session = "Healthy" /\ w.text # "SessionExpired"
    /\ engine.options.declares_no_risk_limits \/ any_risk_limit_armed(w.limits)
    /\ w.limits.daily_loss > 0 => w.book.account_pnl > -w.limits.daily_loss
    /\ w.limits.max_lots_per_strategy > 0 =>
          w.book.strategy_lots + w.book.order_lots <= w.limits.max_lots_per_strategy
NoVacuousEntry ==
    last.order # NoOrder /\ last.order.kind = "entry" /\ last.verdict.ok => ReallyJudged(last.world)

\* The margin an entry was admitted on is what the broker reported since the last
\* fill and within the cadence of the moment of admission, and it covers the
\* requirement with its whole buffer, or is all that an amount can hold.
Ceil(a, b) == (a + b - 1) \div b
AdmittedOnTruth ==
    last.order # NoOrder /\ last.order.kind = "entry" /\ last.verdict.ok =>
        /\ last.truth.has /\ last.truth.age <= Cadence
        /\ last.truth.available >=
              Least(PaiseMax, last.world.quote.api_required + Buffer.flat
                              + Ceil(last.world.quote.api_required * Buffer.bps, 10000))

\* Entries and quotes never take from the exits: the order bucket holds at least
\* what a bucket of the reserved size would that only exits draw from.
ExitLaneHolds == refill("order", bucket["order"]).tokens >= exitLane.tokens

\* After the threshold's number of 429s in a row no entry leaves before the
\* cooldown is over, and each further 429 doubles it up to the cap.
Pow2[n \in Nat] == IF n = 0 THEN 1 ELSE 2 * Pow2[n - 1]
StormBacksOff ==
    sent.order # NoOrder /\ sent.order.kind = "entry" /\ sent.hits >= trip_threshold =>
        sent.quiet >= Least(cooldown_base * Pow2[sent.hits - trip_threshold], MaxCooldown) * Second

\* A throttled entry lane opens again once nothing draws from it.
ThrottleEnds ==
    (Up /\ refill("order", bucket["order"]).tokens <= reserved_exit("order"))
        ~> (~Up \/ refill("order", bucket["order"]).tokens > reserved_exit("order"))

\* The kill switch across both threads: in one life of the process no acknowledged
\* kill is lost and each lands before the next entry, and over crashes each is durable.
KillsHold == EngagedKillInForce /\ AckedKillIsDurable /\ KillLandsBeforeNextEntry

\* preflight_entry admits nothing unjudged and nothing on stale funds.
EntryIsJudged == NoVacuousEntry /\ AdmittedOnTruth

\* The send limiter: exits keep their lane and a storm of 429s is answered by
\* longer pauses.
LimiterHolds == TypeOK /\ ExitLaneHolds /\ StormBacksOff
=============================================================================
