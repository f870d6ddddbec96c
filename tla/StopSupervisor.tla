--------------------------- MODULE StopSupervisor ---------------------------
(***************************************************************************)
(* protection/stop_supervisor.cpp: evaluate_protection on every tick, and  *)
(* the caller that sends what it emits.  The exchange takes an exit whose  *)
(* limit is inside its band and rejects any other; working exits fill, in  *)
(* part or in full, or are cancelled.  Quantities have a width: IntMin is  *)
(* the value that has no magnitude.                                        *)
(***************************************************************************)
EXTENDS Integers, SequencesExt

CONSTANTS IntMin,        \* quantities are IntMin .. -IntMin - 1
          Positions,     \* the positions to protect
          Limit,         \* the protective limit
          Bands,         \* [lower, upper, valid]: what the caller knows of the band
          MaxExits       \* bound on the exits of one behaviour

ASSUME StopAssumption ==
    /\ IntMin \in Int /\ IntMin < 0 /\ Positions \subseteq Int /\ Limit \in Int
    /\ \A b \in Bands : b.lower \in Int /\ b.upper \in Int /\ b.valid \in BOOLEAN

VARIABLES position_qty,  \* reconciled: fills are applied
          exits,         \* working exits: [side, qty]
          sent,          \* exits emitted so far (bound)
          tick,          \* the last tick, NoTick once something has moved
          rearmed,       \* an exit was emitted while another was working (history)
          trueBand       \* the exchange's band

stVars == <<position_qty, exits, sent, tick, rearmed, trueBand>>

NoTick == [crossed |-> FALSE]
Decision(state, alert) == [state |-> state, emit_exit |-> FALSE, alert |-> alert]
abs_qty(q) == IF q < 0 THEN -q ELSE q

\* 0 - q in the machine's width.
exit_quantity(q) == IF q = IntMin THEN IntMin ELSE abs_qty(q)

clamp_into_band(limit, band) ==
    IF limit > band.upper THEN band.upper ELSE IF limit < band.lower THEN band.lower ELSE limit

\* Mutant of exit_side: a short is sold once more.
ExitSideSame(q) == "Sell"

exit_side(q) == IF q > 0 THEN "Sell" ELSE "Buy"

band_usable(band) == band.valid /\ band.lower <= band.upper

\* Mutant of evaluate_protection: a protective order that filled is believed.
EvaluateByFlag(q, crossed, flag, band) ==
    IF q = 0 \/ flag = "Filled" THEN Decision("Closed", FALSE)
    ELSE IF ~crossed THEN Decision("Armed", FALSE)
    ELSE [state |-> "ReArmNeeded", emit_exit |-> TRUE, alert |-> TRUE,
          side |-> exit_side(q), qty |-> exit_quantity(q),
          limit |-> IF band_usable(band) THEN clamp_into_band(Limit, band) ELSE Limit]

\* flag is what the broker says of the protective order; it is not asked.
evaluate_protection(q, crossed, flag, band) ==
    IF q = 0 THEN Decision("Closed", FALSE)
    ELSE IF exit_quantity(q) <= 0 THEN Decision("Unprotected", TRUE)
    ELSE IF ~crossed THEN Decision("Armed", FALSE)
    ELSE [state |-> "ReArmNeeded", emit_exit |-> TRUE, alert |-> TRUE,
          side |-> exit_side(q), qty |-> exit_quantity(q),
          limit |-> IF band_usable(band) THEN clamp_into_band(Limit, band) ELSE Limit]

StopInit(q) ==
    /\ position_qty = q
    /\ exits = <<>> /\ sent = 0 /\ tick = NoTick /\ rearmed = FALSE
    /\ trueBand \in {b \in Bands : band_usable(b)}

\* One tick: the caller knows the exchange's band, or has none or a mangled one,
\* and sends what is emitted.
Tick(crossed, flag, band) ==
    /\ sent < MaxExits
    /\ band_usable(band) => band = trueBand
    /\ LET d == evaluate_protection(position_qty, crossed, flag, band)
           accepted == d.emit_exit /\ d.limit \in trueBand.lower..trueBand.upper
       IN  /\ tick' = [crossed |-> crossed, usable |-> band_usable(band), alert |-> d.alert]
           /\ exits' = IF accepted THEN Append(exits, [side |-> d.side, qty |-> d.qty]) ELSE exits
           /\ sent' = IF d.emit_exit THEN sent + 1 ELSE sent
           /\ rearmed' = (rearmed \/ (accepted /\ exits # <<>>))
    /\ UNCHANGED <<position_qty, trueBand>>

\* n of a working exit's quantity fill, and the position is reconciled.
ExitFills(e, n) ==
    /\ n \in 1..exits[e].qty
    /\ position_qty' = IF exits[e].side = "Sell" THEN position_qty - n ELSE position_qty + n
    /\ exits' = IF n = exits[e].qty THEN RemoveAt(exits, e) ELSE [exits EXCEPT ![e].qty = @ - n]
    /\ tick' = NoTick
    /\ UNCHANGED <<sent, rearmed, trueBand>>

ExitCancelled(e) ==
    /\ exits' = RemoveAt(exits, e)
    /\ tick' = NoTick
    /\ UNCHANGED <<position_qty, sent, rearmed, trueBand>>

StopNext ==
    \/ \E c \in BOOLEAN, f \in {"Filled", "Unknown"}, b \in Bands : Tick(c, f, b)
    \/ \E e \in DOMAIN exits, n \in 1..-IntMin : ExitFills(e, n)
    \/ \E e \in DOMAIN exits : ExitCancelled(e)

-----------------------------------------------------------------------------
\* What the exits that work add up to.
Working ==
    LET sum[n \in 0 .. Len(exits)] == IF n = 0 THEN 0 ELSE sum[n - 1] + exits[n].qty
    IN  sum[Len(exits)]

\* After a tick on which the trigger is crossed, a position that is not flat has
\* raised an alert, and if the band was known and a magnitude exists, exits for at
\* least the whole of it are working at the exchange, whatever the broker's order
\* flag said and whatever was rejected, cancelled or filled in part before.
CrossedIsCovered ==
    tick.crossed /\ position_qty # 0 =>
        /\ tick.alert
        /\ tick.usable /\ position_qty # IntMin => Working >= abs_qty(position_qty)

\* As long as no exit is emitted beside a working one, exits only reduce: what
\* works is on the closing side and never more than the position.
LoneExitNeverOvershoots ==
    ~rearmed => /\ Working <= abs_qty(position_qty)
                /\ \A e \in DOMAIN exits : position_qty > 0 <=> exits[e].side = "Sell"

\* evaluate_protection as a whole: a crossed stop is covered, and an exit that is
\* alone never opens the opposite position.
StopIsSound == CrossedIsCovered /\ LoneExitNeverOvershoots
=============================================================================
