----------------------------- MODULE MCOptions -----------------------------
EXTENDS Options

Err(c, a) == [category |-> c, action |-> a]
Ok0 == [ok |-> TRUE, error |-> Err("none", "none"), took |-> TRUE]
Fails(c, a, took) == [ok |-> FALSE, error |-> Err(c, a), took |-> took]

\* An acknowledgement, verdicts, and errors behind which the request may have
\* taken effect; a Network error also in the form a caller gave another action.
MCReplies ==
    {Ok0, Fails("Validation", "DoNotRetry", FALSE), Fails("DuplicateOrder", "ReconcileFirst", TRUE)}
    \union {Fails(c, "ReconcileFirst", t) : c \in {"Timeout", "RateLimited"}, t \in BOOLEAN}
    \union {Fails("Network", "RaiseAlert", t) : t \in BOOLEAN}

Leg(id, deps) == [leg_id |-> id, depends_on |-> deps]
Spread == <<Leg("short", {"hedge"}), Leg("hedge", {}), Leg("tail", {"short"})>>
Fly    == <<Leg("hedge", {}), Leg("short", {"hedge"}), Leg("far", {}), Leg("body", {"hedge", "far"})>>
BadLegs == {<<Leg("a", {"b"}), Leg("b", {"a"})>>, <<Leg("a", {}), Leg("a", {})>>,
            <<Leg("a", {"x"})>>, <<Leg("", {})>>, <<>>}
Span0 == [ok |-> TRUE, now |-> 5, shocked |-> 8]
Base == [legs |-> Spread, policy |-> "UnwindExecuted", seams |-> {"place_leg", "unwind_leg"},
         net_short |-> FALSE, support |-> "Supported", span |-> Span0, available |-> 8]
MCBaskets ==
    {[Base EXCEPT !.policy = p, !.seams = s] :
        p \in {"UnwindExecuted", "LeaveAndAlert"}, s \in {Base.seams, {"place_leg"}, {"unwind_leg"}}}
    \union {[Base EXCEPT !.legs = l] : l \in BadLegs \union {Fly}}
    \union {[Base EXCEPT !.net_short = TRUE, !.available = a, !.support = s, !.span.ok = ok] :
               a \in {4, 7, 8}, s \in {"Supported", "Unsupported"}, ok \in BOOLEAN}
    \union {[Base EXCEPT !.net_short = TRUE, !.span.now = 9]}

AllHedgeSeams == {"place_hedge", "confirm_hedge", "place_short", "recheck_hedge_live",
                  "emergency_action"}
MCHedgeSeams == {AllHedgeSeams} \union {AllHedgeSeams \ {s} : s \in AllHedgeSeams}

AllSliceSeams == {"already_placed", "place_child"}
MCParents ==
    {[qty |-> q, is_child |-> FALSE, seams |-> AllSliceSeams] : q \in {0, 2, 5, 6, 8}}
    \union {[qty |-> 6, is_child |-> FALSE, seams |-> {s}] : s \in AllSliceSeams}
    \union {[qty |-> 6, is_child |-> TRUE, seams |-> AllSliceSeams]}
MCInstruments == {[lot |-> 2, freeze |-> 3], [lot |-> 2, freeze |-> 4], [lot |-> 2, freeze |-> 1],
                  [lot |-> 0, freeze |-> 4]}

MCMark == [x |-> 2, y |-> 1]
MCBands == {[lower |-> 2, upper |-> 4, valid |-> TRUE], [lower |-> 6, upper |-> 7, valid |-> TRUE],
            [lower |-> 4, upper |-> 2, valid |-> TRUE], [lower |-> 0, upper |-> 0, valid |-> FALSE]}
MCOrderSizes == {1, -1, 2, -3}
MCIntMin == -4
MCPositions == {-4, -3, 0, 2, 3}
=============================================================================
