------------------------------ MODULE SlicedLeg ------------------------------
(***************************************************************************)
(* options/sliced_leg.cpp over slicing/freeze_slicer.cpp: an order above   *)
(* the exchange's freeze quantity goes out as children "<parent>#<k>", one *)
(* by one, and may be run again after a pause or the death of the process. *)
(* A child is [k, qty], k = 0 standing for the parent's own reference.     *)
(* atBroker is every order the broker accepted; flight is a request whose  *)
(* fate is still open.                                                     *)
(***************************************************************************)
EXTENDS Integers, SequencesExt, Lifecycle

CONSTANTS Parents,       \* [qty, is_child, seams]
          Instruments,   \* [lot, freeze]
          MaxRuns        \* bound on the attempts at one leg

ASSUME SliceAssumption ==
    /\ \A p \in Parents : p.qty \in Int /\ p.is_child \in BOOLEAN
    /\ \A i \in Instruments : i.lot \in Int /\ i.freeze \in Int

VARIABLES sl,            \* the executor's locals and result
          atBroker, flight,
          children_by_parent,  \* the engine's last state of each child
          sliced         \* the instruments of the attempts so far (history)

slVars == <<sl, atBroker, flight, children_by_parent, sliced>>

\* Mutant of slice: chunks of the freeze quantity itself.
SliceByFreeze(parent, inst) ==
    LET n == (parent.qty + inst.freeze - 1) \div inst.freeze
    IN  IF parent.is_child \/ inst.lot <= 0 \/ parent.qty <= 0 \/ inst.freeze < inst.lot
        THEN <<>>
        ELSE [k \in 1..n |-> [k |-> k, qty |-> IF k < n THEN inst.freeze
                                               ELSE parent.qty - (n - 1) * inst.freeze]]

\* The children, or <<>> for every input the slicer refuses.
slice(parent, inst) ==
    LET qty   == parent.qty
        chunk == (inst.freeze \div inst.lot) * inst.lot
        full  == qty \div chunk
        rem   == qty % chunk
    IN  IF \/ parent.is_child
           \/ inst.lot <= 0 \/ qty <= 0
           \/ qty < inst.lot \/ qty % inst.lot # 0
           \/ inst.freeze <= 0 \/ inst.freeze < inst.lot
        THEN <<>>
        ELSE IF qty <= inst.freeze THEN <<[k |-> 0, qty |-> qty]>>
        ELSE [k \in 1..(full + IF rem > 0 THEN 1 ELSE 0) |->
                 [k |-> k, qty |-> IF k <= full THEN chunk ELSE rem]]

SlicedLegOutcome == {"none", "FilledSliced", "UnknownPaused", "SliceRejected"}

SliceInit(parent, inst) ==
    /\ sl = [parent |-> parent, inst |-> inst, pc |-> "start", children |-> <<>>, at |-> 1,
             runs |-> 1, outcome |-> "none", alert |-> "none"]
    /\ atBroker = <<>> /\ flight = {} /\ sliced = {}
    /\ children_by_parent = <<>>

child == sl.children[sl.at]
OnBroker(k) == \E o \in DOMAIN atBroker : atBroker[o].k = k
EndLeg(outcome) == [sl EXCEPT !.pc = "done", !.outcome = outcome]
pause_for_unknown == [EndLeg("UnknownPaused") EXCEPT !.alert = "Critical"]
AfterChild == [sl EXCEPT !.pc = "child", !.at = @ + 1]

StartLeg ==
    /\ sl.pc = "start"
    /\ LET cs == slice(sl.parent, sl.inst)
       IN  IF "place_child" \notin sl.parent.seams \/ cs = <<>>
           THEN sl' = EndLeg("SliceRejected") /\ UNCHANGED sliced
           ELSE /\ sl' = [sl EXCEPT !.pc = "child", !.children = cs]
                /\ sliced' = sliced \union {sl.inst}
    /\ UNCHANGED <<atBroker, flight, children_by_parent>>

\* Mutant of ProbeChild: a rerun sends what the probe found.
ProbeIgnored(answers) ==
    /\ sl.pc = "child" /\ sl.at <= Len(sl.children)
    /\ sl' = IF "already_placed" \in sl.parent.seams /\ ~answers THEN pause_for_unknown
             ELSE [sl EXCEPT !.pc = "place"]
    /\ UNCHANGED <<atBroker, flight, children_by_parent, sliced>>

\* already_placed: broker truth or an error; a missing probe proceeds.
ProbeChild(answers) ==
    /\ sl.pc = "child" /\ sl.at <= Len(sl.children)
    /\ sl' = IF "already_placed" \notin sl.parent.seams THEN [sl EXCEPT !.pc = "place"]
             ELSE IF ~answers THEN pause_for_unknown
             ELSE IF OnBroker(child.k) THEN AfterChild
             ELSE [sl EXCEPT !.pc = "place"]
    /\ UNCHANGED <<atBroker, flight, children_by_parent, sliced>>

\* Mutant of PlaceChild: a child without an answer is skipped.
PlaceAndGoOn(answer) ==
    /\ sl.pc = "place"
    /\ IF answer = "acked" THEN atBroker' = Append(atBroker, child) /\ UNCHANGED flight
       ELSE UNCHANGED atBroker /\ flight' = IF answer = "refused" THEN {} ELSE {child}
    /\ sl' = AfterChild
    /\ UNCHANGED <<children_by_parent, sliced>>

\* place_child: only Acked lets the leg go on, a refusal pauses it like an Unknown.
\* A caller that wires no probe relies on the store's UNIQUE(client_ref), which
\* refuses a recorded reference; behind a probe nothing else does.
Backstop == "already_placed" \notin sl.parent.seams
PlaceChild(answer) ==
    /\ sl.pc = "place"
    /\ Backstop /\ OnBroker(child.k) => answer = "refused"
    /\ atBroker' = IF answer = "acked" THEN Append(atBroker, child) ELSE atBroker
    /\ flight' = IF answer = "open" THEN {child} ELSE {}
    /\ sl' = IF answer = "acked" THEN AfterChild ELSE pause_for_unknown
    /\ UNCHANGED <<children_by_parent, sliced>>

LegComplete ==
    /\ sl.pc = "child" /\ sl.at > Len(sl.children)
    /\ sl' = EndLeg("FilledSliced")
    /\ UNCHANGED <<atBroker, flight, children_by_parent, sliced>>

\* The request whose answer was lost arrives, or never did.
FlightLands(arrives) ==
    /\ flight # {}
    /\ atBroker' = IF arrives THEN atBroker \o SetToSeq(flight) ELSE atBroker
    /\ flight' = {}
    /\ UNCHANGED <<sl, children_by_parent, sliced>>

\* The process dies anywhere, also inside place_child; the engine's map goes too.
LegCrash(inCall) ==
    /\ sl.pc \in {"child", "place"}
    /\ inCall => sl.pc = "place" /\ ~(Backstop /\ OnBroker(child.k))
    /\ flight' = IF inCall THEN {child} ELSE flight
    /\ sl' = [sl EXCEPT !.pc = "down"]
    /\ children_by_parent' = <<>>
    /\ UNCHANGED <<atBroker, sliced>>

\* The same parent again, once reconciliation has settled the open request; the
\* reference data may have been refreshed meanwhile.
RunAgain(inst) ==
    /\ sl.pc = "down" \/ sl.outcome = "UnknownPaused"
    /\ flight = {} /\ sl.runs < MaxRuns
    /\ sl' = [sl EXCEPT !.pc = "start", !.inst = inst, !.runs = @ + 1, !.children = <<>>, !.at = 1,
                        !.outcome = "none", !.alert = "none"]
    /\ UNCHANGED <<atBroker, flight, children_by_parent, sliced>>

\* apply_child: a child's state, from its placement or from the broker, reaches
\* the engine.
ChildStates == {"Unknown", "Acknowledged", "Filled", "Cancelled"}
apply_child(children, k, state) ==
    [c \in DOMAIN children \union {k} |-> IF c = k THEN state ELSE children[c]]

ChildObserved(k, state) ==
    /\ sl.pc # "down"
    /\ IF k \in DOMAIN children_by_parent THEN table_allows(children_by_parent[k], state)
       ELSE state \in {"Unknown", "Acknowledged"}
    /\ children_by_parent' = apply_child(children_by_parent, k, state)
    /\ UNCHANGED <<sl, atBroker, flight, sliced>>

SliceNext ==
    \/ StartLeg
    \/ \E a \in BOOLEAN : ProbeChild(a)
    \/ \E a \in {"acked", "open", "refused"} : PlaceChild(a)
    \/ LegComplete
    \/ \E b \in BOOLEAN : FlightLands(b)
    \/ \E b \in BOOLEAN : LegCrash(b)
    \/ \E i \in Instruments : RunAgain(i)
    \/ \E o \in DOMAIN atBroker, s \in ChildStates : ChildObserved(atBroker[o].k, s)

-----------------------------------------------------------------------------
SliceTypeOK ==
    /\ sl.pc \in {"start", "child", "place", "done", "down"}
    /\ sl.outcome \in SlicedLegOutcome
    /\ \A k \in DOMAIN children_by_parent : children_by_parent[k] \in OrderState

Total ==
    LET sum[n \in 0 .. Len(atBroker)] == IF n = 0 THEN 0 ELSE sum[n - 1] + atBroker[n].qty
    IN  sum[Len(atBroker)]

\* Whatever is lost, refused, paused, killed and run again, no child reference
\* is accepted twice, and no order is sent behind one whose fate is open.
ChildAtMostOnce ==
    /\ \A o, p \in DOMAIN atBroker : atBroker[o].k = atBroker[p].k => o = p
    /\ flight # {} => sl.pc \in {"done", "down"}

\* As long as every attempt sliced by the same instrument, the broker never holds
\* more than the parent ordered, holds exactly that when the leg reports success,
\* and holds no order above the freeze quantity or off the lot.
SliceIsExact ==
    \A i \in sliced : sliced = {i} =>
        /\ Total <= sl.parent.qty
        /\ sl.outcome = "FilledSliced" => Total = sl.parent.qty
        /\ \A o \in DOMAIN atBroker : atBroker[o].qty <= i.freeze /\ atBroker[o].qty % i.lot = 0

\* Once the engine knows every child of the slice, it reports the parent Filled
\* only if the filled orders add up to the parent.
FilledParentIsWhole ==
    /\ sl.children # <<>> /\ Cardinality(sliced) = 1
    /\ {sl.children[c].k : c \in DOMAIN sl.children} = DOMAIN children_by_parent
    /\ parent_state(children_by_parent) = "Filled"
    => /\ Total = sl.parent.qty
       /\ \A o \in DOMAIN atBroker : children_by_parent[atBroker[o].k] = "Filled"

\* execute_sliced_leg as a whole, over pauses, deaths and reruns: each child once,
\* the total exact, and the parent filled only when all of it is.
SlicesAreSafe == SliceTypeOK /\ ChildAtMostOnce /\ SliceIsExact /\ FilledParentIsWhole
=============================================================================
