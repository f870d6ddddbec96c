------------------------------- MODULE Options -------------------------------
(***************************************************************************)
(* The executors for option structures and the books around them.  They    *)
(* share no state in the repository: each is handed its seams by a caller. *)
(* A behaviour runs one of them, so that one run explores all.             *)
(***************************************************************************)
EXTENDS HedgeFirst, SlicedLeg, StrategyBook, StopSupervisor

VARIABLE subject

vars == <<subject, bkVars, hfVars, slVars, sbVars, stVars>>

Init ==
    /\ subject \in {"basket", "hedge", "slice", "book", "stop"}
    /\ \E b \in Baskets, h \in HedgeSeams, p \in Parents, i \in Instruments, q \in Positions :
          \* The subjects that are not run keep one arbitrary initial state.
          /\ subject # "basket" => b = CHOOSE y \in Baskets : TRUE
          /\ subject # "hedge" => h = CHOOSE y \in HedgeSeams : TRUE
          /\ subject # "slice" => p = (CHOOSE y \in Parents : TRUE) /\ i = (CHOOSE y \in Instruments : TRUE)
          /\ subject # "stop" => q = CHOOSE y \in Positions : TRUE
          /\ BasketInit(b) /\ HedgeInit(h) /\ SliceInit(p, i) /\ BookInit /\ StopInit(q)
    /\ subject # "stop" => trueBand = CHOOSE y \in Bands : band_usable(y)

Next ==
    \/ subject = "basket" /\ BasketNext /\ UNCHANGED <<subject, hfVars, slVars, sbVars, stVars>>
    \/ subject = "hedge"  /\ HedgeNext  /\ UNCHANGED <<subject, bkVars, slVars, sbVars, stVars>>
    \/ subject = "slice"  /\ SliceNext  /\ UNCHANGED <<subject, bkVars, hfVars, sbVars, stVars>>
    \/ subject = "book"   /\ BookNext   /\ UNCHANGED <<subject, bkVars, hfVars, slVars, stVars>>
    \/ subject = "stop"   /\ StopNext   /\ UNCHANGED <<subject, bkVars, hfVars, slVars, sbVars>>

Spec == Init /\ [][Next]_vars
=============================================================================
