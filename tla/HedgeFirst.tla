----------------------------- MODULE HedgeFirst -----------------------------
(***************************************************************************)
(* options/hedge_first.cpp: hedge placed, hedge confirmed, short placed,   *)
(* hedge checked again, emergency action.  The hedge fills, is lost or     *)
(* lapses between any two calls; hedge and short are the broker's truth.   *)
(***************************************************************************)
EXTENDS Basket

CONSTANT HedgeSeams    \* sets of the seams that are configured

VARIABLES hf,          \* the executor's locals and result
          hedge,       \* "none", "working", "lost" unfilled, "live" or "gone"
          short,       \* "none", "live" or "closed"
          covered      \* the hedge was live when it was checked after the short (history)

hfVars == <<hf, hedge, short, covered>>

HedgeFirstOutcome == {"none", "HedgedShortLive", "HedgePlacementFailed", "HedgeUnconfirmed",
                      "ShortPlacementFailed", "NakedShortRemediated",
                      "ShortAmbiguousReconcileRequired"}

HedgeInit(seams) ==
    /\ hf = [seams |-> seams, pc |-> "hedge", outcome |-> "none", alert |-> "none",
             emergency_action_ran |-> FALSE]
    /\ hedge = "none" /\ short = "none" /\ covered = FALSE

HedgeEnd(outcome, alert) == [hf EXCEPT !.pc = "done", !.outcome = outcome, !.alert = alert]

\* Any error aborts, an ambiguous one too: the hedge may be live all the same.
PlaceHedge(reply) ==
    /\ hf.pc = "hedge"
    /\ IF "place_hedge" \notin hf.seams
       THEN hf' = HedgeEnd("HedgePlacementFailed", "none") /\ UNCHANGED hedge
       ELSE /\ hedge' = IF reply.took THEN "working" ELSE "none"
            /\ hf' = IF reply.ok THEN [hf EXCEPT !.pc = "confirm"]
                     ELSE HedgeEnd("HedgePlacementFailed", "none")
    /\ UNCHANGED <<short, covered>>

\* The answer of a check: the truth, or an error.
HedgeSeenLive(seam, answers) == seam \in hf.seams /\ answers /\ hedge = "live"

\* Mutant of ConfirmHedge: an unanswered confirmation does not stop the short.
ConfirmOptimistic(answers) ==
    /\ hf.pc = "confirm"
    /\ hf' = [hf EXCEPT !.pc = "short"]
    /\ UNCHANGED <<hedge, short, covered>>

ConfirmHedge(answers) ==
    /\ hf.pc = "confirm"
    /\ hf' = IF HedgeSeenLive("confirm_hedge", answers) THEN [hf EXCEPT !.pc = "short"]
             ELSE HedgeEnd("HedgeUnconfirmed", "none")
    /\ UNCHANGED <<hedge, short, covered>>

\* Mutant of short_is_ambiguous: every error is a verdict.
NeverAmbiguous(e) == FALSE

short_is_ambiguous(e) ==
    \/ e.action = "ReconcileFirst"
    \/ e.category \in {"Timeout", "Network", "Unknown"}

PlaceShort(reply) ==
    /\ hf.pc = "short"
    /\ IF "place_short" \notin hf.seams
       THEN hf' = HedgeEnd("ShortPlacementFailed", "none") /\ UNCHANGED short
       ELSE /\ short' = IF reply.took THEN "live" ELSE "none"
            /\ hf' = IF reply.ok THEN [hf EXCEPT !.pc = "recheck"]
                     ELSE IF short_is_ambiguous(reply.error)
                     THEN HedgeEnd("ShortAmbiguousReconcileRequired", "Critical")
                     ELSE HedgeEnd("ShortPlacementFailed", "none")
    /\ UNCHANGED <<hedge, covered>>

\* Mutant of RecheckHedge: an unanswered check counts as live.
RecheckOptimistic(answers) ==
    /\ hf.pc = "recheck"
    /\ covered' = (hedge = "live")
    /\ hf' = IF ~answers \/ hedge = "live" THEN HedgeEnd("HedgedShortLive", "none")
             ELSE [hf EXCEPT !.pc = "emergency"]
    /\ UNCHANGED <<hedge, short>>

RecheckHedge(answers) ==
    /\ hf.pc = "recheck"
    /\ covered' = (hedge = "live")
    /\ hf' = IF HedgeSeenLive("recheck_hedge_live", answers)
             THEN HedgeEnd("HedgedShortLive", "none")
             ELSE [hf EXCEPT !.pc = "emergency"]
    /\ UNCHANGED <<hedge, short>>

\* The emergency action first, then the alert; the action squares off the short.
EmergencyAction(ok) ==
    /\ hf.pc = "emergency"
    /\ LET ran == "emergency_action" \in hf.seams /\ ok
       IN  /\ hf' = [HedgeEnd("NakedShortRemediated", "Critical") EXCEPT
                         !.emergency_action_ran = ran]
           /\ short' = IF ran THEN "closed" ELSE short
    /\ UNCHANGED <<hedge, covered>>

\* The exchange fills the hedge, or ends it behind the executor's back.
HedgeMoves ==
    /\ hf.pc # "done"
    /\ \/ hedge = "working" /\ hedge' \in {"live", "lost"}
       \/ hedge = "live" /\ hedge' = "gone"
    /\ UNCHANGED <<hf, short, covered>>

HedgeNext ==
    \/ \E r \in Replies : PlaceHedge(r)
    \/ \E a \in BOOLEAN : ConfirmHedge(a)
    \/ \E r \in Replies : PlaceShort(r)
    \/ \E a \in BOOLEAN : RecheckHedge(a)
    \/ \E ok \in BOOLEAN : EmergencyAction(ok)
    \/ HedgeMoves

-----------------------------------------------------------------------------
HedgeTypeOK ==
    /\ hf.pc \in {"hedge", "confirm", "short", "recheck", "emergency", "done"}
    /\ hf.outcome \in HedgeFirstOutcome
    /\ hedge \in {"none", "working", "lost", "live", "gone"}
    /\ short \in {"none", "live", "closed"}

\* A verdict that lets the caller close the hedge is never given over a short that
\* exists: HedgePlacementFailed, HedgeUnconfirmed and ShortPlacementFailed all mean
\* that the broker holds no short.
SafeVerdictMeansNoShort ==
    hf.outcome \in {"HedgePlacementFailed", "HedgeUnconfirmed", "ShortPlacementFailed"}
        => short = "none"

\* The short is sent only behind a hedge that has filled: a working, lost or
\* merely acknowledged hedge never has a short beside it.
ShortFollowsFilledHedge == short # "none" => hedge \in {"live", "gone"}

\* A short that stays live although its hedge was not there when it was checked
\* afterwards, or that was never checked, has raised a Critical alert; and success
\* is reported only over a hedge that was live at that check.
NakedShortIsRaised ==
    hf.pc = "done" /\ short = "live" /\ ~covered
        => hf.alert = "Critical" /\ hf.outcome # "HedgedShortLive"

\* execute_hedge_first as a whole: the short follows a filled hedge, a verdict
\* of safety means there is no short, and a naked one is raised.
HedgeIsSafe ==
    HedgeTypeOK /\ SafeVerdictMeansNoShort /\ ShortFollowsFilledHedge /\ NakedShortIsRaised
=============================================================================
