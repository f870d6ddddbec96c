------------------------------- MODULE Basket -------------------------------
(***************************************************************************)
(* options/basket.cpp and options/margin_shock.cpp: the margin gate before *)
(* a basket, the dependency order, the placement of the legs one by one,   *)
(* the classification of every error and the policy afterwards.  A leg is  *)
(* its index in the list; bkLive is what exists at the broker, which the   *)
(* executor never sees.                                                    *)
(***************************************************************************)
EXTENDS Integers, SequencesExt

CONSTANTS Baskets,   \* [legs, policy, seams, net_short, support, span, available]
          Replies    \* [ok, error, took]: an answer, and whether the request took effect

LegLists == Seq([leg_id : STRING, depends_on : SUBSET STRING])

ASSUME BasketsAssumption ==
    \A b \in Baskets :
        /\ b.legs \in LegLists /\ b.net_short \in BOOLEAN /\ b.available \in Int
        /\ b.span \in [ok : BOOLEAN, now : Int, shocked : Int]

\* What the broker adapters promise the seams (AnswersAreTrue of BrokerAdapter): an
\* acknowledged request took effect, and one that was refused for good did not.
ASSUME RepliesAssumption ==
    \A r \in Replies :
        /\ r.ok \in BOOLEAN /\ r.took \in BOOLEAN
        /\ r.ok => r.took
        /\ r.took /\ ~r.ok => \/ r.error.action = "ReconcileFirst"
                             \/ r.error.category \in {"Timeout", "Network", "Unknown"}

VARIABLES bk,        \* the executor's locals and result
          bkLive     \* the legs that are live at the broker

bkVars == <<bk, bkLive>>

LegStatus == {"Executed", "Failed", "SkippedUnmetDependency", "Unwound", "AmbiguousMayBeLive"}
BasketOutcome == {"none", "Complete", "PartiallyExecutedUnwound", "PartiallyExecutedLeft",
                  "Blocked", "ReconcileRequired"}
NoAlert == [level |-> "none", names |-> {}]

\* Mutant of is_ambiguous: the action alone is asked.
AmbiguousByAction(e) == e.action = "ReconcileFirst"

is_ambiguous(e) ==
    \/ e.action = "ReconcileFirst"
    \/ e.category \in {"Timeout", "Network", "Unknown"}

-----------------------------------------------------------------------------
(* evaluate_margin_shock: a model counts only if the capability is there   *)
(* and the source answered; without one a net-short basket is blocked.     *)
\* Mutant of evaluate_margin_shock: without a model the basket is allowed.
NoModelNoBlock(b) ==
    IF b.support = "Supported" /\ b.span.ok /\ b.span.shocked > b.available
    THEN "BlockedMarginShock" ELSE "WithinShockLimit"

evaluate_margin_shock(b) ==
    IF b.support = "Supported" /\ b.span.ok
    THEN IF b.span.shocked > b.available \/ b.span.now > b.available
         THEN "BlockedMarginShock" ELSE "WithinShockLimit"
    ELSE IF b.net_short THEN "BlockedUnavailableNetShort" ELSE "AllowedUnavailableBounded"

is_blocking(verdict) == verdict \in {"BlockedMarginShock", "BlockedUnavailableNetShort"}

-----------------------------------------------------------------------------
(* topological_order: Kahn's queue.  Taking the h-th entry of the queue    *)
(* appends, in index order, the legs whose prerequisites are now all taken.*)
LegIds(legs) == {legs[i].leg_id : i \in DOMAIN legs}
IndexOf(legs, id) == CHOOSE i \in DOMAIN legs : legs[i].leg_id = id
Prerequisites(legs, i) == {IndexOf(legs, d) : d \in legs[i].depends_on}

well_formed(legs) ==
    /\ \A i \in DOMAIN legs : legs[i].leg_id # "" /\ legs[i].depends_on \subseteq LegIds(legs)
    /\ \A i, j \in DOMAIN legs : legs[i].leg_id = legs[j].leg_id => i = j

\* A set of indices in their order.
Ascending(S) ==
    CHOOSE s \in [1 .. Cardinality(S) -> S] : \A i, j \in DOMAIN s : i < j => s[i] < s[j]

Ready(legs, queue, taken) ==
    Ascending({v \in DOMAIN legs : /\ \A q \in DOMAIN queue : queue[q] # v
                                   /\ Prerequisites(legs, v) \subseteq taken})

kahn_queue(legs) ==
    LET queue[h \in Nat] ==
            IF h = 0 THEN Ready(legs, <<>>, {})
            ELSE IF h > Len(queue[h - 1]) THEN queue[h - 1]
            ELSE queue[h - 1] \o Ready(legs, queue[h - 1], {queue[h - 1][q] : q \in 1 .. h})
    IN  queue[Len(legs)]

\* The order, or <<>> with ok FALSE.
topological_order(legs) ==
    IF ~well_formed(legs) THEN [ok |-> FALSE, order |-> <<>>]
    ELSE [ok |-> Len(kahn_queue(legs)) = Len(legs), order |-> kahn_queue(legs)]

-----------------------------------------------------------------------------
BasketInit(b) ==
    /\ bk = [basket |-> b, pc |-> "gate", order |-> <<>>, at |-> 1,
             status |-> [i \in DOMAIN b.legs |-> "SkippedUnmetDependency"],
             outcome |-> "none", alert |-> NoAlert]
    /\ bkLive = {}

legs_ == bk.basket.legs
current == bk.order[bk.at]
Having(st) == {i \in DOMAIN legs_ : bk.status[i] = st}

BasketEnd(outcome, alert) ==
    bk' = [bk EXCEPT !.pc = "done", !.outcome = outcome, !.alert = alert]

\* The caller asks the margin gate before it submits.
BasketGate ==
    /\ bk.pc = "gate"
    /\ bk' = [bk EXCEPT !.pc = IF is_blocking(evaluate_margin_shock(bk.basket))
                               THEN "refused" ELSE "preflight"]
    /\ UNCHANGED bkLive

BasketPreflight ==
    /\ bk.pc = "preflight"
    /\ LET topo == topological_order(legs_)
       IN  IF "place_leg" \notin bk.basket.seams \/ ~topo.ok
           THEN BasketEnd("Blocked", NoAlert)
           ELSE bk' = [bk EXCEPT !.pc = "place", !.order = topo.order]
    /\ UNCHANGED bkLive

prerequisites_met(i) == \A d \in Prerequisites(legs_, i) : bk.status[d] = "Executed"

Placing == bk.pc = "place" /\ bk.at <= Len(bk.order)

SkipLeg ==
    /\ Placing /\ ~prerequisites_met(current)
    /\ bk' = [bk EXCEPT !.at = @ + 1]
    /\ UNCHANGED bkLive

PlaceLeg(reply) ==
    /\ Placing /\ prerequisites_met(current)
    /\ bkLive' = IF reply.took THEN bkLive \union {current} ELSE bkLive
    /\ bk' = [bk EXCEPT !.at = @ + 1,
                        !.status[current] =
                            IF reply.ok THEN "Executed"
                            ELSE IF is_ambiguous(reply.error) THEN "AmbiguousMayBeLive"
                            ELSE "Failed"]

\* Mutant of SettleBasket: the policy is applied whatever is ambiguous.
SettleByPolicy ==
    /\ bk.pc = "place" /\ bk.at > Len(bk.order)
    /\ UNCHANGED bkLive
    /\ IF Having("Executed") = DOMAIN legs_ THEN BasketEnd("Complete", NoAlert)
       ELSE bk' = [bk EXCEPT !.pc = "unwind", !.at = Len(bk.order)]

\* Ambiguity outranks every policy; then completeness; then the policy.
SettleBasket ==
    /\ bk.pc = "place" /\ bk.at > Len(bk.order)
    /\ UNCHANGED bkLive
    /\ IF Having("AmbiguousMayBeLive") # {}
         THEN BasketEnd("ReconcileRequired",
                        [level |-> "Critical", names |-> Having("AmbiguousMayBeLive")])
       ELSE IF Having("Failed") \union Having("SkippedUnmetDependency") = {}
         THEN BasketEnd("Complete", NoAlert)
       ELSE IF bk.basket.policy = "UnwindExecuted"
         THEN bk' = [bk EXCEPT !.pc = "unwind", !.at = Len(bk.order)]
       ELSE BasketEnd("PartiallyExecutedLeft", [level |-> "Warning", names |-> {}])

\* Newest first.  What cannot be unwound stays Executed and is named at the end;
\* the loop goes on to the older legs all the same.
UnwindLeg(reply) ==
    /\ bk.pc = "unwind" /\ bk.at > 0 /\ bk.status[current] = "Executed"
    /\ LET asked == "unwind_leg" \in bk.basket.seams
       IN  /\ bk' = [bk EXCEPT !.at = @ - 1,
                               !.status[current] = IF asked /\ reply.ok THEN "Unwound" ELSE @,
                               !.alert.names = IF asked /\ reply.ok THEN @ ELSE @ \union {current}]
           /\ bkLive' = IF asked /\ reply.took THEN bkLive \ {current} ELSE bkLive

UnwindPast ==
    /\ bk.pc = "unwind" /\ bk.at > 0 /\ bk.status[current] # "Executed"
    /\ bk' = [bk EXCEPT !.at = @ - 1]
    /\ UNCHANGED bkLive

UnwindEnd ==
    /\ bk.pc = "unwind" /\ bk.at = 0
    /\ BasketEnd("PartiallyExecutedUnwound", [bk.alert EXCEPT !.level = "Critical"])
    /\ UNCHANGED bkLive

BasketNext ==
    \/ BasketGate
    \/ BasketPreflight
    \/ SkipLeg
    \/ \E r \in Replies : PlaceLeg(r)
    \/ SettleBasket
    \/ \E r \in Replies : UnwindLeg(r)
    \/ UnwindPast
    \/ UnwindEnd

-----------------------------------------------------------------------------
BasketTypeOK ==
    /\ bk.pc \in {"gate", "refused", "preflight", "place", "unwind", "done"}
    /\ bk.status \in [DOMAIN legs_ -> LegStatus]
    /\ bk.outcome \in BasketOutcome
    /\ bk.alert.level \in {"none", "Warning", "Critical"}
    /\ bkLive \subseteq DOMAIN legs_

\* A live leg whose prerequisite is not live: a short without its hedge.
Orphans == {i \in bkLive : ~(Prerequisites(legs_, i) \subseteq bkLive)}

\* No placement, no answer and no policy leaves a leg live without its
\* prerequisites, except a leg whose own unwind was tried first and failed; when
\* the executor returns, the Critical alert names each of those (basket.cpp, the
\* never-orphan rule, the veto of an ambiguous leg and the newest-first unwind).
OrphanOnlyAfterFailedUnwind ==
    /\ Orphans \subseteq bk.alert.names
    /\ Orphans # {} => bk.pc = "unwind" \/ bk.alert.level = "Critical"

\* Nothing that exists at the broker is reported as absent: a live leg ends as
\* Executed or AmbiguousMayBeLive, an incomplete basket with a live leg has
\* raised an alert, and the legs that may be live are named in it.
LiveIsReported ==
    bk.pc = "done" =>
        /\ bkLive \subseteq Having("Executed") \union Having("AmbiguousMayBeLive")
        /\ bkLive # {} /\ bk.outcome # "Complete" => bk.alert.level # "none"
        /\ Having("AmbiguousMayBeLive") \subseteq bk.alert.names

\* A net-short basket reaches the broker only if SPAN answered and both margins
\* fit what is available (margin_shock.cpp: fail closed without a model).
NetShortIsMargined ==
    bk.basket.net_short /\ bkLive # {} =>
        /\ bk.basket.support = "Supported" /\ bk.basket.span.ok
        /\ bk.basket.span.shocked <= bk.basket.available
        /\ bk.basket.span.now <= bk.basket.available

\* basket.hpp:5 "NO ORPHANED LEGS": when the executor returns, no leg is live
\* without its prerequisites.
NoOrphanedLegs == bk.pc = "done" => Orphans = {}

\* execute_basket as a whole: no leg is orphaned but by a failed unwind, what is
\* live is reported, and a net short is placed only with its margin.
BasketIsSafe ==
    BasketTypeOK /\ OrphanOnlyAfterFailedUnwind /\ LiveIsReported /\ NetShortIsMargined
=============================================================================
