--------------------------- MODULE Options_proofs ---------------------------
(***************************************************************************)
(* TLAPS proofs about Options, for any baskets, legs, seams, answers and   *)
(* bands: the hedge-first pair, the basket of dependent legs, the stop     *)
(* supervisor's exits, the slices of a large leg and the strategies'       *)
(* books.                                                                  *)
(***************************************************************************)
EXTENDS Options, FiniteSetTheorems, SequenceTheorems, WellFoundedInduction, TLAPS

-----------------------------------------------------------------------------
(* execute_hedge_first.                                                    *)

HedgeState ==
    [seams : {hf.seams}, pc : {"hedge", "confirm", "short", "recheck", "emergency", "done"},
     outcome : HedgeFirstOutcome, alert : {"none", "Critical"}, emergency_action_ran : BOOLEAN]

(* How far the executor has come: there is no short before it is placed,   *)
(* none is placed but behind a filled hedge, and a verdict is a last step. *)
HedgeOnCourse ==
    /\ hf.pc \in {"hedge", "confirm", "short"} => short = "none"
    /\ hf.pc = "short" => hedge \in {"live", "gone"}
    /\ hf.pc \in {"recheck", "emergency"} => short = "live"
    /\ hf.pc # "done" => hf.outcome = "none"
    /\ hf.outcome = "HedgedShortLive" => covered

HedgeInv == hf \in HedgeState /\ covered \in BOOLEAN /\ HedgeOnCourse /\ HedgeIsSafe

LEMMA HedgeInitially == ASSUME NEW seams, HedgeInit(seams) PROVE HedgeInv
BY DEF HedgeInit, HedgeInv, HedgeState, HedgeOnCourse, HedgeIsSafe, HedgeTypeOK, HedgeFirstOutcome,
       SafeVerdictMeansNoShort, ShortFollowsFilledHedge, NakedShortIsRaised

LEMMA HedgeKeeps == HedgeInv /\ HedgeNext => HedgeInv'
<1> SUFFICES ASSUME HedgeInv, HedgeNext PROVE HedgeInv'
  OBVIOUS
<1> USE DEF HedgeInv, HedgeState, HedgeOnCourse, HedgeIsSafe, HedgeTypeOK, HedgeFirstOutcome,
            SafeVerdictMeansNoShort, ShortFollowsFilledHedge, NakedShortIsRaised, HedgeEnd
<1>1. ASSUME NEW r \in Replies, PlaceHedge(r) PROVE HedgeInv'
  BY ZenonT(60), <1>1 DEF PlaceHedge
<1>2. ASSUME NEW a \in BOOLEAN, ConfirmHedge(a) PROVE HedgeInv'
  BY <1>2 DEF ConfirmHedge, HedgeSeenLive
<1>3. ASSUME NEW r \in Replies, PlaceShort(r) PROVE HedgeInv'
  BY ZenonT(30), <1>3, RepliesAssumption DEF PlaceShort, short_is_ambiguous
<1>4. ASSUME NEW a \in BOOLEAN, RecheckHedge(a) PROVE HedgeInv'
  BY <1>4 DEF RecheckHedge, HedgeSeenLive
<1>5. ASSUME NEW ok \in BOOLEAN, EmergencyAction(ok) PROVE HedgeInv'
  BY <1>5 DEF EmergencyAction
<1>6. ASSUME HedgeMoves PROVE HedgeInv'
  BY <1>6 DEF HedgeMoves
<1> QED BY <1>1, <1>2, <1>3, <1>4, <1>5, <1>6 DEF HedgeNext

\* Whatever seams are configured, whatever they answer and whenever the exchange
\* fills or ends the hedge, execute_hedge_first sends its short only behind a
\* hedge that has filled, gives a verdict of safety only when there is no short,
\* and raises a short that was left uncovered.
THEOREM HedgeFirstIsSafe == Spec => []HedgeIsSafe
<1>1. Init => HedgeInv
  BY HedgeInitially DEF Init
<1>2. HedgeInv /\ [Next]_vars => HedgeInv'
  <2> SUFFICES ASSUME HedgeInv, [Next]_vars PROVE HedgeInv'
    OBVIOUS
  <2>1. CASE HedgeNext
    BY <2>1, HedgeKeeps
  <2>2. CASE UNCHANGED hfVars
    BY <2>2 DEF hfVars, HedgeInv, HedgeState, HedgeOnCourse, HedgeIsSafe, HedgeTypeOK,
                SafeVerdictMeansNoShort, ShortFollowsFilledHedge, NakedShortIsRaised
  <2>3. HedgeNext \/ UNCHANGED hfVars
    BY DEF Next, vars
  <2> QED BY <2>1, <2>2, <2>3
<1>3. HedgeInv => HedgeIsSafe
  BY DEF HedgeInv
<1> QED BY <1>1, <1>2, <1>3, PTL DEF Spec
-----------------------------------------------------------------------------
(* execute_basket.                                                         *)

(* What topological_order promises: no leg twice, and each behind all of   *)
(* its prerequisites.                                                      *)
NoneTwice(s) == \A i, j \in DOMAIN s : s[i] = s[j] => i = j
PrerequisitesFirst(legs, s) ==
    \A p \in DOMAIN s : \A d \in Prerequisites(legs, s[p]) : \E q \in 1 .. p - 1 : s[q] = d
LegOrders(legs) == {s \in Seq(DOMAIN legs) : NoneTwice(s) /\ PrerequisitesFirst(legs, s)}

BasketState ==
    [basket : Baskets, pc : {"gate", "refused", "preflight", "place", "unwind", "done"},
     order : Seq(Int), at : Int, status : {bk.status}, outcome : BasketOutcome,
     alert : [level : {"none", "Warning", "Critical"}, names : SUBSET Int]]

(* Before the first leg: nothing is at the broker.                         *)
NothingYet ==
    /\ bkLive = {} /\ bk.at = 1 /\ bk.alert = NoAlert /\ bk.outcome = "none"
    /\ Having("SkippedUnmetDependency") = DOMAIN legs_

(* While legs are placed: only legs behind the cursor have been tried; a   *)
(* live one is Executed or ambiguous, an Executed one is live, and the     *)
(* prerequisites of both are Executed.                                     *)
PlacedInOrder ==
    /\ bk.order \in LegOrders(legs_) /\ bk.at \in 1 .. Len(bk.order) + 1
    /\ bk.alert = NoAlert
    /\ \A i \in DOMAIN legs_ :
          bk.status[i] # "SkippedUnmetDependency" => \E p \in 1 .. bk.at - 1 : bk.order[p] = i
    /\ Having("Executed") \subseteq bkLive
    /\ bkLive \subseteq Having("Executed") \union Having("AmbiguousMayBeLive")
    /\ \A i \in bkLive : Prerequisites(legs_, i) \subseteq Having("Executed")

(* While legs are unwound, newest first: none is ambiguous; a live one is  *)
(* Executed, and either still ahead of the cursor or named in the alert;   *)
(* an Executed one still ahead is live, and so are its prerequisites.      *)
UnwoundInOrder ==
    /\ bk.order \in LegOrders(legs_) /\ bk.at \in 0 .. Len(bk.order)
    /\ Having("AmbiguousMayBeLive") = {}
    /\ bkLive \subseteq Having("Executed")
    /\ \A i \in bkLive : i \in bk.alert.names \/ \E p \in 1 .. bk.at : bk.order[p] = i
    /\ \A p \in 1 .. bk.at : bk.status[bk.order[p]] = "Executed" =>
          /\ bk.order[p] \in bkLive
          /\ \A d \in Prerequisites(legs_, bk.order[p]) : bk.status[d] = "Executed"

BasketInv ==
    /\ bk \in BasketState /\ BasketTypeOK /\ NetShortIsMargined
    /\ bk.pc \in {"preflight", "place", "unwind"} => ~is_blocking(evaluate_margin_shock(bk.basket))
    /\ bk.pc \in {"gate", "refused", "preflight"} => NothingYet
    /\ bk.pc = "place" => PlacedInOrder
    /\ bk.pc = "unwind" => UnwoundInOrder
    /\ bk.pc = "done" => OrphanOnlyAfterFailedUnwind /\ LiveIsReported

-----------------------------------------------------------------------------
(* Natural numbers: a set that is not empty has a least element, and a     *)
(* value for 0 with a step for every n makes a function.                   *)
LEMMA LeastNat ==
  ASSUME NEW S \in SUBSET Nat, S # {}
  PROVE  \E m \in S : \A k \in S : m <= k
<1>1. PICK m \in S : \A k \in Nat : <<k, m>> \in OpToRel(<, Nat) => k \notin S
  BY WFMin, NatLessThanWellFounded
<1>2. \A k \in S : ~(k < m)
  BY <1>1 DEF OpToRel
<1> QED BY <1>2

StepsWithin(g, S) == g \in [Nat -> [S -> S]]
Unrolls(f, a, g, S) == /\ f \in [Nat -> S] /\ f[0] = a
                       /\ \A n \in Nat : f[n + 1] = g[n][f[n]]

LEMMA Recursion ==
  ASSUME NEW S, NEW a, NEW g, a \in S, StepsWithin(g, S)
  PROVE  \E f : Unrolls(f, a, g, S)
<1> USE DEF StepsWithin
<1> DEFINE Upto(n, h) == /\ h \in [0 .. n -> S] /\ h[0] = a
                         /\ \A i \in 1 .. n : h[i] = g[i - 1][h[i - 1]]
<1>0. \A n \in Nat, x \in S : g[n][x] \in S
  OBVIOUS
<1>1. \A n \in Nat : \E h : Upto(n, h)
  <2> SUFFICES ASSUME NEW n0 \in Nat, ~ \E h : Upto(n0, h) PROVE FALSE
    OBVIOUS
  <2> DEFINE Bad == {n \in Nat : ~ \E h : Upto(n, h)}
  <2>1. PICK m \in Bad : \A k \in Bad : m <= k
    <3>1. Bad \in SUBSET Nat /\ Bad # {}
      OBVIOUS
    <3> HIDE DEF Bad
    <3> QED BY <3>1, LeastNat
  <2>2. m # 0
    <3>1. Upto(0, [i \in 0 .. 0 |-> a])
      OBVIOUS
    <3> QED BY <3>1
  <2>3. m - 1 \in Nat /\ m - 1 \notin Bad
    <3>1. m \in Nat
      OBVIOUS
    <3> HIDE DEF Bad
    <3>2. m - 1 \in Nat /\ ~(m <= m - 1)
      BY <2>2, <3>1
    <3> QED BY <2>1, <3>2
  <2>4. PICK h : Upto(m - 1, h)
    BY <2>3
  <2> DEFINE k == [i \in 0 .. m |-> IF i = m THEN g[m - 1][h[m - 1]] ELSE h[i]]
  <2>5. k[m] = g[m - 1][h[m - 1]] /\ \A i \in 0 .. m - 1 : k[i] = h[i]
    BY <2>2, <2>3
  <2>6. k \in [0 .. m -> S]
    <3>1. h[m - 1] \in S /\ g[m - 1][h[m - 1]] \in S
      BY <1>0, <2>3, <2>4
    <3> QED BY <2>3, <2>4, <3>1
  <2>7. k[0] = a
    BY <2>2, <2>3, <2>4, <2>5
  <2>8. ASSUME NEW i \in 1 .. m PROVE k[i] = g[i - 1][k[i - 1]]
    <3>1. k[i - 1] = h[i - 1]
      BY <2>3, <2>5
    <3>2. CASE i = m
      BY <2>5, <3>1, <3>2
    <3>3. CASE i # m
      <4>1. i \in 1 .. m - 1 /\ i \in 0 .. m - 1
        BY <3>3
      <4> QED BY <2>4, <2>5, <3>1, <4>1
    <3> QED BY <3>2, <3>3
  <2> HIDE DEF k
  <2>9. Upto(m, k)
    BY <2>6, <2>7, <2>8
  <2> QED BY <2>1, <2>9
<1>2. ASSUME NEW n \in Nat, NEW m \in Nat, NEW h, NEW k, Upto(n, h), Upto(m, k),
             NEW j \in 0 .. n, j \in 0 .. m
      PROVE  h[j] = k[j]
  <2> SUFFICES ASSUME h[j] # k[j] PROVE FALSE
    OBVIOUS
  <2> DEFINE Diff == {i \in Nat : i <= j /\ h[i] # k[i]}
  <2>1. PICK i \in Diff : \A x \in Diff : i <= x
    <3>1. Diff \in SUBSET Nat /\ j \in Diff
      OBVIOUS
    <3> HIDE DEF Diff
    <3> QED BY <3>1, LeastNat
  <2>2. i # 0
    BY <1>2
  <2>3. i - 1 \in Nat /\ i - 1 \notin Diff
    BY <2>1, <2>2
  <2>4. i \in Nat /\ i <= j /\ h[i] # k[i]
    OBVIOUS
  <2>5. i \in 1 .. n /\ i \in 1 .. m /\ i - 1 <= j
    BY <1>2, <2>2, <2>4
  <2>6. h[i - 1] = k[i - 1]
    BY <2>3, <2>5
  <2>7. h[i] = g[i - 1][h[i - 1]] /\ k[i] = g[i - 1][k[i - 1]]
    BY <1>2, <2>5
  <2> QED BY <2>4, <2>6, <2>7
<1> DEFINE H(n) == CHOOSE h : Upto(n, h)
           f == [n \in Nat |-> H(n)[n]]
<1>3. \A n \in Nat : Upto(n, H(n))
  BY <1>1
<1> HIDE DEF H
<1>4. f \in [Nat -> S]
  BY <1>3
<1>5. f[0] = a
  BY <1>3
<1>6. ASSUME NEW n \in Nat PROVE f[n + 1] = g[n][f[n]]
  <2>1. n + 1 \in Nat /\ n + 1 \in 1 .. n + 1 /\ n \in 0 .. n /\ n \in 0 .. n + 1 /\ n + 1 - 1 = n
    OBVIOUS
  <2>2. Upto(n + 1, H(n + 1)) /\ Upto(n, H(n))
    BY <1>3, <2>1
  <2>3. H(n + 1)[n + 1] = g[n][H(n + 1)[n]]
    BY <2>1, <2>2
  <2>4. H(n + 1)[n] = H(n)[n]
    <3> DEFINE p == H(n + 1)
               q == H(n)
               m == n + 1
    <3>1. Upto(m, p) /\ Upto(n, q) /\ m \in Nat /\ n \in 0 .. m /\ n \in 0 .. n
      BY <2>1, <2>2
    <3> HIDE DEF Upto, p, q, m
    <3>2. p[n] = q[n]
      BY <1>2, <3>1
    <3> QED BY <3>2 DEF p, q, m
  <2> QED BY <2>1, <2>3, <2>4
<1> HIDE DEF f
<1>7. Unrolls(f, a, g, S)
  BY <1>4, <1>5, <1>6 DEF Unrolls
<1> QED BY <1>7

(* A finite set of indices can be listed in ascending order.               *)
Ascends(s, S) == s \in [1 .. Cardinality(S) -> S] /\ \A i, j \in DOMAIN s : i < j => s[i] < s[j]

LEMMA AscendingExists ==
  ASSUME NEW S0 \in SUBSET Nat, IsFiniteSet(S0)
  PROVE  \E s : Ascends(s, S0)
<1> SUFFICES ASSUME ~ \E s : Ascends(s, S0) PROVE FALSE
  OBVIOUS
<1> DEFINE Bad == {n \in Nat : \E S \in SUBSET Nat : /\ IsFiniteSet(S) /\ Cardinality(S) = n
                                                     /\ ~ \E s : Ascends(s, S)}
<1>1. PICK m \in Bad : \A k \in Bad : m <= k
  <2>1. Bad \in SUBSET Nat /\ Cardinality(S0) \in Bad
    BY FS_CardinalityType
  <2> HIDE DEF Bad
  <2> QED BY <2>1, LeastNat
<1>2. PICK S \in SUBSET Nat : IsFiniteSet(S) /\ Cardinality(S) = m /\ ~ \E s : Ascends(s, S)
  OBVIOUS
<1>3. m \in Nat
  OBVIOUS
<1>4. S # {}
  <2> SUFFICES ASSUME S = {} PROVE FALSE
    OBVIOUS
  <2>1. m = 0
    BY <1>2, FS_EmptySet
  <2>2. Ascends([i \in 1 .. 0 |-> 0], S)
    BY <1>2, <2>1 DEF Ascends
  <2> QED BY <1>2, <2>2
<1>5. PICK a \in S : \A b \in S : a <= b
  BY <1>4, LeastNat
<1> DEFINE T == S \ {a}
<1>6. IsFiniteSet(T) /\ Cardinality(T) = m - 1
  BY <1>2, FS_RemoveElement
<1>7. m - 1 \in Nat
  BY <1>6, FS_CardinalityType
<1>8. PICK t : Ascends(t, T)
  <2>1. m - 1 \notin Bad
    <3>1. ~(m <= m - 1)
      BY <1>3
    <3> HIDE DEF Bad
    <3> QED BY <1>1, <3>1
  <2>2. T \in SUBSET Nat
    OBVIOUS
  <2> HIDE DEF T
  <2> QED BY <1>6, <1>7, <2>1, <2>2
<1> DEFINE s == [i \in 1 .. m |-> IF i = 1 THEN a ELSE t[i - 1]]
<1>9. \A i \in 1 .. m - 1 : t[i] \in S /\ t[i] > a
  <2>1. t \in [1 .. m - 1 -> T]
    BY <1>6, <1>8 DEF Ascends
  <2>2. \A b \in T : b \in S /\ b > a
    BY <1>5
  <2> HIDE DEF T
  <2> QED BY <2>1, <2>2
<1>10. \A i, j \in 1 .. m - 1 : i < j => t[i] < t[j]
  BY <1>6, <1>8 DEF Ascends
<1>11. s \in [1 .. m -> S]
  BY <1>3, <1>9
<1>12. ASSUME NEW i \in 1 .. m, NEW j \in 1 .. m, i < j PROVE s[i] < s[j]
  <2>1. s[j] = t[j - 1] /\ j - 1 \in 1 .. m - 1
    BY <1>3, <1>12
  <2>2. CASE i = 1
    BY <1>9, <2>1, <2>2
  <2>3. CASE i # 1
    <3>1. s[i] = t[i - 1] /\ i - 1 \in 1 .. m - 1 /\ i - 1 < j - 1
      BY <1>3, <1>12, <2>3
    <3> QED BY <1>10, <2>1, <3>1
  <2> QED BY <2>2, <2>3
<1> HIDE DEF s
<1>13. Ascends(s, S)
  BY <1>2, <1>11, <1>12 DEF Ascends
<1> QED BY <1>2, <1>13

LEMMA AscendingLists ==
  ASSUME NEW S \in SUBSET Nat, IsFiniteSet(S)
  PROVE  Ascending(S) \in Seq(S) /\ NoneTwice(Ascending(S))
<1>1. PICK s : Ascends(s, S)
  BY AscendingExists
<1>2. Ascends(Ascending(S), S)
  BY <1>1 DEF Ascends, Ascending
<1> DEFINE c == Ascending(S)
<1> HIDE DEF c
<1>3. Ascends(c, S)
  BY <1>2 DEF c
<1>4. Cardinality(S) \in Nat
  BY FS_CardinalityType
<1>5. c \in Seq(S)
  BY <1>3, <1>4 DEF Ascends
<1>6. ASSUME NEW i \in DOMAIN c, NEW j \in DOMAIN c, c[i] = c[j] PROVE i = j
  <2>1. i \in Nat /\ j \in Nat /\ c[i] \in Nat /\ c[j] \in Nat
    <3>1. c \in [1 .. Cardinality(S) -> S] /\ DOMAIN c = 1 .. Cardinality(S)
      BY <1>3 DEF Ascends
    <3>2. c[i] \in S /\ c[j] \in S
      BY <3>1
    <3>3. i \in 1 .. Cardinality(S) /\ j \in 1 .. Cardinality(S)
      BY <3>1
    <3>4. i \in Nat /\ j \in Nat
      BY <1>4, <3>3
    <3> QED BY <3>2, <3>4
  <2>2. (i < j => c[i] < c[j]) /\ (j < i => c[j] < c[i])
    BY <1>3 DEF Ascends
  <2> QED BY <1>6, <2>1, <2>2
<1> QED BY <1>5, <1>6 DEF c, NoneTwice

(* Kahn's queue, for every list of legs: each step appends legs that are   *)
(* not in the queue and whose prerequisites are among those taken.         *)
LEMMA ReadyLists ==
  ASSUME NEW legs \in LegLists, NEW queue, NEW taken
  PROVE  LET r == Ready(legs, queue, taken)
         IN  /\ r \in Seq(DOMAIN legs) /\ NoneTwice(r)
             /\ \A i \in 1 .. Len(r) : /\ \A p \in DOMAIN queue : queue[p] # r[i]
                                       /\ Prerequisites(legs, r[i]) \subseteq taken
<1> DEFINE new == {v \in DOMAIN legs : /\ \A p \in DOMAIN queue : queue[p] # v
                                       /\ Prerequisites(legs, v) \subseteq taken}
           r == Ready(legs, queue, taken)
           D == DOMAIN legs
<1>1. r = Ascending(new)
  BY DEF Ready
<1>2. D = 1 .. Len(legs) /\ Len(legs) \in Nat
  BY DEF LegLists
<1>3. new \subseteq D
  OBVIOUS
<1>4. \A v \in new : /\ \A p \in DOMAIN queue : queue[p] # v
                     /\ Prerequisites(legs, v) \subseteq taken
  OBVIOUS
<1> HIDE DEF new, r, D
<1>5. IsFiniteSet(D)
  BY <1>2, FS_Interval
<1>6. IsFiniteSet(new)
  BY <1>3, <1>5, FS_Subset
<1>7. new \in SUBSET Nat
  BY <1>2, <1>3
<1>8. r \in Seq(new) /\ NoneTwice(r)
  BY <1>1, <1>6, <1>7, AscendingLists
<1>9. r \in Seq(D) /\ \A i \in 1 .. Len(r) : r[i] \in new
  BY <1>3, <1>8
<1> QED BY <1>4, <1>8, <1>9 DEF r, D

LEMMA LegOrderGrows ==
  ASSUME NEW legs \in LegLists, NEW q \in LegOrders(legs), NEW h \in 0 .. Len(q)
  PROVE  q \o Ready(legs, q, {q[p] : p \in 1 .. h}) \in LegOrders(legs)
<1> DEFINE taken == {q[p] : p \in 1 .. h}
           new == {v \in DOMAIN legs : /\ \A p \in DOMAIN q : q[p] # v
                                       /\ Prerequisites(legs, v) \subseteq taken}
           r == Ready(legs, q, taken)
           s == q \o r
<1> DEFINE D == DOMAIN legs
<1>1. r \in Seq(D) /\ NoneTwice(r) /\ \A i \in 1 .. Len(r) : r[i] \in new
  <2>1. /\ r \in Seq(D) /\ NoneTwice(r)
        /\ \A i \in 1 .. Len(r) : /\ \A p \in DOMAIN q : q[p] # r[i]
                                  /\ Prerequisites(legs, r[i]) \subseteq taken
    <3> HIDE DEF taken
    <3>1. /\ Ready(legs, q, taken) \in Seq(DOMAIN legs) /\ NoneTwice(Ready(legs, q, taken))
          /\ \A i \in 1 .. Len(Ready(legs, q, taken)) :
                /\ \A p \in DOMAIN q : q[p] # Ready(legs, q, taken)[i]
                /\ Prerequisites(legs, Ready(legs, q, taken)[i]) \subseteq taken
      BY ReadyLists
    <3> QED BY <3>1
  <2>2. \A i \in 1 .. Len(r) : r[i] \in D
    <3> HIDE DEF r, D
    <3> QED BY <2>1
  <2> HIDE DEF r
  <2> QED BY <2>1, <2>2
<1>2. q \in Seq(D) /\ NoneTwice(q) /\ PrerequisitesFirst(legs, q)
  BY DEF LegOrders
<1>3. \A v \in new : /\ \A p \in DOMAIN q : q[p] # v
                     /\ \A d \in Prerequisites(legs, v) : \E p \in 1 .. h : q[p] = d
  OBVIOUS
<1>4. r \in Seq(D)
  BY <1>1
<1> HIDE DEF new, r, D
<1>5. s \in Seq(D) /\ Len(s) = Len(q) + Len(r) /\ Len(q) \in Nat /\ Len(r) \in Nat
  BY <1>2, <1>4
<1>6. \A i \in 1 .. Len(q) : s[i] = q[i]
  BY <1>2, <1>4
<1>7. \A i \in Len(q) + 1 .. Len(s) : s[i] = r[i - Len(q)] /\ i - Len(q) \in 1 .. Len(r) /\ s[i] \in new
  BY <1>1, <1>2, <1>4, <1>5
<1> HIDE DEF s
<1>8. NoneTwice(s)
  <2> SUFFICES ASSUME NEW i \in 1 .. Len(s), NEW j \in 1 .. Len(s), s[i] = s[j], i < j PROVE FALSE
    BY <1>5 DEF NoneTwice
  <2>1. CASE j <= Len(q)
    <3>1. i \in DOMAIN q /\ j \in DOMAIN q /\ q[i] = q[j]
      BY <1>2, <1>5, <1>6, <2>1
    <3> QED BY <1>2, <3>1 DEF NoneTwice
  <2>2. CASE j > Len(q) /\ i <= Len(q)
    <3>1. i \in DOMAIN q /\ q[i] = s[j] /\ s[j] \in new
      BY <1>2, <1>5, <1>6, <1>7, <2>2
    <3> QED BY <1>3, <3>1
  <2>3. CASE j > Len(q) /\ i > Len(q)
    <3>1. /\ i - Len(q) \in DOMAIN r /\ j - Len(q) \in DOMAIN r
          /\ r[i - Len(q)] = r[j - Len(q)]
      BY <1>4, <1>5, <1>7, <2>3
    <3>2. i - Len(q) = j - Len(q)
      BY <1>1, <3>1 DEF NoneTwice
    <3> QED BY <1>5, <3>2
  <2> QED BY <1>5, <2>1, <2>2, <2>3
<1>9. PrerequisitesFirst(legs, s)
  <2> SUFFICES ASSUME NEW i \in 1 .. Len(s), NEW d \in Prerequisites(legs, s[i])
               PROVE  \E p \in 1 .. i - 1 : s[p] = d
    BY <1>5 DEF PrerequisitesFirst
  <2>1. CASE i <= Len(q)
    <3>1. i \in DOMAIN q /\ s[i] = q[i]
      BY <1>2, <1>5, <1>6, <2>1
    <3>2. PICK p \in 1 .. i - 1 : q[p] = d
      BY <1>2, <3>1 DEF PrerequisitesFirst
    <3>3. p \in 1 .. Len(q)
      BY <1>5, <2>1
    <3> QED BY <1>6, <3>2, <3>3
  <2>2. CASE i > Len(q)
    <3>1. s[i] \in new
      BY <1>5, <1>7, <2>2
    <3>2. PICK p \in 1 .. h : q[p] = d
      BY <1>3, <3>1
    <3>3. p \in 1 .. Len(q) /\ p \in 1 .. i - 1
      BY <1>5, <2>2
    <3> QED BY <1>6, <3>2, <3>3
  <2> QED BY <1>5, <2>1, <2>2
<1> QED BY <1>5, <1>8, <1>9 DEF LegOrders, s, r, D, taken

LEMMA KahnOrders == ASSUME NEW legs \in LegLists PROVE kahn_queue(legs) \in LegOrders(legs)
<1> DEFINE S == LegOrders(legs)
           Grow(h, q) == IF h > Len(q) THEN q ELSE q \o Ready(legs, q, {q[p] : p \in 1 .. h})
           a == Ready(legs, <<>>, {})
           g == [n \in Nat |-> [q \in S |-> Grow(n + 1, q)]]
           F(k) == [h \in Nat |-> IF h = 0 THEN a ELSE Grow(h, k[h - 1])]
<1>1. a \in S
  <2> DEFINE e == <<>>
  <2>1. e \in S /\ 0 \in 0 .. Len(e)
    BY DEF LegOrders, NoneTwice, PrerequisitesFirst
  <2>2. e \o Ready(legs, e, {e[p] : p \in 1 .. 0}) \in S
    BY <2>1, LegOrderGrows
  <2>3. {e[p] : p \in 1 .. 0} = {}
    OBVIOUS
  <2>4. e \o Ready(legs, e, {}) \in S
    BY <2>2, <2>3
  <2>5. Ready(legs, e, {}) \in Seq(DOMAIN legs)
    BY ReadyLists
  <2> QED BY <2>4, <2>5
<1>2. ASSUME NEW n \in Nat, NEW q \in S PROVE Grow(n + 1, q) \in S
  <2>1. Len(q) \in Nat
    BY DEF LegOrders
  <2>2. CASE n + 1 > Len(q)
    BY <2>2
  <2>3. CASE ~(n + 1 > Len(q))
    <3>1. n + 1 \in 0 .. Len(q)
      BY <2>1, <2>3
    <3> QED BY <2>3, <3>1, LegOrderGrows
  <2> QED BY <2>2, <2>3
<1> HIDE DEF S, Grow, a
<1>3. StepsWithin(g, S)
  BY <1>2 DEF StepsWithin
<1>4. \A n \in Nat, q \in S : g[n][q] = Grow(n + 1, q)
  OBVIOUS
<1> HIDE DEF g
<1>5. PICK f : Unrolls(f, a, g, S)
  BY <1>1, <1>3, Recursion
<1>6. f \in [Nat -> S] /\ f[0] = a /\ \A n \in Nat : f[n + 1] = Grow(n + 1, f[n])
  BY <1>4, <1>5 DEF Unrolls
<1>7. \A h \in Nat : f[h] = IF h = 0 THEN a ELSE Grow(h, f[h - 1])
  <2> SUFFICES ASSUME NEW h \in Nat PROVE f[h] = IF h = 0 THEN a ELSE Grow(h, f[h - 1])
    OBVIOUS
  <2>1. CASE h = 0
    BY <1>6, <2>1
  <2>2. CASE h # 0
    <3>1. h - 1 \in Nat /\ (h - 1) + 1 = h
      BY <2>2
    <3>2. f[(h - 1) + 1] = Grow((h - 1) + 1, f[h - 1])
      BY <1>6, <3>1
    <3> QED BY <2>2, <3>1, <3>2
  <2> QED BY <2>1, <2>2
<1>8. f = F(f)
  BY <1>6, <1>7
<1>9. \A k : k = F(k) => k[0] = a /\ \A n \in Nat : k[n + 1] = Grow(n + 1, k[n])
  <2> SUFFICES ASSUME NEW k, k = F(k) PROVE k[0] = a /\ \A n \in Nat : k[n + 1] = Grow(n + 1, k[n])
    OBVIOUS
  <2>1. \A h \in Nat : k[h] = IF h = 0 THEN a ELSE Grow(h, k[h - 1])
    OBVIOUS
  <2>2. \A n \in Nat : n + 1 \in Nat /\ n + 1 # 0 /\ (n + 1) - 1 = n
    OBVIOUS
  <2> HIDE DEF F
  <2> QED BY <2>1, <2>2
<1> DEFINE c == CHOOSE k : k = F(k)
<1>10. c = F(c)
  <2> HIDE DEF F
  <2> QED BY <1>8
<1>11. kahn_queue(legs) = c[Len(legs)]
  BY DEF kahn_queue, Grow, a
<1> HIDE DEF c, F
<1>12. \A n \in Nat : c[n] \in S
  <2> SUFFICES ASSUME NEW n0 \in Nat, c[n0] \notin S PROVE FALSE
    OBVIOUS
  <2> DEFINE Bad == {n \in Nat : c[n] \notin S}
  <2>1. PICK m \in Bad : \A k \in Bad : m <= k
    <3>1. Bad \in SUBSET Nat /\ n0 \in Bad
      OBVIOUS
    <3> HIDE DEF Bad
    <3> QED BY <3>1, LeastNat
  <2>2. m # 0
    BY <1>1, <1>9, <1>10
  <2>3. m - 1 \in Nat /\ (m - 1) + 1 = m /\ ~(m <= m - 1)
    BY <2>2
  <2>4. c[m - 1] \in S
    BY <2>1, <2>3
  <2>5. c[(m - 1) + 1] = Grow((m - 1) + 1, c[m - 1])
    BY <1>9, <1>10, <2>3
  <2> QED BY <1>2, <2>3, <2>4, <2>5
<1>13. Len(legs) \in Nat
  BY DEF LegLists
<1> QED BY <1>11, <1>12, <1>13 DEF S
\* For every list of legs: an order that topological_order accepts puts every leg
\* in exactly one place, behind all of its prerequisites.
THEOREM TopologicalOrderIsSound ==
  \A legs \in LegLists : topological_order(legs).ok =>
      LET order == topological_order(legs).order
      IN  /\ order \in Seq(DOMAIN legs) /\ NoneTwice(order) /\ PrerequisitesFirst(legs, order)
          /\ \A i \in DOMAIN legs : \E p \in DOMAIN order : order[p] = i
<1> SUFFICES ASSUME NEW legs \in LegLists, topological_order(legs).ok
             PROVE  LET order == topological_order(legs).order
                    IN  /\ order \in Seq(DOMAIN legs) /\ NoneTwice(order)
                        /\ PrerequisitesFirst(legs, order)
                        /\ \A i \in DOMAIN legs : \E p \in DOMAIN order : order[p] = i
  OBVIOUS
<1> DEFINE order == topological_order(legs).order
           N == 1 .. Len(legs)
<1>1. order \in LegOrders(legs) /\ Len(order) = Len(legs)
  BY KahnOrders DEF topological_order
<1> HIDE DEF order
<1>2. Len(legs) \in Nat /\ DOMAIN legs = N
  BY DEF LegLists
<1>3. order \in Seq(DOMAIN legs) /\ NoneTwice(order) /\ PrerequisitesFirst(legs, order)
  BY <1>1 DEF LegOrders
<1>4. DOMAIN order = N
  BY <1>1, <1>2, <1>3
<1>5. order \in [N -> N]
  BY <1>2, <1>3, <1>4
<1> HIDE DEF N
<1>6. order \in Injection(N, N)
  BY <1>3, <1>4, <1>5 DEF Injection, IsInjective, NoneTwice
<1>7. IsFiniteSet(N)
  BY <1>2, FS_Interval DEF N
<1>8. order \in Surjection(N, N)
  BY <1>6, <1>7, FS_Injection
<1>9. \A i \in N : \E p \in N : order[p] = i
  BY <1>8 DEF Surjection
<1> QED BY <1>2, <1>3, <1>4, <1>9 DEF order

(* A basket's legs, and where the order puts them.                         *)
LEMMA BasketFields ==
  ASSUME NEW b \in Baskets
  PROVE  /\ b.legs \in LegLists /\ DOMAIN b.legs = 1 .. Len(b.legs) /\ Len(b.legs) \in Nat
         /\ b.net_short \in BOOLEAN /\ b.available \in Int
         /\ b.span.now \in Int /\ b.span.shocked \in Int
BY BasketsAssumption DEF LegLists

LEMMA OrderFields ==
  ASSUME NEW legs, NEW s \in LegOrders(legs)
  PROVE  /\ s \in Seq(DOMAIN legs) /\ Len(s) \in Nat /\ DOMAIN s = 1 .. Len(s)
         /\ \A p \in 1 .. Len(s) : s[p] \in DOMAIN legs
         /\ \A p, q \in 1 .. Len(s) : s[p] = s[q] => p = q
BY DEF LegOrders, NoneTwice

EarlierIn(s, p, d) == \E q \in 1 .. p - 1 : s[q] = d

LEMMA PrerequisiteIsEarlier ==
  ASSUME NEW legs, NEW s \in LegOrders(legs), NEW p \in 1 .. Len(s),
         NEW d \in Prerequisites(legs, s[p])
  PROVE  EarlierIn(s, p, d)
<1>1. p \in DOMAIN s
  BY OrderFields
<1> QED BY <1>1 DEF LegOrders, PrerequisitesFirst, EarlierIn

LEMMA NotBlockingIsMargined ==
  ASSUME NEW b \in Baskets, ~is_blocking(evaluate_margin_shock(b)), b.net_short
  PROVE  /\ b.support = "Supported" /\ b.span.ok
         /\ b.span.shocked <= b.available /\ b.span.now <= b.available
BY BasketFields DEF is_blocking, evaluate_margin_shock

(* Neither while legs are placed nor while they are unwound is one live    *)
(* without its prerequisites, but those whose unwind has failed.           *)
LEMMA NoOrphanWhilePlacing == PlacedInOrder => Orphans = {}
BY DEF PlacedInOrder, Orphans

LEMMA OrphansAreNamed == UnwoundInOrder => Orphans \subseteq bk.alert.names
<1> SUFFICES ASSUME UnwoundInOrder, NEW i \in Orphans, i \notin bk.alert.names PROVE FALSE
  OBVIOUS
<1>1. PICK d \in Prerequisites(legs_, i) : d \notin bkLive
  BY DEF Orphans
<1>2. PICK p \in 1 .. bk.at : bk.order[p] = i
  BY DEF UnwoundInOrder, Orphans
<1>3. bk.order \in LegOrders(legs_) /\ bk.at \in 0 .. Len(bk.order)
  BY DEF UnwoundInOrder
<1>4. p \in 1 .. Len(bk.order)
  BY <1>3, OrderFields
<1>5. PICK q \in 1 .. p - 1 : bk.order[q] = d
  <2> DEFINE s == bk.order
  <2>1. d \in Prerequisites(legs_, s[p])
    BY <1>1, <1>2
  <2>2. s \in LegOrders(legs_) /\ p \in 1 .. Len(s)
    BY <1>3, <1>4
  <2> HIDE DEF s
  <2>3. EarlierIn(s, p, d)
    BY <2>1, <2>2, PrerequisiteIsEarlier
  <2> QED BY <2>3 DEF s, EarlierIn
<1>6. q \in 1 .. bk.at
  BY <1>3, <1>4, OrderFields
<1>7. bk.status[i] = "Executed"
  BY DEF UnwoundInOrder, Orphans, Having
<1>8. bk.status[d] = "Executed"
  BY <1>1, <1>2, <1>7 DEF UnwoundInOrder
<1>9. d \in bkLive
  BY <1>5, <1>6, <1>8 DEF UnwoundInOrder
<1> QED BY <1>1, <1>9

LEMMA BasketInvMeansSafe == BasketInv => BasketIsSafe
<1> SUFFICES ASSUME BasketInv PROVE OrphanOnlyAfterFailedUnwind /\ LiveIsReported
  BY DEF BasketInv, BasketIsSafe
<1>1. CASE bk.pc \in {"gate", "refused", "preflight"}
  BY <1>1 DEF BasketInv, NothingYet, Orphans, OrphanOnlyAfterFailedUnwind, LiveIsReported
<1>2. CASE bk.pc = "place"
  BY <1>2, NoOrphanWhilePlacing DEF BasketInv, OrphanOnlyAfterFailedUnwind, LiveIsReported
<1>3. CASE bk.pc = "unwind"
  BY <1>3, OrphansAreNamed DEF BasketInv, OrphanOnlyAfterFailedUnwind, LiveIsReported
<1>4. CASE bk.pc = "done"
  BY <1>4 DEF BasketInv
<1> QED BY <1>1, <1>2, <1>3, <1>4 DEF BasketInv, BasketTypeOK

LEMMA BasketInitially == ASSUME NEW b \in Baskets, BasketInit(b) PROVE BasketInv
<1> USE BasketFields DEF BasketInit
<1>1. bk \in BasketState
  BY DEF BasketState, BasketOutcome, NoAlert
<1>2. BasketTypeOK /\ NetShortIsMargined
  BY DEF BasketTypeOK, NetShortIsMargined, legs_, LegStatus, BasketOutcome, NoAlert
<1>3. NothingYet
  BY DEF NothingYet, Having, legs_
<1> QED BY <1>1, <1>2, <1>3 DEF BasketInv

LEMMA BasketGateKeeps == BasketInv /\ BasketGate => BasketInv'
<1> SUFFICES ASSUME BasketInv, BasketGate PROVE BasketInv'
  OBVIOUS
<1> DEFINE b == is_blocking(evaluate_margin_shock(bk.basket))
<1>1. /\ bk' = [bk EXCEPT !.pc = IF b THEN "refused" ELSE "preflight"] /\ bkLive' = bkLive
      /\ bk.pc = "gate" /\ bk \in BasketState /\ NothingYet
  BY DEF BasketGate, BasketInv
<1>2. b \in BOOLEAN
  BY DEF is_blocking
<1> HIDE DEF b
<1>3. /\ bk'.pc = (IF b THEN "refused" ELSE "preflight") /\ bk'.basket = bk.basket
      /\ bk'.order = bk.order /\ bk'.at = bk.at /\ bk'.status = bk.status
      /\ bk'.outcome = bk.outcome /\ bk'.alert = bk.alert
  BY <1>1 DEF BasketState
<1>4. bk' \in BasketState'
  BY <1>1, <1>2 DEF BasketState
<1>5. BasketTypeOK' /\ NetShortIsMargined' /\ NothingYet'
  BY <1>1, <1>2, <1>3 DEF BasketInv, BasketTypeOK, NetShortIsMargined, NothingYet, Having, legs_
<1>6. b' = b
  BY <1>3 DEF b
<1> QED BY <1>3, <1>4, <1>5, <1>6 DEF BasketInv, b

LEMMA BasketPreflightKeeps == BasketInv /\ BasketPreflight => BasketInv'
<1> SUFFICES ASSUME BasketInv, BasketPreflight PROVE BasketInv'
  OBVIOUS
<1>1. bk.pc = "preflight" /\ bkLive' = bkLive /\ bk \in BasketState /\ NothingYet /\ bkLive = {}
  BY DEF BasketPreflight, BasketInv, NothingYet
<1>2. CASE BasketEnd("Blocked", NoAlert)
  <2>1. /\ bk'.pc = "done" /\ bk'.basket = bk.basket /\ bk'.status = bk.status
        /\ bk'.outcome = "Blocked" /\ bk'.alert = NoAlert
    BY <1>1, <1>2 DEF BasketEnd, BasketState
  <2>2. bk' \in BasketState'
    BY <1>1, <1>2 DEF BasketEnd, BasketState, BasketOutcome, NoAlert
  <2>3. BasketTypeOK' /\ NetShortIsMargined'
    BY <1>1, <2>1 DEF BasketInv, BasketTypeOK, NetShortIsMargined, legs_, BasketOutcome, NoAlert
  <2>4. OrphanOnlyAfterFailedUnwind' /\ LiveIsReported'
    BY <1>1, <2>1 DEF OrphanOnlyAfterFailedUnwind, LiveIsReported, Orphans, NothingYet, Having, legs_
  <2> QED BY <2>1, <2>2, <2>3, <2>4 DEF BasketInv
<1>3. ASSUME bk' = [bk EXCEPT !.pc = "place", !.order = topological_order(legs_).order],
             topological_order(legs_).ok
      PROVE  BasketInv'
  <2> DEFINE order == topological_order(legs_).order
  <2>1. order \in LegOrders(legs_)
    <3>1. legs_ \in LegLists
      BY <1>1, BasketFields DEF BasketState, legs_
    <3>2. kahn_queue(legs_) \in LegOrders(legs_)
      BY <3>1, KahnOrders
    <3> QED BY <1>3, <3>2 DEF topological_order
  <2> HIDE DEF order
  <2>2. /\ bk'.pc = "place" /\ bk'.basket = bk.basket /\ bk'.status = bk.status /\ bk'.at = bk.at
        /\ bk'.outcome = bk.outcome /\ bk'.alert = bk.alert /\ bk'.order = order
    BY <1>1, <1>3 DEF BasketState, order
  <2>3. order \in Seq(Int) /\ Len(order) \in Nat
    <3>1. DOMAIN legs_ \subseteq Int
      BY <1>1, BasketFields DEF BasketState, legs_
    <3>2. order \in Seq(DOMAIN legs_)
      BY <2>1, OrderFields
    <3> QED BY <3>1, <3>2
  <2>4. bk' \in BasketState'
    BY <1>1, <1>3, <2>3 DEF BasketState, order
  <2>5. BasketTypeOK' /\ NetShortIsMargined'
    BY <1>1, <2>2 DEF BasketInv, BasketTypeOK, NetShortIsMargined, legs_
  <2>6. bk.at = 1
    BY <1>1 DEF NothingYet
  <2>7. PlacedInOrder'
    BY <1>1, <2>1, <2>2, <2>3, <2>6 DEF PlacedInOrder, NothingYet, Having, legs_
  <2>8. ~is_blocking(evaluate_margin_shock(bk'.basket))
    BY <1>1, <2>2 DEF BasketInv
  <2> QED BY <2>2, <2>4, <2>5, <2>7, <2>8 DEF BasketInv
<1> QED BY <1>2, <1>3 DEF BasketPreflight
LEMMA SkipLegKeeps == BasketInv /\ SkipLeg => BasketInv'
<1> SUFFICES ASSUME BasketInv, SkipLeg PROVE BasketInv'
  OBVIOUS
<1>1. /\ bk' = [bk EXCEPT !.at = @ + 1] /\ bkLive' = bkLive /\ bk.pc = "place"
      /\ bk.at <= Len(bk.order) /\ bk \in BasketState /\ PlacedInOrder
      /\ ~is_blocking(evaluate_margin_shock(bk.basket))
  BY DEF SkipLeg, Placing, BasketInv
<1>2. /\ bk'.pc = "place" /\ bk'.basket = bk.basket /\ bk'.order = bk.order /\ bk'.at = bk.at + 1
      /\ bk'.status = bk.status /\ bk'.outcome = bk.outcome /\ bk'.alert = bk.alert
  BY <1>1 DEF BasketState
<1>3. bk' \in BasketState'
  BY <1>1 DEF BasketState
<1>4. BasketTypeOK' /\ NetShortIsMargined'
  BY <1>1, <1>2 DEF BasketInv, BasketTypeOK, NetShortIsMargined, legs_
<1>5. bk.order \in LegOrders(legs_) /\ bk.at \in 1 .. Len(bk.order) + 1 /\ Len(bk.order) \in Nat
  BY <1>1, OrderFields DEF PlacedInOrder
<1>6. bk.at + 1 \in 1 .. Len(bk.order) + 1 /\ 1 .. bk.at - 1 \subseteq 1 .. (bk.at + 1) - 1
  BY <1>1, <1>5
<1>7. PlacedInOrder'
  BY <1>1, <1>2, <1>6 DEF PlacedInOrder, Having, legs_
<1> QED BY <1>1, <1>2, <1>3, <1>4, <1>7 DEF BasketInv

LEMMA PlaceLegKeeps == ASSUME NEW r \in Replies, BasketInv, PlaceLeg(r) PROVE BasketInv'
<1> DEFINE cur == current
           L == legs_
           D == DOMAIN legs_
           st == bk.status
           verdict == IF r.ok THEN "Executed"
                      ELSE IF is_ambiguous(r.error) THEN "AmbiguousMayBeLive" ELSE "Failed"
<1>1. /\ bk' = [bk EXCEPT !.at = @ + 1, !.status[cur] = verdict]
      /\ bkLive' = (IF r.took THEN bkLive \union {cur} ELSE bkLive)
      /\ bk.pc = "place" /\ bk.at <= Len(bk.order) /\ bk \in BasketState /\ PlacedInOrder
      /\ ~is_blocking(evaluate_margin_shock(bk.basket)) /\ prerequisites_met(cur)
  BY DEF PlaceLeg, Placing, BasketInv
<1>2. /\ verdict \in {"Executed", "AmbiguousMayBeLive", "Failed"}
      /\ verdict = "Executed" => r.took
      /\ r.took => verdict \in {"Executed", "AmbiguousMayBeLive"}
  BY RepliesAssumption DEF is_ambiguous
<1>3. bk.order \in LegOrders(L) /\ bk.at \in 1 .. Len(bk.order) /\ Len(bk.order) \in Nat
  BY <1>1, OrderFields DEF PlacedInOrder
<1>4. cur \in D /\ cur = bk.order[bk.at]
  BY <1>3, OrderFields DEF current
<1> HIDE DEF verdict, cur
<1>5. /\ bk'.pc = "place" /\ bk'.basket = bk.basket /\ bk'.order = bk.order /\ bk'.at = bk.at + 1
      /\ bk'.status = [st EXCEPT ![cur] = verdict] /\ bk'.outcome = bk.outcome /\ bk'.alert = bk.alert
  BY <1>1 DEF BasketState
<1>6. bk' \in BasketState'
  <2> DEFINE st2 == [st EXCEPT ![cur] = verdict]
             n == bk.at + 1
  <2>1. bk' = [bk EXCEPT !.at = n, !.status = st2] /\ n \in Int
    BY <1>1 DEF BasketState
  <2> HIDE DEF st2, n
  <2>2. bk'.status = st2
    BY <1>1, <2>1 DEF BasketState
  <2> QED BY <1>1, <2>1, <2>2 DEF BasketState
<1>7. st \in [D -> LegStatus] /\ bkLive \subseteq D /\ legs_' = legs_
  BY <1>5 DEF BasketInv, BasketTypeOK, legs_
<1>8. /\ bk'.status[cur] = verdict /\ \A i \in D : i # cur => bk'.status[i] = st[i]
      /\ bk'.status \in [D -> LegStatus]
  <2>1. verdict \in LegStatus
    BY <1>2 DEF LegStatus
  <2> HIDE DEF st, D
  <2> QED BY <1>4, <1>5, <1>7, <2>1
<1>9. st[cur] = "SkippedUnmetDependency"
  <2> SUFFICES ASSUME NEW p \in 1 .. bk.at - 1, bk.order[p] = cur PROVE FALSE
    BY <1>1, <1>4 DEF PlacedInOrder
  <2>1. p \in 1 .. Len(bk.order) /\ p # bk.at
    BY <1>3
  <2> QED BY <1>3, <1>4, <2>1, OrderFields
<1>10. BasketTypeOK'
  <2>1. bkLive' \subseteq D
    BY <1>1, <1>4, <1>7
  <2> QED BY <1>5, <1>7, <1>8, <2>1 DEF BasketInv, BasketTypeOK
<1>11. NetShortIsMargined'
  <2>1. bk.basket \in Baskets
    BY <1>1 DEF BasketState
  <2> QED BY <1>1, <1>5, <2>1, NotBlockingIsMargined DEF NetShortIsMargined
<1>12. /\ Having("Executed") \subseteq bkLive
       /\ bkLive \subseteq Having("Executed") \union Having("AmbiguousMayBeLive")
       /\ \A i \in bkLive : Prerequisites(L, i) \subseteq Having("Executed")
  BY <1>1 DEF PlacedInOrder
<1>13. cur \notin Having("Executed") /\ cur \notin bkLive
  BY <1>9, <1>12 DEF Having
<1>14. \A i \in Having("Executed") : i \in Having("Executed")'
  BY <1>7, <1>8, <1>13 DEF Having
<1>15. Having("Executed")' \subseteq bkLive'
  <2> SUFFICES ASSUME NEW i \in Having("Executed")' PROVE i \in bkLive'
    OBVIOUS
  <2>1. i \in D /\ bk'.status[i] = "Executed"
    BY <1>7 DEF Having
  <2>2. CASE i = cur
    BY <1>1, <1>2, <1>8, <2>1, <2>2
  <2>3. CASE i # cur
    <3>1. i \in Having("Executed")
      BY <1>8, <2>1, <2>3 DEF Having
    <3> QED BY <1>1, <1>12, <3>1
  <2> QED BY <2>2, <2>3
<1>16. bkLive' \subseteq Having("Executed")' \union Having("AmbiguousMayBeLive")'
  <2> SUFFICES ASSUME NEW i \in bkLive'
               PROVE  i \in D /\ bk'.status[i] \in {"Executed", "AmbiguousMayBeLive"}
    BY <1>7 DEF Having
  <2>1. CASE i = cur
    BY <1>1, <1>2, <1>4, <1>8, <1>13, <2>1
  <2>2. CASE i # cur
    <3>1. i \in bkLive
      BY <1>1, <2>2
    <3> QED BY <1>8, <1>12, <2>2, <3>1 DEF Having
  <2> QED BY <2>1, <2>2
<1>17. \A i \in bkLive' : Prerequisites(L, i) \subseteq Having("Executed")'
  <2> SUFFICES ASSUME NEW i \in bkLive', NEW d \in Prerequisites(L, i)
               PROVE  d \in Having("Executed")'
    OBVIOUS
  <2>1. CASE i \in bkLive
    BY <1>12, <1>14, <2>1
  <2>2. CASE i = cur
    <3>1. st[d] = "Executed"
      BY <1>1, <2>2 DEF prerequisites_met
    <3>2. \E q \in 1 .. bk.at - 1 : bk.order[q] = d
      <4> DEFINE s == bk.order
                 p == bk.at
      <4>1. s \in LegOrders(L) /\ p \in 1 .. Len(s) /\ d \in Prerequisites(L, s[p])
        BY <1>3, <1>4, <2>2
      <4> HIDE DEF s, p, L
      <4>2. EarlierIn(s, p, d)
        BY <4>1, PrerequisiteIsEarlier
      <4> QED BY <4>2 DEF s, p, EarlierIn
    <3>3. d \in D
      BY <1>3, <3>2, OrderFields
    <3>4. d \in Having("Executed")
      BY <3>1, <3>3 DEF Having
    <3> QED BY <1>14, <3>4
  <2> QED BY <1>1, <2>1, <2>2
<1>18. \A i \in D : bk'.status[i] # "SkippedUnmetDependency" => \E p \in 1 .. bk.at : bk.order[p] = i
  <2> SUFFICES ASSUME NEW i \in D, bk'.status[i] # "SkippedUnmetDependency"
               PROVE  \E p \in 1 .. bk.at : bk.order[p] = i
    OBVIOUS
  <2>1. CASE i = cur
    BY <1>3, <1>4, <2>1
  <2>2. CASE i # cur
    <3>1. PICK p \in 1 .. bk.at - 1 : bk.order[p] = i
      BY <1>1, <1>8, <2>2 DEF PlacedInOrder
    <3>2. p \in 1 .. bk.at
      BY <1>3
    <3> QED BY <3>1, <3>2
  <2> QED BY <2>1, <2>2
<1>19. PlacedInOrder'
  <2>1. bk.at + 1 \in 1 .. Len(bk.order) + 1 /\ (bk.at + 1) - 1 = bk.at
    BY <1>3
  <2>2. bk'.alert = NoAlert
    BY <1>1, <1>5 DEF PlacedInOrder
  <2>3. bk'.order \in LegOrders(legs_') /\ bk'.at \in 1 .. Len(bk'.order) + 1
    BY <1>3, <1>5, <1>7, <2>1
  <2>4. \A i \in DOMAIN legs_' :
           bk'.status[i] # "SkippedUnmetDependency" => \E p \in 1 .. bk'.at - 1 : bk'.order[p] = i
    BY <1>5, <1>7, <1>18, <2>1
  <2>5. \A i \in bkLive' : Prerequisites(legs_', i) \subseteq Having("Executed")'
    BY <1>7, <1>17
  <2> QED BY <1>15, <1>16, <2>2, <2>3, <2>4, <2>5 DEF PlacedInOrder
<1>20. ~is_blocking(evaluate_margin_shock(bk'.basket))
  BY <1>1, <1>5
<1> QED BY <1>5, <1>6, <1>10, <1>11, <1>19, <1>20 DEF BasketInv
(* SettleBasket ends the placement: with nothing ambiguous what is live is *)
(* what is Executed.                                                       *)
LEMMA SettleBasketKeeps == BasketInv /\ SettleBasket => BasketInv'
<1> SUFFICES ASSUME BasketInv, SettleBasket PROVE BasketInv'
  OBVIOUS
<1> DEFINE amb == Having("AmbiguousMayBeLive")
<1>1. /\ bkLive' = bkLive /\ bk.pc = "place" /\ bk.at > Len(bk.order) /\ bk \in BasketState
      /\ PlacedInOrder /\ Orphans = {} /\ ~is_blocking(evaluate_margin_shock(bk.basket))
  BY NoOrphanWhilePlacing DEF SettleBasket, BasketInv
<1>2. bk.order \in LegOrders(legs_) /\ Len(bk.order) \in Nat /\ DOMAIN legs_ \subseteq Int
  BY <1>1, OrderFields, BasketFields DEF PlacedInOrder, BasketState, legs_
<1>3. ASSUME NEW outcome \in BasketOutcome, NEW level \in {"none", "Warning", "Critical"},
             NEW names \in SUBSET Int, BasketEnd(outcome, [level |-> level, names |-> names]),
             amb \subseteq names, bkLive # {} /\ outcome # "Complete" => level # "none"
      PROVE  BasketInv'
  <2> DEFINE alert == [level |-> level, names |-> names]
  <2>1. bk' = [bk EXCEPT !.pc = "done", !.outcome = outcome, !.alert = alert]
    BY <1>3 DEF BasketEnd
  <2>2. alert \in [level : {"none", "Warning", "Critical"}, names : SUBSET Int]
    BY <1>3
  <2>3. alert.level = level /\ alert.names = names
    OBVIOUS
  <2> HIDE DEF alert
  <2>4. /\ bk'.pc = "done" /\ bk'.basket = bk.basket /\ bk'.status = bk.status
        /\ bk'.outcome = outcome /\ bk'.alert = alert
    BY <1>1, <2>1 DEF BasketState
  <2>5. bk' \in BasketState'
    BY <1>1, <1>3, <2>1, <2>2 DEF BasketState
  <2>6. BasketTypeOK' /\ NetShortIsMargined'
    BY <1>1, <1>3, <2>3, <2>4 DEF BasketInv, BasketTypeOK, NetShortIsMargined, legs_
  <2>7. OrphanOnlyAfterFailedUnwind'
    <3>1. Orphans' = {}
      BY <1>1, <2>4 DEF Orphans, legs_
    <3> QED BY <3>1 DEF OrphanOnlyAfterFailedUnwind
  <2>8. /\ Having("Executed")' = Having("Executed") /\ amb' = amb
    BY <2>4 DEF Having, legs_
  <2>9. bkLive \subseteq Having("Executed") \union amb
    BY <1>1 DEF PlacedInOrder
  <2>10. LiveIsReported'
    BY <1>1, <1>3, <2>3, <2>4, <2>8, <2>9 DEF LiveIsReported
  <2> QED BY <2>4, <2>5, <2>6, <2>7, <2>10 DEF BasketInv
<1>4. amb \in SUBSET Int
  BY <1>2 DEF Having
<1>5. CASE amb # {}
  <2>1. BasketEnd("ReconcileRequired", [level |-> "Critical", names |-> amb])
    BY <1>5 DEF SettleBasket
  <2>2. "ReconcileRequired" \in BasketOutcome
    BY DEF BasketOutcome
  <2> HIDE DEF amb
  <2> QED BY <1>3, <1>4, <2>1, <2>2
<1>6. ASSUME amb = {}, BasketEnd("Complete", NoAlert) PROVE BasketInv'
  <2>1. BasketEnd("Complete", [level |-> "none", names |-> {}]) /\ {} \in SUBSET Int
    BY <1>6 DEF NoAlert
  <2>2. "Complete" \in BasketOutcome
    BY DEF BasketOutcome
  <2> HIDE DEF amb
  <2> QED BY <1>3, <1>6, <2>1, <2>2
<1>7. ASSUME amb = {}, BasketEnd("PartiallyExecutedLeft", [level |-> "Warning", names |-> {}])
      PROVE  BasketInv'
  <2>1. "PartiallyExecutedLeft" \in BasketOutcome /\ {} \in SUBSET Int
    BY DEF BasketOutcome
  <2> HIDE DEF amb
  <2> QED BY <1>3, <1>7, <2>1
<1>8. ASSUME amb = {}, bk' = [bk EXCEPT !.pc = "unwind", !.at = Len(bk.order)] PROVE BasketInv'
  <2>1. /\ bk'.pc = "unwind" /\ bk'.basket = bk.basket /\ bk'.order = bk.order
        /\ bk'.at = Len(bk.order) /\ bk'.status = bk.status
        /\ bk'.outcome = bk.outcome /\ bk'.alert = bk.alert
    BY <1>1, <1>8 DEF BasketState
  <2>2. bk' \in BasketState'
    <3> DEFINE n == Len(bk.order)
    <3>1. bk' = [bk EXCEPT !.pc = "unwind", !.at = n] /\ n \in Int
      BY <1>2, <1>8
    <3> HIDE DEF n
    <3> QED BY <1>1, <3>1 DEF BasketState
  <2>3. BasketTypeOK' /\ NetShortIsMargined'
    BY <1>1, <2>1 DEF BasketInv, BasketTypeOK, NetShortIsMargined, legs_
  <2>4. bkLive \subseteq Having("Executed") /\ Having("Executed") \subseteq bkLive
    BY <1>1, <1>8 DEF PlacedInOrder
  <2>5. \A i \in bkLive : \E p \in 1 .. Len(bk.order) : bk.order[p] = i
    <3> SUFFICES ASSUME NEW i \in bkLive PROVE \E p \in 1 .. Len(bk.order) : bk.order[p] = i
      OBVIOUS
    <3>1. PICK p \in 1 .. bk.at - 1 : bk.order[p] = i
      BY <1>1, <2>4 DEF PlacedInOrder, Having
    <3>2. p \in 1 .. Len(bk.order)
      BY <1>1, <1>2 DEF PlacedInOrder
    <3> QED BY <3>1, <3>2
  <2>6. ASSUME NEW p \in 1 .. Len(bk.order), bk.status[bk.order[p]] = "Executed"
        PROVE  /\ bk.order[p] \in bkLive
               /\ \A d \in Prerequisites(legs_, bk.order[p]) : bk.status[d] = "Executed"
    <3>1. bk.order[p] \in DOMAIN legs_
      BY <1>2, OrderFields
    <3>2. bk.order[p] \in bkLive
      BY <2>4, <2>6, <3>1 DEF Having
    <3> QED BY <1>1, <3>2 DEF PlacedInOrder, Having
  <2>7. legs_' = legs_ /\ Len(bk.order) \in 0 .. Len(bk.order)
    BY <1>2, <2>1 DEF legs_
  <2>8. Having("Executed")' = Having("Executed") /\ amb' = amb
    BY <2>1, <2>7 DEF Having
  <2>9. UnwoundInOrder'
    BY <1>1, <1>2, <1>8, <2>1, <2>4, <2>5, <2>6, <2>7, <2>8 DEF UnwoundInOrder
  <2>10. ~is_blocking(evaluate_margin_shock(bk'.basket))
    BY <1>1, <2>1
  <2> QED BY <2>1, <2>2, <2>3, <2>9, <2>10 DEF BasketInv
<1> QED BY <1>5, <1>6, <1>7, <1>8 DEF SettleBasket

LEMMA UnwindPastKeeps == BasketInv /\ UnwindPast => BasketInv'
<1> SUFFICES ASSUME BasketInv, UnwindPast PROVE BasketInv'
  OBVIOUS
<1>1. /\ bk' = [bk EXCEPT !.at = @ - 1] /\ bkLive' = bkLive /\ bk.pc = "unwind" /\ bk.at > 0
      /\ bk.status[current] # "Executed" /\ bk \in BasketState /\ UnwoundInOrder
      /\ ~is_blocking(evaluate_margin_shock(bk.basket))
  BY DEF UnwindPast, BasketInv
<1>2. /\ bk'.pc = "unwind" /\ bk'.basket = bk.basket /\ bk'.order = bk.order
      /\ bk'.at = bk.at - 1 /\ bk'.status = bk.status
      /\ bk'.outcome = bk.outcome /\ bk'.alert = bk.alert
  BY <1>1 DEF BasketState
<1>3. bk' \in BasketState'
  BY SMTT(60), <1>1 DEF BasketState
<1>4. BasketTypeOK' /\ NetShortIsMargined'
  BY <1>1, <1>2 DEF BasketInv, BasketTypeOK, NetShortIsMargined, legs_
<1>5. bk.order \in LegOrders(legs_) /\ bk.at \in 1 .. Len(bk.order) /\ Len(bk.order) \in Nat
  BY <1>1, OrderFields DEF UnwoundInOrder
<1>6. bk.at - 1 \in 0 .. Len(bk.order) /\ \A p \in 1 .. bk.at : p = bk.at \/ p \in 1 .. bk.at - 1
  BY <1>5
<1>7. 1 .. bk.at - 1 \subseteq 1 .. bk.at
  BY <1>5
<1>8. \A i \in bkLive : i \in bk.alert.names \/ \E p \in 1 .. bk.at - 1 : bk.order[p] = i
  <2> SUFFICES ASSUME NEW i \in bkLive, i \notin bk.alert.names
               PROVE  \E p \in 1 .. bk.at - 1 : bk.order[p] = i
    OBVIOUS
  <2>1. PICK p \in 1 .. bk.at : bk.order[p] = i
    BY <1>1 DEF UnwoundInOrder
  <2>2. bk.status[i] = "Executed"
    BY <1>1 DEF UnwoundInOrder, Having
  <2> QED BY <1>1, <1>6, <2>1, <2>2 DEF current
<1>9. legs_' = legs_ /\ Having("Executed")' = Having("Executed")
      /\ Having("AmbiguousMayBeLive")' = Having("AmbiguousMayBeLive")
  BY <1>2 DEF Having, legs_
<1>10. UnwoundInOrder'
  BY <1>1, <1>2, <1>6, <1>7, <1>8, <1>9 DEF UnwoundInOrder
<1> QED BY <1>1, <1>2, <1>3, <1>4, <1>10 DEF BasketInv
LEMMA UnwindLegKeeps == ASSUME NEW r \in Replies, BasketInv, UnwindLeg(r) PROVE BasketInv'
<1> DEFINE cur == current
           D == DOMAIN legs_
           st == bk.status
           asked == "unwind_leg" \in bk.basket.seams
           ok == asked /\ r.ok
           verdict == IF ok THEN "Unwound" ELSE "Executed"
           st2 == [st EXCEPT ![cur] = verdict]
           names == IF ok THEN bk.alert.names ELSE bk.alert.names \union {cur}
           alert == [bk.alert EXCEPT !.names = names]
           n == bk.at - 1
<1>1. /\ bk.pc = "unwind" /\ bk.at > 0 /\ st[cur] = "Executed" /\ bk \in BasketState
      /\ UnwoundInOrder /\ ~is_blocking(evaluate_margin_shock(bk.basket))
  BY DEF UnwindLeg, BasketInv
<1>2. bkLive' = (IF asked /\ r.took THEN bkLive \ {cur} ELSE bkLive)
  BY DEF UnwindLeg
<1>3. bk' = [bk EXCEPT !.at = n, !.status = st2, !.alert = alert]
  BY <1>1 DEF UnwindLeg, BasketState
<1>4. bk.order \in LegOrders(legs_) /\ bk.at \in 1 .. Len(bk.order) /\ Len(bk.order) \in Nat
  BY <1>1, OrderFields DEF UnwoundInOrder
<1>5. cur \in D /\ cur = bk.order[bk.at] /\ cur \in Int /\ D \subseteq Int
  <2>1. D \subseteq Int
    BY <1>1, BasketFields DEF BasketState, legs_
  <2> QED BY <1>4, <2>1, OrderFields DEF current
<1>6. /\ ok \in BOOLEAN /\ ok => asked /\ r.took
  BY RepliesAssumption
<1>7. n \in Int /\ n \in 0 .. Len(bk.order)
      /\ \A p \in 1 .. bk.at : p = bk.at \/ p \in 1 .. n
  BY <1>4
<1>8. 1 .. n \subseteq 1 .. Len(bk.order) /\ 1 .. n \subseteq 1 .. bk.at /\ bk.at \notin 1 .. n
  BY <1>4
<1>9. alert \in [level : {"none", "Warning", "Critical"}, names : SUBSET Int] /\ alert.names = names
      /\ alert.level = bk.alert.level
  <2>1. bk.alert \in [level : {"none", "Warning", "Critical"}, names : SUBSET Int]
    BY <1>1 DEF BasketState
  <2>2. names \in SUBSET Int
    BY <1>5, <2>1
  <2> HIDE DEF names
  <2> QED BY <2>1, <2>2
<1>10. st \in [D -> LegStatus] /\ bkLive \subseteq D
  BY DEF BasketInv, BasketTypeOK
<1>11. verdict \in LegStatus
  BY DEF LegStatus
<1> HIDE DEF cur, D, st
<1>12. st2[cur] = verdict /\ (\A i \in D : i # cur => st2[i] = st[i]) /\ st2 \in [D -> LegStatus]
  <2> HIDE DEF verdict
  <2> QED BY <1>5, <1>10, <1>11
<1> HIDE DEF st2, alert, n
<1>13. /\ bk'.pc = "unwind" /\ bk'.basket = bk.basket /\ bk'.order = bk.order /\ bk'.at = n
       /\ bk'.status = st2 /\ bk'.outcome = bk.outcome /\ bk'.alert = alert
  BY <1>1, <1>3 DEF BasketState
<1>14. bk' \in BasketState'
  BY <1>1, <1>3, <1>7, <1>9, <1>13 DEF BasketState
<1>15. legs_' = legs_ /\ D' = D
  BY <1>13 DEF legs_, D
<1>16. bkLive' \subseteq bkLive
  BY <1>2
<1>17. BasketTypeOK'
  BY <1>9, <1>10, <1>12, <1>13, <1>15, <1>16 DEF BasketInv, BasketTypeOK, D
<1>18. NetShortIsMargined'
  BY <1>13, <1>16 DEF BasketInv, NetShortIsMargined
<1>19. \A v : Having(v) = {i \in D : st[i] = v}
  BY DEF Having, D, st
<1>20. \A v : Having(v)' = {i \in D : st2[i] = v}
  BY <1>13, <1>15 DEF Having, D
<1>21. Having("AmbiguousMayBeLive")' = {}
  <2> SUFFICES ASSUME NEW i \in D, st2[i] = "AmbiguousMayBeLive" PROVE FALSE
    BY <1>20
  <2>1. i # cur
    BY <1>12
  <2>2. i \in Having("AmbiguousMayBeLive")
    BY <1>12, <1>19, <2>1
  <2> QED BY <1>1, <2>2 DEF UnwoundInOrder
<1>22. bkLive' \subseteq Having("Executed")'
  <2> SUFFICES ASSUME NEW i \in bkLive' PROVE i \in D /\ st2[i] = "Executed"
    BY <1>20
  <2>1. CASE i = cur
    <3>1. ~ok
      BY <1>2, <1>6, <2>1
    <3> QED BY <1>5, <1>12, <2>1, <3>1
  <2>2. CASE i # cur
    <3>1. i \in Having("Executed")
      BY <1>1, <1>16 DEF UnwoundInOrder
    <3> QED BY <1>12, <1>19, <2>2, <3>1
  <2> QED BY <2>1, <2>2
<1>23. \A i \in bkLive' : i \in names \/ \E p \in 1 .. n : bk.order[p] = i
  <2> SUFFICES ASSUME NEW i \in bkLive', i \notin names PROVE \E p \in 1 .. n : bk.order[p] = i
    OBVIOUS
  <2>1. i # cur /\ i \notin bk.alert.names
    BY <1>2, <1>6
  <2>2. PICK p \in 1 .. bk.at : bk.order[p] = i
    BY <1>1, <1>16, <2>1 DEF UnwoundInOrder
  <2>3. p \in 1 .. n
    BY <1>5, <1>7, <2>1, <2>2
  <2> QED BY <2>2, <2>3
<1>24. \A p \in 1 .. n : bk.order[p] \in D /\ bk.order[p] # cur
  <2> SUFFICES ASSUME NEW p \in 1 .. n PROVE bk.order[p] \in D /\ bk.order[p] # cur
    OBVIOUS
  <2>1. p \in 1 .. Len(bk.order) /\ p # bk.at
    BY <1>8
  <2> QED BY <1>4, <1>5, <2>1, OrderFields DEF D
<1>25. ASSUME NEW p \in 1 .. n, st2[bk.order[p]] = "Executed"
       PROVE  /\ bk.order[p] \in bkLive'
              /\ \A d \in Prerequisites(legs_, bk.order[p]) : st2[d] = "Executed"
  <2>1. st[bk.order[p]] = "Executed"
    BY <1>12, <1>24, <1>25
  <2>2. /\ bk.order[p] \in bkLive
        /\ \A d \in Prerequisites(legs_, bk.order[p]) : st[d] = "Executed"
    BY <1>1, <1>8, <2>1 DEF UnwoundInOrder, st
  <2>3. bk.order[p] \in bkLive'
    BY <1>2, <1>24, <2>2
  <2>4. ASSUME NEW d \in Prerequisites(legs_, bk.order[p]) PROVE st2[d] = "Executed"
    <3> DEFINE s == bk.order
               L == legs_
    <3>1. s \in LegOrders(L) /\ p \in 1 .. Len(s) /\ d \in Prerequisites(L, s[p])
      BY <1>4, <1>8, <2>4
    <3> HIDE DEF s, L
    <3>2. EarlierIn(s, p, d)
      BY <3>1, PrerequisiteIsEarlier
    <3>3. PICK q \in 1 .. p - 1 : s[q] = d
      BY <3>2 DEF EarlierIn
    <3>4. q \in 1 .. n
      BY <1>7
    <3>5. d \in D /\ d # cur
      BY <1>24, <3>3, <3>4 DEF s
    <3> QED BY <1>12, <2>2, <3>5
  <2> QED BY <2>3, <2>4
<1>26. UnwoundInOrder'
  <2> HIDE DEF names
  <2>1. \A i \in bkLive' : i \in bk'.alert.names \/ \E p \in 1 .. bk'.at : bk'.order[p] = i
    BY <1>9, <1>13, <1>23
  <2>2. \A p \in 1 .. bk'.at : bk'.status[bk'.order[p]] = "Executed" =>
           /\ bk'.order[p] \in bkLive'
           /\ \A d \in Prerequisites(legs_', bk'.order[p]) : bk'.status[d] = "Executed"
    BY <1>13, <1>15, <1>25
  <2>3. bk'.order \in LegOrders(legs_') /\ bk'.at \in 0 .. Len(bk'.order)
    BY <1>4, <1>7, <1>13, <1>15
  <2> QED BY <1>21, <1>22, <2>1, <2>2, <2>3 DEF UnwoundInOrder
<1>27. ~is_blocking(evaluate_margin_shock(bk'.basket))
  BY <1>1, <1>13
<1> QED BY <1>13, <1>14, <1>17, <1>18, <1>26, <1>27 DEF BasketInv

LEMMA UnwindEndKeeps == BasketInv /\ UnwindEnd => BasketInv'
<1> SUFFICES ASSUME BasketInv, UnwindEnd PROVE BasketInv'
  OBVIOUS
<1> DEFINE alert == [bk.alert EXCEPT !.level = "Critical"]
<1>1. /\ bk.pc = "unwind" /\ bk.at = 0 /\ bkLive' = bkLive /\ bk \in BasketState /\ UnwoundInOrder
      /\ bk' = [bk EXCEPT !.pc = "done", !.outcome = "PartiallyExecutedUnwound", !.alert = alert]
  BY DEF UnwindEnd, BasketEnd, BasketInv
<1>2. /\ alert \in [level : {"none", "Warning", "Critical"}, names : SUBSET Int]
      /\ alert.level = "Critical" /\ alert.names = bk.alert.names
  BY <1>1 DEF BasketState
<1> HIDE DEF alert
<1>3. /\ bk'.pc = "done" /\ bk'.basket = bk.basket /\ bk'.status = bk.status
      /\ bk'.outcome = "PartiallyExecutedUnwound" /\ bk'.alert = alert
  BY <1>1 DEF BasketState
<1>4. bk' \in BasketState'
  BY <1>1, <1>2 DEF BasketState, BasketOutcome
<1>5. BasketTypeOK' /\ NetShortIsMargined'
  BY <1>1, <1>2, <1>3 DEF BasketInv, BasketTypeOK, NetShortIsMargined, legs_, BasketOutcome
<1>6. Orphans' = Orphans /\ Orphans \subseteq bk.alert.names
  BY <1>1, <1>3, OrphansAreNamed DEF Orphans, legs_
<1>7. OrphanOnlyAfterFailedUnwind'
  BY <1>2, <1>3, <1>6 DEF OrphanOnlyAfterFailedUnwind
<1>8. /\ Having("Executed")' = Having("Executed")
      /\ Having("AmbiguousMayBeLive")' = Having("AmbiguousMayBeLive")
  BY <1>3 DEF Having, legs_
<1>9. LiveIsReported'
  BY <1>1, <1>2, <1>3, <1>8 DEF LiveIsReported, UnwoundInOrder
<1> QED BY <1>3, <1>4, <1>5, <1>7, <1>9 DEF BasketInv

\* For every list of legs, policy and answers: no leg is left live without its
\* prerequisites but by an unwind that failed and is named, what is live when
\* execute_basket returns is reported, and a net-short basket reaches the broker
\* only through the margin gate.
THEOREM BasketsAreSafe == Spec => []BasketIsSafe
<1>1. Init => BasketInv
  BY BasketInitially DEF Init
<1>2. BasketInv /\ [Next]_vars => BasketInv'
  <2> SUFFICES ASSUME BasketInv, [Next]_vars PROVE BasketInv'
    OBVIOUS
  <2>1. CASE BasketNext
    BY <2>1, BasketGateKeeps, BasketPreflightKeeps, SkipLegKeeps, PlaceLegKeeps, SettleBasketKeeps,
       UnwindLegKeeps, UnwindPastKeeps, UnwindEndKeeps DEF BasketNext
  <2>2. CASE UNCHANGED bkVars
    BY <2>2 DEF bkVars, BasketInv, BasketState, BasketTypeOK, NetShortIsMargined, NothingYet,
                PlacedInOrder, UnwoundInOrder, OrphanOnlyAfterFailedUnwind, LiveIsReported,
                Orphans, Having, legs_
  <2>3. BasketNext \/ UNCHANGED bkVars
    BY DEF Next, vars
  <2> QED BY <2>1, <2>2, <2>3
<1> QED BY <1>1, <1>2, BasketInvMeansSafe, PTL DEF Spec
-----------------------------------------------------------------------------
(* What a list of orders adds up to.                                       *)
Amounts(s) == Len(s) \in Nat /\ \A n \in 1 .. Len(s) : s[n].qty \in Nat
SumFrom(s, k) == k = [n \in 0 .. Len(s) |-> IF n = 0 THEN 0 ELSE k[n - 1] + s[n].qty]
Sums(s) == CHOOSE k : SumFrom(s, k)
Sum(s) == Sums(s)[Len(s)]

LEMMA SumsAre ==
  ASSUME NEW s, Amounts(s)
  PROVE  /\ Len(s) \in Nat /\ Sums(s)[0] = 0
         /\ \A n \in 1 .. Len(s) : Sums(s)[n] = Sums(s)[n - 1] + s[n].qty
<1> DEFINE g == [n \in Nat |-> [x \in Int |-> IF n + 1 <= Len(s) THEN x + s[n + 1].qty ELSE x]]
<1>1. Len(s) \in Nat /\ \A n \in 1 .. Len(s) : s[n].qty \in Int
  BY DEF Amounts
<1>2. StepsWithin(g, Int)
  <2>1. ASSUME NEW n \in Nat, NEW x \in Int
        PROVE  (IF n + 1 <= Len(s) THEN x + s[n + 1].qty ELSE x) \in Int
    <3>1. CASE n + 1 <= Len(s)
      <4>1. n + 1 \in 1 .. Len(s)
        BY <1>1, <3>1
      <4> QED BY <1>1, <3>1, <4>1
    <3>2. CASE ~(n + 1 <= Len(s))
      BY <3>2
    <3> QED BY <3>1, <3>2
  <2> QED BY <2>1 DEF StepsWithin
<1>3. \A n \in Nat, x \in Int : n + 1 <= Len(s) => g[n][x] = x + s[n + 1].qty
  OBVIOUS
<1> HIDE DEF g
<1>4. PICK f : Unrolls(f, 0, g, Int)
  <2>1. 0 \in Int
    OBVIOUS
  <2> QED BY <1>2, <2>1, Recursion
<1> DEFINE h == [n \in 0 .. Len(s) |-> f[n]]
<1>5. \A n \in 1 .. Len(s) : f[n] = f[n - 1] + s[n].qty
  <2> SUFFICES ASSUME NEW n \in 1 .. Len(s) PROVE f[n] = f[n - 1] + s[n].qty
    OBVIOUS
  <2>1. n - 1 \in Nat /\ (n - 1) + 1 = n /\ (n - 1) + 1 <= Len(s)
    BY <1>1
  <2>2. f[n - 1] \in Int /\ f[(n - 1) + 1] = g[n - 1][f[n - 1]]
    BY <1>4, <2>1 DEF Unrolls
  <2> QED BY <1>3, <2>1, <2>2
<1>6. SumFrom(s, h)
  <2>1. h[0] = 0
    BY <1>1, <1>4 DEF Unrolls
  <2>2. \A n \in 0 .. Len(s) : h[n] = IF n = 0 THEN 0 ELSE h[n - 1] + s[n].qty
    <3> SUFFICES ASSUME NEW n \in 0 .. Len(s), n # 0 PROVE h[n] = h[n - 1] + s[n].qty
      BY <2>1
    <3>1. n \in 1 .. Len(s) /\ n - 1 \in 0 .. Len(s)
      BY <1>1
    <3> QED BY <1>5, <3>1
  <2> QED BY <2>2 DEF SumFrom
<1> HIDE DEF h
<1>7. SumFrom(s, Sums(s))
  BY <1>6 DEF Sums
<1> DEFINE c == Sums(s)
<1> HIDE DEF c
<1>8. \A n \in 0 .. Len(s) : c[n] = IF n = 0 THEN 0 ELSE c[n - 1] + s[n].qty
  BY <1>7 DEF SumFrom, c
<1>9. 0 \in 0 .. Len(s) /\ 1 .. Len(s) \subseteq 0 .. Len(s) /\ \A n \in 1 .. Len(s) : n # 0
  BY <1>1
<1> QED BY <1>1, <1>8, <1>9 DEF c

LEMMA SumOfNone == Sum(<<>>) = 0
<1>1. Amounts(<<>>) /\ Len(<<>>) = 0
  BY DEF Amounts
<1> QED BY <1>1, SumsAre DEF Sum

LEMMA SumOfOne == ASSUME NEW e, e.qty \in Nat PROVE Sum(<<e>>) = e.qty
<1> DEFINE s == <<e>>
<1>1. Amounts(s) /\ Len(s) = 1 /\ s[1] = e /\ e.qty \in Int
  BY DEF Amounts
<1> HIDE DEF s
<1>2. Sums(s)[0] = 0 /\ \A n \in 1 .. Len(s) : Sums(s)[n] = Sums(s)[n - 1] + s[n].qty
  BY <1>1, SumsAre
<1>3. Sums(s)[1] = Sums(s)[0] + e.qty
  BY <1>1, <1>2
<1> QED BY <1>1, <1>2, <1>3 DEF Sum, s

LEMMA SumsAreNatural ==
  ASSUME NEW s, Amounts(s), NEW n0 \in 0 .. Len(s) PROVE Sums(s)[n0] \in Nat
<1> SUFFICES ASSUME Sums(s)[n0] \notin Nat PROVE FALSE
  OBVIOUS
<1> DEFINE Bad == {n \in Nat : n <= Len(s) /\ Sums(s)[n] \notin Nat}
<1>0. Len(s) \in Nat /\ \A n \in 1 .. Len(s) : s[n].qty \in Nat
  BY DEF Amounts
<1>1. PICK m \in Bad : \A k \in Bad : m <= k
  <2>1. Bad \in SUBSET Nat /\ n0 \in Bad
    BY <1>0
  <2> HIDE DEF Bad
  <2> QED BY <2>1, LeastNat
<1>2. m \in Nat /\ m <= Len(s) /\ Sums(s)[m] \notin Nat
  OBVIOUS
<1>3. m # 0
  BY <1>2, SumsAre
<1>4. m \in 1 .. Len(s) /\ m - 1 \in Nat /\ m - 1 <= Len(s) /\ ~(m <= m - 1)
  BY <1>0, <1>2, <1>3
<1>5. Sums(s)[m - 1] \in Nat
  BY <1>1, <1>4
<1>6. Sums(s)[m] = Sums(s)[m - 1] + s[m].qty
  BY <1>4, SumsAre
<1> QED BY <1>0, <1>2, <1>4, <1>5, <1>6

LEMMA SumIsNatural == ASSUME NEW s, Amounts(s) PROVE Sum(s) \in Nat
<1>1. Len(s) \in 0 .. Len(s)
  BY DEF Amounts
<1> QED BY <1>1, SumsAreNatural DEF Sum

LEMMA SumsAgree ==
  ASSUME NEW s, NEW t, Amounts(s), Amounts(t), Len(s) <= Len(t),
         \A n \in 1 .. Len(s) : s[n].qty = t[n].qty
  PROVE  Sums(t)[Len(s)] = Sum(s)
<1> DEFINE a == Sums(s)
           b == Sums(t)
<1>1. Len(s) \in Nat /\ Len(t) \in Nat
  BY DEF Amounts
<1> HIDE DEF a, b
<1>2. a[0] = 0 /\ \A n \in 1 .. Len(s) : a[n] = a[n - 1] + s[n].qty
  BY SumsAre DEF a
<1>3. b[0] = 0 /\ \A n \in 1 .. Len(t) : b[n] = b[n - 1] + t[n].qty
  BY SumsAre DEF b
<1> SUFFICES ASSUME a[Len(s)] # b[Len(s)] PROVE FALSE
  BY DEF Sum, a, b
<1> DEFINE Bad == {n \in Nat : n <= Len(s) /\ a[n] # b[n]}
<1>4. PICK m \in Bad : \A k \in Bad : m <= k
  <2>1. Bad \in SUBSET Nat /\ Len(s) \in Bad
    BY <1>1
  <2> HIDE DEF Bad
  <2> QED BY <2>1, LeastNat
<1>5. m \in Nat /\ m <= Len(s) /\ a[m] # b[m]
  OBVIOUS
<1>6. m # 0
  BY <1>2, <1>3, <1>5
<1>7. m \in 1 .. Len(s) /\ m \in 1 .. Len(t) /\ m - 1 \in Nat /\ m - 1 <= Len(s) /\ ~(m <= m - 1)
  BY <1>1, <1>5, <1>6
<1>8. a[m - 1] = b[m - 1]
  BY <1>4, <1>7
<1>9. s[m].qty = t[m].qty
  BY <1>7
<1> QED BY <1>2, <1>3, <1>5, <1>7, <1>8, <1>9

LEMMA SumOfMore ==
  ASSUME NEW S, NEW s \in Seq(S), NEW e \in S, Amounts(s), e.qty \in Nat
  PROVE  Sum(Append(s, e)) = Sum(s) + e.qty
<1> DEFINE t == Append(s, e)
<1>1. /\ Len(s) \in Nat /\ Len(t) = Len(s) + 1 /\ t[Len(s) + 1] = e
      /\ \A n \in 1 .. Len(s) : t[n] = s[n]
  OBVIOUS
<1> HIDE DEF t
<1>2. \A n \in 1 .. Len(t) : n = Len(s) + 1 \/ n \in 1 .. Len(s)
  BY <1>1
<1>3. Amounts(t)
  BY <1>1, <1>2 DEF Amounts
<1>4. Sums(t)[Len(s)] = Sum(s)
  <2>1. Len(s) <= Len(t)
    BY <1>1
  <2> QED BY <1>1, <1>3, <2>1, SumsAgree
<1>5. Len(t) \in 1 .. Len(t) /\ Len(t) - 1 = Len(s)
  BY <1>1
<1>6. Sums(t)[Len(t)] = Sums(t)[Len(t) - 1] + t[Len(t)].qty
  BY <1>3, <1>5, SumsAre
<1> QED BY <1>1, <1>4, <1>5, <1>6 DEF Sum, t

LEMMA SumsGrow ==
  ASSUME NEW s, Amounts(s), NEW n0 \in 0 .. Len(s) PROVE Sums(s)[n0] <= Sum(s)
<1> DEFINE c == Sums(s)
           N == Len(s)
<1>1. N \in Nat /\ \A n \in 1 .. N : c[n] = c[n - 1] + s[n].qty /\ s[n].qty \in Nat
  BY SumsAre DEF Amounts
<1>2. \A n \in 0 .. N : c[n] \in Nat
  BY SumsAreNatural
<1> HIDE DEF c, N
<1> SUFFICES ASSUME ~(c[n0] <= c[N]) PROVE FALSE
  BY DEF Sum, c, N
<1> DEFINE Bad == {d \in Nat : d <= N /\ ~(c[N - d] <= c[N])}
<1>3. PICK m \in Bad : \A k \in Bad : m <= k
  <2>1. n0 \in 0 .. N
    BY DEF N
  <2>2. N - n0 \in Nat /\ N - n0 <= N /\ N - (N - n0) = n0
    BY <1>1, <2>1
  <2>3. Bad \in SUBSET Nat /\ N - n0 \in Bad
    BY <2>2
  <2> HIDE DEF Bad
  <2> QED BY <2>3, LeastNat
<1>4. m \in Nat /\ m <= N /\ ~(c[N - m] <= c[N])
  OBVIOUS
<1>5. N \in 0 .. N /\ N - 0 = N
  BY <1>1
<1>6. m # 0
  BY <1>2, <1>4, <1>5
<1>7. m - 1 \in Nat /\ m - 1 <= N /\ ~(m <= m - 1)
  BY <1>1, <1>4, <1>6
<1>8. c[N - (m - 1)] <= c[N]
  BY <1>3, <1>7
<1> DEFINE j == N - (m - 1)
<1>9. j \in 1 .. N /\ j - 1 = N - m /\ j - 1 \in 0 .. N /\ j \in 0 .. N
  BY <1>1, <1>4, <1>6
<1> HIDE DEF j
<1>10. c[j] = c[j - 1] + s[j].qty /\ s[j].qty \in Nat
  BY <1>1, <1>9
<1>11. c[j] \in Nat /\ c[j - 1] \in Nat /\ c[N] \in Nat /\ c[j] <= c[N] /\ ~(c[j - 1] <= c[N])
  BY <1>2, <1>4, <1>5, <1>8, <1>9 DEF j
<1> QED BY <1>10, <1>11

-----------------------------------------------------------------------------
(* evaluate_protection and the exits at the exchange.                      *)

ExitOrders == [side : {"Sell", "Buy"}, qty : Nat \ {0}]

LEMMA ExitFields ==
  ASSUME NEW s \in Seq(ExitOrders), NEW n \in 1 .. Len(s)
  PROVE  /\ s[n] \in ExitOrders /\ s[n].qty \in Nat /\ s[n].qty \in Int /\ s[n].qty > 0
         /\ s[n].side \in {"Sell", "Buy"}
<1>1. s[n] \in ExitOrders
  OBVIOUS
<1> QED BY <1>1 DEF ExitOrders

LEMMA ExitAmounts == ASSUME NEW s \in Seq(ExitOrders) PROVE Amounts(s)
BY ExitFields DEF Amounts

LEMMA WorkingIsSum == Working = Sum(exits)
BY DEF Working, Sum, Sums, SumFrom
(* One exit at most works as long as none was emitted beside another, and  *)
(* it closes no more than there is.                                        *)
Closes(e, q) == /\ e.qty <= abs_qty(q) /\ q # 0
                /\ e.side = exit_side(q)

StopState ==
    /\ position_qty \in Int /\ exits \in Seq(ExitOrders) /\ rearmed \in BOOLEAN
    /\ trueBand \in Bands /\ band_usable(trueBand)

AtMostOneExit == ~rearmed => exits = <<>> \/ \E e \in ExitOrders : exits = <<e>> /\ Closes(e, position_qty)

StopInv == StopState /\ CrossedIsCovered /\ AtMostOneExit

LEMMA LoneExitIsWithin == StopState /\ AtMostOneExit => LoneExitNeverOvershoots
<1> SUFFICES ASSUME StopState, AtMostOneExit, ~rearmed
             PROVE  /\ Working <= abs_qty(position_qty)
                    /\ \A e \in DOMAIN exits : position_qty > 0 <=> exits[e].side = "Sell"
  BY DEF LoneExitNeverOvershoots
<1>1. position_qty \in Int
  BY DEF StopState
<1>2. CASE exits = <<>>
  <2>1. Working = 0
    BY <1>2, WorkingIsSum, SumOfNone
  <2> QED BY <1>1, <1>2, <2>1 DEF abs_qty
<1>3. ASSUME NEW e \in ExitOrders, exits = <<e>>, Closes(e, position_qty)
      PROVE  /\ Working <= abs_qty(position_qty)
             /\ \A x \in DOMAIN exits : position_qty > 0 <=> exits[x].side = "Sell"
  <2>1. Working = e.qty
    BY <1>3, WorkingIsSum, SumOfOne DEF ExitOrders
  <2>2. \A x \in DOMAIN exits : exits[x] = e
    BY <1>3
  <2> QED BY <1>3, <2>1, <2>2 DEF Closes, exit_side
<1> QED BY <1>2, <1>3 DEF AtMostOneExit

LEMMA StopInitially == ASSUME NEW q \in Positions, StopInit(q) PROVE StopInv
<1>1. /\ position_qty \in Int /\ exits = <<>> /\ rearmed = FALSE /\ tick.crossed = FALSE
      /\ trueBand \in Bands /\ band_usable(trueBand)
  BY StopAssumption DEF StopInit, NoTick
<1>2. StopState
  <2>1. exits \in Seq(ExitOrders)
    BY <1>1
  <2>2. rearmed \in BOOLEAN
    BY <1>1
  <2> QED BY <1>1, <2>1, <2>2, Zenon DEF StopState
<1> QED BY <1>1, <1>2 DEF StopInv, CrossedIsCovered, AtMostOneExit

LEMMA TickKeeps ==
  ASSUME NEW crossed \in BOOLEAN, NEW flag, NEW band \in Bands, StopInv, Tick(crossed, flag, band)
  PROVE  StopInv'
<1> DEFINE q == position_qty
           d == evaluate_protection(q, crossed, flag, band)
           accepted == d.emit_exit /\ d.limit \in trueBand.lower .. trueBand.upper
           e == [side |-> d.side, qty |-> d.qty]
           usable == band_usable(band)
<1>1. /\ tick' = [crossed |-> crossed, usable |-> usable, alert |-> d.alert]
      /\ exits' = (IF accepted THEN Append(exits, e) ELSE exits)
      /\ rearmed' = (rearmed \/ (accepted /\ exits # <<>>))
      /\ usable => band = trueBand
      /\ position_qty' = q /\ trueBand' = trueBand
  BY DEF Tick
<1>2. q \in Int /\ exits \in Seq(ExitOrders) /\ rearmed \in BOOLEAN /\ trueBand \in Bands
  BY DEF StopInv, StopState
<1>3. accepted => d.emit_exit
  OBVIOUS
<1>4. d.emit_exit = TRUE => /\ q # 0 /\ q # IntMin /\ d.side = exit_side(q) /\ d.qty = abs_qty(q)
  BY <1>2, StopAssumption DEF evaluate_protection, Decision, exit_quantity
<1>5. d.emit_exit \in BOOLEAN
  BY DEF evaluate_protection, Decision
<1>6. d.emit_exit => e \in ExitOrders /\ Closes(e, q) /\ e.qty = abs_qty(q)
  <2> SUFFICES ASSUME d.emit_exit PROVE e \in ExitOrders /\ Closes(e, q) /\ e.qty = abs_qty(q)
    OBVIOUS
  <2>1. q # 0 /\ d.side = exit_side(q) /\ d.qty = abs_qty(q)
    BY <1>4, <1>5
  <2>2. abs_qty(q) \in Nat \ {0} /\ exit_side(q) \in {"Sell", "Buy"}
    BY <1>2, <2>1 DEF abs_qty, exit_side
  <2> HIDE DEF d
  <2> QED BY <1>2, <2>1, <2>2 DEF ExitOrders, Closes
<1>7. crossed /\ q # 0 => d.alert = TRUE
  BY <1>2 DEF evaluate_protection, Decision
<1>8. crossed /\ q # 0 /\ q # IntMin /\ usable => accepted
  <2> SUFFICES ASSUME crossed, q # 0, q # IntMin, usable PROVE accepted
    OBVIOUS
  <2>1. ~(exit_quantity(q) <= 0)
    BY <1>2 DEF exit_quantity, abs_qty
  <2>2. d.emit_exit = TRUE /\ d.limit = clamp_into_band(Limit, trueBand)
    <3>1. d = [state |-> "ReArmNeeded", emit_exit |-> TRUE, alert |-> TRUE, side |-> exit_side(q),
               qty |-> exit_quantity(q), limit |-> clamp_into_band(Limit, band)]
      BY <2>1 DEF evaluate_protection
    <3> HIDE DEF d
    <3> QED BY <1>1, <3>1
  <2>3. clamp_into_band(Limit, trueBand) \in trueBand.lower .. trueBand.upper
    BY <1>1, <1>2, StopAssumption DEF clamp_into_band, band_usable
  <2> HIDE DEF d
  <2> QED BY <2>2, <2>3
<1> HIDE DEF d, e, accepted, usable
<1>9. accepted \in BOOLEAN /\ usable \in BOOLEAN
  BY <1>2, StopAssumption DEF accepted, usable, band_usable
<1>10. accepted => e \in ExitOrders /\ Closes(e, q) /\ e.qty = abs_qty(q)
  BY <1>3, <1>6
<1>11. exits' \in Seq(ExitOrders)
  BY <1>1, <1>2, <1>9, <1>10
<1>12. StopState'
  BY <1>1, <1>2, <1>9, <1>11 DEF StopInv, StopState, band_usable
<1>13. CrossedIsCovered'
  <2> SUFFICES ASSUME crossed, q # 0
               PROVE  /\ tick'.alert
                      /\ usable /\ q # IntMin => Working' >= abs_qty(q)
    BY <1>1 DEF CrossedIsCovered
  <2>1. tick'.alert
    BY <1>1, <1>7
  <2>2. ASSUME usable, q # IntMin PROVE Working' >= abs_qty(q)
    <3>1. accepted
      BY <1>8, <2>2
    <3>2. Working' = Sum(exits')
      BY DEF Working, Sum, Sums, SumFrom
    <3>3. Sum(exits') = Sum(exits) + e.qty
      <4>1. Amounts(exits) /\ e.qty \in Nat
        BY <1>2, <1>10, <3>1, ExitAmounts DEF ExitOrders
      <4> QED BY <1>1, <1>2, <1>10, <3>1, <4>1, SumOfMore
    <3>4. Sum(exits) \in Nat /\ abs_qty(q) \in Int
      BY <1>2, ExitAmounts, SumIsNatural DEF abs_qty
    <3> QED BY <1>10, <3>1, <3>2, <3>3, <3>4
  <2> QED BY <2>1, <2>2
<1>14. AtMostOneExit'
  <2> SUFFICES ASSUME ~rearmed'
               PROVE  exits' = <<>> \/ \E x \in ExitOrders : exits' = <<x>> /\ Closes(x, q)
    BY <1>1 DEF AtMostOneExit
  <2>1. ~rearmed /\ (accepted => exits = <<>>)
    BY <1>1, <1>2, <1>9
  <2>2. CASE accepted
    <3>1. exits' = <<e>>
      BY <1>1, <2>1, <2>2
    <3> QED BY <1>10, <2>2, <3>1
  <2>3. CASE ~accepted
    BY <1>1, <2>1, <2>3 DEF StopInv, AtMostOneExit
  <2> QED BY <2>2, <2>3
<1> QED BY <1>12, <1>13, <1>14 DEF StopInv

LEMMA ExitFillsKeeps ==
  ASSUME NEW e \in DOMAIN exits, NEW n \in Int, StopInv, ExitFills(e, n) PROVE StopInv'
<1> DEFINE x == exits[e]
           less == [x EXCEPT !.qty = @ - n]
<1>1. /\ n \in 1 .. x.qty
      /\ position_qty' = (IF x.side = "Sell" THEN position_qty - n ELSE position_qty + n)
      /\ exits' = (IF n = x.qty THEN RemoveAt(exits, e) ELSE [exits EXCEPT ![e].qty = @ - n])
      /\ tick' = NoTick /\ rearmed' = rearmed /\ trueBand' = trueBand
  BY DEF ExitFills
<1>2. position_qty \in Int /\ exits \in Seq(ExitOrders) /\ rearmed \in BOOLEAN
  BY DEF StopInv, StopState
<1>3. e \in 1 .. Len(exits) /\ Len(exits) \in Nat
  BY <1>2
<1>4. x \in ExitOrders /\ x.qty \in Nat /\ x.qty > 0 /\ x.side \in {"Sell", "Buy"}
  BY <1>2, <1>3, ExitFields
<1>5. n < x.qty => less \in ExitOrders /\ less.qty = x.qty - n /\ less.side = x.side
  BY <1>1, <1>4 DEF ExitOrders
<1>6. n # x.qty => exits' = [exits EXCEPT ![e] = less]
  BY <1>1, <1>2, <1>3
<1> HIDE DEF x, less
<1>7. exits' \in Seq(ExitOrders)
  <2>1. CASE n = x.qty
    <3>1. RemoveAt(exits, e) \in Seq(ExitOrders)
      BY <1>2, <1>3 DEF RemoveAt
    <3> QED BY <1>1, <2>1, <3>1
  <2>2. CASE n # x.qty
    <3>1. less \in ExitOrders
      BY <1>1, <1>4, <1>5, <2>2
    <3> QED BY <1>2, <1>3, <1>6, <2>2, <3>1
  <2> QED BY <2>1, <2>2
<1>8. StopState'
  BY <1>1, <1>2, <1>4, <1>7 DEF StopInv, StopState, band_usable
<1>9. CrossedIsCovered'
  BY <1>1 DEF CrossedIsCovered, NoTick
<1>10. AtMostOneExit'
  <2> SUFFICES ASSUME ~rearmed
               PROVE  exits' = <<>> \/ \E y \in ExitOrders : exits' = <<y>> /\ Closes(y, position_qty')
    BY <1>1 DEF AtMostOneExit
  <2>1. PICK y \in ExitOrders : exits = <<y>> /\ Closes(y, position_qty)
    BY <1>3 DEF StopInv, AtMostOneExit
  <2>2. e = 1 /\ x = y /\ Len(exits) = 1
    BY <1>3, <2>1 DEF x
  <2>3. CASE n = x.qty
    <3>1. RemoveAt(exits, e) = <<>>
      BY <2>1, <2>2 DEF RemoveAt
    <3> QED BY <1>1, <2>3, <3>1
  <2>4. CASE n # x.qty
    <3>1. exits' = <<less>>
      BY <1>6, <2>1, <2>2, <2>4
    <3>2. n \in Int /\ n >= 1 /\ n < x.qty
      BY <1>1, <1>4, <2>4
    <3>3. x.qty <= abs_qty(position_qty) /\ position_qty # 0 /\ x.side = exit_side(position_qty)
      BY <2>1, <2>2 DEF Closes
    <3>4. Closes(less, position_qty')
      BY <1>1, <1>2, <1>4, <1>5, <3>2, <3>3 DEF Closes, abs_qty, exit_side
    <3> QED BY <1>5, <3>1, <3>2, <3>4
  <2> QED BY <2>3, <2>4
<1> QED BY <1>8, <1>9, <1>10 DEF StopInv

LEMMA ExitCancelledKeeps ==
  ASSUME NEW e \in DOMAIN exits, StopInv, ExitCancelled(e) PROVE StopInv'
<1>1. /\ exits' = RemoveAt(exits, e) /\ tick' = NoTick
      /\ position_qty' = position_qty /\ rearmed' = rearmed /\ trueBand' = trueBand
  BY DEF ExitCancelled
<1>2. exits \in Seq(ExitOrders) /\ e \in 1 .. Len(exits) /\ Len(exits) \in Nat
  BY DEF StopInv, StopState
<1>3. RemoveAt(exits, e) \in Seq(ExitOrders)
  BY <1>2 DEF RemoveAt
<1>4. StopState'
  BY <1>1, <1>3 DEF StopInv, StopState, band_usable
<1>5. CrossedIsCovered'
  BY <1>1 DEF CrossedIsCovered, NoTick
<1>6. AtMostOneExit'
  <2> SUFFICES ASSUME ~rearmed PROVE exits' = <<>>
    BY <1>1 DEF AtMostOneExit
  <2>1. PICK y \in ExitOrders : exits = <<y>>
    BY <1>2 DEF StopInv, AtMostOneExit
  <2>2. e = 1 /\ Len(exits) = 1
    BY <1>2, <2>1
  <2> QED BY <1>1, <2>1, <2>2 DEF RemoveAt
<1> QED BY <1>4, <1>5, <1>6 DEF StopInv

\* For every position, limit, band and width of quantities, and whatever fills,
\* is cancelled or is rejected: a position whose stop is crossed has raised an
\* alert and, with a band that is known, is covered by working exits; and an exit
\* that is alone never closes more than the position, nor on the wrong side.
THEOREM StopsAreSound == Spec => []StopIsSound
<1>1. Init => StopInv
  BY StopInitially DEF Init
<1>2. StopInv /\ [Next]_vars => StopInv'
  <2> SUFFICES ASSUME StopInv, [Next]_vars PROVE StopInv'
    OBVIOUS
  <2>1. CASE StopNext
    <3>1. \A n \in 1 .. -IntMin : n \in Int
      BY StopAssumption
    <3> QED BY <2>1, <3>1, TickKeeps, ExitFillsKeeps, ExitCancelledKeeps DEF StopNext
  <2>2. CASE UNCHANGED stVars
    <3>1. Working' = Working
      BY <2>2 DEF Working, stVars
    <3> QED BY <2>2, <3>1 DEF stVars, StopInv, StopState, CrossedIsCovered, AtMostOneExit
  <2>3. StopNext \/ UNCHANGED stVars
    BY DEF Next, vars
  <2> QED BY <2>1, <2>2, <2>3
<1>3. StopInv => StopIsSound
  BY LoneExitIsWithin DEF StopInv, StopIsSound
<1> QED BY <1>1, <1>2, <1>3, PTL DEF Spec
-----------------------------------------------------------------------------
(* execute_sliced_leg over FreezeSlicer::slice.                            *)

LEMMA DivMod ==
  ASSUME NEW a \in Int, NEW b \in Int, b > 0
  PROVE  /\ a \div b \in Int /\ a % b \in Int
         /\ 0 <= a % b /\ a % b < b /\ a = b * (a \div b) + (a % b)
OBVIOUS

LEMMA MultipleMod ==
  ASSUME NEW x \in Int, NEW b \in Int, b > 0 PROVE (b * x) % b = 0
OBVIOUS

(* A list of children: every quantity is there, below the freeze and on    *)
(* the lot, the sum is the parent's, and no reference is used twice.       *)
ChildOrders == [k : Nat, qty : Nat]
Exact(cs, parent, inst) ==
    /\ cs \in Seq(ChildOrders) /\ Amounts(cs)
    /\ \A n \in 1 .. Len(cs) : cs[n].qty <= inst.freeze /\ cs[n].qty % inst.lot = 0
    /\ Sum(cs) = parent.qty
    /\ \A m, n \in 1 .. Len(cs) : cs[m].k = cs[n].k => m = n

\* For every parent and instrument: what FreezeSlicer::slice does not refuse adds
\* up to the parent's quantity, in children that respect the freeze quantity and
\* the lot and have references of their own.
THEOREM SliceIsSound ==
  ASSUME NEW parent \in Parents, NEW inst \in Instruments, slice(parent, inst) # <<>>
  PROVE  Exact(slice(parent, inst), parent, inst)
<1> DEFINE qty == parent.qty
           lot == inst.lot
           freeze == inst.freeze
           c == freeze \div lot
           chunk == c * lot
           full == qty \div chunk
           rem == qty % chunk
           N == full + IF rem > 0 THEN 1 ELSE 0
           cs == slice(parent, inst)
<1>1. qty \in Int /\ lot \in Int /\ freeze \in Int
  BY SliceAssumption
<1>2. /\ lot > 0 /\ qty > 0 /\ qty % lot = 0 /\ freeze >= lot
      /\ qty <= freeze => cs = <<[k |-> 0, qty |-> qty]>>
      /\ qty > freeze => cs = [n \in 1 .. N |-> [k |-> n, qty |-> IF n <= full THEN chunk ELSE rem]]
  BY <1>1 DEF slice
<1> HIDE DEF qty, lot, freeze, cs
<1>3. CASE qty <= freeze
  <2>1. cs = <<[k |-> 0, qty |-> qty]>>
    BY <1>2, <1>3
  <2>2. Len(cs) = 1 /\ cs[1].qty = qty /\ \A n \in 1 .. Len(cs) : n = 1
    BY <2>1
  <2>3. Amounts(cs)
    BY <1>1, <1>2, <2>2 DEF Amounts
  <2>4. Sum(cs) = qty
    <3> DEFINE e == [k |-> 0, qty |-> qty]
    <3>1. e.qty = qty /\ e.qty \in Nat
      BY <1>1, <1>2
    <3>2. cs = <<e>>
      BY <2>1
    <3> HIDE DEF e
    <3> QED BY <3>1, <3>2, SumOfOne
  <2>5. cs \in Seq(ChildOrders)
    <3>1. [k |-> 0, qty |-> qty] \in ChildOrders
      BY <1>1, <1>2 DEF ChildOrders
    <3> QED BY <2>1, <3>1
  <2> QED BY <1>2, <1>3, <2>2, <2>3, <2>4, <2>5 DEF Exact, cs, qty, lot, freeze
<1>4. CASE qty > freeze
  <2>1. c \in Int /\ c >= 1 /\ lot * c <= freeze
    BY <1>1, <1>2, DivMod
  <2> HIDE DEF c
  <2>2. chunk \in Int /\ chunk = lot * c /\ chunk > 0 /\ chunk <= freeze
    BY <1>1, <1>2, <2>1
  <2>3. chunk % lot = 0
    BY <1>1, <1>2, <2>1, <2>2, MultipleMod
  <2> HIDE DEF chunk
  <2>4. /\ full \in Int /\ rem \in Int /\ 0 <= rem /\ rem < chunk /\ qty = chunk * full + rem
    BY <1>1, <2>2, DivMod
  <2> HIDE DEF full, rem
  <2>5. full >= 1
    <3>1. CASE full <= 0
      <4>1. chunk * full <= 0
        BY <2>2, <2>4, <3>1
      <4>2. chunk * full \in Int
        BY <2>2, <2>4
      <4> QED BY <1>1, <1>4, <2>2, <2>4, <4>1, <4>2
    <3> QED BY <2>4, <3>1
  <2>6. rem % lot = 0
    <3> DEFINE a == qty \div lot
               x == a - c * full
    <3>1. a \in Int /\ qty = lot * a
      BY <1>1, <1>2, DivMod
    <3> HIDE DEF a
    <3>2. x \in Int /\ c * full \in Int
      BY <2>1, <2>4, <3>1
    <3>3. chunk * full = lot * (c * full)
      BY <1>1, <2>1, <2>2, <2>4
    <3>4. rem = lot * x
      BY <1>1, <2>4, <3>1, <3>2, <3>3
    <3> HIDE DEF x
    <3> QED BY <1>1, <1>2, <3>2, <3>4, MultipleMod
  <2>7. /\ N \in Nat /\ N = (IF rem > 0 THEN full + 1 ELSE full)
    BY <2>4, <2>5
  <2> HIDE DEF N
  <2>8. cs = [n \in 1 .. N |-> [k |-> n, qty |-> IF n <= full THEN chunk ELSE rem]]
    BY <1>2, <1>4
  <2>9. /\ Len(cs) = N
        /\ \A n \in 1 .. N : cs[n].k = n /\ cs[n].qty = IF n <= full THEN chunk ELSE rem
    <3> DEFINE El(n) == [k |-> n, qty |-> IF n <= full THEN chunk ELSE rem]
    <3>1. \A n : El(n).k = n /\ El(n).qty = IF n <= full THEN chunk ELSE rem
      OBVIOUS
    <3>2. cs = [n \in 1 .. N |-> El(n)]
      BY <2>8
    <3> HIDE DEF El
    <3>3. \A n \in 1 .. N : cs[n] = El(n)
      BY <3>2
    <3>4. Len(cs) = N
      BY <2>7, <3>2
    <3> QED BY <3>1, <3>3, <3>4
  <2>10. cs \in Seq(ChildOrders)
    <3> DEFINE El(n) == [k |-> n, qty |-> IF n <= full THEN chunk ELSE rem]
    <3>1. \A n \in 1 .. N : El(n) \in ChildOrders
      BY <2>2, <2>4, <2>7 DEF ChildOrders
    <3>2. cs = [n \in 1 .. N |-> El(n)]
      BY <2>8
    <3> HIDE DEF El
    <3> QED BY <2>7, <3>1, <3>2
  <2>11. \A n \in 1 .. N : cs[n].qty \in Nat /\ cs[n].qty <= freeze /\ cs[n].qty % lot = 0
    <3>1. chunk \in Nat /\ rem \in Nat /\ rem <= freeze
      BY <1>1, <2>2, <2>4
    <3> QED BY <2>2, <2>3, <2>6, <2>9, <3>1
  <2>12. Amounts(cs)
    BY <2>7, <2>9, <2>11 DEF Amounts
  <2>13. \A n \in 0 .. N : n <= full => Sums(cs)[n] = chunk * n
    <3> SUFFICES ASSUME NEW n0 \in 0 .. N, n0 <= full, Sums(cs)[n0] # chunk * n0 PROVE FALSE
      OBVIOUS
    <3> DEFINE Bad == {n \in Nat : n <= N /\ n <= full /\ Sums(cs)[n] # chunk * n}
    <3>1. PICK m \in Bad : \A k \in Bad : m <= k
      <4>1. Bad \in SUBSET Nat /\ n0 \in Bad
        BY <2>7
      <4> HIDE DEF Bad
      <4> QED BY <4>1, LeastNat
    <3>2. m \in Nat /\ m <= N /\ m <= full /\ Sums(cs)[m] # chunk * m
      OBVIOUS
    <3>3. Sums(cs)[0] = 0 /\ \A n \in 1 .. N : Sums(cs)[n] = Sums(cs)[n - 1] + cs[n].qty
      BY <2>9, <2>12, SumsAre
    <3>4. m # 0
      <4>1. chunk * 0 = 0
        BY <2>2
      <4> QED BY <3>2, <3>3, <4>1
    <3>5. m \in 1 .. N /\ m - 1 \in Nat /\ m - 1 <= N /\ m - 1 <= full /\ ~(m <= m - 1)
      BY <2>4, <2>7, <3>2, <3>4
    <3>6. Sums(cs)[m - 1] = chunk * (m - 1)
      BY <3>1, <3>5
    <3>7. Sums(cs)[m] = chunk * (m - 1) + chunk
      BY <2>9, <3>2, <3>3, <3>5, <3>6
    <3>8. chunk * (m - 1) + chunk = chunk * m
      BY <2>2, <3>2
    <3> QED BY <3>2, <3>7, <3>8
  <2>14. Sum(cs) = qty
    <3>1. full \in 0 .. N
      BY <2>4, <2>5, <2>7
    <3>2. Sums(cs)[full] = chunk * full
      BY <2>4, <2>13, <3>1
    <3>3. CASE rem > 0
      <4>1. N \in 1 .. N /\ N - 1 = full /\ ~(N <= full)
        BY <2>4, <2>5, <2>7, <3>3
      <4>2. Sums(cs)[N] = Sums(cs)[N - 1] + cs[N].qty
        BY <2>9, <2>12, <4>1, SumsAre
      <4>3. cs[N].qty = rem
        BY <2>9, <4>1
      <4> QED BY <2>4, <2>9, <3>2, <4>1, <4>2, <4>3 DEF Sum
    <3>4. CASE ~(rem > 0)
      <4>1. N = full /\ rem = 0
        BY <2>4, <2>7, <3>4
      <4>2. chunk * full \in Int
        BY <2>2, <2>4
      <4> QED BY <2>4, <2>9, <3>2, <4>1, <4>2 DEF Sum
    <3> QED BY <3>3, <3>4
  <2> QED BY <2>9, <2>10, <2>11, <2>12, <2>14 DEF Exact, cs, qty, lot, freeze
<1> QED BY <1>1, <1>3, <1>4 DEF cs

(* The executor over the attempts so far.                                  *)
SliceState ==
    [parent : Parents, inst : Instruments, pc : {"start", "child", "place", "done", "down"},
     children : {sl.children}, at : Nat \ {0}, runs : {sl.runs}, outcome : SlicedLegOutcome,
     alert : {sl.alert}]

(* What is sent is the current slice, which is of an instrument that has   *)
(* been used.                                                              *)
SliceOnCourse ==
    /\ sl.pc \in {"child", "place"} => sl.children # <<>>
    /\ sl.pc = "place" => sl.at <= Len(sl.children)
    /\ sl.pc = "start" => sl.at = 1 /\ sl.children = <<>>
    /\ sl.pc # "done" => sl.outcome = "none"
    /\ sl.outcome = "FilledSliced" => flight = {}
    /\ sl.children # <<>> => sl.inst \in sliced /\ sl.children = slice(sl.parent, sl.inst)
    /\ sliced \subseteq Instruments /\ IsFiniteSet(sliced)
    /\ \A i \in sliced : slice(sl.parent, i) # <<>>
    /\ sliced = {} => atBroker = <<>> /\ flight = {}

(* The broker's orders have references of their own, and an order in       *)
(* flight has another one.                                                 *)
ReferencesApart ==
    /\ atBroker \in Seq(ChildOrders)
    /\ ChildAtMostOnce
    /\ flight = {} \/ \E c \in ChildOrders : flight = {c} /\ ~OnBroker(c.k)

(* While one instrument has been used, the broker's orders are the first   *)
(* children of its slice, and the one in flight is the next.               *)
SamePlan ==
    \A i \in sliced : sliced = {i} =>
        LET cs == slice(sl.parent, i)
        IN  /\ Len(atBroker) <= Len(cs)
            /\ \A o \in 1 .. Len(atBroker) : atBroker[o] = cs[o]
            /\ flight # {} => Len(atBroker) < Len(cs) /\ flight = {cs[Len(atBroker) + 1]}
            /\ sl.pc \in {"child", "place"} => sl.at <= Len(atBroker) + 1
            /\ sl.outcome = "FilledSliced" => Len(atBroker) = Len(cs)

SliceInv ==
    /\ sl \in SliceState /\ SliceTypeOK /\ SliceOnCourse /\ ReferencesApart /\ SamePlan
    /\ \A k \in DOMAIN children_by_parent : OnBroker(k)

LEMMA BrokerAmounts == ASSUME NEW s \in Seq(ChildOrders) PROVE Amounts(s)
<1>1. \A n \in 1 .. Len(s) : s[n] \in ChildOrders
  OBVIOUS
<1> QED BY <1>1 DEF Amounts, ChildOrders

LEMMA TotalIsSum == Total = Sum(atBroker)
BY DEF Total, Sum, Sums, SumFrom

LEMMA PlanIsExact ==
  ASSUME SliceInv, NEW i \in sliced
  PROVE  Exact(slice(sl.parent, i), sl.parent, i)
BY SliceIsSound DEF SliceInv, SliceState, SliceOnCourse

LEMMA PlanBoundsTotal ==
  ASSUME SliceInv, NEW i \in sliced, sliced = {i}
  PROVE  /\ Total <= sl.parent.qty
         /\ Len(atBroker) = Len(slice(sl.parent, i)) => Total = sl.parent.qty
<1> DEFINE cs == slice(sl.parent, i)
<1>1. Exact(cs, sl.parent, i)
  BY PlanIsExact
<1>2. Len(atBroker) <= Len(cs) /\ \A o \in 1 .. Len(atBroker) : atBroker[o] = cs[o]
  BY DEF SliceInv, SamePlan
<1>3. Amounts(atBroker) /\ Amounts(cs) /\ Sum(cs) = sl.parent.qty
  BY <1>1, BrokerAmounts DEF SliceInv, ReferencesApart, Exact
<1> HIDE DEF cs
<1>4. Sums(cs)[Len(atBroker)] = Sum(atBroker)
  BY <1>2, <1>3, SumsAgree
<1>5. Len(atBroker) \in 0 .. Len(cs)
  BY <1>2, <1>3 DEF Amounts
<1>6. Sums(cs)[Len(atBroker)] <= Sum(cs)
  BY <1>3, <1>5, SumsGrow
<1> QED BY <1>3, <1>4, <1>6, TotalIsSum DEF Sum, cs

LEMMA SliceInvMeansSafe == SliceInv => SlicesAreSafe
<1> SUFFICES ASSUME SliceInv PROVE SlicesAreSafe
  OBVIOUS
<1>1. ASSUME NEW i \in sliced, sliced = {i}
      PROVE  /\ Total <= sl.parent.qty
             /\ sl.outcome = "FilledSliced" => Total = sl.parent.qty
             /\ \A o \in DOMAIN atBroker : atBroker[o].qty <= i.freeze /\ atBroker[o].qty % i.lot = 0
  <2> DEFINE cs == slice(sl.parent, i)
  <2>1. Exact(cs, sl.parent, i)
    BY PlanIsExact
  <2>2. /\ Len(atBroker) <= Len(cs) /\ \A o \in 1 .. Len(atBroker) : atBroker[o] = cs[o]
        /\ sl.outcome = "FilledSliced" => Len(atBroker) = Len(cs)
    BY <1>1 DEF SliceInv, SamePlan
  <2>3. DOMAIN atBroker = 1 .. Len(atBroker) /\ Len(atBroker) \in Nat /\ Len(cs) \in Nat
    BY <2>1 DEF SliceInv, ReferencesApart, Exact, Amounts
  <2> HIDE DEF cs
  <2>4. \A o \in DOMAIN atBroker : o \in 1 .. Len(cs) /\ atBroker[o] = cs[o]
    BY <2>2, <2>3
  <2>5. \A o \in DOMAIN atBroker : atBroker[o].qty <= i.freeze /\ atBroker[o].qty % i.lot = 0
    BY <2>1, <2>4 DEF Exact
  <2> QED BY <1>1, <2>2, <2>5, PlanBoundsTotal DEF cs
<1>2. SliceIsExact
  BY <1>1 DEF SliceIsExact
<1>3. FilledParentIsWhole
  <2> SUFFICES ASSUME sl.children # <<>>, Cardinality(sliced) = 1,
                      {sl.children[c].k : c \in DOMAIN sl.children} = DOMAIN children_by_parent,
                      parent_state(children_by_parent) = "Filled"
               PROVE  /\ Total = sl.parent.qty
                      /\ \A o \in DOMAIN atBroker : children_by_parent[atBroker[o].k] = "Filled"
    BY DEF FilledParentIsWhole
  <2>1. PICK i : sliced = {i}
    BY FS_Singleton DEF SliceInv, SliceOnCourse
  <2> DEFINE cs == slice(sl.parent, i)
  <2>2. sl.children = cs /\ cs # <<>> /\ i \in sliced
    BY <2>1 DEF SliceInv, SliceOnCourse
  <2>3. Exact(cs, sl.parent, i)
    BY <2>2, PlanIsExact
  <2>4. Len(atBroker) <= Len(cs) /\ \A o \in 1 .. Len(atBroker) : atBroker[o] = cs[o]
    BY <2>1, <2>2 DEF SliceInv, SamePlan
  <2> HIDE DEF cs
  <2>5. /\ DOMAIN atBroker = 1 .. Len(atBroker) /\ Len(atBroker) \in Nat
        /\ DOMAIN cs = 1 .. Len(cs) /\ Len(cs) \in Nat /\ Len(cs) # 0
    BY <2>2, <2>3 DEF SliceInv, ReferencesApart, Exact
  <2>6. Len(cs) \in 1 .. Len(cs)
    BY <2>5
  <2>7. OnBroker(cs[Len(cs)].k)
    <3>1. cs[Len(cs)].k \in DOMAIN children_by_parent
      BY <2>2, <2>5, <2>6
    <3> QED BY <3>1 DEF SliceInv
  <2>8. PICK o \in DOMAIN atBroker : atBroker[o].k = cs[Len(cs)].k
    BY <2>7 DEF OnBroker
  <2>9. o \in 1 .. Len(cs) /\ cs[o].k = cs[Len(cs)].k
    BY <2>4, <2>5, <2>8
  <2>10. o = Len(cs)
    BY <2>3, <2>6, <2>9 DEF Exact
  <2>11. Len(atBroker) = Len(cs)
    <3>1. o <= Len(atBroker)
      BY <2>5, <2>8
    <3>2. Len(atBroker) <= Len(cs) /\ Len(cs) <= Len(atBroker)
      BY <2>4, <2>10, <3>1
    <3>3. Len(atBroker) \in Nat /\ Len(cs) \in Nat
      BY <2>5
    <3> QED BY <3>2, <3>3
  <2>12. Total = sl.parent.qty
    BY <2>1, <2>2, <2>11, PlanBoundsTotal DEF cs
  <2>13. {children_by_parent[k] : k \in DOMAIN children_by_parent} = {"Filled"}
    BY DEF parent_state, fold_parent_state
  <2>14. \A p \in DOMAIN atBroker : atBroker[p].k \in DOMAIN children_by_parent
    BY <2>2, <2>4, <2>5, <2>11
  <2>15. \A p \in DOMAIN atBroker : children_by_parent[atBroker[p].k] = "Filled"
    BY <2>13, <2>14
  <2> QED BY <2>12, <2>15
<1> QED BY <1>2, <1>3 DEF SliceInv, ReferencesApart, SlicesAreSafe

LEMMA SliceInitially ==
  ASSUME NEW p \in Parents, NEW i \in Instruments, SliceInit(p, i) PROVE SliceInv
<1> USE DEF SliceInit
<1>1. sl \in SliceState
  BY DEF SliceState, SlicedLegOutcome
<1>2. SliceTypeOK
  BY DEF SliceTypeOK, SlicedLegOutcome
<1>3. SliceOnCourse
  BY FS_EmptySet DEF SliceOnCourse
<1>4. ReferencesApart
  BY DEF ReferencesApart, ChildAtMostOnce
<1>5. SamePlan
  BY DEF SamePlan
<1> QED BY <1>1, <1>2, <1>3, <1>4, <1>5 DEF SliceInv

LEMMA SliceFields ==
  ASSUME sl \in SliceState
  PROVE  /\ sl = [parent |-> sl.parent, inst |-> sl.inst, pc |-> sl.pc, children |-> sl.children,
                  at |-> sl.at, runs |-> sl.runs, outcome |-> sl.outcome, alert |-> sl.alert]
         /\ sl.parent \in Parents /\ sl.inst \in Instruments /\ sl.at \in Nat /\ sl.at # 0
         /\ sl.pc \in {"start", "child", "place", "done", "down"} /\ sl.outcome \in SlicedLegOutcome
BY DEF SliceState

(* A step that leaves the broker, the flight and the history alone.        *)
LEMMA SliceStepKeeps ==
  ASSUME SliceInv, atBroker' = atBroker, flight' = flight, sliced' = sliced,
         (sl \in SliceState)', SliceTypeOK', SliceOnCourse', sl'.parent = sl.parent,
         flight # {} => sl'.pc \in {"done", "down"},
         \A k \in DOMAIN children_by_parent' : OnBroker(k),
         ASSUME NEW i \in sliced, sliced = {i}
         PROVE  /\ sl'.pc \in {"child", "place"} => sl'.at <= Len(atBroker) + 1
                /\ sl'.outcome = "FilledSliced" => Len(atBroker) = Len(slice(sl.parent, i))
  PROVE  SliceInv'
<1>1. ReferencesApart'
  BY DEF SliceInv, ReferencesApart, ChildAtMostOnce, OnBroker
<1>2. SamePlan'
  BY DEF SliceInv, SamePlan
<1>3. \A k : OnBroker(k)' <=> OnBroker(k)
  BY DEF OnBroker
<1> QED BY <1>1, <1>2, <1>3 DEF SliceInv

LEMMA LegCompleteKeeps == SliceInv /\ LegComplete => SliceInv'
<1> SUFFICES ASSUME SliceInv, LegComplete PROVE SliceInv'
  OBVIOUS
<1>1. sl.pc = "child" /\ sl.at > Len(sl.children) /\ sl' = EndLeg("FilledSliced")
  BY DEF LegComplete
<1>2. UNCHANGED <<atBroker, flight, children_by_parent, sliced>>
  BY DEF LegComplete
<1>3. /\ sl'.parent = sl.parent /\ sl'.inst = sl.inst /\ sl'.pc = "done" /\ sl'.at = sl.at
      /\ sl'.children = sl.children /\ sl'.outcome = "FilledSliced" /\ (sl \in SliceState)'
  BY <1>1, SliceFields DEF SliceInv, SliceState, EndLeg, SlicedLegOutcome
<1>4. SliceTypeOK'
  BY <1>2, <1>3 DEF SliceInv, SliceTypeOK, SlicedLegOutcome
<1>5. flight = {}
  BY <1>1 DEF SliceInv, ReferencesApart, ChildAtMostOnce
<1>6. SliceOnCourse'
  BY <1>1, <1>2, <1>3, <1>5 DEF SliceInv, SliceOnCourse
<1>7. ASSUME NEW i \in sliced, sliced = {i}
      PROVE  Len(atBroker) = Len(slice(sl.parent, i))
  <2>1. sl.children = slice(sl.parent, i)
    BY <1>1, <1>7 DEF SliceInv, SliceOnCourse
  <2>2. sl.at <= Len(atBroker) + 1 /\ Len(atBroker) <= Len(slice(sl.parent, i))
    BY <1>1, <1>7 DEF SliceInv, SamePlan
  <2>3. sl.at \in Nat /\ Len(atBroker) \in Nat /\ Len(slice(sl.parent, i)) \in Nat
    BY <1>7, PlanIsExact, SliceFields DEF SliceInv, ReferencesApart, Exact
  <2> QED BY <1>1, <2>1, <2>2, <2>3
<1> QED BY <1>2, <1>3, <1>4, <1>5, <1>6, <1>7, SliceStepKeeps DEF SliceInv

LEMMA RunAgainKeeps ==
  ASSUME NEW inst \in Instruments, SliceInv, RunAgain(inst) PROVE SliceInv'
<1>1. /\ flight = {}
      /\ sl' = [sl EXCEPT !.pc = "start", !.inst = inst, !.runs = @ + 1, !.children = <<>>, !.at = 1,
                          !.outcome = "none", !.alert = "none"]
  BY DEF RunAgain
<1>2. UNCHANGED <<atBroker, flight, children_by_parent, sliced>>
  BY DEF RunAgain
<1>3. /\ sl'.parent = sl.parent /\ sl'.inst = inst /\ sl'.pc = "start" /\ sl'.at = 1
      /\ sl'.children = <<>> /\ sl'.outcome = "none" /\ (sl \in SliceState)'
  <2>1. sl' = [parent |-> sl.parent, inst |-> inst, pc |-> "start", children |-> <<>>, at |-> 1,
               runs |-> sl.runs + 1, outcome |-> "none", alert |-> "none"]
    BY <1>1, SliceFields DEF SliceInv
  <2>2. sl.parent \in Parents
    BY SliceFields DEF SliceInv
  <2> QED BY <2>1, <2>2 DEF SliceState, SlicedLegOutcome
<1>4. SliceTypeOK'
  BY <1>2, <1>3 DEF SliceInv, SliceTypeOK, SlicedLegOutcome
<1>5. SliceOnCourse'
  BY <1>1, <1>2, <1>3 DEF SliceInv, SliceOnCourse
<1> QED BY <1>1, <1>2, <1>3, <1>4, <1>5, SliceStepKeeps DEF SliceInv

LEMMA ChildObservedKeeps ==
  ASSUME NEW o \in DOMAIN atBroker, NEW s \in ChildStates, SliceInv, ChildObserved(atBroker[o].k, s)
  PROVE  SliceInv'
<1>1. UNCHANGED <<sl, atBroker, flight, sliced>>
  BY DEF ChildObserved
<1>2. children_by_parent' = apply_child(children_by_parent, atBroker[o].k, s)
  BY DEF ChildObserved
<1>3. OnBroker(atBroker[o].k)
  BY DEF OnBroker
<1>4. \A k \in DOMAIN children_by_parent' : OnBroker(k)
  BY <1>2, <1>3 DEF SliceInv, apply_child
<1>5. SliceTypeOK'
  BY <1>1, <1>2 DEF SliceInv, SliceTypeOK, apply_child, ChildStates, OrderState
<1>6. SliceOnCourse' /\ (sl \in SliceState)'
  BY <1>1 DEF SliceInv, SliceOnCourse, SliceState
<1>7. flight # {} => sl'.pc \in {"done", "down"}
  BY <1>1 DEF SliceInv, ReferencesApart, ChildAtMostOnce
<1>8. ASSUME NEW i \in sliced, sliced = {i}
      PROVE  /\ sl'.pc \in {"child", "place"} => sl'.at <= Len(atBroker) + 1
             /\ sl'.outcome = "FilledSliced" => Len(atBroker) = Len(slice(sl.parent, i))
  BY <1>1, <1>8 DEF SliceInv, SamePlan
<1> QED BY <1>1, <1>4, <1>5, <1>6, <1>7, <1>8, SliceStepKeeps

(* The child about to be sent is one of the slice.                         *)
LEMMA NextChild ==
  ASSUME SliceInv, sl.pc \in {"child", "place"}, sl.at <= Len(sl.children)
  PROVE  /\ flight = {} /\ child \in ChildOrders
         /\ \A i \in sliced : sliced = {i} =>
               /\ sl.children = slice(sl.parent, i)
               /\ sl.at <= Len(atBroker) + 1
               /\ OnBroker(child.k) <=> sl.at <= Len(atBroker)
<1>1. flight = {}
  BY DEF SliceInv, ReferencesApart, ChildAtMostOnce
<1>2. /\ sl.inst \in sliced /\ sl.children = slice(sl.parent, sl.inst)
  BY DEF SliceInv, SliceOnCourse
<1>3. Exact(sl.children, sl.parent, sl.inst)
  BY <1>2, PlanIsExact
<1>4. /\ Len(sl.children) \in Nat /\ sl.at \in 1 .. Len(sl.children) /\ Len(atBroker) \in Nat
      /\ DOMAIN atBroker = 1 .. Len(atBroker)
  BY <1>3, SliceFields DEF SliceInv, Exact, ReferencesApart
<1>5. child \in ChildOrders
  BY <1>3, <1>4 DEF Exact, child
<1>6. ASSUME NEW i \in sliced, sliced = {i}
      PROVE  /\ sl.children = slice(sl.parent, i)
             /\ sl.at <= Len(atBroker) + 1
             /\ OnBroker(child.k) <=> sl.at <= Len(atBroker)
  <2> DEFINE cs == sl.children
  <2>1. cs = slice(sl.parent, i)
    BY <1>2, <1>6
  <2>2. /\ sl.at <= Len(atBroker) + 1 /\ Len(atBroker) <= Len(cs)
        /\ \A o \in 1 .. Len(atBroker) : atBroker[o] = cs[o]
    BY <1>6, <2>1 DEF SliceInv, SamePlan
  <2>3. child = cs[sl.at]
    BY DEF child
  <2>4. ASSUME sl.at <= Len(atBroker) PROVE OnBroker(child.k)
    <3>1. sl.at \in DOMAIN atBroker /\ atBroker[sl.at] = child
      BY <1>4, <2>2, <2>3, <2>4
    <3> QED BY <3>1 DEF OnBroker
  <2>5. ASSUME NEW o \in DOMAIN atBroker, atBroker[o].k = child.k PROVE sl.at <= Len(atBroker)
    <3>1. o \in 1 .. Len(cs) /\ o <= Len(atBroker) /\ cs[o].k = cs[sl.at].k
      BY <1>4, <2>2, <2>3, <2>5
    <3>2. o = sl.at
      BY <1>3, <1>4, <3>1 DEF Exact
    <3> QED BY <3>1, <3>2
  <2> QED BY <2>1, <2>2, <2>4, <2>5 DEF OnBroker
<1> QED BY <1>1, <1>5, <1>6

(* A leg that is paused keeps its slice and its place in it.               *)
LEMMA PausedLeg ==
  ASSUME sl \in SliceState, sl' = pause_for_unknown
  PROVE  /\ sl'.parent = sl.parent /\ sl'.inst = sl.inst /\ sl'.children = sl.children
         /\ sl'.pc = "done" /\ sl'.outcome = "UnknownPaused" /\ (sl \in SliceState)'
<1>1. sl' = [parent |-> sl.parent, inst |-> sl.inst, pc |-> "done", children |-> sl.children,
             at |-> sl.at, runs |-> sl.runs, outcome |-> "UnknownPaused", alert |-> "Critical"]
  BY SliceFields DEF pause_for_unknown, EndLeg
<1>2. sl.parent \in Parents /\ sl.inst \in Instruments /\ sl.at \in Nat \ {0}
  BY SliceFields
<1> QED BY <1>1, <1>2 DEF SliceState, SlicedLegOutcome

LEMMA AdvancedLeg ==
  ASSUME sl \in SliceState, sl' = AfterChild
  PROVE  /\ sl'.parent = sl.parent /\ sl'.inst = sl.inst /\ sl'.children = sl.children
         /\ sl'.pc = "child" /\ sl'.at = sl.at + 1 /\ sl'.outcome = sl.outcome
         /\ (sl \in SliceState)'
<1>1. sl' = [parent |-> sl.parent, inst |-> sl.inst, pc |-> "child", children |-> sl.children,
             at |-> sl.at + 1, runs |-> sl.runs, outcome |-> sl.outcome, alert |-> sl.alert]
  BY SliceFields DEF AfterChild
<1>2. /\ sl.parent \in Parents /\ sl.inst \in Instruments /\ sl.at + 1 \in Nat \ {0}
      /\ sl.outcome \in SlicedLegOutcome
  BY SliceFields
<1> QED BY <1>1, <1>2 DEF SliceState

LEMMA ProbeChildKeeps == ASSUME NEW a \in BOOLEAN, SliceInv, ProbeChild(a) PROVE SliceInv'
<1>1. sl.pc = "child" /\ sl.at <= Len(sl.children)
  BY DEF ProbeChild
<1>2. UNCHANGED <<atBroker, flight, children_by_parent, sliced>>
  BY DEF ProbeChild
<1>3. \/ sl' = [sl EXCEPT !.pc = "place"]
      \/ sl' = pause_for_unknown
      \/ OnBroker(child.k) /\ sl' = AfterChild
  BY DEF ProbeChild
<1>4. /\ sl'.parent = sl.parent /\ sl'.inst = sl.inst /\ sl'.children = sl.children
      /\ \/ sl'.pc = "place" /\ sl'.at = sl.at /\ sl'.outcome = sl.outcome
         \/ sl'.pc = "done" /\ sl'.outcome = "UnknownPaused"
         \/ sl'.pc = "child" /\ sl'.at = sl.at + 1 /\ sl'.outcome = sl.outcome /\ OnBroker(child.k)
      /\ (sl \in SliceState)'
  <2>1. CASE sl' = [sl EXCEPT !.pc = "place"]
    BY <2>1, SliceFields DEF SliceInv, SliceState
  <2>2. CASE sl' = pause_for_unknown
    BY <2>2, PausedLeg DEF SliceInv
  <2>3. CASE OnBroker(child.k) /\ sl' = AfterChild
    BY <2>3, AdvancedLeg DEF SliceInv
  <2> QED BY <1>3, <2>1, <2>2, <2>3
<1>5. SliceTypeOK'
  BY <1>2, <1>4 DEF SliceInv, SliceTypeOK, SlicedLegOutcome
<1>6. SliceOnCourse'
  BY <1>1, <1>2, <1>4 DEF SliceInv, SliceOnCourse
<1>7. ASSUME NEW i \in sliced, sliced = {i}
      PROVE  /\ sl'.pc \in {"child", "place"} => sl'.at <= Len(atBroker) + 1
             /\ sl'.outcome = "FilledSliced" => Len(atBroker) = Len(slice(sl.parent, i))
  <2>1. sl.at <= Len(atBroker) + 1 /\ (OnBroker(child.k) <=> sl.at <= Len(atBroker))
    BY <1>1, <1>7, NextChild
  <2>2. sl.at \in Nat /\ Len(atBroker) \in Nat
    BY SliceFields DEF SliceInv, ReferencesApart
  <2>3. sl.outcome = "none"
    BY <1>1 DEF SliceInv, SliceOnCourse
  <2> QED BY <1>4, <2>1, <2>2, <2>3
<1>8. flight = {}
  BY <1>1, NextChild
<1> QED BY <1>2, <1>4, <1>5, <1>6, <1>7, <1>8, SliceStepKeeps DEF SliceInv

LEMMA StartLegKeeps == SliceInv /\ StartLeg => SliceInv'
<1> SUFFICES ASSUME SliceInv, StartLeg PROVE SliceInv'
  OBVIOUS
<1> DEFINE cs == slice(sl.parent, sl.inst)
<1>1. /\ sl.pc = "start" /\ UNCHANGED <<atBroker, flight, children_by_parent>>
      /\ \/ sl' = EndLeg("SliceRejected") /\ sliced' = sliced
         \/ /\ cs # <<>> /\ sl' = [sl EXCEPT !.pc = "child", !.children = cs]
            /\ sliced' = sliced \union {sl.inst}
  BY DEF StartLeg
<1> HIDE DEF cs
<1>2. flight = {} /\ sl.at = 1 /\ sl.children = <<>> /\ sl.outcome = "none"
  BY <1>1 DEF SliceInv, ReferencesApart, ChildAtMostOnce, SliceOnCourse
<1>3. CASE sl' = EndLeg("SliceRejected") /\ sliced' = sliced
  <2>1. /\ sl'.parent = sl.parent /\ sl'.inst = sl.inst /\ sl'.children = sl.children
        /\ sl'.pc = "done" /\ sl'.outcome = "SliceRejected" /\ (sl \in SliceState)'
    BY <1>3, SliceFields DEF SliceInv, SliceState, EndLeg, SlicedLegOutcome
  <2>2. SliceTypeOK'
    BY <1>1, <2>1 DEF SliceInv, SliceTypeOK, SlicedLegOutcome
  <2>3. SliceOnCourse'
    BY <1>1, <1>2, <1>3, <2>1 DEF SliceInv, SliceOnCourse
  <2> QED BY <1>1, <1>2, <1>3, <2>1, <2>2, <2>3, SliceStepKeeps DEF SliceInv
<1>4. CASE /\ cs # <<>> /\ sl' = [sl EXCEPT !.pc = "child", !.children = cs]
           /\ sliced' = sliced \union {sl.inst}
  <2>1. /\ sl'.parent = sl.parent /\ sl'.inst = sl.inst /\ sl'.children = cs
        /\ sl'.pc = "child" /\ sl'.at = 1 /\ sl'.outcome = "none" /\ (sl \in SliceState)'
    BY <1>2, <1>4, SliceFields DEF SliceInv, SliceState
  <2>2. SliceTypeOK'
    BY <1>1, <2>1 DEF SliceInv, SliceTypeOK, SlicedLegOutcome
  <2>3. SliceOnCourse'
    <3>1. sl.inst \in Instruments
      BY SliceFields DEF SliceInv
    <3>2. sliced' \subseteq Instruments /\ IsFiniteSet(sliced')
      BY <1>4, <3>1, FS_AddElement DEF SliceInv, SliceOnCourse
    <3>3. \A i \in sliced' : slice(sl'.parent, i) # <<>>
      BY <1>4, <2>1 DEF SliceInv, SliceOnCourse, cs
    <3> QED BY <1>4, <2>1, <3>2, <3>3 DEF SliceOnCourse, cs
  <2>4. ReferencesApart'
    BY <1>1, <1>2, <2>1 DEF SliceInv, ReferencesApart, ChildAtMostOnce, OnBroker
  <2>5. ASSUME NEW i, sliced' = {i}
        PROVE  /\ Len(atBroker) <= Len(cs)
               /\ \A o \in 1 .. Len(atBroker) : atBroker[o] = cs[o]
               /\ 1 <= Len(atBroker) + 1 /\ i = sl.inst
    <3>1. i = sl.inst /\ (sliced = {} \/ sliced = {i})
      BY <1>4, <2>5
    <3>2. Len(cs) \in Nat /\ Len(atBroker) \in Nat
      <4>1. Exact(cs, sl.parent, sl.inst)
        BY <1>4, SliceIsSound, SliceFields DEF SliceInv, cs
      <4> QED BY <4>1 DEF SliceInv, ReferencesApart, Exact
    <3>3. CASE sliced = {}
      <4>1. Len(atBroker) = 0
        BY <3>3 DEF SliceInv, SliceOnCourse
      <4> QED BY <3>1, <3>2, <4>1
    <3>4. CASE sliced = {i}
      BY <3>1, <3>2, <3>4 DEF SliceInv, SamePlan, cs
    <3> QED BY <3>1, <3>3, <3>4
  <2>6. SamePlan'
    <3> SUFFICES ASSUME NEW i \in sliced', sliced' = {i}
                 PROVE  (LET ds == slice(sl.parent, i)
                         IN  /\ Len(atBroker) <= Len(ds)
                             /\ \A o \in 1 .. Len(atBroker) : atBroker[o] = ds[o]
                             /\ flight # {} => Len(atBroker) < Len(ds) /\ flight = {ds[Len(atBroker) + 1]}
                             /\ sl.pc \in {"child", "place"} => sl.at <= Len(atBroker) + 1
                             /\ sl.outcome = "FilledSliced" => Len(atBroker) = Len(ds))'
      BY DEF SamePlan
    <3>1. slice(sl'.parent, i) = cs
      BY <2>1, <2>5 DEF cs
    <3> QED BY <1>1, <1>2, <2>1, <2>5, <3>1
  <2>7. \A k : OnBroker(k)' <=> OnBroker(k)
    BY <1>1 DEF OnBroker
  <2> QED BY <1>1, <2>1, <2>2, <2>3, <2>4, <2>6, <2>7 DEF SliceInv
<1> QED BY <1>1, <1>3, <1>4

(* The child that is being sent goes into the open: the call does not      *)
(* return, or it returns without an answer.                                *)
LEMMA ChildTakesOff ==
  ASSUME SliceInv, sl.pc = "place", ~OnBroker(child.k), flight' = {child},
         atBroker' = atBroker, sliced' = sliced, DOMAIN children_by_parent' \subseteq DOMAIN children_by_parent,
         (sl \in SliceState)', SliceTypeOK', sl'.parent = sl.parent, sl'.inst = sl.inst,
         sl'.children = sl.children,
         \/ sl'.pc = "done" /\ sl'.outcome = "UnknownPaused"
         \/ sl'.pc = "down" /\ sl'.outcome = "none"
  PROVE  SliceInv'
<1>1. sl.at <= Len(sl.children)
  BY DEF SliceInv, SliceOnCourse
<1>2. /\ flight = {} /\ child \in ChildOrders
      /\ \A i \in sliced : sliced = {i} =>
            /\ sl.children = slice(sl.parent, i) /\ sl.at <= Len(atBroker) + 1
            /\ OnBroker(child.k) <=> sl.at <= Len(atBroker)
  BY <1>1, NextChild
<1>3. sl.at \in Nat /\ Len(atBroker) \in Nat
  BY SliceFields DEF SliceInv, ReferencesApart
<1>4. SliceOnCourse'
  BY DEF SliceInv, SliceOnCourse
<1>5. \A k : OnBroker(k)' <=> OnBroker(k)
  BY DEF OnBroker
<1>6. ReferencesApart'
  BY <1>2, <1>5 DEF SliceInv, ReferencesApart, ChildAtMostOnce
<1>7. ASSUME NEW i \in sliced, sliced = {i}
      PROVE  /\ sl.children = slice(sl.parent, i)
             /\ Len(atBroker) < Len(sl.children) /\ child = sl.children[Len(atBroker) + 1]
  <2>1. sl.at = Len(atBroker) + 1
    BY <1>2, <1>3, <1>7
  <2> QED BY <1>1, <1>2, <1>3, <1>7, <2>1, PlanIsExact DEF child, Exact
<1>8. SamePlan'
  BY <1>7 DEF SliceInv, SamePlan
<1> QED BY <1>4, <1>5, <1>6, <1>8 DEF SliceInv

(* One more order at the broker, under a reference it has not seen.        *)
LEMMA OrderArrives ==
  ASSUME SliceInv, NEW c \in ChildOrders, ~OnBroker(c.k), atBroker' = Append(atBroker, c)
  PROVE  /\ atBroker' \in Seq(ChildOrders)
         /\ \A o, p \in DOMAIN atBroker' : atBroker'[o].k = atBroker'[p].k => o = p
         /\ \A k : OnBroker(k) => OnBroker(k)'
         /\ Len(atBroker') = Len(atBroker) + 1 /\ Len(atBroker) \in Nat
         /\ \A o \in 1 .. Len(atBroker) : atBroker'[o] = atBroker[o]
         /\ atBroker'[Len(atBroker) + 1] = c
<1>1. atBroker \in Seq(ChildOrders) /\ \A o, p \in DOMAIN atBroker : atBroker[o].k = atBroker[p].k => o = p
  BY DEF SliceInv, ReferencesApart, ChildAtMostOnce
<1>2. atBroker' \in Seq(ChildOrders)
  BY <1>1
<1>3. /\ DOMAIN atBroker = 1 .. Len(atBroker) /\ DOMAIN atBroker' = 1 .. Len(atBroker')
      /\ Len(atBroker') = Len(atBroker) + 1 /\ Len(atBroker) \in Nat
      /\ \A o \in 1 .. Len(atBroker) : atBroker'[o] = atBroker[o]
      /\ atBroker'[Len(atBroker) + 1] = c
  BY <1>1
<1>4. \A o \in DOMAIN atBroker : o \in DOMAIN atBroker' /\ atBroker'[o] = atBroker[o] /\ atBroker[o].k # c.k
  BY <1>3 DEF OnBroker
<1>5. \A o \in DOMAIN atBroker' : o \in DOMAIN atBroker \/ (o = Len(atBroker) + 1 /\ atBroker'[o] = c)
  BY <1>3
<1>6. \A o, p \in DOMAIN atBroker' : atBroker'[o].k = atBroker'[p].k => o = p
  BY <1>1, <1>4, <1>5
<1>7. \A k : OnBroker(k) => OnBroker(k)'
  BY <1>4 DEF OnBroker
<1> QED BY <1>2, <1>3, <1>6, <1>7

(* The probe has answered for the child that is about to be placed; nothing *)
(* arrives between the two calls, for no order is in flight.               *)
ProbedIsNew == sl.pc = "place" /\ ~Backstop => ~OnBroker(child.k)

LEMMA PlaceChildKeeps ==
  ASSUME NEW a \in {"acked", "open", "refused"}, SliceInv, ProbedIsNew, PlaceChild(a) PROVE SliceInv'
<1>1. /\ sl.pc = "place" /\ sl.at <= Len(sl.children) /\ sl.outcome = "none"
  BY DEF PlaceChild, SliceInv, SliceOnCourse
<1>2. UNCHANGED <<children_by_parent, sliced>>
  BY DEF PlaceChild
<1>3. /\ flight = {} /\ child \in ChildOrders
      /\ \A i \in sliced : sliced = {i} =>
            /\ sl.children = slice(sl.parent, i) /\ sl.at <= Len(atBroker) + 1
            /\ OnBroker(child.k) <=> sl.at <= Len(atBroker)
  BY <1>1, NextChild
<1>4. sl.at \in Nat /\ Len(atBroker) \in Nat
  BY SliceFields DEF SliceInv, ReferencesApart
<1>5. sl.children # <<>> /\ sl.inst \in sliced /\ sl.children = slice(sl.parent, sl.inst)
  BY <1>1 DEF SliceInv, SliceOnCourse
<1>6. CASE a = "acked"
  <2>1. /\ ~OnBroker(child.k) /\ atBroker' = Append(atBroker, child) /\ flight' = {} /\ sl' = AfterChild
    BY <1>1, <1>6 DEF PlaceChild, ProbedIsNew
  <2>2. /\ sl'.parent = sl.parent /\ sl'.inst = sl.inst /\ sl'.children = sl.children
        /\ sl'.pc = "child" /\ sl'.at = sl.at + 1 /\ sl'.outcome = "none" /\ (sl \in SliceState)'
    BY <1>1, <2>1, AdvancedLeg DEF SliceInv
  <2>3. /\ atBroker' \in Seq(ChildOrders)
        /\ \A o, p \in DOMAIN atBroker' : atBroker'[o].k = atBroker'[p].k => o = p
        /\ \A k : OnBroker(k) => OnBroker(k)'
        /\ Len(atBroker') = Len(atBroker) + 1
        /\ \A o \in 1 .. Len(atBroker) : atBroker'[o] = atBroker[o]
        /\ atBroker'[Len(atBroker) + 1] = child
    BY <1>3, <2>1, OrderArrives
  <2>4. SliceTypeOK'
    BY <1>2, <2>2 DEF SliceInv, SliceTypeOK, SlicedLegOutcome
  <2>5. SliceOnCourse'
    BY <1>2, <1>5, <2>1, <2>2 DEF SliceInv, SliceOnCourse
  <2>6. ReferencesApart'
    BY <2>1, <2>3 DEF ReferencesApart, ChildAtMostOnce
  <2>7. ASSUME NEW i \in sliced, sliced = {i}
        PROVE  /\ Len(atBroker') <= Len(sl.children) /\ sl.children = slice(sl.parent, i)
               /\ \A o \in 1 .. Len(atBroker') : atBroker'[o] = sl.children[o]
               /\ sl'.at <= Len(atBroker') + 1
    <3>1. sl.at = Len(atBroker) + 1
      BY <1>3, <1>4, <2>1, <2>7
    <3>2. \A o \in 1 .. Len(atBroker) : atBroker[o] = sl.children[o]
      BY <1>3, <2>7 DEF SliceInv, SamePlan
    <3>3. atBroker'[Len(atBroker) + 1] = sl.children[Len(atBroker) + 1]
      BY <2>3, <3>1 DEF child
    <3>4. \A o \in 1 .. Len(atBroker') : o \in 1 .. Len(atBroker) \/ o = Len(atBroker) + 1
      BY <1>4, <2>3
    <3>5. \A o \in 1 .. Len(atBroker') : atBroker'[o] = sl.children[o]
      BY <2>3, <3>2, <3>3, <3>4
    <3> QED BY <1>1, <1>3, <1>4, <2>2, <2>3, <2>7, <3>1, <3>5
  <2>8. SamePlan'
    BY <1>2, <2>1, <2>2, <2>7 DEF SamePlan
  <2>9. \A k \in DOMAIN children_by_parent' : OnBroker(k)'
    BY <1>2, <2>3 DEF SliceInv
  <2> QED BY <2>2, <2>4, <2>5, <2>6, <2>8, <2>9 DEF SliceInv
<1>7. CASE a = "open"
  <2>1. ~OnBroker(child.k) /\ atBroker' = atBroker /\ flight' = {child} /\ sl' = pause_for_unknown
    BY <1>1, <1>7 DEF PlaceChild, ProbedIsNew
  <2>2. /\ sl'.parent = sl.parent /\ sl'.inst = sl.inst /\ sl'.children = sl.children
        /\ sl'.pc = "done" /\ sl'.outcome = "UnknownPaused" /\ (sl \in SliceState)'
    BY <2>1, PausedLeg DEF SliceInv
  <2> QED BY <1>1, <1>2, <2>1, <2>2, ChildTakesOff DEF SliceInv, SliceTypeOK, SlicedLegOutcome
<1>8. CASE a = "refused"
  <2>1. atBroker' = atBroker /\ flight' = flight /\ sl' = pause_for_unknown
    BY <1>3, <1>8 DEF PlaceChild
  <2>2. /\ sl'.parent = sl.parent /\ sl'.inst = sl.inst /\ sl'.children = sl.children
        /\ sl'.pc = "done" /\ sl'.outcome = "UnknownPaused" /\ (sl \in SliceState)'
    BY <2>1, PausedLeg DEF SliceInv
  <2>3. SliceTypeOK'
    BY <1>2, <2>2 DEF SliceInv, SliceTypeOK, SlicedLegOutcome
  <2>4. SliceOnCourse'
    BY <1>2, <1>5, <2>1, <2>2 DEF SliceInv, SliceOnCourse
  <2> QED BY <1>2, <1>3, <2>1, <2>2, <2>3, <2>4, SliceStepKeeps DEF SliceInv
<1> QED BY <1>6, <1>7, <1>8

LEMMA ListOfOne == ASSUME NEW c PROVE SetToSeq({c}) = <<c>>
<1>1. Cardinality({c}) = 1
  BY FS_Singleton
<1>2. 1 .. 1 = {1}
  OBVIOUS
<1> DEFINE Lists(f) == f \in [1 .. Cardinality({c}) -> {c}] /\ IsInjective(f)
<1>3. Lists(<<c>>)
  BY <1>1, <1>2 DEF IsInjective
<1>4. \A f : Lists(f) => f = <<c>>
  BY <1>1, <1>2
<1>5. SetToSeq({c}) = CHOOSE f : Lists(f)
  BY DEF SetToSeq
<1> HIDE DEF Lists
<1> QED BY <1>3, <1>4, <1>5

LEMMA FlightLandsKeeps == ASSUME NEW b \in BOOLEAN, SliceInv, FlightLands(b) PROVE SliceInv'
<1>1. flight # {} /\ flight' = {} /\ UNCHANGED <<sl, children_by_parent, sliced>>
  BY DEF FlightLands
<1>2. PICK c \in ChildOrders : flight = {c} /\ ~OnBroker(c.k)
  BY <1>1 DEF SliceInv, ReferencesApart
<1>3. sl.pc \in {"done", "down"} /\ sl.outcome # "FilledSliced"
  BY <1>1 DEF SliceInv, ReferencesApart, ChildAtMostOnce, SliceOnCourse
<1>4. (sl \in SliceState)' /\ SliceTypeOK'
  BY <1>1 DEF SliceInv, SliceState, SliceTypeOK
<1>5. SliceOnCourse'
  BY <1>1 DEF SliceInv, SliceOnCourse
<1>6. CASE ~b
  <2>1. atBroker' = atBroker
    BY <1>6 DEF FlightLands
  <2>2. \A k : OnBroker(k)' <=> OnBroker(k)
    BY <2>1 DEF OnBroker
  <2>3. ReferencesApart'
    BY <1>1, <2>1 DEF SliceInv, ReferencesApart, ChildAtMostOnce
  <2>4. SamePlan'
    BY <1>1, <2>1 DEF SliceInv, SamePlan
  <2> QED BY <1>1, <1>4, <1>5, <2>2, <2>3, <2>4 DEF SliceInv
<1>7. CASE b
  <2>1. atBroker' = Append(atBroker, c)
    <3>1. atBroker' = atBroker \o SetToSeq({c})
      BY <1>2, <1>7 DEF FlightLands
    <3>2. SetToSeq({c}) = <<c>>
      BY ListOfOne
    <3>3. atBroker \in Seq(ChildOrders)
      BY DEF SliceInv, ReferencesApart
    <3>4. Append(atBroker, c) = atBroker \o <<c>>
      BY <3>3, AppendIsConcat
    <3> QED BY <3>1, <3>2, <3>4
  <2>2. /\ atBroker' \in Seq(ChildOrders)
        /\ \A o, p \in DOMAIN atBroker' : atBroker'[o].k = atBroker'[p].k => o = p
        /\ \A k : OnBroker(k) => OnBroker(k)'
        /\ Len(atBroker') = Len(atBroker) + 1 /\ Len(atBroker) \in Nat
        /\ \A o \in 1 .. Len(atBroker) : atBroker'[o] = atBroker[o]
        /\ atBroker'[Len(atBroker) + 1] = c
    BY <1>2, <2>1, OrderArrives
  <2>3. ReferencesApart'
    BY <1>1, <2>2 DEF ReferencesApart, ChildAtMostOnce
  <2>4. ASSUME NEW i \in sliced, sliced = {i}, NEW cs, cs = slice(sl.parent, i)
        PROVE  /\ Len(atBroker') <= Len(cs)
               /\ \A o \in 1 .. Len(atBroker') : atBroker'[o] = cs[o]
    <3>1. /\ Len(atBroker) < Len(cs) /\ c = cs[Len(atBroker) + 1]
          /\ \A o \in 1 .. Len(atBroker) : atBroker[o] = cs[o]
      BY <1>1, <1>2, <2>4 DEF SliceInv, SamePlan
    <3>2. Len(cs) \in Nat
      BY <2>4, PlanIsExact DEF Exact
    <3>3. \A o \in 1 .. Len(atBroker') : o \in 1 .. Len(atBroker) \/ o = Len(atBroker) + 1
      BY <2>2
    <3>4. \A o \in 1 .. Len(atBroker') : atBroker'[o] = cs[o]
      BY <2>2, <3>1, <3>3
    <3> QED BY <2>2, <3>1, <3>2, <3>4
  <2>5. SamePlan'
    BY <1>1, <1>3, <2>4 DEF SamePlan
  <2>6. \A k \in DOMAIN children_by_parent' : OnBroker(k)'
    BY <1>1, <2>2 DEF SliceInv
  <2> QED BY <1>4, <1>5, <2>3, <2>5, <2>6 DEF SliceInv
<1> QED BY <1>6, <1>7

LEMMA LegCrashKeeps == ASSUME NEW b \in BOOLEAN, SliceInv, ProbedIsNew, LegCrash(b) PROVE SliceInv'
<1>1. /\ sl.pc \in {"child", "place"} /\ sl' = [sl EXCEPT !.pc = "down"] /\ children_by_parent' = <<>>
      /\ UNCHANGED <<atBroker, sliced>>
  BY DEF LegCrash
<1>2. /\ sl'.parent = sl.parent /\ sl'.inst = sl.inst /\ sl'.children = sl.children
      /\ sl'.pc = "down" /\ sl'.outcome = "none" /\ (sl \in SliceState)'
  <2>1. sl.outcome = "none"
    BY <1>1 DEF SliceInv, SliceOnCourse
  <2> QED BY <1>1, <2>1, SliceFields DEF SliceInv, SliceState
<1>3. DOMAIN children_by_parent' = {}
  BY <1>1
<1>4. SliceTypeOK'
  BY <1>2, <1>3 DEF SliceTypeOK, SlicedLegOutcome
<1>5. flight = {}
  BY <1>1 DEF SliceInv, ReferencesApart, ChildAtMostOnce
<1>6. CASE b
  <2>1. sl.pc = "place" /\ ~OnBroker(child.k) /\ flight' = {child}
    BY <1>6 DEF LegCrash, ProbedIsNew
  <2> QED BY <1>1, <1>2, <1>3, <1>4, <2>1, ChildTakesOff
<1>7. CASE ~b
  <2>1. flight' = flight
    BY <1>7 DEF LegCrash
  <2>2. SliceOnCourse'
    BY <1>1, <1>2, <2>1 DEF SliceInv, SliceOnCourse
  <2> QED BY <1>1, <1>2, <1>3, <1>4, <1>5, <2>1, <2>2, SliceStepKeeps
<1> QED BY <1>6, <1>7

LEMMA SliceUnmoved == SliceInv /\ UNCHANGED slVars => SliceInv'
BY DEF slVars, SliceInv, SliceState, SliceTypeOK, SliceOnCourse, ReferencesApart, ChildAtMostOnce,
       SamePlan, OnBroker

LEMMA SliceNextKeeps == SliceInv /\ ProbedIsNew /\ SliceNext => SliceInv'
BY StartLegKeeps, ProbeChildKeeps, PlaceChildKeeps, LegCompleteKeeps, FlightLandsKeeps,
   LegCrashKeeps, RunAgainKeeps, ChildObservedKeeps DEF SliceNext

LEMMA ProbedIsNewKept == SliceInv /\ ProbedIsNew /\ (SliceNext \/ UNCHANGED slVars) => ProbedIsNew'
<1> SUFFICES ASSUME SliceInv, ProbedIsNew, SliceNext \/ UNCHANGED slVars, sl'.pc = "place" PROVE ProbedIsNew'
  BY DEF ProbedIsNew
<1>1. \A e \in {"UnknownPaused", "SliceRejected", "FilledSliced"} : EndLeg(e).pc # "place"
  BY SliceFields DEF EndLeg, SliceInv
<1>2. pause_for_unknown.pc # "place" /\ AfterChild.pc # "place"
  BY PausedLeg, SliceFields DEF AfterChild, SliceInv, pause_for_unknown, EndLeg
<1>3. CASE UNCHANGED <<sl, atBroker>>
  BY <1>3 DEF ProbedIsNew, Backstop, OnBroker, child
<1>4. ASSUME NEW a \in BOOLEAN, ProbeChild(a) PROVE ProbedIsNew'
  <2>1. sl' = [sl EXCEPT !.pc = "place"] /\ (Backstop \/ ~OnBroker(child.k)) /\ UNCHANGED atBroker
    BY <1>2, <1>4 DEF ProbeChild, Backstop
  <2>2. sl'.parent = sl.parent /\ sl'.children = sl.children /\ sl'.at = sl.at
    BY <2>1, SliceFields DEF SliceInv
  <2> QED BY <2>1, <2>2 DEF ProbedIsNew, Backstop, OnBroker, child
<1>5. ASSUME NEW b \in BOOLEAN, FlightLands(b) PROVE FALSE
  BY <1>5 DEF FlightLands, SliceInv, ReferencesApart, ChildAtMostOnce
<1>6. ASSUME NEW b \in BOOLEAN, LegCrash(b) PROVE FALSE
  BY <1>6, SliceFields DEF LegCrash, SliceInv
<1>7. ASSUME NEW i \in Instruments, RunAgain(i) PROVE FALSE
  BY <1>7, SliceFields DEF RunAgain, SliceInv
<1>8. StartLeg => FALSE
  BY <1>1, SliceFields DEF StartLeg, SliceInv
<1>9. LegComplete => FALSE
  BY <1>1 DEF LegComplete
<1>10. ASSUME NEW a \in {"acked", "open", "refused"}, PlaceChild(a) PROVE FALSE
  BY <1>2, <1>10 DEF PlaceChild
<1>11. ASSUME NEW k, NEW s \in ChildStates, ChildObserved(k, s) PROVE ProbedIsNew'
  BY <1>3, <1>11 DEF ChildObserved
<1>12. UNCHANGED slVars => ProbedIsNew'
  BY <1>3 DEF slVars
<1> QED BY <1>4, <1>5, <1>6, <1>7, <1>8, <1>9, <1>10, <1>11, <1>12 DEF SliceNext

\* For every parent, instrument and number of attempts, and whatever is lost,
\* refused, paused, killed and run again: execute_sliced_leg never has a child
\* reference accepted twice nor sends behind an order whose fate is open; while
\* the instrument stays the same the broker never holds more than the parent
\* ordered, exactly that when the leg reports success, in orders on the lot and
\* within the freeze quantity; and the parent reads Filled only when all of it is.
THEOREM SlicedLegsAreSafe == Spec => []SlicesAreSafe
<1>1. Init => SliceInv /\ ProbedIsNew
  BY SliceInitially DEF Init, SliceInit, ProbedIsNew
<1>2. SliceInv /\ ProbedIsNew /\ [Next]_vars => (SliceInv /\ ProbedIsNew)'
  <2>1. [Next]_vars => SliceNext \/ UNCHANGED slVars
    BY DEF Next, vars
  <2> QED BY <2>1, SliceNextKeeps, SliceUnmoved, ProbedIsNewKept
<1> QED BY <1>1, <1>2, SliceInvMeansSafe, PTL DEF Spec
-----------------------------------------------------------------------------
(* StrategyBook: sums over finite sets.  A fold takes one element after    *)
(* another out of its set.                                                 *)
Chosen(T) == CHOOSE x \in T : TRUE
Without(T) == T \ {Chosen(T)}
AddsUp(it, f, S) == it = [T \in SUBSET S |-> IF T = {} THEN 0 ELSE f[Chosen(T)] + it[Without(T)]]
SumIs(n, f, S) == /\ IsFiniteSet(S) /\ f \in [S -> Int]
                  /\ \E it : AddsUp(it, f, S) /\ n = it[S]

LEMMA ChosenIsIn ==
  ASSUME NEW S, NEW T \in SUBSET S, T # {}
  PROVE  Chosen(T) \in T /\ Chosen(T) \in S /\ Without(T) \in SUBSET S
BY DEF Chosen, Without

LEMMA WithoutIsSmaller ==
  ASSUME NEW S, IsFiniteSet(S), NEW T \in SUBSET S, T # {}
  PROVE  /\ Cardinality(T) \in Nat /\ Cardinality(T) # 0 /\ Cardinality(Without(T)) = Cardinality(T) - 1
<1>1. IsFiniteSet(T)
  BY FS_Subset
<1>2. Chosen(T) \in T
  BY ChosenIsIn
<1>3. Cardinality(T) \in Nat /\ Cardinality(T) # 0
  BY <1>1, FS_CardinalityType, FS_EmptySet
<1> QED BY <1>1, <1>2, <1>3, FS_RemoveElement DEF Without

LEMMA ByRemoval ==
  ASSUME NEW S, IsFiniteSet(S), NEW P, {} \in P,
         \A T \in SUBSET S : T # {} /\ Without(T) \in P => T \in P
  PROVE  \A T \in SUBSET S : T \in P
<1> SUFFICES ASSUME NEW U \in SUBSET S, U \notin P PROVE FALSE
  OBVIOUS
<1> DEFINE Bad == {n \in Nat : \E T \in SUBSET S : T \notin P /\ Cardinality(T) = n}
<1>1. Cardinality(U) \in Bad
  BY WithoutIsSmaller
<1>2. PICK m \in Bad : \A k \in Bad : m <= k
  <2>1. Bad \in SUBSET Nat /\ Bad # {}
    BY <1>1
  <2> HIDE DEF Bad
  <2> QED BY <2>1, LeastNat
<1>3. PICK T \in SUBSET S : T \notin P /\ Cardinality(T) = m
  OBVIOUS
<1>4. T # {}
  BY <1>3
<1>5. /\ Without(T) \in SUBSET S /\ Without(T) \notin P /\ Cardinality(Without(T)) = m - 1
      /\ m \in Nat /\ m # 0
  BY <1>3, <1>4, WithoutIsSmaller, ChosenIsIn
<1>6. m - 1 \in Bad
  BY <1>5
<1> HIDE DEF Bad
<1> QED BY <1>2, <1>5, <1>6

LEMMA SumExists ==
  ASSUME NEW S, IsFiniteSet(S), NEW f \in [S -> Int]
  PROVE  \E it : AddsUp(it, f, S)
<1> DEFINE Q == [SUBSET S -> Int]
           Base == [T \in SUBSET S |-> 0]
           Up(h) == [T \in SUBSET S |-> IF T = {} THEN 0 ELSE f[Chosen(T)] + h[Without(T)]]
           g == [n \in Nat |-> [h \in Q |-> Up(h)]]
<1>1. Base \in Q
  OBVIOUS
<1>2. ASSUME NEW h \in Q PROVE Up(h) \in Q
  <2>1. ASSUME NEW T \in SUBSET S, T # {} PROVE f[Chosen(T)] + h[Without(T)] \in Int
    BY <2>1, ChosenIsIn
  <2> QED BY <2>1
<1>3. StepsWithin(g, Q)
  <2> HIDE DEF Q, Up
  <2> QED BY <1>2 DEF StepsWithin
<1>4. PICK L : Unrolls(L, Base, g, Q)
  <2> HIDE DEF Q, Base, g
  <2> QED BY <1>1, <1>3, Recursion
<1>5. \A n \in Nat : L[n] \in Q /\ L[n + 1] = Up(L[n])
  <2> HIDE DEF Up, Q
  <2> QED BY <1>4 DEF Unrolls
<1> DEFINE it == [T \in SUBSET S |-> L[Cardinality(T)][T]]
<1>6. ASSUME NEW T \in SUBSET S
      PROVE  it[T] = IF T = {} THEN 0 ELSE f[Chosen(T)] + it[Without(T)]
  <2>1. CASE T = {}
    <3>1. Cardinality(T) = 0
      BY <2>1, FS_EmptySet
    <3>2. L[0] = Base
      BY <1>4 DEF Unrolls
    <3> QED BY <2>1, <3>1, <3>2
  <2>2. CASE T # {}
    <3>1. /\ Cardinality(T) \in Nat /\ Cardinality(T) # 0 /\ Cardinality(Without(T)) = Cardinality(T) - 1
          /\ Without(T) \in SUBSET S
      BY <2>2, WithoutIsSmaller, ChosenIsIn
    <3> DEFINE c == Cardinality(T) - 1
    <3>2. c \in Nat /\ c + 1 = Cardinality(T)
      BY <3>1
    <3>3. L[Cardinality(T)] = Up(L[c])
      BY <1>5, <3>2
    <3>4. L[Cardinality(T)][T] = f[Chosen(T)] + L[c][Without(T)]
      BY <2>2, <3>3
    <3> QED BY <2>2, <3>1, <3>4
  <2> QED BY <2>1, <2>2
<1>7. AddsUp(it, f, S)
  <2> DEFINE jt == [T \in SUBSET S |-> IF T = {} THEN 0 ELSE f[Chosen(T)] + it[Without(T)]]
  <2>1. \A T \in SUBSET S : it[T] = jt[T]
    BY <1>6
  <2> QED BY <2>1 DEF AddsUp
<1> QED BY <1>7

LEMMA SumsStep ==
  ASSUME NEW S, NEW f, NEW it, AddsUp(it, f, S)
  PROVE  /\ it[{}] = 0
         /\ \A T \in SUBSET S : T # {} => it[T] = f[Chosen(T)] + it[Without(T)]
<1>1. \A T \in SUBSET S : it[T] = IF T = {} THEN 0 ELSE f[Chosen(T)] + it[Without(T)]
  BY DEF AddsUp
<1>2. {} \in SUBSET S
  OBVIOUS
<1> QED BY <1>1, <1>2

LEMMA SetSumIsInt ==
  ASSUME NEW S, IsFiniteSet(S), NEW f \in [S -> Int], NEW it, AddsUp(it, f, S)
  PROVE  \A T \in SUBSET S : it[T] \in Int
<1> DEFINE P == {T \in SUBSET S : it[T] \in Int}
<1>1. {} \in P
  BY SumsStep
<1>2. ASSUME NEW T \in SUBSET S, T # {}, Without(T) \in P PROVE T \in P
  <2>1. f[Chosen(T)] \in Int
    BY <1>2, ChosenIsIn
  <2> QED BY <1>2, <2>1, SumsStep
<1> HIDE DEF P
<1>3. \A T \in SUBSET S : T \in P
  BY <1>1, <1>2, ByRemoval
<1> QED BY <1>3 DEF P

(* One summand moves by d, and the sum with it.                            *)
MovesAt(f, g, S, s, d) == /\ s \in S /\ d \in Int /\ g[s] = f[s] + d
                          /\ \A t \in S : t # s => g[t] = f[t]

LEMMA SumMoves ==
  ASSUME NEW S, NEW f, NEW g, NEW s, NEW d, NEW n, NEW m,
         MovesAt(f, g, S, s, d), SumIs(n, f, S), SumIs(m, g, S)
  PROVE  n \in Int /\ m = n + d
<1> USE DEF MovesAt
<1>0. IsFiniteSet(S) /\ f \in [S -> Int] /\ g \in [S -> Int] /\ s \in S /\ d \in Int
  BY DEF SumIs
<1>1. PICK it : AddsUp(it, f, S) /\ n = it[S]
  BY DEF SumIs
<1>2. PICK jt : AddsUp(jt, g, S) /\ m = jt[S]
  BY DEF SumIs
<1>3. \A T \in SUBSET S : it[T] \in Int /\ jt[T] \in Int
  BY <1>0, <1>1, <1>2, SetSumIsInt
<1> DEFINE P == {T \in SUBSET S : jt[T] = it[T] + IF s \in T THEN d ELSE 0}
<1>4. {} \in P
  <2>1. it[{}] = 0 /\ jt[{}] = 0
    BY <1>1, <1>2, SumsStep
  <2> QED BY <2>1
<1>5. ASSUME NEW T \in SUBSET S, T # {}, Without(T) \in P PROVE T \in P
  <2>1. it[T] = f[Chosen(T)] + it[Without(T)] /\ jt[T] = g[Chosen(T)] + jt[Without(T)]
    BY <1>1, <1>2, <1>5, SumsStep
  <2>2. /\ Chosen(T) \in T /\ Chosen(T) \in S /\ Without(T) \in SUBSET S
    BY <1>5, ChosenIsIn
  <2>3. f[Chosen(T)] \in Int /\ g[Chosen(T)] \in Int /\ it[Without(T)] \in Int /\ jt[Without(T)] \in Int
    BY <1>0, <1>3, <2>2
  <2>4. jt[Without(T)] = it[Without(T)] + IF s \in Without(T) THEN d ELSE 0
    BY <1>5
  <2>5. CASE s = Chosen(T)
    <3>1. s \notin Without(T) /\ s \in T /\ g[Chosen(T)] = f[Chosen(T)] + d
      BY <2>2, <2>5 DEF Without
    <3>2. jt[T] = it[T] + d
      BY <1>0, <2>1, <2>3, <2>4, <3>1
    <3> QED BY <3>1, <3>2
  <2>6. CASE s # Chosen(T)
    <3>1. (s \in Without(T) <=> s \in T) /\ g[Chosen(T)] = f[Chosen(T)]
      BY <2>2, <2>6 DEF Without
    <3>2. CASE s \in T
      BY <1>0, <2>1, <2>3, <2>4, <3>1, <3>2
    <3>3. CASE s \notin T
      BY <1>0, <2>1, <2>3, <2>4, <3>1, <3>3
    <3> QED BY <3>2, <3>3
  <2> QED BY <2>5, <2>6
<1> HIDE DEF P
<1>6. \A T \in SUBSET S : T \in P
  BY <1>0, <1>4, <1>5, ByRemoval
<1>7. S \in P
  BY <1>6
<1> QED BY <1>0, <1>1, <1>2, <1>3, <1>7 DEF P

(* Summands that do not grow make a sum that does not.                     *)
LEMMA SumShrinks ==
  ASSUME NEW S, NEW f, NEW g, NEW n, NEW m, SumIs(n, f, S), SumIs(m, g, S),
         \A t \in S : g[t] <= f[t]
  PROVE  n \in Int /\ m \in Int /\ m <= n
<1>0. IsFiniteSet(S) /\ f \in [S -> Int] /\ g \in [S -> Int]
  BY DEF SumIs
<1>1. PICK it : AddsUp(it, f, S) /\ n = it[S]
  BY DEF SumIs
<1>2. PICK jt : AddsUp(jt, g, S) /\ m = jt[S]
  BY DEF SumIs
<1>3. \A T \in SUBSET S : it[T] \in Int /\ jt[T] \in Int
  BY <1>0, <1>1, <1>2, SetSumIsInt
<1> DEFINE P == {T \in SUBSET S : jt[T] <= it[T]}
<1>4. {} \in P
  <2>1. it[{}] = 0 /\ jt[{}] = 0
    BY <1>1, <1>2, SumsStep
  <2> QED BY <2>1
<1>5. ASSUME NEW T \in SUBSET S, T # {}, Without(T) \in P PROVE T \in P
  <2>1. it[T] = f[Chosen(T)] + it[Without(T)] /\ jt[T] = g[Chosen(T)] + jt[Without(T)]
    BY <1>1, <1>2, <1>5, SumsStep
  <2>2. Chosen(T) \in S /\ Without(T) \in SUBSET S
    BY <1>5, ChosenIsIn
  <2>3. f[Chosen(T)] \in Int /\ g[Chosen(T)] \in Int /\ it[Without(T)] \in Int /\ jt[Without(T)] \in Int
    BY <1>0, <1>3, <2>2
  <2>4. g[Chosen(T)] <= f[Chosen(T)] /\ jt[Without(T)] <= it[Without(T)]
    BY <1>5, <2>2
  <2>5. jt[T] <= it[T]
    BY <2>1, <2>3, <2>4
  <2> QED BY <2>5
<1> HIDE DEF P
<1>6. \A T \in SUBSET S : T \in P
  BY <1>0, <1>4, <1>5, ByRemoval
<1>7. S \in P
  BY <1>6
<1> QED BY <1>0, <1>1, <1>2, <1>3, <1>7 DEF P

LEMMA SumOfZeros ==
  ASSUME NEW S, NEW f, NEW n, SumIs(n, f, S), \A t \in S : f[t] = 0
  PROVE  n = 0
<1>0. IsFiniteSet(S) /\ f \in [S -> Int]
  BY DEF SumIs
<1>1. PICK it : AddsUp(it, f, S) /\ n = it[S]
  BY DEF SumIs
<1> DEFINE P == {T \in SUBSET S : it[T] = 0}
<1>2. {} \in P
  BY <1>1, SumsStep
<1>3. ASSUME NEW T \in SUBSET S, T # {}, Without(T) \in P PROVE T \in P
  <2>1. it[T] = f[Chosen(T)] + it[Without(T)]
    BY <1>1, <1>3, SumsStep
  <2>2. f[Chosen(T)] = 0 /\ it[Without(T)] = 0
    BY <1>3, ChosenIsIn
  <2> QED BY <2>1, <2>2
<1> HIDE DEF P
<1>4. \A T \in SUBSET S : T \in P
  BY <1>0, <1>2, <1>3, ByRemoval
<1>5. S \in P
  BY <1>4
<1> QED BY <1>1, <1>5 DEF P

(* The two sums of the book, over the strategies and over all positions.   *)
NetSum(st, x) == MapThenSumSet(LAMBDA s : st[s].positions[x].net_qty, Strategies)
ExposureSum(st) ==
    MapThenSumSet(LAMBDA sx : abs64(st[sx[1]].positions[sx[2]].net_qty) * Mark[sx[2]],
                  Strategies \X Symbols)
NetOf(st, x) == [s \in Strategies |-> st[s].positions[x].net_qty]
ExposureOf(st) ==
    [sx \in Strategies \X Symbols |-> abs64(st[sx[1]].positions[sx[2]].net_qty) * Mark[sx[2]]]

LEMMA NetSumIs ==
  ASSUME NEW st, NEW x, NetOf(st, x) \in [Strategies -> Int]
  PROVE  SumIs(NetSum(st, x), NetOf(st, x), Strategies)
<1> DEFINE F(it) == it = [T \in SUBSET Strategies |->
                            IF T = {} THEN 0
                            ELSE st[Chosen(T)].positions[x].net_qty + it[Without(T)]]
<1>1. NetSum(st, x) = (CHOOSE it : F(it))[Strategies]
  BY DEF NetSum, MapThenSumSet, MapThenFoldSet, Chosen, Without
<1>2. ASSUME NEW it PROVE F(it) <=> AddsUp(it, NetOf(st, x), Strategies)
  <2>1. \A T \in SUBSET Strategies : T # {} => NetOf(st, x)[Chosen(T)] = st[Chosen(T)].positions[x].net_qty
    BY ChosenIsIn DEF NetOf
  <2> QED BY <2>1 DEF AddsUp
<1>3. \E it : AddsUp(it, NetOf(st, x), Strategies)
  BY BookAssumption, SumExists
<1> HIDE DEF F
<1>4. F(CHOOSE it : F(it))
  BY <1>2, <1>3
<1> QED BY <1>1, <1>2, <1>4, BookAssumption DEF SumIs

LEMMA ExposureSumIs ==
  ASSUME NEW st, ExposureOf(st) \in [Strategies \X Symbols -> Int]
  PROVE  SumIs(ExposureSum(st), ExposureOf(st), Strategies \X Symbols)
<1> DEFINE S == Strategies \X Symbols
           V(sx) == abs64(st[sx[1]].positions[sx[2]].net_qty) * Mark[sx[2]]
           F(it) == it = [T \in SUBSET S |-> IF T = {} THEN 0 ELSE V(Chosen(T)) + it[Without(T)]]
<1>0. IsFiniteSet(S)
  BY BookAssumption, FS_Product
<1>1. ExposureSum(st) = (CHOOSE it : F(it))[S]
  BY DEF ExposureSum, MapThenSumSet, MapThenFoldSet, Chosen, Without
<1>2. ASSUME NEW it PROVE F(it) <=> AddsUp(it, ExposureOf(st), S)
  <2>1. \A T \in SUBSET S : T # {} => ExposureOf(st)[Chosen(T)] = V(Chosen(T))
    BY ChosenIsIn DEF ExposureOf
  <2> HIDE DEF S, V
  <2> QED BY <2>1 DEF AddsUp
<1>3. \E it : AddsUp(it, ExposureOf(st), S)
  BY <1>0, SumExists
<1> HIDE DEF F, S
<1>4. F(CHOOSE it : F(it))
  BY <1>2, <1>3
<1> QED BY <1>0, <1>1, <1>2, <1>4 DEF SumIs, S

(* One position.  Its worth is what it realised less what it carries at    *)
(* cost; a fill moves the worth by the money that is paid, up to the       *)
(* remainder of the blend.                                                 *)
PositionRecs == [net_qty : Int, avg_cost : Nat, realized_pnl : Int]
Worth(pos) == pos.realized_pnl - pos.net_qty * pos.avg_cost
FlatIsFree(pos) == pos.net_qty = 0 => pos.avg_cost = 0
Rounding(n, f) == IF (n > 0) = (f > 0) /\ n # 0 THEN abs64(n + f) - 1 ELSE 0

LEMMA PositionFields ==
  ASSUME NEW pos \in PositionRecs
  PROVE  /\ pos = [net_qty |-> pos.net_qty, avg_cost |-> pos.avg_cost, realized_pnl |-> pos.realized_pnl]
         /\ pos.net_qty \in Int /\ pos.avg_cost \in Nat /\ pos.realized_pnl \in Int
BY DEF PositionRecs

LEMMA AbsIs ==
  ASSUME NEW n \in Int
  PROVE  /\ abs64(n) \in Nat /\ (n > 0 => abs64(n) = n) /\ (n < 0 => abs64(n) = -n) /\ (n = 0 => abs64(n) = 0)
BY DEF abs64

LEMMA Distributes == ASSUME NEW a \in Int, NEW b \in Int, NEW c \in Int PROVE (a + b) * c = a * c + b * c
OBVIOUS

LEMMA Associates == ASSUME NEW a \in Int, NEW b \in Int, NEW c \in Int PROVE a * b * c = a * (b * c)
OBVIOUS

(* The blend of two lots is their cost, less a remainder of the division.  *)
Blended(n, avg, f, price, bl) ==
    \E r \in Int : /\ (n + f) * bl = n * avg + f * price + r
                   /\ -Rounding(n, f) <= r /\ r <= Rounding(n, f)

LEMMA BlendIs ==
  ASSUME NEW n \in Int, NEW f \in Int, NEW avg \in Nat, NEW price \in Nat, f # 0,
         n = 0 \/ (n > 0) = (f > 0), n = 0 => avg = 0
  PROVE  /\ Blend(n, avg, f, price) \in Nat /\ n + f # 0
         /\ Blended(n, avg, f, price, Blend(n, avg, f, price))
<1> USE DEF Blended
<1> DEFINE a == abs64(n) * avg + abs64(f) * price
           b == abs64(n) + abs64(f)
           q == a \div b
           rem == a % b
<1>1. abs64(n) \in Nat /\ abs64(f) \in Nat /\ abs64(f) > 0
  BY AbsIs
<1>2. abs64(n) * avg \in Nat /\ abs64(f) * price \in Nat
  BY <1>1
<1>3. a \in Nat /\ b \in Int /\ b > 0
  BY <1>1, <1>2
<1>4. Blend(n, avg, f, price) = q
  BY DEF Blend
<1> HIDE DEF a, b
<1>5. q \in Int /\ rem \in Int /\ 0 <= rem /\ rem < b /\ a = b * q + rem
  BY <1>3, DivMod
<1>6. q \in Nat
  BY <1>3
<1> HIDE DEF q, rem
<1>7. n * avg \in Int /\ f * price \in Int /\ (n + f) * q \in Int /\ b * q \in Int
  BY <1>3, <1>5
<1>8. CASE n = 0
  <2>1. a = b * price /\ n * avg = 0 /\ f * price = (n + f) * price
    BY <1>1, <1>8, AbsIs DEF a, b
  <2>2. q = price
    <3>1. a \div b = price
      BY <1>3, <2>1
    <3> QED BY <3>1 DEF q
  <2>3. (n + f) * q = n * avg + f * price + 0
    BY <1>7, <2>1, <2>2
  <2>4. Rounding(n, f) = 0
    BY <1>8 DEF Rounding
  <2> QED BY <1>4, <1>6, <1>8, <2>3, <2>4
<1>9. CASE n > 0 /\ f > 0
  <2>1. a = n * avg + f * price /\ b = n + f
    BY <1>9, AbsIs DEF a, b
  <2>2. (n + f) * q = n * avg + f * price + (-rem)
    BY <1>5, <1>7, <2>1
  <2>3. Rounding(n, f) = b - 1
    BY <1>9, <2>1, AbsIs DEF Rounding
  <2>4. -rem \in Int /\ -(b - 1) <= -rem /\ -rem <= b - 1
    BY <1>3, <1>5
  <2> QED BY <1>4, <1>6, <1>9, <2>2, <2>3, <2>4
<1>10. CASE n < 0 /\ f < 0
  <2>1. abs64(n) = -n /\ abs64(f) = -f /\ abs64(n + f) = -(n + f)
    BY <1>10, AbsIs
  <2>2. (-n) * avg = -(n * avg) /\ (-f) * price = -(f * price) /\ (-(n + f)) * q = -((n + f) * q)
    BY <1>5
  <2>3. a = -(n * avg) + -(f * price) /\ b = -(n + f)
    BY <1>10, <2>1, <2>2 DEF a, b
  <2>4. -((n + f) * q) + rem = -(n * avg) + -(f * price)
    BY <1>5, <2>2, <2>3
  <2>5. (n + f) * q = n * avg + f * price + rem
    BY <1>5, <1>7, <2>4
  <2>6. Rounding(n, f) = b - 1
    BY <1>10, <2>1, <2>3 DEF Rounding
  <2>7. rem \in Int /\ -(b - 1) <= rem /\ rem <= b - 1
    BY <1>3, <1>5
  <2> QED BY <1>4, <1>6, <1>10, <2>5, <2>6, <2>7
<1> QED BY <1>8, <1>9, <1>10

Fills(pos, f, price, q) ==
    /\ q \in PositionRecs /\ q.net_qty = pos.net_qty + f /\ FlatIsFree(q)
    /\ \E r \in Int : /\ Worth(q) = Worth(pos) - f * price + r
                      /\ -Rounding(pos.net_qty, f) <= r /\ r <= Rounding(pos.net_qty, f)

LEMMA FillConserves ==
  ASSUME NEW pos \in PositionRecs, NEW f \in Int, NEW price \in Nat, FlatIsFree(pos)
  PROVE  Fills(pos, f, price, apply_fill(pos, f, price))
<1> DEFINE n == pos.net_qty
           avg == pos.avg_cost
           R == pos.realized_pnl
           q == apply_fill(pos, f, price)
<1>1. n \in Int /\ avg \in Nat /\ R \in Int /\ (n = 0 => avg = 0)
  BY PositionFields DEF FlatIsFree
<1>2. n * avg \in Int /\ f * price \in Int /\ n * price \in Int /\ f * avg \in Int
  BY <1>1
<1>3. CASE f = 0
  <2>1. q = pos /\ f * price = 0
    BY <1>3 DEF apply_fill
  <2>2. Rounding(n, f) >= 0
    BY <1>1, <1>3, AbsIs DEF Rounding
  <2>3. Worth(q) = Worth(pos) - f * price + 0
    BY <1>1, <1>2, <2>1 DEF Worth
  <2>4. q.net_qty = pos.net_qty + f
    BY <1>1, <1>3, <2>1
  <2>5. Rounding(n, f) \in Int
    BY <1>1, <1>3, AbsIs DEF Rounding
  <2> QED BY <2>1, <2>2, <2>3, <2>4, <2>5 DEF Fills
<1>4. CASE f # 0 /\ (n = 0 \/ (n > 0) = (f > 0))
  <2> DEFINE bl == Blend(n, avg, f, price)
  <2>1. bl \in Nat /\ n + f # 0 /\ Blended(n, avg, f, price, bl)
    <3> HIDE DEF n, avg
    <3> QED BY <1>1, <1>4, BlendIs
  <2>2. q = [net_qty |-> n + f, avg_cost |-> bl, realized_pnl |-> R]
    <3>1. q = [pos EXCEPT !.net_qty = n + f, !.avg_cost = bl]
      BY <1>4 DEF apply_fill
    <3> DEFINE m == n + f
    <3>2. q = [pos EXCEPT !.net_qty = m, !.avg_cost = bl]
      BY <3>1
    <3> HIDE DEF q, bl, m
    <3>3. q = [net_qty |-> m, avg_cost |-> bl, realized_pnl |-> R]
      BY <3>2 DEF PositionRecs
    <3> QED BY <3>3 DEF m
  <2> HIDE DEF n, avg, R, bl, q
  <2>3. q \in PositionRecs /\ q.net_qty = n + f /\ q.avg_cost = bl /\ q.realized_pnl = R
    BY <1>1, <2>1, <2>2 DEF PositionRecs
  <2>4. PICK r \in Int : /\ (n + f) * bl = n * avg + f * price + r
                         /\ -Rounding(n, f) <= r /\ r <= Rounding(n, f)
    BY <2>1 DEF Blended
  <2>5. Worth(q) = Worth(pos) - f * price + (-r)
    <3>1. Worth(q) = R - (n + f) * bl /\ Worth(pos) = R - n * avg
      BY <2>3 DEF Worth, n, avg, R
    <3> QED BY <1>1, <1>2, <2>4, <3>1
  <2>6. Rounding(n, f) \in Int
    BY <1>1, <1>4, AbsIs DEF Rounding
  <2>7. -r \in Int /\ -Rounding(n, f) <= -r /\ -r <= Rounding(n, f)
    BY <2>4, <2>6
  <2> QED BY <2>1, <2>3, <2>5, <2>7 DEF Fills, FlatIsFree, n, q
<1>5. CASE f # 0 /\ n # 0 /\ (n > 0) # (f > 0)
  <2> DEFINE closed == Smaller(abs64(f), abs64(n))
             sign == IF n > 0 THEN 1 ELSE -1
             avg2 == IF n + f = 0 THEN 0 ELSE IF abs64(f) > abs64(n) THEN price ELSE avg
             R2 == R + (price - avg) * closed * sign
  <2>1. q = [net_qty |-> n + f, realized_pnl |-> R2, avg_cost |-> avg2]
    BY <1>5 DEF apply_fill
  <2>2. closed \in Int /\ sign \in Int /\ avg2 \in Nat
    BY <1>1, AbsIs DEF Smaller
  <2>3. Rounding(n, f) = 0
    BY <1>5 DEF Rounding
  <2>4. \/ abs64(f) <= abs64(n) /\ closed * sign = -f
        \/ abs64(f) > abs64(n) /\ closed * sign = n /\ n + f # 0
    <3>1. n > 0 \/ n < 0
      BY <1>1, <1>5
    <3> QED BY <1>1, <1>5, <3>1, AbsIs DEF Smaller
  <2>5. (price - avg) * closed * sign = (price - avg) * (closed * sign)
    <3>1. price - avg \in Int
      BY <1>1
    <3> HIDE DEF avg, closed, sign
    <3> QED BY <2>2, <3>1, Associates
  <2> HIDE DEF closed, sign
  <2>6. R2 - (n + f) * avg2 = R - n * avg - f * price
    <3>1. CASE abs64(f) <= abs64(n) /\ closed * sign = -f
      <4>1. (price - avg) * (-f) = f * avg - f * price
        BY <1>1
      <4>2. (n + f) * avg2 = n * avg + f * avg
        <5>1. CASE n + f = 0
          <6>1. (n + f) * avg2 = 0 /\ (n + f) * avg = 0
            BY <2>2, <1>1, <5>1
          <6>2. (n + f) * avg = n * avg + f * avg
            BY <1>1
          <6> QED BY <6>1, <6>2
        <5>2. CASE n + f # 0
          <6>1. avg2 = avg
            BY <1>1, <3>1, <5>2, AbsIs
          <6> HIDE DEF n, avg, avg2
          <6> QED BY <1>1, <6>1, Distributes
        <5> QED BY <5>1, <5>2
      <4>3. R2 = R + (f * avg - f * price)
        BY <2>5, <3>1, <4>1
      <4> HIDE DEF R2, avg2
      <4> QED BY <1>1, <1>2, <4>2, <4>3
    <3>2. CASE abs64(f) > abs64(n) /\ closed * sign = n /\ n + f # 0
      <4>1. (price - avg) * n = n * price - n * avg
        BY <1>1
      <4>2. avg2 = price
        BY <3>2
      <4>3. (n + f) * avg2 = n * price + f * price
        <5> HIDE DEF n, avg2
        <5> QED BY <1>1, <4>2, Distributes
      <4>4. R2 = R + (n * price - n * avg)
        BY <2>5, <3>2, <4>1
      <4> HIDE DEF R2, avg2
      <4> QED BY <1>1, <1>2, <4>3, <4>4
    <3> QED BY <2>4, <3>1, <3>2
  <2>7. R2 \in Int
    BY <1>1, <2>2
  <2>8. n + f = 0 => avg2 = 0
    OBVIOUS
  <2> HIDE DEF n, avg, R, R2, avg2, q
  <2>9. q \in PositionRecs /\ q.net_qty = n + f /\ q.avg_cost = avg2 /\ q.realized_pnl = R2
    BY <1>1, <2>1, <2>2, <2>7 DEF PositionRecs
  <2>10. Worth(q) = Worth(pos) - f * price + 0
    <3>1. Worth(q) = R2 - (n + f) * avg2 /\ Worth(pos) = R - n * avg
      BY <2>9 DEF Worth, n, avg, R
    <3> QED BY <1>1, <1>2, <2>6, <3>1
  <2> QED BY <2>3, <2>8, <2>9, <2>10 DEF Fills, FlatIsFree, n, q
<1> QED BY <1>1, <1>3, <1>4, <1>5

(* The books of all strategies, and how their sums move.                   *)
StrategyRecs == [positions : [Symbols -> PositionRecs], active : BOOLEAN]
Books == [Strategies -> StrategyRecs]

LEMMA BookFields ==
  ASSUME NEW st \in Books, NEW s \in Strategies
  PROVE  /\ st[s] = [positions |-> st[s].positions, active |-> st[s].active]
         /\ st[s].positions \in [Symbols -> PositionRecs] /\ st[s].active \in BOOLEAN
         /\ \A x \in Symbols : st[s].positions[x] \in PositionRecs /\ st[s].positions[x].net_qty \in Int
BY DEF Books, StrategyRecs, PositionRecs

LEMMA BookSums ==
  ASSUME NEW st \in Books
  PROVE  /\ \A x \in Symbols : SumIs(NetSum(st, x), NetOf(st, x), Strategies)
         /\ SumIs(ExposureSum(st), ExposureOf(st), Strategies \X Symbols)
<1>1. ASSUME NEW x \in Symbols PROVE NetOf(st, x) \in [Strategies -> Int]
  BY BookFields DEF NetOf
<1>2. ASSUME NEW s \in Strategies, NEW x \in Symbols
      PROVE  abs64(st[s].positions[x].net_qty) * Mark[x] \in Int
  <2>1. abs64(st[s].positions[x].net_qty) \in Nat /\ Mark[x] \in Nat
    BY BookFields, AbsIs, BookAssumption
  <2> QED BY <2>1
<1>3. ExposureOf(st) \in [Strategies \X Symbols -> Int]
  BY <1>2 DEF ExposureOf
<1> QED BY <1>1, <1>3, NetSumIs, ExposureSumIs

LEMMA SameSum ==
  ASSUME NEW S, NEW f, NEW n, NEW m, SumIs(n, f, S), SumIs(m, f, S)
  PROVE  n = m
<1>1. \A t \in S : f[t] <= f[t]
  BY DEF SumIs
<1>2. n \in Int /\ m \in Int /\ m <= n /\ n <= m
  BY <1>1, SumShrinks
<1> QED BY <1>2

LEMMA SamePositions ==
  ASSUME NEW st \in Books, NEW st2 \in Books,
         \A s \in Strategies : st2[s].positions = st[s].positions
  PROVE  ExposureSum(st2) = ExposureSum(st) /\ \A x \in Symbols : NetSum(st2, x) = NetSum(st, x)
<1>1. ExposureOf(st2) = ExposureOf(st)
  BY DEF ExposureOf
<1>2. \A x : NetOf(st2, x) = NetOf(st, x)
  BY DEF NetOf
<1> QED BY <1>1, <1>2, BookSums, SameSum

LEMMA SumIsInt == ASSUME NEW S, NEW f, NEW n, SumIs(n, f, S) PROVE n \in Int
<1>1. \A t \in S : f[t] <= f[t]
  BY DEF SumIs
<1> QED BY <1>1, SumShrinks

LEMMA BookSumsAreInts ==
  ASSUME NEW st \in Books PROVE ExposureSum(st) \in Int /\ \A x \in Symbols : NetSum(st, x) \in Int
BY BookSums, SumIsInt

(* A fill of f in one position moves the net of its symbol by f and the    *)
(* exposure by no more than f at the mark.                                 *)
OneFill(st, st2, s, x, f, q) ==
    /\ st \in Books /\ s \in Strategies /\ x \in Symbols /\ f \in Int
    /\ q \in PositionRecs /\ q.net_qty = st[s].positions[x].net_qty + f
    /\ st2 = [st EXCEPT ![s].positions[x] = q]

LEMMA FillMovesSums ==
  ASSUME NEW st, NEW st2, NEW s, NEW x, NEW f, NEW q, OneFill(st, st2, s, x, f, q)
  PROVE  /\ st2 \in Books
         /\ \A t \in Strategies, y \in Symbols :
               st2[t].positions[y] = IF t = s /\ y = x THEN q ELSE st[t].positions[y]
         /\ NetSum(st2, x) = NetSum(st, x) + f
         /\ \A y \in Symbols : y # x => NetSum(st2, y) = NetSum(st, y)
         /\ ExposureSum(st2) <= ExposureSum(st) + abs64(f) * Mark[x]
<1> USE DEF OneFill
<1>1. st2 \in Books
  <2>1. [st[s] EXCEPT !.positions[x] = q] \in StrategyRecs
    BY DEF Books, StrategyRecs
  <2>2. st2 = [st EXCEPT ![s] = [st[s] EXCEPT !.positions[x] = q]]
    OBVIOUS
  <2> QED BY <2>1, <2>2 DEF Books
<1>2. ASSUME NEW t \in Strategies, NEW y \in Symbols
      PROVE  st2[t].positions[y] = IF t = s /\ y = x THEN q ELSE st[t].positions[y]
  <2>1. CASE t = s
    <3>1. st2[s] = [st[s] EXCEPT !.positions[x] = q]
      BY DEF Books
    <3>2. st2[s].positions = [st[s].positions EXCEPT ![x] = q]
      <4>1. st[s] \in StrategyRecs
        BY DEF Books
      <4> QED BY <3>1, <4>1 DEF StrategyRecs
    <3>3. st[s].positions \in [Symbols -> PositionRecs]
      BY BookFields
    <3> QED BY <2>1, <3>2, <3>3
  <2>2. CASE t # s
    BY <2>2 DEF Books
  <2> QED BY <2>1, <2>2
<1>3. NetOf(st2, x)[s] = NetOf(st, x)[s] + f /\ \A t \in Strategies : t # s => NetOf(st2, x)[t] = NetOf(st, x)[t]
  BY <1>2 DEF NetOf
<1>4. NetSum(st2, x) = NetSum(st, x) + f
  <2> DEFINE F == NetOf(st, x)
             G == NetOf(st2, x)
  <2>1. SumIs(NetSum(st, x), F, Strategies) /\ SumIs(NetSum(st2, x), G, Strategies)
    BY <1>1, BookSums
  <2>2. MovesAt(F, G, Strategies, s, f)
    BY <1>3 DEF MovesAt
  <2> HIDE DEF F, G
  <2> QED BY <2>1, <2>2, SumMoves
<1>5. ASSUME NEW y \in Symbols, y # x PROVE NetSum(st2, y) = NetSum(st, y)
  <2>1. NetOf(st2, y) = NetOf(st, y)
    BY <1>2, <1>5 DEF NetOf
  <2> QED BY <1>1, <2>1, BookSums, SameSum
<1>6. ExposureSum(st2) <= ExposureSum(st) + abs64(f) * Mark[x]
  <2> DEFINE n == st[s].positions[x].net_qty
             d == (abs64(n + f) - abs64(n)) * Mark[x]
             sx == <<s, x>>
  <2>1. n \in Int /\ Mark[x] \in Nat /\ abs64(n) \in Nat /\ abs64(n + f) \in Nat /\ abs64(f) \in Nat
    <3>1. n \in Int /\ Mark[x] \in Nat
      BY BookFields, BookAssumption
    <3> HIDE DEF n
    <3>2. n + f \in Int
      BY <3>1
    <3> QED BY <3>1, <3>2, AbsIs
  <2>2. d \in Int /\ abs64(n + f) * Mark[x] = abs64(n) * Mark[x] + d
    <3> DEFINE u == abs64(n + f) - abs64(n)
    <3>1. u \in Int /\ abs64(n + f) = abs64(n) + u
      BY <2>1
    <3> HIDE DEF u, n
    <3>2. (abs64(n) + u) * Mark[x] = abs64(n) * Mark[x] + u * Mark[x]
      BY <2>1, <3>1, Distributes
    <3>3. u * Mark[x] \in Int
      BY <2>1, <3>1
    <3> QED BY <3>1, <3>2, <3>3 DEF u
  <2>3. abs64(n + f) - abs64(n) <= abs64(f)
    BY <2>1 DEF abs64
  <2>4. d <= abs64(f) * Mark[x]
    <3> DEFINE u == abs64(n + f) - abs64(n)
               v == abs64(f)
               m == Mark[x]
    <3>1. u \in Int /\ v \in Int /\ m \in Nat /\ u <= v
      BY <2>1, <2>3
    <3> HIDE DEF u, v, m
    <3>2. u * m <= v * m
      BY <3>1
    <3> QED BY <3>2 DEF u, v, m
  <2>5. /\ sx \in Strategies \X Symbols /\ ExposureOf(st)[sx] = abs64(n) * Mark[x]
        /\ ExposureOf(st2)[sx] = abs64(n + f) * Mark[x]
    BY <1>2 DEF ExposureOf
  <2>6. \A t \in Strategies \X Symbols : t # sx => ExposureOf(st2)[t] = ExposureOf(st)[t]
    <3> SUFFICES ASSUME NEW ty \in Strategies \X Symbols, ty # sx
                 PROVE  ExposureOf(st2)[ty] = ExposureOf(st)[ty]
      OBVIOUS
    <3>1. ty[1] \in Strategies /\ ty[2] \in Symbols /\ ~(ty[1] = s /\ ty[2] = x)
      OBVIOUS
    <3>2. st2[ty[1]].positions[ty[2]] = st[ty[1]].positions[ty[2]]
      BY <1>2, <3>1
    <3> QED BY <3>2 DEF ExposureOf
  <2> HIDE DEF d, n, sx
  <2>7. ExposureOf(st2)[sx] = ExposureOf(st)[sx] + d
    BY <2>2, <2>5
  <2>8. ExposureSum(st) \in Int /\ ExposureSum(st2) = ExposureSum(st) + d
    <3> DEFINE F == ExposureOf(st)
               G == ExposureOf(st2)
               S == Strategies \X Symbols
    <3>1. SumIs(ExposureSum(st), F, S) /\ SumIs(ExposureSum(st2), G, S)
      BY <1>1, BookSums
    <3>2. MovesAt(F, G, S, sx, d)
      BY <2>2, <2>5, <2>6, <2>7 DEF MovesAt
    <3> HIDE DEF F, G, S
    <3> QED BY <3>1, <3>2, SumMoves
  <2>9. abs64(f) * Mark[x] \in Int
    BY <2>1
  <2> QED BY <2>2, <2>4, <2>8, <2>9
<1> QED BY <1>1, <1>2, <1>4, <1>5, <1>6

-----------------------------------------------------------------------------
(* The book's invariant.  An order that was admitted alone still fits      *)
(* under the cap when it fills, and what a position realised and carries   *)
(* is what was paid, within its slack.                                     *)
BookState ==
    /\ strategies \in Books
    /\ account \in [Symbols -> Int] /\ flattening \in [Symbols -> Int]
    /\ pending \subseteq [id : Nat, s : Strategies, x : Symbols, f : Int]
    /\ cash \in [Strategies -> [Symbols -> Int]] /\ slack \in [Strategies -> [Symbols -> Int]]
    /\ overlap \in BOOLEAN /\ loose \in BOOLEAN /\ admitted \in Nat
    /\ ~loose => mark = Mark

Within(pos, c, l) == FlatIsFree(pos) /\ -l <= Worth(pos) - c /\ Worth(pos) - c <= l
PositionsAreSound ==
    \A s \in Strategies, x \in Symbols : Within(strategies[s].positions[x], cash[s][x], slack[s][x])

NetsMatch == \A x \in Symbols : NetSum(strategies, x) = account[x] + flattening[x]

RoomIsKept ==
    ~overlap /\ ~loose /\ Cap > 0 =>
        /\ ExposureSum(strategies) <= Cap
        /\ \A o, p \in pending : o = p
        /\ \A o \in pending : ExposureSum(strategies) + abs64(o.f) * Mark[o.x] <= Cap

BookInv == BookState /\ PositionsAreSound /\ NetsMatch /\ RoomIsKept

LEMMA AccountNetIs == ASSUME NEW x PROVE account_net(x) = NetSum(strategies, x)
BY DEF account_net, Net, NetSum

ExposureAt(m) ==
    MapThenSumSet(LAMBDA sx : abs64(Net(sx[1], sx[2])) * m[sx[2]], Strategies \X Symbols)

LEMMA AccountExposureIs == ASSUME mark = Mark PROVE account_exposure = ExposureSum(strategies)
<1>1. account_exposure = ExposureAt(mark)
  BY DEF account_exposure, ExposureAt
<1>2. ExposureAt(Mark) = ExposureSum(strategies)
  BY DEF ExposureAt, Net, ExposureSum
<1> HIDE DEF ExposureAt
<1> QED BY <1>1, <1>2

LEMMA BookInvMeansSound == BookInv => BookIsSound
<1> SUFFICES ASSUME BookInv PROVE BookIsSound
  OBVIOUS
<1>1. BookTypeOK
  <2>1. \A s \in Strategies : DOMAIN strategies[s].positions = Symbols
    BY BookFields DEF BookInv, BookState
  <2> QED BY <2>1 DEF BookInv, PositionsAreSound, Within, FlatIsFree, BookTypeOK
<1>2. BookMatchesAccount
  BY AccountNetIs DEF BookInv, NetsMatch, BookMatchesAccount
<1>3. PnlIsConserved
  <2> SUFFICES ASSUME NEW s \in Strategies, NEW x \in Symbols
               PROVE  abs64(strategies[s].positions[x].realized_pnl
                              - (cash[s][x] + strategies[s].positions[x].net_qty
                                                * strategies[s].positions[x].avg_cost)) <= slack[s][x]
    BY DEF PnlIsConserved
  <2> DEFINE pos == strategies[s].positions[x]
             v == pos.net_qty * pos.avg_cost
             c == cash[s][x]
             l == slack[s][x]
             R == pos.realized_pnl
  <2>1. c \in Int /\ l \in Int /\ pos \in PositionRecs
    <3>1. cash[s][x] \in Int /\ slack[s][x] \in Int /\ strategies \in Books
      BY DEF BookInv, BookState
    <3> QED BY <3>1, BookFields
  <2>2. R \in Int /\ v \in Int
    BY <2>1, PositionFields
  <2>3. -l <= R - v - c /\ R - v - c <= l
    BY DEF BookInv, PositionsAreSound, Within, Worth
  <2> HIDE DEF c, l, R, v
  <2>4. abs64(R - (c + v)) <= l
    BY <2>1, <2>2, <2>3 DEF abs64
  <2> QED BY <2>4 DEF c, l, R, v
<1>4. CapHoldsOneAtATime
  BY AccountExposureIs DEF BookInv, BookState, RoomIsKept, CapHoldsOneAtATime
<1> QED BY <1>1, <1>2, <1>3, <1>4 DEF BookIsSound

LEMMA BookInitially == BookInit => BookInv
<1> SUFFICES ASSUME BookInit PROVE BookInv
  OBVIOUS
<1>1. Flat \in PositionRecs /\ Within(Flat, 0, 0) /\ Flat.net_qty = 0
  BY DEF Flat, PositionRecs, Within, FlatIsFree, Worth
<1>2. strategies \in Books /\ \A s \in Strategies, x \in Symbols : strategies[s].positions[x] = Flat
  BY <1>1 DEF BookInit, Books, StrategyRecs
<1>3. /\ account = [x \in Symbols |-> 0] /\ flattening = [x \in Symbols |-> 0] /\ pending = {}
      /\ cash = [s \in Strategies |-> [x \in Symbols |-> 0]]
      /\ slack = [s \in Strategies |-> [x \in Symbols |-> 0]]
      /\ overlap = FALSE /\ loose = FALSE /\ mark = Mark /\ admitted = 0
  BY DEF BookInit
<1>4. PositionsAreSound
  BY <1>1, <1>2, <1>3 DEF PositionsAreSound
<1>5. ASSUME NEW x \in Symbols PROVE NetSum(strategies, x) = 0
  <2>1. \A s \in Strategies : NetOf(strategies, x)[s] = 0
    BY <1>1, <1>2 DEF NetOf
  <2> QED BY <1>2, <2>1, BookSums, SumOfZeros
<1>6. ExposureSum(strategies) = 0
  <2>1. \A sx \in Strategies \X Symbols : ExposureOf(strategies)[sx] = 0
    <3> SUFFICES ASSUME NEW sx \in Strategies \X Symbols PROVE ExposureOf(strategies)[sx] = 0
      OBVIOUS
    <3>1. strategies[sx[1]].positions[sx[2]].net_qty = 0
      BY <1>1, <1>2
    <3>2. Mark[sx[2]] \in Nat
      BY BookAssumption
    <3> QED BY <3>1, <3>2 DEF ExposureOf, abs64
  <2> QED BY <1>2, <2>1, BookSums, SumOfZeros
<1>7. NetsMatch
  BY <1>3, <1>5 DEF NetsMatch
<1>8. RoomIsKept
  <2> SUFFICES ASSUME Cap > 0 PROVE ExposureSum(strategies) <= Cap
    BY <1>3 DEF RoomIsKept
  <2> QED BY <1>6, BookAssumption
<1>9. BookState
  <2>1. /\ account \in [Symbols -> Int] /\ flattening \in [Symbols -> Int] /\ admitted \in Nat
        /\ cash \in [Strategies -> [Symbols -> Int]] /\ slack \in [Strategies -> [Symbols -> Int]]
    BY <1>3
  <2>2. overlap \in BOOLEAN /\ loose \in BOOLEAN /\ mark = Mark
    BY <1>3
  <2>3. pending \subseteq [id : Nat, s : Strategies, x : Symbols, f : Int]
    BY <1>3
  <2> QED BY <1>2, <2>1, <2>2, <2>3 DEF BookState
<1> QED BY <1>4, <1>7, <1>8, <1>9 DEF BookInv

LEMMA AdmitKeeps ==
  ASSUME NEW s \in Strategies, NEW x \in Symbols, NEW f \in OrderSizes, NEW price \in OrderPrices,
         BookInv, Admit(s, x, f, price)
  PROVE  BookInv'
<1> DEFINE o == [id |-> admitted, s |-> s, x |-> x, f |-> f]
<1>1. /\ pending' = pending \union {o} /\ admitted' = admitted + 1
      /\ overlap' = (overlap \/ pending # {}) /\ loose' = (loose \/ price < mark[x])
      /\ UNCHANGED <<strategies, account, flattening, cash, slack, mark>>
  BY DEF Admit
<1>2. ~loose' => ~loose /\ mark = Mark /\ ~(price < Mark[x])
  BY <1>1 DEF BookInv, BookState
<1>3. f \in Int /\ o.f = f /\ o.x = x
  BY BookAssumption
<1>4. o \in [id : Nat, s : Strategies, x : Symbols, f : Int]
  BY <1>3 DEF BookInv, BookState
<1> HIDE DEF o
<1>5. BookState'
  <2>1. /\ strategies' \in Books /\ account' \in [Symbols -> Int] /\ flattening' \in [Symbols -> Int]
        /\ cash' \in [Strategies -> [Symbols -> Int]] /\ slack' \in [Strategies -> [Symbols -> Int]]
    BY <1>1 DEF BookInv, BookState
  <2>2. overlap' \in BOOLEAN /\ loose' \in BOOLEAN
    BY <1>1
  <2>3. admitted' \in Nat
    BY <1>1 DEF BookInv, BookState
  <2>4. pending' \subseteq [id : Nat, s : Strategies, x : Symbols, f : Int]
    BY <1>1, <1>4 DEF BookInv, BookState
  <2> QED BY <1>1, <1>2, <2>1, <2>2, <2>3, <2>4 DEF BookState
<1>6. RoomIsKept'
  <2> SUFFICES ASSUME ~overlap', ~loose', Cap > 0
               PROVE  /\ ExposureSum(strategies) <= Cap
                      /\ \A p, q \in pending' : p = q
                      /\ \A p \in pending' : ExposureSum(strategies) + abs64(p.f) * Mark[p.x] <= Cap
    BY <1>1 DEF RoomIsKept
  <2>1. ~overlap /\ pending = {}
    BY <1>1
  <2>2. pending' = {o}
    BY <1>1, <2>1
  <2>3. Cap # 0 /\ Cap \in Int /\ price \in Nat /\ Mark[x] \in Nat
    BY BookAssumption
  <2>4. ExposureSum(strategies) + abs64(f) * price <= Cap
    BY <1>2, <2>3, AccountExposureIs DEF Admit, check_new_order
  <2>5. abs64(f) \in Nat /\ ExposureSum(strategies) \in Int
    BY <1>3, AbsIs, BookSumsAreInts DEF BookInv, BookState
  <2>6. abs64(f) * Mark[x] <= abs64(f) * price
    <3> DEFINE n == abs64(f)
               m == Mark[x]
    <3>1. n \in Nat /\ m \in Nat /\ m <= price
      BY <1>2, <2>3, <2>5
    <3> HIDE DEF n, m
    <3>2. n * m <= n * price
      BY <2>3, <3>1
    <3> QED BY <3>2 DEF n, m
  <2>7. abs64(f) * Mark[x] \in Int /\ abs64(f) * price \in Int
    BY <2>3, <2>5
  <2>8. ExposureSum(strategies) + abs64(f) * Mark[x] <= Cap
    BY <2>3, <2>4, <2>5, <2>6, <2>7
  <2> QED BY <1>2, <1>3, <2>1, <2>2, <2>8 DEF BookInv, RoomIsKept
<1> QED BY <1>1, <1>5, <1>6 DEF BookInv, PositionsAreSound, NetsMatch

(* A mark that moves ends what the cap promises and nothing else.          *)
LEMMA MarkMovesKeeps == ASSUME NEW x \in Symbols, NEW p \in Marks, BookInv, MarkMoves(x, p) PROVE BookInv'
<1>1. /\ loose' = TRUE
      /\ UNCHANGED <<strategies, account, pending, flattening, cash, slack, overlap, admitted>>
  BY DEF MarkMoves
<1>2. BookState'
  BY <1>1 DEF BookInv, BookState
<1> QED BY <1>1, <1>2 DEF BookInv, PositionsAreSound, NetsMatch, RoomIsKept

LEMMA OrderFillsKeeps ==
  ASSUME NEW o \in pending, NEW price \in FillPrices, BookInv, OrderFills(o, price)
  PROVE  BookInv'
<1> DEFINE s == o.s
           x == o.x
           f == o.f
           pos == strategies[s].positions[x]
           q == apply_fill(pos, f, price)
<1>1. /\ pending' = pending \ {o}
      /\ account' = [account EXCEPT ![x] = @ + f]
      /\ strategies' = [strategies EXCEPT ![s].positions[x] = q]
      /\ cash' = [cash EXCEPT ![s][x] = @ - f * price]
      /\ slack' = [slack EXCEPT ![s][x] = @ + Rounding(pos.net_qty, f)]
      /\ UNCHANGED <<flattening, overlap, mark, loose, admitted>>
  BY DEF OrderFills, Rounding
<1>2. s \in Strategies /\ x \in Symbols /\ f \in Int /\ price \in Nat
  BY BookAssumption DEF BookInv, BookState
<1> HIDE DEF s, x, f
<1>3. strategies \in Books /\ pos \in PositionRecs /\ pos.net_qty \in Int
  BY <1>2, BookFields DEF BookInv, BookState
<1>4. Within(pos, cash[s][x], slack[s][x])
  BY <1>2 DEF BookInv, PositionsAreSound
<1>5. Fills(pos, f, price, q)
  BY <1>2, <1>3, <1>4, FillConserves DEF Within
<1>6. q \in PositionRecs /\ q.net_qty = pos.net_qty + f
  BY <1>5 DEF Fills
<1> HIDE DEF q
<1>7. /\ strategies' \in Books
      /\ \A t \in Strategies, y \in Symbols :
            strategies'[t].positions[y] = IF t = s /\ y = x THEN q ELSE strategies[t].positions[y]
      /\ NetSum(strategies', x) = NetSum(strategies, x) + f
      /\ \A y \in Symbols : y # x => NetSum(strategies', y) = NetSum(strategies, y)
      /\ ExposureSum(strategies') <= ExposureSum(strategies) + abs64(f) * Mark[x]
  <2>1. OneFill(strategies, strategies', s, x, f, q)
    BY <1>1, <1>2, <1>3, <1>6 DEF OneFill
  <2> QED BY <2>1, FillMovesSums
<1>8. cash[s][x] \in Int /\ slack[s][x] \in Int /\ f * price \in Int /\ Rounding(pos.net_qty, f) \in Int
  <2>1. cash[s][x] \in Int /\ slack[s][x] \in Int
    BY <1>2 DEF BookInv, BookState
  <2>2. f * price \in Int /\ pos.net_qty + f \in Int
    BY <1>2, <1>3
  <2>3. Rounding(pos.net_qty, f) \in Int
    BY <2>2, AbsIs DEF Rounding
  <2> QED BY <2>1, <2>2, <2>3
<1>9. /\ cash' \in [Strategies -> [Symbols -> Int]] /\ slack' \in [Strategies -> [Symbols -> Int]]
      /\ \A t \in Strategies, y \in Symbols :
            /\ cash'[t][y] = IF t = s /\ y = x THEN cash[s][x] - f * price ELSE cash[t][y]
            /\ slack'[t][y] = IF t = s /\ y = x THEN slack[s][x] + Rounding(pos.net_qty, f) ELSE slack[t][y]
  <2> DEFINE c == cash[s][x] - f * price
             l == slack[s][x] + Rounding(pos.net_qty, f)
  <2>1. c \in Int /\ l \in Int
    BY <1>8
  <2>2. cash' = [cash EXCEPT ![s][x] = c] /\ slack' = [slack EXCEPT ![s][x] = l]
    BY <1>1
  <2> HIDE DEF c, l
  <2>3. /\ cash' \in [Strategies -> [Symbols -> Int]] /\ slack' \in [Strategies -> [Symbols -> Int]]
        /\ \A t \in Strategies, y \in Symbols :
              /\ cash'[t][y] = IF t = s /\ y = x THEN c ELSE cash[t][y]
              /\ slack'[t][y] = IF t = s /\ y = x THEN l ELSE slack[t][y]
    BY <1>2, <2>1, <2>2 DEF BookInv, BookState
  <2> QED BY <2>3 DEF c, l
<1>10. account' \in [Symbols -> Int] /\ \A y \in Symbols : account'[y] = IF y = x THEN account[x] + f ELSE account[y]
  BY <1>1, <1>2 DEF BookInv, BookState
<1>11. BookState'
  BY <1>1, <1>7, <1>9, <1>10 DEF BookInv, BookState
<1>12. Within(q, cash[s][x] - f * price, slack[s][x] + Rounding(pos.net_qty, f))
  <2> DEFINE c == cash[s][x]
             l == slack[s][x]
             w == Worth(pos)
             v == f * price
             k == Rounding(pos.net_qty, f)
  <2>1. PICK r \in Int : Worth(q) = w - v + r /\ -k <= r /\ r <= k
    BY <1>5 DEF Fills
  <2>2. w \in Int
    BY <1>3, PositionFields DEF Worth
  <2>3. -l <= w - c /\ w - c <= l
    BY <1>4 DEF Within
  <2>4. c \in Int /\ l \in Int /\ v \in Int /\ k \in Int
    BY <1>8
  <2>5. FlatIsFree(q)
    BY <1>5 DEF Fills
  <2> HIDE DEF c, l, w, v, k
  <2>6. -(l + k) <= Worth(q) - (c - v) /\ Worth(q) - (c - v) <= l + k
    BY <2>1, <2>2, <2>3, <2>4
  <2> QED BY <2>5, <2>6 DEF Within, c, l, v, k
<1>13. PositionsAreSound'
  <2> SUFFICES ASSUME NEW t \in Strategies, NEW y \in Symbols
               PROVE  Within(strategies'[t].positions[y], cash'[t][y], slack'[t][y])
    BY DEF PositionsAreSound
  <2>1. CASE t = s /\ y = x
    BY <1>7, <1>9, <1>12, <2>1
  <2>2. CASE ~(t = s /\ y = x)
    BY <1>7, <1>9, <2>2 DEF BookInv, PositionsAreSound
  <2> QED BY <2>1, <2>2
<1>14. NetsMatch'
  <2> SUFFICES ASSUME NEW y \in Symbols PROVE NetSum(strategies', y) = account'[y] + flattening[y]
    BY <1>1 DEF NetsMatch
  <2>1. NetSum(strategies, y) = account[y] + flattening[y] /\ account[y] \in Int /\ flattening[y] \in Int
    BY DEF BookInv, NetsMatch, BookState
  <2>2. CASE y = x
    BY <1>2, <1>7, <1>10, <2>1, <2>2
  <2>3. CASE y # x
    BY <1>7, <1>10, <2>1, <2>3
  <2> QED BY <2>2, <2>3
<1>15. RoomIsKept'
  <2> SUFFICES ASSUME ~overlap, ~loose, Cap > 0
               PROVE  ExposureSum(strategies') <= Cap /\ pending' = {}
    BY <1>1 DEF RoomIsKept
  <2>1. /\ \A p \in pending : p = o
        /\ ExposureSum(strategies) + abs64(f) * Mark[x] <= Cap
    BY DEF BookInv, RoomIsKept, f, x
  <2>2. pending' = {}
    BY <1>1, <2>1
  <2>3. ExposureSum(strategies) \in Int /\ ExposureSum(strategies') \in Int /\ abs64(f) * Mark[x] \in Int
    BY <1>2, <1>3, <1>7, BookSumsAreInts, AbsIs, BookAssumption
  <2>4. Cap \in Int
    BY BookAssumption
  <2> QED BY <1>7, <2>1, <2>2, <2>3, <2>4
<1> QED BY <1>11, <1>13, <1>14, <1>15 DEF BookInv

LEMMA OrderLapsesKeeps == ASSUME NEW o \in pending, BookInv, OrderLapses(o) PROVE BookInv'
<1>1. /\ pending' = pending \ {o}
      /\ UNCHANGED <<strategies, account, flattening, cash, slack, overlap, mark, loose, admitted>>
  BY DEF OrderLapses
<1>2. BookState' /\ RoomIsKept'
  BY <1>1 DEF BookInv, BookState, RoomIsKept
<1> QED BY <1>1, <1>2 DEF BookInv, PositionsAreSound, NetsMatch

LEMMA FlattenFillsKeeps == ASSUME NEW x \in Symbols, BookInv, FlattenFills(x) PROVE BookInv'
<1>1. /\ account' = [account EXCEPT ![x] = @ + flattening[x]]
      /\ flattening' = [flattening EXCEPT ![x] = 0]
      /\ UNCHANGED <<strategies, pending, cash, slack, overlap, mark, loose, admitted>>
  BY DEF FlattenFills
<1>2. BookState'
  BY <1>1 DEF BookInv, BookState
<1>3. NetsMatch'
  BY <1>1 DEF BookInv, BookState, NetsMatch
<1> QED BY <1>1, <1>2, <1>3 DEF BookInv, PositionsAreSound, RoomIsKept

(* stop_strategy and resume_strategy touch no position.                    *)
LEMMA ActivityKeeps ==
  ASSUME NEW s \in Strategies, NEW on \in BOOLEAN, BookInv,
         strategies' = [strategies EXCEPT ![s].active = on],
         UNCHANGED <<account, pending, flattening, cash, slack, overlap, mark, loose, admitted>>
  PROVE  BookInv'
<1>1. strategies \in Books
  BY DEF BookInv, BookState
<1>2. strategies' \in Books /\ \A t \in Strategies : strategies'[t].positions = strategies[t].positions
  BY <1>1 DEF Books, StrategyRecs
<1>3. /\ ExposureSum(strategies') = ExposureSum(strategies)
      /\ \A x \in Symbols : NetSum(strategies', x) = NetSum(strategies, x)
  BY <1>1, <1>2, SamePositions
<1> QED BY <1>2, <1>3 DEF BookInv, BookState, PositionsAreSound, NetsMatch, RoomIsKept

(* square_off keeps what a position realised and nothing else.             *)
LEMMA SquaredIs ==
  ASSUME NEW pos \in PositionRecs
  PROVE  /\ Squared(pos) \in PositionRecs /\ Squared(pos).net_qty = 0
         /\ pos.net_qty = 0 => Squared(pos) = pos
         /\ pos.net_qty # 0 => Within(Squared(pos), pos.realized_pnl, 0)
<1>1. CASE pos.net_qty = 0
  BY <1>1 DEF Squared
<1>2. CASE pos.net_qty # 0
  <2>1. Squared(pos) = [net_qty |-> 0, avg_cost |-> 0, realized_pnl |-> pos.realized_pnl]
    BY <1>2 DEF Squared, PositionRecs
  <2>2. pos.realized_pnl \in Int
    BY PositionFields
  <2> QED BY <1>2, <2>1, <2>2 DEF PositionRecs, Within, FlatIsFree, Worth
<1> QED BY <1>1, <1>2

LEMMA SquareOffKeeps ==
  ASSUME NEW s \in Strategies, NEW netting \in BOOLEAN, BookInv, square_off(s, netting)
  PROVE  BookInv'
<1> DEFINE st == strategies
           st2 == strategies'
           Pos(t, x) == st[t].positions[x]
           Pos2(t, x) == st2[t].positions[x]
<1>1. /\ st2 = Zeroed(s, netting)
      /\ flattening' = [x \in Symbols |-> flattening[x] + Legs(s, netting)[x]]
      /\ cash' = [t \in Strategies |-> [x \in Symbols |->
                     IF Pos2(t, x).net_qty = Pos(t, x).net_qty THEN cash[t][x] ELSE Pos(t, x).realized_pnl]]
      /\ slack' = [t \in Strategies |-> [x \in Symbols |->
                      IF Pos2(t, x).net_qty = Pos(t, x).net_qty THEN slack[t][x] ELSE 0]]
      /\ UNCHANGED <<account, pending, overlap, mark, loose, admitted>>
  BY DEF square_off, Net
<1>2. st \in Books /\ \A t \in Strategies, x \in Symbols : Pos(t, x) \in PositionRecs /\ Pos(t, x).net_qty \in Int
  BY BookFields DEF BookInv, BookState
<1>3. /\ st2 \in Books
      /\ \A t \in Strategies, x \in Symbols :
            Pos2(t, x) = IF netting \/ t = s THEN Squared(Pos(t, x)) ELSE Pos(t, x)
  <2> DEFINE Done(t) == [st[t] EXCEPT !.positions = [x \in Symbols |-> Squared(st[t].positions[x])]]
  <2>1. st2 = [t \in Strategies |-> IF netting \/ t = s THEN Done(t) ELSE st[t]]
    BY <1>1 DEF Zeroed
  <2>2. ASSUME NEW t \in Strategies
        PROVE  Done(t) \in StrategyRecs /\ \A x \in Symbols : Done(t).positions[x] = Squared(Pos(t, x))
    <3> DEFINE g == [x \in Symbols |-> Squared(st[t].positions[x])]
    <3>1. g \in [Symbols -> PositionRecs]
      BY <1>2, SquaredIs
    <3>2. st[t] \in StrategyRecs
      BY <1>2 DEF Books
    <3>3. Done(t) = [st[t] EXCEPT !.positions = g]
      OBVIOUS
    <3>4. \A x \in Symbols : g[x] = Squared(Pos(t, x))
      OBVIOUS
    <3> HIDE DEF g, Done
    <3>5. Done(t) \in StrategyRecs /\ Done(t).positions = g
      BY <3>1, <3>2, <3>3 DEF StrategyRecs
    <3> QED BY <3>4, <3>5
  <2> HIDE DEF Done, st, st2
  <2>3. \A t \in Strategies : st2[t] = (IF netting \/ t = s THEN Done(t) ELSE st[t]) /\ st2[t] \in StrategyRecs
    BY <1>2, <2>1, <2>2 DEF Books
  <2>4. st2 \in Books
    BY <2>1, <2>3 DEF Books
  <2> QED BY <2>2, <2>3, <2>4
<1> HIDE DEF st2
<1>4. ASSUME NEW t \in Strategies, NEW x \in Symbols
      PROVE  /\ \/ Pos2(t, x) = Pos(t, x)
                \/ /\ Pos2(t, x).net_qty = 0 /\ Pos(t, x).net_qty # 0
                   /\ Within(Pos2(t, x), Pos(t, x).realized_pnl, 0)
             /\ netting \/ t = s => Pos2(t, x).net_qty = 0
             /\ ~netting /\ t # s => Pos2(t, x) = Pos(t, x)
  <2> DEFINE p == Pos(t, x)
             p2 == Pos2(t, x)
  <2>1. p \in PositionRecs /\ p2 = IF netting \/ t = s THEN Squared(p) ELSE p
    BY <1>2, <1>3
  <2> HIDE DEF p, p2
  <2>2. /\ p2 = p \/ (p2.net_qty = 0 /\ p.net_qty # 0 /\ Within(p2, p.realized_pnl, 0))
        /\ netting \/ t = s => p2.net_qty = 0
        /\ ~netting /\ t # s => p2 = p
    BY <2>1, SquaredIs
  <2> QED BY <2>2 DEF p, p2
<1> HIDE DEF st
<1>5. PositionsAreSound'
  <2> SUFFICES ASSUME NEW t \in Strategies, NEW x \in Symbols
               PROVE  Within(Pos2(t, x), cash'[t][x], slack'[t][x])
    BY DEF PositionsAreSound, st2
  <2>1. CASE Pos2(t, x) = Pos(t, x)
    <3>1. cash'[t][x] = cash[t][x] /\ slack'[t][x] = slack[t][x]
      BY <1>1, <2>1
    <3> QED BY <2>1, <3>1 DEF BookInv, PositionsAreSound, st
  <2>2. CASE /\ Pos2(t, x).net_qty = 0 /\ Pos(t, x).net_qty # 0
             /\ Within(Pos2(t, x), Pos(t, x).realized_pnl, 0)
    <3>1. cash'[t][x] = Pos(t, x).realized_pnl /\ slack'[t][x] = 0
      BY <1>1, <2>2
    <3> QED BY <2>2, <3>1
  <2> QED BY <1>4, <2>1, <2>2
<1>6. ASSUME NEW x \in Symbols
      PROVE  Legs(s, netting)[x] \in Int /\ NetSum(st2, x) = NetSum(st, x) + Legs(s, netting)[x]
  <2>1. NetSum(st, x) \in Int /\ Pos(s, x).net_qty \in Int
    BY <1>2, BookSumsAreInts
  <2>2. CASE netting
    <3>1. Legs(s, netting)[x] = -NetSum(st, x)
      BY <2>2, AccountNetIs DEF Legs, st
    <3>2. \A t \in Strategies : NetOf(st2, x)[t] = 0
      BY <1>4, <2>2 DEF NetOf
    <3>3. NetSum(st2, x) = 0
      BY <1>3, <3>2, BookSums, SumOfZeros
    <3> QED BY <2>1, <3>1, <3>3
  <2>3. CASE ~netting
    <3> DEFINE d == -Pos(s, x).net_qty
               F == NetOf(st, x)
               G == NetOf(st2, x)
    <3>1. Legs(s, netting)[x] = d
      BY <2>3 DEF Legs, Net, st
    <3>2. SumIs(NetSum(st, x), F, Strategies) /\ SumIs(NetSum(st2, x), G, Strategies)
      BY <1>2, <1>3, BookSums
    <3>3. MovesAt(F, G, Strategies, s, d)
      <4>1. F[s] = Pos(s, x).net_qty /\ G[s] = 0
        BY <1>4 DEF NetOf
      <4>2. \A t \in Strategies : t # s => G[t] = F[t]
        BY <1>4, <2>3 DEF NetOf
      <4> HIDE DEF F, G
      <4> QED BY <2>1, <4>1, <4>2 DEF MovesAt
    <3>4. d \in Int
      BY <2>1
    <3> HIDE DEF d, F, G
    <3> QED BY <3>1, <3>2, <3>3, <3>4, SumMoves
  <2> QED BY <2>2, <2>3
<1>7. NetsMatch'
  <2> SUFFICES ASSUME NEW x \in Symbols PROVE NetSum(st2, x) = account[x] + flattening'[x]
    BY <1>1 DEF NetsMatch, st2
  <2>1. flattening'[x] = flattening[x] + Legs(s, netting)[x]
    BY <1>1
  <2>2. NetSum(st, x) = account[x] + flattening[x] /\ account[x] \in Int /\ flattening[x] \in Int
    BY DEF BookInv, NetsMatch, BookState, st
  <2> QED BY <1>6, <2>1, <2>2
<1>8. BookState'
  <2>1. flattening' \in [Symbols -> Int]
    <3>1. \A x \in Symbols : flattening[x] \in Int /\ Legs(s, netting)[x] \in Int
      BY <1>6 DEF BookInv, BookState
    <3> QED BY <1>1, <3>1
  <2>2. \A t \in Strategies, x \in Symbols : cash[t][x] \in Int /\ slack[t][x] \in Int /\ Pos(t, x).realized_pnl \in Int
    BY <1>2, PositionFields DEF BookInv, BookState
  <2>3. cash' \in [Strategies -> [Symbols -> Int]] /\ slack' \in [Strategies -> [Symbols -> Int]]
    BY <1>1, <2>2
  <2> QED BY <1>1, <1>3, <2>1, <2>3 DEF BookInv, BookState, st2
<1>9. ExposureSum(st2) <= ExposureSum(st) /\ ExposureSum(st2) \in Int /\ ExposureSum(st) \in Int
  <2>1. \A sx \in Strategies \X Symbols : ExposureOf(st2)[sx] <= ExposureOf(st)[sx]
    <3> SUFFICES ASSUME NEW sx \in Strategies \X Symbols
                 PROVE  ExposureOf(st2)[sx] <= ExposureOf(st)[sx]
      OBVIOUS
    <3> DEFINE n == Pos(sx[1], sx[2]).net_qty
               n2 == Pos2(sx[1], sx[2]).net_qty
    <3>1. n \in Int /\ (n2 = n \/ n2 = 0) /\ Mark[sx[2]] \in Nat
      BY <1>2, <1>4, BookAssumption
    <3>2. ExposureOf(st)[sx] = abs64(n) * Mark[sx[2]] /\ ExposureOf(st2)[sx] = abs64(n2) * Mark[sx[2]]
      BY DEF ExposureOf
    <3> HIDE DEF n, n2
    <3>3. abs64(n) \in Nat /\ (abs64(n2) = abs64(n) \/ abs64(n2) = 0)
      BY <3>1, AbsIs
    <3>4. abs64(n2) * Mark[sx[2]] <= abs64(n) * Mark[sx[2]]
      BY <3>1, <3>3
    <3> QED BY <3>2, <3>4
  <2> QED BY <1>2, <1>3, <2>1, BookSums, SumShrinks
<1>10. RoomIsKept'
  <2> SUFFICES ASSUME ~overlap, ~loose, Cap > 0
               PROVE  /\ ExposureSum(st2) <= Cap
                      /\ \A o, p \in pending : o = p
                      /\ \A o \in pending : ExposureSum(st2) + abs64(o.f) * Mark[o.x] <= Cap
    BY <1>1 DEF RoomIsKept, st2
  <2>1. /\ ExposureSum(st) <= Cap
        /\ \A o, p \in pending : o = p
        /\ \A o \in pending : ExposureSum(st) + abs64(o.f) * Mark[o.x] <= Cap
    BY DEF BookInv, RoomIsKept, st
  <2>2. \A o \in pending : abs64(o.f) * Mark[o.x] \in Int
    <3> SUFFICES ASSUME NEW o \in pending PROVE abs64(o.f) * Mark[o.x] \in Int
      OBVIOUS
    <3>1. o.f \in Int /\ o.x \in Symbols
      BY DEF BookInv, BookState
    <3>2. abs64(o.f) \in Nat /\ Mark[o.x] \in Nat
      BY <3>1, AbsIs, BookAssumption
    <3> QED BY <3>2
  <2>3. Cap \in Int
    BY BookAssumption
  <2> QED BY <1>9, <2>1, <2>2, <2>3
<1> QED BY <1>5, <1>7, <1>8, <1>10 DEF BookInv

LEMMA BookNextKeeps == BookInv /\ BookNext => BookInv'
<1> SUFFICES ASSUME BookInv, BookNext PROVE BookInv'
  OBVIOUS
<1>1. ASSUME NEW s \in Strategies, stop_strategy(s) \/ resume_strategy(s) PROVE BookInv'
  <2>1. CASE stop_strategy(s)
    BY <2>1, ActivityKeeps DEF stop_strategy
  <2>2. CASE resume_strategy(s)
    BY <2>2, ActivityKeeps DEF resume_strategy
  <2> QED BY <1>1, <2>1, <2>2
<1> QED BY <1>1, AdmitKeeps, OrderFillsKeeps, OrderLapsesKeeps, SquareOffKeeps, FlattenFillsKeeps,
       MarkMovesKeeps DEF BookNext

\* For any strategies, symbols, prices, marks, sizes and cap, however orders, fills,
\* lapses and square-offs, netted or not, follow each other: the virtual books of
\* StrategyBook add up to the account, what a position realised and carries is
\* what was paid for it up to the paise apply_fill's blends round away, and orders
\* that check_new_order admits one at a time, none priced under its mark, keep the
\* account within the cap until a mark moves.
THEOREM BooksAreSound == Spec => []BookIsSound
<1>1. Init => BookInv
  BY BookInitially DEF Init
<1>2. BookInv /\ [Next]_vars => BookInv'
  <2> SUFFICES ASSUME BookInv, [Next]_vars PROVE BookInv'
    OBVIOUS
  <2>1. CASE BookNext
    BY <2>1, BookNextKeeps
  <2>2. CASE UNCHANGED sbVars
    BY <2>2 DEF sbVars, BookInv, BookState, PositionsAreSound, NetsMatch, RoomIsKept
  <2>3. BookNext \/ UNCHANGED sbVars
    BY DEF Next, vars
  <2> QED BY <2>1, <2>2, <2>3
<1> QED BY <1>1, <1>2, BookInvMeansSound, PTL DEF Spec
=============================================================================
