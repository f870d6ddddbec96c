--------------------------- MODULE Controls_proofs --------------------------
(***************************************************************************)
(* TLAPS proofs about Controls, for any kill requests, orders, wiring and  *)
(* world: the kill switch across the control thread, the loop and a crash, *)
(* entries that are really judged, exits that are never stranded, and the  *)
(* send limiter with its exits' lane and its breaker.                      *)
(***************************************************************************)
EXTENDS Controls, WellFoundedInduction, TLAPS

\* A kill acknowledged in this life is in force once the loop has drained since.
DrainedKillInForce == engaged \ late \subseteq active

\* The command the control thread is about to hand over is on disk.
HandedOverIsDurable == control.at = "push" => control.cmd \in journal

KillIInv ==
    /\ KillTypeOK
    /\ late \subseteq engaged
    /\ EngagedKillInForce
    /\ AckedKillIsDurable
    /\ HandedOverIsDurable
    /\ DrainedKillInForce
    /\ KillLandsBeforeNextEntry

-----------------------------------------------------------------------------
(* The queue as a set.                                                     *)

LEMMA AppendedSet ==
  ASSUME NEW S, NEW s \in Seq(S), NEW c \in S
  PROVE  Append(s, c) \in Seq(S) /\ ToSet(Append(s, c)) = ToSet(s) \union {c}
<1> DEFINE t == Append(s, c)
<1>1. /\ t \in Seq(S) /\ DOMAIN t = 1 .. (Len(s) + 1) /\ DOMAIN s = 1 .. Len(s) /\ Len(s) \in Nat
      /\ t[Len(s) + 1] = c /\ \A i \in 1 .. Len(s) : t[i] = s[i]
  OBVIOUS
<1> HIDE DEF t
<1>2. \A i \in 1 .. (Len(s) + 1) : i \in 1 .. Len(s) \/ i = Len(s) + 1
  BY <1>1
<1>3. \A i \in 1 .. Len(s) : i \in 1 .. (Len(s) + 1)
  BY <1>1
<1>4. Len(s) + 1 \in 1 .. (Len(s) + 1)
  BY <1>1
<1>5. ToSet(t) \subseteq ToSet(s) \union {c}
  BY <1>1, <1>2 DEF ToSet
<1>6. ToSet(s) \union {c} \subseteq ToSet(t)
  BY <1>1, <1>3, <1>4 DEF ToSet
<1> QED BY <1>1, <1>5, <1>6 DEF t

LEMMA EmptySet == ToSet(<<>>) = {}
BY DEF ToSet

LEMMA ElementsOf ==
  ASSUME NEW S, NEW s \in Seq(S)
  PROVE  ToSet(s) \subseteq S
BY DEF ToSet

-----------------------------------------------------------------------------
(* One lemma for each thing that happens to the kill switch.               *)

LEMMA ControlFields ==
  ASSUME KillTypeOK
  PROVE  /\ control.at \in {"idle", "persist", "push"}
         /\ control.at # "idle" => control.cmd \in KillCommands
         /\ control.at = "persist" =>
              /\ [control EXCEPT !.at = "push"].at = "push"
              /\ [control EXCEPT !.at = "push"].cmd = control.cmd
              /\ [control EXCEPT !.at = "push"] \in [at : {"persist", "push"}, cmd : KillCommands]
         /\ ControlIdle.at = "idle"
BY DEF KillTypeOK, ControlIdle

\* The kill switch as the invariant sees it; nothing else of it but `sent'.
KillPart ==
    /\ KillTypeOK /\ late \subseteq engaged /\ EngagedKillInForce
    /\ AckedKillIsDurable /\ HandedOverIsDurable /\ DrainedKillInForce

LEMMA SubmitKeepsKills ==
  ASSUME KillPart, NEW r \in KillRequests, SubmitKill(r), UNCHANGED late
  PROVE  KillPart'
<1>1. control'.at = "persist" /\ control' \in [at : {"persist", "push"}, cmd : KillCommands]
  BY DEF SubmitKill, KillCommands
<1>2. control.at = "idle" /\ UNCHANGED <<journal, queue, active, acked, engaged>>
  BY DEF SubmitKill
<1> QED
  BY <1>1, <1>2 DEF KillPart, KillTypeOK, EngagedKillInForce, AckedKillIsDurable, HandedOverIsDurable,
                    DrainedKillInForce

LEMMA PersistKeepsKills ==
  ASSUME KillPart, NEW ok \in BOOLEAN, PersistKill(ok), UNCHANGED late
  PROVE  KillPart'
<1>0. KillTypeOK /\ control.at = "persist" /\ UNCHANGED <<queue, active, acked, engaged, late>>
  BY DEF KillPart, PersistKill
<1>1. control.cmd \in KillCommands
  BY <1>0, ControlFields
<1>2. journal \subseteq journal' /\ journal' \subseteq journal \union {control.cmd}
  BY DEF PersistKill
<1>3. CASE ok
  <2>1. /\ control' = [control EXCEPT !.at = "push"]
        /\ journal' = journal \union {control.cmd}
    BY <1>3 DEF PersistKill
  <2>2. /\ control'.at = "push" /\ control'.cmd = control.cmd
        /\ control' \in [at : {"persist", "push"}, cmd : KillCommands]
    BY <1>0, <2>1, ControlFields
  <2> QED
    BY <1>0, <1>1, <2>1, <2>2
    DEF KillPart, KillTypeOK, EngagedKillInForce, AckedKillIsDurable, HandedOverIsDurable,
        DrainedKillInForce
<1>4. CASE ~ok
  <2>1. control' = ControlIdle
    BY <1>4 DEF PersistKill
  <2>2. control'.at = "idle"
    BY <1>0, <2>1, ControlFields
  <2> QED
    BY <1>0, <1>1, <1>2, <2>1, <2>2
    DEF KillPart, KillTypeOK, EngagedKillInForce, AckedKillIsDurable, HandedOverIsDurable,
        DrainedKillInForce
<1> QED BY <1>3, <1>4

LEMMA PushKeepsKills ==
  ASSUME KillPart, PushKill, late' = late \union {control.cmd}
  PROVE  KillPart'
<1>0. KillTypeOK /\ control.at = "push" /\ UNCHANGED <<journal, active>>
  BY DEF KillPart, PushKill
<1>1. control.cmd \in KillCommands /\ control.cmd \in journal
  BY <1>0, ControlFields DEF KillPart, HandedOverIsDurable
<1>2. queue' \in Seq(KillCommands) /\ ToSet(queue') = ToSet(queue) \union {control.cmd}
  BY <1>0, <1>1, AppendedSet DEF PushKill, KillTypeOK
<1>3. /\ control' = ControlIdle /\ control'.at = "idle" /\ acked' = acked \union {control.cmd}
      /\ engaged' = engaged \union {control.cmd}
  BY <1>0, ControlFields DEF PushKill
<1> QED
  BY <1>0, <1>1, <1>2, <1>3
  DEF KillPart, KillTypeOK, EngagedKillInForce, AckedKillIsDurable, HandedOverIsDurable,
      DrainedKillInForce

LEMMA DrainKeepsKills ==
  ASSUME KillPart, DrainKills, late' = {}
  PROVE  KillPart'
<1>0. KillTypeOK /\ UNCHANGED <<journal, control, acked, engaged>>
  BY DEF KillPart, DrainKills
<1>1. active' = active \union ToSet(queue) /\ queue' = <<>> /\ ToSet(queue') = {}
  BY EmptySet DEF DrainKills, apply
<1>2. ToSet(queue) \subseteq KillCommands /\ queue' \in Seq(KillCommands)
  BY <1>0, <1>1, ElementsOf DEF KillTypeOK
<1> QED
  BY <1>0, <1>1, <1>2
  DEF KillPart, KillTypeOK, EngagedKillInForce, AckedKillIsDurable, HandedOverIsDurable,
      DrainedKillInForce

LEMMA CrashKeepsKills ==
  ASSUME KillPart, KillCrash, late' = {}
  PROVE  KillPart'
<1>1. /\ control' = ControlIdle /\ control'.at # "push" /\ engaged' = {}
      /\ UNCHANGED <<journal, acked>>
  BY DEF KillCrash, ControlIdle
<1>2. queue' \in Seq(KillCommands) /\ active' \subseteq KillCommands
  BY DEF KillCrash
<1> QED
  BY <1>1, <1>2
  DEF KillPart, KillTypeOK, EngagedKillInForce, AckedKillIsDurable, HandedOverIsDurable,
      DrainedKillInForce

LEMMA KillPartPreserved == KillPart /\ [Next]_vars => KillPart'
<1> SUFFICES ASSUME KillPart, [Next]_vars PROVE KillPart'
  OBVIOUS
<1>1. CASE UNCHANGED killVars /\ UNCHANGED late
  BY <1>1 DEF killVars, KillPart, KillTypeOK, EngagedKillInForce, AckedKillIsDurable, HandedOverIsDurable,
              DrainedKillInForce
<1>2. CASE Start
  BY <1>1, <1>2 DEF Start
<1>3. CASE Crash
  BY <1>3, CrashKeepsKills DEF Crash
<1>4. CASE Control
  <2>2. CASE \E r \in KillRequests : SubmitKill(r) /\ UNCHANGED late
    BY <2>2, SubmitKeepsKills
  <2>3. CASE \E r \in KillRequests : RefuseKill(r) /\ UNCHANGED late
    BY <1>1, <2>3 DEF RefuseKill
  <2>4. CASE \E ok \in BOOLEAN : PersistKill(ok) /\ UNCHANGED late
    BY <2>4, PersistKeepsKills
  <2>5. CASE PushKill /\ late' = late \union {control.cmd}
    BY <2>5, PushKeepsKills
  <2> QED BY <1>4, <2>2, <2>3, <2>4, <2>5 DEF Control
<1>5. ASSUME NEW o \in offered, LoopTop(o) PROVE KillPart'
  BY <1>5, DrainKeepsKills DEF LoopTop
<1>6. CASE BeforeDispatch
  BY <1>6, DrainKeepsKills DEF BeforeDispatch
<1>7. CASE Tick
  BY <1>1, <1>7 DEF Tick
<1>8. CASE Fill
  BY <1>1, <1>8 DEF Fill
<1>9. ASSUME NEW d \in Deviations, Deviate(d) PROVE KillPart'
  BY <1>1, <1>9 DEF Deviate
<1>10. CASE PreflightEntry \/ PreflightMargin \/ PreflightExit
  BY <1>1, <1>10 DEF PreflightEntry, PreflightMargin, PreflightExit
<1>11. CASE Dispatch
  BY <1>1, <1>11 DEF Dispatch
<1>12. ASSUME NEW throttled \in BOOLEAN, Reply(throttled) PROVE KillPart'
  BY <1>1, <1>12 DEF Reply
<1>13. ASSUME NEW c \in Classes, Quote(c) PROVE KillPart'
  BY <1>1, <1>13 DEF Quote, loopVars
<1>14. CASE UNCHANGED vars
  BY <1>1, <1>14 DEF vars, loopVars
<1> QED
  BY <1>2, <1>3, <1>4, <1>5, <1>6, <1>7, <1>8, <1>9, <1>10, <1>11, <1>12, <1>13, <1>14 DEF Next

-----------------------------------------------------------------------------
(* The moment of a send.                                                   *)

LEMMA SendIsUnkilled ==
  ASSUME KillPart, Dispatch, sent' # sent, sent'.order.kind = "entry"
  PROVE  sent'.killed = {}
<1>1. /\ at = "send"
      /\ order.kind = "entry" => ~blocks_strategy(order.strategy)
      /\ sent' = [order |-> order, killed |-> {c \in engaged \ late : Covers(c, order.strategy)},
                  hits |-> hits["order"], quiet |-> quiet["order"]]
  BY DEF Dispatch
<1>2. /\ sent'.order = order
      /\ sent'.killed = {c \in engaged \ late : Covers(c, order.strategy)}
  BY <1>1
<1>3. engaged \ late \subseteq active
  BY <1>1 DEF KillPart, DrainedKillInForce
<1>4. \A c \in active : ~Covers(c, order.strategy)
  BY <1>1, <1>2 DEF blocks_strategy
<1> QED BY <1>2, <1>3, <1>4

LEMMA SentIsWatched ==
  ASSUME [Next]_vars
  PROVE  sent' = sent \/ sent' = NoSend \/ Dispatch
BY DEF Next, Start, Crash, Control, Tick, Fill, Deviate, LoopTop, PreflightEntry, PreflightMargin,
       PreflightExit, BeforeDispatch, Reply, Quote, vars, loopVars

(* The kill switch across the control thread and a loop that keeps the     *)
(* contract of killswitch.hpp: a kill KillController::submit acknowledged  *)
(* is in force or queued while the process lives, durable over any crash,  *)
(* and no entry leaves under one that was acknowledged before the loop's   *)
(* last drain in the same life.  Nothing is said of a kill of an earlier   *)
(* life: a restart does not restore it.                                    *)
THEOREM KillSwitchHolds == Spec => []KillsHold
<1>1. Init => KillIInv
  <2> SUFFICES ASSUME Init PROVE KillIInv
    OBVIOUS
  <2>1. /\ journal = {} /\ queue = <<>> /\ active = {} /\ control = ControlIdle /\ acked = {} /\ engaged = {}
        /\ late = {} /\ at = "down" /\ sent = NoSend
    BY DEF Init, KillInit
  <2>2. queue \in Seq(KillCommands) /\ control.at = "idle" /\ sent.order = NoOrder
    BY <2>1 DEF ControlIdle, NoSend
  <2> QED
    BY <2>1, <2>2
    DEF KillIInv, KillTypeOK, EngagedKillInForce, AckedKillIsDurable, HandedOverIsDurable,
        DrainedKillInForce, KillLandsBeforeNextEntry, Up
<1>2. KillIInv /\ [Next]_vars => KillIInv'
  <2> SUFFICES ASSUME KillIInv, [Next]_vars PROVE KillIInv'
    OBVIOUS
  <2>1. KillPart /\ KillPart'
    BY KillPartPreserved DEF KillIInv, KillPart
  <2>2. KillLandsBeforeNextEntry'
    <3>1. CASE sent' = sent
      BY <3>1 DEF KillIInv, KillLandsBeforeNextEntry
    <3>2. CASE sent' = NoSend
      BY <3>2 DEF NoSend, KillLandsBeforeNextEntry
    <3>3. CASE Dispatch /\ sent' # sent
      BY <2>1, <3>3, SendIsUnkilled DEF KillLandsBeforeNextEntry
    <3> QED BY <3>1, <3>2, <3>3, SentIsWatched
  <2> QED BY <2>1, <2>2 DEF KillIInv, KillPart
<1>3. KillIInv => KillsHold
  BY DEF KillIInv, KillsHold
<1> QED BY <1>1, <1>2, <1>3, PTL DEF Spec

-----------------------------------------------------------------------------
(* A chain of checks passes exactly when each of them does.                *)

LEMMA Smallest ==
  ASSUME NEW T \in SUBSET Nat, T # {}
  PROVE  \E x \in T : \A y \in T : ~(y < x)
<1> DEFINE R == OpToRel(<, Nat)
<1>1. IsWellFoundedOn(R, Nat)
  BY NatLessThanWellFounded, Zenon
<1>2. \A x, y \in Nat : y < x => <<y, x>> \in R
  BY DEF OpToRel
<1> HIDE DEF R
<1>3. PICK x \in T : \A y \in T : ~(<<y, x>> \in R)
  BY <1>1, WFMin
<1> QED BY <1>2, <1>3

LEMMA FirstRefusalOk ==
  ASSUME NEW n \in Nat, NEW s, DOMAIN s = 1 .. n
  PROVE  FirstRefusal(s).ok <=> \A i \in 1 .. n : s[i].ok
<1>1. CASE \A i \in 1 .. n : s[i].ok
  BY <1>1 DEF FirstRefusal, Pass
<1>2. CASE ~\A i \in 1 .. n : s[i].ok
  <2> DEFINE T == {i \in 1 .. n : ~s[i].ok}
             first(i) == ~s[i].ok /\ \A j \in 1 .. i - 1 : s[j].ok
             c == CHOOSE i \in DOMAIN s : first(i)
  <2>1. T \in SUBSET Nat /\ T # {}
    BY <1>2
  <2>2. PICK x \in T : \A y \in T : ~(y < x)
    BY <2>1, Smallest
  <2>3. \A j \in 1 .. x - 1 : j \in 1 .. n /\ j < x
    BY <2>2
  <2>4. first(x)
    BY <2>2, <2>3
  <2>5. first(c)
    <3> HIDE DEF first
    <3> QED BY <2>4
  <2>6. FirstRefusal(s) = s[c]
    BY <1>2 DEF FirstRefusal
  <2> QED BY <1>2, <2>5, <2>6
<1> QED BY <1>1, <1>2

LEMMA CheckOk ==
  ASSUME NEW good, NEW stage, NEW category
  PROVE  Check(good, stage, category).ok <=> good
BY DEF Check, Pass, Refuse

LEMMA TwoOk ==
  ASSUME NEW a, NEW b
  PROVE  FirstRefusal(<<a, b>>).ok <=> a.ok /\ b.ok
<1> DEFINE s == <<a, b>>
<1>1. DOMAIN s = 1 .. 2 /\ s[1] = a /\ s[2] = b
  OBVIOUS
<1> HIDE DEF s
<1>2. FirstRefusal(s).ok <=> \A i \in 1 .. 2 : s[i].ok
  BY <1>1, FirstRefusalOk
<1> QED BY <1>1, <1>2 DEF s

LEMMA FourOk ==
  ASSUME NEW a, NEW b, NEW c, NEW d
  PROVE  FirstRefusal(<<a, b, c, d>>).ok <=> a.ok /\ b.ok /\ c.ok /\ d.ok
<1> DEFINE s == <<a, b, c, d>>
<1>1. DOMAIN s = 1 .. 4 /\ s[1] = a /\ s[2] = b /\ s[3] = c /\ s[4] = d
  OBVIOUS
<1> HIDE DEF s
<1>2. FirstRefusal(s).ok <=> \A i \in 1 .. 4 : s[i].ok
  BY <1>1, FirstRefusalOk
<1> QED BY <1>1, <1>2 DEF s

LEMMA SixOk ==
  ASSUME NEW a, NEW b, NEW c, NEW d, NEW e, NEW f
  PROVE  FirstRefusal(<<a, b, c, d, e, f>>).ok <=> a.ok /\ b.ok /\ c.ok /\ d.ok /\ e.ok /\ f.ok
<1> DEFINE s == <<a, b, c, d, e, f>>
<1>1. /\ DOMAIN s = 1 .. 6 /\ s[1] = a /\ s[2] = b /\ s[3] = c /\ s[4] = d /\ s[5] = e /\ s[6] = f
  OBVIOUS
<1> HIDE DEF s
<1>2. FirstRefusal(s).ok <=> \A i \in 1 .. 6 : s[i].ok
  BY <1>1, FirstRefusalOk
<1> QED BY <1>1, <1>2 DEF s

LEMMA TwelveOk ==
  ASSUME NEW a, NEW b, NEW c, NEW d, NEW e, NEW f, NEW g, NEW h, NEW i, NEW j, NEW k, NEW l
  PROVE  FirstRefusal(<<a, b, c, d, e, f, g, h, i, j, k, l>>).ok <=>
            /\ a.ok /\ b.ok /\ c.ok /\ d.ok /\ e.ok /\ f.ok
            /\ g.ok /\ h.ok /\ i.ok /\ j.ok /\ k.ok /\ l.ok
<1> DEFINE s == <<a, b, c, d, e, f, g, h, i, j, k, l>>
<1>1. /\ DOMAIN s = 1 .. 12 /\ s[1] = a /\ s[2] = b /\ s[3] = c /\ s[4] = d /\ s[5] = e /\ s[6] = f
      /\ s[7] = g /\ s[8] = h /\ s[9] = i /\ s[10] = j /\ s[11] = k /\ s[12] = l
  OBVIOUS
<1> HIDE DEF s
<1>2. FirstRefusal(s).ok <=> \A n \in 1 .. 12 : s[n].ok
  BY <1>1, FirstRefusalOk
<1> QED BY <1>1, <1>2 DEF s

LEMMA OrderChecksOk ==
  ASSUME NEW e, NEW o
  PROVE  OrderChecks(e, o).ok <=>
            /\ /\ o.instrument.exchange # "none"
               /\ e.options.allowed_exchanges # {} =>
                     o.instrument.exchange \in e.options.allowed_exchanges
            /\ e.options.allowed_products # {} => o.product \in e.options.allowed_products
            /\ lot_ok(o) /\ shape_ok(o) /\ tick_ok(o) /\ freeze_ok(e, o)
<1> DEFINE exchange == Check(/\ o.instrument.exchange # "none"
                             /\ e.options.allowed_exchanges # {} =>
                                   o.instrument.exchange \in e.options.allowed_exchanges,
                             "gate", "Validation")
           product == Check(e.options.allowed_products # {} =>
                               o.product \in e.options.allowed_products, "gate", "Validation")
           lot == Check(lot_ok(o), "gate", "Validation")
           shape == Check(shape_ok(o), "gate", "Validation")
           tick == Check(tick_ok(o), "gate", "Validation")
           freeze == Check(freeze_ok(e, o), "gate", "Validation")
<1>1. OrderChecks(e, o) = FirstRefusal(<<exchange, product, lot, shape, tick, freeze>>)
  BY DEF OrderChecks
<1>2. exchange.ok <=> /\ o.instrument.exchange # "none"
                      /\ e.options.allowed_exchanges # {} =>
                            o.instrument.exchange \in e.options.allowed_exchanges
  BY DEF Check, Pass, Refuse
<1>3. product.ok <=> (e.options.allowed_products # {} => o.product \in e.options.allowed_products)
  BY DEF Check, Pass, Refuse
<1>4. (lot.ok <=> lot_ok(o)) /\ (shape.ok <=> shape_ok(o))
  BY DEF Check, Pass, Refuse
<1>5. (tick.ok <=> tick_ok(o)) /\ (freeze.ok <=> freeze_ok(e, o))
  BY DEF Check, Pass, Refuse
<1> HIDE DEF exchange, product, lot, shape, tick, freeze
<1>6. OrderChecks(e, o).ok <=> exchange.ok /\ product.ok /\ lot.ok /\ shape.ok /\ tick.ok /\ freeze.ok
  BY <1>1, SixOk
<1> QED BY <1>2, <1>3, <1>4, <1>5, <1>6

-----------------------------------------------------------------------------
(* Postures.                                                               *)

LEMMA Severities ==
  /\ severity("Normal") = 1 /\ severity("BlockEntries") = 2 /\ severity("ExitOnly") = 3
  /\ severity("SoftKill") = 4 /\ severity("Panic") = 5
BY DEF severity, Postures

AllPostures == {"Normal", "BlockEntries", "ExitOnly", "SoftKill", "Panic"}

LEMMA PostureFor ==
  ASSUME NEW signal
  PROVE  posture_for(signal) \in {"BlockEntries", "ExitOnly", "SoftKill"}
<1>1. CASE signal \in {"StaleData", "MuteFeed", "Unknown", "Mismatch", "SessionExpiry"}
  BY <1>1, Zenon DEF posture_for
<1>2. CASE signal \in {"BrokerDown", "ClockSkew", "ClockStall", "ResourcePressure"}
  BY <1>2, Zenon DEF posture_for
<1>3. CASE /\ signal \notin {"StaleData", "MuteFeed", "Unknown", "Mismatch", "SessionExpiry"}
           /\ signal \notin {"BrokerDown", "ClockSkew", "ClockStall", "ResourcePressure"}
  BY <1>3, Zenon DEF posture_for
<1> QED BY <1>1, <1>2, <1>3

LEMMA KillPosture ==
  /\ kill_posture \in {"Normal", "SoftKill", "Panic"}
  /\ kill_posture = "Panic" => panic_active
BY DEF kill_posture

\* evaluate picks one of the postures asked for, and none is severer.
LEMMA EvaluateIsSeverest ==
  ASSUME NEW signals, NEW floor \in AllPostures
  PROVE  /\ evaluate(signals, floor) = floor
            \/ \E s \in signals : evaluate(signals, floor) = posture_for(s)
         /\ evaluate(signals, floor) = "Normal" => signals = {}
<1> DEFINE asked == {floor} \union {posture_for(s) : s \in signals}
           top(p) == \A q \in asked : severity(q) <= severity(p)
<1>1. asked \subseteq AllPostures /\ floor \in asked
  BY PostureFor DEF AllPostures
<1>2. \E p \in asked : top(p)
  <2>1. CASE "Panic" \in asked
    BY <1>1, <2>1, Severities DEF AllPostures
  <2>2. CASE "Panic" \notin asked /\ "SoftKill" \in asked
    BY <1>1, <2>2, Severities DEF AllPostures
  <2>3. CASE "Panic" \notin asked /\ "SoftKill" \notin asked /\ "ExitOnly" \in asked
    BY <1>1, <2>3, Severities DEF AllPostures
  <2>4. CASE /\ "Panic" \notin asked /\ "SoftKill" \notin asked /\ "ExitOnly" \notin asked
             /\ "BlockEntries" \in asked
    BY <1>1, <2>4, Severities DEF AllPostures
  <2>5. CASE asked = {"Normal"}
    BY <1>1, <2>5, Severities DEF AllPostures
  <2> QED BY <1>1, <2>1, <2>2, <2>3, <2>4, <2>5 DEF AllPostures
<1>3. evaluate(signals, floor) = CHOOSE p \in asked : top(p)
  BY DEF evaluate
<1> HIDE DEF top
<1>4. evaluate(signals, floor) \in asked /\ top(evaluate(signals, floor))
  BY <1>2, <1>3
<1>5. ASSUME evaluate(signals, floor) = "Normal", NEW s \in signals PROVE FALSE
  <2>1. posture_for(s) \in asked /\ posture_for(s) \in {"BlockEntries", "ExitOnly", "SoftKill"}
    BY PostureFor
  <2>2. severity(posture_for(s)) <= severity("Normal")
    BY <1>4, <1>5, <2>1 DEF top
  <2> QED BY <2>1, <2>2, Severities
<1> QED BY <1>4, <1>5

-----------------------------------------------------------------------------
(* What the chains judge.                                                  *)

\* The world the sources report has the types of the code.
WorldTyped(w) ==
    /\ {"book", "limits", "quote", "available", "duplicate"} \subseteq DOMAIN w
    /\ w.book \in Book /\ w.limits \in Limits /\ w.quote \in MarginQuote /\ w.available \in Int
    /\ w.duplicate \in {"new", "seen", "error"}

\* The part of ReallyJudged that is settled before the funds are looked at.
JudgedEarly(e, w) ==
    /\ w.day \notin Calendar.holidays \/ w.day \in Calendar.specials
    /\ Calendar.open <= w.minute /\ w.minute < Calendar.entry_cutoff
    /\ w.duplicate = "new" /\ ~w.pause /\ w.signals = {}
    /\ w.session = "Healthy" /\ w.text # "SessionExpired"
    /\ e.options.declares_no_risk_limits \/ any_risk_limit_armed(w.limits)
    /\ w.quote.api_required > 0

LEMMA BeforeFundsJudges ==
  ASSUME NEW e, NEW o, NEW w, NEW blocked \in BOOLEAN, NEW floor \in AllPostures,
         make_engine(e), w.duplicate \in {"new", "seen", "error"},
         EntryBeforeFunds(e, o, w, blocked, floor).ok
  PROVE  JudgedEarly(e, w)
<1> DEFINE v1 == Check(e.options.mode = "EntryCapable", "engine-mode", "NotSupported")
           v2 == Check(allows_entries(evaluate_posture_for_strategy(w, blocked, floor)),
                       "posture", "RiskRejected")
           v3 == Check(require_op_allowed(assess_session(w.session, w.text), "entry"),
                       "session", "SessionExpired")
           v4 == Check(o.symbol = o.instrument.symbol, "instrument", "Validation")
           v5 == Check(e.options.declares_no_risk_limits \/ any_risk_limit_armed(w.limits),
                       "risk-limits", "Validation")
           v6 == Check(w.quote.ok, "margin", "DataStale")
           v7 == Check(w.quote.ok => w.quote.api_required > 0, "margin", "DataStale")
           v8 == Check(~blocked, "gate", "RiskRejected")
           v9 == Check(~w.pause, "gate", "RiskRejected")
           v10 == DuplicateCheck(w)
           v11 == OrderChecks(e, o)
           v12 == Check("calendar" \in e.deps => require_entry_allowed(w), "gate", "MarketClosed")
<1>1. EntryBeforeFunds(e, o, w, blocked, floor) =
        FirstRefusal(<<v1, v2, v3, v4, v5, v6, v7, v8, v9, v10, v11, v12>>)
  BY DEF EntryBeforeFunds
<1>2. v1.ok <=> e.options.mode = "EntryCapable"
  BY DEF Check, Pass, Refuse
<1>3. v2.ok <=> allows_entries(evaluate_posture_for_strategy(w, blocked, floor))
  BY DEF Check, Pass, Refuse
<1>4. v3.ok <=> require_op_allowed(assess_session(w.session, w.text), "entry")
  BY DEF Check, Pass, Refuse
<1>5. v5.ok <=> (e.options.declares_no_risk_limits \/ any_risk_limit_armed(w.limits))
  BY DEF Check, Pass, Refuse
<1>6. v6.ok /\ v7.ok => w.quote.api_required > 0
  BY DEF Check, Pass, Refuse
<1>7. v9.ok <=> ~w.pause
  BY DEF Check, Pass, Refuse
<1>8. v10.ok => w.duplicate = "new"
  <2>1. CASE w.duplicate = "seen"
    <3>1. DuplicateCheck(w) = Refuse("gate", "DuplicateOrder")
      BY <2>1, Zenon DEF DuplicateCheck
    <3> QED BY <3>1 DEF Refuse
  <2>2. CASE w.duplicate = "error"
    <3>1. DuplicateCheck(w) = Refuse("duplicate-probe", "Internal")
      BY <2>2, Zenon DEF DuplicateCheck
    <3> QED BY <3>1 DEF Refuse
  <2> QED BY <2>1, <2>2
<1>9. v12.ok <=> ("calendar" \in e.deps => require_entry_allowed(w))
  BY DEF Check, Pass, Refuse
<1> HIDE DEF v1, v2, v3, v4, v5, v6, v7, v8, v9, v10, v11, v12
<1>10. /\ v1.ok /\ v2.ok /\ v3.ok /\ v4.ok /\ v5.ok /\ v6.ok
       /\ v7.ok /\ v8.ok /\ v9.ok /\ v10.ok /\ v11.ok /\ v12.ok
  BY <1>1, TwelveOk
<1>11. w.signals = {}
  <2>1. evaluate(w.signals, IF blocked THEN floor ELSE "Normal") = "Normal"
    BY <1>3, <1>10 DEF allows_entries, evaluate_posture_for_strategy
  <2>2. (IF blocked THEN floor ELSE "Normal") \in AllPostures
    BY DEF AllPostures
  <2> QED BY <2>1, <2>2, EvaluateIsSeverest
<1>12. "calendar" \in e.deps
  BY <1>2, <1>10 DEF make_engine, EntryRequired
<1>13. require_entry_allowed(w)
  BY <1>9, <1>10, <1>12
<1>14. w.session = "Healthy" /\ w.text # "SessionExpired"
  BY <1>4, <1>10 DEF require_op_allowed, assess_session
<1> QED
  BY <1>5, <1>6, <1>7, <1>8, <1>10, <1>11, <1>13, <1>14
  DEF JudgedEarly, require_entry_allowed, is_trading_day

\* The part of ReallyJudged that the risk engine settles.
JudgedRisk(w) ==
    /\ w.limits.daily_loss > 0 => w.book.account_pnl > -w.limits.daily_loss
    /\ w.limits.max_lots_per_strategy > 0 =>
          w.book.strategy_lots + w.book.order_lots <= w.limits.max_lots_per_strategy

LEMMA FromFundsJudges ==
  ASSUME NEW e, NEW o, NEW w, WorldTyped(w), NEW f, EntryFromFunds(e, o, w, f).ok
  PROVE  JudgedRisk(w)
<1> DEFINE v1 == Check(is_fresh(f), "gate", "DataStale")
           v2 == Check(check_margin(f, w.quote.api_required), "gate", "InsufficientFunds")
           v3 == RiskCheck(o, w, TRUE)
           v4 == HedgeCheck(e, o)
           s == RiskStateOf(o, w, TRUE)
           l == w.limits
<1>1. EntryFromFunds(e, o, w, f) = FirstRefusal(<<v1, v2, v3, v4>>)
  BY DEF EntryFromFunds
<1>2. v3.ok <=> check_all(o, l, s)
  BY DEF RiskCheck, Check, Pass, Refuse
<1> HIDE DEF v1, v2, v3, v4
<1>3. check_all(o, l, s)
  BY ZenonT(30), <1>1, <1>2, FourOk
<1>4. w.book \in Book
  BY DEF WorldTyped
<1>5. /\ s.account_pnl = w.book.account_pnl /\ s.strategy_lots = w.book.strategy_lots
      /\ s.order_lots = w.book.order_lots
  BY <1>4 DEF RiskStateOf, Book
<1>6. /\ w.book.account_pnl \in Int /\ w.book.strategy_lots \in Int /\ w.book.order_lots \in Int
  BY <1>4 DEF Book
<1>7. l.daily_loss \in Int /\ l.max_lots_per_strategy \in Int
  BY DEF WorldTyped, Limits
<1> HIDE DEF s, l
<1>8. ~(l.daily_loss > 0 /\ s.account_pnl <= -l.daily_loss)
  BY <1>3 DEF check_all, check_account
<1>9. ~over_cap(l.max_lots_per_strategy, s.strategy_lots, s.order_lots)
  BY <1>3 DEF check_all, check_strategy
<1>10. l.daily_loss > 0 => w.book.account_pnl > -l.daily_loss
  BY <1>5, <1>6, <1>7, <1>8
<1>11. l.max_lots_per_strategy > 0 =>
          w.book.strategy_lots + w.book.order_lots <= l.max_lots_per_strategy
  BY <1>5, <1>6, <1>7, <1>9 DEF over_cap, sum_over
<1> QED BY <1>10, <1>11 DEF JudgedRisk, l

-----------------------------------------------------------------------------
(* The buffered requirement.                                               *)

LEMMA DivMonotone ==
  ASSUME NEW a \in Int, NEW b \in Int, a <= b
  PROVE  a \div 10000 <= b \div 10000
OBVIOUS

LEMMA ProductMonotone ==
  ASSUME NEW a \in Int, NEW b \in Int, NEW k \in Nat, a <= b
  PROVE  a * k <= b * k
OBVIOUS

LEMMA ProductSign ==
  ASSUME NEW a \in Int, NEW k \in Int, a > 0, k <= 0
  PROVE  a * k <= 0
OBVIOUS

LEMMA CeilingSign ==
  ASSUME NEW a \in Int, a <= 0
  PROVE  (a + 9999) \div 10000 <= 0
OBVIOUS

\* The cushion is at least the ceiling it stands for, or all an amount can hold.
LEMMA CushionCovers ==
  ASSUME NEW api \in Int, NEW base \in Int, api > 0, api <= base, NEW bps \in Int
  PROVE  /\ bps_cushion(base, bps) \in Nat
         /\ \/ bps_cushion(base, bps) = PaiseMax
            \/ bps_cushion(base, bps) >= Ceil(api * bps, 10000)
<1>1. api * bps \in Int /\ base * bps \in Int /\ PaiseMax \in Nat
  BY PreflightAssumption
<1>2. Ceil(api * bps, 10000) = (api * bps + 9999) \div 10000
  BY <1>1 DEF Ceil
<1>3. CASE bps <= 0
  <2>1. api * bps <= 0
    BY <1>3, ProductSign
  <2>2. (api * bps + 9999) \div 10000 <= 0
    BY <1>1, <2>1, CeilingSign
  <2>3. bps_cushion(base, bps) = 0
    BY <1>3 DEF bps_cushion
  <2>4. (api * bps + 9999) \div 10000 \in Int
    BY <1>1
  <2> QED BY <1>2, <2>2, <2>3, <2>4
<1>4. CASE bps > 0
  <2>1. bps_cushion(base, bps) = PaiseMax \/ bps_cushion(base, bps) = (base * bps + 9999) \div 10000
    <3>1. ~(base <= 0 \/ bps <= 0)
      BY <1>4
    <3> DEFINE most == (PaiseMax - 9999) \div bps
               part == (base * bps + 9999) \div 10000
               small == IF base > most THEN PaiseMax ELSE part
    <3>2. bps_cushion(base, bps) = IF base <= 0 \/ bps <= 0 THEN 0 ELSE small
      BY DEF bps_cushion
    <3>3. small = PaiseMax \/ small = (base * bps + 9999) \div 10000
      <4> HIDE DEF most, part
      <4>1. small = PaiseMax \/ small = part
        OBVIOUS
      <4> QED BY <4>1 DEF part
    <3> HIDE DEF small
    <3>4. bps_cushion(base, bps) = small
      BY <3>1, <3>2
    <3> QED BY <3>3, <3>4
  <2>2. api * bps <= base * bps
    BY <1>4, ProductMonotone
  <2>0. base * bps >= 0
    BY <1>4
  <2>3. (api * bps + 9999) \div 10000 <= (base * bps + 9999) \div 10000
    BY <1>1, <2>2, DivMonotone
  <2>4. (api * bps + 9999) \div 10000 \in Int /\ (base * bps + 9999) \div 10000 \in Nat
    BY <1>1, <2>0
  <2> QED BY <1>1, <1>2, <2>1, <2>3, <2>4
<1> QED BY <1>3, <1>4

LEMMA MarginCovers ==
  ASSUME NEW q \in MarginQuote, q.api_required > 0, NEW f, f.available \in Int, require_margin_ok(f, q)
  PROVE  f.available >= Least(PaiseMax, q.api_required + Buffer.flat
                                        + Ceil(q.api_required * Buffer.bps, 10000))
<1> DEFINE api == q.api_required
           base == base_required(q)
           flat == IF Buffer.flat > 0 THEN Buffer.flat ELSE 0
           cushion == bps_cushion(base, Buffer.bps)
           ceil == Ceil(api * Buffer.bps, 10000)
<1>0. PaiseMax \in Nat /\ Buffer.flat \in Int /\ Buffer.bps \in Int /\ api \in Int
  BY PreflightAssumption DEF MarginQuote
<1>1. base \in Int /\ api <= base
  BY <1>0 DEF base_required, MarginQuote
<1>2. flat \in Nat /\ Buffer.flat <= flat
  BY <1>0
<1>3. cushion \in Nat /\ (cushion = PaiseMax \/ cushion >= ceil)
  BY <1>0, <1>1, CushionCovers
<1>4. f.available >= sat_add(sat_add(base, flat), cushion)
  BY DEF require_margin_ok, effective_required
<1>5. ceil \in Int
  <2>1. api * Buffer.bps \in Int
    BY <1>0
  <2> QED BY <2>1 DEF Ceil
<1> HIDE DEF api, base, flat, cushion, ceil
<1>6. sat_add(base, flat) \in Int /\ (sat_add(base, flat) = PaiseMax \/ sat_add(base, flat) = base + flat)
  BY <1>0, <1>1, <1>2 DEF sat_add
<1>7. api > 0
  BY DEF api
<1>8. sat_add(base, flat) >= 0
  BY <1>0, <1>1, <1>2, <1>6, <1>7
<1> DEFINE s == sat_add(base, flat)
           t == sat_add(s, cushion)
<1>9. s \in Int /\ s >= 0 /\ (s = PaiseMax \/ s = base + flat)
  BY <1>6, <1>8
<1> HIDE DEF s
<1>10. t \in Int /\ (t = PaiseMax \/ t = s + cushion)
  BY <1>0, <1>3, <1>9 DEF sat_add
<1>12. t >= PaiseMax \/ t >= api + Buffer.flat + ceil
  BY <1>0, <1>1, <1>2, <1>3, <1>5, <1>9, <1>10
<1>13. f.available >= t
  BY <1>4 DEF s
<1> HIDE DEF t
<1>14. f.available >= Least(PaiseMax, api + Buffer.flat + ceil)
  BY <1>0, <1>5, <1>10, <1>12, <1>13 DEF Least
<1> QED BY <1>14 DEF api, ceil

-----------------------------------------------------------------------------
(* The loop around the chains.                                             *)

FundsOK(f) == f \in [has : BOOLEAN, age : Nat, available : Int]

\* What holds between two steps of the loop: the sources and orders are well
\* typed, the engine was composed, a held snapshot is what the broker reported
\* last, and an order waiting for its margin has been judged on this very world.
LoopInv ==
    /\ WorldTyped(world)
    /\ \A o \in offered : OrderOK(o)
    /\ FundsOK(funds) /\ FundsOK(truth) /\ (funds.has => truth = funds)
    /\ Up => make_engine(engine)
    /\ at \in {"entry", "margin"} => order.kind = "entry"
    /\ at = "exit" => order.kind # "entry" /\ OrderOK(order)
    /\ at = "margin" => JudgedEarly(engine, world) /\ JudgedRisk(world)

LEMMA SourceTyped ==
  ASSUME NEW field, NEW value, SourceOK(field, value)
  PROVE  /\ field = "book" => value \in Book
         /\ field = "limits" => value \in Limits
         /\ field = "quote" => value \in MarginQuote
         /\ field = "available" => value \in Int
         /\ field = "duplicate" => value \in {"new", "seen", "error"}
<1>1. ASSUME field = "book" PROVE value \in Book
  BY <1>1, Zenon DEF SourceOK
<1>2. ASSUME field = "limits" PROVE value \in Limits
  BY <1>2, Zenon DEF SourceOK
<1>3. ASSUME field = "quote" PROVE value \in MarginQuote
  BY <1>3, Zenon DEF SourceOK
<1>4. ASSUME field = "available" PROVE value \in Int
  BY <1>4, Zenon DEF SourceOK
<1>5. ASSUME field = "duplicate" PROVE value \in {"new", "seen", "error"}
  BY <1>5, Zenon DEF SourceOK
<1> QED BY <1>1, <1>2, <1>3, <1>4, <1>5

LEMMA CalmTyped == WorldTyped(Calm)
<1>1. {"book", "limits", "quote", "available", "duplicate"} \subseteq DOMAIN Calm
  BY ControlsAssumption
<1>2. /\ SourceOK("book", Calm["book"]) /\ SourceOK("limits", Calm["limits"])
      /\ SourceOK("quote", Calm["quote"]) /\ SourceOK("available", Calm["available"])
      /\ SourceOK("duplicate", Calm["duplicate"])
  BY <1>1, ControlsAssumption
<1> QED BY <1>1, <1>2, SourceTyped DEF WorldTyped

LEMMA DeviationTyped ==
  ASSUME NEW d \in Deviations, WorldTyped(world), world' = [world EXCEPT ![d.field] = d.value]
  PROVE  WorldTyped(world')
<1>1. SourceOK(d.field, d.value)
  BY ControlsAssumption
<1>2. DOMAIN world' = DOMAIN world
  OBVIOUS
<1>3. \A f \in DOMAIN world : world'[f] = IF f = d.field THEN d.value ELSE world[f]
  OBVIOUS
<1>4. {"book", "limits", "quote", "available", "duplicate"} \subseteq DOMAIN world
  BY DEF WorldTyped
<1>5. world'["book"] \in Book
  BY <1>1, <1>3, <1>4, SourceTyped DEF WorldTyped
<1>6. world'["limits"] \in Limits
  BY <1>1, <1>3, <1>4, SourceTyped DEF WorldTyped
<1>7. world'["quote"] \in MarginQuote
  BY <1>1, <1>3, <1>4, SourceTyped DEF WorldTyped
<1>8. world'["available"] \in Int
  BY <1>1, <1>3, <1>4, SourceTyped DEF WorldTyped
<1>9. world'["duplicate"] \in {"new", "seen", "error"}
  BY <1>1, <1>3, <1>4, SourceTyped DEF WorldTyped
<1> QED BY <1>2, <1>4, <1>5, <1>6, <1>7, <1>8, <1>9 DEF WorldTyped

\* A fetch keeps the view and the broker's last word together.
LEMMA FetchKeepsFunds ==
  ASSUME FundsOK(funds), FundsOK(truth), funds.has => truth = funds, world.available \in Int, Fetch
  PROVE  /\ FundsOK(funds') /\ FundsOK(truth') /\ (funds'.has => truth' = funds')
         /\ funds' = ensure_fresh(funds, world)
<1>0. funds' = ensure_fresh(funds, world)
  BY DEF Fetch
<1>1. CASE is_fresh(funds) \/ ~world.line
  <2>1. funds' = funds /\ truth' = truth
    BY <1>1 DEF Fetch, ensure_fresh
  <2> QED BY <1>0, <2>1
<1>2. CASE ~(is_fresh(funds) \/ ~world.line)
  <2> DEFINE new == [has |-> TRUE, age |-> 0, available |-> world.available]
  <2>1. funds' = new /\ truth' = new
    BY <1>2 DEF Fetch, ensure_fresh
  <2>2. FundsOK(new)
    BY DEF FundsOK
  <2> HIDE DEF new
  <2> QED BY <1>0, <2>1, <2>2
<1> QED BY <1>1, <1>2

LEMMA AgeingKeepsFunds ==
  ASSUME NEW f, FundsOK(f)
  PROVE  FundsOK([f EXCEPT !.age = Least(@ + 1, Cadence + 1)])
BY PreflightAssumption DEF FundsOK, Least

LEMMA NoFundsOK == FundsOK(NoFunds) /\ ~NoFunds.has
BY DEF FundsOK, NoFunds

\* What every step leaves alone, or may only replace by something typed.
LoopFrame ==
    /\ WorldTyped(world') /\ offered' = offered /\ engine' = engine
    /\ FundsOK(funds') /\ FundsOK(truth') /\ (funds'.has => truth' = funds')

LEMMA FrameHolds == LoopInv /\ [Next]_vars => LoopFrame
<1> SUFFICES ASSUME LoopInv, [Next]_vars PROVE LoopFrame
  OBVIOUS
<1>0. /\ WorldTyped(world) /\ FundsOK(funds) /\ FundsOK(truth) /\ (funds.has => truth = funds)
      /\ world.available \in Int
  BY DEF LoopInv, WorldTyped
<1>1. CASE UNCHANGED <<engine, offered, world, funds, truth>>
  BY <1>0, <1>1 DEF LoopFrame
<1>2. ASSUME Start PROVE LoopFrame
  BY <1>1, <1>2 DEF Start
<1>3. CASE Crash
  BY <1>0, <1>3, NoFundsOK DEF Crash, LoopFrame
<1>4. CASE Control
  BY <1>1, <1>4 DEF Control
<1>5. CASE Tick
  <2>1. /\ funds' = [funds EXCEPT !.age = Least(@ + 1, Cadence + 1)]
        /\ truth' = [truth EXCEPT !.age = Least(@ + 1, Cadence + 1)]
        /\ UNCHANGED <<engine, offered, world>>
    BY <1>5 DEF Tick
  <2>2. FundsOK(funds') /\ FundsOK(truth')
    BY <1>0, <2>1, AgeingKeepsFunds
  <2>3. funds'.has = funds.has
    BY <1>0, <2>1 DEF FundsOK
  <2> QED BY <1>0, <2>1, <2>2, <2>3 DEF LoopFrame
<1>6. CASE Fill
  <2>1. funds' = [funds EXCEPT !.has = FALSE] /\ truth' = NoFunds /\ UNCHANGED <<engine, offered, world>>
    BY <1>6 DEF Fill, invalidate
  <2>2. FundsOK(funds') /\ ~funds'.has
    BY <1>0, <2>1 DEF FundsOK
  <2> QED BY <1>0, <2>1, <2>2, NoFundsOK DEF LoopFrame
<1>7. ASSUME NEW d \in Deviations, Deviate(d) PROVE LoopFrame
  <2>1. world' = [world EXCEPT ![d.field] = d.value] /\ UNCHANGED <<engine, offered, funds, truth>>
    BY <1>7 DEF Deviate
  <2>2. WorldTyped(world')
    BY <1>0, <2>1, DeviationTyped
  <2> QED BY <1>0, <2>1, <2>2 DEF LoopFrame
<1>8. ASSUME NEW o \in offered, LoopTop(o) PROVE LoopFrame
  BY <1>1, <1>8 DEF LoopTop
<1>9. CASE PreflightEntry
  <2>1. UNCHANGED <<engine, offered, world>> /\ (Fetch \/ UNCHANGED <<funds, truth>>)
    BY <1>9 DEF PreflightEntry
  <2>2. CASE Fetch
    <3>1. FundsOK(funds') /\ FundsOK(truth') /\ (funds'.has => truth' = funds')
      BY <1>0, <2>2, FetchKeepsFunds
    <3> QED BY <1>0, <2>1, <3>1 DEF LoopFrame
  <2> QED BY <1>1, <2>1, <2>2
<1>10. CASE PreflightMargin
  <2>1. UNCHANGED <<engine, offered, world>> /\ (Fetch \/ UNCHANGED <<funds, truth>>)
    BY <1>10 DEF PreflightMargin
  <2>2. CASE Fetch
    <3>1. FundsOK(funds') /\ FundsOK(truth') /\ (funds'.has => truth' = funds')
      BY <1>0, <2>2, FetchKeepsFunds
    <3> QED BY <1>0, <2>1, <3>1 DEF LoopFrame
  <2> QED BY <1>1, <2>1, <2>2
<1>11. CASE PreflightExit
  BY <1>1, <1>11 DEF PreflightExit
<1>12. CASE BeforeDispatch \/ Dispatch
  BY <1>1, <1>12 DEF BeforeDispatch, Dispatch
<1>13. ASSUME NEW throttled \in BOOLEAN, Reply(throttled) PROVE LoopFrame
  BY <1>1, <1>13 DEF Reply
<1>14. ASSUME NEW c \in Classes, Quote(c) PROVE LoopFrame
  BY <1>1, <1>14 DEF Quote, loopVars
<1>15. CASE UNCHANGED vars
  BY <1>1, <1>15 DEF vars, loopVars
<1> QED
  BY <1>2, <1>3, <1>4, <1>5, <1>6, <1>7, <1>8, <1>9, <1>10, <1>11, <1>12, <1>13, <1>14, <1>15
  DEF Next

\* The gate lets an order through to the margin check only if it judged it.
LEMMA GateJudges ==
  ASSUME LoopInv, PreflightEntry, at' = "margin"
  PROVE  JudgedEarly(engine, world) /\ JudgedRisk(world)
<1> DEFINE blocked == blocks_strategy(order.strategy)
           before == EntryBeforeFunds(engine, order, world, blocked, kill_posture)
           after == EntryFromFunds(engine, order, world, ensure_fresh(funds, world))
<1>1. at = "entry" /\ before.ok /\ after.ok
  BY DEF PreflightEntry
<1>2. make_engine(engine) /\ WorldTyped(world) /\ world.duplicate \in {"new", "seen", "error"}
  BY <1>1 DEF LoopInv, Up, WorldTyped
<1>3. blocked \in BOOLEAN /\ kill_posture \in AllPostures
  BY KillPosture DEF blocks_strategy, AllPostures
<1> HIDE DEF blocked
<1>4. JudgedEarly(engine, world)
  BY <1>1, <1>2, <1>3, BeforeFundsJudges
<1>5. JudgedRisk(world)
  BY <1>1, <1>2, FromFundsJudges
<1> QED BY <1>4, <1>5

LEMMA LoopInvPreserved == LoopInv /\ [Next]_vars => LoopInv'
<1> SUFFICES ASSUME LoopInv, [Next]_vars PROVE LoopInv'
  OBVIOUS
<1>0. LoopFrame
  BY FrameHolds
<1>1. /\ WorldTyped(world)' /\ (\A o \in offered : OrderOK(o))'
      /\ FundsOK(funds)' /\ FundsOK(truth)' /\ (funds.has => truth = funds)'
  BY <1>0 DEF LoopInv, LoopFrame
<1> DEFINE Rest == /\ Up => make_engine(engine)
                   /\ at \in {"entry", "margin"} => order.kind = "entry"
                   /\ at = "exit" => order.kind # "entry" /\ OrderOK(order)
                   /\ at = "margin" => JudgedEarly(engine, world) /\ JudgedRisk(world)
<1> SUFFICES Rest'
  BY <1>1 DEF LoopInv
<1>2. engine' = engine
  BY <1>0 DEF LoopFrame
<1>3. CASE at' \in {"top", "dispatch", "send", "reply"} /\ Up
  BY <1>2, <1>3 DEF LoopInv, Up
<1>4. CASE at' \in {"down", "refused"}
  BY <1>4 DEF Up
<1>5. CASE UNCHANGED <<at, order, world>>
  BY <1>2, <1>5 DEF LoopInv, Up
<1>6. ASSUME Start PROVE Rest'
  <2>1. at' \in {"down", "refused"} \/ (at' = "top" /\ make_engine(engine))
    BY <1>6 DEF Start
  <2> QED BY <1>2, <1>4, <2>1
<1>7. CASE Crash
  BY <1>4, <1>7 DEF Crash
<1>8. CASE Control \/ Tick
  BY <1>5, <1>8 DEF Control, Tick
<1>9. CASE Fill
  BY <1>5, <1>9 DEF Fill
<1>10. ASSUME NEW d \in Deviations, Deviate(d) PROVE Rest'
  BY <1>3, <1>10 DEF Deviate, Up
<1>11. ASSUME NEW o \in offered, LoopTop(o) PROVE Rest'
  <2>1. /\ order' = o /\ OrderOK(o) /\ Up
        /\ at' = IF o.kind = "entry" THEN "entry" ELSE "exit"
    BY <1>11 DEF LoopTop, Up, LoopInv
  <2> QED BY <1>2, <2>1 DEF LoopInv, Up
<1>12. CASE PreflightEntry
  <2>1. at = "entry" /\ order' = order /\ at' \in {"margin", "top"} /\ world' = world /\ Up
    BY <1>12 DEF PreflightEntry, Up
  <2>2. CASE at' = "margin"
    BY <1>2, <1>12, <2>1, <2>2, GateJudges DEF LoopInv, Up
  <2> QED BY <1>3, <2>1, <2>2
<1>13. CASE PreflightMargin
  BY <1>3, <1>13 DEF PreflightMargin, Up
<1>14. CASE PreflightExit
  BY <1>3, <1>14 DEF PreflightExit, Up
<1>15. CASE BeforeDispatch \/ Dispatch
  BY <1>3, <1>15 DEF BeforeDispatch, Dispatch, Up
<1>16. ASSUME NEW throttled \in BOOLEAN, Reply(throttled) PROVE Rest'
  BY <1>3, <1>16 DEF Reply, Up
<1>17. ASSUME NEW c \in Classes, Quote(c) PROVE Rest'
  BY <1>5, <1>17 DEF Quote, loopVars
<1>18. CASE UNCHANGED vars
  BY <1>5, <1>18 DEF vars, loopVars
<1> HIDE DEF Rest
<1> QED
  BY <1>6, <1>7, <1>8, <1>9, <1>10, <1>11, <1>12, <1>13, <1>14, <1>15, <1>16, <1>17, <1>18 DEF Next

LEMMA LoopInvInit == Init => LoopInv
<1> SUFFICES ASSUME Init PROVE LoopInv
  OBVIOUS
<1>1. world = Calm /\ funds = NoFunds /\ truth = NoFunds /\ at = "down"
  BY DEF Init
<1>2. PICK s \in Scenarios : offered = s.orders
  BY DEF Init
<1>3. \A o \in offered : OrderOK(o)
  BY <1>2, ControlsAssumption
<1> QED BY <1>1, <1>3, CalmTyped, NoFundsOK DEF LoopInv, Up

-----------------------------------------------------------------------------
(* Entries.                                                                *)

\* A verdict is given by one of three steps, and otherwise kept or dropped.
LEMMA VerdictIsWatched ==
  ASSUME [Next]_vars
  PROVE  last' = last \/ last' = NoVerdict \/ PreflightEntry \/ PreflightMargin \/ PreflightExit
BY DEF Next, Start, Crash, Control, Tick, Fill, Deviate, LoopTop, BeforeDispatch, Dispatch,
       Reply, Quote, vars, loopVars

LEMMA VerdictFields ==
  ASSUME NEW v, Verdict(v)
  PROVE  /\ last'.order = order /\ last'.verdict = v /\ last'.world = world
         /\ last'.truth = truth' /\ last'.panic = panic_active
BY DEF Verdict

LEMMA MarginJudges ==
  ASSUME LoopInv, PreflightMargin, last'.verdict.ok
  PROVE  /\ last'.world = world /\ JudgedEarly(engine, world) /\ JudgedRisk(world)
         /\ last'.truth.has /\ last'.truth.age <= Cadence
         /\ last'.truth.available >=
               Least(PaiseMax, world.quote.api_required + Buffer.flat
                               + Ceil(world.quote.api_required * Buffer.bps, 10000))
<1> DEFINE band == EntryBand(engine, order)
           f == ensure_fresh(funds, world)
           v == IF band.ok THEN EntryMargin(world, f) ELSE band
<1>1. /\ at = "margin" /\ Verdict(v)
      /\ IF band.ok THEN Fetch ELSE UNCHANGED <<funds, truth>>
  BY DEF PreflightMargin
<1> HIDE DEF band, f, v
<1>2. v.ok /\ last'.world = world /\ last'.truth = truth'
  BY <1>1, VerdictFields
<1>3. band.ok /\ EntryMargin(world, f).ok
  BY <1>2 DEF v
<1>4. JudgedEarly(engine, world) /\ JudgedRisk(world)
  BY <1>1 DEF LoopInv
<1>5. FundsOK(funds) /\ FundsOK(truth) /\ (funds.has => truth = funds) /\ world.available \in Int
  BY DEF LoopInv, WorldTyped
<1>6. funds' = f /\ FundsOK(funds') /\ (funds'.has => truth' = funds')
  BY <1>1, <1>3, <1>5, FetchKeepsFunds DEF f
<1> DEFINE c1 == Check(is_fresh(f), "margin", "DataStale")
           c2 == Check(require_margin_ok(f, world.quote), "margin", "RiskRejected")
<1>7. EntryMargin(world, f) = FirstRefusal(<<c1, c2>>)
  BY DEF EntryMargin
<1>8. (c1.ok <=> is_fresh(f)) /\ (c2.ok <=> require_margin_ok(f, world.quote))
  BY DEF Check, Pass, Refuse
<1> HIDE DEF c1, c2
<1>9. is_fresh(f) /\ require_margin_ok(f, world.quote)
  BY <1>3, <1>7, <1>8, TwoOk
<1>10. truth' = f /\ f.has /\ f.age <= Cadence /\ f.available \in Int
  BY <1>6, <1>9 DEF is_fresh, FundsOK
<1>11. world.quote \in MarginQuote /\ world.quote.api_required > 0
  BY <1>4 DEF LoopInv, WorldTyped, JudgedEarly
<1>12. f.available >= Least(PaiseMax, world.quote.api_required + Buffer.flat
                                      + Ceil(world.quote.api_required * Buffer.bps, 10000))
  BY <1>9, <1>10, <1>11, MarginCovers
<1> QED BY <1>2, <1>4, <1>10, <1>12

(* Whatever was wired and whatever the sources report, preflight_entry     *)
(* admits an entry only after judging it: market open, no duplicate, pause *)
(* or detector, a live session, risk limits armed or declared absent and   *)
(* kept; and on margin the broker reported since the last fill, within the *)
(* cadence, that covers the requirement with its buffer.                   *)
THEOREM EntriesAreJudged == Spec => []EntryIsJudged
<1>1. Init => LoopInv /\ EntryIsJudged
  BY LoopInvInit DEF Init, NoVerdict, EntryIsJudged, NoVacuousEntry, AdmittedOnTruth
<1>2. LoopInv /\ EntryIsJudged /\ [Next]_vars => LoopInv' /\ EntryIsJudged'
  <2> SUFFICES ASSUME LoopInv, EntryIsJudged, [Next]_vars PROVE EntryIsJudged'
    BY LoopInvPreserved
  <2>0. engine' = engine
    BY FrameHolds DEF LoopFrame
  <2>1. CASE last' = last
    BY <2>0, <2>1 DEF EntryIsJudged, NoVacuousEntry, AdmittedOnTruth, ReallyJudged
  <2>2. CASE last' = NoVerdict
    BY <2>2 DEF NoVerdict, EntryIsJudged, NoVacuousEntry, AdmittedOnTruth
  <2>3. CASE PreflightEntry /\ last' # last
    <3>1. ~last'.verdict.ok
      BY <2>3 DEF PreflightEntry, Verdict
    <3> QED BY <3>1 DEF EntryIsJudged, NoVacuousEntry, AdmittedOnTruth
  <2>4. CASE PreflightMargin
    <3>1. CASE ~last'.verdict.ok
      BY <3>1 DEF EntryIsJudged, NoVacuousEntry, AdmittedOnTruth
    <3>2. CASE last'.verdict.ok
      <4>1. /\ last'.world = world /\ JudgedEarly(engine, world) /\ JudgedRisk(world)
            /\ last'.truth.has /\ last'.truth.age <= Cadence
            /\ last'.truth.available >=
                  Least(PaiseMax, world.quote.api_required + Buffer.flat
                                  + Ceil(world.quote.api_required * Buffer.bps, 10000))
        BY <2>4, <3>2, MarginJudges
      <4>2. AdmittedOnTruth'
        BY <4>1 DEF AdmittedOnTruth
      <4>3. NoVacuousEntry'
        BY <2>0, <4>1 DEF NoVacuousEntry, ReallyJudged, JudgedEarly, JudgedRisk
      <4> QED BY <4>2, <4>3 DEF EntryIsJudged
    <3> QED BY <3>1, <3>2
  <2>5. CASE PreflightExit
    <3>1. last'.order = order /\ order.kind # "entry"
      BY <2>5 DEF PreflightExit, Verdict, LoopInv
    <3> QED BY <3>1 DEF EntryIsJudged, NoVacuousEntry, AdmittedOnTruth
  <2> QED BY <2>1, <2>2, <2>3, <2>4, <2>5, VerdictIsWatched
<1> QED BY <1>1, <1>2, PTL DEF Spec

-----------------------------------------------------------------------------
(* Exits.                                                                  *)

\* What an exit that passed, or an exit of a sound shape, went through.
LEMMA ExitChainOk ==
  ASSUME NEW e, NEW o, NEW w, NEW blocked \in BOOLEAN, NEW floor
  PROVE  /\ exit_chain(e, o, w, blocked, floor).ok => OrderChecks(e, o).ok
         /\ /\ evaluate_posture_for_strategy(w, blocked, floor) # "Panic"
            /\ o.symbol = o.instrument.symbol /\ OrderChecks(e, o).ok
            /\ ~e.options.risk_gates_exits /\ o.hedged
            => exit_chain(e, o, w, blocked, floor).ok
<1> DEFINE v1 == Check(allows_risk_reducing_exits(evaluate_posture_for_strategy(w, blocked, floor)),
                       "posture", "RiskRejected")
           v2 == Check(require_op_allowed(assess_session(w.session, w.text), "exit"),
                       "session", "SessionExpired")
           v3 == Check(o.symbol = o.instrument.symbol, "instrument", "Validation")
           v4 == OrderChecks(e, o)
           v5 == IF e.options.risk_gates_exits THEN RiskCheck(o, w, FALSE) ELSE Pass
           v6 == HedgeCheck(e, o)
<1>1. exit_chain(e, o, w, blocked, floor) = FirstRefusal(<<v1, v2, v3, v4, v5, v6>>)
  BY DEF exit_chain
<1>2. v1.ok <=> evaluate_posture_for_strategy(w, blocked, floor) # "Panic"
  BY DEF Check, Pass, Refuse, allows_risk_reducing_exits
<1>3. v2.ok
  BY DEF Check, Pass, Refuse, require_op_allowed
<1>4. v3.ok <=> o.symbol = o.instrument.symbol
  BY DEF Check, Pass, Refuse
<1>5. ~e.options.risk_gates_exits => v5.ok
  BY DEF Pass
<1>6. o.hedged => v6.ok
  BY DEF HedgeCheck, Check, Pass, Refuse
<1>7. v4 = OrderChecks(e, o)
  OBVIOUS
<1> HIDE DEF v1, v2, v3, v4, v5, v6
<1>8. exit_chain(e, o, w, blocked, floor).ok <=> v1.ok /\ v2.ok /\ v3.ok /\ v4.ok /\ v5.ok /\ v6.ok
  BY <1>1, SixOk
<1> QED BY <1>2, <1>3, <1>4, <1>5, <1>6, <1>7, <1>8

\* Only the kill floor reaches Panic.
LEMMA PanicIsTheOperators ==
  ASSUME NEW w, NEW blocked \in BOOLEAN,
         evaluate_posture_for_strategy(w, blocked, kill_posture) = "Panic"
  PROVE  panic_active
<1> DEFINE floor == IF blocked THEN kill_posture ELSE "Normal"
<1>1. floor \in AllPostures
  BY KillPosture DEF AllPostures
<1>2. floor = "Panic" => panic_active
  BY KillPosture
<1>3. evaluate(w.signals, floor) = "Panic"
  BY DEF evaluate_posture_for_strategy
<1> HIDE DEF floor
<1>4. evaluate(w.signals, floor) = floor \/ \E s \in w.signals : evaluate(w.signals, floor) = posture_for(s)
  BY <1>1, EvaluateIsSeverest
<1> QED BY <1>2, <1>3, <1>4, PostureFor

LEMMA SoundExitPasses ==
  ASSUME NEW o, NEW w, NEW blocked \in BOOLEAN, SoundShape(o), ~engine.options.risk_gates_exits,
         ~preflight_exit(engine, o, w, blocked, kill_posture).ok
  PROVE  panic_active
<1> DEFINE class == Check("is_reducing" \in engine.deps => o.reduces, "exit-class", "Validation")
           chain == exit_chain(engine, o, w, blocked, kill_posture)
<1>1. preflight_exit(engine, o, w, blocked, kill_posture) = FirstRefusal(<<class, chain>>)
  BY DEF preflight_exit
<1>2. class.ok
  BY DEF Check, Pass, Refuse, SoundShape
<1>3. OrderChecks(engine, o).ok
  BY OrderChecksOk DEF SoundShape, freeze_ok
<1>4. o.symbol = o.instrument.symbol /\ o.hedged
  BY DEF SoundShape
<1>5. chain.ok \/ evaluate_posture_for_strategy(w, blocked, kill_posture) = "Panic"
  BY <1>3, <1>4, ExitChainOk
<1> HIDE DEF class, chain
<1>6. ~chain.ok
  BY <1>1, <1>2, TwoOk
<1> QED BY <1>5, <1>6, PanicIsTheOperators

\* A price moved into the band keeps its side of another that is moved too.
LEMMA ClampMonotone ==
  ASSUME NEW a \in Int, NEW b \in Int, NEW band \in [known : BOOLEAN, lower : Int, upper : Int],
         band.lower <= band.upper
  PROVE  /\ clamp(a, band) \in Int /\ in_band(clamp(a, band), band)
         /\ a <= b => clamp(a, band) <= clamp(b, band)
<1>1. band.lower \in Int /\ band.upper \in Int
  OBVIOUS
<1> QED BY <1>1 DEF clamp, in_band

LEMMA ClampedOrder ==
  ASSUME NEW o, OrderOK(o), NEW c, c = apply_clamp(o)
  PROVE  /\ c.kind = o.kind /\ c.type = o.type /\ c.side = o.side /\ c.band = o.band
         /\ check_price_band(o, TRUE) # "OutsideBandExitClamped" => c = o
         /\ check_price_band(o, TRUE) = "OutsideBandExitClamped" =>
              /\ c.price = IF uses_limit_price(o.type) THEN clamp(o.price, o.band) ELSE o.price
              /\ c.trigger = IF uses_trigger_price(o.type) THEN clamp(o.trigger, o.band) ELSE o.trigger
<1>1. CASE check_price_band(o, TRUE) # "OutsideBandExitClamped"
  BY <1>1 DEF apply_clamp
<1>2. CASE check_price_band(o, TRUE) = "OutsideBandExitClamped"
  <2> DEFINE price == IF uses_limit_price(o.type) THEN clamp(o.price, o.band) ELSE o.price
             trigger == IF uses_trigger_price(o.type) THEN clamp(o.trigger, o.band) ELSE o.trigger
             mid == [o EXCEPT !.price = price]
  <2>1. {"kind", "type", "side", "band", "price", "trigger"} \subseteq DOMAIN o
    BY DEF OrderOK
  <2>2. c = [mid EXCEPT !.trigger = IF uses_trigger_price(o.type) THEN clamp(@, o.band) ELSE @]
    BY <1>2 DEF apply_clamp
  <2> HIDE DEF price
  <2>3. /\ DOMAIN mid = DOMAIN o /\ mid.price = price
        /\ mid.kind = o.kind /\ mid.type = o.type /\ mid.side = o.side /\ mid.band = o.band
        /\ mid.trigger = o.trigger
    BY <2>1
  <2> HIDE DEF mid
  <2>4. c = [mid EXCEPT !.trigger = trigger]
    BY <2>2, <2>3
  <2> HIDE DEF trigger
  <2>5. /\ c.kind = o.kind /\ c.type = o.type /\ c.side = o.side /\ c.band = o.band
        /\ c.price = price /\ c.trigger = trigger
    BY <2>1, <2>3, <2>4
  <2> QED BY <1>2, <2>5 DEF price, trigger
<1> QED BY <1>1, <1>2

\* An exit of a valid shape still has one once its prices are moved into the band.
LEMMA ClampKeepsShape ==
  ASSUME NEW o, OrderOK(o), shape_ok(o), Banded(o), NEW c, c = apply_clamp(o)
  PROVE  /\ shape_ok(c)
         /\ uses_limit_price(c.type) => in_band(c.price, c.band)
         /\ uses_trigger_price(c.type) => in_band(c.trigger, c.band)
<1>1. /\ c.kind = o.kind /\ c.type = o.type /\ c.side = o.side /\ c.band = o.band
      /\ check_price_band(o, TRUE) # "OutsideBandExitClamped" => c = o
      /\ check_price_band(o, TRUE) = "OutsideBandExitClamped" =>
           /\ c.price = IF uses_limit_price(o.type) THEN clamp(o.price, o.band) ELSE o.price
           /\ c.trigger = IF uses_trigger_price(o.type) THEN clamp(o.trigger, o.band) ELSE o.trigger
  BY ClampedOrder
<1>2. o.price \in Int /\ o.trigger \in Int /\ o.band \in [known : BOOLEAN, lower : Int, upper : Int]
  BY DEF OrderOK
<1>3. o.band.known /\ 0 < o.band.lower /\ o.band.lower <= o.band.upper /\ o.band.lower \in Int
      /\ o.band.upper \in Int
  BY <1>2 DEF Banded
<1>4. CASE check_price_band(o, TRUE) # "OutsideBandExitClamped"
  BY <1>1, <1>3, <1>4 DEF check_price_band
<1>5. CASE check_price_band(o, TRUE) = "OutsideBandExitClamped"
  <2> DEFINE p == clamp(o.price, o.band)
             t == clamp(o.trigger, o.band)
  <2>1. /\ p \in Int /\ t \in Int /\ in_band(p, o.band) /\ in_band(t, o.band)
        /\ o.price <= o.trigger => p <= t
        /\ o.trigger <= o.price => t <= p
    BY <1>2, <1>3, ClampMonotone
  <2> HIDE DEF p, t
  <2>2. t # 0
    BY <1>3, <2>1 DEF in_band
  <2>3. /\ c.price = IF uses_limit_price(o.type) THEN p ELSE o.price
        /\ c.trigger = IF uses_trigger_price(o.type) THEN t ELSE o.trigger
    BY <1>1, <1>5 DEF p, t
  <2>4. uses_trigger_price(c.type) <=> c.trigger # 0
    BY <1>1, <2>2, <2>3 DEF shape_ok
  <2>5. ASSUME c.type = "StopLoss"
        PROVE  IF c.side = "Sell" THEN c.price <= c.trigger ELSE c.price >= c.trigger
    <3>1. c.price = p /\ c.trigger = t
      BY <1>1, <2>3, <2>5 DEF uses_limit_price, uses_trigger_price
    <3>2. IF o.side = "Sell" THEN o.price <= o.trigger ELSE o.trigger <= o.price
      BY <1>1, <1>2, <2>5 DEF shape_ok
    <3> QED BY <1>1, <2>1, <3>1, <3>2
  <2>6. /\ uses_limit_price(c.type) => in_band(c.price, c.band)
        /\ uses_trigger_price(c.type) => in_band(c.trigger, c.band)
    BY <1>1, <2>1, <2>3
  <2> QED BY <2>4, <2>5, <2>6 DEF shape_ok
<1> QED BY <1>4, <1>5

\* The two halves of ExitNeverStranded.
SoundExitNeedsPanic ==
    last.order # NoOrder /\ last.order.kind = "exit" /\ SoundShape(last.order)
    /\ ~engine.options.risk_gates_exits /\ ~last.verdict.ok => last.panic
ExitInBand ==
    at \in {"dispatch", "send", "reply"} /\ order.kind # "entry" /\ Banded(order) =>
        /\ shape_ok(order)
        /\ uses_limit_price(order.type) => in_band(order.price, order.band)
        /\ uses_trigger_price(order.type) => in_band(order.trigger, order.band)

LEMMA ExitGivesVerdict ==
  ASSUME LoopInv, PreflightExit
  PROVE  /\ at' = "dispatch" => OrderChecks(engine, order).ok /\ order' = apply_clamp(order)
         /\ at' \in {"dispatch", "top"}
         /\ order.kind = "exit" /\ SoundShape(order) /\ ~engine.options.risk_gates_exits
            /\ ~last'.verdict.ok => last'.panic
         /\ last'.order = order
<1> DEFINE blocked == blocks_strategy(order.strategy)
           chain == exit_chain(engine, order, world, blocked, kill_posture)
           modify == Check(evaluate_modify(order.modify) = "Allow", "modify-guard",
                           rejection_for(evaluate_modify(order.modify)))
           class == Check("is_reducing" \in engine.deps => order.reduces, "exit-class", "Validation")
           v == IF order.kind = "modify"
                THEN preflight_modify(engine, order, world, blocked, kill_posture)
                ELSE preflight_exit(engine, order, world, blocked, kill_posture)
<1>1. /\ Verdict(v) /\ (at' = "dispatch" => v.ok /\ order' = apply_clamp(order))
      /\ at' \in {"dispatch", "top"}
  BY DEF PreflightExit
<1>2. blocked \in BOOLEAN
  BY DEF blocks_strategy
<1>3. /\ preflight_modify(engine, order, world, blocked, kill_posture) = FirstRefusal(<<modify, chain>>)
      /\ preflight_exit(engine, order, world, blocked, kill_posture) = FirstRefusal(<<class, chain>>)
  BY DEF preflight_modify, preflight_exit
<1> HIDE DEF blocked, modify, class
<1>4. chain.ok => OrderChecks(engine, order).ok
  BY <1>2, ExitChainOk
<1>5. v.ok => chain.ok
  <2> HIDE DEF chain
  <2> QED BY <1>3, TwoOk
<1>6. order.kind = "exit" => v = preflight_exit(engine, order, world, blocked, kill_posture)
  OBVIOUS
<1> HIDE DEF v
<1>7. last'.order = order /\ last'.verdict = v /\ last'.panic = panic_active
  BY <1>1, VerdictFields
<1> HIDE DEF chain
<1>8. ASSUME order.kind = "exit", SoundShape(order), ~engine.options.risk_gates_exits, ~v.ok
      PROVE  panic_active
  BY <1>2, <1>6, <1>8, SoundExitPasses
<1> QED BY <1>1, <1>4, <1>5, <1>7, <1>8

(* An exit of a sound shape is refused only under a panic kill, whatever   *)
(* the detectors, the session, the pause, the clock, the funds and the     *)
(* losses say; and the prices an exit is sent with lie in a known band     *)
(* with trigger and price still in order.                                  *)
THEOREM ExitsAreNeverStranded == Spec => []ExitNeverStranded
<1> DEFINE Inv == LoopInv /\ SoundExitNeedsPanic /\ ExitInBand
<1>1. Init => Inv
  BY LoopInvInit DEF Init, NoVerdict, SoundExitNeedsPanic, ExitInBand
<1>2. Inv /\ [Next]_vars => Inv'
  <2> SUFFICES ASSUME Inv, [Next]_vars PROVE SoundExitNeedsPanic' /\ ExitInBand'
    BY LoopInvPreserved
  <2>0. engine' = engine
    BY FrameHolds DEF LoopFrame
  <2>1. SoundExitNeedsPanic'
    <3>1. CASE last' = last
      BY <2>0, <3>1 DEF SoundExitNeedsPanic, SoundShape, freeze_ok
    <3>2. CASE last' = NoVerdict
      BY <3>2 DEF NoVerdict, SoundExitNeedsPanic
    <3>3. CASE (PreflightEntry \/ PreflightMargin) /\ last' # last
      <4>1. last'.order = order /\ order.kind = "entry"
        BY <3>3 DEF PreflightEntry, PreflightMargin, Verdict, LoopInv
      <4> QED BY <4>1 DEF SoundExitNeedsPanic
    <3>4. CASE PreflightExit
      <4>1. SoundShape(last.order)' => SoundShape(last'.order)
        BY <2>0 DEF SoundShape
      <4> QED BY <2>0, <3>4, <4>1, ExitGivesVerdict DEF SoundExitNeedsPanic
    <3> QED BY <3>1, <3>2, <3>3, <3>4, VerdictIsWatched
  <2>2. ExitInBand'
    <3>1. CASE UNCHANGED order /\ at \in {"dispatch", "send", "reply"}
      BY <3>1 DEF ExitInBand
    <3>2. CASE at' \notin {"dispatch", "send", "reply"}
      BY <3>2 DEF ExitInBand
    <3>3. CASE PreflightMargin
      BY <3>3 DEF PreflightMargin, LoopInv, ExitInBand
    <3>4. CASE PreflightExit /\ at' = "dispatch"
      <4>1. OrderChecks(engine, order).ok /\ order' = apply_clamp(order) /\ OrderOK(order)
        BY <3>4, ExitGivesVerdict DEF PreflightExit, LoopInv
      <4>2. shape_ok(order)
        BY <4>1, OrderChecksOk
      <4>3. order'.band = order.band
        BY <4>1, ClampedOrder
      <4>4. Banded(order') => Banded(order)
        BY <4>3 DEF Banded
      <4>5. Banded(order) =>
              /\ shape_ok(order')
              /\ uses_limit_price(order'.type) => in_band(order'.price, order'.band)
              /\ uses_trigger_price(order'.type) => in_band(order'.trigger, order'.band)
        BY <4>1, <4>2, ClampKeepsShape
      <4> QED BY <4>4, <4>5 DEF ExitInBand
    <3>5. CASE PreflightExit /\ at' # "dispatch"
      BY <3>2, <3>5, ExitGivesVerdict
    <3>6. CASE UNCHANGED <<at, order>>
      BY <3>6 DEF ExitInBand
    <3>7. PreflightMargin \/ PreflightExit \/ UNCHANGED <<at, order>>
          \/ at' \notin {"dispatch", "send", "reply"}
          \/ (UNCHANGED order /\ at \in {"dispatch", "send", "reply"})
      BY DEF Next, Start, Crash, Control, Tick, Fill, Deviate, LoopTop, PreflightEntry, BeforeDispatch,
             Dispatch, Reply, Quote, vars, loopVars
    <3> QED BY <3>1, <3>2, <3>3, <3>4, <3>5, <3>6, <3>7
  <2> QED BY <2>1, <2>2
<1>3. Inv => ExitNeverStranded
  BY DEF SoundExitNeedsPanic, ExitInBand, ExitNeverStranded
<1> QED BY <1>1, <1>2, <1>3, PTL DEF Spec

-----------------------------------------------------------------------------
(* Natural numbers: a set that is not empty has a least element, and a     *)
(* value for 0 with a step for every n makes a function.                   *)
LEMMA LeastNat ==
  ASSUME NEW S \in SUBSET Nat, S # {}
  PROVE  \E m \in S : \A k \in S : m <= k
<1>1. PICK m \in S : \A k \in Nat : <<k, m>> \in OpToRel(<, Nat) => k \notin S
  BY WFMin, NatLessThanWellFounded
<1>2. \A k \in S : ~(k < m)
  BY <1>1 DEF OpToRel
<1> QED BY <1>2

StepsWithin(g, S) == g \in [Nat -> [S -> S]]
Unrolls(f, a, g, S) == /\ f \in [Nat -> S] /\ f[0] = a
                       /\ \A n \in Nat : f[n + 1] = g[n][f[n]]

LEMMA Recursion ==
  ASSUME NEW S, NEW a, NEW g, a \in S, StepsWithin(g, S)
  PROVE  \E f : Unrolls(f, a, g, S)
<1> USE DEF StepsWithin
<1> DEFINE Upto(n, h) == /\ h \in [0 .. n -> S] /\ h[0] = a
                         /\ \A i \in 1 .. n : h[i] = g[i - 1][h[i - 1]]
<1>0. \A n \in Nat, x \in S : g[n][x] \in S
  OBVIOUS
<1>1. \A n \in Nat : \E h : Upto(n, h)
  <2> SUFFICES ASSUME NEW n0 \in Nat, ~ \E h : Upto(n0, h) PROVE FALSE
    OBVIOUS
  <2> DEFINE Bad == {n \in Nat : ~ \E h : Upto(n, h)}
  <2>1. PICK m \in Bad : \A k \in Bad : m <= k
    <3>1. Bad \in SUBSET Nat /\ Bad # {}
      OBVIOUS
    <3> HIDE DEF Bad
    <3> QED BY <3>1, LeastNat
  <2>2. m # 0
    <3>1. Upto(0, [i \in 0 .. 0 |-> a])
      OBVIOUS
    <3> QED BY <3>1
  <2>3. m - 1 \in Nat /\ m - 1 \notin Bad
    <3>1. m \in Nat
      OBVIOUS
    <3> HIDE DEF Bad
    <3>2. m - 1 \in Nat /\ ~(m <= m - 1)
      BY <2>2, <3>1
    <3> QED BY <2>1, <3>2
  <2>4. PICK h : Upto(m - 1, h)
    BY <2>3
  <2> DEFINE k == [i \in 0 .. m |-> IF i = m THEN g[m - 1][h[m - 1]] ELSE h[i]]
  <2>5. k[m] = g[m - 1][h[m - 1]] /\ \A i \in 0 .. m - 1 : k[i] = h[i]
    BY <2>2, <2>3
  <2>6. k \in [0 .. m -> S]
    <3>1. h[m - 1] \in S /\ g[m - 1][h[m - 1]] \in S
      BY <1>0, <2>3, <2>4
    <3> QED BY <2>3, <2>4, <3>1
  <2>7. k[0] = a
    BY <2>2, <2>3, <2>4, <2>5
  <2>8. ASSUME NEW i \in 1 .. m PROVE k[i] = g[i - 1][k[i - 1]]
    <3>1. k[i - 1] = h[i - 1]
      BY <2>3, <2>5
    <3>2. CASE i = m
      BY <2>5, <3>1, <3>2
    <3>3. CASE i # m
      <4>1. i \in 1 .. m - 1 /\ i \in 0 .. m - 1
        BY <3>3
      <4> QED BY <2>4, <2>5, <3>1, <4>1
    <3> QED BY <3>2, <3>3
  <2> HIDE DEF k
  <2>9. Upto(m, k)
    BY <2>6, <2>7, <2>8
  <2> QED BY <2>1, <2>9
<1>2. ASSUME NEW n \in Nat, NEW m \in Nat, NEW h, NEW k, Upto(n, h), Upto(m, k),
             NEW j \in 0 .. n, j \in 0 .. m
      PROVE  h[j] = k[j]
  <2> SUFFICES ASSUME h[j] # k[j] PROVE FALSE
    OBVIOUS
  <2> DEFINE Diff == {i \in Nat : i <= j /\ h[i] # k[i]}
  <2>1. PICK i \in Diff : \A x \in Diff : i <= x
    <3>1. Diff \in SUBSET Nat /\ j \in Diff
      OBVIOUS
    <3> HIDE DEF Diff
    <3> QED BY <3>1, LeastNat
  <2>2. i # 0
    BY <1>2
  <2>3. i - 1 \in Nat /\ i - 1 \notin Diff
    BY <2>1, <2>2
  <2>4. i \in Nat /\ i <= j /\ h[i] # k[i]
    OBVIOUS
  <2>5. i \in 1 .. n /\ i \in 1 .. m /\ i - 1 <= j
    BY <1>2, <2>2, <2>4
  <2>6. h[i - 1] = k[i - 1]
    BY <2>3, <2>5
  <2>7. h[i] = g[i - 1][h[i - 1]] /\ k[i] = g[i - 1][k[i - 1]]
    BY <1>2, <2>5
  <2> QED BY <2>4, <2>6, <2>7
<1> DEFINE H(n) == CHOOSE h : Upto(n, h)
           f == [n \in Nat |-> H(n)[n]]
<1>3. \A n \in Nat : Upto(n, H(n))
  BY <1>1
<1> HIDE DEF H
<1>4. f \in [Nat -> S]
  BY <1>3
<1>5. f[0] = a
  BY <1>3
<1>6. ASSUME NEW n \in Nat PROVE f[n + 1] = g[n][f[n]]
  <2>1. n + 1 \in Nat /\ n + 1 \in 1 .. n + 1 /\ n \in 0 .. n /\ n \in 0 .. n + 1 /\ n + 1 - 1 = n
    OBVIOUS
  <2>2. Upto(n + 1, H(n + 1)) /\ Upto(n, H(n))
    BY <1>3, <2>1
  <2>3. H(n + 1)[n + 1] = g[n][H(n + 1)[n]]
    BY <2>1, <2>2
  <2>4. H(n + 1)[n] = H(n)[n]
    <3> DEFINE p == H(n + 1)
               q == H(n)
               m == n + 1
    <3>1. Upto(m, p) /\ Upto(n, q) /\ m \in Nat /\ n \in 0 .. m /\ n \in 0 .. n
      BY <2>1, <2>2
    <3> HIDE DEF Upto, p, q, m
    <3>2. p[n] = q[n]
      BY <1>2, <3>1
    <3> QED BY <3>2 DEF p, q, m
  <2> QED BY <2>1, <2>3, <2>4
<1> HIDE DEF f
<1>7. Unrolls(f, a, g, S)
  BY <1>4, <1>5, <1>6 DEF Unrolls
<1> QED BY <1>7

-----------------------------------------------------------------------------
(* The breaker's cooldown: capped doubling.                                *)

LEMMA LimiterSettings ==
  /\ cooldown_base \in Nat /\ cooldown_base >= 1 /\ cooldown_base <= IntMax
  /\ cooldown_cap \in Nat /\ cooldown_cap >= cooldown_base /\ cooldown_cap <= IntMax
  /\ cooldown_cap >= MaxCooldown /\ MaxCooldown \in Int
  /\ trip_threshold \in Nat /\ trip_threshold >= 1 /\ trip_threshold <= IntMax
  /\ IntMax \in Nat /\ IntMax >= 1 /\ Second \in Nat /\ Second >= 1
<1>1. /\ TripAfter \in Int /\ TripAfter <= IntMax /\ BaseCooldown \in Int /\ BaseCooldown <= IntMax
      /\ MaxCooldown \in Int /\ MaxCooldown <= IntMax
  BY LimiterAssumption
<1>2. IntMax \in Nat /\ IntMax >= 1 /\ Second \in Nat /\ Second >= 1
  BY LimiterAssumption
<1>3. /\ cooldown_base \in Nat /\ cooldown_base >= 1 /\ cooldown_base <= IntMax
      /\ trip_threshold \in Nat /\ trip_threshold >= 1 /\ trip_threshold <= IntMax
  BY <1>1, <1>2 DEF cooldown_base, trip_threshold, Most
<1>4. /\ cooldown_cap \in Nat /\ cooldown_cap >= cooldown_base /\ cooldown_cap <= IntMax
      /\ cooldown_cap >= MaxCooldown
  BY <1>1, <1>2, <1>3 DEF cooldown_cap
<1> QED BY <1>1, <1>2, <1>3, <1>4

LEMMA Pow2Is ==
  /\ Pow2[0] = 1
  /\ \A n \in Nat : Pow2[n] \in Nat /\ Pow2[n + 1] = 2 * Pow2[n]
<1> DEFINE g == [n \in Nat |-> [x \in Nat |-> 2 * x]]
           F(h) == [n \in Nat |-> IF n = 0 THEN 1 ELSE 2 * h[n - 1]]
<1>1. g \in [Nat -> [Nat -> Nat]] /\ \A n, x \in Nat : g[n][x] = 2 * x
  OBVIOUS
<1> HIDE DEF g
<1>2. PICK f \in [Nat -> Nat] : f[0] = 1 /\ \A n \in Nat : f[n + 1] = g[n][f[n]]
  <2>1. StepsWithin(g, Nat) /\ 1 \in Nat
    BY <1>1 DEF StepsWithin
  <2>2. PICK f : Unrolls(f, 1, g, Nat)
    BY <2>1, Recursion
  <2> QED BY <2>2 DEF Unrolls
<1>3. \A n \in Nat : f[n] = IF n = 0 THEN 1 ELSE 2 * f[n - 1]
  <2> SUFFICES ASSUME NEW n \in Nat PROVE f[n] = IF n = 0 THEN 1 ELSE 2 * f[n - 1]
    OBVIOUS
  <2>1. CASE n = 0
    BY <1>2, <2>1
  <2>2. CASE n # 0
    <3>1. n - 1 \in Nat /\ (n - 1) + 1 = n
      BY <2>2
    <3> QED BY <1>1, <1>2, <2>2, <3>1
  <2> QED BY <2>1, <2>2
<1>4. f = F(f)
  BY <1>3
<1>5. Pow2 = CHOOSE h : h = F(h)
  BY DEF Pow2
<1> HIDE DEF F
<1>6. Pow2 = F(Pow2)
  BY <1>4, <1>5
<1>7. \A n \in Nat : Pow2[n] = IF n = 0 THEN 1 ELSE 2 * Pow2[n - 1]
  BY <1>6 DEF F
<1>8. \A n \in Nat : Pow2[n] \in Nat
  <2> SUFFICES ASSUME NEW n0 \in Nat, Pow2[n0] \notin Nat PROVE FALSE
    OBVIOUS
  <2> DEFINE Bad == {n \in Nat : Pow2[n] \notin Nat}
  <2>1. PICK m \in Bad : \A k \in Bad : m <= k
    <3>1. Bad \in SUBSET Nat /\ n0 \in Bad
      OBVIOUS
    <3> HIDE DEF Bad
    <3> QED BY <3>1, LeastNat
  <2>2. m # 0
    BY <1>7
  <2>3. m - 1 \in Nat /\ m - 1 \notin Bad
    BY <2>1, <2>2
  <2> QED BY <1>7, <2>2, <2>3
<1>9. \A n \in Nat : Pow2[n + 1] = 2 * Pow2[n]
  BY <1>7
<1> QED BY <1>7, <1>8, <1>9

\* A power of two is above its exponent.
LEMMA Pow2Grows == \A n \in Nat : Pow2[n] >= n + 1
<1> SUFFICES ASSUME NEW n0 \in Nat, ~(Pow2[n0] >= n0 + 1) PROVE FALSE
  OBVIOUS
<1> DEFINE Bad == {n \in Nat : ~(Pow2[n] >= n + 1)}
<1>1. PICK m \in Bad : \A k \in Bad : m <= k
  <2>1. Bad \in SUBSET Nat /\ n0 \in Bad
    OBVIOUS
  <2> HIDE DEF Bad
  <2> QED BY <2>1, LeastNat
<1>2. m # 0
  BY Pow2Is
<1>3. m - 1 \in Nat /\ m - 1 \notin Bad
  BY <1>1, <1>2
<1>4. Pow2[m - 1] \in Nat /\ Pow2[m] = 2 * Pow2[m - 1]
  <2>1. (m - 1) + 1 = m
    OBVIOUS
  <2> QED BY <1>3, <2>1, Pow2Is
<1> QED BY <1>2, <1>3, <1>4

LEMMA Pow2Monotone == \A j, k \in Nat : k <= j => Pow2[k] <= Pow2[j]
<1> SUFFICES ASSUME NEW k \in Nat, NEW j0 \in Nat, k <= j0, ~(Pow2[k] <= Pow2[j0]) PROVE FALSE
  OBVIOUS
<1> DEFINE Bad == {n \in Nat : k <= n /\ ~(Pow2[k] <= Pow2[n])}
<1>1. PICK m \in Bad : \A x \in Bad : m <= x
  <2>1. Bad \in SUBSET Nat /\ j0 \in Bad
    OBVIOUS
  <2> HIDE DEF Bad
  <2> QED BY <2>1, LeastNat
<1>2. m \in Nat /\ k <= m /\ m # k
  BY Pow2Is
<1>3. m - 1 \in Nat /\ k <= m - 1 /\ m - 1 \notin Bad
  BY <1>1, <1>2
<1>4. Pow2[m - 1] \in Nat /\ Pow2[m] = 2 * Pow2[m - 1]
  <2>1. (m - 1) + 1 = m
    BY <1>2
  <2> QED BY <1>3, <2>1, Pow2Is
<1>5. Pow2[k] <= Pow2[m - 1] /\ Pow2[k] \in Nat
  BY <1>3, Pow2Is
<1> QED BY <1>4, <1>5

CappedTwice(x) == IF x > cooldown_cap \div 2 THEN cooldown_cap ELSE Least(2 * x, cooldown_cap)

LEMMA CooldownIs ==
  \A n \in Nat : cooldown[n] = IF n <= 1 THEN cooldown_base ELSE CappedTwice(cooldown[n - 1])
<1> DEFINE g == [n \in Nat |-> [x \in Nat |-> IF n = 0 THEN cooldown_base ELSE CappedTwice(x)]]
           F(h) == [n \in Nat |-> IF n <= 1 THEN cooldown_base
                                  ELSE IF h[n - 1] > cooldown_cap \div 2 THEN cooldown_cap
                                  ELSE Least(2 * h[n - 1], cooldown_cap)]
<1>0. \A x \in Nat : CappedTwice(x) \in Nat
  BY LimiterSettings DEF CappedTwice, Least
<1>1. /\ g \in [Nat -> [Nat -> Nat]]
      /\ \A n, x \in Nat : g[n][x] = IF n = 0 THEN cooldown_base ELSE CappedTwice(x)
  BY <1>0, LimiterSettings
<1> HIDE DEF g
<1>2. PICK f \in [Nat -> Nat] : f[0] = cooldown_base /\ \A n \in Nat : f[n + 1] = g[n][f[n]]
  <2>1. StepsWithin(g, Nat) /\ cooldown_base \in Nat
    BY <1>1, LimiterSettings DEF StepsWithin
  <2>2. PICK f : Unrolls(f, cooldown_base, g, Nat)
    BY <2>1, Recursion
  <2> QED BY <2>2 DEF Unrolls
<1>3. \A n \in Nat : f[n] = IF n <= 1 THEN cooldown_base ELSE CappedTwice(f[n - 1])
  <2> SUFFICES ASSUME NEW n \in Nat
               PROVE  f[n] = IF n <= 1 THEN cooldown_base ELSE CappedTwice(f[n - 1])
    OBVIOUS
  <2>1. CASE n = 0
    BY <1>2, <2>1
  <2>2. CASE n # 0
    <3>1. n - 1 \in Nat /\ (n - 1) + 1 = n /\ (n - 1 = 0 <=> n <= 1)
      BY <2>2
    <3>2. f[n] = g[n - 1][f[n - 1]] /\ f[n - 1] \in Nat
      BY <1>2, <3>1
    <3> QED BY <1>1, <3>1, <3>2
  <2> QED BY <2>1, <2>2
<1>4. f = F(f)
  BY <1>3 DEF CappedTwice
<1>5. cooldown = CHOOSE h : h = F(h)
  BY DEF cooldown
<1> HIDE DEF F
<1>6. cooldown = F(cooldown)
  BY <1>4, <1>5
<1> QED BY <1>6 DEF F, CappedTwice

\* The doubling itself, with the exponent of the trip before it.
LEMMA CooldownDoubles ==
  \A n \in Nat : /\ cooldown[n + 1] \in cooldown_base .. cooldown_cap
                 /\ cooldown[n + 1] = cooldown_cap \/ cooldown[n + 1] >= cooldown_base * Pow2[n]
<1> DEFINE Good(n) == /\ cooldown[n + 1] \in cooldown_base .. cooldown_cap
                      /\ \/ cooldown[n + 1] = cooldown_cap
                         \/ cooldown[n + 1] >= cooldown_base * Pow2[n]
<1> SUFFICES ASSUME NEW n0 \in Nat, ~Good(n0) PROVE FALSE
  OBVIOUS
<1> DEFINE Bad == {n \in Nat : ~Good(n)}
<1>1. PICK m \in Bad : \A k \in Bad : m <= k
  <2>1. Bad \in SUBSET Nat /\ n0 \in Bad
    OBVIOUS
  <2> HIDE DEF Bad
  <2> QED BY <2>1, LeastNat
<1>2. m \in Nat /\ ~Good(m)
  OBVIOUS
<1>3. m # 0
  <2>1. cooldown[1] = cooldown_base /\ Pow2[0] = 1
    BY CooldownIs, Pow2Is
  <2> QED BY <1>2, <2>1, LimiterSettings
<1>4. m - 1 \in Nat /\ Good(m - 1)
  BY <1>1, <1>3
<1> DEFINE x == cooldown[m]
           y == Pow2[m - 1]
<1>5. /\ cooldown[m + 1] = CappedTwice(x)
      /\ x \in cooldown_base .. cooldown_cap
      /\ x = cooldown_cap \/ x >= cooldown_base * y
      /\ y \in Nat /\ Pow2[m] = 2 * y
  <2>1. (m - 1) + 1 = m /\ m + 1 \in Nat /\ ~(m + 1 <= 1) /\ (m + 1) - 1 = m
    BY <1>3, <1>4
  <2> QED BY <1>4, <2>1, CooldownIs, Pow2Is
<1> HIDE DEF x, y
<1>6. CappedTwice(x) \in cooldown_base .. cooldown_cap
  BY <1>5, LimiterSettings DEF CappedTwice, Least
<1>7. CappedTwice(x) = cooldown_cap \/ CappedTwice(x) >= cooldown_base * (2 * y)
  <2>1. CASE x = cooldown_cap
    BY <1>5, <2>1, LimiterSettings DEF CappedTwice, Least
  <2>2. CASE x >= cooldown_base * y
    <3>1. cooldown_base * (2 * y) = 2 * (cooldown_base * y) /\ cooldown_base * y \in Int
      BY <1>5, LimiterSettings
    <3> QED BY <1>5, <2>2, <3>1, LimiterSettings DEF CappedTwice, Least
  <2> QED BY <1>5, <2>1, <2>2
<1>8. Good(m)
  BY <1>5, <1>6, <1>7
<1> QED BY <1>2, <1>8

-----------------------------------------------------------------------------
(* Whole periods and their remainder.                                      *)

LEMMA Division ==
  ASSUME NEW e \in Nat, NEW p \in Nat, p > 0
  PROVE  e \div p \in Nat /\ e % p \in Nat /\ e % p < p /\ e = p * (e \div p) + (e % p)
<1>1. e % p \in Nat /\ e % p < p
  OBVIOUS
<1>2. e \div p \in Int
  OBVIOUS
<1>3. e = p * (e \div p) + (e % p)
  OBVIOUS
<1>4. e \div p >= 0
  OBVIOUS
<1> QED BY <1>1, <1>2, <1>3, <1>4

LEMMA DivisionIsUnique ==
  ASSUME NEW e \in Nat, NEW p \in Nat, p > 0, NEW q \in Int, NEW r \in Nat, r < p, e = p * q + r
  PROVE  e \div p = q /\ e % p = r
<1> DEFINE s == e \div p
           t == e % p
<1>1. s \in Nat /\ t \in Nat /\ t < p /\ e = p * s + t
  BY Division
<1> HIDE DEF s, t
<1>2. CASE s = q
  BY <1>1, <1>2 DEF s, t
<1>3. CASE s < q
  <2>1. p * q >= p * (s + 1)
    <3>1. q >= s + 1
      BY <1>1, <1>3
    <3> QED BY <1>1, <3>1, ProductMonotone
  <2>2. p * (s + 1) = p * s + p /\ p * s \in Int /\ p * q \in Int
    BY <1>1
  <2> QED BY <1>1, <2>1, <2>2
<1>4. CASE q < s
  <2>1. p * s >= p * (q + 1)
    <3>1. s >= q + 1
      BY <1>1, <1>4
    <3> QED BY <1>1, <3>1, ProductMonotone
  <2>2. p * (q + 1) = p * q + p /\ p * q \in Int /\ p * s \in Int
    BY <1>1
  <2> QED BY <1>1, <2>1, <2>2
<1> QED BY <1>1, <1>2, <1>3, <1>4

\* One more tick either fills the period or lengthens the remainder.
LEMMA OneTickMore ==
  ASSUME NEW e \in Nat, NEW p \in Nat, p > 0
  PROVE  /\ (e % p) + 1 < p => (e + 1) \div p = e \div p /\ (e + 1) % p = ((e % p) + 1)
         /\ ~((e % p) + 1 < p) => (e + 1) \div p = e \div p + 1 /\ (e + 1) % p = 0
<1> DEFINE s == e \div p
           t == e % p
<1>1. s \in Nat /\ t \in Nat /\ t < p /\ e = p * s + t
  BY Division
<1> HIDE DEF s, t
<1>2. e + 1 \in Nat
  OBVIOUS
<1>3. ASSUME t + 1 < p PROVE (e + 1) \div p = s /\ (e + 1) % p = t + 1
  <2>1. e + 1 = p * s + (t + 1) /\ t + 1 \in Nat /\ p * s \in Int
    BY <1>1
  <2> QED BY <1>1, <1>2, <1>3, <2>1, DivisionIsUnique
<1>4. ASSUME ~(t + 1 < p) PROVE (e + 1) \div p = s + 1 /\ (e + 1) % p = 0
  <2>1. e + 1 = p * (s + 1) + 0
    <3>1. p * (s + 1) = p * s + p /\ p * s \in Int
      BY <1>1
    <3> QED BY <1>1, <1>4, <3>1
  <2> QED BY <1>1, <1>2, <2>1, DivisionIsUnique
<1> QED BY <1>3, <1>4 DEF s, t

LEMMA OnePeriodLess ==
  ASSUME NEW e \in Nat, NEW p \in Nat, p > 0, NEW k \in Nat, e >= p * (k + 1)
  PROVE  e - p \in Nat /\ (e - p) % p = e % p /\ (e - p) \div p >= k
<1> DEFINE s == e \div p
           t == e % p
<1>1. s \in Nat /\ t \in Nat /\ t < p /\ e = p * s + t
  BY Division
<1> HIDE DEF s, t
<1>2. s >= k + 1
  <2> SUFFICES ASSUME k + 1 >= s + 1 PROVE FALSE
    BY <1>1
  <2>1. p * (k + 1) >= p * (s + 1)
    BY <1>1, ProductMonotone
  <2>2. p * (s + 1) = p * s + p /\ p * s \in Int /\ p * (k + 1) \in Int
    BY <1>1
  <2> QED BY <1>1, <2>1, <2>2
<1>3. e - p = p * (s - 1) + t /\ e - p \in Nat
  <2>1. p * (s - 1) = p * s - p /\ p * s \in Int
    BY <1>1
  <2>2. p * (s - 1) >= p * 0
    <3>1. s - 1 >= 0 /\ s - 1 \in Int
      BY <1>1, <1>2
    <3> QED BY <3>1, ProductMonotone
  <2>3. p * 0 = 0
    OBVIOUS
  <2> QED BY <1>1, <2>1, <2>2, <2>3
<1>4. (e - p) \div p = s - 1 /\ (e - p) % p = t
  BY <1>1, <1>3, DivisionIsUnique
<1> QED BY <1>1, <1>2, <1>3, <1>4 DEF t

-----------------------------------------------------------------------------
(* One bucket.                                                             *)

BucketOK(c, b) == b \in [tokens : Nat, elapsed : Nat] /\ b.tokens <= capacity(c)

LEMMA MakeBucket ==
  ASSUME NEW c \in Classes, NEW n \in Nat, NEW e \in Nat, n <= capacity(c)
  PROVE  BucketOK(c, [tokens |-> n, elapsed |-> e])
BY DEF BucketOK

LEMMA Capacities ==
  /\ \A c \in Classes : capacity(c) \in Nat /\ refill_period(c) \in Nat
  /\ capacity("order") = order_capacity /\ order_capacity \in Nat /\ order_capacity >= 1
  /\ refill_period("order") = Second \div order_capacity
  /\ clamp_reserved \in Nat /\ clamp_reserved <= order_capacity
  /\ reserved_exit("order") = clamp_reserved
<1>1. /\ "order" \in Classes /\ \A c \in Classes : PerSec[c] \in Int
      /\ ReservedExit \in Int /\ Second \in Nat
  BY LimiterAssumption
<1>2. order_capacity \in Nat /\ order_capacity >= 1
  BY <1>1 DEF order_capacity, Most
<1>3. \A c \in Classes : capacity(c) \in Nat
  BY <1>1, <1>2 DEF capacity, Most
<1>4. \A c \in Classes : refill_period(c) \in Nat
  <2> SUFFICES ASSUME NEW c \in Classes PROVE refill_period(c) \in Nat
    OBVIOUS
  <2>1. CASE capacity(c) <= 0
    BY <2>1 DEF refill_period
  <2>2. CASE capacity(c) > 0
    <3>1. Second \div capacity(c) \in Nat
      BY <1>1, <1>3, <2>2, Division
    <3> QED BY <2>2, <1>3, <3>1 DEF refill_period
  <2> QED BY <1>3, <2>1, <2>2
<1>5. capacity("order") = order_capacity /\ refill_period("order") = Second \div order_capacity
  BY <1>2 DEF capacity, refill_period
<1>6. clamp_reserved \in Nat /\ clamp_reserved <= order_capacity
  BY <1>1, <1>2 DEF clamp_reserved, Most, Least
<1> QED BY <1>2, <1>3, <1>4, <1>5, <1>6 DEF reserved_exit

\* refill_ credits the whole periods up to the capacity and keeps the remainder.
LEMMA RefillCredits ==
  ASSUME NEW c \in Classes, NEW b, BucketOK(c, b)
  PROVE  /\ BucketOK(c, refill(c, b))
         /\ refill_period(c) = 0 => refill(c, b) = b
         /\ refill_period(c) > 0 =>
              /\ refill(c, b).tokens = Least(b.tokens + b.elapsed \div refill_period(c), capacity(c))
              /\ refill(c, b).elapsed = b.elapsed % refill_period(c)
<1> DEFINE p == refill_period(c)
           s == b.elapsed \div p
           k == capacity(c)
           new == [tokens |-> b.tokens + Least(s, k - b.tokens), elapsed |-> b.elapsed - s * p]
<1>1. p \in Nat /\ k \in Nat
  BY Capacities
<1>2. b.tokens \in Nat /\ b.elapsed \in Nat /\ b.tokens <= k
  BY DEF BucketOK
<1>3. CASE p = 0
  <2>1. refill(c, b) = b
    BY <1>3 DEF refill
  <2> QED BY <1>3, <2>1
<1>4. CASE p > 0
  <2>1. s \in Nat /\ b.elapsed % p \in Nat /\ b.elapsed = p * s + (b.elapsed % p)
    BY <1>1, <1>2, <1>4, Division
  <2>2. refill(c, b) = IF s = 0 THEN b ELSE new
    BY <1>1, <1>4 DEF refill
  <2>3. s * p = p * s /\ p * s \in Int
    BY <1>1, <2>1
  <2> HIDE DEF p, s, k
  <2>4. CASE s = 0
    <3>1. p * s = 0
      BY <1>1, <2>4
    <3>2. b.elapsed = b.elapsed % p
      BY <1>2, <2>1, <3>1
    <3>3. b.tokens = Least(b.tokens + s, k)
      BY <1>1, <1>2, <2>4 DEF Least
    <3> QED BY <1>4, <2>2, <2>4, <3>2, <3>3 DEF p, s, k
  <2>5. CASE s # 0
    <3>1. new.tokens = b.tokens + Least(s, k - b.tokens) /\ new.elapsed = b.elapsed - s * p
      OBVIOUS
    <3>2. b.tokens + Least(s, k - b.tokens) = Least(b.tokens + s, k)
      BY <1>1, <1>2, <2>1 DEF Least
    <3>3. Least(b.tokens + s, k) \in Nat /\ Least(b.tokens + s, k) <= k
      BY <1>1, <1>2, <2>1 DEF Least
    <3>4. b.elapsed - s * p = b.elapsed % p
      <4> DEFINE t == b.elapsed % p
                 m == p * s
                 e == b.elapsed
      <4>1. t \in Nat /\ m \in Int /\ e \in Nat /\ e = m + t /\ s * p = m
        BY <1>2, <2>1, <2>3
      <4> HIDE DEF t, m, e
      <4>2. e - m = t
        BY <4>1
      <4> QED BY <4>1, <4>2 DEF t, m, e
    <3>5. new \in [tokens : Nat, elapsed : Nat] /\ new.tokens <= k
      BY <2>1, <3>1, <3>2, <3>3, <3>4
    <3>6. refill(c, b) = new
      BY <2>2, <2>5
    <3> HIDE DEF new
    <3> QED BY <1>4, <3>1, <3>2, <3>4, <3>5, <3>6 DEF p, s, k, BucketOK
  <2> QED BY <2>4, <2>5
<1> QED BY <1>1, <1>3, <1>4

\* A bucket whose periods have been credited earns nothing at the same moment.
LEMMA RefillOnce ==
  ASSUME NEW c \in Classes, NEW b, BucketOK(c, b), NEW n \in Nat, n <= capacity(c),
         NEW r, r = [tokens |-> n, elapsed |-> refill(c, b).elapsed]
  PROVE  /\ BucketOK(c, r) /\ refill(c, r).tokens = n
         /\ refill_period(c) > 0 => r.elapsed % refill_period(c) = b.elapsed % refill_period(c)
<1> DEFINE p == refill_period(c)
           e == b.elapsed
<1>1. p \in Nat /\ capacity(c) \in Nat /\ e \in Nat
  BY Capacities DEF BucketOK
<1>2. refill(c, b).elapsed \in Nat /\ r.tokens = n /\ r.elapsed = refill(c, b).elapsed
  BY RefillCredits DEF BucketOK
<1>3. BucketOK(c, r)
  BY <1>2 DEF BucketOK
<1>4. CASE p = 0
  BY <1>2, <1>3, <1>4, RefillCredits
<1>5. CASE p > 0
  <2> DEFINE t == e % p
  <2>1. r.elapsed = t /\ t \in Nat /\ t < p
    BY <1>1, <1>2, <1>5, RefillCredits, Division
  <2>2. t = p * 0 + t
    BY <1>1, <2>1
  <2>3. t \div p = 0 /\ t % p = t
    <3> HIDE DEF t, p, e
    <3> QED BY <1>1, <1>5, <2>1, <2>2, DivisionIsUnique
  <2>4. refill(c, r).tokens = Least(n + t \div p, capacity(c))
    BY <1>2, <1>3, <1>5, <2>1, RefillCredits
  <2>5. Least(n + 0, capacity(c)) = n
    BY <1>1 DEF Least
  <2> QED BY <1>3, <2>1, <2>3, <2>4, <2>5
<1> QED BY <1>1, <1>4, <1>5

\* try_acquire: a token more than the caller's floor, or nothing.
LEMMA TryAcquire ==
  ASSUME NEW c \in Classes, NEW b, BucketOK(c, b), NEW is_exit \in BOOLEAN
  PROVE  LET t == try_acquire(c, b, is_exit)
             n == refill(c, b).tokens
         IN  /\ BucketOK(c, t.bucket)
             /\ refill_period(c) > 0 =>
                  t.bucket.elapsed % refill_period(c) = b.elapsed % refill_period(c)
             /\ t.ok <=> n > lane_floor(c, is_exit)
             /\ t.ok \in BOOLEAN
             /\ refill(c, t.bucket).tokens = IF n > lane_floor(c, is_exit) THEN n - 1 ELSE n
<1> DEFINE r == refill(c, b)
           n == r.tokens
           low == lane_floor(c, is_exit)
           r1 == [tokens |-> n - 1, elapsed |-> r.elapsed]
           r0 == [tokens |-> n, elapsed |-> r.elapsed]
<1>1. BucketOK(c, r)
  BY RefillCredits
<1>2. n \in Nat /\ n <= capacity(c) /\ r.elapsed \in Nat /\ r \in [tokens : Nat, elapsed : Nat]
  BY <1>1 DEF BucketOK
<1>3. low \in Nat
  <2>1. reserved_exit(c) \in Nat
    BY Capacities DEF reserved_exit
  <2> QED BY <2>1 DEF lane_floor
<1>4. r = r0 /\ [r EXCEPT !.tokens = @ - 1] = r1
  <2> HIDE DEF r
  <2> QED BY <1>2
<1>5. CASE n > low
  <2>1. try_acquire(c, b, is_exit) = [ok |-> TRUE, bucket |-> r1]
    BY <1>4, <1>5 DEF try_acquire
  <2>2. n - 1 \in Nat /\ n - 1 <= capacity(c)
    <3>1. capacity(c) \in Nat
      BY Capacities
    <3> HIDE DEF n, low
    <3> QED BY <1>2, <1>3, <1>5, <3>1
  <2>3. /\ BucketOK(c, r1) /\ refill(c, r1).tokens = n - 1
        /\ refill_period(c) > 0 => r1.elapsed % refill_period(c) = b.elapsed % refill_period(c)
    <3> DEFINE k == n - 1
    <3>1. k \in Nat /\ k <= capacity(c) /\ r1 = [tokens |-> k, elapsed |-> refill(c, b).elapsed]
      BY <2>2
    <3> HIDE DEF k, r1
    <3>2. /\ BucketOK(c, r1) /\ refill(c, r1).tokens = k
          /\ refill_period(c) > 0 => r1.elapsed % refill_period(c) = b.elapsed % refill_period(c)
      BY <3>1, RefillOnce
    <3> QED BY <3>2 DEF k
  <2>4. /\ try_acquire(c, b, is_exit).ok = TRUE /\ try_acquire(c, b, is_exit).bucket = r1
    BY <2>1
  <2> HIDE DEF r1
  <2> QED BY <1>5, <2>3, <2>4
<1>6. CASE ~(n > low)
  <2>1. try_acquire(c, b, is_exit) = [ok |-> FALSE, bucket |-> r0]
    BY <1>4, <1>6 DEF try_acquire
  <2>2. /\ BucketOK(c, r0) /\ refill(c, r0).tokens = n
        /\ refill_period(c) > 0 => r0.elapsed % refill_period(c) = b.elapsed % refill_period(c)
    <3>1. n \in Nat /\ n <= capacity(c) /\ r0 = [tokens |-> n, elapsed |-> refill(c, b).elapsed]
      BY <1>2
    <3> HIDE DEF n, r0
    <3> QED BY <3>1, RefillOnce
  <2>3. /\ try_acquire(c, b, is_exit).ok = FALSE /\ try_acquire(c, b, is_exit).bucket = r0
    BY <2>1
  <2> HIDE DEF r0
  <2> QED BY <1>6, <2>2, <2>3
<1> QED BY <1>5, <1>6

-----------------------------------------------------------------------------
(* The exits' lane.                                                        *)

\* The buckets are sound, the lane that only exits draw from is in step with the
\* order bucket, and the bucket holds no less than the lane.
LaneInv ==
    /\ bucket \in [Classes -> [tokens : Nat, elapsed : Nat]]
    /\ \A c \in Classes : BucketOK(c, bucket[c])
    /\ exitLane \in [tokens : 0 .. clamp_reserved, phase : Nat]
    /\ refill_period("order") > 0 => exitLane.phase = bucket["order"].elapsed % refill_period("order")
    /\ ExitLaneHolds

LEMMA FreshLane ==
  ASSUME bucket' = LimiterFresh.bucket, exitLane' = [tokens |-> clamp_reserved, phase |-> 0]
  PROVE  LaneInv'
<1> DEFINE p == refill_period("order")
<1>0. "order" \in Classes
  BY LimiterAssumption
<1>1. bucket' = [c \in Classes |-> FullBucket(c)]
  BY DEF LimiterFresh
<1>2. \A c \in Classes : bucket'[c].tokens = capacity(c) /\ bucket'[c].elapsed = 0
                         /\ bucket'[c] \in [tokens : Nat, elapsed : Nat]
  BY <1>1, Capacities DEF FullBucket
<1>3. \A c \in Classes : BucketOK(c, bucket'[c])
  BY <1>2, Capacities DEF BucketOK
<1>4. exitLane'.tokens = clamp_reserved /\ exitLane'.phase = 0
      /\ exitLane' \in [tokens : 0 .. clamp_reserved, phase : Nat]
  BY Capacities
<1>5. p > 0 => 0 % p = 0 /\ 0 \div p = 0
  <2> SUFFICES ASSUME p > 0 PROVE 0 % p = 0 /\ 0 \div p = 0
    OBVIOUS
  <2>1. p \in Nat /\ 0 = p * 0 + 0
    BY <1>0, Capacities
  <2> HIDE DEF p
  <2> QED BY <2>1, DivisionIsUnique
<1>6. refill("order", bucket'["order"]).tokens >= exitLane'.tokens
  <2>1. capacity("order") \in Nat /\ clamp_reserved \in Nat /\ clamp_reserved <= capacity("order") /\ p \in Nat
    BY <1>0, Capacities
  <2>2. CASE p = 0
    <3>1. refill("order", bucket'["order"]) = bucket'["order"]
      BY <1>0, <1>3, <2>2, RefillCredits
    <3> QED BY <1>0, <1>2, <1>4, <2>1, <3>1
  <2>3. CASE p > 0
    <3>1. refill("order", bucket'["order"]).tokens = Least(capacity("order") + 0, capacity("order"))
      BY <1>0, <1>2, <1>3, <1>5, <2>3, RefillCredits
    <3> QED BY <1>4, <2>1, <3>1 DEF Least
  <2> QED BY <2>1, <2>2, <2>3
<1>7. bucket' \in [Classes -> [tokens : Nat, elapsed : Nat]]
  BY <1>1, <1>2
<1> QED BY <1>0, <1>2, <1>3, <1>4, <1>5, <1>6, <1>7 DEF LaneInv, ExitLaneHolds

LEMMA AcquireKeepsLane ==
  ASSUME LaneInv, NEW c \in Classes, NEW is_exit \in BOOLEAN, acquire(c, is_exit)
  PROVE  LaneInv'
<1> DEFINE b == bucket[c]
           t == try_acquire(c, b, is_exit)
           p == refill_period("order")
<1>0. "order" \in Classes /\ bucket \in [Classes -> [tokens : Nat, elapsed : Nat]]
      /\ \A k \in Classes : BucketOK(k, bucket[k])
  BY LimiterAssumption DEF LaneInv
<1>1. CASE denied_by_breaker(c, is_exit)
  <2>1. bucket' = bucket /\ exitLane' = exitLane
    BY <1>1 DEF acquire, Granted
  <2> QED BY <2>1 DEF LaneInv, ExitLaneHolds
<1>2. CASE ~denied_by_breaker(c, is_exit)
  <2>1. bucket' = [bucket EXCEPT ![c] = t.bucket]
    BY <1>2 DEF acquire
  <2>2. BucketOK(c, t.bucket)
    BY <1>0, TryAcquire
  <2>3. /\ bucket' \in [Classes -> [tokens : Nat, elapsed : Nat]]
        /\ bucket'[c] = t.bucket /\ \A k \in Classes \ {c} : bucket'[k] = bucket[k]
    <3>1. t.bucket \in [tokens : Nat, elapsed : Nat]
      BY <2>2 DEF BucketOK
    <3> HIDE DEF t
    <3> QED BY <1>0, <2>1, <3>1
  <2>4. \A k \in Classes : BucketOK(k, bucket'[k])
    BY <1>0, <2>2, <2>3
  <2>5. CASE c # "order"
    <3>1. exitLane' = exitLane /\ bucket'["order"] = bucket["order"]
      BY <1>0, <2>3, <2>5 DEF acquire
    <3> QED BY <2>3, <2>4, <3>1 DEF LaneInv, ExitLaneHolds
  <2>6. CASE c = "order"
    <3> DEFINE n == refill(c, b).tokens
               lane == exitLane.tokens
    <3>1. n \in Nat /\ lane \in 0 .. clamp_reserved /\ n >= lane /\ clamp_reserved \in Nat
          /\ exitLane.phase \in Nat
      <4>1. BucketOK(c, refill(c, b))
        BY <1>0, RefillCredits
      <4> QED BY <2>6, <4>1, Capacities DEF BucketOK, LaneInv, ExitLaneHolds
    <3>2. /\ refill(c, bucket'[c]).tokens = IF n > lane_floor(c, is_exit) THEN n - 1 ELSE n
          /\ p > 0 => bucket'[c].elapsed % p = bucket[c].elapsed % p
          /\ t.ok <=> n > lane_floor(c, is_exit)
      BY <1>0, <2>3, <2>6, TryAcquire
    <3>3. lane_floor(c, is_exit) = IF is_exit THEN 0 ELSE clamp_reserved
      BY <2>6, Capacities DEF lane_floor
    <3>4. exitLane' = IF is_exit /\ n > lane_floor(c, is_exit)
                      THEN [tokens |-> Most(lane - 1, 0), phase |-> exitLane.phase] ELSE exitLane
      <4>1. Granted(c, is_exit) <=> n > lane_floor(c, is_exit)
        BY <1>2, <3>2 DEF Granted
      <4>2. exitLane' = IF is_exit /\ n > lane_floor(c, is_exit)
                        THEN [exitLane EXCEPT !.tokens = Most(@ - 1, 0)] ELSE exitLane
        BY <2>6, <4>1 DEF acquire
      <4>3. [exitLane EXCEPT !.tokens = Most(@ - 1, 0)]
              = [tokens |-> Most(lane - 1, 0), phase |-> exitLane.phase]
        <5>1. exitLane \in [tokens : 0 .. clamp_reserved, phase : Nat]
          BY DEF LaneInv
        <5> QED BY <5>1
      <4> QED BY <4>2, <4>3
    <3>5. /\ exitLane' \in [tokens : 0 .. clamp_reserved, phase : Nat]
          /\ exitLane'.phase = exitLane.phase
          /\ exitLane'.tokens = IF is_exit /\ n > lane_floor(c, is_exit) THEN Most(lane - 1, 0) ELSE lane
      <4> HIDE DEF n
      <4>1. CASE is_exit /\ n > lane_floor(c, is_exit)
        <5>1. Most(lane - 1, 0) \in 0 .. clamp_reserved
          BY <3>1 DEF Most
        <5> HIDE DEF lane
        <5> QED BY <3>1, <3>4, <4>1, <5>1
      <4>2. CASE ~(is_exit /\ n > lane_floor(c, is_exit))
        BY <3>4, <4>2 DEF LaneInv
      <4> QED BY <4>1, <4>2
    <3>6. refill(c, bucket'[c]).tokens >= exitLane'.tokens
      <4> DEFINE m == refill(c, bucket'[c]).tokens
                 l == exitLane'.tokens
                 low == lane_floor(c, is_exit)
      <4>1. /\ m = IF n > low THEN n - 1 ELSE n
            /\ l = IF is_exit /\ n > low THEN Most(lane - 1, 0) ELSE lane
            /\ low = IF is_exit THEN 0 ELSE clamp_reserved
        BY <3>2, <3>3, <3>5
      <4> HIDE DEF m, l, n, lane, low
      <4>2. ASSUME is_exit PROVE m >= l
        BY <3>1, <4>1, <4>2 DEF Most, n, lane
      <4>3. ASSUME ~is_exit PROVE m >= l
        BY <3>1, <4>1, <4>3 DEF n, lane
      <4>4. m >= l
        BY <4>2, <4>3
      <4> QED BY <4>4 DEF m, l
    <3>7. p > 0 => exitLane'.phase = bucket'["order"].elapsed % p
      BY <2>6, <3>2, <3>5 DEF LaneInv
    <3> QED BY <2>3, <2>4, <2>6, <3>5, <3>6, <3>7 DEF LaneInv, ExitLaneHolds
  <2> QED BY <2>5, <2>6
<1> QED BY <1>1, <1>2

\* One tick for one bucket: its periods and the remainder move on together.
LEMMA BucketTicks ==
  ASSUME NEW c \in Classes, NEW b, BucketOK(c, b), NEW b2,
         b2 = [b EXCEPT !.elapsed =
                 IF refill_period(c) <= 0 THEN 0
                 ELSE IF b.elapsed + 1 >= refill_period(c) * (capacity(c) + 1)
                      THEN (b.elapsed + 1) - refill_period(c) ELSE b.elapsed + 1]
  PROVE  /\ BucketOK(c, b2)
         /\ refill_period(c) = 0 => refill(c, b2).tokens = refill(c, b).tokens
         /\ refill_period(c) > 0 =>
              /\ b2.elapsed % refill_period(c) = (b.elapsed + 1) % refill_period(c)
              /\ (b.elapsed % refill_period(c)) + 1 < refill_period(c) =>
                   refill(c, b2).tokens >= refill(c, b).tokens
              /\ ~((b.elapsed % refill_period(c)) + 1 < refill_period(c)) =>
                   refill(c, b2).tokens >= Least(refill(c, b).tokens + 1, capacity(c))
<1> DEFINE p == refill_period(c)
           k == capacity(c)
           e == b.elapsed
           n == b.tokens
           e2 == IF p <= 0 THEN 0 ELSE IF e + 1 >= p * (k + 1) THEN (e + 1) - p ELSE e + 1
<1>1. p \in Nat /\ k \in Nat /\ e \in Nat /\ n \in Nat /\ n <= k
  BY Capacities DEF BucketOK
<1>2. b2 = [tokens |-> n, elapsed |-> e2]
  <2>1. b \in [tokens : Nat, elapsed : Nat]
    BY DEF BucketOK
  <2>2. b2 = [b EXCEPT !.elapsed = e2]
    OBVIOUS
  <2> HIDE DEF e2
  <2> QED BY <2>1, <2>2
<1>3. b2.tokens = n /\ b2.elapsed = e2
  <2> HIDE DEF e2, n
  <2> QED BY <1>2
<1>4. CASE p = 0
  <2>1. e2 = 0
    BY <1>4
  <2>2. BucketOK(c, b2)
    <3> HIDE DEF n, e2
    <3>1. BucketOK(c, [tokens |-> n, elapsed |-> e2])
      BY <1>1, <2>1, MakeBucket
    <3> QED BY <1>2, <3>1
  <2>3. refill(c, b2) = b2 /\ refill(c, b) = b
    <3> HIDE DEF e2
    <3> QED BY <1>4, <2>2, RefillCredits
  <2>4. b2.tokens = b.tokens
    BY <1>3
  <2>5. ~(refill_period(c) > 0)
    BY <1>4
  <2> QED BY <2>2, <2>3, <2>4, <2>5
<1>5. CASE p > 0
  <2> DEFINE s == e \div p
             x == (e + 1) \div p
             y == e2 \div p
  <2>1. e2 = IF e + 1 >= p * (k + 1) THEN (e + 1) - p ELSE e + 1
    BY <1>1, <1>5
  <2>2. p * (k + 1) \in Int /\ e + 1 \in Nat
    BY <1>1
  <2>3. e2 \in Nat /\ e2 % p = (e + 1) % p /\ (y >= k \/ y = x) /\ y \in Nat /\ s \in Nat /\ x \in Nat
    <3> HIDE DEF e2
    <3>1. CASE e + 1 >= p * (k + 1)
      <4> DEFINE f == e + 1
      <4>1. f \in Nat /\ f >= p * (k + 1)
        BY <2>2, <3>1
      <4> HIDE DEF f, p, k, e
      <4>2. f - p \in Nat /\ (f - p) % p = f % p /\ (f - p) \div p >= k
        BY <1>1, <1>5, <4>1, OnePeriodLess
      <4>3. e2 = f - p
        BY <2>1, <3>1 DEF f
      <4>4. (f - p) \div p \in Nat /\ f \div p \in Nat /\ e \div p \in Nat
        BY <1>1, <1>5, <4>1, <4>2, Division
      <4> QED BY <4>2, <4>3, <4>4 DEF f
    <3>2. CASE ~(e + 1 >= p * (k + 1))
      <4>1. e2 = e + 1
        BY <2>1, <3>2
      <4>2. (e + 1) \div p \in Nat /\ e \div p \in Nat
        BY <1>1, <1>5, <2>2, Division
      <4> QED BY <2>2, <4>1, <4>2
    <3> QED BY <3>1, <3>2
  <2>4. BucketOK(c, b2)
    <3> HIDE DEF n, e2, k
    <3>1. n <= capacity(c)
      BY <1>1 DEF k
    <3>2. BucketOK(c, [tokens |-> n, elapsed |-> e2])
      BY <1>1, <2>3, <3>1, MakeBucket
    <3> QED BY <1>2, <3>2
  <2>5. refill(c, b2).tokens = Least(n + y, k) /\ refill(c, b).tokens = Least(n + s, k)
    <3> HIDE DEF e2
    <3> QED BY ZenonT(30), <1>3, <1>5, <2>4, RefillCredits
  <2>6. /\ (e % p) + 1 < p => x = s
        /\ ~((e % p) + 1 < p) => x = s + 1
    BY <1>1, <1>5, OneTickMore
  <2> HIDE DEF n, y, s, x, k, e2
  <2>7. x = s => Least(n + y, k) >= Least(n + s, k)
    BY <1>1, <2>3 DEF Least
  <2>8. x = s + 1 => Least(n + y, k) >= Least(Least(n + s, k) + 1, k)
    BY <1>1, <2>3 DEF Least
  <2> QED BY <1>3, <1>5, <2>3, <2>4, <2>5, <2>6, <2>7, <2>8 DEF k
<1> QED BY <1>1, <1>4, <1>5

LEMMA TickKeepsLane ==
  ASSUME LaneInv, LimiterTick
  PROVE  LaneInv'
<1> DEFINE p == refill_period("order")
           b == bucket["order"]
           lane == exitLane.tokens
<1>0. "order" \in Classes /\ bucket \in [Classes -> [tokens : Nat, elapsed : Nat]]
      /\ \A c \in Classes : BucketOK(c, bucket[c])
  BY LimiterAssumption DEF LaneInv
<1>1. \A c \in Classes :
         bucket'[c] = [bucket[c] EXCEPT !.elapsed =
                 IF refill_period(c) <= 0 THEN 0
                 ELSE IF bucket[c].elapsed + 1 >= refill_period(c) * (capacity(c) + 1)
                      THEN (bucket[c].elapsed + 1) - refill_period(c) ELSE bucket[c].elapsed + 1]
  BY DEF LimiterTick
<1>2. \A c \in Classes : BucketOK(c, bucket'[c])
  BY <1>0, <1>1, BucketTicks
<1>3. bucket' \in [Classes -> [tokens : Nat, elapsed : Nat]]
  <2>1. DOMAIN bucket' = Classes /\ bucket' = [c \in Classes |-> bucket'[c]]
    BY DEF LimiterTick
  <2> QED BY <1>2, <2>1 DEF BucketOK
<1>4. /\ p \in Nat /\ p = Second \div order_capacity /\ clamp_reserved \in Nat
      /\ capacity("order") \in Nat /\ clamp_reserved <= capacity("order")
  BY <1>0, Capacities
<1>5. /\ exitLane \in [tokens : 0 .. clamp_reserved, phase : Nat]
      /\ lane \in 0 .. clamp_reserved /\ exitLane.phase \in Nat
      /\ p > 0 => exitLane.phase = b.elapsed % p
      /\ refill("order", b).tokens >= lane
  BY DEF LaneInv, ExitLaneHolds
<1>6. /\ refill("order", b).tokens \in Nat /\ refill("order", bucket'["order"]).tokens \in Nat
  BY <1>0, <1>2, RefillCredits DEF BucketOK
<1>7. CASE p = 0
  <2>1. exitLane' = exitLane
    BY <1>4, <1>7 DEF LimiterTick
  <2>2. refill("order", bucket'["order"]).tokens = refill("order", b).tokens
    <3> DEFINE b2 == bucket'["order"]
               c == "order"
    <3>1. b2 = [b EXCEPT !.elapsed =
                 IF refill_period(c) <= 0 THEN 0
                 ELSE IF b.elapsed + 1 >= refill_period(c) * (capacity(c) + 1)
                      THEN (b.elapsed + 1) - refill_period(c) ELSE b.elapsed + 1]
      BY <1>0, <1>1
    <3>2. BucketOK(c, b) /\ refill_period(c) = 0 /\ c \in Classes
      BY <1>0, <1>7
    <3> HIDE DEF b2, b, c
    <3>3. refill(c, b2).tokens = refill(c, b).tokens
      BY <3>1, <3>2, BucketTicks
    <3> QED BY <3>3 DEF b2, b, c
  <2> QED BY <1>2, <1>3, <1>5, <1>7, <2>1, <2>2 DEF LaneInv, ExitLaneHolds
<1>8. CASE p > 0
  <2> DEFINE r == refill("order", b).tokens
             r2 == refill("order", bucket'["order"]).tokens
             t == b.elapsed % p
  <2>1. /\ bucket'["order"].elapsed % p = (b.elapsed + 1) % p
        /\ t + 1 < p => r2 >= r
        /\ ~(t + 1 < p) => r2 >= Least(r + 1, capacity("order"))
    BY <1>0, <1>1, <1>8, BucketTicks
  <2>2. /\ t + 1 < p => (b.elapsed + 1) % p = (t + 1)
        /\ ~(t + 1 < p) => (b.elapsed + 1) % p = 0
    <3>1. b.elapsed \in Nat
      BY <1>0
    <3> QED BY <1>4, <1>8, <3>1, OneTickMore
  <2>3. exitLane' = IF t + 1 < p THEN [tokens |-> lane, phase |-> t + 1]
                    ELSE [tokens |-> Least(lane + 1, clamp_reserved), phase |-> 0]
    <3>1. exitLane' = IF exitLane.phase + 1 < p THEN [exitLane EXCEPT !.phase = @ + 1]
                      ELSE [tokens |-> Least(exitLane.tokens + 1, clamp_reserved), phase |-> 0]
      BY <1>4, <1>8 DEF LimiterTick
    <3>2. [exitLane EXCEPT !.phase = @ + 1] = [tokens |-> lane, phase |-> exitLane.phase + 1]
      BY <1>5
    <3> HIDE DEF p, t
    <3>3. exitLane.phase = t
      BY <1>5, <1>8 DEF t
    <3> QED BY <3>1, <3>2, <3>3
  <2>4. t \in Nat
    BY <1>5, <1>8
  <2> HIDE DEF r, r2, t, p, lane
  <2>5. /\ exitLane'.tokens = IF t + 1 < p THEN lane ELSE Least(lane + 1, clamp_reserved)
        /\ exitLane'.phase = IF t + 1 < p THEN t + 1 ELSE 0
    BY <2>3
  <2>6. exitLane' \in [tokens : 0 .. clamp_reserved, phase : Nat]
    <3>1. Least(lane + 1, clamp_reserved) \in 0 .. clamp_reserved
      BY <1>4, <1>5 DEF Least, lane
    <3> QED BY <1>5, <2>3, <2>4, <3>1
  <2>7. r2 >= exitLane'.tokens
    <3>1. r \in Nat /\ r2 \in Nat /\ r >= lane
      BY <1>5, <1>6 DEF r, r2
    <3>2. CASE t + 1 < p
      <4>1. r2 >= r /\ exitLane'.tokens = lane
        BY <2>1, <2>5, <3>2
      <4> QED BY <1>5, <3>1, <4>1
    <3>3. CASE ~(t + 1 < p)
      <4>1. r2 >= Least(r + 1, capacity("order")) /\ exitLane'.tokens = Least(lane + 1, clamp_reserved)
        BY <2>1, <2>5, <3>3
      <4>2. Least(r + 1, capacity("order")) >= Least(lane + 1, clamp_reserved)
        BY <1>4, <1>5, <3>1 DEF Least
      <4>3. Least(lane + 1, clamp_reserved) \in Int /\ Least(r + 1, capacity("order")) \in Int
        BY <1>4, <1>5, <3>1 DEF Least
      <4> QED BY <3>1, <4>1, <4>2, <4>3
    <3> QED BY <3>2, <3>3
  <2>8. exitLane'.phase = bucket'["order"].elapsed % p
    BY <2>1, <2>2, <2>5
  <2> QED BY <1>2, <1>3, <2>6, <2>7, <2>8 DEF LaneInv, ExitLaneHolds, r2, p
<1> QED BY <1>4, <1>7, <1>8

-----------------------------------------------------------------------------
(* The breaker in a storm of 429s.                                         *)

Breakers == [run : 0 .. IntMax, trips : 0 .. IntMax, open : 0 .. MaxQuiet]

\* A breaker has counted the 429s of the storm, and from the threshold on has a
\* trip for each of them, whose cooldown is over when the breaker closes.
Backed(b, h, q) ==
    /\ b.run >= Least(h, IntMax)
    /\ h >= trip_threshold => /\ b.trips >= Least(h - trip_threshold + 1, IntMax)
                              /\ b.open + q >= cooldown[b.trips] * Second

StormInv ==
    /\ breaker \in [Classes -> Breakers]
    /\ hits \in [Classes -> 0 .. MaxHits] /\ quiet \in [Classes -> 0 .. MaxQuiet]
    /\ \A c \in Classes : Backed(breaker[c], hits[c], quiet[c])

LEMMA StormBounds == /\ MaxQuiet \in Nat /\ MaxQuiet = cooldown_cap * Second
                     /\ MaxHits \in Nat /\ MaxHits >= trip_threshold
<1>1. cooldown_cap * Second \in Nat
  BY LimiterSettings
<1>2. MaxHits \in Nat /\ MaxHits >= trip_threshold
  BY LimiterSettings DEF MaxHits, Most
<1> QED BY <1>1, <1>2 DEF MaxQuiet

LEMMA CooldownTime ==
  ASSUME NEW t \in Nat
  PROVE  /\ cooldown[t] \in Nat /\ cooldown[t] >= 1
         /\ cooldown[t] * Second \in 0 .. MaxQuiet
<1>1. cooldown[t] \in cooldown_base .. cooldown_cap
  <2>1. CASE t = 0
    BY <2>1, CooldownIs, LimiterSettings
  <2>2. CASE t # 0
    <3>1. t - 1 \in Nat /\ (t - 1) + 1 = t
      BY <2>2
    <3> QED BY <3>1, CooldownDoubles
  <2> QED BY <2>1, <2>2
<1>2. cooldown[t] \in Nat /\ cooldown[t] >= 1 /\ cooldown[t] <= cooldown_cap
  BY <1>1, LimiterSettings
<1> DEFINE x == cooldown[t]
<1> HIDE DEF x
<1>3. x * Second <= cooldown_cap * Second
  BY <1>2, LimiterSettings, ProductMonotone DEF x
<1>4. x * Second \in Nat
  BY <1>2, LimiterSettings DEF x
<1> QED BY <1>2, <1>3, <1>4, StormBounds DEF x

\* What the trips of a storm mean in seconds: doubled for each 429 past the
\* threshold, up to the cap.
LEMMA TripsDouble ==
  ASSUME NEW t \in 0 .. IntMax, NEW k \in Nat, t >= Least(k + 1, IntMax)
  PROVE  cooldown[t] >= Least(cooldown_base * Pow2[k], MaxCooldown)
<1>1. t \in Nat /\ t >= 1 /\ t - 1 \in Nat /\ (t - 1) + 1 = t
  BY LimiterSettings DEF Least
<1> DEFINE x == cooldown[t]
           z == Pow2[t - 1]
           y == Pow2[k]
           u == cooldown_base * z
           w == cooldown_base * y
<1>2. x \in Nat /\ (x = cooldown_cap \/ x >= u)
  BY <1>1, CooldownDoubles, CooldownTime
<1>3. z \in Nat /\ y \in Nat /\ z >= t
  BY <1>1, Pow2Is, Pow2Grows
<1>4. u \in Int /\ w \in Int
  BY <1>3, LimiterSettings
<1>5. CASE x = cooldown_cap
  <2> HIDE DEF x, y, w
  <2>1. x >= Least(w, MaxCooldown)
    BY <1>2, <1>4, <1>5, LimiterSettings DEF Least
  <2> QED BY <2>1 DEF x, y, w
<1>6. CASE x >= u
  <2>1. CASE t >= k + 1
    <3>1. z >= y
      BY <1>1, <2>1, Pow2Monotone
    <3>2. y * cooldown_base <= z * cooldown_base
      BY <1>3, <3>1, LimiterSettings, ProductMonotone
    <3>3. y * cooldown_base = w /\ z * cooldown_base = u
      BY <1>3, LimiterSettings
    <3> HIDE DEF x, y, z, u, w
    <3>4. x >= Least(w, MaxCooldown)
      BY <1>2, <1>4, <1>6, <3>2, <3>3, LimiterSettings DEF Least
    <3> QED BY <3>4 DEF x, w, y
  <2>2. CASE ~(t >= k + 1)
    <3>1. t >= IntMax
      BY <2>2, LimiterSettings DEF Least
    <3>2. 1 * z <= cooldown_base * z
      BY <1>3, LimiterSettings, ProductMonotone
    <3>3. z <= u
      BY <1>3, <3>2
    <3>4. MaxCooldown <= IntMax
      BY LimiterSettings
    <3> HIDE DEF x, y, z, u, w
    <3>5. x >= Least(w, MaxCooldown)
      BY <1>1, <1>2, <1>3, <1>4, <1>6, <3>1, <3>3, <3>4, LimiterSettings DEF Least
    <3> QED BY <3>5 DEF x, w, y
  <2> QED BY <2>1, <2>2
<1> QED BY <1>2, <1>5, <1>6

\* is_open was false when the entry went.
LEMMA ClosedAfterCooldown ==
  ASSUME NEW b \in Breakers, NEW h \in Nat, NEW q \in Nat, Backed(b, h, q),
         ~(b.open > 0), h >= trip_threshold
  PROVE  q >= Least(cooldown_base * Pow2[h - trip_threshold], MaxCooldown) * Second
<1> DEFINE k == h - trip_threshold
           x == cooldown[b.trips]
           m == Least(cooldown_base * Pow2[k], MaxCooldown)
<1>1. k \in Nat /\ b.trips \in 0 .. IntMax /\ b.trips \in Nat /\ b.open = 0
  BY LimiterSettings, StormBounds DEF Breakers
<1>2. b.trips >= Least(k + 1, IntMax) /\ b.open + q >= x * Second
  BY DEF Backed
<1>3. x >= m
  <2> DEFINE t == b.trips
  <2> HIDE DEF t, k
  <2>1. t \in 0 .. IntMax /\ t >= Least(k + 1, IntMax)
    BY <1>1, <1>2 DEF t
  <2>2. cooldown[t] >= Least(cooldown_base * Pow2[k], MaxCooldown)
    BY <1>1, <2>1, TripsDouble
  <2> QED BY <2>2 DEF t
<1>4. x \in Nat /\ m \in Int
  <2>1. cooldown_base * Pow2[k] \in Int
    BY <1>1, Pow2Is, LimiterSettings
  <2> QED BY <1>1, <2>1, CooldownTime, LimiterSettings DEF Least
<1>5. m * Second <= x * Second
  <2> HIDE DEF m, x
  <2> QED BY <1>3, <1>4, LimiterSettings, ProductMonotone
<1>6. m * Second \in Int /\ x * Second \in Int
  BY <1>4, LimiterSettings
<1> HIDE DEF m, x
<1>7. q >= m * Second
  BY <1>1, <1>2, <1>5, <1>6
<1> QED BY <1>7 DEF m, k

LEMMA FreshStorm ==
  ASSUME breaker' = LimiterFresh.breaker, hits' = [c \in Classes |-> 0],
         quiet' = [c \in Classes |-> MaxQuiet]
  PROVE  StormInv'
<1>1. breaker' = [c \in Classes |-> ClosedBreaker]
  BY DEF LimiterFresh
<1>2. ClosedBreaker \in Breakers /\ ClosedBreaker.run = 0
  BY LimiterSettings, StormBounds DEF ClosedBreaker, Breakers
<1>3. \A q : Backed(ClosedBreaker, 0, q)
  BY <1>2, LimiterSettings DEF Backed, Least
<1>4. 0 \in 0 .. MaxHits /\ MaxQuiet \in 0 .. MaxQuiet
  BY StormBounds
<1> QED BY <1>1, <1>2, <1>3, <1>4 DEF StormInv

LEMMA SuccessKeepsStorm ==
  ASSUME StormInv, NEW c \in Classes, record_success(c)
  PROVE  StormInv'
<1>1. breaker' = [breaker EXCEPT ![c] = ClosedBreaker] /\ hits' = [hits EXCEPT ![c] = 0]
      /\ quiet' = quiet
  BY DEF record_success
<1>2. ClosedBreaker \in Breakers /\ ClosedBreaker.run = 0
  BY LimiterSettings, StormBounds DEF ClosedBreaker, Breakers
<1>3. \A q : Backed(ClosedBreaker, 0, q)
  BY <1>2, LimiterSettings DEF Backed, Least
<1>4. 0 \in 0 .. MaxHits
  BY StormBounds
<1> QED BY <1>1, <1>2, <1>3, <1>4 DEF StormInv

LEMMA ThrottledKeepsStorm ==
  ASSUME StormInv, NEW c \in Classes, record_429(c)
  PROVE  StormInv'
<1> DEFINE b == breaker[c]
           h == hits[c]
           run == Least(b.run + 1, IntMax)
           tripped == run >= trip_threshold
           trips == IF tripped THEN Least(b.trips + 1, IntMax) ELSE b.trips
           open == IF tripped THEN cooldown_seconds_for(trips) * Second ELSE b.open
           b2 == [run |-> run, trips |-> trips, open |-> open]
           h2 == Least(h + 1, MaxHits)
<1>1. /\ breaker' = [breaker EXCEPT ![c] = b2] /\ hits' = [hits EXCEPT ![c] = h2]
      /\ quiet' = [quiet EXCEPT ![c] = 0]
  BY DEF record_429
<1>2. /\ b.run \in 0 .. IntMax /\ b.trips \in 0 .. IntMax /\ b.open \in 0 .. MaxQuiet
      /\ h \in 0 .. MaxHits /\ Backed(b, h, quiet[c])
  BY DEF StormInv, Breakers
<1>3. run \in 0 .. IntMax /\ trips \in 0 .. IntMax /\ trips \in Nat
  BY <1>2, LimiterSettings DEF Least
<1>4. cooldown[trips] * Second \in 0 .. MaxQuiet
  <2> HIDE DEF trips
  <2> QED BY <1>3, CooldownTime
<1>5. open \in 0 .. MaxQuiet
  <2> HIDE DEF trips, run
  <2> QED BY <1>2, <1>4 DEF cooldown_seconds_for
<1>6. b2 \in Breakers
  <2> HIDE DEF trips, run, open
  <2> QED BY <1>3, <1>5 DEF Breakers
<1>7. h2 \in 0 .. MaxHits /\ h2 <= h + 1
  BY <1>2, StormBounds DEF Least
<1>8. Backed(b2, h2, 0)
  <2>1. b2.run = run /\ b2.trips = trips /\ b2.open = open
    <3> HIDE DEF trips, run, open
    <3> QED OBVIOUS
  <2>2. b.run >= Least(h, IntMax)
    BY <1>2 DEF Backed
  <2>3. run >= Least(h2, IntMax)
    <3> HIDE DEF h2
    <3> QED BY <1>2, <1>7, <2>2, LimiterSettings, StormBounds DEF Least
  <2>4. ASSUME h2 >= trip_threshold
        PROVE  tripped /\ trips >= Least(h2 - trip_threshold + 1, IntMax)
    <3> HIDE DEF h2
    <3>1. tripped
      <4> HIDE DEF run
      <4> QED BY <1>3, <1>7, <2>3, <2>4, LimiterSettings, StormBounds DEF Least
    <3>2. trips = Least(b.trips + 1, IntMax)
      BY <3>1
    <3> HIDE DEF run, trips, tripped
    <3>3. CASE h >= trip_threshold
      <4>1. b.trips >= Least(h - trip_threshold + 1, IntMax)
        BY <1>2, <3>3 DEF Backed
      <4> QED BY <1>2, <1>7, <3>1, <3>2, <4>1, LimiterSettings, StormBounds DEF Least
    <3>4. CASE ~(h >= trip_threshold)
      <4>1. h2 - trip_threshold + 1 <= 1
        BY <1>2, <1>7, <3>4, LimiterSettings, StormBounds
      <4> QED BY <1>2, <1>7, <3>1, <3>2, <4>1, LimiterSettings, StormBounds DEF Least
    <3> QED BY <3>3, <3>4
  <2>5. h2 >= trip_threshold => open + 0 >= cooldown[trips] * Second
    <3>1. tripped => open = cooldown[trips] * Second
      BY DEF cooldown_seconds_for
    <3> HIDE DEF run, trips, tripped, open, h2
    <3> QED BY <1>4, <2>4, <3>1, StormBounds
  <2> HIDE DEF b2, trips, run, open, h2, tripped
  <2> QED BY <2>1, <2>3, <2>4, <2>5 DEF Backed
<1>9. 0 \in 0 .. MaxQuiet
  BY StormBounds
<1> HIDE DEF b2, h2
<1> QED BY <1>1, <1>6, <1>7, <1>8, <1>9 DEF StormInv

LEMMA TickKeepsStorm ==
  ASSUME StormInv, LimiterTick
  PROVE  StormInv'
<1>0. /\ breaker' = [c \in Classes |-> [breaker[c] EXCEPT !.open = Most(@ - 1, 0)]]
      /\ quiet' = [c \in Classes |-> Least(quiet[c] + 1, MaxQuiet)] /\ hits' = hits
  BY DEF LimiterTick
<1>1. ASSUME NEW c \in Classes
      PROVE  /\ breaker'[c] \in Breakers /\ quiet'[c] \in 0 .. MaxQuiet
             /\ Backed(breaker'[c], hits[c], quiet'[c])
  <2> DEFINE b == breaker[c]
             q == quiet[c]
             q2 == Least(q + 1, MaxQuiet)
             o2 == Most(b.open - 1, 0)
             b2 == [run |-> b.run, trips |-> b.trips, open |-> o2]
  <2>1. b \in Breakers /\ q \in 0 .. MaxQuiet /\ Backed(b, hits[c], q)
    BY DEF StormInv
  <2>2. breaker'[c] = b2 /\ quiet'[c] = q2
    <3>1. [b EXCEPT !.open = Most(@ - 1, 0)] = b2
      BY <2>1 DEF Breakers
    <3> QED BY <1>0, <3>1
  <2>3. /\ b.run \in 0 .. IntMax /\ b.trips \in 0 .. IntMax /\ b.open \in 0 .. MaxQuiet
        /\ b.trips \in Nat
    BY <2>1, LimiterSettings DEF Breakers
  <2>4. o2 \in 0 .. MaxQuiet /\ q2 \in 0 .. MaxQuiet
    BY <2>1, <2>3, StormBounds DEF Most, Least
  <2>5. b2 \in Breakers /\ b2.run = b.run /\ b2.trips = b.trips /\ b2.open = o2
    <3> HIDE DEF o2
    <3> QED BY <2>3, <2>4 DEF Breakers
  <2>6. \A x \in 0 .. MaxQuiet : b.open + q >= x => o2 + q2 >= x
    BY <2>1, <2>3, StormBounds DEF Most, Least
  <2>7. cooldown[b.trips] * Second \in 0 .. MaxQuiet
    BY <2>3, CooldownTime
  <2> HIDE DEF b2, o2, q2
  <2>8. Backed(b2, hits[c], q2)
    BY <2>1, <2>5, <2>6, <2>7 DEF Backed
  <2> QED BY <2>2, <2>4, <2>5, <2>8
<1>2. breaker' \in [Classes -> Breakers] /\ quiet' \in [Classes -> 0 .. MaxQuiet]
  BY <1>0, <1>1
<1> QED BY <1>0, <1>1, <1>2 DEF StormInv

-----------------------------------------------------------------------------
(* The limiter in the loop.                                                *)

LimiterInv == LaneInv /\ StormInv

LEMMA LimiterWatched ==
  ASSUME [Next]_vars
  PROVE  \/ UNCHANGED limiterVars \/ LimiterRestart \/ LimiterTick
         \/ \E c \in Classes : \/ \E is_exit \in BOOLEAN : acquire(c, is_exit)
                               \/ record_429(c) \/ record_success(c)
<1>0. "order" \in Classes
  BY LimiterAssumption
<1>1. ASSUME Start PROVE UNCHANGED limiterVars \/ LimiterRestart
  BY <1>1 DEF Start
<1>2. CASE Crash
  BY <1>2 DEF Crash
<1>3. CASE Tick
  BY <1>3 DEF Tick
<1>4. CASE Dispatch
  <2> DEFINE x == order.kind # "entry"
  <2>1. UNCHANGED limiterVars \/ acquire("order", x)
    BY <1>4 DEF Dispatch
  <2>2. x \in BOOLEAN
    OBVIOUS
  <2> HIDE DEF x
  <2> QED BY <1>0, <2>1, <2>2
<1>5. ASSUME NEW throttled \in BOOLEAN, Reply(throttled) PROVE record_429("order") \/ record_success("order")
  BY <1>5 DEF Reply
<1>6. ASSUME NEW c \in Classes, Quote(c) PROVE acquire(c, FALSE)
  BY <1>6 DEF Quote
<1>7. CASE Control \/ Fill \/ PreflightEntry \/ PreflightMargin \/ PreflightExit \/ BeforeDispatch
           \/ (\E d \in Deviations : Deviate(d)) \/ (\E o \in offered : LoopTop(o)) \/ UNCHANGED vars
  <2>1. UNCHANGED limiterVars
    BY <1>7 DEF Control, Fill, PreflightEntry, PreflightMargin, PreflightExit, BeforeDispatch,
                Deviate, LoopTop, vars
  <2> QED BY <2>1
<1> QED BY <1>0, <1>1, <1>2, <1>3, <1>4, <1>5, <1>6, <1>7 DEF Next

LEMMA LimiterInvPreserved == LimiterInv /\ [Next]_vars => LimiterInv'
<1> SUFFICES ASSUME LimiterInv, [Next]_vars PROVE LimiterInv'
  OBVIOUS
<1>0. LaneInv /\ StormInv
  BY DEF LimiterInv
<1>1. CASE UNCHANGED <<bucket, exitLane>> /\ StormInv'
  BY <1>0, <1>1 DEF LimiterInv, LaneInv, ExitLaneHolds
<1>2. CASE UNCHANGED <<breaker, hits, quiet>> /\ LaneInv'
  BY <1>0, <1>2 DEF LimiterInv, StormInv
<1>3. CASE UNCHANGED limiterVars
  <2>1. StormInv'
    BY <1>0, <1>3 DEF limiterVars, StormInv
  <2> QED BY <1>1, <1>3, <2>1 DEF limiterVars
<1>4. CASE LimiterRestart
  BY <1>4, FreshLane, FreshStorm DEF LimiterRestart, LimiterInv
<1>5. CASE LimiterTick
  BY <1>0, <1>5, TickKeepsLane, TickKeepsStorm DEF LimiterInv
<1>6. ASSUME NEW c \in Classes, NEW is_exit \in BOOLEAN, acquire(c, is_exit) PROVE LimiterInv'
  <2>1. UNCHANGED <<breaker, hits, quiet>>
    BY <1>6 DEF acquire
  <2> QED BY <1>0, <1>2, <1>6, <2>1, AcquireKeepsLane
<1>7. ASSUME NEW c \in Classes, record_429(c) PROVE LimiterInv'
  <2>1. UNCHANGED <<bucket, exitLane>>
    BY <1>7 DEF record_429
  <2> QED BY <1>0, <1>1, <1>7, <2>1, ThrottledKeepsStorm
<1>8. ASSUME NEW c \in Classes, record_success(c) PROVE LimiterInv'
  <2>1. UNCHANGED <<bucket, exitLane>>
    BY <1>8 DEF record_success
  <2> QED BY <1>0, <1>1, <1>8, <2>1, SuccessKeepsStorm
<1> QED BY <1>3, <1>4, <1>5, <1>6, <1>7, <1>8, LimiterWatched

LEMMA LimiterInvInit == Init => LimiterInv
<1> SUFFICES ASSUME Init PROVE LimiterInv
  OBVIOUS
<1>0. "order" \in Classes
  BY LimiterAssumption
<1>1. /\ bucket = [c \in Classes |-> FullBucket(c)] /\ breaker = [c \in Classes |-> ClosedBreaker]
      /\ exitLane = [tokens |-> clamp_reserved, phase |-> 0]
      /\ hits = [c \in Classes |-> 0] /\ quiet = [c \in Classes |-> MaxQuiet]
  BY DEF Init, LimiterInit, LimiterFresh
<1>2. StormInv
  <2>1. ClosedBreaker \in Breakers /\ ClosedBreaker.run = 0
    BY LimiterSettings, StormBounds DEF ClosedBreaker, Breakers
  <2>2. \A q : Backed(ClosedBreaker, 0, q)
    BY <2>1, LimiterSettings DEF Backed, Least
  <2>3. 0 \in 0 .. MaxHits /\ MaxQuiet \in 0 .. MaxQuiet
    BY StormBounds
  <2> QED BY <1>1, <2>1, <2>2, <2>3 DEF StormInv
<1>3. LaneInv
  <2> DEFINE p == refill_period("order")
             b == bucket["order"]
             k == capacity("order")
  <2>1. \A c \in Classes : bucket[c] = [tokens |-> capacity(c), elapsed |-> 0]
    BY <1>1 DEF FullBucket
  <2>2. \A c \in Classes : BucketOK(c, bucket[c])
    <3> SUFFICES ASSUME NEW c \in Classes PROVE BucketOK(c, bucket[c])
      OBVIOUS
    <3>1. capacity(c) \in Nat /\ capacity(c) <= capacity(c)
      BY Capacities
    <3>2. BucketOK(c, [tokens |-> capacity(c), elapsed |-> 0])
      BY <3>1, MakeBucket
    <3> QED BY <2>1, <3>2
  <2>3. bucket \in [Classes -> [tokens : Nat, elapsed : Nat]]
    BY <1>1, <2>2 DEF BucketOK
  <2>4. /\ exitLane \in [tokens : 0 .. clamp_reserved, phase : Nat]
        /\ exitLane.tokens = clamp_reserved /\ exitLane.phase = 0
    BY <1>1, Capacities
  <2>5. b.tokens = k /\ b.elapsed = 0 /\ k \in Nat /\ clamp_reserved \in Nat /\ clamp_reserved <= k /\ p \in Nat
    <3>1. k \in Nat /\ clamp_reserved \in Nat /\ clamp_reserved <= k /\ p \in Nat
      BY <1>0, Capacities
    <3>2. b = [tokens |-> k, elapsed |-> 0]
      BY <1>0, <2>1
    <3> HIDE DEF b, k, p
    <3> QED BY <3>1, <3>2
  <2>6. ASSUME p > 0 PROVE 0 % p = 0 /\ 0 \div p = 0
    <3>1. 0 = p * 0 + 0
      BY <2>5
    <3> HIDE DEF p
    <3> QED BY <2>5, <2>6, <3>1, DivisionIsUnique
  <2>7. refill("order", b).tokens = k
    <3>1. CASE p = 0
      BY <1>0, <2>2, <2>5, <3>1, RefillCredits
    <3>2. CASE p > 0
      <4>1. refill("order", b).tokens = Least(k + 0, k)
        BY <1>0, <2>2, <2>5, <2>6, <3>2, RefillCredits
      <4> HIDE DEF k
      <4> QED BY <2>5, <4>1 DEF Least
    <3> QED BY <2>5, <3>1, <3>2
  <2>8. p > 0 => exitLane.phase = b.elapsed % p
    BY <2>4, <2>5, <2>6
  <2>9. ExitLaneHolds
    BY <2>4, <2>5, <2>7 DEF ExitLaneHolds
  <2> QED BY <2>2, <2>3, <2>4, <2>8, <2>9 DEF LaneInv
<1> QED BY <1>2, <1>3 DEF LimiterInv

\* The loop's own types: an order that has not been clamped yet is an offered one.
LoopTyped ==
    /\ at \in {"down", "refused", "top", "entry", "margin", "exit", "dispatch", "send", "reply"}
    /\ order \in offered \union {NoOrder} \union {apply_clamp(o) : o \in offered}
    /\ at \in {"entry", "margin", "exit"} => order \in offered
    /\ funds.age \in 0 .. Cadence + 1

LEMMA OrderTyped ==
  ASSUME LoopTyped, [Next]_vars, offered' = offered, funds'.age \in 0 .. Cadence + 1
  PROVE  LoopTyped'
<1>1. CASE UNCHANGED <<at, order>>
  BY <1>1 DEF LoopTyped
<1>2. CASE order' \in {order, NoOrder} /\ at' \in {"down", "refused", "top", "dispatch", "send", "reply"}
  BY <1>2 DEF LoopTyped
<1>3. ASSUME Start PROVE LoopTyped'
  BY <1>2, <1>3 DEF Start
<1>4. ASSUME NEW o \in offered, LoopTop(o) PROVE LoopTyped'
  <2>1. order' = o /\ at' \in {"entry", "exit"}
    BY <1>4 DEF LoopTop
  <2> QED BY <2>1 DEF LoopTyped
<1>5. CASE PreflightEntry
  <2>1. at = "entry" /\ order' = order /\ at' \in {"margin", "top"}
    BY <1>5 DEF PreflightEntry
  <2> QED BY <2>1 DEF LoopTyped
<1>6. CASE PreflightMargin
  BY <1>2, <1>6 DEF PreflightMargin
<1>7. CASE PreflightExit
  <2>1. at = "exit" /\ order' \in {order, apply_clamp(order)} /\ at' \in {"dispatch", "top"}
    BY <1>7 DEF PreflightExit
  <2>2. order \in offered
    BY <2>1 DEF LoopTyped
  <2> QED BY <2>1, <2>2 DEF LoopTyped
<1>8. CASE BeforeDispatch \/ Dispatch \/ Crash
  BY <1>2, <1>8 DEF BeforeDispatch, Dispatch, Crash
<1>9. ASSUME NEW throttled \in BOOLEAN, Reply(throttled) PROVE LoopTyped'
  BY <1>2, <1>9 DEF Reply
<1>10. CASE \/ Control \/ Tick \/ Fill \/ (\E d \in Deviations : Deviate(d))
            \/ (\E c \in Classes : Quote(c)) \/ UNCHANGED vars
  <2>1. UNCHANGED <<at, order>>
    BY <1>10 DEF Control, Tick, Fill, Deviate, Quote, vars, loopVars
  <2> QED BY <1>1, <2>1
<1> QED BY <1>3, <1>4, <1>5, <1>6, <1>7, <1>8, <1>9, <1>10 DEF Next

LEMMA AgeTyped ==
  ASSUME funds.age \in 0 .. Cadence + 1, FundsOK(funds), [Next]_vars
  PROVE  funds'.age \in 0 .. Cadence + 1
<1>0. Cadence \in Nat
  BY PreflightAssumption
<1>1. CASE funds' = funds
  BY <1>1
<1>2. CASE funds' = [funds EXCEPT !.age = Least(@ + 1, Cadence + 1)]
  <2>1. funds'.age = Least(funds.age + 1, Cadence + 1)
    BY <1>2 DEF FundsOK
  <2> QED BY <1>0, <2>1 DEF Least
<1>3. CASE funds' = invalidate(funds)
  <2>1. funds'.age = funds.age
    BY <1>3 DEF FundsOK, invalidate
  <2> QED BY <2>1
<1>4. CASE funds' = ensure_fresh(funds, world)
  <2>1. funds'.age \in {funds.age, 0}
    BY <1>4 DEF ensure_fresh
  <2> QED BY <1>0, <2>1
<1>5. CASE funds' = NoFunds
  BY <1>0, <1>5 DEF NoFunds
<1>6. \/ funds' = funds \/ funds' = [funds EXCEPT !.age = Least(@ + 1, Cadence + 1)]
      \/ funds' = invalidate(funds) \/ funds' = ensure_fresh(funds, world) \/ funds' = NoFunds
  BY DEF Next, Start, Crash, Control, Tick, Fill, Deviate, LoopTop, PreflightEntry, PreflightMargin,
         PreflightExit, BeforeDispatch, Dispatch, Reply, Quote, vars, loopVars, Fetch
<1> QED BY <1>1, <1>2, <1>3, <1>4, <1>5, <1>6

\* An entry that goes is granted, so the breaker is closed.
LEMMA SendIsBackedOff ==
  ASSUME StormInv, Dispatch, sent' # sent, sent'.order.kind = "entry", sent'.hits >= trip_threshold
  PROVE  sent'.quiet >= Least(cooldown_base * Pow2[sent'.hits - trip_threshold], MaxCooldown) * Second
<1>0. "order" \in Classes
  BY LimiterAssumption
<1>1. /\ Granted("order", order.kind # "entry")
      /\ sent' = [order |-> order, killed |-> {c \in engaged \ late : Covers(c, order.strategy)},
                  hits |-> hits["order"], quiet |-> quiet["order"]]
  BY DEF Dispatch
<1>2. sent'.order = order /\ sent'.hits = hits["order"] /\ sent'.quiet = quiet["order"]
  BY <1>1
<1>3. ~(breaker["order"].open > 0)
  BY <1>1, <1>2 DEF Granted, denied_by_breaker, is_open
<1>4. /\ breaker["order"] \in Breakers /\ hits["order"] \in Nat /\ quiet["order"] \in Nat
      /\ Backed(breaker["order"], hits["order"], quiet["order"])
  BY <1>0, StormBounds DEF StormInv
<1> DEFINE b == breaker["order"]
           h == hits["order"]
           q == quiet["order"]
<1>5. b \in Breakers /\ h \in Nat /\ q \in Nat /\ Backed(b, h, q) /\ ~(b.open > 0) /\ h >= trip_threshold
  BY <1>2, <1>3, <1>4
<1> HIDE DEF b, h, q
<1>6. q >= Least(cooldown_base * Pow2[h - trip_threshold], MaxCooldown) * Second
  BY <1>5, ClosedAfterCooldown
<1> QED BY <1>2, <1>6 DEF h, q

LEMMA TypedMeansTypeOK ==
  ASSUME KillPart, LimiterInv, LoopTyped
  PROVE  TypeOK
<1>1. KillTypeOK /\ late \subseteq engaged
  BY DEF KillPart
<1>2. LimiterTypeOK
  <2>1. \A c \in Classes : bucket[c].tokens \in 0 .. capacity(c) /\ bucket[c].elapsed \in Nat
    <3> SUFFICES ASSUME NEW c \in Classes
                 PROVE  bucket[c].tokens \in 0 .. capacity(c) /\ bucket[c].elapsed \in Nat
      OBVIOUS
    <3>1. bucket[c].tokens \in Nat /\ bucket[c].elapsed \in Nat /\ bucket[c].tokens <= capacity(c)
      BY DEF LimiterInv, LaneInv, BucketOK
    <3> QED BY <3>1, Capacities
  <2>2. \A c \in Classes : /\ breaker[c] \in [run : 0 .. IntMax, trips : 0 .. IntMax, open : 0 .. MaxQuiet]
                           /\ hits[c] \in 0 .. MaxHits /\ quiet[c] \in 0 .. MaxQuiet
    BY DEF LimiterInv, StormInv, Breakers
  <2>3. exitLane.tokens \in 0 .. clamp_reserved
    BY DEF LimiterInv, LaneInv
  <2> QED BY <2>1, <2>2, <2>3 DEF LimiterTypeOK
<1> QED BY <1>1, <1>2 DEF TypeOK, LoopTyped

(* The send limiter, for any rates, reserve and breaker settings the C++   *)
(* int can hold: the loop is well typed; EndpointRateLimiter's order       *)
(* bucket always holds what a bucket that only exits draw from would hold, *)
(* whatever entries and quotes take; and no entry leaves in a storm of     *)
(* 429s before the doubled, capped cooldown of CircuitBreaker is over.     *)
THEOREM SendLimiterHolds == Spec => []LimiterHolds
<1> DEFINE Inv == LoopInv /\ KillPart /\ LimiterInv /\ LoopTyped /\ StormBacksOff
<1>1. Init => Inv
  <2> SUFFICES ASSUME Init PROVE KillPart /\ LoopTyped /\ StormBacksOff
    BY LoopInvInit, LimiterInvInit
  <2>1. /\ journal = {} /\ queue = <<>> /\ active = {} /\ control = ControlIdle /\ acked = {} /\ engaged = {}
        /\ late = {} /\ at = "down" /\ sent = NoSend /\ order = NoOrder /\ funds = NoFunds
    BY DEF Init, KillInit
  <2>2. queue \in Seq(KillCommands) /\ control.at = "idle" /\ sent.order = NoOrder
    BY <2>1 DEF ControlIdle, NoSend
  <2>3. KillPart
    BY <2>1, <2>2
    DEF KillPart, KillTypeOK, EngagedKillInForce, AckedKillIsDurable, HandedOverIsDurable,
        DrainedKillInForce
  <2>4. funds.age \in 0 .. Cadence + 1
    BY <2>1, PreflightAssumption DEF NoFunds
  <2> QED BY <2>1, <2>2, <2>3, <2>4 DEF LoopTyped, StormBacksOff
<1>2. Inv /\ [Next]_vars => Inv'
  <2> SUFFICES ASSUME Inv, [Next]_vars PROVE LoopTyped' /\ StormBacksOff'
    BY LoopInvPreserved, KillPartPreserved, LimiterInvPreserved
  <2>1. LoopTyped'
    <3>1. offered' = offered
      BY FrameHolds DEF LoopFrame
    <3>2. funds'.age \in 0 .. Cadence + 1
      BY AgeTyped DEF LoopTyped, LoopInv
    <3> QED BY <3>1, <3>2, OrderTyped
  <2>2. StormBacksOff'
    <3>1. CASE sent' = sent
      BY <3>1 DEF StormBacksOff
    <3>2. CASE sent' = NoSend
      BY <3>2 DEF NoSend, StormBacksOff
    <3>3. CASE Dispatch /\ sent' # sent
      BY <3>3, SendIsBackedOff DEF StormBacksOff, LimiterInv
    <3> QED BY <3>1, <3>2, <3>3, SentIsWatched
  <2> QED BY <2>1, <2>2
<1>3. Inv => LimiterHolds
  BY TypedMeansTypeOK DEF LimiterHolds, LimiterInv, LaneInv
<1> QED BY <1>1, <1>2, <1>3, PTL DEF Spec
=============================================================================
