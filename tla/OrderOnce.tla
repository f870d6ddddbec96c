------------------------------ MODULE OrderOnce ------------------------------
(***************************************************************************)
(* What the write path promises its callers, without saying how: an order  *)
(* reaches the broker only after its intent is durable, under the one ref  *)
(* the intent names, once per signal, and an intent may be lost only while *)
(* nothing was submitted for it.                                           *)
(***************************************************************************)
CONSTANTS Signal, Ref

VARIABLES intents,   \* the <<signal, ref>> pairs that are durably recorded
          orders     \* the <<signal, ref>> pairs that are, or may get, at the broker

vars == <<intents, orders>>

Init == intents = {} /\ orders = {}

LogIntent(s, r) ==
  /\ \A p \in intents : p[1] # s
  /\ intents' = intents \cup {<<s, r>>}
  /\ UNCHANGED orders

Submit(s, r) ==
  /\ <<s, r>> \in intents
  /\ \A p \in orders : p[1] # s
  /\ orders' = orders \cup {<<s, r>>}
  /\ UNCHANGED intents

LoseIntent(s, r) ==
  /\ \A p \in orders : p[1] # s
  /\ intents' = intents \ {<<s, r>>}
  /\ UNCHANGED orders

Next == \E s \in Signal, r \in Ref : LogIntent(s, r) \/ Submit(s, r) \/ LoseIntent(s, r)

Spec == Init /\ [][Next]_vars
=============================================================================
