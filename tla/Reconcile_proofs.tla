--------------------------- MODULE Reconcile_proofs ---------------------------
(***************************************************************************)
(* Reconcile: broker truth wins, fills are not taken back, blocks are      *)
(* real, and recovery resumes only over a reconciled state.                *)
(***************************************************************************)
EXTENDS Reconcile, TLAPS

LocalState == {"Acknowledged", "PartiallyFilled", "Filled", "Rejected", "Cancelled", "Unknown",
               "ManualInterventionRequired"}

(* The states a local order can be in; a partial fill has a fill, and an   *)
(* order left to a human has no engine key once the process restarts.      *)
LocalOK ==
  \A r \in Ref : HasRow(r) =>
    /\ local[r].state \in LocalState
    /\ local[r].state = "PartiallyFilled" => local[r].filled > 0
    /\ local[r].state = "ManualInterventionRequired" /\ status # "manual" => last_key[r] = NoKey

(* One placement at a time, of a ref with no row, and only while trading.  *)
PlacingOK ==
  /\ status # "trading" => placing = {}
  /\ \A r \in placing : ~HasRow(r)
  /\ \A r, q \in placing : r = q

(* The broker has, and snapshots show, orders of known refs only.          *)
Known ==
  \A r \in Ref : (book[r] # NoRow \/ \E s \in snaps : s.rows[r] # NoRow) => HasRow(r) \/ r \in placing

IsKey(k, n) == \E m \in 1 .. n : k = m * Stride

KeysOK ==
  /\ \A s \in snaps : IsKey(s.key, fetched)
  /\ \A s, t \in snaps : s.key = t.key => s = t
  /\ last_snapshot_key = -1 \/ IsKey(last_snapshot_key, fetched)
  /\ status \in {"down", "blocked"} => snaps = {} /\ last_snapshot_key = -1

(* The keys the engine remembers are near the newest snapshot applied.     *)
EngineKeys ==
  /\ resolved <= MaxResolve
  /\ \A r \in Ref : last_key[r] <= (IF last_snapshot_key = -1 THEN 1 ELSE last_snapshot_key) + resolved
  /\ status \in {"down", "blocked"} /\ ~ResolvesBlocked => \A r \in Ref : last_key[r] <= 1

(* A working order is not full, and no local order is ahead of the broker. *)
BookAhead ==
  /\ \A r \in Ref : Working(r) => book[r].filled < Lots
  /\ \A r \in Ref : book[r] # NoRow /\ HasRow(r) => book[r].filled >= local[r].filled

(* Neither is a snapshot, and snapshots grow with their keys.              *)
SnapsOK ==
  /\ \A s \in snaps, r \in Ref :
       s.rows[r] # NoRow /\ book[r] # NoRow => book[r].filled >= s.rows[r].filled
  /\ \A s, t \in snaps, r \in Ref :
       s.key <= t.key /\ s.rows[r] # NoRow /\ t.rows[r] # NoRow /\ t.rows[r].state # "Unknown" =>
         s.rows[r].filled <= t.rows[r].filled

(* A snapshot the engine would still accept has every fill it believes.    *)
SnapsAhead ==
  ~raced => \A s \in snaps, r \in Ref :
    HasRow(r) /\ s.rows[r] # NoRow /\ s.rows[r].state # "Unknown" /\ s.key >= last_key[r] =>
      s.rows[r].filled >= local[r].filled

(* After a fetch the newest snapshot is what the broker has now.           *)
QuietOK ==
  quiet => \E s \in snaps : s.key = fetched * Stride /\ \A i \in Ref \cup {Foreign} : s.rows[i] \in Read(i)

ReconcileInv ==
  /\ TypeOK
  /\ LocalOK /\ PlacingOK /\ Known /\ KeysOK /\ EngineKeys /\ BookAhead /\ SnapsOK /\ SnapsAhead
  /\ QuietOK

-----------------------------------------------------------------------------
(* LifecycleEngine::apply on a fetched row.  A view is kept out of a       *)
(* terminal order, when it is older, or when the table has no way there;   *)
(* else the order takes over what the row says.                            *)
Kept(a, o, k) == a.order = o /\ a.key = k

TakesOver(a, row, key) ==
  /\ a.key = key /\ a.order.filled = row.filled /\ a.order.bid = 1
  /\ a.order.state = IF row.state # "Sent" THEN row.state
                     ELSE IF row.filled > 0 THEN "PartiallyFilled" ELSE "Acknowledged"

NoWay(o, row) ==
  \/ o.state = "PartiallyFilled" /\ row.state = "Sent" /\ row.filled = 0
  \/ o.state = "ManualInterventionRequired" /\ row.state # "Cancelled"

LEMMA RowTypes ==
  /\ NoRow \notin Rows /\ NoRow \notin BookRows /\ NoRow \notin Orders
  /\ NoRow.state = "none"
  /\ \A row \in Rows : row.filled \in Nat /\ row.named \in BOOLEAN
                       /\ row.state \in {"Sent", "Filled", "Cancelled", "Rejected", "Unknown"}
<1>1. NoRow.state = "none"
  BY DEF NoRow
<1> QED BY <1>1, ReconcileAssumption DEF Rows, BookRows, Orders, OrderState

LEMMA ApplyCases ==
  ASSUME NEW o \in Orders, o.state \in LocalState, NEW k \in Nat \cup {NoKey},
         NEW row \in Rows, NEW key \in Nat, o.state = "PartiallyFilled" => o.filled > 0
  PROVE  LET a == apply(o, k, ViewOf(row, key))
         IN  /\ a.order \in Orders /\ a.key \in Nat \cup {NoKey}
             /\ \/ is_terminal(o.state) /\ Kept(a, o, k) /\ a.outcome = "DroppedTerminal"
                \/ ~is_terminal(o.state) /\ key < k /\ Kept(a, o, k) /\ a.outcome = "DroppedStale"
                \/ ~is_terminal(o.state) /\ key >= k /\ NoWay(o, row) /\ Kept(a, o, k) /\ a.outcome = "NoChange"
                \/ ~is_terminal(o.state) /\ key >= k /\ ~NoWay(o, row) /\ TakesOver(a, row, key)
<1> DEFINE v == ViewOf(row, key)
           a == apply(o, k, v)
           c == canonical_observed(o.state, v)
           new == Observed(o, v)
<1>0. /\ row.filled \in Nat /\ row.state \in {"Sent", "Filled", "Cancelled", "Rejected", "Unknown"}
      /\ row.state \in OrderState
  BY RowTypes DEF OrderState
<1>1. v.state = row.state /\ v.filled = row.filled /\ v.bid = 1 /\ v.key = key
  BY DEF ViewOf
<1> HIDE DEF v
<1>2. CASE is_terminal(o.state)
  <2>1. a = [outcome |-> "DroppedTerminal", order |-> o, key |-> k]
    BY <1>2 DEF apply
  <2> QED BY <1>2, <2>1 DEF Kept, v
<1>3. CASE ~is_terminal(o.state) /\ key < k
  <2>1. a = [outcome |-> "DroppedStale", order |-> o, key |-> k]
    BY <1>1, <1>3 DEF apply
  <2> QED BY <1>3, <2>1 DEF Kept, v
<1>4. CASE ~is_terminal(o.state) /\ key >= k
  <2>0. ~(v.key < k)
    BY <1>1, <1>4 DEF NoKey
  <2>1. o.state \in {"Acknowledged", "PartiallyFilled", "Unknown", "ManualInterventionRequired"}
    BY <1>4 DEF is_terminal, Terminal, LocalState
  <2>2. o.state # "ManualInterventionRequired" =>
          c = IF row.state # "Sent" THEN row.state
              ELSE IF row.filled > 0 THEN "PartiallyFilled" ELSE "Acknowledged"
    BY <1>1, <2>1 DEF canonical_observed, sent_means_still_working
  <2>3. o.state = "ManualInterventionRequired" => c = row.state
    BY <1>1 DEF canonical_observed, sent_means_still_working
  <2>4. c \in OrderState
    BY <1>0, <2>2, <2>3 DEF OrderState
  <2> HIDE DEF c
  <2>5. is_valid_transition(o.state, c) <=> ~NoWay(o, row)
    BY <1>0, <2>1, <2>2, <2>3 DEF is_valid_transition, table_allows, Successors, NoWay
  <2>6. CASE NoWay(o, row)
    <3>1. Refused(o, k, v)
      BY <2>5, <2>6 DEF Refused, c
    <3>2. a = [outcome |-> "NoChange", order |-> o, key |-> k]
      BY <1>4, <2>0, <3>1 DEF apply
    <3> QED BY <1>4, <2>6, <3>2 DEF Kept, v
  <2>7. CASE ~NoWay(o, row)
    <3>1. ~Refused(o, k, v)
      BY <2>5, <2>7 DEF Refused, c
    <3>2. a.order = new /\ a.key = key
      BY <1>1, <1>4, <2>0, <3>1 DEF apply
    <3>3. new.state = c /\ new.filled = row.filled /\ new.bid = 1 /\ new \in Orders
      BY <1>0, <1>1, <2>4 DEF Observed, Orders, NoBid, c
    <3>4. o.state = "ManualInterventionRequired" => row.state = "Cancelled"
      BY <2>7 DEF NoWay
    <3> HIDE DEF new, a
    <3>5. TakesOver(a, row, key)
      BY <2>2, <2>3, <3>2, <3>3, <3>4 DEF TakesOver
    <3> QED BY <1>4, <2>7, <3>2, <3>3, <3>5 DEF a, v
  <2> QED BY <2>6, <2>7
<1>5. key < k \/ key >= k
  BY DEF NoKey
<1> QED BY <1>2, <1>3, <1>4, <1>5

(* A refused fold leaves the order alone, whether or not a row matches it. *)
LEMMA AppliedCases ==
  ASSUME TypeOK, LocalOK, NEW r \in Ref, NEW rows \in [Ref \cup {Foreign} -> Rows \cup {NoRow}],
         NEW key \in Nat
  PROVE  LET a == Applied(r, rows, key)
             o == local[r]
             k == last_key[r]
         IN  /\ a.order \in Orders \cup {NoRow} /\ a.key \in Nat \cup {NoKey}
             /\ same_order(o, rows[r]) => o \in Orders /\ rows[r] \in Rows
             /\ a.order = NoRow <=> o = NoRow
             /\ \/ ~same_order(o, rows[r]) /\ Kept(a, o, k) /\ a.outcome = "none"
                \/ /\ same_order(o, rows[r]) /\ is_terminal(o.state) /\ Kept(a, o, k)
                   /\ a.outcome = "DroppedTerminal"
                \/ same_order(o, rows[r]) /\ ~is_terminal(o.state) /\ key < k /\ Kept(a, o, k)
                   /\ a.outcome = "DroppedStale"
                \/ /\ same_order(o, rows[r]) /\ ~is_terminal(o.state) /\ key >= k
                   /\ NoWay(o, rows[r]) /\ Kept(a, o, k) /\ a.outcome = "NoChange"
                \/ /\ same_order(o, rows[r]) /\ ~is_terminal(o.state) /\ key >= k
                   /\ ~NoWay(o, rows[r]) /\ TakesOver(a, rows[r], key)
<1> DEFINE a == Applied(r, rows, key)
           o == local[r]
           k == last_key[r]
           row == rows[r]
<1>0. o \in Orders \cup {NoRow} /\ k \in Nat \cup {NoKey} /\ row \in Rows \cup {NoRow}
  BY DEF TypeOK
<1>1. CASE ~same_order(o, row)
  <2>1. a = [outcome |-> "none", order |-> o, key |-> k]
    BY <1>1 DEF Applied
  <2> QED BY <1>0, <1>1, <2>1 DEF Kept
<1>2. CASE same_order(o, row)
  <2>1. o \in Orders /\ row \in Rows /\ o # NoRow
    BY <1>0, <1>2 DEF same_order
  <2>2. o.state \in LocalState /\ (o.state = "PartiallyFilled" => o.filled > 0)
    BY <2>1 DEF LocalOK, HasRow
  <2>3. a = apply(o, k, ViewOf(row, key))
    BY <1>2 DEF Applied
  <2> HIDE DEF a, o, k, row
  <2>4. /\ a.order \in Orders /\ a.key \in Nat \cup {NoKey}
        /\ \/ is_terminal(o.state) /\ Kept(a, o, k) /\ a.outcome = "DroppedTerminal"
           \/ ~is_terminal(o.state) /\ key < k /\ Kept(a, o, k) /\ a.outcome = "DroppedStale"
           \/ ~is_terminal(o.state) /\ key >= k /\ NoWay(o, row) /\ Kept(a, o, k) /\ a.outcome = "NoChange"
           \/ ~is_terminal(o.state) /\ key >= k /\ ~NoWay(o, row) /\ TakesOver(a, row, key)
    BY ZenonT(30), <1>0, <2>1, <2>2, <2>3, ApplyCases
  <2>5. a.order # NoRow
    BY <2>4, RowTypes
  <2> QED BY <1>2, <2>1, <2>4, <2>5 DEF a, o, k, row
<1> QED BY <1>1, <1>2

(* What a fetch may read of an order.                                      *)
LEMMA ReadCases ==
  ASSUME TypeOK, NEW i \in Ref \cup {Foreign}, NEW row \in Read(i)
  PROVE  /\ row \in Rows \cup {NoRow}
         /\ row = NoRow <=> book[i] = NoRow
         /\ row # NoRow =>
              /\ row.filled <= book[i].filled
              /\ row.state # "Unknown" => row.state = book[i].state /\ row.filled = book[i].filled
              /\ row.named <=> i # Foreign /\ (EchoesRef \/ i \in tags)
<1>1. CASE book[i] = NoRow
  BY <1>1 DEF Read
<1>2. CASE book[i] # NoRow
  <2> DEFINE named == i # Foreign /\ (EchoesRef \/ i \in tags)
             good == [state |-> book[i].state, filled |-> book[i].filled, named |-> named]
             bad == [state |-> "Unknown", filled |-> 0, named |-> named]
  <2>1. row = good \/ row = bad
    BY <1>2 DEF Read
  <2>2. book[i] \in BookRows
    BY <1>2 DEF TypeOK
  <2>3. book[i].state \in {"Sent", "Filled", "Cancelled", "Rejected"} /\ book[i].filled \in 0 .. Lots
    BY <2>2 DEF BookRows
  <2>4. good \in Rows /\ bad \in Rows
    BY <2>3, ReconcileAssumption DEF Rows
  <2>5. row # NoRow
    BY <2>1, <2>4, RowTypes
  <2>6. row.named <=> i # Foreign /\ (EchoesRef \/ i \in tags)
    <3>1. good.named = named /\ bad.named = named
      BY Zenon
    <3> QED BY <2>1, <3>1, Zenon
  <2>7. /\ row.filled <= book[i].filled
        /\ row.state # "Unknown" => row.state = book[i].state /\ row.filled = book[i].filled
    <3>1. book[i].filled \in Nat
      BY <2>3, ReconcileAssumption
    <3>2. /\ good.state = book[i].state /\ good.filled = book[i].filled
          /\ bad.state = "Unknown" /\ bad.filled = 0
      OBVIOUS
    <3> HIDE DEF good, bad
    <3> QED BY <2>1, <3>1, <3>2
  <2>8. row \in Rows
    BY <2>1, <2>4
  <2> QED BY <1>2, <2>5, <2>6, <2>7, <2>8
<1> QED BY <1>1, <1>2

LEMMA FetchedCases ==
  ASSUME TypeOK, NEW f \in FetchedRows
  PROVE  /\ f \in [Ref \cup {Foreign} -> Rows \cup {NoRow}]
         /\ \A i \in Ref \cup {Foreign} : f[i] \in Read(i)
<1>1. /\ DOMAIN f = Ref \cup {Foreign}
      /\ f = [i \in DOMAIN f |-> f[i]]
      /\ \A i \in Ref \cup {Foreign} : f[i] \in Read(i)
  BY DEF FetchedRows
<1>2. \A i \in Ref \cup {Foreign} : f[i] \in Rows \cup {NoRow}
  BY <1>1, ReadCases
<1> QED BY <1>1, <1>2

LEMMA Multiples ==
  ASSUME NEW i \in Nat, NEW j \in Nat, NEW S \in Nat \ {0}
  PROVE  /\ i * S \in Nat /\ (i + 1) * S = i * S + S
         /\ i < j => i * S + S <= j * S
         /\ i > 0 => i * S >= S
<1>1. i * S \in Nat /\ j * S \in Nat /\ (i + 1) * S = i * S + S
  OBVIOUS
<1>2. ASSUME i < j PROVE i * S + S <= j * S
  <2>1. PICK d \in Nat : j = i + 1 + d
    <3>1. j - i - 1 \in Nat /\ j = i + 1 + (j - i - 1)
      BY <1>2
    <3> QED BY <3>1
  <2>2. j * S = i * S + S + d * S /\ d * S \in Nat
    BY <2>1
  <2> QED BY <1>1, <2>2
<1>3. ASSUME i > 0 PROVE i * S >= S
  <2>1. PICK d \in Nat : i = d + 1
    <3>1. i - 1 \in Nat /\ i = (i - 1) + 1
      BY <1>3
    <3> QED BY <3>1
  <2>2. i * S = d * S + S /\ d * S \in Nat
    BY <2>1
  <2> QED BY <2>2
<1> QED BY <1>1, <1>2, <1>3

(* Keys stay keys as more snapshots are fetched; the next one is new.      *)
LEMMA KeyFacts ==
  ASSUME TypeOK
  PROVE  /\ \A k : IsKey(k, fetched) => k \in Nat /\ k >= Stride /\ k >= 1 /\ k < (fetched + 1) * Stride
         /\ \A k, l : IsKey(k, fetched) /\ IsKey(l, fetched) /\ k < l => k + Stride <= l
         /\ (fetched + 1) * Stride \in Nat /\ (fetched + 1) * Stride >= 1
<1>0. fetched \in Nat /\ Stride \in Nat \ {0}
  BY ReconcileAssumption DEF TypeOK
<1>1. ASSUME NEW k, IsKey(k, fetched) PROVE k \in Nat /\ k >= Stride /\ k >= 1 /\ k < (fetched + 1) * Stride
  <2>1. PICK n \in 1 .. fetched : k = n * Stride
    BY <1>1 DEF IsKey
  <2>2. n \in Nat /\ n > 0 /\ n < fetched + 1 /\ fetched + 1 \in Nat
    BY <1>0, <2>1
  <2> QED BY <1>0, <2>1, <2>2, Multiples
<1>2. ASSUME NEW k, NEW l, IsKey(k, fetched), IsKey(l, fetched), k < l PROVE k + Stride <= l
  <2>1. PICK n \in 1 .. fetched : k = n * Stride
    BY <1>2 DEF IsKey
  <2>2. PICK m \in 1 .. fetched : l = m * Stride
    BY <1>2 DEF IsKey
  <2>3. n \in Nat /\ m \in Nat
    BY <1>0
  <2>4. CASE n < m
    BY <1>0, <2>1, <2>2, <2>3, <2>4, Multiples
  <2>5. CASE m < n
    BY <1>0, <1>2, <2>1, <2>2, <2>3, <2>5, Multiples
  <2>6. CASE n = m
    BY <1>0, <1>2, <2>1, <2>2, <2>3, <2>6, Multiples
  <2> QED BY <2>3, <2>4, <2>5, <2>6
<1>3. (fetched + 1) * Stride \in Nat /\ (fetched + 1) * Stride >= 1
  <2>1. fetched + 1 \in Nat /\ fetched + 1 > 0
    BY <1>0
  <2> HIDE DEF TypeOK
  <2>2. (fetched + 1) * Stride \in Nat /\ (fetched + 1) * Stride >= Stride
    BY <1>0, <2>1, Multiples
  <2> QED BY <1>0, <2>2
<1> QED BY <1>1, <1>2, <1>3

-----------------------------------------------------------------------------
LEMMA BrokerPreserves == ASSUME ReconcileInv, Broker PROVE ReconcileInv'
<1>0. /\ UNCHANGED <<local, last_key, tags, resolved, snaps, fetched, last_snapshot_key, block, placing,
                     status, crashes, raced>>
      /\ quiet' = FALSE
  BY DEF Broker, Noise, engine
<1>1. TypeOK /\ LocalOK /\ PlacingOK /\ Known /\ KeysOK /\ EngineKeys /\ BookAhead /\ SnapsOK /\ SnapsAhead
  BY DEF ReconcileInv
<1>2. /\ book' \in [Ref \cup {Foreign} -> BookRows \cup {NoRow}]
      /\ \A r \in Ref :
           \/ book'[r] = book[r]
           \/ book'[r] = NoRow
           \/ /\ book[r] # NoRow /\ book'[r] \in BookRows /\ book'[r].filled >= book[r].filled
              /\ book'[r].state = "Sent" => book'[r].filled < Lots
  <2>0. book \in [Ref \cup {Foreign} -> BookRows \cup {NoRow}] /\ Foreign \notin Ref /\ Lots \in Nat \ {0}
    BY <1>1, ReconcileAssumption DEF TypeOK
  <2>1. CASE HumanPlaces
    <3>1. [state |-> "Sent", filled |-> 0] \in BookRows
      BY <2>0 DEF BookRows
    <3> QED BY <2>0, <2>1, <3>1 DEF HumanPlaces
  <2>2. ASSUME NEW q \in Ref, BrokerFills(q) PROVE <1>2!1 /\ <1>2!2
    <3> DEFINE new == [state  |-> IF book[q].filled + 1 = Lots THEN "Filled" ELSE "Sent",
                       filled |-> book[q].filled + 1]
    <3>1. book[q] \in BookRows /\ book[q].filled < Lots /\ book[q] # NoRow
      BY <1>1, <2>0, <2>2 DEF BrokerFills, Working, BookAhead
    <3>2. book[q].filled \in Nat
      BY <2>0, <3>1 DEF BookRows
    <3>3. new \in BookRows /\ new.filled >= book[q].filled /\ (new.state = "Sent" => new.filled < Lots)
      BY <2>0, <3>1, <3>2 DEF BookRows
    <3>4. book' = [book EXCEPT ![q] = new]
      BY <2>2 DEF BrokerFills
    <3> HIDE DEF new
    <3> QED BY <2>0, <3>1, <3>3, <3>4
  <2>3. ASSUME NEW q \in Ref, BrokerEnds(q) PROVE <1>2!1 /\ <1>2!2
    <3>1. book[q] \in BookRows /\ book[q] # NoRow
      BY <2>0, <2>3 DEF BrokerEnds, Working
    <3>2. PICK st \in {"Cancelled", "Rejected"} : book' = [book EXCEPT ![q].state = st]
      BY <2>3 DEF BrokerEnds
    <3>3. [book[q] EXCEPT !.state = st] \in BookRows /\ [book[q] EXCEPT !.state = st].state = st
          /\ [book[q] EXCEPT !.state = st].filled = book[q].filled /\ book[q].filled \in Nat
      BY <2>0, <3>1 DEF BookRows
    <3> QED BY <2>0, <3>1, <3>2, <3>3
  <2>4. ASSUME NEW q \in Ref, BrokerDrops(q) PROVE <1>2!1 /\ <1>2!2
    BY <2>0, <2>4 DEF BrokerDrops
  <2> QED BY <2>1, <2>2, <2>3, <2>4 DEF Broker
<1>3. TypeOK'
  BY <1>0, <1>1, <1>2 DEF TypeOK
<1>4. LocalOK' /\ PlacingOK' /\ KeysOK' /\ EngineKeys' /\ SnapsAhead' /\ QuietOK'
  BY <1>0, <1>1 DEF LocalOK, PlacingOK, KeysOK, IsKey, EngineKeys, SnapsAhead, QuietOK, HasRow
<1>5. Known'
  BY <1>0, <1>1, <1>2 DEF Known, HasRow
<1>6. \A r \in Ref : /\ book[r] # NoRow => book[r].filled \in Nat
                     /\ book'[r] # NoRow => book'[r].filled \in Nat
                     /\ local[r] # NoRow => local[r].filled \in Nat
                     /\ \A s \in snaps : s.rows[r] # NoRow => s.rows[r].filled \in Nat
  BY <1>1, <1>2, ReconcileAssumption DEF TypeOK, BookRows, Orders, Rows
<1>7. BookAhead'
  BY <1>0, <1>1, <1>2, <1>6 DEF BookAhead, Working, HasRow
<1>8. SnapsOK'
  BY <1>0, <1>1, <1>2, <1>6 DEF SnapsOK
<1> QED BY <1>3, <1>4, <1>5, <1>7, <1>8 DEF ReconcileInv

(* The facts every action lemma starts from.                               *)
LEMMA Parts ==
  ASSUME ReconcileInv
  PROVE  /\ TypeOK /\ LocalOK /\ PlacingOK /\ Known /\ KeysOK /\ EngineKeys
         /\ BookAhead /\ SnapsOK /\ SnapsAhead /\ QuietOK
         /\ \A r \in Ref : /\ book[r] # NoRow => book[r] \in BookRows /\ book[r].filled \in Nat
                           /\ local[r] # NoRow => local[r] \in Orders /\ local[r].filled \in Nat
                           /\ last_key[r] \in Int
                           /\ \A s \in snaps : s.rows[r] # NoRow => s.rows[r].filled \in Nat
         /\ \A s \in snaps : s.key \in Nat
<1>1. TypeOK /\ LocalOK /\ PlacingOK /\ Known /\ KeysOK /\ EngineKeys
      /\ BookAhead /\ SnapsOK /\ SnapsAhead /\ QuietOK
  BY DEF ReconcileInv
<1>2. \A r \in Ref : /\ book[r] # NoRow => book[r] \in BookRows /\ book[r].filled \in Nat
                     /\ local[r] # NoRow => local[r] \in Orders /\ local[r].filled \in Nat
                     /\ last_key[r] \in Int
                     /\ \A s \in snaps : s.rows[r] # NoRow => s.rows[r].filled \in Nat
  BY <1>1, ReconcileAssumption DEF TypeOK, BookRows, Orders, Rows, NoKey
<1> QED BY <1>1, <1>2 DEF TypeOK

LEMMA PlaceSendPreserves == ASSUME ReconcileInv, NEW q \in Ref, PlaceSend(q) PROVE ReconcileInv'
<1> DEFINE new == [state |-> "Sent", filled |-> 0]
<1>0. /\ UNCHANGED <<local, last_key, resolved, snaps, fetched, last_snapshot_key, block,
                     status, crashes, raced>>
      /\ quiet' = FALSE /\ placing = {} /\ placing' = {q} /\ tags' = tags \cup {q}
      /\ status = "trading" /\ local[q] = NoRow /\ book[q] = NoRow
      /\ book' = book \/ book' = [book EXCEPT ![q] = new]
  BY DEF PlaceSend, Noise, Free, HasRow
<1>1. new \in BookRows /\ new.filled = 0 /\ 0 < Lots /\ new # NoRow
  BY RowTypes, ReconcileAssumption DEF BookRows
<1> HIDE DEF new
<1>2. /\ book' \in [Ref \cup {Foreign} -> BookRows \cup {NoRow}]
      /\ \A r \in Ref : book'[r] = book[r] \/ (r = q /\ book'[r] = new)
  BY <1>0, <1>1, Parts DEF TypeOK
<1>3. TypeOK'
  BY <1>0, <1>2, Parts DEF TypeOK
<1>4. LocalOK' /\ KeysOK' /\ EngineKeys' /\ SnapsAhead' /\ QuietOK'
  BY <1>0, Parts DEF LocalOK, KeysOK, IsKey, EngineKeys, SnapsAhead, QuietOK, HasRow
<1>5. PlacingOK' /\ Known'
  BY <1>0, <1>2, Parts DEF PlacingOK, Known, HasRow
<1>6. BookAhead'
  BY <1>0, <1>1, <1>2, Parts DEF BookAhead, Working, HasRow
<1>7. SnapsOK'
  <2>1. \A s \in snaps : s.rows[q] = NoRow
    BY <1>0, Parts DEF Known, HasRow
  <2> QED BY <1>0, <1>2, <2>1, Parts DEF SnapsOK
<1> QED BY <1>3, <1>4, <1>5, <1>6, <1>7 DEF ReconcileInv

LEMMA PlaceReturnsPreserves ==
  ASSUME ReconcileInv, NEW q \in Ref, NEW st \in {"Acknowledged", "Unknown", "Rejected"}, PlaceReturns(q, st)
  PROVE  ReconcileInv'
<1> DEFINE new == [state |-> st, filled |-> 0, bid |-> IF st = "Acknowledged" THEN 1 ELSE NoBid]
<1>0. /\ UNCHANGED <<book, tags, resolved, snaps, fetched, last_snapshot_key, block,
                     status, crashes, raced>>
      /\ quiet' = FALSE /\ q \in placing /\ placing' = {} /\ local' = [local EXCEPT ![q] = new]
      /\ last_key' = last_key \/ last_key' = [last_key EXCEPT ![q] = 1]
  BY DEF PlaceReturns, Noise
<1>1. new \in Orders /\ new.filled = 0 /\ new.state = st /\ new # NoRow
  BY RowTypes DEF Orders, OrderState, NoBid
<1> HIDE DEF new
<1>2. /\ local' \in [Ref -> Orders \cup {NoRow}] /\ last_key' \in [Ref -> Nat \cup {NoKey}]
      /\ \A r \in Ref : /\ local'[r] = IF r = q THEN new ELSE local[r]
                        /\ last_key'[r] = last_key[r] \/ (r = q /\ last_key'[r] = 1)
  BY <1>0, <1>1, Parts DEF TypeOK
<1>3. TypeOK'
  BY <1>0, <1>2, Parts DEF TypeOK
<1>4. KeysOK' /\ QuietOK'
  BY <1>0, Parts DEF KeysOK, IsKey, QuietOK
<1>5. LocalOK'
  BY <1>0, <1>1, <1>2, Parts DEF LocalOK, HasRow, LocalState
<1>6. PlacingOK' /\ Known'
  <2>1. \A r \in placing : r = q
    BY <1>0, Parts DEF PlacingOK
  <2> QED BY <1>0, <1>1, <1>2, <2>1, Parts DEF PlacingOK, Known, HasRow
<1>7. EngineKeys'
  <2>1. status = "trading"
    BY <1>0, Parts DEF PlacingOK
  <2>2. (IF last_snapshot_key = -1 THEN 1 ELSE last_snapshot_key) + resolved \in Nat
        /\ (IF last_snapshot_key = -1 THEN 1 ELSE last_snapshot_key) + resolved >= 1
    <3>1. last_snapshot_key # -1 => last_snapshot_key \in Nat /\ last_snapshot_key >= 1
      BY Parts, KeyFacts DEF KeysOK
    <3> QED BY <3>1, Parts DEF TypeOK
  <2> QED BY <1>0, <1>2, <2>1, <2>2, Parts DEF EngineKeys
<1>8. BookAhead' /\ SnapsOK'
  BY <1>0, <1>1, <1>2, Parts DEF BookAhead, Working, HasRow, SnapsOK
<1>9. SnapsAhead'
  BY <1>0, <1>1, <1>2, Parts DEF SnapsAhead, HasRow
<1> QED BY <1>3, <1>4, <1>5, <1>6, <1>7, <1>8, <1>9 DEF ReconcileInv

(* Steps that change the state of some local orders and nothing about      *)
(* their fills or keys.                                                    *)
LEMMA MarkingPreserves ==
  ASSUME ReconcileInv, TypeOK', LocalOK',
         UNCHANGED <<last_key, tags, resolved, snaps, fetched, last_snapshot_key, block, placing,
                     crashes, raced>>,
         quiet' = FALSE,
         status' = status \/ (status' \in {"blocked", "manual"} /\ Recovering),
         \A r \in Ref : \/ book'[r] = book[r]
                        \/ /\ book[r] # NoRow /\ book'[r] # NoRow
                           /\ book'[r].filled = book[r].filled /\ book'[r].state # "Sent",
         \A r \in Ref : \/ local'[r] = local[r]
                        \/ local[r] # NoRow /\ local'[r] # NoRow /\ local'[r].filled = local[r].filled
  PROVE  ReconcileInv'
<1>0. /\ status' \in {"down", "blocked"} => status \in {"down", "blocked"}
      /\ status' # "trading" => status # "trading"
  BY DEF Recovering
<1>1. PlacingOK' /\ KeysOK' /\ EngineKeys' /\ QuietOK'
  <2>1. PlacingOK'
    <3>1. placing \subseteq Ref
      BY Parts DEF TypeOK
    <3> QED BY <1>0, <3>1, Parts DEF PlacingOK, HasRow
  <2>2. KeysOK' /\ QuietOK'
    BY <1>0, Parts DEF KeysOK, QuietOK
  <2>3. EngineKeys'
    BY <1>0, Parts DEF EngineKeys
  <2> QED BY <2>1, <2>2, <2>3
<1>2. Known'
  BY Parts DEF Known, HasRow
<1>3. BookAhead' /\ SnapsOK'
  BY Parts DEF BookAhead, Working, HasRow, SnapsOK
<1>4. SnapsAhead'
  BY Parts DEF SnapsAhead, HasRow
<1> QED BY <1>1, <1>2, <1>3, <1>4 DEF ReconcileInv

LEMMA CancelUnknownPreserves == ASSUME ReconcileInv, NEW q \in Ref, CancelUnknown(q) PROVE ReconcileInv'
<1>0. /\ UNCHANGED <<last_key, tags, resolved, snaps, fetched, last_snapshot_key, block, placing,
                     status, crashes, raced>>
      /\ quiet' = FALSE /\ local[q] # NoRow /\ local' = [local EXCEPT ![q].state = "Unknown"]
      /\ book' = book \/ (Working(q) /\ book' = [book EXCEPT ![q].state = "Cancelled"])
  BY DEF CancelUnknown, Noise, HasRow, engine
<1>1. local[q] \in Orders
  BY <1>0, Parts
<1>2. /\ [local[q] EXCEPT !.state = "Unknown"] \in Orders
      /\ [local[q] EXCEPT !.state = "Unknown"].state = "Unknown"
      /\ [local[q] EXCEPT !.state = "Unknown"].filled = local[q].filled
  BY <1>1 DEF Orders, OrderState
<1>3. /\ local' \in [Ref -> Orders \cup {NoRow}]
      /\ \A r \in Ref : IF r = q THEN local'[r] \in Orders /\ local'[r].state = "Unknown"
                                      /\ local'[r].filled = local[r].filled
                        ELSE local'[r] = local[r]
  BY <1>0, <1>2, Parts DEF TypeOK
<1>4. /\ book' \in [Ref \cup {Foreign} -> BookRows \cup {NoRow}]
      /\ \A r \in Ref : \/ book'[r] = book[r]
                        \/ /\ book[r] # NoRow /\ book'[r] # NoRow
                           /\ book'[r].filled = book[r].filled /\ book'[r].state # "Sent"
  <2>1. CASE book' = book
    BY <2>1, Parts DEF TypeOK
  <2>2. CASE Working(q) /\ book' = [book EXCEPT ![q].state = "Cancelled"]
    <3>1. book[q] # NoRow /\ book[q] \in BookRows
      BY <2>2, Parts DEF Working
    <3>2. /\ [book[q] EXCEPT !.state = "Cancelled"] \in BookRows
          /\ [book[q] EXCEPT !.state = "Cancelled"].filled = book[q].filled
          /\ [book[q] EXCEPT !.state = "Cancelled"].state = "Cancelled"
      BY <3>1 DEF BookRows
    <3>3. [book[q] EXCEPT !.state = "Cancelled"] # NoRow
      BY <3>2, RowTypes
    <3> QED BY <2>2, <3>1, <3>2, <3>3, Parts DEF TypeOK
  <2> QED BY <1>0, <2>1, <2>2
<1>5. TypeOK' /\ LocalOK'
  BY <1>0, <1>3, <1>4, Parts DEF TypeOK, LocalOK, LocalState, HasRow
<1>6. \A r \in Ref : \/ local'[r] = local[r]
                     \/ local[r] # NoRow /\ local'[r] # NoRow /\ local'[r].filled = local[r].filled
  BY <1>0, <1>3, RowTypes
<1>7. /\ UNCHANGED <<last_key, tags, resolved, snaps, fetched, last_snapshot_key, block, placing,
                     crashes, raced>>
      /\ status' = status /\ quiet' = FALSE
  BY <1>0
<1>8. \A r \in Ref : \/ book'[r] = book[r]
                     \/ /\ book[r] # NoRow /\ book'[r] # NoRow
                        /\ book'[r].filled = book[r].filled /\ book'[r].state # "Sent"
  BY <1>4
<1>9. status' = status \/ (status' \in {"blocked", "manual"} /\ Recovering)
  BY <1>7
<1> QED BY <1>5, <1>6, <1>7, <1>8, <1>9, MarkingPreserves, Zenon

LEMMA RecoverFailsPreserves == ASSUME ReconcileInv, RecoverFails PROVE ReconcileInv'
<1>0. /\ UNCHANGED <<book, local, last_key, tags, resolved, snaps, fetched, last_snapshot_key, block,
                     placing, crashes, raced>>
      /\ quiet' = FALSE /\ status' = "blocked" /\ Recovering
  BY DEF RecoverFails, Noise, engine
<1>1. TypeOK' /\ LocalOK'
  BY <1>0, Parts DEF TypeOK, LocalOK, LocalState, HasRow, Recovering
<1> QED BY <1>0, <1>1, MarkingPreserves

LEMMA DoubleFaultPreserves == ASSUME ReconcileInv, RecoverDoubleFault PROVE ReconcileInv'
<1> DEFINE Manual(r) == [local[r] EXCEPT !.state = "ManualInterventionRequired"]
<1>0. /\ UNCHANGED <<book, last_key, tags, resolved, snaps, fetched, last_snapshot_key, block,
                     placing, crashes, raced>>
      /\ quiet' = FALSE /\ status' = "manual" /\ Recovering
      /\ local' = [r \in Ref |-> IF r \in Unknowns THEN Manual(r) ELSE local[r]]
  BY DEF RecoverDoubleFault, Noise, engine
<1>1. ASSUME NEW r \in Unknowns
      PROVE  /\ r \in Ref /\ local[r] # NoRow /\ Manual(r) \in Orders /\ Manual(r).filled = local[r].filled
             /\ Manual(r).state = "ManualInterventionRequired"
  <2>1. r \in Ref /\ local[r] # NoRow /\ local[r] \in Orders
    BY RowTypes, Parts DEF Unknowns
  <2> QED BY <2>1 DEF Orders, OrderState
<1> HIDE DEF Manual
<1>2. /\ local' \in [Ref -> Orders \cup {NoRow}]
      /\ \A r \in Ref : IF r \in Unknowns
                        THEN /\ local'[r] \in Orders /\ local'[r].filled = local[r].filled /\ local[r] # NoRow
                             /\ local'[r].state = "ManualInterventionRequired"
                        ELSE local'[r] = local[r]
  BY <1>0, <1>1, Parts DEF TypeOK
<1>3. TypeOK' /\ LocalOK'
  BY <1>0, <1>2, Parts DEF TypeOK, LocalOK, LocalState, HasRow
<1>4. \A r \in Ref : \/ local'[r] = local[r]
                     \/ local[r] # NoRow /\ local'[r] # NoRow /\ local'[r].filled = local[r].filled
  BY <1>0, <1>2, RowTypes
<1> QED BY <1>0, <1>3, <1>4, MarkingPreserves

LEMMA FetchPreserves == ASSUME ReconcileInv, Fetch PROVE ReconcileInv'
<1> DEFINE key == (fetched + 1) * Stride
<1>0. /\ UNCHANGED <<book, local, last_key, tags, resolved, last_snapshot_key, block, placing, status,
                     crashes, raced>>
      /\ status = "trading" /\ fetched' = fetched + 1
  BY DEF Fetch, engine
<1>1. PICK f \in FetchedRows : snaps' = snaps \cup {[key |-> key, rows |-> f]}
  BY <1>0 DEF Fetch
<1> DEFINE new == [key |-> key, rows |-> f]
<1>2. new.key = key /\ new.rows = f
  OBVIOUS
<1>3. /\ f \in [Ref \cup {Foreign} -> Rows \cup {NoRow}]
      /\ \A i \in Ref \cup {Foreign} : f[i] \in Read(i)
  BY Parts, FetchedCases
<1>4. key \in Nat /\ fetched \in Nat /\ \A k : IsKey(k, fetched) => k < key
  BY Parts, KeyFacts DEF TypeOK
<1>5. \A r \in Ref : f[r] # NoRow =>
        /\ book[r] # NoRow /\ f[r].filled <= book[r].filled /\ f[r].filled \in Nat
        /\ f[r].state # "Unknown" => f[r].filled = book[r].filled
  BY <1>3, Parts, ReadCases, RowTypes
<1>6. fetched' * Stride = key /\ (\A k : IsKey(k, fetched) => IsKey(k, fetched')) /\ IsKey(key, fetched')
  <2>1. fetched + 1 \in 1 .. (fetched + 1) /\ 1 .. fetched \subseteq 1 .. (fetched + 1)
    BY <1>4
  <2> QED BY <1>0, <2>1 DEF IsKey
<1> HIDE DEF key, new
<1>7. snaps' = snaps \cup {new}
  BY <1>1 DEF new
<1>8. TypeOK'
  BY <1>0, <1>2, <1>3, <1>4, <1>7, Parts DEF TypeOK, Fetch
<1>9. LocalOK' /\ PlacingOK' /\ EngineKeys' /\ BookAhead'
  BY <1>0, Parts DEF LocalOK, PlacingOK, EngineKeys, BookAhead, HasRow, Working
<1>10. Known'
  BY <1>0, <1>2, <1>5, <1>7, Parts DEF Known, HasRow
<1>11. KeysOK'
  <2>1. \A s \in snaps' : IsKey(s.key, fetched')
    BY <1>2, <1>6, <1>7, Parts DEF KeysOK
  <2>2. \A s, t \in snaps' : s.key = t.key => s = t
    <3>1. \A s \in snaps : s.key < key /\ s.key \in Nat
      BY <1>4, Parts DEF KeysOK
    <3> QED BY <1>2, <1>4, <1>7, <3>1, Parts DEF KeysOK
  <2>3. last_snapshot_key' = -1 \/ IsKey(last_snapshot_key', fetched')
    BY <1>0, <1>6, Parts DEF KeysOK, IsKey
  <2> QED BY <1>0, <2>1, <2>2, <2>3 DEF KeysOK
<1>12. SnapsOK'
  <2>1. \A s \in snaps : s.key < key /\ s.key \in Nat
    BY <1>4, Parts DEF KeysOK
  <2>2. \A s \in snaps', r \in Ref :
          s.rows[r] # NoRow /\ book'[r] # NoRow => book'[r].filled >= s.rows[r].filled
    BY <1>0, <1>2, <1>5, <1>7, Parts DEF SnapsOK
  <2>3. ASSUME NEW s \in snaps', NEW t \in snaps', NEW r \in Ref,
               s.key <= t.key, s.rows[r] # NoRow, t.rows[r] # NoRow, t.rows[r].state # "Unknown"
        PROVE  s.rows[r].filled <= t.rows[r].filled
    <3>1. CASE t = new
      BY <1>0, <1>2, <1>5, <2>2, <2>3, <3>1, Parts
    <3>2. CASE t # new
      <4>1. t \in snaps /\ s \in snaps
        BY <1>2, <1>4, <1>7, <2>1, <2>3, <3>2
      <4> QED BY <2>3, <4>1, Parts DEF SnapsOK
    <3> QED BY <3>1, <3>2
  <2> QED BY <2>2, <2>3 DEF SnapsOK
<1>13. SnapsAhead'
  <2>1. \A r \in Ref : local[r] # NoRow /\ f[r] # NoRow /\ f[r].state # "Unknown" => f[r].filled >= local[r].filled
    BY <1>5, Parts DEF BookAhead, HasRow
  <2> QED BY <1>0, <1>2, <1>7, <2>1, Parts DEF SnapsAhead, HasRow
<1>14. QuietOK'
  <2>1. \A i \in Ref \cup {Foreign} : Read(i)' = Read(i)
    BY <1>0 DEF Read
  <2> QED BY <1>2, <1>3, <1>6, <1>7, <2>1 DEF QuietOK
<1> QED BY <1>8, <1>9, <1>10, <1>11, <1>12, <1>13, <1>14 DEF ReconcileInv

LEMMA CrashPreserves == ASSUME ReconcileInv, Crash PROVE ReconcileInv'
<1> DEFINE lost == [state |-> "Unknown", filled |-> 0, bid |-> NoBid]
<1>0. /\ book' = book /\ status' = "down" /\ tags' = {} /\ snaps' = {} /\ fetched' = 0 /\ resolved' = 0
      /\ last_snapshot_key' = -1 /\ block' = FALSE /\ placing' = {} /\ quiet' = FALSE /\ raced' = FALSE
      /\ crashes' = crashes + 1
      /\ local' = [r \in Ref |-> IF r \in placing THEN lost ELSE local[r]]
      /\ last_key' = [r \in Ref |-> NoKey]
  BY DEF Crash
<1>1. lost \in Orders /\ lost.state = "Unknown" /\ lost.filled = 0 /\ lost # NoRow
  BY RowTypes DEF Orders, OrderState, NoBid
<1> HIDE DEF lost
<1>2. /\ local' \in [Ref -> Orders \cup {NoRow}] /\ last_key' \in [Ref -> Nat \cup {NoKey}]
      /\ \A r \in Ref : /\ local'[r] = IF r \in placing THEN lost ELSE local[r]
                        /\ last_key'[r] = NoKey
  BY <1>0, <1>1, Parts DEF TypeOK
<1>3. TypeOK'
  <2>1. /\ book' \in [Ref \cup {Foreign} -> BookRows \cup {NoRow}]
        /\ crashes' \in Nat
    BY <1>0, Parts DEF TypeOK
  <2> QED BY <1>0, <1>2, <2>1 DEF TypeOK
<1>4. LocalOK'
  BY <1>0, <1>1, <1>2, Parts DEF LocalOK, LocalState, HasRow
<1>5. PlacingOK' /\ KeysOK' /\ SnapsOK' /\ SnapsAhead' /\ QuietOK'
  BY <1>0 DEF PlacingOK, KeysOK, SnapsOK, SnapsAhead, QuietOK
<1>6. Known'
  BY <1>0, <1>1, <1>2, Parts DEF Known, HasRow
<1>7. EngineKeys'
  BY <1>0, <1>2, ReconcileAssumption DEF EngineKeys, NoKey
<1>8. BookAhead'
  BY <1>0, <1>1, <1>2, Parts DEF BookAhead, Working, HasRow
<1> QED BY <1>3, <1>4, <1>5, <1>6, <1>7, <1>8 DEF ReconcileInv

-----------------------------------------------------------------------------
(* One order after a fold: untouched, or it took over a row that names it. *)
LEMMA FoldCases ==
  ASSUME TypeOK, LocalOK, NEW rows \in [Ref \cup {Foreign} -> Rows \cup {NoRow}], NEW key \in Nat,
         Fold(rows, key), NEW r \in Ref
  PROVE  /\ local'[r] \in Orders \cup {NoRow} /\ last_key'[r] \in Nat \cup {NoKey}
         /\ local'[r] = NoRow <=> local[r] = NoRow
         /\ \/ local'[r] = local[r] /\ last_key'[r] = last_key[r]
            \/ /\ rows[r] \in Rows /\ local[r] # NoRow /\ same_order(local[r], rows[r])
               /\ key >= last_key[r] /\ last_key'[r] = key
               /\ local'[r].filled = rows[r].filled /\ local'[r].bid = 1
               /\ local'[r].state = IF rows[r].state # "Sent" THEN rows[r].state
                                    ELSE IF rows[r].filled > 0 THEN "PartiallyFilled" ELSE "Acknowledged"
<1> DEFINE a == Applied(r, rows, key)
<1>1. local'[r] = a.order /\ last_key'[r] = a.key
  BY DEF Fold
<1>2. same_order(local[r], rows[r]) => local[r] # NoRow
  BY DEF same_order
<1> HIDE DEF a
<1>3. /\ a.order \in Orders \cup {NoRow} /\ a.key \in Nat \cup {NoKey}
      /\ a.order = NoRow <=> local[r] = NoRow
      /\ same_order(local[r], rows[r]) => rows[r] \in Rows
      /\ \/ Kept(a, local[r], last_key[r])
         \/ same_order(local[r], rows[r]) /\ key >= last_key[r] /\ TakesOver(a, rows[r], key)
  BY AppliedCases DEF a
<1> QED BY <1>1, <1>2, <1>3 DEF Kept, TakesOver

LEMMA FoldTypes ==
  ASSUME ReconcileInv, NEW rows \in [Ref \cup {Foreign} -> Rows \cup {NoRow}], NEW key \in Nat,
         Fold(rows, key), status # "manual"
  PROVE  /\ local' \in [Ref -> Orders \cup {NoRow}] /\ last_key' \in [Ref -> Nat \cup {NoKey}]
         /\ LocalOK'
         /\ \A r \in Ref : local'[r] = NoRow <=> local[r] = NoRow
<1>1. /\ local' \in [Ref -> Orders \cup {NoRow}] /\ last_key' \in [Ref -> Nat \cup {NoKey}]
  <2>1. /\ local' = [r \in Ref |-> local'[r]] /\ last_key' = [r \in Ref |-> last_key'[r]]
    BY DEF Fold
  <2>2. \A r \in Ref : local'[r] \in Orders \cup {NoRow} /\ last_key'[r] \in Nat \cup {NoKey}
    BY Parts, FoldCases
  <2> QED BY <2>1, <2>2
<1>2. ASSUME NEW r \in Ref, local'[r] # NoRow
      PROVE  /\ local'[r].state \in LocalState
             /\ local'[r].state = "PartiallyFilled" => local'[r].filled > 0
             /\ local'[r].state = "ManualInterventionRequired" => last_key'[r] = NoKey
  <2>1. CASE local'[r] = local[r] /\ last_key'[r] = last_key[r]
    BY <1>2, <2>1, Parts DEF LocalOK, HasRow
  <2>2. CASE /\ rows[r] \in Rows /\ local'[r].filled = rows[r].filled
             /\ local'[r].state = IF rows[r].state # "Sent" THEN rows[r].state
                                  ELSE IF rows[r].filled > 0 THEN "PartiallyFilled" ELSE "Acknowledged"
    BY <2>2, RowTypes DEF LocalState
  <2> QED BY <2>1, <2>2, Parts, FoldCases
<1>3. LocalOK'
  BY <1>2 DEF LocalOK, HasRow
<1> QED BY <1>1, <1>3, Parts, FoldCases

LEMMA ApplySnapshotPreserves == ASSUME ReconcileInv, NEW s \in snaps, ApplySnapshot(s) PROVE ReconcileInv'
<1>0. /\ UNCHANGED <<book, tags, resolved, fetched, placing, status, crashes, raced>>
      /\ status = "trading" /\ placing = {} /\ quiet' = FALSE /\ snaps' = snaps \ {s}
      /\ Fold(s.rows, s.key)
      /\ last_snapshot_key' = IF Stale(s) THEN last_snapshot_key ELSE s.key
      /\ block' = IF Stale(s) THEN block ELSE Mismatch(s.rows, s.key)
  BY DEF ApplySnapshot, Noise
<1>1. s.key \in Nat /\ s.rows \in [Ref \cup {Foreign} -> Rows \cup {NoRow}]
  BY Parts DEF TypeOK
<1>2. /\ local' \in [Ref -> Orders \cup {NoRow}] /\ last_key' \in [Ref -> Nat \cup {NoKey}]
      /\ LocalOK'
      /\ \A r \in Ref : local'[r] = NoRow <=> local[r] = NoRow
  BY <1>0, <1>1, FoldTypes
<1>3. \A r \in Ref :
        \/ local'[r] = local[r] /\ last_key'[r] = last_key[r]
        \/ /\ s.rows[r] \in Rows /\ last_key'[r] = s.key /\ local'[r].filled = s.rows[r].filled
  BY <1>0, <1>1, Parts, FoldCases
<1>4. TypeOK'
  <2>1. block' \in BOOLEAN
    <3>1. Mismatch(s.rows, s.key) \in BOOLEAN
      BY Zenon DEF Mismatch
    <3> QED BY <1>0, <3>1, Parts DEF TypeOK
  <2>2. last_snapshot_key' \in Nat \cup {-1}
    BY <1>0, <1>1, Parts DEF TypeOK
  <2> QED BY <1>0, <1>2, <2>1, <2>2, Parts DEF TypeOK
<1>5. PlacingOK' /\ Known' /\ KeysOK' /\ SnapsOK' /\ QuietOK'
  <2>1. PlacingOK'
    BY <1>0, Parts DEF PlacingOK
  <2>2. Known'
    BY <1>0, <1>2, Parts DEF Known, HasRow
  <2>3. KeysOK'
    BY <1>0, Parts DEF KeysOK
  <2>4. SnapsOK' /\ QuietOK'
    BY <1>0, Parts DEF SnapsOK, QuietOK
  <2> QED BY <2>1, <2>2, <2>3, <2>4
<1>6. EngineKeys'
  <2> DEFINE B == IF last_snapshot_key = -1 THEN 1 ELSE last_snapshot_key
             C == IF last_snapshot_key' = -1 THEN 1 ELSE last_snapshot_key'
  <2>1. s.key >= 1
    BY Parts, KeyFacts DEF KeysOK
  <2>2. last_snapshot_key \in Nat \cup {-1} /\ resolved \in Nat /\ resolved <= MaxResolve
    BY Parts DEF TypeOK, EngineKeys
  <2>3. B \in Nat /\ C \in Nat /\ B <= C /\ s.key <= C
    BY <1>0, <1>1, <2>1, <2>2 DEF Stale
  <2>4. \A r \in Ref : last_key[r] <= B + resolved /\ last_key[r] \in Int
    BY Parts DEF EngineKeys
  <2> HIDE DEF B, C
  <2>5. \A r \in Ref : last_key'[r] <= C + resolved
    BY <1>1, <1>3, <2>2, <2>3, <2>4
  <2> QED BY <1>0, <2>2, <2>5 DEF EngineKeys, C
<1>7. BookAhead'
  <2>1. \A r \in Ref : book[r] # NoRow /\ s.rows[r] \in Rows => book[r].filled >= s.rows[r].filled
    BY RowTypes, Parts DEF SnapsOK
  <2> QED BY <1>0, <1>2, <1>3, <2>1, Parts DEF BookAhead, Working, HasRow
<1>8. SnapsAhead'
  <2>1. \A t \in snaps, r \in Ref :
          s.key <= t.key /\ s.rows[r] \in Rows /\ t.rows[r] # NoRow /\ t.rows[r].state # "Unknown" =>
            s.rows[r].filled <= t.rows[r].filled
    BY RowTypes, Parts DEF SnapsOK
  <2>2. ASSUME ~raced, NEW t \in snaps, NEW r \in Ref, local'[r] # NoRow, t.rows[r] # NoRow,
               t.rows[r].state # "Unknown", t.key >= last_key'[r]
        PROVE  t.rows[r].filled >= local'[r].filled
    <3>1. CASE local'[r] = local[r] /\ last_key'[r] = last_key[r]
      BY <2>2, <3>1, Parts DEF SnapsAhead, HasRow
    <3>2. CASE s.rows[r] \in Rows /\ last_key'[r] = s.key /\ local'[r].filled = s.rows[r].filled
      <4>1. s.rows[r].filled \in Nat /\ t.rows[r].filled \in Nat /\ t.key \in Nat
        BY <2>2, <3>2, RowTypes, Parts
      <4> QED BY <1>1, <2>1, <2>2, <3>2, <4>1
    <3> QED BY <1>3, <3>1, <3>2
  <2> QED BY <1>0, <2>2 DEF SnapsAhead, HasRow
<1> QED BY <1>2, <1>4, <1>5, <1>6, <1>7, <1>8 DEF ReconcileInv

LEMMA RecoverPreserves == ASSUME ReconcileInv, Recover PROVE ReconcileInv'
<1>0. /\ UNCHANGED <<book, tags, snaps, fetched, resolved, last_snapshot_key, block, placing, crashes, raced>>
      /\ quiet' = FALSE /\ status' \in {"trading", "blocked"} /\ status \in {"down", "blocked"}
  BY DEF Recover, Noise, Recovering
<1>1. PICK f \in FetchedRows : Fold(f, 1)
  BY DEF Recover
<1>2. f \in [Ref \cup {Foreign} -> Rows \cup {NoRow}] /\ \A i \in Ref \cup {Foreign} : f[i] \in Read(i)
  BY Parts, FetchedCases
<1>3. /\ local' \in [Ref -> Orders \cup {NoRow}] /\ last_key' \in [Ref -> Nat \cup {NoKey}]
      /\ LocalOK'
      /\ \A r \in Ref : local'[r] = NoRow <=> local[r] = NoRow
  BY <1>0, <1>1, <1>2, FoldTypes
<1>4. \A r \in Ref :
        \/ local'[r] = local[r] /\ last_key'[r] = last_key[r]
        \/ f[r] \in Rows /\ last_key'[r] = 1 /\ local'[r].filled = f[r].filled
  <2>1. TypeOK /\ LocalOK /\ 1 \in Nat
    BY Parts
  <2> QED BY <1>1, <1>2, <2>1, FoldCases
<1>5. TypeOK'
  BY <1>0, <1>3, Parts DEF TypeOK
<1>6. snaps = {} /\ last_snapshot_key = -1 /\ placing = {}
  BY <1>0, Parts DEF KeysOK, PlacingOK
<1>7. PlacingOK' /\ Known' /\ KeysOK' /\ SnapsOK' /\ SnapsAhead' /\ QuietOK'
  BY <1>0, <1>3, <1>6, Parts DEF PlacingOK, Known, KeysOK, SnapsOK, SnapsAhead, QuietOK, HasRow
<1>8. EngineKeys'
  <2>1. resolved \in Nat /\ resolved <= MaxResolve
    BY Parts DEF TypeOK, EngineKeys
  <2>2. \A r \in Ref : last_key[r] <= 1 + resolved /\ last_key[r] \in Int /\ (~ResolvesBlocked => last_key[r] <= 1)
    BY <1>0, <1>6, Parts DEF EngineKeys
  <2> QED BY <1>0, <1>4, <1>6, <2>1, <2>2 DEF EngineKeys
<1>9. BookAhead'
  <2>1. \A r \in Ref : book[r] # NoRow /\ f[r] \in Rows => book[r].filled >= f[r].filled
    <3>1. ASSUME NEW r \in Ref, book[r] # NoRow, f[r] \in Rows PROVE book[r].filled >= f[r].filled
      <4>1. f[r].filled <= book[r].filled
        BY <1>2, <3>1, RowTypes, Parts, ReadCases
      <4> QED BY <3>1, <4>1, RowTypes, Parts
    <3> QED BY <3>1
  <2> QED BY <1>0, <1>3, <1>4, <2>1, Parts DEF BookAhead, Working, HasRow
<1> QED BY <1>3, <1>5, <1>7, <1>8, <1>9 DEF ReconcileInv

(* The resolver takes over what it reads: its key is always the newest.    *)
LEMMA ResolveCases ==
  ASSUME ReconcileInv, NEW q \in Ref, Resolve(q)
  PROVE  /\ local[q] \in Orders /\ local[q].state = "Unknown" /\ book[q] # NoRow
         /\ local' \in [Ref -> Orders \cup {NoRow}] /\ last_key' \in [Ref -> Nat \cup {NoKey}]
         /\ \A r \in Ref : r # q => local'[r] = local[r] /\ last_key'[r] = last_key[r]
         /\ last_key'[q] = IF last_key[q] = NoKey THEN 1 ELSE last_key[q] + 1
         /\ local'[q] \in Orders
         /\ \E row \in Read(q) :
              /\ row \in Rows
              /\ local'[q].filled = row.filled
              /\ local'[q].state = IF row.state # "Sent" THEN row.state
                                   ELSE IF row.filled > 0 THEN "PartiallyFilled" ELSE "Acknowledged"
<1> DEFINE k == last_key[q]
           key == IF k = NoKey THEN 1 ELSE k + 1
           o == local[q]
<1>1. PICK row \in Read(q) :
        /\ same_order(o, row)
        /\ local' = [local EXCEPT ![q] = [apply(o, k, ViewOf(row, key)).order EXCEPT !.bid = 1]]
        /\ last_key' = [last_key EXCEPT ![q] = apply(o, k, ViewOf(row, key)).key]
  BY DEF Resolve
<1>2. o.state = "Unknown" /\ o \in Orders
  BY Parts, RowTypes DEF Resolve, Unknowns
<1>3. row \in Rows /\ book[q] # NoRow
  BY <1>1, Parts, ReadCases DEF same_order
<1>4. k \in Nat \cup {NoKey} /\ key \in Nat /\ key >= k
  BY Parts DEF TypeOK, NoKey
<1> DEFINE a == apply(o, k, ViewOf(row, key))
<1>5. /\ a.order \in Orders /\ a.key = key /\ TakesOver(a, row, key)
  <2>1. o.state \in LocalState /\ ~is_terminal(o.state) /\ ~NoWay(o, row) /\ o.state # "PartiallyFilled"
    BY <1>2 DEF LocalState, is_terminal, Terminal, NoWay
  <2>2. ~(key < k)
    BY <1>4 DEF NoKey
  <2> HIDE DEF k, key, o
  <2>3. a.order \in Orders /\ TakesOver(a, row, key)
    BY <1>2, <1>3, <1>4, <2>1, <2>2, ApplyCases
  <2> QED BY <2>3 DEF TakesOver
<1> DEFINE n == [a.order EXCEPT !.bid = 1]
<1>6. local' = [local EXCEPT ![q] = n] /\ last_key' = [last_key EXCEPT ![q] = key]
  BY <1>1, <1>5
<1>7. n \in Orders /\ n.filled = row.filled
      /\ n.state = IF row.state # "Sent" THEN row.state
                   ELSE IF row.filled > 0 THEN "PartiallyFilled" ELSE "Acknowledged"
  <2> HIDE DEF a
  <2> QED BY <1>5 DEF Orders, TakesOver
<1>8. local \in [Ref -> Orders \cup {NoRow}] /\ last_key \in [Ref -> Nat \cup {NoKey}]
  BY Parts DEF TypeOK
<1> HIDE DEF n, a, key
<1>9. local'[q] = n /\ last_key'[q] = key
  BY <1>6, <1>8
<1>10. local' \in [Ref -> Orders \cup {NoRow}] /\ last_key' \in [Ref -> Nat \cup {NoKey}]
  BY <1>4, <1>6, <1>7, <1>8
<1>11. \A r \in Ref : r # q => local'[r] = local[r] /\ last_key'[r] = last_key[r]
  BY <1>6, <1>8
<1> QED BY <1>2, <1>3, <1>7, <1>9, <1>10, <1>11 DEF key

LEMMA ResolvePreserves == ASSUME ReconcileInv, NEW q \in Ref, Resolve(q) PROVE ReconcileInv'
<1>0. /\ UNCHANGED <<book, tags, snaps, fetched, last_snapshot_key, block, placing, status, crashes>>
      /\ placing = {} /\ quiet' = FALSE /\ raced' = (raced \/ snaps # {})
      /\ resolved < MaxResolve /\ resolved' = resolved + 1
      /\ status = "trading" \/ (ResolvesBlocked /\ status = "blocked")
  BY DEF Resolve, Free
<1>1. /\ local[q] \in Orders /\ local'[q] \in Orders /\ book[q] # NoRow
      /\ local' \in [Ref -> Orders \cup {NoRow}] /\ last_key' \in [Ref -> Nat \cup {NoKey}]
      /\ \A r \in Ref : r # q => local'[r] = local[r] /\ last_key'[r] = last_key[r]
      /\ last_key'[q] = IF last_key[q] = NoKey THEN 1 ELSE last_key[q] + 1
  BY ResolveCases
<1>2. PICK row \in Read(q) :
         /\ row \in Rows
         /\ local'[q].filled = row.filled
         /\ local'[q].state = IF row.state # "Sent" THEN row.state
                              ELSE IF row.filled > 0 THEN "PartiallyFilled" ELSE "Acknowledged"
  BY ResolveCases
<1>3. \A r \in Ref : local'[r] = NoRow <=> local[r] = NoRow
  BY <1>1, RowTypes
<1>4. TypeOK'
  <2>1. raced' \in BOOLEAN
    BY <1>0, Zenon
  <2>2. resolved' \in Nat
    BY <1>0, Parts DEF TypeOK
  <2> QED BY <1>0, <1>1, <2>1, <2>2, Parts DEF TypeOK
<1>5. LocalOK'
  <2>1. /\ local'[q].state \in LocalState \ {"ManualInterventionRequired"}
        /\ local'[q].state = "PartiallyFilled" => local'[q].filled > 0
    BY <1>2, RowTypes DEF LocalState
  <2> QED BY <1>0, <1>1, <2>1, Parts DEF LocalOK, HasRow
<1>6. PlacingOK' /\ Known' /\ KeysOK' /\ SnapsOK' /\ SnapsAhead' /\ QuietOK'
  <2>1. PlacingOK' /\ Known'
    BY <1>0, <1>3, Parts DEF PlacingOK, Known, HasRow
  <2>2. SnapsAhead'
    BY <1>0 DEF SnapsAhead
  <2> QED BY <1>0, <2>1, <2>2, Parts DEF KeysOK, SnapsOK, QuietOK
<1>7. EngineKeys'
  <2> DEFINE B == IF last_snapshot_key = -1 THEN 1 ELSE last_snapshot_key
  <2>1. B \in Nat /\ resolved \in Nat /\ MaxResolve \in Nat
    BY Parts, ReconcileAssumption DEF TypeOK
  <2>2. \A r \in Ref : last_key[r] <= B + resolved /\ last_key[r] \in Int
    BY Parts DEF EngineKeys
  <2>3. B >= 1
    BY Parts, KeyFacts DEF KeysOK
  <2> HIDE DEF B
  <2>4. \A r \in Ref : last_key'[r] <= B + resolved'
    BY <1>0, <1>1, <2>1, <2>2, <2>3
  <2> QED BY <1>0, <2>1, <2>4 DEF EngineKeys, B
<1>8. BookAhead'
  <2>1. row.filled <= book[q].filled
    BY <1>2, Parts, ReadCases, RowTypes
  <2>2. book[q].filled >= local'[q].filled
    BY <1>1, <1>2, <2>1, Parts, RowTypes
  <2> QED BY <1>0, <1>1, <1>3, <2>2, Parts DEF BookAhead, Working, HasRow
<1> QED BY <1>4, <1>5, <1>6, <1>7, <1>8 DEF ReconcileInv

-----------------------------------------------------------------------------
LEMMA ReconcileInitially == Init => ReconcileInv
<1> SUFFICES ASSUME Init PROVE ReconcileInv
  OBVIOUS
<1>1. TypeOK
  BY DEF Init, TypeOK, NoKey
<1>2. LocalOK /\ PlacingOK /\ Known /\ KeysOK /\ BookAhead /\ SnapsOK /\ SnapsAhead /\ QuietOK
  BY DEF Init, LocalOK, PlacingOK, Known, KeysOK, BookAhead, SnapsOK, SnapsAhead, QuietOK, HasRow, Working
<1>3. EngineKeys
  BY ReconcileAssumption DEF Init, EngineKeys, NoKey
<1> QED BY <1>1, <1>2, <1>3 DEF ReconcileInv

LEMMA ReconcilePreserved == ReconcileInv /\ [Next]_vars => ReconcileInv'
<1> SUFFICES ASSUME ReconcileInv, [Next]_vars PROVE ReconcileInv'
  OBVIOUS
<1>1. CASE UNCHANGED vars
  BY ZenonT(30), <1>1, Parts DEF vars, ReconcileInv, TypeOK, LocalOK, PlacingOK, Known, KeysOK, EngineKeys, BookAhead,
     SnapsOK, SnapsAhead, QuietOK, HasRow, Working, Read
<1> QED
  BY <1>1, BrokerPreserves, PlaceSendPreserves, CancelUnknownPreserves, ResolvePreserves,
     PlaceReturnsPreserves, FetchPreserves, ApplySnapshotPreserves, CrashPreserves,
     RecoverFailsPreserves, DoubleFaultPreserves, RecoverPreserves DEF Next

(* The invariant behind the theorems below: what keys, fills, snapshots in *)
(* hand and recovery's verdict say of each other holds after every call of *)
(* the reconciler, of recover() and of the resolver.                       *)
THEOREM ReconcileInvariant == Spec => []ReconcileInv
BY ReconcileInitially, ReconcilePreserved, PTL DEF Spec

(* Every variable of the reconciliation keeps its type.                    *)
THEOREM ReconcileTypeOK == Spec => []TypeOK
<1>1. ReconcileInv => TypeOK
  BY DEF ReconcileInv
<1> QED BY <1>1, ReconcileInvariant, PTL

-----------------------------------------------------------------------------
(* reconciler.hpp asks callers for snapshot keys above the engine's own:   *)
(* no process resolves so many orders that their keys reach the next       *)
(* snapshot's.                                                             *)
KeysLead == MaxResolve + 1 < Stride

(* A snapshot that is not stale has a newer key than any order.            *)
LEMMA FreshIsNewer ==
  ASSUME ReconcileInv, KeysLead, NEW s \in snaps, ~Stale(s), NEW r \in Ref
  PROVE  last_key[r] < s.key
<1>1. /\ s.key \in Nat /\ last_snapshot_key \in Nat \cup {-1} /\ resolved \in Nat
      /\ Stride \in Nat /\ MaxResolve \in Nat /\ last_key[r] \in Int
  BY Parts, ReconcileAssumption DEF TypeOK
<1>2. last_snapshot_key < s.key
  BY <1>1 DEF Stale
<1>3. s.key >= Stride /\ (last_snapshot_key # -1 => last_snapshot_key + Stride <= s.key)
  BY <1>2, Parts, KeyFacts DEF KeysOK
<1>4. /\ resolved <= MaxResolve
      /\ last_key[r] <= (IF last_snapshot_key = -1 THEN 1 ELSE last_snapshot_key) + resolved
  BY Parts DEF EngineKeys
<1> QED BY <1>1, <1>3, <1>4 DEF KeysLead

(* No mismatch, and no older view: every row that is there is caught up    *)
(* with, except that an unreadable row says nothing.                       *)
LEMMA FoldCatchesUp ==
  ASSUME TypeOK, LocalOK, NEW rows \in [Ref \cup {Foreign} -> Rows \cup {NoRow}], NEW key \in Nat,
         Fold(rows, key), ~Mismatch(rows, key), NEW r \in Ref, rows[r] # NoRow,
         last_key[r] <= key, last_key[r] = key => ~NoWay(local[r], rows[r])
  PROVE  /\ CaughtUp(local'[r], rows[r])
         /\ rows[r].state = "Unknown" => local'[r].state = "Unknown"
<1> DEFINE a == Applied(r, rows, key)
           o == local[r]
           k == last_key[r]
           row == rows[r]
<1>0. /\ row \in Rows /\ row.filled \in Nat /\ k \in Int
      /\ row.state \in {"Sent", "Filled", "Cancelled", "Rejected", "Unknown"}
  BY RowTypes DEF TypeOK, NoKey
<1>1. same_order(o, row)
  BY DEF Mismatch, Phantom
<1>2. local'[r] = a.order
  BY DEF Fold
<1>3. ~Contradicts(r, rows, key)
  BY DEF Mismatch
<1>4. /\ a.outcome = "DroppedTerminal" => row.state = o.state /\ row.filled = o.filled
      /\ a.outcome = "NoChange" => a.key = key
  BY <1>3 DEF Contradicts
<1> HIDE DEF a, o, k, row
<1>5. \/ is_terminal(o.state) /\ Kept(a, o, k) /\ a.outcome = "DroppedTerminal"
      \/ key < k
      \/ NoWay(o, row) /\ Kept(a, o, k) /\ a.outcome = "NoChange"
      \/ TakesOver(a, row, key)
  BY <1>1, AppliedCases DEF a, o, k, row
<1>6. CASE is_terminal(o.state) /\ Kept(a, o, k) /\ a.outcome = "DroppedTerminal"
  <2>1. local'[r] = o /\ row.state = o.state /\ row.filled = o.filled /\ o.state \in Terminal
    BY <1>2, <1>4, <1>6 DEF Kept, is_terminal
  <2> QED BY <2>1 DEF CaughtUp, is_terminal, Terminal, row
<1>7. CASE NoWay(o, row) /\ Kept(a, o, k) /\ a.outcome = "NoChange"
  BY <1>4, <1>7 DEF Kept, o, k, row
<1>8. CASE TakesOver(a, row, key)
  <2>1. /\ local'[r].filled = row.filled
        /\ local'[r].state = IF row.state # "Sent" THEN row.state
                             ELSE IF row.filled > 0 THEN "PartiallyFilled" ELSE "Acknowledged"
    BY <1>2, <1>8 DEF TakesOver
  <2> QED BY <1>0, <2>1 DEF CaughtUp, is_terminal, Terminal, row
<1> QED BY <1>0, <1>5, <1>6, <1>7, <1>8 DEF k

(* Broker truth wins: a fresh snapshot that raises no block leaves no      *)
(* local order behind what it says.                                        *)
THEOREM BrokerTruthWins == KeysLead => (Spec => NothingMissed)
<1> SUFFICES ASSUME KeysLead PROVE Spec => NothingMissed
  OBVIOUS
<1>1. ASSUME ReconcileInv, [Next]_vars, NEW s \in snaps,
             last_snapshot_key' = s.key, last_snapshot_key # s.key, ~block', NEW r \in Ref, s.rows[r] # NoRow
      PROVE  CaughtUp(local'[r], s.rows[r])
  <2>0. s.key \in Nat
    BY <1>1, Parts
  <2>1. ~Crash
    BY <1>1, <2>0 DEF Crash
  <2>2. PICK t \in snaps : ApplySnapshot(t)
    BY <1>1, <2>1 DEF Next, vars, Broker, PlaceSend, PlaceReturns, CancelUnknown, Resolve, Fetch,
       RecoverFails, RecoverDoubleFault, Recover
  <2>3. /\ Fold(t.rows, t.key) /\ ~Stale(t) /\ last_snapshot_key' = t.key /\ ~Mismatch(t.rows, t.key)
    BY <1>1, <2>2 DEF ApplySnapshot
  <2>4. t = s
    BY <1>1, <2>3, Parts DEF KeysOK
  <2>5. last_key[r] < s.key /\ last_key[r] \in Int
    BY <1>1, <2>3, <2>4, Parts, FreshIsNewer
  <2>6. s.rows \in [Ref \cup {Foreign} -> Rows \cup {NoRow}] /\ TypeOK /\ LocalOK
    BY <1>1, Parts DEF TypeOK
  <2>7. last_key[r] <= s.key /\ last_key[r] # s.key
    BY <2>0, <2>5
  <2> QED BY <1>1, <2>0, <2>3, <2>4, <2>6, <2>7, FoldCatchesUp
<1>2. ReconcileInv /\ [Next]_vars =>
        [\A s \in snaps :
           (last_snapshot_key' = s.key /\ last_snapshot_key # s.key /\ ~block') =>
             \A r \in Ref : s.rows[r] # NoRow => CaughtUp(local'[r], s.rows[r])]_vars
  BY <1>1
<1> QED BY <1>2, ReconcileInvariant, PTL DEF Spec, NothingMissed

(* Reconcile before resume: recover() lets the engine trade only over      *)
(* orders that have caught up with a broker whose orders are all known,    *)
(* provided the resolver does not run while recovery is blocked.           *)
THEOREM ResumesReconciled == ~ResolvesBlocked => (Spec => ResumedIsReconciled)
<1> SUFFICES ASSUME ~ResolvesBlocked PROVE Spec => ResumedIsReconciled
  OBVIOUS
<1> DEFINE Seen(r) == IF book[r] = NoRow THEN NoRow ELSE [named |-> FALSE]
<1>1. ASSUME ReconcileInv, [Next]_vars, status # "trading", status' = "trading"
      PROVE  /\ book[Foreign] = NoRow
             /\ \A r \in Ref : /\ book[r] # NoRow => CaughtUp(local'[r], book[r])
                               /\ ~Vanished(local'[r], Seen(r))
  <2>1. Recover
    BY <1>1 DEF Next, vars, Broker, PlaceSend, PlaceReturns, CancelUnknown, Resolve, Fetch,
       ApplySnapshot, Crash, RecoverFails, RecoverDoubleFault
  <2>2. PICK f \in FetchedRows : Fold(f, 1) /\ Unknowns' = {} /\ ~Mismatch(f, 1)
    BY <1>1, <2>1 DEF Recover, SafeToResume
  <2>3. f \in [Ref \cup {Foreign} -> Rows \cup {NoRow}] /\ \A i \in Ref \cup {Foreign} : f[i] \in Read(i)
    BY <1>1, Parts, FetchedCases
  <2>4. status \in {"down", "blocked"} /\ \A r \in Ref : last_key[r] <= 1 /\ last_key[r] \in Int
    BY <1>1, <2>1, Parts DEF Recover, Recovering, EngineKeys
  <2>5. book[Foreign] = NoRow
    <3>1. f[Foreign] = NoRow
      BY <2>2, <2>3, ReconcileAssumption DEF Mismatch, Phantom
    <3> QED BY <1>1, <2>3, <3>1, Parts, ReadCases
  <2>6. ASSUME NEW r \in Ref, book[r] # NoRow PROVE CaughtUp(local'[r], book[r])
    <3>1. f[r] # NoRow /\ f[r] \in Rows
      BY <1>1, <2>3, <2>6, Parts, ReadCases
    <3>2. ~NoWay(local[r], f[r]) \/ last_key[r] # 1
      <4>1. same_order(local[r], f[r]) /\ local[r] # NoRow
        BY <2>2, <2>3, <3>1 DEF Mismatch, Phantom, same_order
      <4>2. local[r].state = "ManualInterventionRequired" => last_key[r] # 1
        BY <1>1, <2>4, <4>1, Parts DEF LocalOK, HasRow, NoKey
      <4>3. local[r].state = "PartiallyFilled" /\ f[r].state = "Sent" => f[r].filled > 0
        <5>1. local[r].state = "PartiallyFilled" => book[r].filled >= local[r].filled /\ local[r].filled > 0
          BY <1>1, <2>6, <4>1, Parts DEF LocalOK, HasRow, BookAhead
        <5>2. f[r].state = "Sent" => f[r].filled = book[r].filled
          BY <1>1, <2>3, <3>1, Parts, ReadCases
        <5> QED BY <1>1, <2>6, <4>1, <5>1, <5>2, Parts
      <4> QED BY <3>1, <4>2, <4>3, RowTypes DEF NoWay
    <3>3. CaughtUp(local'[r], f[r]) /\ (f[r].state = "Unknown" => local'[r].state = "Unknown")
      <4>1. TypeOK /\ LocalOK /\ 1 \in Nat
        BY <1>1, Parts
      <4> QED BY <2>2, <2>3, <2>4, <3>1, <3>2, <4>1, FoldCatchesUp
    <3>4. f[r].state # "Unknown"
      BY <2>2, <3>3 DEF Unknowns
    <3>5. f[r].state = book[r].state /\ f[r].filled = book[r].filled
      BY <1>1, <2>3, <3>1, <3>4, Parts, ReadCases
    <3> QED BY <3>3, <3>5 DEF CaughtUp
  <2>7. ASSUME NEW r \in Ref PROVE ~Vanished(local'[r], Seen(r))
    <3>1. CASE book[r] = NoRow
      <4>1. f[r] = NoRow
        BY <1>1, <2>3, <3>1, Parts, ReadCases
      <4>2. local'[r] = Applied(r, f, 1).order
        BY <2>2 DEF Fold
      <4> QED BY <2>2, <3>1, <4>1, <4>2 DEF Mismatch
    <3>2. CASE book[r] # NoRow
      <4>1. [named |-> FALSE] # NoRow
        <5>1. "state" \in DOMAIN NoRow /\ "state" \notin DOMAIN [named |-> FALSE]
          BY DEF NoRow
        <5> QED BY <5>1
      <4>2. Seen(r) # NoRow
        BY <3>2, <4>1
      <4> HIDE DEF Seen
      <4> QED BY <4>2 DEF Vanished, same_order
    <3> QED BY <3>1, <3>2
  <2> QED BY <2>5, <2>6, <2>7
<1>2. ReconcileInv /\ [Next]_vars =>
        [(status # "trading" /\ status' = "trading") =>
           /\ book[Foreign] = NoRow
           /\ \A r \in Ref : /\ book[r] # NoRow => CaughtUp(local'[r], book[r])
                             /\ ~Vanished(local'[r], Seen(r))]_vars
  BY <1>1
<1> QED BY <1>2, ReconcileInvariant, PTL DEF Spec, ResumedIsReconciled

(* What a step may do to a local order that exists.                        *)
LEMMA LocalMoves ==
  ASSUME ReconcileInv, [Next]_vars, NEW r \in Ref, local[r] # NoRow
  PROVE  \/ local'[r] = local[r]
         \/ local'[r].filled = local[r].filled
         \/ Resolve(r)
         \/ \E s \in snaps : ApplySnapshot(s)
         \/ Recover
<1>0. local \in [Ref -> Orders \cup {NoRow}] /\ local[r] \in Orders
  BY Parts DEF TypeOK
<1>1. ASSUME NEW q \in Ref, NEW st \in {"Acknowledged", "Unknown", "Rejected"}, PlaceReturns(q, st)
      PROVE  local'[r] = local[r]
  <2>1. q # r
    BY <1>1, Parts DEF PlaceReturns, PlacingOK, HasRow
  <2> QED BY <1>0, <1>1, <2>1 DEF PlaceReturns
<1>2. ASSUME NEW q \in Ref, CancelUnknown(q) PROVE local'[r].filled = local[r].filled
  BY <1>0, <1>2 DEF CancelUnknown, Orders
<1>3. CASE Crash
  BY <1>3, Parts DEF Crash, PlacingOK, HasRow
<1>4. CASE RecoverDoubleFault
  <2>1. local'[r] = IF r \in Unknowns THEN [local[r] EXCEPT !.state = "ManualInterventionRequired"]
                    ELSE local[r]
    BY <1>4 DEF RecoverDoubleFault
  <2> QED BY <1>0, <2>1 DEF Orders
<1>5. ASSUME NEW q \in Ref, Resolve(q) PROVE local'[r] = local[r] \/ Resolve(r)
  BY <1>5, ResolveCases
<1>6. CASE Broker \/ Fetch \/ RecoverFails \/ UNCHANGED vars \/ \E q \in Ref : PlaceSend(q)
  BY <1>6 DEF Broker, Fetch, RecoverFails, PlaceSend, vars
<1> QED BY <1>1, <1>2, <1>3, <1>4, <1>5, <1>6 DEF Next

(* Forward progressing: a fill the engine has believed is not taken back   *)
(* by any order of snapshots.                                              *)
THEOREM FillsAreKept == Spec => FillsNeverRegress
<1>1. ASSUME ReconcileInv, [Next]_vars, ~raced, NEW r \in Ref, HasRow(r), local'[r].state # "Unknown"
      PROVE  local'[r].filled >= local[r].filled
  <2>0. local[r] # NoRow /\ local[r].filled \in Nat
    BY <1>1, Parts DEF HasRow
  <2>1. CASE local'[r] = local[r] \/ local'[r].filled = local[r].filled
    BY <2>0, <2>1
  <2>2. ASSUME Resolve(r) PROVE local'[r].filled >= local[r].filled
    <3>1. PICK row \in Read(r) :
            /\ row \in Rows /\ local'[r].filled = row.filled
            /\ local'[r].state = IF row.state # "Sent" THEN row.state
                                 ELSE IF row.filled > 0 THEN "PartiallyFilled" ELSE "Acknowledged"
      BY <1>1, <2>2, ResolveCases
    <3>2. book[r] # NoRow /\ row.filled = book[r].filled
      BY <1>1, <2>2, <3>1, Parts, ReadCases, ResolveCases, RowTypes
    <3> QED BY <1>1, <2>0, <3>1, <3>2, Parts DEF BookAhead, HasRow
  <2>3. ASSUME NEW s \in snaps, ApplySnapshot(s) PROVE local'[r].filled >= local[r].filled
    <3>1. /\ Fold(s.rows, s.key) /\ s.key \in Nat /\ s.rows \in [Ref \cup {Foreign} -> Rows \cup {NoRow}]
          /\ TypeOK /\ LocalOK
      BY <1>1, <2>3, Parts DEF ApplySnapshot, TypeOK
    <3>2. CASE /\ s.rows[r] \in Rows /\ s.key >= last_key[r] /\ local'[r].filled = s.rows[r].filled
               /\ local'[r].state = IF s.rows[r].state # "Sent" THEN s.rows[r].state
                                    ELSE IF s.rows[r].filled > 0 THEN "PartiallyFilled" ELSE "Acknowledged"
      <4>1. s.rows[r].state # "Unknown" /\ s.rows[r] # NoRow
        BY <1>1, <3>2, RowTypes
      <4> QED BY <1>1, <3>2, <4>1, Parts DEF SnapsAhead
    <3> QED BY <2>1, <3>1, <3>2, FoldCases
  <2>4. ASSUME Recover PROVE local'[r].filled >= local[r].filled
    <3>1. PICK f \in FetchedRows : Fold(f, 1)
      BY <2>4 DEF Recover
    <3>2. /\ f \in [Ref \cup {Foreign} -> Rows \cup {NoRow}] /\ f[r] \in Read(r)
          /\ TypeOK /\ LocalOK /\ 1 \in Nat
      BY <1>1, Parts, FetchedCases
    <3>3. CASE /\ f[r] \in Rows /\ local'[r].filled = f[r].filled
               /\ local'[r].state = IF f[r].state # "Sent" THEN f[r].state
                                    ELSE IF f[r].filled > 0 THEN "PartiallyFilled" ELSE "Acknowledged"
      <4>1. f[r].state # "Unknown" /\ f[r] # NoRow
        BY <1>1, <3>3, RowTypes
      <4>2. book[r] # NoRow /\ f[r].filled = book[r].filled
        BY <3>2, <4>1, ReadCases
      <4> QED BY <1>1, <2>0, <3>3, <4>2, Parts DEF BookAhead, HasRow
    <3> QED BY <2>1, <3>1, <3>2, <3>3, FoldCases
  <2> QED BY <1>1, <2>0, <2>1, <2>2, <2>3, <2>4, LocalMoves
<1>2. ReconcileInv /\ [Next]_vars =>
        [~raced => \A r \in Ref :
           HasRow(r) /\ local'[r].state # "Unknown" => local'[r].filled >= local[r].filled]_vars
  BY <1>1
<1> QED BY <1>2, ReconcileInvariant, PTL DEF Spec, FillsNeverRegress

(* A snapshot applied at once blocks new orders only over a disagreement   *)
(* that is really there, or over a row that could not be read.             *)
THEOREM QuietBlocksAreReal == Spec => QuietBlockIsReal
<1>1. ASSUME ReconcileInv, [Next]_vars, Blocks, quiet, last_snapshot_key' = fetched * Stride,
             Readable(last_snapshot_key')
      PROVE  Disagree
  <2>1. PICK s \in snaps : s.key = fetched * Stride /\ \A i \in Ref \cup {Foreign} : s.rows[i] \in Read(i)
    BY <1>1, Parts DEF QuietOK
  <2>2. ~Crash
    BY <1>1 DEF Crash, Blocks
  <2>3. PICK t \in snaps : ApplySnapshot(t)
    BY <1>1, <2>2 DEF Blocks, Next, vars, Broker, PlaceSend, PlaceReturns, CancelUnknown, Resolve, Fetch,
       RecoverFails, RecoverDoubleFault, Recover
  <2>4. ~Stale(t) /\ last_snapshot_key' = t.key /\ Mismatch(t.rows, t.key)
    BY <1>1, <2>3 DEF ApplySnapshot, Blocks
  <2>5. t = s
    BY <1>1, <2>1, <2>4, Parts DEF KeysOK
  <2> DEFINE rows == s.rows
             key == s.key
  <2>6. rows \in [Ref \cup {Foreign} -> Rows \cup {NoRow}] /\ TypeOK /\ LocalOK /\ key \in Nat
    BY <1>1, Parts DEF TypeOK
  <2>7. \A i \in Ref \cup {Foreign} : rows[i].state # "Unknown"
    BY <1>1, <2>4, <2>5, <2>6 DEF Readable
  <2>8. Mismatch(rows, key) /\ \A i \in Ref \cup {Foreign} : rows[i] \in Read(i)
    BY <2>1, <2>4, <2>5
  <2> HIDE DEF rows, key
  <2>9. \A i \in Ref \cup {Foreign} : rows[i] # NoRow =>
          /\ book[i] # NoRow /\ rows[i].state = book[i].state /\ rows[i].filled = book[i].filled
          /\ rows[i].named <=> i # Foreign /\ (EchoesRef \/ i \in tags)
    BY <2>6, <2>7, <2>8, ReadCases
  <2>10. \A i \in Ref \cup {Foreign} : rows[i] = NoRow => book[i] = NoRow
    BY <2>6, <2>8, ReadCases
  <2>11. ASSUME NEW i \in Ref \cup {Foreign}, Phantom(i, rows) PROVE Disagree
    <3>1. CASE i = Foreign
      BY <2>9, <2>11, <3>1 DEF Phantom, Disagree
    <3>2. CASE i # Foreign
      <4>1. /\ book[i] # NoRow /\ i \in Ref
            /\ ~(local[i] # NoRow /\ (EchoesRef \/ i \in tags \/ local[i].bid # NoBid))
        BY <2>9, <2>11, <3>2 DEF Phantom, same_order
      <4> QED BY <4>1 DEF Disagree, HasRow
    <3> QED BY <3>1, <3>2
  <2>12. ASSUME NEW r \in Ref, Contradicts(r, rows, key) PROVE Disagree
    <3> DEFINE a == Applied(r, rows, key)
               o == local[r]
    <3>1. \/ a.outcome = "DroppedTerminal" /\ (rows[r].state # o.state \/ rows[r].filled # o.filled)
          \/ a.outcome = "NoChange" /\ a.key # key
      BY <2>12 DEF Contradicts
    <3>2. \/ ~same_order(o, rows[r]) /\ a.outcome = "none"
          \/ same_order(o, rows[r]) /\ is_terminal(o.state) /\ a.outcome = "DroppedTerminal"
          \/ a.outcome = "DroppedStale"
          \/ same_order(o, rows[r]) /\ NoWay(o, rows[r]) /\ a.outcome = "NoChange"
          \/ a.key = key /\ same_order(o, rows[r]) /\ ~is_terminal(o.state)
             /\ a.outcome # "DroppedTerminal"
      <4>1. same_order(o, rows[r]) /\ ~is_terminal(o.state) => a.outcome # "DroppedTerminal"
        BY DEF Applied, apply
      <4> HIDE DEF a
      <4> QED BY <2>6, <4>1, AppliedCases DEF TakesOver, a
    <3>3. /\ same_order(o, rows[r]) /\ (is_terminal(o.state) \/ NoWay(o, rows[r]))
          /\ is_terminal(o.state) => rows[r].state # o.state \/ rows[r].filled # o.filled
      BY <3>1, <3>2 DEF NoWay, is_terminal, Terminal
    <3>4. o # NoRow /\ rows[r] # NoRow
      BY <3>3 DEF same_order
    <3>5. book[r] # NoRow /\ rows[r].state = book[r].state /\ rows[r].filled = book[r].filled
      BY <2>9, <3>4
    <3>6. book[r].state # "ManualInterventionRequired"
      BY <1>1, <3>5, Parts DEF BookRows
    <3>7. ~(o.state = "PartiallyFilled" /\ rows[r].state = "Sent" /\ rows[r].filled = 0)
      BY <1>1, <3>4, <3>5, Parts DEF LocalOK, BookAhead, HasRow
    <3>8. \/ is_terminal(o.state) /\ (o.state # book[r].state \/ o.filled # book[r].filled)
          \/ o.state = "ManualInterventionRequired" /\ o.state # book[r].state
      BY <3>3, <3>5, <3>6, <3>7 DEF NoWay
    <3> QED BY <3>4, <3>5, <3>8 DEF Disagree, HasRow, is_terminal
  <2>13. ASSUME NEW r \in Ref, Vanished(Applied(r, rows, key).order, rows[r]) PROVE Disagree
    <3> DEFINE a == Applied(r, rows, key)
               o == local[r]
    <3>1. /\ a.order # NoRow /\ ~is_terminal(a.order.state) /\ a.order.bid # NoBid
          /\ rows[r] = NoRow
      BY <2>13 DEF Vanished, same_order
    <3>2. a.order = o
      BY <3>1 DEF Applied, same_order
    <3>3. book[r] = NoRow
      BY <2>10, <3>1
    <3> QED BY <3>1, <3>2, <3>3 DEF Disagree, HasRow
  <2>14. DOMAIN rows = Ref \cup {Foreign}
    BY <2>6
  <2> QED BY <2>8, <2>11, <2>12, <2>13, <2>14 DEF Mismatch
<1>2. ReconcileInv /\ [Next]_vars =>
        [(Blocks /\ quiet /\ last_snapshot_key' = fetched * Stride /\ Readable(last_snapshot_key')) =>
           Disagree]_vars
  BY <1>1
<1> QED BY <1>2, ReconcileInvariant, PTL DEF Spec, QuietBlockIsReal
=============================================================================
