--------------------------- MODULE Dispatch_proofs ---------------------------
(***************************************************************************)
(* TLAPS proofs about Dispatch, for every set of signals and refs and      *)
(* every bound: type correctness, the inductive invariant, and the         *)
(* duplicate-submit guard and record-before-send that follow from it.      *)
(***************************************************************************)
EXTENDS Dispatch, TLAPS

(* LifecycleEngine::apply maps an order and a view to an order and a key.  *)
LEMMA ApplyType ==
  ASSUME NEW o \in Orders, NEW k \in Nat \cup {NoKey}, NEW v \in Views
  PROVE  /\ apply(o, k, v).order \in Orders
         /\ apply(o, k, v).key \in Nat \cup {NoKey}
<1>1. canonical_observed(o.state, v) \in OrderState
  BY DEF canonical_observed, Views, OrderState
<1>2. Observed(o, v) \in Orders
  BY <1>1 DEF Observed, Orders, Views
<1>3. v.key \in Nat
  BY DEF Views
<1> QED
  BY <1>2, <1>3 DEF apply

(* A row that exists is an order.                                          *)
LEMMA RowIsOrder ==
  ASSUME TypeOK, NEW r \in Ref, HasRow(r)
  PROVE  store[r] \in Orders
BY DEF TypeOK, HasRow

(* Appending to the log, or failing to, keeps it a sequence of records.    *)
LEMMA AppendType ==
  ASSUME TypeOK, NEW rec \in Record, AppendSynced(rec) \/ AppendFailed(rec)
  PROVE  log' \in Seq(Record) /\ chain' \in {"clean", "torn", "whole", "broken"}
<1>1. log \in Seq(Record) /\ chain \in {"clean", "torn", "whole", "broken"}
  BY DEF TypeOK
<1>2. Append(log, rec) \in Seq(Record)
  BY <1>1
<1>3. \/ log' = log \/ log' = Append(log, rec)
  BY DEF AppendSynced, AppendFailed
<1>4. chain' \in {chain, "clean", "torn", "whole", "broken"}
  BY DEF AppendSynced, AppendFailed
<1> QED BY <1>1, <1>2, <1>3, <1>4

(* The broker's answer to a request keeps its book a sequence of orders.   *)
LEMMA ServedType ==
  ASSUME TypeOK, NEW q \in Request
  PROVE  Served(q) \in Seq(Booked)
<1>1. CASE q.kind = "PlaceOrder"
  <2>1. [ref |-> q.ref, sig |-> q.sig, state |-> "Sent", filled |-> 0] \in Booked
    BY DEF Booked, Request, OrderState
  <2> QED BY <1>1, <2>1 DEF Served, TypeOK
<1>2. CASE q.kind \in {"CancelOrder", "SquareOff"} /\ Working(q.bid)
  <2>1. /\ book \in Seq(Booked) /\ q.bid \in DOMAIN book /\ "Cancelled" \in OrderState
    BY <1>2 DEF TypeOK, Working, OrderState
  <2>2. book[q.bid] \in Booked
    BY <2>1
  <2> DEFINE ended == [book[q.bid] EXCEPT !.state = "Cancelled"]
  <2>4. ended \in Booked
    BY <2>1, <2>2 DEF Booked
  <2>5. [book EXCEPT ![q.bid] = ended] \in Seq(Booked)
    <3> HIDE DEF ended
    <3> QED BY <2>1, <2>4
  <2>3. [book EXCEPT ![q.bid].state = "Cancelled"] \in Seq(Booked)
    BY <2>5
  <2> QED BY <1>2, <2>3 DEF Served
<1>3. CASE q.kind # "PlaceOrder" /\ ~(q.kind \in {"CancelOrder", "SquareOff"} /\ Working(q.bid))
  BY <1>3 DEF Served, TypeOK
<1> QED BY <1>1, <1>2, <1>3

LEMMA TypeInitially == Init => TypeOK
BY ConstantsAssumption DEF Init, TypeOK, NoOp, NoKey

LEMMA TypePreserved == TypeOK /\ [Next]_vars => TypeOK'
<1> SUFFICES ASSUME TypeOK, [Next]_vars PROVE TypeOK'
  OBVIOUS
<1> USE DEF Kind
<1>place. ASSUME NEW s \in Signal, Place(s) PROVE TypeOK'
  BY <1>place DEF Place, Start, Idle, TypeOK, Request, NoBid, disk, remote
<1>touch. ASSUME NEW s \in Signal, NEW b \in 1 .. Len(book), NEW k \in Kind, Touch(k, s, b)
          PROVE  TypeOK'
  <2>1. Len(book) \in Nat /\ b \in Nat
    BY DEF TypeOK
  <2> QED
    BY <1>touch, <2>1 DEF Touch, Start, Idle, TypeOK, Request, disk, remote, memory
<1>caller. CASE Caller
  BY <1>caller, <1>place, <1>touch DEF Caller, Modify, Cancel, SquareOff
<1>cur. pc # "idle" => /\ cur \in Request /\ up
                       /\ \A op \in Kind \cup {"Result"} : CurRecord(op) \in Record
  BY DEF TypeOK, CurRecord, Record, Request
<1>record. CASE RecordIntent \/ RecordIntentFails \/ RecordResult
  <2>1. log' \in Seq(Record) /\ chain' \in {"clean", "torn", "whole", "broken"}
    <3>1. \E op \in Kind \cup {"Result"} : pc # "idle" /\
             (AppendSynced(CurRecord(op)) \/ AppendFailed(CurRecord(op)))
      BY <1>record, <1>cur DEF RecordIntent, RecordIntentFails, RecordResult, Request
    <3> QED BY <3>1, <1>cur, AppendType
  <2>2. unsent_refs' \subseteq Ref /\ tags' \subseteq Ref
    BY <1>record, <1>cur DEF RecordIntent, RecordIntentFails, RecordResult, TypeOK, Request, memory
  <2> QED
    BY <1>record, <1>cur, <2>1, <2>2
    DEF RecordIntent, RecordIntentFails, RecordResult, Finish, TypeOK, remote, memory
<1>accept. CASE BrokerAccepts
  <2>1. cur \in Request /\ Len(book) \in Nat
    BY <1>accept, <1>cur DEF BrokerAccepts, TypeOK
  <2>2. book' \in Seq(Booked)
    BY <1>accept, <2>1, ServedType DEF BrokerAccepts
  <2>3. cur' \in Request
    BY <1>accept, <2>1 DEF BrokerAccepts, Request
  <2> QED
    BY <1>accept, <2>2, <2>3 DEF BrokerAccepts, TypeOK, disk, memory
<1>refuse. CASE BrokerRefuses
  BY <1>refuse DEF BrokerRefuses, TypeOK, disk, remote, memory
<1>late. ASSUME NEW q \in late, LateArrival(q) PROVE TypeOK'
  <2>1. book' \in Seq(Booked)
    BY <1>late, ServedType DEF LateArrival, TypeOK
  <2> QED
    BY <1>late, <2>1 DEF LateArrival, TypeOK, disk, memory, inflight
<1>moves. ASSUME NEW b \in DOMAIN book, NEW st \in Moves, BrokerMoves(b, st) PROVE TypeOK'
  <2>1. book[b] \in Booked /\ book \in Seq(Booked) /\ st \in OrderState
    BY ConstantsAssumption DEF TypeOK, OrderState
  <2> DEFINE moved == [book[b] EXCEPT !.state = st,
                          !.filled = CASE st = "Sent" -> 1 [] st = "Filled" -> 2 [] OTHER -> @]
  <2>2. moved \in Booked
    BY <2>1 DEF Booked
  <2>3. [book EXCEPT ![b] = moved] \in Seq(Booked)
    <3> HIDE DEF moved
    <3> QED BY <2>1, <2>2
  <2>4. book' = [book EXCEPT ![b] = moved]
    BY <1>moves, <2>1 DEF BrokerMoves
  <2> QED
    BY <1>moves, <2>3, <2>4 DEF BrokerMoves, TypeOK, disk, memory, inflight
<1>returns. CASE Acked \/ (\E v \in {"do_not_retry", "other"} : Rejects(v)) \/ Ambiguous
  BY <1>returns DEF Acked, Rejects, Ambiguous, Returns, TypeOK, disk, memory
<1>pplace. CASE PersistPlace
  <2>1. cur.ref \in Ref /\ cur.bid \in Nat
    BY <1>pplace, <1>cur DEF PersistPlace, Request
  <2>2. PlacedOrder.order \in Orders /\ PlacedOrder.key \in Nat \cup {NoKey}
    <3>1. last_key[cur.ref] \in Nat \cup {NoKey}
      BY <2>1 DEF TypeOK
    <3>2. [state |-> "Sent", filled |-> 0, bid |-> NoBid] \in Orders
      BY DEF Orders, OrderState, NoBid
    <3>3. [state |-> "Acknowledged", filled |-> 0, bid |-> cur.bid, key |-> 1] \in Views
      BY <2>1 DEF Views, OrderState
    <3>4. CASE verdict = "ack"
      BY <3>1, <3>2, <3>3, <3>4, ApplyType DEF PlacedOrder
    <3>5. CASE verdict # "ack"
      BY <3>1, <3>5 DEF PlacedOrder, Orders, OrderState, NoBid
    <3> QED BY <3>4, <3>5
  <2> HIDE DEF Orders
  <2>3. store' \in [Ref -> Orders \cup {NoRow}] /\ last_key' \in [Ref -> Nat \cup {NoKey}]
    BY <1>pplace, <2>1, <2>2 DEF PersistPlace, TypeOK
  <2> QED
    BY <1>pplace, <2>3, <1>cur DEF PersistPlace, Finish, TypeOK, remote
<1>pmodify. CASE PersistModify
  <2>1. cur.ref \in Ref /\ cur.bid \in Nat
    BY <1>pmodify, <1>cur DEF PersistModify, Request
  <2>2. ModifiedOrder \in Orders
    <3> DEFINE base == IF HasRow(cur.ref) THEN store[cur.ref]
                       ELSE [state |-> "Acknowledged", filled |-> 0, bid |-> NoBid]
    <3>1. base \in Orders
      BY <2>1, RowIsOrder DEF Orders, OrderState, NoBid
    <3> HIDE DEF base
    <3>2. \A st \in OrderState : [base EXCEPT !.bid = cur.bid, !.state = st] \in Orders
      BY <2>1, <3>1 DEF Orders
    <3>3. base.state \in OrderState
      BY <3>1 DEF Orders
    <3>4. (CASE verdict = "unknown" -> "Unknown"
             [] verdict = "ack" /\ base.state \in
                  {"Unknown", "Created", "Validated", "PendingSend", "Sent"} -> "Acknowledged"
             [] OTHER -> base.state) \in OrderState
      BY <3>3 DEF OrderState
    <3> QED BY <3>2, <3>4 DEF ModifiedOrder, base
  <2>3. store' \in [Ref -> Orders \cup {NoRow}]
    BY <1>pmodify, <2>1, <2>2 DEF PersistModify, TypeOK
  <2> QED
    BY <1>pmodify, <2>3, <1>cur DEF PersistModify, Finish, TypeOK, remote, memory
<1>pcancel. CASE PersistCancel
  <2>1. cur.ref \in Ref
    BY <1>pcancel, <1>cur DEF PersistCancel, Request
  <2>2. MarksUnknown => [store[cur.ref] EXCEPT !.state = "Unknown"] \in Orders
    BY <2>1, RowIsOrder DEF MarksUnknown, Orders, OrderState
  <2>3. store' \in [Ref -> Orders \cup {NoRow}]
    BY <1>pcancel, <2>1, <2>2 DEF PersistCancel, TypeOK
  <2> QED
    BY <1>pcancel, <2>3, <1>cur DEF PersistCancel, Finish, TypeOK, remote, memory
<1>resolve. ASSUME NEW s \in Signal, NEW saved \in BOOLEAN, Resolve(s, saved) PROVE TypeOK'
  <2> DEFINE r == index[s]
  <2>1. r \in Ref /\ HasRow(r)
    BY <1>resolve DEF Resolve, Unresolved, HasRow, NoRow, TypeOK
  <2>2. PICK b \in DOMAIN book :
          /\ last_key' = [last_key EXCEPT ![r] = Adopted(r, b).key]
          /\ \/ UNCHANGED store
             \/ store' = [store EXCEPT ![r] =
                  [Adopted(r, b).order EXCEPT !.bid = IF @ = NoBid THEN b ELSE @]]
    <3>1. classify(s) \subseteq DOMAIN book
      BY DEF classify, IdMatch, TokenMatch, AttrMatch
    <3> QED BY <1>resolve, <3>1 DEF Resolve
  <2>3. b \in Nat
    BY DEF TypeOK
  <2>4. Adopted(r, b).order \in Orders /\ Adopted(r, b).key \in Nat \cup {NoKey}
    <3>1. store[r] \in Orders
      BY <2>1, RowIsOrder
    <3>2. last_key[r] \in Nat \cup {NoKey}
      BY <2>1 DEF TypeOK
    <3>3. book[b] \in Booked
      BY DEF TypeOK
    <3>4. [state |-> book[b].state, filled |-> book[b].filled, bid |-> b,
           key |-> IF last_key[r] = NoKey THEN 1 ELSE last_key[r] + 1] \in Views
      BY <2>3, <3>2, <3>3 DEF Views, Booked
    <3> QED BY <3>1, <3>2, <3>4, ApplyType DEF Adopted
  <2> DEFINE o == Adopted(r, b).order
  <2>5. [o EXCEPT !.bid = IF @ = NoBid THEN b ELSE @] \in Orders
    <3> HIDE DEF o
    <3> SUFFICES ASSUME o \in Orders PROVE [o EXCEPT !.bid = IF @ = NoBid THEN b ELSE @] \in Orders
      BY <2>4 DEF o
    <3> QED BY <2>3 DEF Orders
  <2>6. store' \in [Ref -> Orders \cup {NoRow}] /\ last_key' \in [Ref -> Nat \cup {NoKey}]
    BY <2>1, <2>2, <2>4, <2>5 DEF TypeOK
  <2> QED
    BY <1>resolve, <2>6 DEF Resolve, Unresolved, TypeOK, remote, inflight
<1>crash. CASE Crash
  <2>1. late' \subseteq Request
    BY <1>crash, <1>cur DEF Crash, TypeOK
  <2>2. /\ index' \in [Signal -> Ref \cup {NoRef}] /\ last_key' \in [Ref -> Nat \cup {NoKey}]
        /\ crashes' \in Nat /\ unsent_refs' = {} /\ tags' = {} /\ up' = FALSE
    BY <1>crash DEF Crash, TypeOK
  <2>3. UNCHANGED <<log, chain, store, book, minted>>
    BY <1>crash DEF Crash, disk
  <2>4. pc' = "idle" /\ cur' = NoOp /\ reply' = "none" /\ verdict' = "none"
    BY <1>crash DEF Crash, Finish
  <2> QED
    BY <2>1, <2>2, <2>3, <2>4 DEF TypeOK
<1>restart. CASE Restart
  <2>1. log' \in Seq(Record)
    <3>1. CASE log' = log
      BY <3>1 DEF TypeOK
    <3>2. CASE log' = SubSeq(log, 1, Len(log) - 1)
      BY <3>2 DEF TypeOK
    <3> QED BY <1>restart, <3>1, <3>2 DEF Restart
  <2>2. store' \in [Ref -> Orders \cup {NoRow}] /\ index' \in [Signal -> Ref \cup {NoRef}]
    BY <1>restart DEF Restart, RebuildFromLog, TypeOK
  <2> QED
    BY <1>restart, <2>1, <2>2 DEF Restart, TypeOK, remote, inflight
<1>stutter. CASE UNCHANGED vars
  BY <1>stutter DEF vars, TypeOK
<1> QED
  BY <1>caller, <1>record, <1>accept, <1>refuse, <1>late, <1>moves, <1>returns, <1>pplace,
     <1>pmodify, <1>pcancel, <1>resolve, <1>crash, <1>restart, <1>stutter
  DEF Next, Step, Broker

(* Every reachable state of the dispatcher is well typed.                  *)
THEOREM TypeCorrect == Spec => []TypeOK
BY TypeInitially, TypePreserved, PTL DEF Spec

-----------------------------------------------------------------------------
(* How a step changes the bindings in the log and the refs that are live.  *)

LEMMA PlacementsAfterAppend ==
  ASSUME log \in Seq(Record), NEW rec \in Record, log' = Append(log, rec)
  PROVE  Placements' = IF rec.op = "PlaceOrder" THEN Placements \cup {<<rec.sig, rec.ref>>}
                       ELSE Placements
<1>1. /\ DOMAIN log' = DOMAIN log \cup {Len(log) + 1}
      /\ \A i \in DOMAIN log : log'[i] = log[i]
      /\ log'[Len(log) + 1] = rec
      /\ Len(log) + 1 \notin DOMAIN log
  OBVIOUS
<1>2. Placements' = {<<log'[i].sig, log'[i].ref>> :
                       i \in {j \in DOMAIN log' : log'[j].op = "PlaceOrder"}}
  BY DEF Placements
<1> QED BY <1>1, <1>2 DEF Placements

LEMMA PlacementsAfterCut ==
  ASSUME log \in Seq(Record), Len(log) > 0, log' = SubSeq(log, 1, Len(log) - 1)
  PROVE  /\ Placements' \subseteq Placements
         /\ \A p \in Placements :
              p \in Placements' \/ ( /\ log[Len(log)].op = "PlaceOrder"
                                     /\ p = <<log[Len(log)].sig, log[Len(log)].ref>> )
<1>1. /\ DOMAIN log = DOMAIN log' \cup {Len(log)}
      /\ \A i \in DOMAIN log' : log'[i] = log[i]
  <2>1. Len(log) \in Nat /\ DOMAIN log = 1 .. Len(log)
    OBVIOUS
  <2>2. /\ log' = [i \in 1 .. (Len(log) - 1) |-> log[i]]
        /\ DOMAIN log' = 1 .. (Len(log) - 1)
    BY <2>1
  <2> QED BY <2>1, <2>2
<1>2. Placements' = {<<log'[i].sig, log'[i].ref>> :
                       i \in {j \in DOMAIN log' : log'[j].op = "PlaceOrder"}}
  BY DEF Placements
<1> QED BY <1>1, <1>2 DEF Placements

LEMMA PlacementsType ==
  ASSUME TypeOK, NEW p \in Placements
  PROVE  \E s \in Signal, r \in Ref : p = <<s, r>>
<1>1. PICK i \in DOMAIN log : p = <<log[i].sig, log[i].ref>>
  BY DEF Placements
<1>2. log[i] \in Record
  BY DEF TypeOK
<1> QED BY <1>1, <1>2 DEF Record

(* The same orders under the same refs, and the same placements to come.   *)
SameKeys ==
  /\ DOMAIN book' = DOMAIN book
  /\ \A i \in DOMAIN book : book'[i].ref = book[i].ref /\ book'[i].sig = book[i].sig
  /\ \A q \in late' : q.kind = "PlaceOrder" => q \in late
  /\ \A q \in late : q.kind = "PlaceOrder" => q \in late'

LEMMA LiveRefsSame ==
  ASSUME SameKeys PROVE LiveRefs' = LiveRefs
<1>1. LiveRefs' = {book'[i].ref : i \in DOMAIN book'}
              \cup {q.ref : q \in {p \in late' : p.kind = "PlaceOrder"}}
  BY DEF LiveRefs
<1> QED BY <1>1 DEF LiveRefs, SameKeys

(* Moving or ending broker orders, or serving anything but a placement,    *)
(* keeps the refs and signals of the book.                                 *)
LEMMA ServedKeys ==
  ASSUME TypeOK, NEW q \in Request, q.kind # "PlaceOrder", book' = Served(q)
  PROVE  /\ DOMAIN book' = DOMAIN book
         /\ \A i \in DOMAIN book : book'[i].ref = book[i].ref /\ book'[i].sig = book[i].sig
<1>1. book \in Seq(Booked)
  BY DEF TypeOK
<1>2. CASE q.kind \in {"CancelOrder", "SquareOff"} /\ Working(q.bid)
  <2>1. book' = [book EXCEPT ![q.bid].state = "Cancelled"]
    BY <1>2 DEF Served
  <2>2. \A i \in DOMAIN book : book[i] \in Booked
    BY <1>1
  <2> QED BY <2>1, <2>2 DEF Booked
<1>3. CASE ~(q.kind \in {"CancelOrder", "SquareOff"} /\ Working(q.bid))
  BY <1>3 DEF Served
<1> QED BY <1>2, <1>3

(* Serving a placement adds one order.                                     *)
LEMMA ServedPlacement ==
  ASSUME TypeOK, NEW q \in Request, q.kind = "PlaceOrder", book' = Served(q)
  PROVE  /\ DOMAIN book' = DOMAIN book \cup {Len(book) + 1}
         /\ Len(book) + 1 \notin DOMAIN book
         /\ \A i \in DOMAIN book : book'[i] = book[i]
         /\ book'[Len(book) + 1].ref = q.ref /\ book'[Len(book) + 1].sig = q.sig
<1>1. book' = Append(book, [ref |-> q.ref, sig |-> q.sig, state |-> "Sent", filled |-> 0])
  BY DEF Served
<1> QED BY <1>1 DEF TypeOK

-----------------------------------------------------------------------------
(* The steps that leave the log, the index and unsent_refs_ alone and move *)
(* no placement keep the invariant if the mutation in flight allows it.    *)
LEMMA QuietStep ==
  ASSUME TypeOK, DispatchInv, SameKeys, InFlight',
         UNCHANGED <<log, chain, up, index, unsent_refs, minted>>,
         pc = "append" /\ cur.kind = "PlaceOrder" => pc' = "append" /\ cur' = cur
  PROVE  DispatchInv'
<1>1. Placements' = Placements
  BY DEF Placements
<1>2. LiveRefs' = LiveRefs
  BY LiveRefsSame
<1> USE <1>1, <1>2 DEF DispatchInv, Recorded, Live
<1>3. LogBindsOneToOne' /\ IndexBindsOneToOne' /\ IndexAgreesWithLog' /\ DownIsEmpty'
  BY DEF LogBindsOneToOne, IndexBindsOneToOne, IndexAgreesWithLog, DownIsEmpty
<1>4. IndexIsJustified'
  BY DEF IndexIsJustified
<1>5. SentIsRecorded'
  BY DEF SentIsRecorded, SameKeys
<1>6. UnsentNeverSent'
  BY DEF UnsentNeverSent
<1>7. LiveOnce'
  BY DEF LiveOnce, SameKeys
<1>8. TailNotSent'
  BY DEF TailNotSent
<1> QED BY <1>3, <1>4, <1>5, <1>6, <1>7, <1>8

-----------------------------------------------------------------------------
(* place() up to the append: a fresh ref is in no record and not live; a   *)
(* resumed one is in unsent_refs_, so it is not live either.               *)
LEMMA PlacePreserves ==
  ASSUME TypeOK, DispatchInv, NEW s \in Signal, Place(s) PROVE DispatchInv'
<1> DEFINE r == cur'.ref
<1>1. /\ pc = "idle" /\ up /\ pc' = "append"
      /\ cur'.kind = "PlaceOrder" /\ cur'.sig = s
      /\ UNCHANGED <<log, chain, store, book, late, up, unsent_refs, reply, verdict>>
  BY DEF Place, Idle, Start, disk, remote
<1>2. /\ r \in Ref /\ r # NoRef
      /\ index' = [index EXCEPT ![s] = r]
      /\ \/ index[s] = NoRef /\ r \notin minted /\ minted' = minted \cup {r}
         \/ index[s] = r /\ r \in unsent_refs /\ minted' = minted
  <2>1. CASE index[s] = NoRef /\ index[s] \notin unsent_refs
    BY <2>1, ConstantsAssumption DEF Place, Start
  <2>2. CASE index[s] \in unsent_refs
    <3>1. index[s] \in Ref /\ index[s] # NoRef
      BY <2>2, ConstantsAssumption DEF TypeOK
    <3>2. r = index[s] /\ index' = index /\ minted' = minted
      BY <2>2, <3>1 DEF Place, Start
    <3> QED BY <2>2, <3>1, <3>2 DEF TypeOK
  <2> QED BY <2>1, <2>2 DEF Place
<1>3. Placements' = Placements /\ LiveRefs' = LiveRefs
  BY <1>1 DEF Placements, LiveRefs
<1>4. r \notin LiveRefs
  <2>1. CASE r \in unsent_refs
    BY <2>1 DEF DispatchInv, UnsentNeverSent, Live
  <2>2. CASE r \notin minted
    <3>1. \A i \in DOMAIN book : book[i] \in Booked
      BY DEF TypeOK
    <3>2. \A i \in DOMAIN book : book[i].ref \in minted
      BY <3>1 DEF DispatchInv, SentIsRecorded, IndexBindsOneToOne, Recorded, Booked
    <3>3. \A q \in late : q.kind = "PlaceOrder" => q.ref \in minted
      BY DEF DispatchInv, SentIsRecorded, IndexBindsOneToOne, Recorded, TypeOK, Request
    <3> QED BY <2>2, <3>2, <3>3 DEF LiveRefs
  <2> QED BY <1>2, <2>1, <2>2
<1> HIDE DEF r
<1>5. r = cur'.ref /\ index'[s] = r /\ \A t \in Signal : t # s => index'[t] = index[t]
  BY <1>2 DEF r, TypeOK
<1> USE <1>1, <1>2, <1>3, <1>4, <1>5 DEF DispatchInv, Recorded, Live
<1>6. LogBindsOneToOne'
  BY DEF LogBindsOneToOne
<1>7. IndexBindsOneToOne'
  BY DEF IndexBindsOneToOne
<1>8. IndexAgreesWithLog'
  BY ConstantsAssumption DEF IndexAgreesWithLog
<1>9. IndexIsJustified'
  BY DEF IndexIsJustified
<1>10. SentIsRecorded' /\ UnsentNeverSent' /\ LiveOnce' /\ TailNotSent' /\ DownIsEmpty'
  BY DEF SentIsRecorded, UnsentNeverSent, LiveOnce, TailNotSent, DownIsEmpty
<1>11. InFlight'
  BY DEF InFlight
<1> QED BY <1>6, <1>7, <1>8, <1>9, <1>10, <1>11

(* The append of the intent: from here on the ref counts as sent.          *)
LEMMA RecordIntentPreserves ==
  ASSUME TypeOK, DispatchInv, RecordIntent PROVE DispatchInv'
<1>1. /\ pc = "append" /\ pc' = "wait" /\ cur \in Request /\ up
      /\ log \in Seq(Record) /\ CurRecord(cur.kind) \in Record
      /\ log' = Append(log, CurRecord(cur.kind))
      /\ chain' \in {"clean", "broken"}
      /\ unsent_refs' = IF cur.kind = "PlaceOrder" THEN unsent_refs \ {cur.ref} ELSE unsent_refs
      /\ UNCHANGED <<book, late, up, index, minted, cur, reply, verdict>>
  BY DEF RecordIntent, AppendSynced, TypeOK, CurRecord, Record, Request, remote
<1>2. Placements' = IF cur.kind = "PlaceOrder" THEN Placements \cup {<<cur.sig, cur.ref>>}
                    ELSE Placements
  BY <1>1, PlacementsAfterAppend DEF CurRecord
<1>3. LiveRefs' = LiveRefs
  BY <1>1 DEF LiveRefs
<1>4. cur.sig \in Signal /\ cur.ref \in Ref
  BY <1>1 DEF Request
<1>5. cur.kind = "PlaceOrder" => index[cur.sig] = cur.ref /\ cur.ref # NoRef
  BY <1>1, <1>4, ConstantsAssumption DEF DispatchInv, InFlight
<1> USE <1>1, <1>2, <1>3, <1>4, <1>5 DEF DispatchInv, Recorded, Live
<1>6. LogBindsOneToOne'
  BY DEF LogBindsOneToOne, IndexAgreesWithLog, IndexBindsOneToOne
<1>7. IndexBindsOneToOne'
  BY DEF IndexBindsOneToOne
<1>8. IndexAgreesWithLog'
  BY DEF IndexAgreesWithLog
<1>9. IndexIsJustified'
  BY DEF IndexIsJustified, IndexBindsOneToOne
<1>10. SentIsRecorded' /\ UnsentNeverSent' /\ LiveOnce' /\ TailNotSent' /\ DownIsEmpty'
  BY DEF SentIsRecorded, UnsentNeverSent, LiveOnce, TailNotSent, DownIsEmpty
<1>11. InFlight'
  BY DEF InFlight
<1> QED BY <1>6, <1>7, <1>8, <1>9, <1>10, <1>11

(* A failed append: the record may be in the file, nothing was sent.       *)
LEMMA RecordIntentFailsPreserves ==
  ASSUME TypeOK, DispatchInv, RecordIntentFails PROVE DispatchInv'
<1>1. /\ pc = "append" /\ pc' = "idle" /\ cur \in Request /\ up
      /\ reply' = "none" /\ verdict' = "none"
      /\ log \in Seq(Record) /\ CurRecord(cur.kind) \in Record
      /\ \/ log' = log /\ chain' # "whole"
         \/ log' = log /\ chain' = chain
         \/ log' = Append(log, CurRecord(cur.kind)) /\ chain' = "whole"
      /\ unsent_refs' = IF cur.kind = "PlaceOrder" THEN unsent_refs \cup {cur.ref} ELSE unsent_refs
      /\ UNCHANGED <<book, late, up, index, minted>>
  BY DEF RecordIntentFails, AppendFailed, Finish, TypeOK, CurRecord, Record, Request, remote
<1>2. \/ Placements' = Placements
      \/ /\ cur.kind = "PlaceOrder"
         /\ Placements' = Placements \cup {<<cur.sig, cur.ref>>}
  BY <1>1, PlacementsAfterAppend DEF CurRecord, Placements
<1>3. LiveRefs' = LiveRefs
  BY <1>1 DEF LiveRefs
<1>4. cur.sig \in Signal /\ cur.ref \in Ref
  BY <1>1 DEF Request
<1>5. cur.kind = "PlaceOrder" =>
        index[cur.sig] = cur.ref /\ cur.ref # NoRef /\ cur.ref \notin LiveRefs
  BY <1>1, <1>4, ConstantsAssumption DEF DispatchInv, InFlight, Live
<1>6. TailNotSent'
  <2>1. CASE log' = log
    BY <1>1, <1>3, <2>1 DEF DispatchInv, TailNotSent, Live
  <2>2. CASE log' = Append(log, CurRecord(cur.kind))
    <3>1. Len(log') > 0 /\ log'[Len(log')] = CurRecord(cur.kind)
      BY <1>1, <2>2
    <3> QED BY <1>1, <1>3, <1>5, <3>1 DEF TailNotSent, CurRecord, Live
  <2> QED BY <1>1, <2>1, <2>2
<1> USE <1>1, <1>2, <1>3, <1>4, <1>5 DEF DispatchInv, Recorded, Live
<1>7. LogBindsOneToOne'
  BY DEF LogBindsOneToOne, IndexAgreesWithLog, IndexBindsOneToOne
<1>8. IndexBindsOneToOne'
  BY DEF IndexBindsOneToOne
<1>9. IndexAgreesWithLog'
  BY DEF IndexAgreesWithLog
<1>10. IndexIsJustified'
  BY DEF IndexIsJustified, IndexBindsOneToOne
<1>11. SentIsRecorded' /\ UnsentNeverSent' /\ LiveOnce' /\ DownIsEmpty'
  BY DEF SentIsRecorded, UnsentNeverSent, LiveOnce, DownIsEmpty
<1>12. InFlight'
  BY DEF InFlight
<1> QED BY <1>6, <1>7, <1>8, <1>9, <1>10, <1>11, <1>12

-----------------------------------------------------------------------------
(* A placement becomes live, or may: it is the one in flight, it is        *)
(* recorded, and nothing of its ref was live before.                       *)

LEMMA AcceptPreserves ==
  ASSUME TypeOK, DispatchInv, BrokerAccepts PROVE DispatchInv'
<1>1. /\ pc = "wait" /\ reply = "none" /\ cur \in Request /\ book' = Served(cur) /\ reply' = "ok"
      /\ cur'.kind = cur.kind /\ cur'.sig = cur.sig /\ cur'.ref = cur.ref
      /\ UNCHANGED <<log, chain, late, up, index, unsent_refs, minted, pc, verdict>>
  BY DEF BrokerAccepts, TypeOK, Request, disk, memory
<1>2. CASE cur.kind # "PlaceOrder"
  <2>1. SameKeys
    BY <1>1, <1>2, ServedKeys DEF SameKeys
  <2>2. InFlight'
    BY <1>1, <1>2 DEF DispatchInv, InFlight
  <2> QED BY <1>1, <2>1, <2>2, QuietStep
<1>3. CASE cur.kind = "PlaceOrder"
  <2> DEFINE n == Len(book) + 1
  <2>1. /\ DOMAIN book' = DOMAIN book \cup {n}
        /\ n \notin DOMAIN book
        /\ \A i \in DOMAIN book : book'[i] = book[i]
        /\ book'[n].ref = cur.ref /\ book'[n].sig = cur.sig
    BY <1>1, <1>3, ServedPlacement
  <2> HIDE DEF n
  <2>2. Placements' = Placements
    BY <1>1 DEF Placements
  <2>3. LiveRefs' = LiveRefs \cup {cur.ref}
    <3>1. LiveRefs' = {book'[i].ref : i \in DOMAIN book'}
                \cup {q.ref : q \in {p \in late' : p.kind = "PlaceOrder"}}
      BY DEF LiveRefs
    <3> QED BY <1>1, <2>1, <3>1 DEF LiveRefs
  <2>4. /\ <<cur.sig, cur.ref>> \in Placements /\ cur.ref \notin unsent_refs
        /\ cur.ref \notin LiveRefs /\ chain # "whole"
    BY <1>1, <1>3 DEF DispatchInv, InFlight, Recorded, Live
  <2> USE <1>1, <1>3, <2>1, <2>2, <2>3, <2>4 DEF DispatchInv, Recorded, Live
  <2>5. /\ LogBindsOneToOne' /\ IndexBindsOneToOne' /\ IndexAgreesWithLog'
        /\ IndexIsJustified' /\ DownIsEmpty'
    BY DEF LogBindsOneToOne, IndexBindsOneToOne, IndexAgreesWithLog, IndexIsJustified, DownIsEmpty
  <2>6. SentIsRecorded'
    BY DEF SentIsRecorded
  <2>7. UnsentNeverSent'
    BY DEF UnsentNeverSent
  <2>8. LiveOnce'
    BY DEF LiveOnce, LiveRefs
  <2>9. InFlight'
    BY DEF InFlight
  <2>10. TailNotSent'
    BY DEF TailNotSent
  <2> QED BY <2>5, <2>6, <2>7, <2>8, <2>9, <2>10
<1> QED BY <1>2, <1>3

LEMMA LatePreserves ==
  ASSUME TypeOK, DispatchInv, NEW q \in late, LateArrival(q) PROVE DispatchInv'
<1>1. /\ late' = late \ {q} /\ q \in Request
      /\ UNCHANGED <<log, chain, up, index, unsent_refs, minted, pc, cur, reply, verdict>>
  BY DEF LateArrival, TypeOK, disk, memory, inflight
<1>2. CASE q.kind # "PlaceOrder"
  <2>1. SameKeys
    BY <1>1, <1>2, ServedKeys DEF SameKeys, LateArrival
  <2>2. InFlight'
    <3>1. LiveRefs' = LiveRefs /\ Placements' = Placements
      BY <2>1, <1>1, LiveRefsSame DEF Placements
    <3> QED BY <1>1, <3>1 DEF DispatchInv, InFlight, Recorded, Live
  <2> QED BY <1>1, <2>1, <2>2, QuietStep
<1>3. CASE q.kind = "PlaceOrder"
  <2> DEFINE n == Len(book) + 1
  <2>1. /\ DOMAIN book' = DOMAIN book \cup {n}
        /\ n \notin DOMAIN book
        /\ \A i \in DOMAIN book : book'[i] = book[i]
        /\ book'[n].ref = q.ref /\ book'[n].sig = q.sig
    BY <1>1, <1>3, ServedPlacement DEF LateArrival, Acceptable
  <2> HIDE DEF n
  <2>2. Placements' = Placements
    BY <1>1 DEF Placements
  <2>3. LiveRefs' \subseteq LiveRefs
    <3>1. LiveRefs' = {book'[i].ref : i \in DOMAIN book'}
                \cup {p.ref : p \in {p \in late' : p.kind = "PlaceOrder"}}
      BY DEF LiveRefs
    <3> QED BY <1>1, <1>3, <2>1, <3>1 DEF LiveRefs
  <2>4. \A p \in late : p.kind = "PlaceOrder" /\ p.ref = q.ref => p = q
    BY <1>3 DEF DispatchInv, LiveOnce
  <2> USE <1>1, <1>3, <2>1, <2>2, <2>3 DEF DispatchInv, Recorded, Live
  <2>5. /\ LogBindsOneToOne' /\ IndexBindsOneToOne' /\ IndexAgreesWithLog'
        /\ IndexIsJustified' /\ DownIsEmpty'
    BY DEF LogBindsOneToOne, IndexBindsOneToOne, IndexAgreesWithLog, IndexIsJustified, DownIsEmpty
  <2>6. SentIsRecorded' /\ UnsentNeverSent' /\ TailNotSent'
    BY DEF SentIsRecorded, UnsentNeverSent, TailNotSent
  <2>7. LiveOnce'
    BY <2>4 DEF LiveOnce
  <2>8. InFlight'
    BY DEF InFlight
  <2> QED BY <2>5, <2>6, <2>7, <2>8
<1> QED BY <1>2, <1>3

(* A request that is given up on, by a timeout or by a crash.              *)
LEMMA GivenUp ==
  ASSUME TypeOK, DispatchInv, pc = "wait", reply = "none", late' = late \cup {cur},
         UNCHANGED <<log, book, chain>>
  PROVE  /\ Placements' = Placements
         /\ LiveRefs' = IF cur.kind = "PlaceOrder" THEN LiveRefs \cup {cur.ref} ELSE LiveRefs
         /\ SentIsRecorded' /\ LiveOnce'
         /\ cur.kind = "PlaceOrder" => cur.ref \notin unsent_refs
         /\ chain # "whole"
<1>1. Placements' = Placements
  BY DEF Placements
<1>2. LiveRefs' = IF cur.kind = "PlaceOrder" THEN LiveRefs \cup {cur.ref} ELSE LiveRefs
  <2>1. LiveRefs' = {book'[i].ref : i \in DOMAIN book'}
              \cup {p.ref : p \in {p \in late' : p.kind = "PlaceOrder"}}
    BY DEF LiveRefs
  <2> QED BY <2>1 DEF LiveRefs
<1>3. /\ cur.kind = "PlaceOrder" => /\ <<cur.sig, cur.ref>> \in Placements
                                    /\ cur.ref \notin unsent_refs /\ cur.ref \notin LiveRefs
      /\ chain # "whole"
  BY DEF DispatchInv, InFlight, Recorded, Live
<1>4. SentIsRecorded'
  BY <1>1, <1>3 DEF DispatchInv, SentIsRecorded, Recorded
<1>5. LiveOnce'
  BY <1>3 DEF DispatchInv, LiveOnce, LiveRefs
<1> QED BY <1>1, <1>2, <1>3, <1>4, <1>5

LEMMA ReturnsPreserves ==
  ASSUME TypeOK, DispatchInv,
         Acked \/ (\E v \in {"do_not_retry", "other"} : Rejects(v)) \/ Ambiguous
  PROVE  DispatchInv'
<1>1. /\ pc = "wait" /\ pc' = "persist" /\ cur \in Request /\ verdict' # "none"
      /\ UNCHANGED <<log, chain, book, up, index, unsent_refs, minted, cur, reply>>
      /\ \/ late' = late
         \/ reply = "none" /\ late' = late \cup {cur}
  BY DEF Acked, Rejects, Ambiguous, Returns, TypeOK, disk, memory
<1>2. CASE late' = late
  <2>1. SameKeys
    BY <1>1, <1>2 DEF SameKeys
  <2>2. Placements' = Placements
    BY <1>1 DEF Placements
  <2>3. InFlight'
    BY <1>1, <2>2 DEF DispatchInv, InFlight, Recorded
  <2> QED BY <1>1, <2>1, <2>3, QuietStep
<1>3. CASE reply = "none" /\ late' = late \cup {cur}
  <2>1. /\ Placements' = Placements
        /\ LiveRefs' = IF cur.kind = "PlaceOrder" THEN LiveRefs \cup {cur.ref} ELSE LiveRefs
        /\ SentIsRecorded' /\ LiveOnce'
        /\ cur.kind = "PlaceOrder" => cur.ref \notin unsent_refs
        /\ chain # "whole"
    BY <1>1, <1>3, GivenUp
  <2> USE <1>1, <1>3, <2>1 DEF DispatchInv, Recorded, Live
  <2>2. /\ LogBindsOneToOne' /\ IndexBindsOneToOne' /\ IndexAgreesWithLog'
        /\ IndexIsJustified' /\ DownIsEmpty'
    BY DEF LogBindsOneToOne, IndexBindsOneToOne, IndexAgreesWithLog, IndexIsJustified, DownIsEmpty
  <2>3. UnsentNeverSent' /\ TailNotSent'
    BY DEF UnsentNeverSent, TailNotSent
  <2>4. InFlight'
    BY DEF InFlight
  <2> QED BY <2>1, <2>2, <2>3, <2>4
<1> QED BY <1>1, <1>2, <1>3

(* The Result record names no signal, so it binds nothing.                 *)
LEMMA RecordResultPreserves ==
  ASSUME TypeOK, DispatchInv, RecordResult PROVE DispatchInv'
<1>1. /\ pc = "result" /\ pc' = "idle" /\ reply' = "none" /\ verdict' = "none"
      /\ log \in Seq(Record) /\ CurRecord("Result") \in Record
      /\ \/ log' = log /\ (chain' # "whole" \/ chain' = chain)
         \/ log' = Append(log, CurRecord("Result"))
      /\ UNCHANGED <<book, late, up, index, unsent_refs, minted>>
  BY DEF RecordResult, AppendSynced, AppendFailed, Finish, TypeOK, CurRecord, Record, Request,
         remote, memory
<1>2. Placements' = Placements
  BY <1>1, PlacementsAfterAppend DEF CurRecord, Placements
<1>3. LiveRefs' = LiveRefs
  BY <1>1 DEF LiveRefs
<1>4. TailNotSent'
  <2>1. CASE log' = log
    BY <1>1, <1>3, <2>1 DEF DispatchInv, TailNotSent, Live
  <2>2. CASE log' = Append(log, CurRecord("Result"))
    <3>1. Len(log') > 0 /\ log'[Len(log')] = CurRecord("Result")
      BY <1>1, <2>2
    <3> QED BY <3>1 DEF TailNotSent, CurRecord
  <2> QED BY <1>1, <2>1, <2>2
<1> USE <1>1, <1>2, <1>3 DEF DispatchInv, Recorded, Live
<1>5. /\ LogBindsOneToOne' /\ IndexBindsOneToOne' /\ IndexAgreesWithLog'
      /\ IndexIsJustified' /\ DownIsEmpty'
  BY DEF LogBindsOneToOne, IndexBindsOneToOne, IndexAgreesWithLog, IndexIsJustified, DownIsEmpty
<1>6. SentIsRecorded' /\ UnsentNeverSent' /\ LiveOnce' /\ InFlight'
  BY DEF SentIsRecorded, UnsentNeverSent, LiveOnce, InFlight
<1> QED BY <1>4, <1>5, <1>6

(* What these steps leave alone.                                           *)
LEMMA QuietKeys ==
  ASSUME TypeOK,
         \/ \E s \in Signal, b \in 1 .. Len(book) : Modify(s, b) \/ Cancel(s, b) \/ SquareOff(s, b)
         \/ BrokerRefuses \/ PersistPlace \/ PersistModify \/ PersistCancel
         \/ \E b \in DOMAIN book, st \in Moves : BrokerMoves(b, st)
         \/ \E s \in Signal, saved \in BOOLEAN : Resolve(s, saved)
         \/ UNCHANGED vars
  PROVE  SameKeys /\ UNCHANGED <<log, chain, late, up, index, unsent_refs, minted>>
<1>1. UNCHANGED <<log, chain, late, up, index, unsent_refs, minted>>
  BY DEF Modify, Cancel, SquareOff, Touch, BrokerRefuses, PersistPlace, PersistModify,
         PersistCancel, BrokerMoves, Resolve, disk, remote, memory, vars
<1>2. SameKeys
  <2>1. CASE book' = book
    BY <1>1, <2>1 DEF SameKeys
  <2>2. ASSUME NEW b \in DOMAIN book, NEW st \in Moves, BrokerMoves(b, st) PROVE SameKeys
    <3>1. \A i \in DOMAIN book : book[i] \in Booked
      BY DEF TypeOK
    <3>2. DOMAIN book' = DOMAIN book
      BY <2>2 DEF BrokerMoves
    <3>3. ASSUME NEW i \in DOMAIN book
          PROVE  book'[i].ref = book[i].ref /\ book'[i].sig = book[i].sig
      BY <2>2, <3>1 DEF BrokerMoves, Booked
    <3> QED BY <1>1, <3>2, <3>3 DEF SameKeys
  <2> QED
    BY <2>1, <2>2 DEF Modify, Cancel, SquareOff, Touch, BrokerRefuses, PersistPlace, PersistModify,
       PersistCancel, Resolve, remote, vars
<1> QED BY <1>1, <1>2

(* The writes to the projection and the broker's own movements touch no    *)
(* binding and no placement.                                               *)
LEMMA QuietPreserves ==
  ASSUME TypeOK, DispatchInv,
         \/ \E s \in Signal, b \in 1 .. Len(book) : Modify(s, b) \/ Cancel(s, b) \/ SquareOff(s, b)
         \/ BrokerRefuses \/ PersistPlace \/ PersistModify \/ PersistCancel
         \/ \E b \in DOMAIN book, st \in Moves : BrokerMoves(b, st)
         \/ \E s \in Signal, saved \in BOOLEAN : Resolve(s, saved)
         \/ UNCHANGED vars
  PROVE  DispatchInv'
<1>1. UNCHANGED <<log, chain, late, up, index, unsent_refs, minted>>
  BY QuietKeys
<1>2. SameKeys
  BY QuietKeys
<1>3. LiveRefs' = LiveRefs /\ Placements' = Placements
  BY <1>1, <1>2, LiveRefsSame DEF Placements
<1>4. \/ UNCHANGED <<pc, cur, reply, verdict>>
      \/ pc' = "append" /\ cur'.kind # "PlaceOrder" /\ pc = "idle" /\ UNCHANGED <<reply, verdict>>
      \/ pc = "wait" /\ reply' # "none" /\ UNCHANGED <<pc, cur, verdict>>
      \/ pc = "persist" /\ pc' = "result" /\ UNCHANGED <<cur, reply, verdict>>
      \/ pc = "persist" /\ pc' = "idle" /\ reply' = "none" /\ verdict' = "none"
  <2>1. ASSUME NEW k \in {"ModifyOrder", "CancelOrder", "SquareOff"}, NEW s \in Signal,
               NEW b \in 1 .. Len(book), Touch(k, s, b)
        PROVE  /\ pc' = "append" /\ cur'.kind # "PlaceOrder" /\ pc = "idle"
               /\ UNCHANGED <<reply, verdict>>
    BY <2>1 DEF Touch, Start, Idle
  <2>2. CASE BrokerRefuses
    BY <2>2 DEF BrokerRefuses
  <2>3. CASE PersistPlace \/ PersistModify \/ PersistCancel
    BY <2>3 DEF PersistPlace, PersistModify, PersistCancel, Finish
  <2>4. ASSUME \/ \E b \in DOMAIN book, st \in Moves : BrokerMoves(b, st)
               \/ \E s \in Signal, saved \in BOOLEAN : Resolve(s, saved)
               \/ UNCHANGED vars
        PROVE  UNCHANGED <<pc, cur, reply, verdict>>
    BY <2>4 DEF BrokerMoves, Resolve, inflight, vars
  <2> QED BY <2>1, <2>2, <2>3, <2>4 DEF Modify, Cancel, SquareOff
<1>5. InFlight'
  BY <1>1, <1>3, <1>4 DEF DispatchInv, InFlight, Recorded, Live
<1>6. pc = "append" /\ cur.kind = "PlaceOrder" => pc' = "append" /\ cur' = cur
  BY <1>4
<1> QED BY <1>1, <1>2, <1>5, <1>6, QuietStep

(* A crash forgets the index and unsent_refs_; the log still has every     *)
(* placement that is live.                                                 *)
LEMMA CrashPreserves ==
  ASSUME TypeOK, DispatchInv, Crash PROVE DispatchInv'
<1>1. /\ up' = FALSE /\ index' = [s \in Signal |-> NoRef] /\ unsent_refs' = {}
      /\ pc' = "idle" /\ reply' = "none" /\ verdict' = "none"
      /\ UNCHANGED <<log, chain, book, minted>>
      /\ \/ late' = late
         \/ pc = "wait" /\ reply = "none" /\ late' = late \cup {cur}
  BY DEF Crash, Finish, disk
<1>2. /\ Placements' = Placements
      /\ SentIsRecorded' /\ LiveOnce'
      /\ LiveRefs' = LiveRefs \/ chain # "whole"
  <2>1. CASE late' = late
    BY <1>1, <2>1 DEF Placements, LiveRefs, DispatchInv, SentIsRecorded, LiveOnce, Recorded
  <2>2. CASE pc = "wait" /\ reply = "none" /\ late' = late \cup {cur}
    BY <1>1, <2>2, GivenUp
  <2> QED BY <1>1, <2>1, <2>2
<1> USE <1>1, <1>2 DEF DispatchInv, Recorded, Live
<1>3. LogBindsOneToOne' /\ IndexBindsOneToOne' /\ IndexAgreesWithLog' /\ IndexIsJustified'
  BY DEF LogBindsOneToOne, IndexBindsOneToOne, IndexAgreesWithLog, IndexIsJustified
<1>4. UnsentNeverSent' /\ InFlight' /\ DownIsEmpty'
  BY DEF UnsentNeverSent, InFlight, DownIsEmpty
<1>5. TailNotSent'
  BY DEF TailNotSent
<1> QED BY <1>2, <1>3, <1>4, <1>5

(* Replay: only a record that was never sent can be gone, and the rebuilt  *)
(* index is what the remaining records say.                                *)
LEMMA RestartPreserves ==
  ASSUME TypeOK, DispatchInv, Restart PROVE DispatchInv'
<1>1. /\ ~up /\ up' /\ chain # "broken" /\ chain' = "clean"
      /\ RebuildFromLog(log')
      /\ UNCHANGED <<book, late, unsent_refs, minted, pc, cur, reply, verdict>>
      /\ \/ log' = log
         \/ chain = "whole" /\ log' = SubSeq(log, 1, Len(log) - 1)
  BY DEF Restart, remote, inflight
<1>2. pc = "idle" /\ unsent_refs = {}
  BY <1>1 DEF TypeOK, DispatchInv, DownIsEmpty
<1>3. LiveRefs' = LiveRefs
  BY <1>1 DEF LiveRefs
<1>4. /\ Placements' \subseteq Placements
      /\ \A s \in Signal, r \in LiveRefs : <<s, r>> \in Placements => <<s, r>> \in Placements'
  <2>1. CASE log' = log
    BY <2>1 DEF Placements
  <2>2. CASE chain = "whole" /\ log' = SubSeq(log, 1, Len(log) - 1)
    <3>1. /\ log \in Seq(Record) /\ Len(log) > 0
          /\ log[Len(log)].op = "PlaceOrder" => log[Len(log)].ref \notin LiveRefs
      BY <2>2 DEF TypeOK, DispatchInv, TailNotSent, Live
    <3> QED BY <2>2, <3>1, PlacementsAfterCut
  <2> QED BY <1>1, <2>1, <2>2
<1>5. ASSUME NEW s \in Signal
      PROVE  /\ index'[s] \in Ref \cup {NoRef}
             /\ index'[s] # NoRef => <<s, index'[s]>> \in Placements'
             /\ \A r \in Ref : <<s, r>> \in Placements' => index'[s] # NoRef
  <2>1. Placements' = {<<log'[i].sig, log'[i].ref>> :
                         i \in {j \in DOMAIN log' : log'[j].op = "PlaceOrder"}}
    BY DEF Placements
  <2>3. index'[s] \in Ref \cup {NoRef}
    BY <1>1 DEF RebuildFromLog
  <2>4. CASE OwnedBy(log', s, index'[s])
    <3>1. <<s, index'[s]>> \in Placements'
      BY <2>1, <2>4 DEF OwnedBy
    <3>2. index'[s] # NoRef
      <4>1. \A p \in Placements : \E t \in Signal, r \in Ref : p = <<t, r>>
        BY PlacementsType
      <4> QED BY <1>4, <3>1, <4>1, ConstantsAssumption
    <3> QED BY <2>3, <3>1, <3>2
  <2>5. CASE /\ index'[s] = NoRef
             /\ ~ \E i \in DOMAIN log' : log'[i].op = "PlaceOrder" /\ log'[i].sig = s
    BY <2>1, <2>5
  <2> QED BY <1>1, <2>4, <2>5 DEF RebuildFromLog
<1>6. LogBindsOneToOne'
  BY <1>4 DEF LogBindsOneToOne, DispatchInv, Recorded
<1>7. ASSUME NEW s \in Signal, index'[s] # NoRef
      PROVE  index'[s] \in Ref /\ <<s, index'[s]>> \in Placements /\ <<s, index'[s]>> \in Placements'
  <2>1. index'[s] \in Ref /\ <<s, index'[s]>> \in Placements'
    BY <1>5, <1>7
  <2> QED BY <1>4, <2>1
<1>8. LogBindsOneToOne /\ IndexBindsOneToOne
  BY DEF DispatchInv
<1>9. IndexAgreesWithLog'
  <2>1. SUFFICES ASSUME NEW s \in Signal, NEW r \in Ref, <<s, r>> \in Placements'
                 PROVE  index'[s] = r
    BY DEF IndexAgreesWithLog, Recorded
  <2>2. index'[s] # NoRef
    BY <1>5, <2>1
  <2>3. index'[s] \in Ref /\ <<s, index'[s]>> \in Placements /\ <<s, r>> \in Placements
    BY <1>4, <1>7, <2>1, <2>2
  <2> QED BY <1>8, <2>3 DEF LogBindsOneToOne, Recorded
<1>10. IndexBindsOneToOne'
  <2>1. ASSUME NEW s \in Signal, NEW t \in Signal, index'[s] # NoRef, index'[s] = index'[t]
        PROVE  s = t
    <3>1. index'[s] \in Ref /\ <<s, index'[s]>> \in Placements /\ <<t, index'[s]>> \in Placements
      BY <1>7, <2>1
    <3> QED BY <1>8, <3>1 DEF LogBindsOneToOne, Recorded
  <2>2. ASSUME NEW s \in Signal, index'[s] # NoRef
        PROVE  index'[s] \in minted'
    <3>1. index'[s] \in Ref /\ <<s, index'[s]>> \in Placements
      BY <1>7, <2>2
    <3> QED BY <1>1, <1>8, <3>1 DEF IndexBindsOneToOne, Recorded
  <2>3. \A s \in Signal, r \in Ref : <<s, r>> \in Placements' => r \in minted'
    BY <1>1, <1>4, <1>8 DEF IndexBindsOneToOne, Recorded
  <2> QED BY <2>1, <2>2, <2>3 DEF IndexBindsOneToOne, Recorded
<1>11. IndexIsJustified'
  BY <1>7 DEF IndexIsJustified, Recorded
<1>12. UnsentNeverSent' /\ DownIsEmpty' /\ TailNotSent'
  BY <1>1, <1>2 DEF UnsentNeverSent, DownIsEmpty, TailNotSent
<1>13. InFlight'
  <2>1. pc' = "idle" /\ reply' = reply /\ verdict' = verdict
    BY <1>1, <1>2
  <2>2. reply = "none" /\ verdict = "none"
    BY <1>2 DEF DispatchInv, InFlight
  <2> QED BY <2>1, <2>2 DEF InFlight
<1>14. SentIsRecorded' /\ LiveOnce'
  <2>1. \A i \in DOMAIN book : book[i].sig \in Signal /\ book[i].ref \in LiveRefs
    <3>1. \A i \in DOMAIN book : book[i] \in Booked
      BY DEF TypeOK
    <3> QED BY <3>1 DEF Booked, LiveRefs
  <2>2. \A q \in late : q.sig \in Signal /\ (q.kind = "PlaceOrder" => q.ref \in LiveRefs)
    BY DEF TypeOK, Request, LiveRefs
  <2> QED BY <1>1, <1>4, <2>1, <2>2 DEF SentIsRecorded, LiveOnce, DispatchInv, Recorded
<1> QED BY <1>6, <1>9, <1>10, <1>11, <1>12, <1>13, <1>14 DEF DispatchInv

-----------------------------------------------------------------------------
LEMMA InvInitially == Init => DispatchInv
<1> SUFFICES ASSUME Init PROVE DispatchInv
  OBVIOUS
<1>1. Placements = {} /\ LiveRefs = {}
  BY DEF Init, Placements, LiveRefs
<1> QED
  BY <1>1 DEF Init, DispatchInv, LogBindsOneToOne, IndexBindsOneToOne, IndexAgreesWithLog,
     IndexIsJustified, SentIsRecorded, UnsentNeverSent, LiveOnce, InFlight, TailNotSent,
     DownIsEmpty, Recorded, Live

LEMMA InvPreserved == TypeOK /\ DispatchInv /\ [Next]_vars => DispatchInv'
<1> SUFFICES ASSUME TypeOK, DispatchInv, [Next]_vars PROVE DispatchInv'
  OBVIOUS
<1>1. CASE Caller
  BY <1>1, PlacePreserves, QuietPreserves DEF Caller
<1>2. CASE Step
  BY <1>2, RecordIntentPreserves, RecordIntentFailsPreserves, ReturnsPreserves,
     QuietPreserves, RecordResultPreserves DEF Step
<1>3. CASE Broker
  BY <1>3, AcceptPreserves, LatePreserves, QuietPreserves DEF Broker
<1>4. CASE \E s \in Signal, saved \in BOOLEAN : Resolve(s, saved)
  BY <1>4, QuietPreserves
<1>5. CASE Crash \/ Restart
  BY <1>5, CrashPreserves, RestartPreserves
<1>6. CASE UNCHANGED vars
  BY <1>6, QuietPreserves
<1> QED BY <1>1, <1>2, <1>3, <1>4, <1>5, <1>6 DEF Next

(* The inductive invariant holds in every reachable state, for every set   *)
(* of signals and refs and every bound.                                    *)
THEOREM InvCorrect == Spec => []DispatchInv
BY TypeInitially, TypePreserved, InvInitially, InvPreserved, PTL DEF Spec

(* The duplicate-submit guard: the broker never has, and never gets, two   *)
(* orders for one signal.                                                  *)
THEOREM NoDuplicateOrders == Spec => []AtMostOneOrderPerSignal
<1>1. TypeOK /\ DispatchInv => AtMostOneOrderPerSignal
  <2> SUFFICES ASSUME TypeOK, DispatchInv PROVE AtMostOneOrderPerSignal
    OBVIOUS
  <2>1. \A i \in DOMAIN book : book[i] \in Booked
    BY DEF TypeOK
  <2>2. \A q \in late : q \in Request
    BY DEF TypeOK
  <2> QED
    BY <2>1, <2>2 DEF AtMostOneOrderPerSignal, DispatchInv, SentIsRecorded, LogBindsOneToOne,
       LiveOnce, Booked, Request
<1> QED BY <1>1, TypeCorrect, InvCorrect, PTL

(* Record before send: whatever is live at the broker is in the log.       *)
THEOREM RecordBeforeSend == Spec => []SentIsRecorded
<1>1. DispatchInv => SentIsRecorded
  BY DEF DispatchInv
<1> QED BY <1>1, InvCorrect, PTL

(* A synthesized UNKNOWN answer always stands for a recorded intent.       *)
THEOREM UnknownAnswersAreHonest == Spec => []UnknownAnswerIsRecorded
<1>1. DispatchInv => UnknownAnswerIsRecorded
  BY DEF DispatchInv, IndexIsJustified, UnknownAnswerIsRecorded, SynthesizedUnknown, Idle
<1> QED BY <1>1, InvCorrect, PTL

(* Resuming a ref of unsent_refs_ can never place a second order.          *)
THEOREM ResumeIsSafe == Spec => []UnsentNeverSent
<1>1. DispatchInv => UnsentNeverSent
  BY DEF DispatchInv
<1> QED BY <1>1, InvCorrect, PTL

-----------------------------------------------------------------------------
(* The rows of the projection.  b is the broker's id of the order of r.    *)
Own(b, r) == b \in DOMAIN book /\ book[b].ref = r

(* The resolver's third rung can be trusted: no two signals look the same, *)
(* or fetched orders carry no attributes to compare.                       *)
AttrTellsApart == ReportsAttr => \A s, t \in Signal : Attr[s] = Attr[t] => s = t

BookStates == \A i \in DOMAIN book : book[i].state \in {"Sent", "Filled", "Cancelled"}

(* A placement in flight has no row yet; its answer and its verdict say    *)
(* whether its order is live, and anything else names an order that is its *)
(* own or looks like it.                                                   *)
RequestIsOwn ==
  /\ pc \in {"append", "wait", "persist"} /\ cur.kind = "PlaceOrder" => ~HasRow(cur.ref)
  /\ pc # "idle" /\ cur.kind = "PlaceOrder" =>
       /\ reply = "ok" => Own(cur.bid, cur.ref)
       /\ reply # "ok" /\ verdict # "unknown" => ~Live(cur.ref)
  /\ pc # "idle" /\ cur.kind # "PlaceOrder" => OwnOrAlike(cur.bid, cur.ref)

VerdictIsFounded ==
  /\ verdict = "ack" => reply = "ok"
  /\ verdict \in {"do_not_retry", "other"} => reply # "ok"
  /\ pc = "persist" => verdict # "none"

(* Every row is of a recorded intent, and the unsynced record a failed     *)
(* append left behind has no row: cutting it off forgets no row's signal.  *)
RowIsRecorded == \A r \in Ref : HasRow(r) => \E s \in Signal : Recorded(s, r)

TailHasNoRow ==
  chain = "whole" /\ Len(log) > 0 /\ log[Len(log)].op = "PlaceOrder" => ~HasRow(log[Len(log)].ref)

(* A Filled or Cancelled row agrees with an order it cannot be told from.  *)
TerminalAgreesWithAlike ==
  \A r \in Ref : store[r].state \in {"Filled", "Cancelled"} =>
    \E b \in DOMAIN book : OwnOrAlike(b, r) /\ book[b].state = store[r].state

RowInv ==
  /\ BookStates /\ RequestIsOwn /\ VerdictIsFounded /\ RowIsRecorded /\ TailHasNoRow
  /\ RejectedIsNotLive /\ AdoptedIsOwnOrAlike /\ TerminalAgreesWithAlike

(* The book only grows, keeps the refs of its orders, and never moves an   *)
(* order that has ended.                                                   *)
BookGrows ==
  /\ DOMAIN book \subseteq DOMAIN book'
  /\ \A i \in DOMAIN book : /\ book'[i].ref = book[i].ref /\ book'[i].sig = book[i].sig
                            /\ book[i].state \in Terminal => book'[i].state = book[i].state

LEMMA ServedGrows ==
  ASSUME TypeOK, BookStates, NEW q \in Request, book' = Served(q)
  PROVE  BookGrows /\ BookStates'
<1>1. book \in Seq(Booked) /\ \A i \in DOMAIN book : book[i] \in Booked
  BY DEF TypeOK
<1>2. CASE q.kind = "PlaceOrder"
  <2>1. book' = Append(book, [ref |-> q.ref, sig |-> q.sig, state |-> "Sent", filled |-> 0])
    BY <1>2 DEF Served
  <2>2. /\ DOMAIN book' = DOMAIN book \cup {Len(book) + 1}
        /\ \A i \in DOMAIN book : book'[i] = book[i]
        /\ book'[Len(book) + 1].state = "Sent"
    BY <1>1, <2>1
  <2> QED BY <2>2 DEF BookGrows, BookStates
<1>3. CASE q.kind \in {"CancelOrder", "SquareOff"} /\ Working(q.bid)
  <2>1. book' = [book EXCEPT ![q.bid].state = "Cancelled"]
    BY <1>3 DEF Served
  <2> QED BY <1>1, <1>3, <2>1 DEF BookGrows, BookStates, Working, Booked
<1>4. CASE q.kind # "PlaceOrder" /\ ~(q.kind \in {"CancelOrder", "SquareOff"} /\ Working(q.bid))
  BY <1>4 DEF Served, BookGrows, BookStates
<1> QED BY <1>2, <1>3, <1>4

LEMMA BookOnlyGrows == TypeOK /\ BookStates /\ [Next]_vars => BookGrows /\ BookStates'
<1> SUFFICES ASSUME TypeOK, BookStates, [Next]_vars PROVE BookGrows /\ BookStates'
  OBVIOUS
<1>1. CASE book' = book
  BY <1>1 DEF BookGrows, BookStates
<1>2. CASE BrokerAccepts
  <2>1. cur \in Request /\ book' = Served(cur)
    BY <1>2 DEF BrokerAccepts, TypeOK
  <2> QED BY <2>1, ServedGrows
<1>3. ASSUME NEW q \in late, LateArrival(q) PROVE BookGrows /\ BookStates'
  <2>1. q \in Request /\ (book' = Served(q) \/ book' = book)
    BY <1>3 DEF LateArrival, TypeOK
  <2> QED BY <1>1, <2>1, ServedGrows
<1>4. ASSUME NEW b \in DOMAIN book, NEW st \in Moves, BrokerMoves(b, st) PROVE BookGrows /\ BookStates'
  <2>1. \A i \in DOMAIN book : book[i] \in Booked
    BY DEF TypeOK
  <2>2. DOMAIN book' = DOMAIN book /\ st \in {"Sent", "Filled", "Cancelled"} /\ book[b].state \notin Terminal
    BY <1>4, ConstantsAssumption DEF BrokerMoves, Working
  <2>3. ASSUME NEW i \in DOMAIN book
        PROVE  /\ book'[i].ref = book[i].ref /\ book'[i].sig = book[i].sig
               /\ IF i = b THEN book'[i].state = st ELSE book'[i].state = book[i].state
    BY <1>4, <2>1 DEF BrokerMoves, Booked
  <2> QED BY <2>2, <2>3 DEF BookGrows, BookStates
<1>5. CASE Caller \/ Crash \/ Restart \/ UNCHANGED vars
  BY <1>1, <1>5 DEF Caller, Place, Modify, Cancel, SquareOff, Touch, Crash, Restart, remote, vars
<1>6. CASE Step
  BY <1>1, <1>6 DEF Step, RecordIntent, RecordIntentFails, Acked, Rejects, Ambiguous, Returns,
     PersistPlace, PersistModify, PersistCancel, RecordResult, remote
<1>7. CASE BrokerRefuses \/ \E s \in Signal, saved \in BOOLEAN : Resolve(s, saved)
  BY <1>1, <1>7 DEF BrokerRefuses, Resolve, remote
<1> QED BY <1>2, <1>3, <1>4, <1>5, <1>6, <1>7 DEF Next, Broker

(* A ref becomes live only as the placement in flight that the broker has  *)
(* not answered.                                                           *)
GoesLive(r) == pc = "wait" /\ reply = "none" /\ cur.kind = "PlaceOrder" /\ r = cur.ref

LEMMA OnlyInFlightGoesLive ==
  ASSUME TypeOK, [Next]_vars, NEW r, Live(r)', ~GoesLive(r)
  PROVE  Live(r)
<1>0. /\ \A x : Live(x) <=> \/ \E i \in DOMAIN book : book[i].ref = x
                            \/ \E q \in late : q.kind = "PlaceOrder" /\ q.ref = x
      /\ \/ \E i \in DOMAIN book' : book'[i].ref = r
         \/ \E q \in late' : q.kind = "PlaceOrder" /\ q.ref = r
  BY DEF Live, LiveRefs
<1>1. CASE SameKeys
  BY <1>1, LiveRefsSame DEF Live
<1>2. CASE BrokerAccepts
  <2>1. cur \in Request /\ book' = Served(cur) /\ late' = late /\ pc = "wait" /\ reply = "none"
    BY <1>2 DEF BrokerAccepts, TypeOK
  <2>2. CASE cur.kind = "PlaceOrder"
    <3>1. /\ DOMAIN book' = DOMAIN book \cup {Len(book) + 1}
          /\ \A i \in DOMAIN book : book'[i] = book[i]
          /\ book'[Len(book) + 1].ref = cur.ref
      BY <2>1, <2>2, ServedPlacement
    <3>2. r # cur.ref
      BY <2>1, <2>2 DEF GoesLive
    <3> QED BY <1>0, <2>1, <3>1, <3>2
  <2>3. CASE cur.kind # "PlaceOrder"
    BY <1>1, <2>1, <2>3, ServedKeys DEF SameKeys
  <2> QED BY <2>2, <2>3
<1>3. ASSUME NEW q \in late, LateArrival(q) PROVE Live(r)
  <2>1. q \in Request /\ late' = late \ {q} /\ book' = IF Acceptable(q) THEN Served(q) ELSE book
    BY <1>3 DEF LateArrival, TypeOK
  <2>2. CASE q.kind = "PlaceOrder"
    <3>1. Acceptable(q)
      BY <2>2, Zenon DEF Acceptable
    <3>2. book' = Served(q)
      BY <2>1, <3>1
    <3>3. /\ DOMAIN book' = DOMAIN book \cup {Len(book) + 1}
          /\ \A i \in DOMAIN book : book'[i] = book[i]
          /\ book'[Len(book) + 1].ref = q.ref
      BY <2>1, <2>2, <3>2, ServedPlacement
    <3> QED BY <1>0, <2>1, <2>2, <3>3
  <2>3. CASE q.kind # "PlaceOrder" /\ book' = book
    BY <1>1, <2>1, <2>3 DEF SameKeys
  <2>4. CASE q.kind # "PlaceOrder" /\ book' = Served(q)
    BY <1>1, <2>1, <2>4, ServedKeys DEF SameKeys
  <2> QED BY <2>1, <2>2, <2>3, <2>4
<1>4. CASE book' = book /\ late' \subseteq late \cup {cur} /\ (late' # late => pc = "wait" /\ reply = "none")
  BY <1>0, <1>4 DEF GoesLive
<1>5. CASE Ambiguous
  BY <1>4, <1>5 DEF Ambiguous, Returns
<1>6. CASE Crash
  BY <1>4, <1>6 DEF Crash, remote
<1>7. CASE \/ \E s \in Signal : Place(s)
           \/ RecordIntent \/ RecordIntentFails \/ RecordResult
           \/ Acked \/ (\E v \in {"do_not_retry", "other"} : Rejects(v)) \/ Restart
  BY <1>4, <1>7 DEF Place, RecordIntent, RecordIntentFails, RecordResult, Acked, Rejects, Returns,
     Restart, remote
<1>8. CASE \/ \E s \in Signal, b \in 1 .. Len(book) : Modify(s, b) \/ Cancel(s, b) \/ SquareOff(s, b)
           \/ BrokerRefuses \/ PersistPlace \/ PersistModify \/ PersistCancel
           \/ \E b \in DOMAIN book, st \in Moves : BrokerMoves(b, st)
           \/ \E s \in Signal, saved \in BOOLEAN : Resolve(s, saved)
           \/ UNCHANGED vars
  BY <1>1, <1>8, QuietKeys
<1> QED BY <1>2, <1>3, <1>5, <1>6, <1>7, <1>8 DEF Next, Caller, Step, Broker

(* How a row may change: by the mutation in flight, by the resolver, or    *)
(* with the whole projection.                                              *)
Resolved(s, b) == [Adopted(index[s], b).order EXCEPT !.bid = IF @ = NoBid THEN b ELSE @]

RowChange(r) ==
  \/ store'[r] = store[r] \/ store'[r] = NoRow
  \/ pc = "persist" /\ cur.kind = "PlaceOrder" /\ r = cur.ref /\ store'[r] = PlacedOrder.order
  \/ /\ pc = "persist" /\ cur.kind = "ModifyOrder" /\ r = cur.ref /\ store'[r] = ModifiedOrder
     /\ verdict \in {"ack", "unknown"}
  \/ /\ pc = "persist" /\ MarksUnknown /\ r = cur.ref
     /\ store'[r] = [store[r] EXCEPT !.state = "Unknown"]
  \/ \E s \in Signal : \E b \in classify(s) :
       Unresolved(s) /\ r = index[s] /\ store'[r] = Resolved(s, b)

LEMMA RowsChange ==
  ASSUME TypeOK, [Next]_vars, NEW r \in Ref
  PROVE  RowChange(r)
<1>0. store \in [Ref -> Orders \cup {NoRow}]
  BY DEF TypeOK
<1>1. CASE store' = store
  BY <1>1 DEF RowChange
<1>2. CASE PersistPlace
  BY <1>0, <1>1, <1>2 DEF PersistPlace, RowChange
<1>3. CASE PersistModify
  <2>1. CASE store' = [store EXCEPT ![cur.ref] = ModifiedOrder] /\ verdict \in {"ack", "unknown"}
    BY <1>0, <1>3, <2>1 DEF PersistModify, RowChange
  <2> QED BY <1>1, <1>3, <2>1 DEF PersistModify
<1>4. CASE PersistCancel
  <2>1. CASE MarksUnknown /\ store' = [store EXCEPT ![cur.ref].state = "Unknown"]
    BY <1>0, <1>4, <2>1 DEF PersistCancel, RowChange
  <2> QED BY <1>1, <1>4, <2>1 DEF PersistCancel
<1>5. ASSUME NEW s \in Signal, NEW saved \in BOOLEAN, Resolve(s, saved) PROVE RowChange(r)
  <2>1. PICK b \in classify(s) :
          \/ store' = store
          \/ store' = [store EXCEPT ![index[s]] = Resolved(s, b)]
    BY <1>5 DEF Resolve, Resolved
  <2>2. Unresolved(s)
    BY <1>5 DEF Resolve
  <2>3. CASE store' = [store EXCEPT ![index[s]] = Resolved(s, b)]
    <3> HIDE DEF Resolved
    <3>1. store'[r] = IF r = index[s] THEN Resolved(s, b) ELSE store[r]
      BY <1>0, <2>3
    <3> QED BY <2>2, <3>1 DEF RowChange
  <2> QED BY <1>1, <2>1, <2>3
<1>6. CASE Restart
  BY <1>1, <1>6 DEF Restart, RowChange
<1>7. CASE Caller \/ Broker \/ Crash \/ UNCHANGED vars
  BY <1>1, <1>7 DEF Caller, Place, Modify, Cancel, SquareOff, Touch, Broker, BrokerAccepts,
     BrokerRefuses, LateArrival, BrokerMoves, Crash, disk, vars
<1>8. CASE RecordIntent \/ RecordIntentFails \/ RecordResult \/ Acked \/ Ambiguous
           \/ \E v \in {"do_not_retry", "other"} : Rejects(v)
  BY <1>1, <1>8 DEF RecordIntent, RecordIntentFails, RecordResult, Acked, Rejects, Ambiguous, Returns, disk
<1> QED BY <1>2, <1>3, <1>4, <1>5, <1>6, <1>7, <1>8 DEF Next, Step

(* What LifecycleEngine::apply may make of a row that is not terminal.     *)
LEMMA ApplyOutcome ==
  ASSUME NEW o \in Orders, NEW k, NEW v \in Views
  PROVE  /\ apply(o, k, v).order.state = o.state
            \/ apply(o, k, v).order.state = canonical_observed(o.state, v)
         /\ apply(o, k, v).order.bid = o.bid \/ apply(o, k, v).order.bid = v.bid
         /\ apply(o, k, v).order \in Orders
<1>1. canonical_observed(o.state, v) \in OrderState
  BY DEF canonical_observed, Views, OrderState
<1>2. Observed(o, v) \in Orders
  BY <1>1 DEF Observed, Orders, Views
<1>3. /\ Observed(o, v).state = canonical_observed(o.state, v)
      /\ Observed(o, v).bid = o.bid \/ Observed(o, v).bid = v.bid
  BY DEF Observed
<1>4. apply(o, k, v).order = o \/ apply(o, k, v).order = Observed(o, v)
  BY DEF apply
<1> QED BY <1>2, <1>3, <1>4

LEMMA PlacedRow ==
  ASSUME TypeOK, pc = "persist", VerdictIsFounded
  PROVE  /\ PlacedOrder.order.state = "Rejected" => verdict \in {"do_not_retry", "other"}
         /\ PlacedOrder.order.state \notin {"Filled", "Cancelled"}
         /\ PlacedOrder.order.bid # NoBid => verdict = "ack" /\ PlacedOrder.order.bid = cur.bid
         /\ PlacedOrder.order # NoRow
<1>0. cur \in Request /\ cur.bid \in Nat
  BY DEF TypeOK, Request
<1>1. CASE verdict = "ack"
  <2> DEFINE o == [state |-> "Sent", filled |-> 0, bid |-> NoBid]
             v == [state |-> "Acknowledged", filled |-> 0, bid |-> cur.bid, key |-> 1]
  <2>1. PlacedOrder = apply(o, last_key[cur.ref], v)
    BY <1>1, Zenon DEF PlacedOrder
  <2>2. o \in Orders /\ v \in Views /\ o.state = "Sent" /\ o.bid = NoBid /\ v.bid = cur.bid
    BY <1>0 DEF Orders, Views, OrderState, NoBid
  <2>3. canonical_observed("Sent", v) = "Acknowledged"
    BY DEF canonical_observed
  <2> HIDE DEF o, v
  <2>4. /\ PlacedOrder.order.state \in {"Sent", "Acknowledged"}
        /\ PlacedOrder.order.bid \in {NoBid, cur.bid}
    BY <2>1, <2>2, <2>3, ApplyOutcome
  <2> QED BY <1>1, <2>4 DEF NoRow
<1>2. CASE verdict = "unknown"
  <2>1. PlacedOrder.order = [state |-> "Unknown", filled |-> 0, bid |-> NoBid]
    <3>1. PlacedOrder = [order |-> [state |-> "Unknown", filled |-> 0, bid |-> NoBid],
                         key |-> last_key[cur.ref]]
      BY <1>2, verdict # "ack", Zenon DEF PlacedOrder
    <3> QED BY <3>1
  <2> QED BY <2>1 DEF NoRow
<1>3. CASE verdict \in {"do_not_retry", "other"}
  <2>1. PlacedOrder.order = [state |-> "Rejected", filled |-> 0, bid |-> NoBid]
    <3>1. PlacedOrder = [order |-> [state |-> "Rejected", filled |-> 0, bid |-> NoBid],
                         key |-> last_key[cur.ref]]
      BY <1>3, verdict # "ack", verdict # "unknown", Zenon DEF PlacedOrder
    <3> QED BY <3>1
  <2> QED BY <1>3, <2>1 DEF NoRow
<1>4. verdict \in {"ack", "unknown", "do_not_retry", "other"}
  BY DEF TypeOK, VerdictIsFounded
<1> QED BY <1>1, <1>2, <1>3, <1>4

LEMMA ModifiedRow ==
  ASSUME TypeOK, pc = "persist"
  PROVE  /\ ModifiedOrder.bid = cur.bid /\ ModifiedOrder # NoRow
         /\ \/ ModifiedOrder.state \in {"Unknown", "Acknowledged"}
            \/ HasRow(cur.ref) /\ ModifiedOrder.state = store[cur.ref].state
         /\ HasRow(cur.ref) /\ verdict = "ack" /\ is_terminal(store[cur.ref].state)
              => ModifiedOrder.state = store[cur.ref].state
         /\ verdict = "unknown" => ModifiedOrder.state = "Unknown"
<1> DEFINE base == IF HasRow(cur.ref) THEN store[cur.ref]
                   ELSE [state |-> "Acknowledged", filled |-> 0, bid |-> NoBid]
           preack == {"Unknown", "Created", "Validated", "PendingSend", "Sent"}
           st == CASE verdict = "unknown" -> "Unknown"
                   [] verdict = "ack" /\ base.state \in preack -> "Acknowledged"
                   [] OTHER -> base.state
           mid == [base EXCEPT !.bid = cur.bid]
<1>1. cur.ref \in Ref /\ cur.bid \in Nat
  BY DEF TypeOK, Request
<1>2. base \in Orders
  BY <1>1, RowIsOrder DEF Orders, OrderState, NoBid
<1>3. /\ HasRow(cur.ref) => base = store[cur.ref]
      /\ ~HasRow(cur.ref) => base.state = "Acknowledged"
  OBVIOUS
<1>4. ModifiedOrder = [base EXCEPT !.bid = cur.bid, !.state = st]
  BY DEF ModifiedOrder
<1> HIDE DEF base
<1>5. CASE verdict = "unknown"
  <2>1. st = "Unknown"
    BY <1>5, verdict # "ack", Zenon
  <2>2. ModifiedOrder.bid = cur.bid /\ ModifiedOrder.state = "Unknown" /\ DOMAIN ModifiedOrder = DOMAIN base
    <3> HIDE DEF st
    <3> QED BY <1>2, <1>4, <2>1 DEF Orders
  <2>3. "bid" \in DOMAIN ModifiedOrder /\ "bid" \notin DOMAIN NoRow
    BY <1>2, <2>2 DEF Orders, NoRow
  <2> QED BY <1>5, <2>2, <2>3
<1>6. CASE verdict # "unknown"
  <2>1. \/ st = "Acknowledged" /\ base.state \in preack
        \/ st = base.state
    <3>1. CASE verdict = "ack" /\ base.state \in preack
      BY <1>6, <3>1, Zenon
    <3>2. CASE ~(verdict = "ack" /\ base.state \in preack)
      BY <1>6, <3>2, Zenon
    <3> QED BY <3>1, <3>2
  <2>2. ModifiedOrder.bid = cur.bid /\ ModifiedOrder.state = st /\ DOMAIN ModifiedOrder = DOMAIN base
    <3> HIDE DEF st
    <3> QED BY <1>2, <1>4 DEF Orders
  <2>3. "bid" \in DOMAIN ModifiedOrder /\ "bid" \notin DOMAIN NoRow
    BY <1>2, <2>2 DEF Orders, NoRow
  <2> HIDE DEF st
  <2> QED BY <1>3, <1>6, <2>1, <2>2, <2>3 DEF is_terminal, Terminal
<1> QED BY <1>5, <1>6

(* UnknownResolver::classify names the signal's own order, or on the third *)
(* rung one of the same attributes.                                        *)
LEMMA ClassifyIsAlike ==
  ASSUME TypeOK, DispatchInv, AdoptedIsOwnOrAlike, RowIsRecorded,
         NEW s \in Signal, Unresolved(s), NEW b \in classify(s)
  PROVE  index[s] \in Ref /\ HasRow(index[s]) /\ OwnOrAlike(b, index[s])
<1>1. index[s] \in Ref /\ up /\ store[index[s]].state = "Unknown" /\ index[s] # NoRef
  BY DEF Unresolved, Idle, TypeOK
<1>2. HasRow(index[s])
  BY <1>1 DEF HasRow, NoRow
<1>3. DOMAIN book = 1 .. Len(book) /\ Len(book) \in Nat /\ \A i \in DOMAIN book : book[i] \in Booked
  BY DEF TypeOK
<1>4. CASE b \in IdMatch(s)
  <2>1. b \in DOMAIN book /\ b = store[index[s]].bid
    BY <1>4 DEF IdMatch
  <2>2. b # NoBid
    BY <1>3, <2>1 DEF NoBid
  <2> QED BY <1>1, <1>2, <2>1, <2>2 DEF AdoptedIsOwnOrAlike
<1>5. CASE b \in TokenMatch(s)
  BY <1>1, <1>2, <1>5, ConstantsAssumption DEF TokenMatch, ReportedRef, OwnOrAlike
<1>6. CASE b \in AttrMatch(s)
  <2>1. b \in DOMAIN book /\ ReportsAttr /\ Attr[book[b].sig] = Attr[s]
    BY <1>6 DEF AttrMatch
  <2>2. PICK t \in Signal : Recorded(t, index[s])
    BY <1>1, <1>2 DEF RowIsRecorded
  <2>3. index[t] = index[s]
    BY <1>1, <2>2 DEF DispatchInv, IndexAgreesWithLog
  <2>4. t = s
    BY <1>1, <2>3 DEF DispatchInv, IndexBindsOneToOne
  <2> QED BY <1>1, <1>2, <2>1, <2>2, <2>4 DEF OwnOrAlike
<1> QED BY <1>4, <1>5, <1>6 DEF classify

LEMMA ResolvedRow ==
  ASSUME TypeOK, BookStates, NEW s \in Signal, Unresolved(s), index[s] \in Ref, HasRow(index[s]),
         NEW b \in DOMAIN book
  PROVE  /\ \/ Resolved(s, b).state \in {"Unknown", "Acknowledged", "PartiallyFilled"}
            \/ Resolved(s, b).state \in {"Filled", "Cancelled"} /\ Resolved(s, b).state = book[b].state
         /\ Resolved(s, b).bid = b \/ Resolved(s, b).bid = store[index[s]].bid
<1> DEFINE r == index[s]
           v == [state |-> book[b].state, filled |-> book[b].filled, bid |-> b,
                 key |-> IF last_key[r] = NoKey THEN 1 ELSE last_key[r] + 1]
           a == apply(store[r], last_key[r], v).order
<1>1. store[r] \in Orders /\ store[r].state = "Unknown"
  BY RowIsOrder DEF Unresolved
<1>2. book[b] \in Booked /\ b \in Nat /\ book[b].state \in {"Sent", "Filled", "Cancelled"}
  <2>1. Len(book) \in Nat /\ DOMAIN book = 1 .. Len(book)
    BY DEF TypeOK
  <2> QED BY <2>1 DEF TypeOK, BookStates
<1>3. (IF last_key[r] = NoKey THEN 1 ELSE last_key[r] + 1) \in Nat
  BY DEF TypeOK, NoKey
<1>4. v \in Views /\ v.bid = b /\ v.state = book[b].state
  BY <1>2, <1>3 DEF Views, Booked
<1>5. \/ canonical_observed("Unknown", v) \in {"Acknowledged", "PartiallyFilled"}
      \/ canonical_observed("Unknown", v) = book[b].state /\ book[b].state \in {"Filled", "Cancelled"}
  BY <1>2, <1>4 DEF canonical_observed, sent_means_still_working
<1>6. Adopted(r, b).order = a
  BY DEF Adopted
<1> HIDE DEF r, v
<1>7. /\ a \in Orders
      /\ a.state = "Unknown" \/ a.state = canonical_observed("Unknown", v)
      /\ a.bid = store[r].bid \/ a.bid = b
  BY <1>1, <1>4, ApplyOutcome
<1>8. Resolved(s, b) = [a EXCEPT !.bid = IF @ = NoBid THEN b ELSE @]
  BY <1>6 DEF Resolved, r
<1> HIDE DEF a
<1>9. Resolved(s, b).state = a.state /\ (Resolved(s, b).bid = a.bid \/ Resolved(s, b).bid = b)
  BY <1>7, <1>8 DEF Orders
<1> QED BY <1>5, <1>7, <1>9 DEF r

-----------------------------------------------------------------------------
(* What a step does to the mutation in flight.                             *)
LEMMA InFlightSteps ==
  ASSUME TypeOK, DispatchInv, [Next]_vars, pc' # "idle"
  PROVE  \/ UNCHANGED <<pc, cur, reply, verdict, store>>
         \/ \E s \in Signal : Place(s)
         \/ \E k \in {"ModifyOrder", "CancelOrder", "SquareOff"}, s \in Signal, b \in 1 .. Len(book) :
              Touch(k, s, b)
         \/ pc = "append" /\ pc' = "wait" /\ UNCHANGED <<cur, reply, verdict, store>>
         \/ BrokerAccepts
         \/ BrokerRefuses
         \/ Acked \/ (\E v \in {"do_not_retry", "other"} : Rejects(v)) \/ Ambiguous
         \/ pc = "persist" /\ pc' = "result" /\ UNCHANGED <<cur, reply, verdict>>
<1>1. CASE Caller
  BY <1>1 DEF Caller, Modify, Cancel, SquareOff
<1>2. CASE Broker
  BY <1>2 DEF Broker, LateArrival, BrokerMoves, inflight, disk
<1>3. CASE Step
  BY <1>3 DEF Step, RecordIntent, RecordIntentFails, PersistPlace, PersistModify, PersistCancel,
     RecordResult, Finish
<1>4. ASSUME NEW s \in Signal, NEW saved \in BOOLEAN, Resolve(s, saved) PROVE FALSE
  BY <1>4 DEF Resolve, Unresolved, Idle, inflight
<1>5. ~Restart
  <2>1. ASSUME Restart PROVE FALSE
    BY <2>1 DEF Restart, inflight, TypeOK
  <2> QED BY <2>1
<1>6. CASE Crash \/ UNCHANGED vars
  BY <1>6 DEF Crash, Finish, vars
<1> QED BY <1>1, <1>2, <1>3, <1>4, <1>5, <1>6 DEF Next

LEMMA OwnStays ==
  ASSUME BookGrows, NEW b, NEW r, Own(b, r) PROVE Own(b, r)'
BY DEF BookGrows, Own

(* The log grows, or a restart cuts off the unsynced record at its end.    *)
LEMMA LogChange ==
  ASSUME TypeOK, [Next]_vars
  PROVE  \/ log' = log
         \/ \E rec \in Record : log' = Append(log, rec)
         \/ ~up /\ chain = "whole" /\ log' = SubSeq(log, 1, Len(log) - 1)
<1>1. pc # "idle" => \A op \in Kind \cup {"Result"} : CurRecord(op) \in Record
  BY DEF TypeOK, CurRecord, Record, Request
<1>2. pc # "idle" => cur.kind \in Kind
  BY DEF TypeOK, Request
<1>3. CASE RecordIntent \/ RecordIntentFails \/ RecordResult
  <2>1. PICK op \in Kind \cup {"Result"} : pc # "idle" /\
           (AppendSynced(CurRecord(op)) \/ AppendFailed(CurRecord(op)))
    BY <1>2, <1>3 DEF RecordIntent, RecordIntentFails, RecordResult
  <2> QED BY <1>1, <2>1 DEF AppendSynced, AppendFailed
<1>4. CASE Restart
  BY <1>4 DEF Restart
<1>5. CASE Caller \/ Broker \/ Crash \/ UNCHANGED vars
  BY <1>5 DEF Caller, Place, Modify, Cancel, SquareOff, Touch, Broker, BrokerAccepts,
     BrokerRefuses, LateArrival, BrokerMoves, Crash, disk, vars
<1>6. CASE Acked \/ Ambiguous \/ (\E v \in {"do_not_retry", "other"} : Rejects(v))
           \/ PersistPlace \/ PersistModify \/ PersistCancel
           \/ \E s \in Signal, saved \in BOOLEAN : Resolve(s, saved)
  BY <1>6 DEF Acked, Rejects, Ambiguous, Returns, PersistPlace, PersistModify, PersistCancel,
     Resolve, disk
<1> QED BY <1>3, <1>4, <1>5, <1>6 DEF Next, Step

(* The record of an intent in flight, or of one that has a row, stays.     *)
LEMMA RecordedStays ==
  ASSUME TypeOK, DispatchInv, TailHasNoRow, [Next]_vars,
         NEW s \in Signal, NEW r \in Ref, Recorded(s, r), HasRow(r) \/ up
  PROVE  Recorded(s, r)'
<1>0. log \in Seq(Record)
  BY DEF TypeOK
<1>1. CASE log' = log
  BY <1>1 DEF Recorded, Placements
<1>2. ASSUME NEW rec \in Record, log' = Append(log, rec) PROVE Recorded(s, r)'
  <2>1. Placements \subseteq Placements'
    BY <1>0, <1>2, PlacementsAfterAppend
  <2> QED BY <2>1 DEF Recorded
<1>3. CASE ~up /\ chain = "whole" /\ log' = SubSeq(log, 1, Len(log) - 1)
  <2> DEFINE tail == log[Len(log)]
  <2>1. Len(log) > 0
    BY <1>3 DEF DispatchInv, TailNotSent
  <2>2. \A p \in Placements :
          p \in Placements' \/ (tail.op = "PlaceOrder" /\ p = <<tail.sig, tail.ref>>)
    BY <1>0, <1>3, <2>1, PlacementsAfterCut
  <2>3. HasRow(r)
    BY <1>3
  <2>4. tail.op = "PlaceOrder" => tail.ref # r
    BY <1>3, <2>1, <2>3 DEF TailHasNoRow
  <2> HIDE DEF tail
  <2> QED BY <2>2, <2>4 DEF Recorded
<1> QED BY <1>1, <1>2, <1>3, LogChange

LEMMA AlikeStays ==
  ASSUME TypeOK, DispatchInv, TailHasNoRow, [Next]_vars, BookGrows,
         NEW b, NEW r \in Ref, OwnOrAlike(b, r), HasRow(r) \/ up
  PROVE  OwnOrAlike(b, r)'
<1>1. b \in DOMAIN book /\ b \in DOMAIN book' /\ book'[b].ref = book[b].ref /\ book'[b].sig = book[b].sig
  BY DEF OwnOrAlike, BookGrows
<1>2. CASE book[b].ref = r
  BY <1>1, <1>2 DEF OwnOrAlike
<1>3. ASSUME NEW s \in Signal, ReportsAttr, Recorded(s, r), Attr[book[b].sig] = Attr[s]
      PROVE  OwnOrAlike(b, r)'
  <2>1. Recorded(s, r)'
    BY <1>3, RecordedStays
  <2> QED BY <1>1, <1>3, <2>1 DEF OwnOrAlike
<1> QED BY <1>2, <1>3 DEF OwnOrAlike

LEMMA VerdictStep ==
  ASSUME TypeOK, DispatchInv, VerdictIsFounded, [Next]_vars, InFlight'
  PROVE  VerdictIsFounded'
<1>1. CASE pc' \in {"idle", "append", "wait"}
  BY <1>1 DEF InFlight, VerdictIsFounded
<1>2. CASE pc' \notin {"idle", "append", "wait"}
  <2>1. CASE Acked \/ (\E v \in {"do_not_retry", "other"} : Rejects(v)) \/ Ambiguous
    BY <2>1 DEF Acked, Rejects, Ambiguous, Returns, VerdictIsFounded
  <2>2. CASE UNCHANGED <<pc, reply, verdict>> \/ (pc' = "result" /\ UNCHANGED <<reply, verdict>>)
    BY <2>2 DEF VerdictIsFounded
  <2>3. ASSUME NEW s \in Signal, Place(s) PROVE FALSE
    BY <1>2, <2>3 DEF Place, Start
  <2>4. ASSUME NEW k, NEW s \in Signal, NEW b \in 1 .. Len(book), Touch(k, s, b) PROVE FALSE
    BY <1>2, <2>4 DEF Touch, Start
  <2>5. ~BrokerAccepts /\ ~BrokerRefuses
    BY <1>2 DEF BrokerAccepts, BrokerRefuses
  <2> QED BY <1>2, <2>1, <2>2, <2>3, <2>4, <2>5, InFlightSteps
<1> QED BY <1>1, <1>2

LEMMA RequestStep ==
  ASSUME TypeOK, DispatchInv, RowInv, [Next]_vars, InFlight', BookGrows, VerdictIsFounded', pc' # "idle"
  PROVE  RequestIsOwn'
<1> DEFINE AlikeNext(b, r) ==
             /\ b \in DOMAIN book'
             /\ \/ book'[b].ref = r
                \/ ReportsAttr /\ \E s \in Signal : <<s, r>> \in Placements' /\ Attr[book'[b].sig] = Attr[s]
<1>0. /\ cur'.kind = "PlaceOrder" /\ reply' = "none" /\ verdict' = "none" => cur'.ref \notin LiveRefs'
      /\ pc' = "append" => reply' = "none" /\ verdict' = "none"
      /\ pc \in {"idle", "append"} => reply = "none" /\ verdict = "none"
      /\ pc = "wait" => verdict = "none"
  BY DEF InFlight, DispatchInv, Live
<1>a. \A r : r \in LiveRefs' => r \in LiveRefs \/ GoesLive(r)
  BY OnlyInFlightGoesLive DEF Live
<1>b. \A b, r : b \in DOMAIN book /\ book[b].ref = r => b \in DOMAIN book' /\ book'[b].ref = r
  BY DEF BookGrows
<1>s. ASSUME NEW b, NEW r \in Ref, OwnOrAlike(b, r), up PROVE AlikeNext(b, r)
  <2>1. OwnOrAlike(b, r)'
    BY <1>s, AlikeStays DEF RowInv
  <2> QED BY <2>1 DEF OwnOrAlike, Recorded
<1>c. /\ pc \in {"append", "wait", "persist"} /\ cur.kind = "PlaceOrder" => store[cur.ref] = NoRow
      /\ pc # "idle" /\ cur.kind = "PlaceOrder" =>
           /\ reply = "ok" => cur.bid \in DOMAIN book /\ book[cur.bid].ref = cur.ref
           /\ reply # "ok" /\ verdict # "unknown" => cur.ref \notin LiveRefs
  BY DEF RowInv, RequestIsOwn, Own, HasRow, Live
<1>e. pc # "idle" /\ cur.kind # "PlaceOrder" => AlikeNext(cur.bid, cur.ref)
  <2>1. pc # "idle" => cur.ref \in Ref /\ up
    BY DEF TypeOK, Request
  <2>2. pc # "idle" /\ cur.kind # "PlaceOrder" => OwnOrAlike(cur.bid, cur.ref)
    BY DEF RowInv, RequestIsOwn
  <2> HIDE DEF AlikeNext
  <2> QED BY <1>s, <2>1, <2>2
<1>d. ASSUME /\ pc' \in {"append", "wait", "persist"} /\ cur'.kind = "PlaceOrder" => store'[cur'.ref] = NoRow
             /\ cur'.kind = "PlaceOrder" =>
                  /\ reply' = "ok" => cur'.bid \in DOMAIN book' /\ book'[cur'.bid].ref = cur'.ref
                  /\ reply' # "ok" /\ verdict' # "unknown" => cur'.ref \notin LiveRefs'
             /\ cur'.kind # "PlaceOrder" => AlikeNext(cur'.bid, cur'.ref)
      PROVE  RequestIsOwn'
  BY <1>d DEF RequestIsOwn, Own, OwnOrAlike, Recorded, HasRow, Live
<1> HIDE DEF AlikeNext
<1>1. CASE /\ UNCHANGED <<cur, reply, verdict, store>> /\ pc # "idle"
           /\ pc' \in {"append", "wait", "persist"} => pc \in {"append", "wait", "persist"}
  <2>1. ASSUME cur'.kind = "PlaceOrder", reply' # "ok", verdict' # "unknown", cur'.ref \in LiveRefs'
        PROVE  FALSE
    <3>1. cur'.ref = cur.ref /\ cur.ref \notin LiveRefs
      BY <1>1, <1>c, <2>1
    <3>2. GoesLive(cur'.ref)
      BY <1>a, <2>1, <3>1
    <3>3. reply' = "none" /\ verdict' = "none"
      BY <1>0, <1>1, <3>2 DEF GoesLive
    <3> QED BY <1>0, <2>1, <3>3
  <2> QED BY <1>1, <1>b, <1>c, <1>d, <1>e, <2>1
<1>2. ASSUME NEW s \in Signal, Place(s) PROVE RequestIsOwn'
  <2>1. /\ pc' = "append" /\ cur'.kind = "PlaceOrder" /\ store' = store /\ store[cur'.ref] = NoRow
    BY <1>2 DEF Place, Start, disk, HasRow
  <2>2. reply' = "none" /\ verdict' = "none"
    BY <1>0, <2>1
  <2> QED BY <1>0, <1>d, <2>1, <2>2
<1>3. ASSUME NEW k \in {"ModifyOrder", "CancelOrder", "SquareOff"}, NEW s \in Signal,
             NEW b \in 1 .. Len(book), Touch(k, s, b)
      PROVE  RequestIsOwn'
  <2>1. /\ cur' = [kind |-> k, sig |-> s, ref |-> index[s], bid |-> b]
        /\ b # NoBid /\ Named(b, index[s]) /\ index[s] # NoRef /\ up
    BY <1>3 DEF Touch, Start, Idle
  <2>2. index[s] \in Ref
    BY <2>1 DEF TypeOK
  <2>3. OwnOrAlike(b, index[s])
    <3>1. CASE HasRow(index[s]) /\ store[index[s]].bid = b
      BY <2>1, <2>2, <3>1 DEF RowInv, AdoptedIsOwnOrAlike
    <3>2. CASE b \in DOMAIN book /\ book[b].ref = index[s]
      BY <3>2 DEF OwnOrAlike
    <3> QED BY <2>1, <3>1, <3>2 DEF Named
  <2>4. cur'.kind = k /\ cur'.ref = index[s] /\ cur'.bid = b /\ k # "PlaceOrder"
    BY <2>1
  <2>5. AlikeNext(cur'.bid, cur'.ref)
    BY <1>s, <2>1, <2>2, <2>3, <2>4
  <2> QED BY <1>d, <2>4, <2>5
<1>4. CASE pc = "append" /\ pc' = "wait" /\ UNCHANGED <<cur, reply, verdict, store>>
  BY <1>1, <1>4
<1>5. CASE BrokerAccepts
  <2>1. /\ pc = "wait" /\ pc' = "wait" /\ book' = Served(cur) /\ reply' = "ok" /\ store' = store
        /\ cur' = IF cur.kind = "PlaceOrder" THEN [cur EXCEPT !.bid = Len(book) + 1] ELSE cur
        /\ cur \in Request
    BY <1>5 DEF BrokerAccepts, disk, TypeOK
  <2>2. cur'.kind = cur.kind /\ cur'.ref = cur.ref
    BY <2>1 DEF Request
  <2>4. CASE cur.kind = "PlaceOrder"
    <3>1. /\ Len(book) + 1 \in DOMAIN book' /\ book'[Len(book) + 1].ref = cur.ref
      BY <2>1, <2>4, ServedPlacement
    <3>2. cur'.bid = Len(book) + 1
      BY <2>1, <2>4 DEF Request
    <3> QED BY <1>c, <1>d, <2>1, <2>2, <2>4, <3>1, <3>2
  <2>5. CASE cur.kind # "PlaceOrder"
    <3>1. cur' = cur
      BY <2>1, <2>5
    <3> QED BY <1>d, <1>e, <2>1, <2>5, <3>1
  <2> QED BY <2>4, <2>5
<1>6. CASE BrokerRefuses
  <2>1. /\ pc = "wait" /\ pc' = "wait" /\ reply = "none" /\ reply' = "refused"
        /\ UNCHANGED <<book, late, store, cur, verdict>>
    BY <1>6 DEF BrokerRefuses, disk, remote
  <2>2. LiveRefs' = LiveRefs
    BY <2>1 DEF LiveRefs
  <2> QED BY <1>0, <1>c, <1>d, <1>e, <2>1, <2>2
<1>7. CASE Acked \/ (\E v \in {"do_not_retry", "other"} : Rejects(v)) \/ Ambiguous
  <2>1. /\ pc = "wait" /\ pc' = "persist" /\ UNCHANGED <<book, store, cur, reply>>
        /\ verdict' = "unknown" \/ late' = late
    BY <1>7 DEF Acked, Rejects, Ambiguous, Returns, disk
  <2>2. verdict' # "unknown" => LiveRefs' = LiveRefs
    BY <2>1 DEF LiveRefs
  <2> QED BY <1>0, <1>c, <1>d, <1>e, <2>1, <2>2
<1>8. CASE pc = "persist" /\ pc' = "result" /\ UNCHANGED <<cur, reply, verdict>>
  <2>1. \A r : r \in LiveRefs' => r \in LiveRefs
    BY <1>8, <1>a DEF GoesLive
  <2> QED BY <1>b, <1>c, <1>d, <1>e, <1>8, <2>1
<1>9. CASE UNCHANGED <<pc, cur, reply, verdict, store>>
  BY <1>1, <1>9
<1> QED
  BY <1>2, <1>3, <1>4, <1>5, <1>6, <1>7, <1>8, <1>9, InFlightSteps

(* The three facts about rows, one kind of row change at a time.           *)
LEMMA RowStep ==
  ASSUME TypeOK, DispatchInv, RowInv, [Next]_vars, BookGrows, NEW r \in Ref
  PROVE  /\ store'[r].state = "Rejected" => r \notin LiveRefs'
         /\ store'[r] # NoRow /\ store'[r].bid # NoBid => OwnOrAlike(store[r].bid, r)'
         /\ store'[r].state \in {"Filled", "Cancelled"} =>
              \E b \in DOMAIN book' : OwnOrAlike(b, r)' /\ book'[b].state = store'[r].state
<1> DEFINE NotLive == r \notin LiveRefs'
           AlikeId(b) ==
             /\ b \in DOMAIN book'
             /\ \/ book'[b].ref = r
                \/ ReportsAttr /\ \E s \in Signal : <<s, r>> \in Placements' /\ Attr[book'[b].sig] = Attr[s]
           Agrees(st) == \E b \in DOMAIN book' : AlikeId(b) /\ book'[b].state = st
<1>0. /\ RequestIsOwn /\ VerdictIsFounded /\ BookStates
      /\ store[r] = NoRow \/ store[r] \in Orders
  BY DEF RowInv, TypeOK
<1>a. /\ store[r].state = "Rejected" => r \notin LiveRefs
      /\ store[r] # NoRow /\ store[r].bid # NoBid => OwnOrAlike(store[r].bid, r)
      /\ store[r].state \in {"Filled", "Cancelled"} =>
           \E b \in DOMAIN book : OwnOrAlike(b, r) /\ book[b].state = store[r].state
  BY DEF RowInv, RejectedIsNotLive, AdoptedIsOwnOrAlike, TerminalAgreesWithAlike, Live, HasRow
<1>b. ASSUME NEW b, OwnOrAlike(b, r), HasRow(r) \/ up PROVE AlikeId(b)
  <2>1. OwnOrAlike(b, r)'
    BY <1>b, AlikeStays DEF RowInv
  <2> QED BY <2>1 DEF OwnOrAlike, Recorded
<1>e. NoRow.state = "none"
  BY DEF NoRow
<1>g. /\ store'[r].state = "Rejected" => NotLive
      /\ store'[r] # NoRow /\ store'[r].bid # NoBid => AlikeId(store'[r].bid)
      /\ store'[r].state \in {"Filled", "Cancelled"} => Agrees(store'[r].state)
  <2> HIDE DEF AlikeId
  <2>c. store[r].state \in {"Filled", "Cancelled"} => Agrees(store[r].state)
    <3> SUFFICES ASSUME store[r].state \in {"Filled", "Cancelled"} PROVE Agrees(store[r].state)
      OBVIOUS
    <3>1. PICK b \in DOMAIN book : OwnOrAlike(b, r) /\ book[b].state = store[r].state
      BY <1>a
    <3>2. HasRow(r)
      BY <1>e DEF HasRow
    <3>3. AlikeId(b)
      BY <1>b, <3>1, <3>2
    <3> QED BY <3>1, <3>3 DEF BookGrows, Terminal
  <2>d. r \in LiveRefs' => r \in LiveRefs \/ GoesLive(r)
    BY OnlyInFlightGoesLive DEF Live
  <2>1. CASE store'[r] = store[r] \/ store'[r] = NoRow
    <3>1. store[r].state = "Rejected" => NotLive
      <4> SUFFICES ASSUME store[r].state = "Rejected", GoesLive(r) PROVE FALSE
        BY <1>a, <2>d
      <4>1. store[r] = NoRow
        BY <1>0 DEF GoesLive, RequestIsOwn, HasRow
      <4> QED BY <1>e, <4>1
    <3>2. store[r] # NoRow /\ store[r].bid # NoBid => AlikeId(store[r].bid)
      BY <1>a, <1>b DEF HasRow
    <3> HIDE DEF NotLive, Agrees
    <3> QED BY <2>1, <2>c, <1>e, <3>1, <3>2
  <2>2. CASE pc = "persist" /\ cur.kind = "PlaceOrder" /\ r = cur.ref /\ store'[r] = PlacedOrder.order
    <3>1. verdict \in {"do_not_retry", "other"} => NotLive
      BY <1>0, <2>2, <2>d DEF GoesLive, RequestIsOwn, VerdictIsFounded, Live
    <3>2. up
      BY <2>2 DEF TypeOK
    <3>3. verdict = "ack" => AlikeId(cur.bid)
      BY <1>0, <2>2, <1>b, <3>2 DEF RequestIsOwn, VerdictIsFounded, Own, OwnOrAlike
    <3> HIDE DEF NotLive, Agrees
    <3> QED BY <1>0, <2>2, <3>1, <3>3, PlacedRow
  <2>3. CASE pc = "persist" /\ cur.kind = "ModifyOrder" /\ r = cur.ref /\ store'[r] = ModifiedOrder
    <3>1. AlikeId(cur.bid)
      BY <1>0, <2>3, <1>b DEF RequestIsOwn, TypeOK
    <3>2. store[r].state = "Rejected" => NotLive
      BY <2>3, <1>a, <2>d DEF GoesLive
    <3> HIDE DEF NotLive, Agrees
    <3> QED BY <2>3, <2>c, <3>1, <3>2, ModifiedRow
  <2>4. CASE MarksUnknown /\ r = cur.ref /\ store'[r] = [store[r] EXCEPT !.state = "Unknown"]
    <3>1. store[r] \in Orders
      BY <1>0, <2>4 DEF MarksUnknown, HasRow
    <3>2. store'[r].state = "Unknown" /\ store'[r].bid = store[r].bid
      BY <2>4, <3>1 DEF Orders
    <3>3. HasRow(r)
      BY <2>4 DEF MarksUnknown
    <3> QED BY <1>a, <1>b, <3>2, <3>3 DEF HasRow
  <2>5. ASSUME NEW s \in Signal, NEW b \in classify(s),
               Unresolved(s), r = index[s], store'[r] = Resolved(s, b)
        PROVE  /\ store'[r].state = "Rejected" => NotLive
               /\ store'[r].bid # NoBid => AlikeId(store'[r].bid)
               /\ store'[r].state \in {"Filled", "Cancelled"} => Agrees(store'[r].state)
    <3>1. HasRow(r) /\ OwnOrAlike(b, r)
      BY <2>5, ClassifyIsAlike DEF RowInv
    <3>2. b \in DOMAIN book
      BY <3>1 DEF OwnOrAlike
    <3>3. /\ \/ store'[r].state \in {"Unknown", "Acknowledged", "PartiallyFilled"}
             \/ store'[r].state \in {"Filled", "Cancelled"} /\ store'[r].state = book[b].state
          /\ store'[r].bid = b \/ store'[r].bid = store[r].bid
      BY <1>0, <2>5, <3>1, <3>2, ResolvedRow
    <3>4. AlikeId(b)
      BY <1>b, <3>1
    <3>5. store[r].bid # NoBid => AlikeId(store[r].bid)
      BY <1>a, <1>b, <3>1 DEF HasRow
    <3>6. store'[r].state \in {"Filled", "Cancelled"} => Agrees(store'[r].state)
      BY <3>2, <3>3, <3>4 DEF BookGrows, Terminal
    <3> QED BY <3>3, <3>4, <3>5, <3>6
  <2> HIDE DEF NotLive, Agrees
  <2> QED BY <2>1, <2>2, <2>3, <2>4, <2>5, RowsChange DEF RowChange
<1> QED BY <1>g DEF OwnOrAlike, Recorded

(* Every row keeps a recorded intent, and a record left by a failed append *)
(* has none: rows are created after the record is durable.                 *)
LEMMA RecordStep ==
  ASSUME TypeOK, DispatchInv, RowInv, [Next]_vars
  PROVE  RowIsRecorded' /\ TailHasNoRow'
<1>0. /\ TailHasNoRow /\ RowIsRecorded /\ RequestIsOwn /\ log \in Seq(Record)
      /\ pc # "idle" => cur \in Request /\ cur.ref \in Ref /\ cur.sig \in Signal /\ up
  BY DEF RowInv, TypeOK, Request
<1>1. ASSUME NEW r \in Ref, store'[r] # NoRow PROVE HasRow(r) \/ (pc = "persist" /\ r = cur.ref)
  <2>1. ASSUME NEW s \in Signal, Unresolved(s), r = index[s] PROVE HasRow(r)
    BY <2>1 DEF Unresolved, HasRow, NoRow
  <2> QED BY <1>1, <2>1, RowsChange DEF RowChange, HasRow, MarksUnknown
<1>2. ASSUME NEW r \in Ref, store'[r] # NoRow PROVE \E s \in Signal : Recorded(s, r)'
  <2>1. PICK s \in Signal : Recorded(s, r) /\ (HasRow(r) \/ up)
    <3>1. CASE HasRow(r)
      BY <1>0, <3>1 DEF RowIsRecorded
    <3>2. CASE pc = "persist" /\ r = cur.ref /\ cur.kind = "PlaceOrder"
      BY <1>0, <3>2 DEF DispatchInv, InFlight
    <3>3. CASE pc = "persist" /\ r = cur.ref /\ cur.kind # "PlaceOrder"
      <4>1. OwnOrAlike(cur.bid, r)
        BY <1>0, <3>3 DEF RequestIsOwn
      <4>2. CASE book[cur.bid].ref = r
        <5>1. cur.bid \in DOMAIN book /\ book[cur.bid] \in Booked
          BY <4>1 DEF OwnOrAlike, TypeOK
        <5> QED BY <1>0, <3>3, <4>2, <5>1 DEF DispatchInv, SentIsRecorded, Booked
      <4> QED BY <1>0, <3>3, <4>1, <4>2 DEF OwnOrAlike
    <3> QED BY <1>1, <1>2, <3>1, <3>2, <3>3
  <2> QED BY <1>0, <2>1, RecordedStays
<1>3. RowIsRecorded'
  BY <1>2 DEF RowIsRecorded, HasRow
<1>4. TailHasNoRow'
  <2> SUFFICES ASSUME chain' = "whole", Len(log') > 0, log'[Len(log')].op = "PlaceOrder"
               PROVE  store'[log'[Len(log')].ref] = NoRow
    BY DEF TailHasNoRow, HasRow
  <2> DEFINE tail == log[Len(log)]
  <2>1. CASE log' = log /\ chain = "whole"
    <3>0. tail \in Record
      BY <1>0, <2>1
    <3>1. tail.ref \in Ref /\ ~HasRow(tail.ref)
      BY <1>0, <2>1, <3>0 DEF TailHasNoRow, Record
    <3>2. pc # "persist"
      BY <2>1 DEF DispatchInv, InFlight
    <3> QED BY <1>1, <2>1, <3>1, <3>2
  <2>2. CASE /\ pc = "append" /\ log' = Append(log, CurRecord(cur.kind)) /\ store' = store
    <3>1. log'[Len(log')] = CurRecord(cur.kind)
      BY <1>0, <2>2
    <3> QED BY <1>0, <2>2, <3>1 DEF CurRecord, RequestIsOwn, HasRow
  <2>3. CASE log' = Append(log, CurRecord("Result"))
    <3>1. log'[Len(log')] = CurRecord("Result")
      BY <1>0, <2>3
    <3> QED BY <3>1 DEF CurRecord
  <2>4. CASE RecordIntent \/ Restart
    <3>1. chain' # "whole"
      BY <2>4 DEF RecordIntent, AppendSynced, Restart
    <3> QED BY <3>1
  <2>5. CASE RecordIntentFails
    BY <2>1, <2>2, <2>5 DEF RecordIntentFails, AppendFailed
  <2>6. CASE RecordResult
    BY <2>1, <2>3, <2>6 DEF RecordResult, AppendFailed, AppendSynced
  <2>7. CASE Caller \/ Broker \/ Crash \/ UNCHANGED vars
    BY <2>1, <2>7 DEF Caller, Place, Modify, Cancel, SquareOff, Touch, Broker, BrokerAccepts,
       BrokerRefuses, LateArrival, BrokerMoves, Crash, disk, vars
  <2>8. CASE Acked \/ Ambiguous \/ (\E v \in {"do_not_retry", "other"} : Rejects(v))
             \/ PersistPlace \/ PersistModify \/ PersistCancel
             \/ \E s \in Signal, saved \in BOOLEAN : Resolve(s, saved)
    BY <2>1, <2>8 DEF Acked, Rejects, Ambiguous, Returns, PersistPlace, PersistModify,
       PersistCancel, Resolve, disk
  <2> QED BY <2>4, <2>5, <2>6, <2>7, <2>8 DEF Next, Step
<1> QED BY <1>3, <1>4

LEMMA RowsInitially == Init => RowInv
BY DEF Init, RowInv, BookStates, RequestIsOwn, VerdictIsFounded, RowIsRecorded, TailHasNoRow,
   RejectedIsNotLive, AdoptedIsOwnOrAlike, TerminalAgreesWithAlike, HasRow, NoRow

LEMMA RowsPreserved ==
  ASSUME TypeOK, DispatchInv, RowInv, [Next]_vars
  PROVE  RowInv'
<1>1. BookGrows /\ BookStates'
  BY BookOnlyGrows DEF RowInv
<1>2. DispatchInv'
  BY InvPreserved
<1>3. InFlight'
  BY <1>2 DEF DispatchInv
<1>4. VerdictIsFounded'
  BY <1>3, VerdictStep DEF RowInv
<1>5. RequestIsOwn'
  <2>1. CASE pc' = "idle"
    BY <2>1 DEF RequestIsOwn
  <2> QED BY <1>1, <1>3, <1>4, <2>1, RequestStep
<1>6. RejectedIsNotLive' /\ AdoptedIsOwnOrAlike' /\ TerminalAgreesWithAlike'
  BY <1>1, RowStep DEF RejectedIsNotLive, AdoptedIsOwnOrAlike, TerminalAgreesWithAlike, HasRow, Live
<1>7. RowIsRecorded' /\ TailHasNoRow'
  BY RecordStep
<1> QED BY <1>1, <1>4, <1>5, <1>6, <1>7 DEF RowInv

(* Every row of the projection is true of the broker's order of its ref,   *)
(* or of one the resolver's third rung cannot tell from it.                *)
THEOREM RowsAreTrue == Spec => []RowInv
<1>1. TypeOK /\ DispatchInv /\ RowInv /\ [Next]_vars => RowInv'
  BY RowsPreserved
<1> QED BY <1>1, RowsInitially, TypeCorrect, InvCorrect, PTL DEF Spec

(* A row the dispatcher closed as Rejected never has an order at the       *)
(* broker, nor one on its way.                                             *)
THEOREM RejectionsAreFinal == Spec => []RejectedIsNotLive
<1>1. RowInv => RejectedIsNotLive
  BY DEF RowInv
<1> QED BY <1>1, RowsAreTrue, PTL

(* The broker id in a row, however it was learned, is that of its own      *)
(* order or of one of equal attributes, for every assignment of attributes. *)
THEOREM AdoptionIsOwnOrAlike == Spec => []AdoptedIsOwnOrAlike
<1>1. RowInv => AdoptedIsOwnOrAlike
  BY DEF RowInv
<1> QED BY <1>1, RowsAreTrue, PTL

(* A row that says Filled or Cancelled agrees with the broker for good,    *)
(* provided no two signals look the same to the resolver's third rung.     *)
THEOREM TerminalIsTrue == AttrTellsApart => (Spec => []TerminalAgreesWithBroker)
<1> SUFFICES ASSUME AttrTellsApart PROVE Spec => []TerminalAgreesWithBroker
  OBVIOUS
<1>1. ASSUME TypeOK, DispatchInv, NEW r \in Ref, NEW b, OwnOrAlike(b, r) PROVE book[b].ref = r
  <2>0. b \in DOMAIN book /\ book[b] \in Booked
    BY <1>1 DEF OwnOrAlike, TypeOK
  <2>1. b \in DOMAIN book /\ book[b].sig \in Signal /\ book[b].ref \in Ref
    BY <2>0 DEF Booked
  <2>2. Recorded(book[b].sig, book[b].ref)
    BY <1>1, <2>1 DEF DispatchInv, SentIsRecorded
  <2>3. ASSUME NEW s \in Signal, ReportsAttr, Recorded(s, r), Attr[book[b].sig] = Attr[s]
        PROVE  book[b].ref = r
    <3>1. book[b].sig = s
      BY <2>1, <2>3 DEF AttrTellsApart
    <3> QED BY <1>1, <2>1, <2>2, <2>3, <3>1 DEF DispatchInv, LogBindsOneToOne
  <2> QED BY <1>1, <2>3 DEF OwnOrAlike
<1>2. TypeOK /\ DispatchInv /\ RowInv => TerminalAgreesWithBroker
  BY <1>1 DEF RowInv, TerminalAgreesWithAlike, TerminalAgreesWithBroker
<1> QED BY <1>2, TypeCorrect, InvCorrect, RowsAreTrue, PTL

(* Nothing but an ambiguous modify moves a row out of a terminal state.    *)
THEOREM TerminalRowsStay == Spec => OnlyModifyReopens
<1>1. ASSUME TypeOK, DispatchInv, RowInv, [Next]_vars, NEW r \in Ref, is_terminal(store[r].state)
      PROVE  \/ store'[r] = NoRow \/ store'[r].state = store[r].state
             \/ /\ pc = "persist" /\ cur.kind = "ModifyOrder" /\ cur.ref = r /\ verdict = "unknown"
                /\ store'[r].state = "Unknown"
  <2>1. store[r] # NoRow /\ store[r].state \in {"Filled", "Cancelled", "Rejected"}
    BY <1>1 DEF is_terminal, Terminal, NoRow
  <2>2. CASE pc = "persist" /\ cur.kind = "PlaceOrder" /\ r = cur.ref
    BY <1>1, <2>1, <2>2 DEF RowInv, RequestIsOwn, HasRow
  <2>3. CASE /\ pc = "persist" /\ cur.kind = "ModifyOrder" /\ r = cur.ref /\ store'[r] = ModifiedOrder
             /\ verdict \in {"ack", "unknown"}
    <3>1. CASE verdict = "ack"
      BY <1>1, <2>1, <2>3, <3>1, ModifiedRow DEF HasRow
    <3>2. CASE verdict = "unknown"
      BY <1>1, <2>1, <2>3, <3>2, ModifiedRow DEF HasRow
    <3> QED BY <2>3, <3>1, <3>2
  <2>4. CASE MarksUnknown /\ r = cur.ref
    BY <1>1, <2>4 DEF MarksUnknown
  <2>5. ASSUME NEW s \in Signal, Unresolved(s), r = index[s] PROVE FALSE
    BY <2>1, <2>5 DEF Unresolved
  <2> QED BY <1>1, <2>2, <2>3, <2>4, <2>5, RowsChange DEF RowChange
<1>2. TypeOK /\ DispatchInv /\ RowInv /\ [Next]_vars =>
        [\A r \in Ref : is_terminal(store[r].state) =>
           \/ store'[r] = NoRow \/ store'[r].state = store[r].state
           \/ /\ pc = "persist" /\ cur.kind = "ModifyOrder" /\ cur.ref = r /\ verdict = "unknown"
              /\ store'[r].state = "Unknown"]_vars
  BY <1>1
<1> QED BY <1>2, TypeCorrect, InvCorrect, RowsAreTrue, PTL DEF Spec, OnlyModifyReopens

(* A saved resolution settles its row as one order it was matched with.    *)
THEOREM ResolutionsSettle == Spec => ResolutionSettles
<1>1. ASSUME TypeOK, BookStates, NEW s \in Signal, Resolve(s, TRUE)
      PROVE  /\ store'[index[s]].state # "Unknown"
             /\ \E b \in classify(s) : /\ store'[index[s]].bid = b
                                       /\ store'[index[s]].filled = book[b].filled
  <2> DEFINE r == index[s]
  <2>1. /\ r \in Ref /\ store[r].state = "Unknown" /\ HasRow(r)
        /\ store \in [Ref -> Orders \cup {NoRow}]
    BY <1>1 DEF Resolve, Unresolved, TypeOK, HasRow, NoRow
  <2>2. PICK b \in classify(s) :
          store' = [store EXCEPT ![r] = [Adopted(r, b).order EXCEPT !.bid = IF @ = NoBid THEN b ELSE @]]
    BY <1>1 DEF Resolve
  <2>3. b \in DOMAIN book /\ b \in Nat /\ b # NoBid /\ book[b] \in Booked
        /\ book[b].state \in {"Sent", "Filled", "Cancelled"}
    <3>1. b \in DOMAIN book
      BY DEF classify, IdMatch, TokenMatch, AttrMatch
    <3>2. Len(book) \in Nat /\ DOMAIN book = 1 .. Len(book)
      BY <1>1 DEF TypeOK
    <3> QED BY <1>1, <3>1, <3>2 DEF TypeOK, BookStates, NoBid
  <2> DEFINE v == [state |-> book[b].state, filled |-> book[b].filled, bid |-> b,
                   key |-> IF last_key[r] = NoKey THEN 1 ELSE last_key[r] + 1]
  <2>4. /\ v.key >= last_key[r] /\ v.key \in Nat /\ last_key[r] \in Nat \cup {NoKey}
        /\ v.state = book[b].state /\ v.filled = book[b].filled /\ v.bid = b
    BY <1>1, <2>1 DEF TypeOK, NoKey
  <2>5. Adopted(r, b) = apply(store[r], last_key[r], v)
    BY DEF Adopted
  <2> HIDE DEF v, r
  <2>6. canonical_observed("Unknown", v) \in {"Acknowledged", "PartiallyFilled", "Filled", "Cancelled"}
    BY <2>3, <2>4 DEF canonical_observed, sent_means_still_working
  <2>7. ~Refused(store[r], last_key[r], v)
    BY <2>1, <2>6 DEF Refused, is_valid_transition, table_allows, Successors
  <2>8. ~is_terminal(store[r].state) /\ ~(v.key < last_key[r])
    BY <2>1, <2>4 DEF is_terminal, Terminal, NoKey
  <2>9. Adopted(r, b).order = Observed(store[r], v)
    BY <2>5, <2>7, <2>8 DEF apply
  <2>10. Observed(store[r], v) = [state |-> canonical_observed("Unknown", v),
                                  filled |-> book[b].filled, bid |-> b]
    BY <2>1, <2>3, <2>4 DEF Observed
  <2>11. store'[r] = [Adopted(r, b).order EXCEPT !.bid = IF @ = NoBid THEN b ELSE @]
    BY <2>1, <2>2
  <2>12. store'[r] = [state |-> canonical_observed("Unknown", v), filled |-> book[b].filled, bid |-> b]
    BY <2>9, <2>10, <2>11
  <2> QED BY <2>6, <2>12 DEF r
<1>2. TypeOK /\ RowInv /\ [Next]_vars =>
        [\A s \in Signal : Resolve(s, TRUE) =>
           /\ store'[index[s]].state # "Unknown"
           /\ \E b \in classify(s) : /\ store'[index[s]].bid = b
                                     /\ store'[index[s]].filled = book[b].filled]_vars
  BY <1>1 DEF RowInv
<1> QED BY <1>2, TypeCorrect, RowsAreTrue, PTL DEF Spec, ResolutionSettles

-----------------------------------------------------------------------------
(* Dispatch implements OrderOnce: every step maps to logging, submitting   *)
(* or losing one intent, or to a stutter.                                  *)

(* The order of a placement that becomes live is the one step the contract *)
(* calls Submit.                                                           *)
LEMMA LiveIsClaimed ==
  ASSUME TypeOK, DispatchInv, NEW s \in Signal, NEW r \in Ref,
         Recorded(s, r), r \notin LiveRefs
  PROVE  \A p \in LivePlacements : p[1] # s
<1> SUFFICES ASSUME NEW p \in LivePlacements, p[1] = s PROVE FALSE
  OBVIOUS
<1>1. \E q \in LiveRefs : q \in Ref /\ Recorded(s, q)
  <2>1. CASE \E i \in DOMAIN book : p = <<book[i].sig, book[i].ref>>
    <3>1. PICK i \in DOMAIN book : p = <<book[i].sig, book[i].ref>>
      BY <2>1
    <3>2. book[i] \in Booked
      BY DEF TypeOK
    <3>3. book[i].ref \in Ref /\ book[i].ref \in LiveRefs /\ book[i].sig = s
      BY <3>1, <3>2 DEF Booked, LiveRefs
    <3> QED BY <3>3 DEF DispatchInv, SentIsRecorded
  <2>2. CASE \E q \in late : q.kind = "PlaceOrder" /\ p = <<q.sig, q.ref>>
    <3>1. PICK q \in late : q.kind = "PlaceOrder" /\ p = <<q.sig, q.ref>>
      BY <2>2
    <3>2. q.ref \in Ref /\ q.ref \in LiveRefs /\ q.sig = s
      BY <3>1 DEF TypeOK, Request, LiveRefs
    <3> QED BY <3>1, <3>2 DEF DispatchInv, SentIsRecorded
  <2> QED BY <2>1, <2>2 DEF LivePlacements
<1> QED BY <1>1 DEF DispatchInv, LogBindsOneToOne

LEMMA LivePlacementsSame ==
  ASSUME SameKeys PROVE LivePlacements' = LivePlacements
<1>1. LivePlacements' = {<<book'[i].sig, book'[i].ref>> : i \in DOMAIN book'}
        \cup {<<q.sig, q.ref>> : q \in {p \in late' : p.kind = "PlaceOrder"}}
  BY DEF LivePlacements
<1>2. {<<book'[i].sig, book'[i].ref>> : i \in DOMAIN book'}
        = {<<book[i].sig, book[i].ref>> : i \in DOMAIN book}
  BY DEF SameKeys
<1>3. {p \in late' : p.kind = "PlaceOrder"} = {p \in late : p.kind = "PlaceOrder"}
  BY DEF SameKeys
<1> QED BY <1>1, <1>2, <1>3 DEF LivePlacements

(* The placement in flight becomes live, or may: a Submit.                 *)
LEMMA SubmitStep ==
  ASSUME TypeOK, DispatchInv, pc = "wait", reply = "none", verdict = "none",
         cur.kind = "PlaceOrder", log' = log,
         LivePlacements' = LivePlacements \cup {<<cur.sig, cur.ref>>}
  PROVE  \E s \in Signal, r \in Ref : Contract!Submit(s, r)
<1>1. cur \in Request
  BY DEF TypeOK
<1>2. cur.sig \in Signal /\ cur.ref \in Ref
  BY <1>1 DEF Request
<1>3. Recorded(cur.sig, cur.ref) /\ cur.ref \notin LiveRefs
  BY DEF DispatchInv, InFlight, Live
<1>4. \A p \in LivePlacements : p[1] # cur.sig
  BY <1>2, <1>3, LiveIsClaimed
<1>5. Placements' = Placements
  BY DEF Placements
<1>6. Contract!Submit(cur.sig, cur.ref)
  BY <1>3, <1>4, <1>5 DEF Contract!Submit, Recorded
<1> QED BY <1>2, <1>6

(* A PlaceOrder record is appended: a LogIntent, or a repeated record.     *)
LEMMA AppendStep ==
  ASSUME TypeOK, DispatchInv, pc = "append", LivePlacements' = LivePlacements,
         \/ Placements' = Placements
         \/ /\ cur.kind = "PlaceOrder"
            /\ Placements' = Placements \cup {<<cur.sig, cur.ref>>}
  PROVE  \/ \E s \in Signal, r \in Ref : Contract!LogIntent(s, r)
         \/ UNCHANGED <<Placements, LivePlacements>>
<1>1. CASE Placements' = Placements
  BY <1>1
<1>2. CASE /\ cur.kind = "PlaceOrder"
           /\ Placements' = Placements \cup {<<cur.sig, cur.ref>>}
           /\ Placements' # Placements
  <2>1. cur \in Request /\ up
    BY DEF TypeOK
  <2>2. cur.sig \in Signal /\ cur.ref \in Ref /\ index[cur.sig] = cur.ref
    BY <1>2, <2>1 DEF Request, DispatchInv, InFlight
  <2>3. ASSUME NEW p \in Placements, p[1] = cur.sig PROVE FALSE
    <3>1. PICK s \in Signal, r \in Ref : p = <<s, r>>
      BY PlacementsType
    <3>2. s = cur.sig /\ Recorded(s, r)
      BY <2>3, <3>1 DEF Recorded
    <3>3. r = cur.ref
      BY <2>1, <2>2, <3>2 DEF DispatchInv, IndexAgreesWithLog
    <3> QED BY <1>2, <3>1, <3>2, <3>3
  <2>4. Contract!LogIntent(cur.sig, cur.ref)
    BY <1>2, <2>3 DEF Contract!LogIntent
  <2> QED BY <2>2, <2>4
<1> QED BY <1>1, <1>2

LEMMA ContractInitially == Init => Contract!Init
<1> SUFFICES ASSUME Init PROVE Contract!Init
  OBVIOUS
<1>1. Placements = {} /\ LivePlacements = {}
  BY DEF Init, Placements, LivePlacements
<1> QED BY <1>1 DEF Contract!Init

LEMMA ContractStep ==
  TypeOK /\ DispatchInv /\ [Next]_vars => [Contract!Next]_(Contract!vars)
<1> SUFFICES ASSUME TypeOK, DispatchInv, [Next]_vars
             PROVE  Contract!Next \/ UNCHANGED <<Placements, LivePlacements>>
  BY DEF Contract!vars
<1>1. CASE \E s \in Signal : Place(s)
  <2>1. UNCHANGED <<log, book, late>>
    BY <1>1 DEF Place, disk, remote
  <2> QED BY <2>1 DEF Placements, LivePlacements
<1>2. CASE RecordIntent
  <2>1. /\ pc = "append" /\ cur \in Request /\ log \in Seq(Record)
        /\ CurRecord(cur.kind) \in Record /\ log' = Append(log, CurRecord(cur.kind))
        /\ UNCHANGED <<book, late>>
    BY <1>2 DEF RecordIntent, AppendSynced, TypeOK, CurRecord, Record, Request, remote
  <2>2. Placements' = IF cur.kind = "PlaceOrder" THEN Placements \cup {<<cur.sig, cur.ref>>}
                      ELSE Placements
    BY <2>1, PlacementsAfterAppend DEF CurRecord
  <2>3. LivePlacements' = LivePlacements
    BY <2>1 DEF LivePlacements
  <2> QED BY <2>1, <2>2, <2>3, AppendStep DEF Contract!Next
<1>3. CASE RecordIntentFails
  <2>1. /\ pc = "append" /\ cur \in Request /\ log \in Seq(Record)
        /\ CurRecord(cur.kind) \in Record
        /\ log' = log \/ log' = Append(log, CurRecord(cur.kind))
        /\ UNCHANGED <<book, late>>
    BY <1>3 DEF RecordIntentFails, AppendFailed, TypeOK, CurRecord, Record, Request, remote
  <2>2. \/ Placements' = Placements
        \/ /\ cur.kind = "PlaceOrder"
           /\ Placements' = Placements \cup {<<cur.sig, cur.ref>>}
    BY <2>1, PlacementsAfterAppend DEF CurRecord, Placements
  <2>3. LivePlacements' = LivePlacements
    BY <2>1 DEF LivePlacements
  <2> QED BY <2>1, <2>2, <2>3, AppendStep DEF Contract!Next
<1>4. CASE Acked \/ (\E v \in {"do_not_retry", "other"} : Rejects(v)) \/ Ambiguous \/ Crash
  <2>1. /\ log' = log /\ book' = book
        /\ \/ late' = late
           \/ pc = "wait" /\ reply = "none" /\ late' = late \cup {cur}
    BY <1>4 DEF Acked, Rejects, Ambiguous, Returns, Crash, disk
  <2>2. Placements' = Placements
    BY <2>1 DEF Placements
  <2>3. CASE late' = late
    BY <2>1, <2>2, <2>3 DEF LivePlacements
  <2>4. CASE pc = "wait" /\ reply = "none" /\ late' = late \cup {cur}
    <3>1. verdict = "none"
      BY <2>4 DEF DispatchInv, InFlight
    <3>2. LivePlacements' = IF cur.kind = "PlaceOrder"
                              THEN LivePlacements \cup {<<cur.sig, cur.ref>>} ELSE LivePlacements
      <4>1. LivePlacements' = {<<book'[i].sig, book'[i].ref>> : i \in DOMAIN book'}
              \cup {<<q.sig, q.ref>> : q \in {p \in late' : p.kind = "PlaceOrder"}}
        BY DEF LivePlacements
      <4> QED BY <2>1, <2>4, <4>1 DEF LivePlacements
    <3> QED BY <2>1, <2>2, <2>4, <3>1, <3>2, SubmitStep DEF Contract!Next
  <2> QED BY <2>1, <2>3, <2>4
<1>5. CASE BrokerAccepts
  <2>1. /\ pc = "wait" /\ reply = "none" /\ cur \in Request /\ book' = Served(cur)
        /\ UNCHANGED <<log, late>>
    BY <1>5 DEF BrokerAccepts, TypeOK, disk
  <2>2. Placements' = Placements
    BY <2>1 DEF Placements
  <2>3. CASE cur.kind # "PlaceOrder"
    <3>1. SameKeys
      BY <2>1, <2>3, ServedKeys DEF SameKeys
    <3> QED BY <2>2, <3>1, LivePlacementsSame
  <2>4. CASE cur.kind = "PlaceOrder"
    <3> DEFINE n == Len(book) + 1
    <3>1. /\ DOMAIN book' = DOMAIN book \cup {n}
          /\ \A i \in DOMAIN book : book'[i] = book[i]
          /\ book'[n].ref = cur.ref /\ book'[n].sig = cur.sig
      BY <2>1, <2>4, ServedPlacement
    <3> HIDE DEF n
    <3>2. LivePlacements' = LivePlacements \cup {<<cur.sig, cur.ref>>}
      <4>1. LivePlacements' = {<<book'[i].sig, book'[i].ref>> : i \in DOMAIN book'}
              \cup {<<q.sig, q.ref>> : q \in {p \in late' : p.kind = "PlaceOrder"}}
        BY DEF LivePlacements
      <4> QED BY <2>1, <3>1, <4>1 DEF LivePlacements
    <3>3. verdict = "none"
      BY <2>1 DEF DispatchInv, InFlight
    <3> QED BY <2>1, <2>4, <3>2, <3>3, SubmitStep DEF Contract!Next
  <2> QED BY <2>3, <2>4
<1>6. ASSUME NEW q \in late, LateArrival(q)
      PROVE  UNCHANGED <<Placements, LivePlacements>>
  <2>1. late' = late \ {q} /\ q \in Request /\ log' = log
    BY <1>6 DEF LateArrival, TypeOK, disk
  <2>2. Placements' = Placements
    BY <2>1 DEF Placements
  <2>3. CASE q.kind # "PlaceOrder"
    <3>1. SameKeys
      BY <1>6, <2>1, <2>3, ServedKeys DEF SameKeys, LateArrival
    <3> QED BY <2>2, <3>1, LivePlacementsSame
  <2>4. CASE q.kind = "PlaceOrder"
    <3> DEFINE n == Len(book) + 1
    <3>1. /\ DOMAIN book' = DOMAIN book \cup {n}
          /\ \A i \in DOMAIN book : book'[i] = book[i]
          /\ book'[n].ref = q.ref /\ book'[n].sig = q.sig
      BY <1>6, <2>1, <2>4, ServedPlacement DEF LateArrival, Acceptable
    <3> HIDE DEF n
    <3>2. LivePlacements' = LivePlacements
      <4>1. LivePlacements' = {<<book'[i].sig, book'[i].ref>> : i \in DOMAIN book'}
              \cup {<<p.sig, p.ref>> : p \in {p \in late' : p.kind = "PlaceOrder"}}
        BY DEF LivePlacements
      <4>2. {<<book'[i].sig, book'[i].ref>> : i \in DOMAIN book'}
              = {<<book[i].sig, book[i].ref>> : i \in DOMAIN book} \cup {<<q.sig, q.ref>>}
        BY <3>1
      <4>3. {<<p.sig, p.ref>> : p \in {p \in late : p.kind = "PlaceOrder"}}
              = {<<p.sig, p.ref>> : p \in {p \in late' : p.kind = "PlaceOrder"}}
                  \cup {<<q.sig, q.ref>>}
        BY <2>1, <2>4
      <4> QED BY <4>1, <4>2, <4>3 DEF LivePlacements
    <3> QED BY <2>2, <3>2
  <2> QED BY <2>3, <2>4
<1>7. CASE RecordResult
  <2>1. /\ log \in Seq(Record) /\ CurRecord("Result") \in Record
        /\ log' = log \/ log' = Append(log, CurRecord("Result"))
        /\ UNCHANGED <<book, late>>
    BY <1>7 DEF RecordResult, AppendSynced, AppendFailed, TypeOK, CurRecord, Record, Request, remote
  <2>2. Placements' = Placements
    BY <2>1, PlacementsAfterAppend DEF CurRecord, Placements
  <2> QED BY <2>1, <2>2 DEF LivePlacements
<1>8. CASE \/ \E s \in Signal, b \in 1 .. Len(book) : Modify(s, b) \/ Cancel(s, b) \/ SquareOff(s, b)
           \/ BrokerRefuses \/ PersistPlace \/ PersistModify \/ PersistCancel
           \/ \E b \in DOMAIN book, st \in Moves : BrokerMoves(b, st)
           \/ \E s \in Signal, saved \in BOOLEAN : Resolve(s, saved)
           \/ UNCHANGED vars
  <2>1. SameKeys /\ log' = log
    BY <1>8, QuietKeys
  <2>2. Placements' = Placements
    BY <2>1 DEF Placements
  <2> QED BY <2>1, <2>2, LivePlacementsSame
<1>9. CASE Restart
  <2>1. /\ UNCHANGED <<book, late>>
        /\ \/ log' = log
           \/ chain = "whole" /\ log' = SubSeq(log, 1, Len(log) - 1)
    BY <1>9 DEF Restart, remote
  <2>2. LivePlacements' = LivePlacements
    BY <2>1 DEF LivePlacements
  <2>3. CASE log' = log
    BY <2>2, <2>3 DEF Placements
  <2>4. CASE chain = "whole" /\ log' = SubSeq(log, 1, Len(log) - 1)
    <3> DEFINE tail == log[Len(log)]
    <3>1. /\ log \in Seq(Record) /\ Len(log) > 0
          /\ tail.op = "PlaceOrder" => tail.ref \notin LiveRefs
      BY <2>4 DEF TypeOK, DispatchInv, TailNotSent, Live
    <3>2. tail \in Record /\ (tail.op = "PlaceOrder" => <<tail.sig, tail.ref>> \in Placements)
      BY <3>1 DEF Placements
    <3>3. /\ Placements' \subseteq Placements
          /\ \A p \in Placements :
               p \in Placements' \/ (tail.op = "PlaceOrder" /\ p = <<tail.sig, tail.ref>>)
      BY <2>4, <3>1, PlacementsAfterCut
    <3> HIDE DEF tail
    <3>4. CASE Placements' = Placements
      BY <2>2, <3>4
    <3>5. CASE Placements' # Placements
      <4>1. tail.op = "PlaceOrder" /\ Placements' = Placements \ {<<tail.sig, tail.ref>>}
        BY <3>3, <3>5
      <4>2. tail.sig \in Signal /\ tail.ref \in Ref
        BY <3>2 DEF Record
      <4>3. \A p \in LivePlacements : p[1] # tail.sig
        BY <3>1, <3>2, <4>1, <4>2, LiveIsClaimed DEF Recorded
      <4>4. Contract!LoseIntent(tail.sig, tail.ref)
        BY <2>2, <4>1, <4>3 DEF Contract!LoseIntent
      <4> QED BY <4>2, <4>4 DEF Contract!Next
    <3> QED BY <3>4, <3>5
  <2> QED BY <2>1, <2>3, <2>4
<1> QED BY <1>1, <1>2, <1>3, <1>4, <1>5, <1>6, <1>7, <1>8, <1>9 DEF Next, Caller, Step, Broker

(* The write path keeps the contract of OrderOnce for every set of signals *)
(* and refs, however requests are lost or delayed and wherever the process *)
(* crashes.                                                                *)
THEOREM DispatchImplementsOrderOnce == Spec => ImplementsOrderOnce
BY ContractInitially, ContractStep, TypeCorrect, InvCorrect, PTL
   DEF Spec, ImplementsOrderOnce, Contract!Spec
=============================================================================
