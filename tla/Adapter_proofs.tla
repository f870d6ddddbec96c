--------------------------- MODULE Adapter_proofs ---------------------------
(***************************************************************************)
(* TLAPS proofs about BrokerAdapter, for either broker and any number of   *)
(* entries, quantities, faults, flattens, late requests and restarts: a    *)
(* flatten is safe, and what the adapters tell the engine is true of the   *)
(* broker.                                                                 *)
(***************************************************************************)
EXTENDS BrokerAdapter, FiniteSetTheorems, SequenceTheorems, WellFoundedInduction, TLAPS

-----------------------------------------------------------------------------
(* Rows, and what may become of one.                                       *)

RowType ==
    [kind : {"entry", "exit", "foreign"}, ref : Refs \cup {""}, parent : Nat,
     side : {"B", "S"}, qty : Nat \ {0}, filled : Nat,
     status : {"working", "complete", "rejected", "cancelled"}]

SoundRow(row) ==
    /\ row \in RowType
    /\ row.filled <= row.qty
    /\ row.status = "working" => row.filled < row.qty
    /\ row.kind = "entry" => row.side = "B" /\ row.parent = 0 /\ row.ref \in Refs
    /\ row.kind = "exit" => row.ref = ""

\* A row as it may look later: it keeps its purpose, only an entry is modified,
\* fills are not taken back, and a dead row stays as it is.
RowLater(old, new) ==
    /\ new.kind = old.kind /\ new.ref = old.ref
    /\ new.parent = old.parent /\ new.side = old.side
    /\ old.filled <= new.filled
    /\ old.kind # "entry" => new.qty = old.qty
    /\ old.status # "working" => new = old

Later(old, new) ==
    /\ Len(old) <= Len(new)
    /\ \A i \in 1 .. Len(old) : RowLater(old[i], new[i])

SoundBook(rows) == rows \in Seq(RowType) /\ \A i \in 1 .. Len(rows) : SoundRow(rows[i])

\* What every exit knows of its parent: it is dead, filled what the exit takes
\* out, and was itself an exit only at Kotak.
ParentOK(row, rows, brk) ==
    row.kind = "exit" =>
        /\ row.parent \in 1 .. Len(rows)
        /\ row.qty <= rows[row.parent].filled
        /\ rows[row.parent].status # "working"
        /\ rows[row.parent].kind # "foreign"
        /\ row.side = exit_side_for(rows[row.parent].side)
        /\ brk = "kite" => rows[row.parent].kind # "exit"

BookInv ==
    /\ SoundBook(book)
    /\ \A i \in 1 .. Len(book) :
          ParentOK(book[i], book, broker) /\ (book[i].kind = "exit" => book[i].parent < i)

\* A request that has not reached the book.
NewRow(row) ==
    /\ SoundRow(row) /\ row.status = "working" /\ row.kind # "foreign"
    /\ row.kind = "entry" => row.qty = EntryQty
    /\ ParentOK(row, book, broker)

LateInv == \A row \in late : NewRow(row)

-----------------------------------------------------------------------------
(* The mutation in progress and the fetch beside it.                       *)

SentCall ==
    /\ call = [op |-> "sent", ref |-> call.ref, id |-> call.id, need |-> call.need,
               row |-> call.row]
    /\ NewRow(call.row)
    /\ call.need \in Nat
    /\ call.row.kind = "exit" => call.row.qty = call.need
    /\ call.id \in 0 .. Len(book)
    /\ call.id # 0 => RowLater(call.row, book[call.id])

FlattenCall ==
    /\ call = [op |-> call.op, parent |-> call.parent, rows |-> call.rows,
               bad |-> call.bad, need |-> call.need]
    /\ SoundBook(call.rows) /\ Later(call.rows, book)
    /\ call.parent \in 1 .. Len(call.rows)
    /\ call.need \in Nat /\ call.need <= call.rows[call.parent].filled
    /\ call.rows[call.parent].kind # "foreign"
    /\ broker = "kite" => call.rows[call.parent].kind # "exit"
    /\ call.op = "decide" => book[call.parent].status # "working"

CallInv ==
    /\ call.op \in {"none", "sent", "cancel", "decide"}
    /\ call.op = "none" => call = Idle
    /\ call.op = "sent" => SentCall
    /\ call.op \in {"cancel", "decide"} => FlattenCall

FetchInv ==
    /\ fetch.op \in {"none", "read"}
    /\ fetch.op = "read" => SoundBook(fetch.rows) /\ Later(fetch.rows, book)

ResultInv ==
    /\ OkMeansFlat
    /\ result.out = "ok" => result.parent \in 1 .. Len(book)

-----------------------------------------------------------------------------
(* Requests: how many rows serve one purpose.                              *)
Purpose(row) == <<row.kind, row.ref, row.parent>>
EntryFor(r) == <<"entry", r, 0>>
ExitFor(p) == <<"exit", "", p>>

InBook(w) == {i \in 1 .. Len(book) : Purpose(book[i]) = w}
InLate(w) == {row \in late : Purpose(row) = w}
InFlight(w) == call.op = "sent" /\ call.id = 0 /\ Purpose(call.row) = w

Nowhere(w) == InBook(w) = {} /\ InLate(w) = {} /\ ~InFlight(w)

\* At most one row of the purpose is at the broker or can get there.
Alone(w) ==
    /\ \A i, j \in InBook(w) : i = j
    /\ \A s, t \in InLate(w) : s = t
    /\ InBook(w) = {} \/ InLate(w) = {}
    /\ InFlight(w) => InBook(w) = {} /\ InLate(w) = {}

Unseen == {"late", "renamed", "unreadable"}

AloneInv ==
    /\ \A r \in Refs : Alone(EntryFor(r))
    /\ \A r \in Refs \ placed : Nowhere(EntryFor(r))
    /\ \A p \in Nat : Alone(ExitFor(p)) \/ Blind(p, Unseen)

RefusedInv ==
    /\ refused \subseteq placed /\ placed \subseteq Refs
    /\ \A r \in refused : Nowhere(EntryFor(r))

\* Names and intents.
Names == [ref : Refs \cup {""}, id : Nat, exit : BOOLEAN]
Intents == [ref : Names, key : {"B", "S"} \X (Nat \ {0})]

\* The name is the one its order was placed under.
RightName(name, row) ==
    IF name.exit THEN row.kind = "exit" ELSE row.kind = "entry" /\ name = RefOf(row.ref)

NameTypes ==
    /\ DOMAIN ids \subseteq DOMAIN book /\ \A i \in DOMAIN ids : ids[i] \in Names
    /\ DOMAIN known \subseteq DOMAIN book /\ \A i \in DOMAIN known : known[i] \in Names
    /\ \A t \in DOMAIN tags : tags[t] \in Names
    /\ pending \in Seq(Intents) /\ Len(pending) <= kMaxPendingIntents
    /\ call.op = "sent" => call.ref \in Names /\ RightName(call.ref, call.row)
    /\ forgot \in BOOLEAN

\* Kotak's evidence is complete: nothing was forgotten, no order is foreign, and
\* no exit was flattened.
Clean ==
    /\ forgot = FALSE
    /\ \A i \in DOMAIN book : book[i].kind # "foreign"
    /\ \A i \in DOMAIN book : book[i].kind = "exit" => book[book[i].parent].kind # "exit"

RightIds == \A i \in DOMAIN ids : RightName(ids[i], book[i])
RightKnown == \A i \in DOMAIN known : book[i].kind = "entry" /\ known[i] = RefOf(book[i].ref)
RightNames == broker = "kite" \/ Clean => RightIds /\ RightKnown

\* Kite: a tag is the hash of an entry's name, or an exit's.
RightTag(t) ==
    \/ t.prefix = "bx" /\ tags[t].exit
    \/ \E r \in Refs : t = short_tag(r) /\ tags[t] = RefOf(r)
RightTags == broker = "kite" => \A t \in DOMAIN tags : RightTag(t)

\* Kotak: an entry that is or may get to the broker is bound to its row, or its
\* intent is pending under the shape it was placed with.
EntryIntent(r) == [ref |-> RefOf(r), key |-> <<"B", EntryQty>>]
Held(r) ==
    \/ Nowhere(EntryFor(r))
    \/ EntryIntent(r) \in Range(pending)
    \/ \E i \in InBook(EntryFor(r)) : i \in DOMAIN ids

Unmodified(rows) ==
    \A i \in DOMAIN rows : rows[i].kind = "entry" /\ i \notin DOMAIN ids => rows[i].qty = EntryQty

KotakClean ==
    /\ DOMAIN known \subseteq DOMAIN ids
    /\ \A n \in DOMAIN pending : pending[n].key[1] = "S" => pending[n].ref.exit
    /\ \A a \in anchored : a.exit \/ \E r \in placed : a = RefOf(r)
    /\ \A r \in Refs : Held(r)
    /\ Unmodified(book)
    /\ fetch.op = "read" => Unmodified(fetch.rows)

KotakInv ==
    broker = "kotak" =>
        /\ \A i \in DOMAIN ids : ids[i] \in anchored
        /\ Clean => KotakClean

NameInv == NameTypes /\ RightNames /\ RightTags /\ KotakInv

FlattenInv ==
    /\ broker \in {"kite", "kotak"}
    /\ BookInv /\ LateInv /\ CallInv /\ FetchInv /\ ResultInv /\ AloneInv

-----------------------------------------------------------------------------
(* Rows and books only move on.                                            *)

LEMMA RowLaterItself ==
  ASSUME NEW a, SoundRow(a)
  PROVE  RowLater(a, a)
<1>1. a.filled \in Nat
  BY DEF SoundRow, RowType
<1> QED BY <1>1 DEF RowLater

LEMMA RowLaterChain ==
  ASSUME NEW a, NEW b, NEW c, SoundRow(a), SoundRow(b), SoundRow(c),
         RowLater(a, b), RowLater(b, c)
  PROVE  RowLater(a, c)
<1>1. a.filled \in Nat /\ b.filled \in Nat /\ c.filled \in Nat
  BY DEF SoundRow, RowType
<1> QED BY <1>1 DEF RowLater

LEMMA LaterItself ==
  ASSUME NEW s, SoundBook(s)
  PROVE  Later(s, s)
<1>1. Len(s) \in Nat
  BY DEF SoundBook
<1> QED BY <1>1, RowLaterItself DEF SoundBook, Later

LEMMA LaterChain ==
  ASSUME NEW s, NEW t, NEW u, SoundBook(s), SoundBook(t), SoundBook(u),
         Later(s, t), Later(t, u)
  PROVE  Later(s, u)
<1>1. Len(s) \in Nat /\ Len(t) \in Nat /\ Len(u) \in Nat
  BY DEF SoundBook
<1>2. Len(s) <= Len(u)
  BY <1>1 DEF Later
<1>3. ASSUME NEW i \in 1 .. Len(s) PROVE RowLater(s[i], u[i])
  <2>1. i \in 1 .. Len(t) /\ i \in 1 .. Len(u)
    BY <1>1 DEF Later
  <2>2. SoundRow(s[i]) /\ SoundRow(t[i]) /\ SoundRow(u[i])
    BY <2>1 DEF SoundBook
  <2>3. RowLater(s[i], t[i]) /\ RowLater(t[i], u[i])
    BY <2>1 DEF Later
  <2> QED BY <2>2, <2>3, RowLaterChain
<1> QED BY <1>2, <1>3 DEF Later

LEMMA RowAppended ==
  ASSUME NEW s, NEW row, SoundBook(s), SoundRow(row)
  PROVE  /\ SoundBook(Append(s, row)) /\ Later(s, Append(s, row))
         /\ Len(Append(s, row)) = Len(s) + 1 /\ Append(s, row)[Len(s) + 1] = row
         /\ \A i \in 1 .. Len(s) : Append(s, row)[i] = s[i]
<1>0. row \in RowType
  BY DEF SoundRow
<1>1. s \in Seq(RowType) /\ row \in RowType /\ Len(s) \in Nat
  BY <1>0 DEF SoundBook
<1>2. /\ Append(s, row) \in Seq(RowType) /\ Len(Append(s, row)) = Len(s) + 1
      /\ Append(s, row)[Len(s) + 1] = row
      /\ \A i \in 1 .. Len(s) : Append(s, row)[i] = s[i]
  BY <1>1, AppendProperties
<1>3. \A i \in 1 .. Len(s) + 1 : SoundRow(Append(s, row)[i])
  <2> SUFFICES ASSUME NEW i \in 1 .. Len(s) + 1 PROVE SoundRow(Append(s, row)[i])
    OBVIOUS
  <2>1. CASE i = Len(s) + 1
    BY <1>2, <2>1
  <2>2. CASE i \in 1 .. Len(s)
    BY <1>2, <2>2 DEF SoundBook
  <2> QED BY <1>1, <2>1, <2>2
<1>4. \A i \in 1 .. Len(s) : RowLater(s[i], Append(s, row)[i])
  BY <1>2, RowLaterItself DEF SoundBook
<1> QED BY <1>1, <1>2, <1>3, <1>4 DEF SoundBook, Later

Put(s, i, row) == [s EXCEPT ![i] = row]

LEMMA RowReplaced ==
  ASSUME NEW s, SoundBook(s), NEW i \in 1 .. Len(s), NEW row, SoundRow(row),
         RowLater(s[i], row)
  PROVE  /\ SoundBook(Put(s, i, row)) /\ Later(s, Put(s, i, row))
         /\ Len(Put(s, i, row)) = Len(s) /\ Put(s, i, row)[i] = row
<1> DEFINE t == Put(s, i, row)
<1>0. row \in RowType
  BY DEF SoundRow
<1>1. s \in Seq(RowType) /\ row \in RowType /\ Len(s) \in Nat
  BY <1>0 DEF SoundBook
<1>2. /\ t \in Seq(RowType) /\ Len(t) = Len(s) /\ t[i] = row
      /\ \A j \in 1 .. Len(s) : j # i => t[j] = s[j]
  BY <1>1, ExceptSeq DEF Put
<1> HIDE DEF t
<1>3. \A j \in 1 .. Len(s) : SoundRow(t[j]) /\ RowLater(s[j], t[j])
  BY <1>2, RowLaterItself DEF SoundBook
<1>4. SoundBook(t) /\ Later(s, t)
  BY <1>1, <1>2, <1>3 DEF SoundBook, Later
<1> QED BY <1>2, <1>4 DEF t

LEMMA DeadStays ==
  ASSUME NEW s, NEW t, NEW i, Later(s, t), i \in 1 .. Len(s), s[i].status # "working"
  PROVE  t[i] = s[i]
BY DEF Later, RowLater

LEMMA ParentStays ==
  ASSUME SoundBook(book), SoundBook(book'), Later(book, book'), broker' = broker,
         NEW old, NEW new, SoundRow(old), SoundRow(new), RowLater(old, new), ParentOK(old, book, broker)
  PROVE  ParentOK(new, book', broker')
<1> SUFFICES ASSUME new.kind = "exit"
             PROVE  /\ new.parent \in 1 .. Len(book')
                    /\ new.qty <= book'[new.parent].filled
                    /\ book'[new.parent].status # "working"
                    /\ book'[new.parent].kind # "foreign"
                    /\ new.side = exit_side_for(book'[new.parent].side)
                    /\ broker' = "kite" => book'[new.parent].kind # "exit"
  BY DEF ParentOK
<1>1. old.kind = "exit" /\ new.parent = old.parent /\ new.qty = old.qty /\ new.side = old.side
  BY DEF RowLater
<1>2. old.parent \in 1 .. Len(book) /\ book[old.parent].status # "working"
  BY <1>1 DEF ParentOK
<1>3. book'[old.parent] = book[old.parent]
  BY <1>2 DEF Later, RowLater
<1>4. Len(book) \in Nat /\ Len(book') \in Nat /\ Len(book) <= Len(book')
  BY DEF SoundBook, Later
<1>5. new.parent \in 1 .. Len(book')
  BY <1>1, <1>2, <1>4
<1> QED BY <1>1, <1>2, <1>3, <1>5 DEF ParentOK

\* The book as it may be one step later.
Grown == SoundBook(book') /\ Later(book, book') /\ broker' = broker

LEMMA BookUpdated ==
  ASSUME BookInv, Grown, Len(book') = Len(book)
  PROVE  BookInv'
<1>1. ASSUME NEW i \in 1 .. Len(book') PROVE ParentOK(book'[i], book', broker')
  <2>1. i \in 1 .. Len(book)
    BY <1>1
  <2>2. SoundRow(book[i]) /\ SoundRow(book'[i]) /\ RowLater(book[i], book'[i]) /\ ParentOK(book[i], book, broker)
    BY <1>1, <2>1 DEF BookInv, Grown, SoundBook, Later
  <2>3. SoundBook(book)
    BY DEF BookInv
  <2> QED BY <2>2, <2>3, ParentStays DEF Grown
<1>2. ASSUME NEW i \in 1 .. Len(book'), book'[i].kind = "exit" PROVE book'[i].parent < i
  BY <1>2 DEF BookInv, Grown, Later, RowLater
<1> QED BY <1>1, <1>2 DEF BookInv, Grown

LEMMA BookAppended ==
  ASSUME BookInv, NEW row, SoundRow(row), ParentOK(row, book, broker), broker' = broker,
         book' = Append(book, row)
  PROVE  BookInv' /\ Grown /\ Len(book') = Len(book) + 1 /\ book'[Len(book) + 1] = row
<1>0. SoundBook(book) /\ Len(book) \in Nat
  BY DEF BookInv, SoundBook
<1>1. /\ Grown /\ Len(book') = Len(book) + 1 /\ book'[Len(book) + 1] = row
      /\ \A i \in 1 .. Len(book) : book'[i] = book[i]
  BY <1>0, RowAppended DEF Grown
<1>2. ASSUME NEW i \in 1 .. Len(book')
      PROVE  ParentOK(book'[i], book', broker') /\ (book'[i].kind = "exit" => book'[i].parent < i)
  <2>1. CASE i = Len(book) + 1
    <3>1. ParentOK(row, book', broker')
      BY <1>0, <1>1, RowLaterItself, ParentStays DEF Grown
    <3>2. row.kind = "exit" => row.parent < i
      BY <1>0, <2>1 DEF ParentOK
    <3> QED BY <1>1, <2>1, <3>1, <3>2
  <2>2. CASE i \in 1 .. Len(book)
    <3>1. SoundRow(book[i]) /\ ParentOK(book[i], book, broker) /\ book'[i] = book[i]
      BY <1>1, <2>2 DEF BookInv, SoundBook
    <3>2. ParentOK(book[i], book', broker')
      BY <1>0, <1>1, <3>1, RowLaterItself, ParentStays DEF Grown
    <3> QED BY <2>2, <3>1, <3>2 DEF BookInv
  <2> QED BY <1>0, <1>1, <2>1, <2>2
<1> QED BY <1>1, <1>2 DEF BookInv, Grown

-----------------------------------------------------------------------------
(* What a step leaves alone stays sound while the book moves on.           *)

NewRowIn(row, rows, brk) ==
    /\ SoundRow(row) /\ row.status = "working" /\ row.kind # "foreign"
    /\ row.kind = "entry" => row.qty = EntryQty
    /\ ParentOK(row, rows, brk)

LEMMA NewRowStays ==
  ASSUME BookInv, Grown, NEW row, NewRow(row)
  PROVE  NewRowIn(row, book', broker')
<1>1. SoundBook(book) /\ SoundRow(row) /\ ParentOK(row, book, broker)
  BY DEF BookInv, NewRow
<1>2. ParentOK(row, book', broker')
  BY <1>1, RowLaterItself, ParentStays DEF Grown
<1> QED BY <1>2 DEF NewRow, NewRowIn

LEMMA LateStays ==
  ASSUME BookInv, Grown, LateInv, \A row \in late' : row \in late \/ NewRow(row)
  PROVE  LateInv'
<1>1. ASSUME NEW row \in late' PROVE NewRowIn(row, book', broker')
  <2>1. NewRow(row)
    BY DEF LateInv
  <2> QED BY <2>1, NewRowStays
<1> QED BY <1>1 DEF LateInv, NewRow, NewRowIn

LEMMA CallStays ==
  ASSUME BookInv, Grown, CallInv, call' = call
  PROVE  CallInv'
<1>0. SoundBook(book) /\ Len(book) \in Nat /\ Len(book') \in Nat /\ Len(book) <= Len(book')
  BY DEF BookInv, SoundBook, Grown, Later
<1>1. ASSUME call.op = "sent" PROVE SentCall'
  <2>1. SentCall
    BY <1>1 DEF CallInv
  <2>2. NewRowIn(call.row, book', broker')
    BY <2>1, NewRowStays DEF SentCall
  <2>3. call.id \in 0 .. Len(book')
    BY <2>1, <1>0 DEF SentCall
  <2>4. ASSUME call.id # 0 PROVE RowLater(call.row, book'[call.id])
    <3>1. call.id \in 1 .. Len(book) /\ call.id \in 1 .. Len(book') /\ RowLater(call.row, book[call.id])
      BY <2>1, <2>4, <1>0 DEF SentCall
    <3>2. SoundRow(call.row) /\ SoundRow(book[call.id]) /\ SoundRow(book'[call.id])
      BY <2>1, <3>1, <1>0 DEF SentCall, NewRow, SoundBook, Grown
    <3>3. RowLater(book[call.id], book'[call.id])
      BY <3>1 DEF Grown, Later
    <3> QED BY <3>1, <3>2, <3>3, RowLaterChain
  <2>5. NewRow(call.row)'
    BY <2>2 DEF NewRow, NewRowIn
  <2> QED BY <2>1, <2>3, <2>4, <2>5 DEF SentCall
<1>2. ASSUME call.op \in {"cancel", "decide"} PROVE FlattenCall'
  <2>1. FlattenCall
    BY <1>2 DEF CallInv
  <2>2. SoundBook(call.rows) /\ Later(call.rows, book) /\ call.parent \in 1 .. Len(call.rows)
    BY <2>1 DEF FlattenCall
  <2>3. Later(call.rows, book')
    BY <1>0, <2>2, LaterChain DEF Grown
  <2>4. call.parent \in 1 .. Len(book)
    BY <1>0, <2>2 DEF Later, SoundBook
  <2>5. call.op = "decide" => book'[call.parent].status # "working"
    BY <2>1, <2>4 DEF FlattenCall, Grown, Later, RowLater
  <2> QED BY <2>1, <2>3, <2>5 DEF FlattenCall, Grown
<1> QED BY <1>1, <1>2 DEF CallInv, Idle

LEMMA FetchStays ==
  ASSUME BookInv, Grown, FetchInv, fetch' = fetch
  PROVE  FetchInv'
<1>1. SoundBook(book) /\ SoundBook(book') /\ Later(book, book')
  BY DEF BookInv, Grown
<1> QED BY <1>1, LaterChain DEF FetchInv

LEMMA ResultStays ==
  ASSUME BookInv, Grown, ResultInv, result' = result, blind \subseteq blind'
  PROVE  ResultInv'
<1> SUFFICES ASSUME result.out = "ok" PROVE OkMeansFlat' /\ result.parent \in 1 .. Len(book')
  BY DEF ResultInv, OkMeansFlat
<1>0. Len(book) \in Nat /\ Len(book') \in Nat /\ Len(book) <= Len(book') /\ result'.out = "ok"
  BY DEF BookInv, SoundBook, Grown, Later
<1>1. result.parent \in 1 .. Len(book) /\ result.parent \in 1 .. Len(book')
  BY <1>0 DEF ResultInv
<1>2. book'[result.parent].status # "working"
  BY <1>1 DEF ResultInv, OkMeansFlat, Grown, Later, RowLater
<1>3. ASSUME NEW i \in ExitRows(book, result.parent), book[i].qty >= result.need
      PROVE  i \in ExitRows(book', result.parent) /\ book'[i].qty >= result.need
  <2>1. i \in 1 .. Len(book) /\ book[i].kind = "exit" /\ book[i].parent = result.parent
    BY DEF ExitRows, BookInv, SoundBook
  <2>2. book'[i].kind = "exit" /\ book'[i].parent = result.parent /\ book'[i].qty = book[i].qty
    BY <2>1 DEF Grown, Later, RowLater
  <2>3. i \in DOMAIN book'
    BY <1>0, <2>1 DEF Grown, SoundBook
  <2> QED BY <1>3, <2>2, <2>3 DEF ExitRows
<1>4. Blind(result.parent, {"stranger"}) => Blind(result.parent, {"stranger"})'
  BY DEF Blind
<1>5. \/ result.need = 0
      \/ \E i \in ExitRows(book, result.parent) : book[i].qty >= result.need
      \/ Blind(result.parent, {"stranger"})
  BY DEF ResultInv, OkMeansFlat
<1>6. \/ result.need = 0
      \/ \E i \in ExitRows(book', result.parent) : book'[i].qty >= result.need
      \/ Blind(result.parent, {"stranger"})'
  BY <1>3, <1>4, <1>5
<1> QED BY <1>1, <1>2, <1>6 DEF OkMeansFlat, Blind

-----------------------------------------------------------------------------
(* A step does not double a request.                                       *)

Keeps(w) == (Alone(w) => Alone(w)') /\ (Nowhere(w) => Nowhere(w)')

LEMMA KeepsSame ==
  ASSUME NEW w, InBook(w)' = InBook(w), late' = late, InFlight(w)' => InFlight(w)
  PROVE  Keeps(w)
<1>1. InLate(w)' = InLate(w)
  BY DEF InLate
<1> QED BY <1>1 DEF Keeps, Alone, Nowhere

LEMMA SameInBook ==
  ASSUME BookInv, Grown, Len(book') = Len(book), NEW w
  PROVE  InBook(w)' = InBook(w)
<1>1. \A i \in 1 .. Len(book) : Purpose(book'[i]) = Purpose(book[i])
  BY DEF Grown, Later, RowLater, Purpose
<1> QED BY <1>1 DEF InBook

LEMMA MoreInBook ==
  ASSUME BookInv, NEW row, SoundRow(row), book' = Append(book, row), NEW w
  PROVE  InBook(w)' = InBook(w) \cup (IF Purpose(row) = w THEN {Len(book) + 1} ELSE {})
<1>0. SoundBook(book) /\ Len(book) \in Nat
  BY DEF BookInv, SoundBook
<1>1. /\ Len(book') = Len(book) + 1 /\ book'[Len(book) + 1] = row
      /\ \A i \in 1 .. Len(book) : book'[i] = book[i]
  BY <1>0, RowAppended
<1>2. ASSUME NEW i \in InBook(w)' PROVE i \in InBook(w) \cup (IF Purpose(row) = w THEN {Len(book) + 1} ELSE {})
  <2>1. i \in 1 .. Len(book) + 1 /\ Purpose(book'[i]) = w
    BY <1>1 DEF InBook
  <2>2. CASE i = Len(book) + 1
    BY <1>1, <2>1, <2>2
  <2>3. CASE i \in 1 .. Len(book)
    BY <1>1, <2>1, <2>3 DEF InBook
  <2> QED BY <1>0, <2>1, <2>2, <2>3
<1>3. ASSUME NEW i \in InBook(w) PROVE i \in InBook(w)'
  <2>1. i \in 1 .. Len(book) /\ Purpose(book[i]) = w
    BY DEF InBook
  <2>2. i \in 1 .. Len(book') /\ book'[i] = book[i]
    BY <1>0, <1>1, <2>1
  <2> QED BY <2>1, <2>2 DEF InBook
<1>4. ASSUME Purpose(row) = w PROVE Len(book) + 1 \in InBook(w)'
  <2>1. Len(book) + 1 \in 1 .. Len(book')
    BY <1>0, <1>1
  <2> QED BY <1>1, <1>4, <2>1 DEF InBook
<1> QED BY <1>2, <1>3, <1>4

LEMMA KeepsArriving ==
  ASSUME BookInv, NEW w, call.op = "sent", call.id = 0, SoundRow(call.row),
         book' = Append(book, call.row), late' = late, ~InFlight(w)'
  PROVE  Keeps(w)
<1>1. InBook(w)' = InBook(w) \cup (IF Purpose(call.row) = w THEN {Len(book) + 1} ELSE {})
  BY MoreInBook
<1>2. InLate(w)' = InLate(w)
  BY DEF InLate
<1>3. CASE Purpose(call.row) = w
  <2>1. InFlight(w)
    BY <1>3 DEF InFlight
  <2> QED BY <1>1, <1>2, <1>3, <2>1 DEF Keeps, Alone, Nowhere
<1>4. CASE Purpose(call.row) # w
  BY <1>1, <1>2, <1>4 DEF Keeps, Alone, Nowhere
<1> QED BY <1>3, <1>4

LEMMA KeepsArrivingLate ==
  ASSUME BookInv, NEW w, NEW row \in late, SoundRow(row), book' = Append(book, row),
         late' = late \ {row}, call' = call
  PROVE  Keeps(w)
<1>1. InBook(w)' = InBook(w) \cup (IF Purpose(row) = w THEN {Len(book) + 1} ELSE {})
  BY MoreInBook
<1>2. InLate(w)' = InLate(w) \ {row}
  BY DEF InLate
<1>3. InFlight(w)' = InFlight(w)
  BY DEF InFlight
<1>4. CASE Purpose(row) = w
  <2>1. row \in InLate(w)
    BY <1>4 DEF InLate
  <2> QED BY <1>1, <1>2, <1>3, <1>4, <2>1 DEF Keeps, Alone, Nowhere
<1>5. CASE Purpose(row) # w
  <2>1. InLate(w)' = InLate(w)
    BY <1>2, <1>5 DEF InLate
  <2> QED BY <1>1, <1>3, <1>5, <2>1 DEF Keeps, Alone, Nowhere
<1> QED BY <1>4, <1>5

LEMMA KeepsGivingUp ==
  ASSUME NEW w, book' = book, call' = Idle,
         late' = late \/ (call.op = "sent" /\ call.id = 0 /\ late' = late \cup {call.row})
  PROVE  Keeps(w)
<1>1. InBook(w)' = InBook(w)
  BY DEF InBook
<1>2. ~InFlight(w)'
  BY DEF InFlight, Idle
<1>3. CASE late' = late
  BY <1>1, <1>2, <1>3, KeepsSame
<1>4. CASE call.op = "sent" /\ call.id = 0 /\ late' = late \cup {call.row}
  <2>1. CASE Purpose(call.row) = w
    <3>1. InFlight(w)
      BY <1>4, <2>1 DEF InFlight
    <3>2. InLate(w)' = InLate(w) \cup {call.row}
      BY <1>4, <2>1 DEF InLate
    <3> QED BY <1>1, <1>2, <3>1, <3>2 DEF Keeps, Alone, Nowhere
  <2>2. CASE Purpose(call.row) # w
    <3>1. InLate(w)' = InLate(w)
      BY <1>4, <2>2 DEF InLate
    <3> QED BY <1>1, <1>2, <3>1 DEF Keeps, Alone, Nowhere
  <2> QED BY <2>1, <2>2
<1> QED BY <1>3, <1>4

LEMMA KeepsStranger ==
  ASSUME BookInv, NEW w, NEW row, SoundRow(row), Purpose(row) # w,
         book' = Append(book, row), late' = late, call' = call
  PROVE  Keeps(w)
<1>1. InBook(w)' = InBook(w)
  BY MoreInBook
<1>2. InFlight(w)' = InFlight(w)
  BY DEF InFlight
<1> QED BY <1>1, <1>2, KeepsSame

\* The purposes that must not be served twice.
KeepsAll == (\A r \in Refs : Keeps(EntryFor(r))) /\ (\A p \in Nat : Keeps(ExitFor(p)))

LEMMA AloneStays ==
  ASSUME AloneInv, KeepsAll, placed' = placed, blind \subseteq blind'
  PROVE  AloneInv'
<1>1. ASSUME NEW r \in Refs PROVE Alone(EntryFor(r))'
  BY DEF AloneInv, KeepsAll, Keeps
<1>2. ASSUME NEW r \in Refs \ placed PROVE Nowhere(EntryFor(r))'
  BY DEF AloneInv, KeepsAll, Keeps
<1>3. ASSUME NEW p \in Nat PROVE Alone(ExitFor(p))' \/ Blind(p, Unseen)'
  BY DEF AloneInv, KeepsAll, Keeps, Blind
<1> QED BY <1>1, <1>2, <1>3 DEF AloneInv

LEMMA RefusedStays ==
  ASSUME RefusedInv, KeepsAll, placed' = placed, refused' = refused
  PROVE  RefusedInv'
<1>1. ASSUME NEW r \in refused PROVE Nowhere(EntryFor(r))'
  BY DEF RefusedInv, KeepsAll, Keeps
<1> QED BY <1>1 DEF RefusedInv

-----------------------------------------------------------------------------
(* place and its answers.                                                  *)
DeedInv == FlattenInv /\ RefusedInv

LEMMA StillGrown ==
  ASSUME BookInv, book' = book, broker' = broker
  PROVE  Grown /\ BookInv' /\ Len(book') = Len(book)
<1>1. Grown
  BY LaterItself DEF BookInv, Grown
<1> QED BY <1>1, BookUpdated

LEMMA IdleIsFine ==
  ASSUME call' = Idle
  PROVE  CallInv'
BY DEF CallInv, Idle

LEMMA EntryQtyIsSome == EntryQty \in Qtys /\ EntryQty \in Nat \ {0}
<1>1. \E q \in Qtys : \A r \in Qtys : r <= q
  BY AdapterAssumption
<1>2. EntryQty \in Qtys
  BY <1>1 DEF EntryQty
<1> QED BY <1>2, AdapterAssumption

LEMMA EntryRow ==
  ASSUME NEW r \in Refs
  PROVE  /\ SoundRow(Row("entry", r, 0, "B", EntryQty))
         /\ Row("entry", r, 0, "B", EntryQty).status = "working"
         /\ Row("entry", r, 0, "B", EntryQty).kind = "entry"
         /\ Row("entry", r, 0, "B", EntryQty).qty = EntryQty
         /\ Purpose(Row("entry", r, 0, "B", EntryQty)) = EntryFor(r)
<1> DEFINE row == Row("entry", r, 0, "B", EntryQty)
<1>1. EntryQty \in Nat \ {0}
  BY EntryQtyIsSome
<1>2. /\ row.kind = "entry" /\ row.ref = r /\ row.parent = 0 /\ row.side = "B"
      /\ row.qty = EntryQty /\ row.filled = 0 /\ row.status = "working"
  BY DEF Row
<1>3. row \in RowType
  BY <1>1 DEF Row, RowType
<1> HIDE DEF row
<1>4. SoundRow(row)
  BY <1>1, <1>2, <1>3 DEF SoundRow
<1>5. Purpose(row) = EntryFor(r)
  BY <1>2 DEF Purpose, EntryFor
<1> QED BY <1>2, <1>4, <1>5 DEF row

LEMMA PlaceKeeps ==
  ASSUME DeedInv, NEW r \in Refs, Place(r)
  PROVE  DeedInv'
<1> USE DEF DeedInv, FlattenInv
<1> DEFINE row == Row("entry", r, 0, "B", EntryQty)
<1>1. /\ call = Idle /\ r \notin placed /\ placed' = placed \cup {r}
      /\ call' = [op |-> "sent", ref |-> RefOf(r), id |-> 0, need |-> 0, row |-> row]
      /\ broker' = broker /\ book' = book /\ late' = late /\ fetch' = fetch
      /\ result' = result /\ refused' = refused /\ blind' = blind
  BY DEF Place
<1>2. /\ SoundRow(row) /\ row.status = "working" /\ row.kind = "entry" /\ row.qty = EntryQty
      /\ Purpose(row) = EntryFor(r)
  BY EntryRow
<1> HIDE DEF row
<1>3. Grown /\ BookInv' /\ Len(book') = Len(book)
  BY <1>1, StillGrown
<1>4. LateInv' /\ FetchInv' /\ ResultInv'
  BY <1>1, <1>3, LateStays, FetchStays, ResultStays
<1>5. CallInv'
  <2>1. NewRow(row)'
    BY <1>2 DEF NewRow, ParentOK
  <2>2. Len(book') \in Nat
    BY <1>3 DEF BookInv, SoundBook
  <2>3. SentCall'
    BY <1>1, <1>2, <2>1, <2>2 DEF SentCall
  <2> QED BY <1>1, <2>3 DEF CallInv
<1>6. /\ \A w : InBook(w)' = InBook(w) /\ InLate(w)' = InLate(w) /\ ~InFlight(w)
      /\ \A w : InFlight(w)' <=> w = EntryFor(r)
  BY <1>1, <1>2 DEF InBook, InLate, InFlight, Idle
<1>7. Nowhere(EntryFor(r))
  BY <1>1 DEF AloneInv
<1>8. Alone(EntryFor(r))'
  BY <1>6, <1>7 DEF Alone, Nowhere
<1>9. \A w : w # EntryFor(r) => Keeps(w)
  BY <1>6 DEF Keeps, Alone, Nowhere
<1>10. AloneInv'
  <2>1. ASSUME NEW s \in Refs PROVE Alone(EntryFor(s))'
    BY <1>8, <1>9 DEF AloneInv, Keeps
  <2>2. ASSUME NEW s \in Refs \ placed' PROVE Nowhere(EntryFor(s))'
    <3>1. s # r /\ s \in Refs \ placed
      BY <1>1
    <3>2. EntryFor(s) # EntryFor(r)
      BY <3>1 DEF EntryFor
    <3> QED BY <1>9, <3>1, <3>2 DEF AloneInv, Keeps
  <2>3. ASSUME NEW p \in Nat PROVE Alone(ExitFor(p))' \/ Blind(p, Unseen)'
    <3>1. ExitFor(p) # EntryFor(r)
      BY DEF ExitFor, EntryFor
    <3> QED BY <1>1, <1>9, <3>1 DEF AloneInv, Keeps, Blind
  <2> QED BY <2>1, <2>2, <2>3 DEF AloneInv
<1>11. RefusedInv'
  <2>1. ASSUME NEW s \in refused PROVE Nowhere(EntryFor(s))'
    <3>1. EntryFor(s) # EntryFor(r)
      BY <1>1 DEF RefusedInv, EntryFor
    <3> QED BY <1>9, <3>1 DEF RefusedInv, Keeps
  <2> QED BY <1>1, <2>1 DEF RefusedInv
<1> QED BY <1>1, <1>3, <1>4, <1>5, <1>10, <1>11

LEMMA ArriveKeeps ==
  ASSUME DeedInv, Arrive
  PROVE  DeedInv' /\ Grown
<1> USE DEF DeedInv, FlattenInv
<1>1. /\ call.op = "sent" /\ call.id = 0 /\ book' = Append(book, call.row)
      /\ call' = [call EXCEPT !.id = Len(book) + 1]
      /\ broker' = broker /\ late' = late /\ fetch' = fetch /\ placed' = placed
      /\ result' = result /\ refused' = refused /\ blind' = blind
  BY DEF Arrive, history
<1>2. SentCall /\ NewRow(call.row) /\ SoundRow(call.row) /\ ParentOK(call.row, book, broker)
  BY <1>1 DEF CallInv, SentCall, NewRow
<1>3. BookInv' /\ Grown /\ Len(book') = Len(book) + 1 /\ book'[Len(book) + 1] = call.row
  BY <1>1, <1>2, BookAppended
<1>4. LateInv' /\ FetchInv' /\ ResultInv'
  BY <1>1, <1>3, LateStays, FetchStays, ResultStays
<1>5. Len(book) \in Nat
  BY DEF BookInv, SoundBook
<1>6. call' = [op |-> "sent", ref |-> call.ref, id |-> Len(book) + 1, need |-> call.need,
               row |-> call.row]
  BY <1>1, <1>2 DEF SentCall
<1>7. CallInv'
  <2>1. NewRowIn(call.row, book', broker')
    BY <1>2, <1>3, NewRowStays
  <2>2. RowLater(call.row, book'[Len(book) + 1])
    BY <1>2, <1>3, RowLaterItself
  <2>3. NewRow(call.row)'
    BY <1>6, <2>1 DEF NewRow, NewRowIn
  <2>4. SentCall'
    BY <1>2, <1>3, <1>5, <1>6, <2>2, <2>3 DEF SentCall
  <2> QED BY <1>6, <2>4 DEF CallInv
<1>8. \A w : ~InFlight(w)'
  BY <1>5, <1>6 DEF InFlight
<1>9. KeepsAll
  BY <1>1, <1>2, <1>8, KeepsArriving DEF KeepsAll
<1> QED BY <1>1, <1>3, <1>4, <1>7, <1>9, AloneStays, RefusedStays

LEMMA ArriveLateKeeps ==
  ASSUME DeedInv, ArriveLate
  PROVE  DeedInv' /\ Grown
<1> USE DEF DeedInv, FlattenInv
<1>1. PICK row \in late : late' = late \ {row} /\ book' = Append(book, row)
  BY DEF ArriveLate
<1>2. /\ broker' = broker /\ call' = call /\ fetch' = fetch /\ placed' = placed
      /\ result' = result /\ refused' = refused /\ blind' = blind
  BY DEF ArriveLate, history
<1>3. SoundRow(row) /\ ParentOK(row, book, broker)
  BY DEF LateInv, NewRow
<1>4. BookInv' /\ Grown
  BY <1>1, <1>2, <1>3, BookAppended
<1>5. LateInv' /\ CallInv' /\ FetchInv' /\ ResultInv'
  BY <1>1, <1>2, <1>4, LateStays, CallStays, FetchStays, ResultStays
<1>6. KeepsAll
  BY <1>1, <1>2, <1>3, KeepsArrivingLate DEF KeepsAll
<1> QED BY <1>2, <1>4, <1>5, <1>6, AloneStays, RefusedStays

LEMMA AcceptedIsFlat ==
  ASSUME DeedInv, call.op = "sent", call.id # 0, book' = book, broker' = broker,
         result' = Returned("ok"), blind' = blind
  PROVE  ResultInv'
<1> USE DEF DeedInv, FlattenInv
<1>1. SentCall /\ NewRow(call.row)
  BY DEF CallInv, SentCall
<1>2. CASE call.row.kind # "exit"
  <2>1. result' = result
    BY <1>2 DEF Returned
  <2> QED BY <2>1, StillGrown, ResultStays
<1>3. CASE call.row.kind = "exit"
  <2>1. result' = [parent |-> call.row.parent, out |-> "ok", need |-> call.need]
    BY <1>3 DEF Returned
  <2>2. call.row.parent \in 1 .. Len(book) /\ book[call.row.parent].status # "working"
    BY <1>1, <1>3 DEF NewRow, ParentOK
  <2>3. call.id \in 1 .. Len(book) /\ RowLater(call.row, book[call.id])
    BY <1>1 DEF SentCall, BookInv, SoundBook
  <2>4. call.id \in DOMAIN book
    BY <2>3 DEF BookInv, SoundBook
  <2>5. /\ book[call.id].kind = "exit" /\ book[call.id].parent = call.row.parent
        /\ book[call.id].qty = call.need /\ call.need \in Nat
    BY <1>1, <1>3, <2>3 DEF SentCall, RowLater
  <2>6. call.id \in ExitRows(book, call.row.parent) /\ book[call.id].qty >= call.need
    BY <2>4, <2>5 DEF ExitRows
  <2>7. \E i \in ExitRows(book', result'.parent) : book'[i].qty >= result'.need
    BY <2>1, <2>6
  <2>8. result'.parent \in 1 .. Len(book') /\ book'[result'.parent].status # "working"
    BY <2>1, <2>2
  <2> QED BY <2>7, <2>8 DEF ResultInv, OkMeansFlat
<1> QED BY <1>2, <1>3

LEMMA AckKeeps ==
  ASSUME DeedInv, PlaceAck \/ PlaceAckNoId
  PROVE  DeedInv' /\ Grown
<1> USE DEF DeedInv, FlattenInv
<1>1. /\ call.op = "sent" /\ call.id # 0 /\ call' = Idle /\ result' = Returned("ok")
      /\ book' = book /\ broker' = broker /\ late' = late /\ fetch' = fetch
      /\ placed' = placed /\ refused' = refused /\ blind' = blind
  BY DEF PlaceAck, PlaceAckNoId, history
<1>2. Grown /\ BookInv' /\ Len(book') = Len(book)
  BY <1>1, StillGrown
<1>3. LateInv' /\ CallInv' /\ FetchInv' /\ ResultInv'
  BY <1>1, <1>2, LateStays, IdleIsFine, FetchStays, AcceptedIsFlat
<1>4. KeepsAll
  BY <1>1, KeepsGivingUp DEF KeepsAll
<1> QED BY <1>1, <1>2, <1>3, <1>4, AloneStays, RefusedStays

LEMMA NotOkIsFine ==
  ASSUME DeedInv, Grown, blind \subseteq blind', result' = result \/ result'.out # "ok"
  PROVE  ResultInv'
<1>1. CASE result' = result
  BY <1>1, ResultStays DEF DeedInv, FlattenInv
<1>2. CASE result'.out # "ok"
  BY <1>2 DEF ResultInv, OkMeansFlat
<1> QED BY <1>1, <1>2

\* An answer that leaves the order possibly live is mapped to an ambiguous error
\* or to one of MayHideLive (map_http_error, map_kotak_error, guard_mutation).
LEMMA LiveErrorsAreAmbiguous ==
  ASSUME broker \in {"kite", "kotak"}, NEW e \in ErrorsFor(TRUE)
  PROVE  is_ambiguous_outcome(e) \/ e \in MayHideLive
<1>0. \A b \in {"kite", "kotak"} : ErrorsOf[b][TRUE] =
        {mutation_error(b, a) : a \in {x \in Answer : TRUE => MayBeLive(b, x)}}
  BY DEF ErrorsOf
<1>1. PICK a \in Answer : MayBeLive(broker, a) /\ e = mutation_error(broker, a)
  BY <1>0 DEF ErrorsFor
<1>2. a.status \in Statuses /\ a.verdict \in Verdicts
  BY DEF Answer
<1>3. CASE a.status = 0 \/ (a.status = 200 /\ a.verdict = "none")
  <2>1. e = make_error("Network") \/ e = make_error("Unknown")
    BY <1>1, <1>3 DEF mutation_error, kite_mutation_error, kotak_mutation_error
  <2> QED BY <2>1 DEF make_error, default_action_for, Error, is_ambiguous_outcome
<1>4. CASE ~(a.status = 0 \/ (a.status = 200 /\ a.verdict = "none")) /\ broker = "kite"
  <2>1. e = map_http_error(a)
    BY <1>1, <1>4 DEF mutation_error, kite_mutation_error
  <2>2. CASE \/ a.verdict = "session" \/ a.status = 401
             \/ a.verdict = "throttle" \/ a.status = 429
             \/ a.status # 404 /\ a.verdict = "margin"
    <3>1. \/ e = Error("SessionExpired", "ReEstablishSession")
          \/ e = Error("RateLimited", "RetrySafe")
          \/ e = Error("InsufficientFunds", "DoNotRetry")
          \/ e = Error("OrderNotFound", "ReconcileFirst")
      BY <2>1, <2>2 DEF map_http_error
    <3> QED BY <1>4, <3>1 DEF MayHideLive, Error, is_ambiguous_outcome
  <2>3. CASE ~(\/ a.verdict = "session" \/ a.status = 401
               \/ a.verdict = "throttle" \/ a.status = 429
               \/ a.status # 404 /\ a.verdict = "margin")
    <3>1. a.status = 500 \/ a.verdict \in {"none", "timeout", "order"}
      BY <1>1, <1>4, <2>3 DEF MayBeLive
    <3>2. \/ e = Error("OrderNotFound", "ReconcileFirst")
          \/ e = Error("Network", "ReconcileFirst")
          \/ e = Error("Unknown", "ReconcileFirst")
      BY <1>2, <2>1, <2>3, <3>1 DEF map_http_error, Statuses
    <3> QED BY <3>2 DEF Error, is_ambiguous_outcome
  <2> QED BY <2>2, <2>3
<1>5. CASE ~(a.status = 0 \/ (a.status = 200 /\ a.verdict = "none")) /\ broker = "kotak"
  <2>1. e = guard_mutation(map_kotak_error(a))
    BY <1>1, <1>5 DEF mutation_error, kotak_mutation_error
  <2>2. \/ a.status \in {429, 500}
        \/ a.verdict \in {"none", "throttle", "timeout"}
    BY <1>1, <1>5 DEF MayBeLive
  <2>3. \/ map_kotak_error(a) = Error("Network", "ReconcileFirst")
        \/ map_kotak_error(a) = Error("SessionExpired", "ReEstablishSession")
        \/ map_kotak_error(a) = Error("RateLimited", "RetrySafe")
        \/ map_kotak_error(a) = Error("OrderNotFound", "ReconcileFirst")
        \/ map_kotak_error(a) = Error("Validation", "DoNotRetry")
        \/ map_kotak_error(a) = Error("Unknown", "ReconcileFirst")
    <3>1. CASE a.status \in {429, 500}
      BY <3>1 DEF map_kotak_error
    <3>2. CASE a.verdict = "none"
      <4>1. classify_rejection(a.verdict) = "Unknown" /\ category_for_reason("Unknown") = "none"
        BY <3>2 DEF classify_rejection, category_for_reason
      <4> QED BY <3>2, <4>1 DEF map_kotak_error
    <3>3. CASE a.verdict = "throttle"
      <4>1. classify_rejection(a.verdict) = "RateLimited"
        BY <3>3 DEF classify_rejection
      <4> QED BY <3>3, <4>1 DEF map_kotak_error
    <3>4. CASE a.verdict = "timeout"
      <4>1. classify_rejection(a.verdict) = "Indeterminate"
        BY <3>4 DEF classify_rejection
      <4> QED BY <3>4, <4>1 DEF map_kotak_error
    <3> QED BY <2>2, <3>1, <3>2, <3>3, <3>4
  <2>4. \/ e = Error("SessionExpired", "ReEstablishSession")
        \/ e = Error("Validation", "DoNotRetry")
        \/ e.action = "ReconcileFirst"
    BY <2>1, <2>3 DEF guard_mutation, Error
  <2> QED BY <1>5, <2>4 DEF MayHideLive, is_ambiguous_outcome
<1> QED BY <1>3, <1>4, <1>5

LEMMA ErrorKeeps ==
  ASSUME DeedInv, NEW e, PlaceError(e)
  PROVE  DeedInv' /\ Grown
<1> USE DEF DeedInv, FlattenInv
<1>1. /\ call.op = "sent" /\ e \in ErrorsFor(call.id # 0) /\ call' = Idle
      /\ late' = late \/ (call.id = 0 /\ ~DeadOnly(e) /\ late' = late \cup {call.row})
      /\ refused' = IF is_ambiguous_outcome(e) \/ e \in MayHideLive \/ call.row.kind = "exit"
                    THEN refused ELSE refused \cup {call.row.ref}
      /\ result' = Returned("error")
      /\ book' = book /\ broker' = broker /\ fetch' = fetch /\ placed' = placed /\ blind' = blind
  BY DEF PlaceError
<1>2. Grown /\ BookInv' /\ Len(book') = Len(book)
  BY <1>1, StillGrown
<1>3. SentCall /\ NewRow(call.row)
  BY <1>1 DEF CallInv, SentCall
<1>4. LateInv' /\ CallInv' /\ FetchInv'
  BY <1>1, <1>2, <1>3, LateStays, IdleIsFine, FetchStays
<1>5. ResultInv'
  BY <1>1, <1>2, NotOkIsFine DEF Returned
<1>6. KeepsAll
  BY <1>1, KeepsGivingUp DEF KeepsAll
<1>7. AloneInv'
  BY <1>1, <1>6, AloneStays
<1>8. RefusedInv'
  <2>1. CASE refused' = refused
    BY <1>1, <1>6, <2>1, RefusedStays
  <2>2. CASE refused' # refused
    <3>1. /\ ~is_ambiguous_outcome(e) /\ e \notin MayHideLive /\ call.row.kind # "exit"
          /\ refused' = refused \cup {call.row.ref}
      BY <1>1, <2>2
    <3>2. e \notin ErrorsFor(TRUE)
      BY <3>1, LiveErrorsAreAmbiguous DEF BookInv
    <3>3. call.id = 0
      BY <1>1, <3>2
    <3>4. late' = late
      BY <1>1, <3>2 DEF DeadOnly
    <3>5. call.row.kind = "entry" /\ call.row.ref \in Refs /\ call.row.parent = 0
      BY <1>3, <3>1 DEF NewRow, SoundRow, RowType
    <3>6. InFlight(EntryFor(call.row.ref))
      BY <1>1, <3>3, <3>5 DEF InFlight, Purpose, EntryFor
    <3>7. call.row.ref \in placed
      BY <3>5, <3>6 DEF AloneInv, Nowhere
    <3>8. InBook(EntryFor(call.row.ref)) = {} /\ InLate(EntryFor(call.row.ref)) = {}
      <4>1. Alone(EntryFor(call.row.ref))
        BY <3>5 DEF AloneInv
      <4> QED BY <3>6, <4>1 DEF Alone
    <3>9. ASSUME NEW r \in refused' PROVE Nowhere(EntryFor(r))'
      <4>1. CASE r = call.row.ref
        BY <1>1, <3>4, <3>8, <4>1 DEF Nowhere, InBook, InLate, InFlight, Idle
      <4>2. CASE r \in refused
        BY <1>6, <4>2 DEF RefusedInv, KeepsAll, Keeps
      <4> QED BY <3>1, <4>1, <4>2
    <3> QED BY <1>1, <3>1, <3>7, <3>9 DEF RefusedInv
  <2> QED BY <2>1, <2>2
<1> QED BY <1>1, <1>2, <1>4, <1>5, <1>7, <1>8

LEMMA RestartKeeps ==
  ASSUME DeedInv, Restart
  PROVE  DeedInv' /\ Grown
<1> USE DEF DeedInv, FlattenInv
<1>1. /\ late' = late \/ (call.op = "sent" /\ call.id = 0 /\ late' = late \cup {call.row})
      /\ call' = Idle /\ fetch' = NoFetch /\ result' = NoResult
      /\ book' = book /\ broker' = broker /\ placed' = placed
      /\ refused' = refused /\ blind' = blind
  BY DEF Restart
<1>2. Grown /\ BookInv' /\ Len(book') = Len(book)
  BY <1>1, StillGrown
<1>3. call.op = "sent" => NewRow(call.row)
  BY DEF CallInv, SentCall
<1>4. LateInv' /\ CallInv' /\ FetchInv' /\ ResultInv'
  BY <1>1, <1>2, <1>3, LateStays, IdleIsFine, NotOkIsFine DEF FetchInv, NoFetch, NoResult
<1>5. KeepsAll
  BY <1>1, KeepsGivingUp DEF KeepsAll
<1> QED BY <1>1, <1>2, <1>4, <1>5, AloneStays, RefusedStays

LEMMA FetchKeeps ==
  ASSUME DeedInv, (\E bad \in Reads(FetchFaults) : FetchRead(bad)) \/ FetchApply
  PROVE  DeedInv' /\ Grown
<1> USE DEF DeedInv, FlattenInv
<1>1. /\ book' = book /\ broker' = broker /\ late' = late /\ call' = call /\ placed' = placed
      /\ result' = result /\ refused' = refused /\ blind' = blind
  BY DEF FetchRead, FetchApply, history
<1>2. Grown /\ BookInv' /\ Len(book') = Len(book)
  BY <1>1, StillGrown
<1>3. LateInv' /\ CallInv' /\ ResultInv'
  BY <1>1, <1>2, LateStays, CallStays, ResultStays
<1>4. FetchInv'
  <2>1. CASE FetchApply
    BY <2>1 DEF FetchApply, FetchInv, NoFetch
  <2>2. ASSUME NEW bad, FetchRead(bad) PROVE FetchInv'
    BY <1>1, <1>2, <2>2 DEF FetchRead, FetchInv, BookInv, Grown
  <2> QED BY <2>1, <2>2
<1>5. KeepsAll
  <2>1. \A w : InBook(w)' = InBook(w) /\ (InFlight(w)' <=> InFlight(w))
    BY <1>1 DEF InBook, InFlight
  <2> QED BY <1>1, <2>1, KeepsSame DEF KeepsAll
<1> QED BY <1>1, <1>2, <1>3, <1>4, <1>5, AloneStays, RefusedStays

-----------------------------------------------------------------------------
(* What happens to one row at the broker.                                  *)
RowOf(r, qty, filled, status) ==
    [kind |-> r.kind, ref |-> r.ref, parent |-> r.parent, side |-> r.side,
     qty |-> qty, filled |-> filled, status |-> status]

FilledUp(r, f, s) == [r EXCEPT !.filled = f, !.status = s]

LEMMA RowIsRowOf ==
  ASSUME NEW r, SoundRow(r), NEW q, NEW s
  PROVE  /\ [r EXCEPT !.qty = q] = RowOf(r, q, r.filled, r.status)
         /\ [r EXCEPT !.status = s] = RowOf(r, r.qty, r.filled, s)
<1>1. r \in RowType
  BY DEF SoundRow
<1>2. r = RowOf(r, r.qty, r.filled, r.status)
  BY <1>1 DEF RowType, RowOf
<1>3. [r EXCEPT !.qty = q] = RowOf(r, q, r.filled, r.status)
  BY <1>2 DEF RowOf
<1>4. [r EXCEPT !.status = s] = RowOf(r, r.qty, r.filled, s)
  BY <1>2 DEF RowOf
<1> QED BY <1>3, <1>4

LEMMA FilledUpIsRowOf ==
  ASSUME NEW r, SoundRow(r), NEW q, NEW s
  PROVE  FilledUp(r, q, s) = RowOf(r, r.qty, q, s)
<1> DEFINE m == FilledUp(r, q, s)
<1>1. /\ DOMAIN m = DOMAIN r
      /\ \A x \in DOMAIN r : m[x] = IF x = "status" THEN s ELSE IF x = "filled" THEN q ELSE r[x]
  BY DEF FilledUp
<1>2. DOMAIN r = {"kind", "ref", "parent", "side", "qty", "filled", "status"}
  BY DEF SoundRow, RowType
<1>3. m = [x \in DOMAIN m |-> m[x]]
  BY DEF FilledUp
<1> HIDE DEF m
<1>4. m = RowOf(r, r.qty, q, s)
  BY <1>1, <1>2, <1>3 DEF RowOf
<1> QED BY <1>4 DEF m

LEMMA WorkingMovesOn ==
  ASSUME NEW r, SoundRow(r), r.status = "working", NEW q \in Nat \ {0}, NEW f \in Nat,
         NEW s \in {"working", "complete", "rejected", "cancelled"},
         r.filled <= f, f <= q, s = "working" => f < q, r.kind # "entry" => q = r.qty
  PROVE  SoundRow(RowOf(r, q, f, s)) /\ RowLater(r, RowOf(r, q, f, s))
<1> DEFINE n == RowOf(r, q, f, s)
<1>1. r \in RowType
  BY DEF SoundRow
<1>2. /\ n.kind = r.kind /\ n.ref = r.ref /\ n.parent = r.parent /\ n.side = r.side
      /\ n.qty = q /\ n.filled = f /\ n.status = s
  BY DEF RowOf
<1>3. n \in RowType
  BY <1>1 DEF RowOf, RowType
<1> HIDE DEF n
<1>4. SoundRow(n)
  BY <1>2, <1>3 DEF SoundRow
<1>5. RowLater(r, n)
  BY <1>2 DEF RowLater
<1> QED BY <1>4, <1>5 DEF n

LEMMA RowMoves ==
  ASSUME BookInv, NEW i \in 1 .. Len(book), book[i].status = "working",
         NEW q \in Nat \ {0}, NEW f \in Nat,
         NEW s \in {"working", "complete", "rejected", "cancelled"},
         book[i].filled <= f, f <= q, s = "working" => f < q,
         book[i].kind # "entry" => q = book[i].qty,
         book' = Put(book, i, RowOf(book[i], q, f, s)), broker' = broker
  PROVE  /\ Grown /\ BookInv' /\ Len(book') = Len(book)
         /\ book'[i].status = s
<1>1. SoundBook(book) /\ SoundRow(book[i])
  BY DEF BookInv, SoundBook
<1> DEFINE n == RowOf(book[i], q, f, s)
<1>2. SoundRow(n) /\ RowLater(book[i], n)
  BY <1>1, WorkingMovesOn
<1>3. n.status = s
  BY DEF RowOf
<1> HIDE DEF n
<1>4. book' = Put(book, i, n)
  BY DEF n
<1>5. SoundBook(book') /\ Later(book, book') /\ Len(book') = Len(book) /\ book'[i] = n
  BY <1>1, <1>2, <1>4, RowReplaced
<1>6. Grown
  BY <1>5 DEF Grown
<1> QED BY <1>3, <1>5, <1>6, BookUpdated

LEMMA UpdateKeeps ==
  ASSUME DeedInv, Grown, BookInv', Len(book') = Len(book), late' = late, call' = call,
         fetch' = fetch, result' = result, blind' = blind, placed' = placed,
         refused' = refused
  PROVE  DeedInv'
<1> USE DEF DeedInv, FlattenInv
<1>1. LateInv' /\ CallInv' /\ FetchInv' /\ ResultInv'
  BY LateStays, CallStays, FetchStays, ResultStays
<1>2. \A w : InBook(w)' = InBook(w)
  BY SameInBook
<1>3. \A w : InFlight(w)' <=> InFlight(w)
  BY DEF InFlight
<1>4. KeepsAll
  BY <1>2, <1>3, KeepsSame DEF KeepsAll
<1> QED BY <1>1, <1>4, AloneStays, RefusedStays DEF Grown

LEMMA FillKeeps ==
  ASSUME DeedInv, NEW i \in DOMAIN book, Fill(i)
  PROVE  DeedInv' /\ Grown
<1> USE DEF DeedInv, FlattenInv
<1> DEFINE s == IF book[i].filled + 1 = book[i].qty THEN "complete" ELSE "working"
<1>0. i \in 1 .. Len(book) /\ book[i].status = "working" /\ SoundRow(book[i]) /\ book \in Seq(RowType)
  BY DEF Fill, BookInv, SoundBook
<1>1. /\ book' = [book EXCEPT ![i].filled = @ + 1, ![i].status = s]
      /\ broker' = broker /\ late' = late /\ call' = call /\ fetch' = fetch
      /\ result' = result /\ blind' = blind /\ placed' = placed /\ refused' = refused
  BY DEF Fill, history
<1>2. book[i].filled \in Nat /\ book[i].qty \in Nat \ {0} /\ book[i].filled < book[i].qty
  BY <1>0 DEF SoundRow, RowType
<1>3. /\ s \in {"working", "complete", "rejected", "cancelled"}
      /\ book[i].filled + 1 <= book[i].qty
      /\ s = "working" => book[i].filled + 1 < book[i].qty
  BY <1>2
<1> HIDE DEF s
<1>4. book' = [book EXCEPT ![i] = [book[i] EXCEPT !.filled = book[i].filled + 1, !.status = s]]
  BY <1>0, <1>1
<1>5. book' = Put(book, i, RowOf(book[i], book[i].qty, book[i].filled + 1, s))
  <2>1. FilledUp(book[i], book[i].filled + 1, s)
           = RowOf(book[i], book[i].qty, book[i].filled + 1, s)
    BY <1>0, FilledUpIsRowOf
  <2>2. [book[i] EXCEPT !.filled = book[i].filled + 1, !.status = s]
           = RowOf(book[i], book[i].qty, book[i].filled + 1, s)
    BY <2>1 DEF FilledUp
  <2> QED BY <1>4, <2>2 DEF Put
<1>6. Grown /\ BookInv' /\ Len(book') = Len(book)
  <2>1. /\ book[i].filled + 1 \in Nat /\ book[i].filled <= book[i].filled + 1
        /\ broker' = broker /\ BookInv
    BY <1>1, <1>2
  <2> QED BY ONLY <1>0, <1>2, <1>3, <1>5, <2>1, RowMoves
<1> QED BY <1>1, <1>6, UpdateKeeps

LEMMA EndsRow ==
  ASSUME DeedInv, NEW i \in 1 .. Len(book), book[i].status = "working",
         NEW s \in {"rejected", "cancelled"},
         book' = [book EXCEPT ![i].status = s], broker' = broker
  PROVE  Grown /\ BookInv' /\ Len(book') = Len(book) /\ book'[i].status # "working"
<1> USE DEF DeedInv, FlattenInv
<1>0. SoundRow(book[i]) /\ book \in Seq(RowType)
  BY DEF BookInv, SoundBook
<1>1. book' = [book EXCEPT ![i] = [book[i] EXCEPT !.status = s]]
  BY <1>0
<1>2. book' = Put(book, i, RowOf(book[i], book[i].qty, book[i].filled, s))
  <2>1. [book[i] EXCEPT !.status = s] = RowOf(book[i], book[i].qty, book[i].filled, s)
    BY <1>0, RowIsRowOf
  <2> QED BY <1>1, <2>1 DEF Put
<1>3. book[i].filled \in Nat /\ book[i].qty \in Nat \ {0} /\ book[i].filled < book[i].qty
  BY <1>0 DEF SoundRow, RowType
<1>4. /\ s \in {"working", "complete", "rejected", "cancelled"} /\ s # "working"
      /\ book[i].filled <= book[i].filled /\ book[i].filled <= book[i].qty
  BY <1>3
<1>5. BookInv
  OBVIOUS
<1>6. Grown /\ BookInv' /\ Len(book') = Len(book) /\ book'[i].status = s
  BY ONLY <1>2, <1>3, <1>4, <1>5, i \in 1 .. Len(book), book[i].status = "working", broker' = broker, RowMoves
<1> QED BY <1>4, <1>6

LEMMA KillKeeps ==
  ASSUME DeedInv, NEW i \in DOMAIN book, NEW s \in {"rejected", "cancelled"}, Kill(i, s)
  PROVE  DeedInv' /\ Grown
<1>0. i \in 1 .. Len(book) /\ book[i].status = "working"
  BY DEF Kill, BookInv, SoundBook, DeedInv, FlattenInv
<1>1. /\ book' = [book EXCEPT ![i].status = s]
      /\ broker' = broker /\ late' = late /\ call' = call /\ fetch' = fetch
      /\ result' = result /\ blind' = blind /\ placed' = placed /\ refused' = refused
  BY DEF Kill, history
<1>2. Grown /\ BookInv' /\ Len(book') = Len(book)
  BY <1>0, <1>1, EndsRow
<1> QED BY <1>1, <1>2, UpdateKeeps

LEMMA ModifyKeeps ==
  ASSUME DeedInv, DOMAIN known \subseteq DOMAIN book, NEW i \in DOMAIN known, NEW q \in Qtys,
         NEW out, Modify(i, q, out)
  PROVE  DeedInv' /\ Grown
<1>0. i \in 1 .. Len(book) /\ SoundRow(book[i]) /\ book \in Seq(RowType)
  BY DEF BookInv, SoundBook, DeedInv, FlattenInv
<1>1. /\ broker' = broker /\ late' = late /\ call' = call /\ fetch' = fetch
      /\ result' = result /\ blind' = blind /\ placed' = placed /\ refused' = refused
      /\ book[i].kind = "entry"
      /\ \/ book' = book
         \/ /\ book' = [book EXCEPT ![i].qty = q]
            /\ book[i].status = "working" /\ q > book[i].filled
  BY DEF Modify
<1>2. Grown /\ BookInv' /\ Len(book') = Len(book)
  <2>1. CASE book' = book
    BY <1>1, <2>1, StillGrown DEF DeedInv, FlattenInv
  <2>2. CASE book' = [book EXCEPT ![i].qty = q] /\ book[i].status = "working" /\ q > book[i].filled
    <3>1. book' = [book EXCEPT ![i] = [book[i] EXCEPT !.qty = q]]
      BY <1>0, <2>2
    <3>2. book' = Put(book, i, RowOf(book[i], q, book[i].filled, "working"))
      <4>1. [book[i] EXCEPT !.qty = q] = RowOf(book[i], q, book[i].filled, book[i].status)
        BY <1>0, RowIsRowOf
      <4> QED BY <2>2, <3>1, <4>1 DEF Put
    <3>3. book[i].filled \in Nat /\ q \in Nat \ {0} /\ book[i].filled < q
      <4>1. book[i].filled \in Nat
        BY <1>0 DEF SoundRow, RowType
      <4>2. q \in Nat \ {0}
        BY AdapterAssumption
      <4> QED BY <2>2, <4>1, <4>2
    <3>4. /\ BookInv /\ broker' = broker /\ book[i].kind = "entry" /\ book[i].status = "working"
          /\ book[i].filled <= book[i].filled /\ book[i].filled <= q
          /\ "working" \in {"working", "complete", "rejected", "cancelled"}
      BY <1>1, <2>2, <3>3 DEF DeedInv, FlattenInv
    <3> QED BY ONLY <1>0, <3>2, <3>3, <3>4, RowMoves
  <2> QED BY <1>1, <2>1, <2>2
<1> QED BY <1>1, <1>2, UpdateKeeps

LEMMA ForeignKeeps ==
  ASSUME DeedInv, NEW side \in {"B", "S"}, NEW q \in Qtys, Foreign(side, q)
  PROVE  DeedInv' /\ Grown
<1> USE DEF DeedInv, FlattenInv
<1> DEFINE row == Row("foreign", "", 0, side, q)
<1>1. /\ book' = Append(book, row) /\ broker' = broker /\ late' = late /\ call' = call
      /\ fetch' = fetch /\ result' = result /\ blind' = blind /\ placed' = placed
      /\ refused' = refused
  BY DEF Foreign, history
<1>2. q \in Nat \ {0}
  BY AdapterAssumption
<1>3. /\ row.kind = "foreign" /\ row.qty = q /\ row.filled = 0
      /\ row.side = side /\ row.status = "working"
  BY DEF Row
<1>4. row \in RowType
  BY <1>2 DEF Row, RowType
<1> HIDE DEF row
<1>5. SoundRow(row) /\ ParentOK(row, book, broker)
  BY <1>2, <1>3, <1>4 DEF SoundRow, ParentOK
<1>6. BookInv' /\ Grown
  BY <1>1, <1>5, BookAppended
<1>7. LateInv' /\ CallInv' /\ FetchInv' /\ ResultInv'
  BY <1>1, <1>6, LateStays, CallStays, FetchStays, ResultStays
<1>8. \A r \in Refs : Purpose(row) # EntryFor(r)
  BY <1>3 DEF Purpose, EntryFor
<1>9. \A p \in Nat : Purpose(row) # ExitFor(p)
  BY <1>3 DEF Purpose, ExitFor
<1>10. KeepsAll
  BY <1>1, <1>5, <1>8, <1>9, KeepsStranger DEF KeepsAll
<1> QED BY <1>1, <1>6, <1>7, <1>10, AloneStays, RefusedStays

-----------------------------------------------------------------------------
(* The flatten: what it reads of its parent.                               *)

LEMMA SnapIsExact ==
  ASSUME NEW v, v.filled \in Nat, v.qty \in Nat
  PROVE  /\ exit_qty_for(SnapOf(v)) = v.filled
         /\ v.filled < v.qty => SnapOf(v).canonical_state # "Filled"
<1>1. PICK st \in {"complete", "working"} : SnapOf(v) = normalize_fill(st, v.filled, v.qty, TRUE)
  BY DEF SnapOf
<1>2. clamp_non_negative(v.filled) = v.filled /\ clamp_non_negative(v.qty) = v.qty
  BY DEF clamp_non_negative
<1> DEFINE n == normalize_fill(st, v.filled, v.qty, TRUE)
<1>3. /\ n.filled_qty = clamp_non_negative(v.filled)
      /\ n.canonical_state = canonical_state(st, clamp_non_negative(v.filled),
              clamp_non_negative(clamp_non_negative(v.qty) - clamp_non_negative(v.filled)))
  BY DEF normalize_fill
<1>4. exit_qty_for(SnapOf(v)) = v.filled
  <2>1. n.exit_qty_trustworthy = (TRUE /\ clamp_non_negative(v.filled) > 0)
    BY DEF normalize_fill
  <2>2. CASE v.filled > 0
    <3>1. n.exit_qty_trustworthy = TRUE
      BY <1>2, <2>1, <2>2
    <3> QED BY <1>1, <1>2, <1>3, <3>1 DEF exit_qty_for
  <2>3. CASE ~(v.filled > 0)
    <3>1. n.exit_qty_trustworthy = FALSE
      BY <1>2, <2>1, <2>3
    <3>2. exit_qty_for(n) = 0
      BY <3>1 DEF exit_qty_for
    <3>3. v.filled = 0
      BY <2>3
    <3> QED BY <1>1, <3>2, <3>3
  <2> QED BY <2>2, <2>3
<1>5. ASSUME v.filled < v.qty PROVE SnapOf(v).canonical_state # "Filled"
  <2>1. clamp_non_negative(v.qty - v.filled) > 0
    BY <1>5 DEF clamp_non_negative
  <2>2. SnapOf(v).canonical_state
          = canonical_state(st, v.filled, clamp_non_negative(v.qty - v.filled))
    BY <1>1, <1>2, <1>3
  <2> QED BY <2>1, <2>2 DEF canonical_state
<1> QED BY <1>4, <1>5

\* What is left of a row that a flatten does not refuse.
LEMMA ReadIsTrue ==
  ASSUME broker \in {"kite", "kotak"}, NEW rows, NEW bad, NEW p, SoundRow(rows[p]), NEW v,
         v = read_row(rows, bad, p),
         ~(IF broker = "kite" THEN KiteRefuses(rows, bad, p) ELSE KotakRefuses(rows, bad, p))
  PROVE  /\ v.qty = rows[p].qty /\ v.filled \in {rows[p].filled, 0}
         /\ v.status = rows[p].status
<1>1. Absent \notin Nat
  BY DEF Absent
<1>2. rows[p].filled \in Nat /\ rows[p].qty \in Nat
  BY DEF SoundRow, RowType
<1>3. /\ v.status = IF Faulty(bad, p, "status") THEN "weird" ELSE rows[p].status
      /\ v.qty = IF Faulty(bad, p, "noqty") THEN Absent ELSE rows[p].qty
      /\ v.filled = IF ~Faulty(bad, p, "nofill") THEN rows[p].filled
                    ELSE IF broker = "kite" THEN 0 ELSE Absent
  BY DEF read_row
<1>4. v.qty # Absent /\ (broker = "kotak" => v.filled # Absent)
  BY DEF KiteRefuses, KotakRefuses
<1>5. Reported(v) # "Unknown"
  BY DEF KiteRefuses, KotakRefuses, Reported
<1>6. v.status # "weird"
  BY <1>5 DEF Reported, map_status, map_order_state
<1> QED BY <1>1, <1>2, <1>3, <1>4, <1>6

LEMMA TerminalIsDead ==
  ASSUME broker \in {"kite", "kotak"}, NEW v, NEW row, SoundRow(row), v.qty = row.qty,
         v.filled \in {row.filled, 0}, v.status = row.status, Terminal(v)
  PROVE  row.status # "working"
<1> SUFFICES ASSUME row.status = "working" PROVE FALSE
  OBVIOUS
<1>0. row.filled \in Nat /\ row.qty \in Nat \ {0} /\ row.filled < row.qty
  BY DEF SoundRow, RowType
<1>1. v.filled \in Nat /\ v.qty \in Nat /\ v.filled < v.qty
  BY <1>0
<1>2. SnapOf(v).canonical_state # "Filled"
  BY <1>1, SnapIsExact
<1>3. Reported(v) \notin {"Cancelled", "Rejected"}
  <2>1. CASE broker = "kite"
    BY <2>1 DEF Reported, map_status
  <2>2. CASE broker = "kotak"
    <3>1. Reported(v) = map_order_state("working", v.filled, v.qty)
      BY <2>2 DEF Reported
    <3>2. v.qty # Absent
      BY <1>1 DEF Absent
    <3>3. Reported(v) = normalize_fill("working", v.filled, v.qty, TRUE).canonical_state
      BY <3>1, <3>2 DEF map_order_state
    <3>4. Reported(v) = canonical_state("working", clamp_non_negative(v.filled),
                            clamp_non_negative(clamp_non_negative(v.qty) - clamp_non_negative(v.filled)))
      BY <3>3 DEF normalize_fill
    <3> QED BY <3>4 DEF canonical_state
  <2> QED BY <2>1, <2>2
<1> QED BY <1>2, <1>3 DEF Terminal

LEMMA SquareOffKeeps ==
  ASSUME DeedInv, NEW p \in DOMAIN book, NEW bad, SquareOff(p, bad)
  PROVE  DeedInv' /\ Grown
<1> USE DEF DeedInv, FlattenInv
<1> DEFINE v == read_row(book, bad, p)
           refuses == IF broker = "kite" THEN KiteRefuses(book, bad, p) ELSE KotakRefuses(book, bad, p)
<1>1. /\ call = Idle /\ book[p].kind # "foreign"
      /\ IF refuses
         THEN result' = [parent |-> p, out |-> "error", need |-> 0] /\ call' = Idle
         ELSE /\ result' = NoResult
              /\ call' = [op |-> IF Terminal(v) THEN "decide" ELSE "cancel",
                          parent |-> p, rows |-> book, bad |-> bad,
                          need |-> exit_qty_for(SnapOf(v))]
      /\ book' = book /\ broker' = broker /\ late' = late /\ fetch' = fetch /\ placed' = placed
      /\ refused' = refused /\ blind' = blind
  BY DEF SquareOff, history
<1>2. Grown /\ BookInv' /\ Len(book') = Len(book)
  BY <1>1, StillGrown
<1>3. p \in 1 .. Len(book) /\ SoundRow(book[p]) /\ SoundBook(book)
  BY DEF BookInv, SoundBook
<1>4. CallInv'
  <2>1. CASE refuses
    BY <1>1, <2>1, IdleIsFine
  <2>2. CASE ~refuses
    <3>1. v.qty = book[p].qty /\ v.filled \in {book[p].filled, 0} /\ v.status = book[p].status
      BY <1>3, <2>2, ReadIsTrue
    <3>2. Terminal(v) => book[p].status # "working"
      BY <1>3, <3>1, TerminalIsDead
    <3>3. book[p].filled \in Nat /\ book[p].qty \in Nat
      BY <1>3 DEF SoundRow, RowType
    <3>4. exit_qty_for(SnapOf(v)) = v.filled
      BY <3>1, <3>3, SnapIsExact
    <3>5. broker = "kite" => book[p].kind # "exit"
      BY <2>2 DEF KiteRefuses, TagOf, is_exit_tag, exit_tag_for
    <3> DEFINE op == IF Terminal(v) THEN "decide" ELSE "cancel"
    <3>6. call' = [op |-> op, parent |-> p, rows |-> book, bad |-> bad, need |-> v.filled]
      BY <1>1, <2>2, <3>4
    <3>7. op \in {"cancel", "decide"} /\ (op = "decide" => book[p].status # "working")
      BY <3>2
    <3>8. v.filled \in Nat /\ v.filled <= book[p].filled
      BY <3>1, <3>3
    <3> HIDE DEF op, v
    <3>9. Later(book, book') /\ SoundBook(book)
      BY <1>2, <1>3 DEF Grown
    <3>10. FlattenCall'
      BY <1>1, <1>3, <3>5, <3>6, <3>7, <3>8, <3>9 DEF FlattenCall
    <3> QED BY <3>6, <3>7, <3>10 DEF CallInv
  <2> QED BY <2>1, <2>2
<1>5. LateInv' /\ FetchInv'
  BY <1>1, <1>2, LateStays, FetchStays
<1>6. ResultInv'
  BY <1>1, <1>2, NotOkIsFine DEF NoResult
<1>7. \A w : InBook(w)' = InBook(w) /\ ~InFlight(w)'
  BY <1>1 DEF InBook, InFlight, Idle
<1>8. KeepsAll
  BY <1>1, <1>7, KeepsSame DEF KeepsAll
<1> QED BY <1>1, <1>2, <1>4, <1>5, <1>6, <1>8, AloneStays, RefusedStays

LEMMA LeastNat ==
  ASSUME NEW S \in SUBSET Nat, S # {}
  PROVE  \E m \in S : \A k \in S : m <= k
<1>1. PICK m \in S : \A k \in Nat : <<k, m>> \in OpToRel(<, Nat) => k \notin S
  BY WFMin, NatLessThanWellFounded
<1>2. \A k \in S : ~(k < m)
  BY <1>1 DEF OpToRel
<1> QED BY <1>2

\* A set of numbers below a bound has a greatest one.
LEMMA GreatestBelow ==
  ASSUME NEW n \in Nat, NEW S \in SUBSET (1 .. n), S # {}
  PROVE  \E m \in S : \A k \in S : k <= m
<1> DEFINE Up == {u \in Nat : \A k \in S : k <= u}
<1>1. n \in Up
  OBVIOUS
<1>2. PICK m \in Up : \A u \in Up : m <= u
  BY <1>1, LeastNat
<1>3. m \in S
  <2> SUFFICES ASSUME m \notin S PROVE FALSE
    OBVIOUS
  <2>1. \A k \in S : k <= m /\ k # m /\ k \in Nat
    BY <1>2
  <2>0. PICK k0 : k0 \in S
    OBVIOUS
  <2>2. m - 1 \in Nat /\ \A k \in S : k <= m - 1
    BY <1>2, <2>0, <2>1
  <2>3. m - 1 \in Up
    BY <2>2
  <2> QED BY <1>2, <2>3
<1> QED BY <1>2, <1>3

LEMMA CancelKeeps ==
  ASSUME DeedInv, NEW out \in {"ok", "notfound", "error"}, Cancel(out)
  PROVE  DeedInv' /\ Grown
<1> USE DEF DeedInv, FlattenInv
<1>1. /\ call.op = "cancel" /\ broker' = broker /\ late' = late /\ fetch' = fetch
      /\ placed' = placed /\ refused' = refused /\ blind' = blind
      /\ out = "ok" => book[call.parent].status = "working"
      /\ out = "notfound" => book[call.parent].status # "working"
      /\ \/ /\ out \in {"ok", "error"} /\ book[call.parent].status = "working"
            /\ book' = [book EXCEPT ![call.parent].status = "cancelled"]
         \/ out \in {"notfound", "error"} /\ book' = book
      /\ IF out = "error"
         THEN /\ call' = Idle
              /\ result' = [parent |-> call.parent, out |-> "error", need |-> call.need]
         ELSE call' = [call EXCEPT !.op = "decide"] /\ result' = result
  BY DEF Cancel, history
<1>2. FlattenCall
  BY <1>1 DEF CallInv
<1>3. call.parent \in 1 .. Len(book)
  BY <1>2 DEF FlattenCall, Later, SoundBook, BookInv
<1>4. /\ Grown /\ BookInv' /\ Len(book') = Len(book)
      /\ out # "error" => book'[call.parent].status # "working"
  <2>1. CASE book' = book
    <3>1. out \in {"notfound", "error"} \/ book[call.parent].status # "working"
      <4> SUFFICES ASSUME out = "ok", book[call.parent].status = "working" PROVE FALSE
        BY DEF Cancel
      <4>1. book' = [book EXCEPT ![call.parent].status = "cancelled"]
        BY <1>1
      <4>2. book'[call.parent].status # "working"
        BY <1>1, <1>3, <4>1, EndsRow
      <4> QED BY <2>1, <4>2
    <3> QED BY <1>1, <2>1, <3>1, StillGrown
  <2>2. CASE /\ book[call.parent].status = "working"
             /\ book' = [book EXCEPT ![call.parent].status = "cancelled"]
    BY <1>1, <1>3, <2>2, EndsRow
  <2> QED BY <1>1, <2>1, <2>2
<1>5. LateInv' /\ FetchInv'
  BY <1>1, <1>4, LateStays, FetchStays
<1>6. ResultInv'
  BY <1>1, <1>4, NotOkIsFine
<1>7. CallInv' /\ call'.op # "sent"
  <2>1. CASE out = "error"
    BY <1>1, <2>1, IdleIsFine DEF Idle
  <2>2. CASE out # "error"
    <3>1. call' = [op |-> "decide", parent |-> call.parent, rows |-> call.rows,
                   bad |-> call.bad, need |-> call.need]
      BY <1>1, <1>2, <2>2 DEF FlattenCall
    <3>2. SoundBook(call.rows) /\ SoundBook(book) /\ SoundBook(book') /\ Later(call.rows, book) /\ Later(book, book')
      BY <1>2, <1>4 DEF FlattenCall, BookInv, Grown
    <3>3. Later(call.rows, book')
      BY <3>2, LaterChain
    <3>4. FlattenCall'
      BY <1>1, <1>2, <1>4, <2>2, <3>1, <3>2, <3>3 DEF FlattenCall
    <3> QED BY <3>1, <3>4 DEF CallInv
  <2> QED BY <2>1, <2>2
<1>8. \A w : InBook(w)' = InBook(w)
  BY <1>4, SameInBook
<1>9. KeepsAll
  BY <1>1, <1>7, <1>8, KeepsSame DEF KeepsAll, InFlight
<1> QED BY <1>1, <1>4, <1>5, <1>6, <1>7, <1>9, AloneStays, RefusedStays

-----------------------------------------------------------------------------
(* The decision: the exit is found, or there is none to be found.          *)

LEMMA ExitsOf ==
  ASSUME DeedInv, NEW p
  PROVE  InBook(ExitFor(p)) = ExitRows(book, p)
<1>1. DOMAIN book = 1 .. Len(book) /\ \A i \in 1 .. Len(book) : SoundRow(book[i])
  BY DEF DeedInv, FlattenInv, BookInv, SoundBook
<1>2. \A i \in 1 .. Len(book) :
        Purpose(book[i]) = ExitFor(p) <=> (book[i].kind = "exit" /\ book[i].parent = p)
  BY <1>1 DEF Purpose, ExitFor, SoundRow
<1> QED BY <1>1, <1>2 DEF InBook, ExitRows

\* The snapshot of a flatten and the book agree about what a row is for.
LEMMA SnapshotExits ==
  ASSUME DeedInv, FlattenCall
  PROVE  /\ DOMAIN call.rows = 1 .. Len(call.rows) /\ 1 .. Len(call.rows) \subseteq 1 .. Len(book)
         /\ \A i \in 1 .. Len(call.rows) : RowLater(call.rows[i], book[i])
         /\ \A p : ExitRows(call.rows, p) = ExitRows(book, p) \cap DOMAIN call.rows
         /\ \A i \in ExitRows(call.rows, call.parent) : i # call.parent
<1>1. SoundBook(book) /\ SoundBook(call.rows) /\ Later(call.rows, book)
  BY DEF DeedInv, FlattenInv, BookInv, FlattenCall
<1>2. /\ DOMAIN call.rows = 1 .. Len(call.rows) /\ DOMAIN book = 1 .. Len(book)
      /\ Len(call.rows) \in Nat /\ Len(book) \in Nat
  BY <1>1 DEF SoundBook
<1>3. 1 .. Len(call.rows) \subseteq 1 .. Len(book)
  BY <1>1, <1>2 DEF Later
<1>4. \A i \in 1 .. Len(call.rows) : RowLater(call.rows[i], book[i])
  BY <1>1 DEF Later
<1>5. \A p : ExitRows(call.rows, p) = ExitRows(book, p) \cap DOMAIN call.rows
  BY <1>2, <1>3, <1>4 DEF ExitRows, RowLater
<1>6. \A i \in ExitRows(call.rows, call.parent) : i # call.parent
  <2> SUFFICES ASSUME NEW i \in ExitRows(call.rows, call.parent) PROVE i # call.parent
    OBVIOUS
  <2>1. i \in 1 .. Len(book) /\ book[i].kind = "exit" /\ book[i].parent = call.parent
    BY <1>2, <1>5 DEF ExitRows
  <2>2. call.parent < i
    BY <2>1 DEF DeedInv, FlattenInv, BookInv
  <2> QED BY <2>1, <2>2
<1> QED BY <1>2, <1>3, <1>4, <1>5, <1>6

LEMMA KiteTagged ==
  ASSUME broker = "kite", NEW rows, NEW p
  PROVE  Tagged(rows, p) = ExitRows(rows, p) \ {p}
<1>1. \A i \in DOMAIN rows : TagOf(rows[i]) = exit_tag_for(p)
                               <=> (rows[i].kind = "exit" /\ rows[i].parent = p)
  BY DEF TagOf, exit_tag_for, NoTag, short_tag
<1> QED BY <1>1 DEF Tagged, ExitRows

\* A flatten that places an exit either saw that none was there, or is recorded
\* as blind.
LEMMA NoneIsNone ==
  ASSUME DeedInv, FlattenCall, NEW exit_ref,
         (IF broker = "kite" THEN KiteExit(call) ELSE KotakExit(call, exit_ref)) = "none",
         BlindSpots(call, exit_ref, "none") \cap Unseen = {}
  PROVE  InBook(ExitFor(call.parent)) = {} /\ InLate(ExitFor(call.parent)) = {}
<1> DEFINE p == call.parent
<1>1. /\ ~ \E row \in late : row.kind = "exit" /\ row.parent = p
      /\ ExitRows(book, p) \subseteq DOMAIN call.rows
  BY DEF BlindSpots, Unseen
<1>2. InLate(ExitFor(p)) = {}
  BY <1>1 DEF InLate, ExitFor, Purpose
<1>3. ExitRows(call.rows, p) = ExitRows(book, p)
  BY <1>1, SnapshotExits
<1>4. ExitRows(call.rows, p) = {}
  <2>1. CASE broker = "kite"
    <3>1. Tagged(call.rows, p) = {}
      BY <2>1 DEF KiteExit, JudgeExit
    <3>2. \A i \in ExitRows(call.rows, p) : i # p
      BY SnapshotExits
    <3> QED BY <2>1, <3>1, <3>2, KiteTagged
  <2>2. CASE broker # "kite"
    <3>1. KotakExit(call, exit_ref) = "none" /\ broker = "kotak"
      BY <2>2 DEF DeedInv, FlattenInv
    <3>2. KotakFound(call, exit_ref) = {}
      BY <3>1 DEF KotakExit, JudgeExit
    <3>3. Rung1(call, exit_ref) = {} /\ Rung2(call, exit_ref) = {}
      BY <3>2 DEF KotakFound
    <3>4. ASSUME NEW i \in ExitRows(call.rows, p) PROVE FALSE
      <4>1. i \in DOMAIN call.rows \ {p}
        BY SnapshotExits DEF ExitRows
      <4>2. ref_for_id(i) # exit_ref
        BY <3>3, <4>1 DEF Rung1
      <4>3. i \in {j \in ExitRows(call.rows, call.parent) :
                     /\ broker = "kotak" /\ ref_for_id(j) # exit_ref
                     /\ j \notin Rung2(call, exit_ref)}
        BY <3>1, <3>3, <3>4, <4>2
      <4>4. (IF ref_for_id(i) # NoRef THEN "renamed" ELSE "unreadable")
              \in BlindSpots(call, exit_ref, "none")
        BY <4>3 DEF BlindSpots
      <4> QED BY <4>4 DEF Unseen
    <3> QED BY <3>4
  <2> QED BY <2>1, <2>2
<1> QED BY <1>2, <1>3, <1>4, ExitsOf

\* A flatten that says ok over an exit it found has one that covers the fill.
LEMMA FoundIsEnough ==
  ASSUME DeedInv, FlattenCall, NEW exit_ref,
         (IF broker = "kite" THEN KiteExit(call) ELSE KotakExit(call, exit_ref)) = "ok",
         "stranger" \notin BlindSpots(call, exit_ref, "ok")
  PROVE  \E i \in ExitRows(book, call.parent) : book[i].qty >= call.need
<1> DEFINE p == call.parent
           Judged(i) == JudgeExit(read_row(call.rows, call.bad, i), call.need) = "ok"
<1>1. PICK i \in ExitRows(call.rows, p) : Judged(i)
  <2>1. CASE broker = "kite"
    <3> DEFINE found == Tagged(call.rows, p)
               last == CHOOSE i \in found : \A j \in found : j <= i
    <3>1. found # {} /\ Judged(last)
      BY <2>1 DEF KiteExit, LastTagged
    <3>2. \E i \in found : \A j \in found : j <= i
      <4>1. found \subseteq 1 .. Len(call.rows) /\ Len(call.rows) \in Nat
        BY SnapshotExits DEF Tagged, FlattenCall, SoundBook
      <4> HIDE DEF found
      <4> QED BY <3>1, <4>1, GreatestBelow
    <3>3. last \in found
      BY <3>2
    <3> QED BY <2>1, <3>1, <3>3, KiteTagged
  <2>2. CASE broker # "kite"
    <3> DEFINE found == KotakFound(call, exit_ref)
    <3>1. KotakExit(call, exit_ref) = "ok" /\ broker = "kotak"
      BY <2>2 DEF DeedInv, FlattenInv
    <3>2. /\ found # {} /\ ~ \E i, j \in found : i # j
          /\ Judged(CHOOSE i \in found : TRUE)
      BY <3>1 DEF KotakExit
    <3>3. found \cap ExitRows(call.rows, p) # {}
      BY <3>1 DEF BlindSpots
    <3> HIDE DEF found
    <3>4. PICK i : i \in found /\ i \in ExitRows(call.rows, p)
      BY <3>3
    <3>5. (CHOOSE j \in found : TRUE) = i
      BY <3>2, <3>4
    <3> QED BY <3>2, <3>4, <3>5
  <2> QED BY <2>1, <2>2
<1>2. i \in ExitRows(book, p) /\ i \in 1 .. Len(call.rows) /\ RowLater(call.rows[i], book[i])
  BY SnapshotExits
<1>3. book[i].qty = call.rows[i].qty
  BY <1>2 DEF RowLater, ExitRows
<1>4. call.rows[i].qty >= call.need
  <2> DEFINE v == read_row(call.rows, call.bad, i)
  <2>1. v.qty = IF Faulty(call.bad, i, "noqty") THEN Absent ELSE call.rows[i].qty
    BY DEF read_row
  <2>2. v.qty # Absent /\ ~(v.qty < call.need)
    BY <1>1 DEF JudgeExit
  <2>3. call.rows[i].qty \in Nat
    BY <1>2 DEF FlattenCall, SoundBook, SoundRow, RowType
  <2>4. call.need \in Nat
    BY DEF FlattenCall
  <2> QED BY <2>1, <2>2, <2>3, <2>4
<1> QED BY <1>2, <1>3, <1>4

LEMMA DecideKeeps ==
  ASSUME DeedInv, Decide
  PROVE  DeedInv' /\ Grown
<1> USE DEF DeedInv, FlattenInv
<1>1. PICK exit_ref, outcome :
        /\ outcome = IF call.need = 0 THEN "ok"
                     ELSE IF broker = "kite" THEN KiteExit(call) ELSE KotakExit(call, exit_ref)
        /\ blind' = blind \cup {<<call.parent, why>> : why \in
                      IF call.need = 0 THEN {} ELSE BlindSpots(call, exit_ref, outcome)}
        /\ IF outcome = "none"
           THEN /\ call' = [op |-> "sent", ref |-> exit_ref, id |-> 0, need |-> call.need,
                            row |-> Row("exit", "", call.parent,
                                        exit_side_for(call.rows[call.parent].side), call.need)]
                /\ result' = result
           ELSE /\ call' = Idle
                /\ result' = [parent |-> call.parent, out |-> outcome, need |-> call.need]
  BY DEF Decide
<1>2. /\ call.op = "decide" /\ broker' = broker /\ book' = book /\ late' = late
      /\ placed' = placed /\ fetch' = fetch /\ refused' = refused
  BY DEF Decide
<1>3. FlattenCall
  BY <1>2 DEF CallInv
<1>4. Grown /\ BookInv' /\ Len(book') = Len(book)
  BY <1>2, StillGrown
<1>5. LateInv' /\ FetchInv'
  BY <1>2, <1>4, LateStays, FetchStays
<1>6. /\ call.parent \in 1 .. Len(call.rows) /\ call.parent \in 1 .. Len(book)
      /\ RowLater(call.rows[call.parent], book[call.parent])
      /\ book[call.parent].status # "working"
      /\ call.need \in Nat /\ call.need <= book[call.parent].filled
  <2>1. /\ call.parent \in 1 .. Len(call.rows) /\ call.need \in Nat
        /\ call.need <= call.rows[call.parent].filled /\ book[call.parent].status # "working"
    BY <1>2, <1>3 DEF FlattenCall
  <2>2. call.parent \in 1 .. Len(book) /\ RowLater(call.rows[call.parent], book[call.parent])
    BY <1>3, <2>1, SnapshotExits
  <2>3. call.rows[call.parent].filled \in Nat /\ book[call.parent].filled \in Nat
    BY <1>3, <2>1, <2>2 DEF FlattenCall, BookInv, SoundBook, SoundRow, RowType
  <2> QED BY <2>1, <2>2, <2>3 DEF RowLater
<1>7. blind \subseteq blind'
  BY <1>1
<1>8. \A w : InBook(w)' = InBook(w) /\ InLate(w)' = InLate(w) /\ ~InFlight(w)
  BY <1>2 DEF InBook, InLate, InFlight
<1>9. CASE outcome # "none"
  <2>1. call' = Idle /\ result' = [parent |-> call.parent, out |-> outcome, need |-> call.need]
    BY <1>1, <1>9
  <2>2. CallInv'
    BY <2>1, IdleIsFine
  <2>3. ResultInv'
    <3>1. CASE outcome # "ok"
      BY <2>1, <3>1 DEF ResultInv, OkMeansFlat
    <3>2. CASE outcome = "ok"
      <4>1. \/ call.need = 0
            \/ \E i \in ExitRows(book, call.parent) : book[i].qty >= call.need
            \/ <<call.parent, "stranger">> \in blind'
        <5> SUFFICES ASSUME call.need # 0, <<call.parent, "stranger">> \notin blind'
                     PROVE  \E i \in ExitRows(book, call.parent) : book[i].qty >= call.need
          OBVIOUS
        <5>1. (IF broker = "kite" THEN KiteExit(call) ELSE KotakExit(call, exit_ref)) = "ok"
          BY <1>1, <3>2
        <5>2. "stranger" \notin BlindSpots(call, exit_ref, "ok")
          BY <1>1, <3>2
        <5> QED BY <1>3, <5>1, <5>2, FoundIsEnough
      <4>2. /\ result'.parent = call.parent /\ result'.need = call.need
            /\ book'[result'.parent].status # "working"
            /\ result'.parent \in 1 .. Len(book')
        BY <1>2, <1>6, <2>1
      <4>3. \/ result'.need = 0
            \/ \E i \in ExitRows(book', result'.parent) : book'[i].qty >= result'.need
            \/ \E why \in {"stranger"} : <<result'.parent, why>> \in blind'
        BY <1>2, <4>1, <4>2
      <4> QED BY <4>2, <4>3 DEF ResultInv, OkMeansFlat, Blind
    <3> QED BY <3>1, <3>2
  <2>4. KeepsAll
    BY <1>2, <2>1, KeepsGivingUp DEF KeepsAll
  <2> QED BY <1>2, <1>4, <1>5, <1>7, <2>2, <2>3, <2>4, AloneStays, RefusedStays
<1>10. CASE outcome = "none"
  <2>a. PICK side : side = exit_side_for(call.rows[call.parent].side)
    OBVIOUS
  <2>b. PICK row : row = Row("exit", "", call.parent, side, call.need)
    OBVIOUS
  <2>1. /\ call' = [op |-> "sent", ref |-> exit_ref, id |-> 0, need |-> call.need, row |-> row]
        /\ result' = result
    BY <1>1, <1>10, <2>a, <2>b
  <2>2. call.need # 0
    BY <1>1, <1>10
  <2>3. /\ row.kind = "exit" /\ row.ref = "" /\ row.parent = call.parent /\ row.side = side
        /\ row.qty = call.need /\ row.filled = 0 /\ row.status = "working"
    BY <2>b DEF Row
  <2>4. side \in {"B", "S"} /\ call.parent \in Nat /\ call.need \in Nat \ {0}
    BY <1>6, <2>2, <2>a DEF exit_side_for
  <2>5. row \in RowType
    BY <2>b, <2>4 DEF Row, RowType
  <2>6. side = exit_side_for(book[call.parent].side)
    BY <1>6, <2>a DEF RowLater
  <2>7. SoundRow(row)
    <3>0. 0 < call.need /\ 0 <= call.need
      BY <1>6, <2>2
    <3>1. row.filled < row.qty /\ row.filled <= row.qty
      BY <2>3, <3>0
    <3> QED BY <2>3, <2>5, <3>1 DEF SoundRow
  <2>8. ParentOK(row, book, broker)
    <3>1. call.rows[call.parent].kind = book[call.parent].kind
      BY <1>6 DEF RowLater
    <3>2. /\ call.rows[call.parent].kind # "foreign"
          /\ broker = "kite" => call.rows[call.parent].kind # "exit"
      BY <1>3 DEF FlattenCall
    <3> QED BY <1>6, <2>3, <2>6, <3>1, <3>2 DEF ParentOK
  <2>9. NewRow(row)'
    BY <1>2, <2>3, <2>7, <2>8 DEF NewRow
  <2>10. SentCall'
    <3>1. Len(book') \in Nat
      BY <1>4 DEF BookInv, SoundBook
    <3>2. /\ call'.ref = exit_ref /\ call'.id = 0 /\ call'.need = call.need /\ call'.row = row
          /\ call'.need \in Nat
      BY <1>6, <2>1
    <3>3. call' = [op |-> "sent", ref |-> call'.ref, id |-> call'.id, need |-> call'.need,
                   row |-> call'.row]
      BY <2>1, <3>2
    <3>4. call'.id \in 0 .. Len(book')
      BY <3>1, <3>2
    <3>5. NewRow(call.row)'
      BY <2>9, <3>2 DEF NewRow
    <3> QED BY <2>3, <3>2, <3>3, <3>4, <3>5 DEF SentCall
  <2>11. CallInv'
    BY <2>1, <2>10 DEF CallInv
  <2>12. ResultInv'
    BY <1>4, <1>7, <2>1, ResultStays
  <2>13. \A w : InFlight(w)' <=> w = ExitFor(call.parent)
    BY <2>1, <2>3 DEF InFlight, Purpose, ExitFor
  <2>14. \A w : w # ExitFor(call.parent) => Keeps(w)
    BY <1>8, <2>13 DEF Keeps, Alone, Nowhere
  <2>15. \A r : EntryFor(r) # ExitFor(call.parent)
    BY DEF EntryFor, ExitFor
  <2>16. AloneInv'
    <3>1. ASSUME NEW r \in Refs PROVE Alone(EntryFor(r))'
      BY <2>14, <2>15 DEF AloneInv, Keeps
    <3>2. ASSUME NEW r \in Refs \ placed PROVE Nowhere(EntryFor(r))'
      BY <2>14, <2>15 DEF AloneInv, Keeps
    <3>3. ASSUME NEW p \in Nat PROVE Alone(ExitFor(p))' \/ Blind(p, Unseen)'
      <4>1. CASE p # call.parent
        <5>1. ExitFor(p) # ExitFor(call.parent)
          BY <4>1 DEF ExitFor
        <5> QED BY <1>7, <2>14, <5>1 DEF AloneInv, Keeps, Blind
      <4>2. CASE p = call.parent /\ BlindSpots(call, exit_ref, outcome) \cap Unseen # {}
        <5>1. PICK why \in Unseen : why \in BlindSpots(call, exit_ref, outcome)
          BY <4>2
        <5>2. <<p, why>> \in blind'
          BY <1>1, <2>2, <4>2, <5>1
        <5> QED BY <5>2 DEF Blind
      <4>3. CASE p = call.parent /\ BlindSpots(call, exit_ref, outcome) \cap Unseen = {}
        <5>1. InBook(ExitFor(p)) = {} /\ InLate(ExitFor(p)) = {}
          BY <1>1, <1>3, <1>10, <2>2, <4>3, NoneIsNone
        <5>2. InBook(ExitFor(p))' = {} /\ InLate(ExitFor(p))' = {}
          BY <1>8, <5>1
        <5> QED BY <5>2 DEF Alone
      <4> QED BY <4>1, <4>2, <4>3
    <3> QED BY <1>2, <3>1, <3>2, <3>3 DEF AloneInv
  <2>17. RefusedInv'
    <3>1. ASSUME NEW r \in refused PROVE Nowhere(EntryFor(r))'
      BY <2>14, <2>15 DEF RefusedInv, Keeps
    <3> QED BY <1>2, <3>1 DEF RefusedInv
  <2> QED BY <1>2, <1>4, <1>5, <2>11, <2>12, <2>16, <2>17
<1> QED BY <1>4, <1>9, <1>10

-----------------------------------------------------------------------------
(* What the invariant says of the exits in the book.                       *)

LEMMA TakenByNone == TotalTaken({}) = 0
<1> DEFINE step(f) == [T \in SUBSET {} |-> IF T = {} THEN 0
                         ELSE LET i == CHOOSE i \in T : TRUE IN Taken(i) + f[T \ {i}]]
           F == CHOOSE f : f = step(f)
           g == [T \in SUBSET {} |-> 0]
<1>1. g = step(g)
  OBVIOUS
<1>2. F = step(F)
  <2> HIDE DEF step, g
  <2> QED BY <1>1
<1>3. F[{}] = 0
  <2>1. step(F)[{}] = 0
    OBVIOUS
  <2> HIDE DEF step, F
  <2> QED BY <1>2, <2>1
<1> QED BY <1>3 DEF TotalTaken

LEMMA TakenByOne ==
  ASSUME NEW a, Taken(a) \in Int
  PROVE  TotalTaken({a}) = Taken(a)
<1> DEFINE step(f) == [T \in SUBSET {a} |-> IF T = {} THEN 0
                         ELSE LET i == CHOOSE i \in T : TRUE IN Taken(i) + f[T \ {i}]]
           F == CHOOSE f : f = step(f)
           g == [T \in SUBSET {a} |-> IF T = {} THEN 0 ELSE Taken(a)]
<1>1. g = step(g)
  <2>1. g[{}] = 0
    OBVIOUS
  <2>2. ASSUME NEW T \in SUBSET {a} PROVE g[T] = step(g)[T]
    <3>1. CASE T = {}
      BY <3>1
    <3>2. CASE T # {}
      <4>1. T = {a} /\ (CHOOSE i \in T : TRUE) = a /\ T \ {a} = {}
        BY <3>2
      <4>2. step(g)[T] = Taken(a) + g[{}]
        BY <3>2, <4>1
      <4>3. g[T] = Taken(a)
        BY <3>2
      <4> QED BY <2>1, <4>2, <4>3
    <3> QED BY <3>1, <3>2
  <2>3. g = [T \in SUBSET {a} |-> g[T]] /\ step(g) = [T \in SUBSET {a} |-> step(g)[T]]
    OBVIOUS
  <2> HIDE DEF g, step
  <2> QED BY <2>2, <2>3
<1>2. F = step(F)
  <2> HIDE DEF step, g
  <2> QED BY <1>1
<1>3. F[{}] = 0
  <2>1. step(F)[{}] = 0
    OBVIOUS
  <2> HIDE DEF step, F
  <2> QED BY <1>2, <2>1
<1>4. F[{a}] = Taken(a)
  <2>1. (CHOOSE i \in {a} : TRUE) = a /\ {a} \ {a} = {} /\ {a} # {} /\ {a} \in SUBSET {a}
    OBVIOUS
  <2>2. step(F)[{a}] = Taken(a) + F[{}]
    BY <2>1
  <2> HIDE DEF step, F
  <2> QED BY <1>2, <1>3, <2>2
<1> QED BY <1>4 DEF TotalTaken

LEMMA DeedsAreSafe ==
  ASSUME DeedInv
  PROVE  FlattenIsSafe
<1> USE DEF DeedInv, FlattenInv
<1>1. DOMAIN book = 1 .. Len(book) /\ \A i \in 1 .. Len(book) : SoundRow(book[i]) /\ ParentOK(book[i], book, broker)
  BY DEF BookInv, SoundBook
<1>2. ASSUME NEW p \in DOMAIN book, ~Blind(p, Unseen)
      PROVE  TotalTaken(ExitRows(book, p)) <= book[p].filled
  <2>0. book[p].filled \in Nat
    BY <1>1 DEF SoundRow, RowType
  <2>1. Alone(ExitFor(p))
    BY <1>1, <1>2 DEF AloneInv
  <2>2. \A i, j \in ExitRows(book, p) : i = j
    BY <2>1, ExitsOf DEF Alone
  <2>3. CASE ExitRows(book, p) = {}
    BY <2>0, <2>3, TakenByNone
  <2>4. CASE ExitRows(book, p) # {}
    <3>1. PICK i : ExitRows(book, p) = {i}
      BY <2>2, <2>4
    <3>2. i \in 1 .. Len(book) /\ book[i].kind = "exit" /\ book[i].parent = p
      BY <1>1, <3>1 DEF ExitRows
    <3>3. SoundRow(book[i]) /\ book[i].qty <= book[p].filled
      BY <1>1, <3>2 DEF ParentOK
    <3>4. book[i].qty \in Nat /\ book[i].filled \in Nat /\ book[i].filled <= book[i].qty
      BY <3>3 DEF SoundRow, RowType
    <3>5. Taken(i) \in Int /\ Taken(i) <= book[p].filled
      BY <2>0, <3>3, <3>4 DEF Taken
    <3> QED BY <3>1, <3>5, TakenByOne
  <2> QED BY <2>3, <2>4
<1>3. NeverExitsMoreThanFilled
  BY <1>2 DEF NeverExitsMoreThanFilled, Unseen
<1>4. OkMeansFlat
  BY DEF ResultInv
<1>5. ExitOnlyAfterRemainderIsDead
  BY <1>1 DEF ExitOnlyAfterRemainderIsDead, ParentOK
<1>6. NoExitOfAnExit
  BY <1>1 DEF NoExitOfAnExit, ParentOK
<1> QED BY <1>3, <1>4, <1>5, <1>6 DEF FlattenIsSafe
-----------------------------------------------------------------------------
(* A value for 0 with a step for every n makes a function.                 *)
StepsWithin(g, S) == g \in [Nat -> [S -> S]]
Unrolls(f, a, g, S) == /\ f \in [Nat -> S] /\ f[0] = a
                       /\ \A n \in Nat : f[n + 1] = g[n][f[n]]

LEMMA Recursion ==
  ASSUME NEW S, NEW a, NEW g, a \in S, StepsWithin(g, S)
  PROVE  \E f : Unrolls(f, a, g, S)
<1> USE DEF StepsWithin
<1> DEFINE Upto(n, h) == /\ h \in [0 .. n -> S] /\ h[0] = a
                         /\ \A i \in 1 .. n : h[i] = g[i - 1][h[i - 1]]
<1>0. \A n \in Nat, x \in S : g[n][x] \in S
  OBVIOUS
<1>1. \A n \in Nat : \E h : Upto(n, h)
  <2> SUFFICES ASSUME NEW n0 \in Nat, ~ \E h : Upto(n0, h) PROVE FALSE
    OBVIOUS
  <2> DEFINE Bad == {n \in Nat : ~ \E h : Upto(n, h)}
  <2>1. PICK m \in Bad : \A k \in Bad : m <= k
    <3>1. Bad \in SUBSET Nat /\ Bad # {}
      OBVIOUS
    <3> HIDE DEF Bad
    <3> QED BY <3>1, LeastNat
  <2>2. m # 0
    <3>1. Upto(0, [i \in 0 .. 0 |-> a])
      OBVIOUS
    <3> QED BY <3>1
  <2>3. m - 1 \in Nat /\ m - 1 \notin Bad
    <3>1. m \in Nat
      OBVIOUS
    <3> HIDE DEF Bad
    <3>2. m - 1 \in Nat /\ ~(m <= m - 1)
      BY <2>2, <3>1
    <3> QED BY <2>1, <3>2
  <2>4. PICK h : Upto(m - 1, h)
    BY <2>3
  <2> DEFINE k == [i \in 0 .. m |-> IF i = m THEN g[m - 1][h[m - 1]] ELSE h[i]]
  <2>5. k[m] = g[m - 1][h[m - 1]] /\ \A i \in 0 .. m - 1 : k[i] = h[i]
    BY <2>2, <2>3
  <2>6. k \in [0 .. m -> S]
    <3>1. h[m - 1] \in S /\ g[m - 1][h[m - 1]] \in S
      BY <1>0, <2>3, <2>4
    <3> QED BY <2>3, <2>4, <3>1
  <2>7. k[0] = a
    BY <2>2, <2>3, <2>4, <2>5
  <2>8. ASSUME NEW i \in 1 .. m PROVE k[i] = g[i - 1][k[i - 1]]
    <3>1. k[i - 1] = h[i - 1]
      BY <2>3, <2>5
    <3>2. CASE i = m
      BY <2>5, <3>1, <3>2
    <3>3. CASE i # m
      <4>1. i \in 1 .. m - 1 /\ i \in 0 .. m - 1
        BY <3>3
      <4> QED BY <2>4, <2>5, <3>1, <4>1
    <3> QED BY <3>2, <3>3
  <2> HIDE DEF k
  <2>9. Upto(m, k)
    BY <2>6, <2>7, <2>8
  <2> QED BY <2>1, <2>9
<1>2. ASSUME NEW n \in Nat, NEW m \in Nat, NEW h, NEW k, Upto(n, h), Upto(m, k),
             NEW j \in 0 .. n, j \in 0 .. m
      PROVE  h[j] = k[j]
  <2> SUFFICES ASSUME h[j] # k[j] PROVE FALSE
    OBVIOUS
  <2> DEFINE Diff == {i \in Nat : i <= j /\ h[i] # k[i]}
  <2>1. PICK i \in Diff : \A x \in Diff : i <= x
    <3>1. Diff \in SUBSET Nat /\ j \in Diff
      OBVIOUS
    <3> HIDE DEF Diff
    <3> QED BY <3>1, LeastNat
  <2>2. i # 0
    BY <1>2
  <2>3. i - 1 \in Nat /\ i - 1 \notin Diff
    BY <2>1, <2>2
  <2>4. i \in Nat /\ i <= j /\ h[i] # k[i]
    OBVIOUS
  <2>5. i \in 1 .. n /\ i \in 1 .. m /\ i - 1 <= j
    BY <1>2, <2>2, <2>4
  <2>6. h[i - 1] = k[i - 1]
    BY <2>3, <2>5
  <2>7. h[i] = g[i - 1][h[i - 1]] /\ k[i] = g[i - 1][k[i - 1]]
    BY <1>2, <2>5
  <2> QED BY <2>4, <2>6, <2>7
<1> DEFINE H(n) == CHOOSE h : Upto(n, h)
           f == [n \in Nat |-> H(n)[n]]
<1>3. \A n \in Nat : Upto(n, H(n))
  BY <1>1
<1> HIDE DEF H
<1>4. f \in [Nat -> S]
  BY <1>3
<1>5. f[0] = a
  BY <1>3
<1>6. ASSUME NEW n \in Nat PROVE f[n + 1] = g[n][f[n]]
  <2>1. n + 1 \in Nat /\ n + 1 \in 1 .. n + 1 /\ n \in 0 .. n /\ n \in 0 .. n + 1 /\ n + 1 - 1 = n
    OBVIOUS
  <2>2. Upto(n + 1, H(n + 1)) /\ Upto(n, H(n))
    BY <1>3, <2>1
  <2>3. H(n + 1)[n + 1] = g[n][H(n + 1)[n]]
    BY <2>1, <2>2
  <2>4. H(n + 1)[n] = H(n)[n]
    <3> DEFINE p == H(n + 1)
               q == H(n)
               m == n + 1
    <3>1. Upto(m, p) /\ Upto(n, q) /\ m \in Nat /\ n \in 0 .. m /\ n \in 0 .. n
      BY <2>1, <2>2
    <3> HIDE DEF Upto, p, q, m
    <3>2. p[n] = q[n]
      BY <1>2, <3>1
    <3> QED BY <3>2 DEF p, q, m
  <2> QED BY <2>1, <2>3, <2>4
<1> HIDE DEF f
<1>7. Unrolls(f, a, g, S)
  BY <1>4, <1>5, <1>6 DEF Unrolls
<1> QED BY <1>7

-----------------------------------------------------------------------------
(* Kotak's pending intents.                                                *)
KeptFrom(s, refs, k) ==
    k = [n \in 0 .. Len(s) |-> IF n = 0 THEN << >>
                               ELSE IF s[n].ref \in refs THEN k[n - 1]
                               ELSE Append(k[n - 1], s[n])]
Kept(s, refs) == CHOOSE k : KeptFrom(s, refs, k)

LEMMA KeptIs ==
  ASSUME NEW T, NEW s \in Seq(T), NEW refs
  PROVE  /\ Kept(s, refs)[0] = << >>
         /\ \A n \in 1 .. Len(s) :
               Kept(s, refs)[n] = IF s[n].ref \in refs THEN Kept(s, refs)[n - 1]
                                  ELSE Append(Kept(s, refs)[n - 1], s[n])
<1> DEFINE S == Seq(T)
           step(n, x) == IF n + 1 <= Len(s) /\ ~(s[n + 1].ref \in refs) THEN Append(x, s[n + 1]) ELSE x
           g == [n \in Nat |-> [x \in S |-> step(n, x)]]
<1>1. Len(s) \in Nat /\ \A n \in 1 .. Len(s) : s[n] \in T
  OBVIOUS
<1>2. ASSUME NEW n \in Nat, NEW x \in S PROVE step(n, x) \in S
  <2>1. CASE n + 1 <= Len(s)
    <3>1. s[n + 1] \in T
      BY <1>1, <2>1
    <3> QED BY <3>1
  <2>2. CASE ~(n + 1 <= Len(s))
    BY <2>2
  <2> QED BY <2>1, <2>2
<1>3. StepsWithin(g, S)
  <2> HIDE DEF step, S
  <2> QED BY <1>2 DEF StepsWithin
<1>4. PICK f : Unrolls(f, << >>, g, S)
  <2>1. << >> \in S
    OBVIOUS
  <2> HIDE DEF g, S
  <2> QED BY <1>3, <2>1, Recursion
<1>5. \A n \in Nat : f[n] \in S /\ f[n + 1] = step(n, f[n])
  <2> HIDE DEF step, S
  <2> QED BY <1>4 DEF Unrolls
<1> DEFINE h == [n \in 0 .. Len(s) |-> f[n]]
<1>6. ASSUME NEW n \in 1 .. Len(s)
      PROVE  f[n] = IF s[n].ref \in refs THEN f[n - 1] ELSE Append(f[n - 1], s[n])
  <2>1. n - 1 \in Nat /\ (n - 1) + 1 = n /\ n <= Len(s)
    BY <1>1
  <2>2. f[(n - 1) + 1] = step(n - 1, f[n - 1])
    BY <1>5, <2>1
  <2>3. f[n] = IF n <= Len(s) /\ ~(s[n].ref \in refs) THEN Append(f[n - 1], s[n]) ELSE f[n - 1]
    BY <2>1, <2>2
  <2> QED BY <2>1, <2>3
<1>7. KeptFrom(s, refs, h)
  <2>1. h[0] = << >>
    BY <1>1, <1>4 DEF Unrolls
  <2>2. \A n \in 0 .. Len(s) : h[n] = IF n = 0 THEN << >>
                                      ELSE IF s[n].ref \in refs THEN h[n - 1]
                                      ELSE Append(h[n - 1], s[n])
    <3> SUFFICES ASSUME NEW n \in 0 .. Len(s), n # 0
                 PROVE  h[n] = IF s[n].ref \in refs THEN h[n - 1] ELSE Append(h[n - 1], s[n])
      BY <2>1
    <3>1. n \in 1 .. Len(s) /\ n - 1 \in 0 .. Len(s) /\ n \in 0 .. Len(s)
      BY <1>1
    <3>2. h[n] = f[n] /\ h[n - 1] = f[n - 1]
      BY <3>1
    <3> HIDE DEF h
    <3> QED BY <1>6, <3>1, <3>2
  <2>3. h = [n \in 0 .. Len(s) |-> h[n]]
    OBVIOUS
  <2> HIDE DEF h
  <2> QED BY <2>2, <2>3 DEF KeptFrom
<1>8. KeptFrom(s, refs, Kept(s, refs))
  <2> HIDE DEF h
  <2> QED BY <1>7 DEF Kept
<1> DEFINE K == Kept(s, refs)
<1>9. KeptFrom(s, refs, K)
  BY <1>8
<1> HIDE DEF K
<1>10. \A n \in 0 .. Len(s) : K[n] = IF n = 0 THEN << >>
                                     ELSE IF s[n].ref \in refs THEN K[n - 1]
                                     ELSE Append(K[n - 1], s[n])
  BY <1>9 DEF KeptFrom
<1>11. K[0] = << >>
  BY <1>1, <1>10
<1>12. ASSUME NEW n \in 1 .. Len(s)
       PROVE  K[n] = IF s[n].ref \in refs THEN K[n - 1] ELSE Append(K[n - 1], s[n])
  <2>1. n \in 0 .. Len(s) /\ n # 0
    BY <1>1
  <2> QED BY <1>10, <2>1
<1> QED BY <1>11, <1>12 DEF K

\* The first n intents, those of refs left out.
KeepsFirst(t, s, refs, n, T) ==
    /\ t \in Seq(T) /\ Len(t) <= n
    /\ \A m \in 1 .. Len(t) : \E j \in 1 .. n : t[m] = s[j] /\ s[j].ref \notin refs
    /\ \A j \in 1 .. n : s[j].ref \notin refs => \E m \in 1 .. Len(t) : t[m] = s[j]

LEMMA KeepsNext ==
  ASSUME NEW T, NEW s, NEW refs, NEW n \in Nat, NEW t, KeepsFirst(t, s, refs, n, T), s[n + 1] \in T
  PROVE  KeepsFirst(IF s[n + 1].ref \in refs THEN t ELSE Append(t, s[n + 1]), s, refs, n + 1, T)
<1>1. t \in Seq(T) /\ Len(t) \in Nat /\ Len(t) <= n
  BY DEF KeepsFirst
<1>2. CASE s[n + 1].ref \in refs
  <2>1. KeepsFirst(t, s, refs, n + 1, T)
    <3>1. ASSUME NEW m \in 1 .. Len(t) PROVE \E j \in 1 .. n + 1 : t[m] = s[j] /\ s[j].ref \notin refs
      <4>1. PICK j \in 1 .. n : t[m] = s[j] /\ s[j].ref \notin refs
        BY DEF KeepsFirst
      <4>2. j \in 1 .. n + 1
        OBVIOUS
      <4> QED BY <4>1, <4>2
    <3>2. ASSUME NEW j \in 1 .. n + 1, s[j].ref \notin refs PROVE \E m \in 1 .. Len(t) : t[m] = s[j]
      <4>1. j \in 1 .. n
        BY <1>2, <3>2
      <4> QED BY <3>2, <4>1 DEF KeepsFirst
    <3> QED BY <1>1, <3>1, <3>2 DEF KeepsFirst
  <2> QED BY <1>2, <2>1
<1>3. CASE s[n + 1].ref \notin refs
  <2>1. PICK u : u = Append(t, s[n + 1])
    OBVIOUS
  <2>2. /\ u \in Seq(T) /\ Len(u) = Len(t) + 1 /\ u[Len(t) + 1] = s[n + 1]
        /\ \A i \in 1 .. Len(t) : u[i] = t[i]
    BY <1>1, <2>1, AppendProperties
  <2>3. ASSUME NEW m \in 1 .. Len(u) PROVE \E j \in 1 .. n + 1 : u[m] = s[j] /\ s[j].ref \notin refs
    <3>1. CASE m = Len(t) + 1
      BY <1>3, <2>2, <3>1
    <3>2. CASE m \in 1 .. Len(t)
      <4>1. PICK j \in 1 .. n : t[m] = s[j] /\ s[j].ref \notin refs
        BY <3>2 DEF KeepsFirst
      <4>2. j \in 1 .. n + 1
        OBVIOUS
      <4> QED BY <2>2, <3>2, <4>1, <4>2
    <3> QED BY <1>1, <2>2, <3>1, <3>2
  <2>4. ASSUME NEW j \in 1 .. n + 1, s[j].ref \notin refs PROVE \E m \in 1 .. Len(u) : u[m] = s[j]
    <3>1. CASE j = n + 1
      <4>1. Len(t) + 1 \in 1 .. Len(u)
        BY <1>1, <2>2
      <4> QED BY <2>2, <3>1, <4>1
    <3>2. CASE j \in 1 .. n
      <4>1. PICK m \in 1 .. Len(t) : t[m] = s[j]
        BY <2>4, <3>2 DEF KeepsFirst
      <4>2. m \in 1 .. Len(u)
        BY <1>1, <2>2
      <4> QED BY <2>2, <4>1, <4>2
    <3> QED BY <3>1, <3>2
  <2>5. KeepsFirst(u, s, refs, n + 1, T)
    BY <1>1, <2>2, <2>3, <2>4 DEF KeepsFirst
  <2> QED BY <1>3, <2>1, <2>5
<1> QED BY <1>2, <1>3

LEMMA KeptKeeps ==
  ASSUME NEW T, NEW s \in Seq(T), NEW refs
  PROVE  KeepsFirst(Kept(s, refs)[Len(s)], s, refs, Len(s), T)
<1> DEFINE K == Kept(s, refs)
<1>1. /\ K[0] = << >>
      /\ \A n \in 1 .. Len(s) : K[n] = IF s[n].ref \in refs THEN K[n - 1]
                                       ELSE Append(K[n - 1], s[n])
  BY KeptIs
<1> HIDE DEF K
<1>2. Len(s) \in Nat /\ \A n \in 1 .. Len(s) : s[n] \in T
  OBVIOUS
<1> SUFFICES ASSUME ~KeepsFirst(K[Len(s)], s, refs, Len(s), T) PROVE FALSE
  BY DEF K
<1> DEFINE Bad == {n \in Nat : n <= Len(s) /\ ~KeepsFirst(K[n], s, refs, n, T)}
<1>3. PICK n \in Bad : \A k \in Bad : n <= k
  <2>1. Bad \in SUBSET Nat /\ Len(s) \in Bad
    BY <1>2
  <2> HIDE DEF Bad
  <2> QED BY <2>1, LeastNat
<1>4. n \in Nat /\ n <= Len(s) /\ ~KeepsFirst(K[n], s, refs, n, T)
  OBVIOUS
<1>5. n # 0
  <2>1. KeepsFirst(<< >>, s, refs, 0, T)
    BY DEF KeepsFirst
  <2> QED BY <1>1, <1>4, <2>1
<1>6. n - 1 \in Nat /\ (n - 1) + 1 = n /\ n \in 1 .. Len(s) /\ ~(n <= n - 1) /\ n - 1 <= Len(s)
  BY <1>2, <1>4, <1>5
<1>7. KeepsFirst(K[n - 1], s, refs, n - 1, T)
  BY <1>3, <1>6
<1> HIDE DEF Bad
<1>8. PICK m \in Nat : m = n - 1
  BY <1>6
<1>9. KeepsFirst(K[m], s, refs, m, T) /\ s[m + 1] \in T /\ m + 1 = n
  BY <1>2, <1>6, <1>7, <1>8
<1>10. KeepsFirst(IF s[m + 1].ref \in refs THEN K[m] ELSE Append(K[m], s[m + 1]), s, refs, m + 1, T)
  BY <1>9, KeepsNext
<1>11. K[n] = IF s[m + 1].ref \in refs THEN K[m] ELSE Append(K[m], s[m + 1])
  BY <1>1, <1>6, <1>8, <1>9
<1> QED BY <1>4, <1>9, <1>10, <1>11

\* What dropping leaves: a sequence of the intents that do not bear those names.
LEMMA Dropped ==
  ASSUME broker \in {"kite", "kotak"}, NEW s \in Seq(Intents), NEW refs, NEW t, t = drop_pending(s, refs)
  PROVE  /\ t \in Seq(Intents) /\ Len(t) <= Len(s) /\ Range(t) \subseteq Range(s)
         /\ \A x \in Range(s) : x.ref \notin refs => x \in Range(t)
<1>0. Len(s) \in Nat /\ DOMAIN s = 1 .. Len(s)
  OBVIOUS
<1>1. CASE broker = "kite"
  <2>1. t = s
    BY <1>1 DEF drop_pending
  <2> QED BY <1>0, <2>1
<1>2. CASE broker = "kotak"
  <2>1. t = Kept(s, refs)[Len(s)]
    BY <1>2 DEF drop_pending, Kept, KeptFrom
  <2>2. KeepsFirst(t, s, refs, Len(s), Intents)
    BY <2>1, KeptKeeps
  <2>3. t \in Seq(Intents) /\ Len(t) <= Len(s) /\ DOMAIN t = 1 .. Len(t)
    BY <2>2 DEF KeepsFirst
  <2>4. Range(t) \subseteq Range(s)
    <3> SUFFICES ASSUME NEW x \in Range(t) PROVE x \in Range(s)
      OBVIOUS
    <3>1. PICK m \in 1 .. Len(t) : x = t[m]
      BY <2>3 DEF Range
    <3>2. PICK j \in 1 .. Len(s) : t[m] = s[j]
      BY <2>2, <3>1 DEF KeepsFirst
    <3> QED BY <1>0, <3>1, <3>2 DEF Range
  <2>5. ASSUME NEW x \in Range(s), x.ref \notin refs PROVE x \in Range(t)
    <3>1. PICK j \in 1 .. Len(s) : x = s[j]
      BY <1>0 DEF Range
    <3>2. PICK m \in 1 .. Len(t) : t[m] = s[j]
      BY <2>2, <2>5, <3>1 DEF KeepsFirst
    <3> QED BY <2>3, <3>1, <3>2 DEF Range
  <2> QED BY <2>3, <2>4, <2>5
<1> QED BY <1>1, <1>2

IntentOf(r, key) == [ref |-> r, key |-> key]
Keys == {"B", "S"} \X (Nat \ {0})

LEMMA IntentTyped ==
  ASSUME NEW r \in Names, NEW key \in Keys
  PROVE  IntentOf(r, key) \in Intents
BY DEF IntentOf, Intents, Keys

LEMMA Reshaped ==
  ASSUME NEW x \in Intents, NEW key
  PROVE  [x EXCEPT !.key = key] = IntentOf(x.ref, key)
BY DEF Intents, IntentOf

\* What registering leaves: the other intents unless the list was full, and the
\* new one unless its name is bound already.
LEMMA Registered ==
  ASSUME pending \in Seq(Intents), Len(pending) <= kMaxPendingIntents,
         NEW r \in Names, NEW key \in Keys, NEW t, t = register_intent(r, key)
  PROVE  /\ t \in Seq(Intents) /\ Len(t) <= kMaxPendingIntents
         /\ \A x \in Range(t) : x \in Range(pending) \/ x = IntentOf(r, key)
         /\ (broker = "kotak" /\ ~Evicts(r)) => \A x \in Range(pending) : x.ref # r => x \in Range(t)
         /\ r \notin anchored => IntentOf(r, key) \in Range(t)
<1>0. /\ Len(pending) \in Nat /\ DOMAIN pending = 1 .. Len(pending)
      /\ \A i \in 1 .. Len(pending) : pending[i] \in Intents
  OBVIOUS
<1>1. kMaxPendingIntents \in Nat /\ kMaxPendingIntents >= 1
  <2>1. kMaxPendingIntents \in Nat \ {0}
    BY ONLY AdapterAssumption
  <2> QED BY ONLY <2>1
<1>2. IntentOf(r, key) \in Intents
  BY IntentTyped
<1>3. CASE r \in anchored
  <2>1. t = pending
    BY <1>3 DEF register_intent
  <2> QED BY <1>3, <2>1
<1>4. CASE r \notin anchored /\ \E i \in DOMAIN pending : pending[i].ref = r
  <2>1. t = [i \in 1 .. Len(pending) |->
               IF pending[i].ref = r THEN [pending[i] EXCEPT !.key = key] ELSE pending[i]]
    BY <1>0, <1>4 DEF register_intent
  <2>2. ASSUME NEW i \in 1 .. Len(pending)
        PROVE  t[i] = IF pending[i].ref = r THEN IntentOf(r, key) ELSE pending[i]
    BY <1>0, <2>1, Reshaped
  <2>3. t \in Seq(Intents) /\ Len(t) = Len(pending) /\ DOMAIN t = 1 .. Len(pending)
    <3>1. t = [i \in 1 .. Len(pending) |-> t[i]]
      BY <2>1
    <3>2. \A i \in 1 .. Len(pending) : t[i] \in Intents
      BY <1>0, <1>2, <2>2
    <3> QED BY <1>0, <3>1, <3>2
  <2>4. \A x \in Range(t) : x \in Range(pending) \/ x = IntentOf(r, key)
    BY <1>0, <2>2, <2>3 DEF Range
  <2>5. ASSUME NEW x \in Range(pending), x.ref # r PROVE x \in Range(t)
    BY <1>0, <2>2, <2>3, <2>5 DEF Range
  <2>6. IntentOf(r, key) \in Range(t)
    BY <1>0, <1>4, <2>2, <2>3 DEF Range
  <2> QED BY <2>3, <2>4, <2>5, <2>6
<1>5. CASE r \notin anchored /\ ~ \E i \in DOMAIN pending : pending[i].ref = r
  <2>1. PICK u : u = Append(pending, IntentOf(r, key))
    OBVIOUS
  <2>2. t = IF Len(u) > kMaxPendingIntents THEN Tail(u) ELSE u
    BY <1>5, <2>1 DEF register_intent, IntentOf
  <2>3. /\ u \in Seq(Intents) /\ Len(u) = Len(pending) + 1 /\ u[Len(pending) + 1] = IntentOf(r, key)
        /\ \A i \in 1 .. Len(pending) : u[i] = pending[i]
    BY <1>2, <2>1, AppendProperties
  <2>4. DOMAIN u = 1 .. Len(pending) + 1
    BY <2>3
  <2>5. ASSUME NEW i \in 1 .. Len(u) PROVE u[i] \in Range(pending) \/ u[i] = IntentOf(r, key)
    <3>1. CASE i = Len(pending) + 1
      BY <2>3, <3>1
    <3>2. CASE i \in 1 .. Len(pending)
      BY <1>0, <2>3, <3>2 DEF Range
    <3> QED BY <1>0, <2>3, <3>1, <3>2
  <2>6. CASE Len(u) > kMaxPendingIntents
    <3>1. Len(pending) = kMaxPendingIntents /\ t = Tail(u)
      <4>1. Len(pending) = kMaxPendingIntents
        <5>1. Len(u) = Len(pending) + 1 /\ Len(pending) \in Nat /\ kMaxPendingIntents \in Nat
          BY <1>0, <1>1, <2>3
        <5> QED BY ONLY <5>1, <2>6, Len(pending) <= kMaxPendingIntents
      <4> QED BY <2>2, <2>6, <4>1
    <3>2. /\ t \in Seq(Intents) /\ Len(t) = Len(pending)
          /\ \A i \in 1 .. Len(pending) : t[i] = u[i + 1]
      BY <1>0, <2>3, <3>1
    <3>3. DOMAIN t = 1 .. Len(pending)
      BY <3>2
    <3>4. ASSUME NEW x \in Range(t) PROVE x \in Range(pending) \/ x = IntentOf(r, key)
      <4>1. PICK i \in 1 .. Len(pending) : x = u[i + 1]
        BY <3>2, <3>3 DEF Range
      <4>2. i + 1 \in 1 .. Len(u)
        BY <1>0, <2>3
      <4> QED BY <2>5, <4>1, <4>2
    <3>5. broker = "kotak" => Evicts(r)
      BY <1>5, <3>1 DEF Evicts
    <3>6. IntentOf(r, key) \in Range(t)
      <4>1. Len(pending) \in 1 .. Len(pending)
        BY <1>0, <1>1, <3>1
      <4>2. t[Len(pending)] = IntentOf(r, key)
        BY <2>3, <3>2, <4>1
      <4> QED BY <3>3, <4>1, <4>2 DEF Range
    <3> QED BY <3>1, <3>2, <3>4, <3>5, <3>6
  <2>7. CASE ~(Len(u) > kMaxPendingIntents)
    <3>1. t = u /\ Len(t) <= kMaxPendingIntents
      BY <1>0, <1>1, <2>2, <2>3, <2>7
    <3>2. \A x \in Range(t) : x \in Range(pending) \/ x = IntentOf(r, key)
      BY <2>3, <2>4, <2>5, <3>1 DEF Range
    <3>3. ASSUME NEW x \in Range(pending) PROVE x \in Range(t)
      <4>1. PICK i \in 1 .. Len(pending) : x = pending[i]
        BY <1>0 DEF Range
      <4>2. i \in DOMAIN u /\ x = u[i]
        BY <1>0, <2>3, <2>4, <4>1
      <4> QED BY <3>1, <4>2 DEF Range
    <3>4. IntentOf(r, key) \in Range(t)
      <4>1. Len(pending) + 1 \in DOMAIN u
        BY <1>0, <2>4
      <4> QED BY <2>3, <3>1, <4>1 DEF Range
    <3> QED BY <2>3, <3>1, <3>2, <3>3, <3>4
  <2> QED BY <2>6, <2>7
<1> QED BY <1>3, <1>4, <1>5

\* What both operations leave of the sequence of intents.
Listed(t) == t \in Seq(Intents) /\ Len(t) <= kMaxPendingIntents

LEMMA DroppedListed ==
  ASSUME broker \in {"kite", "kotak"}, NEW s, Listed(s), NEW refs, NEW t, t = drop_pending(s, refs)
  PROVE  Listed(t)
<1>1. s \in Seq(Intents) /\ Len(s) <= kMaxPendingIntents /\ kMaxPendingIntents \in Nat
  BY AdapterAssumption DEF Listed
<1>2. t \in Seq(Intents) /\ Len(t) <= Len(s)
  BY <1>1, Dropped
<1>3. Len(t) \in Nat /\ Len(s) \in Nat
  BY <1>1, <1>2
<1> QED BY <1>1, <1>2, <1>3 DEF Listed

-----------------------------------------------------------------------------
(* Names stay right while the book moves on.                               *)
NewIds ==
    \A i \in DOMAIN ids' : \/ i \in DOMAIN ids /\ ids'[i] = ids[i]
                           \/ i \in DOMAIN book /\ RightName(ids'[i], book[i])
NewKnown ==
    \A i \in DOMAIN known' : \/ i \in DOMAIN known /\ known'[i] = known[i]
                             \/ /\ i \in DOMAIN book /\ book[i].kind = "entry"
                                /\ known'[i] = RefOf(book[i].ref)
\* The quantity of a row changes only when its id is bound.
SameQtys ==
    \A j \in DOMAIN book' :
        \/ j \in DOMAIN book /\ (book'[j].qty = book[j].qty \/ j \in DOMAIN ids)
        \/ book'[j].kind = "entry" => book'[j].qty = EntryQty
NothingNew == \A r \in Refs : Nowhere(EntryFor(r)) => Nowhere(EntryFor(r))'

LEMMA GrownRow ==
  ASSUME SoundBook(book), Grown, NEW i \in DOMAIN book
  PROVE  i \in DOMAIN book' /\ RowLater(book[i], book'[i])
<1>1. /\ DOMAIN book = 1 .. Len(book) /\ DOMAIN book' = 1 .. Len(book')
      /\ Len(book) \in Nat /\ Len(book') \in Nat /\ Len(book) <= Len(book')
  BY DEF SoundBook, Grown, Later
<1>2. i \in 1 .. Len(book')
  BY <1>1
<1> QED BY <1>1, <1>2 DEF Grown, Later

LEMMA CleanBefore ==
  ASSUME DeedInv, Grown, forgot' = FALSE => forgot = FALSE, Clean'
  PROVE  Clean
<1>0. SoundBook(book)
  BY DEF DeedInv, FlattenInv, BookInv
<1>1. ASSUME NEW i \in DOMAIN book PROVE book[i].kind # "foreign"
  BY <1>0, GrownRow DEF Clean, RowLater
<1>2. ASSUME NEW i \in DOMAIN book, book[i].kind = "exit" PROVE book[book[i].parent].kind # "exit"
  <2>1. book[i].parent \in DOMAIN book
    BY <1>0, <1>2 DEF DeedInv, FlattenInv, BookInv, SoundBook, ParentOK
  <2>2. i \in DOMAIN book' /\ book'[i].kind = "exit" /\ book'[i].parent = book[i].parent
    BY <1>0, <1>2, GrownRow DEF RowLater
  <2>3. book'[book[i].parent].kind = book[book[i].parent].kind
    BY <1>0, <2>1, GrownRow DEF RowLater
  <2> QED BY <2>2, <2>3 DEF Clean
<1> QED BY <1>1, <1>2 DEF Clean

LEMMA RightNameStays ==
  ASSUME NEW old, NEW new, RowLater(old, new), NEW n, RightName(n, old)
  PROVE  RightName(n, new)
BY DEF RowLater, RightName

LEMMA RightNamesStep ==
  ASSUME DeedInv, Grown, NameTypes, RightNames, forgot' = FALSE => forgot = FALSE,
         broker = "kite" \/ Clean => NewIds /\ NewKnown
  PROVE  RightNames'
<1>0. SoundBook(book)
  BY DEF DeedInv, FlattenInv, BookInv
<1> SUFFICES ASSUME broker' = "kite" \/ Clean' PROVE RightIds' /\ RightKnown'
  BY DEF RightNames
<1>1. broker = "kite" \/ Clean
  BY CleanBefore DEF Grown
<1>2. RightIds /\ RightKnown /\ NewIds /\ NewKnown
  BY <1>1 DEF RightNames
<1>3. ASSUME NEW i \in DOMAIN ids' PROVE RightName(ids'[i], book'[i])
  <2>1. i \in DOMAIN book /\ RightName(ids'[i], book[i])
    BY <1>2 DEF NewIds, RightIds, NameTypes
  <2> QED BY <1>0, <2>1, GrownRow, RightNameStays
<1>4. ASSUME NEW i \in DOMAIN known' PROVE book'[i].kind = "entry" /\ known'[i] = RefOf(book'[i].ref)
  <2>1. i \in DOMAIN book /\ book[i].kind = "entry" /\ known'[i] = RefOf(book[i].ref)
    BY <1>2 DEF NewKnown, RightKnown, NameTypes
  <2> QED BY <1>0, <2>1, GrownRow DEF RowLater
<1>5. RightIds'
  BY <1>3 DEF RightIds, RightName
<1>6. RightKnown'
  BY <1>4 DEF RightKnown
<1> QED BY <1>5, <1>6

LEMMA MoreOf ==
  ASSUME SoundBook(book), Grown, NEW w, NEW i \in InBook(w)
  PROVE  i \in InBook(w)'
<1>1. i \in DOMAIN book /\ Purpose(book[i]) = w
  BY DEF InBook, SoundBook
<1>2. i \in DOMAIN book' /\ RowLater(book[i], book'[i])
  BY <1>1, GrownRow
<1>3. i \in 1 .. Len(book') /\ Purpose(book'[i]) = w
  BY <1>1, <1>2 DEF RowLater, Purpose, Grown, SoundBook
<1> QED BY <1>3 DEF InBook

LEMMA HeldStays ==
  ASSUME SoundBook(book), Grown, DOMAIN ids \subseteq DOMAIN ids', NEW r \in Refs, Held(r),
         Nowhere(EntryFor(r)) => Nowhere(EntryFor(r))',
         EntryIntent(r) \in Range(pending) => EntryIntent(r) \in Range(pending') \/ Held(r)'
  PROVE  Held(r)'
<1>1. CASE Nowhere(EntryFor(r))
  <2>1. Nowhere(EntryFor(r))'
    BY <1>1
  <2> QED BY <2>1 DEF Held
<1>2. CASE EntryIntent(r) \in Range(pending)
  <2>1. EntryIntent(r)' = EntryIntent(r)
    BY DEF EntryIntent
  <2> QED BY <1>2, <2>1 DEF Held
<1>3. CASE \E i \in InBook(EntryFor(r)) : i \in DOMAIN ids
  <2>1. PICK i \in InBook(EntryFor(r)) : i \in DOMAIN ids
    BY <1>3
  <2>2. i \in InBook(EntryFor(r))' /\ i \in DOMAIN ids'
    BY <2>1, MoreOf
  <2> QED BY <2>2 DEF Held
<1> QED BY <1>1, <1>2, <1>3 DEF Held

LEMMA UnmodifiedStays ==
  ASSUME SoundBook(book), Grown, SameQtys, DOMAIN ids \subseteq DOMAIN ids', Unmodified(book)
  PROVE  Unmodified(book)'
<1> SUFFICES ASSUME NEW i \in DOMAIN book', book'[i].kind = "entry", i \notin DOMAIN ids'
             PROVE  book'[i].qty = EntryQty
  BY DEF Unmodified
<1>1. CASE book'[i].kind = "entry" => book'[i].qty = EntryQty
  BY <1>1
<1>2. CASE i \in DOMAIN book /\ (book'[i].qty = book[i].qty \/ i \in DOMAIN ids)
  <2>1. book[i].kind = "entry"
    BY <1>2, GrownRow DEF RowLater
  <2> QED BY <1>2, <2>1 DEF Unmodified
<1> QED BY <1>1, <1>2 DEF SameQtys

\* A fetch that began, ended or goes on.
FetchStep == fetch' = fetch \/ fetch'.op = "none" \/ (fetch'.rows = book /\ ids' = ids)

LEMMA FetchedStays ==
  ASSUME KotakClean, FetchStep, DOMAIN ids \subseteq DOMAIN ids', fetch'.op = "read"
  PROVE  Unmodified(fetch.rows)'
<1>1. CASE fetch' = fetch
  BY <1>1 DEF KotakClean, Unmodified
<1>2. CASE fetch'.rows = book /\ ids' = ids
  BY <1>2 DEF KotakClean, Unmodified
<1> QED BY <1>1, <1>2 DEF FetchStep

\* Each step that leaves the maps alone.
LEMMA MapsStay ==
  ASSUME DeedInv, Grown, NameInv, SameQtys, NothingNew, FetchStep,
         ids' = ids, tags' = tags, pending' = pending, anchored' = anchored, placed' = placed,
         known' = known, forgot' = forgot,
         call'.op = "sent" => /\ call.op = "sent" /\ call'.ref = call.ref /\ call'.row = call.row
  PROVE  NameInv'
<1>0. SoundBook(book) /\ broker \in {"kite", "kotak"} /\ broker' = broker
  BY DEF DeedInv, FlattenInv, BookInv, Grown
<1>1. NameTypes'
  <2>1. ASSUME NEW i \in DOMAIN book PROVE i \in DOMAIN book'
    BY <1>0, GrownRow
  <2> QED BY <2>1 DEF NameInv, NameTypes, RightName
<1>2. RightNames'
  <2>1. NewIds /\ NewKnown
    BY DEF NewIds, NewKnown
  <2> QED BY <2>1, RightNamesStep DEF NameInv
<1>3. RightTags'
  BY <1>0 DEF NameInv, RightTags, RightTag
<1>4. KotakInv'
  <2> SUFFICES ASSUME broker' = "kotak"
               PROVE  (\A i \in DOMAIN ids' : ids'[i] \in anchored') /\ (Clean' => KotakClean')
    BY DEF KotakInv
  <2>1. \A i \in DOMAIN ids' : ids'[i] \in anchored'
    BY <1>0 DEF NameInv, KotakInv
  <2>2. ASSUME Clean' PROVE KotakClean'
    <3>1. Clean /\ KotakClean
      BY <1>0, <2>2, CleanBefore DEF NameInv, KotakInv
    <3>2. ASSUME NEW r \in Refs PROVE Held(r)'
      BY <1>0, <3>1, HeldStays DEF KotakClean, NothingNew
    <3>3. Unmodified(book)'
      BY <1>0, <3>1, UnmodifiedStays DEF KotakClean
    <3>4. fetch'.op = "read" => Unmodified(fetch.rows)'
      BY <3>1, FetchedStays
    <3> QED BY <3>1, <3>2, <3>3, <3>4 DEF KotakClean
  <2> QED BY <2>1, <2>2
<1> QED BY <1>1, <1>2, <1>3, <1>4 DEF NameInv

LEMMA SameBookSameQtys ==
  ASSUME book' = book
  PROVE  SameQtys
BY DEF SameQtys

LEMMA AppendedQtys ==
  ASSUME SoundBook(book), NEW row, SoundRow(row), row.kind = "entry" => row.qty = EntryQty,
         book' = Append(book, row)
  PROVE  SameQtys
<1>1. /\ SoundBook(book') /\ Len(book') = Len(book) + 1 /\ book'[Len(book) + 1] = row
      /\ \A i \in 1 .. Len(book) : book'[i] = book[i]
  BY RowAppended
<1>2. DOMAIN book = 1 .. Len(book) /\ DOMAIN book' = 1 .. Len(book) + 1 /\ Len(book) \in Nat
  BY <1>1 DEF SoundBook
<1> SUFFICES ASSUME NEW j \in 1 .. Len(book) + 1
             PROVE  \/ j \in DOMAIN book /\ (book'[j].qty = book[j].qty \/ j \in DOMAIN ids)
                    \/ book'[j].kind = "entry" => book'[j].qty = EntryQty
  BY <1>2 DEF SameQtys
<1>3. CASE j = Len(book) + 1
  BY <1>1, <1>3
<1>4. CASE j \in 1 .. Len(book)
  BY <1>1, <1>2, <1>4
<1> QED BY <1>2, <1>3, <1>4

LEMMA UpdatedQtys ==
  ASSUME SoundBook(book), NEW i \in DOMAIN book, NEW row, book' = Put(book, i, row),
         row.qty = book[i].qty \/ i \in DOMAIN ids
  PROVE  SameQtys
<1>1. DOMAIN book' = DOMAIN book /\ \A j \in DOMAIN book : book'[j] = IF j = i THEN row ELSE book[j]
  BY DEF Put
<1> QED BY <1>1 DEF SameQtys

LEMMA SameRequests ==
  ASSUME BookInv, Grown, Len(book') = Len(book), late' = late,
         \A w : InFlight(w)' => InFlight(w)
  PROVE  NothingNew
BY SameInBook, KeepsSame DEF NothingNew, Keeps

LEMMA ArriveNames ==
  ASSUME DeedInv, NameInv, Arrive
  PROVE  NameInv'
<1> USE DEF DeedInv, FlattenInv
<1>1. Grown
  BY ArriveKeeps
<1>2. /\ call.op = "sent" /\ call.id = 0 /\ book' = Append(book, call.row)
      /\ call' = [call EXCEPT !.id = Len(book) + 1] /\ late' = late /\ fetch' = fetch
      /\ ids' = ids /\ tags' = tags /\ pending' = pending /\ anchored' = anchored
      /\ placed' = placed /\ known' = known /\ forgot' = forgot
  BY DEF Arrive, maps, history
<1>3. SentCall /\ NewRow(call.row) /\ SoundRow(call.row) /\ SoundBook(book) /\ Len(book) \in Nat
  BY <1>2 DEF CallInv, SentCall, NewRow, BookInv, SoundBook
<1>4. call' = [op |-> "sent", ref |-> call.ref, id |-> Len(book) + 1, need |-> call.need,
               row |-> call.row]
  BY <1>2, <1>3 DEF SentCall
<1>5. \A w : ~InFlight(w)'
  BY <1>3, <1>4 DEF InFlight
<1>6. NothingNew
  BY <1>2, <1>3, <1>5, KeepsArriving DEF NothingNew, Keeps
<1>7. SameQtys
  BY <1>2, <1>3, AppendedQtys DEF NewRow
<1> QED BY <1>1, <1>2, <1>4, <1>6, <1>7, MapsStay DEF FetchStep

LEMMA ArriveLateNames ==
  ASSUME DeedInv, NameInv, ArriveLate
  PROVE  NameInv'
<1> USE DEF DeedInv, FlattenInv
<1>1. Grown
  BY ArriveLateKeeps
<1>2. PICK row \in late : late' = late \ {row} /\ book' = Append(book, row)
  BY DEF ArriveLate
<1>3. /\ call' = call /\ fetch' = fetch
      /\ ids' = ids /\ tags' = tags /\ pending' = pending /\ anchored' = anchored
      /\ placed' = placed /\ known' = known /\ forgot' = forgot
  BY DEF ArriveLate, maps, history
<1>4. NewRow(row) /\ SoundRow(row) /\ SoundBook(book)
  BY DEF LateInv, NewRow, BookInv
<1>5. NothingNew
  BY <1>2, <1>3, <1>4, KeepsArrivingLate DEF NothingNew, Keeps
<1>6. SameQtys
  BY <1>2, <1>4, AppendedQtys DEF NewRow
<1> QED BY <1>1, <1>3, <1>5, <1>6, MapsStay DEF FetchStep

LEMMA AckNoIdNames ==
  ASSUME DeedInv, NameInv, PlaceAckNoId
  PROVE  NameInv'
<1>1. Grown
  BY AckKeeps
<1>2. /\ call' = Idle /\ book' = book /\ late' = late /\ fetch' = fetch
      /\ ids' = ids /\ tags' = tags /\ pending' = pending /\ anchored' = anchored
      /\ placed' = placed /\ known' = known /\ forgot' = forgot
  BY DEF PlaceAckNoId, maps, history
<1>3. NothingNew
  BY <1>2, KeepsGivingUp DEF NothingNew, Keeps
<1> QED BY <1>1, <1>2, <1>3, SameBookSameQtys, MapsStay DEF FetchStep, Idle

LEMMA FetchReadNames ==
  ASSUME DeedInv, NameInv, NEW bad \in Reads(FetchFaults), FetchRead(bad)
  PROVE  NameInv'
<1>1. Grown
  BY FetchKeeps
<1>2. /\ call' = call /\ book' = book /\ late' = late
      /\ fetch' = [op |-> "read", rows |-> book, bad |-> bad]
      /\ ids' = ids /\ tags' = tags /\ pending' = pending /\ anchored' = anchored
      /\ placed' = placed /\ known' = known /\ forgot' = forgot
  BY DEF FetchRead, maps, history
<1>3. FetchStep
  BY <1>2 DEF FetchStep
<1>4. NothingNew
  BY <1>1, <1>2, SameRequests DEF DeedInv, FlattenInv, InFlight
<1> QED BY <1>1, <1>2, <1>3, <1>4, SameBookSameQtys, MapsStay

LEMMA SquareOffNames ==
  ASSUME DeedInv, NameInv, NEW p \in DOMAIN book, NEW bad, SquareOff(p, bad)
  PROVE  NameInv'
<1>1. Grown
  BY SquareOffKeeps
<1>2. /\ call'.op # "sent" /\ book' = book /\ late' = late /\ fetch' = fetch
      /\ ids' = ids /\ tags' = tags /\ pending' = pending /\ anchored' = anchored
      /\ placed' = placed /\ known' = known /\ forgot' = forgot
  BY DEF SquareOff, maps, history, Idle
<1>3. NothingNew
  BY <1>1, <1>2, SameRequests DEF DeedInv, FlattenInv, InFlight
<1> QED BY <1>1, <1>2, <1>3, SameBookSameQtys, MapsStay DEF FetchStep

LEMMA UpdateNames ==
  ASSUME DeedInv, NameInv, Grown, NEW i \in DOMAIN book, NEW row, row.qty = book[i].qty,
         book' = book \/ book' = Put(book, i, row), late' = late, fetch' = fetch,
         call' = call \/ call'.op # "sent",
         ids' = ids, tags' = tags, pending' = pending, anchored' = anchored, placed' = placed,
         known' = known, forgot' = forgot
  PROVE  NameInv'
<1>1. BookInv /\ SoundBook(book) /\ SoundBook(book')
  BY DEF DeedInv, FlattenInv, BookInv, Grown
<1>2. SameQtys
  BY <1>1, SameBookSameQtys, UpdatedQtys
<1>3. Len(book') = Len(book)
  BY <1>1 DEF Put, SoundBook
<1>4. NothingNew
  BY <1>1, <1>3, SameRequests DEF InFlight
<1> QED BY <1>2, <1>4, MapsStay DEF FetchStep

LEMMA FillNames ==
  ASSUME DeedInv, NameInv, NEW i \in DOMAIN book, Fill(i)
  PROVE  NameInv'
<1>1. Grown /\ SoundBook(book) /\ SoundRow(book[i])
  BY FillKeeps DEF DeedInv, FlattenInv, BookInv, SoundBook
<1>2. PICK s : book' = [book EXCEPT ![i].filled = @ + 1, ![i].status = s]
  BY DEF Fill
<1>3. PICK row : row = FilledUp(book[i], book[i].filled + 1, s)
  OBVIOUS
<1>4. book' = Put(book, i, row)
  <2>1. i \in 1 .. Len(book) /\ book \in Seq(RowType)
    BY <1>1 DEF SoundBook
  <2>2. book' = [book EXCEPT ![i] = [book[i] EXCEPT !.filled = book[i].filled + 1, !.status = s]]
    BY <1>2, <2>1
  <2> QED BY <1>3, <2>2 DEF Put, FilledUp
<1>5. row.qty = book[i].qty
  BY <1>1, <1>3, FilledUpIsRowOf DEF RowOf
<1>6. /\ call' = call /\ late' = late /\ fetch' = fetch
      /\ ids' = ids /\ tags' = tags /\ pending' = pending /\ anchored' = anchored
      /\ placed' = placed /\ known' = known /\ forgot' = forgot
  BY DEF Fill, maps, history
<1> QED BY <1>1, <1>4, <1>5, <1>6, UpdateNames

LEMMA StatusOnly ==
  ASSUME SoundBook(book), NEW i \in DOMAIN book, NEW s, book' = [book EXCEPT ![i].status = s]
  PROVE  \E row : row.qty = book[i].qty /\ book' = Put(book, i, row)
<1>1. SoundRow(book[i])
  BY DEF SoundBook
<1>2. PICK row : row = [book[i] EXCEPT !.status = s]
  OBVIOUS
<1>3. book' = Put(book, i, row)
  BY <1>2 DEF Put, SoundBook
<1>4. row.qty = book[i].qty
  BY <1>1, <1>2, RowIsRowOf DEF RowOf
<1> QED BY <1>3, <1>4

LEMMA KillNames ==
  ASSUME DeedInv, NameInv, NEW i \in DOMAIN book, NEW s \in {"rejected", "cancelled"}, Kill(i, s)
  PROVE  NameInv'
<1>1. Grown /\ SoundBook(book)
  BY KillKeeps DEF DeedInv, FlattenInv, BookInv
<1>2. PICK row : row.qty = book[i].qty /\ book' = Put(book, i, row)
  BY <1>1, StatusOnly DEF Kill
<1>3. /\ call' = call /\ late' = late /\ fetch' = fetch
      /\ ids' = ids /\ tags' = tags /\ pending' = pending /\ anchored' = anchored
      /\ placed' = placed /\ known' = known /\ forgot' = forgot
  BY DEF Kill, maps, history
<1> QED BY <1>1, <1>2, <1>3, UpdateNames

LEMMA CancelNames ==
  ASSUME DeedInv, NameInv, NEW out \in {"ok", "notfound", "error"}, Cancel(out)
  PROVE  NameInv'
<1>1. Grown /\ SoundBook(book)
  BY CancelKeeps DEF DeedInv, FlattenInv, BookInv
<1>2. /\ call.op = "cancel" /\ late' = late /\ fetch' = fetch
      /\ ids' = ids /\ tags' = tags /\ pending' = pending /\ anchored' = anchored
      /\ placed' = placed /\ known' = known /\ forgot' = forgot
      /\ book' = book \/ book' = [book EXCEPT ![call.parent].status = "cancelled"]
      /\ call' = Idle \/ call' = [call EXCEPT !.op = "decide"]
  BY DEF Cancel, maps, history
<1>3. FlattenCall
  BY <1>2 DEF DeedInv, FlattenInv, CallInv
<1>4. call.parent \in DOMAIN book
  BY <1>1, <1>3 DEF FlattenCall, Later, SoundBook
<1>5. call'.op # "sent"
  <2>1. CASE call' = Idle
    BY <2>1 DEF Idle
  <2>2. CASE call' = [call EXCEPT !.op = "decide"]
    <3>1. call = [op |-> call.op, parent |-> call.parent, rows |-> call.rows,
                  bad |-> call.bad, need |-> call.need]
      BY <1>3 DEF FlattenCall
    <3>2. call'.op = "decide"
      BY <2>2, <3>1
    <3> QED BY <3>2
  <2> QED BY <1>2, <2>1, <2>2
<1>6. PICK row : row.qty = book[call.parent].qty /\ (book' = book \/ book' = Put(book, call.parent, row))
  <2>1. CASE book' = book
    BY <2>1
  <2>2. CASE book' = [book EXCEPT ![call.parent].status = "cancelled"]
    BY <1>1, <1>4, <2>2, StatusOnly
  <2> QED BY <1>2, <2>1, <2>2
<1> QED BY <1>1, <1>2, <1>4, <1>5, <1>6, UpdateNames

\* What a step that changes the maps has to show.
LEMMA NamesStep ==
  ASSUME DeedInv, Grown, NameInv, NameTypes', RightTags', forgot' = FALSE => forgot = FALSE,
         broker = "kite" \/ Clean => NewIds /\ NewKnown,
         broker = "kotak" => \A i \in DOMAIN ids' : ids'[i] \in anchored',
         broker = "kotak" /\ Clean /\ KotakClean /\ Clean' => KotakClean'
  PROVE  NameInv'
<1>1. RightNames'
  BY RightNamesStep DEF NameInv
<1>2. KotakInv'
  <2> SUFFICES ASSUME broker' = "kotak"
               PROVE  (\A i \in DOMAIN ids' : ids'[i] \in anchored') /\ (Clean' => KotakClean')
    BY DEF KotakInv
  <2>1. broker = "kotak"
    BY DEF Grown
  <2>2. ASSUME Clean' PROVE KotakClean'
    <3>1. Clean /\ KotakClean
      BY <2>1, <2>2, CleanBefore DEF NameInv, KotakInv
    <3> QED BY <2>1, <2>2, <3>1
  <2> QED BY <2>1, <2>2
<1> QED BY <1>1, <1>2 DEF NameInv

LEMMA RestartNames ==
  ASSUME DeedInv, NameInv, Restart
  PROVE  NameInv'
<1>1. Grown
  BY RestartKeeps
<1>2. /\ forgot' = TRUE /\ ids' = << >> /\ tags' = << >> /\ pending' = << >> /\ anchored' = {}
      /\ call' = Idle /\ book' = book /\ known' = known
  BY DEF Restart
<1>3. DOMAIN ids' = {} /\ DOMAIN tags' = {}
  BY <1>2
<1>4. NameTypes'
  <2>0. kMaxPendingIntents \in Nat \ {0}
    BY ONLY AdapterAssumption
  <2>1. << >> \in Seq(Intents) /\ Len(<< >>) = 0 /\ kMaxPendingIntents \in Nat
    BY <2>0
  <2>2. pending' \in Seq(Intents) /\ Len(pending') <= kMaxPendingIntents
    BY <1>2, <2>1
  <2> QED BY <1>2, <1>3, <2>2 DEF NameInv, NameTypes, Idle
<1>5. RightTags'
  BY <1>3 DEF RightTags
<1>6. NewIds /\ NewKnown
  BY <1>2, <1>3 DEF NewIds, NewKnown
<1>7. ~Clean'
  BY <1>2 DEF Clean
<1> QED BY <1>1, <1>2, <1>3, <1>4, <1>5, <1>6, <1>7, NamesStep

LEMMA ForeignNames ==
  ASSUME DeedInv, NameInv, NEW side \in {"B", "S"}, NEW q \in Qtys, Foreign(side, q)
  PROVE  NameInv'
<1>1. Grown /\ SoundBook(book)
  BY ForeignKeeps DEF DeedInv, FlattenInv, BookInv
<1>2. PICK row : row.kind = "foreign" /\ book' = Append(book, row)
  BY DEF Foreign, Row
<1>3. /\ call' = call /\ ids' = ids /\ tags' = tags /\ pending' = pending /\ anchored' = anchored
      /\ known' = known /\ forgot' = forgot
  BY DEF Foreign, maps, history
<1>4. NameTypes'
  <2>1. ASSUME NEW i \in DOMAIN book PROVE i \in DOMAIN book'
    BY <1>1, GrownRow
  <2> QED BY <1>3, <2>1 DEF NameInv, NameTypes, RightName
<1>5. RightTags'
  BY <1>1, <1>3 DEF NameInv, RightTags, RightTag, Grown
<1>6. NewIds /\ NewKnown
  BY <1>3 DEF NewIds, NewKnown
<1>7. ~Clean'
  <2>1. book \in Seq(RowType) /\ book' \in Seq(RowType) /\ Len(book) \in Nat
    BY <1>1 DEF Grown, SoundBook
  <2>2. Len(book') = Len(book) + 1 /\ book'[Len(book) + 1] = row
    BY <1>2, <2>1
  <2>3. Len(book) + 1 \in DOMAIN book'
    BY <2>1, <2>2
  <2> QED BY <1>2, <2>2, <2>3 DEF Clean
<1>8. broker = "kotak" => \A i \in DOMAIN ids' : ids'[i] \in anchored'
  BY <1>3 DEF NameInv, KotakInv
<1> QED BY <1>1, <1>3, <1>4, <1>5, <1>6, <1>7, <1>8, NamesStep

LEMMA TagBound ==
  ASSUME NameInv, broker \in {"kite", "kotak"}, broker' = broker, NEW r \in Names, NEW tag,
         tags' = register_tag(r, tag),
         broker = "kite" => \/ tag.prefix = "bx" /\ r.exit
                            \/ \E s \in Refs : tag = short_tag(s) /\ r = RefOf(s)
  PROVE  (\A t \in DOMAIN tags' : tags'[t] \in Names) /\ RightTags'
<1>1. CASE broker = "kotak"
  <2>1. tags' = tags
    BY <1>1 DEF register_tag
  <2> QED BY <1>1, <2>1 DEF NameInv, NameTypes, RightTags
<1>2. CASE broker = "kite"
  <2>1. tags' = Bind(tags, tag, r)
    BY <1>2 DEF register_tag
  <2>2. /\ DOMAIN tags' = DOMAIN tags \cup {tag} /\ tags'[tag] = r
        /\ \A t \in DOMAIN tags : t # tag => tags'[t] = tags[t]
    BY <2>1 DEF Bind
  <2>3. \A t \in DOMAIN tags' : tags'[t] \in Names
    BY <2>2 DEF NameInv, NameTypes
  <2>4. ASSUME NEW t \in DOMAIN tags'
        PROVE  \/ t.prefix = "bx" /\ tags'[t].exit
               \/ \E s \in Refs : t = short_tag(s) /\ tags'[t] = RefOf(s)
    <3>1. CASE t = tag
      BY <1>2, <2>2, <3>1
    <3>2. CASE t # tag
      <4>1. RightTag(t) /\ tags'[t] = tags[t]
        BY <1>2, <2>2, <3>2 DEF NameInv, RightTags
      <4> QED BY <4>1 DEF RightTag
    <3> QED BY <3>1, <3>2
  <2>5. RightTags'
    BY <2>4 DEF RightTags, RightTag
  <2> QED BY <2>3, <2>5
<1> QED BY <1>1, <1>2

LEMMA RegisterKeeps ==
  ASSUME DeedInv, NameInv, broker' = broker, NEW r \in Names, NEW tag, NEW key \in Keys,
         Register(r, tag, key),
         broker = "kite" => \/ tag.prefix = "bx" /\ r.exit
                            \/ \E s \in Refs : tag = short_tag(s) /\ r = RefOf(s)
  PROVE  /\ ids' = ids /\ anchored' = anchored /\ Listed(pending')
         /\ \A t \in DOMAIN tags' : tags'[t] \in Names
         /\ RightTags'
         /\ forgot' = FALSE => forgot = FALSE
         /\ forgot' \in BOOLEAN
         /\ \A x \in Range(pending') : x \in Range(pending) \/ x = IntentOf(r, key)
         /\ (broker = "kotak" /\ forgot' = FALSE) =>
               \A x \in Range(pending) : x.ref # r => x \in Range(pending')
         /\ (broker = "kotak" /\ r \notin anchored) => IntentOf(r, key) \in Range(pending')
<1>0. broker \in {"kite", "kotak"} /\ pending \in Seq(Intents) /\ Len(pending) <= kMaxPendingIntents
  BY DEF DeedInv, FlattenInv, NameInv, NameTypes
<1>1. /\ tags' = register_tag(r, tag) /\ ids' = ids /\ anchored' = anchored
      /\ pending' = IF broker = "kotak" THEN register_intent(r, key) ELSE pending
      /\ forgot' = (forgot \/ Evicts(r))
  BY DEF Register
<1>2. (\A t \in DOMAIN tags' : tags'[t] \in Names) /\ RightTags'
  BY <1>0, <1>1, TagBound
<1>5. forgot' \in BOOLEAN
  BY <1>1 DEF NameInv, NameTypes, Evicts
<1>3. CASE broker = "kite"
  <2>1. pending' = pending
    BY <1>1, <1>3
  <2>2. forgot' = FALSE => forgot = FALSE
    BY <1>1 DEF NameInv, NameTypes
  <2> QED BY <1>0, <1>1, <1>2, <1>3, <1>5, <2>1, <2>2 DEF Listed
<1>4. CASE broker = "kotak"
  <2>1. pending' = register_intent(r, key)
    BY <1>1, <1>4
  <2>2. PICK t : t = register_intent(r, key)
    OBVIOUS
  <2>3. /\ t \in Seq(Intents) /\ Len(t) <= kMaxPendingIntents
        /\ \A x \in Range(t) : x \in Range(pending) \/ x = IntentOf(r, key)
        /\ (broker = "kotak" /\ ~Evicts(r)) => \A x \in Range(pending) : x.ref # r => x \in Range(t)
        /\ r \notin anchored => IntentOf(r, key) \in Range(t)
    BY <1>0, <2>2, Registered
  <2>4. forgot' = FALSE => forgot = FALSE /\ ~Evicts(r)
    BY <1>1 DEF NameInv, NameTypes
  <2>5. pending' = t
    BY <2>1, <2>2
  <2> QED BY <1>1, <1>2, <1>4, <1>5, <2>3, <2>4, <2>5 DEF Listed
<1> QED BY <1>0, <1>3, <1>4

-----------------------------------------------------------------------------
(* The mutations that change the maps.                                     *)
ShapeOK(x) == x.key[1] = "S" => x.ref.exit

LEMMA ShapesStay ==
  ASSUME KotakClean, pending \in Seq(Intents), pending' \in Seq(Intents),
         \A x \in Range(pending') : x \in Range(pending) \/ ShapeOK(x)
  PROVE  \A n \in DOMAIN pending' : pending'[n].key[1] = "S" => pending'[n].ref.exit
<1>1. \A x \in Range(pending) : ShapeOK(x)
  BY DEF KotakClean, Range, ShapeOK
<1>2. ASSUME NEW n \in DOMAIN pending' PROVE ShapeOK(pending'[n])
  BY <1>1 DEF Range
<1> QED BY <1>2 DEF ShapeOK

LEMMA SentIsPlaced ==
  ASSUME DeedInv, call.op = "sent", call.row.kind = "entry"
  PROVE  /\ call.row.ref \in Refs /\ call.row.ref \in placed
         /\ call.id # 0 => call.id \in InBook(EntryFor(call.row.ref))
<1> USE DEF DeedInv, FlattenInv
<1>1. SentCall /\ NewRow(call.row)
  BY DEF CallInv, SentCall
<1>2. call.row.ref \in Refs /\ call.row.parent = 0
  BY <1>1 DEF NewRow, SoundRow
<1>3. Purpose(call.row) = EntryFor(call.row.ref)
  BY <1>2 DEF Purpose, EntryFor
<1>4. ASSUME call.id # 0 PROVE call.id \in InBook(EntryFor(call.row.ref))
  <2>1. call.id \in 1 .. Len(book) /\ RowLater(call.row, book[call.id])
    BY <1>1, <1>4 DEF SentCall, BookInv, SoundBook
  <2>2. Purpose(book[call.id]) = Purpose(call.row)
    BY <2>1 DEF RowLater, Purpose
  <2> QED BY <1>3, <2>1, <2>2 DEF InBook
<1>5. ~Nowhere(EntryFor(call.row.ref))
  <2>1. CASE call.id = 0
    BY <1>3, <2>1 DEF Nowhere, InFlight
  <2>2. CASE call.id # 0
    BY <1>4, <2>2 DEF Nowhere
  <2> QED BY <2>1, <2>2
<1> QED BY <1>2, <1>4, <1>5 DEF AloneInv

LEMMA RefIsName ==
  ASSUME NEW r \in Refs
  PROVE  RefOf(r) \in Names /\ RefOf(r).exit = FALSE /\ RefOf(r).ref = r
BY DEF RefOf, Names

LEMMA IntentRef ==
  ASSUME NEW r
  PROVE  EntryIntent(r).ref = RefOf(r) /\ EntryIntent(r) = IntentOf(RefOf(r), <<"B", EntryQty>>)
BY DEF EntryIntent, IntentOf

LEMMA PlaceNames ==
  ASSUME DeedInv, NameInv, NEW r \in Refs, Place(r)
  PROVE  NameInv'
<1> DEFINE row == Row("entry", r, 0, "B", EntryQty)
           key == <<"B", EntryQty>>
<1>1. /\ call = Idle /\ r \notin placed /\ placed' = placed \cup {r}
      /\ Register(RefOf(r), short_tag(r), key)
      /\ call' = [op |-> "sent", ref |-> RefOf(r), id |-> 0, need |-> 0, row |-> row]
      /\ broker' = broker /\ book' = book /\ late' = late /\ fetch' = fetch /\ known' = known
  BY DEF Place, attribute_key
<1>2. SoundRow(row) /\ row.kind = "entry" /\ Purpose(row) = EntryFor(r)
  BY EntryRow
<1>3. row.ref = r
  BY DEF Row
<1>4. key \in Keys
  BY EntryQtyIsSome DEF Keys
<1>5. EntryIntent(r) = IntentOf(RefOf(r), key) /\ ShapeOK(IntentOf(RefOf(r), key))
  BY DEF EntryIntent, IntentOf, ShapeOK
<1> HIDE DEF row, key
<1>6. Grown /\ SoundBook(book)
  BY <1>1, StillGrown DEF DeedInv, FlattenInv, BookInv
<1>7. RefOf(r) \in Names /\ RefOf(r).exit = FALSE /\ RefOf(r).ref = r
  BY RefIsName
<1>8. /\ ids' = ids /\ anchored' = anchored /\ Listed(pending')
      /\ \A t \in DOMAIN tags' : tags'[t] \in Names
      /\ RightTags'
      /\ forgot' = FALSE => forgot = FALSE
      /\ forgot' \in BOOLEAN
      /\ \A x \in Range(pending') : x \in Range(pending) \/ x = IntentOf(RefOf(r), key)
      /\ (broker = "kotak" /\ forgot' = FALSE) =>
            \A x \in Range(pending) : x.ref # RefOf(r) => x \in Range(pending')
      /\ (broker = "kotak" /\ RefOf(r) \notin anchored) => IntentOf(RefOf(r), key) \in Range(pending')
  BY <1>1, <1>4, <1>7, RegisterKeeps
<1>9. NameTypes'
  <2>1. call'.ref \in Names /\ RightName(call'.ref, call'.row)
    BY <1>1, <1>2, <1>3, <1>7 DEF RightName
  <2>2. pending' \in Seq(Intents) /\ Len(pending') <= kMaxPendingIntents
    BY <1>8 DEF Listed
  <2> QED BY <1>1, <1>8, <2>1, <2>2 DEF NameInv, NameTypes, RightName
<1>10. NewIds /\ NewKnown
  BY <1>1, <1>8 DEF NewIds, NewKnown
<1>11. broker = "kotak" => \A i \in DOMAIN ids' : ids'[i] \in anchored'
  BY <1>8 DEF NameInv, KotakInv
<1>12. ASSUME broker = "kotak", Clean, KotakClean, Clean' PROVE KotakClean'
  <2>1. RefOf(r) \notin anchored
    <3> SUFFICES ASSUME RefOf(r) \in anchored PROVE FALSE
      OBVIOUS
    <3>1. PICK s \in placed : RefOf(r) = RefOf(s)
      BY <1>7, <1>12 DEF KotakClean
    <3>2. r = s
      BY <3>1 DEF RefOf
    <3> QED BY <1>1, <3>2
  <2>2. forgot' = FALSE
    BY <1>12 DEF Clean
  <2>3. ASSUME NEW s \in Refs PROVE Held(s)'
    <3>1. CASE s = r
      <4>1. EntryIntent(r) \in Range(pending')
        BY <1>5, <1>8, <1>12, <2>1
      <4>2. EntryIntent(r)' = EntryIntent(r)
        BY DEF EntryIntent
      <4> QED BY <3>1, <4>1, <4>2 DEF Held
    <3>2. CASE s # r
      <4>1. ASSUME Nowhere(EntryFor(s)) PROVE Nowhere(EntryFor(s))'
        <5>1. EntryFor(s) # EntryFor(r)
          BY <3>2 DEF EntryFor
        <5>2. ~InFlight(EntryFor(s))'
          BY <1>1, <1>2, <5>1 DEF InFlight
        <5>3. InBook(EntryFor(s))' = InBook(EntryFor(s)) /\ InLate(EntryFor(s))' = InLate(EntryFor(s))
          BY <1>1 DEF InBook, InLate
        <5> QED BY <4>1, <5>2, <5>3 DEF Nowhere
      <4>2. EntryIntent(s).ref # RefOf(r)
        BY <3>2 DEF EntryIntent, RefOf
      <4>3. EntryIntent(s) \in Range(pending) => EntryIntent(s) \in Range(pending')
        BY <1>8, <1>12, <2>2, <4>2
      <4>4. Held(s) /\ DOMAIN ids \subseteq DOMAIN ids'
        BY <1>8, <1>12 DEF KotakClean
      <4> QED BY <1>6, <4>1, <4>3, <4>4, HeldStays
    <3> QED BY <3>1, <3>2
  <2>4. \A n \in DOMAIN pending' : pending'[n].key[1] = "S" => pending'[n].ref.exit
    BY <1>5, <1>8, <1>12, ShapesStay DEF NameInv, NameTypes, Listed
  <2>5. Unmodified(book)' /\ (fetch'.op = "read" => Unmodified(fetch.rows)')
    BY <1>1, <1>8, <1>12 DEF KotakClean, Unmodified
  <2>6. \A a \in anchored' : a.exit \/ \E s \in placed' : a = RefOf(s)
    BY <1>1, <1>8, <1>12 DEF KotakClean
  <2>7. DOMAIN known' \subseteq DOMAIN ids'
    BY <1>1, <1>8, <1>12 DEF KotakClean
  <2> QED BY <2>3, <2>4, <2>5, <2>6, <2>7 DEF KotakClean, RefOf
<1> QED BY <1>6, <1>8, <1>9, <1>10, <1>11, <1>12, NamesStep

LEMMA AckNames ==
  ASSUME DeedInv, NameInv, PlaceAck
  PROVE  NameInv'
<1> USE DEF DeedInv, FlattenInv
<1>1. /\ call.op = "sent" /\ call.id # 0 /\ call' = Idle
      /\ ids' = Bind(ids, call.id, call.ref)
      /\ anchored' = IF broker = "kotak" THEN anchored \cup {call.ref} ELSE anchored
      /\ pending' = drop_pending(pending, {call.ref}) /\ tags' = tags
      /\ known' = IF call.row.kind = "entry" THEN Bind(known, call.id, call.ref) ELSE known
      /\ book' = book /\ late' = late /\ placed' = placed /\ fetch' = fetch /\ forgot' = forgot
  BY DEF PlaceAck, anchor, history
<1>2. Grown /\ SoundBook(book) /\ broker' = broker
  BY AckKeeps DEF BookInv, Grown
<1>3. SentCall /\ NewRow(call.row) /\ call.ref \in Names /\ RightName(call.ref, call.row)
  BY <1>1 DEF CallInv, SentCall, NameInv, NameTypes
<1>4. call.id \in DOMAIN book /\ RowLater(call.row, book[call.id])
  BY <1>1, <1>2, <1>3 DEF SentCall, SoundBook
<1>5. RightName(call.ref, book[call.id])
  BY <1>3, <1>4, RightNameStays
<1>6. /\ DOMAIN ids' = DOMAIN ids \cup {call.id} /\ ids'[call.id] = call.ref
      /\ \A i \in DOMAIN ids : i # call.id => ids'[i] = ids[i]
  BY <1>1 DEF Bind
<1>7. \/ known' = known /\ call.row.kind # "entry"
      \/ /\ call.row.kind = "entry"
         /\ DOMAIN known' = DOMAIN known \cup {call.id} /\ known'[call.id] = call.ref
         /\ \A i \in DOMAIN known : i # call.id => known'[i] = known[i]
  BY <1>1 DEF Bind
<1>8. /\ pending \in Seq(Intents) /\ pending' \in Seq(Intents) /\ Len(pending') <= kMaxPendingIntents
      /\ Range(pending') \subseteq Range(pending)
      /\ \A x \in Range(pending) : x.ref # call.ref => x \in Range(pending')
  <2>1. PICK t : t = drop_pending(pending, {call.ref})
    OBVIOUS
  <2>2. Listed(pending)
    BY DEF NameInv, NameTypes, Listed
  <2>3. Listed(t)
    BY <2>1, <2>2, DroppedListed
  <2>4. Range(t) \subseteq Range(pending) /\ \A x \in Range(pending) : x.ref \notin {call.ref} => x \in Range(t)
    BY <2>1, <2>2, Dropped DEF Listed
  <2> QED BY <1>1, <2>1, <2>2, <2>3, <2>4 DEF Listed
<1>9. NameTypes'
  <2>1. \A i \in DOMAIN ids' : i \in DOMAIN book /\ ids'[i] \in Names
    BY <1>3, <1>4, <1>6 DEF NameInv, NameTypes
  <2>2. \A i \in DOMAIN known' : i \in DOMAIN book /\ known'[i] \in Names
    BY <1>3, <1>4, <1>7 DEF NameInv, NameTypes
  <2> QED BY <1>1, <1>8, <2>1, <2>2 DEF NameInv, NameTypes, Idle
<1>10. RightTags'
  BY <1>1, <1>2 DEF NameInv, RightTags, RightTag
<1>11. NewIds
  BY <1>4, <1>5, <1>6 DEF NewIds
<1>12. NewKnown
  <2>1. call.row.kind = "entry" => book[call.id].kind = "entry" /\ call.ref = RefOf(book[call.id].ref)
    BY <1>4, <1>5 DEF RightName, RowLater
  <2> QED BY <1>4, <1>7, <2>1 DEF NewKnown
<1>13. broker = "kotak" => \A i \in DOMAIN ids' : ids'[i] \in anchored'
  BY <1>1, <1>6 DEF NameInv, KotakInv
<1>14. ASSUME broker = "kotak", Clean, KotakClean, Clean' PROVE KotakClean'
  <2>1. ASSUME NEW r \in Refs PROVE Held(r)'
    <3>1. Nowhere(EntryFor(r)) => Nowhere(EntryFor(r))'
      BY <1>1, KeepsGivingUp DEF Keeps
    <3>2. ASSUME call.ref = RefOf(r) PROVE Held(r)'
      <4>1. call.row.kind = "entry" /\ call.row.ref = r
        BY <1>3, <3>2 DEF RightName, RefOf
      <4>2. call.id \in InBook(EntryFor(r))'
        BY <1>1, <1>2, <4>1, SentIsPlaced, MoreOf
      <4> QED BY <1>6, <4>2 DEF Held
    <3>3. EntryIntent(r) \in Range(pending) => EntryIntent(r) \in Range(pending') \/ Held(r)'
      BY <1>8, <3>2, IntentRef
    <3>4. Held(r) /\ DOMAIN ids \subseteq DOMAIN ids'
      BY <1>6, <1>14 DEF KotakClean
    <3> QED BY <1>2, <3>1, <3>3, <3>4, HeldStays
  <2>2. \A n \in DOMAIN pending' : pending'[n].key[1] = "S" => pending'[n].ref.exit
    BY <1>8, <1>14, ShapesStay
  <2>3. Unmodified(book)' /\ (fetch'.op = "read" => Unmodified(fetch.rows)')
    BY <1>1, <1>6, <1>14 DEF KotakClean, Unmodified
  <2>4. \A a \in anchored' : a.exit \/ \E s \in placed' : a = RefOf(s)
    <3>1. call.ref.exit \/ \E s \in placed : call.ref = RefOf(s)
      BY <1>1, <1>3, SentIsPlaced DEF RightName
    <3> QED BY <1>1, <1>14, <3>1 DEF KotakClean
  <2>5. DOMAIN known' \subseteq DOMAIN ids'
    BY <1>6, <1>7, <1>14 DEF KotakClean
  <2> QED BY <2>1, <2>2, <2>3, <2>4, <2>5 DEF KotakClean, RefOf
<1> QED BY <1>1, <1>2, <1>9, <1>10, <1>11, <1>12, <1>13, <1>14, NamesStep

LEMMA ErrorNames ==
  ASSUME DeedInv, NameInv, NEW e, PlaceError(e)
  PROVE  NameInv'
<1>1. /\ call.op = "sent" /\ call' = Idle
      /\ pending' = IF is_ambiguous_outcome(e) THEN pending ELSE drop_pending(pending, {call.ref})
      /\ late' = late \/ (call.id = 0 /\ late' = late \cup {call.row})
      /\ forgot' = \/ forgot
                   \/ /\ broker = "kotak" /\ ~is_ambiguous_outcome(e)
                      /\ call.id # 0 \/ call.row \in late'
      /\ ids' = ids /\ tags' = tags /\ anchored' = anchored /\ book' = book /\ known' = known
      /\ placed' = placed /\ fetch' = fetch
  BY DEF PlaceError
<1>2. DeedInv' /\ Grown
  BY ErrorKeeps
<1>3. SoundBook(book) /\ broker' = broker /\ broker \in {"kite", "kotak"}
  BY <1>2 DEF DeedInv, FlattenInv, BookInv, Grown
<1>4. NothingNew
  BY <1>1, KeepsGivingUp DEF NothingNew, Keeps
<1>5. CASE is_ambiguous_outcome(e)
  <2>1. pending' = pending /\ forgot' = forgot
    BY <1>1, <1>5 DEF NameInv, NameTypes
  <2> QED BY <1>1, <1>2, <1>4, <2>1, SameBookSameQtys, MapsStay DEF FetchStep, Idle
<1>6. CASE ~is_ambiguous_outcome(e)
  <2>1. call.ref \in Names /\ RightName(call.ref, call.row)
    BY <1>1 DEF NameInv, NameTypes
  <2>2. /\ pending \in Seq(Intents) /\ pending' \in Seq(Intents) /\ Len(pending') <= kMaxPendingIntents
        /\ Range(pending') \subseteq Range(pending)
        /\ \A x \in Range(pending) : x.ref # call.ref => x \in Range(pending')
    <3>1. PICK t : t = drop_pending(pending, {call.ref})
      OBVIOUS
    <3>2. Listed(pending)
      BY DEF NameInv, NameTypes, Listed
    <3>3. Listed(t)
      BY <1>3, <3>1, <3>2, DroppedListed
    <3>4. Range(t) \subseteq Range(pending) /\ \A x \in Range(pending) : x.ref \notin {call.ref} => x \in Range(t)
      BY <1>3, <3>1, <3>2, Dropped DEF Listed
    <3> QED BY <1>1, <1>6, <3>1, <3>2, <3>3, <3>4 DEF Listed
  <2>0. (forgot' = FALSE => forgot = FALSE) /\ forgot' \in BOOLEAN
    BY <1>1 DEF NameInv, NameTypes
  <2>3. NameTypes'
    BY <1>1, <2>0, <2>2 DEF NameInv, NameTypes, Idle
  <2>4. RightTags'
    BY <1>1, <1>3 DEF NameInv, RightTags, RightTag
  <2>5. NewIds /\ NewKnown
    BY <1>1 DEF NewIds, NewKnown
  <2>6. broker = "kotak" => \A i \in DOMAIN ids' : ids'[i] \in anchored'
    BY <1>1 DEF NameInv, KotakInv
  <2>7. ASSUME broker = "kotak", Clean, KotakClean, Clean' PROVE KotakClean'
    <3>1. ASSUME NEW r \in Refs PROVE Held(r)'
      <4>1. ASSUME call.ref = RefOf(r) PROVE Held(r)'
        <5>1. call.row.kind = "entry" /\ call.row.ref = r
          BY <2>1, <4>1 DEF RightName, RefOf
        <5>2. call.id = 0 /\ call.row \notin late'
          BY <1>1, <1>6, <2>7 DEF Clean
        <5>3. late' = late
          BY <1>1, <5>2
        <5>4. InFlight(EntryFor(r))
          <6>1. call.row.parent = 0
            BY <1>1, <5>1 DEF DeedInv, FlattenInv, CallInv, SentCall, NewRow, SoundRow
          <6> QED BY <1>1, <5>1, <5>2, <6>1 DEF InFlight, Purpose, EntryFor
        <5>5. InBook(EntryFor(r)) = {} /\ InLate(EntryFor(r)) = {}
          BY <3>1, <5>4 DEF DeedInv, FlattenInv, AloneInv, Alone
        <5>6. Nowhere(EntryFor(r))'
          BY <1>1, <5>3, <5>5 DEF Nowhere, InBook, InLate, InFlight, Idle
        <5> QED BY <5>6 DEF Held
      <4>2. EntryIntent(r) \in Range(pending) => EntryIntent(r) \in Range(pending') \/ Held(r)'
        BY <2>2, <4>1, IntentRef
      <4>3. Held(r) /\ DOMAIN ids \subseteq DOMAIN ids' /\ (Nowhere(EntryFor(r)) => Nowhere(EntryFor(r))')
        BY <1>1, <1>4, <2>7 DEF KotakClean, NothingNew
      <4> QED BY <1>2, <1>3, <4>2, <4>3, HeldStays
    <3>2. \A n \in DOMAIN pending' : pending'[n].key[1] = "S" => pending'[n].ref.exit
      BY <2>2, <2>7, ShapesStay
    <3>3. Unmodified(book)' /\ (fetch'.op = "read" => Unmodified(fetch.rows)')
      BY <1>1, <2>7 DEF KotakClean, Unmodified
    <3> QED BY <1>1, <2>7, <3>1, <3>2, <3>3 DEF KotakClean, RefOf
  <2> QED BY <1>1, <1>2, <2>0, <2>3, <2>4, <2>5, <2>6, <2>7, NamesStep
<1> QED BY <1>5, <1>6

LEMMA LookedUp ==
  ASSUME NEW m, \A x \in DOMAIN m : m[x] \in Names, NEW y
  PROVE  Lookup(m, y) \in Names
<1>1. NoRef \in Names
  BY DEF NoRef, Names
<1> QED BY <1>1 DEF Lookup

LEMMA ExitIsName ==
  ASSUME NEW r \in Names, NEW p \in Nat
  PROVE  exit_client_ref(r, p) \in Names /\ exit_client_ref(r, p).exit
<1>1. PICK a \in Refs \cup {""}, n \in Nat : exit_client_ref(r, p) = [ref |-> a, id |-> n, exit |-> TRUE]
  <2>1. CASE r = NoRef
    BY <2>1 DEF exit_client_ref
  <2>2. CASE r # NoRef
    <3>1. r.ref \in Refs \cup {""} /\ r.id \in Nat
      BY DEF Names
    <3> DEFINE m == [r EXCEPT !.exit = TRUE]
    <3>2. DOMAIN r = {"ref", "id", "exit"}
      BY DEF Names
    <3>4. /\ DOMAIN m = {"ref", "id", "exit"} /\ m = [x \in DOMAIN m |-> m[x]]
          /\ m["ref"] = r.ref /\ m["id"] = r.id /\ m["exit"] = TRUE
      BY ONLY <3>2
    <3>3. m = [ref |-> r.ref, id |-> r.id, exit |-> TRUE]
      <4> HIDE DEF m
      <4> QED BY ONLY <3>4
    <3> QED BY <2>2, <3>1, <3>3 DEF exit_client_ref
  <2> QED BY <2>1, <2>2
<1>2. [ref |-> a, id |-> n, exit |-> TRUE] \in Names
  BY DEF Names
<1>3. [ref |-> a, id |-> n, exit |-> TRUE].exit = TRUE
  OBVIOUS
<1> QED BY <1>1, <1>2, <1>3

LEMMA DecideNames ==
  ASSUME DeedInv, NameInv, Decide
  PROVE  NameInv'
<1> DEFINE p == call.parent
           parent_ref == IF broker = "kite" THEN recover_client_ref(p, TagOf(call.rows[p]))
                         ELSE ref_for_id(p)
           side == exit_side_for(call.rows[p].side)
           exit_ref == exit_client_ref(parent_ref, p)
           outcome == IF call.need = 0 THEN "ok"
                      ELSE IF broker = "kite" THEN KiteExit(call) ELSE KotakExit(call, exit_ref)
<1>1. IF outcome = "none"
      THEN /\ Register(exit_ref, exit_tag_for(p), attribute_key(side, call.need))
           /\ call' = [op |-> "sent", ref |-> exit_ref, id |-> 0, need |-> call.need,
                       row |-> Row("exit", "", p, side, call.need)]
      ELSE call' = Idle /\ UNCHANGED <<maps, forgot>>
  BY DEF Decide
<1>2. /\ call.op = "decide" /\ broker' = broker /\ book' = book /\ late' = late
      /\ placed' = placed /\ fetch' = fetch /\ known' = known
  BY DEF Decide
<1>3. FlattenCall /\ Grown /\ SoundBook(book)
  BY <1>2, DecideKeeps DEF DeedInv, FlattenInv, BookInv, CallInv
<1>4. p \in Nat /\ side \in {"B", "S"} /\ call.need \in Nat
  BY <1>3 DEF FlattenCall, SoundBook, exit_side_for
<1>5. parent_ref \in Names
  <2>1. ref_for_id(p) \in Names /\ Lookup(tags, TagOf(call.rows[p])) \in Names
    BY LookedUp DEF ref_for_id, NameInv, NameTypes
  <2> QED BY <2>1 DEF recover_client_ref
<1>6. exit_ref \in Names /\ exit_ref.exit
  <2> HIDE DEF p, parent_ref
  <2> QED BY <1>4, <1>5, ExitIsName
<1>9. outcome = "none" => call.need # 0
  OBVIOUS
<1> HIDE DEF p, parent_ref, side, exit_ref, outcome
<1>7. CASE outcome # "none"
  <2>1. /\ call' = Idle /\ ids' = ids /\ tags' = tags /\ pending' = pending
        /\ anchored' = anchored /\ forgot' = forgot
    BY <1>1, <1>7 DEF maps
  <2>2. NothingNew
    BY <1>2, <2>1, KeepsGivingUp DEF NothingNew, Keeps
  <2> QED BY <1>2, <1>3, <2>1, <2>2, SameBookSameQtys, MapsStay DEF FetchStep, Idle
<1>8. CASE outcome = "none"
  <2> DEFINE row == Row("exit", "", p, side, call.need)
             key == <<side, call.need>>
  <2>1. /\ Register(exit_ref, exit_tag_for(p), key)
        /\ call' = [op |-> "sent", ref |-> exit_ref, id |-> 0, need |-> call.need, row |-> row]
    BY <1>1, <1>8 DEF attribute_key
  <2>2. call.need # 0
    BY <1>8, <1>9
  <2>3. key \in Keys
    BY <1>4, <2>2 DEF Keys
  <2>4. row.kind = "exit" /\ \A r \in Refs : Purpose(row) # EntryFor(r)
    BY DEF Row, Purpose, EntryFor
  <2>5. exit_tag_for(p).prefix = "bx"
    BY DEF exit_tag_for
  <2>6. ShapeOK(IntentOf(exit_ref, key))
    BY <1>6 DEF ShapeOK, IntentOf
  <2> HIDE DEF row, key
  <2>7. /\ ids' = ids /\ anchored' = anchored /\ Listed(pending')
        /\ \A t \in DOMAIN tags' : tags'[t] \in Names
        /\ RightTags'
        /\ forgot' = FALSE => forgot = FALSE
        /\ forgot' \in BOOLEAN
        /\ \A x \in Range(pending') : x \in Range(pending) \/ x = IntentOf(exit_ref, key)
        /\ (broker = "kotak" /\ forgot' = FALSE) =>
              \A x \in Range(pending) : x.ref # exit_ref => x \in Range(pending')
    BY <1>2, <1>6, <2>1, <2>3, <2>5, RegisterKeeps
  <2>8. NameTypes'
    <3>1. call'.ref \in Names /\ RightName(call'.ref, call'.row)
      BY <1>6, <2>1, <2>4 DEF RightName
    <3>2. pending' \in Seq(Intents) /\ Len(pending') <= kMaxPendingIntents
      BY <2>7 DEF Listed
    <3> QED BY <1>2, <2>7, <3>1, <3>2 DEF NameInv, NameTypes, RightName
  <2>9. NewIds /\ NewKnown
    BY <1>2, <2>7 DEF NewIds, NewKnown
  <2>10. broker = "kotak" => \A i \in DOMAIN ids' : ids'[i] \in anchored'
    BY <2>7 DEF NameInv, KotakInv
  <2>11. ASSUME broker = "kotak", Clean, KotakClean, Clean' PROVE KotakClean'
    <3>1. forgot' = FALSE
      BY <2>11 DEF Clean
    <3>2. ASSUME NEW r \in Refs PROVE Held(r)'
      <4>1. ASSUME Nowhere(EntryFor(r)) PROVE Nowhere(EntryFor(r))'
        <5>1. ~InFlight(EntryFor(r))'
          BY <2>1, <2>4 DEF InFlight
        <5>2. InBook(EntryFor(r))' = InBook(EntryFor(r)) /\ InLate(EntryFor(r))' = InLate(EntryFor(r))
          BY <1>2 DEF InBook, InLate
        <5> QED BY <4>1, <5>1, <5>2 DEF Nowhere
      <4>2. EntryIntent(r).ref # exit_ref
        BY <1>6 DEF EntryIntent, RefOf
      <4>3. EntryIntent(r) \in Range(pending) => EntryIntent(r) \in Range(pending')
        BY <2>7, <2>11, <3>1, <4>2
      <4>4. Held(r) /\ DOMAIN ids \subseteq DOMAIN ids'
        BY <2>7, <2>11 DEF KotakClean
      <4> QED BY <1>3, <4>1, <4>3, <4>4, HeldStays
    <3>3. \A n \in DOMAIN pending' : pending'[n].key[1] = "S" => pending'[n].ref.exit
      BY <2>6, <2>7, <2>11, ShapesStay DEF NameInv, NameTypes, Listed
    <3>4. Unmodified(book)' /\ (fetch'.op = "read" => Unmodified(fetch.rows)')
      BY <1>2, <2>7, <2>11 DEF KotakClean, Unmodified
    <3> QED BY <1>2, <2>7, <2>11, <3>2, <3>3, <3>4 DEF KotakClean, RefOf
  <2> QED BY <1>3, <2>7, <2>8, <2>9, <2>10, <2>11, NamesStep
<1> QED BY <1>7, <1>8

LEMMA ModifyNames ==
  ASSUME DeedInv, NameInv, NEW i \in DOMAIN known, NEW q \in Qtys,
         NEW out \in {"ok", "ambiguous", "refused"}, Modify(i, q, out)
  PROVE  NameInv'
<1>0. DOMAIN known \subseteq DOMAIN book
  BY DEF NameInv, NameTypes
<1>1. PICK r, registered :
        /\ r = known[i]
        /\ registered = IF broker = "kotak" THEN register_intent(r, <<"B", q>>) ELSE pending
        /\ tags' = register_tag(r, short_tag(r.ref))
        /\ forgot' = (forgot \/ Evicts(r))
        /\ ids' = IF out = "ok" THEN Bind(ids, i, r) ELSE ids
        /\ anchored' = IF out = "ok" /\ broker = "kotak" THEN anchored \cup {r} ELSE anchored
        /\ pending' = IF out = "ambiguous" THEN registered ELSE drop_pending(registered, {r})
        /\ book' = [book EXCEPT ![i].qty = q] \/ book' = book
  BY DEF Modify, attribute_key
<1>2. /\ call = Idle /\ book[i].kind = "entry" /\ call' = call /\ late' = late /\ placed' = placed
      /\ known' = known /\ fetch' = fetch
  BY DEF Modify
<1>3. DeedInv' /\ Grown
  BY <1>0, ModifyKeeps
<1>4. SoundBook(book) /\ SoundBook(book') /\ broker' = broker /\ broker \in {"kite", "kotak"}
  BY <1>3 DEF DeedInv, FlattenInv, BookInv, Grown
<1>5. i \in DOMAIN book /\ SoundRow(book[i]) /\ book[i].ref \in Refs
  <2>1. i \in DOMAIN book
    BY <1>0
  <2>2. SoundRow(book[i])
    BY <1>4, <2>1 DEF SoundBook
  <2>3. book[i].ref \in Refs
    BY <1>2, <2>2 DEF SoundRow
  <2> QED BY <2>1, <2>2, <2>3
<1>6. r \in Names
  BY <1>1 DEF NameInv, NameTypes
<1>7. <<"B", q>> \in Keys
  <2>1. q \in Nat \ {0}
    BY ONLY AdapterAssumption, q \in Qtys
  <2> QED BY <2>1 DEF Keys
<1>8. broker = "kite" \/ Clean => r = RefOf(book[i].ref)
  BY <1>1 DEF NameInv, RightNames, RightKnown
<1>9. Listed(pending)
  BY DEF NameInv, NameTypes, Listed
<1>10. Listed(registered)
  <2>1. CASE broker = "kite"
    BY <1>1, <1>9, <2>1
  <2>2. CASE broker = "kotak"
    BY <1>1, <1>6, <1>7, <1>9, <2>2, Registered DEF Listed
  <2> QED BY <1>4, <2>1, <2>2
<1>11. Listed(pending')
  <2>1. PICK t : t = drop_pending(registered, {r})
    OBVIOUS
  <2>2. Listed(t)
    BY <1>4, <1>10, <2>1, DroppedListed
  <2> QED BY <1>1, <1>10, <2>1, <2>2
<1>12. (\A t \in DOMAIN tags' : tags'[t] \in Names) /\ RightTags'
  <2>1. broker = "kite" => short_tag(r.ref) = short_tag(book[i].ref) /\ r = RefOf(book[i].ref)
    BY <1>8 DEF RefOf
  <2> QED BY <1>1, <1>4, <1>5, <1>6, <2>1, TagBound
<1>13. (forgot' = FALSE => forgot = FALSE) /\ forgot' \in BOOLEAN
  BY <1>1 DEF NameInv, NameTypes, Evicts
<1>14. /\ DOMAIN ids \subseteq DOMAIN ids'
       /\ \A j \in DOMAIN ids' : \/ j \in DOMAIN ids /\ ids'[j] = ids[j]
                                 \/ j = i /\ ids'[j] = r /\ out = "ok"
  <2>1. CASE out = "ok"
    <3>1. ids' = Bind(ids, i, r)
      BY <1>1, <2>1
    <3>2. DOMAIN ids' = DOMAIN ids \cup {i} /\ \A j \in DOMAIN ids' : ids'[j] = IF j = i THEN r ELSE ids[j]
      BY ONLY <3>1 DEF Bind
    <3> QED BY ONLY <2>1, <3>2
  <2>2. CASE out # "ok"
    <3>1. ids' = ids
      BY <1>1, <2>2
    <3> QED BY ONLY <3>1
  <2> QED BY <2>1, <2>2
<1>15. NameTypes'
  <2>1. ASSUME NEW j \in DOMAIN book PROVE j \in DOMAIN book'
    BY <1>3, <1>4, GrownRow
  <2>2. \A j \in DOMAIN ids' : j \in DOMAIN book' /\ ids'[j] \in Names
    BY <1>5, <1>6, <1>14, <2>1 DEF NameInv, NameTypes
  <2>3. \A j \in DOMAIN known' : j \in DOMAIN book' /\ known'[j] \in Names
    BY <1>2, <2>1 DEF NameInv, NameTypes
  <2> QED BY <1>2, <1>11, <1>12, <1>13, <2>2, <2>3 DEF NameTypes, Listed, Idle
<1>16. ASSUME broker = "kite" \/ Clean PROVE NewIds /\ NewKnown
  <2>1. RightName(r, book[i])
    BY <1>2, <1>8, <1>16 DEF RightName, RefOf
  <2> QED BY <1>2, <1>5, <1>14, <2>1 DEF NewIds, NewKnown
<1>17. broker = "kotak" => \A j \in DOMAIN ids' : ids'[j] \in anchored'
  BY <1>1, <1>14 DEF NameInv, KotakInv
<1>18. ASSUME broker = "kotak", Clean, KotakClean, Clean' PROVE KotakClean'
  <2>1. i \in DOMAIN ids
    BY <1>18 DEF KotakClean
  <2>2. r = RefOf(book[i].ref) /\ ids[i] = r
    BY <1>2, <1>8, <1>18, <2>1 DEF NameInv, RightNames, RightIds, RightName
  <2>3. r \in anchored
    BY <1>18, <2>1, <2>2 DEF NameInv, KotakInv
  <2>4. registered = pending
    BY <1>1, <1>18, <2>3 DEF register_intent
  <2>5. /\ Range(pending') \subseteq Range(pending)
        /\ \A x \in Range(pending) : x.ref # r => x \in Range(pending')
    <3>1. PICK t : t = drop_pending(pending, {r})
      OBVIOUS
    <3>2. Range(t) \subseteq Range(pending) /\ \A x \in Range(pending) : x.ref \notin {r} => x \in Range(t)
      BY <1>4, <1>9, <3>1, Dropped DEF Listed
    <3> QED BY <1>1, <2>4, <3>1, <3>2
  <2>6. i \in InBook(EntryFor(book[i].ref))
    <3>1. i \in 1 .. Len(book)
      BY <1>4, <1>5 DEF SoundBook
    <3> QED BY <1>2, <1>5, <3>1 DEF InBook, Purpose, EntryFor, SoundRow
  <2>7. NothingNew
    <3>1. Len(book') = Len(book)
      BY <1>1, <1>4 DEF SoundBook
    <3>2. \A w : InFlight(w)' => InFlight(w)
      BY <1>2 DEF InFlight
    <3> QED BY <1>2, <1>3, <3>1, <3>2, SameRequests DEF DeedInv, FlattenInv
  <2>8. ASSUME NEW s \in Refs PROVE Held(s)'
    <3>1. ASSUME r = RefOf(s) PROVE Held(s)'
      <4>1. s = book[i].ref
        BY <2>2, <3>1 DEF RefOf
      <4>2. i \in InBook(EntryFor(s))'
        BY <1>3, <1>4, <2>6, <4>1, MoreOf
      <4> QED BY <1>14, <2>1, <4>2 DEF Held
    <3>2. EntryIntent(s) \in Range(pending) => EntryIntent(s) \in Range(pending') \/ Held(s)'
      BY <2>5, <3>1, IntentRef
    <3>3. Held(s) /\ (Nowhere(EntryFor(s)) => Nowhere(EntryFor(s))')
      BY <1>18, <2>7 DEF KotakClean, NothingNew
    <3> QED BY <1>3, <1>4, <1>14, <3>2, <3>3, HeldStays
  <2>9. SameQtys
    <3>1. CASE book' = book
      BY <3>1, SameBookSameQtys
    <3>2. CASE book' = [book EXCEPT ![i].qty = q]
      <4>1. PICK row : row = [book[i] EXCEPT !.qty = q]
        OBVIOUS
      <4>2. book' = Put(book, i, row)
        BY <1>4, <3>2, <4>1 DEF Put, SoundBook
      <4> QED BY <1>4, <1>5, <2>1, <4>2, UpdatedQtys
    <3> QED BY <1>1, <3>1, <3>2
  <2>10. Unmodified(book)'
    BY <1>3, <1>4, <1>14, <1>18, <2>9, UnmodifiedStays DEF KotakClean
  <2>11. fetch'.op = "read" => Unmodified(fetch.rows)'
    BY <1>2, <1>14, <1>18, FetchedStays DEF FetchStep
  <2>12. \A n \in DOMAIN pending' : pending'[n].key[1] = "S" => pending'[n].ref.exit
    BY <1>9, <1>11, <1>18, <2>5, ShapesStay DEF Listed
  <2>13. anchored' = anchored
    BY <1>1, <2>3
  <2>14. DOMAIN known' \subseteq DOMAIN ids'
    BY <1>2, <1>14, <1>18 DEF KotakClean
  <2> QED BY <1>2, <1>18, <2>8, <2>10, <2>11, <2>12, <2>13, <2>14 DEF KotakClean, RefOf
<1> QED BY <1>3, <1>12, <1>13, <1>15, <1>16, <1>17, <1>18, NamesStep

-----------------------------------------------------------------------------
(* fetch_orders: the names it gives are right.                             *)

LEMMA SoleCandidate ==
  ASSUME pending \in Seq(Intents), NEW key, Cardinality(Candidates(key)) = 1
  PROVE  \E x \in Intents : Candidates(key) = {x} /\ x \in Range(pending) /\ x.key = key
<1>0. Len(pending) \in Nat /\ DOMAIN pending = 1 .. Len(pending)
  OBVIOUS
<1>1. pending \in Surjection(1 .. Len(pending), Range(pending))
  BY <1>0 DEF Range, Surjection
<1>2. IsFiniteSet(Range(pending))
  <2>1. IsFiniteSet(1 .. Len(pending))
    BY <1>0, FS_Interval
  <2> QED BY <1>1, <2>1, FS_Surjection
<1>3. IsFiniteSet(Candidates(key))
  <2>1. Candidates(key) \in SUBSET Range(pending)
    BY DEF Candidates
  <2> QED BY <1>2, <2>1, FS_Subset
<1>4. PICK x : Candidates(key) = {x}
  BY <1>3, FS_Singleton
<1>5. x \in Range(pending) /\ x.key = key
  BY <1>4 DEF Candidates
<1>6. x \in Intents
  BY <1>0, <1>5 DEF Range
<1> QED BY <1>4, <1>5, <1>6

LEMMA FetchedRow ==
  ASSUME DeedInv, fetch.op = "read", NEW i \in DOMAIN fetch.rows
  PROVE  /\ i \in 1 .. Len(fetch.rows) /\ i \in DOMAIN book /\ i \in 1 .. Len(book)
         /\ SoundRow(fetch.rows[i]) /\ SoundRow(book[i]) /\ RowLater(fetch.rows[i], book[i])
<1>1. SoundBook(fetch.rows) /\ Later(fetch.rows, book) /\ SoundBook(book)
  BY DEF DeedInv, FlattenInv, FetchInv, BookInv
<1>2. /\ i \in 1 .. Len(fetch.rows) /\ Len(fetch.rows) \in Nat /\ Len(book) \in Nat
      /\ Len(fetch.rows) <= Len(book)
  BY <1>1 DEF SoundBook, Later
<1>3. i \in 1 .. Len(book)
  BY <1>2
<1>4. i \in DOMAIN book
  BY <1>1, <1>3 DEF SoundBook
<1> QED BY <1>1, <1>2, <1>3, <1>4 DEF SoundBook, Later

\* Kotak's weak rung is right: the sole candidate for the sole row of its shape
\* is the request that became this row.
LEMMA WeakRungIsRight ==
  ASSUME DeedInv, NameInv, broker = "kotak", Clean, fetch.op = "read",
         NEW i \in DOMAIN fetch.rows, i \in Unmatched, Corroborated(i)
  PROVE  RightName(SoleRef(i), book[i])
<1> USE DEF DeedInv, FlattenInv
<1>1. /\ i \in DOMAIN book /\ i \in 1 .. Len(book) /\ SoundRow(fetch.rows[i]) /\ SoundRow(book[i])
      /\ RowLater(fetch.rows[i], book[i])
  BY FetchedRow
<1>2. PICK x \in Intents : /\ Candidates(RowKey(i)) = {x} /\ x \in Range(pending)
                           /\ x.key = RowKey(i)
  BY SoleCandidate DEF NameInv, NameTypes, Corroborated
<1>3. SoleRef(i) = x.ref
  BY <1>2 DEF SoleRef
<1>4. x.key[1] = fetch.rows[i].side /\ x.key[2] # 0
  BY <1>2 DEF RowKey, attribute_key, Intents
<1>5. KotakClean /\ RightIds
  BY DEF NameInv, KotakInv, RightNames
<1>6. book[i].kind \in {"entry", "exit"}
  <2>1. book[i].kind \in {"entry", "exit", "foreign"}
    BY <1>1 DEF SoundRow, RowType
  <2> QED BY <1>1, <2>1 DEF Clean
<1>7. CASE book[i].kind = "exit"
  <2>1. /\ ParentOK(book[i], book, broker) /\ book[i].parent \in 1 .. Len(book)
        /\ book[i].side = exit_side_for(book[book[i].parent].side)
        /\ book[book[i].parent].kind # "foreign"
    BY <1>1, <1>7 DEF BookInv, ParentOK
  <2>2. book[book[i].parent].kind # "exit"
    BY <1>1, <1>7 DEF Clean
  <2>3. SoundRow(book[book[i].parent])
    BY <2>1 DEF BookInv, SoundBook
  <2>4. book[book[i].parent].kind = "entry"
    BY <2>1, <2>2, <2>3 DEF SoundRow, RowType
  <2>5. book[book[i].parent].side = "B"
    BY <2>3, <2>4 DEF SoundRow
  <2>6. fetch.rows[i].side = "S"
    BY <1>1, <2>1, <2>5 DEF exit_side_for, RowLater
  <2>7. PICK n \in DOMAIN pending : x = pending[n]
    BY <1>2 DEF Range
  <2>8. x.ref.exit
    BY <1>4, <1>5, <2>6, <2>7 DEF KotakClean
  <2> QED BY <1>3, <1>7, <2>8 DEF RightName
<1>8. CASE book[i].kind = "entry"
  <2>1. book[i].ref \in Refs /\ fetch.rows[i].kind = "entry" /\ fetch.rows[i].side = "B"
    BY <1>1, <1>8 DEF SoundRow, RowLater
  <2>2. i \notin DOMAIN ids
    <3> SUFFICES ASSUME i \in DOMAIN ids PROVE FALSE
      OBVIOUS
    <3>1. ids[i] = NoRef
      BY DEF Unmatched, ref_for_id, Lookup
    <3>2. NoRef = RefOf(book[i].ref)
      <4>1. RightName(NoRef, book[i])
        BY <1>5, <3>1 DEF RightIds
      <4>2. ~NoRef.exit
        BY DEF NoRef
      <4> QED BY <4>1, <4>2 DEF RightName
    <3>3. book[i].ref = ""
      BY <3>2 DEF NoRef, RefOf
    <3> QED BY <2>1, <3>3, AdapterAssumption
  <2>3. fetch.rows[i].qty = EntryQty
    BY <1>5, <2>1, <2>2 DEF KotakClean, Unmodified
  <2>4. RowKey(i) = <<"B", EntryQty>>
    BY <1>2, <1>4, <2>1, <2>3 DEF RowKey, attribute_key
  <2> DEFINE r == book[i].ref
  <2>5. i \in InBook(EntryFor(r))
    BY <1>1, <1>8 DEF InBook, Purpose, EntryFor, SoundRow
  <2>6. \A j \in InBook(EntryFor(r)) : j = i
    BY <2>1, <2>5 DEF AloneInv, Alone
  <2>7. ~Nowhere(EntryFor(r))
    BY <2>5 DEF Nowhere
  <2>8. EntryIntent(r) \in Range(pending)
    <3>1. Held(r)
      BY <1>5, <2>1 DEF KotakClean
    <3> HIDE DEF r
    <3> QED BY <2>2, <2>6, <2>7, <3>1 DEF Held
  <2>9. EntryIntent(r) \in Candidates(RowKey(i))
    BY <2>4, <2>8 DEF Candidates, EntryIntent
  <2>10. x = EntryIntent(r)
    BY <1>2, <2>9
  <2>11. SoleRef(i) = RefOf(r)
    BY <1>3, <2>10, IntentRef
  <2> QED BY <1>8, <2>11 DEF RightName, RefOf
<1> QED BY <1>6, <1>7, <1>8

\* Whatever name fetch_orders gives a row, the row was placed under it.
LEMMA CorrelatedIsRight ==
  ASSUME DeedInv, NameInv, broker = "kite" \/ Clean, fetch.op = "read",
         NEW i \in DOMAIN fetch.rows, Correlate[i] # NoRef
  PROVE  i \in DOMAIN book /\ RightName(Correlate[i], book[i])
<1>1. /\ i \in DOMAIN book /\ SoundRow(fetch.rows[i]) /\ RowLater(fetch.rows[i], book[i])
      /\ broker \in {"kite", "kotak"}
  BY FetchedRow DEF DeedInv, FlattenInv
<1>2. RightIds
  BY DEF NameInv, RightNames
<1>3. ref_for_id(i) # NoRef => RightName(ref_for_id(i), book[i])
  BY <1>2 DEF ref_for_id, Lookup, RightIds
<1>4. CASE broker = "kotak"
  <2>1. Correlate[i] = IF i \in Unmatched /\ Corroborated(i) THEN SoleRef(i) ELSE ref_for_id(i)
    BY <1>4 DEF Correlate
  <2>2. CASE i \in Unmatched /\ Corroborated(i)
    <3>1. RightName(SoleRef(i), book[i])
      BY <1>4, <2>2, WeakRungIsRight
    <3> QED BY <1>1, <2>1, <2>2, <3>1
  <2>3. CASE ~(i \in Unmatched /\ Corroborated(i))
    BY <1>1, <1>3, <2>1, <2>3
  <2> QED BY <2>2, <2>3
<1>5. CASE broker = "kite"
  <2> DEFINE t == TagOf(fetch.rows[i])
  <2>1. Correlate[i] = IF ref_for_id(i) # NoRef THEN ref_for_id(i) ELSE Lookup(tags, t)
    BY <1>5 DEF Correlate, recover_client_ref
  <2>2. CASE ref_for_id(i) # NoRef
    BY <1>1, <1>3, <2>1, <2>2
  <2>3. CASE ref_for_id(i) = NoRef
    <3>1. t \in DOMAIN tags /\ Correlate[i] = tags[t]
      BY <2>1, <2>3 DEF Lookup
    <3>2. RightTag(t)
      BY <1>5, <3>1 DEF NameInv, RightTags
    <3>3. /\ fetch.rows[i].kind = "foreign" => t.prefix = ""
          /\ fetch.rows[i].kind = "exit" => t.prefix = "bx"
          /\ fetch.rows[i].kind = "entry" => t.prefix = "be" /\ t.ref = fetch.rows[i].ref
          /\ fetch.rows[i].kind \in {"entry", "exit", "foreign"}
      BY <1>1, <1>5 DEF TagOf, NoTag, exit_tag_for, short_tag, SoundRow, RowType
    <3>4. book[i].kind = fetch.rows[i].kind /\ book[i].ref = fetch.rows[i].ref
      BY <1>1 DEF RowLater
    <3> HIDE DEF t
    <3>5. CASE t.prefix = "bx" /\ tags[t].exit
      BY <1>1, <3>1, <3>3, <3>4, <3>5 DEF RightName
    <3>6. ASSUME NEW r \in Refs, t = short_tag(r), tags[t] = RefOf(r) PROVE RightName(tags[t], book[i])
      <4>1. t.prefix = "be" /\ t.ref = r
        BY <3>6 DEF short_tag
      <4>2. book[i].kind = "entry" /\ book[i].ref = r
        BY <3>3, <3>4, <4>1
      <4> QED BY <3>6, <4>2 DEF RightName, RefOf
    <3> QED BY <1>1, <3>1, <3>2, <3>5, <3>6 DEF RightTag
  <2> QED BY <2>2, <2>3
<1> QED BY <1>1, <1>4, <1>5

LEMMA CorrelatedIsName ==
  ASSUME DeedInv, NameInv, fetch.op = "read", NEW i \in DOMAIN fetch.rows
  PROVE  Correlate[i] \in Names
<1>1. ref_for_id(i) \in Names /\ \A t : Lookup(tags, t) \in Names
  BY LookedUp DEF ref_for_id, NameInv, NameTypes
<1>2. ASSUME Corroborated(i) PROVE SoleRef(i) \in Names
  <2>1. PICK x \in Intents : Candidates(RowKey(i)) = {x}
    BY <1>2, SoleCandidate DEF NameInv, NameTypes, Corroborated
  <2>2. SoleRef(i) = x.ref
    BY <2>1 DEF SoleRef
  <2> QED BY <2>2 DEF Intents
<1>3. CASE broker = "kite"
  <2>1. Correlate[i] = recover_client_ref(i, TagOf(fetch.rows[i]))
    BY <1>3 DEF Correlate
  <2> QED BY <1>1, <2>1 DEF recover_client_ref
<1>4. CASE broker # "kite"
  <2>1. Correlate[i] = IF i \in Unmatched /\ Corroborated(i) THEN SoleRef(i) ELSE ref_for_id(i)
    BY <1>4 DEF Correlate
  <2> QED BY <1>1, <1>2, <2>1
<1> QED BY <1>3, <1>4

LEMMA FetchApplyNames ==
  ASSUME DeedInv, NameInv, FetchApply
  PROVE  NameInv'
<1>1. PICK refs, new :
        /\ refs = Correlate
        /\ new = {i \in Unmatched : broker = "kotak" /\ refs[i] # NoRef}
        /\ ids' = [i \in DOMAIN ids \cup new |-> IF i \in new THEN refs[i] ELSE ids[i]]
        /\ anchored' = anchored \cup {refs[i] : i \in new}
        /\ pending' = drop_pending(pending, {refs[i] : i \in new})
        /\ known' = [i \in DOMAIN known \cup
                           {j \in DOMAIN refs : refs[j] # NoRef /\ ~refs[j].exit} |->
                       IF i \in DOMAIN known THEN known[i] ELSE refs[i]]
  BY DEF FetchApply
<1>2. /\ fetch.op = "read" /\ fetch' = NoFetch /\ book' = book /\ late' = late /\ tags' = tags
      /\ placed' = placed /\ call' = call /\ forgot' = forgot
  BY DEF FetchApply, history
<1>3. Grown /\ SoundBook(book) /\ broker' = broker /\ broker \in {"kite", "kotak"}
  BY FetchKeeps DEF DeedInv, FlattenInv, BookInv, Grown
<1>4. DOMAIN refs = DOMAIN fetch.rows /\ \A i \in DOMAIN refs : refs[i] = Correlate[i]
  BY <1>1 DEF Correlate
<1>5. new \subseteq DOMAIN refs /\ \A i \in new : refs[i] # NoRef /\ broker = "kotak"
  BY <1>1, <1>4 DEF Unmatched
<1>6. /\ DOMAIN ids' = DOMAIN ids \cup new
      /\ \A i \in DOMAIN ids' : \/ i \in new /\ ids'[i] = refs[i]
                                \/ i \in DOMAIN ids /\ ids'[i] = ids[i]
  BY <1>1
<1>7. \A i \in DOMAIN known' : \/ i \in DOMAIN known /\ known'[i] = known[i]
                               \/ /\ i \in DOMAIN refs /\ refs[i] # NoRef /\ ~refs[i].exit
                                  /\ known'[i] = refs[i]
  BY <1>1
<1>8. \A i \in DOMAIN refs : i \in DOMAIN book /\ refs[i] \in Names
  BY <1>2, <1>4, CorrelatedIsName, FetchedRow
<1>9. ASSUME broker = "kite" \/ Clean, NEW i \in DOMAIN refs, refs[i] # NoRef
      PROVE  RightName(refs[i], book[i])
  BY <1>2, <1>4, <1>9, CorrelatedIsRight
<1>10. Listed(pending)
  BY DEF NameInv, NameTypes, Listed
<1>11. PICK gone : gone = {refs[i] : i \in new}
  OBVIOUS
<1>12. /\ Listed(pending') /\ Range(pending') \subseteq Range(pending)
       /\ \A x \in Range(pending) : x.ref \notin gone => x \in Range(pending')
  <2>1. PICK t : t = drop_pending(pending, gone)
    OBVIOUS
  <2>2. Listed(t)
    BY <1>3, <1>10, <2>1, DroppedListed
  <2>3. Range(t) \subseteq Range(pending) /\ \A x \in Range(pending) : x.ref \notin gone => x \in Range(t)
    BY <1>3, <1>10, <2>1, Dropped DEF Listed
  <2> QED BY <1>1, <1>11, <2>1, <2>2, <2>3
<1>13. NameTypes'
  <2>1. \A i \in DOMAIN ids' : i \in DOMAIN book /\ ids'[i] \in Names
    BY <1>5, <1>6, <1>8 DEF NameInv, NameTypes
  <2>2. \A i \in DOMAIN known' : i \in DOMAIN book /\ known'[i] \in Names
    BY <1>7, <1>8 DEF NameInv, NameTypes
  <2> QED BY <1>2, <1>12, <2>1, <2>2 DEF NameInv, NameTypes, Listed, RightName
<1>14. RightTags'
  BY <1>2, <1>3 DEF NameInv, RightTags, RightTag
<1>15. ASSUME broker = "kite" \/ Clean PROVE NewIds /\ NewKnown
  <2>1. NewIds
    BY <1>5, <1>6, <1>8, <1>9, <1>15 DEF NewIds
  <2>2. ASSUME NEW i \in DOMAIN refs, refs[i] # NoRef, ~refs[i].exit
        PROVE  book[i].kind = "entry" /\ refs[i] = RefOf(book[i].ref)
    BY <1>9, <1>15, <2>2 DEF RightName
  <2>3. NewKnown
    BY <1>7, <1>8, <2>2 DEF NewKnown
  <2> QED BY <2>1, <2>3
<1>16. broker = "kotak" => \A i \in DOMAIN ids' : ids'[i] \in anchored'
  <2>1. ASSUME broker = "kotak", NEW i \in DOMAIN ids' PROVE ids'[i] \in anchored'
    <3>1. CASE i \in new /\ ids'[i] = refs[i]
      BY <1>1, <3>1
    <3>2. CASE i \in DOMAIN ids /\ ids'[i] = ids[i]
      BY <1>1, <2>1, <3>2 DEF NameInv, KotakInv
    <3> QED BY <1>6, <3>1, <3>2
  <2> QED BY <2>1
<1>17. ASSUME broker = "kotak", Clean, KotakClean, Clean' PROVE KotakClean'
  <2>1. ASSUME NEW i \in new PROVE RightName(refs[i], book[i]) /\ i \in 1 .. Len(book) /\ SoundRow(book[i])
    BY <1>3, <1>5, <1>8, <1>9, <1>17 DEF SoundBook
  <2>2. ASSUME NEW i \in new, ~refs[i].exit
        PROVE  refs[i] = RefOf(book[i].ref) /\ i \in InBook(EntryFor(book[i].ref)) /\ book[i].ref \in Refs
    <3>1. book[i].kind = "entry" /\ refs[i] = RefOf(book[i].ref)
      BY <2>1, <2>2 DEF RightName
    <3> QED BY <2>1, <3>1 DEF InBook, Purpose, EntryFor, SoundRow
  <2>3. ASSUME NEW r \in Refs PROVE Held(r)'
    <3>1. ASSUME RefOf(r) \in gone PROVE Held(r)'
      <4>1. PICK i \in new : RefOf(r) = refs[i]
        BY <1>11, <3>1
      <4>2. ~refs[i].exit
        BY <4>1 DEF RefOf
      <4>3. r = book[i].ref
        <5>1. RefOf(r) = RefOf(book[i].ref)
          BY <2>2, <4>1, <4>2
        <5> QED BY ONLY <5>1 DEF RefOf
      <4>4. i \in InBook(EntryFor(r))'
        BY <1>3, <2>2, <4>2, <4>3, MoreOf
      <4> QED BY <1>6, <4>4 DEF Held
    <3>2. EntryIntent(r) \in Range(pending) => EntryIntent(r) \in Range(pending') \/ Held(r)'
      BY <1>12, <3>1, IntentRef
    <3>3. Nowhere(EntryFor(r)) => Nowhere(EntryFor(r))'
      BY <1>2 DEF Nowhere, InBook, InLate, InFlight
    <3>4. Held(r) /\ DOMAIN ids \subseteq DOMAIN ids'
      BY <1>6, <1>17 DEF KotakClean
    <3> QED BY <1>3, <3>2, <3>3, <3>4, HeldStays
  <2>4. \A n \in DOMAIN pending' : pending'[n].key[1] = "S" => pending'[n].ref.exit
    BY <1>10, <1>12, <1>17, ShapesStay DEF Listed
  <2>5. \A a \in anchored' : a.exit \/ \E s \in placed' : a = RefOf(s)
    <3>1. ASSUME NEW i \in new, ~refs[i].exit PROVE \E s \in placed : refs[i] = RefOf(s)
      <4>1. ~Nowhere(EntryFor(book[i].ref)) /\ book[i].ref \in Refs
        BY <2>2, <3>1 DEF Nowhere
      <4>2. book[i].ref \in placed
        BY <4>1 DEF DeedInv, FlattenInv, AloneInv
      <4> QED BY <2>2, <3>1, <4>2
    <3>2. ASSUME NEW a \in anchored', ~a.exit PROVE \E s \in placed : a = RefOf(s)
      <4>1. CASE a \in anchored
        BY <1>17, <3>2, <4>1 DEF KotakClean
      <4>2. CASE \E i \in new : a = refs[i]
        BY <3>1, <3>2, <4>2
      <4> QED BY <1>1, <4>1, <4>2
    <3> QED BY <1>2, <3>2
  <2>6. DOMAIN known' \subseteq DOMAIN ids'
    <3> SUFFICES ASSUME NEW i \in DOMAIN known' PROVE i \in DOMAIN ids'
      OBVIOUS
    <3>1. CASE i \in DOMAIN known
      BY <1>6, <1>17, <3>1 DEF KotakClean
    <3>2. CASE i \in DOMAIN refs /\ refs[i] # NoRef
      <4>1. CASE i \in Unmatched
        BY <1>1, <1>6, <1>17, <3>2, <4>1
      <4>2. CASE i \notin Unmatched
        <5>1. ref_for_id(i) # NoRef
          BY <1>4, <3>2, <4>2 DEF Unmatched
        <5> QED BY <1>6, <5>1 DEF ref_for_id, Lookup
      <4> QED BY <4>1, <4>2
    <3> QED BY <1>7, <3>1, <3>2
  <2>7. Unmodified(book)'
    <3>1. DOMAIN ids \subseteq DOMAIN ids'
      BY <1>6
    <3> QED BY <1>2, <1>3, <1>17, <3>1, SameBookSameQtys, UnmodifiedStays DEF KotakClean
  <2>8. fetch'.op # "read"
    BY <1>2 DEF NoFetch
  <2> QED BY <2>3, <2>4, <2>5, <2>6, <2>7, <2>8 DEF KotakClean, RefOf
<1> QED BY <1>2, <1>3, <1>13, <1>14, <1>15, <1>16, <1>17, NamesStep

-----------------------------------------------------------------------------
(* What the invariant says of the answers.                                 *)

LEMMA WorkingIsNotTerminal ==
  ASSUME broker \in {"kite", "kotak"}, NEW rows, NEW bad, NEW i, SoundRow(rows[i]),
         rows[i].status = "working"
  PROVE  PublishedState(rows, bad, i) \notin {"Filled", "Rejected", "Cancelled"}
<1>1. PICK v : v = read_row(rows, bad, i)
  OBVIOUS
<1>2. rows[i].filled \in Nat /\ rows[i].qty \in Nat /\ rows[i].filled < rows[i].qty /\ Absent \notin Nat
  <2>1. rows[i].filled \in Nat /\ rows[i].qty \in Nat /\ rows[i].filled < rows[i].qty
    BY DEF SoundRow, RowType
  <2>2. Absent \notin Nat
    BY DEF Absent
  <2> QED BY <2>1, <2>2
<1>3. /\ v.status \in {"working", "weird"}
      /\ v.qty \in {Absent, rows[i].qty}
      /\ broker = "kotak" => v.filled \in {Absent, rows[i].filled}
  BY <1>1 DEF read_row
<1>4. PublishedState(rows, bad, i) = IF v.malformed \/ v.filled = Absent THEN "Unknown" ELSE Reported(v)
  BY <1>1 DEF PublishedState
<1> SUFFICES ASSUME v.filled # Absent PROVE Reported(v) \notin {"Filled", "Rejected", "Cancelled"}
  BY <1>4
<1>5. CASE broker = "kite"
  <2>1. Reported(v) = map_status(v.status)
    BY <1>5 DEF Reported
  <2> QED BY <1>3, <2>1 DEF map_status
<1>6. CASE broker = "kotak"
  <2>1. Reported(v) = map_order_state(v.status, v.filled, v.qty)
    BY <1>6 DEF Reported
  <2>2. CASE v.status = "weird" \/ v.qty = Absent
    BY <1>3, <2>1, <2>2 DEF map_order_state
  <2>3. CASE v.status = "working" /\ v.qty # Absent
    <3>1. v.filled \in Nat /\ v.qty \in Nat /\ v.filled < v.qty
      BY <1>2, <1>3, <1>6, <2>3
    <3>2. Reported(v) = normalize_fill("working", v.filled, v.qty, TRUE).canonical_state
      BY <2>1, <2>3 DEF map_order_state
    <3>3. clamp_non_negative(v.filled) = v.filled /\ clamp_non_negative(v.qty) = v.qty
      BY <3>1 DEF clamp_non_negative
    <3>4. clamp_non_negative(v.qty - v.filled) > 0
      BY <3>1 DEF clamp_non_negative
    <3>5. Reported(v) = canonical_state("working", v.filled, clamp_non_negative(v.qty - v.filled))
      BY <3>2, <3>3 DEF normalize_fill
    <3> QED BY <3>4, <3>5 DEF canonical_state
  <2> QED BY <1>3, <2>2, <2>3
<1> QED BY <1>5, <1>6

AdapterInv == broker \in Brokers /\ DeedInv /\ NameInv

LEMMA AnswersFollow ==
  ASSUME AdapterInv
  PROVE  AnswersAreTrue
<1> USE DEF AdapterInv, DeedInv, FlattenInv
<1>0. SoundBook(book) /\ DOMAIN book = 1 .. Len(book) /\ broker \in {"kite", "kotak"}
  BY DEF BookInv, SoundBook
<1>1. TypeOK
  <2>1. \A i \in DOMAIN book : book[i].filled <= book[i].qty
    BY <1>0 DEF SoundBook, SoundRow
  <2> QED BY <2>1 DEF TypeOK, NameInv, NameTypes, RefusedInv, CallInv, FetchInv
<1>2. CorrelationIsRight
  <2>1. CASE broker = "kite" \/ Clean
    <3>1. RightIds
      BY <2>1 DEF NameInv, RightNames
    <3>2. ASSUME NEW i \in DOMAIN ids PROVE Named(i, ids[i])
      <4>1. CASE ids[i].exit
        BY <3>1, <4>1 DEF RightIds, RightName, Named
      <4>2. CASE ~ids[i].exit
        <5>1. book[i].kind = "entry" /\ ids[i] = RefOf(book[i].ref)
          BY <3>1, <4>2 DEF RightIds, RightName
        <5>2. ids[i].ref = book[i].ref
          BY <5>1 DEF RefOf
        <5> QED BY <4>2, <5>1, <5>2 DEF Named
      <4> QED BY <4>1, <4>2
    <3> QED BY <3>2 DEF CorrelationIsRight
  <2>2. CASE broker = "kotak" /\ ~Clean
    <3>1. forgot \in BOOLEAN
      BY DEF NameInv, NameTypes
    <3> QED BY <2>2, <3>1 DEF Clean, CorrelationIsRight
  <2> QED BY <1>0, <2>1, <2>2
<1>3. PublishedTerminalIsTerminal
  <2> SUFFICES ASSUME fetch.op = "read", NEW i \in DOMAIN fetch.rows, book[i].status = "working"
               PROVE  PublishedState(fetch.rows, fetch.bad, i) \notin {"Filled", "Rejected", "Cancelled"}
    BY DEF PublishedTerminalIsTerminal
  <2>1. SoundRow(fetch.rows[i]) /\ RowLater(fetch.rows[i], book[i])
    BY FetchedRow
  <2>2. fetch.rows[i].status = "working"
    BY <2>1 DEF RowLater
  <2> QED BY <1>0, <2>1, <2>2, WorkingIsNotTerminal
<1>4. DefinitiveMeansNotLive
  <2>1. ASSUME NEW i \in DOMAIN book, book[i].kind = "entry", book[i].ref \in refused PROVE FALSE
    <3>1. SoundRow(book[i]) /\ i \in 1 .. Len(book)
      BY <1>0 DEF SoundBook
    <3>2. i \in InBook(EntryFor(book[i].ref))
      BY <2>1, <3>1 DEF InBook, Purpose, EntryFor, SoundRow
    <3> QED BY <2>1, <3>2 DEF RefusedInv, Nowhere
  <2>2. ASSUME NEW row \in late, row.kind = "entry", row.ref \in refused PROVE FALSE
    <3>1. SoundRow(row)
      BY DEF LateInv, NewRow
    <3>2. row \in InLate(EntryFor(row.ref))
      BY <2>2, <3>1 DEF InLate, Purpose, EntryFor, SoundRow
    <3> QED BY <2>2, <3>2 DEF RefusedInv, Nowhere
  <2> QED BY <2>1, <2>2 DEF DefinitiveMeansNotLive
<1> QED BY <1>1, <1>2, <1>3, <1>4 DEF AnswersAreTrue

LEMMA AdapterInit ==
  ASSUME Init
  PROVE  AdapterInv
<1>0. /\ broker \in Brokers /\ book = << >> /\ late = {} /\ ids = << >> /\ tags = << >>
      /\ pending = << >> /\ anchored = {} /\ placed = {} /\ known = << >> /\ call = Idle
      /\ fetch = NoFetch /\ result = NoResult /\ refused = {} /\ forgot = FALSE
  BY DEF Init
<1>1. broker \in {"kite", "kotak"}
  BY <1>0, AdapterAssumption
<1>2. Len(book) = 0 /\ DOMAIN book = {} /\ book \in Seq(RowType)
  BY <1>0
<1>3. DOMAIN ids = {} /\ DOMAIN tags = {} /\ DOMAIN known = {} /\ DOMAIN pending = {}
  BY <1>0
<1>4. call.op = "none" /\ fetch.op = "none" /\ result.out = "none"
  BY <1>0 DEF Idle, NoFetch, NoResult
<1>5. BookInv /\ LateInv /\ CallInv /\ FetchInv /\ ResultInv
  BY <1>0, <1>2, <1>4 DEF BookInv, SoundBook, LateInv, CallInv, FetchInv, ResultInv, OkMeansFlat
<1>6. \A w : Nowhere(w) /\ Alone(w)
  <2>1. \A w : InBook(w) = {} /\ InLate(w) = {} /\ ~InFlight(w)
    BY <1>0, <1>2, <1>4 DEF InBook, InLate, InFlight
  <2> QED BY <2>1 DEF Nowhere, Alone
<1>7. AloneInv /\ RefusedInv
  BY <1>0, <1>6 DEF AloneInv, RefusedInv
<1>8. NameTypes
  <2>0. kMaxPendingIntents \in Nat \ {0}
    BY ONLY AdapterAssumption
  <2>1. pending \in Seq(Intents) /\ Len(pending) = 0
    BY <1>0
  <2>2. Len(pending) <= kMaxPendingIntents
    BY <2>0, <2>1
  <2> QED BY <1>0, <1>3, <1>4, <2>1, <2>2 DEF NameTypes
<1>9. RightNames /\ RightTags
  BY <1>3 DEF RightNames, RightIds, RightKnown, RightTags
<1>10. KotakInv
  <2>1. \A r \in Refs : Held(r)
    BY <1>6 DEF Held
  <2>2. KotakClean
    BY <1>0, <1>2, <1>3, <1>4, <2>1 DEF KotakClean, Unmodified
  <2> QED BY <1>3, <2>2 DEF KotakInv
<1> QED BY <1>0, <1>1, <1>5, <1>7, <1>8, <1>9, <1>10 DEF AdapterInv, DeedInv, FlattenInv, NameInv

LEMMA AdapterStutters ==
  ASSUME AdapterInv, UNCHANGED vars
  PROVE  AdapterInv'
<1>1. /\ broker' = broker /\ book' = book /\ late' = late /\ ids' = ids /\ tags' = tags
      /\ pending' = pending /\ anchored' = anchored /\ placed' = placed /\ known' = known
      /\ call' = call /\ fetch' = fetch /\ refused' = refused /\ result' = result
      /\ blind' = blind /\ forgot' = forgot
  BY DEF vars
<1>2. Grown /\ BookInv' /\ Len(book') = Len(book)
  BY <1>1, StillGrown DEF AdapterInv, DeedInv, FlattenInv
<1>3. DeedInv'
  BY <1>1, <1>2, UpdateKeeps DEF AdapterInv
<1>4. NothingNew
  BY <1>1, <1>2, SameRequests DEF AdapterInv, DeedInv, FlattenInv, InFlight
<1>5. NameInv'
  BY <1>1, <1>2, <1>4, SameBookSameQtys, MapsStay DEF AdapterInv, FetchStep
<1> QED BY <1>1, <1>3, <1>5 DEF AdapterInv

LEMMA AdapterStep ==
  ASSUME AdapterInv, Next
  PROVE  AdapterInv'
<1> USE DEF AdapterInv
<1>0. DOMAIN known \subseteq DOMAIN book
  BY DEF NameInv, NameTypes
<1>1. ASSUME NEW r \in Refs, Place(r) PROVE AdapterInv'
  <2>1. broker' = broker
    BY <1>1 DEF Place
  <2> QED BY <1>1, <2>1, PlaceKeeps, PlaceNames
<1>2. CASE Arrive
  BY <1>2, ArriveKeeps, ArriveNames DEF Grown
<1>3. CASE ArriveLate
  BY <1>3, ArriveLateKeeps, ArriveLateNames DEF Grown
<1>4. CASE PlaceAck
  BY <1>4, AckKeeps, AckNames DEF Grown
<1>5. CASE PlaceAckNoId
  BY <1>5, AckKeeps, AckNoIdNames DEF Grown
<1>6. ASSUME NEW e, PlaceError(e) PROVE AdapterInv'
  BY <1>6, ErrorKeeps, ErrorNames DEF Grown
<1>7. ASSUME NEW i \in DOMAIN known, NEW q \in Qtys, NEW out \in {"ok", "ambiguous", "refused"},
             Modify(i, q, out)
      PROVE  AdapterInv'
  BY <1>0, <1>7, ModifyKeeps, ModifyNames DEF Grown
<1>8. ASSUME NEW bad \in Reads(FetchFaults), FetchRead(bad) PROVE AdapterInv'
  BY <1>8, FetchKeeps, FetchReadNames DEF Grown
<1>9. CASE FetchApply
  BY <1>9, FetchKeeps, FetchApplyNames DEF Grown
<1>10. ASSUME NEW p \in DOMAIN book, NEW bad, SquareOff(p, bad) PROVE AdapterInv'
  BY <1>10, SquareOffKeeps, SquareOffNames DEF Grown
<1>11. ASSUME NEW out \in {"ok", "notfound", "error"}, Cancel(out) PROVE AdapterInv'
  BY <1>11, CancelKeeps, CancelNames DEF Grown
<1>12. CASE Decide
  BY <1>12, DecideKeeps, DecideNames DEF Grown
<1>13. ASSUME NEW i \in DOMAIN book, Fill(i) PROVE AdapterInv'
  BY <1>13, FillKeeps, FillNames DEF Grown
<1>14. ASSUME NEW i \in DOMAIN book, NEW s \in {"rejected", "cancelled"}, Kill(i, s) PROVE AdapterInv'
  BY <1>14, KillKeeps, KillNames DEF Grown
<1>15. ASSUME NEW side \in {"B", "S"}, NEW q \in Qtys, Foreign(side, q) PROVE AdapterInv'
  BY <1>15, ForeignKeeps, ForeignNames DEF Grown
<1>16. CASE Restart
  BY <1>16, RestartKeeps, RestartNames DEF Grown
<1> QED BY <1>1, <1>2, <1>3, <1>4, <1>5, <1>6, <1>7, <1>8, <1>9, <1>10, <1>11, <1>12, <1>13,
           <1>14, <1>15, <1>16 DEF Next

\* square_off, repeated, raced by fills, cancels and late requests, and repeated
\* again after a restart: it never exits more than its parent filled, its ok means
\* flat, its cancel comes before its exit, and Kite never exits an exit, for any
\* number of orders and any quantities; only the blind spots recorded in `blind'
\* are excepted (square_off, decide_exit_placement).
THEOREM FlattensAreSafe == Spec => []FlattenIsSafe
<1>1. Init => AdapterInv
  BY AdapterInit
<1>2. AdapterInv /\ [Next]_vars => AdapterInv'
  BY AdapterStep, AdapterStutters
<1>3. AdapterInv => FlattenIsSafe
  BY DeedsAreSafe DEF AdapterInv
<1> QED BY <1>1, <1>2, <1>3, PTL DEF Spec

\* What place, modify and fetch_orders tell the engine is true of the broker: a
\* correlated row is the order its client_ref was placed for (for Kotak with the
\* exceptions CorrelationIsRight lists), a row published as terminal is dead, and
\* an order reported as definitely refused, by an error that is not in
\* MayHideLive, is not at the broker and cannot get there (fetch_orders,
\* map_status, map_order_state, map_http_error, map_kotak_error, guard_mutation).
THEOREM AdaptersTellTheTruth == Spec => []AnswersAreTrue
<1>1. Init => AdapterInv
  BY AdapterInit
<1>2. AdapterInv /\ [Next]_vars => AdapterInv'
  BY AdapterStep, AdapterStutters
<1>3. AdapterInv => AnswersAreTrue
  BY AnswersFollow
<1> QED BY <1>1, <1>2, <1>3, PTL DEF Spec
=============================================================================
