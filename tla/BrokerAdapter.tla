--------------------------- MODULE BrokerAdapter ----------------------------
(***************************************************************************)
(* The two live adapters, adapters/kite/kite_broker_adapter.cpp and        *)
(* adapters/kotak/kotak_broker_adapter.cpp: place, modify, fetch_orders    *)
(* and the flatten (square_off), with their correlation maps, against one  *)
(* instrument at a broker.  One mutation is in progress at a time (the     *)
(* loop thread); fetch_orders runs beside it, and between its read of the  *)
(* book and its use of the maps anything may happen.                       *)
(*                                                                         *)
(* `book' is the order book at the broker, an order's number its id.  The  *)
(* maps ids, tags, pending and anchored live in memory and a restart loses *)
(* them; known is what the engine's store remembers of acknowledged and    *)
(* published orders.  `late' holds requests whose caller was told nothing  *)
(* definite and which may still arrive.  `refused', `result', `blind'      *)
(* and `forgot' are history: `blind' records the flattens whose evidence   *)
(* was defective, `forgot' whether a registration of an order was lost     *)
(* that may be live; `refused' holds the entries whose caller was told an  *)
(* error that should settle them.                                          *)
(***************************************************************************)
EXTENDS FillNorm, RestErrors, FiniteSets, Sequences, SequencesExt

CONSTANTS Brokers,            \* the brokers the composition root may choose
          Refs,               \* client_refs of entries
          Qtys,               \* order quantities; an entry is placed at the largest
          kMaxPendingIntents,
          MaxOrders,          \* bound on the book
          Budgets,            \* how often a behaviour may take each action
          AbsentFill          \* whether a row may come without its filled quantity

ASSUME AdapterAssumption ==
    /\ Brokers \subseteq {"kite", "kotak"} /\ Brokers # {}
    /\ "" \notin Refs
    /\ Qtys \subseteq Nat \ {0} /\ \E q \in Qtys : \A r \in Qtys : r <= q
    /\ kMaxPendingIntents \in Nat \ {0}
    /\ AbsentFill \in BOOLEAN

VARIABLES broker, book, late, ids, tags, pending, anchored,
          placed, known, call, fetch, refused, result, blind,
          forgot, left

vars == <<broker, book, late, ids, tags, pending, anchored, placed, known,
          call, fetch, refused, result, blind, forgot, left>>
maps == <<ids, tags, pending, anchored>>
history == <<refused, blind, forgot>>

EntryQty == CHOOSE q \in Qtys : \A r \in Qtys : r <= q

-----------------------------------------------------------------------------
(* Names.  A client_ref is an entry's name or an anchor with the exit      *)
(* suffix; the anchor of an exit is its parent's ref, or its parent's id   *)
(* when this process cannot name the parent.                               *)
NoRef == [ref |-> "", id |-> 0, exit |-> FALSE]
RefOf(r) == [ref |-> r, id |-> 0, exit |-> FALSE]

exit_client_ref(parent_ref, id) ==
    IF parent_ref = NoRef THEN [ref |-> "", id |-> id, exit |-> TRUE]
    ELSE [parent_ref EXCEPT !.exit = TRUE]

is_exit_ref(r) == r.exit

\* Rows as the broker keeps them.  kind, ref and parent say what the order was
\* placed for: Kite echoes that as a tag, Kotak echoes nothing.
Row(kind, ref, parent, side, qty) ==
    [kind |-> kind, ref |-> ref, parent |-> parent, side |-> side, qty |-> qty,
     filled |-> 0, status |-> "working"]

NoTag == [prefix |-> "", ref |-> "", id |-> 0]
short_tag(r) == [prefix |-> "be", ref |-> r, id |-> 0]
exit_tag_for(p) == [prefix |-> "bx", ref |-> "", id |-> p]
TagOf(row) ==
    IF broker = "kotak" \/ row.kind = "foreign" THEN NoTag
    ELSE IF row.kind = "exit" THEN exit_tag_for(row.parent) ELSE short_tag(row.ref)
is_exit_tag(tag) == tag.prefix = "bx"

Lookup(map, x) == IF x \in DOMAIN map THEN map[x] ELSE NoRef
Bind(map, x, r) == [y \in DOMAIN map \cup {x} |-> IF y = x THEN r ELSE map[y]]

ref_for_id(i) == Lookup(ids, i)

\* Kite: the id map, then the tag map.
recover_client_ref(i, tag) ==
    IF ref_for_id(i) # NoRef THEN ref_for_id(i) ELSE Lookup(tags, tag)

attribute_key(side, qty) == <<side, qty>>
Key(row) == attribute_key(row.side, row.qty)

-----------------------------------------------------------------------------
(* Kotak's pending intents.  Each operator returns the new sequence.       *)

drop_pending(seq, refs) ==
    LET kept[n \in 0 .. Len(seq)] == IF n = 0 THEN << >>
                           ELSE IF seq[n].ref \in refs THEN kept[n - 1]
                           ELSE Append(kept[n - 1], seq[n])
    IN  IF broker = "kite" THEN seq ELSE kept[Len(seq)]

\* register_intent: not for an anchored ref; a known ref changes its shape in
\* place; the oldest goes when there are too many.
register_intent(r, key) ==
    IF r \in anchored THEN pending
    ELSE IF \E i \in DOMAIN pending : pending[i].ref = r
      THEN [i \in DOMAIN pending |->
              IF pending[i].ref = r THEN [pending[i] EXCEPT !.key = key] ELSE pending[i]]
    ELSE LET longer == Append(pending, [ref |-> r, key |-> key])
         IN  IF Len(longer) > kMaxPendingIntents THEN Tail(longer) ELSE longer

\* The list is full: registering r forgets the oldest intent.
Evicts(r) ==
    /\ broker = "kotak" /\ Len(pending) = kMaxPendingIntents
    /\ r \notin anchored /\ \A i \in DOMAIN pending : pending[i].ref # r

\* What a mutation registers before the broker is contacted.
register_tag(r, tag) == IF broker = "kite" THEN Bind(tags, tag, r) ELSE tags
Register(r, tag, key) ==
    /\ tags' = register_tag(r, tag)
    /\ pending' = IF broker = "kotak" THEN register_intent(r, key) ELSE pending
    /\ forgot' = (forgot \/ Evicts(r))
    /\ UNCHANGED <<ids, anchored>>

\* anchor / id_to_ref_[order_id] = client_ref.
anchor(i, r) ==
    /\ ids' = Bind(ids, i, r)
    /\ anchored' = IF broker = "kotak" THEN anchored \cup {r} ELSE anchored
    /\ pending' = drop_pending(pending, {r})
    /\ UNCHANGED tags

-----------------------------------------------------------------------------
(* The answers that leave the order's fate open, by the comments of the    *)
(* two maps: no answer, a throttle and a failing gateway whatever the body *)
(* says; a body that is no envelope, at any status (a proxy may replace    *)
(* the answer to an accepted order); a verdict that is itself uncertain.   *)
MayBeLive(b, a) ==
    \/ a.status \in {0, 429, 500}
    \/ a.verdict \in {"none", "throttle", "timeout"}
    \/ b = "kite" /\ a.verdict = "order"

mutation_error(b, a) ==
    IF b = "kite" THEN kite_mutation_error(a) ELSE kotak_mutation_error(a)

\* The errors a caller of each broker can be told, of any order and of a live one.
ErrorsOf == [b \in {"kite", "kotak"} |-> [live \in BOOLEAN |->
               {mutation_error(b, a) : a \in {x \in Answer : live => MayBeLive(b, x)}}]]
ErrorsFor(live) == ErrorsOf[broker][live]
DeadOnly(e) == e \notin ErrorsFor(TRUE)

\* The definitive errors that do not settle the order's fate: Kite lets the
\* error_type and the statuses 401, 403 and 429 decide before the status 5xx,
\* Kotak calls a bare 400 invalid and a bare 401 a dead session.
MayHideLive ==
    {Error("SessionExpired", "ReEstablishSession")}
        \cup IF broker = "kite"
             THEN {Error("RateLimited", "RetrySafe"), Error("InsufficientFunds", "DoNotRetry")}
             ELSE {Error("Validation", "DoNotRetry")}

-----------------------------------------------------------------------------
Idle == [op |-> "none"]
NoFetch == [op |-> "none"]
NoResult == [parent |-> 0, out |-> "none", need |-> 0]

\* One of the behaviour's remaining uses of an action.
Spend(k) == left[k] > 0 /\ left' = [left EXCEPT ![k] = @ - 1]

Room == Len(book) + Cardinality(late) < MaxOrders

\* place: register, then send.
Place(r) ==
    /\ call = Idle /\ r \notin placed /\ Room /\ Spend("entry")
    /\ placed' = placed \cup {r}
    /\ Register(RefOf(r), short_tag(r), attribute_key("B", EntryQty))
    /\ call' = [op |-> "sent", ref |-> RefOf(r), id |-> 0, need |-> 0,
                row |-> Row("entry", r, 0, "B", EntryQty)]
    /\ UNCHANGED <<broker, book, late, known, fetch, result, refused, blind>>

\* The request reaches the broker while its caller waits.
Arrive ==
    /\ call.op = "sent" /\ call.id = 0
    /\ book' = Append(book, call.row)
    /\ call' = [call EXCEPT !.id = Len(book) + 1]
    /\ UNCHANGED <<broker, late, maps, placed, known, fetch, result, history, left>>

\* A request whose caller gave up reaches the broker after all.
ArriveLate ==
    /\ \E row \in late :
         /\ late' = late \ {row}
         /\ book' = Append(book, row)
    /\ UNCHANGED <<broker, maps, placed, known, call, fetch, result, history, left>>

Returned(out) ==
    IF call.row.kind = "exit"
    THEN [parent |-> call.row.parent, out |-> out, need |-> call.need]
    ELSE result

\* The acknowledgement with the order id.
PlaceAck ==
    /\ call.op = "sent" /\ call.id # 0
    /\ anchor(call.id, call.ref)
    /\ known' = IF call.row.kind = "entry" THEN Bind(known, call.id, call.ref) ELSE known
    /\ call' = Idle
    /\ result' = Returned("ok")
    /\ UNCHANGED <<broker, book, late, placed, fetch, history, left>>

\* An acknowledgement without an id: Unknown for an entry, which stays
\* registered; the flatten says ok, the exit being accepted.
PlaceAckNoId ==
    /\ call.op = "sent" /\ call.id # 0
    /\ call' = Idle
    /\ result' = Returned("ok")
    /\ UNCHANGED <<broker, book, late, maps, placed, known, fetch, history, left>>

\* An error.  Only a definitive one retires Kotak's registration, and with it
\* the means to name an order that is live all the same.  A request that has not
\* arrived may still be under way, unless the error is the broker's own no.
PlaceError(e) ==
    /\ call.op = "sent"
    /\ e \in ErrorsFor(call.id # 0)
    /\ pending' = IF is_ambiguous_outcome(e) THEN pending
                  ELSE drop_pending(pending, {call.ref})
    /\ late' \in IF call.id = 0 /\ ~DeadOnly(e) THEN {late, late \cup {call.row}} ELSE {late}
    /\ refused' = IF \/ is_ambiguous_outcome(e) \/ e \in MayHideLive
                     \/ call.row.kind = "exit"
                  THEN refused ELSE refused \cup {call.row.ref}
    /\ forgot' = (\/ forgot
                  \/ /\ broker = "kotak" /\ ~is_ambiguous_outcome(e)
                     /\ call.id # 0 \/ call.row \in late')
    /\ call' = Idle
    /\ result' = Returned("error")
    /\ UNCHANGED <<broker, book, ids, tags, anchored, placed, known, fetch, blind, left>>

\* modify of an order the engine knows by id: registered first, anchored on
\* success (the id falls back to the one given), dropped on a definitive error,
\* which may have been applied like an ambiguous one.
Modify(i, q, out) ==
    /\ call = Idle /\ i \in DOMAIN known /\ book[i].kind = "entry" /\ Spend("modify")
    /\ LET r == known[i]
           registered == IF broker = "kotak"
                         THEN register_intent(r, attribute_key("B", q)) ELSE pending
       IN  /\ tags' = register_tag(r, short_tag(r.ref))
           /\ forgot' = (forgot \/ Evicts(r))
           /\ out = "ok" => book[i].status = "working"
           /\ ids' = IF out = "ok" THEN Bind(ids, i, r) ELSE ids
           /\ anchored' = IF out = "ok" /\ broker = "kotak"
                          THEN anchored \cup {r} ELSE anchored
           /\ pending' = IF out = "ambiguous" THEN registered
                         ELSE drop_pending(registered, {r})
           /\ \/ /\ book' = [book EXCEPT ![i].qty = q]
                 /\ book[i].status = "working" /\ q > book[i].filled
              \/ book' = book /\ out \in {"ambiguous", "refused"}
    /\ UNCHANGED <<broker, late, placed, known, call, fetch, result, refused, blind>>

-----------------------------------------------------------------------------
(* Reading rows.  A read may find one row with a field it cannot use; the  *)
(* last two of these fields matter to the flatten only.                    *)
FetchFaults == {"malformed", "status", "noqty"}
                   \cup (IF AbsentFill \/ broker = "kotak" THEN {"nofill"} ELSE {})
Faults == FetchFaults \cup {"noside", "noexchange"}
Sound == [row |-> 0, fault |-> "none"]
Reads(faults) == {Sound} \cup [row : DOMAIN book, fault : faults]
Absent == -1

Faulty(bad, i, f) == bad.row = i /\ bad.fault = f

\* Mutant of read_row: an absent total is read as zero.
ReadRowZeroTotal(rows, bad, i) ==
    [status |-> IF Faulty(bad, i, "status") THEN "weird" ELSE rows[i].status,
     qty |-> IF Faulty(bad, i, "noqty") THEN 0 ELSE rows[i].qty,
     filled |-> rows[i].filled, side |-> rows[i].side,
     malformed |-> Faulty(bad, i, "malformed")]

\* read_broker_row (Kite) and read_order_row (Kotak).  An absent total stays
\* absent; an absent fill is zero to Kite and absent to Kotak.
read_row(rows, bad, i) ==
    [status |-> IF Faulty(bad, i, "status") THEN "weird" ELSE rows[i].status,
     qty    |-> IF Faulty(bad, i, "noqty") THEN Absent ELSE rows[i].qty,
     filled |-> IF ~Faulty(bad, i, "nofill") THEN rows[i].filled
                ELSE IF broker = "kite" THEN 0 ELSE Absent,
     side   |-> IF Faulty(bad, i, "noside") THEN "?" ELSE rows[i].side,
     malformed |-> Faulty(bad, i, "malformed")]

\* Kite's map_status: by the status alone.
map_status(status) ==
    CASE status = "complete"  -> "Filled"
      [] status = "rejected"  -> "Rejected"
      [] status = "cancelled" -> "Cancelled"
      [] status = "working"   -> "Sent"
      [] OTHER                -> "Unknown"

\* Kotak's map_order_state: the classified status, then the quantities; never
\* terminal on an absent total unless the status says complete and it filled.
map_order_state(status, filled, total) ==
    CASE status \notin {"working", "complete", "rejected", "cancelled"} -> "Unknown"
      [] status = "rejected"  -> "Rejected"
      [] status = "cancelled" -> "Cancelled"
      [] status = "complete"  ->
           IF total = Absent THEN IF filled > 0 THEN "Filled" ELSE "Unknown"
           ELSE normalize_fill("complete", filled, total, TRUE).canonical_state
      [] status = "working"   ->
           IF total = Absent THEN IF filled > 0 THEN "PartiallyFilled" ELSE "Acknowledged"
           ELSE normalize_fill("working", filled, total, TRUE).canonical_state

Reported(v) == IF broker = "kite" THEN map_status(v.status)
               ELSE map_order_state(v.status, v.filled, v.qty)

\* What fetch_orders publishes as the state of a row.
PublishedState(rows, bad, i) ==
    LET v == read_row(rows, bad, i)
    IN  IF v.malformed \/ v.filled = Absent THEN "Unknown" ELSE Reported(v)

-----------------------------------------------------------------------------
(* fetch_orders: the read, then the correlation against the maps.          *)
FetchRead(bad) ==
    /\ fetch = NoFetch /\ Spend("fetch")
    /\ fetch' = [op |-> "read", rows |-> book, bad |-> bad]
    /\ UNCHANGED <<broker, book, late, maps, placed, known, call, result, history>>

\* An unreadable quantity is the "?" of attribute_key.
RowKey(i) == attribute_key(fetch.rows[i].side,
                           IF fetch.bad = [row |-> i, fault |-> "noqty"]
                           THEN 0 ELSE fetch.rows[i].qty)
Unmatched == {i \in DOMAIN fetch.rows : ref_for_id(i) = NoRef}
Candidates(key) == {p \in Range(pending) : p.key = key}

\* Mutant of Corroborated: any pending intent of the shape will do.
CorroboratedFirst(i) ==
    /\ ~Faulty(fetch.bad, i, "malformed")
    /\ Candidates(RowKey(i)) # {}

\* The weak rung: one unmatched row and one pending intent share the shape.
Corroborated(i) ==
    /\ ~Faulty(fetch.bad, i, "malformed")
    /\ Cardinality({j \in Unmatched : RowKey(j) = RowKey(i)}) = 1
    /\ Cardinality(Candidates(RowKey(i))) = 1

SoleRef(i) == (CHOOSE p \in Candidates(RowKey(i)) : TRUE).ref

Correlate == [i \in DOMAIN fetch.rows |->
    IF broker = "kite" THEN recover_client_ref(i, TagOf(fetch.rows[i]))
    ELSE IF i \in Unmatched /\ Corroborated(i) THEN SoleRef(i) ELSE ref_for_id(i)]

FetchApply ==
    /\ fetch.op = "read"
    /\ LET refs == Correlate
           new == {i \in Unmatched : broker = "kotak" /\ refs[i] # NoRef}
       IN  /\ ids' = [i \in DOMAIN ids \cup new |-> IF i \in new THEN refs[i] ELSE ids[i]]
           /\ anchored' = anchored \cup {refs[i] : i \in new}
           /\ pending' = drop_pending(pending, {refs[i] : i \in new})
           /\ known' = [i \in DOMAIN known \cup
                              {j \in DOMAIN refs : refs[j] # NoRef /\ ~refs[j].exit} |->
                          IF i \in DOMAIN known THEN known[i] ELSE refs[i]]
    /\ fetch' = NoFetch
    /\ UNCHANGED <<broker, book, late, tags, placed, call, result, history, left>>

-----------------------------------------------------------------------------
(* square_off.  It reads the book once, cancels the working remainder, and *)
(* places one exit unless it finds one.                                    *)
SnapOf(v) == normalize_fill(IF Reported(v) = "Filled" THEN "complete" ELSE "working",
                            v.filled, v.qty, TRUE)

\* Rows of the snapshot that carry the parent's exit tag (Kite).
Tagged(rows, p) == {i \in DOMAIN rows \ {p} : TagOf(rows[i]) = exit_tag_for(p)}
LastTagged(rows, p) == CHOOSE i \in Tagged(rows, p) : \A j \in Tagged(rows, p) : j <= i

\* Mutant of KiteRefuses: the tag of the row is not looked at.
KiteRefusesNoTag(rows, bad, p) ==
    LET v == read_row(rows, bad, p)
    IN  v.malformed \/ v.qty = Absent \/ map_status(v.status) = "Unknown"

\* What square_off refuses before it has touched anything (Kite).
KiteRefuses(rows, bad, p) ==
    LET v == read_row(rows, bad, p)
    IN  \/ is_exit_tag(TagOf(rows[p]))
        \/ v.malformed
        \/ Tagged(rows, p) # {} /\ read_row(rows, bad, LastTagged(rows, p)).malformed
        \/ map_status(v.status) = "Unknown"
        \/ v.qty = Absent
        \/ exit_qty_for(SnapOf(v)) > 0 /\ (v.side = "?" \/ Faulty(bad, p, "noexchange"))

\* What square_off refuses before it has touched anything (Kotak).
KotakRefuses(rows, bad, p) ==
    LET v == read_row(rows, bad, p)
    IN  \/ v.malformed
        \/ v.filled = Absent
        \/ is_exit_ref(ref_for_id(p))
        \/ Reported(v) = "Unknown"
        \/ v.qty = Absent

\* Mutant of Terminal: the broker's word for complete is enough.
TerminalByRequest(v) == Reported(v) # "Unknown" /\ v.filled > 0

\* Nothing is left to cancel.
Terminal(v) == \/ Reported(v) \in {"Cancelled", "Rejected"}
               \/ SnapOf(v).canonical_state = "Filled"

SquareOff(p, bad) ==
    /\ call = Idle /\ book[p].kind # "foreign" /\ Room /\ Spend("flatten")
    /\ LET v == read_row(book, bad, p)
       IN  IF IF broker = "kite" THEN KiteRefuses(book, bad, p) ELSE KotakRefuses(book, bad, p)
           THEN /\ result' = [parent |-> p, out |-> "error", need |-> 0]
                /\ call' = Idle
           ELSE /\ result' = NoResult
                /\ call' = [op |-> IF Terminal(v) THEN "decide" ELSE "cancel",
                            parent |-> p, rows |-> book, bad |-> bad,
                            need |-> exit_qty_for(SnapOf(v))]
    /\ UNCHANGED <<broker, book, late, maps, placed, known, fetch, history>>

\* The cancel: done, already gone, or an error that may have been applied.
Cancel(out) ==
    /\ call.op = "cancel"
    /\ LET p == call.parent
           working == book[p].status = "working"
       IN  /\ out = "ok" => working
           /\ out = "notfound" => ~working
           /\ \/ /\ out \in {"ok", "error"} /\ working
                 /\ book' = [book EXCEPT ![p].status = "cancelled"]
              \/ out \in {"notfound", "error"} /\ book' = book
           /\ IF out = "error"
              THEN /\ call' = Idle
                   /\ result' = [parent |-> p, out |-> "error", need |-> call.need]
              ELSE call' = [call EXCEPT !.op = "decide"] /\ UNCHANGED result
    /\ UNCHANGED <<broker, late, maps, placed, known, fetch, history, left>>

\* Mutant of JudgeExit: the size of the exit is not compared with the fill.
JudgeExitAnySize(v, need) == IF v.malformed THEN "error" ELSE "ok"

\* An exit that is known to be ours: dead or unreadable is an error, and so is
\* one that is smaller than the fill.
JudgeExit(v, need) ==
    IF \/ v.status \notin {"working", "complete"}
       \/ v.malformed \/ v.qty = Absent \/ v.qty < need
    THEN "error" ELSE "ok"

\* Mutant of KiteExit: the tagged row is not looked for.
KiteExitIgnored(c) == "none"

\* Kite: the last row that carries the exit's tag.
KiteExit(c) ==
    IF Tagged(c.rows, c.parent) = {} THEN "none"
    ELSE JudgeExit(read_row(c.rows, c.bad, LastTagged(c.rows, c.parent)), c.need)

exit_side_for(side) == IF side = "B" THEN "S" ELSE "B"

\* Kotak's attribute rung over rows not bound to anything else.
Rung2(c, exit_ref) ==
    {i \in DOMAIN c.rows \ {c.parent} :
       LET v == read_row(c.rows, c.bad, i) IN
       /\ ~v.malformed
       /\ ref_for_id(i) \in {NoRef, exit_ref}
       /\ v.side = exit_side_for(c.rows[c.parent].side)
       /\ v.qty > 0 /\ v.qty <= c.need
       /\ v.status \in {"working", "complete"}}

Rung1(c, exit_ref) == {i \in DOMAIN c.rows \ {c.parent} : ref_for_id(i) = exit_ref}

\* The rows taken for the exit: the first that bears its name, else every row
\* of its shape.
KotakFound(c, exit_ref) ==
    LET first == Rung1(c, exit_ref)
    IN  IF first # {} THEN {CHOOSE i \in first : \A j \in first : i <= j}
        ELSE Rung2(c, exit_ref)

KotakExit(c, exit_ref) ==
    LET found == KotakFound(c, exit_ref)
    IN  IF read_row(c.rows, c.bad, c.parent).side = "?" THEN "error"
        ELSE IF found = {} THEN "none"
        ELSE IF \E i, j \in found : i # j THEN "error"
        ELSE JudgeExit(read_row(c.rows, c.bad, CHOOSE i \in found : TRUE), c.need)

ExitRows(rows, p) == {i \in DOMAIN rows : rows[i].kind = "exit" /\ rows[i].parent = p}

\* History: the ways in which a flatten of p can fail to see an exit of p, or
\* take another order for it.
BlindSpots(c, exit_ref, outcome) ==
    (IF \/ \E row \in late : row.kind = "exit" /\ row.parent = c.parent
        \/ ~(ExitRows(book, c.parent) \subseteq DOMAIN c.rows) THEN {"late"} ELSE {})
    \cup {IF ref_for_id(i) # NoRef THEN "renamed" ELSE "unreadable" :
            i \in {j \in ExitRows(c.rows, c.parent) :
                     /\ broker = "kotak" /\ ref_for_id(j) # exit_ref
                     /\ j \notin Rung2(c, exit_ref)}}
    \cup (IF /\ broker = "kotak" /\ outcome = "ok"
             /\ KotakFound(c, exit_ref) \cap ExitRows(c.rows, c.parent) = {}
          THEN {"stranger"} ELSE {})

Decide ==
    /\ call.op = "decide"
    /\ LET p == call.parent
           parent_ref == IF broker = "kite" THEN recover_client_ref(p, TagOf(call.rows[p]))
                         ELSE ref_for_id(p)
           exit_ref == exit_client_ref(parent_ref, p)
           side == exit_side_for(call.rows[p].side)
           outcome == IF call.need = 0 THEN "ok"
                      ELSE IF broker = "kite" THEN KiteExit(call)
                      ELSE KotakExit(call, exit_ref)
       IN  /\ blind' = blind \cup {<<p, why>> : why \in
                           IF call.need = 0 THEN {} ELSE BlindSpots(call, exit_ref, outcome)}
           /\ IF outcome = "none"
              THEN /\ Register(exit_ref, exit_tag_for(p), attribute_key(side, call.need))
                   /\ call' = [op |-> "sent", ref |-> exit_ref, id |-> 0, need |-> call.need,
                               row |-> Row("exit", "", p, side, call.need)]
                   /\ UNCHANGED result
              ELSE /\ call' = Idle
                   /\ result' = [parent |-> p, out |-> outcome, need |-> call.need]
                   /\ UNCHANGED <<maps, forgot>>
    /\ UNCHANGED <<broker, book, late, placed, known, fetch, refused, left>>

-----------------------------------------------------------------------------
(* External: the broker and the operator.                                  *)
Fill(i) ==
    /\ book[i].status = "working"
    /\ book' = [book EXCEPT ![i].filled = @ + 1,
                            ![i].status = IF book[i].filled + 1 = book[i].qty
                                          THEN "complete" ELSE "working"]
    /\ UNCHANGED <<broker, late, maps, placed, known, call, fetch, result, history, left>>

Kill(i, status) ==
    /\ book[i].status = "working" /\ book[i].kind # "foreign"
    /\ status = "rejected" => book[i].filled = 0
    /\ book' = [book EXCEPT ![i].status = status]
    /\ UNCHANGED <<broker, late, maps, placed, known, call, fetch, result, history, left>>

Foreign(side, q) ==
    /\ Len(book) + Cardinality(late) + 1 < MaxOrders
    /\ Spend("foreign")
    /\ book' = Append(book, Row("foreign", "", 0, side, q))
    /\ UNCHANGED <<broker, late, maps, placed, known, call, fetch, result, history>>

\* The process dies and a new one starts with empty maps.
Restart ==
    /\ Spend("restart")
    /\ forgot' = TRUE
    /\ ids' = << >> /\ tags' = << >> /\ pending' = << >> /\ anchored' = {}
    /\ late' \in IF call.op = "sent" /\ call.id = 0 THEN {late, late \cup {call.row}} ELSE {late}
    /\ call' = Idle /\ fetch' = NoFetch /\ result' = NoResult
    /\ UNCHANGED <<broker, book, placed, known, refused, blind>>

Init ==
    /\ broker \in Brokers
    /\ book = << >> /\ late = {}
    /\ ids = << >> /\ tags = << >> /\ pending = << >> /\ anchored = {}
    /\ placed = {} /\ known = << >>
    /\ call = Idle /\ fetch = NoFetch /\ result = NoResult
    /\ refused = {} /\ blind = {} /\ forgot = FALSE /\ left \in Budgets

Next ==
    \/ \E r \in Refs : Place(r)
    \/ Arrive \/ ArriveLate
    \/ PlaceAck \/ PlaceAckNoId
    \/ \E e \in ErrorsFor(FALSE) : PlaceError(e)
    \/ \E i \in DOMAIN known, q \in Qtys, out \in {"ok", "ambiguous", "refused"} :
          Modify(i, q, out)
    \/ \E bad \in Reads(FetchFaults) : FetchRead(bad)
    \/ FetchApply
    \/ \E p \in DOMAIN book, bad \in Reads(Faults) : SquareOff(p, bad)
    \/ \E out \in {"ok", "notfound", "error"} : Cancel(out)
    \/ Decide
    \/ \E i \in DOMAIN book : Fill(i)
    \/ \E i \in DOMAIN book, status \in {"rejected", "cancelled"} : Kill(i, status)
    \/ \E side \in {"B", "S"}, q \in Qtys : Foreign(side, q)
    \/ Restart

Spec == Init /\ [][Next]_vars

-----------------------------------------------------------------------------
(* Properties.                                                             *)

\* The shape of the state: the names in the maps are client_refs of entries or
\* of exits, and at most kMaxPendingIntents intents are pending (register_intent).
TypeOK ==
    /\ broker \in Brokers
    /\ \A i \in DOMAIN book : book[i].filled <= book[i].qty
    /\ DOMAIN ids \subseteq DOMAIN book /\ DOMAIN known \subseteq DOMAIN book
    /\ Len(pending) <= kMaxPendingIntents
    /\ refused \subseteq placed /\ placed \subseteq Refs
    /\ call.op \in {"none", "sent", "cancel", "decide"}
    /\ fetch.op \in {"none", "read"}

Blind(p, whys) == \E why \in whys : <<p, why>> \in blind

\* What exit orders of p can still take out of the position, or took.
Taken(i) == IF book[i].status \in {"working", "complete"} THEN book[i].qty ELSE book[i].filled
TotalTaken(S) == LET f[T \in SUBSET S] ==
                       IF T = {} THEN 0
                       ELSE LET i == CHOOSE i \in T : TRUE IN Taken(i) + f[T \ {i}]
                 IN  f[S]

\* A flatten never exits more than the parent filled, however often it is
\* repeated, before and after a restart, while fills and cancels race it: the
\* second square_off finds the first one's exit (square_off_exit.hpp).  The
\* exceptions are a Kotak exit whose name changed or whose row was unusable,
\* and a request that arrives after the book was read.
NeverExitsMoreThanFilled ==
    \A p \in DOMAIN book :
        \/ TotalTaken(ExitRows(book, p)) <= book[p].filled
        \/ Blind(p, {"late", "renamed", "unreadable"})

\* square_off reports success only when the remainder is dead and an exit of at
\* least the fill it measured is at the broker; Kotak may take a stranger's
\* order of the same shape for it (rung 2, or a name fetch_orders gave it).
OkMeansFlat ==
    result.out = "ok" =>
        /\ book[result.parent].status # "working"
        /\ \/ result.need = 0
           \/ \E i \in ExitRows(book, result.parent) : book[i].qty >= result.need
           \/ Blind(result.parent, {"stranger"})

\* No exit is at the broker while the order it exits can still fill: the cancel
\* comes first and its failure ends the flatten (square_off).
ExitOnlyAfterRemainderIsDead ==
    \A i \in DOMAIN book :
        book[i].kind = "exit" => book[book[i].parent].status # "working"

\* Kite recognises its own exit by the tag, after a restart too, and never
\* flattens one (is_exit_tag in square_off); Kotak does while its map lasts.
NoExitOfAnExit ==
    \A i \in DOMAIN book :
        (book[i].kind = "exit" /\ broker = "kite") => book[book[i].parent].kind # "exit"

\* A correlated row is the order its client_ref was placed for.  Kotak's weak
\* rung is right as long as no order is foreign, no exit was itself flattened, no
\* intent was evicted or retired by an error although its order was live, and the
\* process has not restarted (fetch_orders, ref_for_id,
\* recover_client_ref).
Named(i, r) == IF r.exit THEN book[i].kind = "exit"
               ELSE book[i].kind = "entry" /\ book[i].ref = r.ref
CorrelationIsRight ==
    \/ \A i \in DOMAIN ids : Named(i, ids[i])
    \/ /\ broker = "kotak"
       /\ \/ forgot
          \/ \E i \in DOMAIN book : book[i].kind = "foreign"
          \/ \E i \in DOMAIN book : book[i].kind = "exit" /\ book[book[i].parent].kind = "exit"

\* A row is published as terminal only when the order is dead at the broker,
\* whatever field of the row is missing (map_status, map_order_state).
PublishedTerminalIsTerminal ==
    fetch.op = "read" =>
        \A i \in DOMAIN fetch.rows :
            PublishedState(fetch.rows, fetch.bad, i) \in {"Filled", "Rejected", "Cancelled"}
                => book[i].status # "working"

\* An order whose caller was told a definitive error is not at the broker and
\* never gets there, whatever status and body the answer had (map_http_error,
\* map_kotak_error, guard_mutation), unless it is one of the errors of
\* MayHideLive: of Kite's the invalid request, of Kotak's the shortage of funds
\* and the risk refusal can be taken at their word.
DefinitiveMeansNotLive ==
    /\ \A i \in DOMAIN book : book[i].kind = "entry" => book[i].ref \notin refused
    /\ \A row \in late : row.kind = "entry" => row.ref \notin refused

\* square_off as a whole: repeated, raced and restarted it never overshoots, a
\* success means flat, the cancel comes before the exit, and no exit is exited.
FlattenIsSafe ==
    /\ NeverExitsMoreThanFilled
    /\ OkMeansFlat
    /\ ExitOnlyAfterRemainderIsDead
    /\ NoExitOfAnExit

\* What the adapters tell the engine is true of the broker: the name and the
\* terminal state of a fetched row, and a definitive error.
AnswersAreTrue ==
    /\ TypeOK
    /\ CorrelationIsRight
    /\ PublishedTerminalIsTerminal
    /\ DefinitiveMeansNotLive
=============================================================================
