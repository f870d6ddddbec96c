------------------------------- MODULE Dispatch -------------------------------
(***************************************************************************)
(* The write path of the engine: runtime::Dispatcher with the idempotency  *)
(* index, the intent log, the order projection and the UnknownResolver,    *)
(* against a broker reached over an unreliable connection, with crashes    *)
(* and restarts between any two durable steps.                             *)
(*                                                                         *)
(* Dispatch is single threaded and synchronous: one mutation is in flight  *)
(* at a time (pc, cur), and a mutation is a sequence of steps cut where    *)
(* another actor (the broker, a crash) can come between two effects:       *)
(*   append -> send -> wait -> persist -> result -> idle.                  *)
(* The process's memory (index, unsent_refs, last_key, pc, cur) is lost by *)
(* a crash; the log file, the database and the broker's book are not.      *)
(***************************************************************************)
EXTENDS Lifecycle, Sequences, FiniteSets

CONSTANTS Signal,         \* signal signatures (idempotency::signal_signature)
          Ref,            \* client refs; a uuid is never minted twice
          Attr,           \* Signal -> the attributes the resolver's third rung compares
          NoRef,          \* not a ref: no entry in the index
          EchoesRef,      \* TRUE: the broker echoes client_ref; FALSE: the adapter recovers
                          \* it from correlation maps that live in its memory (Kite)
          ReportsAttr,    \* TRUE: fetched orders carry side, quantity and price (not on Kite)
          Moves,          \* bound: the movements of broker orders that are explored
          MaxLog,         \* bound: records in the log
          MaxKey,         \* bound: ordering keys spent on resolutions that were not saved
          MaxCrash        \* bound: crashes

ASSUME ConstantsAssumption ==
  /\ NoRef \notin Ref
  /\ Moves \subseteq {"Sent", "Filled", "Cancelled"}
  /\ MaxLog \in Nat
  /\ MaxKey \in Nat
  /\ MaxCrash \in Nat
  /\ {EchoesRef, ReportsAttr} \subseteq BOOLEAN

VARIABLES
  log,          \* Seq of [op, ref, sig]: the records of the intent log file
  chain,        \* the file's tail: "clean"; a failed append left a fragment ("torn") or
                \* the unsynced record ("whole"); "broken": replay refuses the file
  store,        \* [Ref -> order rows \cup {NoRow}]
  book,         \* Seq of [ref, sig, state, filled]: the broker's orders, the id is the index
  late,         \* requests given up on that may still reach the broker
  up,           \* the process is running
  index,        \* [Signal -> Ref \cup {NoRef}]: IdempotencyIndex::by_signature_
  unsent_refs,  \* Dispatcher::unsent_refs_
  last_key,     \* [Ref -> keys]: LifecycleEngine::last_key_
  tags,         \* refs in the adapter's correlation maps (tag_to_ref_, id_to_ref_)
  minted,       \* refs the uuid generator has produced
  pc,           \* where the mutation in flight is
  cur,          \* the mutation in flight [kind, sig, ref, bid]
  reply,        \* the broker's answer to it: "none", "ok", "refused"
  verdict,      \* what the client made of it: "none", "ack", "unknown", "do_not_retry", "other"
  crashes       \* crashes so far

disk     == <<log, chain, store>>
remote   == <<book, late>>
memory   == <<up, index, unsent_refs, last_key, tags>>
inflight == <<pc, cur, reply, verdict>>
vars     == <<log, chain, store, book, late, up, index, unsent_refs, last_key, tags,
              minted, pc, cur, reply, verdict, crashes>>

NoRow == [state |-> "none"]   \* the table has no row for the ref
NoOp  == [kind |-> "none"]    \* no mutation is in flight

Kind    == {"PlaceOrder", "ModifyOrder", "CancelOrder", "SquareOff"}
Record  == [op : Kind \cup {"Result"}, ref : Ref, sig : Signal]
Request == [kind : Kind, sig : Signal, ref : Ref, bid : Nat]
Booked  == [ref : Ref, sig : Signal, state : OrderState, filled : Nat]

HasRow(r) == store[r] # NoRow

(* The signal-to-ref bindings the log's PlaceOrder records state.          *)
Placements ==
  {<<log[i].sig, log[i].ref>> : i \in {j \in DOMAIN log : log[j].op = "PlaceOrder"}}
Recorded(s, r) == <<s, r>> \in Placements

(* The refs whose placement is at the broker or may still arrive there.    *)
LiveRefs == {book[i].ref : i \in DOMAIN book}
              \cup {q.ref : q \in {p \in late : p.kind = "PlaceOrder"}}
Live(r) == r \in LiveRefs

Init ==
  /\ log = <<>> /\ chain = "clean"
  /\ store = [r \in Ref |-> NoRow]
  /\ book = <<>> /\ late = {}
  /\ up = TRUE
  /\ index = [s \in Signal |-> NoRef]
  /\ unsent_refs = {}
  /\ last_key = [r \in Ref |-> NoKey]
  /\ tags = {}
  /\ minted = {}
  /\ pc = "idle" /\ cur = NoOp /\ reply = "none" /\ verdict = "none"
  /\ crashes = 0

Idle == up /\ pc = "idle"

(* Mutant of Finish: the mutation stays in flight.                         *)
FinishKeepsCur == pc' = "idle" /\ UNCHANGED cur /\ reply' = "none" /\ verdict' = "none"

(* Start the mutation q; Finish returns to the caller.                     *)
Start(q) == pc' = "append" /\ cur' = q /\ UNCHANGED <<reply, verdict>>
Finish   == pc' = "idle" /\ cur' = NoOp /\ reply' = "none" /\ verdict' = "none"

-----------------------------------------------------------------------------
(* The intent log, seen from the dispatcher.  A failed append may leave    *)
(* nothing, a fragment, or the whole unsynced record in the file; the      *)
(* cursor is not advanced, so whatever is appended after such a remainder  *)
(* repeats its sequence number or is glued to the fragment, and replay     *)
(* refuses the file from then on.                                          *)

CurRecord(op) == [op |-> op, ref |-> cur.ref, sig |-> cur.sig]

AppendSynced(rec) ==
  /\ Len(log) < MaxLog
  /\ log' = Append(log, rec)
  /\ chain' = IF chain = "clean" THEN "clean" ELSE "broken"

AppendFailed(rec) ==
  \/ UNCHANGED <<log, chain>>
  \/ /\ chain = "clean" /\ chain' = "torn"
     /\ UNCHANGED log
  \/ /\ chain = "clean" /\ chain' = "whole"
     /\ Len(log) < MaxLog
     /\ log' = Append(log, rec)
  \/ /\ chain \in {"torn", "whole"} /\ chain' = "broken"
     /\ UNCHANGED log

-----------------------------------------------------------------------------
(* The four mutations up to their append.  A repeated signal whose row     *)
(* exists, or whose ref is not in unsent_refs, is answered from memory     *)
(* (Place takes no step): the existing order, or a synthesized UNKNOWN.    *)

(* Mutant: any repeated signal without a row is sent again.                *)
PlaceResends(s) ==
  /\ Idle
  /\ \/ /\ index[s] = NoRef
        /\ \E r \in Ref \ minted :
             /\ ~HasRow(r)
             /\ minted' = minted \cup {r}
             /\ index' = [index EXCEPT ![s] = r]
             /\ Start([kind |-> "PlaceOrder", sig |-> s, ref |-> r, bid |-> NoBid])
     \/ /\ index[s] # NoRef
        /\ ~HasRow(index[s])
        /\ Start([kind |-> "PlaceOrder", sig |-> s, ref |-> index[s], bid |-> NoBid])
        /\ UNCHANGED <<minted, index>>
  /\ UNCHANGED <<disk, remote, up, unsent_refs, last_key, tags, crashes>>

(* Mutant: resuming an unsent signal mints a second ref for it.            *)
PlaceMintsAgain(s) ==
  /\ Idle
  /\ index[s] \in unsent_refs \cup {NoRef}
  /\ \E r \in Ref \ minted :
       /\ ~HasRow(r)
       /\ minted' = minted \cup {r}
       /\ index' = [index EXCEPT ![s] = r]
       /\ Start([kind |-> "PlaceOrder", sig |-> s, ref |-> r, bid |-> NoBid])
  /\ UNCHANGED <<disk, remote, up, unsent_refs, last_key, tags, crashes>>

Place(s) ==
  /\ Idle
  /\ \/ /\ index[s] = NoRef
        /\ \E r \in Ref \ minted :
             /\ ~HasRow(r)
             /\ minted' = minted \cup {r}
             /\ index' = [index EXCEPT ![s] = r]
             /\ Start([kind |-> "PlaceOrder", sig |-> s, ref |-> r, bid |-> NoBid])
     \/ /\ index[s] \in unsent_refs
        /\ ~HasRow(index[s])
        /\ Start([kind |-> "PlaceOrder", sig |-> s, ref |-> index[s], bid |-> NoBid])
        /\ UNCHANGED <<minted, index>>
  /\ UNCHANGED <<disk, remote, up, unsent_refs, last_key, tags, crashes>>

(* place() answers signal s with an UNKNOWN order that no row backs.       *)
SynthesizedUnknown(s) ==
  Idle /\ index[s] # NoRef /\ ~HasRow(index[s]) /\ index[s] \notin unsent_refs

(* The (broker id, ref) pairs a caller can name: from a row, or from the   *)
(* broker's own order list.                                                *)
Named(b, r) == \/ HasRow(r) /\ store[r].bid = b
               \/ b \in DOMAIN book /\ book[b].ref = r

Touch(kind, s, b) ==
  /\ Idle
  /\ index[s] # NoRef
  /\ b # NoBid /\ Named(b, index[s])
  /\ Start([kind |-> kind, sig |-> s, ref |-> index[s], bid |-> b])
  /\ UNCHANGED <<disk, remote, memory, minted, crashes>>

(* None of the three looks at the row before it sends: preflight_modify is *)
(* for the caller to run, and nothing in the repository runs it.           *)
Modify(s, b)    == Touch("ModifyOrder", s, b)
Cancel(s, b)    == Touch("CancelOrder", s, b)
SquareOff(s, b) == Touch("SquareOff", s, b)

-----------------------------------------------------------------------------
(* record -> fsync.  Only a durable record lets the request leave; the     *)
(* adapter registers its correlation tag just before it sends.             *)

(* Mutant: the ref stays in unsent_refs_ after its record is durable.      *)
RecordIntentNoErase ==
  /\ pc = "append"
  /\ AppendSynced(CurRecord(cur.kind))
  /\ tags' = IF cur.kind \in {"PlaceOrder", "ModifyOrder"} THEN tags \cup {cur.ref} ELSE tags
  /\ pc' = "wait"
  /\ UNCHANGED <<store, remote, up, index, unsent_refs, last_key, minted, cur, reply, verdict,
                 crashes>>

RecordIntent ==
  /\ pc = "append"
  /\ AppendSynced(CurRecord(cur.kind))
  /\ unsent_refs' = IF cur.kind = "PlaceOrder" THEN unsent_refs \ {cur.ref} ELSE unsent_refs
  /\ tags' = IF cur.kind \in {"PlaceOrder", "ModifyOrder"} THEN tags \cup {cur.ref} ELSE tags
  /\ pc' = "wait"
  /\ UNCHANGED <<store, remote, up, index, last_key, minted, cur, reply, verdict, crashes>>

(* Mutant: the failed append is not remembered in unsent_refs_.            *)
RecordIntentFailsForgets ==
  /\ pc = "append"
  /\ AppendFailed(CurRecord(cur.kind))
  /\ Finish
  /\ UNCHANGED <<store, remote, memory, minted, crashes>>

(* Mutant: the request leaves although its record is not durable.          *)
RecordIntentFailsSends ==
  /\ pc = "append"
  /\ AppendFailed(CurRecord(cur.kind))
  /\ pc' = "wait"
  /\ UNCHANGED <<store, remote, memory, minted, cur, reply, verdict, crashes>>

RecordIntentFails ==
  /\ pc = "append"
  /\ AppendFailed(CurRecord(cur.kind))
  /\ unsent_refs' = IF cur.kind = "PlaceOrder" THEN unsent_refs \cup {cur.ref} ELSE unsent_refs
  /\ Finish
  /\ UNCHANGED <<store, remote, up, index, last_key, tags, minted, crashes>>

-----------------------------------------------------------------------------
(* The broker (external).  It serves the request in flight at most once,   *)
(* answers it or not, and may still be reached by a request the client     *)
(* has given up on.                                                        *)

Working(b) == b \in DOMAIN book /\ book[b].state \notin Terminal

Acceptable(q) == CASE q.kind = "PlaceOrder" -> TRUE
                   [] q.kind = "SquareOff" -> q.bid \in DOMAIN book
                   [] OTHER -> Working(q.bid)

Served(q) ==
  CASE q.kind = "PlaceOrder" ->
         Append(book, [ref |-> q.ref, sig |-> q.sig, state |-> "Sent", filled |-> 0])
    [] q.kind \in {"CancelOrder", "SquareOff"} /\ Working(q.bid) ->
         [book EXCEPT ![q.bid].state = "Cancelled"]
    [] OTHER -> book

BrokerAccepts ==
  /\ pc = "wait" /\ reply = "none"
  /\ Acceptable(cur)
  /\ book' = Served(cur)
  /\ reply' = "ok"
  /\ cur' = IF cur.kind = "PlaceOrder" THEN [cur EXCEPT !.bid = Len(book) + 1] ELSE cur
  /\ UNCHANGED <<disk, late, memory, minted, pc, verdict, crashes>>

BrokerRefuses ==
  /\ pc = "wait" /\ reply = "none"
  /\ reply' = "refused"
  /\ UNCHANGED <<disk, remote, memory, minted, pc, cur, verdict, crashes>>

LateArrival(q) ==
  /\ late' = late \ {q}
  /\ book' = IF Acceptable(q) THEN Served(q) ELSE book
  /\ UNCHANGED <<disk, memory, minted, inflight, crashes>>

(* A fill or an end the exchange reports; Kite spells every working order  *)
(* Sent, whatever its fill.                                                *)
BrokerMoves(b, st) ==
  /\ Working(b)
  /\ book' = [book EXCEPT ![b].state = st,
                          ![b].filled = CASE st = "Sent" -> 1 [] st = "Filled" -> 2 [] OTHER -> @]
  /\ book' # book
  /\ UNCHANGED <<disk, late, memory, minted, inflight, crashes>>

-----------------------------------------------------------------------------
(* What broker_.place/modify/cancel/square_off returns, as                 *)
(* is_reconcile_first and the dispatcher's branches read it.               *)

Returns(v) ==
  /\ pc = "wait"
  /\ pc' = "persist"
  /\ verdict' = v
  /\ UNCHANGED <<disk, book, memory, minted, cur, reply, crashes>>

Acked == reply = "ok" /\ Returns("ack") /\ UNCHANGED late

(* Mutant: a timeout is read as a rejection.                               *)
RejectsTimeout(v) ==
  /\ v \in {"do_not_retry", "other"} /\ Returns(v)
  /\ late' \in IF reply = "none" THEN {late, late \cup {cur}} ELSE {late}

(* A verdict: DoNotRetry, or an error with neither that action nor         *)
(* ReconcileFirst (a rate limit, an expired session).  Nothing is live.    *)
Rejects(v) == reply # "ok" /\ v \in {"do_not_retry", "other"} /\ Returns(v) /\ UNCHANGED late

(* A timeout, a network failure, an ambiguous answer.                      *)
Ambiguous ==
  /\ Returns("unknown")
  /\ late' \in IF reply = "none" THEN {late, late \cup {cur}} ELSE {late}

-----------------------------------------------------------------------------
(* The projection and the Result record.                                   *)

PlacedOrder ==
  CASE verdict = "ack" ->
         apply([state |-> "Sent", filled |-> 0, bid |-> NoBid], last_key[cur.ref],
               [state |-> "Acknowledged", filled |-> 0, bid |-> cur.bid, key |-> 1])
    [] verdict = "unknown" ->
         [order |-> [state |-> "Unknown", filled |-> 0, bid |-> NoBid], key |-> last_key[cur.ref]]
    [] OTHER ->
         [order |-> [state |-> "Rejected", filled |-> 0, bid |-> NoBid], key |-> last_key[cur.ref]]

PersistPlace ==
  /\ pc = "persist" /\ cur.kind = "PlaceOrder"
  /\ last_key' = [last_key EXCEPT ![cur.ref] = PlacedOrder.key]
  /\ \/ /\ ~HasRow(cur.ref)
        /\ store' = [store EXCEPT ![cur.ref] = PlacedOrder.order]
        /\ pc' = "result" /\ UNCHANGED <<cur, reply, verdict>>
     \/ UNCHANGED store /\ Finish          \* insert_order failed
  /\ UNCHANGED <<log, chain, remote, up, index, unsent_refs, tags, minted, crashes>>

ModifiedOrder ==
  LET base == IF HasRow(cur.ref) THEN store[cur.ref]
              ELSE [state |-> "Acknowledged", filled |-> 0, bid |-> NoBid]
      preack == {"Unknown", "Created", "Validated", "PendingSend", "Sent"}
  IN  [base EXCEPT !.bid = cur.bid,
                   !.state = CASE verdict = "unknown" -> "Unknown"
                               [] verdict = "ack" /\ base.state \in preack -> "Acknowledged"
                               [] OTHER -> base.state]

PersistModify ==
  /\ pc = "persist" /\ cur.kind = "ModifyOrder"
  /\ \/ /\ store' = IF verdict \in {"ack", "unknown"}
                     THEN [store EXCEPT ![cur.ref] = ModifiedOrder] ELSE store
        /\ pc' = "result" /\ UNCHANGED <<cur, reply, verdict>>
     \/ UNCHANGED store /\ Finish          \* find_order or upsert_order failed
  /\ UNCHANGED <<log, chain, remote, memory, minted, crashes>>

(* Mutant: no is_terminal check.                                           *)
MarksUnknownAny == verdict = "unknown" /\ HasRow(cur.ref)

(* cancel and square_off touch the row only when the outcome is            *)
(* ambiguous; a row that cannot be read is treated as absent.              *)
MarksUnknown == verdict = "unknown" /\ HasRow(cur.ref) /\ ~is_terminal(store[cur.ref].state)

(* Mutant: an unanswered cancel is booked as done.                         *)
PersistCancelAssumed ==
  /\ pc = "persist" /\ cur.kind \in {"CancelOrder", "SquareOff"}
  /\ store' = IF MarksUnknown THEN [store EXCEPT ![cur.ref].state = "Cancelled"] ELSE store
  /\ pc' = "result"
  /\ UNCHANGED <<log, chain, remote, memory, minted, cur, reply, verdict, crashes>>

PersistCancel ==
  /\ pc = "persist" /\ cur.kind \in {"CancelOrder", "SquareOff"}
  /\ \/ /\ MarksUnknown
        /\ store' = [store EXCEPT ![cur.ref].state = "Unknown"]
        /\ pc' = "result" /\ UNCHANGED <<cur, reply, verdict>>
     \/ /\ UNCHANGED store                 \* nothing to mark, or find_order failed
        /\ pc' = "result" /\ UNCHANGED <<cur, reply, verdict>>
     \/ /\ MarksUnknown                    \* upsert_order failed
        /\ UNCHANGED store /\ Finish
  /\ UNCHANGED <<log, chain, remote, memory, minted, crashes>>

RecordResult ==
  /\ pc = "result"
  /\ AppendSynced(CurRecord("Result")) \/ AppendFailed(CurRecord("Result"))
  /\ Finish
  /\ UNCHANGED <<store, remote, memory, minted, crashes>>

-----------------------------------------------------------------------------
(* UnknownResolver::resolve on the row of signal s.  The client_ref of a   *)
(* fetched order is the broker's echo, or what the correlation maps of     *)
(* this process still know.                                                *)

(* Mutant of AttrMatch: any order will do.                                 *)
AttrMatchAny(s) == {b \in DOMAIN book : ReportsAttr}

ReportedRef(b) == IF EchoesRef \/ book[b].ref \in tags THEN book[b].ref ELSE NoRef

IdMatch(s)    == {b \in DOMAIN book : b = store[index[s]].bid}
TokenMatch(s) == {b \in DOMAIN book : ReportedRef(b) = index[s]}
AttrMatch(s)  == {b \in DOMAIN book : ReportsAttr /\ Attr[book[b].sig] = Attr[s]}

classify(s) == IF IdMatch(s) # {} THEN IdMatch(s)
               ELSE IF TokenMatch(s) # {} THEN TokenMatch(s)
               ELSE AttrMatch(s)

(* adopt: the view gets a key above every key seen for the order.          *)
Adopted(r, b) ==
  apply(store[r], last_key[r],
        [state |-> book[b].state, filled |-> book[b].filled, bid |-> b,
         key |-> IF last_key[r] = NoKey THEN 1 ELSE last_key[r] + 1])

Unresolved(s) == Idle /\ index[s] # NoRef /\ store[index[s]].state = "Unknown"

(* With no match, or when the fetch fails, the resolver changes nothing.   *)
Resolve(s, saved) ==
  /\ Unresolved(s)
  /\ \E b \in classify(s) :
       LET r == index[s]
           a == Adopted(r, b)
       IN  /\ last_key' = [last_key EXCEPT ![r] = a.key]
           /\ IF saved
                THEN store' = [store EXCEPT ![r] =
                                 [a.order EXCEPT !.bid = IF @ = NoBid THEN b ELSE @]]
                ELSE last_key[r] < MaxKey /\ UNCHANGED store
  /\ UNCHANGED <<log, chain, remote, up, index, unsent_refs, tags, minted, inflight, crashes>>

-----------------------------------------------------------------------------
(* A crash loses the process's memory; a request that was on its way may   *)
(* still arrive.                                                           *)
Crash ==
  /\ up
  /\ crashes < MaxCrash /\ crashes' = crashes + 1
  /\ up' = FALSE
  /\ index' = [s \in Signal |-> NoRef]
  /\ unsent_refs' = {}
  /\ last_key' = [r \in Ref |-> NoKey]
  /\ tags' = {}
  /\ late' \in IF pc = "wait" /\ reply = "none" THEN {late, late \cup {cur}} ELSE {late}
  /\ Finish
  /\ UNCHANGED <<disk, book, minted>>

(* Mutant of RebuildFromLog: the boot does not call it.                    *)
RebuildSkipped(records) == index' = [s \in Signal |-> NoRef]

(* IdempotencyIndex::rebuild_from_log: the earliest PlaceOrder record of a *)
(* signal owns the mapping.                                                *)
OwnedBy(records, s, r) ==
  \E i \in DOMAIN records :
     /\ records[i].op = "PlaceOrder" /\ records[i].sig = s /\ records[i].ref = r
     /\ \A j \in 1 .. (i - 1) : ~(records[j].op = "PlaceOrder" /\ records[j].sig = s)

RebuildFromLog(records) ==
  /\ index' \in [Signal -> Ref \cup {NoRef}]
  /\ \A s \in Signal :
       \/ OwnedBy(records, s, index'[s])
       \/ /\ index'[s] = NoRef
          /\ ~ \E i \in DOMAIN records : records[i].op = "PlaceOrder" /\ records[i].sig = s

(* Replay and rebuild.  A fragment is cut off; an unsynced record is there *)
(* after a process crash and may be gone after a power cut; a broken chain *)
(* refuses the boot.  A damaged projection is dropped and recreated empty. *)
Restart ==
  /\ ~up
  /\ chain # "broken"
  /\ \/ UNCHANGED log
     \/ chain = "whole" /\ log' = SubSeq(log, 1, Len(log) - 1)
  /\ chain' = "clean"
  /\ RebuildFromLog(log')
  /\ \/ UNCHANGED store
     \/ store' = [r \in Ref |-> NoRow]
  /\ up' = TRUE
  /\ UNCHANGED <<remote, unsent_refs, last_key, tags, minted, inflight, crashes>>

-----------------------------------------------------------------------------
Step ==
  \/ RecordIntent \/ RecordIntentFails
  \/ Acked \/ (\E v \in {"do_not_retry", "other"} : Rejects(v)) \/ Ambiguous
  \/ PersistPlace \/ PersistModify \/ PersistCancel \/ RecordResult

Caller ==
  \/ \E s \in Signal : Place(s)
  \/ \E s \in Signal, b \in 1 .. Len(book) : Modify(s, b) \/ Cancel(s, b) \/ SquareOff(s, b)

Broker ==
  \/ BrokerAccepts \/ BrokerRefuses
  \/ \E q \in late : LateArrival(q)
  \/ \E b \in DOMAIN book, st \in Moves : BrokerMoves(b, st)

Next ==
  \/ Caller \/ Step \/ Broker
  \/ \E s \in Signal, saved \in BOOLEAN : Resolve(s, saved)
  \/ Crash \/ Restart

Spec == Init /\ [][Next]_vars

-----------------------------------------------------------------------------
(* Properties.                                                             *)

(* Every variable keeps its type; the mutation in flight is complete       *)
(* whenever one is in flight.                                              *)
TypeOK ==
  /\ log \in Seq(Record) /\ chain \in {"clean", "torn", "whole", "broken"}
  /\ store \in [Ref -> Orders \cup {NoRow}]
  /\ book \in Seq(Booked) /\ late \subseteq Request
  /\ up \in BOOLEAN
  /\ index \in [Signal -> Ref \cup {NoRef}]
  /\ unsent_refs \subseteq Ref /\ tags \subseteq Ref /\ minted \subseteq Ref
  /\ last_key \in [Ref -> Nat \cup {NoKey}]
  /\ pc \in {"idle", "append", "wait", "persist", "result"}
  /\ IF pc = "idle" THEN cur = NoOp ELSE up /\ cur \in Request
  /\ reply \in {"none", "ok", "refused"}
  /\ verdict \in {"none", "ack", "unknown", "do_not_retry", "other"}
  /\ crashes \in Nat

(* The duplicate-submit guard of Dispatcher::place: however signals are    *)
(* repeated, answers lost, stores damaged and processes restarted, the     *)
(* broker never gets two orders for one signal, counting the requests that *)
(* may still arrive.                                                       *)
AtMostOneOrderPerSignal ==
  /\ \A i, j \in DOMAIN book : book[i].sig = book[j].sig => i = j
  /\ \A i \in DOMAIN book, q \in late : q.kind = "PlaceOrder" => book[i].sig # q.sig
  /\ \A p, q \in late :
       p.kind = "PlaceOrder" /\ q.kind = "PlaceOrder" /\ p.sig = q.sig => p = q

(* Record before send: an order the broker has, or may still get, is       *)
(* enumerable from the intent log under the signal it was placed for.      *)
SentIsRecorded ==
  /\ \A i \in DOMAIN book : Recorded(book[i].sig, book[i].ref)
  /\ \A q \in late : q.kind = "PlaceOrder" => Recorded(q.sig, q.ref)

(* The running index and the log never name two refs for one signal: what  *)
(* a restart would rebuild is what place() uses now.                       *)
IndexAgreesWithLog ==
  up => \A s \in Signal, r \in Ref : Recorded(s, r) => index[s] = r

(* unsent_refs_ licenses a send: no ref in it is live at the broker, so    *)
(* resuming it cannot place a second order.                                *)
UnsentNeverSent == \A r \in unsent_refs : ~Live(r)

(* place() answers a repeated signal with an UNKNOWN order that no row     *)
(* backs only if the intent is durable, so the order can be enumerated and *)
(* is not a position the strategy never opened.                            *)
UnknownAnswerIsRecorded ==
  \A s \in Signal : SynthesizedUnknown(s) => Recorded(s, index[s])

(* A row the dispatcher closed as Rejected has no order at the broker and  *)
(* none on its way.                                                        *)
RejectedIsNotLive == \A r \in Ref : store[r].state = "Rejected" => ~Live(r)

(* b is the order of ref r, or one that the resolver's third rung cannot   *)
(* tell from it: of the same attributes as the intent recorded under r.    *)
OwnOrAlike(b, r) ==
  /\ b \in DOMAIN book
  /\ \/ book[b].ref = r
     \/ ReportsAttr /\ \E s \in Signal : Recorded(s, r) /\ Attr[book[b].sig] = Attr[s]

(* Whatever was adopted, modified and cancelled under it since, and across *)
(* restarts, the broker id a row carries is its own order's or that of an  *)
(* order of equal attributes, never any other.                             *)
AdoptedIsOwnOrAlike ==
  \A r \in Ref : (HasRow(r) /\ store[r].bid # NoBid) => OwnOrAlike(store[r].bid, r)

(* unknown_resolver.hpp:27-31: the third rung is "gated by a time window   *)
(* and used ONLY when both ids are absent", so that the broker id a row    *)
(* carries is its own order's.                                             *)
AdoptedIdIsOwn ==
  \A r \in Ref : (HasRow(r) /\ store[r].bid # NoBid) =>
    store[r].bid \in DOMAIN book /\ book[store[r].bid].ref = r

(* lifecycle.hpp:95-96: "An order in a terminal state never moves again"   *)
(* (short of the projection being dropped).                                *)
TerminalAbsorbing ==
  [][\A r \in Ref : is_terminal(store[r].state) =>
       store'[r] = NoRow \/ store'[r].state = store[r].state]_vars

(* Of all that may touch a row (fills, late acknowledgements, ambiguous    *)
(* cancels and square-offs, the resolver), only the ambiguous answer to a  *)
(* modify takes it out of a terminal state, and it leaves it Unknown.      *)
OnlyModifyReopens ==
  [][\A r \in Ref : is_terminal(store[r].state) =>
       \/ store'[r] = NoRow \/ store'[r].state = store[r].state
       \/ /\ pc = "persist" /\ cur.kind = "ModifyOrder" /\ cur.ref = r /\ verdict = "unknown"
          /\ store'[r].state = "Unknown"]_vars

(* A terminal row is final truth: it agrees with the broker's order for    *)
(* good, whatever late requests still do.                                  *)
TerminalAgreesWithBroker ==
  \A r \in Ref : store[r].state \in {"Filled", "Cancelled"} =>
    \E b \in DOMAIN book : book[b].ref = r /\ book[b].state = store[r].state

(* A resolution that found an order and was saved settles the row, however *)
(* the broker spells the order's state, whatever views were applied before *)
(* and whatever earlier attempts were not saved: the row is Unknown no     *)
(* more and carries the id and the fill of one order it was matched with.  *)
ResolutionSettles ==
  [][\A s \in Signal : Resolve(s, TRUE) =>
       /\ store'[index[s]].state # "Unknown"
       /\ \E b \in classify(s) : /\ store'[index[s]].bid = b
                                 /\ store'[index[s]].filled = book[b].filled]_vars

-----------------------------------------------------------------------------
(* The promise of the write path.  The broker's book and the requests that *)
(* may still arrive, without their progress.                               *)
LivePlacements ==
  {<<book[i].sig, book[i].ref>> : i \in DOMAIN book}
    \cup {<<q.sig, q.ref>> : q \in {p \in late : p.kind = "PlaceOrder"}}

Contract == INSTANCE OrderOnce WITH intents <- Placements, orders <- LivePlacements

(* Dispatch implements OrderOnce: every step of the dispatcher, the broker *)
(* and a crash is a step of the contract or invisible to it.               *)
ImplementsOrderOnce == Contract!Spec

-----------------------------------------------------------------------------
(* The inductive strengthening of the duplicate-submit guard.              *)

(* PlaceOrder records bind signals and refs one to one.                    *)
LogBindsOneToOne ==
  \A s, t \in Signal, r, q \in Ref :
    Recorded(s, r) /\ Recorded(t, q) => ((s = t) <=> (r = q))

(* So does the index, and both use minted refs only.                       *)
IndexBindsOneToOne ==
  /\ \A s, t \in Signal : index[s] # NoRef /\ index[s] = index[t] => s = t
  /\ \A s \in Signal : index[s] # NoRef => index[s] \in minted
  /\ \A s \in Signal, r \in Ref : Recorded(s, r) => r \in minted

(* A ref in the index is recorded, or is known never to have been sent, or *)
(* is just being recorded.                                                 *)
IndexIsJustified ==
  \A s \in Signal : index[s] # NoRef =>
    \/ Recorded(s, index[s])
    \/ index[s] \in unsent_refs
    \/ pc = "append" /\ cur.kind = "PlaceOrder" /\ cur.ref = index[s]

(* The broker has one order per ref, and none for a placement still to come. *)
LiveOnce ==
  /\ \A i, j \in DOMAIN book : book[i].ref = book[j].ref => i = j
  /\ \A i \in DOMAIN book, q \in late : q.kind = "PlaceOrder" => book[i].ref # q.ref
  /\ \A p, q \in late :
       p.kind = "PlaceOrder" /\ q.kind = "PlaceOrder" /\ p.ref = q.ref => p = q

(* The placement in flight owns its signal, is recorded before it leaves,  *)
(* and nothing of it is live until the broker answers.                     *)
InFlight ==
  /\ pc # "idle" /\ cur.kind = "PlaceOrder" =>
       /\ index[cur.sig] = cur.ref
       /\ reply = "none" /\ verdict = "none" => ~Live(cur.ref)
       /\ pc # "append" => Recorded(cur.sig, cur.ref) /\ cur.ref \notin unsent_refs
  /\ pc \in {"idle", "append"} => reply = "none" /\ verdict = "none"
  /\ pc = "wait" => verdict = "none"
  /\ pc \in {"wait", "persist", "result"} => chain \in {"clean", "broken"}

(* The unsynced record a failed append left behind was never sent.         *)
TailNotSent ==
  chain = "whole" => /\ Len(log) > 0
                     /\ log[Len(log)].op = "PlaceOrder" => ~Live(log[Len(log)].ref)

DownIsEmpty ==
  ~up => unsent_refs = {} /\ index = [s \in Signal |-> NoRef]

(* The inductive invariant behind AtMostOneOrderPerSignal: at every step   *)
(* of every mutation the log, the index and unsent_refs_ agree on which    *)
(* refs may be live.                                                       *)
DispatchInv ==
  /\ LogBindsOneToOne /\ IndexBindsOneToOne
  /\ IndexAgreesWithLog /\ IndexIsJustified
  /\ SentIsRecorded /\ UnsentNeverSent /\ LiveOnce
  /\ InFlight /\ TailNotSent /\ DownIsEmpty
=============================================================================
