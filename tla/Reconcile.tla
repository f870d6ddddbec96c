------------------------------ MODULE Reconcile ------------------------------
(***************************************************************************)
(* Continuous reconciliation and crash recovery: Reconciler::fetch, which  *)
(* reads the broker off the main loop, ReconcileApplier::apply, which      *)
(* folds a snapshot into the local orders on the loop, the                 *)
(* UnknownResolver, which folds single orders in between, and              *)
(* RecoveryCoordinator::recover, which decides whether a restarted engine  *)
(* may trade.                                                              *)
(*                                                                         *)
(* A broker order is named by the ref it was placed under (Dispatch shows  *)
(* there is at most one), or is Foreign: placed by a human.  A row spells  *)
(* every working order Sent, as Kite does, whatever its fill; a row the    *)
(* adapter cannot read comes back as Unknown with fill 0.  The local       *)
(* orders are the rows of the projection, which callers load, pass to      *)
(* apply and save.                                                         *)
(***************************************************************************)
EXTENDS Lifecycle, FiniteSets

CONSTANTS Ref, Foreign,
          Lots,             \* the quantity of every order
          EchoesRef,        \* the broker echoes client_ref, also after a restart
          Garbles,          \* TRUE: the adapter may fail to read a row
          ResolvesBlocked,  \* TRUE: the resolver also runs while recovery is blocked
          Stride,           \* distance between the keys of successive snapshots
          MaxSnap,          \* bound: snapshots of one process
          MaxResolve,       \* bound: resolutions by one process
          MaxCrash          \* bound: crashes

ASSUME ReconcileAssumption ==
  /\ Foreign \notin Ref
  /\ Lots \in Nat \ {0} /\ Stride \in Nat \ {0}
  /\ {EchoesRef, Garbles, ResolvesBlocked} \subseteq BOOLEAN
  /\ MaxSnap \in Nat /\ MaxResolve \in Nat /\ MaxCrash \in Nat

VARIABLES
  book,               \* [Ref \cup {Foreign} -> rows \cup {NoRow}]: the broker's orders
  local,              \* [Ref -> orders \cup {NoRow}]: local_orders
  last_key,           \* LifecycleEngine::last_key_
  tags,               \* refs in the adapter's correlation maps
  snaps,              \* snapshots fetched and not applied, [key, rows]
  fetched, resolved,  \* snapshots fetched and orders resolved by this process
  last_snapshot_key,  \* ReconcileApplier::last_snapshot_key_
  block,              \* block_new_orders of the last snapshot that was not stale
  placing,            \* the placement in flight: {} or {ref}
  status,             \* "down", "blocked", "manual" or "trading"
  crashes,
  quiet,              \* history: the last step was a fetch
  raced               \* history: this process resolved an order with a snapshot in flight

engine == <<last_key, tags, resolved>>
vars   == <<book, local, last_key, tags, snaps, fetched, resolved, last_snapshot_key, block,
            placing, status, crashes, quiet, raced>>

NoRow == [state |-> "none"]
Rows  == [state : {"Sent", "Filled", "Cancelled", "Rejected", "Unknown"}, filled : 0 .. Lots,
          named : BOOLEAN]
BookRows == [state : {"Sent", "Filled", "Cancelled", "Rejected"}, filled : 0 .. Lots]

HasRow(r)  == local[r] # NoRow
Unknowns   == {r \in Ref : local[r].state = "Unknown"}
Working(i) == book[i] # NoRow /\ book[i].state = "Sent"

Init ==
  /\ book = [i \in Ref \cup {Foreign} |-> NoRow]
  /\ local = [r \in Ref |-> NoRow]
  /\ last_key = [r \in Ref |-> NoKey] /\ tags = {}
  /\ snaps = {} /\ fetched = 0 /\ resolved = 0 /\ last_snapshot_key = -1 /\ block = FALSE
  /\ placing = {}
  /\ status = "trading"
  /\ crashes = 0
  /\ quiet = FALSE /\ raced = FALSE

(* The loop is in no placement.                                            *)
Free == status # "down" /\ placing = {}

(* A step between a fetch and the application of what it returned.         *)
Noise == quiet' = FALSE /\ UNCHANGED raced

-----------------------------------------------------------------------------
(* The broker (external).                                                  *)

BrokerFills(r) ==
  /\ Working(r)
  /\ book' = [book EXCEPT ![r] = [state  |-> IF @.filled + 1 = Lots THEN "Filled" ELSE "Sent",
                                  filled |-> @.filled + 1]]

BrokerEnds(r) ==
  /\ Working(r)
  /\ \E st \in {"Cancelled", "Rejected"} : book' = [book EXCEPT ![r].state = st]

(* The order leaves the order book, or a human places one.                 *)
BrokerDrops(r) == book[r] # NoRow /\ book' = [book EXCEPT ![r] = NoRow]

HumanPlaces ==
  /\ book[Foreign] = NoRow
  /\ book' = [book EXCEPT ![Foreign] = [state |-> "Sent", filled |-> 0]]

Broker ==
  /\ Noise
  /\ HumanPlaces \/ \E r \in Ref : BrokerFills(r) \/ BrokerEnds(r) \/ BrokerDrops(r)
  /\ UNCHANGED <<local, engine, snaps, fetched, last_snapshot_key, block, placing, status,
                 crashes>>

-----------------------------------------------------------------------------
(* The write path, as far as reconciliation sees it (see Dispatch).        *)

Paused == Unknowns # {}

(* The request is on its way; it reaches the broker or not.                *)
PlaceSend(r) ==
  /\ Free /\ status = "trading" /\ ~block /\ ~Paused
  /\ ~HasRow(r) /\ book[r] = NoRow
  /\ placing' = {r} /\ tags' = tags \cup {r}
  /\ \/ book' = [book EXCEPT ![r] = [state |-> "Sent", filled |-> 0]]
     \/ UNCHANGED book
  /\ Noise
  /\ UNCHANGED <<local, last_key, snaps, fetched, resolved, last_snapshot_key, block, status,
                 crashes>>

(* The answer, as the dispatcher classifies it: an error it takes for a    *)
(* verdict may hide an order that is live.                                 *)
PlaceReturns(r, st) ==
  /\ r \in placing
  /\ st = "Acknowledged" => book[r] # NoRow
  /\ local' = [local EXCEPT ![r] =
                 [state |-> st, filled |-> 0, bid |-> IF st = "Acknowledged" THEN 1 ELSE NoBid]]
  /\ last_key' = IF st = "Acknowledged" THEN [last_key EXCEPT ![r] = 1] ELSE last_key
  /\ placing' = {}
  /\ Noise
  /\ UNCHANGED <<book, tags, snaps, fetched, resolved, last_snapshot_key, block, status, crashes>>

(* An ambiguous cancel of a live order.                                    *)
CancelUnknown(r) ==
  /\ Free /\ status = "trading"
  /\ HasRow(r) /\ ~is_terminal(local[r].state) /\ local[r].bid # NoBid
  /\ local' = [local EXCEPT ![r].state = "Unknown"]
  /\ \/ UNCHANGED book
     \/ Working(r) /\ book' = [book EXCEPT ![r].state = "Cancelled"]
  /\ Noise
  /\ UNCHANGED <<engine, snaps, fetched, last_snapshot_key, block, placing, status, crashes>>

-----------------------------------------------------------------------------
(* What one fetch_orders returns: every order, each possibly unreadable;   *)
(* named says that the row carries its client_ref.                         *)

Read(i) ==
  IF book[i] = NoRow THEN {NoRow}
  ELSE LET named == i # Foreign /\ (EchoesRef \/ i \in tags)
           row(st, n) == [state |-> st, filled |-> n, named |-> named]
       IN  {row(book[i].state, book[i].filled)}
             \cup (IF Garbles THEN {row("Unknown", 0)} ELSE {})

FetchedRows == {f \in [Ref \cup {Foreign} -> UNION {Read(i) : i \in Ref \cup {Foreign}}] :
                  \A i \in DOMAIN f : f[i] \in Read(i)}

(* same_order: by client_ref, else by broker order id.                     *)
same_order(order, row) == row # NoRow /\ order # NoRow /\ (row.named \/ order.bid # NoBid)

ViewOf(row, key) == [state |-> row.state, filled |-> row.filled, bid |-> 1, key |-> key]

Fetch ==
  /\ status = "trading"
  /\ fetched < MaxSnap /\ fetched' = fetched + 1
  /\ \E f \in FetchedRows : snaps' = snaps \cup {[key |-> fetched' * Stride, rows |-> f]}
  /\ quiet' = TRUE /\ UNCHANGED raced
  /\ UNCHANGED <<book, local, engine, last_snapshot_key, block, placing, status, crashes>>

-----------------------------------------------------------------------------
(* ReconcileApplier::apply, on the rows of a snapshot with the given key.  *)

Applied(r, rows, key) ==
  IF same_order(local[r], rows[r]) THEN apply(local[r], last_key[r], ViewOf(rows[r], key))
  ELSE [outcome |-> "none", order |-> local[r], key |-> last_key[r]]

(* Mutant: a refused view is no mismatch.                                  *)
NeverContradicts(r, rows, key) == FALSE

(* The engine refused the view: terminal and different, or illegal (the    *)
(* key did not land); an older view does not count.                        *)
Contradicts(r, rows, key) ==
  /\ last_key[r] # NoKey => key >= last_key[r]
  /\ LET a == Applied(r, rows, key)
     IN  \/ /\ a.outcome = "DroppedTerminal"
            /\ rows[r].state # local[r].state \/ rows[r].filled # local[r].filled
         \/ a.outcome = "NoChange" /\ a.key # key

Phantom(i, rows) == rows[i] # NoRow /\ (i \in Ref => ~same_order(local[i], rows[i]))

(* Mutant: an order that was never acknowledged can vanish.                *)
VanishedUnacked(order, row) ==
  /\ order # NoRow
  /\ ~is_terminal(order.state)
  /\ ~same_order(order, row)

Vanished(order, row) ==
  /\ order # NoRow
  /\ ~is_terminal(order.state) /\ order.bid # NoBid
  /\ ~same_order(order, row)

Mismatch(rows, key) ==
  \/ \E i \in DOMAIN rows : Phantom(i, rows)
  \/ \E r \in Ref : Contradicts(r, rows, key) \/ Vanished(Applied(r, rows, key).order, rows[r])

(* Fold the rows into the local orders and the engine.                     *)
Fold(rows, key) ==
  /\ local' = [r \in Ref |-> Applied(r, rows, key).order]
  /\ last_key' = [r \in Ref |-> Applied(r, rows, key).key]

Stale(s) == s.key <= last_snapshot_key

ApplySnapshot(s) ==
  /\ status = "trading" /\ placing = {}
  /\ Fold(s.rows, s.key)
  /\ last_snapshot_key' = IF Stale(s) THEN last_snapshot_key ELSE s.key
  /\ block' = IF Stale(s) THEN block ELSE Mismatch(s.rows, s.key)
  /\ snaps' = snaps \ {s}
  /\ Noise
  /\ UNCHANGED <<book, tags, fetched, resolved, placing, status, crashes>>

(* UnknownResolver::resolve: one order, read now, under the next key.      *)
Resolve(r) ==
  /\ Free
  /\ status = "trading" \/ (ResolvesBlocked /\ status = "blocked")
  /\ r \in Unknowns
  /\ resolved < MaxResolve /\ resolved' = resolved + 1
  /\ \E row \in Read(r) :
       LET a == apply(local[r], last_key[r],
                      ViewOf(row, IF last_key[r] = NoKey THEN 1 ELSE last_key[r] + 1))
       IN  /\ same_order(local[r], row)
           /\ local' = [local EXCEPT ![r] = [a.order EXCEPT !.bid = 1]]
           /\ last_key' = [last_key EXCEPT ![r] = a.key]
  /\ quiet' = FALSE /\ raced' = (raced \/ snaps # {})
  /\ UNCHANGED <<book, tags, snaps, fetched, last_snapshot_key, block, placing, status, crashes>>

-----------------------------------------------------------------------------
(* A crash, and RecoveryCoordinator::recover.  load_state replays the      *)
(* intent log: the placement in flight is loaded as an UNKNOWN order.      *)

Crash ==
  /\ status # "down"
  /\ crashes < MaxCrash /\ crashes' = crashes + 1
  /\ status' = "down"
  /\ local' = [r \in Ref |-> IF r \in placing
                               THEN [state |-> "Unknown", filled |-> 0, bid |-> NoBid]
                               ELSE local[r]]
  /\ last_key' = [r \in Ref |-> NoKey] /\ tags' = {}
  /\ snaps' = {} /\ fetched' = 0 /\ resolved' = 0 /\ last_snapshot_key' = -1 /\ block' = FALSE
  /\ placing' = {}
  /\ quiet' = FALSE /\ raced' = FALSE
  /\ UNCHANGED book

Recovering == status \in {"down", "blocked"}

(* Loading the state, the session check or the fetch fails.                *)
RecoverFails ==
  /\ Recovering
  /\ status' = "blocked"
  /\ Noise
  /\ UNCHANGED <<book, local, engine, snaps, fetched, last_snapshot_key, block, placing, crashes>>

(* Mutant: every order is marked, UNKNOWN or not.                          *)
RecoverMarksAll ==
  /\ Recovering
  /\ local' = [r \in Ref |-> [local[r] EXCEPT !.state = "ManualInterventionRequired"]]
  /\ status' = "manual"
  /\ Noise
  /\ UNCHANGED <<book, engine, snaps, fetched, last_snapshot_key, block, placing, crashes>>

(* The broker cannot be reached and an order is UNKNOWN.                   *)
RecoverDoubleFault ==
  /\ Recovering
  /\ Unknowns # {}
  /\ local' = [r \in Ref |-> IF r \in Unknowns
                               THEN [local[r] EXCEPT !.state = "ManualInterventionRequired"]
                               ELSE local[r]]
  /\ status' = "manual"
  /\ Noise
  /\ UNCHANGED <<book, engine, snaps, fetched, last_snapshot_key, block, placing, crashes>>

(* Mutant: only the UNKNOWN orders decide.                                 *)
SafeToResumeIfKnown(rows) == Unknowns' = {}

(* The verdict on the orders after the fold, the safe-start gate apart.    *)
SafeToResume(rows) == Unknowns' = {} /\ ~Mismatch(rows, 1)

(* The broker answers: fold its orders under key 1, with an applier of     *)
(* recover's own, and resume if the gate agrees.                           *)
Recover ==
  /\ Recovering
  /\ \E f \in FetchedRows, gate \in BOOLEAN :
       /\ Fold(f, 1)
       /\ status' = IF gate /\ SafeToResume(f) THEN "trading" ELSE "blocked"
  /\ Noise
  /\ UNCHANGED <<book, tags, snaps, fetched, resolved, last_snapshot_key, block, placing, crashes>>

-----------------------------------------------------------------------------
Next ==
  \/ Broker
  \/ \E r \in Ref : PlaceSend(r) \/ CancelUnknown(r) \/ Resolve(r)
  \/ \E r \in Ref, st \in {"Acknowledged", "Unknown", "Rejected"} : PlaceReturns(r, st)
  \/ Fetch
  \/ \E s \in snaps : ApplySnapshot(s)
  \/ Crash \/ RecoverFails \/ RecoverDoubleFault \/ Recover

Spec == Init /\ [][Next]_vars

-----------------------------------------------------------------------------
(* Properties.                                                             *)

(* Every variable keeps its type.                                          *)
TypeOK ==
  /\ book \in [Ref \cup {Foreign} -> BookRows \cup {NoRow}]
  /\ local \in [Ref -> Orders \cup {NoRow}]
  /\ last_key \in [Ref -> Nat \cup {NoKey}] /\ tags \subseteq Ref
  /\ \A s \in snaps : s.key \in Nat /\ s.rows \in [Ref \cup {Foreign} -> Rows \cup {NoRow}]
  /\ fetched \in Nat /\ resolved \in Nat /\ last_snapshot_key \in Nat \cup {-1} /\ block \in BOOLEAN
  /\ placing \subseteq Ref
  /\ status \in {"down", "blocked", "manual", "trading"}
  /\ crashes \in Nat /\ quiet \in BOOLEAN /\ raced \in BOOLEAN

(* The local order has caught up with what a readable row reports.         *)
CaughtUp(order, row) ==
  IF row.state = "Unknown" THEN TRUE
  ELSE IF is_terminal(row.state) THEN order.state = row.state /\ order.filled = row.filled
  ELSE /\ order.state \notin {"Unknown", "ManualInterventionRequired", "none"}
       /\ order.filled >= row.filled

(* Broker truth wins: after a fresh snapshot that raises no block, no      *)
(* local order is behind what the snapshot says.                           *)
NothingMissed ==
  [][\A s \in snaps :
       (last_snapshot_key' = s.key /\ last_snapshot_key # s.key /\ ~block') =>
         \A r \in Ref : s.rows[r] # NoRow => CaughtUp(local'[r], s.rows[r])]_vars

(* Forward progressing: however snapshots overtake each other, a fill the  *)
(* engine has believed is not taken back, unless the resolver ran while a  *)
(* snapshot was in flight or the row could not be read.                    *)
FillsNeverRegress ==
  [][~raced => \A r \in Ref :
       HasRow(r) /\ local'[r].state # "Unknown" => local'[r].filled >= local[r].filled]_vars

(* The broker and the local orders really disagree.                        *)
Disagree ==
  \/ book[Foreign] # NoRow
  \/ \E r \in Ref :
       \/ book[r] # NoRow /\ ~(HasRow(r) /\ (EchoesRef \/ r \in tags \/ local[r].bid # NoBid))
       \/ HasRow(r) /\ book[r] = NoRow /\ ~is_terminal(local[r].state) /\ local[r].bid # NoBid
       \/ /\ HasRow(r) /\ book[r] # NoRow
          /\ local[r].state \in Terminal \cup {"ManualInterventionRequired"}
          /\ local[r].state # book[r].state \/ local[r].filled # book[r].filled

(* The newest snapshot is applied and blocks new orders.                   *)
Blocks == last_snapshot_key' # last_snapshot_key /\ block' /\ last_snapshot_key' # -1

Readable(key) == \A s \in snaps : s.key = key => \A i \in DOMAIN s.rows : s.rows[i].state # "Unknown"

(* A snapshot that is applied at once blocks new orders only over a real   *)
(* disagreement, or over a row that cannot be read.                        *)
QuietBlockIsReal ==
  [][(Blocks /\ quiet /\ last_snapshot_key' = fetched * Stride /\ Readable(last_snapshot_key')) =>
       Disagree]_vars

(* Reconcile before resume: when recover() returns ResumedSafe every local *)
(* order has caught up with the broker, every order at the broker is       *)
(* known, and none that the broker acknowledged is missing there.          *)
ResumedIsReconciled ==
  [][(status # "trading" /\ status' = "trading") =>
       /\ book[Foreign] = NoRow
       /\ \A r \in Ref : /\ book[r] # NoRow => CaughtUp(local'[r], book[r])
                         /\ ~Vanished(local'[r], IF book[r] = NoRow THEN NoRow
                                                 ELSE [named |-> FALSE])]_vars
=============================================================================
