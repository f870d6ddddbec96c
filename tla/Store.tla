------------------------------- MODULE Store --------------------------------
(***************************************************************************)
(* store/store.cpp: the SQLite projection, how it is opened, migrated and  *)
(* rebuilt, and the writes the engine makes to it.  A step of the model is *)
(* one SQLite transaction or one probe (SQLite is external: a transaction  *)
(* is applied whole or not at all and survives a death).  A call that      *)
(* fails with SQLITE_BUSY, IOERR, NOMEM or INTERRUPT changes nothing; while*)
(* opening it ends the attempt (`Refuse').                                 *)
(*                                                                         *)
(* `db' is the file: the user_version stamp, whether its pages read back,  *)
(* whether orders has the trigger column, and the rows of each table that  *)
(* exists.                                                                 *)
(***************************************************************************)
EXTENDS Integers, FiniteSets

CONSTANTS
    Key,         \* keys of the unique columns: client_ref, trade_id, symbol, account
    Value,       \* the other columns
    MaxWrites,   \* bound on the writes of the engine
    MaxRowId,    \* bound on the ids of risk_events and audit
    MaxFaults    \* bound on deaths and on damage done to the file

ASSUME StoreBounds == {MaxWrites, MaxRowId, MaxFaults} \subseteq Nat

VARIABLES
    db,
    pc,            \* "down", "integrity", "version", "tables", "reset", "migrate", "up"
    strict,        \* open() rather than open_or_rebuild()
    found,         \* the version the opener works from
    needs_rebuild,
    written,       \* history: what each row of the file was last given
    harmed,        \* history: pages or a table were damaged
    stamped,       \* history: the stamp was damaged
    dropped,       \* history: this attempt dropped the tables
    writes, faults

vars == <<db, pc, strict, found, needs_rebuild, written, harmed, stamped,
          dropped, writes, faults>>
history == <<written, harmed, stamped, writes, faults>>

kCurrentSchemaVersion == 2

Unique   == {"orders", "trades", "positions", "funds"}
Appended == {"risk_events", "audit"}
kTableNames == Unique \union Appended

NoRows == [k \in {} |-> 0]

\* check_tables: a version claims every table; version 0 claims none.
HalfMigrated(version) == version # 0 /\ ~(kTableNames \subseteq DOMAIN db.tables)

Stay == db' = db /\ UNCHANGED history

To(step) == pc' = step /\ UNCHANGED <<strict, needs_rebuild, dropped>>

-----------------------------------------------------------------------------
\* Opening.  A refusal closes the connection and returns the error.
Open ==
    /\ pc = "down"
    /\ pc' = "integrity" /\ strict' \in BOOLEAN
    /\ found' = 0 /\ needs_rebuild' = FALSE /\ dropped' = FALSE
    /\ Stay

Opening == {"integrity", "version", "tables", "reset", "migrate"}

Refuse ==
    /\ pc \in Opening
    /\ pc' = "down" /\ found' = 0 /\ needs_rebuild' = FALSE /\ dropped' = FALSE
    /\ strict' = FALSE
    /\ Stay

\* Mutant of check_integrity: a read that failed is taken for damage.
check_integrityBusyIsDamage ==
    /\ pc = "integrity"
    /\ \/ db.pages = "sound" /\ To("version")
       \/ ~strict /\ To("reset")
    /\ UNCHANGED found /\ Stay

check_integrity ==
    /\ pc = "integrity"
    /\ \/ db.pages = "sound" /\ To("version")
       \/ db.pages = "damaged" /\ ~strict /\ To("reset")
    /\ UNCHANGED found /\ Stay

\* Mutant of read_user_version: a stamp out of range is taken for damage.
read_user_versionRebuilds ==
    /\ pc = "version"
    /\ \/ /\ db.version \in 0..kCurrentSchemaVersion
          /\ found' = db.version
          /\ To("tables")
       \/ /\ db.version \notin 0..kCurrentSchemaVersion
          /\ found' = 0
          /\ ~strict /\ To("reset")
    /\ Stay

\* Negative and newer stamps are refused.
read_user_version ==
    /\ pc = "version"
    /\ db.version \in 0..kCurrentSchemaVersion
    /\ found' = db.version
    /\ To("tables") /\ Stay

\* Damage may also show here, when sqlite_master is read.
check_tables ==
    /\ pc = "tables"
    /\ \/ ~HalfMigrated(found) /\ To("migrate")
       \/ (HalfMigrated(found) \/ db.pages = "damaged") /\ ~strict /\ To("reset")
    /\ UNCHANGED found /\ Stay

\* kMigration1 creates the tables, kMigration2 adds the column; SQLite fails
\* the statement when the table or the column is already there.
Migrated ==
    CASE found = 0 -> [db EXCEPT !.version = 1,
                                 !.tables = [t \in kTableNames \union DOMAIN @ |->
                                                IF t \in kTableNames THEN NoRows ELSE @[t]]]
      [] found = 1 -> [db EXCEPT !.version = 2, !.column = TRUE]

CanMigrate ==
    CASE found = 0 -> kTableNames \intersect DOMAIN db.tables = {}
      [] found = 1 -> "orders" \in DOMAIN db.tables /\ ~db.column

\* Mutant of apply_migrations: the stamp is written after the commit.
apply_migrationsStampLater ==
    /\ pc = "migrate"
    /\ found < kCurrentSchemaVersion
    /\ \/ /\ CanMigrate
          /\ db' = [Migrated EXCEPT !.version = db.version]
          /\ found' = found
       \/ /\ ~CanMigrate
          /\ db' = [db EXCEPT !.version = found + 1]
          /\ found' = found + 1
    /\ To("migrate")
    /\ UNCHANGED history

\* One turn of the loop of apply_migrations.
apply_migrations ==
    /\ pc = "migrate"
    /\ found < kCurrentSchemaVersion
    /\ CanMigrate
    /\ db' = Migrated
    /\ found' = found + 1
    /\ To("migrate")
    /\ UNCHANGED history

Opened ==
    /\ pc = "migrate" /\ found = kCurrentSchemaVersion
    /\ To("up")
    /\ UNCHANGED found /\ Stay

\* Mutant of reset: only damage that the tables showed is reported.
resetSilent ==
    /\ pc = "reset"
    /\ db' = [version |-> 0, pages |-> "sound", column |-> FALSE,
              tables |-> [t \in DOMAIN db.tables \ kTableNames |-> db.tables[t]]]
    /\ needs_rebuild' = (found # 0)
    /\ dropped' = TRUE
    /\ found' = 0
    /\ pc' = "migrate"
    /\ UNCHANGED <<strict, history>>

\* reset: one transaction drops the tables and clears the stamp; the tables
\* are created again by the migrations that follow, each in its own.
reset ==
    /\ pc = "reset"
    /\ db' = [version |-> 0, pages |-> "sound", column |-> FALSE,
              tables |-> [t \in DOMAIN db.tables \ kTableNames |-> db.tables[t]]]
    /\ needs_rebuild' = TRUE
    /\ dropped' = TRUE
    /\ found' = 0
    /\ pc' = "migrate"
    /\ UNCHANGED <<strict, history>>

-----------------------------------------------------------------------------
\* The rows.  Each call is one statement in its own transaction.
Usable == pc = "up" /\ writes < MaxWrites /\ db.pages = "sound"

Upsert(rows, k, v) == [x \in DOMAIN rows \union {k} |-> IF x = k THEN v ELSE rows[x]]

Put(t, k, v) ==
    /\ Usable
    /\ writes' = writes + 1
    /\ db' = [db EXCEPT !.tables[t] = Upsert(@, k, v)]
    /\ written' = Upsert(written, <<t, k>>, v)
    /\ UNCHANGED <<pc, strict, found, needs_rebuild, dropped, harmed, stamped, faults>>

\* Both order writes name the trigger column, which check_tables does not look
\* for.  insert_order: UNIQUE(client_ref) answers DuplicateOrder and changes nothing.
insert_order(k, v) == Usable /\ db.column /\ k \notin DOMAIN db.tables["orders"] /\ Put("orders", k, v)

\* INSERT ... ON CONFLICT DO UPDATE.
upsert_order(k, v)    == db.column /\ Put("orders", k, v)
upsert_position(k, v) == Put("positions", k, v)
upsert_funds(k, v)    == Put("funds", k, v)

\* INSERT OR IGNORE: a trade seen again stays as it was first recorded.
insert_trade(k, v) == Usable /\ k \notin DOMAIN db.tables["trades"] /\ Put("trades", k, v)

\* SQLite gives an INTEGER PRIMARY KEY the largest id plus one.
NextId(t) == 1 + Cardinality(DOMAIN db.tables[t])
insert_risk_event(v) == Usable /\ NextId("risk_events") <= MaxRowId
                        /\ Put("risk_events", NextId("risk_events"), v)
insert_audit(v)      == Usable /\ NextId("audit") <= MaxRowId
                        /\ Put("audit", NextId("audit"), v)

-----------------------------------------------------------------------------
Fault == faults < MaxFaults /\ faults' = faults + 1

Crash ==
    /\ Fault /\ pc # "down"
    /\ pc' = "down" /\ found' = 0 /\ needs_rebuild' = FALSE /\ dropped' = FALSE
    /\ strict' = FALSE
    /\ UNCHANGED <<db, written, harmed, stamped, writes>>

DamagePages ==
    /\ Fault
    /\ db' = [db EXCEPT !.pages = "damaged"] /\ harmed' = TRUE
    /\ UNCHANGED <<pc, strict, found, needs_rebuild, dropped, written, stamped, writes>>

\* A table the version claims is gone: what a torn copy of the file leaves.
LoseTable ==
    /\ Fault /\ pc = "down"
    /\ \E t \in DOMAIN db.tables :
        db' = [db EXCEPT !.tables = [u \in DOMAIN @ \ {t} |-> @[u]]]
    /\ harmed' = TRUE
    /\ UNCHANGED <<pc, strict, found, needs_rebuild, dropped, written, stamped, writes>>

\* The four bytes of user_version, which no integrity check covers.  On a file
\* that lacks a table of ours a stamp of ours is a claim the tables refute.
FlipStamp ==
    /\ Fault /\ pc = "down"
    /\ \E v \in -1..kCurrentSchemaVersion + 1 : db' = [db EXCEPT !.version = v]
    /\ stamped' = TRUE
    /\ harmed' = (harmed \/ ~(kTableNames \subseteq DOMAIN db.tables))
    /\ UNCHANGED <<pc, strict, found, needs_rebuild, dropped, written, writes>>

-----------------------------------------------------------------------------
\* A file this or an earlier build left, one of a later build that has renamed
\* a table of ours, or none.
Left(version, tables) ==
    [version |-> version, pages |-> "sound", column |-> version >= 2,
     tables |-> [t \in tables |-> IF t \in Appended THEN [i \in {1} |-> CHOOSE v \in Value : TRUE]
                                                    ELSE NoRows]]

Init ==
    /\ db \in {Left(0, {}), Left(1, kTableNames), Left(2, kTableNames),
               Left(3, (kTableNames \ {"funds"}) \union {"money"})}
    /\ written = [x \in {<<t, 1>> : t \in Appended \intersect DOMAIN db.tables}
                    |-> CHOOSE v \in Value : TRUE]
    /\ pc = "down" /\ strict = FALSE /\ found = 0 /\ needs_rebuild = FALSE
    /\ harmed = FALSE /\ stamped = FALSE /\ dropped = FALSE
    /\ writes = 0 /\ faults = 0

Next ==
    \/ Open \/ Refuse \/ check_integrity \/ read_user_version \/ check_tables
    \/ apply_migrations \/ Opened \/ reset
    \/ \E k \in Key, v \in Value :
        \/ insert_order(k, v) \/ upsert_order(k, v) \/ insert_trade(k, v)
        \/ upsert_position(k, v) \/ upsert_funds(k, v)
    \/ \E v \in Value : insert_risk_event(v) \/ insert_audit(v)
    \/ Crash \/ DamagePages \/ LoseTable \/ FlipStamp

Spec == Init /\ [][Next]_vars

-----------------------------------------------------------------------------
\* Types; a store is handed out only at the schema this build writes.
TypeOK ==
    /\ pc \in Opening \union {"down", "up"}
    /\ {strict, needs_rebuild, harmed, stamped, dropped} \subseteq BOOLEAN
    /\ found \in 0..kCurrentSchemaVersion
    /\ db.version \in -1..kCurrentSchemaVersion + 1
    /\ db.pages \in {"sound", "damaged"}
    /\ writes \in 0..MaxWrites /\ faults \in 0..MaxFaults
    /\ pc = "up" =>
        /\ db.version = kCurrentSchemaVersion /\ (stamped \/ db.column)
        /\ kTableNames \subseteq DOMAIN db.tables

\* "a transient fault must not be allowed to destroy the FR-27 trail": unless
\* pages or a table were really damaged, every row keeps what it was last
\* given, through deaths, refusals, migrations, a damaged stamp and a newer
\* build's file.
RowsSurvive ==
    ~harmed =>
        \A x \in DOMAIN written :
            /\ x[1] \in DOMAIN db.tables
            /\ x[2] \in DOMAIN db.tables[x[1]]
            /\ db.tables[x[1]][x[2]] = written[x]

\* "a crash leaves the database either fully at N or fully at N-1": the stamp
\* never disagrees with the tables and the column unless one was damaged.
SchemaMatchesStamp ==
    (~harmed /\ ~stamped /\ db.version <= kCurrentSchemaVersion) =>
        /\ kTableNames \subseteq DOMAIN db.tables <=> db.version >= 1
        /\ kTableNames \intersect DOMAIN db.tables = {} <=> db.version = 0
        /\ db.column <=> db.version >= 2

\* The caller of the open that dropped the tables is told to replay.
DropIsReported == (pc = "up" /\ dropped) => needs_rebuild

\* No step of the store turns a refused file into one it accepts: what a newer
\* build wrote, and a negative stamp, stay for a human.
RefusedStays ==
    (db.version \notin 0..kCurrentSchemaVersion /\ ~harmed /\ faults' = faults) => db' = db

\* What open, migrations and reset keep through deaths and faults: the stamp
\* agrees with the schema, and whoever dropped rows said so.
StoreInv == TypeOK /\ SchemaMatchesStamp /\ DropIsReported

\* Nothing is lost by mistake: rows survive everything but real damage, and a
\* refused file stays as it is.
NothingIsDestroyed == [][RowsSurvive' /\ RefusedStays]_vars
=============================================================================
