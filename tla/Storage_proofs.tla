--------------------------- MODULE Storage_proofs ---------------------------
(***************************************************************************)
(* TLAPS proofs about the files an account keeps and shares.  About Store, *)
(* for any keys, values and bounds: the stamp agrees with the schema, rows *)
(* survive everything but damage, and a file that is refused stays as it   *)
(* is.  About SharedRefdata and the lock under it, for every finite set of *)
(* sibling processes: the types, one winner at a time and one download,    *)
(* through every failed call, death, takeover and sweep.  About IntentLog, *)
(* for any number of appends, boots, crashes and power cuts: the types,    *)
(* that an acknowledged record is enumerated by every replay that          *)
(* succeeds, and that replay refuses only a file some process went on      *)
(* writing after a failed append.                                          *)
(***************************************************************************)
EXTENDS Store, SharedRefdata, IntentLog, FiniteSetTheorems, TLAPS

-----------------------------------------------------------------------------
(* The projection.                                                         *)

\* Every table of ours is there.
Full == kTableNames \subseteq DOMAIN db.tables

\* The opener works from the stamp it read, and once past version 0 the tables
\* are all there.
OpenerIsRight ==
    /\ pc \in {"tables", "migrate"} => db.version = found
    /\ pc = "migrate" /\ found >= 1 => Full

\* The tables are dropped only after real damage, which a stamp flipped on a
\* complete file is not.
DropNeedsHarm ==
    /\ db.pages = "damaged" => harmed
    /\ pc = "reset" => harmed
    /\ ~harmed /\ stamped => Full

\* The column follows the stamp, harm or no harm.
ColumnFollowsStamp == ~stamped => (db.column <=> db.version >= 2)

RowNames == \A x \in DOMAIN written : x = <<x[1], x[2]>>

Shape ==
    /\ DOMAIN db = {"version", "pages", "column", "tables"}
    /\ db.version \in -1..kCurrentSchemaVersion + 1
    /\ db.pages \in {"sound", "damaged"} /\ db.column \in BOOLEAN
    /\ pc \in Opening \union {"down", "up"}
    /\ {strict, needs_rebuild, harmed, stamped, dropped} \subseteq BOOLEAN
    /\ found \in 0..kCurrentSchemaVersion
    /\ writes \in 0..MaxWrites /\ faults \in 0..MaxFaults

\* A store is handed out only at the schema this build writes.
UpIsCurrent ==
    pc = "up" => db.version = kCurrentSchemaVersion /\ (stamped \/ db.column) /\ Full

StoreIInv ==
    /\ Shape /\ UpIsCurrent
    /\ OpenerIsRight /\ DropNeedsHarm /\ ColumnFollowsStamp
    /\ dropped => needs_rebuild
    /\ SchemaMatchesStamp
    /\ RowNames /\ RowsSurvive

-----------------------------------------------------------------------------
(* What the steps do to the file.                                          *)

LEMMA MigrateToOne ==
  ASSUME Shape, found = 0, CanMigrate
  PROVE  /\ kTableNames \intersect DOMAIN db.tables = {}
         /\ DOMAIN Migrated = {"version", "pages", "column", "tables"}
         /\ Migrated.version = 1 /\ Migrated.pages = db.pages /\ Migrated.column = db.column
         /\ DOMAIN Migrated.tables = kTableNames \union DOMAIN db.tables
         /\ \A t \in DOMAIN db.tables \ kTableNames : Migrated.tables[t] = db.tables[t]
<1>0. found # 1
  OBVIOUS
<1>1. kTableNames \intersect DOMAIN db.tables = {}
  BY <1>0, Zenon DEF CanMigrate
<1> DEFINE tables == [t \in kTableNames \union DOMAIN db.tables |->
                        IF t \in kTableNames THEN NoRows ELSE db.tables[t]]
           mid == [db EXCEPT !.version = 1]
<1>2. Migrated = [mid EXCEPT !.tables = [t \in kTableNames \union DOMAIN @ |->
                                                IF t \in kTableNames THEN NoRows ELSE @[t]]]
  BY <1>0, Zenon DEF Migrated
<1>3. /\ DOMAIN mid = {"version", "pages", "column", "tables"} /\ mid.version = 1
      /\ mid.pages = db.pages /\ mid.column = db.column /\ mid.tables = db.tables
  BY DEF Shape
<1> HIDE DEF mid
<1>4. Migrated = [mid EXCEPT !.tables = tables]
  BY <1>2, <1>3
<1>5. /\ DOMAIN tables = kTableNames \union DOMAIN db.tables
      /\ \A t \in DOMAIN db.tables \ kTableNames : tables[t] = db.tables[t]
  OBVIOUS
<1> HIDE DEF tables
<1>6. /\ DOMAIN Migrated = {"version", "pages", "column", "tables"} /\ Migrated.version = 1
      /\ Migrated.pages = db.pages /\ Migrated.column = db.column /\ Migrated.tables = tables
  BY <1>3, <1>4
<1> QED BY <1>1, <1>5, <1>6

LEMMA MigrateToTwo ==
  ASSUME Shape, found = 1, CanMigrate
  PROVE  /\ DOMAIN Migrated = {"version", "pages", "column", "tables"}
         /\ Migrated.version = 2 /\ Migrated.pages = db.pages /\ Migrated.column = TRUE
         /\ Migrated.tables = db.tables
<1>1. found # 0
  OBVIOUS
<1>2. Migrated = [db EXCEPT !.version = 2, !.column = TRUE]
  BY <1>1, Zenon DEF Migrated
<1> QED BY <1>2 DEF Shape

LEMMA PutRow ==
  ASSUME Shape, NEW t \in DOMAIN db.tables, NEW k, NEW v, Put(t, k, v)
  PROVE  /\ DOMAIN db' = {"version", "pages", "column", "tables"}
         /\ db'.version = db.version /\ db'.pages = db.pages /\ db'.column = db.column
         /\ DOMAIN db'.tables = DOMAIN db.tables
         /\ \A u \in DOMAIN db.tables : u # t => db'.tables[u] = db.tables[u]
         /\ db'.tables[t] = Upsert(db.tables[t], k, v)
<1> DEFINE tables == [db.tables EXCEPT ![t] = Upsert(db.tables[t], k, v)]
<1>1. DOMAIN db = {"version", "pages", "column", "tables"}
  BY DEF Shape
<1>2. db' = [db EXCEPT !.tables = tables]
  BY <1>1 DEF Put
<1>3. /\ DOMAIN tables = DOMAIN db.tables
      /\ \A u \in DOMAIN db.tables : u # t => tables[u] = db.tables[u]
      /\ tables[t] = Upsert(db.tables[t], k, v)
  OBVIOUS
<1> HIDE DEF tables
<1>4. /\ DOMAIN db' = {"version", "pages", "column", "tables"}
      /\ db'.version = db.version /\ db'.pages = db.pages /\ db'.column = db.column
      /\ db'.tables = tables
  BY <1>1, <1>2
<1> QED BY <1>3, <1>4

-----------------------------------------------------------------------------
(* The invariant, action by action.                                        *)

\* What holds of the file stays so when the file and its history stay.
LEMMA StayKeeps ==
  ASSUME StoreIInv, db' = db, UNCHANGED <<harmed, stamped, written>>, Shape', UpIsCurrent',
         OpenerIsRight', pc' = "reset" => harmed, dropped' => needs_rebuild'
  PROVE  StoreIInv'
BY DEF StoreIInv, SchemaMatchesStamp, DropNeedsHarm, ColumnFollowsStamp, RowNames, RowsSurvive, Full

LEMMA OpeningSteps ==
  ASSUME StoreIInv, Open \/ Refuse \/ Crash
  PROVE  StoreIInv'
<1>1. /\ db' = db /\ UNCHANGED <<harmed, stamped, written, writes>> /\ pc' \in {"integrity", "down"}
      /\ found' = 0 /\ needs_rebuild' = FALSE /\ dropped' = FALSE /\ strict' \in BOOLEAN
  BY DEF Open, Refuse, Crash, Stay, history
<1>2. faults' \in 0..MaxFaults
  <2>1. faults \in 0..MaxFaults
    BY DEF StoreIInv, Shape
  <2>2. faults' = faults \/ (faults' = faults + 1 /\ faults < MaxFaults)
    BY DEF Open, Refuse, Crash, Stay, history, Fault
  <2> QED BY <2>1, <2>2, StoreBounds
<1>3. found' \in 0..kCurrentSchemaVersion
  BY <1>1 DEF kCurrentSchemaVersion
<1>4. Shape'
  BY <1>1, <1>2, <1>3 DEF StoreIInv, Shape, Opening
<1>5. UpIsCurrent' /\ OpenerIsRight' /\ pc' # "reset"
  BY <1>1 DEF UpIsCurrent, OpenerIsRight
<1> QED BY <1>1, <1>4, <1>5, StayKeeps

LEMMA IntegrityStep ==
  ASSUME StoreIInv, check_integrity
  PROVE  StoreIInv'
<1>1. /\ db' = db /\ UNCHANGED <<found, strict, needs_rebuild, dropped, harmed, stamped, written, writes, faults>>
      /\ pc' = "version" \/ (pc' = "reset" /\ db.pages = "damaged")
  BY DEF check_integrity, To, Stay, history
<1>2. Shape'
  BY <1>1 DEF StoreIInv, Shape, Opening
<1>3. UpIsCurrent' /\ OpenerIsRight' /\ (pc' = "reset" => harmed)
  BY <1>1 DEF UpIsCurrent, OpenerIsRight, StoreIInv, DropNeedsHarm
<1>4. dropped' => needs_rebuild'
  BY <1>1 DEF StoreIInv
<1> QED BY <1>1, <1>2, <1>3, <1>4, StayKeeps

LEMMA VersionStep ==
  ASSUME StoreIInv, read_user_version
  PROVE  StoreIInv'
<1>1. /\ db' = db /\ UNCHANGED <<strict, needs_rebuild, dropped, harmed, stamped, written, writes, faults>>
      /\ pc' = "tables" /\ found' = db.version /\ db.version \in 0..kCurrentSchemaVersion
  BY DEF read_user_version, To, Stay, history
<1>2. Shape'
  BY <1>1 DEF StoreIInv, Shape, Opening
<1>3. UpIsCurrent' /\ OpenerIsRight' /\ pc' # "reset"
  BY <1>1 DEF UpIsCurrent, OpenerIsRight
<1>4. dropped' => needs_rebuild'
  BY <1>1 DEF StoreIInv
<1> QED BY <1>1, <1>2, <1>3, <1>4, StayKeeps

LEMMA TablesStep ==
  ASSUME StoreIInv, check_tables
  PROVE  StoreIInv'
<1>1. /\ db' = db /\ UNCHANGED <<found, strict, needs_rebuild, dropped, harmed, stamped, written, writes, faults>>
      /\ pc = "tables" /\ db.version = found
      /\ \/ pc' = "migrate" /\ ~HalfMigrated(found)
         \/ pc' = "reset" /\ (HalfMigrated(found) \/ db.pages = "damaged")
  BY DEF check_tables, To, Stay, history, StoreIInv, OpenerIsRight
<1>2. found \in 0..2
  BY DEF StoreIInv, Shape, kCurrentSchemaVersion
<1>3. Shape'
  BY <1>1 DEF StoreIInv, Shape, Opening
<1>4. UpIsCurrent'
  BY <1>1 DEF UpIsCurrent
<1>5. OpenerIsRight'
  BY <1>1, <1>2 DEF OpenerIsRight, HalfMigrated, Full
<1>6. pc' = "reset" => harmed
  <2>1. SUFFICES ASSUME HalfMigrated(found), ~harmed PROVE FALSE
    BY <1>1 DEF StoreIInv, DropNeedsHarm
  <2>2. ~Full /\ found # 0
    BY <2>1 DEF HalfMigrated, Full
  <2>3. ~stamped
    BY <2>1, <2>2 DEF StoreIInv, DropNeedsHarm
  <2>4. Full <=> db.version >= 1
    BY <1>1, <1>2, <2>1, <2>3 DEF StoreIInv, SchemaMatchesStamp, Full, kCurrentSchemaVersion
  <2>5. db.version >= 1
    BY <1>1, <1>2, <2>2
  <2> QED BY <2>2, <2>4, <2>5
<1>7. dropped' => needs_rebuild'
  BY <1>1 DEF StoreIInv
<1> QED BY <1>1, <1>3, <1>4, <1>5, <1>6, <1>7, StayKeeps

LEMMA OpenedStep ==
  ASSUME StoreIInv, Opened
  PROVE  StoreIInv'
<1>1. /\ db' = db /\ UNCHANGED <<found, strict, needs_rebuild, dropped, harmed, stamped, written, writes, faults>>
      /\ pc = "migrate" /\ pc' = "up" /\ db.version = found /\ found = 2
  BY DEF Opened, To, Stay, history, StoreIInv, OpenerIsRight, kCurrentSchemaVersion
<1>2. Full
  BY <1>1 DEF StoreIInv, OpenerIsRight
<1>3. stamped \/ db.column
  BY <1>1 DEF StoreIInv, ColumnFollowsStamp
<1>4. Shape'
  BY <1>1 DEF StoreIInv, Shape, Opening
<1>5. UpIsCurrent' /\ OpenerIsRight' /\ pc' # "reset"
  BY <1>1, <1>2, <1>3 DEF UpIsCurrent, OpenerIsRight, Full, kCurrentSchemaVersion
<1>6. dropped' => needs_rebuild'
  BY <1>1 DEF StoreIInv
<1> QED BY <1>1, <1>4, <1>5, <1>6, StayKeeps

LEMMA MigrateStep ==
  ASSUME StoreIInv, apply_migrations
  PROVE  StoreIInv'
<1>1. /\ UNCHANGED <<strict, needs_rebuild, dropped, harmed, stamped, written, writes, faults>>
      /\ pc = "migrate" /\ pc' = "migrate" /\ db.version = found /\ found < 2
      /\ CanMigrate /\ db' = Migrated /\ found' = found + 1
  BY DEF apply_migrations, To, history, StoreIInv, OpenerIsRight, kCurrentSchemaVersion
<1>2. Shape /\ found \in 0..2
  BY DEF StoreIInv, Shape, kCurrentSchemaVersion
<1>3. found \in {0, 1}
  BY <1>1, <1>2
<1>4. dropped' => needs_rebuild'
  BY <1>1 DEF StoreIInv
<1>5. CASE found = 0
  <2>1. /\ kTableNames \intersect DOMAIN db.tables = {}
        /\ DOMAIN db' = {"version", "pages", "column", "tables"}
        /\ db'.version = 1 /\ db'.pages = db.pages /\ db'.column = db.column
        /\ DOMAIN db'.tables = kTableNames \union DOMAIN db.tables
        /\ \A t \in DOMAIN db.tables \ kTableNames : db'.tables[t] = db.tables[t]
    BY <1>1, <1>2, <1>5, MigrateToOne
  <2>2. found' = 1 /\ found' \in 0..kCurrentSchemaVersion
    BY <1>1, <1>5 DEF kCurrentSchemaVersion
  <2>3. db'.version \in -1..kCurrentSchemaVersion + 1
    BY <2>1 DEF kCurrentSchemaVersion
  <2>4. Shape'
    BY <1>1, <1>2, <2>1, <2>2, <2>3 DEF Shape
  <2>5. Full'
    BY <2>1 DEF Full
  <2>6. UpIsCurrent' /\ OpenerIsRight'
    BY <1>1, <2>1, <2>2, <2>5 DEF UpIsCurrent, OpenerIsRight
  <2>7. DropNeedsHarm'
    BY <1>1, <2>1, <2>5 DEF StoreIInv, DropNeedsHarm
  <2>8. ~stamped => ~db.column
    BY <1>1, <1>5 DEF StoreIInv, ColumnFollowsStamp
  <2>9. ColumnFollowsStamp'
    BY <1>1, <2>1, <2>8 DEF ColumnFollowsStamp
  <2>10. SchemaMatchesStamp'
    <3>1. kTableNames # {}
      BY DEF kTableNames, Unique
    <3>2. (kTableNames \intersect DOMAIN db.tables)' # {}
      BY <2>5, <3>1 DEF Full
    <3>3. ~stamped' => db'.column = FALSE
      BY <1>1, <1>2, <2>1, <2>8 DEF Shape
    <3> QED BY <2>1, <2>5, <3>2, <3>3 DEF SchemaMatchesStamp, Full
  <2>11. RowNames' /\ RowsSurvive'
    BY <1>1, <2>1 DEF StoreIInv, RowNames, RowsSurvive
  <2> QED BY <1>4, <2>4, <2>6, <2>7, <2>9, <2>10, <2>11 DEF StoreIInv
<1>6. CASE found = 1
  <2>1. /\ DOMAIN db' = {"version", "pages", "column", "tables"}
        /\ db'.version = 2 /\ db'.pages = db.pages /\ db'.column = TRUE
        /\ db'.tables = db.tables
    BY <1>1, <1>2, <1>6, MigrateToTwo
  <2>2. found' = 2 /\ found' \in 0..kCurrentSchemaVersion
    BY <1>1, <1>6 DEF kCurrentSchemaVersion
  <2>3. db'.version \in -1..kCurrentSchemaVersion + 1
    BY <2>1 DEF kCurrentSchemaVersion
  <2>4. Shape'
    BY <1>1, <1>2, <2>1, <2>2, <2>3 DEF Shape
  <2>5. Full /\ Full'
    BY <1>1, <1>6, <2>1 DEF StoreIInv, OpenerIsRight, Full
  <2>6. UpIsCurrent' /\ OpenerIsRight'
    BY <1>1, <2>1, <2>2, <2>5 DEF UpIsCurrent, OpenerIsRight
  <2>7. DropNeedsHarm'
    BY <1>1, <2>1, <2>5 DEF StoreIInv, DropNeedsHarm
  <2>8. ColumnFollowsStamp'
    BY <2>1 DEF ColumnFollowsStamp
  <2>9. SchemaMatchesStamp'
    <3>1. kTableNames # {}
      BY DEF kTableNames, Unique
    <3>2. (kTableNames \intersect DOMAIN db.tables)' # {}
      BY <2>5, <3>1 DEF Full
    <3> QED BY <2>1, <2>5, <3>2 DEF SchemaMatchesStamp, Full
  <2>10. RowNames' /\ RowsSurvive'
    BY <1>1, <2>1 DEF StoreIInv, RowNames, RowsSurvive
  <2> QED BY <1>4, <2>4, <2>6, <2>7, <2>8, <2>9, <2>10 DEF StoreIInv
<1> QED BY <1>3, <1>5, <1>6

LEMMA ResetStep ==
  ASSUME StoreIInv, reset
  PROVE  StoreIInv'
<1>1. /\ UNCHANGED <<strict, harmed, stamped, written, writes, faults>>
      /\ pc = "reset" /\ pc' = "migrate" /\ found' = 0 /\ needs_rebuild' = TRUE /\ dropped' = TRUE
  BY DEF reset, history
<1>2. /\ DOMAIN db' = {"version", "pages", "column", "tables"}
      /\ db'.version = 0 /\ db'.pages = "sound" /\ db'.column = FALSE
  BY DEF reset
<1>3. harmed /\ harmed'
  BY <1>1 DEF StoreIInv, DropNeedsHarm
<1>4. found' \in 0..kCurrentSchemaVersion /\ db'.version \in -1..kCurrentSchemaVersion + 1
  BY <1>1, <1>2 DEF kCurrentSchemaVersion
<1>5. Shape'
  BY <1>1, <1>2, <1>4 DEF StoreIInv, Shape, Opening
<1>6. UpIsCurrent' /\ OpenerIsRight' /\ DropNeedsHarm'
  BY <1>1, <1>2, <1>3 DEF UpIsCurrent, OpenerIsRight, DropNeedsHarm
<1>7. ColumnFollowsStamp'
  BY <1>2 DEF ColumnFollowsStamp
<1>8. SchemaMatchesStamp' /\ RowsSurvive'
  BY <1>3 DEF SchemaMatchesStamp, RowsSurvive
<1>9. RowNames'
  BY <1>1 DEF StoreIInv, RowNames
<1> QED BY <1>1, <1>5, <1>6, <1>7, <1>8, <1>9 DEF StoreIInv

LEMMA PutStep ==
  ASSUME StoreIInv, NEW t \in kTableNames, NEW k, NEW v, Put(t, k, v)
  PROVE  StoreIInv'
<1>1. /\ UNCHANGED <<pc, strict, found, needs_rebuild, dropped, harmed, stamped, faults>>
      /\ pc = "up" /\ writes < MaxWrites /\ writes' = writes + 1
      /\ written' = Upsert(written, <<t, k>>, v)
  BY DEF Put, Usable
<1>2. Shape /\ Full /\ t \in DOMAIN db.tables
  BY <1>1 DEF StoreIInv, UpIsCurrent, Full
<1>3. /\ DOMAIN db' = {"version", "pages", "column", "tables"}
      /\ db'.version = db.version /\ db'.pages = db.pages /\ db'.column = db.column
      /\ DOMAIN db'.tables = DOMAIN db.tables
      /\ \A u \in DOMAIN db.tables : u # t => db'.tables[u] = db.tables[u]
      /\ db'.tables[t] = Upsert(db.tables[t], k, v)
  BY <1>2, PutRow
<1>4. writes' \in 0..MaxWrites
  <2>1. writes \in 0..MaxWrites
    BY <1>2 DEF Shape
  <2> QED BY <1>1, <2>1, StoreBounds
<1>5. Shape'
  BY <1>1, <1>2, <1>3, <1>4 DEF Shape
<1>6. Full'
  BY <1>2, <1>3 DEF Full
<1>7. UpIsCurrent' /\ OpenerIsRight' /\ DropNeedsHarm' /\ ColumnFollowsStamp'
  BY <1>1, <1>3, <1>6 DEF StoreIInv, UpIsCurrent, OpenerIsRight, DropNeedsHarm, ColumnFollowsStamp
<1>8. SchemaMatchesStamp'
  BY <1>1, <1>3 DEF StoreIInv, SchemaMatchesStamp
<1>9. /\ DOMAIN written' = DOMAIN written \union {<<t, k>>} /\ written'[<<t, k>>] = v
      /\ \A x \in DOMAIN written : x # <<t, k>> => written'[x] = written[x]
  BY <1>1 DEF Upsert
<1>10. RowNames'
  BY <1>9 DEF StoreIInv, RowNames
<1>11. /\ DOMAIN db'.tables[t] = DOMAIN db.tables[t] \union {k} /\ db'.tables[t][k] = v
       /\ \A i \in DOMAIN db.tables[t] : i # k => db'.tables[t][i] = db.tables[t][i]
  BY <1>3 DEF Upsert
<1>12. RowsSurvive'
  <2> SUFFICES ASSUME ~harmed', NEW x \in DOMAIN written'
               PROVE  /\ x[1] \in DOMAIN db'.tables /\ x[2] \in DOMAIN db'.tables[x[1]]
                      /\ db'.tables[x[1]][x[2]] = written'[x]
    BY DEF RowsSurvive
  <2>1. CASE x = <<t, k>>
    <3>1. x[1] = t /\ x[2] = k
      BY <2>1
    <3> QED BY <1>2, <1>3, <1>9, <1>11, <2>1, <3>1
  <2>2. CASE x # <<t, k>>
    <3>1. x \in DOMAIN written /\ x = <<x[1], x[2]>> /\ written'[x] = written[x]
      BY <1>9, <2>2 DEF StoreIInv, RowNames
    <3>2. x[1] # t \/ x[2] # k
      BY <2>2, <3>1
    <3>3. /\ x[1] \in DOMAIN db.tables /\ x[2] \in DOMAIN db.tables[x[1]]
          /\ db.tables[x[1]][x[2]] = written[x]
      BY <1>1, <3>1 DEF StoreIInv, RowsSurvive
    <3>4. CASE x[1] # t
      BY <1>3, <3>1, <3>3, <3>4
    <3>5. CASE x[1] = t
      BY <1>2, <1>3, <1>11, <3>1, <3>2, <3>3, <3>5
    <3> QED BY <3>4, <3>5
  <2> QED BY <2>1, <2>2
<1>13. dropped' => needs_rebuild'
  BY <1>1 DEF StoreIInv
<1> QED BY <1>5, <1>7, <1>8, <1>10, <1>12, <1>13 DEF StoreIInv

LEMMA FaultBound ==
  ASSUME StoreIInv, Fault
  PROVE  faults' \in 0..MaxFaults /\ faults' # faults
<1>1. faults \in 0..MaxFaults /\ faults' = faults + 1 /\ faults < MaxFaults
  BY DEF StoreIInv, Shape, Fault
<1> QED BY <1>1, StoreBounds

LEMMA DamageStep ==
  ASSUME StoreIInv, DamagePages \/ LoseTable
  PROVE  StoreIInv'
<1>1. /\ UNCHANGED <<pc, strict, found, needs_rebuild, dropped, written, stamped, writes>>
      /\ harmed' = TRUE /\ Fault
  BY DEF DamagePages, LoseTable
<1>2. DOMAIN db = {"version", "pages", "column", "tables"}
  BY DEF StoreIInv, Shape
<1>3. /\ DOMAIN db' = {"version", "pages", "column", "tables"}
      /\ db'.version = db.version /\ db'.column = db.column /\ db'.pages \in {db.pages, "damaged"}
      /\ db'.tables = db.tables \/ pc = "down"
  BY <1>2 DEF DamagePages, LoseTable
<1>4. faults' \in 0..MaxFaults
  BY <1>1, FaultBound
<1>5. Shape'
  BY <1>1, <1>3, <1>4 DEF StoreIInv, Shape
<1>6. UpIsCurrent' /\ OpenerIsRight'
  BY <1>1, <1>3 DEF StoreIInv, UpIsCurrent, OpenerIsRight, Full
<1>7. DropNeedsHarm' /\ SchemaMatchesStamp' /\ RowsSurvive'
  BY <1>1 DEF DropNeedsHarm, SchemaMatchesStamp, RowsSurvive
<1>8. ColumnFollowsStamp' /\ RowNames' /\ (dropped' => needs_rebuild')
  BY <1>1, <1>3 DEF StoreIInv, ColumnFollowsStamp, RowNames
<1> QED BY <1>5, <1>6, <1>7, <1>8 DEF StoreIInv

LEMMA FlipStep ==
  ASSUME StoreIInv, FlipStamp
  PROVE  StoreIInv'
<1>1. /\ UNCHANGED <<pc, strict, found, needs_rebuild, dropped, written, writes>>
      /\ stamped' = TRUE /\ harmed' = (harmed \/ ~Full) /\ Fault /\ pc = "down"
  BY DEF FlipStamp, Full
<1>2. DOMAIN db = {"version", "pages", "column", "tables"}
  BY DEF StoreIInv, Shape
<1>3. PICK v \in -1..kCurrentSchemaVersion + 1 : db' = [db EXCEPT !.version = v]
  BY DEF FlipStamp
<1>4. /\ DOMAIN db' = {"version", "pages", "column", "tables"} /\ db'.version = v
      /\ db'.column = db.column /\ db'.pages = db.pages /\ db'.tables = db.tables
  BY <1>2, <1>3
<1>5. faults' \in 0..MaxFaults
  BY <1>1, FaultBound
<1>6. harmed' \in BOOLEAN /\ (~harmed' => ~harmed /\ Full)
  BY <1>1
<1>7. Shape'
  BY <1>1, <1>3, <1>4, <1>5, <1>6 DEF StoreIInv, Shape
<1>8. UpIsCurrent' /\ OpenerIsRight'
  BY <1>1 DEF UpIsCurrent, OpenerIsRight
<1>9. DropNeedsHarm'
  BY <1>1, <1>4, <1>6 DEF StoreIInv, DropNeedsHarm, Full
<1>10. ColumnFollowsStamp' /\ SchemaMatchesStamp'
  BY <1>1 DEF ColumnFollowsStamp, SchemaMatchesStamp
<1>11. RowNames' /\ RowsSurvive' /\ (dropped' => needs_rebuild')
  BY <1>1, <1>4, <1>6 DEF StoreIInv, RowNames, RowsSurvive
<1> QED BY <1>7, <1>8, <1>9, <1>10, <1>11 DEF StoreIInv

\* Every write of the engine is one row of one of our tables.
LEMMA WritesAreRows ==
  ASSUME NEW k, NEW v
  PROVE  /\ insert_order(k, v) \/ upsert_order(k, v) => Put("orders", k, v)
         /\ insert_trade(k, v) => Put("trades", k, v)
         /\ upsert_position(k, v) => Put("positions", k, v)
         /\ upsert_funds(k, v) => Put("funds", k, v)
         /\ insert_risk_event(v) => Put("risk_events", NextId("risk_events"), v)
         /\ insert_audit(v) => Put("audit", NextId("audit"), v)
         /\ {"orders", "trades", "positions", "funds", "risk_events", "audit"} \subseteq kTableNames
BY DEF insert_order, upsert_order, insert_trade, upsert_position, upsert_funds, insert_risk_event,
       insert_audit, kTableNames, Unique, Appended

LEMMA StoreInvPreserved == StoreIInv /\ [Next]_vars => StoreIInv'
<1> SUFFICES ASSUME StoreIInv, [Next]_vars PROVE StoreIInv'
  OBVIOUS
<1>1. CASE Open \/ Refuse \/ Crash
  BY <1>1, OpeningSteps
<1>2. CASE check_integrity \/ read_user_version \/ check_tables
  BY <1>2, IntegrityStep, VersionStep, TablesStep
<1>3. CASE apply_migrations \/ Opened \/ reset
  BY <1>3, MigrateStep, OpenedStep, ResetStep
<1>4. ASSUME NEW k \in Key, NEW v \in Value,
             \/ insert_order(k, v) \/ upsert_order(k, v) \/ insert_trade(k, v)
             \/ upsert_position(k, v) \/ upsert_funds(k, v)
      PROVE  StoreIInv'
  BY <1>4, WritesAreRows, PutStep
<1>5. ASSUME NEW v \in Value, insert_risk_event(v) \/ insert_audit(v)
      PROVE  StoreIInv'
  BY <1>5, WritesAreRows, PutStep
<1>6. CASE DamagePages \/ LoseTable \/ FlipStamp
  BY <1>6, DamageStep, FlipStep
<1>7. CASE UNCHANGED vars
  <2>1. Shape' /\ UpIsCurrent' /\ OpenerIsRight' /\ (pc' = "reset" => harmed) /\ (dropped' => needs_rebuild')
    BY <1>7 DEF vars, StoreIInv, Shape, UpIsCurrent, OpenerIsRight, Full, DropNeedsHarm
  <2> QED BY <1>7, <2>1, StayKeeps DEF vars
<1> QED BY <1>1, <1>2, <1>3, <1>4, <1>5, <1>6, <1>7 DEF Next

-----------------------------------------------------------------------------
(* The files a run may start on.                                           *)

LEMMA LeftFile ==
  ASSUME NEW version, NEW tables
  PROVE  /\ DOMAIN Left(version, tables) = {"version", "pages", "column", "tables"}
         /\ Left(version, tables).version = version /\ Left(version, tables).pages = "sound"
         /\ Left(version, tables).column = (version >= 2)
         /\ DOMAIN Left(version, tables).tables = tables
         /\ \A t \in tables \intersect Appended :
               /\ DOMAIN Left(version, tables).tables[t] = {1}
               /\ Left(version, tables).tables[t][1] = CHOOSE v \in Value : TRUE
BY DEF Left

LEMMA StoreInvInit == Init => StoreIInv
<1> SUFFICES ASSUME Init PROVE StoreIInv
  OBVIOUS
<1> DEFINE first == CHOOSE v \in Value : TRUE
<1>1. /\ pc = "down" /\ strict = FALSE /\ found = 0 /\ needs_rebuild = FALSE
      /\ harmed = FALSE /\ stamped = FALSE /\ dropped = FALSE /\ writes = 0 /\ faults = 0
      /\ written = [x \in {<<t, 1>> : t \in Appended \intersect DOMAIN db.tables} |-> first]
  BY DEF Init
<1>2. PICK version, tables :
        /\ db = Left(version, tables)
        /\ \/ version = 0 /\ tables = {}
           \/ version \in {1, 2} /\ tables = kTableNames
           \/ version = 3
  BY DEF Init
<1> HIDE DEF first
<1>3. /\ DOMAIN db = {"version", "pages", "column", "tables"}
      /\ db.version = version /\ db.pages = "sound"
      /\ db.column = (version >= 2)
      /\ DOMAIN db.tables = tables
  BY <1>2, LeftFile
<1>4. version \in 0..3
  BY <1>2
<1>5. Shape
  <2>1. /\ writes \in 0..MaxWrites /\ faults \in 0..MaxFaults /\ found \in 0..kCurrentSchemaVersion
        /\ db.version \in -1..kCurrentSchemaVersion + 1
    BY <1>1, <1>3, <1>4, StoreBounds DEF kCurrentSchemaVersion
  <2>2. db.column \in BOOLEAN
    BY <1>3
  <2> QED BY <1>1, <1>3, <2>1, <2>2 DEF Shape
<1>6. UpIsCurrent /\ OpenerIsRight /\ DropNeedsHarm /\ (dropped => needs_rebuild)
  BY <1>1, <1>3 DEF UpIsCurrent, OpenerIsRight, DropNeedsHarm
<1>7. ColumnFollowsStamp
  BY <1>3, <1>4 DEF ColumnFollowsStamp
<1>8. SchemaMatchesStamp
  <2>0. db.version = version /\ DOMAIN db.tables = tables /\ (db.column <=> version >= 2)
    BY <1>3
  <2>1. kTableNames # {}
    BY DEF kTableNames, Unique
  <2>2. version <= 2 => (version = 0 /\ tables = {}) \/ (version \in {1, 2} /\ tables = kTableNames)
    BY <1>2
  <2>3. CASE version = 0 /\ tables = {}
    BY <2>0, <2>1, <2>3 DEF SchemaMatchesStamp
  <2>4. CASE version \in {1, 2} /\ tables = kTableNames
    BY <2>0, <2>1, <2>4 DEF SchemaMatchesStamp
  <2>5. CASE version = 3
    BY <2>0, <2>5 DEF SchemaMatchesStamp, kCurrentSchemaVersion
  <2> QED BY <1>4, <2>2, <2>3, <2>4, <2>5
<1>9. \A x \in DOMAIN written : \E t \in Appended \intersect DOMAIN db.tables :
          x = <<t, 1>> /\ written[x] = first
  BY <1>1
<1>10. \A t \in Appended \intersect DOMAIN db.tables :
          DOMAIN db.tables[t] = {1} /\ db.tables[t][1] = first
  BY <1>2, <1>3, LeftFile DEF first
<1>11. RowNames /\ RowsSurvive
  <2> SUFFICES ASSUME NEW x \in DOMAIN written
               PROVE  /\ x = <<x[1], x[2]>>
                      /\ x[1] \in DOMAIN db.tables /\ x[2] \in DOMAIN db.tables[x[1]]
                      /\ db.tables[x[1]][x[2]] = written[x]
    BY DEF RowNames, RowsSurvive
  <2>1. PICK t \in Appended \intersect DOMAIN db.tables : x = <<t, 1>> /\ written[x] = first
    BY <1>9
  <2>2. x[1] = t /\ x[2] = 1
    BY <2>1
  <2> QED BY <1>10, <2>1, <2>2
<1> QED BY <1>5, <1>6, <1>7, <1>8, <1>11 DEF StoreIInv

(* Through deaths, faults and every way of opening: Store::open hands out  *)
(* only the current schema, the stamp never disagrees with the tables      *)
(* unless one was damaged, and whoever dropped the tables says so.         *)
THEOREM StoreIsSound == Spec => []StoreInv
<1>1. StoreIInv => StoreInv
  BY DEF StoreIInv, Shape, UpIsCurrent, Full, StoreInv, TypeOK, DropIsReported
<1> QED BY <1>1, StoreInvInit, StoreInvPreserved, PTL DEF Spec

LEMMA RefusedFileStays == StoreIInv /\ [Next]_vars => RefusedStays
<1> SUFFICES ASSUME StoreIInv, [Next]_vars, db.version \notin 0..kCurrentSchemaVersion, ~harmed,
                    faults' = faults
             PROVE  db' = db
  BY DEF RefusedStays
<1>1. found \in 0..kCurrentSchemaVersion
  BY DEF StoreIInv, Shape
<1>2. ~apply_migrations
  BY <1>1 DEF apply_migrations, StoreIInv, OpenerIsRight
<1>3. ~reset
  BY DEF reset, StoreIInv, DropNeedsHarm
<1>4. \A t, k, v : ~Put(t, k, v)
  <2>1. kCurrentSchemaVersion \in 0..kCurrentSchemaVersion
    BY DEF kCurrentSchemaVersion
  <2> QED BY <2>1 DEF Put, Usable, StoreIInv, UpIsCurrent
<1>5. ~Fault
  BY FaultBound
<1>6. ~DamagePages /\ ~LoseTable /\ ~FlipStamp /\ ~Crash
  BY <1>5 DEF DamagePages, LoseTable, FlipStamp, Crash
<1>7. \A k, v : /\ ~insert_order(k, v) /\ ~upsert_order(k, v) /\ ~insert_trade(k, v)
                /\ ~upsert_position(k, v) /\ ~upsert_funds(k, v)
                /\ ~insert_risk_event(v) /\ ~insert_audit(v)
  BY <1>4, WritesAreRows
<1> QED
  BY <1>2, <1>3, <1>6, <1>7
  DEF Next, Open, Refuse, check_integrity, read_user_version, check_tables, Opened, Stay, vars

(* Nothing is lost by mistake: unless pages or a table were really         *)
(* damaged, every row keeps what it was last given through deaths,         *)
(* refusals, migrations and a flipped stamp; and no step of the store      *)
(* changes a file that a newer build wrote or whose stamp is negative.     *)
THEOREM NothingIsLostByMistake == Spec => NothingIsDestroyed
<1>1. StoreIInv /\ [Next]_vars => [RowsSurvive' /\ RefusedStays]_vars
  BY StoreInvPreserved, RefusedFileStays DEF StoreIInv
<1> QED BY <1>1, StoreInvInit, StoreInvPreserved, PTL DEF Spec, NothingIsDestroyed

-----------------------------------------------------------------------------
(* The shared cache and its lock.                                          *)

\* Steps that need a nonce of their own.
Equipped == (AcquireAt \ {"acquire"}) \cup HolderAt

\* Steps at which a process is about to act on the file at the lock path by
\* name, believing it to be its own.
ByName == HolderAt \cup {"write", "rewrite", "unlink"}

\* Two processes never carry the same nonce.
NoncesDiffer ==
    \A p, q \in Proc : nonce[p] = nonce[q] /\ nonce[p] # NoNonce => p = q

\* A process past the start of an acquisition has a nonce.
EquippedHaveNonce == \A p \in Proc : at[p] \in Equipped => nonce[p] # NoNonce

\* The file of a living owner is fresh.
OldIsAbandoned == lock # NoFile /\ lock.old => ~LiveOwner(lock)

\* What a takeover set aside is stale, and one that must undo itself has lost
\* even that: there is nothing to put back over a sibling's lock.
ClaimsAreStale ==
    \A p \in Proc : /\ claim[p] # NoFile => claim[p].old
                    /\ at[p] \in {"undo", "unlink", "exists", "restore"} => claim[p] = NoFile

\* Whoever acts by name acts on its own file.
NamedIsOwn ==
    \A p \in Proc : at[p] \in ByName => lock # NoFile /\ lock.nonce = nonce[p]

\* The inductive invariant.
LockIInv ==
    /\ RefdataTypeOK
    /\ NoncesDiffer
    /\ EquippedHaveNonce
    /\ sound => OldIsAbandoned /\ ClaimsAreStale /\ NamedIsOwn
    /\ NoFetchAfterPublish

-----------------------------------------------------------------------------
(* Nonces.                                                                 *)

\* The image of a finite set is no larger than the set.
LEMMA ImageIsSmall ==
  ASSUME NEW S, IsFiniteSet(S), NEW f, DOMAIN f = S
  PROVE  /\ IsFiniteSet({f[x] : x \in S})
         /\ Cardinality({f[x] : x \in S}) <= Cardinality(S)
<1> DEFINE T == {f[x] : x \in S}
           g == [x \in S |-> f[x]]
<1>1. g \in Surjection(S, T)
  BY DEF Surjection
<1> QED BY <1>1, FS_Surjection

\* The nonces in use are too few to exhaust the supply, so that the one an
\* acquisition draws is nobody's.
LEMMA FreshIsUnused ==
  ASSUME RefdataTypeOK
  PROVE  FreshNonce \in Nonce /\ FreshNonce \notin Used
<1> DEFINE n == Cardinality(Proc)
           claims == {claim[p] : p \in Proc}
           paths  == claims \cup {lock}
           files  == paths \ {NoFile}
           tag    == [f \in files |-> f.nonce]
           ofFile == {tag[f] : f \in files}
           ofProc == {nonce[p] : p \in Proc}
<1>fin. IsFiniteSet(Proc) /\ n \in Nat
  BY LockConstants, FS_CardinalityType
<1>1. IsFiniteSet(claims) /\ Cardinality(claims) <= n
  <2>1. DOMAIN claim = Proc
    BY DEF RefdataTypeOK, LockTypeOK
  <2> QED BY <2>1, <1>fin, ImageIsSmall
<1>2. IsFiniteSet(ofProc) /\ Cardinality(ofProc) <= n
  <2>1. DOMAIN nonce = Proc
    BY DEF RefdataTypeOK, LockTypeOK
  <2> QED BY <2>1, <1>fin, ImageIsSmall
<1>3. IsFiniteSet(paths) /\ Cardinality(paths) <= n + 1
  <2> HIDE DEF n, claims
  <2>1. Cardinality(claims) \in Nat
    BY <1>1, FS_CardinalityType
  <2>2. /\ IsFiniteSet(claims \cup {lock})
        /\ Cardinality(claims \cup {lock}) =
              IF lock \in claims THEN Cardinality(claims) ELSE Cardinality(claims) + 1
    BY <1>1, FS_AddElement
  <2> QED BY <1>fin, <1>1, <2>1, <2>2
<1>4. IsFiniteSet(files) /\ Cardinality(files) <= n + 1
  <2> HIDE DEF n, paths
  <2>1. files \in SUBSET paths
    OBVIOUS
  <2>2. Cardinality(paths) \in Nat
    BY <1>3, FS_CardinalityType
  <2>3. IsFiniteSet(files) /\ Cardinality(files) <= Cardinality(paths)
    BY <1>3, <2>1, FS_Subset
  <2>4. Cardinality(files) \in Nat
    BY <2>3, FS_CardinalityType
  <2> QED BY <1>fin, <1>3, <2>2, <2>3, <2>4
<1>5. IsFiniteSet(ofFile) /\ Cardinality(ofFile) <= n + 1
  <2> HIDE DEF n, files
  <2>1. DOMAIN tag = files
    OBVIOUS
  <2>2. IsFiniteSet(ofFile) /\ Cardinality(ofFile) <= Cardinality(files)
    <3> HIDE DEF tag
    <3> QED BY <1>4, <2>1, ImageIsSmall
  <2>3. Cardinality(ofFile) \in Nat /\ Cardinality(files) \in Nat
    BY <1>4, <2>2, FS_CardinalityType
  <2> QED BY <1>fin, <1>4, <2>2, <2>3
<1>6. IsFiniteSet(ofFile \cup ofProc) /\ Cardinality(ofFile \cup ofProc) <= 2 * n + 1
  <2> HIDE DEF n, ofFile, ofProc
  <2>1. ofFile \cap ofProc \in SUBSET ofFile
    OBVIOUS
  <2>2. Cardinality(ofFile) \in Nat /\ Cardinality(ofProc) \in Nat
    BY <1>2, <1>5, FS_CardinalityType
  <2>3. IsFiniteSet(ofFile \cap ofProc)
    BY <1>5, <2>1, FS_Subset
  <2>4. Cardinality(ofFile \cap ofProc) \in Nat
    BY <2>3, FS_CardinalityType
  <2>5. /\ IsFiniteSet(ofFile \cup ofProc)
        /\ Cardinality(ofFile \cup ofProc) =
             Cardinality(ofFile) + Cardinality(ofProc) - Cardinality(ofFile \cap ofProc)
    BY <1>2, <1>5, FS_Union
  <2> QED BY <1>fin, <1>2, <1>5, <2>2, <2>4, <2>5
<1>7. Used = ofFile \cup ofProc
  BY DEF Used
<1>8. ~(Nonce \subseteq Used)
  <2> SUFFICES ASSUME Nonce \subseteq Used PROVE FALSE
    OBVIOUS
  <2> HIDE DEF n, ofFile, ofProc
  <2>1. Nonce \in SUBSET Used /\ IsFiniteSet(Used) /\ Cardinality(Used) <= 2 * n + 1
    BY <1>6, <1>7
  <2>2. Cardinality(Nonce) <= Cardinality(Used)
    BY <2>1, FS_Subset
  <2>3. Cardinality(Nonce) \in Nat /\ Cardinality(Used) \in Nat
    BY <2>1, LockConstants, FS_CardinalityType
  <2>4. Cardinality(Nonce) > 2 * n + 1
    BY LockConstants DEF n
  <2> QED BY <1>fin, <2>1, <2>2, <2>3, <2>4
<1> QED BY <1>8 DEF FreshNonce

-----------------------------------------------------------------------------
(* Types.                                                                  *)

LEMMA TypeInitially == RefdataInit => RefdataTypeOK
<1>1. (CHOOSE n \in Nonce : TRUE) \in Nonce
  <2>1. Nonce # {}
    BY LockConstants, FS_EmptySet, FS_CardinalityType
  <2> QED BY <2>1
<1> QED BY <1>1, AttemptsAssumption DEF RefdataInit, RefdataTypeOK, LockInit, LockTypeOK, LockFile, Payload

\* A file that is created, completed or aged is a lock file.
LEMMA FileTypes ==
  /\ \A n \in Nonce : NewFile(n) \in LockFile
  /\ \A f \in LockFile \cup {NoFile} : \A n : Complete(f, n) \in LockFile \cup {NoFile}
  /\ \A f \in LockFile, b \in BOOLEAN : [f EXCEPT !.old = b] \in LockFile
BY DEF NewFile, Complete, LockFile

\* The step of a process inside try_acquire_file_lock keeps the types.
LEMMA AcquireKeepsType ==
  ASSUME RefdataTypeOK, EquippedHaveNonce, NEW p \in Proc, Acquire(p), UNCHANGED cacheVars
  PROVE  RefdataTypeOK' /\ EquippedHaveNonce'
<1> USE DEF RefdataTypeOK, LockTypeOK, Goto, Lost, AcquireAt, HolderAt, cacheVars,
            EquippedHaveNonce, Equipped
<1>1. CASE CreateExclusive(p)
  <2>1. FreshNonce \in Nonce /\ FreshNonce # NoNonce
    BY FreshIsUnused, LockConstants
  <2>2. NewFile(FreshNonce) \in LockFile
    BY <2>1, FileTypes
  <2> QED BY <1>1, <2>1, <2>2 DEF CreateExclusive
<1>2. CASE WritePayload(p)
  BY <1>2, FileTypes DEF WritePayload
<1>3. CASE CheckAge(p) \/ CheckPayload(p) \/ Verify(p)
  BY <1>3 DEF CheckAge, CheckPayload, Verify
<1>4. CASE ClaimStale(p)
  BY ZenonT(60), <1>4 DEF ClaimStale
<1>5. CASE TakeName(p)
  <2>1. nonce[p] \in Nonce
    BY <1>5 DEF TakeName
  <2>2. NewFile(nonce[p]) \in LockFile
    BY <2>1, FileTypes
  <2> QED BY <1>5, <2>2 DEF TakeName
<1>6. CASE Judge(p) \/ Undo(p) \/ UndoUnlink(p) \/ UndoExists(p)
  BY <1>6 DEF Judge, Undo, UndoUnlink, UndoExists
<1>7. CASE Restore(p)
  BY <1>7 DEF Restore
<1> QED BY <1>1, <1>2, <1>3, <1>4, <1>5, <1>6, <1>7 DEF Acquire

LEMMA TypePreserved ==
  RefdataTypeOK /\ EquippedHaveNonce /\ [RefdataNext]_refdataVars => RefdataTypeOK' /\ EquippedHaveNonce'
<1> SUFFICES ASSUME RefdataTypeOK, EquippedHaveNonce, [RefdataNext]_refdataVars PROVE RefdataTypeOK' /\ EquippedHaveNonce'
  OBVIOUS
<1> USE DEF RefdataTypeOK, LockTypeOK, Goto, AcquireAt, HolderAt, Payload, cacheVars,
            EquippedHaveNonce, Equipped
<1>1. ASSUME NEW p \in Proc, Acquire(p), UNCHANGED cacheVars
      PROVE  RefdataTypeOK' /\ EquippedHaveNonce'
  BY <1>1, AcquireKeepsType
<1>2. ASSUME NEW p \in Proc, LeaveCall(p) PROVE RefdataTypeOK' /\ EquippedHaveNonce'
  BY <1>2 DEF LeaveCall, Release, Unlock
<1>3. ASSUME NEW p \in Proc, GetOrFetch(p) \/ LoserRetries(p) \/ DoubleCheck(p)
      PROVE  RefdataTypeOK' /\ EquippedHaveNonce'
  BY <1>3, AttemptsAssumption DEF GetOrFetch, LoserRetries, DoubleCheck
<1>4. ASSUME NEW p \in Proc, Fetch(p) PROVE RefdataTypeOK' /\ EquippedHaveNonce'
  BY <1>4 DEF Fetch
<1>5. ASSUME NEW p \in Proc, AfterFetch(p) PROVE RefdataTypeOK' /\ EquippedHaveNonce'
  <2>1. lock' \in LockFile \cup {NoFile}
    BY <1>5, FileTypes DEF AfterFetch, Touched, still_ours
  <2> QED BY <1>5, <2>1 DEF AfterFetch
<1>6. ASSUME NEW p \in Proc, LastCheck(p) \/ Publish(p) \/ SweepDebris(p)
      PROVE  RefdataTypeOK' /\ EquippedHaveNonce'
  BY <1>6 DEF LastCheck, Publish, SweepDebris
<1>7. ASSUME NEW p \in Proc, ProcessDies(p) PROVE RefdataTypeOK' /\ EquippedHaveNonce'
  BY <1>7, AttemptsAssumption DEF ProcessDies, Die, Forget
<1>8. ASSUME TimePasses PROVE RefdataTypeOK' /\ EquippedHaveNonce'
  <2>1. CASE Age /\ UNCHANGED cacheVars
    <3>1. lock \in LockFile /\ lock' \in LockFile
      BY <2>1, FileTypes DEF Age
    <3> QED BY <2>1, <3>1 DEF Age
  <2>2. ASSUME NEW p \in Proc, AgeClaim(p), UNCHANGED cacheVars
        PROVE  RefdataTypeOK' /\ EquippedHaveNonce'
    <3>1. claim[p] \in LockFile /\ [claim[p] EXCEPT !.old = TRUE] \in LockFile
      BY <2>2, FileTypes DEF AgeClaim
    <3> QED BY <2>2, <3>1 DEF AgeClaim
  <2> QED BY <1>8, <2>1, <2>2 DEF TimePasses
<1>9. CASE UNCHANGED refdataVars
  BY <1>9 DEF refdataVars, lockVars
<1> QED BY <1>1, <1>2, <1>3, <1>4, <1>5, <1>6, <1>7, <1>8, <1>9 DEF RefdataNext, ProcessStep

-----------------------------------------------------------------------------
(* The lock.                                                               *)

LEMMA LockInitially == RefdataInit => LockIInv
<1> SUFFICES ASSUME RefdataInit PROVE LockIInv
  OBVIOUS
<1>1. RefdataTypeOK
  BY TypeInitially
<1>2. \A p \in Proc : at[p] = "out" /\ claim[p] = NoFile /\ nonce[p] = NoNonce
  BY DEF RefdataInit, LockInit
<1>3. lock # NoFile => lock.nonce # NoNonce
  BY <1>1, LockConstants DEF RefdataTypeOK, LockTypeOK, LockFile
<1>4. NoncesDiffer /\ EquippedHaveNonce /\ NoFetchAfterPublish
  BY <1>2 DEF NoncesDiffer, EquippedHaveNonce, Equipped, AcquireAt, HolderAt, NoFetchAfterPublish
<1>5. OldIsAbandoned
  BY <1>2, <1>3 DEF OldIsAbandoned, LiveOwner
<1>6. ClaimsAreStale /\ NamedIsOwn
  BY <1>2 DEF ClaimsAreStale, NamedIsOwn, ByName, HolderAt
<1> QED BY <1>1, <1>4, <1>5, <1>6 DEF LockIInv

\* A step of the lock keeps the nonces apart.
LEMMA AcquireKeepsNonces ==
  ASSUME LockIInv, NEW p \in Proc, Acquire(p)
  PROVE  NoncesDiffer'
<1> USE DEF LockIInv, NoncesDiffer, RefdataTypeOK, LockTypeOK, Goto, Lost
<1>1. CASE CreateExclusive(p)
  <2>1. \A q \in Proc : nonce[q] # FreshNonce
    BY FreshIsUnused DEF Used
  <2> QED BY <1>1, <2>1 DEF CreateExclusive
<1>2. CASE WritePayload(p) \/ CheckAge(p) \/ CheckPayload(p) \/ Verify(p)
  BY <1>2 DEF WritePayload, CheckAge, CheckPayload, Verify
<1>3. CASE ClaimStale(p) \/ TakeName(p) \/ Judge(p)
  BY <1>3 DEF ClaimStale, TakeName, Judge
<1>4. CASE Undo(p) \/ UndoUnlink(p) \/ UndoExists(p) \/ Restore(p)
  BY <1>4 DEF Undo, UndoUnlink, UndoExists, Restore
<1> QED BY <1>1, <1>2, <1>3, <1>4 DEF Acquire

\* What the lock promises while the history is sound.
Sound == OldIsAbandoned /\ ClaimsAreStale /\ NamedIsOwn

\* A process that gives up leaves the file at the path alone.
LEMMA LosingKeepsSound ==
  ASSUME LockIInv, NEW p \in Proc, Lost(p), sound, UNCHANGED lock,
         claim' = claim \/ claim' = [claim EXCEPT ![p] = NoFile]
  PROVE  Sound'
<1>1. /\ at' = [at EXCEPT ![p] = "lost"] /\ nonce' = [nonce EXCEPT ![p] = NoNonce]
      /\ lock # NoFile => lock.nonce # NoNonce
  BY LockConstants DEF Lost, Goto, LockIInv, RefdataTypeOK, LockTypeOK, LockFile
<1>2. OldIsAbandoned'
  BY <1>1 DEF OldIsAbandoned, LiveOwner, LockIInv, RefdataTypeOK, LockTypeOK
<1>3. ClaimsAreStale'
  BY <1>1 DEF ClaimsAreStale, LockIInv, RefdataTypeOK, LockTypeOK
<1>4. NamedIsOwn'
  BY <1>1 DEF NamedIsOwn, ByName, HolderAt, LockIInv, RefdataTypeOK, LockTypeOK
<1> QED BY <1>2, <1>3, <1>4 DEF Sound

LEMMA AcquireKeepsSound ==
  ASSUME LockIInv, RefdataTypeOK', NEW p \in Proc, Acquire(p), sound'
  PROVE  sound /\ Sound'
<1> USE DEF LockIInv, RefdataTypeOK, LockTypeOK, Goto, Lost, NoncesDiffer, EquippedHaveNonce,
            Equipped, AcquireAt, Sound, OldIsAbandoned, ClaimsAreStale, NamedIsOwn, ByName, HolderAt,
            LiveOwner
<1>a. NoNonce \notin Nonce /\ \A f \in LockFile : f.nonce \in Nonce
  BY LockConstants DEF LockFile
<1>1. CASE CreateExclusive(p)
  <2>1. /\ FreshNonce \in Nonce
        /\ lock # NoFile => lock.nonce # FreshNonce
        /\ \A q \in Proc : nonce[q] # FreshNonce
    BY FreshIsUnused DEF Used
  <2>2. sound /\ UNCHANGED claim
    BY <1>1 DEF CreateExclusive
  <2>3. CASE /\ lock = NoFile /\ lock' = NewFile(FreshNonce)
             /\ at' = [at EXCEPT ![p] = "write"] /\ nonce' = [nonce EXCEPT ![p] = FreshNonce]
    <3>1. \A q \in Proc : at[q] \notin ByName
      BY <2>2, <2>3
    <3>2. lock' # NoFile /\ lock'.nonce = FreshNonce /\ ~lock'.old
      <4>1. lock' \in LockFile
        BY <2>1, <2>3, FileTypes
      <4> QED BY <2>3, <4>1, LockConstants DEF NewFile, LockFile
    <3> QED BY <2>2, <2>3, <3>1, <3>2
  <2>4. CASE /\ UNCHANGED lock
             /\ at' = [at EXCEPT ![p] = "age"] /\ nonce' = [nonce EXCEPT ![p] = FreshNonce]
    <3>1. OldIsAbandoned'
      BY <2>1, <2>2, <2>4
    <3>2. ClaimsAreStale' /\ NamedIsOwn'
      BY <1>1, <2>2, <2>4 DEF CreateExclusive
    <3> QED BY <2>2, <3>1, <3>2
  <2>5. CASE Lost(p) /\ UNCHANGED lock
    BY <2>2, <2>5, LosingKeepsSound
  <2> QED BY <1>1, <2>3, <2>4, <2>5 DEF CreateExclusive
<1>2. CASE WritePayload(p)
  <2> QED BY <1>a, <1>2 DEF WritePayload, Complete, LockFile
<1>3. CASE CheckAge(p)
  BY <1>a, <1>3 DEF CheckAge
<1>4. CASE CheckPayload(p)
  BY <1>a, <1>4 DEF CheckPayload
<1>5. CASE Verify(p)
  BY <1>a, <1>5 DEF Verify
<1>6. CASE ClaimStale(p)
  <2>1. CASE lock = NoFile
    <3>1. Lost(p) /\ sound /\ UNCHANGED <<lock, claim>>
      BY <1>6, <2>1 DEF ClaimStale
    <3> QED BY <3>1, LosingKeepsSound
  <2>2. CASE lock # NoFile
    <3>1. sound /\ lock.old
      BY <1>6, <2>2 DEF ClaimStale
    <3>2. \A q \in Proc : nonce[q] # lock.nonce
      BY <2>2, <3>1
    <3>3. \A q \in Proc : at[q] \notin ByName
      BY <2>2, <3>1, <3>2
    <3> QED BY <1>6, <2>2, <3>1, <3>3 DEF ClaimStale
  <2> QED BY <2>1, <2>2
<1>7. CASE TakeName(p)
  <2>1. CASE lock = NoFile /\ lock' = NewFile(nonce[p]) /\ UNCHANGED <<claim, nonce>>
    <3>1. \A q \in Proc : at[q] \notin ByName
      BY <1>7, <2>1 DEF TakeName
    <3>2. lock' # NoFile /\ lock'.nonce = nonce[p] /\ ~lock'.old
      <4>1. nonce[p] \in Nonce
        BY <1>7 DEF TakeName
      <4>2. lock' \in LockFile
        BY <2>1, <4>1, FileTypes
      <4> QED BY <2>1, <4>2, LockConstants DEF NewFile, LockFile
    <3> QED BY <1>7, <2>1, <3>1, <3>2 DEF TakeName
  <2>2. CASE Lost(p) /\ UNCHANGED lock /\ claim' = [claim EXCEPT ![p] = NoFile]
    <3>1. sound
      BY <1>7 DEF TakeName
    <3> QED BY <2>2, <3>1, LosingKeepsSound
  <2> QED BY <1>7, <2>1, <2>2 DEF TakeName
<1>8. CASE Judge(p)
  BY <1>a, <1>8 DEF Judge
<1>9. CASE Undo(p)
  BY <1>a, <1>9 DEF Undo
<1>10. CASE UndoUnlink(p)
  BY <1>a, <1>10 DEF UndoUnlink
<1>11. CASE UndoExists(p)
  BY <1>a, <1>11 DEF UndoExists
<1>12. CASE Restore(p)
  BY <1>a, <1>12 DEF Restore
<1> QED BY <1>1, <1>2, <1>3, <1>4, <1>5, <1>6, <1>7, <1>8, <1>9, <1>10, <1>11, <1>12 DEF Acquire

\* The other steps keep the nonces apart and the lock sound.
LEMMA OtherStepsKeepLock ==
  ASSUME LockIInv, RefdataTypeOK', NEW p \in Proc,
         \/ LeaveCall(p) \/ GetOrFetch(p) \/ LoserRetries(p) \/ DoubleCheck(p) \/ Fetch(p)
         \/ AfterFetch(p) \/ LastCheck(p) \/ Publish(p) \/ SweepDebris(p) \/ ProcessDies(p)
  PROVE  NoncesDiffer' /\ (sound' => sound /\ Sound')
<1> USE DEF LockIInv, RefdataTypeOK, LockTypeOK, Goto, NoncesDiffer, Sound, OldIsAbandoned,
            ClaimsAreStale, NamedIsOwn, ByName, HolderAt, LiveOwner
<1>a. NoNonce \notin Nonce /\ \A f \in LockFile : f.nonce \in Nonce
  BY LockConstants DEF LockFile
<1>1. CASE LeaveCall(p)
  <2>1. CASE Release(p)
    BY <1>a, <2>1 DEF Release
  <2>2. CASE Unlock(p)
    <3>1. ASSUME sound, NEW q \in Proc, q # p PROVE at[q] \notin ByName
      <4>1. lock # NoFile /\ lock.nonce = nonce[p] /\ lock.nonce \in Nonce
        BY <1>a, <2>2, <3>1 DEF Unlock
      <4> QED BY <1>a, <3>1, <4>1
    <3> QED BY <1>a, <2>2, <3>1 DEF Unlock
  <2> QED BY <1>1, <2>1, <2>2 DEF LeaveCall
<1>2. CASE GetOrFetch(p) \/ LoserRetries(p)
  BY <1>2 DEF GetOrFetch, LoserRetries
<1>3. CASE DoubleCheck(p) \/ Fetch(p) \/ LastCheck(p) \/ Publish(p)
  BY <1>3 DEF DoubleCheck, Fetch, LastCheck, Publish, cacheVars
<1>4. CASE AfterFetch(p)
  <2>1. /\ lock # NoFile <=> lock' # NoFile
        /\ lock # NoFile => lock'.nonce = lock.nonce /\ (lock'.old => lock.old)
    BY <1>4, LockConstants DEF AfterFetch, Touched, still_ours, LockFile
  <2> QED BY <1>4, <2>1 DEF AfterFetch
<1>5. CASE SweepDebris(p)
  BY <1>5 DEF SweepDebris
<1>6. CASE ProcessDies(p)
  BY <1>a, <1>6 DEF ProcessDies, Die
<1> QED BY <1>1, <1>2, <1>3, <1>4, <1>5, <1>6

\* Time may pass for a living owner's file, but then the history is not sound.
LEMMA TimeKeepsLock ==
  ASSUME LockIInv, RefdataTypeOK', TimePasses
  PROVE  NoncesDiffer' /\ (sound' => sound /\ Sound')
<1> USE DEF LockIInv, RefdataTypeOK, LockTypeOK, NoncesDiffer, Sound, OldIsAbandoned, ClaimsAreStale,
            NamedIsOwn, ByName, HolderAt, LiveOwner
<1>1. CASE Age
  <2>1. lock # NoFile /\ lock' # NoFile /\ lock'.nonce = lock.nonce
    BY <1>1, LockConstants DEF Age, LockFile
  <2> QED BY <1>1, <2>1 DEF Age
<1>2. ASSUME NEW p \in Proc, AgeClaim(p) PROVE NoncesDiffer' /\ (sound' => sound /\ Sound')
  BY <1>2 DEF AgeClaim
<1> QED BY <1>1, <1>2 DEF TimePasses

\* Two processes that act by name are one.
LEMMA OneByName ==
  ASSUME LockIInv, sound, NEW p \in Proc, NEW q \in Proc, at[p] \in ByName, at[q] \in ByName
  PROVE  p = q
<1>1. lock.nonce = nonce[p] /\ lock.nonce = nonce[q] /\ lock.nonce # NoNonce
  BY LockConstants DEF LockIInv, NamedIsOwn, RefdataTypeOK, LockTypeOK, LockFile
<1> QED BY <1>1 DEF LockIInv, NoncesDiffer

\* Only a winner publishes, and only a winner is about to download.
LEMMA FetchPreserved ==
  ASSUME LockIInv, [RefdataNext]_refdataVars, sound' => sound
  PROVE  NoFetchAfterPublish'
<1> USE DEF LockIInv, RefdataTypeOK, LockTypeOK, NoFetchAfterPublish, Goto
<1>1. ASSUME NEW p \in Proc, Acquire(p), UNCHANGED cacheVars PROVE NoFetchAfterPublish'
  <2>1. \A q \in Proc : at'[q] = "fetch" => at[q] = "fetch"
    BY <1>1 DEF Acquire, CreateExclusive, WritePayload, CheckAge, CheckPayload, Verify, ClaimStale,
                TakeName, Judge, Undo, UndoUnlink, UndoExists, Restore, Lost
  <2> QED BY <1>1, <2>1 DEF cacheVars
<1>2. ASSUME NEW p \in Proc, LeaveCall(p) PROVE NoFetchAfterPublish'
  BY <1>2 DEF LeaveCall, Release, Unlock, cacheVars
<1>3. ASSUME NEW p \in Proc,
             GetOrFetch(p) \/ LoserRetries(p) \/ DoubleCheck(p) \/ Fetch(p) \/ AfterFetch(p)
             \/ LastCheck(p) \/ SweepDebris(p) \/ ProcessDies(p)
      PROVE  NoFetchAfterPublish'
  BY <1>3 DEF GetOrFetch, LoserRetries, DoubleCheck, Fetch, AfterFetch, LastCheck, SweepDebris,
              ProcessDies, Die, cacheVars, read_valid_artifact
<1>4. ASSUME NEW p \in Proc, Publish(p) PROVE NoFetchAfterPublish'
  <2>1. sound => \A q \in Proc : at[q] # "fetch"
    BY <1>4, OneByName DEF Publish, ByName, HolderAt
  <2> QED BY <1>4, <2>1 DEF Publish
<1>5. ASSUME TimePasses PROVE NoFetchAfterPublish'
  BY <1>5 DEF TimePasses, Age, AgeClaim, cacheVars
<1>6. CASE UNCHANGED refdataVars
  BY <1>6 DEF refdataVars, lockVars
<1> QED BY <1>1, <1>2, <1>3, <1>4, <1>5, <1>6 DEF RefdataNext, ProcessStep

LEMMA LockPreserved == LockIInv /\ [RefdataNext]_refdataVars => LockIInv'
<1> SUFFICES ASSUME LockIInv, [RefdataNext]_refdataVars PROVE LockIInv'
  OBVIOUS
<1>1. RefdataTypeOK' /\ EquippedHaveNonce'
  BY TypePreserved DEF LockIInv
<1>2. NoncesDiffer' /\ (sound' => sound /\ Sound')
  <2>1. ASSUME NEW p \in Proc, Acquire(p) PROVE NoncesDiffer' /\ (sound' => sound /\ Sound')
    BY <1>1, <2>1, AcquireKeepsNonces, AcquireKeepsSound
  <2>2. CASE UNCHANGED refdataVars
    BY <2>2 DEF refdataVars, lockVars, LockIInv, NoncesDiffer, Sound, OldIsAbandoned, ClaimsAreStale,
                NamedIsOwn, LiveOwner
  <2> QED BY <1>1, <2>1, <2>2, OtherStepsKeepLock, TimeKeepsLock DEF RefdataNext, ProcessStep
<1>3. NoFetchAfterPublish'
  BY <1>2, FetchPreserved
<1> QED BY <1>1, <1>2, <1>3 DEF LockIInv, Sound

\* The inductive invariant gives what the cache promises.
LEMMA LockGivesCache == LockIInv => CacheInv
<1> SUFFICES ASSUME LockIInv PROVE CacheInv
  OBVIOUS
<1>1. sound => Cardinality(Holders) <= 1
  <2> SUFFICES ASSUME sound PROVE Cardinality(Holders) <= 1
    OBVIOUS
  <2>1. \A p, q \in Holders : p = q
    BY OneByName DEF Holders, ByName
  <2>2. CASE Holders = {}
    BY <2>2, FS_EmptySet
  <2>3. CASE Holders # {}
    <3>1. PICK p \in Holders : TRUE
      BY <2>3
    <3>2. Holders = {p}
      BY <2>1, <3>1
    <3> QED BY <3>2, FS_Singleton
  <2> QED BY <2>2, <2>3
<1> QED BY <1>1 DEF CacheInv, LockIInv, NoTwoWinners

\* file_lock.cpp and shared_refdata_cache.cpp, for any number of sibling
\* processes: unless an owner outlives the staleness window or a takeover claims
\* a fresh lock, one process at a time holds the lock and none downloads what has
\* been published, whatever calls fail and whoever dies.
THEOREM OneWinnerOneDownload == RefdataSpec => []CacheInv
<1>1. RefdataInit => LockIInv
  BY LockInitially
<1>2. LockIInv /\ [RefdataNext]_refdataVars => LockIInv'
  BY LockPreserved
<1>3. LockIInv => CacheInv
  BY LockGivesCache
<1> QED BY <1>1, <1>2, <1>3, PTL DEF RefdataSpec

-----------------------------------------------------------------------------
(* The intent log.                                                         *)

(* Hashes are attempt numbers: they grow along the file, the records a     *)
(* process knows and the appends that were acknowledged.                   *)
Growing(s) == \A i, j \in DOMAIN s : i < j => s[i] < s[j]

HashesGrow ==
  /\ \A i, j \in DOMAIN lines : i < j => lines[i].hash < lines[j].hash
  /\ \A i \in DOMAIN lines : lines[i].hash \in 1 .. attempts
  /\ Growing(known) /\ \A i \in DOMAIN known : known[i] \in 1 .. attempts
  /\ Growing(acked) /\ \A i \in DOMAIN acked : acked[i] \in 1 .. attempts

(* A file whose directory entry may be lost has acknowledged nothing.      *)
AckedIsNamed == (proc # "down" => named) /\ (acked # <<>> => named)

(* Every line but the last ends in a newline.                              *)
InnerLinesEnd == \A i \in DOMAIN lines : i < Len(lines) => lines[i].nl

(* Two records were glued into one that no power cut takes back.  replay   *)
(* will refuse this file for ever.                                         *)
Spoilt == \E i \in 1 .. synced : ~lines[i].whole /\ lines[i].nl

(* The record of an append is on stable storage, whole.                    *)
Stored(h) == \E i \in 1 .. synced : lines[i].hash = h /\ lines[i].whole /\ lines[i].nl

AckedIsStored == Spoilt \/ \A i \in DOMAIN acked : Stored(acked[i])

AckedIsKnown ==
  proc = "ready" => \A i \in DOMAIN acked : \E k \in DOMAIN known : known[k] = acked[i]

(* As long as no process goes on after a failed append, the file is a      *)
(* chain, torn at most at its end, and the cursor of a process that has    *)
(* not failed stands at that end.                                          *)
CursorAtEnd ==
  /\ next_seq = Len(lines) + 1
  /\ last_hash = IF lines = <<>> THEN 0 ELSE lines[Len(lines)].hash
  /\ lines # <<>> => lines[Len(lines)].nl

ChainHolds ==
  ~retried => /\ Intact \/ TornTail
              /\ proc = "ready" /\ ~failed => Intact /\ CursorAtEnd
              /\ proc = "opened" => ~failed

LogIInv ==
  /\ LogTypeOK
  /\ HashesGrow /\ AckedIsNamed /\ InnerLinesEnd
  /\ AckedIsStored /\ AckedIsKnown
  /\ ChainHolds
  /\ RefusesOnlyAfterRetry

-----------------------------------------------------------------------------
(* The four ways a file changes, line by line.                             *)

LEMMA LineFields ==
  ASSUME NEW l \in Line
  PROVE  /\ l.seq \in Nat /\ l.prev \in Nat /\ l.hash \in Nat
         /\ l.whole \in BOOLEAN /\ l.nl \in BOOLEAN
BY DEF Line

\* A line reaches the file as a line of its own, or is glued to an unended one.
LEMMA GluedLines ==
  ASSUME LogTypeOK, NEW l \in Line
  PROVE  /\ Glued(l) \in Seq(Line)
         /\ \A i \in DOMAIN lines : i # Len(lines) \/ lines[i].nl => Glued(l)[i] = lines[i]
         /\ \/ /\ Len(Glued(l)) = Len(lines) + 1
               /\ Glued(l)[Len(lines) + 1] = l
               /\ \A i \in DOMAIN lines : Glued(l)[i] = lines[i]
               /\ lines # <<>> => lines[Len(lines)].nl
            \/ /\ lines # <<>> /\ ~lines[Len(lines)].nl
               /\ Len(Glued(l)) = Len(lines)
               /\ Glued(l)[Len(lines)].hash = lines[Len(lines)].hash
               /\ ~Glued(l)[Len(lines)].whole
               /\ Glued(l)[Len(lines)].nl = l.nl
<1>0. lines \in Seq(Line)
  BY DEF LogTypeOK
<1>1. CASE lines # <<>> /\ ~lines[Len(lines)].nl
  <2>1. Len(lines) \in DOMAIN lines /\ Len(lines) \in Nat /\ lines[Len(lines)] \in Line
    BY <1>0, <1>1
  <2> DEFINE last == [lines[Len(lines)] EXCEPT !.whole = FALSE, !.nl = l.nl]
  <2>2. last \in Line
    BY <2>1, LineFields DEF Line
  <2>3. Glued(l) = [lines EXCEPT ![Len(lines)] = last]
    <3> DEFINE mid == [lines EXCEPT ![Len(lines)].whole = FALSE]
    <3>1. mid = [lines EXCEPT ![Len(lines)] = [lines[Len(lines)] EXCEPT !.whole = FALSE]]
      BY <2>1
    <3>2. mid[Len(lines)] = [lines[Len(lines)] EXCEPT !.whole = FALSE] /\ DOMAIN mid = DOMAIN lines
      BY <2>1
    <3>3. Glued(l) = [mid EXCEPT ![Len(lines)].nl = l.nl]
      BY <1>1 DEF Glued
    <3>4. Glued(l) = [mid EXCEPT ![Len(lines)] = last]
      BY <3>2, <3>3, <2>1
    <3> QED BY <3>1, <3>4, <2>1
  <2>4. /\ last.hash = lines[Len(lines)].hash
        /\ ~last.whole /\ last.nl = l.nl
    BY <1>0, <2>1 DEF Line
  <2> HIDE DEF last
  <2> QED BY <1>0, <1>1, <2>1, <2>2, <2>3, <2>4
<1>2. CASE ~(lines # <<>> /\ ~lines[Len(lines)].nl)
  <2>1. Glued(l) = Append(lines, l)
    BY <1>2 DEF Glued
  <2> QED BY <1>0, <1>2, <2>1
<1> QED BY <1>1, <1>2

LEMMA EmptyFile ==
  ASSUME NEW s \in Seq(Line)
  PROVE  s = <<>> <=> Len(s) = 0
OBVIOUS

LEMMA Prefix ==
  ASSUME NEW s \in Seq(Line), NEW n \in 0 .. Len(s)
  PROVE  /\ SubSeq(s, 1, n) \in Seq(Line)
         /\ Len(SubSeq(s, 1, n)) = n
         /\ \A i \in 1 .. n : SubSeq(s, 1, n)[i] = s[i]
OBVIOUS

\* A prefix and a part of the line after it.
LEMMA CutShort ==
  ASSUME NEW s \in Seq(Line), NEW n \in 0 .. Len(s), n < Len(s), NEW w \in {FALSE, s[n + 1].whole}
  PROVE  LET t == Append(SubSeq(s, 1, n), [s[n + 1] EXCEPT !.whole = w, !.nl = FALSE])
         IN  /\ t \in Seq(Line)
             /\ Len(t) = n + 1
             /\ \A i \in 1 .. n : t[i] = s[i]
             /\ t[n + 1] = [s[n + 1] EXCEPT !.whole = w, !.nl = FALSE]
             /\ t[n + 1].seq = s[n + 1].seq /\ t[n + 1].prev = s[n + 1].prev
             /\ t[n + 1].hash = s[n + 1].hash /\ t[n + 1].whole = w /\ ~t[n + 1].nl
<1> DEFINE cut == [s[n + 1] EXCEPT !.whole = w, !.nl = FALSE]
<1>1. n + 1 \in DOMAIN s /\ s[n + 1] \in Line
  OBVIOUS
<1>2. /\ cut \in Line
      /\ cut.seq = s[n + 1].seq /\ cut.prev = s[n + 1].prev
      /\ cut.hash = s[n + 1].hash /\ cut.whole = w /\ ~cut.nl
  BY <1>1, LineFields DEF Line
<1> HIDE DEF cut
<1>3. LET t == Append(SubSeq(s, 1, n), cut)
      IN  /\ t \in Seq(Line) /\ Len(t) = n + 1
          /\ \A i \in 1 .. n : t[i] = s[i]
          /\ t[n + 1] = cut
  BY <1>2, Prefix
<1> QED BY <1>2, <1>3 DEF cut

\* The missing newline is written.
LEMMA LineEnded ==
  ASSUME NEW s \in Seq(Line), s # <<>>
  PROVE  LET t == [s EXCEPT ![Len(s)].nl = TRUE]
         IN  /\ t \in Seq(Line)
             /\ Len(t) = Len(s)
             /\ \A i \in 1 .. (Len(s) - 1) : t[i] = s[i]
             /\ t[Len(s)].seq = s[Len(s)].seq /\ t[Len(s)].prev = s[Len(s)].prev
             /\ t[Len(s)].hash = s[Len(s)].hash /\ t[Len(s)].whole = s[Len(s)].whole
             /\ t[Len(s)].nl
<1> DEFINE last == [s[Len(s)] EXCEPT !.nl = TRUE]
<1>1. Len(s) \in DOMAIN s /\ s[Len(s)] \in Line /\ Len(s) \in Nat
  OBVIOUS
<1>2. /\ last \in Line
      /\ last.seq = s[Len(s)].seq /\ last.prev = s[Len(s)].prev
      /\ last.hash = s[Len(s)].hash /\ last.whole = s[Len(s)].whole /\ last.nl
  BY <1>1, LineFields DEF Line
<1> DEFINE t == [s EXCEPT ![Len(s)].nl = TRUE]
<1>3. t = [s EXCEPT ![Len(s)] = last]
  BY <1>1
<1> HIDE DEF last, t
<1>4. t \in Seq(Line) /\ Len(t) = Len(s) /\ t[Len(s)] = last
  BY <1>1, <1>2, <1>3
<1>5. \A i \in 1 .. (Len(s) - 1) : t[i] = s[i]
  BY <1>1, <1>3
<1>6. /\ t[Len(s)].seq = s[Len(s)].seq /\ t[Len(s)].prev = s[Len(s)].prev
      /\ t[Len(s)].hash = s[Len(s)].hash /\ t[Len(s)].whole = s[Len(s)].whole
      /\ t[Len(s)].nl
  BY <1>2, <1>4
<1> QED BY <1>4, <1>5, <1>6 DEF t

-----------------------------------------------------------------------------
(* Types.                                                                  *)

LEMMA NewLineFields ==
  ASSUME LogTypeOK, NEW w \in BOOLEAN, NEW e \in BOOLEAN
  PROVE  /\ NewLine(w, e) \in Line
         /\ NewLine(w, e).seq = next_seq /\ NewLine(w, e).prev = last_hash
         /\ NewLine(w, e).hash = attempts + 1
         /\ NewLine(w, e).whole = w /\ NewLine(w, e).nl = e
BY DEF LogTypeOK, NewLine, Line

\* What a failed append leaves in the file.
LEMMA PartlyWritten ==
  ASSUME LogTypeOK, AppendFails, lines' # lines
  PROVE  \E w, e \in BOOLEAN : lines' = Glued(NewLine(w, e)) /\ (~w => ~e)
<1>1. PICK part \in {<<FALSE, FALSE>>, <<TRUE, FALSE>>, <<TRUE, TRUE>>} :
        lines' = Glued(NewLine(part[1], part[2]))
  BY DEF AppendFails
<1>2. CASE part = <<FALSE, FALSE>>
  BY <1>1, <1>2
<1>3. CASE part = <<TRUE, FALSE>>
  BY <1>1, <1>3
<1>4. CASE part = <<TRUE, TRUE>>
  BY <1>1, <1>4
<1> QED BY <1>1, <1>2, <1>3, <1>4

LEMMA LogTypePreserved == LogTypeOK /\ [LogNext]_logVars => LogTypeOK'
<1> SUFFICES ASSUME LogTypeOK, [LogNext]_logVars PROVE LogTypeOK'
  OBVIOUS
<1>0. lines \in Seq(Line) /\ Len(lines) \in Nat /\ synced \in 0 .. Len(lines)
  BY DEF LogTypeOK
<1>1. CASE OpenLog
  <2>1. known' \in Seq(Nat) /\ next_seq' \in Nat \ {0} /\ last_hash' \in Nat
    BY <1>1 DEF OpenLog
  <2>2. named' \in BOOLEAN /\ proc' \in {"down", "opened", "ready"}
    BY <1>1 DEF OpenLog, LogTypeOK
  <2>3. exists' \in BOOLEAN /\ failed' \in BOOLEAN
    BY <1>1 DEF OpenLog
  <2>4. boots' \in Nat /\ UNCHANGED <<lines, synced, acked, refused, retried, attempts>>
    BY <1>1 DEF OpenLog, LogTypeOK
  <2> QED BY <2>1, <2>2, <2>3, <2>4 DEF LogTypeOK
<1>2. CASE AppendOk
  <2>1. lines' = Glued(NewLine(TRUE, TRUE)) /\ synced' = Len(lines')
    BY <1>2 DEF AppendOk
  <2>2. lines' \in Seq(Line)
    <3>1. NewLine(TRUE, TRUE) \in Line
      BY NewLineFields
    <3> QED BY <2>1, <3>1, GluedLines
  <2>3. synced' \in 0 .. Len(lines')
    <3>1. Len(lines') \in Nat
      BY <2>2
    <3>2. synced' = Len(lines')
      BY <2>1
    <3> QED BY <3>1, <3>2
  <2>4. attempts + 1 \in Nat /\ next_seq + 1 \in Nat \ {0} /\ attempts' = attempts + 1
    BY <1>2 DEF LogTypeOK, AppendOk, MayAppend
  <2>5. /\ Append(known, attempts + 1) \in Seq(Nat)
        /\ Append(acked, attempts + 1) \in Seq(Nat)
    BY <2>4 DEF LogTypeOK
  <2> QED BY <1>2, <2>2, <2>3, <2>4, <2>5 DEF AppendOk, MayAppend, LogTypeOK
<1>3. CASE AppendFails
  <2>1. lines' \in Seq(Line) /\ synced' \in 0 .. Len(lines')
    <3>1. CASE lines' = lines
      BY <1>0, <1>3, <3>1 DEF AppendFails
    <3>2. CASE lines' # lines
      <4>1. PICK w \in BOOLEAN, e \in BOOLEAN : lines' = Glued(NewLine(w, e))
        BY <1>3, <3>2, PartlyWritten
      <4> QED BY <1>0, <1>3, <4>1, NewLineFields, GluedLines DEF AppendFails
    <3> QED BY <3>1, <3>2
  <2> QED BY <1>3, <2>1 DEF AppendFails, MayAppend, LogTypeOK
<1>4. ASSUME NEW n \in 0 .. Len(lines), Rebuilt(n)
      PROVE  known' \in Seq(Nat) /\ next_seq' \in Nat \ {0} /\ last_hash' \in Nat
  <2>1. \A i \in 1 .. n : lines[i] \in Line
    BY <1>0
  <2>2. \A i \in 1 .. n : lines[i].hash \in Nat
    BY <2>1, LineFields
  <2>3. n \in Nat
    BY <1>0
  <2> QED BY <1>4, <2>2, <2>3 DEF Rebuilt
<1>5. CASE ReplayIntact
  <2>1. lines' \in Seq(Line) /\ synced' \in 0 .. Len(lines')
    BY <1>0, <1>5, LineEnded DEF ReplayIntact
  <2>2. known' \in Seq(Nat) /\ next_seq' \in Nat \ {0} /\ last_hash' \in Nat /\ proc' = "ready"
    BY <1>0, <1>4, <1>5 DEF ReplayIntact, Rebuilt
  <2> QED BY <1>5, <2>1, <2>2 DEF ReplayIntact, LogTypeOK
<1>6. CASE ReplayTorn
  <2>1. Len(lines) - 1 \in 0 .. Len(lines)
    BY <1>0, <1>6 DEF ReplayTorn, TornTail
  <2>2. lines' \in Seq(Line) /\ synced' \in 0 .. Len(lines')
    BY <1>0, <1>6, <2>1, Prefix DEF ReplayTorn
  <2>3. known' \in Seq(Nat) /\ next_seq' \in Nat \ {0} /\ last_hash' \in Nat /\ proc' = "ready"
    BY <2>1, <1>4, <1>6 DEF ReplayTorn, Rebuilt
  <2> QED BY <1>6, <2>2, <2>3 DEF ReplayTorn, LogTypeOK
<1>7. CASE ReplayRefuses
  BY <1>7 DEF ReplayRefuses, file, LogTypeOK
<1>8. CASE ReplayFails
  <2>1. lines' \in Seq(Line)
    <3>1. TornTail => Len(lines) - 1 \in 0 .. Len(lines)
      BY <1>0 DEF TornTail
    <3> QED BY <1>0, <1>8, <3>1, Prefix, LineEnded DEF ReplayFails
  <2>2. synced' \in 0 .. Len(lines')
    BY <1>0, <1>8, <2>1 DEF ReplayFails
  <2> QED BY <1>8, <2>1, <2>2 DEF ReplayFails, LogTypeOK
<1>9. CASE LogCrash
  BY <1>9 DEF LogCrash, file, LogTypeOK
<1>10. CASE PowerCut
  <2>1. lines' \in Seq(Line)
    <3>1. CASE lines' = <<>>
      <4>1. <<>> \in Seq(Line)
        OBVIOUS
      <4> QED BY <3>1, <4>1
    <3>2. CASE \E n \in synced .. Len(lines) : lines' = SubSeq(lines, 1, n)
      BY <1>0, <3>2, Prefix
    <3>3. CASE \E n \in synced .. Len(lines) :
                 /\ n < Len(lines)
                 /\ \E w \in {FALSE, lines[n + 1].whole} :
                      lines' = Append(SubSeq(lines, 1, n),
                                      [lines[n + 1] EXCEPT !.whole = w, !.nl = FALSE])
      <4>1. PICK n \in synced .. Len(lines) :
               /\ n < Len(lines)
               /\ \E w \in {FALSE, lines[n + 1].whole} :
                    lines' = Append(SubSeq(lines, 1, n),
                                    [lines[n + 1] EXCEPT !.whole = w, !.nl = FALSE])
        BY <3>3
      <4>2. n \in 0 .. Len(lines)
        BY <1>0
      <4>3. PICK w \in {FALSE, lines[n + 1].whole} :
               lines' = Append(SubSeq(lines, 1, n),
                               [lines[n + 1] EXCEPT !.whole = w, !.nl = FALSE])
        BY <4>1
      <4>4. Append(SubSeq(lines, 1, n), [lines[n + 1] EXCEPT !.whole = w, !.nl = FALSE]) \in Seq(Line)
        BY <1>0, <4>1, <4>2, CutShort
      <4> QED BY <4>3, <4>4
    <3> QED BY <1>10, <3>1, <3>2, <3>3 DEF PowerCut
  <2>2. synced' \in 0 .. Len(lines')
    <3>1. (synced' = 0 /\ lines' = <<>>) \/ synced' = Len(lines')
      BY <1>10 DEF PowerCut
    <3> QED BY <2>1, <3>1
  <2> QED BY <1>10, <2>1, <2>2 DEF PowerCut, LogTypeOK
<1>11. CASE UNCHANGED logVars
  BY <1>11 DEF logVars, LogTypeOK
<1> QED BY <1>1, <1>2, <1>3, <1>5, <1>6, <1>7, <1>8, <1>9, <1>10, <1>11 DEF LogNext

-----------------------------------------------------------------------------
(* What each step does to the file.                                        *)

\* An append: a new line of its own, or one more glued record, or nothing.
Grown(l) ==
  /\ Len(lines') = Len(lines) + 1
  /\ lines'[Len(lines) + 1] = l
  /\ \A i \in DOMAIN lines : lines'[i] = lines[i]
  /\ lines # <<>> => lines[Len(lines)].nl

Merged(l) ==
  /\ lines # <<>> /\ ~lines[Len(lines)].nl
  /\ Len(lines') = Len(lines)
  /\ \A i \in 1 .. (Len(lines) - 1) : lines'[i] = lines[i]
  /\ lines'[Len(lines)].hash = lines[Len(lines)].hash
  /\ ~lines'[Len(lines)].whole
  /\ lines'[Len(lines)].nl = l.nl

\* replay ends the last line or cuts it off.
Ended ==
  /\ lines # <<>>
  /\ Len(lines') = Len(lines)
  /\ \A i \in 1 .. (Len(lines) - 1) : lines'[i] = lines[i]
  /\ lines'[Len(lines)].seq = lines[Len(lines)].seq
  /\ lines'[Len(lines)].prev = lines[Len(lines)].prev
  /\ lines'[Len(lines)].hash = lines[Len(lines)].hash
  /\ lines'[Len(lines)].whole = lines[Len(lines)].whole
  /\ lines'[Len(lines)].nl

Kept(n) == Len(lines') = n /\ \A i \in 1 .. n : lines'[i] = lines[i]

\* A power cut leaves n lines and a piece of the next.
Torn(n) ==
  /\ n < Len(lines) /\ Len(lines') = n + 1
  /\ \A i \in 1 .. n : lines'[i] = lines[i]
  /\ lines'[n + 1].seq = lines[n + 1].seq
  /\ lines'[n + 1].prev = lines[n + 1].prev
  /\ lines'[n + 1].hash = lines[n + 1].hash
  /\ lines'[n + 1].whole => lines[n + 1].whole
  /\ ~lines'[n + 1].nl

LEMMA AppendGrows ==
  ASSUME LogTypeOK, NEW l \in Line, lines' = Glued(l)
  PROVE  Grown(l) \/ Merged(l)
<1>1. Len(lines) \in Nat /\ DOMAIN lines = 1 .. Len(lines)
  BY DEF LogTypeOK
<1>2. \A i \in 1 .. (Len(lines) - 1) : lines'[i] = lines[i]
  BY SMTT(30), <1>1, GluedLines
<1>3. CASE lines # <<>> => lines[Len(lines)].nl
  <2>1. /\ Len(lines') = Len(lines) + 1
        /\ lines'[Len(lines) + 1] = l
        /\ \A i \in DOMAIN lines : lines'[i] = lines[i]
    BY <1>3, GluedLines
  <2> QED BY <1>3, <2>1 DEF Grown
<1>4. CASE lines # <<>> /\ ~lines[Len(lines)].nl
  <2>1. /\ Len(lines') = Len(lines)
        /\ lines'[Len(lines)].hash = lines[Len(lines)].hash
        /\ ~lines'[Len(lines)].whole
        /\ lines'[Len(lines)].nl = l.nl
    BY <1>4, GluedLines
  <2> QED BY <1>2, <1>4, <2>1 DEF Merged
<1> QED BY <1>3, <1>4

LEMMA ReplayIntactFile ==
  ASSUME LogTypeOK, ReplayIntact
  PROVE  \/ /\ UNCHANGED <<lines, synced>> /\ (lines # <<>> => lines[Len(lines)].nl)
         \/ Ended /\ synced' = Len(lines)
BY LineEnded DEF ReplayIntact, Ended, LogTypeOK

LEMMA ReplayTornFile ==
  ASSUME LogTypeOK, ReplayTorn
  PROVE  Kept(Len(lines) - 1) /\ synced' = Len(lines) - 1
<1>1. Len(lines) - 1 \in 0 .. Len(lines)
  BY DEF LogTypeOK, ReplayTorn, TornTail
<1> QED BY <1>1, Prefix DEF ReplayTorn, Kept, LogTypeOK

LEMMA ReplayFailsFile ==
  ASSUME LogTypeOK, ReplayFails
  PROVE  \/ UNCHANGED <<lines, synced>>
         \/ TornTail /\ Kept(Len(lines) - 1)
              /\ synced' = IF synced < Len(lines) - 1 THEN synced ELSE Len(lines) - 1
         \/ Intact /\ Ended /\ UNCHANGED synced
<1>0. lines \in Seq(Line) /\ Len(lines) \in Nat /\ synced \in 0 .. Len(lines)
  BY DEF LogTypeOK
<1>1. CASE lines' = lines
  BY <1>0, <1>1 DEF ReplayFails
<1>2. CASE TornTail /\ lines' = SubSeq(lines, 1, Len(lines) - 1)
  <2>1. Len(lines) - 1 \in 0 .. Len(lines)
    BY <1>0, <1>2 DEF TornTail
  <2>2. Kept(Len(lines) - 1)
    BY <1>0, <1>2, <2>1, Prefix DEF Kept
  <2>3. Len(lines') = Len(lines) - 1
    BY <2>2 DEF Kept
  <2>4. synced' = IF synced < Len(lines') THEN synced ELSE Len(lines')
    BY DEF ReplayFails
  <2>5. synced' = IF synced < Len(lines) - 1 THEN synced ELSE Len(lines) - 1
    BY <2>3, <2>4
  <2> QED BY <1>2, <2>2, <2>5
<1>3. CASE Intact /\ lines # <<>> /\ lines' = [lines EXCEPT ![Len(lines)].nl = TRUE]
  <2>1. Ended
    BY <1>0, <1>3, LineEnded DEF Ended
  <2>2. Len(lines') = Len(lines)
    BY <2>1 DEF Ended
  <2>3. synced' = IF synced < Len(lines') THEN synced ELSE Len(lines')
    BY DEF ReplayFails
  <2>4. synced' = synced
    BY <1>0, <2>2, <2>3
  <2> QED BY <1>3, <2>1, <2>4
<1> QED BY <1>1, <1>2, <1>3 DEF ReplayFails

LEMMA PowerCutFile ==
  ASSUME LogTypeOK, PowerCut
  PROVE  \/ ~named /\ lines' = <<>> /\ synced' = 0
         \/ \E n \in synced .. Len(lines) : (Kept(n) \/ Torn(n)) /\ synced' = Len(lines')
<1>0. lines \in Seq(Line) /\ Len(lines) \in Nat /\ synced \in 0 .. Len(lines)
  BY DEF LogTypeOK
<1>1. ASSUME NEW n \in synced .. Len(lines), lines' = SubSeq(lines, 1, n)
      PROVE  Kept(n)
  BY <1>0, <1>1, Prefix DEF Kept
<1>2. ASSUME NEW n \in synced .. Len(lines), n < Len(lines),
             NEW w \in {FALSE, lines[n + 1].whole},
             lines' = Append(SubSeq(lines, 1, n),
                             [lines[n + 1] EXCEPT !.whole = w, !.nl = FALSE])
      PROVE  Torn(n)
  <2>1. n \in 0 .. Len(lines)
    BY <1>0
  <2> DEFINE t == Append(SubSeq(lines, 1, n), [lines[n + 1] EXCEPT !.whole = w, !.nl = FALSE])
  <2>2. /\ t \in Seq(Line)
        /\ Len(t) = n + 1
        /\ \A i \in 1 .. n : t[i] = lines[i]
        /\ t[n + 1] = [lines[n + 1] EXCEPT !.whole = w, !.nl = FALSE]
        /\ t[n + 1].seq = lines[n + 1].seq /\ t[n + 1].prev = lines[n + 1].prev
        /\ t[n + 1].hash = lines[n + 1].hash /\ t[n + 1].whole = w /\ ~t[n + 1].nl
    BY ZenonT(30), <1>0, <1>2, <2>1, CutShort
  <2>3. t = lines'
    BY <1>2
  <2> HIDE DEF t
  <2> QED BY <1>2, <2>2, <2>3 DEF Torn
<1> QED BY <1>1, <1>2 DEF PowerCut

-----------------------------------------------------------------------------
(* Hashes, names and newlines.                                             *)

\* The file part of HashesGrow, and InnerLinesEnd.
FileGrows ==
  /\ \A i, j \in DOMAIN lines : i < j => lines[i].hash < lines[j].hash
  /\ \A i \in DOMAIN lines : lines[i].hash \in 1 .. attempts
  /\ InnerLinesEnd

\* A file that only loses lines from its end keeps its order.
LEMMA SameHashes ==
  ASSUME LogTypeOK, LogTypeOK', FileGrows, attempts <= attempts', Len(lines') <= Len(lines),
         \A i \in 1 .. Len(lines') : lines'[i].hash = lines[i].hash,
         \A i \in 1 .. (Len(lines') - 1) : lines'[i].nl = lines[i].nl
  PROVE  FileGrows'
<1>0. /\ Len(lines) \in Nat /\ Len(lines') \in Nat /\ attempts \in Nat /\ attempts' \in Nat
      /\ DOMAIN lines = 1 .. Len(lines) /\ DOMAIN lines' = 1 .. Len(lines')
  BY DEF LogTypeOK
<1>1. \A i \in 1 .. Len(lines') : i \in 1 .. Len(lines)
  BY <1>0
<1>2. \A i, j \in DOMAIN lines' : i < j => lines'[i].hash < lines'[j].hash
  BY <1>0, <1>1 DEF FileGrows
<1>3. \A i \in DOMAIN lines' : lines'[i].hash \in 1 .. attempts'
  BY <1>0, <1>1 DEF FileGrows
<1>4. InnerLinesEnd'
  BY <1>0, <1>1 DEF FileGrows, InnerLinesEnd
<1> QED BY <1>2, <1>3, <1>4 DEF FileGrows

LEMMA FileGrowsPreserved ==
  ASSUME LogTypeOK, LogTypeOK', FileGrows, [LogNext]_logVars
  PROVE  FileGrows'
<1>0. /\ lines \in Seq(Line) /\ Len(lines) \in Nat /\ synced \in 0 .. Len(lines)
      /\ lines' \in Seq(Line) /\ Len(lines') \in Nat
      /\ DOMAIN lines = 1 .. Len(lines) /\ DOMAIN lines' = 1 .. Len(lines')
      /\ attempts \in Nat
  BY DEF LogTypeOK
<1>z. Len(lines) \in Nat /\ Len(lines') \in Nat
  BY <1>0
<1>1. ASSUME NEW w \in BOOLEAN, NEW e \in BOOLEAN, attempts' = attempts + 1,
             lines' = Glued(NewLine(w, e))
      PROVE  FileGrows'
  <2>1. NewLine(w, e) \in Line /\ NewLine(w, e).hash = attempts + 1
    BY NewLineFields
  <2>2. CASE Grown(NewLine(w, e))
    <3>1. /\ Len(lines') = Len(lines) + 1 /\ lines'[Len(lines) + 1].hash = attempts + 1
          /\ \A i \in 1 .. Len(lines) : lines'[i].hash = lines[i].hash
      BY <1>0, <2>1, <2>2 DEF Grown
    <3>2. \A i \in 1 .. Len(lines) : lines'[i].nl
      BY <1>0, <2>2 DEF Grown, FileGrows, InnerLinesEnd
    <3>3. \A i \in 1 .. Len(lines) : lines[i].hash < attempts + 1 /\ lines[i].hash \in 1 .. attempts
      BY <1>0 DEF FileGrows
    <3>4. \A i \in 1 .. (Len(lines) + 1) : i \in 1 .. Len(lines) \/ i = Len(lines) + 1
      BY <1>0
    <3>5. InnerLinesEnd'
      BY <1>0, <3>1, <3>2 DEF InnerLinesEnd
    <3>6. \A i \in DOMAIN lines' : lines'[i].hash \in 1 .. attempts'
      BY <1>0, <1>1, <3>1, <3>3, <3>4
    <3>7. ASSUME NEW i \in DOMAIN lines', NEW j \in DOMAIN lines', i < j
          PROVE  lines'[i].hash < lines'[j].hash
      <4>1. i \in 1 .. Len(lines)
        BY <1>0, <3>1, <3>7
      <4>2. CASE j = Len(lines) + 1
        BY <3>1, <3>3, <4>1, <4>2
      <4>3. CASE j \in 1 .. Len(lines)
        BY <1>0, <3>1, <3>7, <4>1, <4>3 DEF FileGrows
      <4> QED BY <1>0, <3>1, <4>2, <4>3
    <3> QED BY <3>5, <3>6, <3>7 DEF FileGrows
  <2>3. CASE Merged(NewLine(w, e))
    <3>1. Len(lines') = Len(lines)
      BY <2>3 DEF Merged
    <3>2. \A i \in 1 .. (Len(lines) - 1) : lines'[i].hash = lines[i].hash /\ lines'[i].nl = lines[i].nl
      BY <2>3 DEF Merged
    <3>3. lines'[Len(lines)].hash = lines[Len(lines)].hash
      BY <2>3 DEF Merged
    <3>4. \A i \in 1 .. Len(lines) : i \in 1 .. (Len(lines) - 1) \/ i = Len(lines)
      BY <1>z
    <3>5. \A i \in 1 .. Len(lines') : lines'[i].hash = lines[i].hash
      BY <3>1, <3>2, <3>3, <3>4
    <3>6. \A i \in 1 .. (Len(lines') - 1) : lines'[i].nl = lines[i].nl
      BY <3>1, <3>2
    <3>7. attempts <= attempts' /\ Len(lines') <= Len(lines)
      BY <1>0, <1>1, <1>z, <3>1
    <3> QED BY <3>5, <3>6, <3>7, SameHashes
  <2> QED BY <1>1, <2>1, <2>2, <2>3, AppendGrows
<1>2. CASE AppendOk
  BY <1>1, <1>2 DEF AppendOk, MayAppend
<1>3. CASE AppendFails
  <2>1. attempts' = attempts + 1
    BY <1>3 DEF AppendFails, MayAppend
  <2>2. CASE lines' = lines
    BY <1>0, <2>1, <2>2 DEF FileGrows, InnerLinesEnd
  <2>3. CASE lines' # lines
    BY <1>1, <1>3, <2>1, <2>3, PartlyWritten
  <2> QED BY <2>2, <2>3
<1>4. CASE Ended /\ attempts' = attempts
  <2>1. Len(lines') = Len(lines)
    BY <1>4 DEF Ended
  <2>2. \A i \in 1 .. (Len(lines) - 1) : lines'[i].hash = lines[i].hash /\ lines'[i].nl = lines[i].nl
    BY <1>4 DEF Ended
  <2>3. lines'[Len(lines)].hash = lines[Len(lines)].hash
    BY <1>4 DEF Ended
  <2>4. \A i \in 1 .. Len(lines) : i \in 1 .. (Len(lines) - 1) \/ i = Len(lines)
    BY <1>z
  <2>5. \A i \in 1 .. Len(lines') : lines'[i].hash = lines[i].hash
    BY <2>1, <2>2, <2>3, <2>4
  <2>6. \A i \in 1 .. (Len(lines') - 1) : lines'[i].nl = lines[i].nl
    BY <2>1, <2>2
  <2>7. attempts <= attempts' /\ Len(lines') <= Len(lines)
    BY <1>0, <1>4, <1>z, <2>1
  <2> QED BY <2>5, <2>6, <2>7, SameHashes
<1>5. ASSUME NEW n \in 0 .. Len(lines), Kept(n) \/ Torn(n), attempts' = attempts
      PROVE  FileGrows'
  <2>1. CASE Kept(n)
    BY <1>0, <1>5, <2>1, SameHashes DEF Kept
  <2>2. CASE Torn(n)
    <3>1. Len(lines') = n + 1 /\ n + 1 <= Len(lines) /\ n \in Nat
      BY <1>0, <2>2 DEF Torn
    <3>2. \A i \in 1 .. n : lines'[i].hash = lines[i].hash /\ lines'[i].nl = lines[i].nl
      BY <2>2 DEF Torn
    <3>3. lines'[n + 1].hash = lines[n + 1].hash
      BY <2>2 DEF Torn
    <3>4. \A i \in 1 .. (n + 1) : i \in 1 .. n \/ i = n + 1
      BY <3>1
    <3> QED BY <1>0, <1>5, <3>1, <3>2, <3>3, <3>4, SameHashes
  <2> QED BY <1>5, <2>1, <2>2
<1>6. CASE UNCHANGED <<lines, attempts>>
  BY <1>6 DEF FileGrows, InnerLinesEnd
<1>7. CASE lines' = <<>>
  BY <1>7 DEF FileGrows, InnerLinesEnd
<1>8. CASE ReplayIntact
  BY <1>4, <1>6, <1>8, ReplayIntactFile DEF ReplayIntact
<1>9. CASE ReplayTorn
  <2>1. Len(lines) - 1 \in 0 .. Len(lines)
    BY <1>0, <1>9 DEF ReplayTorn, TornTail
  <2> QED BY <1>5, <1>9, <2>1, ReplayTornFile DEF ReplayTorn
<1>10. CASE ReplayFails
  <2>1. TornTail => Len(lines) - 1 \in 0 .. Len(lines)
    BY <1>0 DEF TornTail
  <2> QED BY <1>4, <1>5, <1>6, <1>10, <2>1, ReplayFailsFile DEF ReplayFails
<1>11. CASE PowerCut
  <2>1. ASSUME NEW n \in synced .. Len(lines) PROVE n \in 0 .. Len(lines)
    BY <1>0
  <2> QED BY <1>5, <1>7, <1>11, <2>1, PowerCutFile DEF PowerCut
<1> QED
  BY <1>2, <1>3, <1>6, <1>8, <1>9, <1>10, <1>11
  DEF LogNext, OpenLog, ReplayRefuses, LogCrash, file, logVars

\* The records a process knows and the acknowledged ones.
NamesGrow ==
  /\ Growing(known) /\ \A i \in DOMAIN known : known[i] \in 1 .. attempts
  /\ Growing(acked) /\ \A i \in DOMAIN acked : acked[i] \in 1 .. attempts

LEMMA NamesGrowPreserved ==
  ASSUME LogTypeOK, FileGrows, NamesGrow, [LogNext]_logVars
  PROVE  NamesGrow'
<1> USE DEF NamesGrow, Growing
<1>0. /\ lines \in Seq(Line) /\ Len(lines) \in Nat /\ attempts \in Nat
      /\ known \in Seq(Nat) /\ acked \in Seq(Nat)
  BY DEF LogTypeOK
<1>1. ASSUME NEW s \in Seq(Nat), Growing(s), \A i \in DOMAIN s : s[i] \in 1 .. attempts
      PROVE  LET t == Append(s, attempts + 1)
             IN  Growing(t) /\ \A i \in DOMAIN t : t[i] \in 1 .. (attempts + 1)
  <2> DEFINE t == Append(s, attempts + 1)
  <2>1. /\ Len(s) \in Nat /\ DOMAIN s = 1 .. Len(s) /\ DOMAIN t = 1 .. (Len(s) + 1)
        /\ \A i \in 1 .. Len(s) : t[i] = s[i]
        /\ t[Len(s) + 1] = attempts + 1
    BY <1>0
  <2> HIDE DEF t
  <2>2. \A i \in 1 .. (Len(s) + 1) : i \in 1 .. Len(s) \/ i = Len(s) + 1
    BY <2>1
  <2>3. \A i \in DOMAIN t : t[i] \in 1 .. (attempts + 1)
    BY <1>0, <1>1, <2>1, <2>2
  <2>4. ASSUME NEW i \in DOMAIN t, NEW j \in DOMAIN t, i < j
        PROVE  t[i] < t[j]
    <3>1. i \in 1 .. Len(s)
      BY <2>1, <2>4
    <3>2. CASE j \in 1 .. Len(s)
      <4>1. s[i] < s[j]
        BY <1>1, <2>1, <2>4, <3>1, <3>2
      <4> QED BY <2>1, <3>1, <3>2, <4>1
    <3>3. CASE j = Len(s) + 1
      <4>1. s[i] \in 1 .. attempts
        BY <1>1, <2>1, <3>1
      <4> QED BY <1>0, <2>1, <3>1, <3>3, <4>1
    <3> QED BY <2>1, <2>2, <3>2, <3>3
  <2> QED BY <2>3, <2>4 DEF t
<1>2. CASE AppendOk
  BY <1>0, <1>1, <1>2 DEF AppendOk, MayAppend
<1>3. CASE AppendFails
  BY <1>0, <1>3 DEF AppendFails, MayAppend
<1>4. ASSUME NEW n \in 0 .. Len(lines), Rebuilt(n), UNCHANGED <<acked, attempts>>
      PROVE  NamesGrow'
  <2>1. /\ DOMAIN known' = 1 .. n
        /\ \A i \in 1 .. n : known'[i] = lines[i].hash
        /\ 1 .. n \subseteq DOMAIN lines
    BY <1>0, <1>4 DEF Rebuilt
  <2> QED BY <1>4, <2>1 DEF FileGrows
<1>5. CASE ReplayIntact
  BY <1>0, <1>4, <1>5 DEF ReplayIntact
<1>6. CASE ReplayTorn
  <2>1. Len(lines) - 1 \in 0 .. Len(lines)
    BY <1>0, <1>6 DEF ReplayTorn, TornTail
  <2> QED BY <1>4, <1>6, <2>1 DEF ReplayTorn
<1>7. CASE OpenLog
  BY <1>7 DEF OpenLog
<1>8. CASE UNCHANGED <<known, acked, attempts>>
  BY <1>8
<1> QED
  BY <1>2, <1>3, <1>5, <1>6, <1>7, <1>8
  DEF LogNext, ReplayRefuses, ReplayFails, LogCrash, PowerCut, logVars

LEMMA AckedIsNamedPreserved ==
  ASSUME LogTypeOK, AckedIsNamed, [LogNext]_logVars
  PROVE  AckedIsNamed'
BY DEF LogTypeOK, AckedIsNamed, LogNext, OpenLog, AppendOk, AppendFails, MayAppend, ReplayIntact, ReplayTorn,
       ReplayRefuses, ReplayFails, Rebuilt, LogCrash, PowerCut, file, logVars

-----------------------------------------------------------------------------
(* What is on stable storage stays there.                                  *)

\* Every synced line that has its newline is in the file after the step, synced
\* and as it was.
SyncedStays ==
  \A i \in 1 .. synced :
    lines[i].nl => /\ i \in 1 .. synced'
                   /\ lines'[i].nl
                   /\ lines'[i].whole = lines[i].whole
                   /\ lines'[i].hash = lines[i].hash

LEMMA Below ==
  ASSUME NEW n \in Nat, NEW m \in 0 .. n, NEW i \in 1 .. m
  PROVE  i \in 1 .. n /\ (i # n => i \in 1 .. (n - 1))
OBVIOUS

LEMMA SyncedStaysThroughAppend ==
  ASSUME LogTypeOK, NEW l \in Line, Grown(l) \/ Merged(l), synced' = synced \/ synced' = Len(lines')
  PROVE  SyncedStays
<1>0. Len(lines) \in Nat /\ synced \in 0 .. Len(lines) /\ DOMAIN lines = 1 .. Len(lines)
  BY DEF LogTypeOK
<1>1. synced <= synced' /\ synced' \in Nat
  BY <1>0 DEF Grown, Merged
<1> SUFFICES ASSUME NEW i \in 1 .. synced, lines[i].nl
             PROVE  i \in 1 .. synced' /\ lines'[i] = lines[i]
  BY DEF SyncedStays
<1>2. i \in 1 .. synced' /\ i \in 1 .. Len(lines)
  BY <1>0, <1>1
<1>3. CASE Grown(l)
  BY <1>0, <1>2, <1>3 DEF Grown
<1>4. CASE Merged(l)
  <2>1. i # Len(lines)
    BY <1>4 DEF Merged
  <2>2. i \in 1 .. (Len(lines) - 1)
    BY <1>0, <2>1, Below
  <2> QED BY <1>2, <1>4, <2>2 DEF Merged
<1> QED BY <1>3, <1>4

LEMMA SyncedStaysThroughReplay ==
  ASSUME LogTypeOK, ReplayIntact \/ ReplayTorn \/ ReplayFails
  PROVE  SyncedStays
<1>0. Len(lines) \in Nat /\ synced \in 0 .. Len(lines) /\ DOMAIN lines = 1 .. Len(lines)
  BY DEF LogTypeOK
<1>1. CASE UNCHANGED <<lines, synced>>
  BY <1>1 DEF SyncedStays
<1>2. CASE Ended /\ (synced' = Len(lines) \/ synced' = synced)
  <2> SUFFICES ASSUME NEW i \in 1 .. synced, lines[i].nl
               PROVE  /\ i \in 1 .. synced' /\ lines'[i].nl
                      /\ lines'[i].whole = lines[i].whole /\ lines'[i].hash = lines[i].hash
    BY DEF SyncedStays
  <2>1. i \in 1 .. synced' /\ (i \in 1 .. (Len(lines) - 1) \/ i = Len(lines))
    <3>1. synced' = Len(lines) \/ synced' = synced
      BY <1>2
    <3> QED BY <1>0, <3>1, Below
  <2>2. CASE i = Len(lines)
    BY <1>2, <2>1, <2>2 DEF Ended
  <2>3. CASE i \in 1 .. (Len(lines) - 1)
    BY <1>2, <2>1, <2>3 DEF Ended
  <2> QED BY <2>1, <2>2, <2>3
<1>3. CASE /\ TornTail /\ Kept(Len(lines) - 1)
           /\ synced' = Len(lines) - 1 \/ synced' = IF synced < Len(lines) - 1 THEN synced ELSE Len(lines) - 1
  <2> SUFFICES ASSUME NEW i \in 1 .. synced, lines[i].nl
               PROVE  i \in 1 .. synced' /\ lines'[i] = lines[i]
    BY DEF SyncedStays
  <2>1. i # Len(lines)
    BY <1>3 DEF TornTail
  <2>2. i \in 1 .. (Len(lines) - 1)
    BY <1>0, <2>1, Below
  <2>3. i \in 1 .. synced'
    BY <1>3, <2>2
  <2> QED BY <1>3, <2>2, <2>3 DEF Kept
<1>4. ReplayTorn => TornTail
  BY DEF ReplayTorn
<1> QED BY <1>1, <1>2, <1>3, <1>4, ReplayIntactFile, ReplayTornFile, ReplayFailsFile

LEMMA SyncedStaysThroughPowerCut ==
  ASSUME LogTypeOK, LogTypeOK', PowerCut, named
  PROVE  SyncedStays
<1>0. Len(lines) \in Nat /\ synced \in 0 .. Len(lines)
  BY DEF LogTypeOK
<1>1. PICK n \in synced .. Len(lines) : (Kept(n) \/ Torn(n)) /\ synced' = Len(lines')
  BY PowerCutFile
<1>2. synced' = n \/ synced' = n + 1
  BY <1>1 DEF Kept, Torn
<1>3. \A i \in 1 .. n : lines'[i] = lines[i]
  BY <1>1 DEF Kept, Torn
<1>4. ASSUME NEW i \in 1 .. synced
      PROVE  i \in 1 .. n /\ i \in 1 .. synced'
  BY <1>0, <1>2
<1> QED BY <1>3, <1>4 DEF SyncedStays

LEMMA StoredStays ==
  ASSUME SyncedStays
  PROVE  /\ Spoilt => Spoilt'
         /\ \A h : Stored(h) => Stored(h)'
BY DEF SyncedStays, Spoilt, Stored

LEMMA AckedIsStoredPreserved ==
  ASSUME LogTypeOK, LogTypeOK', AckedIsNamed, AckedIsStored, [LogNext]_logVars
  PROVE  AckedIsStored'
<1>1. ASSUME SyncedStays, acked' = acked
      PROVE  AckedIsStored'
  BY <1>1, StoredStays DEF AckedIsStored
<1>2. CASE UNCHANGED <<lines, synced, acked>>
  BY <1>2 DEF AckedIsStored, Spoilt, Stored
<1>3. CASE AppendOk
  <2> DEFINE l == NewLine(TRUE, TRUE)
  <2>1. l \in Line /\ l.hash = attempts + 1 /\ l.whole = TRUE /\ l.nl = TRUE
    BY NewLineFields
  <2>2. lines' = Glued(l) /\ synced' = Len(lines') /\ acked' = Append(acked, attempts + 1)
    BY <1>3 DEF AppendOk
  <2> HIDE DEF l
  <2>3. Grown(l) \/ Merged(l)
    BY <2>1, <2>2, AppendGrows
  <2>4. SyncedStays
    BY <2>1, <2>2, <2>3, SyncedStaysThroughAppend
  <2>5. Len(lines) \in Nat /\ Len(lines') \in Nat
    BY DEF LogTypeOK
  <2>6. CASE Merged(l)
    <3>1. Len(lines) \in 1 .. synced' /\ ~lines'[Len(lines)].whole /\ lines'[Len(lines)].nl
      <4>1. Len(lines) # 0
        BY <2>6 DEF Merged, LogTypeOK
      <4> QED BY <2>1, <2>2, <2>5, <2>6, <4>1 DEF Merged
    <3> QED BY <3>1 DEF AckedIsStored, Spoilt
  <2>7. CASE Grown(l)
    <3>1. Len(lines) + 1 \in 1 .. synced' /\ lines'[Len(lines) + 1] = l
      BY <2>2, <2>5, <2>7 DEF Grown
    <3>2. \A i \in DOMAIN acked' : (i \in DOMAIN acked /\ acked'[i] = acked[i]) \/ acked'[i] = attempts + 1
      BY SMTT(30), <2>2 DEF LogTypeOK
    <3>3. CASE Spoilt
      BY <2>4, <3>3, StoredStays DEF AckedIsStored
    <3>4. CASE ~Spoilt
      <4> SUFFICES ASSUME NEW i \in DOMAIN acked'
                   PROVE  \E k \in 1 .. synced' : /\ lines'[k].hash = acked'[i]
                                                  /\ lines'[k].whole /\ lines'[k].nl
        BY DEF AckedIsStored, Stored
      <4>1. CASE acked'[i] = attempts + 1
        BY <2>1, <3>1, <4>1
      <4>2. CASE i \in DOMAIN acked /\ acked'[i] = acked[i]
        BY <2>4, <3>4, <4>2 DEF SyncedStays, AckedIsStored, Stored
      <4> QED BY <3>2, <4>1, <4>2
    <3> QED BY <3>3, <3>4
  <2> QED BY <2>3, <2>6, <2>7
<1>4. CASE AppendFails
  <2>1. acked' = acked /\ synced' = synced
    BY <1>4 DEF AppendFails
  <2>2. CASE lines' = lines
    BY <1>2, <2>1, <2>2
  <2>3. CASE lines' # lines
    <3>1. PICK w \in BOOLEAN, e \in BOOLEAN : lines' = Glued(NewLine(w, e))
      BY <1>4, <2>3, PartlyWritten
    <3> QED BY <1>1, <2>1, <3>1, NewLineFields, AppendGrows, SyncedStaysThroughAppend
  <2> QED BY <2>2, <2>3
<1>5. CASE ReplayIntact \/ ReplayTorn \/ ReplayFails
  BY <1>1, <1>5, SyncedStaysThroughReplay DEF ReplayIntact, ReplayTorn, ReplayFails
<1>6. CASE PowerCut
  <2>1. CASE named
    BY <1>1, <1>6, <2>1, SyncedStaysThroughPowerCut DEF PowerCut
  <2>2. CASE ~named
    <3>1. acked' = <<>>
      BY <1>6, <2>2 DEF AckedIsNamed, PowerCut
    <3>2. DOMAIN acked' = {}
      BY <3>1
    <3> QED BY <3>2 DEF AckedIsStored
  <2> QED BY <2>1, <2>2
<1> QED BY <1>2, <1>3, <1>4, <1>5, <1>6 DEF LogNext, OpenLog, ReplayRefuses, LogCrash, file, logVars

-----------------------------------------------------------------------------
(* What is stored is enumerated.                                           *)

\* A replay that succeeds returns every acknowledged record.
LEMMA ReplayReturnsAcked ==
  ASSUME LogTypeOK, AckedIsStored, NEW n \in 0 .. Len(lines), Rebuilt(n),
         \A i \in 1 .. n : Verified(i),
         \A i \in DOMAIN lines : i > n => ~lines[i].whole /\ ~lines[i].nl,
         acked' = acked
  PROVE  AckedIsKnown'
<1>0. /\ Len(lines) \in Nat /\ synced \in 0 .. Len(lines) /\ DOMAIN lines = 1 .. Len(lines)
      /\ n \in Nat
  BY DEF LogTypeOK
<1>1. \A i \in 1 .. synced : i \in DOMAIN lines /\ (i \in 1 .. n \/ i > n)
  BY <1>0
<1>2. ~Spoilt
  BY <1>1 DEF Spoilt, Verified
<1>3. DOMAIN known' = 1 .. n /\ \A i \in 1 .. n : known'[i] = lines[i].hash
  BY <1>0 DEF Rebuilt
<1> SUFFICES ASSUME NEW i \in DOMAIN acked
             PROVE  \E k \in DOMAIN known' : known'[k] = acked[i]
  BY DEF AckedIsKnown
<1>4. PICK k \in 1 .. synced : lines[k].hash = acked[i] /\ lines[k].whole
  BY <1>2 DEF AckedIsStored, Stored
<1>5. k \in 1 .. n
  BY <1>1, <1>4
<1> QED BY <1>3, <1>4, <1>5

LEMMA AckedIsKnownPreserved ==
  ASSUME LogTypeOK, AckedIsStored, AckedIsKnown, [LogNext]_logVars
  PROVE  AckedIsKnown'
<1>0. Len(lines) \in Nat /\ DOMAIN lines = 1 .. Len(lines)
  BY DEF LogTypeOK
<1>1. CASE AppendOk
  <2>1. /\ known' = Append(known, attempts + 1) /\ acked' = Append(acked, attempts + 1)
        /\ known \in Seq(Nat) /\ acked \in Seq(Nat) /\ attempts + 1 \in Nat
        /\ proc = "ready"
    BY <1>1 DEF AppendOk, MayAppend, LogTypeOK
  <2>2. /\ \A k \in DOMAIN known : k \in DOMAIN known' /\ known'[k] = known[k]
        /\ Len(known) + 1 \in DOMAIN known' /\ known'[Len(known) + 1] = attempts + 1
    BY <2>1
  <2>3. \A i \in DOMAIN acked' : (i \in DOMAIN acked /\ acked'[i] = acked[i]) \/ acked'[i] = attempts + 1
    BY <2>1
  <2> SUFFICES ASSUME NEW i \in DOMAIN acked'
               PROVE  \E k \in DOMAIN known' : known'[k] = acked'[i]
    BY DEF AckedIsKnown
  <2>4. CASE acked'[i] = attempts + 1
    BY <2>2, <2>4
  <2>5. CASE i \in DOMAIN acked /\ acked'[i] = acked[i]
    <3>1. PICK k \in DOMAIN known : known[k] = acked[i]
      BY <2>1, <2>5 DEF AckedIsKnown
    <3> QED BY <2>2, <2>5, <3>1
  <2> QED BY <2>3, <2>4, <2>5
<1>2. CASE ReplayIntact
  <2>1. /\ Len(lines) \in 0 .. Len(lines) /\ Rebuilt(Len(lines)) /\ acked' = acked
        /\ \A i \in 1 .. Len(lines) : Verified(i)
    BY <1>0, <1>2 DEF ReplayIntact, Intact
  <2>2. \A i \in DOMAIN lines : ~(i > Len(lines))
    BY <1>0
  <2> QED BY <2>1, <2>2, ReplayReturnsAcked
<1>3. CASE ReplayTorn
  <2>1. /\ lines # <<>> /\ Rebuilt(Len(lines) - 1) /\ acked' = acked
        /\ \A i \in 1 .. (Len(lines) - 1) : Verified(i)
        /\ ~lines[Len(lines)].whole /\ ~lines[Len(lines)].nl
    BY <1>3 DEF ReplayTorn, TornTail
  <2>2. Len(lines) - 1 \in 0 .. Len(lines)
    BY <2>1 DEF LogTypeOK
  <2>3. \A i \in DOMAIN lines : i > Len(lines) - 1 => i = Len(lines)
    BY <1>0
  <2> QED BY <2>1, <2>2, <2>3, ReplayReturnsAcked
<1>4. CASE AppendFails
  BY <1>4 DEF AppendFails, MayAppend, AckedIsKnown
<1>5. CASE OpenLog
  BY <1>5 DEF OpenLog, AckedIsKnown
<1>6. CASE proc' = "down"
  BY <1>6 DEF AckedIsKnown
<1>7. CASE UNCHANGED logVars
  BY <1>7 DEF logVars, AckedIsKnown
<1> QED
  BY <1>1, <1>2, <1>3, <1>4, <1>5, <1>6, <1>7 DEF LogNext, ReplayRefuses, ReplayFails, LogCrash, PowerCut

-----------------------------------------------------------------------------
(* The chain.                                                              *)

\* The first n lines verify, and do so after a step that keeps what verify
\* looks at.
Chained(n) == \A i \in 1 .. n : Verified(i)

LEMMA ChainKept ==
  ASSUME LogTypeOK, NEW n \in 0 .. Len(lines), Chained(n),
         \A i \in 1 .. n : /\ lines'[i].seq = lines[i].seq /\ lines'[i].prev = lines[i].prev
                           /\ lines'[i].hash = lines[i].hash /\ lines'[i].whole = lines[i].whole
  PROVE  \A i \in 1 .. n : Verified(i)'
<1> SUFFICES ASSUME NEW i \in 1 .. n PROVE Verified(i)'
  OBVIOUS
<1>1. i \in 1 .. n /\ (i = 1 \/ i - 1 \in 1 .. n)
  BY DEF LogTypeOK
<1>2. lines[i].whole /\ lines[i].seq = i /\ lines[i].prev = HashBefore(i)
  BY DEF Chained, Verified
<1>3. HashBefore(i)' = HashBefore(i)
  BY <1>1 DEF HashBefore
<1> QED BY <1>2, <1>3 DEF Verified

\* What the chain is worth before a step: every line but the last verifies.
LEMMA AlmostIntact ==
  ASSUME LogTypeOK, Intact \/ TornTail
  PROVE  Len(lines) = 0 \/ (Len(lines) \in Nat /\ Chained(Len(lines) - 1))
BY DEF Intact, TornTail, Chained, LogTypeOK

LEMMA IntactIsChained ==
  ASSUME LogTypeOK
  PROVE  Intact <=> Chained(Len(lines))
BY DEF Intact, Chained, LogTypeOK

\* A process whose cursor stands at the end of an intact file extends the chain
\* or tears its end.
LEMMA AppendExtendsChain ==
  ASSUME LogTypeOK, LogTypeOK', Intact, CursorAtEnd, NEW w \in BOOLEAN, NEW e \in BOOLEAN, ~w => ~e,
         lines' = Glued(NewLine(w, e))
  PROVE  /\ w => Intact'
         /\ ~w => TornTail'
         /\ Len(lines') = Len(lines) + 1 /\ lines' # <<>>
         /\ lines'[Len(lines')].hash = attempts + 1 /\ lines'[Len(lines')].nl = e
<1>0. /\ Len(lines) \in Nat /\ DOMAIN lines = 1 .. Len(lines) /\ DOMAIN lines' = 1 .. Len(lines')
  BY DEF LogTypeOK
<1> PICK n \in Nat : n = Len(lines)
  BY <1>0
<1> DEFINE l == NewLine(w, e)
<1>1. /\ l \in Line /\ l.seq = next_seq /\ l.prev = last_hash /\ l.hash = attempts + 1
      /\ l.whole = w /\ l.nl = e
  BY NewLineFields
<1> HIDE DEF l
<1>2. Grown(l)
  <2>1. ~Merged(l)
    BY DEF CursorAtEnd, Merged
  <2> QED BY <1>1, <2>1, AppendGrows DEF l
<1>3. Len(lines') = n + 1 /\ lines'[n + 1] = l /\ \A i \in 1 .. n : lines'[i] = lines[i]
  BY <1>0, <1>2 DEF Grown
<1>4. \A i \in 1 .. n : Verified(i)'
  <2>1. Chained(n) /\ n \in 0 .. Len(lines)
    BY <1>0, IntactIsChained
  <2> QED BY <1>3, <2>1, ChainKept
<1>5. w => Verified(n + 1)'
  <2>1. next_seq = n + 1
    BY DEF CursorAtEnd
  <2>2. last_hash = HashBefore(n + 1)'
    <3>1. CASE n = 0
      <4>1. lines = <<>> /\ n + 1 = 1
        <5>1. lines \in Seq(Line)
          BY DEF LogTypeOK
        <5>2. lines = <<>>
          BY <3>1, <5>1, EmptyFile
        <5> QED BY <3>1, <5>2
      <4> QED BY <4>1 DEF CursorAtEnd, HashBefore
    <3>2. CASE n # 0
      <4>1. n \in 1 .. n /\ n + 1 # 1 /\ (n + 1) - 1 = n /\ lines # <<>>
        BY <1>0, <3>2
      <4>2. last_hash = lines[n].hash
        BY <4>1 DEF CursorAtEnd
      <4> QED BY <1>3, <4>1, <4>2 DEF HashBefore
    <3> QED BY <3>1, <3>2
  <2> QED BY <1>1, <1>3, <2>1, <2>2 DEF Verified
<1>6. \A i \in 1 .. (n + 1) : i \in 1 .. n \/ i = n + 1
  BY <1>0
<1>7. w => Intact'
  BY <1>0, <1>3, <1>4, <1>5, <1>6 DEF Intact
<1>8. lines' # <<>> /\ Len(lines') - 1 = n
  BY <1>0, <1>3
<1>9. ~w => TornTail'
  BY <1>1, <1>3, <1>4, <1>8 DEF TornTail
<1> QED BY <1>1, <1>3, <1>7, <1>8, <1>9

\* Losing lines from the end of a chain leaves one.
LEMMA ChainSurvivesLoss ==
  ASSUME LogTypeOK, LogTypeOK', Intact \/ TornTail, NEW n \in 0 .. Len(lines), Kept(n) \/ Torn(n)
  PROVE  Intact' \/ TornTail'
<1>0. /\ Len(lines) \in Nat /\ DOMAIN lines = 1 .. Len(lines) /\ DOMAIN lines' = 1 .. Len(lines')
      /\ n \in Nat
  BY DEF LogTypeOK
<1>1. \A i \in 1 .. n : lines'[i] = lines[i]
  BY DEF Kept, Torn
<1>2. ASSUME Chained(n) PROVE \A i \in 1 .. n : Verified(i)'
  BY <1>1, <1>2, ChainKept
<1>3. ASSUME n < Len(lines) PROVE Chained(n)
  <2>1. Chained(Len(lines) - 1)
    BY <1>0, <1>3, AlmostIntact
  <2> QED BY <1>0, <1>3, <2>1 DEF Chained
<1>4. CASE Kept(n) /\ Chained(n)
  BY <1>0, <1>2, <1>4 DEF Kept, Intact
<1>5. CASE Kept(n) /\ ~Chained(n)
  <2>1. n = Len(lines)
    <3>1. ~(n < Len(lines))
      BY <1>3, <1>5
    <3>2. Len(lines) \in Nat
      BY <1>0
    <3> QED BY <3>1, <3>2
  <2>2. TornTail
    BY <1>5, <2>1, IntactIsChained
  <2>3. Len(lines) # 0
    BY <2>2 DEF TornTail, LogTypeOK
  <2>4. Len(lines') = Len(lines) /\ lines' # <<>>
    BY <1>0, <1>5, <2>1, <2>3 DEF Kept
  <2>5. lines'[Len(lines)] = lines[Len(lines)]
    BY <1>0, <1>1, <2>1, <2>3
  <2>6. \A i \in 1 .. (Len(lines) - 1) : Verified(i)'
    <3>1. Chained(Len(lines) - 1) /\ Len(lines) - 1 \in 0 .. Len(lines)
      BY <1>0, <2>2, <2>3 DEF TornTail, Chained
    <3>2. \A i \in 1 .. (Len(lines) - 1) : lines'[i] = lines[i]
      BY <1>0, <1>1, <2>1
    <3> QED BY <3>1, <3>2, ChainKept
  <2> QED BY <2>2, <2>4, <2>5, <2>6 DEF TornTail
<1>6. CASE Torn(n)
  <2>1. n < Len(lines) /\ Len(lines') = n + 1 /\ n + 1 \in DOMAIN lines /\ lines' # <<>>
    BY <1>0, <1>6 DEF Torn
  <2>2. \A i \in 1 .. n : Verified(i)'
    BY <1>2, <1>3, <2>1
  <2>3. CASE ~lines'[n + 1].whole
    <3>1. ~lines'[Len(lines')].whole /\ ~lines'[Len(lines')].nl
      BY <1>6, <2>1, <2>3 DEF Torn
    <3>2. Len(lines') - 1 = n
      BY <1>0, <2>1
    <3> QED BY <2>1, <2>2, <3>1, <3>2 DEF TornTail
  <2>4. CASE lines'[n + 1].whole
    <3>1. lines[n + 1].whole
      BY <1>6, <2>4 DEF Torn
    <3>2. Chained(n + 1)
      <4>1. CASE Intact
        BY <1>0, <2>1, <4>1 DEF Intact, Chained
      <4>2. CASE TornTail
        <5>1. n + 1 # Len(lines)
          BY <3>1, <4>2 DEF TornTail
        <5>2. \A i \in 1 .. (n + 1) : i \in 1 .. (Len(lines) - 1)
          <6>1. Len(lines) \in Nat /\ n \in Nat /\ n < Len(lines)
            BY <1>0, <2>1
          <6> QED BY <5>1, <6>1
        <5> QED BY <4>2, <5>2 DEF TornTail, Chained
      <4> QED BY <4>1, <4>2
    <3>3. \A i \in 1 .. (n + 1) : /\ lines'[i].seq = lines[i].seq /\ lines'[i].prev = lines[i].prev
                                  /\ lines'[i].hash = lines[i].hash /\ lines'[i].whole = lines[i].whole
      <4>1. \A i \in 1 .. (n + 1) : i \in 1 .. n \/ i = n + 1
        BY <1>0
      <4>2. lines'[n + 1] \in Line /\ lines[n + 1] \in Line
        BY <1>0, <2>1 DEF LogTypeOK
      <4>3. lines'[n + 1].whole = lines[n + 1].whole
        BY <2>4, <3>1, <4>2, LineFields
      <4> QED BY <1>1, <1>6, <4>1, <4>3 DEF Torn
    <3>4. n + 1 \in 0 .. Len(lines)
      BY <1>0, <2>1
    <3> QED BY <1>0, <2>1, <3>2, <3>3, <3>4, ChainKept DEF Intact
  <2> QED BY <2>3, <2>4
<1> QED BY <1>4, <1>5, <1>6

LEMMA EndedIsIntact ==
  ASSUME LogTypeOK, LogTypeOK', Intact, Ended
  PROVE  Intact'
<1>0. /\ Len(lines) \in Nat /\ DOMAIN lines = 1 .. Len(lines) /\ DOMAIN lines' = 1 .. Len(lines')
  BY DEF LogTypeOK
<1>1. \A i \in 1 .. Len(lines) : i \in 1 .. (Len(lines) - 1) \/ i = Len(lines)
  <2>1. Len(lines) \in Nat
    BY <1>0
  <2> QED BY <2>1
<1>2. \A i \in 1 .. Len(lines) : /\ lines'[i].seq = lines[i].seq /\ lines'[i].prev = lines[i].prev
                                 /\ lines'[i].hash = lines[i].hash /\ lines'[i].whole = lines[i].whole
  BY <1>1 DEF Ended
<1>3. Chained(Len(lines)) /\ Len(lines) \in 0 .. Len(lines)
  BY <1>0, IntactIsChained
<1>4. \A i \in 1 .. Len(lines) : Verified(i)'
  BY <1>2, <1>3, ChainKept
<1> QED BY <1>0, <1>4 DEF Intact, Ended

LEMMA ChainHoldsPreserved ==
  ASSUME LogTypeOK, LogTypeOK', InnerLinesEnd, ChainHolds, [LogNext]_logVars
  PROVE  ChainHolds'
<1> SUFFICES ASSUME ~retried'
             PROVE  /\ Intact' \/ TornTail'
                    /\ proc' = "ready" /\ ~failed' => Intact' /\ CursorAtEnd'
                    /\ proc' = "opened" => ~failed'
  BY DEF ChainHolds
<1>0. Len(lines) \in Nat
  BY DEF LogTypeOK
<1>1. ~retried
  BY DEF LogNext, OpenLog, AppendOk, AppendFails, MayAppend, ReplayIntact, ReplayTorn, ReplayRefuses,
         ReplayFails, LogCrash, PowerCut, logVars
<1>2. Intact \/ TornTail
  BY <1>1 DEF ChainHolds
<1>3. lines' = lines => Intact' \/ TornTail'
  BY <1>2 DEF Intact, TornTail, Verified, HashBefore
<1>4. CASE OpenLog
  <2>1. lines' = lines /\ proc' # "ready" /\ ~failed'
    BY <1>4 DEF OpenLog
  <2> QED BY <1>3, <2>1
<1>5. MayAppend => ~failed /\ proc = "ready" /\ Intact /\ CursorAtEnd
  BY <1>1 DEF MayAppend, ChainHolds
<1>6. CASE AppendOk
  <2>1. Intact /\ CursorAtEnd /\ lines' = Glued(NewLine(TRUE, TRUE))
    BY <1>5, <1>6 DEF AppendOk
  <2>2. /\ Intact' /\ Len(lines') = Len(lines) + 1 /\ lines' # <<>>
        /\ lines'[Len(lines')].hash = attempts + 1 /\ lines'[Len(lines')].nl
    BY <2>1, AppendExtendsChain
  <2>3. next_seq' = next_seq + 1 /\ last_hash' = attempts + 1 /\ proc' = "ready"
    BY <1>6 DEF AppendOk, MayAppend
  <2>4. next_seq' = Len(lines') + 1
    BY <1>0, <2>1, <2>2, <2>3 DEF CursorAtEnd
  <2>5. CursorAtEnd'
    BY <2>2, <2>3, <2>4 DEF CursorAtEnd
  <2> QED BY <2>2, <2>3, <2>5
<1>7. CASE AppendFails
  <2>1. Intact /\ CursorAtEnd /\ failed' /\ proc' = "ready"
    BY <1>5, <1>7 DEF AppendFails, MayAppend
  <2>2. CASE lines' = lines
    BY <1>3, <2>1, <2>2
  <2>3. CASE lines' # lines
    <3>1. PICK w \in BOOLEAN, e \in BOOLEAN : lines' = Glued(NewLine(w, e)) /\ (~w => ~e)
      BY <1>7, <2>3, PartlyWritten
    <3>2. Intact' \/ TornTail'
      BY <2>1, <3>1, AppendExtendsChain
    <3> QED BY <2>1, <3>2
  <2> QED BY <2>2, <2>3
<1>8. CASE ReplayIntact
  <2>1. Intact /\ Rebuilt(Len(lines)) /\ failed' = failed /\ proc' = "ready"
    BY <1>8 DEF ReplayIntact, Rebuilt
  <2>2. /\ Intact' /\ Len(lines') = Len(lines) /\ (lines' = <<>> <=> lines = <<>>)
        /\ lines' # <<>> => /\ lines'[Len(lines')].nl
                            /\ lines'[Len(lines')].hash = lines[Len(lines)].hash
    <3>1. CASE UNCHANGED lines /\ (lines # <<>> => lines[Len(lines)].nl)
      BY <2>1, <3>1 DEF Intact, Verified, HashBefore
    <3>2. CASE Ended
      <4>1. Intact'
        BY <2>1, <3>2, EndedIsIntact
      <4>2. lines' # <<>>
        BY <3>2 DEF Ended, LogTypeOK
      <4> QED BY <3>2, <4>1, <4>2 DEF Ended
    <3> QED BY <1>8, <3>1, <3>2, ReplayIntactFile
  <2>3. /\ next_seq' = Len(lines) + 1
        /\ last_hash' = IF Len(lines) = 0 THEN 0 ELSE lines[Len(lines)].hash
    BY <2>1 DEF Rebuilt
  <2>4. lines = <<>> <=> Len(lines) = 0
    BY DEF LogTypeOK
  <2>5. CursorAtEnd'
    BY <2>2, <2>3, <2>4 DEF CursorAtEnd
  <2> QED BY <2>1, <2>2, <2>5
<1>9. CASE ReplayTorn
  <2> PICK n \in Nat : n = Len(lines) - 1
    <3>1. Len(lines) # 0
      BY <1>9 DEF ReplayTorn, TornTail, LogTypeOK
    <3>2. Len(lines) - 1 \in Nat
      BY <1>0, <3>1
    <3> WITNESS Len(lines) - 1 \in Nat
    <3> QED OBVIOUS
  <2>1. /\ n \in 0 .. Len(lines) /\ Chained(n) /\ Rebuilt(n) /\ proc' = "ready"
    BY <1>0, <1>9 DEF ReplayTorn, Rebuilt, TornTail, Chained
  <2>2. Len(lines') = n /\ \A i \in 1 .. n : lines'[i] = lines[i]
    BY <1>9, ReplayTornFile DEF Kept
  <2>3. Intact'
    <3>1. \A i \in 1 .. n : Verified(i)'
      BY <2>1, <2>2, ChainKept
    <3> QED BY <2>2, <3>1 DEF Intact, LogTypeOK
  <2>4. n # 0 => lines'[n] = lines[n] /\ lines[n].nl
    <3>1. n # 0 => n \in 1 .. n /\ n \in 1 .. Len(lines) /\ n < Len(lines)
      BY <1>0
    <3>2. DOMAIN lines = 1 .. Len(lines)
      BY DEF LogTypeOK
    <3> QED BY <2>2, <3>1, <3>2 DEF InnerLinesEnd
  <2>5. lines' = <<>> <=> n = 0
    <3>1. lines' \in Seq(Line)
      BY DEF LogTypeOK
    <3> QED BY <2>2, <3>1, EmptyFile
  <2>6. next_seq' = n + 1 /\ last_hash' = IF n = 0 THEN 0 ELSE lines[n].hash
    BY <2>1 DEF Rebuilt
  <2>7. CursorAtEnd'
    BY <2>2, <2>4, <2>5, <2>6 DEF CursorAtEnd
  <2> QED BY <2>1, <2>3, <2>7
<1>10. CASE ReplayRefuses
  BY <1>2, <1>10 DEF ReplayRefuses
<1>11. CASE ReplayFails
  <2>1. proc' = "down"
    BY <1>11 DEF ReplayFails
  <2>2. TornTail => Len(lines) - 1 \in 0 .. Len(lines)
    BY <1>0 DEF TornTail, LogTypeOK
  <2>3. Intact' \/ TornTail'
    BY <1>2, <1>3, <1>11, <2>2, ReplayFailsFile, ChainSurvivesLoss, EndedIsIntact
  <2> QED BY <2>1, <2>3
<1>12. CASE LogCrash
  BY <1>3, <1>12 DEF LogCrash, file
<1>13. CASE PowerCut
  <2>1. proc' = "down"
    BY <1>13 DEF PowerCut
  <2>2. Intact' \/ TornTail'
    <3>1. CASE lines' = <<>>
      BY <3>1 DEF Intact
    <3>2. ASSUME NEW n \in synced .. Len(lines), Kept(n) \/ Torn(n)
          PROVE  Intact' \/ TornTail'
      <4>1. n \in 0 .. Len(lines)
        BY DEF LogTypeOK
      <4> QED BY <1>2, <3>2, <4>1, ChainSurvivesLoss
    <3> QED BY <1>13, <3>1, <3>2, PowerCutFile
  <2> QED BY <2>1, <2>2
<1>14. CASE UNCHANGED logVars
  BY <1>1, <1>14 DEF logVars, ChainHolds, Intact, TornTail, Verified, HashBefore, CursorAtEnd
<1> QED
  BY <1>4, <1>6, <1>7, <1>8, <1>9, <1>10, <1>11, <1>12, <1>13, <1>14 DEF LogNext

-----------------------------------------------------------------------------
(* The theorems.                                                           *)

LEMMA LogInitially == LogInit => LogIInv
<1> SUFFICES ASSUME LogInit PROVE LogIInv
  OBVIOUS
<1>1. <<>> \in Seq(Line) /\ <<>> \in Seq(Nat) /\ Len(<<>>) = 0 /\ DOMAIN <<>> = {}
  OBVIOUS
<1>2. LogTypeOK
  <2>1. lines \in Seq(Line) /\ synced \in 0 .. Len(lines) /\ known \in Seq(Nat) /\ acked \in Seq(Nat)
    BY <1>1 DEF LogInit
  <2>2. /\ exists \in BOOLEAN /\ named \in BOOLEAN /\ proc \in {"down", "opened", "ready"}
        /\ failed \in BOOLEAN /\ refused \in BOOLEAN /\ retried \in BOOLEAN
    BY DEF LogInit
  <2>3. next_seq \in Nat \ {0} /\ last_hash \in Nat /\ attempts \in Nat /\ boots \in Nat
    BY DEF LogInit
  <2> QED BY <2>1, <2>2, <2>3 DEF LogTypeOK
<1>3. HashesGrow /\ AckedIsNamed /\ InnerLinesEnd /\ AckedIsStored /\ AckedIsKnown
  BY <1>1 DEF LogInit, HashesGrow, Growing, AckedIsNamed, InnerLinesEnd, AckedIsStored, AckedIsKnown
<1>4. ChainHolds /\ RefusesOnlyAfterRetry
  BY <1>1 DEF LogInit, ChainHolds, Intact, RefusesOnlyAfterRetry
<1> QED BY <1>2, <1>3, <1>4 DEF LogIInv

LEMMA LogPreserved == LogIInv /\ [LogNext]_logVars => LogIInv'
<1> SUFFICES ASSUME LogIInv, [LogNext]_logVars PROVE LogIInv'
  OBVIOUS
<1>0. /\ LogTypeOK /\ FileGrows /\ NamesGrow /\ InnerLinesEnd /\ AckedIsNamed /\ AckedIsStored
      /\ AckedIsKnown /\ ChainHolds /\ RefusesOnlyAfterRetry
  BY DEF LogIInv, HashesGrow, FileGrows, NamesGrow
<1>1. LogTypeOK'
  BY <1>0, LogTypePreserved
<1>2. FileGrows' /\ NamesGrow'
  BY <1>0, <1>1, FileGrowsPreserved, NamesGrowPreserved
<1>3. HashesGrow' /\ InnerLinesEnd'
  BY <1>2 DEF HashesGrow, FileGrows, NamesGrow
<1>4. AckedIsNamed' /\ AckedIsStored' /\ AckedIsKnown'
  BY <1>0, <1>1, AckedIsNamedPreserved, AckedIsStoredPreserved, AckedIsKnownPreserved
<1>5. ChainHolds'
  BY <1>0, <1>1, ChainHoldsPreserved
<1>6. RefusesOnlyAfterRetry'
  <2>1. CASE ReplayRefuses
    BY <1>0, <2>1 DEF ReplayRefuses, ChainHolds, RefusesOnlyAfterRetry
  <2>2. CASE refused' => refused /\ (retried => retried')
    BY <1>0, <2>2 DEF RefusesOnlyAfterRetry
  <2>3. retried => retried'
    BY DEF LogNext, OpenLog, AppendOk, AppendFails, MayAppend, ReplayIntact, ReplayTorn, ReplayRefuses,
           ReplayFails, LogCrash, PowerCut, logVars
  <2>4. refused' => refused \/ ReplayRefuses
    BY DEF LogNext, OpenLog, AppendOk, AppendFails, ReplayIntact, ReplayTorn, ReplayFails, LogCrash, PowerCut,
           logVars
  <2> QED BY <2>1, <2>2, <2>3, <2>4
<1> QED BY <1>1, <1>3, <1>4, <1>5, <1>6 DEF LogIInv

THEOREM LogInvariant == LogSpec => []LogIInv
<1> QED BY LogInitially, LogPreserved, PTL DEF LogSpec

(* The variables of the log keep their types and no more lines are synced  *)
(* than there are, through every partial write, crash and power cut.       *)
THEOREM LogTypesHold == LogSpec => []LogTypeOK
<1>1. LogIInv => LogTypeOK
  BY DEF LogIInv
<1> QED BY <1>1, LogInvariant, PTL

(* Every append that returned success is among the records of each later   *)
(* replay that succeeds, once and in order: IntentLog::append syncs before *)
(* it acknowledges, and neither a power cut nor a repair takes back a      *)
(* synced line.                                                            *)
THEOREM AcknowledgedIsEnumerated == LogSpec => []AckedIsEnumerable
<1>1. LogIInv => AckedIsEnumerable
  <2> SUFFICES ASSUME LogIInv, proc = "ready"
               PROVE  /\ \A i \in DOMAIN acked : \E k \in DOMAIN known : known[k] = acked[i]
                      /\ \A i, j \in DOMAIN acked, k, l \in DOMAIN known :
                           known[k] = acked[i] /\ known[l] = acked[j] => (i < j <=> k < l)
    BY DEF AckedIsEnumerable
  <2>1. /\ known \in Seq(Nat) /\ acked \in Seq(Nat)
        /\ Growing(known) /\ Growing(acked) /\ AckedIsKnown
    BY DEF LogIInv, LogTypeOK, HashesGrow
  <2>2. ASSUME NEW i \in DOMAIN acked, NEW j \in DOMAIN acked,
               NEW k \in DOMAIN known, NEW l \in DOMAIN known,
               known[k] = acked[i], known[l] = acked[j]
        PROVE  i < j <=> k < l
    <3>1. /\ i \in Nat /\ j \in Nat /\ k \in Nat /\ l \in Nat
          /\ acked[i] \in Nat /\ acked[j] \in Nat
      BY <2>1
    <3>2. /\ i < j => acked[i] < acked[j]
          /\ j < i => acked[j] < acked[i]
          /\ k < l => known[k] < known[l]
          /\ l < k => known[l] < known[k]
      BY <2>1 DEF Growing
    <3>3. (i = j => acked[i] = acked[j]) /\ (k = l => known[k] = known[l])
      OBVIOUS
    <3> QED BY <2>2, <3>1, <3>2, <3>3
  <2> QED BY <2>1, <2>2 DEF AckedIsKnown
<1> QED BY <1>1, LogInvariant, PTL

(* replay refuses a file only if some process went on appending after an   *)
(* append of its own had failed: every other torn write is a torn tail,    *)
(* which it repairs.                                                       *)
THEOREM RefusalNeedsRetry == LogSpec => []RefusesOnlyAfterRetry
<1>1. LogIInv => RefusesOnlyAfterRetry
  BY DEF LogIInv
<1> QED BY <1>1, LogInvariant, PTL

=============================================================================
