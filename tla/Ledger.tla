------------------------------- MODULE Ledger -------------------------------
(***************************************************************************)
(* ledger/ledger.cpp: the hash-chained audit file, its signed checkpoint,  *)
(* and the part of boot.cpp that opens it.  A hash is the sequence of      *)
(* payloads it covers (no collisions); a signature is the key that made    *)
(* it, over the checkpoint's head.                                         *)
(*                                                                         *)
(* `file' is a sequence of lines; a line is well formed or junk, and ends  *)
(* in a newline or not.  `disk' is the set of contents the medium may hold *)
(* while nothing has been synced: a process that dies leaves `file', a     *)
(* power loss leaves any member of `disk'.  Blank lines, and a file that   *)
(* shrinks while an append runs, are left out.                             *)
(***************************************************************************)
EXTENDS Integers, SequencesExt

CONSTANTS
    MaxEntries,   \* bound on the length of the chain
    MaxFaults,    \* bound on process deaths and power losses
    MaxEdits      \* bound on changes made to the files from outside

ASSUME LedgerBounds == {MaxEntries, MaxFaults, MaxEdits} \subseteq Nat

VARIABLES
    file, disk, checkpoint,     \* the ledger file and <ledger>.checkpoint
    pc, entries, poisoned,      \* the process: "down", "running", an append
    before,                     \* the file as the running append found it
    acked, signed, heads,       \* history: the hashes acknowledged, the head signed
                                \* last (or in force), all the heads ever signed
    faults, edits, dropped      \* history: what happened from outside

vars == <<file, disk, checkpoint, pc, entries, poisoned, before, acked,
          signed, heads, faults, edits, dropped>>

Raw     == {"plain", "token", "illformed"}
Stored  == {"plain", "redacted", "replaced"}
Own     == "own"       \* the pinned key, and the one this process signs with
Foreign == "foreign"   \* any other key

scrub(p)          == IF p = "token" THEN "redacted" ELSE p
canonical_text(p) == IF p = "illformed" THEN "replaced" ELSE p
\* The JSON writer's error_handler_t::replace.
dump_compact(p)   == IF p = "illformed" THEN "replaced" ELSE p

sha256_hex(prev, p) == Append(prev, p)

head_hash(es) == IF es = <<>> THEN <<>> ELSE Last(es).hash

Entry(p) ==
    LET prev   == head_hash(entries)
        stored == canonical_text(scrub(p))
    IN  [seq |-> Len(entries), prev |-> prev, payload |-> stored,
         hash |-> sha256_hex(prev, stored)]

NoEntry == [seq |-> -1, prev |-> <<>>, payload |-> "plain", hash |-> <<>>]

entry_to_line(e, newline) ==
    [ok |-> TRUE, nl |-> newline, entry |-> [e EXCEPT !.payload = dump_compact(@)]]

ends_on_record_boundary(f) == IF f = <<>> THEN TRUE ELSE Last(f).nl

\* Bytes written at the end of f: a fragment, a record without its newline or
\* a whole line.  What follows an unterminated line is read as one with it.
Put(f, part, e) ==
    LET whole == entry_to_line(e, part = "line")
        junk  == [ok |-> FALSE, nl |-> whole.nl, entry |-> NoEntry]
    IN  CASE part = "nothing"             -> f
          [] ~ends_on_record_boundary(f)  -> Append(Front(f), junk)
          [] part = "fragment"            -> Append(f, junk)
          [] OTHER                        -> Append(f, whole)

-----------------------------------------------------------------------------
\* load: junk is skipped as a torn write on the last line and refused before.
LoadFails(f) == \E i \in 1..Len(f) - 1 : ~f[i].ok
Torn(f)      == f # <<>> /\ ~Last(f).ok
load(f)      == [i \in 1..(IF Torn(f) THEN Len(f) - 1 ELSE Len(f)) |-> f[i].entry]

verify_chain(es) ==
    \A i \in DOMAIN es :
        /\ es[i].hash = sha256_hex(es[i].prev, es[i].payload)
        /\ es[i].prev = IF i = 1 THEN <<>> ELSE es[i - 1].hash
        /\ es[i].seq = i - 1

NoCheckpoint == [form |-> "absent", count |-> 0, head |-> <<>>, key |-> Own, by |-> Own]
Garbled      == [NoCheckpoint EXCEPT !.form = "garbage"]

sign_head(es, key) ==
    [form |-> "bundle", count |-> Len(es), head |-> head_hash(es), key |-> key, by |-> key]

\* verify_head under the pinned key: cp's signature was made with it.
verify_head(cp) == cp.by = Own
require_key_match(cp) == cp.key = Own

\* Mutant of verify_against_checkpoint: the signature is checked under the key
\* the checkpoint itself carries.
verify_against_checkpointEmbedded(es, cp) ==
    \/ cp.form = "absent"
    \/ /\ cp.form = "bundle"
       /\ cp.count >= 1
       /\ cp.by = cp.key
       /\ Len(es) >= cp.count
       /\ es[cp.count].hash = cp.head

verify_against_checkpoint(es, cp) ==
    \/ cp.form = "absent"
    \/ /\ cp.form = "bundle"
       /\ cp.count >= 1
       /\ require_key_match(cp)
       /\ verify_head(cp)
       /\ Len(es) >= cp.count
       /\ es[cp.count].hash = cp.head

\* The checkpoint in place is none of ours but the last one written: it was
\* neither deleted nor rolled back to an older one.
Stands ==
    /\ checkpoint.form = "absent" => signed = <<>>
    /\ (checkpoint.form = "bundle" /\ checkpoint.by = Own) => checkpoint.head = signed

\* boot.cpp's third step: with no file there is nothing to load, and the
\* checkpoint is consulted all the same.  Every refusal leaves the process down.
\* A checkpoint that was deleted or rolled back is not told from a true one
\* (ledger.cpp:840-846): from here on what it signed is what is in force.
OpenLedger ==
    /\ pc = "down"
    /\ ~LoadFails(file)
    /\ verify_chain(load(file))
    /\ verify_against_checkpoint(load(file), checkpoint)
    /\ entries' = load(file)
    /\ poisoned' = FALSE
    /\ pc' = "running"
    /\ signed' = IF Stands THEN signed ELSE checkpoint.head
    /\ UNCHANGED <<file, disk, checkpoint, before, acked, heads, faults, edits, dropped>>

-----------------------------------------------------------------------------
\* append, up to the write.  The boundary is also taken for torn when it
\* cannot be read.
SealTorn ==
    /\ pc = "running" /\ ~poisoned /\ file # <<>>
    /\ poisoned' = TRUE
    /\ UNCHANGED <<file, disk, checkpoint, pc, entries, before, acked, signed,
                   heads, faults, edits, dropped>>

Reached == {"nothing", "fragment", "bare", "line"}

Write(p) ==
    /\ pc = "running" /\ ~poisoned /\ Len(entries) < MaxEntries
    /\ ends_on_record_boundary(file)
    /\ before' = file
    /\ \E part \in Reached :
        /\ file' = Put(file, part, Entry(p))
        /\ disk' = disk \union {file'}
        /\ \/ pc' = "failed"
           \/ part = "line" /\ pc' = "flushed"
    /\ UNCHANGED <<checkpoint, entries, poisoned, acked, signed, heads, faults,
                   edits, dropped>>

\* Mutant of Sync: append returns once the line is flushed.
SyncSkipped ==
    /\ pc = "flushed"
    /\ disk' = disk
    /\ entries' = Append(entries, Last(file).entry)
    /\ acked' = acked \union {Last(file).entry.hash}
    /\ pc' = "running"
    /\ UNCHANGED <<file, checkpoint, poisoned, before, signed, heads, faults,
                   edits, dropped>>

\* The entry the flushed line carries is the one the append computed.
Sync ==
    /\ pc = "flushed"
    /\ disk' = {file}
    /\ entries' = Append(entries, Last(file).entry)
    /\ acked' = acked \union {Last(file).entry.hash}
    /\ pc' = "running"
    /\ UNCHANGED <<file, checkpoint, poisoned, before, signed, heads, faults,
                   edits, dropped>>

\* durable_sync fails, or succeeds and fclose fails.
SyncFails ==
    /\ pc = "flushed"
    /\ disk' \in {disk, {file}}
    /\ pc' = "failed"
    /\ UNCHANGED <<file, checkpoint, entries, poisoned, before, acked, signed,
                   heads, faults, edits, dropped>>

\* Mutant of RestoreToSize: a complete record whose sync failed is left.
RestoreIncompleteOnly ==
    /\ pc = "failed"
    /\ file' = IF Len(file) > Len(before) /\ ends_on_record_boundary(file) THEN file ELSE before
    /\ disk' = {file'}
    /\ poisoned' = poisoned
    /\ pc' = "running"
    /\ UNCHANGED <<checkpoint, entries, before, acked, signed, heads, faults,
                   edits, dropped>>

\* restore_to_size: nothing was written, or the file is cut back and synced.
RestoreToSize ==
    /\ pc = "failed"
    /\ file' = before
    /\ disk' = IF file = before THEN disk ELSE {before}
    /\ poisoned' = poisoned
    /\ pc' = "running"
    /\ UNCHANGED <<checkpoint, entries, before, acked, signed, heads, faults,
                   edits, dropped>>

\* Mutant of RestoreFails: the failure is reported and nothing more.
RestoreFailsUnsealed ==
    /\ pc = "failed"
    /\ file' \in {file, before}
    /\ disk' = disk \union {file'}
    /\ poisoned' = poisoned
    /\ pc' = "running"
    /\ UNCHANGED <<checkpoint, entries, before, acked, signed, heads, faults,
                   edits, dropped>>

\* It fails to measure or to cut, or cuts and fails to sync: the ledger is sealed.
RestoreFails ==
    /\ pc = "failed"
    /\ file' \in {file, before}
    /\ disk' = disk \union {file'}
    /\ poisoned' = TRUE
    /\ pc' = "running"
    /\ UNCHANGED <<checkpoint, entries, before, acked, signed, heads, faults,
                   edits, dropped>>

\* Mutant of WriteCheckpoint: the checkpoint is written in place.
WriteCheckpointInPlace ==
    /\ pc = "running" /\ entries # <<>>
    /\ checkpoint' \in {Garbled, sign_head(entries, Own)}
    /\ signed' = head_hash(entries)
    /\ heads' = heads \union {head_hash(entries)}
    /\ UNCHANGED <<file, disk, pc, entries, poisoned, before, acked, faults, edits, dropped>>

\* write_checkpoint: what fails before the rename leaves the old file.
WriteCheckpoint ==
    /\ pc = "running" /\ entries # <<>>
    /\ checkpoint' = sign_head(entries, Own)
    /\ signed' = head_hash(entries)
    /\ heads' = heads \union {head_hash(entries)}
    /\ UNCHANGED <<file, disk, pc, entries, poisoned, before, acked, faults, edits, dropped>>

-----------------------------------------------------------------------------
Die ==
    /\ pc # "down" /\ faults < MaxFaults
    /\ faults' = faults + 1
    /\ pc' = "down" /\ entries' = <<>> /\ poisoned' = FALSE /\ before' = <<>>

Crash == Die /\ UNCHANGED <<file, disk, checkpoint, acked, signed, heads, edits, dropped>>

PowerLoss ==
    /\ Die
    /\ file' \in disk
    /\ disk' = {file'}
    /\ dropped' = (dropped \/ file' # file)
    /\ UNCHANGED <<checkpoint, acked, signed, heads, edits>>

\* What a hand, a restored backup or a bad block may leave: a shorter file,
\* one payload changed, or a consistent chain of other payloads.
Chain(ps) == [i \in DOMAIN ps |->
    entry_to_line([seq |-> i - 1, prev |-> SubSeq(ps, 1, i - 1), payload |-> ps[i],
                   hash |-> SubSeq(ps, 1, i)], TRUE)]

Shortened == {SubSeq(file, 1, n) : n \in 0..Len(file)}
Altered   == {[file EXCEPT ![i].entry.payload = p] : i \in DOMAIN file, p \in Stored}
Replaced  == {Chain([i \in 1..n |-> p]) : n \in 1..Len(file), p \in Stored}
Edited    == Shortened \union Altered \union Replaced

\* A checkpoint changed from outside: deleted, garbled, signed with another key
\* under either name, or any one this ledger ever published, its count changed
\* or not (the signature is over the head alone).
EditedCheckpoint ==
    {NoCheckpoint, checkpoint, Garbled, sign_head(load(file), Foreign),
     [sign_head(load(file), Foreign) EXCEPT !.key = Own]}
    \union {[form |-> "bundle", count |-> n, head |-> h, key |-> Own, by |-> Own] :
                h \in heads, n \in 0..MaxEntries}

Edit ==
    /\ pc \in {"down", "running"} /\ edits < MaxEdits
    /\ edits' = edits + 1
    /\ file' \in Edited
    /\ disk' = {file'}
    /\ checkpoint' \in EditedCheckpoint
    /\ UNCHANGED <<pc, entries, poisoned, before, acked, signed, heads, faults, dropped>>

-----------------------------------------------------------------------------
Init ==
    /\ file = <<>> /\ disk = {<<>>} /\ checkpoint = NoCheckpoint
    /\ pc = "down" /\ entries = <<>> /\ poisoned = FALSE /\ before = <<>>
    /\ acked = {} /\ signed = <<>> /\ heads = {}
    /\ faults = 0 /\ edits = 0 /\ dropped = FALSE

Next ==
    \/ OpenLedger \/ SealTorn \/ Sync \/ SyncFails \/ RestoreToSize \/ RestoreFails
    \/ WriteCheckpoint \/ Crash \/ PowerLoss \/ Edit
    \/ \E p \in Raw : Write(p)

Spec == Init /\ [][Next]_vars

-----------------------------------------------------------------------------
\* Types: what the chain holds, in memory and on disk, is scrubbed canonical
\* text, and a hash covers nothing else.
LedgerEntry == [seq : Int, prev : Seq(Stored), payload : Stored, hash : Seq(Stored)]
Line        == [ok : BOOLEAN, nl : BOOLEAN, entry : LedgerEntry]
Checkpoint  == [form : {"absent", "garbage", "bundle"}, count : Nat, head : Seq(Stored),
                key : {Own, Foreign}, by : {Own, Foreign}]

TypeOK ==
    /\ pc \in {"down", "running", "flushed", "failed"}
    /\ poisoned \in BOOLEAN /\ dropped \in BOOLEAN
    /\ faults \in Nat /\ edits \in Nat
    /\ file \in Seq(Line) /\ before \in Seq(Line) /\ \A f \in disk : f \in Seq(Line)
    /\ entries \in Seq(LedgerEntry)
    /\ checkpoint \in Checkpoint
    /\ signed \in Seq(Stored) /\ \A h \in acked \union heads : h \in Seq(Stored)

\* "APPEND IS ALL-OR-NOTHING": no order of failed writes, failed syncs, failed
\* rollbacks, deaths and power losses leaves a file that load() or
\* verify_chain() refuses, so no failure of ours blocks the next start.
ChainStaysLoadable ==
    edits = 0 => \A f \in disk \union {file} : ~LoadFails(f) /\ verify_chain(load(f))

\* Nor is the file ever behind the checkpoint the ledger itself published,
\* as long as no power loss takes back what was not synced.
CheckpointStaysReached ==
    (edits = 0 /\ ~dropped) => verify_against_checkpoint(load(file), checkpoint)

\* An entry append() returned is in the file, at its place, whatever dies.
AckedEntriesSurvive ==
    edits = 0 =>
        \A f \in disk \union {file} :
            acked \subseteq {load(f)[i].hash : i \in DOMAIN load(f)}

\* While the ledger may still append, its memory is what load() would read:
\* the next entry gets the next seq and links to the last hash of the file.
MemoryMatchesFile ==
    (pc = "running" /\ ~poisoned /\ edits = 0) =>
        entries = load(file)

\* A ledger that opened still holds everything the last checkpoint signed, however
\* the file and the checkpoint were changed, unless that checkpoint was deleted or
\* an older one of ours put back: then it holds what the one in place signed
\* (nothing, when there is none), and grows from there.
SignedPrefixHolds ==
    pc # "down" => IsPrefix(signed, head_hash(entries))

\* What append, load and the checkpoint keep through every failure of their own:
\* the file stays loadable and ahead of the checkpoint, acknowledged entries
\* stay in it, and memory never drifts from it.
LedgerInv ==
    /\ TypeOK
    /\ ChainStaysLoadable
    /\ CheckpointStaysReached
    /\ AckedEntriesSurvive
    /\ MemoryMatchesFile
=============================================================================
