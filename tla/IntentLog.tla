------------------------------ MODULE IntentLog ------------------------------
(***************************************************************************)
(* The write-ahead intent log as a file: IntentLog::open, append and       *)
(* replay over an operating system that may write part of a record, fail   *)
(* a sync, lose what was not synced at a power cut, and lose the name of a *)
(* file whose directory was never synced.                                  *)
(*                                                                         *)
(* A line is what stands between two newlines.  Its hash is the number of  *)
(* the append attempt that wrote it (SHA-256 is taken to be collision      *)
(* free), prev the hash it was chained to, 0 for GENESIS.  whole says that *)
(* the line parses as one record, nl that its newline is there.  Bytes     *)
(* written after a line without newline are glued to it, and the result    *)
(* parses as nothing.  Bytes that a failed flush leaves in the stdio       *)
(* buffer reach the file with the next flush; that is the same as their    *)
(* being there already.                                                    *)
(***************************************************************************)
EXTENDS Integers, Sequences

CONSTANTS MaxAttempts,   \* bound: append attempts
          MaxBoots       \* bound: calls of open

ASSUME IntentLogAssumption == MaxAttempts \in Nat /\ MaxBoots \in Nat

VARIABLES
  lines,      \* the file as the operating system has it
  synced,     \* so many lines are on stable storage
  exists,     \* there is a file
  named,      \* the directory entry is on stable storage
  proc,       \* "down", "opened" (not replayed) or "ready"
  next_seq,   \* IntentLog::next_seq_
  last_hash,  \* IntentLog::last_hash_, 0 when it is empty
  known,      \* the records this process can enumerate (replayed, then appended)
  failed,     \* an append of this process failed
  acked,      \* the hashes of the appends that ever returned success
  refused,    \* the last replay found a broken chain
  retried,    \* history: a process went on appending after a failed append
  attempts, boots

file   == <<lines, synced, exists, named>>
memory == <<proc, next_seq, last_hash, known, failed>>
logVars == <<lines, synced, exists, named, proc, next_seq, last_hash, known, failed,
            acked, refused, retried, attempts, boots>>

Line == [seq : Nat, prev : Nat, hash : Nat, whole : BOOLEAN, nl : BOOLEAN]

LogInit ==
  /\ lines = <<>> /\ synced = 0 /\ exists = FALSE /\ named = FALSE
  /\ proc = "down" /\ next_seq = 1 /\ last_hash = 0 /\ known = <<>> /\ failed = FALSE
  /\ acked = <<>> /\ refused = FALSE /\ retried = FALSE
  /\ attempts = 0 /\ boots = 0

-----------------------------------------------------------------------------
(* The file is created if need be; the log is handed out only if its       *)
(* directory could be synced.                                              *)
OpenLog ==
  /\ proc = "down" /\ boots < MaxBoots
  /\ boots' = boots + 1
  /\ exists' = TRUE
  /\ \/ named' = TRUE /\ proc' = "opened"
     \/ UNCHANGED <<named, proc>>
  /\ next_seq' = 1 /\ last_hash' = 0 /\ known' = <<>> /\ failed' = FALSE
  /\ UNCHANGED <<lines, synced, acked, refused, retried, attempts>>

-----------------------------------------------------------------------------
(* The file after the bytes of a line reach it.                            *)
Glued(line) ==
  IF lines # <<>> /\ ~lines[Len(lines)].nl
    THEN [lines EXCEPT ![Len(lines)].whole = FALSE, ![Len(lines)].nl = line.nl]
    ELSE Append(lines, line)

NewLine(whole, nl) ==
  [seq |-> next_seq, prev |-> last_hash, hash |-> attempts + 1, whole |-> whole, nl |-> nl]

MayAppend ==
  /\ proc = "ready"
  /\ retried' = (retried \/ failed)
  /\ attempts < MaxAttempts /\ attempts' = attempts + 1

(* Mutant: success is reported before the sync.                            *)
AppendUnsynced ==
  /\ MayAppend
  /\ lines' = Glued(NewLine(TRUE, TRUE))
  /\ next_seq' = next_seq + 1 /\ last_hash' = attempts + 1
  /\ known' = Append(known, attempts + 1)
  /\ acked' = Append(acked, attempts + 1)
  /\ UNCHANGED <<synced, exists, named, proc, failed, refused, boots>>

(* Written, flushed and synced; only then is the cursor advanced.          *)
AppendOk ==
  /\ MayAppend
  /\ lines' = Glued(NewLine(TRUE, TRUE))
  /\ synced' = Len(lines')
  /\ next_seq' = next_seq + 1 /\ last_hash' = attempts + 1
  /\ known' = Append(known, attempts + 1)
  /\ acked' = Append(acked, attempts + 1)
  /\ UNCHANGED <<exists, named, proc, failed, refused, boots>>

(* A short write or a failed sync: nothing, a part, the record without its *)
(* newline, or all of it is in the file.                                   *)
AppendFails ==
  /\ MayAppend
  /\ \/ UNCHANGED lines
     \/ \E part \in {<<FALSE, FALSE>>, <<TRUE, FALSE>>, <<TRUE, TRUE>>} :
          lines' = Glued(NewLine(part[1], part[2]))
  /\ failed' = TRUE
  /\ UNCHANGED <<synced, exists, named, proc, next_seq, last_hash, known, acked, refused, boots>>

-----------------------------------------------------------------------------
(* replay: the chain checks on line i, and what they make of the file.     *)

HashBefore(i) == IF i = 1 THEN 0 ELSE lines[i - 1].hash

Verified(i) == lines[i].whole /\ lines[i].seq = i /\ lines[i].prev = HashBefore(i)

Intact == \A i \in DOMAIN lines : Verified(i)

TornTail ==
  /\ lines # <<>>
  /\ ~lines[Len(lines)].whole /\ ~lines[Len(lines)].nl
  /\ \A i \in 1 .. (Len(lines) - 1) : Verified(i)

(* The records returned and the cursor rebuilt from them.                  *)
Rebuilt(n) ==
  /\ known' = [i \in 1 .. n |-> lines[i].hash]
  /\ next_seq' = n + 1
  /\ last_hash' = IF n = 0 THEN 0 ELSE lines[n].hash
  /\ proc' = "ready"

(* Mutant: the missing newline is not restored.                            *)
ReplayKeepsTail ==
  /\ proc = "opened" /\ Intact
  /\ Rebuilt(Len(lines))
  /\ refused' = FALSE
  /\ UNCHANGED <<file, failed, acked, retried, attempts, boots>>

(* Every record verifies; a missing last newline is written back and       *)
(* synced.                                                                 *)
ReplayIntact ==
  /\ proc = "opened" /\ Intact
  /\ Rebuilt(Len(lines))
  /\ IF lines # <<>> /\ ~lines[Len(lines)].nl
       THEN lines' = [lines EXCEPT ![Len(lines)].nl = TRUE] /\ synced' = Len(lines)
       ELSE UNCHANGED <<lines, synced>>
  /\ refused' = FALSE
  /\ UNCHANGED <<exists, named, failed, acked, retried, attempts, boots>>

(* Mutant: the fragment is cut off but still counted as stored.            *)
ReplayTornMiscounts ==
  /\ proc = "opened" /\ TornTail
  /\ Rebuilt(Len(lines) - 1)
  /\ lines' = SubSeq(lines, 1, Len(lines) - 1)
  /\ refused' = FALSE
  /\ UNCHANGED <<synced, exists, named, failed, acked, retried, attempts, boots>>

(* The last chunk is a fragment: cut it off and sync.                      *)
ReplayTorn ==
  /\ proc = "opened" /\ TornTail
  /\ Rebuilt(Len(lines) - 1)
  /\ lines' = SubSeq(lines, 1, Len(lines) - 1)
  /\ synced' = Len(lines) - 1
  /\ refused' = FALSE
  /\ UNCHANGED <<exists, named, failed, acked, retried, attempts, boots>>

(* Anything else is refused for good.                                      *)
ReplayRefuses ==
  /\ proc = "opened" /\ ~Intact /\ ~TornTail
  /\ refused' = TRUE
  /\ proc' = "down"
  /\ UNCHANGED <<file, next_seq, last_hash, known, failed, acked, retried, attempts, boots>>

(* The file cannot be read, or the repair fails before or after it has     *)
(* reached the file: replay reports an error and the boot ends.            *)
ReplayFails ==
  /\ proc = "opened"
  /\ \/ UNCHANGED lines
     \/ TornTail /\ lines' = SubSeq(lines, 1, Len(lines) - 1)
     \/ /\ Intact /\ lines # <<>> /\ ~lines[Len(lines)].nl
        /\ lines' = [lines EXCEPT ![Len(lines)].nl = TRUE]
  /\ synced' = IF synced < Len(lines') THEN synced ELSE Len(lines')
  /\ proc' = "down"
  /\ UNCHANGED <<exists, named, next_seq, last_hash, known, failed, acked, refused, retried, attempts,
                 boots>>

-----------------------------------------------------------------------------
(* The process dies; what it wrote stays in the file.                      *)
LogCrash ==
  /\ proc # "down"
  /\ proc' = "down"
  /\ UNCHANGED <<file, next_seq, last_hash, known, failed, acked, refused, retried, attempts, boots>>

(* Power is lost: an unsynced suffix may be gone, its first line may be    *)
(* cut short, and a file without a synced directory entry is gone.         *)
PowerCut ==
  /\ proc' = "down"
  /\ \/ /\ ~named
        /\ lines' = <<>> /\ synced' = 0 /\ exists' = FALSE
     \/ /\ \E n \in synced .. Len(lines) :
             \/ lines' = SubSeq(lines, 1, n)
             \/ /\ n < Len(lines)
                /\ \E w \in {FALSE, lines[n + 1].whole} :
                     lines' = Append(SubSeq(lines, 1, n),
                                     [lines[n + 1] EXCEPT !.whole = w, !.nl = FALSE])
        /\ synced' = Len(lines')
        /\ UNCHANGED exists
  /\ UNCHANGED <<named, next_seq, last_hash, known, failed, acked, refused, retried, attempts, boots>>

-----------------------------------------------------------------------------
LogNext ==
  \/ OpenLog
  \/ AppendOk \/ AppendFails
  \/ ReplayIntact \/ ReplayTorn \/ ReplayRefuses \/ ReplayFails
  \/ LogCrash \/ PowerCut

LogSpec == LogInit /\ [][LogNext]_logVars

-----------------------------------------------------------------------------
(* Properties.                                                             *)

(* Every variable keeps its type, and no more is synced than there is.     *)
LogTypeOK ==
  /\ lines \in Seq(Line) /\ synced \in 0 .. Len(lines)
  /\ exists \in BOOLEAN /\ named \in BOOLEAN
  /\ proc \in {"down", "opened", "ready"}
  /\ next_seq \in Nat \ {0} /\ last_hash \in Nat
  /\ known \in Seq(Nat) /\ acked \in Seq(Nat)
  /\ failed \in BOOLEAN /\ refused \in BOOLEAN /\ retried \in BOOLEAN
  /\ attempts \in Nat /\ boots \in Nat

(* A crash never leaves an un-enumerable order: once a boot's replay has   *)
(* succeeded, every append that ever returned success is among the records *)
(* it returned, once, and in the order the appends were made.              *)
AckedIsEnumerable ==
  proc = "ready" =>
    /\ \A i \in DOMAIN acked : \E k \in DOMAIN known : known[k] = acked[i]
    /\ \A i, j \in DOMAIN acked, k, l \in DOMAIN known :
         known[k] = acked[i] /\ known[l] = acked[j] => (i < j <=> k < l)

(* replay refuses a file that nobody but the log has written only when a   *)
(* process went on appending after a failed append; every other torn write *)
(* is repaired.                                                            *)
RefusesOnlyAfterRetry == refused => retried
=============================================================================
