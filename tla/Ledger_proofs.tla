--------------------------- MODULE Ledger_proofs ---------------------------
(***************************************************************************)
(* Proofs about Ledger: through every failure of append, of its sync and   *)
(* of its rollback, deaths and power losses, the chain stays loadable,     *)
(* ahead of its checkpoint and complete; and a ledger that opened holds    *)
(* what the checkpoint in force signed, whatever was done to the file.     *)
(***************************************************************************)
EXTENDS Ledger, SequenceTheorems, WellFoundedInduction, TLAPS

-----------------------------------------------------------------------------
(* The inductive invariant, in named parts.                                *)

(* The file as append, its failures and deaths leave it: whole lines, then *)
(* at most one that is an unterminated fragment or a record without its    *)
(* newline; what load() reads of it is a chain.                            *)
Shape(f) ==
  /\ \A i \in 1..Len(f) - 1 : f[i].ok /\ f[i].nl
  /\ f # <<>> => Last(f).ok \/ ~Last(f).nl
  /\ verify_chain(load(f))

Holds(f, hashes) == \A h \in hashes : \E i \in 1..Len(load(f)) : load(f)[i].hash = h

Sound(f, hashes) == Shape(f) /\ Holds(f, hashes)

Appending == pc \in {"flushed", "failed"}

(* With the files left alone: every content the medium may come to hold is *)
(* a sound chain with all that was acknowledged, and so is the one a       *)
(* running append would cut back to.                                       *)
FilesSound ==
  edits = 0 =>
    /\ \A f \in disk : Sound(f, acked)
    /\ Sound(file, acked)
    /\ Appending => Sound(before, acked)

(* The entries es are at the start of what load() reads of f.              *)
Within(es, f) == Len(es) <= Len(load(f)) /\ \A i \in 1..Len(es) : load(f)[i] = es[i]

(* Memory is never ahead of the file; it is the file while an append may   *)
(* start, and what the file was while one runs.                            *)
MemoryInFile ==
  (edits = 0 /\ pc # "down") =>
    /\ Within(entries, file)
    /\ verify_chain(entries)
    /\ (pc = "running" /\ ~poisoned) => entries = load(file)
    /\ Appending => entries = load(before)

(* e is the entry that continues the chain es.                             *)
IsNext(e, es) ==
  /\ e.seq = Len(es)
  /\ e.prev = head_hash(es)
  /\ e.hash = sha256_hex(e.prev, e.payload)

(* The line that is flushed and not yet in memory.                         *)
FlushedIsNext ==
  pc = "flushed" =>
    /\ file # <<>>
    /\ IsNext(Last(file).entry, entries)
    /\ edits = 0 => load(file) = Append(entries, Last(file).entry)

(* Neither the file nor what an append cuts it back to is behind the       *)
(* checkpoint.                                                             *)
CheckpointInFile ==
  (edits = 0 /\ ~dropped) =>
    /\ verify_against_checkpoint(load(file), checkpoint)
    /\ Appending => verify_against_checkpoint(load(before), checkpoint)

(* Where there is no checkpoint nothing is signed.                         *)
AbsentSignsNothing == checkpoint.form = "absent" => checkpoint.head = <<>>

LedgerIInv ==
  /\ TypeOK
  /\ FilesSound /\ MemoryInFile /\ FlushedIsNext /\ CheckpointInFile
  /\ AbsentSignsNothing /\ SignedPrefixHolds

-----------------------------------------------------------------------------
(* Sequences and hashes.                                                   *)

LEMMA LeastElement ==
  ASSUME NEW T, T \subseteq Nat, T # {}
  PROVE  \E n \in T : \A m \in T : n <= m
<1> DEFINE R == OpToRel(<, Nat)
<1>1. IsWellFoundedOn(R, Nat)
  BY NatLessThanWellFounded
<1>2. \A x, y \in Nat : x < y => <<x, y>> \in R
  BY DEF OpToRel
<1> HIDE DEF R
<1>3. PICK x \in T : \A y \in T : ~(<<y, x>> \in R)
  BY <1>1, WFMin
<1>4. ASSUME NEW y \in T PROVE x <= y
  <2>1. x \in Nat /\ y \in Nat
    OBVIOUS
  <2>2. ~(y < x)
    BY <1>2, <1>3, <2>1
  <2> QED BY <2>1, <2>2
<1> QED BY <1>3, <1>4

LEMMA PrefixIsPointwise ==
  ASSUME NEW S, NEW s \in Seq(S), NEW t \in Seq(S)
  PROVE  IsPrefix(s, t) <=> (Len(s) <= Len(t) /\ \A i \in 1..Len(s) : s[i] = t[i])
<1>1. Len(s) \in Nat /\ Len(t) \in Nat
  BY LenProperties
<1>2. SubSeq(s, 1, Len(s)) = s
  BY SubSeqFull
<1>3. ASSUME Len(s) <= Len(t)
      PROVE  /\ SubSeq(t, 1, Len(s)) \in Seq(S)
             /\ Len(SubSeq(t, 1, Len(s))) = Len(s)
             /\ \A i \in 1..Len(s) : SubSeq(t, 1, Len(s))[i] = t[i]
  <2>1. \A i \in 1..Len(s) : t[i] \in S
    BY <1>1, <1>3, ElementOfSeq
  <2>2. /\ SubSeq(t, 1, Len(s)) \in Seq(S)
        /\ Len(SubSeq(t, 1, Len(s))) = IF 1 <= Len(s) THEN Len(s) - 1 + 1 ELSE 0
        /\ \A i \in 1..Len(s) - 1 + 1 : SubSeq(t, 1, Len(s))[i] = t[1 + i - 1]
    BY <1>1, <2>1, SubSeqProperties
  <2> QED BY <1>1, <2>2
<1>4. ASSUME Len(s) <= Len(t), \A i \in 1..Len(s) : s[i] = t[i]
      PROVE  s = SubSeq(t, 1, Len(s))
  BY <1>3, <1>4, SeqEqual
<1> QED BY <1>2, <1>3, <1>4 DEF IsPrefix

LEMMA PrefixReflexive ==
  ASSUME NEW S, NEW s \in Seq(S)
  PROVE  IsPrefix(s, s)
<1>1. IsPrefix(s, s) <=> (Len(s) <= Len(s) /\ \A i \in 1..Len(s) : s[i] = s[i])
  BY PrefixIsPointwise
<1>2. Len(s) \in Nat
  BY LenProperties
<1> QED BY <1>1, <1>2

LEMMA EmptyIsPrefix ==
  ASSUME NEW S, NEW z \in Seq(S), NEW s \in Seq(S)
  PROVE  z = <<>> => IsPrefix(z, s)
<1>1. IsPrefix(z, s) <=> (Len(z) <= Len(s) /\ \A i \in 1..Len(z) : z[i] = s[i])
  BY PrefixIsPointwise
<1>2. Len(s) \in Nat /\ (z = <<>> => Len(z) = 0)
  BY LenProperties, EmptySeq
<1>3. Len(z) = 0 => (Len(z) <= Len(s) /\ \A i \in 1..Len(z) : z[i] = s[i])
  BY <1>2
<1> QED BY <1>1, <1>2, <1>3

(* A hash covers everything the hash before it covers.                     *)
LEMMA HashExtends ==
  ASSUME NEW S, NEW s \in Seq(S), NEW t \in Seq(S), NEW p \in S, IsPrefix(s, t)
  PROVE  Append(t, p) \in Seq(S) /\ IsPrefix(s, Append(t, p))
<1>1. /\ Append(t, p) \in Seq(S)
      /\ Len(Append(t, p)) = Len(t) + 1
      /\ \A i \in 1..Len(t) : Append(t, p)[i] = t[i]
  OBVIOUS
<1>2. Len(s) \in Nat /\ Len(t) \in Nat
  BY LenProperties
<1>3. Len(s) <= Len(t) /\ \A i \in 1..Len(s) : s[i] = t[i]
  BY PrefixIsPointwise
<1>4. Len(s) <= Len(Append(t, p)) /\ \A i \in 1..Len(s) : s[i] = Append(t, p)[i]
  BY <1>1, <1>2, <1>3
<1> QED BY <1>1, <1>4, PrefixIsPointwise

LEMMA EntryFields ==
  ASSUME NEW e \in LedgerEntry
  PROVE  e.seq \in Int /\ e.prev \in Seq(Stored) /\ e.payload \in Stored /\ e.hash \in Seq(Stored)
BY DEF LedgerEntry

LEMMA HeadType ==
  ASSUME NEW es \in Seq(LedgerEntry)
  PROVE  /\ head_hash(es) \in Seq(Stored)
         /\ es # <<>> => (Len(es) >= 1 /\ head_hash(es) = es[Len(es)].hash)
<1>1. es # <<>> => (Len(es) \in Nat /\ Len(es) >= 1 /\ es[Len(es)] \in LedgerEntry)
  BY EmptySeq, ElementOfSeq
<1>2. <<>> \in Seq(Stored)
  BY EmptySeq
<1> QED BY <1>1, <1>2, EntryFields DEF head_hash, Last

(* In a chain that verifies, each hash is a prefix of the head: by the     *)
(* least position from k on at which it would not be.                      *)
LEMMA ChainPrefix ==
  ASSUME NEW es \in Seq(LedgerEntry), verify_chain(es), NEW k \in 1..Len(es)
  PROVE  IsPrefix(es[k].hash, head_hash(es))
<1> DEFINE N == Len(es)
           T == {m \in k..N : ~IsPrefix(es[k].hash, es[m].hash)}
<1>1. N \in Nat /\ DOMAIN es = 1..N
  BY LenProperties
<1>2. \A m \in 1..N : es[m] \in LedgerEntry
  BY ElementOfSeq
<1>3. \A m \in 1..N : es[m].hash \in Seq(Stored) /\ es[m].payload \in Stored
  BY <1>2, EntryFields
<1>4. k \in Int /\ k >= 1 /\ k <= N
  BY <1>1
<1>5. T \subseteq Nat
  BY <1>1, <1>4
<1>6. ASSUME NEW n \in T, \A m \in T : n <= m PROVE FALSE
  <2>1. n \in k..N /\ ~IsPrefix(es[k].hash, es[n].hash)
    OBVIOUS
  <2>2. n # k
    BY <1>3, <1>4, <2>1, PrefixReflexive
  <2>3. n \in Int /\ n > k /\ n <= N /\ n - 1 \in k..N /\ n \in 1..N /\ n - 1 \in 1..N /\ n # 1
    BY <1>1, <1>4, <2>1, <2>2
  <2>4. n - 1 \notin T
    BY <1>6, <2>3
  <2>5. IsPrefix(es[k].hash, es[n - 1].hash)
    BY <2>3, <2>4
  <2>6. es[n].hash = Append(es[n - 1].hash, es[n].payload)
    BY <1>1, <2>3 DEF verify_chain, sha256_hex
  <2>7. es[k].hash \in Seq(Stored) /\ es[n - 1].hash \in Seq(Stored) /\ es[n].payload \in Stored
    BY <1>3, <2>3
  <2> HIDE DEF T, N
  <2>8. IsPrefix(es[k].hash, Append(es[n - 1].hash, es[n].payload))
    BY <2>5, <2>7, HashExtends
  <2> QED BY <2>1, <2>6, <2>8
<1>7. T = {}
  <2> HIDE DEF T
  <2> QED BY <1>5, <1>6, LeastElement
<1>8. IsPrefix(es[k].hash, es[N].hash)
  BY <1>1, <1>4, <1>7
<1>9. es # <<>>
  BY <1>4, EmptySeq
<1>10. head_hash(es) = es[N].hash
  BY <1>9, HeadType
<1> QED BY <1>8, <1>10

(* The next entry continues a chain that verifies.                         *)
LEMMA ChainAppend ==
  ASSUME NEW es \in Seq(LedgerEntry), NEW e \in LedgerEntry, verify_chain(es), IsNext(e, es)
  PROVE  verify_chain(Append(es, e))
<1> DEFINE N == Len(es)
           t == Append(es, e)
<1>1. N \in Nat /\ DOMAIN es = 1..N
  BY LenProperties
<1>2. DOMAIN t = 1..N + 1 /\ t[N + 1] = e /\ \A i \in 1..N : t[i] = es[i]
  BY <1>1
<1>3. es = <<>> <=> N = 0
  BY <1>1, EmptySeq
<1>4. head_hash(es) = IF N = 0 THEN <<>> ELSE es[N].hash
  BY <1>3 DEF head_hash, Last
<1> HIDE DEF t, N
<1> SUFFICES ASSUME NEW i \in 1..N + 1
             PROVE  /\ t[i].hash = sha256_hex(t[i].prev, t[i].payload)
                    /\ t[i].prev = IF i = 1 THEN <<>> ELSE t[i - 1].hash
                    /\ t[i].seq = i - 1
  BY <1>2 DEF verify_chain, t
<1>5. CASE i \in 1..N
  <2>1. t[i] = es[i] /\ (i # 1 => t[i - 1] = es[i - 1])
    BY <1>1, <1>2, <1>5
  <2> QED BY <1>1, <1>5, <2>1 DEF verify_chain
<1>6. CASE i = N + 1
  <2>1. t[i] = e
    BY <1>2, <1>6
  <2>2. i # 1 => (N # 0 /\ t[i - 1] = es[N])
    BY <1>1, <1>2, <1>6
  <2>3. i = 1 <=> N = 0
    BY <1>1, <1>6
  <2>4. e.seq = i - 1
    BY <1>1, <1>6 DEF IsNext, N
  <2> QED BY <1>4, <2>1, <2>2, <2>3, <2>4 DEF IsNext
<1> QED BY <1>1, <1>5, <1>6

-----------------------------------------------------------------------------
(* Lines, load() and what append writes.                                   *)

LEMMA LineFields ==
  ASSUME NEW l \in Line
  PROVE  l.ok \in BOOLEAN /\ l.nl \in BOOLEAN /\ l.entry \in LedgerEntry
BY DEF Line

Loaded(f) == IF Torn(f) THEN Len(f) - 1 ELSE Len(f)

LEMMA LoadReads ==
  ASSUME NEW f \in Seq(Line)
  PROVE  /\ load(f) \in Seq(LedgerEntry)
         /\ Len(load(f)) = Loaded(f)
         /\ Loaded(f) \in Nat /\ Loaded(f) <= Len(f)
         /\ \A i \in 1..Loaded(f) : load(f)[i] = f[i].entry
<1> DEFINE n == Loaded(f)
<1>1. Len(f) \in Nat /\ (f # <<>> => Len(f) >= 1)
  BY LenProperties, EmptySeq
<1>2. n \in Nat /\ n <= Len(f)
  BY <1>1 DEF Loaded, Torn
<1>3. load(f) = [i \in 1..n |-> f[i].entry]
  BY DEF load, Loaded
<1>4. \A i \in 1..n : f[i].entry \in LedgerEntry
  BY <1>1, <1>2, ElementOfSeq, LineFields
<1> HIDE DEF n
<1>5. load(f) \in [1..n -> LedgerEntry]
  BY <1>3, <1>4
<1>6. load(f) \in Seq(LedgerEntry)
  BY <1>2, <1>5, SeqDef
<1>7. DOMAIN load(f) = 1..n
  BY <1>3
<1>8. Len(load(f)) = n
  BY <1>2, <1>6, <1>7
<1> QED BY <1>2, <1>3, <1>6, <1>8 DEF n

LEMMA AppendLine ==
  ASSUME NEW f \in Seq(Line), NEW l \in Line
  PROVE  /\ Append(f, l) \in Seq(Line) /\ Append(f, l) # <<>>
         /\ Len(Append(f, l)) = Len(f) + 1
         /\ \A i \in 1..Len(f) : Append(f, l)[i] = f[i]
         /\ Last(Append(f, l)) = l
<1>1. Len(f) \in Nat
  BY LenProperties
<1>2. /\ Append(f, l) \in Seq(Line)
      /\ Len(Append(f, l)) = Len(f) + 1
      /\ \A i \in 1..Len(f) : Append(f, l)[i] = f[i]
      /\ Append(f, l)[Len(f) + 1] = l
  BY <1>1
<1>3. Append(f, l) # <<>>
  BY <1>1, <1>2, EmptySeq
<1> QED BY <1>2, <1>3 DEF Last

LEMMA LoadAppendRecord ==
  ASSUME NEW f \in Seq(Line), NEW l \in Line, ~Torn(f), l.ok
  PROVE  load(Append(f, l)) = Append(load(f), l.entry)
<1> DEFINE g == Append(f, l)
<1>1. /\ g \in Seq(Line) /\ g # <<>> /\ Len(g) = Len(f) + 1
      /\ \A i \in 1..Len(f) : g[i] = f[i]
      /\ Last(g) = l
  BY AppendLine
<1>2. Len(f) \in Nat /\ l.entry \in LedgerEntry
  BY LenProperties, LineFields
<1>3. g[Len(f) + 1] = l
  BY <1>1 DEF Last
<1> HIDE DEF g
<1>4. ~Torn(g)
  BY <1>1 DEF Torn
<1>5. Loaded(g) = Len(f) + 1 /\ Loaded(f) = Len(f)
  BY <1>1, <1>4 DEF Loaded
<1>6. /\ load(f) \in Seq(LedgerEntry) /\ Len(load(f)) = Len(f)
      /\ \A i \in 1..Len(f) : load(f)[i] = f[i].entry
  BY <1>5, LoadReads
<1>7. /\ load(g) \in Seq(LedgerEntry) /\ Len(load(g)) = Len(f) + 1
      /\ \A i \in 1..Len(f) + 1 : load(g)[i] = g[i].entry
  BY <1>1, <1>5, LoadReads
<1> DEFINE t == Append(load(f), l.entry)
<1>8. /\ t \in Seq(LedgerEntry) /\ Len(t) = Len(f) + 1
      /\ \A i \in 1..Len(f) : t[i] = f[i].entry
      /\ t[Len(f) + 1] = l.entry
  BY <1>2, <1>6
<1> HIDE DEF t
<1>9. \A i \in 1..Len(f) + 1 : load(g)[i] = t[i]
  BY <1>1, <1>2, <1>3, <1>7, <1>8
<1>10. load(g) = t
  BY <1>7, <1>8, <1>9, SeqEqual
<1> QED BY <1>10 DEF g, t

LEMMA LoadAppendJunk ==
  ASSUME NEW f \in Seq(Line), NEW l \in Line, ~Torn(f), ~l.ok
  PROVE  load(Append(f, l)) = load(f)
<1> DEFINE g == Append(f, l)
<1>1. /\ g \in Seq(Line) /\ g # <<>> /\ Len(g) = Len(f) + 1
      /\ \A i \in 1..Len(f) : g[i] = f[i]
      /\ Last(g) = l
  BY AppendLine
<1>2. Len(f) \in Nat
  BY LenProperties
<1> HIDE DEF g
<1>3. Torn(g)
  BY <1>1 DEF Torn
<1>4. Loaded(g) = Len(f) /\ Loaded(f) = Len(f)
  BY <1>1, <1>2, <1>3 DEF Loaded
<1>5. /\ load(f) \in Seq(LedgerEntry) /\ Len(load(f)) = Len(f)
      /\ \A i \in 1..Len(f) : load(f)[i] = f[i].entry
  BY <1>4, LoadReads
<1>6. /\ load(g) \in Seq(LedgerEntry) /\ Len(load(g)) = Len(f)
      /\ \A i \in 1..Len(f) : load(g)[i] = g[i].entry
  BY <1>1, <1>4, LoadReads
<1>7. load(g) = load(f)
  BY <1>1, <1>5, <1>6, SeqEqual
<1> QED BY <1>7 DEF g

(* What append works with once ends_on_record_boundary() let it through.   *)
LEMMA BoundaryIsWhole ==
  ASSUME NEW f \in Seq(Line), Shape(f), ends_on_record_boundary(f)
  PROVE  ~Torn(f) /\ \A i \in 1..Len(f) : f[i].ok /\ f[i].nl
<1>1. Len(f) \in Nat /\ (f = <<>> => Len(f) = 0)
  BY LenProperties, EmptySeq
<1>2. f # <<>> => (f[Len(f)].ok /\ f[Len(f)].nl)
  BY DEF Shape, ends_on_record_boundary, Last
<1>3. \A i \in 1..Len(f) : i \in 1..Len(f) - 1 \/ (i = Len(f) /\ f # <<>>)
  BY <1>1
<1> QED BY <1>2, <1>3 DEF Shape, Torn, Last

Junk(newline) == [ok |-> FALSE, nl |-> newline, entry |-> NoEntry]

LEMMA JunkIsALine ==
  ASSUME NEW newline \in BOOLEAN
  PROVE  Junk(newline) \in Line /\ ~Junk(newline).ok /\ Junk(newline).nl = newline
<1>1. <<>> \in Seq(Stored)
  BY EmptySeq
<1>2. NoEntry \in LedgerEntry
  BY <1>1 DEF NoEntry, LedgerEntry, Stored
<1> QED BY <1>2 DEF Junk, Line

(* The JSON writer leaves canonical text as it is.                         *)
LEMMA RecordIsTheEntry ==
  ASSUME NEW e \in LedgerEntry, NEW newline \in BOOLEAN
  PROVE  entry_to_line(e, newline) = [ok |-> TRUE, nl |-> newline, entry |-> e]
<1>1. e.payload \in Stored
  BY EntryFields
<1>2. dump_compact(e.payload) = e.payload
  BY <1>1 DEF dump_compact, Stored
<1>3. [e EXCEPT !.payload = dump_compact(@)] = e
  BY <1>2 DEF LedgerEntry
<1> QED BY <1>3 DEF entry_to_line

LEMMA RecordIsALine ==
  ASSUME NEW e \in LedgerEntry, NEW newline \in BOOLEAN
  PROVE  /\ entry_to_line(e, newline) \in Line
         /\ entry_to_line(e, newline).ok
         /\ entry_to_line(e, newline).nl = newline
         /\ entry_to_line(e, newline).entry = e
<1>1. entry_to_line(e, newline) = [ok |-> TRUE, nl |-> newline, entry |-> e]
  BY RecordIsTheEntry
<1>2. [ok |-> TRUE, nl |-> newline, entry |-> e] \in Line
  BY DEF Line
<1> QED BY <1>1, <1>2

LEMMA PutWrites ==
  ASSUME NEW f, NEW e, NEW part, ends_on_record_boundary(f)
  PROVE  /\ part = "nothing" => Put(f, part, e) = f
         /\ part = "fragment" => Put(f, part, e) = Append(f, Junk(FALSE))
         /\ part = "bare" => Put(f, part, e) = Append(f, entry_to_line(e, FALSE))
         /\ part = "line" => Put(f, part, e) = Append(f, entry_to_line(e, TRUE))
<1> DEFINE whole == entry_to_line(e, part = "line")
           junk  == [ok |-> FALSE, nl |-> whole.nl, entry |-> NoEntry]
<1>1. Put(f, part, e) = CASE part = "nothing"             -> f
                          [] ~ends_on_record_boundary(f)  -> Append(Front(f), junk)
                          [] part = "fragment"            -> Append(f, junk)
                          [] OTHER                        -> Append(f, whole)
  BY DEF Put
<1>2. "nothing" # "fragment" /\ "nothing" # "bare" /\ "nothing" # "line"
      /\ "fragment" # "bare" /\ "fragment" # "line" /\ "bare" # "line"
  OBVIOUS
<1>3. whole.nl <=> part = "line"
  BY DEF entry_to_line
<1>4. CASE part = "fragment"
  <2>1. Put(f, part, e) = Append(f, junk)
    <3> HIDE DEF junk, whole
    <3> QED BY <1>1, <1>2, <1>4, Zenon
  <2>2. (part = "line") = FALSE
    BY <1>4
  <2>3. whole.nl = FALSE
    BY <2>2 DEF entry_to_line
  <2> QED BY <1>4, <2>1, <2>3 DEF Junk
<1>5. CASE part = "nothing"
  BY <1>1, <1>2, <1>5, Zenon
<1>6. CASE part = "bare"
  <2>1. Put(f, part, e) = Append(f, whole)
    <3> HIDE DEF junk, whole
    <3> QED BY <1>1, <1>2, <1>6, Zenon
  <2>2. (part = "line") = FALSE
    BY <1>6
  <2> QED BY <1>6, <2>1, <2>2
<1>7. CASE part = "line"
  <2>1. Put(f, part, e) = Append(f, whole)
    <3> HIDE DEF junk, whole
    <3> QED BY <1>1, <1>2, <1>7, Zenon
  <2>2. (part = "line") = TRUE
    BY <1>7
  <2> QED BY <1>7, <2>1, <2>2
<1> QED BY <1>4, <1>5, <1>6, <1>7

(* The entry append computes is typed and continues the chain.             *)
LEMMA EntryIsNext ==
  ASSUME TypeOK, NEW p \in Raw
  PROVE  Entry(p) \in LedgerEntry /\ IsNext(Entry(p), entries)
<1> DEFINE q == canonical_text(scrub(p))
<1>1. q \in Stored
  BY DEF Raw, Stored, canonical_text, scrub
<1>2. entries \in Seq(LedgerEntry)
  BY DEF TypeOK
<1>3. Len(entries) \in Int /\ head_hash(entries) \in Seq(Stored)
  BY <1>2, LenProperties, HeadType
<1> HIDE DEF q
<1>4. Append(head_hash(entries), q) \in Seq(Stored)
  BY <1>1, <1>3
<1>5. Entry(p) = [seq |-> Len(entries), prev |-> head_hash(entries), payload |-> q,
                  hash |-> Append(head_hash(entries), q)]
  BY DEF Entry, q, sha256_hex
<1> QED BY <1>1, <1>3, <1>4, <1>5 DEF LedgerEntry, IsNext, sha256_hex

LEMMA PutType ==
  ASSUME NEW f \in Seq(Line), NEW e \in LedgerEntry, NEW part \in Reached,
         ends_on_record_boundary(f)
  PROVE  /\ Put(f, part, e) \in Seq(Line)
         /\ part = "line" => (Put(f, part, e) # <<>> /\ Last(Put(f, part, e)).entry = e)
<1>1. FALSE \in BOOLEAN /\ TRUE \in BOOLEAN
  OBVIOUS
<1>2. CASE part = "nothing"
  BY <1>2, PutWrites
<1>3. CASE part = "fragment"
  <2>1. Put(f, part, e) = Append(f, Junk(FALSE)) /\ Junk(FALSE) \in Line
    BY <1>1, <1>3, PutWrites, JunkIsALine
  <2> QED BY <1>3, <2>1, AppendLine
<1>4. ASSUME NEW n \in BOOLEAN
      PROVE  LET g == Append(f, entry_to_line(e, n))
             IN  g \in Seq(Line) /\ g # <<>> /\ Last(g).entry = e
  BY RecordIsALine, AppendLine
<1>5. CASE part = "bare"
  BY <1>1, <1>4, <1>5, PutWrites
<1>6. CASE part = "line"
  <2> DEFINE g == Append(f, entry_to_line(e, TRUE))
  <2>1. Put(f, part, e) = g
    BY <1>6, PutWrites
  <2>2. g \in Seq(Line) /\ g # <<>> /\ Last(g).entry = e
    BY <1>1, <1>4
  <2> HIDE DEF g
  <2> QED BY <2>1, <2>2
<1> QED BY <1>2, <1>3, <1>5, <1>6 DEF Reached

(* Whatever part of the record reaches the file, it stays a chain: what    *)
(* load() reads is what it read before, or that and the new entry.         *)
LEMMA PutKeepsShape ==
  ASSUME NEW f \in Seq(Line), NEW e \in LedgerEntry, NEW part \in Reached,
         ends_on_record_boundary(f), Shape(f), IsNext(e, load(f))
  PROVE  /\ Shape(Put(f, part, e))
         /\ load(Put(f, part, e)) = load(f) \/ load(Put(f, part, e)) = Append(load(f), e)
         /\ part = "line" => load(Put(f, part, e)) = Append(load(f), e)
<1>1. FALSE \in BOOLEAN /\ TRUE \in BOOLEAN
  OBVIOUS
<1>2. ~Torn(f) /\ \A i \in 1..Len(f) : f[i].ok /\ f[i].nl
  BY BoundaryIsWhole
<1>3. load(f) \in Seq(LedgerEntry) /\ verify_chain(load(f))
  BY LoadReads DEF Shape
<1>4. verify_chain(Append(load(f), e))
  BY <1>3, ChainAppend
<1>5. Len(f) \in Nat
  BY LenProperties
<1>6. ASSUME NEW l \in Line, l.ok \/ ~l.nl, verify_chain(load(Append(f, l)))
      PROVE  Shape(Append(f, l))
  <2>1. /\ Append(f, l) # <<>> /\ Len(Append(f, l)) = Len(f) + 1
        /\ \A i \in 1..Len(f) : Append(f, l)[i] = f[i]
        /\ Last(Append(f, l)) = l
    BY AppendLine
  <2>2. Len(Append(f, l)) - 1 = Len(f)
    BY <1>5, <2>1
  <2> QED BY <1>2, <1>6, <2>1, <2>2 DEF Shape
<1>7. CASE part = "nothing"
  BY <1>7, PutWrites
<1>8. CASE part = "fragment"
  <2>1. /\ Put(f, part, e) = Append(f, Junk(FALSE))
        /\ Junk(FALSE) \in Line /\ ~Junk(FALSE).ok /\ ~Junk(FALSE).nl
    BY <1>1, <1>8, PutWrites, JunkIsALine
  <2>2. load(Append(f, Junk(FALSE))) = load(f)
    BY <1>2, <2>1, LoadAppendJunk
  <2> QED BY <1>3, <1>6, <1>8, <2>1, <2>2
<1>9. ASSUME NEW n \in BOOLEAN
      PROVE  /\ load(Append(f, entry_to_line(e, n))) = Append(load(f), e)
             /\ Shape(Append(f, entry_to_line(e, n)))
  <2>1. /\ entry_to_line(e, n) \in Line /\ entry_to_line(e, n).ok
        /\ entry_to_line(e, n).entry = e
    BY RecordIsALine
  <2>2. load(Append(f, entry_to_line(e, n))) = Append(load(f), e)
    BY <1>2, <2>1, LoadAppendRecord
  <2> QED BY <1>4, <1>6, <2>1, <2>2
<1>10. CASE part = "bare"
  BY <1>1, <1>9, <1>10, PutWrites
<1>11. CASE part = "line"
  BY ZenonT(30), <1>1, <1>9, <1>11, PutWrites
<1> QED BY <1>7, <1>8, <1>10, <1>11 DEF Reached

(* What holds of a chain holds of one that continues it.                   *)
LEMMA Continues ==
  ASSUME NEW es \in Seq(LedgerEntry), NEW t \in Seq(LedgerEntry), NEW e \in LedgerEntry,
         t = es \/ t = Append(es, e)
  PROVE  /\ Len(es) <= Len(t)
         /\ \A i \in 1..Len(es) : t[i] = es[i]
<1>1. Len(es) \in Nat
  BY LenProperties
<1>2. CASE t = es
  BY <1>1, <1>2
<1>3. CASE t = Append(es, e)
  BY <1>1, <1>3
<1> QED BY <1>2, <1>3

LEMMA CheckpointContinues ==
  ASSUME NEW es \in Seq(LedgerEntry), NEW t \in Seq(LedgerEntry),
         Len(es) <= Len(t), \A i \in 1..Len(es) : t[i] = es[i],
         NEW cp \in Checkpoint, verify_against_checkpoint(es, cp)
  PROVE  verify_against_checkpoint(t, cp)
<1>1. cp.count \in Nat
  BY DEF Checkpoint
<1>2. Len(es) \in Nat /\ Len(t) \in Nat
  BY LenProperties
<1>3. (cp.count >= 1 /\ Len(es) >= cp.count) =>
        (Len(t) >= cp.count /\ t[cp.count] = es[cp.count])
  BY <1>1, <1>2
<1> QED BY <1>3 DEF verify_against_checkpoint

LEMMA SignedIsReached ==
  ASSUME NEW es \in Seq(LedgerEntry), es # <<>>, NEW t \in Seq(LedgerEntry),
         Len(es) <= Len(t), \A i \in 1..Len(es) : t[i] = es[i]
  PROVE  verify_against_checkpoint(t, sign_head(es, Own))
<1>1. Len(es) \in Nat /\ Len(es) >= 1 /\ head_hash(es) = es[Len(es)].hash
  BY LenProperties, HeadType
<1>2. t[Len(es)] = es[Len(es)]
  BY <1>1
<1> DEFINE cp == sign_head(es, Own)
<1>3. /\ cp.form = "bundle" /\ cp.count = Len(es) /\ cp.head = head_hash(es)
      /\ cp.key = Own /\ cp.by = Own
  BY DEF sign_head
<1> HIDE DEF cp
<1>4. verify_against_checkpoint(t, cp)
  BY <1>1, <1>2, <1>3 DEF verify_against_checkpoint, require_key_match, verify_head
<1> QED BY <1>4 DEF cp

-----------------------------------------------------------------------------
(* What may be left in the two files from outside is typed.                *)
LEMMA AlteredIs ==
  ASSUME NEW f \in Altered
  PROVE  \E i \in DOMAIN file : \E p \in Stored : f = [file EXCEPT ![i].entry.payload = p]
BY SMT DEF Altered

LEMMA ReplacedIs ==
  ASSUME NEW f \in Replaced
  PROVE  \E n \in 1..Len(file) : \E p \in Stored : f = Chain([i \in 1..n |-> p])
BY SMTT(30) DEF Replaced

LEMMA EditedType ==
  ASSUME TypeOK, NEW f \in Edited
  PROVE  f \in Seq(Line)
<1>1. file \in Seq(Line) /\ Len(file) \in Nat /\ \A i \in 1..Len(file) : file[i] \in Line
  BY LenProperties, ElementOfSeq DEF TypeOK
<1>2. ASSUME NEW n \in 0..Len(file), f = SubSeq(file, 1, n)
      PROVE  f \in Seq(Line)
  <2>1. n \in Int /\ 1 \in Int /\ \A i \in 1..n : file[i] \in Line
    BY <1>1
  <2> QED BY <1>2, <2>1, SubSeqProperties
<1>3. ASSUME NEW i \in DOMAIN file, NEW p \in Stored,
             f = [file EXCEPT ![i].entry.payload = p]
      PROVE  f \in Seq(Line)
  <2> DEFINE l == [file[i] EXCEPT !.entry.payload = p]
  <2>1. i \in 1..Len(file)
    BY <1>1
  <2>2. file[i] \in Line /\ file[i].entry \in LedgerEntry
    BY <1>1, <2>1, LineFields
  <2>3. l \in Line
    BY <2>2 DEF Line, LedgerEntry
  <2>4. f = [file EXCEPT ![i] = l]
    BY <1>3
  <2> HIDE DEF l
  <2> QED BY <1>1, <2>1, <2>3, <2>4, ExceptSeq
<1>4. ASSUME NEW n \in 1..Len(file), NEW p \in Stored, f = Chain([i \in 1..n |-> p])
      PROVE  f \in Seq(Line)
  <2> DEFINE ps == [i \in 1..n |-> p]
  <2>1. n \in Nat /\ DOMAIN ps = 1..n /\ \A i \in 1..n : ps[i] \in Stored
    BY <1>1
  <2> HIDE DEF ps
  <2>2. ASSUME NEW i \in 1..n
        PROVE  entry_to_line([seq |-> i - 1, prev |-> SubSeq(ps, 1, i - 1), payload |-> ps[i],
                              hash |-> SubSeq(ps, 1, i)], TRUE) \in Line
    <3>1. i \in Int /\ i - 1 \in Int /\ 1 \in Int
      BY <2>1
    <3>2. (\A j \in 1..i : ps[j] \in Stored) /\ (\A j \in 1..i - 1 : ps[j] \in Stored)
      BY <2>1
    <3>3. SubSeq(ps, 1, i - 1) \in Seq(Stored) /\ SubSeq(ps, 1, i) \in Seq(Stored)
      BY <3>1, <3>2, SubSeqProperties
    <3> DEFINE e == [seq |-> i - 1, prev |-> SubSeq(ps, 1, i - 1), payload |-> ps[i],
                     hash |-> SubSeq(ps, 1, i)]
    <3>4. e \in LedgerEntry
      BY <2>1, <3>1, <3>3 DEF LedgerEntry
    <3> HIDE DEF e
    <3>5. entry_to_line(e, TRUE) \in Line
      BY <3>4, RecordIsALine
    <3> QED BY <3>5 DEF e
  <2>3. f \in [1..n -> Line]
    BY <1>4, <2>1, <2>2 DEF Chain, ps
  <2> QED BY <2>1, <2>3, SeqDef
<1>5. f \in Shortened => f \in Seq(Line)
  BY <1>2 DEF Shortened
<1>6. ASSUME f \in Altered PROVE f \in Seq(Line)
  <2>1. PICK i \in DOMAIN file : \E p \in Stored : f = [file EXCEPT ![i].entry.payload = p]
    BY <1>6, AlteredIs
  <2>2. PICK p \in Stored : f = [file EXCEPT ![i].entry.payload = p]
    BY <2>1
  <2> QED BY <1>3, <2>2
<1>7. f \in Replaced => f \in Seq(Line)
  BY <1>4, ReplacedIs
<1> QED BY <1>5, <1>6, <1>7, Zenon DEF Edited

(* And a checkpoint left from outside is one, and where it is none it      *)
(* signs nothing.                                                          *)
LEMMA EditedCheckpointIs ==
  ASSUME TypeOK, AbsentSignsNothing, NEW cp \in EditedCheckpoint
  PROVE  cp \in Checkpoint /\ (cp.form = "absent" => cp.head = <<>>)
<1>1. file \in Seq(Line) /\ checkpoint \in Checkpoint
  BY DEF TypeOK
<1>2. load(file) \in Seq(LedgerEntry)
  BY <1>1, LoadReads
<1>3. Len(load(file)) \in Nat /\ head_hash(load(file)) \in Seq(Stored) /\ <<>> \in Seq(Stored)
  BY <1>2, LenProperties, HeadType, EmptySeq
<1> DEFINE fp == sign_head(load(file), Foreign)
<1>4. fp = [form |-> "bundle", count |-> Len(load(file)), head |-> head_hash(load(file)),
            key |-> Foreign, by |-> Foreign]
  BY DEF sign_head
<1>5. CASE cp = checkpoint
  BY <1>1, <1>5 DEF AbsentSignsNothing
<1>6. CASE cp \in {NoCheckpoint, Garbled}
  <2>1. /\ NoCheckpoint = [form |-> "absent", count |-> 0, head |-> <<>>, key |-> Own, by |-> Own]
        /\ Garbled = [form |-> "garbage", count |-> 0, head |-> <<>>, key |-> Own, by |-> Own]
    BY DEF Garbled, NoCheckpoint
  <2>2. NoCheckpoint \in Checkpoint /\ Garbled \in Checkpoint
    BY <1>3, <2>1 DEF Checkpoint
  <2> QED BY <1>6, <2>1, <2>2
<1>7. CASE cp = fp
  <2>1. fp \in Checkpoint
    BY <1>3, <1>4 DEF Checkpoint
  <2> QED BY <1>4, <1>7, <2>1
<1>8. CASE cp = [fp EXCEPT !.key = Own]
  <2>1. cp = [form |-> "bundle", count |-> Len(load(file)), head |-> head_hash(load(file)),
              key |-> Own, by |-> Foreign]
    BY <1>4, <1>8
  <2>2. cp \in Checkpoint
    BY <1>3, <2>1 DEF Checkpoint
  <2> QED BY <2>1, <2>2
<1>9. ASSUME NEW h \in heads, NEW n \in 0..MaxEntries,
             cp = [form |-> "bundle", count |-> n, head |-> h, key |-> Own, by |-> Own]
      PROVE  cp \in Checkpoint /\ cp.form # "absent"
  <2>1. n \in Nat /\ h \in Seq(Stored)
    BY LedgerBounds DEF TypeOK
  <2>2. cp \in Checkpoint
    BY <1>9, <2>1 DEF Checkpoint
  <2> QED BY <1>9, <2>2
<1> HIDE DEF fp
<1>10. cp \in {NoCheckpoint, checkpoint, Garbled, fp, [fp EXCEPT !.key = Own]}
       \/ \E h \in heads, n \in 0..MaxEntries :
            cp = [form |-> "bundle", count |-> n, head |-> h, key |-> Own, by |-> Own]
  BY DEF EditedCheckpoint, fp
<1> QED BY <1>5, <1>6, <1>7, <1>8, <1>9, <1>10

LEMMA LedgerInit == Init => LedgerIInv
<1> SUFFICES ASSUME Init PROVE LedgerIInv
  OBVIOUS
<1>1. <<>> \in Seq(Line) /\ <<>> \in Seq(LedgerEntry) /\ <<>> \in Seq(Stored)
  BY EmptySeq
<1>2. checkpoint \in Checkpoint
  BY <1>1 DEF Init, NoCheckpoint, Checkpoint
<1>3. TypeOK
  BY <1>1, <1>2 DEF Init, TypeOK
<1>4. file = <<>> /\ file \in Seq(Line) /\ Len(file) = 0
  BY <1>1, EmptySeq DEF Init
<1>5. ~Torn(file)
  BY <1>4 DEF Torn
<1>6. Loaded(file) = 0
  BY <1>4, <1>5 DEF Loaded
<1>7. load(file) \in Seq(LedgerEntry) /\ Len(load(file)) = 0
  BY <1>4, <1>6, LoadReads
<1>8. DOMAIN load(file) = {}
  BY <1>7
<1>9. Sound(file, acked)
  BY <1>4, <1>8 DEF Sound, Shape, Holds, verify_chain, Init
<1>10. FilesSound
  BY <1>9 DEF FilesSound, Appending, Init
<1>11. CheckpointInFile
  BY DEF CheckpointInFile, Appending, Init, verify_against_checkpoint, NoCheckpoint
<1>12. AbsentSignsNothing
  BY DEF AbsentSignsNothing, Init, NoCheckpoint
<1> QED BY <1>3, <1>10, <1>11, <1>12
        DEF LedgerIInv, MemoryInFile, FlushedIsNext, SignedPrefixHolds, Init

-----------------------------------------------------------------------------
(* One lemma per action.                                                   *)

LEMMA TypeFacts ==
  ASSUME TypeOK
  PROVE  /\ file \in Seq(Line) /\ before \in Seq(Line) /\ entries \in Seq(LedgerEntry)
         /\ load(file) \in Seq(LedgerEntry) /\ load(before) \in Seq(LedgerEntry)
         /\ checkpoint \in Checkpoint /\ signed \in Seq(Stored)
         /\ head_hash(entries) \in Seq(Stored)
BY LoadReads, HeadType DEF TypeOK

LEMMA WithinItself ==
  ASSUME NEW f \in Seq(Line)
  PROVE  Within(load(f), f)
<1>1. Len(load(f)) \in Nat
  BY LoadReads
<1> QED BY <1>1 DEF Within

LEMMA OpenPreserves ==
  ASSUME LedgerIInv, OpenLedger
  PROVE  LedgerIInv'
<1>1. TypeOK /\ FilesSound /\ CheckpointInFile /\ AbsentSignsNothing
  BY DEF LedgerIInv
<1>2. /\ file \in Seq(Line) /\ load(file) \in Seq(LedgerEntry)
      /\ checkpoint \in Checkpoint /\ signed \in Seq(Stored)
      /\ head_hash(load(file)) \in Seq(Stored)
  BY <1>1, TypeFacts, HeadType
<1>3. /\ pc = "down" /\ pc' = "running" /\ poisoned' = FALSE /\ entries' = load(file)
      /\ verify_chain(load(file)) /\ verify_against_checkpoint(load(file), checkpoint)
      /\ file' = file /\ disk' = disk /\ checkpoint' = checkpoint /\ before' = before
      /\ signed' = (IF Stands THEN signed ELSE checkpoint.head)
      /\ acked' = acked /\ heads' = heads /\ faults' = faults /\ edits' = edits
      /\ dropped' = dropped
  BY DEF OpenLedger
<1>4. TypeOK'
  <2>1. signed' \in Seq(Stored)
    BY <1>2, <1>3 DEF Checkpoint
  <2> QED BY <1>1, <1>2, <1>3, <2>1 DEF TypeOK
<1>5. FilesSound'
  BY <1>1, <1>3 DEF FilesSound, Appending
<1>6. Within(load(file), file)
  BY <1>2, WithinItself
<1>7. MemoryInFile'
  BY <1>3, <1>6 DEF MemoryInFile, Appending
<1>8. FlushedIsNext' /\ CheckpointInFile' /\ AbsentSignsNothing'
  BY <1>1, <1>3 DEF FlushedIsNext, CheckpointInFile, AbsentSignsNothing, Appending
<1>9. IsPrefix(signed', head_hash(load(file)))
  <2>1. CASE checkpoint.form = "absent"
    <3>1. signed' = <<>>
      BY <1>1, <1>3, <2>1 DEF Stands, AbsentSignsNothing
    <3>2. signed' \in Seq(Stored)
      BY <1>4 DEF TypeOK
    <3> QED BY <1>2, <3>1, <3>2, EmptyIsPrefix
  <2>2. CASE checkpoint.form # "absent"
    <3>1. /\ checkpoint.form = "bundle" /\ checkpoint.count >= 1 /\ checkpoint.by = Own
          /\ Len(load(file)) >= checkpoint.count
          /\ load(file)[checkpoint.count].hash = checkpoint.head
      BY <1>3, <2>2 DEF verify_against_checkpoint, verify_head
    <3>2. checkpoint.head = signed'
      BY <1>3, <3>1 DEF Stands
    <3>3. checkpoint.count \in Nat /\ Len(load(file)) \in Nat
      BY <1>2, LenProperties DEF Checkpoint
    <3>4. checkpoint.count \in 1..Len(load(file))
      BY <3>1, <3>3
    <3>5. IsPrefix(load(file)[checkpoint.count].hash, head_hash(load(file)))
      BY <1>2, <1>3, <3>4, ChainPrefix
    <3> QED BY <3>1, <3>2, <3>5
  <2> QED BY <2>1, <2>2
<1>10. SignedPrefixHolds'
  BY <1>3, <1>9 DEF SignedPrefixHolds
<1> QED BY <1>4, <1>5, <1>7, <1>8, <1>10 DEF LedgerIInv

LEMMA SealPreserves ==
  ASSUME LedgerIInv, SealTorn
  PROVE  LedgerIInv'
<1>1. /\ TypeOK /\ FilesSound /\ MemoryInFile /\ CheckpointInFile
      /\ AbsentSignsNothing /\ SignedPrefixHolds
  BY DEF LedgerIInv
<1>2. /\ pc = "running" /\ pc' = "running" /\ poisoned' = TRUE /\ entries' = entries
      /\ file' = file /\ disk' = disk /\ checkpoint' = checkpoint /\ before' = before
      /\ acked' = acked /\ signed' = signed /\ heads' = heads /\ faults' = faults /\ edits' = edits
      /\ dropped' = dropped
  BY DEF SealTorn
<1>3. TypeOK'
  BY <1>1, <1>2 DEF TypeOK
<1>4. FilesSound' /\ MemoryInFile' /\ FlushedIsNext'
  BY <1>1, <1>2 DEF FilesSound, MemoryInFile, FlushedIsNext, Appending
<1>5. CheckpointInFile' /\ AbsentSignsNothing' /\ SignedPrefixHolds'
  BY <1>1, <1>2 DEF CheckpointInFile, AbsentSignsNothing, SignedPrefixHolds, Appending
<1> QED BY <1>3, <1>4, <1>5 DEF LedgerIInv

LEMMA WritePreserves ==
  ASSUME LedgerIInv, NEW p \in Raw, Write(p)
  PROVE  LedgerIInv'
<1>1. /\ TypeOK /\ FilesSound /\ MemoryInFile /\ CheckpointInFile
      /\ AbsentSignsNothing /\ SignedPrefixHolds
  BY DEF LedgerIInv
<1> DEFINE e == Entry(p)
<1>2. e \in LedgerEntry /\ IsNext(e, entries)
  BY <1>1, EntryIsNext
<1> HIDE DEF e
<1>3. PICK part \in Reached :
        /\ file' = Put(file, part, e)
        /\ disk' = disk \union {file'}
        /\ (pc' = "failed" \/ (part = "line" /\ pc' = "flushed"))
  BY DEF Write, e
<1>4. /\ pc = "running" /\ poisoned = FALSE /\ before' = file /\ ends_on_record_boundary(file)
      /\ checkpoint' = checkpoint /\ entries' = entries /\ poisoned' = poisoned
      /\ acked' = acked /\ signed' = signed /\ heads' = heads /\ faults' = faults /\ edits' = edits
      /\ dropped' = dropped
  BY <1>1 DEF Write, TypeOK
<1>5. /\ file \in Seq(Line) /\ load(file) \in Seq(LedgerEntry) /\ checkpoint \in Checkpoint
  BY <1>1, TypeFacts
<1>6. /\ file' \in Seq(Line)
      /\ part = "line" => (file' # <<>> /\ Last(file').entry = e)
  BY <1>2, <1>3, <1>4, <1>5, PutType
<1>7. load(file') \in Seq(LedgerEntry)
  BY <1>6, LoadReads
<1>8. TypeOK'
  BY <1>1, <1>3, <1>4, <1>5, <1>6 DEF TypeOK
<1>9. ASSUME edits = 0
      PROVE  /\ entries = load(file)
             /\ Shape(file) /\ Shape(file')
             /\ (load(file') = load(file) \/ load(file') = Append(load(file), e))
             /\ part = "line" => load(file') = Append(load(file), e)
             /\ Len(load(file)) <= Len(load(file'))
             /\ \A i \in 1..Len(load(file)) : load(file')[i] = load(file)[i]
  <2>1. entries = load(file) /\ Shape(file)
    BY <1>1, <1>4, <1>9 DEF MemoryInFile, FilesSound, Sound
  <2>2. IsNext(e, load(file))
    BY <1>2, <2>1
  <2>3. /\ Shape(file')
        /\ (load(file') = load(file) \/ load(file') = Append(load(file), e))
        /\ part = "line" => load(file') = Append(load(file), e)
    BY <1>2, <1>3, <1>4, <1>5, <2>1, <2>2, PutKeepsShape
  <2> QED BY <1>2, <1>5, <1>7, <2>1, <2>3, Continues
<1>10. FilesSound'
  <2> SUFFICES ASSUME edits = 0
               PROVE  (\A f \in disk' : Sound(f, acked)) /\ Sound(file', acked) /\ Sound(file, acked)
    BY <1>4 DEF FilesSound
  <2>1. (\A f \in disk : Sound(f, acked)) /\ Sound(file, acked)
    BY <1>1 DEF FilesSound
  <2>2. Len(load(file)) \in Nat /\ Len(load(file')) \in Nat
    BY <1>5, <1>7, LenProperties
  <2>3. \A i \in 1..Len(load(file)) : i \in 1..Len(load(file'))
    BY <1>9, <2>2
  <2>4. Holds(file', acked)
    BY <1>9, <2>1, <2>3 DEF Holds, Sound
  <2>5. Sound(file', acked)
    BY <1>9, <2>4 DEF Sound
  <2> QED BY <1>3, <2>1, <2>5
<1>11. MemoryInFile'
  <2> SUFFICES ASSUME edits = 0
               PROVE  Within(entries, file') /\ verify_chain(entries) /\ entries = load(file)
    BY <1>3, <1>4 DEF MemoryInFile
  <2>1. entries = load(file) /\ verify_chain(entries)
    BY <1>9 DEF Shape
  <2>2. Within(load(file), file')
    BY <1>9 DEF Within
  <2> QED BY <2>1, <2>2
<1>12. FlushedIsNext'
  <2> SUFFICES ASSUME part = "line"
               PROVE  /\ file' # <<>> /\ IsNext(Last(file').entry, entries)
                      /\ edits = 0 => load(file') = Append(entries, Last(file').entry)
    BY <1>3, <1>4 DEF FlushedIsNext
  <2> QED BY <1>2, <1>6, <1>9
<1>13. CheckpointInFile'
  <2> SUFFICES ASSUME edits = 0, ~dropped
               PROVE  /\ verify_against_checkpoint(load(file'), checkpoint)
                      /\ verify_against_checkpoint(load(file), checkpoint)
    BY <1>4 DEF CheckpointInFile
  <2>1. verify_against_checkpoint(load(file), checkpoint)
    BY <1>1 DEF CheckpointInFile
  <2> QED BY <1>5, <1>7, <1>9, <2>1, CheckpointContinues
<1>14. AbsentSignsNothing' /\ SignedPrefixHolds'
  BY <1>1, <1>4 DEF AbsentSignsNothing, SignedPrefixHolds
<1> QED BY <1>8, <1>10, <1>11, <1>12, <1>13, <1>14 DEF LedgerIInv

LEMMA SyncPreserves ==
  ASSUME LedgerIInv, Sync
  PROVE  LedgerIInv'
<1>1. /\ TypeOK /\ FilesSound /\ MemoryInFile /\ FlushedIsNext /\ CheckpointInFile
      /\ AbsentSignsNothing /\ SignedPrefixHolds
  BY DEF LedgerIInv
<1> DEFINE e == Last(file).entry
<1>2. /\ pc = "flushed" /\ disk' = {file} /\ entries' = Append(entries, e)
      /\ acked' = acked \union {e.hash} /\ pc' = "running"
      /\ file' = file /\ checkpoint' = checkpoint /\ poisoned' = poisoned /\ before' = before
      /\ signed' = signed /\ heads' = heads /\ faults' = faults /\ edits' = edits /\ dropped' = dropped
  BY DEF Sync
<1>3. file # <<>> /\ IsNext(e, entries) /\ (edits = 0 => load(file) = Append(entries, e))
  BY <1>1, <1>2 DEF FlushedIsNext
<1>4. /\ file \in Seq(Line) /\ entries \in Seq(LedgerEntry) /\ load(file) \in Seq(LedgerEntry)
      /\ signed \in Seq(Stored) /\ head_hash(entries) \in Seq(Stored)
  BY <1>1, TypeFacts
<1>5. e \in LedgerEntry
  <2>1. Len(file) \in 1..Len(file)
    BY <1>3, <1>4, EmptySeq
  <2>2. Last(file) \in Line
    BY <1>4, <2>1, ElementOfSeq DEF Last
  <2> QED BY <2>2, LineFields
<1> HIDE DEF e
<1>6. e.hash \in Seq(Stored) /\ e.payload \in Stored
  BY <1>5, EntryFields
<1>7. /\ Append(entries, e) \in Seq(LedgerEntry) /\ Len(Append(entries, e)) = Len(entries) + 1
      /\ Append(entries, e)[Len(entries) + 1] = e /\ Len(entries) \in Nat
  BY <1>4, <1>5, LenProperties
<1>8. TypeOK'
  BY <1>1, <1>2, <1>4, <1>6, <1>7 DEF TypeOK
<1>9. FilesSound'
  <2> SUFFICES ASSUME edits = 0 PROVE Sound(file, acked \union {e.hash})
    BY <1>2 DEF FilesSound, Appending
  <2>1. Sound(file, acked)
    BY <1>1 DEF FilesSound
  <2>2. Len(entries) + 1 \in 1..Len(load(file)) /\ load(file)[Len(entries) + 1].hash = e.hash
    BY <1>3, <1>7
  <2> QED BY <2>1, <2>2 DEF Sound, Holds
<1>10. MemoryInFile'
  <2> SUFFICES ASSUME edits = 0
               PROVE  /\ Within(load(file), file) /\ verify_chain(load(file))
    BY <1>2, <1>3 DEF MemoryInFile, Appending
  <2> QED BY <1>1, <1>4, WithinItself DEF FilesSound, Sound, Shape
<1>11. FlushedIsNext' /\ CheckpointInFile' /\ AbsentSignsNothing'
  BY <1>1, <1>2 DEF FlushedIsNext, CheckpointInFile, AbsentSignsNothing, Appending
<1>12. head_hash(Append(entries, e)) = Append(head_hash(entries), e.payload)
  <2>1. Append(entries, e) # <<>>
    BY <1>7, EmptySeq
  <2>2. head_hash(Append(entries, e)) = e.hash
    BY <1>7, <2>1, HeadType
  <2> QED BY <1>3, <2>2 DEF IsNext, sha256_hex
<1>13. SignedPrefixHolds'
  <2>1. IsPrefix(signed, head_hash(entries))
    BY <1>1, <1>2 DEF SignedPrefixHolds
  <2>2. IsPrefix(signed, Append(head_hash(entries), e.payload))
    BY <1>4, <1>6, <2>1, HashExtends
  <2> QED BY <1>2, <1>12, <2>2 DEF SignedPrefixHolds
<1> QED BY <1>8, <1>9, <1>10, <1>11, <1>13 DEF LedgerIInv

LEMMA SyncFailsPreserves ==
  ASSUME LedgerIInv, SyncFails
  PROVE  LedgerIInv'
<1>1. /\ TypeOK /\ FilesSound /\ MemoryInFile /\ CheckpointInFile
      /\ AbsentSignsNothing /\ SignedPrefixHolds
  BY DEF LedgerIInv
<1>2. /\ pc = "flushed" /\ pc' = "failed" /\ (disk' = disk \/ disk' = {file})
      /\ file' = file /\ checkpoint' = checkpoint /\ entries' = entries
      /\ poisoned' = poisoned /\ before' = before /\ acked' = acked /\ signed' = signed
      /\ heads' = heads /\ faults' = faults /\ edits' = edits /\ dropped' = dropped
  BY DEF SyncFails
<1>3. TypeOK'
  BY <1>1, <1>2 DEF TypeOK
<1>4. FilesSound'
  BY <1>1, <1>2 DEF FilesSound, Appending
<1>5. MemoryInFile' /\ FlushedIsNext'
  BY <1>1, <1>2 DEF MemoryInFile, FlushedIsNext, Appending
<1>6. CheckpointInFile' /\ AbsentSignsNothing' /\ SignedPrefixHolds'
  BY <1>1, <1>2 DEF CheckpointInFile, AbsentSignsNothing, SignedPrefixHolds, Appending
<1> QED BY <1>3, <1>4, <1>5, <1>6 DEF LedgerIInv

(* restore_to_size() and its failure: the file is one of two, and the      *)
(* ledger appends again only to the one that is its memory.                *)
LEMMA RestorePreserves ==
  ASSUME LedgerIInv, RestoreToSize \/ RestoreFails
  PROVE  LedgerIInv'
<1>1. /\ TypeOK /\ FilesSound /\ MemoryInFile /\ CheckpointInFile
      /\ AbsentSignsNothing /\ SignedPrefixHolds
  BY DEF LedgerIInv
<1>2. /\ pc = "failed" /\ pc' = "running" /\ (file' = file \/ file' = before)
      /\ checkpoint' = checkpoint /\ entries' = entries /\ before' = before
      /\ acked' = acked /\ signed' = signed
      /\ heads' = heads /\ faults' = faults /\ edits' = edits /\ dropped' = dropped
  BY DEF RestoreToSize, RestoreFails
<1>3. \A f \in disk' : f \in disk \/ f = file \/ f = before
  BY DEF RestoreToSize, RestoreFails
<1>4. poisoned' \in BOOLEAN /\ (~poisoned' => file' = before)
  BY <1>1 DEF RestoreToSize, RestoreFails, TypeOK
<1>5. before \in Seq(Line)
  BY <1>1, TypeFacts
<1>6. TypeOK'
  BY <1>1, <1>2, <1>3, <1>4 DEF TypeOK
<1>7. FilesSound'
  BY <1>1, <1>2, <1>3 DEF FilesSound, Appending
<1>8. MemoryInFile'
  <2> SUFFICES ASSUME edits = 0
               PROVE  /\ Within(entries, file') /\ verify_chain(entries)
                      /\ ~poisoned' => entries = load(file')
    BY <1>2 DEF MemoryInFile, Appending
  <2>1. Within(entries, file) /\ verify_chain(entries) /\ entries = load(before)
    BY <1>1, <1>2 DEF MemoryInFile, Appending
  <2>2. Within(load(before), before)
    BY <1>5, WithinItself
  <2> QED BY <1>2, <1>4, <2>1, <2>2
<1>9. CheckpointInFile'
  <2> SUFFICES ASSUME edits = 0, ~dropped
               PROVE  verify_against_checkpoint(load(file'), checkpoint)
    BY <1>2 DEF CheckpointInFile, Appending
  <2> QED BY <1>1, <1>2 DEF CheckpointInFile, Appending
<1>10. FlushedIsNext' /\ AbsentSignsNothing' /\ SignedPrefixHolds'
  BY <1>1, <1>2 DEF FlushedIsNext, AbsentSignsNothing, SignedPrefixHolds
<1> QED BY <1>6, <1>7, <1>8, <1>9, <1>10 DEF LedgerIInv

LEMMA CheckpointPreserves ==
  ASSUME LedgerIInv, WriteCheckpoint
  PROVE  LedgerIInv'
<1>1. /\ TypeOK /\ FilesSound /\ MemoryInFile /\ CheckpointInFile
      /\ AbsentSignsNothing /\ SignedPrefixHolds
  BY DEF LedgerIInv
<1>2. /\ pc = "running" /\ pc' = "running" /\ entries # <<>>
      /\ checkpoint' = sign_head(entries, Own) /\ signed' = head_hash(entries)
      /\ heads' = heads \union {head_hash(entries)}
      /\ file' = file /\ disk' = disk /\ entries' = entries
      /\ poisoned' = poisoned /\ before' = before /\ acked' = acked
      /\ faults' = faults /\ edits' = edits /\ dropped' = dropped
  BY DEF WriteCheckpoint
<1>3. /\ entries \in Seq(LedgerEntry) /\ load(file) \in Seq(LedgerEntry)
      /\ head_hash(entries) \in Seq(Stored) /\ Len(entries) \in Nat
  BY <1>1, TypeFacts, LenProperties
<1>4. checkpoint' = [form |-> "bundle", count |-> Len(entries), head |-> head_hash(entries),
                     key |-> Own, by |-> Own]
  BY <1>2 DEF sign_head
<1>5. checkpoint' \in Checkpoint
  BY <1>3, <1>4 DEF Checkpoint
<1>6. TypeOK'
  BY <1>1, <1>2, <1>3, <1>5 DEF TypeOK
<1>7. FilesSound' /\ MemoryInFile' /\ FlushedIsNext'
  BY <1>1, <1>2 DEF FilesSound, MemoryInFile, FlushedIsNext, Appending
<1>8. CheckpointInFile'
  <2> SUFFICES ASSUME edits = 0
               PROVE  verify_against_checkpoint(load(file), sign_head(entries, Own))
    BY <1>2 DEF CheckpointInFile, Appending
  <2>1. Within(entries, file)
    BY <1>1, <1>2 DEF MemoryInFile
  <2> QED BY <1>2, <1>3, <2>1, SignedIsReached DEF Within
<1>9. AbsentSignsNothing'
  BY <1>2, <1>4 DEF AbsentSignsNothing
<1>10. SignedPrefixHolds'
  BY <1>2, <1>3, PrefixReflexive DEF SignedPrefixHolds
<1> QED BY <1>6, <1>7, <1>8, <1>9, <1>10 DEF LedgerIInv

LEMMA DeathPreserves ==
  ASSUME LedgerIInv, Crash \/ PowerLoss
  PROVE  LedgerIInv'
<1>1. TypeOK /\ FilesSound /\ CheckpointInFile /\ AbsentSignsNothing
  BY DEF LedgerIInv
<1>2. entries' = <<>> /\ poisoned' = FALSE /\ before' = <<>>
  BY DEF Crash, PowerLoss, Die
<1>3. /\ pc' = "down" /\ faults' = faults + 1
      /\ checkpoint' = checkpoint /\ acked' = acked /\ signed' = signed
      /\ heads' = heads /\ edits' = edits
  BY DEF Crash, PowerLoss, Die
<1>4. /\ file' = file \/ file' \in disk
      /\ \A f \in disk' : f \in disk \/ f = file'
  BY DEF Crash, PowerLoss
<1>5. dropped' \in BOOLEAN /\ (~dropped' => (~dropped /\ file' = file))
  BY <1>1 DEF Crash, PowerLoss, TypeOK
<1>6. <<>> \in Seq(Line) /\ <<>> \in Seq(LedgerEntry)
  BY EmptySeq
<1>7. TypeOK'
  <2>1. before' \in Seq(Line) /\ entries' \in Seq(LedgerEntry)
    BY <1>6, <1>2
  <2>2. file' \in Seq(Line) /\ \A f \in disk' : f \in Seq(Line)
    BY <1>1, <1>4 DEF TypeOK
  <2>3. /\ pc' = "down" /\ faults' \in Nat /\ edits' \in Nat
        /\ checkpoint' \in Checkpoint /\ signed' \in Seq(Stored)
        /\ \A h \in acked' \union heads' : h \in Seq(Stored)
    BY <1>1, <1>3 DEF TypeOK
  <2> QED BY <1>5, <1>2, <2>1, <2>2, <2>3 DEF TypeOK
<1>8. FilesSound'
  BY <1>1, <1>3, <1>4 DEF FilesSound, Appending
<1>9. CheckpointInFile'
  BY <1>1, <1>3, <1>5 DEF CheckpointInFile, Appending
<1>10. MemoryInFile' /\ FlushedIsNext' /\ AbsentSignsNothing' /\ SignedPrefixHolds'
  BY <1>1, <1>3 DEF MemoryInFile, FlushedIsNext, AbsentSignsNothing, SignedPrefixHolds
<1> QED BY <1>7, <1>8, <1>9, <1>10 DEF LedgerIInv

LEMMA EditPreserves ==
  ASSUME LedgerIInv, Edit
  PROVE  LedgerIInv'
<1>1. TypeOK /\ AbsentSignsNothing /\ SignedPrefixHolds
  BY DEF LedgerIInv
<1>2. /\ pc \in {"down", "running"} /\ pc' = pc /\ edits' = edits + 1
      /\ file' \in Edited /\ disk' = {file'}
      /\ entries' = entries /\ poisoned' = poisoned /\ before' = before
      /\ acked' = acked /\ signed' = signed /\ heads' = heads /\ faults' = faults /\ dropped' = dropped
  BY DEF Edit
<1>3. file' \in Seq(Line)
  BY <1>1, <1>2, EditedType
<1>4. edits' \in Nat /\ edits' # 0
  BY <1>1, <1>2 DEF TypeOK
<1>5. checkpoint' \in Checkpoint /\ AbsentSignsNothing'
  <2>1. checkpoint' \in EditedCheckpoint
    BY DEF Edit
  <2> QED BY <1>1, <2>1, EditedCheckpointIs DEF AbsentSignsNothing
<1>6. TypeOK'
  BY <1>1, <1>2, <1>3, <1>4, <1>5 DEF TypeOK
<1>7. FilesSound' /\ MemoryInFile' /\ FlushedIsNext' /\ CheckpointInFile' /\ SignedPrefixHolds'
  BY <1>1, <1>2, <1>4
  DEF FilesSound, MemoryInFile, FlushedIsNext, CheckpointInFile, SignedPrefixHolds
<1> QED BY <1>5, <1>6, <1>7 DEF LedgerIInv

LEMMA LedgerPreserved == LedgerIInv /\ [Next]_vars => LedgerIInv'
<1> SUFFICES ASSUME LedgerIInv, [Next]_vars PROVE LedgerIInv'
  OBVIOUS
<1>1. CASE UNCHANGED vars
  <2>1. /\ file' = file /\ disk' = disk /\ checkpoint' = checkpoint /\ pc' = pc
        /\ entries' = entries /\ poisoned' = poisoned /\ before' = before /\ acked' = acked
        /\ signed' = signed /\ heads' = heads /\ faults' = faults /\ edits' = edits /\ dropped' = dropped
    BY <1>1 DEF vars
  <2>2. TypeOK' /\ FilesSound' /\ MemoryInFile'
    BY <2>1 DEF LedgerIInv, TypeOK, FilesSound, MemoryInFile, Appending
  <2>3. FlushedIsNext' /\ CheckpointInFile' /\ AbsentSignsNothing' /\ SignedPrefixHolds'
    BY <2>1
    DEF LedgerIInv, FlushedIsNext, CheckpointInFile, AbsentSignsNothing, SignedPrefixHolds, Appending
  <2> QED BY <2>2, <2>3 DEF LedgerIInv
<1> QED
  BY <1>1, OpenPreserves, SealPreserves, WritePreserves, SyncPreserves, SyncFailsPreserves,
     RestorePreserves, CheckpointPreserves, DeathPreserves, EditPreserves DEF Next

-----------------------------------------------------------------------------
LEMMA SoundIsLoadable ==
  ASSUME NEW f \in Seq(Line), NEW hashes, Sound(f, hashes)
  PROVE  /\ ~LoadFails(f) /\ verify_chain(load(f))
         /\ hashes \subseteq {load(f)[i].hash : i \in DOMAIN load(f)}
<1>1. ~LoadFails(f) /\ verify_chain(load(f))
  BY DEF Sound, Shape, LoadFails
<1>2. DOMAIN load(f) = 1..Len(load(f))
  BY LoadReads, LenProperties
<1>3. \A h \in hashes : \E i \in DOMAIN load(f) : load(f)[i].hash = h
  BY <1>2 DEF Sound, Holds
<1> QED BY <1>1, <1>3

(* No order of failed writes, failed syncs, failed rollbacks, deaths and   *)
(* power losses leaves a file that ledger.cpp's load() or verify_chain()   *)
(* refuses, that is behind the checkpoint, or that misses an entry         *)
(* append() acknowledged; and a ledger that may append has the file in     *)
(* memory.                                                                 *)
THEOREM LedgerIsSound == Spec => []LedgerInv
<1>1. LedgerIInv => LedgerInv
  <2> SUFFICES ASSUME LedgerIInv PROVE LedgerInv
    OBVIOUS
  <2>1. TypeOK /\ FilesSound /\ MemoryInFile /\ CheckpointInFile
    BY DEF LedgerIInv
  <2>2. edits = 0 => \A f \in disk \union {file} : f \in Seq(Line) /\ Sound(f, acked)
    BY <2>1 DEF FilesSound, TypeOK
  <2>3. ChainStaysLoadable /\ AckedEntriesSurvive
    BY <2>2, SoundIsLoadable DEF ChainStaysLoadable, AckedEntriesSurvive
  <2>4. CheckpointStaysReached /\ MemoryMatchesFile
    BY <2>1 DEF CheckpointInFile, CheckpointStaysReached, MemoryInFile, MemoryMatchesFile
  <2> QED BY <2>1, <2>3, <2>4 DEF LedgerInv
<1> QED BY <1>1, LedgerInit, LedgerPreserved, PTL DEF Spec

(* Whatever is done to the file and to the checkpoint from outside, a      *)
(* ledger that passed boot's verify_against_checkpoint() holds everything  *)
(* the last checkpoint written with the pinned key signed; where that one  *)
(* was deleted, or an older one of ours put back, which the code cannot    *)
(* tell, it holds what the one in place signed.                            *)
THEOREM SignedPrefixIsKept == Spec => []SignedPrefixHolds
<1>1. LedgerIInv => SignedPrefixHolds
  BY DEF LedgerIInv
<1> QED BY <1>1, LedgerInit, LedgerPreserved, PTL DEF Spec
=============================================================================
