------------------------------ MODULE FileLock ------------------------------
(***************************************************************************)
(* platform/file_lock.cpp: the advisory lock that sibling account          *)
(* processes share.  A process runs one system call per step, so that      *)
(* siblings interleave between any two of them.  The file at the lock path *)
(* is `lock'; `claim[p]' is the private ".stale-" name p renamed it to.    *)
(* A file is known by its nonce; `whole' says its payload parses and `old' *)
(* that its mtime lies further back than the staleness window.  Nonces are *)
(* only compared, so one that no file and no process uses may be reused.   *)
(***************************************************************************)
EXTENDS Integers, FiniteSets

CONSTANTS Proc,      \* sibling processes
          Nonce,     \* ownership tokens
          NoFile,    \* nothing at a path
          NoNonce    \* a process outside an acquisition

ASSUME LockConstants == /\ IsFiniteSet(Proc) /\ IsFiniteSet(Nonce)
                        /\ NoNonce \notin Nonce
                        /\ NoFile \notin [nonce : Nonce, whole : BOOLEAN, old : BOOLEAN]
                        /\ Cardinality(Nonce) > 2 * Cardinality(Proc) + 1

VARIABLES at,        \* p -> the call p makes next
          lock, claim, nonce,
          sound      \* history: no owner outlived the staleness window, and no
                     \* takeover claimed a lock that was not stale

lockVars == <<at, lock, claim, nonce, sound>>

LockFile == [nonce : Nonce, whole : BOOLEAN, old : BOOLEAN]

\* Steps of try_acquire_file_lock and takeover_stale_lock, in program order.
AcquireAt == {"acquire", "write", "age", "payload", "rename", "create", "rewrite",
              "judge", "undo", "unlink", "exists", "restore", "verify"}

Used == {f.nonce : f \in ({lock} \cup {claim[p] : p \in Proc}) \ {NoFile}}
          \cup {nonce[p] : p \in Proc}

FreshNonce == CHOOSE n \in Nonce : n \notin Used

Goto(p, a) == at' = [at EXCEPT ![p] = a]

\* Processes that hold the lock: from the read-back to the release.
HolderAt == {"won", "fetch", "touch", "own", "publish", "release", "unlock"}
Holders == {p \in Proc : at[p] \in HolderAt}
LiveOwner(f) == \E p \in Proc : f.nonce = nonce[p]

Lost(p) == /\ Goto(p, "lost")
           /\ nonce' = [nonce EXCEPT ![p] = NoNonce]

NewFile(n) == [nonce |-> n, whole |-> FALSE, old |-> FALSE]

-----------------------------------------------------------------------------
(* try_acquire_file_lock *)

\* create_exclusive: the open with O_EXCL.
CreateExclusive(p) ==
    /\ at[p] = "acquire"
    /\ \/ /\ nonce' = [nonce EXCEPT ![p] = FreshNonce]
          /\ IF lock = NoFile
             THEN lock' = NewFile(FreshNonce) /\ Goto(p, "write")
             ELSE Goto(p, "age") /\ UNCHANGED lock
       \/ Lost(p) /\ UNCHANGED lock
    /\ UNCHANGED <<claim, sound>>

\* Bytes go to the file that was opened, wherever a sibling has moved it.
Complete(f, n) == IF f # NoFile /\ f.nonce = n THEN [f EXCEPT !.whole = TRUE] ELSE f

\* create_exclusive: write and fsync; a failure removes the path by name.
WritePayload(p) ==
    /\ at[p] \in {"write", "rewrite"}
    /\ \/ /\ lock' = Complete(lock, nonce[p])
          /\ claim' = [q \in Proc |-> Complete(claim[q], nonce[p])]
          /\ Goto(p, IF at[p] = "write" THEN "verify" ELSE "judge")
          /\ UNCHANGED nonce
       \/ /\ lock' = NoFile
          /\ claim' = [claim EXCEPT ![p] = NoFile]
          /\ Lost(p)
    /\ UNCHANGED sound

\* path_is_stale of the lock file; an unreadable age fails closed.
CheckAge(p) ==
    /\ at[p] = "age"
    /\ IF lock # NoFile /\ lock.old
       THEN Goto(p, "payload") /\ UNCHANGED nonce
       ELSE Lost(p)
    /\ UNCHANGED <<lock, claim, sound>>

\* A stale file that does not parse is never taken over.
CheckPayload(p) ==
    /\ at[p] = "payload"
    /\ IF lock # NoFile /\ lock.whole
       THEN Goto(p, "rename") /\ UNCHANGED nonce
       ELSE Lost(p)
    /\ UNCHANGED <<lock, claim, sound>>

\* Read-back: the lock is ours only if the file still carries our nonce.
Verify(p) ==
    /\ at[p] = "verify"
    /\ IF lock # NoFile /\ lock.whole /\ lock.nonce = nonce[p]
       THEN Goto(p, "won") /\ UNCHANGED nonce
       ELSE Lost(p)
    /\ UNCHANGED <<lock, claim, sound>>

-----------------------------------------------------------------------------
(* takeover_stale_lock.  A claim that is kept after the call is debris     *)
(* nobody reads; it is forgotten here.                                     *)

\* (a) the rename that arbitrates between contenders.
ClaimStale(p) ==
    /\ at[p] = "rename"
    /\ IF lock # NoFile
       THEN /\ claim' = [claim EXCEPT ![p] = lock]
            /\ lock' = NoFile
            /\ Goto(p, "create")
            /\ sound' = (sound /\ lock.old)
            /\ UNCHANGED nonce
       ELSE Lost(p) /\ UNCHANGED <<lock, claim, sound>>

\* Mutant of TakeName: the name is taken without O_EXCL.
TakeNameOverwrites(p) ==
    /\ at[p] = "create"
    /\ lock' = NewFile(nonce[p])
    /\ Goto(p, "rewrite")
    /\ UNCHANGED <<claim, nonce, sound>>

\* (b) take the name; "exists" drops the claim, a failure leaves it behind.
TakeName(p) ==
    /\ at[p] = "create"
    /\ \/ /\ lock = NoFile
          /\ lock' = NewFile(nonce[p])
          /\ Goto(p, "rewrite")
          /\ UNCHANGED <<claim, nonce>>
       \/ /\ claim' = [claim EXCEPT ![p] = NoFile]
          /\ Lost(p)
          /\ UNCHANGED lock
    /\ UNCHANGED sound

\* (c) judge the claimed file; a vanished one is not provably stale.
Judge(p) ==
    /\ at[p] = "judge"
    /\ IF claim[p] # NoFile /\ claim[p].old
       THEN /\ claim' = [claim EXCEPT ![p] = NoFile]
            /\ Goto(p, "verify")
       ELSE Goto(p, "undo") /\ UNCHANGED claim
    /\ UNCHANGED <<lock, nonce, sound>>

\* remove_if_ours, the read: ours -> unlink, gone -> exists, a stranger's ->
\* the displaced lock is dropped, unreadable -> restore.
Undo(p) ==
    /\ at[p] = "undo"
    /\ \/ lock = NoFile /\ Goto(p, "exists") /\ UNCHANGED <<claim, nonce>>
       \/ /\ lock # NoFile /\ lock.whole /\ lock.nonce = nonce[p]
          /\ Goto(p, "unlink")
          /\ UNCHANGED <<claim, nonce>>
       \/ lock # NoFile /\ ~lock.whole /\ Goto(p, "restore") /\ UNCHANGED <<claim, nonce>>
       \/ /\ lock # NoFile /\ lock.whole /\ lock.nonce # nonce[p]
          /\ claim' = [claim EXCEPT ![p] = NoFile]
          /\ Lost(p)
    /\ UNCHANGED <<lock, sound>>

\* remove_if_ours, the removal: by name, or failing kUndoRemoveAttempts times.
UndoUnlink(p) ==
    /\ at[p] = "unlink"
    /\ \/ lock' = NoFile /\ Goto(p, "exists")
       \/ UNCHANGED lock /\ Goto(p, "restore")
    /\ UNCHANGED <<claim, nonce, sound>>

\* Something at the freed name was put there by a third party.
UndoExists(p) ==
    /\ at[p] = "exists"
    /\ IF lock = NoFile
       THEN Goto(p, "restore") /\ UNCHANGED <<claim, nonce>>
       ELSE claim' = [claim EXCEPT ![p] = NoFile] /\ Lost(p)
    /\ UNCHANGED <<lock, sound>>

\* The displaced lock is renamed back over whatever is at the path.
Restore(p) ==
    /\ at[p] = "restore"
    /\ \/ claim[p] # NoFile /\ lock' = claim[p]
       \/ UNCHANGED lock
    /\ claim' = [claim EXCEPT ![p] = NoFile]
    /\ Lost(p)
    /\ UNCHANGED sound

-----------------------------------------------------------------------------
(* FileLock *)

still_ours(p) == lock # NoFile /\ lock.whole /\ lock.nonce = nonce[p]

\* touch: a stamp on a file that is still ours.  The instant between its
\* read and its stamp is left out: it could only refresh a sibling's file.
Touched(p) == IF still_ours(p) THEN [lock EXCEPT !.old = FALSE] ELSE lock

\* release: remove_if_ours, read ...
Release(p) ==
    /\ at[p] = "release"
    /\ IF still_ours(p)
       THEN Goto(p, "unlock") /\ UNCHANGED nonce
       ELSE Goto(p, "out") /\ nonce' = [nonce EXCEPT ![p] = NoNonce]
    /\ UNCHANGED <<lock, claim, sound>>

\* ... and removal by name, best effort.
Unlock(p) ==
    /\ at[p] = "unlock"
    /\ lock' \in {NoFile, lock}
    /\ Goto(p, "out")
    /\ nonce' = [nonce EXCEPT ![p] = NoNonce]
    /\ UNCHANGED <<claim, sound>>

Acquire(p) ==
    \/ CreateExclusive(p) \/ WritePayload(p) \/ CheckAge(p) \/ CheckPayload(p) \/ Verify(p)
    \/ ClaimStale(p) \/ TakeName(p) \/ Judge(p)
    \/ Undo(p) \/ UndoUnlink(p) \/ UndoExists(p) \/ Restore(p)

-----------------------------------------------------------------------------
(* The environment: time, and the death of a process at any step.          *)

Age == /\ lock # NoFile /\ ~lock.old
       /\ lock' = [lock EXCEPT !.old = TRUE]
       /\ sound' = (sound /\ ~LiveOwner(lock))
       /\ UNCHANGED <<at, claim, nonce>>

AgeClaim(p) == /\ claim[p] # NoFile /\ ~claim[p].old
               /\ claim' = [claim EXCEPT ![p].old = TRUE]
               /\ sound' = (sound /\ ~LiveOwner(claim[p]))
               /\ UNCHANGED <<at, lock, nonce>>

Die(p) == /\ at[p] # "out"
          /\ Goto(p, "out")
          /\ claim' = [claim EXCEPT ![p] = NoFile]
          /\ nonce' = [nonce EXCEPT ![p] = NoNonce]
          /\ UNCHANGED <<lock, sound>>

LockTypeOK == /\ at \in [Proc -> AcquireAt \cup HolderAt \cup {"out", "lost"}]
              /\ lock \in LockFile \cup {NoFile}
              /\ claim \in [Proc -> LockFile \cup {NoFile}]
              /\ nonce \in [Proc -> Nonce \cup {NoNonce}]
              /\ sound \in BOOLEAN

\* The path is free, or holds the lock of a process that died or works elsewhere.
LockInit == /\ at = [p \in Proc |-> "out"]
            /\ lock \in {NoFile} \cup [nonce : {CHOOSE n \in Nonce : TRUE}, whole : BOOLEAN,
                                        old : BOOLEAN]
            /\ claim = [p \in Proc |-> NoFile]
            /\ nonce = [p \in Proc |-> NoNonce]
            /\ sound = TRUE
=============================================================================
