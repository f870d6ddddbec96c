--------------------------- MODULE SharedRefdata ----------------------------
(***************************************************************************)
(* accounts/shared_refdata_cache.cpp on top of FileLock: sibling processes *)
(* want today's reference data; one downloads it, the others read what it  *)
(* wrote.  `artifact' is the file at the artifact path: absent, corrupt or *)
(* valid.  A payload is "valid" or "corrupt" as the injected validator     *)
(* sees it.  Keys and directories are taken to pass validate_refdata_key   *)
(* and require_outside_account_tree; what fails there changes nothing.     *)
(***************************************************************************)
EXTENDS FileLock

CONSTANT MaxLockAttempts   \* max_lock_attempts, at least one

ASSUME AttemptsAssumption == MaxLockAttempts \in Nat \ {0}

VARIABLES artifact, attempt, payload

refdataVars == <<lockVars, artifact, attempt, payload>>
cacheVars == <<artifact, attempt, payload>>

Payload == {"none", "corrupt", "valid"}

\* read_valid_artifact: missing, empty and corrupt are all a miss.
read_valid_artifact == artifact = "valid"

validate(x) == x = "valid"

-----------------------------------------------------------------------------
\* get_or_fetch 1: the fast path serves a valid artifact and changes nothing;
\* a miss goes for the lock.
GetOrFetch(p) ==
    /\ at[p] = "out"
    /\ ~read_valid_artifact
    /\ Goto(p, "acquire")
    /\ attempt' = [attempt EXCEPT ![p] = 1]
    /\ UNCHANGED <<lock, claim, nonce, sound, artifact, payload>>

\* 5: the loser re-reads, waits and tries again, a bounded number of times.
LoserRetries(p) ==
    /\ at[p] = "lost"
    /\ IF ~read_valid_artifact /\ attempt[p] < MaxLockAttempts
       THEN Goto(p, "acquire") /\ attempt' = [attempt EXCEPT ![p] = @ + 1]
       ELSE Goto(p, "out") /\ attempt' = [attempt EXCEPT ![p] = 0]
    /\ UNCHANGED <<lock, claim, nonce, sound, artifact, payload>>

\* Mutant of DoubleCheck: the winner downloads without looking again.
DoubleCheckSkipped(p) ==
    /\ at[p] = "won"
    /\ Goto(p, "fetch")
    /\ attempt' = [attempt EXCEPT ![p] = 0]
    /\ UNCHANGED <<lock, claim, nonce, sound, artifact, payload>>

\* 3: the double check under the lock.
DoubleCheck(p) ==
    /\ at[p] = "won"
    /\ Goto(p, IF read_valid_artifact THEN "release" ELSE "fetch")
    /\ attempt' = [attempt EXCEPT ![p] = 0]
    /\ UNCHANGED <<lock, claim, nonce, sound, artifact, payload>>

\* 4: the download fails or delivers any payload.
Fetch(p) ==
    /\ at[p] = "fetch"
    /\ payload' \in {[payload EXCEPT ![p] = x] : x \in Payload}
    /\ Goto(p, "touch")
    /\ UNCHANGED <<lock, claim, nonce, sound, artifact, attempt>>

\* The lock is refreshed; a failed or invalid payload is never published.
AfterFetch(p) ==
    /\ at[p] = "touch"
    /\ lock' = Touched(p)
    /\ IF validate(payload[p])
       THEN Goto(p, "own") /\ UNCHANGED payload
       ELSE Goto(p, "release") /\ payload' = [payload EXCEPT ![p] = "none"]
    /\ UNCHANGED <<claim, nonce, sound, artifact, attempt>>

LastCheck(p) ==
    /\ at[p] = "own"
    /\ Goto(p, IF still_ours(p) THEN "publish" ELSE "release")
    /\ UNCHANGED <<lock, claim, nonce, sound, cacheVars>>

\* write_atomically: the artifact is replaced as a whole by the rename of a
\* private temporary file, or the bounded retries end without it.
Publish(p) ==
    /\ at[p] = "publish"
    /\ artifact' \in {payload[p], artifact}
    /\ payload' = [payload EXCEPT ![p] = "none"]
    /\ Goto(p, "release")
    /\ UNCHANGED <<lock, claim, nonce, sound, attempt>>

\* sweep_debris, run by a cache that is constructed anywhere: every ".stale-"
\* file that is old goes, the claim of a takeover under way too.
SweepDebris(p) ==
    /\ claim[p] # NoFile /\ claim[p].old
    /\ claim' = [claim EXCEPT ![p] = NoFile]
    /\ UNCHANGED <<at, lock, nonce, sound, cacheVars>>

\* What a process carries through the call.
Forget(p) == /\ attempt' = [attempt EXCEPT ![p] = 0]
             /\ payload' = [payload EXCEPT ![p] = "none"]

LeaveCall(p) == (Release(p) \/ Unlock(p)) /\ UNCHANGED cacheVars

ProcessStep(p) ==
    \/ Acquire(p) /\ UNCHANGED cacheVars
    \/ LeaveCall(p)
    \/ LoserRetries(p) \/ DoubleCheck(p) \/ Fetch(p) \/ AfterFetch(p) \/ LastCheck(p) \/ Publish(p)

ProcessDies(p) == Die(p) /\ Forget(p) /\ UNCHANGED artifact

TimePasses == (Age \/ \E p \in Proc : AgeClaim(p)) /\ UNCHANGED cacheVars

RefdataInit ==
    /\ LockInit
    /\ artifact = "none"
    /\ attempt = [p \in Proc |-> 0]
    /\ payload = [p \in Proc |-> "none"]

RefdataNext ==
    \/ \E p \in Proc : GetOrFetch(p) \/ ProcessStep(p) \/ SweepDebris(p) \/ ProcessDies(p)
    \/ TimePasses

RefdataSpec == RefdataInit /\ [][RefdataNext]_refdataVars

-----------------------------------------------------------------------------
RefdataTypeOK ==
    /\ LockTypeOK
    /\ artifact \in Payload
    /\ attempt \in [Proc -> 0..MaxLockAttempts]
    /\ payload \in [Proc -> Payload]

\* file_lock.hpp guarantees 1 and 3: while no owner outlives the staleness window
\* and no takeover claims a fresh lock (two contenders that saw one corpse), two
\* processes never hold the lock together, whatever fails, dies or is swept.
NoTwoWinners == sound => Cardinality(Holders) <= 1

\* shared_refdata_cache.hpp: siblings that start together cost one download.
\* Under the same proviso no process downloads what has been published already.
NoFetchAfterPublish ==
    sound => \A p \in Proc : at[p] = "fetch" => artifact # "valid"

\* What SharedRefdataCache promises its siblings on top of the lock, in one
\* invariant: one winner at a time and one download.
CacheInv == RefdataTypeOK /\ NoTwoWinners /\ NoFetchAfterPublish
=============================================================================
