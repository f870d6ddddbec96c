----------------------------- MODULE TokenStore -----------------------------
(***************************************************************************)
(* The operator's login (KiteSessionEstablisher::establish,                *)
(* KotakSessionEstablisher::establish) and the token file it replaces      *)
(* (secrets/token_store.cpp).  Login l obtains token l; token 0 is the     *)
(* one stored before.  The file system keeps inodes with the content every *)
(* process sees (data) and the content a power loss leaves (disk), the     *)
(* entry of the token file (target), of its temporary sibling (tmp) and    *)
(* the entry of the token file a power loss leaves (dtarget).  A login     *)
(* process saves once, so its temporary name is always the first of the    *)
(* per-process counter.                                                    *)
(***************************************************************************)
EXTENDS RestErrors, FiniteSets

CONSTANTS LastLogin,   \* logins are numbered 1 .. LastLogin in order of start
          AtOnce       \* login processes that may run at the same time

ASSUME LoginAssumption == LastLogin \in Nat /\ AtOnce \in Nat \ {0}

Logins == 1 .. LastLogin
Inodes == 0 .. LastLogin
NoFile == -1
Empty  == -1
Torn   == -2
Content == {Empty, Torn} \cup Inodes

VARIABLES data, disk, tmp, target, dtarget,  \* the file system
          login,       \* per login: where it is, what its legs returned, its result
          fd,          \* the inode its stream is open on
          accepted     \* external: the tokens the broker takes

fsVars == <<data, disk, tmp, target, dtarget>>
tokenVars == <<fsVars, login, fd, accepted>>

Leg == [sid : BOOLEAN, hs : BOOLEAN]
NoLeg == [sid |-> FALSE, hs |-> FALSE]
LoginState == [at : {"idle", "kite", "oauth", "view", "mpin", "save", "write",
                     "sync", "restrict", "rename", "dirsync", "done"},
               kotak : BOOLEAN, view : Leg, final : Leg,
               result : {"none", "Healthy", "Failed", "Error", "died"}]

TokenTypeOK ==
    /\ data \in [Inodes -> Content] /\ disk \in [Inodes -> Content]
    /\ {tmp, target, dtarget} \subseteq Inodes \cup {NoFile}
    /\ login \in [Logins -> LoginState]
    /\ fd \in [Logins -> Inodes \cup {NoFile}]
    /\ accepted \subseteq Inodes

TokenInit ==
    /\ data = [i \in Inodes |-> IF i = 0 THEN 0 ELSE Empty]
    /\ disk = data
    /\ tmp = NoFile /\ target = 0 /\ dtarget = 0
    /\ login = [l \in Logins |-> [at |-> "idle", kotak |-> FALSE, view |-> NoLeg, final |-> NoLeg,
                                   result |-> "none"]]
    /\ fd = [l \in Logins |-> NoFile]
    /\ accepted = {0}

Active == {l \in Logins : login[l].at \notin {"idle", "done"}}
GoTo(l, at) == login' = [login EXCEPT ![l].at = at]
Return(l, result) == login' = [login EXCEPT ![l].at = "done", ![l].result = result]

-----------------------------------------------------------------------------
\* establish: every secret is read before anything is sent; a missing one is
\* an error.  A Kotak login has three legs, a Kite login one.
Establish(l, broker, secrets) ==
    /\ login[l].at = "idle"
    /\ \A m \in Logins : m < l => login[m].at # "idle"
    /\ Cardinality(Active) < AtOnce
    /\ IF ~secrets THEN Return(l, "Error")
       ELSE login' = [login EXCEPT ![l].at = IF broker = "kite" THEN "kite" ELSE "oauth",
                                   ![l].kotak = broker = "kotak"]
    /\ UNCHANGED <<fsVars, fd, accepted>>

\* Kite: the answer carries an access token, or it is an error of its own.
KiteLogin(l) ==
    /\ login[l].at = "kite"
    /\ \/ GoTo(l, "save") /\ accepted' \in {{l}, accepted \cup {l}}
       \/ Return(l, "Error") /\ UNCHANGED accepted
    /\ UNCHANGED <<fsVars, fd>>

\* is_credential_refusal: the credentials are wrong, not the line or the broker.
is_credential_refusal(e, parsed) ==
    \/ e.category \in {"Auth", "SessionExpired"}
    \/ e.category \in {"Validation", "BrokerRejected"} /\ parsed

\* A leg the broker did not answer with success: Failed when it refused the
\* credentials, an error otherwise (no answer is the transport's error).
LegRefused(l) ==
    /\ login[l].at \in {"oauth", "view", "mpin"}
    /\ \E a \in {x \in Answer : x.status # 200 \/ x.verdict # "none"} :
          LET e == map_kotak_error(a)
          IN  Return(l, IF a.status # 0 /\ is_credential_refusal(e, a.verdict # "none")
                        THEN "Failed" ELSE "Error")
    /\ UNCHANGED <<fsVars, fd, accepted>>

\* A success without the token it should carry is an Auth error.
LegWithoutToken(l) ==
    /\ login[l].at \in {"oauth", "view", "mpin"}
    /\ Return(l, "Error")
    /\ UNCHANGED <<fsVars, fd, accepted>>

fetch_access_token(l) ==
    /\ login[l].at = "oauth"
    /\ GoTo(l, "view")
    /\ UNCHANGED <<fsVars, fd, accepted>>

post_login_view(l, leg) ==
    /\ login[l].at = "view"
    /\ login' = [login EXCEPT ![l].at = "mpin", ![l].view = leg]
    /\ UNCHANGED <<fsVars, fd, accepted>>

\* Mutant of complete: the server id is not asked for.
CompleteWithoutServer(view, final) == view.sid \/ final.sid

\* KotakSessionBundle::complete, each part from the last leg or the view leg.
complete(view, final) == (view.sid \/ final.sid) /\ (view.hs \/ final.hs)

\* The last leg: an incomplete bundle fails the login and is not stored.
post_login_mpin(l, leg) ==
    /\ login[l].at = "mpin"
    /\ login' = [login EXCEPT ![l] = IF complete(@.view, leg)
                    THEN [@ EXCEPT !.at = "save", !.final = leg]
                    ELSE [@ EXCEPT !.at = "done", !.final = leg, !.result = "Failed"]]
    /\ accepted' \in {{l}, accepted \cup {l}}
    /\ UNCHANGED <<fsVars, fd>>

-----------------------------------------------------------------------------
(* TokenStore::save and write_durably.                                     *)

\* A failure before the rename removes the temporary file, whoever wrote it.
Discard(l) == Return(l, "Error") /\ tmp' = NoFile

\* The key, the directory and its permissions, then fopen(tmp, "wb"): a
\* temporary file that is there, a leftover or another process's, is truncated
\* and shared.
Open(l, ok) ==
    /\ login[l].at = "save"
    /\ LET i == IF tmp = NoFile THEN l ELSE tmp
       IN  IF ok THEN /\ tmp' = i
                      /\ data' = [data EXCEPT ![i] = Empty]
                      /\ fd' = [fd EXCEPT ![l] = i]
                      /\ GoTo(l, "write")
                 ELSE Return(l, "Error") /\ UNCHANGED <<tmp, data, fd>>
    /\ UNCHANGED <<disk, target, dtarget, accepted>>

Write(l, ok) ==
    /\ login[l].at = "write"
    /\ data' = [data EXCEPT ![fd[l]] = IF ok THEN l ELSE Torn]
    /\ IF ok THEN GoTo(l, "sync") /\ UNCHANGED tmp ELSE Discard(l)
    /\ UNCHANGED <<disk, target, dtarget, fd, accepted>>

\* Mutant of Sync: flushed, not synced.
SyncNothing(l, ok) ==
    /\ login[l].at = "sync"
    /\ IF ok THEN GoTo(l, "restrict") /\ UNCHANGED tmp ELSE Discard(l)
    /\ UNCHANGED <<disk, data, target, dtarget, fd, accepted>>

Sync(l, ok) ==
    /\ login[l].at = "sync"
    /\ IF ok THEN /\ disk' = [disk EXCEPT ![fd[l]] = data[fd[l]]]
                  /\ GoTo(l, "restrict") /\ UNCHANGED tmp
             ELSE Discard(l) /\ UNCHANGED disk
    /\ UNCHANGED <<data, target, dtarget, fd, accepted>>

\* It acts on the name: it fails when the name is gone.
restrict_to_owner_file(l, ok) ==
    /\ login[l].at = "restrict"
    /\ ok => tmp # NoFile
    /\ IF ok THEN GoTo(l, "rename") /\ UNCHANGED tmp ELSE Discard(l)
    /\ UNCHANGED <<data, disk, target, dtarget, fd, accepted>>

Rename(l, ok) ==
    /\ login[l].at = "rename"
    /\ ok => tmp # NoFile
    /\ IF ok THEN GoTo(l, "dirsync") /\ target' = tmp /\ tmp' = NoFile
             ELSE Discard(l) /\ UNCHANGED target
    /\ UNCHANGED <<data, disk, dtarget, fd, accepted>>

\* Mutant of DirSync: a directory that cannot be synced is let pass.
DirSyncIgnored(l, ok) ==
    /\ login[l].at = "dirsync"
    /\ Return(l, "Healthy")
    /\ dtarget' = IF ok THEN target ELSE dtarget
    /\ UNCHANGED <<data, disk, tmp, target, fd, accepted>>

\* durable_sync_directory: only now is the login Healthy.
DirSync(l, ok) ==
    /\ login[l].at = "dirsync"
    /\ IF ok THEN Return(l, "Healthy") /\ dtarget' = target
             ELSE Return(l, "Error") /\ UNCHANGED dtarget
    /\ UNCHANGED <<data, disk, tmp, target, fd, accepted>>

Save(l, ok) == \/ Open(l, ok) \/ Write(l, ok) \/ Sync(l, ok)
               \/ restrict_to_owner_file(l, ok) \/ Rename(l, ok) \/ DirSync(l, ok)

-----------------------------------------------------------------------------
\* The login process is killed: its temporary file stays.
LoginDies(l) ==
    /\ l \in Active
    /\ Return(l, "died")
    /\ UNCHANGED <<fsVars, fd, accepted>>

\* A power loss: what was not synced is there, torn or gone; an entry whose
\* directory was not synced is the old or the new one.
PowerLoss ==
    /\ data' \in {d \in [Inodes -> Content] :
                    \A i \in Inodes : d[i] \in IF data[i] = disk[i] THEN {disk[i]}
                                                ELSE {disk[i], data[i], Torn}}
    /\ disk' = data'
    /\ target' \in {target, dtarget} /\ dtarget' = target'
    /\ tmp' \in {NoFile} \cup IF target' = target THEN {tmp} ELSE {target}
    /\ login' = [l \in Logins |-> IF l \in Active
                   THEN [login[l] EXCEPT !.at = "done", !.result = "died"] ELSE login[l]]
    /\ UNCHANGED <<fd, accepted>>

\* External: the day ends and the broker drops every session.
TokenExpires == accepted # {} /\ accepted' = {} /\ UNCHANGED <<fsVars, login, fd>>

LoginStep(l) ==
    \/ KiteLogin(l) \/ LegRefused(l) \/ LegWithoutToken(l) \/ fetch_access_token(l)
    \/ \E leg \in Leg : post_login_view(l, leg) \/ post_login_mpin(l, leg)
    \/ \E ok \in BOOLEAN : Save(l, ok)

-----------------------------------------------------------------------------
\* TokenStore::load: the content of the token file, if it decrypts.
Loads == target # NoFile /\ data[target] >= 0
loaded == data[target]

\* What validate() finds: an error of the given category, or a session state.
\* The Kite probe's answer when the line works depends on the token alone.
validate_session(line) ==
    IF ~Loads
    THEN [ok |-> FALSE, error |-> make_error(IF target # NoFile /\ data[target] = Torn
                                              THEN "Internal" ELSE "Validation")]
    ELSE IF ~line THEN [ok |-> FALSE, error |-> make_error("Network")]
    ELSE [ok |-> TRUE, state |-> IF loaded \in accepted THEN "Healthy" ELSE "NeedsReauth"]

-----------------------------------------------------------------------------
\* token_store.cpp:186: "A reader (or a crash) sees either the old complete
\* token or the new complete token - never a torn one": at every moment, and
\* after every power loss, the token file is there and holds a whole token.
TokenNeverTorn == Loads

\* A login that reported Healthy has its token, or a later one, on disk under
\* the token file's name: no crash brings the older session back.
HealthyIsDurable ==
    \A l \in Logins : login[l].result = "Healthy" =>
        dtarget # NoFile /\ disk[dtarget] >= l

\* A login the broker refused or cut short never replaces the stored token: a
\* stored Kotak session always has its sid and its server id, so the probe
\* can use it (KotakSessionBundle::complete, checked before save).
StoredSessionIsUsable ==
    Loads /\ loaded # 0 =>
        LET l == login[loaded]
        IN  /\ l.result # "Failed"
            /\ l.kotak => \E a, b \in {l.view, l.final} : a.sid /\ b.hs

\* The token file through logins, deaths and power losses: always whole, not
\* lost once a login reported Healthy, and never a half-made session.
TokenIsSafe == TokenNeverTorn /\ HealthyIsDurable /\ StoredSessionIsUsable
=============================================================================
