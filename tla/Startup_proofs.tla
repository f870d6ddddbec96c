--------------------------- MODULE Startup_proofs ---------------------------
(***************************************************************************)
(* TLAPS proofs about Startup, for any number of logins, any configuration *)
(* sources, back-off settings and budgets of faults: the token file        *)
(* through logins, deaths and power losses, the world an engine is         *)
(* composed over, and the supervisor's duty.                               *)
(***************************************************************************)
EXTENDS Startup, FiniteSetTheorems, WellFoundedInduction, TLAPS

-----------------------------------------------------------------------------
(* The token file.                                                         *)

Past   == {"write", "sync", "restrict", "rename", "dirsync", "done"}
Legs   == {"kite", "oauth", "view", "mpin", "save"}
Saving == {"save", "write", "sync", "restrict", "rename", "dirsync"}

(* Logins run one after the other, in the order of their numbers, and have *)
(* no result before they return.                                           *)
OneAtATime ==
    /\ \A l, m \in Active : l = m
    /\ \A l, m \in Logins :
          l < m /\ (l \in Active \/ login[l].at = "idle") => login[m].at = "idle"
    /\ \A l \in Logins : login[l].at # "done" => login[l].result = "none"

(* The three entries: the token file is always there, its temporary        *)
(* sibling is another inode, and none is an inode a later login would take.*)
EntriesApart ==
    /\ target \in Inodes /\ dtarget \in Inodes /\ tmp # target /\ tmp # dtarget
    /\ \A x \in {target, dtarget, tmp} : x \in Logins => login[x].at \in Past

Usable(r) == /\ r.at \in {"dirsync", "done"} /\ r.result # "Failed"
             /\ r.kotak => complete(r.view, r.final)

(* What the token file's entry points at, and what it would after a power  *)
(* loss, is synced and whole, and the first is not the older.              *)
Whole(i) == /\ data[i] = disk[i] /\ data[i] \in Inodes
            /\ data[i] \in Logins => Usable(login[data[i]])
FilesWhole == Whole(target) /\ Whole(dtarget) /\ data[dtarget] <= data[target]

(* How far the login that is saving has come.                              *)
SaveIsOnCourse ==
    \A l \in Logins :
        /\ login[l].at = "kite" => ~login[l].kotak
        /\ login[l].at \in Saving /\ login[l].kotak => complete(login[l].view, login[l].final)
        /\ login[l].at \in {"write", "sync", "restrict", "rename"} => fd[l] = tmp /\ tmp \in Inodes
        /\ login[l].at \in {"sync", "restrict", "rename"} => data[tmp] = l
        /\ login[l].at \in {"restrict", "rename"} => disk[tmp] = l
        /\ login[l].at = "dirsync" => data[target] = l

TokenInv == OneAtATime /\ EntriesApart /\ FilesWhole /\ SaveIsOnCourse /\ HealthyIsDurable

LEMMA FunctionInto ==
  ASSUME NEW S, NEW T, NEW f, NEW x \in S, NEW y \in T, f \in [S -> T]
  PROVE  [f EXCEPT ![x] = y] \in [S -> T]
OBVIOUS

LEMMA LoginsAreInodes ==
  /\ LastLogin \in Nat /\ Logins \subseteq Inodes /\ Logins \subseteq Nat /\ 0 \in Inodes
  /\ Inodes \subseteq Nat /\ Inodes = {0} \cup Logins /\ 0 \notin Logins
  /\ NoFile \notin Inodes /\ Inodes \subseteq Content
BY LoginAssumption DEF Logins, Inodes, NoFile, Content

LEMMA TokenInitially == TokenInit => TokenTypeOK /\ TokenInv
<1> SUFFICES ASSUME TokenInit PROVE TokenTypeOK /\ TokenInv
  OBVIOUS
<1> USE LoginsAreInodes DEF TokenInit
<1>1. \A l \in Logins : /\ login[l] \in LoginState /\ login[l].at = "idle"
                        /\ login[l].result = "none"
  BY DEF LoginState, Leg, NoLeg
<1>2. data[0] = 0 /\ disk[0] = 0
  OBVIOUS
<1>3. TokenTypeOK
  BY <1>1 DEF TokenTypeOK, Content, Empty
<1>4. Active = {}
  BY <1>1 DEF Active
<1>5. OneAtATime
  BY <1>1, <1>4 DEF OneAtATime
<1>6. EntriesApart
  BY DEF EntriesApart
<1>7. FilesWhole
  BY <1>2 DEF FilesWhole, Whole
<1>8. SaveIsOnCourse /\ HealthyIsDurable
  BY <1>1 DEF SaveIsOnCourse, HealthyIsDurable, Saving
<1> QED BY <1>3, <1>5, <1>6, <1>7, <1>8 DEF TokenInv

(* A leg of the login, or a save that did not get its file: only the       *)
(* login's own record moves.                                               *)
LEMMA LegKeepsInv ==
  ASSUME TokenTypeOK, TokenInv, NEW l \in Logins, login[l].at \in Legs,
         login' \in [Logins -> LoginState],
         \A m \in Logins : m # l => login'[m] = login[m],
         login'[l].at \in (Legs \ {"kite"}) \cup {"done"}, login'[l].result # "Healthy",
         login'[l].at # "done" => login'[l].result = "none",
         login'[l].at = "save" /\ login'[l].kotak => complete(login'[l].view, login'[l].final),
         UNCHANGED <<fsVars, fd>>
  PROVE  TokenInv'
<1> USE LoginsAreInodes
<1>1. UNCHANGED <<data, disk, tmp, target, dtarget, fd>>
  BY DEF fsVars
<1>2. l \in Active /\ Active' \subseteq Active
  BY DEF Active, Legs
<1>3. OneAtATime'
  <2>1. \A m \in Logins : login'[m].at = "idle" <=> login[m].at = "idle"
    BY DEF Legs
  <2> QED BY <1>2, <2>1 DEF TokenInv, OneAtATime
<1>4. EntriesApart'
  <2>1. l \notin {target, dtarget, tmp}
    BY DEF TokenInv, EntriesApart, Legs, Past
  <2> QED BY <1>1, <2>1 DEF TokenInv, EntriesApart
<1>5. FilesWhole'
  <2>1. data[target] # l /\ data[dtarget] # l
    BY DEF TokenInv, FilesWhole, Whole, Usable, Legs
  <2>2. Whole(target)' /\ Whole(dtarget)'
    BY <1>1, <2>1 DEF TokenInv, FilesWhole, Whole
  <2> QED BY <1>1, <2>2 DEF TokenInv, FilesWhole
<1>6. SaveIsOnCourse'
  <2> SUFFICES ASSUME NEW m \in Logins
               PROVE (/\ login[m].at = "kite" => ~login[m].kotak
                      /\ login[m].at \in Saving /\ login[m].kotak => complete(login[m].view, login[m].final)
                      /\ login[m].at \in {"write", "sync", "restrict", "rename"} => fd[m] = tmp /\ tmp \in Inodes
                      /\ login[m].at \in {"sync", "restrict", "rename"} => data[tmp] = m
                      /\ login[m].at \in {"restrict", "rename"} => disk[tmp] = m
                      /\ login[m].at = "dirsync" => data[target] = m)'
    BY DEF SaveIsOnCourse
  <2>1. CASE m = l
    BY <1>1, <2>1 DEF Legs, Saving
  <2>2. CASE m # l
    BY <1>1, <2>2 DEF TokenInv, SaveIsOnCourse
  <2> QED BY <2>1, <2>2
<1>7. HealthyIsDurable'
  BY <1>1 DEF TokenInv, HealthyIsDurable
<1> QED BY <1>3, <1>4, <1>5, <1>6, <1>7 DEF TokenInv

(* A login that ends badly, wherever it was: its temporary file may be     *)
(* gone or spoilt, and nothing else.                                       *)
LEMMA EndKeepsInv ==
  ASSUME TokenTypeOK, TokenInv, NEW l \in Active,
         login' \in [Logins -> LoginState],
         \A m \in Logins : m # l => login'[m] = login[m],
         login'[l].at = "done", login'[l].result \in {"Error", "died"},
         login'[l].kotak = login[l].kotak, login'[l].view = login[l].view,
         login'[l].final = login[l].final,
         tmp' \in {tmp, NoFile}, UNCHANGED <<disk, target, dtarget, fd>>,
         \A i \in Inodes : i # tmp => data'[i] = data[i]
  PROVE  TokenInv'
<1> USE LoginsAreInodes
<1>1. l \in Logins /\ Active' \subseteq Active \ {l} /\ login[l].at # "done" /\ login[l].at # "idle"
  BY DEF Active
<1>2. data'[target] = data[target] /\ data'[dtarget] = data[dtarget]
  BY DEF TokenInv, EntriesApart
<1>3. OneAtATime'
  <2>1. \A m \in Logins : login'[m].at = "idle" <=> login[m].at = "idle"
    BY <1>1
  <2>2. /\ \A x, m \in Active : x = m
        /\ \A x, m \in Logins :
              x < m /\ (x \in Active \/ login[x].at = "idle") => login[m].at = "idle"
        /\ \A x \in Logins : login[x].at # "done" => login[x].result = "none"
    BY DEF TokenInv, OneAtATime
  <2>3. \A x, m \in Active' : x = m
    BY <1>1, <2>2
  <2>4. \A x, m \in Logins :
           x < m /\ (x \in Active' \/ login'[x].at = "idle") => login'[m].at = "idle"
    BY <1>1, <2>1, <2>2
  <2>5. \A x \in Logins : login'[x].at # "done" => login'[x].result = "none"
    <3> SUFFICES ASSUME NEW x \in Logins, login'[x].at # "done"
                 PROVE  login'[x].result = "none"
      OBVIOUS
    <3>1. x # l
      OBVIOUS
    <3> QED BY <2>2, <3>1
  <2> QED BY <2>3, <2>4, <2>5 DEF OneAtATime
<1>4. EntriesApart'
  <2>1. tmp' # target /\ tmp' # dtarget
    BY DEF TokenInv, EntriesApart
  <2>2. \A x \in Logins : login[x].at \in Past => login'[x].at \in Past
    BY <1>1 DEF Past
  <2>3. \A x \in {target, dtarget, tmp'} : x \in Logins => login'[x].at \in Past
    BY <2>2 DEF TokenInv, EntriesApart
  <2> QED BY <2>1, <2>3 DEF TokenInv, EntriesApart
<1>5. FilesWhole'
  <2>1. \A x \in Logins : Usable(login[x]) => Usable(login'[x])
    BY <1>1 DEF Usable
  <2>2. Whole(target)' /\ Whole(dtarget)'
    BY <1>2, <2>1 DEF TokenInv, FilesWhole, Whole
  <2> QED BY <1>2, <2>2 DEF TokenInv, FilesWhole
<1>6. SaveIsOnCourse'
  <2>1. \A m \in Logins : login'[m].at \notin Saving \cup {"kite"}
    BY <1>1 DEF TokenInv, OneAtATime, Active, Saving
  <2> QED BY <2>1 DEF SaveIsOnCourse, Saving
<1>7. HealthyIsDurable'
  BY <1>1 DEF TokenInv, HealthyIsDurable
<1> QED BY <1>3, <1>4, <1>5, <1>6, <1>7 DEF TokenInv

(* Return as LegKeepsInv and EndKeepsInv want it.                          *)
LEMMA Returned ==
  ASSUME TokenTypeOK, NEW l \in Logins, NEW r \in {"Failed", "Error", "died", "Healthy"},
         Return(l, r)
  PROVE  /\ login' \in [Logins -> LoginState]
         /\ \A m \in Logins : m # l => login'[m] = login[m]
         /\ login'[l].at = "done" /\ login'[l].result = r
         /\ login'[l].kotak = login[l].kotak /\ login'[l].view = login[l].view
         /\ login'[l].final = login[l].final
BY DEF TokenTypeOK, Return, LoginState

LEMMA WentTo ==
  ASSUME TokenTypeOK, NEW l \in Logins,
         NEW a \in {"kite", "oauth", "view", "mpin", "save", "write", "sync", "restrict",
                    "rename", "dirsync"},
         GoTo(l, a)
  PROVE  /\ login' \in [Logins -> LoginState]
         /\ \A m \in Logins : m # l => login'[m] = login[m]
         /\ login'[l].at = a /\ login'[l].result = login[l].result
         /\ login'[l].kotak = login[l].kotak /\ login'[l].view = login[l].view
         /\ login'[l].final = login[l].final
BY DEF TokenTypeOK, GoTo, LoginState

LEMMA NoneActive ==
  ASSUME AtOnce = 1, Cardinality(Active) < AtOnce PROVE Active = {}
<1>1. IsFiniteSet(Logins)
  BY LoginAssumption, FS_Interval DEF Logins
<1>2. Active \subseteq Logins
  BY DEF Active
<1>3. IsFiniteSet(Active)
  BY <1>1, <1>2, FS_Subset
<1>4. Cardinality(Active) \in Nat
  BY <1>3, FS_CardinalityType
<1>5. Cardinality(Active) = 0
  BY <1>4
<1> QED BY <1>3, <1>5, FS_EmptySet

(* A login starts: every earlier one is done, every later one idle.        *)
LEMMA EstablishKeeps ==
  ASSUME AtOnce = 1, TokenTypeOK, TokenInv, NEW l \in Logins, NEW b \in {"kite", "kotak"},
         NEW s \in BOOLEAN, Establish(l, b, s)
  PROVE  TokenTypeOK' /\ TokenInv'
<1> USE LoginsAreInodes
<1>1. UNCHANGED <<data, disk, tmp, target, dtarget, fd, accepted>>
  BY DEF Establish, fsVars
<1>2. /\ login' \in [Logins -> LoginState]
      /\ \A m \in Logins : m # l => login'[m] = login[m]
      /\ \/ /\ login'[l].at \in {"kite", "oauth"} /\ login'[l].result = login[l].result
            /\ login'[l].at = "kite" => ~login'[l].kotak
         \/ login'[l].at = "done" /\ login'[l].result = "Error"
  BY DEF Establish, Return, TokenTypeOK, LoginState
<1>3. login[l].at = "idle" /\ login[l].result = "none" /\ Active = {}
  BY NoneActive DEF Establish, TokenInv, OneAtATime
<1>4. \A m \in Logins : l < m => login[m].at = "idle"
  BY <1>3 DEF TokenInv, OneAtATime
<1>5. Active' \subseteq {l} /\ \A m \in Logins : m < l => login[m].at # "idle"
  BY <1>2, <1>3 DEF Active, Establish
<1>6. TokenTypeOK'
  BY <1>1, <1>2 DEF TokenTypeOK
<1>7. OneAtATime'
  <2>1. \A m \in Logins : login'[m].at = "idle" <=> (m # l /\ login[m].at = "idle")
    BY <1>2
  <2>2. \A m, n \in Logins :
          m < n /\ (m \in Active' \/ login'[m].at = "idle") => login'[n].at = "idle"
    BY <1>3, <1>4, <1>5, <2>1 DEF TokenInv, OneAtATime
  <2> QED BY <1>2, <1>3, <1>5, <2>2 DEF TokenInv, OneAtATime
<1>8. EntriesApart'
  <2>1. l \notin {target, dtarget, tmp}
    BY <1>3 DEF TokenInv, EntriesApart, Past
  <2> QED BY <1>1, <1>2, <2>1 DEF TokenInv, EntriesApart
<1>9. FilesWhole'
  <2>1. data[target] # l /\ data[dtarget] # l
    BY <1>3 DEF TokenInv, FilesWhole, Whole, Usable
  <2>2. Whole(target)' /\ Whole(dtarget)'
    BY <1>1, <1>2, <2>1 DEF TokenInv, FilesWhole, Whole
  <2> QED BY <1>1, <2>2 DEF TokenInv, FilesWhole
<1>10. SaveIsOnCourse'
  <2>1. \A m \in Logins : /\ login'[m].at \notin Saving
                          /\ login'[m].at = "kite" => m = l /\ ~login'[m].kotak
    BY <1>2, <1>3 DEF Active, Saving
  <2> QED BY <2>1 DEF SaveIsOnCourse, Saving
<1>11. HealthyIsDurable'
  BY <1>1, <1>2, <1>3 DEF TokenInv, HealthyIsDurable
<1> QED BY <1>6, <1>7, <1>8, <1>9, <1>10, <1>11 DEF TokenInv

(* The login's legs, up to the decision to store what they returned.       *)
LEMMA LegsKeep ==
  ASSUME TokenTypeOK, TokenInv, NEW l \in Logins,
         \/ KiteLogin(l) \/ LegRefused(l) \/ LegWithoutToken(l) \/ fetch_access_token(l)
         \/ \E leg \in Leg : post_login_view(l, leg) \/ post_login_mpin(l, leg)
  PROVE  TokenTypeOK' /\ TokenInv'
<1> USE LoginsAreInodes
<1>1. /\ login[l] \in LoginState /\ login \in [Logins -> LoginState]
      /\ login[l].at # "done" => login[l].result = "none"
  BY DEF TokenTypeOK, TokenInv, OneAtATime
<1> DEFINE Goal == /\ login[l].at \in Legs /\ UNCHANGED <<fsVars, fd>>
                   /\ accepted' \in {accepted, {l}, accepted \cup {l}}
                   /\ login' \in [Logins -> LoginState]
                   /\ \A m \in Logins : m # l => login'[m] = login[m]
                   /\ login'[l].at \in (Legs \ {"kite"}) \cup {"done"} /\ login'[l].result # "Healthy"
                   /\ login'[l].at # "done" => login'[l].result = "none"
                   /\ login'[l].at = "save" /\ login'[l].kotak
                        => complete(login'[l].view, login'[l].final)
<1>2. ASSUME KiteLogin(l) PROVE Goal
  <2>1. login[l].at = "kite" /\ ~login[l].kotak
    BY <1>2 DEF KiteLogin, TokenInv, SaveIsOnCourse
  <2>2. CASE GoTo(l, "save") /\ accepted' \in {{l}, accepted \cup {l}}
    BY <1>1, <1>2, <2>1, <2>2, WentTo DEF KiteLogin, Legs
  <2>3. CASE Return(l, "Error") /\ UNCHANGED accepted
    BY <1>1, <1>2, <2>1, <2>3, Returned DEF KiteLogin, Legs
  <2> QED BY <1>2, <2>2, <2>3 DEF KiteLogin
<1>3. ASSUME LegRefused(l) PROVE Goal
  <2>1. PICK a \in Answer : Return(l, IF a.status # 0 /\ is_credential_refusal(map_kotak_error(a), a.verdict # "none")
                                      THEN "Failed" ELSE "Error")
    BY <1>3 DEF LegRefused
  <2>2. Return(l, "Failed") \/ Return(l, "Error")
    BY <2>1
  <2> QED BY <1>1, <1>3, <2>2, Returned DEF LegRefused, Legs
<1>4. ASSUME LegWithoutToken(l) PROVE Goal
  BY <1>1, <1>4, Returned DEF LegWithoutToken, Legs
<1>5. ASSUME fetch_access_token(l) PROVE Goal
  BY <1>1, <1>5, WentTo DEF fetch_access_token, Legs
<1>6. ASSUME NEW leg \in Leg, post_login_view(l, leg) PROVE Goal
  BY <1>1, <1>6 DEF post_login_view, Legs, LoginState
<1>7. ASSUME NEW leg \in Leg, post_login_mpin(l, leg) PROVE Goal
  <2>1. /\ login'[l] = IF complete(login[l].view, leg)
                       THEN [login[l] EXCEPT !.at = "save", !.final = leg]
                       ELSE [login[l] EXCEPT !.at = "done", !.final = leg, !.result = "Failed"]
        /\ \A m \in Logins : m # l => login'[m] = login[m]
        /\ login[l].at = "mpin"
        /\ login' = [login EXCEPT ![l] = login'[l]]
    BY <1>1, <1>7 DEF post_login_mpin
  <2>2. CASE complete(login[l].view, leg)
    <3>1. login'[l] \in LoginState /\ login'[l].at = "save" /\ login'[l].view = login[l].view
          /\ login'[l].final = leg /\ login'[l].result = "none"
      BY ZenonT(30), <1>1, <2>1, <2>2 DEF LoginState
    <3>2. login' \in [Logins -> LoginState]
      BY <1>1, <2>1, <3>1, FunctionInto, Zenon
    <3>3. login'[l].at = "save" /\ login'[l].kotak => complete(login'[l].view, login'[l].final)
      BY <2>2, <3>1
    <3> QED BY <1>7, <2>1, <3>1, <3>2, <3>3 DEF post_login_mpin, Legs
  <2>3. CASE ~complete(login[l].view, leg)
    <3>1. login'[l] \in LoginState /\ login'[l].at = "done" /\ login'[l].result = "Failed"
      BY ZenonT(30), <1>1, <2>1, <2>3 DEF LoginState
    <3>2. login' \in [Logins -> LoginState]
      BY <1>1, <2>1, <3>1, FunctionInto, Zenon
    <3> QED BY <1>7, <2>1, <3>1, <3>2 DEF post_login_mpin, Legs
  <2> QED BY <2>2, <2>3
<1>8. Goal
  BY <1>2, <1>3, <1>4, <1>5, <1>6, <1>7
<1>9. TokenInv'
  BY <1>8, LegKeepsInv
<1>10. TokenTypeOK'
  BY <1>8 DEF TokenTypeOK, fsVars
<1> QED BY <1>9, <1>10

(* A step of the save that succeeds: nobody else is saving.                *)
LEMMA SaveStep ==
  ASSUME TokenTypeOK, TokenInv, NEW l \in Logins, login[l].at \in Saving,
         NEW a \in Saving, GoTo(l, a)
  PROVE  /\ OneAtATime'
         /\ \A m \in Logins : m # l => login'[m].at \notin Saving \cup {"kite"}
         /\ login'[l].kotak => complete(login'[l].view, login'[l].final)
<1> USE LoginsAreInodes
<1>1. /\ \A m \in Logins : m # l => login'[m] = login[m]
      /\ login'[l].at = a /\ login'[l].result = login[l].result
      /\ login'[l].kotak = login[l].kotak /\ login'[l].view = login[l].view
      /\ login'[l].final = login[l].final
  BY WentTo DEF Saving
<1>2. l \in Active /\ Active' \subseteq Active
  BY <1>1 DEF Active, Saving
<1>3. \A m \in Logins : m # l => login[m].at \notin Saving \cup {"kite"}
  BY <1>2 DEF TokenInv, OneAtATime, Active, Saving
<1>4. OneAtATime'
  <2>1. \A m \in Logins : login'[m].at = "idle" <=> login[m].at = "idle"
    BY <1>1 DEF Saving
  <2>2. login'[l].result = "none"
    BY <1>1 DEF TokenInv, OneAtATime, Saving
  <2> QED BY <1>1, <1>2, <2>1, <2>2 DEF TokenInv, OneAtATime
<1> QED BY <1>1, <1>3, <1>4 DEF TokenInv, SaveIsOnCourse

(* A step of the save that fails.                                          *)
LEMMA FailedSaveKeeps ==
  ASSUME TokenTypeOK, TokenInv, NEW l \in Logins, login[l].at \in Saving, Return(l, "Error"),
         tmp' \in {tmp, NoFile}, UNCHANGED <<disk, target, dtarget, fd, accepted>>,
         data' \in [Inodes -> Content], \A i \in Inodes : i # tmp => data'[i] = data[i]
  PROVE  TokenTypeOK' /\ TokenInv'
<1>1. l \in Active
  BY DEF Active, Saving
<1>2. /\ login' \in [Logins -> LoginState]
      /\ \A m \in Logins : m # l => login'[m] = login[m]
      /\ login'[l].at = "done" /\ login'[l].result = "Error"
      /\ login'[l].kotak = login[l].kotak /\ login'[l].view = login[l].view
      /\ login'[l].final = login[l].final
  BY Returned
<1>3. TokenInv'
  BY <1>1, <1>2, EndKeepsInv
<1>4. TokenTypeOK'
  BY <1>2 DEF TokenTypeOK
<1> QED BY <1>3, <1>4

LEMMA OpenKeeps ==
  ASSUME TokenTypeOK, TokenInv, NEW l \in Logins, NEW ok \in BOOLEAN, Open(l, ok)
  PROVE  TokenTypeOK' /\ TokenInv'
<1> USE LoginsAreInodes
<1>1. login[l].at = "save" /\ login[l].at \in Saving
  BY DEF Open, Saving
<1>2. CASE ~ok
  <2>1. Return(l, "Error") /\ UNCHANGED <<tmp, data, fd, disk, target, dtarget, accepted>>
    BY <1>2 DEF Open
  <2>2. data' \in [Inodes -> Content]
    BY <2>1 DEF TokenTypeOK
  <2> QED BY <1>1, <2>1, <2>2, FailedSaveKeeps
<1>3. CASE ok
  <2> DEFINE i == IF tmp = NoFile THEN l ELSE tmp
  <2>1. /\ i \in Inodes /\ i # target /\ i # dtarget
        /\ i \in Logins => i = l \/ login[i].at \in Past
    BY <1>1 DEF TokenTypeOK, TokenInv, EntriesApart, Past
  <2>2. /\ tmp' = i /\ data' = [data EXCEPT ![i] = Empty] /\ fd' = [fd EXCEPT ![l] = i]
        /\ GoTo(l, "write") /\ UNCHANGED <<disk, target, dtarget, accepted>>
    BY <1>3 DEF Open
  <2> HIDE DEF i
  <2>3. /\ login' \in [Logins -> LoginState]
        /\ \A m \in Logins : m # l => login'[m] = login[m]
        /\ login'[l].at = "write" /\ login'[l].result = login[l].result
    BY <2>2, WentTo
  <2>4. TokenTypeOK'
    BY <2>1, <2>2, <2>3 DEF TokenTypeOK, Content
  <2>5. /\ OneAtATime'
        /\ \A m \in Logins : m # l => login'[m].at \notin Saving \cup {"kite"}
        /\ login'[l].kotak => complete(login'[l].view, login'[l].final)
    BY <1>1, <2>2, SaveStep DEF Saving
  <2>6. data'[target] = data[target] /\ data'[dtarget] = data[dtarget]
    BY <2>1, <2>2 DEF TokenTypeOK, TokenInv, EntriesApart
  <2>7. EntriesApart'
    <3>1. \A x \in Logins : login[x].at \in Past \/ x = l => login'[x].at \in Past
      BY <2>3 DEF Past
    <3> QED BY <2>1, <2>2, <3>1 DEF TokenInv, EntriesApart
  <2>8. FilesWhole'
    <3>1. \A x \in Logins : Usable(login[x]) => Usable(login'[x])
      BY <1>1, <2>3 DEF Usable
    <3>2. Whole(target)' /\ Whole(dtarget)'
      BY <2>2, <2>6, <3>1 DEF TokenInv, FilesWhole, Whole
    <3> QED BY <2>2, <2>6, <3>2 DEF TokenInv, FilesWhole
  <2>9. SaveIsOnCourse'
    <3>1. fd'[l] = tmp' /\ tmp' \in Inodes
      BY <2>1, <2>2 DEF TokenTypeOK
    <3> QED BY <2>3, <2>5, <3>1 DEF SaveIsOnCourse, Saving
  <2>10. HealthyIsDurable'
    BY <1>1, <2>2, <2>3 DEF TokenInv, HealthyIsDurable, OneAtATime
  <2> QED BY <2>4, <2>5, <2>7, <2>8, <2>9, <2>10 DEF TokenInv
<1> QED BY <1>2, <1>3

(* A step of the save that succeeds and moves neither entry.               *)
LEMMA InPlaceKeeps ==
  ASSUME TokenTypeOK, TokenInv, NEW l \in Logins, login[l].at \in {"write", "sync", "restrict"},
         NEW a \in {"sync", "restrict", "rename"}, GoTo(l, a),
         UNCHANGED <<tmp, target, dtarget, fd, accepted>>,
         data' \in [Inodes -> Content], disk' \in [Inodes -> Content],
         \A i \in Inodes : i # tmp => data'[i] = data[i] /\ disk'[i] = disk[i],
         data'[tmp] = l, a \in {"restrict", "rename"} => disk'[tmp] = l
  PROVE  TokenTypeOK' /\ TokenInv'
<1> USE LoginsAreInodes
<1>1. login[l].at \in Saving /\ a \in Saving
  BY DEF Saving
<1>2. fd[l] = tmp /\ tmp \in Inodes
  BY DEF TokenInv, SaveIsOnCourse
<1>3. /\ login' \in [Logins -> LoginState]
      /\ \A m \in Logins : m # l => login'[m] = login[m]
      /\ login'[l].at = a /\ login'[l].result = login[l].result
  BY WentTo
<1>4. /\ OneAtATime'
      /\ \A m \in Logins : m # l => login'[m].at \notin Saving \cup {"kite"}
      /\ login'[l].kotak => complete(login'[l].view, login'[l].final)
  BY <1>1, SaveStep
<1>5. TokenTypeOK'
  BY <1>3 DEF TokenTypeOK
<1>6. /\ data'[target] = data[target] /\ data'[dtarget] = data[dtarget]
      /\ disk'[target] = disk[target] /\ disk'[dtarget] = disk[dtarget]
  BY DEF TokenInv, EntriesApart
<1>7. EntriesApart'
  <2>1. \A x \in Logins : login[x].at \in Past => login'[x].at \in Past
    BY <1>3 DEF Past
  <2> QED BY <2>1 DEF TokenInv, EntriesApart
<1>8. FilesWhole'
  <2>1. \A x \in Logins : Usable(login[x]) => Usable(login'[x])
    BY <1>3 DEF Usable
  <2>2. Whole(target)' /\ Whole(dtarget)'
    BY <1>6, <2>1 DEF TokenInv, FilesWhole, Whole
  <2> QED BY <1>6, <2>2 DEF TokenInv, FilesWhole
<1>9. SaveIsOnCourse'
  BY <1>2, <1>3, <1>4 DEF SaveIsOnCourse, Saving
<1>10. HealthyIsDurable'
  BY <1>1, <1>3, <1>6 DEF TokenInv, HealthyIsDurable, OneAtATime
<1> QED BY <1>4, <1>5, <1>7, <1>8, <1>9, <1>10 DEF TokenInv

LEMMA WriteKeeps ==
  ASSUME TokenTypeOK, TokenInv, NEW l \in Logins, NEW ok \in BOOLEAN, Write(l, ok)
  PROVE  TokenTypeOK' /\ TokenInv'
<1> USE LoginsAreInodes
<1>1. login[l].at = "write" /\ login[l].at \in Saving /\ fd[l] = tmp /\ tmp \in Inodes
  BY DEF Write, Saving, TokenInv, SaveIsOnCourse
<1>2. /\ data' \in [Inodes -> Content] /\ \A i \in Inodes : i # tmp => data'[i] = data[i]
      /\ ok => data'[tmp] = l
  BY <1>1 DEF Write, TokenTypeOK, Content
<1>3. CASE ~ok
  BY <1>1, <1>2, <1>3, FailedSaveKeeps DEF Write, Discard
<1>4. CASE ok
  BY <1>1, <1>2, <1>4, InPlaceKeeps DEF Write, TokenTypeOK
<1> QED BY <1>3, <1>4

LEMMA SyncKeeps ==
  ASSUME TokenTypeOK, TokenInv, NEW l \in Logins, NEW ok \in BOOLEAN, Sync(l, ok)
  PROVE  TokenTypeOK' /\ TokenInv'
<1> USE LoginsAreInodes
<1>1. /\ login[l].at = "sync" /\ login[l].at \in Saving /\ fd[l] = tmp /\ tmp \in Inodes
      /\ data[tmp] = l
  BY DEF Sync, Saving, TokenInv, SaveIsOnCourse
<1>2. CASE ~ok
  BY <1>1, <1>2, FailedSaveKeeps DEF Sync, Discard, TokenTypeOK
<1>3. CASE ok
  <2>1. /\ disk' \in [Inodes -> Content] /\ \A i \in Inodes : i # tmp => disk'[i] = disk[i]
        /\ disk'[tmp] = l
    BY <1>1, <1>3 DEF Sync, TokenTypeOK
  <2> QED BY <1>1, <1>3, <2>1, InPlaceKeeps DEF Sync, TokenTypeOK
<1> QED BY <1>2, <1>3

LEMMA RestrictKeeps ==
  ASSUME TokenTypeOK, TokenInv, NEW l \in Logins, NEW ok \in BOOLEAN,
         restrict_to_owner_file(l, ok)
  PROVE  TokenTypeOK' /\ TokenInv'
<1>1. /\ login[l].at = "restrict" /\ login[l].at \in Saving /\ data[tmp] = l /\ disk[tmp] = l
  BY DEF restrict_to_owner_file, Saving, TokenInv, SaveIsOnCourse
<1>2. CASE ~ok
  BY <1>1, <1>2, FailedSaveKeeps DEF restrict_to_owner_file, Discard, TokenTypeOK
<1>3. CASE ok
  BY <1>1, <1>3, InPlaceKeeps DEF restrict_to_owner_file, TokenTypeOK
<1> QED BY <1>2, <1>3

(* The new file takes the token file's name: it holds the newest token.    *)
LEMMA RenameKeeps ==
  ASSUME TokenTypeOK, TokenInv, NEW l \in Logins, NEW ok \in BOOLEAN, Rename(l, ok)
  PROVE  TokenTypeOK' /\ TokenInv'
<1> USE LoginsAreInodes
<1>1. /\ login[l].at = "rename" /\ login[l].at \in Saving /\ tmp \in Inodes
      /\ data[tmp] = l /\ disk[tmp] = l
  BY DEF Rename, Saving, TokenInv, SaveIsOnCourse
<1>2. CASE ~ok
  BY <1>1, <1>2, FailedSaveKeeps DEF Rename, Discard, TokenTypeOK
<1>3. CASE ok
  <2>1. /\ GoTo(l, "dirsync") /\ target' = tmp /\ tmp' = NoFile
        /\ UNCHANGED <<data, disk, dtarget, fd, accepted>>
    BY <1>3 DEF Rename
  <2>2. /\ login' \in [Logins -> LoginState]
        /\ \A m \in Logins : m # l => login'[m] = login[m]
        /\ login'[l].at = "dirsync" /\ login'[l].result = login[l].result
    BY <2>1, WentTo
  <2>3. /\ OneAtATime'
        /\ \A m \in Logins : m # l => login'[m].at \notin Saving \cup {"kite"}
        /\ login'[l].kotak => complete(login'[l].view, login'[l].final)
    BY <1>1, <2>1, SaveStep DEF Saving
  <2>4. TokenTypeOK'
    BY <1>1, <2>1, <2>2 DEF TokenTypeOK
  <2>5. EntriesApart'
    <3>1. \A x \in Logins : login[x].at \in Past => login'[x].at \in Past
      BY <2>2 DEF Past
    <3> QED BY <1>1, <2>1, <3>1 DEF TokenInv, EntriesApart
  <2>6. FilesWhole'
    <3>1. \A x \in Logins : Usable(login[x]) => Usable(login'[x])
      BY <1>1, <2>2 DEF Usable
    <3>2. Whole(dtarget)'
      BY <2>1, <3>1 DEF TokenInv, FilesWhole, Whole
    <3>3. login'[l].result = "none"
      BY <1>1, <2>2 DEF TokenInv, OneAtATime
    <3>4. Whole(target)'
      BY <1>1, <2>1, <2>2, <2>3, <3>3 DEF Whole, Usable
    <3>5. data[dtarget] \in Logins => login[data[dtarget]].at # "idle"
      BY DEF TokenInv, FilesWhole, Whole, Usable
    <3>6. l \in Active
      BY <1>1 DEF Active
    <3>7. data[dtarget] <= l
      <4>1. data[dtarget] \in Nat /\ data[dtarget] \in {0} \cup Logins
        BY DEF TokenInv, FilesWhole, Whole
      <4>2. ~(l < data[dtarget])
        BY <3>5, <3>6, <4>1 DEF TokenInv, OneAtATime
      <4> QED BY <4>1, <4>2
    <3> QED BY <1>1, <2>1, <3>2, <3>4, <3>7 DEF FilesWhole
  <2>7. SaveIsOnCourse'
    BY <1>1, <2>1, <2>2, <2>3 DEF SaveIsOnCourse, Saving
  <2>8. HealthyIsDurable'
    BY <1>1, <2>1, <2>2 DEF TokenInv, HealthyIsDurable, OneAtATime
  <2> QED BY <2>3, <2>4, <2>5, <2>6, <2>7, <2>8 DEF TokenInv
<1> QED BY <1>2, <1>3

(* The directory is synced: no later power loss takes the name back.       *)
LEMMA DirSyncKeeps ==
  ASSUME TokenTypeOK, TokenInv, NEW l \in Logins, NEW ok \in BOOLEAN, DirSync(l, ok)
  PROVE  TokenTypeOK' /\ TokenInv'
<1> USE LoginsAreInodes
<1>1. /\ login[l].at = "dirsync" /\ login[l].at \in Saving /\ data[target] = l
  BY DEF DirSync, Saving, TokenInv, SaveIsOnCourse
<1>2. CASE ~ok
  BY <1>1, <1>2, FailedSaveKeeps DEF DirSync, TokenTypeOK
<1>3. CASE ok
  <2>1. /\ Return(l, "Healthy") /\ dtarget' = target
        /\ UNCHANGED <<data, disk, tmp, target, fd, accepted>>
    BY <1>3 DEF DirSync
  <2>2. /\ login' \in [Logins -> LoginState]
        /\ \A m \in Logins : m # l => login'[m] = login[m]
        /\ login'[l].at = "done" /\ login'[l].result = "Healthy"
        /\ login'[l].kotak = login[l].kotak /\ login'[l].view = login[l].view
        /\ login'[l].final = login[l].final
    BY <2>1, Returned
  <2>3. l \in Active /\ Active' \subseteq Active \ {l}
    BY <1>1, <2>2 DEF Active
  <2>4. TokenTypeOK'
    BY <2>1, <2>2 DEF TokenTypeOK
  <2>5. OneAtATime'
    <3>1. \A m \in Logins : login'[m].at = "idle" <=> login[m].at = "idle"
      BY <1>1, <2>2
    <3> QED BY <2>2, <2>3, <3>1 DEF TokenInv, OneAtATime
  <2>6. EntriesApart'
    <3>1. \A x \in Logins : login[x].at \in Past => login'[x].at \in Past
      BY <2>2 DEF Past
    <3> QED BY <2>1, <3>1 DEF TokenInv, EntriesApart
  <2>7. FilesWhole'
    <3>1. \A x \in Logins : Usable(login[x]) => Usable(login'[x])
      BY <2>2 DEF Usable
    <3>2. Whole(target)'
      BY <2>1, <3>1 DEF TokenInv, FilesWhole, Whole
    <3>3. data'[target'] \in Nat /\ dtarget' = target'
      BY <2>1, <3>2 DEF Whole
    <3>4. Whole(dtarget)'
      BY <3>2, <3>3 DEF Whole
    <3>5. data'[dtarget'] <= data'[target']
      BY <3>3
    <3> QED BY <3>2, <3>4, <3>5 DEF FilesWhole
  <2>8. SaveIsOnCourse'
    <3>1. \A m \in Logins : login'[m].at \notin Saving \cup {"kite"}
      BY <2>2, <2>3 DEF TokenInv, OneAtATime, Active, Saving
    <3> QED BY <3>1 DEF SaveIsOnCourse, Saving
  <2>9. HealthyIsDurable'
    <3>1. disk[target] = l
      BY <1>1 DEF TokenInv, FilesWhole, Whole
    <3>2. \A m \in Logins : login'[m].result = "Healthy" => m <= l
      BY <2>2, <2>3 DEF TokenInv, OneAtATime
    <3> QED BY <2>1, <3>1, <3>2 DEF TokenInv, EntriesApart, HealthyIsDurable
  <2> QED BY <2>4, <2>5, <2>6, <2>7, <2>8, <2>9 DEF TokenInv
<1> QED BY <1>2, <1>3

LEMMA LoginDiesKeeps ==
  ASSUME TokenTypeOK, TokenInv, NEW l \in Logins, LoginDies(l)
  PROVE  TokenTypeOK' /\ TokenInv'
<1>1. l \in Active /\ UNCHANGED <<data, disk, tmp, target, dtarget, fd, accepted>>
  BY DEF LoginDies, fsVars
<1>2. /\ login' \in [Logins -> LoginState]
      /\ \A m \in Logins : m # l => login'[m] = login[m]
      /\ login'[l].at = "done" /\ login'[l].result = "died"
      /\ login'[l].kotak = login[l].kotak /\ login'[l].view = login[l].view
      /\ login'[l].final = login[l].final
  BY Returned DEF LoginDies
<1>3. TokenInv'
  BY <1>1, <1>2, EndKeepsInv
<1>4. TokenTypeOK'
  BY <1>1, <1>2 DEF TokenTypeOK
<1> QED BY <1>3, <1>4

(* A power loss keeps what is synced, and either of the two names.         *)
LEMMA PowerLossKeeps ==
  ASSUME TokenTypeOK, TokenInv, PowerLoss
  PROVE  TokenTypeOK' /\ TokenInv'
<1> USE LoginsAreInodes
<1>1. /\ data' \in [Inodes -> Content] /\ disk' = data'
      /\ target' \in {target, dtarget} /\ dtarget' = target'
      /\ UNCHANGED <<fd, accepted>>
  BY DEF PowerLoss
<1>2. \A i \in Inodes : data[i] = disk[i] => data'[i] = disk[i]
  BY DEF PowerLoss
<1>3. tmp' = NoFile \/ (tmp' = tmp /\ target' = target) \/ (tmp' = target /\ target' # target)
  BY DEF PowerLoss
<1>4. \A l \in Logins : IF l \in Active THEN /\ login'[l].at = "done" /\ login'[l].result = "died"
                                             /\ login'[l].kotak = login[l].kotak
                                             /\ login'[l].view = login[l].view
                                             /\ login'[l].final = login[l].final
                                        ELSE login'[l] = login[l]
  <2> SUFFICES ASSUME NEW l \in Logins
               PROVE  IF l \in Active THEN /\ login'[l].at = "done" /\ login'[l].result = "died"
                                           /\ login'[l].kotak = login[l].kotak
                                           /\ login'[l].view = login[l].view
                                           /\ login'[l].final = login[l].final
                                      ELSE login'[l] = login[l]
    OBVIOUS
  <2>1. login[l] \in LoginState
    BY DEF TokenTypeOK
  <2>2. login'[l] = IF l \in Active THEN [login[l] EXCEPT !.at = "done", !.result = "died"]
                                    ELSE login[l]
    BY DEF PowerLoss
  <2> HIDE DEF Active
  <2> QED BY <2>1, <2>2 DEF LoginState
<1>5. login' \in [Logins -> LoginState]
  <2> DEFINE G(l) == IF l \in Active THEN [login[l] EXCEPT !.at = "done", !.result = "died"]
                                     ELSE login[l]
  <2>1. login' = [l \in Logins |-> G(l)]
    BY DEF PowerLoss
  <2>2. ASSUME NEW l \in Logins PROVE G(l) \in LoginState
    <3>1. login[l] \in LoginState
      BY DEF TokenTypeOK
    <3> QED BY <3>1 DEF LoginState
  <2> HIDE DEF G
  <2> QED BY <2>1, <2>2
<1>6. TokenTypeOK'
  <2>1. {tmp', target', dtarget'} \subseteq Inodes \cup {NoFile}
    BY <1>1, <1>3 DEF TokenTypeOK
  <2> QED BY <1>1, <1>5, <2>1 DEF TokenTypeOK
<1>7. Active' = {}
  BY <1>4 DEF Active
<1>8. \A l \in Logins : login'[l].at = "idle" <=> login[l].at = "idle"
  BY <1>4 DEF Active
<1>9. OneAtATime'
  BY <1>4, <1>7, <1>8 DEF TokenInv, OneAtATime
<1>10. EntriesApart'
  <2>1. \A x \in Logins : login[x].at \in Past => login'[x].at \in Past
    BY <1>4 DEF Past
  <2>2. tmp' # target' /\ target' \in Inodes
    BY <1>1, <1>3 DEF TokenInv, EntriesApart
  <2>3. \A x \in {tmp', target'} : x \in Logins => login[x].at \in Past
    BY <1>1, <1>3 DEF TokenInv, EntriesApart
  <2> QED BY <1>1, <2>1, <2>2, <2>3 DEF EntriesApart
<1>11. \A i \in {target, dtarget} : data'[i] = data[i] /\ data[i] = disk[i]
  BY <1>2 DEF TokenInv, EntriesApart, FilesWhole, Whole
<1>12. FilesWhole'
  <2>1. \A x \in Logins : Usable(login[x]) => Usable(login'[x])
    BY <1>4 DEF Usable, Active
  <2>2. Whole(target)'
    BY <1>1, <1>11, <2>1 DEF TokenInv, FilesWhole, Whole
  <2>3. data'[target'] \in Nat
    BY <2>2 DEF Whole
  <2>4. Whole(dtarget)'
    BY <1>1, <2>2 DEF Whole
  <2>5. data'[dtarget'] <= data'[target']
    BY <1>1, <2>3
  <2> QED BY <2>2, <2>4, <2>5 DEF FilesWhole
<1>13. SaveIsOnCourse'
  <2>1. \A m \in Logins : login'[m].at \notin Saving \cup {"kite"}
    BY <1>7 DEF Active, Saving
  <2> QED BY <2>1 DEF SaveIsOnCourse, Saving
<1>14. HealthyIsDurable'
  <2>1. \A l \in Logins : login'[l].result = "Healthy" => login[l].result = "Healthy"
    BY <1>4
  <2>2. \A l \in Logins : login'[l].result = "Healthy" => disk[dtarget] >= l
    BY <2>1 DEF TokenInv, HealthyIsDurable
  <2>3. disk[dtarget] \in Nat /\ disk[target] \in Nat /\ disk[dtarget] <= disk[target]
    BY DEF TokenInv, FilesWhole, Whole
  <2>4. /\ disk[dtarget] \in Nat /\ disk'[dtarget'] \in Nat
        /\ disk'[dtarget'] >= disk[dtarget]
    BY <1>1, <1>11, <2>3
  <2>5. dtarget' # NoFile
    BY <1>1 DEF TokenInv, EntriesApart
  <2> QED BY <2>2, <2>4, <2>5 DEF HealthyIsDurable
<1> QED BY <1>6, <1>9, <1>10, <1>12, <1>13, <1>14 DEF TokenInv

LEMMA TokenUnchanged ==
  ASSUME TokenTypeOK, TokenInv, UNCHANGED <<fsVars, login, fd>>, accepted' \subseteq Inodes
  PROVE  TokenTypeOK' /\ TokenInv'
<1>1. UNCHANGED <<data, disk, tmp, target, dtarget, login, fd>>
  BY DEF fsVars
<1>2. TokenTypeOK'
  BY <1>1 DEF TokenTypeOK
<1>3. TokenInv'
  BY <1>1 DEF TokenInv, OneAtATime, EntriesApart, FilesWhole, Whole, SaveIsOnCourse,
              HealthyIsDurable, Active
<1> QED BY <1>2, <1>3

(* Every step leaves the token alone, or is one of a login, the end of the *)
(* day or a power loss.                                                    *)
LEMMA TokenNext ==
  ASSUME [Next]_vars
  PROVE  \/ UNCHANGED tokenVars
         \/ \E l \in Logins, b \in {"kite", "kotak"}, s \in BOOLEAN : Establish(l, b, s)
         \/ \E l \in Logins : LoginStep(l)
         \/ \E l \in Logins : LoginDies(l)
         \/ TokenExpires
         \/ PowerLoss
<1>1. CASE Login
  BY <1>1 DEF Login
<1>2. CASE HostFails
  BY <1>2 DEF HostFails
<1>3. CASE BootStep
  BY <1>3 DEF BootStep, MainConfigure, MainEnsure, MainStore, BootConfigure, BootEnsure,
     OpenLedger, EstablishSession, SafeStart, ComposeBroker, ComposeEngine, PublishHealth,
     StartHealthEndpoint, Take
<1>4. CASE RunEnds \/ Trade \/ Killed \/ Restart \/ OperatorStarts \/ Tick \/ Healthy
           \/ OperatorAcknowledges \/ Breaks \/ Repairs
  BY <1>4 DEF RunEnds, Trade, Killed, Restart, OperatorStarts, Start, Tick, Healthy,
     OperatorAcknowledges, Breaks, Repairs
<1>5. CASE UNCHANGED vars
  BY <1>5 DEF vars
<1> QED BY <1>1, <1>2, <1>3, <1>4, <1>5 DEF Next

LEMMA TokenStepKeeps ==
  ASSUME AtOnce = 1, TokenTypeOK, TokenInv, [Next]_vars
  PROVE  TokenTypeOK' /\ TokenInv'
<1>1. CASE UNCHANGED tokenVars
  BY <1>1, TokenUnchanged DEF tokenVars, TokenTypeOK
<1>2. ASSUME NEW l \in Logins, NEW b \in {"kite", "kotak"}, NEW s \in BOOLEAN, Establish(l, b, s)
      PROVE  TokenTypeOK' /\ TokenInv'
  BY <1>2, EstablishKeeps
<1>3. ASSUME NEW l \in Logins, LoginStep(l) PROVE TokenTypeOK' /\ TokenInv'
  BY <1>3, LegsKeep, OpenKeeps, WriteKeeps, SyncKeeps, RestrictKeeps, RenameKeeps, DirSyncKeeps
     DEF LoginStep, Save
<1>4. ASSUME NEW l \in Logins, LoginDies(l) PROVE TokenTypeOK' /\ TokenInv'
  BY <1>4, LoginDiesKeeps
<1>5. CASE TokenExpires
  BY <1>5, TokenUnchanged DEF TokenExpires
<1>6. CASE PowerLoss
  BY <1>6, PowerLossKeeps
<1> QED BY <1>1, <1>2, <1>3, <1>4, <1>5, <1>6, TokenNext

LEMMA TokenInvMeansSafe == TokenTypeOK /\ TokenInv => TokenIsSafe
<1> SUFFICES ASSUME TokenTypeOK, TokenInv PROVE TokenIsSafe
  OBVIOUS
<1> USE LoginsAreInodes
<1>1. target \in Inodes /\ data[target] \in Inodes
  BY DEF TokenInv, EntriesApart, FilesWhole, Whole
<1>2. TokenNeverTorn
  <2>1. data[target] \in Nat /\ target # NoFile
    BY <1>1
  <2>2. data[target] >= 0
    BY <2>1
  <2> QED BY <2>1, <2>2 DEF TokenNeverTorn, Loads
<1>3. StoredSessionIsUsable
  <2> SUFFICES ASSUME Loads, loaded # 0
               PROVE  /\ login[loaded].result # "Failed"
                      /\ login[loaded].kotak =>
                           \E a, b \in {login[loaded].view, login[loaded].final} : a.sid /\ b.hs
    BY DEF StoredSessionIsUsable
  <2>1. loaded \in Logins /\ Usable(login[loaded])
    BY <1>1 DEF loaded, TokenInv, FilesWhole, Whole
  <2> QED BY <2>1 DEF Usable, complete
<1> QED BY <1>2, <1>3 DEF TokenIsSafe, TokenInv

(* For any number of logins, one at a time, with deaths and power losses   *)
(* at every step of TokenStore::save: the token file is always whole, a    *)
(* login that reported Healthy is not undone, and no half-made session is  *)
(* stored.                                                                 *)
THEOREM TokenFileIsSafe == AtOnce = 1 => (Spec => []TokenIsSafe)
<1> SUFFICES ASSUME AtOnce = 1 PROVE Spec => []TokenIsSafe
  OBVIOUS
<1>1. Init => TokenTypeOK /\ TokenInv
  BY TokenInitially DEF Init
<1>2. TokenTypeOK /\ TokenInv /\ [Next]_vars => (TokenTypeOK /\ TokenInv)'
  BY TokenStepKeeps
<1> QED BY <1>1, <1>2, TokenInvMeansSafe, PTL DEF Spec

-----------------------------------------------------------------------------
(* Natural numbers: a set that is not empty has a least element, and a     *)
(* value for 0 with a step for every n makes a function.                   *)
LEMMA LeastNat ==
  ASSUME NEW S \in SUBSET Nat, S # {}
  PROVE  \E m \in S : \A k \in S : m <= k
<1>1. PICK m \in S : \A k \in Nat : <<k, m>> \in OpToRel(<, Nat) => k \notin S
  BY WFMin, NatLessThanWellFounded
<1>2. \A k \in S : ~(k < m)
  BY <1>1 DEF OpToRel
<1> QED BY <1>2

StepsWithin(g, S) == g \in [Nat -> [S -> S]]
Unrolls(f, a, g, S) == /\ f \in [Nat -> S] /\ f[0] = a
                       /\ \A n \in Nat : f[n + 1] = g[n][f[n]]

LEMMA Recursion ==
  ASSUME NEW S, NEW a, NEW g, a \in S, StepsWithin(g, S)
  PROVE  \E f : Unrolls(f, a, g, S)
<1> USE DEF StepsWithin
<1> DEFINE Upto(n, h) == /\ h \in [0 .. n -> S] /\ h[0] = a
                         /\ \A i \in 1 .. n : h[i] = g[i - 1][h[i - 1]]
<1>0. \A n \in Nat, x \in S : g[n][x] \in S
  OBVIOUS
<1>1. \A n \in Nat : \E h : Upto(n, h)
  <2> SUFFICES ASSUME NEW n0 \in Nat, ~ \E h : Upto(n0, h) PROVE FALSE
    OBVIOUS
  <2> DEFINE Bad == {n \in Nat : ~ \E h : Upto(n, h)}
  <2>1. PICK m \in Bad : \A k \in Bad : m <= k
    <3>1. Bad \in SUBSET Nat /\ Bad # {}
      OBVIOUS
    <3> HIDE DEF Bad
    <3> QED BY <3>1, LeastNat
  <2>2. m # 0
    <3>1. Upto(0, [i \in 0 .. 0 |-> a])
      OBVIOUS
    <3> QED BY <3>1
  <2>3. m - 1 \in Nat /\ m - 1 \notin Bad
    <3>1. m \in Nat
      OBVIOUS
    <3> HIDE DEF Bad
    <3>2. m - 1 \in Nat /\ ~(m <= m - 1)
      BY <2>2, <3>1
    <3> QED BY <2>1, <3>2
  <2>4. PICK h : Upto(m - 1, h)
    BY <2>3
  <2> DEFINE k == [i \in 0 .. m |-> IF i = m THEN g[m - 1][h[m - 1]] ELSE h[i]]
  <2>5. k[m] = g[m - 1][h[m - 1]] /\ \A i \in 0 .. m - 1 : k[i] = h[i]
    BY <2>2, <2>3
  <2>6. k \in [0 .. m -> S]
    <3>1. h[m - 1] \in S /\ g[m - 1][h[m - 1]] \in S
      BY <1>0, <2>3, <2>4
    <3> QED BY <2>3, <2>4, <3>1
  <2>7. k[0] = a
    BY <2>2, <2>3, <2>4, <2>5
  <2>8. ASSUME NEW i \in 1 .. m PROVE k[i] = g[i - 1][k[i - 1]]
    <3>1. k[i - 1] = h[i - 1]
      BY <2>3, <2>5
    <3>2. CASE i = m
      BY <2>5, <3>1, <3>2
    <3>3. CASE i # m
      <4>1. i \in 1 .. m - 1 /\ i \in 0 .. m - 1
        BY <3>3
      <4> QED BY <2>4, <2>5, <3>1, <4>1
    <3> QED BY <3>2, <3>3
  <2> HIDE DEF k
  <2>9. Upto(m, k)
    BY <2>6, <2>7, <2>8
  <2> QED BY <2>1, <2>9
<1>2. ASSUME NEW n \in Nat, NEW m \in Nat, NEW h, NEW k, Upto(n, h), Upto(m, k),
             NEW j \in 0 .. n, j \in 0 .. m
      PROVE  h[j] = k[j]
  <2> SUFFICES ASSUME h[j] # k[j] PROVE FALSE
    OBVIOUS
  <2> DEFINE Diff == {i \in Nat : i <= j /\ h[i] # k[i]}
  <2>1. PICK i \in Diff : \A x \in Diff : i <= x
    <3>1. Diff \in SUBSET Nat /\ j \in Diff
      OBVIOUS
    <3> HIDE DEF Diff
    <3> QED BY <3>1, LeastNat
  <2>2. i # 0
    BY <1>2
  <2>3. i - 1 \in Nat /\ i - 1 \notin Diff
    BY <2>1, <2>2
  <2>4. i \in Nat /\ i <= j /\ h[i] # k[i]
    OBVIOUS
  <2>5. i \in 1 .. n /\ i \in 1 .. m /\ i - 1 <= j
    BY <1>2, <2>2, <2>4
  <2>6. h[i - 1] = k[i - 1]
    BY <2>3, <2>5
  <2>7. h[i] = g[i - 1][h[i - 1]] /\ k[i] = g[i - 1][k[i - 1]]
    BY <1>2, <2>5
  <2> QED BY <2>4, <2>6, <2>7
<1> DEFINE H(n) == CHOOSE h : Upto(n, h)
           f == [n \in Nat |-> H(n)[n]]
<1>3. \A n \in Nat : Upto(n, H(n))
  BY <1>1
<1> HIDE DEF H
<1>4. f \in [Nat -> S]
  BY <1>3
<1>5. f[0] = a
  BY <1>3
<1>6. ASSUME NEW n \in Nat PROVE f[n + 1] = g[n][f[n]]
  <2>1. n + 1 \in Nat /\ n + 1 \in 1 .. n + 1 /\ n \in 0 .. n /\ n \in 0 .. n + 1 /\ n + 1 - 1 = n
    OBVIOUS
  <2>2. Upto(n + 1, H(n + 1)) /\ Upto(n, H(n))
    BY <1>3, <2>1
  <2>3. H(n + 1)[n + 1] = g[n][H(n + 1)[n]]
    BY <2>1, <2>2
  <2>4. H(n + 1)[n] = H(n)[n]
    <3> DEFINE p == H(n + 1)
               q == H(n)
               m == n + 1
    <3>1. Upto(m, p) /\ Upto(n, q) /\ m \in Nat /\ n \in 0 .. m /\ n \in 0 .. n
      BY <2>1, <2>2
    <3> HIDE DEF Upto, p, q, m
    <3>2. p[n] = q[n]
      BY <1>2, <3>1
    <3> QED BY <3>2 DEF p, q, m
  <2> QED BY <2>1, <2>3, <2>4
<1> HIDE DEF f
<1>7. Unrolls(f, a, g, S)
  BY <1>4, <1>5, <1>6 DEF Unrolls
<1> QED BY <1>7

-----------------------------------------------------------------------------
(* The supervisor.                                                         *)
LEMMA BackoffSettings == /\ backoff_base \in Nat /\ backoff_base >= 1
                         /\ backoff_cap \in Nat /\ backoff_cap >= backoff_base
BY BackoffAssumption DEF backoff_base, backoff_cap

LEMMA BackoffIs ==
  backoff = [n \in Nat |-> IF n <= 1 THEN backoff_base
                           ELSE IF 2 * backoff[n - 1] >= backoff_cap THEN backoff_cap
                           ELSE 2 * backoff[n - 1]]
<1> DEFINE Twice(x) == IF 2 * x >= backoff_cap THEN backoff_cap ELSE 2 * x
           g == [n \in Nat |-> [x \in Nat |-> IF n = 0 THEN backoff_base ELSE Twice(x)]]
           F(h) == [n \in Nat |-> IF n <= 1 THEN backoff_base
                                  ELSE IF 2 * h[n - 1] >= backoff_cap THEN backoff_cap
                                  ELSE 2 * h[n - 1]]
<1>1. g \in [Nat -> [Nat -> Nat]] /\ \A n, x \in Nat : g[n][x] = IF n = 0 THEN backoff_base ELSE Twice(x)
  BY BackoffSettings
<1> HIDE DEF g
<1>2. PICK f \in [Nat -> Nat] : f[0] = backoff_base /\ \A n \in Nat : f[n + 1] = g[n][f[n]]
  <2>1. StepsWithin(g, Nat) /\ backoff_base \in Nat
    BY <1>1, BackoffSettings DEF StepsWithin
  <2>2. PICK f : Unrolls(f, backoff_base, g, Nat)
    BY <2>1, Recursion
  <2> QED BY <2>2 DEF Unrolls
<1>3. \A n \in Nat : f[n] = IF n <= 1 THEN backoff_base ELSE Twice(f[n - 1])
  <2> SUFFICES ASSUME NEW n \in Nat
               PROVE  f[n] = IF n <= 1 THEN backoff_base ELSE Twice(f[n - 1])
    OBVIOUS
  <2>1. CASE n = 0
    BY <1>2, <2>1
  <2>2. CASE n # 0
    <3>1. n - 1 \in Nat /\ (n - 1) + 1 = n /\ (n - 1 = 0 <=> n <= 1)
      BY <2>2
    <3>2. f[n] = g[n - 1][f[n - 1]] /\ f[n - 1] \in Nat
      BY <1>2, <3>1
    <3> QED BY <1>1, <3>1, <3>2
  <2> QED BY <2>1, <2>2
<1>4. f = F(f)
  BY <1>3
<1>5. backoff = CHOOSE h : h = F(h)
  BY DEF backoff
<1> HIDE DEF F
<1>6. backoff = F(backoff)
  BY <1>4, <1>5
<1> QED BY <1>6 DEF F

(* The delay before a restart is never zero and never above the cap,       *)
(* however long the crash loop.                                            *)
LEMMA BackoffIsBounded == \A n \in Nat : backoff[n] \in 1 .. backoff_cap
<1> SUFFICES ASSUME NEW n0 \in Nat, backoff[n0] \notin 1 .. backoff_cap PROVE FALSE
  OBVIOUS
<1> DEFINE Bad == {n \in Nat : backoff[n] \notin 1 .. backoff_cap}
<1>1. PICK m \in Bad : \A k \in Bad : m <= k
  <2>1. Bad \in SUBSET Nat /\ n0 \in Bad
    OBVIOUS
  <2> HIDE DEF Bad
  <2> QED BY <2>1, LeastNat
<1>2. backoff[m] = IF m <= 1 THEN backoff_base
                   ELSE IF 2 * backoff[m - 1] >= backoff_cap THEN backoff_cap
                   ELSE 2 * backoff[m - 1]
  BY <1>1, BackoffIs
<1>3. m > 1
  BY <1>1, <1>2, BackoffSettings
<1>4. backoff[m - 1] \in 1 .. backoff_cap
  BY <1>1, <1>3
<1> QED BY <1>1, <1>2, <1>3, <1>4, BackoffSettings

-----------------------------------------------------------------------------
(* The steps of the process, in order.                                     *)
LEMMA StepsAre ==
  /\ Len(Steps) = 25
  /\ Steps[1] = "m_config" /\ Steps[2] = "m_ensure" /\ Steps[3] = "m_store"
  /\ Steps[4] = "LoadConfig" /\ Steps[5] = "ensure" /\ Steps[6] = "pinned"
  /\ Steps[7] = "present" /\ Steps[8] = "chain" /\ Steps[9] = "checkpoint"
  /\ Steps[10] = "EstablishSession" /\ Steps[11] = "config" /\ Steps[12] = "strategy-names"
  /\ Steps[13] = "crypto-keys" /\ Steps[14] = "clock" /\ Steps[15] = "session"
  /\ Steps[16] = "egress-IP" /\ Steps[17] = "instrument-master" /\ Steps[18] = "calendar"
  /\ Steps[19] = "legacy-stops" /\ Steps[20] = "reconciliation"
  /\ Steps[21] = "ComposeBroker" /\ Steps[22] = "ComposeEngine"
  /\ Steps[23] = "PublishHealth" /\ Steps[24] = "StartHealthEndpoint" /\ Steps[25] = "Run"
BY DEF Steps, MainSteps, BootSteps, SafeChecks, LastSteps

LEMMA StepsDiffer == \A i, j \in 1 .. 25 : Steps[i] = Steps[j] => i = j
<1>1. \A i \in 1 .. 25 :
        \/ i = 1 \/ i = 2 \/ i = 3 \/ i = 4 \/ i = 5 \/ i = 6 \/ i = 7 \/ i = 8 \/ i = 9
        \/ i = 10 \/ i = 11 \/ i = 12 \/ i = 13 \/ i = 14 \/ i = 15 \/ i = 16 \/ i = 17
        \/ i = 18 \/ i = 19 \/ i = 20 \/ i = 21 \/ i = 22 \/ i = 23 \/ i = 24 \/ i = 25
  OBVIOUS
<1> QED BY <1>1, StepsAre

LEMMA PositionOf ==
  ASSUME NEW s, NEW k \in 1 .. 25, Steps[k] = s
  PROVE  Position(s) = k
<1>1. Position(s) = CHOOSE i \in 1 .. 25 : Steps[i] = s
  BY StepsAre DEF Position
<1>2. Position(s) \in 1 .. 25 /\ Steps[Position(s)] = s
  BY <1>1
<1> QED BY <1>2, StepsDiffer

(* Where a step that passed leads.                                         *)
After(s) == Steps[Position(s) + 1]

LEMMA AfterIs ==
  /\ After("m_config") = "m_ensure" /\ After("m_ensure") = "m_store"
  /\ After("m_store") = "LoadConfig" /\ After("LoadConfig") = "ensure"
  /\ After("ensure") = "pinned" /\ After("pinned") = "present" /\ After("present") = "chain"
  /\ After("chain") = "checkpoint" /\ After("checkpoint") = "EstablishSession"
  /\ After("EstablishSession") = "config" /\ After("config") = "strategy-names"
  /\ After("strategy-names") = "crypto-keys" /\ After("crypto-keys") = "clock"
  /\ After("clock") = "session" /\ After("session") = "egress-IP"
  /\ After("egress-IP") = "instrument-master" /\ After("instrument-master") = "calendar"
  /\ After("calendar") = "legacy-stops" /\ After("legacy-stops") = "reconciliation"
  /\ After("reconciliation") = "ComposeBroker" /\ After("ComposeBroker") = "ComposeEngine"
  /\ After("ComposeEngine") = "PublishHealth"
  /\ After("PublishHealth") = "StartHealthEndpoint" /\ After("StartHealthEndpoint") = "Run"
<1>1. ASSUME NEW s, NEW k \in 1 .. 24, Steps[k] = s PROVE After(s) = Steps[k + 1]
  BY <1>1, PositionOf DEF After
<1>2. After("m_config") = "m_ensure"
  BY <1>1, StepsAre
<1>3. After("m_ensure") = "m_store"
  BY <1>1, StepsAre
<1>4. After("m_store") = "LoadConfig"
  BY <1>1, StepsAre
<1>5. After("LoadConfig") = "ensure"
  BY <1>1, StepsAre
<1>6. After("ensure") = "pinned"
  BY <1>1, StepsAre
<1>7. After("pinned") = "present"
  BY <1>1, StepsAre
<1>8. After("present") = "chain"
  BY <1>1, StepsAre
<1>9. After("chain") = "checkpoint"
  BY <1>1, StepsAre
<1>10. After("checkpoint") = "EstablishSession"
  BY <1>1, StepsAre
<1>11. After("EstablishSession") = "config"
  BY <1>1, StepsAre
<1>12. After("config") = "strategy-names"
  BY <1>1, StepsAre
<1>13. After("strategy-names") = "crypto-keys"
  BY <1>1, StepsAre
<1>14. After("crypto-keys") = "clock"
  BY <1>1, StepsAre
<1>15. After("clock") = "session"
  BY <1>1, StepsAre
<1>16. After("session") = "egress-IP"
  BY <1>1, StepsAre
<1>17. After("egress-IP") = "instrument-master"
  BY <1>1, StepsAre
<1>18. After("instrument-master") = "calendar"
  BY <1>1, StepsAre
<1>19. After("calendar") = "legacy-stops"
  BY <1>1, StepsAre
<1>20. After("legacy-stops") = "reconciliation"
  BY <1>1, StepsAre
<1>21. After("reconciliation") = "ComposeBroker"
  BY <1>1, StepsAre
<1>22. After("ComposeBroker") = "ComposeEngine"
  BY <1>1, StepsAre
<1>23. After("ComposeEngine") = "PublishHealth"
  BY <1>1, StepsAre
<1>24. After("PublishHealth") = "StartHealthEndpoint"
  BY <1>1, StepsAre
<1>25. After("StartHealthEndpoint") = "Run"
  BY <1>1, StepsAre
<1> QED BY <1>2, <1>3, <1>4, <1>5, <1>6, <1>7, <1>8, <1>9, <1>10, <1>11, <1>12, <1>13, <1>14,
           <1>15, <1>16, <1>17, <1>18, <1>19, <1>20, <1>21, <1>22, <1>23, <1>24, <1>25

-----------------------------------------------------------------------------
(* What the supervisor makes of an exit.                                   *)
Classes == {"Clean", "FailClosedNeedsHuman", "Crash"}

LEMMA ReasonOf ==
  /\ exit_reason_from_code(exit_code_for("Clean")) = "CleanShutdown"
  /\ exit_reason_from_code(exit_code_for("FailClosedNeedsHuman")) = "FailClosedNeedsHuman"
  /\ exit_reason_from_code(exit_code_for("Crash")) = "Crash"
<1>1. /\ exit_code_for("Clean") = 0 /\ exit_code_for("Crash") = 1
      /\ exit_code_for("FailClosedNeedsHuman") = 70
  BY DEF exit_code_for, kExitClean, kExitFailClosedNeedsHuman, kExitCrash
<1>2. /\ exit_reason_from_code(0) = "CleanShutdown" /\ exit_reason_from_code(1) = "Crash"
      /\ exit_reason_from_code(70) = "FailClosedNeedsHuman"
  BY DEF exit_reason_from_code, kExitClean, kExitFailClosedNeedsHuman
<1> QED BY <1>1, <1>2

LEMMA Decided ==
  ASSUME NEW n \in Nat
  PROVE  /\ decide("CleanShutdown", n) = [action |-> "NoRestartCleanShutdown", alarm |-> FALSE]
         /\ decide("FailClosedNeedsHuman", n) = [action |-> "NoRestartEscalate", alarm |-> TRUE]
         /\ decide("Crash", n) = IF n > MaxRestarts
                                 THEN [action |-> "NoRestartEscalate", alarm |-> TRUE]
                                 ELSE [action |-> "RestartWithBackoff", alarm |-> FALSE]
BY DEF decide

(* An account that is down because its process ended has a restart coming, *)
(* unless it stopped cleanly or the alarm stands.                          *)
LEMMA ExitIsSupervised ==
  ASSUME SupTypeOK, NEW c \in Classes, on_exit(exit_code_for(c))
  PROVE  /\ SupTypeOK' /\ sup'.down
         /\ sup'.reason = "FailClosedNeedsHuman" => sup'.due = NotDue
         /\ sup'.reason # "CleanShutdown" => sup'.due # NotDue \/ sup'.alarm
<1> DEFINE r == exit_reason_from_code(exit_code_for(c))
           n == CASE r = "Crash" -> sup.crashes + 1
                  [] r = "CleanShutdown" -> 0
                  [] OTHER -> sup.crashes
           d == decide(r, n)
<1>1. r \in Reasons
  BY ReasonOf DEF Classes, Reasons
<1>2. sup' = [crashes |-> n, down |-> TRUE, alarm |-> sup.alarm \/ d.alarm,
              escalated |-> sup.escalated \/ d.action = "NoRestartEscalate",
              due |-> IF d.action = "RestartWithBackoff" THEN backoff_for(n) ELSE NotDue,
              reason |-> r]
  BY DEF on_exit
<1>3. sup.crashes \in Nat
  BY DEF SupTypeOK
<1>4. n \in Nat
  BY <1>1, <1>3 DEF Reasons
<1> HIDE DEF n, r
<1>5. backoff_for(n) \in 1 .. backoff_cap
  BY <1>4, BackoffIsBounded DEF backoff_for
<1>6. backoff_for(n) # NotDue
  BY <1>5, BackoffSettings DEF NotDue
<1>7. /\ r = "CleanShutdown" => d.action = "NoRestartCleanShutdown"
      /\ r = "FailClosedNeedsHuman" => d.action = "NoRestartEscalate" /\ d.alarm
      /\ r = "Crash" => d.action = "RestartWithBackoff" \/ (d.action = "NoRestartEscalate" /\ d.alarm)
      /\ d.alarm \in BOOLEAN
  <2>1. CASE r = "CleanShutdown"
    <3>1. d = [action |-> "NoRestartCleanShutdown", alarm |-> FALSE]
      BY <1>4, <2>1, Decided
    <3> HIDE DEF d
    <3> QED BY <2>1, <3>1
  <2>2. CASE r = "FailClosedNeedsHuman"
    <3>1. d = [action |-> "NoRestartEscalate", alarm |-> TRUE]
      BY <1>4, <2>2, Decided
    <3> HIDE DEF d
    <3> QED BY <2>2, <3>1
  <2>3. CASE r = "Crash"
    <3>1. \/ d = [action |-> "NoRestartEscalate", alarm |-> TRUE]
          \/ d = [action |-> "RestartWithBackoff", alarm |-> FALSE]
      BY <1>4, <2>3, Decided
    <3> HIDE DEF d
    <3>2. CASE d = [action |-> "NoRestartEscalate", alarm |-> TRUE]
      BY <2>3, <3>2
    <3>3. CASE d = [action |-> "RestartWithBackoff", alarm |-> FALSE]
      BY <2>3, <3>3
    <3> QED BY <3>1, <3>2, <3>3
  <2> QED BY <1>1, <2>1, <2>2, <2>3 DEF Reasons
<1> HIDE DEF d
<1>8. SupTypeOK'
  <2>1. sup'.due \in {NotDue} \cup 0 .. backoff_cap
    BY <1>2, <1>5, BackoffSettings
  <2> QED BY <1>1, <1>2, <1>4, <1>7, <2>1 DEF SupTypeOK
<1>9. sup'.down /\ sup'.reason = r
  BY <1>2
<1>10. r = "FailClosedNeedsHuman" => sup'.due = NotDue
  BY <1>2, <1>7
<1>11. r # "CleanShutdown" => sup'.due # NotDue \/ sup'.alarm
  BY <1>1, <1>2, <1>6, <1>7 DEF Reasons
<1> QED BY <1>8, <1>9, <1>10, <1>11

(* The supervisor knows whether the process runs, waits only for one that  *)
(* is down, and for none that failed closed.                               *)
SupInv ==
    /\ at = "down" <=> sup.down
    /\ ~sup.down => sup.due = NotDue
    /\ sup.reason = "FailClosedNeedsHuman" => sup.due = NotDue
    /\ NeverSilentlyAbsent

LEMMA EndsKeeps ==
  ASSUME SupTypeOK, NEW c \in Classes, Ends(c)
  PROVE  SupTypeOK' /\ SupInv'
BY ExitIsSupervised DEF Ends, SupInv, NeverSilentlyAbsent

LEMMA ExitClasses ==
  /\ \A e : exit_class_for(e) \in Classes
  /\ "Clean" \in Classes /\ "FailClosedNeedsHuman" \in Classes /\ "Crash" \in Classes
BY DEF exit_class_for, Classes

(* The steps Take may take.                                                *)
Takes == {"m_ensure", "m_store", "ensure", "pinned", "present", "chain", "checkpoint",
          "EstablishSession", "config", "strategy-names", "crypto-keys", "clock", "session",
          "egress-IP", "instrument-master", "calendar", "legacy-stops", "reconciliation",
          "ComposeBroker", "ComposeEngine", "PublishHealth", "StartHealthEndpoint"}

(* Every step of boot is one of three: the configuration of main, that of  *)
(* boot, or one that passes or stops, with the code's verdict on the rows; *)
(* the opening of the store may have dropped them.                         *)
Resets == rows' = {} /\ faults' \subseteq faults /\ lost' = (lost \/ open # {})
Passes(s) ==
    /\ at = s /\ Continues /\ UNCHANGED <<main, boot>>
    /\ UNCHANGED <<tokenVars, conf, open, left>>
    /\ UNCHANGED <<faults, rows, lost>> \/ (s = "m_store" /\ Resets)
    /\ s = "legacy-stops" => "LegacyStop" \notin rows
    /\ s = "reconciliation" => rows \cap {"Sent", "Unknown"} = {}
Stops == /\ at # "down" /\ \E c \in Classes : Ends(c)
         /\ UNCHANGED <<tokenVars, worldVars, left>>

LEMMA Taking ==
  ASSUME NEW s \in Takes, NEW v, NEW c \in Classes, Take(s, v, c),
         s = "legacy-stops" => v = require_no_legacy_stops,
         s = "reconciliation" => v = require_no_unreconciled_orders
  PROVE  Passes(s) \/ Stops
<1>1. CASE v.ok
  <2>1. /\ at = s /\ Continues /\ UNCHANGED <<main, boot>>
        /\ UNCHANGED <<tokenVars, conf, open, left>> /\ UNCHANGED <<faults, rows, lost>>
    BY <1>1 DEF Take, worldVars, orderVars
  <2>2. s = "legacy-stops" => "LegacyStop" \notin rows
    BY <1>1 DEF require_no_legacy_stops, Unless, blocking, Fail, is_legacy_trigger_less_stop
  <2>3. s = "reconciliation" => rows \cap {"Sent", "Unknown"} = {}
    BY <1>1 DEF require_no_unreconciled_orders, Unless, blocking, Fail, is_unreconciled
  <2> QED BY <2>1, <2>2, <2>3 DEF Passes
<1>2. CASE ~v.ok
  BY <1>2 DEF Take, Stops, Takes
<1> QED BY <1>1, <1>2

LEMMA BootSteppings ==
  ASSUME BootStep
  PROVE  MainConfigure \/ BootConfigure \/ (\E s \in Takes : Passes(s)) \/ Stops
<1> USE ExitClasses DEF Takes
<1>1. CASE MainEnsure \/ BootEnsure \/ OpenLedger \/ EstablishSession
  BY <1>1, Taking DEF MainEnsure, BootEnsure, OpenLedger, EstablishSession
<1>4. CASE MainStore
  <2>1. CASE ~open_or_rebuild.ok
    BY <1>4, <2>1 DEF MainStore, Stops
  <2>2. CASE open_or_rebuild.ok
    <3>1. open_or_rebuild = [ok |-> TRUE, needs_rebuild |-> "damaged" \in faults]
      BY <2>2 DEF open_or_rebuild, Fail
    <3>2. /\ at = "m_store" /\ Continues /\ UNCHANGED <<main, boot>>
          /\ UNCHANGED <<tokenVars, conf, open, left>>
          /\ UNCHANGED <<faults, rows, lost>> \/ Resets
      <4>1. CASE "damaged" \in faults
        BY <1>4, <2>2, <3>1, <4>1 DEF MainStore, Resets
      <4>2. CASE "damaged" \notin faults
        BY <1>4, <2>2, <3>1, <4>2 DEF MainStore, worldVars, orderVars
      <4> QED BY <4>1, <4>2
    <3>3. Passes("m_store")
      BY <3>2 DEF Passes
    <3> QED BY <3>3
  <2> QED BY <2>1, <2>2
<1>2. CASE ComposeBroker \/ ComposeEngine \/ PublishHealth \/ StartHealthEndpoint
  <2>1. PICK s \in {"ComposeBroker", "ComposeEngine", "PublishHealth", "StartHealthEndpoint"} :
          \E v : \E c \in Classes : Take(s, v, c)
    <3>1. CASE ComposeBroker
      BY <3>1 DEF ComposeBroker
    <3>2. CASE ComposeEngine
      BY <3>2 DEF ComposeEngine
    <3>3. CASE PublishHealth
      BY <3>3 DEF PublishHealth
    <3>4. CASE StartHealthEndpoint
      BY <3>4 DEF StartHealthEndpoint
    <3> QED BY <1>2, <3>1, <3>2, <3>3, <3>4
  <2> QED BY <2>1, Taking
<1>3. CASE SafeStart
  <2>1. PICK i \in 1 .. Len(SafeChecks) :
          Take(SafeChecks[i], SafeVerdict(SafeChecks[i]), "FailClosedNeedsHuman")
    BY <1>3 DEF SafeStart
  <2>2. SafeChecks[i] \in Takes
    BY DEF SafeChecks
  <2>3. /\ SafeVerdict("legacy-stops") = require_no_legacy_stops
        /\ SafeVerdict("reconciliation") = require_no_unreconciled_orders
    BY DEF SafeVerdict
  <2> QED BY <2>1, <2>2, <2>3, Taking
<1> QED BY <1>1, <1>2, <1>3, <1>4 DEF BootStep

LEMMA AfterTakes ==
  ASSUME NEW s \in Takes
  PROVE  /\ After(s) # "down" /\ After(s) \in {Steps[i] : i \in 1 .. Len(Steps)}
         /\ After(s) \in {"m_store", "LoadConfig"} <=> s \in {"m_ensure", "m_store"}
         /\ After(s) \notin {"m_config", "m_ensure"}
         /\ After(s) = "reconciliation" => s = "legacy-stops"
         /\ After(s) \in Verified => s = "reconciliation" \/ s \in Verified
<1>1. /\ After(s) # "down"
      /\ After(s) \in {"m_store", "LoadConfig"} <=> s \in {"m_ensure", "m_store"}
      /\ After(s) \notin {"m_config", "m_ensure"}
      /\ After(s) = "reconciliation" => s = "legacy-stops"
      /\ After(s) \in Verified => s = "reconciliation" \/ s \in Verified
  BY AfterIs DEF Takes, Verified
<1>2. \E k \in 1 .. 24 : Steps[k] = s
  BY StepsAre DEF Takes
<1>3. \E k \in 1 .. 24 : After(s) = Steps[k + 1]
  BY <1>2, PositionOf DEF After
<1>4. After(s) \in {Steps[i] : i \in 1 .. Len(Steps)}
  <2>1. PICK k \in 1 .. 24 : After(s) = Steps[k + 1]
    BY <1>3
  <2>2. k + 1 \in 1 .. Len(Steps)
    BY StepsAre
  <2> QED BY <2>1, <2>2
<1> QED BY <1>1, <1>4

(* A step of the whole, as the process and the supervisor see it.          *)
Rests == /\ UNCHANGED <<sup, procVars>>
         /\ UNCHANGED rows \/ at \in {"down", "Run"}
Dies == /\ sup' = Registered /\ at' = "down" /\ UNCHANGED <<main, boot, byHuman, worldVars>>
ProcNext ==
    \/ Rests \/ Dies
    \/ MainConfigure \/ BootConfigure \/ \E s \in Takes : Passes(s)
    \/ at # "down" /\ UNCHANGED worldVars /\ \E c \in Classes : Ends(c)
    \/ Restart \/ OperatorStarts \/ Tick \/ Healthy \/ OperatorAcknowledges

LEMMA ProcSteps == ASSUME [Next]_vars PROVE ProcNext
<1>1. CASE BootStep
  BY <1>1, BootSteppings DEF ProcNext, Stops
<1>2. CASE RunEnds
  <2>1. \E c \in Classes : Ends(c)
    BY <1>2, ExitClasses DEF RunEnds
  <2> QED BY <1>2, <2>1 DEF RunEnds, ProcNext
<1>3. CASE Killed
  BY <1>3, ExitClasses DEF Killed, ProcNext
<1>4. CASE HostFails
  BY <1>4 DEF HostFails, ProcNext, Dies
<1>5. CASE Trade \/ Breaks \/ Repairs \/ Login
  BY <1>5 DEF Trade, Breaks, Repairs, Login, ProcNext, Rests, worldVars, orderVars
<1>6. CASE UNCHANGED vars
  BY <1>6 DEF vars, ProcNext, Rests, worldVars, orderVars
<1>7. CASE Restart \/ OperatorStarts \/ Tick \/ Healthy \/ OperatorAcknowledges
  BY <1>7 DEF ProcNext
<1> QED BY <1>1, <1>2, <1>3, <1>4, <1>5, <1>6, <1>7 DEF Next

LEMMA FreshSupervisor ==
  ASSUME sup = Registered, at = "down"
  PROVE  SupTypeOK /\ SupInv
<1>1. SupTypeOK
  BY BackoffSettings DEF Registered, SupTypeOK, Reasons
<1>2. SupInv
  BY DEF Registered, SupInv, NeverSilentlyAbsent
<1> QED BY <1>1, <1>2

LEMMA FreshSupervisorNext ==
  ASSUME sup' = Registered, at' = "down"
  PROVE  SupTypeOK' /\ SupInv'
<1>1. SupTypeOK'
  BY BackoffSettings DEF Registered, SupTypeOK, Reasons
<1>2. SupInv'
  BY DEF Registered, SupInv, NeverSilentlyAbsent
<1> QED BY <1>1, <1>2

LEMMA SupKeeps ==
  ASSUME SupTypeOK, SupInv, [Next]_vars
  PROVE  SupTypeOK' /\ SupInv'
<1>1. ASSUME UNCHANGED <<sup, cause>>, at # "down", at' # "down" PROVE SupTypeOK' /\ SupInv'
  BY <1>1 DEF SupTypeOK, SupInv, NeverSilentlyAbsent
<1>2. CASE Rests
  BY <1>2 DEF Rests, procVars, SupTypeOK, SupInv, NeverSilentlyAbsent
<1>3. CASE MainConfigure
  <2>1. \/ at = "m_config" /\ at' = "m_ensure" /\ UNCHANGED <<sup, cause>>
        \/ \E c \in Classes : Ends(c)
    BY <1>3, ExitClasses DEF MainConfigure
  <2> QED BY <1>1, <2>1, EndsKeeps
<1>4. CASE BootConfigure
  <2>1. \/ at = "LoadConfig" /\ at' = "ensure" /\ UNCHANGED <<sup, cause>>
        \/ \E c \in Classes : Ends(c)
    BY <1>4, ExitClasses DEF BootConfigure
  <2> QED BY <1>1, <2>1, EndsKeeps
<1>5. ASSUME NEW s \in Takes, Passes(s) PROVE SupTypeOK' /\ SupInv'
  <2>1. at = s /\ at' = After(s) /\ UNCHANGED <<sup, cause>>
    BY <1>5 DEF Passes, Continues, After
  <2> QED BY <1>1, <2>1, AfterTakes DEF Takes
<1>6. ASSUME NEW c \in Classes, Ends(c) PROVE SupTypeOK' /\ SupInv'
  BY <1>6, EndsKeeps
<1>7. CASE Restart \/ OperatorStarts
  <2>1. at' = "m_config" /\ sup' = [sup EXCEPT !.down = FALSE, !.due = NotDue]
    BY <1>7 DEF Restart, OperatorStarts, Start, note_started
  <2>2. SupTypeOK'
    BY <2>1 DEF SupTypeOK
  <2>3. sup'.down = FALSE /\ sup'.due = NotDue
    BY <2>1 DEF SupTypeOK
  <2> QED BY <2>1, <2>2, <2>3 DEF SupInv, NeverSilentlyAbsent
<1>8. CASE Tick
  <2>1. /\ sup.due \in 1 .. backoff_cap /\ UNCHANGED <<at, cause>>
        /\ sup' = [sup EXCEPT !.due = sup.due - 1]
    BY <1>8, BackoffSettings DEF Tick, SupTick, SupTypeOK, NotDue, procVars
  <2>2. sup.due - 1 \in 0 .. backoff_cap /\ sup.due # NotDue /\ sup.due - 1 # NotDue
    BY <2>1, BackoffSettings DEF NotDue
  <2>3. SupTypeOK'
    BY <2>1, <2>2 DEF SupTypeOK
  <2>4. /\ sup'.due = sup.due - 1 /\ sup'.down = sup.down /\ sup'.reason = sup.reason
        /\ sup'.alarm = sup.alarm
    BY <2>1 DEF SupTypeOK
  <2> QED BY <2>1, <2>2, <2>3, <2>4 DEF SupInv, NeverSilentlyAbsent
<1>9. CASE Healthy
  <2>1. /\ at = "Run" /\ UNCHANGED <<at, cause>>
        /\ sup' = [sup EXCEPT !.crashes = 0, !.alarm = FALSE, !.escalated = FALSE]
    BY <1>9 DEF Healthy, note_healthy, procVars
  <2>2. SupTypeOK' /\ sup'.down = sup.down /\ sup'.reason = sup.reason /\ sup'.due = sup.due
    BY <2>1 DEF SupTypeOK
  <2> QED BY <2>1, <2>2 DEF SupInv, NeverSilentlyAbsent
<1>10. CASE OperatorAcknowledges
  <2>1. /\ UNCHANGED at /\ cause' = "acknowledged"
        /\ sup' = [sup EXCEPT !.alarm = FALSE, !.escalated = FALSE]
    BY <1>10 DEF OperatorAcknowledges, clear_alarm
  <2>2. SupTypeOK' /\ sup'.down = sup.down /\ sup'.reason = sup.reason /\ sup'.due = sup.due
    BY <2>1 DEF SupTypeOK
  <2> QED BY <2>1, <2>2 DEF SupInv, NeverSilentlyAbsent
<1>11. CASE Dies
  BY <1>11, FreshSupervisorNext DEF Dies
<1> QED BY ProcSteps, <1>2, <1>3, <1>4, <1>5, <1>6, <1>7, <1>8, <1>9, <1>10, <1>11 DEF ProcNext

(* Only the operator starts an account that failed closed: the supervisor  *)
(* has nothing due for it.                                                 *)
LEMMA OnlyHumanAfterFailClosed ==
  ASSUME SupTypeOK, SupInv, [Next]_vars
  PROVE  FailClosedWaitsForHuman
<1> SUFFICES ASSUME at = "down", at' # "down", sup.reason = "FailClosedNeedsHuman"
             PROVE  byHuman'
  BY DEF FailClosedWaitsForHuman
<1>1. ~Restart
  <2>1. sup.due = NotDue /\ NotDue # 0
    BY DEF SupInv, NotDue
  <2> QED BY <2>1 DEF Restart, may_restart
<1>2. ~(\E s \in Takes : Passes(s))
  BY DEF Passes, Takes
<1>3. OperatorStarts
  BY <1>1, <1>2, ProcSteps DEF ProcNext, Rests, Dies, procVars, MainConfigure, BootConfigure, Tick,
     Healthy, OperatorAcknowledges
<1> QED BY <1>3 DEF OperatorStarts, Start

LEMMA SupInitially == Init => SupTypeOK /\ SupInv
<1> SUFFICES ASSUME Init PROVE SupTypeOK /\ SupInv
  OBVIOUS
<1> QED BY FreshSupervisor DEF Init, SupInit

(* For any back-off settings, budgets and configuration sources: an        *)
(* account that is down after anything but a clean stop has a restart      *)
(* coming, a standing alarm or an operator who knows, and one that failed  *)
(* closed is started by the operator alone.                                *)
THEOREM SupervisorKeepsItsDuty == Spec => SupervisionHolds
<1>1. Init => SupTypeOK /\ SupInv
  BY SupInitially
<1>2. SupTypeOK /\ SupInv /\ [Next]_vars => (SupTypeOK /\ SupInv)'
  BY SupKeeps
<1>3. SupTypeOK /\ SupInv /\ [Next]_vars
        => [NeverSilentlyAbsent' /\ FailClosedWaitsForHuman]_vars
  <2> SUFFICES ASSUME SupTypeOK, SupInv, [Next]_vars
               PROVE  NeverSilentlyAbsent' /\ FailClosedWaitsForHuman
    OBVIOUS
  <2>1. SupInv'
    BY SupKeeps
  <2>2. FailClosedWaitsForHuman
    BY OnlyHumanAfterFailClosed
  <2> QED BY <2>1, <2>2 DEF SupInv
<1> QED BY <1>1, <1>2, <1>3, PTL DEF Spec, SupervisionHolds

-----------------------------------------------------------------------------
(* The world an engine is composed over.                                   *)
Roots == {"none", "good", "other"}
ProcTypeOK ==
    /\ faults \subseteq Passing \cup Lasting
    /\ conf \in Confs \cup {Sound}
    /\ rows \subseteq Rows /\ open \subseteq OpenRows /\ lost \in BOOLEAN
    /\ at \in {"down"} \cup {Steps[i] : i \in 1 .. Len(Steps)}
    /\ main \in [root : Roots, broker : Roots] /\ boot \in [root : Roots, broker : Roots]
    /\ byHuman \in BOOLEAN

(* The projection holds every open order, unless a reset dropped it.       *)
OpenIsHeld == lost \/ open \subseteq rows

(* What was checked stays as it was until the engine is composed: the rows *)
(* between the check of the stops and that of the orders, and after both.  *)
RowsInv == /\ at = "reconciliation" => "LegacyStop" \notin rows
           /\ at \in Verified => rows \cap OpenRows = {}

(* Main and boot each hold the root of their own load of the sources.      *)
TreeInv == /\ at \notin {"down", "m_config"} => main.root = "good"
           /\ at \notin {"down", "m_config", "m_ensure", "m_store", "LoadConfig"}
                => boot.root = "good"

(* A configuration that loads has a broker and a data root.                *)
LEMMA LoadedFields ==
  ASSUME NEW c \in Sources, load(c).ok
  PROVE  load(c).cfg["name"] \in {"good", "other"} /\ load(c).cfg["data_dir"] \in {"good", "other"}
<1> DEFINE cfg == [f \in Fields |-> Configured(c, f)]
<1>1. /\ \A f \in Fields : cfg[f] # Refused
      /\ validate(cfg) /\ load(c).cfg = cfg
  BY DEF load
<1>2. {"name", "data_dir"} \subseteq Fields
  BY DEF Fields, Strings, Paths
<1>3. \A f \in {"name", "data_dir"} : cfg[f] = Configured(c, f) /\ Configured(c, f) \notin {Refused, "invalid"}
  <2>1. \A f \in {"name", "data_dir"} : f \in Fields /\ f \in Fields \ {"base_url", "log_dir"}
    BY <1>2
  <2>2. \A f \in {"name", "data_dir"} : cfg[f] = Configured(c, f)
    BY <2>1
  <2> HIDE DEF cfg
  <2> QED BY <1>1, <2>1, <2>2 DEF validate
<1>4. c.file \in Raw /\ c.env \in Raw
  BY DEF Sources
<1>5. apply("name", c.file, c.env) = apply_string(c.file, c.env)
  BY DEF apply, Strings, Ints, Paths, Enums, Lists
<1>6. apply("data_dir", c.file, c.env) = apply_path(c.file, c.env)
  BY DEF apply, Strings, Ints, Paths, Enums, Lists
<1>7. apply_string(c.file, c.env) \in {Refused, "good", "other", "invalid"}
  BY <1>4 DEF apply_string, Override, Present, Raw
<1>8. apply_path(c.file, c.env) \in {Refused, "good", "other", "invalid"}
  BY <1>4 DEF apply_path, Override, Present, Raw
<1>9. Configured(c, "name") \in {"good", "other"} /\ Configured(c, "data_dir") \in {"good", "other"}
  BY <1>3, <1>5, <1>6, <1>7, <1>8 DEF Configured
<1> HIDE DEF cfg
<1> QED BY <1>1, <1>3, <1>9

LEMMA TakenRoots ==
  ASSUME NEW c \in Sources, load(c).ok, resolve_data_root(c).ok
  PROVE  /\ Taken(c) \in [root : Roots, broker : Roots]
         /\ ArgRoot = "good" => Taken(c).root = "good"
<1>1. load(c).cfg["name"] \in {"good", "other"} /\ load(c).cfg["data_dir"] \in {"good", "other"}
  BY LoadedFields
<1>2. resolve_data_root(c).root = load(c).cfg["data_dir"]
  BY DEF resolve_data_root, blocking, Fail
<1>3. ArgRoot = "good" => resolve_data_root(c).root = "good"
  BY DEF resolve_data_root, blocking, Fail
<1> QED BY <1>1, <1>2, <1>3 DEF Taken, Roots

LEMMA ConfIsSource == ProcTypeOK => conf \in Sources
BY ConfsAssumption DEF ProcTypeOK, Sound, Sources, Raw

LEMMA ProcInitially == Init => ProcTypeOK /\ RowsInv /\ TreeInv
<1> SUFFICES ASSUME Init PROVE ProcTypeOK /\ RowsInv /\ TreeInv
  OBVIOUS
<1>1. NoConfig \in [root : Roots, broker : Roots]
  BY DEF NoConfig, Roots
<1>2. ProcTypeOK
  BY <1>1 DEF Init, ProcTypeOK
<1>3. RowsInv /\ TreeInv
  BY DEF Init, RowsInv, TreeInv, Verified
<1> QED BY <1>2, <1>3

LEMMA StepNames ==
  {"m_config", "m_ensure", "ensure"} \subseteq {Steps[i] : i \in 1 .. Len(Steps)}
<1>1. Steps[1] = "m_config" /\ Steps[2] = "m_ensure" /\ Steps[5] = "ensure" /\ Len(Steps) = 25
  BY StepsAre
<1>2. 1 \in 1 .. Len(Steps) /\ 2 \in 1 .. Len(Steps) /\ 5 \in 1 .. Len(Steps)
  BY <1>1
<1> QED BY <1>1, <1>2

(* The world as a step leaves it, whoever takes the step.                  *)
LEMMA WorldTypes ==
  ASSUME ProcTypeOK, [Next]_vars
  PROVE  /\ faults' \subseteq Passing \cup Lasting
         /\ conf' \in Confs \cup {Sound}
         /\ rows' \subseteq Rows /\ open' \subseteq OpenRows /\ lost' \in BOOLEAN
         /\ OpenIsHeld => OpenIsHeld'
<1> USE DEF OpenIsHeld
<1>1. CASE UNCHANGED worldVars
  BY <1>1 DEF ProcTypeOK, worldVars, orderVars
<1>2. CASE Trade
  <2>1. PICK r \in Rows : /\ rows' = {r} /\ UNCHANGED <<faults, conf, lost>>
                          /\ open' = (IF lost THEN open ELSE {}) \cup ({r} \cap OpenRows)
    BY <1>2 DEF Trade
  <2> QED BY <2>1 DEF ProcTypeOK
<1>3. CASE Breaks
  <2>1. CASE UNCHANGED orderVars
    BY <1>3, <2>1 DEF ProcTypeOK, Breaks, orderVars
  <2>2. CASE ~UNCHANGED orderVars
    <3>1. /\ rows' = rows \cup {"LegacyStop"} /\ open' = open \cup {"LegacyStop"}
          /\ UNCHANGED <<faults, conf, lost>>
      BY <1>3, <2>2 DEF Breaks
    <3> QED BY <3>1 DEF ProcTypeOK, Rows, OpenRows
  <2> QED BY <2>1, <2>2
<1>4. CASE Repairs
  <2>1. CASE UNCHANGED orderVars
    BY <1>4, <2>1 DEF ProcTypeOK, Repairs, orderVars
  <2>2. CASE ~UNCHANGED orderVars
    <3>1. rows' = {} /\ open' = {} /\ lost' = FALSE /\ UNCHANGED <<faults, conf>>
      BY <1>4, <2>2 DEF Repairs
    <3> QED BY <3>1 DEF ProcTypeOK
  <2> QED BY <2>1, <2>2
<1>5. CASE BootStep
  <2>1. CASE UNCHANGED worldVars
    BY <1>1, <2>1
  <2>2. CASE ~UNCHANGED worldVars
    <3>1. PICK s \in Takes : Passes(s)
      BY <1>5, <2>2, BootSteppings DEF MainConfigure, BootConfigure, Stops
    <3>2. Resets /\ UNCHANGED <<conf, open>>
      BY <2>2, <3>1 DEF Passes, worldVars, orderVars
    <3> QED BY <3>2 DEF ProcTypeOK, Resets
  <2> QED BY <2>1, <2>2
<1>6. \/ UNCHANGED worldVars \/ Trade \/ Breaks \/ Repairs \/ BootStep
  BY DEF Next, vars, RunEnds, Killed, Restart, OperatorStarts, Start, Tick, Healthy,
     OperatorAcknowledges, Login, HostFails
<1> QED BY <1>1, <1>2, <1>3, <1>4, <1>5, <1>6

(* The process: where a step leads, and what it leaves in main and boot.   *)
LEMMA ProcKeeps ==
  ASSUME ProcTypeOK, RowsInv, [Next]_vars
  PROVE  ProcTypeOK' /\ RowsInv'
<1> DEFINE Names == {"down"} \cup {Steps[i] : i \in 1 .. Len(Steps)}
           Recs == [root : Roots, broker : Roots]
           Goal == /\ at' \in Names /\ main' \in Recs /\ boot' \in Recs /\ byHuman' \in BOOLEAN
                   /\ RowsInv'
<1>1. at \in Names /\ main \in Recs /\ boot \in Recs /\ byHuman \in BOOLEAN
  BY DEF ProcTypeOK
<1>2. {"down", "m_config", "m_ensure", "ensure"} \subseteq Names
  BY StepNames
<1>3. \A s \in Takes : After(s) \in Names
  BY AfterTakes
<1>4. NoConfig \in Recs
  BY DEF NoConfig, Roots
<1>5. conf \in Sources
  BY ConfIsSource
<1> HIDE DEF Names, Recs
<1> USE DEF RowsInv
<1>6. ASSUME Rests PROVE Goal
  <2>1. UNCHANGED rows \/ at' \in {"down", "Run"}
    BY <1>6 DEF Rests, procVars
  <2> QED BY <1>1, <1>6, <2>1 DEF Rests, procVars, Verified
<1>7. ASSUME NEW c \in Classes, Ends(c) PROVE Goal
  BY <1>1, <1>2, <1>7 DEF Ends, Verified
<1>8. ASSUME MainConfigure PROVE Goal
  <2>1. CASE /\ load(conf).ok /\ resolve_data_root(conf).ok /\ at' = "m_ensure"
             /\ main' = Taken(conf) /\ UNCHANGED <<boot, byHuman>>
    <3>1. Taken(conf) \in Recs
      BY <1>5, <2>1, TakenRoots DEF Recs
    <3> QED BY <1>1, <1>2, <2>1, <3>1 DEF Verified
  <2>2. CASE \E c \in Classes : Ends(c)
    BY <1>7, <2>2
  <2> QED BY <1>8, <2>1, <2>2, ExitClasses DEF MainConfigure, ConfigVerdict, Unless, Fail
<1>9. ASSUME BootConfigure PROVE Goal
  <2>1. CASE /\ load(conf).ok /\ resolve_data_root(conf).ok /\ at' = "ensure"
             /\ boot' = Taken(conf) /\ UNCHANGED <<main, byHuman>>
    <3>1. Taken(conf) \in Recs
      BY <1>5, <2>1, TakenRoots DEF Recs
    <3> QED BY <1>1, <1>2, <2>1, <3>1 DEF Verified
  <2>2. CASE \E c \in Classes : Ends(c)
    BY <1>7, <2>2
  <2> QED BY <1>9, <2>1, <2>2, ExitClasses DEF BootConfigure
<1>10. ASSUME NEW s \in Takes, Passes(s) PROVE Goal
  <2>1. at = s /\ at' = After(s) /\ UNCHANGED <<main, boot, byHuman>> /\ (UNCHANGED rows \/ rows' = {})
    BY <1>10 DEF Passes, Continues, After, Resets
  <2>2. s = "legacy-stops" => "LegacyStop" \notin rows
    BY <1>10 DEF Passes
  <2>3. s = "reconciliation" => rows \cap {"Sent", "Unknown"} = {}
    BY <1>10 DEF Passes
  <2>4. RowsInv'
    BY <2>1, <2>2, <2>3, AfterTakes DEF OpenRows
  <2> QED BY <1>1, <1>3, <2>1, <2>4
<1>11. ASSUME Restart \/ OperatorStarts PROVE Goal
  BY <1>2, <1>4, <1>11 DEF Restart, OperatorStarts, Start, Verified
<1>12. ASSUME Tick \/ Healthy \/ OperatorAcknowledges PROVE Goal
  BY <1>1, <1>12 DEF Tick, Healthy, OperatorAcknowledges, procVars, worldVars, orderVars
<1>14. ASSUME Dies PROVE Goal
  BY <1>1, <1>2, <1>14 DEF Dies, Verified
<1>13. Goal
  <2> HIDE DEF Goal
  <2> QED BY ProcSteps, <1>6, <1>7, <1>8, <1>9, <1>10, <1>11, <1>12, <1>14 DEF ProcNext
<1> QED BY <1>13, WorldTypes DEF ProcTypeOK, Names, Recs

(* With --data-root given, both loads resolve to it or the process ends.   *)
LEMMA TreeKeeps ==
  ASSUME ArgRoot = "good", ProcTypeOK, TreeInv, [Next]_vars
  PROVE  TreeInv'
<1>1. conf \in Sources
  BY ConfIsSource
<1>2. ASSUME load(conf).ok, resolve_data_root(conf).ok PROVE Taken(conf).root = "good"
  BY <1>1, <1>2, TakenRoots
<1> USE DEF TreeInv
<1>3. ASSUME UNCHANGED <<at, main, boot>> PROVE TreeInv'
  BY <1>3
<1>4. ASSUME NEW c \in Classes, Ends(c) PROVE TreeInv'
  BY <1>4 DEF Ends
<1>5. ASSUME MainConfigure PROVE TreeInv'
  <2>1. \/ load(conf).ok /\ resolve_data_root(conf).ok /\ at' = "m_ensure" /\ main' = Taken(conf)
        \/ \E c \in Classes : Ends(c)
    BY <1>5, ExitClasses DEF MainConfigure, ConfigVerdict, Unless, Fail
  <2> QED BY <1>2, <1>4, <2>1
<1>6. ASSUME BootConfigure PROVE TreeInv'
  <2>1. \/ /\ load(conf).ok /\ resolve_data_root(conf).ok /\ at = "LoadConfig" /\ at' = "ensure"
           /\ boot' = Taken(conf) /\ UNCHANGED main
        \/ \E c \in Classes : Ends(c)
    BY <1>6, ExitClasses DEF BootConfigure
  <2> QED BY <1>2, <1>4, <2>1
<1>7. ASSUME NEW s \in Takes, Passes(s) PROVE TreeInv'
  <2>1. at = s /\ at' = After(s) /\ UNCHANGED <<main, boot>>
    BY <1>7 DEF Passes, Continues, After
  <2>2. After(s) \in {"m_store", "LoadConfig"} <=> s \in {"m_ensure", "m_store"}
    BY AfterTakes
  <2> QED BY <2>1, <2>2 DEF Takes
<1>8. ASSUME Restart \/ OperatorStarts PROVE TreeInv'
  BY <1>8 DEF Restart, OperatorStarts, Start
<1>9. ASSUME Rests \/ Tick \/ Healthy \/ OperatorAcknowledges PROVE TreeInv'
  BY <1>3, <1>9 DEF Rests, Tick, Healthy, OperatorAcknowledges, procVars
<1>10. ASSUME Dies PROVE TreeInv'
  BY <1>10 DEF Dies
<1> HIDE DEF TreeInv
<1> QED BY ProcSteps, <1>4, <1>5, <1>6, <1>7, <1>8, <1>9, <1>10 DEF ProcNext

(* The types of the token's variables, however many logins run at once.    *)
LEMMA ExceptInto ==
  ASSUME NEW S, NEW T, NEW f \in [S -> T], NEW x, NEW y, x \in S => y \in T
  PROVE  [f EXCEPT ![x] = y] \in [S -> T]
OBVIOUS

LEMMA TokenTypeKeeps == ASSUME TokenTypeOK, [Next]_vars PROVE TokenTypeOK'
<1> USE LoginsAreInodes
<1>1. ASSUME UNCHANGED <<fsVars, fd>>, accepted' \subseteq Inodes, login' \in [Logins -> LoginState]
      PROVE  TokenTypeOK'
  <2>1. UNCHANGED <<data, disk, tmp, target, dtarget, fd>>
    BY <1>1 DEF fsVars
  <2> QED BY <1>1, <2>1 DEF TokenTypeOK
<1>2. ASSUME NEW l \in Logins, NEW r \in {"Failed", "Error", "died", "Healthy"}, Return(l, r)
      PROVE  login' \in [Logins -> LoginState]
  BY <1>2, Returned
<1>3. ASSUME NEW l \in Logins, GoTo(l, "view") \/ GoTo(l, "save") \/ GoTo(l, "write")
             \/ GoTo(l, "sync") \/ GoTo(l, "restrict") \/ GoTo(l, "rename") \/ GoTo(l, "dirsync")
      PROVE  login' \in [Logins -> LoginState]
  BY <1>3, WentTo
<1>4. ASSUME NEW l \in Logins, NEW b \in {"kite", "kotak"}, NEW s \in BOOLEAN, Establish(l, b, s)
      PROVE  TokenTypeOK'
  <2>1. login' \in [Logins -> LoginState]
    BY <1>4 DEF Establish, Return, TokenTypeOK, LoginState
  <2> QED BY <1>1, <1>4, <2>1 DEF Establish, TokenTypeOK
<1>5. ASSUME NEW l \in Logins, LegRefused(l) PROVE TokenTypeOK'
  <2>1. PICK a \in Answer : Return(l, IF a.status # 0 /\ is_credential_refusal(map_kotak_error(a), a.verdict # "none")
                                      THEN "Failed" ELSE "Error")
    BY <1>5 DEF LegRefused
  <2>2. Return(l, "Failed") \/ Return(l, "Error")
    BY <2>1
  <2>3. login' \in [Logins -> LoginState]
    BY <1>2, <2>2
  <2> QED BY <1>1, <1>5, <2>3 DEF LegRefused, TokenTypeOK
<1>6. ASSUME NEW l \in Logins, KiteLogin(l) \/ LegWithoutToken(l) \/ fetch_access_token(l)
             \/ LoginDies(l)
      PROVE  TokenTypeOK'
  <2>1. login' \in [Logins -> LoginState]
    BY <1>2, <1>3, <1>6 DEF KiteLogin, LegWithoutToken, fetch_access_token, LoginDies
  <2>2. UNCHANGED <<fsVars, fd>> /\ accepted' \subseteq Inodes
    BY <1>6 DEF KiteLogin, LegWithoutToken, fetch_access_token, LoginDies, TokenTypeOK
  <2> QED BY <1>1, <2>1, <2>2
<1>7. ASSUME NEW l \in Logins, NEW leg \in Leg, post_login_view(l, leg) PROVE TokenTypeOK'
  <2> DEFINE r == [login[l] EXCEPT !.at = "mpin", !.view = leg]
  <2>1. login[l] \in LoginState /\ login \in [Logins -> LoginState]
    BY DEF TokenTypeOK
  <2>2. login' = [login EXCEPT ![l] = r]
    BY <1>7, <2>1 DEF post_login_view
  <2>3. r \in LoginState
    BY <2>1 DEF LoginState
  <2> HIDE DEF r
  <2>4. login' \in [Logins -> LoginState]
    BY <2>1, <2>2, <2>3, ExceptInto
  <2> QED BY <1>1, <1>7, <2>4 DEF post_login_view, TokenTypeOK
<1>8. ASSUME NEW l \in Logins, NEW leg \in Leg, post_login_mpin(l, leg) PROVE TokenTypeOK'
  <2> DEFINE r == IF complete(login[l].view, leg)
                  THEN [login[l] EXCEPT !.at = "save", !.final = leg]
                  ELSE [login[l] EXCEPT !.at = "done", !.final = leg, !.result = "Failed"]
  <2>1. login[l] \in LoginState /\ login \in [Logins -> LoginState]
    BY DEF TokenTypeOK
  <2>2. login' = [login EXCEPT ![l] = r]
    BY <1>8, <2>1 DEF post_login_mpin
  <2>3. r \in LoginState
    BY <2>1 DEF LoginState
  <2> HIDE DEF r
  <2>4. login' \in [Logins -> LoginState]
    BY <2>1, <2>2, <2>3, ExceptInto
  <2>5. UNCHANGED <<fsVars, fd>> /\ accepted' \subseteq Inodes
    BY <1>8 DEF post_login_mpin, TokenTypeOK
  <2> QED BY <1>1, <2>4, <2>5
<1>9. ASSUME NEW l \in Logins, NEW ok \in BOOLEAN, Open(l, ok) PROVE TokenTypeOK'
  <2> DEFINE i == IF tmp = NoFile THEN l ELSE tmp
  <2>1. i \in Inodes
    BY DEF TokenTypeOK
  <2>2. \/ /\ tmp' = i /\ data' = [data EXCEPT ![i] = Empty] /\ fd' = [fd EXCEPT ![l] = i]
           /\ GoTo(l, "write")
        \/ Return(l, "Error") /\ UNCHANGED <<tmp, data, fd>>
    BY <1>9 DEF Open
  <2>3. login' \in [Logins -> LoginState] /\ UNCHANGED <<disk, target, dtarget, accepted>>
    BY <1>2, <1>3, <1>9, <2>2 DEF Open
  <2> HIDE DEF i
  <2> QED BY <2>1, <2>2, <2>3 DEF TokenTypeOK, Content
<1>10. ASSUME NEW l \in Logins, NEW ok \in BOOLEAN,
              Write(l, ok) \/ Sync(l, ok) \/ restrict_to_owner_file(l, ok) \/ Rename(l, ok)
              \/ DirSync(l, ok)
       PROVE  TokenTypeOK'
  <2>1. data' \in [Inodes -> Content]
    <3>1. CASE Write(l, ok)
      <4>1. data' = [data EXCEPT ![fd[l]] = IF ok THEN l ELSE Torn]
        BY <3>1 DEF Write
      <4>2. (IF ok THEN l ELSE Torn) \in Content /\ data \in [Inodes -> Content]
        BY DEF TokenTypeOK, Content
      <4> QED BY <4>1, <4>2, ExceptInto
    <3>2. CASE UNCHANGED data
      BY <3>2 DEF TokenTypeOK
    <3> QED BY <1>10, <3>1, <3>2 DEF Sync, restrict_to_owner_file, Rename, DirSync
  <2>2. disk' \in [Inodes -> Content]
    <3>1. CASE disk' = [disk EXCEPT ![fd[l]] = data[fd[l]]]
      <4>1. disk \in [Inodes -> Content] /\ (fd[l] \in Inodes => data[fd[l]] \in Content)
        BY DEF TokenTypeOK
      <4> QED BY <3>1, <4>1, ExceptInto
    <3>2. CASE UNCHANGED disk
      BY <3>2 DEF TokenTypeOK
    <3> QED BY <1>10, <3>1, <3>2 DEF Write, Sync, restrict_to_owner_file, Rename, DirSync
  <2>3. login' \in [Logins -> LoginState]
    BY <1>2, <1>3, <1>10 DEF Write, Sync, restrict_to_owner_file, Rename, DirSync, Discard
  <2>4. /\ tmp' \in {tmp, NoFile} /\ target' \in {tmp, target} /\ dtarget' \in {target, dtarget}
        /\ UNCHANGED <<fd, accepted>>
    BY <1>10 DEF Write, Sync, restrict_to_owner_file, Rename, DirSync, Discard
  <2> QED BY <2>1, <2>2, <2>3, <2>4 DEF TokenTypeOK
<1>11. CASE PowerLoss
  <2> DEFINE G(l) == IF l \in Active THEN [login[l] EXCEPT !.at = "done", !.result = "died"]
                                     ELSE login[l]
  <2>1. login' = [l \in Logins |-> G(l)]
    BY <1>11 DEF PowerLoss
  <2>2. ASSUME NEW l \in Logins PROVE G(l) \in LoginState
    <3>1. login[l] \in LoginState
      BY DEF TokenTypeOK
    <3> QED BY <3>1 DEF LoginState
  <2> HIDE DEF G
  <2>3. login' \in [Logins -> LoginState]
    BY <2>1, <2>2
  <2>4. /\ data' \in [Inodes -> Content] /\ disk' = data' /\ target' \in {target, dtarget}
        /\ dtarget' = target' /\ tmp' \in {NoFile, tmp, target} /\ UNCHANGED <<fd, accepted>>
    BY <1>11 DEF PowerLoss
  <2> QED BY <2>3, <2>4 DEF TokenTypeOK
<1>12. CASE TokenExpires \/ UNCHANGED tokenVars
  BY <1>1, <1>12 DEF TokenExpires, tokenVars, TokenTypeOK
<1>13. ASSUME NEW l \in Logins, LoginStep(l) PROVE TokenTypeOK'
  BY <1>5, <1>6, <1>7, <1>8, <1>9, <1>10, <1>13 DEF LoginStep, Save
<1> QED BY TokenNext, <1>4, <1>6, <1>11, <1>12, <1>13

(* However boots, crashes, restarts, operators and faults interleave, for  *)
(* any configuration sources, with --data-root given: boot composes an     *)
(* engine only over one data tree, and only when no order of the account   *)
(* is open, unless a projection found damaged was reset and lost it.  The  *)
(* argument is OpenIsHeld: the projection holds every open order until the *)
(* operator resolves it or a reset drops it.                               *)
THEOREM EngineIsComposedOverVerifiedWorld ==
  ArgRoot = "good" => (Spec => []EngineOverVerifiedWorld)
<1> SUFFICES ASSUME ArgRoot = "good" PROVE Spec => []EngineOverVerifiedWorld
  OBVIOUS
<1> DEFINE Inv == /\ TokenTypeOK /\ SupTypeOK /\ SupInv
                  /\ ProcTypeOK /\ RowsInv /\ TreeInv /\ OpenIsHeld
<1>1. Init => Inv
  <2>1. Init => TokenTypeOK
    BY TokenInitially DEF Init
  <2>2. Init => OpenIsHeld
    BY DEF Init, OpenIsHeld
  <2> QED BY <2>1, <2>2, SupInitially, ProcInitially
<1>2. Inv /\ [Next]_vars => Inv'
  BY TokenTypeKeeps, SupKeeps, ProcKeeps, TreeKeeps, WorldTypes
<1>3. Inv => EngineOverVerifiedWorld
  <2> SUFFICES ASSUME Inv PROVE EngineOverVerifiedWorld
    OBVIOUS
  <2>1. TypeOK
    BY DEF TypeOK, ProcTypeOK, Roots
  <2>2. NoEngineOverOpenOrders
    BY DEF RowsInv, OpenIsHeld, ProcTypeOK, NoEngineOverOpenOrders
  <2>3. OneTree
    BY DEF TreeInv, OneTree, Verified
  <2> QED BY <2>1, <2>2, <2>3 DEF EngineOverVerifiedWorld
<1> HIDE DEF Inv
<1> QED BY <1>1, <1>2, <1>3, PTL DEF Spec
=============================================================================
