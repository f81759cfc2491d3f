---------------------------- MODULE AccountProofs ----------------------------
(***************************************************************************)
(* Proofs about Account for any number of sessions, names and rows, and    *)
(* without a unique index on the username.                                 *)
(***************************************************************************)
EXTENDS Account, FiniteSetTheorems, TLAPS

(* AUTO_INCREMENT assigns 1, 2, ... and no row is ever deleted.            *)
Numbered == \E n \in Nat : Ids = 1 .. n

Count == Cardinality(Ids)

(* What a request holds fits the statement it is about to run.             *)
FormsFit ==
  \A s \in Sessions :
    /\ form[s].rows <= Count
    /\ pc[s] = "insert" => form[s].username \in Names
    /\ pc[s] = "mail" => form[s].rows \in Ids
    /\ pc[s] = "set_password" => LoggedIn(s)

(* A registration that has found its name free misses only rows that were  *)
(* inserted after its SELECT.                                              *)
SelectsHold ==
  \A s \in Sessions : pc[s] = "insert" =>
    \A i \in IdsOf(form[s].username) : i > form[s].rows

IInv ==
  /\ TypeOK
  /\ Numbered
  /\ FormsFit
  /\ LoggedInIsVerified
  /\ SelectsHold
  /\ DuplicateOnlyByRace
  /\ SettingsAreOwn

-----------------------------------------------------------------------------
(* The rows are numbered from 1 to their count.                            *)
LEMMA CountIds ==
  ASSUME NEW n \in Nat, Ids = 1 .. n
  PROVE  Count = n
  BY FS_Interval DEF Count

LEMMA NumberedCount ==
  ASSUME Numbered
  PROVE  Count \in Nat /\ Ids = 1 .. Count
  BY CountIds DEF Numbered

(* The empty form is a form.                                               *)
LEMMA NoFormType == NoForm \in Forms /\ NoForm.rows = 0
  BY AccountAssumption DEF NoForm, Forms

(* There are no rows, no requests and no sessions that are logged in.      *)
LEMMA InitIInv == Init => IInv
  <1> SUFFICES ASSUME Init PROVE IInv
    OBVIOUS
  <1>1. Ids = 1 .. 0
    BY DEF Init, Ids
  <1>2. Count = 0
    BY <1>1, CountIds
  <1>3. Numbered
    BY <1>1 DEF Numbered
  <1>4. TypeOK
    BY <1>1, <1>2, NoFormType DEF Init, TypeOK, Count, LoggedOut, Ids
  <1>5. FormsFit /\ SelectsHold
    BY <1>2, NoFormType DEF Init, FormsFit, SelectsHold
  <1>7. DuplicateOnlyByRace /\ SettingsAreOwn
    BY <1>1 DEF DuplicateOnlyByRace, SettingsAreOwn
  <1>6. LoggedInIsVerified
    BY DEF Init, LoggedInIsVerified, LoggedIn
  <1> QED
    BY <1>3, <1>4, <1>5, <1>6, <1>7 DEF IInv

-----------------------------------------------------------------------------
(* An UPDATE of Utenti neither adds a row nor changes its name, and never  *)
(* takes a verification back.                                              *)
RowsKept ==
  /\ Ids' = Ids
  /\ utenti' \in [Ids -> Rows]
  /\ \A i \in Ids : /\ utenti'[i].username = utenti[i].username
                    /\ utenti'[i].seen = utenti[i].seen
                    /\ utenti[i].verificato => utenti'[i].verificato

LEMMA VerifyKeepsRows ==
  ASSUME TypeOK, NEW s \in Sessions, VerifyUpdate(s)
  PROVE  RowsKept
  BY ZenonT(40) DEF VerifyUpdate, RowsKept, TypeOK, Ids, Rows

LEMMA EmailKeepsRows ==
  ASSUME TypeOK, NEW s \in Sessions, NEW e \in Emails, UpdateEmail(s, e)
  PROVE  RowsKept
  BY ZenonT(40) DEF UpdateEmail, RowsKept, TypeOK, Ids, Rows

LEMMA PasswordKeepsRows ==
  ASSUME TypeOK, NEW s \in Sessions, PasswordUpdate(s)
  PROVE  RowsKept
  <1>1. form[s].password \in Passwords
    BY DEF TypeOK, Forms
  <1>2. utenti \in [Ids -> Rows]
    BY DEF TypeOK
  <1>3. utenti' = [i \in Ids |->
          IF i \in IdsOf(session[s].username)
          THEN [utenti[i] EXCEPT !.password = form[s].password] ELSE utenti[i]]
    BY DEF PasswordUpdate
  <1>4. ASSUME NEW i \in Ids
        PROVE  /\ utenti'[i] \in Rows
               /\ utenti'[i].username = utenti[i].username
               /\ utenti'[i].seen = utenti[i].seen
               /\ utenti[i].verificato => utenti'[i].verificato
    BY <1>1, <1>2, <1>3, Zenon DEF Rows
  <1>5. Ids' = Ids /\ utenti' \in [Ids -> Rows]
    BY <1>3, <1>4 DEF Ids
  <1> QED
    BY <1>4, <1>5 DEF RowsKept

LEMMA SameRows ==
  ASSUME TypeOK, UNCHANGED utenti
  PROVE  RowsKept
  BY DEF RowsKept, TypeOK, Ids

(* What RowsKept alone preserves.                                          *)
LEMMA KeptIds ==
  ASSUME RowsKept
  PROVE  /\ Count' = Count
         /\ Numbered => Numbered'
         /\ \A n : IdsOf(n)' = IdsOf(n)
  BY DEF RowsKept, Numbered, IdsOf, Ids, Count

(* Pairs of rows that share a name.                                        *)
Twins ==
  {w \in Ids \X Ids :
     w[1] # w[2] /\ utenti[w[1]].username = utenti[w[2]].username}

(* What the history records of an UPDATE for the name of a session.        *)
LEMMA WritesAreToTwins ==
  ASSUME IInv, NEW s \in Sessions, LoggedIn(s), RecordWrites(s),
         \A j \in Ids : utenti'[j] # utenti[j] => j \in IdsOf(session[s].username)
  PROVE  written' \subseteq written \cup Twins
  <1>1. session[s].userId \in IdsOf(session[s].username)
    BY DEF IInv, LoggedInIsVerified
  <1>2. ASSUME NEW j \in Ids \ {session[s].userId}, utenti'[j] # utenti[j]
        PROVE  <<session[s].userId, j>> \in Twins
    <2>1. j \in IdsOf(session[s].username)
      BY <1>2
    <2> QED
      BY <1>1, <1>2, <2>1 DEF Twins, IdsOf
  <1> QED
    BY <1>2 DEF RecordWrites

(* A request that starts, ends or goes on without an INSERT, in a session  *)
(* that stays as it is.                                                    *)
LEMMA QuietStep ==
  ASSUME IInv, RowsKept, NEW s \in Sessions, UNCHANGED session,
         NEW label \in {"idle", "verify", "set_password"}, NEW f \in Forms,
         f.rows <= Count, pc' = [pc EXCEPT ![s] = label],
         form' = [form EXCEPT ![s] = f],
         mailed' \subseteq Ids, told' \subseteq Ids,
         posted' \subseteq Names \X Codes,
         label = "set_password" => LoggedIn(s),
         written' \subseteq written \cup Twins
  PROVE  IInv'
  <1> USE DEF IInv
  <1>1. Count \in Nat /\ Ids = 1 .. Count
    BY NumberedCount
  <1>2. Numbered' /\ Count' = Count /\ Ids' = Ids
    BY KeptIds DEF RowsKept
  <1>3. TypeOK'
    BY <1>1, <1>2 DEF TypeOK, RowsKept, Count, Twins
  <1>4. FormsFit'
    BY <1>1, <1>2 DEF FormsFit, TypeOK, LoggedIn
  <1>5. LoggedInIsVerified'
    BY KeptIds DEF LoggedInIsVerified, LoggedIn, RowsKept, IdsOf
  <1>6. SelectsHold'
    BY KeptIds DEF SelectsHold, TypeOK
  <1>7. \A i, j \in Ids : Overlapped(i, j)' <=> Overlapped(i, j)
    BY DEF Overlapped, RowsKept
  <1>8. DuplicateOnlyByRace'
    BY <1>2, <1>7 DEF DuplicateOnlyByRace, RowsKept
  <1>9. SettingsAreOwn'
    <2> SUFFICES ASSUME NEW u \in Ids, NEW i \in Ids, <<u, i>> \in written'
                 PROVE  /\ utenti'[u].username = utenti'[i].username
                        /\ Overlapped(u, i)'
      BY <1>2 DEF SettingsAreOwn
    <2>1. CASE <<u, i>> \in written
      BY <1>7, <2>1 DEF SettingsAreOwn, RowsKept
    <2>2. CASE <<u, i>> \in Twins
      BY <1>7, <2>2 DEF Twins, DuplicateOnlyByRace, RowsKept
    <2> QED
      BY <2>1, <2>2
  <1> QED
    BY <1>2, <1>3, <1>4, <1>5, <1>6, <1>8, <1>9

(* A request that leaves everything but one session as it is: the session  *)
(* is logged out, or refers to a row that has been verified.               *)
LEMMA SessionStep ==
  ASSUME IInv, NEW s \in Sessions, NEW new,
         session' = [session EXCEPT ![s] = new],
         \/ new = LoggedOut
         \/ \E n \in Names : \E i \in IdsOf(n) :
              /\ utenti[i].verificato
              /\ new = [username |-> n, userId |-> i],
         pc[s] = "idle",
         UNCHANGED <<utenti, pc, form, mailed, told, posted, written>>
  PROVE  IInv'
  <1> USE DEF IInv
  <1>1. Count \in Nat /\ Ids = 1 .. Count
    BY NumberedCount
  <1>2. UNCHANGED <<Ids, Count>>
    BY DEF Ids, Count
  <1>3. new \in [username : Names \cup {NoName}, userId : Nat]
    BY <1>1 DEF LoggedOut, IdsOf
  <1>4. TypeOK'
    BY <1>2, <1>3 DEF TypeOK, Ids, Count
  <1>5. FormsFit' /\ Numbered' /\ SelectsHold'
    BY <1>2 DEF FormsFit, Numbered, SelectsHold, IdsOf, LoggedIn, TypeOK
  <1>7. DuplicateOnlyByRace' /\ SettingsAreOwn'
    BY <1>2 DEF DuplicateOnlyByRace, SettingsAreOwn, Overlapped
  <1>6. LoggedInIsVerified'
    <2> SUFFICES ASSUME NEW t \in Sessions, LoggedIn(t)'
                 PROVE  /\ session'[t].userId \in IdsOf(session'[t].username)
                        /\ utenti[session'[t].userId].verificato
      BY <1>2 DEF LoggedInIsVerified, IdsOf
    <2>1. CASE t = s
      BY <2>1 DEF LoggedIn, TypeOK
    <2>2. CASE t # s
      BY <2>2 DEF LoggedIn, LoggedInIsVerified, TypeOK
    <2> QED
      BY <2>1, <2>2
  <1> QED
    BY <1>4, <1>5, <1>6, <1>7

(* The SELECT of a registration sees all rows there are.                   *)
LEMMA CheckStep ==
  ASSUME IInv, NEW s \in Sessions, NEW n \in Names, NEW p \in Passwords,
         NEW e \in Emails, RegisterCheck(s, n, p, e)
  PROVE  IInv'
  <1> USE DEF IInv
  <1> DEFINE f == [username |-> n, password |-> p, email |-> e, rows |-> Count]
  <1>1. Count \in Nat /\ Ids = 1 .. Count
    BY NumberedCount
  <1>2. f \in Forms /\ f.rows = Count /\ f.username = n
    BY <1>1 DEF Forms
  <1> HIDE DEF f
  <1>3. /\ form' = [form EXCEPT ![s] = f]
        /\ pc' = [pc EXCEPT ![s] = "insert"]
        /\ UNCHANGED <<utenti, session, mailed, told, posted, written>>
        /\ IdsOf(n) = {}
    BY DEF RegisterCheck, Fill, Goto, f, Count
  <1>4. UNCHANGED <<Ids, Count>>
    BY <1>3 DEF Ids, Count
  <1>5. TypeOK'
    BY <1>2, <1>3, <1>4 DEF TypeOK, Count
  <1>6. FormsFit'
    BY <1>1, <1>2, <1>3, <1>4 DEF FormsFit, TypeOK, LoggedIn
  <1>7. Numbered' /\ LoggedInIsVerified'
    BY <1>3, <1>4 DEF Numbered, LoggedInIsVerified, LoggedIn, IdsOf
  <1>8. SelectsHold'
    BY <1>2, <1>3, <1>4 DEF SelectsHold, TypeOK, IdsOf
  <1>9. DuplicateOnlyByRace' /\ SettingsAreOwn'
    BY <1>3, <1>4 DEF DuplicateOnlyByRace, SettingsAreOwn, Overlapped
  <1> QED
    BY <1>5, <1>6, <1>7, <1>8, <1>9

(* The row of a registration is newer than every SELECT that has run.      *)
LEMMA InsertStep ==
  ASSUME IInv, NEW s \in Sessions, RegisterInsert(s)
  PROVE  IInv'
  <1> USE DEF IInv
  <1> DEFINE id == Count + 1
             f == [form[s] EXCEPT !.rows = id]
  <1>1. Count \in Nat /\ Ids = 1 .. Count
    BY NumberedCount
  <1>2. /\ form[s] \in Forms /\ form[s].username \in Names
        /\ f \in Forms /\ f.rows = id
    <2>1. form[s] \in Forms /\ id \in Nat
      BY <1>1 DEF TypeOK
    <2>2. form[s].username \in Names
      BY DEF FormsFit, RegisterInsert
    <2> HIDE DEF id
    <2> QED
      BY <2>1, <2>2 DEF Forms
  <1>3. PICK c \in Codes :
          utenti' = [i \in Ids \cup {id} |->
            IF i = id
            THEN [username |-> form[s].username,
                  password |-> form[s].password, email |-> form[s].email,
                  codice |-> c, verificato |-> FALSE, seen |-> form[s].rows]
            ELSE utenti[i]]
    BY DEF RegisterInsert, DrawnCodes, Count
  <1>4. /\ form' = [form EXCEPT ![s] = f]
        /\ pc' = [pc EXCEPT ![s] = "mail"]
        /\ UNCHANGED <<session, mailed, told, posted, written>>
    BY DEF RegisterInsert, Fill, Goto, Count
  <1>5. Ids' = 1 .. id
    BY <1>1, <1>3 DEF Ids
  <1>6. Count' = id
    BY <1>1, <1>5, FS_Interval DEF Count
  <1>7. /\ \A i \in Ids : utenti'[i] = utenti[i]
        /\ utenti' \in [1 .. id -> Rows]
    <2>1. [username |-> form[s].username, password |-> form[s].password,
           email |-> form[s].email, codice |-> c, verificato |-> FALSE,
           seen |-> form[s].rows] \in Rows
      BY <1>2 DEF Rows, Forms
    <2>2. id \notin Ids /\ Ids \cup {id} = 1 .. id
      BY <1>1
    <2>3. \A i \in Ids : utenti[i] \in Rows
      BY DEF TypeOK
    <2> HIDE DEF id
    <2> QED
      BY <1>3, <2>1, <2>2, <2>3
  <1> HIDE DEF f
  <1>8. TypeOK'
    <2>1. form' \in [Sessions -> Forms]
      BY <1>2, <1>4 DEF TypeOK
    <2>2. Ids \subseteq Ids'
      BY <1>1, <1>5
    <2> QED
      BY <1>4, <1>5, <1>6, <1>7, <2>1, <2>2 DEF TypeOK, Count
  <1>9. FormsFit'
    BY <1>1, <1>2, <1>4, <1>5, <1>6 DEF FormsFit, TypeOK, Forms, LoggedIn
  <1>10. Numbered'
    BY <1>1, <1>5 DEF Numbered
  <1>11. LoggedInIsVerified'
    BY <1>1, <1>4, <1>5, <1>7 DEF LoggedInIsVerified, LoggedIn, IdsOf
  <1>12. SelectsHold'
    <2> SUFFICES ASSUME NEW t \in Sessions, pc'[t] = "insert",
                        NEW i \in Ids', utenti'[i].username = form'[t].username
                 PROVE  i > form'[t].rows
      BY DEF SelectsHold, IdsOf
    <2>1. t # s /\ pc[t] = "insert" /\ form'[t] = form[t]
      BY <1>4 DEF TypeOK
    <2>2. CASE i \in Ids
      BY <1>7, <2>1, <2>2 DEF SelectsHold, IdsOf
    <2>3. CASE i = id
      BY <1>1, <2>1, <2>3 DEF FormsFit, TypeOK, Forms
    <2> QED
      BY <1>1, <1>5, <2>2, <2>3
  <1>13. \A i, j \in Ids : Overlapped(i, j)' <=> Overlapped(i, j)
    BY <1>7 DEF Overlapped
  <1>14. PICK k : k = id
    OBVIOUS
  <1>15. ASSUME NEW i \in Ids, utenti'[i].username = utenti'[k].username
         PROVE  Overlapped(i, k)' /\ Overlapped(k, i)'
    <2>1. utenti'[k].username = form[s].username /\ utenti'[k].seen = form[s].rows
      BY <1>3, <1>14
    <2>2. i \in IdsOf(form[s].username)
      BY <1>7, <1>15, <2>1 DEF IdsOf
    <2>3. i > form[s].rows
      BY <2>2 DEF SelectsHold, RegisterInsert
    <2>4. i < k /\ i \in Nat /\ k \in Nat /\ form[s].rows \in Nat
      BY <1>1, <1>2, <1>14 DEF Forms
    <2> HIDE DEF id
    <2> QED
      BY <2>1, <2>3, <2>4 DEF Overlapped
  <1>16. DuplicateOnlyByRace'
    <2> SUFFICES ASSUME NEW i \in Ids', NEW j \in Ids', i # j,
                        utenti'[i].username = utenti'[j].username
                 PROVE  Overlapped(i, j)'
      BY DEF DuplicateOnlyByRace
    <2>1. CASE i \in Ids /\ j \in Ids
      BY <1>7, <1>13, <2>1 DEF DuplicateOnlyByRace
    <2>2. CASE i = id \/ j = id
      BY <1>1, <1>5, <1>15, <1>14, <2>2
    <2> QED
      BY <1>1, <1>5, <2>1, <2>2
  <1>17. SettingsAreOwn'
    <2> SUFFICES ASSUME NEW u \in Ids, NEW i \in Ids, <<u, i>> \in written
                 PROVE  /\ utenti'[u].username = utenti'[i].username
                        /\ Overlapped(u, i)'
      BY <1>4 DEF SettingsAreOwn, TypeOK
    <2> QED
      BY <1>7, <1>13 DEF SettingsAreOwn
  <1> QED
    BY <1>8, <1>9, <1>10, <1>11, <1>12, <1>16, <1>17

-----------------------------------------------------------------------------
(* No request disturbs the invariant.                                      *)
LEMMA NextIInv == IInv /\ [Next]_vars => IInv'
  <1> SUFFICES ASSUME IInv, [Next]_vars PROVE IInv'
    OBVIOUS
  <1> USE DEF IInv
  <1>1. Count \in Nat /\ Ids = 1 .. Count
    BY NumberedCount
  <1>2. \A s \in Sessions : form[s] \in Forms /\ form[s].rows <= Count
    BY DEF TypeOK, FormsFit
  <1>3. mailed \subseteq Ids /\ told \subseteq Ids /\ posted \subseteq Names \X Codes
    BY DEF TypeOK
  <1>4. NoForm \in Forms /\ NoForm.rows <= Count
    BY <1>1, NoFormType
  <1>5. ASSUME NEW s \in Sessions, RegisterMail(s)
        PROVE  IInv'
    <2>1. form[s].rows \in Ids
      BY <1>5 DEF RegisterMail, FormsFit
    <2> QED
      BY <1>3, <1>4, <1>5, <2>1, SameRows, QuietStep
         DEF RegisterMail, EndRequest, Goto, Fill
  <1>6. ASSUME NEW s \in Sessions, NEW n \in Names, NEW c \in Codes,
               VerifySelect(s, n, c)
        PROVE  IInv'
    <2>1. [NoForm EXCEPT !.username = n] \in Forms
          /\ [NoForm EXCEPT !.username = n].rows <= Count
      BY <1>4 DEF Forms, NoForm
    <2>2. posted' \subseteq Names \X Codes
      BY <1>3, <1>6 DEF VerifySelect
    <2> DEFINE f == [NoForm EXCEPT !.username = n]
    <2>3. /\ pc' = [pc EXCEPT ![s] = "verify"]
          /\ form' = [form EXCEPT ![s] = f]
          /\ UNCHANGED <<utenti, session, mailed, told, written>>
      BY <1>6 DEF VerifySelect, Goto, Fill
    <2> HIDE DEF f
    <2> QED
      BY <1>3, <2>1, <2>2, <2>3, SameRows, QuietStep DEF f
  <1>7. ASSUME NEW s \in Sessions, VerifyUpdate(s)
        PROVE  IInv'
    BY <1>3, <1>4, <1>7, VerifyKeepsRows, QuietStep
       DEF VerifyUpdate, EndRequest, Goto, Fill
  <1>8. ASSUME NEW s \in Sessions, NEW n \in Names, NEW p \in Passwords,
               Login(s, n, p)
        PROVE  IInv'
    <2>1. PICK i \in IdsOf(n) :
            /\ utenti[i].verificato
            /\ session' = [session EXCEPT ![s] =
                             [username |-> n, userId |-> i]]
      BY <1>8 DEF Login
    <2> QED
      BY <1>8, <2>1, SessionStep DEF Login
  <1>9. ASSUME NEW s \in Sessions, NEW n \in Names, LoginUnverified(s, n)
        PROVE  IInv'
    <2>1. pc' = [pc EXCEPT ![s] = "idle"] /\ form' = [form EXCEPT ![s] = form[s]]
      BY <1>9 DEF LoginUnverified, TypeOK
    <2>2. told' \subseteq Ids
      BY <1>3, <1>9 DEF LoginUnverified, IdsOf
    <2> QED
      BY <1>2, <1>3, <1>9, <2>1, <2>2, SameRows, QuietStep DEF LoginUnverified
  <1>10. ASSUME NEW s \in Sessions, Logout(s)
         PROVE  IInv'
    BY <1>10, SessionStep DEF Logout
  <1>11. ASSUME NEW s \in Sessions, NEW e \in Emails, UpdateEmail(s, e)
         PROVE  IInv'
    <2>1. pc' = [pc EXCEPT ![s] = "idle"] /\ form' = [form EXCEPT ![s] = form[s]]
      BY <1>11 DEF UpdateEmail, TypeOK
    <2>2. LoggedIn(s) /\ RecordWrites(s)
      BY <1>11 DEF UpdateEmail
    <2>3. \A j \in Ids : utenti'[j] # utenti[j] => j \in IdsOf(session[s].username)
      BY <1>11 DEF UpdateEmail
    <2>4. written' \subseteq written \cup Twins
      BY <2>2, <2>3, WritesAreToTwins
    <2> QED
      BY <1>2, <1>3, <1>11, <2>1, <2>4, EmailKeepsRows, QuietStep DEF UpdateEmail
  <1>12. ASSUME NEW s \in Sessions, NEW p \in Passwords, NEW q \in Passwords,
                PasswordSelect(s, p, q)
         PROVE  IInv'
    <2>1. [NoForm EXCEPT !.password = q] \in Forms
          /\ [NoForm EXCEPT !.password = q].rows <= Count
      BY <1>4 DEF Forms, NoForm
    <2> QED
      BY <1>3, <1>12, <2>1, SameRows, QuietStep DEF PasswordSelect, Goto, Fill
  <1>13. ASSUME NEW s \in Sessions, PasswordUpdate(s)
         PROVE  IInv'
    <2>1. LoggedIn(s) /\ RecordWrites(s)
      BY <1>13 DEF PasswordUpdate, FormsFit
    <2>2. \A j \in Ids : utenti'[j] # utenti[j] => j \in IdsOf(session[s].username)
      BY <1>13 DEF PasswordUpdate
    <2>3. written' \subseteq written \cup Twins
      BY <2>1, <2>2, WritesAreToTwins
    <2> QED
      BY <1>3, <1>4, <1>13, <2>3, PasswordKeepsRows, QuietStep
         DEF PasswordUpdate, EndRequest, Goto, Fill
  <1>14. ASSUME NEW s \in Sessions, RequestDies(s)
         PROVE  IInv'
    BY <1>3, <1>4, <1>14, SameRows, QuietStep
       DEF RequestDies, EndRequest, Goto, Fill
  <1>15. CASE UNCHANGED vars
    BY <1>15
       DEF vars, TypeOK, Numbered, FormsFit, LoggedInIsVerified,
           SelectsHold, DuplicateOnlyByRace, SettingsAreOwn, Overlapped,
           Ids, Count, LoggedIn, IdsOf
  <1> QED
    BY <1>5, <1>6, <1>7, <1>8, <1>9, <1>10, <1>11, <1>12, <1>13, <1>14,
       <1>15, CheckStep, InsertStep DEF Next

(* The inductive invariant holds in every reachable state.                 *)
THEOREM Invariance == Spec => []IInv
  BY InitIInv, NextIInv, PTL DEF Spec

(* TypeOK: columns, sessions and requests keep their types, and userIds    *)
(* are assigned in order.                                                  *)
THEOREM TypeCorrect == Spec => []TypeOK
  <1>1. IInv => TypeOK
    BY DEF IInv
  <1> QED
    BY <1>1, Invariance, PTL

(* LoggedInIsVerified: a session is only ever logged in as one row, and    *)
(* that row was verified before the login and stays verified.              *)
THEOREM SessionsAreVerified == Spec => []LoggedInIsVerified
  <1>1. IInv => LoggedInIsVerified
    BY DEF IInv
  <1> QED
    BY <1>1, Invariance, PTL

(* DuplicateOnlyByRace: even without a unique index, two rows of one name  *)
(* come from registrations of which the later one ran its SELECT before    *)
(* the INSERT of the earlier one.                                          *)
THEOREM DuplicatesNeedARace == Spec => []DuplicateOnlyByRace
  <1>1. IInv => DuplicateOnlyByRace
    BY DEF IInv
  <1> QED
    BY <1>1, Invariance, PTL

-----------------------------------------------------------------------------
(* Somebody has posted the code of a row of that name.                     *)
Proven(n) == \E j \in IdsOf(n) : <<n, utenti[j].codice>> \in posted

(* Names are verified, or about to be, only when they are proven.          *)
RowJustified(i) == utenti[i].verificato => Proven(utenti[i].username)
RequestJustified(s) == pc[s] = "verify" => Proven(form[s].username)

Justified ==
  /\ \A i \in Ids : RowJustified(i)
  /\ \A s \in Sessions : RequestJustified(s)

(* Rows keep their name and their code, whatever runs, and are verified    *)
(* only by a request for their name.                                       *)
LEMMA RowsStay ==
  ASSUME IInv, [Next]_vars
  PROVE  /\ Ids \subseteq Ids' /\ posted \subseteq posted'
         /\ \A i \in Ids : /\ utenti'[i].username = utenti[i].username
                           /\ utenti'[i].codice = utenti[i].codice
         /\ \A i \in Ids' \ Ids : ~utenti'[i].verificato
         /\ \A i \in Ids :
              utenti'[i].verificato => \/ utenti[i].verificato
                                       \/ \E s \in Sessions :
                                            /\ pc[s] = "verify"
                                            /\ i \in IdsOf(form[s].username)
  <1>1. TypeOK /\ utenti \in [Ids -> Rows]
    BY DEF IInv, TypeOK
  <1>2. ASSUME NEW s \in Sessions, RegisterInsert(s)
        PROVE  /\ Ids \subseteq Ids' /\ posted' = posted
               /\ \A i \in Ids : utenti'[i] = utenti[i]
               /\ \A i \in Ids' \ Ids : ~utenti'[i].verificato
    <2>1. Count \in Nat /\ Ids = 1 .. Count
      BY NumberedCount DEF IInv
    <2>2. Count + 1 \notin Ids
      BY <2>1
    <2> QED
      BY <1>2, <2>2 DEF RegisterInsert, Ids, Count
  <1>3. ASSUME NEW s \in Sessions, VerifyUpdate(s)
        PROVE  /\ Ids' = Ids /\ posted' = posted
               /\ \A i \in Ids :
                    /\ utenti'[i].username = utenti[i].username
                    /\ utenti'[i].codice = utenti[i].codice
                    /\ utenti'[i].verificato =>
                         utenti[i].verificato \/ i \in IdsOf(form[s].username)
    BY <1>1, <1>3 DEF VerifyUpdate, Ids, Rows
  <1>4. ASSUME NEW s \in Sessions,
               PasswordUpdate(s) \/ \E e \in Emails : UpdateEmail(s, e)
        PROVE  /\ Ids' = Ids /\ posted' = posted
               /\ \A i \in Ids :
                    /\ utenti'[i].username = utenti[i].username
                    /\ utenti'[i].codice = utenti[i].codice
                    /\ utenti'[i].verificato = utenti[i].verificato
    BY <1>1, <1>4 DEF PasswordUpdate, UpdateEmail, Ids, Rows
  <1>5. CASE utenti' = utenti /\ posted \subseteq posted'
    BY <1>5 DEF Ids
  <1>6. CASE \E s \in Sessions :
               RegisterInsert(s) \/ VerifyUpdate(s) \/ PasswordUpdate(s)
               \/ \E e \in Emails : UpdateEmail(s, e)
    <2>1. ASSUME NEW s \in Sessions, VerifyUpdate(s)
          PROVE  pc[s] = "verify"
      BY <2>1 DEF VerifyUpdate
    <2> QED
      BY <1>2, <1>3, <1>4, <1>6, <2>1
  <1> QED
    BY <1>5, <1>6
       DEF Next, RegisterCheck, RegisterMail, VerifySelect, Login,
           LoginUnverified, Logout, PasswordSelect, RequestDies, vars

(* A name that is proven stays so.                                         *)
LEMMA ProvenStays ==
  ASSUME IInv, [Next]_vars, NEW n, Proven(n)
  PROVE  Proven(n)'
  <1>1. PICK j \in Ids :
          utenti[j].username = n /\ <<n, utenti[j].codice>> \in posted
    BY DEF Proven, IdsOf
  <1>2. /\ j \in Ids' /\ utenti'[j].username = n
        /\ <<n, utenti'[j].codice>> \in posted'
    BY <1>1, RowsStay
  <1> QED
    BY <1>2 DEF Proven, IdsOf

(* No step verifies a name without its code.                               *)
LEMMA JustifiedStep ==
  ASSUME IInv, Justified, [Next]_vars
  PROVE  Justified'
  <1>1. TypeOK
    BY DEF IInv
  <1>2. ASSUME NEW i \in Ids'
        PROVE  RowJustified(i)'
    <2>1. CASE ~utenti'[i].verificato
      BY <2>1 DEF RowJustified
    <2>2. CASE utenti'[i].verificato
      <3>1. i \in Ids /\ utenti'[i].username = utenti[i].username
        BY <2>2, RowsStay
      <3>2. CASE utenti[i].verificato
        <4>1. Proven(utenti[i].username)
          BY <3>1, <3>2 DEF Justified, RowJustified
        <4>2. PICK n : n = utenti[i].username
          OBVIOUS
        <4>3. Proven(n)'
          BY <4>1, <4>2, ProvenStays
        <4> QED
          BY <3>1, <4>2, <4>3 DEF RowJustified
      <3>3. ASSUME NEW s \in Sessions, pc[s] = "verify",
                   i \in IdsOf(form[s].username)
            PROVE  RowJustified(i)'
        <4>1. Proven(utenti[i].username)
          BY <3>3 DEF Justified, RequestJustified, IdsOf
        <4>2. PICK n : n = utenti[i].username
          OBVIOUS
        <4>3. Proven(n)'
          BY <4>1, <4>2, ProvenStays
        <4> QED
          BY <3>1, <4>2, <4>3 DEF RowJustified
      <3> QED
        BY <2>2, <3>1, <3>2, <3>3, RowsStay
    <2> QED
      BY <2>1, <2>2
  <1>3. ASSUME NEW s \in Sessions
        PROVE  RequestJustified(s)'
    <2>1. RequestJustified(s)
      BY DEF Justified
    <2>2. ASSUME NEW m \in Names, NEW c \in Codes, VerifySelect(s, m, c)
          PROVE  RequestJustified(s)'
      <3>1. pc'[s] = "verify" /\ form'[s] = [NoForm EXCEPT !.username = m]
        BY <1>1, <2>2 DEF VerifySelect, Fill, Goto, TypeOK
      <3>2. form'[s].username = m
        BY <3>1 DEF NoForm
      <3>3. PICK i \in Ids : utenti[i].username = m /\ utenti[i].codice = c
        BY <2>2 DEF VerifySelect, IdsOf
      <3>4. utenti' = utenti /\ <<m, c>> \in posted' /\ i \in Ids'
        BY <2>2, <3>3 DEF VerifySelect, Ids
      <3>5. Proven(m)'
        BY <3>3, <3>4 DEF Proven, IdsOf
      <3> QED
        BY <3>1, <3>2, <3>5 DEF RequestJustified
    <2>3. CASE pc'[s] # "verify"
      BY <2>3 DEF RequestJustified
    <2>4. CASE pc'[s] = pc[s] /\ form'[s] = form[s]
      <3>1. PICK n : n = form[s].username
        OBVIOUS
      <3>2. pc[s] = "verify" => Proven(n)'
        BY <2>1, <3>1, ProvenStays DEF RequestJustified
      <3> QED
        BY <2>1, <2>4, <3>1, <3>2 DEF RequestJustified
    <2>6. ASSUME NEW t \in Sessions \ {s},
                 \/ \E n \in Names, p \in Passwords, e \in Emails :
                      RegisterCheck(t, n, p, e)
                 \/ RegisterInsert(t) \/ RegisterMail(t)
                 \/ \E n \in Names, c \in Codes : VerifySelect(t, n, c)
                 \/ VerifyUpdate(t)
                 \/ \E n \in Names, p \in Passwords : Login(t, n, p)
                 \/ \E n \in Names : LoginUnverified(t, n)
                 \/ Logout(t)
                 \/ \E e \in Emails : UpdateEmail(t, e)
                 \/ \E p, q \in Passwords : PasswordSelect(t, p, q)
                 \/ PasswordUpdate(t)
                 \/ RequestDies(t)
          PROVE  pc'[s] = pc[s] /\ form'[s] = form[s]
      BY <1>1, <2>6
         DEF RegisterCheck, RegisterInsert, RegisterMail, VerifySelect,
             VerifyUpdate, Login, LoginUnverified, Logout, UpdateEmail,
             PasswordSelect, PasswordUpdate, RequestDies, EndRequest, Goto,
             Fill, TypeOK
    <2>7. CASE \/ \E n \in Names, p \in Passwords, e \in Emails :
                    RegisterCheck(s, n, p, e)
               \/ RegisterInsert(s) \/ RegisterMail(s) \/ VerifyUpdate(s)
               \/ \E n \in Names, p \in Passwords : Login(s, n, p)
               \/ \E n \in Names : LoginUnverified(s, n)
               \/ Logout(s)
               \/ \E e \in Emails : UpdateEmail(s, e)
               \/ \E p, q \in Passwords : PasswordSelect(s, p, q)
               \/ PasswordUpdate(s) \/ RequestDies(s)
      <3>1. pc'[s] # "verify"
        BY <1>1, <2>7
           DEF RegisterCheck, RegisterInsert, RegisterMail, VerifyUpdate, Login,
               LoginUnverified, Logout, UpdateEmail, PasswordSelect,
               PasswordUpdate, RequestDies, EndRequest, Goto, TypeOK
      <3> QED
        BY <2>3, <3>1
    <2>8. CASE UNCHANGED vars
      BY <2>4, <2>8 DEF vars
    <2> QED
      BY <2>2, <2>4, <2>6, <2>7, <2>8 DEF Next
  <1> QED
    BY <1>2, <1>3 DEF Justified

(* Justified holds in every reachable state.                               *)
LEMMA JustifiedAlways == Spec => []Justified
  <1>1. Init => Justified
    BY DEF Init, Justified, RequestJustified, Ids
  <1>2. IInv /\ Justified /\ [Next]_vars => Justified'
    BY JustifiedStep
  <1> QED
    BY <1>1, <1>2, Invariance, PTL DEF Spec

(* VerifiedByItsCode: a row is verified only after the code of that row,   *)
(* or of one that a race has given the same name, has been posted.         *)
THEOREM VerificationTakesTheCode == Spec => []VerifiedByItsCode
  <1>1. ASSUME Justified, DuplicateOnlyByRace, NEW i \in Ids,
               utenti[i].verificato
        PROVE  \E j \in Ids :
                 /\ <<utenti[i].username, utenti[j].codice>> \in posted
                 /\ j = i \/ (/\ utenti[j].username = utenti[i].username
                             /\ Overlapped(i, j))
    <2>1. Proven(utenti[i].username)
      BY <1>1 DEF Justified, RowJustified
    <2>2. PICK j \in Ids : /\ utenti[j].username = utenti[i].username
                           /\ <<utenti[i].username, utenti[j].codice>> \in posted
      BY <2>1 DEF Proven, IdsOf
    <2>3. j = i \/ Overlapped(i, j)
      BY <1>1, <2>2 DEF DuplicateOnlyByRace
    <2> QED
      BY <2>2, <2>3
  <1>2. Justified /\ IInv => VerifiedByItsCode
    BY <1>1, Zenon DEF VerifiedByItsCode, IInv
  <1> QED
    BY <1>2, JustifiedAlways, Invariance, PTL

(* SettingsAreOwn: a session changes the email and the password of the row *)
(* of its own userId, and of another row only if overlapping registrations *)
(* gave both one name.                                                     *)
THEOREM SettingsStayOwn == Spec => []SettingsAreOwn
  <1>1. IInv => SettingsAreOwn
    BY DEF IInv
  <1> QED
    BY <1>1, Invariance, PTL
=============================================================================
