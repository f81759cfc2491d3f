------------------------------- MODULE Account -------------------------------
(***************************************************************************)
(* Accounts: register_handler.php, verifica_handler.php,                   *)
(* login_handler.php, logout.php, update_email.php, update_password.php.   *)
(*                                                                         *)
(* The table Utenti is found by username in every handler.  Whether the    *)
(* database declares username UNIQUE is not in the repository, so that the *)
(* model does not rely on it: the only guard is the handler's own SELECT.  *)
(***************************************************************************)
EXTENDS Integers, FiniteSets

CONSTANTS
  Sessions,    \* PHP sessions (browsers)
  Names,       \* usernames
  Passwords,   \* passwords; a stored hash matches its password only
  Emails,      \* email addresses
  Codes,       \* verification codes, rand(100000, 999999)
  NoName,      \* the username of a session that is not logged in
  MaxRows      \* bound: number of Utenti rows ever inserted

ASSUME AccountAssumption ==
  NoName \notin Names /\ MaxRows \in Nat /\ Passwords # {} /\ Emails # {}

VARIABLES
  utenti,    \* Utenti: the rows 1 .. n by userId
  session,   \* $_SESSION['username'] and $_SESSION['userId']
  pc,        \* next statement of each session's request
  form,      \* what the request has been posted
  mailed,    \* external: userIds whose code reached the mailbox
  told,      \* history: userIds whom the login page sent to their mailbox
  posted,    \* history: <<username, code>> that verifica.php has received
  written    \* history: <<u, i>> if a session of userId u has changed the
             \* email or the password of another row i

vars == <<utenti, session, pc, form, mailed, told, posted, written>>

(* "seen" is history: the number of rows when the SELECT of the            *)
(* registration ran.                                                       *)
Rows == [username : Names, password : Passwords, email : Emails,
         codice : Codes, verificato : BOOLEAN, seen : Nat]

LoggedOut == [username |-> NoName, userId |-> 0]

(* "rows" is history: the number of Utenti rows when the request's SELECT  *)
(* ran.                                                                    *)
Forms == [username : Names \cup {NoName}, password : Passwords,
          email : Emails, rows : Nat]
NoForm == [username |-> NoName, password |-> CHOOSE p \in Passwords : TRUE,
           email |-> CHOOSE e \in Emails : TRUE, rows |-> 0]

Ids == DOMAIN utenti
IdsOf(n) == {i \in Ids : utenti[i].username = n}
LoggedIn(s) == session[s] # LoggedOut

Init ==
  /\ utenti = [i \in {} |-> 0]
  /\ session = [s \in Sessions |-> LoggedOut]
  /\ pc = [s \in Sessions |-> "idle"]
  /\ form = [s \in Sessions |-> NoForm]
  /\ mailed = {}
  /\ told = {}
  /\ posted = {}
  /\ written = {}

Goto(s, label) == pc' = [pc EXCEPT ![s] = label]
Fill(s, f) == form' = [form EXCEPT ![s] = f]
EndRequest(s) == Goto(s, "idle") /\ Fill(s, NoForm)

-----------------------------------------------------------------------------
(* register_handler.php                                                    *)

(* Mutant of RegisterCheck: the SELECT that looks for the name is missing. *)
RegisterCheck_Missing(s, n, p, e) ==
  /\ pc[s] = "idle"
  /\ Fill(s, [username |-> n, password |-> p, email |-> e,
              rows |-> Cardinality(Ids)])
  /\ Goto(s, "insert")
  /\ UNCHANGED <<utenti, session, mailed, told, posted, written>>

(* A name that is taken ends the request with nothing changed.             *)
RegisterCheck(s, n, p, e) ==
  /\ pc[s] = "idle"
  /\ IdsOf(n) = {}
  /\ Fill(s, [username |-> n, password |-> p, email |-> e,
              rows |-> Cardinality(Ids)])
  /\ Goto(s, "insert")
  /\ UNCHANGED <<utenti, session, mailed, told, posted, written>>

(* Mutant of DrawnCodes: a variable that was never assigned.               *)
DrawnCodes_Unset == {0}

(* strval(rand(100000, 999999))                                            *)
DrawnCodes == Codes

(* INSERT INTO Utenti (...) with a fresh code and verificato = 0.  The new *)
(* userId stays in "rows" for the mail.                                    *)
RegisterInsert(s) ==
  LET id == Cardinality(Ids) + 1 IN
  /\ pc[s] = "insert"
  /\ id <= MaxRows
  /\ \E c \in DrawnCodes :
       utenti' = [i \in Ids \cup {id} |->
         IF i = id
         THEN [username |-> form[s].username, password |-> form[s].password,
               email |-> form[s].email, codice |-> c, verificato |-> FALSE,
               seen |-> form[s].rows]
         ELSE utenti[i]]
  /\ Fill(s, [form[s] EXCEPT !.rows = id])
  /\ Goto(s, "mail")
  /\ UNCHANGED <<session, mailed, told, posted, written>>

(* mail(...): its result is ignored, and so is a mail server that is down. *)
RegisterMail(s) ==
  /\ pc[s] = "mail"
  /\ mailed' \in {mailed, mailed \cup {form[s].rows}}
  /\ EndRequest(s)
  /\ UNCHANGED <<utenti, session, told, posted, written>>

-----------------------------------------------------------------------------
(* verifica_handler.php                                                    *)

(* Mutant of VerifySelect: any code will do.                               *)
VerifySelect_AnyCode(s, n, c) ==
  /\ pc[s] = "idle"
  /\ posted' = posted \cup {<<n, c>>}
  /\ IdsOf(n) # {}
  /\ Fill(s, [NoForm EXCEPT !.username = n])
  /\ Goto(s, "verify")
  /\ UNCHANGED <<utenti, session, mailed, told, written>>

(* SELECT codiceVerifica ... WHERE username = ?; the first row counts.  A  *)
(* code that differs ends the request.                                     *)
VerifySelect(s, n, c) ==
  /\ pc[s] = "idle"
  /\ posted' = posted \cup {<<n, c>>}
  /\ \E i \in IdsOf(n) : utenti[i].codice = c
  /\ Fill(s, [NoForm EXCEPT !.username = n])
  /\ Goto(s, "verify")
  /\ UNCHANGED <<utenti, session, mailed, told, written>>

(* UPDATE Utenti SET verificato = 1 WHERE username = ?                     *)
VerifyUpdate(s) ==
  /\ pc[s] = "verify"
  /\ utenti' = [i \in Ids |-> IF i \in IdsOf(form[s].username)
                              THEN [utenti[i] EXCEPT !.verificato = TRUE]
                              ELSE utenti[i]]
  /\ EndRequest(s)
  /\ UNCHANGED <<session, mailed, told, posted, written>>

-----------------------------------------------------------------------------
(* login_handler.php: one SELECT, first row.  An unknown name or a wrong   *)
(* password changes nothing.                                               *)

(* Mutant of Login: the password is checked, verificato is not.            *)
Login_Unverified(s, n, p) ==
  /\ pc[s] = "idle"
  /\ \E i \in IdsOf(n) :
       /\ utenti[i].password = p
       /\ session' = [session EXCEPT ![s] = [username |-> n, userId |-> i]]
  /\ UNCHANGED <<utenti, pc, form, mailed, told, posted, written>>

Login(s, n, p) ==
  /\ pc[s] = "idle"
  /\ \E i \in IdsOf(n) :
       /\ utenti[i].verificato
       /\ utenti[i].password = p
       /\ session' = [session EXCEPT ![s] = [username |-> n, userId |-> i]]
  /\ UNCHANGED <<utenti, pc, form, mailed, told, posted, written>>

(* error=verifica comes before the password is looked at.                  *)
LoginUnverified(s, n) ==
  /\ pc[s] = "idle"
  /\ \E i \in IdsOf(n) :
       /\ ~utenti[i].verificato
       /\ told' = told \cup {i}
  /\ UNCHANGED <<utenti, session, pc, form, mailed, posted, written>>

(* logout.php: session_unset(), session_destroy()                          *)
Logout(s) ==
  /\ pc[s] = "idle"
  /\ LoggedIn(s)
  /\ session' = [session EXCEPT ![s] = LoggedOut]
  /\ UNCHANGED <<utenti, pc, form, mailed, told, posted, written>>

-----------------------------------------------------------------------------
(* update_email.php and update_password.php, for a session logged in.      *)

(* The history of an UPDATE: who has changed which rows of others.         *)
RecordWrites(s) ==
  LET u == session[s].userId IN
  written' = written \cup
    {<<u, i>> : i \in {j \in Ids \ {u} : utenti'[j] # utenti[j]}}

(* Mutant of UpdateEmail: the WHERE clause is missing.                     *)
UpdateEmail_EveryRow(s, e) ==
  /\ pc[s] = "idle"
  /\ LoggedIn(s)
  /\ utenti' = [i \in Ids |-> [utenti[i] EXCEPT !.email = e]]
  /\ RecordWrites(s)
  /\ UNCHANGED <<session, pc, form, mailed, told, posted>>

(* UPDATE Utenti SET email = ? WHERE username = ?                          *)
UpdateEmail(s, e) ==
  /\ pc[s] = "idle"
  /\ LoggedIn(s)
  /\ utenti' = [i \in Ids |-> IF i \in IdsOf(session[s].username)
                              THEN [utenti[i] EXCEPT !.email = e]
                              ELSE utenti[i]]
  /\ RecordWrites(s)
  /\ UNCHANGED <<session, pc, form, mailed, told, posted>>

(* SELECT passwordHash; a wrong current password ends the request.         *)
PasswordSelect(s, current, new) ==
  /\ pc[s] = "idle"
  /\ LoggedIn(s)
  /\ \E i \in IdsOf(session[s].username) : utenti[i].password = current
  /\ Fill(s, [NoForm EXCEPT !.password = new])
  /\ Goto(s, "set_password")
  /\ UNCHANGED <<utenti, session, mailed, told, posted, written>>

(* UPDATE Utenti SET passwordHash = ? WHERE username = ?                   *)
PasswordUpdate(s) ==
  /\ pc[s] = "set_password"
  /\ utenti' = [i \in Ids |-> IF i \in IdsOf(session[s].username)
                              THEN [utenti[i] EXCEPT !.password = form[s].password]
                              ELSE utenti[i]]
  /\ RecordWrites(s)
  /\ EndRequest(s)
  /\ UNCHANGED <<session, mailed, told, posted>>

-----------------------------------------------------------------------------
(* The script or the server stops, or a statement throws.                  *)
RequestDies(s) ==
  /\ pc[s] # "idle"
  /\ EndRequest(s)
  /\ UNCHANGED <<utenti, session, mailed, told, posted, written>>

Next == \E s \in Sessions :
  \/ \E n \in Names, p \in Passwords, e \in Emails : RegisterCheck(s, n, p, e)
  \/ RegisterInsert(s) \/ RegisterMail(s)
  \/ \E n \in Names, c \in Codes : VerifySelect(s, n, c)
  \/ VerifyUpdate(s)
  \/ \E n \in Names, p \in Passwords : Login(s, n, p)
  \/ \E n \in Names : LoginUnverified(s, n)
  \/ Logout(s)
  \/ \E e \in Emails : UpdateEmail(s, e)
  \/ \E p, q \in Passwords : PasswordSelect(s, p, q)
  \/ PasswordUpdate(s)
  \/ RequestDies(s)

Spec == Init /\ [][Next]_vars

-----------------------------------------------------------------------------
(* Every variable holds a value of its column or PHP variable, and userIds *)
(* are assigned in order.                                                  *)
TypeOK ==
  /\ Ids = 1 .. Cardinality(Ids)
  /\ utenti \in [Ids -> Rows]
  /\ session \in [Sessions ->
       [username : Names \cup {NoName}, userId : Nat]]
  /\ pc \in [Sessions -> {"idle", "insert", "mail", "verify", "set_password"}]
  /\ form \in [Sessions -> Forms]
  /\ mailed \subseteq Ids
  /\ told \subseteq Ids
  /\ posted \subseteq Names \X Codes
  /\ written \subseteq Ids \X Ids

(* A session that is logged in refers, by userId and by username, to one   *)
(* and the same row, and that row has been verified.                       *)
LoggedInIsVerified ==
  \A s \in Sessions : LoggedIn(s) =>
    /\ session[s].userId \in IdsOf(session[s].username)
    /\ utenti[session[s].userId].verificato

(* The registrations of two rows ran at the same time: the SELECT of the   *)
(* later one came before the INSERT of the earlier one.                    *)
Overlapped(i, j) ==
  \/ i < j /\ utenti[j].seen < i
  \/ j < i /\ utenti[i].seen < j

(* Two rows of one name come from two registrations at the same time,      *)
(* never from one after the other, however long each takes.                *)
DuplicateOnlyByRace ==
  \A i, j \in Ids :
    i # j /\ utenti[i].username = utenti[j].username => Overlapped(i, j)

(* A row is verified only after somebody has posted, for its name, the     *)
(* code of that row or of one that a race has given the same name.         *)
VerifiedByItsCode ==
  \A i \in Ids : utenti[i].verificato =>
    \E j \in Ids :
      /\ <<utenti[i].username, utenti[j].codice>> \in posted
      /\ j = i \/ (/\ utenti[j].username = utenti[i].username
                  /\ Overlapped(i, j))

(* A session changes the email and the password of the row of its own      *)
(* userId, although the handlers look the row up by username.  It reaches  *)
(* another row only if a race at registration has given both one name.     *)
SettingsAreOwn ==
  \A u, i \in Ids : <<u, i>> \in written =>
    utenti[u].username = utenti[i].username /\ Overlapped(u, i)

(* "Account non verificato. Controlla la tua email.": the login page sends *)
(* users to a mailbox that has their code.                                 *)
CodeIsInMailbox == told \subseteq mailed

=============================================================================
