------------------------------ MODULE Accounts ------------------------------
(* Registration and login: overlapping requests against the table users, whose  *)
(* unique indexes are all that keeps two registrations apart, since the service *)
(* asks nothing before it inserts.                                              *)
(*                                                                              *)
(* A text as a client writes it is a value, with or without blanks around it.   *)
(* Hashing and comparing are one local step each: a hash matches the password   *)
(* it was made of.                                                              *)
EXTENDS Naturals

CONSTANTS Registrations,  \* requests POST /api/auth/register; their ids too
          Logins,         \* requests POST /api/auth/login
          Names, Emails, Passwords,
          GoodNames,      \* 1 to 50 bytes
          GoodEmails,     \* with "@" and ".", at most 255 bytes
          GoodPasswords,  \* 8 bytes for Validate, to the 72 that bcrypt accepts
          LoginEmails,    \* with "@": a login is asked for no more
          LoginPasswords, \* not empty
          NoAccount       \* no row, no form

ASSUME GoodAssumption ==
  /\ GoodNames \subseteq Names
  /\ GoodEmails \subseteq LoginEmails /\ LoginEmails \subseteq Emails
  /\ GoodPasswords \subseteq LoginPasswords /\ LoginPasswords \subseteq Passwords

VARIABLES
  users,  \* the rows: id, username, email, and the password of the hash
  reg,    \* how far each registration is, or its answer
  form,   \* what it was asked to register
  login,  \* how far each login is, or its answer
  cred,   \* the credentials written
  found,  \* the row it read
  known   \* history: registrations answered 201 when it began

regVars     == <<users, reg, form>>
loginVars   == <<login, cred, found, known>>
vars == <<regVars, loginVars>>

Text(S) == [value : S, blanks : BOOLEAN]
Forms == [name : Text(Names), email : Text(Emails), password : Passwords]
Credentials == [email : Text(Emails), password : Passwords]

TrimSpace(text) == [text EXCEPT !.blanks = FALSE]

Init ==
  /\ users = {}
  /\ reg = [r \in Registrations |-> "new"]
  /\ form = [r \in Registrations |-> NoAccount]
  /\ login = [l \in Logins |-> "new"]
  /\ cred = [l \in Logins |-> NoAccount]
  /\ found = [l \in Logins |-> NoAccount]
  /\ known = [l \in Logins |-> {}]

-----------------------------------------------------------------------------
(* Register.                                                                   *)

Validate(f) ==
  f.name.value \in GoodNames /\ f.email.value \in GoodEmails /\ f.password \in GoodPasswords

\* mutant: what was written goes into the table as it is
AccountAsWritten(r) ==
  [id |-> r, name |-> form[r].name, email |-> form[r].email, password |-> form[r].password]

\* Validate has trimmed the texts in place.
Account(r) ==
  [id |-> r, name |-> TrimSpace(form[r].name), email |-> TrimSpace(form[r].email),
   password |-> form[r].password]

\* UNIQUE (username), UNIQUE (email).
Taken(account) ==
  \E u \in users : u.name = account.name \/ u.email = account.email

\* Validate and bcrypt: 422 for what they refuse.
BeginRegister(r, f) ==
  /\ reg[r] = "new"
  /\ form' = [form EXCEPT ![r] = f]
  /\ reg' = [reg EXCEPT ![r] = IF Validate(f) THEN "inserting" ELSE "refused"]
  /\ UNCHANGED <<users, loginVars>>

RegAnswer(r, answer) ==
  /\ reg[r] = "inserting"
  /\ reg' = [reg EXCEPT ![r] = answer]
  /\ UNCHANGED <<form, loginVars>>

Insert(r) ==
  /\ RegAnswer(r, "created")
  /\ ~Taken(Account(r))
  /\ users' = users \cup {Account(r)}

\* 23505 of either index: ErrEmailAlreadyExists, 409.
InsertRefused(r) ==
  /\ RegAnswer(r, "conflict")
  /\ Taken(Account(r))
  /\ UNCHANGED users

\* mutant: every error of INSERT is taken for 23505
InsertFailsAsConflict(r) ==
  /\ RegAnswer(r, "conflict")
  /\ \/ UNCHANGED users
     \/ ~Taken(Account(r)) /\ users' = users \cup {Account(r)}

\* Any other error, 422, with or without the row: the connection breaks before or
\* after the statement has taken effect, or the client leaves.
InsertFails(r) ==
  /\ RegAnswer(r, "failed")
  /\ \/ UNCHANGED users
     \/ ~Taken(Account(r)) /\ users' = users \cup {Account(r)}

-----------------------------------------------------------------------------
(* Login.                                                                      *)

ValidateLogin(c) == c.email.value \in LoginEmails /\ c.password \in LoginPasswords

BeginLogin(l, c) ==
  /\ login[l] = "new"
  /\ cred' = [cred EXCEPT ![l] = c]
  /\ known' = [known EXCEPT ![l] = {r \in Registrations : reg[r] = "created"}]
  /\ login' = [login EXCEPT ![l] = IF ValidateLogin(c) THEN "reading" ELSE "refused"]
  /\ UNCHANGED <<regVars, found>>

\* mutant: no row is no error
ReadUserUnchecked(l) ==
  /\ login[l] = "reading"
  /\ login' = [login EXCEPT ![l] = "comparing"]
  /\ \/ UNCHANGED found
     \/ \E u \in users :
          u.email = TrimSpace(cred[l].email) /\ found' = [found EXCEPT ![l] = u]
  /\ UNCHANGED <<regVars, cred, known>>

\* GetByEmail, of the trimmed e-mail: at most one row.
ReadUser(l) ==
  /\ login[l] = "reading"
  /\ LET rows == {u \in users : u.email = TrimSpace(cred[l].email)}
     IN  IF rows = {}
         THEN login' = [login EXCEPT ![l] = "unauthorized"] /\ UNCHANGED found
         ELSE /\ login' = [login EXCEPT ![l] = "comparing"]
              /\ \E u \in rows : found' = [found EXCEPT ![l] = u]
  /\ UNCHANGED <<regVars, cred, known>>

ReadUserFails(l) ==
  /\ login[l] = "reading"
  /\ login' = [login EXCEPT ![l] = "failed"]
  /\ UNCHANGED <<regVars, cred, found, known>>

\* CompareHashAndPassword: a pair of tokens, or 401.
Compare(l) ==
  /\ login[l] = "comparing"
  /\ login' = [login EXCEPT ![l] =
                 IF found[l].password = cred[l].password THEN "pair" ELSE "unauthorized"]
  /\ UNCHANGED <<regVars, cred, found, known>>

Next ==
  \/ \E r \in Registrations :
       \/ \E f \in Forms : BeginRegister(r, f)
       \/ Insert(r) \/ InsertRefused(r) \/ InsertFails(r)
  \/ \E l \in Logins :
       \/ \E c \in Credentials : BeginLogin(l, c)
       \/ ReadUser(l) \/ ReadUserFails(l) \/ Compare(l)

Spec == Init /\ [][Next]_vars

-----------------------------------------------------------------------------
(* Safety.                                                                     *)

Rows == [id : Registrations, name : Text(Names), email : Text(Emails), password : Passwords]

\* Types; a request that has begun has a form, a login that compares has a row.
TypeOK ==
  /\ users \subseteq Rows
  /\ reg \in [Registrations -> {"new", "inserting", "created", "conflict", "refused", "failed"}]
  /\ form \in [Registrations -> Forms \cup {NoAccount}]
  /\ \A r \in Registrations : reg[r] # "new" => form[r] \in Forms
  /\ login \in [Logins -> {"new", "reading", "comparing", "pair", "unauthorized", "refused", "failed"}]
  /\ cred \in [Logins -> Credentials \cup {NoAccount}]
  /\ \A l \in Logins : login[l] # "new" => cred[l] \in Credentials
  /\ found \in [Logins -> Rows \cup {NoAccount}]
  /\ \A l \in Logins : login[l] = "comparing" => found[l] \in Rows
  /\ known \in [Logins -> SUBSET Registrations]

SameAddress(r, l) == form[r].email.value = cred[l].email.value

\* Whoever was answered 201 can log in from then on with the e-mail and password as
\* they were written, blanks around the e-mail or not, whatever else is registered.
CreatedCanLogIn ==
  \A l \in Logins : \A r \in known[l] :
    SameAddress(r, l) /\ form[r].password = cred[l].password =>
      login[l] \notin {"unauthorized", "refused"}

Clash(r, u) ==
  u.id # r /\ (u.name = TrimSpace(form[r].name) \/ u.email = TrimSpace(form[r].email))

\* user.go and auth.go: 201 means a row and 409 that another registration holds the
\* name or the e-mail, also between requests that overlap; only after another error
\* can the client not know. So of equal names or e-mails at most one is answered 201.
AnswersAreTrue ==
  \A r \in Registrations :
    LET own == {u \in users : u.id = r}
    IN  /\ reg[r] = "created" => own = {Account(r)} /\ \A u \in users : ~Clash(r, u)
        /\ reg[r] = "conflict" => own = {} /\ \E u \in users : Clash(r, u)
        /\ reg[r] \in {"new", "inserting", "refused"} => own = {}
=============================================================================
