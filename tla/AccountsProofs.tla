--------------------------- MODULE AccountsProofs ---------------------------
(* Proofs about Accounts, for any registrations, logins, names and e-mails.     *)
(*                                                                              *)
(* The argument: a row is the trimmed form of a registration that has been      *)
(* answered, nothing removes or changes it, and no two rows share a name or an  *)
(* e-mail. So the row that a login finds by its e-mail is the one of whoever    *)
(* registered it, and a 409 stays true once it was.                             *)
EXTENDS Accounts, TLAPS

\* A row is the account of its registration, which has been answered.
RowsAreAccounts ==
  \A u \in users : u = Account(u.id) /\ reg[u.id] \in {"created", "failed"}

NamesAndEmailsUnique ==
  \A u, v \in users : u.name = v.name \/ u.email = v.email => u = v

CreatedHaveRows ==
  \A r \in Registrations : reg[r] = "created" => Account(r) \in users

OnlyValidInserted ==
  \A r \in Registrations : reg[r] \in {"inserting", "created"} => Validate(form[r])

KnownAreCreated == \A l \in Logins : \A r \in known[l] : reg[r] = "created"

\* What a login compares with is the row of its e-mail.
FoundByEmail ==
  \A l \in Logins : login[l] = "comparing" =>
    found[l] \in users /\ found[l].email = TrimSpace(cred[l].email)

IInv ==
  /\ TypeOK /\ RowsAreAccounts /\ NamesAndEmailsUnique /\ CreatedHaveRows
  /\ OnlyValidInserted /\ KnownAreCreated /\ FoundByEmail
  /\ CreatedCanLogIn /\ AnswersAreTrue

USE GoodAssumption
USE DEF regVars, loginVars

\* Texts that differ in blanks only are the same once they are trimmed.
LEMMA TrimSame ==
  ASSUME NEW S, NEW t \in Text(S), NEW u \in Text(S)
  PROVE  /\ TrimSpace(t) \in Text(S) /\ TrimSpace(t).value = t.value
         /\ t.value = u.value => TrimSpace(t) = TrimSpace(u)
BY DEF Text, TrimSpace

\* What an INSERT puts into the table.
LEMMA AccountTyped ==
  ASSUME NEW r, r \in Registrations, form[r] \in Forms
  PROVE  /\ Account(r) \in Rows /\ Account(r).id = r
         /\ Account(r).name = TrimSpace(form[r].name)
         /\ Account(r).email = TrimSpace(form[r].email)
         /\ Account(r).password = form[r].password
BY TrimSame DEF Forms, Account, Rows

\* A row that is free when it is inserted clashes with nobody who was answered.
LEMMA InsertedIsTrue ==
  ASSUME IInv, NEW r \in Registrations, reg[r] = "inserting", ~Taken(Account(r)),
         users' = users \cup {Account(r)}, UNCHANGED form,
         NEW answer \in {"created", "failed"}, reg' = [reg EXCEPT ![r] = answer]
  PROVE  AnswersAreTrue'
<1>1. \A s \in Registrations : reg[s] # "new" =>
        /\ Account(s).id = s /\ Account(s).name = TrimSpace(form[s].name)
        /\ Account(s).email = TrimSpace(form[s].email)
  BY AccountTyped DEF IInv, TypeOK
<1>2. \A s \in Registrations : Account(s)' = Account(s)
  BY DEF Account
<1>3. {u \in users' : u.id = r} = {Account(r)}
  BY <1>1 DEF IInv, AnswersAreTrue
<1>4. \A s \in Registrations : s # r => {u \in users' : u.id = s} = {u \in users : u.id = s}
  BY <1>1
<1>5. \A s \in Registrations : s # r => reg'[s] = reg[s]
  BY DEF IInv, TypeOK
<1>6. reg'[r] = answer
  BY DEF IInv, TypeOK
<1>7. \A u \in users : ~Clash(r, u)
  BY <1>1 DEF Clash, Taken
<1>8. \A s \in Registrations : s # r /\ reg[s] = "created" => ~Clash(s, Account(r))
  BY <1>1 DEF IInv, CreatedHaveRows, Clash, Taken
<1>9. ~Clash(r, Account(r))
  BY <1>1 DEF Clash
<1>10. \A s \in Registrations : \A u : Clash(s, u)' = Clash(s, u)
  BY DEF Clash
<1> SUFFICES ASSUME NEW s \in Registrations
             PROVE  LET own == {u \in users' : u.id = s}
                    IN  /\ reg'[s] = "created" =>
                             own = {Account(s)'} /\ \A u \in users' : ~Clash(s, u)'
                        /\ reg'[s] = "conflict" => own = {} /\ \E u \in users' : Clash(s, u)'
                        /\ reg'[s] \in {"new", "inserting", "refused"} => own = {}
  BY DEF AnswersAreTrue
<1>11. CASE s = r
  BY <1>2, <1>3, <1>6, <1>7, <1>9, <1>10, <1>11
<1>12. CASE s # r
  BY <1>2, <1>4, <1>5, <1>8, <1>10, <1>12 DEF IInv, AnswersAreTrue
<1> QED
  BY <1>11, <1>12

\* A registration that was answered before a login is in the table for it.
LEMMA KnownRow ==
  ASSUME IInv, NEW l \in Logins, login[l] # "new", NEW r \in known[l],
         SameAddress(r, l)
  PROVE  /\ Account(r) \in users /\ Account(r).email = TrimSpace(cred[l].email)
         /\ Account(r).password = form[r].password
<1>1. r \in Registrations /\ reg[r] = "created" /\ form[r] \in Forms /\ cred[l] \in Credentials
  BY DEF IInv, TypeOK, KnownAreCreated
<1>2. Account(r) \in users
  BY <1>1 DEF IInv, CreatedHaveRows
<1>3. /\ Account(r).email = TrimSpace(form[r].email)
      /\ Account(r).password = form[r].password
  BY <1>1, AccountTyped
<1>4. TrimSpace(form[r].email) = TrimSpace(cred[l].email)
  BY <1>1, TrimSame DEF Forms, Credentials, SameAddress
<1> QED
  BY <1>2, <1>3, <1>4

\* The table is empty.
LEMMA InitInv == Init => IInv
BY DEF Init, IInv, TypeOK, RowsAreAccounts,
       NamesAndEmailsUnique, CreatedHaveRows, OnlyValidInserted,
       KnownAreCreated, FoundByEmail, CreatedCanLogIn, AnswersAreTrue

\* Every step of a registration and of a login keeps IInv: first the parts the
\* step leaves as they were or keeps by themselves, then the others.
LEMMA StepInv == IInv /\ [Next]_vars => IInv'
<1> SUFFICES ASSUME IInv, [Next]_vars PROVE IInv'
  OBVIOUS
<1>1. ASSUME NEW r \in Registrations, NEW f \in Forms, BeginRegister(r, f) PROVE IInv'
  <2>1. /\ TypeOK' /\ RowsAreAccounts' /\ NamesAndEmailsUnique'
       /\ CreatedHaveRows' /\ KnownAreCreated' /\ FoundByEmail'
       /\ AnswersAreTrue'
    BY <1>1
    DEF IInv, TypeOK, RowsAreAccounts, NamesAndEmailsUnique,
        CreatedHaveRows, KnownAreCreated, FoundByEmail, AnswersAreTrue,
        Account, Clash, BeginRegister
  <2>2. OnlyValidInserted'
    BY <1>1 DEF IInv, TypeOK, OnlyValidInserted, BeginRegister
  <2>3. CreatedCanLogIn'
    BY <1>1
    DEF IInv, RowsAreAccounts, NamesAndEmailsUnique, CreatedHaveRows,
        OnlyValidInserted, KnownAreCreated, FoundByEmail, CreatedCanLogIn,
        Account, SameAddress, BeginRegister
  <2> QED BY <2>1, <2>2, <2>3 DEF IInv
<1>2. ASSUME NEW r \in Registrations, Insert(r) PROVE IInv'
  <2>1. /\ NamesAndEmailsUnique' /\ CreatedHaveRows' /\ OnlyValidInserted'
       /\ KnownAreCreated' /\ FoundByEmail' /\ CreatedCanLogIn'
    BY <1>2
    DEF IInv, TypeOK, NamesAndEmailsUnique, CreatedHaveRows,
        OnlyValidInserted, KnownAreCreated, FoundByEmail, CreatedCanLogIn,
        Account, SameAddress, Insert, RegAnswer, Taken
  <2>2. TypeOK'
    <3>1. form[r] \in Forms
      BY <1>2 DEF IInv, TypeOK, Insert, RegAnswer
    <3>2. Account(r) \in Rows
      BY <3>1, AccountTyped
    <3> QED
      BY <1>2, <3>2 DEF IInv, TypeOK, Insert, RegAnswer, Taken
  <2>3. RowsAreAccounts'
    BY <1>2
    DEF IInv, TypeOK, RowsAreAccounts, Account, Insert,
        RegAnswer, Taken
  <2>4. AnswersAreTrue'
    BY <1>2, InsertedIsTrue DEF Insert, RegAnswer
  <2> QED BY <2>1, <2>2, <2>3, <2>4 DEF IInv
<1>3. ASSUME NEW r \in Registrations, InsertRefused(r) PROVE IInv'
  <2>1. /\ TypeOK' /\ RowsAreAccounts' /\ NamesAndEmailsUnique'
       /\ CreatedHaveRows' /\ OnlyValidInserted' /\ KnownAreCreated'
       /\ FoundByEmail' /\ CreatedCanLogIn' /\ AnswersAreTrue'
    BY <1>3
    DEF IInv, TypeOK, RowsAreAccounts, NamesAndEmailsUnique,
        CreatedHaveRows, OnlyValidInserted, KnownAreCreated, FoundByEmail,
        CreatedCanLogIn, AnswersAreTrue, Account, Clash, SameAddress,
        InsertRefused, RegAnswer, Taken
  <2> QED BY <2>1 DEF IInv
<1>4. ASSUME NEW r \in Registrations, InsertFails(r) PROVE IInv'
  <2>1. /\ NamesAndEmailsUnique' /\ CreatedHaveRows' /\ OnlyValidInserted'
       /\ KnownAreCreated' /\ FoundByEmail' /\ CreatedCanLogIn'
    BY <1>4
    DEF IInv, TypeOK, NamesAndEmailsUnique, CreatedHaveRows,
        OnlyValidInserted, KnownAreCreated, FoundByEmail, CreatedCanLogIn,
        Account, SameAddress, InsertFails, RegAnswer, Taken
  <2>2. TypeOK'
    <3>1. form[r] \in Forms
      BY <1>4 DEF IInv, TypeOK, InsertFails, RegAnswer
    <3>2. Account(r) \in Rows
      BY <3>1, AccountTyped
    <3> QED
      BY <1>4, <3>2 DEF IInv, TypeOK, InsertFails, RegAnswer, Taken
  <2>3. RowsAreAccounts'
    BY <1>4
    DEF IInv, TypeOK, RowsAreAccounts, Account, InsertFails,
        RegAnswer, Taken
  <2>4. AnswersAreTrue'
    <3>1. CASE UNCHANGED users
      BY <1>4, <3>1 DEF IInv, TypeOK, AnswersAreTrue, Account, Clash,
        InsertFails, RegAnswer
    <3> QED
      BY <1>4, <3>1, InsertedIsTrue DEF InsertFails, RegAnswer
  <2> QED BY <2>1, <2>2, <2>3, <2>4 DEF IInv
<1>5. ASSUME NEW l \in Logins, NEW c \in Credentials, BeginLogin(l, c) PROVE IInv'
  <2>1. /\ TypeOK' /\ RowsAreAccounts' /\ NamesAndEmailsUnique'
       /\ CreatedHaveRows' /\ OnlyValidInserted' /\ KnownAreCreated'
       /\ FoundByEmail' /\ AnswersAreTrue'
    BY <1>5
    DEF IInv, TypeOK, RowsAreAccounts, NamesAndEmailsUnique,
        CreatedHaveRows, OnlyValidInserted, KnownAreCreated, FoundByEmail,
        AnswersAreTrue, Account, Clash, BeginLogin
  <2>2. CreatedCanLogIn'
    <3>1. \A m \in Logins : m # l => UNCHANGED <<login[m], known[m], cred[m]>>
      BY <1>5 DEF IInv, TypeOK, BeginLogin
    <3>2. /\ known'[l] = {r \in Registrations : reg[r] = "created"} /\ cred'[l] = c
          /\ login'[l] = IF ValidateLogin(c) THEN "reading" ELSE "refused"
      BY <1>5 DEF IInv, TypeOK, BeginLogin
    <3>3. \A r \in known'[l] : /\ form[r].email.value \in GoodEmails
                            /\ form[r].password \in GoodPasswords
      BY <3>2 DEF IInv, KnownAreCreated, OnlyValidInserted, Validate
    <3>4. UNCHANGED form
      BY <1>5 DEF BeginLogin
    <3>5. \A r \in known'[l] : SameAddress(r, l)' /\ form[r].password = cred'[l].password =>
            login'[l] = "reading"
      BY <3>2, <3>3, <3>4 DEF SameAddress, ValidateLogin
    <3> QED
      BY <3>1, <3>4, <3>5 DEF IInv, CreatedCanLogIn, SameAddress
  <2> QED BY <2>1, <2>2 DEF IInv
<1>6. ASSUME NEW l \in Logins, ReadUser(l) PROVE IInv'
  <2>1. /\ TypeOK' /\ RowsAreAccounts' /\ NamesAndEmailsUnique'
       /\ CreatedHaveRows' /\ OnlyValidInserted' /\ KnownAreCreated'
       /\ AnswersAreTrue'
    BY <1>6
    DEF IInv, TypeOK, RowsAreAccounts, NamesAndEmailsUnique,
        CreatedHaveRows, OnlyValidInserted, KnownAreCreated, AnswersAreTrue,
        Account, Clash, ReadUser
  <2>2. FoundByEmail'
    BY <1>6 DEF IInv, TypeOK, FoundByEmail, ReadUser
  <2>3. CreatedCanLogIn'
    <3>1. \A m \in Logins : m # l => login'[m] = login[m]
      BY <1>6 DEF IInv, TypeOK, ReadUser
    <3>2. UNCHANGED <<known, cred, form>>
      BY <1>6 DEF ReadUser
    <3>3. \A r \in known[l] : SameAddress(r, l) => login'[l] = "comparing"
      <4> SUFFICES ASSUME NEW r \in known[l], SameAddress(r, l)
                   PROVE  login'[l] = "comparing"
        OBVIOUS
      <4>1. Account(r) \in users /\ Account(r).email = TrimSpace(cred[l].email)
        BY <1>6, KnownRow DEF ReadUser
      <4> QED
        BY <1>6, <4>1 DEF IInv, TypeOK, ReadUser
    <3> QED
      BY <3>1, <3>2, <3>3 DEF IInv, CreatedCanLogIn, SameAddress
  <2> QED BY <2>1, <2>2, <2>3 DEF IInv
<1>7. ASSUME NEW l \in Logins, ReadUserFails(l) PROVE IInv'
  <2>1. /\ TypeOK' /\ RowsAreAccounts' /\ NamesAndEmailsUnique'
       /\ CreatedHaveRows' /\ OnlyValidInserted' /\ KnownAreCreated'
       /\ FoundByEmail' /\ CreatedCanLogIn' /\ AnswersAreTrue'
    BY <1>7
    DEF IInv, TypeOK, RowsAreAccounts, NamesAndEmailsUnique,
        CreatedHaveRows, OnlyValidInserted, KnownAreCreated, FoundByEmail,
        CreatedCanLogIn, AnswersAreTrue, Account, Clash, SameAddress,
        ReadUserFails
  <2> QED BY <2>1 DEF IInv
<1>8. ASSUME NEW l \in Logins, Compare(l) PROVE IInv'
  <2>1. /\ TypeOK' /\ RowsAreAccounts' /\ NamesAndEmailsUnique'
       /\ CreatedHaveRows' /\ OnlyValidInserted' /\ KnownAreCreated'
       /\ FoundByEmail' /\ AnswersAreTrue'
    BY <1>8
    DEF IInv, TypeOK, RowsAreAccounts, NamesAndEmailsUnique,
        CreatedHaveRows, OnlyValidInserted, KnownAreCreated, FoundByEmail,
        AnswersAreTrue, Account, Clash, Compare
  <2>2. CreatedCanLogIn'
    <3>1. \A m \in Logins : m # l => login'[m] = login[m]
      BY <1>8 DEF IInv, TypeOK, Compare
    <3>2. UNCHANGED <<known, cred, form>>
      BY <1>8 DEF Compare
    <3>3. \A r \in known[l] : SameAddress(r, l) /\ form[r].password = cred[l].password =>
            login'[l] = "pair"
      <4> SUFFICES ASSUME NEW r \in known[l], SameAddress(r, l),
                          form[r].password = cred[l].password
                   PROVE  login'[l] = "pair"
        OBVIOUS
      <4>1. /\ Account(r) \in users /\ Account(r).email = TrimSpace(cred[l].email)
            /\ Account(r).password = form[r].password
        BY <1>8, KnownRow DEF Compare
      <4>2. found[l] = Account(r)
        BY <1>8, <4>1 DEF IInv, FoundByEmail, NamesAndEmailsUnique, Compare
      <4> QED
        BY <1>8, <4>1, <4>2 DEF IInv, TypeOK, Compare
    <3> QED
      BY <3>1, <3>2, <3>3 DEF IInv, CreatedCanLogIn, SameAddress
  <2> QED BY <2>1, <2>2 DEF IInv
<1>9. CASE UNCHANGED vars
  BY <1>9
  DEF IInv, TypeOK, RowsAreAccounts, NamesAndEmailsUnique,
      CreatedHaveRows, OnlyValidInserted, KnownAreCreated, FoundByEmail,
      CreatedCanLogIn, AnswersAreTrue, Account, Clash, SameAddress,
      vars
<1> QED BY <1>1, <1>2, <1>3, <1>4, <1>5, <1>6, <1>7, <1>8, <1>9
  DEF Next

\* IInv holds in every reachable state.
LEMMA Inductive == Spec => []IInv
<1> QED
  BY InitInv, StepInv, PTL DEF Spec

\* The variables keep their types; a login compares only with a row it has read.
THEOREM TypeCorrect == Spec => []TypeOK
<1>1. IInv => TypeOK
  BY DEF IInv
<1> QED
  BY <1>1, Inductive, PTL

\* authService.Register and Login: whoever was answered 201 can log in from then on.
THEOREM CreatedLogsIn == Spec => []CreatedCanLogIn
<1>1. IInv => CreatedCanLogIn
  BY DEF IInv
<1> QED
  BY <1>1, Inductive, PTL

\* UserRepository.Create: 201 and 409 are true of the table, whatever overlaps, and
\* stay so.
THEOREM RegistrationAnswersTrue == Spec => []AnswersAreTrue
<1>1. IInv => AnswersAreTrue
  BY DEF IInv
<1> QED
  BY <1>1, Inductive, PTL
=============================================================================
