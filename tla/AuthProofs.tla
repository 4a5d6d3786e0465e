----------------------------- MODULE AuthProofs -----------------------------
(***************************************************************************)
(* Proofs about Auth, for any number of registrations, spellings and       *)
(* addresses.                                                              *)
(***************************************************************************)
EXTENDS Auth, TLAPS

USE AuthAssumption

\* TypeOK, strengthened: what a /confirm is about to write to is there.
TypeInv ==
  /\ TypeOK
  /\ \A r \in confirming : account[r] # NoRow

\* A registration inserts an account.
LEMMA NewAccount ==
  ASSUME NEW r \in Registrations
  PROVE  [email |-> Email(r), is_email_confirmed |-> FALSE] \in Account
  BY DEF Account, Email, Normalized

\* A confirmation sets one flag and changes nothing else of any account.
LEMMA ConfirmedAccount ==
  ASSUME TypeInv, NEW r \in Registrations, CommitConfirmation(r)
  PROVE  /\ account' \in [Registrations -> Account \cup {NoRow}]
         /\ account[r] # NoRow
         /\ account'[r] \in Account
         /\ account'[r].is_email_confirmed
         /\ account'[r].email = account[r].email
         /\ \A s \in Registrations : s # r => account'[s] = account[s]
<1>1. account[r] \in Account
  BY DEF TypeInv, TypeOK, CommitConfirmation
<1>2. account' = [account EXCEPT ![r] = [account[r] EXCEPT !.is_email_confirmed = TRUE]]
  BY DEF CommitConfirmation
<1>3. account'[r] = [account[r] EXCEPT !.is_email_confirmed = TRUE]
  BY <1>2 DEF TypeInv, TypeOK
<1>4. account'[r] \in Account
  BY <1>1, <1>3 DEF Account
<1>5. account'[r].is_email_confirmed = TRUE /\ account'[r].email = account[r].email
  BY <1>1, <1>3 DEF Account
<1> QED
  BY <1>1, <1>2, <1>4, <1>5 DEF TypeInv, TypeOK

\* TypeInv is inductive.
LEMMA TypeStep == TypeInv /\ [Next]_vars => TypeInv'
<1> SUFFICES ASSUME TypeInv, [Next]_vars PROVE TypeInv'
  OBVIOUS
<1> USE DEF TypeInv, TypeOK, Account, Token, InFlight, Ended, Email, Normalized
<1>1. ASSUME NEW r \in Registrations, Send(r) PROVE TypeInv'
  BY <1>1 DEF Send, Goto
<1>2. ASSUME NEW r \in Registrations, Lookup(r) PROVE TypeInv'
  BY <1>2 DEF Lookup, Goto
<1>3. ASSUME NEW r \in Registrations, Insert(r) PROVE TypeInv'
  BY <1>3 DEF Insert, Goto
<1>4. ASSUME NEW r \in Registrations, Mail(r) PROVE TypeInv'
  BY <1>4 DEF Mail, Goto
<1>5. ASSUME NEW r \in Registrations, MailFails(r) PROVE TypeInv'
  BY <1>5 DEF MailFails, Goto
<1>6. ASSUME NEW r \in Registrations, Commit(r) PROVE TypeInv'
  BY <1>6, NewAccount DEF Commit, Goto
<1>7. ASSUME NEW r \in Registrations, Reply(r) PROVE TypeInv'
  BY <1>7 DEF Reply, Goto
<1>8. ASSUME NEW r \in Registrations, Raise(r) PROVE TypeInv'
  BY <1>8 DEF Raise, Goto
<1>9. ASSUME NEW r \in Registrations, CommitConfirmation(r) PROVE TypeInv'
  BY <1>9, ConfirmedAccount DEF CommitConfirmation
<1>10. ASSUME NEW r \in Registrations, ConfirmationFails(r) PROVE TypeInv'
  BY <1>10 DEF ConfirmationFails
<1>11. ASSUME NEW t \in tokens, Expire(t) PROVE TypeInv'
  BY <1>11 DEF Expire
<1>12. ASSUME NEW t \in tokens, Confirm(t) PROVE TypeInv'
  BY <1>12 DEF Confirm, Accepted
<1>13. ASSUME NEW t \in tokens, Serve(t) PROVE TypeInv'
  BY <1>13 DEF Serve, Accepted
<1>14. ASSUME NEW e \in Spellings, Login(e) PROVE TypeInv'
  BY <1>14 DEF Login
<1>15. CASE Crash
  BY <1>15 DEF Crash
<1>16. CASE Finished \/ UNCHANGED vars
  BY <1>16 DEF Finished, vars
<1> QED
  BY <1>1, <1>2, <1>3, <1>4, <1>5, <1>6, <1>7, <1>8,
     <1>9, <1>10, <1>11, <1>12, <1>13, <1>14, <1>15, <1>16 DEF Next, Register

\* It holds throughout.
LEMMA TypeInvariant == Spec => []TypeInv
<1>1. Init => TypeInv
  BY DEF Init, TypeInv, TypeOK
<1> QED
  BY <1>1, TypeStep, PTL DEF Spec

\* Every variable keeps its type, and only normal forms of addresses are stored.
THEOREM AuthTypeCorrect == Spec => []TypeOK
<1>1. TypeInv => TypeOK
  BY DEF TypeInv
<1> QED
  BY <1>1, TypeInvariant, PTL

-----------------------------------------------------------------------------
\* OneAccountPerPerson, strengthened.  Whoever has inserted a row is the only one
\* with that address, among the stored accounts and among those about to commit.
KeyInv ==
  /\ \A r \in Registrations : account[r] # NoRow =>
       account[r].email = Email(r) /\ pc[r] \in {"reply", "201", "lost"}
  /\ \A r \in Registrations : pc[r] \in {"reply", "201"} => account[r] # NoRow
  /\ \A r, s \in Registrations : Email(r) = Email(s) /\ r # s =>
       /\ Holds(r) => ~ Holds(s) /\ account[s] = NoRow
       /\ account[r] # NoRow => account[s] = NoRow

\* KeyInv is inductive: the INSERT waits for the holder of the address and fails
\* when that has become an account.
LEMMA KeyStep == TypeInv /\ KeyInv /\ [Next]_vars => KeyInv'
<1> SUFFICES ASSUME TypeInv, KeyInv, [Next]_vars PROVE KeyInv'
  OBVIOUS
<1> USE DEF TypeInv, TypeOK, KeyInv, Account, Token, InFlight, Email, Normalized, Holds
<1>1. ASSUME NEW r \in Registrations, Send(r) PROVE KeyInv'
  BY <1>1 DEF Send, Goto
<1>2. ASSUME NEW r \in Registrations, Lookup(r) PROVE KeyInv'
  BY <1>2 DEF Lookup, Goto
<1>3. ASSUME NEW r \in Registrations, Insert(r) PROVE KeyInv'
  BY <1>3 DEF Insert, Goto, Taken
<1>4. ASSUME NEW r \in Registrations, Mail(r) PROVE KeyInv'
  BY <1>4 DEF Mail, Goto
<1>5. ASSUME NEW r \in Registrations, MailFails(r) PROVE KeyInv'
  BY <1>5 DEF MailFails, Goto
<1>6. ASSUME NEW r \in Registrations, Commit(r) PROVE KeyInv'
  <2>1. account'[r] # NoRow /\ account'[r].email = Email(r)
    BY <1>6, NewAccount DEF Commit
  <2>2. pc[r] = "commit" /\ pc' = [pc EXCEPT ![r] = "reply"]
    BY <1>6 DEF Commit, Goto
  <2>3. \A s \in Registrations : s # r => account'[s] = account[s] /\ pc'[s] = pc[s]
    BY <1>6, <2>2 DEF Commit
  <2> QED
    BY <2>1, <2>2, <2>3
<1>7. ASSUME NEW r \in Registrations, Reply(r) PROVE KeyInv'
  BY <1>7 DEF Reply, Goto
<1>8. ASSUME NEW r \in Registrations, Raise(r) PROVE KeyInv'
  BY <1>8 DEF Raise, Goto
<1>9. ASSUME NEW r \in Registrations, CommitConfirmation(r) PROVE KeyInv'
  <2>1. account[r] # NoRow /\ account'[r] # NoRow /\ account'[r].email = account[r].email
    BY <1>9, ConfirmedAccount
  <2>2. \A s \in Registrations : s # r => account'[s] = account[s]
    BY <1>9, ConfirmedAccount
  <2>3. pc' = pc
    BY <1>9 DEF CommitConfirmation
  <2> QED
    BY <2>1, <2>2, <2>3
<1>10. ASSUME NEW r \in Registrations, ConfirmationFails(r) PROVE KeyInv'
  BY <1>10 DEF ConfirmationFails
<1>11. ASSUME NEW t \in tokens, Expire(t) PROVE KeyInv'
  BY <1>11 DEF Expire
<1>12. ASSUME NEW t \in tokens, Confirm(t) PROVE KeyInv'
  BY <1>12 DEF Confirm, Accepted
<1>13. ASSUME NEW t \in tokens, Serve(t) PROVE KeyInv'
  BY <1>13 DEF Serve, Accepted
<1>14. ASSUME NEW e \in Spellings, Login(e) PROVE KeyInv'
  BY <1>14 DEF Login
<1>15. CASE Crash
  BY <1>15 DEF Crash
<1>16. CASE Finished \/ UNCHANGED vars
  BY <1>16 DEF Finished, vars
<1> QED
  BY <1>1, <1>2, <1>3, <1>4, <1>5, <1>6, <1>7, <1>8,
     <1>9, <1>10, <1>11, <1>12, <1>13, <1>14, <1>15, <1>16 DEF Next, Register

\* It holds throughout.
LEMMA KeyInvariant == Spec => []KeyInv
<1>1. Init => KeyInv
  BY DEF Init, KeyInv, Holds
<1> QED
  BY <1>1, KeyStep, TypeInvariant, PTL DEF Spec

\* However registrations overlap, fail or are cut off, a person has at most one
\* account.
THEOREM OneAccount == Spec => []OneAccountPerPerson
<1>1. KeyInv => OneAccountPerPerson
  BY DEF KeyInv, OneAccountPerPerson, Email, Normalized
<1> QED
  BY <1>1, KeyInvariant, PTL

-----------------------------------------------------------------------------
\* Whoever is about to be an account has been mailed the link.
LinkInv == \A r \in Registrations :
  account[r] # NoRow \/ pc[r] = "commit" => r \in sent

\* LinkInv is inductive.
LEMMA LinkStep == TypeInv /\ LinkInv /\ [Next]_vars => LinkInv'
<1> SUFFICES ASSUME TypeInv, LinkInv, [Next]_vars PROVE LinkInv'
  OBVIOUS
<1> USE DEF TypeInv, TypeOK, LinkInv, Account, Token, InFlight
<1>1. ASSUME NEW r \in Registrations, Send(r) PROVE LinkInv'
  BY <1>1 DEF Send, Goto
<1>2. ASSUME NEW r \in Registrations, Lookup(r) PROVE LinkInv'
  BY <1>2 DEF Lookup, Goto
<1>3. ASSUME NEW r \in Registrations, Insert(r) PROVE LinkInv'
  BY <1>3 DEF Insert, Goto
<1>4. ASSUME NEW r \in Registrations, Mail(r) PROVE LinkInv'
  BY <1>4 DEF Mail, Goto
<1>5. ASSUME NEW r \in Registrations, MailFails(r) PROVE LinkInv'
  BY <1>5 DEF MailFails, Goto
<1>6. ASSUME NEW r \in Registrations, Commit(r) PROVE LinkInv'
  BY <1>6, NewAccount DEF Commit, Goto
<1>7. ASSUME NEW r \in Registrations, Reply(r) PROVE LinkInv'
  BY <1>7 DEF Reply, Goto
<1>8. ASSUME NEW r \in Registrations, Raise(r) PROVE LinkInv'
  BY <1>8 DEF Raise, Goto
<1>9. ASSUME NEW r \in Registrations, CommitConfirmation(r) PROVE LinkInv'
  BY <1>9, ConfirmedAccount DEF CommitConfirmation
<1>10. ASSUME NEW r \in Registrations, ConfirmationFails(r) PROVE LinkInv'
  BY <1>10 DEF ConfirmationFails
<1>11. ASSUME NEW t \in tokens, Expire(t) PROVE LinkInv'
  BY <1>11 DEF Expire
<1>12. ASSUME NEW t \in tokens, Confirm(t) PROVE LinkInv'
  BY <1>12 DEF Confirm, Accepted
<1>13. ASSUME NEW t \in tokens, Serve(t) PROVE LinkInv'
  BY <1>13 DEF Serve, Accepted
<1>14. ASSUME NEW e \in Spellings, Login(e) PROVE LinkInv'
  BY <1>14 DEF Login
<1>15. CASE Crash
  BY <1>15 DEF Crash
<1>16. CASE Finished \/ UNCHANGED vars
  BY <1>16 DEF Finished, vars
<1> QED
  BY <1>1, <1>2, <1>3, <1>4, <1>5, <1>6, <1>7, <1>8,
     <1>9, <1>10, <1>11, <1>12, <1>13, <1>14, <1>15, <1>16 DEF Next, Register

\* A stored account has been mailed its link, and answers say what is stored.
THEOREM Links == Spec => []AccountsHaveLinks
<1>1. Init => LinkInv
  BY DEF Init, LinkInv
<1>2. KeyInv /\ LinkInv => AccountsHaveLinks
  BY DEF KeyInv, LinkInv, AccountsHaveLinks
<1> QED
  BY <1>1, <1>2, LinkStep, KeyInvariant, TypeInvariant, PTL DEF Spec

-----------------------------------------------------------------------------
\* SessionsAreConfirmed is inductive: only a confirmed account gets a session, no account is
\* ever removed, and no confirmation taken back.
LEMMA SessionStep == TypeInv /\ KeyInv /\ SessionsAreConfirmed /\ [Next]_vars
                       => SessionsAreConfirmed'
<1> SUFFICES ASSUME TypeInv, KeyInv, SessionsAreConfirmed, [Next]_vars
             PROVE  SessionsAreConfirmed'
  OBVIOUS
<1> USE DEF TypeInv, TypeOK, KeyInv, SessionsAreConfirmed, Account, Token, InFlight
<1>1. ASSUME NEW r \in Registrations, Send(r) PROVE SessionsAreConfirmed'
  BY <1>1 DEF Send, Goto
<1>2. ASSUME NEW r \in Registrations, Lookup(r) PROVE SessionsAreConfirmed'
  BY <1>2 DEF Lookup, Goto
<1>3. ASSUME NEW r \in Registrations, Insert(r) PROVE SessionsAreConfirmed'
  BY <1>3 DEF Insert, Goto
<1>4. ASSUME NEW r \in Registrations, Mail(r) PROVE SessionsAreConfirmed'
  BY <1>4 DEF Mail, Goto
<1>5. ASSUME NEW r \in Registrations, MailFails(r) PROVE SessionsAreConfirmed'
  BY <1>5 DEF MailFails, Goto
<1>6. ASSUME NEW r \in Registrations, Commit(r) PROVE SessionsAreConfirmed'
  BY <1>6, NewAccount DEF Commit, Goto
<1>7. ASSUME NEW r \in Registrations, Reply(r) PROVE SessionsAreConfirmed'
  BY <1>7 DEF Reply, Goto
<1>8. ASSUME NEW r \in Registrations, Raise(r) PROVE SessionsAreConfirmed'
  BY <1>8 DEF Raise, Goto
<1>9. ASSUME NEW r \in Registrations, CommitConfirmation(r) PROVE SessionsAreConfirmed'
  <2>1. account'[r] # NoRow /\ account'[r].is_email_confirmed
    BY <1>9, ConfirmedAccount
  <2>2. \A s \in Registrations : s # r => account'[s] = account[s]
    BY <1>9, ConfirmedAccount
  <2>3. tokens' = tokens /\ served' = served
    BY <1>9 DEF CommitConfirmation
  <2> QED
    BY <2>1, <2>2, <2>3
<1>10. ASSUME NEW r \in Registrations, ConfirmationFails(r) PROVE SessionsAreConfirmed'
  BY <1>10 DEF ConfirmationFails
<1>11. ASSUME NEW t \in tokens, Expire(t) PROVE SessionsAreConfirmed'
  BY <1>11 DEF Expire
<1>12. ASSUME NEW t \in tokens, Confirm(t) PROVE SessionsAreConfirmed'
  BY <1>12 DEF Confirm, Accepted
<1>13. ASSUME NEW t \in tokens, Serve(t) PROVE SessionsAreConfirmed'
  BY <1>13 DEF Serve, Accepted
<1>14. ASSUME NEW e \in Spellings, Login(e) PROVE SessionsAreConfirmed'
  BY <1>14 DEF Login
<1>15. CASE Crash
  BY <1>15 DEF Crash
<1>16. CASE Finished \/ UNCHANGED vars
  BY <1>16 DEF Finished, vars
<1> QED
  BY <1>1, <1>2, <1>3, <1>4, <1>5, <1>6, <1>7, <1>8,
     <1>9, <1>10, <1>11, <1>12, <1>13, <1>14, <1>15, <1>16 DEF Next, Register

\* Nothing is served, and no session is in circulation, for an account whose
\* address is not confirmed.
THEOREM Sessions == Spec => []SessionsAreConfirmed
<1>1. Init => SessionsAreConfirmed
  BY DEF Init, SessionsAreConfirmed
<1> QED
  BY <1>1, SessionStep, KeyInvariant, TypeInvariant, PTL DEF Spec

-----------------------------------------------------------------------------
(* Accounts are the registry *)

\* What the mapping rests on; TypeInv, KeyInv, LinkInv and SessionsAreConfirmed are
\* proved invariant above.
AccountsInv == TypeInv /\ KeyInv /\ LinkInv /\ SessionsAreConfirmed

LEMMA AccountsInvariant == Spec => []AccountsInv
<1>1. Init => LinkInv /\ SessionsAreConfirmed
  BY DEF Init, LinkInv, SessionsAreConfirmed
<1>2. TypeInv /\ KeyInv /\ LinkInv /\ SessionsAreConfirmed => AccountsInv
  BY DEF AccountsInv
<1> QED
  BY <1>1, <1>2, LinkStep, SessionStep, KeyInvariant, TypeInvariant, PTL DEF Spec

\* A person without an account: whoever is about to get one, because of the key.
LEMMA NobodyYet ==
  ASSUME AccountsInv, NEW r \in Registrations, Holds(r)
  PROVE  /\ Email(r) \in Addresses
         /\ ~ Taken(Email(r)) /\ Standing[Email(r)] = "nobody"
<1>1. Email(r) \in Addresses
  BY DEF Email, Normalized
<1>2. account[r] = NoRow
  BY DEF AccountsInv, KeyInv, Holds
<1>3. \A s \in Registrations : Email(s) = Email(r) => account[s] = NoRow
  BY <1>2 DEF AccountsInv, KeyInv
<1>4. ~ Taken(Email(r))
  BY <1>3 DEF Taken, AccountsInv, KeyInv
<1> QED
  BY <1>1, <1>4 DEF Standing, ConfirmedAt, Taken

\* A person's standing is what the one row with the address says.
LEMMA StandingOf ==
  ASSUME AccountsInv, NEW r \in Registrations, account[r] # NoRow
  PROVE  Standing[Email(r)] =
           IF account[r].is_email_confirmed THEN "confirmed" ELSE "registered"
<1>1. account[r].email = Email(r) /\ Email(r) \in Addresses
  BY DEF AccountsInv, KeyInv, Email, Normalized
<1>2. \A s \in Registrations : account[s] # NoRow /\ account[s].email = Email(r) => s = r
  BY DEF AccountsInv, KeyInv
<1>3. Taken(Email(r))
  BY <1>1 DEF Taken
<1>4. ConfirmedAt(Email(r)) <=> account[r].is_email_confirmed
  BY <1>1, <1>2 DEF ConfirmedAt
<1> QED
  BY <1>1, <1>3, <1>4 DEF Standing

\* Steps that change nothing the people see.
LEMMA UnseenSteps ==
  ASSUME UNCHANGED <<account, sent, served>>, UNCHANGED LoggedIn
  PROVE  UNCHANGED People!vars
  BY DEF People!vars, Standing, ConfirmedAt, Taken, Emails, Email, Normalized

\* Only a person who has no account is sent a link.
LEMMA MailStep ==
  ASSUME AccountsInv, NEW r \in Registrations, Mail(r)
  PROVE  People!SendLink(Email(r))
<1>1. Standing[Email(r)] = "nobody"
  BY NobodyYet DEF Mail, Holds
<1>2. Emails(sent)' = Emails(sent) \cup {Email(r)}
  BY DEF Mail, Emails, Email, Normalized
<1>3. UNCHANGED <<Standing, Emails(served)>>
  BY DEF Mail, Standing, ConfirmedAt, Taken, Emails, Email, Normalized
<1>4. UNCHANGED Emails(LoggedIn)
  BY DEF Mail, LoggedIn, Emails, Email, Normalized
<1> QED
  BY <1>1, <1>2, <1>3, <1>4 DEF People!SendLink

\* The commit of a registration changes the standing of its own person.
LEMMA CommitStep ==
  ASSUME AccountsInv, NEW r \in Registrations, Commit(r)
  PROVE  People!Register(Email(r))
<1>1. Standing[Email(r)] = "nobody" /\ Email(r) \in Addresses
  BY NobodyYet DEF Commit, Holds
<1>2. Email(r) \in Emails(sent)
  BY DEF Commit, AccountsInv, LinkInv, Emails
<1>3. /\ account'[r] # NoRow /\ account'[r].email = Email(r)
      /\ ~ account'[r].is_email_confirmed
  BY NewAccount DEF Commit, AccountsInv, TypeInv, TypeOK
<1>4. \A s \in Registrations : s # r => account'[s] = account[s]
  BY DEF Commit, AccountsInv, TypeInv, TypeOK
<1>5. \A s \in Registrations : s # r /\ Email(s) = Email(r) => account[s] = NoRow
  BY DEF Commit, AccountsInv, KeyInv, Holds
<1>6. \A s \in Registrations : account[s] # NoRow => account[s].email = Email(s)
  BY DEF AccountsInv, KeyInv
<1>7. Taken(Email(r))' /\ ~ ConfirmedAt(Email(r))'
  BY <1>3, <1>4, <1>5, <1>6 DEF Taken, ConfirmedAt, Email, Normalized
<1>8. account[r] = NoRow
  BY DEF Commit, AccountsInv, KeyInv
<1>9. \A a \in Addresses \ {Email(r)} :
        (Taken(a)' <=> Taken(a)) /\ (ConfirmedAt(a)' <=> ConfirmedAt(a))
  BY <1>3, <1>4, <1>8 DEF Taken, ConfirmedAt
<1>10. Standing' = [Standing EXCEPT ![Email(r)] = "registered"]
  BY <1>1, <1>7, <1>9 DEF Standing
<1>11. UNCHANGED <<Emails(sent), Emails(LoggedIn), Emails(served)>>
  BY DEF Commit, Emails, LoggedIn, Email, Normalized
<1> QED
  BY <1>1, <1>2, <1>10, <1>11 DEF People!Register

\* So does a confirmation, of whoever its link was sent to; a second one of the same
\* link changes nothing.
LEMMA ConfirmStep ==
  ASSUME AccountsInv, NEW r \in Registrations, CommitConfirmation(r)
  PROVE  People!Confirm(Email(r)) \/ UNCHANGED People!vars
<1>1. /\ account[r] # NoRow /\ account'[r] # NoRow
      /\ account'[r].is_email_confirmed /\ account'[r].email = account[r].email
      /\ \A s \in Registrations : s # r => account'[s] = account[s]
  <2>1. account'[r] \in Account
    BY ConfirmedAccount DEF AccountsInv
  <2> QED
    BY <2>1, ConfirmedAccount DEF AccountsInv
<1>2. account[r].email = Email(r) /\ Email(r) \in Addresses
  BY <1>1 DEF AccountsInv, KeyInv, Email, Normalized
<1>3. \A a \in Addresses : Taken(a)' <=> Taken(a)
  BY <1>1 DEF Taken
<1>4. \A a \in Addresses : ConfirmedAt(a)' <=> (a = Email(r) \/ ConfirmedAt(a))
  BY <1>1, <1>2 DEF ConfirmedAt
<1>5. Standing' = [Standing EXCEPT ![Email(r)] = "confirmed"]
  BY <1>2, <1>3, <1>4 DEF Standing
<1>6. UNCHANGED <<Emails(sent), Emails(LoggedIn), Emails(served)>>
  BY DEF CommitConfirmation, Emails, LoggedIn, Email, Normalized
<1>7. CASE account[r].is_email_confirmed
  <2>1. Standing[Email(r)] = "confirmed"
    BY <1>1, <1>7, StandingOf
  <2>2. Standing' = Standing
    BY <1>2, <1>5, <2>1 DEF Standing
  <2> QED
    BY <1>6, <2>2 DEF People!vars
<1>8. CASE ~ account[r].is_email_confirmed
  BY <1>1, <1>5, <1>6, <1>8, StandingOf DEF People!Confirm
<1> QED
  BY <1>7, <1>8

\* Who logs in is confirmed.
LEMMA LoginStep ==
  ASSUME AccountsInv, NEW e \in Spellings, Login(e)
  PROVE  \E a \in Addresses : People!Login(a)
<1>1. PICK r \in Registrations :
        /\ account[r] # NoRow /\ account[r].is_email_confirmed
        /\ tokens' = tokens \cup {[purpose |-> "access", sub |-> r]}
        /\ UNCHANGED <<account, pc, sent, confirming, served>>
  BY DEF Login
<1>2. Email(r) \in Addresses /\ Standing[Email(r)] = "confirmed"
  BY <1>1, StandingOf DEF Email, Normalized
<1>3. LoggedIn' = LoggedIn \cup {r}
  BY <1>1 DEF LoggedIn
<1>4. Emails(LoggedIn)' = Emails(LoggedIn) \cup {Email(r)}
  BY <1>3 DEF Emails, Email, Normalized
<1>5. UNCHANGED <<Standing, Emails(sent), Emails(served)>>
  BY <1>1 DEF Standing, ConfirmedAt, Taken, Emails, Email, Normalized
<1> QED
  BY <1>2, <1>4, <1>5 DEF People!Login

\* A person has one session, so that its end is seen; the end of a link is not.
LEMMA ExpireStep ==
  ASSUME AccountsInv, NEW t \in tokens, Expire(t)
  PROVE  People!Expire(Email(t.sub)) \/ UNCHANGED People!vars
<1>1. t \in Token
  BY DEF AccountsInv, TypeInv, TypeOK
<1>2. CASE t.purpose = "confirm"
  <2>1. UNCHANGED LoggedIn
    BY <1>2 DEF LoggedIn, Expire
  <2> QED
    BY <2>1, UnseenSteps DEF Expire
<1>3. CASE t.purpose = "access"
  <2>1. t = [purpose |-> "access", sub |-> t.sub] /\ t.sub \in Registrations
    BY <1>1, <1>3 DEF Token
  <2>2. LoggedIn' = LoggedIn \ {t.sub} /\ t.sub \in LoggedIn
    BY <2>1 DEF LoggedIn, Expire
  <2>3. \A r \in LoggedIn : r \in Registrations /\ account[r] # NoRow
    BY DEF LoggedIn, AccountsInv, SessionsAreConfirmed
  <2>4. \A r \in LoggedIn : Email(r) = Email(t.sub) => r = t.sub
    BY <2>2, <2>3 DEF AccountsInv, KeyInv
  <2>5. Emails(LoggedIn)' = Emails(LoggedIn) \ {Email(t.sub)}
    BY <2>2, <2>4 DEF Emails, Email, Normalized
  <2>6. UNCHANGED <<Standing, Emails(sent), Emails(served)>>
    BY DEF Expire, Standing, ConfirmedAt, Taken, Emails, Email, Normalized
  <2> QED
    BY <2>5, <2>6 DEF People!Expire
<1> QED
  BY <1>1, <1>2, <1>3 DEF Token

\* A request is served in a session.
LEMMA ServeStep ==
  ASSUME AccountsInv, NEW t \in tokens, Serve(t)
  PROVE  t.sub \in Registrations /\ People!Serve(Email(t.sub))
<1>1. t = [purpose |-> "access", sub |-> t.sub] /\ t.sub \in Registrations
  BY DEF Serve, Accepted, Token, AccountsInv, TypeInv, TypeOK
<1>2. Email(t.sub) \in Emails(LoggedIn)
  BY <1>1 DEF Emails, LoggedIn
<1>3. Emails(served)' = Emails(served) \cup {Email(t.sub)}
  BY DEF Serve, Emails, Email, Normalized
<1>4. UNCHANGED <<Standing, Emails(sent), Emails(LoggedIn)>>
  BY DEF Serve, Standing, ConfirmedAt, Taken, Emails, LoggedIn, Email, Normalized
<1> QED
  BY <1>1, <1>2, <1>3, <1>4 DEF People!Serve

\* Every step of a handler, or its failure, is a step of the registry or none.
LEMMA RegistryStep ==
  ASSUME AccountsInv, [Next]_vars
  PROVE  [People!Next]_(People!vars)
<1>1. \A r \in Registrations : Email(r) \in Addresses
  BY DEF Email, Normalized
<1>2. ASSUME NEW r \in Registrations,
             Send(r) \/ Lookup(r) \/ Insert(r) \/ MailFails(r) \/ Reply(r) \/ Raise(r)
             \/ ConfirmationFails(r)
      PROVE  UNCHANGED People!vars
  <2>1. UNCHANGED <<account, sent, tokens, served>>
    BY <1>2 DEF Send, Lookup, Insert, MailFails, Reply, Raise, ConfirmationFails
  <2> QED
    BY <2>1, UnseenSteps DEF LoggedIn
<1>3. ASSUME NEW r \in Registrations, Mail(r) \/ Commit(r) \/ CommitConfirmation(r)
      PROVE  People!Next \/ UNCHANGED People!vars
  BY <1>1, <1>3, MailStep, CommitStep, ConfirmStep DEF People!Next
<1>4. ASSUME NEW t \in tokens, Confirm(t)
      PROVE  UNCHANGED People!vars
  BY <1>4, UnseenSteps DEF Confirm, LoggedIn
<1>5. ASSUME NEW t \in tokens, Expire(t) \/ Serve(t)
      PROVE  People!Next \/ UNCHANGED People!vars
  <2>1. t.sub \in Registrations
    BY DEF AccountsInv, TypeInv, TypeOK, Token
  <2> QED
    BY <1>1, <1>5, <2>1, ExpireStep, ServeStep DEF People!Next
<1>6. ASSUME NEW e \in Spellings, Login(e)
      PROVE  People!Next
  BY <1>6, LoginStep DEF People!Next
<1>7. CASE Crash \/ Finished \/ UNCHANGED vars
  BY <1>7, UnseenSteps DEF Crash, Finished, vars, LoggedIn
<1> QED
  BY <1>2, <1>3, <1>4, <1>5, <1>6, <1>7 DEF Next, Register

\* However registrations, confirmations and logins overlap, expire, fail or are cut
\* off: seen by the people, they are the registry.
THEOREM AccountsAreTheRegistry == Spec => ImplementsRegistry
<1>1. Init => People!Init
  BY DEF Init, People!Init, Standing, ConfirmedAt, Taken, Emails, LoggedIn
<1>2. AccountsInv /\ [Next]_vars => [People!Next]_(People!vars)
  BY RegistryStep
<1> QED
  BY <1>1, <1>2, AccountsInvariant, PTL DEF Spec, ImplementsRegistry, People!Spec
=============================================================================
