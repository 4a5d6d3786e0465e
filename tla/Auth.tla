-------------------------------- MODULE Auth --------------------------------
(***************************************************************************)
(* Accounts: registration with an e-mailed confirmation link, confirmation,*)
(* login and the bearer token of every other request (controllers/auth.py, *)
(* controllers/security.py, transport/deps.py).                            *)
(*                                                                         *)
(* Tokens are signed and stored nowhere, so what is in circulation is a    *)
(* set; a token names its account by the row's id.  Ids come from a        *)
(* sequence and are used once, also when the INSERT is rolled back: the    *)
(* row of a registration is named by the registration.  Passwords are left *)
(* out: a login with a wrong one changes nothing.                          *)
(***************************************************************************)
CONSTANTS
  Registrations,  \* the POSTs to /register that are ever sent
  Spellings,      \* addresses as they are typed
  Addresses,      \* addresses as they are stored
  Normal,         \* spelling -> the stored form: trimmed, lower case
  Typed,          \* registration -> the spelling it was sent with
  Weak,           \* the registrations with a password that is too short
  NoRow           \* "no such row" in the database

Account == [email : Addresses, is_email_confirmed : BOOLEAN]

ASSUME AuthAssumption ==
  /\ Normal \in [Spellings -> Addresses]
  /\ Typed \in [Registrations -> Spellings]
  /\ Weak \subseteq Registrations
  /\ NoRow \notin Account

Token == [purpose : {"access", "confirm"}, sub : Registrations]

VARIABLES
  account,     \* registration -> the committed user row it inserted, or NoRow
  pc,          \* registration -> where its handler stands, or how it ended
  sent,        \* the registrations whose confirmation mail has gone out
  tokens,      \* the tokens in circulation that have not expired
  confirming,  \* the accounts a /confirm has read and not yet committed
  served       \* the accounts a request has ever been served for

vars == <<account, pc, sent, tokens, confirming, served>>

InFlight == {"lookup", "insert", "mail", "commit", "reply"}
Ended == {"201", "409", "422", "500", "lost"}

\* The row of a registration that has inserted it and not committed.
Holds(r) == pc[r] \in {"mail", "commit"}

Normalized(e) == Normal[e]
Email(r) == Normalized(Typed[r])
Taken(address) == \E r \in Registrations : account[r] # NoRow /\ account[r].email = address

Init ==
  /\ account = [r \in Registrations |-> NoRow]
  /\ pc = [r \in Registrations |-> "idle"]
  /\ sent = {}
  /\ tokens = {}
  /\ confirming = {}
  /\ served = {}

Goto(r, next) == pc' = [pc EXCEPT ![r] = next]

-----------------------------------------------------------------------------
(* POST /register *)

Send(r) ==
  /\ pc[r] = "idle"
  /\ Goto(r, IF r \in Weak THEN "422" ELSE "lookup")
  /\ UNCHANGED <<account, sent, tokens, confirming, served>>

Lookup(r) ==
  /\ pc[r] = "lookup"
  /\ Goto(r, IF Taken(Email(r)) THEN "409" ELSE "insert")
  /\ UNCHANGED <<account, sent, tokens, confirming, served>>

\* Faulty variants: no unique key on the address; a lock on it that everybody takes
\* who has looked it up; a mail failure that is swallowed.
Insert_NoKey(r) ==
  /\ pc[r] = "insert"
  /\ Goto(r, "mail")
  /\ UNCHANGED <<account, sent, tokens, confirming, served>>

Insert_LockShared(r) ==
  /\ pc[r] = "insert"
  /\ ~ \E s \in Registrations \ {r} :
       pc[s] \in {"insert", "mail", "commit"} /\ Email(s) = Email(r)
  /\ Goto(r, IF Taken(Email(r)) THEN "500" ELSE "mail")
  /\ UNCHANGED <<account, sent, tokens, confirming, served>>

MailFails_Swallowed(r) ==
  /\ pc[r] = "mail"
  /\ Goto(r, "commit")
  /\ UNCHANGED <<account, sent, tokens, confirming, served>>

\* The unique key on the address: an INSERT waits for a transaction that has
\* inserted the same one, and raises when that commits.
Insert(r) ==
  /\ pc[r] = "insert"
  /\ ~ \E s \in Registrations : Holds(s) /\ Email(s) = Email(r)
  /\ Goto(r, IF Taken(Email(r)) THEN "500" ELSE "mail")
  /\ UNCHANGED <<account, sent, tokens, confirming, served>>

\* The link goes out before the account is committed.
Mail(r) ==
  /\ pc[r] = "mail"
  /\ sent' = sent \cup {r}
  /\ tokens' = tokens \cup {[purpose |-> "confirm", sub |-> r]}
  /\ Goto(r, "commit")
  /\ UNCHANGED <<account, confirming, served>>

\* The mail server does not take it, and the request fails.
MailFails(r) ==
  /\ pc[r] = "mail"
  /\ Goto(r, "500")
  /\ UNCHANGED <<account, sent, tokens, confirming, served>>

Commit(r) ==
  /\ pc[r] = "commit"
  /\ account' = [account EXCEPT ![r] = [email |-> Email(r), is_email_confirmed |-> FALSE]]
  /\ Goto(r, "reply")
  /\ UNCHANGED <<sent, tokens, confirming, served>>

Reply(r) ==
  /\ pc[r] = "reply"
  /\ Goto(r, "201")
  /\ UNCHANGED <<account, sent, tokens, confirming, served>>

\* Anything raises up to the commit: the transaction is rolled back.
Raise(r) ==
  /\ pc[r] \in InFlight \ {"reply"}
  /\ Goto(r, "500")
  /\ UNCHANGED <<account, sent, tokens, confirming, served>>

-----------------------------------------------------------------------------
(* Tokens *)

\* A faulty variant: the purpose claim is not looked at.
Accepted_AnyPurpose(t, purpose) == t \in tokens

\* _decode_for_purpose: the signature, the expiry and the purpose.
Accepted(t, purpose) == t \in tokens /\ t.purpose = purpose

Expire(t) ==
  /\ t \in tokens
  /\ tokens' = tokens \ {t}
  /\ UNCHANGED <<account, pc, sent, confirming, served>>

\* GET /confirm reads the account of the token...
Confirm(t) ==
  /\ Accepted(t, "confirm")
  /\ account[t.sub] # NoRow /\ ~ account[t.sub].is_email_confirmed
  /\ confirming' = confirming \cup {t.sub}
  /\ UNCHANGED <<account, pc, sent, tokens, served>>

\* ... and commits the flag, even if the token has expired since.
CommitConfirmation(r) ==
  /\ r \in confirming
  /\ account' = [account EXCEPT ![r].is_email_confirmed = TRUE]
  /\ confirming' = confirming \ {r}
  /\ UNCHANGED <<pc, sent, tokens, served>>

\* Or it fails, and the flag stays as it was.
ConfirmationFails(r) ==
  /\ r \in confirming
  /\ confirming' = confirming \ {r}
  /\ UNCHANGED <<account, pc, sent, tokens, served>>

\* POST /login with the right password.
Login(e) == \E r \in Registrations :
  /\ account[r] # NoRow /\ account[r].email = Normalized(e)
  /\ account[r].is_email_confirmed
  /\ tokens' = tokens \cup {[purpose |-> "access", sub |-> r]}
  /\ UNCHANGED <<account, pc, sent, confirming, served>>

\* Any other request: get_current_user resolves the bearer token.
Serve(t) ==
  /\ Accepted(t, "access")
  /\ account[t.sub] # NoRow
  /\ served' = served \cup {t.sub}
  /\ UNCHANGED <<account, pc, sent, tokens, confirming>>

-----------------------------------------------------------------------------

\* The API process dies; what was not committed is rolled back, tokens live on.
Crash ==
  /\ confirming # {} \/ \E r \in Registrations : pc[r] \in InFlight
  /\ pc' = [r \in Registrations |-> IF pc[r] \in InFlight THEN "lost" ELSE pc[r]]
  /\ confirming' = {}
  /\ UNCHANGED <<account, sent, tokens, served>>

Finished == (\A r \in Registrations : pc[r] \in Ended) /\ UNCHANGED vars

Register(r) ==
  Send(r) \/ Lookup(r) \/ Insert(r) \/ Mail(r) \/ MailFails(r) \/ Commit(r)
  \/ Reply(r) \/ Raise(r)

Next ==
  \/ \E r \in Registrations : Register(r) \/ CommitConfirmation(r) \/ ConfirmationFails(r)
  \/ \E t \in tokens : Expire(t) \/ Confirm(t) \/ Serve(t)
  \/ \E e \in Spellings : Login(e)
  \/ Crash
  \/ Finished

Spec == Init /\ [][Next]_vars

\* Handlers resume, and an INSERT waits for as long as another one of its address
\* is not over.  Nothing says that the mail server ever answers: smtplib is
\* called without a time limit.
Fairness == \A r \in Registrations :
  WF_vars(Lookup(r)) /\ WF_vars(Insert(r)) /\ WF_vars(Commit(r)) /\ WF_vars(Reply(r))
FairSpec == Spec /\ Fairness

-----------------------------------------------------------------------------
(* Correctness *)

\* The types of the variables; addresses are stored in their normal form.
TypeOK ==
  /\ account \in [Registrations -> Account \cup {NoRow}]
  /\ pc \in [Registrations -> {"idle"} \cup InFlight \cup Ended]
  /\ sent \subseteq Registrations
  /\ tokens \subseteq Token
  /\ confirming \subseteq Registrations
  /\ served \subseteq Registrations

\* However registrations overlap, fail or are cut off, and however the address is
\* typed, a person has at most one account.
OneAccountPerPerson == \A r, s \in Registrations :
  account[r] # NoRow /\ account[s] # NoRow /\ Normal[Typed[r]] = Normal[Typed[s]] => r = s

\* Nothing is served for an account whose address has not been confirmed, and no
\* session for one is in circulation; a confirmation link is not a session.
SessionsAreConfirmed ==
  /\ \A r \in served : account[r] # NoRow /\ account[r].is_email_confirmed
  /\ \A t \in tokens : t.purpose = "access" =>
       account[t.sub] # NoRow /\ account[t.sub].is_email_confirmed

\* No account without a link: a stored account has been mailed its link, so that
\* its owner can confirm it; 201 is answered only for a stored one and every other
\* answer only for none.  A link without an account is possible; it confirms nobody.
AccountsHaveLinks == \A r \in Registrations :
  /\ account[r] # NoRow => r \in sent
  /\ pc[r] = "201" => account[r] # NoRow
  /\ pc[r] \in {"409", "422", "500"} => account[r] = NoRow

\* Registrations of one address wait for each other, but never in a circle: every
\* one ends - as long as the mail server answers each that is talking to it, one
\* way or the other, for those behind it wait for that as well.
MailServerAnswers == \A r \in Registrations : WF_vars(Mail(r) \/ MailFails(r))
EveryRegistrationEnds == MailServerAnswers =>
  \A r \in Registrations : pc[r] = "lookup" ~> pc[r] \in Ended

\* Seen by the people, whose names are the stored addresses, all of this is the
\* registry: rows, tokens, rolled back transactions and overlapping registrations
\* are no business of theirs.
ConfirmedAt(address) == \E r \in Registrations :
  account[r] # NoRow /\ account[r].email = address /\ account[r].is_email_confirmed

Emails(rs) == {Email(r) : r \in rs}
LoggedIn == {r \in Registrations : [purpose |-> "access", sub |-> r] \in tokens}

Standing == [a \in Addresses |->
  IF ConfirmedAt(a) THEN "confirmed" ELSE IF Taken(a) THEN "registered" ELSE "nobody"]

People == INSTANCE Registry WITH
  People   <- Addresses,
  standing <- Standing,
  mailed   <- Emails(sent),
  sessions <- Emails(LoggedIn),
  served   <- Emails(served)

\* Every step of registrations, confirmations, logins, failures and crashes is a
\* step of the registry or none: an address once taken never becomes free, a
\* confirmed one stays so, links go only to addresses without an account, and one
\* registration's step never changes the standing of anybody else.
ImplementsRegistry == People!Spec
=============================================================================
