------------------------------ MODULE Accounts ------------------------------
(***************************************************************************)
(* User accounts (apps/users): requests of the REST views that write a     *)
(* user or an API key, each a transaction of PostgreSQL at READ COMMITTED, *)
(* and the Celery tasks that mail the tokens.                              *)
(*                                                                         *)
(* A request is also the name of what it makes: the user it registers, the *)
(* password hash or the API key it writes (hashes are salted, keys random: *)
(* no two are equal).  A reset token carries the hash it was made from, a  *)
(* verification token the user only.  Reads of a user that nobody writes   *)
(* (log in, list) leave nothing behind and are left out.                   *)
(***************************************************************************)
EXTENDS Naturals, FiniteSets

CONSTANTS
    Requests,
    Owner,        \* a user registered before
    Emails,       \* what a registration may ask for
    Usernames

ASSUME OwnerAssumption == Owner \notin Requests

VARIABLES
    op,           \* request -> what it asks for
    identity,     \* request -> the e-mail and username, if it registers
    place,        \* request -> how far it is
    target,       \* request -> the user it is about
    seen,         \* request -> the row of that user as it loaded it
    users,        \* committed users
    account,      \* user -> its row, its API key included
    outbox,       \* mail tasks that wait: <<template, user>>
    mailed,       \* tokens that were mailed: <<template, user, hash>>
    missing,      \* mail tasks that found no user and returned
    failed        \* mail tasks that gave up on the mail server

webVars == <<op, identity, place, target, seen>>
mailVars == <<outbox, mailed, missing, failed>>
vars == <<webVars, users, account, mailVars>>

Identities == Emails \X Usernames

Operations == {"register", "verify", "resend", "forgot", "confirm", "change",
               "profile", "rotate", "use_key"}

People == {Owner} \cup Requests

Row == [password : People, is_email_verified : BOOLEAN, key : People]

\* create_user, and the key the post_save signal provisions beside it.
NewRow(u) == [password |-> u, is_email_verified |-> FALSE, key |-> u]

Token(template, u, row) ==
    <<template, u, IF template = "reset" THEN row.password ELSE u>>

\* The owner asked for a reset before; nothing else has happened.  Nobody asks
\* for the e-mail or the username of the owner: the lookups find those first.
Init == /\ op \in [Requests -> Operations]
        /\ identity \in [Requests -> Identities]
        /\ \A r \in Requests :
              op[r] # "register" => identity[r] = CHOOSE i \in Identities : TRUE
        /\ place = [r \in Requests |-> "start"]
        /\ target = [r \in Requests |-> Owner]
        /\ seen = [r \in Requests |-> NewRow(Owner)]
        /\ users = {Owner}
        /\ account = [u \in People |-> NewRow(u)]
        /\ outbox = {}
        /\ mailed = {Token("reset", Owner, NewRow(Owner))}
        /\ missing = {}
        /\ failed = {}

Starts(r, operation) == place[r] = "start" /\ op[r] = operation

Goto(r, p) == /\ place' = [place EXCEPT ![r] = p]
              /\ UNCHANGED <<op, identity>>

About(r, u) == /\ target' = [target EXCEPT ![r] = u]
               /\ seen' = [seen EXCEPT ![r] = account[u]]

Stay == UNCHANGED <<target, seen>>

\* Rows locked by select_for_update until their transaction is over.
Locked(u) == \E r \in Requests : place[r] = "locked" /\ target[r] = u

-----------------------------------------------------------------------------
\* register_user

Clash(r, q) == \/ identity[r][1] = identity[q][1]
               \/ identity[r][2] = identity[q][2]

\* Transactions that inserted a row and are still open.
Inserted == {r \in Requests : place[r] \in {"inserted", "queued"}}

\* The lookups of the e-mail and of the username, and the password validators.
CheckIdentity(r) ==
    /\ Starts(r, "register")
    /\ \/ Goto(r, "refused")
       \/ /\ \A q \in users \ {Owner} : ~Clash(r, q)
          /\ Goto(r, "checked")
    /\ Stay
    /\ UNCHANGED <<users, account, mailVars>>

\* The unique indexes make the INSERT wait for an open transaction that clashes.
\* When that one commits, IntegrityError; the query of the except clause then
\* fails in the broken transaction.
InsertUser(r) ==
    /\ place[r] = "checked"
    /\ \A q \in Inserted : ~Clash(r, q)
    /\ Goto(r, IF \E q \in users \ {Owner} : Clash(r, q) THEN "error" ELSE "inserted")
    /\ Stay
    /\ UNCHANGED <<users, account, mailVars>>

\* send_verification_email.delay(...), with the transaction still open.
DispatchMail(r) ==
    /\ place[r] = "inserted"
    /\ outbox' = outbox \cup {<<"verify", r>>}
    /\ Goto(r, "queued")
    /\ Stay
    /\ UNCHANGED <<users, account, mailed, missing, failed>>

CommitUser(r) ==
    /\ place[r] = "queued"
    /\ users' = users \cup {r}
    /\ Goto(r, "done")
    /\ About(r, r)
    /\ UNCHANGED <<account, mailVars>>

\* The broker refuses the message or the connection is lost: rolled back.
RegisterFails(r) ==
    /\ r \in Inserted
    /\ Goto(r, "error")
    /\ Stay
    /\ UNCHANGED <<users, account, mailVars>>

-----------------------------------------------------------------------------
\* The rest of auth_service, and api_key_service

Refuse(r) == /\ Goto(r, "refused")
             /\ Stay
             /\ UNCHANGED <<users, account, mailVars>>

\* resend_verification_email, request_password_reset: for a user that is there.
RequestMail(r, template, u) ==
    /\ u \in users
    /\ template = "verify" => ~account[u].is_email_verified
    /\ outbox' = outbox \cup {<<template, u>>}
    /\ Goto(r, "done")
    /\ About(r, u)
    /\ UNCHANGED <<users, account, mailed, missing, failed>>

Resend(r, u) == Starts(r, "resend") /\ RequestMail(r, "verify", u)

Forgot(r, u) == Starts(r, "forgot") /\ RequestMail(r, "reset", u)

\* Mutant: the reset reads its user without select_for_update.
LoadForReset(r, token) ==
    /\ Starts(r, "confirm")
    /\ token[1] = "reset"
    /\ token[3] = account[token[2]].password
    /\ Goto(r, "loaded")
    /\ About(r, token[2])
    /\ UNCHANGED <<users, account, mailVars>>

\* select_for_update().get(...), then the token against the row as it is now.
LockForReset(r, token) ==
    /\ Starts(r, "confirm")
    /\ token[1] = "reset"
    /\ ~Locked(token[2])
    /\ token[3] = account[token[2]].password
    /\ Goto(r, "locked")
    /\ About(r, token[2])
    /\ UNCHANGED <<users, account, mailVars>>

\* verify_email: the same lock, and refused when it is verified already.
LockForVerify(r, token) ==
    /\ Starts(r, "verify")
    /\ token[1] = "verify"
    /\ ~Locked(token[2])
    /\ ~account[token[2]].is_email_verified
    /\ Goto(r, "locked")
    /\ About(r, token[2])
    /\ UNCHANGED <<users, account, mailVars>>

\* request.user, by a plain SELECT; a key is looked up by its value.
Authenticate(r, u) ==
    /\ place[r] = "start"
    /\ op[r] \in {"change", "profile", "rotate", "use_key"}
    /\ u \in users
    /\ Goto(r, "loaded")
    /\ About(r, u)
    /\ UNCHANGED <<users, account, mailVars>>

Update(r, operation, row) ==
    /\ place[r] \in {"loaded", "locked"}
    /\ op[r] = operation
    /\ place[r] = "loaded" => ~Locked(target[r])
    /\ account' = [account EXCEPT ![target[r]] = row]
    /\ Goto(r, "done")
    /\ Stay
    /\ UNCHANGED <<users, mailVars>>

Current(r) == account[target[r]]

\* save(update_fields=...): only the columns that are named.
ResetPassword(r) == Update(r, "confirm", [Current(r) EXCEPT !.password = r])

ChangePassword(r) == Update(r, "change", [Current(r) EXCEPT !.password = r])

VerifyEmail(r) == Update(r, "verify", [Current(r) EXCEPT !.is_email_verified = TRUE])

\* Mutant: user.save() writes every column of the copy.
UpdateProfileWhole(r) == Update(r, "profile", [seen[r] EXCEPT !.key = Current(r).key])

\* The names of a user; the key in the row is a table of its own.
UpdateProfile(r) == Update(r, "profile", Current(r))

\* Mutant: the key is cleared, for the next save to fill in.
ClearKey(r) == Update(r, "rotate", [Current(r) EXCEPT !.key = "none"])

RotateKey(r) == Update(r, "rotate", [Current(r) EXCEPT !.key = r])

\* Mutant: api_key.save() with the copy found.
TouchWhole(r) == Update(r, "use_key", [Current(r) EXCEPT !.key = seen[r].key])

\* An UPDATE of last_used_at alone.
TouchKey(r) == Update(r, "use_key", Current(r))

\* A serializer, a stale or wrong token, password or key, a throttle; or a
\* rollback: the lock goes with the transaction.
Rejected(r) ==
    /\ place[r] \in {"start", "loaded", "locked"}
    /\ op[r] # "register"
    /\ Refuse(r)

-----------------------------------------------------------------------------
\* users/tasks.py

\* Mutant: the address travels with the message, no user is looked up.
SendMailBlindly(m) ==
    /\ m \in outbox
    /\ mailed' = mailed \cup {Token(m[1], m[2], account[m[2]])}
    /\ outbox' \in {outbox, outbox \ {m}}
    /\ UNCHANGED <<webVars, users, account, missing, failed>>

\* The token is made from the row as it is now.  A worker that dies between the
\* mail and its acknowledgement sends another one.
SendMail(m) ==
    /\ m \in outbox
    /\ m[2] \in users
    /\ mailed' = mailed \cup {Token(m[1], m[2], account[m[2]])}
    /\ outbox' \in {outbox, outbox \ {m}}
    /\ UNCHANGED <<webVars, users, account, missing, failed>>

\* User.DoesNotExist: the task logs it and returns, for good.
SkipMail(m) ==
    /\ m \in outbox
    /\ m[2] \notin users
    /\ outbox' = outbox \ {m}
    /\ missing' = missing \cup {m}
    /\ UNCHANGED <<webVars, users, account, mailed, failed>>

\* Mutant: send_mail(fail_silently=True).
SwallowFailure(m) ==
    /\ m \in outbox
    /\ outbox' = outbox \ {m}
    /\ UNCHANGED <<webVars, users, account, mailed, missing, failed>>

\* The mail server fails every retry: the task ends as a failure.
GiveUpMail(m) ==
    /\ m \in outbox
    /\ m[2] \in users
    /\ outbox' = outbox \ {m}
    /\ failed' = failed \cup {m}
    /\ UNCHANGED <<webVars, users, account, mailed, missing>>

-----------------------------------------------------------------------------
Registration(r) == \/ CheckIdentity(r) \/ InsertUser(r) \/ DispatchMail(r)
                   \/ CommitUser(r) \/ RegisterFails(r)

Request(r) ==
    \/ Registration(r)
    \/ \E u \in People : Resend(r, u) \/ Forgot(r, u) \/ Authenticate(r, u)
    \/ \E token \in mailed : LockForReset(r, token) \/ LockForVerify(r, token)
    \/ ResetPassword(r) \/ ChangePassword(r) \/ VerifyEmail(r) \/ UpdateProfile(r)
    \/ RotateKey(r) \/ TouchKey(r) \/ Rejected(r)

MailTask(m) == SendMail(m) \/ SkipMail(m) \/ GiveUpMail(m)

MailTasks == {"verify", "reset"} \X People

AllStopped == /\ \A r \in Requests : place[r] \in {"done", "refused", "error"}
              /\ outbox = {}
              /\ UNCHANGED vars

Next == \/ \E r \in Requests : Request(r)
        \/ \E m \in MailTasks : MailTask(m)
        \/ AllStopped

\* A mail task that waits is worked on until it is over.
Spec == Init /\ [][Next]_vars
             /\ \A m \in MailTasks : WF_vars(MailTask(m) /\ m \notin outbox')

-----------------------------------------------------------------------------
TypeOK ==
    /\ op \in [Requests -> Operations]
    /\ identity \in [Requests -> Identities]
    /\ place \in [Requests -> {"start", "checked", "inserted", "queued", "loaded",
                               "locked", "done", "refused", "error"}]
    /\ target \in [Requests -> People]
    /\ seen \in [Requests -> Row]
    /\ users \in SUBSET People
    /\ account \in [People -> Row]
    /\ outbox \cup missing \cup failed \subseteq MailTasks
    /\ mailed \subseteq {"verify", "reset"} \X People \X People

Done(operation) == {r \in Requests : op[r] = operation /\ place[r] = "done"}

\* No two resets replaced the same password, so no reset token worked twice, and
\* an address is verified once (tokens.py, "each token implicitly one-time-use";
\* auth_service.py, the row lock before the check of the token).
OneTimeToken ==
    /\ \A r, q \in Done("confirm") :
          r # q /\ target[r] = target[q] => seen[r].password # seen[q].password
    /\ \A r, q \in Done("verify") : target[r] = target[q] => r = q

\* Whatever runs beside it, a write replaces a password or a key by the one its
\* own request made: neither ever comes back once it was replaced, and an
\* address does not become unverified (rotate, and the UPDATE of last_used_at in
\* authentication.py; update_fields in auth_service.py).
NothingReturns ==
    [][\A u \in users : LET old == account[u] new == account'[u] IN
          /\ new.key # old.key => new.key \in Done("rotate")' \ Done("rotate")
          /\ new.password # old.password =>
                new.password \in (Done("confirm") \cup Done("change"))'
                                    \ (Done("confirm") \cup Done("change"))
          /\ old.is_email_verified => new.is_email_verified]_vars

\* A registration that was refused or failed leaves nothing: no user, and no
\* mail whatever it had queued; the users there are differ in e-mail and
\* username (auth_service.py, register_user; tasks.py, "user missing").
RegistrationsExplained ==
    /\ users = {Owner} \cup Done("register")
    /\ \A r, q \in users \ {Owner} : r # q => ~Clash(r, q)
    /\ \A token \in mailed : token[2] \in users

\* Everybody who registers is mailed a verification link, or the failure is on
\* record, or the task ran before the commit and found nobody.
RegisteredIsAnswered ==
    \A r \in Requests :
        r \in users ~> \/ Token("verify", r, NewRow(r)) \in mailed
                       \/ <<"verify", r>> \in missing \cup failed

\* "Create a new (unverified) user and dispatch a verification email."
RegisteredIsMailed ==
    \A r \in Requests :
        r \in users ~> \/ Token("verify", r, NewRow(r)) \in mailed
                       \/ <<"verify", r>> \in failed
=============================================================================
