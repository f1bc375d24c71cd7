--------------------------- MODULE AccountsProofs ---------------------------
(***************************************************************************)
(* Proofs about module Accounts, for any number of requests and users: a   *)
(* token works once, what was replaced does not come back, and only the    *)
(* registrations that succeeded leave a user behind.                       *)
(***************************************************************************)
EXTENDS Accounts, TLAPS

-----------------------------------------------------------------------------
\* A row with one column written by request r is a row.
LEMMA RowsStayRows ==
    ASSUME NEW row \in Row, NEW p \in People
    PROVE  /\ [row EXCEPT !.password = p] \in Row
           /\ [row EXCEPT !.key = p] \in Row
           /\ [row EXCEPT !.is_email_verified = TRUE] \in Row
           /\ row.password \in People /\ row.key \in People
  BY DEF Row

\* What a request writes keeps the rows of the users rows.
LEMMA UpdateKeepsTypes ==
    ASSUME TypeOK, NEW r \in Requests, NEW operation, NEW row \in Row,
           Update(r, operation, row)
    PROVE  TypeOK'
  <1>1. account' \in [People -> Row]
    BY DEF TypeOK, Update
  <1>2. place' \in [Requests -> {"start", "checked", "inserted", "queued", "loaded",
                                 "locked", "done", "refused", "error"}]
    BY DEF TypeOK, Update, Goto
  <1> QED BY <1>1, <1>2 DEF TypeOK, Update, Goto, Stay, mailVars

\* A mail task mails a token of the form TypeOK states.
LEMMA TokensAreTokens ==
    ASSUME NEW m \in MailTasks, NEW row \in Row
    PROVE  Token(m[1], m[2], row) \in {"verify", "reset"} \X People \X People
  <1>1. m[1] \in {"verify", "reset"} /\ m[2] \in People
    BY DEF MailTasks
  <1> QED BY <1>1 DEF Token, Row

\* Every step keeps requests, rows, tokens and mail tasks well formed.
LEMMA TypeStep == TypeOK /\ [Next]_vars => TypeOK'
  <1> SUFFICES ASSUME TypeOK, [Next]_vars PROVE TypeOK'
    OBVIOUS
  <1> USE DEF TypeOK
  <1>1. ASSUME NEW r \in Requests, CheckIdentity(r) PROVE TypeOK'
    BY <1>1 DEF CheckIdentity, Goto, Stay, mailVars
  <1>2. ASSUME NEW r \in Requests, InsertUser(r) PROVE TypeOK'
    BY <1>2 DEF InsertUser, Goto, Stay, mailVars
  <1>3. ASSUME NEW r \in Requests, DispatchMail(r) PROVE TypeOK'
    BY <1>3 DEF DispatchMail, Goto, Stay, MailTasks, People
  <1>4. ASSUME NEW r \in Requests, CommitUser(r) PROVE TypeOK'
    BY <1>4 DEF CommitUser, Goto, About, mailVars, People
  <1>5. ASSUME NEW r \in Requests, RegisterFails(r) PROVE TypeOK'
    BY <1>5 DEF RegisterFails, Goto, Stay, mailVars
  <1>6. ASSUME NEW r \in Requests, NEW u \in People, Resend(r, u) \/ Forgot(r, u) PROVE TypeOK'
    BY <1>6 DEF Resend, Forgot, RequestMail, Goto, About, MailTasks
  <1>7. ASSUME NEW r \in Requests, NEW u \in People, Authenticate(r, u) PROVE TypeOK'
    BY <1>7 DEF Authenticate, Goto, About, mailVars
  <1>8. ASSUME NEW r \in Requests, NEW token \in mailed,
               LockForReset(r, token) \/ LockForVerify(r, token)
        PROVE  TypeOK'
    <2>1. token[2] \in People
      OBVIOUS
    <2> QED BY <1>8, <2>1 DEF LockForReset, LockForVerify, Goto, About, mailVars
  <1>9. ASSUME NEW r \in Requests,
               \/ ResetPassword(r) \/ ChangePassword(r) \/ VerifyEmail(r)
               \/ UpdateProfile(r) \/ RotateKey(r) \/ TouchKey(r)
        PROVE  TypeOK'
    <2>1. Current(r) \in Row /\ r \in People
      BY DEF Current, People
    <2> QED BY <1>9, <2>1, RowsStayRows, UpdateKeepsTypes
            DEF ResetPassword, ChangePassword, VerifyEmail, UpdateProfile, RotateKey, TouchKey
  <1>10. ASSUME NEW r \in Requests, Rejected(r) PROVE TypeOK'
    BY <1>10 DEF Rejected, Refuse, Goto, Stay, mailVars
  <1>11. ASSUME NEW m \in MailTasks, SendMail(m) PROVE TypeOK'
    <2>1. account[m[2]] \in Row
      BY DEF MailTasks
    <2> QED BY <1>11, <2>1, TokensAreTokens DEF SendMail, webVars
  <1>12. ASSUME NEW m \in MailTasks, SkipMail(m) \/ GiveUpMail(m) PROVE TypeOK'
    BY <1>12 DEF SkipMail, GiveUpMail, webVars
  <1>13. CASE UNCHANGED vars
    BY <1>13 DEF vars, webVars, mailVars
  <1> QED BY <1>1, <1>2, <1>3, <1>4, <1>5, <1>6, <1>7, <1>8, <1>9, <1>10, <1>11, <1>12, <1>13
          DEF Next, Request, Registration, MailTask, AllStopped

\* At the start every request is well formed, and one reset token is out.
LEMMA TypeInit == Init => TypeOK
  <1> SUFFICES ASSUME Init PROVE TypeOK
    OBVIOUS
  <1>1. \A u \in People : NewRow(u) \in Row
    BY DEF NewRow, Row
  <1>2. Owner \in People
    BY DEF People
  <1>3. NewRow(Owner).password = Owner
    BY DEF NewRow
  <1>4. Token("reset", Owner, NewRow(Owner)) \in {"verify", "reset"} \X People \X People
    BY <1>2, <1>3 DEF Token
  <1> QED BY <1>1, <1>2, <1>4 DEF Init, TypeOK

\* Requests, rows, tokens and mail tasks stay well formed (users/models,
\* users/tokens.py, users/tasks.py).
THEOREM AccountsTypeCorrect == Spec => []TypeOK
  BY TypeInit, TypeStep, PTL DEF Spec

-----------------------------------------------------------------------------
\* The requests that register somebody.
Registering == {r \in Requests : op[r] = "register"}

\* Where a request can be tells what it asks for; users registered, and tokens
\* were mailed to users only.
PlacesOK ==
    /\ users \subseteq {Owner} \cup Registering
    /\ \A token \in mailed : token[2] \in users
    /\ \A r \in Requests :
          /\ place[r] \in {"checked", "inserted", "queued"} => op[r] = "register"
          /\ place[r] = "loaded" => op[r] \in {"change", "profile", "rotate", "use_key"}
          /\ place[r] = "locked" => op[r] \in {"confirm", "verify"}

\* Names that may stand in a row: the ones no request is going to write.
Used == {Owner} \cup Registering \cup {r \in Requests : place[r] = "done"}

FreshOK == /\ \A u \in {Owner} \cup Registering : account[u].password \in Used
           /\ \A r \in Requests : seen[r].password \in Used

\* The row lock is exclusive, and what was checked under it still holds.
LocksOK ==
    /\ \A r, q \in Requests : /\ place[r] = "locked" /\ place[q] = "locked"
                              /\ target[r] = target[q]
                              => r = q
    /\ \A r \in Requests :
          place[r] = "locked" =>
              /\ op[r] = "confirm" => seen[r].password = account[target[r]].password
              /\ op[r] = "verify" => ~account[target[r]].is_email_verified

\* What a finished reset or verification replaced is not in the row any more.
DoneOK == /\ \A r \in Done("confirm") : seen[r].password # account[target[r]].password
          /\ \A r \in Done("verify") : account[target[r]].is_email_verified

TokenInv == TypeOK /\ PlacesOK /\ FreshOK /\ LocksOK /\ DoneOK /\ OneTimeToken

\* No token has been used in the beginning.
LEMMA TokenInit == Init => TokenInv
  <1> SUFFICES ASSUME Init PROVE TokenInv
    OBVIOUS
  <1>1. \A u \in People : NewRow(u).password = u
    BY DEF NewRow
  <1>2. /\ Owner \in People /\ Registering \subseteq People
        /\ \A u \in People : account[u] = NewRow(u)
    BY DEF Init, People, Registering
  <1>3. \A r \in Requests : place[r] = "start" /\ seen[r] = NewRow(Owner)
    BY DEF Init
  <1>4. PlacesOK
    <2>1. Token("reset", Owner, NewRow(Owner))[2] = Owner
      BY DEF Token
    <2> QED BY <2>1, <1>3 DEF Init, PlacesOK
  <1> QED BY <1>1, <1>2, <1>3, <1>4, TypeInit
          DEF TokenInv, FreshOK, LocksOK, DoneOK, OneTimeToken, Done, Used, Registering

Places == {"start", "checked", "inserted", "queued", "loaded", "locked", "done", "refused",
           "error"}

\* A request that goes on, or is over, without a lock and without a write.
LEMMA QuietStep ==
    ASSUME TokenInv, TypeOK', NEW r \in Requests,
           NEW p \in {"checked", "inserted", "queued", "refused", "error"},
           place[r] # "done", Goto(r, p), Stay, UNCHANGED <<account, users, mailed>>,
           p \in {"checked", "inserted", "queued"} => op[r] = "register"
    PROVE  TokenInv'
  <1> USE DEF TokenInv
  <1>1. /\ place' = [place EXCEPT ![r] = p] /\ op' = op /\ target' = target /\ seen' = seen
        /\ account' = account /\ users' = users /\ mailed' = mailed
    BY DEF Goto, Stay
  <1>2. place \in [Requests -> Places]
    BY DEF TypeOK, Places
  <1>3. PlacesOK'
    BY <1>1, <1>2 DEF PlacesOK, Registering
  <1>4. \A q \in Requests : /\ q # r => place'[q] = place[q]
                            /\ place'[r] \notin {"locked", "done"}
    BY <1>1, <1>2
  <1>5. \A o : Done(o)' = Done(o)
    BY <1>1, <1>4 DEF Done
  <1>6. Used' = Used
    BY <1>1, <1>4 DEF Used, Registering
  <1>7. FreshOK' /\ DoneOK' /\ OneTimeToken'
    BY <1>1, <1>5, <1>6 DEF FreshOK, DoneOK, OneTimeToken, Registering
  <1>8. LocksOK'
    BY <1>1, <1>4 DEF LocksOK
  <1> QED BY <1>3, <1>7, <1>8

\* A request that reads the row of a user, without a lock.
LEMMA ReadStep ==
    ASSUME TokenInv, TypeOK', NEW r \in Requests, NEW p \in {"done", "loaded"},
           NEW u \in {Owner} \cup Registering,
           place[r] # "done", op[r] \notin {"confirm", "verify"},
           p = "loaded" => op[r] \in {"change", "profile", "rotate", "use_key"},
           Goto(r, p), About(r, u), UNCHANGED <<account, mailed>>,
           users' \subseteq users \cup (Registering \cap {r}), users \subseteq users'
    PROVE  TokenInv'
  <1> USE DEF TokenInv
  <1>1. /\ place' = [place EXCEPT ![r] = p] /\ op' = op
        /\ target' = [target EXCEPT ![r] = u] /\ seen' = [seen EXCEPT ![r] = account[u]]
        /\ account' = account /\ mailed' = mailed
    BY DEF Goto, About
  <1>2. /\ place \in [Requests -> Places] /\ target \in [Requests -> People]
        /\ seen \in [Requests -> Row]
    BY DEF TypeOK, Places
  <1>3. PlacesOK'
    BY <1>1, <1>2 DEF PlacesOK, Registering
  <1>4. \A q \in Requests :
            /\ q # r => place'[q] = place[q] /\ target'[q] = target[q] /\ seen'[q] = seen[q]
            /\ place'[r] # "locked" /\ seen'[r] = account[u]
    BY <1>1, <1>2
  <1>5. Done("confirm")' = Done("confirm") /\ Done("verify")' = Done("verify")
    BY <1>1, <1>4 DEF Done
  <1>6. r \notin Done("confirm") /\ r \notin Done("verify")
    BY DEF Done
  <1>7. Used \subseteq Used' /\ Registering' = Registering
    BY <1>1, <1>4 DEF Used, Registering
  <1>8. FreshOK'
    BY <1>1, <1>4, <1>7 DEF FreshOK
  <1>9. DoneOK' /\ OneTimeToken'
    BY <1>1, <1>4, <1>5, <1>6 DEF DoneOK, OneTimeToken, Done
  <1>10. LocksOK'
    BY <1>1, <1>4 DEF LocksOK
  <1> QED BY <1>3, <1>8, <1>9, <1>10

\* A request that locks the row of a user and checks its token under the lock.
LEMMA LockStep ==
    ASSUME TokenInv, TypeOK', NEW r \in Requests, NEW token \in mailed,
           LockForReset(r, token) \/ LockForVerify(r, token)
    PROVE  TokenInv'
  <1> USE DEF TokenInv
  <1> DEFINE u == token[2]
  <1>1. /\ place[r] = "start" /\ op[r] \in {"confirm", "verify"} /\ ~Locked(u)
        /\ place' = [place EXCEPT ![r] = "locked"] /\ op' = op
        /\ target' = [target EXCEPT ![r] = u] /\ seen' = [seen EXCEPT ![r] = account[u]]
        /\ account' = account /\ mailed' = mailed /\ users' = users
        /\ op[r] = "verify" => ~account[u].is_email_verified
    BY DEF LockForReset, LockForVerify, Starts, Goto, About, mailVars
  <1>2. /\ place \in [Requests -> Places] /\ target \in [Requests -> People]
        /\ seen \in [Requests -> Row]
    BY DEF TypeOK, Places
  <1>3. PlacesOK' /\ u \in {Owner} \cup Registering
    BY <1>1, <1>2 DEF PlacesOK, Registering
  <1>4. \A q \in Requests :
            /\ q # r => place'[q] = place[q] /\ target'[q] = target[q] /\ seen'[q] = seen[q]
            /\ place'[r] = "locked" /\ seen'[r] = account[u] /\ target'[r] = u
    BY <1>1, <1>2
  <1>5. Done("confirm")' = Done("confirm") /\ Done("verify")' = Done("verify")
    BY <1>1, <1>4 DEF Done
  <1>6. r \notin Done("confirm") /\ r \notin Done("verify")
    BY <1>1 DEF Done
  <1>7. Used' = Used /\ Registering' = Registering
    BY <1>1, <1>4 DEF Used, Registering
  <1>8. FreshOK'
    BY <1>1, <1>3, <1>4, <1>7 DEF FreshOK
  <1>9. DoneOK' /\ OneTimeToken'
    BY <1>1, <1>4, <1>5, <1>6 DEF DoneOK, OneTimeToken, Done
  <1>10. LocksOK'
    BY <1>1, <1>4 DEF LocksOK, Locked
  <1> QED BY <1>3, <1>8, <1>9, <1>10

\* A request that writes the row of its user and is over: what it writes into
\* the password is its own name, which nobody has used, and it leaves no lock.
LEMMA WriteStep ==
    ASSUME TokenInv, TypeOK', NEW r \in Requests, NEW row \in Row,
           NEW operation \in {"confirm", "verify", "change", "profile", "rotate", "use_key"},
           Update(r, operation, row),
           row.password \in {Current(r).password, r},
           operation = "confirm" => row.password = r,
           \/ operation = "verify"
           \/ Current(r).is_email_verified => row.is_email_verified,
           operation = "verify" => row.is_email_verified
    PROVE  TokenInv'
  <1> USE DEF TokenInv
  <1> DEFINE u == target[r]
  <1>1. /\ place[r] \in {"loaded", "locked"} /\ op[r] = operation
        /\ place[r] = "loaded" => ~Locked(u)
        /\ place' = [place EXCEPT ![r] = "done"] /\ op' = op
        /\ target' = target /\ seen' = seen
        /\ account' = [account EXCEPT ![u] = row] /\ mailed' = mailed /\ users' = users
    BY DEF Update, Goto, Stay, mailVars
  <1>2. /\ place \in [Requests -> Places] /\ target \in [Requests -> People]
        /\ seen \in [Requests -> Row] /\ account \in [People -> Row] /\ u \in People
    BY DEF TypeOK, Places
  <1>3. PlacesOK'
    BY <1>1, <1>2 DEF PlacesOK, Registering
  <1>4. /\ \A q \in Requests : q # r => place'[q] = place[q]
        /\ place'[r] = "done"
        /\ \A v \in People : v # u => account'[v] = account[v]
        /\ account'[u] = row
    BY <1>1, <1>2
  <1>5. Done("confirm")' \subseteq Done("confirm") \cup {r}
        /\ Done("verify")' \subseteq Done("verify") \cup {r}
        /\ (r \in Done("confirm")' <=> operation = "confirm")
        /\ (r \in Done("verify")' <=> operation = "verify")
    BY <1>1, <1>4 DEF Done
  <1>6. r \notin Used
    BY <1>1, OwnerAssumption DEF Used, Registering
  <1>7. Used' = Used \cup {r} /\ Registering' = Registering
    BY <1>1, <1>4 DEF Used, Registering
  <1>8. FreshOK'
    <2>1. {Owner} \cup Registering \subseteq People
      BY DEF Registering, People
    <2>2. ASSUME NEW v \in {Owner} \cup Registering PROVE account'[v].password \in Used'
      BY <1>4, <1>7, <2>1 DEF FreshOK, Current
    <2> QED BY <1>1, <1>7, <2>2 DEF FreshOK
  <1>9. LocksOK'
    <2>1. ASSUME NEW q \in Requests, place'[q] = "locked"
          PROVE  q # r /\ place[q] = "locked" /\ target[q] # u /\ target[q] \in People
      BY <1>1, <1>2, <1>4, <2>1 DEF LocksOK, Locked
    <2>2. ASSUME NEW q \in Requests, place'[q] = "locked"
          PROVE  account'[target[q]] = account[target[q]]
      BY <1>4, <2>1, <2>2
    <2> QED BY <1>1, <2>1, <2>2 DEF LocksOK
  <1>10. operation = "confirm" => seen[r].password = account[u].password
    BY <1>1 DEF LocksOK, PlacesOK
  <1>11. operation = "verify" => ~account[u].is_email_verified
    BY <1>1 DEF LocksOK, PlacesOK
  <1>12. ASSUME NEW q \in Done("confirm") PROVE seen[q].password # r
    BY <1>6 DEF FreshOK, Done
  <1>13. seen[r].password # r
    BY <1>6 DEF FreshOK
  <1>14. ASSUME NEW q \in Done("confirm")'
         PROVE  seen'[q].password # account'[target'[q]].password
    <2>1. CASE q = r
      BY <1>1, <1>4, <1>5, <1>13, <2>1
    <2>2. CASE q # r
      <3>1. q \in Done("confirm") /\ target[q] \in People
        BY <1>2, <1>5, <2>2 DEF Done
      <3>2. seen[q].password # account[target[q]].password
        BY <3>1 DEF DoneOK
      <3> QED BY <1>1, <1>4, <1>12, <3>1, <3>2 DEF Current
    <2> QED BY <2>1, <2>2
  <1>15. ASSUME NEW q \in Done("verify")'
         PROVE  account'[target'[q]].is_email_verified
    <2>1. CASE q = r
      BY <1>1, <1>4, <1>5, <2>1
    <2>2. CASE q # r
      <3>1. q \in Done("verify") /\ target[q] \in People
        BY <1>2, <1>5, <2>2 DEF Done
      <3>2. account[target[q]].is_email_verified
        BY <3>1 DEF DoneOK
      <3> QED BY <1>1, <1>4, <3>1, <3>2 DEF Current
    <2> QED BY <2>1, <2>2
  <1>16. ASSUME NEW p \in Done("confirm")', NEW q \in Done("confirm")',
                p # q, target'[p] = target'[q]
         PROVE  seen'[p].password # seen'[q].password
    <2>1. CASE p # r /\ q # r
      BY <1>1, <1>5, <1>16, <2>1 DEF OneTimeToken
    <2>2. CASE p = r
      BY <1>1, <1>5, <1>10, <1>16, <2>2 DEF DoneOK
    <2>3. CASE q = r
      BY <1>1, <1>5, <1>10, <1>16, <2>3 DEF DoneOK
    <2> QED BY <2>1, <2>2, <2>3
  <1>17. ASSUME NEW p \in Done("verify")', NEW q \in Done("verify")',
                target'[p] = target'[q]
         PROVE  p = q
    <2>1. CASE p # r /\ q # r
      BY <1>1, <1>5, <1>17, <2>1 DEF OneTimeToken
    <2>2. CASE p = r /\ q # r
      BY <1>1, <1>5, <1>11, <1>17, <2>2 DEF DoneOK
    <2>3. CASE q = r /\ p # r
      BY <1>1, <1>5, <1>11, <1>17, <2>3 DEF DoneOK
    <2> QED BY <2>1, <2>2, <2>3
  <1>18. DoneOK'
    BY <1>14, <1>15 DEF DoneOK
  <1>19. OneTimeToken'
    BY <1>16, <1>17 DEF OneTimeToken
  <1> QED BY <1>3, <1>8, <1>9, <1>18, <1>19

\* What a mail task does: tokens for users, and nothing else that matters here.
LEMMA MailStep ==
    ASSUME TokenInv, TypeOK', UNCHANGED <<webVars, users, account>>,
           \A token \in mailed' : token \in mailed \/ token[2] \in users
    PROVE  TokenInv'
  <1> USE DEF TokenInv, webVars
  <1>1. PlacesOK'
    BY DEF PlacesOK, Registering
  <1>2. Done("confirm")' = Done("confirm") /\ Done("verify")' = Done("verify")
    BY DEF Done
  <1>3. FreshOK'
    BY DEF FreshOK, Used, Registering
  <1>4. LocksOK'
    BY DEF LocksOK
  <1>5. DoneOK' /\ OneTimeToken'
    BY <1>2 DEF DoneOK, OneTimeToken
  <1> QED BY <1>1, <1>3, <1>4, <1>5

\* A row with one column written still has the others.
LEMMA ColumnsStay ==
    ASSUME NEW row \in Row, NEW p
    PROVE  /\ [row EXCEPT !.password = p].password = p
           /\ [row EXCEPT !.password = p].is_email_verified = row.is_email_verified
           /\ [row EXCEPT !.password = p].key = row.key
           /\ [row EXCEPT !.key = p].password = row.password
           /\ [row EXCEPT !.key = p].is_email_verified = row.is_email_verified
           /\ [row EXCEPT !.key = p].key = p
           /\ [row EXCEPT !.is_email_verified = TRUE].password = row.password
           /\ [row EXCEPT !.is_email_verified = TRUE].is_email_verified
           /\ [row EXCEPT !.is_email_verified = TRUE].key = row.key
  BY DEF Row

\* The invariant of tokens, locks and names yet to be written is inductive.
LEMMA TokenStep == TokenInv /\ [Next]_vars => TokenInv'
  <1> SUFFICES ASSUME TokenInv, [Next]_vars PROVE TokenInv'
    OBVIOUS
  <1> TypeOK'
    BY TypeStep DEF TokenInv
  <1>0. PlacesOK /\ TypeOK
    BY DEF TokenInv
  <1>1. ASSUME NEW r \in Requests, CheckIdentity(r) PROVE TokenInv'
    <2>1. CASE Goto(r, "refused")
      BY <1>1, <2>1, QuietStep DEF CheckIdentity, Starts, mailVars
    <2>2. CASE Goto(r, "checked")
      BY <1>1, <2>2, QuietStep DEF CheckIdentity, Starts, mailVars
    <2> QED BY <1>1, <2>1, <2>2 DEF CheckIdentity
  <1>2. ASSUME NEW r \in Requests, InsertUser(r) PROVE TokenInv'
    <2>1. op[r] = "register"
      BY <1>0, <1>2 DEF InsertUser, PlacesOK
    <2>2. CASE Goto(r, "error")
      BY <1>2, <2>1, <2>2, QuietStep DEF InsertUser, mailVars
    <2>3. CASE Goto(r, "inserted")
      BY <1>2, <2>1, <2>3, QuietStep DEF InsertUser, mailVars
    <2> QED BY <1>2, <2>2, <2>3 DEF InsertUser
  <1>3. ASSUME NEW r \in Requests, DispatchMail(r) PROVE TokenInv'
    <2>1. op[r] = "register"
      BY <1>0, <1>3 DEF DispatchMail, PlacesOK
    <2> QED BY <1>3, <2>1, QuietStep DEF DispatchMail
  <1>4. ASSUME NEW r \in Requests, CommitUser(r) PROVE TokenInv'
    <2>1. op[r] = "register" /\ r \in Registering /\ place[r] = "queued"
      BY <1>0, <1>4 DEF CommitUser, PlacesOK, Registering
    <2> QED BY <1>4, <2>1, ReadStep DEF CommitUser, mailVars
  <1>5. ASSUME NEW r \in Requests, RegisterFails(r) PROVE TokenInv'
    <2>1. place[r] # "done"
      BY <1>5 DEF RegisterFails, Inserted
    <2> QED BY <1>5, <2>1, QuietStep DEF RegisterFails, mailVars
  <1>6. ASSUME NEW r \in Requests, NEW u \in People, Resend(r, u) \/ Forgot(r, u)
        PROVE  TokenInv'
    <2>1. u \in {Owner} \cup Registering /\ place[r] = "start" /\ op[r] \in {"resend", "forgot"}
      BY <1>0, <1>6 DEF Resend, Forgot, RequestMail, PlacesOK, Starts
    <2> QED BY <1>6, <2>1, ReadStep DEF Resend, Forgot, RequestMail
  <1>7. ASSUME NEW r \in Requests, NEW u \in People, Authenticate(r, u) PROVE TokenInv'
    <2>1. u \in {Owner} \cup Registering
      BY <1>0, <1>7 DEF Authenticate, PlacesOK
    <2> QED BY <1>7, <2>1, ReadStep DEF Authenticate, mailVars
  <1>8. ASSUME NEW r \in Requests, NEW token \in mailed,
               LockForReset(r, token) \/ LockForVerify(r, token)
        PROVE  TokenInv'
    BY <1>8, LockStep
  <1>9. ASSUME NEW r \in Requests, place[r] \in {"loaded", "locked"},
               \/ ResetPassword(r) \/ ChangePassword(r) \/ VerifyEmail(r)
               \/ UpdateProfile(r) \/ RotateKey(r) \/ TouchKey(r)
        PROVE  TokenInv'
    <2>1. Current(r) \in Row /\ r \in People
      BY <1>0 DEF TypeOK, Current, People
    <2>2. CASE ResetPassword(r) \/ ChangePassword(r)
      <3> DEFINE row == [Current(r) EXCEPT !.password = r]
      <3>1. row \in Row
        BY <2>1, RowsStayRows
      <3>2. /\ row.password = r
            /\ row.is_email_verified = Current(r).is_email_verified
        BY <2>1, ColumnsStay
      <3>3. \E operation \in {"confirm", "change"} : Update(r, operation, row)
        BY <2>2 DEF ResetPassword, ChangePassword
      <3> HIDE DEF row
      <3> QED BY <3>1, <3>2, <3>3, WriteStep
    <2>3. CASE VerifyEmail(r)
      <3> DEFINE row == [Current(r) EXCEPT !.is_email_verified = TRUE]
      <3>1. row \in Row
        BY <2>1, RowsStayRows
      <3>2. /\ row.password = Current(r).password
            /\ row.is_email_verified
        BY <2>1, ColumnsStay
      <3>3. Update(r, "verify", row)
        BY <2>3 DEF VerifyEmail
      <3> HIDE DEF row
      <3> QED BY <3>1, <3>2, <3>3, WriteStep
    <2>4. CASE UpdateProfile(r) \/ TouchKey(r)
      <3>1. \E operation \in {"profile", "use_key"} : Update(r, operation, Current(r))
        BY <2>4 DEF UpdateProfile, TouchKey
      <3> QED BY <2>1, <3>1, WriteStep
    <2>5. CASE RotateKey(r)
      <3> DEFINE row == [Current(r) EXCEPT !.key = r]
      <3>1. row \in Row
        BY <2>1, RowsStayRows
      <3>2. /\ row.password = Current(r).password
            /\ row.is_email_verified = Current(r).is_email_verified
        BY <2>1, ColumnsStay
      <3>3. Update(r, "rotate", row)
        BY <2>5 DEF RotateKey
      <3> HIDE DEF row
      <3> QED BY <3>1, <3>2, <3>3, WriteStep
    <2> QED BY <1>9, <2>2, <2>3, <2>4, <2>5
  <1>10. ASSUME NEW r \in Requests, Rejected(r) PROVE TokenInv'
    <2>1. place[r] # "done"
      BY <1>10 DEF Rejected
    <2> QED BY <1>10, <2>1, QuietStep DEF Rejected, Refuse, mailVars
  <1>11. ASSUME NEW m \in MailTasks, MailTask(m) PROVE TokenInv'
    <2>1. Token(m[1], m[2], account[m[2]])[2] = m[2]
      BY DEF Token
    <2> QED BY <1>11, <2>1, MailStep DEF MailTask, SendMail, SkipMail, GiveUpMail
  <1>12. CASE UNCHANGED vars
    BY <1>12, MailStep DEF vars, webVars, mailVars
  <1>13. ASSUME NEW r \in Requests,
               \/ ResetPassword(r) \/ ChangePassword(r) \/ VerifyEmail(r)
               \/ UpdateProfile(r) \/ RotateKey(r) \/ TouchKey(r)
        PROVE  place[r] \in {"loaded", "locked"}
    BY <1>13 DEF ResetPassword, ChangePassword, VerifyEmail, UpdateProfile, RotateKey,
                 TouchKey, Update
  <1> QED BY <1>1, <1>2, <1>3, <1>4, <1>5, <1>6, <1>7, <1>8, <1>9, <1>10, <1>11, <1>12, <1>13
          DEF Next, Request, Registration, AllStopped

\* A reset token works once and an address is verified once, however many
\* requests carry the same token at the same time (auth_service.py, the row lock
\* before the token is checked; tokens.py).
THEOREM OneTimeTokenCorrect == Spec => []OneTimeToken
  <1>1. TokenInv => OneTimeToken
    BY DEF TokenInv
  <1> QED BY TokenInit, TokenStep, <1>1, PTL DEF Spec

-----------------------------------------------------------------------------
\* What a step may do to the rows of the users.
NothingReturnsStep ==
    \A u \in users : LET old == account[u] new == account'[u] IN
          /\ new.key # old.key => new.key \in Done("rotate")' \ Done("rotate")
          /\ new.password # old.password =>
                new.password \in (Done("confirm") \cup Done("change"))'
                                    \ (Done("confirm") \cup Done("change"))
          /\ old.is_email_verified => new.is_email_verified

\* A write changes one row, by a request that was not over and now is.
LEMMA UpdateTouchesOne ==
    ASSUME TypeOK, NEW r \in Requests, NEW operation, NEW row,
           Update(r, operation, row)
    PROVE  /\ target[r] \in People
           /\ account'[target[r]] = row
           /\ \A u \in People : u # target[r] => account'[u] = account[u]
           /\ place[r] # "done" /\ op[r] = operation
           /\ r \in Done(operation)'
  BY DEF TypeOK, Update, Goto, Done

\* A step leaves a password or a key, or writes one that is new.
LEMMA StepReturnsNothing == TypeOK /\ [Next]_vars => NothingReturnsStep
  <1> SUFFICES ASSUME TypeOK, [Next]_vars PROVE NothingReturnsStep
    OBVIOUS
  <1>1. users \subseteq People /\ account \in [People -> Row]
    BY DEF TypeOK
  <1>2. account' = account => NothingReturnsStep
    BY DEF NothingReturnsStep
  <1>3. ASSUME NEW r \in Requests PROVE Current(r) \in Row /\ Current(r) = account[target[r]]
    BY DEF TypeOK, Current
  <1>4. ASSUME NEW r \in Requests, NEW operation, NEW row,
               Update(r, operation, row),
               row.key # Current(r).key => row.key = r /\ operation = "rotate",
               row.password # Current(r).password =>
                  row.password = r /\ operation \in {"confirm", "change"},
               Current(r).is_email_verified => row.is_email_verified
        PROVE  NothingReturnsStep
    <2> SUFFICES ASSUME NEW u \in users
                 PROVE  LET old == account[u] new == account'[u] IN
                          /\ new.key # old.key => new.key \in Done("rotate")' \ Done("rotate")
                          /\ new.password # old.password =>
                                new.password \in (Done("confirm") \cup Done("change"))'
                                                    \ (Done("confirm") \cup Done("change"))
                          /\ old.is_email_verified => new.is_email_verified
      BY DEF NothingReturnsStep
    <2>1. CASE u # target[r]
      BY <1>1, <1>4, <2>1, UpdateTouchesOne
    <2>2. CASE u = target[r]
      <3>1. account'[u] = row /\ account[u] = Current(r)
        BY <1>3, <1>4, <2>2, UpdateTouchesOne
      <3>2. \A o : r \notin Done(o)
        BY <1>4, UpdateTouchesOne DEF Done
      <3>3. r \in Done(operation)'
        BY <1>4, UpdateTouchesOne
      <3> QED BY <1>4, <3>1, <3>2, <3>3
    <2> QED BY <2>1, <2>2
  <1>5. ASSUME NEW r \in Requests, ResetPassword(r) \/ ChangePassword(r) PROVE NothingReturnsStep
    <2> DEFINE row == [Current(r) EXCEPT !.password = r]
    <2>1. /\ row.key = Current(r).key /\ row.password = r
          /\ row.is_email_verified = Current(r).is_email_verified
      BY <1>3, ColumnsStay
    <2>2. \E operation \in {"confirm", "change"} : Update(r, operation, row)
      BY <1>5 DEF ResetPassword, ChangePassword
    <2> HIDE DEF row
    <2> QED BY <1>4, <2>1, <2>2
  <1>6. ASSUME NEW r \in Requests, VerifyEmail(r) PROVE NothingReturnsStep
    <2> DEFINE row == [Current(r) EXCEPT !.is_email_verified = TRUE]
    <2>1. /\ row.key = Current(r).key /\ row.password = Current(r).password
          /\ row.is_email_verified
      BY <1>3, ColumnsStay
    <2>2. Update(r, "verify", row)
      BY <1>6 DEF VerifyEmail
    <2> HIDE DEF row
    <2> QED BY <1>4, <2>1, <2>2
  <1>7. ASSUME NEW r \in Requests, UpdateProfile(r) \/ TouchKey(r) PROVE NothingReturnsStep
    <2>1. \E operation \in {"profile", "use_key"} : Update(r, operation, Current(r))
      BY <1>7 DEF UpdateProfile, TouchKey
    <2> QED BY <1>4, <2>1
  <1>8. ASSUME NEW r \in Requests, RotateKey(r) PROVE NothingReturnsStep
    <2> DEFINE row == [Current(r) EXCEPT !.key = r]
    <2>1. /\ row.key = r /\ row.password = Current(r).password
          /\ row.is_email_verified = Current(r).is_email_verified
      BY <1>3, ColumnsStay
    <2>2. Update(r, "rotate", row)
      BY <1>8 DEF RotateKey
    <2> HIDE DEF row
    <2> QED BY <1>4, <2>1, <2>2
  <1>9. ASSUME NEW r \in Requests, Registration(r) \/ Rejected(r) PROVE account' = account
    BY <1>9 DEF Registration, CheckIdentity, InsertUser, DispatchMail, CommitUser,
                RegisterFails, Rejected, Refuse
  <1>10. ASSUME NEW r \in Requests, NEW u \in People, Resend(r, u) \/ Forgot(r, u) \/ Authenticate(r, u)
         PROVE  account' = account
    BY <1>10 DEF Resend, Forgot, RequestMail, Authenticate
  <1>11. ASSUME NEW r \in Requests, NEW token \in mailed,
                LockForReset(r, token) \/ LockForVerify(r, token)
         PROVE  account' = account
    BY <1>11 DEF LockForReset, LockForVerify
  <1>12. ASSUME NEW m \in MailTasks, MailTask(m) PROVE account' = account
    BY <1>12 DEF MailTask, SendMail, SkipMail, GiveUpMail
  <1>13. CASE UNCHANGED vars
    BY <1>2, <1>13 DEF vars
  <1> QED BY <1>2, <1>5, <1>6, <1>7, <1>8, <1>9, <1>10, <1>11, <1>12, <1>13
          DEF Next, Request, AllStopped

\* Whatever requests run side by side, a password or a key that was replaced
\* never comes back, and an address stays verified (auth_service.py,
\* api_key_service.py, authentication.py: each write names its columns).
THEOREM NothingReturnsCorrect == Spec => NothingReturns
  <1>1. TypeOK /\ [Next]_vars => [NothingReturnsStep]_vars
    BY StepReturnsNothing
  <1> QED BY TypeInit, TypeStep, <1>1, PTL DEF Spec, NothingReturns, NothingReturnsStep

-----------------------------------------------------------------------------
\* Rows of registrations, committed or not.
Rows == (users \ {Owner}) \cup Inserted

\* What keeps registrations apart: the unique indexes see the rows of open
\* transactions too.
RegInv == /\ TypeOK
          /\ \A r \in Requests :
                place[r] \in {"checked", "inserted", "queued"} => op[r] = "register"
          /\ users = {Owner} \cup Done("register")
          /\ \A r, q \in Rows : r # q => ~Clash(r, q)
          /\ \A token \in mailed : token[2] \in users

\* Nobody but the owner is registered in the beginning.
LEMMA RegInit == Init => RegInv
  <1> SUFFICES ASSUME Init PROVE RegInv
    OBVIOUS
  <1>1. \A r \in Requests : place[r] = "start"
    BY DEF Init
  <1>2. Done("register") = {} /\ Rows = {}
    BY <1>1 DEF Done, Rows, Inserted, Init
  <1>3. Token("reset", Owner, NewRow(Owner))[2] = Owner
    BY DEF Token
  <1> QED BY <1>1, <1>2, <1>3, TypeInit DEF RegInv, Init

\* A step of one request to a place without a row of its own.
LEMMA RowlessStep ==
    ASSUME RegInv, TypeOK', NEW r \in Requests,
           NEW p \in {"checked", "queued", "loaded", "locked", "done", "refused", "error"},
           Goto(r, p), UNCHANGED <<users, mailed>>,
           p = "checked" => op[r] = "register",
           p = "queued" => place[r] = "inserted",
           p = "done" => op[r] # "register",
           place[r] # "done"
    PROVE  RegInv'
  <1> USE DEF RegInv
  <1>1. place' = [place EXCEPT ![r] = p] /\ op' = op /\ identity' = identity
    BY DEF Goto
  <1>2. place \in [Requests -> Places]
    BY DEF TypeOK, Places
  <1>3. \A q \in Requests : /\ q # r => place'[q] = place[q]
                            /\ place'[r] = p
    BY <1>1, <1>2
  <1>4. Done("register")' = Done("register")
    BY <1>1, <1>3 DEF Done
  <1>5. Inserted' \subseteq Inserted
    BY <1>3 DEF Inserted
  <1>6. Rows' \subseteq Rows
    BY <1>5 DEF Rows
  <1>7. \A q, t : Clash(q, t)' = Clash(q, t)
    BY <1>1 DEF Clash
  <1>8. \A q, t \in Rows' : q # t => ~Clash(q, t)'
    BY <1>6, <1>7
  <1>9. \A q \in Requests :
           place'[q] \in {"checked", "inserted", "queued"} => op'[q] = "register"
    BY <1>1, <1>3
  <1> QED BY <1>4, <1>8, <1>9

\* A user is inserted only where no open or committed one clashes.
LEMMA InsertStep ==
    ASSUME RegInv, TypeOK', NEW r \in Requests, InsertUser(r)
    PROVE  RegInv'
  <1> USE DEF RegInv
  <1>1. CASE Goto(r, "error")
    BY <1>1, RowlessStep DEF InsertUser, mailVars
  <1>2. CASE Goto(r, "inserted") /\ ~\E q \in users \ {Owner} : Clash(r, q)
    <2>1. /\ place' = [place EXCEPT ![r] = "inserted"] /\ op' = op /\ identity' = identity
          /\ users' = users /\ mailed' = mailed /\ place[r] = "checked"
          /\ \A q \in Rows : ~Clash(r, q)
      BY <1>2 DEF InsertUser, Goto, mailVars, Rows
    <2>2. \A q \in Requests : /\ q # r => place'[q] = place[q]
                              /\ place'[r] = "inserted"
      BY <2>1 DEF TypeOK
    <2>3. Done("register")' = Done("register") /\ Rows' = Rows \cup {r}
      BY <2>1, <2>2 DEF Done, Rows, Inserted
    <2>4. \A q, t : /\ Clash(q, t)' = Clash(q, t)
                    /\ Clash(q, t) = Clash(t, q)
      BY <2>1 DEF Clash
    <2>5. \A q, t \in Rows' : q # t => ~Clash(q, t)'
      BY <2>1, <2>3, <2>4
    <2> QED BY <2>1, <2>2, <2>3, <2>5
  <1> QED BY <1>1, <1>2 DEF InsertUser

\* A commit registers the user that its request has inserted.
LEMMA CommitStep ==
    ASSUME RegInv, TypeOK', NEW r \in Requests, CommitUser(r)
    PROVE  RegInv'
  <1> USE DEF RegInv
  <1>1. /\ place' = [place EXCEPT ![r] = "done"] /\ op' = op /\ identity' = identity
        /\ users' = users \cup {r} /\ mailed' = mailed
        /\ place[r] = "queued" /\ op[r] = "register"
    BY DEF CommitUser, Goto, mailVars
  <1>2. \A q \in Requests : /\ q # r => place'[q] = place[q]
                            /\ place'[r] = "done"
    BY <1>1 DEF TypeOK
  <1>3. Done("register")' = Done("register") \cup {r} /\ Rows' \subseteq Rows
    BY <1>1, <1>2, OwnerAssumption DEF Done, Rows, Inserted
  <1>4. \A q, t : Clash(q, t)' = Clash(q, t)
    BY <1>1 DEF Clash
  <1>5. \A q, t \in Rows' : q # t => ~Clash(q, t)'
    BY <1>3, <1>4
  <1>6. \A q \in Requests :
           place'[q] \in {"checked", "inserted", "queued"} => op'[q] = "register"
    BY <1>1, <1>2
  <1>7. \A token \in mailed' : token[2] \in users'
    BY <1>1
  <1> QED BY <1>1, <1>3, <1>5, <1>6, <1>7

\* A step that moves no request.
LEMMA StandingStep ==
    ASSUME RegInv, TypeOK', UNCHANGED <<webVars, users>>,
           \A token \in mailed' : token \in mailed \/ token[2] \in users
    PROVE  RegInv'
  <1> USE DEF RegInv, webVars
  <1>1. Done("register")' = Done("register") /\ Rows' = Rows
    BY DEF Done, Rows, Inserted
  <1>2. \A q, t : Clash(q, t)' = Clash(q, t)
    BY DEF Clash
  <1>3. \A q, t \in Rows' : q # t => ~Clash(q, t)'
    BY <1>1, <1>2
  <1> QED BY <1>1, <1>3

\* The invariant of registrations is inductive.
LEMMA RegStep == RegInv /\ [Next]_vars => RegInv'
  <1> SUFFICES ASSUME RegInv, [Next]_vars PROVE RegInv'
    OBVIOUS
  <1> TypeOK'
    BY TypeStep DEF RegInv
  <1>1. ASSUME NEW r \in Requests, CheckIdentity(r) PROVE RegInv'
    <2>1. CASE Goto(r, "refused")
      BY <1>1, <2>1, RowlessStep DEF CheckIdentity, Starts, mailVars
    <2>2. CASE Goto(r, "checked")
      BY <1>1, <2>2, RowlessStep DEF CheckIdentity, Starts, mailVars
    <2> QED BY <1>1, <2>1, <2>2 DEF CheckIdentity
  <1>2. ASSUME NEW r \in Requests, InsertUser(r) PROVE RegInv'
    BY <1>2, InsertStep
  <1>3. ASSUME NEW r \in Requests, DispatchMail(r) PROVE RegInv'
    BY <1>3, RowlessStep DEF DispatchMail
  <1>4. ASSUME NEW r \in Requests, CommitUser(r) PROVE RegInv'
    BY <1>4, CommitStep
  <1>5. ASSUME NEW r \in Requests, RegisterFails(r) PROVE RegInv'
    <2>1. place[r] # "done"
      BY <1>5 DEF RegisterFails, Inserted
    <2> QED BY <1>5, <2>1, RowlessStep DEF RegisterFails, mailVars
  <1>6. ASSUME NEW r \in Requests, NEW u \in People, Resend(r, u) \/ Forgot(r, u)
        PROVE  RegInv'
    <2>1. place[r] = "start" /\ op[r] # "register"
      BY <1>6 DEF Resend, Forgot, Starts
    <2> QED BY <1>6, <2>1, RowlessStep DEF Resend, Forgot, RequestMail
  <1>7. ASSUME NEW r \in Requests, NEW u \in People, Authenticate(r, u) PROVE RegInv'
    BY <1>7, RowlessStep DEF Authenticate, mailVars
  <1>8. ASSUME NEW r \in Requests, NEW token \in mailed,
               LockForReset(r, token) \/ LockForVerify(r, token)
        PROVE  RegInv'
    BY <1>8, RowlessStep DEF LockForReset, LockForVerify, Starts, mailVars
  <1>9. ASSUME NEW r \in Requests,
               \/ ResetPassword(r) \/ ChangePassword(r) \/ VerifyEmail(r)
               \/ UpdateProfile(r) \/ RotateKey(r) \/ TouchKey(r)
        PROVE  RegInv'
    <2>1. \E operation \in {"confirm", "change", "verify", "profile", "rotate", "use_key"},
             row \in {account'[target[r]]} \cup {Current(r)} \cup
                     {[Current(r) EXCEPT !.password = r], [Current(r) EXCEPT !.key = r],
                      [Current(r) EXCEPT !.is_email_verified = TRUE]} :
                Update(r, operation, row)
      BY <1>9 DEF ResetPassword, ChangePassword, VerifyEmail, UpdateProfile, RotateKey, TouchKey
    <2> QED BY <2>1, RowlessStep DEF Update, mailVars
  <1>10. ASSUME NEW r \in Requests, Rejected(r) PROVE RegInv'
    BY <1>10, RowlessStep DEF Rejected, Refuse, mailVars
  <1>11. ASSUME NEW m \in MailTasks, MailTask(m) PROVE RegInv'
    <2>1. Token(m[1], m[2], account[m[2]])[2] = m[2]
      BY DEF Token
    <2> QED BY <1>11, <2>1, StandingStep DEF MailTask, SendMail, SkipMail, GiveUpMail
  <1>12. CASE UNCHANGED vars
    BY <1>12, StandingStep DEF vars, webVars, mailVars
  <1> QED BY <1>1, <1>2, <1>3, <1>4, <1>5, <1>6, <1>7, <1>8, <1>9, <1>10, <1>11, <1>12
          DEF Next, Request, Registration, AllStopped

\* Only the registrations that succeeded leave a user, any two of them differ in
\* e-mail and username, and nobody else is ever mailed a token (auth_service.py,
\* register_user; models/user.py, the unique columns).
THEOREM RegistrationsExplainedCorrect == Spec => []RegistrationsExplained
  <1>1. RegInv => RegistrationsExplained
    BY DEF RegInv, RegistrationsExplained, Rows
  <1> QED BY RegInit, RegStep, <1>1, PTL DEF Spec

=============================================================================
