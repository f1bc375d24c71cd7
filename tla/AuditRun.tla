------------------------------ MODULE AuditRun ------------------------------
(***************************************************************************)
(* Accessibility audits paid with credits: run_accessibility_audit of      *)
(* audits/services/audit_service.py over the ledger of module Credits,     *)
(* beside purchases (credits/views/credit.py) and the owner's soft delete  *)
(* (audits/views/audit.py).                                                *)
(*                                                                         *)
(* An audit is one HTTP request.  Its row is created in autocommit mode,   *)
(* WAVE is called with no transaction open, then one atomic block charges  *)
(* the account, saves the whole row and inserts the issues.  WAVE is an    *)
(* external service: it answers, fails, or answers something parse_wave    *)
(* cannot read.  An anonymous request has the owner NoUser and no charge.  *)
(***************************************************************************)
EXTENDS Credits, FiniteSets

VARIABLES
    pc,          \* request -> where its handler is
    audit        \* request -> its committed row of accessibility_audit

auditVars == <<pc, audit>>
vars == <<creditVars, auditVars>>

AUDIT_CREDIT_COST == 1

ASSUME AuditAssumption == /\ AUDIT_CREDIT_COST \in Amounts
                          /\ "purchase" \in AddTypes
                          /\ IsFiniteSet(Requests)

\* An audit handler between its first and its last statement.
Running == {"checked", "calling", "parsing", "finalising", "saved", "failing"}

\* A handler that is over: it answered with the outcome, an exception nobody
\* expected became a 500, or its process died.
Over == {"answered", "raised", "crashed"}

Audit == [status : {"none", "pending", "completed", "failed"},
          owner : Users \cup {NoUser}, credits_consumed : {0, AUDIT_CREDIT_COST},
          is_deleted : BOOLEAN]

NoAudit == [status |-> "none", owner |-> NoUser, credits_consumed |-> 0,
            is_deleted |-> FALSE]

Authenticated(r) == audit[r].owner \in Users

Goto(r, place) == pc' = [pc EXCEPT ![r] = place]

-----------------------------------------------------------------------------
Init == /\ InitCredits
        /\ pc = [r \in Requests |-> "start"]
        /\ audit = [r \in Requests |-> NoAudit]

\* CreditPurchaseView.post: the serializer lets amounts from 1 up through.
PurchaseCredits(r, u, n) ==
    /\ pc[r] = "start"
    /\ n >= 1
    /\ Goto(r, "purchasing")
    /\ Call(r, u, "purchase", n)
    /\ UNCHANGED audit

PurchaseStep(r) ==
    /\ pc[r] = "purchasing"
    /\ Advance(r) \/ ConnectionLost(r)
    /\ UNCHANGED auditVars

\* The pre-flight check: a plain read of the committed balance, no lock.
CheckBalance(r, owner) ==
    /\ pc[r] = "start"
    /\ audit' = [audit EXCEPT ![r].owner = owner]
    /\ Goto(r, IF owner \in Users /\ balance[owner].balance < AUDIT_CREDIT_COST
               THEN "answered" ELSE "checked")
    /\ UNCHANGED creditVars

CreateAudit(r) ==
    /\ pc[r] = "checked"
    /\ audit' = [audit EXCEPT ![r].status = "pending"]
    /\ Goto(r, "calling")
    /\ UNCHANGED creditVars

\* Mutant: a status the column does not know.
WaveFailsUnknown(r) ==
    /\ pc[r] = "calling"
    /\ audit' = [audit EXCEPT ![r].status = "error"]
    /\ Goto(r, "answered")
    /\ UNCHANGED creditVars

\* Mutant: the exception goes on and the row is left as it is.
WaveFailsUnmarked(r) ==
    /\ pc[r] = "calling"
    /\ Goto(r, "answered")
    /\ UNCHANGED <<creditVars, audit>>

\* fetch_wave raises: the row is marked failed and the exception goes on.
WaveFails(r) ==
    /\ pc[r] = "calling"
    /\ audit' = [audit EXCEPT ![r].status = "failed"]
    /\ Goto(r, "answered")
    /\ UNCHANGED creditVars

WaveAnswers(r) ==
    /\ pc[r] = "calling"
    /\ Goto(r, "parsing")
    /\ UNCHANGED <<creditVars, audit>>

\* parse_wave raises on a body it does not expect; no handler surrounds it.
ParseFails(r) ==
    /\ pc[r] = "parsing"
    /\ Goto(r, "raised")
    /\ UNCHANGED <<creditVars, audit>>

\* The atomic block opens; an authenticated request calls deduct_credit.
EnterAtomic(r) ==
    /\ pc[r] = "parsing"
    /\ Goto(r, "finalising")
    /\ UNCHANGED audit
    /\ IF Authenticated(r) THEN Call(r, audit[r].owner, "usage", AUDIT_CREDIT_COST)
                           ELSE UNCHANGED creditVars

DeductCredit(r) ==
    /\ pc[r] = "finalising"
    /\ LockBalance(r) \/ Write(r)
    /\ UNCHANGED auditVars

\* deduct_credit raises: the balance went down since the pre-flight check.
DeductRefused(r) ==
    /\ pc[r] = "finalising"
    /\ InsufficientCredits(r)
    /\ Goto(r, "failing")
    /\ UNCHANGED audit

\* audit.save(): written inside the transaction, the row now locked.
SaveAudit(r) ==
    /\ pc[r] = "finalising"
    /\ Authenticated(r) => txn[r].phase = "written"
    /\ Goto(r, "saved")
    /\ UNCHANGED <<creditVars, audit>>

\* Mutant: the charge committed on its own before the audit is saved.
FinaliseFailsCharged(r) ==
    /\ pc[r] \in {"finalising", "saved"}
    /\ Authenticated(r) => txn[r].phase \in Open
    /\ Goto(r, "failing")
    /\ UNCHANGED audit
    /\ IF ~Authenticated(r) THEN UNCHANGED creditVars
       ELSE IF txn[r].phase = "written" THEN Commit(r) ELSE Rollback(r, "failed")

\* Mutant: the except clause reaches beyond the commit of the block.
FinaliseFailsLate(r) ==
    \/ /\ pc[r] \in {"finalising", "saved"}
       /\ Authenticated(r) => txn[r].phase \in Open
       /\ Goto(r, "failing")
       /\ UNCHANGED audit
       /\ IF Authenticated(r) THEN Rollback(r, "failed") ELSE UNCHANGED creditVars
    \/ /\ pc[r] = "answered"
       /\ audit[r].status = "completed"
       /\ Goto(r, "failing")
       /\ UNCHANGED <<creditVars, audit>>

\* The database refuses a statement of the block (a value too long or out of
\* range, in the description of the charge, in the audit or in an issue).
FinaliseFails(r) ==
    /\ pc[r] \in {"finalising", "saved"}
    /\ Authenticated(r) => txn[r].phase \in Open
    /\ Goto(r, "failing")
    /\ UNCHANGED audit
    /\ IF Authenticated(r) THEN Rollback(r, "failed") ELSE UNCHANGED creditVars

\* The block commits: charge, audit and issues at once.  save() wrote every
\* column of the copy loaded before the call, is_deleted = FALSE among them.
CommitAudit(r) ==
    /\ pc[r] = "saved"
    /\ Goto(r, "answered")
    /\ audit' = [audit EXCEPT ![r] =
                    [status |-> "completed", owner |-> @.owner, is_deleted |-> FALSE,
                     credits_consumed |-> IF Authenticated(r) THEN AUDIT_CREDIT_COST ELSE 0]]
    /\ IF Authenticated(r) THEN Commit(r) ELSE UNCHANGED creditVars

\* The except clause: a fresh copy, saved by its named columns.
MarkFailed(r) ==
    /\ pc[r] = "failing"
    /\ audit' = [audit EXCEPT ![r].status = "failed", ![r].credits_consumed = 0]
    /\ Goto(r, "answered")
    /\ UNCHANGED creditVars

\* Mutant: the connection of a dead process keeps its lock.
CrashKeepingLock(r) ==
    /\ pc[r] \in Running
    /\ Goto(r, "crashed")
    /\ UNCHANGED audit
    /\ IF txn[r].phase \in Open
       THEN SetPhase(r, "failed") /\ UNCHANGED <<balance, ledger, holder>>
       ELSE IF txn[r].phase = "waiting" THEN ConnectionLost(r) ELSE UNCHANGED creditVars

\* The server process dies (a worker timeout, a restart): its transaction is
\* rolled back and nobody resumes the request.
Crash(r) ==
    /\ pc[r] \in Running
    /\ Goto(r, "crashed")
    /\ UNCHANGED audit
    /\ IF txn[r].phase \in {"waiting"} \cup Open THEN ConnectionLost(r)
                                                ELSE UNCHANGED creditVars

\* DELETE /audits/{id}/ by the owner: a saved, uncommitted row makes it wait.
DeleteAudit(r) ==
    /\ Authenticated(r)
    /\ audit[r].status # "none"
    /\ ~audit[r].is_deleted
    /\ pc[r] # "saved"
    /\ audit' = [audit EXCEPT ![r].is_deleted = TRUE]
    /\ UNCHANGED <<creditVars, pc>>

\* Every request is over and every account idle.
AllOver == /\ \A r \in Requests : \/ pc[r] \in Over
                                  \/ pc[r] = "purchasing" /\ txn[r].phase \in Answered
           /\ UNCHANGED vars

\* The next statement of the handler of r, its process being alive.
HandlerStep(r) ==
    \/ CreateAudit(r) \/ WaveFails(r) \/ WaveAnswers(r) \/ ParseFails(r)
    \/ EnterAtomic(r) \/ DeductCredit(r) \/ DeductRefused(r) \/ SaveAudit(r)
    \/ FinaliseFails(r) \/ CommitAudit(r) \/ MarkFailed(r)

AuditNext ==
    \/ \E r \in Requests, u \in Users, n \in Amounts : PurchaseCredits(r, u, n)
    \/ \E r \in Requests, owner \in Users \cup {NoUser} : CheckBalance(r, owner)
    \/ \E r \in Requests : \/ PurchaseStep(r) \/ HandlerStep(r)
                           \/ Crash(r) \/ DeleteAudit(r)
    \/ AllOver

\* The server runs every handler it accepted, and WAVE answers or times out.
AuditFairness ==
    \A r \in Requests : /\ WF_vars(HandlerStep(r)) /\ SF_vars(DeductCredit(r))
                        /\ WF_vars(PurchaseStep(r))

AuditSpec == Init /\ [][AuditNext]_vars /\ AuditFairness

-----------------------------------------------------------------------------
AuditTypeOK == /\ TypeOK
               /\ pc \in [Requests -> {"start", "purchasing"} \cup Running \cup Over]
               /\ audit \in [Requests -> Audit]

\* The ledger entries that charge request r.
ChargesOf(r, u) == {i \in DOMAIN ledger[u] : /\ ledger[u][i].request = r
                                             /\ ledger[u][i].type = "usage"}

\* An audit is charged exactly when it is completed, once, to its owner and
\* with the cost the row states; a failed, pending, abandoned or anonymous
\* audit is never charged (audit_service.py: "consume no credit").
ChargedIffCompleted ==
    \A r \in Requests, u \in Users :
        LET paid == audit[r].status = "completed" /\ audit[r].owner = u IN
        /\ Cardinality(ChargesOf(r, u)) = IF paid THEN 1 ELSE 0
        /\ paid => audit[r].credits_consumed = AUDIT_CREDIT_COST
        /\ audit[r].status # "completed" => audit[r].credits_consumed = 0

\* What a user has used is the cost of the audits completed for the user:
\* requests that race past the same pre-flight check do not share a credit.
UsageMatchesAudits ==
    \A u \in Users :
        balance[u].total_used =
            AUDIT_CREDIT_COST * Cardinality({r \in Requests : audit[r].status = "completed"
                                                           /\ audit[r].owner = u})

\* No lock is held while WAVE is called or after the request is over ("so we
\* never hold a lock over HTTP").
NoLockOverHttp ==
    \A u \in Users : holder[u] # NoRequest =>
                        pc[holder[u]] \in {"purchasing", "finalising", "saved"}

\* An outcome is final: the except clause never turns a committed audit into a
\* failed one, and no later step takes a charge back.
OutcomeFinal ==
    [][\A r \in Requests : audit[r].status \in {"completed", "failed"} =>
          /\ audit'[r].status = audit[r].status
          /\ audit'[r].credits_consumed = audit[r].credits_consumed]_vars

\* Audits and purchases move credits by the operations of the credit service
\* only: what holds of Credits holds here.
UsesCredits == InitCredits /\ [][Next]_creditVars

\* Every audit comes to an outcome, whatever else runs, unless its process
\* died or WAVE's body could not be parsed.
AuditSettles ==
    \A r \in Requests :
        audit[r].status = "pending" ~> \/ audit[r].status \in {"completed", "failed"}
                                       \/ pc[r] \in {"raised", "crashed"}

\* Only restore() reverses a soft delete (common/models.py).
DeletedStaysDeleted ==
    [][\A r \in Requests : audit[r].is_deleted => audit'[r].is_deleted]_vars
=============================================================================
