--------------------------- MODULE AuditRunProofs ---------------------------
(***************************************************************************)
(* Proofs about module AuditRun: audits and purchases move credits by the  *)
(* operations of Credits only, so its theorems carry over, and an audit is *)
(* charged exactly when it is completed.                                   *)
(***************************************************************************)
EXTENDS AuditRun, CreditsProofs, FiniteSetTheorems

-----------------------------------------------------------------------------
\* Every step of a request, an audit or a purchase, is a step of credit_service
\* or leaves its tables, locks and transactions alone.
LEMMA StepUsesCredits == [AuditNext]_vars => [Next]_creditVars
  <1> SUFFICES ASSUME [AuditNext]_vars PROVE [Next]_creditVars
    OBVIOUS
  <1>1. ASSUME NEW r \in Requests, NEW u \in Users, NEW n \in Amounts,
               PurchaseCredits(r, u, n)
        PROVE  Next
    BY <1>1, AuditAssumption DEF PurchaseCredits, Next, TransactionTypes
  <1>2. ASSUME NEW r \in Requests, PurchaseStep(r) PROVE Next
    BY <1>2 DEF PurchaseStep, Next
  <1>3. ASSUME NEW r \in Requests, EnterAtomic(r) PROVE Next \/ UNCHANGED creditVars
    BY <1>3, AuditAssumption DEF EnterAtomic, Authenticated, Next, TransactionTypes
  <1>4. ASSUME NEW r \in Requests, DeductCredit(r) PROVE Next
    BY <1>4 DEF DeductCredit, Advance, Next
  <1>5. ASSUME NEW r \in Requests, DeductRefused(r) PROVE Next
    BY <1>5 DEF DeductRefused, Advance, Next
  <1>6. ASSUME NEW r \in Requests, FinaliseFails(r) PROVE Next \/ UNCHANGED creditVars
    BY <1>6 DEF FinaliseFails, ConnectionLost, Next
  <1>7. ASSUME NEW r \in Requests, CommitAudit(r) PROVE Next \/ UNCHANGED creditVars
    BY <1>7 DEF CommitAudit, Advance, Next
  <1>8. ASSUME NEW r \in Requests, Crash(r) PROVE Next \/ UNCHANGED creditVars
    BY <1>8 DEF Crash, Next
  <1>9. ASSUME NEW r \in Requests, NEW owner \in Users \cup {NoUser}, CheckBalance(r, owner)
        PROVE  UNCHANGED creditVars
    BY <1>9 DEF CheckBalance
  <1>10. ASSUME NEW r \in Requests,
                \/ CreateAudit(r) \/ WaveFails(r) \/ WaveAnswers(r) \/ ParseFails(r)
                \/ SaveAudit(r) \/ MarkFailed(r) \/ DeleteAudit(r)
         PROVE  UNCHANGED creditVars
    BY <1>10 DEF CreateAudit, WaveFails, WaveAnswers, ParseFails, SaveAudit, MarkFailed,
                 DeleteAudit
  <1>11. CASE UNCHANGED vars
    BY <1>11 DEF vars
  <1> QED BY <1>1, <1>2, <1>3, <1>4, <1>5, <1>6, <1>7, <1>8, <1>9, <1>10, <1>11
          DEF AuditNext, HandlerStep, AllOver

\* Audits touch the balance rows and the ledger by the operations of the
\* credit service only, whatever their interleaving, failures and crashes.
THEOREM AuditsUseCredits == AuditSpec => UsesCredits
  <1>1. Init => InitCredits
    BY DEF Init
  <1> QED BY <1>1, StepUsesCredits, PTL DEF AuditSpec, UsesCredits

\* So what CreditsProofs shows of credit_service holds under the audits.
LEMMA AuditsKeepCredits == AuditSpec => []CreditInv
  BY AuditsUseCredits, InitInv, StepKeepsInv, PTL DEF UsesCredits

-----------------------------------------------------------------------------
\* Where a handler is determines what its transaction t and its row a are.
PlaceOK(place, t, a) ==
    /\ place \in {"start", "checked", "calling", "parsing"} => t.phase = "idle"
    /\ place \in {"start", "checked", "purchasing"} => a.status = "none"
    /\ place \in Running \ {"checked"} => a.status = "pending"
    /\ place = "purchasing" => t.type = "purchase"
    /\ place \in {"finalising", "saved"} /\ a.owner \in Users =>
          t.type = "usage" /\ t.user = a.owner /\ t.amount = AUDIT_CREDIT_COST

PlaceInv == \A r \in Requests : PlaceOK(pc[r], txn[r], audit[r])

\* The charge a row states is the cost exactly for a completed audit of a user.
StatedOK(a) ==
    a.credits_consumed = IF a.status = "completed" /\ a.owner \in Users
                         THEN AUDIT_CREDIT_COST ELSE 0

StatedInv == \A r \in Requests : StatedOK(audit[r])

Charges(r, u, i) == ledger[u][i].request = r /\ ledger[u][i].type = "usage"

\* A usage entry belongs to one completed audit of its user, and every
\* completed audit of a user has one.
ChargeInv ==
    /\ \A u \in Users : \A i \in DOMAIN ledger[u] : \A r \in Requests :
          Charges(r, u, i) => audit[r].status = "completed" /\ audit[r].owner = u
    /\ \A u \in Users : \A i, j \in DOMAIN ledger[u] : \A r \in Requests :
          Charges(r, u, i) /\ Charges(r, u, j) => i = j
    /\ \A u \in Users : \A r \in Requests :
          audit[r].status = "completed" /\ audit[r].owner = u =>
              \E i \in DOMAIN ledger[u] : Charges(r, u, i)

AuditInv == AuditTypeOK /\ PlaceInv /\ StatedInv /\ ChargeInv

\* No request has run yet: no audit, no charge.
LEMMA AuditInitInv == Init => AuditInv
  <1> SUFFICES ASSUME Init PROVE AuditInv
    OBVIOUS
  <1>1. CreditInv
    BY InitInv DEF Init
  <1>2. NoAudit \in Audit
    BY DEF NoAudit, Audit
  <1>3. AuditTypeOK
    BY <1>1, <1>2 DEF AuditTypeOK, Init, CreditInv
  <1>4. \A r \in Requests : pc[r] = "start" /\ audit[r] = NoAudit /\ txn[r] = Idle
    BY DEF Init, InitCredits
  <1>5. PlaceInv
    BY <1>4 DEF PlaceInv, PlaceOK, NoAudit, Idle, Running
  <1>6. StatedInv
    BY <1>4 DEF StatedInv, StatedOK, NoAudit
  <1>7. \A u \in Users : DOMAIN ledger[u] = {}
    <2>1. \A u \in Users : ledger[u] = <<>>
      BY DEF Init, InitCredits
    <2>2. DOMAIN <<>> = {}
      OBVIOUS
    <2> QED BY <2>1, <2>2
  <1>8. ChargeInv
    BY <1>4, <1>7 DEF ChargeInv, NoAudit
  <1> QED BY <1>3, <1>5, <1>6, <1>8 DEF AuditInv

Places == {"start", "purchasing"} \cup Running \cup Over

\* A step of one request that books nothing: the request ends up at place with
\* the row a, and the audits that are completed stay the same.
LEMMA UnbookedStep ==
    ASSUME AuditInv, TypeOK', NEW r \in Requests, NEW place \in Places, NEW a \in Audit,
           pc' = [pc EXCEPT ![r] = place], audit' = [audit EXCEPT ![r] = a],
           \A s \in Requests : s # r => txn'[s] = txn[s],
           ledger' = ledger,
           PlaceOK(place, txn'[r], a), StatedOK(a),
           a.status = "completed" <=> audit[r].status = "completed",
           a.status = "completed" => a.owner = audit[r].owner
    PROVE  AuditInv'
  <1>1. /\ \A s \in Requests : pc'[s] = IF s = r THEN place ELSE pc[s]
        /\ \A s \in Requests : audit'[s] = IF s = r THEN a ELSE audit[s]
    BY DEF AuditInv, AuditTypeOK
  <1>2. AuditTypeOK'
    BY DEF AuditInv, AuditTypeOK, Places
  <1>3. PlaceInv'
    <2> SUFFICES ASSUME NEW s \in Requests PROVE PlaceOK(pc'[s], txn'[s], audit'[s])
      BY DEF PlaceInv
    <2>1. PlaceOK(pc[s], txn[s], audit[s])
      BY DEF AuditInv, PlaceInv
    <2>2. CASE s = r
      BY <1>1, <2>2
    <2>3. CASE s # r
      BY <1>1, <2>1, <2>3
    <2> QED BY <2>2, <2>3
  <1>4. StatedInv'
    <2> SUFFICES ASSUME NEW s \in Requests PROVE StatedOK(audit'[s])
      BY DEF StatedInv
    <2>1. StatedOK(audit[s])
      BY DEF AuditInv, StatedInv
    <2> QED BY <1>1, <2>1
  <1>5. ChargeInv'
    <2>1. \A s \in Requests : /\ audit'[s].status = "completed" <=> audit[s].status = "completed"
                              /\ audit'[s].status = "completed" => audit'[s].owner = audit[s].owner
      BY <1>1
    <2> QED BY <2>1 DEF AuditInv, ChargeInv, Charges
  <1> QED BY <1>2, <1>3, <1>4, <1>5 DEF AuditInv

\* What the invariant says of one request of run_accessibility_audit.
LEMMA RowFacts ==
    ASSUME AuditInv, NEW r \in Requests
    PROVE  /\ audit[r] \in Audit /\ pc[r] \in Places
           /\ PlaceOK(pc[r], txn[r], audit[r]) /\ StatedOK(audit[r])
           /\ audit = [audit EXCEPT ![r] = audit[r]]
           /\ pc = [pc EXCEPT ![r] = pc[r]]
  BY DEF AuditInv, AuditTypeOK, Places, PlaceInv, StatedInv

\* The steps of run_accessibility_audit and of a delete that leave
\* credit_service alone keep the invariant.
LEMMA OwnStepKeeps ==
    ASSUME AuditInv, TypeOK', NEW r \in Requests, UNCHANGED creditVars,
           \/ \E owner \in Users \cup {NoUser} : CheckBalance(r, owner)
           \/ CreateAudit(r) \/ WaveFails(r) \/ WaveAnswers(r) \/ ParseFails(r)
           \/ SaveAudit(r) \/ MarkFailed(r) \/ DeleteAudit(r)
    PROVE  AuditInv'
  <1> USE RowFacts DEF Places, Running, Over, PlaceOK, StatedOK, Goto, creditVars
  <1>1. CASE \E owner \in Users \cup {NoUser} : CheckBalance(r, owner)
    <2> PICK owner \in Users \cup {NoUser} : CheckBalance(r, owner)
      BY <1>1
    <2> DEFINE a == [audit[r] EXCEPT !.owner = owner]
    <2>1. a \in Audit /\ a.status = "none" /\ a.credits_consumed = 0 /\ a.owner = owner
      BY DEF CheckBalance, Audit
    <2>2. \E place \in {"answered", "checked"} : pc' = [pc EXCEPT ![r] = place]
      BY DEF CheckBalance
    <2>3. audit' = [audit EXCEPT ![r] = a]
      BY DEF CheckBalance
    <2>4. txn[r].phase = "idle" /\ audit[r].status = "none"
      BY DEF CheckBalance
    <2> HIDE DEF a
    <2> QED BY <2>1, <2>2, <2>3, <2>4, UnbookedStep
  <1>2. CASE CreateAudit(r)
    <2> DEFINE a == [audit[r] EXCEPT !.status = "pending"]
    <2>1. a \in Audit /\ a.status = "pending" /\ a.credits_consumed = 0
      BY <1>2 DEF CreateAudit, Audit
    <2>2. pc' = [pc EXCEPT ![r] = "calling"] /\ audit' = [audit EXCEPT ![r] = a]
      BY <1>2 DEF CreateAudit
    <2>3. txn[r].phase = "idle" /\ audit[r].status = "none"
      BY <1>2 DEF CreateAudit
    <2> HIDE DEF a
    <2> QED BY <2>1, <2>2, <2>3, UnbookedStep
  <1>3. CASE WaveFails(r) \/ MarkFailed(r)
    <2> DEFINE a == [audit[r] EXCEPT !.status = "failed", !.credits_consumed = 0]
    <2>1. audit[r].status = "pending" /\ audit[r].credits_consumed = 0
      BY <1>3 DEF WaveFails, MarkFailed
    <2>2. a \in Audit /\ a.status = "failed" /\ a.credits_consumed = 0
      <3> HIDE DEF Places, Running, Over, PlaceOK, StatedOK, Goto, creditVars
      <3> QED BY DEF Audit
    <2>3. [audit[r] EXCEPT !.status = "failed"] = a
      BY <2>1 DEF Audit
    <2>4. pc' = [pc EXCEPT ![r] = "answered"] /\ audit' = [audit EXCEPT ![r] = a]
      BY <1>3, <2>3 DEF WaveFails, MarkFailed
    <2> HIDE DEF a
    <2> QED BY <2>1, <2>2, <2>4, UnbookedStep
  <1>4. CASE WaveAnswers(r)
    <2>1. pc' = [pc EXCEPT ![r] = "parsing"] /\ audit' = [audit EXCEPT ![r] = audit[r]]
      BY <1>4 DEF WaveAnswers
    <2>2. txn[r].phase = "idle" /\ audit[r].status = "pending"
      BY <1>4 DEF WaveAnswers
    <2> QED BY <2>1, <2>2, UnbookedStep
  <1>5. CASE ParseFails(r)
    <2>1. pc' = [pc EXCEPT ![r] = "raised"] /\ audit' = [audit EXCEPT ![r] = audit[r]]
      BY <1>5 DEF ParseFails
    <2>2. PlaceOK("raised", txn[r], audit[r])
      OBVIOUS
    <2> QED BY <2>1, <2>2, UnbookedStep
  <1>6. CASE SaveAudit(r)
    <2>1. pc' = [pc EXCEPT ![r] = "saved"] /\ audit' = [audit EXCEPT ![r] = audit[r]]
      BY <1>6 DEF SaveAudit
    <2>2. PlaceOK("saved", txn[r], audit[r])
      BY <1>6 DEF SaveAudit
    <2> QED BY <2>1, <2>2, UnbookedStep
  <1>7. CASE DeleteAudit(r)
    <2> DEFINE a == [audit[r] EXCEPT !.is_deleted = TRUE]
               place == pc[r]
    <2>1. /\ a \in Audit /\ a.status = audit[r].status /\ a.owner = audit[r].owner
          /\ a.credits_consumed = audit[r].credits_consumed
      <3> HIDE DEF Places, Running, Over, PlaceOK, StatedOK, Goto, creditVars
      <3> QED BY DEF Audit
    <2>2. pc' = [pc EXCEPT ![r] = place] /\ audit' = [audit EXCEPT ![r] = a]
      BY <1>7 DEF DeleteAudit
    <2>3. PlaceOK(place, txn'[r], a) /\ StatedOK(a)
      BY <2>1
    <2>4. /\ place \in Places /\ ledger' = ledger
          /\ \A s \in Requests : s # r => txn'[s] = txn[s]
      OBVIOUS
    <2> HIDE DEF a, place, Places, PlaceOK, StatedOK
    <2> QED BY <2>1, <2>2, <2>3, <2>4, UnbookedStep
  <1> QED BY <1>1, <1>2, <1>3, <1>4, <1>5, <1>6, <1>7

\* Past its call, a transaction keeps its user, type and amount.
LEMMA TxnKept ==
    ASSUME CreditInv, NEW r \in Requests, Advance(r) \/ ConnectionLost(r)
    PROVE  /\ \A s \in Requests : s # r => txn'[s] = txn[s]
           /\ txn'[r].type = txn[r].type /\ txn'[r].user = txn[r].user
           /\ txn'[r].amount = txn[r].amount
           /\ ~Commit(r) => ledger' = ledger
           /\ \/ LockBalance(r) \/ Write(r)
              \/ txn'[r].phase \notin {"waiting"} \cup Open
  <1> USE DEF CreditInv, TypeOK, Transaction, Rollback, SetPhase, Open
  <1>1. CASE LockBalance(r)
    BY <1>1 DEF LockBalance
  <1>2. CASE Write(r)
    BY <1>2 DEF Write
  <1>3. CASE InsufficientCredits(r)
    BY <1>3 DEF InsufficientCredits
  <1>4. CASE SaveRejected(r)
    BY <1>4 DEF SaveRejected
  <1>5. CASE Commit(r)
    BY <1>5 DEF Commit
  <1>6. CASE ConnectionLost(r)
    BY <1>6 DEF ConnectionLost
  <1> QED BY <1>1, <1>2, <1>3, <1>4, <1>5, <1>6 DEF Advance

\* A call of credit_service opens a transaction of its own request only.
LEMMA CallKept ==
    ASSUME CreditInv, NEW r \in Requests, NEW u \in Users, NEW type, NEW n, Call(r, u, type, n)
    PROVE  /\ \A s \in Requests : s # r => txn'[s] = txn[s]
           /\ txn'[r].type = type /\ txn'[r].user = u /\ txn'[r].amount = n
           /\ ledger' = ledger
  BY DEF CreditInv, TypeOK, Call

\* The steps of a request inside credit_service that book nothing, failures,
\* rollbacks and crashes included, keep the invariant.
LEMMA CreditStepKeeps ==
    ASSUME AuditInv, CreditInv, TypeOK', NEW r \in Requests,
           \/ \E u \in Users, n \in Amounts : PurchaseCredits(r, u, n)
           \/ PurchaseStep(r) /\ ~Commit(r)
           \/ EnterAtomic(r) \/ DeductCredit(r) \/ DeductRefused(r)
           \/ FinaliseFails(r) \/ Crash(r)
    PROVE  AuditInv'
  <1> USE RowFacts DEF Places, Running, Over, PlaceOK, StatedOK, Goto, creditVars, auditVars
  <1>1. CASE \E u \in Users, n \in Amounts : PurchaseCredits(r, u, n)
    <2> PICK u \in Users, n \in Amounts : PurchaseCredits(r, u, n)
      BY <1>1
    <2>1. /\ pc' = [pc EXCEPT ![r] = "purchasing"] /\ audit' = [audit EXCEPT ![r] = audit[r]]
          /\ pc[r] = "start" /\ Call(r, u, "purchase", n)
      BY DEF PurchaseCredits
    <2>2. PlaceOK("purchasing", txn'[r], audit[r])
      BY <2>1, CallKept
    <2> QED BY <2>1, <2>2, CallKept, UnbookedStep
  <1>2. CASE PurchaseStep(r) /\ ~Commit(r)
    <2>1. /\ pc' = [pc EXCEPT ![r] = "purchasing"] /\ audit' = [audit EXCEPT ![r] = audit[r]]
          /\ pc[r] = "purchasing" /\ (Advance(r) \/ ConnectionLost(r))
      BY <1>2 DEF PurchaseStep
    <2>2. PlaceOK("purchasing", txn'[r], audit[r])
      BY <2>1, TxnKept
    <2> QED BY <1>2, <2>1, <2>2, TxnKept, UnbookedStep
  <1>3. CASE EnterAtomic(r)
    <2>1. /\ pc' = [pc EXCEPT ![r] = "finalising"] /\ audit' = [audit EXCEPT ![r] = audit[r]]
          /\ audit[r].status = "pending"
      BY <1>3 DEF EnterAtomic
    <2>2. CASE Authenticated(r)
      <3>1. audit[r].owner \in Users /\ Call(r, audit[r].owner, "usage", AUDIT_CREDIT_COST)
        BY <1>3, <2>2 DEF EnterAtomic, Authenticated
      <3>2. /\ \A s \in Requests : s # r => txn'[s] = txn[s]
            /\ ledger' = ledger
            /\ txn'[r].type = "usage" /\ txn'[r].user = audit[r].owner
            /\ txn'[r].amount = AUDIT_CREDIT_COST
        BY <3>1, CallKept
      <3>3. PlaceOK("finalising", txn'[r], audit[r])
        BY <2>1, <3>2
      <3> QED BY <2>1, <3>2, <3>3, UnbookedStep
    <2>3. CASE ~Authenticated(r)
      <3>1. UNCHANGED creditVars
        BY <1>3, <2>3 DEF EnterAtomic
      <3>2. PlaceOK("finalising", txn'[r], audit[r])
        BY <2>1, <2>3 DEF Authenticated
      <3> QED BY <2>1, <3>1, <3>2, UnbookedStep
    <2> QED BY <2>2, <2>3
  <1>4. CASE DeductCredit(r)
    <2>1. /\ pc' = [pc EXCEPT ![r] = "finalising"] /\ audit' = [audit EXCEPT ![r] = audit[r]]
          /\ pc[r] = "finalising" /\ (LockBalance(r) \/ Write(r))
      BY <1>4 DEF DeductCredit
    <2>2. Advance(r) /\ ledger' = ledger
      BY <2>1 DEF Advance, LockBalance, Write
    <2>3. PlaceOK("finalising", txn'[r], audit[r])
      BY <2>1, <2>2, TxnKept
    <2> QED BY <2>1, <2>2, <2>3, TxnKept, UnbookedStep
  <1>5. CASE DeductRefused(r)
    <2>1. /\ pc' = [pc EXCEPT ![r] = "failing"] /\ audit' = [audit EXCEPT ![r] = audit[r]]
          /\ audit[r].status = "pending" /\ InsufficientCredits(r)
      BY <1>5 DEF DeductRefused
    <2>2. Advance(r) /\ ledger' = ledger
      BY <2>1 DEF Advance, InsufficientCredits, Rollback
    <2>3. PlaceOK("failing", txn'[r], audit[r])
      BY <2>1
    <2> QED BY <2>1, <2>2, <2>3, TxnKept, UnbookedStep
  <1>6. CASE FinaliseFails(r)
    <2>1. /\ pc' = [pc EXCEPT ![r] = "failing"] /\ audit' = [audit EXCEPT ![r] = audit[r]]
          /\ audit[r].status = "pending"
          /\ UNCHANGED creditVars \/ (txn[r].phase \in Open /\ Rollback(r, "failed"))
      BY <1>6 DEF FinaliseFails
    <2>2. /\ \A s \in Requests : s # r => txn'[s] = txn[s]
          /\ ledger' = ledger
      BY <2>1, TxnKept DEF ConnectionLost, Rollback
    <2>3. PlaceOK("failing", txn'[r], audit[r])
      BY <2>1
    <2> QED BY <2>1, <2>2, <2>3, UnbookedStep
  <1>7. CASE Crash(r)
    <2>1. /\ pc' = [pc EXCEPT ![r] = "crashed"] /\ audit' = [audit EXCEPT ![r] = audit[r]]
          /\ UNCHANGED creditVars \/ ConnectionLost(r)
      BY <1>7 DEF Crash
    <2>2. /\ \A s \in Requests : s # r => txn'[s] = txn[s]
          /\ ledger' = ledger
      BY <2>1, TxnKept DEF ConnectionLost, Rollback
    <2>3. PlaceOK("crashed", txn'[r], audit[r])
      OBVIOUS
    <2> QED BY <2>1, <2>2, <2>3, UnbookedStep
  <1> QED BY <1>1, <1>2, <1>3, <1>4, <1>5, <1>6, <1>7

-----------------------------------------------------------------------------
\* What appending one entry does to the entries that charge a request.
LEMMA ChargesAfter ==
    ASSUME CreditInv, NEW u \in Users, NEW e \in Entry,
           ledger' = [ledger EXCEPT ![u] = Append(ledger[u], e)]
    PROVE  /\ Len(ledger[u]) + 1 \notin DOMAIN ledger[u]
           /\ Len(ledger[u]) + 1 \in DOMAIN ledger'[u]
           /\ \A v \in Users : \A i \in DOMAIN ledger'[v] :
                 i \in DOMAIN ledger[v] \/ (v = u /\ i = Len(ledger[u]) + 1)
           /\ \A v \in Users : \A i \in DOMAIN ledger[v] :
                 i \in DOMAIN ledger'[v] /\ ledger'[v][i] = ledger[v][i]
           /\ ledger'[u][Len(ledger[u]) + 1] = e
  <1> DEFINE s == ledger[u]
             t == Append(s, e)
  <1>1. ledger \in [Users -> Seq(Entry)]
    BY DEF CreditInv, TypeOK
  <1>2. s \in Seq(Entry)
    BY <1>1
  <1>3. /\ DOMAIN s = 1..Len(s) /\ Len(s) \in Nat
        /\ DOMAIN t = 1..Len(s) + 1
        /\ \A i \in 1..Len(s) : t[i] = s[i]
        /\ t[Len(s) + 1] = e
    BY <1>2
  <1>4. \A v \in Users : ledger'[v] = IF v = u THEN t ELSE ledger[v]
    BY <1>1
  <1>5. /\ Len(s) + 1 \notin DOMAIN s /\ Len(s) + 1 \in DOMAIN t
        /\ \A i \in DOMAIN t : i \in DOMAIN s \/ i = Len(s) + 1
        /\ \A i \in DOMAIN s : i \in DOMAIN t /\ t[i] = s[i]
    BY <1>3
  <1> HIDE DEF t
  <1> QED BY <1>3, <1>4, <1>5

\* A purchase that commits charges nobody.
LEMMA PurchaseCommitKeeps ==
    ASSUME AuditInv, CreditInv, TypeOK', NEW r \in Requests, PurchaseStep(r), Commit(r)
    PROVE  AuditInv'
  <1> DEFINE u == txn[r].user
             e == EntryOf(r, txn[r])
  <1>1. /\ pc[r] = "purchasing" /\ UNCHANGED <<pc, audit>>
        /\ Advance(r)
    BY DEF PurchaseStep, auditVars, Advance
  <1>2. txn[r].type = "purchase"
    BY <1>1, RowFacts DEF PlaceOK
  <1>3. /\ u \in Users /\ e \in Entry /\ e.type = "purchase"
        /\ ledger' = [ledger EXCEPT ![u] = Append(ledger[u], e)]
    BY <1>2, CommitBooks
  <1>4. AuditTypeOK'
    BY <1>1 DEF AuditInv, AuditTypeOK
  <1>5. PlaceInv'
    <2>1. \A s \in Requests : s # r => txn'[s] = txn[s]
      BY <1>1, TxnKept
    <2>2. txn'[r].type = "purchase"
      BY <1>1, <1>2, TxnKept
    <2> SUFFICES ASSUME NEW s \in Requests PROVE PlaceOK(pc[s], txn'[s], audit[s])
      BY <1>1 DEF PlaceInv
    <2>3. PlaceOK(pc[s], txn[s], audit[s])
      BY RowFacts
    <2>4. CASE s = r
      BY <1>1, <2>2, <2>3, <2>4 DEF PlaceOK, Running
    <2>5. CASE s # r
      BY <2>1, <2>3, <2>5
    <2> QED BY <2>4, <2>5
  <1>6. StatedInv'
    BY <1>1 DEF AuditInv, StatedInv
  <1>7. ChargeInv'
    <2> HIDE DEF u, e
    <2>1. \A v \in Users : \A i \in DOMAIN ledger'[v] :
             ledger'[v][i].type = "usage" =>
                 i \in DOMAIN ledger[v] /\ ledger'[v][i] = ledger[v][i]
      BY <1>3, ChargesAfter
    <2>2. \A v \in Users : \A i \in DOMAIN ledger[v] :
             i \in DOMAIN ledger'[v] /\ ledger'[v][i] = ledger[v][i]
      BY <1>3, ChargesAfter
    <2> QED BY <1>1, <2>1, <2>2 DEF AuditInv, ChargeInv, Charges
  <1> QED BY <1>4, <1>5, <1>6, <1>7 DEF AuditInv

\* The audit that completes is the only one the new entry charges, and the one
\* the entry charges is completed by the same commit.
LEMMA CommitAuditKeeps ==
    ASSUME AuditInv, CreditInv, TypeOK', NEW r \in Requests, CommitAudit(r)
    PROVE  AuditInv'
  <1> DEFINE owner == audit[r].owner
             paid == owner \in Users
             a == [status |-> "completed", owner |-> owner, is_deleted |-> FALSE,
                   credits_consumed |-> IF paid THEN AUDIT_CREDIT_COST ELSE 0]
  <1>1. /\ pc[r] = "saved" /\ pc' = [pc EXCEPT ![r] = "answered"]
        /\ audit' = [audit EXCEPT ![r] = a]
        /\ paid => Commit(r)
        /\ ~paid => UNCHANGED creditVars
    BY RowFacts DEF CommitAudit, Authenticated, Goto
  <1>2. /\ owner \in Users \cup {NoUser} /\ a \in Audit
        /\ a.status = "completed" /\ a.owner = owner
        /\ a.credits_consumed = IF paid THEN AUDIT_CREDIT_COST ELSE 0
    BY RowFacts DEF Audit
  <1>3. /\ audit[r].status = "pending"
        /\ paid => txn[r].type = "usage" /\ txn[r].user = owner
    BY <1>1, RowFacts DEF PlaceOK, Running
  <1> HIDE DEF a
  <1>4. /\ \A s \in Requests : audit'[s] = IF s = r THEN a ELSE audit[s]
        /\ \A s \in Requests : pc'[s] = IF s = r THEN "answered" ELSE pc[s]
    BY <1>1 DEF AuditInv, AuditTypeOK
  <1>5. AuditTypeOK'
    BY <1>1, <1>2 DEF AuditInv, AuditTypeOK, Over
  <1>6. PlaceInv'
    <2>1. \A s \in Requests : s # r => txn'[s] = txn[s]
      BY <1>1, TxnKept DEF Advance, creditVars
    <2> SUFFICES ASSUME NEW s \in Requests PROVE PlaceOK(pc'[s], txn'[s], audit'[s])
      BY DEF PlaceInv
    <2>2. PlaceOK("answered", txn'[r], a)
      BY DEF PlaceOK, Running
    <2>3. PlaceOK(pc[s], txn[s], audit[s])
      BY RowFacts
    <2>4. CASE s = r
      BY <1>4, <2>2, <2>4
    <2>5. CASE s # r
      BY <1>4, <2>1, <2>3, <2>5
    <2> QED BY <2>4, <2>5
  <1>7. StatedInv'
    BY <1>2, <1>4 DEF AuditInv, StatedInv, StatedOK
  <1>8. ChargeInv'
    <2>1. CASE ~paid
      <3>1. ledger' = ledger
        BY <1>1, <2>1 DEF creditVars
      <3>2. \A s \in Requests, u \in Users :
               audit'[s].status = "completed" /\ audit'[s].owner = u <=>
                   audit[s].status = "completed" /\ audit[s].owner = u
        BY <1>2, <1>3, <1>4, <2>1
      <3> QED BY <3>1, <3>2 DEF AuditInv, ChargeInv, Charges
    <2>2. CASE paid
      <3> DEFINE e == EntryOf(r, txn[r])
                 k == Len(ledger[owner]) + 1
      <3>1. /\ e \in Entry /\ e.type = "usage" /\ e.request = r
            /\ ledger' = [ledger EXCEPT ![owner] = Append(ledger[owner], e)]
        BY <1>1, <1>3, <2>2, CommitBooks
      <3> HIDE DEF e
      <3>2. \A u \in Users : \A i \in DOMAIN ledger'[u] :
               i \in DOMAIN ledger[u] \/ (u = owner /\ i = k)
        BY <2>2, <3>1, ChargesAfter
      <3>3. \A u \in Users : \A i \in DOMAIN ledger[u] :
               i \in DOMAIN ledger'[u] /\ ledger'[u][i] = ledger[u][i]
        BY <2>2, <3>1, ChargesAfter
      <3>4. k \in DOMAIN ledger'[owner] /\ ledger'[owner][k] = e
        BY <2>2, <3>1, ChargesAfter
      <3> HIDE DEF k, owner
      <3>5. \A u \in Users : \A i \in DOMAIN ledger[u] : ~Charges(r, u, i)
        BY <1>3 DEF AuditInv, ChargeInv
      <3>6. ASSUME NEW u \in Users, NEW i \in DOMAIN ledger'[u], NEW s \in Requests,
                   ledger'[u][i].request = s, ledger'[u][i].type = "usage"
            PROVE  \/ s = r /\ u = owner /\ i = k
                   \/ s # r /\ i \in DOMAIN ledger[u] /\ Charges(s, u, i)
        <4>1. CASE i \in DOMAIN ledger[u]
          <5>1. Charges(s, u, i)
            BY <3>3, <3>6, <4>1 DEF Charges
          <5> QED BY <3>5, <4>1, <5>1
        <4>2. CASE u = owner /\ i = k
          BY <3>1, <3>4, <3>6, <4>2
        <4> QED BY <3>2, <4>1, <4>2
      <3>7. ASSUME NEW u \in Users, NEW i \in DOMAIN ledger'[u], NEW s \in Requests,
                   ledger'[u][i].request = s, ledger'[u][i].type = "usage"
            PROVE  audit'[s].status = "completed" /\ audit'[s].owner = u
        BY <1>2, <1>4, <3>6, <3>7 DEF AuditInv, ChargeInv
      <3>8. ASSUME NEW u \in Users, NEW i \in DOMAIN ledger'[u], NEW j \in DOMAIN ledger'[u],
                   NEW s \in Requests,
                   ledger'[u][i].request = s, ledger'[u][i].type = "usage",
                   ledger'[u][j].request = s, ledger'[u][j].type = "usage"
            PROVE  i = j
        BY <3>6, <3>8 DEF AuditInv, ChargeInv
      <3>9. ASSUME NEW u \in Users, NEW s \in Requests,
                   audit'[s].status = "completed", audit'[s].owner = u
            PROVE  \E i \in DOMAIN ledger'[u] : /\ ledger'[u][i].request = s
                                                /\ ledger'[u][i].type = "usage"
        <4>1. CASE s = r
          BY <1>2, <1>4, <3>1, <3>4, <3>9, <4>1
        <4>2. CASE s # r
          <5>1. PICK i \in DOMAIN ledger[u] : Charges(s, u, i)
            BY <1>4, <3>9, <4>2 DEF AuditInv, ChargeInv
          <5> QED BY <3>3, <5>1 DEF Charges
        <4> QED BY <4>1, <4>2
      <3> QED BY <3>7, <3>8, <3>9 DEF ChargeInv, Charges
    <2> QED BY <2>1, <2>2
  <1> QED BY <1>5, <1>6, <1>7, <1>8 DEF AuditInv

-----------------------------------------------------------------------------
\* Every step of an audit, a purchase or a delete keeps the invariant.
LEMMA StepKeepsAudit == AuditInv /\ CreditInv /\ CreditInv' /\ [AuditNext]_vars => AuditInv'
  <1> SUFFICES ASSUME AuditInv, CreditInv, CreditInv', [AuditNext]_vars PROVE AuditInv'
    OBVIOUS
  <1>1. TypeOK'
    BY DEF CreditInv
  <1>2. ASSUME NEW r \in Requests, NEW u \in Users, NEW n \in Amounts,
               PurchaseCredits(r, u, n)
        PROVE  AuditInv'
    BY <1>1, <1>2, CreditStepKeeps
  <1>3. ASSUME NEW r \in Requests, NEW owner \in Users \cup {NoUser}, CheckBalance(r, owner)
        PROVE  AuditInv'
    BY <1>1, <1>3, OwnStepKeeps DEF CheckBalance
  <1>4. ASSUME NEW r \in Requests, PurchaseStep(r) PROVE AuditInv'
    BY <1>1, <1>4, CreditStepKeeps, PurchaseCommitKeeps
  <1>5. ASSUME NEW r \in Requests, HandlerStep(r) PROVE AuditInv'
    <2>1. CASE \/ CreateAudit(r) \/ WaveFails(r) \/ WaveAnswers(r) \/ ParseFails(r)
               \/ SaveAudit(r) \/ MarkFailed(r)
      <3>1. UNCHANGED creditVars
        BY <2>1 DEF CreateAudit, WaveFails, WaveAnswers, ParseFails, SaveAudit, MarkFailed
      <3> QED BY <1>1, <2>1, <3>1, OwnStepKeeps
    <2>2. CASE EnterAtomic(r) \/ DeductCredit(r) \/ DeductRefused(r) \/ FinaliseFails(r)
      BY <1>1, <2>2, CreditStepKeeps
    <2>3. CASE CommitAudit(r)
      BY <1>1, <2>3, CommitAuditKeeps
    <2> QED BY <1>5, <2>1, <2>2, <2>3 DEF HandlerStep
  <1>6. ASSUME NEW r \in Requests, Crash(r) PROVE AuditInv'
    BY <1>1, <1>6, CreditStepKeeps
  <1>7. ASSUME NEW r \in Requests, DeleteAudit(r) PROVE AuditInv'
    BY <1>1, <1>7, OwnStepKeeps DEF DeleteAudit
  <1>8. CASE UNCHANGED vars
    <2>1. UNCHANGED <<ledger, txn, pc, audit>>
      BY <1>8 DEF vars, creditVars, auditVars
    <2> QED BY <1>1, <2>1 DEF AuditInv, AuditTypeOK, PlaceInv, StatedInv, ChargeInv, Charges
  <1> QED BY <1>2, <1>3, <1>4, <1>5, <1>6, <1>7, <1>8 DEF AuditNext, AllOver

\* The invariant that carries the properties of audits.
THEOREM AuditInvariant == AuditSpec => []AuditInv
  BY AuditsKeepCredits, AuditInitInv, StepKeepsAudit, PTL DEF AuditSpec

\* audit_service.py keeps every row, handler and transaction well formed.
THEOREM AuditTypeCorrect == AuditSpec => []AuditTypeOK
  BY AuditInvariant, PTL DEF AuditInv

\* However many audits and purchases overlap, fail or die, an audit is charged
\* exactly when it is completed, once and to its owner.
THEOREM ChargesCorrect == AuditSpec => []ChargedIffCompleted
  <1>1. AuditInv => ChargedIffCompleted
    <2> SUFFICES ASSUME AuditInv, NEW r \in Requests, NEW u \in Users
                 PROVE  LET paid == audit[r].status = "completed" /\ audit[r].owner = u IN
                        /\ Cardinality(ChargesOf(r, u)) = IF paid THEN 1 ELSE 0
                        /\ paid => audit[r].credits_consumed = AUDIT_CREDIT_COST
                        /\ audit[r].status # "completed" => audit[r].credits_consumed = 0
      BY DEF ChargedIffCompleted
    <2> DEFINE paid == audit[r].status = "completed" /\ audit[r].owner = u
    <2>1. ChargesOf(r, u) = {i \in DOMAIN ledger[u] : Charges(r, u, i)}
      BY DEF ChargesOf, Charges
    <2>2. /\ paid => audit[r].credits_consumed = AUDIT_CREDIT_COST
          /\ audit[r].status # "completed" => audit[r].credits_consumed = 0
      BY RowFacts DEF StatedOK
    <2>3. CASE paid
      <3>1. PICK i \in DOMAIN ledger[u] : Charges(r, u, i)
        BY <2>3 DEF AuditInv, ChargeInv
      <3>2. ChargesOf(r, u) = {i}
        BY <2>1, <3>1 DEF AuditInv, ChargeInv
      <3> QED BY <2>2, <2>3, <3>2, FS_Singleton
    <2>4. CASE ~paid
      <3>1. ChargesOf(r, u) = {}
        BY <2>1, <2>4 DEF AuditInv, ChargeInv
      <3> QED BY <2>2, <2>4, <3>1, FS_EmptySet
    <2> QED BY <2>3, <2>4
  <1> QED BY <1>1, AuditInvariant, PTL

\* The places at which a request may have a transaction on a balance row.
Transacting == {"purchasing", "finalising", "saved"}

PhaseOK(place, t, a) ==
    /\ place \notin Transacting => t.phase \notin {"waiting"} \cup Open
    /\ place \in {"finalising", "saved"} /\ a.owner \notin Users => t.phase = "idle"

PhaseInv == \A r \in Requests : PhaseOK(pc[r], txn[r], audit[r])

\* A step of request r alone keeps PhaseInv when it keeps it for r.
LEMMA PhaseStep ==
    ASSUME AuditInv, PhaseInv, NEW r \in Requests, NEW place, NEW a,
           pc' = [pc EXCEPT ![r] = place], audit' = [audit EXCEPT ![r] = a],
           \A s \in Requests : s # r => txn'[s] = txn[s],
           PhaseOK(place, txn'[r], a)
    PROVE  PhaseInv'
  <1>1. /\ \A s \in Requests : pc'[s] = IF s = r THEN place ELSE pc[s]
        /\ \A s \in Requests : audit'[s] = IF s = r THEN a ELSE audit[s]
    BY DEF AuditInv, AuditTypeOK
  <1> SUFFICES ASSUME NEW s \in Requests PROVE PhaseOK(pc'[s], txn'[s], audit'[s])
    BY DEF PhaseInv
  <1>2. PhaseOK(pc[s], txn[s], audit[s])
    BY DEF PhaseInv
  <1>3. CASE s = r
    BY <1>1, <1>3
  <1>4. CASE s # r
    BY <1>1, <1>2, <1>4
  <1> QED BY <1>3, <1>4

\* What the credit operations that end a transaction leave of it.
LEMMA TxnEnds ==
    ASSUME CreditInv, NEW r \in Requests,
           \/ InsufficientCredits(r) \/ Commit(r) \/ ConnectionLost(r)
           \/ Rollback(r, "failed")
    PROVE  /\ txn'[r].phase \notin {"waiting"} \cup Open
           /\ \A s \in Requests : s # r => txn'[s] = txn[s]
  <1>1. \E answer \in {"refused", "committed", "failed"} :
           txn' = [txn EXCEPT ![r].phase = answer]
    BY DEF Rollback, SetPhase, InsufficientCredits, Commit, ConnectionLost
  <1>2. txn \in [Requests -> Transaction]
    BY DEF CreditInv, TypeOK
  <1> QED BY <1>1, <1>2 DEF Open, Transaction

\* PhaseInv is inductive: a handler waits for a lock or holds one only between
\* its atomic block's begin and end.
LEMMA StepKeepsPhase ==
    AuditInv /\ CreditInv /\ PhaseInv /\ [AuditNext]_vars => PhaseInv'
  <1> SUFFICES ASSUME AuditInv, CreditInv, PhaseInv, [AuditNext]_vars PROVE PhaseInv'
    OBVIOUS
  <1>1. ASSUME NEW r \in Requests
        PROVE  /\ audit = [audit EXCEPT ![r] = audit[r]] /\ pc = [pc EXCEPT ![r] = pc[r]]
               /\ PhaseOK(pc[r], txn[r], audit[r]) /\ PlaceOK(pc[r], txn[r], audit[r])
    BY RowFacts DEF PhaseInv
  <1>2. ASSUME NEW r \in Requests, NEW u \in Users, NEW n \in Amounts,
               PurchaseCredits(r, u, n)
        PROVE  PhaseInv'
    <2>1. /\ pc' = [pc EXCEPT ![r] = "purchasing"] /\ audit' = [audit EXCEPT ![r] = audit[r]]
          /\ \A s \in Requests : s # r => txn'[s] = txn[s]
      BY <1>1, <1>2, CallKept DEF PurchaseCredits, Goto
    <2>2. PhaseOK("purchasing", txn'[r], audit[r])
      BY DEF PhaseOK, Transacting
    <2> QED BY <2>1, <2>2, PhaseStep
  <1>3. ASSUME NEW r \in Requests, PurchaseStep(r) PROVE PhaseInv'
    <2>1. /\ pc' = [pc EXCEPT ![r] = "purchasing"] /\ audit' = [audit EXCEPT ![r] = audit[r]]
          /\ \A s \in Requests : s # r => txn'[s] = txn[s]
      BY <1>1, <1>3, TxnKept DEF PurchaseStep, auditVars
    <2>2. PhaseOK("purchasing", txn'[r], audit[r])
      BY DEF PhaseOK, Transacting
    <2> QED BY <2>1, <2>2, PhaseStep
  <1>4. ASSUME NEW r \in Requests, NEW owner, CheckBalance(r, owner) PROVE PhaseInv'
    <2> DEFINE a == [audit[r] EXCEPT !.owner = owner]
    <2>1. PICK place \in {"answered", "checked"} : pc' = [pc EXCEPT ![r] = place]
      BY <1>4 DEF CheckBalance, Goto
    <2>2. audit' = [audit EXCEPT ![r] = a] /\ txn' = txn /\ txn[r].phase = "idle"
      BY <1>1, <1>4 DEF CheckBalance, creditVars, PlaceOK
    <2>3. PhaseOK(place, txn'[r], a)
      BY <2>2 DEF PhaseOK, Open
    <2> HIDE DEF a
    <2> QED BY <2>1, <2>2, <2>3, PhaseStep
  <1>5. ASSUME NEW r \in Requests,
               CreateAudit(r) \/ WaveFails(r) \/ WaveAnswers(r) \/ ParseFails(r) \/ MarkFailed(r)
        PROVE  PhaseInv'
    <2>1. PICK place \in {"calling", "answered", "parsing", "raised"} :
             pc' = [pc EXCEPT ![r] = place]
      BY <1>5 DEF CreateAudit, WaveFails, WaveAnswers, ParseFails, MarkFailed, Goto
    <2>2. PICK a : audit' = [audit EXCEPT ![r] = a]
      BY <1>1, <1>5 DEF CreateAudit, WaveFails, WaveAnswers, ParseFails, MarkFailed
    <2>3. txn' = txn /\ pc[r] \in {"checked", "calling", "parsing", "failing"}
      BY <1>5 DEF CreateAudit, WaveFails, WaveAnswers, ParseFails, MarkFailed, creditVars
    <2>4. PhaseOK(place, txn'[r], a)
      BY <1>1, <2>3 DEF PhaseOK, Transacting
    <2> QED BY <2>1, <2>2, <2>3, <2>4, PhaseStep
  <1>6. ASSUME NEW r \in Requests, EnterAtomic(r) \/ DeductCredit(r) \/ SaveAudit(r)
        PROVE  PhaseInv'
    <2>1. PICK place \in {"finalising", "saved"} : pc' = [pc EXCEPT ![r] = place]
      BY <1>1, <1>6 DEF EnterAtomic, DeductCredit, SaveAudit, Goto, auditVars
    <2>2. audit' = [audit EXCEPT ![r] = audit[r]]
      BY <1>1, <1>6 DEF EnterAtomic, DeductCredit, SaveAudit, auditVars
    <2>3. \A s \in Requests : s # r => txn'[s] = txn[s]
      BY <1>6, CallKept, TxnKept DEF EnterAtomic, Authenticated, DeductCredit, SaveAudit,
                                     Advance, creditVars
    <2>4. audit[r].owner \notin Users => txn'[r].phase = "idle"
      <3> SUFFICES ASSUME audit[r].owner \notin Users PROVE txn'[r].phase = "idle"
        OBVIOUS
      <3>1. txn[r].phase = "idle"
        BY <1>1, <1>6 DEF EnterAtomic, DeductCredit, SaveAudit, PlaceOK, PhaseOK
      <3> QED BY <1>6, <3>1 DEF EnterAtomic, Authenticated, DeductCredit, LockBalance, Write,
                                SaveAudit, creditVars
    <2>5. PhaseOK(place, txn'[r], audit[r])
      BY <2>4 DEF PhaseOK, Transacting
    <2> QED BY <2>1, <2>2, <2>3, <2>5, PhaseStep
  <1>7. ASSUME NEW r \in Requests,
               DeductRefused(r) \/ FinaliseFails(r) \/ CommitAudit(r) \/ Crash(r)
        PROVE  PhaseInv'
    <2>1. PICK place \in {"failing", "answered", "crashed"} : pc' = [pc EXCEPT ![r] = place]
      BY <1>7 DEF DeductRefused, FinaliseFails, CommitAudit, Crash, Goto
    <2>2. PICK a : audit' = [audit EXCEPT ![r] = a]
      BY <1>1, <1>7 DEF DeductRefused, FinaliseFails, CommitAudit, Crash
    <2>3. CASE \/ InsufficientCredits(r) \/ Commit(r) \/ ConnectionLost(r)
               \/ Rollback(r, "failed")
      <3>1. PhaseOK(place, txn'[r], a)
        BY <2>3, TxnEnds DEF PhaseOK
      <3> QED BY <2>1, <2>2, <2>3, <3>1, TxnEnds, PhaseStep
    <2>4. CASE txn' = txn /\ txn[r].phase \notin {"waiting"} \cup Open
      <3>1. PhaseOK(place, txn'[r], a)
        BY <2>4 DEF PhaseOK
      <3> QED BY <2>1, <2>2, <2>4, <3>1, PhaseStep
    <2>5. \/ InsufficientCredits(r) \/ Commit(r) \/ ConnectionLost(r)
          \/ Rollback(r, "failed")
          \/ txn' = txn /\ txn[r].phase \notin {"waiting"} \cup Open
      BY <1>1, <1>7 DEF DeductRefused, FinaliseFails, CommitAudit, Crash, Authenticated,
                        PhaseOK, creditVars, Open
    <2> QED BY <2>3, <2>4, <2>5
  <1>8. ASSUME NEW r \in Requests, DeleteAudit(r) PROVE PhaseInv'
    <2> DEFINE a == [audit[r] EXCEPT !.is_deleted = TRUE]
    <2>1. pc' = [pc EXCEPT ![r] = pc[r]] /\ audit' = [audit EXCEPT ![r] = a] /\ txn' = txn
      BY <1>1, <1>8 DEF DeleteAudit, creditVars
    <2>2. a.owner = audit[r].owner
      BY RowFacts DEF Audit
    <2>3. PhaseOK(pc[r], txn'[r], a)
      BY <1>1, <2>1, <2>2 DEF PhaseOK
    <2> HIDE DEF a
    <2> QED BY <2>1, <2>3, PhaseStep
  <1>9. CASE UNCHANGED vars \/ AllOver
    BY <1>9 DEF AllOver, vars, creditVars, auditVars, PhaseInv
  <1> QED BY <1>2, <1>3, <1>4, <1>5, <1>6, <1>7, <1>8, <1>9 DEF AuditNext, HandlerStep

\* No transaction holds a balance row while its request waits for WAVE or once
\* the request is over, for any number of users and requests.
THEOREM NoLockHeld == AuditSpec => []NoLockOverHttp
  <1>1. Init => PhaseInv
    BY DEF Init, InitCredits, PhaseInv, PhaseOK, Idle, Open, NoAudit
  <1>2. AuditInv /\ CreditInv /\ PhaseInv => NoLockOverHttp
    <2> SUFFICES ASSUME CreditInv, PhaseInv, NEW u \in Users, holder[u] # NoRequest
                 PROVE  pc[holder[u]] \in Transacting
      BY DEF NoLockOverHttp, Transacting
    <2>1. holder[u] \in Requests
      BY DEF CreditInv, TypeOK
    <2>2. txn[holder[u]].phase \in Open
      BY <2>1 DEF CreditInv, LockInv
    <2> QED BY <2>1, <2>2 DEF PhaseInv, PhaseOK
  <1> QED BY <1>1, <1>2, StepKeepsPhase, AuditInvariant, AuditsKeepCredits, PTL DEF AuditSpec

FinalStep ==
    \A r \in Requests : audit[r].status \in {"completed", "failed"} =>
        /\ audit'[r].status = audit[r].status
        /\ audit'[r].credits_consumed = audit[r].credits_consumed

\* A committed outcome, and the charge it states, never change again.
THEOREM OutcomesFinal == AuditSpec => OutcomeFinal
  <1>1. AuditInv /\ [AuditNext]_vars => FinalStep
    <2> SUFFICES ASSUME AuditInv, [AuditNext]_vars, NEW s \in Requests,
                        audit[s].status \in {"completed", "failed"}
                 PROVE  /\ audit'[s].status = audit[s].status
                        /\ audit'[s].credits_consumed = audit[s].credits_consumed
      BY DEF FinalStep
    <2>1. ASSUME NEW r \in Requests, r # s, NEW a, audit' = [audit EXCEPT ![r] = a]
          PROVE  audit'[s] = audit[s]
      BY <2>1 DEF AuditInv, AuditTypeOK
    <2>2. pc[s] \notin {"start", "checked", "calling", "saved", "failing"}
      BY RowFacts DEF PlaceOK, Running
    <2>3. ASSUME NEW r \in Requests, NEW owner, CheckBalance(r, owner)
          PROVE  audit'[s] = audit[s]
      BY <2>1, <2>2, <2>3 DEF CheckBalance
    <2>4. ASSUME NEW r \in Requests, \/ CreateAudit(r) \/ WaveFails(r) \/ MarkFailed(r)
                                      \/ CommitAudit(r)
          PROVE  audit'[s] = audit[s]
      BY <2>1, <2>2, <2>4 DEF CreateAudit, WaveFails, MarkFailed, CommitAudit
    <2>5. ASSUME NEW r \in Requests, DeleteAudit(r)
          PROVE  /\ audit'[s].status = audit[s].status
                 /\ audit'[s].credits_consumed = audit[s].credits_consumed
      <3>1. audit[s] \in Audit
        BY RowFacts
      <3>2. audit'[s] = audit[s] \/ audit'[s] = [audit[s] EXCEPT !.is_deleted = TRUE]
        BY <2>5 DEF DeleteAudit, AuditInv, AuditTypeOK
      <3> QED BY <3>1, <3>2 DEF Audit
    <2>6. ASSUME NEW r \in Requests,
                 \/ \E u \in Users, n \in Amounts : PurchaseCredits(r, u, n)
                 \/ PurchaseStep(r) \/ WaveAnswers(r) \/ ParseFails(r) \/ EnterAtomic(r)
                 \/ DeductCredit(r) \/ DeductRefused(r) \/ SaveAudit(r)
                 \/ FinaliseFails(r) \/ Crash(r)
          PROVE  audit' = audit
      BY <2>6 DEF PurchaseCredits, PurchaseStep, WaveAnswers, ParseFails, EnterAtomic,
                  DeductCredit, DeductRefused, SaveAudit, FinaliseFails, Crash, auditVars
    <2>7. CASE UNCHANGED vars \/ AllOver
      BY <2>7 DEF vars, auditVars, AllOver
    <2> QED BY <2>3, <2>4, <2>5, <2>6, <2>7 DEF AuditNext, HandlerStep
  <1>2. OutcomeFinal <=> [][FinalStep]_vars
    BY DEF OutcomeFinal, FinalStep
  <1> QED BY <1>1, <1>2, AuditInvariant, PTL DEF AuditSpec

-----------------------------------------------------------------------------
\* The audits completed for user u.
Done(u) == {r \in Requests : audit[r].status = "completed" /\ audit[r].owner = u}

\* Only the commit of the atomic block of run_accessibility_audit completes an
\* audit, and a completed one keeps its owner.
LEMMA OnlyCommitCompletes ==
    ASSUME AuditInv, [AuditNext]_vars, \A r \in Requests : ~CommitAudit(r)
    PROVE  \A u \in Users : Done(u)' = Done(u)
  <1> SUFFICES ASSUME NEW s \in Requests
               PROVE  /\ audit'[s].status = "completed" <=> audit[s].status = "completed"
                      /\ audit[s].status = "completed" => audit'[s].owner = audit[s].owner
    BY DEF Done
  <1>1. audit[s] \in Audit /\ PlaceOK(pc[s], txn[s], audit[s])
    BY RowFacts
  <1>2. ASSUME NEW r \in Requests, NEW a, audit' = [audit EXCEPT ![r] = a]
        PROVE  audit'[s] = IF s = r THEN a ELSE audit[s]
    BY <1>2 DEF AuditInv, AuditTypeOK
  <1>3. ASSUME NEW r \in Requests, NEW owner, CheckBalance(r, owner)
        PROVE  \/ audit'[s] = audit[s]
               \/ audit[s].status = "none" /\ audit'[s] = [audit[s] EXCEPT !.owner = owner]
    BY <1>1, <1>2, <1>3 DEF CheckBalance, PlaceOK
  <1>4. ASSUME NEW r \in Requests, CreateAudit(r)
        PROVE  \/ audit'[s] = audit[s]
               \/ audit[s].status = "none" /\ audit'[s] = [audit[s] EXCEPT !.status = "pending"]
    BY <1>1, <1>2, <1>4 DEF CreateAudit, PlaceOK
  <1>5. ASSUME NEW r \in Requests, WaveFails(r)
        PROVE  \/ audit'[s] = audit[s]
               \/ audit[s].status = "pending" /\ audit'[s] = [audit[s] EXCEPT !.status = "failed"]
    BY <1>1, <1>2, <1>5 DEF WaveFails, PlaceOK, Running
  <1>6. ASSUME NEW r \in Requests, MarkFailed(r)
        PROVE  \/ audit'[s] = audit[s]
               \/ /\ audit[s].status = "pending"
                  /\ audit'[s] = [audit[s] EXCEPT !.status = "failed", !.credits_consumed = 0]
    <2>1. /\ pc[r] = "failing"
          /\ audit' = [audit EXCEPT ![r] = [audit[r] EXCEPT !.status = "failed",
                                                            !.credits_consumed = 0]]
      BY <1>6 DEF MarkFailed
    <2> DEFINE a == [audit[r] EXCEPT !.status = "failed", !.credits_consumed = 0]
    <2>2. audit' = [audit EXCEPT ![r] = a]
      BY <2>1
    <2>3. s = r => audit[s].status = "pending"
      BY <1>1, <2>1 DEF PlaceOK, Running
    <2> HIDE DEF a
    <2>4. audit'[s] = IF s = r THEN a ELSE audit[s]
      BY <1>2, <2>2
    <2> QED BY <2>3, <2>4 DEF a
  <1>7. ASSUME NEW r \in Requests, DeleteAudit(r)
        PROVE  audit'[s] = audit[s] \/ audit'[s] = [audit[s] EXCEPT !.is_deleted = TRUE]
    BY <1>2, <1>7 DEF DeleteAudit
  <1>8. ASSUME NEW r \in Requests,
               \/ \E u \in Users, n \in Amounts : PurchaseCredits(r, u, n)
               \/ PurchaseStep(r) \/ WaveAnswers(r) \/ ParseFails(r) \/ EnterAtomic(r)
               \/ DeductCredit(r) \/ DeductRefused(r) \/ SaveAudit(r)
               \/ FinaliseFails(r) \/ Crash(r)
        PROVE  audit' = audit
    BY <1>8 DEF PurchaseCredits, PurchaseStep, WaveAnswers, ParseFails, EnterAtomic,
                DeductCredit, DeductRefused, SaveAudit, FinaliseFails, Crash, auditVars
  <1>9. CASE UNCHANGED vars \/ AllOver
    BY <1>9 DEF vars, auditVars, AllOver
  <1> QED BY <1>1, <1>3, <1>4, <1>5, <1>6, <1>7, <1>8, <1>9 DEF AuditNext, HandlerStep, Audit

\* The commit of an audit raises total_used of its owner by the cost, and adds
\* that audit, and no other, to the completed ones of its owner.
LEMMA CommitAuditCounts ==
    ASSUME AuditInv, CreditInv, UsageMatchesAudits, NEW r \in Requests, CommitAudit(r)
    PROVE  UsageMatchesAudits'
  <1> PICK owner : owner = audit[r].owner
    OBVIOUS
  <1>1. /\ audit[r].status = "pending" /\ owner \in Users \cup {NoUser}
        /\ owner \in Users => /\ Commit(r) /\ txn[r].type = "usage"
                              /\ txn[r].user = owner /\ txn[r].amount = AUDIT_CREDIT_COST
        /\ owner \notin Users => balance' = balance
    BY RowFacts DEF CommitAudit, Authenticated, PlaceOK, Running, creditVars, Audit
  <1>2. \A s \in Requests : s # r => audit'[s] = audit[s]
    BY DEF CommitAudit, AuditInv, AuditTypeOK
  <1>3. audit'[r].status = "completed" /\ audit'[r].owner = owner
    BY DEF CommitAudit, AuditInv, AuditTypeOK
  <1>4. \A u \in Users : u # owner => Done(u)' = Done(u)
    BY <1>1, <1>2, <1>3 DEF Done
  <1>5. CASE owner \notin Users
    BY <1>1, <1>4, <1>5 DEF UsageMatchesAudits, Done
  <1>6. CASE owner \in Users
    <2>1. /\ balance' = [balance EXCEPT ![owner] = txn[r].row]
          /\ balance[owner] \in Row
          /\ txn[r].row = Deducted(balance[owner], AUDIT_CREDIT_COST)
      BY <1>1, <1>6, CommitBooks DEF Commit, CreditInv, CopyInv, CopyOf, TypeOK
    <2>2. txn[r].row.total_used = balance[owner].total_used + AUDIT_CREDIT_COST
      BY <2>1 DEF Deducted
    <2>3. \A u \in Users : balance'[u] = IF u = owner THEN txn[r].row ELSE balance[u]
      BY <2>1 DEF CreditInv, TypeOK
    <2>4. Done(owner)' = Done(owner) \cup {r} /\ r \notin Done(owner)
      BY <1>1, <1>2, <1>3 DEF Done
    <2>5. IsFiniteSet(Done(owner))
      <3>1. Done(owner) \subseteq Requests
        BY DEF Done
      <3> QED BY <3>1, AuditAssumption, FS_Subset
    <2>6. /\ Cardinality(Done(owner)') = Cardinality(Done(owner)) + 1
          /\ Cardinality(Done(owner)) \in Nat
      BY <2>4, <2>5, FS_AddElement, FS_CardinalityType
    <2>7. balance[owner].total_used = AUDIT_CREDIT_COST * Cardinality(Done(owner))
      BY <1>6 DEF UsageMatchesAudits, Done
    <2>8. balance'[owner].total_used = AUDIT_CREDIT_COST * Cardinality(Done(owner)')
      BY <1>6, <2>2, <2>3, <2>6, <2>7 DEF AUDIT_CREDIT_COST
    <2>9. ASSUME NEW u \in Users, u # owner
          PROVE  balance'[u].total_used = AUDIT_CREDIT_COST * Cardinality(Done(u)')
      BY <1>4, <2>3, <2>9 DEF UsageMatchesAudits, Done
    <2>10. \A u \in Users : balance'[u].total_used = AUDIT_CREDIT_COST * Cardinality(Done(u)')
      BY <2>8, <2>9
    <2> QED BY <2>10 DEF UsageMatchesAudits, Done
  <1> QED BY <1>5, <1>6

\* Every other step leaves total_used alone: a purchase that commits is the only
\* other one that writes a balance row.
LEMMA StepKeepsUsage ==
    AuditInv /\ CreditInv /\ UsageMatchesAudits /\ [AuditNext]_vars => UsageMatchesAudits'
  <1> SUFFICES ASSUME AuditInv, CreditInv, UsageMatchesAudits, [AuditNext]_vars
               PROVE  UsageMatchesAudits'
    OBVIOUS
  <1>1. CASE \E r \in Requests : CommitAudit(r)
    BY <1>1, CommitAuditCounts
  <1>2. CASE \A r \in Requests : ~CommitAudit(r)
    <2>1. \A u \in Users : Done(u)' = Done(u)
      BY <1>2, OnlyCommitCompletes
    <2>2. CASE \E r \in Requests : PurchaseStep(r) /\ Commit(r)
      <3> PICK r \in Requests : PurchaseStep(r) /\ Commit(r)
        BY <2>2
      <3> DEFINE u == txn[r].user
      <3>1. txn[r].type = "purchase"
        BY RowFacts DEF PurchaseStep, PlaceOK
      <3>2. /\ u \in Users /\ balance' = [balance EXCEPT ![u] = txn[r].row]
            /\ txn[r].row = Added(balance[u], txn[r].amount, "purchase")
        BY <3>1, CommitBooks DEF Commit, CreditInv, CopyInv, CopyOf
      <3>3. txn[r].row.total_used = balance[u].total_used
        BY <3>2 DEF Added
      <3>4. \A v \in Users : balance'[v] = IF v = u THEN txn[r].row ELSE balance[v]
        BY <3>2 DEF CreditInv, TypeOK
      <3>5. \A v \in Users : balance'[v].total_used = balance[v].total_used
        BY <3>3, <3>4
      <3> QED BY <2>1, <3>5 DEF UsageMatchesAudits, Done
    <2>3. CASE \A r \in Requests : ~(PurchaseStep(r) /\ Commit(r))
      <3> USE DEF creditVars, Call, LockBalance, Write, InsufficientCredits, SaveRejected,
                  ConnectionLost, Rollback
      <3>1. ASSUME NEW r \in Requests, NEW u \in Users, NEW n \in Amounts,
                   PurchaseCredits(r, u, n)
            PROVE  balance' = balance
        BY <3>1 DEF PurchaseCredits
      <3>7. ASSUME NEW r \in Requests, NEW owner \in Users \cup {NoUser},
                   CheckBalance(r, owner)
            PROVE  balance' = balance
        BY <3>7 DEF CheckBalance
      <3>2. ASSUME NEW r \in Requests, PurchaseStep(r)
            PROVE  balance' = balance
        BY <2>3, <3>2 DEF PurchaseStep, Advance
      <3>3. ASSUME NEW r \in Requests, HandlerStep(r)
            PROVE  balance' = balance
        BY <1>2, <3>3 DEF HandlerStep, CreateAudit, WaveFails, WaveAnswers, ParseFails,
                          EnterAtomic, DeductCredit, DeductRefused, SaveAudit,
                          FinaliseFails, MarkFailed
      <3>4. ASSUME NEW r \in Requests, Crash(r) \/ DeleteAudit(r)
            PROVE  balance' = balance
        BY <3>4 DEF Crash, DeleteAudit
      <3> HIDE DEF Call, LockBalance, Write, InsufficientCredits, SaveRejected,
                   ConnectionLost, Rollback, creditVars
      <3>5. ASSUME UNCHANGED vars PROVE balance' = balance
        <4>1. UNCHANGED creditVars
          BY <3>5 DEF vars
        <4> QED BY <4>1 DEF creditVars
      <3>6. balance' = balance
        BY <3>1, <3>2, <3>3, <3>4, <3>5, <3>7 DEF AuditNext, AllOver
      <3> QED BY <2>1, <3>6 DEF UsageMatchesAudits, Done
    <2> QED BY <2>2, <2>3
  <1> QED BY <1>1, <1>2

\* What users have used is, for any number of them and of requests that race
\* past the same pre-flight check, the cost of the audits completed for them.
THEOREM UsageCorrect == AuditSpec => []UsageMatchesAudits
  <1>1. Init => UsageMatchesAudits
    <2> SUFFICES ASSUME Init, NEW u \in Users
                 PROVE  balance[u].total_used = AUDIT_CREDIT_COST * Cardinality(Done(u))
      BY DEF UsageMatchesAudits, Done
    <2>1. balance[u].total_used = 0 /\ Done(u) = {}
      BY DEF Init, InitCredits, ZeroRow, Done, NoAudit
    <2>2. Cardinality({}) = 0
      BY FS_EmptySet
    <2> QED BY <2>1, <2>2 DEF AUDIT_CREDIT_COST
  <1> QED BY <1>1, StepKeepsUsage, AuditInvariant, AuditsKeepCredits, PTL DEF AuditSpec
=============================================================================
