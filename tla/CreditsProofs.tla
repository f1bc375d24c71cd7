--------------------------- MODULE CreditsProofs ---------------------------
(***************************************************************************)
(* Proofs about module Credits: its invariants, the ledger discipline of   *)
(* its steps, and that it implements CreditAccount.                        *)
(***************************************************************************)
EXTENDS Credits, SequenceTheorems, TLAPS

\* The row lock is held by r exactly while r's transaction on the row is open.
LockInv ==
    \A u \in Users, r \in Requests :
        holder[u] = r <=> txn[r].phase \in Open /\ txn[r].user = u

\* A call past the amount check names a user and a positive amount.
CallInv ==
    \A r \in Requests : txn[r].phase \in {"waiting"} \cup Open =>
                            txn[r].user \in Users /\ txn[r].amount \in Amounts
                                                  /\ txn[r].amount > 0

\* Under the lock the loaded copy is the committed row, then the committed row
\* with the one change the transaction is about to save.
CopyOf(r) ==
    /\ txn[r].phase = "locked" => txn[r].row = balance[txn[r].user]
    /\ txn[r].phase = "written" =>
          /\ txn[r].row = IF txn[r].type = "usage"
                          THEN Deducted(balance[txn[r].user], txn[r].amount)
                          ELSE Added(balance[txn[r].user], txn[r].amount, txn[r].type)
          /\ SaveAllowed(txn[r].row)

CopyInv == \A r \in Requests : CopyOf(r)

\* Every committed row satisfies the constraints of its table.
RowInv == \A u \in Users : SaveAllowed(balance[u])

CreditInv == TypeOK /\ LockInv /\ CallInv /\ CopyInv /\ RowInv /\ LedgerReplays

\* What deduct_credit and add_credits do to a balance row: it stays a row, and
\* each of its columns moves by the amount it should.
LEMMA RowOps ==
    ASSUME NEW row \in Row, NEW n \in Int, NEW type
    PROVE  /\ Deducted(row, n) \in Row
           /\ Added(row, n, type) \in Row
           /\ Deducted(row, n).balance = row.balance - n
           /\ Deducted(row, n).total_used = row.total_used + n
           /\ Deducted(row, n).total_purchased = row.total_purchased
           /\ Added(row, n, type).balance = row.balance + n
           /\ Added(row, n, type).total_used = row.total_used
           /\ Added(row, n, type).total_purchased =
                 row.total_purchased + (IF type = "purchase" THEN n ELSE 0)
  BY DEF Row, Deducted, Added

\* Saving the named columns of an up-to-date copy saves the whole copy.
LEMMA SaveIsWhole ==
    ASSUME CreditInv, NEW r \in Requests, txn[r].phase = "written"
    PROVE  /\ SavedOver(balance[txn[r].user], txn[r]) = txn[r].row
           /\ txn[r].user \in Users
           /\ txn[r].row \in Row
           /\ txn[r].row.balance = balance[txn[r].user].balance + EntryOf(r, txn[r]).amount
           /\ EntryOf(r, txn[r]) \in Entry
           /\ EntryOf(r, txn[r]).balance_after = txn[r].row.balance
           /\ EntryOf(r, txn[r]).request = r
           /\ EntryOf(r, txn[r]).type = txn[r].type
  <1> DEFINE u == txn[r].user
  <1>1. /\ u \in Users /\ balance[u] \in Row /\ txn[r] \in Transaction
        /\ txn[r].amount \in Int
    BY DEF CreditInv, CallInv, TypeOK, Open, Transaction
  <1>2. txn[r].row = IF txn[r].type = "usage" THEN Deducted(balance[u], txn[r].amount)
                     ELSE Added(balance[u], txn[r].amount, txn[r].type)
    BY DEF CreditInv, CopyInv, CopyOf
  <1>3. SavedOver(balance[u], txn[r]) = txn[r].row
    <2>1. CASE txn[r].type = "usage"
      BY <1>1, <1>2, <2>1 DEF SavedOver, Deducted, Row
    <2>2. CASE txn[r].type # "usage"
      BY <1>1, <1>2, <2>2 DEF SavedOver, Added, Row
    <2> QED BY <2>1, <2>2
  <1>4. txn[r].row \in Row /\ txn[r].row.balance = balance[u].balance + EntryOf(r, txn[r]).amount
    <2>1. txn[r].row.balance = IF txn[r].type = "usage" THEN balance[u].balance - txn[r].amount
                               ELSE balance[u].balance + txn[r].amount
      <3>1. CASE txn[r].type = "usage"
        BY <1>2, <3>1 DEF Deducted
      <3>2. CASE txn[r].type # "usage"
        BY <1>2, <3>2 DEF Added
      <3> QED BY <3>1, <3>2
    <2>2. balance[u].balance \in Int
      BY <1>1 DEF Row
    <2>3. EntryOf(r, txn[r]).amount = IF txn[r].type = "usage" THEN -txn[r].amount
                                      ELSE txn[r].amount
      BY DEF EntryOf
    <2>4. txn[r].row \in Row
      BY <1>1 DEF Transaction
    <2> QED BY <1>1, <2>1, <2>2, <2>3, <2>4
  <1>5. EntryOf(r, txn[r]) \in Entry
    BY <1>1, <1>4 DEF EntryOf, Entry, Transaction, Row
  <1> QED BY <1>1, <1>3, <1>4, <1>5 DEF EntryOf

\* Users start with a zero row (create_credit_balance) and nothing is open.
LEMMA InitInv == InitCredits => CreditInv
  <1> SUFFICES ASSUME InitCredits PROVE CreditInv
    OBVIOUS
  <1> USE DEF InitCredits
  <1>1. ZeroRow \in Row /\ Idle \in Transaction
    BY DEF ZeroRow, Row, Idle, Transaction, TransactionTypes
  <1>2. TypeOK
    BY <1>1 DEF TypeOK
  <1>3. LockInv
    BY NoRequestAssumption DEF LockInv, Idle, Open
  <1>4. CallInv /\ CopyInv
    BY DEF CallInv, CopyInv, CopyOf, Idle, Open
  <1>5. \A u \in Users : balance[u] = ZeroRow /\ ledger[u] = <<>>
    OBVIOUS
  <1>6. RowInv
    <2>1. SaveAllowed(ZeroRow)
      BY MaxIntAssumption DEF SaveAllowed, ZeroRow
    <2> QED BY <1>5, <2>1 DEF RowInv
  <1>7. LedgerReplays
    <2>1. ZeroRow.balance = 0 /\ Len(<<>>) = 0
      BY DEF ZeroRow
    <2>2. \A u \in Users : Len(ledger[u]) = 0 /\ balance[u].balance = 0
      BY <1>5, <2>1
    <2>3. 1..0 = {}
      OBVIOUS
    <2> QED BY <2>2, <2>3 DEF LedgerReplays, Replays, BalanceAfter
  <1> QED BY <1>2, <1>3, <1>4, <1>6, <1>7 DEF CreditInv

\* Entering deduct_credit or add_credits: the transaction waits, nothing is held.
LEMMA CallKeepsInv ==
    ASSUME CreditInv, NEW r \in Requests, NEW u \in Users, NEW type \in TransactionTypes,
           NEW n \in Amounts, Call(r, u, type, n)
    PROVE  CreditInv'
  <1> USE DEF Call
  <1> DEFINE t == [phase |-> IF n <= 0 THEN "refused" ELSE "waiting", user |-> u,
                   type |-> type, amount |-> n, row |-> ZeroRow]
  <1>1. t \in Transaction
    BY AmountsAssumption DEF Transaction, Row, ZeroRow, Answered
  <1>2. TypeOK'
    BY <1>1 DEF CreditInv, TypeOK
  <1>3. \A s \in Requests : txn'[s] = IF s = r THEN t ELSE txn[s]
    BY DEF CreditInv, TypeOK
  <1>4. txn[r].phase \notin Open /\ t.phase \notin Open
    BY DEF Open
  <1>5. LockInv'
    BY <1>3, <1>4 DEF CreditInv, LockInv
  <1>6. CallInv'
    BY <1>3, <1>4, AmountsAssumption DEF CreditInv, CallInv, Open
  <1>7. CopyInv'
    BY <1>3, <1>4 DEF CreditInv, CopyInv, CopyOf, Open
  <1>8. RowInv' /\ LedgerReplays'
    BY DEF CreditInv, RowInv, LedgerReplays
  <1> QED BY <1>2, <1>5, <1>6, <1>7, <1>8 DEF CreditInv

\* select_for_update: the row is locked and its copy is the committed one.
LEMMA LockKeepsInv ==
    ASSUME CreditInv, NEW r \in Requests, LockBalance(r)
    PROVE  CreditInv'
  <1> DEFINE u == txn[r].user
  <1>1. /\ txn[r].phase = "waiting" /\ u \in Users /\ holder[u] = NoRequest
        /\ balance[u] \in Row /\ txn[r] \in Transaction
    BY DEF CreditInv, CallInv, TypeOK, LockBalance
  <1>2. /\ UNCHANGED <<balance, ledger>>
        /\ holder' = [holder EXCEPT ![u] = r]
        /\ txn' = [txn EXCEPT ![r].phase = "locked", ![r].row = balance[u]]
    BY DEF LockBalance
  <1>3. \A s \in Requests : s # r => txn'[s] = txn[s]
    BY <1>2 DEF CreditInv, TypeOK
  <1>4. /\ txn'[r].phase = "locked" /\ txn'[r].user = u /\ txn'[r].row = balance[u]
        /\ txn'[r].amount = txn[r].amount /\ txn'[r].type = txn[r].type
        /\ txn'[r] \in Transaction
    BY <1>1, <1>2 DEF CreditInv, TypeOK, Transaction, Open
  <1>5. TypeOK'
    BY <1>1, <1>2, <1>4 DEF CreditInv, TypeOK
  <1>6. LockInv'
    <2> SUFFICES ASSUME NEW v \in Users, NEW s \in Requests
                 PROVE  holder'[v] = s <=> txn'[s].phase \in Open /\ txn'[s].user = v
      BY DEF LockInv
    <2>1. holder[v] = s <=> txn[s].phase \in Open /\ txn[s].user = v
      BY DEF CreditInv, LockInv
    <2>2. holder'[v] = IF v = u THEN r ELSE holder[v]
      BY <1>1, <1>2 DEF CreditInv, TypeOK
    <2> QED BY <1>1, <1>3, <1>4, <2>1, <2>2, NoRequestAssumption DEF Open
  <1>7. CallInv'
    BY <1>1, <1>3, <1>4 DEF CreditInv, CallInv, Open
  <1>8. CopyInv'
    <2> SUFFICES ASSUME NEW s \in Requests
                 PROVE  CopyOf(s)'
      BY DEF CopyInv
    <2>1. CASE s = r
      BY <1>2, <1>4, <2>1 DEF CopyOf
    <2>2. CASE s # r
      BY <1>2, <1>3, <2>2 DEF CreditInv, CopyInv, CopyOf
    <2> QED BY <2>1, <2>2
  <1>9. RowInv' /\ LedgerReplays'
    BY <1>2 DEF CreditInv, RowInv, LedgerReplays
  <1> QED BY <1>5, <1>6, <1>7, <1>8, <1>9 DEF CreditInv

\* balance.save() and the entry, still uncommitted: the row may be saved.
LEMMA WriteKeepsInv ==
    ASSUME CreditInv, NEW r \in Requests, Write(r)
    PROVE  CreditInv'
  <1> DEFINE u == txn[r].user
  <1>1. /\ txn[r].phase = "locked" /\ u \in Users /\ balance[u] \in Row
        /\ txn[r] \in Transaction /\ txn[r].row = balance[u] /\ txn[r].amount \in Int
    BY DEF CreditInv, CallInv, CopyInv, CopyOf, TypeOK, Write, Open, Transaction
  <1>2. /\ UNCHANGED <<balance, ledger, holder>> /\ SaveAllowed(Changed(txn[r]))
        /\ txn' = [txn EXCEPT ![r].phase = "written", ![r].row = Changed(txn[r])]
    BY DEF Write
  <1>3. \A s \in Requests : s # r => txn'[s] = txn[s]
    BY <1>2 DEF CreditInv, TypeOK
  <1>4. Changed(txn[r]) \in Row
    BY <1>1, RowOps DEF Changed
  <1>5. /\ txn'[r].phase = "written" /\ txn'[r].user = u /\ txn'[r].row = Changed(txn[r])
        /\ txn'[r].amount = txn[r].amount /\ txn'[r].type = txn[r].type
        /\ txn'[r] \in Transaction
    BY <1>1, <1>2, <1>4 DEF CreditInv, TypeOK, Transaction, Open
  <1>6. TypeOK'
    BY <1>2, <1>5 DEF CreditInv, TypeOK
  <1>7. LockInv'
    <2> SUFFICES ASSUME NEW v \in Users, NEW s \in Requests
                 PROVE  holder'[v] = s <=> txn'[s].phase \in Open /\ txn'[s].user = v
      BY DEF LockInv
    <2>1. holder[v] = s <=> txn[s].phase \in Open /\ txn[s].user = v
      BY DEF CreditInv, LockInv
    <2> QED BY <1>1, <1>2, <1>3, <1>5, <2>1 DEF Open
  <1>8. CallInv'
    BY <1>1, <1>3, <1>5 DEF CreditInv, CallInv, Open
  <1>9. CopyInv'
    <2> SUFFICES ASSUME NEW s \in Requests PROVE CopyOf(s)'
      BY DEF CopyInv
    <2>1. CASE s = r
      BY <1>1, <1>2, <1>5, <2>1 DEF Changed, CopyOf
    <2>2. CASE s # r
      BY <1>2, <1>3, <2>2 DEF CreditInv, CopyInv, CopyOf
    <2> QED BY <2>1, <2>2
  <1>10. RowInv' /\ LedgerReplays'
    BY <1>2 DEF CreditInv, RowInv, LedgerReplays
  <1> QED BY <1>6, <1>7, <1>8, <1>9, <1>10 DEF CreditInv

\* A transaction that ends, by whatever way, and leaves the tables alone.
LEMMA RollbackKeepsInv ==
    ASSUME CreditInv, NEW r \in Requests, txn[r].phase \in Open,
           NEW answer \in Answered, Rollback(r, answer)
    PROVE  CreditInv'
  <1> DEFINE u == txn[r].user
  <1>1. u \in Users /\ txn[r] \in Transaction
    BY DEF CreditInv, CallInv, TypeOK
  <1>2. /\ UNCHANGED <<balance, ledger>>
        /\ holder' = [holder EXCEPT ![u] = NoRequest]
        /\ txn' = [txn EXCEPT ![r].phase = answer]
    BY DEF Rollback, SetPhase, Unlock
  <1>3. \A s \in Requests : s # r => txn'[s] = txn[s]
    BY <1>2 DEF CreditInv, TypeOK
  <1>4. txn'[r].phase = answer /\ txn'[r] \in Transaction
    BY <1>1, <1>2 DEF CreditInv, TypeOK, Transaction
  <1>5. TypeOK'
    BY <1>2, <1>4 DEF CreditInv, TypeOK
  <1>6. answer \notin Open /\ answer # "waiting" /\ answer # "locked" /\ answer # "written"
    BY DEF Answered, Open
  <1>7. LockInv'
    <2> SUFFICES ASSUME NEW v \in Users, NEW s \in Requests
                 PROVE  holder'[v] = s <=> txn'[s].phase \in Open /\ txn'[s].user = v
      BY DEF LockInv
    <2>1. holder[v] = s <=> txn[s].phase \in Open /\ txn[s].user = v
      BY DEF CreditInv, LockInv
    <2>2. holder[u] = r
      BY <1>1 DEF CreditInv, LockInv
    <2>3. holder'[v] = IF v = u THEN NoRequest ELSE holder[v]
      BY <1>1, <1>2 DEF CreditInv, TypeOK
    <2> QED BY <1>1, <1>3, <1>4, <1>6, <2>1, <2>2, <2>3, NoRequestAssumption
  <1>8. CallInv'
    BY <1>3, <1>4, <1>6 DEF CreditInv, CallInv
  <1>9. CopyInv'
    BY <1>2, <1>3, <1>4, <1>6 DEF CreditInv, CopyInv, CopyOf
  <1>10. RowInv' /\ LedgerReplays'
    BY <1>2 DEF CreditInv, RowInv, LedgerReplays
  <1> QED BY <1>5, <1>7, <1>8, <1>9, <1>10 DEF CreditInv

\* One more entry that follows from the last snapshot keeps a ledger replaying.
LEMMA AppendReplays ==
    ASSUME NEW s \in Seq(Entry), Replays(s), NEW e \in Entry, e.balance_after >= 0,
           e.balance_after = BalanceAfter(s, Len(s)) + e.amount
    PROVE  /\ Replays(Append(s, e))
           /\ BalanceAfter(Append(s, e), Len(Append(s, e))) = e.balance_after
  <1> DEFINE t == Append(s, e)
  <1>1. /\ Len(t) = Len(s) + 1 /\ Len(s) \in Nat
        /\ \A i \in 1..Len(s) : t[i] = s[i]
        /\ t[Len(t)] = e
    OBVIOUS
  <1>2. \A i \in 0..Len(s) : BalanceAfter(t, i) = BalanceAfter(s, i)
    BY <1>1 DEF BalanceAfter
  <1>3. BalanceAfter(t, Len(t)) = e.balance_after
    BY <1>1 DEF BalanceAfter
  <1>4. ASSUME NEW i \in 1..Len(t)
        PROVE  /\ BalanceAfter(t, i) = BalanceAfter(t, i - 1) + t[i].amount
               /\ BalanceAfter(t, i) >= 0
    <2>1. CASE i = Len(t)
      <3>1. i - 1 = Len(s)
        BY <1>1, <2>1
      <3>2. BalanceAfter(t, i - 1) = BalanceAfter(s, Len(s))
        BY <1>1, <1>2, <3>1
      <3> QED BY <1>1, <1>3, <2>1, <3>2
    <2>2. CASE i # Len(t)
      <3>1. i \in 1..Len(s) /\ i - 1 \in 0..Len(s) /\ i \in 0..Len(s)
        BY <1>1, <2>2
      <3> QED BY <1>1, <1>2, <3>1 DEF Replays
    <2> QED BY <2>1, <2>2
  <1> QED BY <1>3, <1>4 DEF Replays

\* What a commit does to the tables.
LEMMA CommitBooks ==
    ASSUME CreditInv, NEW r \in Requests, Commit(r)
    PROVE  LET u == txn[r].user
               e == EntryOf(r, txn[r])
           IN  /\ u \in Users /\ e \in Entry /\ e.request = r
               /\ e.type = txn[r].type
               /\ balance' = [balance EXCEPT ![u] = txn[r].row]
               /\ ledger' = [ledger EXCEPT ![u] = Append(ledger[u], e)]
               /\ e.balance_after = txn[r].row.balance
               /\ txn[r].row.balance = balance[u].balance + e.amount
               /\ txn[r].row \in Row /\ SaveAllowed(txn[r].row)
  <1>1. txn[r].phase = "written"
    BY DEF Commit
  <1>2. SaveAllowed(txn[r].row)
    BY <1>1 DEF CreditInv, CopyInv, CopyOf
  <1>3. balance' = [balance EXCEPT ![txn[r].user] = SavedOver(balance[txn[r].user], txn[r])]
    BY DEF Commit
  <1>4. ledger' = [ledger EXCEPT ![txn[r].user] = Append(ledger[txn[r].user], EntryOf(r, txn[r]))]
    BY DEF Commit
  <1> QED BY <1>1, <1>2, <1>3, <1>4, SaveIsWhole

\* The commit replaces the locked row and appends the entry that explains it.
LEMMA CommitKeepsInv ==
    ASSUME CreditInv, NEW r \in Requests, Commit(r)
    PROVE  CreditInv'
  <1> DEFINE u == txn[r].user
             e == EntryOf(r, txn[r])
  <1>1. /\ u \in Users /\ e \in Entry
        /\ balance' = [balance EXCEPT ![u] = txn[r].row]
        /\ ledger' = [ledger EXCEPT ![u] = Append(ledger[u], e)]
        /\ e.balance_after = txn[r].row.balance
        /\ txn[r].row.balance = balance[u].balance + e.amount
        /\ txn[r].row \in Row /\ SaveAllowed(txn[r].row)
    BY CommitBooks
  <1>2. /\ txn[r].phase = "written" /\ txn[r] \in Transaction
        /\ holder' = [holder EXCEPT ![u] = NoRequest]
        /\ txn' = [txn EXCEPT ![r].phase = "committed"]
    BY DEF Commit, SetPhase, Unlock, CreditInv, TypeOK
  <1>3. \A s \in Requests : s # r => txn'[s] = txn[s]
    BY <1>2 DEF CreditInv, TypeOK
  <1>4. txn'[r].phase = "committed" /\ txn'[r] \in Transaction
    BY <1>2 DEF CreditInv, TypeOK, Transaction, Answered
  <1>5. /\ \A v \in Users : balance'[v] = IF v = u THEN txn[r].row ELSE balance[v]
        /\ \A v \in Users : ledger'[v] = IF v = u THEN Append(ledger[u], e) ELSE ledger[v]
        /\ \A v \in Users : holder'[v] = IF v = u THEN NoRequest ELSE holder[v]
    BY <1>1, <1>2 DEF CreditInv, TypeOK
  <1>6. TypeOK'
    <2>1. balance' \in [Users -> Row] /\ holder' \in [Users -> Requests \cup {NoRequest}]
      BY <1>1, <1>2 DEF CreditInv, TypeOK
    <2>2. ledger' \in [Users -> Seq(Entry)]
      BY <1>1 DEF CreditInv, TypeOK
    <2>3. txn' \in [Requests -> Transaction]
      BY <1>2, <1>4 DEF CreditInv, TypeOK
    <2> QED BY <2>1, <2>2, <2>3 DEF TypeOK
  <1>7. holder[u] = r
    BY <1>1, <1>2 DEF CreditInv, LockInv, Open
  <1>8. LockInv'
    <2> SUFFICES ASSUME NEW v \in Users, NEW s \in Requests
                 PROVE  holder'[v] = s <=> txn'[s].phase \in Open /\ txn'[s].user = v
      BY DEF LockInv
    <2>1. holder[v] = s <=> txn[s].phase \in Open /\ txn[s].user = v
      BY DEF CreditInv, LockInv
    <2>2. "committed" \notin Open
      BY DEF Open
    <2> QED BY <1>1, <1>3, <1>4, <1>5, <1>7, <2>1, <2>2, NoRequestAssumption
  <1>9. CallInv'
    BY <1>3, <1>4 DEF CreditInv, CallInv, Open
  <1>10. CopyInv'
    <2>1. \A s \in Requests : s # r /\ txn[s].phase \in Open => txn[s].user # u
      BY <1>1, <1>7 DEF CreditInv, LockInv
    <2>2. \A s \in Requests : txn[s].phase \in Open => txn[s].user \in Users
      BY DEF CreditInv, CallInv
    <2> SUFFICES ASSUME NEW s \in Requests PROVE CopyOf(s)'
      BY DEF CopyInv
    <2>3. CASE s = r
      BY <1>4, <2>3 DEF CopyOf
    <2>4. CASE s # r
      BY <1>3, <1>5, <2>1, <2>2, <2>4 DEF CreditInv, CopyInv, CopyOf, Open
    <2> QED BY <2>3, <2>4
  <1>11. RowInv'
    BY <1>1, <1>5 DEF CreditInv, RowInv
  <1>12. LedgerReplays'
    <2>1. ledger[u] \in Seq(Entry) /\ Replays(ledger[u])
          /\ balance[u].balance = BalanceAfter(ledger[u], Len(ledger[u]))
      BY <1>1 DEF CreditInv, TypeOK, LedgerReplays
    <2>2. e.balance_after >= 0
      BY <1>1 DEF SaveAllowed
    <2>3. /\ Replays(Append(ledger[u], e))
          /\ BalanceAfter(Append(ledger[u], e), Len(Append(ledger[u], e))) = e.balance_after
      BY <1>1, <2>1, <2>2, AppendReplays
    <2> SUFFICES ASSUME NEW v \in Users PROVE LedgerReplays!(v)'
      BY DEF LedgerReplays
    <2>4. CASE v = u
      <3>1. ledger'[v] = Append(ledger[u], e) /\ balance'[v] = txn[r].row
        BY <1>5, <2>4
      <3> QED BY <1>1, <2>3, <3>1
    <2>5. CASE v # u
      BY <1>5, <2>5 DEF CreditInv, LedgerReplays
    <2> QED BY <2>4, <2>5
  <1> QED BY <1>6, <1>8, <1>9, <1>10, <1>11, <1>12 DEF CreditInv

\* A lost connection also ends a request that still waits for the lock.
LEMMA LostKeepsInv ==
    ASSUME CreditInv, NEW r \in Requests, ConnectionLost(r)
    PROVE  CreditInv'
  <1>1. CASE txn[r].phase \in Open /\ Rollback(r, "failed")
    BY <1>1, RollbackKeepsInv DEF Answered
  <1>2. CASE /\ txn[r].phase = "waiting"
             /\ SetPhase(r, "failed")
             /\ UNCHANGED <<balance, ledger, holder>>
    <2>1. txn[r] \in Transaction /\ txn' = [txn EXCEPT ![r].phase = "failed"]
      BY <1>2 DEF SetPhase, CreditInv, TypeOK
    <2>2. \A s \in Requests : s # r => txn'[s] = txn[s]
      BY <2>1 DEF CreditInv, TypeOK
    <2>3. txn'[r].phase = "failed" /\ txn'[r] \in Transaction
      BY <2>1 DEF CreditInv, TypeOK, Transaction, Answered
    <2>4. TypeOK'
      BY <1>2, <2>1, <2>3 DEF CreditInv, TypeOK
    <2>5. LockInv'
      <3>1. \A s \in Requests : s # r => txn'[s] = txn[s]
        BY <2>2
      <3>2. txn[r].phase \notin Open /\ txn'[r].phase \notin Open
        BY <1>2, <2>3 DEF Open
      <3> QED BY <1>2, <3>1, <3>2 DEF CreditInv, LockInv
    <2>6. CallInv' /\ CopyInv'
      BY <1>2, <2>2, <2>3 DEF CreditInv, CallInv, CopyInv, CopyOf, Open
    <2>7. RowInv' /\ LedgerReplays'
      BY <1>2 DEF CreditInv, RowInv, LedgerReplays
    <2> QED BY <2>4, <2>5, <2>6, <2>7 DEF CreditInv
  <1> QED BY <1>1, <1>2 DEF ConnectionLost

\* Every step of an open deduct_credit or add_credits keeps the invariant.
LEMMA AdvanceKeepsInv ==
    ASSUME CreditInv, NEW r \in Requests, Advance(r)
    PROVE  CreditInv'
  <1>1. CASE LockBalance(r)
    BY <1>1, LockKeepsInv
  <1>2. CASE Write(r)
    BY <1>2, WriteKeepsInv
  <1>3. CASE InsufficientCredits(r)
    BY <1>3, RollbackKeepsInv DEF InsufficientCredits, Open, Answered
  <1>4. CASE SaveRejected(r)
    BY <1>4, RollbackKeepsInv DEF SaveRejected, Open, Answered
  <1>5. CASE Commit(r)
    BY <1>5, CommitKeepsInv
  <1> QED BY <1>1, <1>2, <1>3, <1>4, <1>5 DEF Advance

\* The invariant is inductive: every step of credit_service.py keeps it.
LEMMA StepKeepsInv == CreditInv /\ [Next]_creditVars => CreditInv'
  <1> SUFFICES ASSUME CreditInv, [Next]_creditVars PROVE CreditInv'
    OBVIOUS
  <1>1. ASSUME NEW r \in Requests, NEW u \in Users, NEW type \in TransactionTypes,
               NEW n \in Amounts, Call(r, u, type, n)
        PROVE  CreditInv'
    BY <1>1, CallKeepsInv
  <1>2. ASSUME NEW r \in Requests, Advance(r) PROVE CreditInv'
    BY <1>2, AdvanceKeepsInv
  <1>3. ASSUME NEW r \in Requests, ConnectionLost(r) PROVE CreditInv'
    BY <1>3, LostKeepsInv
  <1>4. CASE UNCHANGED creditVars
    BY <1>4 DEF creditVars, CreditInv, TypeOK, LockInv, CallInv, CopyInv, CopyOf, RowInv, LedgerReplays
  <1> QED BY <1>1, <1>2, <1>3, <1>4 DEF Next, Quiet

-----------------------------------------------------------------------------
\* The inductive invariant holds in every reachable state.
THEOREM CreditInvariant == Spec => []CreditInv
  BY InitInv, StepKeepsInv, PTL DEF Spec

\* credit_service.py keeps every row, entry, lock and transaction well formed.
THEOREM TypeCorrect == Spec => []TypeOK
  BY CreditInvariant, PTL DEF CreditInv

\* For any number of users and concurrent requests, every ledger replays to
\* the balance: no update is lost and no credit is spent twice.
THEOREM LedgerCorrect == Spec => []LedgerReplays
  BY CreditInvariant, PTL DEF CreditInv

-----------------------------------------------------------------------------
\* Only a commit touches the tables.
LEMMA OthersLeaveTables ==
    ASSUME [Next]_creditVars, \A r \in Requests : ~Commit(r)
    PROVE  UNCHANGED <<balance, ledger>>
  BY DEF Next, creditVars, Call, Advance, LockBalance, Write, InsufficientCredits,
         SaveRejected, ConnectionLost, Rollback, Quiet

\* From the invariant, a step either leaves a user's balance and ledger alone or
\* books the change it makes in one new entry.
LEMMA StepIsBooked == CreditInv /\ [Next]_creditVars => BookedStep
  <1> SUFFICES ASSUME CreditInv, [Next]_creditVars, NEW v \in Users
               PROVE  BookedStep!(v)
    BY DEF BookedStep
  <1>1. CASE \E r \in Requests : Commit(r)
    <2> PICK r \in Requests : Commit(r)
      BY <1>1
    <2> DEFINE u == txn[r].user
               e == EntryOf(r, txn[r])
    <2>1. /\ u \in Users /\ e \in Entry
          /\ balance' = [balance EXCEPT ![u] = txn[r].row]
          /\ ledger' = [ledger EXCEPT ![u] = Append(ledger[u], e)]
          /\ e.balance_after = txn[r].row.balance
          /\ txn[r].row.balance = balance[u].balance + e.amount
          /\ txn[r].row \in Row
      BY CommitBooks
    <2>2. CASE v # u
      BY <2>1, <2>2 DEF CreditInv, TypeOK
    <2>3. CASE v = u
      <3>1. balance'[v] = txn[r].row /\ ledger'[v] = Append(ledger[v], e)
        BY <2>1, <2>3 DEF CreditInv, TypeOK
      <3>2. txn[r].row.balance \in Int /\ balance[v].balance \in Int /\ e.amount \in Int
        BY <2>1, <2>3 DEF CreditInv, TypeOK, Row, Entry
      <3>3. balance'[v].balance - balance[v].balance = e.amount
        BY <2>1, <2>3, <3>1, <3>2
      <3>4. /\ txn[r].amount \in Amounts /\ txn[r].amount > 0
            /\ txn[r].type \in TransactionTypes
        BY DEF CreditInv, CallInv, Commit, Open, TypeOK, Transaction
      <3>5. e = [amount |-> e.amount, type |-> txn[r].type,
                 balance_after |-> balance'[v].balance, request |-> r]
        BY <3>1 DEF EntryOf
      <3>6. e.amount = IF txn[r].type = "usage" THEN -txn[r].amount ELSE txn[r].amount
        BY DEF EntryOf
      <3> QED BY <3>1, <3>3, <3>4, <3>5, <3>6
    <2> QED BY <2>2, <2>3
  <1>2. CASE \A r \in Requests : ~Commit(r)
    BY <1>2, OthersLeaveTables
  <1> QED BY <1>1, <1>2

\* No step changes a balance without the one ledger entry that explains it.
THEOREM ChangesBooked == Spec => EveryChangeBooked
  <1>1. CreditInv /\ [Next]_creditVars => [BookedStep]_creditVars
    BY StepIsBooked
  <1> QED BY <1>1, CreditInvariant, PTL DEF Spec, EveryChangeBooked

-----------------------------------------------------------------------------
InSync(row) == row.balance = row.total_purchased - row.total_used

\* A commit of a usage or a purchase moves balance and its two totals together;
\* a refund (add_credits with REFUND) would not.
LEMMA CommitKeepsSync ==
    ASSUME "refund" \notin AddTypes, CreditInv, NEW r \in Requests, Commit(r),
           \A u \in Users : InSync(balance[u])
    PROVE  \A u \in Users : InSync(balance'[u])
  <1> DEFINE u == txn[r].user
  <1>1. /\ u \in Users /\ balance' = [balance EXCEPT ![u] = txn[r].row]
    BY CommitBooks
  <1>2. /\ balance[u] \in Row /\ txn[r].amount \in Int
        /\ txn[r].type = "usage" \/ txn[r].type = "purchase"
    <2>1. txn[r] \in Transaction /\ balance[u] \in Row
      BY <1>1 DEF CreditInv, TypeOK
    <2>2. txn[r].type \in {"usage"} \cup AddTypes /\ txn[r].amount \in Int
      BY <2>1 DEF Transaction, TransactionTypes
    <2> QED BY <2>1, <2>2, AddTypesAssumption
  <1>3. txn[r].row = IF txn[r].type = "usage"
                     THEN Deducted(balance[u], txn[r].amount)
                     ELSE Added(balance[u], txn[r].amount, txn[r].type)
    BY DEF Commit, CreditInv, CopyInv, CopyOf
  <1>4. /\ InSync(balance[u]) /\ balance[u].balance \in Int
        /\ balance[u].total_purchased \in Int /\ balance[u].total_used \in Int
    BY <1>1, <1>2 DEF Row
  <1>5. InSync(txn[r].row)
    <2>1. CASE txn[r].type = "usage"
      <3>1. txn[r].row = Deducted(balance[u], txn[r].amount)
        BY <1>3, <2>1
      <3>2. /\ txn[r].row.balance = balance[u].balance - txn[r].amount
            /\ txn[r].row.total_used = balance[u].total_used + txn[r].amount
            /\ txn[r].row.total_purchased = balance[u].total_purchased
        BY <3>1 DEF Deducted
      <3> QED BY <1>2, <1>4, <3>2 DEF InSync
    <2>2. CASE txn[r].type = "purchase"
      <3>1. txn[r].row = Added(balance[u], txn[r].amount, "purchase")
        BY <1>3, <2>2
      <3>2. /\ txn[r].row.balance = balance[u].balance + txn[r].amount
            /\ txn[r].row.total_used = balance[u].total_used
            /\ txn[r].row.total_purchased = balance[u].total_purchased + txn[r].amount
        BY <3>1 DEF Added
      <3> QED BY <1>2, <1>4, <3>2 DEF InSync
    <2> QED BY <1>2, <2>1, <2>2
  <1>6. \A v \in Users : balance'[v] = IF v = u THEN txn[r].row ELSE balance[v]
    BY <1>1 DEF CreditInv, TypeOK
  <1> QED BY <1>5, <1>6

\* While nobody books a refund, the balance column is total_purchased minus
\* total_used, non-negative and in range, under every overlap of requests.
THEOREM BalanceCorrect ==
    ASSUME "refund" \notin AddTypes
    PROVE  Spec => []BalanceInSync
  <1> DEFINE Sync == \A u \in Users : InSync(balance[u])
  <1>1. InitCredits => Sync
    <2>1. InSync(ZeroRow)
      BY DEF ZeroRow, InSync
    <2> QED BY <2>1 DEF InitCredits
  <1>2. CreditInv /\ Sync /\ [Next]_creditVars => Sync'
    <2> SUFFICES ASSUME CreditInv, Sync, [Next]_creditVars PROVE Sync'
      OBVIOUS
    <2>1. CASE \E r \in Requests : Commit(r)
      BY <2>1, CommitKeepsSync
    <2>2. CASE \A r \in Requests : ~Commit(r)
      BY <2>2, OthersLeaveTables
    <2> QED BY <2>1, <2>2
  <1>3. CreditInv /\ Sync => BalanceInSync
    <2>1. \A row \in Row : SaveAllowed(row) => row.balance \in 0..MaxInt
      BY MaxIntAssumption DEF Row, SaveAllowed
    <2>2. CreditInv => \A u \in Users : balance[u] \in Row /\ SaveAllowed(balance[u])
      BY DEF CreditInv, TypeOK, RowInv
    <2> QED BY <2>1, <2>2 DEF BalanceInSync, InSync
  <1> HIDE DEF Sync
  <1> QED BY <1>1, <1>2, <1>3, CreditInvariant, PTL DEF Spec

-----------------------------------------------------------------------------
\* The projection of a ledger to a statement commutes with booking an entry.
Shown(s) == [i \in DOMAIN s |-> [amount |-> s[i].amount,
                                 balance_after |-> s[i].balance_after]]

\* A new entry of the ledger is a new line of the statement an owner sees.
LEMMA ShownAppend ==
    ASSUME NEW s \in Seq(Entry), NEW e \in Entry
    PROVE  Shown(Append(s, e)) =
              Append(Shown(s), [amount |-> e.amount, balance_after |-> e.balance_after])
  <1> DEFINE m == [amount |-> e.amount, balance_after |-> e.balance_after]
             t == Append(s, e)
  <1>1. /\ Len(t) = Len(s) + 1 /\ Len(s) \in Nat /\ DOMAIN t = 1..Len(s) + 1
        /\ DOMAIN s = 1..Len(s) /\ t[Len(s) + 1] = e
        /\ \A i \in 1..Len(s) : t[i] = s[i]
    OBVIOUS
  <1>2. Shown(s) \in Seq([amount : Int, balance_after : Int]) /\ Len(Shown(s)) = Len(s)
    <2>1. \A i \in 1..Len(s) : s[i] \in Entry
      OBVIOUS
    <2>2. \A i \in 1..Len(s) : [amount |-> s[i].amount, balance_after |-> s[i].balance_after]
                                  \in [amount : Int, balance_after : Int]
      BY <2>1 DEF Entry
    <2>3. Shown(s) = [i \in 1..Len(s) |-> [amount |-> s[i].amount,
                                           balance_after |-> s[i].balance_after]]
      BY <1>1 DEF Shown
    <2> QED BY <1>1, <2>2, <2>3
  <1>3. DOMAIN Shown(t) = 1..Len(s) + 1 /\ DOMAIN Append(Shown(s), m) = 1..Len(s) + 1
    BY <1>1, <1>2 DEF Shown
  <1>4. ASSUME NEW i \in 1..Len(s) + 1 PROVE Shown(t)[i] = Append(Shown(s), m)[i]
    <2>1. CASE i = Len(s) + 1
      BY <1>1, <1>2, <2>1 DEF Shown
    <2>2. CASE i # Len(s) + 1
      <3>1. i \in 1..Len(s)
        BY <1>1, <2>2
      <3>2. Append(Shown(s), m)[i] = Shown(s)[i]
        BY <1>2, <3>1
      <3> QED BY <1>1, <3>1, <3>2 DEF Shown
    <2> QED BY <2>1, <2>2
  <1>5. /\ Shown(t) = [i \in 1..Len(s) + 1 |-> Shown(t)[i]]
        /\ Append(Shown(s), m) = [i \in 1..Len(s) + 1 |-> Append(Shown(s), m)[i]]
    <2>1. Shown(t) = [i \in DOMAIN t |-> [amount |-> t[i].amount,
                                          balance_after |-> t[i].balance_after]]
      BY DEF Shown
    <2>2. Append(Shown(s), m) \in Seq([amount : Int, balance_after : Int])
      <3>1. m \in [amount : Int, balance_after : Int]
        BY DEF Entry
      <3> QED BY <1>2, <3>1
    <2> QED BY <1>1, <1>3, <2>1, <2>2
  <1> QED BY <1>4, <1>5

\* create_credit_balance opens an account with nothing on it.
LEMMA InitImplements == InitCredits => Account!Init
  <1> SUFFICES ASSUME InitCredits PROVE Account!Init
    OBVIOUS
  <1>1. [u \in Users |-> balance[u].balance] = [u \in Users |-> 0]
    BY DEF InitCredits, ZeroRow
  <1>2. [u \in Users |-> StatementOf(u)] = [u \in Users |-> <<>>]
    <2>1. ASSUME NEW u \in Users PROVE StatementOf(u) = <<>>
      <3>1. ledger[u] = <<>> /\ DOMAIN <<>> = {}
        BY DEF InitCredits
      <3> QED BY <3>1 DEF StatementOf
    <2> QED BY <2>1
  <1> QED BY <1>1, <1>2 DEF Account!Init

\* The commit of deduct_credit or add_credits is one deposit or withdrawal.
LEMMA CommitImplements ==
    ASSUME CreditInv, NEW r \in Requests, Commit(r)
    PROVE  Account!Next
  <1> DEFINE u == txn[r].user
             e == EntryOf(r, txn[r])
             f == [v \in Users |-> balance[v].balance]
             st == [v \in Users |-> StatementOf(v)]
  <1>1. /\ u \in Users /\ e \in Entry
        /\ balance' = [balance EXCEPT ![u] = txn[r].row]
        /\ ledger' = [ledger EXCEPT ![u] = Append(ledger[u], e)]
        /\ e.balance_after = txn[r].row.balance
        /\ txn[r].row.balance = balance[u].balance + e.amount
        /\ SaveAllowed(txn[r].row)
    BY CommitBooks
  <1>2. f' = [f EXCEPT ![u] = @ + e.amount]
    BY <1>1 DEF CreditInv, TypeOK
  <1>3. st' = [st EXCEPT ![u] = Append(@, [amount |-> e.amount, balance_after |-> e.balance_after])]
    <2>1. \A v \in Users : StatementOf(v) = Shown(ledger[v]) /\ StatementOf(v)' = Shown(ledger'[v])
      BY DEF StatementOf, Shown
    <2>2. \A v \in Users : ledger'[v] = IF v = u THEN Append(ledger[u], e) ELSE ledger[v]
      BY <1>1 DEF CreditInv, TypeOK
    <2>3. ledger[u] \in Seq(Entry)
      BY <1>1 DEF CreditInv, TypeOK
    <2>4. Shown(Append(ledger[u], e)) =
             Append(Shown(ledger[u]), [amount |-> e.amount, balance_after |-> e.balance_after])
      BY <1>1, <2>3, ShownAppend
    <2>5. \A v \in Users : StatementOf(v)' =
             IF v = u THEN Append(StatementOf(u), [amount |-> e.amount,
                                                   balance_after |-> e.balance_after])
                      ELSE StatementOf(v)
      BY <1>1, <2>1, <2>2, <2>4
    <2> HIDE DEF e, u
    <2> QED BY <1>1, <2>5
  <1>4. f[u] + e.amount >= 0 /\ e.balance_after = f[u] + e.amount
    BY <1>1 DEF SaveAllowed
  <1>5. \A w \in Users, n \in Int : w = u /\ n = e.amount => Account!Book(w, n)
    BY <1>2, <1>3, <1>4 DEF Account!Book
  <1>6. /\ txn[r].amount \in Amounts /\ txn[r].amount > 0
        /\ e.amount = IF txn[r].type = "usage" THEN -txn[r].amount ELSE txn[r].amount
    BY DEF CreditInv, CallInv, Commit, Open, EntryOf
  <1>7. \E w \in Users, n \in {k \in Amounts : k > 0} :
           w = u /\ (e.amount = n \/ e.amount = -n)
    BY <1>1, <1>6
  <1>8. PICK w \in Users, n \in {k \in Amounts : k > 0} :
           w = u /\ (e.amount = n \/ e.amount = -n)
    BY <1>7
  <1>9. Account!Book(w, n) \/ Account!Book(w, -n)
    <2> HIDE DEF e, u
    <2>1. n \in Int /\ -n \in Int
      BY AmountsAssumption
    <2> QED BY <1>5, <1>8, <2>1
  <1> QED BY <1>9 DEF Account!Next

\* Row-locked transactions over the database implement the account that moves
\* one whole movement at a time: every commit is one booking, and every other
\* step leaves the account as it is.
THEOREM CreditsImplementAccount == Spec => ImplementsAccount
  <1>1. CreditInv /\ [Next]_creditVars => [Account!Next]_(Account!vars)
    <2> SUFFICES ASSUME CreditInv, [Next]_creditVars PROVE [Account!Next]_(Account!vars)
      OBVIOUS
    <2>1. CASE \E r \in Requests : Commit(r)
      BY <2>1, CommitImplements
    <2>2. CASE \A r \in Requests : ~Commit(r)
      BY <2>2, OthersLeaveTables DEF Account!vars, StatementOf
    <2> QED BY <2>1, <2>2
  <1> QED BY <1>1, InitImplements, CreditInvariant, PTL DEF Spec, ImplementsAccount, Account!Spec
=============================================================================
