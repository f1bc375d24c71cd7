------------------------------ MODULE Credits ------------------------------
(***************************************************************************)
(* The credit ledger: services/credit_service.py over the tables           *)
(* credit_balance and credit_transaction.                                  *)
(*                                                                         *)
(* deduct_credit and add_credits run inside transaction.atomic: they take  *)
(* the row lock of the user's balance (SELECT ... FOR UPDATE), change the  *)
(* loaded copy, UPDATE the named columns, INSERT one ledger entry and      *)
(* commit.  The database runs READ COMMITTED: the copy is the row as it    *)
(* was last committed when the lock was granted, and nobody sees an open   *)
(* transaction.  A request is one call of either function by one process.  *)
(***************************************************************************)
EXTENDS Integers, Sequences

CONSTANTS
    Users,       \* accounts; signals.py gives every user a balance row
    Requests,    \* calls of deduct_credit or add_credits
    NoUser,      \* the user of a request that has none
    NoRequest,   \* the holder of a lock nobody holds
    Amounts,     \* the amounts a caller may pass
    AddTypes,    \* the transaction types add_credits is called with
    MaxInt       \* the largest value of an integer column (int4)

ASSUME NoRequestAssumption == NoRequest \notin Requests
ASSUME NoUserAssumption == NoUser \notin Users
ASSUME AmountsAssumption == Amounts \subseteq Int
ASSUME AddTypesAssumption == AddTypes \subseteq {"purchase", "refund"}
ASSUME MaxIntAssumption == MaxInt \in Nat

VARIABLES
    balance,     \* user -> the committed row of credit_balance
    ledger,      \* user -> the committed rows of credit_transaction, oldest first
    holder,      \* user -> the request that holds the lock of the balance row
    txn          \* request -> its database transaction

creditVars == <<balance, ledger, holder, txn>>

TransactionTypes == {"usage"} \cup AddTypes

\* What a caller learns: the entry is booked, the call was refused (a domain
\* error: 400 or 402), or the transaction failed (a database error, a crash).
Answered == {"committed", "refused", "failed"}

Open == {"locked", "written"}

Row == [total_purchased : Int, total_used : Int, balance : Int]

ZeroRow == [total_purchased |-> 0, total_used |-> 0, balance |-> 0]

Entry == [amount : Int, type : TransactionTypes, balance_after : Int,
          request : Requests]

Transaction == [phase : {"idle", "waiting"} \cup Open \cup Answered,
                user : Users \cup {NoUser}, type : TransactionTypes, amount : Int,
                row : Row]

Idle == [phase |-> "idle", user |-> NoUser, type |-> "usage", amount |-> 0,
         row |-> ZeroRow]

-----------------------------------------------------------------------------
\* Mutant: a deduction that forgets total_used.
DeductedFromBalanceOnly(row, n) ==
    [total_purchased |-> row.total_purchased,
     total_used |-> row.total_used, balance |-> row.balance - n]

\* What deduct_credit and add_credits do to the loaded row.
Deducted(row, n) ==
    [total_purchased |-> row.total_purchased,
     total_used |-> row.total_used + n, balance |-> row.balance - n]

\* Mutant: a purchase that forgets total_purchased.
AddedToBalanceOnly(row, n, type) ==
    [total_purchased |-> row.total_purchased,
     total_used |-> row.total_used, balance |-> row.balance + n]

Added(row, n, type) ==
    [total_purchased |-> row.total_purchased + (IF type = "purchase" THEN n ELSE 0),
     total_used |-> row.total_used, balance |-> row.balance + n]

\* The row the transaction of r is about to save.
Changed(t) == IF t.type = "usage" THEN Deducted(t.row, t.amount)
                                  ELSE Added(t.row, t.amount, t.type)

\* The CHECK constraint balance_non_negative and the range of the columns.
SaveAllowed(row) == /\ row.balance >= 0
                    /\ row.total_purchased <= MaxInt
                    /\ row.total_used <= MaxInt
                    /\ row.balance <= MaxInt

\* Mutant: "balance" missing from update_fields.
SavedWithoutBalance(old, t) ==
    [total_purchased |-> t.row.total_purchased, total_used |-> t.row.total_used,
     balance |-> old.balance]

\* save(update_fields=[...]): only the named columns reach the table.
SavedOver(old, t) ==
    LET usage == t.type = "usage" IN
    [total_purchased |-> IF usage THEN old.total_purchased ELSE t.row.total_purchased,
     total_used |-> IF usage THEN t.row.total_used ELSE old.total_used,
     balance |-> t.row.balance]

\* Mutant: every entry that is not a purchase is booked as a refund.
EntryOfNoUsage(r, t) ==
    [amount |-> IF t.type = "usage" THEN -t.amount ELSE t.amount,
     type |-> IF t.type = "purchase" THEN t.type ELSE "refund",
     balance_after |-> t.row.balance, request |-> r]

\* The ledger entry of transaction t of request r.
EntryOf(r, t) == [amount |-> IF t.type = "usage" THEN -t.amount ELSE t.amount,
                  type |-> t.type, balance_after |-> t.row.balance,
                  request |-> r]

SetPhase(r, phase) == txn' = [txn EXCEPT ![r].phase = phase]

Unlock(r) == holder' = [holder EXCEPT ![txn[r].user] = NoRequest]

-----------------------------------------------------------------------------
InitCredits ==
    /\ balance = [u \in Users |-> ZeroRow]
    /\ ledger = [u \in Users |-> <<>>]
    /\ holder = [u \in Users |-> NoRequest]
    /\ txn = [r \in Requests |-> Idle]

\* Mutant: the check refuses negative amounts and lets zero through.
CallZeroAllowed(r, u, type, n) ==
    /\ txn[r].phase = "idle"
    /\ txn' = [txn EXCEPT ![r] = [phase |-> IF n < 0 THEN "refused" ELSE "waiting",
                                  user |-> u, type |-> type, amount |-> n,
                                  row |-> ZeroRow]]
    /\ UNCHANGED <<balance, ledger, holder>>

\* deduct_credit or add_credits is called; the amount is checked before any
\* query, so a refused amount never opens a transaction.
Call(r, u, type, n) ==
    /\ txn[r].phase = "idle"
    /\ txn' = [txn EXCEPT ![r] = [phase |-> IF n <= 0 THEN "refused" ELSE "waiting",
                                  user |-> u, type |-> type, amount |-> n,
                                  row |-> ZeroRow]]
    /\ UNCHANGED <<balance, ledger, holder>>

\* Mutant: a plain get(), with no row lock to wait for.
ReadBalance(r) ==
    LET u == txn[r].user IN
    /\ txn[r].phase = "waiting"
    /\ holder' = [holder EXCEPT ![u] = r]
    /\ txn' = [txn EXCEPT ![r].phase = "locked", ![r].row = balance[u]]
    /\ UNCHANGED <<balance, ledger>>

\* select_for_update().get(user=user): waits for the lock, then loads the row.
LockBalance(r) ==
    LET u == txn[r].user IN
    /\ txn[r].phase = "waiting"
    /\ holder[u] = NoRequest
    /\ holder' = [holder EXCEPT ![u] = r]
    /\ txn' = [txn EXCEPT ![r].phase = "locked", ![r].row = balance[u]]
    /\ UNCHANGED <<balance, ledger>>

\* The statements after the lock, when none of them raises.
Write(r) ==
    /\ txn[r].phase = "locked"
    /\ txn[r].type = "usage" => txn[r].row.balance >= txn[r].amount
    /\ SaveAllowed(Changed(txn[r]))
    /\ txn' = [txn EXCEPT ![r].phase = "written", ![r].row = Changed(txn[r])]
    /\ UNCHANGED <<balance, ledger, holder>>

\* Mutant: the transaction stays open after the exception.
RollbackKeepingLock(r, answer) ==
    /\ SetPhase(r, answer)
    /\ UNCHANGED <<balance, ledger, holder>>

\* An exception leaves the atomic block: nothing is kept, the lock is freed.
Rollback(r, answer) ==
    /\ SetPhase(r, answer)
    /\ Unlock(r)
    /\ UNCHANGED <<balance, ledger>>

InsufficientCredits(r) ==
    /\ txn[r].phase = "locked"
    /\ txn[r].type = "usage"
    /\ txn[r].row.balance < txn[r].amount
    /\ Rollback(r, "refused")

SaveRejected(r) ==
    /\ txn[r].phase = "locked"
    /\ txn[r].type = "usage" => txn[r].row.balance >= txn[r].amount
    /\ ~SaveAllowed(Changed(txn[r]))
    /\ Rollback(r, "failed")

\* COMMIT: the columns, the entry and the release of the lock at once.
Commit(r) ==
    LET u == txn[r].user IN
    /\ txn[r].phase = "written"
    /\ balance' = [balance EXCEPT ![u] = SavedOver(@, txn[r])]
    /\ ledger' = [ledger EXCEPT ![u] = Append(@, EntryOf(r, txn[r]))]
    /\ SetPhase(r, "committed")
    /\ Unlock(r)

\* The process or its connection dies: the server rolls the transaction back.
ConnectionLost(r) ==
    \/ txn[r].phase \in Open /\ Rollback(r, "failed")
    \/ /\ txn[r].phase = "waiting"
       /\ SetPhase(r, "failed")
       /\ UNCHANGED <<balance, ledger, holder>>

\* Nothing is left to do: every request is answered.
Quiet == /\ \A r \in Requests : txn[r].phase \in Answered
         /\ UNCHANGED creditVars

Advance(r) == \/ LockBalance(r) \/ Write(r) \/ InsufficientCredits(r)
              \/ SaveRejected(r) \/ Commit(r)

Next == \/ \E r \in Requests, u \in Users, type \in TransactionTypes, n \in Amounts :
               Call(r, u, type, n)
        \/ \E r \in Requests : Advance(r) \/ ConnectionLost(r)
        \/ Quiet

\* A live process runs its next statement; the lock queue of the database
\* serves a waiter once the holder is gone.  Nobody is bound to call.
Fairness == \A r \in Requests : SF_creditVars(LockBalance(r)) /\ WF_creditVars(Advance(r))

Spec == InitCredits /\ [][Next]_creditVars /\ Fairness

-----------------------------------------------------------------------------
TypeOK == /\ balance \in [Users -> Row]
          /\ ledger \in [Users -> Seq(Entry)]
          /\ holder \in [Users -> Requests \cup {NoRequest}]
          /\ txn \in [Requests -> Transaction]

\* The balance column is total_purchased - total_used after every credit
\* operation, never negative and never out of range, whatever the overlap of
\* deductions and purchases (credit_balance.py: "kept in sync"; a lost update
\* of credit_service.py would break it).
BalanceInSync ==
    \A u \in Users : /\ balance[u].balance = balance[u].total_purchased - balance[u].total_used
                     /\ balance[u].balance \in 0..MaxInt

\* The balance that the first i entries of s leave.
BalanceAfter(s, i) == IF i = 0 THEN 0 ELSE s[i].balance_after

\* Each snapshot balance_after is the one before it plus the entry's amount.
Replays(s) ==
    \A i \in 1..Len(s) : /\ BalanceAfter(s, i) = BalanceAfter(s, i - 1) + s[i].amount
                         /\ BalanceAfter(s, i) >= 0

\* The ledger of a user replays, entry by entry and never below zero, to the
\* balance the user has now.  Two deductions that spent the same credit, or a
\* purchase lost under one, would leave snapshots that do not follow.
LedgerReplays ==
    \A u \in Users : /\ Replays(ledger[u])
                     /\ balance[u].balance = BalanceAfter(ledger[u], Len(ledger[u]))

\* The balance of a user changes only together with one new ledger entry that
\* accounts for the whole difference, of the sign its type calls for, and no
\* entry ever goes away.
BookedStep ==
    \A u \in Users :
        \/ balance'[u] = balance[u] /\ ledger'[u] = ledger[u]
        \/ \E r \in Requests, type \in TransactionTypes, n \in Amounts :
              LET amount == balance'[u].balance - balance[u].balance IN
              /\ amount = IF type = "usage" THEN -n ELSE n
              /\ n > 0
              /\ ledger'[u] = Append(ledger[u],
                     [amount |-> amount, type |-> type,
                      balance_after |-> balance'[u].balance, request |-> r])

EveryChangeBooked == [][BookedStep]_creditVars

\* A call that reached the database is answered: no order of lock requests,
\* rollbacks and lost connections leaves a caller waiting for the row for ever.
EveryCallAnswered ==
    \A r \in Requests : txn[r].phase = "waiting" ~> txn[r].phase \in Answered

-----------------------------------------------------------------------------
\* What an account holder sees of the ledger.
StatementOf(u) == [i \in DOMAIN ledger[u] |->
                      [amount |-> ledger[u][i].amount,
                       balance_after |-> ledger[u][i].balance_after]]

Account == INSTANCE CreditAccount
               WITH funds <- [u \in Users |-> balance[u].balance],
                    statement <- [u \in Users |-> StatementOf(u)]

\* The row-locked transactions of credit_service.py implement the account
\* whose movements happen one at a time and never overdraw it.
ImplementsAccount == Account!Spec
=============================================================================
