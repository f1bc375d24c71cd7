--------------------------- MODULE CreditAccount ---------------------------
(***************************************************************************)
(* What the credit service promises (credit_service.py, lines 1-6): each   *)
(* account moves by whole, booked movements, one at a time, and none of    *)
(* them takes the account below zero.                                      *)
(***************************************************************************)
EXTENDS Integers, Sequences

CONSTANTS Users, Amounts

VARIABLES
    funds,       \* user -> what the user can spend
    statement    \* user -> the movements booked, oldest first

vars == <<funds, statement>>

Init == /\ funds = [u \in Users |-> 0]
        /\ statement = [u \in Users |-> <<>>]

\* One movement of amount n: a spending when n is negative.
Book(u, n) ==
    /\ funds[u] + n >= 0
    /\ funds' = [funds EXCEPT ![u] = @ + n]
    /\ statement' = [statement EXCEPT ![u] =
                        Append(@, [amount |-> n, balance_after |-> funds[u] + n])]

Next == \E u \in Users, n \in {k \in Amounts : k > 0} : Book(u, n) \/ Book(u, -n)

Spec == Init /\ [][Next]_vars
=============================================================================
