------------------------------ MODULE MCLedger ------------------------------
(* Small instances of Ledger for TLC. *)
EXTENDS Ledger, TLC

CONSTANTS a1, a2, a3, t1, t2, t3

\* Account a3, where an instance has it, is in a currency of its own.
Currencies == [a \in Accounts |-> IF a = a3 THEN "USD" ELSE "EUR"]

\* Row ids are interchangeable, and so are the accounts of one currency.
Symmetry ==
    {[x \in TxIds \cup Accounts |-> IF x \in TxIds THEN p[x]
                                   ELSE IF x = a3 THEN a3 ELSE q[x]] :
       p \in Permutations(TxIds), q \in Permutations(Accounts \ {a3})}

\* Bound: while all three rows exist, every one of them is settled; pending
\* rows are explored with two.
ThirdRowSettled ==
    Cardinality(live) = 3 => \A t \in live : tx[t].status = "settled"
=============================================================================
