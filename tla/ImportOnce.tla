----------------------------- MODULE ImportOnce -----------------------------
(***************************************************************************)
(* What the import confirm promises for one idempotency key: the rows of   *)
(* the file arrive in pieces, none while its transaction is there, and     *)
(* once the import is final every response reports the same rows.  An      *)
(* import none of whose transactions is left when its last piece arrives   *)
(* is not final: it may be tried again.                                    *)
(***************************************************************************)
CONSTANTS Requests, Rows

VARIABLES
    written,   \* rows whose transactions are in the ledger
    reported,  \* the rows a response will report
    final,     \* the outcome is settled
    answer     \* the rows each response reported

vars == <<written, reported, final, answer>>

Init ==
    /\ written = {}
    /\ reported = {}
    /\ final = FALSE
    /\ answer = [r \in Requests |-> {}]

\* A piece of the file arrives.
Write(W) ==
    /\ ~final
    /\ W \cap written = {}
    /\ written' = written \cup W
    /\ reported' = reported \cup W
    /\ UNCHANGED <<final, answer>>

\* The last piece arrives, and request r is answered.
Settle(r, W) ==
    /\ ~final
    /\ W \cap written = {}
    /\ written' = written \cup W
    /\ final' = (written' # {})
    /\ reported' = IF final' THEN reported \cup W ELSE {}
    /\ answer' = [answer EXCEPT ![r] = reported \cup W]

\* A repeat is answered.
Repeat(r) ==
    /\ final
    /\ answer' = [answer EXCEPT ![r] = reported]
    /\ UNCHANGED <<written, reported, final>>

\* The user deletes an imported transaction.
Delete(x) ==
    /\ x \in written
    /\ written' = written \ {x}
    /\ UNCHANGED <<reported, final, answer>>

Next ==
    \/ \E W \in SUBSET Rows : Write(W)
    \/ \E r \in Requests, W \in SUBSET Rows : Settle(r, W)
    \/ \E r \in Requests : Repeat(r)
    \/ \E x \in Rows : Delete(x)

Spec == Init /\ [][Next]_vars
=============================================================================
