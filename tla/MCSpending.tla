---- MODULE MCSpending ----
(* A small instance of Spending: settings from nothing, or keys and calls of  *)
(* organisations that have both credentials and a route.                      *)
EXTENDS Spending, TLC
CONSTANT MaxSteps
VARIABLES steps, focus
\* focus: what the requests are about, so that each part is followed far.
Set(o, cred) == [consent |-> TRUE, creds |-> {"own", "platform"},
                 route |-> [f \in Features |-> IF f = "default" THEN cred ELSE "none"]]
Init ==
    /\ AIInit /\ steps = 0 /\ focus = "orgs"
    \/ /\ focus \in {"keys", "calls"}
       /\ steps = 0
       /\ org \in [Orgs -> {Set(o, cred) : o \in Orgs, cred \in {"own", "platform"}}]
       /\ period = 1 /\ offered = TRUE
       /\ own = [o \in Orgs |-> [key |-> 1, models |-> 1, next |-> 2]]
       /\ used = Zero /\ ledger = Zero /\ billed = Zero /\ warned = Zero
       /\ spend = [p \in Periods |-> 0]
       /\ claimed = [o \in Orgs |-> {}]
       /\ call = [c \in Calls |-> Off]
       /\ retired = [o \in Orgs |-> {}]
Starts == \E c \in Calls : call[c] = Off /\ call'[c] # Off
Next ==
    /\ UNCHANGED focus
    /\ \/ focus = "orgs" /\ OrgNext
       \/ focus = "keys" /\ KeyNext
       \/ focus = "calls" /\ CallNext
    /\ steps' = IF focus = "orgs" \/ Starts THEN steps + 1 ELSE steps
    /\ steps' <= IF focus = "orgs" THEN 2 * MaxSteps ELSE MaxSteps
====
