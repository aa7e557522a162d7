---- MODULE MCGrants ----
(* A small instance of Grants: consent and codes from nothing, or an issued   *)
(* grant or agent token.                                                      *)
EXTENDS Grants, TLC
CONSTANTS MaxClock, MaxAsked
VARIABLES asked, focus
mcVars == <<grantVars, asked, focus>>
\* One row may be a grant already: a code, or one that was exchanged.
Granted(kind, n) ==
    [kind |-> kind, client |-> IF kind = "oauth" THEN CHOOSE k \in Clients : TRUE ELSE NoClient,
     scope |-> IF kind = "agent" THEN 3 ELSE 2, created |-> 1, access |-> TRUE, renews |-> n # 0, refresh |-> n, prev |-> 0,
     revoked |-> FALSE, stage |-> 0, began |-> 1]
First == CHOOSE r \in Rows : TRUE
Init ==
    /\ asked = 0
    /\ \/ focus = "consent" /\ GrantInit
       \/ \E n \in 0..1, kind \in {"oauth", "agent"} :
            /\ focus \in {"endpoint", "agent"}
            /\ n = 1 => kind = "oauth"
            /\ token = [r \in Rows |-> IF r = First THEN Granted(kind, n) ELSE NoRow]
            /\ clients = Clients
            /\ clock = 1
            /\ cutoff = 0
            /\ call = [c \in Calls |-> Rest]
            /\ pending = [r \in Rows |-> {}]
            /\ honoured = [r \in Rows |-> [i \in 0..MaxSerial |-> IF r = First /\ i < n THEN 1 ELSE 0]]
\* Requests that begin, and what happens without one, are counted.
Counts == \/ \E c \in Calls : call[c] = Rest /\ call'[c] # Rest
          \/ call' = call
Next ==
    /\ UNCHANGED focus
    /\ \/ EndNext
       \/ focus = "consent" /\ (ConsentNext \/ EndpointNext)
       \/ focus = "endpoint" /\ EndpointNext
       \/ focus = "agent" /\ (AgentNext \/ MoveCutoff)
    /\ asked' = IF Counts THEN asked + 1 ELSE asked
    /\ asked' <= MaxAsked
    /\ clock' <= MaxClock
====
