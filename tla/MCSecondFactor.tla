---- MODULE MCSecondFactor ----
(* A small instance of SecondFactor.  One kind of code is offered in a        *)
(* behaviour, MaxAsked of them are, and one more when all are wrong; a mailed *)
(* code is offered with one TOTP code.  A request dies, the cutoff moves or   *)
(* the window ends at most MaxDisturbed times.                                *)
EXTENDS SecondFactor, TLC

CONSTANTS MaxAsked, MaxDisturbed
VARIABLES offered, asked, disturbed

Offers == {{Wrong}, Steps, UNION {Codes(g) : g \in 1 .. MaxGen},
           Mails \cup {<<"step", 1>>}}
Asks == Cardinality({t \in Tries : try[t].pc = "idle" /\ try'[t].pc # "idle"})
Disturbs ==
    \/ \E reset \in BOOLEAN : MoveCutoff(reset)
    \/ WindowEnds
    \/ \E t \in Tries : Crash(t)

Init == MfaInit /\ offered \in Offers /\ asked = 0 /\ disturbed = 0
Next ==
    /\ MfaNext
    /\ \A t \in Tries : try'[t].pc = "idle" \/ try'[t].given \in offered
    /\ step' # step => Steps \subseteq offered
    /\ <<mailed, paused>>' # <<mailed, paused>> => Mails \subseteq offered
    /\ asked' = asked + Asks
    /\ disturbed' = disturbed + (IF Disturbs THEN 1 ELSE 0)
    /\ asked' <= MaxAsked + (IF offered = {Wrong} THEN 1 ELSE 0)
    /\ disturbed' <= MaxDisturbed
    /\ UNCHANGED offered
====
