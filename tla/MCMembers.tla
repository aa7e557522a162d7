---- MODULE MCMembers ----
(* A small instance of Members, for the seats of the organisation.            *)
EXTENDS Members, TLC

CONSTANT MaxSteps
VARIABLE steps

mcVars == <<orgVars, steps>>

\* Bound: MaxSteps steps.
Init == OrgInit /\ steps = 0
Next == OrgNext /\ steps' = steps + 1 /\ steps' <= MaxSteps
Spec == Init /\ [][Next]_mcVars

\* People, invitations and requests are interchangeable.
Symmetry == Permutations(People) \cup Permutations(Invites) \cup Permutations(Calls)
====
