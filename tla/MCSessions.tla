----------------------------- MODULE MCSessions -----------------------------
(* Small instances of Sessions for TLC. *)
EXTENDS Sessions, TLC

\* Requests, families and browsers are interchangeable.
Symmetry == Permutations(Requests) \cup Permutations(Sids) \cup Permutations(Clients)

=============================================================================
