---- MODULE MCSimulation ----
(* Small books and scenarios for Simulation.  A month is four days.           *)
EXTENDS Simulation

Rec(id, kind, acct, to, amt, freq, due, left, cat) ==
    [id |-> id, kind |-> kind, acct |-> acct, to |-> to, amt |-> amt, freq |-> freq,
     due |-> due, left |-> left, cat |-> cat]
World(x, y, rs, hx) ==
    [bal |-> [a \in Accounts |-> IF a = "x" THEN x ELSE y],
     series |-> rs,
     history |-> [a \in Accounts |-> IF a = "x" THEN hx ELSE <<>>]]

\* An instalment plan that started before the month; a salary and an expense of
\* an account with no money; a standing transfer.
SomeBooks ==
    {World(10, 2, {Rec(1, "expense", "x", "x", 3, 4, -5, 4, "rent")}, <<0, -1, -2>>),
     World(6, 0, {Rec(2, "income", "x", "x", 5, 4, 1, -1, "pay"),
                  Rec(1, "expense", "y", "y", 2, 3, 2, 3, "rent")}, <<>>),
     World(4, 4, {Rec(3, "transfer", "x", "y", 2, 4, 3, 2, "none")}, <<2, 3, 4>>)}

Custom(events, off) == [type |-> "custom", events |-> events, off |-> off]
Move(month, a, amt) == [month |-> month, acct |-> a, amt |-> amt]

\* A trip, a purchase on credit and one in cash, a retirement, events that undo
\* each other within a month or from month to month, and switched-off series.
SomeScenarios ==
    {[type |-> "trip", day |-> 5, acct |-> "x", lump |-> 9],
     [type |-> "purchase", day |-> 2, acct |-> "x", down |-> 2, price |-> 6,
      financed |-> TRUE, principal |-> 4, rate |-> 0, term |-> 2, first |-> 5, payer |-> "y"],
     [type |-> "purchase", day |-> 2, acct |-> "x", down |-> 2, price |-> 6,
      financed |-> FALSE],
     [type |-> "retirement", acct |-> "y", monthly |-> 2,
      curve |-> <<[day |-> 4, monthly |-> 3]>>, return |-> 1, inflation |-> 1,
      target |-> 9, until |-> 9],
     Custom(<<Move(0, "x", -12), Move(0, "x", 12)>>, {}),
     Custom([k \in 1 .. 4 |-> Move(k - 1, "x", <<-12, 12, -12, 14>>[k])], {}),
     Custom(<<Move(1, "y", -7)>>,
            {[from |-> 1, to |-> 1, open |-> FALSE, kind |-> "expense", cats |-> {"rent"}],
             [from |-> 2, to |-> 9, open |-> TRUE, kind |-> "income", cats |-> {}]})}

\* The horizon of a trip is shorter than that of the others.
Longest == [t \in {"trip", "purchase", "retirement", "custom"} |->
               IF t = "trip" THEN 3 ELSE 4]

\* One plan is there at the start; another may join it.
First == CHOOSE p \in Plans : TRUE
Init ==
    /\ books \in FirstBooks
    /\ \E s \in Scenarios :
          plans = [p \in Plans |-> IF p # First THEN Absent
                                   ELSE [type |-> s.type, params |-> s,
                                         horizon |-> HorizonMax[s.type]]]
    /\ shown = [p \in Plans |-> Absent]
    /\ job = Idle
    /\ acts = 0
Spec == Init /\ [][SimNext]_simVars
====
