---- MODULE Projection ----
\* The projection of the account balances (services/projection_kernel.py)
\* from the rows and series that are there, and what may move it: generation,
\* settlement, and a person who records what was projected. Days are numbers
\* and months have one length; one account of each kind; amounts are signed
\* and debt is negative. Rounding is modelled for the loan's interest.
EXTENDS Integers, FiniteSets, FiniteSetsExt
CONSTANTS Month, Start, Today, FirstEnd, Horizon,   \* window_start, today, first_period_end, horizon_end
          DailyMonths,                              \* DAILY_MONTHS
          CloseDay, PayDelay,                       \* the card's cycle
          LoanDay, Term, Payment, Rate,             \* the loan's schedule, its PMT, percent a month
          FirstRows, FirstTemplates, FirstOpenings, FirstCards,   \* what a behaviour may begin with
          MaxRows
VARIABLES rows,      \* the transactions, pending and settled
          series,    \* the recurring templates: frontier and instalments left
          opening,   \* the opening balances
          card,      \* what the card pays: its fixed amount, a cycle's own amount, its source
          shown,     \* the projection as it was last asked for
          mayMove    \* something that is known to move it happened since
bookVars == <<rows, series, opening, card, shown, mayMove>>
AccountNames == {"cash", "card", "loan"}
\* What is asked of the constants: whole days and amounts, a payment after its
\* close, no cycle before the first with a payment in the window, transfers of
\* no negative amount between two accounts.
Templates ==
    [id : Nat \ {0}, from : AccountNames, to : AccountNames \union {"none"}, amt : Int,
     freq : Nat \ {0}, due : Int, left : Nat \union {-1}]
TemplateOk(s) == s \in Templates /\ (s.to # "none" => s.amt >= 0 /\ s.from # s.to)
RowOk(r) ==
    /\ r \in [id : AccountNames \X Nat, acct : AccountNames, day : Int, date : Int, amt : Int,
               st : {"pending", "settled"}, series : Nat, in : BOOLEAN]
    /\ r.in => r.amt >= 0
RowsOk(S) ==
    /\ IsFiniteSet(S)
    /\ \A r \in S : RowOk(r) /\ r.id[2] <= Cardinality(S)
    /\ \A r, q \in S : r.id = q.id => r = q
ProjectionAssumption ==
    /\ Month \in Nat \ {0} /\ Horizon \in Nat /\ DailyMonths \in Nat /\ MaxRows \in Nat
    /\ Start \in Int /\ Today \in Int /\ FirstEnd \in Int /\ Start <= FirstEnd
    /\ CloseDay \in Int /\ PayDelay \in Nat \ {0} /\ CloseDay + PayDelay \in 0 .. Start + Month - 1
    /\ LoanDay \in Int /\ Term \in Nat /\ Payment \in Nat /\ Rate \in Nat
    /\ \A S \in FirstRows : RowsOk(S)
    /\ \A S \in FirstTemplates : IsFiniteSet(S) /\ \A s, t \in S : TemplateOk(s) /\ (s.id = t.id => s = t)
    /\ FirstOpenings \subseteq [AccountNames -> Int]
    /\ FirstCards \subseteq [fixed : Int, cycle : Int, amount : Int, payable : BOOLEAN]
Larger(a, b) == IF a < b THEN b ELSE a
Smaller(a, b) == IF a < b THEN a ELSE b
Amounts(S) == LET amt == [e \in S |-> e.amt] IN MapThenSumSet(LAMBDA e : amt[e], S)
Of(a, S) == {e \in S : e.acct = a}
Until(d, S) == {e \in S : e.day <= d}
Within(a, b, S) == {e \in S : a <= e.day /\ e.day <= b}

WalkStart == Smaller(Larger(Start, Today), Horizon)
Balance(a) == opening[a] + Amounts({r \in Of(a, rows) : r.st = "settled"})
Pending == {r \in Within(Start, Horizon, rows) : r.st = "pending"}

\* occurrences_in_window: instalments are also spent on the way to the window.
OccurrencesIn(s) ==
    {d \in {s.due + k * s.freq : k \in 0..(IF s.left < 0 THEN (Horizon - s.due) \div s.freq ELSE s.left - 1)} : Start <= d /\ d <= Horizon}
\* An occurrence that has its row is not projected.
Unwritten(s, d) == ~\E r \in rows : r.series = s.id /\ r.date = d
Leg(s, d, a, amt, in) == [id |-> <<"due", s.id, d>>, acct |-> a, day |-> d, amt |-> amt, in |-> in]
LegsOf(s, d) ==
    IF s.to = "none" THEN {Leg(s, d, s.from, s.amt, FALSE)}
    ELSE {Leg(s, d, s.from, -s.amt, FALSE), Leg(s, d, s.to, s.amt, TRUE)}
Upcoming == UNION {UNION {LegsOf(s, d) : d \in {e \in OccurrencesIn(s) : Unwritten(s, e)}} : s \in series}

\* The card's cycles with a payment in the horizon. A cycle due in the first
\* period bills only rows, but for the transfers into the card ("up" is Upcoming).
Close(k) == CloseDay + k * Month
Pay(k) == Close(k) + PayDelay
LastCycle == Horizon \div Month
CyclesDue == {k \in 0..LastCycle : Start <= Pay(k) /\ Pay(k) <= Horizon}
RowsAlone(up) == Of("card", rows)
CardLedger(up) == Of("card", rows) \union {e \in Of("card", up) : e.in}
Charges(up) == {e \in Of("card", up) : ~e.in}
OwedAt(k, ledger, charges) ==
    Larger(0, -(opening["card"] + Amounts(Until(Close(k), ledger))
                + (IF Pay(k) > FirstEnd THEN Amounts(Until(Close(k), charges)) ELSE 0)))
Target(k, owed) ==
    IF card.cycle = k THEN card.amount
    ELSE IF card.fixed > 0 THEN card.fixed ELSE owed
\* Mutant: what earlier cycles pay is not taken from what is owed.
OwedWhole(target, owed, before) == Smaller(target, owed)
\* Mutant: it is taken from what the card is set to pay.
CappedTarget(target, owed, before) == Smaller(target, owed) - before
\* What earlier cycles of the horizon were projected to pay comes off what is
\* owed; each credit pays toward one cycle.
Capped(target, owed, before) == Smaller(target, owed - before)
CardCycle(k, w, ledger, charges) ==
    LET owed == OwedAt(k, ledger, charges)
        credit == {e \in ledger : e.in /\ e.id \notin w.used /\ Close(k) < e.day /\ e.day <= Pay(k)}
        out == Larger(0, Capped(Target(k, owed), owed, w.before) - Amounts(credit))
    IN  IF k \notin CyclesDue THEN w
        ELSE [before |-> w.before + out,
              used |-> w.used \union {e.id : e \in credit},
              pays |-> IF out > 0 THEN w.pays \union {[day |-> Pay(k), amt |-> out]} ELSE w.pays]
CardPays(ledger, charges) ==
    LET walk[k \in -1..LastCycle] ==
          IF k = -1 THEN [before |-> 0, used |-> {}, pays |-> {}]
          ELSE CardCycle(k, walk[k - 1], ledger, charges)
    IN  IF card.payable THEN walk[LastCycle].pays ELSE {}

\* The loan, period by period: the first as it stands, each later one after
\* the legs of the one before it and a month's interest.
LastPeriod == Larger(0, (Horizon - FirstEnd + Month - 1) \div Month)
From(p) == IF p = 0 THEN Start ELSE FirstEnd + (p - 1) * Month + 1
To(p) == Smaller(FirstEnd + p * Month, Horizon)
DueIn(p) == {d \in {LoanDay + k * Month : k \in 0..(Term - 1)} : From(p) <= d /\ d <= To(p)}
Earliest(S) == CHOOSE d \in S : \A e \in S : d <= e
\* Recurring transfers pay a period only together, and once they reach the PMT.
PaidIn(p, into) ==
    LET legs == Within(From(p), To(p), into)
    IN  (\E r \in legs : r.series = 0) \/ Amounts(legs) >= Payment
Interest(balance, p) == IF p > 0 /\ DueIn(p) # {} /\ balance < 0 THEN (-balance * Rate + 50) \div 100 ELSE 0
NoLegsBefore(p, legs) == 0
LegsBefore(p, legs) == IF p = 0 THEN 0 ELSE Amounts(Within(From(p - 1), From(p) - 1, legs))
LoanPeriod(p, w, legs, into) ==
    LET basis == w.balance + LegsBefore(p, legs)
        accrued == Interest(basis, p)
        owed == Larger(0, -(basis - accrued + Amounts(Within(From(p), To(p), legs))))
        pay == IF PaidIn(p, into) \/ DueIn(p) = {} THEN 0 ELSE Smaller(Payment, owed)
        On(amt) == IF amt > 0 THEN {[day |-> Earliest(DueIn(p)), amt |-> amt]} ELSE {}
    IN  [balance |-> basis - accrued + pay, pays |-> w.pays \union On(pay), interest |-> w.interest \union On(accrued)]
LoanLegs(up) == Of("loan", Pending) \union Of("loan", up)
LoanWalk(up) ==
    LET legs == LoanLegs(up)
        into == {r \in Of("loan", rows) : r.in} \union {[series |-> e.id[2], id |-> e.id, acct |-> e.acct, day |-> e.day, amt |-> e.amt] : e \in {x \in Of("loan", up) : x.in}}
        walk[p \in -1..LastPeriod] ==
          IF p = -1 THEN [balance |-> Balance("loan"), pays |-> {}, interest |-> {}]
          ELSE LoanPeriod(p, walk[p - 1], legs, into)
    IN  walk[LastPeriod]

\* Day 0 leaves out what is settled ahead in the first period; the walk lays it
\* on its day. Whatever is due earlier lands on day 0.
SettledAhead == {r \in Within(WalkStart + 1, Smaller(FirstEnd, Horizon), rows) : r.st = "settled"}
DailyEnd == Smaller(Horizon, Larger(FirstEnd, (WalkStart \div Month + DailyMonths) * Month - 1))
Walked == {d \in WalkStart..Horizon : d <= DailyEnd \/ (d + 1) % Month = 0 \/ d = Horizon}
Projected(up, cardPays, loan) ==
    [a \in AccountNames |->
       LET booked == Of(a, Pending) \union Of(a, up) \union Of(a, SettledAhead)
           seed == Balance(a) - Amounts(Of(a, SettledAhead))
           paid(d) == CASE a = "cash" -> -Amounts(Until(d, cardPays)) - Amounts(Until(d, loan.pays))
                        [] a = "card" -> Amounts(Until(d, cardPays))
                        [] a = "loan" -> Amounts(Until(d, loan.pays)) - Amounts(Until(d, loan.interest))
       IN  [d \in Walked |-> seed + Amounts(Until(d, booked)) + paid(d)]]
CardPayments == LET up == Upcoming IN CardPays(CardLedger(up), Charges(up))
LoanPayments == LoanWalk(Upcoming).pays
Points == LET up == Upcoming IN Projected(up, CardPays(CardLedger(up), Charges(up)), LoanWalk(up))

Row(id, a, d, amt, st, of, in) == [id |-> id, acct |-> a, day |-> d, date |-> d, amt |-> amt, st |-> st, series |-> of, in |-> in]
NewId == Cardinality(rows) + 1
\* A charge to the card counts for a cycle due in the first period only once
\* it is a row, as on the dashboard.
LateCharge(s) == s.from = "card" /\ s.to = "none" /\ \E k \in CyclesDue : Pay(k) <= FirstEnd /\ s.due <= Close(k)
\* Generation writes the occurrence at the frontier, unless it has its row.
Generate(s) ==
    /\ s.left # 0
    /\ s.due <= Horizon
    /\ NewId < MaxRows
    /\ rows' = rows \union (IF Unwritten(s, s.due)
                            THEN {Row(<<l.acct, NewId>>, l.acct, l.day, l.amt, "pending", s.id, l.in) : l \in LegsOf(s, s.due)}
                            ELSE {})
    /\ series' = (series \ {s}) \union {[s EXCEPT !.due = @ + s.freq, !.left = IF @ > 0 THEN @ - 1 ELSE @]}
    /\ mayMove' = (mayMove \/ LateCharge(s))
    /\ UNCHANGED <<opening, card, shown>>
\* A row is settled on the day it was planned for. Past the first period it
\* is in the seed at once; from before the window it was not projected at all.
Settle(r) ==
    /\ r.st = "pending"
    /\ rows' = (rows \ {r}) \union {[r EXCEPT !.st = "settled"]}
    /\ mayMove' = (mayMove \/ r.day > FirstEnd \/ r.day < Start)
    /\ UNCHANGED <<series, opening, card, shown>>
\* A person records a payment that was projected, as a transfer from the source.
RecordPayment(a, p) ==
    /\ NewId < MaxRows
    /\ \E st \in {"pending"} \union (IF p.day <= FirstEnd THEN {"settled"} ELSE {}) :
         rows' = rows \union {Row(<<"cash", NewId>>, "cash", p.day, -p.amt, st, 0, FALSE),
                              Row(<<a, NewId>>, a, p.day, p.amt, st, 0, TRUE)}
    /\ UNCHANGED <<series, opening, card, shown, mayMove>>
Ask ==
    /\ shown' = Points
    /\ mayMove' = FALSE
    /\ UNCHANGED <<rows, series, opening, card>>
BookInit ==
    /\ rows \in FirstRows
    /\ series \in FirstTemplates
    /\ opening \in FirstOpenings
    /\ card \in FirstCards
    /\ shown = Points
    /\ mayMove = FALSE
BookNext ==
    \/ \E s \in series : Generate(s)
    \/ \E r \in rows : Settle(r)
    \/ \E p \in CardPayments : RecordPayment("card", p)
    \/ \E p \in LoanPayments : RecordPayment("loan", p)
    \/ Ask

BookTypeOK ==
    /\ \A r \in rows : r.acct \in AccountNames /\ r.st \in {"pending", "settled"} /\ r.amt \in Int
    /\ \A r, q \in rows : r.id = q.id => r = q
    /\ DOMAIN shown = AccountNames

\* The projection does not move when generation runs, when a row is settled on
\* its day, or when somebody records a payment that was projected: nothing is
\* counted twice and nothing is lost between the row and its forecast.
ForecastHolds == shown' # shown => mayMove
\* No projected payment turns a debt into a credit: after the payment of a
\* period and all that is booked in it, the loan is still not above zero; and
\* the payments up to a cycle's are no more than the card owed at its close.
NeverIntoCredit ==
    LET up == Upcoming
        loan == LoanWalk(up)
        ledger == CardLedger(up)
        pays == CardPays(ledger, Charges(up))
    IN  /\ \A p \in 0..LastPeriod :
             (\E e \in loan.pays : From(p) <= e.day /\ e.day <= To(p)) =>
                 Balance("loan") + Amounts(Until(To(p), LoanLegs(up))) + Amounts(Until(To(p), loan.pays))
                     - Amounts(Until(To(p), loan.interest)) <= 0
        /\ \A p \in pays : \A k \in CyclesDue :
             Pay(k) = p.day => Amounts(Until(p.day, pays)) <= OwedAt(k, ledger, Charges(up))
====
