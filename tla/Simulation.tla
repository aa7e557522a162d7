---- MODULE Simulation ----
\* Scenarios and their month-by-month simulation (services/scenario_engine.py,
\* routers/scenarios.py): what a member saves, the books as a request reads
\* them, and the projection it computes on a worker thread while other
\* requests go on. Amounts are whole, rates are tenths a month, day 0 is the
\* first of the month in which a simulation starts.
EXTENDS Integers, Sequences, FiniteSets, FiniteSetsExt
CONSTANTS Plans, Accounts,
          Scenarios,    \* the parameters a request may send
          Horizons,     \* the horizons a request may ask for
          HorizonMax,   \* the longest horizon of each type of scenario
          Month,        \* days in a month
          FirstBooks,   \* the books a behaviour may begin with
          MaxCompared,  \* COMPARE_MAX_SCENARIOS
          MaxActs       \* bound on edits and on changes of the books
VARIABLES books,     \* balances, series and a year of net cash flow
          plans,     \* the scenario rows: parameters, horizon, whether a draft
          shown,     \* the projection saved on each row
          job,       \* the simulation or comparison that runs
          acts
simVars == <<books, plans, shown, job, acts>>

\* What is asked of the constants: whole amounts and days, and names of series
\* that tell them apart. An instalment is what the plan's own figures give.
FirstSeries == UNION {w.series : w \in FirstBooks}
Recurrence ==
    [id : {r.id : r \in FirstSeries}, kind : {"income", "expense", "transfer"},
     acct : {r.acct : r \in FirstSeries}, to : {r.to : r \in FirstSeries}, amt : Int,
     freq : Nat \ {0}, due : Int, left : Nat \union {-1}, cat : {r.cat : r \in FirstSeries}]
Books == [bal : [Accounts -> Int], series : SUBSET Recurrence, history : [Accounts -> Seq(Int)]]
BooksOk(w) ==
    /\ w \in Books /\ IsFiniteSet(w.series)
    /\ \A r, q \in w.series : r.id = q.id => r = q
ScenarioTypes == {"trip", "purchase", "retirement", "custom"}
Absent == [type |-> "none"]
Idle == [todo |-> <<>>]
Entry(a, amt) == [acct |-> a, amt |-> amt]
\* What a request reads: the accounts, the series and the net cash flow of each
\* account, frozen while the plan is simulated.
WorldState == [bal |-> books.bal, series |-> books.series, history |-> books.history]
\* A projection as it is saved and shown.
ProjectionResult ==
    [type : {"result"}, points : Seq([Accounts -> Int]), verdict : {"green", "yellow", "red"},
     alerts : SUBSET [acct : Accounts, m : Nat],
     suggestion : {"none", "later_or_cheaper", "larger_down_or_longer", "save_more"}]
SumOver(f) == MapThenSumSet(LAMBDA x : f[x], DOMAIN f)

\* A trip is one lump, a purchase a down payment and its instalments or its
\* price at once, a custom plan one-off amounts.
Amortised(f) == IF f.rate = 0 THEN f.principal \div f.term
                ELSE (f.principal * f.rate * (10 + f.rate)^f.term) \div (10 * ((10 + f.rate)^f.term - 10^f.term))
ScenarioOk(s) ==
    CASE s.type = "trip" -> s.day \in Int /\ s.lump \in Int
      [] s.type = "purchase" ->
           s.day \in Int /\ (IF s.financed THEN s.down \in Int /\ s.first \in Int /\ s.term \in Nat /\ Amortised(s) \in Int
                             ELSE s.price \in Int)
      [] s.type = "retirement" -> s.monthly \in Int /\ s.return \in Int /\ s.curve \in Seq([day : Int, monthly : Int])
      [] s.type = "custom" -> s.events \in Seq([month : Nat, acct : {s.events[k].acct : k \in DOMAIN s.events}, amt : Int])
SimulationAssumption ==
    /\ IsFiniteSet(Accounts) /\ Month \in Nat \ {0} /\ MaxCompared \in Nat /\ MaxActs \in Nat
    /\ Horizons \subseteq Nat \ {0} /\ \A t \in ScenarioTypes : HorizonMax[t] \in Nat \ {0}
    /\ \A w \in FirstBooks : BooksOk(w)
    /\ \A s \in Scenarios : s.type \in ScenarioTypes /\ ScenarioOk(s)
When(day, m) == day \div Month = m
OneOffs(s, m) ==
    [k \in {i \in DOMAIN s.events : s.events[i].month = m} |->
        Entry(s.events[k].acct, s.events[k].amt)]
\* The events of a month, by their place in its order.
Events(s, m) ==
    CASE s.type = "trip" -> IF s.lump > 0 /\ When(s.day, m) THEN <<Entry(s.acct, -s.lump)>> ELSE <<>>
      [] s.type = "purchase" ->
           (IF ~When(s.day, m) THEN <<>> ELSE <<Entry(s.acct, IF s.financed THEN -s.down ELSE -s.price)>>)
           \o (IF s.financed /\ s.first \div Month <= m /\ m < s.first \div Month + s.term
               THEN <<Entry(s.payer, -Amortised(s))>> ELSE <<>>)
      [] s.type = "custom" -> OneOffs(s, m)
      [] OTHER -> <<>>
Silenced(s, r, m) ==
    s.type = "custom" /\ \E o \in s.off : o.from <= m /\ m <= o.to /\ o.kind = r.kind /\ (o.cats = {} \/ r.cat \in o.cats)
\* The last step of the curve whose month has come.
Contribution(s, m) ==
    LET due == {k \in DOMAIN s.curve : s.curve[k].day <= m * Month}
    IN  IF due = {} THEN s.monthly ELSE s.curve[Max(due)].monthly
\* The slope of a least-squares line through a year of net cash flow.
Slope(y) ==
    LET n == Len(y)
    IN  IF n < 2 THEN 0
        ELSE (6 * SumOver([i \in 1..n |-> (2 * i - n - 1) * y[i]])) \div (n * (n * n - 1))

LegsOf(r) == CASE r.kind = "transfer" -> {Entry(r.acct, -r.amt), Entry(r.to, r.amt)}
               [] r.kind = "expense" -> {Entry(r.acct, -r.amt)}
               [] OTHER -> {Entry(r.acct, r.amt)}
Posted(a, entries) == SumOver([e \in {l \in entries : l.acct = a} |-> e.amt])
\* An occurrence spends an instalment whether it is posted, silenced or
\* before the first month.
Falls(r, m) == {k \in 0..(Month * (m + 1) - r.due) : r.due + k * r.freq < Month * (m + 1)}
Reached(r, m) == IF r.left < 0 THEN Cardinality(Falls(r, m)) ELSE Min({r.left, Cardinality(Falls(r, m))})
InMonth(r, m) == {k \in 0..(Reached(r, m) - 1) : r.due + k * r.freq >= Month * m}
SpendsWhenPosted(s, r, m) == IF Silenced(s, r, m) THEN 0 ELSE Cardinality(InMonth(r, m))
Spends(s, r, m) == Reached(r, m)
Advanced(s, r, m) ==
    [r EXCEPT !.due = @ + Reached(r, m) * r.freq, !.left = IF @ < 0 THEN @ ELSE @ - Spends(s, r, m)]
Recurring(s, queue, m, a) ==
    SumOver([r \in queue |-> IF Silenced(s, r, m) THEN 0 ELSE Cardinality(InMonth(r, m)) * Posted(a, LegsOf(r))])

\* Every simulation starts from the request's snapshot of the books; the
\* frontiers and instalments ride in its queue.
Drained(world, last) ==
    [m |-> 0, bal |-> world.bal, queue |-> last.queue, points |-> <<>>, real |-> <<>>, alerts |-> {},
     streak |-> [a \in Accounts |-> 0], longest |-> [a \in Accounts |-> 0], dipped |-> {}]
Fresh(world, last) ==
    [m |-> 0, bal |-> world.bal, queue |-> world.series, points |-> <<>>, real |-> <<>>, alerts |-> {},
     streak |-> [a \in Accounts |-> 0], longest |-> [a \in Accounts |-> 0], dipped |-> {}]
NeverReset(n, b) == IF b < 0 THEN n + 1 ELSE n
Streak(n, b) == IF b < 0 THEN n + 1 ELSE 0
EventsOf(evs, a) == SumOver([i \in {j \in DOMAIN evs : evs[j].acct = a} |-> evs[i].amt])
UpTo(evs, k) == [i \in {j \in DOMAIN evs : j <= k} |-> evs[i]]
\* The series, then the events one by one with their alerts, then the
\* contribution and its interest, then the drift, then the point.
MonthOf(s, run, world, smooth) ==
    LET m == run.m
        evs == Events(s, m)
        base == [a \in Accounts |-> run.bal[a] + Recurring(s, run.queue, m, a)]
        after == [a \in Accounts |-> base[a] + EventsOf(evs, a)]
        saves(a) == s.type = "retirement" /\ s.acct = a
        grown == [a \in Accounts |-> IF saves(a) THEN ((after[a] + Contribution(s, m)) * (10 + s.return)) \div 10 ELSE after[a]]
        bal == [a \in Accounts |-> grown[a] + (IF smooth THEN Slope(world.history[a]) ELSE 0)]
        streak == [a \in Accounts |-> Streak(run.streak[a], bal[a])]
    IN  [m |-> m + 1, bal |-> bal,
         queue |-> {Advanced(s, r, m) : r \in run.queue},
         points |-> Append(run.points, bal),
         real |-> IF s.type = "retirement" /\ s.acct \in Accounts
                  THEN Append(run.real, (bal[s.acct] * 10^(m + 1)) \div (10 + s.inflation)^(m + 1)) ELSE <<>>,
         alerts |-> run.alerts \union
                    {[acct |-> a, m |-> m] : a \in {b \in Accounts : \E i \in DOMAIN evs :
                        evs[i].acct = b /\ base[b] + EventsOf(UpTo(evs, i), b) < 0}},
         streak |-> streak,
         longest |-> [a \in Accounts |-> Max({run.longest[a], streak[a]})],
         dipped |-> run.dipped \union {a \in Accounts : bal[a] < 0}]

\* The bands of the two verdicts.
GeneralVerdict(world, run) ==
    LET first == SumOver(world.bal)
        Below(percent) == first > 0 /\ 100 * SumOver(run.bal) < percent * first
    IN  IF (\E a \in Accounts : run.longest[a] > 1) \/ Below(50) THEN "red"
        ELSE IF run.dipped # {} \/ Below(80) THEN "yellow" ELSE "green"
AtTarget(s, run) == LET k == s.until \div Month + 1 IN run.real[IF k \in DOMAIN run.real THEN k ELSE Len(run.real)]
RetirementVerdict(s, run) ==
    IF run.real = <<>> \/ s.target <= 0 \/ AtTarget(s, run) >= s.target THEN "green"
    ELSE IF 100 * (s.target - AtTarget(s, run)) <= 15 * s.target THEN "yellow" ELSE "red"
Verdict(s, world, run) ==
    IF s.type = "retirement" THEN RetirementVerdict(s, run) ELSE GeneralVerdict(world, run)
\* What to change: the contribution that reaches the target over the horizon.
Required(s, n) ==
    LET goal == (s.target * (10 + s.inflation)^n) \div 10^n
    IN  IF s.return = 0 THEN goal \div n
        ELSE (goal * s.return * 10^(n - 1)) \div ((10 + s.return)^n - 10^n)
Suggestion(s, colour, run) ==
    IF colour = "green" THEN "none"
    ELSE CASE s.type = "trip" -> "later_or_cheaper" [] s.type = "purchase" -> "larger_down_or_longer"
           [] s.type = "retirement" -> IF colour = "red" /\ Required(s, Max({Len(run.real), 1})) > s.monthly THEN "save_more" ELSE "none"
           [] OTHER -> "none"

\* What the schema refuses: steps of a curve out of order, a range that ends
\* before it starts.
CurveAscends(s) ==
    s.type = "retirement" => \A k \in 2..Len(s.curve) : s.curve[k - 1].day < s.curve[k].day
RangesOrdered(s) == s.type = "custom" => \A o \in s.off : o.open \/ o.from <= o.to
WellFormed(s) == CurveAscends(s) /\ RangesOrdered(s)
Within(s, h) == h <= HorizonMax[s.type]
ReferencesValid(s, h) ==
    s.type = "custom" => /\ \A k \in DOMAIN s.events : s.events[k].month < h /\ s.events[k].acct \in Accounts
                         /\ \A o \in s.off : o.from < h /\ (o.open \/ o.to < h)
Act == acts < MaxActs /\ acts' = acts + 1
Create(p) ==
    /\ Act
    /\ plans[p] = Absent
    /\ \E s \in Scenarios, h \in Horizons :
         /\ WellFormed(s) /\ Within(s, h) /\ ReferencesValid(s, h)
         /\ plans' = [plans EXCEPT ![p] = [type |-> s.type, params |-> s, horizon |-> h]]
    /\ shown' = [shown EXCEPT ![p] = Absent]
    /\ UNCHANGED <<books, job>>
\* Parameters are checked against the horizon of the row; a horizon that
\* changes alone is not checked against them. The saved projection stays.
Update(p) ==
    /\ Act
    /\ plans[p] # Absent
    /\ \E h \in Horizons, s \in Scenarios \union {plans[p].params} :
         /\ Within(plans[p].params, h)
         /\ s # plans[p].params => s.type = plans[p].type /\ WellFormed(s) /\ ReferencesValid(s, h)
         /\ plans' = [plans EXCEPT ![p].params = s, ![p].horizon = h]
    /\ UNCHANGED <<books, shown, job>>
Delete(p) ==
    /\ Act
    /\ plans[p] # Absent
    /\ plans' = [plans EXCEPT ![p] = Absent]
    /\ shown' = [shown EXCEPT ![p] = Absent]
    /\ UNCHANGED <<books, job>>
\* Generation moves the books while a projection is computed.
Generate(r) ==
    /\ Act
    /\ r.left # 0
    /\ books' = [books EXCEPT !.series = (@ \ {r}) \union {[r EXCEPT !.due = @ + r.freq, !.left = IF @ < 0 THEN @ ELSE @ - 1]},
                              !.bal = [a \in Accounts |-> @[a] + Posted(a, LegsOf(r))]]
    /\ UNCHANGED <<plans, shown, job>>
Task(p, h) == [plan |-> p, params |-> plans[p].params, horizon |-> h]
Started(tasks, save, smooth) ==
    LET world == WorldState
    IN  [todo |-> tasks, save |-> save, smooth |-> smooth, world |-> world,
         run |-> Fresh(world, [queue |-> world.series]), done |-> <<>>]
\* One plan, its result saved; or several against one snapshot, nothing saved.
Simulate(p) ==
    /\ job.todo = <<>>
    /\ plans[p] # Absent
    /\ \E h \in Horizons \union {plans[p].horizon}, smooth \in BOOLEAN :
         /\ Within(plans[p].params, h)
         /\ job' = Started(<<Task(p, h)>>, TRUE, smooth)
    /\ UNCHANGED <<books, plans, shown, acts>>
Compare ==
    /\ job.todo = <<>>
    /\ \E n \in 1..MaxCompared : \E ids \in [1..n -> {p \in Plans : plans[p] # Absent}] :
       \E h \in Horizons, smooth \in BOOLEAN :
         /\ \A k \in 1..n : Within(plans[ids[k]].params, h)
         /\ job' = Started([k \in 1..n |-> Task(ids[k], h)], FALSE, smooth)
    /\ UNCHANGED <<books, plans, shown, acts>>
NextMonth ==
    /\ job.todo # <<>>
    /\ job.run.m < Head(job.todo).horizon
    /\ job' = [job EXCEPT !.run = MonthOf(Head(job.todo).params, @, job.world, job.smooth)]
    /\ UNCHANGED <<books, plans, shown, acts>>
Result(task, run, world) ==
    LET colour == Verdict(task.params, world, run)
    IN  [type |-> "result", points |-> run.points, verdict |-> colour, alerts |-> run.alerts,
         suggestion |-> Suggestion(task.params, colour, run)]
Finish ==
    /\ job.todo # <<>>
    /\ LET task == Head(job.todo) IN
         /\ job.run.m = task.horizon
         /\ shown' = IF job.save /\ plans[task.plan] # Absent
                     THEN [shown EXCEPT ![task.plan] = Result(task, job.run, job.world)] ELSE shown
         /\ job' = IF Len(job.todo) = 1 THEN Idle
                   ELSE [job EXCEPT !.todo = Tail(@), !.run = Fresh(job.world, job.run), !.done = Append(@, task.plan)]
    /\ UNCHANGED <<books, plans, acts>>
SimNext ==
    \/ \E p \in Plans : Create(p) \/ Update(p) \/ Delete(p) \/ Simulate(p)
    \/ Compare \/ NextMonth \/ Finish
    \/ \E r \in books.series : Generate(r)
SimTypeOK ==
    /\ \A r \in books.series : r.left >= -1
    /\ \A p \in Plans : shown[p] = Absent \/ shown[p] \in ProjectionResult
    /\ \A p \in Plans : plans[p] # Absent => Within(plans[p].params, plans[p].horizon)
    /\ job.todo # <<>> => /\ job.run.m <= Head(job.todo).horizon
                          /\ Len(job.run.points) = job.run.m
                          /\ \A r \in job.run.queue : r.left >= -1

\* Every balance of a running simulation is what the books and the plan say,
\* counted occurrence by occurrence from the snapshot: a finished plan of
\* instalments is never billed again, a silenced or overdue one is spent, a
\* transfer moves money between two accounts, and the plans compared in one
\* request do not disturb each other.
Occurs(r, s, n, m) ==
    LET d == r.due + n * r.freq
    IN  (r.left < 0 \/ n < r.left) /\ 0 <= d /\ d < Month * m /\ ~Silenced(s, r, d \div Month)
Weight(r, a) ==
    (IF r.acct = a THEN IF r.kind = "income" THEN r.amt ELSE -r.amt ELSE 0)
    + (IF r.kind = "transfer" /\ r.to = a THEN r.amt ELSE 0)
CountedTo(s, world, smooth, a, m) ==
    world.bal[a]
    + SumOver([r \in world.series |->
                  Cardinality({n \in 0..(Month * m - r.due) : Occurs(r, s, n, m)}) * Weight(r, a)])
    + SumOver([k \in 0..(m - 1) |-> EventsOf(Events(s, k), a)])
    + (IF smooth THEN m * Slope(world.history[a]) ELSE 0)
EndsAsCounted ==
    job.todo # <<>> =>
      LET s == Head(job.todo).params
      IN  \A a \in Accounts : ~(s.type = "retirement" /\ s.acct = a) =>
            job.run.bal[a] = CountedTo(s, job.world, job.smooth, a, job.run.m)
\* The colour says what the points of the projection show: red when an account
\* is below zero two months in a row or less than half is left, green only
\* when no point is below zero and four fifths are left.
VerdictFollowsPoints ==
    (job.todo # <<>> /\ job.run.m = Head(job.todo).horizon /\ Head(job.todo).params.type # "retirement") =>
      LET pts == job.run.points
          Neg(k, a) == pts[k][a] < 0
          Extended == \E a \in Accounts, k \in 1..(Len(pts) - 1) : Neg(k, a) /\ Neg(k + 1, a)
          Some == \E a \in Accounts, k \in DOMAIN pts : Neg(k, a)
          Left(percent) == SumOver(job.world.bal) <= 0 \/ 100 * SumOver(pts[Len(pts)]) >= percent * SumOver(job.world.bal)
      IN  GeneralVerdict(job.world, job.run) =
            (IF Extended \/ ~Left(50) THEN "red" ELSE IF Some \/ ~Left(80) THEN "yellow" ELSE "green")
====
