----------------------------- MODULE MCPlanning -----------------------------
(* What is planned and foreseen: forecast plans and budgets, billing periods, *)
(* the projection of balances and the what-if scenarios, on small instances.  *)
(* The parts share no state that a property below relates: a projection reads *)
(* the ledger, whose rows it is given.  A behaviour exercises one part, its   *)
(* focus; the variables of the others are Off.                                *)
EXTENDS MCSimulation, TLC

CONSTANTS
    Requests,   \* of plans and periods
    PlanPeriods, Cats, Budgeted, ParentOf, BudgetAmounts, MaxBudget,
    MonthStart, CycleDays, FutureCount, MaxSteps, MaxRows, HandMade, CloseDates,
    MaxWipes,
    BookMonth, Start, Today, FirstEnd, LastDay, DailyMonths, CloseDay, PayDelay,
    LoanDay, Term, Payment, Rate, MaxBookRows,
    FirstRows, FirstTemplates, FirstOpenings, FirstCards

VARIABLES
    focus,    \* the part that is exercised
    plan, item, granularity, planEdit, amount, proposal,
    period, budget, cycleDay, today, req, stale, wipes,
    rows, series, opening, card, seen, mayMove

P == INSTANCE Plans WITH Amounts <- BudgetAmounts, PlanEdits <- Requests
B == INSTANCE Periods
F == INSTANCE Projection
     WITH Month <- BookMonth, Horizon <- LastDay, MaxRows <- MaxBookRows, shown <- seen

ASSUME PlanningAssumption ==
    P!PlansAssumption /\ B!PeriodsAssumption /\ F!ProjectionAssumption /\ SimulationAssumption

Off == "off"
plansVars == <<plan, item, granularity, planEdit, amount, proposal>>
periodsVars == <<period, budget, cycleDay, today, req, stale, wipes>>
bookVars == <<rows, series, opening, card, seen, mayMove>>
planningVars == <<focus, plansVars, periodsVars, bookVars, simVars>>

-----------------------------------------------------------------------------
(* The instances; those of scenarios are in MCSimulation.                     *)

\* The projections' month is six days; the window starts on day 6 and today is
\* day 8.  Nothing is there at first, an overdue row, a charge of the card, or a
\* planned payment to it.
FirstRow(a, d, amt, st, in) ==
    [id |-> <<a, 0>>, acct |-> a, day |-> d, date |-> d, amt |-> amt, st |-> st,
     series |-> 0, in |-> in]
BookRows ==
    {{},
     {FirstRow("cash", 7, -6, "pending", FALSE)},
     {FirstRow("card", 9, -5, "settled", FALSE)},
     {FirstRow("card", 12, 3, "pending", TRUE), FirstRow("cash", 12, -3, "pending", FALSE)}}

\* A salary, purchases on the card, payments to the card and to the loan.
Template(id, from, to, amt, freq, due, left) ==
    [id |-> id, from |-> from, to |-> to, amt |-> amt, freq |-> freq, due |-> due,
     left |-> left]
BookTemplates ==
    {{s} : s \in
        {Template(1, "cash", "none", 10, 6, 9, -1),
         Template(1, "card", "none", -3, 6, 8, -1),
         Template(1, "cash", "card", 4, 6, 7, 3),
         Template(1, "cash", "loan", 5, 6, 8, 2),
         Template(1, "card", "none", -2, 4, 3, 4)}}

BookOpenings == {[cash |-> 50, card |-> -8, loan |-> -13]}

\* A card in debt that pays what a cycle owes, with or without an amount of its
\* own for one cycle, or a fixed amount.
BookCards ==
    {[fixed |-> 0, cycle |-> c, amount |-> 2, payable |-> TRUE] : c \in {-1, 1}}
    \union {[fixed |-> 3, cycle |-> -1, amount |-> 0, payable |-> TRUE]}

\* A master and its subcategory.
Tree == (1 :> 1) @@ (2 :> 1)

\* Three months of two days.
Calendar == <<1, 3, 5, 7>>

\* An open window (its end is 0) in the past of the first today, a closed one
\* after it.
Windows == {[start |-> 2, end |-> 0], [start |-> 4, end |-> 5]}

-----------------------------------------------------------------------------
(* One part at a time. *)

NoPlans == /\ plan = Off /\ item = Off /\ granularity = Off /\ planEdit = Off
           /\ amount = Off /\ proposal = Off
NoPeriods == /\ period = Off /\ budget = Off /\ cycleDay = Off /\ today = Off
             /\ req = Off /\ stale = Off /\ wipes = Off
NoBooks == /\ rows = Off /\ series = Off /\ opening = Off /\ card = Off
           /\ seen = Off /\ mayMove = Off
NoScenarios == books = Off /\ plans = Off /\ shown = Off /\ job = Off /\ acts = Off

PlanningInit ==
    /\ focus \in {"plans", "budgets", "periods", "projection", "scenarios"}
    /\ IF focus \in {"plans", "budgets"} THEN P!PlansInit ELSE NoPlans
    /\ IF focus = "periods" THEN B!PeriodsInit ELSE NoPeriods
    /\ IF focus = "projection" THEN F!BookInit ELSE NoBooks
    /\ IF focus = "scenarios" THEN Init ELSE NoScenarios

OthersThanPlans == UNCHANGED <<focus, periodsVars, bookVars, simVars>>
PlanStep == focus = "plans" /\ P!PlanNext /\ OthersThanPlans
BudgetStep == focus = "budgets" /\ P!BudgetNext /\ OthersThanPlans

PeriodStep ==
    focus = "periods" /\ B!PeriodsNext /\ UNCHANGED <<focus, plansVars, bookVars, simVars>>

ProjectionStep ==
    /\ focus = "projection" /\ F!BookNext
    /\ UNCHANGED <<focus, plansVars, periodsVars, simVars>>

ScenarioStep ==
    focus = "scenarios" /\ SimNext /\ UNCHANGED <<focus, plansVars, periodsVars, bookVars>>

PlanningNext ==
    PlanStep \/ BudgetStep \/ PeriodStep \/ ProjectionStep \/ ScenarioStep
PlanningSpec == PlanningInit /\ [][PlanningNext]_planningVars

\* Requests are interchangeable.
Symmetry == Permutations(Requests)

\* Bounds.  Plans: the previous period's plan is a source for copies, edited by
\* one request at a time and only by hand; budgets with other amounts than those
\* of the inputs are not rebalanced again.
PlansFollowed ==
    /\ plan["previous"] # "active"
    /\ \A c \in Cats : item["previous"][c] # "auto"
    /\ \A p \in Requests : planEdit[p].period = "previous" =>
          \A q \in Requests \ {p} : planEdit[q].kind = "idle"
    /\ amount \in [Budgeted -> BudgetAmounts]

\* Periods: a roster damaged by a racing insert is checked and not followed, and
\* after a reset only the requests that were in flight are.
PeriodsFollowed == ~ stale /\ (wipes > 0 => B!Rows(period) = {})

Followed ==
    /\ focus \in {"plans", "budgets"} => PlansFollowed
    /\ focus = "periods" => PeriodsFollowed

-----------------------------------------------------------------------------
(* What holds.  Each of these names the invariants of one module, which       *)
(* explains them.                                                             *)

\* Plans and budgets: items belong to a plan, and a suggested rebalance moves
\* every cent that can move and makes none (budget_rebalance_service).
PlansSafe == focus \in {"plans", "budgets"} => P!PlansTypeOK /\ P!SuggestionSound

\* Billing periods: no day is in two periods, budgets end with their period and
\* the report of anomalies is exact (billing_service).
PeriodsSafe ==
    focus = "periods" =>
        B!PeriodsTypeOK /\ B!NoDoubleDay /\ B!BudgetEndFollows /\ B!AnomaliesExact

\* Projections: no projected payment turns a debt into a credit
\* (projection_service).
ProjectionSafe ==
    focus = "projection" => F!BookTypeOK /\ F!NeverIntoCredit

\* Scenarios: the last point is what the events add up to and the verdict agrees
\* with the points (scenario_engine).
ScenariosSafe ==
    focus = "scenarios" => SimTypeOK /\ EndsAsCounted /\ VerdictFollowsPoints

\* A projection that is asked for again, after days passed and rows were settled
\* as it foresaw, is the same (projection_service).
ForecastHolds == [][focus = "projection" => F!ForecastHolds]_planningVars

\* The commit of an edit, whatever other requests did to the plan since it was
\* read: what was entered by hand stays, a refresh brings back what the sources
\* still give, and no fill counts a family twice (forecast_plan_service).
PlansKept ==
    [][focus = "plans" => P!ManualKept /\ P!RefreshReturns /\ P!FillsCountOnce]_planningVars

\* A rebalance keeps the total of the budgets it redistributes, and the close of
\* a period hands over to the one that follows it.
TotalsAndDaysKept ==
    [][ /\ focus = "budgets" => P!RebalanceKeepsTotal
        /\ focus = "periods" => B!CloseHandsOver ]_planningVars
=============================================================================
