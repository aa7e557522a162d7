------------------------------ MODULE Periods ------------------------------
(***************************************************************************)
(* The billing periods of one organisation and the budgets anchored at     *)
(* them: reading or opening the current period, planning future stubs,     *)
(* creating a window by hand, closing the open period from the UI or from  *)
(* the scheduler's billing_close job, and wiping the organisation's data.  *)
(*                                                                         *)
(* Requests run as transactions of InnoDB at REPEATABLE READ: plain reads  *)
(* come from the snapshot of the first one, FOR UPDATE and the writes see  *)
(* the committed rows.  A request is split at its snapshot and at its      *)
(* commit; between the lock of the open period and the commit a close      *)
(* decides from its snapshot only, so the two are one step.                *)
(*                                                                         *)
(* A period is identified by its start: (org, start_date) is unique and no *)
(* start ever moves.                                                       *)
(***************************************************************************)
EXTENDS Integers, Sequences, FiniteSetsExt

CONSTANTS
    Requests,     \* processes that serve requests and run the job
    MonthStart,   \* first day of each month, then the day after the calendar
    CycleDays,    \* days of the month a billing cycle may start on
    FutureCount,  \* stubs that ensure_future_periods asks for
    MaxSteps,     \* MAX_CONVERGENCE_STEPS of the job
    HandMade,     \* windows [start, end] that an admin may create
    CloseDates,   \* days an admin may close a period at
    MaxRows,      \* bound: no request inserts by hand beyond this many rows
    MaxWipes      \* bound: how often the organisation's data is reset

\* The calendar starts on day 1 and its months follow each other; the run starts
\* in the second of them.
PeriodsAssumption ==
    /\ MonthStart \in Seq(Nat) /\ Len(MonthStart) >= 3 /\ MonthStart[1] = 1
    /\ \A m, n \in 1 .. Len(MonthStart) : m < n => MonthStart[m] < MonthStart[n]
    /\ CycleDays \subseteq Nat \ {0}
    /\ FutureCount \in Nat /\ MaxSteps \in Nat /\ MaxWipes \in Nat /\ CloseDates \subseteq Int
    /\ \A w \in HandMade :
          /\ w.start \in 1 .. (MonthStart[Len(MonthStart)] - 1)
          /\ w.end \in 0 .. (MonthStart[Len(MonthStart)] - 1)

Dates == 1 .. (MonthStart[Len(MonthStart)] - 1)

\* end_date of a row: none at this start, NULL, or a day.
None == -1
Open == 0

VARIABLES
    period,    \* start date -> end date
    budget,    \* start date -> period_end of the budget anchored there
    cycleDay,  \* organizations.billing_cycle_day
    today,
    req,       \* per process: the request in progress
    stale,     \* history: a row was inserted by a request that did not see, or was
               \* not seen by, a concurrent write
    wipes      \* how often the data was reset

periodsVars == <<period, budget, cycleDay, today, req, stale, wipes>>

-----------------------------------------------------------------------------
(* The cycle grid. *)

Months == 1 .. (Len(MonthStart) - 1)
MonthOf(d) == CHOOSE m \in Months : MonthStart[m] <= d /\ d < MonthStart[m + 1]
MonthLength(m) == MonthStart[m + 1] - MonthStart[m]
Least(a, b) == IF a < b THEN a ELSE b
Greatest(a, b) == IF a < b THEN b ELSE a

\* _snap_to_cycle, in month m.
SnapToCycle(m, day) == MonthStart[m] + Least(day, MonthLength(m)) - 1

\* Start of current_cycle_window; the first month has none before it.
CurrentCycleStart(day, d) ==
    LET m == MonthOf(d)
    IN  IF SnapToCycle(m, day) > d /\ m > 1 THEN SnapToCycle(m - 1, day)
        ELSE Least(SnapToCycle(m, day), d)

-----------------------------------------------------------------------------
(* Reads of a roster r. *)

Rows(r) == {s \in Dates : r[s] # None}
OpenPeriods(r) == {s \in Dates : r[s] = Open}
CurrentOf(r) == Max(OpenPeriods(r))

Later(r, s) == {t \in Rows(r) : t > s}

\* period_effective_end, and kernel_derived_end of the complete roster: an open
\* row that has a successor ends the day before it.
EffectiveEnd(r, s) ==
    IF r[s] # Open THEN r[s]
    ELSE IF Later(r, s) = {} THEN Open
    ELSE Min(Later(r, s)) - 1

\* period_spend_window_end: a lapsed open period still counts up to today.
SpendWindowEnd(r, s) ==
    IF r[s] # Open \/ EffectiveEnd(r, s) = Open THEN EffectiveEnd(r, s)
    ELSE Greatest(EffectiveEnd(r, s), today)

Inverted(r, s) == r[s] # Open /\ r[s] < s

\* period_status, as the roster shows it.
PeriodStatus(r, s) ==
    CASE Inverted(r, s) -> "invalid"
      [] r[s] = Open    -> "open"
      [] s > today /\ r[s] >= s -> "upcoming"
      [] s <= today /\ today <= r[s] -> "current_by_calendar"
      [] OTHER -> "past"

\* Two rows of which the left one, by its effective end, reaches the right one.
Overlaps(r, s, t) ==
    /\ s < t
    /\ ~ Inverted(r, s)
    /\ ~ Inverted(r, t)
    /\ EffectiveEnd(r, s) # Open
    /\ t <= EffectiveEnd(r, s)

\* A row whose neighbour starts later than the day after its end.
GapAfter(r, s) ==
    /\ Later(r, s) # {}
    /\ EffectiveEnd(r, s) # Open
    /\ ~ Inverted(r, s)
    /\ ~ Inverted(r, Min(Later(r, s)))
    /\ Min(Later(r, s)) > EffectiveEnd(r, s) + 1

\* A row that reaches the start of the latest open one from before it.
Straddles(r, s) ==
    /\ OpenPeriods(r) # {}
    /\ s # CurrentOf(r)
    /\ s <= CurrentOf(r)
    /\ EffectiveEnd(r, s) # Open
    /\ EffectiveEnd(r, s) >= CurrentOf(r)

\* The kinds find_period_anomalies reports; its caps are far above any roster.
AnomalyKinds(r) ==
    {k \in {"gap", "overlap", "duplicate_open", "no_open", "inverted", "straddling",
            "lapsed_open"} :
        CASE k = "gap"            -> \E s \in Rows(r) : GapAfter(r, s)
          [] k = "overlap"        -> \E s, t \in Rows(r) : Overlaps(r, s, t)
          [] k = "duplicate_open" -> Cardinality(OpenPeriods(r)) > 1
          [] k = "no_open"        -> OpenPeriods(r) = {}
          [] k = "inverted"       -> \E s \in Rows(r) : Inverted(r, s)
          [] k = "straddling"     -> \E s \in Rows(r) : Straddles(r, s)
          [] k = "lapsed_open"    -> /\ OpenPeriods(r) # {}
                                     /\ EffectiveEnd(r, CurrentOf(r)) # Open
                                     /\ EffectiveEnd(r, CurrentOf(r)) < today}

-----------------------------------------------------------------------------
(* Transactions. *)

NoRoster == [s \in Dates |-> None]

\* op: the request.  snap: the roster its plain reads see.  cur: the period it
\* is about; gone: a reset deleted its row since, and a row that has the same
\* start again is another one.  date: the close date, or the start of the window
\* to create; end: its end.  goal: cycle boundary of the job; steps: its
\* iterations.
Idle == [op |-> "idle", pc |-> "idle", snap |-> NoRoster, cur |-> None,
         gone |-> FALSE, date |-> None, end |-> None, goal |-> None, steps |-> 0]

Idling(p) == req[p].pc = "idle"

\* The request ends: it answers, or fails and is rolled back.
Done(p) == [req EXCEPT ![p] = Idle]

\* The insert of p is decided on a snapshot that no longer is the table, or
\* commits between the snapshot and the commit of a close.
Overtakes(p) ==
    \/ req[p].snap # period
    \/ \E o \in Requests \ {p} : req[o].pc \in {"lock", "retry"}

\* get_current_period in a fresh transaction: the latest open row, or a row for
\* the current cycle that is to be inserted ("open"); then continue at pc.
GetCurrent(q, pc) ==
    IF OpenPeriods(period) # {}
    THEN [q EXCEPT !.snap = period, !.cur = CurrentOf(period), !.pc = pc]
    ELSE [q EXCEPT !.snap = period, !.pc = "open",
                   !.cur = CurrentCycleStart(cycleDay, today)]

\* Where a request goes on once it has the current period.
AfterCurrent(q) == IF q.op = "ensure" THEN "insert" ELSE "lock"

Begin(p, q) == req' = [req EXCEPT ![p] = GetCurrent(q, AfterCurrent(q))]

\* The row of the current cycle is inserted; whoever loses the unique start
\* takes the row that is there.
OpenCurrent(p) ==
    LET q == req[p]
        r == IF period[q.cur] = None THEN [period EXCEPT ![q.cur] = Open] ELSE period
    IN  /\ q.pc = "open"
        /\ period' = r
        /\ stale' = (stale \/ Rows(period) # {} \/ Overtakes(p))
        /\ req' = [req EXCEPT ![p].pc = AfterCurrent(q), ![p].snap = r]
        /\ UNCHANGED <<budget, cycleDay, today, wipes>>

\* The windows plan_future_periods proposes after base, from the roster r: the
\* FutureCount next cycles without those whose start is taken or that touch a
\* closed row.  Cycles beyond the modelled calendar are not proposed.
Candidates(base) ==
    {m \in MonthOf(base) + 1 .. MonthOf(base) + FutureCount : m + 1 \in Months}

WindowOf(m) == [start |-> SnapToCycle(m, cycleDay),
                end   |-> SnapToCycle(m + 1, cycleDay) - 1]

Free(r, w) ==
    /\ r[w.start] = None
    /\ \A s \in Rows(r) : r[s] # Open => (s > w.end \/ r[s] < w.start)

PlanFuturePeriods(r, base) ==
    {w \in {WindowOf(m) : m \in Candidates(base)} : Free(r, w)}

EnsureFuturePeriods(p) ==
    /\ Idling(p)
    /\ Begin(p, [Idle EXCEPT !.op = "ensure"])
    /\ UNCHANGED <<period, budget, cycleDay, today, stale, wipes>>

\* Every planned stub is inserted, or none if one of the starts is taken now.
InsertPlanned(p) ==
    LET q       == req[p]
        planned == PlanFuturePeriods(q.snap, q.cur)
        taken   == \E w \in planned : period[w.start] # None
    IN  /\ q.op = "ensure"
        /\ q.pc = "insert"
        /\ IF taken \/ planned = {}
           THEN UNCHANGED <<period, stale>>
           ELSE /\ period' = [s \in Dates |->
                      IF \E w \in planned : w.start = s
                      THEN (CHOOSE w \in planned : w.start = s).end ELSE period[s]]
                /\ stale' = (stale \/ Overtakes(p))
        /\ req' = Done(p)
        /\ UNCHANGED <<budget, cycleDay, today, wipes>>

\* create_period: the checks against the snapshot.
Clashes(r, s, e) ==
    LET last == IF e = Open THEN s ELSE e
    IN  \E t \in Rows(r) : t <= last /\ IF r[t] = Open THEN t >= s ELSE r[t] >= s

CreatePeriod(p, s, e) ==
    /\ Idling(p)
    /\ Cardinality(Rows(period)) < MaxRows
    /\ e = Open \/ e >= s
    /\ period[s] = None
    /\ ~ Clashes(period, s, e)
    /\ req' = [req EXCEPT ![p] = [Idle EXCEPT !.op = "create", !.pc = "insert",
                                              !.snap = period, !.date = s, !.end = e]]
    /\ UNCHANGED <<period, budget, cycleDay, today, stale, wipes>>

InsertPeriod(p) ==
    LET q == req[p]
    IN  /\ q.op = "create"
        /\ q.pc = "insert"
        /\ IF period[q.date] = None
           THEN /\ period' = [period EXCEPT ![q.date] = q.end]
                /\ stale' = (stale \/ Overtakes(p))
           ELSE UNCHANGED <<period, stale>>
        /\ req' = Done(p)
        /\ UNCHANGED <<budget, cycleDay, today, wipes>>

\* update_billing_cycle: the day, and a first period where there is none.  No
\* existing period moves.  Left out: when another request creates that first
\* period in between, the rollback takes the new day back as well.
UpdateBillingCycle(day) ==
    /\ day # cycleDay
    /\ cycleDay' = day
    /\ period' = IF OpenPeriods(period) # {} THEN period
                 ELSE LET s == CurrentCycleStart(day, today)
                      IN  IF period[s] = None THEN [period EXCEPT ![s] = Open] ELSE period
    /\ stale' = (stale \/ (period' # period /\ Rows(period) # {}))
    /\ UNCHANGED <<budget, today, req, wipes>>

-----------------------------------------------------------------------------
(* Closing. *)

\* From the UI, for any day up to today (by default yesterday).
ClosePeriod(p, date) ==
    /\ Idling(p)
    /\ date <= today
    /\ Begin(p, [Idle EXCEPT !.op = "close", !.date = date])
    /\ UNCHANGED <<period, budget, cycleDay, today, stale, wipes>>

\* The scheduler's job: due when the current period starts before the cycle.
BillingCloseJob(p) ==
    LET goal == CurrentCycleStart(cycleDay, today)
    IN  /\ Idling(p)
        /\ OpenPeriods(period) # {}
        /\ CurrentOf(period) < goal
        /\ Begin(p, [Idle EXCEPT !.op = "job", !.date = goal - 1, !.goal = goal])
        /\ UNCHANGED <<period, budget, cycleDay, today, stale, wipes>>

\* Mutant: the next period is searched from the start itself on.
EndBeforeStart(r, cur, date) ==
    LET from == {t \in Rows(r) : t >= cur}
    IN  IF from # {} /\ Min(from) <= date THEN Min(from) - 1 ELSE date

\* The day a close resolves to: it stops before the next period of its roster.
ResolvedEnd(r, cur, date) ==
    IF Later(r, cur) # {} /\ Min(Later(r, cur)) <= date
    THEN Min(Later(r, cur)) - 1 ELSE date

\* Mutant: budgets of the closed period keep their end.
BudgetsUntouched(b, r, cur, end) == b

\* reanchor_period_dependents, for the closed row and for a revived one.
Reanchor(b, r, cur, end) ==
    [s \in Dates |-> IF b[s] = None THEN None
                     ELSE IF s = cur THEN end
                     ELSE IF s = end + 1 /\ r[s] # None THEN Open
                     ELSE b[s]]

\* The loop of the job after a close that led to the row at new: leave when
\* nothing was gained, the boundary is reached, or the steps are used up.
NextStep(q, new, rosterAfter) ==
    IF \/ q.op # "job"
       \/ new <= q.cur
       \/ OpenPeriods(rosterAfter) = {}
       \/ CurrentOf(rosterAfter) >= q.goal
       \/ q.steps + 1 >= MaxSteps
    THEN Idle
    ELSE [q EXCEPT !.steps = @ + 1, !.pc = "lock", !.snap = rosterAfter,
                   !.cur = CurrentOf(rosterAfter)]

\* Mutant: a row that exists on the next day is kept as it is.
KeepNext(row) == row

\* The row of the next day as the snapshot has it: a closed one is revived.
ReviveNext(row) == Open

\* _apply_close_step with the plain reads on r: close the row, revive the row of
\* the next day if r has one, else insert it.
ApplyClose(p, r) ==
    LET q     == req[p]
        end   == ResolvedEnd(r, q.cur, q.date)
        new   == end + 1
        after == [period EXCEPT ![q.cur] = end,
                                ![new] = IF r[new] = Open THEN @
                                         ELSE IF r[new] = None THEN Open
                                         ELSE ReviveNext(@)]
    IN  /\ new \in Dates
        /\ IF r[new] = None /\ period[new] # None
           THEN \* IntegrityError: rolled back, and tried once more
                /\ req' = [req EXCEPT ![p] = [@ EXCEPT !.pc = "retry",
                                                       !.snap = NoRoster]]
                /\ UNCHANGED <<period, budget>>
           ELSE /\ period' = after
                /\ budget' = Reanchor(budget, r, q.cur, end)
                /\ req' = [req EXCEPT ![p] = NextStep(q, new, after)]
        /\ UNCHANGED stale

\* _period_after_racer_close: the open row the racer left, as the transaction
\* sees it.  "failed" is the RuntimeError of a row that is missing or closed.
AdoptRacer(p, r) ==
    LET new == period[req[p].cur] + 1
    IN  /\ req' = [req EXCEPT ![p] =
              IF new \in Dates /\ r[new] = Open THEN NextStep(req[p], new, r)
              ELSE [Idle EXCEPT !.pc = "failed", !.cur = req[p].cur]]
        /\ UNCHANGED <<period, budget, stale>>

\* Mutant: the row is read without a lock, as the snapshot has it.
SnapshotRow(q) == q.snap[q.cur]

\* The locked row, by its id and in its committed version.
LockPeriod(q) == IF q.gone THEN None ELSE period[q.cur]

\* Lock the open row, then decide and commit.
CloseStep(p) ==
    LET q   == req[p]
        row == LockPeriod(q)
    IN  /\ q.pc = "lock"
        /\ \/ /\ row = None \/ (row = Open /\ q.date < q.cur)
              /\ req' = Done(p)
              /\ UNCHANGED <<period, budget, stale>>
           \/ /\ row \notin {None, Open}
              /\ AdoptRacer(p, q.snap)
           \/ /\ row = Open /\ q.date >= q.cur
              /\ ApplyClose(p, q.snap)
        /\ UNCHANGED <<cycleDay, today, wipes>>

\* After a lost insert the transaction is a new one: its snapshot is current.
RetryClose(p) ==
    LET row == LockPeriod(req[p])
    IN  /\ req[p].pc = "retry"
        /\ \/ /\ row = None
              /\ req' = Done(p)
              /\ UNCHANGED <<period, budget, stale>>
           \/ row \notin {None, Open} /\ AdoptRacer(p, period)
           \/ row = Open /\ ApplyClose(p, period)
        /\ UNCHANGED <<cycleDay, today, wipes>>

-----------------------------------------------------------------------------
(* Budgets of one category: each is anchored at a period and copies its end. *)

\* create_budget, and each row of a copy or of a forecast, for the period that
\* starts at s.
CreateBudget(p, s) ==
    /\ Idling(p)
    /\ period[s] # None
    /\ req' = [req EXCEPT ![p] = [Idle EXCEPT !.op = "budget", !.pc = "insert",
                                              !.snap = period, !.cur = s]]
    /\ UNCHANGED <<period, budget, cycleDay, today, stale, wipes>>

\* (org, category, period_start) is unique.
InsertBudget(p) ==
    LET q == req[p]
    IN  /\ q.op = "budget"
        /\ q.pc = "insert"
        /\ IF budget[q.cur] = None
           THEN /\ budget' = [budget EXCEPT ![q.cur] = q.snap[q.cur]]
                /\ stale' = (stale \/ Overtakes(p))
           ELSE UNCHANGED <<budget, stale>>
        /\ req' = Done(p)
        /\ UNCHANGED <<period, cycleDay, today, wipes>>

DeleteBudget(s) ==
    /\ budget[s] # None
    /\ budget' = [budget EXCEPT ![s] = None]
    /\ UNCHANGED <<period, cycleDay, today, req, stale, wipes>>

-----------------------------------------------------------------------------
(* The world. *)

DayPasses ==
    /\ today + 1 \in Dates
    /\ today' = today + 1
    /\ UNCHANGED <<period, budget, cycleDay, req, stale, wipes>>

\* The process dies, or an unexpected error rolls its transaction back.
RequestFails(p) ==
    /\ ~ Idling(p)
    /\ req' = Done(p)
    /\ UNCHANGED <<period, budget, cycleDay, today, stale, wipes>>

\* The reset of the organisation deletes its budgets and periods.
WipeOrgData ==
    /\ wipes < MaxWipes
    /\ Rows(period) # {}
    /\ period' = NoRoster
    /\ budget' = NoRoster
    /\ wipes' = wipes + 1
    /\ req' = [p \in Requests |->
                 [req[p] EXCEPT !.gone = req[p].pc \in {"lock", "retry"}]]
    /\ UNCHANGED <<cycleDay, today, stale>>

PeriodsInit ==
    /\ period = NoRoster
    /\ budget = NoRoster
    /\ cycleDay \in CycleDays
    /\ today = MonthStart[2]
    /\ req = [p \in Requests |-> Idle]
    /\ stale = FALSE
    /\ wipes = 0

PeriodsNext ==
    \/ \E p \in Requests :
          \/ OpenCurrent(p)
          \/ EnsureFuturePeriods(p)
          \/ InsertPlanned(p)
          \/ \E w \in HandMade : CreatePeriod(p, w.start, w.end)
          \/ InsertPeriod(p)
          \/ \E d \in CloseDates : ClosePeriod(p, d)
          \/ BillingCloseJob(p)
          \/ CloseStep(p)
          \/ RetryClose(p)
          \/ \E s \in Dates : CreateBudget(p, s)
          \/ InsertBudget(p)
          \/ RequestFails(p)
    \/ \E day \in CycleDays : UpdateBillingCycle(day)
    \/ \E s \in Dates : DeleteBudget(s)
    \/ DayPasses
    \/ WipeOrgData

PeriodsSpec == PeriodsInit /\ [][PeriodsNext]_periodsVars

-----------------------------------------------------------------------------
(* Properties. *)

\* The rows have the columns of BillingPeriod and Budget; no window is stored
\* with its end before its start.
PeriodsTypeOK ==
    /\ period \in [Dates -> Dates \cup {None, Open}]
    /\ \A s \in Rows(period) : ~ Inverted(period, s)
    /\ budget \in [Dates -> Dates \cup {None, Open}]
    /\ cycleDay \in CycleDays
    /\ today \in Dates
    /\ DOMAIN req = Requests
    /\ stale \in BOOLEAN
    /\ wipes \in 0 .. MaxWipes

\* Serialising every closer on the open row is enough: UI closes, jobs, stubs
\* and hand-made windows never put a day into two closed periods, nor a closed
\* period over the open one, unless an insert overlapped with another write, or
\* get_current_period, which compares its start with nothing, made the row.
NoDoubleDay ==
    ~ stale => \A s, t \in Rows(period) : s < t /\ period[s] # Open => period[s] < t

\* "no writer may set end_date on a row without leaving a row at end_date + 1":
\* after every step that closes a period there is a row on the next day, and
\* an organisation that had an open period still has one.
CloseHandsOver ==
    \A s \in Dates : period[s] = Open /\ period'[s] \notin {Open, None} =>
        /\ period'[period'[s] + 1] # None
        /\ OpenPeriods(period') # {}

\* The end a budget copies from its period follows the period through closes
\* and revivals.
BudgetEndFollows ==
    ~ stale => \A s \in Dates : budget[s] # None => budget[s] = period[s]

\* What find_period_anomalies calls free of gaps and overlaps is exactly a
\* roster in which every day from the first start to the last end belongs to
\* one period, by the effective ends; also for rosters a race has damaged.  Asked
\* between requests: any of them may end after each of its commits.
AnomaliesExact ==
    (\A p \in Requests : req[p] = Idle) =>
    LET covers(s, d) == s <= d /\ (EffectiveEnd(period, s) = Open \/
                                   d <= EffectiveEnd(period, s))
        span == {d \in Dates : /\ \E s \in Rows(period) : s <= d
                               /\ \E s \in Rows(period) : covers(s, d) \/ d < s}
    IN  AnomalyKinds(period) \cap {"gap", "overlap"} = {} <=>
            \A d \in span : Cardinality({s \in Rows(period) : covers(s, d)}) = 1
=============================================================================
