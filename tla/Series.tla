------------------------------- MODULE Series -------------------------------
(***************************************************************************)
(* One recurring series: its template, the frontier (next_due_date) up to  *)
(* which occurrences exist, and the occurrences.  Days are numbers and a   *)
(* frequency is a number of days; a billing cycle has Cycle days.  Amounts *)
(* and names are left out.  Requests that read the template without its    *)
(* lock act later on what they read.                                       *)
(***************************************************************************)
EXTENDS Integers, FiniteSets

CONSTANTS
    Calls,       \* requests and runs of the job
    Steps,       \* frequencies, in days
    Counts,      \* occurrence_count; 0 is an open-ended series
    Cycle,       \* days of a billing cycle
    MaxDay,      \* bound: days the behaviours reach
    MaxCatchup   \* MAX_CATCHUP_ITERATIONS

\* What the proofs ask of the constants.
SeriesAssumption ==
    /\ Steps \subseteq Nat \ {0} /\ Steps # {} /\ Counts \subseteq Nat
    /\ Cycle \in Nat \ {0} /\ MaxDay \in Nat /\ MaxCatchup \in Nat

VARIABLES
    tpl,         \* the template
    rows,        \* occurrences; no is the count of the one that spent it, byHand
                 \* that the series no longer knows its day: a person moved dates
    today,
    call,        \* request -> what it does
    delivered,   \* occurrences that were written so far
    resumedAt    \* first day of the cycle the series last resumed in

seriesVars == <<tpl, rows, today, call, delivered, resumedAt>>

Rest == [pc |-> "rest"]
Enters(c, q) == call[c] = Rest /\ call' = [call EXCEPT ![c] = q]
Leaves(c) == call' = [call EXCEPT ![c] = Rest]

Largest(S) == CHOOSE x \in S : \A y \in S : y <= x
\* frontier_lower_bound, and the last day of the cycle.
CycleStart(day) == day - (day % Cycle)
CycleEnd(day) == CycleStart(day) + Cycle - 1

HasRemaining(t) == t.count = 0 \/ t.elapsed < t.count
\* active_series_filter
Generates(t) == t.active /\ HasRemaining(t)

Linked == {r \in rows : r.linked}
Dates(S) == {r.date : r \in S}
Pending(r) == r.status = "pending"
Movable(r) == Pending(r) /\ r.linked /\ r.state = "accepted"

-----------------------------------------------------------------------------
(* Occurrences are written. *)

\* The days of the series' grid that one run would reach.
AllSlots(t, end) ==
    {d \in t.due..end : (d - t.due) % t.step = 0 /\ (d - t.due) \div t.step < MaxCatchup}
\* The slots one run spends, in the order of their dates.
Slots(t, end) ==
    {d \in AllSlots(t, end) : t.count = 0 \/ t.elapsed + (d - t.due) \div t.step < t.count}

\* _advance_frontier, over the slots of one run.
Advanced(t, slots) ==
    [t EXCEPT !.due = Largest(slots) + t.step, !.spent = Largest(slots), !.elapsed = @ + Cardinality(slots)]

\* _create_occurrence
Occurrence(t, d, status, state) ==
    [no |-> t.elapsed + 1 + (d - t.due) \div t.step, date |-> d, status |-> status,
     state |-> state, linked |-> TRUE, byHand |-> FALSE]

Settles(t, d, day) == t.auto /\ d <= day

\* _settle_due_auto, in the run and before the template is locked.
Settled(day) ==
    {IF tpl.auto /\ Movable(r) /\ r.date <= day THEN [r EXCEPT !.status = "settled"] ELSE r : r \in rows}

\* A run reads the day and, by its first statement, the rows it will probe.
AskGenerate(c) ==
    /\ Enters(c, [pc |-> "generates", day |-> today, seen |-> Dates(Linked)])
    /\ UNCHANGED <<tpl, rows, today, delivered, resumedAt>>

\* Dates the run's own writes and its snapshot show as taken.
Generate(c) ==
    LET q == call[c]
        slots == IF Generates(tpl) THEN Slots(tpl, CycleEnd(q.day)) ELSE {}
        news == slots \ q.seen
    IN  /\ q.pc = "generates"
        /\ rows' = Settled(q.day) \cup
               {Occurrence(tpl, d, IF Settles(tpl, d, q.day) THEN "settled" ELSE "pending", "accepted") : d \in news}
        /\ tpl' = IF slots = {} THEN tpl ELSE Advanced(tpl, slots)
        /\ delivered' = delivered + Cardinality(news)
        /\ Leaves(c)
        /\ UNCHANGED <<today, resumedAt>>

\* materialise_next: the occurrence a person names, ahead of its cycle.
MaterialiseNext(named, state) ==
    /\ tpl.due = named
    /\ Generates(tpl)
    /\ named >= CycleStart(today)
    /\ named \notin Dates(Linked)
    /\ rows' = rows \cup {Occurrence(tpl, named, "pending", state)}
    /\ tpl' = Advanced(tpl, {named})
    /\ delivered' = delivered + 1
    /\ UNCHANGED <<today, call, resumedAt>>

-----------------------------------------------------------------------------
(* The template is edited. *)

\* _reanchor_frontier_on_resume: along the series' own grid.
Reanchored(t, day) ==
    IF t.due >= CycleStart(day) THEN t
    ELSE [t EXCEPT !.due = t.due + t.step * ((CycleStart(day) - t.due + t.step - 1) \div t.step)]

\* Mutant: only rows that are still linked bound the frontier.
SpentUnseen(t) == Dates(Linked)
\* Everything the series has spent, as far as it can tell.
Bounds(t) == Dates(Linked) \cup {t.spent}

\* _check_frontier_clears_series
Clears(old, new) ==
    LET bound == Largest(Bounds(new) \cup {-1})
    IN  new.due > bound /\ (new.due >= bound + new.step \/ new.due >= old.due)

\* Mutant: only a template that was paused counts as resumed.
PausedOnly(old, new) == new.active /\ ~ old.active
Resumes(old, new) == (new.active /\ ~ old.active) \/ (HasRemaining(new) /\ ~ HasRemaining(old))

\* update_recurring with more than is_active in its body: under the lock.
Edit(due, step, count) ==
    LET asked == [tpl EXCEPT !.due = due, !.step = step, !.count = count]
        new == IF Resumes(tpl, asked) THEN Reanchored(asked, today) ELSE asked
    IN  /\ asked # tpl
        /\ due # tpl.due \/ step # tpl.step => new.due >= CycleStart(today)
        /\ due # tpl.due /\ new.due # tpl.due => Clears(tpl, new)
        /\ tpl' = new
        /\ resumedAt' = IF HasRemaining(new) /\ ~ HasRemaining(tpl) THEN CycleStart(today) ELSE resumedAt
        /\ UNCHANGED <<rows, today, call, delivered>>

\* update_recurring with is_active alone: a plain read, and a later write of
\* the columns that changed.
AskResume(c) ==
    /\ Enters(c, [pc |-> "resumes", read |-> tpl, day |-> today])
    /\ UNCHANGED <<tpl, rows, today, delivered, resumedAt>>

Resume(c) ==
    LET read == call[c].read
        moved == Reanchored(read, call[c].day)
    IN  /\ call[c].pc = "resumes"
        /\ IF read.active THEN UNCHANGED <<tpl, resumedAt>>
           ELSE /\ tpl' = [tpl EXCEPT !.active = TRUE, !.due = IF moved.due # read.due THEN moved.due ELSE @]
                /\ resumedAt' = CycleStart(call[c].day)
        /\ Leaves(c)
        /\ UNCHANGED <<rows, today, delivered>>

\* The same with FALSE: whatever was read, what it leaves is a paused template
\* that keeps its occurrences.
Pause ==
    /\ tpl.active
    /\ tpl' = [tpl EXCEPT !.active = FALSE]
    /\ UNCHANGED <<rows, today, call, delivered, resumedAt>>

\* stop_recurring looks for what it will remove, without the template's lock.
Doomed(S) == {r \in S : r.linked /\ Pending(r) /\ r.date >= today}

AskStop(c) ==
    /\ Enters(c, [pc |-> "stops", seen |-> {r.no : r \in Doomed(rows)}])
    /\ UNCHANGED <<tpl, rows, today, delivered, resumedAt>>

Stop(c) ==
    LET gone == {r \in Doomed(rows) : r.no \in call[c].seen}
    IN  /\ call[c].pc = "stops"
        /\ tpl' = [tpl EXCEPT !.active = FALSE]
        /\ rows' = {[r EXCEPT !.linked = FALSE, !.byHand = @ \/ r.date > tpl.spent] : r \in rows \ gone}
        /\ Leaves(c)
        /\ UNCHANGED <<today, delivered, resumedAt>>

-----------------------------------------------------------------------------
(* One occurrence is changed. *)

Becomes(r, new) == rows' = (rows \ {r}) \cup {new}

SkipOccurrence(r) ==
    /\ Movable(r)
    /\ Becomes(r, [r EXCEPT !.state = "skipped"])
    /\ UNCHANGED <<tpl, today, call, delivered, resumedAt>>

SettleOccurrence(r) ==
    /\ Movable(r)
    /\ Becomes(r, [r EXCEPT !.status = "settled"])
    /\ UNCHANGED <<tpl, today, call, delivered, resumedAt>>

DeleteOccurrence(r) ==
    /\ rows' = rows \ {r}
    /\ UNCHANGED <<tpl, today, call, delivered, resumedAt>>

\* refuse_row_date_at_frontier, read without a lock on the template.
BeforeFrontier(t, d) ==
    HasRemaining(t) =>
        d < IF t.active THEN t.due ELSE Largest({t.due, CycleStart(today)})

AskMove(c, r, d) ==
    /\ r.linked
    /\ r.state = "accepted"
    /\ d # r.date
    /\ BeforeFrontier(tpl, d)
    /\ Enters(c, [pc |-> "moves", no |-> r.no, date |-> d])
    /\ UNCHANGED <<tpl, rows, today, delivered, resumedAt>>

Move(c) ==
    /\ call[c].pc = "moves"
    /\ rows' = {IF r.no = call[c].no THEN [r EXCEPT !.date = call[c].date, !.byHand = TRUE] ELSE r : r \in rows}
    /\ Leaves(c)
    /\ UNCHANGED <<tpl, today, delivered, resumedAt>>

\* Mutant: the template does not know what the moved occurrences spent.
Unshifted(shift) == [tpl EXCEPT !.due = @ + shift]
Shifted(shift) == [tpl EXCEPT !.due = @ + shift, !.spent = tpl.due + shift - tpl.step]

\* _plan_series_date_move: r and the movable occurrences after it, on its grid.
\* It looks at linked rows only, and may take last_spent_date back: of the rows
\* a stop unlinked it forgets the later ones, and can land on the others.
Forgotten(S, t) == {[r EXCEPT !.byHand = @ \/ r.date > t.spent] : r \in S}
LandedOn(S, dates) == {[r EXCEPT !.byHand = @ \/ r.date \in dates] : r \in S}
OnGrid(r, s) == s.date > r.date /\ (s.date - r.date) % tpl.step = 0 /\ s.date < tpl.due
MoveSeries(r, d) ==
    LET shift == d - r.date
        movers == {s \in rows \ {r} : Movable(s) /\ OnGrid(r, s)}
        moved == {[s EXCEPT !.date = @ + shift] : s \in movers \cup {r}}
        staying == Linked \ (movers \cup {r})
        unlinked == rows \ Linked
        landing == Dates(moved)
        new == Shifted(shift)
    IN  /\ Movable(r)
        /\ shift # 0 /\ shift < tpl.step /\ -shift < tpl.step
        /\ d >= CycleStart(today)
        /\ r.date < tpl.due /\ (tpl.due - r.date) % tpl.step = 0
        /\ landing \cap Dates(staying) = {}
        /\ \A x \in landing \cup Dates(staying) : x < new.due
        /\ rows' = staying \cup Forgotten(unlinked, new) \cup LandedOn(moved, Dates(unlinked))
        /\ tpl' = new
        /\ UNCHANGED <<today, call, delivered, resumedAt>>

NextDay ==
    /\ today' = today + 1
    /\ UNCHANGED <<tpl, rows, call, delivered, resumedAt>>

-----------------------------------------------------------------------------
\* create_recurring: the frontier is not before the current cycle.
SeriesInit ==
    /\ \E due \in 0..Cycle, step \in Steps, count \in Counts, auto \in BOOLEAN :
         tpl = [active |-> TRUE, due |-> due, step |-> step, count |-> count, elapsed |-> 0,
                spent |-> -1, auto |-> auto]
    /\ rows = {}
    /\ today = 0
    /\ call = [c \in Calls |-> Rest]
    /\ delivered = 0
    /\ resumedAt = 0

SeriesNext ==
    \/ \E c \in Calls : AskGenerate(c)
    \/ \E c \in Calls : Generate(c)
    \/ \E d \in 0..MaxDay, state \in {"accepted", "skipped"} : MaterialiseNext(d, state)
    \/ \E d \in 0..MaxDay, step \in Steps, count \in Counts : Edit(d, step, count)
    \/ \E c \in Calls : AskResume(c)
    \/ \E c \in Calls : Resume(c)
    \/ Pause
    \/ \E c \in Calls : AskStop(c)
    \/ \E c \in Calls : Stop(c)
    \/ \E r \in rows : SkipOccurrence(r)
    \/ \E r \in rows : SettleOccurrence(r)
    \/ \E r \in rows : DeleteOccurrence(r)
    \/ \E c \in Calls, r \in rows, d \in 0..MaxDay : AskMove(c, r, d)
    \/ \E c \in Calls : Move(c)
    \/ \E r \in rows, d \in 0..MaxDay : MoveSeries(r, d)
    \/ NextDay

-----------------------------------------------------------------------------
\* Each occurrence has a number of its own, among those the series has spent
\* (occurrences_elapsed).
SeriesTypeOK ==
    /\ tpl.step \in Steps /\ tpl.count \in Counts
    /\ \A r, s \in rows : r.no = s.no => r = s
    /\ \A r \in rows : r.no \in 1..tpl.elapsed

\* The frontier stays after every occurrence the series has spent, through
\* edits, moves, stops and resumes (TBD-509, last_spent_date).
FrontierPastSpent == tpl.due > tpl.spent

\* No occurrence is written twice for one day: two rows of the series with the
\* same date are there only when a person moved one onto the other, or a series
\* date move took last_spent_date back below one that a stop has unlinked.
NoDayBilledTwice ==
    \A r, s \in rows : r # s /\ ~ r.byHand /\ ~ s.byHand => r.date # s.date

\* _reanchor_frontier_on_resume: whatever takes a series out of generation and
\* back, what it writes next is not in a cycle before the one it came back in.
NoBackfillAfterPause == Generates(tpl) => tpl.due >= resumedAt
=============================================================================
