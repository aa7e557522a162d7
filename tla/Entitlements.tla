---------------------------- MODULE Entitlements ----------------------------
(***************************************************************************)
(* What one organisation may use: its subscription from trial to plan,     *)
(* the plans, an administrator's overrides and their sweep, and the        *)
(* organisation's deletion.  Requests read a row, and later write the      *)
(* columns they change; only the sweep locks what it reads.                *)
(***************************************************************************)
EXTENDS Integers, FiniteSets

CONSTANTS
    Calls,
    Keys,      \* features and meters an override may name
    Paid,      \* plans beside the free one and the trial's
    Trial,     \* trial_duration_days
    Term,      \* days a plan is bought for
    LastDay,   \* bound of time
    MaxRows    \* bound of override rows

VARIABLES
    today,
    sub,        \* the subscription, or NoSub
    plan,       \* plan -> whether it is active and what it grants
    reminder,   \* the sentinels: days left whose reminder was recorded
    ovr,        \* key -> its override, or NoRow
    call,
    single,     \* requests do not overlap
    nextRow,
    reminded,   \* days left -> reminders sent
    paid        \* what was bought last, with the plan switched to since, unless an
                \* administrator changed the subscription

entVars == <<today, sub, plan, reminder, ovr, call, single, nextRow, reminded, paid>>

Plans == Paid \cup {"free", "trial"}
Days == 0..(LastDay + Trial + Term + 2)
EntAssumption == {Trial, Term, LastDay, MaxRows} \subseteq Nat
Never == -1
Rest == [pc |-> "rest"]
NoRow == [id |-> 0]
NoSub == [status |-> "none"]
Gone == [status |-> "gone"]
There == sub \notin {NoSub, Gone}
NotPaid == [plan |-> "free", until |-> Never]
Reminders == {3, 1}
\* Rows of plans, with the closed set of features; of subscriptions; of
\* overrides.
Features == SUBSET Keys
PlanRow == [active : BOOLEAN, grants : Features]
SubscriptionRow == [plan : Plans, status : {"trialing", "active", "past_due", "canceled"},
                    trial : Days \cup {Never}, end : Days \cup {Never}]
OverrideRow == [id : 1..MaxRows, value : BOOLEAN, expires : Days \cup {Never}]

Enters(c, q) ==
    /\ call[c] = Rest
    /\ single => \A d \in Calls : call[d] = Rest
    /\ call' = [call EXCEPT ![c] = q]
Leaves(c) == call' = [call EXCEPT ![c] = Rest]

-----------------------------------------------------------------------------
(* What is in effect. *)

\* Mutant: a cancellation ends the plan at once.
EndsAtOnce(s, day) == s.status \in {"past_due", "canceled"}

\* _falls_back_to_free
FallsBack(s, day) ==
    \/ s.status = "past_due"
    \/ s.status = "canceled" /\ (s.end = Never \/ s.end < day)

PlanInEffect == IF FallsBack(sub, today) THEN "free" ELSE sub.plan

Unexpired(row) == row # NoRow /\ (row.expires = Never \/ row.expires > today)

\* get_entitlements: the plan's, and over it the overrides in effect
Entitled(k) == IF Unexpired(ovr[k]) THEN ovr[k].value ELSE k \in plan[PlanInEffect].grants

-----------------------------------------------------------------------------
(* The subscription.  A request writes the columns that differ from what it  *)
(* read.                                                                     *)

SubOnly == UNCHANGED <<today, plan, ovr, single, nextRow>>

Column(now, read, new) == IF new = read THEN now ELSE new
Merged(now, read, new) ==
    [plan |-> Column(now.plan, read.plan, new.plan),
     status |-> Column(now.status, read.status, new.status),
     trial |-> Column(now.trial, read.trial, new.trial),
     end |-> Column(now.end, read.end, new.end)]

Asks(c, what, new) ==
    /\ There
    /\ Enters(c, [pc |-> what, read |-> sub, new |-> new])
    /\ UNCHANGED <<today, sub, plan, reminder, ovr, single, nextRow, reminded, paid>>

\* check_trial_expiry on the last days: a sentinel, then the letter.
AskRemind(c) ==
    /\ There
    /\ sub.status = "trialing"
    /\ sub.trial - today \in Reminders \ reminder
    /\ Enters(c, [pc |-> "reminds", left |-> sub.trial - today])
    /\ UNCHANGED <<today, sub, plan, reminder, ovr, single, nextRow, reminded, paid>>

\* Mutant: the sentinel is not unique.
AnySentinel(left) == TRUE

\* The sentinel's primary key refuses the second.
FirstSentinel(left) == left \notin reminder

Remind(c) ==
    LET left == call[c].left
    IN  /\ call[c].pc = "reminds"
        /\ Leaves(c)
        /\ IF There /\ FirstSentinel(left)
           THEN /\ reminder' = reminder \cup {left}
                /\ reminded' = [reminded EXCEPT ![left] = @ + 1]
           ELSE UNCHANGED <<reminder, reminded>>
        /\ UNCHANGED <<today, sub, plan, ovr, single, nextRow, paid>>

\* check_trial_expiry once the trial is over
AskExpire(c) ==
    /\ There
    /\ sub.status = "trialing"
    /\ sub.trial # Never
    /\ sub.trial < today
    /\ Asks(c, "writes", [sub EXCEPT !.plan = IF plan["free"].active THEN "free" ELSE @,
                                     !.status = "active", !.trial = Never])

\* change_plan, by the customer: a trial ends, and the plan is bought for a term;
\* later switches keep the term.
AskPlan(c, to) ==
    /\ plan[to].active
    /\ There
    /\ IF sub.status = "trialing"
       THEN Asks(c, "buys", [sub EXCEPT !.plan = to, !.status = "active", !.trial = Never,
                                        !.end = today + Term])
       ELSE Asks(c, "switches", [sub EXCEPT !.plan = to])

\* cancel_subscription
AskCancel(c) == There /\ Asks(c, "cancels", [sub EXCEPT !.status = "canceled"])

\* update_subscription, by an administrator: any of the columns.  Bound: dates
\* move to the next day.
AskUpdate(c, to, status) ==
    /\ There
    /\ \E trial \in {sub.trial, today + 1}, end \in {sub.end, today + 1} :
          Asks(c, "updates", [plan |-> to, status |-> status, trial |-> trial, end |-> end])

WriteSub(c) ==
    LET q == call[c]
    IN  /\ q.pc \in {"writes", "buys", "switches", "cancels", "updates"}
        /\ Leaves(c)
        /\ IF ~ There
           THEN UNCHANGED <<sub, paid>>
           ELSE /\ sub' = Merged(sub, q.read, q.new)
                /\ paid' = CASE q.pc = "buys" -> [plan |-> q.new.plan, until |-> q.new.end]
                             [] q.pc = "switches" -> [paid EXCEPT !.plan = q.new.plan]
                             [] q.pc = "updates" -> NotPaid
                             [] OTHER -> paid
        /\ UNCHANGED <<reminder, reminded>>
        /\ SubOnly

\* create_trial, with the organisation
CreateTrial ==
    /\ sub = NoSub
    /\ today = 0
    /\ \A c \in Calls : call[c] = Rest
    /\ sub' = [plan |-> "trial", status |-> "trialing", trial |-> today + Trial, end |-> Never]
    /\ UNCHANGED <<today, plan, reminder, ovr, call, single, nextRow, reminded, paid>>

\* update_plan
UpdatePlan(pl, k) ==
    /\ plan' = [plan EXCEPT ![pl].grants = IF k \in @ THEN @ \ {k} ELSE @ \cup {k}]
    /\ UNCHANGED <<today, sub, reminder, ovr, call, single, nextRow, reminded, paid>>

\* delete_plan: not while an organisation is on it.
DeactivatePlan(pl) ==
    /\ plan[pl].active
    /\ There => sub.plan # pl
    /\ plan' = [plan EXCEPT ![pl].active = FALSE]
    /\ UNCHANGED <<today, sub, reminder, ovr, call, single, nextRow, reminded, paid>>

-----------------------------------------------------------------------------
(* Overrides. *)

OvrUnchanged == UNCHANGED <<today, sub, plan, reminder, single, reminded, paid>>

\* set_feature_override, set_limit_override: the row there is, then the write
AskOverride(c, k, value, expires) ==
    /\ There
    /\ expires = Never \/ expires > today
    /\ Enters(c, [pc |-> "sets", k |-> k, read |-> ovr[k], value |-> value, expires |-> expires])
    /\ UNCHANGED <<ovr, nextRow>>
    /\ OvrUnchanged

\* Mutant: the sweep holds nothing.
NothingHeld(k) == TRUE

\* The sweep holds the rows it found until it has deleted them.
NotSwept(k) == \A c \in Calls : call[c].pc = "sweeps" => ovr[k] \notin call[c].rows

WriteOverride(c) ==
    LET q == call[c]
        now == ovr[q.k]
    IN  /\ q.pc = "sets"
        /\ NotSwept(q.k)
        /\ Leaves(c)
        /\ IF q.read = NoRow
           THEN IF now = NoRow /\ There /\ nextRow <= MaxRows
                THEN /\ ovr' = [ovr EXCEPT ![q.k] = [id |-> nextRow, value |-> q.value,
                                                     expires |-> q.expires]]
                     /\ nextRow' = nextRow + 1
                ELSE UNCHANGED <<ovr, nextRow>>
           ELSE /\ ovr' = IF now # NoRow /\ now.id = q.read.id
                          THEN [ovr EXCEPT ![q.k].value = Column(@, q.read.value, q.value),
                                           ![q.k].expires = Column(@, q.read.expires, q.expires)]
                          ELSE ovr
                /\ UNCHANGED nextRow
        /\ OvrUnchanged

\* revoke_feature_override, revoke_limit_override
AskRevoke(c, k) ==
    /\ ovr[k] # NoRow
    /\ Enters(c, [pc |-> "revokes", k |-> k, id |-> ovr[k].id])
    /\ UNCHANGED <<ovr, nextRow>>
    /\ OvrUnchanged

Revoke(c) ==
    LET k == call[c].k
    IN  /\ call[c].pc = "revokes"
        /\ NotSwept(k)
        /\ Leaves(c)
        /\ ovr' = [ovr EXCEPT ![k] = IF ovr[k].id = call[c].id THEN NoRow ELSE @]
        /\ UNCHANGED nextRow
        /\ OvrUnchanged

\* _sweep_expired: what has expired is locked, then deleted by its ids.
SweepLock(c) ==
    LET rows == {ovr[k] : k \in {j \in Keys : ovr[j] # NoRow /\ ~ Unexpired(ovr[j])}}
    IN  /\ rows # {}
        /\ \A k \in Keys : ovr[k] \in rows => NotSwept(k)
        /\ Enters(c, [pc |-> "sweeps", rows |-> rows])
        /\ UNCHANGED <<ovr, nextRow>>
        /\ OvrUnchanged

SweepDelete(c) ==
    /\ call[c].pc = "sweeps"
    /\ Leaves(c)
    /\ ovr' = [k \in Keys |-> IF ovr[k].id \in {r.id : r \in call[c].rows} THEN NoRow ELSE ovr[k]]
    /\ UNCHANGED nextRow
    /\ OvrUnchanged

\* delete_org_cascade: everything of the organisation, which the sweep's locks
\* make wait.
DeleteOrg ==
    /\ There
    /\ \A k \in Keys : NotSwept(k)
    /\ single => \A c \in Calls : call[c] = Rest
    /\ sub' = Gone
    /\ ovr' = [k \in Keys |-> NoRow]
    /\ reminder' = {}
    /\ paid' = NotPaid
    /\ UNCHANGED <<today, plan, call, single, nextRow, reminded>>

NextDay ==
    /\ today < LastDay
    /\ today' = today + 1
    /\ UNCHANGED <<sub, plan, reminder, ovr, call, single, nextRow, reminded, paid>>

-----------------------------------------------------------------------------
EntInit ==
    /\ today = 0
    /\ sub = NoSub
    /\ plan = [pl \in Plans |-> [active |-> TRUE, grants |-> IF pl = "free" THEN {} ELSE Keys]]
    /\ reminder = {}
    /\ ovr = [k \in Keys |-> NoRow]
    /\ call = [c \in Calls |-> Rest]
    /\ single \in BOOLEAN
    /\ nextRow = 1
    /\ reminded = [d \in Reminders |-> 0]
    /\ paid = NotPaid

SubNext ==
    \/ CreateTrial
    \/ \E c \in Calls : AskRemind(c) \/ Remind(c) \/ AskExpire(c) \/ AskCancel(c) \/ WriteSub(c)
    \/ \E c \in Calls, to \in Plans : AskPlan(c, to)
    \/ \E c \in Calls, to \in Plans, status \in {"trialing", "active", "past_due", "canceled"} :
          AskUpdate(c, to, status)
    \/ \E pl \in Plans : DeactivatePlan(pl) \/ \E k \in Keys : UpdatePlan(pl, k)

OvrNext ==
    \/ \E c \in Calls, k \in Keys :
          \/ \E value \in BOOLEAN, expires \in {Never, today + 1, today + 2} :
                AskOverride(c, k, value, expires)
          \/ AskRevoke(c, k)
    \/ \E c \in Calls : WriteOverride(c) \/ Revoke(c) \/ SweepLock(c) \/ SweepDelete(c)
    \/ CreateTrial

EntNext == SubNext \/ OvrNext \/ DeleteOrg \/ NextDay

-----------------------------------------------------------------------------
(* Properties. *)

\* Nothing is left of an organisation that is gone, and rows are numbered once.
EntTypeOK ==
    /\ \A pl \in Plans : plan[pl] \in PlanRow
    /\ There => sub \in SubscriptionRow
    /\ \A k \in Keys : ovr[k] = NoRow \/ ovr[k] \in OverrideRow
    /\ ~ There => reminder = {} /\ \A k \in Keys : ovr[k] = NoRow
    /\ \A k, l \in Keys : ovr[k] # NoRow /\ ovr[k].id = ovr[l].id => k = l

\* An override in effect goes only when it is revoked, or its organisation is
\* deleted: the sweep takes nothing that was renewed (_sweep_expired).
OnlyExpiredSwept ==
    \A k \in Keys : Unexpired(ovr[k]) /\ ovr'[k] = NoRow =>
        \/ sub' = Gone
        \/ \E c \in Calls : call[c].pc = "revokes" /\ call[c].k = k /\ call'[c] = Rest

\* The last days of a trial are announced once each (check_trial_expiry).
TrialRemindedOnce == \A d \in Reminders : reminded[d] <= 1

\* What was bought is in effect until its last day, canceled or not, when
\* requests do not overlap (_falls_back_to_free, check_trial_expiry).
PaidPeriodKept == single /\ paid.until >= today => PlanInEffect = paid.plan
=============================================================================
