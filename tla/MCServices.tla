----------------------------- MODULE MCServices -----------------------------
(* What an organisation pays for, what agents do for it and what it is sent:  *)
(* spending on models, subscriptions and overrides, actions that agents       *)
(* stage, turns of the chat, and broadcasts, on small instances.  A behaviour *)
(* exercises one part, its focus, and the variables of the others are Off.    *)
EXTENDS Integers, FiniteSets, TLC

CONSTANTS
    Requests,   \* of every part; pods, for broadcasts
    Ids,        \* stored actions, and features an override may name
    Orgs, Bound, MaxTries, OrgLimit, Ceiling, SoftCap, HardCap, MaxPeriod, MaxKeys,
    MaxSteps,
    Paid, Trial, Term, LastDay, MaxRows,
    Values, Tokens, AutoTokens, InUse, Promoted, MaxLive,
    LastUser, BatchSize, MaxAttempts, MaxUsers, Events,
    Turners, LeaseTime, TurnTime, CallTime, MaxRounds,
    MaxAsked    \* bound: requests of subscriptions and of agents

VARIABLES
    focus,   \* the part that is exercised
    count,   \* bound: requests made
    period, offered, org, own, used, spend, ledger, claimed, dispatch, billed, warned,
    retired,
    today, sub, plan, reminder, ovr, request, single, nextRow, reminded, paid,
    data, holder, act, asking, release, made, applied, via,
    broadcast, dryRun, recipient, targetable, queued, ask, segment, drain,
    lease, turn

S == INSTANCE MCSpending WITH Calls <- Requests, call <- dispatch, steps <- count
N == INSTANCE Entitlements WITH Calls <- Requests, Keys <- Ids, call <- request
A == INSTANCE AgentActions WITH Calls <- Requests, call <- asking
B == INSTANCE Broadcast WITH Pods <- Requests
T == INSTANCE Turns

\* What the parts ask of their constants.
ASSUME ServicesAssumption ==
    S!SpendingAssumption /\ N!EntAssumption /\ A!AgentAssumption /\ B!BroadcastAssumption
    /\ T!TurnAssumption

Off == "off"
spendVars == <<period, offered, org, own, used, spend, ledger, claimed, dispatch, billed,
               warned, retired>>
subVars == <<today, sub, plan, reminder, ovr, request, single, nextRow, reminded, paid>>
agentVars == <<data, holder, act, asking, release, made, applied, via>>
broadcastVars == <<broadcast, dryRun, recipient, targetable, queued, ask, segment, drain>>
turnVars == <<lease, turn>>
serviceVars == <<focus, count, spendVars, subVars, agentVars, broadcastVars, turnVars>>

-----------------------------------------------------------------------------
(* One part at a time. *)

NoSpending == /\ period = Off /\ offered = Off /\ org = Off /\ own = Off /\ used = Off
              /\ spend = Off /\ ledger = Off /\ claimed = Off /\ dispatch = Off
              /\ billed = Off /\ warned = Off /\ retired = Off
NoSub == /\ today = Off /\ sub = Off /\ plan = Off /\ reminder = Off /\ ovr = Off
         /\ request = Off /\ single = Off /\ nextRow = Off /\ reminded = Off /\ paid = Off
NoAgent == /\ data = Off /\ holder = Off /\ act = Off /\ asking = Off /\ release = Off
           /\ made = Off /\ applied = Off /\ via = Off
NoBroadcast == /\ broadcast = Off /\ dryRun = Off /\ recipient = Off /\ targetable = Off
               /\ queued = Off /\ ask = Off /\ segment = Off /\ drain = Off
NoTurn == lease = Off /\ turn = Off

SpendFoci == {"orgs", "keys", "calls"}
SubFoci == {"subscriptions", "overrides"}

Init ==
    /\ focus \in {"agent", "broadcast", "turns"} \cup SpendFoci \cup SubFoci
    /\ count = 0
    /\ IF focus \in SpendFoci THEN S!Init ELSE NoSpending
    /\ IF focus \in SubFoci THEN N!EntInit ELSE NoSub
    /\ IF focus = "agent" THEN A!AgentInit ELSE NoAgent
    /\ IF focus = "broadcast" THEN B!BroadcastInit ELSE NoBroadcast
    /\ IF focus = "turns" THEN T!TurnInit ELSE NoTurn

SpendStep ==
    focus \in SpendFoci /\ S!Next
    /\ UNCHANGED <<subVars, agentVars, broadcastVars, turnVars>>

\* Bound: an administrator's request changes dates, or the plan and the status.
SmallUpdate(q) ==
    q.pc = "updates" =>
        \/ q.new.plan = q.read.plan /\ q.new.status = q.read.status
        \/ q.new.trial = q.read.trial /\ q.new.end = q.read.end

\* Bound: MaxAsked requests that start and plans that an administrator changes.
SubStep ==
    /\ focus \in SubFoci
    /\ \/ focus = "subscriptions" /\ N!SubNext
       \/ focus = "overrides" /\ N!OvrNext
       \/ N!DeleteOrg
       \/ N!NextDay
    /\ LET starts == \E c \in Requests : request[c] = N!Rest /\ request'[c] # N!Rest
       IN  count' = IF starts \/ plan' # plan THEN count + 1 ELSE count
    /\ count' <= MaxAsked
    /\ \A c \in Requests : SmallUpdate(request'[c])
    /\ UNCHANGED <<focus, spendVars, agentVars, broadcastVars, turnVars>>

\* Bound: MaxAsked requests that start, releases and changes by others.
AgentStep ==
    /\ focus = "agent" /\ A!AgentNext
    /\ LET starts == \E c \in Requests : asking[c] = A!Rest /\ asking'[c] # A!Rest
           edited == data' # data /\ applied' = applied
       IN  count' = IF starts \/ edited \/ release' # release THEN count + 1 ELSE count
    /\ count' <= MaxAsked
    /\ UNCHANGED <<focus, spendVars, subVars, broadcastVars, turnVars>>

\* Bounds: events for the first user only, who alone may lapse; drains rest while
\* an administrator's requests run on every pod.
BroadcastStep ==
    /\ focus = "broadcast" /\ B!BroadcastNext
    /\ \A u \in B!Users \ {1} : /\ recipient'[u].delivery = B!Undelivered
                                /\ u \in targetable'
    /\ (\A p \in Requests : ask'[p] # "idle") => drain' = drain
    /\ UNCHANGED <<focus, count, spendVars, subVars, agentVars, turnVars>>

TurnStep ==
    focus = "turns" /\ T!TurnNext
    /\ UNCHANGED <<focus, count, spendVars, subVars, agentVars, broadcastVars>>

Next == SpendStep \/ SubStep \/ AgentStep \/ BroadcastStep \/ TurnStep
Spec == Init /\ [][Next]_serviceVars

\* Requests, identifiers and contents of rows are interchangeable.
Symmetry == Permutations(Requests) \cup Permutations(Ids) \cup Permutations(Values)

-----------------------------------------------------------------------------
(* What holds.  Each of these names the invariants of one module, which       *)
(* explains them.                                                             *)

\* Spending: what the provider bills is reserved, the month's ceiling holds, one
\* warning is sent and a replaced key stays replaced (ai_dispatch, ai_credential_
\* service).
SpendingSafe ==
    focus \in SpendFoci =>
        S!AITypeOK /\ S!SpendCovered /\ S!CeilingHeld /\ S!WarnedOnce /\ S!KeysStayRetired

\* Subscriptions: one reminder per day left of a trial, and what was paid for is
\* kept to its end (subscription_service, trial jobs).
EntitlementsSafe ==
    focus \in SubFoci => N!EntTypeOK /\ N!TrialRemindedOnce /\ N!PaidPeriodKept

\* Agents: a staged action is carried out once, and by a person where it must be
\* (agent_action_service).
AgentSafe ==
    focus = "agent" => A!AgentTypeOK /\ A!AppliedOnce /\ A!PersonDecides

\* Broadcasts: no message is taken twice and what a row says of its message is
\* true (broadcast_service).
BroadcastSafe ==
    focus = "broadcast" =>
        /\ B!BroadcastTypeOK /\ B!NeverDoubleSend /\ B!UnsentMeansNotQueued
        /\ B!HistoryKept

\* Turns: one chat turn of an organisation calls the model at a time
\* (agent_chat turn lease).
TurnsSafe == focus = "turns" => T!TurnTypeOK /\ T!OneCallAtATime

\* An agent's action does what its preview showed, the sweep removes expired
\* overrides only, and a delivery status only gets worse.
CarriedOutAsAgreed ==
    [][ /\ focus = "agent" => A!AsPreviewed
        /\ focus \in SubFoci => N!OnlyExpiredSwept
        /\ focus = "broadcast" => B!DeliveryOnlyWorsens ]_serviceVars
=============================================================================
