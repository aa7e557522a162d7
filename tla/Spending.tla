------------------------------ MODULE Spending ------------------------------
(***************************************************************************)
(* Calls of language models: the credentials, routes and consent of each   *)
(* organisation, what a call reserves of the platform's budget before it   *)
(* is sent and settles when it is answered, the ledger, the caps and the   *)
(* warning.  Tokens and money, counted alike, are one meter.               *)
(***************************************************************************)
EXTENDS Integers, FiniteSets, FiniteSetsExt

CONSTANTS
    Orgs, Calls,
    Bound,      \* what one attempt may cost: the model's price ceiling
    MaxTries,   \* STRUCTURED_OUTPUT_MAX_RETRIES + 1
    OrgLimit,   \* the plan's limit of platform use
    Ceiling,    \* global_monthly_cents
    SoftCap, HardCap,
    MaxPeriod, MaxKeys

\* What the module asks of its constants: prices and limits are amounts, and each
\* kind of thing there is one of at least.
SpendingAssumption ==
    /\ {Bound, OrgLimit, Ceiling, SoftCap, HardCap} \subseteq Nat
    /\ {MaxTries, MaxPeriod, MaxKeys} \subseteq Nat \ {0}
    /\ IsFiniteSet(Orgs) /\ IsFiniteSet(Calls)

VARIABLES
    period,   \* the month
    offered,  \* the platform's models are switched on
    org,      \* per organisation: consent, credentials, routes
    own,      \* its own key: the key, and whose models are listed
    used,     \* month -> organisation -> UsageCounter
    spend,    \* month -> PlatformAISpend
    ledger,   \* month -> organisation -> cost of its own key's calls
    claimed,  \* months whose warning is claimed, per organisation
    call,     \* per request
    billed,   \* what the provider charged the platform
    warned,   \* warnings sent
    retired   \* keys replaced

aiVars == <<period, offered, org, own, used, spend, ledger, claimed, call, billed, warned, retired>>
Counters == <<used, spend, ledger>>

Periods == 1..MaxPeriod
Kinds == {"once", "structured", "stream", "embed"}
Features == {"default", "feature"}
Off == [pc |-> "off"]
\* The routing rows of an organisation, default and by feature; the row of its
\* own key; the calls on it that the usage ledger lists, by what they cost.
Routing == [Features -> {"platform", "own", "none"}]
KeyRow == [key : 1..MaxKeys, models : 1..MaxKeys, next : 2..(MaxKeys + 1)]
UsageLedger == [Periods -> [Orgs -> Nat]]
Zero == [p \in Periods |-> [o \in Orgs |-> 0]]
Total(f) == MapThenSumSet(LAMBDA o : f[o], Orgs)

Enters(c, q) == call[c] = Off /\ call' = [call EXCEPT ![c] = q]
Leaves(c) == call' = [call EXCEPT ![c] = Off]

-----------------------------------------------------------------------------
(* Credentials, routes, consent. *)

OrgUnchanged == UNCHANGED <<period, own, Counters, claimed, call, billed, warned, retired>>

\* create_platform_credential, or create_credential of an own key
AddCredential(o, cred) ==
    /\ cred \notin org[o].creds
    /\ cred = "platform" => offered /\ OrgLimit > 0 /\ org[o].consent
    /\ org' = [org EXCEPT ![o].creds = @ \cup {cred}]
    /\ UNCHANGED offered
    /\ OrgUnchanged

\* delete_credential, delete_platform_credential: the routes to it go with it.
RemoveCredential(o, cred) ==
    /\ cred \in org[o].creds
    /\ org' = [org EXCEPT ![o].creds = @ \ {cred},
                          ![o].route = [f \in Features |-> IF @[f] = cred THEN "none" ELSE @[f]]]
    /\ UNCHANGED offered
    /\ OrgUnchanged

\* set_default_routing, set_feature_routing
SetRoute(o, f, cred) ==
    /\ cred \in org[o].creds
    /\ cred = "platform" => offered
    /\ org[o].route[f] # cred
    /\ org' = [org EXCEPT ![o].route[f] = cred]
    /\ UNCHANGED offered
    /\ OrgUnchanged

\* delete_feature_routing
DeleteRoute(o) ==
    /\ org[o].route["feature"] # "none"
    /\ org' = [org EXCEPT ![o].route["feature"] = "none"]
    /\ UNCHANGED offered
    /\ OrgUnchanged

\* write_consent_row: the latest row counts.
WriteConsent(o) ==
    /\ org' = [org EXCEPT ![o].consent = ~ @]
    /\ UNCHANGED offered
    /\ OrgUnchanged

\* set_platform_ai
SetPlatformAI ==
    /\ offered' = ~ offered
    /\ UNCHANGED org
    /\ OrgUnchanged

\* rotate_credential and validate_credential read the row, then ask the provider.
AskKey(c, o, what) ==
    /\ what \in {"rotates", "validates"}
    /\ what = "rotates" => own[o].next <= MaxKeys
    /\ Enters(c, [pc |-> what, o |-> o, row |-> own[o]])
    /\ UNCHANGED <<period, offered, org, own, Counters, claimed, billed, warned, retired>>

\* Mutant: the row is written as it was read.
WholeRow(now, row) == [now EXCEPT !.key = row.key, !.models = row.key]

\* A validation writes the models the key it read may use, if they differ from
\* those it read, and nothing else of the key.
ModelsOnly(now, row) == [now EXCEPT !.models = row.key]

ValidateCommit(c, differ) ==
    LET q == call[c]
    IN  /\ q.pc = "validates"
        /\ q.row.models # q.row.key => differ
        /\ own' = IF differ THEN [own EXCEPT ![q.o] = ModelsOnly(@, q.row)] ELSE own
        /\ Leaves(c)
        /\ UNCHANGED <<period, offered, org, Counters, claimed, billed, warned, retired>>

RotateCommit(c) ==
    LET q == call[c]
        row == own[q.o]
    IN  /\ q.pc = "rotates"
        /\ row.next <= MaxKeys
        /\ own' = [own EXCEPT ![q.o] = [key |-> row.next, models |-> row.next, next |-> row.next + 1]]
        /\ retired' = [retired EXCEPT ![q.o] = @ \cup {row.key}]
        /\ Leaves(c)
        /\ UNCHANGED <<period, offered, org, Counters, claimed, billed, warned>>

-----------------------------------------------------------------------------
(* A call. *)

\* get_routing_for_feature
Routed(o) == IF org[o].route["feature"] # "none" THEN org[o].route["feature"]
             ELSE org[o].route["default"]

\* _projected_cost_micros and _prepare_platform's projection
Projected(kind) == IF kind = "structured" THEN Bound * MaxTries ELSE Bound

\* check_headroom: as the counters stand, nothing is taken.
Headroom(o, n) == used[period][o] + n <= OrgLimit /\ spend[period] + n <= Ceiling

\* _enforce_cap
WithinHardCap(spent, n) == spent < HardCap /\ spent + n <= HardCap

\* Mutant: the marker is not claimed.
AnyWarning(o) == TRUE

\* claim_token of the month's marker: one claim wins.
FirstWarning(o) == period \notin claimed[o]

\* _maybe_warn_soft_cap
Warn(o, due) ==
    IF due /\ FirstWarning(o)
    THEN /\ claimed' = [claimed EXCEPT ![o] = @ \cup {period}]
         /\ warned' = [warned EXCEPT ![period][o] = @ + 1]
    ELSE UNCHANGED <<claimed, warned>>

\* _prepare_dispatch
Prepare(c, o, kind) ==
    LET src == Routed(o)
        spent == ledger[period][o]
    IN  /\ src \in org[o].creds
        /\ org[o].consent
        /\ IF src = "platform"
           THEN kind # "embed" /\ offered /\ Headroom(o, Projected(kind))
           ELSE WithinHardCap(spent, Projected(kind))
        /\ Warn(o, src = "own" /\ spent >= SoftCap)
        /\ Enters(c, [pc |-> "prepared", o |-> o, kind |-> kind, src |-> src, before |-> spent,
                      p |-> period, held |-> FALSE, tries |-> 0, cost |-> 0, whole |-> TRUE,
                      settles |-> FALSE])
        /\ UNCHANGED <<period, offered, org, own, Counters, billed, retired>>

\* Mutant: the headroom seen when the call was prepared is enough.
HeadroomAsSeen(o, n) == TRUE

\* The counters move only if they stay within the limits, under the row's lock.
WithinLimits(o, n) == used[period][o] + n <= OrgLimit /\ spend[period] + n <= Ceiling

\* reserve: both counters or none
Reserve(c) ==
    LET q == call[c]
        n == Projected(q.kind)
    IN  /\ q.pc = "prepared"
        /\ IF q.src = "own"
           THEN call' = [call EXCEPT ![c].pc = "sent"] /\ UNCHANGED <<used, spend>>
           ELSE IF WithinLimits(q.o, n)
           THEN /\ used' = [used EXCEPT ![period][q.o] = @ + n]
                /\ spend' = [spend EXCEPT ![period] = @ + n]
                /\ call' = [call EXCEPT ![c].pc = "sent", ![c].held = TRUE, ![c].p = period]
           ELSE Leaves(c) /\ UNCHANGED <<used, spend>>
        /\ UNCHANGED <<period, offered, org, own, ledger, claimed, billed, warned, retired>>

\* The provider charges for an attempt.
Charges(c, x) ==
    LET q == call[c]
    IN  billed' = IF q.src = "platform" THEN [billed EXCEPT ![q.p][q.o] = @ + x] ELSE billed

OnlyCall == UNCHANGED <<period, offered, org, own, Counters, claimed, warned, retired>>

\* An answer, and whether it tells all it used: call_llm, call_llm_function.
Answer(c, x, complete) ==
    /\ call[c].pc = "sent"
    /\ call[c].kind = "once"
    /\ Charges(c, x)
    /\ call' = [call EXCEPT ![c].pc = "answered", ![c].settles = complete,
                            ![c].cost = IF complete THEN x ELSE 0]
    /\ OnlyCall

\* call_llm_embed: through an own key only.
EmbedAnswer(c, x) ==
    /\ call[c].pc = "sent"
    /\ call[c].kind = "embed"
    /\ Charges(c, x)
    /\ call' = [call EXCEPT ![c].pc = "answered", ![c].cost = x]
    /\ OnlyCall

\* call_llm_structured: an answer that does not fit the schema is asked again.
StructuredAnswer(c, x, complete, fits) ==
    LET q == call[c]
        last == fits \/ q.tries + 1 = MaxTries
        whole == q.whole /\ complete
    IN  /\ q.pc = "sent"
        /\ q.kind = "structured"
        /\ Charges(c, x)
        /\ call' = [call EXCEPT ![c].pc = IF last THEN "answered" ELSE "sent",
                                ![c].tries = @ + 1,
                                ![c].whole = whole,
                                ![c].cost = @ + (IF complete THEN x ELSE 0),
                                ![c].settles = last /\ whole]
        /\ OnlyCall

\* Mutant: a refusal frees what was reserved, whatever went before.
RefusalSettles(q) == TRUE

\* A refusal is free; what the attempts before it cost must be known.
KnownAtRefusal(q) == q.whole

\* The provider answered with an error.
Refused(c) ==
    /\ call[c].pc = "sent"
    /\ call' = [call EXCEPT ![c].pc = "answered", ![c].settles = KnownAtRefusal(call[c])]
    /\ UNCHANGED billed
    /\ OnlyCall

\* Mutant: what was reserved for a lost answer is freed.
LostSettles == TRUE

\* Nobody knows what a lost answer cost.
LostHeld == FALSE

\* No answer in time, or the connection broke: the attempt may have been charged.
Lost(c, x) ==
    /\ call[c].pc = "sent"
    /\ Charges(c, x)
    /\ call' = [call EXCEPT ![c].pc = "answered", ![c].settles = LostHeld]
    /\ OnlyCall

\* call_llm_stream: the last chunk, with the final usage or without.
StreamEnd(c, x, final) ==
    /\ call[c].pc = "sent"
    /\ call[c].kind = "stream"
    /\ Charges(c, x)
    /\ call' = [call EXCEPT ![c].pc = "answered", ![c].settles = final,
                            ![c].cost = IF final THEN x ELSE 0]
    /\ OnlyCall

\* The reader goes away: what was not read is not known, or was final already.
StreamLeft(c, x, final) ==
    /\ call[c].pc = "sent"
    /\ call[c].kind = "stream"
    /\ Charges(c, x)
    /\ call' = [call EXCEPT ![c] = IF final THEN [@ EXCEPT !.pc = "closing", !.settles = TRUE, !.cost = x]
                                   ELSE Off]
    /\ OnlyCall

-----------------------------------------------------------------------------
(* Settling. *)

\* Mutant: a handle settles as often as it is asked.
AlwaysHeld(q) == TRUE

\* SettleHandle.done
StillHeld(q) == q.held

\* Mutant: it settles in the month it is answered.
MonthOfAnswer(q) == period

\* The month it was reserved in.
MonthOf(q) == q.p

After(q) == IF q.pc = "closing" THEN Off ELSE [q EXCEPT !.pc = "settled", !.held = FALSE]

\* _settle: what was reserved makes way for what was used.  A database error
\* leaves the counters, and is not tried again.
Settle(c, commits) ==
    LET q == call[c]
        d == q.cost - Projected(q.kind)
        p == MonthOf(q)
    IN  /\ q.pc \in {"answered", "closing"}
        /\ IF q.src = "platform" /\ q.settles /\ StillHeld(q)
           THEN /\ used' = IF commits THEN [used EXCEPT ![p][q.o] = @ + d] ELSE used
                /\ spend' = IF commits THEN [spend EXCEPT ![p] = @ + d] ELSE spend
                /\ call' = [call EXCEPT ![c] = After(q)]
           ELSE commits /\ call' = [call EXCEPT ![c] = After(q)] /\ UNCHANGED <<used, spend>>
        /\ UNCHANGED <<period, offered, org, own, ledger, claimed, billed, warned, retired>>

\* _write_ledger_row, then _post_write_soft_cap_crossing; a stream still closes.
WriteLedger(c) ==
    LET q == call[c]
    IN  /\ q.pc = "settled"
        /\ ledger' = IF q.src = "own" THEN [ledger EXCEPT ![period][q.o] = @ + q.cost] ELSE ledger
        /\ Warn(q.o, q.src = "own" /\ q.before < SoftCap /\ SoftCap <= q.before + q.cost)
        /\ call' = [call EXCEPT ![c] = IF q.kind = "stream" /\ q.settles
                                       THEN [q EXCEPT !.pc = "closing"] ELSE Off]
        /\ UNCHANGED <<period, offered, org, own, used, spend, billed, retired>>

\* The server dies; what was sent may be charged.
Die(c, x) ==
    /\ call[c] # Off
    /\ IF call[c].pc = "sent" THEN Charges(c, x) ELSE x = 0 /\ UNCHANGED billed
    /\ Leaves(c)
    /\ OnlyCall

NextMonth ==
    /\ period < MaxPeriod
    /\ period' = period + 1
    /\ UNCHANGED <<offered, org, own, Counters, claimed, call, billed, warned, retired>>

-----------------------------------------------------------------------------
AIInit ==
    /\ period = 1
    /\ offered = TRUE
    /\ org = [o \in Orgs |-> [consent |-> FALSE, creds |-> {}, route |-> [f \in Features |-> "none"]]]
    /\ own = [o \in Orgs |-> [key |-> 1, models |-> 1, next |-> 2]]
    /\ used = Zero /\ ledger = Zero /\ billed = Zero /\ warned = Zero
    /\ spend = [p \in Periods |-> 0]
    /\ claimed = [o \in Orgs |-> {}]
    /\ call = [c \in Calls |-> Off]
    /\ retired = [o \in Orgs |-> {}]

OrgNext ==
    \/ \E o \in Orgs, cred \in {"own", "platform"} :
          \/ AddCredential(o, cred) \/ RemoveCredential(o, cred)
          \/ \E f \in Features : SetRoute(o, f, cred)
    \/ \E o \in Orgs : DeleteRoute(o) \/ WriteConsent(o)
    \/ SetPlatformAI

KeyNext ==
    \/ \E c \in Calls, o \in Orgs, what \in {"rotates", "validates"} : AskKey(c, o, what)
    \/ \E c \in Calls, differ \in BOOLEAN : ValidateCommit(c, differ)
    \/ \E c \in Calls : RotateCommit(c)

CallNext ==
    \/ \E c \in Calls, o \in Orgs, kind \in Kinds : Prepare(c, o, kind)
    \/ \E c \in Calls : Reserve(c) \/ Refused(c) \/ WriteLedger(c)
    \/ \E c \in Calls, commits \in BOOLEAN : Settle(c, commits)
    \/ \E c \in Calls, x \in 0..Bound, complete \in BOOLEAN :
          \/ Answer(c, x, complete) \/ StreamEnd(c, x, complete) \/ StreamLeft(c, x, complete)
          \/ \E fits \in BOOLEAN : StructuredAnswer(c, x, complete, fits)
    \/ \E c \in Calls, x \in 0..Bound : EmbedAnswer(c, x) \/ Lost(c, x) \/ Die(c, x)
    \/ NextMonth

-----------------------------------------------------------------------------
(* Properties. *)

\* A route leads to a credential of the organisation, and what waits to be
\* settled is still counted.
AITypeOK ==
    /\ ledger \in UsageLedger
    /\ \A o \in Orgs : org[o].route \in Routing /\ own[o] \in KeyRow
    /\ \A o \in Orgs, f \in Features : org[o].route[f] \in org[o].creds \cup {"none"}
    /\ \A c \in Calls : call[c].pc \in {"sent", "answered"} /\ call[c].held =>
          Projected(call[c].kind) <= used[call[c].p][call[c].o]

\* What the provider charged the platform is counted in the month it was
\* reserved, whatever was lost, retried, or died (_settle).
SpendCovered ==
    \A p \in Periods :
        /\ \A o \in Orgs : billed[p][o] <= used[p][o]
        /\ Total(billed[p]) <= spend[p]

\* Concurrent calls never reserve past the plan's limit or the platform's
\* ceiling (reserve).
CeilingHeld ==
    \A p \in Periods : spend[p] <= Ceiling /\ \A o \in Orgs : used[p][o] <= OrgLimit

\* An organisation is warned of its soft cap once a month, as long as the store
\* of the mark answers (_maybe_warn_soft_cap).
WarnedOnce == \A p \in Periods, o \in Orgs : warned[p][o] <= 1

\* A key that was replaced never comes back (validate_credential).
KeysStayRetired == \A o \in Orgs : own[o].key \notin retired[o]
=============================================================================
