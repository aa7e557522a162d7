---------------------------- MODULE AgentActions ----------------------------
(***************************************************************************)
(* Changes an agent asks for: each is previewed, stored, and executed only *)
(* when it is confirmed, by the person in the app or, for a plain write,   *)
(* by the agent token that staged it.  One row stands for the data the     *)
(* tools change.  Requests overlap, may be cut off, and outlive a release. *)
(***************************************************************************)
EXTENDS AgentTools, Integers, FiniteSets

CONSTANTS
    Calls,
    Ids,         \* identifiers of stored actions
    Values,      \* what the row may hold
    Tokens,      \* agent tokens
    AutoTokens,  \* those with the scope agent:auto
    InUse,       \* names of the tools that are called
    Promoted,    \* tools that a release makes sensitive
    MaxLive      \* MAX_LIVE_ORG

VARIABLES
    data,        \* the row, or Gone
    holder,      \* the request that holds the row, or Nobody
    act,         \* identifier -> stored action
    call,        \* request -> what it does
    release,     \* the version new requests run under
    made,        \* rows that tools made
    applied,     \* action -> how often it was carried out
    via          \* action -> who confirmed what was carried out

agentVars == <<data, holder, act, call, release, made, applied, via>>

Gone == "gone"
Nobody == "nobody"
InApp == "in app"
AgentAssumption == Nobody \notin Calls
Rest == [pc |-> "rest"]
None == [status |-> "none"]
Purged == [status |-> "purged"]
Tools == {t \in Catalogue : t.name \in InUse}
RiskIn(t, version) == IF version = 2 /\ t.name \in Promoted THEN "sensitive" ELSE t.risk

\* A row of agent_pending_actions.
ActionRow == [status : {"pending", "executing", "done", "failed", "stale", "cancelled"},
              tool : Catalogue, value : Values \cup {"new"}, before : Values \cup {Gone, "new"},
              risk : {"write", "sensitive"}, who : Tokens \cup {InApp}, expired : BOOLEAN]

Stored(a) == act[a] \notin {None, Purged}
Live(a) == Stored(a) /\ act[a].status = "pending" /\ ~ act[a].expired
To(c, pc) == call' = [call EXCEPT ![c].pc = pc]
Leaves(c) == call' = [call EXCEPT ![c] = Rest]
Enters(c, q) == call[c] = Rest /\ call' = [call EXCEPT ![c] = q]
Freed(c) == holder' = IF holder = c THEN Nobody ELSE holder

-----------------------------------------------------------------------------
(* Proposals. *)

\* _check_ceiling, which nothing holds until the action is stored.
AskPropose(c, who, t, v) ==
    /\ t.risk # "read"
    /\ Cardinality({a \in Ids : Live(a)}) < MaxLive
    /\ Enters(c, [pc |-> "proposes", who |-> who, tool |-> t, value |-> v, version |-> release])
    /\ UNCHANGED <<data, holder, act, release, made, applied, via>>

\* revert_action: the same tool, with what the row held before.
AskRevert(c, a) ==
    /\ Stored(a)
    /\ act[a].status = "done"
    /\ act[a].risk = "write"
    /\ RiskIn(act[a].tool, release) = "write"
    /\ AskPropose(c, InApp, act[a].tool, act[a].before)

\* What the preview says of the row: a tool that makes one of its arguments
\* alone says nothing.
Seen(t) == IF t.does = "make" THEN "new" ELSE data

\* The preview finds the row, and something to change.
Previewed(t, v) ==
    /\ t.does # "make" => data # Gone
    /\ t.does = "set" => data # v

\* A preview that locks the row waits for it.
MayLock(t) == t.holds => holder = Nobody

NewRow(q) ==
    [status |-> "pending", tool |-> q.tool, value |-> q.value, before |-> Seen(q.tool),
     risk |-> RiskIn(q.tool, q.version), who |-> q.who, expired |-> FALSE]

IsAuto(q) == q.who \in AutoTokens /\ RiskIn(q.tool, q.version) = "write"

Propose(c, a) ==
    LET q == call[c]
    IN  /\ q.pc = "proposes"
        /\ act[a] = None
        /\ MayLock(q.tool)
        /\ Previewed(q.tool, q.value)
        /\ act' = [act EXCEPT ![a] = NewRow(q)]
        /\ IF IsAuto(q)
           THEN call' = [call EXCEPT ![c] = [pc |-> "confirms", who |-> q.who, a |-> a,
                                             auto |-> TRUE, version |-> q.version]]
           ELSE Leaves(c)
        /\ UNCHANGED <<data, holder, release, made, applied, via>>

\* A limit is reached, a gate is closed, or there is nothing to change.
RefuseProposal(c) ==
    /\ call[c].pc = "proposes"
    /\ Leaves(c)
    /\ UNCHANGED <<data, holder, act, release, made, applied, via>>

-----------------------------------------------------------------------------
(* Decisions. *)

\* Mutant: any token confirms what any token staged.
AnyoneOf(who, a) == TRUE

\* _mine: a token finds what it staged, the app finds everything.
Mine(who, a) == who = InApp \/ act[a].who = who

\* Mutant: an action that seems stuck may be confirmed again.
ClaimableAgain(who, a) ==
    /\ Stored(a) /\ act[a].status \in {"pending", "executing"} /\ ~ act[a].expired
    /\ who # InApp => act[a].risk # "sensitive"
    /\ Mine(who, a)

\* The condition of the update that claims an action.
Claimable(who, a) ==
    /\ Live(a)
    /\ who # InApp => act[a].risk # "sensitive"
    /\ Mine(who, a)

AskConfirm(c, who, a) ==
    /\ act[a] # None
    /\ Enters(c, [pc |-> "confirms", who |-> who, a |-> a, auto |-> FALSE, version |-> release])
    /\ UNCHANGED <<data, holder, act, release, made, applied, via>>

\* An automatic action that is refused does not stay pending.
Withdrawn(q) ==
    IF q.auto /\ Stored(q.a) /\ act[q.a].status = "pending"
    THEN [act EXCEPT ![q.a].status = "cancelled"] ELSE act

\* Refused by a limit, or by the claim.
RefuseConfirm(c) ==
    /\ call[c].pc = "confirms"
    /\ act' = Withdrawn(call[c])
    /\ Leaves(c)
    /\ UNCHANGED <<data, holder, release, made, applied, via>>

Claim(c) ==
    /\ call[c].pc = "confirms"
    /\ Claimable(call[c].who, call[c].a)
    /\ act' = [act EXCEPT ![call[c].a].status = "executing"]
    /\ To(c, "claimed")
    /\ UNCHANGED <<data, holder, release, made, applied, via>>

SensitiveNow(q) == q.who # InApp /\ RiskIn(act[q.a].tool, q.version) = "sensitive"

\* The tool became sensitive since: the claim is given back.
GiveBack(c) ==
    /\ call[c].pc = "claimed"
    /\ SensitiveNow(call[c])
    /\ act' = [act EXCEPT ![call[c].a].status = IF @ = "executing" THEN "pending" ELSE @]
    /\ Leaves(c)
    /\ UNCHANGED <<data, holder, release, made, applied, via>>

\* Mutant: the fingerprint is of the arguments alone.
SameArguments(a) == TRUE

\* The fingerprint of the tool, its arguments and what the preview says
SameFingerprint(a) == Seen(act[a].tool) = act[a].before

Ends(c, status, fresh) ==
    call' = [call EXCEPT ![c] = [pc |-> "ends", who |-> @.who, a |-> @.a, version |-> @.version,
                                 auto |-> @.auto, status |-> status, fresh |-> fresh]]

\* The gates and the preview again.  Nothing commits from here to the end of
\* Execute: both run on the session that holds the preview's locks (confirm's
\* docstring, tools.py, get_caller_session), although the header of actions.py
\* calls the re-preview and the execute two transactions.
Repreview(c) ==
    LET q == call[c]
        t == act[q.a].tool
    IN  /\ q.pc = "claimed"
        /\ ~ SensitiveNow(q)
        /\ MayLock(t)
        /\ Previewed(t, act[q.a].value)
        /\ holder' = IF t.holds THEN c ELSE holder
        /\ IF SameFingerprint(q.a)
           THEN To(c, "matches")
           ELSE Ends(c, "stale", [NewRow([tool |-> t, value |-> act[q.a].value, version |-> q.version,
                                          who |-> q.who]) EXCEPT !.status = "pending"])
        /\ UNCHANGED <<data, act, release, made, applied, via>>

\* A gate is closed, the row is gone, the handler refuses, or the request is
\* cut off: the transaction is rolled back.
Fail(c) ==
    /\ call[c].pc \in {"claimed", "matches"}
    /\ call[c].pc = "claimed" => ~ SensitiveNow(call[c])
    /\ Freed(c)
    /\ Ends(c, "failed", None)
    /\ UNCHANGED <<data, act, release, made, applied, via>>

\* The route's handler, which commits.  A row gone meanwhile is not found.
Execute(c) ==
    LET q == call[c]
        t == act[q.a].tool
    IN  /\ q.pc = "matches"
        /\ holder \in {Nobody, c}
        /\ t.does # "make" => data # Gone
        /\ data' = CASE t.does = "set" -> act[q.a].value
                     [] t.does = "remove" -> Gone
                     [] OTHER -> data
        /\ made' = IF t.does \in {"make", "make from"} THEN made \cup {q.a} ELSE made
        /\ applied' = [applied EXCEPT ![q.a] = @ + 1]
        /\ via' = [via EXCEPT ![q.a] = [who |-> q.who, risk |-> RiskIn(t, q.version)]]
        /\ Freed(c)
        /\ Ends(c, "done", None)
        /\ UNCHANGED <<act, release>>

\* The outcome, and what replaces a stale preview
Finish(c, a) ==
    LET q == call[c]
        ended == [act EXCEPT ![q.a].status = IF @ = "executing" THEN q.status ELSE @]
    IN  /\ q.pc = "ends"
        /\ act' = IF q.fresh = None THEN ended ELSE [ended EXCEPT ![a] = q.fresh]
        /\ q.fresh # None => act[a] = None
        /\ Freed(c)
        /\ Leaves(c)
        /\ UNCHANGED <<data, release, made, applied, via>>

\* The commit of the outcome fails, whatever was carried out.
FinishFails(c) ==
    /\ call[c].pc = "ends"
    /\ call[c].status # "failed"
    /\ Freed(c)
    /\ Ends(c, "failed", None)
    /\ UNCHANGED <<data, act, release, made, applied, via>>

Cancel(who, a) ==
    /\ Live(a)
    /\ Mine(who, a)
    /\ act' = [act EXCEPT ![a].status = "cancelled"]
    /\ UNCHANGED <<data, holder, call, release, made, applied, via>>

Die(c) ==
    /\ call[c] # Rest
    /\ Freed(c)
    /\ Leaves(c)
    /\ UNCHANGED <<data, act, release, made, applied, via>>

-----------------------------------------------------------------------------
(* The rest of the application. *)

\* Someone else changes or deletes the row.
Elsewhere(v) ==
    /\ holder = Nobody
    /\ data \notin {v, Gone}
    /\ data' = v
    /\ UNCHANGED <<holder, act, call, release, made, applied, via>>

\* PENDING_TTL
Expire(a) ==
    /\ Live(a)
    /\ act' = [act EXCEPT ![a].expired = TRUE]
    /\ UNCHANGED <<data, holder, call, release, made, applied, via>>

\* run_agent_action_purge, long after any request about the action
Purge(a) ==
    /\ Stored(a)
    /\ act[a].expired
    /\ \A c \in Calls : call[c].pc \in {"confirms", "claimed", "matches", "ends"} => call[c].a # a
    /\ act' = [act EXCEPT ![a] = Purged]
    /\ UNCHANGED <<data, holder, call, release, made, applied, via>>

Deploy ==
    /\ release = 1
    /\ Promoted # {}
    /\ release' = 2
    /\ UNCHANGED <<data, holder, act, call, made, applied, via>>

-----------------------------------------------------------------------------
AgentInit ==
    /\ data \in Values
    /\ holder = Nobody
    /\ act = [a \in Ids |-> None]
    /\ call = [c \in Calls |-> Rest]
    /\ release = 1
    /\ made = {}
    /\ applied = [a \in Ids |-> 0]
    /\ via = [a \in Ids |-> None]

Who == {InApp} \cup Tokens

AgentNext ==
    \/ \E c \in Calls, who \in Who, t \in Tools, v \in Values : AskPropose(c, who, t, v)
    \/ \E c \in Calls, a \in Ids : AskRevert(c, a) \/ Propose(c, a) \/ Finish(c, a)
    \/ \E c \in Calls, a \in Ids, who \in Who : AskConfirm(c, who, a)
    \/ \E c \in Calls : \/ RefuseProposal(c) \/ RefuseConfirm(c) \/ Claim(c) \/ GiveBack(c)
                        \/ Repreview(c) \/ Fail(c) \/ Execute(c) \/ FinishFails(c) \/ Die(c)
    \/ \E a \in Ids : Expire(a) \/ Purge(a) \/ \E who \in Who : Cancel(who, a)
    \/ \E v \in Values \cup {Gone} : Elsewhere(v)
    \/ Deploy

-----------------------------------------------------------------------------
(* Properties. *)

\* Every tool in use can be registered, and the row is held by a request that has
\* matched its preview (register, _templated_preview).
AgentTypeOK ==
    /\ \A a \in Ids : Stored(a) => act[a] \in ActionRow
    /\ \A t \in Tools : Registrable(t, Catalogue)
    /\ holder # Nobody => call[holder].pc \in {"matches", "ends"}
    /\ \A a \in Ids : act[a].status = "executing" => ~ \E c, d \in Calls :
          c # d /\ {call[c].pc, call[d].pc} \subseteq {"claimed", "matches"} /\ call[c].a = a /\ call[d].a = a

\* However often and by whomever an action is confirmed, cut off or cancelled,
\* it is carried out at most once, and then never reads as undecided (confirm).
AppliedOnce ==
    \A a \in Ids :
        /\ applied[a] <= 1
        /\ Stored(a) /\ act[a].status = "done" => applied[a] = 1
        /\ Stored(a) /\ act[a].status \in {"pending", "stale", "cancelled"} => applied[a] = 0

\* What a tool that holds its row carries out starts from the row its preview
\* showed (_templated_preview, _fingerprint).
AsPreviewed ==
    \A a \in Ids : applied'[a] > applied[a] /\ act[a].tool.holds =>
        data = act[a].before

\* No agent carries out a sensitive action, nor one it did not stage (TBD-664).
PersonDecides ==
    \A a \in Ids : via[a] # None /\ Stored(a) /\ via[a].who # InApp =>
        /\ act[a].who = via[a].who
        /\ "sensitive" \notin {act[a].risk, via[a].risk}
=============================================================================
