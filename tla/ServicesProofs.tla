--------------------------- MODULE ServicesProofs ---------------------------
(* What an organisation pays for and what agents do for it, for any number of *)
(* requests, actions, days and rows: one part of the specification at a time, *)
(* as the steps of the others leave its variables alone.                      *)
EXTENDS MCServices, SumTheorems

-----------------------------------------------------------------------------
(* Turns: a turn that may still start a call holds the lease, and the lease   *)
(* lasts longer than its call.                                                *)

Lease == [holder : T!Names \cup {0}, left : 0 .. LeaseTime]
Turn == [pc : T!Phases, holder : T!Names \cup {0}, left : 0 .. TurnTime, phase : Nat,
         rounds : 0 .. MaxRounds]
TurnTypes == lease \in Lease /\ turn \in [Turners -> Turn]

\* No two turns under way have one name.
NamesDiffer ==
    \A t, u \in Turners :
        turn[t].pc # "idle" => turn[t].holder # 0 /\ (turn[t].holder = turn[u].holder => t = u)

HoldsLease(t) == lease.holder = turn[t].holder /\ lease.left > turn[t].left
\* A turn that is admitted, or has time for a call, or waits for one, holds the
\* lease, which outlives it.
AdmittedHolds(t) ==
    turn[t].pc = "admitting" =>
        /\ lease.holder = turn[t].holder
        /\ turn[t].phase \in {0, 1}
        /\ lease.left >= LeaseTime - 1 + turn[t].phase
TimelyHolds(t) == turn[t].pc \in {"between", "tools"} /\ turn[t].left > 0 => HoldsLease(t)
CallerHolds(t) ==
    turn[t].pc \in {"calling", "reaping"} => HoldsLease(t) /\ turn[t].phase <= turn[t].left
TurnInv ==
    /\ TurnTypes
    /\ NamesDiffer
    /\ \A t \in Turners : AdmittedHolds(t) /\ TimelyHolds(t) /\ CallerHolds(t)

\* The module of finite sets is one, whoever refers to it.
LEMMA SameFiniteSets ==
    ASSUME NEW X
    PROVE  T!IsFiniteSet(X) = IsFiniteSet(X) /\ T!Cardinality(X) = Cardinality(X)
<1>1. T!IsFiniteSet(X) = IsFiniteSet(X)
  BY DEF T!IsFiniteSet, IsFiniteSet
<1>2. T!Cardinality(X) = Cardinality(X)
  BY DEF T!Cardinality, Cardinality
<1> QED BY <1>1, <1>2

\* There is always a name that no row and no request carries.
LEMMA FreshName ==
    ASSUME T!TurnAssumption, TurnTypes, NEW t \in Turners
    PROVE  \E n \in T!Names : n # lease.holder /\ \A u \in Turners : turn[u].holder # n
<1> DEFINE f == [u \in Turners |-> turn[u].holder]
           named == {f[u] : u \in Turners}
           carried == named \cup {lease.holder}
<1>1. IsFiniteSet(Turners) /\ Cardinality(Turners) \in Nat
  BY SameFiniteSets, FS_CardinalityType DEF T!TurnAssumption
<1>2. Cardinality(Turners) # 0
  BY <1>1, FS_EmptySet
<1>3. f \in Surjection(Turners, named)
  BY DEF Surjection
<1>4. IsFiniteSet(named) /\ Cardinality(named) <= Cardinality(Turners)
  <2> HIDE DEF f, named
  <2> QED BY <1>1, <1>3, FS_Surjection
<1>5. IsFiniteSet(carried) /\ Cardinality(carried) \in Nat /\ Cardinality(carried) <= Cardinality(Turners) + 1
  <2> HIDE DEF f, named
  <2>1. Cardinality(named) \in Nat
    BY <1>4, FS_CardinalityType
  <2>2. IsFiniteSet(carried) /\ Cardinality(carried) <= Cardinality(named) + 1
    BY <1>4, <2>1, FS_AddElement
  <2> QED BY <1>1, <1>4, <2>1, <2>2, FS_CardinalityType
<1>6. Cardinality(T!Names) = 2 * Cardinality(Turners) + 1
  <2>1. 2 * Cardinality(Turners) + 1 \in Int /\ 2 * Cardinality(Turners) + 1 >= 1
    BY <1>1
  <2> QED BY <2>1, FS_Interval, SameFiniteSets DEF T!Names
<1>7. ~ (T!Names \subseteq carried)
  <2> HIDE DEF f, named, carried
  <2>1. SUFFICES ASSUME T!Names \subseteq carried PROVE Cardinality(T!Names) <= Cardinality(carried)
    BY <1>1, <1>2, <1>5, <1>6
  <2> QED BY <2>1, <1>5, FS_Subset
<1>8. PICK n \in T!Names : n \notin carried
  BY <1>7
<1>9. \A u \in Turners : turn[u].holder # n
  BY <1>8
<1> QED BY <1>8, <1>9

LEMMA TurnInitInv == T!TurnAssumption /\ T!TurnInit => TurnInv
  BY DEF T!TurnAssumption, T!TurnInit, TurnInv, TurnTypes, Lease, Turn, T!Names, T!Phases, T!Free, T!Idle, NamesDiffer,
         AdmittedHolds, TimelyHolds, CallerHolds

\* A request that takes the lease, which has run out, so nobody else counts on it.
LEMMA AcquireKeeps ==
    ASSUME T!TurnAssumption, TurnInv, NEW t \in Turners, T!AcquireLock(t)
    PROVE  TurnInv'
<1>1. PICK h \in T!Names : /\ h # lease.holder /\ \A u \in Turners : turn[u].holder # h
                         /\ lease' = [holder |-> h, left |-> LeaseTime]
                         /\ turn' = [turn EXCEPT ![t] = [T!Idle EXCEPT !.pc = "admitting", !.holder = h,
                                                                     !.phase = 1]]
  BY FreshName DEF T!AcquireLock, TurnInv
<1>2. lease.left = 0 /\ 0 \notin T!Names
  BY DEF T!AcquireLock, T!Takeable, T!Names
<1>3. \A u \in Turners \ {t} : turn'[u] = turn[u]
  BY <1>1 DEF TurnInv, TurnTypes
<1>4. turn'[t] = [pc |-> "admitting", holder |-> h, left |-> 0, phase |-> 1, rounds |-> 0]
  BY <1>1 DEF TurnInv, TurnTypes, T!Idle
<1>5. TurnTypes'
  <2>1. lease' \in Lease
    BY <1>1 DEF Lease, T!TurnAssumption
  <2>2. [pc |-> "admitting", holder |-> h, left |-> 0, phase |-> 1, rounds |-> 0] \in Turn
    BY DEF Turn, T!Phases, T!TurnAssumption
  <2>3. turn' \in [Turners -> Turn]
    BY <1>1, <2>2 DEF TurnInv, TurnTypes, T!Idle
  <2> QED BY <2>1, <2>3 DEF TurnTypes
<1>6. NamesDiffer'
  BY <1>1, <1>2, <1>3, <1>4 DEF TurnInv, NamesDiffer
<1>7. \A u \in Turners \ {t} : turn[u].pc # "admitting" /\ ~ HoldsLease(u)
  BY <1>2 DEF TurnInv, TurnTypes, Lease, Turn, AdmittedHolds, HoldsLease, T!TurnAssumption
<1>8. \A u \in Turners : AdmittedHolds(u)' /\ TimelyHolds(u)' /\ CallerHolds(u)'
  BY <1>1, <1>3, <1>4, <1>7 DEF TurnInv, AdmittedHolds, TimelyHolds, CallerHolds, HoldsLease, T!TurnAssumption
<1> QED BY <1>5, <1>6, <1>8 DEF TurnInv

\* One request that keeps its name moves on and leaves the lease alone.
LEMMA TurnMoveKeeps ==
    ASSUME TurnInv, NEW t \in Turners, NEW q \in Turn,
           turn[t].pc # "idle",
           turn' = [turn EXCEPT ![t] = q], UNCHANGED lease,
           q.pc = "idle" => q.holder = 0,
           q.pc # "idle" => q.holder = turn[t].holder,
           q.pc # "admitting",
           q.pc \in {"between", "tools"} /\ q.left > 0 => lease.holder = q.holder /\ lease.left > q.left,
           q.pc \in {"calling", "reaping"} =>
               lease.holder = q.holder /\ lease.left > q.left /\ q.phase <= q.left
    PROVE  TurnInv'
<1>1. turn'[t] = q /\ \A u \in Turners \ {t} : turn'[u] = turn[u]
  BY DEF TurnInv, TurnTypes
<1>2. TurnTypes'
  BY DEF TurnInv, TurnTypes
<1>3. NamesDiffer'
  BY <1>1 DEF TurnInv, NamesDiffer
<1>4. \A u \in Turners : AdmittedHolds(u)' /\ TimelyHolds(u)' /\ CallerHolds(u)'
  BY <1>1 DEF TurnInv, AdmittedHolds, TimelyHolds, CallerHolds, HoldsLease
<1> QED BY <1>2, <1>3, <1>4 DEF TurnInv

\* A request that has no call under way gives the lease up, if it is its own.
LEMMA ReleaseKeeps ==
    ASSUME T!TurnAssumption, TurnInv, NEW t \in Turners, NEW q \in Turn,
           turn[t].pc # "idle",
           turn' = [turn EXCEPT ![t] = q], lease' = T!Released(turn[t].holder),
           q.pc \in {"idle", "finally"},
           q.pc = "idle" => q.holder = 0,
           q.pc = "finally" => q.holder = turn[t].holder
    PROVE  TurnInv'
<1>1. turn'[t] = q /\ \A u \in Turners \ {t} : turn'[u] = turn[u]
  BY DEF TurnInv, TurnTypes
<1>2. TurnTypes'
  <2>1. T!Free \in Lease
    BY DEF T!Free, Lease, T!TurnAssumption
  <2> QED BY <2>1 DEF TurnInv, TurnTypes, T!Released
<1>3. NamesDiffer'
  BY <1>1 DEF TurnInv, NamesDiffer
<1>4. ASSUME NEW u \in Turners \ {t}, lease.holder = turn[u].holder
      PROVE  lease' = lease
  BY <1>4 DEF TurnInv, NamesDiffer, T!Released
<1>5. \A u \in Turners : AdmittedHolds(u)' /\ TimelyHolds(u)' /\ CallerHolds(u)'
  BY <1>1, <1>4 DEF TurnInv, AdmittedHolds, TimelyHolds, CallerHolds, HoldsLease
<1> QED BY <1>2, <1>3, <1>5 DEF TurnInv

LEMMA TickKeeps ==
    ASSUME T!TurnAssumption, TurnInv, T!Tick
    PROVE  TurnInv'
<1>1. /\ lease'.holder = lease.holder /\ lease'.left = T!Less(lease.left)
      /\ lease' \in Lease
  <2>1. lease \in Lease /\ lease' = [lease EXCEPT !.left = T!Less(lease.left)]
    BY DEF T!Tick, TurnInv, TurnTypes
  <2>2. T!Less(lease.left) \in 0 .. LeaseTime
    BY <2>1 DEF Lease, T!Less, T!TurnAssumption
  <2> HIDE DEF T!Less
  <2> QED BY <2>1, <2>2 DEF Lease
<1>2. \A u \in Turners : /\ turn'[u] = [turn[u] EXCEPT !.left = T!Less(@), !.phase = T!Less(@)]
                         /\ turn'[u] \in Turn
                         /\ turn'[u].pc = turn[u].pc /\ turn'[u].holder = turn[u].holder
                         /\ turn'[u].left = T!Less(turn[u].left) /\ turn'[u].phase = T!Less(turn[u].phase)
  <2>1. TAKE u \in Turners
  <2>2. turn[u] \in Turn /\ turn'[u] = [turn[u] EXCEPT !.left = T!Less(turn[u].left),
                                                     !.phase = T!Less(turn[u].phase)]
    BY DEF T!Tick, TurnInv, TurnTypes
  <2>3. T!Less(turn[u].left) \in 0 .. TurnTime /\ T!Less(turn[u].phase) \in Nat
    BY <2>2 DEF Turn, T!Less, T!TurnAssumption
  <2> QED BY <2>2, <2>3 DEF Turn
<1>3. TurnTypes'
  BY <1>1, <1>2 DEF T!Tick, TurnTypes
<1>4. NamesDiffer'
  <2>1. \A u \in Turners : turn'[u].pc = turn[u].pc /\ turn'[u].holder = turn[u].holder
    BY <1>2
  <2> QED BY <2>1 DEF TurnInv, NamesDiffer
<1>5. ASSUME NEW u \in Turners
      PROVE  AdmittedHolds(u)' /\ TimelyHolds(u)' /\ CallerHolds(u)'
  <2>1. turn[u].left \in Nat /\ turn[u].phase \in Nat /\ lease.left \in Nat
    BY <1>5 DEF TurnInv, TurnTypes, Turn, Lease, T!TurnAssumption
  <2>2. turn[u].pc \in {"admitting", "calling", "reaping"} => turn[u].phase > 0
    BY DEF T!Tick
  <2>3. /\ turn'[u].pc = turn[u].pc /\ turn'[u].holder = turn[u].holder
        /\ turn'[u].left = T!Less(turn[u].left) /\ turn'[u].phase = T!Less(turn[u].phase)
    BY <1>2
  <2>4. AdmittedHolds(u) /\ TimelyHolds(u) /\ CallerHolds(u)
    BY DEF TurnInv
  <2>5. \A n \in Nat : T!Less(n) = IF n = 0 THEN 0 ELSE n - 1
    BY DEF T!Less
  <2>6. AdmittedHolds(u)'
    BY <1>1, <2>1, <2>2, <2>3, <2>4, <2>5 DEF AdmittedHolds, T!TurnAssumption
  <2>7. TimelyHolds(u)'
    BY <1>1, <2>1, <2>3, <2>4, <2>5 DEF TimelyHolds, HoldsLease
  <2>8. CallerHolds(u)'
    BY <1>1, <2>1, <2>2, <2>3, <2>4, <2>5 DEF CallerHolds, HoldsLease
  <2> QED BY <2>6, <2>7, <2>8
<1> QED BY <1>3, <1>4, <1>5 DEF TurnInv

LEMMA TurnNextInv ==
    ASSUME T!TurnAssumption, TurnInv, [T!TurnNext]_T!turnVars
    PROVE  TurnInv'
<1>1. CASE UNCHANGED T!turnVars
  BY <1>1 DEF T!turnVars, TurnInv, TurnTypes, NamesDiffer, AdmittedHolds, TimelyHolds, CallerHolds, HoldsLease
<1>2. CASE T!Tick
  BY <1>2, TickKeeps
<1>3. ASSUME NEW t \in Turners,
             \/ T!AcquireLock(t) \/ T!Refused(t) \/ T!Admitted(t)
             \/ T!StartRound(t) \/ T!StopRounds(t) \/ T!Answer(t) \/ T!Tools(t)
             \/ T!Disconnect(t) \/ T!Reap(t) \/ T!Close(t) \/ T!Finally(t) \/ T!Crash(t)
      PROVE  TurnInv'
  <2> DEFINE at == turn[t]
  <2>1. at \in Turn /\ T!Idle \in Turn /\ TurnTime \in Nat /\ CallTime \in Nat
    BY DEF TurnInv, TurnTypes, Turn, T!Idle, T!Phases, T!Names, T!TurnAssumption
  <2>2. AdmittedHolds(t) /\ TimelyHolds(t) /\ CallerHolds(t)
    BY DEF TurnInv
  <2>3. CASE T!AcquireLock(t)
    BY <2>3, AcquireKeeps
  <2>4. CASE T!Refused(t)
    BY <2>1, <2>4, ReleaseKeeps DEF T!Refused, T!Idle
  <2>5. CASE T!Admitted(t)
    <3> DEFINE q == [at EXCEPT !.pc = "between", !.left = TurnTime]
    <3>1. q \in Turn /\ q.pc = "between" /\ q.left = TurnTime /\ q.holder = at.holder
      <4>1. "between" \in T!Phases /\ TurnTime \in 0 .. TurnTime
        BY <2>1 DEF T!Phases
      <4> HIDE DEF at
      <4> QED BY <2>1, <4>1 DEF Turn
    <3>2. turn' = [turn EXCEPT ![t] = q] /\ at.pc = "admitting"
      BY <2>5 DEF T!Admitted, TurnInv, TurnTypes
    <3>3. lease.holder = q.holder /\ lease.left > q.left
      BY <2>2, <3>1, <3>2 DEF AdmittedHolds, T!TurnAssumption, TurnInv, TurnTypes, Lease
    <3> QED BY <2>5, <3>1, <3>2, <3>3, TurnMoveKeeps DEF T!Admitted
  <2>6. CASE T!StartRound(t)
    <3> DEFINE q == [at EXCEPT !.pc = "calling", !.phase = CallTime, !.rounds = @ + 1]
    <3>1. q \in Turn /\ q.pc = "calling" /\ q.left = at.left /\ q.holder = at.holder /\ q.phase = CallTime
      <4>1. "calling" \in T!Phases /\ at.rounds + 1 \in 0 .. MaxRounds
        BY <2>1, <2>6 DEF Turn, T!Phases, T!StartRound, T!TurnAssumption
      <4> HIDE DEF at
      <4> QED BY <2>1, <4>1 DEF Turn
    <3>2. turn' = [turn EXCEPT ![t] = q] /\ at.pc = "between" /\ at.left >= CallTime
      BY <2>6 DEF T!StartRound, T!InTime, TurnInv, TurnTypes
    <3>3. lease.holder = q.holder /\ lease.left > q.left
      BY <2>1, <2>2, <3>1, <3>2 DEF TimelyHolds, HoldsLease, T!TurnAssumption, Turn
    <3> QED BY <2>6, <3>1, <3>2, <3>3, TurnMoveKeeps DEF T!StartRound
  <2>7. CASE T!StopRounds(t) \/ T!Answer(t) \/ T!Tools(t) \/ T!Disconnect(t) \/ T!Reap(t)
    <3>1. PICK pc \in T!Phases \ {"idle", "admitting"} :
            /\ turn' = [turn EXCEPT ![t].pc = pc] /\ UNCHANGED lease
            /\ at.pc \in {"between", "calling", "tools", "closing", "reaping"}
            /\ pc \in {"between", "tools"} => at.pc \in {"calling", "tools"}
            /\ pc \in {"calling", "reaping"} => at.pc = "calling"
      BY <2>7 DEF T!StopRounds, T!Answer, T!Tools, T!Disconnect, T!Reap, T!To, T!AfterDisconnect, T!Phases
    <3> DEFINE q == [at EXCEPT !.pc = pc]
    <3>2. q \in Turn /\ q.pc = pc /\ q.left = at.left /\ q.holder = at.holder /\ q.phase = at.phase
      BY <2>1 DEF Turn
    <3>3. turn' = [turn EXCEPT ![t] = q]
      BY <3>1
    <3> HIDE DEF q
    <3> QED BY <2>2, <3>1, <3>2, <3>3, TurnMoveKeeps DEF TimelyHolds, CallerHolds, HoldsLease
  <2>8. CASE T!Close(t)
    <3> DEFINE q == [at EXCEPT !.pc = "finally"]
    <3>1. q \in Turn /\ q.pc = "finally" /\ q.holder = at.holder /\ at.pc # "idle"
          /\ turn' = [turn EXCEPT ![t] = q]
      BY <2>1, <2>8 DEF Turn, T!Phases, T!Close, T!To
    <3> QED BY <2>8, <3>1, ReleaseKeeps DEF T!Close
  <2>9. CASE T!Finally(t)
    BY <2>1, <2>9, ReleaseKeeps DEF T!Finally, T!Idle
  <2>10. CASE T!Crash(t)
    BY <2>1, <2>10, TurnMoveKeeps DEF T!Crash, T!Idle
  <2> QED BY <1>3, <2>3, <2>4, <2>5, <2>6, <2>7, <2>8, <2>9, <2>10
<1> QED BY <1>1, <1>2, <1>3 DEF T!TurnNext

LEMMA TurnStepInv ==
    ASSUME ServicesAssumption, focus = "turns" => TurnInv, [Next]_serviceVars
    PROVE  (focus = "turns" => TurnInv)'
<1>1. CASE TurnStep
  BY <1>1, TurnNextInv DEF TurnStep, ServicesAssumption
<1>2. CASE UNCHANGED serviceVars
  BY <1>2, TurnNextInv DEF serviceVars, turnVars, T!turnVars, ServicesAssumption
<1>3. CASE SpendStep \/ SubStep \/ AgentStep \/ BroadcastStep
  BY <1>3 DEF SpendStep, SubStep, AgentStep, BroadcastStep, S!Next, SpendFoci, SubFoci
<1> QED BY <1>1, <1>2, <1>3 DEF Next

LEMMA TurnInvSafe == (focus = "turns" => TurnInv) => TurnsSafe
  BY DEF TurnsSafe, TurnInv, TurnTypes, Lease, Turn, T!TurnTypeOK, T!OneCallAtATime, NamesDiffer,
         CallerHolds, HoldsLease

\* At most one turn of an organisation has a provider call under way, however
\* slow its tools and clients are, whatever dies and whoever releases the lease
\* late: agent_chat's deadline and LOCK_TTL_SECONDS are enough for it.
THEOREM TurnsCorrect == Spec => []TurnsSafe
<1>1. Init => (focus = "turns" => TurnInv)
  BY ServicesAssumption, TurnInitInv DEF Init, ServicesAssumption
<1>2. (focus = "turns" => TurnInv) /\ [Next]_serviceVars => (focus = "turns" => TurnInv)'
  BY ServicesAssumption, TurnStepInv
<1> QED BY <1>1, <1>2, TurnInvSafe, PTL DEF Spec

-----------------------------------------------------------------------------
(* Agents: whoever works on an action has claimed it, and nobody claims it    *)
(* again, so what the claim was worth when it was made it is worth at the end.*)

Writes == {t \in A!Catalogue : t.risk # "read"}
Row == {r \in A!ActionRow : /\ r.tool \in Writes /\ r.value \in Values
                            /\ r.before \in Values \/ r.tool.does = "make"}
Versions == {1, 2}
Working == {"claimed", "matches", "ends"}
AgentCall ==
    {A!Rest}
    \cup [pc : {"proposes"}, who : A!Who, tool : Writes, value : Values,
          version : Versions]
    \cup [pc : {"confirms", "claimed", "matches"}, who : A!Who, a : Ids, auto : BOOLEAN,
          version : Versions]
    \cup [pc : {"ends"}, who : A!Who, a : Ids, auto : BOOLEAN, version : Versions,
          status : {"done", "stale", "failed"}, fresh : Row \cup {A!None}]
AgentTypes ==
    /\ data \in Values \cup {A!Gone}
    /\ holder \in Requests \cup {A!Nobody}
    /\ act \in [Ids -> Row \cup {A!None, A!Purged}]
    /\ asking \in [Requests -> AgentCall]
    /\ release \in Versions
    /\ applied \in [Ids -> Nat]
    /\ via \in [Ids -> {A!None} \cup [who : A!Who, risk : {"write", "sensitive"}]]

\* A request that works on an action is the only one, and the action is neither
\* undecided nor decided.
Claimed ==
    \A c \in Requests : asking[c].pc \in Working =>
        /\ act[asking[c].a].status = "executing"
        /\ \A d \in Requests : asking[d].pc \in Working /\ asking[d].a = asking[c].a => d = c
\* What was carried out is what the action, or the request that is about to say
\* so, reads.
Counted(a) ==
    /\ applied[a] <= 1
    /\ act[a].status \in {"none", "pending", "stale", "cancelled"} => applied[a] = 0
    /\ act[a].status = "done" => applied[a] = 1
    /\ act[a].status = "none" => via[a] = A!None
Reports(q) ==
    /\ q.pc \in {"claimed", "matches"} => applied[q.a] = 0
    /\ q.pc = "ends" => /\ q.status = "done" => applied[q.a] = 1
                        /\ q.status = "stale" => applied[q.a] = 0
                        /\ q.fresh # A!None => q.status = "stale" /\ q.fresh.status = "pending"
\* An agent that works on an action staged it, and the action was never sensitive.
Allowed(q) ==
    /\ q.pc \in {"claimed", "matches"} /\ q.who # A!InApp =>
           act[q.a].who = q.who /\ act[q.a].risk = "write"
    /\ q.pc = "matches" /\ q.who # A!InApp => A!RiskIn(act[q.a].tool, q.version) = "write"
Decides(a) ==
    via[a] # A!None /\ A!Stored(a) /\ via[a].who # A!InApp =>
        act[a].who = via[a].who /\ "sensitive" \notin {act[a].risk, via[a].risk}
\* A request that has matched a preview that holds the row still does.
Holds(c) ==
    asking[c].pc = "matches" /\ act[asking[c].a].tool.holds =>
        holder = c /\ data = act[asking[c].a].before
AgentInv ==
    /\ AgentTypes
    /\ Claimed
    /\ \A a \in Ids : Counted(a)
    /\ \A c \in Requests : Reports(asking[c]) /\ Allowed(asking[c]) /\ Holds(c)
    /\ \A a \in Ids : Decides(a)
    /\ holder # A!Nobody => asking[holder].pc \in {"matches", "ends"}
AgentInvariant == focus = "agent" => AgentInv

\* The names of the catalogue, by what the tools do.
ReadNames == {"accounts_get", "account_types_list", "cycle_payments_list",
    "billing_cycle_get", "billing_periods_list", "forecast_plan_get",
    "notification_preferences_get", "recurring_list", "reports_list", "reports_get",
    "report_versions_list", "reports_query", "reports_sankey_query", "scenarios_list",
    "scenarios_get", "scenarios_simulate", "scenarios_compare", "accounts_list",
    "categories_list", "budgets_list", "transactions_search", "spending_by_category",
    "forecast_get", "transactions_get"}
SetNames == {"accounts_update", "account_types_update", "budgets_rebalance",
    "budgets_update_amount", "categories_update", "recurring_update",
    "transactions_set_category", "transactions_update"}
MoneyNames == {"accounts_update_money", "accounts_adjust_balance",
    "cycle_payments_upsert", "forecast_plan_activate", "forecast_plan_revert",
    "notification_preferences_update", "recurring_update_money",
    "recurring_skip_next", "recurring_materialise_next", "reports_update",
    "reports_update_layout", "reports_reset", "report_version_restore",
    "scenarios_update", "plan_goal_update", "transactions_update_money"}
DeriveNames == {"billing_cycle_update", "billing_period_close", "categories_move",
    "categories_batch_move", "recurring_stop", "recurring_generate",
    "forecast_plan_populate", "forecast_plan_refresh", "forecast_plan_copy",
    "forecast_plan_item_add", "forecast_plan_items_bulk", "forecast_plan_item_update"}
MakeNames == {"accounts_create", "account_types_create", "billing_period_create",
    "reports_create", "scenarios_create"}
FromNames == {"cycle_payments_create", "billing_periods_ensure_future", "budgets_create",
    "budgets_from_forecast", "budgets_copy_from_period", "budgets_draft_next",
    "categories_create", "categories_restore_recommended", "recurring_create",
    "reports_duplicate", "plan_goal_create", "transactions_create",
    "transactions_transfer"}
RemoveNames == {"accounts_delete", "account_types_delete", "cycle_payments_delete",
    "budgets_delete", "categories_delete", "recurring_delete", "reports_delete",
    "scenarios_delete", "plan_goal_delete", "transactions_delete"}
UnheldNames == {"forecast_plan_item_delete", "forecast_plan_discard"}
Sorted == A!Reads(ReadNames) \cup A!Sets(SetNames) \cup A!MoneySets(MoneyNames)
              \cup A!Derives(DeriveNames) \cup A!Makes(MakeNames)
              \cup A!MakesFrom(FromNames) \cup A!Removes(RemoveNames)
              \cup A!RemovesUnheld(UnheldNames)

LEMMA MoreNames ==
    ASSUME NEW n
    PROVE  /\ n \subseteq ReadNames => A!Reads(n) \subseteq Sorted
           /\ n \subseteq SetNames => A!Sets(n) \subseteq Sorted
           /\ n \subseteq MoneyNames => A!MoneySets(n) \subseteq Sorted
           /\ n \subseteq DeriveNames => A!Derives(n) \subseteq Sorted
           /\ n \subseteq MakeNames => A!Makes(n) \subseteq Sorted
           /\ n \subseteq FromNames => A!MakesFrom(n) \subseteq Sorted
           /\ n \subseteq RemoveNames => A!Removes(n) \subseteq Sorted
           /\ n \subseteq UnheldNames => A!RemovesUnheld(n) \subseteq Sorted
  BY DEF Sorted, A!Tool, A!Reads, A!Sets, A!MoneySets, A!Derives, A!Makes, A!MakesFrom,
         A!Removes, A!RemovesUnheld

LEMMA CatalogueSorted == A!Catalogue \subseteq Sorted
<1>1. A!AccountReads \subseteq Sorted
  BY MoreNames DEF A!AccountReads, ReadNames
<1>2. A!AccountTools \subseteq Sorted
  BY MoreNames DEF A!AccountTools, SetNames, MakeNames
<1>3. A!AccountMoneyTools \subseteq Sorted
  BY MoreNames DEF A!AccountMoneyTools, MoneyNames
<1>4. A!AccountDeleteTools \subseteq Sorted
  BY MoreNames DEF A!AccountDeleteTools, RemoveNames
<1>5. A!AdjustTools \subseteq Sorted
  BY MoreNames DEF A!AdjustTools, MoneyNames
<1>6. A!AccountTypeTools \subseteq Sorted
  BY MoreNames DEF A!AccountTypeTools, SetNames, MakeNames, RemoveNames
<1>7. A!CycleTools \subseteq Sorted
  BY MoreNames DEF A!CycleTools, MoneyNames, FromNames, RemoveNames
<1>8. A!BillingTools \subseteq Sorted
  BY MoreNames DEF A!BillingTools, ReadNames, DeriveNames, MakeNames, FromNames
<1>9. A!BudgetMakers \subseteq Sorted
  BY MoreNames DEF A!BudgetMakers, FromNames
<1>10. A!BudgetTools \subseteq Sorted
  BY MoreNames DEF A!BudgetTools, SetNames, RemoveNames
<1>11. A!CategoryTools \subseteq Sorted
  BY MoreNames DEF A!CategoryTools, SetNames, FromNames
<1>12. A!CategoryMoves \subseteq Sorted
  BY MoreNames DEF A!CategoryMoves, DeriveNames
<1>13. A!CategoryDeletes \subseteq Sorted
  BY MoreNames DEF A!CategoryDeletes, FromNames, RemoveNames
<1>14. A!PlanFillTools \subseteq Sorted
  BY MoreNames DEF A!PlanFillTools, ReadNames, DeriveNames
<1>15. A!PlanItemTools \subseteq Sorted
  BY MoreNames DEF A!PlanItemTools, DeriveNames, UnheldNames
<1>16. A!PlanStatusTools \subseteq Sorted
  BY MoreNames DEF A!PlanStatusTools, MoneyNames, UnheldNames
<1>17. A!PreferenceTools \subseteq Sorted
  BY MoreNames DEF A!PreferenceTools, ReadNames, MoneyNames
<1>18. A!RecurringTools \subseteq Sorted
  BY MoreNames DEF A!RecurringTools, ReadNames, SetNames, MoneyNames, FromNames
<1>19. A!RecurringStops \subseteq Sorted
  BY MoreNames DEF A!RecurringStops, DeriveNames, RemoveNames
<1>20. A!OccurrenceTools \subseteq Sorted
  BY MoreNames DEF A!OccurrenceTools, MoneyNames, DeriveNames
<1>21. A!ReportReads \subseteq Sorted
  BY MoreNames DEF A!ReportReads, ReadNames
<1>22. A!ReportTools \subseteq Sorted
  BY MoreNames DEF A!ReportTools, MoneyNames, MakeNames, FromNames
<1>23. A!ReportVersions \subseteq Sorted
  BY MoreNames DEF A!ReportVersions, MoneyNames, RemoveNames
<1>24. A!ScenarioReads \subseteq Sorted
  BY MoreNames DEF A!ScenarioReads, ReadNames
<1>25. A!ScenarioTools \subseteq Sorted
  BY MoreNames DEF A!ScenarioTools, MoneyNames, MakeNames, RemoveNames
<1>26. A!GoalTools \subseteq Sorted
  BY MoreNames DEF A!GoalTools, MoneyNames, FromNames, RemoveNames
<1>27. A!TransactionReads \subseteq Sorted
  BY MoreNames DEF A!TransactionReads, ReadNames
<1>28. A!TransactionTools \subseteq Sorted
  BY MoreNames DEF A!TransactionTools, SetNames
<1>29. A!TransactionMoneyTools \subseteq Sorted
  BY MoreNames DEF A!TransactionMoneyTools, MoneyNames, FromNames
<1>30. A!TransactionDeletes \subseteq Sorted
  BY MoreNames DEF A!TransactionDeletes, FromNames, RemoveNames
<1> QED BY <1>1, <1>2, <1>3, <1>4, <1>5, <1>6, <1>7, <1>8, <1>9, <1>10, <1>11, <1>12,
        <1>13, <1>14, <1>15, <1>16, <1>17, <1>18, <1>19, <1>20, <1>21, <1>22, <1>23,
        <1>24, <1>25, <1>26, <1>27, <1>28, <1>29, <1>30 DEF A!Catalogue

LEMMA KindOfTool ==
    ASSUME NEW t \in A!Catalogue
    PROVE  /\ t.risk \in {"read", "write", "sensitive"} /\ t.holds \in BOOLEAN
           /\ t.holds => t.does \in {"set", "remove"}
           /\ t.does \in {"make", "remove"} => t.risk = "sensitive"
           /\ t.risk = "read" <=> t.does = "nothing"
  BY CatalogueSorted, ZenonT(60)
     DEF Sorted, A!Tool, A!Reads, A!Sets, A!MoneySets, A!Derives, A!Makes, A!MakesFrom,
         A!Removes, A!RemovesUnheld

\* No two tools have one name, as register demands.
LEMMA NamesOfTools == \A t, u \in A!Catalogue : t.name = u.name => t = u
<1>1. ReadNames \cap (SetNames \cup MoneyNames \cup DeriveNames \cup MakeNames
       \cup FromNames \cup RemoveNames \cup UnheldNames) = {}
  BY DEF ReadNames, SetNames, MoneyNames, DeriveNames, MakeNames, FromNames, RemoveNames, UnheldNames
<1>2. SetNames \cap (MoneyNames \cup DeriveNames \cup MakeNames \cup FromNames
       \cup RemoveNames \cup UnheldNames) = {}
  BY DEF SetNames, MoneyNames, DeriveNames, MakeNames, FromNames, RemoveNames, UnheldNames
<1>3. MoneyNames \cap (DeriveNames \cup MakeNames \cup FromNames \cup RemoveNames
       \cup UnheldNames) = {}
  BY DEF MoneyNames, DeriveNames, MakeNames, FromNames, RemoveNames, UnheldNames
<1>4. DeriveNames \cap (MakeNames \cup FromNames \cup RemoveNames \cup UnheldNames) = {}
  BY DEF DeriveNames, MakeNames, FromNames, RemoveNames, UnheldNames
<1>5. MakeNames \cap (FromNames \cup RemoveNames \cup UnheldNames) = {}
  BY DEF MakeNames, FromNames, RemoveNames, UnheldNames
<1>6. FromNames \cap (RemoveNames \cup UnheldNames) = {}
  BY DEF FromNames, RemoveNames, UnheldNames
<1>7. RemoveNames \cap UnheldNames = {}
  BY DEF RemoveNames, UnheldNames
<1>8. ASSUME NEW t \in A!Catalogue
      PROVE  /\ t = [name |-> t.name, risk |-> t.risk, does |-> t.does, holds |-> t.holds]
             /\ \/ t.name \in ReadNames /\ t.risk = "read" /\ t.does = "nothing" /\ ~ t.holds
                \/ t.name \in SetNames /\ t.risk = "write" /\ t.does = "set" /\ t.holds
                \/ t.name \in MoneyNames /\ t.risk = "sensitive" /\ t.does = "set" /\ t.holds
                \/ t.name \in DeriveNames /\ t.risk = "sensitive" /\ t.does = "set" /\ ~ t.holds
                \/ t.name \in MakeNames /\ t.risk = "sensitive" /\ t.does = "make" /\ ~ t.holds
                \/ t.name \in FromNames /\ t.risk = "sensitive" /\ t.does = "make from" /\ ~ t.holds
                \/ t.name \in RemoveNames /\ t.risk = "sensitive" /\ t.does = "remove" /\ t.holds
                \/ t.name \in UnheldNames /\ t.risk = "sensitive" /\ t.does = "remove" /\ ~ t.holds
             /\ t.holds \in BOOLEAN
  BY CatalogueSorted, ZenonT(60)
     DEF Sorted, A!Tool, A!Reads, A!Sets, A!MoneySets, A!Derives, A!Makes, A!MakesFrom,
         A!Removes, A!RemovesUnheld
<1> SUFFICES ASSUME NEW t \in A!Catalogue, NEW u \in A!Catalogue, t.name = u.name
             PROVE  t = u
  OBVIOUS
<1>9. t.risk = u.risk /\ t.does = u.does /\ t.holds = u.holds
  BY <1>1, <1>2, <1>3, <1>4, <1>5, <1>6, <1>7, <1>8
<1> QED BY <1>8, <1>9

LEMMA ToolsRegistrable == \A t \in A!Tools : A!Registrable(t, A!Catalogue)
  BY KindOfTool, NamesOfTools DEF A!Tools, A!Registrable

\* What the proofs need of a row: it is none of the two rows that are not stored.
LEMMA RowStored ==
    ASSUME AgentTypes, NEW a \in Ids
    PROVE  /\ act[a].status \notin {"none", "purged"} <=> A!Stored(a)
           /\ act[a].status = "none" <=> act[a] = A!None
           /\ A!Stored(a) <=> act[a] \in Row
  BY DEF AgentTypes, Row, A!ActionRow, A!Stored, A!None, A!Purged

\* Steps that work on nothing: requests rest, ask or leave, and the rows that
\* change are worked on by nobody who stays.
LEMMA PassiveKeeps ==
    ASSUME AgentInv, AgentTypes', UNCHANGED <<applied, via>>,
           \A d \in Requests : asking'[d] = asking[d] \/ asking'[d].pc \notin Working,
           \A a \in Ids :
               \/ act'[a] = act[a]
               \/ /\ \A d \in Requests : asking'[d].pc \in Working => asking'[d].a # a
                  /\ Counted(a)' /\ Decides(a)',
           holder' = holder \/ (holder' = A!Nobody /\ asking'[holder].pc \notin Working),
           holder' # A!Nobody => asking'[holder] = asking[holder],
           data' = data \/ holder = A!Nobody
    PROVE  AgentInv'
<1>1. ASSUME NEW c \in Requests, asking'[c].pc \in Working
      PROVE  asking'[c] = asking[c] /\ asking[c].a \in Ids /\ act'[asking[c].a] = act[asking[c].a]
  BY <1>1 DEF AgentInv, AgentTypes, AgentCall, Working, A!Rest
<1>2. Claimed'
  BY <1>1 DEF AgentInv, Claimed
<1>3. \A a \in Ids : Counted(a)' /\ Decides(a)'
  BY DEF AgentInv, Counted, Decides, A!Stored
<1>4. ASSUME NEW c \in Requests
      PROVE  Reports(asking[c])' /\ Allowed(asking[c])' /\ Holds(c)'
  <2>1. CASE asking'[c].pc \in Working
    <3>1. holder = c => holder' = c
      BY <1>1, <2>1
    <3>2. asking'[c].pc = "matches" /\ act[asking[c].a].tool.holds => holder = c /\ holder # A!Nobody
      BY <1>1, <2>1, ServicesAssumption DEF AgentInv, Holds, ServicesAssumption, A!AgentAssumption
    <3> QED BY <1>1, <2>1, <3>1, <3>2 DEF AgentInv, Reports, Allowed, Holds, A!RiskIn
  <2>2. CASE asking'[c].pc \notin Working
    BY <2>2 DEF Reports, Allowed, Holds, Working
  <2> QED BY <2>1, <2>2
<1>5. (holder # A!Nobody => asking[holder].pc \in {"matches", "ends"})'
  BY DEF AgentInv
<1> QED BY <1>2, <1>3, <1>4, <1>5 DEF AgentInv

\* A request goes on with the action it works on.
LEMMA WorkKeeps ==
    ASSUME AgentInv, NEW c \in Requests, NEW q \in AgentCall,
           asking[c].pc \in Working, q.pc \in Working, q.a = asking[c].a,
           asking' = [asking EXCEPT ![c] = q], act' = act, AgentTypes',
           \A a \in Ids \ {q.a} : applied'[a] = applied[a] /\ via'[a] = via[a],
           Counted(q.a)', Decides(q.a)', Reports(q)', Allowed(q)', Holds(c)',
           holder' = holder \/ (holder \in {c, A!Nobody} /\ holder' \in {c, A!Nobody}),
           holder' = c => q.pc \in {"matches", "ends"},
           data' = data \/ holder \in {c, A!Nobody}
    PROVE  AgentInv'
<1>1. asking'[c] = q /\ \A d \in Requests \ {c} : asking'[d] = asking[d]
  BY DEF AgentInv, AgentTypes
<1>2. ASSUME NEW d \in Requests \ {c}, asking[d].pc \in Working
      PROVE  asking[d].a # q.a /\ asking[d].a \in Ids
  BY <1>2 DEF AgentInv, Claimed, AgentTypes, AgentCall, Working, A!Rest
<1>3. Claimed'
  BY <1>1, <1>2 DEF AgentInv, Claimed
<1>4. \A a \in Ids : Counted(a)' /\ Decides(a)'
  BY DEF AgentInv, Counted, Decides, A!Stored
<1>5. ASSUME NEW d \in Requests \ {c}
      PROVE  Reports(asking[d])' /\ Allowed(asking[d])' /\ Holds(d)'
  <2>1. CASE asking[d].pc \in Working
    <3>1. asking[d].pc = "matches" /\ act[asking[d].a].tool.holds =>
            holder = d /\ data = act[asking[d].a].before /\ d # A!Nobody
      BY ServicesAssumption DEF AgentInv, Holds, ServicesAssumption, A!AgentAssumption
    <3> QED BY <1>1, <1>2, <2>1, <3>1 DEF AgentInv, Reports, Allowed, Holds, A!RiskIn
  <2>2. CASE asking[d].pc \notin Working
    BY <1>1, <2>2 DEF Reports, Allowed, Holds, Working
  <2> QED BY <2>1, <2>2
<1>6. (holder # A!Nobody => asking[holder].pc \in {"matches", "ends"})'
  BY <1>1 DEF AgentInv, AgentTypes
<1> QED BY <1>1, <1>3, <1>4, <1>5, <1>6 DEF AgentInv

LEMMA RiskOfWrite ==
    ASSUME NEW t \in Writes, NEW v
    PROVE  A!RiskIn(t, v) \in {"write", "sensitive"}
  BY KindOfTool DEF Writes, A!RiskIn

\* The row a preview makes.
LEMMA PreviewRow ==
    ASSUME AgentTypes, NEW t \in Writes, NEW v \in Values, NEW w \in A!Who,
           NEW q, q.tool = t, q.value = v, q.who = w, A!Previewed(t, v)
    PROVE  /\ A!NewRow(q) \in Row /\ A!NewRow(q).status = "pending"
           /\ A!NewRow(q).before = A!Seen(t)
<1>1. /\ A!Seen(t) \in Values \cup {"new"}
      /\ A!Seen(t) \in Values \/ t.does = "make"
  BY DEF A!Previewed, A!Seen, AgentTypes, A!Gone
<1>2. A!RiskIn(t, q.version) \in {"write", "sensitive"}
  BY RiskOfWrite
<1>3. A!NewRow(q) = [status |-> "pending", tool |-> t, value |-> v, before |-> A!Seen(t),
                     risk |-> A!RiskIn(t, q.version), who |-> w, expired |-> FALSE]
  BY DEF A!NewRow
<1>4. t \in A!Catalogue
  BY DEF Writes
<1> QED BY <1>1, <1>2, <1>3, <1>4 DEF Row, A!ActionRow, A!Who

\* A request that holds the row is one that has matched a preview, or ends.
LEMMA HolderWorks ==
    ASSUME AgentInv, NEW c \in Requests, asking[c].pc \notin {"matches", "ends"}
    PROVE  holder # c
  BY ServicesAssumption DEF AgentInv, ServicesAssumption, A!AgentAssumption

\* A request starts.
LEMMA EnterKeeps ==
    ASSUME AgentInv, NEW c \in Requests, NEW q \in AgentCall, q.pc \notin Working,
           A!Enters(c, q), UNCHANGED <<data, holder, act, release, made, applied, via>>
    PROVE  AgentInv'
<1>1. /\ asking[c] = A!Rest /\ asking'[c] = q /\ \A d \in Requests \ {c} : asking'[d] = asking[d]
      /\ asking' \in [Requests -> AgentCall]
  BY DEF A!Enters, AgentInv, AgentTypes
<1>2. holder # c
  BY <1>1, HolderWorks DEF A!Rest
<1>3. AgentTypes'
  BY <1>1 DEF AgentInv, AgentTypes
<1> QED BY <1>1, <1>2, <1>3, PassiveKeeps DEF AgentInv, AgentTypes

LEMMA AskProposeKeeps ==
    ASSUME AgentInv, NEW c \in Requests, NEW w \in A!Who, NEW t \in A!Catalogue,
           NEW v \in Values, A!AskPropose(c, w, t, v)
    PROVE  AgentInv'
<1> DEFINE q == [pc |-> "proposes", who |-> w, tool |-> t, value |-> v, version |-> release]
<1>1. q \in AgentCall
  BY DEF A!AskPropose, AgentCall, Writes, AgentInv, AgentTypes
<1>2. q.pc \notin Working
  BY DEF Working
<1>3. A!Enters(c, q) /\ UNCHANGED <<data, holder, act, release, made, applied, via>>
  BY DEF A!AskPropose
<1> HIDE DEF q
<1> QED BY <1>1, <1>2, <1>3, EnterKeeps

LEMMA AskRevertKeeps ==
    ASSUME AgentInv, NEW c \in Requests, NEW a \in Ids, A!AskRevert(c, a)
    PROVE  AgentInv'
<1>1. act[a] \in Row
  BY RowStored DEF A!AskRevert, AgentInv
<1>2. act[a].tool \in A!Catalogue /\ act[a].tool.risk # "sensitive" /\ A!InApp \in A!Who
  BY <1>1 DEF A!AskRevert, A!RiskIn, Row, A!ActionRow, A!Who
<1>3. act[a].before \in Values
  BY <1>1, <1>2, KindOfTool DEF Row
<1> QED BY <1>2, <1>3, AskProposeKeeps DEF A!AskRevert

LEMMA AskConfirmKeeps ==
    ASSUME AgentInv, NEW c \in Requests, NEW w \in A!Who, NEW a \in Ids, A!AskConfirm(c, w, a)
    PROVE  AgentInv'
<1> DEFINE q == [pc |-> "confirms", who |-> w, a |-> a, auto |-> FALSE, version |-> release]
<1>1. q \in AgentCall
  BY DEF AgentCall, AgentInv, AgentTypes
<1>2. q.pc \notin Working
  BY DEF Working
<1>3. A!Enters(c, q) /\ UNCHANGED <<data, holder, act, release, made, applied, via>>
  BY DEF A!AskConfirm
<1> HIDE DEF q
<1> QED BY <1>1, <1>2, <1>3, EnterKeeps

\* A request leaves, and gives the row up if it holds it.
LEMMA LeaveKeeps ==
    ASSUME AgentInv, NEW c \in Requests, NEW q \in AgentCall, q.pc \notin Working,
           asking' = [asking EXCEPT ![c] = q],
           holder' = IF holder = c THEN A!Nobody ELSE holder,
           act' \in [Ids -> Row \cup {A!None, A!Purged}],
           \A a \in Ids :
               \/ act'[a] = act[a]
               \/ /\ \A d \in Requests \ {c} : asking[d].pc \in Working => asking[d].a # a
                  /\ Counted(a)' /\ Decides(a)',
           UNCHANGED <<data, release, applied, via>>
    PROVE  AgentInv'
<1>1. /\ asking'[c] = q /\ \A d \in Requests \ {c} : asking'[d] = asking[d]
      /\ asking' \in [Requests -> AgentCall]
  BY DEF AgentInv, AgentTypes
<1>2. AgentTypes'
  BY <1>1 DEF AgentInv, AgentTypes
<1>3. holder' = holder \/ (holder' = A!Nobody /\ asking'[holder].pc \notin Working)
  BY <1>1
<1>4. holder' # A!Nobody => asking'[holder] = asking[holder]
  BY <1>1, <1>2 DEF AgentTypes
<1>5. ASSUME NEW a \in Ids, act'[a] # act[a]
      PROVE  /\ \A d \in Requests : asking'[d].pc \in Working => asking'[d].a # a
             /\ Counted(a)' /\ Decides(a)'
  BY <1>1, <1>5
<1> QED BY <1>1, <1>2, <1>3, <1>4, <1>5, PassiveKeeps

\* A decision on a row that is stored and that nobody works on.
LEMMA DecidedKeeps ==
    ASSUME AgentInv, NEW a \in Ids, A!Stored(a), act[a].status = "pending", NEW row \in Row,
           row.status \in {"pending", "cancelled"}, row.who = act[a].who, row.risk = act[a].risk,
           act' = [act EXCEPT ![a] = row], UNCHANGED <<applied, via>>
    PROVE  /\ act' \in [Ids -> Row \cup {A!None, A!Purged}]
           /\ \A b \in Ids \ {a} : act'[b] = act[b]
           /\ \A d \in Requests : asking[d].pc \in Working => asking[d].a # a
           /\ Counted(a)' /\ Decides(a)'
<1>1. act'[a] = row /\ \A b \in Ids \ {a} : act'[b] = act[b]
  BY DEF AgentInv, AgentTypes
<1>2. act' \in [Ids -> Row \cup {A!None, A!Purged}]
  BY DEF AgentInv, AgentTypes
<1>3. \A d \in Requests : asking[d].pc \in Working => asking[d].a # a
  BY DEF AgentInv, Claimed
<1>4. Counted(a)' /\ Decides(a)'
  BY <1>1 DEF AgentInv, Counted, Decides
<1> QED BY <1>1, <1>2, <1>3, <1>4

LEMMA RowChanges ==
    ASSUME NEW r \in Row, NEW s \in {"pending", "executing", "done", "failed", "stale", "cancelled"}
    PROVE  /\ [r EXCEPT !.status = s] \in Row
           /\ [r EXCEPT !.status = s].status = s /\ [r EXCEPT !.status = s].who = r.who
           /\ [r EXCEPT !.status = s].risk = r.risk /\ [r EXCEPT !.status = s].tool = r.tool
           /\ [r EXCEPT !.status = s].before = r.before
           /\ [r EXCEPT !.expired = TRUE] \in Row
           /\ [r EXCEPT !.expired = TRUE].status = r.status /\ [r EXCEPT !.expired = TRUE].who = r.who
           /\ [r EXCEPT !.expired = TRUE].risk = r.risk
  BY DEF Row, A!ActionRow

LEMMA ProposeKeeps ==
    ASSUME AgentInv, NEW c \in Requests, NEW a \in Ids, A!Propose(c, a)
    PROVE  AgentInv'
<1> DEFINE q == asking[c]
           row == A!NewRow(q)
           next == IF A!IsAuto(q)
                   THEN [pc |-> "confirms", who |-> q.who, a |-> a, auto |-> TRUE,
                         version |-> q.version]
                   ELSE A!Rest
<1>1. /\ q.pc = "proposes" /\ act[a] = A!None /\ A!Previewed(q.tool, q.value)
      /\ act' = [act EXCEPT ![a] = row] /\ asking' = [asking EXCEPT ![c] = next]
      /\ UNCHANGED <<data, holder, release, made, applied, via>>
  BY DEF A!Propose, A!Leaves
<1>2. /\ q \in AgentCall /\ q.tool \in Writes /\ q.value \in Values
      /\ q.who \in A!Who /\ q.version \in Versions
  BY <1>1 DEF AgentInv, AgentTypes, AgentCall, A!Rest
<1>3. row \in Row /\ row.status = "pending"
  <2> HIDE DEF q
  <2> QED BY <1>1, <1>2, PreviewRow DEF AgentInv
<1>4. next \in AgentCall /\ next.pc \notin Working
  BY <1>2 DEF AgentCall, Working, A!Rest
<1>5. holder' = IF holder = c THEN A!Nobody ELSE holder
  BY <1>1, HolderWorks
<1>6. /\ act'[a] = row /\ \A b \in Ids \ {a} : act'[b] = act[b]
      /\ act' \in [Ids -> Row \cup {A!None, A!Purged}]
  BY <1>1, <1>3 DEF AgentInv, AgentTypes
<1>7. act[a].status = "none" /\ applied[a] = 0 /\ via[a] = A!None
  BY <1>1 DEF A!None, AgentInv, Counted
<1>8. Counted(a)' /\ Decides(a)'
  BY <1>1, <1>3, <1>6, <1>7 DEF Counted, Decides
<1>9. \A d \in Requests : asking[d].pc \in Working => asking[d].a # a
  BY <1>7 DEF AgentInv, Claimed
<1> HIDE DEF next, row, q
<1> QED BY <1>1, <1>4, <1>5, <1>6, <1>8, <1>9, LeaveKeeps

LEMMA RefuseConfirmKeeps ==
    ASSUME AgentInv, NEW c \in Requests, A!RefuseConfirm(c)
    PROVE  AgentInv'
<1>1. asking[c].pc = "confirms"
  BY DEF A!RefuseConfirm
<1>2. PICK a \in Ids : a = asking[c].a
  BY <1>1 DEF AgentInv, AgentTypes, AgentCall, A!Rest
<1> DEFINE row == [act[a] EXCEPT !.status = "cancelled"]
<1>3. /\ asking' = [asking EXCEPT ![c] = A!Rest]
      /\ UNCHANGED <<data, holder, release, made, applied, via>>
      /\ \/ act' = act
         \/ A!Stored(a) /\ act[a].status = "pending" /\ act' = [act EXCEPT ![a] = row]
  BY <1>2 DEF A!RefuseConfirm, A!Leaves, A!Withdrawn
<1>4. A!Rest \in AgentCall /\ A!Rest.pc \notin Working
  BY DEF AgentCall, Working, A!Rest
<1>5. holder' = IF holder = c THEN A!Nobody ELSE holder
  BY <1>1, <1>3, HolderWorks
<1>6. CASE act' = act
  BY <1>3, <1>4, <1>5, <1>6, LeaveKeeps DEF AgentInv, AgentTypes
<1>7. CASE A!Stored(a) /\ act[a].status = "pending" /\ act' = [act EXCEPT ![a] = row]
  <2>1. act[a] \in Row
    BY <1>7, RowStored DEF AgentInv
  <2>2. row \in Row /\ row.status = "cancelled" /\ row.who = act[a].who /\ row.risk = act[a].risk
    BY <2>1, RowChanges
  <2> HIDE DEF row
  <2>3. /\ act' \in [Ids -> Row \cup {A!None, A!Purged}]
        /\ \A b \in Ids \ {a} : act'[b] = act[b]
        /\ \A d \in Requests : asking[d].pc \in Working => asking[d].a # a
        /\ Counted(a)' /\ Decides(a)'
    BY <1>3, <1>7, <2>2, DecidedKeeps
  <2> QED BY <1>3, <1>4, <1>5, <2>3, LeaveKeeps
<1> QED BY <1>3, <1>6, <1>7

\* A request leaves and changes no row.
LEMMA DieKeeps ==
    ASSUME AgentInv, NEW c \in Requests,
           asking' = [asking EXCEPT ![c] = A!Rest],
           holder' = IF holder = c THEN A!Nobody ELSE holder,
           UNCHANGED <<data, act, release, applied, via>>
    PROVE  AgentInv'
<1>1. A!Rest \in AgentCall /\ A!Rest.pc \notin Working
  BY DEF AgentCall, Working, A!Rest
<1> QED BY <1>1, LeaveKeeps DEF AgentInv, AgentTypes

\* A row changes, or what the row of data holds, and no request does anything.
LEMMA CancelKeeps ==
    ASSUME AgentInv, NEW w, NEW a \in Ids, A!Cancel(w, a) \/ A!Expire(a)
    PROVE  AgentInv'
<1>1. A!Stored(a) /\ act[a].status = "pending" /\ act[a] \in Row
  BY RowStored DEF AgentInv, A!Cancel, A!Expire, A!Live
<1>2. PICK row \in Row : /\ act' = [act EXCEPT ![a] = row] /\ row.status \in {"pending", "cancelled"}
                         /\ row.who = act[a].who /\ row.risk = act[a].risk
  <2>1. CASE A!Cancel(w, a)
    <3> DEFINE row == [act[a] EXCEPT !.status = "cancelled"]
    <3>1. act' = [act EXCEPT ![a] = row]
      BY <2>1 DEF A!Cancel
    <3>2. row \in Row /\ row.status = "cancelled" /\ row.who = act[a].who /\ row.risk = act[a].risk
      BY <1>1, RowChanges
    <3> QED BY <3>1, <3>2
  <2>2. CASE A!Expire(a)
    <3> DEFINE row == [act[a] EXCEPT !.expired = TRUE]
    <3>1. act' = [act EXCEPT ![a] = row]
      BY <2>2 DEF A!Expire
    <3>2. row \in Row /\ row.status = "pending" /\ row.who = act[a].who /\ row.risk = act[a].risk
      BY <1>1, RowChanges
    <3> QED BY <3>1, <3>2
  <2> QED BY <2>1, <2>2
<1>3. UNCHANGED <<data, holder, asking, release, applied, via>>
  BY DEF A!Cancel, A!Expire
<1>4. /\ act' \in [Ids -> Row \cup {A!None, A!Purged}]
      /\ \A b \in Ids \ {a} : act'[b] = act[b]
      /\ \A d \in Requests : asking[d].pc \in Working => asking[d].a # a
      /\ Counted(a)' /\ Decides(a)'
  BY <1>1, <1>2, <1>3, DecidedKeeps
<1>5. AgentTypes'
  BY <1>3, <1>4 DEF AgentInv, AgentTypes
<1> QED BY <1>3, <1>4, <1>5, PassiveKeeps

LEMMA PurgeKeeps ==
    ASSUME AgentInv, NEW a \in Ids, A!Purge(a)
    PROVE  AgentInv'
<1>1. /\ act' = [act EXCEPT ![a] = A!Purged]
      /\ \A d \in Requests : asking[d].pc \in Working => asking[d].a # a
      /\ UNCHANGED <<data, holder, asking, release, applied, via>>
  BY DEF A!Purge, Working
<1>2. /\ act'[a] = A!Purged /\ \A b \in Ids \ {a} : act'[b] = act[b]
      /\ act' \in [Ids -> Row \cup {A!None, A!Purged}]
  BY <1>1 DEF AgentInv, AgentTypes
<1>3. Counted(a)' /\ Decides(a)'
  BY <1>1, <1>2 DEF AgentInv, Counted, Decides, A!Stored, A!Purged
<1>4. AgentTypes'
  BY <1>1, <1>2 DEF AgentInv, AgentTypes
<1> QED BY <1>1, <1>2, <1>3, <1>4, PassiveKeeps

LEMMA ElsewhereKeeps ==
    ASSUME AgentInv, (\E v \in Values \cup {A!Gone} : A!Elsewhere(v)) \/ A!Deploy
    PROVE  AgentInv'
<1>1. /\ UNCHANGED <<holder, act, asking, applied, via>>
      /\ data' \in Values \cup {A!Gone} /\ release' \in Versions
      /\ data' = data \/ holder = A!Nobody
  BY DEF A!Elsewhere, A!Deploy, AgentInv, AgentTypes, Versions
<1>2. AgentTypes'
  BY <1>1 DEF AgentInv, AgentTypes
<1> QED BY <1>1, <1>2, PassiveKeeps

\* What a request that confirms or works is, and the row it works on.
LEMMA WorkedOn ==
    ASSUME AgentInv, NEW c \in Requests, asking[c].pc \in Working \cup {"confirms"}
    PROVE  /\ asking[c] \in AgentCall /\ asking[c].a \in Ids /\ asking[c].who \in A!Who
           /\ asking[c].version \in Versions /\ asking[c].auto \in BOOLEAN
           /\ asking[c].pc \in Working =>
                /\ act[asking[c].a] \in Row /\ act[asking[c].a].status = "executing"
                /\ A!Stored(asking[c].a) /\ act[asking[c].a].tool \in Writes
                /\ \A d \in Requests \ {c} : asking[d].pc \in Working => asking[d].a # asking[c].a
<1>1. /\ asking[c] \in AgentCall /\ asking[c].a \in Ids /\ asking[c].who \in A!Who
      /\ asking[c].version \in Versions /\ asking[c].auto \in BOOLEAN
  BY DEF AgentInv, AgentTypes, AgentCall, A!Rest, Working
<1>2. ASSUME asking[c].pc \in Working
      PROVE  act[asking[c].a].status = "executing"
             /\ \A d \in Requests \ {c} : asking[d].pc \in Working => asking[d].a # asking[c].a
  BY <1>2 DEF AgentInv, Claimed
<1>3. ASSUME asking[c].pc \in Working
      PROVE  A!Stored(asking[c].a) /\ act[asking[c].a] \in Row
  BY <1>1, <1>2, <1>3, RowStored DEF AgentInv
<1> QED BY <1>1, <1>2, <1>3 DEF Row

LEMMA CallMoves ==
    ASSUME NEW q \in AgentCall
    PROVE  q.pc \in {"confirms", "claimed"} =>
             \A pc \in {"claimed", "matches"} :
                /\ [q EXCEPT !.pc = pc] \in AgentCall /\ [q EXCEPT !.pc = pc].pc = pc
                /\ [q EXCEPT !.pc = pc].a = q.a /\ [q EXCEPT !.pc = pc].who = q.who
                /\ [q EXCEPT !.pc = pc].version = q.version
  BY DEF AgentCall, A!Rest

LEMMA ClaimKeeps ==
    ASSUME AgentInv, NEW c \in Requests, A!Claim(c)
    PROVE  AgentInv'
<1>1. PICK a \in Ids, w \in A!Who : a = asking[c].a /\ w = asking[c].who
  BY WorkedOn DEF A!Claim
<1>2. PICK q \in AgentCall :
        /\ q.pc = "claimed" /\ q.a = a /\ q.who = w
        /\ asking' = [asking EXCEPT ![c] = q]
  BY <1>1, WorkedOn, CallMoves DEF A!Claim, A!To, AgentInv, AgentTypes
<1>3. /\ A!Stored(a) /\ act[a].status = "pending"
      /\ w # A!InApp => act[a].who = w /\ act[a].risk # "sensitive"
      /\ act' = [act EXCEPT ![a].status = "executing"]
      /\ UNCHANGED <<data, holder, release, made, applied, via>>
      /\ asking[c].pc = "confirms"
  BY <1>1 DEF A!Claim, A!Claimable, A!Live, A!Mine
<1>4. act[a] \in Row
  BY <1>3, RowStored DEF AgentInv
<1>5. PICK row \in Row : /\ row.status = "executing" /\ row.who = act[a].who /\ row.risk = act[a].risk
                         /\ act' = [act EXCEPT ![a] = row]
  BY <1>3, <1>4, RowChanges DEF AgentInv, AgentTypes
<1>6. /\ act'[a] = row /\ \A b \in Ids \ {a} : act'[b] = act[b]
      /\ asking'[c] = q /\ \A d \in Requests \ {c} : asking'[d] = asking[d]
  BY <1>2, <1>5 DEF AgentInv, AgentTypes
<1>7. AgentTypes'
  BY <1>2, <1>3, <1>5 DEF AgentInv, AgentTypes
<1>8. \A d \in Requests : asking[d].pc \in Working => asking[d].a # a /\ asking[d].a \in Ids
  BY <1>3, WorkedOn DEF Working
<1>9. Claimed'
  BY <1>2, <1>5, <1>6, <1>8 DEF AgentInv, Claimed
<1>10. \A b \in Ids : Counted(b)' /\ Decides(b)'
  BY <1>3, <1>5, <1>6 DEF AgentInv, Counted, Decides, A!Stored
<1>11. row.risk \in {"write", "sensitive"} /\ applied[a] = 0
  BY <1>3 DEF Row, A!ActionRow, AgentInv, Counted
<1>12. Reports(asking[c])' /\ Allowed(asking[c])' /\ Holds(c)'
  BY <1>2, <1>3, <1>5, <1>6, <1>11 DEF Reports, Allowed, Holds
<1>13. ASSUME NEW d \in Requests \ {c}
       PROVE  Reports(asking[d])' /\ Allowed(asking[d])' /\ Holds(d)'
  <2>1. CASE asking[d].pc \in Working
    BY <1>3, <1>6, <1>8, <2>1 DEF AgentInv, Reports, Allowed, Holds, A!RiskIn
  <2>2. CASE asking[d].pc \notin Working
    BY <1>6, <2>2 DEF Reports, Allowed, Holds, Working
  <2> QED BY <2>1, <2>2
<1>14. (holder # A!Nobody => asking[holder].pc \in {"matches", "ends"})'
  BY <1>3, <1>6, HolderWorks DEF AgentInv, AgentTypes
<1> QED BY <1>7, <1>9, <1>10, <1>12, <1>13, <1>14 DEF AgentInv

LEMMA GiveBackKeeps ==
    ASSUME AgentInv, NEW c \in Requests, A!GiveBack(c)
    PROVE  AgentInv'
<1>1. asking[c].pc = "claimed"
  BY DEF A!GiveBack
<1>2. PICK a \in Ids : a = asking[c].a
  BY <1>1, WorkedOn DEF Working
<1>3. /\ act[a] \in Row /\ act[a].status = "executing" /\ A!Stored(a)
      /\ \A d \in Requests \ {c} : asking[d].pc \in Working => asking[d].a # a
      /\ applied[a] = 0
  BY <1>1, <1>2, WorkedOn DEF Working, AgentInv, Reports
<1>4. /\ act' = [act EXCEPT ![a].status = "pending"] /\ asking' = [asking EXCEPT ![c] = A!Rest]
      /\ UNCHANGED <<data, holder, release, applied, via>>
  BY <1>2, <1>3 DEF A!GiveBack, A!Leaves
<1>5. PICK row \in Row : /\ row.status = "pending" /\ row.who = act[a].who /\ row.risk = act[a].risk
                         /\ act' = [act EXCEPT ![a] = row]
  BY <1>3, <1>4, RowChanges DEF AgentInv, AgentTypes
<1>6. /\ act'[a] = row /\ \A b \in Ids \ {a} : act'[b] = act[b]
      /\ act' \in [Ids -> Row \cup {A!None, A!Purged}]
  BY <1>5 DEF AgentInv, AgentTypes
<1>7. Counted(a)' /\ Decides(a)'
  BY <1>3, <1>4, <1>5, <1>6 DEF AgentInv, Counted, Decides
<1>8. A!Rest \in AgentCall /\ A!Rest.pc \notin Working
  BY DEF AgentCall, Working, A!Rest
<1>9. holder' = IF holder = c THEN A!Nobody ELSE holder
  BY <1>1, <1>4, HolderWorks
<1>10. \A b \in Ids : \/ act'[b] = act[b]
                      \/ /\ \A d \in Requests \ {c} : asking[d].pc \in Working => asking[d].a # b
                         /\ Counted(b)' /\ Decides(b)'
  BY <1>3, <1>6, <1>7
<1> QED BY <1>4, <1>6, <1>8, <1>9, <1>10, LeaveKeeps

\* The record of a request whose work is over.
LEMMA EndsCall ==
    ASSUME AgentInv, NEW c \in Requests, asking[c].pc \in Working,
           NEW s \in {"done", "stale", "failed"}, NEW f \in Row \cup {A!None}, A!Ends(c, s, f)
    PROVE  \E q \in AgentCall : /\ asking' = [asking EXCEPT ![c] = q]
                                /\ q.pc = "ends" /\ q.a = asking[c].a /\ q.status = s /\ q.fresh = f
<1> DEFINE q == [pc |-> "ends", who |-> asking[c].who, a |-> asking[c].a,
                 version |-> asking[c].version, auto |-> asking[c].auto, status |-> s, fresh |-> f]
<1>1. q \in AgentCall
  BY WorkedOn DEF AgentCall
<1>2. asking' = [asking EXCEPT ![c] = q]
  BY DEF A!Ends
<1> QED BY <1>1, <1>2

\* The work fails, or its outcome cannot be stored.
LEMMA FailKeeps ==
    ASSUME AgentInv, NEW c \in Requests, A!Fail(c) \/ A!FinishFails(c)
    PROVE  AgentInv'
<1>1. /\ asking[c].pc \in Working /\ A!Ends(c, "failed", A!None)
      /\ holder' = IF holder = c THEN A!Nobody ELSE holder
      /\ UNCHANGED <<data, act, release, made, applied, via>>
  BY DEF A!Fail, A!FinishFails, A!Freed, Working
<1>2. PICK a \in Ids : a = asking[c].a
  BY <1>1, WorkedOn
<1>3. PICK q \in AgentCall : /\ asking' = [asking EXCEPT ![c] = q] /\ q.pc = "ends" /\ q.a = a
                             /\ q.status = "failed" /\ q.fresh = A!None
  BY <1>1, <1>2, EndsCall
<1>4. Reports(q)' /\ Allowed(q)' /\ Counted(a)' /\ Decides(a)'
  BY <1>1, <1>3 DEF AgentInv, Reports, Allowed, Counted, Decides, A!Stored
<1>5. AgentTypes' /\ Holds(c)'
  BY <1>1, <1>3 DEF AgentInv, AgentTypes, Holds
<1> QED BY <1>1, <1>2, <1>3, <1>4, <1>5, WorkKeeps DEF Working

\* A request that finds the preview it confirmed holds the row, if the tool does.
LEMMA RepreviewKeeps ==
    ASSUME AgentInv, NEW c \in Requests, A!Repreview(c)
    PROVE  AgentInv'
<1>1. asking[c].pc = "claimed"
  BY DEF A!Repreview
<1>2. PICK a \in Ids, t \in Writes, w \in A!Who, v \in Versions :
        /\ a = asking[c].a /\ t = act[a].tool /\ w = asking[c].who /\ v = asking[c].version
        /\ act[a] \in Row /\ asking[c] \in AgentCall
  BY <1>1, WorkedOn DEF Working
<1>3. /\ w # A!InApp => A!RiskIn(t, v) # "sensitive"
      /\ t.holds => holder = A!Nobody
      /\ A!Previewed(t, act[a].value)
      /\ holder' = IF t.holds THEN c ELSE holder
      /\ IF A!Seen(t) = act[a].before
         THEN A!To(c, "matches")
         ELSE A!Ends(c, "stale", [A!NewRow([tool |-> t, value |-> act[a].value, version |-> v,
                                            who |-> w]) EXCEPT !.status = "pending"])
      /\ UNCHANGED <<data, act, release, made, applied, via>>
  BY <1>1, <1>2 DEF A!Repreview, A!SensitiveNow, A!MayLock, A!SameFingerprint
<1>4. Allowed(asking[c]) /\ applied[a] = 0
  BY <1>1, <1>2 DEF AgentInv, Reports
<1>5. Counted(a)' /\ Decides(a)'
  BY <1>3 DEF AgentInv, Counted, Decides, A!Stored
<1>6. t.holds \in BOOLEAN /\ (t.holds => t.does # "make")
  BY KindOfTool DEF Writes
<1>7. CASE A!Seen(t) = act[a].before
  <2>1. PICK q \in AgentCall : /\ asking' = [asking EXCEPT ![c] = q] /\ q.pc = "matches"
                               /\ q.a = a /\ q.who = w /\ q.version = v
    BY <1>1, <1>2, <1>3, <1>7, CallMoves DEF A!To, AgentInv, AgentTypes
  <2>2. Reports(q)'
    BY <1>3, <1>4, <2>1 DEF Reports
  <2>3. Allowed(q)'
    BY <1>1, <1>2, <1>3, <1>4, <2>1, RiskOfWrite DEF Allowed, A!RiskIn
  <2>4. asking'[c] = q
    BY <2>1 DEF AgentInv, AgentTypes
  <2>5. Holds(c)'
    BY <1>2, <1>3, <1>6, <1>7, <2>1, <2>4 DEF Holds, A!Seen
  <2>6. AgentTypes'
    BY <1>3, <2>1 DEF AgentInv, AgentTypes
  <2> QED BY <1>1, <1>2, <1>3, <1>5, <2>1, <2>2, <2>3, <2>5, <2>6, WorkKeeps DEF Working
<1>8. CASE A!Seen(t) # act[a].before
  <2> DEFINE n == [tool |-> t, value |-> act[a].value, version |-> v, who |-> w]
             row == A!NewRow(n)
             f == [row EXCEPT !.status = "pending"]
  <2>1. act[a].value \in Values
    BY <1>2 DEF Row, A!ActionRow
  <2>2. row \in Row
    BY <1>2, <1>3, <2>1, PreviewRow DEF AgentInv
  <2>3. f \in Row /\ f.status = "pending"
    <3> HIDE DEF row
    <3> QED BY <2>2, RowChanges
  <2>4. A!Ends(c, "stale", f)
    BY <1>3, <1>8
  <2> HIDE DEF f
  <2>5. PICK q \in AgentCall : /\ asking' = [asking EXCEPT ![c] = q] /\ q.pc = "ends" /\ q.a = a
                               /\ q.status = "stale" /\ q.fresh = f
    BY <1>1, <1>2, <2>3, <2>4, EndsCall DEF Working
  <2>6. Reports(q)' /\ Allowed(q)'
    BY <1>3, <1>4, <2>3, <2>5 DEF Reports, Allowed
  <2>7. AgentTypes' /\ Holds(c)'
    BY <1>3, <2>5 DEF AgentInv, AgentTypes, Holds
  <2> QED BY <1>1, <1>2, <1>3, <1>5, <2>5, <2>6, <2>7, WorkKeeps DEF Working
<1> QED BY <1>7, <1>8

\* What is carried out is carried out once, by whom it may.
LEMMA ExecuteKeeps ==
    ASSUME AgentInv, NEW c \in Requests, A!Execute(c)
    PROVE  AgentInv'
<1>1. asking[c].pc = "matches"
  BY DEF A!Execute
<1>2. PICK a \in Ids, t \in Writes, w \in A!Who, v \in Versions :
        /\ a = asking[c].a /\ t = act[a].tool /\ w = asking[c].who /\ v = asking[c].version
        /\ act[a] \in Row /\ act[a].status = "executing"
  BY <1>1, WorkedOn DEF Working
<1>3. /\ holder \in {A!Nobody, c}
      /\ t.does # "make" => data # A!Gone
      /\ data' = CASE t.does = "set" -> act[a].value
                   [] t.does = "remove" -> A!Gone
                   [] OTHER -> data
      /\ applied' = [applied EXCEPT ![a] = @ + 1]
      /\ via' = [via EXCEPT ![a] = [who |-> w, risk |-> A!RiskIn(t, v)]]
      /\ holder' = IF holder = c THEN A!Nobody ELSE holder
      /\ A!Ends(c, "done", A!None)
      /\ UNCHANGED <<act, release>>
  BY <1>2 DEF A!Execute, A!Freed
<1>4. PICK q \in AgentCall : /\ asking' = [asking EXCEPT ![c] = q] /\ q.pc = "ends" /\ q.a = a
                             /\ q.status = "done" /\ q.fresh = A!None
  BY <1>1, <1>2, <1>3, EndsCall DEF Working
<1>5. applied[a] = 0 /\ Allowed(asking[c])
  BY <1>1, <1>2 DEF AgentInv, Reports
<1>6. /\ applied'[a] = 1 /\ via'[a] = [who |-> w, risk |-> A!RiskIn(t, v)]
      /\ \A b \in Ids \ {a} : applied'[b] = applied[b] /\ via'[b] = via[b]
  BY <1>3, <1>5 DEF AgentInv, AgentTypes
<1>7. Counted(a)' /\ Reports(q)'
  BY <1>2, <1>3, <1>4, <1>6 DEF Counted, Reports
<1>8. Decides(a)'
  BY <1>1, <1>2, <1>3, <1>5, <1>6 DEF Allowed, Decides
<1>9. Allowed(q)'
  BY <1>4 DEF Allowed
<1>10. data' \in Values \cup {A!Gone}
  <2>1. CASE t.does = "set"
    <3>1. act[a].value \in Values
      BY <1>2 DEF Row, A!ActionRow
    <3> QED BY <1>3, <2>1, <3>1
  <2>2. CASE t.does # "set"
    BY <1>3, <2>2 DEF AgentInv, AgentTypes
  <2> QED BY <2>1, <2>2
<1>11. AgentTypes'
  <2>1. A!RiskIn(t, v) \in {"write", "sensitive"}
    BY RiskOfWrite
  <2>2. via' \in [Ids -> {A!None} \cup [who : A!Who, risk : {"write", "sensitive"}]]
    BY <1>3, <2>1 DEF AgentInv, AgentTypes
  <2>3. applied' \in [Ids -> Nat]
    BY <1>3 DEF AgentInv, AgentTypes
  <2> QED BY <1>3, <1>4, <1>10, <2>2, <2>3 DEF AgentInv, AgentTypes
<1>12. Holds(c)'
  BY <1>4 DEF Holds, AgentInv, AgentTypes
<1> QED BY <1>1, <1>2, <1>3, <1>4, <1>6, <1>7, <1>8, <1>9, <1>11, <1>12, WorkKeeps DEF Working

\* The outcome is stored, and a stale preview is replaced by a new action.
LEMMA FinishKeeps ==
    ASSUME AgentInv, NEW c \in Requests, NEW b \in Ids, A!Finish(c, b)
    PROVE  AgentInv'
<1>1. asking[c].pc = "ends"
  BY DEF A!Finish
<1>2. PICK a \in Ids, s \in {"done", "stale", "failed"}, f \in Row \cup {A!None} :
        a = asking[c].a /\ s = asking[c].status /\ f = asking[c].fresh
  BY <1>1 DEF AgentInv, AgentTypes, AgentCall, A!Rest
<1>3. /\ act[a] \in Row /\ act[a].status = "executing" /\ A!Stored(a)
      /\ \A d \in Requests \ {c} : asking[d].pc \in Working => asking[d].a # a
      /\ s = "done" => applied[a] = 1
      /\ s = "stale" => applied[a] = 0
      /\ f # A!None => f.status = "pending"
  BY <1>1, <1>2, WorkedOn DEF Working, AgentInv, Reports
<1>4. PICK row \in Row : /\ row.status = s /\ row.who = act[a].who /\ row.risk = act[a].risk
                         /\ [act EXCEPT ![a].status = IF @ = "executing" THEN s ELSE @]
                              = [act EXCEPT ![a] = row]
  <2> DEFINE row == [act[a] EXCEPT !.status = s]
  <2>1. row \in Row /\ row.status = s /\ row.who = act[a].who /\ row.risk = act[a].risk
    <3>1. s \in {"pending", "executing", "done", "failed", "stale", "cancelled"}
      OBVIOUS
    <3>2. PICK r : r = act[a] /\ r \in Row
      BY <1>3
    <3>3. /\ [r EXCEPT !.status = s] \in Row
          /\ [r EXCEPT !.status = s].status = s /\ [r EXCEPT !.status = s].who = r.who
          /\ [r EXCEPT !.status = s].risk = r.risk
      BY <3>1, <3>2 DEF Row, A!ActionRow
    <3> QED BY <3>2, <3>3
  <2>2. [act EXCEPT ![a].status = IF @ = "executing" THEN s ELSE @] = [act EXCEPT ![a] = row]
    BY <1>3 DEF AgentInv, AgentTypes
  <2> QED BY <2>1, <2>2
<1>5. /\ act' = IF f = A!None THEN [act EXCEPT ![a] = row] ELSE [act EXCEPT ![a] = row, ![b] = f]
      /\ f # A!None => act[b] = A!None
      /\ holder' = IF holder = c THEN A!Nobody ELSE holder
      /\ asking' = [asking EXCEPT ![c] = A!Rest]
      /\ UNCHANGED <<data, release, applied, via>>
  BY <1>2, <1>4 DEF A!Finish, A!Freed, A!Leaves
<1>6. f # A!None => b # a /\ act[b].status = "none"
  BY <1>3, <1>5 DEF A!None
<1>7. /\ act'[a] = row /\ (f # A!None => act'[b] = f)
      /\ \A x \in Ids \ {a} : (x = b /\ f # A!None) \/ act'[x] = act[x]
      /\ act' \in [Ids -> Row \cup {A!None, A!Purged}]
  BY <1>2, <1>5, <1>6 DEF AgentInv, AgentTypes
<1>8. Counted(a)' /\ Decides(a)'
  <2>1. Counted(a) /\ Decides(a) /\ UNCHANGED <<applied, via>>
    BY <1>5 DEF AgentInv
  <2>2. Counted(a)'
    BY <1>2, <1>3, <1>4, <1>7, <2>1 DEF Counted
  <2>3. Decides(a)'
    BY <1>3, <1>4, <1>7, <2>1 DEF Decides
  <2> QED BY <2>2, <2>3
<1>9. ASSUME f # A!None
      PROVE  /\ Counted(b)' /\ Decides(b)'
             /\ \A d \in Requests : asking[d].pc \in Working => asking[d].a # b
  <2>1. applied[b] = 0 /\ via[b] = A!None
    BY <1>6, <1>9 DEF AgentInv, Counted
  <2>2. \A d \in Requests : asking[d].pc \in Working => asking[d].a # b
    BY <1>6, <1>9 DEF AgentInv, Claimed
  <2> QED BY <1>3, <1>5, <1>7, <1>9, <2>1, <2>2 DEF Counted, Decides
<1>10. A!Rest \in AgentCall /\ A!Rest.pc \notin Working
  BY DEF AgentCall, Working, A!Rest
<1>11. \A x \in Ids : \/ act'[x] = act[x]
                      \/ /\ \A d \in Requests \ {c} : asking[d].pc \in Working => asking[d].a # x
                         /\ Counted(x)' /\ Decides(x)'
  BY <1>3, <1>7, <1>8, <1>9
<1> QED BY <1>5, <1>7, <1>10, <1>11, LeaveKeeps

LEMMA AgentNextKeeps ==
    ASSUME AgentInv, A!AgentNext
    PROVE  AgentInv'
<1>1. ASSUME NEW c \in Requests, NEW w \in A!Who, NEW t \in A!Tools, NEW v \in Values,
             A!AskPropose(c, w, t, v)
      PROVE  AgentInv'
  BY <1>1, AskProposeKeeps DEF A!Tools
<1>2. ASSUME NEW c \in Requests, NEW a \in Ids,
             A!AskRevert(c, a) \/ A!Propose(c, a) \/ A!Finish(c, a)
      PROVE  AgentInv'
  BY <1>2, AskRevertKeeps, ProposeKeeps, FinishKeeps
<1>3. ASSUME NEW c \in Requests, NEW a \in Ids, NEW w \in A!Who, A!AskConfirm(c, w, a)
      PROVE  AgentInv'
  BY <1>3, AskConfirmKeeps
<1>4. ASSUME NEW c \in Requests,
             \/ A!RefuseConfirm(c) \/ A!Claim(c) \/ A!GiveBack(c) \/ A!Repreview(c)
             \/ A!Fail(c) \/ A!Execute(c) \/ A!FinishFails(c)
      PROVE  AgentInv'
  BY <1>4, RefuseConfirmKeeps, ClaimKeeps, GiveBackKeeps, RepreviewKeeps, FailKeeps, ExecuteKeeps
<1>5. ASSUME NEW c \in Requests, A!RefuseProposal(c) \/ A!Die(c)
      PROVE  AgentInv'
  <2>1. /\ asking' = [asking EXCEPT ![c] = A!Rest]
        /\ UNCHANGED <<data, act, release, applied, via>>
    BY <1>5 DEF A!RefuseProposal, A!Die, A!Leaves
  <2>2. holder' = IF holder = c THEN A!Nobody ELSE holder
    BY <1>5, HolderWorks DEF A!RefuseProposal, A!Die, A!Freed
  <2> QED BY <2>1, <2>2, DieKeeps
<1>6. ASSUME NEW a \in Ids, A!Expire(a) \/ A!Purge(a) \/ \E w \in A!Who : A!Cancel(w, a)
      PROVE  AgentInv'
  BY <1>6, CancelKeeps, PurgeKeeps
<1>7. ASSUME (\E v \in Values \cup {A!Gone} : A!Elsewhere(v)) \/ A!Deploy
      PROVE  AgentInv'
  BY <1>7, ElsewhereKeeps
<1> QED BY <1>1, <1>2, <1>3, <1>4, <1>5, <1>6, <1>7, Zenon DEF A!AgentNext

LEMMA AgentInitInv == A!AgentInit => AgentInv
<1> SUFFICES ASSUME A!AgentInit PROVE AgentInv
  OBVIOUS
<1>1. /\ A!Rest \in AgentCall /\ A!Rest.pc \notin Working \cup {"matches"}
      /\ A!None.status = "none"
  BY DEF AgentCall, Working, A!Rest, A!None
<1>2. AgentTypes
  BY <1>1 DEF A!AgentInit, AgentTypes, Versions
<1>3. \A c \in Requests : asking[c] = A!Rest
  BY DEF A!AgentInit
<1>4. \A c \in Requests : Reports(asking[c]) /\ Allowed(asking[c]) /\ Holds(c)
  BY <1>1, <1>3 DEF Reports, Allowed, Holds, Working
<1>5. \A a \in Ids : Counted(a) /\ Decides(a)
  BY <1>1 DEF A!AgentInit, Counted, Decides, A!Stored
<1> QED BY <1>1, <1>2, <1>3, <1>4, <1>5 DEF A!AgentInit, AgentInv, Claimed

LEMMA AgentStepInv ==
    ASSUME AgentInvariant, [Next]_serviceVars
    PROVE  AgentInvariant'
<1>1. CASE AgentStep
  BY <1>1, AgentNextKeeps DEF AgentStep, AgentInvariant
<1>2. CASE UNCHANGED serviceVars
  <2>1. UNCHANGED <<focus, data, holder, act, asking, release, applied, via>>
    BY <1>2 DEF serviceVars, agentVars
  <2>2. AgentInv => AgentTypes'
    BY <2>1 DEF AgentInv, AgentTypes
  <2> QED BY <2>1, <2>2, PassiveKeeps DEF AgentInvariant
<1>3. CASE SpendStep \/ SubStep \/ TurnStep \/ BroadcastStep
  BY <1>3 DEF SpendStep, SubStep, TurnStep, BroadcastStep, S!Next, SpendFoci, SubFoci, AgentInvariant
<1> QED BY <1>1, <1>2, <1>3 DEF Next

LEMMA AgentInvSafe == AgentInvariant => AgentSafe
<1> SUFFICES ASSUME AgentInv PROVE A!AgentTypeOK /\ A!AppliedOnce /\ A!PersonDecides
  BY DEF AgentInvariant, AgentSafe
<1>1. A!AppliedOnce
  BY DEF AgentInv, Counted, A!AppliedOnce
<1>2. A!PersonDecides
  BY DEF AgentInv, Decides, A!PersonDecides
<1>3. \A a \in Ids : A!Stored(a) => act[a] \in A!ActionRow
  BY RowStored DEF AgentInv, Row
<1>4. ASSUME NEW c \in Requests, NEW d \in Requests, c # d,
             {asking[c].pc, asking[d].pc} \subseteq {"claimed", "matches"}
      PROVE  asking[c].a # asking[d].a
  BY <1>4 DEF AgentInv, Claimed, Working
<1> QED BY <1>1, <1>2, <1>3, <1>4, ToolsRegistrable DEF AgentInv, A!AgentTypeOK

\* For any number of requests and actions: a staged action is carried out at most
\* once, whatever is confirmed again, cut off or withdrawn, and what no agent may
\* do a person has confirmed (confirm's conditional update claims an action).
THEOREM AgentCorrect == Spec => []AgentSafe
<1>1. Init => AgentInvariant
  BY AgentInitInv DEF Init, AgentInvariant
<1>2. AgentInvariant /\ [Next]_serviceVars => AgentInvariant'
  BY AgentStepInv
<1> QED BY <1>1, <1>2, AgentInvSafe, PTL DEF Spec

-----------------------------------------------------------------------------
(* Subscriptions: requests that do not overlap write what they read, and what *)
(* the sweep found is what it deletes, as nothing that it holds is written.   *)

Writing == {"writes", "buys", "switches", "cancels", "updates"}
SubRow == N!SubscriptionRow
OvrRow == N!OverrideRow
EntCall ==
    {N!Rest}
    \cup [pc : {"reminds"}, left : N!Reminders]
    \cup [pc : Writing, read : SubRow, new : SubRow]
    \cup [pc : {"sets"}, k : Ids, read : OvrRow \cup {N!NoRow}, value : BOOLEAN,
          expires : N!Days \cup {N!Never}]
    \cup [pc : {"revokes"}, k : Ids, id : 1..MaxRows]
    \cup [pc : {"sweeps"}, rows : SUBSET OvrRow]
EntTypes ==
    /\ today \in 0..LastDay
    /\ sub \in SubRow \cup {N!NoSub, N!Gone}
    /\ plan \in [N!Plans -> N!PlanRow]
    /\ reminder \subseteq N!Reminders
    /\ ovr \in [Ids -> OvrRow \cup {N!NoRow}]
    /\ request \in [Requests -> EntCall]
    /\ single \in BOOLEAN
    /\ nextRow \in 1..(MaxRows + 1)
    /\ reminded \in [N!Reminders -> Nat]
    /\ paid \in [plan : N!Plans, until : N!Days \cup {N!Never}]

\* A reminder was sent for every sentinel, and for no other day while the
\* organisation is there.
RemindersCounted ==
    \A d \in N!Reminders : /\ reminded[d] <= 1
                           /\ sub # N!Gone /\ d \notin reminder => reminded[d] = 0
\* Rows of overrides have the numbers given so far, each its own.
RowsNumbered ==
    /\ \A k \in Ids : ovr[k] # N!NoRow => ovr[k].id < nextRow
    /\ \A k, l \in Ids : ovr[k] # N!NoRow /\ ovr[k].id = ovr[l].id => k = l
NothingLeft == ~ N!There => reminder = {} /\ \A k \in Ids : ovr[k] = N!NoRow
\* What a sweep holds has expired, and stays as it was found.
Swept(q) ==
    q.pc = "sweeps" => \A r \in q.rows :
        /\ r.id < nextRow /\ r.expires # N!Never /\ r.expires <= today
        /\ \A k \in Ids : ovr[k] # N!NoRow /\ ovr[k].id = r.id => ovr[k] = r
\* Requests that do not overlap find the subscription as they read it.
AsRead(q) ==
    q.pc \in Writing =>
        /\ sub = q.read
        /\ q.pc = "writes" => sub.status = "trialing"
        /\ q.pc = "cancels" => q.new = [sub EXCEPT !.status = "canceled"]
        /\ q.pc = "buys" => q.new.status = "active"
        /\ q.pc = "switches" => q.new.status = sub.status /\ q.new.end = sub.end
OneAtATime ==
    single => \A c \in Requests : request[c] # N!Rest =>
        /\ \A d \in Requests : request[d] # N!Rest => d = c
        /\ AsRead(request[c])
\* What was bought and not undone since is what the subscription says.
PaidFor ==
    single /\ paid.until # N!Never =>
        /\ N!There /\ sub.plan = paid.plan /\ sub.end = paid.until
        /\ sub.status \in {"active", "canceled"}
EntInv ==
    /\ EntTypes
    /\ RemindersCounted
    /\ RowsNumbered
    /\ NothingLeft
    /\ \A c \in Requests : Swept(request[c])
    /\ OneAtATime
    /\ PaidFor
EntInvariant == focus \in SubFoci => EntInv

\* A request starts.
LEMMA EntEnterKeeps ==
    ASSUME EntInv, NEW c \in Requests, NEW q \in EntCall, N!Enters(c, q),
           Swept(q), single => AsRead(q),
           UNCHANGED <<today, sub, plan, reminder, ovr, single, nextRow, reminded, paid>>
    PROVE  EntInv'
<1>1. /\ request[c] = N!Rest /\ request'[c] = q
      /\ \A d \in Requests \ {c} : request'[d] = request[d]
      /\ request' \in [Requests -> EntCall]
      /\ single => \A d \in Requests : request[d] = N!Rest
  BY DEF N!Enters, EntInv, EntTypes
<1>2. EntTypes' /\ RemindersCounted' /\ RowsNumbered' /\ NothingLeft' /\ PaidFor'
  BY <1>1 DEF EntInv, EntTypes, RemindersCounted, RowsNumbered, NothingLeft, PaidFor, N!There
<1>3. ASSUME NEW d \in Requests
      PROVE  Swept(request[d])'
  <2>1. Swept(request'[d])
    BY <1>1 DEF EntInv
  <2> QED BY <2>1 DEF Swept
<1>4. OneAtATime'
  <2>1. AsRead(q) => AsRead(q)'
    BY DEF AsRead
  <2> QED BY <1>1, <2>1 DEF OneAtATime
<1> QED BY <1>2, <1>3, <1>4 DEF EntInv

\* A request leaves, and the rows that it changed are as they should.
LEMMA EntLeaveKeeps ==
    ASSUME EntInv, NEW c \in Requests, request[c] # N!Rest,
           request' = [request EXCEPT ![c] = N!Rest],
           UNCHANGED <<today, plan, single>>, nextRow <= nextRow', EntTypes',
           RemindersCounted', RowsNumbered', NothingLeft', PaidFor',
           \A d \in Requests \ {c} : request[d].pc = "sweeps" =>
               \A r \in request[d].rows : \A k \in Ids :
                   ovr'[k] = ovr[k] \/ ovr'[k] = N!NoRow \/ ovr'[k].id # r.id
    PROVE  EntInv'
<1>1. /\ request'[c] = N!Rest /\ \A d \in Requests \ {c} : request'[d] = request[d]
  BY DEF EntInv, EntTypes
<1>2. ASSUME NEW d \in Requests
      PROVE  Swept(request[d])'
  <2>1. CASE d = c
    BY <1>1, <2>1 DEF Swept, N!Rest
  <2>2. CASE d # c /\ request[d].pc = "sweeps"
    <3>1. Swept(request[d]) /\ request'[d] = request[d] /\ request[d].rows \subseteq OvrRow
      BY <1>1, <2>2 DEF EntInv, EntTypes, EntCall, N!Rest, Writing
    <3>2. ASSUME NEW r \in request[d].rows
          PROVE  /\ r.id < nextRow' /\ r.expires # N!Never /\ r.expires <= today'
                 /\ \A k \in Ids : ovr'[k] # N!NoRow /\ ovr'[k].id = r.id => ovr'[k] = r
      <4>1. r \in OvrRow /\ nextRow \in Nat /\ nextRow' \in Nat /\ r.id \in Nat
        BY <3>1, ServicesAssumption DEF EntInv, EntTypes, N!OverrideRow, OvrRow, ServicesAssumption, N!EntAssumption
      <4> QED BY <2>2, <3>1, <4>1 DEF Swept
    <3> QED BY <3>1, <3>2 DEF Swept
  <2>3. CASE d # c /\ request[d].pc # "sweeps"
    BY <1>1, <2>3 DEF Swept
  <2> QED BY <2>1, <2>2, <2>3
<1>3. OneAtATime'
  BY <1>1 DEF EntInv, OneAtATime
<1> QED BY <1>2, <1>3 DEF EntInv

LEMMA MergedRow ==
    ASSUME NEW now \in SubRow, NEW read \in SubRow, NEW new \in SubRow
    PROVE  N!Merged(now, read, new) \in SubRow /\ N!Merged(read, read, new) = new
  BY DEF SubRow, N!SubscriptionRow, N!Merged, N!Column

LEMMA DaysAre ==
    /\ LastDay \in Nat /\ Trial \in Nat /\ Term \in Nat /\ MaxRows \in Nat
    /\ N!Days = 0..(LastDay + Trial + Term + 2) /\ N!Never = -1
  BY ServicesAssumption DEF ServicesAssumption, N!EntAssumption, N!Days, N!Never

LEMMA AskRemindKeeps ==
    ASSUME EntInv, NEW c \in Requests, N!AskRemind(c)
    PROVE  EntInv'
<1> DEFINE q == [pc |-> "reminds", left |-> sub.trial - today]
<1>1. q \in EntCall /\ q.pc = "reminds"
  BY DEF N!AskRemind, EntCall
<1>2. /\ N!Enters(c, q)
      /\ UNCHANGED <<today, sub, plan, reminder, ovr, single, nextRow, reminded, paid>>
  BY DEF N!AskRemind
<1> HIDE DEF q
<1>3. Swept(q) /\ AsRead(q)
  BY <1>1 DEF Swept, AsRead, Writing
<1> QED BY <1>1, <1>2, <1>3, EntEnterKeeps

LEMMA RemindKeeps ==
    ASSUME EntInv, NEW c \in Requests, N!Remind(c)
    PROVE  EntInv'
<1>1. request[c].pc = "reminds" /\ request[c] # N!Rest
  BY DEF N!Remind, N!Rest
<1>2. PICK d \in N!Reminders : d = request[c].left
  BY <1>1 DEF EntInv, EntTypes, EntCall, N!Rest, Writing
<1>3. /\ request' = [request EXCEPT ![c] = N!Rest]
      /\ IF N!There /\ d \notin reminder
         THEN reminder' = reminder \cup {d} /\ reminded' = [reminded EXCEPT ![d] = @ + 1]
         ELSE UNCHANGED <<reminder, reminded>>
      /\ UNCHANGED <<today, sub, plan, ovr, single, nextRow, paid>>
  BY <1>2 DEF N!Remind, N!Leaves, N!FirstSentinel
<1>4. EntTypes'
  <2>1. request' \in [Requests -> EntCall]
    BY <1>3 DEF EntInv, EntTypes, EntCall
  <2>2. reminder' \subseteq N!Reminders /\ reminded' \in [N!Reminders -> Nat]
    BY <1>3 DEF EntInv, EntTypes
  <2> QED BY <1>3, <2>1, <2>2 DEF EntInv, EntTypes
<1>5. RemindersCounted'
  <2>1. CASE N!There /\ d \notin reminder
    <3>1. reminded[d] = 0 /\ sub # N!Gone
      BY <2>1 DEF EntInv, RemindersCounted, N!There
    <3>2. reminded'[d] = 1 /\ \A e \in N!Reminders \ {d} : reminded'[e] = reminded[e]
      BY <1>3, <2>1, <3>1 DEF EntInv, EntTypes
    <3> QED BY <1>3, <2>1, <3>2 DEF EntInv, RemindersCounted
  <2>2. CASE ~ (N!There /\ d \notin reminder)
    BY <1>3, <2>2 DEF EntInv, RemindersCounted
  <2> QED BY <2>1, <2>2
<1>6. NothingLeft' /\ RowsNumbered' /\ PaidFor'
  BY <1>3 DEF EntInv, NothingLeft, RowsNumbered, PaidFor, N!There
<1>7. nextRow <= nextRow'
  BY <1>3 DEF EntInv, EntTypes
<1> QED BY <1>1, <1>3, <1>4, <1>5, <1>6, <1>7, EntLeaveKeeps

\* A request reads the subscription that it will write.
LEMMA AsksKeeps ==
    ASSUME EntInv, NEW c \in Requests, NEW what \in Writing, NEW new \in SubRow,
           N!Asks(c, what, new),
           what = "writes" => sub.status = "trialing",
           what = "cancels" => new = [sub EXCEPT !.status = "canceled"],
           what = "buys" => new.status = "active",
           what = "switches" => new.status = sub.status /\ new.end = sub.end
    PROVE  EntInv'
<1> DEFINE q == [pc |-> what, read |-> sub, new |-> new]
<1>1. sub \in SubRow
  BY DEF N!Asks, N!There, EntInv, EntTypes
<1>2. q \in EntCall
  BY <1>1 DEF EntCall
<1>3. Swept(q) /\ AsRead(q)
  BY DEF Swept, AsRead, Writing
<1>4. /\ N!Enters(c, q)
      /\ UNCHANGED <<today, sub, plan, reminder, ovr, single, nextRow, reminded, paid>>
  BY DEF N!Asks
<1> HIDE DEF q
<1> QED BY <1>2, <1>3, <1>4, EntEnterKeeps


LEMMA AskWriteKeeps ==
    ASSUME EntInv, NEW c \in Requests,
           \/ N!AskExpire(c) \/ N!AskCancel(c) \/ \E to \in N!Plans : N!AskPlan(c, to)
           \/ \E to \in N!Plans, status \in {"trialing", "active", "past_due", "canceled"} :
                 N!AskUpdate(c, to, status)
    PROVE  EntInv'
<1>1. sub \in SubRow /\ sub.plan \in N!Plans
  BY DEF N!AskExpire, N!AskCancel, N!AskPlan, N!AskUpdate, N!There, EntInv, EntTypes, SubRow,
         N!SubscriptionRow
<1>2. /\ N!Never \in N!Days \cup {N!Never} /\ "free" \in N!Plans
      /\ today + Term \in N!Days
  BY DaysAre DEF EntInv, EntTypes, N!Plans
<1>3. CASE N!AskExpire(c)
  <2> DEFINE to == IF plan["free"].active THEN "free" ELSE sub.plan
             new == [sub EXCEPT !.plan = to, !.status = "active", !.trial = N!Never]
  <2>1. N!Asks(c, "writes", new) /\ sub.status = "trialing"
    BY <1>3 DEF N!AskExpire
  <2>2. to \in N!Plans
    BY <1>1, <1>2
  <2> HIDE DEF to
  <2>3. new \in SubRow
    BY <1>1, <1>2, <2>2 DEF SubRow, N!SubscriptionRow
  <2> HIDE DEF new
  <2> QED BY <2>1, <2>3, AsksKeeps DEF Writing
<1>4. CASE N!AskCancel(c)
  <2>1. [sub EXCEPT !.status = "canceled"] \in SubRow
    BY <1>1 DEF SubRow, N!SubscriptionRow
  <2> QED BY <1>4, <2>1, AsksKeeps DEF Writing, N!AskCancel
<1>5. ASSUME NEW to \in N!Plans, N!AskPlan(c, to)
      PROVE  EntInv'
  <2>1. CASE sub.status = "trialing"
    <3> DEFINE new == [sub EXCEPT !.plan = to, !.status = "active", !.trial = N!Never,
                                  !.end = today + Term]
    <3>1. new \in SubRow /\ new.status = "active"
      BY <1>1, <1>2 DEF SubRow, N!SubscriptionRow
    <3>2. N!Asks(c, "buys", new)
      BY <1>5, <2>1 DEF N!AskPlan
    <3> HIDE DEF new
    <3> QED BY <3>1, <3>2, AsksKeeps DEF Writing
  <2>2. CASE sub.status # "trialing"
    <3> DEFINE new == [sub EXCEPT !.plan = to]
    <3>1. new \in SubRow /\ new.status = sub.status /\ new.end = sub.end
      BY <1>1 DEF SubRow, N!SubscriptionRow
    <3>2. N!Asks(c, "switches", new)
      BY <1>5, <2>2 DEF N!AskPlan
    <3> HIDE DEF new
    <3> QED BY <3>1, <3>2, AsksKeeps DEF Writing
  <2> QED BY <2>1, <2>2
<1>6. ASSUME NEW to \in N!Plans, NEW status \in {"trialing", "active", "past_due", "canceled"},
             N!AskUpdate(c, to, status)
      PROVE  EntInv'
  <2>1. today + 1 \in N!Days
    BY DaysAre, ServicesAssumption DEF EntInv, EntTypes, ServicesAssumption, N!EntAssumption
  <2>2. PICK trial \in {sub.trial, today + 1}, end \in {sub.end, today + 1} :
          N!Asks(c, "updates", [plan |-> to, status |-> status, trial |-> trial, end |-> end])
    BY <1>6 DEF N!AskUpdate
  <2> DEFINE new == [plan |-> to, status |-> status, trial |-> trial, end |-> end]
  <2>3. new \in SubRow
    BY <1>1, <2>1 DEF SubRow, N!SubscriptionRow
  <2>4. N!Asks(c, "updates", new)
    BY <2>2
  <2> HIDE DEF new
  <2> QED BY <2>3, <2>4, AsksKeeps DEF Writing
<1> QED BY <1>3, <1>4, <1>5, <1>6

\* What a request wrote is what it meant, if no other came between.
LEMMA WriteSubKeeps ==
    ASSUME EntInv, NEW c \in Requests, N!WriteSub(c)
    PROVE  EntInv'
<1>1. request[c].pc \in Writing /\ request[c] # N!Rest
  BY DEF N!WriteSub, N!Rest, Writing
<1>2. PICK what \in Writing, read \in SubRow, new \in SubRow :
        what = request[c].pc /\ read = request[c].read /\ new = request[c].new
  BY <1>1 DEF EntInv, EntTypes, EntCall, N!Rest, Writing
<1>3. /\ request' = [request EXCEPT ![c] = N!Rest]
      /\ IF ~ N!There
         THEN UNCHANGED <<sub, paid>>
         ELSE /\ sub' = N!Merged(sub, read, new)
              /\ paid' = CASE what = "buys" -> [plan |-> new.plan, until |-> new.end]
                           [] what = "switches" -> [paid EXCEPT !.plan = new.plan]
                           [] what = "updates" -> N!NotPaid
                           [] OTHER -> paid
      /\ UNCHANGED <<reminder, reminded, today, plan, ovr, single, nextRow>>
  BY <1>2 DEF N!WriteSub, N!Leaves, N!SubOnly
<1>4. request' \in [Requests -> EntCall]
  BY <1>3 DEF EntInv, EntTypes, EntCall
<1>5. nextRow <= nextRow'
  BY <1>3 DEF EntInv, EntTypes
<1>6. CASE ~ N!There
  <2>1. EntTypes' /\ RemindersCounted' /\ RowsNumbered' /\ NothingLeft' /\ PaidFor'
    BY <1>3, <1>4, <1>6 DEF EntInv, EntTypes, RemindersCounted, RowsNumbered, NothingLeft, PaidFor, N!There
  <2> QED BY <1>1, <1>3, <1>5, <2>1, EntLeaveKeeps
<1>7. CASE N!There
  <2>1. sub \in SubRow
    BY <1>7 DEF N!There, EntInv, EntTypes
  <2>2. sub' \in SubRow
    BY <1>3, <1>7, <2>1, MergedRow
  <2>3. N!There' /\ sub' # N!Gone
    BY <2>2 DEF N!There, SubRow, N!SubscriptionRow, N!NoSub, N!Gone
  <2>4. new.plan \in N!Plans /\ new.end \in N!Days \cup {N!Never}
    BY DEF SubRow, N!SubscriptionRow
  <2>5. paid' \in [plan : N!Plans, until : N!Days \cup {N!Never}]
    BY <1>3, <1>7, <2>4 DEF EntInv, EntTypes, N!NotPaid, N!Plans
  <2>6. EntTypes'
    BY <1>3, <1>4, <2>2, <2>5 DEF EntInv, EntTypes
  <2>7. RemindersCounted' /\ RowsNumbered' /\ NothingLeft'
    BY <1>3, <1>7, <2>3 DEF EntInv, RemindersCounted, RowsNumbered, NothingLeft, N!There, N!Gone
  <2>8. PaidFor'
    <3> SUFFICES ASSUME single, paid'.until # N!Never
                 PROVE  /\ N!There' /\ sub'.plan = paid'.plan /\ sub'.end = paid'.until
                        /\ sub'.status \in {"active", "canceled"}
      BY <1>3 DEF PaidFor
    <3>1. /\ sub = read /\ sub' = new
          /\ what = "writes" => sub.status = "trialing"
          /\ what = "cancels" => new = [sub EXCEPT !.status = "canceled"]
          /\ what = "buys" => new.status = "active"
          /\ what = "switches" => new.status = sub.status /\ new.end = sub.end
      BY <1>1, <1>2, <1>3, <1>7, MergedRow DEF EntInv, OneAtATime, AsRead
    <3>2. CASE what = "buys"
      BY <1>3, <1>7, <2>3, <3>1, <3>2
    <3>3. CASE what = "updates"
      BY <1>3, <1>7, <3>3 DEF N!NotPaid
    <3>5. CASE what = "switches"
      <4>1. paid'.plan = new.plan /\ paid'.until = paid.until
        BY <1>3, <1>7, <3>5 DEF EntInv, EntTypes
      <4>2. sub.end = paid.until /\ sub.status \in {"active", "canceled"}
        BY <4>1 DEF EntInv, PaidFor
      <4> QED BY <2>3, <3>1, <3>5, <4>1, <4>2
    <3>4. CASE what \in {"writes", "cancels"}
      <4>1. paid' = paid
        BY <1>3, <1>7, <3>4
      <4>2. /\ sub.plan = paid.plan /\ sub.end = paid.until
            /\ sub.status \in {"active", "canceled"}
        BY <4>1 DEF EntInv, PaidFor
      <4>3. what = "cancels"
        BY <3>1, <3>4, <4>2
      <4>4. new.plan = sub.plan /\ new.end = sub.end /\ new.status = "canceled"
        BY <2>1, <3>1, <4>3 DEF SubRow, N!SubscriptionRow
      <4> QED BY <2>3, <3>1, <4>1, <4>2, <4>4
    <3> QED BY <1>2, <3>2, <3>3, <3>4, <3>5 DEF Writing
  <2> QED BY <1>1, <1>3, <1>5, <2>6, <2>7, <2>8, EntLeaveKeeps
<1> QED BY <1>6, <1>7

LEMMA CreateTrialKeeps ==
    ASSUME EntInv, N!CreateTrial
    PROVE  EntInv'
<1>1. /\ sub = N!NoSub /\ today = 0 /\ \A c \in Requests : request[c] = N!Rest
      /\ sub' = [plan |-> "trial", status |-> "trialing", trial |-> today + Trial, end |-> N!Never]
      /\ UNCHANGED <<today, plan, reminder, ovr, request, single, nextRow, reminded, paid>>
  BY DEF N!CreateTrial
<1>2. sub' \in SubRow
  BY <1>1, DaysAre DEF SubRow, N!SubscriptionRow, N!Plans
<1>3. EntTypes'
  BY <1>1, <1>2 DEF EntInv, EntTypes
<1>4. ~ N!There /\ N!There' /\ sub # N!Gone
  BY <1>1, <1>2 DEF N!There, SubRow, N!SubscriptionRow, N!NoSub, N!Gone
<1>5. RemindersCounted' /\ RowsNumbered' /\ NothingLeft'
  BY <1>1, <1>4 DEF EntInv, RemindersCounted, RowsNumbered, NothingLeft
<1>6. PaidFor'
  BY <1>1, <1>4 DEF EntInv, PaidFor
<1>7. \A c \in Requests : Swept(request[c])'
  BY <1>1 DEF Swept, N!Rest
<1>8. OneAtATime'
  BY <1>1 DEF OneAtATime
<1> QED BY <1>3, <1>5, <1>6, <1>7, <1>8 DEF EntInv

\* Plans change, or a day passes: what has expired stays so.
LEMMA PlanKeeps ==
    ASSUME EntInv, \/ N!NextDay
                   \/ \E pl \in N!Plans : N!DeactivatePlan(pl) \/ \E k \in Ids : N!UpdatePlan(pl, k)
    PROVE  EntInv'
<1>1. /\ today' \in 0..LastDay /\ today <= today'
      /\ UNCHANGED <<sub, reminder, ovr, request, single, nextRow, reminded, paid>>
  BY DaysAre DEF N!NextDay, N!DeactivatePlan, N!UpdatePlan, EntInv, EntTypes
<1>2. plan' \in [N!Plans -> N!PlanRow]
  <2>1. CASE plan' = plan
    BY <2>1 DEF EntInv, EntTypes
  <2>2. ASSUME NEW pl \in N!Plans, N!DeactivatePlan(pl)
        PROVE  plan' \in [N!Plans -> N!PlanRow]
    BY <2>2 DEF N!DeactivatePlan, EntInv, EntTypes, N!PlanRow
  <2>3. ASSUME NEW pl \in N!Plans, NEW k \in Ids, N!UpdatePlan(pl, k)
        PROVE  plan' \in [N!Plans -> N!PlanRow]
    BY <2>3 DEF N!UpdatePlan, EntInv, EntTypes, N!PlanRow, N!Features
  <2> QED BY <2>1, <2>2, <2>3 DEF N!NextDay
<1>3. EntTypes' /\ RemindersCounted' /\ RowsNumbered' /\ NothingLeft' /\ PaidFor' /\ OneAtATime'
  BY <1>1, <1>2 DEF EntInv, EntTypes, RemindersCounted, RowsNumbered, NothingLeft, PaidFor,
                    OneAtATime, AsRead, N!There
<1>4. ASSUME NEW c \in Requests
      PROVE  Swept(request[c])'
  <2>1. CASE request[c].pc = "sweeps"
    <3>1. request[c].rows \subseteq OvrRow
      BY <2>1 DEF EntInv, EntTypes, EntCall, N!Rest, Writing
    <3>2. ASSUME NEW r \in request[c].rows, r.expires # N!Never, r.expires <= today
          PROVE  r.expires <= today'
      BY <1>1, <3>1, <3>2, DaysAre DEF EntInv, EntTypes, OvrRow, N!OverrideRow
    <3> QED BY <1>1, <3>2 DEF EntInv, Swept
  <2>2. CASE request[c].pc # "sweeps"
    BY <1>1, <2>2 DEF Swept
  <2> QED BY <2>1, <2>2
<1> QED BY <1>3, <1>4 DEF EntInv

LEMMA DeleteOrgKeeps ==
    ASSUME EntInv, N!DeleteOrg
    PROVE  EntInv'
<1>1. /\ sub' = N!Gone /\ ovr' = [k \in Ids |-> N!NoRow] /\ reminder' = {} /\ paid' = N!NotPaid
      /\ single => \A c \in Requests : request[c] = N!Rest
      /\ UNCHANGED <<today, plan, request, single, nextRow, reminded>>
  BY DEF N!DeleteOrg
<1>2. N!NotPaid \in [plan : N!Plans, until : N!Days \cup {N!Never}] /\ N!NotPaid.until = N!Never
  BY DEF N!NotPaid, N!Plans
<1>3. EntTypes'
  BY <1>1, <1>2 DEF EntInv, EntTypes
<1>4. RemindersCounted' /\ NothingLeft' /\ PaidFor' /\ OneAtATime'
  BY <1>1, <1>2 DEF EntInv, RemindersCounted, NothingLeft, PaidFor, OneAtATime
<1>5. RowsNumbered'
  BY <1>1 DEF RowsNumbered
<1>6. \A c \in Requests : Swept(request[c])'
  BY <1>1 DEF EntInv, Swept
<1> QED BY <1>3, <1>4, <1>5, <1>6 DEF EntInv

\* A row a sweep holds is not written.
LEMMA HeldRow ==
    ASSUME EntInv, NEW k \in Ids, ovr[k] # N!NoRow, N!NotSwept(k),
           NEW d \in Requests, request[d].pc = "sweeps", NEW r \in request[d].rows
    PROVE  ovr[k].id # r.id
  BY DEF N!NotSwept, EntInv, Swept

LEMMA AskOverrideKeeps ==
    ASSUME EntInv, NEW c \in Requests, NEW k \in Ids, NEW value \in BOOLEAN,
           NEW expires \in {N!Never, today + 1, today + 2}, N!AskOverride(c, k, value, expires)
    PROVE  EntInv'
<1> DEFINE q == [pc |-> "sets", k |-> k, read |-> ovr[k], value |-> value, expires |-> expires]
<1>1. expires \in N!Days \cup {N!Never}
  BY DaysAre DEF EntInv, EntTypes
<1>2. ovr[k] \in OvrRow \cup {N!NoRow}
  BY DEF EntInv, EntTypes
<1>3. q \in EntCall
  BY <1>1, <1>2 DEF EntCall
<1>4. Swept(q) /\ AsRead(q)
  BY DEF Swept, AsRead, Writing
<1>5. /\ N!Enters(c, q)
      /\ UNCHANGED <<today, sub, plan, reminder, ovr, single, nextRow, reminded, paid>>
  BY DEF N!AskOverride, N!OvrUnchanged
<1> HIDE DEF q
<1> QED BY <1>3, <1>4, <1>5, EntEnterKeeps

LEMMA AskRevokeKeeps ==
    ASSUME EntInv, NEW c \in Requests, NEW k \in Ids, N!AskRevoke(c, k)
    PROVE  EntInv'
<1> DEFINE q == [pc |-> "revokes", k |-> k, id |-> ovr[k].id]
<1>1. ovr[k].id \in 1..MaxRows
  BY DEF N!AskRevoke, EntInv, EntTypes, OvrRow, N!OverrideRow
<1>2. q \in EntCall
  BY <1>1 DEF EntCall
<1>3. Swept(q) /\ AsRead(q)
  BY DEF Swept, AsRead, Writing
<1>4. /\ N!Enters(c, q)
      /\ UNCHANGED <<today, sub, plan, reminder, ovr, single, nextRow, reminded, paid>>
  BY DEF N!AskRevoke, N!OvrUnchanged
<1> HIDE DEF q
<1> QED BY <1>2, <1>3, <1>4, EntEnterKeeps

LEMMA SweepLockKeeps ==
    ASSUME EntInv, NEW c \in Requests, N!SweepLock(c)
    PROVE  EntInv'
<1> DEFINE expired == {k \in Ids : ovr[k] # N!NoRow /\ ~ N!Unexpired(ovr[k])}
           q == [pc |-> "sweeps", rows |-> {ovr[k] : k \in expired}]
<1>1. {ovr[k] : k \in expired} \subseteq OvrRow
  BY DEF EntInv, EntTypes
<1>2. q \in EntCall
  BY <1>1 DEF EntCall
<1>3. ASSUME NEW k \in expired
      PROVE  /\ ovr[k].id < nextRow /\ ovr[k].expires # N!Never /\ ovr[k].expires <= today
             /\ \A l \in Ids : ovr[l] # N!NoRow /\ ovr[l].id = ovr[k].id => ovr[l] = ovr[k]
  <2>1. ovr[k] # N!NoRow /\ ~ N!Unexpired(ovr[k]) /\ ovr[k] \in OvrRow
    BY DEF EntInv, EntTypes
  <2>2. ovr[k].expires # N!Never /\ ovr[k].expires <= today
    BY <2>1, DaysAre DEF N!Unexpired, EntInv, EntTypes, OvrRow, N!OverrideRow
  <2> QED BY <2>1, <2>2 DEF EntInv, RowsNumbered
<1>4. Swept(q) /\ AsRead(q)
  BY <1>3 DEF Swept, AsRead, Writing
<1>5. /\ N!Enters(c, q)
      /\ UNCHANGED <<today, sub, plan, reminder, ovr, single, nextRow, reminded, paid>>
  BY DEF N!SweepLock, N!OvrUnchanged
<1> HIDE DEF q
<1> QED BY <1>2, <1>4, <1>5, EntEnterKeeps

\* The rows of overrides change, and nothing else but the request's end.
LEMMA OverridesKeep ==
    ASSUME EntInv, NEW c \in Requests, request[c] # N!Rest,
           request' = [request EXCEPT ![c] = N!Rest],
           UNCHANGED <<today, sub, plan, reminder, single, reminded, paid>>,
           nextRow' \in {nextRow, nextRow + 1}, nextRow' \in 1..(MaxRows + 1),
           ovr' \in [Ids -> OvrRow \cup {N!NoRow}], RowsNumbered',
           ~ N!There => \A k \in Ids : ovr'[k] = ovr[k],
           \A d \in Requests \ {c} : request[d].pc = "sweeps" =>
               \A r \in request[d].rows : \A k \in Ids :
                   ovr'[k] = ovr[k] \/ ovr'[k] = N!NoRow \/ ovr'[k].id # r.id
    PROVE  EntInv'
<1>1. request' \in [Requests -> EntCall]
  BY DEF EntInv, EntTypes, EntCall
<1>2. EntTypes'
  BY <1>1 DEF EntInv, EntTypes
<1>3. RemindersCounted' /\ PaidFor' /\ NothingLeft'
  BY DEF EntInv, RemindersCounted, PaidFor, NothingLeft, N!There
<1>4. nextRow <= nextRow'
  BY DaysAre DEF EntInv, EntTypes
<1> QED BY <1>2, <1>3, <1>4, EntLeaveKeeps

LEMMA WriteOverrideKeeps ==
    ASSUME EntInv, NEW c \in Requests, N!WriteOverride(c)
    PROVE  EntInv'
<1>1. request[c].pc = "sets" /\ request[c] # N!Rest
  BY DEF N!WriteOverride, N!Rest
<1>2. PICK k \in Ids, read \in OvrRow \cup {N!NoRow}, value \in BOOLEAN,
           expires \in N!Days \cup {N!Never} :
        /\ k = request[c].k /\ read = request[c].read
        /\ value = request[c].value /\ expires = request[c].expires
  BY <1>1 DEF EntInv, EntTypes, EntCall, N!Rest, Writing
<1>3. /\ request' = [request EXCEPT ![c] = N!Rest]
      /\ N!NotSwept(k)
      /\ UNCHANGED <<today, sub, plan, reminder, single, reminded, paid>>
  BY <1>2 DEF N!WriteOverride, N!Leaves, N!OvrUnchanged
<1>4. /\ nextRow \in 1..(MaxRows + 1) /\ ovr \in [Ids -> OvrRow \cup {N!NoRow}]
      /\ RowsNumbered /\ MaxRows \in Nat
  BY DaysAre DEF EntInv, EntTypes
<1>5. CASE UNCHANGED <<ovr, nextRow>>
  BY <1>1, <1>3, <1>4, <1>5, OverridesKeep DEF RowsNumbered
<1>6. CASE /\ ovr[k] = N!NoRow /\ N!There /\ nextRow <= MaxRows
           /\ ovr' = [ovr EXCEPT ![k] = [id |-> nextRow, value |-> value, expires |-> expires]]
           /\ nextRow' = nextRow + 1
  <2> DEFINE row == [id |-> nextRow, value |-> value, expires |-> expires]
  <2>1. row \in OvrRow /\ row.id = nextRow /\ row # N!NoRow
    BY <1>4, <1>6 DEF OvrRow, N!OverrideRow, N!NoRow
  <2> HIDE DEF row
  <2>2. /\ ovr'[k] = row /\ \A l \in Ids \ {k} : ovr'[l] = ovr[l]
        /\ ovr' \in [Ids -> OvrRow \cup {N!NoRow}]
    BY <1>4, <1>6, <2>1 DEF row
  <2>3. \A l \in Ids : ovr[l].id < nextRow
    <3>1. \A l \in Ids : ovr[l] # N!NoRow => ovr[l].id < nextRow
      BY <1>4 DEF RowsNumbered
    <3>2. N!NoRow.id < nextRow
      BY <1>4 DEF N!NoRow
    <3> QED BY <3>1, <3>2
  <2>4. RowsNumbered'
    <3>1. \A l \in Ids : ovr[l].id \in Nat
      BY <1>4 DEF OvrRow, N!OverrideRow, N!NoRow
    <3>2. \A l \in Ids : ovr'[l] # N!NoRow => ovr'[l].id < nextRow'
      BY <1>4, <1>6, <2>1, <2>2, <2>3, <3>1
    <3>3. \A l, m \in Ids : ovr'[l] # N!NoRow /\ ovr'[l].id = ovr'[m].id => l = m
      BY <1>4, <2>1, <2>2, <2>3, <3>1 DEF RowsNumbered
    <3> QED BY <3>2, <3>3 DEF RowsNumbered
  <2>5. ASSUME NEW d \in Requests, request[d].pc = "sweeps", NEW r \in request[d].rows, NEW l \in Ids
        PROVE  ovr'[l] = ovr[l] \/ ovr'[l] = N!NoRow \/ ovr'[l].id # r.id
    <3>1. r.id < nextRow
      BY <2>5 DEF EntInv, Swept
    <3> QED BY <1>4, <2>1, <2>2, <3>1
  <2>6. nextRow' \in 1..(MaxRows + 1)
    BY <1>4, <1>6
  <2> QED BY <1>1, <1>3, <1>6, <2>2, <2>4, <2>5, <2>6, OverridesKeep
<1>7. CASE /\ ovr[k] # N!NoRow /\ UNCHANGED nextRow
           /\ ovr' = [ovr EXCEPT ![k].value = N!Column(@, read.value, value),
                                 ![k].expires = N!Column(@, read.expires, expires)]
  <2>1. ovr[k] \in OvrRow /\ ovr[k].id \in Nat
    BY <1>4, <1>7 DEF OvrRow, N!OverrideRow
  <2>2. PICK row \in OvrRow : row.id = ovr[k].id /\ ovr' = [ovr EXCEPT ![k] = row]
    <3> DEFINE x == N!Column(ovr[k].value, read.value, value)
               y == N!Column(ovr[k].expires, read.expires, expires)
               row == [ovr[k] EXCEPT !.value = x, !.expires = y]
    <3>1. x \in BOOLEAN /\ y \in N!Days \cup {N!Never}
      BY <2>1 DEF N!Column, OvrRow, N!OverrideRow
    <3>2. ovr' = [ovr EXCEPT ![k] = row]
      BY <1>4, <1>7
    <3> HIDE DEF x, y
    <3>3. row \in OvrRow /\ row.id = ovr[k].id
      BY <2>1, <3>1 DEF OvrRow, N!OverrideRow
    <3> QED BY <3>2, <3>3
  <2>3. /\ ovr'[k] = row /\ \A l \in Ids \ {k} : ovr'[l] = ovr[l]
        /\ ovr' \in [Ids -> OvrRow \cup {N!NoRow}]
    BY <1>4, <2>2
  <2>4. RowsNumbered'
    BY <1>4, <1>7, <2>2, <2>3 DEF RowsNumbered
  <2>5. ASSUME NEW d \in Requests, request[d].pc = "sweeps", NEW r \in request[d].rows, NEW l \in Ids
        PROVE  ovr'[l] = ovr[l] \/ ovr'[l] = N!NoRow \/ ovr'[l].id # r.id
    BY <1>3, <1>7, <2>2, <2>3, <2>5, HeldRow
  <2>6. ~ N!There => ovr' = ovr
    BY <1>7 DEF EntInv, NothingLeft
  <2>7. nextRow' = nextRow
    BY <1>7
  <2> QED BY <1>1, <1>3, <1>4, <2>3, <2>4, <2>5, <2>6, <2>7, OverridesKeep
<1>8. \/ UNCHANGED <<ovr, nextRow>>
      \/ /\ ovr[k] = N!NoRow /\ N!There /\ nextRow <= MaxRows
         /\ ovr' = [ovr EXCEPT ![k] = [id |-> nextRow, value |-> value, expires |-> expires]]
         /\ nextRow' = nextRow + 1
      \/ /\ ovr[k] # N!NoRow /\ UNCHANGED nextRow
         /\ ovr' = [ovr EXCEPT ![k].value = N!Column(@, read.value, value),
                               ![k].expires = N!Column(@, read.expires, expires)]
  BY <1>2 DEF N!WriteOverride
<1> QED BY <1>5, <1>6, <1>7, <1>8

LEMMA RevokeKeeps ==
    ASSUME EntInv, NEW c \in Requests, N!Revoke(c) \/ N!SweepDelete(c)
    PROVE  EntInv'
<1>1. request[c] # N!Rest /\ request' = [request EXCEPT ![c] = N!Rest]
  BY DEF N!Revoke, N!SweepDelete, N!Leaves, N!Rest
<1>2. /\ ovr \in [Ids -> OvrRow \cup {N!NoRow}] /\ RowsNumbered
      /\ nextRow \in 1..(MaxRows + 1)
  BY DEF EntInv, EntTypes
<1>3. /\ \A k \in Ids : ovr'[k] \in {ovr[k], N!NoRow}
      /\ ovr' \in [Ids -> OvrRow \cup {N!NoRow}]
      /\ UNCHANGED <<today, sub, plan, reminder, single, reminded, paid, nextRow>>
  <2>1. CASE N!Revoke(c)
    BY <1>2, <2>1 DEF N!Revoke, N!OvrUnchanged
  <2>2. CASE N!SweepDelete(c)
    BY <1>2, <2>2 DEF N!SweepDelete, N!OvrUnchanged
  <2> QED BY <2>1, <2>2
<1>4. RowsNumbered'
  <2>1. \A k \in Ids : ovr[k] # N!NoRow => ovr[k].id # N!NoRow.id
    BY <1>2 DEF OvrRow, N!OverrideRow, N!NoRow
  <2> QED BY <1>2, <1>3, <2>1 DEF RowsNumbered
<1>5. ~ N!There => \A k \in Ids : ovr'[k] = ovr[k]
  BY <1>3 DEF EntInv, NothingLeft
<1>6. ASSUME NEW d \in Requests, request[d].pc = "sweeps", NEW r \in request[d].rows, NEW k \in Ids
      PROVE  ovr'[k] = ovr[k] \/ ovr'[k] = N!NoRow \/ ovr'[k].id # r.id
  BY <1>3
<1>7. /\ nextRow' \in {nextRow, nextRow + 1} /\ nextRow' \in 1..(MaxRows + 1)
      /\ ovr' \in [Ids -> OvrRow \cup {N!NoRow}]
      /\ UNCHANGED <<today, sub, plan, reminder, single, reminded, paid>>
  BY <1>2, <1>3
<1>8. \A d \in Requests \ {c} : request[d].pc = "sweeps" =>
          \A r \in request[d].rows : \A k \in Ids :
              ovr'[k] = ovr[k] \/ ovr'[k] = N!NoRow \/ ovr'[k].id # r.id
  BY <1>6
<1> QED BY <1>1, <1>4, <1>5, <1>7, <1>8, OverridesKeep

LEMMA EntNextKeeps ==
    ASSUME EntInv, N!EntNext
    PROVE  EntInv'
<1>1. CASE N!CreateTrial \/ N!DeleteOrg
  BY <1>1, CreateTrialKeeps, DeleteOrgKeeps
<1>2. CASE \/ N!NextDay
           \/ \E pl \in N!Plans : N!DeactivatePlan(pl) \/ \E k \in Ids : N!UpdatePlan(pl, k)
  BY <1>2, PlanKeeps
<1>3. ASSUME NEW c \in Requests, N!AskRemind(c) \/ N!Remind(c) \/ N!WriteSub(c)
      PROVE  EntInv'
  BY <1>3, AskRemindKeeps, RemindKeeps, WriteSubKeeps
<1>4. ASSUME NEW c \in Requests,
             \/ N!AskExpire(c) \/ N!AskCancel(c) \/ \E to \in N!Plans : N!AskPlan(c, to)
             \/ \E to \in N!Plans, status \in {"trialing", "active", "past_due", "canceled"} :
                   N!AskUpdate(c, to, status)
      PROVE  EntInv'
  BY <1>4, AskWriteKeeps
<1>5. ASSUME NEW c \in Requests, NEW k \in Ids,
             \/ \E value \in BOOLEAN, expires \in {N!Never, today + 1, today + 2} :
                   N!AskOverride(c, k, value, expires)
             \/ N!AskRevoke(c, k)
      PROVE  EntInv'
  BY <1>5, AskOverrideKeeps, AskRevokeKeeps
<1>6. ASSUME NEW c \in Requests, N!WriteOverride(c) \/ N!SweepLock(c)
      PROVE  EntInv'
  BY <1>6, WriteOverrideKeeps, SweepLockKeeps
<1>7. ASSUME NEW c \in Requests, N!Revoke(c) \/ N!SweepDelete(c)
      PROVE  EntInv'
  BY <1>7, RevokeKeeps
<1>8. CASE N!SubNext
  BY <1>1, <1>2, <1>3, <1>4, <1>8 DEF N!SubNext
<1>9. CASE N!OvrNext
  BY <1>1, <1>5, <1>6, <1>7, <1>9 DEF N!OvrNext
<1> QED BY <1>1, <1>2, <1>8, <1>9 DEF N!EntNext

LEMMA EntInitInv ==
    ASSUME N!EntInit
    PROVE  EntInv
<1>1. /\ today = 0 /\ sub = N!NoSub /\ reminder = {} /\ nextRow = 1 /\ paid = N!NotPaid
      /\ ovr = [k \in Ids |-> N!NoRow] /\ request = [c \in Requests |-> N!Rest]
      /\ single \in BOOLEAN /\ reminded = [d \in N!Reminders |-> 0]
  BY DEF N!EntInit
<1>2. plan \in [N!Plans -> N!PlanRow]
  BY DEF N!EntInit, N!PlanRow, N!Features
<1>3. EntTypes
  BY <1>1, <1>2, DaysAre DEF EntTypes, EntCall, N!NotPaid, N!Plans
<1>4. RemindersCounted /\ RowsNumbered /\ NothingLeft /\ PaidFor /\ OneAtATime
  BY <1>1 DEF RemindersCounted, RowsNumbered, NothingLeft, PaidFor, OneAtATime, N!NotPaid
<1>5. \A c \in Requests : Swept(request[c])
  BY <1>1 DEF Swept, N!Rest
<1> QED BY <1>3, <1>4, <1>5 DEF EntInv

LEMMA EntStepInv ==
    ASSUME EntInvariant, [Next]_serviceVars
    PROVE  EntInvariant'
<1> SUFFICES ASSUME focus' \in SubFoci
             PROVE  EntInv'
  BY DEF EntInvariant
<1>1. CASE SubStep
  <2>1. N!EntNext /\ focus \in SubFoci
    BY <1>1 DEF SubStep, N!EntNext
  <2> QED BY <2>1, EntNextKeeps DEF EntInvariant
<1>2. CASE SpendStep \/ AgentStep \/ BroadcastStep \/ TurnStep \/ UNCHANGED serviceVars
  <2>1. UNCHANGED <<focus, subVars>>
    BY <1>2 DEF SpendStep, AgentStep, BroadcastStep, TurnStep, serviceVars, S!Next
  <2> QED BY <2>1 DEF subVars, EntInvariant, EntInv, EntTypes, EntCall, RemindersCounted, RowsNumbered,
                      NothingLeft, Swept, AsRead, OneAtATime, PaidFor, N!There
<1> QED BY <1>1, <1>2 DEF Next

\* What the runs check of subscriptions and overrides follows.
LEMMA EntInvSafe ==
    ASSUME EntInvariant
    PROVE  EntitlementsSafe
<1> SUFFICES ASSUME EntInv
             PROVE  N!EntTypeOK /\ N!TrialRemindedOnce /\ N!PaidPeriodKept
  BY DEF EntInvariant, EntitlementsSafe
<1>1. N!EntTypeOK
  <2>1. N!There => sub \in N!SubscriptionRow
    BY DEF EntInv, EntTypes, N!There, SubRow
  <2> QED BY <2>1 DEF EntInv, EntTypes, NothingLeft, RowsNumbered, OvrRow, N!EntTypeOK
<1>2. N!TrialRemindedOnce
  BY DEF EntInv, EntTypes, RemindersCounted, N!TrialRemindedOnce
<1>3. N!PaidPeriodKept
  <2> SUFFICES ASSUME single, paid.until >= today
               PROVE  N!PlanInEffect = paid.plan
    BY DEF N!PaidPeriodKept
  <2>1. today \in Nat /\ paid.until \in Int /\ paid.until # N!Never
    BY DaysAre DEF EntInv, EntTypes
  <2>2. sub.plan = paid.plan /\ sub.end = paid.until /\ sub.status \in {"active", "canceled"}
    BY <2>1 DEF EntInv, PaidFor
  <2>3. ~ N!FallsBack(sub, today)
    BY <2>1, <2>2 DEF N!FallsBack
  <2> QED BY <2>2, <2>3 DEF N!PlanInEffect
<1> QED BY <1>1, <1>2, <1>3

\* A trial is announced once for each of its last days, nothing is left of an
\* organisation that is gone, and what was paid for is in effect to its last
\* day when requests do not overlap (subscription_service, feature_service).
THEOREM EntitlementsCorrect == Spec => []EntitlementsSafe
<1>1. Init => EntInvariant
  BY EntInitInv DEF Init, EntInvariant
<1>2. EntInvariant /\ [Next]_serviceVars => EntInvariant'
  BY EntStepInv
<1>3. EntInvariant => EntitlementsSafe
  BY EntInvSafe
<1> QED BY <1>1, <1>2, <1>3, PTL DEF Spec

-----------------------------------------------------------------------------
(* Broadcasts: a batch in flight has claimed its rows, so that no other drain *)
(* takes them, and only rows that Mailgun has no message for wait.            *)

Statuses == {"none", "pending", "sent", "failed", "skipped"}
DrainRow ==
    [pc : {"idle", "select", "recheck", "send", "answer", "recount", "complete"},
     retry : BOOLEAN, seen : SUBSET B!Users, todo : SUBSET B!Users, batch : SUBSET B!Users,
     was : [B!Users -> Statuses], outcome : B!Dispositions \cup {"none"}]
BroadcastTypes ==
    /\ broadcast \in {"absent", "draft", "sending", "completed", "failed"}
    /\ dryRun \in BOOLEAN
    /\ recipient \in [B!Users -> B!RecipientRow]
    /\ \A u \in B!Users : recipient[u].attempts <= MaxAttempts
    /\ targetable \subseteq B!Users
    /\ queued \in [B!Users -> Nat]
    /\ ask \in [Requests -> {"idle", "send", "launch", "delete"}]
    /\ segment \in [Requests -> SUBSET B!Users]
    /\ drain \in [Requests -> DrainRow]

\* Until a broadcast is sent nothing runs, and it has no recipients.
Unsent ==
    broadcast \in {"absent", "draft"} =>
        /\ \A u \in B!Users : recipient[u] = B!NoRecipient /\ queued[u] = 0
        /\ \A p \in Requests : drain[p].pc = "idle" /\ ask[p] # "launch"
InFlight(p) == drain[p].pc \in {"send", "answer"}
\* Rows in flight are claimed, by one drain, and have no message unless it may
\* have been taken.
RowsHeld ==
    \A p \in Requests : InFlight(p) => \A u \in drain[p].batch :
        /\ recipient[u].status = "sent"
        /\ drain[p].pc = "send" \/ drain[p].outcome = "rejected" => queued[u] = 0
BatchesApart ==
    \A p, q \in Requests : InFlight(p) /\ InFlight(q) /\ p # q =>
        drain[p].batch \cap drain[q].batch = {}
\* Rows to be checked were waiting when they were selected.
WereWaiting ==
    \A p \in Requests : drain[p].pc = "recheck" =>
        \A u \in drain[p].todo : drain[p].was[u] \in {"pending", "failed"}
TakenOnce ==
    \A u \in B!Users : queued[u] <= 1 /\ (recipient[u].status # "sent" => queued[u] = 0)
AllTold ==
    broadcast = "completed" \/ (\E p \in Requests : drain[p].pc = "complete") => B!NothingPending
BroadcastInv ==
    /\ BroadcastTypes
    /\ Unsent
    /\ RowsHeld
    /\ BatchesApart
    /\ WereWaiting
    /\ TakenOnce
    /\ AllTold
BroadcastInvariant == focus = "broadcast" => BroadcastInv

LEMMA UsersAre ==
    /\ B!Users = 1..LastUser /\ B!Users \subseteq Nat /\ MaxAttempts \in Nat
    /\ Events \subseteq B!Deliveries
  BY ServicesAssumption DEF ServicesAssumption, B!BroadcastAssumption, B!Users

LEMMA IdleRow ==
    /\ B!Idle \in DrainRow /\ B!Idle.pc = "idle"
    /\ B!NoRecipient \in B!RecipientRow /\ B!NewRecipient \in B!RecipientRow
    /\ B!NoRecipient.attempts = 0 /\ B!NewRecipient.attempts = 0
    /\ B!NoRecipient.status = "none" /\ B!NewRecipient.status = "pending"
    /\ B!NoRecipient.delivery = B!Undelivered /\ B!NewRecipient.delivery = B!Undelivered
  BY DEF B!Idle, DrainRow, Statuses, B!NoRecipient, B!NewRecipient, B!RecipientRow

LEMMA NextBatchRow ==
    ASSUME NEW d \in DrainRow
    PROVE  B!NextBatch(d) \in DrainRow /\ B!NextBatch(d).pc = "select"
  BY DEF B!NextBatch, B!Idle, DrainRow, Statuses

\* Drains move, and rows do not.
LEMMA DrainsMove ==
    ASSUME BroadcastInv, drain' \in [Requests -> DrainRow],
           ask' \in [Requests -> {"idle", "send", "launch", "delete"}],
           segment' \in [Requests -> SUBSET B!Users],
           broadcast' \in {"absent", "draft", "sending", "completed", "failed"},
           dryRun' \in BOOLEAN, UNCHANGED <<recipient, targetable, queued>>,
           \A p \in Requests : \/ drain'[p] = drain[p]
                               \/ drain'[p].pc \in {"idle", "select", "recount"}
                               \/ drain'[p].pc = "recheck" /\ \A u \in drain'[p].todo :
                                     drain'[p].was[u] \in {"pending", "failed"}
                               \/ drain'[p].pc = "complete" /\ B!NothingPending,
           broadcast' = "completed" => broadcast = "completed" \/ B!NothingPending,
           broadcast' \in {"absent", "draft"} =>
               /\ broadcast \in {"absent", "draft"}
               /\ \A p \in Requests : drain'[p].pc = "idle" /\ ask'[p] # "launch"
    PROVE  BroadcastInv'
<1>1. BroadcastTypes' /\ Unsent' /\ TakenOnce'
  BY DEF BroadcastInv, BroadcastTypes, Unsent, TakenOnce
<1>2. \A p \in Requests : InFlight(p)' => drain'[p] = drain[p] /\ InFlight(p)
  BY DEF InFlight
<1>3. RowsHeld' /\ BatchesApart'
  BY <1>2 DEF BroadcastInv, RowsHeld, BatchesApart
<1>4. WereWaiting'
  BY DEF BroadcastInv, WereWaiting
<1>5. AllTold'
  BY DEF BroadcastInv, AllTold, B!NothingPending
<1> QED BY <1>1, <1>3, <1>4, <1>5 DEF BroadcastInv

\* The endpoints.
LEMMA EndpointsKeep ==
    ASSUME BroadcastInv,
           \/ B!CreateBroadcast \/ B!DryRun
           \/ \E p \in Requests : \/ B!SendBroadcastChecks(p) \/ B!DeleteBroadcastChecks(p)
                                  \/ B!LaunchDrain(p) \/ B!ResumeBroadcast(p)
    PROVE  BroadcastInv'
<1>1. /\ drain \in [Requests -> DrainRow] /\ ask \in [Requests -> {"idle", "send", "launch", "delete"}]
      /\ segment \in [Requests -> SUBSET B!Users] /\ targetable \subseteq B!Users
      /\ broadcast \in {"absent", "draft", "sending", "completed", "failed"} /\ dryRun \in BOOLEAN
  BY DEF BroadcastInv, BroadcastTypes
<1>2. CASE B!CreateBroadcast \/ B!DryRun
  <2>1. /\ UNCHANGED <<drain, ask, segment, recipient, targetable, queued>>
        /\ broadcast' = "draft" /\ dryRun' \in BOOLEAN /\ broadcast \in {"absent", "draft"}
    BY <1>1, <1>2 DEF B!CreateBroadcast, B!DryRun
  <2>2. \A p \in Requests : drain'[p].pc = "idle" /\ ask'[p] # "launch"
    BY <2>1 DEF BroadcastInv, Unsent
  <2> QED BY <1>1, <2>1, <2>2, DrainsMove
<1>3. ASSUME NEW p \in Requests, B!SendBroadcastChecks(p) \/ B!DeleteBroadcastChecks(p)
      PROVE  BroadcastInv'
  <2>1. /\ UNCHANGED <<broadcast, dryRun, drain, recipient, targetable, queued>>
        /\ ask' \in [Requests -> {"idle", "send", "launch", "delete"}] /\ broadcast = "draft"
        /\ \A q \in Requests : ask'[q] = ask[q] \/ ask'[q] \in {"send", "delete"}
        /\ segment' \in [Requests -> SUBSET B!Users]
    BY <1>1, <1>3 DEF B!SendBroadcastChecks, B!DeleteBroadcastChecks
  <2>2. \A q \in Requests : drain'[q].pc = "idle" /\ ask'[q] # "launch"
    BY <2>1 DEF BroadcastInv, Unsent
  <2> QED BY <1>1, <2>1, <2>2, DrainsMove
<1>4. ASSUME NEW p \in Requests, B!LaunchDrain(p) \/ B!ResumeBroadcast(p)
      PROVE  BroadcastInv'
  <2>1. broadcast \notin {"absent", "draft"}
    BY <1>1, <1>4 DEF B!LaunchDrain, B!ResumeBroadcast, BroadcastInv, Unsent
  <2>2. PICK retry \in BOOLEAN : B!Launch(p, retry)
    BY <1>4 DEF B!LaunchDrain, B!ResumeBroadcast
  <2> DEFINE d == [B!Idle EXCEPT !.pc = "select", !.retry = retry]
  <2>3. d \in DrainRow /\ d.pc = "select"
    BY DEF B!Idle, DrainRow, Statuses
  <2>4. drain' \in {drain, [drain EXCEPT ![p] = d]}
    BY <2>2 DEF B!Launch
  <2> HIDE DEF d
  <2>5. /\ drain' \in [Requests -> DrainRow]
        /\ \A q \in Requests : drain'[q] = drain[q] \/ drain'[q].pc \in {"idle", "select", "recount"}
    BY <1>1, <2>3, <2>4
  <2>6. /\ UNCHANGED <<broadcast, dryRun, recipient, targetable, queued, segment>>
        /\ ask' \in [Requests -> {"idle", "send", "launch", "delete"}]
    BY <1>1, <1>4 DEF B!LaunchDrain, B!ResumeBroadcast
  <2> QED BY <1>1, <2>1, <2>5, <2>6, DrainsMove
<1> QED BY <1>2, <1>3, <1>4

\* A drain that runs belongs to a broadcast that was sent.
LEMMA RunsOnceSent ==
    ASSUME BroadcastInv, NEW p \in Requests, drain[p].pc # "idle"
    PROVE  broadcast \notin {"absent", "draft"}
  BY DEF BroadcastInv, Unsent

LEMMA OneDrainMoves ==
    ASSUME BroadcastInv, NEW p \in Requests, drain[p].pc # "idle", NEW d \in DrainRow,
           drain' = [drain EXCEPT ![p] = d],
           UNCHANGED <<dryRun, recipient, targetable, queued, ask, segment>>,
           \/ d.pc \in {"idle", "select", "recount"}
           \/ d.pc = "recheck" /\ \A u \in d.todo : d.was[u] \in {"pending", "failed"}
           \/ d.pc = "complete" /\ B!NothingPending,
           \/ broadcast' \in {broadcast, "failed"}
           \/ broadcast' = "completed" /\ B!NothingPending
    PROVE  BroadcastInv'
<1>1. /\ drain \in [Requests -> DrainRow] /\ ask \in [Requests -> {"idle", "send", "launch", "delete"}]
      /\ segment \in [Requests -> SUBSET B!Users]
      /\ broadcast \in {"absent", "draft", "sending", "completed", "failed"} /\ dryRun \in BOOLEAN
  BY DEF BroadcastInv, BroadcastTypes
<1>2. /\ drain' \in [Requests -> DrainRow] /\ drain'[p] = d
      /\ \A q \in Requests \ {p} : drain'[q] = drain[q]
  BY <1>1
<1>3. /\ broadcast' \in {"sending", "completed", "failed"}
      /\ broadcast' = "completed" => broadcast = "completed" \/ B!NothingPending
  BY <1>1, RunsOnceSent
<1>4. \A q \in Requests : \/ drain'[q] = drain[q]
                          \/ drain'[q].pc \in {"idle", "select", "recount"}
                          \/ drain'[q].pc = "recheck" /\ \A u \in drain'[q].todo :
                                drain'[q].was[u] \in {"pending", "failed"}
                          \/ drain'[q].pc = "complete" /\ B!NothingPending
  BY <1>2
<1> QED BY <1>1, <1>2, <1>3, <1>4, DrainsMove

LEMMA QuietDrainKeeps ==
    ASSUME BroadcastInv, NEW p \in Requests,
           \/ B!SelectBatch(p) \/ B!DropEmptyBatch(p) \/ B!Recount(p) \/ B!Complete(p)
           \/ \E flips \in BOOLEAN : B!DrainFails(p, flips)
    PROVE  BroadcastInv'
<1>1. drain \in [Requests -> DrainRow] /\ drain[p] \in DrainRow
  BY DEF BroadcastInv, BroadcastTypes
<1>2. CASE B!SelectBatch(p)
  <2> DEFINE rows == B!FirstRows({u \in B!Users \ drain[p].seen : B!Eligible(u, drain[p].retry)}, BatchSize)
             was == [u \in B!Users |-> IF u \in rows THEN recipient[u].status ELSE "none"]
             e == [B!Idle EXCEPT !.pc = "recount"]
             d == [drain[p] EXCEPT !.pc = "recheck", !.todo = rows, !.batch = {}, !.was = was]
  <2>1. rows \subseteq B!Users /\ \A u \in rows : recipient[u].status \in {"pending", "failed"}
    BY DEF B!FirstRows, B!Eligible
  <2>2. was \in [B!Users -> Statuses] /\ \A u \in rows : was[u] \in {"pending", "failed"}
    BY <2>1 DEF BroadcastInv, BroadcastTypes, B!RecipientRow, Statuses
  <2>3. e \in DrainRow /\ e.pc = "recount"
    BY DEF B!Idle, DrainRow, Statuses
  <2>4. drain[p].pc = "select" /\ drain' = [drain EXCEPT ![p] = IF rows = {} THEN e ELSE d]
        /\ UNCHANGED <<broadcast, dryRun, recipient, targetable, queued, ask, segment>>
    BY <1>2 DEF B!SelectBatch
  <2> HIDE DEF rows, was
  <2>5. d \in DrainRow /\ d.pc = "recheck" /\ \A u \in d.todo : d.was[u] \in {"pending", "failed"}
    BY <1>1, <2>1, <2>2 DEF DrainRow
  <2> HIDE DEF e, d
  <2> QED BY <2>3, <2>4, <2>5, OneDrainMoves
<1>3. CASE B!DropEmptyBatch(p)
  <2>1. /\ drain[p].pc = "recheck" /\ drain' = [drain EXCEPT ![p] = B!NextBatch(drain[p])]
        /\ UNCHANGED <<broadcast, dryRun, recipient, targetable, queued, ask, segment>>
    BY <1>1, <1>3 DEF B!DropEmptyBatch
  <2> QED BY <1>1, <2>1, NextBatchRow, OneDrainMoves
<1>4. CASE B!Recount(p)
  <2> DEFINE d == [drain[p] EXCEPT !.pc = "complete"]
  <2>1. d \in DrainRow /\ d.pc = "complete"
    BY <1>1 DEF DrainRow
  <2>2. /\ drain[p].pc = "recount" /\ drain' = [drain EXCEPT ![p] = IF B!NothingPending THEN d ELSE B!Idle]
        /\ UNCHANGED <<broadcast, dryRun, recipient, targetable, queued, ask, segment>>
    BY <1>1, <1>4 DEF B!Recount
  <2> HIDE DEF d
  <2> QED BY <2>1, <2>2, IdleRow, OneDrainMoves
<1>5. CASE B!Complete(p) \/ \E flips \in BOOLEAN : B!DrainFails(p, flips)
  <2>1. /\ drain[p].pc # "idle" /\ drain' = [drain EXCEPT ![p] = B!Idle]
        /\ UNCHANGED <<dryRun, recipient, targetable, queued, ask, segment>>
        /\ \/ broadcast' \in {broadcast, "failed"}
           \/ broadcast' = "completed" /\ drain[p].pc = "complete"
    BY <1>5 DEF B!Complete, B!DrainFails
  <2>2. drain[p].pc = "complete" => B!NothingPending
    BY DEF BroadcastInv, AllTold
  <2> QED BY <2>1, <2>2, IdleRow, OneDrainMoves
<1> QED BY <1>2, <1>3, <1>4, <1>5

LEMMA SendDeleteKeep ==
    ASSUME BroadcastInv, NEW p \in Requests, B!SendBroadcast(p) \/ B!DeleteBroadcast(p)
    PROVE  BroadcastInv'
<1>1. /\ drain \in [Requests -> DrainRow] /\ ask \in [Requests -> {"idle", "send", "launch", "delete"}]
      /\ segment \in [Requests -> SUBSET B!Users] /\ targetable \subseteq B!Users
      /\ broadcast \in {"absent", "draft", "sending", "completed", "failed"} /\ dryRun \in BOOLEAN
      /\ recipient \in [B!Users -> B!RecipientRow]
  BY DEF BroadcastInv, BroadcastTypes
<1>2. /\ UNCHANGED <<drain, targetable, queued>> /\ dryRun' \in BOOLEAN
      /\ segment' \in [Requests -> SUBSET B!Users]
  BY <1>1 DEF B!SendBroadcast, B!DeleteBroadcast
<1>3. CASE broadcast # "draft"
  <2>1. /\ ask' = [ask EXCEPT ![p] = "idle"] /\ UNCHANGED <<broadcast, recipient>>
    BY <1>3 DEF B!SendBroadcast, B!DeleteBroadcast, B!StillDraft
  <2>2. /\ ask' \in [Requests -> {"idle", "send", "launch", "delete"}]
        /\ \A q \in Requests : ask[q] # "launch" => ask'[q] # "launch"
    BY <1>1, <2>1
  <2>3. broadcast' \in {"absent", "draft"} =>
            \A q \in Requests : drain'[q].pc = "idle" /\ ask'[q] # "launch"
    BY <1>2, <2>1, <2>2 DEF BroadcastInv, Unsent
  <2> QED BY <1>1, <1>2, <2>1, <2>2, <2>3, DrainsMove
<1>4. CASE broadcast = "draft"
  <2>1. /\ \A u \in B!Users : recipient[u] = B!NoRecipient /\ queued[u] = 0
        /\ \A q \in Requests : drain[q].pc = "idle" /\ ask[q] # "launch"
    BY <1>4 DEF BroadcastInv, Unsent
  <2>2. /\ recipient' \in [B!Users -> B!RecipientRow]
        /\ \A u \in B!Users : recipient'[u] \in {B!NoRecipient, B!NewRecipient}
        /\ \/ broadcast' = "sending"
           \/ broadcast' = "absent" /\ \A u \in B!Users : recipient'[u] = B!NoRecipient
    BY <1>4, IdleRow DEF B!SendBroadcast, B!DeleteBroadcast, B!StillDraft
  <2>3. /\ ask' \in [Requests -> {"idle", "send", "launch", "delete"}]
        /\ broadcast' = "absent" => \A q \in Requests : ask'[q] # "launch"
    BY <1>1, <1>4, <2>1 DEF B!SendBroadcast, B!DeleteBroadcast, B!StillDraft
  <2>4. BroadcastTypes'
    BY <1>1, <1>2, <2>2, <2>3, IdleRow, UsersAre DEF BroadcastInv, BroadcastTypes
  <2>5. Unsent' /\ TakenOnce'
    BY <1>2, <2>1, <2>2, <2>3 DEF Unsent, TakenOnce
  <2>6. RowsHeld' /\ BatchesApart' /\ WereWaiting' /\ AllTold'
    BY <1>2, <2>1, <2>2 DEF RowsHeld, BatchesApart, WereWaiting, AllTold, InFlight
  <2> QED BY <2>4, <2>5, <2>6 DEF BroadcastInv
<1> QED BY <1>3, <1>4

LEMMA PodCrashKeeps ==
    ASSUME BroadcastInv, NEW p \in Requests, B!PodCrashes(p)
    PROVE  BroadcastInv'
<1>1. /\ drain \in [Requests -> DrainRow] /\ ask \in [Requests -> {"idle", "send", "launch", "delete"}]
      /\ segment \in [Requests -> SUBSET B!Users]
      /\ broadcast \in {"absent", "draft", "sending", "completed", "failed"} /\ dryRun \in BOOLEAN
  BY DEF BroadcastInv, BroadcastTypes
<1>2. /\ ask' = [ask EXCEPT ![p] = "idle"] /\ segment' = [segment EXCEPT ![p] = {}]
      /\ drain' = [drain EXCEPT ![p] = B!Idle]
      /\ UNCHANGED <<broadcast, dryRun, recipient, targetable, queued>>
  BY DEF B!PodCrashes
<1>3. /\ drain' \in [Requests -> DrainRow] /\ ask' \in [Requests -> {"idle", "send", "launch", "delete"}]
      /\ segment' \in [Requests -> SUBSET B!Users]
  BY <1>1, <1>2, IdleRow
<1>4. \A q \in Requests : /\ drain'[q] = drain[q] \/ drain'[q].pc = "idle"
                          /\ ask[q] # "launch" => ask'[q] # "launch"
  BY <1>1, <1>2, IdleRow
<1>5. broadcast' \in {"absent", "draft"} =>
          \A q \in Requests : drain'[q].pc = "idle" /\ ask'[q] # "launch"
  BY <1>2, <1>4 DEF BroadcastInv, Unsent
<1> QED BY <1>1, <1>2, <1>3, <1>4, <1>5, DrainsMove

\* A user lapses, or an event tells of a message: no row is sent or waits anew.
LEMMA WorldKeeps ==
    ASSUME BroadcastInv,
           \/ \E u \in B!Users : B!UserLapses(u)
           \/ \E u \in B!Users, s \in Events : B!DeliveryEvent(u, s)
    PROVE  BroadcastInv'
<1>1. CASE \E u \in B!Users : B!UserLapses(u)
  <2>1. /\ targetable' \subseteq B!Users
        /\ UNCHANGED <<broadcast, dryRun, recipient, queued, ask, segment, drain>>
    BY <1>1 DEF B!UserLapses, BroadcastInv, BroadcastTypes
  <2> QED BY <2>1 DEF BroadcastInv, BroadcastTypes, Unsent, RowsHeld, BatchesApart, InFlight,
                      WereWaiting, TakenOnce, AllTold, B!NothingPending
<1>2. ASSUME NEW u \in B!Users, NEW s \in Events, B!DeliveryEvent(u, s)
      PROVE  BroadcastInv'
  <2> DEFINE row == [recipient[u] EXCEPT !.delivery = s]
  <2>1. recipient[u] \in B!RecipientRow /\ s \in B!Deliveries
    BY UsersAre DEF BroadcastInv, BroadcastTypes
  <2>2. row \in B!RecipientRow /\ row.status = recipient[u].status /\ row.attempts = recipient[u].attempts
    BY <2>1 DEF B!RecipientRow
  <2>3. recipient' = [recipient EXCEPT ![u] = row] /\ queued[u] > 0
        /\ UNCHANGED <<broadcast, dryRun, targetable, queued, ask, segment, drain>>
    BY <1>2 DEF B!DeliveryEvent
  <2> HIDE DEF row
  <2>4. /\ recipient' \in [B!Users -> B!RecipientRow]
        /\ \A v \in B!Users : /\ recipient'[v].status = recipient[v].status
                              /\ recipient'[v].attempts = recipient[v].attempts
    BY <2>2, <2>3 DEF BroadcastInv, BroadcastTypes
  <2>5. broadcast \notin {"absent", "draft"}
    BY <2>3 DEF BroadcastInv, Unsent
  <2>6. BroadcastTypes' /\ Unsent'
    BY <2>3, <2>4, <2>5 DEF BroadcastInv, BroadcastTypes, Unsent
  <2>7. RowsHeld' /\ BatchesApart' /\ WereWaiting'
    BY <2>3, <2>4 DEF BroadcastInv, BroadcastTypes, DrainRow, RowsHeld, BatchesApart, WereWaiting, InFlight
  <2>8. TakenOnce' /\ AllTold'
    BY <2>3, <2>4 DEF BroadcastInv, TakenOnce, AllTold, B!NothingPending
  <2> QED BY <2>6, <2>7, <2>8 DEF BroadcastInv
<1> QED BY <1>1, <1>2

\* What a running drain does to its rows: they neither wait anew nor leave
\* another drain's batch.
LEMMA RowsMove ==
    ASSUME BroadcastInv, NEW p \in Requests, drain[p].pc # "idle", NEW d \in DrainRow,
           drain' = [drain EXCEPT ![p] = d],
           UNCHANGED <<broadcast, dryRun, targetable, ask, segment>>,
           recipient' \in [B!Users -> B!RecipientRow],
           \A u \in B!Users : recipient'[u].attempts <= MaxAttempts,
           queued' \in [B!Users -> Nat],
           \A u \in B!Users : recipient'[u].status = "pending" => recipient[u].status = "pending",
           \A q \in Requests \ {p} : InFlight(q) => \A u \in drain[q].batch :
               /\ recipient'[u].status = recipient[u].status
               /\ queued'[u] = queued[u]
               /\ d.pc \in {"send", "answer"} => u \notin d.batch,
           d.pc \in {"send", "answer"} => \A u \in d.batch :
               /\ recipient'[u].status = "sent"
               /\ d.pc = "send" \/ d.outcome = "rejected" => queued'[u] = 0,
           d.pc = "recheck" => \A u \in d.todo : d.was[u] \in {"pending", "failed"},
           d.pc # "complete",
           TakenOnce'
    PROVE  BroadcastInv'
<1>1. /\ drain \in [Requests -> DrainRow] /\ drain' \in [Requests -> DrainRow] /\ drain'[p] = d
      /\ \A q \in Requests \ {p} : drain'[q] = drain[q]
  BY DEF BroadcastInv, BroadcastTypes
<1>2. BroadcastTypes' /\ Unsent'
  BY <1>1, RunsOnceSent DEF BroadcastInv, BroadcastTypes, Unsent
<1>3. RowsHeld'
  <2>1. ASSUME NEW q \in Requests, InFlight(q)', NEW u \in drain'[q].batch
        PROVE  /\ recipient'[u].status = "sent"
               /\ drain'[q].pc = "send" \/ drain'[q].outcome = "rejected" => queued'[u] = 0
    <3>1. CASE q = p
      BY <1>1, <2>1, <3>1 DEF InFlight
    <3>2. CASE q # p
      <4>1. drain'[q] = drain[q] /\ InFlight(q)
        BY <1>1, <2>1, <3>2 DEF InFlight
      <4> QED BY <2>1, <3>2, <4>1 DEF BroadcastInv, RowsHeld
    <3> QED BY <3>1, <3>2
  <2> QED BY <2>1 DEF RowsHeld
<1>4. BatchesApart'
  <2>1. ASSUME NEW q \in Requests, NEW r \in Requests, InFlight(q)', InFlight(r)', q # r
        PROVE  drain'[q].batch \cap drain'[r].batch = {}
    <3>1. CASE q = p
      BY <1>1, <2>1, <3>1 DEF InFlight
    <3>2. CASE r = p
      BY <1>1, <2>1, <3>2 DEF InFlight
    <3>3. CASE q # p /\ r # p
      <4>1. drain'[q] = drain[q] /\ drain'[r] = drain[r] /\ InFlight(q) /\ InFlight(r)
        BY <1>1, <2>1, <3>3 DEF InFlight
      <4> QED BY <2>1, <4>1 DEF BroadcastInv, BatchesApart
    <3> QED BY <3>1, <3>2, <3>3
  <2> QED BY <2>1 DEF BatchesApart
<1>5. WereWaiting'
  BY <1>1 DEF BroadcastInv, WereWaiting
<1>6. AllTold'
  <2>1. broadcast' = "completed" \/ (\E q \in Requests : drain'[q].pc = "complete")
        => broadcast = "completed" \/ (\E q \in Requests : drain[q].pc = "complete")
    BY <1>1
  <2> QED BY <2>1 DEF BroadcastInv, AllTold, B!NothingPending
<1> QED BY <1>2, <1>3, <1>4, <1>5, <1>6 DEF BroadcastInv

\* A lapsed user's row is skipped only if nobody claimed it in between.
LEMMA RecheckKeeps ==
    ASSUME BroadcastInv, NEW p \in Requests, B!RecheckRow(p)
    PROVE  BroadcastInv'
<1> DEFINE u == B!Min(drain[p].todo)
           batch == IF u \in targetable THEN drain[p].batch \cup {u} ELSE drain[p].batch
           d == [drain[p] EXCEPT !.todo = @ \ {u}, !.seen = @ \cup {u}, !.batch = batch]
           row == [recipient[u] EXCEPT !.status = "skipped"]
<1>1. /\ drain[p] \in DrainRow /\ drain[p].pc = "recheck" /\ drain[p].todo # {}
      /\ drain[p].todo \subseteq B!Users /\ drain \in [Requests -> DrainRow]
  BY DEF B!RecheckRow, BroadcastInv, BroadcastTypes, DrainRow
<1>2. u \in drain[p].todo /\ u \in B!Users
  BY <1>1, UsersAre, Least DEF B!Min
<1>3. /\ drain' = [drain EXCEPT ![p] = d]
      /\ recipient' = IF u \notin targetable /\ recipient[u].status = drain[p].was[u]
                      THEN [recipient EXCEPT ![u] = row] ELSE recipient
      /\ UNCHANGED <<broadcast, dryRun, targetable, queued, ask, segment>>
  BY <1>1 DEF B!RecheckRow, DrainRow
<1> HIDE DEF u
<1>4. /\ d \in DrainRow /\ d.pc = "recheck"
      /\ \A v \in d.todo : d.was[v] \in {"pending", "failed"}
  <2>1. batch \subseteq B!Users
    BY <1>1, <1>2 DEF DrainRow
  <2>2. \A v \in drain[p].todo : drain[p].was[v] \in {"pending", "failed"}
    BY <1>1 DEF BroadcastInv, WereWaiting
  <2> HIDE DEF batch
  <2> QED BY <1>1, <1>2, <2>1, <2>2 DEF DrainRow
<1>5. recipient[u] \in B!RecipientRow /\ recipient \in [B!Users -> B!RecipientRow]
  BY <1>2 DEF BroadcastInv, BroadcastTypes
<1>6. row \in B!RecipientRow /\ row.status = "skipped" /\ row.attempts = recipient[u].attempts
  BY <1>5 DEF B!RecipientRow
<1> HIDE DEF d, row
<1>7. /\ recipient' \in [B!Users -> B!RecipientRow]
      /\ \A v \in B!Users : recipient'[v].attempts = recipient[v].attempts
      /\ \A v \in B!Users : recipient'[v].status # recipient[v].status =>
             recipient[v].status \in {"pending", "failed"} /\ recipient'[v].status = "skipped"
  <2>1. CASE recipient' = recipient
    BY <1>5, <2>1
  <2>2. CASE recipient' = [recipient EXCEPT ![u] = row] /\ recipient[u].status = drain[p].was[u]
    <3>1. recipient[u].status \in {"pending", "failed"}
      BY <1>1, <1>2, <2>2 DEF BroadcastInv, WereWaiting
    <3> QED BY <1>2, <1>5, <1>6, <2>2, <3>1
  <2> QED BY <1>3, <2>1, <2>2
<1>8. TakenOnce'
  BY <1>3, <1>7 DEF BroadcastInv, TakenOnce
<1>9. ASSUME NEW q \in Requests \ {p}, InFlight(q), NEW v \in drain[q].batch
      PROVE  recipient'[v].status = recipient[v].status
  <2>1. v \in B!Users /\ recipient[v].status = "sent"
    BY <1>1, <1>9 DEF BroadcastInv, RowsHeld, DrainRow
  <2> QED BY <1>7, <2>1
<1>10. /\ queued' \in [B!Users -> Nat]
       /\ \A v \in B!Users : recipient'[v].attempts <= MaxAttempts
       /\ \A v \in B!Users : recipient'[v].status = "pending" => recipient[v].status = "pending"
  BY <1>3, <1>7 DEF BroadcastInv, BroadcastTypes
<1>11. \A q \in Requests \ {p} : InFlight(q) => \A v \in drain[q].batch :
            /\ recipient'[v].status = recipient[v].status
            /\ queued'[v] = queued[v]
            /\ d.pc \in {"send", "answer"} => v \notin d.batch
  BY <1>3, <1>4, <1>9
<1> QED BY <1>1, <1>3, <1>4, <1>7, <1>8, <1>10, <1>11, RowsMove

\* Who claims a batch finds no row of it in another's.
LEMMA BatchClaimKeeps ==
    ASSUME BroadcastInv, NEW p \in Requests, B!ClaimBatch(p)
    PROVE  BroadcastInv'
<1> DEFINE rows == {u \in drain[p].batch : B!Claimable(u, drain[p].retry)}
           d == [drain[p] EXCEPT !.pc = "send", !.was = B!Idle.was]
<1>1. /\ drain[p] \in DrainRow /\ drain[p].pc = "recheck" /\ drain[p].batch \subseteq B!Users
      /\ drain \in [Requests -> DrainRow] /\ recipient \in [B!Users -> B!RecipientRow]
      /\ queued \in [B!Users -> Nat]
  BY DEF B!ClaimBatch, BroadcastInv, BroadcastTypes, DrainRow
<1>2. /\ UNCHANGED <<broadcast, dryRun, targetable, queued, ask, segment>>
      /\ \/ UNCHANGED recipient /\ drain' = [drain EXCEPT ![p] = B!NextBatch(drain[p])]
         \/ /\ drain[p].batch = rows /\ drain' = [drain EXCEPT ![p] = d]
            /\ recipient' = [u \in B!Users |->
                  IF u \in rows
                  THEN [recipient[u] EXCEPT !.status = "sent", !.attempts = @ + 1]
                  ELSE recipient[u]]
  BY <1>1 DEF B!ClaimBatch, B!ClaimedAll
<1>3. CASE UNCHANGED recipient /\ drain' = [drain EXCEPT ![p] = B!NextBatch(drain[p])]
  BY <1>1, <1>2, <1>3, NextBatchRow, OneDrainMoves
<1>4. CASE /\ drain[p].batch = rows /\ drain' = [drain EXCEPT ![p] = d]
           /\ recipient' = [u \in B!Users |->
                 IF u \in rows
                 THEN [recipient[u] EXCEPT !.status = "sent", !.attempts = @ + 1]
                 ELSE recipient[u]]
  <2>1. d \in DrainRow /\ d.pc = "send" /\ d.batch = rows
    <3>1. B!Idle.was \in [B!Users -> Statuses]
      BY DEF B!Idle, Statuses
    <3> HIDE DEF rows
    <3> QED BY <1>1, <1>4, <3>1 DEF DrainRow
  <2>2. \A u \in rows : /\ u \in B!Users /\ recipient[u].status \in {"pending", "failed"}
                           /\ recipient[u].attempts < MaxAttempts
    BY <1>1 DEF B!Claimable
  <2> HIDE DEF rows, d
  <2>3. ASSUME NEW u \in B!Users
        PROVE  /\ recipient'[u] \in B!RecipientRow /\ recipient'[u].attempts <= MaxAttempts
               /\ u \in rows => recipient'[u].status = "sent"
               /\ u \notin rows => recipient'[u] = recipient[u]
    <3> DEFINE row == [recipient[u] EXCEPT !.status = "sent", !.attempts = @ + 1]
    <3>1. /\ recipient[u] \in B!RecipientRow /\ recipient[u].attempts <= MaxAttempts
          /\ recipient'[u] = IF u \in rows THEN row ELSE recipient[u]
      BY <1>1, <1>4 DEF BroadcastInv, BroadcastTypes
    <3>2. row \in B!RecipientRow /\ row.status = "sent" /\ row.attempts = recipient[u].attempts + 1
      <4>1. recipient[u] \in B!RecipientRow /\ recipient[u].attempts \in Nat
        BY <3>1 DEF B!RecipientRow
      <4>2. recipient[u].attempts + 1 \in Nat
        BY <4>1
      <4> QED BY <4>1, <4>2 DEF B!RecipientRow
    <3> HIDE DEF row
    <3>3. u \in rows => row.attempts <= MaxAttempts
      BY <2>2, <3>1, <3>2, UsersAre DEF B!RecipientRow
    <3> QED BY <3>1, <3>2, <3>3
  <2>4. recipient' \in [B!Users -> B!RecipientRow]
    BY <1>4, <2>3
  <2>5. TakenOnce'
    BY <1>2, <2>3 DEF BroadcastInv, TakenOnce
  <2>6. \A q \in Requests \ {p} : InFlight(q) => \A u \in drain[q].batch : u \in B!Users /\ u \notin rows
    BY <1>1, <2>2 DEF BroadcastInv, RowsHeld, DrainRow
  <2>7. \A u \in d.batch : recipient'[u].status = "sent" /\ queued'[u] = 0
    BY <1>2, <2>1, <2>2, <2>3 DEF BroadcastInv, TakenOnce
  <2>8. /\ \A q \in Requests \ {p} : InFlight(q) => \A u \in drain[q].batch :
               /\ recipient'[u].status = recipient[u].status
               /\ queued'[u] = queued[u]
               /\ d.pc \in {"send", "answer"} => u \notin d.batch
        /\ \A u \in B!Users : recipient'[u].status = "pending" => recipient[u].status = "pending"
        /\ \A u \in B!Users : recipient'[u].attempts <= MaxAttempts
    BY <1>2, <2>1, <2>3, <2>6
  <2> QED BY <1>1, <1>2, <1>4, <2>1, <2>4, <2>5, <2>7, <2>8, RowsMove
<1> QED BY <1>2, <1>3, <1>4

\* Mailgun takes what is in flight, which it had no message for.
LEMMA SendBatchKeeps ==
    ASSUME BroadcastInv, NEW p \in Requests, NEW took \in BOOLEAN, NEW outcome \in B!Dispositions,
           B!SendBatch(p, took, outcome)
    PROVE  BroadcastInv'
<1> DEFINE d == [drain[p] EXCEPT !.pc = "answer", !.outcome = outcome]
<1>1. /\ drain[p] \in DrainRow /\ drain[p].pc = "send" /\ drain[p].batch \subseteq B!Users
      /\ drain \in [Requests -> DrainRow] /\ recipient \in [B!Users -> B!RecipientRow]
      /\ queued \in [B!Users -> Nat]
  BY DEF B!SendBatch, BroadcastInv, BroadcastTypes, DrainRow
<1>2. /\ drain' = [drain EXCEPT ![p] = d]
      /\ queued' = [u \in B!Users |->
             IF took /\ u \in drain[p].batch THEN queued[u] + 1 ELSE queued[u]]
      /\ outcome = "rejected" => ~ took
      /\ UNCHANGED <<broadcast, dryRun, recipient, targetable, ask, segment>>
  BY <1>1 DEF B!SendBatch, B!SendBatchResult, DrainRow
<1>3. d \in DrainRow /\ d.pc = "answer" /\ d.outcome = outcome /\ d.batch = drain[p].batch
  BY <1>1 DEF DrainRow
<1> HIDE DEF d
<1>4. \A u \in drain[p].batch : recipient[u].status = "sent" /\ queued[u] = 0
  BY <1>1 DEF BroadcastInv, RowsHeld, InFlight
<1>5. queued' \in [B!Users -> Nat]
  BY <1>1, <1>2
<1>6. TakenOnce'
  BY <1>1, <1>2, <1>4 DEF BroadcastInv, TakenOnce
<1>7. ASSUME NEW q \in Requests \ {p}, InFlight(q), NEW u \in drain[q].batch
      PROVE  queued'[u] = queued[u] /\ u \notin d.batch
  BY <1>1, <1>2, <1>3, <1>7 DEF BroadcastInv, BatchesApart, InFlight, DrainRow
<1>8. \A u \in d.batch : recipient'[u].status = "sent" /\ (d.outcome = "rejected" => queued'[u] = 0)
  BY <1>1, <1>2, <1>3, <1>4
<1>9. /\ recipient' \in [B!Users -> B!RecipientRow]
      /\ \A u \in B!Users : recipient'[u].attempts <= MaxAttempts
      /\ \A u \in B!Users : recipient'[u].status = "pending" => recipient[u].status = "pending"
      /\ \A q \in Requests \ {p} : InFlight(q) => \A u \in drain[q].batch :
             /\ recipient'[u].status = recipient[u].status
             /\ queued'[u] = queued[u]
             /\ d.pc \in {"send", "answer"} => u \notin d.batch
  BY <1>2, <1>7 DEF BroadcastInv, BroadcastTypes
<1> QED BY <1>1, <1>2, <1>3, <1>5, <1>6, <1>8, <1>9, RowsMove

\* A rejected batch may be sent again.
LEMMA RecordKeeps ==
    ASSUME BroadcastInv, NEW p \in Requests, B!RecordOutcome(p)
    PROVE  BroadcastInv'
<1> DEFINE d == B!NextBatch(drain[p])
<1>1. /\ drain[p] \in DrainRow /\ drain[p].pc = "answer" /\ drain[p].batch \subseteq B!Users
      /\ drain \in [Requests -> DrainRow] /\ recipient \in [B!Users -> B!RecipientRow]
      /\ queued \in [B!Users -> Nat]
  BY DEF B!RecordOutcome, BroadcastInv, BroadcastTypes, DrainRow
<1>2. /\ drain' = [drain EXCEPT ![p] = d]
      /\ recipient' = [u \in B!Users |->
             IF drain[p].outcome = "rejected" /\ u \in drain[p].batch /\ recipient[u].status = "sent"
             THEN [recipient[u] EXCEPT !.status = "failed"] ELSE recipient[u]]
      /\ UNCHANGED <<broadcast, dryRun, targetable, queued, ask, segment>>
  BY <1>1 DEF B!RecordOutcome
<1>3. d \in DrainRow /\ d.pc = "select"
  BY <1>1, NextBatchRow
<1> HIDE DEF d
<1>4. ASSUME NEW u \in B!Users
      PROVE  /\ recipient'[u] \in B!RecipientRow /\ recipient'[u].attempts = recipient[u].attempts
             /\ \/ recipient'[u] = recipient[u]
                \/ /\ drain[p].outcome = "rejected" /\ u \in drain[p].batch
                   /\ recipient'[u].status = "failed"
  <2> DEFINE row == [recipient[u] EXCEPT !.status = "failed"]
  <2>1. /\ recipient[u] \in B!RecipientRow
        /\ recipient'[u] = IF drain[p].outcome = "rejected" /\ u \in drain[p].batch
                              /\ recipient[u].status = "sent"
                           THEN row ELSE recipient[u]
    BY <1>1, <1>2
  <2>2. row \in B!RecipientRow /\ row.status = "failed" /\ row.attempts = recipient[u].attempts
    BY <2>1 DEF B!RecipientRow
  <2> HIDE DEF row
  <2> QED BY <2>1, <2>2
<1>5. recipient' \in [B!Users -> B!RecipientRow]
  BY <1>2, <1>4
<1>6. \A u \in drain[p].batch : drain[p].outcome = "rejected" => queued[u] = 0
  BY <1>1 DEF BroadcastInv, RowsHeld, InFlight
<1>7. TakenOnce'
  BY <1>2, <1>4, <1>6 DEF BroadcastInv, TakenOnce
<1>8. ASSUME NEW q \in Requests \ {p}, InFlight(q), NEW u \in drain[q].batch
      PROVE  recipient'[u].status = recipient[u].status
  <2>1. u \in B!Users /\ u \notin drain[p].batch
    BY <1>1, <1>8 DEF BroadcastInv, BatchesApart, InFlight, DrainRow
  <2> QED BY <1>4, <2>1
<1>9. /\ queued' \in [B!Users -> Nat]
      /\ \A u \in B!Users : recipient'[u].attempts <= MaxAttempts
      /\ \A u \in B!Users : recipient'[u].status = "pending" => recipient[u].status = "pending"
      /\ \A q \in Requests \ {p} : InFlight(q) => \A u \in drain[q].batch :
             /\ recipient'[u].status = recipient[u].status
             /\ queued'[u] = queued[u]
             /\ d.pc \in {"send", "answer"} => u \notin d.batch
  BY <1>1, <1>2, <1>3, <1>4, <1>8 DEF BroadcastInv, BroadcastTypes
<1> QED BY <1>1, <1>2, <1>3, <1>5, <1>7, <1>9, RowsMove

LEMMA BroadcastNextKeeps ==
    ASSUME BroadcastInv, B!BroadcastNext
    PROVE  BroadcastInv'
<1>1. CASE B!CreateBroadcast \/ B!DryRun
  BY <1>1, EndpointsKeep
<1>2. ASSUME NEW p \in Requests,
             \/ B!SendBroadcastChecks(p) \/ B!DeleteBroadcastChecks(p)
             \/ B!LaunchDrain(p) \/ B!ResumeBroadcast(p)
      PROVE  BroadcastInv'
  BY <1>2, EndpointsKeep
<1>3. ASSUME NEW p \in Requests,
             B!SendBroadcast(p) \/ B!DeleteBroadcast(p) \/ B!PodCrashes(p)
      PROVE  BroadcastInv'
  BY <1>3, SendDeleteKeep, PodCrashKeeps
<1>4. ASSUME NEW p \in Requests, B!DrainStep(p) \/ \E flips \in BOOLEAN : B!DrainFails(p, flips)
      PROVE  BroadcastInv'
  <2>1. CASE \/ B!SelectBatch(p) \/ B!DropEmptyBatch(p) \/ B!Recount(p) \/ B!Complete(p)
             \/ \E flips \in BOOLEAN : B!DrainFails(p, flips)
    BY <2>1, QuietDrainKeeps
  <2>2. CASE B!RecheckRow(p) \/ B!ClaimBatch(p) \/ B!RecordOutcome(p)
    BY <2>2, RecheckKeeps, BatchClaimKeeps, RecordKeeps
  <2>3. CASE \E took \in BOOLEAN, outcome \in B!Dispositions : B!SendBatch(p, took, outcome)
    BY <2>3, SendBatchKeeps
  <2> QED BY <1>4, <2>1, <2>2, <2>3 DEF B!DrainStep
<1>5. CASE \/ \E u \in B!Users : B!UserLapses(u)
           \/ \E u \in B!Users, s \in Events : B!DeliveryEvent(u, s)
  BY <1>5, WorldKeeps
<1> QED BY <1>1, <1>2, <1>3, <1>4, <1>5 DEF B!BroadcastNext

LEMMA BroadcastInitInv ==
    ASSUME B!BroadcastInit
    PROVE  BroadcastInv
<1>1. /\ broadcast = "absent" /\ dryRun = FALSE /\ targetable = B!Users
      /\ recipient = [u \in B!Users |-> B!NoRecipient] /\ queued = [u \in B!Users |-> 0]
      /\ ask = [p \in Requests |-> "idle"] /\ segment = [p \in Requests |-> {}]
      /\ drain = [p \in Requests |-> B!Idle]
  BY DEF B!BroadcastInit
<1>2. BroadcastTypes
  <2>1. recipient \in [B!Users -> B!RecipientRow] /\ drain \in [Requests -> DrainRow]
    BY <1>1, IdleRow
  <2>2. \A u \in B!Users : recipient[u].attempts <= MaxAttempts
    BY <1>1, IdleRow, UsersAre
  <2> QED BY <1>1, <2>1, <2>2 DEF BroadcastTypes
<1>3. Unsent /\ TakenOnce
  BY <1>1, IdleRow DEF Unsent, TakenOnce
<1>4. RowsHeld /\ BatchesApart /\ WereWaiting /\ AllTold
  BY <1>1, IdleRow DEF RowsHeld, BatchesApart, WereWaiting, AllTold, InFlight
<1> QED BY <1>2, <1>3, <1>4 DEF BroadcastInv

LEMMA BroadcastStepInv ==
    ASSUME BroadcastInvariant, [Next]_serviceVars
    PROVE  BroadcastInvariant'
<1> SUFFICES ASSUME focus' = "broadcast"
             PROVE  BroadcastInv'
  BY DEF BroadcastInvariant
<1>1. CASE BroadcastStep
  BY <1>1, BroadcastNextKeeps DEF BroadcastStep, BroadcastInvariant
<1>2. CASE SpendStep \/ SubStep \/ AgentStep \/ TurnStep \/ UNCHANGED serviceVars
  <2>1. UNCHANGED <<focus, broadcastVars>>
    BY <1>2 DEF SpendStep, SubStep, AgentStep, TurnStep, serviceVars, S!Next
  <2> QED BY <2>1 DEF broadcastVars, BroadcastInvariant, BroadcastInv, BroadcastTypes, Unsent,
                      RowsHeld, BatchesApart, InFlight, WereWaiting, TakenOnce, AllTold,
                      B!NothingPending
<1> QED BY <1>1, <1>2 DEF Next

LEMMA BroadcastInvSafe ==
    ASSUME BroadcastInvariant
    PROVE  BroadcastSafe
<1> SUFFICES ASSUME BroadcastInv
             PROVE  /\ B!BroadcastTypeOK /\ B!NeverDoubleSend /\ B!UnsentMeansNotQueued
                    /\ B!HistoryKept
  BY DEF BroadcastInvariant, BroadcastSafe
<1>1. B!BroadcastTypeOK
  BY DEF BroadcastInv, BroadcastTypes, B!BroadcastTypeOK
<1>2. B!NeverDoubleSend /\ B!UnsentMeansNotQueued
  BY DEF BroadcastInv, TakenOnce, B!NeverDoubleSend, B!UnsentMeansNotQueued
<1>3. B!HistoryKept
  BY DEF BroadcastInv, Unsent, AllTold, B!NothingPending, B!HistoryKept
<1> QED BY <1>1, <1>2, <1>3

\* However many replicas drain a broadcast, resume it, crash or lose answers,
\* nobody is sent a message twice, and what a row says of its message is true
\* (broadcast_service claims a batch before it is sent).
THEOREM BroadcastCorrect == Spec => []BroadcastSafe
<1>1. Init => BroadcastInvariant
  BY BroadcastInitInv DEF Init, BroadcastInvariant
<1>2. BroadcastInvariant /\ [Next]_serviceVars => BroadcastInvariant'
  BY BroadcastStepInv
<1>3. BroadcastInvariant => BroadcastSafe
  BY BroadcastInvSafe
<1> QED BY <1>1, <1>2, <1>3, PTL DEF Spec

-----------------------------------------------------------------------------
(* What a step may never do. *)

\* Only Execute carries anything out, while it holds the data that it read.
LEMMA AgentActs ==
    ASSUME AgentInv, A!AgentNext
    PROVE  A!AsPreviewed
<1>1. UNCHANGED applied \/ \E c \in Requests : A!Execute(c)
  <2>1. ASSUME NEW c \in Requests,
               \/ \E w \in A!Who, t \in A!Tools, v \in Values : A!AskPropose(c, w, t, v)
               \/ \E a \in Ids : A!AskRevert(c, a) \/ A!Propose(c, a) \/ A!Finish(c, a)
               \/ \E a \in Ids, w \in A!Who : A!AskConfirm(c, w, a)
        PROVE  UNCHANGED applied
    BY <2>1 DEF A!AskPropose, A!AskRevert, A!Propose, A!Finish, A!AskConfirm
  <2>2. ASSUME NEW c \in Requests,
               \/ A!RefuseProposal(c) \/ A!RefuseConfirm(c) \/ A!Claim(c) \/ A!GiveBack(c)
               \/ A!Repreview(c) \/ A!Fail(c) \/ A!FinishFails(c) \/ A!Die(c)
        PROVE  UNCHANGED applied
    BY <2>2 DEF A!RefuseProposal, A!RefuseConfirm, A!Claim, A!GiveBack, A!Repreview, A!Fail,
                A!FinishFails, A!Die
  <2>3. ASSUME \/ \E a \in Ids : A!Expire(a) \/ A!Purge(a) \/ \E w \in A!Who : A!Cancel(w, a)
               \/ \E v \in Values \cup {A!Gone} : A!Elsewhere(v)
               \/ A!Deploy
        PROVE  UNCHANGED applied
    BY <2>3 DEF A!Expire, A!Purge, A!Cancel, A!Elsewhere, A!Deploy
  <2> QED BY <2>1, <2>2, <2>3, Zenon DEF A!AgentNext
<1>2. CASE UNCHANGED applied
  BY <1>2 DEF AgentInv, AgentTypes, A!AsPreviewed
<1>3. ASSUME NEW c \in Requests, A!Execute(c)
      PROVE  A!AsPreviewed
  <2>1. asking[c].pc = "matches"
    BY <1>3 DEF A!Execute
  <2>2. PICK a \in Ids : a = asking[c].a
    BY <2>1, WorkedOn DEF Working
  <2>3. applied' = [applied EXCEPT ![a] = @ + 1]
    BY <1>3, <2>2 DEF A!Execute
  <2>4. \A b \in Ids \ {a} : applied'[b] = applied[b] /\ applied[b] \in Nat
    BY <2>3 DEF AgentInv, AgentTypes
  <2>5. act[a].tool.holds => data = act[a].before
    BY <2>1, <2>2 DEF AgentInv, Holds
  <2> QED BY <2>4, <2>5 DEF A!AsPreviewed
<1> QED BY <1>1, <1>2, <1>3

LEMMA OverridesGo ==
    ASSUME EntInv, N!EntNext
    PROVE  N!OnlyExpiredSwept
<1> SUFFICES ASSUME NEW k \in Ids, N!Unexpired(ovr[k]), ovr'[k] = N!NoRow
             PROVE  \/ sub' = N!Gone
                    \/ \E c \in Requests : /\ request[c].pc = "revokes" /\ request[c].k = k
                                           /\ request'[c] = N!Rest
  BY DEF N!OnlyExpiredSwept
<1>1. ovr[k] # N!NoRow /\ ovr[k] \in OvrRow /\ ovr \in [Ids -> OvrRow \cup {N!NoRow}]
  BY DEF N!Unexpired, EntInv, EntTypes
<1>2. ASSUME UNCHANGED ovr
      PROVE  FALSE
  BY <1>1, <1>2
<1>3. CASE N!DeleteOrg
  BY <1>3 DEF N!DeleteOrg
<1>4. ASSUME NEW c \in Requests, N!Revoke(c)
      PROVE  \E d \in Requests : /\ request[d].pc = "revokes" /\ request[d].k = k
                                 /\ request'[d] = N!Rest
  <2>1. request[c].pc = "revokes" /\ request'[c] = N!Rest
    BY <1>4 DEF N!Revoke, N!Leaves, EntInv, EntTypes
  <2>2. request[c].k = k
    BY <1>1, <1>4 DEF N!Revoke
  <2> QED BY <2>1, <2>2
<1>5. ASSUME NEW c \in Requests, N!SweepDelete(c)
      PROVE  FALSE
  <2>1. /\ request[c].pc = "sweeps"
        /\ ovr'[k] = IF ovr[k].id \in {r.id : r \in request[c].rows} THEN N!NoRow ELSE ovr[k]
    BY <1>5 DEF N!SweepDelete
  <2>2. PICK r \in request[c].rows : ovr[k].id = r.id
    BY <1>1, <2>1
  <2>3. ovr[k] = r /\ r.expires # N!Never /\ r.expires <= today
    BY <1>1, <2>1, <2>2 DEF EntInv, Swept
  <2> QED BY <1>1, <2>3 DEF N!Unexpired, EntInv, EntTypes, OvrRow, N!OverrideRow, N!Days, N!Never
<1>6. ASSUME NEW c \in Requests, N!WriteOverride(c)
      PROVE  FALSE
  <2>1. PICK l \in Ids : request[c].k = l
    BY <1>6 DEF N!WriteOverride, EntInv, EntTypes, EntCall, N!Rest, Writing
  <2>2. \A j \in Ids \ {l} : ovr'[j] = ovr[j]
    BY <1>1, <1>6, <2>1 DEF N!WriteOverride
  <2>3. k = l
    BY <1>1, <2>2
  <2>4. PICK x, y : ovr' \in {ovr, [ovr EXCEPT ![k].value = x, ![k].expires = y]}
    BY <1>1, <1>6, <2>1, <2>3 DEF N!WriteOverride
  <2>5. ovr' = [ovr EXCEPT ![k] = [@ EXCEPT !.value = x, !.expires = y]]
    BY <1>2, <2>4
  <2>6. ovr'[k].id = ovr[k].id
    BY <1>1, <2>5 DEF OvrRow, N!OverrideRow
  <2> QED BY <1>1, <2>6 DEF OvrRow, N!OverrideRow, N!NoRow
<1>7. \/ UNCHANGED ovr \/ N!DeleteOrg
      \/ \E c \in Requests : N!Revoke(c) \/ N!SweepDelete(c) \/ N!WriteOverride(c)
  <2>1. ASSUME \/ N!CreateTrial \/ N!NextDay
               \/ \E pl \in N!Plans : N!DeactivatePlan(pl) \/ \E j \in Ids : N!UpdatePlan(pl, j)
        PROVE  UNCHANGED ovr
    BY <2>1 DEF N!CreateTrial, N!NextDay, N!DeactivatePlan, N!UpdatePlan
  <2>2. ASSUME NEW c \in Requests,
               \/ N!AskRemind(c) \/ N!Remind(c) \/ N!AskExpire(c) \/ N!AskCancel(c) \/ N!WriteSub(c)
               \/ N!SweepLock(c)
        PROVE  UNCHANGED ovr
    BY <2>2 DEF N!AskRemind, N!Remind, N!AskExpire, N!AskCancel, N!WriteSub, N!SweepLock, N!Asks,
                N!SubOnly
  <2>3. ASSUME NEW c \in Requests, NEW to \in N!Plans, NEW status,
               N!AskPlan(c, to) \/ N!AskUpdate(c, to, status)
        PROVE  UNCHANGED ovr
    BY <2>3 DEF N!AskPlan, N!AskUpdate, N!Asks
  <2>4. ASSUME NEW c \in Requests, NEW j \in Ids, NEW value, NEW expires,
               N!AskOverride(c, j, value, expires) \/ N!AskRevoke(c, j)
        PROVE  UNCHANGED ovr
    BY <2>4 DEF N!AskOverride, N!AskRevoke
  <2>5. CASE N!SubNext
    BY <2>1, <2>2, <2>3, <2>5 DEF N!SubNext
  <2>6. CASE N!OvrNext
    BY <2>1, <2>2, <2>4, <2>6 DEF N!OvrNext
  <2> QED BY <2>1, <2>5, <2>6 DEF N!EntNext
<1> QED BY <1>2, <1>3, <1>4, <1>5, <1>6, <1>7

\* Rows are made anew only for a broadcast that was not sent.
LEMMA DeliveriesWorsen ==
    ASSUME BroadcastInv, B!BroadcastNext
    PROVE  B!DeliveryOnlyWorsens
<1>1. \A s \in B!Deliveries \cup {B!Undelivered} : B!Rank(s) \in Nat
  BY DEF B!Deliveries, B!Undelivered, B!Rank
<1>2. \A u \in B!Users : recipient[u] \in B!RecipientRow /\ B!Rank(recipient[u].delivery) \in Nat
  BY <1>1 DEF BroadcastInv, BroadcastTypes, B!RecipientRow
<1>3. ASSUME \A u \in B!Users : recipient'[u].delivery = recipient[u].delivery
      PROVE  B!DeliveryOnlyWorsens
  BY <1>2, <1>3 DEF B!DeliveryOnlyWorsens
<1>4. ASSUME NEW p \in Requests, B!SendBroadcast(p) \/ B!DeleteBroadcast(p)
      PROVE  \A u \in B!Users : recipient'[u].delivery = recipient[u].delivery
  <2>1. CASE broadcast = "draft"
    <3>1. \A u \in B!Users : /\ recipient[u] = B!NoRecipient
                             /\ recipient'[u] \in {B!NoRecipient, B!NewRecipient}
      BY <1>4, <2>1 DEF BroadcastInv, Unsent, B!SendBroadcast, B!DeleteBroadcast, B!StillDraft
    <3> QED BY <3>1, IdleRow
  <2>2. CASE broadcast # "draft"
    BY <1>4, <2>2 DEF B!SendBroadcast, B!DeleteBroadcast, B!StillDraft
  <2> QED BY <2>1, <2>2
<1>5. ASSUME NEW p \in Requests, B!RecheckRow(p) \/ B!ClaimBatch(p) \/ B!RecordOutcome(p)
      PROVE  \A u \in B!Users : recipient'[u].delivery = recipient[u].delivery
  <2>1. \A u \in B!Users :
            \/ recipient'[u] = recipient[u]
            \/ \E s : recipient'[u] = [recipient[u] EXCEPT !.status = s]
            \/ \E s, n : recipient'[u] = [recipient[u] EXCEPT !.status = s, !.attempts = n]
    <3>1. recipient \in [B!Users -> B!RecipientRow]
      BY DEF BroadcastInv, BroadcastTypes
    <3>2. CASE B!RecheckRow(p)
      BY <3>1, <3>2 DEF B!RecheckRow
    <3>3. CASE B!ClaimBatch(p)
      <4>1. \A u \in B!Users :
                recipient'[u] \in {recipient[u],
                    [recipient[u] EXCEPT !.status = "sent", !.attempts = recipient[u].attempts + 1]}
        BY <3>1, <3>3 DEF B!ClaimBatch
      <4> QED BY <4>1
    <3>4. CASE B!RecordOutcome(p)
      BY <3>1, <3>4 DEF B!RecordOutcome
    <3> QED BY <1>5, <3>2, <3>3, <3>4
  <2> QED BY <1>2, <2>1 DEF B!RecipientRow
<1>6. ASSUME NEW u \in B!Users, NEW s \in Events, B!DeliveryEvent(u, s)
      PROVE  B!DeliveryOnlyWorsens
  <2>1. recipient \in [B!Users -> B!RecipientRow] /\ s \in B!Deliveries
    BY UsersAre DEF BroadcastInv, BroadcastTypes
  <2>2. recipient'[u].delivery = s /\ B!Rank(s) > B!Rank(recipient[u].delivery)
    BY <1>2, <1>6, <2>1 DEF B!DeliveryEvent, B!Outranks, B!RecipientRow
  <2>3. \A v \in B!Users \ {u} : recipient'[v] = recipient[v]
    BY <1>6, <2>1 DEF B!DeliveryEvent
  <2> QED BY <1>1, <1>2, <2>1, <2>2, <2>3 DEF B!DeliveryOnlyWorsens
<1>7. CASE UNCHANGED recipient
  BY <1>3, <1>7
<1>8. \/ UNCHANGED recipient
      \/ \E p \in Requests : \/ B!SendBroadcast(p) \/ B!DeleteBroadcast(p) \/ B!RecheckRow(p)
                             \/ B!ClaimBatch(p) \/ B!RecordOutcome(p)
      \/ \E u \in B!Users, s \in Events : B!DeliveryEvent(u, s)
  BY DEF B!BroadcastNext, B!DrainStep, B!CreateBroadcast, B!DryRun, B!SendBroadcastChecks,
         B!LaunchDrain, B!ResumeBroadcast, B!DeleteBroadcastChecks, B!SelectBatch, B!DropEmptyBatch,
         B!SendBatch, B!Recount, B!Complete, B!DrainFails, B!PodCrashes, B!UserLapses
<1> QED BY <1>3, <1>4, <1>5, <1>6, <1>7, <1>8

\* An agent's action changes what its preview showed, an override in effect goes
\* only when it is revoked or its organisation deleted, and no late event takes
\* back a worse delivery status.
THEOREM CarriedOutCorrect == Spec => CarriedOutAsAgreed
<1> DEFINE Agreed == /\ focus = "agent" => A!AsPreviewed
                     /\ focus \in SubFoci => N!OnlyExpiredSwept
                     /\ focus = "broadcast" => B!DeliveryOnlyWorsens
           Safe == AgentInvariant /\ EntInvariant /\ BroadcastInvariant
<1>1. Init => Safe
  BY AgentInitInv, EntInitInv, BroadcastInitInv
     DEF Init, AgentInvariant, EntInvariant, BroadcastInvariant
<1>2. Safe /\ [Next]_serviceVars => Safe'
  BY AgentStepInv, EntStepInv, BroadcastStepInv
<1>3. Safe /\ [Next]_serviceVars => [Agreed]_serviceVars
  <2> SUFFICES ASSUME Safe, Next
               PROVE  Agreed
    OBVIOUS
  <2>1. CASE AgentStep
    BY <2>1, AgentActs DEF AgentStep, AgentInvariant, SubFoci
  <2>2. CASE SubStep
    <3>1. N!EntNext
      BY <2>2 DEF SubStep, N!EntNext
    <3> QED BY <2>2, <3>1, OverridesGo DEF SubStep, EntInvariant, SubFoci
  <2>3. CASE BroadcastStep
    BY <2>3, DeliveriesWorsen DEF BroadcastStep, BroadcastInvariant, SubFoci
  <2>4. CASE SpendStep \/ TurnStep
    BY <2>4 DEF SpendStep, TurnStep, SpendFoci, SubFoci
  <2> QED BY <2>1, <2>2, <2>3, <2>4 DEF Next
<1> QED BY <1>1, <1>2, <1>3, PTL DEF Spec, CarriedOutAsAgreed

-----------------------------------------------------------------------------
(* Spending: of what a call reserved, its share, the part that it may still   *)
(* be billed or give back is left; what all calls have left, and what was     *)
(* billed, is within what is counted as used.                                 *)

OrgRow == [consent : BOOLEAN, creds : SUBSET {"own", "platform"}, route : S!Routing]
Asked == [pc : {"rotates", "validates"}, o : Orgs, row : S!KeyRow]
Dispatched == [pc : {"prepared", "sent", "answered", "settled", "closing"}, o : Orgs,
               kind : S!Kinds, src : {"own", "platform"}, before : Nat, p : S!Periods,
               held : BOOLEAN, tries : Nat, cost : Nat, whole : BOOLEAN, settles : BOOLEAN]

\* A call: what it may be charged and what it knows of that.
Tries(kind) == IF kind = "structured" THEN MaxTries ELSE 1
CallOK(q) ==
    /\ q \in Dispatched
    /\ q.cost <= S!Projected(q.kind)
    /\ q.pc = "prepared" => q.tries = 0 /\ q.cost = 0 /\ q.whole
    /\ q.pc \in {"prepared", "settled"} \/ q.src = "own" => ~ q.held
    /\ q.kind = "embed" => q.src = "own"
    /\ q.pc = "sent" =>
        /\ q.held <=> q.src = "platform"
        /\ q.tries < Tries(q.kind)
        /\ q.cost <= Bound * q.tries
        /\ q.kind # "structured" => q.whole
Requested(q) == q = S!Off \/ q \in Asked \/ CallOK(q)

Holding(q, p, o) == q.pc \in {"sent", "answered", "closing"} /\ q.held /\ q.p = p /\ q.o = o
Share(q, p, o) == IF Holding(q, p, o) THEN S!Projected(q.kind) ELSE 0
Known(q) == IF q.pc = "sent" THEN IF q.whole THEN q.cost ELSE Bound * q.tries
            ELSE IF q.settles THEN q.cost ELSE S!Projected(q.kind)
Left(q, p, o) == IF Holding(q, p, o) THEN S!Projected(q.kind) - Known(q) ELSE 0
Shares(p, o) == Sum([c \in Requests |-> Share(dispatch[c], p, o)], Requests)
Lefts(p, o) == Sum([c \in Requests |-> Left(dispatch[c], p, o)], Requests)

OrgsOK ==
    /\ org \in [Orgs -> OrgRow]
    /\ \A o \in Orgs, f \in S!Features : org[o].route[f] \in org[o].creds \cup {"none"}
KeysOK ==
    /\ own \in [Orgs -> S!KeyRow]
    /\ retired \in [Orgs -> SUBSET Nat]
    /\ \A o \in Orgs : /\ own[o].key < own[o].next /\ own[o].key \notin retired[o]
                       /\ \A k \in retired[o] : k < own[o].next
MetersOK ==
    /\ period \in S!Periods
    /\ used \in [S!Periods -> [Orgs -> Int]]
    /\ billed \in [S!Periods -> [Orgs -> Nat]]
    /\ ledger \in [S!Periods -> [Orgs -> Nat]]
    /\ spend \in [S!Periods -> Int]
CallsOK ==
    /\ dispatch \in [Requests -> {S!Off} \cup Asked \cup Dispatched]
    /\ \A c \in Requests : Requested(dispatch[c])
\* One warning for each marker.
Warned ==
    /\ claimed \in [Orgs -> SUBSET S!Periods]
    /\ warned \in [S!Periods -> [Orgs -> {0, 1}]]
    /\ \A p \in S!Periods, o \in Orgs : warned[p][o] = 1 => p \in claimed[o]
Covered ==
    \A p \in S!Periods, o \in Orgs :
        /\ Shares(p, o) <= used[p][o]
        /\ billed[p][o] + Lefts(p, o) <= used[p][o]
SpendIsUsed == \A p \in S!Periods : spend[p] = Sum(used[p], Orgs)
SpendInv ==
    /\ OrgsOK /\ KeysOK /\ MetersOK /\ CallsOK /\ Warned
    /\ Covered /\ SpendIsUsed /\ S!CeilingHeld

\* The sums of the specification are those of the theorems on sums.
LEMMA MeterTotal ==
    ASSUME NEW f
    PROVE  S!Total(f) = Sum(f, Orgs)
  BY DEF S!Total, S!MapThenSumSet, S!MapThenFoldSet, Sum, MapThenSumSet, MapThenFoldSet

LEMMA SpendSizes ==
    /\ {Bound, OrgLimit, Ceiling, SoftCap, HardCap} \subseteq Nat
    /\ {MaxTries, MaxPeriod, MaxKeys} \subseteq Nat \ {0}
    /\ IsFiniteSet(Orgs) /\ IsFiniteSet(Requests)
  BY ServicesAssumption DEF S!SpendingAssumption, S!IsFiniteSet, IsFiniteSet

\* What some attempts may cost.
LEMMA Attempts ==
    ASSUME NEW n \in Nat
    PROVE  /\ Bound * n \in Nat /\ Bound * (n + 1) = Bound * n + Bound /\ Bound * 0 = 0 /\ Bound * 1 = Bound
           /\ n < MaxTries => Bound * n + Bound <= Bound * MaxTries
<1>1. Bound \in Nat /\ MaxTries \in Nat
  BY SpendSizes
<1>2. Bound * n \in Nat /\ Bound * (n + 1) = Bound * n + Bound /\ Bound * 0 = 0 /\ Bound * 1 = Bound
  BY <1>1
<1>3. ASSUME n < MaxTries
      PROVE  Bound * n + Bound <= Bound * MaxTries
  <2> DEFINE d == MaxTries - (n + 1)
  <2>1. d \in Nat /\ MaxTries = (n + 1) + d
    BY <1>1, <1>3
  <2> HIDE DEF d
  <2>2. Bound * ((n + 1) + d) = Bound * n + Bound + Bound * d /\ Bound * d \in Nat
    BY <1>1, <2>1
  <2> QED BY <1>1, <1>2, <2>1, <2>2
<1> QED BY <1>2, <1>3

\* What a call may cost, by kind.
LEMMA ProjectedIs ==
    ASSUME NEW kind
    PROVE  S!Projected(kind) = Bound * Tries(kind) /\ S!Projected(kind) \in Nat /\ Bound <= S!Projected(kind)
<1>1. Bound \in Nat /\ MaxTries \in Nat \ {0} /\ Bound * MaxTries \in Nat /\ Bound * 1 = Bound
      /\ Bound * 0 = 0 /\ Bound * 0 + Bound <= Bound * MaxTries
  BY SpendSizes, Attempts
<1> QED BY <1>1 DEF S!Projected, Tries

\* What the attempts that are left may cost.
LEMMA AttemptsLeft ==
    ASSUME NEW q, q \in Dispatched, q.tries < Tries(q.kind)
    PROVE  /\ Bound * q.tries \in Nat /\ Bound * (q.tries + 1) = Bound * q.tries + Bound
           /\ Bound * q.tries + Bound <= S!Projected(q.kind)
<1>1. q.tries \in Nat
  BY DEF Dispatched
<1>2. CASE q.kind = "structured"
  BY <1>1, <1>2, Attempts, ProjectedIs DEF Tries
<1>3. CASE q.kind # "structured"
  <2>1. q.tries = 0 /\ S!Projected(q.kind) = Bound /\ Bound \in Nat
    BY <1>1, <1>3, SpendSizes DEF Tries, S!Projected
  <2> QED BY <1>1, <2>1, Attempts
<1> QED BY <1>2, <1>3

LEMMA KnownNat ==
    ASSUME NEW q, CallOK(q)
    PROVE  Known(q) \in Nat /\ Known(q) <= S!Projected(q.kind)
<1>1. q \in Dispatched /\ q.cost \in Nat /\ S!Projected(q.kind) \in Nat /\ Bound \in Nat
      /\ q.cost <= S!Projected(q.kind)
  BY ProjectedIs, SpendSizes DEF CallOK, Dispatched
<1>2. q.pc = "sent" => Bound * q.tries \in Nat /\ Bound * q.tries + Bound <= S!Projected(q.kind)
  BY <1>1, AttemptsLeft DEF CallOK
<1>3. CASE q.pc = "sent"
  BY <1>1, <1>2, <1>3 DEF Known
<1>4. CASE q.pc # "sent"
  BY <1>1, <1>4 DEF Known
<1> QED BY <1>3, <1>4

LEMMA NotHeld ==
    ASSUME NEW q, q = S!Off \/ q \in Asked \/ (q \in Dispatched /\ (~ q.held \/ q.pc \in {"prepared", "settled"}))
    PROVE  \A p, o : Share(q, p, o) = 0 /\ Left(q, p, o) = 0
<1>1. \A p, o : ~ Holding(q, p, o)
  BY DEF Holding, Asked, Dispatched, S!Off
<1> QED BY <1>1 DEF Share, Left

LEMMA PartsNat ==
    ASSUME NEW q, Requested(q), NEW p, NEW o
    PROVE  Share(q, p, o) \in Nat /\ Left(q, p, o) \in Nat
<1>1. CASE q = S!Off \/ q \in Asked
  BY <1>1, NotHeld
<1>2. CASE CallOK(q)
  <2>1. Known(q) \in Nat /\ Known(q) <= S!Projected(q.kind) /\ S!Projected(q.kind) \in Nat
    BY <1>2, KnownNat, ProjectedIs
  <2> QED BY <2>1 DEF Share, Left
<1> QED BY <1>1, <1>2 DEF Requested

\* What one call changes of the sums.
LEMMA OneCall ==
    ASSUME CallsOK, NEW c \in Requests, NEW r, Requested(r),
           dispatch' = [dispatch EXCEPT ![c] = r], NEW p, NEW o
    PROVE  /\ Shares(p, o) \in Nat /\ Lefts(p, o) \in Nat
           /\ Shares(p, o)' = Shares(p, o) + Share(r, p, o) - Share(dispatch[c], p, o)
           /\ Lefts(p, o)' = Lefts(p, o) + Left(r, p, o) - Left(dispatch[c], p, o)
<1> DEFINE f == [x \in Requests |-> Share(dispatch[x], p, o)]
           h == [x \in Requests |-> Left(dispatch[x], p, o)]
           g == [x \in Requests |-> Share(dispatch'[x], p, o)]
           k == [x \in Requests |-> Left(dispatch'[x], p, o)]
<1>0. IsFiniteSet(Requests)
  BY SpendSizes
<1>1. \A x \in Requests : f[x] \in Nat /\ h[x] \in Nat
  BY PartsNat DEF CallsOK
<1>2. \A x \in Requests : dispatch'[x] = IF x = c THEN r ELSE dispatch[x]
  BY DEF CallsOK
<1>3. /\ g[c] \in Nat /\ g[c] = Share(r, p, o) /\ f[c] = Share(dispatch[c], p, o)
      /\ k[c] \in Nat /\ k[c] = Left(r, p, o) /\ h[c] = Left(dispatch[c], p, o)
  BY <1>2, PartsNat
<1>4. \A x \in Requests \ {c} : g[x] = f[x] /\ k[x] = h[x]
  BY <1>2
<1>5. Shares(p, o) = Sum(f, Requests) /\ Lefts(p, o) = Sum(h, Requests)
      /\ Shares(p, o)' = Sum(g, Requests) /\ Lefts(p, o)' = Sum(k, Requests)
  BY DEF Shares, Lefts
<1> HIDE DEF f, g, h, k
<1>6. Sum(f, Requests) \in Nat /\ Sum(h, Requests) \in Nat
  BY <1>0, <1>1, SumNatural
<1>7. \A x \in Requests : f[x] \in Int /\ h[x] \in Int
  BY <1>1
<1>8. g[c] \in Int /\ k[c] \in Int
  BY <1>3
<1>9. Sum(g, Requests) = Sum(f, Requests) + g[c] - f[c]
  BY <1>0, <1>4, <1>7, <1>8, SumUpdate
<1>10. Sum(k, Requests) = Sum(h, Requests) + k[c] - h[c]
  BY <1>0, <1>4, <1>7, <1>8, SumUpdate
<1> QED BY <1>3, <1>5, <1>6, <1>9, <1>10

LEMMA SameCalls ==
    ASSUME CallsOK, Covered, dispatch' = dispatch, used' = used, billed' = billed
    PROVE  Covered' /\ CallsOK'
<1>1. \A p, o : Shares(p, o)' = Shares(p, o) /\ Lefts(p, o)' = Lefts(p, o)
  BY DEF Shares, Lefts
<1>2. Covered'
  BY <1>1 DEF Covered
<1> QED BY <1>2 DEF CallsOK

\* What a step leaves alone.
LEMMA SpendFrames ==
    /\ OrgsOK /\ UNCHANGED org => OrgsOK'
    /\ KeysOK /\ UNCHANGED <<own, retired>> => KeysOK'
    /\ Warned /\ UNCHANGED <<claimed, warned>> => Warned'
    /\ SpendIsUsed /\ S!CeilingHeld /\ UNCHANGED <<used, spend>> => SpendIsUsed' /\ S!CeilingHeld'
    /\ MetersOK /\ UNCHANGED <<period, used, billed, ledger, spend>> => MetersOK'
  BY DEF OrgsOK, KeysOK, Warned, SpendIsUsed, S!CeilingHeld, MetersOK

\* A call that goes from q to r takes no more than the counters do.
Within(q, r) ==
    \A p \in S!Periods, o \in Orgs :
        /\ Share(r, p, o) - Share(q, p, o) <= used'[p][o] - used[p][o]
        /\ billed'[p][o] - billed[p][o] + Left(r, p, o) - Left(q, p, o) <= used'[p][o] - used[p][o]
LEMMA SpendingMoves ==
    ASSUME CallsOK, Covered, MetersOK, MetersOK', NEW c \in Requests, NEW r, Requested(r),
           dispatch' = [dispatch EXCEPT ![c] = r], Within(dispatch[c], r)
    PROVE  CallsOK' /\ Covered'
<1>1. CallsOK'
  BY DEF CallsOK, Requested, CallOK
<1>2. ASSUME NEW p \in S!Periods, NEW o \in Orgs
      PROVE  Shares(p, o)' <= used'[p][o] /\ billed'[p][o] + Lefts(p, o)' <= used'[p][o]
  <2>1. /\ Shares(p, o) \in Nat /\ Lefts(p, o) \in Nat
        /\ Shares(p, o)' = Shares(p, o) + Share(r, p, o) - Share(dispatch[c], p, o)
        /\ Lefts(p, o)' = Lefts(p, o) + Left(r, p, o) - Left(dispatch[c], p, o)
    BY OneCall, ZenonT(60)
  <2>2. /\ Share(r, p, o) \in Nat /\ Left(r, p, o) \in Nat
        /\ Share(dispatch[c], p, o) \in Nat /\ Left(dispatch[c], p, o) \in Nat
    BY PartsNat DEF CallsOK
  <2>3. used[p][o] \in Int /\ used'[p][o] \in Int /\ billed[p][o] \in Nat /\ billed'[p][o] \in Nat
    BY DEF MetersOK
  <2>4. Shares(p, o) <= used[p][o] /\ billed[p][o] + Lefts(p, o) <= used[p][o]
    BY DEF Covered
  <2>5. /\ Share(r, p, o) - Share(dispatch[c], p, o) <= used'[p][o] - used[p][o]
        /\ billed'[p][o] - billed[p][o] + Left(r, p, o) - Left(dispatch[c], p, o)
              <= used'[p][o] - used[p][o]
    BY DEF Within
  <2> QED BY <2>1, <2>2, <2>3, <2>4, <2>5
<1> QED BY <1>1, <1>2 DEF Covered

\* A step of a call that moves no counter and holds nothing.
LEMMA QuietMove ==
    ASSUME CallsOK, Covered, MetersOK, NEW c \in Requests, NEW r,
           dispatch' = [dispatch EXCEPT ![c] = r], UNCHANGED <<used, billed, spend>>, MetersOK',
           r = S!Off \/ r \in Asked \/ (CallOK(r) /\ ~ r.held)
    PROVE  CallsOK' /\ Covered'
<1>1. Requested(r)
  BY DEF Requested
<1>2. ASSUME NEW p \in S!Periods, NEW o \in Orgs
      PROVE  /\ Share(r, p, o) - Share(dispatch[c], p, o) <= used'[p][o] - used[p][o]
             /\ billed'[p][o] - billed[p][o] + Left(r, p, o) - Left(dispatch[c], p, o)
                    <= used'[p][o] - used[p][o]
  <2>1. Share(r, p, o) = 0 /\ Left(r, p, o) = 0
    BY NotHeld DEF CallOK
  <2>2. Share(dispatch[c], p, o) \in Nat /\ Left(dispatch[c], p, o) \in Nat
    BY PartsNat DEF CallsOK
  <2>3. used[p][o] \in Int /\ billed[p][o] \in Nat
    BY DEF MetersOK
  <2> QED BY <2>1, <2>2, <2>3
<1>3. Within(dispatch[c], r)
  BY <1>2 DEF Within
<1> QED BY <1>1, <1>3, SpendingMoves

\* A charge is within what the call knows, or may still be charged.
SameCall(q, r) ==
    /\ CallOK(r) /\ r.p = q.p /\ r.o = q.o /\ r.kind = q.kind /\ r.held = q.held
LEMMA SentKnown ==
    ASSUME NEW q, CallOK(q), q.pc = "sent"
    PROVE  /\ Known(q) \in Nat /\ Known(q) + Bound <= S!Projected(q.kind) /\ Bound \in Nat
           /\ q.cost \in Nat /\ (q.whole => Known(q) = q.cost)
           /\ q.kind # "structured" => q.whole /\ q.cost = 0 /\ q.tries = 0
<1>1. q \in Dispatched /\ q.tries < Tries(q.kind) /\ q.cost \in Nat /\ q.tries \in Nat
      /\ q.cost <= Bound * q.tries
  BY DEF CallOK, Dispatched
<1>2. /\ Bound * q.tries \in Nat /\ Bound * q.tries + Bound <= S!Projected(q.kind)
      /\ Bound \in Nat /\ S!Projected(q.kind) \in Nat
  BY <1>1, AttemptsLeft, SpendSizes, ProjectedIs
<1>3. q.kind # "structured" => q.whole /\ q.tries = 0 /\ Bound * 0 = 0
  BY <1>1, <1>2 DEF CallOK, Tries
<1> QED BY <1>1, <1>2, <1>3 DEF Known

LEMMA ChargedMove ==
    ASSUME CallsOK, Covered, MetersOK, NEW c \in Requests, NEW x \in 0 .. Bound,
           CallOK(dispatch[c]), dispatch[c].pc = "sent", S!Charges(c, x), UNCHANGED <<period, used, ledger, spend>>,
           NEW r, dispatch' = [dispatch EXCEPT ![c] = r],
           \/ r = S!Off
           \/ /\ SameCall(dispatch[c], r) /\ r.pc \in {"sent", "answered", "closing"}
              /\ Known(dispatch[c]) + x <= Known(r)
    PROVE  CallsOK' /\ Covered' /\ MetersOK'
<1> DEFINE q == dispatch[c]
<1>1. x \in Nat /\ x <= Bound /\ Known(q) \in Nat /\ Known(q) + Bound <= S!Projected(q.kind)
      /\ Bound \in Nat /\ S!Projected(q.kind) \in Nat
  BY SentKnown, ProjectedIs
<1>2. q \in Dispatched /\ q.p \in S!Periods /\ q.o \in Orgs /\ (q.held <=> q.src = "platform")
  BY DEF CallOK, Dispatched
<1>3. MetersOK'
  BY <1>1, <1>2 DEF MetersOK, S!Charges
<1>4. Requested(r)
  BY DEF Requested, SameCall
<1>5. ASSUME NEW p \in S!Periods, NEW o \in Orgs
      PROVE  /\ Share(r, p, o) - Share(q, p, o) <= used'[p][o] - used[p][o]
             /\ billed'[p][o] - billed[p][o] + Left(r, p, o) - Left(q, p, o)
                    <= used'[p][o] - used[p][o]
  <2>1. used[p][o] \in Int /\ used'[p][o] = used[p][o] /\ billed[p][o] \in Nat
    BY DEF MetersOK
  <2>2. billed'[p][o] = billed[p][o] + (IF q.held /\ p = q.p /\ o = q.o THEN x ELSE 0)
    BY <1>1, <1>2, <2>1 DEF S!Charges, MetersOK
  <2>3. Holding(q, p, o) <=> (q.held /\ p = q.p /\ o = q.o)
    BY DEF Holding
  <2>4. /\ Share(q, p, o) = IF q.held /\ p = q.p /\ o = q.o THEN S!Projected(q.kind) ELSE 0
        /\ Left(q, p, o) = IF q.held /\ p = q.p /\ o = q.o THEN S!Projected(q.kind) - Known(q) ELSE 0
    BY <2>3 DEF Share, Left
  <2>5. CASE r = S!Off
    <3>1. Share(r, p, o) = 0 /\ Left(r, p, o) = 0
      BY <2>5, NotHeld
    <3> QED BY <1>1, <2>1, <2>2, <2>4, <3>1
  <2>6. CASE SameCall(q, r) /\ r.pc \in {"sent", "answered", "closing"} /\ Known(q) + x <= Known(r)
    <3>1. Known(r) \in Nat /\ r.kind = q.kind
      BY <2>6, KnownNat DEF SameCall
    <3>2. /\ Share(r, p, o) = IF q.held /\ p = q.p /\ o = q.o THEN S!Projected(q.kind) ELSE 0
          /\ Left(r, p, o) = IF q.held /\ p = q.p /\ o = q.o THEN S!Projected(q.kind) - Known(r) ELSE 0
      BY <2>6 DEF Share, Left, Holding, SameCall
    <3> QED BY <1>1, <2>1, <2>2, <2>4, <2>6, <3>1, <3>2
  <2> QED BY <2>5, <2>6
<1> HIDE DEF q
<1>6. Within(dispatch[c], r)
  BY <1>5 DEF q, Within
<1> QED BY <1>3, <1>4, <1>6, SpendingMoves

-----------------------------------------------------------------------------
(* Credentials, routes, consent and keys. *)

LEMMA OrgSteps ==
    ASSUME SpendInv, S!OrgNext
    PROVE  SpendInv'
<1>1. UNCHANGED <<period, own, used, spend, ledger, claimed, dispatch, billed, warned, retired>>
  BY DEF S!OrgNext, S!AddCredential, S!RemoveCredential, S!SetRoute, S!DeleteRoute,
         S!WriteConsent, S!SetPlatformAI, S!OrgUnchanged, S!Counters
<1>2. \A o \in Orgs : /\ org[o].consent \in BOOLEAN /\ org[o].creds \subseteq {"own", "platform"}
                      /\ org[o].route \in [S!Features -> {"platform", "own", "none"}]
                      /\ \A f \in S!Features : org[o].route[f] \in org[o].creds \cup {"none"}
  BY DEF SpendInv, OrgsOK, OrgRow, S!Routing
<1>3. org \in [Orgs -> OrgRow]
  BY DEF SpendInv, OrgsOK
<1>4. ASSUME NEW o \in Orgs, NEW new, org' = [org EXCEPT ![o] = new],
             new.consent \in BOOLEAN, new.creds \subseteq {"own", "platform"}, new \in OrgRow,
             \A f \in S!Features : new.route[f] \in new.creds \cup {"none"}
      PROVE  OrgsOK'
  BY <1>3, <1>4 DEF SpendInv, OrgsOK
<1>5. OrgsOK'
  <2>1. ASSUME NEW o \in Orgs, NEW cred \in {"own", "platform"}, S!AddCredential(o, cred)
        PROVE  OrgsOK'
    <3> DEFINE new == [org[o] EXCEPT !.creds = @ \cup {cred}]
    <3>1. org' = [org EXCEPT ![o] = new]
      BY <2>1 DEF S!AddCredential
    <3>2. new \in OrgRow /\ new.consent = org[o].consent /\ new.creds = org[o].creds \cup {cred}
          /\ new.route = org[o].route
      BY <1>3 DEF OrgRow
    <3> HIDE DEF new
    <3> QED BY <1>2, <1>4, <3>1, <3>2
  <2>2. ASSUME NEW o \in Orgs, NEW cred \in {"own", "platform"}, S!RemoveCredential(o, cred)
        PROVE  OrgsOK'
    <3> DEFINE route == [f \in S!Features |-> IF org[o].route[f] = cred THEN "none" ELSE org[o].route[f]]
               new == [org[o] EXCEPT !.creds = @ \ {cred}, !.route = route]
    <3>1. org' = [org EXCEPT ![o] = new]
      BY <2>2 DEF S!RemoveCredential
    <3>2. route \in S!Routing
      BY <1>2 DEF S!Routing
    <3>3. \A f \in S!Features : route[f] \in (org[o].creds \ {cred}) \cup {"none"}
      BY <1>2
    <3> HIDE DEF route
    <3>4. new \in OrgRow /\ new.consent = org[o].consent /\ new.creds = org[o].creds \ {cred}
          /\ new.route = route
      BY <1>3, <3>2 DEF OrgRow
    <3> HIDE DEF new
    <3> QED BY <1>2, <1>4, <3>1, <3>3, <3>4
  <2>3. ASSUME NEW o \in Orgs, NEW f \in S!Features, NEW cred \in {"own", "platform", "none"},
               cred \in org[o].creds \cup {"none"},
               org' = [org EXCEPT ![o].route[f] = cred]
        PROVE  OrgsOK'
    <3> DEFINE route == [org[o].route EXCEPT ![f] = cred]
               new == [org[o] EXCEPT !.route = route]
    <3>1. org' = [org EXCEPT ![o] = new]
      BY <2>3
    <3>2. route \in S!Routing
      BY <1>2 DEF S!Routing
    <3>3. \A g \in S!Features : route[g] \in org[o].creds \cup {"none"}
      BY <1>2, <2>3
    <3> HIDE DEF route
    <3>4. new \in OrgRow /\ new.consent = org[o].consent /\ new.creds = org[o].creds
          /\ new.route = route
      BY <1>3, <3>2 DEF OrgRow
    <3> HIDE DEF new
    <3> QED BY <1>2, <1>4, <3>1, <3>3, <3>4
  <2>4. ASSUME NEW o \in Orgs, S!WriteConsent(o)
        PROVE  OrgsOK'
    <3> DEFINE new == [org[o] EXCEPT !.consent = ~ @]
    <3>1. org' = [org EXCEPT ![o] = new]
      BY <2>4 DEF S!WriteConsent
    <3>2. new \in OrgRow /\ new.consent \in BOOLEAN /\ new.creds = org[o].creds
          /\ new.route = org[o].route
      BY <1>3 DEF OrgRow
    <3> HIDE DEF new
    <3> QED BY <1>2, <1>4, <3>1, <3>2
  <2>5. ASSUME NEW o \in Orgs, NEW f \in S!Features, NEW cred \in {"own", "platform"}, S!SetRoute(o, f, cred)
        PROVE  OrgsOK'
    BY <2>3, <2>5 DEF S!SetRoute
  <2>6. ASSUME NEW o \in Orgs, S!DeleteRoute(o)
        PROVE  OrgsOK'
    <3>1. "feature" \in S!Features
      BY DEF S!Features
    <3> QED BY <2>3, <2>6, <3>1 DEF S!DeleteRoute
  <2>7. CASE S!SetPlatformAI
    BY <2>7, SpendFrames DEF S!SetPlatformAI, SpendInv
  <2> QED BY <2>1, <2>2, <2>4, <2>5, <2>6, <2>7 DEF S!OrgNext
<1> QED BY <1>1, <1>5, SpendFrames, SameCalls DEF SpendInv

LEMMA KeySteps ==
    ASSUME SpendInv, S!KeyNext
    PROVE  SpendInv'
<1>1. UNCHANGED <<period, org, used, spend, ledger, claimed, billed, warned>>
  BY DEF S!KeyNext, S!AskKey, S!ValidateCommit, S!RotateCommit, S!Counters
<1>2. MetersOK'
  BY <1>1, SpendFrames DEF SpendInv
<1>3. ASSUME NEW c \in Requests, NEW o \in Orgs, NEW what \in {"rotates", "validates"}, S!AskKey(c, o, what)
      PROVE  KeysOK' /\ CallsOK' /\ Covered'
  <2> DEFINE r == [pc |-> what, o |-> o, row |-> own[o]]
  <2>1. r \in Asked
    BY DEF Asked, SpendInv, KeysOK
  <2>2. dispatch' = [dispatch EXCEPT ![c] = r] /\ UNCHANGED <<own, retired>>
    BY <1>3 DEF S!AskKey, S!Enters
  <2> HIDE DEF r
  <2> QED BY <1>1, <1>2, <2>1, <2>2, QuietMove, SpendFrames DEF SpendInv
<1>4. ASSUME NEW c \in Requests, dispatch[c].pc \in {"rotates", "validates"}
      PROVE  dispatch[c].o \in Orgs /\ dispatch[c].row \in S!KeyRow
  BY <1>4 DEF SpendInv, CallsOK, Requested, CallOK, Dispatched, Asked, S!Off
<1>5. ASSUME NEW c \in Requests, NEW differ \in BOOLEAN, S!ValidateCommit(c, differ)
      PROVE  KeysOK' /\ CallsOK' /\ Covered'
  <2> DEFINE q == dispatch[c]
  <2>1. q.o \in Orgs /\ q.row \in S!KeyRow
    BY <1>4, <1>5 DEF S!ValidateCommit
  <2>2. retired' = retired /\ own' = IF differ THEN [own EXCEPT ![q.o] = [own[q.o] EXCEPT !.models = q.row.key]] ELSE own
    BY <1>5 DEF S!ValidateCommit, S!ModelsOnly
  <2>3. dispatch' = [dispatch EXCEPT ![c] = S!Off]
    BY <1>5 DEF S!ValidateCommit, S!Leaves
  <2> HIDE DEF q
  <2>4. KeysOK'
    <3>1. own \in [Orgs -> S!KeyRow]
      BY DEF SpendInv, KeysOK
    <3>2. own' \in [Orgs -> S!KeyRow] /\ \A o \in Orgs : own'[o].key = own[o].key /\ own'[o].next = own[o].next
      BY <2>1, <2>2, <3>1 DEF S!KeyRow
    <3> QED BY <2>2, <3>2 DEF SpendInv, KeysOK
  <2> QED BY <1>1, <1>2, <2>3, <2>4, QuietMove DEF SpendInv
<1>6. ASSUME NEW c \in Requests, S!RotateCommit(c)
      PROVE  KeysOK' /\ CallsOK' /\ Covered'
  <2> DEFINE z == dispatch[c].o
  <2>1. z \in Orgs
    BY <1>4, <1>6 DEF S!RotateCommit
  <2>2. /\ own[z].next <= MaxKeys
        /\ own' = [own EXCEPT ![z] = [key |-> own[z].next, models |-> own[z].next, next |-> own[z].next + 1]]
        /\ retired' = [retired EXCEPT ![z] = @ \cup {own[z].key}]
    BY <1>6 DEF S!RotateCommit
  <2>3. dispatch' = [dispatch EXCEPT ![c] = S!Off]
    BY <1>6 DEF S!RotateCommit, S!Leaves
  <2> HIDE DEF z
  <2>4. KeysOK'
    <3>1. own \in [Orgs -> S!KeyRow] /\ retired \in [Orgs -> SUBSET Nat] /\ MaxKeys \in Nat
      BY SpendSizes DEF SpendInv, KeysOK
    <3>2. own[z].key \in 1 .. MaxKeys /\ own[z].next \in 2 .. (MaxKeys + 1) /\ own[z].key < own[z].next
          /\ \A k \in retired[z] : k \in Nat /\ k < own[z].next
      BY <2>1, <3>1 DEF SpendInv, KeysOK, S!KeyRow
    <3>3. own' \in [Orgs -> S!KeyRow]
      BY <2>1, <2>2, <3>1, <3>2 DEF S!KeyRow
    <3>4. retired' \in [Orgs -> SUBSET Nat]
      BY <2>1, <2>2, <3>1, <3>2
    <3>5. \A o \in Orgs : o # z => own'[o] = own[o] /\ retired'[o] = retired[o]
      BY <2>1, <2>2, <3>1
    <3>6. /\ own'[z].key = own[z].next /\ own'[z].next = own[z].next + 1
          /\ retired'[z] = retired[z] \cup {own[z].key}
      BY <2>1, <2>2, <3>1
    <3>7. /\ own'[z].key < own'[z].next /\ own'[z].key \notin retired'[z]
          /\ \A k \in retired'[z] : k < own'[z].next
      BY <3>2, <3>6
    <3> QED BY <3>3, <3>4, <3>5, <3>7 DEF SpendInv, KeysOK
  <2> QED BY <1>1, <1>2, <2>3, <2>4, QuietMove DEF SpendInv
<1>7. KeysOK' /\ CallsOK' /\ Covered'
  BY <1>3, <1>5, <1>6 DEF S!KeyNext
<1> QED BY <1>1, <1>2, <1>7, SpendFrames DEF SpendInv

\* One meter moves, and the month's with it.
LEMMA MeterMoves ==
    ASSUME MetersOK, SpendIsUsed, NEW m \in S!Periods, NEW z \in Orgs, NEW d \in Int,
           used' = [used EXCEPT ![m][z] = @ + d], spend' = [spend EXCEPT ![m] = @ + d]
    PROVE  SpendIsUsed'
<1> SUFFICES ASSUME NEW p \in S!Periods
             PROVE  spend'[p] = Sum(used'[p], Orgs)
  BY DEF SpendIsUsed
<1>1. spend \in [S!Periods -> Int] /\ used \in [S!Periods -> [Orgs -> Int]] /\ spend[p] = Sum(used[p], Orgs)
  BY DEF MetersOK, SpendIsUsed
<1>2. CASE p # m
  BY <1>1, <1>2
<1>3. CASE p = m
  <2> DEFINE f == used[m]
             g == used'[m]
  <2>1. \A x \in Orgs : f[x] \in Int
    BY <1>1
  <2>2. g[z] \in Int /\ g[z] = f[z] + d /\ \A x \in Orgs \ {z} : g[x] = f[x]
    BY <1>1
  <2> HIDE DEF f, g
  <2>3. Sum(g, Orgs) = Sum(f, Orgs) + g[z] - f[z]
    BY <2>1, <2>2, SpendSizes, SumUpdate
  <2>4. Sum(f, Orgs) \in Int /\ Sum(f, Orgs) = spend[m] /\ spend'[m] = spend[m] + d
    BY <1>1, <1>3 DEF f
  <2>5. spend'[m] = Sum(g, Orgs)
    BY <2>1, <2>2, <2>3, <2>4
  <2> QED BY <1>3, <2>5 DEF g
<1> QED BY <1>2, <1>3

-----------------------------------------------------------------------------
(* Calls. *)

LEMMA WarnOnce ==
    ASSUME Warned, period \in S!Periods, NEW o \in Orgs, NEW due, S!Warn(o, due)
    PROVE  Warned'
<1>1. CASE due /\ S!FirstWarning(o)
  <2>1. period \notin claimed[o] /\ claimed' = [claimed EXCEPT ![o] = @ \cup {period}]
        /\ warned' = [warned EXCEPT ![period][o] = @ + 1]
    BY <1>1 DEF S!Warn, S!FirstWarning
  <2>2. warned[period][o] = 0
    BY <2>1 DEF Warned
  <2> QED BY <2>1, <2>2 DEF Warned
<1>2. CASE ~ (due /\ S!FirstWarning(o))
  BY <1>2, SpendFrames DEF S!Warn
<1> QED BY <1>1, <1>2

LEMMA PrepareStep ==
    ASSUME SpendInv, NEW c \in Requests, NEW o \in Orgs, NEW kind \in S!Kinds, S!Prepare(c, o, kind)
    PROVE  SpendInv'
<1> DEFINE src == S!Routed(o)
           r == [pc |-> "prepared", o |-> o, kind |-> kind, src |-> src, before |-> ledger[period][o],
                 p |-> period, held |-> FALSE, tries |-> 0, cost |-> 0, whole |-> TRUE,
                 settles |-> FALSE]
<1>1. /\ UNCHANGED <<period, org, own, used, spend, ledger, billed, retired>>
      /\ dispatch' = [dispatch EXCEPT ![c] = r]
      /\ src \in org[o].creds /\ (src = "platform" => kind # "embed")
      /\ \E due : S!Warn(o, due)
  BY DEF S!Prepare, S!Counters, S!Enters
<1>2. src \in {"own", "platform"}
  BY <1>1 DEF SpendInv, OrgsOK, OrgRow
<1>3. CallOK(r) /\ ~ r.held
  <2>1. ledger[period][o] \in Nat /\ period \in S!Periods
    BY DEF SpendInv, MetersOK
  <2> HIDE DEF src
  <2>2. r \in Dispatched
    BY <1>2, <2>1 DEF Dispatched
  <2>3. 0 <= S!Projected(kind)
    BY ProjectedIs
  <2> QED BY <1>1, <1>2, <2>2, <2>3 DEF CallOK
<1> HIDE DEF r
<1>4. MetersOK' /\ CallsOK' /\ Covered'
  BY <1>1, <1>3, SpendFrames, QuietMove DEF SpendInv
<1>5. Warned'
  BY <1>1, WarnOnce DEF SpendInv, MetersOK
<1> QED BY <1>1, <1>4, <1>5, SpendFrames DEF SpendInv

\* A call that is under way, by what its phase says.
LEMMA UnderWay ==
    ASSUME SpendInv, NEW c \in Requests,
           dispatch[c].pc \in {"prepared", "sent", "answered", "settled", "closing"}
    PROVE  CallOK(dispatch[c]) /\ dispatch[c] \in Dispatched
  BY DEF SpendInv, CallsOK, Requested, CallOK, Asked, S!Off

LEMMA ReserveStep ==
    ASSUME SpendInv, NEW c \in Requests, S!Reserve(c)
    PROVE  SpendInv'
<1> DEFINE q == dispatch[c]
           n == S!Projected(q.kind)
<1>1. CallOK(q) /\ q \in Dispatched /\ q.pc = "prepared"
  BY UnderWay DEF S!Reserve
<1>2. q.tries = 0 /\ q.cost = 0 /\ q.whole /\ ~ q.held /\ q.o \in Orgs /\ q.src \in {"own", "platform"}
  BY <1>1 DEF CallOK, Dispatched
<1>3. UNCHANGED <<period, org, own, ledger, claimed, billed, warned, retired>>
  BY DEF S!Reserve
<1>4. n \in Nat /\ Bound * 0 = 0 /\ 0 < Tries(q.kind)
  BY ProjectedIs, Attempts, SpendSizes DEF Tries
<1>5. CASE ~ (q.src = "platform" /\ S!WithinLimits(q.o, n))
  <2> DEFINE r == IF q.src = "own" THEN [q EXCEPT !.pc = "sent"] ELSE S!Off
  <2>1. dispatch' = [dispatch EXCEPT ![c] = r] /\ UNCHANGED <<used, spend>>
    BY <1>2, <1>5 DEF S!Reserve, S!Leaves
  <2>2. r = S!Off \/ (CallOK(r) /\ ~ r.held)
    <3>1. CASE q.src = "own"
      <4>1. r \in Dispatched /\ r.pc = "sent" /\ r.kind = q.kind /\ r.src = q.src /\ r.held = q.held
            /\ r.tries = q.tries /\ r.cost = q.cost /\ r.whole = q.whole
        BY <1>1, <3>1 DEF Dispatched
      <4> HIDE DEF r, q
      <4> QED BY <1>1, <1>2, <1>4, <3>1, <4>1 DEF CallOK
    <3>2. CASE q.src # "own"
      BY <3>2
    <3> QED BY <3>1, <3>2
  <2> HIDE DEF r, q, n
  <2>3. MetersOK'
    BY <1>3, <2>1, SpendFrames DEF SpendInv
  <2>4. CallsOK' /\ Covered'
    BY <1>3, <2>1, <2>2, <2>3, QuietMove DEF SpendInv
  <2> QED BY <1>3, <2>1, <2>3, <2>4, SpendFrames DEF SpendInv
<1>6. CASE q.src = "platform" /\ S!WithinLimits(q.o, n)
  <2> DEFINE r == [q EXCEPT !.pc = "sent", !.held = TRUE, !.p = period]
  <2>1. /\ dispatch' = [dispatch EXCEPT ![c] = r]
        /\ used' = [used EXCEPT ![period][q.o] = @ + n]
        /\ spend' = [spend EXCEPT ![period] = @ + n]
        /\ used[period][q.o] + n <= OrgLimit /\ spend[period] + n <= Ceiling
    BY <1>1, <1>6 DEF S!Reserve, S!WithinLimits
  <2>2. period \in S!Periods
    BY DEF SpendInv, MetersOK
  <2>3. r \in Dispatched /\ r.pc = "sent" /\ r.kind = q.kind /\ r.src = q.src /\ r.held = TRUE
        /\ r.tries = q.tries /\ r.cost = q.cost /\ r.whole = q.whole /\ r.o = q.o /\ r.p = period
    BY <1>1, <2>2 DEF Dispatched
  <2> HIDE DEF r, q
  <2>4. CallOK(r)
    BY <1>1, <1>2, <1>4, <1>6, <2>3 DEF CallOK
  <2>5. MetersOK'
    BY <1>2, <1>3, <1>4, <2>1 DEF SpendInv, MetersOK
  <2>6. SpendIsUsed'
    <3>1. MetersOK /\ SpendIsUsed /\ n \in Int
      BY <1>4 DEF SpendInv
    <3> HIDE DEF n
    <3> QED BY <1>2, <2>1, <2>2, <3>1, MeterMoves
  <2>7. S!CeilingHeld'
    BY <1>2, <1>4, <2>1, <2>2 DEF SpendInv, S!CeilingHeld, MetersOK
  <2>8. Within(dispatch[c], r)
    <3> SUFFICES ASSUME NEW p \in S!Periods, NEW o \in Orgs
                 PROVE  /\ Share(r, p, o) - Share(dispatch[c], p, o) <= used'[p][o] - used[p][o]
                        /\ billed'[p][o] - billed[p][o] + Left(r, p, o) - Left(dispatch[c], p, o)
                              <= used'[p][o] - used[p][o]
      BY DEF Within
    <3>1. Share(q, p, o) = 0 /\ Left(q, p, o) = 0
      BY <1>1, NotHeld
    <3>2. /\ Share(r, p, o) = IF p = period /\ o = q.o THEN n ELSE 0
          /\ Left(r, p, o) = IF p = period /\ o = q.o THEN n - Known(r) ELSE 0
      BY <2>3 DEF Share, Left, Holding
    <3>3. used[p][o] \in Int /\ billed[p][o] \in Nat /\ billed'[p][o] = billed[p][o]
      BY <1>3 DEF SpendInv, MetersOK
    <3>4. used'[p][o] = used[p][o] + (IF p = period /\ o = q.o THEN n ELSE 0)
      BY <1>2, <2>1, <2>2, <3>3 DEF SpendInv, MetersOK
    <3>5. Known(r) \in Nat
      BY <2>4, KnownNat
    <3> HIDE DEF n
    <3> QED BY <1>4, <3>1, <3>2, <3>3, <3>4, <3>5 DEF q
  <2>9. CallsOK' /\ Covered'
    BY <2>1, <2>4, <2>5, <2>8, SpendingMoves DEF SpendInv, Requested
  <2> QED BY <1>3, <2>5, <2>6, <2>7, <2>9, SpendFrames DEF SpendInv
<1> QED BY <1>5, <1>6

\* Charges leave all but the call and what is billed.
LEMMA ChargedStep ==
    ASSUME SpendInv, NEW c \in Requests, dispatch[c].pc = "sent", NEW x \in 0 .. Bound,
           S!Charges(c, x), S!OnlyCall, NEW r, dispatch' = [dispatch EXCEPT ![c] = r],
           \/ r = S!Off
           \/ /\ SameCall(dispatch[c], r) /\ r.pc \in {"sent", "answered", "closing"}
              /\ Known(dispatch[c]) + x <= Known(r)
    PROVE  SpendInv'
<1>1. CallOK(dispatch[c])
  BY UnderWay
<1>2. UNCHANGED <<period, org, own, used, spend, ledger, claimed, warned, retired>>
  BY DEF S!OnlyCall, S!Counters
<1>3. CallsOK' /\ Covered' /\ MetersOK'
  BY <1>1, <1>2, ChargedMove DEF SpendInv
<1> QED BY <1>2, <1>3, SpendFrames DEF SpendInv

\* An answer to a call of one attempt: what it cost is told or is not.
Carries(q, r) == /\ r.o = q.o /\ r.kind = q.kind /\ r.src = q.src /\ r.p = q.p
                 /\ r.held = q.held /\ r.tries = q.tries /\ r.whole = q.whole
LEMMA OneAnswer ==
    ASSUME SpendInv, NEW c \in Requests, dispatch[c].pc = "sent", dispatch[c].kind # "structured",
           NEW x \in 0 .. Bound, S!Charges(c, x), S!OnlyCall, NEW told \in BOOLEAN,
           NEW to \in {"answered", "closing"}, NEW r, dispatch' = [dispatch EXCEPT ![c] = r],
           r \in Dispatched, r.pc = to, r.settles = told, r.cost = (IF told THEN x ELSE 0),
           Carries(dispatch[c], r)
    PROVE  SpendInv'
<1> DEFINE q == dispatch[c]
<1>1. CallOK(q) /\ Known(q) = 0 /\ Bound <= S!Projected(q.kind) /\ Bound \in Nat /\ x \in Nat /\ x <= Bound
      /\ S!Projected(q.kind) \in Nat
  BY UnderWay, SentKnown, ProjectedIs
<1>2. /\ r.o = q.o /\ r.kind = q.kind /\ r.src = q.src /\ r.p = q.p
      /\ r.held = q.held /\ r.tries = q.tries /\ r.whole = q.whole
  BY DEF Carries
<1>3. CallOK(r)
  BY <1>1, <1>2 DEF CallOK
<1>4. Known(q) + x <= Known(r)
  BY <1>1, <1>2 DEF Known
<1>5. SameCall(q, r)
  BY <1>2, <1>3 DEF SameCall
<1> HIDE DEF q
<1>6. SameCall(dispatch[c], r) /\ Known(dispatch[c]) + x <= Known(r)
  BY <1>4, <1>5 DEF q
<1> QED BY <1>6, ChargedStep

LEMMA AnswerSteps ==
    ASSUME SpendInv, NEW c \in Requests, NEW x \in 0 .. Bound, NEW complete \in BOOLEAN,
           S!Answer(c, x, complete) \/ S!StreamEnd(c, x, complete)
    PROVE  SpendInv'
<1> DEFINE q == dispatch[c]
           r == [q EXCEPT !.pc = "answered", !.settles = complete, !.cost = IF complete THEN x ELSE 0]
<1>1. q.pc = "sent" /\ q.kind # "structured" /\ S!Charges(c, x) /\ S!OnlyCall
  BY DEF S!Answer, S!StreamEnd
<1>2. q \in Dispatched /\ x \in Nat
  BY <1>1, UnderWay, SpendSizes
<1>3. dispatch' = [dispatch EXCEPT ![c] = r]
  BY DEF S!Answer, S!StreamEnd
<1>4. /\ r \in Dispatched /\ r.pc = "answered" /\ r.settles = complete /\ r.cost = (IF complete THEN x ELSE 0)
      /\ Carries(q, r)
  BY <1>2 DEF Dispatched, Carries
<1> HIDE DEF r
<1> QED BY <1>1, <1>3, <1>4, OneAnswer

LEMMA EmbedStep ==
    ASSUME SpendInv, NEW c \in Requests, NEW x \in 0 .. Bound, S!EmbedAnswer(c, x)
    PROVE  SpendInv'
<1> DEFINE q == dispatch[c]
           r == [q EXCEPT !.pc = "answered", !.cost = x]
<1>1. q.pc = "sent" /\ q.kind = "embed" /\ S!Charges(c, x) /\ S!OnlyCall
      /\ dispatch' = [dispatch EXCEPT ![c] = r]
  BY DEF S!EmbedAnswer
<1>2. q \in Dispatched /\ CallOK(q) /\ x \in Nat /\ x <= Bound /\ Bound <= S!Projected(q.kind)
      /\ S!Projected(q.kind) \in Nat /\ Bound \in Nat
  BY <1>1, UnderWay, SpendSizes, ProjectedIs
<1>3. /\ r \in Dispatched /\ r.pc = "answered" /\ r.cost = x
      /\ r.o = q.o /\ r.kind = q.kind /\ r.src = q.src /\ r.held = q.held
  BY <1>2 DEF Dispatched
<1>4. q.src = "own" /\ ~ q.held
  BY <1>1, <1>2 DEF CallOK
<1> HIDE DEF r
<1>5. CallOK(r) /\ ~ r.held
  BY <1>2, <1>3, <1>4 DEF CallOK
<1>6. UNCHANGED <<period, org, own, used, spend, ledger, billed, claimed, warned, retired>>
  BY <1>1, <1>4 DEF S!OnlyCall, S!Counters, S!Charges
<1>7. MetersOK'
  BY <1>6, SpendFrames DEF SpendInv
<1>8. CallsOK' /\ Covered'
  BY <1>1, <1>5, <1>6, <1>7, QuietMove DEF SpendInv
<1> QED BY <1>6, <1>7, <1>8, SpendFrames DEF SpendInv

LEMMA StructuredStep ==
    ASSUME SpendInv, NEW c \in Requests, NEW x \in 0 .. Bound, NEW complete \in BOOLEAN,
           NEW fits \in BOOLEAN, S!StructuredAnswer(c, x, complete, fits)
    PROVE  SpendInv'
<1> DEFINE q == dispatch[c]
           last == fits \/ q.tries + 1 = MaxTries
           all == q.whole /\ complete
           to == IF last THEN "answered" ELSE "sent"
           known == last /\ all
           paidFor == q.cost + (IF complete THEN x ELSE 0)
           next == q.tries + 1
           r == [q EXCEPT !.pc = to, !.tries = next, !.whole = all, !.cost = paidFor, !.settles = known]
<1>1. q.pc = "sent" /\ q.kind = "structured" /\ S!Charges(c, x) /\ S!OnlyCall
      /\ dispatch' = [dispatch EXCEPT ![c] = r]
  BY DEF S!StructuredAnswer
<1>2. q \in Dispatched /\ CallOK(q) /\ x \in Nat /\ x <= Bound /\ Bound \in Nat /\ MaxTries \in Nat
  BY <1>1, UnderWay, SpendSizes
<1>3. /\ q.tries \in Nat /\ q.tries < MaxTries /\ q.cost \in Nat /\ q.cost <= Bound * q.tries
      /\ q.whole \in BOOLEAN /\ q.held \in BOOLEAN
  BY <1>1, <1>2 DEF CallOK, Tries, Dispatched
<1>4. /\ Bound * q.tries \in Nat /\ Bound * (q.tries + 1) = Bound * q.tries + Bound
      /\ Bound * q.tries + Bound <= S!Projected(q.kind) /\ S!Projected(q.kind) \in Nat
  BY <1>1, <1>2, <1>3, AttemptsLeft, ProjectedIs DEF Tries
<1>5. /\ all \in BOOLEAN /\ last \in BOOLEAN /\ (all => q.whole /\ complete)
      /\ next \in Nat /\ paidFor \in Nat /\ known \in BOOLEAN /\ to \in {"answered", "sent"}
  BY <1>2, <1>3
<1>13. ~ last => q.tries + 1 < MaxTries
  BY <1>2, <1>3
<1> HIDE DEF last, all
<1>14. to = (IF last THEN "answered" ELSE "sent") /\ known = (last /\ all)
       /\ paidFor = q.cost + (IF complete THEN x ELSE 0)
       /\ next = q.tries + 1
  OBVIOUS
<1> HIDE DEF to, known, paidFor, next
<1>15. /\ r \in Dispatched
       /\ r.pc = to /\ r.tries = next /\ r.whole = all /\ r.cost = paidFor /\ r.settles = known
       /\ r.o = q.o /\ r.kind = q.kind /\ r.src = q.src /\ r.p = q.p /\ r.held = q.held
  BY <1>2, <1>5 DEF Dispatched
<1>6. /\ r \in Dispatched
      /\ r.pc = (IF last THEN "answered" ELSE "sent") /\ r.tries = q.tries + 1 /\ r.whole = all
      /\ r.cost = q.cost + (IF complete THEN x ELSE 0) /\ r.settles = (last /\ all)
      /\ r.o = q.o /\ r.kind = q.kind /\ r.src = q.src /\ r.p = q.p /\ r.held = q.held
  BY <1>14, <1>15
<1>7. ~ last => q.tries + 1 < MaxTries
  BY <1>13
<1>8. r.cost \in Nat /\ r.cost <= Bound * q.tries + Bound /\ r.cost <= S!Projected(q.kind)
  BY <1>2, <1>3, <1>4, <1>6
<1> HIDE DEF r
<1>9. CallOK(r)
  <2>1. r.pc = "sent" => r.tries < Tries(r.kind) /\ r.cost <= Bound * r.tries
    BY <1>1, <1>4, <1>6, <1>7, <1>8 DEF Tries
  <2> QED BY <1>1, <1>2, <1>6, <1>8, <2>1 DEF CallOK
<1>10. Known(q) + x <= Known(r)
  <2>1. Known(q) = IF q.whole THEN q.cost ELSE Bound * q.tries
    BY <1>1 DEF Known
  <2>2. Known(q) \in Nat /\ Known(q) <= Bound * q.tries
    BY <1>3, <1>4, <2>1
  <2>3. CASE all
    <3>1. Known(r) = r.cost /\ r.cost = q.cost + x /\ q.whole
      BY <1>5, <1>6, <2>3 DEF Known
    <3> QED BY <1>2, <1>3, <2>1, <3>1
  <2>4. CASE ~ all
    <3>1. Known(r) = IF last THEN S!Projected(q.kind) ELSE Bound * q.tries + Bound
      BY <1>4, <1>6, <2>4 DEF Known
    <3> QED BY <1>2, <1>4, <2>2, <3>1
  <2> QED BY <2>3, <2>4
<1>11. SameCall(q, r) /\ r.pc \in {"sent", "answered", "closing"}
  BY <1>6, <1>9 DEF SameCall
<1> HIDE DEF q
<1>12. SameCall(dispatch[c], r) /\ Known(dispatch[c]) + x <= Known(r) /\ dispatch[c].pc = "sent"
  BY <1>1, <1>10, <1>11 DEF q
<1> QED BY <1>1, <1>11, <1>12, ChargedStep

LEMMA LostStep ==
    ASSUME SpendInv, NEW c \in Requests, NEW x \in 0 .. Bound, S!Lost(c, x)
    PROVE  SpendInv'
<1> DEFINE q == dispatch[c]
           r == [q EXCEPT !.pc = "answered", !.settles = FALSE]
<1>1. q.pc = "sent" /\ S!Charges(c, x) /\ S!OnlyCall /\ dispatch' = [dispatch EXCEPT ![c] = r]
  BY DEF S!Lost, S!LostHeld
<1>2. q \in Dispatched /\ CallOK(q) /\ x \in Nat /\ x <= Bound /\ Bound \in Nat
      /\ Known(q) \in Nat /\ Known(q) + Bound <= S!Projected(q.kind) /\ S!Projected(q.kind) \in Nat
  BY <1>1, UnderWay, SpendSizes, SentKnown, ProjectedIs
<1>3. /\ r \in Dispatched /\ r.pc = "answered" /\ r.cost = q.cost /\ r.settles = FALSE
      /\ r.o = q.o /\ r.kind = q.kind /\ r.src = q.src /\ r.held = q.held /\ r.p = q.p
  BY <1>2 DEF Dispatched
<1> HIDE DEF r
<1>4. CallOK(r)
  BY <1>1, <1>2, <1>3 DEF CallOK
<1>5. SameCall(q, r) /\ r.pc \in {"sent", "answered", "closing"} /\ Known(q) + x <= Known(r)
  BY <1>2, <1>3, <1>4 DEF SameCall, Known
<1> HIDE DEF q
<1>6. SameCall(dispatch[c], r) /\ Known(dispatch[c]) + x <= Known(r) /\ dispatch[c].pc = "sent"
  BY <1>1, <1>5 DEF q
<1> QED BY <1>1, <1>5, <1>6, ChargedStep

LEMMA RefusedStep ==
    ASSUME SpendInv, NEW c \in Requests, S!Refused(c)
    PROVE  SpendInv'
<1> DEFINE q == dispatch[c]
           r == [q EXCEPT !.pc = "answered", !.settles = q.whole]
<1>1. q.pc = "sent" /\ UNCHANGED billed /\ S!OnlyCall /\ dispatch' = [dispatch EXCEPT ![c] = r]
  BY DEF S!Refused, S!KnownAtRefusal
<1>2. q \in Dispatched /\ CallOK(q) /\ Bound \in Nat /\ q.whole \in BOOLEAN
      /\ Known(q) \in Nat /\ Known(q) + Bound <= S!Projected(q.kind) /\ S!Projected(q.kind) \in Nat
      /\ (q.whole => Known(q) = q.cost)
  BY <1>1, UnderWay, SpendSizes, SentKnown, ProjectedIs DEF Dispatched
<1>3. /\ r \in Dispatched /\ r.pc = "answered" /\ r.cost = q.cost /\ r.settles = q.whole
      /\ r.o = q.o /\ r.kind = q.kind /\ r.src = q.src /\ r.held = q.held /\ r.p = q.p
  BY <1>2 DEF Dispatched
<1> HIDE DEF r
<1>4. CallOK(r)
  BY <1>1, <1>2, <1>3 DEF CallOK
<1>5. SameCall(q, r) /\ r.pc \in {"sent", "answered", "closing"} /\ Known(q) <= Known(r)
  BY <1>2, <1>3, <1>4 DEF SameCall, Known
<1> HIDE DEF q
<1>6. SameCall(dispatch[c], r) /\ Known(dispatch[c]) + 0 <= Known(r) /\ dispatch[c].pc = "sent"
  BY <1>1, <1>2, <1>5 DEF q
<1>7. 0 \in 0 .. Bound /\ S!Charges(c, 0)
  <2> DEFINE m == dispatch[c].p
             z == dispatch[c].o
             line == [billed[m] EXCEPT ![z] = @ + 0]
  <2>1. m \in S!Periods /\ z \in Orgs
    BY <1>2 DEF q, Dispatched
  <2>2. billed \in [S!Periods -> [Orgs -> Nat]]
    BY DEF SpendInv, MetersOK
  <2>3. line = billed[m]
    BY <2>1, <2>2
  <2>4. billed = [billed EXCEPT ![m] = line]
    BY <2>1, <2>2, <2>3
  <2> QED BY <1>1, <1>2, <2>4 DEF S!Charges
<1> QED BY <1>1, <1>5, <1>6, <1>7, ChargedStep

LEMMA StreamLeftStep ==
    ASSUME SpendInv, NEW c \in Requests, NEW x \in 0 .. Bound, NEW final \in BOOLEAN,
           S!StreamLeft(c, x, final)
    PROVE  SpendInv'
<1> DEFINE q == dispatch[c]
           r == [q EXCEPT !.pc = "closing", !.settles = TRUE, !.cost = x]
<1>1. q.pc = "sent" /\ q.kind # "structured" /\ S!Charges(c, x) /\ S!OnlyCall
      /\ dispatch' = [dispatch EXCEPT ![c] = IF final THEN r ELSE S!Off]
  BY DEF S!StreamLeft
<1>2. q \in Dispatched /\ x \in Nat
  BY <1>1, UnderWay, SpendSizes
<1>3. /\ r \in Dispatched /\ r.pc = "closing" /\ r.settles = TRUE /\ r.cost = x
      /\ Carries(q, r)
  BY <1>2 DEF Dispatched, Carries
<1> HIDE DEF r
<1>4. CASE final
  <2>1. r.settles \in BOOLEAN /\ r.settles = TRUE /\ r.cost = (IF TRUE THEN x ELSE 0) /\ TRUE \in BOOLEAN
    BY <1>3
  <2>2. dispatch' = [dispatch EXCEPT ![c] = r]
    BY <1>1, <1>4
  <2> QED BY <1>1, <1>3, <2>1, <2>2, OneAnswer
<1>5. CASE ~ final
  BY <1>1, <1>5, ChargedStep
<1> QED BY <1>4, <1>5

LEMMA DieStep ==
    ASSUME SpendInv, NEW c \in Requests, NEW x \in 0 .. Bound, S!Die(c, x)
    PROVE  SpendInv'
<1>1. dispatch' = [dispatch EXCEPT ![c] = S!Off] /\ S!OnlyCall
  BY DEF S!Die, S!Leaves
<1>2. CASE dispatch[c].pc = "sent"
  <2>1. S!Charges(c, x)
    BY <1>2 DEF S!Die
  <2> QED BY <1>1, <1>2, <2>1, ChargedStep
<1>3. CASE dispatch[c].pc # "sent"
  <2>1. UNCHANGED <<period, org, own, used, spend, ledger, billed, claimed, warned, retired>>
    BY <1>1, <1>3 DEF S!Die, S!OnlyCall, S!Counters
  <2>2. MetersOK'
    BY <2>1, SpendFrames DEF SpendInv
  <2>3. CallsOK' /\ Covered'
    BY <1>1, <2>1, <2>2, QuietMove DEF SpendInv
  <2> QED BY <2>1, <2>2, <2>3, SpendFrames DEF SpendInv
<1> QED BY <1>2, <1>3

\* A call whose answer is settled holds nothing any more.
LEMMA AfterSettled ==
    ASSUME NEW q, CallOK(q), q.pc \in {"answered", "closing"}
    PROVE  S!After(q) = S!Off \/ (CallOK(S!After(q)) /\ ~ S!After(q).held)
<1> DEFINE r == [q EXCEPT !.pc = "settled", !.held = FALSE]
<1>1. q \in Dispatched
  BY DEF CallOK
<1>2. /\ r \in Dispatched /\ r.pc = "settled" /\ ~ r.held /\ r.cost = q.cost /\ r.kind = q.kind
      /\ r.src = q.src
  BY <1>1 DEF Dispatched
<1>3. S!After(q) = S!Off \/ S!After(q) = r
  BY DEF S!After
<1> HIDE DEF r
<1>4. CallOK(r)
  BY <1>2 DEF CallOK
<1> QED BY <1>2, <1>3, <1>4

LEMMA SettleStep ==
    ASSUME SpendInv, NEW c \in Requests, NEW commits \in BOOLEAN, S!Settle(c, commits)
    PROVE  SpendInv'
<1> DEFINE q == dispatch[c]
           d == q.cost - S!Projected(q.kind)
           r == S!After(q)
<1>1. q \in Dispatched /\ CallOK(q) /\ q.pc \in {"answered", "closing"}
  BY UnderWay DEF S!Settle
<1>2. r = S!Off \/ (CallOK(r) /\ ~ r.held)
  BY <1>1, AfterSettled
<1>3. /\ UNCHANGED <<period, org, own, ledger, claimed, billed, warned, retired>>
      /\ dispatch' = [dispatch EXCEPT ![c] = r]
  BY DEF S!Settle
<1>4. CASE UNCHANGED <<used, spend>>
  <2> HIDE DEF r, q
  <2>1. MetersOK'
    BY <1>3, <1>4, SpendFrames DEF SpendInv
  <2>2. CallsOK' /\ Covered'
    BY <1>2, <1>3, <1>4, <2>1, QuietMove DEF SpendInv
  <2> QED BY <1>3, <1>4, <2>1, <2>2, SpendFrames DEF SpendInv
<1>5. CASE /\ q.settles /\ q.held
           /\ used' = [used EXCEPT ![q.p][q.o] = @ + d]
           /\ spend' = [spend EXCEPT ![q.p] = @ + d]
  <2>1. /\ q.p \in S!Periods /\ q.o \in Orgs /\ d \in Int /\ d <= 0 /\ q.cost \in Nat
        /\ S!Projected(q.kind) \in Nat
    BY <1>1, ProjectedIs DEF Dispatched, CallOK
  <2>2. MetersOK'
    <3> HIDE DEF d, q, r
    <3> QED BY <1>3, <1>5, <2>1 DEF SpendInv, MetersOK
  <2>3. SpendIsUsed'
    <3>1. MetersOK /\ SpendIsUsed
      BY DEF SpendInv
    <3> HIDE DEF d, q, r
    <3> QED BY <1>5, <2>1, <3>1, MeterMoves
  <2>4. S!CeilingHeld'
    <3> HIDE DEF d, q, r
    <3>1. /\ used \in [S!Periods -> [Orgs -> Int]] /\ spend \in [S!Periods -> Int]
          /\ OrgLimit \in Nat /\ Ceiling \in Nat
      BY SpendSizes DEF SpendInv, MetersOK
    <3> QED BY <1>5, <2>1, <3>1 DEF SpendInv, S!CeilingHeld
  <2>5. ASSUME NEW p \in S!Periods, NEW o \in Orgs
        PROVE  /\ Share(r, p, o) - Share(q, p, o) <= used'[p][o] - used[p][o]
               /\ billed'[p][o] - billed[p][o] + Left(r, p, o) - Left(q, p, o)
                     <= used'[p][o] - used[p][o]
    <3>1. Share(r, p, o) = 0 /\ Left(r, p, o) = 0
      <4> HIDE DEF r
      <4> QED BY <1>2, NotHeld DEF CallOK
    <3>2. /\ Share(q, p, o) = IF p = q.p /\ o = q.o THEN S!Projected(q.kind) ELSE 0
          /\ Left(q, p, o) = IF p = q.p /\ o = q.o THEN S!Projected(q.kind) - q.cost ELSE 0
      BY <1>1, <1>5 DEF Share, Left, Known, Holding
    <3>3. used[p][o] \in Int /\ billed[p][o] \in Nat /\ billed'[p][o] = billed[p][o]
      BY <1>3 DEF SpendInv, MetersOK
    <3>4. used'[p][o] = used[p][o] + (IF p = q.p /\ o = q.o THEN d ELSE 0)
      <4> HIDE DEF d, q, r
      <4> QED BY <1>5, <2>1, <3>3 DEF SpendInv, MetersOK
    <3>5. d = q.cost - S!Projected(q.kind)
      OBVIOUS
    <3> HIDE DEF d, q, r
    <3> QED BY <2>1, <3>1, <3>2, <3>3, <3>4, <3>5
  <2>6. Requested(r)
    BY <1>2 DEF Requested
  <2> HIDE DEF r
  <2>7. Within(dispatch[c], r)
    BY <2>5 DEF Within
  <2>8. CallsOK' /\ Covered'
    BY <1>3, <2>2, <2>6, <2>7, SpendingMoves DEF SpendInv
  <2> QED BY <1>3, <2>2, <2>3, <2>4, <2>8, SpendFrames DEF SpendInv
<1>6. \/ UNCHANGED <<used, spend>>
      \/ /\ q.settles /\ q.held
         /\ used' = [used EXCEPT ![q.p][q.o] = @ + d]
         /\ spend' = [spend EXCEPT ![q.p] = @ + d]
  BY DEF S!Settle, S!StillHeld, S!MonthOf
<1> QED BY <1>4, <1>5, <1>6

LEMMA WriteLedgerStep ==
    ASSUME SpendInv, NEW c \in Requests, S!WriteLedger(c)
    PROVE  SpendInv'
<1> DEFINE q == dispatch[c]
           s == [q EXCEPT !.pc = "closing"]
           r == IF q.kind = "stream" /\ q.settles THEN s ELSE S!Off
<1>1. q \in Dispatched /\ CallOK(q) /\ q.pc = "settled"
  BY UnderWay DEF S!WriteLedger
<1>2. /\ UNCHANGED <<period, org, own, used, spend, billed, retired>>
      /\ dispatch' = [dispatch EXCEPT ![c] = r]
      /\ \E due : S!Warn(q.o, due)
      /\ ledger' = IF q.src = "own" THEN [ledger EXCEPT ![period][q.o] = @ + q.cost] ELSE ledger
  BY DEF S!WriteLedger
<1>3. ~ q.held /\ q.cost \in Nat /\ q.o \in Orgs
  BY <1>1 DEF CallOK, Dispatched
<1>4. /\ s \in Dispatched /\ s.pc = "closing" /\ s.cost = q.cost /\ s.kind = q.kind /\ s.src = q.src
      /\ s.held = q.held
  BY <1>1 DEF Dispatched
<1> HIDE DEF s
<1>5. CallOK(s) /\ ~ s.held
  BY <1>1, <1>3, <1>4 DEF CallOK
<1>6. r = S!Off \/ (CallOK(r) /\ ~ r.held)
  BY <1>5
<1> HIDE DEF r, q
<1>7. MetersOK'
  BY <1>2, <1>3 DEF SpendInv, MetersOK
<1>8. CallsOK' /\ Covered'
  BY <1>2, <1>6, <1>7, QuietMove DEF SpendInv
<1>9. Warned'
  BY <1>2, <1>3, WarnOnce DEF SpendInv, MetersOK
<1> QED BY <1>2, <1>7, <1>8, <1>9, SpendFrames DEF SpendInv

LEMMA NextMonthStep ==
    ASSUME SpendInv, S!NextMonth
    PROVE  SpendInv'
<1>1. /\ UNCHANGED <<org, own, used, spend, ledger, billed, claimed, warned, retired, dispatch>>
      /\ period < MaxPeriod /\ period' = period + 1
  BY DEF S!NextMonth, S!Counters
<1>2. MetersOK'
  BY <1>1, SpendSizes DEF SpendInv, MetersOK, S!Periods
<1> QED BY <1>1, <1>2, SpendFrames, SameCalls DEF SpendInv

-----------------------------------------------------------------------------

LEMMA CallSteps ==
    ASSUME SpendInv, S!CallNext
    PROVE  SpendInv'
  BY PrepareStep, ReserveStep, RefusedStep, WriteLedgerStep, SettleStep, AnswerSteps, StreamLeftStep,
     StructuredStep, EmbedStep, LostStep, DieStep, NextMonthStep, Zenon DEF S!CallNext

SpendingInvariant == focus \in SpendFoci => SpendInv

LEMMA SpendingSteps ==
    ASSUME SpendingInvariant, [Next]_serviceVars
    PROVE  SpendingInvariant'
<1>1. CASE SpendStep
  <2>1. focus' = focus /\ (S!OrgNext \/ S!KeyNext \/ S!CallNext)
    BY <1>1 DEF SpendStep, S!Next
  <2> QED BY <2>1, OrgSteps, KeySteps, CallSteps DEF SpendingInvariant
<1>2. CASE UNCHANGED <<focus, spendVars>>
  <2>1. UNCHANGED <<focus, period, org, own, used, spend, ledger, claimed, dispatch, billed, warned, retired>>
    BY <1>2 DEF spendVars
  <2> QED BY <2>1, SpendFrames, SameCalls DEF SpendingInvariant, SpendInv
<1>3. SpendStep \/ UNCHANGED <<focus, spendVars>>
  BY DEF Next, SubStep, AgentStep, BroadcastStep, TurnStep, serviceVars
<1> QED BY <1>1, <1>2, <1>3

LEMMA SpendingInit ==
    ASSUME Init
    PROVE  SpendingInvariant
<1> SUFFICES ASSUME focus \in SpendFoci
             PROVE  SpendInv
  BY DEF SpendingInvariant
<1>1. S!Init
  BY DEF Init
<1>2. /\ period = 1 /\ used = S!Zero /\ ledger = S!Zero /\ billed = S!Zero /\ warned = S!Zero
      /\ own = [o \in Orgs |-> [key |-> 1, models |-> 1, next |-> 2]]
      /\ spend = [p \in S!Periods |-> 0] /\ claimed = [o \in Orgs |-> {}]
      /\ dispatch = [c \in Requests |-> S!Off] /\ retired = [o \in Orgs |-> {}]
  BY <1>1 DEF S!Init, S!AIInit
<1>3. OrgsOK
  <2>1. CASE org = [o \in Orgs |-> [consent |-> FALSE, creds |-> {}, route |-> [f \in S!Features |-> "none"]]]
    BY <2>1 DEF OrgsOK, OrgRow, S!Routing
  <2>2. CASE org \in [Orgs -> {S!Set(o, cred) : o \in Orgs, cred \in {"own", "platform"}}]
    <3>1. ASSUME NEW o \in Orgs, NEW cred \in {"own", "platform"}
          PROVE  S!Set(o, cred) \in OrgRow
      BY DEF S!Set, OrgRow, S!Routing
    <3>2. ASSUME NEW o \in Orgs, NEW cred \in {"own", "platform"}, NEW f \in S!Features
          PROVE  S!Set(o, cred).route[f] \in S!Set(o, cred).creds \cup {"none"}
      BY DEF S!Set
    <3> QED BY <2>2, <3>1, <3>2 DEF OrgsOK
  <2> QED BY <1>1, <2>1, <2>2 DEF S!Init, S!AIInit
<1>4. KeysOK
  <2>1. MaxKeys \in Nat \ {0}
    BY SpendSizes
  <2> QED BY <1>2, <2>1 DEF KeysOK, S!KeyRow
<1>5. MetersOK
  BY <1>2, SpendSizes DEF MetersOK, S!Zero, S!Periods
<1>6. CallsOK
  BY <1>2 DEF CallsOK, Requested
<1>7. Warned
  BY <1>2 DEF Warned, S!Zero
<1>8. Covered
  <2> SUFFICES ASSUME NEW p \in S!Periods, NEW o \in Orgs
               PROVE  Shares(p, o) <= used[p][o] /\ billed[p][o] + Lefts(p, o) <= used[p][o]
    BY DEF Covered
  <2> DEFINE f == [c \in Requests |-> Share(dispatch[c], p, o)]
             h == [c \in Requests |-> Left(dispatch[c], p, o)]
  <2>1. \A c \in Requests : f[c] = 0 /\ h[c] = 0
    BY <1>2, NotHeld
  <2>2. Shares(p, o) = Sum(f, Requests) /\ Lefts(p, o) = Sum(h, Requests)
    BY DEF Shares, Lefts
  <2> HIDE DEF f, h
  <2>3. Shares(p, o) = 0 /\ Lefts(p, o) = 0
    BY <2>1, <2>2, SpendSizes, SumZero
  <2>4. used[p][o] = 0 /\ billed[p][o] = 0
    BY <1>2 DEF S!Zero
  <2> QED BY <2>3, <2>4
<1>9. SpendIsUsed
  <2> SUFFICES ASSUME NEW p \in S!Periods
               PROVE  spend[p] = Sum(used[p], Orgs)
    BY DEF SpendIsUsed
  <2> DEFINE f == used[p]
  <2>1. \A o \in Orgs : f[o] = 0
    BY <1>2 DEF S!Zero
  <2> HIDE DEF f
  <2>2. Sum(f, Orgs) = 0
    BY <2>1, SpendSizes, SumZero
  <2> QED BY <1>2, <2>2 DEF f
<1>10. S!CeilingHeld
  BY <1>2, SpendSizes DEF S!CeilingHeld, S!Zero
<1> QED BY <1>3, <1>4, <1>5, <1>6, <1>7, <1>8, <1>9, <1>10 DEF SpendInv

\* What the sums say of each organisation and each call.
LEMMA SpendingHolds ==
    ASSUME SpendInv
    PROVE  S!AITypeOK /\ S!SpendCovered /\ S!CeilingHeld /\ S!WarnedOnce /\ S!KeysStayRetired
<1>1. ASSUME NEW p \in S!Periods, NEW o \in Orgs
      PROVE  /\ billed[p][o] <= used[p][o]
             /\ \A c \in Requests : Share(dispatch[c], p, o) <= used[p][o]
  <2> DEFINE f == [c \in Requests |-> Share(dispatch[c], p, o)]
             h == [c \in Requests |-> Left(dispatch[c], p, o)]
  <2>1. \A c \in Requests : f[c] \in Nat /\ h[c] \in Nat
    BY PartsNat DEF SpendInv, CallsOK
  <2>2. Shares(p, o) = Sum(f, Requests) /\ Lefts(p, o) = Sum(h, Requests)
        /\ \A c \in Requests : f[c] = Share(dispatch[c], p, o)
    BY DEF Shares, Lefts
  <2> HIDE DEF f, h
  <2>3. Shares(p, o) \in Nat /\ Lefts(p, o) \in Nat /\ \A c \in Requests : f[c] <= Shares(p, o)
    BY <2>1, <2>2, SpendSizes, SumNatural
  <2>4. used[p][o] \in Int /\ billed[p][o] \in Nat
        /\ Shares(p, o) <= used[p][o] /\ billed[p][o] + Lefts(p, o) <= used[p][o]
    BY DEF SpendInv, Covered, MetersOK
  <2> QED BY <2>1, <2>2, <2>3, <2>4
<1>2. S!SpendCovered
  <2>1. ASSUME NEW p \in S!Periods
        PROVE  S!Total(billed[p]) <= spend[p]
    <3> DEFINE f == billed[p]
               g == used[p]
    <3>1. \A o \in Orgs : f[o] \in Int /\ g[o] \in Int /\ f[o] <= g[o]
      BY <1>1 DEF SpendInv, MetersOK
    <3>2. spend[p] = Sum(g, Orgs) /\ S!Total(billed[p]) = Sum(f, Orgs)
      BY MeterTotal DEF SpendInv, SpendIsUsed
    <3> HIDE DEF f, g
    <3>3. Sum(f, Orgs) <= Sum(g, Orgs)
      BY <3>1, SpendSizes, SumMonotone
    <3> QED BY <3>2, <3>3
  <2> QED BY <1>1, <2>1 DEF S!SpendCovered
<1>3. S!AITypeOK
  <2>1. ledger \in S!UsageLedger
    BY DEF S!UsageLedger, SpendInv, MetersOK
  <2>2. \A o \in Orgs : org[o].route \in S!Routing /\ own[o] \in S!KeyRow
    BY DEF SpendInv, OrgsOK, KeysOK, OrgRow
  <2>3. \A o \in Orgs, f \in S!Features : org[o].route[f] \in org[o].creds \cup {"none"}
    BY DEF SpendInv, OrgsOK
  <2>4. ASSUME NEW c \in Requests, dispatch[c].pc \in {"sent", "answered"}, dispatch[c].held
        PROVE  S!Projected(dispatch[c].kind) <= used[dispatch[c].p][dispatch[c].o]
    <3>1. dispatch[c].p \in S!Periods /\ dispatch[c].o \in Orgs
      BY <2>4, UnderWay DEF Dispatched
    <3>2. Share(dispatch[c], dispatch[c].p, dispatch[c].o) = S!Projected(dispatch[c].kind)
      BY <2>4 DEF Share, Holding
    <3> QED BY <1>1, <3>1, <3>2
  <2> QED BY <2>1, <2>2, <2>3, <2>4 DEF S!AITypeOK
<1>4. S!WarnedOnce
  BY DEF S!WarnedOnce, SpendInv, Warned
<1>5. S!KeysStayRetired
  BY DEF S!KeysStayRetired, SpendInv, KeysOK
<1> QED BY <1>2, <1>3, <1>4, <1>5 DEF SpendInv

\* Whatever calls are lost, retried or die, and however many run at a time, what
\* the provider bills was reserved in its month, no month passes the plan's limit
\* or the platform's ceiling, one warning is sent a month and a key that was
\* replaced stays replaced.
THEOREM SpendingCorrect == Spec => []SpendingSafe
<1>1. Init => SpendingInvariant
  BY SpendingInit
<1>2. SpendingInvariant /\ [Next]_serviceVars => SpendingInvariant'
  BY SpendingSteps
<1>3. SpendingInvariant => SpendingSafe
  BY SpendingHolds DEF SpendingInvariant, SpendingSafe
<1> QED BY <1>1, <1>2, <1>3, PTL DEF Spec
=============================================================================
