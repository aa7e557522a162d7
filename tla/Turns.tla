---- MODULE Turns ----
\* The assistant's turns of one organisation (services/agent_chat.py) under
\* the lease that lets one of them run (state_db.py). A unit of time is at
\* least as long as an admission and at most as long as a provider call.
EXTENDS Integers, FiniteSets
CONSTANTS Turners,     \* requests to the chat endpoint, over all replicas
          LeaseTime,   \* LOCK_TTL_SECONDS
          TurnTime,    \* TURN_SECONDS
          CallTime,    \* ai_dispatch_timeout_s
          MaxRounds    \* MAX_ROUNDS
VARIABLES lease,   \* the lease row: its holder, and the time it has left
          turn     \* each request, with what is left of its turn and of its phase
turnVars == <<lease, turn>>
Free == [holder |-> 0, left |-> 0]
Idle == [pc |-> "idle", holder |-> 0, left |-> 0, phase |-> 0, rounds |-> 0]
Phases == {"idle", "admitting", "between", "calling", "reaping", "tools", "closing", "finally"}
TurnInit == lease = Free /\ turn = [t \in Turners |-> Idle]
TurnTypeOK ==
    /\ lease.left \in 0..LeaseTime
    /\ \A t \in Turners : /\ turn[t].pc \in Phases
                          /\ turn[t].rounds \in 0..MaxRounds
                          /\ turn[t].left \in 0..TurnTime
To(t, pc) == turn' = [turn EXCEPT ![t].pc = pc]

\* acquire_lease takes the row over when its time is up, or inserts it. A
\* holder's name is new: one that no row or request still carries.
Names == 1..(2 * Cardinality(Turners) + 1)
Takeable == lease.left = 0
AcquireLock(t) ==
    /\ turn[t].pc = "idle"
    /\ Takeable
    /\ LET h == CHOOSE n \in Names : n # lease.holder /\ \A u \in Turners : turn[u].holder # n
       IN  /\ lease' = [holder |-> h, left |-> LeaseTime]
           /\ turn' = [turn EXCEPT ![t] = [Idle EXCEPT !.pc = "admitting", !.holder = h, !.phase = 1]]
\* release_lease deletes the row of the holder it names, and no other.
ReleasedByName(h) == Free
Released(h) == IF lease.holder = h THEN Free ELSE lease
\* preflight: routing, the cap or the meter of turns refuses; or the turn's
\* clock starts.
Refused(t) ==
    /\ turn[t].pc = "admitting"
    /\ lease' = Released(turn[t].holder)
    /\ turn' = [turn EXCEPT ![t] = Idle]
Admitted(t) ==
    /\ turn[t].pc = "admitting"
    /\ turn' = [turn EXCEPT ![t].pc = "between", ![t].left = TurnTime]
    /\ UNCHANGED lease
\* A call is never cancelled: a round starts only if it can end in the turn.
StillInTurn(t) == turn[t].left > 0
InTime(t) == turn[t].left >= CallTime
StartRound(t) ==
    /\ turn[t].pc = "between"
    /\ turn[t].rounds < MaxRounds
    /\ InTime(t)
    /\ turn' = [turn EXCEPT ![t].pc = "calling", ![t].phase = CallTime, ![t].rounds = @ + 1]
    /\ UNCHANGED lease
\* Out of rounds, of time or of the input budget; or the dispatch refuses.
StopRounds(t) ==
    /\ turn[t].pc = "between"
    /\ To(t, "closing")
    /\ UNCHANGED lease
\* The answer asks for tools, or it ends the turn, as a failed call does.
Answer(t) ==
    /\ turn[t].pc = "calling"
    /\ \E pc \in {"tools", "closing"} : To(t, pc)
    /\ UNCHANGED lease
\* However long the tools take. A staged change ends the turn, and so does a
\* user found inactive before a tool.
Tools(t) ==
    /\ turn[t].pc = "tools"
    /\ \E pc \in {"between", "closing"} : To(t, pc)
    /\ UNCHANGED lease
\* The client went away; a call under way is waited for before the release.
AfterDisconnect(pc) == IF pc = "calling" THEN "reaping" ELSE "finally"
Disconnect(t) ==
    /\ turn[t].pc \in {"between", "calling", "tools", "closing"}
    /\ To(t, AfterDisconnect(turn[t].pc))
    /\ UNCHANGED lease
Reap(t) ==
    /\ turn[t].pc = "reaping"
    /\ To(t, "finally")
    /\ UNCHANGED lease
\* The lease is released before "done" is sent, and again at the end.
Close(t) ==
    /\ turn[t].pc = "closing"
    /\ lease' = Released(turn[t].holder)
    /\ To(t, "finally")
Finally(t) ==
    /\ turn[t].pc = "finally"
    /\ lease' = Released(turn[t].holder)
    /\ turn' = [turn EXCEPT ![t] = Idle]
\* The process dies: nothing releases its lease.
Crash(t) ==
    /\ turn[t].pc # "idle"
    /\ turn' = [turn EXCEPT ![t] = Idle]
    /\ UNCHANGED lease
\* A unit of time passes: an admission and a call end within theirs.
Less(n) == IF n = 0 THEN 0 ELSE n - 1
Tick ==
    /\ \A t \in Turners : turn[t].pc \in {"admitting", "calling", "reaping"} => turn[t].phase > 0
    /\ lease' = [lease EXCEPT !.left = Less(@)]
    /\ turn' = [t \in Turners |-> [turn[t] EXCEPT !.left = Less(@), !.phase = Less(@)]]
TurnNext ==
    \/ \E t \in Turners :
         \/ AcquireLock(t) \/ Refused(t) \/ Admitted(t)
         \/ StartRound(t) \/ StopRounds(t) \/ Answer(t) \/ Tools(t)
         \/ Disconnect(t) \/ Reap(t) \/ Close(t) \/ Finally(t) \/ Crash(t)
    \/ Tick
TurnSpec == TurnInit /\ [][TurnNext]_turnVars
\* The lease outlives an admission and a whole turn.
TurnAssumption ==
    /\ IsFiniteSet(Turners)
    /\ TurnTime \in Nat /\ CallTime \in Nat \ {0} /\ MaxRounds \in Nat
    /\ LeaseTime \in Nat /\ LeaseTime >= TurnTime + 2

\* At most one of the organisation's turns has a provider call under way: the
\* spend bound counts on it. A lease may run out under a slow tool, a slow
\* client or a dead process, and is released twice by a turn that ends well.
OneCallAtATime ==
    \A t, u \in Turners :
       turn[t].pc \in {"calling", "reaping"} /\ turn[u].pc \in {"calling", "reaping"} => t = u
====
