------------------------------- MODULE Grants -------------------------------
(***************************************************************************)
(* Tokens a person gives to programs: API tokens, agent tokens, and the    *)
(* grants of OAuth clients.  All are rows of api_tokens, owned here by one *)
(* person.  An OAuth grant starts as a code, is exchanged once, and then   *)
(* lives by refresh tokens that are replaced at every use.  Requests       *)
(* overlap; an answer that was committed may never arrive.                 *)
(***************************************************************************)
EXTENDS Integers, FiniteSets

CONSTANTS
    Rows,        \* identifiers of api_tokens
    Clients,     \* OAuth clients, by metadata key
    Calls,       \* requests
    MaxLive,     \* MAX_LIVE_AGENT_TOKENS
    MaxSerial    \* bound: refresh tokens of one grant

\* What the module asks of its constants: the owner may have a token, and a code
\* may be exchanged.
GrantAssumption ==
    /\ {MaxLive, MaxSerial} \subseteq Nat \ {0}
    /\ IsFiniteSet(Rows)
    /\ Clients # {}

VARIABLES
    token,       \* row -> token, or NoRow
    clients,     \* registered clients
    clock,       \* the current second
    cutoff,      \* token_cutoff of the owner
    call,        \* request -> what it does
    pending,     \* row -> when its pending actions were stored
    honoured     \* row -> refresh tokens that were answered, with repeats

grantVars == <<token, clients, clock, cutoff, call, pending, honoured>>

NoRow == [kind |-> "none"]
Rest == [pc |-> "rest"]
NoClient == "no client"
AgentKinds == {"agent", "oauth"}
\* AGENT_SCOPE_RANK; OAUTH_SCOPES ends at agent:write.
Scopes == 1..3
OAuthScopes == 1..2

\* A row of api_tokens: the columns of its refresh tokens are serial numbers,
\* 0 before the first; stage counts the reminders that were sent.
TokenRow ==
    [kind : AgentKinds \cup {"api"}, client : Clients \cup {NoClient}, scope : Scopes,
     created : Nat, access : BOOLEAN, renews : BOOLEAN, refresh : 0..MaxSerial,
     prev : 0..MaxSerial, revoked : BOOLEAN, stage : 0..3, began : Nat]

Is(r, kinds) == token[r].kind \in kinds
Placeholder(r) == Is(r, {"oauth"}) /\ token[r].refresh = 0
\* live_clause
Live(r) == Is(r, {"api", "agent", "oauth"}) /\ ~ token[r].revoked /\ (token[r].access \/ token[r].renews)
Counted(r) == Is(r, AgentKinds) /\ Live(r) /\ token[r].created > cutoff

\* The requests that hold the row's lock.
Holders(r) == {d \in Calls : call[d].pc \in {"rotates", "ends"} /\ call[d].r = r}
Free(r, c) == Holders(r) \subseteq {c}
FreeForAll(r) == Holders(r) = {}
Enters(c, q) == call[c] = Rest /\ call' = [call EXCEPT ![c] = q]
Leaves(c) == call' = [call EXCEPT ![c] = Rest]
Turns(c, pc) == call' = [call EXCEPT ![c].pc = pc]

Revoked(tokens) == [r \in Rows |-> IF r \in tokens THEN [token[r] EXCEPT !.revoked = TRUE] ELSE token[r]]
\* cancel_staged_actions
Cancelled(tokens) == [r \in Rows |-> IF r \in tokens THEN {} ELSE pending[r]]

-----------------------------------------------------------------------------
(* Clients and consent. *)

\* register and upsert_cimd_client: one row per metadata key.
Register(k) ==
    /\ k \notin clients
    /\ clients' = clients \cup {k}
    /\ UNCHANGED <<token, clock, cutoff, call, pending, honoured>>

\* The request waits out the second of the last cutoff.
Begins(c, kind, k, s) ==
    /\ clock > cutoff
    /\ Enters(c, [pc |-> "grants", kind |-> kind, client |-> k, scope |-> s,
                  seen |-> cutoff, began |-> clock])
    /\ UNCHANGED <<token, clients, clock, cutoff, pending, honoured>>

\* validate_consent, and the scope the person grants.
AskConsent(c, k, s) ==
    /\ k \in clients
    /\ s \in OAuthScopes
    /\ Begins(c, "oauth", k, s)

AskMint(c, kind, s) == Begins(c, kind, NoClient, s)

\* Mutant: the cap alone decides.
SeenOrMoved(q) == TRUE
\* No logout moved the cutoff since the request began.
SeenUnmoved(q) == q.seen = cutoff

\* Mutant: codes that were not exchanged do not count.
UnderCapOfExchanged == Cardinality({r \in Rows : Counted(r) /\ ~ Placeholder(r)}) < MaxLive
UnderCap == Cardinality({r \in Rows : Counted(r)}) < MaxLive

\* _lock_owner_under_cap: an agent token, not an API token, is held to it.
MayGrant(q) ==
    q.kind \in AgentKinds =>
        /\ \A r \in Rows : FreeForAll(r)
        /\ SeenUnmoved(q)
        /\ UnderCap

Grant(c, r) ==
    LET q == call[c]
    IN  /\ q.pc = "grants"
        /\ token[r] = NoRow
        /\ MayGrant(q)
        /\ q.kind = "oauth" => q.client \in clients
        /\ token' = [token EXCEPT ![r] =
               [kind |-> q.kind, client |-> q.client, scope |-> q.scope, created |-> clock,
                access |-> TRUE, renews |-> FALSE, refresh |-> 0, prev |-> 0,
                revoked |-> FALSE, stage |-> 0, began |-> q.began]]
        /\ Leaves(c)
        /\ UNCHANGED <<clients, clock, cutoff, pending, honoured>>

\* Refused: the cap, the cutoff, a step-up that failed, a client that is gone.
RefuseGrant(c) ==
    /\ call[c].pc = "grants"
    /\ Leaves(c)
    /\ UNCHANGED <<token, clients, clock, cutoff, pending, honoured>>

-----------------------------------------------------------------------------
(* The token endpoint.  Serial 0 stands for the code. *)

\* _owner_ok
OwnerOk(r) == token[r].created > cutoff

\* _exchange reads the row without a lock.
AskExchange(c, r) ==
    /\ Is(r, {"oauth"})
    /\ \/ /\ token[r].refresh # 0
          /\ Enters(c, [pc |-> "reused", r |-> r])
       \/ /\ Placeholder(r)
          /\ OwnerOk(r)
          /\ Enters(c, [pc |-> "exchanges", r |-> r])
    /\ UNCHANGED <<token, clients, clock, cutoff, pending, honoured>>

\* Mutant: the update trusts what the request read.
AsRead(r) == TRUE
StillUnexchanged(r) == Placeholder(r) /\ ~ token[r].revoked /\ token[r].access

Issued(r, n, s) ==
    [token EXCEPT ![r].refresh = n + 1, ![r].prev = n, ![r].scope = s,
                  ![r].access = TRUE, ![r].renews = TRUE]
Honours(r, n) == honoured' = [honoured EXCEPT ![r][n] = @ + 1]

Exchange(c) ==
    LET r == call[c].r
    IN  /\ call[c].pc = "exchanges"
        /\ Is(r, {"oauth"})
        /\ Free(r, c)
        /\ StillUnexchanged(r)
        /\ token' = Issued(r, 0, token[r].scope)
        /\ Honours(r, 0)
        /\ Leaves(c)
        /\ UNCHANGED <<clients, clock, cutoff, pending>>

\* The row moved since it was read: refused, and nothing is revoked.
LoseExchange(c) ==
    /\ call[c].pc = "exchanges"
    /\ ~ StillUnexchanged(call[c].r)
    /\ Leaves(c)
    /\ UNCHANGED <<token, clients, clock, cutoff, pending, honoured>>

\* Mutant: the current refresh token and the one before both renew.
EitherSerial(r, n) == n \in {token[r].refresh, token[r].prev}
Current(r, n) == n = token[r].refresh

\* _refresh finds the row by either hash, then locks and reads it again.
AskRefresh(c, r, n) ==
    /\ Is(r, {"oauth"})
    /\ n # 0
    /\ FreeForAll(r)
    /\ \/ /\ Current(r, n)
          /\ n < MaxSerial
          /\ ~ token[r].revoked
          /\ token[r].renews
          /\ OwnerOk(r)
          /\ Enters(c, [pc |-> "rotates", r |-> r, n |-> n])
       \/ /\ ~ Current(r, n)
          /\ n = token[r].prev
          /\ Enters(c, [pc |-> "ends", r |-> r])
    /\ UNCHANGED <<token, clients, clock, cutoff, pending, honoured>>

\* Mutant: any scope that is asked for is granted.
ScopeAsAsked(current, asked) == asked
\* A refresh may only narrow the scope.
Narrowed(current, asked) == IF asked < current THEN asked ELSE current

Refresh(c, asked) ==
    LET q == call[c]
    IN  /\ q.pc = "rotates"
        /\ token' = Issued(q.r, q.n, Narrowed(token[q.r].scope, asked))
        /\ Honours(q.r, q.n)
        /\ Leaves(c)
        /\ UNCHANGED <<clients, clock, cutoff, pending>>

\* The request fails before it commits, and its lock is released.
FailRefresh(c) ==
    /\ call[c].pc \in {"rotates", "ends", "exchanges", "reused"}
    /\ Leaves(c)
    /\ UNCHANGED <<token, clients, clock, cutoff, pending, honoured>>

\* _revoke: a code or a refresh token came back after its use.
EndGrant(c) ==
    LET r == call[c].r
    IN  /\ call[c].pc \in {"reused", "ends"}
        /\ Free(r, c)
        /\ token' = Revoked({r})
        /\ pending' = Cancelled({r})
        /\ Leaves(c)
        /\ UNCHANGED <<clients, clock, cutoff, honoured>>

-----------------------------------------------------------------------------
(* What the owner, an administrator and the jobs do. *)

\* revoke: by the owner or by an administrator of the organisation.
RevokeOne(r) ==
    /\ token[r] # NoRow
    /\ ~ token[r].revoked
    /\ FreeForAll(r)
    /\ token' = Revoked({r})
    /\ pending' = Cancelled({r})
    /\ UNCHANGED <<clients, clock, cutoff, call, honoured>>

Unrevoked(kinds) == {r \in Rows : Is(r, kinds) /\ ~ token[r].revoked}
\* Mutant: the actions are looked up after the rows are revoked.
NoneLeft(kinds) == {}
Staging(kinds) == Unrevoked(kinds)

\* revoke_all ("api" and agent tokens) and revoke_all_agent.
RevokeAll(kinds) ==
    /\ Unrevoked(kinds) # {}
    /\ \A r \in Unrevoked(kinds) : FreeForAll(r)
    /\ pending' = Cancelled(Staging(kinds))
    /\ token' = Revoked(Unrevoked(kinds))
    /\ UNCHANGED <<clients, clock, cutoff, call, honoured>>

\* downgrade_agent_token reads the scope, and writes the new one later.
AskDowngrade(c, r, s) ==
    /\ Is(r, AgentKinds)
    /\ Live(r)
    /\ s < token[r].scope
    /\ Enters(c, [pc |-> "lowers", r |-> r, scope |-> s])
    /\ UNCHANGED <<token, clients, clock, cutoff, pending, honoured>>

Downgrade(c) ==
    LET q == call[c]
    IN  /\ q.pc = "lowers"
        /\ Free(q.r, c)
        /\ token' = IF token[q.r] = NoRow THEN token ELSE [token EXCEPT ![q.r].scope = q.scope]
        /\ Leaves(c)
        /\ UNCHANGED <<clients, clock, cutoff, pending, honoured>>

\* authenticate_agent_token
Accepted(r) ==
    /\ Is(r, AgentKinds) /\ ~ token[r].revoked /\ token[r].access
    /\ Is(r, {"oauth"}) => ~ Placeholder(r)
    /\ token[r].created > cutoff

\* The request of an agent is authenticated, and its action stored later.
AskStage(c, r) ==
    /\ Accepted(r)
    /\ token[r].scope > 1
    /\ Enters(c, [pc |-> "stages", r |-> r])
    /\ UNCHANGED <<token, clients, clock, cutoff, pending, honoured>>

Stage(c) ==
    LET r == call[c].r
    IN  /\ call[c].pc = "stages"
        /\ Free(r, c)
        /\ pending' = [pending EXCEPT ![r] = @ \cup {IF token[r].revoked THEN "late" ELSE "early"}]
        /\ Leaves(c)
        /\ UNCHANGED <<token, clients, clock, cutoff, honoured>>

\* A logout everywhere or a changed password moves the cutoff.
MoveCutoff ==
    /\ cutoff < clock
    /\ cutoff' = clock
    /\ UNCHANGED <<token, clients, clock, call, pending, honoured>>

Tick ==
    /\ clock' = clock + 1
    /\ UNCHANGED <<token, clients, cutoff, call, pending, honoured>>

AccessExpires(r) ==
    /\ token[r] # NoRow
    /\ token[r].access
    /\ token' = [token EXCEPT ![r].access = FALSE]
    /\ UNCHANGED <<clients, clock, cutoff, call, pending, honoured>>

RefreshExpires(r) ==
    /\ token[r] # NoRow
    /\ token[r].renews
    /\ token' = [token EXCEPT ![r].renews = FALSE, ![r].access = FALSE]
    /\ UNCHANGED <<clients, clock, cutoff, call, pending, honoured>>

\* _process_token: two reminders while the token lives, one at its end.
Remind(r) ==
    /\ Is(r, {"api", "agent"})
    /\ ~ token[r].revoked
    /\ token[r].stage < 3
    /\ token[r].stage = 2 => ~ token[r].access
    /\ Is(r, AgentKinds) => token[r].created > cutoff
    /\ FreeForAll(r)
    /\ token' = [token EXCEPT ![r].stage = @ + 1]
    /\ UNCHANGED <<clients, clock, cutoff, call, pending, honoured>>

\* run_oauth_client_purge: expired codes, then clients that nothing points at.
Stale == {r \in Rows : Placeholder(r) /\ ~ token[r].access}
Purge(idle) ==
    LET left == [r \in Rows |-> IF r \in Stale THEN NoRow ELSE token[r]]
        gone == {k \in idle \cap clients : \A r \in Rows : left[r] = NoRow \/ left[r].client # k}
    IN  /\ \A r \in Stale : FreeForAll(r)
        /\ Stale # {} \/ gone # {}
        /\ token' = left
        /\ clients' = clients \ gone
        /\ UNCHANGED <<clock, cutoff, call, pending, honoured>>

-----------------------------------------------------------------------------
GrantInit ==
    /\ token = [r \in Rows |-> NoRow]
    /\ clients = {}
    /\ clock = 1
    /\ cutoff = 0
    /\ call = [c \in Calls |-> Rest]
    /\ pending = [r \in Rows |-> {}]
    /\ honoured = [r \in Rows |-> [n \in 0..MaxSerial |-> 0]]

ConsentNext ==
    \/ \E k \in Clients : Register(k)
    \/ \E c \in Calls, k \in Clients, s \in OAuthScopes : AskConsent(c, k, s)
    \/ \E c \in Calls, kind \in {"api", "agent"}, s \in Scopes : AskMint(c, kind, s)
    \/ \E c \in Calls, r \in Rows : Grant(c, r)
    \/ \E c \in Calls : RefuseGrant(c)
    \/ MoveCutoff
    \/ Tick

EndpointNext ==
    \/ \E c \in Calls, r \in Rows : AskExchange(c, r)
    \/ \E c \in Calls : Exchange(c)
    \/ \E c \in Calls : LoseExchange(c)
    \/ \E c \in Calls, r \in Rows, n \in 1..MaxSerial : AskRefresh(c, r, n)
    \/ \E c \in Calls, s \in OAuthScopes : Refresh(c, s)
    \/ \E c \in Calls : FailRefresh(c)
    \/ \E c \in Calls : EndGrant(c)

AgentNext ==
    \/ \E c \in Calls, r \in Rows, s \in Scopes : AskDowngrade(c, r, s)
    \/ \E c \in Calls : Downgrade(c)
    \/ \E c \in Calls, r \in Rows : AskStage(c, r)
    \/ \E c \in Calls : Stage(c)
    \/ \E r \in Rows : Remind(r)

EndNext ==
    \/ \E r \in Rows : RevokeOne(r)
    \/ \E kinds \in {AgentKinds, {"api", "agent", "oauth"}} : RevokeAll(kinds)
    \/ \E r \in Rows : AccessExpires(r)
    \/ \E r \in Rows : RefreshExpires(r)
    \/ \E idle \in SUBSET Clients : Purge(idle)

GrantNext == ConsentNext \/ EndpointNext \/ AgentNext \/ EndNext

-----------------------------------------------------------------------------
\* Every token stands in one of the shapes the requests leave: a code has no
\* refresh token yet, and a grant's refresh token follows the one before it.
GrantTypeOK ==
    /\ clients \subseteq Clients
    /\ cutoff \in 0..clock
    /\ \A r \in Rows : token[r] # NoRow =>
        /\ token[r] \in TokenRow
        /\ token[r].refresh # 0 => token[r].prev = token[r].refresh - 1
        /\ token[r].refresh = 0 => ~ token[r].renews
        /\ token[r].client # NoClient => token[r].client \in clients

\* A code and a refresh token are answered with new tokens at most once, in
\* whatever order requests that present it twice run (_exchange, _refresh).
AnsweredOnce == \A r \in Rows : \A n \in 0..MaxSerial : honoured[r][n] <= 1

\* Requests that mint at once do not take the owner past the live-token cap.
CapHeld == Cardinality({r \in Rows : Counted(r)}) <= MaxLive

\* No agent token that a request began before the last logout everywhere, or
\* the last change of password, is accepted after it.
LogoutWins == \A r \in Rows : Accepted(r) => token[r].began > cutoff

\* Every path that revokes a token cancels the actions it had staged.
StagedFollowToken == \A r \in Rows : token[r] # NoRow /\ token[r].revoked => "early" \notin pending[r]

\* The scope of a client's grant never widens.
GrantNeverWidens ==
    \A r \in Rows : Is(r, {"oauth"}) /\ token'[r] # NoRow => token'[r].scope <= token[r].scope
=============================================================================
