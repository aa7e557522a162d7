------------------------------ MODULE Sessions ------------------------------
(***************************************************************************)
(* The refresh sessions of one user: session families in the database      *)
(* (state_db) and the requests that read and rotate them (/refresh,        *)
(* /verify, login, logout, credential changes).                            *)
(*                                                                         *)
(* A family is one sign-in.  Its head is the one token id (jti) that may   *)
(* be rotated; a rotated-out jti is accepted for Grace more ticks.  Every  *)
(* call into state_db is one database transaction and so one step; the     *)
(* handlers make several, and anything may happen in between.              *)
(*                                                                         *)
(* Families of different users share no row, so one user is modelled.      *)
(* Token ids are 128 random bits and never collide.  A request carries one *)
(* cookie.                                                                 *)
(***************************************************************************)
EXTENDS Integers, FiniteSets

CONSTANTS
    Clients,      \* browsers; the tabs of one share its cookie
    Sids,         \* ids of families, each used for one sign-in
    Requests,     \* /refresh and /verify requests
    Grace,        \* SESSION_GRACE_TTL_SECONDS
    TTL,          \* session duration: token, cookie and family expiry
    KeepMembers,  \* _KEEP_MEMBERS
    MaxFamilies,  \* _MAX_FAMILIES_PER_USER
    PurgeMargin,  \* _PURGE_MARGIN
    MaxJti,       \* bound: token ids ever minted
    MaxTime,      \* bound: the last tick of the clock
    None

VARIABLES
    now,       \* the clock
    cutoff,    \* tokens minted before it are refused
    revoking,  \* a credential change has committed and not yet revoked
    used,      \* sids issued so far
    family,    \* table auth_session_families
    member,    \* table auth_session_members
    minted,    \* token ids minted so far; also the latest
    parent,    \* history: the jti a jti was rotated from
    jar,       \* the refresh cookie of each browser
    pc,        \* where each request is
    kind,      \* "refresh" or "verify"
    owner,     \* the browser that sent it
    tok,       \* the token it carries
    found,     \* the head it read from a grace row
    reply,     \* the token its answer sets
    late       \* history: was its token already out of use when it began?

store    == <<used, family, member, minted, parent>>
request  == <<pc, kind, owner, tok, found, reply, late>>
vars     == <<now, cutoff, revoking, store, jar, request>>

Jtis  == 1 .. MaxJti
Times == 0 .. MaxTime

Family == [head : Jtis, rotations : Nat, expires : Nat]
Member == [sid : Sids, seq : Nat, created : Times]
Token  == [jti : Jtis, sid : Sids, iat : Times, start : Times]

ASSUME SessionsAssumption ==
    /\ Grace \in Nat \ {0}
    /\ TTL \in Nat \ {0}
    /\ KeepMembers \in Nat \ {0}
    /\ MaxFamilies \in Nat \ {0}
    /\ PurgeMargin \in Nat
    /\ MaxJti \in Nat
    /\ MaxTime \in Nat
    /\ None \notin Jtis \cup Clients \cup Family \cup Member \cup Token

Reading  == {"sent", "head", "grace", "family", "member", "rotate",
             "regrace", "refamily", "catchup", "catchmember", "reuse"}
Replying == {"reply", "expire"}
Finished == {"ok", "rejected", "denied", "expired", "dropped"}

-----------------------------------------------------------------------------
(* Reads of the store. *)

Exists(s) == family[s] # None
Live(s)   == Exists(s) /\ family[s].expires > now

IsMember(j, s) == member[j] # None /\ member[j].sid = s

IsHead(j, s) == IsMember(j, s) /\ Exists(s) /\ family[s].head = j

\* j was rotated out less than Grace ago: its successor is that young.
Graced(j, s) ==
    /\ IsMember(j, s) /\ Exists(s) /\ family[s].head # j
    /\ \E k \in Jtis : /\ IsMember(k, s)
                       /\ member[k].seq = member[j].seq + 1
                       /\ member[k].created > now - Grace

\* What a request that carries token t may still be answered for.
InUse(t) == Live(t.sid) /\ (IsHead(t.jti, t.sid) \/ Graced(t.jti, t.sid))

-----------------------------------------------------------------------------
(* Writes of the store. *)

WithoutMembers(D) ==
    [j \in Jtis |-> IF member[j] # None /\ member[j].sid \in D
                    THEN None ELSE member[j]]

WithoutFamilies(D) == [s \in Sids |-> IF s \in D THEN None ELSE family[s]]

\* Mutant: the members of a dropped family stay.
DropFamilyRows(D) ==
    /\ family' = WithoutFamilies(D)
    /\ UNCHANGED <<used, member, minted, parent>>

DropFamilies(D) ==
    /\ family' = WithoutFamilies(D)
    /\ member' = WithoutMembers(D)
    /\ UNCHANGED <<used, minted, parent>>

\* Mutant: the start of the session is not carried over.
NewTokenNoStart(j, s, start) == [jti |-> j, sid |-> s, iat |-> now, start |-> None]

NewToken(j, s, start) == [jti |-> j, sid |-> s, iat |-> now, start |-> start]

\* Families a concurrent request may have locked: skip_locked passes them over.
MayBeLocked == {tok[r].sid : r \in {q \in Requests : pc[q] \in {"rotate", "reuse"}}}

\* E: what a sign-in evicts when the families L are locked.
Evicts(E, L) ==
    LET U == {s \in Sids : Exists(s)} \ L
    IN  /\ E \subseteq U
        /\ Cardinality(U \ E) = IF Cardinality(U) < MaxFamilies
                                THEN Cardinality(U) ELSE MaxFamilies - 1
        /\ \A e \in E, k \in U \ E : family[e].expires <= family[k].expires

Purgeable(P) ==
    \A s \in P : Exists(s) /\ family[s].expires < now - PurgeMargin

\* A sign-in: insert the family, evict the oldest, purge expired ones, set the
\* cookie.
Login(c, s, E, L, P) ==
    LET j == minted + 1
    IN  /\ s \notin used
        /\ j \in Jtis
        /\ now >= cutoff
        /\ L \subseteq MayBeLocked
        /\ Evicts(E, L)
        /\ Purgeable(P)
        /\ used' = used \cup {s}
        /\ minted' = j
        /\ family' = [WithoutFamilies(E \cup P) EXCEPT ![s] =
                        [head |-> j, rotations |-> 0, expires |-> now + TTL]]
        /\ member' = [WithoutMembers(E \cup P) EXCEPT ![j] =
                        [sid |-> s, seq |-> 0, created |-> now]]
        /\ jar' = [jar EXCEPT ![c] = NewToken(j, s, now)]
        /\ UNCHANGED <<now, cutoff, revoking, parent, request>>

Expired(t) == now >= t.iat + TTL

\* Logout drops the family its cookie names if that is live, unless the store
\* fails, and clears the cookie.
Logout(c, D) ==
    /\ jar[c] # None
    /\ D \subseteq {s \in {jar[c].sid} : Live(s) /\ ~Expired(jar[c])}
    /\ DropFamilies(D)
    /\ jar' = [jar EXCEPT ![c] = None]
    /\ UNCHANGED <<now, cutoff, revoking, request>>

\* A password change commits the cutoff; the revoke follows in its own
\* transaction and drops nothing if the store fails.
ChangeCredentials ==
    /\ ~revoking
    /\ cutoff' = now + 1
    /\ revoking' = TRUE
    /\ UNCHANGED <<now, store, jar, request>>

RevokeUser(D) ==
    /\ revoking
    /\ D \in {{}, {s \in Sids : Exists(s)}}
    /\ DropFamilies(D)
    /\ revoking' = FALSE
    /\ UNCHANGED <<now, cutoff, jar, request>>

\* Switching two-factor sign-in on or off ends the user's other sessions.
RevokeOthers(c) ==
    /\ jar[c] # None
    /\ ~Expired(jar[c])
    /\ DropFamilies({s \in Sids : Exists(s)} \ {jar[c].sid})
    /\ UNCHANGED <<now, cutoff, revoking, jar, request>>

-----------------------------------------------------------------------------
(* A request. *)

Goto(r, p) == pc' = [pc EXCEPT ![r] = p]

\* Steps that only read.
ReadOnly(r) == UNCHANGED <<now, cutoff, revoking, store, jar, kind, owner, tok>>

Send(r, c, k) ==
    /\ pc[r] = "idle"
    /\ jar[c] # None
    /\ Goto(r, "sent")
    /\ kind' = [kind EXCEPT ![r] = k]
    /\ owner' = [owner EXCEPT ![r] = c]
    /\ tok' = [tok EXCEPT ![r] = jar[c]]
    /\ UNCHANGED <<now, cutoff, revoking, store, jar, found, reply, late>>

\* Decode the token, read the user, apply the cutoff.
Authenticate(r) ==
    /\ pc[r] = "sent"
    /\ Goto(r, IF Expired(tok[r]) \/ tok[r].iat < cutoff THEN "rejected" ELSE "head")
    /\ late' = [late EXCEPT ![r] = ~InUse(tok[r])]
    /\ ReadOnly(r) /\ UNCHANGED <<found, reply>>

\* session_validate.
ProbeHead(r) ==
    /\ pc[r] = "head"
    /\ Goto(r, IF IsHead(tok[r].jti, tok[r].sid) /\ Live(tok[r].sid)
               THEN "member" ELSE "grace")
    /\ ReadOnly(r) /\ UNCHANGED <<found, reply, late>>

\* Mutant: the window of the probe is one tick shorter.
GraceRowShort(r) ==
    /\ Live(tok[r].sid)
    /\ Graced(tok[r].jti, tok[r].sid)
    /\ \E k \in Jtis : /\ IsMember(k, tok[r].sid)
                       /\ member[k].seq = member[tok[r].jti].seq + 1
                       /\ member[k].created > now - (Grace - 1)

\* Mutant: the grace of a rotated-out jti does not end.
GraceRowAnyAge(r) ==
    /\ Live(tok[r].sid)
    /\ IsMember(tok[r].jti, tok[r].sid)
    /\ family[tok[r].sid].head # tok[r].jti

\* session_grace finds a row.
GraceRow(r) == Live(tok[r].sid) /\ Graced(tok[r].jti, tok[r].sid)

\* Neither head nor graced: /refresh looks for reuse, /verify refuses.
OnMiss(r) == IF kind[r] = "refresh" THEN "reuse" ELSE "rejected"

ProbeGrace(r) ==
    /\ pc[r] = "grace"
    /\ IF GraceRow(r)
       THEN /\ found' = [found EXCEPT ![r] = family[tok[r].sid].head]
            /\ Goto(r, "family")
       ELSE /\ Goto(r, OnMiss(r))
            /\ UNCHANGED found
    /\ ReadOnly(r) /\ UNCHANGED <<reply, late>>

TooOld(r) == now - tok[r].start > TTL

\* The session passed; its absolute lifetime decides.
OnPass(r, p) ==
    CASE TooOld(r)          -> IF kind[r] = "refresh" THEN "expire" ELSE "rejected"
      [] kind[r] = "verify" -> "ok"
      [] OTHER              -> p

\* session_family_exists, on the grace path.
ProbeFamily(r) ==
    /\ pc[r] = "family"
    /\ Goto(r, IF Live(tok[r].sid) THEN OnPass(r, "catchup") ELSE OnMiss(r))
    /\ ReadOnly(r) /\ UNCHANGED <<found, reply, late>>

\* session_family_member, on the primary path.
ProbeMember(r) ==
    /\ pc[r] = "member"
    /\ Goto(r, IF IsMember(tok[r].jti, tok[r].sid) /\ Live(tok[r].sid)
               THEN OnPass(r, "rotate") ELSE "rejected")
    /\ ReadOnly(r) /\ UNCHANGED <<found, reply, late>>

\* Mutant: the rotation trusts the head the validation saw.
MayRotateMember(r) == Live(tok[r].sid) /\ IsMember(tok[r].jti, tok[r].sid)

\* Under the lock of the family.
MayRotate(r) == Live(tok[r].sid) /\ IsHead(tok[r].jti, tok[r].sid)

RotateOk(r) ==
    LET s == tok[r].sid
        j == minted + 1
        n == family[s].rotations + 1
    IN  /\ pc[r] = "rotate"
        /\ MayRotate(r)
        /\ j \in Jtis
        /\ minted' = j
        /\ parent' = [parent EXCEPT ![j] = tok[r].jti]
        /\ family' = [family EXCEPT ![s] =
                        [head |-> j, rotations |-> n, expires |-> now + TTL]]
        /\ member' = [k \in Jtis |->
                        IF k = j THEN [sid |-> s, seq |-> n, created |-> now]
                        ELSE IF IsMember(k, s) /\ member[k].seq <= n - KeepMembers
                        THEN None ELSE member[k]]
        /\ reply' = [reply EXCEPT ![r] = NewToken(j, s, tok[r].start)]
        /\ Goto(r, "reply")
        /\ UNCHANGED <<now, cutoff, revoking, used, jar, kind, owner, tok,
                       found, late>>

\* session_revoked, or already_rotated.
RotateRefused(r) ==
    /\ pc[r] = "rotate"
    /\ ~MayRotate(r)
    /\ Goto(r, IF Live(tok[r].sid) /\ IsMember(tok[r].jti, tok[r].sid)
               THEN "regrace" ELSE "rejected")
    /\ ReadOnly(r) /\ UNCHANGED <<found, reply, late>>

\* The loser of a rotation looks for its grace row, then for the family.
ReprobeGrace(r) ==
    /\ pc[r] = "regrace"
    /\ found' = [found EXCEPT ![r] = IF GraceRow(r) THEN family[tok[r].sid].head
                                     ELSE None]
    /\ Goto(r, "refamily")
    /\ ReadOnly(r) /\ UNCHANGED <<reply, late>>

ReprobeFamily(r) ==
    /\ pc[r] = "refamily"
    /\ Goto(r, IF found[r] # None /\ Live(tok[r].sid) THEN "catchup" ELSE "rejected")
    /\ ReadOnly(r) /\ UNCHANGED <<found, reply, late>>

\* _issue_catchup_refresh_cookie: the head read before must still be head ...
CatchUp(r) ==
    /\ pc[r] = "catchup"
    /\ Goto(r, IF IsHead(found[r], tok[r].sid) /\ Live(tok[r].sid)
               THEN "catchmember" ELSE "rejected")
    /\ ReadOnly(r) /\ UNCHANGED <<found, reply, late>>

\* ... and a member.
CatchUpMember(r) ==
    LET good == IsMember(found[r], tok[r].sid) /\ Live(tok[r].sid)
    IN  /\ pc[r] = "catchmember"
        /\ reply' = IF good
                    THEN [reply EXCEPT ![r] = NewToken(found[r], tok[r].sid, tok[r].start)]
                    ELSE reply
        /\ Goto(r, IF good THEN "reply" ELSE "rejected")
        /\ ReadOnly(r) /\ UNCHANGED <<found, late>>

\* Mutant: one rotation more before a pruned jti counts as consumed.
UnknownLonger(r) ==
    ~IsMember(tok[r].jti, tok[r].sid) /\ family[tok[r].sid].rotations <= KeepMembers

\* Never issued in this family, as far as it remembers.
Unknown(r) ==
    ~IsMember(tok[r].jti, tok[r].sid) /\ family[tok[r].sid].rotations < KeepMembers

Verdict(r) ==
    CASE ~Live(tok[r].sid)                   -> "unknown"
      [] family[tok[r].sid].head = tok[r].jti -> "live"
      [] Unknown(r)                          -> "unknown"
      [] Graced(tok[r].jti, tok[r].sid)      -> "grace"
      [] OTHER                               -> "reused"

\* session_detect_reuse_and_revoke: always refused, and a reuse ends the family.
DetectReuse(r) ==
    /\ pc[r] = "reuse"
    /\ DropFamilies(IF Verdict(r) = "reused" THEN {tok[r].sid} ELSE {})
    /\ Goto(r, "denied")
    /\ UNCHANGED <<now, cutoff, revoking, jar, kind, owner, tok, found, reply, late>>

\* The answer arrives: it sets the cookie, or clears it.
Deliver(r) ==
    /\ pc[r] \in Replying
    /\ jar' = [jar EXCEPT ![owner[r]] = IF pc[r] = "reply" THEN reply[r] ELSE None]
    /\ Goto(r, IF pc[r] = "reply" THEN "ok" ELSE "expired")
    /\ UNCHANGED <<now, cutoff, revoking, store, kind, owner, tok, found, reply, late>>

\* The handler times out, the store fails, or the answer is lost.
Drop(r) ==
    /\ pc[r] \in Reading \cup Replying
    /\ Goto(r, "dropped")
    /\ ReadOnly(r) /\ UNCHANGED <<found, reply, late>>

Tick ==
    /\ now < MaxTime
    /\ now' = now + 1
    /\ UNCHANGED <<cutoff, revoking, store, jar, request>>

-----------------------------------------------------------------------------
Init ==
    /\ now = 0
    /\ cutoff = 0
    /\ revoking = FALSE
    /\ used = {}
    /\ family = [s \in Sids |-> None]
    /\ member = [j \in Jtis |-> None]
    /\ minted = 0
    /\ parent = [j \in Jtis |-> None]
    /\ jar = [c \in Clients |-> None]
    /\ pc = [r \in Requests |-> "idle"]
    /\ kind = [r \in Requests |-> "refresh"]
    /\ owner = [r \in Requests |-> None]
    /\ tok = [r \in Requests |-> None]
    /\ found = [r \in Requests |-> None]
    /\ reply = [r \in Requests |-> None]
    /\ late = [r \in Requests |-> FALSE]

Step(r) ==
    \/ Authenticate(r)
    \/ ProbeHead(r)
    \/ ProbeGrace(r)
    \/ ProbeFamily(r)
    \/ ProbeMember(r)
    \/ RotateOk(r)
    \/ RotateRefused(r)
    \/ ReprobeGrace(r)
    \/ ReprobeFamily(r)
    \/ CatchUp(r)
    \/ CatchUpMember(r)
    \/ DetectReuse(r)
    \/ Deliver(r)
    \/ Drop(r)

Next ==
    \/ \E c \in Clients, s \in Sids, E, L, P \in SUBSET Sids : Login(c, s, E, L, P)
    \/ \E c \in Clients, D \in SUBSET Sids : Logout(c, D)
    \/ ChangeCredentials
    \/ \E D \in SUBSET Sids : RevokeUser(D)
    \/ \E c \in Clients : RevokeOthers(c)
    \/ \E r \in Requests, c \in Clients, k \in {"refresh", "verify"} : Send(r, c, k)
    \/ \E r \in Requests : Step(r)
    \/ Tick

Spec == Init /\ [][Next]_vars

-----------------------------------------------------------------------------
(* Properties. *)

\* Rows have the columns of AuthSessionFamily and AuthSessionMember, tokens the
\* claims of create_refresh_token.
TypeOK ==
    /\ now \in Times
    /\ cutoff \in 0 .. MaxTime + 1
    /\ revoking \in BOOLEAN
    /\ used \subseteq Sids
    /\ family \in [Sids -> Family \cup {None}]
    /\ member \in [Jtis -> Member \cup {None}]
    /\ minted \in 0 .. MaxJti
    /\ parent \in [Jtis -> Jtis \cup {None}]
    /\ jar \in [Clients -> Token \cup {None}]
    /\ pc \in [Requests -> {"idle"} \cup Reading \cup Replying \cup Finished]
    /\ kind \in [Requests -> {"refresh", "verify"}]
    /\ owner \in [Requests -> Clients \cup {None}]
    /\ tok \in [Requests -> Token \cup {None}]
    /\ found \in [Requests -> Jtis \cup {None}]
    /\ reply \in [Requests -> Token \cup {None}]
    /\ late \in [Requests -> BOOLEAN]

\* However refreshes race, a family is one chain: its head is its last member,
\* and every member was rotated from the one before it, so no token is replaced
\* by a rotation that did not present it.
ChainLinear ==
    \A j \in Jtis : member[j] # None =>
        LET s == member[j].sid
        IN  /\ Exists(s)
            /\ member[j].seq <= family[s].rotations
            /\ (member[j].seq = family[s].rotations) <=> (family[s].head = j)
            /\ \A k \in Jtis : IsMember(k, s) /\ member[k].seq = member[j].seq + 1
                                 => parent[k] = j

\* A request whose token was already out of use when it began (logged out,
\* revoked, evicted, expired, or rotated out longer than Grace ago) is never
\* answered, whatever happens while it runs.
NoLateAnswer == \A r \in Requests : pc[r] \in {"reply", "ok"} => ~late[r]

\* After reuse detection refused a token its family is not live, and stays so:
\* pruning old members hides no reuse.
DeniedEndsFamily == \A r \in Requests : pc[r] = "denied" => ~Live(tok[r].sid)

\* A token still in use never comes to reuse detection: the probes of the head
\* and of the grace row, in that order, cannot both miss it.
InUseNotDenied == \A r \in Requests : pc[r] = "reuse" => ~InUse(tok[r])

\* Every variable has its type, and only a token that is out of use is answered
\* as reuse: no interleaving of tabs logs a live session out as stolen.
SessionsSound == TypeOK /\ InUseNotDenied

(* What the properties rest on. *)

LiveHead(t) == IsHead(t.jti, t.sid) /\ Live(t.sid)

\* The head of a family is a member of it; sequence numbers are not shared.
RowsAgree ==
    /\ \A s \in Sids : Exists(s) => s \in used /\ IsMember(family[s].head, s)
    /\ \A j \in Jtis : member[j] # None => j <= minted
    /\ \A j, k \in Jtis :
          /\ member[j] # None /\ member[k] # None
          /\ member[j].sid = member[k].sid /\ member[j].seq = member[k].seq
          => j = k

\* t was issued: its family knows it, unless members have been pruned.
Issued(t) ==
    /\ t.sid \in used
    /\ t.jti <= minted
    /\ Exists(t.sid) /\ family[t.sid].rotations < KeepMembers => IsMember(t.jti, t.sid)

TokensIssued ==
    /\ \A c \in Clients : jar[c] # None => Issued(jar[c])
    /\ \A r \in Requests : tok[r] # None => Issued(tok[r])
    /\ \A r \in Requests : reply[r] # None => Issued(reply[r])

\* Points a request reaches only with a token that was in use.
Passed == {"idle", "sent", "member", "rotate", "family", "regrace", "refamily",
           "catchup", "catchmember", "reply", "ok"}

\* What a request knows where it is.
RequestKnows(r) ==
    /\ pc[r] # "idle" => tok[r] # None /\ owner[r] # None
    /\ pc[r] \in {"family", "catchup", "catchmember"} => found[r] # None
    /\ pc[r] = "reply" => reply[r] # None
    /\ pc[r] \in Passed => ~late[r]
    /\ late[r] => ~InUse(tok[r])
    /\ pc[r] = "grace" => ~LiveHead(tok[r])

RequestsKnow == \A r \in Requests : RequestKnows(r)

SessionInv ==
    /\ TypeOK /\ RowsAgree /\ ChainLinear /\ TokensIssued /\ RequestsKnow
    /\ InUseNotDenied /\ DeniedEndsFamily

\* "the cross-tab race the rotation grace window exists to absorb": a request is
\* refused only if its token is out of use or too old when it is refused.
NoFalseLogout ==
    [][\A r \in Requests :
          pc[r] # "rejected" /\ pc'[r] = "rejected"
            => ~InUse(tok[r]) \/ Expired(tok[r]) \/ TooOld(r) \/ tok[r].iat < cutoff]_vars

=============================================================================
