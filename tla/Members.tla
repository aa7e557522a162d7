------------------------------ MODULE Members -------------------------------
(***************************************************************************)
(* The members of one organisation: invitations and their acceptance,      *)
(* removal, changes by an administrator, deletion and merging of users,    *)
(* and the seats of its plan.  A request reads from the snapshot its first *)
(* read took; locking reads see what is committed.  Invitations lock the   *)
(* organisation's row, the others lock nothing.                            *)
(***************************************************************************)
EXTENDS Integers, FiniteSets

CONSTANTS
    People,     \* persons, each with one address and at most one account
    Invites,    \* invitations
    Calls,      \* requests
    MaxUsers,   \* max_users of the plan
    MaxPending  \* MAX_PENDING_INVITATIONS

VARIABLES
    member,    \* person -> the account, or NoMember
    invite,    \* invitation -> its row, or NoInvite
    report,    \* what a person owns and shares: person -> owner, or Nobody
    orgLock,   \* the request that holds the organisation's row, or Nobody
    call,      \* per request: what it does and its snapshot
    single,    \* requests do not overlap
    taken,     \* invitation -> accounts it made or revived
    admitted   \* accounts an administrator made active, beyond any limit

orgVars == <<member, invite, report, orgLock, call, single, taken, admitted>>

Nobody == "nobody"

\* What the module asks of its constants.
MembersAssumption == Nobody \notin Calls

NoMember == [there |-> FALSE]
NoInvite == [there |-> FALSE, gone |-> FALSE]
DeletedInvite == [there |-> FALSE, gone |-> TRUE]
Roles == {"owner", "admin", "member"}
\* Rows of users and of invitations; a missing open_email is open = FALSE.
MemberRow == [there : {TRUE}, role : Roles, active : BOOLEAN, super : BOOLEAN]
InviteRow == [there : {TRUE}, by : People, to : People, role : Roles, open : BOOLEAN,
              state : {"pending", "accepted", "revoked"}, expired : BOOLEAN]
AtRest == [pc |-> "rest"]

Active(m) == {p \in People : m[p].there /\ m[p].active}
ActiveOwners(m) == {p \in Active(m) : m[p].role = "owner"}
Pending(v) == {i \in Invites : v[i].there /\ v[i].state = "pending" /\ ~ v[i].expired}
Open(v) == {i \in Invites : v[i].there /\ v[i].open}

Alone == single => \A c \in Calls : call[c] = AtRest
Enters(c, q) ==
    /\ call[c] = AtRest
    /\ Alone
    /\ call' = [call EXCEPT ![c] = q]
Leaves(c) == call' = [call EXCEPT ![c] = AtRest]

-----------------------------------------------------------------------------
(* Invitations. *)

\* enforce_user_limit, as the accounts are read
SeatFree(m) == Cardinality(Active(m)) < MaxUsers

\* The first read: require_org_admin's, or the invitation's organisation.
AskInvite(c, by, to, role) ==
    /\ by \in Active(member)
    /\ member[by].role \in {"owner", "admin"}
    /\ Enters(c, [pc |-> "invites", by |-> by, to |-> to, role |-> role, m |-> member, v |-> invite])
    /\ UNCHANGED <<member, invite, report, orgLock, single, taken, admitted>>

\* _clear_expired_open_invites
ExpiredCleared(v, to) ==
    [i \in Invites |-> IF v[i].there /\ v[i].to = to /\ v[i].state = "pending" /\ v[i].expired
                       THEN [v[i] EXCEPT !.open = FALSE] ELSE v[i]]

\* Mutant: nothing keeps two invitations of a person open.
ManyOpen(v, to) == TRUE

\* The unique index on open_email.
NoneOpen(v, to) == \A i \in Open(v) : v[i].to # to

\* create_invitation: what it counts is as old as its snapshot.
CreateInvitation(c, i) ==
    LET q == call[c]
        cleared == ExpiredCleared(invite, q.to)
        ok == /\ q.to \notin Active(q.m)
              /\ NoneOpen(ExpiredCleared(q.v, q.to), q.to)
              /\ Cardinality(Pending(q.v)) < MaxPending
              /\ SeatFree(q.m)
              /\ NoneOpen(cleared, q.to)
              /\ member[q.by].there
    IN  /\ q.pc = "invites"
        /\ orgLock = Nobody
        /\ invite[i] = NoInvite
        /\ invite' = IF ok
                     THEN [cleared EXCEPT ![i] =
                             [there |-> TRUE, by |-> q.by, to |-> q.to, role |-> q.role, open |-> TRUE,
                              state |-> "pending", expired |-> FALSE]]
                     ELSE invite
        /\ Leaves(c)
        /\ UNCHANGED <<member, report, orgLock, single, taken, admitted>>

\* INVITATION_TTL is over.
Expire(i) ==
    /\ i \in Pending(invite)
    /\ invite' = [invite EXCEPT ![i].expired = TRUE]
    /\ UNCHANGED <<member, report, orgLock, call, single, taken, admitted>>

\* revoke_invitation up to the write
AskRevoke(c, i) ==
    /\ invite[i].there
    /\ invite[i].state = "pending"
    /\ Enters(c, [pc |-> "revokes", i |-> i])
    /\ UNCHANGED <<member, invite, report, orgLock, single, taken, admitted>>

\* Written whatever the row has become; an acceptance under way holds the row.
RevokeInvitation(c) ==
    /\ call[c].pc = "revokes"
    /\ \A d \in Calls : call[d].pc = "accepted" => call[d].i # call[c].i
    /\ invite' = IF invite[call[c].i].there
                 THEN [invite EXCEPT ![call[c].i].state = "revoked", ![call[c].i].open = FALSE]
                 ELSE invite
    /\ Leaves(c)
    /\ UNCHANGED <<member, report, orgLock, single, taken, admitted>>

AskAccept(c, i) ==
    /\ invite[i].there
    /\ Enters(c, [pc |-> "accepts", i |-> i, m |-> member, v |-> invite])
    /\ UNCHANGED <<member, invite, report, orgLock, single, taken, admitted>>

\* Mutant: the row read before the lock decides.
StillPendingAsRead(q) == q.i \in Pending(q.v)

\* The row is read again once it is locked.
StillPending(q) == q.i \in Pending(invite)

\* The account is new, or was removed from this organisation and holds no
\* platform role.
MayJoin(m, p) == ~ m[p].there \/ (~ m[p].active /\ ~ m[p].super)

\* accept_invitation, under the lock and up to the commit.
AcceptLocked(c) ==
    LET q == call[c]
        ok == q.i \in Pending(invite) \cup Pending(q.v) /\ StillPending(q)
              /\ MayJoin(q.m, invite[q.i].to) /\ SeatFree(q.m)
    IN  /\ q.pc = "accepts"
        /\ orgLock = Nobody
        /\ IF ok THEN orgLock' = c /\ call' = [call EXCEPT ![c].pc = "accepted"]
                 ELSE Leaves(c) /\ UNCHANGED orgLock
        /\ UNCHANGED <<member, invite, report, single, taken, admitted>>

Joined(role) == [there |-> TRUE, role |-> role, active |-> TRUE, super |-> FALSE]

AcceptCommit(c) ==
    LET i == call[c].i
        p == invite[i].to
    IN  /\ call[c].pc = "accepted"
        /\ member' = [member EXCEPT ![p] = Joined(invite[i].role)]
        /\ invite' = [invite EXCEPT ![i].state = "accepted", ![i].open = FALSE]
        /\ taken' = [taken EXCEPT ![i] = @ + 1]
        /\ orgLock' = Nobody
        /\ Leaves(c)
        /\ UNCHANGED <<report, single, admitted>>

-----------------------------------------------------------------------------
(* Changes of a member. *)

\* Mutant: the last owner is any owner's own business.
AnyOwnerMayGo(m, p) == TRUE

\* An active owner is not the last.
NotLastOwner(m, p) == p \in ActiveOwners(m) => Cardinality(ActiveOwners(m)) > 1

\* remove_member and update_member up to the write.
AskChange(c, by, p, role, active) ==
    LET row == member[p]
    IN  /\ row.there
        /\ by # p
        /\ ~ row.super
        /\ (row.role = "owner" /\ (role # "owner" \/ ~ active) /\ row.active) => NotLastOwner(member, p)
        /\ [row EXCEPT !.role = role, !.active = active] # row
        /\ Enters(c, [pc |-> "changes", p |-> p, row |-> row, role |-> role, active |-> active])
        /\ UNCHANGED <<member, invite, report, orgLock, single, taken, admitted>>

\* remove_member: by an owner or an administrator of the organisation.
AskRemove(c, by, p) ==
    /\ by \in Active(member)
    /\ member[by].role \in {"owner", "admin"}
    /\ member[p].there /\ member[p].active
    /\ member[p].role = "owner" => member[by].role = "owner"
    /\ AskChange(c, by, p, member[p].role, FALSE)

\* Of the columns, those that changed are written.
Written(now, q) ==
    [now EXCEPT !.role = IF q.role = q.row.role THEN @ ELSE q.role,
                !.active = IF q.active = q.row.active THEN @ ELSE q.active]

CommitChange(c) ==
    LET q == call[c]
    IN  /\ q.pc = "changes"
        /\ IF member[q.p].there
           THEN /\ member' = [member EXCEPT ![q.p] = Written(@, q)]
                /\ admitted' = admitted + Cardinality(Active(member') \ Active(member))
           ELSE UNCHANGED <<member, admitted>>
        /\ Leaves(c)
        /\ UNCHANGED <<invite, report, orgLock, single, taken>>

\* Whom an administrator may delete: a removed account.
MayDelete(p) == member[p].there /\ ~ member[p].active /\ ~ member[p].super

\* Who gets what was shared: another active owner.
HeirOf(p) == IF ActiveOwners(member) \ {p} = {} THEN {Nobody} ELSE ActiveOwners(member) \ {p}

\* An acceptance under way holds its invitation.
NoneAccepted(p) == \A c \in Calls : call[c].pc = "accepted" => invite[call[c].i].by # p

\* delete_user: its invitations go, its shared reports pass on.
DeleteUser(p, heir) ==
    /\ Alone
    /\ MayDelete(p)
    /\ heir \in HeirOf(p)
    /\ NoneAccepted(p)
    /\ member' = [member EXCEPT ![p] = NoMember]
    /\ invite' = [i \in Invites |-> IF invite[i].there /\ invite[i].by = p
                                   THEN DeletedInvite ELSE invite[i]]
    /\ report' = [r \in People |-> IF report[r] = p THEN heir ELSE report[r]]
    /\ UNCHANGED <<orgLock, call, single, taken, admitted>>

\* Mutant: the source may be the last owner.
MergeAnyway(s, t) == TRUE

MergeKeepsOwner(s, t) == s \in ActiveOwners(member) => ActiveOwners(member) \ {s} # {}

\* merge_users' refusals
MayMerge(s, t) ==
    /\ s # t
    /\ member[s].there /\ member[t].there
    /\ member[s].super => member[t].super
    /\ MergeKeepsOwner(s, t)

\* merge_users: the source's rows pass to the target.
MergeUsers(s, t) ==
    /\ Alone
    /\ MayMerge(s, t)
    /\ NoneAccepted(s)
    /\ member' = [member EXCEPT ![s] = NoMember]
    /\ invite' = [i \in Invites |-> IF invite[i].there /\ invite[i].by = s
                                   THEN [invite[i] EXCEPT !.by = t] ELSE invite[i]]
    /\ report' = [r \in People |-> IF report[r] = s THEN t ELSE report[r]]
    /\ UNCHANGED <<orgLock, call, single, taken, admitted>>

\* promote_superadmin
PromoteSuperadmin(p) ==
    /\ Alone
    /\ p \in Active(member)
    /\ ~ member[p].super
    /\ member' = [member EXCEPT ![p].super = TRUE]
    /\ UNCHANGED <<invite, report, orgLock, call, single, taken, admitted>>

\* A member makes a report and shares it.
Share(p) ==
    /\ Alone
    /\ p \in Active(member)
    /\ report[p] = Nobody
    /\ report' = [report EXCEPT ![p] = p]
    /\ UNCHANGED <<member, invite, orgLock, call, single, taken, admitted>>

-----------------------------------------------------------------------------
OrgInit ==
    /\ \E p \in People : member = [q \in People |-> IF q = p THEN Joined("owner") ELSE NoMember]
    /\ invite = [i \in Invites |-> NoInvite]
    /\ report = [p \in People |-> Nobody]
    /\ orgLock = Nobody
    /\ call = [c \in Calls |-> AtRest]
    /\ single \in BOOLEAN
    /\ taken = [i \in Invites |-> 0]
    /\ admitted = 0

OrgNext ==
    \/ \E c \in Calls, by, p \in People, role \in Roles : AskInvite(c, by, p, role)
    \/ \E c \in Calls, i \in Invites : CreateInvitation(c, i) \/ AskRevoke(c, i) \/ AskAccept(c, i)
    \/ \E i \in Invites : Expire(i)
    \/ \E c \in Calls : RevokeInvitation(c) \/ AcceptLocked(c) \/ AcceptCommit(c) \/ CommitChange(c)
    \/ \E c \in Calls, by, p \in People : AskRemove(c, by, p)
    \/ \E c \in Calls, p \in People, role \in Roles, active \in BOOLEAN :
          AskChange(c, Nobody, p, role, active)
    \/ \E p, t \in People : DeleteUser(p, t) \/ MergeUsers(p, t)
    \/ \E p \in People : DeleteUser(p, Nobody) \/ PromoteSuperadmin(p) \/ Share(p)

-----------------------------------------------------------------------------
(* Properties. *)

\* At most one invitation of a person is open, and an open one was not used; an
\* invitation's author and a shared report's owner are accounts that exist.
MembersTypeOK ==
    /\ \A p \in People : member[p] = NoMember \/ member[p] \in MemberRow
    /\ \A i \in Invites : invite[i] \in {NoInvite, DeletedInvite} \/ invite[i] \in InviteRow
    /\ \A i, j \in Open(invite) : invite[i].to = invite[j].to => i = j
    /\ \A i \in Open(invite) : invite[i].state = "pending"
    /\ \A i \in Invites : invite[i].there => member[invite[i].by].there
    /\ \A p \in People : report[p] # Nobody => member[report[p]].there

\* An invitation lets one account in, once, whatever overlaps.
InviteTakenOnce == \A i \in Invites : taken[i] <= 1

\* The organisation keeps an active owner, when requests do not overlap.
OwnerRemains == single => ActiveOwners(member) # {}

\* Invitations never let in more than the seats of the plan, beyond those an
\* administrator made active (enforce_user_limit).
SeatsHeld == Cardinality(Active(member)) <= MaxUsers + admitted
=============================================================================
