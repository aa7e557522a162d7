--------------------------- MODULE IdentityProofs ---------------------------
(* Who may act, for any number of people, requests, letters and grants: one   *)
(* part of the specification at a time, as the steps of the others leave its  *)
(* variables alone.                                                           *)
EXTENDS MCIdentity, FiniteSetTheorems, SequenceTheorems, TLAPS

-----------------------------------------------------------------------------
(* Members: the organisation's lock keeps one acceptance under way at a time, *)
(* and its invitation as it was found.                                        *)

Members == [People -> O!MemberRow \cup {O!NoMember}]
Invitations == [Ids -> O!InviteRow \cup {O!NoInvite, O!DeletedInvite}]
Inviting == [pc : {"invites"}, by : People, to : People, role : O!Roles, m : Members, v : Invitations]
Revoking == [pc : {"revokes"}, i : Ids]
Accepting == [pc : {"accepts", "accepted"}, i : Ids, m : Members, v : Invitations]
Changing == [pc : {"changes"}, p : People, row : O!MemberRow, role : O!Roles, active : BOOLEAN]

MemberTypes ==
    /\ member \in Members
    /\ invite \in Invitations
    /\ report \in [People -> People \cup {O!Nobody}]
    /\ call \in [Requests -> {O!AtRest} \cup Inviting \cup Revoking \cup Accepting \cup Changing]
    /\ taken \in [Ids -> Nat]
\* At most one invitation of a person is open, and it is pending.
OneOpen ==
    /\ \A i, j \in O!Open(invite) : invite[i].to = invite[j].to => i = j
    /\ \A i \in O!Open(invite) : invite[i].state = "pending"
\* Authors and owners exist.
AuthorsThere ==
    /\ \A i \in Ids : invite[i].there => member[invite[i].by].there
    /\ \A p \in People : report[p] # O!Nobody => member[report[p]].there
\* The acceptance under way holds the lock, and its invitation waits for it.
UnderLock ==
    \A c \in Requests : call[c].pc = "accepted" =>
        orgLock = c /\ invite[call[c].i].there /\ invite[call[c].i].state = "pending"
TakenOnce ==
    \A i \in Ids : /\ taken[i] <= 1
                   /\ invite[i] = O!NoInvite => taken[i] = 0
                   /\ invite[i].there /\ invite[i].state = "pending" => taken[i] = 0
MembersInv == MemberTypes /\ OneOpen /\ AuthorsThere /\ UnderLock /\ TakenOnce

\* When requests do not overlap, one that is under way acts on what it read.
AsRead ==
    single =>
        /\ \A c, d \in Requests : call[c] # O!AtRest /\ call[d] # O!AtRest => c = d
        /\ \A c \in Requests : call[c].pc \in {"accepts", "accepted"} => call[c].m = member
        /\ \A c \in Requests : call[c].pc = "accepted" => O!MayJoin(member, invite[call[c].i].to)
        /\ \A c \in Requests : call[c].pc = "changes" =>
              /\ member[call[c].p] = call[c].row
              /\ call[c].p \in O!ActiveOwners(member) /\ (call[c].role # "owner" \/ ~ call[c].active)
                    => O!ActiveOwners(member) \ {call[c].p} # {}
OwnersInv == MembersInv /\ AsRead /\ O!OwnerRemains

LEMMA NotAtRest ==
    ASSUME MemberTypes, NEW c \in Requests
    PROVE  /\ call[c].pc = "invites" => call[c] \in Inviting
           /\ call[c].pc = "revokes" => call[c] \in Revoking
           /\ call[c].pc \in {"accepts", "accepted"} => call[c] \in Accepting
           /\ call[c].pc = "changes" => call[c] \in Changing
           /\ call[c].pc \in {"invites", "revokes", "accepts", "accepted", "changes"} => call[c] # O!AtRest
  BY DEF MemberTypes, Inviting, Revoking, Accepting, Changing, O!AtRest

\* Rows that are there have their columns.
LEMMA RowsThere ==
    ASSUME NEW m \in Members, NEW v \in Invitations
    PROVE  /\ \A p \in People : m[p].there => m[p] \in O!MemberRow
           /\ \A p \in People : ~ m[p].there => m[p] = O!NoMember
           /\ \A i \in Ids : v[i].there => v[i] \in O!InviteRow
           /\ \A i \in Ids : ~ v[i].there => v[i] \in {O!NoInvite, O!DeletedInvite}
<1>1. ASSUME NEW z \in O!MemberRow \cup {O!NoMember}
      PROVE  IF z.there THEN z \in O!MemberRow ELSE z = O!NoMember
  <2>1. CASE z \in O!MemberRow
    BY <2>1 DEF O!MemberRow
  <2>2. CASE z = O!NoMember
    <3>1. z.there = FALSE
      BY <2>2 DEF O!NoMember
    <3> QED BY <2>2, <3>1
  <2> QED BY <2>1, <2>2
<1>2. ASSUME NEW z \in O!InviteRow \cup {O!NoInvite, O!DeletedInvite}
      PROVE  IF z.there THEN z \in O!InviteRow ELSE z \in {O!NoInvite, O!DeletedInvite}
  <2>1. CASE z \in O!InviteRow
    BY <2>1 DEF O!InviteRow
  <2>2. CASE z \in {O!NoInvite, O!DeletedInvite}
    <3>1. z.there = FALSE
      BY <2>2 DEF O!NoInvite, O!DeletedInvite
    <3> QED BY <2>2, <3>1
  <2> QED BY <2>1, <2>2
<1>3. \A p \in People : m[p] \in O!MemberRow \cup {O!NoMember}
  BY DEF Members
<1>4. \A i \in Ids : v[i] \in O!InviteRow \cup {O!NoInvite, O!DeletedInvite}
  BY DEF Invitations
<1> QED BY <1>1, <1>2, <1>3, <1>4

AllCalls == {O!AtRest} \cup Inviting \cup Revoking \cup Accepting \cup Changing

LEMMA CallSet ==
    ASSUME MemberTypes, NEW c \in Requests, NEW q \in AllCalls, call' = [call EXCEPT ![c] = q]
    PROVE  /\ call' \in [Requests -> AllCalls]
           /\ call'[c] = q
           /\ \A d \in Requests : d # c => call'[d] = call[d]
  BY DEF MemberTypes, AllCalls

\* A step of a request that touches no row and does not accept.
LEMMA CallOnly ==
    ASSUME MembersInv, NEW c \in Requests, NEW q \in AllCalls, q.pc # "accepted",
           call' = [call EXCEPT ![c] = q], UNCHANGED <<member, invite, report, orgLock, taken>>
    PROVE  MembersInv'
<1>1. MemberTypes /\ OneOpen /\ AuthorsThere /\ UnderLock /\ TakenOnce
  BY DEF MembersInv
<1>2. /\ call' \in [Requests -> AllCalls]
      /\ call'[c] = q
      /\ \A d \in Requests : d # c => call'[d] = call[d]
  BY <1>1, CallSet
<1>3. MemberTypes'
  BY <1>1, <1>2 DEF MemberTypes, AllCalls
<1>4. UnderLock'
  <2> SUFFICES ASSUME NEW d \in Requests, call'[d].pc = "accepted"
               PROVE  orgLock' = d /\ invite'[call'[d].i].there /\ invite'[call'[d].i].state = "pending"
    BY DEF UnderLock
  <2>1. d # c /\ call'[d] = call[d]
    BY <1>2
  <2> QED BY <1>1, <2>1 DEF UnderLock
<1>5. OneOpen' /\ AuthorsThere' /\ TakenOnce'
  BY <1>1 DEF OneOpen, AuthorsThere, TakenOnce, O!Open
<1> QED BY <1>3, <1>4, <1>5 DEF MembersInv

LEMMA RestIsCall == O!AtRest \in AllCalls /\ O!AtRest.pc = "rest"
  BY DEF AllCalls, O!AtRest

LEMMA AskInviteKeeps ==
    ASSUME MembersInv, NEW c \in Requests, NEW by \in People, NEW to \in People, NEW role \in O!Roles,
           O!AskInvite(c, by, to, role)
    PROVE  MembersInv'
<1> DEFINE q == [pc |-> "invites", by |-> by, to |-> to, role |-> role, m |-> member, v |-> invite]
<1>1. q \in AllCalls /\ q.pc # "accepted"
  BY DEF MembersInv, MemberTypes, AllCalls, Inviting
<1>2. call' = [call EXCEPT ![c] = q] /\ UNCHANGED <<member, invite, report, orgLock, taken>>
  BY DEF O!AskInvite, O!Enters
<1> HIDE DEF q
<1> QED BY <1>1, <1>2, CallOnly

LEMMA AskRevokeKeeps ==
    ASSUME MembersInv, NEW c \in Requests, NEW i \in Ids, O!AskRevoke(c, i)
    PROVE  MembersInv'
<1> DEFINE q == [pc |-> "revokes", i |-> i]
<1>1. q \in AllCalls /\ q.pc # "accepted"
  BY DEF AllCalls, Revoking
<1>2. call' = [call EXCEPT ![c] = q] /\ UNCHANGED <<member, invite, report, orgLock, taken>>
  BY DEF O!AskRevoke, O!Enters
<1> HIDE DEF q
<1> QED BY <1>1, <1>2, CallOnly

LEMMA AskAcceptKeeps ==
    ASSUME MembersInv, NEW c \in Requests, NEW i \in Ids, O!AskAccept(c, i)
    PROVE  MembersInv'
<1> DEFINE q == [pc |-> "accepts", i |-> i, m |-> member, v |-> invite]
<1>1. q \in AllCalls /\ q.pc # "accepted"
  BY DEF MembersInv, MemberTypes, AllCalls, Accepting
<1>2. call' = [call EXCEPT ![c] = q] /\ UNCHANGED <<member, invite, report, orgLock, taken>>
  BY DEF O!AskAccept, O!Enters
<1> HIDE DEF q
<1> QED BY <1>1, <1>2, CallOnly

LEMMA AskChangeKeeps ==
    ASSUME MembersInv, NEW c \in Requests, NEW by, NEW p \in People, NEW role \in O!Roles,
           NEW active \in BOOLEAN, O!AskChange(c, by, p, role, active)
    PROVE  MembersInv'
<1> DEFINE q == [pc |-> "changes", p |-> p, row |-> member[p], role |-> role, active |-> active]
<1>1. member \in Members /\ Invitations # {}
  BY DEF MembersInv, MemberTypes
<1>3. member[p] \in O!MemberRow
  BY <1>1, RowsThere DEF O!AskChange
<1>4. q \in AllCalls /\ q.pc # "accepted"
  BY <1>3 DEF AllCalls, Changing
<1>5. call' = [call EXCEPT ![c] = q] /\ UNCHANGED <<member, invite, report, orgLock, taken>>
  BY DEF O!AskChange, O!Enters
<1> HIDE DEF q
<1> QED BY <1>4, <1>5, CallOnly

LEMMA AskRemoveKeeps ==
    ASSUME MembersInv, NEW c \in Requests, NEW by \in People, NEW p \in People, O!AskRemove(c, by, p)
    PROVE  MembersInv'
<1>1. member \in Members /\ Invitations # {}
  BY DEF MembersInv, MemberTypes
<1>2. member[p].role \in O!Roles
  BY <1>1, RowsThere DEF O!AskRemove, O!MemberRow
<1>3. O!AskChange(c, by, p, member[p].role, FALSE)
  BY DEF O!AskRemove
<1> QED BY <1>2, <1>3, AskChangeKeeps

LEMMA AcceptLockedKeeps ==
    ASSUME MembersInv, NEW c \in Requests, O!AcceptLocked(c)
    PROVE  MembersInv'
<1>1. MemberTypes /\ OneOpen /\ AuthorsThere /\ UnderLock /\ TakenOnce
  BY DEF MembersInv
<1>2. call[c].pc = "accepts" /\ orgLock = O!Nobody /\ UNCHANGED <<member, invite, report, taken>>
  BY DEF O!AcceptLocked
<1>3. call[c] \in Accepting
  BY <1>1, <1>2, NotAtRest
<1>4. CASE orgLock' = c /\ call' = [call EXCEPT ![c].pc = "accepted"] /\ O!StillPending(call[c])
  <2> DEFINE q == [call[c] EXCEPT !.pc = "accepted"]
  <2>1. q \in AllCalls /\ q.pc = "accepted" /\ q.i = call[c].i
    BY <1>3 DEF AllCalls, Accepting
  <2>2. call' = [call EXCEPT ![c] = q]
    BY <1>4
  <2> HIDE DEF q
  <2>3. /\ call' \in [Requests -> AllCalls]
        /\ call'[c] = q
        /\ \A d \in Requests : d # c => call'[d] = call[d]
    BY <1>1, <2>1, <2>2, CallSet
  <2>4. MemberTypes'
    BY <1>1, <1>2, <2>3 DEF MemberTypes, AllCalls
  <2>5. \A d \in Requests : call[d].pc # "accepted"
    BY <1>1, <1>2, IdentityAssumption DEF UnderLock, O!MembersAssumption
  <2>6. invite[call[c].i].there /\ invite[call[c].i].state = "pending"
    BY <1>4 DEF O!StillPending, O!Pending
  <2>7. UnderLock'
    <3> SUFFICES ASSUME NEW d \in Requests, call'[d].pc = "accepted"
                 PROVE  orgLock' = d /\ invite'[call'[d].i].there /\ invite'[call'[d].i].state = "pending"
      BY DEF UnderLock
    <3>1. d = c
      BY <2>3, <2>5
    <3> QED BY <1>2, <1>4, <2>1, <2>3, <2>6, <3>1
  <2>8. OneOpen' /\ AuthorsThere' /\ TakenOnce'
    BY <1>1, <1>2 DEF OneOpen, AuthorsThere, TakenOnce, O!Open
  <2> QED BY <2>4, <2>7, <2>8 DEF MembersInv
<1>5. CASE O!Leaves(c) /\ UNCHANGED orgLock
  BY <1>2, <1>5, RestIsCall, CallOnly DEF O!Leaves
<1> QED BY <1>4, <1>5 DEF O!AcceptLocked

\* Clearing expired invitations closes some and changes nothing else.
LEMMA ClearedRows ==
    ASSUME NEW v \in Invitations, NEW m \in Members, NEW to \in People
    PROVE  /\ O!ExpiredCleared(v, to) \in Invitations
           /\ \A j \in Ids :
                LET z == O!ExpiredCleared(v, to)[j] IN
                /\ z.there = v[j].there
                /\ ~ v[j].there => z = v[j]
                /\ v[j].there => /\ z.by = v[j].by /\ z.to = v[j].to /\ z.state = v[j].state
                                 /\ z.open => v[j].open
<1> DEFINE w == O!ExpiredCleared(v, to)
<1>1. ASSUME NEW j \in Ids
      PROVE  /\ w[j] \in O!InviteRow \cup {O!NoInvite, O!DeletedInvite}
             /\ w[j].there = v[j].there
             /\ ~ v[j].there => w[j] = v[j]
             /\ v[j].there => /\ w[j].by = v[j].by /\ w[j].to = v[j].to /\ w[j].state = v[j].state
                              /\ w[j].open => v[j].open
  <2>1. v[j].there => v[j] \in O!InviteRow
    BY RowsThere
  <2>2. CASE v[j].there /\ v[j].to = to /\ v[j].state = "pending" /\ v[j].expired
    <3>1. w[j] = [v[j] EXCEPT !.open = FALSE]
      BY <2>2 DEF O!ExpiredCleared
    <3>2. v[j] \in O!InviteRow
      BY <2>1, <2>2
    <3>3. w[j] \in O!InviteRow
      BY <3>1, <3>2 DEF O!InviteRow
    <3> QED BY <2>2, <3>1, <3>2, <3>3 DEF O!InviteRow
  <2>3. CASE ~ (v[j].there /\ v[j].to = to /\ v[j].state = "pending" /\ v[j].expired)
    <3>1. w[j] = v[j]
      BY <2>3 DEF O!ExpiredCleared
    <3> QED BY <3>1 DEF Invitations
  <2> QED BY <2>2, <2>3
<1>2. w \in Invitations
  <2>1. w = [j \in Ids |-> w[j]]
    BY DEF O!ExpiredCleared
  <2> HIDE DEF w
  <2> QED BY <1>1, <2>1 DEF Invitations
<1> QED BY <1>1, <1>2

LEMMA CreateKeeps ==
    ASSUME MembersInv, NEW c \in Requests, NEW i \in Ids, O!CreateInvitation(c, i)
    PROVE  MembersInv'
<1>1. MemberTypes /\ OneOpen /\ AuthorsThere /\ UnderLock /\ TakenOnce
  BY DEF MembersInv
<1> DEFINE q == call[c]
<1>2. /\ q.pc = "invites" /\ orgLock = O!Nobody /\ invite[i] = O!NoInvite
      /\ call' = [call EXCEPT ![c] = O!AtRest] /\ UNCHANGED <<member, report, orgLock, taken>>
  BY DEF O!CreateInvitation, O!Leaves
<1>3. q \in Inviting
  BY <1>1, <1>2, NotAtRest
<1>4. CASE invite' = invite
  BY <1>2, <1>4, RestIsCall, CallOnly
<1> DEFINE cleared == O!ExpiredCleared(invite, q.to)
           new == [there |-> TRUE, by |-> q.by, to |-> q.to, role |-> q.role, open |-> TRUE,
                   state |-> "pending", expired |-> FALSE]
<1>5. CASE invite' = [cleared EXCEPT ![i] = new] /\ O!NoneOpen(cleared, q.to) /\ member[q.by].there
  <2>1. q.by \in People /\ q.to \in People /\ q.role \in O!Roles
    BY <1>3 DEF Inviting
  <2>2. invite \in Invitations /\ member \in Members
    BY <1>1 DEF MemberTypes
  <2>3. cleared \in Invitations
    BY <2>1, <2>2, ClearedRows
  <2>4. \A j \in Ids :
           /\ cleared[j].there = invite[j].there
           /\ ~ invite[j].there => cleared[j] = invite[j]
           /\ invite[j].there =>
                 /\ cleared[j].by = invite[j].by /\ cleared[j].to = invite[j].to
                 /\ cleared[j].state = invite[j].state
                 /\ cleared[j].open => invite[j].open
    BY <2>1, <2>2, ClearedRows
  <2>5. /\ new \in O!InviteRow /\ new.there /\ new.by = q.by /\ new.to = q.to
        /\ new.state = "pending" /\ new.open
    BY <2>1 DEF O!InviteRow
  <2>6. \A j \in O!Open(cleared) : cleared[j].to # q.to
    BY <1>5 DEF O!NoneOpen
  <2>7. member[q.by].there
    BY <1>5
  <2>8. invite' = [cleared EXCEPT ![i] = new]
    BY <1>5
  <2>9. invite[i].there = FALSE
    BY <1>2 DEF O!NoInvite
  <2> HIDE DEF q, cleared, new
  <2>10. invite' \in Invitations /\ invite'[i] = new /\ \A j \in Ids : j # i => invite'[j] = cleared[j]
    BY <2>3, <2>5, <2>8 DEF Invitations
  <2>11. call' \in [Requests -> AllCalls]
    BY <1>1, <1>2, RestIsCall, CallSet
  <2>12. MemberTypes'
    BY <1>1, <1>2, <2>10, <2>11 DEF MemberTypes, AllCalls
  <2>13. OneOpen'
    <3>1. \A j \in O!Open(invite') : j # i => j \in O!Open(invite) /\ j \in O!Open(cleared) /\ invite'[j].to = invite[j].to
      BY <2>4, <2>10 DEF O!Open
    <3>2. \A j, k \in O!Open(invite') : invite'[j].to = invite'[k].to => j = k
      <4> SUFFICES ASSUME NEW j \in O!Open(invite'), NEW k \in O!Open(invite'), invite'[j].to = invite'[k].to
                   PROVE  j = k
        OBVIOUS
      <4>1. CASE j # i /\ k # i
        BY <1>1, <3>1, <4>1 DEF OneOpen
      <4>2. CASE j = i /\ k # i
        <5>1. k \in O!Open(cleared) /\ invite'[k] = cleared[k] /\ invite'[i].to = q.to
          BY <2>5, <2>10, <3>1, <4>2 DEF O!Open
        <5> QED BY <2>6, <4>2, <5>1
      <4>3. CASE k = i /\ j # i
        <5>1. j \in O!Open(cleared) /\ invite'[j] = cleared[j] /\ invite'[i].to = q.to
          BY <2>5, <2>10, <3>1, <4>3 DEF O!Open
        <5> QED BY <2>6, <4>3, <5>1
      <4> QED BY <4>1, <4>2, <4>3
    <3>3. \A j \in O!Open(invite') : invite'[j].state = "pending"
      BY <1>1, <2>4, <2>5, <2>10, <3>1 DEF OneOpen, O!Open
    <3> QED BY <3>2, <3>3 DEF OneOpen, O!Open
  <2>14. AuthorsThere'
    BY <1>1, <1>2, <2>4, <2>5, <2>7, <2>10 DEF AuthorsThere
  <2>15. UnderLock'
    <3>1. \A d \in Requests : call[d].pc # "accepted"
      BY <1>1, <1>2, IdentityAssumption DEF UnderLock, O!MembersAssumption
    <3>2. \A d \in Requests : call'[d] = IF d = c THEN O!AtRest ELSE call[d]
      BY <1>1, <1>2, RestIsCall, CallSet
    <3> QED BY <3>1, <3>2, RestIsCall DEF UnderLock
  <2>16. TakenOnce'
    BY <1>1, <1>2, <2>4, <2>5, <2>9, <2>10 DEF TakenOnce, O!NoInvite
  <2> QED BY <2>12, <2>13, <2>14, <2>15, <2>16 DEF MembersInv
<1> QED BY <1>4, <1>5 DEF O!CreateInvitation

\* A write of one invitation that opens nothing.
LEMMA InviteWritten ==
    ASSUME MembersInv, NEW i \in Ids, invite[i].there, NEW z \in O!InviteRow,
           z.by = invite[i].by, z.to = invite[i].to, z.open => invite[i].open /\ z.state = invite[i].state,
           invite' = [invite EXCEPT ![i] = z]
    PROVE  /\ invite' \in Invitations /\ OneOpen'
           /\ invite'[i] = z /\ \A j \in Ids : j # i => invite'[j] = invite[j]
<1>1. MemberTypes /\ OneOpen
  BY DEF MembersInv
<1>2. invite' \in Invitations /\ invite'[i] = z /\ \A j \in Ids : j # i => invite'[j] = invite[j]
  BY <1>1 DEF MemberTypes, Invitations
<1>3. \A j \in O!Open(invite') : j \in O!Open(invite) /\ invite'[j].to = invite[j].to /\ invite'[j].state = invite[j].state
  BY <1>2 DEF O!Open
<1>4. \A j, k \in O!Open(invite') : invite'[j].to = invite'[k].to => j = k
  BY <1>1, <1>3 DEF OneOpen
<1>5. \A j \in O!Open(invite') : invite'[j].state = "pending"
  BY <1>1, <1>3 DEF OneOpen
<1>6. OneOpen'
  BY <1>4, <1>5 DEF OneOpen, O!Open
<1> QED BY <1>2, <1>6

LEMMA ExpireKeeps ==
    ASSUME MembersInv, NEW i \in Ids, O!Expire(i)
    PROVE  MembersInv'
<1>1. MemberTypes /\ OneOpen /\ AuthorsThere /\ UnderLock /\ TakenOnce
  BY DEF MembersInv
<1>2. invite[i].there /\ invite[i].state = "pending" /\ UNCHANGED <<member, report, orgLock, call, taken>>
  BY DEF O!Expire, O!Pending
<1> DEFINE z == [invite[i] EXCEPT !.expired = TRUE]
<1>3. invite[i] \in O!InviteRow
  BY <1>1, <1>2, RowsThere DEF MemberTypes
<1>4. /\ z \in O!InviteRow /\ z.there /\ z.by = invite[i].by /\ z.to = invite[i].to
      /\ z.open = invite[i].open /\ z.state = invite[i].state
  BY <1>3 DEF O!InviteRow
<1>5. invite' = [invite EXCEPT ![i] = z]
  BY DEF O!Expire
<1> HIDE DEF z
<1>6. /\ invite' \in Invitations /\ OneOpen'
      /\ invite'[i] = z /\ \A j \in Ids : j # i => invite'[j] = invite[j]
  BY <1>2, <1>4, <1>5, InviteWritten
<1>7. MemberTypes'
  BY <1>1, <1>2, <1>6 DEF MemberTypes
<1>8. AuthorsThere'
  BY <1>1, <1>2, <1>4, <1>6 DEF AuthorsThere
<1>9. UnderLock'
  <2> SUFFICES ASSUME NEW d \in Requests, call[d].pc = "accepted"
               PROVE  orgLock = d /\ invite'[call[d].i].there /\ invite'[call[d].i].state = "pending"
    BY <1>2 DEF UnderLock
  <2>1. call[d].i \in Ids
    BY <1>1, NotAtRest DEF Accepting
  <2> QED BY <1>1, <1>2, <1>4, <1>6, <2>1 DEF UnderLock
<1>10. TakenOnce'
  BY <1>1, <1>2, <1>4, <1>6 DEF TakenOnce, O!NoInvite
<1> QED BY <1>6, <1>7, <1>8, <1>9, <1>10 DEF MembersInv

LEMMA RevokeKeeps ==
    ASSUME MembersInv, NEW c \in Requests, O!RevokeInvitation(c)
    PROVE  MembersInv'
<1>1. MemberTypes /\ OneOpen /\ AuthorsThere /\ UnderLock /\ TakenOnce
  BY DEF MembersInv
<1>2. /\ call[c].pc = "revokes" /\ call' = [call EXCEPT ![c] = O!AtRest]
      /\ UNCHANGED <<member, report, orgLock, taken>>
  BY DEF O!RevokeInvitation, O!Leaves
<1> DEFINE i == call[c].i
<1>3. i \in Ids
  BY <1>1, <1>2, NotAtRest DEF Revoking
<1>4. \A d \in Requests : call[d].pc = "accepted" => call[d].i # i
  BY DEF O!RevokeInvitation
<1>5. CASE ~ invite[i].there
  <2>1. invite' = invite
    BY <1>5 DEF O!RevokeInvitation
  <2> QED BY <1>2, <2>1, RestIsCall, CallOnly
<1>6. CASE invite[i].there
  <2> DEFINE z == [invite[i] EXCEPT !.state = "revoked", !.open = FALSE]
  <2>1. invite[i] \in O!InviteRow
    BY <1>1, <1>3, <1>6, RowsThere DEF MemberTypes
  <2>2. invite' = [invite EXCEPT ![i] = z]
    BY <1>6 DEF O!RevokeInvitation
  <2>3. /\ z \in O!InviteRow /\ z.there /\ z.by = invite[i].by /\ z.to = invite[i].to
        /\ z.open = FALSE /\ z.state = "revoked"
    BY <2>1 DEF O!InviteRow
  <2> HIDE DEF z, i
  <2>4. /\ invite' \in Invitations /\ OneOpen'
        /\ invite'[i] = z /\ \A j \in Ids : j # i => invite'[j] = invite[j]
    BY <1>3, <1>6, <2>2, <2>3, InviteWritten
  <2>5. call' \in [Requests -> AllCalls] /\ \A d \in Requests : call'[d] = IF d = c THEN O!AtRest ELSE call[d]
    BY <1>1, <1>2, RestIsCall, CallSet
  <2>6. MemberTypes'
    BY <1>1, <1>2, <2>4, <2>5 DEF MemberTypes, AllCalls
  <2>7. AuthorsThere'
    BY <1>1, <1>2, <1>6, <2>3, <2>4 DEF AuthorsThere
  <2>8. UnderLock'
    <3> SUFFICES ASSUME NEW d \in Requests, call'[d].pc = "accepted"
                 PROVE  orgLock' = d /\ invite'[call'[d].i].there /\ invite'[call'[d].i].state = "pending"
      BY DEF UnderLock
    <3>1. call'[d] = call[d]
      BY <2>5, RestIsCall
    <3>2. call[d].i \in Ids /\ call[d].i # i
      BY <1>1, <1>4, <3>1, NotAtRest DEF Accepting
    <3> QED BY <1>1, <1>2, <2>4, <3>1, <3>2 DEF UnderLock
  <2>9. TakenOnce'
    BY <1>1, <1>2, <2>3, <2>4 DEF TakenOnce, O!NoInvite
  <2> QED BY <2>4, <2>6, <2>7, <2>8, <2>9 DEF MembersInv
<1> QED BY <1>5, <1>6

LEMMA JoinedIsRow ==
    ASSUME NEW role \in O!Roles
    PROVE  /\ O!Joined(role) \in O!MemberRow /\ O!Joined(role).there
           /\ O!Joined(role).active /\ O!Joined(role).role = role
  BY DEF O!Joined, O!MemberRow

LEMMA AcceptCommitKeeps ==
    ASSUME MembersInv, NEW c \in Requests, O!AcceptCommit(c)
    PROVE  MembersInv'
<1>1. MemberTypes /\ OneOpen /\ AuthorsThere /\ UnderLock /\ TakenOnce
  BY DEF MembersInv
<1> DEFINE i == call[c].i
<1>2. /\ call[c].pc = "accepted" /\ call' = [call EXCEPT ![c] = O!AtRest]
      /\ member' = [member EXCEPT ![invite[i].to] = O!Joined(invite[i].role)]
      /\ taken' = [taken EXCEPT ![i] = @ + 1] /\ UNCHANGED report
  BY DEF O!AcceptCommit, O!Leaves
<1>3. i \in Ids /\ invite[i].there /\ invite[i].state = "pending" /\ orgLock = c
  BY <1>1, <1>2, NotAtRest DEF Accepting, UnderLock
<1> DEFINE z == [invite[i] EXCEPT !.state = "accepted", !.open = FALSE]
<1>4. invite[i] \in O!InviteRow
  BY <1>1, <1>3, RowsThere DEF MemberTypes
<1>5. invite' = [invite EXCEPT ![i] = z]
  BY DEF O!AcceptCommit
<1>6. /\ z \in O!InviteRow /\ z.there /\ z.by = invite[i].by /\ z.to = invite[i].to
      /\ z.open = FALSE /\ z.state = "accepted"
  BY <1>4 DEF O!InviteRow
<1>7. invite[i].to \in People /\ invite[i].role \in O!Roles
  BY <1>4 DEF O!InviteRow
<1> HIDE DEF z, i
<1>8. /\ invite' \in Invitations /\ OneOpen'
      /\ invite'[i] = z /\ \A j \in Ids : j # i => invite'[j] = invite[j]
  BY <1>3, <1>5, <1>6, InviteWritten
<1>9. call' \in [Requests -> AllCalls] /\ \A d \in Requests : call'[d] = IF d = c THEN O!AtRest ELSE call[d]
  BY <1>1, <1>2, RestIsCall, CallSet
<1>10. member' \in Members /\ \A p \in People : member[p].there => member'[p].there
  BY <1>1, <1>2, <1>7, JoinedIsRow DEF MemberTypes, Members
<1>11. taken[i] = 0 /\ taken' \in [Ids -> Nat] /\ taken'[i] = 1 /\ \A j \in Ids : j # i => taken'[j] = taken[j]
  BY <1>1, <1>2, <1>3 DEF MemberTypes, TakenOnce
<1>12. MemberTypes'
  BY <1>1, <1>2, <1>8, <1>9, <1>10, <1>11 DEF MemberTypes, AllCalls
<1>13. AuthorsThere'
  <2>1. \A j \in Ids : invite'[j].there => invite[j].there /\ invite'[j].by = invite[j].by
    BY <1>3, <1>6, <1>8
  <2>2. \A j \in Ids : invite[j].there => invite[j].by \in People
    BY <1>1, RowsThere DEF MemberTypes, O!InviteRow
  <2>3. \A p \in People : report[p] # O!Nobody => report[p] \in People
    BY <1>1 DEF MemberTypes
  <2> QED BY <1>1, <1>2, <1>10, <2>1, <2>2, <2>3 DEF AuthorsThere
<1>14. UnderLock'
  <2>1. \A d \in Requests : call'[d].pc # "accepted"
    BY <1>1, <1>3, <1>9, RestIsCall DEF UnderLock
  <2> QED BY <2>1 DEF UnderLock
<1>15. TakenOnce'
  BY <1>1, <1>6, <1>8, <1>11 DEF TakenOnce, O!NoInvite
<1> QED BY <1>8, <1>12, <1>13, <1>14, <1>15 DEF MembersInv

\* A step that removes no account keeps the authors.
LEMMA NoneRemoved ==
    ASSUME MembersInv, \A p \in People : member[p].there => member'[p].there, UNCHANGED <<invite, report>>
    PROVE  AuthorsThere'
<1>1. \A j \in Ids : invite[j].there => invite[j].by \in People
  BY RowsThere DEF MembersInv, MemberTypes, O!InviteRow
<1>2. \A p \in People : report[p] # O!Nobody => report[p] \in People
  BY DEF MembersInv, MemberTypes
<1> QED BY <1>1, <1>2 DEF MembersInv, AuthorsThere

LEMMA WrittenRow ==
    ASSUME NEW now \in O!MemberRow, NEW q \in Changing
    PROVE  O!Written(now, q) \in O!MemberRow
  BY DEF O!Written, O!MemberRow, Changing

LEMMA CommitChangeKeeps ==
    ASSUME MembersInv, NEW c \in Requests, O!CommitChange(c)
    PROVE  MembersInv'
<1>1. MemberTypes /\ OneOpen /\ AuthorsThere /\ UnderLock /\ TakenOnce
  BY DEF MembersInv
<1>2. /\ call[c].pc = "changes" /\ call' = [call EXCEPT ![c] = O!AtRest]
      /\ UNCHANGED <<invite, report, orgLock, taken>>
  BY DEF O!CommitChange, O!Leaves
<1>3. CASE member' = member
  BY <1>2, <1>3, RestIsCall, CallOnly
<1>4. CASE member[call[c].p].there /\ member' = [member EXCEPT ![call[c].p] = O!Written(@, call[c])]
  <2>1. call[c] \in Changing /\ call[c].p \in People
    BY <1>1, <1>2, NotAtRest DEF Changing
  <2>2. member[call[c].p] \in O!MemberRow
    BY <1>1, <1>4, <2>1, RowsThere DEF MemberTypes
  <2>3. O!Written(member[call[c].p], call[c]) \in O!MemberRow
    BY <2>1, <2>2, WrittenRow
  <2>4. member' \in Members /\ \A p \in People : member[p].there => member'[p].there
    BY <1>1, <1>4, <2>1, <2>3 DEF MemberTypes, Members, O!MemberRow
  <2>5. AuthorsThere'
    BY <1>2, <2>4, NoneRemoved
  <2>6. call' \in [Requests -> AllCalls] /\ \A d \in Requests : call'[d] = IF d = c THEN O!AtRest ELSE call[d]
    BY <1>1, <1>2, RestIsCall, CallSet
  <2>7. MemberTypes'
    BY <1>1, <1>2, <2>4, <2>6 DEF MemberTypes, AllCalls
  <2>8. UnderLock'
    <3> SUFFICES ASSUME NEW d \in Requests, call'[d].pc = "accepted"
                 PROVE  orgLock' = d /\ invite'[call'[d].i].there /\ invite'[call'[d].i].state = "pending"
      BY DEF UnderLock
    <3>1. call'[d] = call[d]
      BY <2>6, RestIsCall
    <3> QED BY <1>1, <1>2, <3>1 DEF UnderLock
  <2>9. OneOpen' /\ TakenOnce'
    BY <1>1, <1>2 DEF OneOpen, TakenOnce, O!Open
  <2> QED BY <2>5, <2>7, <2>8, <2>9 DEF MembersInv
<1> QED BY <1>3, <1>4 DEF O!CommitChange

LEMMA PromoteKeeps ==
    ASSUME MembersInv, NEW p \in People, O!PromoteSuperadmin(p)
    PROVE  MembersInv'
<1>1. MemberTypes /\ OneOpen /\ AuthorsThere /\ UnderLock /\ TakenOnce
  BY DEF MembersInv
<1>2. UNCHANGED <<invite, report, orgLock, call, taken>> /\ member[p].there
  BY DEF O!PromoteSuperadmin, O!Active
<1>3. member[p] \in O!MemberRow
  BY <1>1, <1>2, RowsThere DEF MemberTypes
<1>4. [member[p] EXCEPT !.super = TRUE] \in O!MemberRow
  BY <1>3 DEF O!MemberRow
<1>5. member' = [member EXCEPT ![p] = [member[p] EXCEPT !.super = TRUE]]
  BY DEF O!PromoteSuperadmin
<1>6. member' \in Members /\ \A q \in People : member[q].there => member'[q].there
  BY <1>1, <1>2, <1>4, <1>5 DEF MemberTypes, Members, O!MemberRow
<1>7. AuthorsThere'
  BY <1>2, <1>6, NoneRemoved
<1>8. MemberTypes' /\ OneOpen' /\ UnderLock' /\ TakenOnce'
  BY <1>1, <1>2, <1>6 DEF MemberTypes, OneOpen, UnderLock, TakenOnce, O!Open
<1> QED BY <1>7, <1>8 DEF MembersInv

LEMMA ShareKeeps ==
    ASSUME MembersInv, NEW p \in People, O!Share(p)
    PROVE  MembersInv'
<1>1. MemberTypes /\ OneOpen /\ AuthorsThere /\ UnderLock /\ TakenOnce
  BY DEF MembersInv
<1>2. /\ UNCHANGED <<member, invite, orgLock, call, taken>> /\ member[p].there
      /\ report' = [report EXCEPT ![p] = p]
  BY DEF O!Share, O!Active
<1>3. MemberTypes' /\ OneOpen' /\ UnderLock' /\ TakenOnce'
  BY <1>1, <1>2 DEF MemberTypes, OneOpen, UnderLock, TakenOnce, O!Open
<1>4. AuthorsThere'
  BY <1>1, <1>2 DEF AuthorsThere, MemberTypes
<1> QED BY <1>3, <1>4 DEF MembersInv

\* The acceptance under way keeps its invitation when those of another leave.
LEMMA LockKept ==
    ASSUME MembersInv, UNCHANGED <<orgLock, call>>,
           \A d \in Requests : call[d].pc = "accepted" => invite'[call[d].i] = invite[call[d].i]
    PROVE  UnderLock'
  BY DEF MembersInv, UnderLock

LEMMA DeleteKeeps ==
    ASSUME MembersInv, NEW p \in People, NEW heir, O!DeleteUser(p, heir)
    PROVE  MembersInv'
<1>1. MemberTypes /\ OneOpen /\ AuthorsThere /\ UnderLock /\ TakenOnce
  BY DEF MembersInv
<1>2. /\ heir \in O!HeirOf(p) /\ member' = [member EXCEPT ![p] = O!NoMember]
      /\ invite' = [j \in Ids |-> IF invite[j].there /\ invite[j].by = p THEN O!DeletedInvite ELSE invite[j]]
      /\ report' = [r \in People |-> IF report[r] = p THEN heir ELSE report[r]]
      /\ UNCHANGED <<orgLock, call, taken>>
  BY DEF O!DeleteUser
<1>3. heir = O!Nobody \/ (heir \in People /\ heir # p /\ member[heir].there)
  BY <1>2 DEF O!HeirOf, O!ActiveOwners, O!Active
<1>4. \A d \in Requests : call[d].pc = "accepted" => invite[call[d].i].by # p
  BY DEF O!DeleteUser, O!NoneAccepted
<1>5. O!DeletedInvite.there = FALSE /\ O!DeletedInvite # O!NoInvite
  BY DEF O!DeletedInvite, O!NoInvite
<1>6. \A j \in Ids : invite'[j].there => invite'[j] = invite[j] /\ invite[j].by # p
  BY <1>2, <1>5
<1>7. member' \in Members /\ invite' \in Invitations /\ report' \in [People -> People \cup {O!Nobody}]
  BY <1>1, <1>2, <1>3 DEF MemberTypes, Members, Invitations
<1>8. MemberTypes'
  BY <1>1, <1>2, <1>7 DEF MemberTypes
<1>9. OneOpen'
  <2>1. \A j \in O!Open(invite') : j \in O!Open(invite) /\ invite'[j] = invite[j]
    BY <1>6 DEF O!Open
  <2>2. \A j, k \in O!Open(invite') : invite'[j].to = invite'[k].to => j = k
    BY <1>1, <2>1 DEF OneOpen
  <2>3. \A j \in O!Open(invite') : invite'[j].state = "pending"
    BY <1>1, <2>1 DEF OneOpen
  <2> QED BY <2>2, <2>3 DEF OneOpen, O!Open
<1>10. AuthorsThere'
  <2>1. \A j \in Ids : invite[j].there => invite[j].by \in People
    BY <1>1, RowsThere DEF MemberTypes, O!InviteRow
  <2>2. \A q \in People : q # p /\ member[q].there => member'[q].there
    BY <1>1, <1>2 DEF MemberTypes, Members
  <2>3. \A j \in Ids : invite'[j].there => member'[invite'[j].by].there
    BY <1>1, <1>6, <2>1, <2>2 DEF AuthorsThere
  <2>4. ASSUME NEW r \in People, report'[r] # O!Nobody
        PROVE  member'[report'[r]].there
    <3>1. CASE report[r] = p
      BY <1>2, <1>3, <2>2, <2>4, <3>1
    <3>2. CASE report[r] # p
      <4>1. report'[r] = report[r] /\ report[r] \in People
        BY <1>1, <1>2, <2>4, <3>2 DEF MemberTypes
      <4> QED BY <1>1, <2>2, <2>4, <3>2, <4>1 DEF AuthorsThere
    <3> QED BY <3>1, <3>2
  <2> QED BY <2>3, <2>4 DEF AuthorsThere
<1>11. UnderLock'
  <2>1. \A d \in Requests : call[d].pc = "accepted" => call[d].i \in Ids
    BY <1>1, NotAtRest DEF Accepting
  <2>2. \A d \in Requests : call[d].pc = "accepted" => invite'[call[d].i] = invite[call[d].i]
    BY <1>2, <1>4, <2>1
  <2> QED BY <1>2, <2>2, LockKept
<1>12. TakenOnce'
  <2>1. \A j \in Ids : invite'[j] = invite[j] \/ (~ invite'[j].there /\ invite'[j] # O!NoInvite)
    BY <1>2, <1>5
  <2> QED BY <1>1, <1>2, <2>1 DEF TakenOnce
<1> QED BY <1>8, <1>9, <1>10, <1>11, <1>12 DEF MembersInv

LEMMA MergeKeeps ==
    ASSUME MembersInv, NEW s \in People, NEW t \in People, O!MergeUsers(s, t)
    PROVE  MembersInv'
<1>1. MemberTypes /\ OneOpen /\ AuthorsThere /\ UnderLock /\ TakenOnce
  BY DEF MembersInv
<1>2. /\ member' = [member EXCEPT ![s] = O!NoMember]
      /\ invite' = [j \in Ids |-> IF invite[j].there /\ invite[j].by = s
                                 THEN [invite[j] EXCEPT !.by = t] ELSE invite[j]]
      /\ report' = [r \in People |-> IF report[r] = s THEN t ELSE report[r]]
      /\ UNCHANGED <<orgLock, call, taken>> /\ s # t /\ member[t].there
  BY DEF O!MergeUsers, O!MayMerge
<1>3. \A d \in Requests : call[d].pc = "accepted" => invite[call[d].i].by # s
  BY DEF O!MergeUsers, O!NoneAccepted
<1>4. \A j \in Ids : invite[j].there => invite[j] \in O!InviteRow
  BY <1>1, RowsThere DEF MemberTypes
<1>5. ASSUME NEW j \in Ids, invite[j].there, invite[j].by = s
      PROVE  /\ invite'[j] \in O!InviteRow /\ invite'[j].there /\ invite'[j].by = t
             /\ invite'[j].to = invite[j].to /\ invite'[j].state = invite[j].state
             /\ invite'[j].open = invite[j].open
  <2>1. invite[j] \in O!InviteRow /\ invite'[j] = [invite[j] EXCEPT !.by = t]
    BY <1>2, <1>4, <1>5
  <2> QED BY <2>1 DEF O!InviteRow
<1>6. \A j \in Ids : \/ invite[j].there /\ invite[j].by = s
                     \/ invite'[j] = invite[j] /\ ~ (invite[j].there /\ invite[j].by = s)
  BY <1>2
<1>7. member' \in Members /\ report' \in [People -> People \cup {O!Nobody}]
  BY <1>1, <1>2 DEF MemberTypes, Members
<1>8. invite' \in Invitations
  <2>1. \A j \in Ids : invite'[j] \in O!InviteRow \cup {O!NoInvite, O!DeletedInvite}
    BY <1>1, <1>5, <1>6 DEF MemberTypes, Invitations
  <2>2. invite' = [j \in Ids |-> invite'[j]]
    BY <1>2
  <2> QED BY <2>1, <2>2 DEF Invitations
<1>9. MemberTypes'
  BY <1>1, <1>2, <1>7, <1>8 DEF MemberTypes
<1>10. OneOpen'
  <2>1. \A j \in O!Open(invite') : /\ j \in O!Open(invite) /\ invite'[j].to = invite[j].to
                                   /\ invite'[j].state = invite[j].state
    BY <1>5, <1>6 DEF O!Open
  <2>2. \A j, k \in O!Open(invite') : invite'[j].to = invite'[k].to => j = k
    BY <1>1, <2>1 DEF OneOpen
  <2>3. \A j \in O!Open(invite') : invite'[j].state = "pending"
    BY <1>1, <2>1 DEF OneOpen
  <2> QED BY <2>2, <2>3 DEF OneOpen, O!Open
<1>11. AuthorsThere'
  <2>1. \A q \in People : q # s /\ member[q].there => member'[q].there
    BY <1>1, <1>2 DEF MemberTypes, Members
  <2>2. ASSUME NEW j \in Ids, invite'[j].there
        PROVE  member'[invite'[j].by].there
    <3>1. CASE invite[j].there /\ invite[j].by = s
      BY <1>2, <1>5, <2>1, <3>1
    <3>2. CASE invite'[j] = invite[j] /\ ~ (invite[j].there /\ invite[j].by = s)
      BY <1>1, <1>4, <2>1, <2>2, <3>2 DEF AuthorsThere, O!InviteRow
    <3> QED BY <1>6, <3>1, <3>2
  <2>3. ASSUME NEW r \in People, report'[r] # O!Nobody
        PROVE  member'[report'[r]].there
    <3>1. CASE report[r] = s
      BY <1>2, <2>1, <3>1
    <3>2. CASE report[r] # s
      <4>1. report'[r] = report[r] /\ report[r] \in People
        BY <1>1, <1>2, <2>3, <3>2 DEF MemberTypes
      <4> QED BY <1>1, <2>1, <2>3, <3>2, <4>1 DEF AuthorsThere
    <3> QED BY <3>1, <3>2
  <2> QED BY <2>2, <2>3 DEF AuthorsThere
<1>12. UnderLock'
  <2>1. \A d \in Requests : call[d].pc = "accepted" => call[d].i \in Ids
    BY <1>1, NotAtRest DEF Accepting
  <2>2. \A d \in Requests : call[d].pc = "accepted" => invite'[call[d].i] = invite[call[d].i]
    BY <1>2, <1>3, <2>1
  <2> QED BY <1>2, <2>2, LockKept
<1>13. TakenOnce'
  <2>1. O!NoInvite.there = FALSE
    BY DEF O!NoInvite
  <2> QED BY <1>1, <1>2, <1>5, <1>6, <2>1 DEF TakenOnce
<1> QED BY <1>9, <1>10, <1>11, <1>12, <1>13 DEF MembersInv

LEMMA MembersStep ==
    ASSUME MembersInv, O!OrgNext
    PROVE  MembersInv'
<1>1. ASSUME NEW c \in Requests, NEW by \in People, NEW p \in People, NEW role \in O!Roles,
             O!AskInvite(c, by, p, role)
      PROVE  MembersInv'
  BY <1>1, AskInviteKeeps
<1>2. ASSUME NEW c \in Requests, NEW i \in Ids,
             O!CreateInvitation(c, i) \/ O!AskRevoke(c, i) \/ O!AskAccept(c, i)
      PROVE  MembersInv'
  BY <1>2, CreateKeeps, AskRevokeKeeps, AskAcceptKeeps
<1>3. ASSUME NEW i \in Ids, O!Expire(i)
      PROVE  MembersInv'
  BY <1>3, ExpireKeeps
<1>4. ASSUME NEW c \in Requests,
             O!RevokeInvitation(c) \/ O!AcceptLocked(c) \/ O!AcceptCommit(c) \/ O!CommitChange(c)
      PROVE  MembersInv'
  BY <1>4, RevokeKeeps, AcceptLockedKeeps, AcceptCommitKeeps, CommitChangeKeeps
<1>5. ASSUME NEW c \in Requests, NEW by \in People, NEW p \in People, O!AskRemove(c, by, p)
      PROVE  MembersInv'
  BY <1>5, AskRemoveKeeps
<1>6. ASSUME NEW c \in Requests, NEW p \in People, NEW role \in O!Roles, NEW active \in BOOLEAN,
             O!AskChange(c, O!Nobody, p, role, active)
      PROVE  MembersInv'
  BY <1>6, AskChangeKeeps
<1>7. ASSUME NEW p \in People, NEW t \in People, O!DeleteUser(p, t) \/ O!MergeUsers(p, t)
      PROVE  MembersInv'
  BY <1>7, DeleteKeeps, MergeKeeps
<1>8. ASSUME NEW p \in People, O!DeleteUser(p, O!Nobody) \/ O!PromoteSuperadmin(p) \/ O!Share(p)
      PROVE  MembersInv'
  BY <1>8, DeleteKeeps, PromoteKeeps, ShareKeeps
<1> QED BY <1>1, <1>2, <1>3, <1>4, <1>5, <1>6, <1>7, <1>8 DEF O!OrgNext

-----------------------------------------------------------------------------
(* An owner remains, when requests do not overlap: a change is committed on   *)
(* the members it was checked against.                                        *)

LEMMA TwoOwners ==
    ASSUME NEW m, NEW p, p \in O!ActiveOwners(m), O!NotLastOwner(m, p)
    PROVE  O!ActiveOwners(m) \ {p} # {}
<1> SUFFICES ASSUME O!ActiveOwners(m) \ {p} = {}
             PROVE  FALSE
  OBVIOUS
<1>1. O!ActiveOwners(m) = {p}
  OBVIOUS
<1>2. O!Cardinality({p}) = Cardinality({p})
  BY DEF O!Cardinality, Cardinality, O!IsFiniteSet, IsFiniteSet
<1>3. Cardinality({p}) = 1
  BY FS_Singleton
<1>4. O!Cardinality({p}) > 1
  BY <1>1 DEF O!NotLastOwner
<1> QED BY <1>2, <1>3, <1>4

\* Whoever owned and was not written still owns.
LEMMA OwnersElse ==
    ASSUME member \in Members, NEW p \in People, NEW z, member' = [member EXCEPT ![p] = z]
    PROVE  /\ O!ActiveOwners(member) \ {p} \subseteq O!ActiveOwners(member')
           /\ z.there /\ z.active /\ z.role = "owner" => p \in O!ActiveOwners(member')
  BY DEF Members, O!ActiveOwners, O!Active

\* A request that enters: when requests do not overlap it is alone, and it read
\* the members as they are.
LEMMA EntersAsRead ==
    ASSUME MembersInv, AsRead, NEW c \in Requests, NEW q \in AllCalls, O!Enters(c, q),
           UNCHANGED <<member, invite, single>>,
           q.pc \in {"accepts"} => q.m = member, q.pc # "accepted",
           q.pc = "changes" => /\ member[q.p] = q.row
                               /\ q.p \in O!ActiveOwners(member) /\ (q.role # "owner" \/ ~ q.active)
                                     => O!ActiveOwners(member) \ {q.p} # {}
    PROVE  AsRead'
<1> SUFFICES ASSUME single
             PROVE  AsRead'
  BY DEF AsRead
<1>1. \A d \in Requests : call[d] = O!AtRest
  BY DEF O!Enters, O!Alone
<1>2. call'[c] = q /\ \A d \in Requests : d # c => call'[d] = call[d]
  BY CallSet DEF MembersInv, O!Enters
<1>3. \A d \in Requests : d # c => call'[d] = O!AtRest /\ call'[d].pc = "rest"
  BY <1>1, <1>2, RestIsCall
<1> QED BY <1>2, <1>3 DEF AsRead

\* A request that leaves, when no other is under way.
LEMMA LeavesAsRead ==
    ASSUME MembersInv, AsRead, NEW c \in Requests, call[c] # O!AtRest, O!Leaves(c), UNCHANGED single
    PROVE  AsRead'
<1> SUFFICES ASSUME single
             PROVE  AsRead'
  BY DEF AsRead
<1>1. \A d \in Requests : d # c => call[d] = O!AtRest
  BY DEF AsRead
<1>2. call'[c] = O!AtRest /\ \A d \in Requests : d # c => call'[d] = call[d]
  BY CallSet, RestIsCall DEF MembersInv, O!Leaves
<1>3. \A d \in Requests : call'[d] = O!AtRest /\ call'[d].pc = "rest"
  BY <1>1, <1>2, RestIsCall
<1> QED BY <1>3 DEF AsRead

\* Nobody is under way, or the change was made by nobody who waits.
LEMMA AloneAsRead ==
    ASSUME MembersInv, O!Alone, UNCHANGED <<call, single>>
    PROVE  AsRead'
<1> SUFFICES ASSUME single
             PROVE  AsRead'
  BY DEF AsRead
<1>1. \A d \in Requests : call'[d] = O!AtRest /\ call'[d].pc = "rest"
  BY RestIsCall DEF O!Alone
<1> QED BY <1>1 DEF AsRead

LEMMA EnterKeepsOwner ==
    ASSUME OwnersInv, NEW c \in Requests, NEW q \in AllCalls, O!Enters(c, q),
           UNCHANGED <<member, invite, single>>,
           q.pc \in {"accepts"} => q.m = member, q.pc # "accepted",
           q.pc = "changes" => /\ member[q.p] = q.row
                               /\ q.p \in O!ActiveOwners(member) /\ (q.role # "owner" \/ ~ q.active)
                                     => O!ActiveOwners(member) \ {q.p} # {}
    PROVE  AsRead' /\ O!OwnerRemains'
<1>1. AsRead'
  BY EntersAsRead DEF OwnersInv
<1>2. O!OwnerRemains'
  BY DEF OwnersInv, O!OwnerRemains
<1> QED BY <1>1, <1>2

LEMMA AskChangeOwners ==
    ASSUME OwnersInv, NEW c \in Requests, NEW by, NEW p \in People, NEW role \in O!Roles,
           NEW active \in BOOLEAN, O!AskChange(c, by, p, role, active)
    PROVE  AsRead' /\ O!OwnerRemains'
<1> DEFINE q == [pc |-> "changes", p |-> p, row |-> member[p], role |-> role, active |-> active]
<1>1. member \in Members /\ Invitations # {}
  BY DEF OwnersInv, MembersInv, MemberTypes
<1>2. member[p] \in O!MemberRow
  BY <1>1, RowsThere DEF O!AskChange
<1>3. /\ q \in AllCalls /\ q.pc = "changes" /\ q.p = p /\ q.row = member[p]
      /\ q.role = role /\ q.active = active
  BY <1>2 DEF AllCalls, Changing
<1>4. p \in O!ActiveOwners(member) /\ (role # "owner" \/ ~ active) => O!ActiveOwners(member) \ {p} # {}
  BY TwoOwners DEF O!AskChange, O!ActiveOwners, O!Active
<1>5. O!Enters(c, q) /\ UNCHANGED <<member, invite, single>>
  BY DEF O!AskChange
<1> HIDE DEF q
<1> QED BY <1>3, <1>4, <1>5, EnterKeepsOwner

LEMMA AskOwners ==
    ASSUME OwnersInv, NEW c \in Requests,
           \/ \E by, p \in People, role \in O!Roles : O!AskInvite(c, by, p, role)
           \/ \E i \in Ids : O!AskRevoke(c, i) \/ O!AskAccept(c, i)
           \/ \E by, p \in People : O!AskRemove(c, by, p)
           \/ \E p \in People, role \in O!Roles, active \in BOOLEAN : O!AskChange(c, O!Nobody, p, role, active)
    PROVE  AsRead' /\ O!OwnerRemains'
<1>1. ASSUME NEW by \in People, NEW p \in People, NEW role \in O!Roles, O!AskInvite(c, by, p, role)
      PROVE  AsRead' /\ O!OwnerRemains'
  <2> DEFINE q == [pc |-> "invites", by |-> by, to |-> p, role |-> role, m |-> member, v |-> invite]
  <2>1. q \in AllCalls /\ q.pc = "invites"
    BY DEF OwnersInv, MembersInv, MemberTypes, AllCalls, Inviting
  <2>2. O!Enters(c, q) /\ UNCHANGED <<member, invite, single>>
    BY <1>1 DEF O!AskInvite
  <2> HIDE DEF q
  <2> QED BY <2>1, <2>2, EnterKeepsOwner
<1>2. ASSUME NEW i \in Ids, O!AskRevoke(c, i)
      PROVE  AsRead' /\ O!OwnerRemains'
  <2> DEFINE q == [pc |-> "revokes", i |-> i]
  <2>1. q \in AllCalls /\ q.pc = "revokes"
    BY DEF AllCalls, Revoking
  <2>2. O!Enters(c, q) /\ UNCHANGED <<member, invite, single>>
    BY <1>2 DEF O!AskRevoke
  <2> HIDE DEF q
  <2> QED BY <2>1, <2>2, EnterKeepsOwner
<1>3. ASSUME NEW i \in Ids, O!AskAccept(c, i)
      PROVE  AsRead' /\ O!OwnerRemains'
  <2> DEFINE q == [pc |-> "accepts", i |-> i, m |-> member, v |-> invite]
  <2>1. q \in AllCalls /\ q.pc = "accepts" /\ q.m = member
    BY DEF OwnersInv, MembersInv, MemberTypes, AllCalls, Accepting
  <2>2. O!Enters(c, q) /\ UNCHANGED <<member, invite, single>>
    BY <1>3 DEF O!AskAccept
  <2> HIDE DEF q
  <2> QED BY <2>1, <2>2, EnterKeepsOwner
<1>4. ASSUME NEW by \in People, NEW p \in People, O!AskRemove(c, by, p)
      PROVE  AsRead' /\ O!OwnerRemains'
  <2>1. member \in Members /\ Invitations # {}
    BY DEF OwnersInv, MembersInv, MemberTypes
  <2>2. member[p].role \in O!Roles
    BY <1>4, <2>1, RowsThere DEF O!AskRemove, O!MemberRow
  <2>3. O!AskChange(c, by, p, member[p].role, FALSE)
    BY <1>4 DEF O!AskRemove
  <2> QED BY <2>2, <2>3, AskChangeOwners
<1>5. ASSUME NEW p \in People, NEW role \in O!Roles, NEW active \in BOOLEAN,
             O!AskChange(c, O!Nobody, p, role, active)
      PROVE  AsRead' /\ O!OwnerRemains'
  BY <1>5, AskChangeOwners
<1> QED BY <1>1, <1>2, <1>3, <1>4, <1>5

LEMMA NotAtRestOnce ==
    ASSUME OwnersInv, NEW c \in Requests, call[c].pc \in {"invites", "revokes", "accepts", "accepted", "changes"},
           O!Leaves(c), UNCHANGED single
    PROVE  AsRead'
  BY NotAtRest, LeavesAsRead DEF OwnersInv, MembersInv

\* The acceptance that takes the lock was checked against the members as they are.
LEMMA AcceptLockedOwners ==
    ASSUME OwnersInv, NEW c \in Requests, O!AcceptLocked(c)
    PROVE  AsRead' /\ O!OwnerRemains'
<1>1. MemberTypes /\ AsRead /\ O!OwnerRemains
  BY DEF OwnersInv, MembersInv
<1>2. call[c].pc = "accepts" /\ UNCHANGED <<member, invite, single>>
  BY DEF O!AcceptLocked
<1>3. O!OwnerRemains'
  BY <1>1, <1>2 DEF O!OwnerRemains
<1>4. CASE O!Leaves(c)
  BY <1>2, <1>3, <1>4, NotAtRestOnce
<1>5. CASE /\ call' = [call EXCEPT ![c].pc = "accepted"]
           /\ O!MayJoin(call[c].m, invite[call[c].i].to)
  <2> SUFFICES ASSUME single
               PROVE  AsRead'
    BY <1>2, <1>3 DEF AsRead
  <2> DEFINE q == [call[c] EXCEPT !.pc = "accepted"]
  <2>1. call[c] \in Accepting /\ call[c] # O!AtRest
    BY <1>1, <1>2, NotAtRest
  <2>2. q \in AllCalls /\ q.pc = "accepted" /\ q.i = call[c].i /\ q.m = call[c].m
    BY <2>1 DEF AllCalls, Accepting
  <2>3. call' = [call EXCEPT ![c] = q]
    BY <1>5
  <2> HIDE DEF q
  <2>4. call'[c] = q /\ \A d \in Requests : d # c => call'[d] = call[d]
    BY <1>1, <2>2, <2>3, CallSet
  <2>5. call[c].m = member
    BY <1>1, <1>2 DEF AsRead
  <2>6. \A d \in Requests : d # c => call'[d] = O!AtRest /\ call'[d].pc = "rest"
    BY <1>1, <2>1, <2>4, RestIsCall DEF AsRead
  <2>7. \A d, e \in Requests : call'[d] # O!AtRest /\ call'[e] # O!AtRest => d = e
    BY <2>6
  <2>8. \A d \in Requests : call'[d].pc \in {"accepts", "accepted"} => d = c
    BY <2>6
  <2>9. q.m = member' /\ O!MayJoin(member, invite'[q.i].to)
    BY <1>2, <1>5, <2>2, <2>5
  <2>10. \A d \in Requests : call'[d].pc # "changes"
    BY <2>2, <2>4, <2>6
  <2>11. \A d \in Requests : call'[d].pc = "accepted" => O!MayJoin(member', invite'[call'[d].i].to)
    BY <1>2, <2>4, <2>8, <2>9
  <2> QED BY <2>4, <2>7, <2>8, <2>9, <2>10, <2>11 DEF AsRead, O!MayJoin
<1> QED BY <1>4, <1>5 DEF O!AcceptLocked

\* Who joins was not an active owner.
LEMMA AcceptCommitOwners ==
    ASSUME OwnersInv, NEW c \in Requests, O!AcceptCommit(c)
    PROVE  AsRead' /\ O!OwnerRemains'
<1>1. MemberTypes /\ AsRead /\ O!OwnerRemains /\ UnderLock
  BY DEF OwnersInv, MembersInv
<1> DEFINE i == call[c].i
           p == invite[i].to
<1>2. /\ call[c].pc = "accepted" /\ O!Leaves(c) /\ UNCHANGED single
      /\ member' = [member EXCEPT ![p] = O!Joined(invite[i].role)]
  BY DEF O!AcceptCommit
<1>3. AsRead'
  BY <1>2, NotAtRestOnce
<1>4. i \in Ids /\ invite[i].there
  BY <1>1, <1>2, NotAtRest DEF Accepting, UnderLock
<1>5. p \in People
  BY <1>1, <1>4, RowsThere DEF MemberTypes, O!InviteRow
<1>6. single => O!MayJoin(member, p)
  BY <1>1, <1>2 DEF AsRead
<1> HIDE DEF p, i
<1>7. O!ActiveOwners(member) \ {p} \subseteq O!ActiveOwners(member')
  BY <1>1, <1>2, <1>5, OwnersElse DEF MemberTypes
<1>8. single => p \notin O!ActiveOwners(member)
  BY <1>6 DEF O!MayJoin, O!ActiveOwners, O!Active
<1>9. single => O!ActiveOwners(member') # {}
  BY <1>1, <1>7, <1>8 DEF O!OwnerRemains
<1>10. O!OwnerRemains'
  BY <1>2, <1>9 DEF O!OwnerRemains, O!ActiveOwners, O!Active
<1> QED BY <1>3, <1>10

\* What is written is what was asked, when the row is as it was read.
LEMMA WrittenAsAsked ==
    ASSUME NEW q \in Changing
    PROVE  /\ O!Written(q.row, q).there /\ O!Written(q.row, q).role = q.role
           /\ O!Written(q.row, q).active = q.active
  BY DEF O!Written, O!MemberRow, Changing

LEMMA CommitChangeOwners ==
    ASSUME OwnersInv, NEW c \in Requests, O!CommitChange(c)
    PROVE  AsRead' /\ O!OwnerRemains'
<1>1. MemberTypes /\ AsRead /\ O!OwnerRemains
  BY DEF OwnersInv, MembersInv
<1> DEFINE q == call[c]
<1>2. q.pc = "changes" /\ O!Leaves(c) /\ UNCHANGED single
  BY DEF O!CommitChange
<1>3. AsRead'
  BY <1>2, NotAtRestOnce
<1>4. q \in Changing /\ q.p \in People
  BY <1>1, <1>2, NotAtRest DEF Changing
<1>5. CASE member' = member
  <2>1. O!OwnerRemains'
    BY <1>1, <1>2, <1>5 DEF O!OwnerRemains
  <2> QED BY <1>3, <2>1
<1>6. CASE member' = [member EXCEPT ![q.p] = O!Written(@, q)]
  <2>1. member' = [member EXCEPT ![q.p] = O!Written(member[q.p], q)]
    BY <1>6
  <2>2. single => /\ member[q.p] = q.row
                  /\ q.p \in O!ActiveOwners(member) /\ (q.role # "owner" \/ ~ q.active)
                        => O!ActiveOwners(member) \ {q.p} # {}
    BY <1>1, <1>2 DEF AsRead
  <2>3. q.role \in O!Roles /\ q.active \in BOOLEAN
    BY <1>4 DEF Changing
  <2>4. /\ O!ActiveOwners(member) \ {q.p} \subseteq O!ActiveOwners(member')
        /\ O!Written(member[q.p], q).there /\ O!Written(member[q.p], q).active
              /\ O!Written(member[q.p], q).role = "owner" => q.p \in O!ActiveOwners(member')
    BY <1>1, <1>4, <2>1, OwnersElse DEF MemberTypes
  <2>5. single => /\ O!Written(member[q.p], q).there /\ O!Written(member[q.p], q).role = q.role
                  /\ O!Written(member[q.p], q).active = q.active
    BY <1>4, <2>2, WrittenAsAsked
  <2> HIDE DEF q
  <2>6. single => O!ActiveOwners(member') # {}
    BY <1>1, <2>2, <2>4, <2>5 DEF O!OwnerRemains
  <2>7. O!OwnerRemains'
    BY <1>2, <2>6 DEF O!OwnerRemains, O!ActiveOwners, O!Active
  <2> QED BY <1>3, <2>7
<1> QED BY <1>5, <1>6 DEF O!CommitChange

\* An administrator's changes of who is there.
LEMMA AdminOwners ==
    ASSUME OwnersInv, NEW p \in People,
           \/ \E heir : O!DeleteUser(p, heir)
           \/ \E t \in People : O!MergeUsers(p, t)
           \/ O!PromoteSuperadmin(p)
           \/ O!Share(p)
    PROVE  AsRead' /\ O!OwnerRemains'
<1>1. MemberTypes /\ MembersInv /\ O!OwnerRemains /\ member \in Members
  BY DEF OwnersInv, MembersInv, MemberTypes
<1>2. O!Alone /\ UNCHANGED <<call, single>>
  BY DEF O!DeleteUser, O!MergeUsers, O!PromoteSuperadmin, O!Share
<1>3. AsRead'
  BY <1>1, <1>2, AloneAsRead
<1>4. CASE member' = member
  <2>1. O!OwnerRemains'
    BY <1>1, <1>2, <1>4 DEF O!OwnerRemains
  <2> QED BY <1>3, <2>1
<1>5. CASE /\ member' = [member EXCEPT ![p] = O!NoMember]
           /\ p \in O!ActiveOwners(member) => O!ActiveOwners(member) \ {p} # {}
  <2>1. O!ActiveOwners(member) \ {p} \subseteq O!ActiveOwners(member')
    BY <1>1, <1>5, OwnersElse
  <2>2. single => O!ActiveOwners(member') # {}
    BY <1>1, <1>5, <2>1 DEF O!OwnerRemains
  <2>3. O!OwnerRemains'
    BY <1>2, <2>2 DEF O!OwnerRemains, O!ActiveOwners, O!Active
  <2> QED BY <1>3, <2>3
<1>6. CASE O!PromoteSuperadmin(p)
  <2> DEFINE z == [member[p] EXCEPT !.super = TRUE]
  <2>1. member[p].there /\ member' = [member EXCEPT ![p] = z]
    BY <1>6 DEF O!PromoteSuperadmin, O!Active
  <2>2. member[p] \in O!MemberRow
    BY <1>1, <2>1, RowsThere DEF MemberTypes
  <2>3. z.there /\ z.active = member[p].active /\ z.role = member[p].role
    BY <2>2 DEF O!MemberRow
  <2> HIDE DEF z
  <2>4. /\ O!ActiveOwners(member) \ {p} \subseteq O!ActiveOwners(member')
        /\ z.there /\ z.active /\ z.role = "owner" => p \in O!ActiveOwners(member')
    BY <1>1, <2>1, OwnersElse
  <2>5. p \in O!ActiveOwners(member) => member[p].active /\ member[p].role = "owner"
    BY DEF O!ActiveOwners, O!Active
  <2>6. single => O!ActiveOwners(member') # {}
    BY <1>1, <2>3, <2>4, <2>5 DEF O!OwnerRemains
  <2>7. O!OwnerRemains'
    BY <1>2, <2>6 DEF O!OwnerRemains, O!ActiveOwners, O!Active
  <2> QED BY <1>3, <2>7
<1>7. ASSUME NEW heir, O!DeleteUser(p, heir)
      PROVE  /\ member' = [member EXCEPT ![p] = O!NoMember]
             /\ p \in O!ActiveOwners(member) => O!ActiveOwners(member) \ {p} # {}
  BY <1>7 DEF O!DeleteUser, O!MayDelete, O!ActiveOwners, O!Active
<1>8. ASSUME NEW t \in People, O!MergeUsers(p, t)
      PROVE  /\ member' = [member EXCEPT ![p] = O!NoMember]
             /\ p \in O!ActiveOwners(member) => O!ActiveOwners(member) \ {p} # {}
  BY <1>8 DEF O!MergeUsers, O!MayMerge, O!MergeKeepsOwner
<1>9. O!Share(p) => member' = member
  BY DEF O!Share
<1> QED BY <1>4, <1>5, <1>6, <1>7, <1>8, <1>9

LEMMA QuietOwners ==
    ASSUME OwnersInv, NEW i \in Ids,
           O!Expire(i) \/ \E c \in Requests : O!CreateInvitation(c, i) \/ O!RevokeInvitation(c)
    PROVE  AsRead' /\ O!OwnerRemains'
<1>1. MembersInv /\ MemberTypes /\ AsRead /\ O!OwnerRemains /\ UNCHANGED <<member, single>>
  BY DEF OwnersInv, MembersInv, O!Expire, O!CreateInvitation, O!RevokeInvitation
<1>2. O!OwnerRemains'
  BY <1>1 DEF O!OwnerRemains
<1>3. ASSUME NEW c \in Requests, O!CreateInvitation(c, i) \/ O!RevokeInvitation(c)
      PROVE  AsRead'
  BY <1>3, NotAtRestOnce DEF O!CreateInvitation, O!RevokeInvitation
<1>4. ASSUME O!Expire(i)
      PROVE  AsRead'
  <2>1. invite[i].there /\ invite' = [invite EXCEPT ![i].expired = TRUE] /\ UNCHANGED call
    BY <1>4 DEF O!Expire, O!Pending
  <2>2. invite[i] \in O!InviteRow
    BY <1>1, <2>1, RowsThere DEF MemberTypes
  <2>3. [invite[i] EXCEPT !.expired = TRUE].to = invite[i].to
    BY <2>2 DEF O!InviteRow
  <2>4. \A j \in Ids : invite'[j].to = invite[j].to
    BY <1>1, <2>1, <2>3 DEF MemberTypes, Invitations
  <2>5. \A d \in Requests : call[d].pc = "accepted" => call[d].i \in Ids
    BY <1>1, NotAtRest DEF Accepting
  <2> QED BY <1>1, <2>1, <2>4, <2>5 DEF AsRead, O!MayJoin, O!ActiveOwners, O!Active
<1> QED BY <1>2, <1>3, <1>4

LEMMA OwnersStep ==
    ASSUME OwnersInv, O!OrgNext
    PROVE  OwnersInv'
<1> DEFINE Kept == AsRead' /\ O!OwnerRemains'
<1>1. MembersInv'
  BY MembersStep DEF OwnersInv
<1>2. Kept
  <2> HIDE DEF Kept
  <2>1. ASSUME NEW c \in Requests, NEW by \in People, NEW p \in People, NEW role \in O!Roles,
               O!AskInvite(c, by, p, role)
        PROVE  Kept
    BY <2>1, AskOwners DEF Kept
  <2>2. ASSUME NEW c \in Requests, NEW i \in Ids,
               O!CreateInvitation(c, i) \/ O!AskRevoke(c, i) \/ O!AskAccept(c, i)
        PROVE  Kept
    BY <2>2, AskOwners, QuietOwners DEF Kept
  <2>3. ASSUME NEW i \in Ids, O!Expire(i)
        PROVE  Kept
    BY <2>3, QuietOwners DEF Kept
  <2>4. ASSUME NEW c \in Requests, O!RevokeInvitation(c)
        PROVE  Kept
    <3>1. call[c].i \in Ids
      BY <2>4, NotAtRest DEF OwnersInv, MembersInv, O!RevokeInvitation, Revoking
    <3> QED BY <2>4, <3>1, QuietOwners DEF Kept
  <2>5. ASSUME NEW c \in Requests, O!AcceptLocked(c) \/ O!AcceptCommit(c) \/ O!CommitChange(c)
        PROVE  Kept
    BY <2>5, AcceptLockedOwners, AcceptCommitOwners, CommitChangeOwners DEF Kept
  <2>6. ASSUME NEW c \in Requests, NEW by \in People, NEW p \in People, O!AskRemove(c, by, p)
        PROVE  Kept
    BY <2>6, AskOwners DEF Kept
  <2>7. ASSUME NEW c \in Requests, NEW p \in People, NEW role \in O!Roles, NEW active \in BOOLEAN,
               O!AskChange(c, O!Nobody, p, role, active)
        PROVE  Kept
    BY <2>7, AskOwners DEF Kept
  <2>8. ASSUME NEW p \in People, NEW t \in People, O!DeleteUser(p, t) \/ O!MergeUsers(p, t)
        PROVE  Kept
    BY <2>8, AdminOwners DEF Kept
  <2>9. ASSUME NEW p \in People, O!DeleteUser(p, O!Nobody) \/ O!PromoteSuperadmin(p) \/ O!Share(p)
        PROVE  Kept
    BY <2>9, AdminOwners DEF Kept
  <2> QED BY <2>1, <2>2, <2>3, <2>4, <2>5, <2>6, <2>7, <2>8, <2>9 DEF O!OrgNext
<1> QED BY <1>1, <1>2 DEF OwnersInv

LEMMA OwnersStart ==
    ASSUME O!OrgInit
    PROVE  OwnersInv
<1>1. PICK p \in People : member = [q \in People |-> IF q = p THEN O!Joined("owner") ELSE O!NoMember]
  BY DEF O!OrgInit
<1>2. /\ invite = [i \in Ids |-> O!NoInvite] /\ report = [q \in People |-> O!Nobody]
      /\ call = [c \in Requests |-> O!AtRest] /\ taken = [i \in Ids |-> 0]
  BY DEF O!OrgInit
<1>3. O!Joined("owner") \in O!MemberRow /\ O!Joined("owner").there /\ O!Joined("owner").active
      /\ O!Joined("owner").role = "owner"
  BY JoinedIsRow DEF O!Roles
<1>4. O!NoInvite.there = FALSE
  BY DEF O!NoInvite
<1>5. MemberTypes
  BY <1>1, <1>2, <1>3 DEF MemberTypes, Members, Invitations
<1>6. OneOpen /\ AuthorsThere /\ TakenOnce
  BY <1>2, <1>4 DEF OneOpen, AuthorsThere, TakenOnce, O!Open
<1>7. \A c \in Requests : call[c] = O!AtRest /\ call[c].pc = "rest"
  BY <1>2, RestIsCall
<1>8. UnderLock /\ AsRead
  BY <1>7 DEF UnderLock, AsRead
<1>9. p \in O!ActiveOwners(member)
  BY <1>1, <1>3 DEF O!ActiveOwners, O!Active
<1> QED BY <1>5, <1>6, <1>8, <1>9 DEF OwnersInv, MembersInv, O!OwnerRemains

\* An invitation admits one account, whatever requests overlap; at most one
\* invitation of a person is open, every author and owner exists, and an active
\* owner remains when requests do not overlap (invitation_service, org_members,
\* admin_users_service).
THEOREM MembersCorrect == Spec => []MembersSafe
<1> DEFINE Inv == focus = "members" => OwnersInv
<1>1. Init => Inv
  BY OwnersStart DEF Init
<1>2. Inv /\ [Next]_identityVars => Inv'
  <2> SUFFICES ASSUME Inv, [Next]_identityVars, focus' = "members"
               PROVE  OwnersInv'
    OBVIOUS
  <2>1. CASE MemberStep
    BY <2>1, OwnersStep DEF MemberStep
  <2>2. CASE UNCHANGED identityVars
    <3>1. focus = "members" /\ UNCHANGED orgVars
      BY <2>2 DEF identityVars
    <3>2. UNCHANGED <<member, invite, report, orgLock, call, single, taken>>
      BY <3>1 DEF orgVars
    <3>3. OwnersInv
      BY <3>1
    <3>4. MembersInv'
      BY <3>2, <3>3 DEF OwnersInv, MembersInv, MemberTypes, OneOpen, AuthorsThere, UnderLock,
                        TakenOnce, O!Open
    <3>5. AsRead'
      BY <3>2, <3>3 DEF OwnersInv, AsRead, O!MayJoin, O!ActiveOwners, O!Active
    <3>6. O!OwnerRemains'
      BY <3>2, <3>3 DEF OwnersInv, O!OwnerRemains
    <3> QED BY <3>4, <3>5, <3>6 DEF OwnersInv
  <2>3. CASE MfaStep \/ MailStep \/ SignInStep \/ GrantStep
    BY <2>3 DEF MfaStep, MailStep, SignInStep, GrantStep, GrantFoci, G!Next
  <2> QED BY <2>1, <2>2, <2>3 DEF Next
<1>3. Inv => MembersSafe
  <2>1. OwnersInv => O!MembersTypeOK
    BY DEF OwnersInv, MembersInv, MemberTypes, Members, Invitations, OneOpen, AuthorsThere, O!MembersTypeOK
  <2>2. OwnersInv => O!InviteTakenOnce /\ O!OwnerRemains
    BY DEF OwnersInv, MembersInv, TakenOnce, O!InviteTakenOnce
  <2> QED BY <2>1, <2>2 DEF MembersSafe
<1> QED BY <1>1, <1>2, <1>3, PTL DEF Spec

-----------------------------------------------------------------------------
(* Letters: what a request will write, it may write whatever was written since *)
(* it read.                                                                    *)

Person == People \ {Founder}
Letters ==
    [kind : {"verify", "signup", "reset"}, user : Ids \cup {E!Nobody}, to : Person, admin : BOOLEAN,
     at : Nat, n : 0..MaxNumber]
Accounts == E!AccountRow \cup {E!NoAccount}
Flushed == [pc : {"flushed"}, l : Letters, u : Ids]
Verifying == [pc : {"verifies"}, l : Letters, row : E!AccountRow]
Triggering == [pc : {"triggers"}, u : Ids, a : Person]
Altering == [pc : {"changes"}, u : Ids, who : Person, action : E!StepupActions, a : Person, row : E!AccountRow]
Resetting == [pc : {"resets"}, l : Letters]
Linking == [pc : {"links"}, u : Ids, a : Person, row : Accounts]
Serving == {E!Idle} \cup Flushed \cup Verifying \cup Triggering \cup Altering \cup Resetting \cup Linking

MailTypes ==
    /\ account \in [Ids -> Accounts]
    /\ letters \in SUBSET Letters
    /\ number \in 0..MaxNumber
    /\ spent \in SUBSET (1..number)
    /\ req \in [Requests -> Serving]
    /\ provers \in [Ids -> SUBSET Person]
    /\ uses \in [1..MaxNumber -> Nat]

\* Addresses are unique and proven; so is the password of a verified account.
EmailsApart ==
    \A u, v \in Ids : account[u].there /\ account[v].there /\ account[u].email = account[v].email => u = v
RowProven(u) ==
    account[u].there /\ account[u].verified =>
        /\ account[u].email \in provers[u]
        /\ account[u].by # E!Nobody => account[u].by \in provers[u]
LettersKnown ==
    \A l \in letters : IF l.kind = "signup" THEN l.user = E!Nobody
                       ELSE l.user \in Ids /\ account[l.user].there

\* A claimed letter is not used yet, and a row that is inserted stays free.
Unnamed(a) == \A u \in Ids : account[u].there => account[u].email # a
Claim(d) ==
    /\ req[d].pc \in {"flushed", "resets"} =>
          /\ req[d].l \in letters /\ req[d].l.n \in spent /\ uses[req[d].l.n] = 0
          /\ req[d].l.kind = IF req[d].pc = "flushed" THEN "signup" ELSE "reset"
    /\ req[d].pc = "flushed" => ~ account[req[d].u].there /\ Unnamed(req[d].l.to)
ClaimsApart ==
    \A c, d \in Requests : c # d =>
        /\ {req[c].pc, req[d].pc} \subseteq {"flushed", "resets"} => req[c].l.n # req[d].l.n
        /\ req[c].pc = "flushed" /\ req[d].pc = "flushed" =>
              req[c].u # req[d].u /\ req[c].l.to # req[d].l.to

\* What a request read of an account is still so, or has been proven since.
Reads(d) ==
    LET q == req[d] IN
    /\ q.pc = "verifies" =>
          /\ q.l \in letters /\ q.l.kind = "verify"
          /\ account[q.l.user].by \in {E!Nobody, q.l.to} \cup provers[q.l.user]
          /\ q.l.to = q.row.pending \/ account[q.l.user].email \in {q.l.to} \cup provers[q.l.user]
    /\ q.pc = "triggers" => account[q.u].there
    /\ q.pc = "changes" =>
          /\ account[q.u].there /\ q.who \in provers[q.u]
          /\ ~ E!PasswordSet(q.row) => q.row.proof # E!NoProof
    /\ q.pc = "links" /\ q.row.there =>
          account[q.u].there /\ account[q.u].email \in {q.a} \cup provers[q.u]

\* Letters and proofs have numbers of their own; a proof that is held is unused.
LetterNumbers ==
    \A l \in letters : l.kind # "verify" => l.n \in 1..number /\ (l.n \notin spent => uses[l.n] = 0)
UsesCounted == \A n \in 1..MaxNumber : uses[n] <= 1 /\ (n > number => uses[n] = 0)
ProofHeld(u) ==
    account[u].there /\ account[u].proof # E!NoProof =>
        /\ account[u].proof.n \in 1..number
        /\ uses[account[u].proof.n] = 0
        /\ \A l \in letters : l.kind # "verify" => l.n # account[u].proof.n
ProofsApart ==
    \A u, v \in Ids : /\ account[u].there /\ account[u].proof # E!NoProof
                      /\ account[v].there /\ account[v].proof # E!NoProof
                      /\ account[u].proof.n = account[v].proof.n
                      => u = v

MailRows == EmailsApart /\ LettersKnown /\ \A u \in Ids : RowProven(u)
MailRequests == ClaimsApart /\ \A d \in Requests : Claim(d) /\ Reads(d)
MailNumbers == LetterNumbers /\ UsesCounted /\ ProofsApart /\ \A u \in Ids : ProofHeld(u)
MailInv == MailTypes /\ MailRows /\ MailRequests /\ MailNumbers

\* A row that is there has its columns.
LEMMA RowOrNone ==
    ASSUME NEW z \in Accounts
    PROVE  IF z.there THEN z \in E!AccountRow ELSE z = E!NoAccount
<1>1. CASE z \in E!AccountRow
  BY <1>1 DEF E!AccountRow
<1>2. CASE z = E!NoAccount
  <2>1. z.there = FALSE
    BY <1>2 DEF E!NoAccount
  <2> QED BY <1>2, <2>1
<1> QED BY <1>1, <1>2 DEF Accounts

LEMMA RowColumns ==
    ASSUME MailTypes, NEW u \in Ids, account[u].there
    PROVE  /\ account[u] \in E!AccountRow /\ account[u].email \in Person
           /\ account[u].verified \in BOOLEAN /\ account[u].by \in Person \cup {E!Nobody}
<1>1. account[u] \in E!AccountRow
  BY RowOrNone DEF MailTypes
<1> QED BY <1>1 DEF E!AccountRow, Person

LEMMA Requested ==
    ASSUME MailTypes, NEW r \in Requests
    PROVE  /\ req[r].pc = "flushed" => req[r] \in Flushed
           /\ req[r].pc = "verifies" => req[r] \in Verifying
           /\ req[r].pc = "triggers" => req[r] \in Triggering
           /\ req[r].pc = "changes" => req[r] \in Altering
           /\ req[r].pc = "resets" => req[r] \in Resetting
           /\ req[r].pc = "links" => req[r] \in Linking
  BY DEF MailTypes, Serving, Flushed, Verifying, Triggering, Altering, Resetting, Linking, E!Idle

LEMMA IdleServes == E!Idle \in Serving /\ E!Idle.pc = "idle"
  BY DEF Serving, E!Idle

LEMMA SpentNumbers ==
    ASSUME MailTypes, NEW n \in spent
    PROVE  n \in 1..MaxNumber
<1>1. number \in 0..MaxNumber /\ n \in 1..number
  BY DEF MailTypes
<1>2. MaxNumber \in Nat
  BY IdentityAssumption DEF E!MailAssumption
<1> QED BY <1>1, <1>2

LEMMA ReqSet ==
    ASSUME MailTypes, NEW r \in Requests, NEW q \in Serving, req' = [req EXCEPT ![r] = q]
    PROVE  /\ req' \in [Requests -> Serving]
           /\ req'[r] = q
           /\ \A d \in Requests \ {r} : req'[d] = req[d]
  BY DEF MailTypes

LEMMA ProvedGrows ==
    ASSUME MailTypes, NEW u \in Ids, NEW who \in Person, E!Proved(u, who)
    PROVE  /\ provers' \in [Ids -> SUBSET Person] /\ who \in provers'[u]
           /\ \A v \in Ids : provers[v] \subseteq provers'[v]
<1>1. provers' = [provers EXCEPT ![u] = provers[u] \cup {who}]
  BY DEF E!Proved
<1>2. provers[u] \cup {who} \in SUBSET Person
  BY DEF MailTypes
<1> HIDE DEF MailTypes
<1>3. provers \in [Ids -> SUBSET Person]
  BY DEF MailTypes
<1> QED BY <1>1, <1>2, <1>3

\* What steps do to what was read: nothing is taken back, and a password or an
\* address that is new is nobody's or was proven.
Grows ==
    /\ letters \subseteq letters'
    /\ \A u \in Ids : /\ provers[u] \subseteq provers'[u]
                      /\ account[u].there => account'[u].there
Steady ==
    \A u \in Ids : account[u].there =>
        /\ account'[u].by \in {account[u].by, E!Nobody} \cup provers'[u]
        /\ account'[u].email \in {account[u].email} \cup provers'[u]
\* A row that is inserted elsewhere, or moves, is not that of the request.
Spares(d) ==
    \A v \in Ids : account'[v].there =>
        \/ account[v].there /\ account'[v].email = account[v].email
        \/ (account[v].there \/ v # req[d].u) /\ account'[v].email # req[d].l.to
\* A request that did nothing.
Stands(d) ==
    /\ req'[d] = req[d]
    /\ req[d].pc \in {"flushed", "resets"} => uses'[req[d].l.n] = uses[req[d].l.n]
    /\ req[d].pc = "flushed" => Spares(d)

LEMMA ReadsKept ==
    ASSUME MailInv, Grows, Steady, NEW d \in Requests, req'[d] = req[d]
    PROVE  Reads(d)'
<1>1. MailTypes /\ LettersKnown /\ Reads(d)
  BY DEF MailInv, MailRows, MailRequests
<1>2. CASE req[d].pc = "verifies"
  <2> DEFINE q == req[d]
  <2>1. q.l \in letters /\ q.l.kind = "verify" /\ q.l.user \in Ids /\ account[q.l.user].there
    BY <1>1, <1>2 DEF Reads, LettersKnown
  <2>2. /\ account[q.l.user].by \in {E!Nobody, q.l.to} \cup provers[q.l.user]
        /\ q.l.to = q.row.pending \/ account[q.l.user].email \in {q.l.to} \cup provers[q.l.user]
    BY <1>1, <1>2 DEF Reads
  <2>3. /\ account'[q.l.user].by \in {account[q.l.user].by, E!Nobody} \cup provers'[q.l.user]
        /\ account'[q.l.user].email \in {account[q.l.user].email} \cup provers'[q.l.user]
        /\ provers[q.l.user] \subseteq provers'[q.l.user] /\ q.l \in letters'
    BY <2>1 DEF Steady, Grows
  <2>4. req'[d] = q
    OBVIOUS
  <2> HIDE DEF q
  <2>5. /\ account'[q.l.user].by \in {E!Nobody, q.l.to} \cup provers'[q.l.user]
        /\ q.l.to = q.row.pending \/ account'[q.l.user].email \in {q.l.to} \cup provers'[q.l.user]
    BY <2>2, <2>3
  <2> QED BY <1>2, <2>1, <2>3, <2>4, <2>5 DEF Reads
<1>3. CASE req[d].pc = "triggers"
  <2>1. req[d].u \in Ids
    BY <1>1, <1>3, Requested DEF Triggering
  <2> QED BY <1>1, <1>3, <2>1 DEF Reads, Grows
<1>4. CASE req[d].pc = "changes"
  <2>1. req[d].u \in Ids
    BY <1>1, <1>4, Requested DEF Altering
  <2> QED BY <1>1, <1>4, <2>1 DEF Reads, Grows
<1>5. CASE req[d].pc = "links"
  <2>1. req[d].u \in Ids
    BY <1>1, <1>5, Requested DEF Linking
  <2> QED BY <1>1, <1>5, <2>1 DEF Reads, Grows, Steady
<1>6. CASE req[d].pc \notin {"verifies", "triggers", "changes", "links"}
  BY <1>6 DEF Reads
<1> QED BY <1>2, <1>3, <1>4, <1>5, <1>6

LEMMA ClaimKept ==
    ASSUME MailInv, Grows, spent \subseteq spent', NEW d \in Requests, Stands(d)
    PROVE  Claim(d)'
<1>1. MailTypes /\ Claim(d) /\ req'[d] = req[d]
  BY DEF MailInv, MailRequests, Stands
<1>2. CASE req[d].pc \in {"flushed", "resets"}
  <2>1. /\ req'[d].l \in letters' /\ req'[d].l.n \in spent' /\ uses'[req'[d].l.n] = 0
        /\ req'[d].l.kind = IF req'[d].pc = "flushed" THEN "signup" ELSE "reset"
    BY <1>1, <1>2 DEF Claim, Grows, Stands
  <2>2. CASE req[d].pc = "flushed"
    <3>1. Spares(d) /\ req[d].u \in Ids /\ ~ account[req[d].u].there /\ Unnamed(req[d].l.to)
      BY <1>1, <2>2, Requested DEF Stands, Claim, Flushed
    <3>2. ~ account'[req[d].u].there
      BY <3>1 DEF Spares
    <3>3. \A v \in Ids : account'[v].there => account'[v].email # req[d].l.to
      BY <3>1 DEF Spares, Unnamed
    <3> QED BY <1>1, <2>1, <3>2, <3>3 DEF Claim, Unnamed
  <2>3. CASE req[d].pc # "flushed"
    BY <1>1, <2>1, <2>3 DEF Claim
  <2> QED BY <2>2, <2>3
<1>3. CASE req[d].pc \notin {"flushed", "resets"}
  BY <1>1, <1>3 DEF Claim
<1> QED BY <1>2, <1>3

\* Those in D did nothing, and the others claim nothing.
LEMMA RequestsKept ==
    ASSUME MailInv, Grows, Steady, spent \subseteq spent', NEW D \in SUBSET Requests,
           \A d \in D : Stands(d),
           \A d \in Requests \ D : req'[d].pc \notin {"flushed", "resets"} /\ Reads(d)'
    PROVE  MailRequests'
<1>1. \A d \in D : req'[d] = req[d] /\ Reads(d)' /\ Claim(d)'
  BY ReadsKept, ClaimKept DEF Stands
<1>2. \A d \in Requests \ D : Claim(d)'
  BY DEF Claim
<1>3. ClaimsApart'
  <2>1. ClaimsApart
    BY DEF MailInv, MailRequests
  <2>2. ASSUME NEW c \in Requests, NEW d \in Requests, c # d
        PROVE  /\ {req'[c].pc, req'[d].pc} \subseteq {"flushed", "resets"} => req'[c].l.n # req'[d].l.n
               /\ req'[c].pc = "flushed" /\ req'[d].pc = "flushed" =>
                     req'[c].u # req'[d].u /\ req'[c].l.to # req'[d].l.to
    <3>1. CASE c \in D /\ d \in D
      BY <1>1, <2>1, <2>2, <3>1 DEF ClaimsApart
    <3>2. CASE c \notin D
      BY <3>2
    <3>3. CASE d \notin D
      BY <3>3
    <3> QED BY <3>1, <3>2, <3>3
  <2> QED BY <2>2 DEF ClaimsApart
<1> QED BY <1>1, <1>2, <1>3 DEF MailRequests

\* No other account has the address.
Elsewhere(u, a) == \A v \in Ids : account[v].there /\ account[v].email = a => v = u
\* New letters are about an account, or to sign up.
Addressed ==
    \A l \in letters' \ letters : IF l.kind = "signup" THEN l.user = E!Nobody
                                  ELSE l.user \in Ids /\ account'[l.user].there

\* One row is written.
LEMMA RowKept ==
    ASSUME MailInv, Grows, Addressed, NEW u \in Ids, NEW z, z.there,
           account' = [account EXCEPT ![u] = z], Elsewhere(u, z.email),
           z.verified => z.email \in provers'[u] /\ (z.by # E!Nobody => z.by \in provers'[u])
    PROVE  MailRows'
<1>1. MailTypes /\ EmailsApart /\ LettersKnown /\ \A v \in Ids : RowProven(v)
  BY DEF MailInv, MailRows
<1>2. account'[u] = z /\ \A v \in Ids : v # u => account'[v] = account[v]
  BY <1>1 DEF MailTypes
<1>3. EmailsApart'
  BY <1>1, <1>2 DEF EmailsApart, Elsewhere
<1>4. LettersKnown'
  BY <1>1 DEF LettersKnown, Addressed, Grows
<1>5. \A v \in Ids : RowProven(v)'
  BY <1>1, <1>2 DEF RowProven, Grows
<1> QED BY <1>3, <1>4, <1>5 DEF MailRows

\* No row is written.
LEMMA RowsStay ==
    ASSUME MailInv, Grows, Addressed, account' = account
    PROVE  MailRows' /\ Steady
<1>1. EmailsApart /\ LettersKnown /\ \A v \in Ids : RowProven(v)
  BY DEF MailInv, MailRows
<1>2. EmailsApart'
  BY <1>1 DEF EmailsApart
<1>3. LettersKnown'
  BY <1>1 DEF LettersKnown, Addressed, Grows
<1>4. \A v \in Ids : RowProven(v)'
  BY <1>1 DEF RowProven, Grows
<1> QED BY <1>2, <1>3, <1>4 DEF MailRows, Steady

\* Proofs that are held were held before.
ProofsStay ==
    \A u \in Ids : account'[u].there /\ account'[u].proof # E!NoProof =>
        account[u].there /\ account'[u].proof = account[u].proof

\* No number is given out or used.
LEMMA NumbersStay ==
    ASSUME MailInv, ProofsStay, UNCHANGED <<number, uses>>, spent \subseteq spent',
           \A l \in letters' \ letters : l.kind = "verify"
    PROVE  MailNumbers'
<1>1. MailTypes /\ LetterNumbers /\ UsesCounted /\ ProofsApart /\ \A u \in Ids : ProofHeld(u)
  BY DEF MailInv, MailNumbers
<1>2. LetterNumbers' /\ UsesCounted'
  BY <1>1 DEF LetterNumbers, UsesCounted
<1>3. ProofsApart'
  BY <1>1 DEF ProofsApart, ProofsStay
<1>4. \A u \in Ids : ProofHeld(u)'
  BY <1>1 DEF ProofHeld, ProofsStay
<1> QED BY <1>2, <1>3, <1>4 DEF MailNumbers

\* A number is given to a letter.
LEMMA NumbersLetter ==
    ASSUME MailInv, MailTypes', ProofsStay, number' = number + 1, UNCHANGED <<uses, spent>>,
           \A l \in letters' \ letters : l.kind = "verify" \/ l.n = number + 1
    PROVE  MailNumbers'
<1>1. MailTypes /\ LetterNumbers /\ UsesCounted /\ ProofsApart /\ \A u \in Ids : ProofHeld(u)
  BY DEF MailInv, MailNumbers
<1>2. number \in Nat /\ number + 1 \in 1..MaxNumber /\ uses[number + 1] = 0
  <2>1. number \in 0..MaxNumber /\ number + 1 \in 0..MaxNumber
    BY <1>1 DEF MailTypes
  <2>2. number \in Nat /\ number + 1 \in 1..MaxNumber
    BY <2>1, IdentityAssumption DEF E!MailAssumption
  <2> QED BY <1>1, <2>2 DEF UsesCounted
<1>3. LetterNumbers'
  <2>1. ASSUME NEW l \in letters', l.kind # "verify"
        PROVE  l.n \in 1..(number + 1) /\ (l.n \notin spent => uses[l.n] = 0)
    <3>1. CASE l \in letters
      BY <1>1, <1>2, <2>1, <3>1 DEF LetterNumbers
    <3>2. CASE l \notin letters
      BY <1>2, <2>1, <3>2
    <3> QED BY <3>1, <3>2
  <2> QED BY <2>1 DEF LetterNumbers
<1>4. UsesCounted'
  BY <1>1, <1>2, IdentityAssumption DEF UsesCounted, E!MailAssumption
<1>5. ProofsApart'
  BY <1>1 DEF ProofsApart, ProofsStay
<1>6. ASSUME NEW u \in Ids
      PROVE  ProofHeld(u)'
  <2> SUFFICES ASSUME account'[u].there /\ account'[u].proof # E!NoProof
               PROVE  /\ account'[u].proof.n \in 1..(number + 1)
                      /\ uses[account'[u].proof.n] = 0
                      /\ \A l \in letters' : l.kind # "verify" => l.n # account'[u].proof.n
    BY DEF ProofHeld
  <2> DEFINE n == account[u].proof.n
  <2>1. account'[u].proof.n = n /\ n \in 1..number /\ uses[n] = 0
    BY <1>1 DEF ProofHeld, ProofsStay
  <2>2. \A l \in letters : l.kind # "verify" => l.n # n
    BY <1>1 DEF ProofHeld, ProofsStay
  <2> HIDE DEF n
  <2> QED BY <1>2, <2>1, <2>2
<1> QED BY <1>3, <1>4, <1>5, <1>6 DEF MailNumbers

\* A number is used: that of a claimed letter, or of a proof that is spent.
LEMMA NumbersUsed ==
    ASSUME MailInv, ProofsStay, UNCHANGED <<number, spent>>,
           \A l \in letters' \ letters : l.kind = "verify",
           NEW n \in 1..number, E!Used(n), uses[n] = 0,
           \A l \in letters : l.kind # "verify" /\ l.n = n => n \in spent,
           \A u \in Ids : account'[u].there /\ account'[u].proof # E!NoProof => account'[u].proof.n # n
    PROVE  MailNumbers'
<1>1. MailTypes /\ LetterNumbers /\ UsesCounted /\ ProofsApart /\ \A u \in Ids : ProofHeld(u)
  BY DEF MailInv, MailNumbers
<1>2. 1..number \subseteq 1..MaxNumber
  BY <1>1, IdentityAssumption DEF MailTypes, E!MailAssumption
<1>3. uses'[n] = 1 /\ \A k \in 1..MaxNumber : k # n => uses'[k] = uses[k]
  BY <1>1, <1>2 DEF MailTypes, E!Used
<1>4. LetterNumbers'
  <2>1. ASSUME NEW l \in letters', l.kind # "verify"
        PROVE  l.n \in 1..number /\ (l.n \notin spent => uses'[l.n] = 0)
    BY <1>1, <1>2, <1>3, <2>1 DEF LetterNumbers
  <2> QED BY <2>1 DEF LetterNumbers
<1>5. UsesCounted'
  <2>1. ~ (n > number)
    BY <1>1, IdentityAssumption DEF MailTypes, E!MailAssumption
  <2> QED BY <1>1, <1>3, <2>1 DEF UsesCounted
<1>6. ProofsApart'
  BY <1>1 DEF ProofsApart, ProofsStay
<1>7. ASSUME NEW u \in Ids
      PROVE  ProofHeld(u)'
  <2> SUFFICES ASSUME account'[u].there /\ account'[u].proof # E!NoProof
               PROVE  /\ account'[u].proof.n \in 1..number
                      /\ uses'[account'[u].proof.n] = 0
                      /\ \A l \in letters' : l.kind # "verify" => l.n # account'[u].proof.n
    BY DEF ProofHeld
  <2> DEFINE k == account[u].proof.n
  <2>1. account'[u].proof.n = k /\ k \in 1..number /\ uses[k] = 0 /\ k # n
    BY <1>1 DEF ProofHeld, ProofsStay
  <2>2. \A l \in letters : l.kind # "verify" => l.n # k
    BY <1>1 DEF ProofHeld, ProofsStay
  <2> HIDE DEF k
  <2> QED BY <1>2, <1>3, <2>1, <2>2
<1> QED BY <1>4, <1>5, <1>6, <1>7 DEF MailNumbers

\* Nothing stands in the way of requests when rows keep their places.
LEMMA SparesSame ==
    ASSUME NEW d \in Requests,
           \A v \in Ids : account'[v].there => account[v].there /\ account'[v].email = account[v].email
    PROVE  Spares(d)
  BY DEF Spares

\* A request that reads, or drops what it did.
LEMMA OnlyReads ==
    ASSUME MailInv, NEW r \in Requests, NEW q \in Serving, q.pc \notin {"flushed", "resets"},
           req' = [req EXCEPT ![r] = q], UNCHANGED <<account, letters, spent, number, provers, uses>>,
           Reads(r)'
    PROVE  MailInv'
<1>1. MailTypes
  BY DEF MailInv
<1>2. req' \in [Requests -> Serving] /\ req'[r] = q /\ \A d \in Requests \ {r} : req'[d] = req[d]
  BY <1>1, ReqSet
<1>3. MailTypes'
  BY <1>1, <1>2 DEF MailTypes
<1>4. Grows /\ Addressed /\ ProofsStay
  BY DEF Grows, Addressed, ProofsStay
<1>5. MailRows' /\ Steady
  BY <1>4, RowsStay
<1>6. MailNumbers'
  BY <1>4, NumbersStay
<1>7. \A d \in Requests \ {r} : Stands(d)
  BY <1>2, SparesSame DEF Stands
<1>8. MailRequests'
  BY <1>2, <1>4, <1>5, <1>7, RequestsKept
<1> QED BY <1>3, <1>5, <1>6, <1>8 DEF MailInv

LEMMA DropKeeps ==
    ASSUME MailInv, NEW r \in Requests, E!DropRequest(r)
    PROVE  MailInv'
<1>1. req'[r] = E!Idle
  BY DEF MailInv, MailTypes, E!DropRequest, E!Ends
<1>2. Reads(r)'
  BY <1>1, IdleServes DEF Reads
<1> QED BY <1>2, IdleServes, OnlyReads DEF E!DropRequest, E!Ends

LEMMA LetterTo ==
    ASSUME MailInv, NEW l \in letters
    PROVE  /\ l \in Letters /\ l.to \in Person
           /\ l.kind # "signup" => l.user \in Ids /\ account[l.user].there /\ account[l.user] \in E!AccountRow
<1>1. l \in Letters /\ (l.kind # "signup" => l.user \in Ids /\ account[l.user].there)
  BY DEF MailInv, MailTypes, MailRows, LettersKnown
<1> QED BY <1>1, RowColumns DEF MailInv, Letters

LEMMA VerifyReadKeeps ==
    ASSUME MailInv, NEW r \in Requests, NEW l \in letters, E!VerifyRead(r, l)
    PROVE  MailInv'
<1> DEFINE q == [pc |-> "verifies", l |-> l, row |-> account[l.user]]
<1>1. /\ l \in Letters /\ l.to \in Person /\ l.kind = "verify"
      /\ l.user \in Ids /\ account[l.user].there /\ account[l.user] \in E!AccountRow
  BY LetterTo DEF E!VerifyRead
<1>2. /\ q \in Serving /\ q.pc = "verifies" /\ q.l = l /\ q.row = account[l.user]
  BY <1>1 DEF Serving, Verifying
<1>3. req' = [req EXCEPT ![r] = q] /\ UNCHANGED <<account, letters, spent, number, provers, uses>>
  BY DEF E!VerifyRead, E!Begins
<1>4. /\ l.to \in {account[l.user].email, account[l.user].pending}
      /\ account[l.user].verified \/ account[l.user].by = l.to
  BY DEF E!VerifyRead, E!PasswordKnown
<1>5. RowProven(l.user)
  BY <1>1 DEF MailInv, MailRows
<1>6. account[l.user].by \in {E!Nobody, l.to} \cup provers[l.user]
  BY <1>1, <1>4, <1>5 DEF RowProven
<1> HIDE DEF q
<1>7. req'[r] = q
  BY <1>2, <1>3, ReqSet DEF MailInv
<1>8. Reads(r)'
  BY <1>1, <1>2, <1>3, <1>4, <1>6, <1>7 DEF Reads
<1> QED BY <1>2, <1>3, <1>8, OnlyReads

LEMMA AdminReadKeeps ==
    ASSUME MailInv, NEW r \in Requests, NEW u \in Ids, NEW a \in Person, E!AdminRead(r, u, a)
    PROVE  MailInv'
<1> DEFINE q == [pc |-> "triggers", u |-> u, a |-> a]
<1>1. q \in Serving /\ q.pc = "triggers" /\ q.u = u
  BY DEF Serving, Triggering
<1>2. req' = [req EXCEPT ![r] = q] /\ UNCHANGED <<account, letters, spent, number, provers, uses>>
  BY DEF E!AdminRead, E!Begins
<1>3. account[u].there
  BY DEF E!AdminRead, E!Present
<1> HIDE DEF q
<1>4. req'[r] = q
  BY <1>1, <1>2, ReqSet DEF MailInv
<1>5. Reads(r)'
  BY <1>1, <1>2, <1>3, <1>4 DEF Reads
<1> QED BY <1>1, <1>2, <1>5, OnlyReads

LEMMA ChangeReadKeeps ==
    ASSUME MailInv, NEW r \in Requests, NEW u \in Ids, NEW who \in Person, NEW action \in E!StepupActions,
           NEW a \in Person, E!ChangeRead(r, u, who, action, a)
    PROVE  MailInv'
<1> DEFINE q == [pc |-> "changes", u |-> u, who |-> who, action |-> action, a |-> a, row |-> account[u]]
<1>1. account[u].there /\ account[u] \in E!AccountRow
  BY RowColumns DEF MailInv, E!ChangeRead, E!Present
<1>2. q \in Serving /\ q.pc = "changes" /\ q.u = u /\ q.who = who /\ q.row = account[u]
  BY <1>1 DEF Serving, Altering
<1>3. req' = [req EXCEPT ![r] = q] /\ UNCHANGED <<account, letters, spent, number, provers, uses>>
  BY DEF E!ChangeRead, E!Begins
<1>4. /\ account[u].verified
      /\ IF account[u].by # E!Nobody THEN account[u].by = who
         ELSE account[u].proof # E!NoProof /\ account[u].email = who
  BY DEF E!ChangeRead, E!Authorised, E!PasswordSet, E!StepupValid
<1>5. RowProven(u)
  BY DEF MailInv, MailRows
<1>6. who \in provers[u] /\ (~ E!PasswordSet(account[u]) => account[u].proof # E!NoProof)
  BY <1>1, <1>4, <1>5 DEF RowProven, E!PasswordSet
<1> HIDE DEF q
<1>7. req'[r] = q
  BY <1>2, <1>3, ReqSet DEF MailInv
<1>8. Reads(r)'
  BY <1>1, <1>2, <1>3, <1>6, <1>7 DEF Reads
<1> QED BY <1>2, <1>3, <1>8, OnlyReads

LEMMA GoogleReadKeeps ==
    ASSUME MailInv, NEW r \in Requests, NEW u \in Ids, NEW a \in Person, E!GoogleRead(r, u, a)
    PROVE  MailInv'
<1> DEFINE q == [pc |-> "links", u |-> u, a |-> a, row |-> account[u]]
<1>1. account[u] \in Accounts
  BY DEF MailInv, MailTypes
<1>2. q \in Serving /\ q.pc = "links" /\ q.u = u /\ q.a = a /\ q.row = account[u]
  BY <1>1 DEF Serving, Linking
<1>3. req' = [req EXCEPT ![r] = q] /\ UNCHANGED <<account, letters, spent, number, provers, uses>>
  BY DEF E!GoogleRead, E!Begins
<1>4. account[u].there => account[u].email = a
  BY DEF E!GoogleRead, E!Present, E!Named
<1> HIDE DEF q
<1>5. req'[r] = q
  BY <1>2, <1>3, ReqSet DEF MailInv
<1>6. Reads(r)'
  BY <1>2, <1>3, <1>4, <1>5 DEF Reads
<1> QED BY <1>2, <1>3, <1>6, OnlyReads

-----------------------------------------------------------------------------
(* Claims. *)

\* A letter is claimed: what the request will insert stays free, and no other
\* request holds the letter.
LEMMA ClaimMade ==
    ASSUME MailInv, NEW r \in Requests, NEW l \in letters, NEW q \in Serving, q.l = l,
           q.pc \in {"flushed", "resets"}, l.kind = IF q.pc = "flushed" THEN "signup" ELSE "reset",
           l.n \notin spent, spent' = spent \cup {l.n}, req' = [req EXCEPT ![r] = q],
           UNCHANGED <<account, letters, number, provers, uses>>,
           q.pc = "flushed" => /\ ~ account[q.u].there /\ Unnamed(l.to)
                               /\ \A d \in Requests : req[d].pc = "flushed" => req[d].u # q.u /\ req[d].l.to # l.to
    PROVE  MailInv'
<1>1. MailTypes /\ LetterNumbers /\ ClaimsApart /\ \A d \in Requests : Claim(d) /\ Reads(d)
  BY DEF MailInv, MailNumbers, MailRequests
<1>2. req' \in [Requests -> Serving] /\ req'[r] = q /\ \A d \in Requests \ {r} : req'[d] = req[d]
  BY <1>1, ReqSet
<1>3. l.n \in 1..number /\ uses[l.n] = 0
  BY <1>1 DEF LetterNumbers
<1>4. MailTypes'
  BY <1>1, <1>2, <1>3 DEF MailTypes
<1>5. Grows /\ Addressed /\ ProofsStay
  BY DEF Grows, Addressed, ProofsStay
<1>6. MailRows' /\ Steady
  BY <1>5, RowsStay
<1>7. MailNumbers'
  BY <1>5, NumbersStay
<1>8. \A d \in Requests \ {r} : Reads(d)' /\ Claim(d)'
  <2>1. \A d \in Requests \ {r} : Stands(d)
    BY <1>2, SparesSame DEF Stands
  <2> QED BY <1>2, <1>5, <1>6, <2>1, ReadsKept, ClaimKept
<1>9. Reads(r)' /\ Claim(r)'
  BY <1>2, <1>3 DEF Reads, Claim, Unnamed
<1>10. ClaimsApart'
  <2>1. \A d \in Requests \ {r} : req[d].pc \in {"flushed", "resets"} => req[d].l.n # l.n
    BY <1>1 DEF Claim
  <2>2. ASSUME NEW c \in Requests, NEW d \in Requests, c # d
        PROVE  /\ {req'[c].pc, req'[d].pc} \subseteq {"flushed", "resets"} => req'[c].l.n # req'[d].l.n
               /\ req'[c].pc = "flushed" /\ req'[d].pc = "flushed" =>
                     req'[c].u # req'[d].u /\ req'[c].l.to # req'[d].l.to
    <3>1. CASE c # r /\ d # r
      BY <1>1, <1>2, <2>2, <3>1 DEF ClaimsApart
    <3>2. CASE c = r
      BY <1>2, <2>1, <2>2, <3>2
    <3>3. CASE d = r
      BY <1>2, <2>1, <2>2, <3>3
    <3> QED BY <3>1, <3>2, <3>3
  <2> QED BY <2>2 DEF ClaimsApart
<1>11. MailRequests'
  BY <1>8, <1>9, <1>10 DEF MailRequests
<1> QED BY <1>4, <1>6, <1>7, <1>11 DEF MailInv

LEMMA NoneNamed ==
    ASSUME NEW a, E!Named(a) = {}
    PROVE  Unnamed(a)
  BY DEF E!Named, E!Present, Unnamed

LEMMA SignupFlushKeeps ==
    ASSUME MailInv, NEW r \in Requests, NEW l \in letters, NEW u \in Ids, E!SignupFlush(r, l, u)
    PROVE  MailInv'
<1> DEFINE q == [pc |-> "flushed", l |-> l, u |-> u]
<1>1. l \in Letters
  BY LetterTo
<1>2. q \in Serving /\ q.pc = "flushed" /\ q.l = l /\ q.u = u
  BY <1>1 DEF Serving, Flushed
<1>3. /\ req' = [req EXCEPT ![r] = q] /\ UNCHANGED <<account, letters, number, provers, uses>>
      /\ l.n \notin spent /\ spent' = spent \cup {l.n} /\ l.kind = "signup" /\ ~ account[u].there
  BY DEF E!SignupFlush, E!Begins, E!FirstUse, E!Present
<1>4. Unnamed(l.to)
  BY NoneNamed DEF E!SignupFlush
<1>5. \A d \in Requests : req[d].pc = "flushed" => req[d].u # u /\ req[d].l.to # l.to
  BY DEF E!SignupFlush, E!Held
<1> HIDE DEF q
<1> QED BY <1>2, <1>3, <1>4, <1>5, ClaimMade

LEMMA ResetClaimKeeps ==
    ASSUME MailInv, NEW r \in Requests, NEW l \in letters, E!ResetClaim(r, l)
    PROVE  MailInv'
<1> DEFINE q == [pc |-> "resets", l |-> l]
<1>1. l \in Letters
  BY LetterTo
<1>2. q \in Serving /\ q.pc = "resets" /\ q.l = l
  BY <1>1 DEF Serving, Resetting
<1>3. /\ req' = [req EXCEPT ![r] = q] /\ UNCHANGED <<account, letters, number, provers, uses>>
      /\ l.n \notin spent /\ spent' = spent \cup {l.n} /\ l.kind = "reset"
  BY DEF E!ResetClaim, E!Begins, E!FirstUse
<1> HIDE DEF q
<1> QED BY <1>2, <1>3, ClaimMade

-----------------------------------------------------------------------------
(* Writes. *)

\* Those in D wait, and the others are done.
Waits(D) ==
    /\ req' \in [Requests -> Serving]
    /\ \A d \in D : req'[d] = req[d]
    /\ \A d \in Requests \ D : req'[d] = E!Idle
\* The letters that those in D claimed are not used.
Unused(D) ==
    \A d \in D : req[d].pc \in {"flushed", "resets"} => uses'[req[d].l.n] = uses[req[d].l.n]
\* A row that is inserted or moved is not one that a sign-up in D will insert.
Clear(D, u, a) ==
    \A d \in D : req[d].pc = "flushed" => (account[u].there \/ u # req[d].u) /\ req[d].l.to # a
MoreProven ==
    /\ provers' \in [Ids -> SUBSET Person]
    /\ \A v \in Ids : provers[v] \subseteq provers'[v]
MoreLetters ==
    /\ letters' \in SUBSET Letters
    /\ letters \subseteq letters'
    /\ Addressed

LEMMA Writes ==
    ASSUME MailInv, NEW D \in SUBSET Requests, Waits(D), Unused(D), MoreProven, MoreLetters,
           UNCHANGED spent, number' \in 0..MaxNumber, number <= number', uses' \in [1..MaxNumber -> Nat],
           NEW u \in Ids, NEW z \in E!AccountRow, account' = [account EXCEPT ![u] = z],
           Elsewhere(u, z.email),
           z.verified => z.email \in provers'[u] /\ (z.by # E!Nobody => z.by \in provers'[u]),
           account[u].there => /\ z.by \in {account[u].by, E!Nobody} \cup provers'[u]
                               /\ z.email \in {account[u].email} \cup provers'[u],
           (account[u].there /\ z.email = account[u].email) \/ Clear(D, u, z.email)
    PROVE  MailTypes' /\ MailRows' /\ MailRequests'
<1>1. MailTypes
  BY DEF MailInv
<1>2. account'[u] = z /\ \A v \in Ids : v # u => account'[v] = account[v]
  BY <1>1 DEF MailTypes
<1>3. z.there = TRUE
  BY DEF E!AccountRow
<1>4. account' \in [Ids -> Accounts]
  BY <1>1 DEF MailTypes, Accounts
<1>5. spent' \in SUBSET (1..number')
  BY <1>1, IdentityAssumption DEF MailTypes, E!MailAssumption
<1>6. MailTypes'
  BY <1>1, <1>4, <1>5 DEF MailTypes, Waits, MoreProven, MoreLetters
<1>7. Grows
  BY <1>2, <1>3 DEF Grows, MoreProven, MoreLetters
<1>8. Steady
  BY <1>2 DEF Steady
<1>9. MailRows'
  BY <1>3, <1>7, RowKept DEF MoreLetters
<1>10. ASSUME NEW d \in D
       PROVE  Stands(d)
  <2>1. req[d].pc = "flushed" => Spares(d)
    BY <1>2, <1>3 DEF Spares, Clear
  <2> QED BY <2>1 DEF Stands, Waits, Unused
<1>11. \A d \in Requests \ D : req'[d].pc \notin {"flushed", "resets"} /\ Reads(d)'
  BY IdleServes DEF Waits, Reads
<1>12. MailRequests'
  BY <1>7, <1>8, <1>10, <1>11, RequestsKept
<1> QED BY <1>6, <1>9, <1>12

LEMMA EndsWaits ==
    ASSUME MailInv, NEW r \in Requests, E!Ends(r)
    PROVE  Waits(Requests \ {r})
<1>1. req' = [req EXCEPT ![r] = E!Idle] /\ MailTypes
  BY DEF E!Ends, MailInv
<1>2. req' \in [Requests -> Serving] /\ req'[r] = E!Idle /\ \A d \in Requests \ {r} : req'[d] = req[d]
  BY <1>1, IdleServes, ReqSet
<1> QED BY <1>2 DEF Waits

LEMMA AllWait ==
    ASSUME MailInv, UNCHANGED req
    PROVE  Waits(Requests)
  BY DEF MailInv, MailTypes, Waits

\* What does not change.
LEMMA NothingMore ==
    ASSUME MailInv
    PROVE  /\ UNCHANGED provers => MoreProven
           /\ UNCHANGED letters => MoreLetters
           /\ UNCHANGED uses => uses' \in [1..MaxNumber -> Nat] /\ \A D \in SUBSET Requests : Unused(D)
           /\ UNCHANGED number => number' \in 0..MaxNumber /\ number <= number'
<1>1. MailTypes
  BY DEF MailInv
<1>2. UNCHANGED provers => MoreProven
  BY <1>1 DEF MailTypes, MoreProven
<1>3. UNCHANGED letters => MoreLetters
  BY <1>1 DEF MailTypes, MoreLetters, Addressed
<1>4. UNCHANGED uses => uses' \in [1..MaxNumber -> Nat] /\ \A D \in SUBSET Requests : Unused(D)
  BY <1>1 DEF MailTypes, Unused
<1>5. number \in 0..MaxNumber
  BY <1>1 DEF MailTypes
<1>6. UNCHANGED number => number' \in 0..MaxNumber /\ number <= number'
  BY <1>5, IdentityAssumption DEF E!MailAssumption
<1> QED BY <1>2, <1>3, <1>4, <1>6

LEMMA ProvedMore ==
    ASSUME MailInv, NEW u \in Ids, NEW who \in Person, E!Proved(u, who)
    PROVE  MoreProven /\ who \in provers'[u]
  BY ProvedGrows DEF MailInv, MoreProven

\* A row keeps its address.
LEMMA SameAddress ==
    ASSUME MailInv, NEW u \in Ids, account[u].there
    PROVE  Elsewhere(u, account[u].email)
  BY DEF MailInv, MailRows, EmailsApart, Elsewhere

LEMMA UnnamedElsewhere ==
    ASSUME NEW u, NEW a, Unnamed(a)
    PROVE  Elsewhere(u, a)
  BY DEF Unnamed, Elsewhere

\* The letter a request uses is its own.
LEMMA UsedAlone ==
    ASSUME MailInv, NEW r \in Requests, req[r].pc \in {"flushed", "resets"}, E!Used(req[r].l.n)
    PROVE  Unused(Requests \ {r}) /\ uses' \in [1..MaxNumber -> Nat]
<1>0. number \in 0..MaxNumber /\ spent \in SUBSET (1..number) /\ uses \in [1..MaxNumber -> Nat]
  BY DEF MailInv, MailTypes
<1>1. MailTypes /\ ClaimsApart
  BY DEF MailInv, MailRequests
<1>2. uses' = [uses EXCEPT ![req[r].l.n] = uses[req[r].l.n] + 1]
  BY DEF E!Used
<1>3. req[r].l.n \in spent /\ uses[req[r].l.n] = 0
  BY DEF MailInv, MailRequests, Claim
<1>4. \A d \in Requests \ {r} : req[d].pc \in {"flushed", "resets"} => req[d].l.n # req[r].l.n
  BY <1>1 DEF ClaimsApart
<1>5. ASSUME NEW d \in Requests \ {r}, req[d].pc \in {"flushed", "resets"}
      PROVE  uses'[req[d].l.n] = uses[req[d].l.n]
  <2>1. req[d].l.n \in spent
    BY <1>5 DEF MailInv, MailRequests, Claim
  <2>2. req[d].l.n \in 1..MaxNumber
    BY <1>1, <2>1, SpentNumbers
  <2> QED BY <1>1, <1>2, <1>4, <1>5, <2>2 DEF MailTypes
<1>6. uses' \in [1..MaxNumber -> Nat]
  <2>1. uses' = [uses EXCEPT ![req[r].l.n] = 1]
    BY <1>2, <1>3
  <2> QED BY <1>0, <2>1
<1> QED BY <1>5, <1>6 DEF Unused

\* and no proof has its number.
LEMMA LetterUsed ==
    ASSUME MailInv, NEW r \in Requests, req[r].pc \in {"flushed", "resets"}, E!Used(req[r].l.n),
           ProofsStay, UNCHANGED <<number, spent, letters>>
    PROVE  MailNumbers'
<1> DEFINE l == req[r].l
<1>1. MailTypes /\ Claim(r) /\ LetterNumbers /\ \A u \in Ids : ProofHeld(u)
  BY DEF MailInv, MailRequests, MailNumbers
<1>2. l \in letters /\ l.n \in spent /\ uses[l.n] = 0 /\ l.kind # "verify"
  BY <1>1 DEF Claim
<1>3. l.n \in 1..number
  BY <1>1, <1>2 DEF LetterNumbers
<1>4. \A u \in Ids : account'[u].there /\ account'[u].proof # E!NoProof => account'[u].proof.n # l.n
  BY <1>1, <1>2 DEF ProofsStay, ProofHeld
<1> HIDE DEF l
<1>5. E!Used(l.n)
  BY DEF l
<1> QED BY <1>2, <1>3, <1>4, <1>5, NumbersUsed

LEMMA SignupStartKeeps ==
    ASSUME MailInv, NEW a \in Person, E!SignupStart(a)
    PROVE  MailInv'
<1>1. MailTypes
  BY DEF MailInv
<1>2. UNCHANGED <<account, spent, req, provers, uses>>
  BY DEF E!SignupStart
<1>3. CASE E!Named(a) = {}
  <2>1. number < MaxNumber /\ number' = number + 1
    BY <1>3 DEF E!SignupStart
  <2>2. letters' = letters \cup {E!Letter("signup", E!Nobody, a, number + 1)}
    BY <1>3 DEF E!SignupStart
  <2> DEFINE l == E!Letter("signup", E!Nobody, a, number + 1)
  <2>3. number' \in 0..MaxNumber
    BY <1>1, <2>1, IdentityAssumption DEF MailTypes, E!MailAssumption
  <2>4. l \in Letters /\ l.kind = "signup" /\ l.user = E!Nobody /\ l.n = number + 1
    BY <2>1, <2>3 DEF E!Letter, Letters
  <2> HIDE DEF l
  <2>5. letters' \in SUBSET Letters /\ letters \subseteq letters' /\ \A k \in letters' \ letters : k = l
    BY <1>1, <2>2, <2>4 DEF MailTypes, l
  <2>6. spent' \in SUBSET (1..number')
    BY <1>1, <1>2, <2>1 DEF MailTypes
  <2>7. MailTypes'
    BY <1>1, <1>2, <2>3, <2>5, <2>6 DEF MailTypes
  <2>8. Grows /\ Addressed /\ ProofsStay
    BY <1>2, <2>4, <2>5 DEF Grows, Addressed, ProofsStay
  <2>9. MailRows' /\ Steady
    BY <1>2, <2>8, RowsStay
  <2>10. MailNumbers'
    BY <1>2, <2>1, <2>4, <2>5, <2>7, <2>8, NumbersLetter
  <2>11. \A d \in Requests : Stands(d)
    BY <1>2, SparesSame DEF Stands
  <2>12. MailRequests'
    BY <1>2, <2>8, <2>9, <2>11, RequestsKept
  <2> QED BY <2>7, <2>9, <2>10, <2>12 DEF MailInv
<1>4. CASE E!Named(a) # {}
  <2>1. number' = number
    BY <1>4 DEF E!SignupStart
  <2>2. letters' = letters \cup {E!VerifyLetter(u, a) : u \in E!Named(a)}
    BY <1>4 DEF E!SignupStart
  <2>3. \A u \in E!Named(a) : u \in Ids /\ account[u].there
    BY DEF E!Named, E!Present
  <2>4. \A u \in Ids : /\ E!VerifyLetter(u, a) \in Letters /\ E!VerifyLetter(u, a).kind = "verify"
                       /\ E!VerifyLetter(u, a).user = u
    <3>1. 0 \in 0..MaxNumber
      BY IdentityAssumption DEF E!MailAssumption
    <3> QED BY <3>1 DEF E!VerifyLetter, E!Letter, Letters
  <2>5. letters' \in SUBSET Letters /\ letters \subseteq letters'
    BY <1>1, <2>2, <2>3, <2>4 DEF MailTypes
  <2>6. \A l \in letters' \ letters : l.kind = "verify" /\ l.user \in Ids /\ account[l.user].there
    BY <2>2, <2>3, <2>4
  <2>7. MailTypes'
    BY <1>1, <1>2, <2>1, <2>5 DEF MailTypes
  <2>8. Grows /\ Addressed /\ ProofsStay
    BY <1>2, <2>5, <2>6 DEF Grows, Addressed, ProofsStay
  <2>9. MailRows' /\ Steady
    BY <1>2, <2>8, RowsStay
  <2>10. MailNumbers'
    BY <1>2, <2>1, <2>6, <2>8, NumbersStay
  <2>11. \A d \in Requests : Stands(d)
    BY <1>2, SparesSame DEF Stands
  <2>12. MailRequests'
    BY <1>2, <2>8, <2>9, <2>11, RequestsKept
  <2> QED BY <2>7, <2>9, <2>10, <2>12 DEF MailInv
<1> QED BY <1>3, <1>4

LEMMA ForgotPasswordKeeps ==
    ASSUME MailInv, NEW u \in Ids, E!ForgotPassword(u)
    PROVE  MailInv'
<1>1. MailTypes
  BY DEF MailInv
<1>2. UNCHANGED <<account, spent, req, provers, uses>> /\ account[u].there
  BY DEF E!ForgotPassword, E!Present
<1>3. number < MaxNumber /\ number' = number + 1
  BY DEF E!ForgotPassword
<1> DEFINE l == [E!Letter("reset", u, account[u].email, number + 1) EXCEPT !.at = account[u].changes]
<1>4. letters' = letters \cup {l}
  BY DEF E!ForgotPassword
<1>5. number' \in 0..MaxNumber
  BY <1>1, <1>3, IdentityAssumption DEF MailTypes, E!MailAssumption
<1>6. account[u] \in E!AccountRow /\ account[u].email \in Person
  BY <1>1, <1>2, RowColumns
<1>7. l \in Letters /\ l.kind = "reset" /\ l.user = u /\ l.n = number + 1
  BY <1>3, <1>5, <1>6 DEF E!Letter, Letters, E!AccountRow
<1> HIDE DEF l
<1>8. letters' \in SUBSET Letters /\ letters \subseteq letters' /\ \A k \in letters' \ letters : k = l
  BY <1>1, <1>4, <1>7 DEF MailTypes
<1>9. spent' \in SUBSET (1..number')
  BY <1>1, <1>2, <1>3 DEF MailTypes
<1>10. MailTypes'
  BY <1>1, <1>2, <1>5, <1>8, <1>9 DEF MailTypes
<1>11. Grows /\ Addressed /\ ProofsStay
  BY <1>2, <1>7, <1>8 DEF Grows, Addressed, ProofsStay
<1>12. MailRows' /\ Steady
  BY <1>2, <1>11, RowsStay
<1>13. MailNumbers'
  BY <1>2, <1>3, <1>7, <1>8, <1>10, <1>11, NumbersLetter
<1>14. \A d \in Requests : Stands(d)
  BY <1>2, SparesSame DEF Stands
<1>15. MailRequests'
  BY <1>2, <1>11, <1>12, <1>14, RequestsKept
<1> QED BY <1>10, <1>12, <1>13, <1>15 DEF MailInv

\* A letter that verifies an address of an account that is there.
LEMMA VerifyLetterMore ==
    ASSUME MailInv, NEW u \in Ids, NEW a \in Person, account'[u].there,
           NEW l, l \in {E!VerifyLetter(u, a), [E!VerifyLetter(u, a) EXCEPT !.admin = TRUE]},
           letters' = letters \cup {l}
    PROVE  MoreLetters /\ \A k \in letters' \ letters : k.kind = "verify"
<1>1. 0 \in 0..MaxNumber
  BY IdentityAssumption DEF E!MailAssumption
<1> DEFINE k0 == E!VerifyLetter(u, a)
           k1 == [k0 EXCEPT !.admin = TRUE]
<1>5. k0 \in Letters /\ k0.kind = "verify" /\ k0.user = u
  BY <1>1 DEF E!VerifyLetter, E!Letter, Letters
<1>6. l = k0 \/ l = k1
  OBVIOUS
<1>7. k1 \in Letters /\ k1.kind = "verify" /\ k1.user = u
  <2> HIDE DEF k0
  <2> QED BY <1>5 DEF Letters
<1>2. l \in Letters /\ l.kind = "verify" /\ l.user = u
  BY <1>5, <1>6, <1>7
<1>3. letters \in SUBSET Letters
  BY DEF MailInv, MailTypes
<1>4. \A k \in letters' \ letters : k = l
  OBVIOUS
<1> QED BY <1>2, <1>3, <1>4 DEF MoreLetters, Addressed

LEMMA NewAccountRow ==
    ASSUME NEW a \in Person, NEW v \in BOOLEAN, NEW who \in Person \cup {E!Nobody},
           NEW z, z = [there |-> TRUE, email |-> a, verified |-> v, pending |-> E!Nobody,
                       by |-> who, changes |-> 0, proof |-> E!NoProof]
    PROVE  /\ z \in E!AccountRow /\ z.there /\ z.email = a /\ z.by = who /\ z.proof = E!NoProof
           /\ z.verified = v
<1>1. 0 \in 0..MaxNumber
  BY IdentityAssumption DEF E!MailAssumption
<1>2. E!NoProof \in [n : 0..MaxNumber, action : E!StepupActions \cup {"none"}]
  BY <1>1 DEF E!NoProof
<1> HIDE DEF E!NoProof
<1> QED BY <1>2 DEF E!AccountRow, Person

LEMMA RegisterKeeps ==
    ASSUME MailInv, NEW u \in Ids, NEW a \in Person, NEW who \in Person, E!Register(u, a, who)
    PROVE  MailInv'
<1> DEFINE z == E!NewAccount(a, FALSE, who)
<1>1. /\ account' = [account EXCEPT ![u] = z] /\ UNCHANGED <<spent, number, req, provers, uses>>
      /\ letters' = letters \cup {E!VerifyLetter(u, a)} /\ ~ account[u].there
  BY DEF E!Register, E!Present
<1>2. Unnamed(a)
  BY NoneNamed DEF E!Register
<1>3. Clear(Requests, u, a)
  BY DEF Clear, E!Register, E!Held
<1>4. z \in E!AccountRow /\ z.email = a /\ z.verified = FALSE /\ z.proof = E!NoProof /\ z.there
  <2>1. z = [there |-> TRUE, email |-> a, verified |-> FALSE, pending |-> E!Nobody,
             by |-> who, changes |-> 0, proof |-> E!NoProof]
    BY DEF E!NewAccount
  <2> HIDE DEF z
  <2> QED BY <2>1, NewAccountRow
<1> HIDE DEF z
<1>5. account'[u] = z /\ \A v \in Ids : v # u => account'[v] = account[v]
  BY <1>1 DEF MailInv, MailTypes
<1>6. account'[u].there
  BY <1>4, <1>5
<1>7. MoreLetters /\ \A k \in letters' \ letters : k.kind = "verify"
  BY <1>1, <1>6, VerifyLetterMore
<1>8. Waits(Requests)
  BY <1>1, AllWait
<1>9. /\ MoreProven /\ uses' \in [1..MaxNumber -> Nat] /\ Unused(Requests)
      /\ number' \in 0..MaxNumber /\ number <= number'
  BY <1>1, NothingMore
<1>10. Elsewhere(u, z.email)
  BY <1>2, <1>4, UnnamedElsewhere
<1>11. MailTypes' /\ MailRows' /\ MailRequests'
  BY <1>1, <1>3, <1>4, <1>7, <1>8, <1>9, <1>10, Writes
<1>12. ProofsStay
  BY <1>4, <1>5 DEF ProofsStay
<1>13. MailNumbers'
  BY <1>1, <1>7, <1>12, NumbersStay
<1> QED BY <1>11, <1>13 DEF MailInv

LEMMA SignupCommitKeeps ==
    ASSUME MailInv, NEW r \in Requests, E!SignupCommit(r)
    PROVE  MailInv'
<1> DEFINE l == req[r].l
           u == req[r].u
           z == E!NewAccount(l.to, TRUE, l.to)
<1>1. /\ req[r].pc = "flushed" /\ account' = [account EXCEPT ![u] = z] /\ E!Used(req[r].l.n)
      /\ E!Proved(u, l.to) /\ E!Ends(r) /\ UNCHANGED <<letters, spent, number>>
  BY DEF E!SignupCommit
<1>2. u \in Ids /\ l \in Letters /\ l.to \in Person
  BY <1>1, Requested DEF MailInv, Flushed, Letters
<1>3. ~ account[u].there /\ Unnamed(l.to)
  BY <1>1 DEF MailInv, MailRequests, Claim
<1>4. Clear(Requests \ {r}, u, l.to)
  BY <1>1 DEF MailInv, MailRequests, ClaimsApart, Clear
<1>5. MoreProven /\ l.to \in provers'[u]
  BY <1>1, <1>2, ProvedMore
<1>6. Unused(Requests \ {r}) /\ uses' \in [1..MaxNumber -> Nat]
  BY <1>1, UsedAlone
<1>7. Waits(Requests \ {r})
  BY <1>1, EndsWaits
<1>8. z \in E!AccountRow /\ z.email = l.to /\ z.by = l.to /\ z.proof = E!NoProof
  <2>1. z = [there |-> TRUE, email |-> l.to, verified |-> TRUE, pending |-> E!Nobody,
             by |-> l.to, changes |-> 0, proof |-> E!NoProof]
    BY DEF E!NewAccount
  <2> DEFINE a == l.to
  <2>2. a \in Person /\ a \in Person \cup {E!Nobody} /\ TRUE \in BOOLEAN
    BY <1>2
  <2>3. z = [there |-> TRUE, email |-> a, verified |-> TRUE, pending |-> E!Nobody,
             by |-> a, changes |-> 0, proof |-> E!NoProof]
    BY <2>1
  <2> HIDE DEF z, l, a
  <2>4. z \in E!AccountRow /\ z.email = a /\ z.by = a /\ z.proof = E!NoProof
    BY <2>2, <2>3, NewAccountRow
  <2> QED BY <2>4 DEF a
<1> HIDE DEF z, u, l
<1>9. MoreLetters /\ number' \in 0..MaxNumber /\ number <= number'
  BY <1>1, NothingMore
<1>10. Elsewhere(u, z.email)
  BY <1>3, <1>8, UnnamedElsewhere
<1>11. MailTypes' /\ MailRows' /\ MailRequests'
  BY <1>1, <1>2, <1>3, <1>4, <1>5, <1>6, <1>7, <1>8, <1>9, <1>10, Writes
<1>12. ProofsStay
  BY <1>1, <1>2, <1>8 DEF ProofsStay, MailInv, MailTypes
<1>13. MailNumbers'
  BY <1>1, <1>12, LetterUsed
<1> QED BY <1>11, <1>13 DEF MailInv

\* A write of a row that keeps its address, when no number is used.
LEMMA PlainWrite ==
    ASSUME MailInv, NEW D \in SUBSET Requests, Waits(D), MoreProven, MoreLetters,
           \A l \in letters' \ letters : l.kind = "verify",
           UNCHANGED <<spent, number, uses>>,
           NEW u \in Ids, account[u].there, NEW z \in E!AccountRow, account' = [account EXCEPT ![u] = z],
           z.email = account[u].email, z.proof \in {account[u].proof, E!NoProof},
           z.verified => z.email \in provers'[u] /\ (z.by # E!Nobody => z.by \in provers'[u]),
           z.by \in {account[u].by, E!Nobody} \cup provers'[u]
    PROVE  MailInv'
<1>1. /\ uses' \in [1..MaxNumber -> Nat] /\ Unused(D)
      /\ number' \in 0..MaxNumber /\ number <= number'
  BY NothingMore
<1>2. Elsewhere(u, z.email)
  BY SameAddress
<1>3. MailTypes' /\ MailRows' /\ MailRequests'
  BY <1>1, <1>2, Writes
<1>4. ProofsStay
  BY DEF ProofsStay, MailInv, MailTypes
<1>5. MailNumbers'
  BY <1>4, NumbersStay
<1> QED BY <1>3, <1>5 DEF MailInv

LEMMA VerifyCommitKeeps ==
    ASSUME MailInv, NEW r \in Requests, E!VerifyCommit(r)
    PROVE  MailInv'
<1> DEFINE l == req[r].l
           u == req[r].l.user
           z == E!Confirmed(account[u])
<1>1. /\ req[r].pc = "verifies" /\ l.to # req[r].row.pending /\ account' = [account EXCEPT ![u] = z]
      /\ E!Proved(u, l.to) /\ E!Ends(r) /\ UNCHANGED <<letters, spent, number, uses>>
  BY DEF E!VerifyCommit
<1>2. /\ l \in letters /\ l.kind = "verify" /\ account[u].by \in {E!Nobody, l.to} \cup provers[u]
      /\ account[u].email \in {l.to} \cup provers[u]
  BY <1>1 DEF MailInv, MailRequests, Reads
<1>3. u \in Ids /\ l.to \in Person /\ account[u].there /\ account[u] \in E!AccountRow
  BY <1>2, LetterTo
<1>4. z \in E!AccountRow /\ z.email = account[u].email /\ z.by = account[u].by /\ z.proof = account[u].proof
  BY <1>3 DEF E!Confirmed, E!AccountRow
<1> HIDE DEF z, u, l
<1>5. MoreProven /\ l.to \in provers'[u]
  BY <1>1, <1>3, ProvedMore
<1>6. z.email \in provers'[u] /\ (z.by # E!Nobody => z.by \in provers'[u])
  BY <1>2, <1>3, <1>4, <1>5 DEF MoreProven
<1>7. Waits(Requests \ {r}) /\ MoreLetters
  BY <1>1, EndsWaits, NothingMore
<1>8. \A k \in letters' \ letters : k.kind = "verify"
  BY <1>1
<1> QED BY <1>1, <1>3, <1>4, <1>5, <1>6, <1>7, <1>8, PlainWrite

LEMMA PromotedRow ==
    ASSUME NEW old \in E!AccountRow, NEW a \in Person
    PROVE  /\ E!Promoted(old, a) \in E!AccountRow /\ E!Promoted(old, a).email = a
           /\ E!Promoted(old, a).by = old.by /\ E!Promoted(old, a).proof = old.proof
           /\ E!Abandoned(old) \in E!AccountRow /\ E!Abandoned(old).email = old.email
           /\ E!Abandoned(old).by = old.by /\ E!Abandoned(old).proof = old.proof
           /\ E!Abandoned(old).verified = old.verified
  BY DEF E!Promoted, E!Abandoned, E!AccountRow, Person

\* What a row shows as it stands.
LEMMA RowAsItStands ==
    ASSUME MailInv, NEW u \in Ids, account[u].there, MoreProven
    PROVE  account[u].verified => /\ account[u].email \in provers'[u]
                                  /\ account[u].by # E!Nobody => account[u].by \in provers'[u]
  BY DEF MailInv, MailRows, RowProven, MoreProven

LEMMA PromoteCommitKeeps ==
    ASSUME MailInv, NEW r \in Requests, E!PromoteCommit(r)
    PROVE  MailInv'
<1> DEFINE l == req[r].l
           u == req[r].l.user
<1>1. /\ req[r].pc = "verifies" /\ E!Ends(r) /\ UNCHANGED <<letters, spent, number, uses>>
      /\ ~ E!Held(E!Nobody, l.to)
  BY DEF E!PromoteCommit
<1>2. /\ l \in letters /\ l.kind = "verify" /\ account[u].by \in {E!Nobody, l.to} \cup provers[u]
  BY <1>1 DEF MailInv, MailRequests, Reads
<1>3. u \in Ids /\ l.to \in Person /\ account[u].there /\ account[u] \in E!AccountRow
  BY <1>2, LetterTo
<1>4. Waits(Requests \ {r}) /\ MoreLetters
  BY <1>1, EndsWaits, NothingMore
<1>5. \A k \in letters' \ letters : k.kind = "verify"
  BY <1>1
<1>6. CASE /\ E!NotTaken(u, l.to) /\ account' = [account EXCEPT ![u] = E!Promoted(account[u], l.to)]
           /\ E!Proved(u, l.to)
  <2> DEFINE z == E!Promoted(account[u], l.to)
  <2>1. z \in E!AccountRow /\ z.email = l.to /\ z.by = account[u].by /\ z.proof = account[u].proof
    BY <1>3, PromotedRow
  <2>2. Elsewhere(u, l.to)
    BY <1>6 DEF E!NotTaken, E!Named, E!Present, Elsewhere
  <2>3. Clear(Requests \ {r}, u, l.to)
    BY <1>1, <1>3 DEF E!Held, Clear
  <2> HIDE DEF z, u, l
  <2>4. MoreProven /\ l.to \in provers'[u]
    BY <1>3, <1>6, ProvedMore
  <2>5. z.email \in provers'[u] /\ (z.by # E!Nobody => z.by \in provers'[u])
    BY <1>2, <1>3, <2>1, <2>4 DEF MoreProven
  <2>6. account' = [account EXCEPT ![u] = z]
    BY <1>6 DEF z
  <2>7. /\ uses' \in [1..MaxNumber -> Nat] /\ Unused(Requests \ {r})
        /\ number' \in 0..MaxNumber /\ number <= number'
    BY <1>1, NothingMore
  <2>8. MailTypes' /\ MailRows' /\ MailRequests'
    BY <1>1, <1>3, <1>4, <2>1, <2>2, <2>3, <2>4, <2>5, <2>6, <2>7, Writes
  <2>9. ProofsStay
    BY <1>3, <2>1, <2>6 DEF ProofsStay, MailInv, MailTypes
  <2>10. MailNumbers'
    BY <1>1, <1>5, <2>9, NumbersStay
  <2> QED BY <2>8, <2>10 DEF MailInv
<1>7. CASE account' = [account EXCEPT ![u] = E!Abandoned(account[u])] /\ UNCHANGED provers
  <2> DEFINE z == E!Abandoned(account[u])
  <2>1. /\ z \in E!AccountRow /\ z.email = account[u].email /\ z.by = account[u].by
        /\ z.proof = account[u].proof /\ z.verified = account[u].verified
    BY <1>3, PromotedRow
  <2> HIDE DEF z, u
  <2>2. MoreProven
    BY <1>7, NothingMore
  <2>3. account' = [account EXCEPT ![u] = z]
    BY <1>7 DEF z
  <2> QED BY <1>1, <1>3, <1>4, <1>5, <2>1, <2>2, <2>3, RowAsItStands, PlainWrite
<1> QED BY <1>6, <1>7 DEF E!PromoteCommit

LEMMA CancelKeeps ==
    ASSUME MailInv, NEW u \in Ids, E!CancelPending(u)
    PROVE  MailInv'
<1> DEFINE z == E!Abandoned(account[u])
<1>1. /\ account[u].there /\ account' = [account EXCEPT ![u] = z]
      /\ UNCHANGED <<letters, spent, number, req, provers, uses>>
  BY DEF E!CancelPending, E!Present
<1>2. account[u] \in E!AccountRow
  BY <1>1, RowColumns DEF MailInv
<1>3. 0 \in 0..MaxNumber
  BY IdentityAssumption DEF E!MailAssumption
<1>4. /\ z \in E!AccountRow /\ z.email = account[u].email /\ z.by = account[u].by
      /\ z.proof = account[u].proof /\ z.verified = account[u].verified
  BY <1>2 DEF E!Abandoned, E!AccountRow
<1> HIDE DEF z
<1>5. Waits(Requests) /\ MoreProven /\ MoreLetters /\ \A l \in letters' \ letters : l.kind = "verify"
  BY <1>1, AllWait, NothingMore
<1> QED BY <1>1, <1>4, <1>5, RowAsItStands, PlainWrite

LEMMA AdminCommitKeeps ==
    ASSUME MailInv, NEW r \in Requests, E!AdminCommit(r)
    PROVE  MailInv'
<1> DEFINE u == req[r].u
           a == req[r].a
           z == [account[u] EXCEPT !.pending = a]
<1>1. /\ req[r].pc = "triggers" /\ account' = [account EXCEPT ![u] = z]
      /\ letters' = letters \cup {[E!VerifyLetter(u, a) EXCEPT !.admin = TRUE]}
      /\ E!Ends(r) /\ UNCHANGED <<spent, number, provers, uses>>
  BY DEF E!AdminCommit
<1>2. u \in Ids /\ a \in Person
  BY <1>1, Requested DEF MailInv, Triggering
<1>3. account[u].there
  BY <1>1 DEF MailInv, MailRequests, Reads
<1>4. account[u] \in E!AccountRow
  BY <1>2, <1>3, RowColumns DEF MailInv
<1>5. /\ z \in E!AccountRow /\ z.there /\ z.email = account[u].email /\ z.by = account[u].by
      /\ z.proof = account[u].proof /\ z.verified = account[u].verified
  BY <1>2, <1>4 DEF E!AccountRow, Person
<1> HIDE DEF z, u, a
<1>6. account'[u].there
  BY <1>1, <1>2, <1>5 DEF MailInv, MailTypes
<1>7. MoreLetters /\ \A k \in letters' \ letters : k.kind = "verify"
  BY <1>1, <1>2, <1>6, VerifyLetterMore
<1>8. Waits(Requests \ {r}) /\ MoreProven
  BY <1>1, EndsWaits, NothingMore
<1> QED BY <1>1, <1>2, <1>3, <1>5, <1>7, <1>8, RowAsItStands, PlainWrite

LEMMA IssueKeeps ==
    ASSUME MailInv, NEW u \in Ids, NEW action \in E!StepupActions, E!IssueStepup(u, action)
    PROVE  MailInv'
<1> DEFINE p == [n |-> number + 1, action |-> action]
           z == [account[u] EXCEPT !.proof = p]
<1>1. /\ account[u].there /\ account[u].verified /\ number < MaxNumber /\ number' = number + 1
      /\ account' = [account EXCEPT ![u] = z]
      /\ E!Proved(u, account[u].email) /\ UNCHANGED <<letters, spent, req, uses>>
  BY DEF E!IssueStepup, E!Present
<1>2. account[u] \in E!AccountRow /\ account[u].email \in Person
  BY <1>1, RowColumns DEF MailInv
<1>3. number \in 0..MaxNumber
  BY DEF MailInv, MailTypes
<1>4. number + 1 \in 1..MaxNumber /\ number' \in 0..MaxNumber /\ number <= number'
  BY <1>1, <1>3, IdentityAssumption DEF E!MailAssumption
<1>5. p \in [n : 0..MaxNumber, action : E!StepupActions \cup {"none"}] /\ p.n = number + 1
  BY <1>1, <1>4
<1> HIDE DEF p
<1>6. /\ z \in E!AccountRow /\ z.email = account[u].email /\ z.by = account[u].by
      /\ z.proof = p /\ z.verified = account[u].verified
  BY <1>2, <1>5 DEF E!AccountRow
<1> HIDE DEF z
<1>7. MoreProven /\ MoreLetters /\ Waits(Requests) /\ uses' \in [1..MaxNumber -> Nat] /\ Unused(Requests)
  BY <1>1, <1>2, ProvedMore, NothingMore, AllWait
<1>8. Elsewhere(u, z.email)
  BY <1>1, <1>6, SameAddress
<1>9. MailTypes' /\ MailRows' /\ MailRequests'
  BY <1>1, <1>4, <1>6, <1>7, <1>8, RowAsItStands, Writes
<1>10. MailTypes /\ LetterNumbers /\ UsesCounted /\ ProofsApart /\ \A v \in Ids : ProofHeld(v)
  BY DEF MailInv, MailNumbers
<1>11. account'[u] = z /\ \A v \in Ids : v # u => account'[v] = account[v]
  BY <1>1, <1>10 DEF MailTypes
<1>12. LetterNumbers' /\ UsesCounted'
  BY <1>1, <1>3, <1>10, IdentityAssumption DEF LetterNumbers, UsesCounted, E!MailAssumption
<1>13. \A v \in Ids : account[v].there /\ account[v].proof # E!NoProof => account[v].proof.n # number + 1
  BY <1>3, <1>10 DEF ProofHeld
<1>14. ProofsApart'
  BY <1>5, <1>6, <1>10, <1>11, <1>13 DEF ProofsApart
<1>15. ASSUME NEW v \in Ids
       PROVE  ProofHeld(v)'
  <2>1. CASE v = u
    <3>1. uses[number + 1] = 0
      BY <1>3, <1>4, <1>10 DEF UsesCounted
    <3>2. \A l \in letters : l.kind # "verify" => l.n # number + 1
      BY <1>3, <1>10 DEF LetterNumbers
    <3>3. number + 1 \in 1..(number + 1)
      BY <1>3
    <3> QED BY <1>1, <1>5, <1>6, <1>11, <2>1, <3>1, <3>2, <3>3 DEF ProofHeld
  <2>2. CASE v # u
    <3>1. account'[v] = account[v] /\ ProofHeld(v)
      BY <1>10, <1>11, <2>2
    <3>2. 1..number \subseteq 1..(number + 1)
      BY <1>3
    <3> QED BY <1>1, <3>1, <3>2 DEF ProofHeld
  <2> QED BY <2>1, <2>2
<1> QED BY <1>9, <1>12, <1>14, <1>15 DEF MailInv, MailNumbers

LEMMA ResetCommitKeeps ==
    ASSUME MailInv, NEW r \in Requests, E!ResetCommit(r)
    PROVE  MailInv'
<1> DEFINE l == req[r].l
           u == req[r].l.user
           z == [account[u] EXCEPT !.by = l.to, !.changes = @ + 1]
<1>1. /\ req[r].pc = "resets" /\ account' = [account EXCEPT ![u] = z] /\ E!Used(req[r].l.n)
      /\ E!Proved(u, l.to) /\ E!Ends(r) /\ UNCHANGED <<letters, spent, number>>
  BY DEF E!ResetCommit
<1>2. l \in letters /\ l.kind = "reset"
  BY <1>1 DEF MailInv, MailRequests, Claim
<1>3. u \in Ids /\ l.to \in Person /\ account[u].there /\ account[u] \in E!AccountRow
  BY <1>2, LetterTo
<1>4. /\ z \in E!AccountRow /\ z.email = account[u].email /\ z.by = l.to
      /\ z.proof = account[u].proof /\ z.verified = account[u].verified
  <2> DEFINE old == account[u]
             a == l.to
  <2>1. old \in E!AccountRow /\ a \in Person
    BY <1>3
  <2> HIDE DEF old, a
  <2>2. old.changes + 1 \in Nat
    BY <2>1 DEF E!AccountRow
  <2>3. LET y == [old EXCEPT !.by = a, !.changes = old.changes + 1] IN
        /\ y \in E!AccountRow /\ y.email = old.email /\ y.by = a /\ y.proof = old.proof
        /\ y.verified = old.verified
    BY <2>1, <2>2 DEF E!AccountRow, Person
  <2> QED BY <2>3 DEF old, a
<1>5. Unused(Requests \ {r}) /\ uses' \in [1..MaxNumber -> Nat]
  BY <1>1, UsedAlone
<1> HIDE DEF z, u, l
<1>6. MoreProven /\ l.to \in provers'[u]
  BY <1>1, <1>3, ProvedMore
<1>7. Waits(Requests \ {r}) /\ MoreLetters /\ number' \in 0..MaxNumber /\ number <= number'
  BY <1>1, EndsWaits, NothingMore
<1>8. Elsewhere(u, z.email)
  BY <1>3, <1>4, SameAddress
<1>9. z.verified => z.email \in provers'[u] /\ (z.by # E!Nobody => z.by \in provers'[u])
  BY <1>3, <1>4, <1>6, RowAsItStands
<1>10. MailTypes' /\ MailRows' /\ MailRequests'
  BY <1>1, <1>3, <1>4, <1>5, <1>6, <1>7, <1>8, <1>9, Writes
<1>11. ProofsStay
  BY <1>1, <1>3, <1>4 DEF ProofsStay, MailInv, MailTypes
<1>12. MailNumbers'
  BY <1>1, <1>11, LetterUsed
<1> QED BY <1>10, <1>12 DEF MailInv

\* A commit that writes nothing.
LEMMA NothingWritten ==
    ASSUME MailInv, NEW r \in Requests, E!Ends(r),
           UNCHANGED <<account, letters, spent, number, provers, uses>>
    PROVE  MailInv'
<1>1. req'[r] = E!Idle
  BY DEF MailInv, MailTypes, E!Ends
<1>2. Reads(r)'
  BY <1>1, IdleServes DEF Reads
<1> QED BY <1>2, IdleServes, OnlyReads DEF E!Ends

LEMMA RowUpdated ==
    ASSUME NEW old \in E!AccountRow, NEW w \in Person, NEW k \in Nat, NEW a \in Person,
           NEW p \in [n : 0..MaxNumber, action : E!StepupActions \cup {"none"}]
    PROVE  /\ [old EXCEPT !.by = w, !.changes = k, !.proof = p] \in E!AccountRow
           /\ [old EXCEPT !.pending = a, !.proof = p] \in E!AccountRow
<1>1. [old EXCEPT !.by = w, !.changes = k, !.proof = p] \in E!AccountRow
  BY DEF E!AccountRow, Person
<1>2. [old EXCEPT !.pending = a, !.proof = p] \in E!AccountRow
  BY DEF E!AccountRow, Person
<1> QED BY <1>1, <1>2

LEMMA ChangedRow ==
    ASSUME NEW old \in E!AccountRow, NEW q \in Altering
    PROVE  /\ E!Changed(old, q) \in E!AccountRow /\ E!Changed(old, q).there
           /\ E!Changed(old, q).email = old.email /\ E!Changed(old, q).verified = old.verified
           /\ E!Changed(old, q).by \in {old.by, q.who}
           /\ E!Changed(old, q).proof = IF E!PasswordSet(q.row) THEN old.proof ELSE E!NoProof
<1>1. 0 \in 0..MaxNumber
  BY IdentityAssumption DEF E!MailAssumption
<1>2. E!NoProof \in [n : 0..MaxNumber, action : E!StepupActions \cup {"none"}]
  BY <1>1 DEF E!NoProof
<1> DEFINE p == IF E!PasswordSet(q.row) THEN old.proof ELSE E!NoProof
           w == q.who
           a == q.a
           k == old.changes + 1
<1>3. p \in [n : 0..MaxNumber, action : E!StepupActions \cup {"none"}] /\ w \in Person /\ a \in Person /\ k \in Nat
  BY <1>2 DEF E!AccountRow, Altering
<1>4. E!Changed(old, q) = IF q.action = "password_set" THEN [old EXCEPT !.by = w, !.changes = k, !.proof = p]
                          ELSE [old EXCEPT !.pending = a, !.proof = p]
  BY DEF E!Changed, E!PasswordChanged
<1>5. p = IF E!PasswordSet(q.row) THEN old.proof ELSE E!NoProof
  OBVIOUS
<1>6. w = q.who
  OBVIOUS
<1> HIDE DEF p, w, a, k
<1> DEFINE y == E!Changed(old, q)
<1>7. CASE q.action = "password_set"
  <2>1. y = [old EXCEPT !.by = w, !.changes = k, !.proof = p]
    BY <1>4, <1>7
  <2> HIDE DEF y
  <2>2. y \in E!AccountRow
    BY <1>3, <2>1, RowUpdated
  <2>3. /\ y.there = old.there /\ y.email = old.email /\ y.verified = old.verified
        /\ y.by = w /\ y.proof = p /\ old.there
    BY <2>1 DEF E!AccountRow
  <2> QED BY <1>5, <1>6, <2>2, <2>3 DEF y
<1>8. CASE q.action # "password_set"
  <2>1. y = [old EXCEPT !.pending = a, !.proof = p]
    BY <1>4, <1>8
  <2> HIDE DEF y
  <2>2. y \in E!AccountRow
    BY <1>3, <2>1, RowUpdated
  <2>3. /\ y.there = old.there /\ y.email = old.email /\ y.verified = old.verified
        /\ y.by = old.by /\ y.proof = p /\ old.there
    BY <2>1 DEF E!AccountRow
  <2> QED BY <1>5, <1>6, <2>2, <2>3 DEF y
<1> QED BY <1>7, <1>8

\* A proof that is spent is that of no letter and of no other account.
LEMMA ProofUsed ==
    ASSUME MailInv, NEW u \in Ids, account[u].there, account[u].proof # E!NoProof,
           E!Used(account[u].proof.n), NEW z, account' = [account EXCEPT ![u] = z], z.proof = E!NoProof,
           UNCHANGED <<number, spent>>, \A l \in letters' \ letters : l.kind = "verify"
    PROVE  MailNumbers' /\ Unused(Requests) /\ uses' \in [1..MaxNumber -> Nat]
<1> DEFINE n == account[u].proof.n
<1>1. /\ number \in 0..MaxNumber /\ spent \in SUBSET (1..number) /\ uses \in [1..MaxNumber -> Nat]
      /\ account \in [Ids -> Accounts]
  BY DEF MailInv, MailTypes
<1>2. ProofHeld(u) /\ ProofsApart
  BY DEF MailInv, MailNumbers
<1>3. n \in 1..number /\ uses[n] = 0 /\ \A l \in letters : l.kind # "verify" => l.n # n
  BY <1>2 DEF ProofHeld
<1>4. account'[u] = z /\ \A v \in Ids : v # u => account'[v] = account[v]
  BY <1>1
<1>5. \A v \in Ids : account'[v].there /\ account'[v].proof # E!NoProof =>
         account[v].there /\ account'[v].proof = account[v].proof /\ v # u
  BY <1>4
<1>6. \A v \in Ids : account'[v].there /\ account'[v].proof # E!NoProof => account'[v].proof.n # n
  BY <1>2, <1>5 DEF ProofsApart
<1>7. ProofsStay
  BY <1>5 DEF ProofsStay
<1>8. E!Used(n)
  OBVIOUS
<1> HIDE DEF n
<1>9. MailNumbers'
  BY <1>3, <1>6, <1>7, <1>8, NumbersUsed
<1>10. uses' = [uses EXCEPT ![n] = 1]
  <2>1. uses' = [uses EXCEPT ![n] = uses[n] + 1]
    BY <1>8 DEF E!Used
  <2>2. uses[n] + 1 = 1
    BY <1>3
  <2> QED BY <2>1, <2>2
<1>11. ASSUME NEW d \in Requests, req[d].pc \in {"flushed", "resets"}
       PROVE  uses'[req[d].l.n] = uses[req[d].l.n]
  <2>1. req[d].l \in letters /\ req[d].l.n \in spent /\ req[d].l.kind # "verify"
    BY <1>11 DEF MailInv, MailRequests, Claim
  <2>2. req[d].l.n \in 1..MaxNumber
    BY <2>1, SpentNumbers DEF MailInv
  <2>3. req[d].l.n # n
    BY <1>3, <2>1
  <2> QED BY <1>1, <1>10, <2>2, <2>3
<1>12. uses' \in [1..MaxNumber -> Nat]
  BY <1>1, <1>10
<1> QED BY <1>9, <1>11, <1>12 DEF Unused

LEMMA ChangeCommitKeeps ==
    ASSUME MailInv, NEW r \in Requests, E!ChangeCommit(r)
    PROVE  MailInv'
<1> DEFINE q == req[r]
           u == q.u
           z == E!Changed(account[u], q)
<1>1. q.pc = "changes" /\ E!Ends(r) /\ UNCHANGED <<spent, number, provers>>
  BY DEF E!ChangeCommit
<1>2. q \in Altering /\ u \in Ids /\ q.a \in Person
  BY <1>1, Requested DEF MailInv, Altering
<1>3. account[u].there /\ q.who \in provers[u] /\ (~ E!PasswordSet(q.row) => q.row.proof # E!NoProof)
  BY <1>1 DEF MailInv, MailRequests, Reads
<1>4. account[u] \in E!AccountRow
  BY <1>2, <1>3, RowColumns DEF MailInv
<1>5. CASE ~ E!ProofUnspent(q.row, account[u])
  <2>1. UNCHANGED <<account, letters, uses>>
    BY <1>5 DEF E!ChangeCommit
  <2> QED BY <1>1, <2>1, NothingWritten
<1>6. CASE E!ProofUnspent(q.row, account[u])
  <2>1. /\ account' = [account EXCEPT ![u] = z]
        /\ letters' = (letters \cup {E!VerifyLetter(u, q.a)}) \/ letters' = letters
        /\ IF E!PasswordSet(q.row) THEN UNCHANGED uses
           ELSE E!Used(q.row.proof.n) /\ account[u].proof = q.row.proof
    BY <1>6 DEF E!ChangeCommit, E!ProofUnspent
  <2>2. /\ z \in E!AccountRow /\ z.there /\ z.email = account[u].email /\ z.verified = account[u].verified
        /\ z.by \in {account[u].by, q.who}
        /\ z.proof = IF E!PasswordSet(q.row) THEN account[u].proof ELSE E!NoProof
    BY <1>2, <1>4, ChangedRow
  <2> HIDE DEF z, u, q
  <2>3. account'[u].there
    BY <1>2, <2>1, <2>2 DEF MailInv, MailTypes
  <2>4. MoreLetters /\ \A k \in letters' \ letters : k.kind = "verify"
    <3>1. CASE letters' = letters \cup {E!VerifyLetter(u, q.a)}
      BY <1>2, <2>3, <3>1, VerifyLetterMore
    <3>2. CASE letters' = letters
      BY <3>2, NothingMore
    <3> QED BY <2>1, <3>1, <3>2
  <2>5. /\ Waits(Requests \ {r}) /\ MoreProven /\ number' \in 0..MaxNumber /\ number <= number'
    BY <1>1, EndsWaits, NothingMore
  <2>6. /\ z.verified => z.email \in provers'[u] /\ (z.by # E!Nobody => z.by \in provers'[u])
        /\ z.by \in {account[u].by, E!Nobody} \cup provers'[u]
    BY <1>1, <1>2, <1>3, <2>2, <2>5, RowAsItStands
  <2>7. CASE E!PasswordSet(q.row)
    BY <1>1, <1>2, <1>3, <2>1, <2>2, <2>4, <2>5, <2>6, <2>7, PlainWrite
  <2>8. CASE ~ E!PasswordSet(q.row)
    <3>1. account[u].proof # E!NoProof /\ E!Used(account[u].proof.n) /\ z.proof = E!NoProof
      BY <1>3, <2>1, <2>2, <2>8
    <3>2. MailNumbers' /\ Unused(Requests) /\ uses' \in [1..MaxNumber -> Nat]
      BY <1>1, <1>2, <1>3, <2>1, <2>4, <3>1, ProofUsed
    <3>3. Unused(Requests \ {r})
      BY <3>2 DEF Unused
    <3>4. Elsewhere(u, z.email)
      BY <1>2, <1>3, <2>2, SameAddress
    <3>5. MailTypes' /\ MailRows' /\ MailRequests'
      BY <1>1, <1>2, <1>3, <2>1, <2>2, <2>4, <2>5, <2>6, <3>2, <3>3, <3>4, Writes
    <3> QED BY <3>2, <3>5 DEF MailInv
  <2> QED BY <2>7, <2>8
<1> QED BY <1>5, <1>6

LEMMA GoogleCommitKeeps ==
    ASSUME MailInv, NEW r \in Requests, E!GoogleCommit(r)
    PROVE  MailInv'
<1> DEFINE q == req[r]
           u == q.u
           a == q.a
<1>1. q.pc = "links" /\ E!Ends(r) /\ UNCHANGED <<letters, spent, number, uses>>
  BY DEF E!GoogleCommit
<1>2. u \in Ids /\ a \in Person
  BY <1>1, Requested DEF MailInv, Linking
<1>3. q.row.there => account[u].there /\ account[u].email \in {a} \cup provers[u]
  BY <1>1 DEF MailInv, MailRequests, Reads
<1>4. MailTypes
  BY DEF MailInv
<1>5. CASE UNCHANGED <<account, provers>>
  BY <1>1, <1>5, NothingWritten
<1>6. /\ Waits(Requests \ {r}) /\ MoreLetters /\ uses' \in [1..MaxNumber -> Nat] /\ Unused(Requests \ {r})
      /\ number' \in 0..MaxNumber /\ number <= number'
  BY <1>1, EndsWaits, NothingMore
<1>7. \A l \in letters' \ letters : l.kind = "verify"
  BY <1>1
<1>8. CASE /\ ~ q.row.there /\ u \notin E!Present /\ E!NotTaken(u, a) /\ ~ E!Held(u, a)
           /\ account' = [account EXCEPT ![u] = E!NewAccount(a, TRUE, E!Nobody)] /\ E!Proved(u, a)
  <2> DEFINE z == E!NewAccount(a, TRUE, E!Nobody)
  <2>1. z = [there |-> TRUE, email |-> a, verified |-> TRUE, pending |-> E!Nobody,
             by |-> E!Nobody, changes |-> 0, proof |-> E!NoProof]
    BY DEF E!NewAccount
  <2>2. Elsewhere(u, a) /\ ~ account[u].there
    BY <1>2, <1>8 DEF E!NotTaken, E!Named, E!Present, Elsewhere
  <2>3. Clear(Requests \ {r}, u, a)
    BY <1>8 DEF E!Held, Clear
  <2>4. account' = [account EXCEPT ![u] = z] /\ E!Proved(u, a)
    BY <1>8
  <2> HIDE DEF z, u, a, q
  <2>5. z \in E!AccountRow /\ z.email = a /\ z.by = E!Nobody /\ z.proof = E!NoProof
    <3>1. E!Nobody \in Person \cup {E!Nobody} /\ TRUE \in BOOLEAN
      OBVIOUS
    <3> QED BY <1>2, <2>1, <3>1, NewAccountRow
  <2>6. MoreProven /\ a \in provers'[u]
    BY <1>2, <2>4, ProvedMore
  <2>7. MailTypes' /\ MailRows' /\ MailRequests'
    BY <1>1, <1>2, <1>6, <2>2, <2>3, <2>4, <2>5, <2>6, Writes
  <2>8. ProofsStay
    BY <1>2, <1>4, <2>4, <2>5 DEF ProofsStay, MailTypes
  <2>9. MailNumbers'
    BY <1>1, <1>7, <2>8, NumbersStay
  <2> QED BY <2>7, <2>9 DEF MailInv
<1>9. CASE /\ q.row.there /\ E!Proved(u, a)
           /\ account' = [account EXCEPT ![u] = IF q.row.verified THEN @ ELSE E!LinkedByGoogle(@)]
  <2> DEFINE z == IF q.row.verified THEN account[u] ELSE E!LinkedByGoogle(account[u])
  <2>1. account[u] \in E!AccountRow
    BY <1>2, <1>3, <1>4, <1>9, RowColumns
  <2>2. account' = [account EXCEPT ![u] = z]
    BY <1>9
  <2>3. /\ z \in E!AccountRow /\ z.email = account[u].email /\ z.proof = account[u].proof
        /\ z = account[u] \/ z.by = E!Nobody
    BY <2>1 DEF E!LinkedByGoogle, E!AccountRow
  <2> HIDE DEF z, u, a, q
  <2>4. MoreProven /\ a \in provers'[u]
    BY <1>2, <1>9, ProvedMore
  <2>5. z.email \in provers'[u] \/ z = account[u]
    BY <1>2, <1>3, <1>9, <2>3, <2>4 DEF MoreProven
  <2>6. account[u].there
    BY <1>3, <1>9
  <2>7. z.verified => z.email \in provers'[u] /\ (z.by # E!Nobody => z.by \in provers'[u])
    BY <1>2, <2>3, <2>4, <2>5, <2>6, RowAsItStands
  <2>8. z.by \in {account[u].by, E!Nobody} \cup provers'[u]
    BY <2>3
  <2> QED BY <1>1, <1>2, <1>6, <1>7, <2>2, <2>3, <2>4, <2>6, <2>7, <2>8, PlainWrite
<1> QED BY <1>5, <1>8, <1>9 DEF E!GoogleCommit

LEMMA MailStepKeeps ==
    ASSUME MailInv, E!MailNext
    PROVE  MailInv'
<1>1. ASSUME NEW u \in Ids, NEW a \in Person, NEW who \in Person, E!Register(u, a, who)
      PROVE  MailInv'
  BY <1>1, RegisterKeeps
<1>2. ASSUME NEW a \in Person, E!SignupStart(a)
      PROVE  MailInv'
  BY <1>2, SignupStartKeeps
<1>3. ASSUME NEW u \in Ids, E!ForgotPassword(u) \/ E!CancelPending(u)
      PROVE  MailInv'
  BY <1>3, ForgotPasswordKeeps, CancelKeeps
<1>4. ASSUME NEW u \in Ids, NEW action \in E!StepupActions, E!IssueStepup(u, action)
      PROVE  MailInv'
  BY <1>4, IssueKeeps
<1>5. ASSUME NEW r \in Requests, NEW l \in letters,
             \/ \E u \in Ids : E!SignupFlush(r, l, u)
             \/ E!VerifyRead(r, l)
             \/ E!ResetClaim(r, l)
      PROVE  MailInv'
  BY <1>5, SignupFlushKeeps, VerifyReadKeeps, ResetClaimKeeps
<1>6. ASSUME NEW r \in Requests, NEW u \in Ids, NEW a \in Person,
             \/ E!AdminRead(r, u, a)
             \/ E!GoogleRead(r, u, a)
             \/ \E who \in Person, action \in E!StepupActions : E!ChangeRead(r, u, who, action, a)
      PROVE  MailInv'
  BY <1>6, AdminReadKeeps, GoogleReadKeeps, ChangeReadKeeps
<1>7. ASSUME NEW r \in Requests,
             \/ E!SignupCommit(r) \/ E!VerifyCommit(r) \/ E!PromoteCommit(r) \/ E!AdminCommit(r)
             \/ E!ChangeCommit(r) \/ E!ResetCommit(r) \/ E!GoogleCommit(r) \/ E!DropRequest(r)
      PROVE  MailInv'
  BY <1>7, SignupCommitKeeps, VerifyCommitKeeps, PromoteCommitKeeps, AdminCommitKeeps,
     ChangeCommitKeeps, ResetCommitKeeps, GoogleCommitKeeps, DropKeeps
<1> QED BY <1>1, <1>2, <1>3, <1>4, <1>5, <1>6, <1>7 DEF E!MailNext, Person

LEMMA MailStart ==
    ASSUME E!MailInit
    PROVE  MailInv
<1>1. /\ account = [u \in Ids |-> E!NoAccount] /\ letters = {} /\ spent = {} /\ number = 0
      /\ req = [r \in Requests |-> E!Idle] /\ provers = [u \in Ids |-> {}]
      /\ uses = [n \in 1..MaxNumber |-> 0]
  BY DEF E!MailInit
<1>2. E!NoAccount.there = FALSE
  BY DEF E!NoAccount
<1>3. 0 \in 0..MaxNumber
  BY IdentityAssumption DEF E!MailAssumption
<1>4. MailTypes
  BY <1>1, <1>3, IdleServes DEF MailTypes, Accounts
<1>5. MailRows
  BY <1>1, <1>2 DEF MailRows, EmailsApart, LettersKnown, RowProven
<1>6. MailRequests
  BY <1>1, IdleServes DEF MailRequests, ClaimsApart, Claim, Reads
<1>7. MailNumbers
  BY <1>1, <1>2 DEF MailNumbers, LetterNumbers, UsesCounted, ProofsApart, ProofHeld
<1> QED BY <1>4, <1>5, <1>6, <1>7 DEF MailInv

\* A verified account reads an address that was shown to be its owner's, and has
\* no password but the owner's; a letter and a proof serve once, whatever requests
\* overlap or die (auth, users).
THEOREM MailCorrect == Spec => []MailSafe
<1> DEFINE Inv == focus = "mail" => MailInv
<1>1. Init => Inv
  BY MailStart DEF Init
<1>2. Inv /\ [Next]_identityVars => Inv'
  <2> SUFFICES ASSUME Inv, [Next]_identityVars, focus' = "mail"
               PROVE  MailInv'
    OBVIOUS
  <2>1. CASE MailStep
    BY <2>1, MailStepKeeps DEF MailStep
  <2>2. CASE UNCHANGED identityVars
    <3>1. focus = "mail" /\ UNCHANGED mailVars
      BY <2>2 DEF identityVars
    <3>2. UNCHANGED <<account, letters, spent, number, req, provers, uses>>
      BY <3>1 DEF mailVars
    <3> QED BY <3>1, <3>2 DEF MailInv, MailTypes, MailRows, EmailsApart, LettersKnown, RowProven,
                  MailRequests, ClaimsApart, Claim, Unnamed, Reads,
                  MailNumbers, LetterNumbers, UsesCounted, ProofsApart, ProofHeld
  <2>3. CASE MfaStep \/ MemberStep \/ SignInStep \/ GrantStep
    BY <2>3 DEF MfaStep, MemberStep, SignInStep, GrantStep, GrantFoci, G!Next
  <2> QED BY <2>1, <2>2, <2>3 DEF Next
<1>3. Inv => MailSafe
  <2> SUFFICES ASSUME MailInv
               PROVE  E!MailTypeOK /\ E!AddressProven /\ E!PasswordProven /\ E!NumberOnce
    BY DEF MailSafe
  <2>1. MailTypes /\ EmailsApart /\ LettersKnown /\ \A u \in Ids : RowProven(u)
    BY DEF MailInv, MailRows
  <2>2. \A u \in E!Present : u \in Ids /\ account[u].there
    BY DEF E!Present
  <2>3. E!AddressProven /\ E!PasswordProven
    BY <2>1, <2>2 DEF RowProven, E!AddressProven, E!PasswordProven, E!PasswordSet
  <2>4. E!MailTypeOK
    <3>1. \A u \in E!Present : account[u] \in E!AccountRow
      BY <2>1, <2>2, RowColumns
    <3>2. \A u, v \in E!Present : account[u].email = account[v].email => u = v
      BY <2>1, <2>2 DEF EmailsApart
    <3>3. \A l \in letters : l.user # E!Nobody => l.user \in E!Present
      BY <2>1 DEF LettersKnown, E!Present
    <3>4. spent \subseteq 1..number
      BY <2>1 DEF MailTypes
    <3> QED BY <3>1, <3>2, <3>3, <3>4 DEF E!MailTypeOK
  <2>5. E!NumberOnce
    BY DEF MailInv, MailNumbers, UsesCounted, E!NumberOnce
  <2> QED BY <2>3, <2>4, <2>5
<1> QED BY <1>1, <1>2, <1>3, PTL DEF Spec
-----------------------------------------------------------------------------
(* Grants: a request that rotates a refresh token holds its row, and room     *)
(* under the cap.                                                             *)

Granting == [pc : {"grants"}, kind : {"api", "agent", "oauth"}, client : Clients \cup {G!NoClient},
             scope : G!Scopes, seen : Nat, began : Nat]
Naming == [pc : {"reused", "exchanges", "ends", "stages"}, r : Rows]
Rotating == [pc : {"rotates"}, r : Rows, n : 1..MaxSerial]
Lowering == [pc : {"lowers"}, r : Rows, scope : G!Scopes]
Asking == {G!Rest} \cup Granting \cup Naming \cup Rotating \cup Lowering

GrantTypes ==
    /\ token \in [Rows -> G!TokenRow \cup {G!NoRow}]
    /\ clients \subseteq Clients
    /\ clock \in Nat /\ cutoff \in 0..clock
    /\ asking \in [Requests -> Asking]
    /\ pending \in [Rows -> SUBSET {"early", "late"}]
    /\ honoured \in [Rows -> [0..MaxSerial -> Nat]]

\* A row that is there: its serials, its client, and when it was granted.
GrantRow(r) ==
    token[r] # G!NoRow =>
        /\ token[r].refresh # 0 => token[r].prev = token[r].refresh - 1
        /\ token[r].refresh = 0 => token[r].prev = 0 /\ ~ token[r].renews
        /\ token[r].client # G!NoClient => token[r].client \in clients
        /\ token[r].kind = "oauth" => token[r].scope \in G!OAuthScopes
        /\ token[r].created <= clock
        /\ token[r].kind \in G!AgentKinds /\ token[r].created > cutoff => token[r].began > cutoff
        /\ token[r].revoked => "early" \notin pending[r]
\* Serials that were not issued were not answered.
Answers(r) ==
    \A n \in 0..MaxSerial :
        /\ honoured[r][n] <= 1
        /\ token[r] = G!NoRow \/ n >= token[r].refresh => honoured[r][n] = 0
\* What a request may rely on after it read the row.
Asks(q) ==
    /\ q.pc = "grants" =>
        /\ focus = "consent"
        /\ q.began > q.seen /\ q.seen <= cutoff /\ q.began <= clock
        /\ q.kind # "oauth" => q.client = G!NoClient
        /\ q.kind = "oauth" => q.scope \in G!OAuthScopes
    /\ q.pc \in {"reused", "ends", "rotates"} => token[q.r].kind = "oauth" /\ token[q.r].refresh # 0
    /\ q.pc = "rotates" => token[q.r].refresh = q.n /\ q.n < MaxSerial
    /\ q.pc = "lowers" => focus = "agent" /\ (token[q.r].kind = "oauth" => q.scope = 1)
HeldOnce == \A c, d \in Requests, r \in Rows : c \in G!Holders(r) /\ d \in G!Holders(r) => c = d
Rotated(r) == \E c \in Requests : asking[c].pc = "rotates" /\ asking[c].r = r
\* Room under the cap: live tokens, and those a request under way makes live again.
Reserved ==
    {r \in Rows :
        G!Counted(r) \/ (Rotated(r) /\ token[r].kind = "oauth" /\ token[r].created > cutoff)}

GrantInv ==
    /\ GrantTypes
    /\ \A r \in Rows : GrantRow(r) /\ Answers(r)
    /\ \A c \in Requests : Asks(asking[c])
    /\ HeldOnce
    /\ Cardinality(Reserved) <= MaxLive

LEMMA GrantNumbers ==
    /\ MaxLive \in Nat \ {0} /\ MaxSerial \in Nat \ {0}
    /\ IsFiniteSet(Rows)
    /\ Clients # {}
  BY IdentityAssumption DEF G!GrantAssumption, G!IsFiniteSet, IsFiniteSet

\* A row that is there, and the one that is not.
LEMMA GrantRows ==
    ASSUME NEW r \in Rows, GrantTypes
    PROVE  /\ token[r] = G!NoRow => token[r].kind = "none"
           /\ token[r] # G!NoRow =>
                /\ token[r] \in G!TokenRow
                /\ token[r].kind \in {"api", "agent", "oauth"}
                /\ token[r].client \in Clients \cup {G!NoClient}
                /\ token[r].scope \in G!Scopes
                /\ token[r].created \in Nat /\ token[r].began \in Nat
                /\ token[r].access \in BOOLEAN /\ token[r].renews \in BOOLEAN
                /\ token[r].revoked \in BOOLEAN
                /\ token[r].refresh \in 0..MaxSerial /\ token[r].prev \in 0..MaxSerial
                /\ token[r].stage \in 0..3
           /\ DOMAIN token = Rows
<1>1. token[r] \in G!TokenRow \cup {G!NoRow} /\ DOMAIN token = Rows
  BY DEF GrantTypes
<1>2. G!NoRow.kind = "none"
  BY DEF G!NoRow
<1>3. CASE token[r] = G!NoRow
  BY <1>1, <1>2, <1>3
<1>4. CASE token[r] # G!NoRow
  <2>1. token[r] \in G!TokenRow
    BY <1>1, <1>4
  <2>2. QED
    BY <1>1, <1>4, <2>1 DEF G!TokenRow, G!AgentKinds
<1>5. QED
  BY <1>3, <1>4

\* A request of each kind.
LEMMA AskingFields ==
    ASSUME NEW q \in Asking
    PROVE  /\ q.pc \in {"rest", "grants", "reused", "exchanges", "ends", "stages", "rotates", "lowers"}
           /\ q.pc = "rest" => q = G!Rest
           /\ q.pc = "grants" =>
                /\ q.kind \in {"api", "agent", "oauth"} /\ q.client \in Clients \cup {G!NoClient}
                /\ q.scope \in G!Scopes /\ q.seen \in Nat /\ q.began \in Nat
           /\ q.pc \in {"reused", "exchanges", "ends", "stages", "rotates", "lowers"} => q.r \in Rows
           /\ q.pc = "rotates" => q.n \in 1..MaxSerial
           /\ q.pc = "lowers" => q.scope \in G!Scopes
<1>1. CASE q = G!Rest
  BY <1>1 DEF G!Rest
<1>2. CASE q \in Granting
  BY <1>2 DEF Granting
<1>3. CASE q \in Naming
  BY <1>3 DEF Naming
<1>4. CASE q \in Rotating
  BY <1>4 DEF Rotating
<1>5. CASE q \in Lowering
  BY <1>5 DEF Lowering
<1>6. QED
  BY <1>1, <1>2, <1>3, <1>4, <1>5 DEF Asking

LEMMA RestAsks == G!Rest \in Asking /\ G!Rest.pc = "rest" /\ Asks(G!Rest)
  BY DEF Asking, Asks, G!Rest

\* The cap holds while no other token takes room under it.
LEMMA RoomKept ==
    ASSUME Cardinality(Reserved) <= MaxLive, Reserved' \subseteq Reserved
    PROVE  (Cardinality(Reserved) <= MaxLive)'
<1>1. Reserved \subseteq Rows
  BY DEF Reserved
<1>2. IsFiniteSet(Reserved)
  BY <1>1, GrantNumbers, FS_Subset
<1>3. IsFiniteSet(Reserved') /\ Cardinality(Reserved') <= Cardinality(Reserved)
  BY <1>2, FS_Subset
<1>4. Cardinality(Reserved) \in Nat /\ Cardinality(Reserved') \in Nat
  BY <1>2, <1>3, FS_CardinalityType
<1>5. Cardinality(Reserved') <= MaxLive
  BY <1>3, <1>4, GrantNumbers
<1>6. QED
  BY <1>5

\* A request leaves: fewer hold rows.
Leaving == asking' = asking \/ \E c \in Requests : asking' = [asking EXCEPT ![c] = G!Rest]

LEMMA LeavingKeeps ==
    ASSUME GrantTypes, HeldOnce, Leaving
    PROVE  /\ asking' \in [Requests -> Asking] /\ HeldOnce'
           /\ \A d \in Requests : asking'[d] = asking[d] \/ asking'[d] = G!Rest
           /\ \A r \in Rows : Rotated(r)' => Rotated(r)
<1>1. asking \in [Requests -> Asking]
  BY DEF GrantTypes
<1>2. /\ asking' \in [Requests -> Asking]
      /\ \A d \in Requests : asking'[d] = asking[d] \/ asking'[d] = G!Rest
  BY <1>1, RestAsks DEF Leaving
<1>3. \A d \in Requests, r \in Rows : d \in G!Holders(r)' => d \in G!Holders(r)
  BY <1>2, RestAsks DEF G!Holders
<1>4. HeldOnce'
  BY <1>3 DEF HeldOnce
<1>5. \A r \in Rows : Rotated(r)' => Rotated(r)
  BY <1>2, RestAsks DEF Rotated
<1>6. QED
  BY <1>2, <1>4, <1>5

\* A request begins, or ends and wrote nothing.
LEMMA AskingKeeps ==
    ASSUME GrantInv, NEW c \in Requests, NEW q \in Asking,
           asking' = [asking EXCEPT ![c] = q],
           UNCHANGED <<focus, token, clients, clock, cutoff, pending, honoured>>,
           Asks(q), q.pc \in {"rotates", "ends"} => G!FreeForAll(q.r),
           q.pc = "rotates" => q.r \in Reserved
    PROVE  GrantInv'
<1>1. GrantTypes' /\ \A d \in Requests : asking'[d] = IF d = c THEN q ELSE asking[d]
  BY DEF GrantInv, GrantTypes
<1>2. \A r \in Rows : (GrantRow(r) /\ Answers(r))'
  BY DEF GrantInv, GrantRow, Answers, G!AgentKinds, G!OAuthScopes
<1>3. ASSUME NEW d \in Requests
      PROVE  Asks(asking[d])'
  <2>1. Asks(asking'[d])
    BY <1>1 DEF GrantInv
  <2>2. QED
    BY <2>1 DEF Asks
<1>4. HeldOnce'
  <2>1. \A d \in Requests, r \in Rows :
           d \in G!Holders(r)' => d \in G!Holders(r) \/ (d = c /\ G!FreeForAll(r))
    BY <1>1 DEF G!Holders
  <2>2. QED
    BY <2>1 DEF GrantInv, HeldOnce, G!FreeForAll
<1>5. (Cardinality(Reserved) <= MaxLive)'
  <2>1. \A r \in Rows : Rotated(r)' => Rotated(r) \/ r \in Reserved
    BY <1>1 DEF Rotated
  <2>2. \A r \in Rows : G!Counted(r)' <=> G!Counted(r)
    BY DEF G!Counted, G!Is, G!Live
  <2>3. Reserved' \subseteq Reserved
    BY <2>1, <2>2 DEF Reserved
  <2>4. QED
    BY <2>3, RoomKept DEF GrantInv
<1>6. QED
  BY <1>1, <1>2, <1>3, <1>4, <1>5 DEF GrantInv

\* A row is revoked, lapses, is lowered or is reminded of: what it can do and
\* what it is do not grow.
Lapses(r) ==
    /\ token[r] = G!NoRow => token'[r] = G!NoRow
    /\ token[r] # G!NoRow =>
        /\ token'[r] \in G!TokenRow
        /\ token'[r].kind = token[r].kind /\ token'[r].client = token[r].client
        /\ token'[r].created = token[r].created /\ token'[r].began = token[r].began
        /\ token'[r].refresh = token[r].refresh /\ token'[r].prev = token[r].prev
        /\ token'[r].kind = "oauth" => token'[r].scope \in G!OAuthScopes
        /\ token'[r].renews => token[r].renews
        /\ token'[r].access => token[r].access
        /\ token[r].revoked => token'[r].revoked
        /\ token'[r].revoked => "early" \notin pending'[r]

LEMMA LapsesKeeps ==
    ASSUME GrantInv, Leaving, UNCHANGED <<focus, clients, clock, cutoff, honoured>>,
           token' = [r \in Rows |-> token'[r]], \A r \in Rows : Lapses(r),
           pending' \in [Rows -> SUBSET {"early", "late"}]
    PROVE  GrantInv'
<1> USE DEF GrantInv
<1>1. GrantTypes'
  <2>1. asking' \in [Requests -> Asking]
    BY LeavingKeeps
  <2>2. \A r \in Rows : token'[r] \in G!TokenRow \cup {G!NoRow}
    BY DEF Lapses
  <2>3. token' \in [Rows -> G!TokenRow \cup {G!NoRow}]
    BY <2>2
  <2>4. QED
    BY <2>1, <2>3 DEF GrantTypes
<1>2. ASSUME NEW r \in Rows
      PROVE  /\ token'[r] = G!NoRow <=> token[r] = G!NoRow
             /\ token'[r].kind = token[r].kind
             /\ token[r] # G!NoRow => token'[r].refresh = token[r].refresh
  <2>1. G!NoRow \notin G!TokenRow
    BY DEF G!NoRow, G!TokenRow, G!AgentKinds
  <2>2. QED
    BY <2>1 DEF Lapses
<1>3. ASSUME NEW r \in Rows
      PROVE  GrantRow(r)' /\ Answers(r)'
  <2>1. Lapses(r) /\ GrantRow(r) /\ Answers(r)
    OBVIOUS
  <2>2. GrantRow(r)'
    BY <2>1, <1>2 DEF GrantRow, Lapses
  <2>3. Answers(r)'
    BY <2>1, <1>2 DEF Answers
  <2>4. QED
    BY <2>2, <2>3
<1>4. ASSUME NEW d \in Requests
      PROVE  Asks(asking[d])'
  <2>1. asking[d] \in Asking /\ Asks(asking[d])
    BY DEF GrantTypes
  <2>2. CASE asking'[d] = G!Rest
    BY <2>2, RestAsks DEF Asks
  <2>3. CASE asking'[d] = asking[d]
    <3> DEFINE q == asking[d]
    <3>1. q.pc \in {"reused", "ends", "rotates", "lowers"} =>
            /\ q.r \in Rows /\ token'[q.r].kind = token[q.r].kind
            /\ token[q.r].kind = "oauth" => token[q.r] # G!NoRow
      BY <2>1, <1>2, AskingFields DEF G!NoRow
    <3>2. QED
      BY <2>1, <2>3, <3>1, <1>2 DEF Asks
  <2>4. QED
    BY <2>2, <2>3, LeavingKeeps
<1>5. HeldOnce'
  BY LeavingKeeps
<1>6. (Cardinality(Reserved) <= MaxLive)'
  <2>1. ASSUME NEW r \in Rows, r \in Reserved'
        PROVE  r \in Reserved
    <3>1. token[r] # G!NoRow
      BY <2>1, <1>2, GrantRows DEF Reserved, G!Counted, G!Is, G!AgentKinds
    <3>2. Rotated(r)' => Rotated(r)
      BY LeavingKeeps
    <3>3. QED
      BY <2>1, <3>1, <3>2 DEF Reserved, G!Counted, G!Is, G!Live, Lapses
  <2>2. Reserved' \subseteq Reserved
    BY <2>1 DEF Reserved
  <2>3. QED
    BY <2>2, RoomKept
<1>7. QED
  BY <1>1, <1>3, <1>4, <1>5, <1>6

LEMMA GrantingAsks ==
    ASSUME GrantInv, focus = "consent", NEW kind \in {"api", "agent", "oauth"},
           NEW k \in Clients \cup {G!NoClient}, NEW s \in G!Scopes, clock > cutoff,
           kind # "oauth" => k = G!NoClient, kind = "oauth" => s \in G!OAuthScopes
    PROVE  LET q == [pc |-> "grants", kind |-> kind, client |-> k, scope |-> s,
                     seen |-> cutoff, began |-> clock]
           IN  q \in Asking /\ Asks(q) /\ q.pc = "grants"
<1>1. clock \in Nat /\ cutoff \in Nat
  BY DEF GrantInv, GrantTypes
<1> DEFINE q == [pc |-> "grants", kind |-> kind, client |-> k, scope |-> s,
                 seen |-> cutoff, began |-> clock]
<1>2. q \in Granting
  BY <1>1 DEF Granting
<1>3. q \in Asking
  BY <1>2 DEF Asking
<1>4. Asks(q)
  BY <1>1 DEF Asks
<1>5. QED
  BY <1>3, <1>4

\* A consent or a mint begins: the owner's cutoff is what it saw.
LEMMA BeginsKeeps ==
    ASSUME GrantInv, focus = "consent", UNCHANGED focus, NEW c \in Requests,
           NEW kind \in {"api", "agent", "oauth"}, NEW k \in Clients \cup {G!NoClient},
           NEW s \in G!Scopes, kind # "oauth" => k = G!NoClient,
           kind = "oauth" => s \in G!OAuthScopes, G!Begins(c, kind, k, s)
    PROVE  GrantInv'
<1> DEFINE q == [pc |-> "grants", kind |-> kind, client |-> k, scope |-> s,
                 seen |-> cutoff, began |-> clock]
<1>1. clock > cutoff /\ asking' = [asking EXCEPT ![c] = q]
  BY DEF G!Begins, G!Enters
<1>2. q \in Asking /\ Asks(q) /\ q.pc = "grants"
  BY <1>1, GrantingAsks
<1>3. UNCHANGED <<focus, token, clients, clock, cutoff, pending, honoured>>
  BY DEF G!Begins
<1> HIDE DEF q
<1>4. QED
  BY <1>1, <1>2, <1>3, AskingKeeps

\* A request leaves: refused, lost, or failed before it wrote.
LEMMA LeavesKeeps ==
    ASSUME GrantInv, NEW c \in Requests, G!Leaves(c),
           UNCHANGED <<focus, token, clients, clock, cutoff, pending, honoured>>
    PROVE  GrantInv'
<1>1. asking' = [asking EXCEPT ![c] = G!Rest]
  BY DEF G!Leaves
<1>2. QED
  BY <1>1, RestAsks, AskingKeeps

\* A row is named by a request that relies on nothing but what it was.
LEMMA NamingAsks ==
    ASSUME NEW r \in Rows, NEW pc \in {"reused", "exchanges", "ends", "stages"},
           pc \in {"reused", "ends"} => token[r].kind = "oauth" /\ token[r].refresh # 0
    PROVE  [pc |-> pc, r |-> r] \in Asking /\ Asks([pc |-> pc, r |-> r])
  BY DEF Asking, Naming, Asks

LEMMA NamesKeeps ==
    ASSUME GrantInv, NEW c \in Requests, NEW r \in Rows,
           NEW pc \in {"reused", "exchanges", "ends", "stages"},
           pc \in {"reused", "ends"} => token[r].kind = "oauth" /\ token[r].refresh # 0,
           pc = "ends" => G!FreeForAll(r),
           G!Enters(c, [pc |-> pc, r |-> r]),
           UNCHANGED <<focus, token, clients, clock, cutoff, pending, honoured>>
    PROVE  GrantInv'
<1> DEFINE q == [pc |-> pc, r |-> r]
<1>1. asking' = [asking EXCEPT ![c] = q]
  BY DEF G!Enters
<1>2. q \in Asking /\ Asks(q)
  BY NamingAsks
<1>3. q.pc = pc /\ q.r = r
  OBVIOUS
<1> HIDE DEF q
<1>4. QED
  BY <1>1, <1>2, <1>3, AskingKeeps

LEMMA AskExchangeKeeps ==
    ASSUME GrantInv, UNCHANGED focus, NEW c \in Requests, NEW r \in Rows, G!AskExchange(c, r)
    PROVE  GrantInv'
<1>1. token[r].kind = "oauth"
  BY DEF G!AskExchange, G!Is
<1>2. UNCHANGED <<focus, token, clients, clock, cutoff, pending, honoured>>
  BY DEF G!AskExchange
<1>3. CASE token[r].refresh # 0 /\ G!Enters(c, [pc |-> "reused", r |-> r])
  BY <1>1, <1>2, <1>3, NamesKeeps
<1>4. CASE G!Enters(c, [pc |-> "exchanges", r |-> r])
  BY <1>2, <1>4, NamesKeeps
<1>5. QED
  BY <1>3, <1>4 DEF G!AskExchange

LEMMA AskStageKeeps ==
    ASSUME GrantInv, UNCHANGED focus, NEW c \in Requests, NEW r \in Rows, G!AskStage(c, r)
    PROVE  GrantInv'
<1>1. /\ G!Enters(c, [pc |-> "stages", r |-> r])
      /\ UNCHANGED <<focus, token, clients, clock, cutoff, pending, honoured>>
  BY DEF G!AskStage
<1>2. QED
  BY <1>1, NamesKeeps

LEMMA AskRefreshKeeps ==
    ASSUME GrantInv, UNCHANGED focus, NEW c \in Requests, NEW r \in Rows,
           NEW n \in 1..MaxSerial, G!AskRefresh(c, r, n)
    PROVE  GrantInv'
<1>1. /\ token[r].kind = "oauth" /\ G!FreeForAll(r)
      /\ UNCHANGED <<focus, token, clients, clock, cutoff, pending, honoured>>
  BY DEF G!AskRefresh, G!Is
<1>2. token[r] # G!NoRow
  BY <1>1 DEF G!NoRow
<1>3. CASE /\ G!Current(r, n) /\ n < MaxSerial /\ ~ token[r].revoked /\ token[r].renews
           /\ G!OwnerOk(r) /\ G!Enters(c, [pc |-> "rotates", r |-> r, n |-> n])
  <2> DEFINE q == [pc |-> "rotates", r |-> r, n |-> n]
  <2>1. asking' = [asking EXCEPT ![c] = q]
    BY <1>3 DEF G!Enters
  <2>2. q \in Asking
    BY DEF Asking, Rotating
  <2>3. Asks(q)
    BY <1>1, <1>3 DEF Asks, G!Current
  <2>4. r \in Reserved
    BY <1>1, <1>3 DEF Reserved, G!Counted, G!Is, G!Live, G!OwnerOk, G!AgentKinds
  <2>5. q.pc = "rotates" /\ q.r = r
    OBVIOUS
  <2> HIDE DEF q
  <2>6. QED
    BY <1>1, <2>1, <2>2, <2>3, <2>4, <2>5, AskingKeeps
<1>4. CASE /\ ~ G!Current(r, n) /\ n = token[r].prev
           /\ G!Enters(c, [pc |-> "ends", r |-> r])
  <2>1. GrantTypes /\ GrantRow(r)
    BY DEF GrantInv
  <2>2. token[r].refresh \in 0..MaxSerial
    BY <2>1, <1>2, GrantRows
  <2>3. token[r].refresh # 0
    BY <1>2, <1>4, <2>1, <2>2 DEF GrantRow
  <2>4. QED
    BY <1>1, <1>4, <2>3, NamesKeeps
<1>5. QED
  BY <1>3, <1>4 DEF G!AskRefresh

LEMMA AskDowngradeKeeps ==
    ASSUME GrantInv, UNCHANGED focus, focus = "agent", NEW c \in Requests, NEW r \in Rows,
           NEW s \in G!Scopes, G!AskDowngrade(c, r, s)
    PROVE  GrantInv'
<1> DEFINE q == [pc |-> "lowers", r |-> r, scope |-> s]
<1>1. /\ asking' = [asking EXCEPT ![c] = q]
      /\ UNCHANGED <<focus, token, clients, clock, cutoff, pending, honoured>>
  BY DEF G!AskDowngrade, G!Enters
<1>2. q \in Asking
  BY DEF Asking, Lowering
<1>3. token[r].kind = "oauth" => s = 1
  <2>1. GrantTypes /\ GrantRow(r)
    BY DEF GrantInv
  <2>2. s < token[r].scope /\ token[r] # G!NoRow
    BY DEF G!AskDowngrade, G!Is, G!NoRow, G!AgentKinds
  <2>3. QED
    BY <2>1, <2>2 DEF GrantRow, G!OAuthScopes, G!Scopes
<1>4. Asks(q)
  BY <1>3 DEF Asks
<1>5. q.pc = "lowers"
  OBVIOUS
<1> HIDE DEF q
<1>6. QED
  BY <1>1, <1>2, <1>4, <1>5, AskingKeeps

\* What is revoked keeps its row, and the actions it had staged are cancelled.
LEMMA RevokedLapses ==
    ASSUME GrantInv, NEW R \in SUBSET Rows, NEW K \in SUBSET Rows,
           token' = G!Revoked(R), pending' = G!Cancelled(K),
           \A r \in R : token[r].kind # "none", \A r \in R \ K : token[r].revoked
    PROVE  /\ token' = [r \in Rows |-> token'[r]]
           /\ pending' \in [Rows -> SUBSET {"early", "late"}]
           /\ \A r \in Rows : Lapses(r)
<1>1. GrantTypes
  BY DEF GrantInv
<1>2. /\ \A r \in Rows : token'[r] = IF r \in R THEN [token[r] EXCEPT !.revoked = TRUE] ELSE token[r]
      /\ \A r \in Rows : pending'[r] = IF r \in K THEN {} ELSE pending[r]
      /\ token' = [r \in Rows |-> token'[r]]
      /\ pending' \in [Rows -> SUBSET {"early", "late"}]
  BY <1>1 DEF G!Revoked, G!Cancelled, GrantTypes
<1>3. ASSUME NEW r \in Rows
      PROVE  Lapses(r)
  <2>1. GrantRow(r)
    BY DEF GrantInv
  <2>2. CASE r \notin R
    BY <1>1, <1>2, <2>1, <2>2, GrantRows DEF GrantRow, Lapses
  <2>3. CASE r \in R
    <3>1. token[r] # G!NoRow /\ token[r] \in G!TokenRow
      BY <1>1, <2>3, GrantRows
    <3>2. token'[r] = [token[r] EXCEPT !.revoked = TRUE]
      BY <1>2, <2>3
    <3>3. token'[r] \in G!TokenRow
      BY <3>1, <3>2 DEF G!TokenRow
    <3>4. /\ token'[r].kind = token[r].kind /\ token'[r].client = token[r].client
          /\ token'[r].created = token[r].created /\ token'[r].began = token[r].began
          /\ token'[r].refresh = token[r].refresh /\ token'[r].prev = token[r].prev
          /\ token'[r].scope = token[r].scope /\ token'[r].renews = token[r].renews
          /\ token'[r].access = token[r].access /\ token'[r].revoked
      BY <3>1, <3>2 DEF G!TokenRow
    <3>5. "early" \notin pending'[r]
      BY <1>2, <2>1, <2>3, <3>1 DEF GrantRow
    <3>6. QED
      BY <2>1, <3>1, <3>3, <3>4, <3>5 DEF GrantRow, Lapses
  <2>4. QED
    BY <2>2, <2>3
<1>4. QED
  BY <1>2, <1>3

LEMMA RevokeOneKeeps ==
    ASSUME GrantInv, UNCHANGED focus, NEW r \in Rows, G!RevokeOne(r)
    PROVE  GrantInv'
<1>1. token[r].kind # "none"
  BY GrantRows DEF GrantInv, G!RevokeOne
<1>2. /\ token' = G!Revoked({r}) /\ pending' = G!Cancelled({r})
      /\ UNCHANGED <<focus, clients, clock, cutoff, asking, honoured>>
  BY DEF G!RevokeOne
<1>3. /\ token' = [x \in Rows |-> token'[x]]
      /\ pending' \in [Rows -> SUBSET {"early", "late"}]
      /\ \A x \in Rows : Lapses(x)
  BY <1>1, <1>2, RevokedLapses
<1>4. QED
  BY <1>2, <1>3, LapsesKeeps DEF Leaving

LEMMA RevokeAllKeeps ==
    ASSUME GrantInv, UNCHANGED focus,
           NEW kinds \in {G!AgentKinds, {"api", "agent", "oauth"}}, G!RevokeAll(kinds)
    PROVE  GrantInv'
<1> DEFINE R == G!Unrevoked(kinds)
<1>1. /\ token' = G!Revoked(R) /\ pending' = G!Cancelled(R)
      /\ UNCHANGED <<focus, clients, clock, cutoff, asking, honoured>>
  BY DEF G!RevokeAll, G!Staging
<1>2. R \in SUBSET Rows /\ \A r \in R : token[r].kind # "none"
  BY DEF G!Unrevoked, G!Is, G!AgentKinds
<1>3. R \ R = {}
  OBVIOUS
<1> HIDE DEF R
<1>4. /\ token' = [x \in Rows |-> token'[x]]
      /\ pending' \in [Rows -> SUBSET {"early", "late"}]
      /\ \A x \in Rows : Lapses(x)
  BY <1>1, <1>2, <1>3, RevokedLapses
<1>5. QED
  BY <1>1, <1>4, LapsesKeeps DEF Leaving

LEMMA EndGrantKeeps ==
    ASSUME GrantInv, UNCHANGED focus, NEW c \in Requests, G!EndGrant(c)
    PROVE  GrantInv'
<1> DEFINE r == asking[c].r
<1>1. /\ token' = G!Revoked({r}) /\ pending' = G!Cancelled({r})
      /\ UNCHANGED <<focus, clients, clock, cutoff, honoured>> /\ Leaving
  BY DEF G!EndGrant, G!Leaves, Leaving
<1>2. asking[c] \in Asking /\ Asks(asking[c]) /\ asking[c].pc \in {"reused", "ends"}
  BY DEF GrantInv, GrantTypes, G!EndGrant
<1>3. r \in Rows /\ token[r].kind = "oauth"
  BY <1>2, AskingFields DEF Asks
<1> HIDE DEF r
<1>4. /\ token' = [x \in Rows |-> token'[x]]
      /\ pending' \in [Rows -> SUBSET {"early", "late"}]
      /\ \A x \in Rows : Lapses(x)
  BY <1>1, <1>3, RevokedLapses
<1>5. QED
  BY <1>1, <1>4, LapsesKeeps

\* One row lapses, and its revocation and staged actions stay.
LEMMA OneLapses ==
    ASSUME GrantInv, NEW r \in Rows, token[r] # G!NoRow, NEW w \in G!TokenRow,
           token' = [token EXCEPT ![r] = w], UNCHANGED pending,
           w.kind = token[r].kind, w.client = token[r].client, w.created = token[r].created,
           w.began = token[r].began, w.refresh = token[r].refresh, w.prev = token[r].prev,
           w.revoked = token[r].revoked, w.kind = "oauth" => w.scope \in G!OAuthScopes,
           w.renews => token[r].renews, w.access => token[r].access
    PROVE  /\ token' = [x \in Rows |-> token'[x]]
           /\ pending' \in [Rows -> SUBSET {"early", "late"}]
           /\ \A x \in Rows : Lapses(x)
<1>1. GrantTypes
  BY DEF GrantInv
<1>2. /\ \A x \in Rows : token'[x] = IF x = r THEN w ELSE token[x]
      /\ token' = [x \in Rows |-> token'[x]]
      /\ pending' \in [Rows -> SUBSET {"early", "late"}]
  BY <1>1 DEF GrantTypes
<1>3. ASSUME NEW x \in Rows
      PROVE  Lapses(x)
  <2>1. GrantRow(x)
    BY DEF GrantInv
  <2>2. CASE x # r
    BY <1>1, <1>2, <2>1, <2>2, GrantRows DEF GrantRow, Lapses
  <2>3. CASE x = r
    BY <1>2, <2>1, <2>3 DEF GrantRow, Lapses
  <2>4. QED
    BY <2>2, <2>3
<1>4. QED
  BY <1>2, <1>3

LEMMA DowngradeKeeps ==
    ASSUME GrantInv, UNCHANGED focus, NEW c \in Requests, G!Downgrade(c)
    PROVE  GrantInv'
<1> DEFINE r == asking[c].r  s == asking[c].scope  w == [token[r] EXCEPT !.scope = s]
<1>1. /\ GrantTypes /\ Leaving
      /\ UNCHANGED <<focus, clients, clock, cutoff, pending, honoured>>
  BY DEF G!Downgrade, G!Leaves, Leaving, GrantInv
<1>2. asking[c] \in Asking /\ Asks(asking[c]) /\ asking[c].pc = "lowers"
  BY <1>1 DEF GrantInv, GrantTypes, G!Downgrade
<1>3. r \in Rows /\ s \in G!Scopes /\ (token[r].kind = "oauth" => s = 1)
  BY <1>2, AskingFields DEF Asks
<1>4. CASE token[r] = G!NoRow
  <2>1. token' = token
    BY <1>4 DEF G!Downgrade
  <2>2. /\ token' = [x \in Rows |-> token'[x]]
        /\ pending' \in [Rows -> SUBSET {"early", "late"}]
    BY <1>1, <2>1 DEF GrantTypes
  <2>3. \A x \in Rows : Lapses(x)
    BY <1>1, <2>1, GrantRows DEF Lapses, GrantInv, GrantRow
  <2>4. QED
    BY <1>1, <2>2, <2>3, LapsesKeeps
<1>5. CASE token[r] # G!NoRow
  <2>1. token' = [token EXCEPT ![r] = w]
    BY <1>5 DEF G!Downgrade
  <2>2. token[r] \in G!TokenRow
    BY <1>1, <1>3, <1>5, GrantRows
  <2>3. /\ w \in G!TokenRow /\ w.scope = s
        /\ w.kind = token[r].kind /\ w.client = token[r].client /\ w.created = token[r].created
        /\ w.began = token[r].began /\ w.refresh = token[r].refresh /\ w.prev = token[r].prev
        /\ w.revoked = token[r].revoked /\ w.renews = token[r].renews
        /\ w.access = token[r].access
    BY <1>3, <2>2 DEF G!TokenRow
  <2>4. w.kind = "oauth" => w.scope \in G!OAuthScopes
    BY <1>3, <2>3 DEF G!OAuthScopes
  <2> HIDE DEF r, s, w
  <2>5. /\ token' = [x \in Rows |-> token'[x]]
        /\ pending' \in [Rows -> SUBSET {"early", "late"}]
        /\ \A x \in Rows : Lapses(x)
    BY <1>1, <1>3, <1>5, <2>1, <2>3, <2>4, OneLapses
  <2>6. QED
    BY <1>1, <2>5, LapsesKeeps
<1>6. QED
  BY <1>4, <1>5

\* A row alone is written, and no request begins or leaves.
LEMMA AloneKeeps ==
    ASSUME GrantInv, NEW r \in Rows, token[r] # G!NoRow, NEW w \in G!TokenRow,
           token' = [token EXCEPT ![r] = w],
           UNCHANGED <<focus, clients, clock, cutoff, asking, pending, honoured>>,
           w.kind = token[r].kind, w.client = token[r].client, w.created = token[r].created,
           w.began = token[r].began, w.refresh = token[r].refresh, w.prev = token[r].prev,
           w.revoked = token[r].revoked, w.scope = token[r].scope,
           w.renews => token[r].renews, w.access => token[r].access
    PROVE  GrantInv'
<1>1. w.kind = "oauth" => w.scope \in G!OAuthScopes
  BY DEF GrantInv, GrantRow
<1>2. /\ token' = [x \in Rows |-> token'[x]]
      /\ pending' \in [Rows -> SUBSET {"early", "late"}]
      /\ \A x \in Rows : Lapses(x)
  BY <1>1, OneLapses
<1>3. QED
  BY <1>2, LapsesKeeps DEF Leaving

LEMMA AccessExpiresKeeps ==
    ASSUME GrantInv, UNCHANGED focus, NEW r \in Rows, G!AccessExpires(r)
    PROVE  GrantInv'
<1> DEFINE w == [token[r] EXCEPT !.access = FALSE]
<1>1. /\ token[r] # G!NoRow /\ token' = [token EXCEPT ![r] = w]
      /\ UNCHANGED <<focus, clients, clock, cutoff, asking, pending, honoured>>
  BY DEF G!AccessExpires
<1>2. token[r] \in G!TokenRow
  BY <1>1, GrantRows DEF GrantInv
<1>3. /\ w \in G!TokenRow /\ w.scope = token[r].scope
      /\ w.kind = token[r].kind /\ w.client = token[r].client /\ w.created = token[r].created
      /\ w.began = token[r].began /\ w.refresh = token[r].refresh /\ w.prev = token[r].prev
      /\ w.revoked = token[r].revoked /\ w.renews = token[r].renews /\ ~ w.access
  BY <1>2 DEF G!TokenRow
<1> HIDE DEF w
<1>4. QED
  BY <1>1, <1>3, AloneKeeps

LEMMA RefreshExpiresKeeps ==
    ASSUME GrantInv, UNCHANGED focus, NEW r \in Rows, G!RefreshExpires(r)
    PROVE  GrantInv'
<1> DEFINE w == [token[r] EXCEPT !.renews = FALSE, !.access = FALSE]
<1>1. token[r] # G!NoRow /\ UNCHANGED <<focus, clients, clock, cutoff, asking, pending, honoured>>
  BY DEF G!RefreshExpires
<1>2. token' = [token EXCEPT ![r] = w]
  BY DEF G!RefreshExpires, GrantInv, GrantTypes
<1>3. token[r] \in G!TokenRow
  BY <1>1, GrantRows DEF GrantInv
<1>4. /\ w \in G!TokenRow /\ w.scope = token[r].scope
      /\ w.kind = token[r].kind /\ w.client = token[r].client /\ w.created = token[r].created
      /\ w.began = token[r].began /\ w.refresh = token[r].refresh /\ w.prev = token[r].prev
      /\ w.revoked = token[r].revoked /\ ~ w.renews /\ ~ w.access
  BY <1>3 DEF G!TokenRow
<1> HIDE DEF w
<1>5. QED
  BY <1>1, <1>2, <1>4, AloneKeeps

LEMMA RemindKeeps ==
    ASSUME GrantInv, UNCHANGED focus, NEW r \in Rows, G!Remind(r)
    PROVE  GrantInv'
<1> DEFINE w == [token[r] EXCEPT !.stage = token[r].stage + 1]
<1>1. /\ token[r] # G!NoRow /\ token[r].stage < 3
      /\ UNCHANGED <<focus, clients, clock, cutoff, asking, pending, honoured>>
  BY DEF G!Remind, G!Is, G!NoRow
<1>2. token' = [token EXCEPT ![r] = w]
  BY DEF G!Remind, GrantInv, GrantTypes
<1>3. token[r] \in G!TokenRow /\ token[r].stage + 1 \in 0..3
  BY <1>1, GrantRows DEF GrantInv
<1>4. /\ w \in G!TokenRow /\ w.scope = token[r].scope
      /\ w.kind = token[r].kind /\ w.client = token[r].client /\ w.created = token[r].created
      /\ w.began = token[r].began /\ w.refresh = token[r].refresh /\ w.prev = token[r].prev
      /\ w.revoked = token[r].revoked /\ w.renews = token[r].renews
      /\ w.access = token[r].access
  BY <1>3 DEF G!TokenRow
<1> HIDE DEF w
<1>5. QED
  BY <1>1, <1>2, <1>4, AloneKeeps

LEMMA StageKeeps ==
    ASSUME GrantInv, UNCHANGED focus, NEW c \in Requests, G!Stage(c)
    PROVE  GrantInv'
<1> DEFINE r == asking[c].r
<1>1. /\ GrantTypes /\ Leaving
      /\ UNCHANGED <<focus, token, clients, clock, cutoff, honoured>>
      /\ pending' = [pending EXCEPT ![r] = @ \cup {IF token[r].revoked THEN "late" ELSE "early"}]
  BY DEF G!Stage, G!Leaves, Leaving, GrantInv
<1>2. /\ pending' \in [Rows -> SUBSET {"early", "late"}]
      /\ \A x \in Rows : "early" \notin pending[x] /\ token[x].revoked => "early" \notin pending'[x]
  BY <1>1 DEF GrantTypes
<1>3. token' = [x \in Rows |-> token'[x]]
  BY <1>1 DEF GrantTypes
<1>4. \A x \in Rows : Lapses(x)
  BY <1>1, <1>2, GrantRows DEF Lapses, GrantInv, GrantRow
<1>5. QED
  BY <1>1, <1>2, <1>3, <1>4, LapsesKeeps

\* A code or a refresh token is answered with the next one.
LEMMA IssuedRow ==
    ASSUME GrantTypes, NEW r \in Rows, token[r] # G!NoRow, NEW n \in 0..MaxSerial, n < MaxSerial,
           NEW s \in G!Scopes, token' = G!Issued(r, n, s)
    PROVE  /\ token' \in [Rows -> G!TokenRow \cup {G!NoRow}]
           /\ \A x \in Rows \ {r} : token'[x] = token[x]
           /\ token'[r] \in G!TokenRow /\ token'[r] # G!NoRow
           /\ token'[r].refresh = n + 1 /\ token'[r].prev = n /\ token'[r].scope = s
           /\ token'[r].kind = token[r].kind /\ token'[r].client = token[r].client
           /\ token'[r].created = token[r].created /\ token'[r].began = token[r].began
           /\ token'[r].revoked = token[r].revoked
<1> DEFINE w == [token[r] EXCEPT !.refresh = n + 1, !.prev = n, !.scope = s,
                                 !.access = TRUE, !.renews = TRUE]
<1>1. token' = [token EXCEPT ![r] = w]
  BY DEF G!Issued, GrantTypes
<1>2. token[r] \in G!TokenRow /\ n + 1 \in 0..MaxSerial
  BY GrantRows, GrantNumbers
<1>3. /\ w \in G!TokenRow
      /\ w.refresh = n + 1 /\ w.prev = n /\ w.scope = s
      /\ w.kind = token[r].kind /\ w.client = token[r].client /\ w.created = token[r].created
      /\ w.began = token[r].began /\ w.revoked = token[r].revoked
  BY <1>2 DEF G!TokenRow
<1>4. w # G!NoRow
  BY <1>3 DEF G!NoRow, G!TokenRow, G!AgentKinds
<1> HIDE DEF w
<1>5. /\ token'[r] = w /\ \A x \in Rows \ {r} : token'[x] = token[x]
      /\ token' \in [Rows -> G!TokenRow \cup {G!NoRow}]
  BY <1>1, <1>3 DEF GrantTypes
<1>6. QED
  BY <1>3, <1>4, <1>5

LEMMA HonouredTwo ==
    ASSUME honoured \in [Rows -> [0..MaxSerial -> Nat]], NEW r \in Rows,
           NEW n \in 0..MaxSerial, G!Honours(r, n)
    PROVE  /\ honoured' \in [Rows -> [0..MaxSerial -> Nat]]
           /\ \A x \in Rows, i \in 0..MaxSerial :
                honoured'[x][i] = IF x = r /\ i = n THEN honoured[x][i] + 1 ELSE honoured[x][i]
<1> DEFINE h == [honoured[r] EXCEPT ![n] = honoured[r][n] + 1]
<1>1. honoured' = [honoured EXCEPT ![r] = h]
  BY DEF G!Honours
<1>2. honoured[r] \in [0..MaxSerial -> Nat]
  OBVIOUS
<1>5. honoured[r][n] \in Nat
  BY <1>2
<1>3. /\ h \in [0..MaxSerial -> Nat]
      /\ \A i \in 0..MaxSerial : h[i] = IF i = n THEN honoured[r][i] + 1 ELSE honoured[r][i]
  BY <1>2
<1> HIDE DEF h
<1>4. QED
  BY <1>1, <1>3

LEMMA IssuedKeeps ==
    ASSUME GrantInv, NEW r \in Rows, NEW n \in 0..MaxSerial, n < MaxSerial, NEW s \in G!Scopes,
           NEW c \in Requests, asking[c].pc \in {"exchanges", "rotates"},
           token[r].kind = "oauth", token[r].refresh = n, s <= token[r].scope,
           token' = G!Issued(r, n, s), G!Honours(r, n), G!Leaves(c),
           UNCHANGED <<focus, clients, clock, cutoff, pending>>,
           G!Free(r, c), token[r].created > cutoff /\ ~ token[r].revoked => r \in Reserved
    PROVE  GrantInv'
<1> USE DEF GrantInv
<1>1. token[r] # G!NoRow
  BY DEF G!NoRow
<1>2. /\ token' \in [Rows -> G!TokenRow \cup {G!NoRow}]
      /\ \A x \in Rows \ {r} : token'[x] = token[x]
      /\ token'[r] \in G!TokenRow /\ token'[r] # G!NoRow
      /\ token'[r].refresh = n + 1 /\ token'[r].prev = n /\ token'[r].scope = s
      /\ token'[r].kind = token[r].kind /\ token'[r].client = token[r].client
      /\ token'[r].created = token[r].created /\ token'[r].began = token[r].began
      /\ token'[r].revoked = token[r].revoked
  BY <1>1, IssuedRow
<1>3. Leaving /\ asking'[c] = G!Rest /\ \A d \in Requests \ {c} : asking'[d] = asking[d]
  BY RestAsks DEF G!Leaves, Leaving, GrantTypes
<1>4. /\ honoured' \in [Rows -> [0..MaxSerial -> Nat]]
      /\ \A x \in Rows, i \in 0..MaxSerial :
            honoured'[x][i] = IF x = r /\ i = n THEN honoured[x][i] + 1 ELSE honoured[x][i]
  BY HonouredTwo DEF GrantTypes
<1>5. GrantTypes'
  BY <1>2, <1>3, <1>4, LeavingKeeps DEF GrantTypes
<1>6. ASSUME NEW x \in Rows
      PROVE  GrantRow(x)' /\ Answers(x)'
  <2>1. GrantRow(x) /\ Answers(x)
    OBVIOUS
  <2>2. CASE x # r
    <3>1. token'[x] = token[x]
      BY <1>2, <2>2
    <3>2. \A i \in 0..MaxSerial : honoured'[x][i] = honoured[x][i]
      BY <1>4, <2>2
    <3>3. GrantRow(x)'
      BY <2>1, <3>1 DEF GrantRow
    <3>4. Answers(x)'
      BY <2>1, <3>1, <3>2 DEF Answers
    <3>5. QED
      BY <3>3, <3>4
  <2>3. CASE x = r
    <3>1. s \in G!OAuthScopes
      BY <1>1, <2>1, <2>3 DEF GrantRow, G!Scopes, G!OAuthScopes
    <3>2. GrantRow(x)'
      BY <1>1, <1>2, <2>1, <2>3, <3>1 DEF GrantRow
    <3>3. Answers(x)'
      BY <1>1, <1>2, <1>4, <2>1, <2>3 DEF Answers
    <3>4. QED
      BY <3>2, <3>3
  <2>4. QED
    BY <2>2, <2>3
<1>7. ASSUME NEW d \in Requests
      PROVE  Asks(asking[d])'
  <2>1. CASE d = c
    BY <1>3, <2>1, RestAsks DEF Asks
  <2>2. CASE d # c
    <3> DEFINE q == asking[d]
    <3>1. asking'[d] = q /\ Asks(q) /\ q \in Asking
      BY <1>3, <2>2 DEF GrantTypes
    <3>2. q.pc = "rotates" => q.r # r
      BY <2>2 DEF G!Free, G!Holders
    <3>3. q.pc \in {"reused", "ends", "rotates", "lowers"} => q.r \in Rows
      BY <3>1, AskingFields
    <3>4. QED
      BY <1>2, <3>1, <3>2, <3>3 DEF Asks
  <2>3. QED
    BY <2>1, <2>2
<1>8. HeldOnce'
  BY <1>3, LeavingKeeps
<1>9. (Cardinality(Reserved) <= MaxLive)'
  <2>1. ASSUME NEW x \in Rows, x \in Reserved'
        PROVE  x \in Reserved
    <3>1. Rotated(x)' => Rotated(x)
      BY <1>3, LeavingKeeps
    <3>2. CASE x # r
      BY <1>2, <2>1, <3>1, <3>2 DEF Reserved, G!Counted, G!Is, G!Live
    <3>3. CASE x = r
      BY <1>2, <2>1, <3>1, <3>3 DEF Reserved, G!Counted, G!Is, G!Live
    <3>4. QED
      BY <3>2, <3>3
  <2>2. Reserved' \subseteq Reserved
    BY <2>1 DEF Reserved
  <2>3. QED
    BY <2>2, RoomKept
<1>10. QED
  BY <1>5, <1>6, <1>7, <1>8, <1>9

LEMMA ExchangeKeeps ==
    ASSUME GrantInv, UNCHANGED focus, NEW c \in Requests, G!Exchange(c)
    PROVE  GrantInv'
<1> DEFINE r == asking[c].r
<1>1. asking[c] \in Asking /\ asking[c].pc = "exchanges"
  BY DEF GrantInv, GrantTypes, G!Exchange
<1>2. r \in Rows
  BY <1>1, AskingFields
<1>3. /\ token[r].kind = "oauth" /\ token[r].refresh = 0 /\ token[r].access
      /\ G!Free(r, c) /\ token' = G!Issued(r, 0, token[r].scope) /\ G!Honours(r, 0)
      /\ G!Leaves(c) /\ UNCHANGED <<focus, clients, clock, cutoff, pending>>
      /\ ~ token[r].revoked
  BY DEF G!Exchange, G!StillUnexchanged, G!Placeholder, G!Is
<1>4. token[r] # G!NoRow
  BY <1>3 DEF G!NoRow
<1> HIDE DEF r
<1>5. token[r].scope \in G!Scopes /\ token[r].scope <= token[r].scope
  BY <1>2, <1>4, GrantRows DEF GrantInv, G!Scopes
<1>6. token[r].created > cutoff => r \in Reserved
  BY <1>2, <1>3 DEF Reserved, G!Counted, G!Is, G!Live, G!AgentKinds
<1>7. 0 \in 0..MaxSerial /\ 0 < MaxSerial
  BY GrantNumbers
<1>8. QED
  BY <1>1, <1>2, <1>3, <1>5, <1>6, <1>7, IssuedKeeps

LEMMA RefreshKeeps ==
    ASSUME GrantInv, UNCHANGED focus, NEW c \in Requests, NEW a \in G!OAuthScopes,
           G!Refresh(c, a)
    PROVE  GrantInv'
<1> DEFINE r == asking[c].r  n == asking[c].n  s == G!Narrowed(token[r].scope, a)
<1>1. asking[c] \in Asking /\ Asks(asking[c]) /\ asking[c].pc = "rotates"
  BY DEF GrantInv, GrantTypes, G!Refresh
<1>2. /\ r \in Rows /\ n \in 0..MaxSerial /\ n < MaxSerial
      /\ token[r].kind = "oauth" /\ token[r].refresh = n
  BY <1>1, AskingFields DEF Asks
<1>3. /\ token' = G!Issued(r, n, s) /\ G!Honours(r, n) /\ G!Leaves(c)
      /\ UNCHANGED <<focus, clients, clock, cutoff, pending>>
  BY DEF G!Refresh
<1>4. token[r] # G!NoRow
  BY <1>2 DEF G!NoRow
<1>5. s \in G!Scopes /\ s <= token[r].scope
  BY <1>2, <1>4, GrantRows DEF GrantInv, G!Scopes, G!OAuthScopes, G!Narrowed
<1>6. G!Free(r, c)
  \* it holds the row
  <2>1. c \in G!Holders(r)
    BY <1>1 DEF G!Holders
  <2>2. \A d \in Requests : d \in G!Holders(r) => d = c
    BY <1>2, <2>1 DEF GrantInv, HeldOnce
  <2>3. QED
    BY <2>2 DEF G!Free, G!Holders
<1>7. token[r].created > cutoff => r \in Reserved
  BY <1>1, <1>2 DEF Reserved, Rotated
<1>8. QED
  <2> HIDE DEF r, n, s
  <2>1. QED
    BY <1>1, <1>2, <1>3, <1>5, <1>6, <1>7, IssuedKeeps

\* A row that no refresh token was issued for is not held.
LEMMA NotHeld ==
    ASSUME GrantInv, NEW r \in Rows, token[r] = G!NoRow \/ token[r].refresh = 0
    PROVE  /\ \A d \in Requests : asking[d].pc \in {"reused", "ends", "rotates"} => asking[d].r # r
           /\ ~ Rotated(r)
<1>1. token[r].kind = "oauth" => token[r].refresh = 0
  BY DEF G!NoRow
<1>2. \A d \in Requests : asking[d].pc \in {"reused", "ends", "rotates"} => asking[d].r # r
  BY <1>1 DEF GrantInv, Asks
<1>3. QED
  BY <1>2 DEF Rotated

\* A grant: under the owner's lock an agent token takes the room that is left.
LEMMA GrantKeeps ==
    ASSUME GrantInv, UNCHANGED focus, NEW c \in Requests, NEW r \in Rows, G!Grant(c, r)
    PROVE  GrantInv'
<1> USE DEF GrantInv
<1> DEFINE q == asking[c]
           w == [kind |-> q.kind, client |-> q.client, scope |-> q.scope, created |-> clock,
                 access |-> TRUE, renews |-> FALSE, refresh |-> 0, prev |-> 0,
                 revoked |-> FALSE, stage |-> 0, began |-> q.began]
<1>1. /\ q.pc = "grants" /\ token[r] = G!NoRow /\ G!MayGrant(q)
      /\ q.kind = "oauth" => q.client \in clients
      /\ token' = [token EXCEPT ![r] = w] /\ G!Leaves(c)
      /\ UNCHANGED <<focus, clients, clock, cutoff, pending, honoured>>
  BY DEF G!Grant
<1>2. q \in Asking /\ Asks(q)
  BY DEF GrantTypes
<1>3. /\ q.kind \in {"api", "agent", "oauth"} /\ q.client \in Clients \cup {G!NoClient}
      /\ q.scope \in G!Scopes /\ q.seen \in Nat /\ q.began \in Nat
      /\ focus = "consent" /\ q.began > q.seen
      /\ q.kind # "oauth" => q.client = G!NoClient
      /\ q.kind = "oauth" => q.scope \in G!OAuthScopes
  BY <1>1, <1>2, AskingFields DEF Asks
<1>4. Leaving
  BY <1>1 DEF G!Leaves, Leaving
<1>5. w \in G!TokenRow
  BY <1>3, GrantNumbers DEF G!TokenRow, G!AgentKinds, GrantTypes
<1>6. /\ w.kind = q.kind /\ w.client = q.client /\ w.scope = q.scope /\ w.created = clock
      /\ w.refresh = 0 /\ w.prev = 0 /\ ~ w.renews /\ ~ w.revoked /\ w.began = q.began
      /\ w # G!NoRow
  BY <1>3 DEF G!NoRow
<1>7. q.kind \in G!AgentKinds => q.seen = cutoff /\ G!UnderCap /\ \A x \in Rows : G!FreeForAll(x)
  BY <1>1 DEF G!MayGrant, G!SeenUnmoved
<1> HIDE DEF w, q
<1>8. /\ token' \in [Rows -> G!TokenRow \cup {G!NoRow}]
      /\ \A x \in Rows : token'[x] = IF x = r THEN w ELSE token[x]
  BY <1>1, <1>5 DEF GrantTypes
<1>9. GrantTypes'
  BY <1>1, <1>4, <1>8, LeavingKeeps DEF GrantTypes
<1>10. ASSUME NEW x \in Rows
       PROVE  GrantRow(x)' /\ Answers(x)'
  <2>1. GrantRow(x) /\ Answers(x)
    OBVIOUS
  <2>2. CASE x # r
    BY <1>1, <1>8, <2>1, <2>2 DEF GrantRow, Answers
  <2>3. CASE x = r
    <3>1. token'[x] = w /\ clock \in Nat /\ cutoff \in Nat
      BY <1>8, <2>3 DEF GrantTypes
    <3>2. GrantRow(x)'
      BY <1>1, <1>3, <1>6, <1>7, <3>1 DEF GrantRow
    <3>3. Answers(x)'
      BY <1>1, <2>1, <2>3 DEF Answers
    <3>4. QED
      BY <3>2, <3>3
  <2>4. QED
    BY <2>2, <2>3
<1>11. ASSUME NEW d \in Requests
       PROVE  Asks(asking[d])'
  <2>1. asking[d] \in Asking /\ Asks(asking[d])
    BY DEF GrantTypes
  <2>2. CASE asking'[d] = G!Rest
    BY <2>2, RestAsks DEF Asks
  <2>3. CASE asking'[d] = asking[d]
    <3>1. asking[d].pc \in {"reused", "ends", "rotates"} => asking[d].r \in Rows \ {r}
      BY <1>1, <2>1, NotHeld, AskingFields
    <3>2. asking[d].pc # "lowers"
      \* none is lowered where tokens are granted
      BY <1>3, <2>1 DEF Asks
    <3>3. QED
      BY <1>1, <1>8, <2>1, <2>3, <3>1, <3>2 DEF Asks
  <2>4. QED
    BY <1>4, <2>2, <2>3, LeavingKeeps
<1>12. HeldOnce'
  BY <1>4, LeavingKeeps
<1>13. ASSUME NEW x \in Rows, x \in Reserved', x # r
       PROVE  x \in Reserved
  <2>1. Rotated(x)' => Rotated(x)
    BY <1>4, LeavingKeeps
  <2>2. QED
    BY <1>1, <1>8, <1>13, <2>1 DEF Reserved, G!Counted, G!Is, G!Live
<1>14. (Cardinality(Reserved) <= MaxLive)'
  <2>1. CASE q.kind \in G!AgentKinds
    <3>1. Reserved = {x \in Rows : G!Counted(x)}
      BY <1>7, <2>1 DEF Reserved, Rotated, G!FreeForAll, G!Holders
    <3>2. Cardinality(Reserved) < MaxLive
      BY <1>7, <2>1, <3>1 DEF G!UnderCap, G!Cardinality, Cardinality
    <3>3. IsFiniteSet(Reserved)
      BY GrantNumbers, FS_Subset DEF Reserved
    <3>4. Reserved' \subseteq Reserved \cup {r}
      BY <1>13 DEF Reserved
    <3>5. IsFiniteSet(Reserved \cup {r}) /\ Cardinality(Reserved \cup {r}) <= Cardinality(Reserved) + 1
      <4>1. Cardinality(Reserved) \in Nat
        BY <3>3, FS_CardinalityType
      <4>2. QED
        <5>1. /\ IsFiniteSet(Reserved \cup {r})
              /\ Cardinality(Reserved \cup {r}) = IF r \in Reserved THEN Cardinality(Reserved) ELSE Cardinality(Reserved) + 1
          BY <3>3, FS_AddElement
        <5>2. QED
          BY <4>1, <5>1
    <3>6. Cardinality(Reserved') <= Cardinality(Reserved \cup {r}) /\ IsFiniteSet(Reserved')
      BY <3>4, <3>5, FS_Subset
    <3>7. Cardinality(Reserved') <= MaxLive
      BY <3>2, <3>3, <3>5, <3>6, GrantNumbers, FS_CardinalityType
    <3>8. QED
      BY <3>7
  <2>2. CASE q.kind \notin G!AgentKinds
    <3>1. r \notin Reserved'
      <4>1. token'[r].kind \notin G!AgentKinds
        BY <1>6, <1>8, <2>2
      <4>2. QED
        BY <4>1 DEF Reserved, G!Counted, G!Is, G!AgentKinds
    <3>2. Reserved' \subseteq Reserved
      BY <1>13, <3>1 DEF Reserved
    <3>3. QED
      BY <3>2, RoomKept
  <2>3. QED
    BY <2>1, <2>2
<1>15. QED
  BY <1>9, <1>10, <1>11, <1>12, <1>14

\* The purge takes codes that nobody exchanged, and clients nothing points at.
LEMMA PurgeKeeps ==
    ASSUME GrantInv, UNCHANGED focus, NEW idle \in SUBSET Clients, G!Purge(idle)
    PROVE  GrantInv'
<1> USE DEF GrantInv
<1>1. /\ token' = [r \in Rows |-> IF r \in G!Stale THEN G!NoRow ELSE token[r]]
      /\ clients' \subseteq clients
      /\ \A r \in Rows : token'[r] = G!NoRow \/ token'[r].client \notin clients \ clients'
      /\ UNCHANGED <<focus, clock, cutoff, asking, pending, honoured>>
  <2> DEFINE left == [r \in Rows |-> IF r \in G!Stale THEN G!NoRow ELSE token[r]]
             gone == {k \in idle \cap clients : \A r \in Rows : left[r] = G!NoRow \/ left[r].client # k}
  <2>1. /\ token' = left /\ clients' = clients \ gone
        /\ UNCHANGED <<focus, clock, cutoff, asking, pending, honoured>>
    BY DEF G!Purge
  <2>2. \A r \in Rows : left[r] = G!NoRow \/ left[r].client \notin gone
    OBVIOUS
  <2> HIDE DEF gone
  <2>3. QED
    BY <2>1, <2>2
<1>2. /\ token' \in [Rows -> G!TokenRow \cup {G!NoRow}]
      /\ \A r \in Rows : token'[r] = token[r] \/ (token'[r] = G!NoRow /\ r \in G!Stale)
  BY <1>1 DEF GrantTypes
<1>3. \A r \in G!Stale : r \in Rows /\ token[r].refresh = 0
  BY DEF G!Stale, G!Placeholder
<1>4. GrantTypes'
  BY <1>1, <1>2 DEF GrantTypes
<1>5. ASSUME NEW r \in Rows
      PROVE  GrantRow(r)' /\ Answers(r)'
  <2>1. GrantRow(r) /\ Answers(r)
    OBVIOUS
  <2>2. CASE token'[r] = token[r]
    BY <1>1, <2>1, <2>2 DEF GrantRow, Answers
  <2>3. CASE token'[r] = G!NoRow /\ r \in G!Stale
    BY <1>1, <1>3, <2>1, <2>3 DEF GrantRow, Answers
  <2>4. QED
    BY <1>2, <2>2, <2>3
<1>6. ASSUME NEW d \in Requests
      PROVE  Asks(asking[d])'
  <2>1. asking[d] \in Asking /\ Asks(asking[d])
    BY DEF GrantTypes
  <2>2. asking[d].pc \in {"reused", "ends", "rotates"} => asking[d].r \notin G!Stale
    BY <1>3, NotHeld
  <2>3. asking[d].pc \in {"reused", "ends", "rotates", "lowers"} => asking[d].r \in Rows
    BY <2>1, AskingFields
  <2>4. G!NoRow.kind = "none"
    BY DEF G!NoRow
  <2>5. QED
    BY <1>1, <1>2, <2>1, <2>2, <2>3, <2>4 DEF Asks
<1>7. HeldOnce'
  BY <1>1 DEF HeldOnce, G!Holders
<1>8. (Cardinality(Reserved) <= MaxLive)'
  <2>1. ASSUME NEW r \in Rows, r \in Reserved'
        PROVE  r \in Reserved
    <3>1. token'[r] # G!NoRow
      BY <2>1 DEF Reserved, G!Counted, G!Is, G!NoRow, G!AgentKinds
    <3>2. QED
      BY <1>1, <1>2, <2>1, <3>1 DEF Reserved, Rotated, G!Counted, G!Is, G!Live
  <2>2. Reserved' \subseteq Reserved
    BY <2>1 DEF Reserved
  <2>3. QED
    BY <2>2, RoomKept
<1>9. QED
  BY <1>4, <1>5, <1>6, <1>7, <1>8

\* The clock, the cutoff and the clients move, and the tokens stay.
LEMMA TimeKeeps ==
    ASSUME GrantInv, UNCHANGED <<focus, token, asking, pending, honoured>>,
           clock' \in Nat, clock <= clock', cutoff <= cutoff', cutoff' \in 0..clock',
           cutoff' = cutoff \/ cutoff' >= clock,
           clients \subseteq clients', clients' \subseteq Clients
    PROVE  GrantInv'
<1> USE DEF GrantInv
<1>1. GrantTypes'
  BY DEF GrantTypes
<1>2. clock \in Nat /\ cutoff \in Nat /\ clock' \in Nat /\ cutoff' \in Nat
  BY DEF GrantTypes
<1>3. ASSUME NEW r \in Rows
      PROVE  GrantRow(r)' /\ Answers(r)'
  <2>1. GrantRow(r) /\ Answers(r) /\ (token[r] # G!NoRow => token[r].created \in Nat)
    BY GrantRows
  <2>2. QED
    BY <1>2, <2>1 DEF GrantRow, Answers
<1>4. ASSUME NEW d \in Requests
      PROVE  Asks(asking[d])'
  <2>1. asking[d] \in Asking /\ Asks(asking[d])
    BY DEF GrantTypes
  <2>2. asking[d].pc = "grants" => asking[d].seen \in Nat /\ asking[d].began \in Nat
    BY <2>1, AskingFields
  <2>3. QED
    BY <1>2, <2>1, <2>2 DEF Asks
<1>5. HeldOnce'
  BY DEF HeldOnce, G!Holders
<1>6. (Cardinality(Reserved) <= MaxLive)'
  <2>1. ASSUME NEW r \in Rows, r \in Reserved'
        PROVE  r \in Reserved
    <3>1. token[r] # G!NoRow
      BY <2>1 DEF Reserved, G!Counted, G!Is, G!NoRow, G!AgentKinds
    <3>2. token[r].created \in Nat
      BY <3>1, GrantRows
    <3>3. QED
      BY <1>2, <2>1, <3>2 DEF Reserved, Rotated, G!Counted, G!Is, G!Live
  <2>2. Reserved' \subseteq Reserved
    BY <2>1 DEF Reserved
  <2>3. QED
    BY <2>2, RoomKept
<1>7. QED
  BY <1>1, <1>3, <1>4, <1>5, <1>6

LEMMA ConsentKeeps ==
    ASSUME GrantInv, UNCHANGED focus, focus = "consent", G!ConsentNext
    PROVE  GrantInv'
<1> /\ clock \in Nat /\ cutoff \in 0..clock /\ clients \subseteq Clients
  BY DEF GrantInv, GrantTypes
<1>1. CASE \E k \in Clients : G!Register(k)
  BY <1>1, TimeKeeps DEF G!Register
<1>2. ASSUME NEW c \in Requests, NEW k \in Clients, NEW s \in G!OAuthScopes, G!AskConsent(c, k, s)
      PROVE  GrantInv'
  BY <1>2, BeginsKeeps DEF G!AskConsent, G!OAuthScopes, G!Scopes
<1>3. ASSUME NEW c \in Requests, NEW kind \in {"api", "agent"}, NEW s \in G!Scopes,
             G!AskMint(c, kind, s)
      PROVE  GrantInv'
  BY <1>3, BeginsKeeps DEF G!AskMint
<1>4. CASE \E c \in Requests, r \in Rows : G!Grant(c, r)
  BY <1>4, GrantKeeps
<1>5. CASE \E c \in Requests : G!RefuseGrant(c)
  BY <1>5, LeavesKeeps DEF G!RefuseGrant
<1>6. CASE G!MoveCutoff
  BY <1>6, TimeKeeps DEF G!MoveCutoff
<1>7. CASE G!Tick
  BY <1>7, TimeKeeps DEF G!Tick
<1>8. QED
  BY <1>1, <1>2, <1>3, <1>4, <1>5, <1>6, <1>7 DEF G!ConsentNext

LEMMA EndpointKeeps ==
    ASSUME GrantInv, UNCHANGED focus, G!EndpointNext
    PROVE  GrantInv'
<1>1. ASSUME NEW c \in Requests, G!LoseExchange(c) \/ G!FailRefresh(c)
      PROVE  GrantInv'
  BY <1>1, LeavesKeeps DEF G!LoseExchange, G!FailRefresh
<1>2. QED
  BY <1>1, AskExchangeKeeps, ExchangeKeeps, AskRefreshKeeps, RefreshKeeps, EndGrantKeeps
     DEF G!EndpointNext

LEMMA AgentKeeps ==
    ASSUME GrantInv, UNCHANGED focus, focus = "agent", G!AgentNext
    PROVE  GrantInv'
  BY AskDowngradeKeeps, DowngradeKeeps, AskStageKeeps, StageKeeps, RemindKeeps DEF G!AgentNext

LEMMA EndKeeps ==
    ASSUME GrantInv, UNCHANGED focus, G!EndNext
    PROVE  GrantInv'
  BY RevokeOneKeeps, RevokeAllKeeps, AccessExpiresKeeps, RefreshExpiresKeeps, PurgeKeeps
     DEF G!EndNext

LEMMA GrantStepKeeps ==
    ASSUME GrantInv, G!Next
    PROVE  GrantInv'
<1>1. UNCHANGED focus
  BY DEF G!Next
<1>2. CASE G!EndNext
  BY <1>1, <1>2, EndKeeps
<1>3. CASE focus = "consent" /\ (G!ConsentNext \/ G!EndpointNext)
  BY <1>1, <1>3, ConsentKeeps, EndpointKeeps
<1>4. CASE focus = "endpoint" /\ G!EndpointNext
  BY <1>1, <1>4, EndpointKeeps
<1>5. CASE focus = "agent" /\ (G!AgentNext \/ G!MoveCutoff)
  <2>1. /\ clock \in Nat /\ cutoff \in 0..clock /\ clients \subseteq Clients
    BY DEF GrantInv, GrantTypes
  <2>2. G!MoveCutoff => GrantInv'
    BY <1>1, <2>1, TimeKeeps DEF G!MoveCutoff
  <2>3. QED
    BY <1>1, <1>5, <2>2, AgentKeeps
<1>6. QED
  BY <1>2, <1>3, <1>4, <1>5 DEF G!Next

\* The grant or agent token that a behaviour may start from.
LEMMA GrantedRow ==
    ASSUME NEW n \in 0..1, NEW kind \in {"oauth", "agent"}, n = 1 => kind = "oauth"
    PROVE  LET w == G!Granted(kind, n)
           IN  /\ w \in G!TokenRow /\ w # G!NoRow
               /\ w.kind = kind /\ w.client \in Clients \cup {G!NoClient}
               /\ w.kind = "oauth" => w.scope \in G!OAuthScopes
               /\ w.refresh = n /\ w.prev = 0 /\ (n = 0 => ~ w.renews) /\ ~ w.revoked
               /\ w.created = 1 /\ w.began = 1
<1> DEFINE w == G!Granted(kind, n)  k == CHOOSE x \in Clients : TRUE
<1>1. w = [kind |-> kind, client |-> IF kind = "oauth" THEN k ELSE G!NoClient,
           scope |-> IF kind = "agent" THEN 3 ELSE 2, created |-> 1, access |-> TRUE,
           renews |-> n # 0, refresh |-> n, prev |-> 0, revoked |-> FALSE, stage |-> 0,
           began |-> 1]
  BY DEF G!Granted
<1>2. k \in Clients
  BY GrantNumbers
<1>3. n \in 0..MaxSerial /\ 0 \in 0..MaxSerial
  BY GrantNumbers
<1> HIDE DEF w, k
<1>4. w \in G!TokenRow
  BY <1>1, <1>2, <1>3 DEF G!TokenRow, G!AgentKinds, G!Scopes
<1>5. /\ w.kind = kind /\ w.client \in Clients \cup {G!NoClient}
      /\ w.scope \in {2, 3} /\ (kind = "oauth" => w.scope = 2)
      /\ w.refresh = n /\ w.prev = 0 /\ (n = 0 => ~ w.renews) /\ ~ w.revoked
      /\ w.created = 1 /\ w.began = 1
  BY <1>1, <1>2
<1>6. w # G!NoRow
  BY <1>5 DEF G!NoRow
<1>7. w.kind = "oauth" => w.scope \in G!OAuthScopes
  BY <1>5 DEF G!OAuthScopes
<1>8. QED
  BY <1>4, <1>5, <1>6, <1>7 DEF w

LEMMA GrantStart ==
    ASSUME G!Init
    PROVE  GrantInv
<1>1. /\ asking = [c \in Requests |-> G!Rest] /\ pending = [r \in Rows |-> {}]
      /\ clock = 1 /\ cutoff = 0
  BY DEF G!Init, G!GrantInit
<1>2. \A c \in Requests : asking[c] \in Asking /\ Asks(asking[c]) /\ asking[c].pc = "rest"
  BY <1>1, RestAsks
<1>3. HeldOnce /\ \A r \in Rows : ~ Rotated(r)
  BY <1>2 DEF HeldOnce, Rotated, G!Holders
<1>4. CASE G!GrantInit
  <2>1. /\ token = [r \in Rows |-> G!NoRow] /\ clients = {}
        /\ honoured = [r \in Rows |-> [n \in 0..MaxSerial |-> 0]]
    BY <1>4 DEF G!GrantInit
  <2>2. GrantTypes
    BY <1>1, <2>1, RestAsks DEF GrantTypes
  <2>3. \A r \in Rows : GrantRow(r) /\ Answers(r)
    BY <2>1 DEF GrantRow, Answers
  <2>4. Reserved = {}
    BY <1>3, <2>1 DEF Reserved, G!Counted, G!Is, G!NoRow, G!AgentKinds
  <2>5. Cardinality(Reserved) <= MaxLive
    BY <2>4, GrantNumbers, FS_EmptySet
  <2>6. QED
    BY <1>2, <1>3, <2>2, <2>3, <2>5 DEF GrantInv
<1>5. ASSUME NEW n \in 0..1, NEW kind \in {"oauth", "agent"}, n = 1 => kind = "oauth",
             token = [r \in Rows |-> IF r = G!First THEN G!Granted(kind, n) ELSE G!NoRow],
             clients = Clients,
             honoured = [r \in Rows |-> [i \in 0..MaxSerial |-> IF r = G!First /\ i < n THEN 1 ELSE 0]]
      PROVE  GrantInv
  <2> DEFINE w == G!Granted(kind, n)
  <2>1. /\ w \in G!TokenRow /\ w # G!NoRow
        /\ w.kind = kind /\ w.client \in Clients \cup {G!NoClient}
        /\ w.kind = "oauth" => w.scope \in G!OAuthScopes
        /\ w.refresh = n /\ w.prev = 0 /\ (n = 0 => ~ w.renews) /\ ~ w.revoked
        /\ w.created = 1 /\ w.began = 1
    BY <1>5, GrantedRow
  <2> HIDE DEF w
  <2>2. \A r \in Rows : token[r] = IF r = G!First THEN w ELSE G!NoRow
    BY <1>5 DEF w
  <2>3. token \in [Rows -> G!TokenRow \cup {G!NoRow}]
    BY <1>5, <2>1, <2>2
  <2>4. honoured \in [Rows -> [0..MaxSerial -> Nat]]
    BY <1>5
  <2>5. GrantTypes
    BY <1>1, <1>5, <2>3, <2>4, RestAsks DEF GrantTypes
  <2>6. ASSUME NEW r \in Rows
        PROVE  GrantRow(r) /\ Answers(r)
    <3>1. GrantRow(r)
      <4>1. CASE r # G!First
        BY <2>2, <4>1 DEF GrantRow
      <4>2. CASE r = G!First
        <5>1. token[r] = w /\ (w.refresh = 0 => ~ w.renews) /\ (w.refresh # 0 => w.refresh - 1 = 0)
          BY <2>1, <2>2, <4>2
        <5>2. QED
          BY <1>1, <1>5, <2>1, <5>1 DEF GrantRow
      <4>3. QED
        BY <4>1, <4>2
    <3>2. Answers(r)
      BY <1>5, <2>1, <2>2 DEF Answers
    <3>3. QED
      BY <3>1, <3>2
  <2>7. Reserved \subseteq {G!First}
    BY <1>3, <2>2 DEF Reserved, G!Counted, G!Is, G!NoRow, G!AgentKinds
  <2>8. Cardinality(Reserved) <= 1
    <3>1. IsFiniteSet({G!First}) /\ Cardinality({G!First}) = 1
      BY FS_Singleton
    <3>2. QED
      BY <2>7, <3>1, FS_Subset
  <2>9. IsFiniteSet(Reserved)
    BY <2>7, FS_Subset, FS_Singleton
  <2>10. Cardinality(Reserved) <= MaxLive
    BY <2>8, <2>9, GrantNumbers, FS_CardinalityType
  <2>11. QED
    BY <1>2, <1>3, <2>5, <2>6, <2>10 DEF GrantInv
<1>6. QED
  BY <1>4, <1>5 DEF G!Init

LEMMA GrantInvSafe ==
    ASSUME GrantInv
    PROVE  /\ G!GrantTypeOK /\ G!AnsweredOnce /\ G!CapHeld /\ G!LogoutWins
           /\ G!StagedFollowToken
<1> USE DEF GrantInv
<1>1. G!GrantTypeOK
  <2>1. \A r \in Rows : token[r] # G!NoRow => token[r] \in G!TokenRow
    BY GrantRows
  <2>2. QED
    BY <2>1 DEF GrantTypes, GrantRow, G!GrantTypeOK
<1>2. G!AnsweredOnce
  BY DEF Answers, G!AnsweredOnce
<1>3. G!CapHeld
  <2>1. {r \in Rows : G!Counted(r)} \subseteq Reserved /\ Reserved \subseteq Rows
    BY DEF Reserved
  <2>2. IsFiniteSet(Reserved)
    BY <2>1, GrantNumbers, FS_Subset
  <2>3. /\ IsFiniteSet({r \in Rows : G!Counted(r)})
        /\ Cardinality({r \in Rows : G!Counted(r)}) <= Cardinality(Reserved)
    BY <2>1, <2>2, FS_Subset
  <2>4. Cardinality({r \in Rows : G!Counted(r)}) <= MaxLive
    BY <2>2, <2>3, GrantNumbers, FS_CardinalityType
  <2>5. QED
    BY <2>4 DEF G!CapHeld, G!Cardinality, Cardinality
<1>4. G!LogoutWins
  <2>1. \A r \in Rows : G!Accepted(r) =>
            token[r] # G!NoRow /\ token[r].kind \in G!AgentKinds /\ token[r].created > cutoff
    BY DEF G!Accepted, G!Is, G!AgentKinds, G!NoRow
  <2>2. QED
    BY <2>1 DEF GrantRow, G!LogoutWins
<1>5. G!StagedFollowToken
  BY DEF GrantRow, G!StagedFollowToken
<1>6. QED
  BY <1>1, <1>2, <1>3, <1>4, <1>5

LEMMA GrantInvStays ==
    ASSUME GrantInv, UNCHANGED focus, UNCHANGED grantVars
    PROVE  GrantInv'
<1>1. UNCHANGED <<token, asking, pending, honoured>> /\ UNCHANGED <<clock, cutoff, clients>>
  BY DEF grantVars
<1>2. clock \in Nat /\ cutoff \in 0..clock /\ clients \subseteq Clients
  BY DEF GrantInv, GrantTypes
<1>3. QED
  BY <1>1, <1>2, TimeKeeps

LEMMA GrantInvariant == Spec => [](focus \in GrantFoci => GrantInv)
<1> DEFINE Inv == focus \in GrantFoci => GrantInv
<1>1. Init => Inv
  BY GrantStart DEF Init
<1>2. Inv /\ [Next]_identityVars => Inv'
  <2> SUFFICES ASSUME Inv, [Next]_identityVars, focus' \in GrantFoci
               PROVE  GrantInv'
    BY DEF GrantFoci
  <2>1. CASE GrantStep
    BY <2>1, GrantStepKeeps DEF GrantStep
  <2>2. CASE UNCHANGED identityVars
    <3>1. UNCHANGED focus /\ UNCHANGED grantVars
      BY <2>2 DEF identityVars
    <3>2. QED
      BY <3>1, GrantInvStays
  <2>3. CASE MfaStep \/ MailStep \/ MemberStep \/ SignInStep
    <3>1. focus' = focus /\ focus \notin GrantFoci
      BY <2>3 DEF MfaStep, MailStep, MemberStep, SignInStep, GrantFoci
    <3>2. QED
      BY <3>1
  <2>4. QED
    BY <2>1, <2>2, <2>3 DEF Next
<1>3. QED
  BY <1>1, <1>2, PTL DEF Spec

\* A code and a refresh token are answered once, the cap on live tokens holds
\* whatever mints and rotations overlap, a logout wins over the tokens asked for
\* before it, and staged actions end with their token (agent_oauth).
THEOREM GrantsCorrect == Spec => []GrantsSafe
<1>1. (focus \in GrantFoci => GrantInv) => GrantsSafe
  BY GrantInvSafe DEF GrantsSafe
<1>2. QED
  BY <1>1, GrantInvariant, PTL


\* Only a grant, a refresh and a lowered scope write the scope of a token.
SameScopes == \A r \in Rows : token'[r] = token[r] \/ token'[r] = G!NoRow \/ token'[r].scope = token[r].scope

LEMMA SameNarrow ==
    ASSUME GrantInv, SameScopes
    PROVE  G!GrantNeverWidens
<1>1. ASSUME NEW r \in Rows, G!Is(r, {"oauth"}), token'[r] # G!NoRow
      PROVE  token'[r].scope <= token[r].scope
  <2>1. token[r].kind = "oauth" /\ GrantTypes
    BY <1>1 DEF G!Is, GrantInv
  <2>2. token[r] # G!NoRow
    BY <2>1 DEF G!NoRow
  <2>3. token[r].scope \in 1..3
    BY <2>1, <2>2, GrantRows DEF G!Scopes
  <2>4. token'[r].scope = token[r].scope
    BY <1>1 DEF SameScopes
  <2>5. QED
    BY <2>3, <2>4
<1>2. QED
  BY <1>1 DEF G!GrantNeverWidens

LEMMA RevokedNarrow ==
    ASSUME GrantInv, NEW R, token' = G!Revoked(R)
    PROVE  G!GrantNeverWidens
<1>1. ASSUME NEW r \in Rows
      PROVE  token'[r] = token[r] \/ token'[r] = G!NoRow \/ token'[r].scope = token[r].scope
  <2>1. token'[r] = IF r \in R THEN [token[r] EXCEPT !.revoked = TRUE] ELSE token[r]
    BY DEF G!Revoked
  <2>2. CASE token[r] = G!NoRow
    <3>1. [token[r] EXCEPT !.revoked = TRUE] = token[r]
      BY <2>2 DEF G!NoRow
    <3>2. QED
      BY <2>1, <3>1
  <2>3. CASE token[r] # G!NoRow
    <3>1. token[r] \in G!TokenRow
      BY <2>3, GrantRows DEF GrantInv
    <3>2. [token[r] EXCEPT !.revoked = TRUE].scope = token[r].scope
      BY <3>1 DEF G!TokenRow
    <3>3. QED
      BY <2>1, <3>2
  <2>4. QED
    BY <2>2, <2>3
<1>2. QED
  BY <1>1, SameNarrow DEF SameScopes

LEMMA OneNarrow ==
    ASSUME GrantInv, NEW r \in Rows, NEW w, token' = [token EXCEPT ![r] = w],
           token[r].kind = "oauth" => w.scope <= token[r].scope
    PROVE  G!GrantNeverWidens
<1>1. ASSUME NEW x \in Rows, G!Is(x, {"oauth"})
      PROVE  token'[x].scope <= token[x].scope
  <2>1. token[x].kind = "oauth" /\ GrantTypes
    BY <1>1 DEF G!Is, GrantInv
  <2>2. token[x] # G!NoRow
    BY <2>1 DEF G!NoRow
  <2>3. token[x].scope \in 1..3
    BY <2>1, <2>2, GrantRows DEF G!Scopes
  <2>4. token'[x] = IF x = r THEN w ELSE token[x]
    BY <2>1 DEF GrantTypes
  <2>5. QED
    BY <2>1, <2>3, <2>4
<1>2. QED
  BY <1>1 DEF G!GrantNeverWidens

LEMMA ConsentNarrows ==
    ASSUME GrantInv, G!ConsentNext
    PROVE  G!GrantNeverWidens
<1>1. ASSUME NEW c \in Requests, NEW r \in Rows, G!Grant(c, r)
      PROVE  G!GrantNeverWidens
  <2>1. \A x \in Rows : G!Is(x, {"oauth"}) => token'[x] = token[x]
    BY <1>1 DEF G!Grant, G!Is, G!NoRow, GrantInv, GrantTypes
  <2>2. \A x \in Rows : G!Is(x, {"oauth"}) => token[x].scope <= token[x].scope
    BY GrantRows DEF GrantInv, G!Is, G!NoRow, G!Scopes
  <2>3. QED
    BY <2>1, <2>2 DEF G!GrantNeverWidens
<1>2. CASE UNCHANGED token
  BY <1>2, SameNarrow DEF SameScopes
<1>3. QED
  BY <1>1, <1>2 DEF G!ConsentNext, G!Register, G!AskConsent, G!AskMint, G!Begins, G!RefuseGrant,
     G!MoveCutoff, G!Tick

LEMMA EndpointNarrows ==
    ASSUME GrantInv, G!EndpointNext
    PROVE  G!GrantNeverWidens
<1> GrantTypes
  BY DEF GrantInv
<1>1. ASSUME NEW c \in Requests, G!Exchange(c)
      PROVE  G!GrantNeverWidens
  <2> DEFINE r == asking[c].r
  <2>1. r \in Rows /\ token[r] # G!NoRow /\ token' = G!Issued(r, 0, token[r].scope)
    BY <1>1, AskingFields DEF G!Exchange, G!Is, G!NoRow, GrantTypes
  <2> HIDE DEF r
  <2>2. token[r].scope \in G!Scopes /\ 0 \in 0..MaxSerial /\ 0 < MaxSerial
    BY <2>1, GrantRows, GrantNumbers
  <2>3. \A x \in Rows : token'[x].scope = token[x].scope
    BY <2>1, <2>2, IssuedRow
  <2>4. QED
    BY <2>3, SameNarrow DEF SameScopes
<1>2. ASSUME NEW c \in Requests, NEW a \in G!OAuthScopes, G!Refresh(c, a)
      PROVE  G!GrantNeverWidens
  <2> DEFINE r == asking[c].r  n == asking[c].n  s == G!Narrowed(token[r].scope, a)
  <2>1. asking[c] \in Asking /\ Asks(asking[c]) /\ asking[c].pc = "rotates"
    BY <1>2 DEF GrantInv, GrantTypes, G!Refresh
  <2>2. /\ r \in Rows /\ n \in 0..MaxSerial /\ n < MaxSerial /\ token[r] # G!NoRow
        /\ token' = G!Issued(r, n, s)
    BY <1>2, <2>1, AskingFields DEF Asks, G!Refresh, G!NoRow
  <2>3. s \in G!Scopes /\ s <= token[r].scope
    BY <2>2, GrantRows DEF G!Scopes, G!OAuthScopes, G!Narrowed
  <2> HIDE DEF r, n, s
  <2>4. /\ token'[r].scope = s /\ \A x \in Rows \ {r} : token'[x] = token[x]
    BY <2>2, <2>3, IssuedRow
  <2>5. \A x \in Rows : G!Is(x, {"oauth"}) => token[x].scope \in G!Scopes
    BY GrantRows DEF G!Is, G!NoRow
  <2>6. QED
    BY <2>3, <2>4, <2>5 DEF G!GrantNeverWidens, G!Scopes
<1>3. ASSUME NEW c \in Requests, G!EndGrant(c)
      PROVE  G!GrantNeverWidens
  BY <1>3, RevokedNarrow DEF G!EndGrant
<1>4. CASE UNCHANGED token
  BY <1>4, SameNarrow DEF SameScopes
<1>5. QED
  BY <1>1, <1>2, <1>3, <1>4 DEF G!EndpointNext, G!AskExchange, G!LoseExchange, G!AskRefresh,
     G!FailRefresh

LEMMA AgentNarrows ==
    ASSUME GrantInv, G!AgentNext
    PROVE  G!GrantNeverWidens
<1> GrantTypes
  BY DEF GrantInv
<1>1. ASSUME NEW c \in Requests, G!Downgrade(c)
      PROVE  G!GrantNeverWidens
  <2> DEFINE r == asking[c].r  s == asking[c].scope  w == [token[r] EXCEPT !.scope = s]
  <2>1. r \in Rows /\ (token[r].kind = "oauth" => s = 1)
    BY <1>1, AskingFields DEF GrantInv, GrantTypes, G!Downgrade, Asks
  <2>2. CASE token[r] = G!NoRow
    BY <1>1, <2>2, SameNarrow DEF G!Downgrade, SameScopes
  <2>3. CASE token[r] # G!NoRow
    <3>1. token' = [token EXCEPT ![r] = w]
      BY <1>1, <2>3 DEF G!Downgrade
    <3>2. token[r] \in G!TokenRow /\ token[r].scope \in 1..3
      BY <2>1, <2>3, GrantRows DEF G!Scopes
    <3>3. w.scope = s
      BY <3>2 DEF G!TokenRow
    <3> HIDE DEF w, r, s
    <3>4. token[r].kind = "oauth" => w.scope <= token[r].scope
      BY <2>1, <3>2, <3>3
    <3>5. QED
      BY <2>1, <3>1, <3>4, OneNarrow
  <2>4. QED
    BY <2>2, <2>3
<1>2. ASSUME NEW r \in Rows, G!Remind(r)
      PROVE  G!GrantNeverWidens
  <2> DEFINE w == [token[r] EXCEPT !.stage = token[r].stage + 1]
  <2>1. token' = [token EXCEPT ![r] = w]
    BY <1>2 DEF G!Remind, GrantTypes
  <2>2. token[r] # G!NoRow
    BY <1>2 DEF G!Remind, G!Is, G!NoRow
  <2>3. token[r] \in G!TokenRow /\ token[r].scope \in 1..3
    BY <2>2, GrantRows DEF G!Scopes
  <2>4. w.scope = token[r].scope
    BY <2>3 DEF G!TokenRow
  <2> HIDE DEF w
  <2>5. w.scope <= token[r].scope
    BY <2>3, <2>4
  <2>6. QED
    BY <2>1, <2>5, OneNarrow
<1>3. CASE UNCHANGED token
  BY <1>3, SameNarrow DEF SameScopes
<1>4. QED
  BY <1>1, <1>2, <1>3 DEF G!AgentNext, G!AskDowngrade, G!AskStage, G!Stage

LEMMA EndNarrows ==
    ASSUME GrantInv, G!EndNext
    PROVE  G!GrantNeverWidens
<1> GrantTypes
  BY DEF GrantInv
<1>1. ASSUME NEW r \in Rows, G!RevokeOne(r)
      PROVE  G!GrantNeverWidens
  BY <1>1, RevokedNarrow DEF G!RevokeOne
<1>2. ASSUME NEW kinds, G!RevokeAll(kinds)
      PROVE  G!GrantNeverWidens
  BY <1>2, RevokedNarrow DEF G!RevokeAll
<1>3. ASSUME NEW r \in Rows, G!AccessExpires(r) \/ G!RefreshExpires(r)
      PROVE  G!GrantNeverWidens
  <2>1. token[r] # G!NoRow
    BY <1>3 DEF G!AccessExpires, G!RefreshExpires
  <2>2. token[r] \in G!TokenRow /\ token[r].scope \in 1..3
    BY <2>1, GrantRows DEF G!Scopes
  <2>3. PICK v \in {[token[r] EXCEPT !.access = FALSE], [token[r] EXCEPT !.renews = FALSE, !.access = FALSE]} :
           token' = [token EXCEPT ![r] = v]
    BY <1>3 DEF G!AccessExpires, G!RefreshExpires, GrantTypes
  <2>4. v.scope = token[r].scope
    BY <2>2, <2>3 DEF G!TokenRow
  <2>5. v.scope <= token[r].scope
    BY <2>2, <2>4
  <2>6. QED
    BY <2>3, <2>5, OneNarrow
<1>4. ASSUME NEW idle \in SUBSET Clients, G!Purge(idle)
      PROVE  G!GrantNeverWidens
  BY <1>4, SameNarrow DEF G!Purge, SameScopes
<1>5. QED
  BY <1>1, <1>2, <1>3, <1>4 DEF G!EndNext

LEMMA ScopesNarrow ==
    ASSUME GrantInv, G!Next
    PROVE  G!GrantNeverWidens
<1>1. CASE G!MoveCutoff
  BY <1>1, SameNarrow DEF G!MoveCutoff, SameScopes
<1>2. QED
  BY <1>1, ConsentNarrows, EndpointNarrows, AgentNarrows, EndNarrows DEF G!Next
-----------------------------------------------------------------------------
(* Second factors: what a request that was let through relies on is claimed,  *)
(* or is in the row it holds, and no other request relies on it.              *)

TryRow == [pc : {"idle", "checks", "burns", "passes", "commits", "fails", "failsUser"},
           op : {"none", "login", "disable", "regenerate", "fallback", "enable"},
           j : Challenges \cup {"none"}, kind : {"none", "totp", "recovery", "mail"},
           given : M!Given, seen : SUBSET M!Given]
\* Let through: it holds the right to what it was given.
Through(q) == q.pc \in {"burns", "passes", "commits"}
Holding(q) == q.kind = "recovery" /\ Through(q)
Opening(q) == q.pc = "commits" /\ q.op = "login"
Used(g) == \E a \in accepted : a[1] = g

MfaTypes ==
    /\ mfa \in [on : BOOLEAN, secret : BOOLEAN, codes : SUBSET M!Codes(gen), fallback : BOOLEAN]
    /\ gen \in 0..MaxGen /\ (gen = 0 => mfa.codes = {}) /\ mailed \subseteq MailCodes
    /\ challenge \in [Challenges -> {"none", "live", "cut"}]
    /\ step \in Nat /\ burnt \in -1..MaxStep
    /\ row \in Requests \cup {M!Free}
    /\ try \in [Requests -> TryRow]
    /\ opened \in [Challenges -> 0..1]
    /\ accepted \subseteq M!Given \X {1}
\* What a request is for, and what it may rely on.
TryOK(t) ==
    LET q == try[t]
    IN  /\ q.pc # "idle" => IF q.op = "login" THEN q.j \in Challenges /\ challenge[q.j] # "none"
                            ELSE q.j = "none"
        /\ q.pc \in {"fails", "failsUser"} => q.op # "enable"
        /\ row = t <=> Holding(q)
        /\ Through(q) => ~ Used(q.given)
        /\ Through(q) =>
              \/ q.kind = "totp" /\ q.given \in M!Steps \cap claims
              \/ q.kind = "mail" /\ q.given \in M!Mails \cap claims
              \/ q.kind = "recovery" /\ q.given \in mfa.codes
        /\ q.pc = "burns" => q.kind = "totp" /\ q.given[2] <= step + 1
        /\ Opening(q) => <<"challenge", q.j>> \in claims /\ opened[q.j] = 0
Apart ==
    \A t, u \in Requests :
        /\ Through(try[t]) /\ Through(try[u]) /\ try[t].given = try[u].given => t = u
        /\ Opening(try[t]) /\ Opening(try[u]) /\ try[t].j = try[u].j => t = u
\* What was accepted is claimed, or in no list of codes that is or will be.
UsedUp ==
    \A a \in accepted :
        \/ a[1] \in (M!Steps \cup M!Mails) \cap claims
        \/ \E g \in 1..gen : a[1] \in M!Codes(g) \ mfa.codes
OpenedOnce ==
    \A j \in Challenges :
        /\ opened[j] = 1 => <<"challenge", j>> \in claims
        /\ challenge[j] = "none" => opened[j] = 0
\* The steps that the last completed acceptance shuts out.
ShutOut == burnt # -1 =>
    burnt <= step + 1 /\ \A s \in {burnt, burnt - 1, burnt - 2} : <<"step", s>> \in claims

MfaInv ==
    /\ MfaTypes /\ Apart /\ UsedUp /\ OpenedOnce /\ ShutOut /\ M!NoCodeLost
    /\ \A t \in Requests : TryOK(t)

\* A failure is counted after its request began in an open window.
Counting == {t \in Requests : try[t].pc # "idle" /\ try[t].op # "enable"}
CountingOn(j) == {t \in Requests : try[t].pc \notin {"idle", "failsUser"} /\ try[t].j = j}
BudgetInv ==
    /\ fails \in Nat /\ chalFails \in [Challenges -> Nat]
    /\ fails + Cardinality(Counting) <= UserLimit + Cardinality(Requests) - 1
    /\ \A j \in Challenges :
          /\ chalFails[j] + Cardinality(CountingOn(j)) <= ChalLimit + Cardinality(Requests) - 1
          /\ challenge[j] = "none" => chalFails[j] = 0

LEMMA MfaNumbers ==
    /\ UserLimit \in Nat \ {0} /\ ChalLimit \in Nat \ {0} /\ MaxGen \in Nat \ {0}
    /\ MaxStep \in Nat /\ IsFiniteSet(Requests)
    /\ M!Free \notin Requests /\ "none" \notin Challenges
  BY IdentityAssumption DEF M!MfaAssumption, M!IsFiniteSet, IsFiniteSet, M!Free

LEMMA GivenKinds ==
    /\ \A g \in M!Steps : g \in M!Given /\ g[1] = "step" /\ g[2] \in 0..MaxStep /\ g = <<"step", g[2]>>
    /\ \A g \in M!Mails : g \in M!Given /\ g[1] = "mail"
    /\ \A n : \A g \in M!Codes(n) : g[1] = "code" /\ g[2] = n
    /\ \A n \in 1..MaxGen : M!Codes(n) \subseteq M!Given
<1>1. \A g \in M!Steps : g \in M!Given /\ g[1] = "step" /\ g[2] \in 0..MaxStep /\ g = <<"step", g[2]>>
  BY DEF M!Given, M!Steps
<1>2. \A g \in M!Mails : g \in M!Given /\ g[1] = "mail"
  BY DEF M!Given, M!Mails
<1>3. \A n : \A g \in M!Codes(n) : g[1] = "code" /\ g[2] = n
  BY DEF M!Codes
<1>4. \A n \in 1..MaxGen : M!Codes(n) \subseteq M!Given
  BY Zenon DEF M!Given
<1>5. QED
  BY <1>1, <1>2, <1>3, <1>4

\* No list of codes has a step or a mailed code, and no two lists share a code.
LEMMA CodesApart ==
    /\ \A n : M!Codes(n) \cap (M!Steps \cup M!Mails) = {}
    /\ M!Steps \cap M!Mails = {}
    /\ \A m, n : m # n => M!Codes(m) \cap M!Codes(n) = {}
  BY GivenKinds

LEMMA NoTryIdle == M!NoTry \in TryRow /\ M!NoTry.pc = "idle" /\ M!NoTry.op = "none"
  BY DEF M!NoTry, TryRow, M!Given, M!Wrong

LEMMA TryFields ==
    ASSUME NEW q \in TryRow
    PROVE  /\ q.pc \in {"idle", "checks", "burns", "passes", "commits", "fails", "failsUser"}
           /\ q.op \in {"none", "login", "disable", "regenerate", "fallback", "enable"}
           /\ q.j \in Challenges \cup {"none"}
           /\ q.kind \in {"none", "totp", "recovery", "mail"}
           /\ q.given \in M!Given /\ q.seen \in SUBSET M!Given
  BY DEF TryRow

\* A record that moved on.
LEMMA TryMoved ==
    ASSUME NEW q \in TryRow, NEW w,
           NEW pc \in {"idle", "checks", "burns", "passes", "commits", "fails", "failsUser"},
           w = [q EXCEPT !.pc = pc]
    PROVE  /\ w \in TryRow /\ w.pc = pc /\ w.op = q.op /\ w.j = q.j /\ w.kind = q.kind
           /\ w.given = q.given /\ w.seen = q.seen
  BY DEF TryRow

LEMMA ListGiven ==
    ASSUME MfaTypes
    PROVE  mfa.codes \subseteq M!Codes(gen) /\ mfa.codes \subseteq M!Given
<1>1. mfa.codes \subseteq M!Codes(gen) /\ gen \in 0..MaxGen
  BY DEF MfaTypes
<1>2. CASE gen = 0
  BY <1>1, <1>2 DEF MfaTypes
<1>3. CASE gen \in 1..MaxGen
  BY <1>1, <1>3, GivenKinds
<1>4. QED
  BY <1>1, <1>2, <1>3

-----------------------------------------------------------------------------
(* One request moves on; the user's row and the log of what was accepted do   *)
(* not change.                                                                *)

RowMoves(t, q) ==
    \/ row # t /\ ~ Holding(q) /\ row' = row
    \/ row \in {M!Free, t} /\ row' = IF Holding(q) THEN t ELSE M!Free

LEMMA TryMoves ==
    ASSUME MfaInv, NEW t \in Requests, NEW q \in TryRow, try' = [try EXCEPT ![t] = q],
           UNCHANGED <<mfa, gen, challenge, mailed, step, accepted, opened>>,
           claims \subseteq claims', burnt' \in -1..MaxStep, ShutOut', RowMoves(t, q), TryOK(t)',
           Through(q) => \A u \in Requests \ {t} : Through(try[u]) => try[u].given # q.given,
           Opening(q) => \A u \in Requests \ {t} : Opening(try[u]) => try[u].j # q.j
    PROVE  MfaInv'
<1> USE DEF MfaInv
<1>1. \A u \in Requests : try'[u] = IF u = t THEN q ELSE try[u]
  BY DEF MfaTypes
<1>2. row' \in Requests \cup {M!Free}
  BY DEF RowMoves, MfaTypes
<1>3. MfaTypes'
  BY <1>2 DEF MfaTypes
<1>4. Apart'
  <2>1. ASSUME NEW u \in Requests, NEW v \in Requests
        PROVE  /\ Through(try'[u]) /\ Through(try'[v]) /\ try'[u].given = try'[v].given => u = v
               /\ Opening(try'[u]) /\ Opening(try'[v]) /\ try'[u].j = try'[v].j => u = v
    <3>1. CASE u # t /\ v # t
      BY <1>1, <3>1 DEF Apart
    <3>2. CASE u = t /\ v # t
      BY <1>1, <3>2
    <3>3. CASE u # t /\ v = t
      BY <1>1, <3>3
    <3>4. QED
      BY <3>1, <3>2, <3>3
  <2>2. \A u, v \in Requests :
          /\ Through(try[u])' /\ Through(try[v])' /\ try'[u].given = try'[v].given => u = v
          /\ Opening(try[u])' /\ Opening(try[v])' /\ try'[u].j = try'[v].j => u = v
    BY <2>1 DEF Through, Opening
  <2>3. QED
    BY <2>2 DEF Apart
<1>5. UsedUp'
  BY DEF UsedUp
<1>6. OpenedOnce'
  BY DEF OpenedOnce
<1>7. M!NoCodeLost'
  BY DEF M!NoCodeLost
<1>8. ASSUME NEW u \in Requests, u # t
      PROVE  TryOK(u)'
  <2>1. TryOK(u) /\ try'[u] = try[u]
    BY <1>1, <1>8
  <2>2. row' = u <=> row = u
    BY <1>8, MfaNumbers DEF RowMoves
  <2>3. QED
    BY <2>1, <2>2 DEF TryOK, Holding, Through, Opening, Used
<1>9. QED
  BY <1>3, <1>4, <1>5, <1>6, <1>7, <1>8

\* A request that ends, or that fails: it holds nothing.
LEMMA TryDrops ==
    ASSUME MfaInv, NEW t \in Requests, NEW q \in TryRow, try' = [try EXCEPT ![t] = q],
           UNCHANGED <<mfa, gen, challenge, mailed, step, accepted, opened, burnt>>,
           claims \subseteq claims', row' = M!Unlocked(t),
           q.pc \in {"idle", "checks", "fails", "failsUser"},
           q.pc # "idle" => IF q.op = "login" THEN q.j \in Challenges /\ challenge[q.j] # "none"
                            ELSE q.j = "none",
           q.pc \in {"fails", "failsUser"} => q.op # "enable"
    PROVE  MfaInv'
<1>1. ~ Through(q) /\ ~ Holding(q) /\ ~ Opening(q)
  BY DEF Through, Holding, Opening
<1>2. RowMoves(t, q)
  BY <1>1 DEF RowMoves, M!Unlocked
<1>3. TryOK(t)'
  <2>1. try'[t] = q
    BY DEF MfaInv, MfaTypes
  <2>2. row' # t
    BY MfaNumbers DEF M!Unlocked
  <2>3. ~ Through(try[t])' /\ ~ Holding(try[t])' /\ ~ Opening(try[t])'
    BY <1>1, <2>1 DEF Through, Holding, Opening
  <2>4. QED
    BY <2>1, <2>2, <2>3 DEF TryOK
<1>4. burnt' \in -1..MaxStep /\ ShutOut'
  BY DEF MfaInv, MfaTypes, ShutOut
<1>5. QED
  BY <1>1, <1>2, <1>3, <1>4, TryMoves

-----------------------------------------------------------------------------
(* The requests, one step at a time. *)

LEMMA BeginKeeps ==
    ASSUME MfaInv, NEW t \in Requests,
           NEW op \in {"login", "disable", "regenerate", "fallback", "enable"},
           NEW j \in Challenges \cup {"none"}, NEW kind \in {"totp", "recovery", "mail"},
           NEW g \in M!Given, M!Begin(t, op, j, kind, g),
           IF op = "login" THEN j \in Challenges /\ challenge[j] # "none" ELSE j = "none"
    PROVE  MfaInv'
<1> DEFINE q == [pc |-> "checks", op |-> op, j |-> j, kind |-> kind, given |-> g,
                 seen |-> mfa.codes]
<1>1. /\ try[t].pc = "idle" /\ try' = [try EXCEPT ![t] = q]
      /\ UNCHANGED <<mfa, gen, challenge, mailed, step, accepted, opened, burnt, claims, row>>
  BY DEF M!Begin, M!history
<1>2. q \in TryRow
  BY ListGiven DEF TryRow, MfaInv
<1>3. row # t
  BY <1>1 DEF MfaInv, TryOK, Holding, Through
<1>4. row' = M!Unlocked(t)
  BY <1>1, <1>3 DEF M!Unlocked
<1>5. q.pc = "checks" /\ q.op = op /\ q.j = j
  OBVIOUS
<1> HIDE DEF q
<1>6. QED
  BY <1>1, <1>2, <1>4, <1>5, TryDrops

\* A wrong code of a request that counts failures.
LEMMA FailsKeeps ==
    ASSUME MfaInv, NEW t \in Requests, try[t].pc = "checks", try' = M!Fails(t),
           UNCHANGED <<mfa, gen, challenge, mailed, step, accepted, opened, burnt, row>>,
           claims \subseteq claims'
    PROVE  MfaInv'
<1> DEFINE q == IF try[t].op = "enable" THEN M!NoTry ELSE [try[t] EXCEPT !.pc = "fails"]
<1>1. try' = [try EXCEPT ![t] = q]
  BY DEF M!Fails
<1>2. try[t] \in TryRow /\ TryOK(t)
  BY DEF MfaInv, MfaTypes
<1>3. /\ q \in TryRow /\ q.pc \in {"idle", "fails"}
      /\ q.pc = "fails" => q.op # "enable" /\ q.op = try[t].op /\ q.j = try[t].j
  <2> DEFINE w == [try[t] EXCEPT !.pc = "fails"]
  <2>1. w \in TryRow /\ w.pc = "fails" /\ w.op = try[t].op /\ w.j = try[t].j
    <3>1. w = [try[t] EXCEPT !.pc = "fails"]
      OBVIOUS
    <3> HIDE DEF w
    <3>2. QED
      BY <1>2, <3>1, TryMoved
  <2>2. q = IF try[t].op = "enable" THEN M!NoTry ELSE w
    OBVIOUS
  <2> HIDE DEF q, w
  <2>3. QED
    BY <2>1, <2>2, NoTryIdle
<1>4. row' = M!Unlocked(t)
  BY <1>2 DEF TryOK, Holding, Through, M!Unlocked
<1> HIDE DEF q
<1>5. QED
  BY <1>1, <1>2, <1>3, <1>4, TryDrops DEF TryOK

LEMMA EndsKeeps ==
    ASSUME MfaInv, NEW t \in Requests, try' = [try EXCEPT ![t] = M!NoTry],
           UNCHANGED <<mfa, gen, challenge, mailed, step, accepted, opened, burnt>>,
           claims \subseteq claims', row' = M!Unlocked(t)
    PROVE  MfaInv'
  BY NoTryIdle, TryDrops

\* A request is let through: nobody was let through with the code before it.
LEMMA LetThrough ==
    ASSUME MfaInv, NEW t \in Requests, try[t].pc = "checks",
           NEW pc \in {"burns", "passes"}, try' = [try EXCEPT ![t].pc = pc],
           UNCHANGED <<mfa, gen, challenge, mailed, step, accepted, opened, burnt>>,
           claims \subseteq claims',
           \/ /\ try[t].kind = "totp" /\ try[t].given \in M!Steps \cap claims' /\ row' = row
              /\ try[t].given \notin claims /\ try[t].given[2] <= step + 1
           \/ /\ try[t].kind = "mail" /\ try[t].given \in M!Mails \cap claims' /\ row' = row
              /\ try[t].given \notin claims /\ pc = "passes"
           \/ /\ try[t].kind = "recovery" /\ try[t].given \in mfa.codes /\ row = M!Free /\ row' = t
              /\ pc = "passes"
    PROVE  MfaInv'
<1> DEFINE g == try[t].given  q == [try[t] EXCEPT !.pc = pc]
<1>1. try[t] \in TryRow /\ TryOK(t) /\ try' = [try EXCEPT ![t] = q] /\ try'[t] = q
  BY DEF MfaInv, MfaTypes
<1>2. /\ q \in TryRow /\ q.pc = pc /\ q.op = try[t].op /\ q.j = try[t].j
      /\ q.kind = try[t].kind /\ q.given = g
  <2>1. q = [try[t] EXCEPT !.pc = pc]
    OBVIOUS
  <2> HIDE DEF q
  <2>2. QED
    BY <1>1, <2>1, TryMoved
<1>3. mfa.codes \subseteq M!Codes(gen)
  BY ListGiven DEF MfaInv
<1>4. ~ Used(g)
  <2>1. \A a \in accepted : a[1] # g
    BY <1>3, CodesApart DEF MfaInv, UsedUp
  <2>2. QED
    BY <2>1 DEF Used
<1>5. ASSUME NEW u \in Requests \ {t}, Through(try[u])
      PROVE  try[u].given # g
  <2>1. \/ try[u].given \in (M!Steps \cup M!Mails) \cap claims
        \/ try[u].given \in mfa.codes /\ row = u
    BY <1>5 DEF MfaInv, TryOK, Holding
  <2>2. row = u => row # M!Free
    BY MfaNumbers
  <2>3. QED
    BY <1>3, <2>1, <2>2, CodesApart
<1>6. row # t
  BY <1>1 DEF TryOK, Holding, Through
<1> HIDE DEF q, g
<1>7. Through(q) /\ ~ Opening(q) /\ (Holding(q) <=> try[t].kind = "recovery")
  BY <1>2 DEF Through, Opening, Holding
<1>8. RowMoves(t, q)
  BY <1>6, <1>7 DEF RowMoves
<1>9. TryOK(t)'
  <2>1. row' = t <=> Holding(q)
    BY <1>6, <1>7
  <2>2. Through(try[t])' /\ ~ Opening(try[t])' /\ (Holding(try[t])' <=> Holding(q))
    BY <1>1, <1>7 DEF Through, Opening, Holding
  <2>3. q.pc # "idle" => IF q.op = "login" THEN q.j \in Challenges /\ challenge[q.j] # "none"
                            ELSE q.j = "none"
    BY <1>1, <1>2 DEF TryOK
  <2>4. \A a \in accepted' : a[1] # q.given
    BY <1>2, <1>4 DEF Used
  <2>5. \/ q.kind = "totp" /\ q.given \in M!Steps \cap claims'
        \/ q.kind = "mail" /\ q.given \in M!Mails \cap claims'
        \/ q.kind = "recovery" /\ q.given \in mfa.codes
    BY <1>2 DEF g
  <2>6. q.pc = "burns" => q.kind = "totp" /\ q.given[2] <= step + 1
    BY <1>2 DEF g
  <2>7. q.pc \notin {"fails", "failsUser"}
    BY <1>2
  <2>8. QED
    BY <1>1, <2>1, <2>2, <2>3, <2>4, <2>5, <2>6, <2>7 DEF TryOK, Used
<1>10. burnt' \in -1..MaxStep /\ ShutOut'
  BY DEF MfaInv, MfaTypes, ShutOut
<1>11. QED
  BY <1>1, <1>2, <1>5, <1>7, <1>8, <1>9, <1>10, TryMoves

LEMMA CheckTotpKeeps ==
    ASSUME MfaInv, NEW t \in Requests, M!CheckTotp(t)
    PROVE  MfaInv'
<1> DEFINE g == try[t].given
<1>1. /\ try[t].pc = "checks" /\ try[t].kind = "totp"
      /\ UNCHANGED <<mfa, gen, challenge, mailed, step, accepted, opened, burnt, row>>
  BY DEF M!CheckTotp, M!history
<1>2. CASE /\ g \in M!Steps /\ M!StepFresh(g[2])
           /\ claims' = claims \cup {g} /\ try' = [try EXCEPT ![t].pc = "burns"]
  <2>1. g = <<"step", g[2]>> /\ g[2] \in 0..MaxStep
    BY <1>2, GivenKinds
  <2>2. g \notin claims /\ g[2] <= step + 1
    BY <1>2, <2>1 DEF M!StepFresh, MfaInv, MfaTypes
  <2>3. QED
    BY <1>1, <1>2, <2>2, LetThrough
<1>3. CASE try' = M!Fails(t) /\ UNCHANGED claims
  BY <1>1, <1>3, FailsKeeps
<1>4. QED
  BY <1>2, <1>3 DEF M!CheckTotp

LEMMA CheckRecoveryKeeps ==
    ASSUME MfaInv, NEW t \in Requests, M!CheckRecovery(t)
    PROVE  MfaInv'
<1>1. /\ try[t].pc = "checks" /\ try[t].kind = "recovery" /\ row = M!Free
      /\ UNCHANGED <<mfa, gen, challenge, mailed, step, accepted, opened, burnt, claims>>
  BY DEF M!CheckRecovery, M!history
<1>2. CASE /\ M!StillInList(t) /\ row' = t
           /\ try' = [try EXCEPT ![t].pc = "passes"]
  BY <1>1, <1>2, LetThrough DEF M!StillInList
<1>3. CASE try' = M!Fails(t) /\ UNCHANGED row
  BY <1>1, <1>3, FailsKeeps
<1>4. QED
  BY <1>2, <1>3 DEF M!CheckRecovery

LEMMA CheckMailKeeps ==
    ASSUME MfaInv, NEW t \in Requests, M!CheckMail(t)
    PROVE  MfaInv'
<1> DEFINE g == try[t].given
<1>1. /\ try[t].pc = "checks" /\ try[t].kind = "mail"
      /\ UNCHANGED <<mfa, gen, challenge, mailed, step, accepted, opened, burnt, row>>
  BY DEF M!CheckMail, M!history
<1>2. CASE try' = M!Fails(t) /\ UNCHANGED claims
  BY <1>1, <1>2, FailsKeeps
<1>3. CASE /\ g \in claims /\ try' = [try EXCEPT ![t] = M!NoTry] /\ claims' = claims \cup {g}
  <2>1. row' = M!Unlocked(t)
    BY <1>1 DEF MfaInv, TryOK, Holding, Through, M!Unlocked
  <2>2. QED
    BY <1>1, <1>3, <2>1, EndsKeeps
<1>4. CASE /\ g \in {<<"mail", m>> : m \in mailed} /\ g \notin claims
           /\ try' = [try EXCEPT ![t] = [try[t] EXCEPT !.pc = "passes"]]
           /\ claims' = claims \cup {g}
  <2>1. g \in M!Mails
    BY <1>4 DEF M!Mails, MfaInv, MfaTypes
  <2>2. try' = [try EXCEPT ![t].pc = "passes"]
    BY <1>4
  <2>3. QED
    BY <1>1, <1>4, <2>1, <2>2, LetThrough
<1>5. QED
  BY <1>2, <1>3, <1>4 DEF M!CheckMail

\* A request that was let through goes on with what it was given.
LEMMA GoesOn ==
    ASSUME MfaInv, NEW t \in Requests, Through(try[t]), NEW pc \in {"passes", "commits"},
           try' = [try EXCEPT ![t].pc = pc],
           UNCHANGED <<mfa, gen, challenge, mailed, step, accepted, opened, row>>,
           claims \subseteq claims', burnt' \in -1..MaxStep, ShutOut',
           pc = "commits" /\ try[t].op = "login" =>
               <<"challenge", try[t].j>> \in claims' \ claims
    PROVE  MfaInv'
<1> DEFINE q == [try[t] EXCEPT !.pc = pc]
<1>1. try[t] \in TryRow /\ TryOK(t) /\ try' = [try EXCEPT ![t] = q] /\ try'[t] = q
  BY DEF MfaInv, MfaTypes
<1>2. /\ q \in TryRow /\ q.pc = pc /\ q.op = try[t].op /\ q.j = try[t].j
      /\ q.kind = try[t].kind /\ q.given = try[t].given
  <2>1. q = [try[t] EXCEPT !.pc = pc]
    OBVIOUS
  <2> HIDE DEF q
  <2>2. QED
    BY <1>1, <2>1, TryMoved
<1> HIDE DEF q
<1>3. /\ Through(q) /\ (Holding(q) <=> Holding(try[t]))
      /\ Opening(q) <=> pc = "commits" /\ try[t].op = "login"
  BY <1>2 DEF Through, Holding, Opening
<1>4. RowMoves(t, q)
  BY <1>1, <1>3 DEF RowMoves, TryOK
<1>5. Opening(q) => try[t].j \in Challenges /\ opened[try[t].j] = 0
  <2>1. Opening(q) => try[t].j \in Challenges
    BY <1>1, <1>3 DEF TryOK, Through
  <2>2. Opening(q) => opened[try[t].j] # 1 /\ opened[try[t].j] \in 0..1
    BY <1>3, <2>1 DEF MfaInv, OpenedOnce, MfaTypes
  <2>3. QED
    BY <2>1, <2>2
<1>6. TryOK(t)'
  <2>1. /\ Through(try[t])' /\ (Holding(try[t])' <=> Holding(try[t]))
        /\ Opening(try[t])' <=> Opening(q)
    BY <1>1, <1>3 DEF Through, Holding, Opening
  <2>2. IF q.op = "login" THEN q.j \in Challenges /\ challenge[q.j] # "none" ELSE q.j = "none"
    BY <1>1, <1>2 DEF TryOK, Through
  <2>3. row' = t <=> Holding(try[t])
    BY <1>1 DEF TryOK
  <2>4. \A a \in accepted' : a[1] # q.given
    BY <1>1, <1>2 DEF TryOK, Used
  <2>5. \/ q.kind = "totp" /\ q.given \in M!Steps \cap claims'
        \/ q.kind = "mail" /\ q.given \in M!Mails \cap claims'
        \/ q.kind = "recovery" /\ q.given \in mfa'.codes
    BY <1>1, <1>2 DEF TryOK
  <2>6. Opening(q) => <<"challenge", q.j>> \in claims' /\ opened'[q.j] = 0
    BY <1>2, <1>3, <1>5
  <2>7. QED
    BY <1>1, <1>2, <2>1, <2>2, <2>3, <2>4, <2>5, <2>6 DEF TryOK, Used
<1>7. Through(q) => \A u \in Requests \ {t} : Through(try[u]) => try[u].given # q.given
  BY <1>2 DEF MfaInv, Apart
<1>8. Opening(q) => \A u \in Requests \ {t} : Opening(try[u]) => try[u].j # q.j
  BY <1>2, <1>3 DEF MfaInv, TryOK
<1>9. QED
  BY <1>1, <1>2, <1>4, <1>6, <1>7, <1>8, TryMoves

LEMMA BurnOlderKeeps ==
    ASSUME MfaInv, NEW t \in Requests, M!BurnOlder(t)
    PROVE  MfaInv'
<1> DEFINE s == try[t].given[2]
<1>1. /\ try[t].pc = "burns" /\ try' = [try EXCEPT ![t].pc = "passes"]
      /\ claims' = claims \cup {<<"step", o>> : o \in {s - 1, s - 2}}
      /\ burnt' = IF s > burnt THEN s ELSE burnt
      /\ UNCHANGED <<mfa, gen, challenge, mailed, step, accepted, opened, row>>
  BY DEF M!BurnOlder, M!Older
<1>2. /\ Through(try[t]) /\ s <= step + 1 /\ try[t].given \in claims
      /\ try[t].given \in M!Steps
  BY <1>1 DEF MfaInv, TryOK, Through
<1>3. s \in 0..MaxStep /\ <<"step", s>> \in claims
  BY <1>2, GivenKinds
<1>4. step \in Nat /\ burnt \in -1..MaxStep
  BY DEF MfaInv, MfaTypes
<1> HIDE DEF s
<1>5. burnt' \in -1..MaxStep
  BY <1>1, <1>3, <1>4
<1>6. ShutOut'
  <2>1. CASE s > burnt
    <3>1. burnt' = s /\ burnt' <= step' + 1
      BY <1>1, <1>2, <2>1
    <3>2. /\ <<"step", s>> \in claims' /\ <<"step", s - 1>> \in claims' /\ <<"step", s - 2>> \in claims'
      BY <1>1, <1>3
    <3>3. QED
      BY <3>1, <3>2 DEF ShutOut
  <2>2. CASE ~ s > burnt
    BY <1>1, <2>2 DEF ShutOut, MfaInv
  <2>3. QED
    BY <2>1, <2>2
<1>7. claims \subseteq claims'
  BY <1>1
<1>8. QED
  BY <1>1, <1>2, <1>5, <1>6, <1>7, GoesOn

LEMMA PassLoginKeeps ==
    ASSUME MfaInv, NEW t \in Requests, M!PassLogin(t)
    PROVE  MfaInv'
<1>1. /\ try[t].pc = "passes" /\ try[t].op = "login"
      /\ UNCHANGED <<mfa, gen, challenge, mailed, step, accepted, opened, burnt>>
  BY DEF M!PassLogin, M!history
<1>2. CASE /\ try' = [try EXCEPT ![t] = M!NoTry] /\ row' = M!Unlocked(t) /\ UNCHANGED claims
  BY <1>1, <1>2, EndsKeeps
<1>3. CASE /\ <<"challenge", try[t].j>> \notin claims
           /\ claims' = claims \cup {<<"challenge", try[t].j>>}
           /\ try' = [try EXCEPT ![t].pc = "commits"] /\ UNCHANGED row
  <2>1. burnt' \in -1..MaxStep /\ ShutOut'
    BY <1>1, <1>3 DEF MfaInv, MfaTypes, ShutOut
  <2>2. Through(try[t])
    BY <1>1 DEF Through
  <2>3. claims \subseteq claims' /\ <<"challenge", try[t].j>> \in claims' \ claims
    BY <1>3
  <2>4. QED
    BY <1>1, <1>3, <2>1, <2>2, <2>3, GoesOn
<1>4. QED
  BY <1>2, <1>3 DEF M!PassLogin, M!ChallengeClaim

LEMMA PassSettingsKeeps ==
    ASSUME MfaInv, NEW t \in Requests, M!PassSettings(t)
    PROVE  MfaInv'
<1>1. /\ try[t].pc = "passes" /\ try[t].op # "login"
      /\ try' = [try EXCEPT ![t].pc = "commits"]
      /\ UNCHANGED <<mfa, gen, challenge, mailed, step, accepted, opened, burnt, claims, row>>
  BY DEF M!PassSettings, M!history
<1>2. Through(try[t])
  BY <1>1 DEF Through
<1>3. burnt' \in -1..MaxStep /\ ShutOut'
  BY <1>1 DEF MfaInv, MfaTypes, ShutOut
<1>4. QED
  BY <1>1, <1>2, <1>3, GoesOn

LEMMA FailChallengeKeeps ==
    ASSUME MfaInv, NEW t \in Requests, M!FailChallenge(t)
    PROVE  MfaInv'
<1> DEFINE q == [try[t] EXCEPT !.pc = "failsUser"]
<1>1. /\ try[t].pc = "fails" /\ try' = [try EXCEPT ![t] = q] /\ claims \subseteq claims'
      /\ UNCHANGED <<mfa, gen, challenge, mailed, step, accepted, opened, burnt, row>>
  BY DEF M!FailChallenge, M!history
<1>2. try[t] \in TryRow /\ TryOK(t)
  BY DEF MfaInv, MfaTypes
<1>3. q = [try[t] EXCEPT !.pc = "failsUser"]
  OBVIOUS
<1> HIDE DEF q
<1>4. q \in TryRow /\ q.pc = "failsUser" /\ q.op = try[t].op /\ q.j = try[t].j
  BY <1>2, <1>3, TryMoved
<1>5. row' = M!Unlocked(t)
  BY <1>1, <1>2 DEF TryOK, Holding, Through, M!Unlocked
<1>6. QED
  BY <1>1, <1>2, <1>4, <1>5, TryDrops DEF TryOK

LEMMA FailUserKeeps ==
    ASSUME MfaInv, NEW t \in Requests, M!FailUser(t)
    PROVE  MfaInv'
<1>1. /\ try[t].pc = "failsUser" /\ try' = [try EXCEPT ![t] = M!NoTry]
      /\ UNCHANGED <<mfa, gen, challenge, mailed, step, accepted, opened, burnt, claims, row>>
  BY DEF M!FailUser, M!history
<1>2. row' = M!Unlocked(t)
  BY <1>1 DEF MfaInv, TryOK, Holding, Through, M!Unlocked
<1>3. QED
  BY <1>1, <1>2, EndsKeeps

LEMMA CrashKeeps ==
    ASSUME MfaInv, NEW t \in Requests, M!Crash(t)
    PROVE  MfaInv'
  BY EndsKeeps DEF M!Crash, M!history

\* Challenges, mailed codes, the clock and the window: no request moves.
LEMMA QuietKeeps ==
    ASSUME MfaInv, UNCHANGED <<gen, try, claims, row, accepted, opened, burnt>>,
           mfa' = mfa \/ (row = M!Free /\ ~ mfa.on /\ mfa' = [mfa EXCEPT !.secret = TRUE]),
           challenge' \in [Challenges -> {"none", "live", "cut"}],
           \A j \in Challenges : challenge'[j] = "none" => challenge[j] = "none",
           mailed' \subseteq MailCodes, step' \in Nat, step' >= step
    PROVE  MfaInv'
<1> USE DEF MfaInv
<1>1. /\ mfa'.codes = mfa.codes /\ mfa'.on = mfa.on
      /\ mfa' \in [on : BOOLEAN, secret : BOOLEAN, codes : SUBSET M!Codes(gen), fallback : BOOLEAN]
  BY DEF MfaTypes
<1>2. MfaTypes'
  BY <1>1 DEF MfaTypes
<1>3. Apart' /\ OpenedOnce' /\ UsedUp'
  BY <1>1 DEF Apart, OpenedOnce, UsedUp, Through, Opening
<1>4. ShutOut'
  <2>1. step \in Nat /\ step' \in Nat /\ burnt \in Int
    BY DEF MfaTypes
  <2>2. QED
    BY <2>1 DEF ShutOut
<1>5. M!NoCodeLost'
  BY <1>1 DEF M!NoCodeLost
<1>6. ASSUME NEW t \in Requests
      PROVE  TryOK(t)'
  <2>1. TryOK(t) /\ try[t] \in TryRow /\ step \in Nat
    BY DEF MfaTypes
  <2>2. try[t].pc = "burns" => try[t].given[2] <= step'  + 1
    <3>1. try[t].pc = "burns" => try[t].given[2] \in 0..MaxStep
      BY <2>1, GivenKinds, CodesApart DEF TryOK, Through
    <3>2. QED
      BY <2>1, <3>1, MfaNumbers DEF TryOK
  <2>3. QED
    BY <1>1, <2>1, <2>2 DEF TryOK, Holding, Through, Opening, Used
<1>7. QED
  BY <1>2, <1>3, <1>4, <1>5, <1>6

-----------------------------------------------------------------------------
(* A commit spends what the request was given. *)

\* The row a commit leaves: one code fewer, none, or those of a new generation.
LEMMA RowLeft ==
    ASSUME MfaInv, NEW t \in Requests, M!CommitMfa(t)
    PROVE  /\ mfa' \in [on : BOOLEAN, secret : BOOLEAN, codes : SUBSET M!Codes(gen'), fallback : BOOLEAN]
           /\ gen' \in 0..MaxGen /\ (gen' = 0 => mfa'.codes = {})
           /\ \/ /\ gen' = gen /\ mfa'.codes \subseteq mfa.codes \ {try[t].given}
                 /\ mfa'.on => mfa.on /\ mfa'.codes = mfa.codes \ {try[t].given}
              \/ /\ gen' = gen + 1 /\ mfa'.codes = M!Codes(gen')
<1> DEFINE g == try[t].given
<1>1. try[t].op \in {"none", "login", "disable", "regenerate", "fallback", "enable"}
  BY TryFields DEF MfaInv, MfaTypes
<1>2. /\ mfa \in [on : BOOLEAN, secret : BOOLEAN, codes : SUBSET M!Codes(gen), fallback : BOOLEAN]
      /\ gen \in 0..MaxGen /\ (gen = 0 => mfa.codes = {}) /\ MaxGen \in Nat
  BY MfaNumbers DEF MfaInv, MfaTypes
<1>3. CASE try[t].op = "disable"
  <2>1. /\ mfa' = [on |-> FALSE, secret |-> FALSE, codes |-> {}, fallback |-> FALSE]
        /\ gen' = gen
    BY <1>3 DEF M!CommitMfa, M!NewRow
  <2>2. QED
    BY <1>2, <2>1
<1>4. CASE try[t].op \in {"enable", "regenerate"}
  <2>1. PICK on \in BOOLEAN : mfa' = [mfa EXCEPT !.on = on, !.codes = M!Codes(gen + 1)]
    BY <1>2, <1>4 DEF M!CommitMfa, M!NewRow, M!FreshCodes
  <2>2. gen' = gen + 1 /\ gen < MaxGen
    BY <1>4 DEF M!CommitMfa
  <2>3. gen' \in 1..MaxGen
    BY <1>2, <2>2
  <2>4. mfa'.codes = M!Codes(gen')
    BY <1>2, <2>1, <2>2
  <2>5. mfa' \in [on : BOOLEAN, secret : BOOLEAN, codes : SUBSET M!Codes(gen'), fallback : BOOLEAN]
    BY <1>2, <2>1, <2>2
  <2>6. QED
    BY <2>2, <2>3, <2>4, <2>5
<1>5. CASE try[t].op \in {"none", "login", "fallback"}
  <2>1. PICK fallback \in BOOLEAN : mfa' = [mfa EXCEPT !.codes = mfa.codes \ {g}, !.fallback = fallback]
    BY <1>2, <1>5 DEF M!CommitMfa, M!NewRow, M!Spent
  <2>2. gen' = gen
    BY <1>5 DEF M!CommitMfa
  <2>3. mfa'.codes = mfa.codes \ {g} /\ mfa'.on = mfa.on
    BY <1>2, <2>1
  <2>4. mfa' \in [on : BOOLEAN, secret : BOOLEAN, codes : SUBSET M!Codes(gen'), fallback : BOOLEAN]
    BY <1>2, <2>1, <2>2
  <2>5. QED
    BY <1>2, <2>2, <2>3, <2>4
<1>6. QED
  BY <1>1, <1>3, <1>4, <1>5

LEMMA CommitMfaKeeps ==
    ASSUME MfaInv, NEW t \in Requests, M!CommitMfa(t)
    PROVE  MfaInv'
<1> USE DEF MfaInv
<1> DEFINE g == try[t].given
<1>1. /\ try[t].pc = "commits" /\ row \in {M!Free, t} /\ row' = M!Free
      /\ try' = [try EXCEPT ![t] = M!NoTry]
      /\ UNCHANGED <<challenge, mailed, step, claims, burnt>>
  BY DEF M!CommitMfa
<1>2. try[t] \in TryRow /\ TryOK(t) /\ Through(try[t])
  BY <1>1 DEF MfaTypes, Through
<1>3. accepted' = accepted \cup {<<g, 1>>}
  <2>1. {a \in accepted : a[1] = g} = {}
    BY <1>2 DEF TryOK, Used
  <2>2. M!Cardinality({}) + 1 = 1
    BY FS_EmptySet DEF M!Cardinality, Cardinality
  <2>3. QED
    BY <2>1, <2>2 DEF M!CommitMfa
<1>4. /\ mfa' \in [on : BOOLEAN, secret : BOOLEAN, codes : SUBSET M!Codes(gen'), fallback : BOOLEAN]
      /\ gen' \in 0..MaxGen /\ (gen' = 0 => mfa'.codes = {})
      /\ \/ /\ gen' = gen /\ mfa'.codes \subseteq mfa.codes \ {g}
            /\ mfa'.on => mfa.on /\ mfa'.codes = mfa.codes \ {g}
         \/ /\ gen' = gen + 1 /\ mfa'.codes = M!Codes(gen')
  BY RowLeft
<1>5. gen \in Nat /\ mfa.codes \subseteq M!Codes(gen) /\ (gen = 0 => mfa.codes = {}) /\ g \in M!Given
  BY <1>2, TryFields, ListGiven, MfaNumbers DEF MfaTypes
<1>6. /\ opened' \in [Challenges -> 0..1]
      /\ \A j \in Challenges : opened'[j] = IF Opening(try[t]) /\ j = try[t].j THEN 1 ELSE opened[j]
  <2>1. opened' = [j \in Challenges |-> opened[j] + (IF try[t].op = "login" /\ j = try[t].j THEN 1 ELSE 0)]
    BY DEF M!CommitMfa
  <2>2. Opening(try[t]) => opened[try[t].j] = 0
    BY <1>2 DEF TryOK
  <2>3. Opening(try[t]) <=> try[t].op = "login"
    BY <1>1 DEF Opening
  <2>4. \A j \in Challenges : opened[j] \in 0..1
    BY DEF MfaTypes
  <2>5. \A j \in Challenges :
          opened[j] + (IF try[t].op = "login" /\ j = try[t].j THEN 1 ELSE 0)
            = IF Opening(try[t]) /\ j = try[t].j THEN 1 ELSE opened[j]
    BY <2>2, <2>3, <2>4
  <2>6. QED
    BY <2>1, <2>4, <2>5
<1>7. MfaTypes'
  <2>1. try' \in [Requests -> TryRow]
    BY <1>1, NoTryIdle DEF MfaTypes
  <2>2. accepted' \subseteq M!Given \X {1}
    BY <1>3, <1>5 DEF MfaTypes
  <2>3. QED
    BY <1>1, <1>4, <1>6, <2>1, <2>2 DEF MfaTypes
<1>8. \A u \in Requests : try'[u] = IF u = t THEN M!NoTry ELSE try[u]
  BY <1>1 DEF MfaTypes
<1>9. Apart'
  BY <1>8, NoTryIdle DEF Apart, Through, Opening
<1>10. UsedUp'
  <2>1. ASSUME NEW n \in 1..gen, NEW c \in M!Codes(n) \ mfa.codes
        PROVE  \E m \in 1..gen' : c \in M!Codes(m) \ mfa'.codes
    <3>1. c \notin mfa'.codes
      BY <1>4, <1>5, <2>1, CodesApart
    <3>2. n \in 1..gen'
      BY <1>4, <1>5
    <3>3. QED
      BY <3>1, <3>2
  <2>2. ASSUME NEW a \in accepted
        PROVE  \/ a[1] \in (M!Steps \cup M!Mails) \cap claims'
               \/ \E m \in 1..gen' : a[1] \in M!Codes(m) \ mfa'.codes
    BY <1>1, <2>1 DEF UsedUp
  <2>3. \/ g \in (M!Steps \cup M!Mails) \cap claims'
        \/ \E m \in 1..gen' : g \in M!Codes(m) \ mfa'.codes
    <3>1. CASE g \in (M!Steps \cup M!Mails) \cap claims
      BY <1>1, <3>1
    <3>2. CASE g \in mfa.codes
      <4>1. gen \in 1..gen' /\ g \in M!Codes(gen)
        BY <1>4, <1>5, <3>2
      <4>2. g \notin mfa'.codes
        BY <1>4, <1>5, <4>1, CodesApart
      <4>3. QED
        BY <4>1, <4>2
    <3>3. QED
      BY <1>2, <3>1, <3>2 DEF TryOK
  <2>4. \A a \in accepted' : a \in accepted \/ a[1] = g
    BY <1>3
  <2>5. QED
    BY <2>2, <2>3, <2>4 DEF UsedUp
<1>11. OpenedOnce'
  BY <1>1, <1>2, <1>6 DEF OpenedOnce, TryOK, Opening
<1>12. ShutOut'
  BY <1>1 DEF ShutOut
<1>13. M!NoCodeLost'
  <2>1. \A a \in accepted \cup {<<g, 1>>} : a \in accepted'
    BY <1>3
  <2>2. <<g, 1>>[1] = g
    OBVIOUS
  <2>3. ASSUME mfa'.on, NEW c \in M!Codes(gen')
        PROVE  c \in mfa'.codes \/ \E a \in accepted' : a[1] = c
    <3>1. CASE gen' = gen + 1 /\ mfa'.codes = M!Codes(gen')
      BY <2>3, <3>1
    <3>2. CASE gen' = gen /\ mfa.on /\ mfa'.codes = mfa.codes \ {g}
      BY <2>1, <2>2, <2>3, <3>2 DEF M!NoCodeLost
    <3>3. QED
      BY <1>4, <2>3, <3>1, <3>2
  <2>4. QED
    BY <2>3 DEF M!NoCodeLost
<1>14. ASSUME NEW u \in Requests
       PROVE  TryOK(u)'
  <2>1. CASE u = t
    BY <1>1, <1>8, <2>1, NoTryIdle, MfaNumbers DEF TryOK, Holding, Through, Opening
  <2>2. CASE u # t
    <3>1. TryOK(u) /\ try'[u] = try[u] /\ try[u] \in TryRow
      BY <1>8, <2>2 DEF MfaTypes
    <3>2. ~ Holding(try[u]) /\ row' # u
      BY <1>1, <2>2, <3>1, MfaNumbers DEF TryOK
    <3>3. Through(try[u]) => try[u].given # g
      BY <1>2, <2>2 DEF Apart
    <3>4. Through(try[u]) => ~ \E a \in accepted' : a[1] = try[u].given
      BY <1>3, <3>1, <3>3 DEF TryOK, Used
    <3>5. Opening(try[u]) => opened'[try[u].j] = 0
      <4>1. Opening(try[u]) => try[u].j \in Challenges /\ opened[try[u].j] = 0
        BY <3>1 DEF TryOK, Opening
      <4>2. Opening(try[u]) /\ Opening(try[t]) => try[u].j # try[t].j
        BY <2>2 DEF Apart
      <4>3. QED
        BY <1>6, <4>1, <4>2
    <3>6. QED
      BY <1>1, <3>1, <3>2, <3>4, <3>5 DEF TryOK, Holding, Through, Opening, Used
  <2>3. QED
    BY <2>1, <2>2
<1>15. QED
  BY <1>7, <1>9, <1>10, <1>11, <1>12, <1>13, <1>14

-----------------------------------------------------------------------------
(* The windows: what is counted and what is under way stay within the budget. *)

UserMoves ==
    \/ fails' = 0
    \/ fails' = fails /\ (Counting' \subseteq Counting \/ fails < UserLimit)
    \/ fails' = fails + 1 /\ \E t \in Counting : Counting' \subseteq Counting \ {t}
ChallengeMoves(j) ==
    \/ chalFails'[j] = chalFails[j] /\ (CountingOn(j)' \subseteq CountingOn(j) \/ chalFails[j] < ChalLimit)
    \/ /\ challenge[j] # "none" /\ chalFails'[j] = chalFails[j] + 1
       /\ \E t \in CountingOn(j) : CountingOn(j)' \subseteq CountingOn(j) \ {t}

\* A budget of k failures and n requests, with m under way.
LEMMA Budget ==
    ASSUME NEW k \in Nat \ {0}, NEW x \in Nat, NEW y \in Nat,
           NEW P \in SUBSET Requests, NEW Q \in SUBSET Requests,
           x + Cardinality(P) <= k + Cardinality(Requests) - 1,
           \/ y = 0
           \/ y = x /\ (Q \subseteq P \/ x < k)
           \/ y = x + 1 /\ \E t \in P : Q \subseteq P \ {t}
    PROVE  y + Cardinality(Q) <= k + Cardinality(Requests) - 1
<1>1. /\ IsFiniteSet(P) /\ IsFiniteSet(Q) /\ IsFiniteSet(Requests)
      /\ Cardinality(Q) <= Cardinality(Requests)
  BY MfaNumbers, FS_Subset
<1>2. Cardinality(P) \in Nat /\ Cardinality(Q) \in Nat /\ Cardinality(Requests) \in Nat
  BY <1>1, FS_CardinalityType
<1>3. CASE y = 0 \/ (y = x /\ x < k)
  BY <1>1, <1>2, <1>3
<1>4. CASE y = x /\ Q \subseteq P
  <2>1. Cardinality(Q) <= Cardinality(P)
    BY <1>1, <1>4, FS_Subset
  <2>2. QED
    BY <1>2, <1>4, <2>1
<1>5. ASSUME NEW t \in P, y = x + 1, Q \subseteq P \ {t}
      PROVE  y + Cardinality(Q) <= k + Cardinality(Requests) - 1
  <2>1. IsFiniteSet(P \ {t}) /\ Cardinality(P \ {t}) = Cardinality(P) - 1
    BY <1>1, <1>5, FS_RemoveElement
  <2>2. Cardinality(Q) <= Cardinality(P \ {t})
    BY <1>5, <2>1, FS_Subset
  <2>3. QED
    BY <1>2, <1>5, <2>1, <2>2
<1>6. QED
  BY <1>3, <1>4, <1>5

LEMMA BudgetMoves ==
    ASSUME BudgetInv, fails' \in Nat, chalFails' \in [Challenges -> Nat], UserMoves,
           \A j \in Challenges :
              ChallengeMoves(j) /\ (challenge'[j] = "none" => challenge[j] = "none")
    PROVE  BudgetInv'
<1>1. fails' + Cardinality(Counting') <= UserLimit + Cardinality(Requests) - 1
  <2>1. Counting \subseteq Requests /\ Counting' \subseteq Requests
    BY DEF Counting
  <2>2. QED
    BY <2>1, MfaNumbers, Budget DEF BudgetInv, UserMoves
<1>2. ASSUME NEW j \in Challenges
      PROVE  /\ chalFails'[j] + Cardinality(CountingOn(j)') <= ChalLimit + Cardinality(Requests) - 1
             /\ challenge'[j] = "none" => chalFails'[j] = 0
  <2>1. CountingOn(j) \subseteq Requests /\ CountingOn(j)' \subseteq Requests
    BY DEF CountingOn
  <2>2. chalFails[j] \in Nat /\ chalFails'[j] \in Nat
    BY DEF BudgetInv
  <2>3. chalFails'[j] + Cardinality(CountingOn(j)') <= ChalLimit + Cardinality(Requests) - 1
    BY <2>1, <2>2, MfaNumbers, Budget DEF BudgetInv, ChallengeMoves
  <2>4. challenge'[j] = "none" => chalFails'[j] = 0
    BY DEF BudgetInv, ChallengeMoves
  <2>5. QED
    BY <2>3, <2>4
<1>3. QED
  BY <1>1, <1>2 DEF BudgetInv

\* A request that moves on or ends is counted where it was, or no longer.
LEMMA CountedAsBefore ==
    ASSUME MfaTypes, NEW t \in Requests, NEW q \in TryRow, try' = [try EXCEPT ![t] = q],
           \/ q.pc = "idle"
           \/ /\ try[t].pc \notin {"idle", "failsUser"} /\ q.op = try[t].op /\ q.j = try[t].j
           \/ q.op = "enable" /\ q.j = "none"
    PROVE  /\ Counting' \subseteq Counting
           /\ \A j \in Challenges : CountingOn(j)' \subseteq CountingOn(j)
<1>1. \A u \in Requests : try'[u] = IF u = t THEN q ELSE try[u]
  BY DEF MfaTypes
<1>2. QED
  BY <1>1, MfaNumbers DEF Counting, CountingOn

LEMMA SameWindows ==
    ASSUME BudgetInv, MfaTypes, NEW t \in Requests, NEW q \in TryRow,
           try' = [try EXCEPT ![t] = q],
           \/ q.pc = "idle"
           \/ /\ try[t].pc \notin {"idle", "failsUser"} /\ q.op = try[t].op /\ q.j = try[t].j
           \/ q.op = "enable" /\ q.j = "none",
           fails' = fails \/ fails' = 0, UNCHANGED <<chalFails, challenge>>
    PROVE  BudgetInv'
<1>1. /\ Counting' \subseteq Counting
      /\ \A j \in Challenges : CountingOn(j)' \subseteq CountingOn(j)
  BY CountedAsBefore
<1>2. fails' \in Nat /\ chalFails' \in [Challenges -> Nat]
  BY DEF BudgetInv
<1>3. QED
  BY <1>1, <1>2, BudgetMoves DEF UserMoves, ChallengeMoves

LEMMA QuietWindows ==
    ASSUME BudgetInv, UNCHANGED <<try, chalFails>>, fails' = fails \/ fails' = 0,
           \A j \in Challenges : challenge'[j] = "none" => challenge[j] = "none"
    PROVE  BudgetInv'
<1>1. Counting' \subseteq Counting /\ \A j \in Challenges : CountingOn(j)' \subseteq CountingOn(j)
  BY DEF Counting, CountingOn
<1>2. fails' \in Nat /\ chalFails' \in [Challenges -> Nat]
  BY DEF BudgetInv
<1>3. QED
  BY <1>1, <1>2, BudgetMoves DEF UserMoves, ChallengeMoves

LEMMA BeginWindows ==
    ASSUME BudgetInv, MfaInv, NEW t \in Requests,
           NEW op \in {"login", "disable", "regenerate", "fallback", "enable"},
           NEW j \in Challenges \cup {"none"}, NEW kind \in {"totp", "recovery", "mail"},
           NEW g \in M!Given, M!Begin(t, op, j, kind, g),
           \/ M!WindowOpen(j)
           \/ op = "enable" /\ j = "none"
    PROVE  BudgetInv'
<1> DEFINE q == [pc |-> "checks", op |-> op, j |-> j, kind |-> kind, given |-> g,
                 seen |-> mfa.codes]
<1>1. /\ try' = [try EXCEPT ![t] = q] /\ UNCHANGED <<challenge, fails, chalFails>>
  BY DEF M!Begin
<1>2. q \in TryRow /\ q.op = op /\ q.j = j
  BY ListGiven DEF TryRow, MfaInv
<1> HIDE DEF q
<1>3. CASE op = "enable" /\ j = "none"
  BY <1>1, <1>2, <1>3, SameWindows DEF MfaInv
<1>4. CASE M!WindowOpen(j)
  <2>1. \A u \in Requests : try'[u] = IF u = t THEN q ELSE try[u]
    BY <1>1 DEF MfaInv, MfaTypes
  <2>2. fails < UserLimit /\ (j \in Challenges => chalFails[j] < ChalLimit)
    BY <1>4 DEF M!WindowOpen
  <2>3. \A i \in Challenges : i # j => CountingOn(i)' \subseteq CountingOn(i)
    BY <1>2, <2>1 DEF CountingOn
  <2>4. fails' \in Nat /\ chalFails' \in [Challenges -> Nat]
    BY <1>1 DEF BudgetInv
  <2>5. QED
    BY <1>1, <2>2, <2>3, <2>4, BudgetMoves DEF UserMoves, ChallengeMoves
<1>5. QED
  BY <1>3, <1>4

LEMMA FailChallengeWindows ==
    ASSUME BudgetInv, MfaInv, NEW t \in Requests, M!FailChallenge(t)
    PROVE  BudgetInv'
<1> DEFINE q == [try[t] EXCEPT !.pc = "failsUser"]  j == try[t].j
<1>1. /\ try[t].pc = "fails" /\ try' = [try EXCEPT ![t] = q] /\ UNCHANGED <<challenge, fails>>
      /\ IF j \in Challenges THEN chalFails' = [chalFails EXCEPT ![j] = chalFails[j] + 1]
         ELSE UNCHANGED chalFails
  BY DEF M!FailChallenge
<1>2. try[t] \in TryRow /\ TryOK(t)
  BY DEF MfaInv, MfaTypes
<1>3. q \in TryRow /\ q.pc = "failsUser" /\ q.op = try[t].op /\ q.j = try[t].j
  <2>1. q = [try[t] EXCEPT !.pc = "failsUser"]
    OBVIOUS
  <2> HIDE DEF q
  <2>2. QED
    BY <1>2, <2>1, TryMoved
<1> HIDE DEF q
<1>4. /\ Counting' \subseteq Counting
      /\ \A i \in Challenges : CountingOn(i)' \subseteq CountingOn(i)
  BY <1>1, <1>3, CountedAsBefore DEF MfaInv
<1>5. fails' \in Nat /\ chalFails' \in [Challenges -> Nat]
  BY <1>1 DEF BudgetInv
<1>6. ASSUME NEW i \in Challenges
      PROVE  ChallengeMoves(i)
  <2>1. CASE i # j
    BY <1>1, <1>4, <2>1 DEF ChallengeMoves, BudgetInv
  <2>2. CASE i = j
    <3>1. challenge[j] # "none"
      BY <1>1, <1>2, <2>2, MfaNumbers DEF TryOK
    <3>2. chalFails'[j] = chalFails[j] + 1
      BY <1>1, <2>2 DEF BudgetInv
    <3>3. t \in CountingOn(j) /\ t \notin CountingOn(j)'
      <4>1. try'[t].pc = "failsUser"
        BY <1>1, <1>3 DEF MfaInv, MfaTypes
      <4>2. QED
        BY <1>1, <4>1 DEF CountingOn
    <3>4. CountingOn(i)' \subseteq CountingOn(i) \ {t}
      BY <1>4, <2>2, <3>3 DEF CountingOn
    <3>5. QED
      BY <2>2, <3>1, <3>2, <3>3, <3>4 DEF ChallengeMoves
  <2>3. QED
    BY <2>1, <2>2
<1>7. QED
  BY <1>1, <1>4, <1>5, <1>6, BudgetMoves DEF UserMoves

LEMMA FailUserWindows ==
    ASSUME BudgetInv, MfaInv, NEW t \in Requests, M!FailUser(t)
    PROVE  BudgetInv'
<1>1. /\ try[t].pc = "failsUser" /\ try' = [try EXCEPT ![t] = M!NoTry] /\ fails' = fails + 1
      /\ UNCHANGED <<challenge, chalFails>>
  BY DEF M!FailUser
<1>2. TryOK(t) /\ try'[t] = M!NoTry
  BY <1>1 DEF MfaInv, MfaTypes
<1>3. /\ Counting' \subseteq Counting
      /\ \A i \in Challenges : CountingOn(i)' \subseteq CountingOn(i)
  BY <1>1, NoTryIdle, CountedAsBefore DEF MfaInv
<1>4. t \in Counting /\ t \notin Counting'
  BY <1>1, <1>2, NoTryIdle DEF Counting, TryOK
<1>5. Counting' \subseteq Counting \ {t}
  BY <1>3, <1>4
<1>6. fails' \in Nat /\ chalFails' \in [Challenges -> Nat]
  BY <1>1 DEF BudgetInv
<1>7. QED
  BY <1>1, <1>3, <1>4, <1>5, <1>6, BudgetMoves DEF UserMoves, ChallengeMoves

LEMMA OnWindows ==
    ASSUME BudgetInv, MfaInv, NEW t \in Requests, try[t].pc \notin {"idle", "failsUser"},
           NEW pc \in {"burns", "passes", "commits", "fails"},
           \/ try' = [try EXCEPT ![t].pc = pc]
           \/ try' = [try EXCEPT ![t] = [try[t] EXCEPT !.pc = pc]],
           fails' = fails \/ fails' = 0, UNCHANGED <<chalFails, challenge>>
    PROVE  BudgetInv'
<1> DEFINE q == [try[t] EXCEPT !.pc = pc]
<1>1. try[t] \in TryRow /\ try' = [try EXCEPT ![t] = q] /\ q = [try[t] EXCEPT !.pc = pc]
  BY DEF MfaInv, MfaTypes
<1> HIDE DEF q
<1>2. q \in TryRow /\ q.op = try[t].op /\ q.j = try[t].j
  BY <1>1, TryMoved
<1>3. QED
  BY <1>1, <1>2, SameWindows DEF MfaInv

LEMMA EndWindows ==
    ASSUME BudgetInv, MfaInv, NEW t \in Requests, try' = [try EXCEPT ![t] = M!NoTry],
           fails' = fails \/ fails' = 0, UNCHANGED <<chalFails, challenge>>
    PROVE  BudgetInv'
  BY NoTryIdle, SameWindows DEF MfaInv

LEMMA CheckWindows ==
    ASSUME BudgetInv, MfaInv, NEW t \in Requests,
           M!CheckTotp(t) \/ M!CheckRecovery(t) \/ M!CheckMail(t)
    PROVE  BudgetInv'
<1>1. try[t].pc = "checks" /\ UNCHANGED <<fails, chalFails, challenge>>
  BY DEF M!CheckTotp, M!CheckRecovery, M!CheckMail
<1>2. CASE try' = M!Fails(t)
  <2>1. CASE try[t].op = "enable"
    BY <1>1, <1>2, <2>1, EndWindows DEF M!Fails
  <2>2. CASE try[t].op # "enable"
    <3>1. try' = [try EXCEPT ![t] = [try[t] EXCEPT !.pc = "fails"]]
      BY <1>2, <2>2 DEF M!Fails
    <3>2. QED
      BY <1>1, <3>1, OnWindows
  <2>3. QED
    BY <2>1, <2>2
<1>3. CASE try' = [try EXCEPT ![t] = M!NoTry]
  BY <1>1, <1>3, EndWindows
<1>4. CASE \/ try' = [try EXCEPT ![t].pc = "burns"]
           \/ try' = [try EXCEPT ![t].pc = "passes"]
           \/ try' = [try EXCEPT ![t] = [try[t] EXCEPT !.pc = "passes"]]
  BY <1>1, <1>4, OnWindows
<1>5. QED
  BY <1>2, <1>3, <1>4 DEF M!CheckTotp, M!CheckRecovery, M!CheckMail

LEMMA AnswersKeep ==
    ASSUME MfaInv, BudgetInv, NEW t \in Requests, NEW g \in M!Given,
           \/ \E j \in Challenges, kind \in M!LoginKinds : M!Answer(t, j, kind, g)
           \/ \E op \in {"disable", "regenerate", "fallback"}, kind \in {"totp", "recovery"} :
                M!AskSettings(t, op, kind, g)
           \/ M!AskEnable(t, g)
    PROVE  MfaInv' /\ BudgetInv'
<1>1. ASSUME NEW j \in Challenges, NEW kind \in M!LoginKinds, M!Answer(t, j, kind, g)
      PROVE  MfaInv' /\ BudgetInv'
  <2>1. /\ challenge[j] # "none" /\ M!WindowOpen(j) /\ M!Begin(t, "login", j, kind, g)
        /\ kind \in {"totp", "recovery", "mail"}
    BY <1>1 DEF M!Answer, M!Resolves, M!LoginKinds
  <2>2. QED
    BY <2>1, BeginKeeps, BeginWindows
<1>2. ASSUME NEW op \in {"disable", "regenerate", "fallback"}, NEW kind \in {"totp", "recovery"},
             M!AskSettings(t, op, kind, g)
      PROVE  MfaInv' /\ BudgetInv'
  <2>1. M!WindowOpen("none") /\ M!Begin(t, op, "none", kind, g)
    BY <1>2 DEF M!AskSettings
  <2>2. QED
    BY <2>1, BeginKeeps, BeginWindows
<1>3. CASE M!AskEnable(t, g)
  <2>1. M!Begin(t, "enable", "none", "totp", g)
    BY <1>3 DEF M!AskEnable
  <2>2. QED
    BY <2>1, BeginKeeps, BeginWindows
<1>4. QED
  BY <1>1, <1>2, <1>3

LEMMA RequestsKeep ==
    ASSUME MfaInv, BudgetInv, NEW t \in Requests,
           \/ M!CheckTotp(t) \/ M!BurnOlder(t) \/ M!CheckRecovery(t) \/ M!CheckMail(t)
           \/ M!FailChallenge(t) \/ M!FailUser(t) \/ M!PassLogin(t) \/ M!PassSettings(t)
           \/ M!CommitMfa(t) \/ M!Crash(t)
    PROVE  MfaInv' /\ BudgetInv'
<1>1. CASE M!CheckTotp(t) \/ M!CheckRecovery(t) \/ M!CheckMail(t)
  BY <1>1, CheckTotpKeeps, CheckRecoveryKeeps, CheckMailKeeps, CheckWindows
<1>2. CASE M!BurnOlder(t)
  <2>1. BudgetInv'
    BY <1>2, OnWindows DEF M!BurnOlder
  <2>2. QED
    BY <1>2, <2>1, BurnOlderKeeps
<1>3. CASE M!FailChallenge(t) \/ M!FailUser(t)
  BY <1>3, FailChallengeKeeps, FailUserKeeps, FailChallengeWindows, FailUserWindows
<1>4. CASE M!PassLogin(t)
  <2>1. try[t].pc = "passes" /\ UNCHANGED <<chalFails, challenge>>
    BY <1>4 DEF M!PassLogin
  <2>2. \/ try' = [try EXCEPT ![t] = M!NoTry] /\ fails' = fails
        \/ try' = [try EXCEPT ![t].pc = "commits"] /\ fails' = 0
    BY <1>4 DEF M!PassLogin
  <2>3. BudgetInv'
    BY <2>1, <2>2, OnWindows, EndWindows
  <2>4. QED
    BY <1>4, <2>3, PassLoginKeeps
<1>5. CASE M!PassSettings(t)
  <2>1. /\ try[t].pc = "passes" /\ UNCHANGED <<chalFails, challenge>>
        /\ try' = [try EXCEPT ![t].pc = "commits"] /\ (fails' = fails \/ fails' = 0)
    BY <1>5 DEF M!PassSettings
  <2>2. BudgetInv'
    BY <2>1, OnWindows
  <2>3. QED
    BY <1>5, <2>2, PassSettingsKeeps
<1>6. CASE M!CommitMfa(t) \/ M!Crash(t)
  <2>1. try' = [try EXCEPT ![t] = M!NoTry] /\ UNCHANGED <<fails, chalFails, challenge>>
    BY <1>6 DEF M!CommitMfa, M!Crash
  <2>2. BudgetInv'
    BY <2>1, EndWindows
  <2>3. QED
    BY <1>6, <2>2, CommitMfaKeeps, CrashKeeps
<1>7. QED
  BY <1>1, <1>2, <1>3, <1>4, <1>5, <1>6

LEMMA OthersKeep ==
    ASSUME MfaInv, BudgetInv,
           \/ \E j \in Challenges : M!Challenge(j) \/ \E m \in MailCodes : M!MailCode(j, m)
           \/ \E reset \in BOOLEAN : M!MoveCutoff(reset)
           \/ M!NextStep \/ M!WindowEnds \/ M!SetupMfa
    PROVE  MfaInv' /\ BudgetInv'
<1>1. step \in Nat /\ mailed \subseteq MailCodes /\ challenge \in [Challenges -> {"none", "live", "cut"}]
  BY DEF MfaInv, MfaTypes
<1>2. /\ UNCHANGED <<gen, try, claims, row, accepted, opened, burnt, chalFails>>
      /\ fails' = fails \/ fails' = 0
  BY DEF M!Challenge, M!MailCode, M!MoveCutoff, M!NextStep, M!WindowEnds, M!SetupMfa, M!history
<1>3. mfa' = mfa \/ (row = M!Free /\ ~ mfa.on /\ mfa' = [mfa EXCEPT !.secret = TRUE])
  BY DEF M!Challenge, M!MailCode, M!MoveCutoff, M!NextStep, M!WindowEnds, M!SetupMfa
<1>4. /\ challenge' \in [Challenges -> {"none", "live", "cut"}]
      /\ \A j \in Challenges : challenge'[j] = "none" => challenge[j] = "none"
  <2>1. ASSUME NEW j \in Challenges, M!Challenge(j)
        PROVE  <1>4!1 /\ <1>4!2
    BY <1>1, <2>1 DEF M!Challenge
  <2>2. ASSUME NEW reset, M!MoveCutoff(reset)
        PROVE  <1>4!1 /\ <1>4!2
    BY <1>1, <2>2 DEF M!MoveCutoff
  <2>3. CASE UNCHANGED challenge
    BY <1>1, <2>3
  <2>4. QED
    BY <2>1, <2>2, <2>3 DEF M!MailCode, M!NextStep, M!WindowEnds, M!SetupMfa
<1>5. mailed' \subseteq MailCodes /\ step' \in Nat /\ step' >= step
  BY <1>1 DEF M!Challenge, M!MailCode, M!MoveCutoff, M!NextStep, M!WindowEnds, M!SetupMfa
<1>6. QED
  BY <1>2, <1>3, <1>4, <1>5, QuietKeeps, QuietWindows

LEMMA MfaStepKeeps ==
    ASSUME MfaInv, BudgetInv, M!MfaNext
    PROVE  MfaInv' /\ BudgetInv'
  BY AnswersKeep, RequestsKeep, OthersKeep DEF M!MfaNext

LEMMA MfaStart ==
    ASSUME M!Init
    PROVE  MfaInv /\ BudgetInv
<1>1. /\ mfa \in {[on |-> FALSE, secret |-> FALSE, codes |-> {}, fallback |-> FALSE],
                  [on |-> TRUE, secret |-> TRUE, codes |-> M!Codes(1), fallback |-> TRUE]}
      /\ gen = (IF mfa.on THEN 1 ELSE 0) /\ mailed = {} /\ step = 1 /\ claims = {} /\ fails = 0
      /\ challenge = [j \in Challenges |-> "none"] /\ chalFails = [j \in Challenges |-> 0]
      /\ row = M!Free /\ try = [t \in Requests |-> M!NoTry] /\ accepted = {}
      /\ opened = [j \in Challenges |-> 0] /\ burnt = -1
  BY DEF M!Init, M!MfaInit
<1>2. \A t \in Requests : try[t] = M!NoTry
  BY <1>1
<1>3. /\ mfa \in [on : BOOLEAN, secret : BOOLEAN, codes : SUBSET M!Codes(gen), fallback : BOOLEAN]
      /\ gen \in 0..MaxGen /\ (gen = 0 => mfa.codes = {}) /\ (mfa.on => mfa.codes = M!Codes(gen))
  <2>1. CASE mfa = [on |-> FALSE, secret |-> FALSE, codes |-> {}, fallback |-> FALSE]
    <3>1. gen = 0 /\ ~ mfa.on /\ mfa.codes = {}
      BY <1>1, <2>1
    <3>2. QED
      BY <2>1, <3>1, MfaNumbers
  <2>2. CASE mfa = [on |-> TRUE, secret |-> TRUE, codes |-> M!Codes(1), fallback |-> TRUE]
    <3>1. gen = 1 /\ mfa.on /\ mfa.codes = M!Codes(1)
      BY <1>1, <2>2
    <3>2. 1 \in 0..MaxGen
      BY MfaNumbers
    <3>3. QED
      BY <2>2, <3>1, <3>2
  <2>3. QED
    BY <1>1, <2>1, <2>2
<1>4. MfaTypes
  BY <1>1, <1>3, NoTryIdle, MfaNumbers DEF MfaTypes
<1>5. Apart /\ UsedUp /\ OpenedOnce /\ ShutOut
  BY <1>1, <1>2, NoTryIdle DEF Apart, UsedUp, OpenedOnce, ShutOut, Through, Opening
<1>6. M!NoCodeLost
  BY <1>3 DEF M!NoCodeLost
<1>7. \A t \in Requests : TryOK(t)
  BY <1>1, <1>2, NoTryIdle, MfaNumbers DEF TryOK, Through, Holding, Opening
<1>8. BudgetInv
  <2>1. Counting = {} /\ \A j : CountingOn(j) = {}
    BY <1>2, NoTryIdle DEF Counting, CountingOn
  <2>2. Cardinality(Requests) \in Nat /\ Cardinality({}) = 0
    BY MfaNumbers, FS_CardinalityType, FS_EmptySet
  <2>3. /\ 0 + 0 <= UserLimit + Cardinality(Requests) - 1
        /\ 0 + 0 <= ChalLimit + Cardinality(Requests) - 1
    BY <2>2, MfaNumbers
  <2>4. QED
    BY <1>1, <2>1, <2>2, <2>3 DEF BudgetInv
<1>9. QED
  BY <1>4, <1>5, <1>6, <1>7, <1>8 DEF MfaInv

LEMMA MfaInvSafe ==
    ASSUME MfaInv, BudgetInv
    PROVE  M!MfaTypeOK /\ M!CodeOnce /\ M!ChallengeOnce /\ M!BudgetHeld /\ M!NoCodeLost
<1> USE DEF MfaInv
<1>1. M!MfaTypeOK
  <2>1. mfa.codes \subseteq UNION {M!Codes(g) : g \in 1..MaxGen}
    <3>1. CASE gen = 0
      BY <3>1 DEF MfaTypes
    <3>2. CASE gen # 0
      <4>1. gen \in 1..MaxGen /\ mfa.codes \subseteq M!Codes(gen)
        BY <3>2, ListGiven, MfaNumbers DEF MfaTypes
      <4>2. QED
        BY <4>1
    <3>3. QED
      BY <3>1, <3>2
  <2>2. row # M!Free => try[row].kind = "recovery" /\ try[row].pc \in {"passes", "commits"}
    <3>1. ASSUME row # M!Free
          PROVE  try[row].kind = "recovery" /\ try[row].pc \in {"passes", "commits"}
      <4>1. row \in Requests
        BY <3>1 DEF MfaTypes
      <4>2. TryOK(row)
        BY <4>1
      <4>3. QED
        BY <4>2 DEF TryOK, Holding, Through
    <3>2. QED
      BY <3>1
  <2>3. \A j \in Challenges : challenge[j] = "none" => chalFails[j] = 0 /\ opened[j] = 0
    BY DEF BudgetInv, OpenedOnce
  <2>4. QED
    BY <2>1, <2>2, <2>3 DEF M!MfaTypeOK
<1>2. M!CodeOnce
  BY DEF MfaTypes, M!CodeOnce
<1>3. M!ChallengeOnce
  BY DEF MfaTypes, M!ChallengeOnce
<1>4. M!BudgetHeld
  <2>1. \A P \in SUBSET Requests : Cardinality(P) \in Nat
    BY MfaNumbers, FS_Subset, FS_CardinalityType
  <2>2. Cardinality(Requests) \in Nat /\ Cardinality(Counting) \in Nat
        /\ \A j : Cardinality(CountingOn(j)) \in Nat
    <3>1. Counting \in SUBSET Requests /\ \A j : CountingOn(j) \in SUBSET Requests
      BY DEF Counting, CountingOn
    <3>2. QED
      BY <2>1, <3>1
  <2>3. /\ fails <= UserLimit + Cardinality(Requests) - 1
        /\ \A j \in Challenges : chalFails[j] <= ChalLimit + Cardinality(Requests) - 1
    BY <2>2, MfaNumbers DEF BudgetInv
  <2>4. QED
    BY <2>3 DEF M!BudgetHeld, M!Cardinality, Cardinality
<1>5. QED
  BY <1>1, <1>2, <1>3, <1>4

LEMMA MfaStays ==
    ASSUME MfaInv, BudgetInv, UNCHANGED mfaVars
    PROVE  MfaInv' /\ BudgetInv'
<1>1. UNCHANGED <<mfa, gen, challenge, mailed, step, claims, fails, chalFails, row, try,
                  accepted, opened, burnt>>
  BY DEF mfaVars
<1>2. step \in Nat /\ challenge \in [Challenges -> {"none", "live", "cut"}] /\ mailed \subseteq MailCodes
  BY DEF MfaInv, MfaTypes
<1>3. QED
  BY <1>1, <1>2, QuietKeeps, QuietWindows

LEMMA MfaInvariant == Spec => [](focus = "mfa" => MfaInv /\ BudgetInv)
<1> DEFINE Inv == focus = "mfa" => MfaInv /\ BudgetInv
<1>1. Init => Inv
  BY MfaStart DEF Init
<1>2. Inv /\ [Next]_identityVars => Inv'
  <2> SUFFICES ASSUME Inv, [Next]_identityVars, focus' = "mfa"
               PROVE  MfaInv' /\ BudgetInv'
    OBVIOUS
  <2>1. CASE MfaStep
    BY <2>1, MfaStepKeeps DEF MfaStep, M!Next
  <2>2. CASE UNCHANGED identityVars
    <3>1. focus = "mfa" /\ UNCHANGED mfaVars
      BY <2>2 DEF identityVars
    <3>2. QED
      BY <3>1, MfaStays
  <2>3. CASE MailStep \/ MemberStep \/ SignInStep \/ GrantStep
    BY <2>3 DEF MailStep, MemberStep, SignInStep, GrantStep, GrantFoci, G!Next
  <2>4. QED
    BY <2>1, <2>2, <2>3 DEF Next
<1>3. QED
  BY <1>1, <1>2, PTL DEF Spec

\* A code of any kind is accepted once, a challenge opens one session, the budget
\* of failures holds with every request under way counted, and a code that is not
\* accepted is not lost, whatever overlaps or dies (mfa_service).
THEOREM MfaCorrect == Spec => []MfaSafe
<1>1. (focus = "mfa" => MfaInv /\ BudgetInv) => MfaSafe
  BY MfaInvSafe DEF MfaSafe
<1>2. QED
  BY <1>1, MfaInvariant, PTL

\* A step is let through only when it is later than all that were shut out.
LEMMA LaterStep ==
    ASSUME MfaInv, NEW t \in Requests, M!CheckTotp(t), try'[t].pc = "burns"
    PROVE  try[t].given[2] > burnt
<1> DEFINE g == try[t].given  s == g[2]
<1>1. /\ try[t].pc = "checks" /\ try[t] \in TryRow /\ try \in [Requests -> TryRow]
      /\ burnt \in -1..MaxStep /\ step \in Nat
  BY DEF M!CheckTotp, MfaInv, MfaTypes
<1>2. g \in M!Steps /\ M!StepFresh(s)
  <2>1. CASE try' = M!Fails(t)
    <3>1. try'[t] = IF try[t].op = "enable" THEN M!NoTry ELSE [try[t] EXCEPT !.pc = "fails"]
      BY <1>1, <2>1 DEF M!Fails
    <3>2. [try[t] EXCEPT !.pc = "fails"].pc = "fails"
      BY <1>1, TryMoved
    <3>3. QED
      BY <3>1, <3>2, NoTryIdle
  <2>2. QED
    BY <2>1 DEF M!CheckTotp
<1>3. g = <<"step", s>> /\ s \in 0..MaxStep
  BY <1>2, GivenKinds
<1>4. s >= step - 1 /\ <<"step", s>> \notin claims
  BY <1>1, <1>2 DEF M!StepFresh
<1> HIDE DEF s, g
<1>5. burnt = -1 => s > burnt
  BY <1>3
<1>6. ASSUME burnt # -1
      PROVE  s > burnt
  <2>1. burnt <= step + 1 /\ s \notin {burnt, burnt - 1, burnt - 2}
    BY <1>4, <1>6 DEF MfaInv, ShutOut
  <2>2. s > burnt
    BY <1>1, <1>3, <1>4, <2>1, MfaNumbers
  <2>3. QED
    BY <2>2
<1>7. QED
  BY <1>5, <1>6 DEF s, g

LEMMA OnlyTotpBurns ==
    ASSUME MfaInv, M!MfaNext, NEW t \in Requests, try[t].pc = "checks", try'[t].pc = "burns"
    PROVE  M!CheckTotp(t)
<1>1. try \in [Requests -> TryRow]
  BY DEF MfaInv, MfaTypes
<1>2. UNCHANGED try => FALSE
  OBVIOUS
<1>3. ASSUME NEW u \in Requests, NEW q, try' = [try EXCEPT ![u] = q]
      PROVE  u = t /\ q.pc = "burns"
  BY <1>1, <1>3
<1>4. ASSUME NEW u \in Requests, NEW g,
             \/ \E j \in Challenges, kind \in M!LoginKinds : M!Answer(u, j, kind, g)
             \/ \E op \in {"disable", "regenerate", "fallback"}, kind \in {"totp", "recovery"} :
                  M!AskSettings(u, op, kind, g)
             \/ M!AskEnable(u, g)
      PROVE  FALSE
  <2>1. PICK op, j, kind : M!Begin(u, op, j, kind, g)
    BY <1>4 DEF M!Answer, M!AskSettings, M!AskEnable
  <2>2. try[u].pc = "idle" /\ \E q : try' = [try EXCEPT ![u] = q]
    BY <2>1 DEF M!Begin
  <2>3. QED
    BY <1>3, <2>2
<1>5. ASSUME NEW u \in Requests, try' = M!Fails(u)
      PROVE  FALSE
  <2> DEFINE q == IF try[u].op = "enable" THEN M!NoTry ELSE [try[u] EXCEPT !.pc = "fails"]
  <2>1. try' = [try EXCEPT ![u] = q]
    BY <1>5 DEF M!Fails
  <2>2. [try[u] EXCEPT !.pc = "fails"].pc = "fails"
    BY <1>1, TryMoved
  <2>3. q.pc # "burns"
    BY <2>2, NoTryIdle
  <2> HIDE DEF q
  <2>4. QED
    BY <1>3, <2>1, <2>3
<1>6. ASSUME NEW u \in Requests, try' = [try EXCEPT ![u] = M!NoTry]
      PROVE  FALSE
  BY <1>3, <1>6, NoTryIdle
<1>7. ASSUME NEW u \in Requests, NEW pc \in {"passes", "commits", "failsUser"},
             \/ try' = [try EXCEPT ![u].pc = pc]
             \/ try' = [try EXCEPT ![u] = [try[u] EXCEPT !.pc = pc]]
      PROVE  FALSE
  <2>1. try' = [try EXCEPT ![u] = [try[u] EXCEPT !.pc = pc]]
    BY <1>1, <1>7
  <2>2. [try[u] EXCEPT !.pc = pc].pc = pc
    BY <1>1, TryMoved
  <2>3. QED
    BY <1>3, <2>1, <2>2
<1>8. ASSUME NEW u \in Requests, M!CheckTotp(u)
      PROVE  M!CheckTotp(t)
  <2>1. \E q : try' = [try EXCEPT ![u] = q]
    BY <1>1, <1>8 DEF M!CheckTotp, M!Fails
  <2>2. QED
    BY <1>3, <1>8, <2>1
<1>9. ASSUME NEW u \in Requests,
             \/ M!BurnOlder(u) \/ M!CheckRecovery(u) \/ M!CheckMail(u)
             \/ M!FailChallenge(u) \/ M!FailUser(u) \/ M!PassLogin(u) \/ M!PassSettings(u)
             \/ M!CommitMfa(u) \/ M!Crash(u)
      PROVE  FALSE
  <2>1. \/ try' = M!Fails(u) \/ try' = [try EXCEPT ![u] = M!NoTry]
        \/ \E pc \in {"passes", "commits", "failsUser"} :
              \/ try' = [try EXCEPT ![u].pc = pc]
              \/ try' = [try EXCEPT ![u] = [try[u] EXCEPT !.pc = pc]]
    BY <1>9 DEF M!BurnOlder, M!CheckRecovery, M!CheckMail, M!FailChallenge, M!FailUser,
       M!PassLogin, M!PassSettings, M!CommitMfa, M!Crash
  <2>2. QED
    BY <1>5, <1>6, <1>7, <2>1
<1>10. ASSUME \/ \E j \in Challenges : M!Challenge(j) \/ \E m \in MailCodes : M!MailCode(j, m)
              \/ \E reset \in BOOLEAN : M!MoveCutoff(reset)
              \/ M!NextStep \/ M!WindowEnds \/ M!SetupMfa
       PROVE  FALSE
  <2>1. UNCHANGED try
    BY <1>10 DEF M!Challenge, M!MailCode, M!MoveCutoff, M!NextStep, M!WindowEnds, M!SetupMfa
  <2>2. QED
    BY <1>2, <2>1
<1>11. QED
  BY <1>4, <1>8, <1>9, <1>10 DEF M!MfaNext

LEMMA StepsGoForward ==
    ASSUME MfaInv, M!MfaNext
    PROVE  M!StepsForward
  BY LaterStep, OnlyTotpBurns DEF M!StepsForward

\* TOTP steps are let through in order, and a client's grant never gains a scope
\* (mfa_service, agent_oauth).
THEOREM OrderCorrect == Spec => StepsAndScopesOrdered
<1> DEFINE Inv == /\ focus = "mfa" => MfaInv /\ BudgetInv
                  /\ focus \in GrantFoci => GrantInv
           Ordered == /\ focus = "mfa" => M!StepsForward
                      /\ focus \in GrantFoci => G!GrantNeverWidens
<1>1. Inv /\ [Next]_identityVars => [Ordered]_identityVars
  <2> SUFFICES ASSUME Inv, Next
               PROVE  Ordered
    OBVIOUS
  <2>1. focus = "mfa" => M!StepsForward
    BY StepsGoForward
       DEF Next, MfaStep, MailStep, MemberStep, SignInStep, GrantStep, GrantFoci, M!Next
  <2>2. focus \in GrantFoci => G!GrantNeverWidens
    BY ScopesNarrow DEF Next, MfaStep, MailStep, MemberStep, SignInStep, GrantStep, GrantFoci
  <2>3. QED
    BY <2>1, <2>2
<1>2. QED
  BY <1>1, MfaInvariant, GrantInvariant, PTL DEF Spec, StepsAndScopesOrdered
-----------------------------------------------------------------------------
(* Sign-in: what a tab carries is of a round trip, which was begun in its     *)
(* browser if the state was looked at and in the tab itself if the nonce was. *)

Trip == [kind : {"login", "stepup"}, tab : Tabs, user : Visitors \cup {I!Nobody},
         action : SignInActions \cup {"sign_in"}]
Trips == 1 .. Len(rounds)
Waiting == [at : {"google"}, n : Nat]
Returned == [at : {"callback"}, n : Nat, by : Visitors \cup {I!Nobody}]
Exchanging == [at : {"exchange"}, n : Nat, by : Visitors, nonce : Nat, fresh : BOOLEAN]
Entering == [at : {"prepare", "issue", "commit", "landing"}, n : Nat, by : Visitors,
             nonce : Nat, created : BOOLEAN]
Entered == [at : {"in"}, n : Nat, as : Visitors]
Proved == [at : {"proved"}, n : Nat, action : SignInActions \cup {"sign_in"}]
Pages == {I!Site} \cup Waiting \cup Returned \cup Exchanging \cup Entering \cup Entered \cup Proved
JarRow == [login : Nat, stepup : Nat, nonce : Nat, who : Visitors \cup {I!Nobody}]
ProofRow == [n : Nat, action : SignInActions \cup {"none", "sign_in"}]

SignTypes ==
    /\ rounds \in Seq(Trip)
    /\ jar \in [Browsers -> JarRow]
    /\ tab \in [Tabs -> Pages]
    /\ stored \in [Tabs -> Nat]
    /\ accounts \subseteq Visitors
    /\ proof \in [Visitors -> ProofRow]

\* The browser a round trip was begun in.
Home(n) == BrowserOf[rounds[n].tab]
\* The cookies of a browser hold round trips begun in it, and the nonce is that
\* of the sign-in.
Cookies(b) ==
    /\ jar[b].login # 0 => /\ jar[b].login \in Trips /\ Home(jar[b].login) = b
                           /\ rounds[jar[b].login].kind = "login"
    /\ jar[b].stepup # 0 => jar[b].stepup \in Trips /\ Home(jar[b].stepup) = b
    /\ jar[b].nonce = jar[b].login
    /\ jar[b].who # I!Nobody => jar[b].who \in accounts
\* What is known of a tab from where it is.
Shown(t) ==
    tab[t] # I!Site =>
        /\ tab[t].n \in Trips
        /\ tab[t].at \in {"exchange", "prepare", "issue", "commit"} => Home(tab[t].n) = BrowserOf[t]
        /\ tab[t].at = "exchange" =>
              /\ rounds[tab[t].n].kind = "login" => tab[t].nonce = tab[t].n
              /\ rounds[tab[t].n].kind = "stepup" => rounds[tab[t].n].user \in accounts
        /\ tab[t].at \in {"prepare", "issue", "commit", "landing"} =>
              rounds[tab[t].n].kind = "login" /\ tab[t].nonce = tab[t].n
        /\ tab[t].at = "commit" => tab[t].by \in sessioned
        /\ tab[t].at = "in" => rounds[tab[t].n].tab = t
Kept(t) == stored[t] # 0 => stored[t] \in Trips /\ rounds[stored[t]].tab = t
Bound(u) ==
    proof[u] # I!NoProof =>
        /\ proof[u].n \in Trips /\ u \in accounts
        /\ rounds[proof[u].n].user = u /\ rounds[proof[u].n].action = proof[u].action
Told(d) ==
    /\ d.n \in Trips
    /\ d.kind \in {"session", "proof"} => Home(d.n) = d.browser /\ d.by = d.as
    /\ d.kind \in {"proof", "use"} => d.as = rounds[d.n].user
    /\ d.kind = "use" => d.action = rounds[d.n].action
Noted(a) == a.n \in Trips /\ Home(a.n) = a.browser

SignInv ==
    /\ SignTypes
    /\ \A b \in Browsers : Cookies(b)
    /\ \A t \in Tabs : Shown(t) /\ Kept(t)
    /\ \A u \in Visitors : Bound(u)
    /\ \A d \in done : Told(d)
    /\ \A a \in audits : Noted(a)
    /\ accounts \ Known \subseteq sessioned

-----------------------------------------------------------------------------

\* Round trips, accounts and sessions are added to.
Grown ==
    /\ Len(rounds) <= Len(rounds')
    /\ \A n \in Trips : rounds'[n] = rounds[n]
    /\ accounts \subseteq accounts' /\ sessioned \subseteq sessioned'

LEMMA SignConstants ==
    /\ BrowserOf \in [Tabs -> Browsers] /\ I!Nobody \notin Visitors /\ Known \subseteq Visitors
  BY IdentityAssumption DEF I!SignAssumption, Known

\* Kinds of pages, by where they are.
LEMMA PageKinds ==
    ASSUME NEW q \in Pages
    PROVE  /\ q # I!Site => q.n \in Nat
           /\ q.at \in {"google", "callback", "exchange", "prepare", "issue", "commit", "landing",
                        "in", "proved"} => q # I!Site
           /\ q.at = "callback" => q \in Returned
           /\ q.at = "exchange" => q \in Exchanging
           /\ q.at \in {"prepare", "issue", "commit", "landing"} => q \in Entering
           /\ q.at = "in" => q \in Entered
           /\ q.at = "proved" => q \in Proved
  BY DEF Pages, I!Site, Waiting, Returned, Exchanging, Entering, Entered, Proved

LEMMA StillTrips ==
    ASSUME SignInv, rounds' \in Seq(Trip), Grown
    PROVE  \A n \in Trips : n \in Trips' /\ rounds'[n] = rounds[n] /\ Home(n)' = Home(n)
<1>1. Len(rounds) \in Nat /\ Len(rounds') \in Nat
  BY DEF SignInv, SignTypes
<1>2. QED
  BY <1>1 DEF Grown, Trips, Home

\* A step keeps what it does not touch.
LEMMA SignSettles ==
    ASSUME SignInv, SignTypes', Grown,
           \A b \in Browsers : jar'[b] = jar[b] \/ Cookies(b)',
           \A t \in Tabs : tab'[t] = tab[t] \/ Shown(t)',
           \A t \in Tabs : stored'[t] = stored[t] \/ Kept(t)',
           \A u \in Visitors : proof'[u] = proof[u] \/ Bound(u)',
           \A d \in done' : d \in done \/ Told(d)',
           \A a \in audits' : a \in audits \/ Noted(a)',
           accounts' \ accounts \subseteq sessioned'
    PROVE  SignInv'
<1>1. \A n \in Trips : n \in Trips' /\ rounds'[n] = rounds[n] /\ Home(n)' = Home(n)
  BY StillTrips DEF SignTypes
<1>2. ASSUME NEW b \in Browsers
      PROVE  Cookies(b)'
  <2>1. CASE jar'[b] = jar[b]
    BY <1>1, <2>1 DEF SignInv, Cookies, Grown
  <2>2. QED
    BY <2>1
<1>3. ASSUME NEW t \in Tabs
      PROVE  Shown(t)' /\ Kept(t)'
  <2>1. Shown(t)'
    <3>1. CASE tab'[t] = tab[t]
      <4>1. Shown(t)
        BY DEF SignInv
      <4>2. tab[t] # I!Site => tab[t].n \in Trips
        BY <4>1 DEF Shown
      <4>3. PICK q : q = tab[t]
        OBVIOUS
      <4>4. q # I!Site => q.n \in Trips' /\ rounds'[q.n] = rounds[q.n]
        BY <1>1, <4>2, <4>3
      <4>5. QED
        BY <3>1, <4>1, <4>3, <4>4 DEF Shown, Grown, Home
    <3>2. QED
      BY <3>1
  <2>2. Kept(t)'
    <3>1. CASE stored'[t] = stored[t]
      BY <1>1, <3>1 DEF SignInv, Kept
    <3>2. QED
      BY <3>1
  <2>3. QED
    BY <2>1, <2>2
<1>4. ASSUME NEW u \in Visitors
      PROVE  Bound(u)'
  <2>1. CASE proof'[u] = proof[u]
    BY <1>1, <2>1 DEF SignInv, Bound, Grown
  <2>2. QED
    BY <2>1
<1>5. ASSUME NEW d \in done'
      PROVE  Told(d)'
  <2>1. CASE d \in done
    BY <1>1, <2>1 DEF SignInv, Told
  <2>2. QED
    BY <2>1
<1>6. ASSUME NEW a \in audits'
      PROVE  Noted(a)'
  <2>1. CASE a \in audits
    BY <1>1, <2>1 DEF SignInv, Noted
  <2>2. QED
    BY <2>1
<1>7. accounts' \ Known \subseteq sessioned'
  BY DEF SignInv, Grown
<1>8. QED
  BY <1>2, <1>3, <1>4, <1>5, <1>6, <1>7 DEF SignInv

\* A round trip begins.
LEMMA TripBegins ==
    ASSUME SignInv, NEW r \in Trip, rounds' = Append(rounds, r), UNCHANGED <<accounts, sessioned>>
    PROVE  /\ rounds' \in Seq(Trip) /\ Grown
           /\ Len(rounds) + 1 \in Trips' /\ rounds'[Len(rounds) + 1] = r
           /\ Len(rounds) + 1 \in Nat /\ Len(rounds) + 1 # 0
<1>1. rounds \in Seq(Trip) /\ Len(rounds) \in Nat
  BY DEF SignInv, SignTypes
<1>2. rounds' \in Seq(Trip) /\ Len(rounds') = Len(rounds) + 1
  BY <1>1
<1>3. \A n \in 1 .. Len(rounds) : rounds'[n] = rounds[n]
  BY <1>1
<1>4. rounds'[Len(rounds) + 1] = r
  BY <1>1
<1>5. QED
  BY <1>1, <1>2, <1>3, <1>4 DEF Grown, Trips

LEMMA NoTripBegins ==
    ASSUME SignInv, UNCHANGED rounds, accounts \subseteq accounts', sessioned \subseteq sessioned'
    PROVE  Grown /\ rounds' \in Seq(Trip) /\ Len(rounds) \in Nat
  BY DEF Grown, SignInv, SignTypes

LEMMA ShowsPage ==
    ASSUME SignInv, NEW t \in Tabs, NEW q \in Pages, tab' = [tab EXCEPT ![t] = q]
    PROVE  /\ tab' \in [Tabs -> Pages] /\ tab'[t] = q
           /\ \A x \in Tabs \ {t} : tab'[x] = tab[x]
  BY DEF SignInv, SignTypes

\* A tab's cookies, in its browser.
LEMMA JarOf ==
    ASSUME SignInv, NEW t \in Tabs
    PROVE  BrowserOf[t] \in Browsers /\ I!Jar(t) \in JarRow /\ Cookies(BrowserOf[t])
           /\ I!Jar(t) = jar[BrowserOf[t]]
  BY SignConstants DEF SignInv, SignTypes, I!Jar

\* Cookies are cleared, or name somebody who has an account.
LEMMA CookiesMove ==
    ASSUME SignInv, rounds' \in Seq(Trip), Grown, NEW t \in Tabs, NEW w \in JarRow,
           jar' = [jar EXCEPT ![BrowserOf[t]] = w],
           w.login = 0 \/ w.login = I!Jar(t).login,
           w.stepup = 0 \/ w.stepup = I!Jar(t).stepup,
           w.nonce = w.login,
           w.who = I!Jar(t).who \/ w.who \in accounts'
    PROVE  jar' \in [Browsers -> JarRow] /\ \A b \in Browsers : jar'[b] = jar[b] \/ Cookies(b)'
<1> DEFINE b == BrowserOf[t]
<1>1. b \in Browsers /\ I!Jar(t) \in JarRow /\ Cookies(b) /\ I!Jar(t) = jar[b]
  BY JarOf
<1>2. \A n \in Trips : n \in Trips' /\ rounds'[n] = rounds[n] /\ Home(n)' = Home(n)
  BY StillTrips
<1>3. jar' \in [Browsers -> JarRow] /\ jar'[b] = w /\ \A x \in Browsers \ {b} : jar'[x] = jar[x]
  BY <1>1 DEF SignInv, SignTypes
<1> HIDE DEF b
<1>4. Cookies(b)'
  BY <1>1, <1>2, <1>3 DEF Cookies, Grown
<1>5. QED
  BY <1>3, <1>4

LEMMA ClearedJar ==
    ASSUME SignInv, NEW t \in Tabs, NEW n
    PROVE  /\ I!Cleared(t, n) \in JarRow
           /\ I!Cleared(t, n).login = 0 \/ I!Cleared(t, n).login = I!Jar(t).login
           /\ I!Cleared(t, n).stepup = 0 \/ I!Cleared(t, n).stepup = I!Jar(t).stepup
           /\ I!Cleared(t, n).nonce = I!Cleared(t, n).login
           /\ I!Cleared(t, n).who = I!Jar(t).who
<1>1. I!Jar(t) \in JarRow /\ I!Jar(t).nonce = I!Jar(t).login
  BY JarOf DEF Cookies
<1>2. QED
  BY <1>1 DEF I!Cleared, JarRow

\* The state is in the cookie of the browser the round trip was begun in.
LEMMA StateIsHome ==
    ASSUME SignInv, NEW t \in Tabs, NEW n \in Trips, I!StateOk(t, n)
    PROVE  Home(n) = BrowserOf[t] /\ (rounds[n].kind = "login" => I!Jar(t).nonce = n)
<1>1. n # 0
  BY DEF Trips
<1>2. Cookies(BrowserOf[t]) /\ I!Jar(t) = jar[BrowserOf[t]]
  BY JarOf
<1>3. QED
  BY <1>1, <1>2 DEF I!StateOk, I!Kind, Cookies

LEMMA TabOf ==
    ASSUME SignInv, NEW t \in Tabs
    PROVE  tab[t] \in Pages /\ Shown(t) /\ (tab[t] # I!Site => tab[t].n \in Trips /\ rounds[tab[t].n] \in Trip)
<1>1. tab[t] \in Pages /\ Shown(t)
  BY DEF SignInv, SignTypes
<1>2. \A n \in Trips : rounds[n] \in Trip
  BY DEF SignInv, SignTypes, Trips
<1>3. QED
  BY <1>1, <1>2 DEF Shown

-----------------------------------------------------------------------------

LEMMA GoogleLoginKeeps ==
    ASSUME SignInv, NEW t \in Tabs, I!GoogleLogin(t)
    PROVE  SignInv'
<1>0. PICK n : n = Len(rounds) + 1
  OBVIOUS
<1> DEFINE r == I!Round(t, "login", I!Nobody, "sign_in")
           q == [at |-> "google", n |-> n]
           w == [I!Jar(t) EXCEPT !.login = n, !.nonce = n]
<1>1. /\ rounds' = Append(rounds, r) /\ tab' = [tab EXCEPT ![t] = q]
      /\ jar' = [jar EXCEPT ![BrowserOf[t]] = w] /\ stored' = [stored EXCEPT ![t] = n]
      /\ UNCHANGED <<codes, accounts, sessioned, proof, audits, done, copied>>
  BY <1>0 DEF I!GoogleLogin, I!Begun, I!Show, I!SetJar
<1>2. r \in Trip /\ r.kind = "login" /\ r.tab = t
  BY DEF I!Round, Trip
<1>3. /\ rounds' \in Seq(Trip) /\ Grown /\ n \in Trips' /\ rounds'[n] = r /\ n \in Nat /\ n # 0
  BY <1>0, <1>1, <1>2, TripBegins
<1>4. q \in Pages /\ q # I!Site
  BY <1>3 DEF Pages, Waiting, I!Site
<1>5. BrowserOf[t] \in Browsers /\ I!Jar(t) \in JarRow /\ Cookies(BrowserOf[t]) /\ I!Jar(t) = jar[BrowserOf[t]]
  BY JarOf
<1>6. w \in JarRow /\ w.login = n /\ w.nonce = n /\ w.stepup = I!Jar(t).stepup /\ w.who = I!Jar(t).who
  BY <1>3, <1>5 DEF JarRow
<1>7. \A k \in Trips : k \in Trips' /\ rounds'[k] = rounds[k] /\ Home(k)' = Home(k)
  BY <1>3, StillTrips
<1> HIDE DEF r, q, w
<1>8. tab' \in [Tabs -> Pages] /\ tab'[t] = q /\ \A x \in Tabs \ {t} : tab'[x] = tab[x]
  BY <1>1, <1>4, ShowsPage
<1>9. Shown(t)'
  BY <1>3, <1>8 DEF Shown, q
<1>10. /\ jar' \in [Browsers -> JarRow] /\ jar'[BrowserOf[t]] = w
       /\ \A b \in Browsers \ {BrowserOf[t]} : jar'[b] = jar[b]
  BY <1>1, <1>5, <1>6 DEF SignInv, SignTypes
<1>11. BrowserOf[r.tab] = BrowserOf[t]
  BY <1>2
<1>12. Cookies(BrowserOf[t])'
  <2>1. Home(n)' = BrowserOf[t] /\ rounds'[n].kind = "login"
    BY <1>2, <1>3 DEF Home
  <2>2. jar[BrowserOf[t]].who # I!Nobody => jar[BrowserOf[t]].who \in accounts'
    BY <1>1, <1>5 DEF Cookies
  <2>3. jar[BrowserOf[t]].stepup # 0 =>
            jar[BrowserOf[t]].stepup \in Trips /\ Home(jar[BrowserOf[t]].stepup) = BrowserOf[t]
    BY <1>5 DEF Cookies
  <2>4. PICK k : k = jar[BrowserOf[t]].stepup
    OBVIOUS
  <2>5. k # 0 => k \in Trips' /\ Home(k)' = BrowserOf[t]
    BY <1>7, <2>3, <2>4
  <2>6. w.stepup = k /\ w.login = n /\ w.nonce = n /\ w.who = jar[BrowserOf[t]].who
    BY <1>5, <1>6, <2>4
  <2>7. QED
    BY <1>3, <1>10, <2>1, <2>2, <2>5, <2>6 DEF Cookies, Home
<1>13. stored' \in [Tabs -> Nat] /\ stored'[t] = n /\ \A x \in Tabs \ {t} : stored'[x] = stored[x]
  BY <1>1, <1>3 DEF SignInv, SignTypes
<1>14. Kept(t)'
  BY <1>2, <1>3, <1>13 DEF Kept
<1>15. SignTypes'
  BY <1>1, <1>3, <1>8, <1>10, <1>13 DEF SignInv, SignTypes
<1>16. \A b \in Browsers : jar'[b] = jar[b] \/ Cookies(b)'
  BY <1>10, <1>12
<1>17. \A x \in Tabs : tab'[x] = tab[x] \/ Shown(x)'
  BY <1>8, <1>9
<1>18. \A x \in Tabs : stored'[x] = stored[x] \/ Kept(x)'
  BY <1>13, <1>14
<1>19. QED
  BY <1>1, <1>3, <1>15, <1>16, <1>17, <1>18, SignSettles

LEMMA StepupInitiateKeeps ==
    ASSUME SignInv, NEW t \in Tabs, NEW a \in SignInActions, I!StepupInitiate(t, a)
    PROVE  SignInv'
<1>0. PICK n : n = Len(rounds) + 1
  OBVIOUS
<1> DEFINE r == I!Round(t, "stepup", I!Jar(t).who, a)
           q == [at |-> "google", n |-> n]
           w == [I!Jar(t) EXCEPT !.stepup = n]
<1>1. /\ rounds' = Append(rounds, r) /\ tab' = [tab EXCEPT ![t] = q]
      /\ jar' = [jar EXCEPT ![BrowserOf[t]] = w]
      /\ UNCHANGED <<stored, codes, accounts, sessioned, proof, audits, done, copied>>
  BY <1>0 DEF I!StepupInitiate, I!Begun, I!Show, I!SetJar
<1>2. BrowserOf[t] \in Browsers /\ I!Jar(t) \in JarRow /\ Cookies(BrowserOf[t]) /\ I!Jar(t) = jar[BrowserOf[t]]
  BY JarOf
<1>3. r \in Trip /\ r.kind = "stepup" /\ r.tab = t
  BY <1>2 DEF I!Round, Trip, JarRow
<1>4. /\ rounds' \in Seq(Trip) /\ Grown /\ n \in Trips' /\ rounds'[n] = r /\ n \in Nat /\ n # 0
  BY <1>0, <1>1, <1>3, TripBegins
<1>5. q \in Pages /\ q # I!Site
  BY <1>4 DEF Pages, Waiting, I!Site
<1>6. w \in JarRow /\ w.stepup = n /\ w.login = I!Jar(t).login /\ w.nonce = I!Jar(t).nonce /\ w.who = I!Jar(t).who
  BY <1>2, <1>4 DEF JarRow
<1>7. \A k \in Trips : k \in Trips' /\ rounds'[k] = rounds[k] /\ Home(k)' = Home(k)
  BY <1>4, StillTrips
<1> HIDE DEF r, q, w
<1>8. tab' \in [Tabs -> Pages] /\ tab'[t] = q /\ \A x \in Tabs \ {t} : tab'[x] = tab[x]
  BY <1>1, <1>5, ShowsPage
<1>9. Shown(t)'
  BY <1>4, <1>8 DEF Shown, q
<1>10. /\ jar' \in [Browsers -> JarRow] /\ jar'[BrowserOf[t]] = w
       /\ \A b \in Browsers \ {BrowserOf[t]} : jar'[b] = jar[b]
  BY <1>1, <1>2, <1>6 DEF SignInv, SignTypes
<1>11. Cookies(BrowserOf[t])'
  <2>1. Home(n)' = BrowserOf[t]
    BY <1>3, <1>4 DEF Home
  <2>2. jar[BrowserOf[t]].who # I!Nobody => jar[BrowserOf[t]].who \in accounts'
    BY <1>1, <1>2 DEF Cookies
  <2>3. jar[BrowserOf[t]].login # 0 =>
            /\ jar[BrowserOf[t]].login \in Trips /\ Home(jar[BrowserOf[t]].login) = BrowserOf[t]
            /\ rounds[jar[BrowserOf[t]].login].kind = "login"
    BY <1>2 DEF Cookies
  <2>4. PICK k : k = jar[BrowserOf[t]].login
    OBVIOUS
  <2>5. k # 0 => k \in Trips' /\ Home(k)' = BrowserOf[t] /\ rounds'[k].kind = "login"
    BY <1>7, <2>3, <2>4
  <2>6. w.stepup = n /\ w.login = k /\ w.nonce = k /\ w.who = jar[BrowserOf[t]].who
    BY <1>2, <1>6, <2>4 DEF Cookies
  <2>7. QED
    BY <1>4, <1>10, <2>1, <2>2, <2>5, <2>6 DEF Cookies, Home
<1>12. SignTypes'
  BY <1>1, <1>4, <1>8, <1>10 DEF SignInv, SignTypes
<1>13. \A b \in Browsers : jar'[b] = jar[b] \/ Cookies(b)'
  BY <1>10, <1>11
<1>14. \A x \in Tabs : tab'[x] = tab[x] \/ Shown(x)'
  BY <1>8, <1>9
<1>15. QED
  BY <1>1, <1>4, <1>12, <1>13, <1>14, SignSettles

\* A step that shows another page and changes nothing else that matters here.
LEMMA OtherPage ==
    ASSUME SignInv, NEW t \in Tabs, NEW q \in Pages, tab' = [tab EXCEPT ![t] = q],
           UNCHANGED <<rounds, jar, stored, accounts, proof, audits, done>>,
           sessioned \subseteq sessioned', q = I!Site \/ Shown(t)'
    PROVE  SignInv'
<1>1. tab' \in [Tabs -> Pages] /\ tab'[t] = q /\ \A x \in Tabs \ {t} : tab'[x] = tab[x]
  BY ShowsPage
<1>2. Grown /\ rounds' \in Seq(Trip)
  BY NoTripBegins
<1>3. Shown(t)'
  BY <1>1 DEF Shown
<1>4. SignTypes'
  BY <1>1, <1>2 DEF SignInv, SignTypes
<1>5. \A x \in Tabs : tab'[x] = tab[x] \/ Shown(x)'
  BY <1>1, <1>3
<1>6. QED
  BY <1>2, <1>4, <1>5, SignSettles

LEMMA AtGoogleKeeps ==
    ASSUME SignInv, NEW t \in Tabs, I!Consent(t)
    PROVE  SignInv'
<1>1. PICK by \in Visitors \cup {I!Nobody} :
          /\ tab[t].at = "google" /\ tab' = [tab EXCEPT ![t] = I!Url(tab[t].n, by)]
          /\ UNCHANGED <<rounds, jar, stored, codes, accounts, sessioned, proof, audits, done, copied>>
  BY DEF I!Consent, I!Show
<1>2. tab[t] # I!Site /\ tab[t].n \in Trips /\ tab[t].n \in Nat
  BY <1>1, TabOf, PageKinds
<1>3. PICK q : q = I!Url(tab[t].n, by)
  OBVIOUS
<1>4. q \in Pages /\ q # I!Site /\ q.n \in Trips /\ q.at = "callback"
  BY <1>2, <1>3 DEF I!Url, Pages, Returned, I!Site
<1>5. tab'[t] = q
  BY <1>1, <1>3, <1>4, ShowsPage
<1>6. Shown(t)'
  BY <1>1, <1>4, <1>5 DEF Shown, Trips
<1>7. QED
  BY <1>1, <1>3, <1>4, <1>6, OtherPage

\* A failure clears cookies and is written down for the browser it is about.
LEMMA SignFailsKeeps ==
    ASSUME SignInv, NEW t \in Tabs, NEW n \in Trips, NEW ok \in BOOLEAN, I!Fails(t, n, ok),
           ok => Home(n) = BrowserOf[t]
    PROVE  SignInv'
<1>1. /\ jar' = [jar EXCEPT ![BrowserOf[t]] = I!Cleared(t, n)]
      /\ audits' = IF ok THEN audits \cup {I!Audited(t, n)} ELSE audits
      /\ tab' = [tab EXCEPT ![t] = I!Site]
      /\ UNCHANGED <<rounds, stored, codes, accounts, sessioned, proof, done, copied>>
  BY DEF I!Fails, I!SetJar, I!Show
<1>2. Grown /\ rounds' \in Seq(Trip)
  BY <1>1, NoTripBegins
<1>3. I!Site \in Pages
  BY DEF Pages
<1>4. tab' \in [Tabs -> Pages] /\ tab'[t] = I!Site /\ \A x \in Tabs \ {t} : tab'[x] = tab[x]
  BY <1>1, <1>3, ShowsPage
<1>5. jar' \in [Browsers -> JarRow] /\ \A b \in Browsers : jar'[b] = jar[b] \/ Cookies(b)'
  BY <1>1, <1>2, ClearedJar, CookiesMove
<1>6. SignTypes'
  BY <1>1, <1>2, <1>4, <1>5 DEF SignInv, SignTypes
<1>7. \A x \in Tabs : tab'[x] = tab[x] \/ Shown(x)'
  BY <1>4 DEF Shown
<1>8. ASSUME NEW a \in audits', a \notin audits
      PROVE  Noted(a)'
  <2>1. ok /\ a = I!Audited(t, n)
    BY <1>1, <1>8
  <2>2. QED
    BY <1>1, <2>1 DEF I!Audited, Noted, Home, Trips
<1>9. QED
  BY <1>1, <1>2, <1>5, <1>6, <1>7, <1>8, SignSettles

LEMMA RefuseKeeps ==
    ASSUME SignInv, NEW t \in Tabs, I!Refuse(t)
    PROVE  SignInv'
<1>1. tab[t] # I!Site /\ tab[t].n \in Trips
  BY TabOf, PageKinds DEF I!Refuse
<1>2. PICK n : n = tab[t].n
  OBVIOUS
<1>3. PICK ok \in BOOLEAN : I!Fails(t, n, ok) /\ (ok => I!StateOk(t, n))
  BY <1>2 DEF I!Refuse
<1>4. ok => Home(n) = BrowserOf[t]
  BY <1>1, <1>2, <1>3, StateIsHome
<1>5. QED
  BY <1>1, <1>2, <1>3, <1>4, SignFailsKeeps

LEMMA ExchangeFailsKeeps ==
    ASSUME SignInv, NEW t \in Tabs, I!ExchangeFails(t)
    PROVE  SignInv'
<1>1. tab[t] # I!Site /\ tab[t].n \in Trips /\ Home(tab[t].n) = BrowserOf[t]
  BY TabOf, PageKinds DEF I!ExchangeFails, Shown
<1>2. I!Fails(t, tab[t].n, TRUE)
  BY DEF I!ExchangeFails
<1>3. PICK n : n = tab[t].n
  OBVIOUS
<1>4. n \in Trips /\ Home(n) = BrowserOf[t] /\ I!Fails(t, n, TRUE)
  BY <1>1, <1>2, <1>3
<1>5. QED
  BY <1>4, SignFailsKeeps

LEMMA CodeExchangeKeeps ==
    ASSUME SignInv, NEW t \in Tabs, I!Exchange(t)
    PROVE  SignInv'
<1>1. PICK n, fresh : n = tab[t].n /\ fresh = (<<tab[t].n, tab[t].by>> \notin codes)
  OBVIOUS
<1>2. PICK q : q = [at |-> "exchange", n |-> n, by |-> tab[t].by, nonce |-> I!Jar(t).nonce,
                    fresh |-> fresh]
  OBVIOUS
<1>3. /\ tab[t].at = "callback" /\ tab[t].by # I!Nobody /\ I!StateOk(t, n)
      /\ rounds[n].kind = "stepup" => rounds[n].user \in accounts
      /\ tab' = [tab EXCEPT ![t] = q]
      /\ UNCHANGED <<rounds, jar, stored, accounts, sessioned, proof, audits, done, copied>>
  BY <1>1, <1>2 DEF I!Exchange, I!Show, I!Kind
<1>4. tab[t] # I!Site /\ n \in Trips /\ n \in Nat /\ tab[t].by \in Visitors
  BY <1>1, <1>3, TabOf, PageKinds DEF Returned
<1>5. Home(n) = BrowserOf[t] /\ (rounds[n].kind = "login" => I!Jar(t).nonce = n)
  BY <1>3, <1>4, StateIsHome
<1>6. I!Jar(t).nonce \in Nat
  BY JarOf DEF JarRow
<1>7. fresh \in BOOLEAN
  BY <1>1
<1>8. /\ q \in Pages /\ q # I!Site /\ q.at = "exchange" /\ q.n = n
      /\ q.nonce = I!Jar(t).nonce
  BY <1>2, <1>4, <1>6, <1>7 DEF Pages, Exchanging, I!Site
<1>9. tab'[t] = q
  BY <1>3, <1>8, ShowsPage
<1>10. PICK m : m = I!Jar(t).nonce
  OBVIOUS
<1>11. q.nonce = m /\ (rounds[n].kind = "login" => m = n)
  BY <1>5, <1>8, <1>10
<1>12. Shown(t)'
  BY <1>3, <1>4, <1>5, <1>8, <1>9, <1>11 DEF Shown, Trips, Home
<1>13. QED
  BY <1>3, <1>8, <1>12, OtherPage

LEMMA LookUpKeeps ==
    ASSUME SignInv, NEW t \in Tabs, I!LookUp(t)
    PROVE  SignInv'
<1>1. PICK p, created : p = tab[t] /\ created = (tab[t].by \notin accounts)
  OBVIOUS
<1>2. PICK q : q = [at |-> "prepare", n |-> p.n, by |-> p.by, nonce |-> p.nonce,
                    created |-> created]
  OBVIOUS
<1>3. /\ p.at = "exchange" /\ rounds[p.n].kind = "login"
      /\ tab' = [tab EXCEPT ![t] = q]
      /\ UNCHANGED <<rounds, jar, stored, accounts, sessioned, proof, audits, done, copied>>
  BY <1>1, <1>2 DEF I!LookUp, I!Show, I!Kind
<1>4. p \in Exchanging /\ p # I!Site /\ p.n \in Trips
  BY <1>1, <1>3, TabOf, PageKinds
<1>5. Home(p.n) = BrowserOf[t] /\ p.nonce = p.n
  BY <1>1, <1>3, <1>4, TabOf DEF Shown
<1>6. created \in BOOLEAN
  BY <1>1
<1>7. /\ q \in Pages /\ q # I!Site /\ q.at = "prepare" /\ q.n = p.n /\ q.nonce = p.n
  BY <1>2, <1>4, <1>5, <1>6 DEF Pages, Exchanging, Entering, I!Site
<1>8. tab'[t] = q
  BY <1>3, <1>7, ShowsPage
<1>9. Shown(t)'
  BY <1>3, <1>4, <1>5, <1>7, <1>8 DEF Shown, Trips, Home
<1>10. QED
  BY <1>3, <1>7, <1>9, OtherPage

\* Where a sign-in is, and what it carries.
LEMMA EnteringIs ==
    ASSUME SignInv, NEW t \in Tabs, tab[t].at \in {"prepare", "issue", "commit", "landing"}
    PROVE  /\ tab[t] \in Entering /\ tab[t] # I!Site /\ tab[t].n \in Trips
           /\ rounds[tab[t].n].kind = "login" /\ tab[t].nonce = tab[t].n
           /\ tab[t].at # "landing" => Home(tab[t].n) = BrowserOf[t]
           /\ tab[t].at = "commit" => tab[t].by \in sessioned
<1>1. tab[t] \in Entering /\ tab[t] # I!Site /\ tab[t].n \in Trips
  BY TabOf, PageKinds
<1>2. QED
  BY <1>1, TabOf DEF Shown, Entering

\* The next page of a sign-in.
LEMMA EntersOn ==
    ASSUME SignInv, NEW t \in Tabs, tab[t].at \in {"prepare", "issue", "commit", "landing"},
           NEW at \in {"prepare", "issue", "commit", "landing"},
           tab' = [tab EXCEPT ![t] = [tab[t] EXCEPT !.at = at]],
           at # "landing" => tab[t].at # "landing",
           rounds' = rounds, at = "commit" => tab[t].by \in sessioned'
    PROVE  Shown(t)' /\ [tab[t] EXCEPT !.at = at] \in Pages
<1>1. PICK p : p = tab[t]
  OBVIOUS
<1>2. PICK q : q = [p EXCEPT !.at = at]
  OBVIOUS
<1>3. /\ p \in Entering /\ p.n \in Trips
      /\ rounds[p.n].kind = "login" /\ p.nonce = p.n
      /\ p.at # "landing" => Home(p.n) = BrowserOf[t]
  BY <1>1, EnteringIs
<1>4. /\ q \in Pages /\ q # I!Site /\ q.at = at /\ q.n = p.n /\ q.nonce = p.nonce /\ q.by = p.by
  BY <1>2, <1>3 DEF Pages, Entering, I!Site
<1>5. tab'[t] = q
  BY <1>1, <1>2, <1>4, ShowsPage
<1>6. at = "commit" => q.by \in sessioned'
  BY <1>1, <1>4
<1>7. Shown(t)'
  BY <1>1, <1>3, <1>4, <1>5, <1>6 DEF Shown, Trips, Home
<1>8. QED
  BY <1>1, <1>2, <1>4, <1>7

LEMMA PrepareKeeps ==
    ASSUME SignInv, NEW t \in Tabs, I!Prepare(t)
    PROVE  SignInv'
<1>1. /\ tab[t].at = "prepare"
      /\ UNCHANGED <<rounds, jar, stored, accounts, sessioned, proof, audits, done, copied>>
      /\ \/ tab' = [tab EXCEPT ![t] = I!Site]
         \/ tab' = [tab EXCEPT ![t] = [tab[t] EXCEPT !.at = "issue"]]
  BY DEF I!Prepare, I!Show, I!Flushed, I!CommittedAlready
<1>2. CASE tab' = [tab EXCEPT ![t] = I!Site]
  BY <1>1, <1>2, OtherPage DEF Pages
<1>3. CASE tab' = [tab EXCEPT ![t] = [tab[t] EXCEPT !.at = "issue"]]
  <2>1. Shown(t)' /\ [tab[t] EXCEPT !.at = "issue"] \in Pages
    BY <1>1, <1>3, EntersOn
  <2>2. PICK q : q = [tab[t] EXCEPT !.at = "issue"]
    OBVIOUS
  <2>3. QED
    BY <1>1, <1>3, <2>1, <2>2, OtherPage
<1>4. QED
  BY <1>1, <1>2, <1>3

LEMMA SessionIssueKeeps ==
    ASSUME SignInv, NEW t \in Tabs, I!Issue(t)
    PROVE  SignInv'
<1>1. /\ tab[t].at = "issue"
      /\ sessioned' = sessioned \cup {tab[t].by}
      /\ UNCHANGED <<rounds, jar, stored, accounts, proof, audits, done, copied>>
      /\ tab' = [tab EXCEPT ![t] = [tab[t] EXCEPT !.at = "commit"]]
  BY DEF I!Issue, I!Show
<1>2. Shown(t)' /\ [tab[t] EXCEPT !.at = "commit"] \in Pages
  BY <1>1, EntersOn
<1>3. PICK q : q = [tab[t] EXCEPT !.at = "commit"]
  OBVIOUS
<1>4. QED
  BY <1>1, <1>2, <1>3, OtherPage

LEMMA LostKeeps ==
    ASSUME SignInv, NEW t \in Tabs, I!Lost(t)
    PROVE  SignInv'
<1>1. /\ tab' = [tab EXCEPT ![t] = I!Site]
      /\ UNCHANGED <<rounds, jar, stored, accounts, sessioned, proof, audits, done, copied>>
  BY DEF I!Lost, I!Show
<1>2. QED
  BY <1>1, OtherPage DEF Pages

\* An account with a second factor: the tab lands, and the cookies are cleared.
LEMMA ChallengeKeeps ==
    ASSUME SignInv, NEW t \in Tabs, I!Challenge(t)
    PROVE  SignInv'
<1>1. PICK p : p = tab[t]
  OBVIOUS
<1>2. PICK q : q = [at |-> "landing", n |-> p.n, by |-> p.by, nonce |-> p.nonce, created |-> FALSE]
  OBVIOUS
<1>3. /\ p.at = "issue" /\ tab' = [tab EXCEPT ![t] = q]
      /\ jar' = [jar EXCEPT ![BrowserOf[t]] = I!Cleared(t, p.n)]
      /\ UNCHANGED <<rounds, stored, accounts, sessioned, proof, audits, done, copied>>
  BY <1>1, <1>2 DEF I!Challenge, I!Show, I!SetJar
<1>4. p \in Entering /\ p.n \in Trips /\ rounds[p.n].kind = "login" /\ p.nonce = p.n
  BY <1>1, <1>3, EnteringIs
<1>5. q \in Pages /\ q # I!Site /\ q.at = "landing" /\ q.n = p.n /\ q.nonce = p.n
  BY <1>2, <1>4 DEF Pages, Entering, I!Site
<1>6. tab' \in [Tabs -> Pages] /\ tab'[t] = q /\ \A x \in Tabs \ {t} : tab'[x] = tab[x]
  BY <1>3, <1>5, ShowsPage
<1>7. Shown(t)'
  BY <1>3, <1>4, <1>5, <1>6 DEF Shown, Trips
<1>8. Grown /\ rounds' \in Seq(Trip)
  BY <1>3, NoTripBegins
<1>9. jar' \in [Browsers -> JarRow] /\ \A b \in Browsers : jar'[b] = jar[b] \/ Cookies(b)'
  BY <1>3, <1>8, ClearedJar, CookiesMove
<1>10. SignTypes'
  BY <1>3, <1>6, <1>8, <1>9 DEF SignInv, SignTypes
<1>11. \A x \in Tabs : tab'[x] = tab[x] \/ Shown(x)'
  BY <1>6, <1>7
<1>12. QED
  BY <1>3, <1>8, <1>9, <1>10, <1>11, SignSettles

LEMMA CommitKeeps ==
    ASSUME SignInv, NEW t \in Tabs, I!Commit(t)
    PROVE  SignInv'
<1>1. PICK p, w : p = tab[t] /\ w = [I!Cleared(t, p.n) EXCEPT !.who = p.by]
  OBVIOUS
<1>2. /\ p.at = "commit" /\ tab' = [tab EXCEPT ![t] = [tab[t] EXCEPT !.at = "landing"]]
      /\ jar' = [jar EXCEPT ![BrowserOf[t]] = w]
      /\ accounts' = accounts \cup {p.by} /\ done' = done \cup {I!LoggedIn(t)}
      /\ UNCHANGED <<rounds, stored, sessioned, proof, audits, copied>>
  BY <1>1 DEF I!Commit, I!Show, I!SetJar
<1>3. /\ p \in Entering /\ p.n \in Trips /\ rounds[p.n].kind = "login" /\ p.nonce = p.n
      /\ Home(p.n) = BrowserOf[t] /\ p.by \in sessioned
  BY <1>1, <1>2, EnteringIs
<1>4. Shown(t)' /\ [tab[t] EXCEPT !.at = "landing"] \in Pages
  BY <1>1, <1>2, EntersOn
<1>5. tab' \in [Tabs -> Pages] /\ \A x \in Tabs \ {t} : tab'[x] = tab[x]
  <2>1. PICK q : q = [tab[t] EXCEPT !.at = "landing"]
    OBVIOUS
  <2>2. QED
    BY <1>2, <1>4, <2>1, ShowsPage
<1>6. Grown /\ rounds' \in Seq(Trip)
  BY <1>2, NoTripBegins
<1>7. p.by \in Visitors
  BY <1>3 DEF Entering
<1>8. /\ w \in JarRow /\ w.login = I!Cleared(t, p.n).login /\ w.stepup = I!Cleared(t, p.n).stepup
      /\ w.nonce = I!Cleared(t, p.n).nonce /\ w.who = p.by
  BY <1>1, <1>7, ClearedJar DEF JarRow
<1>9. jar' \in [Browsers -> JarRow] /\ \A b \in Browsers : jar'[b] = jar[b] \/ Cookies(b)'
  <2>1. w.login = 0 \/ w.login = I!Jar(t).login
    BY <1>8, ClearedJar
  <2>2. w.stepup = 0 \/ w.stepup = I!Jar(t).stepup
    BY <1>8, ClearedJar
  <2>3. w.nonce = w.login
    BY <1>8, ClearedJar
  <2>4. w.who \in accounts'
    BY <1>2, <1>8
  <2>5. QED
    BY <1>2, <1>6, <1>8, <2>1, <2>2, <2>3, <2>4, CookiesMove
<1>10. accounts' \subseteq Visitors /\ accounts' \ accounts \subseteq sessioned'
  BY <1>2, <1>3, <1>7 DEF SignInv, SignTypes
<1>11. SignTypes'
  BY <1>2, <1>5, <1>6, <1>9, <1>10 DEF SignInv, SignTypes
<1>12. ASSUME NEW d \in done', d \notin done
       PROVE  Told(d)'
  <2>1. /\ d.kind = "session" /\ d.n = p.n /\ d.browser = BrowserOf[t] /\ d.by = d.as
    BY <1>1, <1>2, <1>12 DEF I!LoggedIn
  <2>2. QED
    BY <1>2, <1>3, <2>1 DEF Told, Trips, Home
<1>13. \A x \in Tabs : tab'[x] = tab[x] \/ Shown(x)'
  BY <1>4, <1>5
<1>14. QED
  BY <1>2, <1>6, <1>9, <1>10, <1>11, <1>12, <1>13, SignSettles

\* The page that lands with the nonce its tab kept is the one that began.
LEMMA LandKeeps ==
    ASSUME SignInv, NEW t \in Tabs, I!Land(t)
    PROVE  SignInv'
<1>1. PICK p : p = tab[t]
  OBVIOUS
<1>2. PICK q : q = IF stored[t] # 0 /\ p.nonce = stored[t]
                   THEN [at |-> "in", n |-> p.n, as |-> p.by] ELSE I!Site
  OBVIOUS
<1>3. /\ p.at = "landing" /\ tab' = [tab EXCEPT ![t] = q] /\ stored' = [stored EXCEPT ![t] = 0]
      /\ UNCHANGED <<rounds, jar, accounts, sessioned, proof, audits, done, copied>>
  BY <1>1, <1>2 DEF I!Land, I!Show, I!NonceTaken, I!NonceOk
<1>4. p \in Entering /\ p.n \in Trips /\ p.nonce = p.n
  BY <1>1, <1>3, EnteringIs
<1>5. Kept(t) /\ stored \in [Tabs -> Nat]
  BY DEF SignInv, SignTypes
<1>6. /\ q \in Pages
      /\ q # I!Site => q.at = "in" /\ q.n = p.n /\ rounds[p.n].tab = t
  BY <1>2, <1>4, <1>5 DEF Pages, Entering, Entered, Kept
<1>7. tab' \in [Tabs -> Pages] /\ tab'[t] = q /\ \A x \in Tabs \ {t} : tab'[x] = tab[x]
  BY <1>3, <1>6, ShowsPage
<1>8. Shown(t)'
  BY <1>3, <1>4, <1>6, <1>7 DEF Shown, Trips
<1>9. stored' \in [Tabs -> Nat] /\ stored'[t] = 0 /\ \A x \in Tabs \ {t} : stored'[x] = stored[x]
  BY <1>3, <1>5
<1>10. Grown /\ rounds' \in Seq(Trip)
  BY <1>3, NoTripBegins
<1>11. SignTypes'
  BY <1>3, <1>7, <1>9, <1>10 DEF SignInv, SignTypes
<1>12. \A x \in Tabs : tab'[x] = tab[x] \/ Shown(x)'
  BY <1>7, <1>8
<1>13. \A x \in Tabs : stored'[x] = stored[x] \/ Kept(x)'
  BY <1>9 DEF Kept
<1>14. QED
  BY <1>3, <1>10, <1>11, <1>12, <1>13, SignSettles

LEMMA IssueStepupKeeps ==
    ASSUME SignInv, NEW t \in Tabs, I!IssueStepup(t)
    PROVE  SignInv'
<1>1. PICK n, u, a : n = tab[t].n /\ u = rounds[n].user /\ a = rounds[n].action
  OBVIOUS
<1>2. PICK q, d : /\ q = [at |-> "proved", n |-> n, action |-> a]
                  /\ d = [kind |-> "proof", browser |-> BrowserOf[t], n |-> n, by |-> tab[t].by,
                          as |-> u, action |-> a]
  OBVIOUS
<1>3. /\ tab[t].at = "exchange" /\ rounds[n].kind = "stepup" /\ tab[t].by = u
      /\ proof' = [proof EXCEPT ![u] = [n |-> n, action |-> a]] /\ done' = done \cup {d}
      /\ jar' = [jar EXCEPT ![BrowserOf[t]] = I!Cleared(t, n)] /\ tab' = [tab EXCEPT ![t] = q]
      /\ UNCHANGED <<rounds, stored, codes, accounts, sessioned, audits, copied>>
  BY <1>1, <1>2
     DEF I!IssueStepup, I!Kind, I!SameAddress, I!Issued, I!SetJar, I!Show
<1>4. /\ tab[t] \in Exchanging /\ tab[t] # I!Site /\ n \in Trips /\ n \in Nat /\ rounds[n] \in Trip
      /\ Home(n) = BrowserOf[t] /\ u \in accounts /\ u \in Visitors
  <2>1. tab[t] \in Exchanging /\ tab[t] # I!Site /\ n \in Trips /\ n \in Nat /\ rounds[n] \in Trip
    BY <1>1, <1>3, TabOf, PageKinds
  <2>2. Home(n) = BrowserOf[t] /\ u \in accounts
    BY <1>1, <1>3, <2>1, TabOf DEF Shown
  <2>3. QED
    BY <1>3, <2>1, <2>2 DEF Exchanging
<1>5. q \in Pages /\ q # I!Site /\ q.at = "proved" /\ q.n = n
  BY <1>1, <1>2, <1>4 DEF Pages, Proved, Trip, I!Site
<1>6. tab' \in [Tabs -> Pages] /\ tab'[t] = q /\ \A x \in Tabs \ {t} : tab'[x] = tab[x]
  BY <1>3, <1>5, ShowsPage
<1>7. Shown(t)'
  BY <1>3, <1>4, <1>5, <1>6 DEF Shown, Trips
<1>8. Grown /\ rounds' \in Seq(Trip)
  BY <1>3, NoTripBegins
<1>9. jar' \in [Browsers -> JarRow] /\ \A b \in Browsers : jar'[b] = jar[b] \/ Cookies(b)'
  BY <1>3, <1>8, ClearedJar, CookiesMove
<1>10. /\ proof' \in [Visitors -> ProofRow] /\ proof'[u] = [n |-> n, action |-> a]
       /\ \A v \in Visitors \ {u} : proof'[v] = proof[v]
  BY <1>1, <1>3, <1>4 DEF SignInv, SignTypes, ProofRow, Trip
<1>11. Bound(u)'
  BY <1>1, <1>3, <1>4, <1>10 DEF Bound, Trips
<1>12. ASSUME NEW e \in done', e \notin done
       PROVE  Told(e)'
  <2>1. e = d
    BY <1>3, <1>12
  <2>2. /\ e.kind = "proof" /\ e.n = n /\ e.browser = BrowserOf[t] /\ e.by = e.as /\ e.as = u
    BY <1>2, <1>3, <2>1
  <2>3. QED
    BY <1>1, <1>3, <1>4, <2>2 DEF Told, Trips, Home
<1>13. SignTypes'
  BY <1>3, <1>6, <1>8, <1>9, <1>10 DEF SignInv, SignTypes
<1>14. \A x \in Tabs : tab'[x] = tab[x] \/ Shown(x)'
  BY <1>6, <1>7
<1>15. \A v \in Visitors : proof'[v] = proof[v] \/ Bound(v)'
  BY <1>10, <1>11
<1>16. QED
  BY <1>3, <1>8, <1>9, <1>12, <1>13, <1>14, <1>15, SignSettles

LEMMA ConsumeStepupKeeps ==
    ASSUME SignInv, NEW t \in Tabs, NEW a \in SignInActions, I!ConsumeStepup(t, a)
    PROVE  SignInv'
<1>1. PICK n, u : n = tab[t].n /\ u = I!Jar(t).who
  OBVIOUS
<1>2. PICK d :
          d = [kind |-> "use", browser |-> BrowserOf[t], n |-> n, by |-> u, as |-> u, action |-> a]
  OBVIOUS
<1>ok. PICK ok \in BOOLEAN : ok <=> proof[u] = [n |-> n, action |-> a]
  OBVIOUS
<1>3. /\ tab[t].at = "proved" /\ u # I!Nobody /\ tab' = [tab EXCEPT ![t] = I!Site]
      /\ proof' = IF ok THEN [proof EXCEPT ![u] = I!NoProof] ELSE proof
      /\ done' = IF ok THEN done \cup {d} ELSE done
      /\ UNCHANGED <<rounds, jar, stored, codes, accounts, sessioned, audits, copied>>
  BY <1>1, <1>2, <1>ok DEF I!ConsumeStepup, I!Holds, I!Show
<1>4. n \in Trips /\ n # 0 /\ u \in Visitors
  <2>1. tab[t] # I!Site
    BY <1>3, TabOf, PageKinds
  <2>2. QED
    BY <1>1, <1>3, <2>1, TabOf, JarOf DEF JarRow, Trips
<1>5. Grown /\ rounds' \in Seq(Trip)
  BY <1>3, NoTripBegins
<1>6. tab' \in [Tabs -> Pages] /\ tab'[t] = I!Site /\ \A x \in Tabs \ {t} : tab'[x] = tab[x]
  BY <1>3, ShowsPage DEF Pages
<1>7. /\ proof' \in [Visitors -> ProofRow]
      /\ \A v \in Visitors : proof'[v] = proof[v] \/ proof'[v] = I!NoProof
  BY <1>3, <1>4 DEF SignInv, SignTypes, ProofRow, I!NoProof
<1>8. SignTypes'
  BY <1>3, <1>5, <1>6, <1>7 DEF SignInv, SignTypes
<1>9. \A x \in Tabs : tab'[x] = tab[x] \/ Shown(x)'
  BY <1>6 DEF Shown
<1>10. \A v \in Visitors : proof'[v] = proof[v] \/ Bound(v)'
  BY <1>7 DEF Bound
<1>11. ASSUME NEW e \in done', e \notin done
       PROVE  Told(e)'
  <2>1. ok /\ e = d
    BY <1>3, <1>11
  <2>2. proof[u] = [n |-> n, action |-> a]
    BY <1>ok, <2>1
  <2>3. rounds[n].user = u /\ rounds[n].action = a
    <3>1. proof[u].n = n /\ proof[u].action = a /\ proof[u] # I!NoProof
      BY <1>4, <2>2 DEF I!NoProof
    <3>2. Bound(u)
      BY <1>4 DEF SignInv
    <3>3. QED
      BY <3>1, <3>2 DEF Bound
  <2>4. e.kind = "use" /\ e.n = n /\ e.as = u /\ e.action = a
    BY <1>2, <2>1
  <2>5. QED
    BY <1>3, <1>4, <2>3, <2>4 DEF Told, Trips
<1>12. QED
  BY <1>3, <1>5, <1>8, <1>9, <1>10, <1>11, SignSettles

LEMMA LoginKeeps ==
    ASSUME SignInv, NEW t \in Tabs, NEW u \in Visitors, I!Login(t, u)
    PROVE  SignInv'
<1>1. PICK w : w = [I!Jar(t) EXCEPT !.who = u]
  OBVIOUS
<1>2. /\ u \in accounts /\ jar' = [jar EXCEPT ![BrowserOf[t]] = w] /\ sessioned \subseteq sessioned'
      /\ UNCHANGED <<rounds, tab, stored, codes, accounts, proof, audits, done, copied>>
  BY <1>1 DEF I!Login, I!SetJar
<1>3. /\ w \in JarRow /\ w.login = I!Jar(t).login /\ w.stepup = I!Jar(t).stepup
      /\ w.nonce = I!Jar(t).nonce /\ w.who = u /\ I!Jar(t).nonce = I!Jar(t).login
  BY <1>1, JarOf DEF JarRow, Cookies
<1>4. Grown /\ rounds' \in Seq(Trip)
  BY <1>2, NoTripBegins
<1>5. jar' \in [Browsers -> JarRow] /\ \A b \in Browsers : jar'[b] = jar[b] \/ Cookies(b)'
  BY <1>2, <1>3, <1>4, CookiesMove
<1>6. SignTypes'
  BY <1>2, <1>4, <1>5 DEF SignInv, SignTypes
<1>7. QED
  BY <1>2, <1>4, <1>5, <1>6, SignSettles

\* An address that is opened again says no more than it did.
LEMMA OpenKeeps ==
    ASSUME SignInv, NEW t \in Tabs, NEW r \in Tabs, I!Open(t, r)
    PROVE  SignInv'
<1>1. PICK p : p = tab[t]
  OBVIOUS
<1>2. PICK q : /\ tab' = [tab EXCEPT ![r] = q]
               /\ \/ /\ p.at \in {"callback", "exchange", "prepare", "issue", "commit"}
                     /\ q = I!Url(p.n, p.by)
                  \/ p.at \in {"landing", "proved"} /\ q = p
                  \/ p.at = "in" /\ q = I!Url(p.n, p.as)
  BY <1>1 DEF I!Open, I!Show
<1>3. UNCHANGED <<rounds, jar, stored, codes, accounts, sessioned, proof, audits, done>>
  BY DEF I!Open
<1>4. p \in Pages /\ p # I!Site /\ p.n \in Trips /\ p.n \in Nat
  BY <1>1, <1>2, TabOf, PageKinds
<1>5. /\ p.at \in {"callback", "exchange", "prepare", "issue", "commit"} => p.by \in Visitors \cup {I!Nobody}
      /\ p.at = "in" => p.as \in Visitors
  BY <1>4, PageKinds DEF Returned, Exchanging, Entering, Entered
<1>6. CASE q = p /\ p.at \in {"landing", "proved"}
  <2>1. p.at = "landing" => rounds[p.n].kind = "login" /\ p.nonce = p.n
    BY <1>1, EnteringIs
  <2>2. tab'[r] = q
    BY <1>2, <1>4, <1>6, ShowsPage
  <2>3. Shown(r)'
    BY <1>3, <1>4, <1>6, <2>1, <2>2 DEF Shown, Trips
  <2>4. QED
    BY <1>2, <1>3, <1>4, <1>6, <2>3, OtherPage
<1>7. ASSUME NEW by \in Visitors \cup {I!Nobody}, q = I!Url(p.n, by)
      PROVE  SignInv'
  <2>1. q \in Pages /\ q # I!Site /\ q.at = "callback" /\ q.n = p.n
    BY <1>4, <1>7 DEF I!Url, Pages, Returned, I!Site
  <2>2. tab'[r] = q
    BY <1>2, <2>1, ShowsPage
  <2>3. Shown(r)'
    BY <1>3, <1>4, <2>1, <2>2 DEF Shown, Trips
  <2>4. QED
    BY <1>2, <1>3, <2>1, <2>3, OtherPage
<1>8. QED
  BY <1>2, <1>5, <1>6, <1>7

LEMMA SignStepKeeps ==
    ASSUME SignInv, I!SignNext
    PROVE  SignInv'
  BY GoogleLoginKeeps, StepupInitiateKeeps, AtGoogleKeeps, RefuseKeeps, CodeExchangeKeeps,
     ExchangeFailsKeeps, LookUpKeeps, PrepareKeeps, ChallengeKeeps, SessionIssueKeeps, CommitKeeps,
     LostKeeps, LandKeeps, IssueStepupKeeps, ConsumeStepupKeeps, LoginKeeps, OpenKeeps
     DEF I!SignNext

LEMMA SignInitially ==
    ASSUME I!SignInit(Known)
    PROVE  SignInv
<1>1. SignTypes
  BY SignConstants DEF I!SignInit, SignTypes, Pages, JarRow, ProofRow, I!EmptyJar, I!NoProof
<1>2. \A b \in Browsers : Cookies(b)
  BY DEF I!SignInit, Cookies, I!EmptyJar
<1>3. \A t \in Tabs : Shown(t) /\ Kept(t)
  BY DEF I!SignInit, Shown, Kept
<1>4. \A u \in Visitors : Bound(u)
  BY DEF I!SignInit, Bound
<1>5. QED
  BY <1>1, <1>2, <1>3, <1>4 DEF I!SignInit, SignInv

\* What the invariant says of what a reader may see.
LEMMA SignHolds ==
    ASSUME SignInv
    PROVE  /\ I!SignTypeOK /\ I!OnlyOwnRounds /\ I!ProofsAndTabsBound
           /\ I!AccountHasSession(Known)
<1>1. Len(rounds) \in Nat
  BY DEF SignInv, SignTypes
<1>2. I!SignTypeOK
  <2>1. ASSUME NEW b \in Browsers
        PROVE  /\ {jar[b].login, jar[b].stepup, jar[b].nonce} \subseteq 0 .. Len(rounds)
               /\ jar[b].who = I!Nobody \/ jar[b].who \in accounts
    BY <1>1 DEF SignInv, Cookies, Trips
  <2>2. ASSUME NEW t \in Tabs
        PROVE  stored[t] \in 0 .. Len(rounds)
    BY <1>1 DEF SignInv, Kept, Trips
  <2>3. QED
    BY <2>1, <2>2 DEF I!SignTypeOK, SignInv, Bound
<1>3. I!OnlyOwnRounds
  BY DEF I!OnlyOwnRounds, SignInv, Told, Noted, Home
<1>4. I!ProofsAndTabsBound
  <2>1. ASSUME NEW t \in Tabs, tab[t].at = "in"
        PROVE  rounds[tab[t].n].tab = t
    BY <2>1, TabOf, PageKinds DEF Shown
  <2>2. QED
    BY <2>1 DEF I!ProofsAndTabsBound, SignInv, Told
<1>5. QED
  BY <1>2, <1>3, <1>4 DEF I!AccountHasSession, SignInv

\* Whatever tabs overlap and addresses are opened again, sessions, proofs and
\* accounts come from round trips of the same browser and person (auth_google,
\* stepup).
THEOREM SignInCorrect == Spec => []SignInSafe
<1> DEFINE Inv == focus = "signin" => SignInv
<1>1. Init => Inv
  BY SignInitially DEF Init
<1>2. Inv /\ [Next]_identityVars => Inv'
  <2> SUFFICES ASSUME Inv, [Next]_identityVars, (focus = "signin")'
               PROVE  SignInv'
    OBVIOUS
  <2>1. CASE SignInStep
    BY <2>1, SignStepKeeps DEF SignInStep
  <2>2. CASE UNCHANGED identityVars
    <3>1. SignInv /\ UNCHANGED signVars
      BY <2>2 DEF identityVars
    <3>2. Grown /\ rounds' \in Seq(Trip)
      BY <3>1, NoTripBegins DEF signVars
    <3>3. SignTypes'
      BY <3>1 DEF SignInv, SignTypes, signVars
    <3>4. QED
      BY <3>1, <3>2, <3>3, SignSettles DEF signVars
  <2>3. CASE MfaStep \/ MailStep \/ MemberStep \/ GrantStep
    BY <2>3 DEF MfaStep, MailStep, MemberStep, GrantStep, GrantFoci, M!Next, G!Next
  <2>4. QED
    BY <2>1, <2>2, <2>3 DEF Next
<1>3. Inv => SignInSafe
  BY SignHolds DEF SignInSafe
<1>4. QED
  BY <1>1, <1>2, <1>3, PTL DEF Spec
=============================================================================
