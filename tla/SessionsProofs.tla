--------------------------- MODULE SessionsProofs ---------------------------
(***************************************************************************)
(* Theorems about Sessions, for every number of browsers, families,        *)
(* requests and tokens, and every grace, lifetime and pruning limit.       *)
(***************************************************************************)
EXTENDS Sessions, TLAPS

\* Tokens only age: in one step an issued token stays issued, and one that is
\* out of use, no longer the live head, or of a dead family, stays so.
TokensAge ==
    \A t \in Token : Issued(t) =>
        /\ Issued(t)'
        /\ ~InUse(t) => ~InUse(t)'
        /\ ~LiveHead(t) => ~LiveHead(t)'
        /\ ~Live(t.sid) => ~Live(t.sid)'

\* The tables after a step, and what it does to tokens.
StoreGood == RowsAgree' /\ ChainLinear' /\ TokensAge

-----------------------------------------------------------------------------
(* Types of what the actions write. *)

\* create_refresh_token makes a token.
LEMMA TokenType ==
    ASSUME TypeOK, NEW j \in Jtis, NEW s \in Sids, NEW start \in Times
    PROVE  NewToken(j, s, start) \in Token
BY DEF TypeOK, NewToken, Token

\* Dropping families leaves tables of the same type.
LEMMA WithoutType ==
    ASSUME TypeOK, NEW D
    PROVE  /\ WithoutFamilies(D) \in [Sids -> Family \cup {None}]
           /\ WithoutMembers(D) \in [Jtis -> Member \cup {None}]
BY DEF TypeOK, WithoutFamilies, WithoutMembers

-----------------------------------------------------------------------------
(* The kinds of step on the tables. *)

\* A step that leaves the tables and the clock alone.
LEMMA StutterGood ==
    ASSUME RowsAgree, ChainLinear, UNCHANGED <<now, store>>
    PROVE  StoreGood
BY DEF StoreGood, TokensAge, RowsAgree, ChainLinear, store, Issued, InUse, LiveHead,
       Live, IsHead, Graced, IsMember, Exists

\* The clock advances: families and grace periods can only end.
LEMMA TickGood ==
    ASSUME TypeOK, RowsAgree, ChainLinear, Tick
    PROVE  StoreGood
<1> USE DEF IsMember, Exists
<1>1. now' = now + 1 /\ now \in Nat /\ UNCHANGED <<used, family, member, minted, parent>>
  BY SessionsAssumption DEF Tick, TypeOK, store, Times
<1>2. RowsAgree' /\ ChainLinear'
  BY <1>1 DEF RowsAgree, ChainLinear
<1>3. ASSUME NEW t \in Token
      PROVE  /\ Issued(t) => Issued(t)'
             /\ Live(t.sid)' => Live(t.sid)
             /\ IsHead(t.jti, t.sid)' = IsHead(t.jti, t.sid)
             /\ Graced(t.jti, t.sid)' => Graced(t.jti, t.sid)
  <2>1. t.sid \in Sids /\ t.jti \in Jtis
    BY DEF Token
  <2>2. Issued(t) => Issued(t)'
    BY <1>1 DEF Issued
  <2>3. Live(t.sid)' => Live(t.sid)
    <3>1. Exists(t.sid) => family[t.sid].expires \in Nat
      BY <2>1 DEF TypeOK, Family
    <3> QED BY <1>1, <3>1 DEF Live
  <2>4. IsHead(t.jti, t.sid)' = IsHead(t.jti, t.sid)
    BY <1>1 DEF IsHead
  <2>5. \A k \in Jtis : member[k] # None => member[k].created \in Nat
    BY SessionsAssumption DEF TypeOK, Member, Times
  <2>6. Graced(t.jti, t.sid)' => Graced(t.jti, t.sid)
    BY <1>1, <2>5, SessionsAssumption DEF Graced
  <2> QED BY <2>2, <2>3, <2>4, <2>6
<1> QED BY <1>2, <1>3 DEF StoreGood, TokensAge, InUse, LiveHead

\* Dropping families with their members.
LEMMA DropGood ==
    ASSUME TypeOK, RowsAgree, ChainLinear, NEW D, DropFamilies(D), now' = now
    PROVE  StoreGood
<1>1. /\ UNCHANGED <<used, minted, parent>>
      /\ \A s \in Sids : family'[s] = IF s \in D THEN None ELSE family[s]
      /\ \A j \in Jtis : member'[j] = IF member[j] # None /\ member[j].sid \in D
                                      THEN None ELSE member[j]
  BY DEF DropFamilies, WithoutFamilies, WithoutMembers
<1>2. \A j \in Jtis : member[j] # None => member[j].sid \in Sids
  BY DEF TypeOK, Member
<1>3. \A s \in Sids : family[s] # None => family[s].head \in Jtis
  BY DEF TypeOK, Family
<1>4. RowsAgree'
  BY <1>1, <1>2, <1>3 DEF RowsAgree, IsMember, Exists
<1>5. ChainLinear'
  BY <1>1, <1>2 DEF ChainLinear, IsMember, Exists
<1>6. ASSUME NEW t \in Token
      PROVE  /\ Issued(t) => Issued(t)'
             /\ Live(t.sid)' => Live(t.sid)
             /\ IsHead(t.jti, t.sid)' => IsHead(t.jti, t.sid)
             /\ Graced(t.jti, t.sid)' => Graced(t.jti, t.sid)
  <2>1. t.sid \in Sids /\ t.jti \in Jtis
    BY DEF Token
  <2>2. Issued(t) => Issued(t)'
    BY <1>1, <2>1 DEF Issued, IsMember, Exists
  <2>3. Live(t.sid)' => Live(t.sid)
    BY <1>1, <2>1, now' = now DEF Live, Exists
  <2>4. IsHead(t.jti, t.sid)' => IsHead(t.jti, t.sid)
    BY <1>1, <2>1 DEF IsHead, IsMember, Exists
  <2>5. Graced(t.jti, t.sid)' => Graced(t.jti, t.sid)
    BY <1>1, <2>1, now' = now DEF Graced, IsMember, Exists
  <2> QED BY <2>2, <2>3, <2>4, <2>5
<1> QED BY <1>4, <1>5, <1>6 DEF StoreGood, TokensAge, InUse, LiveHead

\* A sign-in adds a family of one member that no issued token belongs to.
LEMMA LoginGood ==
    ASSUME TypeOK, RowsAgree, ChainLinear,
           NEW c \in Clients, NEW s \in Sids, NEW E, NEW L, NEW P,
           Login(c, s, E, L, P)
    PROVE  StoreGood
<1> DEFINE D == E \cup P
           n == minted + 1
<1>1. /\ s \notin used /\ n \in Jtis /\ minted \in Nat /\ n > minted
      /\ used' = used \cup {s} /\ minted' = n /\ parent' = parent /\ now' = now
  BY SessionsAssumption DEF Login, TypeOK, Jtis
<1>2. \A x \in Sids : family'[x] =
          IF x = s THEN [head |-> n, rotations |-> 0, expires |-> now + TTL]
          ELSE IF x \in D THEN None ELSE family[x]
  BY DEF Login, WithoutFamilies
<1>3. \A j \in Jtis : member'[j] =
          IF j = n THEN [sid |-> s, seq |-> 0, created |-> now]
          ELSE IF member[j] # None /\ member[j].sid \in D THEN None ELSE member[j]
  BY DEF Login, WithoutMembers
<1>4. \A j \in Jtis : member[j] # None =>
          member[j].sid \in Sids /\ member[j].sid # s /\ j # n /\ member[j].seq \in Nat
  <2>1. ASSUME NEW j \in Jtis, member[j] # None
        PROVE  member[j].sid \in Sids /\ member[j].seq \in Nat
    BY <2>1 DEF TypeOK, Member
  <2>2. ASSUME NEW j \in Jtis, member[j] # None
        PROVE  member[j].sid \in used /\ j <= minted
    BY <2>1, <2>2 DEF RowsAgree, ChainLinear
  <2>3. ASSUME NEW j \in Jtis, member[j] # None
        PROVE  j # n
    BY <2>2, <2>3, <1>1 DEF Jtis
  <2> QED BY <2>1, <2>2, <2>3, <1>1
<1>5. \A x \in Sids : family[x] # None => family[x].head \in Jtis /\ x # s
  <2>1. \A x \in Sids : family[x] # None => family[x].head \in Jtis
    BY DEF TypeOK, Family
  <2> QED BY <2>1, <1>1 DEF RowsAgree, Exists
<1>6. /\ [head |-> n, rotations |-> 0, expires |-> now + TTL] # None
      /\ [sid |-> s, seq |-> 0, created |-> now] # None
  <2>1. [head |-> n, rotations |-> 0, expires |-> now + TTL] \in Family
    BY <1>1, SessionsAssumption DEF TypeOK, Family, Times
  <2>2. [sid |-> s, seq |-> 0, created |-> now] \in Member
    BY DEF TypeOK, Member
  <2> QED BY <2>1, <2>2, SessionsAssumption
<1> HIDE DEF D, n
<1>7. RowsAgree'
  <2>1. \A x \in Sids : Exists(x)' => x \in used' /\ IsMember(family[x].head, x)'
    <3> SUFFICES ASSUME NEW x \in Sids, Exists(x)'
                 PROVE  x \in used' /\ IsMember(family[x].head, x)'
      OBVIOUS
    <3>1. CASE x = s
      BY <3>1, <1>1, <1>2, <1>3, <1>6 DEF IsMember
    <3>2. CASE x # s
      <4>1. family'[x] = family[x] /\ family[x] # None /\ x \notin D
        BY <3>2, <1>2 DEF Exists
      <4>2. x \in used /\ member[family[x].head] # None /\ member[family[x].head].sid = x
        BY <4>1 DEF RowsAgree, Exists, IsMember
      <4> QED BY <4>1, <4>2, <1>1, <1>3, <1>4, <1>5 DEF IsMember
    <3> QED BY <3>1, <3>2
  <2>2. \A j \in Jtis : member'[j] # None => j <= minted'
    <3>1. \A j \in Jtis : j \in Int
      BY DEF Jtis
    <3> QED BY <1>1, <1>3, <3>1 DEF RowsAgree
  <2>3. \A j, k \in Jtis :
          /\ member'[j] # None /\ member'[k] # None
          /\ member'[j].sid = member'[k].sid /\ member'[j].seq = member'[k].seq
          => j = k
    BY <1>3, <1>4 DEF RowsAgree
  <2> QED BY <2>1, <2>2, <2>3 DEF RowsAgree
<1>8. ChainLinear'
  <2> SUFFICES ASSUME NEW j \in Jtis, member'[j] # None, NEW x, x = member'[j].sid
               PROVE  /\ family'[x] # None
                      /\ member'[j].seq <= family'[x].rotations
                      /\ (member'[j].seq = family'[x].rotations) <=> (family'[x].head = j)
                      /\ \A k \in Jtis : /\ member'[k] # None /\ member'[k].sid = x
                                         /\ member'[k].seq = member'[j].seq + 1
                                         => parent'[k] = j
    BY DEF ChainLinear, Exists, IsMember
  <2>1. CASE j = n
    BY <2>1, <1>2, <1>3, <1>4, <1>6 DEF IsMember, Exists
  <2>2. CASE j # n
    <3>1. /\ member'[j] = member[j] /\ member[j] # None /\ member[j].sid \notin D
          /\ member[j].sid # s /\ member[j].sid \in Sids
      BY <2>2, <1>3, <1>4
    <3>2. family'[member[j].sid] = family[member[j].sid]
      BY <3>1, <1>2
    <3>3. \A k \in Jtis : IsMember(k, member[j].sid)' => IsMember(k, member[j].sid)
                                                         /\ member'[k] = member[k]
      BY <3>1, <1>3 DEF IsMember
    <3> QED BY <3>1, <3>2, <3>3, <1>1 DEF ChainLinear, Exists, IsMember
  <2> QED BY <2>1, <2>2
<1>9. ASSUME NEW t \in Token, Issued(t)
      PROVE  /\ Issued(t)'
             /\ Live(t.sid)' => Live(t.sid)
             /\ IsHead(t.jti, t.sid)' => IsHead(t.jti, t.sid)
             /\ Graced(t.jti, t.sid)' => Graced(t.jti, t.sid)
  <2>1. t.sid \in Sids /\ t.jti \in Jtis /\ t.sid # s /\ t.jti # n /\ t.jti <= minted
    BY <1>1, <1>9 DEF Token, Issued, Jtis
  <2>2. \A k \in Jtis : IsMember(k, t.sid)' => IsMember(k, t.sid) /\ member'[k] = member[k]
    BY <2>1, <1>3 DEF IsMember
  <2>3. Exists(t.sid)' => family'[t.sid] = family[t.sid] /\ t.sid \notin D
    BY <2>1, <1>2 DEF Exists
  <2>4. Issued(t)'
    <3>1. t.sid \in used' /\ t.jti <= minted'
      BY <1>1, <1>9, <2>1 DEF Issued, Jtis
    <3>2. ASSUME Exists(t.sid)', family'[t.sid].rotations < KeepMembers
          PROVE  IsMember(t.jti, t.sid)'
      <4>1. IsMember(t.jti, t.sid)
        BY <1>9, <2>3, <3>2 DEF Issued, Exists
      <4> QED BY <4>1, <2>1, <2>3, <3>2, <1>3 DEF IsMember
    <3> QED BY <3>1, <3>2 DEF Issued
  <2>5. Live(t.sid)' => Live(t.sid)
    BY <2>3, <1>1 DEF Live, Exists
  <2>6. IsHead(t.jti, t.sid)' => IsHead(t.jti, t.sid)
    BY <2>1, <2>2, <2>3 DEF IsHead, Exists
  <2>7. Graced(t.jti, t.sid)' => Graced(t.jti, t.sid)
    BY <2>1, <2>2, <2>3, <1>1 DEF Graced, Exists
  <2> QED BY <2>4, <2>5, <2>6, <2>7
<1> QED BY <1>7, <1>8, <1>9 DEF StoreGood, TokensAge, InUse, LiveHead

\* A rotation gives the head one successor: no other token comes back in use.
LEMMA RotateGood ==
    ASSUME TypeOK, RowsAgree, ChainLinear,
           NEW r \in Requests, tok[r] \in Token, RotateOk(r)
    PROVE  StoreGood
<1>0. PICK s, h, j, n : /\ s = tok[r].sid /\ h = tok[r].jti
                        /\ j = minted + 1 /\ n = family[s].rotations + 1
  OBVIOUS
<1>1. /\ s \in Sids /\ h \in Jtis /\ j \in Jtis /\ minted \in Nat
      /\ family[s] # None /\ family[s].head = h /\ Live(s)
      /\ member[h] # None /\ member[h].sid = s
      /\ family[s].rotations \in Nat
  <2>1. s \in Sids /\ h \in Jtis
    BY <1>0 DEF Token
  <2>2. j \in Jtis /\ Live(s) /\ IsHead(h, s)
    BY <1>0 DEF RotateOk, MayRotate
  <2>3. family[s].rotations \in Nat
    BY <2>1, <2>2 DEF TypeOK, Family, IsHead, Exists
  <2> QED BY <2>1, <2>2, <2>3 DEF IsHead, IsMember, Exists, TypeOK
<1>2. used' = used /\ minted' = j /\ now' = now /\ parent' = [parent EXCEPT ![j] = h]
  BY <1>0 DEF RotateOk
<1>3. \A x \in Sids : family'[x] =
          IF x = s THEN [head |-> j, rotations |-> n, expires |-> now + TTL]
          ELSE family[x]
  BY <1>0, <1>1 DEF RotateOk, TypeOK
<1>4. \A k \in Jtis : member'[k] =
          IF k = j THEN [sid |-> s, seq |-> n, created |-> now]
          ELSE IF IsMember(k, s) /\ member[k].seq <= n - KeepMembers
          THEN None ELSE member[k]
  BY <1>0 DEF RotateOk
<1>5. \A k \in Jtis : member[k] # None =>
          /\ member[k].sid \in Sids /\ k # j /\ member[k].seq \in Nat
          /\ member[k].sid = s => member[k].seq < n
  <2>1. \A k \in Jtis : member[k] # None => member[k].sid \in Sids /\ member[k].seq \in Nat
    BY DEF TypeOK, Member
  <2>2. \A k \in Jtis : member[k] # None => k # j
    BY <1>0, <1>1 DEF RowsAgree, Jtis
  <2>3. ASSUME NEW k \in Jtis, member[k] # None, member[k].sid = s
        PROVE  member[k].seq < n
    <3>1. member[k].seq <= family[s].rotations
      BY <2>3 DEF ChainLinear
    <3> QED BY <1>0, <1>1, <2>1, <2>3, <3>1
  <2> QED BY <2>1, <2>2, <2>3
<1>6. /\ [head |-> j, rotations |-> n, expires |-> now + TTL] # None
      /\ [sid |-> s, seq |-> n, created |-> now] # None
  <2>1. [head |-> j, rotations |-> n, expires |-> now + TTL] \in Family
    BY <1>0, <1>1, SessionsAssumption DEF TypeOK, Family, Times
  <2>2. [sid |-> s, seq |-> n, created |-> now] \in Member
    BY <1>0, <1>1 DEF TypeOK, Member
  <2> QED BY <2>1, <2>2, SessionsAssumption
<1>7. member[h].seq = family[s].rotations
  BY <1>1 DEF ChainLinear
<1>8. n \in Nat /\ n = family[s].rotations + 1 /\ j = minted + 1 /\ n > n - KeepMembers
  BY <1>0, <1>1, SessionsAssumption
<1>9. RowsAgree'
  <2>1. \A x \in Sids : Exists(x)' => x \in used' /\ IsMember(family[x].head, x)'
    <3> SUFFICES ASSUME NEW x \in Sids, Exists(x)'
                 PROVE  x \in used' /\ IsMember(family[x].head, x)'
      OBVIOUS
    <3>1. CASE x = s
      BY <3>1, <1>1, <1>2, <1>3, <1>4, <1>6 DEF IsMember, RowsAgree, Exists
    <3>2. CASE x # s
      <4>1. family'[x] = family[x] /\ family[x] # None
        BY <3>2, <1>3 DEF Exists
      <4>2. x \in used /\ member[family[x].head] # None /\ member[family[x].head].sid = x
        BY <4>1 DEF RowsAgree, Exists, IsMember
      <4>3. family[x].head \in Jtis
        BY <4>1 DEF TypeOK, Family
      <4> QED BY <3>2, <4>1, <4>2, <4>3, <1>2, <1>4, <1>5 DEF IsMember
    <3> QED BY <3>1, <3>2
  <2>2. \A k \in Jtis : member'[k] # None => k <= minted'
    <3>1. \A k \in Jtis : k \in Int
      BY DEF Jtis
    <3>2. \A k \in Jtis : member[k] # None => k <= minted
      BY DEF RowsAgree
    <3>3. \A k \in Jtis : member'[k] # None /\ k # j => member[k] # None
      BY <1>4
    <3>4. minted' = j /\ j = minted + 1 /\ minted \in Int
      BY <1>1, <1>2, <1>8
    <3> QED BY <3>1, <3>2, <3>3, <3>4
  <2>3. \A i, k \in Jtis :
          /\ member'[i] # None /\ member'[k] # None
          /\ member'[i].sid = member'[k].sid /\ member'[i].seq = member'[k].seq
          => i = k
    BY <1>4, <1>5, <1>8 DEF RowsAgree
  <2> QED BY <2>1, <2>2, <2>3 DEF RowsAgree
<1>10. ChainLinear'
  <2> SUFFICES ASSUME NEW i \in Jtis, member'[i] # None, NEW x, x = member'[i].sid
               PROVE  /\ family'[x] # None
                      /\ member'[i].seq <= family'[x].rotations
                      /\ (member'[i].seq = family'[x].rotations) <=> (family'[x].head = i)
                      /\ \A k \in Jtis : /\ member'[k] # None /\ member'[k].sid = x
                                         /\ member'[k].seq = member'[i].seq + 1
                                         => parent'[k] = i
    BY DEF ChainLinear, Exists, IsMember
  <2>1. CASE i = j
    <3>1. member'[i].sid = s /\ member'[i].seq = n
      BY <2>1, <1>4
    <3>2. \A k \in Jtis : IsMember(k, s)' => member'[k].seq <= n
      BY <1>4, <1>5, <1>8 DEF IsMember
    <3>3. \A k \in Jtis : IsMember(k, s)' => member'[k].seq \in Nat
      BY <1>4, <1>5, <1>8 DEF IsMember
    <3> QED BY <2>1, <3>1, <3>2, <3>3, <1>1, <1>3, <1>6, <1>8 DEF IsMember
  <2>2. CASE i # j /\ member[i].sid = s
    <3>1. member'[i] = member[i] /\ member[i] # None /\ member[i].seq < n /\ member[i].seq \in Nat
      BY <2>2, <1>4, <1>5
    <3>2. Exists(s)' /\ family'[s].rotations = n /\ family'[s].head = j
      BY <1>1, <1>3, <1>6 DEF Exists
    <3>3. ASSUME NEW k \in Jtis, IsMember(k, s)', member'[k].seq = member[i].seq + 1
          PROVE  parent'[k] = i
      <4>1. CASE k = j
        <5>1. member[i].seq = family[s].rotations
          BY <3>3, <4>1, <3>1, <1>1, <1>4, <1>8
        <5>2. i = h
          BY <5>1, <2>2, <3>1, <1>1, <1>7 DEF RowsAgree
        <5> QED BY <5>2, <4>1, <1>1, <1>2 DEF TypeOK
      <4>2. CASE k # j
        <5>1. member'[k] = member[k] /\ IsMember(k, s)
          BY <3>3, <4>2, <1>4 DEF IsMember
        <5>2. parent[k] = i
          BY <5>1, <3>1, <3>3, <2>2 DEF ChainLinear
        <5> QED BY <5>2, <4>2, <1>2 DEF TypeOK
      <4> QED BY <4>1, <4>2
    <3> QED BY <2>2, <3>1, <3>2, <3>3, <1>8 DEF Exists, IsMember
  <2>3. CASE i # j /\ member[i].sid # s
    <3>1. /\ member'[i] = member[i] /\ member[i] # None /\ member[i].sid \in Sids
      BY <2>3, <1>4, <1>5 DEF IsMember
    <3>2. family'[member[i].sid] = family[member[i].sid]
      BY <2>3, <3>1, <1>3
    <3>3. \A k \in Jtis : IsMember(k, member[i].sid)' =>
             IsMember(k, member[i].sid) /\ member'[k] = member[k] /\ k # j
      BY <2>3, <1>4 DEF IsMember
    <3>4. \A k \in Jtis : k # j => parent'[k] = parent[k]
      BY <1>2 DEF TypeOK
    <3> QED BY <3>1, <3>2, <3>3, <3>4 DEF ChainLinear, Exists, IsMember
  <2> QED BY <2>1, <2>2, <2>3
<1>11. ASSUME NEW t \in Token, Issued(t)
       PROVE  /\ Issued(t)'
              /\ Live(t.sid)' => Live(t.sid)
              /\ IsHead(t.jti, t.sid)' => IsHead(t.jti, t.sid)
              /\ InUse(t)' => InUse(t)
  <2>1. t.sid \in Sids /\ t.jti \in Jtis /\ t.jti # j /\ t.jti <= minted
    BY <1>1, <1>8, <1>11 DEF Token, Issued, Jtis
  <2>2. Live(t.sid)' => Live(t.sid)
    BY <2>1, <1>1, <1>2, <1>3 DEF Live, Exists
  <2>3. IsHead(t.jti, t.sid)' => IsHead(t.jti, t.sid)
    BY <2>1, <1>3, <1>4 DEF IsHead, IsMember, Exists
  <2>4. Issued(t)'
    <3>1. t.sid \in used' /\ t.jti <= minted'
      BY <1>1, <1>2, <1>8, <1>11, <2>1 DEF Issued, Jtis
    <3>2. ASSUME Exists(t.sid)', family'[t.sid].rotations < KeepMembers
          PROVE  IsMember(t.jti, t.sid)'
      <4>1. CASE t.sid = s
        <5>1. n < KeepMembers
          BY <3>2, <4>1, <1>1, <1>3
        <5>2. IsMember(t.jti, s)
          BY <4>1, <5>1, <1>1, <1>8, <1>11, SessionsAssumption DEF Issued, Exists
        <5>3. member[t.jti].seq \in Nat
          BY <5>2, <2>1, <1>5 DEF IsMember
        <5>4. ~(member[t.jti].seq <= n - KeepMembers)
          BY <5>1, <5>3, <1>8, SessionsAssumption
        <5> QED BY <4>1, <5>2, <5>4, <2>1, <1>4 DEF IsMember
      <4>2. CASE t.sid # s
        <5>1. IsMember(t.jti, t.sid)
          BY <3>2, <4>2, <2>1, <1>3, <1>11 DEF Issued, Exists
        <5> QED BY <4>2, <5>1, <2>1, <1>4 DEF IsMember
      <4> QED BY <4>1, <4>2
    <3> QED BY <3>1, <3>2 DEF Issued
  <2>5. ASSUME Live(t.sid)', Graced(t.jti, t.sid)' PROVE InUse(t)
    <3>1. Live(t.sid)
      BY <2>2, <2>5
    <3>2. IsMember(t.jti, t.sid) /\ member'[t.jti] = member[t.jti]
      BY <2>1, <2>5, <1>4 DEF Graced, IsMember
    <3>3. PICK k \in Jtis : /\ IsMember(k, t.sid)'
                            /\ member'[k].seq = member'[t.jti].seq + 1
                            /\ member'[k].created > now - Grace
      BY <2>5, <1>2 DEF Graced
    <3>4. CASE k = j
      <4>1. t.sid = s /\ member[t.jti].seq + 1 = n
        BY <3>2, <3>3, <3>4, <1>1, <1>4 DEF IsMember
      <4>2. t.jti = h
        <5>1. member[t.jti] # None /\ member[t.jti].sid = s /\ member[t.jti].seq \in Nat
          BY <4>1, <3>2, <2>1, <1>5 DEF IsMember
        <5>2. member[t.jti].seq = member[h].seq
          BY <4>1, <5>1, <1>1, <1>7, <1>8
        <5> QED BY <5>1, <5>2, <2>1, <1>1 DEF RowsAgree
      <4> QED BY <3>1, <3>2, <4>1, <4>2, <1>1 DEF InUse, IsHead, Exists
    <3>5. CASE k # j
      <4>1. member'[k] = member[k] /\ IsMember(k, t.sid)
        BY <3>3, <3>5, <1>4 DEF IsMember
      <4>2. member[k].seq = member[t.jti].seq + 1 /\ member[k].created > now - Grace
        BY <3>2, <3>3, <4>1
      <4> QED BY <3>1, <3>2, <4>1, <4>2 DEF InUse, IsHead, Graced, Live
    <3> QED BY <3>4, <3>5
  <2> QED BY <2>2, <2>3, <2>4, <2>5 DEF InUse
<1> QED BY <1>9, <1>10, <1>11 DEF StoreGood, TokensAge, LiveHead

-----------------------------------------------------------------------------
(* Requests. *)

Points == {"idle"} \cup Reading \cup Replying \cup Finished

\* All that the invariant says of one request.
Settled(q) ==
    /\ RequestKnows(q)
    /\ pc[q] = "reuse" => ~InUse(tok[q])
    /\ pc[q] = "denied" => ~Live(tok[q].sid)

\* A request that does not move keeps what it knows: tokens only age.
LEMMA StillSettled ==
    ASSUME TypeOK, TokensIssued, TokensAge, NEW q \in Requests, Settled(q),
           pc'[q] = pc[q], owner'[q] = owner[q], tok'[q] = tok[q],
           found'[q] = found[q], reply'[q] = reply[q], late'[q] = late[q]
    PROVE  Settled(q)'
<1>1. CASE tok[q] = None
  <2>1. pc[q] = "idle" /\ ~late[q]
    BY <1>1 DEF Settled, RequestKnows, Passed
  <2> QED BY <2>1 DEF Settled, RequestKnows, Passed
<1>2. CASE tok[q] # None
  <2>1. tok[q] \in Token /\ Issued(tok[q])
    BY <1>2 DEF TypeOK, TokensIssued
  <2>2. PICK t \in Token : t = tok[q] /\ t = tok'[q]
    BY <2>1
  <2>3. /\ ~InUse(t) => ~InUse(t)'
        /\ ~LiveHead(t) => ~LiveHead(t)'
        /\ ~Live(t.sid) => ~Live(t.sid)'
    BY <2>1, <2>2 DEF TokensAge
  <2>4. /\ InUse(tok[q])' <=> InUse(t)'
        /\ LiveHead(tok[q])' <=> LiveHead(t)'
        /\ Live(tok[q].sid)' <=> Live(t.sid)'
    BY <2>2 DEF InUse, LiveHead, Live, IsHead, IsMember, Graced, Exists
  <2> QED BY <1>2, <2>2, <2>3, <2>4 DEF Settled, RequestKnows
<1> QED BY <1>1, <1>2

\* The parts of the invariant after a step of request r.
LEMMA Assemble ==
    ASSUME SessionInv, StoreGood, TypeOK', NEW r \in Requests, Settled(r)',
           \A q \in Requests \ {r} :
              /\ pc'[q] = pc[q] /\ owner'[q] = owner[q] /\ tok'[q] = tok[q]
              /\ found'[q] = found[q] /\ reply'[q] = reply[q] /\ late'[q] = late[q],
           tok'[r] # None => tok'[r] = tok[r] \/ Issued(tok[r])',
           reply'[r] # None => reply'[r] = reply[r] \/ Issued(reply[r])',
           \A c \in Clients : jar'[c] # None => jar'[c] = jar[c] \/ Issued(jar[c])'
    PROVE  SessionInv'
<1>1. \A q \in Requests : Settled(q)
  BY DEF SessionInv, Settled, RequestsKnow, InUseNotDenied, DeniedEndsFamily
<1>2. \A q \in Requests : Settled(q)'
  <2> SUFFICES ASSUME NEW q \in Requests, q # r PROVE Settled(q)'
    OBVIOUS
  <2> QED BY <1>1, StillSettled DEF SessionInv, StoreGood
<1>3. ASSUME NEW t \in Token, Issued(t) PROVE Issued(t)'
  BY <1>3 DEF StoreGood, TokensAge
<1>4. ASSUME NEW c \in Clients, jar'[c] # None PROVE Issued(jar[c])'
  <2>1. CASE jar'[c] = jar[c]
    <3>1. jar[c] \in Token /\ Issued(jar[c])
      BY <1>4, <2>1 DEF SessionInv, TypeOK, TokensIssued
    <3>2. PICK t \in Token : t = jar[c] /\ t = jar'[c] /\ Issued(t)
      BY <2>1, <3>1
    <3>3. Issued(t)'
      BY <3>2, <1>3
    <3> QED BY <3>2, <3>3 DEF Issued, Exists, IsMember
  <2> QED BY <1>4, <2>1
<1>5. ASSUME NEW q \in Requests, tok'[q] # None PROVE Issued(tok[q])'
  <2>1. CASE tok'[q] = tok[q]
    <3>1. tok[q] \in Token /\ Issued(tok[q])
      BY <1>5, <2>1 DEF SessionInv, TypeOK, TokensIssued
    <3>2. PICK t \in Token : t = tok[q] /\ t = tok'[q] /\ Issued(t)
      BY <2>1, <3>1
    <3>3. Issued(t)'
      BY <3>2, <1>3
    <3> QED BY <3>2, <3>3 DEF Issued, Exists, IsMember
  <2> QED BY <1>5, <2>1
<1>6. ASSUME NEW q \in Requests, reply'[q] # None PROVE Issued(reply[q])'
  <2>1. CASE reply'[q] = reply[q]
    <3>1. reply[q] \in Token /\ Issued(reply[q])
      BY <1>6, <2>1 DEF SessionInv, TypeOK, TokensIssued
    <3>2. PICK t \in Token : t = reply[q] /\ t = reply'[q] /\ Issued(t)
      BY <2>1, <3>1
    <3>3. Issued(t)'
      BY <3>2, <1>3
    <3> QED BY <3>2, <3>3 DEF Issued, Exists, IsMember
  <2> QED BY <1>6, <2>1
<1> QED BY <1>2, <1>4, <1>5, <1>6 DEF SessionInv, StoreGood, TokensIssued, Settled,
           RequestsKnow, InUseNotDenied, DeniedEndsFamily

\* The same for a step that is not a request's.
LEMMA AssembleQuiet ==
    ASSUME SessionInv, StoreGood, TypeOK', UNCHANGED request,
           \A c \in Clients : jar'[c] # None => jar'[c] = jar[c] \/ Issued(jar[c])'
    PROVE  SessionInv'
<1>1. \A q \in Requests : Settled(q)'
  <2>1. \A q \in Requests : Settled(q)
    BY DEF SessionInv, Settled, RequestsKnow, InUseNotDenied, DeniedEndsFamily
  <2> QED BY <2>1, StillSettled DEF SessionInv, StoreGood, request
<1>2. CASE Requests = {}
  <2>1. ASSUME NEW c \in Clients, jar'[c] # None PROVE Issued(jar[c])'
    <3>1. CASE jar'[c] = jar[c]
      <4>1. jar[c] \in Token /\ Issued(jar[c])
        BY <2>1, <3>1 DEF SessionInv, TypeOK, TokensIssued
      <4>2. PICK t \in Token : t = jar[c] /\ t = jar'[c] /\ Issued(t)
        BY <3>1, <4>1
      <4>3. Issued(t)'
        BY <4>2 DEF StoreGood, TokensAge
      <4> QED BY <4>2, <4>3 DEF Issued, Exists, IsMember
    <3> QED BY <2>1, <3>1
  <2> QED BY <1>2, <2>1 DEF SessionInv, StoreGood, TokensIssued,
             RequestsKnow, InUseNotDenied, DeniedEndsFamily
<1>3. CASE Requests # {}
  <2>1. PICK r \in Requests : TRUE
    BY <1>3
  <2> QED BY <1>1, <2>1, Assemble DEF request
<1> QED BY <1>2, <1>3

\* A step that only reads, by what it does to its request.
LEMMA ReadKeeps ==
    ASSUME SessionInv, NEW r \in Requests, ReadOnly(r), pc[r] # "idle",
           NEW p \in Points, NEW f \in Jtis \cup {None},
           NEW y \in Token \cup {None}, NEW l \in BOOLEAN,
           pc' = [pc EXCEPT ![r] = p], found' = [found EXCEPT ![r] = f],
           reply' = [reply EXCEPT ![r] = y], late' = [late EXCEPT ![r] = l],
           y # None => Issued(y),
           p # "idle",
           p \in {"family", "catchup", "catchmember"} => f # None,
           p = "reply" => y # None,
           p \in Passed => ~l,
           l => ~InUse(tok[r]),
           p = "grace" => ~LiveHead(tok[r]),
           p = "reuse" => ~InUse(tok[r]),
           p = "denied" => ~Live(tok[r].sid)
    PROVE  SessionInv'
<1>1. /\ UNCHANGED <<now, store>> /\ UNCHANGED <<used, family, member, minted, parent>>
      /\ UNCHANGED <<cutoff, revoking, jar, kind, owner, tok>>
  BY DEF ReadOnly, store
<1>2. StoreGood
  BY <1>1, StutterGood DEF SessionInv
<1>3. TypeOK'
  BY <1>1 DEF SessionInv, TypeOK, Points
<1>4. pc'[r] = p /\ found'[r] = f /\ reply'[r] = y /\ late'[r] = l
  BY DEF SessionInv, TypeOK
<1>5. /\ InUse(tok[r])' <=> InUse(tok[r])
      /\ LiveHead(tok[r])' <=> LiveHead(tok[r])
      /\ Live(tok[r].sid)' <=> Live(tok[r].sid)
  BY <1>1 DEF InUse, LiveHead, Live, IsHead, IsMember, Graced, Exists
<1>6. Settled(r)'
  BY <1>1, <1>4, <1>5 DEF Settled, RequestKnows, SessionInv, RequestsKnow
<1>7. reply'[r] # None => Issued(reply[r])'
  BY <1>1, <1>4 DEF Issued, Exists, IsMember
<1> QED BY <1>1, <1>2, <1>3, <1>6, <1>7, Assemble DEF SessionInv, TypeOK

-----------------------------------------------------------------------------
(* The read-only steps of a request. *)

\* What the invariant says of a request that runs.
LEMMA Facts ==
    ASSUME SessionInv, NEW r \in Requests, pc[r] # "idle"
    PROVE  /\ tok[r] \in Token /\ tok[r].sid \in Sids /\ tok[r].jti \in Jtis
           /\ tok[r].start \in Times /\ owner[r] \in Clients
           /\ found[r] \in Jtis \cup {None} /\ reply[r] \in Token \cup {None}
           /\ late[r] \in BOOLEAN /\ Issued(tok[r]) /\ Settled(r)
           /\ reply[r] # None => Issued(reply[r])
           /\ found = [found EXCEPT ![r] = found[r]]
           /\ reply = [reply EXCEPT ![r] = reply[r]]
           /\ late = [late EXCEPT ![r] = late[r]]
<1>1. tok[r] # None /\ owner[r] # None
  BY DEF SessionInv, RequestsKnow, RequestKnows
<1>2. tok[r] \in Token /\ owner[r] \in Clients
  BY <1>1 DEF SessionInv, TypeOK
<1>3. tok[r].sid \in Sids /\ tok[r].jti \in Jtis /\ tok[r].start \in Times
  BY <1>2 DEF Token
<1>4. /\ found[r] \in Jtis \cup {None} /\ reply[r] \in Token \cup {None}
      /\ late[r] \in BOOLEAN
      /\ found = [found EXCEPT ![r] = found[r]]
      /\ reply = [reply EXCEPT ![r] = reply[r]]
      /\ late = [late EXCEPT ![r] = late[r]]
  BY DEF SessionInv, TypeOK
<1>5. Issued(tok[r]) /\ (reply[r] # None => Issued(reply[r]))
  BY <1>1 DEF SessionInv, TokensIssued
<1>6. Settled(r)
  BY DEF SessionInv, Settled, RequestsKnow, InUseNotDenied, DeniedEndsFamily
<1> QED BY <1>2, <1>3, <1>4, <1>5, <1>6

\* A read-only step that only moves the request to p.
LEMMA MoveKeeps ==
    ASSUME SessionInv, NEW r \in Requests, ReadOnly(r), pc[r] # "idle",
           NEW p \in Points, pc' = [pc EXCEPT ![r] = p],
           UNCHANGED <<found, reply, late>>,
           p \notin {"idle", "reply", "denied"},
           p \in {"family", "catchup", "catchmember"} => found[r] # None,
           p \in Passed => ~late[r],
           p = "grace" => ~LiveHead(tok[r]),
           p = "reuse" => ~InUse(tok[r])
    PROVE  SessionInv'
<1>1. late[r] => ~InUse(tok[r])
  BY Facts DEF Settled, RequestKnows
<1>2. /\ found' = [found EXCEPT ![r] = found[r]]
      /\ reply' = [reply EXCEPT ![r] = reply[r]]
      /\ late' = [late EXCEPT ![r] = late[r]]
  BY Facts
<1>3. /\ found[r] \in Jtis \cup {None} /\ reply[r] \in Token \cup {None}
      /\ late[r] \in BOOLEAN /\ (reply[r] # None => Issued(reply[r]))
  BY Facts
<1>4. p # "idle" /\ p # "reply" /\ p # "denied"
  OBVIOUS
<1>5. /\ p = "reply" => reply[r] # None
      /\ p = "denied" => ~Live(tok[r].sid)
  BY <1>4
<1>6. CASE late[r] = TRUE
  <2>1. late' = [late EXCEPT ![r] = TRUE] /\ ~InUse(tok[r]) /\ p \notin Passed
    BY <1>1, <1>2, <1>6
  <2> QED BY <2>1, <1>2, <1>3, <1>4, <1>5, ReadKeeps
<1>7. CASE late[r] = FALSE
  <2>1. late' = [late EXCEPT ![r] = FALSE]
    BY <1>2, <1>7
  <2> QED BY <2>1, <1>2, <1>3, <1>4, <1>5, ReadKeeps
<1> QED BY <1>3, <1>6, <1>7

\* Every step of a request that only reads the store: the probes of head, grace
\* row, family and member, and the catch-up.
LEMMA ReadStepsKeep ==
    ASSUME SessionInv, NEW r \in Requests,
           \/ Authenticate(r) \/ ProbeHead(r) \/ ProbeGrace(r) \/ ProbeFamily(r)
           \/ ProbeMember(r) \/ RotateRefused(r) \/ ReprobeGrace(r)
           \/ ReprobeFamily(r) \/ CatchUp(r) \/ CatchUpMember(r) \/ Drop(r)
    PROVE  SessionInv'
<1> USE DEF Points, Reading, Replying, Finished
<1>1. CASE Authenticate(r)
  <2> DEFINE p == IF Expired(tok[r]) \/ tok[r].iat < cutoff THEN "rejected" ELSE "head"
             l == ~InUse(tok[r])
  <2>1. pc[r] # "idle" /\ pc' = [pc EXCEPT ![r] = p] /\ late' = [late EXCEPT ![r] = l]
        /\ ReadOnly(r) /\ found' = found /\ reply' = reply
    BY <1>1 DEF Authenticate, Goto
  <2>2. p \in {"rejected", "head"} /\ p \in Points /\ l \in BOOLEAN
    BY DEF InUse
  <2> HIDE DEF p, Points, Reading, Replying, Finished
  <2>3. p \notin Passed
    BY <2>2 DEF Passed
  <2>4. /\ found' = [found EXCEPT ![r] = found[r]]
        /\ reply' = [reply EXCEPT ![r] = reply[r]]
    BY <2>1, Facts
  <2>5. /\ found[r] \in Jtis \cup {None} /\ reply[r] \in Token \cup {None}
        /\ reply[r] # None => Issued(reply[r])
    BY <2>1, Facts
  <2>6. p \notin {"idle", "family", "catchup", "catchmember", "reply", "grace", "reuse", "denied"}
    BY <2>2
  <2>7. l => ~InUse(tok[r])
    OBVIOUS
  <2> HIDE DEF l
  <2> QED BY <2>1, <2>2, <2>3, <2>4, <2>5, <2>6, <2>7, ReadKeeps
<1>2. CASE ProbeHead(r)
  <2> DEFINE p == IF IsHead(tok[r].jti, tok[r].sid) /\ Live(tok[r].sid)
                  THEN "member" ELSE "grace"
  <2>1. pc[r] # "idle" /\ pc' = [pc EXCEPT ![r] = p] /\ ReadOnly(r)
        /\ UNCHANGED <<found, reply, late>>
    BY <1>2 DEF ProbeHead, Goto
  <2>2. p = "member" => ~late[r]
    BY <2>1, Facts DEF Settled, RequestKnows, InUse
  <2>3. p = "grace" => ~LiveHead(tok[r])
    BY DEF LiveHead
  <2>4. p \in {"member", "grace"}
    OBVIOUS
  <2> HIDE DEF p
  <2> QED BY <2>1, <2>2, <2>3, <2>4, MoveKeeps DEF Passed
<1>3. CASE ProbeGrace(r)
  <2>1. pc[r] = "grace" /\ ReadOnly(r) /\ UNCHANGED <<reply, late>>
    BY <1>3 DEF ProbeGrace
  <2>2. CASE GraceRow(r)
    <3>1. found' = [found EXCEPT ![r] = family[tok[r].sid].head]
          /\ pc' = [pc EXCEPT ![r] = "family"]
      BY <1>3, <2>2 DEF ProbeGrace, Goto
    <3>2. InUse(tok[r]) /\ Exists(tok[r].sid)
      BY <2>2 DEF GraceRow, InUse, Live
    <3>3. family[tok[r].sid].head \in Jtis
      BY <2>1, <3>2, Facts DEF SessionInv, TypeOK, Family, Exists
    <3>4. family[tok[r].sid].head # None
      BY <3>3, SessionsAssumption
    <3>5. ~late[r]
      BY <2>1, <3>2, Facts DEF Settled, RequestKnows
    <3>6. /\ reply' = [reply EXCEPT ![r] = reply[r]]
          /\ late' = [late EXCEPT ![r] = late[r]]
          /\ reply[r] \in Token \cup {None} /\ late[r] \in BOOLEAN
          /\ reply[r] # None => Issued(reply[r])
      BY <2>1, Facts
    <3> QED BY <2>1, <3>1, <3>3, <3>4, <3>5, <3>6, ReadKeeps
  <2>3. CASE ~GraceRow(r)
    <3>1. found' = found /\ pc' = [pc EXCEPT ![r] = OnMiss(r)]
      BY <1>3, <2>3 DEF ProbeGrace, Goto
    <3>2. ~InUse(tok[r])
      BY <2>1, <2>3, Facts DEF Settled, RequestKnows, LiveHead, GraceRow, InUse
    <3>3. OnMiss(r) \in {"reuse", "rejected"}
      BY DEF OnMiss
    <3> QED BY <2>1, <3>1, <3>2, <3>3, MoveKeeps DEF Passed
  <2> QED BY <2>2, <2>3
<1>4. CASE ProbeFamily(r)
  <2> DEFINE p == IF Live(tok[r].sid) THEN OnPass(r, "catchup") ELSE OnMiss(r)
  <2>1. pc[r] = "family" /\ pc' = [pc EXCEPT ![r] = p] /\ ReadOnly(r)
        /\ UNCHANGED <<found, reply, late>>
    BY <1>4 DEF ProbeFamily, Goto
  <2>2. ~late[r] /\ found[r] # None
    BY <2>1, Facts DEF Settled, RequestKnows, Passed
  <2>3. p \in {"expire", "rejected", "ok", "catchup", "reuse"}
    BY DEF OnPass, OnMiss
  <2>4. p = "reuse" => ~InUse(tok[r])
    BY DEF OnPass, OnMiss, InUse
  <2> HIDE DEF p
  <2> QED BY <2>1, <2>2, <2>3, <2>4, MoveKeeps
<1>5. CASE ProbeMember(r)
  <2> DEFINE p == IF IsMember(tok[r].jti, tok[r].sid) /\ Live(tok[r].sid)
                  THEN OnPass(r, "rotate") ELSE "rejected"
  <2>1. pc[r] = "member" /\ pc' = [pc EXCEPT ![r] = p] /\ ReadOnly(r)
        /\ UNCHANGED <<found, reply, late>>
    BY <1>5 DEF ProbeMember, Goto
  <2>2. ~late[r]
    BY <2>1, Facts DEF Settled, RequestKnows, Passed
  <2>3. p \in {"expire", "rejected", "ok", "rotate"}
    BY DEF OnPass
  <2> HIDE DEF p
  <2> QED BY <2>1, <2>2, <2>3, MoveKeeps
<1>6. CASE RotateRefused(r)
  <2>1. PICK p \in {"regrace", "rejected"} :
           /\ pc[r] = "rotate" /\ pc' = [pc EXCEPT ![r] = p] /\ ReadOnly(r)
           /\ UNCHANGED <<found, reply, late>>
    BY <1>6 DEF RotateRefused, Goto
  <2>2. ~late[r]
    BY <2>1, Facts DEF Settled, RequestKnows, Passed
  <2> QED BY <2>1, <2>2, MoveKeeps
<1>7. CASE ReprobeGrace(r)
  <2> DEFINE f == IF GraceRow(r) THEN family[tok[r].sid].head ELSE None
  <2>1. pc[r] = "regrace" /\ pc' = [pc EXCEPT ![r] = "refamily"] /\ ReadOnly(r)
        /\ found' = [found EXCEPT ![r] = f] /\ UNCHANGED <<reply, late>>
    BY <1>7 DEF ReprobeGrace, Goto
  <2>2. f \in Jtis \cup {None}
    BY <2>1, Facts DEF GraceRow, Live, Exists, SessionInv, TypeOK, Family
  <2>3. ~late[r]
    BY <2>1, Facts DEF Settled, RequestKnows, Passed
  <2> HIDE DEF f
  <2> QED BY <2>1, <2>2, <2>3, Facts, ReadKeeps
<1>8. CASE ReprobeFamily(r)
  <2> DEFINE p == IF found[r] # None /\ Live(tok[r].sid) THEN "catchup" ELSE "rejected"
  <2>1. pc[r] = "refamily" /\ pc' = [pc EXCEPT ![r] = p] /\ ReadOnly(r)
        /\ UNCHANGED <<found, reply, late>>
    BY <1>8 DEF ReprobeFamily, Goto
  <2>2. ~late[r]
    BY <2>1, Facts DEF Settled, RequestKnows, Passed
  <2>3. p \in {"catchup", "rejected"} /\ (p = "catchup" => found[r] # None)
    OBVIOUS
  <2> HIDE DEF p
  <2> QED BY <2>1, <2>2, <2>3, MoveKeeps
<1>9. CASE CatchUp(r)
  <2>1. PICK p \in {"catchmember", "rejected"} :
           /\ pc[r] = "catchup" /\ pc' = [pc EXCEPT ![r] = p] /\ ReadOnly(r)
           /\ UNCHANGED <<found, reply, late>>
    BY <1>9 DEF CatchUp, Goto
  <2>2. ~late[r] /\ found[r] # None
    BY <2>1, Facts DEF Settled, RequestKnows, Passed
  <2> QED BY <2>1, <2>2, MoveKeeps
<1>10. CASE CatchUpMember(r)
  <2> DEFINE good == IsMember(found[r], tok[r].sid) /\ Live(tok[r].sid)
             y == NewToken(found[r], tok[r].sid, tok[r].start)
  <2>1. pc[r] = "catchmember" /\ ReadOnly(r) /\ UNCHANGED <<found, late>>
    BY <1>10 DEF CatchUpMember
  <2>2. ~late[r] /\ found[r] # None /\ found[r] \in Jtis
    BY <2>1, Facts DEF Settled, RequestKnows, Passed
  <2>3. CASE good
    <3>1. pc' = [pc EXCEPT ![r] = "reply"] /\ reply' = [reply EXCEPT ![r] = y]
      BY <1>10, <2>3 DEF CatchUpMember, Goto
    <3>2. y \in Token
      BY <2>1, <2>2, Facts, TokenType DEF SessionInv
    <3>3. y # None
      BY <3>2, SessionsAssumption
    <3>4. y.sid = tok[r].sid /\ y.jti = found[r]
      BY DEF NewToken
    <3>5. Issued(y)
      <4>1. tok[r].sid \in used
        BY <2>1, Facts DEF Issued
      <4>2. found[r] <= minted
        BY <2>2, <2>3 DEF SessionInv, RowsAgree, IsMember
      <4> QED BY <3>4, <4>1, <4>2, <2>3 DEF Issued
    <3>6. /\ found' = [found EXCEPT ![r] = found[r]]
          /\ late' = [late EXCEPT ![r] = FALSE]
          /\ late[r] = FALSE
      BY <2>1, <2>2, Facts
    <3>7. "reply" \in Points /\ pc[r] # "idle"
      BY <2>1 DEF Points, Replying
    <3> HIDE DEF y
    <3> QED BY <2>1, <2>2, <3>1, <3>2, <3>3, <3>5, <3>6, <3>7, ReadKeeps
  <2>4. CASE ~good
    <3>1. pc' = [pc EXCEPT ![r] = "rejected"] /\ reply' = reply
      BY <1>10, <2>4 DEF CatchUpMember, Goto
    <3> QED BY <2>1, <3>1, MoveKeeps DEF Passed
  <2> QED BY <2>3, <2>4
<1>11. CASE Drop(r)
  <2>1. pc[r] # "idle" /\ pc' = [pc EXCEPT ![r] = "dropped"] /\ ReadOnly(r)
        /\ UNCHANGED <<found, reply, late>>
    BY <1>11 DEF Drop, Goto
  <2> QED BY <2>1, MoveKeeps DEF Passed
<1> QED BY <1>1, <1>2, <1>3, <1>4, <1>5, <1>6, <1>7, <1>8, <1>9, <1>10, <1>11

-----------------------------------------------------------------------------
(* The writing steps of a request. *)

\* A rotation, or its refusal, keeps the invariant: _rotate decides under the
\* lock of the family.
LEMMA RotateKeeps ==
    ASSUME SessionInv, NEW r \in Requests, RotateOk(r)
    PROVE  SessionInv'
<1>0. PICK s, j, n, y : /\ s = tok[r].sid /\ j = minted + 1
                        /\ n = family[s].rotations + 1
                        /\ y = NewToken(j, s, tok[r].start)
  OBVIOUS
<1>1. pc[r] = "rotate" /\ j \in Jtis /\ TypeOK
  BY <1>0 DEF RotateOk, SessionInv
<1>2. /\ tok[r] \in Token /\ s \in Sids /\ tok[r].jti \in Jtis /\ tok[r].start \in Times
      /\ Settled(r) /\ Issued(tok[r])
  BY <1>0, <1>1, Facts
<1>3. StoreGood
  BY <1>2, RotateGood DEF SessionInv
<1>4. y \in Token /\ y.jti = j /\ y.sid = s /\ y # None
  <2>1. y \in Token
    BY <1>0, <1>1, <1>2, TokenType
  <2> QED BY <2>1, <1>0, SessionsAssumption DEF NewToken
<1>5. /\ minted' = j /\ used' = used /\ now' = now
      /\ UNCHANGED <<cutoff, revoking, jar, kind, owner, tok, found, late>>
      /\ reply' = [reply EXCEPT ![r] = y] /\ pc' = [pc EXCEPT ![r] = "reply"]
      /\ parent' = [parent EXCEPT ![j] = tok[r].jti]
      /\ family' = [family EXCEPT ![s] =
                      [head |-> j, rotations |-> n, expires |-> now + TTL]]
      /\ member' = [k \in Jtis |->
                      IF k = j THEN [sid |-> s, seq |-> n, created |-> now]
                      ELSE IF IsMember(k, s) /\ member[k].seq <= n - KeepMembers
                      THEN None ELSE member[k]]
  BY <1>0 DEF RotateOk, Goto
<1>6. [head |-> j, rotations |-> n, expires |-> now + TTL] \in Family
      /\ [sid |-> s, seq |-> n, created |-> now] \in Member
  <2>1. family[s].rotations \in Nat
    BY <1>0, <1>2 DEF RotateOk, MayRotate, Live, Exists, SessionInv, TypeOK, Family
  <2>2. n \in Nat /\ now \in Times /\ now + TTL \in Nat
    BY <2>1, <1>0, <1>1, SessionsAssumption DEF TypeOK, Times
  <2> QED BY <1>1, <1>2, <2>2 DEF Family, Member
<1>7. TypeOK'
  <2>1. family' \in [Sids -> Family \cup {None}] /\ member' \in [Jtis -> Member \cup {None}]
    BY <1>1, <1>5, <1>6 DEF TypeOK
  <2>2. minted' \in 0 .. MaxJti /\ parent' \in [Jtis -> Jtis \cup {None}]
    BY <1>1, <1>2, <1>5 DEF TypeOK, Jtis
  <2>3. /\ pc' \in [Requests -> {"idle"} \cup Reading \cup Replying \cup Finished]
        /\ reply' \in [Requests -> Token \cup {None}]
    BY <1>1, <1>4, <1>5 DEF TypeOK, Replying
  <2> QED BY <1>1, <1>5, <2>1, <2>2, <2>3 DEF TypeOK
<1>8. pc'[r] = "reply" /\ reply'[r] = y
  BY <1>1, <1>5 DEF TypeOK
<1>9. Settled(r)'
  <2>1. ~late[r] /\ tok[r] # None /\ owner[r] # None
    BY <1>1, <1>2 DEF Settled, RequestKnows, Passed
  <2> QED BY <2>1, <1>4, <1>5, <1>8 DEF Settled, RequestKnows
<1>10. Issued(reply[r])'
  <2>1. s \in used
    BY <1>0, <1>2 DEF Issued
  <2>2. member'[j] = [sid |-> s, seq |-> n, created |-> now] /\ member'[j] # None
    BY <1>1, <1>5, <1>6, SessionsAssumption
  <2>3. j <= minted'
    BY <1>1, <1>5 DEF Jtis
  <2> QED BY <1>4, <1>5, <1>8, <2>1, <2>2, <2>3 DEF Issued, IsMember
<1> QED BY <1>1, <1>3, <1>5, <1>7, <1>9, <1>10, Assemble DEF TypeOK

\* Reuse detection leaves no live family behind: a token out of use is a member
\* past its grace, or was pruned, which only happens after KeepMembers rotations.
LEMMA DetectKeeps ==
    ASSUME SessionInv, NEW r \in Requests, DetectReuse(r)
    PROVE  SessionInv'
<1> DEFINE D == IF Verdict(r) = "reused" THEN {tok[r].sid} ELSE {}
<1>1. /\ pc[r] = "reuse" /\ DropFamilies(D) /\ pc' = [pc EXCEPT ![r] = "denied"]
      /\ UNCHANGED <<now, cutoff, revoking, jar, kind, owner, tok, found, reply, late>>
  BY DEF DetectReuse, Goto
<1>2. tok[r] \in Token /\ tok[r].sid \in Sids /\ Settled(r) /\ Issued(tok[r])
  BY <1>1, Facts
<1>3. StoreGood
  BY <1>1, DropGood DEF SessionInv
<1>4. Live(tok[r].sid) => Verdict(r) = "reused"
  <2> SUFFICES ASSUME Live(tok[r].sid) PROVE Verdict(r) = "reused"
    OBVIOUS
  <2>1. ~IsHead(tok[r].jti, tok[r].sid) /\ ~Graced(tok[r].jti, tok[r].sid)
    BY <1>1, <1>2 DEF Settled, InUse
  <2>2. family[tok[r].sid].head # tok[r].jti
    BY <2>1, <1>2 DEF Live, IsHead, SessionInv, RowsAgree
  <2>3. ~Unknown(r)
    BY <1>2 DEF Unknown, Issued, Live
  <2> QED BY <2>1, <2>2, <2>3 DEF Verdict
<1>5. ~Live(tok[r].sid)'
  <2>1. CASE Live(tok[r].sid)
    <3>1. D = {tok[r].sid}
      BY <1>4, <2>1
    <3>2. family'[tok[r].sid] = None
      BY <1>1, <1>2, <3>1 DEF DropFamilies, WithoutFamilies
    <3> QED BY <1>1, <3>2 DEF Live, Exists
  <2>2. CASE ~Live(tok[r].sid)
    <3>1. PICK t \in Token : t = tok[r] /\ t = tok'[r]
      BY <1>1, <1>2
    <3>2. ~Live(t.sid)'
      BY <1>2, <1>3, <2>2, <3>1 DEF StoreGood, TokensAge
    <3> QED BY <3>1, <3>2 DEF Live, Exists
  <2> QED BY <2>1, <2>2
<1> HIDE DEF D
<1>6. TypeOK'
  <2>1. family' \in [Sids -> Family \cup {None}] /\ member' \in [Jtis -> Member \cup {None}]
        /\ UNCHANGED <<used, minted, parent>>
    BY <1>1, WithoutType DEF SessionInv, DropFamilies
  <2> QED BY <1>1, <2>1 DEF SessionInv, TypeOK, Finished
<1>7. pc'[r] = "denied"
  BY <1>1 DEF SessionInv, TypeOK
<1>8. late[r] => ~InUse(tok[r])'
  BY <1>5 DEF InUse
<1>9. Settled(r)'
  BY <1>1, <1>2, <1>5, <1>7, <1>8 DEF Settled, RequestKnows, Passed
<1> QED BY <1>1, <1>3, <1>6, <1>9, Assemble DEF SessionInv, TypeOK

\* The answer of /refresh sets or clears the cookie.
LEMMA DeliverKeeps ==
    ASSUME SessionInv, NEW r \in Requests, Deliver(r)
    PROVE  SessionInv'
<1> DEFINE p == IF pc[r] = "reply" THEN "ok" ELSE "expired"
           v == IF pc[r] = "reply" THEN reply[r] ELSE None
<1>1. /\ pc[r] \in Replying /\ pc' = [pc EXCEPT ![r] = p]
      /\ jar' = [jar EXCEPT ![owner[r]] = v]
      /\ UNCHANGED <<now, cutoff, revoking, store, kind, owner, tok, found, reply, late>>
      /\ UNCHANGED <<used, family, member, minted, parent>>
  BY DEF Deliver, Goto, store
<1>2. /\ pc[r] # "idle" /\ tok[r] \in Token /\ owner[r] \in Clients /\ Settled(r)
      /\ reply[r] \in Token \cup {None} /\ (reply[r] # None => Issued(reply[r]))
      /\ TypeOK
  BY <1>1, Facts DEF Replying, SessionInv
<1>3. StoreGood
  BY <1>1, StutterGood DEF SessionInv
<1>4. TypeOK'
  <2>1. p \in Finished /\ v \in Token \cup {None}
    BY <1>2 DEF Finished
  <2> HIDE DEF p, v
  <2>2. jar' \in [Clients -> Token \cup {None}]
    BY <1>1, <1>2, <2>1 DEF TypeOK
  <2>3. pc' \in [Requests -> {"idle"} \cup Reading \cup Replying \cup Finished]
    BY <1>1, <1>2, <2>1 DEF TypeOK
  <2> QED BY <1>1, <1>2, <2>2, <2>3 DEF TypeOK
<1>5. pc'[r] = p
  BY <1>1, <1>2 DEF TypeOK
<1>6. Settled(r)'
  <2>1. InUse(tok[r])' <=> InUse(tok[r])
    BY <1>1 DEF InUse, Live, IsHead, IsMember, Graced, Exists
  <2> QED BY <1>1, <1>2, <1>5, <2>1 DEF Settled, RequestKnows, Passed, Replying
<1>7. ASSUME NEW c \in Clients, jar'[c] # None
      PROVE  jar'[c] = jar[c] \/ Issued(jar[c])'
  <2>1. CASE c = owner[r]
    <3>1. jar'[c] = reply[r] /\ Issued(reply[r])
      BY <1>1, <1>2, <1>7, <2>1 DEF TypeOK
    <3> QED BY <3>1, <1>1 DEF Issued, Exists, IsMember
  <2>2. CASE c # owner[r]
    BY <1>1, <1>2, <2>2 DEF TypeOK
  <2> QED BY <2>1, <2>2
<1> QED BY <1>1, <1>2, <1>3, <1>4, <1>6, <1>7, Assemble DEF TypeOK

\* A browser sends /refresh or /verify with the cookie it has.
LEMMA SendKeeps ==
    ASSUME SessionInv, NEW r \in Requests, NEW c \in Clients,
           NEW k \in {"refresh", "verify"}, Send(r, c, k)
    PROVE  SessionInv'
<1>1. /\ pc[r] = "idle" /\ jar[c] # None /\ pc' = [pc EXCEPT ![r] = "sent"]
      /\ kind' = [kind EXCEPT ![r] = k] /\ owner' = [owner EXCEPT ![r] = c]
      /\ tok' = [tok EXCEPT ![r] = jar[c]]
      /\ UNCHANGED <<now, cutoff, revoking, store, jar, found, reply, late>>
      /\ UNCHANGED <<used, family, member, minted, parent>>
  BY DEF Send, Goto, store
<1>2. TypeOK /\ jar[c] \in Token /\ Issued(jar[c]) /\ ~late[r]
  BY <1>1 DEF SessionInv, TypeOK, TokensIssued, RequestsKnow, RequestKnows, Passed
<1>3. StoreGood
  BY <1>1, StutterGood DEF SessionInv
<1>4. TypeOK'
  BY <1>1, <1>2 DEF TypeOK, Reading
<1>5. pc'[r] = "sent" /\ owner'[r] = c /\ tok'[r] = jar[c] /\ tok'[r] # None
  BY <1>1, <1>2 DEF TypeOK
<1>6. Settled(r)'
  <2>1. c # None
    BY SessionsAssumption
  <2> QED BY <1>1, <1>2, <1>5, <2>1 DEF Settled, RequestKnows
<1>7. Issued(tok[r])'
  BY <1>1, <1>2, <1>5 DEF Issued, Exists, IsMember
<1> QED BY <1>1, <1>2, <1>3, <1>4, <1>6, <1>7, Assemble DEF TypeOK

\* Every step of a request keeps the invariant.
LEMMA StepKeeps ==
    ASSUME SessionInv, NEW r \in Requests, Step(r)
    PROVE  SessionInv'
BY ReadStepsKeep, RotateKeeps, DetectKeeps, DeliverKeeps DEF Step

-----------------------------------------------------------------------------
(* The other steps. *)

\* A sign-in, with what it evicts and purges, keeps the invariant.
LEMMA LoginKeeps ==
    ASSUME SessionInv, NEW c \in Clients, NEW s \in Sids, NEW E, NEW L, NEW P,
           Login(c, s, E, L, P)
    PROVE  SessionInv'
<1>0. PICK j : j = minted + 1
  OBVIOUS
<1>1. /\ j \in Jtis /\ used' = used \cup {s} /\ minted' = j
      /\ family' = [WithoutFamilies(E \cup P) EXCEPT ![s] =
                      [head |-> j, rotations |-> 0, expires |-> now + TTL]]
      /\ member' = [WithoutMembers(E \cup P) EXCEPT ![j] =
                      [sid |-> s, seq |-> 0, created |-> now]]
      /\ jar' = [jar EXCEPT ![c] = NewToken(j, s, now)]
      /\ UNCHANGED <<now, cutoff, revoking, parent, request>>
  BY <1>0 DEF Login
<1>2. TypeOK /\ RowsAgree /\ ChainLinear /\ now \in Times
  BY DEF SessionInv, TypeOK
<1>3. StoreGood
  BY <1>2, LoginGood
<1>4. NewToken(j, s, now) \in Token
  BY <1>1, <1>2, TokenType
<1>5. /\ [head |-> j, rotations |-> 0, expires |-> now + TTL] \in Family
      /\ [sid |-> s, seq |-> 0, created |-> now] \in Member
  BY <1>1, <1>2, SessionsAssumption DEF Family, Member, Times
<1>6. /\ WithoutFamilies(E \cup P) \in [Sids -> Family \cup {None}]
      /\ WithoutMembers(E \cup P) \in [Jtis -> Member \cup {None}]
  BY <1>2, WithoutType
<1>7. TypeOK'
  <2>1. family' \in [Sids -> Family \cup {None}] /\ member' \in [Jtis -> Member \cup {None}]
    BY <1>1, <1>5, <1>6
  <2>2. jar' \in [Clients -> Token \cup {None}] /\ minted' \in 0 .. MaxJti
        /\ used' \subseteq Sids
    BY <1>1, <1>2, <1>4 DEF TypeOK, Jtis
  <2> QED BY <1>1, <1>2, <2>1, <2>2 DEF TypeOK, request
<1>8. ASSUME NEW d \in Clients, jar'[d] # None
      PROVE  jar'[d] = jar[d] \/ Issued(jar[d])'
  <2>1. CASE d = c
    <3>1. jar'[d].sid = s /\ jar'[d].jti = j
      BY <2>1, <1>1, <1>2 DEF TypeOK, NewToken
    <3>2. member'[j] = [sid |-> s, seq |-> 0, created |-> now] /\ member'[j] # None
      BY <1>1, <1>5, <1>6, SessionsAssumption
    <3>3. j <= minted'
      BY <1>1 DEF Jtis
    <3> QED BY <3>1, <3>2, <3>3, <1>1 DEF Issued, IsMember
  <2>2. CASE d # c
    BY <2>2, <1>1, <1>2 DEF TypeOK
  <2> QED BY <2>1, <2>2
<1> QED BY <1>1, <1>3, <1>7, <1>8, AssembleQuiet

\* Logout, revokes, the clock and credential changes.
LEMMA OthersKeep ==
    ASSUME SessionInv,
           \/ \E c \in Clients, D \in SUBSET Sids : Logout(c, D)
           \/ ChangeCredentials
           \/ \E D \in SUBSET Sids : RevokeUser(D)
           \/ \E c \in Clients : RevokeOthers(c)
           \/ Tick
    PROVE  SessionInv'
<1>1. TypeOK /\ RowsAgree /\ ChainLinear
  BY DEF SessionInv
<1>2. ASSUME NEW D, DropFamilies(D), now' = now,
             UNCHANGED request, cutoff' = cutoff, revoking' \in BOOLEAN,
             jar' \in [Clients -> Token \cup {None}],
             \A c \in Clients : jar'[c] = None \/ jar'[c] = jar[c]
      PROVE  SessionInv'
  <2>1. StoreGood
    BY <1>1, <1>2, DropGood
  <2>2. TypeOK'
    BY <1>1, <1>2, WithoutType DEF TypeOK, DropFamilies, request
  <2> QED BY <1>2, <2>1, <2>2, AssembleQuiet
<1>3. ASSUME NEW c \in Clients, NEW D \in SUBSET Sids, Logout(c, D) PROVE SessionInv'
  <2>1. DropFamilies(D) /\ jar' = [jar EXCEPT ![c] = None]
        /\ UNCHANGED <<now, cutoff, revoking, request>>
    BY <1>3 DEF Logout
  <2> QED BY <1>1, <1>2, <2>1 DEF TypeOK
<1>4. ASSUME ChangeCredentials PROVE SessionInv'
  <2>1. cutoff' = now + 1 /\ revoking' = TRUE /\ UNCHANGED <<now, store, jar, request>>
    BY <1>4 DEF ChangeCredentials
  <2>2. StoreGood
    BY <1>1, <2>1, StutterGood
  <2>3. TypeOK'
    BY <1>1, <2>1, SessionsAssumption DEF TypeOK, store, request, Times
  <2> QED BY <2>1, <2>2, <2>3, AssembleQuiet
<1>5. ASSUME NEW D \in SUBSET Sids, RevokeUser(D) PROVE SessionInv'
  <2>1. DropFamilies(D) /\ revoking' = FALSE /\ UNCHANGED <<now, cutoff, jar, request>>
    BY <1>5 DEF RevokeUser
  <2> QED BY <1>1, <1>2, <2>1 DEF TypeOK
<1>6. ASSUME NEW c \in Clients, RevokeOthers(c) PROVE SessionInv'
  <2>1. PICK D : DropFamilies(D) /\ UNCHANGED <<now, cutoff, revoking, jar, request>>
    BY <1>6 DEF RevokeOthers
  <2> QED BY <1>1, <1>2, <2>1 DEF TypeOK
<1>7. ASSUME Tick PROVE SessionInv'
  <2>1. now < MaxTime /\ now' = now + 1 /\ UNCHANGED <<cutoff, revoking, store, jar, request>>
    BY <1>7 DEF Tick
  <2>2. StoreGood
    BY <1>1, <1>7, TickGood
  <2>3. TypeOK'
    BY <1>1, <2>1, SessionsAssumption DEF TypeOK, store, request, Times
  <2> QED BY <2>1, <2>2, <2>3, AssembleQuiet
<1> QED BY <1>3, <1>4, <1>5, <1>6, <1>7

-----------------------------------------------------------------------------
(* The theorems. *)

\* An empty store satisfies the invariant.
LEMMA InitHolds == Init => SessionInv
<1> SUFFICES ASSUME Init PROVE SessionInv
  OBVIOUS
<1>1. TypeOK
  <2>1. now \in Times /\ cutoff \in 0 .. MaxTime + 1 /\ minted \in 0 .. MaxJti
    BY SessionsAssumption DEF Init, Times
  <2>2. /\ revoking \in BOOLEAN
        /\ late \in [Requests -> BOOLEAN]
    BY Zenon DEF Init
  <2>3. /\ used \subseteq Sids
        /\ family \in [Sids -> Family \cup {None}]
        /\ member \in [Jtis -> Member \cup {None}]
        /\ parent \in [Jtis -> Jtis \cup {None}]
        /\ jar \in [Clients -> Token \cup {None}]
    BY DEF Init
  <2>4. /\ pc \in [Requests -> {"idle"} \cup Reading \cup Replying \cup Finished]
        /\ kind \in [Requests -> {"refresh", "verify"}]
        /\ owner \in [Requests -> Clients \cup {None}]
        /\ tok \in [Requests -> Token \cup {None}]
        /\ found \in [Requests -> Jtis \cup {None}]
        /\ reply \in [Requests -> Token \cup {None}]
    BY DEF Init
  <2> QED BY <2>1, <2>2, <2>3, <2>4 DEF TypeOK
<1>2. RowsAgree /\ ChainLinear /\ TokensIssued
  BY DEF Init, RowsAgree, ChainLinear, TokensIssued, Exists, IsMember
<1>3. RequestsKnow /\ InUseNotDenied /\ DeniedEndsFamily
  BY DEF Init, RequestsKnow, RequestKnows, InUseNotDenied, DeniedEndsFamily, Passed
<1> QED BY <1>1, <1>2, <1>3 DEF SessionInv

\* The invariant is inductive: every step of the store or of a request keeps it.
LEMMA NextKeeps == SessionInv /\ [Next]_vars => SessionInv'
<1> SUFFICES ASSUME SessionInv, [Next]_vars PROVE SessionInv'
  OBVIOUS
<1>1. CASE UNCHANGED vars
  BY <1>1 DEF vars, store, request, SessionInv, TypeOK, RowsAgree, ChainLinear, TokensIssued,
       Issued, RequestsKnow, RequestKnows, InUseNotDenied, DeniedEndsFamily, InUse, LiveHead,
       Live, IsHead, IsMember, Graced, Exists
<1>2. CASE Next
  BY <1>2, LoginKeeps, OthersKeep, SendKeeps, StepKeeps DEF Next
<1> QED BY <1>1, <1>2

\* The session store and the requests on it keep the inductive invariant.
THEOREM SessionInvHolds == Spec => []SessionInv
<1>1. Init => SessionInv
  BY InitHolds
<1>2. SessionInv /\ [Next]_vars => SessionInv'
  BY NextKeeps
<1> QED BY <1>1, <1>2, PTL DEF Spec

\* However many refreshes race, a session family is one chain: its head is its
\* last member and each member was rotated from the one before (_rotate).
THEOREM ChainCorrect == Spec => [](TypeOK /\ ChainLinear)
<1>1. SessionInv => TypeOK /\ ChainLinear
  BY DEF SessionInv
<1> QED BY <1>1, SessionInvHolds, PTL

\* /refresh and /verify never answer a token that was out of use when the
\* request began, whatever rotations, logouts and revokes happen meanwhile.
THEOREM LateCorrect == Spec => []NoLateAnswer
<1>1. SessionInv => NoLateAnswer
  BY DEF SessionInv, RequestsKnow, RequestKnows, Passed, NoLateAnswer
<1> QED BY <1>1, SessionInvHolds, PTL

\* _detect_reuse_and_revoke is only reached by tokens out of use, and leaves
\* their family dead for good, although members are pruned.
THEOREM ReuseCorrect == Spec => [](InUseNotDenied /\ DeniedEndsFamily)
<1>1. SessionInv => InUseNotDenied /\ DeniedEndsFamily
  BY DEF SessionInv
<1> QED BY <1>1, SessionInvHolds, PTL

\* No interleaving of tabs makes /refresh treat a token in use as a stolen one,
\* and the store and the requests keep their types.
THEOREM SoundCorrect == Spec => []SessionsSound
<1>1. SessionInv => SessionsSound
  BY DEF SessionInv, SessionsSound
<1> QED BY <1>1, SessionInvHolds, PTL

=============================================================================
