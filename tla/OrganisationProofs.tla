------------------------- MODULE OrganisationProofs -------------------------
(* What the members of an organisation keep, for any number of requests: one  *)
(* part of the specification at a time, as the steps of the others leave its  *)
(* variables alone.                                                           *)
EXTENDS MCOrganisation, SumTheorems, SequenceTheorems, TLAPS

-----------------------------------------------------------------------------
(* Reset: the one that is at work holds the lock, under a token nobody else   *)
(* has, and the tables it is past are empty unless it was disturbed.          *)

Places == 1 .. 12
\* The tables a reset is past when it is at place k.
Past(k) == {R!Order[i] : i \in {j \in Places : j < k}}

LEMMA OrderIs ==
    /\ R!Order \in [Places -> R!Tables] /\ Len(R!Order) = 12
    /\ R!WipeOrder = R!Order
    /\ \A k \in Places : R!Order[k] = "categories" <=> k = 11
  BY DEF R!Order, R!WipeOrder, R!Tables, Places

LEMMA NamesAre ==
    \A u \in R!Tables :
        /\ "staged" \notin R!Names[u] /\ "transactions" \notin R!Names[u]
        /\ "plan_items" \notin R!Names[u] /\ "recurring" \notin R!Names[u]
        /\ "plans" \notin R!Names[u] /\ "batches" \notin R!Names[u]
        /\ "rules" \notin R!Names[u] /\ "tags" \notin R!Names[u]
        /\ "periods" \in R!Names[u] => u = "plans"
        /\ "accounts" \in R!Names[u] => u \in {"transactions", "recurring", "batches"}
        /\ "account_types" \in R!Names[u] => u = "accounts"
        /\ "categories" \in R!Names[u] => u \in {"transactions", "recurring", "plan_items", "rules"}
  BY DEF R!Names, R!Tables

\* Whatever names a table is wiped before it.
LEMMA NamersFirst ==
    ASSUME NEW k \in Places, NEW u \in R!Tables, R!Order[k] \in R!Names[u]
    PROVE  u \in Past(k)
<1>1. /\ R!Order[2] = "transactions" /\ R!Order[3] = "plan_items" /\ R!Order[4] = "recurring"
      /\ R!Order[5] = "plans" /\ R!Order[6] = "periods" /\ R!Order[7] = "batches" /\ R!Order[8] = "accounts"
      /\ R!Order[9] = "account_types" /\ R!Order[10] = "rules" /\ R!Order[11] = "categories"
      /\ R!Order[1] = "staged" /\ R!Order[12] = "tags"
  BY DEF R!Order
<1>2. k \in {6, 8, 9, 11}
  BY <1>1, NamesAre DEF Places
<1>3. CASE k = 6
  BY <1>1, <1>3, NamesAre DEF Past, Places
<1>4. CASE k = 8
  BY <1>1, <1>4, NamesAre DEF Past, Places
<1>5. CASE k = 9
  BY <1>1, <1>5, NamesAre DEF Past, Places
<1>6. CASE k = 11
  BY <1>1, <1>6, NamesAre DEF Past, Places
<1>7. QED
  BY <1>2, <1>3, <1>4, <1>5, <1>6

LEMMA AllPast == R!Tables \subseteq Past(13) /\ R!WipedSoFar(12) = Past(13) /\ Past(1) = {}
<1>1. /\ R!Order[2] = "transactions" /\ R!Order[3] = "plan_items" /\ R!Order[4] = "recurring"
      /\ R!Order[5] = "plans" /\ R!Order[6] = "periods" /\ R!Order[7] = "batches" /\ R!Order[8] = "accounts"
      /\ R!Order[9] = "account_types" /\ R!Order[10] = "rules" /\ R!Order[11] = "categories"
      /\ R!Order[1] = "staged" /\ R!Order[12] = "tags"
  BY DEF R!Order
<1>2. R!Tables \subseteq Past(13)
  BY <1>1 DEF Past, Places, R!Tables
<1>3. R!WipedSoFar(12) = Past(13)
  BY OrderIs DEF Past, Places, R!WipedSoFar
<1>4. Past(1) = {}
  BY DEF Past, Places
<1>5. QED
  BY <1>2, <1>3, <1>4

\* The deletion of an organisation is not refused.
LEMMA WipeGoesThrough ==
    ASSUME tables \subseteq R!Tables
    PROVE  ~ R!WipeRefused
<1>1. SUFFICES ASSUME NEW k \in Places, NEW u \in tables \ R!WipedSoFar(k), R!Order[k] \in R!Names[u]
               PROVE  FALSE
  <2>1. DOMAIN R!WipeOrder = Places
    BY OrderIs
  <2>2. QED
    BY <2>1, OrderIs DEF R!WipeRefused
<1>2. u \in Past(k)
  BY <1>1, NamersFirst
<1>3. Past(k) \subseteq R!WipedSoFar(k)
  BY OrderIs DEF Past, Places, R!WipedSoFar
<1>4. QED
  BY <1>1, <1>2, <1>3

-----------------------------------------------------------------------------

Phases == {"out", "wiping", "seeding", "releasing", "failed"}
ResetRow == [pc : Phases, token : R!Tokens \cup {0}, at : 1 .. 13, before : SUBSET R!Tables,
             disturbed : BOOLEAN, seen : Nat]
ResetTypes ==
    /\ tables \subseteq R!Tables /\ seeds \in {0, 1} /\ gone \in BOOLEAN
    /\ lock \in [token : R!Tokens \cup {0}, age : 0 .. (Ttl + 1)]
    /\ reset \in [Requests -> ResetRow]
    /\ gone => tables = {} /\ lock = R!NoLock

TokensApart ==
    /\ \A o \in Requests : reset[o].pc = "out" <=> reset[o].token = 0
    /\ \A o, p \in Requests : reset[o].token = reset[p].token /\ reset[o].token # 0 => o = p
AtWork(o) == reset[o].pc \in {"wiping", "seeding"}
HoldsLock(o) == AtWork(o) /\ ~ gone => lock.token = reset[o].token /\ lock.age <= Ttl
SoFar(o) ==
    /\ reset[o].pc = "wiping" =>
        /\ reset[o].before \cap Past(reset[o].at) = {}
        /\ ~ gone /\ reset[o].at > 11 => seeds = 0
        /\ ~ gone /\ ~ reset[o].disturbed => tables \cap Past(reset[o].at) = {}
    /\ reset[o].pc \in {"seeding", "releasing"} => reset[o].before = {}
    /\ reset[o].pc = "seeding" /\ ~ gone /\ reset[o].seen = 0 => seeds = 0
    /\ reset[o].pc = "failed" => reset[o].disturbed \/ gone

ResetInv == ResetTypes /\ TokensApart /\ \A o \in Requests : HoldsLock(o) /\ SoFar(o)

LEMMA ResetSizes ==
    /\ IsFiniteSet(Requests) /\ Ttl \in Nat /\ Cardinality(Requests) \in Nat
    /\ R!Tokens = 1 .. (Cardinality(Requests) + 1) /\ 0 \notin R!Tokens
<1>1. IsFiniteSet(Requests) /\ Ttl \in Nat
  BY OrganisationAssumption DEF R!ResetAssumption, R!IsFiniteSet, IsFiniteSet
<1>2. Cardinality(Requests) \in Nat
  BY <1>1, FS_CardinalityType
<1>3. R!Cardinality(Requests) = Cardinality(Requests)
  BY DEF R!Cardinality, Cardinality
<1>4. QED
  BY <1>1, <1>2, <1>3 DEF R!Tokens

\* One reset is at work at a time, and no other may start.
LEMMA OneAtWork ==
    ASSUME ResetInv, ~ gone, NEW o \in Requests, AtWork(o)
    PROVE  /\ ~ R!Acquirable
           /\ lock.token = reset[o].token /\ reset[o].token # 0
           /\ \A p \in Requests \ {o} : ~ AtWork(p) /\ reset[p].token # reset[o].token
<1>1. lock.token = reset[o].token /\ lock.age <= Ttl
  BY DEF ResetInv, HoldsLock
<1>2. reset[o].token # 0
  BY DEF ResetInv, TokensApart, AtWork
<1>3. lock.age \in Nat
  BY DEF ResetInv, ResetTypes
<1>4. ~ R!Acquirable
  BY <1>1, <1>2, <1>3, ResetSizes DEF R!Acquirable, R!NoLock
<1>5. ASSUME NEW p \in Requests \ {o}
      PROVE  ~ AtWork(p) /\ reset[p].token # reset[o].token
  BY <1>1, <1>2 DEF ResetInv, TokensApart, HoldsLock
<1>6. QED
  BY <1>1, <1>2, <1>4, <1>5

\* A token that is not in use.
LEMMA FreshToken ==
    ASSUME ResetInv, NEW o \in Requests, reset[o].pc = "out"
    PROVE  \E k \in R!Tokens : k # lock.token /\ \A p \in Requests : reset[p].token # k
<1> DEFINE held == {reset[p].token : p \in Requests \ {o}}
           taken == held \cup {lock.token}
<1>1. IsFiniteSet(Requests \ {o}) /\ Cardinality(Requests \ {o}) = Cardinality(Requests) - 1
  BY ResetSizes, FS_RemoveElement
<1>2. IsFiniteSet(held) /\ Cardinality(held) <= Cardinality(Requests \ {o})
  <2> DEFINE tokenOf == [p \in Requests \ {o} |-> reset[p].token]
  <2>1. held = {tokenOf[p] : p \in Requests \ {o}}
    OBVIOUS
  <2>2. tokenOf \in Surjection(Requests \ {o}, held)
    BY DEF Surjection
  <2> HIDE DEF held, tokenOf
  <2>3. QED
    BY <1>1, <2>2, FS_Surjection
<1>3. /\ IsFiniteSet(taken)
      /\ Cardinality(taken) = IF lock.token \in held THEN Cardinality(held) ELSE Cardinality(held) + 1
  BY <1>2, FS_AddElement
<1>4. Cardinality(taken) <= Cardinality(Requests)
  BY <1>1, <1>2, <1>3, ResetSizes, FS_CardinalityType
<1>5. IsFiniteSet(R!Tokens) /\ Cardinality(R!Tokens) = Cardinality(Requests) + 1
  BY ResetSizes, FS_Interval
<1> HIDE DEF taken
<1>6. ~ (R!Tokens \subseteq taken)
  <2>1. ASSUME R!Tokens \subseteq taken
        PROVE  FALSE
    <3>1. Cardinality(R!Tokens) <= Cardinality(taken)
      BY <1>3, <2>1, FS_Subset
    <3>2. QED
      BY <1>3, <1>4, <1>5, <3>1, ResetSizes, FS_CardinalityType
  <2>2. QED
    BY <2>1
<1>7. PICK k \in R!Tokens : k \notin taken
  BY <1>6
<1>8. k # 0 /\ reset[o].token = 0
  BY ResetSizes DEF ResetInv, TokensApart
<1>9. QED
  BY <1>7, <1>8 DEF taken

LEMMA ResetMoved ==
    ASSUME ResetInv, NEW o \in Requests, NEW q \in ResetRow, reset' = [reset EXCEPT ![o] = q]
    PROVE  /\ reset' \in [Requests -> ResetRow] /\ reset'[o] = q
           /\ \A p \in Requests \ {o} : reset'[p] = reset[p]
  BY DEF ResetInv, ResetTypes

LEMMA RowOf ==
    ASSUME ResetInv, NEW o \in Requests
    PROVE  /\ reset[o] \in ResetRow /\ HoldsLock(o) /\ SoFar(o)
  BY DEF ResetInv, ResetTypes

LEMMA OutRow == R!Out \in ResetRow /\ R!Out.pc = "out" /\ R!Out.token = 0
  BY DEF R!Out, ResetRow, Phases

LEMMA AcquireKeeps ==
    ASSUME ResetInv, NEW o \in Requests, R!Acquire(o)
    PROVE  ResetInv'
<1>1. PICK k \in R!Tokens :
          /\ k # lock.token /\ \A p \in Requests : reset[p].token # k
          /\ lock' = [token |-> k, age |-> 0]
          /\ reset' = [reset EXCEPT ![o] = [R!Out EXCEPT !.pc = "wiping", !.token = k, !.before = tables]]
  BY FreshToken DEF R!Acquire
<1>2. ~ gone /\ R!Acquirable /\ UNCHANGED <<tables, seeds, gone>> /\ reset[o].pc = "out"
  BY DEF R!Acquire
<1>3. PICK q : q = [R!Out EXCEPT !.pc = "wiping", !.token = k, !.before = tables]
  OBVIOUS
<1>4. q \in ResetRow /\ q.pc = "wiping" /\ q.token = k /\ q.before = tables /\ q.at = 1
  <2>1. q = [pc |-> "wiping", token |-> k, at |-> 1, before |-> tables, disturbed |-> FALSE,
             seen |-> 0]
    BY <1>3 DEF R!Out
  <2>2. tables \subseteq R!Tables
    BY DEF ResetInv, ResetTypes
  <2>3. QED
    BY <2>1, <2>2 DEF ResetRow, Phases
<1>5. /\ reset' \in [Requests -> ResetRow] /\ reset'[o] = q
      /\ \A p \in Requests \ {o} : reset'[p] = reset[p]
  BY <1>1, <1>3, <1>4, ResetMoved
<1>6. \A p \in Requests : ~ AtWork(p)
  BY <1>2, OneAtWork
<1>7. ResetTypes'
  BY <1>1, <1>2, <1>5, ResetSizes DEF ResetInv, ResetTypes
<1>8. TokensApart'
  BY <1>1, <1>4, <1>5, ResetSizes DEF ResetInv, TokensApart
<1>9. ASSUME NEW p \in Requests
      PROVE  HoldsLock(p)' /\ SoFar(p)'
  <2>1. CASE p = o
    <3>1. HoldsLock(o)'
      BY <1>1, <1>4, <1>5, ResetSizes DEF HoldsLock
    <3>2. SoFar(o)'
      BY <1>4, <1>5, AllPast DEF SoFar
    <3>3. QED
      BY <2>1, <3>1, <3>2
  <2>2. CASE p # o
    <3>1. reset'[p] = reset[p] /\ ~ AtWork(p) /\ SoFar(p)
      BY <1>5, <1>6, <2>2, RowOf
    <3>2. QED
      BY <1>2, <3>1 DEF AtWork, HoldsLock, SoFar
  <2>3. QED
    BY <2>1, <2>2
<1>10. QED
  BY <1>7, <1>8, <1>9 DEF ResetInv

\* Nothing is wiped while something names it, unless it was written meanwhile.
LEMMA WipeTableKeeps ==
    ASSUME ResetInv, NEW o \in Requests, R!WipeTable(o)
    PROVE  ResetInv'
<1>1. PICK k, t : k = reset[o].at /\ t = R!Order[k]
  OBVIOUS
<1>2. reset[o] \in ResetRow /\ HoldsLock(o) /\ SoFar(o)
  BY RowOf
<1>3. reset[o].pc = "wiping" /\ k \in Places /\ UNCHANGED <<lock, gone>>
  BY <1>1, <1>2, OrderIs DEF R!WipeTable, ResetRow, Places
<1>4. AtWork(o) /\ t \in R!Tables
  BY <1>1, <1>3, OrderIs DEF AtWork
<1>5. CASE R!Held(t) /\ t \in tables
  <2>1. PICK q : q = [reset[o] EXCEPT !.pc = "failed"]
    OBVIOUS
  <2>2. reset' = [reset EXCEPT ![o] = q] /\ UNCHANGED <<tables, seeds>>
    BY <1>1, <1>5, <2>1 DEF R!WipeTable
  <2>3. /\ q \in ResetRow /\ q.pc = "failed" /\ q.token = reset[o].token
        /\ q.disturbed = reset[o].disturbed
    BY <1>2, <2>1 DEF ResetRow, Phases
  <2>4. /\ reset' \in [Requests -> ResetRow] /\ reset'[o] = q
        /\ \A p \in Requests \ {o} : reset'[p] = reset[p]
    BY <2>2, <2>3, ResetMoved
  <2>5. reset[o].disturbed \/ gone
    <3>1. PICK u \in tables : t \in R!Names[u]
      BY <1>5 DEF R!Held
    <3>2. u \in R!Tables
      BY <3>1 DEF ResetInv, ResetTypes
    <3>3. u \in Past(k)
      BY <1>1, <1>3, <3>1, <3>2, NamersFirst
    <3>4. QED
      BY <1>1, <1>2, <1>3, <3>1, <3>3 DEF SoFar
  <2>6. ResetTypes'
    BY <1>3, <2>2, <2>4 DEF ResetInv, ResetTypes
  <2>7. TokensApart'
    BY <1>3, <2>3, <2>4 DEF ResetInv, TokensApart
  <2>8. ASSUME NEW p \in Requests
        PROVE  HoldsLock(p)' /\ SoFar(p)'
    <3>1. HoldsLock(p) /\ SoFar(p)
      BY RowOf
    <3>2. CASE p = o
      BY <1>3, <2>3, <2>4, <2>5, <3>2 DEF AtWork, HoldsLock, SoFar
    <3>3. CASE p # o
      BY <1>3, <2>2, <2>4, <3>1, <3>3 DEF AtWork, HoldsLock, SoFar
    <3>4. QED
      BY <3>2, <3>3
  <2>9. QED
    BY <2>6, <2>7, <2>8 DEF ResetInv
<1>6. CASE ~ (R!Held(t) /\ t \in tables)
  <2>1. /\ tables' = tables \ {t} /\ seeds' = IF t = "categories" THEN 0 ELSE seeds
        /\ reset' = [R!Wiped(t) EXCEPT ![o].at = @ + 1]
    BY <1>1, <1>6 DEF R!WipeTable
  <2>2. R!Wiped(t) \in [Requests -> ResetRow]
    BY DEF R!Wiped, ResetInv, ResetTypes, ResetRow
  <2>3. \A p \in Requests : R!Wiped(t)[p] = [reset[p] EXCEPT !.before = reset[p].before \ {t}]
    BY DEF R!Wiped
  <2>4. /\ reset' \in [Requests -> ResetRow]
        /\ \A p \in Requests :
              /\ reset'[p].pc = reset[p].pc /\ reset'[p].token = reset[p].token
              /\ reset'[p].before = reset[p].before \ {t} /\ reset'[p].seen = reset[p].seen
              /\ reset'[p].disturbed = reset[p].disturbed
              /\ reset'[p].at = IF p = o THEN reset[p].at + 1 ELSE reset[p].at
    <3>1. PICK f : f = R!Wiped(t)
      OBVIOUS
    <3>2. f \in [Requests -> ResetRow] /\ reset' = [f EXCEPT ![o].at = f[o].at + 1]
      BY <2>1, <2>2, <3>1
    <3>3. \A p \in Requests :
              /\ f[p].pc = reset[p].pc /\ f[p].token = reset[p].token
              /\ f[p].before = reset[p].before \ {t} /\ f[p].seen = reset[p].seen
              /\ f[p].disturbed = reset[p].disturbed /\ f[p].at = reset[p].at
      <4>1. ASSUME NEW p \in Requests
            PROVE  /\ f[p].pc = reset[p].pc /\ f[p].token = reset[p].token
                   /\ f[p].before = reset[p].before \ {t} /\ f[p].seen = reset[p].seen
                   /\ f[p].disturbed = reset[p].disturbed /\ f[p].at = reset[p].at
        <5>1. PICK q : q = reset[p]
          OBVIOUS
        <5>2. q \in ResetRow /\ f[p] = [q EXCEPT !.before = q.before \ {t}]
          BY <2>3, <3>1, <5>1, RowOf
        <5>3. QED
          BY <5>1, <5>2 DEF ResetRow
      <4>2. QED
        BY <4>1
    <3>4. f[o].at + 1 \in 1 .. 13
      BY <1>1, <1>3, <3>3 DEF Places
    <3>5. QED
      BY <3>2, <3>3, <3>4 DEF ResetRow
  <2>5. /\ Past(k + 1) = Past(k) \cup {t} /\ (k > 10 /\ k + 1 > 11 => k = 11 \/ k > 11)
        /\ (k = 11 <=> t = "categories")
    BY <1>1, <1>3, OrderIs DEF Past, Places
  <2>6. ResetTypes'
    BY <1>3, <2>1, <2>4 DEF ResetInv, ResetTypes
  <2>7. TokensApart'
    BY <2>4 DEF ResetInv, TokensApart
  <2>8. ASSUME NEW p \in Requests
        PROVE  HoldsLock(p)' /\ SoFar(p)'
    <3>1. HoldsLock(p) /\ SoFar(p)
      BY RowOf
    <3>2. HoldsLock(p)'
      BY <1>3, <2>4, <3>1 DEF AtWork, HoldsLock
    <3>3. CASE p = o
      <4>1. reset'[o].at = k + 1 /\ reset'[o].pc = "wiping"
        BY <1>1, <1>3, <2>4
      <4>2. reset'[o].before \cap Past(k + 1) = {}
        BY <1>1, <1>2, <1>3, <2>4, <2>5 DEF SoFar
      <4>3. ~ gone /\ k + 1 > 11 => seeds' = 0
        <5>1. k \in Nat
          BY <1>3 DEF Places
        <5>2. QED
          BY <1>1, <1>2, <1>3, <2>1, <2>5, <5>1 DEF SoFar
      <4>4. ~ gone /\ ~ reset[o].disturbed => tables' \cap Past(k + 1) = {}
        BY <1>1, <1>2, <1>3, <2>1, <2>5 DEF SoFar
      <4>5. Past(reset[o].at)' = Past(k + 1)
        BY <4>1 DEF Past
      <4>6. SoFar(o)'
        BY <1>3, <2>4, <4>1, <4>2, <4>3, <4>4, <4>5 DEF SoFar
      <4>7. QED
        BY <3>2, <3>3, <4>6
    <3>4. CASE p # o
      <4>1. gone \/ ~ AtWork(p)
        BY <1>4, <3>4, OneAtWork
      <4>2. Past(reset[p].at)' = Past(reset[p].at)
        BY <2>4, <3>4 DEF Past
      <4>3. SoFar(p)'
        BY <1>3, <2>4, <3>1, <3>4, <4>1, <4>2 DEF AtWork, SoFar
      <4>4. QED
        BY <3>2, <4>3
    <3>5. QED
      BY <3>3, <3>4
  <2>9. QED
    BY <2>6, <2>7, <2>8 DEF ResetInv
<1>7. QED
  BY <1>5, <1>6

LEMMA ReadDefaultsKeeps ==
    ASSUME ResetInv, NEW o \in Requests, R!ReadDefaults(o)
    PROVE  ResetInv'
<1>1. PICK q : q = [reset[o] EXCEPT !.pc = "seeding", !.seen = seeds]
  OBVIOUS
<1>2. /\ reset[o].pc = "wiping" /\ reset[o].at > 12 /\ UNCHANGED <<tables, seeds, lock, gone>>
      /\ reset' = [reset EXCEPT ![o] = q]
  BY <1>1, OrderIs DEF R!ReadDefaults
<1>3. reset[o] \in ResetRow /\ HoldsLock(o) /\ SoFar(o)
  BY RowOf
<1>4. /\ q \in ResetRow /\ q.pc = "seeding" /\ q.token = reset[o].token
      /\ q.before = reset[o].before /\ q.seen = seeds
  <2>1. seeds \in Nat
    BY DEF ResetInv, ResetTypes
  <2>2. PICK k : k = seeds
    OBVIOUS
  <2>3. QED
    BY <1>1, <1>3, <2>1, <2>2 DEF ResetRow, Phases
<1>5. /\ reset' \in [Requests -> ResetRow] /\ reset'[o] = q
      /\ \A p \in Requests \ {o} : reset'[p] = reset[p]
  BY <1>2, <1>4, ResetMoved
<1>6. reset[o].at = 13
  BY <1>2, <1>3 DEF ResetRow
<1>7. q.before = {}
  BY <1>2, <1>3, <1>4, <1>6, AllPast DEF SoFar, ResetRow
<1>8. ResetTypes'
  BY <1>2, <1>5 DEF ResetInv, ResetTypes
<1>9. TokensApart'
  BY <1>2, <1>4, <1>5 DEF ResetInv, TokensApart
<1>10. ASSUME NEW p \in Requests
       PROVE  HoldsLock(p)' /\ SoFar(p)'
  <2>1. HoldsLock(p) /\ SoFar(p)
    BY RowOf
  <2>2. CASE p = o
    BY <1>2, <1>3, <1>4, <1>5, <1>6, <1>7, <2>2 DEF AtWork, HoldsLock, SoFar
  <2>3. CASE p # o
    BY <1>2, <1>5, <2>1, <2>3 DEF AtWork, HoldsLock, SoFar
  <2>4. QED
    BY <2>2, <2>3
<1>11. QED
  BY <1>8, <1>9, <1>10 DEF ResetInv

LEMMA SeedKeeps ==
    ASSUME ResetInv, NEW o \in Requests, R!Seed(o)
    PROVE  ResetInv'
<1>1. PICK q : q = [reset[o] EXCEPT !.pc = IF gone THEN "failed" ELSE "releasing"]
  OBVIOUS
<1>2. /\ reset[o].pc = "seeding" /\ UNCHANGED <<lock, gone>>
      /\ reset' = [reset EXCEPT ![o] = q]
      /\ gone => UNCHANGED <<tables, seeds>>
      /\ ~ gone => /\ seeds' = IF reset[o].seen = 0 THEN seeds + 1 ELSE seeds
                   /\ tables' = tables \cup {"account_types", "categories"}
  BY <1>1 DEF R!Seed, R!Missing
<1>3. reset[o] \in ResetRow /\ HoldsLock(o) /\ SoFar(o) /\ AtWork(o)
  BY <1>2, RowOf DEF AtWork
<1>4. /\ q \in ResetRow /\ q.token = reset[o].token /\ q.before = reset[o].before
      /\ q.pc = IF gone THEN "failed" ELSE "releasing"
  BY <1>1, <1>3 DEF ResetRow, Phases
<1>5. /\ reset' \in [Requests -> ResetRow] /\ reset'[o] = q
      /\ \A p \in Requests \ {o} : reset'[p] = reset[p]
  BY <1>2, <1>4, ResetMoved
<1>6. tables' \subseteq R!Tables /\ seeds' \in {0, 1}
  <2>1. tables \subseteq R!Tables /\ seeds \in {0, 1} /\ gone \in BOOLEAN
    BY DEF ResetInv, ResetTypes
  <2>2. tables' \subseteq R!Tables
    BY <1>2, <2>1 DEF R!Tables
  <2>3. seeds' \in {0, 1}
    <3>1. CASE gone
      BY <1>2, <2>1, <3>1
    <3>2. CASE ~ gone
      BY <1>2, <1>3, <2>1, <3>2 DEF SoFar
    <3>3. QED
      BY <3>1, <3>2
  <2>4. QED
    BY <2>2, <2>3
<1>7. ResetTypes'
  BY <1>2, <1>5, <1>6 DEF ResetInv, ResetTypes
<1>8. TokensApart'
  BY <1>2, <1>4, <1>5 DEF ResetInv, TokensApart
<1>9. ASSUME NEW p \in Requests
      PROVE  HoldsLock(p)' /\ SoFar(p)'
  <2>1. HoldsLock(p) /\ SoFar(p)
    BY RowOf
  <2>2. CASE p = o
    BY <1>2, <1>3, <1>4, <1>5, <2>2 DEF AtWork, HoldsLock, SoFar
  <2>3. CASE p # o
    <3>1. gone \/ ~ AtWork(p)
      BY <1>3, <2>3, OneAtWork
    <3>2. QED
      BY <1>2, <1>5, <2>1, <2>3, <3>1 DEF AtWork, HoldsLock, SoFar
  <2>4. QED
    BY <2>2, <2>3
<1>10. QED
  BY <1>7, <1>8, <1>9 DEF ResetInv

\* A request that leaves, and what it may release.
LEMMA LeavesReset ==
    ASSUME ResetInv, NEW o \in Requests, reset' = [reset EXCEPT ![o] = R!Out],
           UNCHANGED <<tables, seeds, gone>>,
           lock' = lock \/ (~ AtWork(o) /\ reset[o].pc # "out" /\ lock' = R!Released(reset[o].token))
    PROVE  ResetInv'
<1>1. /\ reset' \in [Requests -> ResetRow] /\ reset'[o] = R!Out
      /\ \A p \in Requests \ {o} : reset'[p] = reset[p]
  BY OutRow, ResetMoved
<1>2. lock' \in {lock, R!NoLock}
  BY DEF R!Released
<1>3. ResetTypes'
  BY <1>1, <1>2, ResetSizes DEF ResetInv, ResetTypes, R!NoLock
<1>4. TokensApart'
  BY <1>1, OutRow DEF ResetInv, TokensApart
<1>5. ASSUME NEW p \in Requests
      PROVE  HoldsLock(p)' /\ SoFar(p)'
  <2>1. HoldsLock(p) /\ SoFar(p)
    BY RowOf
  <2>2. CASE p = o
    BY <1>1, <2>2, OutRow DEF AtWork, HoldsLock, SoFar
  <2>3. CASE p # o
    <3>1. ASSUME AtWork(p), ~ gone
          PROVE  lock' = lock
      BY <2>3, <3>1, OneAtWork DEF R!Released
    <3>2. HoldsLock(p)'
      BY <1>1, <2>1, <2>3, <3>1 DEF AtWork, HoldsLock
    <3>3. SoFar(p)'
      BY <1>1, <2>1, <2>3 DEF SoFar
    <3>4. QED
      BY <3>2, <3>3
  <2>4. QED
    BY <2>2, <2>3
<1>6. QED
  BY <1>3, <1>4, <1>5 DEF ResetInv

LEMMA ReleaseKeeps ==
    ASSUME ResetInv, NEW o \in Requests, R!Release(o) \/ R!Crash(o)
    PROVE  ResetInv'
  BY LeavesReset DEF R!Release, R!Crash, AtWork

LEMMA WriteKeeps ==
    ASSUME ResetInv, NEW t \in R!Tables, R!Write(t)
    PROVE  ResetInv'
<1>1. /\ ~ gone /\ tables' = tables \cup {t} /\ UNCHANGED <<seeds, lock, gone>>
      /\ reset' = [p \in Requests |-> IF p \in R!Running THEN [reset[p] EXCEPT !.disturbed = TRUE]
                                      ELSE reset[p]]
  BY DEF R!Write
<1>2. \A p \in Requests : p \in R!Running <=> AtWork(p)
  BY DEF R!Running, AtWork
<1>3. /\ reset' \in [Requests -> ResetRow]
      /\ \A p \in Requests :
            /\ reset'[p].pc = reset[p].pc /\ reset'[p].token = reset[p].token
            /\ reset'[p].before = reset[p].before /\ reset'[p].seen = reset[p].seen
            /\ reset'[p].at = reset[p].at
            /\ AtWork(p) => reset'[p].disturbed
            /\ ~ AtWork(p) => reset'[p].disturbed = reset[p].disturbed
  BY <1>1, <1>2 DEF ResetInv, ResetTypes, ResetRow
<1>4. ResetTypes'
  BY <1>1, <1>3 DEF ResetInv, ResetTypes
<1>5. TokensApart'
  BY <1>3 DEF ResetInv, TokensApart
<1>6. ASSUME NEW p \in Requests
      PROVE  HoldsLock(p)' /\ SoFar(p)'
  <2>1. HoldsLock(p) /\ SoFar(p)
    BY RowOf
  <2>2. Past(reset[p].at)' = Past(reset[p].at)
    BY <1>3 DEF Past
  <2>3. HoldsLock(p)'
    BY <1>1, <1>3, <2>1 DEF AtWork, HoldsLock
  <2>4. SoFar(p)'
    BY <1>1, <1>3, <2>1, <2>2 DEF AtWork, SoFar
  <2>5. QED
    BY <2>3, <2>4
<1>7. QED
  BY <1>4, <1>5, <1>6 DEF ResetInv

LEMMA DeleteOrgKeeps ==
    ASSUME ResetInv, R!DeleteOrg
    PROVE  ResetInv'
<1>1. /\ gone' = TRUE /\ tables' = tables \ R!WipedSoFar(12) /\ seeds' = 0 /\ lock' = R!NoLock
      /\ reset' = [p \in Requests |-> [reset[p] EXCEPT !.before = {}]]
  BY OrderIs DEF R!DeleteOrg
<1>2. tables' = {}
  BY <1>1, AllPast DEF ResetInv, ResetTypes
<1>3. /\ reset' \in [Requests -> ResetRow]
      /\ \A p \in Requests :
            reset'[p].pc = reset[p].pc /\ reset'[p].token = reset[p].token /\ reset'[p].before = {}
  BY <1>1 DEF ResetInv, ResetTypes, ResetRow
<1>4. ResetTypes'
  BY <1>1, <1>2, <1>3, ResetSizes DEF ResetTypes, R!NoLock
<1>5. TokensApart'
  BY <1>3 DEF ResetInv, TokensApart
<1>6. \A p \in Requests : HoldsLock(p)' /\ SoFar(p)'
  BY <1>1, <1>3 DEF HoldsLock, SoFar
<1>7. QED
  BY <1>4, <1>5, <1>6 DEF ResetInv

LEMMA TickKeeps ==
    ASSUME ResetInv, R!Tick
    PROVE  ResetInv'
<1>1. /\ lock # R!NoLock /\ lock.age <= Ttl /\ lock' = [lock EXCEPT !.age = lock.age + 1]
      /\ lock.age = Ttl => \A o \in Requests : AtWork(o) => reset[o].token # lock.token
      /\ UNCHANGED <<tables, seeds, reset, gone>>
  BY DEF R!Tick, R!Running, AtWork
<1>2. lock' \in [token : R!Tokens \cup {0}, age : 0 .. (Ttl + 1)]
      /\ lock'.token = lock.token /\ lock'.age = lock.age + 1 /\ lock.age \in Nat
  BY <1>1, ResetSizes DEF ResetInv, ResetTypes
<1>3. ResetTypes'
  BY <1>1, <1>2 DEF ResetInv, ResetTypes
<1>4. TokensApart'
  BY <1>1 DEF ResetInv, TokensApart
<1>5. ASSUME NEW p \in Requests
      PROVE  HoldsLock(p)' /\ SoFar(p)'
  <2>1. HoldsLock(p) /\ SoFar(p)
    BY RowOf
  <2>2. HoldsLock(p)'
    BY <1>1, <1>2, <2>1, ResetSizes DEF AtWork, HoldsLock
  <2>3. SoFar(p)'
    BY <1>1, <2>1 DEF SoFar
  <2>4. QED
    BY <2>2, <2>3
<1>6. QED
  BY <1>3, <1>4, <1>5 DEF ResetInv

LEMMA ResetStepKeeps ==
    ASSUME ResetInv, R!ResetNext
    PROVE  ResetInv'
  BY AcquireKeeps, WipeTableKeeps, ReadDefaultsKeeps, SeedKeeps, ReleaseKeeps, WriteKeeps,
     DeleteOrgKeeps, TickKeeps DEF R!ResetNext

LEMMA ResetInitially ==
    ASSUME R!ResetInit
    PROVE  ResetInv
<1>1. ResetTypes
  <2>1. lock \in [token : R!Tokens \cup {0}, age : 0 .. (Ttl + 1)]
    BY ResetSizes DEF R!ResetInit, R!NoLock
  <2>2. reset \in [Requests -> ResetRow]
    BY OutRow DEF R!ResetInit
  <2>3. QED
    BY <2>1, <2>2 DEF R!ResetInit, ResetTypes
<1>2. TokensApart /\ \A o \in Requests : HoldsLock(o) /\ SoFar(o)
  BY OutRow DEF R!ResetInit, TokensApart, HoldsLock, SoFar, AtWork
<1>3. QED
  BY <1>1, <1>2 DEF ResetInv

LEMMA ResetHolds ==
    ASSUME ResetInv
    PROVE  R!ResetTypeOK /\ R!SeededOnce /\ R!FinishedIsClean /\ R!FailsOnlyDisturbed
<1>1. R!ResetTypeOK
  BY DEF ResetInv, ResetTypes, ResetRow, Phases, R!ResetTypeOK
<1>2. R!SeededOnce
  BY DEF ResetInv, ResetTypes, R!SeededOnce
<1>3. R!FinishedIsClean
  BY DEF ResetInv, SoFar, R!FinishedIsClean
<1>4. R!FailsOnlyDisturbed
  BY WipeGoesThrough DEF ResetInv, ResetTypes, SoFar, R!FailsOnlyDisturbed
<1>5. QED
  BY <1>1, <1>2, <1>3, <1>4

\* However resets, crashes, takeovers, writes and the deletion meet, the
\* defaults are seeded once, what was found is gone when a reset finishes, and
\* the order of the tables never makes one fail (org_data_service).
THEOREM ResetCorrect == Spec => []ResetSafe
<1> DEFINE Inv == focus = "reset" => ResetInv
<1>1. Init => Inv
  BY ResetInitially DEF Init
<1>2. Inv /\ [Next]_organisationVars => Inv'
  <2> SUFFICES ASSUME Inv, [Next]_organisationVars, (focus = "reset")'
               PROVE  ResetInv'
    OBVIOUS
  <2>1. CASE ResetStep
    BY <2>1, ResetStepKeeps DEF ResetStep
  <2>2. CASE UNCHANGED organisationVars
    <3>1. ResetInv /\ UNCHANGED resetVars
      BY <2>2 DEF organisationVars
    <3>2. ResetTypes' /\ TokensApart'
      BY <3>1 DEF ResetInv, ResetTypes, TokensApart, resetVars
    <3>3. \A o \in Requests : HoldsLock(o)' /\ SoFar(o)'
      BY <3>1 DEF ResetInv, HoldsLock, SoFar, AtWork, resetVars
    <3>4. QED
      BY <3>2, <3>3 DEF ResetInv
  <2>3. CASE CategoryStep \/ TagStep \/ VoteStep \/ AccountStep \/ SeriesStep
    BY <2>3 DEF CategoryStep, TagStep, VoteStep, AccountStep, SeriesStep, OthersThanSharing, S!Next
  <2>4. QED
    BY <2>1, <2>2, <2>3 DEF Next
<1>3. Inv => ResetSafe
  BY ResetHolds DEF ResetSafe
<1>4. QED
  BY <1>1, <1>2, <1>3, PTL DEF Spec

-----------------------------------------------------------------------------
(* Shared dictionaries: a request that is about to contribute holds the row   *)
(* of the setting, which is on, so nobody turns it off before it commits.     *)

ShareOps == {"none", "create", "chunk", "tagOff", "merchantOff"}
ShareRow == [pc : {"idle", "asks", "locked", "commits"}, org : Orgs \cup {"none"}, op : ShareOps,
             names : SUBSET (TagNames \cup Merchants), gives : BOOLEAN, entry : D!DictionaryRows,
             contrib : D!ContributorRows, count : [Merchants -> Nat]]
SharedTypes ==
    /\ share \in [Orgs -> [D!SharedKinds -> BOOLEAN]]
    /\ tags \in D!TagRows /\ entry \in D!DictionaryRows /\ contrib \in D!ContributorRows
    /\ votes \in [Merchants -> SUBSET Orgs] /\ voteCount \in [Merchants -> Nat]
    /\ ruled \in [Orgs -> SUBSET Merchants] /\ aged \subseteq Orgs
    /\ sreq \in [Requests -> ShareRow]

\* A request that gives holds the row of a setting that is on; one that turns a
\* setting off holds it too.
Asked(r) ==
    /\ sreq[r].pc # "idle" => sreq[r].org \in Orgs /\ sreq[r].op # "none"
    /\ sreq[r].op = "create" => sreq[r].names \subseteq TagNames
    /\ sreq[r].op = "chunk" => sreq[r].names \subseteq Merchants
    /\ sreq[r].op \in {"tagOff", "merchantOff"} => sreq[r].pc = "locked"
    /\ sreq[r].gives => sreq[r].pc = "locked" /\ share[sreq[r].org][D!KindOf(sreq[r].op)]

\* One request at a time holds the row of a setting.
OneHolder ==
    \A q, r \in Requests :
        q # r /\ sreq[q].pc = "locked" /\ sreq[r].pc = "locked" /\ sreq[q].org = sreq[r].org
          => D!KindOf(sreq[q].op) # D!KindOf(sreq[r].op)
HasRow == \A n \in TagNames : contrib[n] # {} => entry[n] # Absent
SharedInv ==
    /\ SharedTypes /\ OneHolder /\ \A r \in Requests : Asked(r)
    /\ HasRow /\ D!ContributionIsCurrent /\ D!VotesExact

LEMMA SharedSizes == IsFiniteSet(Orgs) /\ MinContributors \in Int /\ Absent \notin Int
  BY OrganisationAssumption DEF D!SharedAssumption, D!IsFiniteSet, IsFiniteSet

LEMMA SetSize ==
    ASSUME NEW G \in SUBSET Orgs
    PROVE  /\ IsFiniteSet(G) /\ Cardinality(G) \in Nat /\ D!Cardinality(G) = Cardinality(G)
           /\ \A o \in Orgs :
                 /\ o \notin G => Cardinality(G \cup {o}) = Cardinality(G) + 1
                 /\ o \in G => Cardinality(G \ {o}) = Cardinality(G) - 1 /\ Cardinality(G) > 0
<1>1. IsFiniteSet(G)
  BY SharedSizes, FS_Subset
<1>2. Cardinality(G) \in Nat
  BY <1>1, FS_CardinalityType
<1>3. D!Cardinality(G) = Cardinality(G)
  BY DEF D!Cardinality, Cardinality
<1>4. ASSUME NEW o \in Orgs, o \notin G
      PROVE  Cardinality(G \cup {o}) = Cardinality(G) + 1
  BY <1>1, <1>4, FS_AddElement
<1>5. ASSUME NEW o \in Orgs, o \in G
      PROVE  Cardinality(G \ {o}) = Cardinality(G) - 1 /\ Cardinality(G) > 0
  <2>1. Cardinality(G \ {o}) = Cardinality(G) - 1 /\ IsFiniteSet(G \ {o})
    BY <1>1, <1>5, FS_RemoveElement
  <2>2. Cardinality(G \ {o}) \in Nat
    BY <2>1, FS_CardinalityType
  <2>3. QED
    BY <1>2, <2>1, <2>2
<1>6. QED
  BY <1>1, <1>2, <1>3, <1>4, <1>5

\* The votes and their number stay together where one is added or removed.
LEMMA VotesOf ==
    ASSUME SharedInv, NEW m \in Merchants
    PROVE  votes[m] \in SUBSET Orgs /\ voteCount[m] = Cardinality(votes[m]) /\ voteCount[m] \in Nat
<1>1. votes[m] \in SUBSET Orgs
  BY DEF SharedInv, SharedTypes
<1>2. QED
  BY <1>1, SetSize DEF SharedInv, SharedTypes, D!VotesExact

LEMMA VotesMatch ==
    ASSUME \A m \in Merchants : votes'[m] \in SUBSET Orgs /\ voteCount'[m] = Cardinality(votes'[m])
    PROVE  D!VotesExact'
<1>1. ASSUME NEW m \in Merchants
      PROVE  voteCount'[m] = D!Cardinality(votes'[m])
  <2>1. PICK G : G = votes'[m]
    OBVIOUS
  <2>2. D!Cardinality(G) = Cardinality(G)
    BY <2>1, SetSize
  <2>3. QED
    BY <2>1, <2>2
<1>2. QED
  BY <1>1 DEF D!VotesExact

LEMMA NoShareRow == D!NoShareReq \in ShareRow /\ D!NoShareReq.pc = "idle" /\ ~ D!NoShareReq.gives
                    /\ D!NoShareReq.op = "none"
  BY DEF D!NoShareReq, ShareRow, ShareOps, D!DictionaryRows, D!ContributorRows

LEMMA ShareRowOf ==
    ASSUME SharedInv, NEW r \in Requests
    PROVE  sreq[r] \in ShareRow /\ Asked(r)
  BY DEF SharedInv, SharedTypes

\* What a step leaves alone that does not touch the requests.
LEMMA RequestsStay ==
    ASSUME SharedInv, sreq' = sreq,
           \A o \in Orgs, k \in D!SharedKinds : share[o][k] => share'[o][k]
    PROVE  OneHolder' /\ (\A r \in Requests : Asked(r)')
<1>1. OneHolder'
  BY DEF SharedInv, OneHolder
<1>2. ASSUME NEW r \in Requests
      PROVE  Asked(r)'
  <2>1. Asked(r) /\ D!KindOf(sreq[r].op) \in D!SharedKinds
    BY DEF SharedInv, D!KindOf, D!SharedKinds
  <2>2. QED
    BY <2>1 DEF Asked
<1>3. QED
  BY <1>1, <1>2

\* One request moves, to a row that says what it may, while the others keep
\* their settings.
LEMMA RequestMoves ==
    ASSUME SharedInv, NEW r \in Requests, NEW q \in ShareRow, sreq' = [sreq EXCEPT ![r] = q],
           q.pc # "idle" => q.org \in Orgs /\ q.op # "none",
           q.op = "create" => q.names \subseteq TagNames,
           q.op = "chunk" => q.names \subseteq Merchants,
           q.op \in {"tagOff", "merchantOff"} => q.pc = "locked",
           q.gives => q.pc = "locked" /\ share'[q.org][D!KindOf(q.op)],
           q.pc = "locked" => \A p \in Requests \ {r} :
               sreq[p].pc = "locked" /\ sreq[p].org = q.org => D!KindOf(sreq[p].op) # D!KindOf(q.op),
           \A p \in Requests \ {r} :
               sreq[p].gives => share'[sreq[p].org][D!KindOf(sreq[p].op)]
    PROVE  sreq' \in [Requests -> ShareRow] /\ OneHolder' /\ (\A p \in Requests : Asked(p)')
<1>1. /\ sreq' \in [Requests -> ShareRow] /\ sreq'[r] = q
      /\ \A p \in Requests \ {r} : sreq'[p] = sreq[p]
  BY DEF SharedInv, SharedTypes
<1>2. OneHolder'
  BY <1>1 DEF SharedInv, OneHolder
<1>3. Asked(r)'
  BY <1>1 DEF Asked
<1>4. ASSUME NEW p \in Requests \ {r}
      PROVE  Asked(p)'
  BY <1>1, <1>4 DEF SharedInv, Asked
<1>5. QED
  BY <1>1, <1>2, <1>3, <1>4

\* A request ends; a setting is only written by the one that holds its row.
LEMMA RequestEnds ==
    ASSUME SharedInv, NEW r \in Requests, D!End(r),
           \A o \in Orgs, k \in D!SharedKinds : share'[o][k] # share[o][k] =>
               sreq[r].pc = "locked" /\ sreq[r].org = o /\ D!KindOf(sreq[r].op) = k
    PROVE  sreq' \in [Requests -> ShareRow] /\ OneHolder' /\ (\A p \in Requests : Asked(p)')
<1>1. \A p \in Requests \ {r} : sreq[p].gives => share'[sreq[p].org][D!KindOf(sreq[p].op)]
  <2> SUFFICES ASSUME NEW p \in Requests \ {r}, sreq[p].gives
               PROVE  share'[sreq[p].org][D!KindOf(sreq[p].op)]
    OBVIOUS
  <2>1. Asked(p) /\ D!KindOf(sreq[p].op) \in D!SharedKinds
    BY DEF SharedInv, D!KindOf, D!SharedKinds
  <2>2. sreq[p].pc = "locked" /\ share[sreq[p].org][D!KindOf(sreq[p].op)] /\ sreq[p].org \in Orgs
    BY <2>1 DEF Asked
  <2>3. QED
    BY <2>1, <2>2 DEF SharedInv, OneHolder
<1>2. sreq' = [sreq EXCEPT ![r] = D!NoShareReq]
  BY DEF D!End
<1> HIDE DEF D!NoShareReq
<1>3. QED
  BY <1>1, <1>2, NoShareRow, RequestMoves

\* A request begins: it holds nothing yet, or nobody else did.
LEMMA RequestStarts ==
    ASSUME SharedInv, NEW r \in Requests, NEW o \in Orgs, NEW op \in ShareOps \ {"none"},
           NEW N \in SUBSET (TagNames \cup Merchants), NEW pc \in {"asks", "locked", "commits"},
           D!Start(r, o, op, N, pc), UNCHANGED share,
           op = "create" => N \subseteq TagNames, op = "chunk" => N \subseteq Merchants,
           op \in {"tagOff", "merchantOff"} => pc = "locked",
           pc = "locked" => ~ D!Held(o, D!KindOf(op))
    PROVE  sreq' \in [Requests -> ShareRow] /\ OneHolder' /\ (\A p \in Requests : Asked(p)')
<1> DEFINE q == [pc |-> pc, org |-> o, op |-> op, names |-> N, gives |-> FALSE,
                 entry |-> entry, contrib |-> contrib, count |-> voteCount]
<1>1. q \in ShareRow
  BY DEF ShareRow, SharedInv, SharedTypes
<1>2. sreq' = [sreq EXCEPT ![r] = q]
  BY DEF D!Start
<1>3. /\ q.pc = pc /\ q.org = o /\ q.op = op /\ q.names = N /\ ~ q.gives
  OBVIOUS
<1> HIDE DEF q
<1>4. \A p \in Requests \ {r} : sreq[p].gives => share'[sreq[p].org][D!KindOf(sreq[p].op)]
  BY DEF SharedInv, Asked
<1>5. q.pc = "locked" => \A p \in Requests \ {r} :
               sreq[p].pc = "locked" /\ sreq[p].org = q.org => D!KindOf(sreq[p].op) # D!KindOf(q.op)
  BY <1>3 DEF D!Held
<1>6. QED
  BY <1>1, <1>2, <1>3, <1>4, <1>5, RequestMoves

-----------------------------------------------------------------------------
(* Steps. *)

LEMMA Withdrawn ==
    ASSUME SharedInv, NEW o \in Orgs, NEW N \in SUBSET TagNames, D!Withdraw(o, N)
    PROVE  /\ entry' \in D!DictionaryRows /\ contrib' \in D!ContributorRows /\ HasRow'
           /\ \A n \in TagNames : contrib'[n] \subseteq contrib[n]
           /\ \A n \in N : o \notin contrib'[n]
<1>1. \A n \in TagNames : /\ entry[n] \in Int \cup {Absent} /\ contrib[n] \in SUBSET Orgs
                          /\ contrib[n] # {} => entry[n] # Absent
  BY DEF SharedInv, SharedTypes, HasRow, D!DictionaryRows, D!ContributorRows
<1>2. \A n \in TagNames :
          /\ entry'[n] = IF n \in N /\ o \in contrib[n] THEN entry[n] - 1 ELSE entry[n]
          /\ contrib'[n] = IF n \in N THEN contrib[n] \ {o} ELSE contrib[n]
  BY DEF D!Withdraw
<1>3. \A n \in TagNames : entry'[n] \in Int \cup {Absent} /\ (contrib[n] # {} => entry'[n] # Absent)
  <2> SUFFICES ASSUME NEW n \in TagNames
               PROVE  entry'[n] \in Int \cup {Absent} /\ (contrib[n] # {} => entry'[n] # Absent)
    OBVIOUS
  <2>1. CASE n \in N /\ o \in contrib[n]
    <3>1. entry[n] \in Int
      BY <1>1, <2>1
    <3>2. entry'[n] = entry[n] - 1
      BY <1>2, <2>1
    <3>3. entry'[n] \in Int
      BY <3>1, <3>2
    <3>4. QED
      BY <3>3, SharedSizes
  <2>2. CASE ~ (n \in N /\ o \in contrib[n])
    BY <1>1, <1>2, <2>2
  <2>3. QED
    BY <2>1, <2>2
<1>4. \A n \in TagNames : contrib'[n] \in SUBSET contrib[n]
  BY <1>2
<1>5. \A n \in N : o \notin contrib'[n]
  BY <1>2
<1>6. entry' \in D!DictionaryRows /\ contrib' \in D!ContributorRows
  BY <1>1, <1>3, <1>4 DEF D!Withdraw, D!DictionaryRows, D!ContributorRows
<1>7. HasRow'
  BY <1>3, <1>4 DEF HasRow
<1>8. QED
  BY <1>4, <1>5, <1>6, <1>7

LEMMA VotesWithdrawn ==
    ASSUME SharedInv, NEW o \in Orgs, D!WithdrawVotes(o)
    PROVE  /\ votes' \in [Merchants -> SUBSET Orgs] /\ voteCount' \in [Merchants -> Nat]
           /\ D!VotesExact' /\ \A m \in Merchants : votes'[m] = votes[m] \ {o}
<1>1. ASSUME NEW m \in Merchants
      PROVE  /\ votes'[m] = votes[m] \ {o} /\ votes'[m] \in SUBSET Orgs
             /\ voteCount'[m] = Cardinality(votes'[m]) /\ voteCount'[m] \in Nat
  <2>1. votes[m] \in SUBSET Orgs /\ voteCount[m] = Cardinality(votes[m]) /\ voteCount[m] \in Nat
    BY VotesOf
  <2>2. votes'[m] = votes[m] \ {o}
    BY DEF D!WithdrawVotes
  <2>3. voteCount'[m] = IF o \notin votes[m] THEN voteCount[m]
                        ELSE IF voteCount[m] > 0 THEN voteCount[m] - 1 ELSE 0
    BY DEF D!WithdrawVotes
  <2>4. CASE o \in votes[m]
    BY <2>1, <2>2, <2>3, <2>4, SetSize
  <2>5. CASE o \notin votes[m]
    <3>1. votes'[m] = votes[m]
      BY <2>2, <2>5
    <3>2. QED
      BY <2>1, <2>2, <2>3, <2>5, <3>1
  <2>6. QED
    BY <2>4, <2>5
<1>2. votes' \in [Merchants -> SUBSET Orgs] /\ voteCount' \in [Merchants -> Nat]
  BY <1>1 DEF D!WithdrawVotes
<1>3. D!VotesExact'
  BY <1>1, VotesMatch
<1>4. QED
  BY <1>1, <1>2, <1>3

\* What a step that writes none of the rows that are shared leaves true.
LEMMA RowsStay ==
    ASSUME SharedInv, UNCHANGED <<tags, entry, contrib, votes, voteCount>>,
           \A o \in Orgs, k \in D!SharedKinds : share[o][k] => share'[o][k]
    PROVE  HasRow' /\ D!ContributionIsCurrent' /\ D!VotesExact'
<1>1. HasRow'
  BY DEF SharedInv, HasRow
<1>2. D!VotesExact'
  BY DEF SharedInv, D!VotesExact
<1>3. /\ \A n \in TagNames : contrib[n] \subseteq Orgs
      /\ \A m \in Merchants : votes[m] \subseteq Orgs
  BY DEF SharedInv, SharedTypes, D!ContributorRows
<1>4. D!ContributionIsCurrent'
  BY <1>3 DEF SharedInv, D!ContributionIsCurrent, D!SharedKinds
<1>5. QED
  BY <1>1, <1>2, <1>4

LEMMA StartKeeps ==
    ASSUME SharedInv, NEW r \in Requests, NEW o \in Orgs,
           \/ \E N \in SUBSET TagNames \ {{}} : D!CreateTags(r, o, N)
           \/ \E m \in Merchants : D!BeginChunk(r, o, m)
           \/ \E k \in D!SharedKinds : D!FlushOff(r, o, k)
    PROVE  SharedInv'
<1>1. UNCHANGED <<share, tags, entry, contrib, votes, voteCount, ruled, aged>>
  BY DEF D!CreateTags, D!BeginChunk, D!FlushOff
<1>2. sreq' \in [Requests -> ShareRow] /\ OneHolder' /\ (\A p \in Requests : Asked(p)')
  <2>1. CASE \E N \in SUBSET TagNames \ {{}} : D!CreateTags(r, o, N)
    <3>1. PICK N \in SUBSET TagNames : D!CreateTags(r, o, N)
      BY <2>1
    <3>2. PICK pc \in {"asks", "commits"} : D!Start(r, o, "create", N, pc)
      BY <3>1 DEF D!CreateTags
    <3>3. QED
      BY <1>1, <3>2, RequestStarts DEF ShareOps
  <2>2. CASE \E m \in Merchants : D!BeginChunk(r, o, m)
    <3>1. PICK m \in Merchants : D!BeginChunk(r, o, m)
      BY <2>2
    <3>2. PICK pc \in {"asks", "commits"} : D!Start(r, o, "chunk", {m}, pc)
      BY <3>1 DEF D!BeginChunk
    <3>3. QED
      BY <1>1, <3>2, RequestStarts DEF ShareOps
  <2>3. CASE \E k \in D!SharedKinds : D!FlushOff(r, o, k)
    <3>1. PICK k \in D!SharedKinds : D!FlushOff(r, o, k)
      BY <2>3
    <3>2. PICK op \in {"tagOff", "merchantOff"} :
              D!Start(r, o, op, {}, "locked") /\ D!KindOf(op) = k
      BY <3>1 DEF D!FlushOff, D!KindOf, D!SharedKinds
    <3>3. ~ D!Held(o, D!KindOf(op))
      BY <3>1, <3>2 DEF D!FlushOff
    <3>4. QED
      BY <1>1, <3>2, <3>3, RequestStarts DEF ShareOps
  <2>4. QED
    BY <2>1, <2>2, <2>3
<1>3. HasRow' /\ D!ContributionIsCurrent' /\ D!VotesExact'
  BY <1>1, RowsStay
<1>4. SharedTypes'
  BY <1>1, <1>2 DEF SharedInv, SharedTypes
<1>5. QED
  BY <1>2, <1>3, <1>4 DEF SharedInv

LEMMA LockKeeps ==
    ASSUME SharedInv, NEW r \in Requests, D!LockShare(r)
    PROVE  SharedInv'
<1>1. UNCHANGED <<share, tags, entry, contrib, votes, voteCount, ruled, aged>>
  BY DEF D!LockShare
<1> DEFINE q == [sreq[r] EXCEPT !.pc = "locked", !.gives = D!StillEnabled(r)]
<1>2. sreq[r] \in ShareRow /\ Asked(r) /\ sreq[r].pc = "asks"
  BY ShareRowOf DEF D!LockShare
<1>3. sreq[r].org \in Orgs /\ D!KindOf(sreq[r].op) \in D!SharedKinds
  BY <1>2 DEF Asked, D!KindOf, D!SharedKinds
<1>4. D!StillEnabled(r) \in BOOLEAN
  BY <1>3 DEF D!StillEnabled, SharedInv, SharedTypes
<1>5. /\ q.pc = "locked" /\ q.org = sreq[r].org /\ q.op = sreq[r].op /\ q.names = sreq[r].names
      /\ q.gives = share[sreq[r].org][D!KindOf(sreq[r].op)]
  BY <1>2 DEF ShareRow, D!StillEnabled
<1>6. q \in ShareRow
  BY <1>2, <1>4 DEF ShareRow
<1>7. sreq' = [sreq EXCEPT ![r] = q]
  BY DEF D!LockShare
<1>8. \A p \in Requests \ {r} :
          sreq[p].pc = "locked" /\ sreq[p].org = q.org => D!KindOf(sreq[p].op) # D!KindOf(q.op)
  BY <1>5 DEF D!LockShare, D!Held
<1>9. \A p \in Requests \ {r} : sreq[p].gives => share'[sreq[p].org][D!KindOf(sreq[p].op)]
  BY <1>1 DEF SharedInv, Asked
<1> HIDE DEF q
<1>10. sreq' \in [Requests -> ShareRow] /\ OneHolder' /\ (\A p \in Requests : Asked(p)')
  BY <1>1, <1>2, <1>3, <1>5, <1>6, <1>7, <1>8, <1>9, RequestMoves DEF Asked
<1>11. HasRow' /\ D!ContributionIsCurrent' /\ D!VotesExact'
  BY <1>1, RowsStay
<1>12. SharedTypes'
  BY <1>1, <1>10 DEF SharedInv, SharedTypes
<1>13. QED
  BY <1>10, <1>11, <1>12 DEF SharedInv

LEMMA FailKeeps ==
    ASSUME SharedInv, NEW r \in Requests, D!FailShare(r)
    PROVE  SharedInv'
<1>1. UNCHANGED <<share, tags, entry, contrib, votes, voteCount, ruled, aged>> /\ D!End(r)
  BY DEF D!FailShare
<1>2. sreq' \in [Requests -> ShareRow] /\ OneHolder' /\ (\A p \in Requests : Asked(p)')
  BY <1>1, RequestEnds
<1>3. HasRow' /\ D!ContributionIsCurrent' /\ D!VotesExact'
  BY <1>1, RowsStay
<1>4. SharedTypes'
  BY <1>1, <1>2 DEF SharedInv, SharedTypes
<1>5. QED
  BY <1>2, <1>3, <1>4 DEF SharedInv

LEMMA CommitTagsKeeps ==
    ASSUME SharedInv, NEW r \in Requests, D!CommitTags(r)
    PROVE  SharedInv'
<1> DEFINE o == sreq[r].org
           M == IF sreq[r].gives THEN sreq[r].names \cap Eligible ELSE {}
           fresh == {n \in M : D!IsNewContributor(r, n)}
<1>1. sreq[r] \in ShareRow /\ Asked(r) /\ sreq[r].op = "create" /\ sreq[r].pc \in {"commits", "locked"}
  BY ShareRowOf DEF D!CommitTags
<1>2. o \in Orgs /\ sreq[r].names \subseteq TagNames /\ (M # {} => share[o]["tag"])
  BY <1>1 DEF Asked, D!KindOf
<1>3. D!End(r) /\ UNCHANGED <<share, votes, voteCount, ruled, aged>>
  BY DEF D!CommitTags
<1>4. sreq' \in [Requests -> ShareRow] /\ OneHolder' /\ (\A p \in Requests : Asked(p)')
  BY <1>3, RequestEnds
<1>5. CASE UNCHANGED <<tags, entry, contrib>>
  <2>1. HasRow' /\ D!ContributionIsCurrent' /\ D!VotesExact'
    BY <1>3, <1>5, RowsStay
  <2>2. SharedTypes'
    BY <1>3, <1>4, <1>5 DEF SharedInv, SharedTypes
  <2>3. QED
    BY <1>4, <2>1, <2>2 DEF SharedInv
<1>6. CASE ~ UNCHANGED <<tags, entry, contrib>>
  <2>1. /\ tags' = [tags EXCEPT ![o] = @ \cup sreq[r].names]
        /\ entry' = [n \in TagNames |->
              IF n \in fresh THEN D!CountRead(r, n) + 1
              ELSE IF n \in M /\ entry[n] = Absent THEN 0 ELSE entry[n]]
        /\ contrib' = [n \in TagNames |->
              IF n \in fresh THEN contrib[n] \cup {o} ELSE contrib[n]]
    BY <1>6 DEF D!CommitTags
  <2>2. \A n \in TagNames : /\ entry[n] \in Int \cup {Absent} /\ contrib[n] \in SUBSET Orgs
                            /\ contrib[n] # {} => entry[n] # Absent
    BY DEF SharedInv, SharedTypes, HasRow, D!DictionaryRows, D!ContributorRows
  <2>3. \A n \in TagNames : D!CountRead(r, n) \in Int
    BY <1>1, <2>2 DEF D!CountRead, ShareRow, D!DictionaryRows
  <2>4. ASSUME NEW n \in TagNames
        PROVE  entry'[n] \in Int \cup {Absent} /\ (contrib'[n] # {} => entry'[n] # Absent)
               /\ contrib'[n] \in SUBSET Orgs
    <3>1. CASE n \in fresh
      <4>1. PICK c \in Int : c = D!CountRead(r, n) + 1
        BY <2>3
      <4>2. entry'[n] = c /\ contrib'[n] = contrib[n] \cup {o}
        BY <2>1, <3>1, <4>1
      <4>3. QED
        BY <1>2, <2>2, <4>1, <4>2, SharedSizes
    <3>2. CASE n \notin fresh
      <4>1. /\ contrib'[n] = contrib[n]
            /\ entry'[n] = IF n \in M /\ entry[n] = Absent THEN 0 ELSE entry[n]
        BY <2>1, <3>2
      <4>2. 0 # Absent
        BY SharedSizes
      <4>3. QED
        BY <2>2, <4>1, <4>2
    <3>3. QED
      BY <3>1, <3>2
  <2>5. tags' \in D!TagRows
    BY <1>2, <2>1 DEF SharedInv, SharedTypes, D!TagRows
  <2>6. entry' \in D!DictionaryRows /\ contrib' \in D!ContributorRows /\ HasRow'
    BY <2>1, <2>4 DEF D!DictionaryRows, D!ContributorRows, HasRow
  <2>7. \A p \in Orgs : tags[p] \subseteq tags'[p]
    BY <1>2, <2>1 DEF SharedInv, SharedTypes, D!TagRows
  <2>8. \A n \in fresh : n \in tags'[o] /\ share[o]["tag"]
    BY <1>2, <2>1 DEF SharedInv, SharedTypes, D!TagRows
  <2>9. ASSUME NEW n \in TagNames, NEW p \in contrib'[n]
        PROVE  share[p]["tag"] /\ n \in tags'[p]
    <3>1. CASE p \in contrib[n]
      <4>1. p \in Orgs
        BY <2>2, <3>1
      <4>2. QED
        BY <2>7, <3>1, <4>1 DEF SharedInv, D!ContributionIsCurrent
    <3>2. CASE p \notin contrib[n]
      <4>1. n \in fresh /\ p = o
        BY <2>1, <2>9, <3>2
      <4>2. QED
        BY <2>8, <4>1
    <3>3. QED
      BY <3>1, <3>2
  <2>10. D!ContributionIsCurrent' /\ D!VotesExact'
    BY <1>3, <2>9 DEF SharedInv, D!ContributionIsCurrent, D!VotesExact
  <2>11. SharedTypes'
    BY <1>3, <1>4, <2>5, <2>6 DEF SharedInv, SharedTypes
  <2>12. QED
    BY <1>4, <2>6, <2>10, <2>11 DEF SharedInv
<1>7. QED
  BY <1>5, <1>6

LEMMA CommitChunkKeeps ==
    ASSUME SharedInv, NEW r \in Requests, NEW agrees \in BOOLEAN, D!CommitChunk(r, agrees)
    PROVE  SharedInv'
<1> DEFINE o == sreq[r].org
           fresh == {m \in sreq[r].names : /\ sreq[r].gives
                                           /\ agrees
                                           /\ D!InferSource(o, m) = "shared_dictionary"
                                           /\ o \notin votes[m]}
<1>1. sreq[r] \in ShareRow /\ Asked(r) /\ sreq[r].op = "chunk" /\ sreq[r].pc \in {"commits", "locked"}
  BY ShareRowOf DEF D!CommitChunk
<1>2. o \in Orgs /\ sreq[r].names \subseteq Merchants /\ (sreq[r].gives => share[o]["merchant"])
  BY <1>1 DEF Asked, D!KindOf
<1>3. D!End(r) /\ UNCHANGED <<share, tags, entry, contrib, aged>>
  BY DEF D!CommitChunk
<1>4. sreq' \in [Requests -> ShareRow] /\ OneHolder' /\ (\A p \in Requests : Asked(p)')
  BY <1>3, RequestEnds
<1>5. /\ votes' = [m \in Merchants |-> IF m \in fresh THEN votes[m] \cup {o} ELSE votes[m]]
      /\ voteCount' = [m \in Merchants |-> IF m \in fresh THEN D!Incremented(r, m) ELSE voteCount[m]]
      /\ ruled' = [ruled EXCEPT ![o] = @ \cup sreq[r].names]
  BY DEF D!CommitChunk
<1>6. ASSUME NEW m \in Merchants
      PROVE  /\ votes'[m] \in SUBSET Orgs
             /\ voteCount'[m] = Cardinality(votes'[m]) /\ voteCount'[m] \in Nat
             /\ \A p \in votes'[m] : share[p]["merchant"]
  <2>1. votes[m] \in SUBSET Orgs /\ voteCount[m] = Cardinality(votes[m]) /\ voteCount[m] \in Nat
        /\ \A p \in votes[m] : share[p]["merchant"]
    BY VotesOf DEF SharedInv, D!ContributionIsCurrent
  <2>2. CASE m \in fresh
    <3>1. votes'[m] = votes[m] \cup {o} /\ voteCount'[m] = voteCount[m] + 1
      BY <1>5, <2>2 DEF D!Incremented
    <3>2. o \notin votes[m] /\ sreq[r].gives
      BY <2>2
    <3>3. Cardinality(votes[m] \cup {o}) = Cardinality(votes[m]) + 1
      BY <1>2, <2>1, <3>2, SetSize
    <3>4. QED
      BY <1>2, <2>1, <3>1, <3>2, <3>3
  <2>3. CASE m \notin fresh
    <3>1. votes'[m] = votes[m] /\ voteCount'[m] = voteCount[m]
      BY <1>5, <2>3
    <3>2. QED
      BY <2>1, <3>1
  <2>4. QED
    BY <2>2, <2>3
<1>7. votes' \in [Merchants -> SUBSET Orgs] /\ voteCount' \in [Merchants -> Nat]
      /\ ruled' \in [Orgs -> SUBSET Merchants]
  <2>1. ruled' \in [Orgs -> SUBSET Merchants]
    BY <1>2, <1>5 DEF SharedInv, SharedTypes
  <2>2. QED
    BY <1>5, <1>6, <2>1
<1>8. D!VotesExact' /\ D!ContributionIsCurrent' /\ HasRow'
  <2>1. D!VotesExact'
    BY <1>6, VotesMatch
  <2>2. QED
    BY <1>3, <1>6, <2>1 DEF SharedInv, D!ContributionIsCurrent, HasRow
<1>9. SharedTypes'
  BY <1>3, <1>4, <1>7 DEF SharedInv, SharedTypes
<1>10. QED
  BY <1>4, <1>8, <1>9 DEF SharedInv

\* Turning a setting off withdraws what was shared before the row is let go.
LEMMA CommitOffKeeps ==
    ASSUME SharedInv, NEW r \in Requests, D!CommitOff(r)
    PROVE  SharedInv'
<1> DEFINE o == sreq[r].org
           kind == D!KindOf(sreq[r].op)
<1>1. sreq[r] \in ShareRow /\ Asked(r) /\ sreq[r].op \in {"tagOff", "merchantOff"}
  BY ShareRowOf DEF D!CommitOff
<1>2. o \in Orgs /\ kind \in D!SharedKinds /\ sreq[r].pc = "locked"
  BY <1>1 DEF Asked, D!KindOf, D!SharedKinds
<1>3. D!End(r) /\ UNCHANGED <<tags, ruled, aged>> /\ share' = [share EXCEPT ![o][kind] = FALSE]
  BY DEF D!CommitOff
<1>4. share' \in [Orgs -> [D!SharedKinds -> BOOLEAN]] /\ ~ share'[o][kind]
      /\ \A p \in Orgs, k \in D!SharedKinds : p # o \/ k # kind => share'[p][k] = share[p][k]
  BY <1>2, <1>3 DEF SharedInv, SharedTypes
<1>5. sreq' \in [Requests -> ShareRow] /\ OneHolder' /\ (\A p \in Requests : Asked(p)')
  BY <1>2, <1>3, <1>4, RequestEnds
<1>6. /\ \A n \in TagNames : contrib[n] \in SUBSET Orgs
      /\ \A m \in Merchants : votes[m] \in SUBSET Orgs
  BY DEF SharedInv, SharedTypes, D!ContributorRows
<1>7. CASE sreq[r].op = "tagOff"
  <2>1. kind = "tag" /\ D!Withdraw(o, TagNames) /\ UNCHANGED <<votes, voteCount>>
    BY <1>7 DEF D!CommitOff, D!KindOf
  <2>2. /\ entry' \in D!DictionaryRows /\ contrib' \in D!ContributorRows /\ HasRow'
        /\ \A n \in TagNames : contrib'[n] \subseteq contrib[n] /\ o \notin contrib'[n]
    BY <1>2, <2>1, Withdrawn
  <2>3. ASSUME NEW n \in TagNames, NEW p \in contrib'[n]
        PROVE  share'[p]["tag"] /\ n \in tags'[p]
    <3>1. p \in Orgs \ {o} /\ p \in contrib[n]
      BY <1>6, <2>2
    <3>2. QED
      BY <1>3, <1>4, <3>1 DEF SharedInv, D!ContributionIsCurrent, D!SharedKinds
  <2>4. ASSUME NEW m \in Merchants, NEW p \in votes'[m]
        PROVE  share'[p]["merchant"]
    BY <1>4, <1>6, <2>1 DEF SharedInv, D!ContributionIsCurrent, D!SharedKinds
  <2>5. D!ContributionIsCurrent' /\ D!VotesExact'
    BY <2>1, <2>3, <2>4 DEF SharedInv, D!ContributionIsCurrent, D!VotesExact
  <2>6. SharedTypes'
    BY <1>3, <1>4, <1>5, <2>1, <2>2 DEF SharedInv, SharedTypes
  <2>7. QED
    BY <1>5, <2>2, <2>5, <2>6 DEF SharedInv
<1>8. CASE sreq[r].op = "merchantOff"
  <2>1. kind = "merchant" /\ D!WithdrawVotes(o) /\ UNCHANGED <<entry, contrib>>
    BY <1>8 DEF D!CommitOff, D!KindOf
  <2>2. /\ votes' \in [Merchants -> SUBSET Orgs] /\ voteCount' \in [Merchants -> Nat]
        /\ D!VotesExact' /\ \A m \in Merchants : votes'[m] = votes[m] \ {o}
    BY <1>2, <2>1, VotesWithdrawn
  <2>3. ASSUME NEW n \in TagNames, NEW p \in contrib'[n]
        PROVE  share'[p]["tag"] /\ n \in tags'[p]
    BY <1>3, <1>4, <1>6, <2>1 DEF SharedInv, D!ContributionIsCurrent, D!SharedKinds
  <2>4. ASSUME NEW m \in Merchants, NEW p \in votes'[m]
        PROVE  share'[p]["merchant"]
    BY <1>4, <1>6, <2>2 DEF SharedInv, D!ContributionIsCurrent, D!SharedKinds
  <2>5. D!ContributionIsCurrent' /\ HasRow'
    BY <2>1, <2>3, <2>4 DEF SharedInv, D!ContributionIsCurrent, HasRow
  <2>6. SharedTypes'
    BY <1>3, <1>4, <1>5, <2>1, <2>2 DEF SharedInv, SharedTypes
  <2>7. QED
    BY <1>5, <2>2, <2>5, <2>6 DEF SharedInv
<1>9. QED
  BY <1>1, <1>7, <1>8

LEMMA SettingKeeps ==
    ASSUME SharedInv, NEW o \in Orgs,
           \/ \E k \in D!SharedKinds : D!TurnOn(o, k)
           \/ D!Grow(o)
           \/ \E m \in Merchants : D!DropRule(o, m)
    PROVE  SharedInv'
<1>1. /\ UNCHANGED <<tags, entry, contrib, votes, voteCount, sreq>>
      /\ share' \in [Orgs -> [D!SharedKinds -> BOOLEAN]]
      /\ \A p \in Orgs, k \in D!SharedKinds : share[p][k] => share'[p][k]
      /\ ruled' \in [Orgs -> SUBSET Merchants] /\ aged' \subseteq Orgs
  <2>1. CASE \E k \in D!SharedKinds : D!TurnOn(o, k)
    BY <2>1 DEF D!TurnOn, SharedInv, SharedTypes
  <2>2. CASE D!Grow(o)
    BY <2>2 DEF D!Grow, SharedInv, SharedTypes
  <2>3. CASE \E m \in Merchants : D!DropRule(o, m)
    BY <2>3 DEF D!DropRule, SharedInv, SharedTypes
  <2>4. QED
    BY <2>1, <2>2, <2>3
<1>2. OneHolder' /\ (\A r \in Requests : Asked(r)')
  BY <1>1, RequestsStay
<1>3. HasRow' /\ D!ContributionIsCurrent' /\ D!VotesExact'
  BY <1>1, RowsStay
<1>4. SharedTypes'
  BY <1>1 DEF SharedInv, SharedTypes
<1>5. QED
  BY <1>2, <1>3, <1>4 DEF SharedInv

\* A tag goes only together with what the organisation contributed of its name.
LEMMA TagGoesKeeps ==
    ASSUME SharedInv, NEW o \in Orgs, NEW n \in TagNames,
           D!DeleteTag(o, n) \/ \E new \in TagNames : D!RenameTag(o, n, new)
    PROVE  SharedInv'
<1>1. /\ D!Withdraw(o, {n}) /\ UNCHANGED <<share, votes, voteCount, ruled, aged, sreq>>
      /\ tags' \in D!TagRows
      /\ \A p \in Orgs : \A x \in tags[p] : x \in tags'[p] \/ (p = o /\ x = n)
  <2>1. CASE D!DeleteTag(o, n)
    BY <2>1 DEF D!DeleteTag, SharedInv, SharedTypes, D!TagRows
  <2>2. CASE \E new \in TagNames : D!RenameTag(o, n, new)
    BY <2>2 DEF D!RenameTag, SharedInv, SharedTypes, D!TagRows
  <2>3. QED
    BY <2>1, <2>2
<1>2. /\ entry' \in D!DictionaryRows /\ contrib' \in D!ContributorRows /\ HasRow'
      /\ \A x \in TagNames : contrib'[x] \subseteq contrib[x]
      /\ o \notin contrib'[n]
  BY <1>1, Withdrawn
<1>3. ASSUME NEW x \in TagNames, NEW p \in contrib'[x]
      PROVE  share'[p]["tag"] /\ x \in tags'[p]
  <2>1. p \in contrib[x] /\ p \in Orgs
    BY <1>2 DEF SharedInv, SharedTypes, D!ContributorRows
  <2>2. share[p]["tag"] /\ x \in tags[p]
    BY <2>1 DEF SharedInv, D!ContributionIsCurrent
  <2>3. QED
    BY <1>1, <1>2, <2>1, <2>2
<1>4. D!ContributionIsCurrent' /\ D!VotesExact'
  BY <1>1, <1>3 DEF SharedInv, D!ContributionIsCurrent, D!VotesExact
<1>5. OneHolder' /\ (\A r \in Requests : Asked(r)')
  BY <1>1, RequestsStay
<1>6. SharedTypes'
  BY <1>1, <1>2 DEF SharedInv, SharedTypes
<1>7. QED
  BY <1>2, <1>4, <1>5, <1>6 DEF SharedInv

LEMMA ResetSharedKeeps ==
    ASSUME SharedInv, NEW o \in Orgs, D!ResetShared(o)
    PROVE  SharedInv'
<1>1. /\ D!Withdraw(o, TagNames) /\ D!WithdrawVotes(o) /\ UNCHANGED <<share, aged, sreq>>
      /\ tags' \in D!TagRows /\ ruled' \in [Orgs -> SUBSET Merchants]
      /\ \A p \in Orgs \ {o} : tags'[p] = tags[p]
  BY DEF D!ResetShared, SharedInv, SharedTypes, D!TagRows
<1>2. /\ entry' \in D!DictionaryRows /\ contrib' \in D!ContributorRows /\ HasRow'
      /\ \A x \in TagNames : contrib'[x] \subseteq contrib[x] /\ o \notin contrib'[x]
  BY <1>1, Withdrawn
<1>3. /\ votes' \in [Merchants -> SUBSET Orgs] /\ voteCount' \in [Merchants -> Nat]
      /\ D!VotesExact' /\ \A m \in Merchants : votes'[m] = votes[m] \ {o}
  BY <1>1, VotesWithdrawn
<1>4. ASSUME NEW x \in TagNames, NEW p \in contrib'[x]
      PROVE  share'[p]["tag"] /\ x \in tags'[p]
  <2>1. p \in contrib[x] /\ p \in Orgs \ {o}
    BY <1>2 DEF SharedInv, SharedTypes, D!ContributorRows
  <2>2. share[p]["tag"] /\ x \in tags[p]
    BY <2>1 DEF SharedInv, D!ContributionIsCurrent
  <2>3. QED
    BY <1>1, <2>1, <2>2
<1>5. D!ContributionIsCurrent'
  BY <1>1, <1>3, <1>4 DEF SharedInv, D!ContributionIsCurrent
<1>6. OneHolder' /\ (\A r \in Requests : Asked(r)')
  BY <1>1, RequestsStay
<1>7. SharedTypes'
  BY <1>1, <1>2, <1>3 DEF SharedInv, SharedTypes
<1>8. QED
  BY <1>2, <1>3, <1>5, <1>6, <1>7 DEF SharedInv

LEMMA SharedStepKeeps ==
    ASSUME SharedInv, D!TagNext \/ D!VoteNext
    PROVE  SharedInv'
<1>1. \A k : k \in {"tag", "merchant"} <=> k \in D!SharedKinds
  BY DEF D!SharedKinds
<1>2. CASE \E r \in Requests, o \in Orgs :
              \/ \E N \in SUBSET TagNames \ {{}} : D!CreateTags(r, o, N)
              \/ \E m \in Merchants : D!BeginChunk(r, o, m)
              \/ \E k \in D!SharedKinds : D!FlushOff(r, o, k)
  BY <1>2, StartKeeps
<1>3. CASE \E r \in Requests : D!LockShare(r) \/ D!CommitTags(r) \/ D!CommitOff(r) \/ D!FailShare(r)
                               \/ \E agrees \in BOOLEAN : D!CommitChunk(r, agrees)
  BY <1>3, LockKeeps, CommitTagsKeeps, CommitOffKeeps, FailKeeps, CommitChunkKeeps
<1>4. CASE \E o \in Orgs : \/ \E k \in D!SharedKinds : D!TurnOn(o, k)
                           \/ D!Grow(o)
                           \/ \E m \in Merchants : D!DropRule(o, m)
  BY <1>4, SettingKeeps
<1>5. CASE \E o \in Orgs : D!ResetShared(o)
  BY <1>5, ResetSharedKeeps
<1>6. CASE \E o \in Orgs, n \in TagNames :
              D!DeleteTag(o, n) \/ \E new \in TagNames : D!RenameTag(o, n, new)
  BY <1>6, TagGoesKeeps
<1>7. CASE D!TagNext
  BY <1>1, <1>2, <1>3, <1>4, <1>5, <1>6, <1>7 DEF D!TagNext
<1>8. CASE D!VoteNext
  BY <1>1, <1>2, <1>3, <1>4, <1>5, <1>8 DEF D!VoteNext
<1>9. QED
  BY <1>7, <1>8

LEMMA SharedInitially ==
    ASSUME D!SharedInit
    PROVE  SharedInv
<1>1. SharedTypes
  <2>1. /\ tags \in D!TagRows /\ entry \in D!DictionaryRows /\ contrib \in D!ContributorRows
        /\ share \in [Orgs -> [D!SharedKinds -> BOOLEAN]]
    BY DEF D!SharedInit, D!TagRows, D!DictionaryRows, D!ContributorRows
  <2>2. sreq \in [Requests -> ShareRow]
    BY NoShareRow DEF D!SharedInit
  <2>3. QED
    BY <2>1, <2>2 DEF D!SharedInit, SharedTypes
<1>2. OneHolder /\ (\A r \in Requests : Asked(r))
  <2>1. \A r \in Requests : sreq[r].pc = "idle" /\ ~ sreq[r].gives /\ sreq[r].op = "none"
    BY NoShareRow DEF D!SharedInit
  <2>2. QED
    BY <2>1 DEF OneHolder, Asked
<1>3. HasRow /\ D!ContributionIsCurrent
  BY DEF D!SharedInit, HasRow, D!ContributionIsCurrent
<1>4. D!VotesExact
  <2>1. D!Cardinality({}) = 0
    BY FS_EmptySet, SetSize
  <2>2. QED
    BY <2>1 DEF D!SharedInit, D!VotesExact
<1>5. QED
  BY <1>1, <1>2, <1>3, <1>4 DEF SharedInv

LEMMA SharedHolds ==
    ASSUME SharedInv
    PROVE  D!SharedTypeOK /\ D!ContributionIsCurrent /\ D!KAnonymity /\ D!VotesExact
<1>1. D!SharedTypeOK
  BY DEF SharedInv, SharedTypes, HasRow, OneHolder, D!SharedTypeOK
<1>2. ASSUME NEW n \in TagNames, D!FloorMet(n)
      PROVE  D!Cardinality({o \in aged : share[o]["tag"] /\ n \in tags[o]}) >= MinContributors
  <2> DEFINE those == {o \in aged : share[o]["tag"] /\ n \in tags[o]}
             counted == contrib[n] \cap aged
  <2>1. counted \subseteq those /\ counted \in SUBSET Orgs /\ those \in SUBSET Orgs
    BY DEF SharedInv, SharedTypes, D!ContributionIsCurrent
  <2>2. D!Cardinality(counted) >= MinContributors
    BY <1>2 DEF D!FloorMet
  <2> HIDE DEF counted, those
  <2>3. /\ D!Cardinality(counted) = Cardinality(counted) /\ D!Cardinality(those) = Cardinality(those)
        /\ IsFiniteSet(those) /\ Cardinality(counted) \in Nat /\ Cardinality(those) \in Nat
    BY <2>1, SetSize
  <2>4. Cardinality(counted) <= Cardinality(those)
    BY <2>1, <2>3, FS_Subset
  <2>5. D!Cardinality(those) >= MinContributors
    BY <2>2, <2>3, <2>4, SharedSizes
  <2>6. QED
    BY <2>5 DEF those
<1>3. QED
  BY <1>1, <1>2 DEF SharedInv, D!KAnonymity

\* However requests that contribute, withdraw and turn sharing off overlap,
\* what is counted for others is what an organisation shares and has, and votes
\* are counted exactly (tag_service, category_rules_service).
THEOREM SharingCorrect == Spec => []SharingSafe
<1> DEFINE Inv == focus \in {"tags", "votes"} => SharedInv
<1>1. Init => Inv
  BY SharedInitially DEF Init
<1>2. Inv /\ [Next]_organisationVars => Inv'
  <2> SUFFICES ASSUME Inv, [Next]_organisationVars, (focus \in {"tags", "votes"})'
               PROVE  SharedInv'
    OBVIOUS
  <2>1. CASE TagStep \/ VoteStep
    BY <2>1, SharedStepKeeps DEF TagStep, VoteStep
  <2>2. CASE UNCHANGED organisationVars
    <3>1. SharedInv /\ UNCHANGED sharedVars
      BY <2>2 DEF organisationVars
    <3>2. SharedTypes' /\ OneHolder' /\ HasRow'
      BY <3>1 DEF SharedInv, SharedTypes, OneHolder, HasRow, sharedVars
    <3>3. D!ContributionIsCurrent' /\ D!VotesExact'
      BY <3>1 DEF SharedInv, D!ContributionIsCurrent, D!VotesExact, sharedVars
    <3>4. \A r \in Requests : Asked(r)'
      BY <3>1 DEF SharedInv, Asked, sharedVars
    <3>5. QED
      BY <3>2, <3>3, <3>4 DEF SharedInv
  <2>3. CASE CategoryStep \/ AccountStep \/ SeriesStep \/ ResetStep
    BY <2>3 DEF CategoryStep, AccountStep, SeriesStep, ResetStep, S!Next
  <2>4. QED
    BY <2>1, <2>2, <2>3 DEF Next
<1>3. Inv => SharingSafe
  BY SharedHolds DEF SharingSafe
<1>4. QED
  BY <1>1, <1>2, <1>3, PTL DEF Spec

-----------------------------------------------------------------------------
(* Accounts: what an update writes to a row it did not lock are the columns   *)
(* no rule relates to a type, and a request that runs alone sees the row as   *)
(* it is.                                                                     *)

Columns == {"type", "active", "dflt", "opening", "balance", "source", "close", "pay",
            "same", "card", "loan"}
AcctOps == {"idle", "update", "delete", "cycle", "uncycle", "series"}

AccountTypes ==
    /\ acct \in [Accts -> A!AccountRow \cup {A!NoAcct}] /\ posted \in [Accts -> Int]
    /\ settled \subseteq Accts /\ cycles \subseteq Accts /\ series \subseteq Accts \X Accts
    /\ single \in BOOLEAN
    /\ DOMAIN areq = Requests
Busy(r) == areq[r].op # "idle"
AcctAsked(r) ==
    /\ areq[r] = [op |-> areq[r].op, a |-> areq[r].a, b |-> areq[r].b, body |-> areq[r].body,
                  admin |-> areq[r].admin, row |-> areq[r].row, from |-> areq[r].from]
    /\ areq[r].op \in AcctOps
    /\ Busy(r) => areq[r].a \in Accts /\ areq[r].row \in A!AccountRow
    /\ areq[r].op = "update" => areq[r].body \in Bodies
    /\ areq[r].op = "series" => areq[r].b \in Accts

\* A request that runs alone.
Alone(r) ==
    single /\ Busy(r) =>
        /\ \A p \in Requests \ {r} : ~ Busy(p)
        /\ areq[r].row = acct[areq[r].a]
        /\ areq[r].from = {s[1] : s \in series}
        /\ areq[r].op = "cycle" => acct[areq[r].a].type = "credit_card"
        /\ areq[r].op = "series" => acct[areq[r].a].type \notin A!Liability

AccountsInv ==
    /\ AccountTypes /\ \A r \in Requests : AcctAsked(r) /\ Alone(r)
    /\ A!AccountsTypeOK /\ A!ColumnsFollowType /\ A!OpeningCounted /\ A!OneDefault
    /\ A!DependentsFollowType

LEMMA AccountSizes ==
    /\ 0 \notin Accts /\ \A row \in NewRows : row \in A!AccountRow /\ ~ row.dflt
    /\ \A body \in Bodies : \A f \in DOMAIN body :
          f \in DOMAIN A!ColumnValues /\ body[f] \in A!ColumnValues[f]
  BY OrganisationAssumption DEF A!AccountsAssumption

LEMMA RowFields ==
    ASSUME NEW row \in A!AccountRow
    PROVE  /\ DOMAIN row = Columns /\ row.type \in A!Slugs /\ row.active \in BOOLEAN
           /\ row.dflt \in BOOLEAN /\ row.opening \in Int /\ row.balance \in Int
           /\ row.source \in Accts \cup {0} /\ row.close \in Nat /\ row.pay \in Nat
           /\ row.same \in BOOLEAN /\ row.card \in BOOLEAN /\ row.loan \in BOOLEAN
           /\ row = [f \in Columns |-> row[f]]
           /\ row # A!NoAcct
  BY DEF A!AccountRow, Columns, A!NoAcct, A!Slugs

LEMMA NoAcctFields ==
    /\ DOMAIN A!NoAcct = Columns /\ A!NoAcct.type = "none" /\ ~ A!NoAcct.dflt
    /\ A!NoAcct.opening = 0 /\ A!NoAcct.balance = 0 /\ A!NoAcct.source = 0
    /\ A!NoAcct.close = 0 /\ A!NoAcct.pay = 0 /\ ~ A!NoAcct.same /\ ~ A!NoAcct.card
    /\ ~ A!NoAcct.loan /\ A!NoAcct \notin A!AccountRow
  BY DEF A!NoAcct, Columns, A!AccountRow, A!Slugs

LEMMA IsRow ==
    ASSUME NEW row, DOMAIN row = Columns, row = [f \in Columns |-> row[f]],
           row.type \in A!Slugs, row.active \in BOOLEAN, row.dflt \in BOOLEAN,
           row.opening \in Int, row.balance \in Int, row.source \in Accts \cup {0},
           row.close \in Nat, row.pay \in Nat, row.same \in BOOLEAN, row.card \in BOOLEAN,
           row.loan \in BOOLEAN
    PROVE  row \in A!AccountRow
<1>1. row = [type |-> row.type, active |-> row.active, dflt |-> row.dflt, opening |-> row.opening,
             balance |-> row.balance, source |-> row.source, close |-> row.close, pay |-> row.pay,
             same |-> row.same, card |-> row.card, loan |-> row.loan]
  BY DEF Columns
<1>2. QED
  BY <1>1 DEF A!AccountRow

LEMMA BodyValue ==
    ASSUME NEW body \in Bodies
    PROVE  /\ "type" \in DOMAIN body => body.type \in A!Slugs
           /\ "active" \in DOMAIN body => body.active \in BOOLEAN
           /\ "dflt" \in DOMAIN body => body.dflt \in BOOLEAN
           /\ "opening" \in DOMAIN body => body.opening \in Int
           /\ "balance" \notin DOMAIN body
           /\ "source" \in DOMAIN body => body.source \in Accts \cup {0}
           /\ "close" \in DOMAIN body => body.close \in Nat
           /\ "pay" \in DOMAIN body => body.pay \in Nat
           /\ "same" \in DOMAIN body => body.same \in BOOLEAN
           /\ "card" \in DOMAIN body => body.card \in BOOLEAN
           /\ "loan" \in DOMAIN body => body.loan \in BOOLEAN
  BY AccountSizes DEF A!ColumnValues

LEMMA ClearedRow ==
    ASSUME NEW row \in A!AccountRow, NEW to \in A!Slugs
    PROVE  /\ A!Cleared(row, to) \in A!AccountRow
           /\ A!Cleared(row, to).type = to
           /\ A!Cleared(row, to).active = row.active /\ A!Cleared(row, to).dflt = row.dflt
           /\ A!Cleared(row, to).opening = row.opening /\ A!Cleared(row, to).balance = row.balance
           /\ A!Cleared(row, to).source = IF to \notin A!Liability THEN 0 ELSE row.source
           /\ A!Cleared(row, to).close = IF to # "credit_card" THEN 0 ELSE row.close
           /\ A!Cleared(row, to).pay = IF to # "credit_card" THEN 0 ELSE row.pay
           /\ (A!Cleared(row, to).same <=> to = "credit_card" /\ row.same)
           /\ (A!Cleared(row, to).card <=> to = "credit_card" /\ row.card)
           /\ (A!Cleared(row, to).loan <=> to = "loan" /\ row.loan)
<1> DEFINE new == A!Cleared(row, to)
<1>1. DOMAIN row = Columns
  BY RowFields
<1>2. /\ DOMAIN new = Columns /\ new = [f \in Columns |-> new[f]]
      /\ \A f \in Columns : new[f] =
            IF f = "type" THEN to
            ELSE IF f = "source" /\ to \notin A!Liability THEN 0
            ELSE IF f \in {"close", "pay", "same", "card"} /\ to # "credit_card" THEN A!NoAcct[f]
            ELSE IF f = "loan" /\ to # "loan" THEN FALSE
            ELSE row[f]
  BY <1>1 DEF A!Cleared
<1> HIDE DEF new
<1>3. /\ new.type = to /\ new.active = row.active /\ new.dflt = row.dflt
      /\ new.opening = row.opening /\ new.balance = row.balance
      /\ new.source = IF to \notin A!Liability THEN 0 ELSE row.source
  BY <1>2 DEF Columns
<1>4. /\ new.close = IF to # "credit_card" THEN 0 ELSE row.close
      /\ new.pay = IF to # "credit_card" THEN 0 ELSE row.pay
      /\ (new.same <=> to = "credit_card" /\ row.same)
      /\ (new.card <=> to = "credit_card" /\ row.card)
      /\ (new.loan <=> to = "loan" /\ row.loan)
  BY <1>2 DEF Columns, A!NoAcct
<1>5. new \in A!AccountRow
  <2>1. /\ new.type \in A!Slugs /\ new.active \in BOOLEAN /\ new.dflt \in BOOLEAN
        /\ new.opening \in Int /\ new.balance \in Int /\ new.source \in Accts \cup {0}
    BY <1>3, RowFields
  <2>2. /\ new.close \in Nat /\ new.pay \in Nat /\ new.same \in BOOLEAN /\ new.card \in BOOLEAN
        /\ new.loan \in BOOLEAN
    <3>1. row.close \in Nat /\ row.pay \in Nat /\ row.same \in BOOLEAN /\ row.card \in BOOLEAN
          /\ row.loan \in BOOLEAN
      BY RowFields
    <3>2. new.close \in Nat /\ new.pay \in Nat
      BY <1>4, <3>1
    <3>3. /\ (new.same = FALSE \/ new.same = row.same) /\ (new.card = FALSE \/ new.card = row.card)
          /\ new.loan = FALSE \/ new.loan = row.loan
      BY <1>2 DEF Columns, A!NoAcct
    <3>4. new.same \in BOOLEAN /\ new.card \in BOOLEAN /\ new.loan \in BOOLEAN
      BY <3>1, <3>3
    <3>5. QED
      BY <3>2, <3>4
  <2>3. QED
    BY <1>2, <2>1, <2>2, IsRow
<1>6. QED
  BY <1>3, <1>4, <1>5 DEF new

LEMMA GivenRow ==
    ASSUME NEW row \in A!AccountRow, NEW body \in Bodies, NEW F
    PROVE  /\ A!Given(row, body, F) \in A!AccountRow
           /\ \A f \in Columns : A!Given(row, body, F)[f] =
                 IF f \in F /\ f \in DOMAIN body THEN body[f] ELSE row[f]
<1> DEFINE new == A!Given(row, body, F)
<1>1. DOMAIN row = Columns
  BY RowFields
<1>2. /\ DOMAIN new = Columns /\ new = [f \in Columns |-> new[f]]
      /\ \A f \in Columns : new[f] = IF f \in F /\ f \in DOMAIN body THEN body[f] ELSE row[f]
  BY <1>1 DEF A!Given
<1> HIDE DEF new
<1>3. /\ new.type \in A!Slugs /\ new.active \in BOOLEAN /\ new.dflt \in BOOLEAN
      /\ new.opening \in Int /\ new.balance \in Int /\ new.source \in Accts \cup {0}
  BY <1>2, RowFields, BodyValue DEF Columns
<1>4. /\ new.close \in Nat /\ new.pay \in Nat /\ new.same \in BOOLEAN /\ new.card \in BOOLEAN
      /\ new.loan \in BOOLEAN
  BY <1>2, RowFields, BodyValue DEF Columns
<1>5. new \in A!AccountRow
  BY <1>2, <1>3, <1>4, IsRow
<1>6. QED
  BY <1>2, <1>5 DEF new

LEMMA RequestRow ==
    ASSUME AccountsInv, NEW r \in Requests, areq[r].op = "update", A!UpdateOk(areq[r])
    PROVE  /\ areq[r].a \in Accts /\ acct[areq[r].a] \in A!AccountRow /\ areq[r].body \in Bodies
           /\ areq[r].row \in A!AccountRow /\ A!Basis(areq[r]) \in A!AccountRow
           /\ A!Target(areq[r]) \in A!Slugs
<1>1. areq[r].a \in Accts /\ areq[r].body \in Bodies /\ areq[r].row \in A!AccountRow
  BY DEF AccountsInv, AcctAsked, Busy
<1>2. acct[areq[r].a] \in A!AccountRow
  BY <1>1 DEF AccountsInv, A!AccountsTypeOK, A!UpdateOk
<1>3. A!Basis(areq[r]) \in A!AccountRow
  BY <1>1, <1>2 DEF A!Basis
<1>4. A!Target(areq[r]) \in A!Slugs
  BY <1>1, BodyValue, RowFields DEF A!Target
<1>5. QED
  BY <1>1, <1>2, <1>3, <1>4

\* An update with columns of a type works on the row as it is, under its lock.
LEMMA TypedRowWritten ==
    ASSUME AccountsInv, NEW r \in Requests, areq[r].op = "update", A!UpdateOk(areq[r]),
           A!TouchesType(areq[r].body)
    PROVE  LET w == A!RowWritten(areq[r])
               cur == acct[areq[r].a]
               body == areq[r].body
           IN  /\ w \in A!AccountRow /\ A!CreateValid(w) /\ w.type = A!Target(areq[r])
               /\ w.balance - w.opening = cur.balance - cur.opening
               /\ w.dflt => cur.dflt \/ ("dflt" \in DOMAIN body /\ body.dflt)
               /\ w.source = 0 \/ w.source = cur.source \/ A!SourceValid(w.source, areq[r].a)
<1> DEFINE q == areq[r]
           cur == acct[q.a]
           body == q.body
           to == A!Target(q)
           row == A!Cleared(cur, to)
           new == A!Given(row, body, DOMAIN body \ {"type"})
           w == A!RowWritten(q)
<1>1. /\ q.a \in Accts /\ cur \in A!AccountRow /\ body \in Bodies /\ to \in A!Slugs
      /\ A!Basis(q) = cur /\ A!CreateValid(cur)
  BY RequestRow DEF A!Basis, AccountsInv, A!ColumnsFollowType, A!UpdateOk
<1>2. row \in A!AccountRow
  BY <1>1, ClearedRow
<1>3. /\ new \in A!AccountRow
      /\ \A f \in Columns : new[f] = IF f # "type" /\ f \in DOMAIN body THEN body[f] ELSE row[f]
  BY <1>1, <1>2, GivenRow
<1>4. /\ DOMAIN w = Columns /\ w = [f \in Columns |-> w[f]]
      /\ \A f \in Columns : w[f] = IF f = "balance" THEN A!BalanceAfter(q, cur)
                                   ELSE IF new[f] # cur[f] THEN new[f] ELSE cur[f]
  BY <1>1, NoAcctFields DEF A!RowWritten
<1>5. /\ w.balance = cur.balance + (IF "opening" \in DOMAIN body THEN body.opening - cur.opening ELSE 0)
      /\ \A f \in Columns \ {"balance"} : w[f] = new[f]
  BY <1>4 DEF A!BalanceAfter, Columns
<1>6. A!TypeChangeAllowed(q) /\ A!NonTypeAllowed(q, row)
  BY <1>1 DEF A!UpdateOk
<1>7. /\ row.type = to /\ row.active = cur.active /\ row.dflt = cur.dflt
      /\ row.opening = cur.opening /\ row.balance = cur.balance
      /\ row.source = IF to \notin A!Liability THEN 0 ELSE cur.source
      /\ row.close = IF to # "credit_card" THEN 0 ELSE cur.close
      /\ row.pay = IF to # "credit_card" THEN 0 ELSE cur.pay
      /\ (row.same <=> to = "credit_card" /\ cur.same)
      /\ (row.card <=> to = "credit_card" /\ cur.card)
      /\ (row.loan <=> to = "loan" /\ cur.loan)
  <2>1. cur \in A!AccountRow /\ to \in A!Slugs
    BY <1>1
  <2>0. PICK c \in A!AccountRow, t \in A!Slugs : c = cur /\ t = to /\ row = A!Cleared(c, t)
    BY <2>1
  <2> HIDE DEF cur, to, row
  <2>2. row.type = to /\ row.active = cur.active /\ row.dflt = cur.dflt
    BY <2>0, ClearedRow
  <2>3. /\ row.opening = cur.opening /\ row.balance = cur.balance
        /\ row.source = IF to \notin A!Liability THEN 0 ELSE cur.source
    BY <2>0, ClearedRow
  <2>4. /\ row.close = IF to # "credit_card" THEN 0 ELSE cur.close
        /\ row.pay = IF to # "credit_card" THEN 0 ELSE cur.pay
    BY <2>0, ClearedRow
  <2>5. (row.same <=> to = "credit_card" /\ cur.same)
    BY <2>0, ClearedRow
  <2>6. (row.card <=> to = "credit_card" /\ cur.card)
    BY <2>0, ClearedRow
  <2>7. (row.loan <=> to = "loan" /\ cur.loan)
    BY <2>0, ClearedRow
  <2>8. QED
    BY <2>2, <2>3, <2>4, <2>5, <2>6, <2>7
<1>8. A!CascadeValid(cur.type, to, body)
  BY <1>6 DEF A!TypeChangeAllowed
<1>9. to = "credit_card" => A!PaysAfterClose(A!Given(row, body, {"close", "pay", "same"}))
  BY <1>6 DEF A!TypeChangeAllowed
<1>10. /\ A!CardFieldsValid(A!Given(row, body, {"card", "loan", "opening"}))
       /\ A!LoanFieldsValid(A!Given(row, body, {"card", "loan", "opening"}))
       /\ "source" \in DOMAIN body => A!SourceValid(body.source, q.a)
  BY <1>6 DEF A!NonTypeAllowed
<1>11. /\ \A f \in Columns : A!Given(row, body, {"close", "pay", "same"})[f] =
             IF f \in {"close", "pay", "same"} /\ f \in DOMAIN body THEN body[f] ELSE row[f]
       /\ \A f \in Columns : A!Given(row, body, {"card", "loan", "opening"})[f] =
             IF f \in {"card", "loan", "opening"} /\ f \in DOMAIN body THEN body[f] ELSE row[f]
  BY <1>1, <1>2, GivenRow
<1> HIDE DEF q, cur, body, to, row, new, w
<1>12. w.type = to
  BY <1>3, <1>5, <1>7 DEF Columns
<1>13. /\ w.opening = IF "opening" \in DOMAIN body THEN body.opening ELSE cur.opening
       /\ w.dflt = IF "dflt" \in DOMAIN body THEN body.dflt ELSE cur.dflt
       /\ w.source = IF "source" \in DOMAIN body THEN body.source ELSE row.source
  BY <1>3, <1>5, <1>7 DEF Columns
<1>14. /\ w.close = IF "close" \in DOMAIN body THEN body.close ELSE row.close
       /\ w.pay = IF "pay" \in DOMAIN body THEN body.pay ELSE row.pay
       /\ w.same = IF "same" \in DOMAIN body THEN body.same ELSE row.same
  BY <1>3, <1>5 DEF Columns
<1>15. /\ w.card = IF "card" \in DOMAIN body THEN body.card ELSE row.card
       /\ w.loan = IF "loan" \in DOMAIN body THEN body.loan ELSE row.loan
  BY <1>3, <1>5 DEF Columns
<1>16. w.balance \in Int /\ w.balance - w.opening = cur.balance - cur.opening
  BY <1>1, <1>5, <1>13, RowFields, BodyValue
<1>17. w \in A!AccountRow
  <2>1. /\ w.type \in A!Slugs /\ w.active \in BOOLEAN /\ w.dflt \in BOOLEAN
        /\ w.opening \in Int /\ w.source \in Accts \cup {0}
        /\ w.close \in Nat /\ w.pay \in Nat /\ w.same \in BOOLEAN
        /\ w.card \in BOOLEAN /\ w.loan \in BOOLEAN
    BY <1>3, <1>5, RowFields DEF Columns
  <2>2. QED
    BY <1>4, <1>16, <2>1, IsRow
<1>18. A!CreateValid(w)
  <2>1. w.close # 0 <=> w.type = "credit_card"
    BY <1>1, <1>7, <1>8, <1>12, <1>14 DEF A!CascadeValid, A!CreateValid
  <2>2. w.type # "credit_card" => w.pay = 0 /\ ~ w.same
    BY <1>7, <1>8, <1>12, <1>14 DEF A!CascadeValid
  <2>3. A!PaysAfterClose(w)
    <3>1. CASE to = "credit_card"
      <4> DEFINE g == A!Given(row, body, {"close", "pay", "same"})
      <4>1. g.close = w.close /\ g.pay = w.pay /\ g.same = w.same
        BY <1>11, <1>14 DEF Columns
      <4>2. A!PaysAfterClose(g)
        BY <1>9, <3>1
      <4> HIDE DEF g
      <4>3. QED
        BY <4>1, <4>2 DEF A!PaysAfterClose
    <3>2. CASE to # "credit_card"
      BY <1>12, <2>2, <3>2 DEF A!PaysAfterClose
    <3>3. QED
      BY <3>1, <3>2
  <2>4. A!CardFieldsValid(w) /\ A!LoanFieldsValid(w)
    <3> DEFINE g == A!Given(row, body, {"card", "loan", "opening"})
    <3>1. g.type = w.type /\ g.card = w.card /\ g.loan = w.loan
      BY <1>7, <1>11, <1>12, <1>15 DEF Columns
    <3>2. A!CardFieldsValid(g) /\ A!LoanFieldsValid(g)
      BY <1>10
    <3> HIDE DEF g
    <3>3. QED
      BY <3>1, <3>2 DEF A!CardFieldsValid, A!LoanFieldsValid
  <2>5. QED
    BY <2>1, <2>2, <2>3, <2>4 DEF A!CreateValid
<1>19. w.source = 0 \/ w.source = cur.source \/ A!SourceValid(w.source, q.a)
  BY <1>7, <1>10, <1>13
<1>20. w.dflt => cur.dflt \/ ("dflt" \in DOMAIN body /\ body.dflt)
  BY <1>13
<1>21. QED
  BY <1>12, <1>16, <1>17, <1>18, <1>19, <1>20 DEF q, cur, body, to, w

\* An update without them leaves the columns of a type as they are.
LEMMA UntypedRowWritten ==
    ASSUME AccountsInv, NEW r \in Requests, areq[r].op = "update", A!UpdateOk(areq[r]),
           ~ A!TouchesType(areq[r].body)
    PROVE  LET w == A!RowWritten(areq[r])
               cur == acct[areq[r].a]
               body == areq[r].body
           IN  /\ w \in A!AccountRow /\ A!CreateValid(w) /\ w.type = cur.type
               /\ w.balance - w.opening = cur.balance - cur.opening
               /\ w.dflt => cur.dflt \/ ("dflt" \in DOMAIN body /\ body.dflt)
               /\ w.source = 0 \/ w.source = cur.source \/ A!SourceValid(w.source, areq[r].a)
<1> DEFINE q == areq[r]
           cur == acct[q.a]
           body == q.body
           base == A!Basis(q)
           new == A!Given(base, body, DOMAIN body \ {"type"})
           w == A!RowWritten(q)
<1>1. /\ q.a \in Accts /\ cur \in A!AccountRow /\ body \in Bodies /\ base \in A!AccountRow
      /\ "opening" \in DOMAIN body => base = cur
      /\ A!CreateValid(cur)
  BY RequestRow DEF A!Basis, AccountsInv, A!ColumnsFollowType, A!UpdateOk
<1>2. "source" \in DOMAIN body => A!SourceValid(body.source, q.a)
  BY DEF A!UpdateOk, A!NonTypeAllowed
<1>3. \A f \in {"type", "close", "pay", "same", "card", "loan"} : f \notin DOMAIN body
  BY DEF A!TouchesType, A!TypeColumns
<1>4. \A f \in Columns : new[f] = IF f # "type" /\ f \in DOMAIN body THEN body[f] ELSE base[f]
  BY <1>1, GivenRow
<1>5. /\ DOMAIN w = Columns /\ w = [f \in Columns |-> w[f]]
      /\ \A f \in Columns : w[f] = IF f = "balance" THEN A!BalanceAfter(q, cur)
                                   ELSE IF new[f] # base[f] THEN new[f] ELSE cur[f]
  BY NoAcctFields DEF A!RowWritten
<1>6. w.balance = cur.balance + (IF "opening" \in DOMAIN body THEN body.opening - cur.opening ELSE 0)
  BY <1>5 DEF A!BalanceAfter, Columns
<1> HIDE DEF q, cur, body, base, new, w
<1>7. \A f \in Columns \ {"balance"} :
          w[f] = cur[f] \/ (f \in DOMAIN body /\ w[f] = body[f])
  BY <1>4, <1>5
<1>8. /\ w.type = cur.type /\ w.close = cur.close /\ w.pay = cur.pay /\ w.same = cur.same
      /\ w.card = cur.card /\ w.loan = cur.loan
  BY <1>3, <1>7 DEF Columns
<1>9. w.opening = IF "opening" \in DOMAIN body THEN body.opening ELSE cur.opening
  BY <1>1, <1>4, <1>5 DEF Columns
<1>10. w.balance \in Int /\ w.balance - w.opening = cur.balance - cur.opening
  BY <1>1, <1>6, <1>9, RowFields, BodyValue
<1>11. /\ w.active \in BOOLEAN /\ w.dflt \in BOOLEAN /\ w.opening \in Int
       /\ w.source \in Accts \cup {0}
  BY <1>1, <1>7, RowFields, BodyValue DEF Columns
<1>12. w \in A!AccountRow
  <2>1. /\ cur.type \in A!Slugs /\ cur.close \in Nat /\ cur.pay \in Nat /\ cur.same \in BOOLEAN
        /\ cur.card \in BOOLEAN /\ cur.loan \in BOOLEAN
    BY <1>1, RowFields
  <2>2. QED
    BY <1>5, <1>8, <1>10, <1>11, <2>1, IsRow
<1>13. A!CreateValid(w)
  BY <1>1, <1>8 DEF A!CreateValid, A!PaysAfterClose, A!CardFieldsValid, A!LoanFieldsValid
<1>14. w.source = cur.source \/ A!SourceValid(w.source, q.a)
  BY <1>2, <1>7 DEF Columns
<1>15. w.dflt => cur.dflt \/ ("dflt" \in DOMAIN body /\ body.dflt)
  BY <1>7 DEF Columns
<1>16. QED
  BY <1>8, <1>10, <1>12, <1>13, <1>14, <1>15 DEF q, cur, body, w

LEMMA Written ==
    ASSUME AccountsInv, NEW r \in Requests, areq[r].op = "update", A!UpdateOk(areq[r])
    PROVE  LET w == A!RowWritten(areq[r])
               cur == acct[areq[r].a]
               body == areq[r].body
           IN  /\ areq[r].a \in Accts /\ cur \in A!AccountRow
               /\ w \in A!AccountRow /\ A!CreateValid(w)
               /\ w.type = IF A!TouchesType(body) THEN A!Target(areq[r]) ELSE cur.type
               /\ w.balance - w.opening = cur.balance - cur.opening
               /\ w.dflt => cur.dflt \/ ("dflt" \in DOMAIN body /\ body.dflt)
               /\ w.source = 0 \/ w.source = cur.source \/ A!SourceValid(w.source, areq[r].a)
<1>1. areq[r].a \in Accts /\ acct[areq[r].a] \in A!AccountRow
  BY RequestRow
<1>2. CASE A!TouchesType(areq[r].body)
  BY <1>1, <1>2, TypedRowWritten, Zenon
<1>3. CASE ~ A!TouchesType(areq[r].body)
  BY <1>1, <1>3, UntypedRowWritten, Zenon
<1>4. QED
  BY <1>2, <1>3

-----------------------------------------------------------------------------
(* What a step does to the requests. *)

LEMMA NoAcctReqRow ==
    /\ A!NoAcctReq.op = "idle" /\ A!NoAcctReq.a = 0 /\ A!NoAcctReq.b = 0
    /\ A!NoAcctReq = [op |-> A!NoAcctReq.op, a |-> A!NoAcctReq.a, b |-> A!NoAcctReq.b,
                      body |-> A!NoAcctReq.body, admin |-> A!NoAcctReq.admin,
                      row |-> A!NoAcctReq.row, from |-> A!NoAcctReq.from]
  BY DEF A!NoAcctReq

\* A request that ends leaves no request that runs alone.
LEMMA AcctRequestEnds ==
    ASSUME AccountsInv, NEW r \in Requests, Busy(r), UNCHANGED single,
           areq' = [areq EXCEPT ![r] = A!NoAcctReq]
    PROVE  DOMAIN areq' = Requests /\ (\A p \in Requests : AcctAsked(p)' /\ Alone(p)')
<1>1. /\ DOMAIN areq' = Requests /\ areq'[r] = A!NoAcctReq
      /\ \A p \in Requests \ {r} : areq'[p] = areq[p]
  BY DEF AccountsInv, AccountTypes
<1>2. AcctAsked(r)' /\ Alone(r)'
  BY <1>1, NoAcctReqRow DEF AcctAsked, Alone, Busy, AcctOps
<1>3. ASSUME NEW p \in Requests \ {r}
      PROVE  AcctAsked(p)' /\ Alone(p)'
  <2>1. AcctAsked(p)'
    BY <1>1 DEF AccountsInv, AcctAsked, Busy
  <2>2. single => ~ Busy(p)
    BY DEF AccountsInv, Alone
  <2>3. Alone(p)'
    BY <1>1, <2>2 DEF Alone, Busy
  <2>4. QED
    BY <2>1, <2>3
<1>4. QED
  BY <1>1, <1>2, <1>3

\* A request that begins has read what is there.
LEMMA AcctRequestBegins ==
    ASSUME AccountsInv, NEW r \in Requests, NEW op \in AcctOps \ {"idle"}, NEW a \in Accts, NEW b,
           NEW body, NEW admin, A!BeginAcct(r, op, a, b, body, admin),
           op = "update" => body \in Bodies, op = "series" => b \in Accts,
           op = "cycle" => acct[a].type = "credit_card",
           op = "series" => acct[a].type \notin A!Liability
    PROVE  AccountsInv'
<1>1. UNCHANGED <<acct, posted, settled, cycles, series, single>> /\ ~ Busy(r)
      /\ (single => \A p \in Requests : ~ Busy(p)) /\ acct[a] # A!NoAcct
  BY DEF A!BeginAcct, A!AcctsQuiet, Busy, A!IsAcct
<1>2. acct[a] \in A!AccountRow
  BY <1>1 DEF AccountsInv, AccountTypes
<1> DEFINE q == [op |-> op, a |-> a, b |-> b, body |-> body, admin |-> admin, row |-> acct[a],
                 from |-> {s[1] : s \in series}]
<1>3. /\ q.op = op /\ q.a = a /\ q.b = b /\ q.body = body /\ q.row = acct[a]
      /\ q.from = {s[1] : s \in series}
      /\ q = [op |-> q.op, a |-> q.a, b |-> q.b, body |-> q.body, admin |-> q.admin, row |-> q.row,
              from |-> q.from]
  OBVIOUS
<1>4. areq' = [areq EXCEPT ![r] = q]
  BY DEF A!BeginAcct
<1> HIDE DEF q
<1>5. /\ DOMAIN areq' = Requests /\ areq'[r] = q
      /\ \A p \in Requests \ {r} : areq'[p] = areq[p]
  BY <1>4 DEF AccountsInv, AccountTypes
<1>6. AcctAsked(r)'
  BY <1>2, <1>3, <1>5 DEF AcctAsked, Busy
<1>7. Alone(r)'
  BY <1>1, <1>3, <1>5 DEF Alone, Busy
<1>8. ASSUME NEW p \in Requests \ {r}
      PROVE  AcctAsked(p)' /\ Alone(p)'
  <2>1. AcctAsked(p)'
    BY <1>5 DEF AccountsInv, AcctAsked, Busy
  <2>2. Alone(p)'
    BY <1>1, <1>5 DEF Alone, Busy
  <2>3. QED
    BY <2>1, <2>2
<1>9. AccountTypes'
  BY <1>1, <1>5 DEF AccountsInv, AccountTypes
<1>10. A!AccountsTypeOK' /\ A!ColumnsFollowType' /\ A!OpeningCounted' /\ A!OneDefault'
       /\ A!DependentsFollowType'
  BY <1>1 DEF AccountsInv, A!AccountsTypeOK, A!ColumnsFollowType, A!OpeningCounted, A!OneDefault,
              A!DependentsFollowType, A!IsAcct
<1>11. QED
  BY <1>6, <1>7, <1>8, <1>9, <1>10 DEF AccountsInv

-----------------------------------------------------------------------------
(* Steps. *)

LEMMA RowHere ==
    ASSUME AccountsInv, NEW a \in Accts
    PROVE  /\ acct[a] \in A!AccountRow \/ acct[a] = A!NoAcct
           /\ A!IsAcct(a) <=> acct[a] \in A!AccountRow
           /\ posted[a] \in Int /\ acct[a].balance \in Int /\ acct[a].opening \in Int
           /\ acct[a].balance = acct[a].opening + posted[a]
           /\ acct[a].source # 0 => acct[a].source # a /\ A!IsAcct(acct[a].source)
           /\ acct[a].source \in Accts \cup {0}
<1>1. acct[a] \in A!AccountRow \/ acct[a] = A!NoAcct
  BY DEF AccountsInv, AccountTypes
<1>2. A!IsAcct(a) <=> acct[a] \in A!AccountRow
  BY <1>1, NoAcctFields DEF A!IsAcct
<1>3. acct[a].balance \in Int /\ acct[a].opening \in Int /\ acct[a].source \in Accts \cup {0}
  BY <1>1, NoAcctFields, RowFields
<1>4. QED
  BY <1>1, <1>2, <1>3 DEF AccountsInv, AccountTypes, A!OpeningCounted, A!AccountsTypeOK

\* The other rows: one may stop being the default.
LEMMA OthersKept ==
    ASSUME AccountsInv, NEW q, NEW b \in Accts
    PROVE  LET w == A!OthersWritten(q, b)
               cur == acct[b]
           IN  /\ w \in A!AccountRow <=> cur \in A!AccountRow
               /\ w = A!NoAcct <=> cur = A!NoAcct
               /\ w.type = cur.type /\ w.opening = cur.opening /\ w.balance = cur.balance
               /\ w.source = cur.source
               /\ A!CreateValid(cur) => A!CreateValid(w)
               /\ w.dflt => cur.dflt /\ ~ ("dflt" \in DOMAIN q.body /\ q.body.dflt)
<1> DEFINE w == A!OthersWritten(q, b)
           cur == acct[b]
<1>1. CASE cur = A!NoAcct
  <2>1. w = cur
    BY <1>1 DEF A!OthersWritten, A!IsAcct
  <2>2. QED
    BY <1>1, <2>1, NoAcctFields
<1>2. CASE cur \in A!AccountRow /\ ~ ("dflt" \in DOMAIN q.body /\ q.body.dflt)
  <2>1. w = cur
    BY <1>2 DEF A!OthersWritten
  <2>2. QED
    BY <1>2, <2>1
<1>3. CASE cur \in A!AccountRow /\ "dflt" \in DOMAIN q.body /\ q.body.dflt
  <2>1. cur # A!NoAcct
    BY <1>3, NoAcctFields
  <2>2. w = [cur EXCEPT !.dflt = FALSE]
    BY <1>3, <2>1 DEF A!OthersWritten, A!IsAcct
  <2>3. /\ w \in A!AccountRow /\ ~ w.dflt /\ w.type = cur.type /\ w.opening = cur.opening
        /\ w.balance = cur.balance /\ w.source = cur.source /\ w.close = cur.close
        /\ w.pay = cur.pay /\ w.same = cur.same /\ w.card = cur.card /\ w.loan = cur.loan
    BY <1>3, <2>2 DEF A!AccountRow
  <2> HIDE DEF w, cur
  <2>4. A!CreateValid(cur) => A!CreateValid(w)
    BY <2>3 DEF A!CreateValid, A!PaysAfterClose, A!CardFieldsValid, A!LoanFieldsValid
  <2>5. w # A!NoAcct
    BY <2>3, NoAcctFields
  <2>6. QED
    BY <1>3, <2>1, <2>3, <2>4, <2>5 DEF w, cur
<1>4. QED
  BY <1>1, <1>2, <1>3, RowHere

\* While requests run one at a time, dependents suit the type an update leaves.
LEMMA DependentsAfterUpdate ==
    ASSUME AccountsInv, NEW r \in Requests, A!CommitUpdate(r)
    PROVE  A!DependentsFollowType'
<1> DEFINE q == areq[r]
           to == A!Target(q)
<1>1. /\ q.op = "update" /\ A!UpdateOk(q) /\ q.a \in Accts /\ cycles' = A!CyclesAfter(q)
      /\ UNCHANGED <<series, single>> /\ AccountTypes
  BY DEF A!CommitUpdate, AccountsInv, AcctAsked, Busy
<1>2. \A b \in Accts : acct'[b] = IF b = q.a THEN A!RowWritten(q) ELSE A!OthersWritten(q, b)
  BY DEF A!CommitUpdate
<1>3. \A b \in Accts \ {q.a} : acct'[b].type = acct[b].type
  BY <1>2, OthersKept
<1>4. acct'[q.a].type = IF A!TouchesType(q.body) THEN to ELSE acct[q.a].type
  BY <1>1, <1>2, Written
<1>5. SUFFICES ASSUME single
               PROVE  /\ \A a \in cycles' : acct'[a].type = "credit_card"
                      /\ \A s \in series : acct'[s[1]].type \notin A!Liability
  BY <1>1 DEF A!DependentsFollowType
<1>6. /\ \A a \in cycles : acct[a].type = "credit_card"
      /\ \A s \in series : acct[s[1]].type \notin A!Liability
      /\ cycles \subseteq Accts /\ \A s \in series : s[1] \in Accts
  BY <1>5 DEF AccountsInv, A!DependentsFollowType, AccountTypes
<1>7. /\ \A a \in cycles' : a \in cycles
      /\ A!TouchesType(q.body) /\ to # "credit_card" => q.a \notin cycles'
  BY <1>1 DEF A!CyclesAfter
<1>8. \A a \in cycles' : acct'[a].type = "credit_card"
  BY <1>3, <1>4, <1>6, <1>7
<1>9. A!TouchesType(q.body) /\ q.a \in {s[1] : s \in series} =>
          to = acct[q.a].type \/ to \notin A!Liability
  <2>1. q.from = {s[1] : s \in series}
    BY <1>1, <1>5 DEF AccountsInv, Alone, Busy
  <2>2. A!SourcesSeen(q) = {s[1] : s \in series}
    BY <2>1 DEF A!SourcesSeen
  <2>3. QED
    BY <1>1, <2>2 DEF A!UpdateOk, A!TypeChangeAllowed
<1>10. ASSUME NEW s \in series
       PROVE  acct'[s[1]].type \notin A!Liability
  <2>1. CASE s[1] # q.a
    BY <1>3, <1>6, <2>1
  <2>2. CASE s[1] = q.a
    <3>1. q.a \in {x[1] : x \in series}
      BY <2>2
    <3>2. acct[q.a].type \notin A!Liability
      BY <1>6, <2>2
    <3>3. acct'[q.a].type \notin A!Liability
      BY <1>4, <1>9, <3>1, <3>2
    <3>4. QED
      BY <2>2, <3>3
  <2>3. QED
    BY <2>1, <2>2
<1>11. QED
  BY <1>8, <1>10

LEMMA UpdateKeeps ==
    ASSUME AccountsInv, NEW r \in Requests, A!CommitUpdate(r)
    PROVE  AccountsInv'
<1> DEFINE q == areq[r]
           to == A!Target(q)
           w == A!RowWritten(q)
<1>1. /\ q.op = "update" /\ A!UpdateOk(q) /\ cycles' = A!CyclesAfter(q)
      /\ UNCHANGED <<posted, settled, series, single>>
      /\ areq' = [areq EXCEPT ![r] = A!NoAcctReq]
      /\ acct' = [b \in Accts |-> IF b = q.a THEN w ELSE A!OthersWritten(q, b)]
  BY DEF A!CommitUpdate
<1>2. DOMAIN areq' = Requests /\ (\A p \in Requests : AcctAsked(p)' /\ Alone(p)')
  BY <1>1, AcctRequestEnds DEF Busy
<1>3. /\ q.a \in Accts /\ acct[q.a] \in A!AccountRow
      /\ w \in A!AccountRow /\ A!CreateValid(w)
      /\ w.balance - w.opening = acct[q.a].balance - acct[q.a].opening
      /\ w.dflt => acct[q.a].dflt \/ ("dflt" \in DOMAIN q.body /\ q.body.dflt)
      /\ w.source = 0 \/ w.source = acct[q.a].source \/ A!SourceValid(w.source, q.a)
  BY <1>1, Written
<1>4. acct'[q.a] = w /\ \A b \in Accts \ {q.a} : acct'[b] = A!OthersWritten(q, b)
  BY <1>1, <1>3
<1>5. w # A!NoAcct
  BY <1>3, NoAcctFields
<1> HIDE DEF w
<1>6. \A b \in Accts : acct'[b] \in A!AccountRow \/ acct'[b] = A!NoAcct
  BY <1>3, <1>4, OthersKept, RowHere
<1>7. \A b \in Accts : A!IsAcct(b)' <=> A!IsAcct(b)
  BY <1>3, <1>4, <1>5, OthersKept, NoAcctFields DEF A!IsAcct
<1>8. cycles' \subseteq cycles
  BY <1>1 DEF A!CyclesAfter
<1>9. AccountTypes'
  BY <1>1, <1>2, <1>6, <1>8 DEF AccountsInv, AccountTypes
<1>10. A!AccountsTypeOK'
  <2>1. \A b \in Accts : A!IsAcct(b)' => acct'[b] \in A!AccountRow
    BY <1>6 DEF A!IsAcct
  <2>2. ASSUME NEW b \in Accts, acct'[b].source # 0
        PROVE  acct'[b].source # b /\ acct'[acct'[b].source] # A!NoAcct
    <3>1. acct'[b].source \in Accts /\ acct'[b].source # b /\ A!IsAcct(acct'[b].source)
      <4>1. CASE b = q.a
        <5>1. w.source \in Accts
          BY <1>3, <1>4, <2>2, <4>1, RowFields
        <5>2. w.source # q.a /\ A!IsAcct(w.source)
          BY <1>3, <1>4, <2>2, <4>1, RowHere DEF A!SourceValid
        <5>3. QED
          BY <1>4, <4>1, <5>1, <5>2
      <4>2. CASE b # q.a
        <5>1. acct'[b].source = acct[b].source
          BY <1>4, <4>2, OthersKept
        <5>2. QED
          BY <2>2, <5>1, RowHere
      <4>3. QED
        BY <4>1, <4>2
    <3>2. PICK c \in Accts : c = acct'[b].source
      BY <3>1
    <3>3. A!IsAcct(c)'
      BY <1>7, <3>1, <3>2
    <3>4. QED
      BY <3>1, <3>2, <3>3 DEF A!IsAcct
  <2>3. /\ \A a \in cycles' \cup settled' : A!IsAcct(a)'
        /\ \A s \in series' : A!IsAcct(s[1])' /\ A!IsAcct(s[2])'
    BY <1>1, <1>7, <1>8 DEF AccountsInv, A!AccountsTypeOK, AccountTypes
  <2>4. QED
    BY <2>1, <2>2, <2>3 DEF A!AccountsTypeOK, A!IsAcct
<1>11. A!ColumnsFollowType'
  <2>1. ASSUME NEW b \in Accts, A!IsAcct(b)'
        PROVE  A!CreateValid(acct'[b])
    <3>1. CASE b = q.a
      BY <1>3, <1>4, <3>1
    <3>2. CASE b # q.a
      <4>1. A!CreateValid(acct[b])
        BY <1>7, <2>1 DEF AccountsInv, A!ColumnsFollowType
      <4>2. QED
        BY <1>4, <3>2, <4>1, OthersKept
    <3>3. QED
      BY <3>1, <3>2
  <2>2. QED
    BY <2>1 DEF A!ColumnsFollowType, A!CreateValid, A!PaysAfterClose, A!CardFieldsValid,
                A!LoanFieldsValid, A!IsAcct
<1>12. A!OpeningCounted'
  <2>1. ASSUME NEW b \in Accts
        PROVE  acct'[b].balance = acct'[b].opening + posted[b]
    <3>1. CASE b = q.a
      <4>1. w.balance \in Int /\ w.opening \in Int
        BY <1>3, RowFields
      <4>2. QED
        BY <1>3, <1>4, <3>1, <4>1, RowHere
    <3>2. CASE b # q.a
      <4>1. acct'[b].balance = acct[b].balance /\ acct'[b].opening = acct[b].opening
        BY <1>4, <3>2, OthersKept
      <4>2. QED
        BY <4>1, RowHere
    <3>3. QED
      BY <3>1, <3>2
  <2>2. QED
    BY <1>1, <2>1 DEF A!OpeningCounted
<1>13. A!OneDefault'
  <2>1. \A b \in Accts \ {q.a} :
            acct'[b].dflt => acct[b].dflt /\ ~ ("dflt" \in DOMAIN q.body /\ q.body.dflt)
    BY <1>4, OthersKept
  <2>2. acct'[q.a].dflt => acct[q.a].dflt \/ ("dflt" \in DOMAIN q.body /\ q.body.dflt)
    BY <1>3, <1>4
  <2>3. QED
    BY <1>3, <2>1, <2>2 DEF AccountsInv, A!OneDefault
<1>14. A!DependentsFollowType'
  BY DependentsAfterUpdate
<1>15. QED
  BY <1>2, <1>9, <1>10, <1>11, <1>12, <1>13, <1>14 DEF AccountsInv

LEMMA CreateKeeps ==
    ASSUME AccountsInv, NEW a \in Accts, NEW row \in NewRows, A!CreateAccount(a, row)
    PROVE  AccountsInv'
<1> DEFINE w == [row EXCEPT !.balance = row.opening]
<1>1. /\ acct[a] = A!NoAcct /\ A!CreateValid(row) /\ A!SourceValid(row.source, 0)
      /\ \A r \in Requests : areq[r].a # a
      /\ acct' = [acct EXCEPT ![a] = w]
      /\ UNCHANGED <<posted, settled, cycles, series, areq, single>>
  BY DEF A!CreateAccount, A!IsAcct
<1>2. row \in A!AccountRow /\ ~ row.dflt
  BY AccountSizes
<1>3. /\ w \in A!AccountRow /\ w.balance = row.opening /\ w.opening = row.opening /\ ~ w.dflt
      /\ w.type = row.type /\ w.close = row.close /\ w.pay = row.pay /\ w.same = row.same
      /\ w.card = row.card /\ w.loan = row.loan /\ w.source = row.source
  BY <1>2 DEF A!AccountRow
<1> HIDE DEF w
<1>4. w # A!NoAcct /\ w.opening \in Int /\ w.source \in Accts \cup {0}
  BY <1>3, RowFields
<1>5. A!CreateValid(w)
  BY <1>1, <1>3 DEF A!CreateValid, A!PaysAfterClose, A!CardFieldsValid, A!LoanFieldsValid
<1>6. acct'[a] = w /\ \A b \in Accts \ {a} : acct'[b] = acct[b]
  BY <1>1 DEF AccountsInv, AccountTypes
<1>7. AccountTypes'
  BY <1>1, <1>3 DEF AccountsInv, AccountTypes
<1>8. \A b \in Accts : A!IsAcct(b) => b # a
  BY <1>1 DEF A!IsAcct
<1>9. ASSUME NEW r \in Requests
      PROVE  AcctAsked(r)' /\ Alone(r)'
  <2>1. AcctAsked(r)'
    BY <1>1 DEF AccountsInv, AcctAsked, Busy
  <2>2. CASE single /\ Busy(r)
    <3>1. areq[r].a \in Accts \ {a}
      BY <1>1, <2>2 DEF AccountsInv, AcctAsked
    <3>2. acct'[areq[r].a] = acct[areq[r].a]
      BY <1>6, <3>1
    <3>3. Alone(r)
      BY DEF AccountsInv
    <3>4. QED
      BY <1>1, <2>1, <3>2, <3>3 DEF Alone, Busy
  <2>3. CASE ~ (single /\ Busy(r))
    BY <1>1, <2>1, <2>3 DEF Alone, Busy
  <2>4. QED
    BY <2>1, <2>2, <2>3
<1>10. A!AccountsTypeOK'
  <2>1. \A b \in Accts : acct'[b] # A!NoAcct => acct'[b] \in A!AccountRow
    BY <1>3, <1>6, RowHere DEF A!IsAcct
  <2>2. ASSUME NEW b \in Accts, acct'[b].source # 0
        PROVE  acct'[b].source # b /\ acct'[acct'[b].source] # A!NoAcct
    <3>1. acct'[b].source \in Accts /\ A!IsAcct(acct'[b].source) /\ acct'[b].source # b
      <4>1. CASE b = a
        <5>1. row.source \in Accts /\ A!IsAcct(row.source)
          BY <1>1, <1>3, <1>4, <1>6, <2>2, <4>1 DEF A!SourceValid
        <5>2. QED
          BY <1>3, <1>6, <1>8, <4>1, <5>1
      <4>2. CASE b # a
        BY <1>6, <2>2, <4>2, RowHere
      <4>3. QED
        BY <4>1, <4>2
    <3>2. PICK c \in Accts : c = acct'[b].source
      BY <3>1
    <3>3. c # a /\ acct[c] # A!NoAcct
      BY <1>8, <3>1, <3>2 DEF A!IsAcct
    <3>4. QED
      BY <1>6, <3>1, <3>2, <3>3
  <2>3. /\ \A b \in cycles \cup settled : acct'[b] # A!NoAcct
        /\ \A s \in series : acct'[s[1]] # A!NoAcct /\ acct'[s[2]] # A!NoAcct
    <3>1. \A b \in Accts : A!IsAcct(b) => acct'[b] # A!NoAcct
      BY <1>6, <1>8 DEF A!IsAcct
    <3>2. QED
      BY <3>1 DEF AccountsInv, A!AccountsTypeOK, AccountTypes
  <2>4. QED
    BY <1>1, <2>1, <2>2, <2>3 DEF A!AccountsTypeOK, A!IsAcct
<1>11. A!ColumnsFollowType' /\ A!OneDefault'
  <2>1. \A b \in Accts : acct'[b] # A!NoAcct => A!CreateValid(acct'[b])
    BY <1>5, <1>6 DEF AccountsInv, A!ColumnsFollowType, A!IsAcct
  <2>2. \A b \in Accts : acct'[b].dflt => acct[b].dflt
    BY <1>3, <1>6
  <2>3. A!OneDefault'
    BY <2>2 DEF AccountsInv, A!OneDefault
  <2>4. QED
    BY <2>1, <2>3 DEF A!ColumnsFollowType, A!CreateValid, A!PaysAfterClose, A!CardFieldsValid,
                A!LoanFieldsValid, A!IsAcct
<1>12. A!OpeningCounted'
  <2>1. posted[a] = 0
    <3>1. acct[a].balance = acct[a].opening + posted[a] /\ posted[a] \in Int
      BY RowHere
    <3>2. QED
      BY <1>1, <3>1, NoAcctFields
  <2>2. \A b \in Accts : acct'[b].balance = acct'[b].opening + posted[b]
    BY <1>3, <1>4, <1>6, <2>1, RowHere
  <2>3. QED
    BY <1>1, <2>2 DEF A!OpeningCounted
<1>13. A!DependentsFollowType'
  <2>1. /\ \A b \in cycles : b \in Accts \ {a} /\ acct'[b] = acct[b]
        /\ \A s \in series : s[1] \in Accts \ {a} /\ acct'[s[1]] = acct[s[1]]
    BY <1>6, <1>8 DEF AccountsInv, A!AccountsTypeOK, AccountTypes
  <2>2. QED
    BY <1>1, <2>1 DEF AccountsInv, A!DependentsFollowType
<1>14. QED
  BY <1>7, <1>9, <1>10, <1>11, <1>12, <1>13 DEF AccountsInv

LEMMA DeleteKeeps ==
    ASSUME AccountsInv, NEW r \in Requests, A!CommitDelete(r)
    PROVE  AccountsInv'
<1> DEFINE a == areq[r].a
<1>1. /\ areq[r].op = "delete" /\ a \notin settled /\ \A s \in series : a \notin {s[1], s[2]}
      /\ posted' = [posted EXCEPT ![a] = 0] /\ cycles' = cycles \ {a}
      /\ areq' = [areq EXCEPT ![r] = A!NoAcctReq] /\ UNCHANGED <<settled, series, single>>
      /\ acct' = [b \in Accts |->
            IF b = a THEN A!NoAcct
            ELSE IF acct[b].source = a THEN [acct[b] EXCEPT !.source = 0] ELSE acct[b]]
  BY DEF A!CommitDelete
<1>2. DOMAIN areq' = Requests /\ (\A p \in Requests : AcctAsked(p)' /\ Alone(p)')
  BY <1>1, AcctRequestEnds DEF Busy
<1>3. a \in Accts
  BY <1>1 DEF AccountsInv, AcctAsked, Busy
<1>4. 0 \notin Accts
  BY AccountSizes
<1>5. ASSUME NEW b \in Accts \ {a}
      PROVE  /\ acct'[b] \in A!AccountRow \/ acct'[b] = A!NoAcct
             /\ acct'[b] # A!NoAcct <=> acct[b] # A!NoAcct
             /\ acct'[b].type = acct[b].type /\ acct'[b].dflt = acct[b].dflt
             /\ acct'[b].balance = acct[b].balance /\ acct'[b].opening = acct[b].opening
             /\ A!CreateValid(acct[b]) => A!CreateValid(acct'[b])
             /\ acct'[b].source = IF acct[b].source = a THEN 0 ELSE acct[b].source
  <2>1. CASE acct[b].source = a
    <3>1. acct[b] \in A!AccountRow
      BY <1>3, <1>4, <2>1, RowHere, NoAcctFields
    <3>2. PICK cur \in A!AccountRow : cur = acct[b]
      BY <3>1
    <3>3. PICK w : w = [cur EXCEPT !.source = 0]
      OBVIOUS
    <3>4. /\ w \in A!AccountRow /\ w.type = cur.type /\ w.dflt = cur.dflt /\ w.source = 0
          /\ w.balance = cur.balance /\ w.opening = cur.opening /\ w.close = cur.close
          /\ w.pay = cur.pay /\ w.same = cur.same /\ w.card = cur.card /\ w.loan = cur.loan
      BY <3>3 DEF A!AccountRow
    <3>5. A!CreateValid(cur) => A!CreateValid(w)
      BY <3>4 DEF A!CreateValid, A!PaysAfterClose, A!CardFieldsValid, A!LoanFieldsValid
    <3>6. w # A!NoAcct /\ cur # A!NoAcct
      BY <3>4, NoAcctFields
    <3>7. acct'[b] = w
      BY <1>1, <2>1, <3>2, <3>3
    <3>8. QED
      BY <2>1, <3>2, <3>4, <3>5, <3>6, <3>7
  <2>2. CASE acct[b].source # a
    <3>1. acct'[b] = acct[b]
      BY <1>1, <2>2
    <3>2. QED
      BY <2>2, <3>1, RowHere
  <2>3. QED
    BY <2>1, <2>2
<1>6. acct'[a] = A!NoAcct
  BY <1>1, <1>3
<1>7. AccountTypes'
  <2>1. acct' \in [Accts -> A!AccountRow \cup {A!NoAcct}]
    <3>1. \A b \in Accts : acct'[b] \in A!AccountRow \cup {A!NoAcct}
      BY <1>5, <1>6
    <3>2. QED
      BY <1>1, <3>1
  <2>2. posted' \in [Accts -> Int] /\ cycles' \subseteq Accts
    BY <1>1, <1>3 DEF AccountsInv, AccountTypes
  <2>3. QED
    BY <1>1, <1>2, <2>1, <2>2 DEF AccountsInv, AccountTypes
<1>8. A!AccountsTypeOK'
  <2>1. \A b \in Accts : acct'[b] # A!NoAcct => acct'[b] \in A!AccountRow
    BY <1>5, <1>6
  <2>2. ASSUME NEW b \in Accts, acct'[b].source # 0
        PROVE  acct'[b].source # b /\ acct'[acct'[b].source] # A!NoAcct
    <3>1. b # a
      BY <1>6, <2>2, NoAcctFields
    <3>2. acct'[b].source = acct[b].source /\ acct[b].source # a /\ acct[b].source # 0
      BY <1>5, <2>2, <3>1
    <3>3. acct[b].source \in Accts \ {a} /\ acct[b].source # b /\ acct[acct[b].source] # A!NoAcct
      BY <3>2, RowHere DEF A!IsAcct
    <3>4. PICK c \in Accts \ {a} : c = acct[b].source
      BY <3>3
    <3>5. acct'[c] # A!NoAcct
      BY <1>5, <3>3, <3>4
    <3>6. QED
      BY <3>2, <3>3, <3>4, <3>5
  <2>3. /\ \A b \in cycles' \cup settled : acct'[b] # A!NoAcct
        /\ \A s \in series : acct'[s[1]] # A!NoAcct /\ acct'[s[2]] # A!NoAcct
    <3>1. \A b \in Accts \ {a} : A!IsAcct(b) => acct'[b] # A!NoAcct
      BY <1>5 DEF A!IsAcct
    <3>2. QED
      BY <1>1, <3>1 DEF AccountsInv, A!AccountsTypeOK, AccountTypes
  <2>4. QED
    BY <1>1, <2>1, <2>2, <2>3 DEF A!AccountsTypeOK, A!IsAcct
<1>9. A!ColumnsFollowType'
  <2>1. \A b \in Accts : acct'[b] # A!NoAcct => A!CreateValid(acct'[b])
    BY <1>5, <1>6 DEF AccountsInv, A!ColumnsFollowType, A!IsAcct
  <2>2. QED
    BY <2>1 DEF A!ColumnsFollowType, A!CreateValid, A!PaysAfterClose, A!CardFieldsValid,
                A!LoanFieldsValid, A!IsAcct
<1>10. A!OneDefault'
  <2>1. \A b \in Accts : acct'[b].dflt => acct[b].dflt
    BY <1>5, <1>6, NoAcctFields
  <2>2. QED
    BY <2>1 DEF AccountsInv, A!OneDefault
<1>11. A!OpeningCounted'
  <2>1. posted'[a] = 0 /\ \A b \in Accts \ {a} : posted'[b] = posted[b]
    BY <1>1, <1>3 DEF AccountsInv, AccountTypes
  <2>2. \A b \in Accts : acct'[b].balance = acct'[b].opening + posted'[b]
    BY <1>5, <1>6, <2>1, RowHere, NoAcctFields
  <2>3. QED
    BY <2>2 DEF A!OpeningCounted
<1>12. A!DependentsFollowType'
  <2>1. /\ \A b \in cycles' : b \in cycles /\ b \in Accts \ {a} /\ acct'[b].type = acct[b].type
        /\ \A s \in series : s[1] \in Accts \ {a} /\ acct'[s[1]].type = acct[s[1]].type
    BY <1>1, <1>5 DEF AccountsInv, AccountTypes
  <2>2. QED
    BY <1>1, <2>1 DEF AccountsInv, A!DependentsFollowType
<1>13. QED
  BY <1>2, <1>7, <1>8, <1>9, <1>10, <1>11, <1>12 DEF AccountsInv

LEMMA AdjustKeeps ==
    ASSUME AccountsInv, NEW a \in Accts, NEW target \in {0, 1}, A!AdjustBalance(a, target)
    PROVE  AccountsInv'
<1>1. /\ acct[a] # A!NoAcct /\ (single => \A r \in Requests : ~ Busy(r))
      /\ posted' = [posted EXCEPT ![a] = @ + target - acct[a].balance]
      /\ settled' = settled \cup {a} /\ acct' = [acct EXCEPT ![a].balance = target]
      /\ UNCHANGED <<cycles, series, areq, single>>
  BY DEF A!AdjustBalance, A!IsAcct, A!AcctsQuiet, Busy
<1>2. PICK cur \in A!AccountRow : cur = acct[a]
  BY <1>1, RowHere DEF A!IsAcct
<1>3. PICK w : w = [cur EXCEPT !.balance = target]
  OBVIOUS
<1>4. /\ w \in A!AccountRow /\ w.type = cur.type /\ w.dflt = cur.dflt /\ w.source = cur.source
      /\ w.balance = target /\ w.opening = cur.opening /\ w.close = cur.close
      /\ w.pay = cur.pay /\ w.same = cur.same /\ w.card = cur.card /\ w.loan = cur.loan
  BY <1>3 DEF A!AccountRow
<1>5. (A!CreateValid(cur) => A!CreateValid(w)) /\ w # A!NoAcct /\ cur # A!NoAcct
  BY <1>2, <1>4, NoAcctFields
     DEF A!CreateValid, A!PaysAfterClose, A!CardFieldsValid, A!LoanFieldsValid
<1>6. acct' = [acct EXCEPT ![a] = w]
  BY <1>1, <1>2, <1>3
<1>7. acct'[a] = w /\ \A b \in Accts \ {a} : acct'[b] = acct[b]
  BY <1>6 DEF AccountsInv, AccountTypes
<1>8. posted'[a] = posted[a] + target - cur.balance /\ \A b \in Accts \ {a} : posted'[b] = posted[b]
  BY <1>1, <1>2 DEF AccountsInv, AccountTypes
<1>9. AccountTypes'
  <2>1. acct' \in [Accts -> A!AccountRow \cup {A!NoAcct}]
    BY <1>4, <1>6 DEF AccountsInv, AccountTypes
  <2>2. \A b \in Accts : posted'[b] \in Int
    BY <1>2, <1>8, RowHere, RowFields
  <2>3. posted' \in [Accts -> Int] /\ settled' \subseteq Accts
    BY <1>1, <2>2 DEF AccountsInv, AccountTypes
  <2>4. QED
    BY <1>1, <2>1, <2>3 DEF AccountsInv, AccountTypes
<1>10. ASSUME NEW r \in Requests
       PROVE  AcctAsked(r)' /\ Alone(r)'
  <2>1. AcctAsked(r)'
    BY <1>1 DEF AccountsInv, AcctAsked, Busy
  <2>2. Alone(r)'
    BY <1>1 DEF Alone, Busy
  <2>3. QED
    BY <2>1, <2>2
<1>11. \A b \in Accts : /\ acct'[b].type = acct[b].type /\ acct'[b].dflt = acct[b].dflt
                        /\ acct'[b].source = acct[b].source
                        /\ acct'[b] # A!NoAcct <=> acct[b] # A!NoAcct
  BY <1>2, <1>4, <1>5, <1>7
<1>12. A!AccountsTypeOK'
  <2>1. \A b \in Accts : acct'[b] # A!NoAcct => acct'[b] \in A!AccountRow
    BY <1>9 DEF AccountTypes
  <2>2. ASSUME NEW b \in Accts, acct'[b].source # 0
        PROVE  acct'[b].source # b /\ acct'[acct'[b].source] # A!NoAcct
    <3>1. /\ acct'[b].source = acct[b].source /\ acct[b].source \in Accts
          /\ acct[b].source # b /\ acct[acct[b].source] # A!NoAcct
      BY <1>11, <2>2, RowHere DEF A!IsAcct
    <3>2. PICK c \in Accts : c = acct[b].source
      BY <3>1
    <3>3. acct'[c] # A!NoAcct
      BY <1>11, <3>1, <3>2
    <3>4. QED
      BY <3>1, <3>2, <3>3
  <2>3. /\ \A b \in cycles \cup settled' : acct'[b] # A!NoAcct
        /\ \A s \in series : acct'[s[1]] # A!NoAcct /\ acct'[s[2]] # A!NoAcct
    BY <1>1, <1>11 DEF AccountsInv, A!AccountsTypeOK, AccountTypes, A!IsAcct
  <2>4. QED
    BY <1>1, <2>1, <2>2, <2>3 DEF A!AccountsTypeOK, A!IsAcct
<1>13. A!ColumnsFollowType'
  <2>1. \A b \in Accts : acct'[b] # A!NoAcct => A!CreateValid(acct'[b])
    BY <1>2, <1>5, <1>7 DEF AccountsInv, A!ColumnsFollowType, A!IsAcct
  <2>2. QED
    BY <2>1 DEF A!ColumnsFollowType, A!CreateValid, A!PaysAfterClose, A!CardFieldsValid,
                A!LoanFieldsValid, A!IsAcct
<1>14. A!OneDefault'
  BY <1>11 DEF AccountsInv, A!OneDefault
<1>15. A!OpeningCounted'
  <2>1. \A b \in Accts : acct'[b].balance = acct'[b].opening + posted'[b]
    BY <1>2, <1>4, <1>7, <1>8, RowHere, RowFields
  <2>2. QED
    BY <2>1 DEF A!OpeningCounted
<1>16. A!DependentsFollowType'
  BY <1>1, <1>11 DEF AccountsInv, A!DependentsFollowType, AccountTypes
<1>17. QED
  BY <1>9, <1>10, <1>12, <1>13, <1>14, <1>15, <1>16 DEF AccountsInv

\* Requests that write what depends on an account, or nothing.
LEMMA DependentKeeps ==
    ASSUME AccountsInv, NEW r \in Requests,
           A!CommitCycle(r) \/ A!CommitSeries(r) \/ A!RefuseAcct(r)
    PROVE  AccountsInv'
<1>1. /\ areq' = [areq EXCEPT ![r] = A!NoAcctReq] /\ Busy(r)
      /\ UNCHANGED <<acct, posted, settled, single>>
  BY DEF A!CommitCycle, A!CommitSeries, A!RefuseAcct, Busy
<1>2. DOMAIN areq' = Requests /\ (\A p \in Requests : AcctAsked(p)' /\ Alone(p)')
  BY <1>1, AcctRequestEnds
<1>3. areq[r].a \in Accts /\ AcctAsked(r) /\ Alone(r)
  BY <1>1 DEF AccountsInv, AcctAsked
<1>4. \A a \in cycles' : a \in cycles \/ (a = areq[r].a /\ areq[r].op = "cycle" /\ A!IsAcct(a))
  BY DEF A!CommitCycle, A!CommitSeries, A!RefuseAcct
<1>5. \A s \in series' : \/ s \in series
                         \/ /\ s = <<areq[r].a, areq[r].b>> /\ areq[r].op = "series"
                            /\ A!IsAcct(areq[r].a) /\ A!IsAcct(areq[r].b)
  BY DEF A!CommitCycle, A!CommitSeries, A!RefuseAcct
<1>6. \A s \in series' : \/ s \in series
                         \/ /\ s \in Accts \X Accts /\ s[1] = areq[r].a /\ areq[r].op = "series"
                            /\ A!IsAcct(s[1]) /\ A!IsAcct(s[2])
  BY <1>3, <1>5 DEF AcctAsked
<1>7. cycles' \subseteq Accts /\ series' \subseteq Accts \X Accts
  BY <1>3, <1>4, <1>6 DEF AccountsInv, AccountTypes
<1>8. AccountTypes'
  BY <1>1, <1>2, <1>7 DEF AccountsInv, AccountTypes
<1>9. A!ColumnsFollowType' /\ A!OpeningCounted' /\ A!OneDefault'
  BY <1>1 DEF AccountsInv, A!ColumnsFollowType, A!OpeningCounted, A!OneDefault, A!IsAcct
<1>10. A!AccountsTypeOK'
  BY <1>1, <1>4, <1>6 DEF AccountsInv, A!AccountsTypeOK, A!IsAcct
<1>11. A!DependentsFollowType'
  <2>1. SUFFICES ASSUME single
                 PROVE  /\ \A a \in cycles' : acct[a].type = "credit_card"
                        /\ \A s \in series' : acct[s[1]].type \notin A!Liability
    BY <1>1 DEF A!DependentsFollowType
  <2>2. /\ areq[r].op = "cycle" => acct[areq[r].a].type = "credit_card"
        /\ areq[r].op = "series" => acct[areq[r].a].type \notin A!Liability
    BY <1>1, <1>3, <2>1 DEF Alone
  <2>3. QED
    BY <1>4, <1>6, <2>1, <2>2 DEF AccountsInv, A!DependentsFollowType
<1>12. QED
  BY <1>2, <1>8, <1>9, <1>10, <1>11 DEF AccountsInv

LEMMA SeriesGoesKeeps ==
    ASSUME AccountsInv, NEW s \in series, A!DeleteSeries(s)
    PROVE  AccountsInv'
<1>1. /\ series' = series \ {s} /\ (single => \A r \in Requests : ~ Busy(r))
      /\ UNCHANGED <<acct, posted, settled, cycles, areq, single>>
  BY DEF A!DeleteSeries, A!AcctsQuiet, Busy
<1>2. ASSUME NEW r \in Requests
      PROVE  AcctAsked(r)' /\ Alone(r)'
  <2>1. AcctAsked(r)'
    BY <1>1 DEF AccountsInv, AcctAsked, Busy
  <2>2. Alone(r)'
    BY <1>1 DEF Alone, Busy
  <2>3. QED
    BY <2>1, <2>2
<1>3. AccountTypes'
  BY <1>1 DEF AccountsInv, AccountTypes
<1>4. A!AccountsTypeOK' /\ A!ColumnsFollowType' /\ A!OpeningCounted' /\ A!OneDefault'
      /\ A!DependentsFollowType'
  BY <1>1 DEF AccountsInv, A!AccountsTypeOK, A!ColumnsFollowType, A!OpeningCounted, A!OneDefault,
              A!DependentsFollowType, A!IsAcct
<1>5. QED
  BY <1>2, <1>3, <1>4 DEF AccountsInv

LEMMA AcctBeginKeeps ==
    ASSUME AccountsInv, NEW r \in Requests, NEW a \in Accts,
           \/ \E body \in Bodies, admin \in BOOLEAN : A!UpdateAccount(r, a, body, admin)
           \/ A!DeleteAccount(r, a)
           \/ A!PutCyclePayment(r, a)
           \/ A!DeleteCyclePayment(r, a)
           \/ \E b \in Accts : A!CreateSeries(r, a, b)
    PROVE  AccountsInv'
<1>1. CASE \E body \in Bodies, admin \in BOOLEAN : A!UpdateAccount(r, a, body, admin)
  BY <1>1, AcctRequestBegins DEF A!UpdateAccount, AcctOps
<1>2. CASE A!DeleteAccount(r, a)
  <2>1. A!BeginAcct(r, "delete", a, 0, <<>>, FALSE)
    BY <1>2 DEF A!DeleteAccount
  <2>2. QED
    BY <2>1, AcctRequestBegins DEF AcctOps
<1>3. CASE A!PutCyclePayment(r, a)
  <2>1. A!BeginAcct(r, "cycle", a, 0, <<>>, TRUE) /\ acct[a].type = "credit_card"
    BY <1>3 DEF A!PutCyclePayment
  <2>2. QED
    BY <2>1, AcctRequestBegins DEF AcctOps
<1>4. CASE A!DeleteCyclePayment(r, a)
  <2>1. A!BeginAcct(r, "uncycle", a, 0, <<>>, TRUE)
    BY <1>4 DEF A!DeleteCyclePayment
  <2>2. QED
    BY <2>1, AcctRequestBegins DEF AcctOps
<1>5. CASE \E b \in Accts : A!CreateSeries(r, a, b)
  <2>1. PICK b \in Accts : A!CreateSeries(r, a, b)
    BY <1>5
  <2>2. A!BeginAcct(r, "series", a, b, <<>>, FALSE) /\ acct[a].type \notin A!Liability
    BY <2>1 DEF A!CreateSeries, A!TransferAccountsValid
  <2>3. QED
    BY <2>2, AcctRequestBegins DEF AcctOps
<1>6. QED
  BY <1>1, <1>2, <1>3, <1>4, <1>5

LEMMA AccountStepKeeps ==
    ASSUME AccountsInv, A!AccountsNext
    PROVE  AccountsInv'
<1>1. CASE \E a \in Accts, row \in NewRows : A!CreateAccount(a, row)
  BY <1>1, CreateKeeps
<1>2. CASE \E r \in Requests, a \in Accts :
              \/ \E body \in Bodies, admin \in BOOLEAN : A!UpdateAccount(r, a, body, admin)
              \/ A!DeleteAccount(r, a)
              \/ A!PutCyclePayment(r, a)
              \/ A!DeleteCyclePayment(r, a)
              \/ \E b \in Accts : A!CreateSeries(r, a, b)
  BY <1>2, AcctBeginKeeps
<1>3. CASE \E r \in Requests : \/ A!CommitUpdate(r) \/ A!CommitDelete(r) \/ A!CommitCycle(r)
                               \/ A!CommitSeries(r) \/ A!RefuseAcct(r)
  BY <1>3, UpdateKeeps, DeleteKeeps, DependentKeeps
<1>4. CASE \E a \in Accts, target \in {0, 1} : A!AdjustBalance(a, target)
  BY <1>4, AdjustKeeps
<1>5. CASE \E s \in series : A!DeleteSeries(s)
  BY <1>5, SeriesGoesKeeps
<1>6. QED
  BY <1>1, <1>2, <1>3, <1>4, <1>5 DEF A!AccountsNext

LEMMA AccountsInitially ==
    ASSUME A!AccountsInit
    PROVE  AccountsInv
<1>1. AccountTypes
  BY DEF A!AccountsInit, AccountTypes
<1>2. \A r \in Requests : AcctAsked(r) /\ Alone(r)
  BY NoAcctReqRow DEF A!AccountsInit, AcctAsked, Alone, Busy, AcctOps
<1>3. A!AccountsTypeOK /\ A!ColumnsFollowType /\ A!OpeningCounted /\ A!OneDefault
      /\ A!DependentsFollowType
  BY NoAcctFields DEF A!AccountsInit, A!AccountsTypeOK, A!ColumnsFollowType, A!OpeningCounted,
                      A!OneDefault, A!DependentsFollowType, A!IsAcct
<1>4. QED
  BY <1>1, <1>2, <1>3 DEF AccountsInv

\* Under updates that change types, opening balances and defaults on rows they
\* read before they locked them, or never locked: the columns suit the type, the
\* opening balance is counted and one account is the default; and requests that
\* do not overlap keep what depends on a type suited to it (account_service).
THEOREM AccountsCorrect == Spec => []AccountsSafe
<1> DEFINE Inv == focus = "accounts" => AccountsInv
<1>1. Init => Inv
  BY AccountsInitially DEF Init
<1>2. Inv /\ [Next]_organisationVars => Inv'
  <2> SUFFICES ASSUME Inv, [Next]_organisationVars, (focus = "accounts")'
               PROVE  AccountsInv'
    OBVIOUS
  <2>1. CASE AccountStep
    BY <2>1, AccountStepKeeps DEF AccountStep
  <2>2. CASE UNCHANGED organisationVars
    <3>1. AccountsInv /\ UNCHANGED accountVars
      BY <2>2 DEF organisationVars
    <3>2. AccountTypes' /\ \A r \in Requests : AcctAsked(r)' /\ Alone(r)'
      BY <3>1 DEF AccountsInv, AccountTypes, AcctAsked, Alone, Busy, accountVars
    <3>3. A!AccountsTypeOK' /\ A!ColumnsFollowType' /\ A!OpeningCounted' /\ A!OneDefault'
          /\ A!DependentsFollowType'
      BY <3>1 DEF AccountsInv, A!AccountsTypeOK, A!ColumnsFollowType, A!OpeningCounted,
                  A!OneDefault, A!DependentsFollowType, A!IsAcct, accountVars
    <3>4. QED
      BY <3>2, <3>3 DEF AccountsInv
  <2>3. CASE CategoryStep \/ TagStep \/ VoteStep \/ SeriesStep \/ ResetStep
    BY <2>3 DEF CategoryStep, TagStep, VoteStep, OthersThanSharing, SeriesStep, ResetStep, S!Next
  <2>4. QED
    BY <2>1, <2>2, <2>3 DEF Next
<1>3. Inv => AccountsSafe
  BY DEF AccountsInv, AccountsSafe
<1>4. QED
  BY <1>1, <1>2, <1>3, PTL DEF Spec

-----------------------------------------------------------------------------
(* Categories: whether an identity is a master's or a subcategory's is        *)
(* decided once, so edits that overlap keep the tree at two levels; an edit   *)
(* that runs alone is committed on the rows it was checked against.           *)

Pending(c) == \E p \in Requests : c \in DOMAIN catEdit[p].insert
\* An identity that is a master whenever it is there, or a subcategory.
Settled(c) == c \in spent /\ ~ Pending(c)
MasterId(c) ==
    /\ c \in Ids /\ Settled(c) /\ (cat[c] # T!NoCat => cat[c].parent = 0)
    /\ c \in DOMAIN SystemRow => SystemRow[c].parent = 0
SubId(c) ==
    /\ c \in Ids /\ Settled(c) /\ (cat[c] # T!NoCat => cat[c].parent # 0)
    /\ c \in DOMAIN SystemRow => SystemRow[c].parent # 0

CategoryTypes ==
    /\ cat \in [Ids -> T!CategoryRow \cup {T!NoCat}]
    /\ dep = [d \in Deps |-> dep[d]] /\ DOMAIN catEdit = Requests
    /\ alone \in BOOLEAN /\ restored \in BOOLEAN
    /\ DOMAIN SystemRow \subseteq spent
    /\ \A c \in Ids : cat[c] # T!NoCat =>
          Settled(c) /\ (c \in DOMAIN SystemRow => (cat[c].parent = 0 <=> SystemRow[c].parent = 0))
    /\ \A c \in Ids : cat[c] # T!NoCat /\ cat[c].parent # 0 => T!IsMaster(cat[c].parent)
    /\ \A d \in Deps : dep[d] = T!NoDep \/
          (dep[d] = [of |-> dep[d].of, kind |-> dep[d].kind] /\ dep[d].kind \in T!Kinds
           /\ dep[d].of \in Ids /\ T!There(dep[d].of))

InsertOk(p) == LET q == catEdit[p] IN
    \A c \in DOMAIN q.insert :
        /\ c \in Ids /\ c \in spent /\ c \notin DOMAIN SystemRow /\ cat[c] = T!NoCat
        /\ q.insert[c] \in T!CategoryRow
        /\ q.insert[c].parent # 0 => MasterId(q.insert[c].parent)
        /\ \A o \in Requests \ {p} : c \notin DOMAIN catEdit[o].insert
ChangeOk(p) == LET q == catEdit[p] IN
    /\ \A c \in DOMAIN q.type : q.type[c] \in T!Types
    /\ \A c \in DOMAIN q.parent : MasterId(q.parent[c]) /\ SubId(c)
    /\ q.target \in Ids \cup {0}
    /\ q.pc = "idle" => DOMAIN q.insert = {}

\* What an edit that runs alone will do is still what its rules allowed.
Nothing(f) == DOMAIN f = {}
Creates(q) ==
    /\ q.del = 0 /\ Nothing(q.type) /\ Nothing(q.parent)
    /\ \A c \in DOMAIN q.insert : q.insert[c].parent # 0 =>
          T!IsMaster(q.insert[c].parent) /\ q.insert[c].type = cat[q.insert[c].parent].type
Retypes(q) ==
    /\ q.del = 0 /\ Nothing(q.insert) /\ Nothing(q.parent)
    /\ \E c \in Ids, type \in T!Types :
          /\ T!There(c) /\ type # cat[c].type
          /\ T!IsSub(c) => type = cat[cat[c].parent].type
          /\ T!TypeChangeValid(c, type) /\ T!FloorAfterTypeChange(c, type)
          /\ DOMAIN q.type = {c} \cup T!Children(c)
          /\ \A b \in DOMAIN q.type : q.type[b] = type
Moves(q) ==
    /\ q.del = 0 /\ Nothing(q.insert) /\ Nothing(q.type)
    /\ \A c \in DOMAIN q.parent : c \in Ids /\ q.parent[c] \in Ids /\ T!MoveValid(c, q.parent[c])
Deletes(q) ==
    /\ q.del \in Ids /\ Nothing(q.insert) /\ Nothing(q.type) /\ Nothing(q.parent)
    /\ T!There(q.del) /\ T!Children(q.del) = {} /\ T!FloorAfterDelete(q.del)
    /\ T!Dependents(q.del) # {} =>
          q.target \in Ids \ {q.del} /\ T!TargetCompatible(q.del, q.target)
    /\ T!Dependents(q.del) = {} => q.target = 0
RunsAlone(p) ==
    alone /\ catEdit[p].pc # "idle" =>
        /\ \A o \in Requests \ {p} : catEdit[o].pc = "idle"
        /\ Creates(catEdit[p]) \/ Retypes(catEdit[p]) \/ Moves(catEdit[p]) \/ Deletes(catEdit[p])

CategoryInv ==
    /\ CategoryTypes /\ \A p \in Requests : InsertOk(p) /\ ChangeOk(p) /\ RunsAlone(p)
    /\ T!TypesAgree /\ T!FloorKept /\ T!EntriesAccepted

LEMMA CategorySizes ==
    /\ IsFiniteSet(Ids) /\ 0 \notin Ids /\ DOMAIN SystemRow \subseteq Ids
    /\ \A c \in DOMAIN SystemRow :
          /\ SystemRow[c] \in T!CategoryRow
          /\ SystemRow[c].parent # 0 =>
                /\ SystemRow[c].parent \in DOMAIN SystemRow
                /\ SystemRow[SystemRow[c].parent].parent = 0
                /\ SystemRow[SystemRow[c].parent].type = SystemRow[c].type
    /\ \A t \in {"income", "expense"} :
          /\ \E c \in DOMAIN SystemRow : SystemRow[c].parent = 0 /\ SystemRow[c].type = t
          /\ \E c \in DOMAIN SystemRow : SystemRow[c].parent # 0 /\ SystemRow[c].type = t
  BY OrganisationAssumption DEF T!TaxonomyAssumption, T!IsFiniteSet, IsFiniteSet

LEMMA CategoryRowFields ==
    /\ \A row \in T!CategoryRow : /\ row = [type |-> row.type, parent |-> row.parent]
                                  /\ row.type \in T!Types /\ row.parent \in Ids \cup {0}
                                  /\ row # T!NoCat
    /\ T!NoCat.parent = 0
    /\ \A type \in T!Types, parent \in Ids \cup {0} :
          /\ [type |-> type, parent |-> parent] \in T!CategoryRow
          /\ [type |-> type, parent |-> parent].type = type
          /\ [type |-> type, parent |-> parent].parent = parent
  BY DEF T!CategoryRow, T!NoCat, T!Types

LEMMA CategoryOf ==
    ASSUME CategoryInv, NEW c \in Ids
    PROVE  /\ cat[c] \in T!CategoryRow \/ cat[c] = T!NoCat
           /\ T!There(c) <=> cat[c] \in T!CategoryRow
           /\ T!There(c) <=> cat[c] # T!NoCat
           /\ cat[c].parent \in Ids \cup {0}
           /\ T!There(c) => Settled(c)
           /\ T!There(c) /\ cat[c].parent # 0 => T!IsMaster(cat[c].parent)
           /\ T!There(c) /\ c \in DOMAIN SystemRow => (cat[c].parent = 0 <=> SystemRow[c].parent = 0)
  BY CategoryRowFields DEF CategoryInv, CategoryTypes, T!There

LEMMA IdLevel ==
    ASSUME CategoryInv, NEW c \in Ids
    PROVE  /\ T!IsMaster(c) => MasterId(c)
           /\ T!IsSub(c) => SubId(c)
           /\ MasterId(c) /\ SubId(c) => cat[c] = T!NoCat
  BY CategoryOf DEF T!IsMaster, T!IsSub, MasterId, SubId, T!There

LEMMA NoEdit ==
    /\ T!NoCatEdit.pc = "idle" /\ T!NoCatEdit.del = 0 /\ T!NoCatEdit.target = 0 /\ T!NoCatEdit.strict
    /\ DOMAIN T!NoCatEdit.insert = {} /\ DOMAIN T!NoCatEdit.type = {}
    /\ DOMAIN T!NoCatEdit.parent = {}
    /\ DOMAIN T!NoCatEdit = {"pc", "strict", "insert", "type", "parent", "del", "target", "rules"}
  BY DEF T!NoCatEdit

-----------------------------------------------------------------------------
(* An edit begins. *)

\* What says nothing of the edits stays true while the rows stay.
LEMMA RowsOnly ==
    ASSUME CategoryInv, UNCHANGED <<cat, dep, alone, restored>>
    PROVE  T!TypesAgree' /\ T!FloorKept' /\ T!EntriesAccepted'
<1>1. T!TypesAgree'
  BY DEF CategoryInv, T!TypesAgree, T!IsSub, T!There
<1>2. T!FloorKept'
  BY DEF CategoryInv, T!FloorKept, T!MastersOf, T!SubsOf, T!IsMaster, T!IsSub, T!There
<1>3. T!EntriesAccepted'
  BY DEF CategoryInv, T!EntriesAccepted
<1>4. QED
  BY <1>1, <1>2, <1>3

\* What was planned for an edit is still right while the rows stay.
LEMMA PlansStay ==
    ASSUME UNCHANGED <<cat, dep>>, NEW p \in Requests, NEW q, catEdit'[p] = q,
           Creates(q) \/ Retypes(q) \/ Moves(q) \/ Deletes(q)
    PROVE  (Creates(catEdit[p]) \/ Retypes(catEdit[p]) \/ Moves(catEdit[p]) \/ Deletes(catEdit[p]))'
<1>1. CASE Creates(q)
  BY <1>1 DEF Creates, Nothing, T!IsMaster, T!There
<1>2. CASE Retypes(q)
  <2>1. PICK c \in Ids, type \in T!Types :
            /\ T!There(c) /\ type # cat[c].type
            /\ T!IsSub(c) => type = cat[cat[c].parent].type
            /\ T!TypeChangeValid(c, type) /\ T!FloorAfterTypeChange(c, type)
            /\ DOMAIN q.type = {c} \cup T!Children(c)
            /\ \A b \in DOMAIN q.type : q.type[b] = type
    BY <1>2 DEF Retypes
  <2>2. /\ T!There(c)' /\ (type # cat[c].type)' /\ (T!IsSub(c) => type = cat[cat[c].parent].type)'
        /\ (DOMAIN q.type = {c} \cup T!Children(c))'
    BY <2>1 DEF T!There, T!IsSub, T!Children
  <2>3. T!TypeChangeValid(c, type)'
    BY <2>1 DEF T!TypeChangeValid, T!Children, T!SidesOn, T!On, T!There
  <2>4. T!FloorAfterTypeChange(c, type)'
    BY <2>1 DEF T!FloorAfterTypeChange, T!Children, T!MastersOf, T!SubsOf, T!IsMaster, T!IsSub, T!There
  <2>5. Retypes(catEdit[p])'
    BY <1>2, <2>1, <2>2, <2>3, <2>4 DEF Retypes, Nothing
  <2>6. QED
    BY <2>5
<1>3. CASE Moves(q)
  BY <1>3 DEF Moves, Nothing, T!MoveValid, T!IsMaster, T!IsSub, T!There
<1>4. CASE Deletes(q)
  <2>1. Deletes(catEdit[p])'
    BY <1>4 DEF Deletes, Nothing, T!There, T!Children, T!FloorAfterDelete, T!MastersOf, T!SubsOf,
                T!IsMaster, T!IsSub, T!Dependents, T!On, T!TargetCompatible, T!SidesOn
  <2>2. QED
    BY <2>1
<1>5. QED
  BY <1>1, <1>2, <1>3, <1>4

LEMMA EditBegins ==
    ASSUME CategoryInv, NEW p \in Requests, NEW q, T!Begin(p, q), q.pc # "idle",
           q.target \in Ids \cup {0},
           \A c \in DOMAIN q.insert :
               /\ c \in Ids /\ c \notin spent /\ q.insert[c] \in T!CategoryRow
               /\ q.insert[c].parent # 0 => MasterId(q.insert[c].parent),
           \A c \in DOMAIN q.type : q.type[c] \in T!Types,
           \A c \in DOMAIN q.parent : MasterId(q.parent[c]) /\ SubId(c),
           alone => Creates(q) \/ Retypes(q) \/ Moves(q) \/ Deletes(q)
    PROVE  CategoryInv'
<1>1. /\ UNCHANGED <<cat, dep, alone, restored>> /\ catEdit' = [catEdit EXCEPT ![p] = q]
      /\ spent' = spent \cup DOMAIN q.insert /\ catEdit[p].pc = "idle"
      /\ alone => \A o \in Requests : catEdit[o].pc = "idle"
  BY DEF T!Begin, T!MayEdit, T!MayAct, T!Quiet
<1>2. /\ DOMAIN catEdit' = Requests /\ catEdit'[p] = q
      /\ \A o \in Requests \ {p} : catEdit'[o] = catEdit[o]
  BY <1>1 DEF CategoryInv, CategoryTypes
<1>3. DOMAIN catEdit[p].insert = {}
  BY <1>1 DEF CategoryInv, ChangeOk
<1>4. \A c : Settled(c) => Settled(c)'
  BY <1>1, <1>2 DEF Settled, Pending
<1>5. /\ \A c : MasterId(c) => MasterId(c)'
      /\ \A c : SubId(c) => SubId(c)'
  BY <1>1, <1>4 DEF MasterId, SubId
<1>6. CategoryTypes'
  <2>1. \A c \in Ids : cat[c] # T!NoCat => Settled(c)'
    BY <1>4 DEF CategoryInv, CategoryTypes
  <2>2. \A c \in Ids : T!IsMaster(c)' <=> T!IsMaster(c)
    BY <1>1 DEF T!IsMaster, T!There
  <2>3. QED
    BY <1>1, <1>2, <2>1 DEF CategoryInv, CategoryTypes, T!IsMaster, T!There
<1>7. ASSUME NEW o \in Requests
      PROVE  InsertOk(o)' /\ ChangeOk(o)' /\ RunsAlone(o)'
  <2>1. CASE o = p
    <3>1. \A c \in DOMAIN q.insert : cat[c] = T!NoCat /\ c \notin DOMAIN SystemRow
                                     /\ \A x \in Requests \ {p} : c \notin DOMAIN catEdit[x].insert
      BY DEF CategoryInv, CategoryTypes, InsertOk, Settled
    <3>2. InsertOk(o)'
      BY <1>1, <1>2, <1>5, <2>1, <3>1 DEF InsertOk
    <3>3. ChangeOk(o)'
      BY <1>2, <1>5, <2>1 DEF ChangeOk
    <3>4. RunsAlone(o)'
      <4>1. SUFFICES ASSUME alone
                     PROVE  RunsAlone(o)'
        BY <1>1 DEF RunsAlone
      <4>2. (Creates(catEdit[p]) \/ Retypes(catEdit[p]) \/ Moves(catEdit[p]) \/ Deletes(catEdit[p]))'
        BY <1>1, <1>2, <4>1, PlansStay
      <4>3. \A x \in Requests \ {p} : catEdit'[x].pc = "idle"
        BY <1>1, <1>2, <4>1
      <4>4. QED
        BY <2>1, <4>2, <4>3 DEF RunsAlone
    <3>5. QED
      BY <3>2, <3>3, <3>4
  <2>2. CASE o # p
    <3>1. InsertOk(o) /\ ChangeOk(o)
      BY DEF CategoryInv
    <3>2. \A c \in DOMAIN catEdit[o].insert : c \notin DOMAIN q.insert
      BY <3>1 DEF InsertOk
    <3>3. InsertOk(o)'
      BY <1>1, <1>2, <1>5, <2>2, <3>1, <3>2 DEF InsertOk
    <3>4. ChangeOk(o)'
      BY <1>2, <1>5, <2>2, <3>1 DEF ChangeOk
    <3>5. RunsAlone(o)'
      BY <1>1, <1>2, <2>2 DEF RunsAlone
    <3>6. QED
      BY <3>3, <3>4, <3>5
  <2>3. QED
    BY <2>1, <2>2
<1>8. T!TypesAgree' /\ T!FloorKept' /\ T!EntriesAccepted'
  BY <1>1, RowsOnly
<1>9. QED
  BY <1>6, <1>7, <1>8 DEF CategoryInv

LEMMA EditOf ==
    /\ \A f : LET q == T!Edit([insert |-> f]) IN
          /\ q.pc = "commit" /\ q.insert = f /\ Nothing(q.type) /\ Nothing(q.parent) /\ q.del = 0
          /\ q.target = 0
    /\ \A f : LET q == T!Edit([type |-> f]) IN
          /\ q.pc = "commit" /\ q.type = f /\ Nothing(q.insert) /\ Nothing(q.parent) /\ q.del = 0
          /\ q.target = 0
    /\ \A f : LET q == T!Edit([parent |-> f]) IN
          /\ q.pc = "commit" /\ q.parent = f /\ Nothing(q.insert) /\ Nothing(q.type) /\ q.del = 0
          /\ q.target = 0
    /\ \A f : LET q == T!Edit([parent |-> f, strict |-> FALSE]) IN
          /\ q.pc = "commit" /\ q.parent = f /\ Nothing(q.insert) /\ Nothing(q.type) /\ q.del = 0
          /\ q.target = 0
    /\ \A c, m, r : LET q == T!Edit([del |-> c, target |-> m, rules |-> r]) IN
          /\ q.pc = "commit" /\ Nothing(q.insert) /\ Nothing(q.type) /\ Nothing(q.parent)
          /\ q.del = c /\ q.target = m
<1>1. ASSUME NEW f
      PROVE  LET q == T!Edit([insert |-> f]) IN
               /\ q.pc = "commit" /\ q.insert = f /\ Nothing(q.type) /\ Nothing(q.parent) /\ q.del = 0
               /\ q.target = 0
  BY NoEdit DEF T!Edit, Nothing
<1>2. ASSUME NEW f
      PROVE  LET q == T!Edit([type |-> f]) IN
               /\ q.pc = "commit" /\ q.type = f /\ Nothing(q.insert) /\ Nothing(q.parent) /\ q.del = 0
               /\ q.target = 0
  BY NoEdit DEF T!Edit, Nothing
<1>3. ASSUME NEW f
      PROVE  LET q == T!Edit([parent |-> f]) IN
               /\ q.pc = "commit" /\ q.parent = f /\ Nothing(q.insert) /\ Nothing(q.type) /\ q.del = 0
               /\ q.target = 0
  BY NoEdit DEF T!Edit, Nothing
<1>4. ASSUME NEW f
      PROVE  LET q == T!Edit([parent |-> f, strict |-> FALSE]) IN
               /\ q.pc = "commit" /\ q.parent = f /\ Nothing(q.insert) /\ Nothing(q.type) /\ q.del = 0
               /\ q.target = 0
  BY NoEdit DEF T!Edit, Nothing
<1>5. ASSUME NEW c, NEW m, NEW r
      PROVE  LET q == T!Edit([del |-> c, target |-> m, rules |-> r]) IN
               /\ q.pc = "commit" /\ Nothing(q.insert) /\ Nothing(q.type) /\ Nothing(q.parent)
               /\ q.del = c /\ q.target = m
  BY NoEdit DEF T!Edit, Nothing
<1>6. QED
  BY <1>1, <1>2, <1>3, <1>4, <1>5

LEMMA CreateCategoryKeeps ==
    ASSUME CategoryInv, NEW p \in Requests, NEW c \in Ids, NEW m \in Ids \cup {0}, NEW t \in T!Types,
           T!CreateCategory(p, c, m, t)
    PROVE  CategoryInv'
<1>1. c \notin spent /\ (m # 0 => T!IsMaster(m))
  BY DEF T!CreateCategory
<1>2. PICK row : row = [type |-> IF m = 0 THEN t ELSE cat[m].type, parent |-> m]
  OBVIOUS
<1>3. m # 0 => cat[m] \in T!CategoryRow /\ MasterId(m)
  BY <1>1, CategoryOf, IdLevel DEF T!IsMaster
<1>4. row \in T!CategoryRow /\ row.parent = m /\ (m # 0 => row.type = cat[m].type)
  BY <1>2, <1>3, CategoryRowFields
<1>5. PICK f : f = [b \in {c} |-> row]
  OBVIOUS
<1>6. DOMAIN f = {c} /\ f[c] = row
  BY <1>5
<1>7. PICK q : q = T!Edit([insert |-> f])
  OBVIOUS
<1>8. T!Begin(p, q)
  BY <1>2, <1>5, <1>7 DEF T!CreateCategory
<1>9. /\ q.pc = "commit" /\ q.insert = f /\ Nothing(q.type) /\ Nothing(q.parent) /\ q.del = 0
      /\ q.target = 0
  BY <1>7, EditOf
<1>10. Creates(q)
  BY <1>1, <1>4, <1>6, <1>9 DEF Creates
<1>11. QED
  BY <1>1, <1>3, <1>4, <1>6, <1>8, <1>9, <1>10, EditBegins DEF Nothing

LEMMA UpdateCategoryKeeps ==
    ASSUME CategoryInv, NEW p \in Requests, NEW c \in Ids, NEW type \in T!Types,
           T!UpdateCategory(p, c, type)
    PROVE  CategoryInv'
<1>1. PICK f : f = [b \in {c} \cup T!Children(c) |-> type]
  OBVIOUS
<1>2. DOMAIN f = {c} \cup T!Children(c) /\ \A b \in DOMAIN f : f[b] = type
  BY <1>1
<1>3. PICK q : q = T!Edit([type |-> f])
  OBVIOUS
<1>4. T!Begin(p, q)
  BY <1>1, <1>3 DEF T!UpdateCategory
<1>5. /\ q.pc = "commit" /\ q.type = f /\ Nothing(q.insert) /\ Nothing(q.parent) /\ q.del = 0
      /\ q.target = 0
  BY <1>3, EditOf
<1>6. Retypes(q)
  BY <1>2, <1>5 DEF Retypes, T!UpdateCategory
<1>7. QED
  BY <1>2, <1>4, <1>5, <1>6, EditBegins DEF Nothing

LEMMA MoveKeeps ==
    ASSUME CategoryInv, NEW p \in Requests, NEW q, T!Begin(p, q), q.pc # "idle", q.target = 0,
           Moves(q)
    PROVE  CategoryInv'
<1>1. Nothing(q.insert) /\ Nothing(q.type)
  BY DEF Moves
<1>2. ASSUME NEW c \in DOMAIN q.parent
      PROVE  MasterId(q.parent[c]) /\ SubId(c)
  BY IdLevel DEF Moves, T!MoveValid
<1>3. QED
  BY <1>1, <1>2, EditBegins DEF Nothing

LEMMA MovesKeep ==
    ASSUME CategoryInv, NEW p \in Requests,
           \/ \E c \in Ids, m \in Ids : T!MoveSubcategory(p, c, m)
           \/ \E some \in SUBSET {c \in Ids : T!IsSub(c)} :
                 \E moves \in [some -> {c \in Ids : T!IsMaster(c)}] : T!BatchMove(p, moves)
    PROVE  CategoryInv'
<1>1. CASE \E c \in Ids, m \in Ids : T!MoveSubcategory(p, c, m)
  <2>1. PICK c \in Ids, m \in Ids : T!MoveSubcategory(p, c, m)
    BY <1>1
  <2>2. PICK f : f = [b \in {c} |-> m]
    OBVIOUS
  <2>3. PICK q : q = T!Edit([parent |-> f])
    OBVIOUS
  <2>4. T!Begin(p, q) /\ T!MoveValid(c, m)
    BY <2>1, <2>2, <2>3 DEF T!MoveSubcategory
  <2>5. /\ q.pc = "commit" /\ q.parent = f /\ Nothing(q.insert) /\ Nothing(q.type) /\ q.del = 0
        /\ q.target = 0
    BY <2>3, EditOf
  <2>6. Moves(q)
    BY <2>2, <2>4, <2>5 DEF Moves
  <2>7. QED
    BY <2>4, <2>5, <2>6, MoveKeeps
<1>2. CASE \E some \in SUBSET {c \in Ids : T!IsSub(c)} :
                 \E moves \in [some -> {c \in Ids : T!IsMaster(c)}] : T!BatchMove(p, moves)
  <2>1. PICK some \in SUBSET {c \in Ids : T!IsSub(c)} :
                 \E moves \in [some -> {c \in Ids : T!IsMaster(c)}] : T!BatchMove(p, moves)
    BY <1>2
  <2>2. PICK f \in [some -> {c \in Ids : T!IsMaster(c)}] : T!BatchMove(p, f)
    BY <2>1
  <2>3. PICK q : q = T!Edit([parent |-> f, strict |-> FALSE])
    OBVIOUS
  <2>4. T!Begin(p, q) /\ \A c \in DOMAIN f : T!MoveValid(c, f[c])
    BY <2>2, <2>3 DEF T!BatchMove
  <2>5. /\ q.pc = "commit" /\ q.parent = f /\ Nothing(q.insert) /\ Nothing(q.type) /\ q.del = 0
        /\ q.target = 0
    BY <2>3, EditOf
  <2>6. Moves(q)
    BY <2>2, <2>4, <2>5 DEF Moves
  <2>7. QED
    BY <2>4, <2>5, <2>6, MoveKeeps
<1>3. QED
  BY <1>1, <1>2

LEMMA DeleteCategoryKeeps ==
    ASSUME CategoryInv, NEW p \in Requests, NEW c \in Ids, NEW m \in Ids \cup {0},
           T!DeleteCategory(p, c, m)
    PROVE  CategoryInv'
<1>1. PICK q : q = T!Edit([del |-> c, target |-> m,
                           rules |-> {d \in T!On(c) : dep[d].kind = "rule"}])
  OBVIOUS
<1>2. T!Begin(p, q)
  BY <1>1 DEF T!DeleteCategory
<1>3. /\ q.pc = "commit" /\ Nothing(q.insert) /\ Nothing(q.type) /\ Nothing(q.parent)
      /\ q.del = c /\ q.target = m
  BY <1>1, EditOf
<1>4. Deletes(q)
  BY <1>3 DEF Deletes, T!DeleteCategory
<1>5. QED
  BY <1>2, <1>3, <1>4, EditBegins DEF Nothing

-----------------------------------------------------------------------------
(* An edit is committed, or rolled back. *)

LEMMA EditEnds ==
    ASSUME CategoryInv, NEW p \in Requests, catEdit[p].pc = "commit",
           catEdit' = [catEdit EXCEPT ![p] = T!NoCatEdit], UNCHANGED <<alone, spent>>,
           \A c \in Ids : cat'[c] # T!NoCat => cat[c] # T!NoCat \/ c \in DOMAIN catEdit[p].insert,
           \A c \in Ids : /\ MasterId(c) /\ cat'[c] # T!NoCat => cat'[c].parent = 0
                          /\ SubId(c) /\ cat'[c] # T!NoCat => cat'[c].parent # 0
    PROVE  /\ DOMAIN catEdit' = Requests
           /\ \A c : Settled(c) => Settled(c)'
           /\ \A c \in DOMAIN catEdit[p].insert : Settled(c)'
           /\ \A c : MasterId(c) => MasterId(c)'
           /\ \A o \in Requests : InsertOk(o)' /\ ChangeOk(o)' /\ RunsAlone(o)'
<1>1. /\ DOMAIN catEdit' = Requests /\ catEdit'[p] = T!NoCatEdit
      /\ \A o \in Requests \ {p} : catEdit'[o] = catEdit[o]
  BY DEF CategoryInv, CategoryTypes
<1>2. \A c : Pending(c)' => Pending(c)
  BY <1>1, NoEdit DEF Pending
<1>3. \A c : Settled(c) => Settled(c)'
  BY <1>2 DEF Settled
<1>4. \A c \in DOMAIN catEdit[p].insert : Settled(c)'
  BY <1>1, NoEdit DEF CategoryInv, InsertOk, Settled, Pending
<1>5. /\ \A c : MasterId(c) => MasterId(c)'
      /\ \A c : SubId(c) => SubId(c)'
  BY <1>3 DEF MasterId, SubId
<1>6. ASSUME NEW o \in Requests
      PROVE  InsertOk(o)' /\ ChangeOk(o)' /\ RunsAlone(o)'
  <2>1. CASE o = p
    BY <1>1, <2>1, NoEdit DEF InsertOk, ChangeOk, RunsAlone
  <2>2. CASE o # p
    <3>1. InsertOk(o) /\ ChangeOk(o)
      BY DEF CategoryInv
    <3>2. \A c \in DOMAIN catEdit[o].insert : c \in Ids /\ cat'[c] = T!NoCat
      BY <2>2, <3>1 DEF InsertOk
    <3>3. InsertOk(o)'
      <4>1. \A c \in DOMAIN catEdit[o].insert :
                 \A x \in Requests \ {o} : c \notin DOMAIN catEdit'[x].insert
        BY <1>1, <3>1, NoEdit DEF InsertOk
      <4>2. QED
        BY <1>1, <1>5, <2>2, <3>1, <3>2, <4>1 DEF InsertOk
    <3>4. ChangeOk(o)'
      BY <1>1, <1>5, <2>2, <3>1 DEF ChangeOk
    <3>5. alone => catEdit[o].pc = "idle"
      BY <2>2 DEF CategoryInv, RunsAlone
    <3>6. RunsAlone(o)'
      BY <1>1, <2>2, <3>5 DEF RunsAlone
    <3>7. QED
      BY <3>3, <3>4, <3>6
  <2>3. QED
    BY <2>1, <2>2
<1>7. QED
  BY <1>1, <1>3, <1>4, <1>5, <1>6

\* What a commit leaves of a row.
LEMMA WrittenRow ==
    ASSUME CategoryInv, NEW p \in Requests, NEW c \in Ids
    PROVE  LET q == catEdit[p]
               w == T!Written(q, c)
           IN  /\ w \in T!CategoryRow \/ w = T!NoCat
               /\ c = q.del => w = T!NoCat
               /\ c # q.del /\ c \in DOMAIN q.insert => w = q.insert[c] /\ cat[c] = T!NoCat
               /\ w # T!NoCat /\ c \notin DOMAIN q.insert =>
                     /\ cat[c] # T!NoCat
                     /\ w.type = IF c \in DOMAIN q.type THEN q.type[c] ELSE cat[c].type
                     /\ w.parent = IF c \in DOMAIN q.parent THEN q.parent[c] ELSE cat[c].parent
               /\ cat[c] # T!NoCat /\ c # q.del => w # T!NoCat
<1> DEFINE q == catEdit[p]
           w == T!Written(q, c)
<1>1. InsertOk(p) /\ ChangeOk(p)
  BY DEF CategoryInv
<1>2. CASE c = q.del
  <2>1. w = T!NoCat
    BY <1>2 DEF T!Written
  <2>2. QED
    BY <1>2, <2>1
<1>3. CASE c # q.del /\ c \in DOMAIN q.insert
  <2>1. w = q.insert[c]
    BY <1>3 DEF T!Written
  <2>2. q.insert[c] \in T!CategoryRow /\ cat[c] = T!NoCat
    BY <1>1, <1>3 DEF InsertOk
  <2>3. QED
    BY <1>3, <2>1, <2>2
<1>4. CASE c # q.del /\ c \notin DOMAIN q.insert /\ cat[c] = T!NoCat
  <2>1. w = T!NoCat
    BY <1>4 DEF T!Written, T!There
  <2>2. QED
    BY <1>4, <2>1
<1>5. CASE c # q.del /\ c \notin DOMAIN q.insert /\ cat[c] # T!NoCat
  <2>1. PICK type : type = IF c \in DOMAIN q.type THEN q.type[c] ELSE cat[c].type
    OBVIOUS
  <2>2. PICK parent : parent = IF c \in DOMAIN q.parent THEN q.parent[c] ELSE cat[c].parent
    OBVIOUS
  <2>3. w = [type |-> type, parent |-> parent]
    BY <1>5, <2>1, <2>2 DEF T!Written, T!There
  <2>4. cat[c] \in T!CategoryRow
    BY <1>5, CategoryOf
  <2>5. type \in T!Types /\ parent \in Ids \cup {0}
    BY <1>1, <2>1, <2>2, <2>4, CategoryRowFields DEF ChangeOk, MasterId
  <2>6. w \in T!CategoryRow /\ w.type = type /\ w.parent = parent /\ w # T!NoCat
    BY <2>3, <2>5, CategoryRowFields
  <2>7. QED
    BY <1>5, <2>1, <2>2, <2>6
<1>6. QED
  BY <1>2, <1>3, <1>4, <1>5

\* The tree keeps its two levels, whatever else was committed since.
LEMMA TreeCommitted ==
    ASSUME CategoryInv, NEW p \in Requests, catEdit[p].pc = "commit",
           catEdit' = [catEdit EXCEPT ![p] = T!NoCatEdit], UNCHANGED <<alone, spent, restored>>,
           cat' = [c \in Ids |-> T!Written(catEdit[p], c)],
           dep' = [d \in Deps |-> T!Migrated(catEdit[p], d)],
           \A c \in Ids : cat'[c].parent # 0 => cat'[cat'[c].parent] # T!NoCat,
           \A d \in Deps : dep'[d].of # 0 => cat'[dep'[d].of] # T!NoCat
    PROVE  CategoryTypes' /\ \A o \in Requests : InsertOk(o)' /\ ChangeOk(o)' /\ RunsAlone(o)'
<1> DEFINE q == catEdit[p]
<1>1. InsertOk(p) /\ ChangeOk(p)
  BY DEF CategoryInv
<1>2. \A c \in Ids : cat'[c] = T!Written(q, c)
  OBVIOUS
<1>3. \A c \in Ids :
          /\ cat'[c] \in T!CategoryRow \/ cat'[c] = T!NoCat
          /\ cat'[c] # T!NoCat /\ c \in DOMAIN q.insert => cat'[c] = q.insert[c] /\ cat[c] = T!NoCat
          /\ cat'[c] # T!NoCat /\ c \notin DOMAIN q.insert =>
                /\ cat[c] # T!NoCat
                /\ cat'[c].parent = IF c \in DOMAIN q.parent THEN q.parent[c] ELSE cat[c].parent
  BY <1>2, WrittenRow
<1>4. ASSUME NEW c \in Ids, cat'[c] # T!NoCat
      PROVE  (MasterId(c) => cat'[c].parent = 0) /\ (SubId(c) => cat'[c].parent # 0)
  <2>1. CASE c \in DOMAIN q.insert
    BY <2>1 DEF MasterId, SubId, Settled, Pending
  <2>2. CASE c \notin DOMAIN q.insert
    <3>1. cat[c] # T!NoCat /\ cat'[c].parent = IF c \in DOMAIN q.parent THEN q.parent[c] ELSE cat[c].parent
      BY <1>3, <1>4, <2>2
    <3>2. c \in DOMAIN q.parent => q.parent[c] \in Ids /\ SubId(c)
      BY <1>1 DEF ChangeOk, MasterId
    <3>3. MasterId(c) => c \notin DOMAIN q.parent /\ cat[c].parent = 0
      BY <3>1, <3>2 DEF MasterId, SubId
    <3>4. SubId(c) => cat[c].parent # 0
      BY <3>1 DEF SubId
    <3>5. QED
      BY <3>1, <3>2, <3>3, <3>4, CategorySizes
  <2>3. QED
    BY <2>1, <2>2
<1>5. /\ DOMAIN catEdit' = Requests
      /\ \A c : Settled(c) => Settled(c)'
      /\ \A c \in DOMAIN q.insert : Settled(c)'
      /\ \A c : MasterId(c) => MasterId(c)'
      /\ \A o \in Requests : InsertOk(o)' /\ ChangeOk(o)' /\ RunsAlone(o)'
  BY <1>3, <1>4, EditEnds
<1>6. ASSUME NEW c \in Ids, cat'[c] # T!NoCat
      PROVE  /\ Settled(c)'
             /\ c \in DOMAIN SystemRow => (cat'[c].parent = 0 <=> SystemRow[c].parent = 0)
             /\ cat'[c].parent # 0 => MasterId(cat'[c].parent)
  <2>1. CASE c \in DOMAIN q.insert
    BY <1>1, <1>3, <1>5, <1>6, <2>1 DEF InsertOk
  <2>2. CASE c \notin DOMAIN q.insert
    <3>1. /\ cat[c] # T!NoCat /\ cat'[c].parent = IF c \in DOMAIN q.parent THEN q.parent[c] ELSE cat[c].parent
          /\ T!There(c)
      BY <1>3, <1>6, <2>2 DEF T!There
    <3>2. Settled(c) /\ (c \in DOMAIN SystemRow => (cat[c].parent = 0 <=> SystemRow[c].parent = 0))
      BY <3>1, CategoryOf
    <3>3. cat[c].parent # 0 => cat[c].parent \in Ids /\ T!IsMaster(cat[c].parent)
      BY <3>1, CategoryOf
    <3>4. cat[c].parent # 0 => MasterId(cat[c].parent)
      BY <3>3, IdLevel
    <3>5. c \in DOMAIN q.parent => MasterId(q.parent[c]) /\ SubId(c) /\ q.parent[c] # 0
      BY <1>1, CategorySizes DEF ChangeOk, MasterId
    <3>6. c \in DOMAIN q.parent => cat[c].parent # 0
      BY <3>1, <3>5 DEF SubId
    <3>7. QED
      BY <1>5, <3>1, <3>2, <3>4, <3>5, <3>6
  <2>3. QED
    BY <2>1, <2>2
<1>7. ASSUME NEW c \in Ids, cat'[c] # T!NoCat, cat'[c].parent # 0
      PROVE  T!IsMaster(cat[c].parent)'
  <2>1. PICK m \in Ids : m = cat'[c].parent /\ MasterId(m)
    BY <1>6, <1>7 DEF MasterId
  <2>2. cat'[m] # T!NoCat
    BY <1>7, <2>1
  <2>3. cat'[m].parent = 0
    BY <1>4, <2>1, <2>2
  <2>4. QED
    BY <2>1, <2>2, <2>3 DEF T!IsMaster, T!There
<1>8. ASSUME NEW d \in Deps
      PROVE  dep'[d] = T!NoDep \/
             (dep'[d] = [of |-> dep'[d].of, kind |-> dep'[d].kind] /\ dep'[d].kind \in T!Kinds
              /\ dep'[d].of \in Ids /\ cat'[dep'[d].of] # T!NoCat)
  <2>1. dep'[d] = T!Migrated(q, d)
    OBVIOUS
  <2>2. dep[d] = T!NoDep \/ (dep[d] = [of |-> dep[d].of, kind |-> dep[d].kind]
                             /\ dep[d].kind \in T!Kinds /\ dep[d].of \in Ids)
    BY DEF CategoryInv, CategoryTypes
  <2>3. \/ dep'[d] = dep[d] \/ dep'[d] = T!NoDep
        \/ q.target # 0 /\ dep[d].of = q.del /\ q.del # 0 /\ dep'[d] = [dep[d] EXCEPT !.of = q.target]
    BY <2>1 DEF T!Migrated
  <2>4. CASE dep'[d] = dep[d]
    <3>1. dep[d] = T!NoDep \/ cat'[dep[d].of] # T!NoCat
      BY <2>2, <2>4, CategorySizes
    <3>2. QED
      BY <2>2, <2>4, <3>1
  <2>5. CASE dep'[d] = T!NoDep
    BY <2>5
  <2>6. CASE q.target # 0 /\ dep[d].of = q.del /\ q.del # 0 /\ dep'[d] = [dep[d] EXCEPT !.of = q.target]
    <3>1. dep[d] # T!NoDep /\ q.target \in Ids
      BY <1>1, <2>6 DEF T!NoDep, ChangeOk
    <3>2. dep'[d] = [of |-> q.target, kind |-> dep[d].kind]
      BY <2>2, <2>6, <3>1
    <3>3. dep'[d].of = q.target /\ dep'[d].kind = dep[d].kind
      BY <3>2
    <3>4. cat'[q.target] # T!NoCat
      BY <2>6, <3>3
    <3>5. QED
      BY <2>2, <3>1, <3>2, <3>3, <3>4
  <2>7. QED
    BY <2>3, <2>4, <2>5, <2>6
<1>9. CategoryTypes'
  <2>1. cat' \in [Ids -> T!CategoryRow \cup {T!NoCat}]
    BY <1>3
  <2>2. dep' = [d \in Deps |-> dep'[d]] /\ DOMAIN SystemRow \subseteq spent' /\ alone' \in BOOLEAN
        /\ restored' \in BOOLEAN
    BY DEF CategoryInv, CategoryTypes
  <2>3. \A c \in Ids : cat'[c] # T!NoCat =>
          Settled(c)' /\ (c \in DOMAIN SystemRow => (cat'[c].parent = 0 <=> SystemRow[c].parent = 0))
    BY <1>6
  <2>4. QED
    BY <1>5, <1>7, <1>8, <2>1, <2>2, <2>3 DEF CategoryTypes, T!There
<1>10. QED
  BY <1>5, <1>9

-----------------------------------------------------------------------------
(* What a commit that ran alone leaves. *)

Sided == {"income", "expense"}

LEMMA Grows ==
    ASSUME CategoryInv, dep' = dep, UNCHANGED alone, restored => restored',
           \A c \in Ids : cat[c] # T!NoCat => cat'[c] = cat[c],
           alone /\ ~ restored' => \A c \in Ids :
               cat[c] = T!NoCat /\ cat'[c] # T!NoCat /\ cat'[c].parent # 0 =>
                   cat'[c].type = cat'[cat'[c].parent].type
    PROVE  T!TypesAgree' /\ T!FloorKept' /\ T!EntriesAccepted'
<1>1. \A c \in Ids : /\ T!There(c) <=> cat[c] # T!NoCat
                     /\ T!There(c) /\ cat[c].parent # 0 => cat[c].parent \in Ids /\ T!IsMaster(cat[c].parent)
  BY CategoryOf
<1>2. \A c \in Ids : T!IsSub(c) => /\ cat'[c] = cat[c] /\ cat[c].parent \in Ids
                                   /\ cat'[cat[c].parent] = cat[cat[c].parent]
  BY <1>1 DEF T!IsSub, T!IsMaster
<1>3. T!TypesAgree'
  <2>1. SUFFICES ASSUME alone, ~ restored', NEW c \in Ids, cat'[c] # T!NoCat, cat'[c].parent # 0
                 PROVE  cat'[c].type = cat'[cat'[c].parent].type
    BY DEF T!TypesAgree, T!IsSub, T!There
  <2>2. CASE cat[c] = T!NoCat
    BY <2>1, <2>2
  <2>3. CASE cat[c] # T!NoCat
    <3>1. T!IsSub(c)
      BY <1>1, <2>1, <2>3 DEF T!IsSub
    <3>2. cat[c].type = cat[cat[c].parent].type
      BY <2>1, <3>1 DEF CategoryInv, T!TypesAgree
    <3>3. QED
      BY <1>2, <3>1, <3>2
  <2>4. QED
    BY <2>2, <2>3
<1>4. T!FloorKept'
  <2>1. SUFFICES ASSUME alone, ~ restored', NEW t \in Sided
                 PROVE  T!MastersOf(t)' # {} /\ T!SubsOf(t)' # {}
    BY DEF T!FloorKept, Sided
  <2>2. T!MastersOf(t) # {} /\ T!SubsOf(t) # {}
    BY <2>1 DEF CategoryInv, T!FloorKept, Sided
  <2>3. PICK m \in Ids : T!IsMaster(m) /\ cat[m].type = t
    BY <2>2 DEF T!MastersOf
  <2>4. PICK s \in Ids : T!IsSub(s) /\ cat[cat[s].parent].type = t
    BY <2>2 DEF T!SubsOf
  <2>5. m \in T!MastersOf(t)'
    BY <2>3 DEF T!MastersOf, T!IsMaster, T!There
  <2>6. s \in T!SubsOf(t)'
    BY <1>2, <2>4 DEF T!SubsOf, T!IsSub, T!There
  <2>7. QED
    BY <2>5, <2>6
<1>5. T!EntriesAccepted'
  <2>1. SUFFICES ASSUME alone, NEW d \in Deps, dep[d] # T!NoDep
                 PROVE  T!Sides(dep[d].kind) \subseteq T!Accepts(cat'[dep[d].of].type)
    BY DEF T!EntriesAccepted
  <2>2. cat'[dep[d].of] = cat[dep[d].of]
    BY <2>1 DEF CategoryInv, CategoryTypes, T!There
  <2>3. QED
    BY <2>1, <2>2 DEF CategoryInv, T!EntriesAccepted
<1>6. QED
  BY <1>3, <1>4, <1>5

\* Nothing migrates without a deletion.
LEMMA DepsStay ==
    ASSUME CategoryInv, NEW q, q.del = 0, dep' = [d \in Deps |-> T!Migrated(q, d)]
    PROVE  dep' = dep
<1>1. \A d \in Deps : T!Migrated(q, d) = dep[d]
  BY DEF T!Migrated
<1>2. QED
  BY <1>1 DEF CategoryInv, CategoryTypes

\* A row that is there is written as it was, apart from the columns of the edit.
LEMMA RowCommitted ==
    ASSUME CategoryInv, NEW p \in Requests, cat' = [c \in Ids |-> T!Written(catEdit[p], c)]
    PROVE  \A c \in Ids : cat[c] # T!NoCat /\ c # catEdit[p].del =>
               /\ cat'[c] # T!NoCat /\ c \notin DOMAIN catEdit[p].insert
               /\ cat'[c].type = IF c \in DOMAIN catEdit[p].type THEN catEdit[p].type[c] ELSE cat[c].type
               /\ cat'[c].parent = IF c \in DOMAIN catEdit[p].parent
                                   THEN catEdit[p].parent[c] ELSE cat[c].parent
               /\ Nothing(catEdit[p].type) /\ Nothing(catEdit[p].parent) => cat'[c] = cat[c]
<1> SUFFICES ASSUME NEW c \in Ids, cat[c] # T!NoCat, c # catEdit[p].del
             PROVE  /\ cat'[c] # T!NoCat /\ c \notin DOMAIN catEdit[p].insert
                    /\ cat'[c].type = IF c \in DOMAIN catEdit[p].type THEN catEdit[p].type[c] ELSE cat[c].type
                    /\ cat'[c].parent = IF c \in DOMAIN catEdit[p].parent
                                        THEN catEdit[p].parent[c] ELSE cat[c].parent
                    /\ Nothing(catEdit[p].type) /\ Nothing(catEdit[p].parent) => cat'[c] = cat[c]
  OBVIOUS
<1>1. cat'[c] = T!Written(catEdit[p], c)
  OBVIOUS
<1>2. /\ cat'[c] \in T!CategoryRow \/ cat'[c] = T!NoCat
      /\ cat'[c] # T!NoCat /\ c \notin DOMAIN catEdit[p].insert
      /\ cat'[c].type = IF c \in DOMAIN catEdit[p].type THEN catEdit[p].type[c] ELSE cat[c].type
      /\ cat'[c].parent = IF c \in DOMAIN catEdit[p].parent
                          THEN catEdit[p].parent[c] ELSE cat[c].parent
  BY <1>1, WrittenRow
<1>3. cat[c] \in T!CategoryRow
  BY CategoryOf
<1>4. Nothing(catEdit[p].type) /\ Nothing(catEdit[p].parent) => cat'[c] = cat[c]
  BY <1>2, <1>3, CategoryRowFields DEF Nothing
<1>5. QED
  BY <1>2, <1>4

LEMMA NewCommitted ==
    ASSUME CategoryInv, NEW p \in Requests, cat' = [c \in Ids |-> T!Written(catEdit[p], c)],
           NEW c \in Ids, cat[c] = T!NoCat, cat'[c] # T!NoCat
    PROVE  c \in DOMAIN catEdit[p].insert /\ cat'[c] = catEdit[p].insert[c]
<1>1. cat'[c] = T!Written(catEdit[p], c)
  OBVIOUS
<1>2. QED
  BY <1>1, WrittenRow

LEMMA CreatedRight ==
    ASSUME CategoryInv, NEW p \in Requests, UNCHANGED <<alone, restored>>, Creates(catEdit[p]),
           cat' = [c \in Ids |-> T!Written(catEdit[p], c)],
           dep' = [d \in Deps |-> T!Migrated(catEdit[p], d)]
    PROVE  T!TypesAgree' /\ T!FloorKept' /\ T!EntriesAccepted'
<1>1. catEdit[p].del = 0 /\ Nothing(catEdit[p].type) /\ Nothing(catEdit[p].parent)
  BY DEF Creates
<1>2. dep' = dep
  BY <1>1, DepsStay
<1>3. \A c \in Ids : cat[c] # T!NoCat => cat'[c] = cat[c]
  BY <1>1, RowCommitted, CategorySizes
<1>4. ASSUME NEW c \in Ids, cat[c] = T!NoCat, cat'[c] # T!NoCat, cat'[c].parent # 0
      PROVE  cat'[c].type = cat'[cat'[c].parent].type
  <2>1. c \in DOMAIN catEdit[p].insert /\ cat'[c] = catEdit[p].insert[c]
    BY <1>4, NewCommitted
  <2>2. /\ cat[cat'[c].parent] # T!NoCat
        /\ cat'[c].type = cat[cat'[c].parent].type /\ cat'[c].parent \in Ids
    BY <1>4, <2>1 DEF Creates, T!IsMaster, T!There, CategoryInv, InsertOk, MasterId
  <2>3. QED
    BY <1>3, <2>2
<1>5. QED
  BY <1>2, <1>3, <1>4, Grows

LEMMA ChildrenOf ==
    ASSUME CategoryInv, NEW c \in Ids
    PROVE  \A b \in Ids : b \in T!Children(c) <=> cat[b] # T!NoCat /\ cat[b].parent = c
  BY DEF T!Children, T!There

\* More than one, or more than in a set, leaves another.
LEMMA AnotherOne ==
    ASSUME NEW X \in SUBSET Ids
    PROVE  /\ \A c \in X : T!Cardinality(X) > 1 => \E b \in X : b # c
           /\ \A Y \in SUBSET X : T!Cardinality(X) > T!Cardinality(Y) => \E b \in X : b \notin Y
<1>1. IsFiniteSet(X) /\ T!Cardinality(X) = Cardinality(X)
  BY CategorySizes, FS_Subset DEF T!Cardinality, Cardinality
<1>2. ASSUME NEW c \in X, T!Cardinality(X) > 1
      PROVE  \E b \in X : b # c
  <2>1. SUFFICES ASSUME X = {c}
                 PROVE  FALSE
    OBVIOUS
  <2>2. Cardinality({c}) = 1
    BY FS_Singleton
  <2>3. QED
    BY <1>1, <1>2, <2>1, <2>2
<1>3. ASSUME NEW Y \in SUBSET X, T!Cardinality(X) > T!Cardinality(Y)
      PROVE  \E b \in X : b \notin Y
  <2>1. SUFFICES ASSUME X = Y
                 PROVE  FALSE
    OBVIOUS
  <2>2. Cardinality(X) \in Nat
    BY <1>1, FS_CardinalityType
  <2>3. QED
    BY <1>1, <1>3, <2>1, <2>2
<1>4. QED
  BY <1>2, <1>3

LEMMA RetypedRight ==
    ASSUME CategoryInv, NEW p \in Requests, alone, UNCHANGED <<alone, restored>>, Retypes(catEdit[p]),
           cat' = [c \in Ids |-> T!Written(catEdit[p], c)],
           dep' = [d \in Deps |-> T!Migrated(catEdit[p], d)]
    PROVE  T!TypesAgree' /\ T!FloorKept' /\ T!EntriesAccepted'
<1> DEFINE q == catEdit[p]
<1>1. q.del = 0 /\ Nothing(q.insert) /\ Nothing(q.parent) /\ 0 \notin Ids
  BY CategorySizes DEF Retypes
<1>2. PICK c \in Ids, type \in T!Types :
          /\ T!There(c) /\ type # cat[c].type
          /\ T!IsSub(c) => type = cat[cat[c].parent].type
          /\ T!TypeChangeValid(c, type) /\ T!FloorAfterTypeChange(c, type)
          /\ DOMAIN q.type = {c} \cup T!Children(c)
          /\ \A b \in DOMAIN q.type : q.type[b] = type
  BY DEF Retypes
<1>3. dep' = dep
  BY <1>1, DepsStay
<1>4. \A b \in Ids : cat[b] # T!NoCat =>
          /\ cat'[b] # T!NoCat /\ cat'[b].parent = cat[b].parent
          /\ cat'[b].type = IF b = c \/ cat[b].parent = c THEN type ELSE cat[b].type
  <2>1. \A b \in Ids : b \in DOMAIN q.type <=> b = c \/ b \in T!Children(c)
    BY <1>2
  <2>2. QED
    BY <1>1, <1>2, <2>1, RowCommitted, ChildrenOf DEF Nothing
<1>5. \A b \in Ids : cat'[b] # T!NoCat => cat[b] # T!NoCat
  BY <1>1, NewCommitted DEF Nothing
<1>6. \A b \in Ids : cat[b] # T!NoCat /\ cat[b].parent # 0 =>
          /\ cat[b].parent \in Ids /\ cat[cat[b].parent] # T!NoCat
          /\ cat[cat[b].parent].parent = 0
  BY CategoryOf DEF T!There, T!IsMaster
<1>7. \A b \in Ids : cat[b] # T!NoCat /\ cat[b].parent # 0 =>
          /\ cat'[cat[b].parent].type =
                IF cat[b].parent = c THEN type ELSE cat[cat[b].parent].type
  BY <1>1, <1>4, <1>6
<1>8. T!TypesAgree'
  <2>1. SUFFICES ASSUME ~ restored, NEW b \in Ids, cat'[b] # T!NoCat, cat'[b].parent # 0
                 PROVE  cat'[b].type = cat'[cat'[b].parent].type
    BY DEF T!TypesAgree, T!IsSub, T!There
  <2>2. cat[b] # T!NoCat /\ cat[b].parent # 0 /\ cat'[b].parent = cat[b].parent
    BY <1>4, <1>5, <2>1
  <2>3. cat[b].type = cat[cat[b].parent].type
    BY <2>1, <2>2 DEF CategoryInv, T!TypesAgree, T!IsSub, T!There
  <2>4. b = c => type = cat[cat[b].parent].type
    BY <1>2, <2>2 DEF T!IsSub, T!There
  <2>5. QED
    BY <1>4, <1>7, <2>2, <2>3, <2>4
<1>9. T!FloorKept'
  <2>1. SUFFICES ASSUME ~ restored, NEW t \in Sided
                 PROVE  /\ \E m \in Ids : cat'[m] # T!NoCat /\ cat'[m].parent = 0 /\ cat'[m].type = t
                        /\ \E s \in Ids : /\ cat'[s] # T!NoCat /\ cat'[s].parent # 0
                                          /\ cat'[cat'[s].parent].type = t
    BY DEF T!FloorKept, T!MastersOf, T!SubsOf, T!IsMaster, T!IsSub, T!There, Sided
  <2>2. T!MastersOf(t) # {} /\ T!SubsOf(t) # {}
    BY <2>1 DEF CategoryInv, T!FloorKept, Sided
  <2>3. \A m \in Ids : m \in T!MastersOf(t) <=> cat[m] # T!NoCat /\ cat[m].parent = 0 /\ cat[m].type = t
    BY DEF T!MastersOf, T!IsMaster, T!There
  <2>4. \A s \in Ids : s \in T!SubsOf(t) <=>
            cat[s] # T!NoCat /\ cat[s].parent # 0 /\ cat[cat[s].parent].type = t
    BY DEF T!SubsOf, T!IsSub, T!There
  <2>5. CASE cat[c].parent = 0 /\ cat[c].type = t
    <3>1. T!Cardinality(T!MastersOf(t)) > 1 /\ T!Cardinality(T!SubsOf(t)) > T!Cardinality(T!Children(c))
      BY <1>2, <2>1, <2>5 DEF T!FloorAfterTypeChange, T!IsMaster, Sided
    <3>2. c \in T!MastersOf(t) /\ T!MastersOf(t) \subseteq Ids /\ T!SubsOf(t) \subseteq Ids
      BY <1>2, <2>3, <2>5 DEF T!There, T!MastersOf, T!SubsOf
    <3>3. PICK m \in T!MastersOf(t) : m # c
      BY <3>1, <3>2, AnotherOne
    <3>4. T!Children(c) \subseteq T!SubsOf(t)
      <4>1. ASSUME NEW b \in T!Children(c)
            PROVE  b \in T!SubsOf(t)
        BY <1>1, <2>4, <2>5, ChildrenOf DEF T!Children
      <4>2. QED
        BY <4>1
    <3>5. PICK s \in T!SubsOf(t) : s \notin T!Children(c)
      BY <3>1, <3>2, <3>4, AnotherOne
    <3>6. m \in Ids /\ cat'[m] # T!NoCat /\ cat'[m].parent = 0 /\ cat'[m].type = t
      BY <1>1, <1>4, <2>3, <3>2, <3>3
    <3>7. /\ s \in Ids /\ cat[s] # T!NoCat /\ cat[s].parent # 0 /\ cat[s].parent # c
          /\ cat[cat[s].parent].type = t
      BY <2>4, <3>2, <3>5, ChildrenOf
    <3>8. cat'[s] # T!NoCat /\ cat'[s].parent # 0 /\ cat'[cat'[s].parent].type = t
      BY <1>4, <1>7, <3>7
    <3>9. QED
      BY <3>6, <3>7, <3>8
  <2>6. CASE ~ (cat[c].parent = 0 /\ cat[c].type = t)
    <3>1. PICK m \in Ids : cat[m] # T!NoCat /\ cat[m].parent = 0 /\ cat[m].type = t
      BY <2>2, <2>3 DEF T!MastersOf
    <3>2. m # c /\ cat'[m] # T!NoCat /\ cat'[m].parent = 0 /\ cat'[m].type = t
      BY <1>1, <1>4, <2>6, <3>1
    <3>3. PICK s \in Ids : cat[s] # T!NoCat /\ cat[s].parent # 0 /\ cat[cat[s].parent].type = t
      BY <2>2, <2>4 DEF T!SubsOf
    <3>4. cat[s].parent # c
      BY <1>6, <2>6, <3>3
    <3>5. cat'[s] # T!NoCat /\ cat'[s].parent # 0 /\ cat'[cat'[s].parent].type = t
      BY <1>4, <1>7, <3>3, <3>4
    <3>6. QED
      BY <3>2, <3>3, <3>5
  <2>7. QED
    BY <2>5, <2>6
<1>10. T!EntriesAccepted'
  <2>1. SUFFICES ASSUME NEW d \in Deps, dep[d] # T!NoDep
                 PROVE  T!Sides(dep[d].kind) \subseteq T!Accepts(cat'[dep[d].of].type)
    BY <1>3 DEF T!EntriesAccepted
  <2>2. dep[d].of \in Ids /\ cat[dep[d].of] # T!NoCat
    BY <2>1 DEF CategoryInv, CategoryTypes, T!There
  <2>3. T!Sides(dep[d].kind) \subseteq T!Accepts(cat[dep[d].of].type)
    BY <2>1 DEF CategoryInv, T!EntriesAccepted
  <2>4. CASE dep[d].of = c \/ cat[dep[d].of].parent = c
    <3>1. dep[d].of \in {c} \cup T!Children(c)
      BY <2>2, <2>4, ChildrenOf
    <3>2. T!SidesOn(dep[d].of) \subseteq T!Accepts(type)
      BY <1>2, <3>1 DEF T!TypeChangeValid
    <3>3. T!Sides(dep[d].kind) \subseteq T!SidesOn(dep[d].of)
      BY DEF T!SidesOn, T!On
    <3>4. QED
      BY <1>4, <2>2, <2>4, <3>2, <3>3
  <2>5. CASE ~ (dep[d].of = c \/ cat[dep[d].of].parent = c)
    BY <1>4, <2>2, <2>3, <2>5
  <2>6. QED
    BY <2>4, <2>5
<1>11. QED
  BY <1>8, <1>9, <1>10

LEMMA MovedRight ==
    ASSUME CategoryInv, NEW p \in Requests, alone, UNCHANGED <<alone, restored>>, Moves(catEdit[p]),
           cat' = [c \in Ids |-> T!Written(catEdit[p], c)],
           dep' = [d \in Deps |-> T!Migrated(catEdit[p], d)]
    PROVE  T!TypesAgree' /\ T!FloorKept' /\ T!EntriesAccepted'
<1> DEFINE q == catEdit[p]
<1>1. q.del = 0 /\ Nothing(q.insert) /\ Nothing(q.type) /\ 0 \notin Ids
  BY CategorySizes DEF Moves
<1>2. \A c \in DOMAIN q.parent :
          /\ c \in Ids /\ q.parent[c] \in Ids /\ cat[c] # T!NoCat /\ cat[c].parent # 0
          /\ cat[q.parent[c]] # T!NoCat /\ cat[c].type = cat[q.parent[c]].type
  BY DEF Moves, T!MoveValid, T!IsSub, T!IsMaster, T!There
<1>3. dep' = dep
  BY <1>1, DepsStay
<1>4. \A b \in Ids : cat[b] # T!NoCat =>
          /\ cat'[b] # T!NoCat /\ cat'[b].type = cat[b].type
          /\ cat'[b].parent = IF b \in DOMAIN q.parent THEN q.parent[b] ELSE cat[b].parent
          /\ cat'[b].parent = 0 <=> cat[b].parent = 0
  BY <1>1, <1>2, RowCommitted DEF Nothing
<1>5. \A b \in Ids : cat'[b] # T!NoCat => cat[b] # T!NoCat
  BY <1>1, NewCommitted DEF Nothing
<1>6. \A b \in Ids : cat[b] # T!NoCat /\ cat[b].parent # 0 =>
          cat[b].parent \in Ids /\ cat[cat[b].parent] # T!NoCat
  BY CategoryOf DEF T!There, T!IsMaster
<1>7. ~ restored => \A b \in Ids : cat[b] # T!NoCat /\ cat[b].parent # 0 =>
          cat[b].type = cat[cat[b].parent].type
  BY DEF CategoryInv, T!TypesAgree, T!IsSub, T!There
<1>8. ~ restored => \A b \in Ids : cat'[b] # T!NoCat /\ cat'[b].parent # 0 =>
          cat'[b].type = cat'[cat'[b].parent].type
  BY <1>2, <1>4, <1>5, <1>6, <1>7
<1>9. T!TypesAgree'
  BY <1>8 DEF T!TypesAgree, T!IsSub, T!There
<1>10. T!FloorKept'
  <2>1. SUFFICES ASSUME ~ restored, NEW t \in Sided
                 PROVE  /\ \E m \in Ids : cat'[m] # T!NoCat /\ cat'[m].parent = 0 /\ cat'[m].type = t
                        /\ \E s \in Ids : /\ cat'[s] # T!NoCat /\ cat'[s].parent # 0
                                          /\ cat'[cat'[s].parent].type = t
    BY DEF T!FloorKept, T!MastersOf, T!SubsOf, T!IsMaster, T!IsSub, T!There, Sided
  <2>2. T!MastersOf(t) # {} /\ T!SubsOf(t) # {}
    BY <2>1 DEF CategoryInv, T!FloorKept, Sided
  <2>3. PICK m \in Ids : cat[m] # T!NoCat /\ cat[m].parent = 0 /\ cat[m].type = t
    BY <2>2 DEF T!MastersOf, T!IsMaster, T!There
  <2>4. PICK s \in Ids : cat[s] # T!NoCat /\ cat[s].parent # 0 /\ cat[cat[s].parent].type = t
    BY <2>2 DEF T!SubsOf, T!IsSub, T!There
  <2>5. cat'[m] # T!NoCat /\ cat'[m].parent = 0 /\ cat'[m].type = t
    BY <1>4, <2>3
  <2>6. cat'[s] # T!NoCat /\ cat'[s].parent # 0 /\ cat'[cat'[s].parent].type = t
    BY <1>4, <1>7, <1>8, <2>1, <2>4
  <2>7. QED
    BY <2>5, <2>6
<1>11. T!EntriesAccepted'
  <2>1. SUFFICES ASSUME NEW d \in Deps, dep[d] # T!NoDep
                 PROVE  T!Sides(dep[d].kind) \subseteq T!Accepts(cat'[dep[d].of].type)
    BY <1>3 DEF T!EntriesAccepted
  <2>2. dep[d].of \in Ids /\ cat[dep[d].of] # T!NoCat
    BY <2>1 DEF CategoryInv, CategoryTypes, T!There
  <2>3. QED
    BY <1>4, <2>1, <2>2 DEF CategoryInv, T!EntriesAccepted
<1>12. QED
  BY <1>9, <1>10, <1>11

\* The entries of a deleted category end on one that accepts them.
LEMMA MigratedRight ==
    ASSUME CategoryInv, NEW p \in Requests, alone, Deletes(catEdit[p]),
           \A b \in Ids : cat'[b] # T!NoCat => b # catEdit[p].del /\ cat'[b] = cat[b],
           NEW d \in Deps, dep'[d] = T!Migrated(catEdit[p], d), dep'[d] # T!NoDep,
           dep'[d].of # 0 => cat'[dep'[d].of] # T!NoCat
    PROVE  T!Sides(dep'[d].kind) \subseteq T!Accepts(cat'[dep'[d].of].type)
<1> DEFINE q == catEdit[p]
<1>1. q.del \in Ids /\ 0 \notin Ids /\ cat[q.del] \in T!CategoryRow
  BY CategorySizes, CategoryOf DEF Deletes
<1>2. dep[d] # T!NoDep
  BY <1>1 DEF T!Migrated, T!NoDep
<1>3. /\ dep[d] = [of |-> dep[d].of, kind |-> dep[d].kind]
      /\ dep[d].of \in Ids /\ cat[dep[d].of] # T!NoCat
      /\ T!Sides(dep[d].kind) \subseteq T!Accepts(cat[dep[d].of].type)
  BY <1>2 DEF CategoryInv, CategoryTypes, T!There, T!EntriesAccepted
<1>4. CASE dep[d].of # q.del
  <2>1. dep'[d] = dep[d]
    BY <1>4 DEF T!Migrated
  <2>2. cat'[dep[d].of] = cat[dep[d].of]
    BY <1>1, <1>3, <2>1
  <2>3. QED
    BY <1>3, <2>1, <2>2
<1>5. CASE dep[d].of = q.del
  <2>1. d \in T!On(q.del)
    BY <1>5 DEF T!On
  <2>2. dep[d].kind \notin {"rule", "budget"} => q.target \in Ids /\ T!TargetCompatible(q.del, q.target)
    <3>1. dep[d].kind \notin {"rule", "budget"} => d \in T!Dependents(q.del)
      BY <2>1 DEF T!Dependents
    <3>2. QED
      BY <3>1 DEF Deletes
  <2>3. CASE dep[d].kind \in {"rule", "budget"}
    <3>1. dep'[d].kind \in {"rule", "budget"}
      <4>1. \/ dep'[d] = dep[d] \/ dep'[d] = [dep[d] EXCEPT !.of = q.target]
        BY DEF T!Migrated
      <4>2. QED
        BY <1>3, <2>3, <4>1
    <3>2. T!Sides(dep'[d].kind) = {}
      BY <3>1 DEF T!Sides
    <3>3. QED
      BY <3>2
  <2>4. CASE dep[d].kind \notin {"rule", "budget"}
    <3>1. dep'[d] = [dep[d] EXCEPT !.of = q.target]
      BY <1>1, <1>5, <2>2, <2>4 DEF T!Migrated
    <3>2. dep'[d].of = q.target /\ dep'[d].kind = dep[d].kind
      BY <1>3, <3>1
    <3>3. cat'[q.target] = cat[q.target]
      BY <1>1, <2>2, <2>4, <3>2
    <3>4. CASE cat[q.del].type # "both"
      <4>1. cat[q.target].type \in {cat[q.del].type, "both"}
        BY <2>2, <2>4, <3>4 DEF T!TargetCompatible
      <4>2. cat[q.del].type \in Sided
        BY <1>1, <3>4, CategoryRowFields DEF T!Types, Sided
      <4>3. T!Accepts(cat[q.del].type) \subseteq T!Accepts(cat[q.target].type)
        BY <4>1, <4>2 DEF T!Accepts, Sided
      <4>4. QED
        BY <1>3, <1>5, <3>2, <3>3, <4>3
    <3>5. CASE cat[q.del].type = "both"
      <4>1. T!SidesOn(q.del) \subseteq T!Accepts(cat[q.target].type)
        BY <2>2, <2>4, <3>5 DEF T!TargetCompatible
      <4>2. T!Sides(dep[d].kind) \subseteq T!SidesOn(q.del)
        BY <2>1 DEF T!SidesOn
      <4>3. QED
        BY <3>2, <3>3, <4>1, <4>2
    <3>6. QED
      BY <3>4, <3>5
  <2>5. QED
    BY <2>3, <2>4
<1>6. QED
  BY <1>4, <1>5

LEMMA DeletedRight ==
    ASSUME CategoryInv, NEW p \in Requests, alone, UNCHANGED <<alone, restored>>, Deletes(catEdit[p]),
           cat' = [c \in Ids |-> T!Written(catEdit[p], c)],
           dep' = [d \in Deps |-> T!Migrated(catEdit[p], d)],
           \A d \in Deps : dep'[d].of # 0 => cat'[dep'[d].of] # T!NoCat
    PROVE  T!TypesAgree' /\ T!FloorKept' /\ T!EntriesAccepted'
<1> DEFINE q == catEdit[p]
<1>1. /\ q.del \in Ids /\ Nothing(q.insert) /\ Nothing(q.type) /\ Nothing(q.parent)
      /\ T!Children(q.del) = {} /\ T!FloorAfterDelete(q.del) /\ cat[q.del] # T!NoCat
  BY DEF Deletes, T!There
<1>2. cat'[q.del] = T!NoCat
  <2>1. T!Written(q, q.del) = T!NoCat
    BY DEF T!Written
  <2>2. QED
    BY <1>1, <2>1
<1>3. \A b \in Ids : cat[b] # T!NoCat /\ b # q.del => cat'[b] # T!NoCat /\ cat'[b] = cat[b]
  BY <1>1, RowCommitted
<1>4. \A b \in Ids : cat'[b] # T!NoCat => cat[b] # T!NoCat /\ b # q.del /\ cat'[b] = cat[b]
  BY <1>1, <1>2, <1>3, NewCommitted DEF Nothing
<1>5. \A b \in Ids : cat[b] # T!NoCat /\ cat[b].parent # 0 =>
          /\ cat[b].parent \in Ids /\ cat[cat[b].parent] # T!NoCat
          /\ cat[b].parent # q.del /\ cat'[cat[b].parent] = cat[cat[b].parent]
  <2>1. ASSUME NEW b \in Ids, cat[b] # T!NoCat, cat[b].parent # 0
        PROVE  cat[b].parent \in Ids /\ cat[cat[b].parent] # T!NoCat /\ cat[b].parent # q.del
    BY <1>1, <2>1, CategoryOf, ChildrenOf DEF T!There, T!IsMaster
  <2>2. QED
    BY <1>3, <2>1
<1>6. T!TypesAgree'
  <2>1. SUFFICES ASSUME ~ restored, NEW b \in Ids, cat'[b] # T!NoCat, cat'[b].parent # 0
                 PROVE  cat'[b].type = cat'[cat'[b].parent].type
    BY DEF T!TypesAgree, T!IsSub, T!There
  <2>2. cat[b] # T!NoCat /\ cat[b].parent # 0 /\ cat'[b] = cat[b]
    BY <1>4, <2>1
  <2>3. cat[b].type = cat[cat[b].parent].type
    BY <2>1, <2>2 DEF CategoryInv, T!TypesAgree, T!IsSub, T!There
  <2>4. QED
    BY <1>5, <2>2, <2>3
<1>7. T!FloorKept'
  <2>1. SUFFICES ASSUME ~ restored, NEW t \in Sided
                 PROVE  /\ \E m \in Ids : cat'[m] # T!NoCat /\ cat'[m].parent = 0 /\ cat'[m].type = t
                        /\ \E s \in Ids : /\ cat'[s] # T!NoCat /\ cat'[s].parent # 0
                                          /\ cat'[cat'[s].parent].type = t
    BY DEF T!FloorKept, T!MastersOf, T!SubsOf, T!IsMaster, T!IsSub, T!There, Sided
  <2>2. T!MastersOf(t) # {} /\ T!SubsOf(t) # {}
    BY <2>1 DEF CategoryInv, T!FloorKept, Sided
  <2>3. \A m : m \in T!MastersOf(t) <=>
            m \in Ids /\ cat[m] # T!NoCat /\ cat[m].parent = 0 /\ cat[m].type = t
    BY DEF T!MastersOf, T!IsMaster, T!There
  <2>4. \A s : s \in T!SubsOf(t) <=>
            s \in Ids /\ cat[s] # T!NoCat /\ cat[s].parent # 0 /\ cat[cat[s].parent].type = t
    BY DEF T!SubsOf, T!IsSub, T!There
  <2>5. T!MastersOf(t) \in SUBSET Ids /\ T!SubsOf(t) \in SUBSET Ids
    BY DEF T!MastersOf, T!SubsOf
  <2>6. /\ q.del \in T!MastersOf(t) => T!Cardinality(T!MastersOf(t)) > 1
        /\ q.del \in T!SubsOf(t) => T!Cardinality(T!SubsOf(t)) > 1
    BY <1>1, <2>3, <2>4 DEF T!FloorAfterDelete, Sided, T!IsMaster, T!IsSub, T!There
  <2>7. PICK m \in T!MastersOf(t) : m # q.del
    BY <2>2, <2>5, <2>6, AnotherOne
  <2>8. PICK s \in T!SubsOf(t) : s # q.del
    BY <2>2, <2>5, <2>6, AnotherOne
  <2>9. m \in Ids /\ cat'[m] # T!NoCat /\ cat'[m].parent = 0 /\ cat'[m].type = t
    BY <1>3, <2>3, <2>7
  <2>10. s \in Ids /\ cat'[s] # T!NoCat /\ cat'[s].parent # 0 /\ cat'[cat'[s].parent].type = t
    <3>1. /\ s \in Ids /\ cat[s] # T!NoCat /\ cat[s].parent # 0 /\ s # q.del
          /\ cat[cat[s].parent].type = t
      BY <2>4, <2>8
    <3>2. cat'[cat[s].parent] = cat[cat[s].parent]
      BY <1>5, <3>1
    <3>3. cat'[s] # T!NoCat /\ cat'[s] = cat[s]
      BY <1>3, <3>1
    <3>4. QED
      BY <3>1, <3>2, <3>3
  <2>11. QED
    BY <2>9, <2>10
<1>8. T!EntriesAccepted'
  <2>1. SUFFICES ASSUME NEW d \in Deps, dep'[d] # T!NoDep
                 PROVE  T!Sides(dep'[d].kind) \subseteq T!Accepts(cat'[dep'[d].of].type)
    BY DEF T!EntriesAccepted
  <2>2. dep'[d] = T!Migrated(catEdit[p], d)
    OBVIOUS
  <2>3. QED
    BY <1>4, <2>1, <2>2, MigratedRight
<1>9. QED
  BY <1>6, <1>7, <1>8

LEMMA CommitCatEditKeeps ==
    ASSUME CategoryInv, NEW p \in Requests, T!CommitCatEdit(p)
    PROVE  CategoryInv'
<1>1. /\ catEdit[p].pc = "commit" /\ catEdit' = [catEdit EXCEPT ![p] = T!NoCatEdit]
      /\ UNCHANGED <<alone, restored, spent>>
  BY DEF T!CommitCatEdit
<1>2. CASE /\ cat' = [c \in Ids |-> T!Written(catEdit[p], c)]
           /\ dep' = [d \in Deps |-> T!Migrated(catEdit[p], d)]
           /\ \A c \in Ids : cat'[c].parent # 0 => cat'[cat'[c].parent] # T!NoCat
           /\ \A d \in Deps : dep'[d].of # 0 => cat'[dep'[d].of] # T!NoCat
  <2>1. CategoryTypes' /\ \A o \in Requests : InsertOk(o)' /\ ChangeOk(o)' /\ RunsAlone(o)'
    BY <1>1, <1>2, TreeCommitted
  <2>2. T!TypesAgree' /\ T!FloorKept' /\ T!EntriesAccepted'
    <3>1. CASE ~ alone
      BY <1>1, <3>1 DEF T!TypesAgree, T!FloorKept, T!EntriesAccepted
    <3>2. CASE alone
      <4>1. Creates(catEdit[p]) \/ Retypes(catEdit[p]) \/ Moves(catEdit[p]) \/ Deletes(catEdit[p])
        BY <1>1, <3>2 DEF CategoryInv, RunsAlone
      <4>2. QED
        BY <1>1, <1>2, <3>2, <4>1, CreatedRight, RetypedRight, MovedRight, DeletedRight
    <3>3. QED
      BY <3>1, <3>2
  <2>3. QED
    BY <2>1, <2>2 DEF CategoryInv
<1>3. CASE UNCHANGED <<cat, dep>>
  <2>1. \A c \in Ids : /\ MasterId(c) /\ cat'[c] # T!NoCat => cat'[c].parent = 0
                       /\ SubId(c) /\ cat'[c] # T!NoCat => cat'[c].parent # 0
    BY <1>3 DEF MasterId, SubId
  <2>2. /\ DOMAIN catEdit' = Requests
        /\ \A c : Settled(c) => Settled(c)'
        /\ \A o \in Requests : InsertOk(o)' /\ ChangeOk(o)' /\ RunsAlone(o)'
    BY <1>1, <1>3, <2>1, EditEnds
  <2>3. \A c \in Ids : T!IsMaster(c)' <=> T!IsMaster(c)
    BY <1>3 DEF T!IsMaster, T!There
  <2>4. \A c \in Ids : cat[c] # T!NoCat => Settled(c)'
    BY <2>2 DEF CategoryInv, CategoryTypes
  <2>5. CategoryTypes'
    BY <1>1, <1>3, <2>2, <2>4 DEF CategoryInv, CategoryTypes, T!IsMaster, T!There
  <2>6. T!TypesAgree' /\ T!FloorKept' /\ T!EntriesAccepted'
    BY <1>1, <1>3, RowsOnly
  <2>7. QED
    BY <2>2, <2>5, <2>6 DEF CategoryInv
<1>4. QED
  BY <1>2, <1>3 DEF T!CommitCatEdit

\* A recommended category comes back on the level it had.
LEMMA RestoreRecommendedKeeps ==
    ASSUME CategoryInv, T!RestoreRecommended
    PROVE  CategoryInv'
<1>1. PICK missing : missing = {c \in DOMAIN SystemRow : ~ T!There(c)}
  OBVIOUS
<1>2. /\ cat' = [c \in Ids |-> IF c \in missing THEN SystemRow[c] ELSE cat[c]]
      /\ restored' = (restored \/ \E c \in missing :
            SystemRow[c].parent # 0 /\ cat'[SystemRow[c].parent].type # SystemRow[c].type)
      /\ UNCHANGED <<dep, catEdit, alone, spent>> /\ T!MayAct
  BY <1>1 DEF T!RestoreRecommended, T!MayEdit
<1>3. \A c : c \in missing <=> c \in DOMAIN SystemRow /\ cat[c] = T!NoCat
  BY <1>1 DEF T!There
<1>4. \A c \in Ids : /\ c \in missing => cat'[c] = SystemRow[c] /\ cat'[c] # T!NoCat
                     /\ c \notin missing => cat'[c] = cat[c]
                     /\ cat[c] # T!NoCat => cat'[c] = cat[c]
  BY <1>2, <1>3, CategorySizes, CategoryRowFields
<1>5. \A c : Settled(c) <=> Settled(c)'
  BY <1>2 DEF Settled, Pending
<1>6. \A c \in missing : c \in Ids /\ Settled(c)
  BY <1>3, CategorySizes DEF CategoryInv, CategoryTypes, InsertOk, Settled, Pending
<1>7. /\ \A c : MasterId(c) => MasterId(c)'
      /\ \A c : SubId(c) => SubId(c)'
  BY <1>3, <1>4, <1>5 DEF MasterId, SubId
<1>8. ASSUME NEW c \in Ids, cat'[c] # T!NoCat
      PROVE  /\ Settled(c) /\ (c \in DOMAIN SystemRow => (cat'[c].parent = 0 <=> SystemRow[c].parent = 0))
             /\ cat'[c].parent # 0 => T!IsMaster(cat[c].parent)'
  <2>1. CASE c \in missing
    <3>1. cat'[c] = SystemRow[c] /\ c \in DOMAIN SystemRow
      BY <1>3, <1>4, <2>1
    <3>2. SystemRow[c].parent # 0 => T!IsMaster(cat[c].parent)'
      <4>1. SUFFICES ASSUME SystemRow[c].parent # 0
                     PROVE  T!IsMaster(cat[c].parent)'
        OBVIOUS
      <4>2. PICK m \in DOMAIN SystemRow : m = SystemRow[c].parent /\ SystemRow[m].parent = 0 /\ m \in Ids
        BY <3>1, <4>1, CategorySizes
      <4>3. cat'[m] # T!NoCat /\ cat'[m].parent = 0
        <5>1. CASE m \in missing
          BY <1>4, <4>2, <5>1
        <5>2. CASE m \notin missing
          BY <1>3, <1>4, <4>2, <5>2, CategoryOf DEF T!There
        <5>3. QED
          BY <5>1, <5>2
      <4>4. QED
        BY <3>1, <4>2, <4>3 DEF T!IsMaster, T!There
    <3>3. QED
      BY <1>6, <2>1, <3>1, <3>2
  <2>2. CASE c \notin missing
    <3>1. cat'[c] = cat[c] /\ cat[c] # T!NoCat
      BY <1>4, <1>8, <2>2
    <3>2. cat[c].parent # 0 => cat[c].parent \in Ids /\ T!IsMaster(cat[c].parent)
      BY <3>1, CategoryOf DEF T!There
    <3>3. cat[c].parent # 0 => T!IsMaster(cat[c].parent)'
      BY <1>4, <3>1, <3>2 DEF T!IsMaster, T!There
    <3>4. QED
      BY <3>1, <3>3, CategoryOf DEF T!There
  <2>3. QED
    BY <2>1, <2>2
<1>9. CategoryTypes'
  <2>1. cat' \in [Ids -> T!CategoryRow \cup {T!NoCat}]
    BY <1>2, <1>3, CategorySizes, CategoryOf
  <2>2. restored' \in BOOLEAN
    BY <1>2 DEF CategoryInv, CategoryTypes
  <2>3. ASSUME NEW d \in Deps
        PROVE  dep[d] = T!NoDep \/
               (dep[d] = [of |-> dep[d].of, kind |-> dep[d].kind] /\ dep[d].kind \in T!Kinds
                /\ dep[d].of \in Ids /\ cat'[dep[d].of] # T!NoCat)
    BY <1>4 DEF CategoryInv, CategoryTypes, T!There
  <2>4. QED
    BY <1>2, <1>5, <1>8, <2>1, <2>2, <2>3 DEF CategoryInv, CategoryTypes, T!There
<1>10. ASSUME NEW o \in Requests
       PROVE  InsertOk(o)' /\ ChangeOk(o)' /\ RunsAlone(o)'
  <2>1. InsertOk(o) /\ ChangeOk(o)
    BY DEF CategoryInv
  <2>2. \A c \in DOMAIN catEdit[o].insert : c \in Ids /\ cat'[c] = T!NoCat
    BY <1>3, <1>4, <2>1 DEF InsertOk
  <2>3. InsertOk(o)'
    BY <1>2, <1>7, <2>1, <2>2 DEF InsertOk
  <2>4. ChangeOk(o)'
    BY <1>2, <1>7, <2>1 DEF ChangeOk
  <2>5. RunsAlone(o)'
    BY <1>2 DEF RunsAlone, T!MayAct, T!Quiet
  <2>6. QED
    BY <2>3, <2>4, <2>5
<1>11. T!TypesAgree' /\ T!FloorKept' /\ T!EntriesAccepted'
  <2>1. ASSUME ~ restored', NEW c \in Ids, cat[c] = T!NoCat, cat'[c] # T!NoCat, cat'[c].parent # 0
        PROVE  cat'[c].type = cat'[cat'[c].parent].type
    BY <1>2, <1>4, <2>1
  <2>2. QED
    BY <1>2, <1>4, <2>1, Grows
<1>12. QED
  BY <1>9, <1>10, <1>11 DEF CategoryInv

LEMMA RecordEntryKeeps ==
    ASSUME CategoryInv, NEW d \in Deps, NEW c \in Ids, NEW kind \in T!Kinds, T!RecordEntry(d, c, kind)
    PROVE  CategoryInv'
<1>1. /\ UNCHANGED <<cat, catEdit, alone, restored, spent>> /\ T!There(c) /\ T!MayAct
      /\ dep' = [dep EXCEPT ![d] = [of |-> c, kind |-> kind]]
      /\ T!Sides(kind) \subseteq T!Accepts(cat[c].type)
  BY DEF T!RecordEntry
<1>2. /\ dep' = [o \in Deps |-> dep'[o]] /\ dep'[d] = [of |-> c, kind |-> kind]
      /\ \A o \in Deps \ {d} : dep'[o] = dep[o]
  BY <1>1 DEF CategoryInv, CategoryTypes
<1>3. \A b : Settled(b)' <=> Settled(b)
  BY <1>1 DEF Settled, Pending
<1>4. \A b : T!IsMaster(b)' <=> T!IsMaster(b)
  BY <1>1 DEF T!IsMaster, T!There
<1>5. \A b : (MasterId(b)' <=> MasterId(b)) /\ (SubId(b)' <=> SubId(b))
  BY <1>1, <1>3 DEF MasterId, SubId
<1>6. CategoryTypes'
  <2>1. ASSUME NEW o \in Deps
        PROVE  dep'[o] = T!NoDep \/
               (dep'[o] = [of |-> dep'[o].of, kind |-> dep'[o].kind] /\ dep'[o].kind \in T!Kinds
                /\ dep'[o].of \in Ids /\ cat[dep'[o].of] # T!NoCat)
    <3>1. CASE o = d
      BY <1>1, <1>2, <3>1 DEF T!There
    <3>2. CASE o # d
      BY <1>2, <3>2 DEF CategoryInv, CategoryTypes, T!There
    <3>3. QED
      BY <3>1, <3>2
  <2>2. QED
    BY <1>1, <1>2, <1>3, <2>1 DEF CategoryInv, CategoryTypes, T!IsMaster, T!There
<1>7. ASSUME NEW o \in Requests
      PROVE  InsertOk(o)' /\ ChangeOk(o)' /\ RunsAlone(o)'
  <2>1. InsertOk(o) /\ ChangeOk(o)
    BY DEF CategoryInv
  <2>2. InsertOk(o)' /\ ChangeOk(o)'
    BY <1>1, <1>5, <2>1 DEF InsertOk, ChangeOk
  <2>3. RunsAlone(o)'
    BY <1>1 DEF RunsAlone, T!MayAct, T!Quiet
  <2>4. QED
    BY <2>2, <2>3
<1>8. T!TypesAgree'
  BY <1>1 DEF CategoryInv, T!TypesAgree, T!IsSub, T!There
<1>9. T!FloorKept'
  BY <1>1 DEF CategoryInv, T!FloorKept, T!MastersOf, T!SubsOf, T!IsMaster, T!IsSub, T!There
<1>10. T!EntriesAccepted'
  <2>1. dep'[d].kind = kind /\ dep'[d].of = c
    BY <1>2
  <2>2. QED
    BY <1>1, <1>2, <2>1 DEF CategoryInv, T!EntriesAccepted
<1>11. QED
  BY <1>6, <1>7, <1>8, <1>9, <1>10 DEF CategoryInv

LEMMA TaxonomyKeeps ==
    ASSUME CategoryInv, T!TaxonomyNext
    PROVE  CategoryInv'
<1>1. ASSUME NEW p \in Requests, NEW c \in Ids,
             \/ \E m \in Ids \cup {0}, t \in T!Types : T!CreateCategory(p, c, m, t)
             \/ \E t \in T!Types : T!UpdateCategory(p, c, t)
             \/ \E m \in Ids : T!MoveSubcategory(p, c, m)
             \/ \E m \in Ids \cup {0} : T!DeleteCategory(p, c, m)
      PROVE  CategoryInv'
  <2>1. CASE \E m \in Ids \cup {0}, t \in T!Types : T!CreateCategory(p, c, m, t)
    BY <2>1, CreateCategoryKeeps
  <2>2. CASE \E t \in T!Types : T!UpdateCategory(p, c, t)
    BY <2>2, UpdateCategoryKeeps
  <2>3. CASE \E m \in Ids : T!MoveSubcategory(p, c, m)
    BY <2>3, MovesKeep
  <2>4. CASE \E m \in Ids \cup {0} : T!DeleteCategory(p, c, m)
    BY <2>4, DeleteCategoryKeeps
  <2>5. QED
    BY <1>1, <2>1, <2>2, <2>3, <2>4
<1>2. ASSUME NEW p \in Requests, NEW some \in SUBSET {c \in Ids : T!IsSub(c)},
             \E moves \in [some -> {c \in Ids : T!IsMaster(c)}] : T!BatchMove(p, moves)
      PROVE  CategoryInv'
  BY <1>2, MovesKeep
<1>3. ASSUME NEW p \in Requests, T!CommitCatEdit(p)
      PROVE  CategoryInv'
  BY <1>3, CommitCatEditKeeps
<1>4. ASSUME NEW d \in Deps, NEW c \in Ids, NEW kind \in T!Kinds, T!RecordEntry(d, c, kind)
      PROVE  CategoryInv'
  BY <1>4, RecordEntryKeeps
<1>5. ASSUME T!RestoreRecommended
      PROVE  CategoryInv'
  BY <1>5, RestoreRecommendedKeeps
<1>6. QED
  BY <1>1, <1>2, <1>3, <1>4, <1>5 DEF T!TaxonomyNext

LEMMA CategoryBegins ==
    ASSUME T!TaxonomyInit
    PROVE  CategoryInv
<1>1. /\ \A c \in Ids : cat[c] = IF c \in DOMAIN SystemRow THEN SystemRow[c] ELSE T!NoCat
      /\ cat = [c \in Ids |-> IF c \in DOMAIN SystemRow THEN SystemRow[c] ELSE T!NoCat]
      /\ dep = [d \in Deps |-> T!NoDep] /\ DOMAIN catEdit = Requests
      /\ \A p \in Requests : catEdit[p] = T!NoCatEdit
      /\ alone \in BOOLEAN /\ restored = FALSE /\ spent = DOMAIN SystemRow
  BY DEF T!TaxonomyInit
<1>2. \A c \in DOMAIN SystemRow : c \in Ids /\ cat[c] = SystemRow[c] /\ cat[c] # T!NoCat /\ Settled(c)
  BY <1>1, CategorySizes, CategoryRowFields, NoEdit DEF Settled, Pending
<1>3. CategoryTypes
  <2>1. cat \in [Ids -> T!CategoryRow \cup {T!NoCat}]
    BY <1>1, CategorySizes
  <2>2. \A c \in Ids : cat[c] # T!NoCat /\ cat[c].parent # 0 => T!IsMaster(cat[c].parent)
    BY <1>1, <1>2, CategorySizes DEF T!IsMaster, T!There
  <2>3. QED
    BY <1>1, <1>2, <2>1, <2>2 DEF CategoryTypes
<1>4. \A p \in Requests : InsertOk(p) /\ ChangeOk(p) /\ RunsAlone(p)
  BY <1>1, NoEdit DEF InsertOk, ChangeOk, RunsAlone
<1>5. T!TypesAgree
  BY <1>1, <1>2, CategorySizes DEF T!TypesAgree, T!IsSub, T!There
<1>6. T!FloorKept
  <2>1. ASSUME NEW t \in Sided
        PROVE  T!MastersOf(t) # {} /\ T!SubsOf(t) # {}
    <3>1. PICK m \in DOMAIN SystemRow : SystemRow[m].parent = 0 /\ SystemRow[m].type = t
      BY <2>1, CategorySizes DEF Sided
    <3>2. PICK s \in DOMAIN SystemRow : SystemRow[s].parent # 0 /\ SystemRow[s].type = t
      BY <2>1, CategorySizes DEF Sided
    <3>3. m \in T!MastersOf(t)
      BY <1>2, <3>1 DEF T!MastersOf, T!IsMaster, T!There
    <3>4. cat[cat[s].parent].type = t
      BY <1>2, <3>2, CategorySizes
    <3>5. s \in T!SubsOf(t)
      BY <1>2, <3>2, <3>4 DEF T!SubsOf, T!IsSub, T!There
    <3>6. QED
      BY <3>3, <3>5
  <2>2. QED
    BY <2>1 DEF T!FloorKept, Sided
<1>7. T!EntriesAccepted
  BY <1>1 DEF T!EntriesAccepted
<1>8. QED
  BY <1>3, <1>4, <1>5, <1>6, <1>7 DEF CategoryInv

LEMMA CategoryCovers == CategoryInv =>
    T!TaxonomyTypeOK /\ T!TypesAgree /\ T!FloorKept /\ T!EntriesAccepted
<1> SUFFICES ASSUME CategoryInv
             PROVE  T!TaxonomyTypeOK /\ T!TypesAgree /\ T!FloorKept /\ T!EntriesAccepted
  OBVIOUS
<1>1. \A c \in Ids : T!There(c) => cat[c] \in T!CategoryRow
  BY CategoryOf
<1>2. \A c \in Ids : T!IsSub(c) => T!IsMaster(cat[c].parent)
  BY CategoryOf DEF T!IsSub
<1>3. \A d \in Deps : dep[d] = T!NoDep \/ (dep[d].kind \in T!Kinds /\ T!There(dep[d].of))
  BY DEF CategoryInv, CategoryTypes
<1>4. QED
  BY <1>1, <1>2, <1>3 DEF CategoryInv, T!TaxonomyTypeOK

LEMMA CategoriesStay ==
    ASSUME CategoryInv, UNCHANGED taxonomyVars
    PROVE  CategoryInv'
<1>1. UNCHANGED <<cat, dep, catEdit, alone, restored, spent>>
  BY DEF taxonomyVars
<1>2. \A c : Settled(c)' <=> Settled(c)
  BY <1>1 DEF Settled, Pending
<1>3. \A c : (MasterId(c)' <=> MasterId(c)) /\ (SubId(c)' <=> SubId(c))
  BY <1>1, <1>2 DEF MasterId, SubId
<1>4. CategoryTypes'
  BY <1>1, <1>2 DEF CategoryInv, CategoryTypes, T!IsMaster, T!There
<1>5. ASSUME NEW p \in Requests
      PROVE  InsertOk(p)' /\ ChangeOk(p)' /\ RunsAlone(p)'
  <2>1. InsertOk(p)' /\ ChangeOk(p)'
    BY <1>1, <1>3 DEF CategoryInv, InsertOk, ChangeOk
  <2>2. CASE alone /\ catEdit[p].pc # "idle"
    <3>1. /\ \A o \in Requests \ {p} : catEdit[o].pc = "idle"
          /\ Creates(catEdit[p]) \/ Retypes(catEdit[p]) \/ Moves(catEdit[p]) \/ Deletes(catEdit[p])
      BY <2>2 DEF CategoryInv, RunsAlone
    <3>2. PICK q : q = catEdit[p]
      OBVIOUS
    <3>3. (Creates(catEdit[p]) \/ Retypes(catEdit[p]) \/ Moves(catEdit[p]) \/ Deletes(catEdit[p]))'
      BY <1>1, <3>1, <3>2, PlansStay
    <3>4. QED
      BY <1>1, <2>1, <3>1, <3>3 DEF RunsAlone
  <2>3. CASE ~ (alone /\ catEdit[p].pc # "idle")
    BY <1>1, <2>1, <2>3 DEF RunsAlone
  <2>4. QED
    BY <2>2, <2>3
<1>6. T!TypesAgree' /\ T!FloorKept' /\ T!EntriesAccepted'
  BY <1>1, RowsOnly
<1>7. QED
  BY <1>4, <1>5, <1>6 DEF CategoryInv

\* Whatever edits overlap, the tree has two levels and what refers to a category
\* finds it; while they do not, the types agree, a master and a subcategory of
\* each side remain and every entry is on a category that accepts it
\* (category_service, category_rules_service).
THEOREM CategoriesCorrect == Spec => []CategoriesSafe
<1> DEFINE Inv == focus = "categories" => CategoryInv
<1>1. Init => Inv
  BY CategoryBegins DEF Init
<1>2. Inv /\ [Next]_organisationVars => Inv'
  <2> SUFFICES ASSUME Inv, [Next]_organisationVars, (focus = "categories")'
               PROVE  CategoryInv'
    OBVIOUS
  <2>1. CASE CategoryStep
    BY <2>1, TaxonomyKeeps DEF CategoryStep
  <2>2. CASE UNCHANGED organisationVars
    BY <2>2, CategoriesStay DEF organisationVars
  <2>3. CASE AccountStep \/ TagStep \/ VoteStep \/ SeriesStep \/ ResetStep
    BY <2>3 DEF AccountStep, TagStep, VoteStep, OthersThanSharing, SeriesStep, ResetStep, S!Next
  <2>4. QED
    BY <2>1, <2>2, <2>3 DEF Next
<1>3. Inv => CategoriesSafe
  BY CategoryCovers DEF CategoriesSafe
<1>4. QED
  BY <1>1, <1>2, <1>3, PTL DEF Spec

-----------------------------------------------------------------------------
(* Series: the frontier is past everything the series knows to be spent, so   *)
(* what it writes next is on days of its own.                                 *)

SeriesRow ==
    [no : Nat, date : Int, status : {"pending", "settled"}, state : {"accepted", "skipped"},
     linked : BOOLEAN, byHand : BOOLEAN]
Template ==
    [active : BOOLEAN, due : Int, step : Steps, count : Counts, elapsed : Nat, spent : Int,
     auto : BOOLEAN]

\* The parts of the invariant, as predicates of a set of rows and of a template.
Numbered(set, t) ==
    /\ \A p, q \in set : p.no = q.no => p = q
    /\ \A p \in set : p.no \in 1 .. t.elapsed
OncePerDay(set) == \A p, q \in set : p # q /\ ~ p.byHand /\ ~ q.byHand => p.date # q.date
Known(set, t) ==
    \A p \in set : ~ p.byHand => p.date < t.due /\ (~ p.linked => p.date <= t.spent)
RowsOk(set, t) ==
    /\ IsFiniteSet(set) /\ set \subseteq SeriesRow
    /\ Numbered(set, t) /\ OncePerDay(set) /\ Known(set, t)
TemplateOk(t, day, at) ==
    /\ t \in Template /\ t.due > t.spent
    /\ at \in Int /\ at <= S!CycleStart(day) /\ (S!Generates(t) => t.due >= at)
CallOk(c) ==
    \/ call[c] = S!Rest
    \/ call[c].pc = "generates" /\ call[c].day \in Nat
    \/ call[c].pc = "stops"
    \/ call[c].pc = "moves" /\ call[c].date \in Int
    \/ /\ call[c].pc = "resumes" /\ call[c].read = tpl /\ call[c].day = today
       /\ \A d \in Requests \ {c} : call[d] = S!Rest

SeriesInv ==
    /\ today \in Nat /\ DOMAIN call = Requests
    /\ TemplateOk(tpl, today, resumedAt) /\ RowsOk(rows, tpl)
    /\ \A c \in Requests : CallOk(c)

LEMMA SeriesSizes ==
    /\ Steps \subseteq Nat \ {0} /\ Steps # {} /\ Counts \subseteq Nat
    /\ Cycle \in Nat \ {0} /\ MaxDay \in Nat /\ MaxCatchup \in Nat
  BY OrganisationAssumption DEF S!SeriesAssumption

LEMMA Divided ==
    ASSUME NEW x \in Int, NEW t \in Nat \ {0}
    PROVE  x \div t \in Int /\ x % t \in Nat /\ x % t < t /\ x = t * (x \div t) + (x % t)
  OBVIOUS

LEMMA TimesGrows ==
    ASSUME NEW t \in Nat \ {0}, NEW x \in Int, NEW y \in Int
    PROVE  /\ t * x \in Int /\ t * y \in Int
           /\ x < y => t * x + t <= t * y
           /\ t * x < t * y => x < y
           /\ t * (x + 1) = t * x + t
           /\ t * (y - x) = t * y - t * x
  OBVIOUS

\* A finite set of integers has a largest member.
LEMMA LargestIs ==
    ASSUME NEW days, days \subseteq Int, days # {}, IsFiniteSet(days)
    PROVE  S!Largest(days) \in days /\ \A y \in days : y <= S!Largest(days)
<1> DEFINE Bad == {n \in Nat : \E U \in SUBSET Int :
                      /\ IsFiniteSet(U) /\ Cardinality(U) = n /\ U # {}
                      /\ \A x \in U : \E y \in U : ~ (y <= x)}
<1>1. Bad = {}
  <2> SUFFICES ASSUME Bad # {}
               PROVE  FALSE
    OBVIOUS
  <2>1. PICK n \in Bad : \A m \in Bad : n <= m
    BY Least
  <2>2. PICK U \in SUBSET Int : /\ IsFiniteSet(U) /\ Cardinality(U) = n /\ U # {}
                                /\ \A x \in U : \E y \in U : ~ (y <= x)
    OBVIOUS
  <2>3. PICK u \in U : TRUE
    BY <2>2
  <2>4. IsFiniteSet(U \ {u}) /\ Cardinality(U \ {u}) = n - 1
    BY <2>2, <2>3, FS_RemoveElement
  <2>5. n - 1 \in Nat
    BY <2>4, FS_CardinalityType
  <2>6. n - 1 \notin Bad
    BY <2>1, <2>5
  <2>7. U \ {u} # {}
    BY <2>2, <2>3
  <2>8. PICK x \in U \ {u} : \A y \in U \ {u} : y <= x
    BY <2>4, <2>5, <2>6, <2>7
  <2>9. u \in Int /\ x \in Int
    BY <2>3, <2>8
  <2>10. \E z \in U : \A y \in U : y <= z
    BY <2>3, <2>8, <2>9
  <2>11. QED
    BY <2>2, <2>10
<1>2. Cardinality(days) \in Nat
  BY FS_CardinalityType
<1>3. \E x \in days : \A y \in days : y <= x
  BY <1>1, <1>2
<1>4. QED
  BY <1>3 DEF S!Largest

LEMMA FiniteImage ==
    ASSUME NEW f, IsFiniteSet(DOMAIN f)
    PROVE  IsFiniteSet({f[x] : x \in DOMAIN f})
<1> DEFINE g == [x \in DOMAIN f |-> f[x]]
           image == {f[x] : x \in DOMAIN f}
<1>1. g \in Surjection(DOMAIN f, image)
  BY DEF Surjection
<1>2. QED
  BY <1>1, FS_Surjection

-----------------------------------------------------------------------------
(* The calendar. *)

LEMMA CycleStartIs ==
    ASSUME NEW day \in Nat
    PROVE  /\ S!CycleStart(day) \in Int /\ S!CycleStart(day) <= day
           /\ S!CycleStart(day) <= S!CycleStart(day + 1) /\ S!CycleEnd(day) \in Int
<1> DEFINE a == day \div Cycle
           b == (day + 1) \div Cycle
<1>1. Cycle \in Nat \ {0}
  BY SeriesSizes
<1>2. /\ a \in Int /\ day % Cycle \in Nat /\ day % Cycle < Cycle /\ day = Cycle * a + (day % Cycle)
  BY <1>1, Divided
<1>3. /\ b \in Int /\ (day + 1) % Cycle \in Nat /\ (day + 1) % Cycle < Cycle
      /\ day + 1 = Cycle * b + ((day + 1) % Cycle)
  BY <1>1, Divided
<1> HIDE DEF a, b
<1>4. Cycle * a \in Int /\ Cycle * b \in Int /\ (b < a => Cycle * b + Cycle <= Cycle * a)
      /\ (a < b => Cycle * a + Cycle <= Cycle * b)
  BY <1>1, <1>2, <1>3, TimesGrows
<1>5. S!CycleStart(day) = Cycle * a
  BY <1>1, <1>2, <1>4 DEF S!CycleStart
<1>6. S!CycleStart(day + 1) = Cycle * b
  BY <1>1, <1>3, <1>4 DEF S!CycleStart
<1>7. ~ (b < a)
  BY <1>1, <1>2, <1>3, <1>4
<1>8. Cycle * a <= Cycle * b
  BY <1>1, <1>2, <1>3, <1>4, <1>7
<1>9. S!CycleEnd(day) \in Int
  BY <1>1, <1>4, <1>5 DEF S!CycleEnd
<1>10. QED
  BY <1>1, <1>2, <1>4, <1>5, <1>6, <1>8, <1>9

LEMMA ReanchoredIs ==
    ASSUME NEW t \in Template, NEW day \in Nat
    PROVE  LET u == S!Reanchored(t, day) IN
           /\ u = [t EXCEPT !.due = u.due] /\ u \in Template
           /\ u.due >= t.due /\ u.due >= S!CycleStart(day)
<1> DEFINE c == S!CycleStart(day)
           s == t.step
           x == c - t.due + s - 1
           k == x \div s
<1>1. c \in Int /\ s \in Nat \ {0} /\ t.due \in Int
  BY CycleStartIs, SeriesSizes DEF Template
<1>2. CASE t.due >= c
  BY <1>1, <1>2 DEF S!Reanchored, Template
<1>3. CASE ~ (t.due >= c)
  <2>1. x \in Int /\ k \in Int /\ x % s \in Nat /\ x % s < s /\ x = s * k + (x % s)
    <3> HIDE DEF c, s
    <3>1. x \in Int
      BY <1>1
    <3> HIDE DEF x
    <3>2. QED
      BY <1>1, <3>1, Divided
  <2>2. s * k \in Int
    BY <1>1, <2>1, TimesGrows
  <2>3. s * k >= c - t.due
    <3> HIDE DEF c, k
    <3> QED BY <1>1, <2>1, <2>2
  <2>4. S!Reanchored(t, day) = [t EXCEPT !.due = t.due + s * k]
    BY <1>3 DEF S!Reanchored
  <2>5. t.due + s * k \in Int /\ t.due + s * k >= t.due /\ t.due + s * k >= c
    <3> HIDE DEF c, k
    <3> QED BY <1>1, <1>3, <2>2, <2>3
  <2> HIDE DEF c, s, k
  <2>6. QED
    BY <2>4, <2>5 DEF Template, c
<1>4. QED
  BY <1>2, <1>3

-----------------------------------------------------------------------------
(* The slots of a run. *)

\* A run spends the first n days of the grid from the frontier on, of an ended
\* series as many as it has left.
LEMMA SlotsAre ==
    ASSUME NEW t \in Template, NEW end \in Int, S!Slots(t, end) # {}
    PROVE  \E n \in Nat \ {0} :
              /\ S!Slots(t, end) = {t.due + t.step * k : k \in 0 .. n - 1}
              /\ S!Largest(S!Slots(t, end)) = t.due + t.step * (n - 1)
              /\ S!Cardinality(S!Slots(t, end)) = n
              /\ IsFiniteSet(S!Slots(t, end))
              /\ \A k \in 0 .. n - 1 : ((t.due + t.step * k) - t.due) \div t.step = k
              /\ t.count = 0 \/ t.elapsed + n <= t.count
<1> DEFINE slots == S!Slots(t, end)
           last == S!Largest(slots)
           step == t.step
           due == t.due
           At(k) == due + step * k
<1>1. step \in Nat \ {0} /\ due \in Int /\ t.count \in Nat /\ t.elapsed \in Nat
  BY SeriesSizes DEF Template
<1>2. slots = {d \in due .. end :
                 /\ (d - due) % step = 0 /\ (d - due) \div step < MaxCatchup
                 /\ t.count = 0 \/ t.elapsed + (d - due) \div step < t.count}
  BY DEF S!Slots, S!AllSlots
<1>3. slots \subseteq Int /\ IsFiniteSet(slots)
  <2> HIDE DEF slots, due
  <2>1. IsFiniteSet(due .. end)
    BY <1>1, FS_Interval
  <2>2. slots \subseteq due .. end
    BY <1>2
  <2>3. IsFiniteSet(slots)
    BY <2>1, <2>2, FS_Subset
  <2>4. QED
    BY <1>1, <2>2, <2>3
<1>4. last \in slots /\ \A d \in slots : d <= last
  BY <1>3, LargestIs
<1> DEFINE m == (last - due) \div step
<1> HIDE DEF slots, last, step, due
<1>5. \A k \in Nat : At(k) \in Int /\ (At(k) - due) \div step = k /\ (At(k) - due) % step = 0 /\ At(k) >= due
  <2> SUFFICES ASSUME NEW k \in Nat
               PROVE  At(k) \in Int /\ (At(k) - due) \div step = k /\ (At(k) - due) % step = 0 /\ At(k) >= due
    OBVIOUS
  <2>1. step * k \in Int /\ step * k >= 0
    BY <1>1
  <2>2. At(k) \in Int /\ At(k) - due = step * k
    BY <1>1, <2>1
  <2>3. (step * k) \div step = k /\ (step * k) % step = 0
    BY <1>1
  <2>4. QED
    BY <1>1, <2>1, <2>2, <2>3
<1>6. \A d \in slots : /\ d \in Int /\ (d - due) \div step \in Nat /\ d = At((d - due) \div step)
                       /\ d <= end /\ (d - due) \div step < MaxCatchup
                       /\ t.count = 0 \/ t.elapsed + (d - due) \div step < t.count
  <2> SUFFICES ASSUME NEW d \in slots
               PROVE  (d - due) \div step \in Nat /\ d = At((d - due) \div step)
    BY <1>1, <1>2, <1>3
  <2>1. d \in Int /\ d - due \in Nat /\ (d - due) % step = 0
    BY <1>1, <1>2, <1>3
  <2>2. PICK x \in Nat : x = d - due
    BY <2>1
  <2>3. x \div step \in Int /\ x = step * (x \div step) + (x % step)
    <3>1. x \in Int
      OBVIOUS
    <3>2. QED
      BY <1>1, <3>1, Divided
  <2>4. x \div step \in Nat
    BY <1>1, <2>2
  <2>5. d = due + step * (x \div step)
    BY <1>1, <2>1, <2>2, <2>3, <2>4
  <2>6. QED
    BY <2>2, <2>4, <2>5
<1>7. m \in Nat /\ last = At(m) /\ m < MaxCatchup /\ (t.count = 0 \/ t.elapsed + m < t.count)
      /\ last <= end /\ last \in Int
  BY <1>4, <1>6
<1> HIDE DEF m
<1>8. \A k \in 0 .. m : At(k) <= At(m)
  BY <1>1, <1>7, TimesGrows
<1>9. ASSUME NEW k \in 0 .. m
      PROVE  At(k) \in slots
  <2>1. k \in Nat /\ At(k) \in Int /\ (At(k) - due) \div step = k /\ (At(k) - due) % step = 0
        /\ At(k) >= due /\ At(k) <= end
    <3>1. k \in Nat /\ At(k) <= At(m) /\ At(m) <= end
      BY <1>7, <1>8, <1>9
    <3>2. At(k) \in Int /\ At(m) \in Int
      BY <1>5, <1>7, <3>1
    <3> HIDE DEF At
    <3>3. QED
      BY <1>5, <3>1, <3>2
  <2>2. k < MaxCatchup /\ (t.count = 0 \/ t.elapsed + k < t.count)
    <3> HIDE DEF At
    <3> QED BY <1>1, <1>7, <1>9, SeriesSizes
  <2> HIDE DEF At
  <2>3. QED
    BY <1>2, <2>1, <2>2
<1>10. \A d \in slots : (d - due) \div step \in 0 .. m
  <2> SUFFICES ASSUME NEW d \in slots
               PROVE  (d - due) \div step <= m
    BY <1>6, <1>7
  <2>1. PICK k \in Nat : k = (d - due) \div step /\ d = At(k)
    BY <1>6
  <2>2. At(k) <= At(m)
    BY <1>4, <1>7, <2>1
  <2>3. k <= m
    BY <1>1, <1>7, <2>1, <2>2, TimesGrows
  <2>4. QED
    BY <2>1, <2>3
<1>11. slots = {At(k) : k \in 0 .. m}
  BY <1>6, <1>9, <1>10
<1>12. Cardinality(slots) = m + 1
  <2> DEFINE f == [k \in 0 .. m |-> At(k)]
  <2>1. \A k, j \in 0 .. m : At(k) = At(j) => k = j
    <3> SUFFICES ASSUME NEW k \in 0 .. m, NEW j \in 0 .. m, At(k) = At(j)
                 PROVE  k = j
      OBVIOUS
    <3>1. k \in Nat /\ j \in Nat
      BY <1>7
    <3> HIDE DEF At
    <3>2. QED
      BY <1>5, <3>1
  <2>2. f \in Bijection(0 .. m, slots)
    <3> HIDE DEF At
    <3>1. f \in [0 .. m -> slots] /\ \A k \in 0 .. m : f[k] = At(k)
      BY <1>11
    <3>2. \A d \in slots : \E k \in 0 .. m : f[k] = d
      BY <1>11, <3>1
    <3> HIDE DEF f
    <3>3. f \in Injection(0 .. m, slots)
      BY <2>1, <3>1 DEF Injection, IsInjective
    <3>4. QED
      BY <3>1, <3>2, <3>3 DEF Bijection, Surjection
  <2>3. IsFiniteSet(0 .. m) /\ Cardinality(0 .. m) = m + 1
    <3>1. 0 \in Int /\ m \in Int /\ ~ (0 > m) /\ m - 0 + 1 = m + 1
      BY <1>7
    <3>2. QED
      BY <3>1, FS_Interval
  <2>4. QED
    BY <2>2, <2>3, FS_Bijection DEF ExistsBijection
<1>13. S!Cardinality(slots) = Cardinality(slots)
  BY DEF S!Cardinality, Cardinality
<1> DEFINE n == m + 1
<1>14. n \in Nat \ {0} /\ n - 1 = m /\ (t.count = 0 \/ t.elapsed + n <= t.count)
  BY <1>1, <1>7
<1> HIDE DEF n
<1>15. /\ slots = {At(k) : k \in 0 .. n - 1} /\ last = At(n - 1) /\ S!Cardinality(slots) = n
       /\ \A k \in 0 .. n - 1 : (At(k) - due) \div step = k
  BY <1>5, <1>7, <1>11, <1>12, <1>13, <1>14 DEF n
<1>16. QED
  <2>1. slots = {due + step * k : k \in 0 .. n - 1}
    BY <1>15, Zenon
  <2>2. last = due + step * (n - 1)
    BY <1>15, Zenon
  <2>3. ASSUME NEW k \in 0 .. n - 1
        PROVE  ((due + step * k) - due) \div step = k
    <3>1. (At(k) - due) \div step = k
      BY <1>15, Zenon
    <3>2. QED
      BY <3>1, Zenon
  <2>4. QED
    BY <1>3, <1>14, <1>15, <2>1, <2>2, <2>3 DEF slots, last, step, due

-----------------------------------------------------------------------------
(* Rows. *)

LEMMA TemplateOf ==
    ASSUME NEW t \in Template
    PROVE  /\ t.active \in BOOLEAN /\ t.due \in Int /\ t.step \in Nat \ {0} /\ t.step \in Steps
           /\ t.count \in Nat /\ t.count \in Counts /\ t.elapsed \in Nat /\ t.spent \in Int
           /\ t.auto \in BOOLEAN
  BY SeriesSizes DEF Template

LEMMA SeriesRowOf ==
    ASSUME NEW p \in SeriesRow
    PROVE  /\ p.no \in Nat /\ p.date \in Int /\ p.linked \in BOOLEAN /\ p.byHand \in BOOLEAN
           /\ p.status \in {"pending", "settled"} /\ p.state \in {"accepted", "skipped"}
  BY DEF SeriesRow

\* A change of rows one by one, which moves no day the series knows past the
\* frontier.
LEMMA RowsFollow ==
    ASSUME NEW set, NEW t \in Template, RowsOk(set, t), NEW u \in Template, t.elapsed <= u.elapsed,
           NEW new \in SUBSET SeriesRow, IsFiniteSet(new),
           \A p, q \in new : p.no = q.no => p = q,
           \A q \in new : \E p \in set :
              /\ q.no = p.no
              /\ ~ q.byHand => /\ ~ p.byHand /\ q.date = p.date /\ q.date < u.due
                               /\ ~ q.linked => q.date <= u.spent
    PROVE  RowsOk(new, u)
<1>1. Numbered(new, u)
  <2> SUFFICES ASSUME NEW q \in new
               PROVE  q.no \in 1 .. u.elapsed
    BY DEF Numbered
  <2>1. PICK p \in set : q.no = p.no
    OBVIOUS
  <2>2. p.no \in 1 .. t.elapsed
    BY DEF RowsOk, Numbered
  <2>3. QED
    BY <2>1, <2>2, TemplateOf
<1>2. OncePerDay(new)
  <2> SUFFICES ASSUME NEW p \in new, NEW q \in new, p # q, ~ p.byHand, ~ q.byHand
               PROVE  p.date # q.date
    BY DEF OncePerDay
  <2>1. PICK x \in set : p.no = x.no /\ ~ x.byHand /\ p.date = x.date
    OBVIOUS
  <2>2. PICK y \in set : q.no = y.no /\ ~ y.byHand /\ q.date = y.date
    OBVIOUS
  <2>3. x # y
    BY <2>1, <2>2
  <2>4. QED
    BY <2>1, <2>2, <2>3 DEF RowsOk, OncePerDay
<1>3. Known(new, u)
  BY DEF Known
<1>4. QED
  BY <1>1, <1>2, <1>3 DEF RowsOk

\* The same for rows that only lose some, or a template that goes on.
LEMMA SeriesRowsStay ==
    ASSUME NEW set, NEW t \in Template, RowsOk(set, t), NEW new \in SUBSET set,
           NEW u \in Template, t.elapsed <= u.elapsed, t.spent <= u.spent, t.due <= u.due
    PROVE  RowsOk(new, u)
<1>1. IsFiniteSet(new) /\ new \subseteq SeriesRow
  BY FS_Subset DEF RowsOk
<1>2. \A p, q \in new : p.no = q.no => p = q
  BY DEF RowsOk, Numbered
<1>3. \A q \in new : ~ q.byHand => q.date < u.due /\ (~ q.linked => q.date <= u.spent)
  BY <1>1, SeriesRowOf, TemplateOf DEF RowsOk, Known
<1>4. QED
  BY <1>1, <1>2, <1>3, RowsFollow

\* New occurrences, one for some of the first n days of the grid.
LEMMA RowsGrow ==
    ASSUME NEW set, NEW t \in Template, RowsOk(set, t), t.spent < t.due, NEW n \in Nat \ {0},
           NEW u \in Template, u.elapsed = t.elapsed + n, u.spent = t.due + t.step * (n - 1),
           u.due = u.spent + t.step,
           NEW new \in SUBSET SeriesRow, IsFiniteSet(new),
           \A p, q \in new : p.date = q.date => p = q,
           \A p \in new : /\ p.linked /\ ~ p.byHand
                          /\ \E k \in 0 .. n - 1 : p.date = t.due + t.step * k /\ p.no = t.elapsed + 1 + k
    PROVE  RowsOk(set \cup new, u)
<1>1. t.due \in Int /\ t.step \in Nat \ {0} /\ t.elapsed \in Nat /\ t.spent \in Int
      /\ u.due \in Int /\ u.elapsed \in Nat /\ u.spent \in Int
  BY TemplateOf
<1>2. \A k \in 0 .. n - 1 : t.step * k \in Int /\ t.step * k >= 0 /\ t.step * k <= t.step * (n - 1)
  <2> SUFFICES ASSUME NEW k \in 0 .. n - 1
               PROVE  t.step * k \in Int /\ t.step * k >= 0 /\ t.step * k <= t.step * (n - 1)
    OBVIOUS
  <2>1. PICK x \in Nat : x = t.step
    BY <1>1
  <2>2. x * k \in Int /\ x * k >= 0 /\ x * k <= x * (n - 1)
    BY TimesGrows, <1>1, <2>1
  <2>3. QED
    BY <2>1, <2>2
<1>3. t.step * (n - 1) \in Int /\ t.step * (n - 1) >= 0
  BY <1>2
<1>4. \A p \in new : /\ p.date >= t.due /\ p.date <= u.spent
                     /\ p.no \in t.elapsed + 1 .. u.elapsed
  <2> SUFFICES ASSUME NEW p \in new
               PROVE  p.date >= t.due /\ p.date <= u.spent /\ p.no \in t.elapsed + 1 .. u.elapsed
    OBVIOUS
  <2>1. PICK k \in 0 .. n - 1 : p.date = t.due + t.step * k /\ p.no = t.elapsed + 1 + k
    OBVIOUS
  <2>2. PICK x \in Int : x = t.step * k /\ x >= 0 /\ x <= t.step * (n - 1)
    BY <1>2
  <2>3. QED
    BY <1>1, <1>3, <2>1, <2>2
<1>5. RowsOk(set, u)
  <2>1. t.elapsed <= u.elapsed /\ t.spent <= u.spent /\ t.due <= u.due
    BY <1>1, <1>3
  <2>2. QED
    BY <2>1, SeriesRowsStay
<1>6. \A p \in set : p.no \in 1 .. t.elapsed /\ (~ p.byHand => p.date < t.due)
  BY DEF RowsOk, Numbered, Known
<1>7. \A p, q \in new : p.no = q.no => p = q
  <2> SUFFICES ASSUME NEW p \in new, NEW q \in new, p.no = q.no
               PROVE  p.date = q.date
    OBVIOUS
  <2>1. PICK k \in 0 .. n - 1 : p.date = t.due + t.step * k /\ p.no = t.elapsed + 1 + k
    OBVIOUS
  <2>2. PICK j \in 0 .. n - 1 : q.date = t.due + t.step * j /\ q.no = t.elapsed + 1 + j
    OBVIOUS
  <2>3. t.elapsed + 1 + k = t.elapsed + 1 + j
    BY <2>1, <2>2, Zenon
  <2>4. k = j
    <3>1. k \in Int /\ j \in Int
      OBVIOUS
    <3>2. QED
      BY <1>1, <2>3, <3>1
  <2>5. QED
    BY <2>1, <2>2, <2>4, Zenon
<1>8. \A p \in set, q \in new : p.no # q.no /\ (~ p.byHand => p.date # q.date)
  <2> SUFFICES ASSUME NEW p \in set, NEW q \in new
               PROVE  p.no # q.no /\ (~ p.byHand => p.date # q.date)
    OBVIOUS
  <2>1. p.no \in 1 .. t.elapsed /\ q.no \in t.elapsed + 1 .. u.elapsed
        /\ q.date >= t.due /\ (~ p.byHand => p.date < t.due)
    BY <1>4, <1>6
  <2>2. p.date \in Int /\ q.date \in Int
    BY SeriesRowOf DEF RowsOk
  <2>3. p.no # q.no
    BY <1>1, <2>1
  <2>4. ASSUME ~ p.byHand
        PROVE  p.date # q.date
    BY <1>1, <2>1, <2>2, <2>4
  <2>5. QED
    BY <2>3, <2>4
<1>9. Numbered(set \cup new, u)
  <2>1. \A p \in new : p.no \in 1 .. u.elapsed
    BY <1>1, <1>4
  <2>2. QED
    BY <1>5, <1>7, <1>8, <2>1 DEF RowsOk, Numbered
<1>10. OncePerDay(set \cup new)
  BY <1>5, <1>8 DEF RowsOk, OncePerDay
<1>11. Known(set \cup new, u)
  <2>1. \A p \in new : p.date < u.due
    BY <1>1, <1>4, SeriesRowOf
  <2>2. QED
    BY <1>5, <2>1 DEF RowsOk, Known
<1>12. IsFiniteSet(set \cup new) /\ set \cup new \subseteq SeriesRow
  BY FS_Union DEF RowsOk
<1>13. QED
  BY <1>9, <1>10, <1>11, <1>12 DEF RowsOk

\* Settling, in a run or by a person, moves no row.
LEMMA SettledRows ==
    ASSUME NEW day \in Nat, tpl \in Template, RowsOk(rows, tpl)
    PROVE  RowsOk(S!Settled(day), tpl)
<1> DEFINE F(r) == IF tpl.auto /\ S!Movable(r) /\ r.date <= day THEN [r EXCEPT !.status = "settled"] ELSE r
           f == [r \in rows |-> F(r)]
           new == {f[r] : r \in rows}
<1>1. S!Settled(day) = new
  BY DEF S!Settled
<1>2. \A r \in rows : /\ f[r] \in SeriesRow /\ f[r].no = r.no /\ f[r].date = r.date
                      /\ f[r].linked = r.linked /\ f[r].byHand = r.byHand
  BY DEF RowsOk, SeriesRow
<1> HIDE DEF f
<1>3. IsFiniteSet(new)
  <2>1. DOMAIN f = rows /\ IsFiniteSet(rows)
    BY DEF RowsOk, f
  <2>2. QED
    BY <2>1, FiniteImage
<1>4. new \in SUBSET SeriesRow
  BY <1>2
<1>5. \A p, q \in new : p.no = q.no => p = q
  BY <1>2 DEF RowsOk, Numbered
<1>6. \A q \in new : \E p \in rows :
          /\ q.no = p.no
          /\ ~ q.byHand => /\ ~ p.byHand /\ q.date = p.date /\ q.date < tpl.due
                           /\ ~ q.linked => q.date <= tpl.spent
  <2> SUFFICES ASSUME NEW r \in rows
               PROVE  LET q == f[r] IN
                      /\ q.no = r.no
                      /\ ~ q.byHand => /\ ~ r.byHand /\ q.date = r.date /\ q.date < tpl.due
                                       /\ ~ q.linked => q.date <= tpl.spent
    OBVIOUS
  <2>1. ~ r.byHand => r.date < tpl.due /\ (~ r.linked => r.date <= tpl.spent)
    BY DEF RowsOk, Known
  <2>2. QED
    BY <1>2, <2>1
<1>7. tpl.elapsed <= tpl.elapsed
  BY TemplateOf
<1> HIDE DEF new
<1>8. RowsOk(new, tpl)
  BY <1>3, <1>4, <1>5, <1>6, <1>7, RowsFollow
<1>9. QED
  BY <1>1, <1>8

\* The next occurrences are spent: n of them.
LEMMA AdvancedIs ==
    ASSUME NEW t \in Template, NEW slots, NEW n \in Nat \ {0},
           S!Largest(slots) = t.due + t.step * (n - 1), S!Cardinality(slots) = n
    PROVE  LET u == S!Advanced(t, slots) IN
           /\ u \in Template /\ u.elapsed = t.elapsed + n /\ u.spent = t.due + t.step * (n - 1)
           /\ u.due = u.spent + t.step /\ u.due > u.spent /\ u.due >= t.due
           /\ u.active = t.active /\ u.count = t.count /\ u.step = t.step /\ u.auto = t.auto
<1> DEFINE x == t.due + t.step * (n - 1)
<1>1. t.step \in Nat \ {0} /\ t.due \in Int /\ t.elapsed \in Nat /\ n - 1 \in Nat
  BY TemplateOf
<1>2. t.step * (n - 1) \in Int /\ t.step * (n - 1) >= 0
  <2>1. PICK s \in Nat : s = t.step
    BY <1>1
  <2>2. PICK m \in Nat : m = n - 1
    BY <1>1
  <2>3. s * m \in Int /\ s * m >= 0
    OBVIOUS
  <2>4. QED
    BY <2>1, <2>2, <2>3
<1>3. x \in Int /\ x >= t.due
  BY <1>1, <1>2
<1>4. S!Largest(slots) = x /\ S!Advanced(t, slots)
        = [t EXCEPT !.due = x + t.step, !.spent = x, !.elapsed = t.elapsed + n]
  BY DEF S!Advanced
<1> HIDE DEF x
<1>5. /\ x + t.step \in Int /\ t.elapsed + n \in Nat /\ x + t.step > x /\ x + t.step >= t.due
  BY <1>1, <1>3
<1>6. QED
  BY <1>3, <1>4, <1>5 DEF Template, x

\* HasRemaining is lost by what the series spends, never won.
LEMMA StillGenerates ==
    ASSUME NEW t \in Template, NEW u \in Template, u.active = t.active, u.count = t.count,
           u.elapsed >= t.elapsed, S!Generates(u)
    PROVE  S!Generates(t)
  BY TemplateOf DEF S!Generates, S!HasRemaining

LEMMA WritesKeep ==
    ASSUME today \in Nat, TemplateOk(tpl, today, resumedAt), NEW set, RowsOk(set, tpl),
           NEW slots, NEW n \in Nat \ {0},
           slots = {tpl.due + tpl.step * k : k \in 0 .. n - 1},
           S!Largest(slots) = tpl.due + tpl.step * (n - 1), S!Cardinality(slots) = n,
           IsFiniteSet(slots),
           \A k \in 0 .. n - 1 : ((tpl.due + tpl.step * k) - tpl.due) \div tpl.step = k,
           NEW news \in SUBSET slots, NEW state \in {"accepted", "skipped"},
           NEW status \in [news -> {"pending", "settled"}]
    PROVE  /\ RowsOk(set \cup {S!Occurrence(tpl, d, status[d], state) : d \in news}, S!Advanced(tpl, slots))
           /\ TemplateOk(S!Advanced(tpl, slots), today, resumedAt)
<1> DEFINE u == S!Advanced(tpl, slots)
           f == [d \in news |-> S!Occurrence(tpl, d, status[d], state)]
           new == {f[d] : d \in news}
<1>1. /\ tpl \in Template /\ tpl.due > tpl.spent /\ resumedAt \in Int
      /\ resumedAt <= S!CycleStart(today) /\ (S!Generates(tpl) => tpl.due >= resumedAt)
  BY DEF TemplateOk
<1>2. /\ u \in Template /\ u.elapsed = tpl.elapsed + n /\ u.spent = tpl.due + tpl.step * (n - 1)
      /\ u.due = u.spent + tpl.step /\ u.due > u.spent /\ u.due >= tpl.due
      /\ u.active = tpl.active /\ u.count = tpl.count
  BY <1>1, AdvancedIs
<1> HIDE DEF u
<1>3. tpl.due \in Int /\ tpl.step \in Nat \ {0} /\ tpl.elapsed \in Nat /\ tpl.spent \in Int
      /\ u.due \in Int /\ u.elapsed \in Nat
  BY <1>1, <1>2, TemplateOf
<1>4. TemplateOk(u, today, resumedAt)
  <2>1. S!Generates(u) => S!Generates(tpl)
    BY <1>1, <1>2, <1>3, StillGenerates
  <2>2. S!Generates(u) => u.due >= resumedAt
    BY <1>1, <1>2, <1>3, <2>1
  <2>3. QED
    BY <1>1, <1>2, <2>2 DEF TemplateOk
<1>5. ASSUME NEW d \in news
      PROVE  /\ f[d] \in SeriesRow /\ f[d].date = d /\ f[d].linked /\ ~ f[d].byHand
             /\ \E k \in 0 .. n - 1 : d = tpl.due + tpl.step * k /\ f[d].no = tpl.elapsed + 1 + k
  <2>1. PICK k \in 0 .. n - 1 : d = tpl.due + tpl.step * k
    OBVIOUS
  <2>2. (d - tpl.due) \div tpl.step = k
    BY <2>1, Zenon
  <2>3. f[d] = [no |-> tpl.elapsed + 1 + k, date |-> d, status |-> status[d], state |-> state,
                linked |-> TRUE, byHand |-> FALSE]
    BY <2>2, Zenon DEF S!Occurrence
  <2>4. tpl.step * k \in Int
    <3>1. PICK s \in Nat : s = tpl.step
      BY <1>3
    <3>2. s * k \in Int
      OBVIOUS
    <3>3. QED
      BY <3>1, <3>2
  <2>5. d \in Int /\ tpl.elapsed + 1 + k \in Nat /\ status[d] \in {"pending", "settled"}
    BY <1>3, <2>1, <2>4
  <2> HIDE DEF f
  <2>6. QED
    BY <2>1, <2>3, <2>5 DEF SeriesRow
<1>6. IsFiniteSet(new)
  <2>1. DOMAIN f = news /\ IsFiniteSet(news)
    BY FS_Subset
  <2> HIDE DEF f
  <2>2. QED
    BY <2>1, FiniteImage
<1> HIDE DEF f
<1>7. \A p, q \in new : p.date = q.date => p = q
  BY <1>5
<1>8. \A p \in new : /\ p.linked /\ ~ p.byHand
                     /\ \E k \in 0 .. n - 1 : p.date = tpl.due + tpl.step * k /\ p.no = tpl.elapsed + 1 + k
  <2> SUFFICES ASSUME NEW d \in news
               PROVE  /\ f[d].linked /\ ~ f[d].byHand
                      /\ \E k \in 0 .. n - 1 : f[d].date = tpl.due + tpl.step * k /\ f[d].no = tpl.elapsed + 1 + k
    OBVIOUS
  <2>1. f[d].linked /\ ~ f[d].byHand
    BY <1>5
  <2>2. PICK k \in 0 .. n - 1 : d = tpl.due + tpl.step * k /\ f[d].no = tpl.elapsed + 1 + k
    BY <1>5
  <2>3. f[d].date = d
    BY <1>5
  <2>4. QED
    BY <2>1, <2>2, <2>3, Zenon
<1>9. new \in SUBSET SeriesRow
  BY <1>5
<1>10. new = {S!Occurrence(tpl, d, status[d], state) : d \in news}
  BY DEF f
<1> HIDE DEF new
<1>11. RowsOk(set \cup new, u)
  <2>1. tpl.spent < tpl.due
    BY <1>1, <1>3
  <2>2. tpl \in Template /\ u \in Template /\ u.elapsed = tpl.elapsed + n
        /\ u.spent = tpl.due + tpl.step * (n - 1) /\ u.due = u.spent + tpl.step
    BY <1>1, <1>2
  <2>3. QED
    BY <2>1, <2>2, <1>6, <1>7, <1>8, <1>9, RowsGrow
<1>12. QED
  BY <1>4, <1>10, <1>11 DEF u

-----------------------------------------------------------------------------
(* The steps: what each leaves of the template and of the rows. *)

SeriesCore ==
    today \in Nat /\ TemplateOk(tpl, today, resumedAt) /\ RowsOk(rows, tpl)

LEMMA CoreFacts ==
    ASSUME SeriesCore
    PROVE  /\ today \in Nat /\ tpl \in Template /\ tpl.due > tpl.spent
           /\ resumedAt \in Int /\ resumedAt <= S!CycleStart(today)
           /\ (S!Generates(tpl) => tpl.due >= resumedAt)
           /\ S!CycleStart(today) \in Int
           /\ IsFiniteSet(rows) /\ rows \subseteq SeriesRow
  BY CycleStartIs DEF SeriesCore, TemplateOk, RowsOk

LEMMA GenerateKeeps ==
    ASSUME SeriesCore, NEW c \in Requests, call[c].day \in Nat, S!Generate(c)
    PROVE  SeriesCore'
<1> DEFINE day == call[c].day
           slots == IF S!Generates(tpl) THEN S!Slots(tpl, S!CycleEnd(day)) ELSE {}
           news == slots \ call[c].seen
           st == [d \in news |-> IF S!Settles(tpl, d, day) THEN "settled" ELSE "pending"]
           add == {S!Occurrence(tpl, d, IF S!Settles(tpl, d, day) THEN "settled" ELSE "pending", "accepted") : d \in news}
<1>1. /\ rows' = S!Settled(day) \cup add
      /\ tpl' = IF slots = {} THEN tpl ELSE S!Advanced(tpl, slots)
      /\ today' = today /\ resumedAt' = resumedAt
  BY DEF S!Generate
<1>2. tpl \in Template /\ RowsOk(S!Settled(day), tpl)
  BY CoreFacts, SettledRows DEF SeriesCore
<1>3. CASE slots = {}
  <2>1. add = {}
    BY <1>3
  <2>2. rows' = S!Settled(day) /\ tpl' = tpl
    BY <1>1, <1>3, <2>1
  <2> HIDE DEF day, slots, add
  <2>3. QED
    BY <1>1, <1>2, <2>2 DEF SeriesCore
<1>4. CASE slots # {}
  <2>1. S!Generates(tpl) /\ slots = S!Slots(tpl, S!CycleEnd(day)) /\ S!CycleEnd(day) \in Int
    BY <1>4, CycleStartIs
  <2>2. PICK n \in Nat \ {0} :
          /\ slots = {tpl.due + tpl.step * k : k \in 0 .. n - 1}
          /\ S!Largest(slots) = tpl.due + tpl.step * (n - 1) /\ S!Cardinality(slots) = n
          /\ IsFiniteSet(slots)
          /\ \A k \in 0 .. n - 1 : ((tpl.due + tpl.step * k) - tpl.due) \div tpl.step = k
    <3>1. S!Slots(tpl, S!CycleEnd(day)) # {}
      BY <1>4, <2>1
    <3> HIDE DEF slots, day
    <3>2. QED
      BY <1>2, <2>1, <3>1, SlotsAre
  <2>3. st \in [news -> {"pending", "settled"}]
    OBVIOUS
  <2>4. add = {S!Occurrence(tpl, d, st[d], "accepted") : d \in news}
    OBVIOUS
  <2>5. news \in SUBSET slots
    OBVIOUS
  <2>6. tpl' = S!Advanced(tpl, slots)
    BY <1>1, <1>4
  <2> HIDE DEF slots, news, st, add, day
  <2>7. /\ RowsOk(S!Settled(day) \cup {S!Occurrence(tpl, d, st[d], "accepted") : d \in news}, S!Advanced(tpl, slots))
        /\ TemplateOk(S!Advanced(tpl, slots), today, resumedAt)
    BY <1>2, <2>2, <2>3, <2>5, WritesKeep DEF SeriesCore
  <2>8. QED
    BY <1>1, <2>4, <2>6, <2>7 DEF SeriesCore
<1>5. QED
  BY <1>3, <1>4

LEMMA MaterialiseKeeps ==
    ASSUME SeriesCore, NEW named \in 0 .. MaxDay, NEW state \in {"accepted", "skipped"},
           S!MaterialiseNext(named, state)
    PROVE  SeriesCore'
<1> DEFINE st == [d \in {named} |-> "pending"]
<1>1. /\ tpl.due = named /\ rows' = rows \cup {S!Occurrence(tpl, named, "pending", state)}
      /\ tpl' = S!Advanced(tpl, {named}) /\ today' = today /\ resumedAt' = resumedAt
  BY DEF S!MaterialiseNext
<1>2. tpl \in Template /\ tpl.due \in Int /\ tpl.step \in Nat \ {0}
  BY CoreFacts, TemplateOf
<1>3. /\ {named} = {tpl.due + tpl.step * k : k \in 0 .. 1 - 1} /\ named = tpl.due + tpl.step * (1 - 1)
      /\ \A k \in 0 .. 1 - 1 : ((tpl.due + tpl.step * k) - tpl.due) \div tpl.step = k
  <2>1. 0 .. 1 - 1 = {0} /\ 1 - 1 = 0
    OBVIOUS
  <2>2. tpl.step * 0 = 0 /\ tpl.due + 0 = tpl.due /\ tpl.due - tpl.due = 0 /\ 0 \div tpl.step = 0
    BY <1>2
  <2>3. \A k \in 0 .. 1 - 1 : k = 0
    BY <2>1
  <2>4. {tpl.due + tpl.step * k : k \in 0 .. 1 - 1} = {tpl.due + tpl.step * 0}
    BY <2>1, Zenon
  <2>5. QED
    BY <1>1, <2>1, <2>2, <2>3, <2>4, Zenon
<1>4. S!Largest({named}) = named
  <2>1. IsFiniteSet({named}) /\ {named} \subseteq Int /\ {named} # {}
    <3>1. IsFiniteSet({named})
      BY FS_Singleton, Zenon
    <3>2. {named} \subseteq Int /\ {named} # {}
      OBVIOUS
    <3>3. QED
      BY <3>1, <3>2
  <2>2. S!Largest({named}) \in {named}
    BY <2>1, LargestIs
  <2>3. QED
    BY <2>2
<1>5. S!Cardinality({named}) = 1 /\ IsFiniteSet({named})
  BY FS_Singleton DEF S!Cardinality, Cardinality
<1>6. st \in [{named} -> {"pending", "settled"}] /\ st[named] = "pending"
  OBVIOUS
<1> HIDE DEF st
<1>7. /\ RowsOk(rows \cup {S!Occurrence(tpl, d, st[d], state) : d \in {named}}, S!Advanced(tpl, {named}))
      /\ TemplateOk(S!Advanced(tpl, {named}), today, resumedAt)
  <2>1. 1 \in Nat \ {0} /\ {named} \in SUBSET {named}
    OBVIOUS
  <2>2. S!Largest({named}) = tpl.due + tpl.step * (1 - 1)
    BY <1>3, <1>4
  <2>3. QED
    BY <1>3, <1>5, <1>6, <2>1, <2>2, WritesKeep DEF SeriesCore
<1>8. {S!Occurrence(tpl, d, st[d], state) : d \in {named}} = {S!Occurrence(tpl, named, "pending", state)}
  BY <1>6, Zenon
<1>9. QED
  BY <1>1, <1>7, <1>8 DEF SeriesCore

LEMMA EditKeeps ==
    ASSUME SeriesCore, NEW due \in 0 .. MaxDay, NEW step \in Steps, NEW many \in Counts,
           S!Edit(due, step, many)
    PROVE  SeriesCore'
<1> DEFINE asked == [tpl EXCEPT !.due = due, !.step = step, !.count = many]
           new == IF S!Resumes(tpl, asked) THEN S!Reanchored(asked, today) ELSE asked
           start == S!CycleStart(today)
           bound == S!Largest(S!Bounds(new) \cup {-1})
<1>1. /\ due # tpl.due \/ step # tpl.step => new.due >= start
      /\ due # tpl.due /\ new.due # tpl.due => S!Clears(tpl, new)
      /\ tpl' = new /\ rows' = rows /\ today' = today
      /\ resumedAt' = IF S!HasRemaining(new) /\ ~ S!HasRemaining(tpl) THEN start ELSE resumedAt
  BY DEF S!Edit
<1>2. /\ today \in Nat /\ tpl \in Template /\ tpl.due > tpl.spent /\ resumedAt \in Int /\ resumedAt <= start
      /\ (S!Generates(tpl) => tpl.due >= resumedAt) /\ start \in Int
  BY CoreFacts
<1>3. due \in Int
  BY SeriesSizes
<1>4. /\ asked \in Template /\ asked.due = due /\ asked.elapsed = tpl.elapsed /\ asked.spent = tpl.spent
      /\ asked.active = tpl.active /\ asked.count = many
  BY <1>2, <1>3 DEF Template
<1> HIDE DEF asked, start
<1>5. /\ new \in Template /\ new.elapsed = tpl.elapsed /\ new.spent = tpl.spent
      /\ new.active = tpl.active /\ new.count = many /\ new.due >= due
      /\ S!Resumes(tpl, asked) => new.due >= start
  <2>1. CASE S!Resumes(tpl, asked)
    <3>1. new = S!Reanchored(asked, today)
      BY <2>1
    <3>2. /\ new = [asked EXCEPT !.due = new.due] /\ new \in Template
          /\ new.due >= asked.due /\ new.due >= start
      BY <1>2, <1>4, <3>1, ReanchoredIs DEF start
    <3> HIDE DEF new
    <3>3. new.elapsed = asked.elapsed /\ new.spent = asked.spent /\ new.active = asked.active
          /\ new.count = asked.count
      BY <1>4, <3>2 DEF Template
    <3>4. QED
      BY <1>4, <3>2, <3>3
  <2>2. CASE ~ S!Resumes(tpl, asked)
    <3>1. new = asked
      BY <2>2
    <3> HIDE DEF new
    <3>2. QED
      BY <1>3, <1>4, <2>2, <3>1
  <2>3. QED
    BY <2>1, <2>2
<1> HIDE DEF new
<1>6. /\ new.due \in Int /\ tpl.due \in Int /\ tpl.spent \in Int /\ tpl.elapsed \in Nat
  BY <1>2, <1>5, TemplateOf
\* The new frontier is past what bounds it, or not before the old one.
<1>7. \/ new.due >= tpl.due
      \/ new.due > new.spent /\ \A r \in rows : r.linked => new.due > r.date
  <2> SUFFICES ASSUME due # tpl.due, new.due # tpl.due
               PROVE  new.due > new.spent /\ \A r \in rows : r.linked => new.due > r.date
    BY <1>3, <1>5, <1>6
  <2>1. new.due > bound
    BY <1>1 DEF S!Clears
  <2> DEFINE days == S!Bounds(new) \cup {-1}
             f == [r \in S!Linked |-> r.date]
  <2>2. S!Linked \subseteq rows /\ IsFiniteSet(S!Linked) /\ S!Linked \subseteq SeriesRow
    BY CoreFacts, FS_Subset DEF S!Linked
  <2>3. IsFiniteSet({f[r] : r \in S!Linked})
    <3>1. DOMAIN f = S!Linked
      OBVIOUS
    <3> HIDE DEF f
    <3>2. QED
      BY <2>2, <3>1, FiniteImage
  <2>4. S!Dates(S!Linked) = {f[r] : r \in S!Linked}
    BY DEF S!Dates
  <2>5. days = (S!Dates(S!Linked) \cup {new.spent}) \cup {-1}
    BY DEF S!Bounds
  <2>6. IsFiniteSet(days)
    BY <2>3, <2>4, <2>5, FS_AddElement
  <2>7. days \subseteq Int /\ days # {}
    <3>1. S!Dates(S!Linked) \subseteq Int
      BY <2>2, SeriesRowOf DEF S!Dates
    <3>2. new.spent \in Int
      BY <1>5, <1>6
    <3>3. QED
      BY <2>5, <3>1, <3>2
  <2>8. bound \in Int /\ \A d \in days : d <= bound
    BY <2>6, <2>7, LargestIs
  <2>9. new.spent \in days /\ \A r \in rows : r.linked => r.date \in days
    BY <2>5 DEF S!Dates, S!Linked
  <2> HIDE DEF days, bound
  <2>10. \A d \in days : d < new.due
    <3>1. \A d \in days : d \in Int /\ d <= bound
      BY <2>7, <2>8
    <3>2. QED
      BY <1>6, <2>1, <2>8, <3>1
  <2>11. new.due > new.spent
    BY <1>6, <2>9, <2>10
  <2>12. ASSUME NEW r \in rows, r.linked
         PROVE  new.due > r.date
    BY <1>6, <2>9, <2>10, <2>12
  <2>13. QED
    BY <2>11, <2>12
<1>8. new.due > new.spent
  BY <1>2, <1>5, <1>6, <1>7
<1>9. RowsOk(rows, new)
  <2>1. ASSUME NEW q \in rows, ~ q.byHand
        PROVE  q.date < new.due /\ (~ q.linked => q.date <= new.spent)
    <3>1. q.date < tpl.due /\ (~ q.linked => q.date <= tpl.spent)
      BY <2>1 DEF SeriesCore, RowsOk, Known
    <3>2. q.date \in Int /\ q.linked \in BOOLEAN
      BY CoreFacts, SeriesRowOf
    <3>3. QED
      BY <1>5, <1>6, <1>7, <1>8, <3>1, <3>2
  <2>2. QED
    BY <2>1, <1>5 DEF SeriesCore, RowsOk, Numbered, Known
<1>10. resumedAt' \in Int /\ resumedAt' <= start
  BY <1>1, <1>2
<1>11. S!Generates(new) => new.due >= resumedAt'
  <2> SUFFICES ASSUME S!Generates(new)
               PROVE  new.due >= resumedAt'
    OBVIOUS
  <2>1. new.active /\ S!HasRemaining(new) /\ S!HasRemaining(asked)
    BY <1>4, <1>5 DEF S!Generates, S!HasRemaining
  <2>2. CASE S!HasRemaining(tpl)
    <3>1. resumedAt' = resumedAt /\ tpl.due >= resumedAt
      BY <1>1, <1>2, <1>5, <2>1, <2>2 DEF S!Generates
    <3>2. CASE due = tpl.due
      BY <1>2, <1>5, <1>6, <3>1, <3>2
    <3>3. CASE due # tpl.due
      BY <1>1, <1>2, <1>6, <3>1, <3>3
    <3>4. QED
      BY <3>2, <3>3
  <2>3. CASE ~ S!HasRemaining(tpl)
    <3>1. S!Resumes(tpl, asked)
      BY <2>1, <2>3 DEF S!Resumes
    <3>2. QED
      BY <1>1, <1>5, <2>1, <2>3, <3>1
  <2>4. QED
    BY <2>2, <2>3
<1>12. QED
  BY <1>1, <1>2, <1>5, <1>8, <1>9, <1>10, <1>11 DEF SeriesCore, TemplateOk, start

LEMMA ResumeKeeps ==
    ASSUME SeriesCore, NEW c \in Requests, call[c].read = tpl, call[c].day = today, S!Resume(c)
    PROVE  SeriesCore'
<1> DEFINE moved == S!Reanchored(tpl, today)
           start == S!CycleStart(today)
<1>1. /\ today \in Nat /\ tpl \in Template /\ tpl.due > tpl.spent /\ resumedAt \in Int
      /\ start \in Int /\ resumedAt <= start
  BY CoreFacts
<1>2. /\ rows' = rows /\ today' = today
      /\ IF tpl.active THEN tpl' = tpl /\ resumedAt' = resumedAt
         ELSE /\ tpl' = [tpl EXCEPT !.active = TRUE, !.due = IF moved.due # tpl.due THEN moved.due ELSE @]
              /\ resumedAt' = start
  BY DEF S!Resume
<1>3. CASE tpl.active
  BY <1>2, <1>3 DEF SeriesCore
<1>4. CASE ~ tpl.active
  <2>1. moved \in Template /\ moved.due >= tpl.due /\ moved.due >= start
    BY <1>1, ReanchoredIs
  <2>2. tpl' = [tpl EXCEPT !.active = TRUE, !.due = moved.due]
    <3> HIDE DEF moved
    <3> QED BY <1>1, <1>2, <1>4 DEF Template
  <2>3. moved.due \in Int /\ tpl.due \in Int /\ tpl.spent \in Int /\ tpl.elapsed \in Nat
    BY <1>1, <2>1, TemplateOf
  <2> HIDE DEF moved, start
  <2>4. /\ tpl' \in Template /\ tpl'.due = moved.due /\ tpl'.spent = tpl.spent
        /\ tpl'.elapsed = tpl.elapsed
    BY <1>1, <2>2, <2>3 DEF Template
  <2>5. tpl'.elapsed >= tpl.elapsed /\ tpl'.spent >= tpl.spent /\ tpl'.due >= tpl.due /\ tpl'.due > tpl'.spent
    BY <1>1, <2>1, <2>3, <2>4
  <2>6. RowsOk(rows, tpl')
    BY <1>1, <2>4, <2>5, SeriesRowsStay DEF SeriesCore
  <2>7. tpl'.due >= resumedAt' /\ resumedAt' = start
    BY <1>2, <1>4, <2>1, <2>4
  <2>8. QED
    BY <1>1, <1>2, <2>4, <2>5, <2>6, <2>7 DEF SeriesCore, TemplateOk, start
<1>5. QED
  BY <1>3, <1>4

\* A change of one row at a time: each row that is there after is as g makes one
\* that was there, with its number, and on its day as long as that is the series' own.
LEMMA EachKeeps ==
    ASSUME SeriesCore, NEW set \in SUBSET rows, NEW g, DOMAIN g = set,
           NEW t \in Template, t.elapsed = tpl.elapsed, t.due = tpl.due, t.spent = tpl.spent,
           \A r \in set : /\ g[r] \in SeriesRow /\ g[r].no = r.no
                          /\ ~ g[r].byHand => /\ ~ r.byHand /\ g[r].date = r.date
                                              /\ g[r].linked = r.linked \/ r.date <= tpl.spent
    PROVE  RowsOk({g[r] : r \in set}, t)
<1> DEFINE new == {g[r] : r \in set}
<1>1. tpl \in Template /\ IsFiniteSet(rows) /\ rows \subseteq SeriesRow
  BY CoreFacts
<1>2. IsFiniteSet(new)
  <2>1. IsFiniteSet(set)
    BY <1>1, FS_Subset
  <2>2. QED
    BY <2>1, FiniteImage
<1>3. \A p, q \in new : p.no = q.no => p = q
  BY DEF SeriesCore, RowsOk, Numbered
<1>4. \A q \in new : \E p \in rows :
          /\ q.no = p.no
          /\ ~ q.byHand => /\ ~ p.byHand /\ q.date = p.date /\ q.date < t.due
                           /\ ~ q.linked => q.date <= t.spent
  <2> SUFFICES ASSUME NEW r \in set
               PROVE  LET q == g[r] IN
                      /\ q.no = r.no
                      /\ ~ q.byHand => /\ ~ r.byHand /\ q.date = r.date /\ q.date < t.due
                                       /\ ~ q.linked => q.date <= t.spent
    OBVIOUS
  <2>1. ~ r.byHand => r.date < tpl.due /\ (~ r.linked => r.date <= tpl.spent)
    BY DEF SeriesCore, RowsOk, Known
  <2>2. QED
    BY <2>1
<1>5. tpl.elapsed <= t.elapsed /\ new \in SUBSET SeriesRow
  BY <1>1, TemplateOf
<1> HIDE DEF new
<1>6. RowsOk(new, t)
  BY <1>1, <1>2, <1>3, <1>4, <1>5, RowsFollow DEF SeriesCore
<1>7. QED
  BY <1>6 DEF new

LEMMA StopKeeps ==
    ASSUME SeriesCore, NEW c \in Requests, S!Stop(c)
    PROVE  SeriesCore'
<1> DEFINE lost == {r \in S!Doomed(rows) : r.no \in call[c].seen}
           set == rows \ lost
           g == [r \in set |-> [r EXCEPT !.linked = FALSE, !.byHand = @ \/ r.date > tpl.spent]]
<1>1. /\ tpl' = [tpl EXCEPT !.active = FALSE] /\ rows' = {g[r] : r \in set}
      /\ today' = today /\ resumedAt' = resumedAt
  BY DEF S!Stop
<1>2. tpl \in Template /\ rows \subseteq SeriesRow /\ set \in SUBSET rows
  BY CoreFacts
<1>3. /\ tpl' \in Template /\ tpl'.due = tpl.due /\ tpl'.spent = tpl.spent
      /\ tpl'.elapsed = tpl.elapsed /\ tpl'.active = FALSE
  BY <1>1, <1>2 DEF Template
<1>4. \A r \in set : /\ g[r] \in SeriesRow /\ g[r].no = r.no
                     /\ ~ g[r].byHand => /\ ~ r.byHand /\ g[r].date = r.date /\ r.date <= tpl.spent
  <2> SUFFICES ASSUME NEW r \in set
               PROVE  /\ g[r] \in SeriesRow /\ g[r].no = r.no
                      /\ ~ g[r].byHand => /\ ~ r.byHand /\ g[r].date = r.date /\ r.date <= tpl.spent
    OBVIOUS
  <2>1. r \in SeriesRow /\ r.date \in Int /\ tpl.spent \in Int
    BY <1>2, SeriesRowOf, TemplateOf
  <2>2. PICK h \in BOOLEAN : h <=> r.byHand \/ r.date > tpl.spent
    OBVIOUS
  <2>3. g[r] = [r EXCEPT !.linked = FALSE, !.byHand = h]
    BY <2>1, <2>2, SeriesRowOf
  <2> HIDE DEF g
  <2>4. /\ g[r] \in SeriesRow /\ g[r].no = r.no /\ g[r].date = r.date /\ g[r].byHand = h
    BY <2>1, <2>3 DEF SeriesRow
  <2>5. QED
    BY <2>1, <2>2, <2>4
<1>5. DOMAIN g = set
  OBVIOUS
<1> HIDE DEF g, set
<1>6. RowsOk({g[r] : r \in set}, tpl')
  BY <1>2, <1>3, <1>4, <1>5, EachKeeps
<1>7. QED
  BY <1>1, <1>3, <1>6 DEF SeriesCore, TemplateOk, S!Generates

LEMMA OneRowKeeps ==
    ASSUME SeriesCore,
           \E r \in rows : S!SkipOccurrence(r) \/ S!SettleOccurrence(r) \/ S!DeleteOccurrence(r)
    PROVE  SeriesCore'
<1>1. PICK r \in rows : S!SkipOccurrence(r) \/ S!SettleOccurrence(r) \/ S!DeleteOccurrence(r)
  OBVIOUS
<1>2. tpl \in Template /\ rows \subseteq SeriesRow
  BY CoreFacts
<1>3. tpl' = tpl /\ today' = today /\ resumedAt' = resumedAt
  BY <1>1 DEF S!SkipOccurrence, S!SettleOccurrence, S!DeleteOccurrence
<1>4. SUFFICES RowsOk(rows', tpl)
  BY <1>3 DEF SeriesCore
<1>5. CASE S!DeleteOccurrence(r)
  <2>1. rows' \in SUBSET rows
    BY <1>5 DEF S!DeleteOccurrence
  <2>2. tpl.elapsed <= tpl.elapsed /\ tpl.spent <= tpl.spent /\ tpl.due <= tpl.due
    BY <1>2, TemplateOf
  <2>3. QED
    BY <1>2, <2>1, <2>2, SeriesRowsStay DEF SeriesCore
<1>6. CASE S!SkipOccurrence(r) \/ S!SettleOccurrence(r)
  <2>1. PICK q \in SeriesRow : /\ q.no = r.no /\ q.date = r.date /\ q.linked = r.linked
                               /\ q.byHand = r.byHand /\ rows' = (rows \ {r}) \cup {q}
    BY <1>2, <1>6 DEF S!SkipOccurrence, S!SettleOccurrence, S!Becomes, SeriesRow
  <2> DEFINE g == [p \in rows |-> IF p = r THEN q ELSE p]
  <2>2. rows' = {g[p] : p \in rows}
    BY <2>1
  <2>3. \A p \in rows : /\ g[p] \in SeriesRow /\ g[p].no = p.no
                        /\ ~ g[p].byHand => /\ ~ p.byHand /\ g[p].date = p.date
                                            /\ g[p].linked = p.linked \/ p.date <= tpl.spent
    BY <1>2, <2>1
  <2>4. DOMAIN g = rows
    OBVIOUS
  <2> HIDE DEF g
  <2>5. QED
    BY <1>2, <2>2, <2>3, <2>4, EachKeeps
<1>7. QED
  BY <1>1, <1>5, <1>6

LEMMA MoveOneKeeps ==
    ASSUME SeriesCore, NEW c \in Requests, call[c].date \in Int, S!Move(c)
    PROVE  SeriesCore'
<1> DEFINE g == [r \in rows |-> IF r.no = call[c].no
                                THEN [r EXCEPT !.date = call[c].date, !.byHand = TRUE] ELSE r]
<1>1. tpl' = tpl /\ today' = today /\ resumedAt' = resumedAt /\ rows' = {g[r] : r \in rows}
  BY DEF S!Move
<1>2. tpl \in Template /\ rows \subseteq SeriesRow
  BY CoreFacts
<1>3. \A r \in rows : /\ g[r] \in SeriesRow /\ g[r].no = r.no
                      /\ ~ g[r].byHand => /\ ~ r.byHand /\ g[r].date = r.date
                                          /\ g[r].linked = r.linked \/ r.date <= tpl.spent
  <2> SUFFICES ASSUME NEW r \in rows
               PROVE  /\ g[r] \in SeriesRow /\ g[r].no = r.no
                      /\ ~ g[r].byHand => /\ ~ r.byHand /\ g[r].date = r.date
                                          /\ g[r].linked = r.linked \/ r.date <= tpl.spent
    OBVIOUS
  <2>1. r \in SeriesRow
    BY <1>2
  <2>2. CASE r.no = call[c].no
    <3>1. g[r] = [r EXCEPT !.date = call[c].date, !.byHand = TRUE]
      BY <2>2
    <3> HIDE DEF g
    <3>2. g[r] \in SeriesRow /\ g[r].no = r.no /\ g[r].byHand
      BY <2>1, <3>1 DEF SeriesRow
    <3>3. QED
      BY <3>2
  <2>3. CASE r.no # call[c].no
    BY <2>1, <2>3
  <2>4. QED
    BY <2>2, <2>3
<1>4. DOMAIN g = rows
  OBVIOUS
<1> HIDE DEF g
<1>5. RowsOk({g[r] : r \in rows}, tpl)
  BY <1>2, <1>3, <1>4, EachKeeps
<1>6. QED
  BY <1>1, <1>5 DEF SeriesCore

LEMMA MoveSeriesKeeps ==
    ASSUME SeriesCore, NEW row \in rows, NEW d \in 0 .. MaxDay, S!MoveSeries(row, d)
    PROVE  SeriesCore'
<1> DEFINE shift == d - row.date
           goes == {s \in rows \ {row} : S!Movable(s) /\ S!OnGrid(row, s)} \cup {row}
           moved == {[s EXCEPT !.date = @ + shift] : s \in goes}
           staying == S!Linked \ goes
           unlinked == rows \ S!Linked
           landing == S!Dates(moved)
           new == S!Shifted(shift)
           h == [s \in rows |-> IF s \in goes THEN s.byHand \/ s.date + shift \in S!Dates(unlinked)
                                ELSE s.byHand \/ (~ s.linked /\ s.date > new.spent)]
           g == [s \in rows |-> IF s \in goes THEN [s EXCEPT !.date = @ + shift, !.byHand = h[s]]
                                ELSE [s EXCEPT !.byHand = h[s]]]
<1>1. /\ S!Movable(row) /\ d >= S!CycleStart(today)
      /\ landing \cap S!Dates(staying) = {}
      /\ \A x \in landing \cup S!Dates(staying) : x < new.due
      /\ rows' = staying \cup S!Forgotten(unlinked, new) \cup S!LandedOn(moved, S!Dates(unlinked))
      /\ tpl' = new /\ today' = today /\ resumedAt' = resumedAt
  BY DEF S!MoveSeries
<1>2. /\ tpl \in Template /\ rows \subseteq SeriesRow /\ IsFiniteSet(rows) /\ resumedAt \in Int
      /\ S!CycleStart(today) \in Int /\ resumedAt <= S!CycleStart(today)
  BY CoreFacts
<1>3. \A s \in rows : /\ s.no \in Nat /\ s.date \in Int /\ s.linked \in BOOLEAN /\ s.byHand \in BOOLEAN
  BY <1>2, SeriesRowOf
<1>4. d \in Int /\ shift \in Int /\ row.date + shift = d
  BY <1>3, SeriesSizes
<1>5. tpl.due \in Int /\ tpl.step \in Nat \ {0} /\ tpl.spent \in Int /\ tpl.elapsed \in Nat
  BY <1>2, TemplateOf
<1> HIDE DEF shift
<1>6. /\ new \in Template /\ new.due = tpl.due + shift /\ new.spent = tpl.due + shift - tpl.step
      /\ new.elapsed = tpl.elapsed /\ new.active = tpl.active /\ new.count = tpl.count
  <2>1. tpl.due + shift \in Int /\ tpl.due + shift - tpl.step \in Int
    BY <1>4, <1>5
  <2>2. QED
    BY <1>2, <2>1 DEF S!Shifted, Template
<1>7. new.due \in Int /\ new.spent \in Int /\ new.due > new.spent
  BY <1>4, <1>5, <1>6
<1> HIDE DEF new
<1>8. row \in goes /\ goes \subseteq rows /\ \A s \in goes : s.linked
  BY <1>1 DEF S!Movable
<1> HIDE DEF goes
<1>9. \A s \in goes : s.date + shift \in landing
  <2> SUFFICES ASSUME NEW s \in goes
               PROVE  s.date + shift \in landing
    OBVIOUS
  <2> DEFINE m == [s EXCEPT !.date = @ + shift]
  <2>1. m \in moved
    OBVIOUS
  <2>2. m.date = s.date + shift
    BY <1>2, <1>8 DEF SeriesRow
  <2> HIDE DEF m, moved
  <2>3. QED
    BY <2>1, <2>2 DEF S!Dates
<1>10. \A s \in rows : s.linked /\ s \notin goes => s.date \in S!Dates(staying)
  BY DEF S!Dates, S!Linked
<1>11. \A s \in rows : ~ s.linked => s \notin goes /\ s.date \in S!Dates(unlinked)
  BY <1>8 DEF S!Dates, S!Linked
<1>12. \A s \in rows : h[s] \in BOOLEAN
  BY <1>3
<1>13. \A s \in rows : /\ g[s] \in SeriesRow /\ g[s].no = s.no /\ g[s].linked = s.linked
                       /\ g[s].byHand = h[s]
                       /\ g[s].date = IF s \in goes THEN s.date + shift ELSE s.date
  <2> SUFFICES ASSUME NEW s \in rows
               PROVE  /\ g[s] \in SeriesRow /\ g[s].no = s.no /\ g[s].linked = s.linked
                      /\ g[s].byHand = h[s]
                      /\ g[s].date = IF s \in goes THEN s.date + shift ELSE s.date
    OBVIOUS
  <2>1. PICK b \in BOOLEAN : b = h[s]
    BY <1>12
  <2>2. g[s] = IF s \in goes THEN [s EXCEPT !.date = s.date + shift, !.byHand = b]
               ELSE [s EXCEPT !.byHand = b]
    BY <2>1
  <2>3. s.date + shift \in Int /\ s \in SeriesRow
    BY <1>2, <1>3, <1>4
  <2> HIDE DEF g, h
  <2>4. QED
    BY <2>1, <2>2, <2>3 DEF SeriesRow
<1>14. rows' = {g[s] : s \in rows}
  <2>1. staying = {g[s] : s \in {p \in rows : p.linked /\ p \notin goes}}
    <3>1. \A s \in rows : s.linked /\ s \notin goes => g[s] = s
      BY <1>2, <1>3 DEF SeriesRow
    <3>2. staying = {p \in rows : p.linked /\ p \notin goes}
      BY DEF S!Linked
    <3> HIDE DEF g, staying
    <3>3. QED
      BY <3>1, <3>2
  <2>2. S!Forgotten(unlinked, new) = {g[s] : s \in {p \in rows : ~ p.linked}}
    <3> DEFINE Fg(s) == [s EXCEPT !.byHand = @ \/ s.date > new.spent]
    <3>1. \A s \in rows : ~ s.linked => g[s] = Fg(s)
      BY <1>2, <1>3, <1>11 DEF SeriesRow
    <3>2. unlinked = {p \in rows : ~ p.linked}
      BY DEF S!Linked
    <3>3. S!Forgotten(unlinked, new) = {Fg(s) : s \in unlinked}
      BY DEF S!Forgotten
    <3> HIDE DEF g, unlinked, Fg
    <3>4. QED
      BY <3>1, <3>2, <3>3
  <2>3. S!LandedOn(moved, S!Dates(unlinked)) = {g[s] : s \in goes}
    <3> DEFINE Mv(s) == [s EXCEPT !.date = @ + shift]
               Ld(m) == [m EXCEPT !.byHand = @ \/ m.date \in S!Dates(unlinked)]
    <3>1. \A s \in goes : g[s] = Ld(Mv(s))
      BY <1>2, <1>3, <1>8 DEF SeriesRow
    <3>2. moved = {Mv(s) : s \in goes}
      OBVIOUS
    <3>3. S!LandedOn(moved, S!Dates(unlinked)) = {Ld(m) : m \in moved}
      BY DEF S!LandedOn
    <3> HIDE DEF g, Mv, Ld, moved, unlinked
    <3>4. QED
      BY <3>1, <3>2, <3>3
  <2>4. rows = {p \in rows : p.linked /\ p \notin goes} \cup {p \in rows : ~ p.linked} \cup goes
    BY <1>3, <1>8
  <2> HIDE DEF g, staying, unlinked, moved
  <2>5. QED
    BY <1>1, <2>1, <2>2, <2>3, <2>4
<1> DEFINE after == {g[s] : s \in rows}
<1>15. IsFiniteSet(after) /\ after \subseteq SeriesRow
  <2>1. DOMAIN g = rows
    OBVIOUS
  <2> HIDE DEF g
  <2>2. QED
    BY <1>2, <1>13, <2>1, FiniteImage
\* Of two rows whose day the series knows, where each is now.
<1>16. ASSUME NEW p \in rows, ~ h[p]
       PROVE  /\ ~ p.byHand
              /\ p \in goes => p.date + shift \notin S!Dates(unlinked) /\ p.date + shift < new.due
              /\ p \notin goes => p.date < new.due /\ (~ p.linked => p.date <= new.spent)
  <2>1. CASE p \in goes
    <3>1. ~ p.byHand /\ p.date + shift \notin S!Dates(unlinked)
      BY <1>16, <2>1
    <3>2. p.date + shift < new.due
      BY <1>1, <1>9, <2>1
    <3>3. QED
      BY <2>1, <3>1, <3>2
  <2>2. CASE p \notin goes
    <3>1. ~ p.byHand /\ ~ (~ p.linked /\ p.date > new.spent)
      BY <1>16, <2>2
    <3>2. CASE p.linked
      BY <1>1, <1>10, <2>2, <3>1, <3>2
    <3>3. CASE ~ p.linked
      BY <1>3, <1>7, <2>2, <3>1, <3>3
    <3>4. QED
      BY <3>2, <3>3
  <2>3. QED
    BY <2>1, <2>2
<1>17. ASSUME NEW p \in goes, ~ h[p], NEW q \in rows \ goes
       PROVE  p.date + shift # q.date
  <2>1. p.date + shift \in landing /\ p.date + shift \notin S!Dates(unlinked)
    BY <1>8, <1>9, <1>16, <1>17
  <2>2. q.date \in S!Dates(staying) \/ q.date \in S!Dates(unlinked)
    BY <1>10, <1>11
  <2>3. QED
    BY <1>1, <2>1, <2>2
<1> HIDE DEF h, g, landing, staying, unlinked, moved
<1>18. Numbered(after, new)
  <2>1. \A p, q \in rows : p.no = q.no => p = q
    BY DEF SeriesCore, RowsOk, Numbered
  <2>2. \A p \in rows : p.no \in 1 .. new.elapsed
    BY <1>6 DEF SeriesCore, RowsOk, Numbered
  <2>3. QED
    BY <1>13, <2>1, <2>2 DEF Numbered
<1>19. OncePerDay(after)
  <2> SUFFICES ASSUME NEW p \in rows, NEW q \in rows, g[p] # g[q], ~ h[p], ~ h[q]
               PROVE  g[p].date # g[q].date
    BY <1>13 DEF OncePerDay
  <2>1. p # q /\ ~ p.byHand /\ ~ q.byHand
    BY <1>16
  <2>2. p.date # q.date
    BY <2>1 DEF SeriesCore, RowsOk, OncePerDay
  <2>3. CASE p \in goes /\ q \in goes
    <3>1. g[p].date = p.date + shift /\ g[q].date = q.date + shift
      BY <1>13, <2>3
    <3>2. p.date \in Int /\ q.date \in Int
      BY <1>3
    <3>3. QED
      <4>1. p.date + shift # q.date + shift
        <5>1. shift \in Int
          BY <1>4
        <5>2. ASSUME NEW a \in Int, NEW b \in Int, NEW e \in Int, a # b
              PROVE  a + e # b + e
          BY <5>2
        <5>3. QED
          BY <2>2, <3>2, <5>1, <5>2, Zenon
      <4>2. QED
        BY <3>1, <4>1, Zenon
  <2>4. CASE p \in goes /\ q \notin goes
    BY <1>13, <1>17, <2>4
  <2>5. CASE p \notin goes /\ q \in goes
    BY <1>13, <1>17, <2>5
  <2>6. CASE p \notin goes /\ q \notin goes
    BY <1>13, <2>2, <2>6
  <2>7. QED
    BY <2>3, <2>4, <2>5, <2>6
<1>20. Known(after, new)
  <2> SUFFICES ASSUME NEW p \in rows, ~ h[p]
               PROVE  g[p].date < new.due /\ (~ p.linked => g[p].date <= new.spent)
    BY <1>13 DEF Known
  <2>1. QED
    BY <1>8, <1>13, <1>16
<1>21. RowsOk(after, new)
  BY <1>15, <1>18, <1>19, <1>20 DEF RowsOk
<1>22. S!Generates(new) => new.due >= resumedAt
  <2>1. d \in landing
    BY <1>4, <1>8, <1>9
  <2>2. d < new.due
    BY <1>1, <2>1
  <2>3. QED
    BY <1>1, <1>2, <1>4, <1>7, <2>2
<1>23. TemplateOk(new, today, resumedAt)
  BY <1>2, <1>6, <1>7, <1>22 DEF TemplateOk
<1>24. QED
  BY <1>1, <1>14, <1>21, <1>23 DEF SeriesCore

LEMMA PauseKeeps ==
    ASSUME SeriesCore, S!Pause
    PROVE  SeriesCore'
<1>1. /\ tpl' = [tpl EXCEPT !.active = FALSE] /\ rows' = rows
      /\ today' = today /\ resumedAt' = resumedAt
  BY DEF S!Pause
<1>2. /\ tpl' \in Template /\ tpl'.due = tpl.due /\ tpl'.spent = tpl.spent
      /\ tpl'.elapsed = tpl.elapsed /\ tpl'.active = FALSE
  BY <1>1, CoreFacts DEF Template
<1>3. RowsOk(rows, tpl)'
  BY <1>1, <1>2 DEF SeriesCore, RowsOk, Numbered, Known
<1>4. TemplateOk(tpl, today, resumedAt)'
  BY <1>1, <1>2, CoreFacts DEF TemplateOk, S!Generates, S!CycleStart
<1>5. QED
  BY <1>1, <1>3, <1>4 DEF SeriesCore

LEMMA NextDayKeeps ==
    ASSUME SeriesCore, S!NextDay
    PROVE  SeriesCore'
<1>1. tpl' = tpl /\ rows' = rows /\ resumedAt' = resumedAt /\ today' = today + 1
  BY DEF S!NextDay
<1>2. /\ today \in Nat /\ resumedAt \in Int /\ resumedAt <= S!CycleStart(today)
      /\ S!CycleStart(today) \in Int /\ S!CycleStart(today + 1) \in Int
      /\ S!CycleStart(today) <= S!CycleStart(today + 1)
  <2>1. today \in Nat
    BY CoreFacts
  <2>2. today + 1 \in Nat
    BY <2>1
  <2>3. QED
    BY <2>1, <2>2, CoreFacts, CycleStartIs
<1>3. resumedAt <= S!CycleStart(today + 1)
  BY <1>2
<1>4. QED
  BY <1>1, <1>2, <1>3 DEF SeriesCore, TemplateOk

-----------------------------------------------------------------------------
(* What requests hold on to. *)

\* A resume that does not overlap acts on the template as it is.
LEMMA CallsKeep ==
    ASSUME SeriesInv, S!Next, "resumes" \notin Overlapping
    PROVE  DOMAIN call' = Requests /\ \A c \in Requests : CallOk(c)'
<1>1. /\ today \in Nat /\ DOMAIN call = Requests /\ \A c \in Requests : CallOk(c)
  BY DEF SeriesInv
<1>2. /\ S!SeriesNext
      /\ (\E c \in Requests : S!Alone(call[c])) => call' # call /\ ~ S!Begins
      /\ \A c \in Requests : S!Alone(call'[c]) => \A d \in Requests \ {c} : call'[d] = S!Rest
  BY DEF S!Next
<1>3. \A q : q.pc = "resumes" => S!Alone(q)
  BY DEF S!Alone
<1>4. S!Rest.pc = "rest"
  BY DEF S!Rest
\* What a step does to the requests.
<1>5. \/ call' = call /\ ~ \E c \in Requests : call[c].pc = "resumes"
      \/ \E c \in Requests : S!Leaves(c) /\ call[c] # S!Rest /\ (call[c].pc = "resumes" => S!Resume(c))
      \/ \E c \in Requests : \E q : /\ S!Enters(c, q) /\ UNCHANGED <<tpl, today>>
                                /\ \/ q.pc = "generates" /\ q.day = today
                                   \/ q.pc = "stops"
                                   \/ q.pc = "moves" /\ q.date \in Int
                                   \/ q.pc = "resumes" /\ q.read = tpl /\ q.day = today
  <2> DEFINE Idle == call' = call
             Left == \E c \in Requests : S!Leaves(c) /\ call[c] # S!Rest /\ (call[c].pc = "resumes" => S!Resume(c))
             Entered == \E c \in Requests : \E q : /\ S!Enters(c, q) /\ UNCHANGED <<tpl, today>>
                                /\ \/ q.pc = "generates" /\ q.day = today
                                   \/ q.pc = "stops"
                                   \/ q.pc = "moves" /\ q.date \in Int
                                   \/ q.pc = "resumes" /\ q.read = tpl /\ q.day = today
  <2>1. Idle \/ Left \/ Entered
    <3>1. ASSUME NEW c \in Requests, S!AskGenerate(c)
          PROVE  Entered
      BY <3>1 DEF S!AskGenerate
    <3>2. ASSUME NEW c \in Requests, S!AskResume(c)
          PROVE  Entered
      BY <3>2 DEF S!AskResume
    <3>3. ASSUME NEW c \in Requests, S!AskStop(c)
          PROVE  Entered
      BY <3>3 DEF S!AskStop
    <3>4. ASSUME NEW c \in Requests, NEW r \in rows, NEW d \in 0 .. MaxDay, S!AskMove(c, r, d)
          PROVE  Entered
      <4>1. d \in Int
        BY SeriesSizes
      <4>2. QED
        BY <3>4, <4>1 DEF S!AskMove
    <3>5. ASSUME NEW c \in Requests, S!Generate(c) \/ S!Resume(c) \/ S!Stop(c) \/ S!Move(c)
          PROVE  Left
      BY <1>4, <3>5 DEF S!Generate, S!Resume, S!Stop, S!Move
    <3>6. ASSUME NEW d \in 0 .. MaxDay, NEW state \in {"accepted", "skipped"}, S!MaterialiseNext(d, state)
          PROVE  Idle
      BY <3>6 DEF S!MaterialiseNext
    <3>7. ASSUME NEW d \in 0 .. MaxDay, NEW step \in Steps, NEW n \in Counts, S!Edit(d, step, n)
          PROVE  Idle
      BY <3>7 DEF S!Edit
    <3>8. ASSUME NEW r \in rows, S!SkipOccurrence(r) \/ S!SettleOccurrence(r) \/ S!DeleteOccurrence(r)
          PROVE  Idle
      BY <3>8 DEF S!SkipOccurrence, S!SettleOccurrence, S!DeleteOccurrence
    <3>9. ASSUME NEW r \in rows, NEW d \in 0 .. MaxDay, S!MoveSeries(r, d)
          PROVE  Idle
      BY <3>9 DEF S!MoveSeries
    <3>10. ASSUME S!NextDay
           PROVE  Idle
      BY <3>10 DEF S!NextDay
    <3>11. ASSUME S!Pause
           PROVE  Idle
      BY <3>11 DEF S!Pause
    <3> HIDE DEF Idle, Left, Entered
    <3>12. QED
      BY <1>2, <3>1, <3>2, <3>3, <3>4, <3>5, <3>6, <3>7, <3>8, <3>9, <3>10, <3>11 DEF S!SeriesNext
  <2>2. Idle => ~ \E c \in Requests : call[c].pc = "resumes"
    BY <1>2, <1>3
  <2>3. QED
    BY <2>1, <2>2
<1>6. CASE call' = call /\ ~ \E c \in Requests : call[c].pc = "resumes"
  <2>1. ASSUME NEW c \in Requests
        PROVE  CallOk(c)'
    BY <1>1, <1>6 DEF CallOk
  <2>2. QED
    BY <1>1, <1>6, <2>1
<1>7. ASSUME NEW c \in Requests, S!Leaves(c), call[c] # S!Rest, call[c].pc = "resumes" => S!Resume(c)
      PROVE  DOMAIN call' = Requests /\ \A d \in Requests : CallOk(d)'
  <2>1. /\ call' = [call EXCEPT ![c] = S!Rest] /\ DOMAIN call' = Requests
        /\ call'[c] = S!Rest /\ \A d \in Requests \ {c} : call'[d] = call[d]
    BY <1>1, <1>7 DEF S!Leaves
  <2>2. ASSUME NEW d \in Requests \ {c}, call[d] # S!Rest
        PROVE  call[d].pc # "resumes"
    BY <1>1, <1>7, <2>2 DEF CallOk
  <2>3. ASSUME NEW d \in Requests
        PROVE  CallOk(d)'
    <3>1. CASE d = c \/ call[d] = S!Rest
      BY <2>1, <3>1 DEF CallOk
    <3>2. CASE d # c /\ call[d] # S!Rest
      BY <1>1, <2>1, <2>2, <3>2 DEF CallOk
    <3>3. QED
      BY <3>1, <3>2
  <2>4. QED
    BY <2>1, <2>3
<1>8. ASSUME NEW c \in Requests, NEW q, S!Enters(c, q), UNCHANGED <<tpl, today>>,
             \/ q.pc = "generates" /\ q.day = today
             \/ q.pc = "stops"
             \/ q.pc = "moves" /\ q.date \in Int
             \/ q.pc = "resumes" /\ q.read = tpl /\ q.day = today
      PROVE  DOMAIN call' = Requests /\ \A d \in Requests : CallOk(d)'
  <2>1. /\ DOMAIN call' = Requests /\ call'[c] = q /\ call[c] = S!Rest
        /\ \A d \in Requests \ {c} : call'[d] = call[d]
    BY <1>1, <1>8 DEF S!Enters
  <2>2. q # S!Rest
    BY <1>4, <1>8
  <2>3. S!Begins
    BY <2>1, <2>2 DEF S!Begins
  <2>4. \A d \in Requests : call[d].pc # "resumes"
    BY <1>2, <1>3, <2>3
  <2>5. ASSUME NEW d \in Requests \ {c}
        PROVE  CallOk(d)'
    BY <1>1, <2>1, <2>4, <2>5 DEF CallOk
  <2>6. CallOk(c)'
    <3>1. CASE q.pc = "resumes" /\ q.read = tpl /\ q.day = today
      <4>1. \A d \in Requests \ {c} : call'[d] = S!Rest
        BY <1>2, <1>3, <2>1, <3>1
      <4>2. QED
        BY <1>8, <2>1, <3>1, <4>1 DEF CallOk
    <3>2. CASE ~ (q.pc = "resumes" /\ q.read = tpl /\ q.day = today)
      BY <1>1, <1>8, <2>1, <3>2 DEF CallOk
    <3>3. QED
      BY <3>1, <3>2
  <2>7. QED
    BY <2>1, <2>5, <2>6
<1>9. QED
  BY <1>5, <1>6, <1>7, <1>8

LEMMA SeriesKeeps ==
    ASSUME SeriesInv, S!Next, "resumes" \notin Overlapping
    PROVE  SeriesInv'
<1>1. SeriesCore /\ \A c \in Requests : CallOk(c)
  BY DEF SeriesInv, SeriesCore
<1>2. S!Rest.pc = "rest" /\ S!SeriesNext
  BY DEF S!Rest, S!Next
<1>3. SeriesCore'
  <2>1. ASSUME NEW c \in Requests, S!Generate(c)
        PROVE  SeriesCore'
    <3>1. call[c].pc = "generates"
      BY <2>1 DEF S!Generate
    <3>2. call[c].day \in Nat
      BY <1>1, <1>2, <3>1 DEF CallOk
    <3>3. QED
      BY <1>1, <2>1, <3>2, GenerateKeeps
  <2>2. ASSUME NEW c \in Requests, S!Resume(c)
        PROVE  SeriesCore'
    <3>1. call[c].pc = "resumes"
      BY <2>2 DEF S!Resume
    <3>2. call[c].read = tpl /\ call[c].day = today
      BY <1>1, <1>2, <3>1 DEF CallOk
    <3>3. QED
      BY <1>1, <2>2, <3>2, ResumeKeeps
  <2>3. ASSUME NEW c \in Requests, S!Move(c)
        PROVE  SeriesCore'
    <3>1. call[c].pc = "moves"
      BY <2>3 DEF S!Move
    <3>2. call[c].date \in Int
      BY <1>1, <1>2, <3>1 DEF CallOk
    <3>3. QED
      BY <1>1, <2>3, <3>2, MoveOneKeeps
  <2>4. ASSUME NEW c \in Requests, S!Stop(c)
        PROVE  SeriesCore'
    BY <1>1, <2>4, StopKeeps
  <2>5. ASSUME NEW c \in Requests,
               \/ S!AskGenerate(c) \/ S!AskResume(c) \/ S!AskStop(c)
               \/ \E r \in rows, d \in 0 .. MaxDay : S!AskMove(c, r, d)
        PROVE  SeriesCore'
    <3>1. tpl' = tpl /\ rows' = rows /\ today' = today /\ resumedAt' = resumedAt
      BY <2>5 DEF S!AskGenerate, S!AskResume, S!AskStop, S!AskMove
    <3>2. QED
      BY <1>1, <3>1 DEF SeriesCore
  <2>6. ASSUME NEW d \in 0 .. MaxDay, NEW state \in {"accepted", "skipped"}, S!MaterialiseNext(d, state)
        PROVE  SeriesCore'
    BY <1>1, <2>6, MaterialiseKeeps
  <2>7. ASSUME NEW d \in 0 .. MaxDay, NEW step \in Steps, NEW many \in Counts, S!Edit(d, step, many)
        PROVE  SeriesCore'
    BY <1>1, <2>7, EditKeeps
  <2>8. ASSUME \E r \in rows : S!SkipOccurrence(r) \/ S!SettleOccurrence(r) \/ S!DeleteOccurrence(r)
        PROVE  SeriesCore'
    BY <1>1, <2>8, OneRowKeeps
  <2>9. ASSUME NEW r \in rows, NEW d \in 0 .. MaxDay, S!MoveSeries(r, d)
        PROVE  SeriesCore'
    BY <1>1, <2>9, MoveSeriesKeeps
  <2>10. ASSUME S!NextDay
         PROVE  SeriesCore'
    BY <1>1, <2>10, NextDayKeeps
  <2>11. ASSUME S!Pause
         PROVE  SeriesCore'
    BY <1>1, <2>11, PauseKeeps
  <2>12. QED
    BY <1>2, <2>1, <2>2, <2>3, <2>4, <2>5, <2>6, <2>7, <2>8, <2>9, <2>10, <2>11 DEF S!SeriesNext
<1>4. DOMAIN call' = Requests /\ \A c \in Requests : CallOk(c)'
  BY CallsKeep
<1>5. QED
  BY <1>3, <1>4 DEF SeriesInv, SeriesCore

LEMMA SeriesBegins ==
    ASSUME S!Init
    PROVE  SeriesInv
<1>1. Steps \subseteq Nat \ {0} /\ Steps # {} /\ Counts \subseteq Nat /\ Cycle \in Nat \ {0}
  BY SeriesSizes
<1>2. S!First \in Steps /\ S!First \in Nat /\ S!First > 0
  <2>1. PICK s \in Steps : \A t \in Steps : s <= t
    BY <1>1, Least
  <2>2. S!First \in Steps
    BY <2>1 DEF S!First
  <2>3. QED
    BY <1>1, <2>2
<1>3. /\ today = 0 /\ resumedAt = 0 /\ call = [c \in Requests |-> S!Rest]
  BY DEF S!Init, S!SeriesInit
<1>4. S!CycleStart(0) = 0
  <2>1. 0 % Cycle = 0
    BY <1>1
  <2>2. QED
    BY <2>1 DEF S!CycleStart
<1>5. \/ \E due \in 0 .. Cycle, step \in Steps, many \in Counts, auto \in BOOLEAN :
            /\ tpl = [active |-> TRUE, due |-> due, step |-> step, count |-> many, elapsed |-> 0,
                      spent |-> -1, auto |-> auto]
            /\ rows = {}
      \/ \E many \in Counts :
            /\ tpl = S!Spent(many)
            /\ rows = {[no |-> 1, date |-> 0, status |-> "settled", state |-> "accepted",
                        linked |-> TRUE, byHand |-> FALSE]}
      \/ \E many \in Counts :
            /\ tpl = [S!Spent(many) EXCEPT !.active = FALSE, !.elapsed = 0, !.spent = -1, !.due = 0]
            /\ rows = {}
  <2>1. CASE S!SeriesInit
    BY <2>1 DEF S!SeriesInit
  <2>2. CASE ~ S!SeriesInit
    <3>1. PICK many \in Counts, start \in Starts \ {"new"} :
              tpl = IF start = "spent" THEN S!Spent(many)
                    ELSE [S!Spent(many) EXCEPT !.active = FALSE, !.elapsed = 0, !.spent = -1, !.due = 0]
      BY <2>2 DEF S!Init
    <3>2. rows = {[no |-> 1, date |-> 0, status |-> "settled", state |-> "accepted",
                   linked |-> TRUE, byHand |-> FALSE] : n \in {1} \cap {tpl.elapsed}}
      BY <2>2 DEF S!Init
    <3>3. CASE start = "spent"
      <4>1. tpl = S!Spent(many) /\ tpl.elapsed = 1
        BY <3>1, <3>3 DEF S!Spent
      <4>2. {1} \cap {tpl.elapsed} = {1}
        BY <4>1
      <4>3. QED
        BY <3>2, <4>1, <4>2
    <3>4. CASE start # "spent"
      <4>1. /\ tpl = [S!Spent(many) EXCEPT !.active = FALSE, !.elapsed = 0, !.spent = -1, !.due = 0]
            /\ tpl.elapsed = 0
        BY <3>1, <3>4 DEF S!Spent
      <4>2. {1} \cap {tpl.elapsed} = {}
        BY <4>1
      <4>3. QED
        BY <3>2, <4>1, <4>2
    <3>5. QED
      BY <3>3, <3>4
  <2>3. QED
    BY <2>1, <2>2
<1>6. TemplateOk(tpl, 0, 0) /\ tpl.elapsed \in Nat
  <2>1. tpl \in Template /\ tpl.due > tpl.spent /\ tpl.due >= 0
    <3>1. ASSUME NEW due \in 0 .. Cycle, NEW step \in Steps, NEW many \in Counts, NEW auto \in BOOLEAN,
                 tpl = [active |-> TRUE, due |-> due, step |-> step, count |-> many, elapsed |-> 0,
                        spent |-> -1, auto |-> auto]
          PROVE  tpl \in Template /\ tpl.due > tpl.spent /\ tpl.due >= 0
      BY <1>1, <3>1 DEF Template
    <3>2. ASSUME NEW many \in Counts, tpl = S!Spent(many)
          PROVE  tpl \in Template /\ tpl.due > tpl.spent /\ tpl.due >= 0
      BY <1>1, <1>2, <3>2 DEF Template, S!Spent
    <3>3. ASSUME NEW many \in Counts,
                 tpl = [S!Spent(many) EXCEPT !.active = FALSE, !.elapsed = 0, !.spent = -1, !.due = 0]
          PROVE  tpl \in Template /\ tpl.due > tpl.spent /\ tpl.due >= 0
      <4>1. tpl = [active |-> FALSE, due |-> 0, step |-> S!First, count |-> many, elapsed |-> 0,
                   spent |-> -1, auto |-> FALSE]
        BY <3>3 DEF S!Spent
      <4>2. QED
        BY <1>1, <1>2, <4>1 DEF Template
    <3>4. QED
      BY <1>5, <3>1, <3>2, <3>3
  <2>2. QED
    BY <1>4, <2>1, TemplateOf DEF TemplateOk
<1>7. RowsOk(rows, tpl)
  <2>1. CASE rows = {}
    BY <2>1, FS_EmptySet DEF RowsOk, Numbered, OncePerDay, Known
  <2>2. ASSUME NEW many \in Counts, tpl = S!Spent(many),
               rows = {[no |-> 1, date |-> 0, status |-> "settled", state |-> "accepted",
                        linked |-> TRUE, byHand |-> FALSE]}
        PROVE  RowsOk(rows, tpl)
    <3> DEFINE r == [no |-> 1, date |-> 0, status |-> "settled", state |-> "accepted",
                     linked |-> TRUE, byHand |-> FALSE]
    <3>1. tpl.elapsed = 1 /\ tpl.due = S!First /\ tpl.spent = 0
      BY <2>2 DEF S!Spent
    <3>2. r \in SeriesRow /\ r.no = 1 /\ r.date = 0 /\ r.linked
      BY DEF SeriesRow
    <3>3. rows = {r}
      BY <2>2
    <3> HIDE DEF r
    <3>4. IsFiniteSet(rows)
      BY <3>3, FS_Singleton, Zenon
    <3>5. QED
      BY <1>2, <3>1, <3>2, <3>3, <3>4 DEF RowsOk, Numbered, OncePerDay, Known
  <2>3. QED
    BY <1>5, <2>1, <2>2
<1>8. \A c \in Requests : CallOk(c)
  BY <1>3 DEF CallOk
<1>9. DOMAIN call = Requests /\ 0 \in Nat
  BY <1>3
<1>10. QED
  BY <1>3, <1>6, <1>7, <1>8, <1>9 DEF SeriesInv

\* As long as no resume overlaps another request, for any number of requests that
\* generate, stop and move occurrences over each other: every occurrence has its
\* number, the frontier stays after what is spent, no day is written twice and
\* nothing is written for a pause (recurring_service, _plan_series_date_move).
THEOREM SeriesCorrect == "resumes" \notin Overlapping /\ Spec => []SeriesSafe
<1> DEFINE Inv == focus = "series" => SeriesInv
<1> SUFFICES ASSUME "resumes" \notin Overlapping
             PROVE  Spec => []SeriesSafe
  OBVIOUS
<1>1. Init => Inv
  BY SeriesBegins DEF Init
<1>2. Inv /\ [Next]_organisationVars => Inv'
  <2> SUFFICES ASSUME Inv, [Next]_organisationVars, (focus = "series")'
               PROVE  SeriesInv'
    OBVIOUS
  <2>1. CASE SeriesStep
    BY <2>1, SeriesKeeps DEF SeriesStep
  <2>2. CASE UNCHANGED organisationVars
    <3>1. SeriesInv /\ UNCHANGED <<tpl, rows, today, call, resumedAt>>
      BY <2>2 DEF organisationVars, seriesVars
    <3>2. \A c \in Requests : CallOk(c) => CallOk(c)'
      BY <3>1 DEF CallOk
    <3>3. QED
      BY <3>1, <3>2 DEF SeriesInv
  <2>3. CASE CategoryStep \/ AccountStep \/ TagStep \/ VoteStep \/ ResetStep
    BY <2>3 DEF CategoryStep, AccountStep, TagStep, VoteStep, OthersThanSharing, ResetStep
  <2>4. QED
    BY <2>1, <2>2, <2>3 DEF Next
<1>3. Inv => SeriesSafe
  <2> SUFFICES ASSUME focus = "series", SeriesInv
               PROVE  SeriesSafe
    BY DEF SeriesSafe
  <2>1. S!SeriesTypeOK
    BY TemplateOf DEF SeriesInv, TemplateOk, RowsOk, Numbered, S!SeriesTypeOK
  <2>2. S!FrontierPastSpent /\ S!NoBackfillAfterPause
    BY DEF SeriesInv, TemplateOk, S!FrontierPastSpent, S!NoBackfillAfterPause
  <2>3. S!NoDayBilledTwice
    BY DEF SeriesInv, RowsOk, OncePerDay, S!NoDayBilledTwice
  <2>4. QED
    BY <2>1, <2>2, <2>3 DEF SeriesSafe
<1>4. QED
  BY <1>1, <1>2, <1>3, PTL DEF Spec
=============================================================================
