---- MODULE Reset ----
\* The reset of an organisation's data (services/org_data_service.py): a
\* delete per table, committed as it goes, and the system defaults seeded at
\* the end, under the lease of services/org_reset_lock_service.py; and the
\* deletion of the organisation, one transaction.
EXTENDS Integers, Sequences, FiniteSets
CONSTANTS Owners,   \* requests to reset, over all replicas
          Ttl       \* LOCK_TTL_MINUTES, in the units of Tick
VARIABLES rows,    \* the tables the organisation has rows in
          seeds,   \* how many times the system categories are there
          lock,    \* the row of org_data_reset_locks: whose, and how old
          reset,   \* each request
          gone     \* the organisation was deleted
resetVars == <<rows, seeds, lock, reset, gone>>

\* What the module asks of its constants.
ResetAssumption == IsFiniteSet(Owners) /\ Ttl \in Nat

\* The tables in the order they are wiped; budgets go as "plan_items". "staged" stands for those no foreign
\* key of interest binds before the transactions, "tags" for those after the
\* categories: joins, tags, the organisation's part of the shared dictionaries.
OrderByName == <<"staged", "accounts", "account_types", "transactions", "plan_items", "recurring", "plans", "periods",
                 "batches", "rules", "categories", "tags">>
OrderWithoutTags == <<"staged", "transactions", "plan_items", "recurring", "plans", "periods", "batches", "accounts",
                      "account_types", "rules", "categories">>
Order == <<"staged", "transactions", "plan_items", "recurring", "plans", "periods", "batches", "accounts",
           "account_types", "rules", "categories", "tags">>
Tables == {"staged", "transactions", "plan_items", "recurring", "plans", "periods", "batches", "accounts",
           "account_types", "rules", "categories", "tags"}
\* The restricting foreign keys: a row of a table names rows of these.
Names == [t \in Tables |->
    CASE t \in {"transactions", "recurring"} -> {"accounts", "categories"}
      [] t \in {"plan_items", "rules"} -> {"categories"}
      [] t = "plans" -> {"periods"}
      [] t = "batches" -> {"accounts"}
      [] t = "accounts" -> {"account_types"}
      [] OTHER -> {}]
Held(t) == \E u \in rows : t \in Names[u]

Out == [pc |-> "out", token |-> 0, at |-> 1, before |-> {}, disturbed |-> FALSE, seen |-> 0]
Running == {o \in Owners : reset[o].pc \in {"wiping", "seeding"}}
NoLock == [token |-> 0, age |-> 0]
Tokens == 1..(Cardinality(Owners) + 1)
ResetInit ==
    /\ rows = Tables
    /\ seeds = 1
    /\ lock = NoLock
    /\ reset = [o \in Owners |-> Out]
    /\ gone = FALSE
ResetTypeOK ==
    /\ rows \subseteq Tables
    /\ seeds \in Nat
    /\ lock.token \in Tokens \union {0} /\ lock.age \in 0..(Ttl + 1)
    /\ \A o \in Owners : reset[o].pc \in {"out", "wiping", "seeding", "releasing", "failed"}
                         /\ reset[o].before \subseteq Tables
    /\ gone => rows = {} /\ lock = NoLock

\* acquire_reset_lock: the row is inserted, or taken over once it is stale;
\* either way under a token of its own.
AnyLock == TRUE
Acquirable == lock = NoLock \/ lock.age > Ttl
Acquire(o) ==
    /\ reset[o].pc = "out"
    /\ ~gone
    /\ Acquirable
    /\ LET new == CHOOSE k \in Tokens : k # lock.token /\ \A p \in Owners : reset[p].token # k
       IN  /\ lock' = [token |-> new, age |-> 0]
           /\ reset' = [reset EXCEPT ![o] = [Out EXCEPT !.pc = "wiping", !.token = new, !.before = rows]]
    /\ UNCHANGED <<rows, seeds, gone>>
\* release_reset_lock deletes the row only under the token it was given.
ReleasedByOrg(k) == NoLock
Released(k) == IF lock.token = k THEN NoLock ELSE lock

Wiped(t) == [p \in Owners |-> [reset[p] EXCEPT !.before = @ \ {t}]]
\* The rows of the next table go. MySQL refuses to delete a row that another
\* names, and the reset then fails with what it has committed so far.
WipeTable(o) ==
    /\ reset[o].pc = "wiping"
    /\ reset[o].at <= Len(Order)
    /\ LET t == Order[reset[o].at]
       IN  IF Held(t) /\ t \in rows
           THEN /\ reset' = [reset EXCEPT ![o].pc = "failed"]
                /\ UNCHANGED <<rows, seeds>>
           ELSE /\ rows' = rows \ {t}
                /\ seeds' = IF t = "categories" THEN 0 ELSE seeds
                /\ reset' = [Wiped(t) EXCEPT ![o].at = @ + 1]
    /\ UNCHANGED <<lock, gone>>
\* seed_org_defaults reads which defaults are there, and adds the others.
ReadDefaults(o) ==
    /\ reset[o].pc = "wiping"
    /\ reset[o].at > Len(Order)
    /\ reset' = [reset EXCEPT ![o].pc = "seeding", ![o].seen = seeds]
    /\ UNCHANGED <<rows, seeds, lock, gone>>
Missing(o) == reset[o].seen = 0
Seed(o) ==
    /\ reset[o].pc = "seeding"
    /\ IF gone
       THEN /\ reset' = [reset EXCEPT ![o].pc = "failed"]
            /\ UNCHANGED <<rows, seeds>>
       ELSE /\ seeds' = IF Missing(o) THEN seeds + 1 ELSE seeds
            /\ rows' = rows \union {"account_types", "categories"}
            /\ reset' = [reset EXCEPT ![o].pc = "releasing"]
    /\ UNCHANGED <<lock, gone>>
Release(o) ==
    /\ reset[o].pc \in {"releasing", "failed"}
    /\ lock' = Released(reset[o].token)
    /\ reset' = [reset EXCEPT ![o] = Out]
    /\ UNCHANGED <<rows, seeds, gone>>
\* The process dies or the request is cancelled: the lock stays until it is stale.
Crash(o) ==
    /\ reset[o].pc # "out"
    /\ reset' = [reset EXCEPT ![o] = Out]
    /\ UNCHANGED <<rows, seeds, lock, gone>>

\* The organisation is in use meanwhile: a row is written that names others.
Write(t) ==
    /\ ~gone
    /\ t \notin rows
    /\ Names[t] \subseteq rows
    /\ rows' = rows \union {t}
    /\ reset' = [p \in Owners |-> IF p \in Running THEN [reset[p] EXCEPT !.disturbed = TRUE] ELSE reset[p]]
    /\ UNCHANGED <<seeds, lock, gone>>
\* wipe_org_data keeps a list of its own, parallel to the one of the reset; a
\* table that a row left so far names would be refused, and all rolled back.
WipeOrder == <<"staged", "transactions", "plan_items", "recurring", "plans", "periods", "batches", "accounts",
               "account_types", "rules", "categories", "tags">>
WipedSoFar(k) == {WipeOrder[i] : i \in 1..k}
WipeRefused ==
    \E k \in DOMAIN WipeOrder : WipeOrder[k] \in rows /\ \E u \in rows \ WipedSoFar(k) : WipeOrder[k] \in Names[u]
\* delete_org_cascade: wipe_org_data and the organisation's own row at once.
DeleteOrg ==
    /\ ~gone
    /\ ~WipeRefused
    /\ gone' = TRUE
    /\ rows' = rows \ WipedSoFar(Len(WipeOrder))
    /\ seeds' = 0
    /\ lock' = NoLock
    /\ reset' = [p \in Owners |-> [reset[p] EXCEPT !.before = {}]]
\* Time: a reset at work ends before its lock is stale. One that has only its
\* release left may be stalled for any time.
Tick ==
    /\ lock # NoLock
    /\ lock.age <= Ttl
    /\ lock.age = Ttl => \A o \in Running : reset[o].token # lock.token
    /\ lock' = [lock EXCEPT !.age = @ + 1]
    /\ UNCHANGED <<rows, seeds, reset, gone>>
ResetNext ==
    \/ \E o \in Owners : Acquire(o) \/ WipeTable(o) \/ ReadDefaults(o) \/ Seed(o) \/ Release(o) \/ Crash(o)
    \/ \E t \in Tables : Write(t)
    \/ DeleteOrg
    \/ Tick

\* The defaults are never there twice. No constraint of the database says so;
\* it is why one reset at a time may run, also after a crash, a takeover of a
\* stale lock and a stalled release.
SeededOnce == seeds <= 1
\* A finished reset left no row it found, whatever was written meanwhile.
FinishedIsClean == \A o \in Owners : reset[o].pc = "releasing" => reset[o].before = {}
\* It fails only over a row written while it ran, or an organisation deleted
\* while it ran: the order of the tables never leaves a row named by another.
\* The deletion, at once, is never refused at all.
FailsOnlyDisturbed ==
    /\ ~WipeRefused
    /\ \A o \in Owners : reset[o].pc = "failed" => reset[o].disturbed \/ gone
====
