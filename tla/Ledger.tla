------------------------------- MODULE Ledger -------------------------------
(***************************************************************************)
(* The ledger of one organisation: transaction rows, the links between     *)
(* them, the cached balance of each account and the counters of each       *)
(* import batch.  Every request handler that writes one of these is one    *)
(* action here: it runs in one database transaction.                       *)
(*                                                                         *)
(* A row's amount is put into accounts.balance and taken out of it again   *)
(* by calls of apply_balance and revert_balance that are spread over a     *)
(* dozen handlers, each behind its own gate.  The history variable posted  *)
(* records, per account and row, the net amount those calls have put into  *)
(* the balance; no action reads it.                                        *)
(*                                                                         *)
(* Dates, names, categories and tags are abstracted away: where the code   *)
(* selects rows by date the action takes any subset.  Row ids of deleted   *)
(* rows may be used again, which no code can observe because the foreign   *)
(* key ON DELETE SET NULL leaves no reference to a deleted row.            *)
(***************************************************************************)
EXTENDS Integers, FiniteSetsExt

CONSTANTS
    Accounts,          \* the accounts of the organisation
    Currency,          \* the currency of each account
    TxIds,             \* ids of transaction rows
    Batches,           \* ids of import batches
    Series,            \* ids of recurring templates
    Amounts,           \* amounts a request may carry
    Openings,          \* opening balances a request may carry
    Targets,           \* target balances of a manual adjustment
    PromotesImported,  \* may an imported row be promoted to a series?
    NoAccount, NoTx, NoBatch, NoSeries

ASSUME LedgerAssumption ==
    /\ Amounts \subseteq Nat \ {0}
    /\ Openings \subseteq Int
    /\ Targets \subseteq Int
    /\ PromotesImported \in BOOLEAN
    /\ IsFiniteSet(TxIds)
    /\ NoAccount \notin Accounts
    /\ NoTx \notin TxIds
    /\ NoBatch \notin Batches
    /\ NoSeries \notin Series

VARIABLES
    live,     \* ids of the rows in the transactions table
    tx,       \* the row of each id
    opening,  \* accounts.opening_balance
    balance,  \* accounts.balance, the cached balance
    posted,   \* history: what apply/revert calls for a row left in a balance
    batch,    \* the import_batches table
    req       \* the batch whose reconcile request is running, or NoBatch

vars == <<live, tx, opening, balance, posted, batch, req>>

\* No handler writes the third member of the enum, "transfer".
Types    == {"income", "expense"}
Statuses == {"settled", "pending"}

ReconStates == {"pending_review", "matched", "unmatched", "skipped", "edited",
                "accepted", "rejected"}
Reverted      == {"skipped", "rejected"}
PendingStates == {"pending_review", "unmatched"}

AllowedTransitions(source) ==
    CASE source \in PendingStates         -> {"matched", "edited", "skipped",
                                              "accepted", "rejected"}
      [] source \in {"matched", "edited"} -> {"accepted"}
      [] source = "accepted"              -> {"pending_review"}
      [] source \in Reverted              -> {}

Row == [account : Accounts, amount : Nat \ {0}, type : Types,
        status : Statuses, linked : TxIds \cup {NoTx}, state : ReconStates,
        batch : Batches \cup {NoBatch}, adjust : BOOLEAN,
        series : Series \cup {NoSeries}]

\* What tx holds at an id with no row.
Blank == [account |-> NoAccount, amount |-> 0, type |-> "income",
          status |-> "pending", linked |-> NoTx, state |-> "accepted",
          batch |-> NoBatch, adjust |-> FALSE, series |-> NoSeries]

NewRow(a, amt, ty, st) ==
    [account |-> a, amount |-> amt, type |-> ty, status |-> st,
     linked |-> NoTx, state |-> "accepted", batch |-> NoBatch,
     adjust |-> FALSE, series |-> NoSeries]

BatchHeader == [status : {"absent", "open", "closed"},
                rows : Nat, accepted : Nat, pending : Nat]

NoHeader == [status |-> "absent", rows |-> 0, accepted |-> 0, pending |-> 0]

Opposite(ty) == IF ty = "income" THEN "expense" ELSE "income"

-----------------------------------------------------------------------------
(* Link direction and membership of the cached balance. *)

\* The row at t and the row it links to link to each other: a transfer pair.
IsReciprocalPair(T, t) ==
    /\ T[t].linked # NoTx
    /\ T[t].linked # t
    /\ T[T[t].linked].linked = t

\* The link and state half of "is this amount inside accounts.balance": a
\* reconcile match is linked one way and out, a transfer leg is linked back
\* and in.
ContributesToCachedBalance(T, t) ==
    /\ T[t].state \notin Reverted
    /\ T[t].linked # NoTx => T[T[t].linked].linked = t

InBalance(T, t) == T[t].status = "settled" /\ ContributesToCachedBalance(T, t)

Signed(r) == IF r.type = "income" THEN r.amount ELSE 0 - r.amount

-----------------------------------------------------------------------------
(* apply_balance and revert_balance.  A handler reverts the rows R as they *)
(* were and applies the rows A as they are afterwards.                     *)

\* What the rows in S, valued as in T, move on account a for row t.
Entry(T, S, a, t) ==
    IF t \in S /\ T[t].account = a THEN Signed(T[t]) ELSE 0

\* The sum of f over the finite set S, an integer.
Total(f, S) ==
    LET sum == MapThenSumSet(LAMBDA x : f[x], S)
    IN  IF sum \in Int THEN sum ELSE 0

Rebook(R, A) ==
    /\ posted' = [a \in Accounts |-> [t \in TxIds |->
          posted[a][t] - Entry(tx, R, a, t) + Entry(tx', A, a, t)]]
    /\ balance' = [a \in Accounts |->
          balance[a] + Total([t \in R \cup A |->
             Entry(tx', A, a, t) - Entry(tx, R, a, t)], R \cup A)]

\* The subset of S that holds settled rows: what a create path applies.
Settled(S, st) == IF st = "settled" THEN S ELSE {}

-----------------------------------------------------------------------------
(* Creating rows. *)

Insert(new) ==  \* new: a function from fresh ids to rows
    /\ DOMAIN new \cap live = {}
    /\ live' = live \cup DOMAIN new
    /\ tx' = [t \in TxIds |-> IF t \in DOMAIN new THEN new[t] ELSE tx[t]]

CreateTransaction(t, a, amt, ty, st) ==
    /\ Insert([x \in {t} |-> NewRow(a, amt, ty, st)])
    /\ Rebook({}, Settled({t}, st))
    /\ UNCHANGED <<opening, batch, req>>

\* The two rows of a new transfer, e on account "from" and i on account "to".
TransferLegs(e, i, from, to, amt, st) ==
    [x \in {e, i} |->
       IF x = e THEN [NewRow(from, amt, "expense", st) EXCEPT !.linked = i]
                ELSE [NewRow(to, amt, "income", st) EXCEPT !.linked = e]]

CreateTransfer(e, i, from, to, amt, st) ==
    /\ e # i
    /\ from # to
    /\ Currency[from] = Currency[to]
    /\ Insert(TransferLegs(e, i, from, to, amt, st))
    /\ Rebook({}, Settled({e, i}, st))
    /\ UNCHANGED <<opening, batch, req>>

\* Mutant: an adjustment to the balance the account already has is written.
AlwaysNeedsAdjustment(a, target) == TRUE

NeedsAdjustment(a, target) == target # balance[a]

\* adjust_account_balance writes the difference as one synthetic row.
AdjustAccountBalance(t, a, target) ==
    LET delta == target - balance[a]
        row   == NewRow(a, IF delta > 0 THEN delta ELSE 0 - delta,
                        IF delta > 0 THEN "income" ELSE "expense", "settled")
    IN  /\ NeedsAdjustment(a, target)
        /\ Insert([x \in {t} |-> [row EXCEPT !.adjust = TRUE]])
        /\ Rebook({}, {t})
        /\ UNCHANGED <<opening, batch, req>>

\* Mutant: the new opening balance leaves the cached balance where it is.
UpdateOpeningOnly(a, o) ==
    /\ o # opening[a]
    /\ opening' = [opening EXCEPT ![a] = o]
    /\ UNCHANGED <<live, tx, balance, posted, batch, req>>

\* The opening-balance half of update_account: the live balance shifts along.
UpdateOpeningBalance(a, o) ==
    /\ o # opening[a]
    /\ opening' = [opening EXCEPT ![a] = o]
    /\ balance' = [balance EXCEPT ![a] = @ + o - opening[a]]
    /\ UNCHANGED <<live, tx, posted, batch, req>>

-----------------------------------------------------------------------------
(* Editing a row, with the rows of its series that follow it. *)

\* Mutant: a new account reaches the settled rows of the series too.
AllSiblings(t) ==
    {u \in live \ {t} : /\ tx[t].series # NoSeries
                        /\ tx[u].series = tx[t].series
                        /\ tx[u].linked = NoTx}

\* Pending rows of the series of t that a new account reaches.
PendingSiblings(t) ==
    {u \in live \ {t} : /\ tx[t].series # NoSeries
                        /\ tx[u].series = tx[t].series
                        /\ tx[u].status = "pending"
                        /\ tx[u].linked = NoTx}

\* Mutant: no row is known to be the target of a link.
NeverReferred(t) == FALSE

\* Some row links to t.
Referred(t) == \E u \in live : tx[u].linked = t

\* Those that a "this and future" amount may reach: no reverted row, no row
\* of another type, no row an imported row was matched against.
SeriesSyncTargets(t) ==
    {u \in PendingSiblings(t) :
        /\ tx[u].state \notin Reverted
        /\ tx[u].type = tx[t].type
        /\ ~Referred(u)}

\* F: the series rows still at the template's amount and after this one.
UpdateTransaction(t, a, amt, ty, st, F) ==
    LET r      == tx[t]
        p      == r.linked
        paired == IsReciprocalPair(tx, t)
        inBal  == ContributesToCachedBalance(tx, t)
        pBal   == IF paired /\ InBalance(tx, p) THEN {p} ELSE {}
        acctTo == IF a # r.account THEN PendingSiblings(t) ELSE {}
    IN  /\ t \in live
        /\ ~r.adjust
        /\ paired => /\ ty = r.type
                     /\ a # tx[p].account
                     /\ Currency[a] = Currency[tx[p].account]
        /\ F # {} => /\ r.status = "pending"
                     /\ r.state \notin Reverted
                     /\ r.linked = NoTx
                     /\ ty = r.type
                     /\ F \subseteq SeriesSyncTargets(t)
        /\ tx' = [u \in TxIds |->
                   CASE u = t ->
                          [r EXCEPT !.account = a, !.amount = amt,
                                    !.type = ty, !.status = st]
                     [] u # t /\ paired /\ u = p ->
                          [tx[u] EXCEPT !.amount = amt]
                     [] OTHER ->
                          [tx[u] EXCEPT
                             !.account = IF u \in acctTo THEN a ELSE @,
                             !.amount  = IF u \in F THEN amt ELSE @]]
        /\ Rebook(pBal \cup (IF r.status = "settled" /\ inBal THEN {t} ELSE {}),
                  pBal \cup (IF st = "settled" /\ inBal THEN {t} ELSE {}))
        /\ UNCHANGED <<live, opening, batch, req>>

-----------------------------------------------------------------------------
(* Linking and unlinking transfer legs. *)

\* Mutant: a manual adjustment may become a transfer leg.
LinkPairGuardsAnyRow(e, i) ==
    /\ e.type = "expense" /\ i.type = "income"
    /\ e.account # i.account
    /\ e.amount = i.amount
    /\ e.linked = NoTx /\ i.linked = NoTx
    /\ Currency[e.account] = Currency[i.account]

\* The guards of _link_pair on the expense row e and the income row i.
LinkPairGuards(e, i) ==
    /\ ~e.adjust /\ ~i.adjust
    /\ e.type = "expense" /\ i.type = "income"
    /\ e.account # i.account
    /\ e.amount = i.amount
    /\ e.linked = NoTx /\ i.linked = NoTx
    /\ Currency[e.account] = Currency[i.account]

PairExistingTransactions(e, i) ==
    /\ {e, i} \subseteq live
    /\ LinkPairGuards(tx[e], tx[i])
    /\ tx' = [tx EXCEPT ![e].linked = i, ![i].linked = e]
    /\ Rebook({}, {})
    /\ UNCHANGED <<live, opening, batch, req>>

\* Insert row t and link it with the existing row p, whichever leg it is.
InsertLinked(t, new, p) ==
    /\ t \notin live
    /\ IF new.type = "expense" THEN LinkPairGuards(new, tx[p])
                               ELSE LinkPairGuards(tx[p], new)
    /\ live' = live \cup {t}
    /\ tx' = [tx EXCEPT ![t] = [new EXCEPT !.linked = p], ![p].linked = t]

ConvertAndCreateLeg(source, t, dst) ==
    LET s == tx[source] IN
    /\ source \in live
    /\ s.series = NoSeries
    /\ s.state \notin Reverted
    /\ InsertLinked(t, NewRow(dst, s.amount, Opposite(s.type), s.status), source)
    /\ Rebook({}, Settled({t}, s.status))
    /\ UNCHANGED <<opening, batch, req>>

\* Mutant: only the row the request names is unlinked.
UnpairOneSide(t) ==
    /\ t \in live
    /\ IsReciprocalPair(tx, t)
    /\ tx' = [tx EXCEPT ![t].linked = NoTx]
    /\ Rebook({}, {})
    /\ UNCHANGED <<live, opening, batch, req>>

UnpairTransactions(t) ==
    LET p == tx[t].linked IN
    /\ t \in live
    /\ IsReciprocalPair(tx, t)
    /\ tx[t].type # tx[p].type
    /\ tx' = [tx EXCEPT ![t].linked = NoTx, ![p].linked = NoTx]
    /\ Rebook({}, {})
    /\ UNCHANGED <<live, opening, batch, req>>

-----------------------------------------------------------------------------
(* Confirmed rows of an import file.  They land settled and accepted. *)

\* The header counts one more row, or comes into being with it.
CountImported(b) ==
    batch' = [batch EXCEPT ![b] =
                [status   |-> IF @.status = "absent" THEN "open" ELSE @.status,
                 rows     |-> @.rows + 1,
                 accepted |-> @.accepted + 1,
                 pending  |-> @.pending]]

Imported(b, row) == [row EXCEPT !.batch = b]

ImportCreate(b, t, a, amt, ty) ==
    /\ Insert([x \in {t} |-> Imported(b, NewRow(a, amt, ty, "settled"))])
    /\ Rebook({}, {t})
    /\ CountImported(b)
    /\ UNCHANGED <<opening, req>>

ImportPairWithExisting(b, t, a, p) ==
    /\ p \in live
    /\ tx[p].series = NoSeries
    /\ tx[p].status = "settled"
    /\ InsertLinked(t, Imported(b, NewRow(a, tx[p].amount, Opposite(tx[p].type),
                                          "settled")), p)
    /\ Rebook({}, {t})
    /\ CountImported(b)
    /\ UNCHANGED <<opening, req>>

\* The leg on the import's account is the bank row, the other one is not.
ImportCreateTransferPair(b, e, i, from, to, amt, bankLeg) ==
    LET legs == TransferLegs(e, i, from, to, amt, "settled") IN
    /\ e # i
    /\ from # to
    /\ Currency[from] = Currency[to]
    /\ bankLeg \in {e, i}
    /\ Insert([x \in {e, i} |-> IF x = bankLeg THEN Imported(b, legs[x])
                                               ELSE legs[x]])
    /\ Rebook({}, {e, i})
    /\ CountImported(b)
    /\ UNCHANGED <<opening, req>>

-----------------------------------------------------------------------------
(* Deleting rows. *)

\* Mutant: the rows that pointed at a deleted row are left as they are.
NoOrphans(D) == {}

\* Rows that point at a deleted row and whose amount is not in the balance:
\* the foreign key is about to erase the link that says so.
Orphans(D) ==
    {u \in live \ D : /\ tx[u].linked \in D
                      /\ tx[u].state \notin Reverted
                      /\ ~ContributesToCachedBalance(tx, u)}

\* Mutant: the links to deleted rows stay.
WithoutButLinked(D) ==
    [u \in TxIds |->
       IF u \in D THEN Blank
       ELSE [tx[u] EXCEPT !.state = IF u \in Orphans(D) THEN "rejected" ELSE @]]

\* The table after the deletion of D: orphans rejected, links set to null.
Without(D) ==
    [u \in TxIds |->
       IF u \in D THEN Blank
       ELSE [tx[u] EXCEPT
               !.state  = IF u \in Orphans(D) THEN "rejected" ELSE @,
               !.linked = IF @ \in D THEN NoTx ELSE @]]

Minus(n, k) == IF n >= k THEN n - k ELSE 0

\* close_batch_if_complete: pending is a recount of the batch's rows.
CloseIfComplete(h, recount) ==
    IF h.status = "closed" \/ h.pending > 0 THEN h
    ELSE IF recount > 0 THEN [h EXCEPT !.pending = recount]
    ELSE [h EXCEPT !.status = "closed"]

PendingRows(T, L, b) ==
    {u \in L : T[u].batch = b /\ T[u].state \in PendingStates}

\* Mutant: the counters forget the orphans, which leave their state too.
DeletedRows(D, b) == {u \in D : tx[u].batch = b}

\* The rows of batch b whose state the deletion of D ends.
LostRows(D, b) == {u \in D \cup Orphans(D) : tx[u].batch = b}

\* apply_batch_settlement: counters first, then the close of each batch that
\* lost a pending row.
SettledHeader(D, b) ==
    LET gone   == {u \in D : tx[u].batch = b}
        lost   == LostRows(D, b)
        accNo  == Cardinality({u \in lost : tx[u].state = "accepted"})
        pendNo == Cardinality({u \in lost : tx[u].state \in PendingStates})
        h      == [batch[b] EXCEPT !.rows     = Minus(@, Cardinality(gone)),
                                   !.accepted = Minus(@, accNo),
                                   !.pending  = Minus(@, pendNo)]
    IN  IF pendNo = 0 THEN h
        ELSE CloseIfComplete(h,
               Cardinality(PendingRows(Without(D), live \ D, b)))

Remove(D) ==
    /\ live' = live \ D
    /\ batch' = [b \in Batches |-> SettledHeader(D, b)]
    /\ Rebook({t \in D : InBalance(tx, t)}, {})
    /\ UNCHANGED <<opening, req>>

\* A row takes its transfer partner along, never the target of a match.
WithPartner(t) == {t} \cup {p \in {tx[t].linked} : IsReciprocalPair(tx, t)}

DeleteTransaction(t) ==
    /\ t \in live
    /\ ~tx[t].adjust
    /\ tx' = Without(WithPartner(t))
    /\ Remove(WithPartner(t))

\* Manual adjustments among the requested rows are skipped, not refused.
BulkDeleteTransactions(ids) ==
    LET D == UNION {WithPartner(t) : t \in {u \in ids \cap live : ~tx[u].adjust}}
    IN  /\ D # {}
        /\ tx' = Without(D)
        /\ Remove(D)

-----------------------------------------------------------------------------
(* Post-import review: one reconcile request holds the lock of one batch   *)
(* and applies its transitions, at least one, in order; nothing else runs  *)
(* between them, and the batch may close only at the end of the request.   *)

FinishReconcileRequest ==
    /\ req # NoBatch
    /\ batch' = [batch EXCEPT ![req] =
                   CloseIfComplete(@, Cardinality(PendingRows(tx, live, req)))]
    /\ req' = NoBatch
    /\ UNCHANGED <<live, tx, opening, balance, posted>>

\* Counter and balance bookkeeping of a transition that leaves row at t.
\* The amount moves when its membership of the balance or its value changes.
Transition(t, row) ==
    LET source == tx[t].state
        target == row.state
        was    == InBalance(tx, t)
        T      == [tx EXCEPT ![t] = row]
        is     == InBalance(T, t)
        moves  == was # is \/ row.amount # tx[t].amount
        step(n, from, to) == IF from /\ ~to THEN Minus(n, 1)
                             ELSE IF ~from /\ to THEN n + 1 ELSE n
        b      == tx[t].batch
    IN  /\ t \in live
        /\ b # NoBatch
        /\ req \in {NoBatch, b}
        /\ target \in AllowedTransitions(source)
        /\ target \in Reverted => ~IsReciprocalPair(tx, t)
        /\ tx' = T
        /\ Rebook(IF moves /\ was THEN {t} ELSE {}, IF moves /\ is THEN {t} ELSE {})
        /\ batch' = [batch EXCEPT
             ![b].pending  = step(@, source \in PendingStates,
                                     target \in PendingStates),
             ![b].accepted = step(@, source = "accepted",
                                     target = "accepted")]
        /\ req' = b
        /\ UNCHANGED <<live, opening>>

ReconcileFlag(t, target) ==
    Transition(t, [tx[t] EXCEPT !.state = target])

ReconcileEdit(t, amt) ==
    /\ ~IsReciprocalPair(tx, t)
    /\ Transition(t, [tx[t] EXCEPT !.state = "edited", !.amount = amt])

\* Mutant: a row may be matched against a row that is matched against it.
ReconcileMatchBack(t, m) ==
    /\ m \in live \ {t}
    /\ tx[m].state \notin Reverted
    /\ ~IsReciprocalPair(tx, t)
    /\ Transition(t, [tx[t] EXCEPT !.state = "matched", !.linked = m])

ReconcileMatch(t, m) ==
    /\ m \in live \ {t}
    /\ tx[m].state \notin Reverted
    /\ tx[m].linked # t
    /\ ~IsReciprocalPair(tx, t)
    /\ Transition(t, [tx[t] EXCEPT !.state = "matched", !.linked = m])

-----------------------------------------------------------------------------
(* Recurring occurrences.  The template itself is left out: an occurrence  *)
(* may carry any account, amount and type.                                 *)

PromoteToRecurring(t, s) ==
    /\ t \in live
    /\ tx[t].linked = NoTx
    /\ tx[t].state \notin Reverted
    /\ ~tx[t].adjust
    /\ tx[t].series = NoSeries
    /\ tx[t].batch = NoBatch \/ PromotesImported
    /\ \A u \in live : tx[u].series # s
    /\ tx' = [tx EXCEPT ![t].series = s]
    /\ Rebook({}, {})
    /\ UNCHANGED <<live, opening, batch, req>>

\* How an occurrence may be written: settled, pending, or already skipped.
OccurrenceModes == {<<"settled", "accepted">>, <<"pending", "accepted">>,
                    <<"pending", "skipped">>}

CreateOccurrence(s, t, a, amt, ty, mode) ==
    /\ Insert([x \in {t} |-> [NewRow(a, amt, ty, mode[1]) EXCEPT
                                !.series = s, !.state = mode[2]]])
    /\ Rebook({}, Settled({t}, mode[1]))
    /\ UNCHANGED <<opening, batch, req>>

CreateTransferOccurrence(s, e, i, from, to, amt, mode) ==
    LET legs == TransferLegs(e, i, from, to, amt, mode[1]) IN
    /\ e # i
    /\ from # to
    /\ Currency[from] = Currency[to]
    /\ Insert([x \in {e, i} |-> [legs[x] EXCEPT !.series = s, !.state = mode[2]]])
    /\ Rebook({}, Settled({e, i}, mode[1]))
    /\ UNCHANGED <<opening, batch, req>>

SkipOccurrence(t) ==
    LET r == tx[t] IN
    /\ t \in live
    /\ r.series # NoSeries /\ r.status = "pending" /\ r.state = "accepted"
    /\ r.batch = NoBatch /\ r.linked = NoTx
    /\ ~Referred(t)
    /\ tx' = [tx EXCEPT ![t].state = "skipped"]
    /\ Rebook({}, {})
    /\ UNCHANGED <<live, opening, batch, req>>

\* Mutant: a skipped occurrence is settled with the others.
AwaitsSettlementOrSkipped(t) == tx[t].series # NoSeries /\ tx[t].status = "pending"

\* Rows of auto-settling templates that are not yet paid.
AwaitsSettlement(t) ==
    tx[t].series # NoSeries /\ tx[t].status = "pending" /\ tx[t].state \notin Reverted

\* The rows of the due set that settle: a leg waits for a partner that is
\* itself pending and not due yet.
AutoSettleUnits(due) ==
    {t \in due : ~ /\ IsReciprocalPair(tx, t)
                   /\ tx[t].linked \notin due
                   /\ tx[tx[t].linked].status = "pending"
                   /\ tx[tx[t].linked].state \notin Reverted}

SettleDueAuto(due) ==
    LET S == AutoSettleUnits(due) IN
    /\ due \subseteq {t \in live : AwaitsSettlement(t)}
    /\ S # {}
    /\ tx' = [t \in TxIds |-> IF t \in S THEN [tx[t] EXCEPT !.status = "settled"]
                              ELSE tx[t]]
    /\ Rebook({}, S)
    /\ UNCHANGED <<live, opening, batch, req>>

\* future: the pending rows of the series dated today or later.  They go,
\* except a leg whose partner stays; then the survivors leave the series.
StopRecurring(s, future) ==
    LET D == {t \in future : IsReciprocalPair(tx, t) => tx[t].linked \in future}
    IN  /\ \E t \in live : tx[t].series = s
        /\ future \subseteq {t \in live : tx[t].series = s /\ tx[t].status = "pending"}
        /\ tx' = [u \in TxIds |-> [Without(D)[u] EXCEPT
                                     !.series = IF @ = s THEN NoSeries ELSE @]]
        /\ Remove(D)

-----------------------------------------------------------------------------
Init ==
    /\ live = {}
    /\ tx = [t \in TxIds |-> Blank]
    /\ opening \in [Accounts -> Openings]
    /\ balance = opening
    /\ posted = [a \in Accounts |-> [t \in TxIds |-> 0]]
    /\ batch = [b \in Batches |-> NoHeader]
    /\ req = NoBatch

\* A reconcile request is one database transaction: nothing runs inside it.
Idle == req = NoBatch

Writes ==
    \/ \E t \in TxIds, a \in Accounts, amt \in Amounts, ty \in Types, st \in Statuses :
          Idle /\ CreateTransaction(t, a, amt, ty, st)
    \/ \E e, i \in TxIds, from, to \in Accounts, amt \in Amounts, st \in Statuses :
          Idle /\ CreateTransfer(e, i, from, to, amt, st)
    \/ \E t \in TxIds, a \in Accounts, target \in Targets :
          Idle /\ AdjustAccountBalance(t, a, target)
    \/ \E a \in Accounts, o \in Openings : Idle /\ UpdateOpeningBalance(a, o)
    \/ \E t \in TxIds, a \in Accounts, amt \in Amounts, ty \in Types, st \in Statuses :
          \E F \in SUBSET SeriesSyncTargets(t) :
             Idle /\ UpdateTransaction(t, a, amt, ty, st, F)
    \/ \E e, i \in TxIds : Idle /\ PairExistingTransactions(e, i)
    \/ \E source, t \in TxIds, dst \in Accounts : Idle /\ ConvertAndCreateLeg(source, t, dst)
    \/ \E t \in TxIds : Idle /\ UnpairTransactions(t)
    \/ \E t \in TxIds : Idle /\ DeleteTransaction(t)
    \/ \E ids \in SUBSET TxIds : Idle /\ BulkDeleteTransactions(ids)

Imports ==
    \E b \in Batches :
      \/ \E t \in TxIds, a \in Accounts, amt \in Amounts, ty \in Types :
            Idle /\ ImportCreate(b, t, a, amt, ty)
      \/ \E t, p \in TxIds, a \in Accounts : Idle /\ ImportPairWithExisting(b, t, a, p)
      \/ \E e, i \in TxIds, from, to \in Accounts, amt \in Amounts :
            \E bankLeg \in {e, i} :
               Idle /\ ImportCreateTransferPair(b, e, i, from, to, amt, bankLeg)

Reviews ==
    \/ \E t \in TxIds, target \in {"accepted", "pending_review"} \cup Reverted :
          ReconcileFlag(t, target)
    \/ \E t \in TxIds, amt \in Amounts : ReconcileEdit(t, amt)
    \/ \E t, m \in TxIds : ReconcileMatch(t, m)
    \/ FinishReconcileRequest

Recurrences ==
    \/ \E t \in TxIds, s \in Series : Idle /\ PromoteToRecurring(t, s)
    \/ \E s \in Series, t \in TxIds, a \in Accounts, amt \in Amounts, ty \in Types,
          mode \in OccurrenceModes : Idle /\ CreateOccurrence(s, t, a, amt, ty, mode)
    \/ \E s \in Series, e, i \in TxIds, from, to \in Accounts, amt \in Amounts,
          mode \in OccurrenceModes : Idle /\ CreateTransferOccurrence(s, e, i, from, to, amt, mode)
    \/ \E t \in TxIds : Idle /\ SkipOccurrence(t)
    \/ \E due \in SUBSET TxIds : Idle /\ SettleDueAuto(due)
    \/ \E s \in Series, future \in SUBSET TxIds : Idle /\ StopRecurring(s, future)

Next == Writes \/ Imports \/ Reviews \/ Recurrences

Spec == Init /\ [][Next]_vars

-----------------------------------------------------------------------------
(* Properties. *)

\* Every row, header and balance has its shape, and an id without a row holds
\* no data (the columns of models/transaction.py and models/import_batch.py).
TypeOK ==
    /\ live \subseteq TxIds
    /\ DOMAIN tx = TxIds
    /\ \A t \in TxIds : IF t \in live THEN tx[t] \in Row ELSE tx[t] = Blank
    /\ opening \in [Accounts -> Int]
    /\ balance \in [Accounts -> Int]
    /\ posted \in [Accounts -> [TxIds -> Int]]
    /\ batch \in [Batches -> BatchHeader]
    /\ req \in Batches \cup {NoBatch}

\* A link names an existing row and never the row itself: the foreign key, and
\* "no writer creates" a self-link (is_reciprocal_pair).
LinksResolve ==
    \A t \in live : tx[t].linked # NoTx => tx[t].linked \in live \ {t}

\* What apply_balance and revert_balance calls have left of each row in each
\* account is exactly the row's own contribution: its signed amount, on its
\* own account, when balance_contribution_filter keeps it; otherwise nothing.
PostedExact ==
    \A a \in Accounts, t \in TxIds :
       posted[a][t] = IF t \in live /\ InBalance(tx, t) /\ tx[t].account = a
                      THEN Signed(tx[t]) ELSE 0

\* reconcile_account finds no drift: the cached balance of every account is
\* its opening balance plus the settled rows the filter keeps.
BalanceConsistent ==
    \A a \in Accounts :
       LET kept == {t \in live : InBalance(tx, t) /\ tx[t].account = a}
       IN  balance[a] = opening[a] + Total([t \in kept |-> Signed(tx[t])], kept)

\* Two rows that link to each other always are a transfer: opposite types,
\* different accounts of one currency, equal amounts, no manual adjustment.
\* No sequence of edits, matches and unlinks forges a pair or bends one.
PairShape ==
    \A t \in live : IsReciprocalPair(tx, t) =>
       LET r == tx[t]
           p == tx[tx[t].linked]
       IN  /\ r.type # p.type
           /\ r.account # p.account
           /\ Currency[r.account] = Currency[p.account]
           /\ r.amount = p.amount
           /\ ~r.adjust

\* Every row has its type, its link leads to another row, and two rows that link
\* to each other are a transfer: no sequence of edits, matches, unlinks and
\* deletions forges a pair, bends one or leaves half of one.
RowsSound == TypeOK /\ LinksResolve /\ PairShape

\* A link that is not returned is a reconcile match, and only an imported row
\* carries one: deleting, unlinking or re-matching one leg of a transfer never
\* leaves the other one linked, and out of the balance, on its own.
OneWayLinkIsMatch ==
    \A t \in live :
       tx[t].linked # NoTx /\ ~IsReciprocalPair(tx, t) => tx[t].batch # NoBatch

\* A row of a series was not imported, unless imported rows may be promoted.
RecurringNotImported ==
    \A t \in live : tx[t].series # NoSeries => tx[t].batch = NoBatch

\* The denormalised counters of a batch equal a recount of its rows.
CountersExact ==
    \A b \in Batches :
       LET rows == {t \in live : tx[t].batch = b} IN
       /\ batch[b].rows = Cardinality(rows)
       /\ batch[b].accepted = Cardinality({t \in rows : tx[t].state = "accepted"})
       /\ batch[b].pending = Cardinality(PendingRows(tx, live, b))

\* A manual balance adjustment is one immutable record: no step edits, links,
\* reviews or deletes it.
AdjustmentsImmutable ==
    [][\A t \in live : tx[t].adjust => t \in live' /\ tx'[t] = tx[t]]_vars

\* Skipped and rejected are terminal: while the row exists it stays reverted,
\* and it never brings its amount back into a balance.
RevertedIsTerminal ==
    [][\A t \in live \cap live' :
          tx[t].state \in Reverted => tx'[t].state = tx[t].state]_vars

\* "A pending recurring row never carries a one-way reconcile link (those live
\* on the imported row)", on which the series sync and the auto-settle sweep
\* rely.
PendingRecurringHasNoMatch ==
    \A t \in live :
       tx[t].series # NoSeries /\ tx[t].status = "pending" /\ tx[t].linked # NoTx
          => IsReciprocalPair(tx, t)

\* An expected occurrence that a bank row was matched against stays counted:
\* no sequence of skips, matches, edits and settles takes it out of the
\* reports, which would take the payment out of them altogether.
MatchedOccurrenceCounts ==
    \A t \in live :
       tx[t].linked # NoTx /\ ~IsReciprocalPair(tx, t) /\ tx[t].state \notin Reverted
          => LET m == tx[tx[t].linked]
             IN  m.series # NoSeries /\ m.batch = NoBatch => m.state \notin Reverted

\* A pending row of a series carries no match of its own, so that the sweep may
\* settle it, and a row that a bank row was matched against stays counted.
RecurringConsistent == PendingRecurringHasNoMatch /\ MatchedOccurrenceCounts

=============================================================================
