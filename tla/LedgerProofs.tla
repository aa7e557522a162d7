---------------------------- MODULE LedgerProofs ----------------------------
(***************************************************************************)
(* TLAPS proofs about Ledger: type correctness; what each row has inside a *)
(* cached balance is exactly its contribution; no sequence of handlers     *)
(* forges a transfer pair or bends one, a manual adjustment never changes, *)
(* a row that review took out stays out, cached balances and batch         *)
(* counters are right, and a matched occurrence stays counted.             *)
(***************************************************************************)
EXTENDS Ledger, SumTheorems

-----------------------------------------------------------------------------
(* Facts about the operators. *)

\* The sum by which a handler moves a balance is an integer.
LEMMA TotalInt == ASSUME NEW f, NEW S PROVE Total(f, S) \in Int
  BY DEF Total

\* A row's signed amount is an integer.
LEMMA SignedInt ==
  ASSUME NEW r, r \in Row \/ r = Blank PROVE Signed(r) \in Int
  BY DEF Signed, Row, Blank

\* What a handler moves on an account for a row is an integer.
LEMMA EntryInt ==
  ASSUME NEW T, NEW S, NEW a, NEW t, T[t] \in Row \/ T[t] = Blank
  PROVE  Entry(T, S, a, t) \in Int
  BY SignedInt, T[t] \in Row \/ T[t] = Blank DEF Entry

\* Sets of rows are finite, so the counters recount them with a natural number.
LEMMA RowCount ==
  ASSUME NEW S, S \subseteq TxIds PROVE Cardinality(S) \in Nat
  <1>1. IsFiniteSet(TxIds) BY LedgerAssumption
  <1>2. IsFiniteSet(S) BY <1>1, FS_Subset
  <1> QED BY <1>2, FS_CardinalityType

\* close_batch_if_complete returns a batch header.
LEMMA CloseType ==
  ASSUME NEW h \in BatchHeader, NEW n \in Nat
  PROVE  CloseIfComplete(h, n) \in BatchHeader
  BY DEF CloseIfComplete, BatchHeader

\* The posted amounts and balances that Rebook writes are integers.
LEMMA RebookType ==
  ASSUME posted \in [Accounts -> [TxIds -> Int]], balance \in [Accounts -> Int],
         \A t \in TxIds : tx[t] \in Row \/ tx[t] = Blank,
         \A t \in TxIds : tx'[t] \in Row \/ tx'[t] = Blank,
         NEW R, NEW A, Rebook(R, A)
  PROVE  /\ posted' \in [Accounts -> [TxIds -> Int]]
         /\ balance' \in [Accounts -> Int]
  <1>1. ASSUME NEW a \in Accounts, NEW t \in TxIds
        PROVE  posted[a][t] - Entry(tx, R, a, t) + Entry(tx', A, a, t) \in Int
    <2>1. Entry(tx, R, a, t) \in Int BY EntryInt
    <2>2. Entry(tx', A, a, t) \in Int BY EntryInt
    <2> QED BY <2>1, <2>2
  <1>2. posted' \in [Accounts -> [TxIds -> Int]] BY <1>1 DEF Rebook
  <1>3. ASSUME NEW a \in Accounts PROVE balance'[a] \in Int
    <2> DEFINE d == Total([t \in R \cup A |->
                      Entry(tx', A, a, t) - Entry(tx, R, a, t)], R \cup A)
    <2>1. d \in Int BY TotalInt
    <2>2. balance'[a] = balance[a] + d BY DEF Rebook
    <2> QED BY <2>1, <2>2
  <1>4. balance' = [a \in Accounts |-> balance'[a]] BY DEF Rebook
  <1> QED BY <1>2, <1>3, <1>4

\* If every row a handler reverts or applies is moved exactly as it leaves or
\* enters the balance, and every other row keeps its contribution, then the
\* posted amounts stay exact.
LEMMA RebookExact ==
  ASSUME posted \in [Accounts -> [TxIds -> Int]],
         \A t \in TxIds : tx[t] \in Row \/ tx[t] = Blank,
         \A t \in TxIds : tx'[t] \in Row \/ tx'[t] = Blank,
         PostedExact,
         NEW R, NEW A, Rebook(R, A),
         \A t \in TxIds :
            \/ /\ t \in R <=> (t \in live /\ InBalance(tx, t))
               /\ t \in A <=> (t \in live' /\ InBalance(tx', t))
            \/ /\ t \notin R /\ t \notin A
               /\ (t \in live /\ InBalance(tx, t)) <=> (t \in live' /\ InBalance(tx', t))
               /\ (t \in live /\ InBalance(tx, t)) =>
                     /\ tx'[t].account = tx[t].account
                     /\ tx'[t].amount = tx[t].amount
                     /\ tx'[t].type = tx[t].type
  PROVE  PostedExact'
  <1> SUFFICES ASSUME NEW a \in Accounts, NEW t \in TxIds
               PROVE  posted'[a][t] =
                        IF t \in live' /\ InBalance(tx', t) /\ tx'[t].account = a
                        THEN Signed(tx'[t]) ELSE 0
    BY DEF PostedExact, InBalance, ContributesToCachedBalance
  <1>1. posted'[a][t] = posted[a][t] - Entry(tx, R, a, t) + Entry(tx', A, a, t)
    BY DEF Rebook
  <1>2. posted[a][t] = IF t \in live /\ InBalance(tx, t) /\ tx[t].account = a
                       THEN Signed(tx[t]) ELSE 0
    BY DEF PostedExact
  <1>3. /\ Signed(tx[t]) \in Int
        /\ Signed(tx'[t]) \in Int
    BY SignedInt
  <1>4. CASE /\ t \in R <=> (t \in live /\ InBalance(tx, t))
             /\ t \in A <=> (t \in live' /\ InBalance(tx', t))
    BY <1>1, <1>2, <1>3, <1>4 DEF Entry
  <1>5. CASE /\ t \notin R /\ t \notin A
             /\ (t \in live /\ InBalance(tx, t)) <=> (t \in live' /\ InBalance(tx', t))
             /\ (t \in live /\ InBalance(tx, t)) =>
                   /\ tx'[t].account = tx[t].account
                   /\ tx'[t].amount = tx[t].amount
                   /\ tx'[t].type = tx[t].type
    <2>1. posted'[a][t] = posted[a][t]
      BY <1>1, <1>2, <1>3, <1>5 DEF Entry
    <2> QED BY <2>1, <1>2, <1>5 DEF Signed
  <1> QED BY <1>4, <1>5

-----------------------------------------------------------------------------
(* Type correctness.  Links resolve belongs to the induction: a handler    *)
(* writes to the partner of a row, which must be a row.                    *)

\* The table half of the type invariant.
RowsOK ==
    /\ live \subseteq TxIds
    /\ DOMAIN tx = TxIds
    /\ \A t \in TxIds : IF t \in live THEN tx[t] \in Row ELSE tx[t] = Blank

\* The type invariant after a handler that keeps the table in shape and moves
\* money only through Rebook.
LEMMA TypeFromRows ==
  ASSUME TypeOK, RowsOK', NEW R, NEW A, Rebook(R, A), opening' = opening,
         batch' \in [Batches -> BatchHeader], req' \in Batches \cup {NoBatch}
  PROVE  TypeOK'
  <1>1. /\ posted' \in [Accounts -> [TxIds -> Int]]
        /\ balance' \in [Accounts -> Int]
    <2>1. \A t \in TxIds : tx[t] \in Row \/ tx[t] = Blank BY DEF TypeOK
    <2>2. \A t \in TxIds : tx'[t] \in Row \/ tx'[t] = Blank BY DEF RowsOK
    <2>3. posted \in [Accounts -> [TxIds -> Int]] /\ balance \in [Accounts -> Int]
      BY DEF TypeOK
    <2> QED BY <2>1, <2>2, <2>3, RebookType
  <1> QED BY <1>1 DEF TypeOK, RowsOK

\* What one step keeps.  Only the auto-settle sweep and the promotion of a row
\* to a series need more than this for the last two parts.
Keeps ==
    /\ TypeOK'
    /\ LinksResolve'
    /\ OneWayLinkIsMatch => OneWayLinkIsMatch'
    /\ RecurringNotImported => RecurringNotImported'
    /\ PostedExact => PostedExact'

\* Rows fit to be inserted when the rows A among them are applied: their links
\* stay among themselves and are returned, the settled ones are the applied
\* ones, and no row of a series is an imported one.
GoodNew(new, A) ==
    /\ DOMAIN new \subseteq TxIds
    /\ A \subseteq DOMAIN new
    /\ \A x \in DOMAIN new :
         /\ new[x] \in Row
         /\ new[x].linked # NoTx => /\ new[x].linked \in DOMAIN new \ {x}
                                    /\ new[new[x].linked].linked = x
         /\ x \in A <=> new[x].status = "settled"
         /\ x \in A => new[x].state \notin Reverted
         /\ new[x].series # NoSeries => new[x].batch = NoBatch

\* Every handler that only inserts such rows keeps the invariant.
LEMMA InsertKeeps ==
  ASSUME TypeOK, LinksResolve, NEW new, NEW A, GoodNew(new, A), Insert(new),
         Rebook({}, A), opening' = opening,
         batch' \in [Batches -> BatchHeader], req' \in Batches \cup {NoBatch}
  PROVE  Keeps
  <1>1. /\ live' = live \cup DOMAIN new
        /\ DOMAIN new \cap live = {}
        /\ \A x \in DOMAIN new : tx'[x] = new[x]
        /\ \A x \in TxIds \ DOMAIN new : tx'[x] = tx[x]
        /\ DOMAIN tx' = TxIds
    BY DEF Insert, GoodNew
  <1>2. RowsOK' BY <1>1 DEF RowsOK, TypeOK, GoodNew
  <1>3. TypeOK' BY <1>2, TypeFromRows
  <1>4. ASSUME NEW t \in live, tx[t].linked # NoTx
        PROVE  /\ tx[t].linked \in live /\ tx[t].linked # t
               /\ tx'[tx[t].linked] = tx[tx[t].linked]
    BY <1>1, <1>4 DEF LinksResolve, TypeOK
  <1>5. \A t \in live : tx'[t] = tx[t] /\ t \in TxIds BY <1>1 DEF TypeOK
  <1>6. ASSUME NEW t \in DOMAIN new, new[t].linked # NoTx
        PROVE  /\ tx'[t].linked \in live' /\ tx'[t].linked # t
               /\ tx'[tx'[t].linked].linked = t
    BY <1>1, <1>6 DEF GoodNew
  <1>7. LinksResolve'
    <2> SUFFICES ASSUME NEW t \in live', tx'[t].linked # NoTx
                 PROVE  tx'[t].linked \in live' \ {t}
      BY DEF LinksResolve
    <2>1. CASE t \in DOMAIN new BY <2>1, <1>1, <1>6
    <2>2. CASE t \in live BY <2>2, <1>1, <1>4, <1>5
    <2> QED BY <2>1, <2>2, <1>1
  <1>8. ASSUME OneWayLinkIsMatch PROVE OneWayLinkIsMatch'
    <2> SUFFICES ASSUME NEW t \in live', tx'[t].linked # NoTx,
                        ~(tx'[t].linked # t /\ tx'[tx'[t].linked].linked = t)
                 PROVE  tx'[t].batch # NoBatch
      BY DEF OneWayLinkIsMatch, IsReciprocalPair
    <2>1. t \notin DOMAIN new BY <1>1, <1>6
    <2>2. t \in live BY <2>1, <1>1
    <2>3. tx'[t] = tx[t] BY <2>2, <1>5
    <2>4. tx'[tx[t].linked] = tx[tx[t].linked] BY <2>2, <2>3, <1>4
    <2> QED BY <2>2, <2>3, <2>4, <1>8 DEF OneWayLinkIsMatch, IsReciprocalPair
  <1>9. ASSUME RecurringNotImported PROVE RecurringNotImported'
    BY <1>1, <1>5, <1>9 DEF RecurringNotImported, GoodNew
  <1>10. ASSUME PostedExact PROVE PostedExact'
    <2>1. ASSUME NEW t \in TxIds, t \in DOMAIN new
          PROVE  /\ t \in {} <=> (t \in live /\ InBalance(tx, t))
                 /\ t \in A <=> (t \in live' /\ InBalance(tx', t))
      BY <2>1, <1>1, <1>6 DEF GoodNew, InBalance, ContributesToCachedBalance
    <2>2. ASSUME NEW t \in TxIds, t \notin DOMAIN new
          PROVE  /\ t \notin {} /\ t \notin A
                 /\ (t \in live /\ InBalance(tx, t)) <=> (t \in live' /\ InBalance(tx', t))
                 /\ (t \in live /\ InBalance(tx, t)) =>
                     /\ tx'[t].account = tx[t].account
                     /\ tx'[t].amount = tx[t].amount
                     /\ tx'[t].type = tx[t].type
      <3>1. CASE t \in live
        BY <2>2, <3>1, <1>1, <1>4, <1>5 DEF GoodNew, InBalance, ContributesToCachedBalance
      <3>2. CASE t \notin live BY <2>2, <3>2, <1>1 DEF GoodNew
      <3> QED BY <3>1, <3>2
    <2>3. /\ posted \in [Accounts -> [TxIds -> Int]]
          /\ \A t \in TxIds : tx[t] \in Row \/ tx[t] = Blank
          /\ \A t \in TxIds : tx'[t] \in Row \/ tx'[t] = Blank
      BY <1>2 DEF TypeOK, RowsOK
    <2> QED BY <2>1, <2>2, <2>3, <1>10, RebookExact
  <1> QED BY <1>3, <1>7, <1>8, <1>9, <1>10 DEF Keeps

\* create_transaction keeps the invariant.
LEMMA CreateTransactionKeeps ==
  ASSUME TypeOK, LinksResolve, NEW t \in TxIds, NEW a \in Accounts,
         NEW amt \in Amounts, NEW ty \in Types, NEW st \in Statuses,
         CreateTransaction(t, a, amt, ty, st)
  PROVE  Keeps
  <1> DEFINE row == NewRow(a, amt, ty, st)
             new == [x \in {t} |-> row]
             A   == Settled({t}, st)
  <1>1. /\ row \in Row /\ row.linked = NoTx /\ row.status = st
        /\ row.state = "accepted" /\ row.series = NoSeries
    BY LedgerAssumption DEF NewRow, Row, Types, Statuses, ReconStates
  <1>2. GoodNew(new, A)
    <2> HIDE DEF row
    <2> QED BY <1>1 DEF GoodNew, Settled, Reverted
  <1>3. Insert(new) /\ Rebook({}, A) BY DEF CreateTransaction
  <1>4. opening' = opening /\ batch' = batch /\ req' = req BY DEF CreateTransaction
  <1> HIDE DEF new, A
  <1> QED BY <1>2, <1>3, <1>4, InsertKeeps DEF TypeOK

\* Overwriting the link of a row gives a row with that link.
LEMMA SetLinked ==
  ASSUME NEW r \in Row, NEW l \in TxIds \cup {NoTx}
  PROVE  /\ [r EXCEPT !.linked = l] \in Row
         /\ [r EXCEPT !.linked = l].linked = l
         /\ [r EXCEPT !.linked = l].status = r.status
         /\ [r EXCEPT !.linked = l].state = r.state
         /\ [r EXCEPT !.linked = l].series = r.series
         /\ [r EXCEPT !.linked = l].batch = r.batch
  BY DEF Row

\* The legs of a transfer are fresh accepted rows that link to each other.
GoodLegs(legs, e, i, st) ==
    /\ DOMAIN legs = {e, i}
    /\ \A x \in {e, i} :
          /\ legs[x] \in Row
          /\ legs[x].linked \in {e, i} \ {x}
          /\ legs[legs[x].linked].linked = x
          /\ legs[x].status = st
          /\ legs[x].state = "accepted"
          /\ legs[x].series = NoSeries
          /\ legs[x].batch = NoBatch

\* TransferLegs builds the two legs of a transfer.
LEMMA TransferLegsType ==
  ASSUME NEW e \in TxIds, NEW i \in TxIds, e # i, NEW from \in Accounts,
         NEW to \in Accounts, NEW amt \in Amounts, NEW st \in Statuses
  PROVE  GoodLegs(TransferLegs(e, i, from, to, amt, st), e, i, st)
  <1> DEFINE x1 == NewRow(from, amt, "expense", st)
             x2 == NewRow(to, amt, "income", st)
             legs == TransferLegs(e, i, from, to, amt, st)
  <1>1. /\ x1 \in Row /\ x2 \in Row
        /\ x1.status = st /\ x1.state = "accepted" /\ x1.series = NoSeries
        /\ x1.batch = NoBatch
        /\ x2.status = st /\ x2.state = "accepted" /\ x2.series = NoSeries
        /\ x2.batch = NoBatch
    BY LedgerAssumption DEF NewRow, Row, Types, Statuses, ReconStates
  <1>2. legs = [x \in {e, i} |-> IF x = e THEN [x1 EXCEPT !.linked = i]
                                          ELSE [x2 EXCEPT !.linked = e]]
    BY DEF TransferLegs
  <1> HIDE DEF x1, x2, legs
  <1>3. /\ legs[e] \in Row /\ legs[e].linked = i /\ legs[e].status = st
        /\ legs[e].state = "accepted" /\ legs[e].series = NoSeries
        /\ legs[e].batch = NoBatch
    <2>1. legs[e] = [x1 EXCEPT !.linked = i] BY <1>2
    <2> QED BY <2>1, <1>1, SetLinked
  <1>4. /\ legs[i] \in Row /\ legs[i].linked = e /\ legs[i].status = st
        /\ legs[i].state = "accepted" /\ legs[i].series = NoSeries
        /\ legs[i].batch = NoBatch
    <2>1. legs[i] = [x2 EXCEPT !.linked = e] BY <1>2
    <2> QED BY <2>1, <1>1, SetLinked
  <1>5. DOMAIN legs = {e, i} BY <1>2
  <1>6. GoodLegs(legs, e, i, st) BY <1>3, <1>4, <1>5 DEF GoodLegs
  <1> QED BY <1>6 DEF legs

\* create_transfer keeps the invariant.
LEMMA CreateTransferKeeps ==
  ASSUME TypeOK, LinksResolve, NEW e \in TxIds, NEW i \in TxIds,
         NEW from \in Accounts, NEW to \in Accounts, NEW amt \in Amounts,
         NEW st \in Statuses, CreateTransfer(e, i, from, to, amt, st)
  PROVE  Keeps
  <1> DEFINE new == TransferLegs(e, i, from, to, amt, st)
             A   == Settled({e, i}, st)
  <1>1. GoodLegs(new, e, i, st) BY TransferLegsType DEF CreateTransfer
  <1>2. Insert(new) /\ Rebook({}, A) BY DEF CreateTransfer
  <1>3. opening' = opening /\ batch' = batch /\ req' = req BY DEF CreateTransfer
  <1> HIDE DEF new
  <1>4. GoodNew(new, A) BY <1>1 DEF GoodNew, GoodLegs, Settled, Reverted
  <1> HIDE DEF A
  <1> QED BY <1>2, <1>3, <1>4, InsertKeeps DEF TypeOK

\* adjust_account_balance keeps the invariant: the delta it writes is not zero.
LEMMA AdjustKeeps ==
  ASSUME TypeOK, LinksResolve, NEW t \in TxIds, NEW a \in Accounts,
         NEW target \in Targets, AdjustAccountBalance(t, a, target)
  PROVE  Keeps
  <1> DEFINE delta == target - balance[a]
             amt   == IF delta > 0 THEN delta ELSE 0 - delta
             ty    == IF delta > 0 THEN "income" ELSE "expense"
             row   == NewRow(a, amt, ty, "settled")
             adj   == [row EXCEPT !.adjust = TRUE]
             new   == [x \in {t} |-> adj]
  <1>0. delta \in Int /\ delta # 0
    <2>1. target \in Int /\ balance[a] \in Int BY LedgerAssumption DEF TypeOK
    <2>2. target # balance[a] BY DEF AdjustAccountBalance, NeedsAdjustment
    <2> QED BY <2>1, <2>2
  <1>1. amt \in Nat \ {0} /\ ty \in Types
    BY <1>0 DEF Types
  <1>2. Insert(new) /\ Rebook({}, {t}) BY DEF AdjustAccountBalance
  <1>3. opening' = opening /\ batch' = batch /\ req' = req BY DEF AdjustAccountBalance
  <1> HIDE DEF amt, ty
  <1>4. /\ row \in Row /\ row.linked = NoTx /\ row.status = "settled"
        /\ row.state = "accepted" /\ row.series = NoSeries
    BY <1>1, LedgerAssumption DEF NewRow, Row, Statuses, ReconStates
  <1> HIDE DEF row
  <1>5. /\ adj \in Row /\ adj.linked = NoTx /\ adj.status = "settled"
        /\ adj.state = "accepted" /\ adj.series = NoSeries
    BY <1>4 DEF Row
  <1> HIDE DEF adj
  <1>6. GoodNew(new, {t}) BY <1>5 DEF GoodNew, Reverted
  <1> HIDE DEF new
  <1> QED BY <1>2, <1>3, <1>6, InsertKeeps DEF TypeOK

\* The header that counts one more imported row is a header.
LEMMA CountImportedType ==
  ASSUME TypeOK, NEW b \in Batches, CountImported(b)
  PROVE  batch' \in [Batches -> BatchHeader]
  <1> DEFINE h == batch[b]
             n == [status   |-> IF h.status = "absent" THEN "open" ELSE h.status,
                   rows     |-> h.rows + 1,
                   accepted |-> h.accepted + 1,
                   pending  |-> h.pending]
  <1>1. h \in BatchHeader BY DEF TypeOK
  <1>2. n \in BatchHeader BY <1>1 DEF BatchHeader
  <1>3. batch' = [batch EXCEPT ![b] = n] BY DEF CountImported
  <1> HIDE DEF n
  <1> QED BY <1>2, <1>3 DEF TypeOK

\* Setting the batch of a row gives a row.
LEMMA SetBatch ==
  ASSUME NEW r \in Row, NEW b \in Batches
  PROVE  /\ [r EXCEPT !.batch = b] \in Row
         /\ [r EXCEPT !.batch = b].linked = r.linked
         /\ [r EXCEPT !.batch = b].status = r.status
         /\ [r EXCEPT !.batch = b].state = r.state
         /\ [r EXCEPT !.batch = b].series = r.series
         /\ [r EXCEPT !.batch = b].batch = b
         /\ [r EXCEPT !.batch = b].type = r.type
  BY DEF Row

\* A "create" row of an import keeps the invariant.
LEMMA ImportCreateKeeps ==
  ASSUME TypeOK, LinksResolve, NEW b \in Batches, NEW t \in TxIds,
         NEW a \in Accounts, NEW amt \in Amounts, NEW ty \in Types,
         ImportCreate(b, t, a, amt, ty)
  PROVE  Keeps
  <1> DEFINE row == NewRow(a, amt, ty, "settled")
             imp == Imported(b, row)
             new == [x \in {t} |-> imp]
  <1>1. /\ row \in Row /\ row.linked = NoTx /\ row.status = "settled"
        /\ row.state = "accepted" /\ row.series = NoSeries
    BY LedgerAssumption DEF NewRow, Row, Types, Statuses, ReconStates
  <1>2. Insert(new) /\ Rebook({}, {t}) BY DEF ImportCreate
  <1>3. opening' = opening /\ req' = req BY DEF ImportCreate
  <1>4. batch' \in [Batches -> BatchHeader]
    BY CountImportedType DEF ImportCreate
  <1> HIDE DEF row
  <1>5. /\ imp \in Row /\ imp.linked = NoTx /\ imp.status = "settled"
        /\ imp.state = "accepted" /\ imp.series = NoSeries
    BY <1>1, SetBatch DEF Imported
  <1> HIDE DEF imp
  <1>6. GoodNew(new, {t}) BY <1>5 DEF GoodNew, Reverted
  <1> HIDE DEF new
  <1> QED BY <1>2, <1>3, <1>4, <1>6, InsertKeeps DEF TypeOK

\* A "create transfer pair" row of an import keeps the invariant.
LEMMA ImportTransferKeeps ==
  ASSUME TypeOK, LinksResolve, NEW b \in Batches, NEW e \in TxIds,
         NEW i \in TxIds, NEW from \in Accounts, NEW to \in Accounts,
         NEW amt \in Amounts, NEW bankLeg \in {e, i},
         ImportCreateTransferPair(b, e, i, from, to, amt, bankLeg)
  PROVE  Keeps
  <1> DEFINE legs == TransferLegs(e, i, from, to, amt, "settled")
             new  == [x \in {e, i} |-> IF x = bankLeg THEN Imported(b, legs[x])
                                                      ELSE legs[x]]
  <1>1. GoodLegs(legs, e, i, "settled")
    BY TransferLegsType DEF ImportCreateTransferPair, Statuses
  <1>2. Insert(new) /\ Rebook({}, {e, i}) BY DEF ImportCreateTransferPair
  <1>3. opening' = opening /\ req' = req BY DEF ImportCreateTransferPair
  <1>4. batch' \in [Batches -> BatchHeader]
    BY CountImportedType DEF ImportCreateTransferPair
  <1> HIDE DEF legs
  <1>5. \A x \in {e, i} :
           /\ new[x] \in Row /\ new[x].linked = legs[x].linked
           /\ new[x].status = "settled" /\ new[x].state = "accepted"
           /\ new[x].series = NoSeries
    BY <1>1, SetBatch DEF GoodLegs, Imported
  <1>6. DOMAIN new = {e, i} OBVIOUS
  <1> HIDE DEF new
  <1>7. GoodNew(new, {e, i}) BY <1>1, <1>5, <1>6 DEF GoodNew, GoodLegs, Reverted
  <1> QED BY <1>2, <1>3, <1>4, <1>7, InsertKeeps DEF TypeOK

\* An occurrence is written settled and accepted, or pending.
LEMMA ModeType ==
  ASSUME NEW mode \in OccurrenceModes
  PROVE  /\ mode[1] \in Statuses /\ mode[2] \in ReconStates
         /\ mode[1] = "settled" => mode[2] \notin Reverted
  BY DEF OccurrenceModes, Statuses, ReconStates, Reverted

\* Writing one occurrence of a template keeps the invariant.
LEMMA CreateOccurrenceKeeps ==
  ASSUME TypeOK, LinksResolve, NEW s \in Series, NEW t \in TxIds,
         NEW a \in Accounts, NEW amt \in Amounts, NEW ty \in Types,
         NEW mode \in OccurrenceModes, CreateOccurrence(s, t, a, amt, ty, mode)
  PROVE  Keeps
  <1> DEFINE st  == mode[1]
             q   == mode[2]
             row == NewRow(a, amt, ty, st)
             occ == [row EXCEPT !.series = s, !.state = q]
             new == [x \in {t} |-> occ]
             A   == Settled({t}, st)
  <1>1. /\ st \in Statuses /\ q \in ReconStates
        /\ st = "settled" => q \notin Reverted
    BY ModeType
  <1>2. Insert(new) /\ Rebook({}, A) BY DEF CreateOccurrence
  <1>3. opening' = opening /\ batch' = batch /\ req' = req BY DEF CreateOccurrence
  <1> HIDE DEF st, q
  <1>4. /\ row \in Row /\ row.linked = NoTx /\ row.status = st /\ row.batch = NoBatch
    BY <1>1, LedgerAssumption DEF NewRow, Row, Types, ReconStates
  <1> HIDE DEF row
  <1>5. /\ occ \in Row /\ occ.linked = NoTx /\ occ.status = st /\ occ.state = q
        /\ occ.batch = NoBatch
    BY <1>1, <1>4 DEF Row
  <1> HIDE DEF occ
  <1>6. GoodNew(new, A) BY <1>1, <1>5 DEF GoodNew, Settled
  <1> HIDE DEF new, A
  <1> QED BY <1>2, <1>3, <1>6, InsertKeeps DEF TypeOK

\* Writing one transfer occurrence of a template keeps the invariant.
LEMMA TransferOccurrenceKeeps ==
  ASSUME TypeOK, LinksResolve, NEW s \in Series, NEW e \in TxIds,
         NEW i \in TxIds, NEW from \in Accounts, NEW to \in Accounts,
         NEW amt \in Amounts, NEW mode \in OccurrenceModes,
         CreateTransferOccurrence(s, e, i, from, to, amt, mode)
  PROVE  Keeps
  <1> DEFINE st   == mode[1]
             q    == mode[2]
             legs == TransferLegs(e, i, from, to, amt, st)
             new  == [x \in {e, i} |-> [legs[x] EXCEPT !.series = s, !.state = q]]
             A    == Settled({e, i}, st)
  <1>1. /\ st \in Statuses /\ q \in ReconStates
        /\ st = "settled" => q \notin Reverted
    BY ModeType
  <1>2. Insert(new) /\ Rebook({}, A) BY DEF CreateTransferOccurrence
  <1>3. opening' = opening /\ batch' = batch /\ req' = req
    BY DEF CreateTransferOccurrence
  <1> HIDE DEF st, q
  <1>4. GoodLegs(legs, e, i, st)
    BY <1>1, TransferLegsType DEF CreateTransferOccurrence
  <1> HIDE DEF legs
  <1>5. \A x \in {e, i} :
           /\ new[x] \in Row /\ new[x].linked = legs[x].linked
           /\ new[x].status = st /\ new[x].state = q /\ new[x].batch = NoBatch
    <2> TAKE x \in {e, i}
    <2> DEFINE r == legs[x]
    <2>1. r \in Row /\ r.status = st /\ r.batch = NoBatch BY <1>4 DEF GoodLegs
    <2>2. new[x] = [r EXCEPT !.series = s, !.state = q] OBVIOUS
    <2> HIDE DEF r, new
    <2>3. /\ new[x] \in Row /\ new[x].linked = r.linked
          /\ new[x].status = st /\ new[x].state = q /\ new[x].batch = NoBatch
      BY <1>1, <2>1, <2>2 DEF Row
    <2> QED BY <2>3 DEF r
  <1>6. DOMAIN new = {e, i} OBVIOUS
  <1> HIDE DEF new
  <1>7. GoodNew(new, A) BY <1>1, <1>4, <1>5, <1>6 DEF GoodNew, GoodLegs, Settled
  <1> HIDE DEF A
  <1> QED BY <1>2, <1>3, <1>7, InsertKeeps DEF TypeOK

\* Two rows that agree in everything the balance depends on but the link.
SameButLink(r, q) ==
    /\ r.account = q.account /\ r.amount = q.amount /\ r.type = q.type
    /\ r.status = q.status /\ r.state = q.state /\ r.batch = q.batch
    /\ r.series = q.series

\* Linking two unlinked rows, of which e may be new, or unlinking a pair:
\* neither the two nor the rows matched against them change their standing.
LEMMA RelinkKeeps ==
  ASSUME TypeOK, LinksResolve, NEW e \in TxIds, NEW i \in live, e # i,
         live' = live \cup {e}, DOMAIN tx' = TxIds,
         tx'[e] \in Row, tx'[i] \in Row, SameButLink(tx'[i], tx[i]),
         \A u \in TxIds \ {e, i} : tx'[u] = tx[u],
         IF e \in live THEN SameButLink(tx'[e], tx[e])
         ELSE tx'[e].state \notin Reverted /\ tx'[e].series = NoSeries,
         \/ /\ tx[i].linked = NoTx /\ (e \in live => tx[e].linked = NoTx)
            /\ tx'[e].linked = i /\ tx'[i].linked = e
         \/ /\ e \in live /\ tx[e].linked = i /\ tx[i].linked = e
            /\ tx'[e].linked = NoTx /\ tx'[i].linked = NoTx,
         NEW A, A \subseteq {e},
         e \in A <=> e \notin live /\ tx'[e].status = "settled",
         Rebook({}, A), opening' = opening,
         batch' \in [Batches -> BatchHeader], req' \in Batches \cup {NoBatch}
  PROVE  Keeps
  <1>1. RowsOK' BY DEF RowsOK, TypeOK
  <1>2. TypeOK' BY <1>1, TypeFromRows
  <1>3. LinksResolve' BY DEF LinksResolve, TypeOK
  \* A row linked to one of the two from outside is linked one way, before
  \* and after.
  <1>4. ASSUME NEW u \in live \ {e, i}
        PROVE  /\ tx'[u] = tx[u] /\ u \in TxIds /\ u # NoTx
               /\ tx[u].linked # NoTx =>
                    /\ tx[u].linked \in live /\ tx[u].linked # u
                    /\ tx'[tx[u].linked].linked = u <=> tx[tx[u].linked].linked = u
    <2>1. tx'[u] = tx[u] /\ u \in TxIds /\ u # NoTx
      BY LedgerAssumption DEF TypeOK
    <2> SUFFICES ASSUME tx[u].linked # NoTx
                 PROVE  /\ tx[u].linked \in live /\ tx[u].linked # u
                        /\ tx'[tx[u].linked].linked = u <=> tx[tx[u].linked].linked = u
      BY <2>1
    <2> DEFINE v == tx[u].linked
    <2>2. v \in live /\ v # u /\ v \in TxIds
      BY DEF LinksResolve, TypeOK
    <2>3. u # e /\ u # i /\ u # NoTx
      BY <2>1
    <2> HIDE DEF v
    <2>4. tx'[v].linked = u <=> tx[v].linked = u
      <3>1. CASE v \notin {e, i} BY <2>2, <3>1
      <3>2. CASE v = i BY <2>3, <3>2
      <3>3. CASE v = e BY <2>2, <2>3, <3>3
      <3> QED BY <3>1, <3>2, <3>3
    <2> QED BY <2>2, <2>4 DEF v
  <1>5. e # NoTx /\ i # NoTx /\ i \in TxIds BY LedgerAssumption DEF TypeOK
  <1>6. ASSUME OneWayLinkIsMatch PROVE OneWayLinkIsMatch'
    <2> SUFFICES ASSUME NEW t \in live', tx'[t].linked # NoTx,
                        ~(tx'[t].linked # t /\ tx'[tx'[t].linked].linked = t)
                 PROVE  tx'[t].batch # NoBatch
      BY DEF OneWayLinkIsMatch, IsReciprocalPair
    <2>1. t \in live \ {e, i} BY <1>5
    <2> QED BY <2>1, <1>4, <1>6 DEF OneWayLinkIsMatch, IsReciprocalPair
  <1>7. ASSUME RecurringNotImported PROVE RecurringNotImported'
    BY <1>4, <1>7 DEF RecurringNotImported, SameButLink
  <1>8. ASSUME PostedExact PROVE PostedExact'
    <2>1. ASSUME NEW t \in TxIds, t \notin live, t = e
          PROVE  /\ t \in {} <=> (t \in live /\ InBalance(tx, t))
                 /\ t \in A <=> (t \in live' /\ InBalance(tx', t))
      BY <2>1, <1>5 DEF InBalance, ContributesToCachedBalance
    <2>2. ASSUME NEW t \in TxIds, t \in live \/ t # e
          PROVE  /\ t \notin {} /\ t \notin A
                 /\ (t \in live /\ InBalance(tx, t)) <=> (t \in live' /\ InBalance(tx', t))
                 /\ (t \in live /\ InBalance(tx, t)) =>
                     /\ tx'[t].account = tx[t].account
                     /\ tx'[t].amount = tx[t].amount
                     /\ tx'[t].type = tx[t].type
      <3>1. CASE t \in live \ {e, i}
        BY <3>1, <1>4 DEF InBalance, ContributesToCachedBalance
      <3>2. CASE t \in live /\ t = e
        BY <3>2, <1>5 DEF InBalance, ContributesToCachedBalance, SameButLink
      <3>3. CASE t = i
        BY <3>3, <1>5 DEF InBalance, ContributesToCachedBalance, SameButLink
      <3>4. CASE t \notin live BY <2>2, <3>4
      <3> QED BY <3>1, <3>2, <3>3, <3>4
    <2>3. /\ posted \in [Accounts -> [TxIds -> Int]]
          /\ \A t \in TxIds : tx[t] \in Row \/ tx[t] = Blank
          /\ \A t \in TxIds : tx'[t] \in Row \/ tx'[t] = Blank
      BY <1>1 DEF TypeOK, RowsOK
    <2> QED BY <2>1, <2>2, <2>3, <1>8, RebookExact
  <1> QED BY <1>2, <1>3, <1>6, <1>7, <1>8 DEF Keeps

\* Overwriting a link leaves the other columns.
LEMMA SetLinkedSame ==
  ASSUME NEW r \in Row, NEW l \in TxIds \cup {NoTx}
  PROVE  SameButLink([r EXCEPT !.linked = l], r)
  BY DEF Row, SameButLink

\* pair_existing_transactions keeps the invariant.
LEMMA PairKeeps ==
  ASSUME TypeOK, LinksResolve, NEW e \in TxIds, NEW i \in TxIds,
         PairExistingTransactions(e, i)
  PROVE  Keeps
  <1>1. /\ e \in live /\ i \in live /\ tx[e].linked = NoTx /\ tx[i].linked = NoTx
        /\ tx[e].type = "expense" /\ tx[i].type = "income"
        /\ tx' = [tx EXCEPT ![e].linked = i, ![i].linked = e]
        /\ Rebook({}, {}) /\ live' = live /\ opening' = opening
        /\ batch' = batch /\ req' = req
    BY DEF PairExistingTransactions, LinkPairGuards
  <1>2. e # i BY <1>1
  <1>3. tx[e] \in Row /\ tx[i] \in Row /\ DOMAIN tx = TxIds BY <1>1 DEF TypeOK
  <1>4. /\ tx'[e] = [tx[e] EXCEPT !.linked = i]
        /\ tx'[i] = [tx[i] EXCEPT !.linked = e]
        /\ \A u \in TxIds \ {e, i} : tx'[u] = tx[u]
        /\ DOMAIN tx' = TxIds
    BY <1>1, <1>2, <1>3
  <1>5. /\ tx'[e] \in Row /\ tx'[e].linked = i /\ SameButLink(tx'[e], tx[e])
        /\ tx'[i] \in Row /\ tx'[i].linked = e /\ SameButLink(tx'[i], tx[i])
    BY <1>3, <1>4, SetLinked, SetLinkedSame
  <1>6. live' = live \cup {e} BY <1>1
  <1>7. batch' \in [Batches -> BatchHeader] /\ req' \in Batches \cup {NoBatch}
    BY <1>1 DEF TypeOK
  <1> QED BY <1>1, <1>2, <1>4, <1>5, <1>6, <1>7, RelinkKeeps

\* unpair_transactions keeps the invariant.
LEMMA UnpairKeeps ==
  ASSUME TypeOK, LinksResolve, NEW t \in TxIds, UnpairTransactions(t)
  PROVE  Keeps
  <1> DEFINE p == tx[t].linked
  <1>1. /\ t \in live /\ p # NoTx /\ p # t /\ tx[p].linked = t
        /\ tx' = [tx EXCEPT ![t].linked = NoTx, ![p].linked = NoTx]
        /\ Rebook({}, {}) /\ live' = live /\ opening' = opening
        /\ batch' = batch /\ req' = req
    BY DEF UnpairTransactions, IsReciprocalPair
  <1>2. p \in live BY <1>1 DEF LinksResolve
  <1>3. tx[t] \in Row /\ tx[p] \in Row /\ DOMAIN tx = TxIds /\ p \in TxIds
    BY <1>1, <1>2 DEF TypeOK
  <1>4. /\ tx'[t] = [tx[t] EXCEPT !.linked = NoTx]
        /\ tx'[p] = [tx[p] EXCEPT !.linked = NoTx]
        /\ \A u \in TxIds \ {t, p} : tx'[u] = tx[u]
        /\ DOMAIN tx' = TxIds
    BY <1>1, <1>3
  <1>5. /\ tx'[t] \in Row /\ tx'[t].linked = NoTx /\ SameButLink(tx'[t], tx[t])
        /\ tx'[p] \in Row /\ tx'[p].linked = NoTx /\ SameButLink(tx'[p], tx[p])
    BY <1>3, <1>4, SetLinked, SetLinkedSame
  <1>6. live' = live \cup {t} BY <1>1
  <1>7. batch' \in [Batches -> BatchHeader] /\ req' \in Batches \cup {NoBatch}
    BY <1>1 DEF TypeOK
  <1>8. tx[t].linked = p OBVIOUS
  <1> HIDE DEF p
  <1> QED BY <1>1, <1>2, <1>4, <1>5, <1>6, <1>7, <1>8, RelinkKeeps

\* Inserting one row linked with an existing one keeps the invariant.
LEMMA InsertLinkedKeeps ==
  ASSUME TypeOK, LinksResolve, NEW t \in TxIds, NEW p \in live, NEW new \in Row,
         InsertLinked(t, new, p), new.state \notin Reverted, new.series = NoSeries,
         NEW A, A \subseteq {t}, t \in A <=> new.status = "settled",
         Rebook({}, A), opening' = opening,
         batch' \in [Batches -> BatchHeader], req' \in Batches \cup {NoBatch}
  PROVE  Keeps
  <1>1. /\ t \notin live /\ live' = live \cup {t} /\ tx[p].linked = NoTx
        /\ tx' = [tx EXCEPT ![t] = [new EXCEPT !.linked = p], ![p].linked = t]
    BY DEF InsertLinked, LinkPairGuards
  <1>2. t # p BY <1>1
  <1>3. tx[p] \in Row /\ DOMAIN tx = TxIds /\ p \in TxIds BY DEF TypeOK
  <1> DEFINE row == [new EXCEPT !.linked = p]
  <1>4. /\ row \in Row /\ row.linked = p /\ row.status = new.status
        /\ row.state = new.state /\ row.series = new.series
    BY <1>3, SetLinked
  <1> HIDE DEF row
  <1>5. /\ tx'[t] = row
        /\ tx'[p] = [tx[p] EXCEPT !.linked = t]
        /\ \A u \in TxIds \ {t, p} : tx'[u] = tx[u]
        /\ DOMAIN tx' = TxIds
    BY <1>1, <1>2, <1>3 DEF row
  <1>6. tx'[p] \in Row /\ tx'[p].linked = t /\ SameButLink(tx'[p], tx[p])
    BY <1>3, <1>5, SetLinked, SetLinkedSame
  <1>7. /\ tx'[t] \in Row
        /\ IF t \in live THEN SameButLink(tx'[t], tx[t])
           ELSE tx'[t].state \notin Reverted /\ tx'[t].series = NoSeries
        /\ tx[p].linked = NoTx /\ (t \in live => tx[t].linked = NoTx)
        /\ tx'[t].linked = p /\ tx'[p].linked = t
        /\ t \in A <=> t \notin live /\ tx'[t].status = "settled"
    BY <1>1, <1>4, <1>5, <1>6
  <1> QED BY Zenon, <1>1, <1>2, <1>5, <1>6, <1>7, RelinkKeeps

\* convert_and_create_leg keeps the invariant.
LEMMA ConvertKeeps ==
  ASSUME TypeOK, LinksResolve, NEW source \in TxIds, NEW t \in TxIds,
         NEW dst \in Accounts, ConvertAndCreateLeg(source, t, dst)
  PROVE  Keeps
  <1> DEFINE s   == tx[source]
             new == NewRow(dst, s.amount, Opposite(s.type), s.status)
             A   == Settled({t}, s.status)
  <1>1. /\ source \in live /\ InsertLinked(t, new, source) /\ Rebook({}, A)
        /\ opening' = opening /\ batch' = batch /\ req' = req
    BY DEF ConvertAndCreateLeg
  <1>2. s \in Row BY <1>1 DEF TypeOK
  <1>3. /\ new \in Row /\ new.state \notin Reverted /\ new.series = NoSeries
        /\ new.status = s.status
    BY <1>2 DEF NewRow, Row, Types, ReconStates, Reverted, Opposite
  <1>4. A \subseteq {t} /\ (t \in A <=> s.status = "settled") BY DEF Settled
  <1>5. batch' \in [Batches -> BatchHeader] /\ req' \in Batches \cup {NoBatch}
    BY <1>1 DEF TypeOK
  <1> HIDE DEF new, A
  <1> QED BY <1>1, <1>3, <1>4, <1>5, InsertLinkedKeeps

\* A "pair with existing" row of an import keeps the invariant.
LEMMA ImportPairKeeps ==
  ASSUME TypeOK, LinksResolve, NEW b \in Batches, NEW t \in TxIds,
         NEW a \in Accounts, NEW p \in TxIds, ImportPairWithExisting(b, t, a, p)
  PROVE  Keeps
  <1> DEFINE q   == tx[p]
             row == NewRow(a, q.amount, Opposite(q.type), "settled")
             new == Imported(b, row)
  <1>1. /\ p \in live /\ InsertLinked(t, new, p) /\ Rebook({}, {t})
        /\ opening' = opening /\ req' = req
    BY DEF ImportPairWithExisting
  <1>2. q \in Row BY <1>1 DEF TypeOK
  <1>3. /\ row \in Row /\ row.state \notin Reverted /\ row.series = NoSeries
        /\ row.status = "settled"
    BY <1>2 DEF NewRow, Row, Types, Statuses, ReconStates, Reverted, Opposite
  <1> HIDE DEF row
  <1>4. /\ new \in Row /\ new.state \notin Reverted /\ new.series = NoSeries
        /\ new.status = "settled"
    BY <1>3, SetBatch DEF Imported
  <1>5. batch' \in [Batches -> BatchHeader] /\ req' \in Batches \cup {NoBatch}
    BY <1>1, CountImportedType DEF ImportPairWithExisting, TypeOK
  <1> HIDE DEF new
  <1> QED BY <1>1, <1>4, <1>5, InsertLinkedKeeps

\* The header that a deletion leaves is a header.
LEMMA SettledHeaderType ==
  ASSUME TypeOK, NEW D, D \subseteq live, NEW b \in Batches
  PROVE  SettledHeader(D, b) \in BatchHeader
  <1> DEFINE gone   == {u \in D : tx[u].batch = b}
             lost   == LostRows(D, b)
             goneNo == Cardinality(gone)
             accNo  == Cardinality({u \in lost : tx[u].state = "accepted"})
             pendNo == Cardinality({u \in lost : tx[u].state \in PendingStates})
             left   == Cardinality(PendingRows(Without(D), live \ D, b))
             h0     == batch[b]
             h      == [h0 EXCEPT !.rows     = Minus(@, goneNo),
                                  !.accepted = Minus(@, accNo),
                                  !.pending  = Minus(@, pendNo)]
  <1>1. lost \subseteq TxIds /\ gone \subseteq TxIds BY DEF TypeOK, LostRows, Orphans
  <1>2. PendingRows(Without(D), live \ D, b) \subseteq TxIds
    BY DEF TypeOK, PendingRows
  <1>3. goneNo \in Nat BY <1>1, RowCount
  <1>4. accNo \in Nat
    <2>1. {u \in lost : tx[u].state = "accepted"} \subseteq TxIds BY <1>1
    <2> QED BY <2>1, RowCount
  <1>5. pendNo \in Nat
    <2>1. {u \in lost : tx[u].state \in PendingStates} \subseteq TxIds BY <1>1
    <2> QED BY <2>1, RowCount
  <1>6. left \in Nat BY <1>2, RowCount
  <1>7. h0 \in BatchHeader BY DEF TypeOK
  <1>8. SettledHeader(D, b) = IF pendNo = 0 THEN h ELSE CloseIfComplete(h, left)
    BY DEF SettledHeader
  <1> HIDE DEF h0, goneNo, accNo, pendNo, left
  <1> DEFINE x == Minus(h0.rows, goneNo)
             y == Minus(h0.accepted, accNo)
             z == Minus(h0.pending, pendNo)
  <1>9. h \in BatchHeader
    <2>1. x \in Nat /\ y \in Nat /\ z \in Nat
      BY <1>3, <1>4, <1>5, <1>7 DEF BatchHeader, Minus
    <2>2. h = [h0 EXCEPT !.rows = x, !.accepted = y, !.pending = z] OBVIOUS
    <2> HIDE DEF h, x, y, z
    <2> QED BY <1>7, <2>1, <2>2 DEF BatchHeader
  <1> HIDE DEF h
  <1> QED BY <1>6, <1>8, <1>9, CloseType

\* What a deletion of D leaves of the table.
Deletes(D) ==
    /\ live' = live \ D
    /\ DOMAIN tx' = TxIds
    /\ \A u \in TxIds \ live : tx'[u] = Blank
    /\ \A u \in D : tx'[u] = Blank
    /\ \A u \in live \ D :
         /\ tx'[u] \in Row
         /\ tx'[u].account = tx[u].account /\ tx'[u].amount = tx[u].amount
         /\ tx'[u].type = tx[u].type /\ tx'[u].status = tx[u].status
         /\ tx'[u].batch = tx[u].batch
         /\ tx'[u].state = IF u \in Orphans(D) THEN "rejected" ELSE tx[u].state
         /\ tx'[u].linked = IF tx[u].linked \in D THEN NoTx ELSE tx[u].linked
         /\ tx'[u].series \in {tx[u].series, NoSeries}

\* A set of rows that holds the partner of each transfer leg in it.
ClosedUnderPairs(D) == \A t \in D : IsReciprocalPair(tx, t) => tx[t].linked \in D

\* Deleting whole transfers and single rows keeps the invariant: a surviving
\* row that pointed at a deleted one was out of the balance and, rejected,
\* stays out.
LEMMA RemoveKeeps ==
  ASSUME TypeOK, LinksResolve, NEW D, D \subseteq live, ClosedUnderPairs(D),
         Deletes(D), Remove(D)
  PROVE  Keeps
  <1>0. D \subseteq TxIds /\ live \subseteq TxIds /\ NoTx \notin TxIds
    BY LedgerAssumption DEF TypeOK
  <1>1. RowsOK' BY <1>0 DEF Deletes, RowsOK
  <1>2. TypeOK'
    <2>0. \A b \in Batches : SettledHeader(D, b) \in BatchHeader
      BY SettledHeaderType
    <2>1. batch' \in [Batches -> BatchHeader] BY <2>0 DEF Remove
    <2>2. Rebook({t \in D : InBalance(tx, t)}, {}) /\ opening' = opening /\ req' = req
      BY DEF Remove
    <2>3. req' \in Batches \cup {NoBatch} BY <2>2 DEF TypeOK
    <2> QED BY <1>1, <2>1, <2>2, <2>3, TypeFromRows
  <1>3. LinksResolve' BY <1>0 DEF Deletes, LinksResolve
  <1>4. ASSUME NEW u \in live \ D, tx[u].linked \in D
        PROVE  tx[tx[u].linked].linked # u
    <2> DEFINE v == tx[u].linked
    <2>1. v # u /\ v \in D BY <1>4
    <2>2. SUFFICES ASSUME tx[v].linked = u PROVE FALSE OBVIOUS
    <2>3. IsReciprocalPair(tx, v) BY <2>1, <2>2, <1>0 DEF IsReciprocalPair
    <2> QED BY <2>1, <2>2, <2>3 DEF ClosedUnderPairs
  <1>5. ASSUME NEW u \in live \ D, tx[u].linked # NoTx, tx[u].linked \notin D
        PROVE  /\ tx'[u].linked = tx[u].linked /\ tx[u].linked # u
               /\ u \notin Orphans(D)
               /\ tx'[tx[u].linked].linked = u <=> tx[tx[u].linked].linked = u
    <2>1. tx[u].linked \in live \ D /\ tx[u].linked # u
      BY <1>5 DEF LinksResolve
    <2> QED BY <2>1, <1>5, <1>0 DEF Deletes, Orphans
  <1>6. ASSUME OneWayLinkIsMatch PROVE OneWayLinkIsMatch'
    <2> SUFFICES ASSUME NEW t \in live', tx'[t].linked # NoTx,
                        ~(tx'[t].linked # t /\ tx'[tx'[t].linked].linked = t)
                 PROVE  tx'[t].batch # NoBatch
      BY DEF OneWayLinkIsMatch, IsReciprocalPair
    <2>1. t \in live \ D BY DEF Deletes
    <2>2. tx[t].linked # NoTx /\ tx[t].linked \notin D BY <2>1 DEF Deletes
    <2>3. tx[t].batch # NoBatch
      BY <2>1, <2>2, <1>5, <1>6 DEF OneWayLinkIsMatch, IsReciprocalPair
    <2> QED BY <2>1, <2>3 DEF Deletes
  <1>7. ASSUME RecurringNotImported PROVE RecurringNotImported'
    BY <1>7 DEF RecurringNotImported, Deletes
  <1>8. ASSUME PostedExact PROVE PostedExact'
    <2> DEFINE R == {t \in D : InBalance(tx, t)}
    <2>1. ASSUME NEW t \in TxIds, t \in D
          PROVE  /\ t \in R <=> (t \in live /\ InBalance(tx, t))
                 /\ t \in {} <=> (t \in live' /\ InBalance(tx', t))
      BY <2>1 DEF Deletes
    <2>2. ASSUME NEW t \in TxIds, t \notin D
          PROVE  /\ t \notin R /\ t \notin {}
                 /\ (t \in live /\ InBalance(tx, t)) <=> (t \in live' /\ InBalance(tx', t))
                 /\ (t \in live /\ InBalance(tx, t)) =>
                     /\ tx'[t].account = tx[t].account
                     /\ tx'[t].amount = tx[t].amount
                     /\ tx'[t].type = tx[t].type
      <3>1. CASE t \notin live BY <2>2, <3>1 DEF Deletes
      <3>2. CASE t \in live /\ tx[t].linked \in D
        <4>1. ~ContributesToCachedBalance(tx, t)
          BY <2>2, <3>2, <1>0, <1>4 DEF ContributesToCachedBalance
        <4>2. tx'[t].state \in Reverted
          BY <2>2, <3>2, <4>1 DEF Deletes, Orphans, Reverted
        <4> QED BY <2>2, <4>1, <4>2 DEF InBalance, ContributesToCachedBalance
      <3>3. CASE t \in live /\ tx[t].linked # NoTx /\ tx[t].linked \notin D
        BY <2>2, <3>3, <1>5 DEF Deletes, InBalance, ContributesToCachedBalance
      <3>4. CASE t \in live /\ tx[t].linked = NoTx
        BY <2>2, <3>4, <1>0 DEF Deletes, Orphans, InBalance, ContributesToCachedBalance
      <3> QED BY <3>1, <3>2, <3>3, <3>4
    <2>3. /\ posted \in [Accounts -> [TxIds -> Int]]
          /\ \A t \in TxIds : tx[t] \in Row \/ tx[t] = Blank
          /\ \A t \in TxIds : tx'[t] \in Row \/ tx'[t] = Blank
      BY <1>1 DEF TypeOK, RowsOK
    <2>4. Rebook(R, {}) BY DEF Remove
    <2> HIDE DEF R
    <2> QED BY <2>1, <2>2, <2>3, <2>4, <1>8, RebookExact
  <1> QED BY <1>2, <1>3, <1>6, <1>7, <1>8 DEF Keeps

\* What Without leaves of each row.
LEMMA WithoutRows ==
  ASSUME TypeOK, NEW D, D \subseteq live
  PROVE  /\ DOMAIN Without(D) = TxIds
         /\ \A u \in TxIds \ live : Without(D)[u] = Blank
         /\ \A u \in D : Without(D)[u] = Blank
         /\ \A u \in live \ D :
              /\ Without(D)[u] \in Row
              /\ Without(D)[u].account = tx[u].account
              /\ Without(D)[u].amount = tx[u].amount
              /\ Without(D)[u].type = tx[u].type
              /\ Without(D)[u].status = tx[u].status
              /\ Without(D)[u].batch = tx[u].batch
              /\ Without(D)[u].state = IF u \in Orphans(D) THEN "rejected" ELSE tx[u].state
              /\ Without(D)[u].linked = IF tx[u].linked \in D THEN NoTx ELSE tx[u].linked
              /\ Without(D)[u].series = tx[u].series
  <1>0. D \subseteq TxIds /\ live \subseteq TxIds /\ NoTx \notin TxIds
    BY LedgerAssumption DEF TypeOK
  <1>1. ASSUME NEW u \in TxIds \ live PROVE Without(D)[u] = Blank
    <2>1. u \notin D /\ u \notin Orphans(D) BY DEF Orphans
    <2>2. tx[u] = Blank BY DEF TypeOK
    <2>3. Without(D)[u] = [Blank EXCEPT !.state = Blank.state, !.linked = Blank.linked]
      BY <2>1, <2>2, <1>0 DEF Without, Blank
    <2> QED BY <2>3 DEF Blank
  <1>2. \A u \in D : Without(D)[u] = Blank BY <1>0 DEF Without
  <1>3. ASSUME NEW u \in live \ D
        PROVE /\ Without(D)[u] \in Row
              /\ Without(D)[u].account = tx[u].account
              /\ Without(D)[u].amount = tx[u].amount
              /\ Without(D)[u].type = tx[u].type
              /\ Without(D)[u].status = tx[u].status
              /\ Without(D)[u].batch = tx[u].batch
              /\ Without(D)[u].state = IF u \in Orphans(D) THEN "rejected" ELSE tx[u].state
              /\ Without(D)[u].linked = IF tx[u].linked \in D THEN NoTx ELSE tx[u].linked
              /\ Without(D)[u].series = tx[u].series
    <2> DEFINE q == IF u \in Orphans(D) THEN "rejected" ELSE tx[u].state
               l == IF tx[u].linked \in D THEN NoTx ELSE tx[u].linked
               r == tx[u]
    <2>1. r \in Row BY DEF TypeOK
    <2>2. q \in ReconStates /\ l \in TxIds \cup {NoTx}
      BY <2>1 DEF Row, ReconStates
    <2>3. Without(D)[u] = [r EXCEPT !.state = q, !.linked = l] BY <1>0 DEF Without
    <2> HIDE DEF q, l, r
    <2>4. /\ Without(D)[u] \in Row
          /\ Without(D)[u].account = r.account
          /\ Without(D)[u].amount = r.amount
          /\ Without(D)[u].type = r.type
          /\ Without(D)[u].status = r.status
          /\ Without(D)[u].batch = r.batch
          /\ Without(D)[u].state = q
          /\ Without(D)[u].linked = l
          /\ Without(D)[u].series = r.series
      BY <2>1, <2>2, <2>3 DEF Row
    <2> QED BY <2>4 DEF q, l, r
  <1>4. DOMAIN Without(D) = TxIds BY DEF Without
  <1> QED BY <1>1, <1>2, <1>3, <1>4

\* A transfer leg and its partner are two live rows closed under pairs.
LEMMA WithPartnerClosed ==
  ASSUME TypeOK, LinksResolve, NEW t \in live
  PROVE  WithPartner(t) \subseteq live /\ ClosedUnderPairs(WithPartner(t))
  BY DEF WithPartner, ClosedUnderPairs, IsReciprocalPair, LinksResolve

\* A handler that deletes removes a set of rows that holds whole transfers.
Deleting == \E D \in SUBSET live : ClosedUnderPairs(D) /\ Deletes(D) /\ Remove(D)

LEMMA DeletingKeeps ==
  ASSUME TypeOK, LinksResolve, Deleting
  PROVE  Keeps
  BY RemoveKeeps DEF Deleting

\* delete_transaction deletes a row and its partner.
LEMMA DeleteDeletes ==
  ASSUME TypeOK, LinksResolve, NEW t \in TxIds, DeleteTransaction(t)
  PROVE  Deleting
  <1> DEFINE D == WithPartner(t)
  <1>1. t \in live /\ tx' = Without(D) /\ Remove(D) BY DEF DeleteTransaction
  <1>2. D \subseteq live /\ ClosedUnderPairs(D) BY <1>1, WithPartnerClosed
  <1> HIDE DEF D
  <1>3. Deletes(D) BY <1>1, <1>2, WithoutRows DEF Deletes, Remove
  <1> QED BY <1>1, <1>2, <1>3 DEF Deleting

LEMMA DeleteKeeps ==
  ASSUME TypeOK, LinksResolve, NEW t \in TxIds, DeleteTransaction(t)
  PROVE  Keeps
  BY DeleteDeletes, DeletingKeeps

\* bulk_delete_transactions deletes rows and their partners.
LEMMA BulkDeleteDeletes ==
  ASSUME TypeOK, LinksResolve, NEW ids \in SUBSET TxIds,
         BulkDeleteTransactions(ids)
  PROVE  Deleting
  <1> DEFINE B == {u \in ids \cap live : ~tx[u].adjust}
             D == UNION {WithPartner(t) : t \in B}
  <1>1. tx' = Without(D) /\ Remove(D) BY DEF BulkDeleteTransactions
  <1>2. D \subseteq live /\ ClosedUnderPairs(D)
    <2>1. \A t \in B : WithPartner(t) \subseteq live /\ ClosedUnderPairs(WithPartner(t))
      BY WithPartnerClosed
    <2> QED BY <2>1 DEF ClosedUnderPairs
  <1> HIDE DEF D
  <1>3. Deletes(D) BY <1>1, <1>2, WithoutRows DEF Deletes, Remove
  <1> QED BY <1>1, <1>2, <1>3 DEF Deleting

LEMMA BulkDeleteKeeps ==
  ASSUME TypeOK, LinksResolve, NEW ids \in SUBSET TxIds,
         BulkDeleteTransactions(ids)
  PROVE  Keeps
  BY BulkDeleteDeletes, DeletingKeeps

\* stop_recurring deletes the future rows but a leg whose partner stays.
LEMMA StopDeletes ==
  ASSUME TypeOK, LinksResolve, NEW s \in Series, NEW future \in SUBSET TxIds,
         StopRecurring(s, future)
  PROVE  Deleting
  <1> DEFINE D == {t \in future : IsReciprocalPair(tx, t) => tx[t].linked \in future}
             W == Without(D)
  <1>1. /\ future \subseteq live
        /\ tx' = [u \in TxIds |-> [W[u] EXCEPT
                                     !.series = IF @ = s THEN NoSeries ELSE @]]
        /\ Remove(D)
    BY DEF StopRecurring
  <1>2. D \subseteq live /\ ClosedUnderPairs(D)
    BY <1>1 DEF ClosedUnderPairs, IsReciprocalPair
  <1>3. /\ \A u \in TxIds \ live : W[u] = Blank
        /\ \A u \in D : W[u] = Blank
        /\ \A u \in live \ D :
              /\ W[u] \in Row
              /\ W[u].account = tx[u].account /\ W[u].amount = tx[u].amount
              /\ W[u].type = tx[u].type /\ W[u].status = tx[u].status
              /\ W[u].batch = tx[u].batch
              /\ W[u].state = IF u \in Orphans(D) THEN "rejected" ELSE tx[u].state
              /\ W[u].linked = IF tx[u].linked \in D THEN NoTx ELSE tx[u].linked
              /\ W[u].series = tx[u].series
    BY <1>2, WithoutRows
  <1> HIDE DEF D, W
  <1>4. ASSUME NEW u \in TxIds, W[u] = Blank PROVE tx'[u] = Blank
    <2>1. tx'[u] = [Blank EXCEPT !.series = IF Blank.series = s THEN NoSeries
                                            ELSE Blank.series]
      BY <1>1, <1>4
    <2> QED BY <2>1, LedgerAssumption DEF Blank
  <1>5. ASSUME NEW u \in live \ D
        PROVE /\ tx'[u] \in Row
              /\ tx'[u].account = W[u].account /\ tx'[u].amount = W[u].amount
              /\ tx'[u].type = W[u].type /\ tx'[u].status = W[u].status
              /\ tx'[u].batch = W[u].batch /\ tx'[u].state = W[u].state
              /\ tx'[u].linked = W[u].linked
              /\ tx'[u].series \in {W[u].series, NoSeries}
    <2> DEFINE r == W[u]
               n == IF r.series = s THEN NoSeries ELSE r.series
    <2>1. r \in Row BY <1>3
    <2>2. n \in Series \cup {NoSeries} /\ n \in {r.series, NoSeries}
      BY <2>1 DEF Row
    <2>3. tx'[u] = [r EXCEPT !.series = n] BY <1>1 DEF TypeOK
    <2> HIDE DEF n, r
    <2>4. /\ tx'[u] \in Row
          /\ tx'[u].account = r.account /\ tx'[u].amount = r.amount
          /\ tx'[u].type = r.type /\ tx'[u].status = r.status
          /\ tx'[u].batch = r.batch /\ tx'[u].state = r.state
          /\ tx'[u].linked = r.linked /\ tx'[u].series = n
      BY <2>1, <2>2, <2>3 DEF Row
    <2> QED BY <2>2, <2>4 DEF r
  <1>6. Deletes(D)
    <2>1. live' = live \ D /\ DOMAIN tx' = TxIds BY <1>1 DEF Remove
    <2>2. D \subseteq TxIds BY <1>2 DEF TypeOK
    <2> QED BY <2>1, <2>2, <1>3, <1>4, <1>5 DEF Deletes
  <1> QED BY <1>1, <1>2, <1>6 DEF Deleting

LEMMA StopKeeps ==
  ASSUME TypeOK, LinksResolve, NEW s \in Series, NEW future \in SUBSET TxIds,
         StopRecurring(s, future)
  PROVE  Keeps
  BY StopDeletes, DeletingKeeps

\* update_account keeps the invariant: the opening balance it is sent is a
\* number, and no row is touched.
LEMMA OpeningKeeps ==
  ASSUME TypeOK, LinksResolve, NEW a \in Accounts, NEW o \in Openings,
         UpdateOpeningBalance(a, o)
  PROVE  Keeps
  <1>1. o \in Int BY LedgerAssumption
  <1>2. TypeOK' BY <1>1 DEF TypeOK, UpdateOpeningBalance
  <1>3. live' = live /\ tx' = tx /\ posted' = posted BY DEF UpdateOpeningBalance
  <1>4. LinksResolve' BY <1>3 DEF LinksResolve
  <1>5. OneWayLinkIsMatch => OneWayLinkIsMatch'
    BY <1>3 DEF OneWayLinkIsMatch, IsReciprocalPair
  <1>6. RecurringNotImported => RecurringNotImported'
    BY <1>3 DEF RecurringNotImported
  <1>7. PostedExact => PostedExact'
    BY <1>3 DEF PostedExact, InBalance, ContributesToCachedBalance
  <1> QED BY <1>2, <1>4, <1>5, <1>6, <1>7 DEF Keeps

\* What update_transaction leaves of each row: nobody's link, state, batch or
\* series changes, only the edited row's status does, and the rows whose
\* account, amount or type changes are the edited row, its transfer partner
\* and pending rows.
LEMMA UpdateRows ==
  ASSUME TypeOK, LinksResolve, NEW t \in TxIds, NEW a \in Accounts,
         NEW amt \in Amounts, NEW ty \in Types, NEW st \in Statuses,
         NEW F \in SUBSET SeriesSyncTargets(t),
         UpdateTransaction(t, a, amt, ty, st, F)
  PROVE  /\ live' = live /\ DOMAIN tx' = TxIds
         /\ \A u \in live :
              /\ tx'[u] \in Row
              /\ tx'[u].linked = tx[u].linked /\ tx'[u].state = tx[u].state
              /\ tx'[u].batch = tx[u].batch /\ tx'[u].series = tx[u].series
              /\ tx'[u].status = IF u = t THEN st ELSE tx[u].status
              /\ \/ u = t
                 \/ IsReciprocalPair(tx, t) /\ u = tx[t].linked
                 \/ tx[u].status = "pending"
                 \/ tx'[u] = tx[u]
         /\ \A u \in TxIds \ live : tx'[u] = Blank
  <1> DEFINE r == tx[t]
             paired == IsReciprocalPair(tx, t)
             acctTo == IF a # r.account THEN PendingSiblings(t) ELSE {}
             other(u) == [tx[u] EXCEPT
                            !.account = IF u \in acctTo THEN a ELSE @,
                            !.amount  = IF u \in F THEN amt ELSE @]
  <1>0. amt \in Nat \ {0} BY LedgerAssumption
  <1>1. /\ t \in live /\ live' = live
        /\ tx' = [u \in TxIds |->
                   CASE u = t ->
                          [r EXCEPT !.account = a, !.amount = amt,
                                    !.type = ty, !.status = st]
                     [] u # t /\ paired /\ u = r.linked ->
                          [tx[u] EXCEPT !.amount = amt]
                     [] OTHER -> other(u)]
    BY Zenon DEF UpdateTransaction
  <1>2. /\ acctTo \subseteq live /\ F \subseteq live
        /\ \A u \in acctTo \cup F : u # t /\ tx[u].status = "pending"
    BY DEF PendingSiblings, SeriesSyncTargets
  <1>3. ASSUME NEW u \in TxIds, u # t, ~(paired /\ u = r.linked)
        PROVE  tx'[u] = other(u)
    BY <1>1, <1>3
  <1>4. ASSUME NEW u \in TxIds, u # t, u \notin acctTo, u \notin F,
               tx[u] \in Row \/ tx[u] = Blank
        PROVE  other(u) = tx[u]
    BY <1>4 DEF Row, Blank
  <1>5. tx'[t] = [r EXCEPT !.account = a, !.amount = amt, !.type = ty, !.status = st]
    BY <1>1
  <1>6. ASSUME NEW u \in TxIds, u # t, paired, u = r.linked
        PROVE  tx'[u] = [tx[u] EXCEPT !.amount = amt]
    BY <1>1, <1>6
  <1>7. ASSUME NEW u \in live
        PROVE  /\ tx'[u] \in Row
               /\ tx'[u].linked = tx[u].linked /\ tx'[u].state = tx[u].state
               /\ tx'[u].batch = tx[u].batch /\ tx'[u].series = tx[u].series
               /\ tx'[u].status = IF u = t THEN st ELSE tx[u].status
               /\ \/ u = t
                  \/ paired /\ u = r.linked
                  \/ tx[u].status = "pending"
                  \/ tx'[u] = tx[u]
    <2>1. tx[u] \in Row /\ u \in TxIds BY DEF TypeOK
    <2>2. CASE u = t
      <3> DEFINE n == [r EXCEPT !.account = a, !.amount = amt, !.type = ty, !.status = st]
      <3>1. /\ n \in Row /\ n.linked = r.linked /\ n.state = r.state
            /\ n.batch = r.batch /\ n.series = r.series /\ n.status = st
        BY <1>0, <2>1, <2>2 DEF Row
      <3> QED BY <3>1, <2>2, <1>5
    <2>3. CASE u # t /\ paired /\ u = r.linked
      <3> DEFINE n == [tx[u] EXCEPT !.amount = amt]
      <3>1. /\ n \in Row /\ n.linked = tx[u].linked /\ n.state = tx[u].state
            /\ n.batch = tx[u].batch /\ n.series = tx[u].series
            /\ n.status = tx[u].status
        BY <1>0, <2>1 DEF Row
      <3>2. tx'[u] = n BY <2>1, <2>3, <1>6
      <3> HIDE DEF n
      <3> QED BY <3>1, <3>2, <2>3
    <2>4. CASE u # t /\ ~(paired /\ u = r.linked)
      <3>1. tx'[u] = other(u) BY <2>4, <2>1, <1>3
      <3>2. CASE u \in acctTo \cup F
        <4> DEFINE na == IF u \in acctTo THEN a ELSE tx[u].account
                   nm == IF u \in F THEN amt ELSE tx[u].amount
        <4>1. na \in Accounts /\ nm \in Nat \ {0} BY <2>1, <1>0 DEF Row
        <4>2. other(u) = [tx[u] EXCEPT !.account = na, !.amount = nm]
          BY <2>1 DEF Row
        <4> DEFINE n == [tx[u] EXCEPT !.account = na, !.amount = nm]
        <4> HIDE DEF na, nm
        <4>3. /\ n \in Row /\ n.linked = tx[u].linked /\ n.state = tx[u].state
              /\ n.batch = tx[u].batch /\ n.series = tx[u].series
              /\ n.status = tx[u].status
          BY <4>1, <2>1 DEF Row
        <4>4. tx'[u] = n BY <3>1, <4>2
        <4> HIDE DEF n, other, acctTo
        <4> QED BY <4>3, <4>4, <1>2, <2>4, <3>2
      <3>3. CASE u \notin acctTo \cup F
        BY <3>1, <3>3, <1>4, <2>1, <2>4
      <3> QED BY <3>2, <3>3
    <2> QED BY <2>2, <2>3, <2>4
  <1>8. ASSUME NEW u \in TxIds \ live PROVE tx'[u] = Blank
    <2>1. tx[u] = Blank BY DEF TypeOK
    <2>2. u # t /\ u \notin acctTo /\ u \notin F BY <1>1, <1>2
    <2>3. ~(paired /\ u = r.linked)
      BY <1>1 DEF LinksResolve, IsReciprocalPair
    <2> QED BY <2>1, <2>2, <2>3, <1>3, <1>4
  <1> QED BY <1>1, <1>7, <1>8

\* A step that keeps every link and batch and adds no row to a series keeps
\* the link structure.
LEMMA SameLinks ==
  ASSUME TypeOK, LinksResolve, live' = live,
         \A u \in live : /\ tx'[u].linked = tx[u].linked
                         /\ tx'[u].batch = tx[u].batch
                         /\ tx'[u].series = tx[u].series
  PROVE  /\ LinksResolve'
         /\ OneWayLinkIsMatch => OneWayLinkIsMatch'
         /\ RecurringNotImported => RecurringNotImported'
  <1>1. LinksResolve' BY DEF LinksResolve
  <1>2. ASSUME OneWayLinkIsMatch PROVE OneWayLinkIsMatch'
    BY <1>2 DEF OneWayLinkIsMatch, IsReciprocalPair, LinksResolve
  <1>3. ASSUME RecurringNotImported PROVE RecurringNotImported'
    BY <1>3 DEF RecurringNotImported
  <1> QED BY <1>1, <1>2, <1>3

\* update_transaction keeps the invariant.
LEMMA UpdateKeeps ==
  ASSUME TypeOK, LinksResolve, NEW t \in TxIds, NEW a \in Accounts,
         NEW amt \in Amounts, NEW ty \in Types, NEW st \in Statuses,
         NEW F \in SUBSET SeriesSyncTargets(t),
         UpdateTransaction(t, a, amt, ty, st, F)
  PROVE  Keeps
  <1> DEFINE p    == tx[t].linked
             pBal == IF IsReciprocalPair(tx, t) /\ InBalance(tx, p) THEN {p} ELSE {}
             cb   == ContributesToCachedBalance(tx, t)
             R == pBal \cup (IF tx[t].status = "settled" /\ cb THEN {t} ELSE {})
             A == pBal \cup (IF st = "settled" /\ cb THEN {t} ELSE {})
  <1>1. /\ t \in live /\ Rebook(R, A)
        /\ opening' = opening /\ batch' = batch /\ req' = req
    BY Zenon DEF UpdateTransaction
  <1>2. RowsOK' BY UpdateRows DEF RowsOK, TypeOK
  <1>3. TypeOK' BY <1>1, <1>2, TypeFromRows DEF TypeOK
  <1>4. /\ LinksResolve'
        /\ OneWayLinkIsMatch => OneWayLinkIsMatch'
        /\ RecurringNotImported => RecurringNotImported'
    BY UpdateRows, SameLinks
  <1>5. ASSUME PostedExact PROVE PostedExact'
    \* Links and states are as before, so a row contributes as before.
    <2>1. \A u \in live : ContributesToCachedBalance(tx', u)
                             <=> ContributesToCachedBalance(tx, u)
      <3>1. \A u \in live : /\ tx'[u].linked = tx[u].linked
                            /\ tx'[u].state = tx[u].state
        BY UpdateRows
      <3> QED BY <3>1 DEF ContributesToCachedBalance, LinksResolve
    <2>2. /\ live' = live
          /\ \A u \in live :
               /\ tx'[u].status = IF u = t THEN st ELSE tx[u].status
               /\ \/ u = t
                  \/ IsReciprocalPair(tx, t) /\ u = p
                  \/ tx[u].status = "pending"
                  \/ tx'[u] = tx[u]
      BY UpdateRows
    <2>3. IsReciprocalPair(tx, t) => p \in live \ {t}
      BY <1>1 DEF IsReciprocalPair, LinksResolve
    <2>4. ASSUME NEW u \in TxIds
          PROVE
            \/ /\ u \in R <=> (u \in live /\ InBalance(tx, u))
               /\ u \in A <=> (u \in live' /\ InBalance(tx', u))
            \/ /\ u \notin R /\ u \notin A
               /\ (u \in live /\ InBalance(tx, u)) <=> (u \in live' /\ InBalance(tx', u))
               /\ (u \in live /\ InBalance(tx, u)) =>
                     /\ tx'[u].account = tx[u].account
                     /\ tx'[u].amount = tx[u].amount
                     /\ tx'[u].type = tx[u].type
      <3>1. CASE u \notin live BY <3>1, <1>1, <2>2, <2>3
      <3>2. CASE u = t BY <3>2, <1>1, <2>1, <2>2, <2>3 DEF InBalance
      <3>3. CASE u \in live /\ u # t /\ IsReciprocalPair(tx, t) /\ u = p
        BY <3>3, <2>1, <2>2 DEF InBalance
      <3>4. CASE u \in live /\ u # t /\ ~(IsReciprocalPair(tx, t) /\ u = p)
        BY <3>4, <2>1, <2>2 DEF InBalance
      <3> QED BY <3>1, <3>2, <3>3, <3>4
    <2>5. /\ posted \in [Accounts -> [TxIds -> Int]]
          /\ \A u \in TxIds : tx[u] \in Row \/ tx[u] = Blank
          /\ \A u \in TxIds : tx'[u] \in Row \/ tx'[u] = Blank
      BY <1>2 DEF TypeOK, RowsOK
    <2> HIDE DEF R, A
    <2> QED BY <1>1, <1>5, <2>4, <2>5, RebookExact
  <1> QED BY <1>3, <1>4, <1>5 DEF Keeps

\* The counters after a transition are natural numbers.
LEMMA CounterType ==
  ASSUME TypeOK, NEW b \in Batches, NEW x \in Nat, NEW y \in Nat,
         batch' = [batch EXCEPT ![b].pending = x, ![b].accepted = y]
  PROVE  batch' \in [Batches -> BatchHeader]
  <1> DEFINE h == batch[b]
             n == [h EXCEPT !.pending = x, !.accepted = y]
  <1>1. h \in BatchHeader BY DEF TypeOK
  <1>2. n \in BatchHeader
    <2> HIDE DEF h
    <2> QED BY <1>1 DEF BatchHeader
  <1>3. batch' = [batch EXCEPT ![b] = n] BY DEF TypeOK
  <1> HIDE DEF n
  <1> QED BY <1>2, <1>3 DEF TypeOK

\* A transition that changes a row's state and amount, or links a row that is
\* no transfer leg to a row not linked to it, keeps the invariant.
LEMMA TransitionKeeps ==
  ASSUME TypeOK, LinksResolve, NEW t \in TxIds, NEW row, Transition(t, row),
         t \in live => row \in Row,
         row.account = tx[t].account, row.type = tx[t].type,
         row.status = tx[t].status, row.batch = tx[t].batch,
         row.series = tx[t].series,
         \/ row.linked = tx[t].linked
         \/ /\ row.linked \in live \ {t}
            /\ tx[row.linked].linked # t
            /\ ~IsReciprocalPair(tx, t)
  PROVE  Keeps
  <1> DEFINE source == tx[t].state
             target == row.state
             was    == InBalance(tx, t)
             T      == [tx EXCEPT ![t] = row]
             is     == InBalance(T, t)
             moves  == was # is \/ row.amount # tx[t].amount
             step(n, from, to) == IF from /\ ~to THEN Minus(n, 1)
                                  ELSE IF ~from /\ to THEN n + 1 ELSE n
             b == tx[t].batch
             R == IF moves /\ was THEN {t} ELSE {}
             A == IF moves /\ is THEN {t} ELSE {}
             x == step(batch[b].pending, source \in PendingStates,
                                           target \in PendingStates)
             y == step(batch[b].accepted, source = "accepted",
                                            target = "accepted")
  <1>1. /\ t \in live /\ b # NoBatch /\ tx' = T
        /\ Rebook(R, A) /\ live' = live /\ opening' = opening /\ req' = b
    BY Zenon DEF Transition
  <1>2. b \in Batches /\ tx[t] \in Row /\ row \in Row BY <1>1 DEF TypeOK, Row
  <1>3. batch' \in [Batches -> BatchHeader]
    <2>1. batch' = [batch EXCEPT ![b].pending = x, ![b].accepted = y]
      <3>1. batch' = [batch EXCEPT
               ![b].pending  = step(@, source \in PendingStates,
                                         target \in PendingStates),
               ![b].accepted = step(@, source = "accepted",
                                         target = "accepted")]
        BY Zenon DEF Transition
      <3> HIDE DEF step
      <3>2. batch[b] \in BatchHeader BY <1>2 DEF TypeOK
      <3> QED BY <3>1, <3>2, <1>2 DEF TypeOK, BatchHeader
    <2>2. x \in Nat /\ y \in Nat
      <3>1. batch[b].pending \in Nat /\ batch[b].accepted \in Nat
        BY <1>2 DEF TypeOK, BatchHeader
      <3> QED BY <3>1 DEF Minus
    <2> HIDE DEF x, y
    <2> QED BY <2>1, <2>2, <1>2, CounterType
  <1>4. /\ tx'[t] = row /\ DOMAIN tx' = TxIds
        /\ \A u \in TxIds \ {t} : tx'[u] = tx[u]
    BY <1>1 DEF TypeOK
  <1>5. RowsOK' BY <1>1, <1>2, <1>4 DEF RowsOK, TypeOK
  <1>6. TypeOK'
    <2>1. req' \in Batches \cup {NoBatch} BY <1>1, <1>2
    <2> HIDE DEF R, A
    <2> QED BY <1>1, <1>3, <1>5, <2>1, TypeFromRows
  <1>7. LinksResolve' BY <1>1, <1>4 DEF LinksResolve, TypeOK
  \* The link of any other row is returned after the step as it was before.
  <1>8. ASSUME NEW u \in live \ {t}
        PROVE  /\ tx'[u] = tx[u]
               /\ tx[u].linked # NoTx =>
                    /\ tx[u].linked \in live /\ tx[u].linked # u
                    /\ tx'[tx[u].linked].linked = u <=> tx[tx[u].linked].linked = u
    <2>1. tx'[u] = tx[u] /\ u \in TxIds /\ u # NoTx
      BY <1>4, LedgerAssumption DEF TypeOK
    <2>2. CASE tx[u].linked = t
      BY <2>1, <2>2, <1>1, <1>4 DEF LinksResolve, IsReciprocalPair
    <2>3. CASE tx[u].linked # t
      BY <2>1, <2>3, <1>4 DEF LinksResolve, TypeOK
    <2> QED BY <2>1, <2>2, <2>3
  <1>9. ASSUME OneWayLinkIsMatch PROVE OneWayLinkIsMatch'
    <2> SUFFICES ASSUME NEW u \in live', tx'[u].linked # NoTx,
                        ~(tx'[u].linked # u /\ tx'[tx'[u].linked].linked = u)
                 PROVE  tx'[u].batch # NoBatch
      BY DEF OneWayLinkIsMatch, IsReciprocalPair
    <2>1. CASE u = t BY <2>1, <1>1, <1>4
    <2>2. CASE u # t
      BY <2>2, <1>1, <1>8, <1>9 DEF OneWayLinkIsMatch, IsReciprocalPair
    <2> QED BY <2>1, <2>2
  <1>10. ASSUME RecurringNotImported PROVE RecurringNotImported'
    BY <1>1, <1>4, <1>8, <1>10 DEF RecurringNotImported
  <1>11. ASSUME PostedExact PROVE PostedExact'
    <2>1. ASSUME NEW u \in TxIds
          PROVE
            \/ /\ u \in R <=> (u \in live /\ InBalance(tx, u))
               /\ u \in A <=> (u \in live' /\ InBalance(tx', u))
            \/ /\ u \notin R /\ u \notin A
               /\ (u \in live /\ InBalance(tx, u)) <=> (u \in live' /\ InBalance(tx', u))
               /\ (u \in live /\ InBalance(tx, u)) =>
                     /\ tx'[u].account = tx[u].account
                     /\ tx'[u].amount = tx[u].amount
                     /\ tx'[u].type = tx[u].type
      <3>1. CASE u \notin live BY <3>1, <1>1
      <3>2. CASE u = t
        <4>1. is = InBalance(tx', t) BY <1>1
        <4> HIDE DEF is, was, T
        <4> QED BY <3>2, <4>1, <1>1, <1>4 DEF was
      <3>3. CASE u \in live \ {t}
        <4>1. u \notin R /\ u \notin A /\ u \in live' BY <3>3, <1>1
        <4>2. tx'[u] = tx[u] BY <3>3, <1>8
        <4>3. InBalance(tx', u) <=> InBalance(tx, u)
          BY <3>3, <4>2, <1>8 DEF InBalance, ContributesToCachedBalance
        <4> HIDE DEF R, A
        <4> QED BY <3>3, <4>1, <4>2, <4>3
      <3> QED BY <3>1, <3>2, <3>3
    <2>2. /\ posted \in [Accounts -> [TxIds -> Int]]
          /\ \A u \in TxIds : tx[u] \in Row \/ tx[u] = Blank
          /\ \A u \in TxIds : tx'[u] \in Row \/ tx'[u] = Blank
      BY <1>5 DEF TypeOK, RowsOK
    <2> HIDE DEF R, A
    <2> QED BY <1>1, <1>11, <2>1, <2>2, RebookExact
  <1> QED BY <1>6, <1>7, <1>9, <1>10, <1>11 DEF Keeps

\* An accept, skip, reject or reopen transition keeps the invariant.
LEMMA FlagKeeps ==
  ASSUME TypeOK, LinksResolve, NEW t \in TxIds, NEW target \in ReconStates,
         ReconcileFlag(t, target)
  PROVE  Keeps
  <1> DEFINE r   == tx[t]
             row == [r EXCEPT !.state = target]
  <1>1. Transition(t, row) BY DEF ReconcileFlag
  <1>2. t \in live BY <1>1, Zenon DEF Transition
  <1>3. r \in Row BY <1>2 DEF TypeOK
  <1>4. /\ row \in Row /\ row.account = r.account /\ row.type = r.type
        /\ row.status = r.status /\ row.batch = r.batch /\ row.series = r.series
        /\ row.linked = r.linked
    <2> HIDE DEF r
    <2> QED BY <1>3 DEF Row
  <1> HIDE DEF row
  <1> QED BY <1>1, <1>4, TransitionKeeps

\* An edit transition keeps the invariant.
LEMMA EditKeeps ==
  ASSUME TypeOK, LinksResolve, NEW t \in TxIds, NEW amt \in Amounts,
         ReconcileEdit(t, amt)
  PROVE  Keeps
  <1> DEFINE r   == tx[t]
             row == [r EXCEPT !.state = "edited", !.amount = amt]
  <1>1. Transition(t, row) BY DEF ReconcileEdit
  <1>2. t \in live BY <1>1, Zenon DEF Transition
  <1>3. r \in Row /\ amt \in Nat \ {0} BY <1>2, LedgerAssumption DEF TypeOK
  <1>4. /\ row \in Row /\ row.account = r.account /\ row.type = r.type
        /\ row.status = r.status /\ row.batch = r.batch /\ row.series = r.series
        /\ row.linked = r.linked
    <2> HIDE DEF r
    <2> QED BY <1>3 DEF Row, ReconStates
  <1> HIDE DEF row
  <1> QED BY <1>1, <1>4, TransitionKeeps

\* A match transition keeps the invariant: the guard against a link back keeps
\* the match one-way.
LEMMA MatchKeeps ==
  ASSUME TypeOK, LinksResolve, NEW t \in TxIds, NEW m \in TxIds,
         ReconcileMatch(t, m)
  PROVE  Keeps
  <1> DEFINE r   == tx[t]
             row == [r EXCEPT !.state = "matched", !.linked = m]
  <1>1. /\ Transition(t, row) /\ m \in live \ {t} /\ tx[m].linked # t
        /\ ~IsReciprocalPair(tx, t)
    BY DEF ReconcileMatch
  <1>2. t \in live BY <1>1, Zenon DEF Transition
  <1>3. r \in Row BY <1>2 DEF TypeOK
  <1>4. /\ row \in Row /\ row.account = r.account /\ row.type = r.type
        /\ row.status = r.status /\ row.batch = r.batch /\ row.series = r.series
        /\ row.linked = m
    <2> HIDE DEF r
    <2> QED BY <1>3 DEF Row, ReconStates
  <1> HIDE DEF row
  <1> QED BY <1>1, <1>4, TransitionKeeps

\* A step that leaves rows and money alone keeps the invariant.
LEMMA SameRowsKeeps ==
  ASSUME TypeOK, LinksResolve,
         UNCHANGED <<live, tx, opening, balance, posted>>,
         batch' \in [Batches -> BatchHeader], req' \in Batches \cup {NoBatch}
  PROVE  Keeps
  <1>1. TypeOK' BY DEF TypeOK
  <1>2. LinksResolve' BY DEF LinksResolve
  <1>3. OneWayLinkIsMatch => OneWayLinkIsMatch'
    BY DEF OneWayLinkIsMatch, IsReciprocalPair
  <1>4. RecurringNotImported => RecurringNotImported' BY DEF RecurringNotImported
  <1>5. PostedExact => PostedExact'
    BY DEF PostedExact, InBalance, ContributesToCachedBalance
  <1> QED BY <1>1, <1>2, <1>3, <1>4, <1>5 DEF Keeps

\* The end of a reconcile request keeps the invariant.
LEMMA RequestKeeps ==
  ASSUME TypeOK, LinksResolve, FinishReconcileRequest
  PROVE  Keeps
  <1> DEFINE n == Cardinality(PendingRows(tx, live, req))
             h == CloseIfComplete(batch[req], n)
  <1>1. req \in Batches BY DEF FinishReconcileRequest, TypeOK
  <1>2. n \in Nat
    <2>1. PendingRows(tx, live, req) \subseteq TxIds BY DEF PendingRows, TypeOK
    <2> QED BY <2>1, RowCount
  <1>3. h \in BatchHeader
    <2> HIDE DEF n
    <2> QED BY <1>1, <1>2, CloseType DEF TypeOK
  <1>4. /\ batch' = [batch EXCEPT ![req] = h] /\ req' = NoBatch
        /\ UNCHANGED <<live, tx, opening, balance, posted>>
    BY DEF FinishReconcileRequest
  <1> HIDE DEF h
  <1>5. batch' \in [Batches -> BatchHeader] BY <1>1, <1>3, <1>4 DEF TypeOK
  <1> QED BY <1>4, <1>5, SameRowsKeeps

\* The table and the headers after a step that marks rows in place: links,
\* batches and amounts are as they were.
Marks ==
    /\ live' = live /\ opening' = opening /\ batch' = batch /\ req' = req
    /\ DOMAIN tx' = TxIds
    /\ \A u \in TxIds \ live : tx'[u] = tx[u]
    /\ \A u \in live :
         /\ tx'[u] \in Row /\ tx'[u].linked = tx[u].linked
         /\ tx'[u].batch = tx[u].batch
         /\ tx'[u].account = tx[u].account /\ tx'[u].amount = tx[u].amount
         /\ tx'[u].type = tx[u].type

\* The rows that enter the balance with the step are the rows S.
Enter(S) ==
    \A u \in live : IF u \in S THEN InBalance(tx', u) /\ ~InBalance(tx, u)
                    ELSE InBalance(tx', u) <=> InBalance(tx, u)

\* Marking rows in place, and applying exactly the ones that enter the
\* balance, keeps the types, the links and the posted amounts.
LEMMA MarkKeeps ==
  ASSUME TypeOK, LinksResolve, NEW S, S \subseteq live, Rebook({}, S), Marks
  PROVE  /\ TypeOK' /\ LinksResolve'
         /\ OneWayLinkIsMatch => OneWayLinkIsMatch'
         /\ (\A u \in live : tx'[u].series = tx[u].series) =>
               (RecurringNotImported => RecurringNotImported')
         /\ Enter(S) => (PostedExact => PostedExact')
  <1>1. RowsOK' BY DEF RowsOK, TypeOK, Marks
  <1>2. TypeOK' BY <1>1, TypeFromRows DEF TypeOK, Marks
  <1>3. LinksResolve' BY DEF LinksResolve, Marks
  <1>4. ASSUME OneWayLinkIsMatch PROVE OneWayLinkIsMatch'
    BY <1>4 DEF OneWayLinkIsMatch, IsReciprocalPair, LinksResolve, Marks
  <1>5. ASSUME \A u \in live : tx'[u].series = tx[u].series, RecurringNotImported
        PROVE  RecurringNotImported'
    BY <1>5 DEF RecurringNotImported, Marks
  <1>6. ASSUME Enter(S), PostedExact
        PROVE  PostedExact'
    <2>1. ASSUME NEW t \in TxIds
          PROVE
            \/ /\ t \in {} <=> (t \in live /\ InBalance(tx, t))
               /\ t \in S <=> (t \in live' /\ InBalance(tx', t))
            \/ /\ t \notin {} /\ t \notin S
               /\ (t \in live /\ InBalance(tx, t)) <=> (t \in live' /\ InBalance(tx', t))
               /\ (t \in live /\ InBalance(tx, t)) =>
                     /\ tx'[t].account = tx[t].account
                     /\ tx'[t].amount = tx[t].amount
                     /\ tx'[t].type = tx[t].type
      BY <1>6 DEF Enter, Marks
    <2>2. /\ posted \in [Accounts -> [TxIds -> Int]]
          /\ \A t \in TxIds : tx[t] \in Row \/ tx[t] = Blank
          /\ \A t \in TxIds : tx'[t] \in Row \/ tx'[t] = Blank
      BY <1>1 DEF TypeOK, RowsOK
    <2> QED BY <2>1, <2>2, <1>6, RebookExact
  <1> QED BY <1>2, <1>3, <1>4, <1>5, <1>6

\* skip_occurrence keeps the invariant: a pending row is in no balance.
LEMMA SkipKeeps ==
  ASSUME TypeOK, LinksResolve, NEW t \in TxIds, SkipOccurrence(t)
  PROVE  Keeps
  <1>1. /\ t \in live /\ tx[t].status = "pending"
        /\ tx' = [tx EXCEPT ![t].state = "skipped"]
        /\ Rebook({}, {}) /\ live' = live /\ opening' = opening
        /\ batch' = batch /\ req' = req
    BY DEF SkipOccurrence
  <1>2. tx[t] \in Row /\ DOMAIN tx = TxIds BY <1>1 DEF TypeOK
  <1>3. /\ tx'[t] = [tx[t] EXCEPT !.state = "skipped"] /\ DOMAIN tx' = TxIds
        /\ \A u \in TxIds \ {t} : tx'[u] = tx[u]
    BY <1>1, <1>2
  <1>4. /\ tx'[t] \in Row /\ tx'[t].linked = tx[t].linked
        /\ tx'[t].batch = tx[t].batch /\ tx'[t].account = tx[t].account
        /\ tx'[t].amount = tx[t].amount /\ tx'[t].type = tx[t].type
        /\ tx'[t].series = tx[t].series /\ tx'[t].status = tx[t].status
    BY <1>2, <1>3 DEF Row, ReconStates
  <1>5. \A u \in live :
            /\ tx'[u] \in Row /\ tx'[u].linked = tx[u].linked
            /\ tx'[u].batch = tx[u].batch
            /\ tx'[u].account = tx[u].account /\ tx'[u].amount = tx[u].amount
            /\ tx'[u].type = tx[u].type /\ tx'[u].series = tx[u].series
            /\ tx'[u].status = tx[u].status
            /\ tx'[u].state = tx[u].state \/ tx[u].status = "pending"
    BY <1>1, <1>3, <1>4 DEF TypeOK
  <1>6. \A u \in TxIds \ live : tx'[u] = tx[u] BY <1>1, <1>3
  <1>7. Enter({})
    BY <1>5 DEF Enter, InBalance, ContributesToCachedBalance, LinksResolve
  <1>8. Marks BY <1>1, <1>3, <1>5, <1>6 DEF Marks
  <1> QED BY <1>1, <1>5, <1>7, <1>8, MarkKeeps DEF Keeps

\* promote_to_recurring moves no money; it keeps imported rows out of series
\* if imported rows are not promoted.
LEMMA PromoteKeeps ==
  ASSUME TypeOK, LinksResolve, NEW t \in TxIds, NEW s \in Series,
         PromoteToRecurring(t, s)
  PROVE  /\ TypeOK' /\ LinksResolve'
         /\ OneWayLinkIsMatch => OneWayLinkIsMatch'
         /\ ~PromotesImported => (RecurringNotImported => RecurringNotImported')
         /\ PostedExact => PostedExact'
  <1>1. /\ t \in live /\ (tx[t].batch = NoBatch \/ PromotesImported)
        /\ tx' = [tx EXCEPT ![t].series = s]
        /\ Rebook({}, {}) /\ live' = live /\ opening' = opening
        /\ batch' = batch /\ req' = req
    BY DEF PromoteToRecurring
  <1>2. tx[t] \in Row /\ DOMAIN tx = TxIds BY <1>1 DEF TypeOK
  <1>3. /\ tx'[t] = [tx[t] EXCEPT !.series = s] /\ DOMAIN tx' = TxIds
        /\ \A u \in TxIds \ {t} : tx'[u] = tx[u]
    BY <1>1, <1>2
  <1>4. /\ tx'[t] \in Row /\ tx'[t].linked = tx[t].linked
        /\ tx'[t].batch = tx[t].batch /\ tx'[t].account = tx[t].account
        /\ tx'[t].amount = tx[t].amount /\ tx'[t].type = tx[t].type
        /\ tx'[t].status = tx[t].status /\ tx'[t].state = tx[t].state
    BY <1>2, <1>3 DEF Row
  <1>5. \A u \in live :
            /\ tx'[u] \in Row /\ tx'[u].linked = tx[u].linked
            /\ tx'[u].batch = tx[u].batch
            /\ tx'[u].account = tx[u].account /\ tx'[u].amount = tx[u].amount
            /\ tx'[u].type = tx[u].type /\ tx'[u].status = tx[u].status
            /\ tx'[u].state = tx[u].state
    BY <1>1, <1>3, <1>4 DEF TypeOK
  <1>6. \A u \in TxIds \ live : tx'[u] = tx[u] BY <1>1, <1>3
  <1>7. Enter({})
    BY <1>5 DEF Enter, InBalance, ContributesToCachedBalance, LinksResolve
  <1>8. ASSUME ~PromotesImported, RecurringNotImported PROVE RecurringNotImported'
    BY <1>1, <1>3, <1>5, <1>8 DEF RecurringNotImported, TypeOK
  <1>9. Marks BY <1>1, <1>3, <1>5, <1>6 DEF Marks
  <1> QED BY <1>1, <1>7, <1>8, <1>9, MarkKeeps

\* The auto-settle sweep applies exactly the rows it settles, because a
\* pending row of a series is no match: its link, if any, is returned.
LEMMA SettleKeeps ==
  ASSUME TypeOK, LinksResolve, NEW due \in SUBSET TxIds, SettleDueAuto(due)
  PROVE  /\ TypeOK' /\ LinksResolve'
         /\ OneWayLinkIsMatch => OneWayLinkIsMatch'
         /\ RecurringNotImported => RecurringNotImported'
         /\ OneWayLinkIsMatch /\ RecurringNotImported =>
              (PostedExact => PostedExact')
  <1> DEFINE S == AutoSettleUnits(due)
  <1>1. /\ S \subseteq {t \in live : AwaitsSettlement(t)}
        /\ tx' = [t \in TxIds |-> IF t \in S THEN [tx[t] EXCEPT !.status = "settled"]
                                  ELSE tx[t]]
        /\ Rebook({}, S) /\ live' = live /\ opening' = opening
        /\ batch' = batch /\ req' = req
    BY DEF SettleDueAuto, AutoSettleUnits
  <1> HIDE DEF S
  <1>2. /\ S \subseteq live /\ DOMAIN tx' = TxIds
        /\ \A t \in S : tx'[t] = [tx[t] EXCEPT !.status = "settled"]
        /\ \A t \in TxIds \ S : tx'[t] = tx[t]
    BY <1>1 DEF TypeOK
  <1>3. ASSUME NEW u \in S
        PROVE  /\ tx'[u] \in Row /\ tx'[u].linked = tx[u].linked
               /\ tx'[u].batch = tx[u].batch /\ tx'[u].account = tx[u].account
               /\ tx'[u].amount = tx[u].amount /\ tx'[u].type = tx[u].type
               /\ tx'[u].series = tx[u].series /\ tx'[u].state = tx[u].state
               /\ tx'[u].status = "settled"
    <2>1. tx[u] \in Row BY <1>2 DEF TypeOK
    <2>2. tx'[u] = [tx[u] EXCEPT !.status = "settled"] BY <1>2
    <2> QED BY <2>1, <2>2 DEF Row, Statuses
  <1>4. \A u \in live :
            /\ tx'[u] \in Row /\ tx'[u].linked = tx[u].linked
            /\ tx'[u].batch = tx[u].batch
            /\ tx'[u].account = tx[u].account /\ tx'[u].amount = tx[u].amount
            /\ tx'[u].type = tx[u].type /\ tx'[u].series = tx[u].series
            /\ tx'[u].state = tx[u].state
            /\ tx'[u].status = IF u \in S THEN "settled" ELSE tx[u].status
    BY <1>2, <1>3 DEF TypeOK
  <1>5. \A u \in TxIds \ live : tx'[u] = tx[u] BY <1>2
  <1>6. ASSUME OneWayLinkIsMatch, RecurringNotImported
        PROVE  Enter(S)
    <2>1. \A u \in live : ContributesToCachedBalance(tx', u)
                             <=> ContributesToCachedBalance(tx, u)
      BY <1>4 DEF ContributesToCachedBalance, LinksResolve
    <2>2. \A u \in S : ContributesToCachedBalance(tx, u)
      BY <1>1, <1>6 DEF AwaitsSettlement, RecurringNotImported, OneWayLinkIsMatch,
         IsReciprocalPair, ContributesToCachedBalance
    <2>3. \A u \in S : tx[u].status = "pending" BY <1>1 DEF AwaitsSettlement
    <2> QED BY <1>4, <2>1, <2>2, <2>3 DEF Enter, InBalance
  <1>7. Marks BY <1>1, <1>2, <1>4, <1>5 DEF Marks
  <1> QED BY <1>1, <1>2, <1>4, <1>6, <1>7, MarkKeeps

-----------------------------------------------------------------------------
(* The invariant and the theorems. *)

\* Types, links and the direction of links hold whatever is promoted.
Shape == TypeOK /\ LinksResolve /\ OneWayLinkIsMatch

\* What makes the posted amounts exact.
IInv == Shape /\ RecurringNotImported /\ PostedExact

\* What one step of the specification keeps.
LEMMA NextKeeps ==
  ASSUME TypeOK, LinksResolve, Next
  PROVE  /\ TypeOK' /\ LinksResolve'
         /\ OneWayLinkIsMatch => OneWayLinkIsMatch'
         /\ ~PromotesImported => (RecurringNotImported => RecurringNotImported')
         /\ OneWayLinkIsMatch /\ RecurringNotImported => (PostedExact => PostedExact')
  <1>1. CASE Writes
    <2>1. Keeps
      <3>1. CASE \E t \in TxIds, a \in Accounts, amt \in Amounts, ty \in Types, st \in Statuses :
                    Idle /\ CreateTransaction(t, a, amt, ty, st)
        BY <3>1, Zenon, CreateTransactionKeeps
      <3>2. CASE \E e, i \in TxIds, from, to \in Accounts, amt \in Amounts, st \in Statuses :
                    Idle /\ CreateTransfer(e, i, from, to, amt, st)
        BY <3>2, Zenon, CreateTransferKeeps
      <3>3. CASE \E t \in TxIds, a \in Accounts, target \in Targets :
                    Idle /\ AdjustAccountBalance(t, a, target)
        BY <3>3, Zenon, AdjustKeeps
      <3>4. CASE \E t \in TxIds, a \in Accounts, amt \in Amounts, ty \in Types, st \in Statuses :
                    \E F \in SUBSET SeriesSyncTargets(t) :
                       Idle /\ UpdateTransaction(t, a, amt, ty, st, F)
        BY <3>4, Zenon, UpdateKeeps
      <3>5. CASE \/ \E a \in Accounts, o \in Openings : Idle /\ UpdateOpeningBalance(a, o)
                 \/ \E e, i \in TxIds : Idle /\ PairExistingTransactions(e, i)
                 \/ \E source, t \in TxIds, dst \in Accounts :
                       Idle /\ ConvertAndCreateLeg(source, t, dst)
        BY <3>5, Zenon, OpeningKeeps, PairKeeps, ConvertKeeps
      <3>6. CASE \/ \E t \in TxIds : Idle /\ UnpairTransactions(t)
                 \/ \E t \in TxIds : Idle /\ DeleteTransaction(t)
                 \/ \E ids \in SUBSET TxIds : Idle /\ BulkDeleteTransactions(ids)
        BY <3>6, Zenon, UnpairKeeps, DeleteKeeps, BulkDeleteKeeps
      <3> QED BY <1>1, <3>1, <3>2, <3>3, <3>4, <3>5, <3>6, Zenon DEF Writes
    <2> QED BY <2>1 DEF Keeps
  <1>2. CASE Imports
    <2>1. Keeps
      <3>1. PICK b \in Batches :
              \/ \E t \in TxIds, a \in Accounts, amt \in Amounts, ty \in Types :
                    Idle /\ ImportCreate(b, t, a, amt, ty)
              \/ \E t, p \in TxIds, a \in Accounts : Idle /\ ImportPairWithExisting(b, t, a, p)
              \/ \E e, i \in TxIds, from, to \in Accounts, amt \in Amounts :
                    \E bankLeg \in {e, i} :
                       Idle /\ ImportCreateTransferPair(b, e, i, from, to, amt, bankLeg)
        BY <1>2, Zenon DEF Imports
      <3>2. CASE \E t \in TxIds, a \in Accounts, amt \in Amounts, ty \in Types :
                    Idle /\ ImportCreate(b, t, a, amt, ty)
        BY <3>2, Zenon, ImportCreateKeeps
      <3>3. CASE \E t, p \in TxIds, a \in Accounts : Idle /\ ImportPairWithExisting(b, t, a, p)
        BY <3>3, Zenon, ImportPairKeeps
      <3>4. CASE \E e, i \in TxIds, from, to \in Accounts, amt \in Amounts :
                    \E bankLeg \in {e, i} :
                       Idle /\ ImportCreateTransferPair(b, e, i, from, to, amt, bankLeg)
        <4>1. PICK e \in TxIds, i \in TxIds, from \in Accounts, to \in Accounts, amt \in Amounts :
                \E bankLeg \in {e, i} :
                   Idle /\ ImportCreateTransferPair(b, e, i, from, to, amt, bankLeg)
          BY <3>4, Zenon
        <4>2. PICK bankLeg \in {e, i} : ImportCreateTransferPair(b, e, i, from, to, amt, bankLeg)
          BY <4>1, Zenon
        <4> QED BY <4>2, ImportTransferKeeps
      <3> QED BY <3>1, <3>2, <3>3, <3>4, Zenon
    <2> QED BY <2>1 DEF Keeps
  <1>3. CASE Reviews
    <2>1. {"accepted", "pending_review"} \cup Reverted \subseteq ReconStates
      BY DEF Reverted, ReconStates
    <2>2. CASE \E t \in TxIds, target \in {"accepted", "pending_review"} \cup Reverted :
                  ReconcileFlag(t, target)
      BY <2>1, <2>2, FlagKeeps DEF Keeps
    <2>3. CASE \E t \in TxIds, amt \in Amounts : ReconcileEdit(t, amt)
      BY <2>3, EditKeeps DEF Keeps
    <2>4. CASE \E t, m \in TxIds : ReconcileMatch(t, m)
      BY <2>4, MatchKeeps DEF Keeps
    <2>5. CASE FinishReconcileRequest BY <2>5, RequestKeeps DEF Keeps
    <2> QED BY <1>3, <2>2, <2>3, <2>4, <2>5 DEF Reviews
  <1>4. CASE Recurrences
    <2>1. CASE \/ \E s \in Series, t \in TxIds, a \in Accounts, amt \in Amounts, ty \in Types,
                      mode \in OccurrenceModes : Idle /\ CreateOccurrence(s, t, a, amt, ty, mode)
               \/ \E t \in TxIds : Idle /\ SkipOccurrence(t)
               \/ \E s \in Series, future \in SUBSET TxIds : Idle /\ StopRecurring(s, future)
      <3>1. Keeps BY <2>1, Zenon, CreateOccurrenceKeeps, SkipKeeps, StopKeeps
      <3> QED BY <3>1 DEF Keeps
    <2>2. CASE \E s \in Series, e, i \in TxIds, from, to \in Accounts, amt \in Amounts,
                  mode \in OccurrenceModes :
                     Idle /\ CreateTransferOccurrence(s, e, i, from, to, amt, mode)
      <3>1. Keeps BY <2>2, Zenon, TransferOccurrenceKeeps
      <3> QED BY <3>1 DEF Keeps
    <2>3. CASE \E t \in TxIds, s \in Series : Idle /\ PromoteToRecurring(t, s)
      BY <2>3, Zenon, PromoteKeeps
    <2>4. CASE \E due \in SUBSET TxIds : Idle /\ SettleDueAuto(due)
      BY <2>4, SettleKeeps
    <2> QED BY <1>4, <2>1, <2>2, <2>3, <2>4, Zenon DEF Recurrences
  <1> QED BY <1>1, <1>2, <1>3, <1>4 DEF Next

\* A stuttering step changes none of it.
LEMMA StutterKeeps ==
  ASSUME TypeOK, LinksResolve, UNCHANGED vars
  PROVE  Keeps
  BY SameRowsKeeps DEF vars, TypeOK

\* The initial state: no rows, every balance at its opening balance.
LEMMA InitIInv == Init => IInv
  <1> SUFFICES ASSUME Init PROVE IInv OBVIOUS
  <1>1. TypeOK
    <2>1. NoHeader \in BatchHeader BY DEF NoHeader, BatchHeader
    <2>2. opening \in [Accounts -> Int] BY LedgerAssumption DEF Init
    <2> QED BY <2>1, <2>2 DEF Init, TypeOK
  <1>2. LinksResolve /\ OneWayLinkIsMatch /\ RecurringNotImported
    BY DEF Init, LinksResolve, OneWayLinkIsMatch, RecurringNotImported
  <1>3. PostedExact BY DEF Init, PostedExact
  <1> QED BY <1>1, <1>2, <1>3 DEF IInv, Shape

\* Every handler keeps the shape of every row, header and balance, whatever
\* sequence of requests runs, links always resolve, and a link that is not
\* returned belongs to an imported row.
THEOREM ShapeCorrect == Spec => [](TypeOK /\ LinksResolve /\ OneWayLinkIsMatch)
  <1>1. Init => Shape BY InitIInv DEF IInv
  <1>2. Shape /\ [Next]_vars => Shape'
    <2> SUFFICES ASSUME Shape, [Next]_vars PROVE Shape' OBVIOUS
    <2>1. CASE Next BY <2>1, NextKeeps DEF Shape
    <2>2. CASE UNCHANGED vars BY <2>2, StutterKeeps DEF Shape, Keeps
    <2> QED BY <2>1, <2>2
  <1>3. Shape => TypeOK /\ LinksResolve /\ OneWayLinkIsMatch BY DEF Shape
  <1> QED BY <1>1, <1>2, <1>3, PTL DEF Spec

\* As long as no imported row is promoted to a series, what apply_balance and
\* revert_balance have left of each row in each account is exactly what the
\* balance filter says the row contributes, for any accounts, rows and amounts.
THEOREM PostedCorrect == ~PromotesImported => (Spec => []PostedExact)
  <1> SUFFICES ASSUME ~PromotesImported PROVE Spec => []PostedExact OBVIOUS
  <1>1. Init => IInv BY InitIInv
  <1>2. IInv /\ [Next]_vars => IInv'
    <2> SUFFICES ASSUME IInv, [Next]_vars PROVE IInv' OBVIOUS
    <2>1. CASE Next BY <2>1, NextKeeps DEF IInv, Shape
    <2>2. CASE UNCHANGED vars BY <2>2, StutterKeeps DEF IInv, Shape, Keeps
    <2> QED BY <2>1, <2>2
  <1>3. IInv => PostedExact BY DEF IInv
  <1> QED BY <1>1, <1>2, <1>3, PTL DEF Spec


-----------------------------------------------------------------------------
(* Transfer pairs and adjustments. *)

\* What makes two rows a transfer.
Matching(r, p) ==
    /\ r.type # p.type
    /\ r.account # p.account
    /\ Currency[r.account] = Currency[p.account]
    /\ r.amount = p.amount
    /\ ~r.adjust

\* A manual adjustment has no link, no series and no batch, which is why no
\* handler that follows one of them reaches it.
Plain(r) == r.linked = NoTx /\ r.series = NoSeries /\ r.batch = NoBatch
AdjustPlain == \A t \in live : tx[t].adjust => Plain(tx[t])

Sound == TypeOK /\ LinksResolve /\ AdjustPlain /\ PairShape

\* What one step keeps, and what it may not do.
AdjustKept == \A t \in live : tx[t].adjust => t \in live' /\ tx'[t] = tx[t]
RevertedKept ==
    \A t \in live \cap live' : tx[t].state \in Reverted => tx'[t].state = tx[t].state
StepSound == AdjustPlain' /\ PairShape' /\ AdjustKept /\ RevertedKept

-----------------------------------------------------------------------------
(* Kinds of step on the table. *)

\* The parts of a row that make it a leg.
Same(q, r) ==
    q.type = r.type /\ q.account = r.account /\ q.amount = r.amount /\ q.adjust = r.adjust

\* Handlers that only insert rows: adjustments are plain, and a link leads to a
\* matching row among them.
GoodPairs(new) ==
    /\ DOMAIN new \subseteq TxIds
    /\ \A x \in DOMAIN new :
         /\ new[x].adjust => Plain(new[x])
         /\ new[x].linked # NoTx => /\ new[x].linked \in DOMAIN new
                                    /\ Matching(new[x], new[new[x].linked])

LEMMA InsertSound ==
  ASSUME Sound, NEW new, GoodPairs(new), Insert(new)
  PROVE  StepSound
  <1>1. /\ live' = live \cup DOMAIN new /\ DOMAIN new \cap live = {}
        /\ \A x \in DOMAIN new : tx'[x] = new[x]
        /\ \A x \in live : tx'[x] = tx[x]
    BY DEF Insert, GoodPairs, Sound, TypeOK
  <1>2. AdjustKept /\ RevertedKept
    BY <1>1 DEF AdjustKept, RevertedKept
  <1>3. AdjustPlain'
    BY <1>1 DEF AdjustPlain, Sound, GoodPairs, Plain
  <1>4. PairShape'
    <2> SUFFICES ASSUME NEW t \in live', IsReciprocalPair(tx', t)
                 PROVE  Matching(tx'[t], tx'[tx'[t].linked])
      BY DEF PairShape, Matching, IsReciprocalPair
    <2>1. CASE t \in DOMAIN new
      BY <1>1, <2>1 DEF GoodPairs, IsReciprocalPair
    <2>2. CASE t \in live
      <3>1. tx[t].linked \in live /\ tx'[t] = tx[t] /\ tx'[tx[t].linked] = tx[tx[t].linked]
        BY <1>1, <2>2 DEF Sound, LinksResolve, IsReciprocalPair
      <3> QED BY <2>2, <3>1 DEF Sound, PairShape, Matching, IsReciprocalPair
    <2> QED BY <1>1, <2>1, <2>2
  <1> QED BY <1>2, <1>3, <1>4 DEF StepSound

\* Handlers that make no link, and leave what makes a leg alone.
LEMMA InPlaceSound ==
  ASSUME Sound, LinksResolve', live' \subseteq live,
         \A u \in live : tx[u].adjust => u \in live' /\ tx'[u] = tx[u],
         \A u \in live' : /\ Same(tx'[u], tx[u])
                          /\ tx'[u].linked \in {tx[u].linked, NoTx}
                          /\ tx[u].state \in Reverted => tx'[u].state = tx[u].state
  PROVE  StepSound
  <1>1. AdjustKept /\ RevertedKept
    BY DEF AdjustKept, RevertedKept
  <1>2. AdjustPlain'
    BY DEF AdjustPlain, Sound, Same
  <1>3. PairShape'
    <2> SUFFICES ASSUME NEW t \in live', IsReciprocalPair(tx', t)
                 PROVE  Matching(tx'[t], tx'[tx'[t].linked])
      BY DEF PairShape, Matching, IsReciprocalPair
    <2> DEFINE p == tx[t].linked
    <2>1. tx'[t].linked = p /\ p \in live' /\ p # t /\ tx'[p].linked = t
      BY DEF IsReciprocalPair, LinksResolve
    <2>2. t # NoTx /\ p # NoTx /\ t \in live /\ p \in live
      BY <2>1, LedgerAssumption DEF Sound, TypeOK
    <2>3. tx[p].linked = t
      BY <2>1, <2>2
    <2>4. Matching(tx[t], tx[p])
      BY <2>1, <2>2, <2>3 DEF Sound, PairShape, Matching, IsReciprocalPair
    <2>5. Same(tx'[t], tx[t]) /\ Same(tx'[p], tx[p])
      BY <2>1
    <2> QED BY <2>1, <2>4, <2>5 DEF Matching, Same
  <1> QED BY <1>1, <1>2, <1>3 DEF StepSound

\* Handlers that link t, which may be new, with the unlinked row p.
LEMMA LinkSound ==
  ASSUME Sound, NEW t \in TxIds, NEW p \in live, t # p, live' = live \cup {t},
         \A u \in live \ {t, p} : tx'[u] = tx[u],
         tx[p].linked = NoTx, t \in live => tx[t].linked = NoTx,
         tx'[t].linked = p, tx'[p].linked = t,
         Matching(tx'[t], tx'[p]), Matching(tx'[p], tx'[t]),
         ~tx[p].adjust, tx'[p].state = tx[p].state,
         t \in live => ~tx[t].adjust /\ tx'[t].state = tx[t].state
  PROVE  StepSound
  <1>1. AdjustKept /\ RevertedKept
    BY DEF AdjustKept, RevertedKept
  <1>2. AdjustPlain'
    BY DEF AdjustPlain, Sound, Matching, Plain
  <1>3. PairShape'
    <2> SUFFICES ASSUME NEW u \in live', IsReciprocalPair(tx', u)
                 PROVE  Matching(tx'[u], tx'[tx'[u].linked])
      BY DEF PairShape, Matching, IsReciprocalPair
    <2>1. CASE u \in {t, p}
      BY <2>1
    <2>2. CASE u \notin {t, p}
      <3>1. u \in live /\ tx'[u] = tx[u]
        BY <2>2
      <3>2. tx[u].linked \in live \ {t, p}
        BY <2>2, <3>1 DEF IsReciprocalPair, Sound, LinksResolve
      <3> QED BY <3>1, <3>2 DEF Sound, PairShape, Matching, IsReciprocalPair
    <2> QED BY <2>1, <2>2
  <1> QED BY <1>1, <1>2, <1>3 DEF StepSound

-----------------------------------------------------------------------------
(* Handlers that insert. *)

\* The two legs of create_transfer match, as every pair written from them does.
LEMMA LegsSound ==
  ASSUME Sound, NEW e \in TxIds, NEW i \in TxIds, e # i, NEW from \in Accounts,
         NEW to \in Accounts, from # to, Currency[from] = Currency[to],
         NEW amt, NEW st, NEW new, DOMAIN new = {e, i}, Insert(new),
         \A x \in {e, i} :
            /\ Same(new[x], TransferLegs(e, i, from, to, amt, st)[x])
            /\ new[x].linked = TransferLegs(e, i, from, to, amt, st)[x].linked
  PROVE  StepSound
  <1> DEFINE legs == TransferLegs(e, i, from, to, amt, st)
  <1>1. /\ legs[e] = [NewRow(from, amt, "expense", st) EXCEPT !.linked = i]
        /\ legs[i] = [NewRow(to, amt, "income", st) EXCEPT !.linked = e]
    BY DEF TransferLegs
  <1>2. /\ legs[e].type = "expense" /\ legs[e].account = from /\ legs[e].amount = amt
        /\ legs[e].adjust = FALSE /\ legs[e].linked = i
        /\ legs[i].type = "income" /\ legs[i].account = to /\ legs[i].amount = amt
        /\ legs[i].adjust = FALSE /\ legs[i].linked = e
    BY <1>1 DEF NewRow
  <1> HIDE DEF legs
  <1>3. /\ new[e].type = "expense" /\ new[e].account = from /\ new[e].amount = amt
        /\ new[e].adjust = FALSE /\ new[e].linked = i
        /\ new[i].type = "income" /\ new[i].account = to /\ new[i].amount = amt
        /\ new[i].adjust = FALSE /\ new[i].linked = e
    BY <1>2 DEF legs, Same
  <1>4. Matching(new[e], new[i]) /\ Matching(new[i], new[e])
    BY <1>3 DEF Matching
  <1>5. GoodPairs(new)
    BY <1>3, <1>4 DEF GoodPairs
  <1> QED BY <1>5, InsertSound

LEMMA CreateSound ==
  ASSUME Sound, NEW t \in TxIds, NEW a, NEW amt, NEW ty, NEW st,
         CreateTransaction(t, a, amt, ty, st)
  PROVE  StepSound
  <1> DEFINE row == NewRow(a, amt, ty, st)
             new == [x \in {t} |-> row]
  <1>1. Insert(new) BY DEF CreateTransaction
  <1>2. row.adjust = FALSE /\ row.linked = NoTx BY DEF NewRow
  <1> HIDE DEF row
  <1>3. GoodPairs(new) BY <1>2 DEF GoodPairs
  <1> QED BY <1>1, <1>3, InsertSound

LEMMA AdjustSound ==
  ASSUME Sound, NEW t \in TxIds, NEW a, NEW target, AdjustAccountBalance(t, a, target)
  PROVE  StepSound
  <1>1. PICK amt, ty : Insert([x \in {t} |-> [NewRow(a, amt, ty, "settled") EXCEPT !.adjust = TRUE]])
    BY DEF AdjustAccountBalance
  <1> DEFINE row == [NewRow(a, amt, ty, "settled") EXCEPT !.adjust = TRUE]
             new == [x \in {t} |-> row]
  <1>2. Plain(row) BY DEF NewRow, Plain
  <1> HIDE DEF row
  <1>3. GoodPairs(new) BY <1>2 DEF GoodPairs, Plain
  <1> QED BY <1>1, <1>3, InsertSound DEF row

LEMMA TransferSound ==
  ASSUME Sound, NEW e \in TxIds, NEW i \in TxIds, NEW from \in Accounts, NEW to \in Accounts,
         NEW amt, NEW st, CreateTransfer(e, i, from, to, amt, st)
  PROVE  StepSound
  <1> DEFINE new == TransferLegs(e, i, from, to, amt, st)
  <1>1. e # i /\ from # to /\ Currency[from] = Currency[to] /\ Insert(new)
    BY DEF CreateTransfer
  <1>2. DOMAIN new = {e, i} BY DEF TransferLegs
  <1> HIDE DEF new
  <1> QED BY <1>1, <1>2, LegsSound DEF Same, new

LEMMA ImportCreateSound ==
  ASSUME Sound, NEW b, NEW t \in TxIds, NEW a, NEW amt, NEW ty, ImportCreate(b, t, a, amt, ty)
  PROVE  StepSound
  <1> DEFINE row == Imported(b, NewRow(a, amt, ty, "settled"))
             new == [x \in {t} |-> row]
  <1>1. Insert(new) BY DEF ImportCreate
  <1>2. row.adjust = FALSE /\ row.linked = NoTx BY DEF Imported, NewRow
  <1> HIDE DEF row
  <1>3. GoodPairs(new) BY <1>2 DEF GoodPairs
  <1> QED BY <1>1, <1>3, InsertSound

LEMMA ImportTransferSound ==
  ASSUME Sound, NEW b, NEW e \in TxIds, NEW i \in TxIds, NEW from \in Accounts, NEW to \in Accounts,
         NEW amt \in Amounts, NEW bankLeg \in {e, i},
         ImportCreateTransferPair(b, e, i, from, to, amt, bankLeg)
  PROVE  StepSound
  <1> DEFINE legs == TransferLegs(e, i, from, to, amt, "settled")
             new  == [x \in {e, i} |-> IF x = bankLeg THEN Imported(b, legs[x]) ELSE legs[x]]
  <1>1. e # i /\ from # to /\ Currency[from] = Currency[to] /\ Insert(new)
    BY DEF ImportCreateTransferPair
  <1>2. \A x \in {e, i} : legs[x] \in Row
    BY <1>1, TransferLegsType DEF GoodLegs, Statuses
  <1>3. ASSUME NEW x \in {e, i}
        PROVE  Same(new[x], legs[x]) /\ new[x].linked = legs[x].linked
    <2> DEFINE r == legs[x]
    <2>1. r \in Row BY <1>2
    <2>2. new[x] \in {r, [r EXCEPT !.batch = b]} BY DEF Imported
    <2> HIDE DEF r, new
    <2> QED BY <2>1, <2>2 DEF Row, Same, r
  <1>4. DOMAIN new = {e, i} OBVIOUS
  <1> HIDE DEF new
  <1> QED BY <1>1, <1>3, <1>4, LegsSound

LEMMA OccurrenceSound ==
  ASSUME Sound, NEW s, NEW t \in TxIds, NEW a, NEW amt, NEW ty, NEW mode,
         CreateOccurrence(s, t, a, amt, ty, mode)
  PROVE  StepSound
  <1> DEFINE row == [NewRow(a, amt, ty, mode[1]) EXCEPT !.series = s, !.state = mode[2]]
             new == [x \in {t} |-> row]
  <1>1. Insert(new) BY DEF CreateOccurrence
  <1>2. row.adjust = FALSE /\ row.linked = NoTx BY DEF NewRow
  <1> HIDE DEF row
  <1>3. GoodPairs(new) BY <1>2 DEF GoodPairs
  <1> QED BY <1>1, <1>3, InsertSound

LEMMA TransferOccurrenceSound ==
  ASSUME Sound, NEW s, NEW e \in TxIds, NEW i \in TxIds, NEW from \in Accounts, NEW to \in Accounts,
         NEW amt \in Amounts, NEW mode \in OccurrenceModes,
         CreateTransferOccurrence(s, e, i, from, to, amt, mode)
  PROVE  StepSound
  <1> DEFINE st   == mode[1]
             q    == mode[2]
             legs == TransferLegs(e, i, from, to, amt, st)
             new  == [x \in {e, i} |-> [legs[x] EXCEPT !.series = s, !.state = q]]
  <1>1. e # i /\ from # to /\ Currency[from] = Currency[to] /\ Insert(new)
    BY DEF CreateTransferOccurrence
  <1>2. st \in Statuses BY ModeType
  <1> HIDE DEF st, q
  <1>3. \A x \in {e, i} : legs[x] \in Row
    <2>1. GoodLegs(legs, e, i, st) BY <1>1, <1>2, TransferLegsType
    <2> HIDE DEF legs
    <2> QED BY <2>1 DEF GoodLegs
  <1>4. ASSUME NEW x \in {e, i}
        PROVE  Same(new[x], legs[x]) /\ new[x].linked = legs[x].linked
    <2> DEFINE r == legs[x]
    <2>1. r \in Row BY <1>3
    <2>2. new[x] = [r EXCEPT !.series = s, !.state = q] OBVIOUS
    <2> HIDE DEF r, new
    <2> QED BY <2>1, <2>2 DEF Row, Same, r
  <1>5. DOMAIN new = {e, i} OBVIOUS
  <1> HIDE DEF new
  <1> QED BY <1>1, <1>4, <1>5, LegsSound

-----------------------------------------------------------------------------
(* Handlers that link and unlink. *)

\* What pairs the expense e with the income i makes them match.
LEMMA GuardsMatch ==
  ASSUME NEW e, NEW i, LinkPairGuards(e, i), NEW q, NEW r, Same(q, e), Same(r, i)
  PROVE  Matching(q, r) /\ Matching(r, q)
  BY DEF LinkPairGuards, Same, Matching

\* Linking changes nothing else of a row.
LEMMA LinkedSame ==
  ASSUME NEW r \in Row, NEW l
  PROVE  /\ Same([r EXCEPT !.linked = l], r) /\ [r EXCEPT !.linked = l].linked = l
         /\ [r EXCEPT !.linked = l].state = r.state
  BY DEF Row, Same

\* pair_existing_transactions links two rows that match.
LEMMA PairSound ==
  ASSUME Sound, NEW e \in TxIds, NEW i \in TxIds, PairExistingTransactions(e, i)
  PROVE  StepSound
  <1>1. /\ e \in live /\ i \in live /\ LinkPairGuards(tx[e], tx[i])
        /\ tx' = [tx EXCEPT ![e].linked = i, ![i].linked = e] /\ live' = live
    BY DEF PairExistingTransactions
  <1>2. /\ e # i /\ tx[e].linked = NoTx /\ tx[i].linked = NoTx
        /\ ~tx[e].adjust /\ ~tx[i].adjust
    BY <1>1 DEF LinkPairGuards
  <1>3. tx[e] \in Row /\ tx[i] \in Row /\ DOMAIN tx = TxIds BY <1>1 DEF Sound, TypeOK
  <1>4. /\ tx'[e] = [tx[e] EXCEPT !.linked = i] /\ tx'[i] = [tx[i] EXCEPT !.linked = e]
        /\ \A u \in live \ {e, i} : tx'[u] = tx[u]
    BY <1>1, <1>2, <1>3 DEF Sound, TypeOK
  <1>5. /\ Same(tx'[e], tx[e]) /\ tx'[e].linked = i /\ tx'[e].state = tx[e].state
        /\ Same(tx'[i], tx[i]) /\ tx'[i].linked = e /\ tx'[i].state = tx[i].state
    BY <1>3, <1>4, LinkedSame
  <1>6. Matching(tx'[e], tx'[i]) /\ Matching(tx'[i], tx'[e])
    BY <1>1, <1>5, GuardsMatch
  <1>7. live' = live \cup {e} BY <1>1
  <1> QED BY <1>1, <1>2, <1>4, <1>5, <1>6, <1>7, LinkSound

\* A new row linked with an existing one matches it.
LEMMA InsertLinkedSound ==
  ASSUME Sound, NEW t \in TxIds, NEW p \in live, NEW new \in Row, InsertLinked(t, new, p)
  PROVE  StepSound
  <1>1. /\ t \notin live /\ live' = live \cup {t}
        /\ tx' = [tx EXCEPT ![t] = [new EXCEPT !.linked = p], ![p].linked = t]
        /\ LinkPairGuards(new, tx[p]) \/ LinkPairGuards(tx[p], new)
    BY DEF InsertLinked
  <1>2. t # p /\ tx[p].linked = NoTx /\ ~tx[p].adjust
    BY <1>1 DEF LinkPairGuards
  <1>3. tx[p] \in Row /\ DOMAIN tx = TxIds /\ p \in TxIds BY DEF Sound, TypeOK
  <1>4. /\ tx'[t] = [new EXCEPT !.linked = p] /\ tx'[p] = [tx[p] EXCEPT !.linked = t]
        /\ \A u \in live \ {t, p} : tx'[u] = tx[u]
    BY <1>1, <1>2, <1>3 DEF Sound, TypeOK
  <1>5. /\ Same(tx'[t], new) /\ tx'[t].linked = p
        /\ Same(tx'[p], tx[p]) /\ tx'[p].linked = t /\ tx'[p].state = tx[p].state
    BY <1>3, <1>4, LinkedSame
  <1>6. Matching(tx'[t], tx'[p]) /\ Matching(tx'[p], tx'[t])
    BY <1>1, <1>5, GuardsMatch
  <1> QED BY <1>1, <1>2, <1>4, <1>5, <1>6, LinkSound

LEMMA ConvertSound ==
  ASSUME Sound, NEW source \in TxIds, NEW t \in TxIds, NEW dst \in Accounts,
         ConvertAndCreateLeg(source, t, dst)
  PROVE  StepSound
  <1> DEFINE s   == tx[source]
             new == NewRow(dst, s.amount, Opposite(s.type), s.status)
  <1>1. source \in live /\ InsertLinked(t, new, source) BY DEF ConvertAndCreateLeg
  <1>2. s \in Row BY <1>1 DEF Sound, TypeOK
  <1>3. new \in Row BY <1>2 DEF NewRow, Row, Types, ReconStates, Opposite
  <1> HIDE DEF new
  <1> QED BY <1>1, <1>3, InsertLinkedSound

LEMMA ImportPairSound ==
  ASSUME Sound, NEW b \in Batches, NEW t \in TxIds, NEW a \in Accounts, NEW p \in TxIds,
         ImportPairWithExisting(b, t, a, p)
  PROVE  StepSound
  <1> DEFINE q   == tx[p]
             row == NewRow(a, q.amount, Opposite(q.type), "settled")
             new == Imported(b, row)
  <1>1. p \in live /\ InsertLinked(t, new, p) BY DEF ImportPairWithExisting
  <1>2. q \in Row BY <1>1 DEF Sound, TypeOK
  <1>3. row \in Row BY <1>2 DEF NewRow, Row, Types, Statuses, ReconStates, Opposite
  <1> HIDE DEF row
  <1>4. new \in Row BY <1>3, SetBatch DEF Imported
  <1> HIDE DEF new
  <1> QED BY <1>1, <1>4, InsertLinkedSound

\* unpair_transactions unlinks both legs, which a manual adjustment never is.
LEMMA UnpairSound ==
  ASSUME Sound, LinksResolve', NEW t \in TxIds, UnpairTransactions(t)
  PROVE  StepSound
  <1> DEFINE p == tx[t].linked
  <1>1. /\ t \in live /\ p # NoTx /\ p # t /\ tx[p].linked = t /\ live' = live
        /\ tx' = [tx EXCEPT ![t].linked = NoTx, ![p].linked = NoTx]
    BY DEF UnpairTransactions, IsReciprocalPair
  <1>2. p \in live /\ t # NoTx BY <1>1, LedgerAssumption DEF Sound, LinksResolve
  <1>3. tx[t] \in Row /\ tx[p] \in Row /\ DOMAIN tx = TxIds /\ p \in TxIds
    BY <1>1, <1>2 DEF Sound, TypeOK
  <1>4. /\ tx'[t] = [tx[t] EXCEPT !.linked = NoTx]
        /\ tx'[p] = [tx[p] EXCEPT !.linked = NoTx]
        /\ \A u \in live \ {t, p} : tx'[u] = tx[u]
    BY <1>1, <1>3 DEF Sound, TypeOK
  <1>5. ~tx[t].adjust /\ ~tx[p].adjust
    BY <1>1, <1>2 DEF Sound, AdjustPlain, Plain
  <1>6. ASSUME NEW u \in live
        PROVE  /\ Same(tx'[u], tx[u]) /\ tx'[u].linked \in {tx[u].linked, NoTx}
               /\ tx'[u].state = tx[u].state
    <2>1. CASE u = t BY <2>1, <1>3, <1>4, LinkedSame
    <2>2. CASE u = p BY <2>2, <1>3, <1>4, LinkedSame
    <2>3. CASE u \notin {t, p} BY <2>3, <1>4 DEF Same
    <2> QED BY <2>1, <2>2, <2>3
  <1> QED BY <1>1, <1>4, <1>5, <1>6, InPlaceSound

-----------------------------------------------------------------------------
(* Handlers that delete. *)

\* What Without leaves of the rows that stay.
LEMMA WithoutSound ==
  ASSUME Sound, NEW D, D \subseteq live, NEW u \in live \ D
  PROVE  /\ Without(D)[u] \in Row
         /\ Same(Without(D)[u], tx[u]) /\ Without(D)[u].linked \in {tx[u].linked, NoTx}
         /\ tx[u].state \in Reverted => Without(D)[u].state = tx[u].state
         /\ tx[u].adjust => Without(D)[u] = tx[u]
  <1> DEFINE r == tx[u]
             s == IF u \in Orphans(D) THEN "rejected" ELSE r.state
             l == IF r.linked \in D THEN NoTx ELSE r.linked
             n == [r EXCEPT !.state = s, !.linked = l]
  <1>1. r \in Row /\ u \in TxIds /\ NoTx \notin D
    BY LedgerAssumption DEF Sound, TypeOK
  <1>2. Without(D)[u] = n BY <1>1 DEF Without
  <1>3. s \in ReconStates /\ l \in TxIds \cup {NoTx} BY <1>1 DEF Row, ReconStates
  <1>4. r.state \in Reverted => s = r.state BY DEF Orphans
  <1>5. r.adjust => s = r.state /\ l = r.linked
    BY <1>1 DEF Orphans, Sound, AdjustPlain, Plain
  <1>6. l \in {r.linked, NoTx} OBVIOUS
  <1> HIDE DEF r, s, l
  <1>7. /\ n \in Row /\ Same(n, r) /\ n.linked = l /\ n.state = s
        /\ s = r.state /\ l = r.linked => n = r
    BY <1>1, <1>3 DEF Row, Same
  <1> HIDE DEF n
  <1> QED BY <1>2, <1>4, <1>5, <1>6, <1>7 DEF r

\* No manual adjustment is among the rows that a request and its transfer
\* partners delete.
LEMMA PartnerNotAdjust ==
  ASSUME Sound, NEW t \in live, ~tx[t].adjust
  PROVE  WithPartner(t) \subseteq live /\ \A u \in WithPartner(t) : ~tx[u].adjust
  BY LedgerAssumption DEF WithPartner, IsReciprocalPair, Sound, LinksResolve, AdjustPlain, Plain, TypeOK

\* Deleting rows that are no manual adjustment.
LEMMA RemoveSound ==
  ASSUME Sound, LinksResolve', NEW D, D \subseteq live, \A u \in D : ~tx[u].adjust,
         tx' = Without(D), live' = live \ D
  PROVE  StepSound
  <1>1. ASSUME NEW u \in live'
        PROVE  /\ Same(tx'[u], tx[u]) /\ tx'[u].linked \in {tx[u].linked, NoTx}
               /\ tx[u].state \in Reverted => tx'[u].state = tx[u].state
    BY WithoutSound
  <1>2. ASSUME NEW u \in live, tx[u].adjust
        PROVE  u \in live' /\ tx'[u] = tx[u]
    <2>1. u \in live \ D BY <1>2
    <2> QED BY <2>1, <1>2, WithoutSound
  <1> QED BY <1>1, <1>2, InPlaceSound

LEMMA DeleteSound ==
  ASSUME Sound, LinksResolve', NEW t \in TxIds, DeleteTransaction(t)
  PROVE  StepSound
  <1>1. /\ t \in live /\ ~tx[t].adjust /\ tx' = Without(WithPartner(t))
        /\ live' = live \ WithPartner(t)
    BY DEF DeleteTransaction, Remove
  <1> QED BY <1>1, PartnerNotAdjust, RemoveSound

LEMMA BulkDeleteSound ==
  ASSUME Sound, LinksResolve', NEW ids \in SUBSET TxIds, BulkDeleteTransactions(ids)
  PROVE  StepSound
  <1> DEFINE D == UNION {WithPartner(t) : t \in {u \in ids \cap live : ~tx[u].adjust}}
  <1>1. tx' = Without(D) /\ live' = live \ D BY DEF BulkDeleteTransactions, Remove
  <1>2. D \subseteq live /\ \A u \in D : ~tx[u].adjust BY PartnerNotAdjust
  <1> HIDE DEF D
  <1> QED BY <1>1, <1>2, RemoveSound

\* stop_recurring deletes rows of a series, which no manual adjustment is in.
LEMMA StopSound ==
  ASSUME Sound, LinksResolve', NEW s \in Series, NEW future \in SUBSET TxIds,
         StopRecurring(s, future)
  PROVE  StepSound
  <1> DEFINE D == {t \in future : IsReciprocalPair(tx, t) => tx[t].linked \in future}
             W == Without(D)
  <1>1. /\ D \subseteq {t \in live : tx[t].series = s} /\ live' = live \ D
        /\ tx' = [u \in TxIds |-> [W[u] EXCEPT !.series = IF @ = s THEN NoSeries ELSE @]]
    BY DEF StopRecurring, Remove
  <1>2. s # NoSeries /\ \A u \in live : tx[u].adjust => tx[u].series # s
    BY LedgerAssumption DEF Sound, AdjustPlain, Plain
  <1>3. \A u \in live \ D :
           /\ W[u] \in Row
           /\ Same(W[u], tx[u]) /\ W[u].linked \in {tx[u].linked, NoTx}
           /\ tx[u].state \in Reverted => W[u].state = tx[u].state
           /\ tx[u].adjust => W[u] = tx[u]
    BY <1>1, WithoutSound
  <1> HIDE DEF D, W
  <1>4. ASSUME NEW u \in live \ D
        PROVE  /\ Same(tx'[u], W[u]) /\ tx'[u].linked = W[u].linked
               /\ tx'[u].state = W[u].state
               /\ W[u].series # s => tx'[u] = W[u]
    <2> DEFINE r == W[u]
               q == IF r.series = s THEN NoSeries ELSE r.series
    <2>1. r \in Row BY <1>3
    <2>2. tx'[u] = [r EXCEPT !.series = q] BY <1>1 DEF Sound, TypeOK
    <2>3. r.series # s => q = r.series OBVIOUS
    <2> HIDE DEF r, q
    <2> QED BY <2>1, <2>2, <2>3 DEF Row, Same, r
  <1>5. ASSUME NEW u \in live'
        PROVE  /\ Same(tx'[u], tx[u]) /\ tx'[u].linked \in {tx[u].linked, NoTx}
               /\ tx[u].state \in Reverted => tx'[u].state = tx[u].state
    <2>1. u \in live \ D BY <1>1
    <2>2. /\ Same(tx'[u], W[u]) /\ tx'[u].linked = W[u].linked
          /\ tx'[u].state = W[u].state
      BY <2>1, <1>4
    <2>3. /\ Same(W[u], tx[u]) /\ W[u].linked \in {tx[u].linked, NoTx}
          /\ tx[u].state \in Reverted => W[u].state = tx[u].state
      BY <2>1, <1>3
    <2> QED BY <2>2, <2>3 DEF Same
  <1>6. \A u \in live : tx[u].adjust => u \in live' /\ tx'[u] = tx[u]
    BY <1>1, <1>2, <1>3, <1>4
  <1> QED BY <1>1, <1>5, <1>6, InPlaceSound

-----------------------------------------------------------------------------
(* Handlers that change a row that stays. *)

\* A row that is no leg before the step nor after it may change.
LEMMA SingleSound ==
  ASSUME Sound, NEW t \in live, ~tx[t].adjust, tx[t].state \notin Reverted,
         live' = live, \A u \in live \ {t} : tx'[u] = tx[u],
         ~tx'[t].adjust, ~IsReciprocalPair(tx', t)
  PROVE  StepSound
  <1>1. AdjustKept /\ RevertedKept
    BY DEF AdjustKept, RevertedKept
  <1>2. AdjustPlain'
    BY DEF AdjustPlain, Sound
  <1>3. PairShape'
    <2> SUFFICES ASSUME NEW u \in live', IsReciprocalPair(tx', u)
                 PROVE  Matching(tx'[u], tx'[tx'[u].linked])
      BY DEF PairShape, Matching, IsReciprocalPair
    <2>1. u \in live /\ u # t /\ tx'[u] = tx[u] /\ u # NoTx
      BY LedgerAssumption DEF Sound, TypeOK
    <2>2. tx[u].linked # t
      BY <2>1 DEF IsReciprocalPair
    <2>3. tx[u].linked \in live \ {t}
      BY <2>1, <2>2 DEF IsReciprocalPair, Sound, LinksResolve
    <2> QED BY <2>1, <2>3 DEF Sound, PairShape, Matching, IsReciprocalPair
  <1> QED BY <1>1, <1>2, <1>3 DEF StepSound

\* A transition starts from a row that is imported, so no manual adjustment,
\* and that review has not taken out.
LEMMA TransitionStart ==
  ASSUME Sound, NEW t, NEW row, Transition(t, row)
  PROVE  /\ t \in live /\ t \in TxIds /\ tx[t] \in Row /\ ~tx[t].adjust
         /\ tx[t].state \notin Reverted
         /\ live' = live /\ tx'[t] = row /\ \A u \in live \ {t} : tx'[u] = tx[u]
  <1>1. /\ t \in live /\ tx[t].batch # NoBatch /\ live' = live
        /\ tx' = [tx EXCEPT ![t] = row]
        /\ row.state \in AllowedTransitions(tx[t].state)
    BY Zenon DEF Transition
  <1>2. tx[t] \in Row /\ t \in TxIds /\ DOMAIN tx = TxIds /\ live \subseteq TxIds
    BY <1>1 DEF Sound, TypeOK
  <1>3. tx[t].state \notin Reverted
    BY <1>1 DEF AllowedTransitions, Reverted, PendingStates
  <1>4. ~tx[t].adjust BY <1>1 DEF Sound, AdjustPlain, Plain
  <1> QED BY <1>1, <1>2, <1>3, <1>4

LEMMA FlagSound ==
  ASSUME Sound, LinksResolve', NEW t \in TxIds, NEW target, ReconcileFlag(t, target)
  PROVE  StepSound
  <1> DEFINE r == tx[t]
             row == [r EXCEPT !.state = target]
  <1>1. Transition(t, row) BY DEF ReconcileFlag
  <1>2. /\ t \in live /\ r \in Row /\ ~r.adjust /\ r.state \notin Reverted
        /\ live' = live /\ tx'[t] = row /\ \A u \in live \ {t} : tx'[u] = tx[u]
    BY <1>1, TransitionStart
  <1>3. Same(row, r) /\ row.linked = r.linked
    <2> HIDE DEF r
    <2> QED BY <1>2 DEF Row, Same
  <1> HIDE DEF row
  <1>4. ASSUME NEW u \in live'
        PROVE  /\ Same(tx'[u], tx[u]) /\ tx'[u].linked \in {tx[u].linked, NoTx}
               /\ tx[u].state \in Reverted => tx'[u].state = tx[u].state
    <2>1. CASE u = t BY <2>1, <1>2, <1>3
    <2>2. CASE u # t BY <2>2, <1>2 DEF Same
    <2> QED BY <2>1, <2>2
  <1> QED BY <1>2, <1>4, InPlaceSound

\* Only a row that is no leg has its amount edited.
LEMMA EditSound ==
  ASSUME Sound, NEW t \in TxIds, NEW amt, ReconcileEdit(t, amt)
  PROVE  StepSound
  <1> DEFINE r == tx[t]
             row == [r EXCEPT !.state = "edited", !.amount = amt]
  <1>1. Transition(t, row) /\ ~IsReciprocalPair(tx, t) BY DEF ReconcileEdit
  <1>2. /\ t \in live /\ r \in Row /\ ~r.adjust /\ r.state \notin Reverted
        /\ live' = live /\ tx'[t] = row /\ \A u \in live \ {t} : tx'[u] = tx[u]
    BY <1>1, TransitionStart
  <1>3. row.linked = r.linked /\ row.adjust = r.adjust
    <2> HIDE DEF r
    <2> QED BY <1>2 DEF Row
  <1> HIDE DEF row
  <1>4. ~IsReciprocalPair(tx', t)
    BY <1>1, <1>2, <1>3 DEF IsReciprocalPair, Sound, LinksResolve
  <1> QED BY <1>2, <1>3, <1>4, SingleSound

\* A match never makes a leg: its target is not linked back.
LEMMA MatchSound ==
  ASSUME Sound, NEW t \in TxIds, NEW m \in TxIds, ReconcileMatch(t, m)
  PROVE  StepSound
  <1> DEFINE r == tx[t]
             row == [r EXCEPT !.state = "matched", !.linked = m]
  <1>1. Transition(t, row) /\ m \in live \ {t} /\ tx[m].linked # t BY DEF ReconcileMatch
  <1>2. /\ t \in live /\ r \in Row /\ ~r.adjust /\ r.state \notin Reverted
        /\ live' = live /\ tx'[t] = row /\ \A u \in live \ {t} : tx'[u] = tx[u]
    BY <1>1, TransitionStart
  <1>3. row.linked = m /\ row.adjust = r.adjust
    <2> HIDE DEF r
    <2> QED BY <1>2 DEF Row
  <1> HIDE DEF row
  <1>4. ~IsReciprocalPair(tx', t)
    BY <1>1, <1>2, <1>3 DEF IsReciprocalPair
  <1> QED BY <1>2, <1>3, <1>4, SingleSound

\* Steps that leave what makes a leg, and every link, of every row alone.
LEMMA MarkSound ==
  ASSUME Sound, LinksResolve', live' = live, NEW S \in SUBSET live,
         \A u \in live \ S : tx'[u] = tx[u],
         \A u \in S : /\ ~tx[u].adjust /\ Same(tx'[u], tx[u])
                      /\ tx'[u].linked = tx[u].linked
                      /\ tx[u].state \in Reverted => tx'[u].state = tx[u].state
  PROVE  StepSound
  <1>1. \A u \in live : tx[u].adjust => u \in live' /\ tx'[u] = tx[u]
    OBVIOUS
  <1>2. ASSUME NEW u \in live'
        PROVE  /\ Same(tx'[u], tx[u]) /\ tx'[u].linked \in {tx[u].linked, NoTx}
               /\ tx[u].state \in Reverted => tx'[u].state = tx[u].state
    <2>1. CASE u \in S BY <2>1
    <2>2. CASE u \notin S BY <2>2 DEF Same
    <2> QED BY <2>1, <2>2
  <1> QED BY <1>1, <1>2, InPlaceSound

LEMMA SkipSound ==
  ASSUME Sound, LinksResolve', NEW t \in TxIds, SkipOccurrence(t)
  PROVE  StepSound
  <1>1. /\ t \in live /\ tx[t].series # NoSeries /\ tx[t].state = "accepted"
        /\ tx' = [tx EXCEPT ![t].state = "skipped"] /\ live' = live
    BY DEF SkipOccurrence
  <1>2. tx[t] \in Row /\ DOMAIN tx = TxIds BY <1>1 DEF Sound, TypeOK
  <1>3. /\ tx'[t] = [tx[t] EXCEPT !.state = "skipped"]
        /\ \A u \in live \ {t} : tx'[u] = tx[u]
    BY <1>1, <1>2 DEF Sound, TypeOK
  <1>4. Same(tx'[t], tx[t]) /\ tx'[t].linked = tx[t].linked
    BY <1>2, <1>3 DEF Row, Same
  <1>5. ~tx[t].adjust /\ tx[t].state \notin Reverted
    BY <1>1 DEF Sound, AdjustPlain, Plain, Reverted
  <1>6. ASSUME NEW u \in live'
        PROVE  /\ Same(tx'[u], tx[u]) /\ tx'[u].linked \in {tx[u].linked, NoTx}
               /\ tx[u].state \in Reverted => tx'[u].state = tx[u].state
    <2>1. CASE u = t BY <2>1, <1>4, <1>5
    <2>2. CASE u # t
      <3>1. tx'[u] = tx[u] BY <2>2, <1>1, <1>3
      <3> QED BY <3>1 DEF Same
    <2> QED BY <2>1, <2>2
  <1>7. live' \subseteq live /\ \A u \in live : tx[u].adjust => u \in live' /\ tx'[u] = tx[u]
    BY <1>1, <1>3, <1>5
  <1> QED BY <1>6, <1>7, InPlaceSound

LEMMA PromoteSound ==
  ASSUME Sound, LinksResolve', NEW t \in TxIds, NEW s \in Series, PromoteToRecurring(t, s)
  PROVE  StepSound
  <1>1. /\ t \in live /\ ~tx[t].adjust
        /\ tx' = [tx EXCEPT ![t].series = s] /\ live' = live
    BY DEF PromoteToRecurring
  <1>2. tx[t] \in Row /\ DOMAIN tx = TxIds BY <1>1 DEF Sound, TypeOK
  <1>3. /\ tx'[t] = [tx[t] EXCEPT !.series = s]
        /\ \A u \in live \ {t} : tx'[u] = tx[u]
    BY <1>1, <1>2 DEF Sound, TypeOK
  <1>4. Same(tx'[t], tx[t]) /\ tx'[t].linked = tx[t].linked /\ tx'[t].state = tx[t].state
    BY <1>2, <1>3 DEF Row, Same
  <1>5. ASSUME NEW u \in live'
        PROVE  /\ Same(tx'[u], tx[u]) /\ tx'[u].linked \in {tx[u].linked, NoTx}
               /\ tx[u].state \in Reverted => tx'[u].state = tx[u].state
    <2>1. CASE u = t BY <2>1, <1>4
    <2>2. CASE u # t
      <3>1. tx'[u] = tx[u] BY <2>2, <1>1, <1>3
      <3> QED BY <3>1 DEF Same
    <2> QED BY <2>1, <2>2
  <1>6. live' \subseteq live /\ \A u \in live : tx[u].adjust => u \in live' /\ tx'[u] = tx[u]
    BY <1>1, <1>3
  <1> QED BY <1>5, <1>6, InPlaceSound

LEMMA SettleSound ==
  ASSUME Sound, LinksResolve', NEW due \in SUBSET TxIds, SettleDueAuto(due)
  PROVE  StepSound
  <1> DEFINE S == AutoSettleUnits(due)
  <1>1. /\ S \subseteq {t \in live : AwaitsSettlement(t)} /\ live' = live
        /\ tx' = [t \in TxIds |-> IF t \in S THEN [tx[t] EXCEPT !.status = "settled"]
                                  ELSE tx[t]]
    BY DEF SettleDueAuto, AutoSettleUnits
  <1> HIDE DEF S
  <1>2. /\ S \in SUBSET live /\ live \subseteq TxIds
        /\ \A u \in live \ S : tx'[u] = tx[u]
    BY <1>1 DEF Sound, TypeOK
  <1>3. ASSUME NEW u \in S
        PROVE  /\ ~tx[u].adjust /\ Same(tx'[u], tx[u]) /\ tx'[u].linked = tx[u].linked
               /\ tx'[u].state = tx[u].state
    <2>1. tx[u] \in Row /\ u \in live BY <1>2 DEF Sound, TypeOK
    <2>2. tx'[u] = [tx[u] EXCEPT !.status = "settled"] BY <1>1, <1>2
    <2>3. ~tx[u].adjust
      BY <1>1, <2>1 DEF AwaitsSettlement, Sound, AdjustPlain, Plain
    <2> QED BY <2>1, <2>2, <2>3 DEF Row, Same
  <1> QED BY <1>1, <1>2, <1>3, MarkSound

\* What update_transaction leaves of what makes a leg.
LEMMA UpdateLegs ==
  ASSUME Sound, NEW t \in TxIds, NEW a \in Accounts, NEW amt \in Amounts,
         NEW ty \in Types, NEW st \in Statuses, NEW F \in SUBSET SeriesSyncTargets(t),
         UpdateTransaction(t, a, amt, ty, st, F)
  PROVE  /\ t \in live /\ ~tx[t].adjust
         /\ tx'[t].account = a /\ tx'[t].amount = amt /\ tx'[t].type = ty
         /\ IsReciprocalPair(tx, t) =>
               LET p == tx[t].linked IN
               /\ ty = tx[t].type /\ a # tx[p].account /\ Currency[a] = Currency[tx[p].account]
               /\ tx'[p].account = tx[p].account /\ tx'[p].type = tx[p].type
               /\ tx'[p].amount = amt
         /\ \A u \in live : tx'[u].adjust = tx[u].adjust
         /\ \A u \in live : \/ u = t
                            \/ IsReciprocalPair(tx, t) /\ u = tx[t].linked
                            \/ u \in PendingSiblings(t)
                            \/ tx'[u] = tx[u]
  <1> DEFINE r == tx[t]
             p == r.linked
             paired == IsReciprocalPair(tx, t)
             acctTo == IF a # r.account THEN PendingSiblings(t) ELSE {}
             na(u) == IF u \in acctTo THEN a ELSE tx[u].account
             nm(u) == IF u \in F THEN amt ELSE tx[u].amount
  <1>1. /\ t \in live /\ ~r.adjust
        /\ paired => ty = r.type /\ a # tx[p].account /\ Currency[a] = Currency[tx[p].account]
    BY Zenon DEF UpdateTransaction
  <1>2. tx' = [u \in TxIds |->
                 CASE u = t ->
                        [r EXCEPT !.account = a, !.amount = amt,
                                  !.type = ty, !.status = st]
                   [] u # t /\ paired /\ u = p ->
                        [tx[u] EXCEPT !.amount = amt]
                   [] OTHER ->
                        [tx[u] EXCEPT
                           !.account = IF u \in acctTo THEN a ELSE @,
                           !.amount  = IF u \in F THEN amt ELSE @]]
    BY Zenon DEF UpdateTransaction
  <1>3. \A u \in live : tx[u] \in Row /\ u \in TxIds BY DEF Sound, TypeOK
  <1>4. /\ tx'[t].account = a /\ tx'[t].amount = amt /\ tx'[t].type = ty
        /\ tx'[t].adjust = r.adjust
    <2>1. tx'[t] = [r EXCEPT !.account = a, !.amount = amt, !.type = ty, !.status = st]
      BY <1>2
    <2>2. r \in Row BY <1>1, <1>3
    <2> HIDE DEF r
    <2> QED BY <2>1, <2>2 DEF Row
  <1>5. ASSUME paired
        PROVE  /\ p \in live /\ p # t
               /\ tx'[p].account = tx[p].account /\ tx'[p].type = tx[p].type
               /\ tx'[p].amount = amt /\ tx'[p].adjust = tx[p].adjust
    <2>1. p \in live /\ p # t BY <1>1, <1>5 DEF Sound, LinksResolve, IsReciprocalPair
    <2>2. tx'[p] = [tx[p] EXCEPT !.amount = amt] BY <1>2, <1>3, <1>5, <2>1
    <2>3. tx[p] \in Row BY <1>3, <2>1
    <2> HIDE DEF p
    <2> QED BY <2>1, <2>2, <2>3 DEF Row
  <1>6. ASSUME NEW u \in live, u # t, ~(paired /\ u = p)
        PROVE  tx'[u].adjust = tx[u].adjust /\ (u \in PendingSiblings(t) \/ tx'[u] = tx[u])
    <2>1. tx'[u] = [tx[u] EXCEPT !.account = na(u), !.amount = nm(u)]
      <3>1. tx'[u] = [tx[u] EXCEPT !.account = IF u \in acctTo THEN a ELSE @,
                                   !.amount  = IF u \in F THEN amt ELSE @]
        BY <1>2, <1>3, <1>6
      <3>2. tx[u] \in Row BY <1>3
      <3> HIDE DEF acctTo
      <3> QED BY <3>1, <3>2 DEF Row
    <2>2. tx[u] \in Row BY <1>3
    <2>3. u \notin PendingSiblings(t) => na(u) = tx[u].account /\ nm(u) = tx[u].amount
      BY DEF SeriesSyncTargets
    <2> HIDE DEF na, nm
    <2>4. tx'[u].adjust = tx[u].adjust BY <2>1, <2>2 DEF Row
    <2>5. u \notin PendingSiblings(t) => tx'[u] = tx[u]
      BY <2>1, <2>2, <2>3 DEF Row
    <2> QED BY <2>4, <2>5
  <1>7. ASSUME NEW u \in live
        PROVE  /\ tx'[u].adjust = tx[u].adjust
               /\ u = t \/ (paired /\ u = p) \/ u \in PendingSiblings(t) \/ tx'[u] = tx[u]
    <2> HIDE DEF na, nm, acctTo, paired, p
    <2>1. CASE u = t BY <2>1, <1>4
    <2>2. CASE u # t /\ paired /\ u = p BY <2>2, <1>5
    <2>3. CASE u # t /\ ~(paired /\ u = p) BY <2>3, <1>6
    <2> QED BY <2>1, <2>2, <2>3
  <1>8. paired => /\ tx'[p].account = tx[p].account /\ tx'[p].type = tx[p].type
                  /\ tx'[p].amount = amt
    BY <1>5
  <1>9. \A u \in live : tx'[u].adjust = tx[u].adjust BY <1>7
  <1>10. \A u \in live : \/ u = t \/ (paired /\ u = p)
                         \/ u \in PendingSiblings(t) \/ tx'[u] = tx[u]
    BY <1>7
  <1> QED BY <1>1, <1>4, <1>8, <1>9, <1>10

\* update_transaction keeps a pair a pair: both legs take the new amount, and
\* the type and the currency of the edited one stay.
LEMMA UpdateSound ==
  ASSUME Sound, NEW t \in TxIds, NEW a \in Accounts, NEW amt \in Amounts,
         NEW ty \in Types, NEW st \in Statuses, NEW F \in SUBSET SeriesSyncTargets(t),
         UpdateTransaction(t, a, amt, ty, st, F)
  PROVE  StepSound
  <1> DEFINE p == tx[t].linked
             paired == IsReciprocalPair(tx, t)
  <1>1. /\ live' = live
        /\ \A u \in live : /\ tx'[u].linked = tx[u].linked /\ tx'[u].state = tx[u].state
                           /\ tx'[u].batch = tx[u].batch /\ tx'[u].series = tx[u].series
    BY UpdateRows DEF Sound
  <1>2. /\ t \in live /\ ~tx[t].adjust
        /\ tx'[t].account = a /\ tx'[t].amount = amt /\ tx'[t].type = ty
        /\ paired => /\ ty = tx[t].type /\ a # tx[p].account
                     /\ Currency[a] = Currency[tx[p].account]
                     /\ tx'[p].account = tx[p].account /\ tx'[p].type = tx[p].type
                     /\ tx'[p].amount = amt
    BY UpdateLegs
  <1>3. \A u \in live : tx'[u].adjust = tx[u].adjust BY UpdateLegs
  <1>4. \A u \in live : \/ u = t \/ (paired /\ u = p)
                        \/ u \in PendingSiblings(t) \/ tx'[u] = tx[u]
    BY UpdateLegs
  <1>5. AdjustPlain' BY <1>1, <1>3 DEF Sound, AdjustPlain, Plain
  <1>6. RevertedKept BY <1>1 DEF RevertedKept
  <1>7. AdjustKept
    <2> SUFFICES ASSUME NEW u \in live, tx[u].adjust
                 PROVE  u \in live' /\ tx'[u] = tx[u]
      BY DEF AdjustKept
    <2>1. tx[u].linked = NoTx /\ tx[u].series = NoSeries
      BY DEF Sound, AdjustPlain, Plain
    <2>2. u # t /\ ~(paired /\ u = p)
      BY <1>2, <2>1, LedgerAssumption DEF IsReciprocalPair, Sound, TypeOK
    <2>3. u \notin PendingSiblings(t) BY <2>1 DEF PendingSiblings
    <2> QED BY <1>1, <1>4, <2>2, <2>3
  <1>8. PairShape'
    <2> SUFFICES ASSUME NEW u \in live', IsReciprocalPair(tx', u)
                 PROVE  Matching(tx'[u], tx'[tx'[u].linked])
      BY DEF PairShape, Matching, IsReciprocalPair
    <2> DEFINE v == tx[u].linked
    <2>1. /\ u \in live /\ v \in live /\ v # u /\ v # NoTx /\ u # NoTx
          /\ tx'[u].linked = v /\ tx[v].linked = u
      BY <1>1, LedgerAssumption DEF IsReciprocalPair, Sound, LinksResolve, TypeOK
    <2>2. Matching(tx[u], tx[v]) /\ Matching(tx[v], tx[u])
      BY <2>1 DEF Sound, PairShape, Matching, IsReciprocalPair
    <2>3. u \notin PendingSiblings(t) /\ v \notin PendingSiblings(t)
      BY <2>1 DEF PendingSiblings
    <2>4. CASE u = t
      <3>1. v = p /\ paired BY <2>1, <2>4 DEF IsReciprocalPair
      <3> HIDE DEF v, p, paired
      <3> QED BY <1>2, <1>3, <2>1, <2>2, <2>4, <3>1 DEF Matching
    <2>5. CASE v = t
      <3>1. u = p /\ paired BY <2>1, <2>5 DEF IsReciprocalPair
      <3> HIDE DEF v, p, paired
      <3> QED BY <1>2, <1>3, <2>1, <2>2, <2>5, <3>1 DEF Matching
    <2>6. CASE u # t /\ v # t
      <3>1. ~(paired /\ u = p) /\ ~(paired /\ v = p)
        BY <2>1, <2>6 DEF IsReciprocalPair
      <3>2. tx'[u] = tx[u] /\ tx'[v] = tx[v] BY <1>4, <2>1, <2>3, <2>6, <3>1
      <3> QED BY <2>1, <2>2, <3>2
    <2> QED BY <2>4, <2>5, <2>6
  <1> QED BY <1>5, <1>6, <1>7, <1>8 DEF StepSound

\* A step that leaves the table alone.
LEMMA SameRowsSound ==
  ASSUME Sound, UNCHANGED <<live, tx>>
  PROVE  StepSound
  BY DEF Sound, StepSound, AdjustPlain, AdjustKept, RevertedKept, PairShape,
     IsReciprocalPair, Plain

-----------------------------------------------------------------------------
(* The invariant and the theorems. *)

LEMMA NextSound ==
  ASSUME Sound, Next
  PROVE  Sound' /\ StepSound
  <1>1. TypeOK' /\ LinksResolve' BY NextKeeps DEF Sound
  <1>2. StepSound
    <2>1. CASE Writes
      <3>1. CASE \E t \in TxIds, a \in Accounts, amt \in Amounts, ty \in Types, st \in Statuses :
                    Idle /\ CreateTransaction(t, a, amt, ty, st)
        BY <3>1, Zenon, CreateSound
      <3>2. CASE \E e, i \in TxIds, from, to \in Accounts, amt \in Amounts, st \in Statuses :
                    Idle /\ CreateTransfer(e, i, from, to, amt, st)
        BY <3>2, Zenon, TransferSound
      <3>3. CASE \E t \in TxIds, a \in Accounts, target \in Targets :
                    Idle /\ AdjustAccountBalance(t, a, target)
        BY <3>3, Zenon, AdjustSound
      <3>4. CASE \E t \in TxIds, a \in Accounts, amt \in Amounts, ty \in Types, st \in Statuses :
                    \E F \in SUBSET SeriesSyncTargets(t) :
                       Idle /\ UpdateTransaction(t, a, amt, ty, st, F)
        BY <3>4, Zenon, UpdateSound
      <3>5. CASE \/ \E e, i \in TxIds : Idle /\ PairExistingTransactions(e, i)
                 \/ \E source, t \in TxIds, dst \in Accounts :
                       Idle /\ ConvertAndCreateLeg(source, t, dst)
                 \/ \E t \in TxIds : Idle /\ UnpairTransactions(t)
        BY <1>1, <3>5, Zenon, PairSound, ConvertSound, UnpairSound
      <3>6. CASE \/ \E t \in TxIds : Idle /\ DeleteTransaction(t)
                 \/ \E ids \in SUBSET TxIds : Idle /\ BulkDeleteTransactions(ids)
        BY <1>1, <3>6, Zenon, DeleteSound, BulkDeleteSound
      <3>7. CASE \E a \in Accounts, o \in Openings : Idle /\ UpdateOpeningBalance(a, o)
        <4>1. UNCHANGED <<live, tx>> BY <3>7 DEF UpdateOpeningBalance
        <4> QED BY <4>1, SameRowsSound
      <3> QED BY <2>1, <3>1, <3>2, <3>3, <3>4, <3>5, <3>6, <3>7, Zenon DEF Writes
    <2>2. CASE Imports
      <3>1. PICK b \in Batches :
              \/ \E t \in TxIds, a \in Accounts, amt \in Amounts, ty \in Types :
                    Idle /\ ImportCreate(b, t, a, amt, ty)
              \/ \E t, p \in TxIds, a \in Accounts : Idle /\ ImportPairWithExisting(b, t, a, p)
              \/ \E e, i \in TxIds, from, to \in Accounts, amt \in Amounts :
                    \E bankLeg \in {e, i} :
                       Idle /\ ImportCreateTransferPair(b, e, i, from, to, amt, bankLeg)
        BY <2>2, Zenon DEF Imports
      <3>2. CASE \E t \in TxIds, a \in Accounts, amt \in Amounts, ty \in Types :
                    Idle /\ ImportCreate(b, t, a, amt, ty)
        BY <3>2, Zenon, ImportCreateSound
      <3>3. CASE \E t, p \in TxIds, a \in Accounts : Idle /\ ImportPairWithExisting(b, t, a, p)
        BY <3>3, Zenon, ImportPairSound
      <3>4. CASE \E e, i \in TxIds, from, to \in Accounts, amt \in Amounts :
                    \E bankLeg \in {e, i} :
                       Idle /\ ImportCreateTransferPair(b, e, i, from, to, amt, bankLeg)
        <4>1. PICK e \in TxIds, i \in TxIds, from \in Accounts, to \in Accounts, amt \in Amounts :
                \E bankLeg \in {e, i} :
                   Idle /\ ImportCreateTransferPair(b, e, i, from, to, amt, bankLeg)
          BY <3>4, Zenon
        <4>2. PICK bankLeg \in {e, i} : ImportCreateTransferPair(b, e, i, from, to, amt, bankLeg)
          BY <4>1, Zenon
        <4> QED BY <4>2, ImportTransferSound
      <3> QED BY <3>1, <3>2, <3>3, <3>4, Zenon
    <2>3. CASE Reviews
      <3>1. CASE \E t \in TxIds, target \in {"accepted", "pending_review"} \cup Reverted :
                    ReconcileFlag(t, target)
        BY <1>1, <3>1, Zenon, FlagSound
      <3>2. CASE \E t \in TxIds, amt \in Amounts : ReconcileEdit(t, amt)
        BY <3>2, Zenon, EditSound
      <3>3. CASE \E t, m \in TxIds : ReconcileMatch(t, m)
        BY <3>3, Zenon, MatchSound
      <3>4. CASE FinishReconcileRequest
        <4>1. UNCHANGED <<live, tx>> BY <3>4 DEF FinishReconcileRequest
        <4> QED BY <4>1, SameRowsSound
      <3> QED BY <2>3, <3>1, <3>2, <3>3, <3>4, Zenon DEF Reviews
    <2>4. CASE Recurrences
      <3>1. CASE \/ \E t \in TxIds : Idle /\ SkipOccurrence(t)
                 \/ \E t \in TxIds, s \in Series : Idle /\ PromoteToRecurring(t, s)
                 \/ \E due \in SUBSET TxIds : Idle /\ SettleDueAuto(due)
                 \/ \E s \in Series, future \in SUBSET TxIds : Idle /\ StopRecurring(s, future)
        BY <1>1, <3>1, Zenon, SkipSound, PromoteSound, SettleSound, StopSound
      <3>2. CASE \E s \in Series, t \in TxIds, a \in Accounts, amt \in Amounts, ty \in Types,
                    mode \in OccurrenceModes : Idle /\ CreateOccurrence(s, t, a, amt, ty, mode)
        BY <3>2, Zenon, OccurrenceSound
      <3>3. CASE \E s \in Series, e, i \in TxIds, from, to \in Accounts, amt \in Amounts,
                    mode \in OccurrenceModes :
                       Idle /\ CreateTransferOccurrence(s, e, i, from, to, amt, mode)
        BY <3>3, Zenon, TransferOccurrenceSound
      <3> QED BY <2>4, <3>1, <3>2, <3>3, Zenon DEF Recurrences
    <2> QED BY <2>1, <2>2, <2>3, <2>4 DEF Next
  <1> QED BY <1>1, <1>2 DEF Sound, StepSound

LEMMA StutterSound ==
  ASSUME Sound, UNCHANGED vars
  PROVE  Sound' /\ StepSound
  <1>1. TypeOK' /\ LinksResolve' BY StutterKeeps DEF Sound, Keeps
  <1>2. StepSound BY SameRowsSound DEF vars
  <1> QED BY <1>1, <1>2 DEF Sound, StepSound

LEMMA InitSound == Init => Sound
  <1> SUFFICES ASSUME Init PROVE Sound OBVIOUS
  <1>1. TypeOK /\ LinksResolve BY InitIInv DEF IInv, Shape
  <1>2. AdjustPlain /\ PairShape BY DEF Init, AdjustPlain, PairShape
  <1> QED BY <1>1, <1>2 DEF Sound

\* Every row keeps its type, every link leads to another row, and two rows that
\* link to each other are a transfer of one amount between two accounts of one
\* currency, whatever edits, matches, unlinks and deletions run.
THEOREM RowsCorrect == Spec => []RowsSound
  <1>1. Init => Sound BY InitSound
  <1>2. Sound /\ [Next]_vars => Sound' BY NextSound, StutterSound
  <1>3. Sound => RowsSound BY DEF Sound, RowsSound
  <1> QED BY <1>1, <1>2, <1>3, PTL DEF Spec

\* No handler edits, links, reviews or deletes a manual adjustment
\* (is_manual_adjustment).
THEOREM AdjustmentsCorrect == Spec => AdjustmentsImmutable
  <1>1. Init => Sound BY InitSound
  <1>2. Sound /\ [Next]_vars => Sound' BY NextSound, StutterSound
  <1>3. Sound /\ [Next]_vars =>
          [\A t \in live : tx[t].adjust => t \in live' /\ tx'[t] = tx[t]]_vars
    BY NextSound DEF StepSound, AdjustKept
  <1> QED BY <1>1, <1>2, <1>3, PTL DEF Spec, AdjustmentsImmutable

\* A row that review skipped or rejected stays so while it exists.
THEOREM RevertedCorrect == Spec => RevertedIsTerminal
  <1>1. Init => Sound BY InitSound
  <1>2. Sound /\ [Next]_vars => Sound' BY NextSound, StutterSound
  <1>3. Sound /\ [Next]_vars =>
          [\A t \in live \cap live' :
              tx[t].state \in Reverted => tx'[t].state = tx[t].state]_vars
    BY NextSound DEF StepSound, RevertedKept
  <1> QED BY <1>1, <1>2, <1>3, PTL DEF Spec, RevertedIsTerminal

-----------------------------------------------------------------------------
(* The cached balances.  Whatever a handler reverts and applies, the       *)
(* balance of an account moves by what its rows' posted amounts move by in *)
(* all, so it stays at the opening balance plus their sum; and the posted  *)
(* amounts are exactly what the balance filter keeps.                      *)

BalanceIsPosted == \A a \in Accounts : balance[a] = opening[a] + Sum(posted[a], TxIds)

\* What a step does to the money: one Rebook, nothing, or a new opening balance.
Moves ==
    \/ opening' = opening /\ \E R, A \in SUBSET TxIds : Rebook(R, A)
    \/ UNCHANGED <<opening, balance, posted>>
    \/ \E a \in Accounts, o \in Openings : UpdateOpeningBalance(a, o)

\* The integer sum of the ledger is the sum.
LEMMA TotalIsSum ==
  ASSUME NEW f, NEW S, Sum(f, S) \in Int
  PROVE  Total(f, S) = Sum(f, S)
  BY DEF Total, Sum, MapThenSumSet, MapThenFoldSet

LEMMA RebookBalance ==
  ASSUME TypeOK, TypeOK', BalanceIsPosted, opening' = opening,
         NEW R \in SUBSET TxIds, NEW A \in SUBSET TxIds, Rebook(R, A)
  PROVE  BalanceIsPosted'
  <1> SUFFICES ASSUME NEW a \in Accounts
               PROVE  balance'[a] = opening[a] + Sum(posted'[a], TxIds)
    BY DEF BalanceIsPosted
  <1> DEFINE d == [t \in R \cup A |-> Entry(tx', A, a, t) - Entry(tx, R, a, t)]
             e == [t \in TxIds |-> Entry(tx', A, a, t) - Entry(tx, R, a, t)]
             was == posted[a]
             is == posted'[a]
  <1>1. IsFiniteSet(TxIds) BY LedgerAssumption
  <1>2. \A t \in TxIds : /\ Entry(tx', A, a, t) \in Int /\ Entry(tx, R, a, t) \in Int
                         /\ was[t] \in Int /\ e[t] \in Int /\ is[t] = was[t] + e[t]
    <2>1. \A t \in TxIds : Entry(tx', A, a, t) \in Int /\ Entry(tx, R, a, t) \in Int
      BY EntryInt DEF TypeOK
    <2>2. \A t \in TxIds : was[t] \in Int
      BY DEF TypeOK
    <2>3. \A t \in TxIds :
             is[t] = posted[a][t] - Entry(tx, R, a, t) + Entry(tx', A, a, t)
      BY DEF Rebook
    <2> QED BY <2>1, <2>2, <2>3
  <1>3. \A t \in TxIds \ (R \cup A) : e[t] = 0
    BY DEF Entry
  <1>4. \A t \in R \cup A : e[t] = d[t] /\ e[t] \in Int
    BY <1>2
  <1>5. balance'[a] = balance[a] + Total(d, R \cup A)
    BY DEF Rebook
  <1> HIDE DEF d, e, was, is
  <1>6. Sum(is, TxIds) = Sum(was, TxIds) + Sum(e, TxIds)
        /\ Sum(was, TxIds) \in Int /\ Sum(e, TxIds) \in Int
    <2>1. Sum(is, TxIds) = Sum(was, TxIds) + Sum(e, TxIds)
      BY <1>1, <1>2, SumPlus
    <2>2. Sum(was, TxIds) \in Int
      BY <1>1, <1>2, SumEqual
    <2>3. Sum(e, TxIds) \in Int
      BY <1>1, <1>2, SumEqual
    <2> QED BY <2>1, <2>2, <2>3
  <1>7. Sum(e, TxIds) = Sum(e, R \cup A)
    BY <1>1, <1>2, <1>3, SumExtend
  <1>8. Sum(e, R \cup A) = Sum(d, R \cup A)
    <2>1. IsFiniteSet(R \cup A) BY <1>1, FS_Subset
    <2> QED BY <1>4, <2>1, SumEqual
  <1>9. Total(d, R \cup A) = Sum(e, TxIds)
    BY <1>6, <1>7, <1>8, TotalIsSum
  <1>10. balance[a] = opening[a] + Sum(was, TxIds) /\ opening[a] \in Int
    BY DEF BalanceIsPosted, TypeOK, was
  <1>11. balance'[a] = opening[a] + Sum(is, TxIds)
    BY <1>5, <1>6, <1>9, <1>10
  <1> QED BY <1>11 DEF is

LEMMA OpeningBalance ==
  ASSUME TypeOK, BalanceIsPosted, NEW b \in Accounts, NEW o \in Openings,
         UpdateOpeningBalance(b, o)
  PROVE  BalanceIsPosted'
  <1> SUFFICES ASSUME NEW a \in Accounts
               PROVE  balance'[a] = opening'[a] + Sum(posted[a], TxIds)
    BY DEF BalanceIsPosted, UpdateOpeningBalance
  <1> DEFINE s == Sum(posted[a], TxIds)
  <1>1. s \in Int
    <2> DEFINE f == posted[a]
    <2>1. IsFiniteSet(TxIds) /\ \A t \in TxIds : f[t] \in Int BY LedgerAssumption DEF TypeOK
    <2> HIDE DEF f
    <2>2. Sum(f, TxIds) \in Int BY <2>1, SumEqual
    <2> QED BY <2>2 DEF f
  <1>2. balance[a] = opening[a] + s BY DEF BalanceIsPosted
  <1> HIDE DEF s
  <1>3. /\ opening \in [Accounts -> Int] /\ balance \in [Accounts -> Int] /\ o \in Int
        /\ opening' = [opening EXCEPT ![b] = o]
        /\ balance' = [balance EXCEPT ![b] = @ + o - opening[b]]
    BY LedgerAssumption DEF TypeOK, UpdateOpeningBalance
  <1>4. balance'[a] = opening'[a] + s BY <1>1, <1>2, <1>3
  <1> QED BY <1>4 DEF s

LEMMA MovesKeep ==
  ASSUME TypeOK, TypeOK', BalanceIsPosted, Moves
  PROVE  BalanceIsPosted'
  <1>1. CASE opening' = opening /\ \E R, A \in SUBSET TxIds : Rebook(R, A)
    BY <1>1, RebookBalance
  <1>2. CASE UNCHANGED <<opening, balance, posted>>
    BY <1>2 DEF BalanceIsPosted
  <1>3. CASE \E a \in Accounts, o \in Openings : UpdateOpeningBalance(a, o)
    BY <1>3, OpeningBalance
  <1> QED BY <1>1, <1>2, <1>3 DEF Moves

\* The rows whose amounts move are rows of the table.
LEMMA RebookMoves ==
  ASSUME opening' = opening, NEW R \in SUBSET TxIds, NEW A \in SUBSET TxIds, Rebook(R, A)
  PROVE  Moves
  BY DEF Moves

LEMMA WritesMove ==
  ASSUME TypeOK, LinksResolve, Writes
  PROVE  Moves
  <1>1. ASSUME NEW t \in TxIds, NEW a, NEW amt, NEW ty, NEW st, CreateTransaction(t, a, amt, ty, st)
        PROVE  Moves
    BY <1>1, RebookMoves DEF CreateTransaction, Settled
  <1>2. ASSUME NEW e \in TxIds, NEW i \in TxIds, NEW from, NEW to, NEW amt, NEW st,
               CreateTransfer(e, i, from, to, amt, st)
        PROVE  Moves
    BY <1>2, RebookMoves DEF CreateTransfer, Settled
  <1>3. ASSUME NEW t \in TxIds, NEW a, NEW target, AdjustAccountBalance(t, a, target)
        PROVE  Moves
    BY <1>3, RebookMoves DEF AdjustAccountBalance
  <1>4. ASSUME NEW t \in TxIds, NEW a, NEW amt, NEW ty, NEW st, NEW F,
               UpdateTransaction(t, a, amt, ty, st, F)
        PROVE  Moves
    <2>1. IsReciprocalPair(tx, t) => tx[t].linked \in TxIds
      BY <1>4 DEF IsReciprocalPair, TypeOK, LinksResolve, UpdateTransaction
    <2> DEFINE pBal == IF IsReciprocalPair(tx, t) /\ InBalance(tx, tx[t].linked)
                       THEN {tx[t].linked} ELSE {}
               inBal == ContributesToCachedBalance(tx, t)
               R == pBal \cup (IF tx[t].status = "settled" /\ inBal THEN {t} ELSE {})
               A == pBal \cup (IF st = "settled" /\ inBal THEN {t} ELSE {})
    <2>2. R \in SUBSET TxIds /\ A \in SUBSET TxIds
      BY <2>1
    <2>3. Rebook(R, A) /\ opening' = opening
      BY <1>4 DEF UpdateTransaction
    <2> HIDE DEF R, A
    <2> QED BY <2>2, <2>3, RebookMoves
  <1>5. ASSUME NEW e \in TxIds, NEW i \in TxIds, PairExistingTransactions(e, i)
        PROVE  Moves
    BY <1>5, RebookMoves DEF PairExistingTransactions
  <1>6. ASSUME NEW source \in TxIds, NEW t \in TxIds, NEW dst, ConvertAndCreateLeg(source, t, dst)
        PROVE  Moves
    BY <1>6, RebookMoves DEF ConvertAndCreateLeg, Settled
  <1>7. ASSUME NEW t \in TxIds, UnpairTransactions(t)
        PROVE  Moves
    BY <1>7, RebookMoves DEF UnpairTransactions
  <1>8. ASSUME NEW t \in TxIds, DeleteTransaction(t)
        PROVE  Moves
    <2>1. WithPartner(t) \subseteq TxIds
      BY <1>8 DEF DeleteTransaction, WithPartner, IsReciprocalPair, TypeOK, LinksResolve
    <2> QED BY <1>8, <2>1, RebookMoves DEF DeleteTransaction, Remove
  <1>9. ASSUME NEW ids \in SUBSET TxIds, BulkDeleteTransactions(ids)
        PROVE  Moves
    <2> DEFINE D == UNION {WithPartner(t) : t \in {u \in ids \cap live : ~tx[u].adjust}}
    <2>1. \A t \in live : WithPartner(t) \subseteq TxIds
      BY DEF WithPartner, IsReciprocalPair, TypeOK, LinksResolve
    <2>2. D \subseteq TxIds
      BY <2>1
    <2>3. Remove(D)
      BY <1>9 DEF BulkDeleteTransactions
    <2> HIDE DEF D
    <2> QED BY <2>2, <2>3, RebookMoves DEF Remove
  <1>10. CASE \E a \in Accounts, o \in Openings : Idle /\ UpdateOpeningBalance(a, o)
    BY <1>10 DEF Moves
  <1> QED BY <1>1, <1>2, <1>3, <1>4, <1>5, <1>6, <1>7, <1>8, <1>9, <1>10, Zenon DEF Writes

LEMMA ImportsMove ==
  ASSUME Imports
  PROVE  Moves
  <1>1. PICK b \in Batches :
          \/ \E t \in TxIds, a \in Accounts, amt \in Amounts, ty \in Types :
                Idle /\ ImportCreate(b, t, a, amt, ty)
          \/ \E t, p \in TxIds, a \in Accounts : Idle /\ ImportPairWithExisting(b, t, a, p)
          \/ \E e, i \in TxIds, from, to \in Accounts, amt \in Amounts :
                \E bankLeg \in {e, i} :
                   Idle /\ ImportCreateTransferPair(b, e, i, from, to, amt, bankLeg)
    BY Zenon DEF Imports
  <1>2. ASSUME NEW t \in TxIds, NEW a, NEW amt, NEW ty, ImportCreate(b, t, a, amt, ty)
        PROVE  Moves
    BY <1>2, RebookMoves DEF ImportCreate
  <1>3. ASSUME NEW t \in TxIds, NEW p, NEW a, ImportPairWithExisting(b, t, a, p)
        PROVE  Moves
    BY <1>3, RebookMoves DEF ImportPairWithExisting
  <1>4. ASSUME NEW e \in TxIds, NEW i \in TxIds, NEW from, NEW to, NEW amt, NEW bankLeg,
               ImportCreateTransferPair(b, e, i, from, to, amt, bankLeg)
        PROVE  Moves
    BY <1>4, RebookMoves DEF ImportCreateTransferPair
  <1> QED BY <1>1, <1>2, <1>3, <1>4, Zenon

LEMMA TransitionMoves ==
  ASSUME NEW t \in TxIds, NEW row, Transition(t, row)
  PROVE  Moves
  BY RebookMoves DEF Transition

LEMMA ReviewsMove ==
  ASSUME Reviews
  PROVE  Moves
  <1>1. CASE \E t \in TxIds, target \in {"accepted", "pending_review"} \cup Reverted :
                ReconcileFlag(t, target)
    BY <1>1, TransitionMoves DEF ReconcileFlag
  <1>2. CASE \E t \in TxIds, amt \in Amounts : ReconcileEdit(t, amt)
    BY <1>2, TransitionMoves DEF ReconcileEdit
  <1>3. CASE \E t, m \in TxIds : ReconcileMatch(t, m)
    BY <1>3, TransitionMoves DEF ReconcileMatch
  <1>4. CASE FinishReconcileRequest
    BY <1>4 DEF FinishReconcileRequest, Moves
  <1> QED BY <1>1, <1>2, <1>3, <1>4 DEF Reviews

LEMMA RecurrencesMove ==
  ASSUME TypeOK, Recurrences
  PROVE  Moves
  <1>1. ASSUME NEW t \in TxIds, NEW s, PromoteToRecurring(t, s)
        PROVE  Moves
    BY <1>1, RebookMoves DEF PromoteToRecurring
  <1>2. ASSUME NEW s, NEW t \in TxIds, NEW a, NEW amt, NEW ty, NEW mode,
               CreateOccurrence(s, t, a, amt, ty, mode)
        PROVE  Moves
    BY <1>2, RebookMoves DEF CreateOccurrence, Settled
  <1>3. ASSUME NEW s, NEW e \in TxIds, NEW i \in TxIds, NEW from, NEW to, NEW amt, NEW mode,
               CreateTransferOccurrence(s, e, i, from, to, amt, mode)
        PROVE  Moves
    BY <1>3, RebookMoves DEF CreateTransferOccurrence, Settled
  <1>4. ASSUME NEW t \in TxIds, SkipOccurrence(t)
        PROVE  Moves
    BY <1>4, RebookMoves DEF SkipOccurrence
  <1>5. ASSUME NEW due \in SUBSET TxIds, SettleDueAuto(due)
        PROVE  Moves
    BY <1>5, RebookMoves DEF SettleDueAuto, AutoSettleUnits
  <1>6. ASSUME NEW s, NEW future \in SUBSET TxIds, StopRecurring(s, future)
        PROVE  Moves
    <2> DEFINE D == {t \in future : IsReciprocalPair(tx, t) => tx[t].linked \in future}
    <2>1. D \subseteq TxIds
      OBVIOUS
    <2>2. Remove(D)
      BY <1>6 DEF StopRecurring
    <2> HIDE DEF D
    <2> QED BY <2>1, <2>2, RebookMoves DEF Remove
  <1> QED BY <1>1, <1>2, <1>3, <1>4, <1>5, <1>6, Zenon DEF Recurrences

\* The posted amounts being exact, their sum is that of the rows the filter keeps.
LEMMA PostedIsKept ==
  ASSUME TypeOK, PostedExact, BalanceIsPosted
  PROVE  BalanceConsistent
  <1> SUFFICES ASSUME NEW a \in Accounts
               PROVE  LET kept == {t \in live : InBalance(tx, t) /\ tx[t].account = a}
                      IN  balance[a] = opening[a] + Total([t \in kept |-> Signed(tx[t])], kept)
    BY DEF BalanceConsistent
  <1> DEFINE kept == {t \in live : InBalance(tx, t) /\ tx[t].account = a}
             f == posted[a]
             g == [t \in kept |-> Signed(tx[t])]
  <1>1. IsFiniteSet(TxIds) /\ IsFiniteSet(kept) /\ kept \in SUBSET TxIds
    BY LedgerAssumption, FS_Subset DEF TypeOK
  <1>2. /\ \A t \in TxIds : f[t] \in Int
        /\ \A t \in TxIds \ kept : f[t] = 0
        /\ \A t \in kept : f[t] = g[t]
    BY DEF TypeOK, PostedExact
  <1>3. balance[a] = opening[a] + Sum(f, TxIds)
    BY DEF BalanceIsPosted
  <1> HIDE DEF kept, f, g
  <1>4. Sum(f, TxIds) = Sum(f, kept)
    BY <1>1, <1>2, SumExtend
  <1>5. Sum(f, kept) = Sum(g, kept) /\ Sum(f, kept) \in Int
    BY <1>1, <1>2, SumEqual
  <1>6. balance[a] = opening[a] + Total(g, kept)
    BY <1>3, <1>4, <1>5, TotalIsSum
  <1> QED BY <1>6 DEF kept, g

\* The cached balance of every account is its opening balance plus the settled
\* rows balance_contribution_filter keeps, as long as no imported row is
\* promoted: reconcile_account finds no drift after any sequence of requests.
THEOREM BalanceCorrect == ~PromotesImported => (Spec => []BalanceConsistent)
  <1> SUFFICES ASSUME ~PromotesImported PROVE Spec => []BalanceConsistent OBVIOUS
  <1> DEFINE I == IInv /\ BalanceIsPosted
  <1>1. Init => I
    <2> SUFFICES ASSUME Init PROVE BalanceIsPosted BY InitIInv
    <2> SUFFICES ASSUME NEW a \in Accounts PROVE balance[a] = opening[a] + Sum(posted[a], TxIds)
      BY DEF BalanceIsPosted
    <2> DEFINE z == posted[a]
    <2>1. IsFiniteSet(TxIds) /\ opening[a] \in Int /\ balance = opening
          /\ \A t \in TxIds : z[t] = 0
      BY LedgerAssumption DEF Init
    <2> HIDE DEF z
    <2>2. Sum(z, TxIds) = Sum(z, {})
      BY <2>1, SumExtend
    <2>3. Sum(z, TxIds) = 0
      BY <2>2, SumEmpty
    <2> QED BY <2>1, <2>3 DEF z
  <1>2. I /\ [Next]_vars => I'
    <2> SUFFICES ASSUME I, [Next]_vars PROVE I' OBVIOUS
    <2>1. IInv'
      <3>1. CASE Next BY <3>1, NextKeeps DEF IInv, Shape
      <3>2. CASE UNCHANGED vars BY <3>2, StutterKeeps DEF IInv, Shape, Keeps
      <3> QED BY <3>1, <3>2
    <2>2. Moves
      <3>1. CASE Next
        BY <3>1, WritesMove, ImportsMove, ReviewsMove, RecurrencesMove DEF Next, IInv, Shape
      <3>2. CASE UNCHANGED vars BY <3>2 DEF vars, Moves
      <3> QED BY <3>1, <3>2
    <2> QED BY <2>1, <2>2, MovesKeep DEF IInv, Shape
  <1>3. I => BalanceConsistent BY PostedIsKept DEF IInv, Shape
  <1> QED BY <1>1, <1>2, <1>3, PTL DEF Spec
-----------------------------------------------------------------------------
(* Matches and batches.  Most handlers do little to the rows an import      *)
(* brought and to the rows these are matched against.                      *)

\* Row t links to a row that does not link back: a reconcile match.
OneWay(T, t) == T[t].linked # NoTx /\ ~IsReciprocalPair(T, t)

\* A handler that deletes nothing and makes no match.  It changes the state of
\* no imported row and of no row that another one links to, and adds no
\* reverted row to a series.
Calm ==
    /\ live \subseteq live'
    /\ \A t \in live :
         /\ tx'[t].batch = tx[t].batch
         /\ tx'[t].state = tx[t].state \/ (tx[t].batch = NoBatch /\ ~Referred(t))
         /\ \/ tx'[t].series = tx[t].series
            \/ tx'[t].series = NoSeries
            \/ tx'[t].state \notin Reverted
    /\ \A t \in live' : OneWay(tx', t) =>
         t \in live /\ OneWay(tx, t) /\ tx'[t].linked = tx[t].linked

\* And it imports nothing.
NoImport ==
    /\ batch' = batch
    /\ \A t \in live' \ live : tx'[t].batch = NoBatch

\* Inserting rows that link, if at all, to each other.
LEMMA InsertCalm ==
  ASSUME Sound, NEW new, DOMAIN new \subseteq TxIds, Insert(new),
         \A x \in DOMAIN new : new[x].linked # NoTx =>
             /\ new[x].linked \in DOMAIN new \ {x}
             /\ new[new[x].linked].linked = x
  PROVE  /\ Calm
         /\ (batch' = batch /\ \A x \in DOMAIN new : new[x].batch = NoBatch) => NoImport
  <1>1. /\ live' = live \cup DOMAIN new /\ DOMAIN new \cap live = {}
        /\ \A x \in DOMAIN new : tx'[x] = new[x]
        /\ \A x \in live : tx'[x] = tx[x]
    BY DEF Insert, Sound, TypeOK
  <1>2. ASSUME NEW t \in live', OneWay(tx', t)
        PROVE  t \in live /\ OneWay(tx, t) /\ tx'[t].linked = tx[t].linked
    <2>1. t \notin DOMAIN new
      BY <1>1, <1>2 DEF OneWay, IsReciprocalPair
    <2>2. t \in live /\ tx'[t] = tx[t]
      BY <1>1, <2>1
    <2>3. tx[t].linked \in live
      BY <1>2, <2>2 DEF OneWay, Sound, LinksResolve
    <2> QED BY <1>1, <1>2, <2>2, <2>3 DEF OneWay, IsReciprocalPair
  <1> QED BY <1>1, <1>2 DEF Calm, NoImport

\* Inserting one row without a link.
LEMMA SingleCalm ==
  ASSUME Sound, NEW t \in TxIds, NEW r, Insert([x \in {t} |-> r]), r.linked = NoTx
  PROVE  Calm /\ ((batch' = batch /\ r.batch = NoBatch) => NoImport)
  <1> DEFINE new == [x \in {t} |-> r]
  <1>1. \A x \in DOMAIN new : new[x] = r
    OBVIOUS
  <1>2. DOMAIN new \subseteq TxIds /\ Insert(new)
    OBVIOUS
  <1> HIDE DEF new
  <1> QED BY <1>1, <1>2, InsertCalm

\* Inserting the two legs of a transfer.
LEMMA LegsCalm ==
  ASSUME Sound, NEW e \in TxIds, NEW i \in TxIds, e # i, NEW new, DOMAIN new = {e, i},
         Insert(new), new[e].linked = i, new[i].linked = e
  PROVE  /\ Calm
         /\ (batch' = batch /\ new[e].batch = NoBatch /\ new[i].batch = NoBatch) => NoImport
  BY InsertCalm

\* Linking two unlinked rows, of which t may be new.
LEMMA LinkCalm ==
  ASSUME Sound, NEW t \in TxIds, NEW p \in live, t # p, live' = live \cup {t},
         \A u \in live \ {t, p} : tx'[u] = tx[u],
         tx[p].linked = NoTx, t \in live => tx[t].linked = NoTx,
         tx'[t].linked = p, tx'[p].linked = t,
         \A u \in {t, p} \cap live : SameButLink(tx'[u], tx[u])
  PROVE  Calm
  <1>1. t # NoTx /\ p # NoTx
    BY LedgerAssumption DEF Sound, TypeOK
  <1>2. ASSUME NEW u \in live', OneWay(tx', u)
        PROVE  u \in live /\ OneWay(tx, u) /\ tx'[u].linked = tx[u].linked
    <2>1. u \notin {t, p}
      BY <1>2 DEF OneWay, IsReciprocalPair
    <2>2. u \in live /\ tx'[u] = tx[u] /\ u # NoTx
      BY <2>1, LedgerAssumption DEF Sound, TypeOK
    <2>3. tx[u].linked \in live
      BY <1>2, <2>2 DEF OneWay, Sound, LinksResolve
    <2>4. CASE tx[u].linked \in {t, p}
      BY <1>1, <1>2, <2>2, <2>3, <2>4 DEF OneWay, IsReciprocalPair
    <2>5. CASE tx[u].linked \notin {t, p}
      BY <1>2, <2>2, <2>3, <2>5 DEF OneWay, IsReciprocalPair
    <2> QED BY <2>4, <2>5
  <1>3. ASSUME NEW u \in live
        PROVE  /\ tx'[u].batch = tx[u].batch
               /\ tx'[u].state = tx[u].state
               /\ tx'[u].series = tx[u].series
    BY DEF SameButLink
  <1> QED BY <1>2, <1>3 DEF Calm

\* Changing rows in place, every link and batch as it was.
LEMMA InPlaceCalm ==
  ASSUME Sound, live' = live,
         \A u \in live :
            /\ tx'[u].linked = tx[u].linked /\ tx'[u].batch = tx[u].batch
            /\ tx'[u].state = tx[u].state \/ (tx[u].batch = NoBatch /\ ~Referred(u))
            /\ \/ tx'[u].series = tx[u].series
               \/ tx'[u].series = NoSeries
               \/ tx'[u].state \notin Reverted
  PROVE  Calm
  BY DEF Calm, OneWay, IsReciprocalPair, Sound, LinksResolve

-----------------------------------------------------------------------------
(* Handler by handler. *)

LEMMA CreateCalm ==
  ASSUME Sound, NEW t \in TxIds, NEW a, NEW amt, NEW ty, NEW st,
         CreateTransaction(t, a, amt, ty, st)
  PROVE  Calm /\ NoImport
  <1> DEFINE row == NewRow(a, amt, ty, st)
  <1>1. Insert([x \in {t} |-> row]) /\ batch' = batch BY DEF CreateTransaction
  <1>2. row.linked = NoTx /\ row.batch = NoBatch BY DEF NewRow
  <1> HIDE DEF row
  <1> QED BY <1>1, <1>2, SingleCalm

LEMMA AdjustCalm ==
  ASSUME Sound, NEW t \in TxIds, NEW a, NEW target, AdjustAccountBalance(t, a, target)
  PROVE  Calm /\ NoImport
  <1>1. /\ batch' = batch
        /\ \E amt, ty : Insert([x \in {t} |-> [NewRow(a, amt, ty, "settled") EXCEPT !.adjust = TRUE]])
    BY DEF AdjustAccountBalance
  <1>2. PICK amt, ty : Insert([x \in {t} |-> [NewRow(a, amt, ty, "settled") EXCEPT !.adjust = TRUE]])
    BY <1>1
  <1> DEFINE row == [NewRow(a, amt, ty, "settled") EXCEPT !.adjust = TRUE]
  <1>3. row.linked = NoTx /\ row.batch = NoBatch BY DEF NewRow
  <1>4. Insert([x \in {t} |-> row]) BY <1>2
  <1> HIDE DEF row
  <1> QED BY <1>1, <1>3, <1>4, SingleCalm

LEMMA TransferCalm ==
  ASSUME Sound, NEW e \in TxIds, NEW i \in TxIds, NEW from \in Accounts, NEW to \in Accounts,
         NEW amt \in Amounts, NEW st \in Statuses, CreateTransfer(e, i, from, to, amt, st)
  PROVE  Calm /\ NoImport
  <1> DEFINE new == TransferLegs(e, i, from, to, amt, st)
  <1>1. e # i /\ Insert(new) /\ batch' = batch BY DEF CreateTransfer
  <1>2. GoodLegs(new, e, i, st) BY <1>1, TransferLegsType
  <1> HIDE DEF new
  <1>3. /\ DOMAIN new = {e, i} /\ new[e].linked = i /\ new[i].linked = e
        /\ new[e].batch = NoBatch /\ new[i].batch = NoBatch
    BY <1>1, <1>2 DEF GoodLegs
  <1> QED BY <1>1, <1>3, LegsCalm

LEMMA ImportCreateCalm ==
  ASSUME Sound, NEW b \in Batches, NEW t \in TxIds, NEW a \in Accounts, NEW amt \in Amounts,
         NEW ty \in Types, ImportCreate(b, t, a, amt, ty)
  PROVE  /\ Calm /\ t \notin live /\ live' = live \cup {t}
         /\ tx'[t].batch = b /\ tx'[t].state = "accepted"
  <1> DEFINE r   == NewRow(a, amt, ty, "settled")
             row == Imported(b, r)
  <1>1. Insert([x \in {t} |-> row]) BY DEF ImportCreate
  <1>2. r \in Row /\ r.linked = NoTx /\ r.state = "accepted"
    BY LedgerAssumption DEF NewRow, Row, Types, Statuses, ReconStates
  <1> HIDE DEF r
  <1>3. row.linked = NoTx /\ row.state = "accepted" /\ row.batch = b
    BY <1>2, SetBatch DEF Imported
  <1> HIDE DEF row
  <1>4. t \notin live /\ live' = live \cup {t} /\ tx'[t] = row
    BY <1>1 DEF Insert
  <1> QED BY <1>1, <1>3, <1>4, SingleCalm

\* Of a new transfer's legs the bank row is the imported one.
LEMMA ImportTransferCalm ==
  ASSUME Sound, NEW b \in Batches, NEW e \in TxIds, NEW i \in TxIds, NEW from \in Accounts,
         NEW to \in Accounts, NEW amt \in Amounts, NEW bankLeg \in {e, i},
         ImportCreateTransferPair(b, e, i, from, to, amt, bankLeg)
  PROVE  /\ Calm /\ live \cap {e, i} = {} /\ live' = live \cup {e, i}
         /\ tx'[bankLeg].batch = b /\ tx'[bankLeg].state = "accepted"
         /\ \A x \in {e, i} \ {bankLeg} : tx'[x].batch = NoBatch
  <1> DEFINE legs == TransferLegs(e, i, from, to, amt, "settled")
             new  == [x \in {e, i} |-> IF x = bankLeg THEN Imported(b, legs[x]) ELSE legs[x]]
  <1>1. e # i /\ Insert(new) BY DEF ImportCreateTransferPair
  <1>2. GoodLegs(legs, e, i, "settled") BY <1>1, TransferLegsType DEF Statuses
  <1> HIDE DEF legs
  <1>3. ASSUME NEW x \in {e, i}
        PROVE  /\ new[x].linked = legs[x].linked /\ new[x].state = "accepted"
               /\ new[x].batch = IF x = bankLeg THEN b ELSE NoBatch
    <2> DEFINE r == legs[x]
    <2>1. r \in Row /\ r.state = "accepted" /\ r.batch = NoBatch BY <1>2 DEF GoodLegs
    <2>2. new[x] = IF x = bankLeg THEN Imported(b, r) ELSE r OBVIOUS
    <2> HIDE DEF r, new
    <2>3. /\ Imported(b, r).linked = r.linked /\ Imported(b, r).state = r.state
          /\ Imported(b, r).batch = b
      BY <2>1, SetBatch DEF Imported
    <2>4. /\ new[x].linked = r.linked /\ new[x].state = "accepted"
          /\ new[x].batch = IF x = bankLeg THEN b ELSE NoBatch
      BY <2>1, <2>2, <2>3
    <2> QED BY <2>4 DEF r
  <1>4. DOMAIN new = {e, i} OBVIOUS
  <1> HIDE DEF new
  <1>5. legs[e].linked = i /\ legs[i].linked = e BY <1>1, <1>2 DEF GoodLegs
  <1>6. /\ live \cap {e, i} = {} /\ live' = live \cup {e, i}
        /\ \A x \in {e, i} : tx'[x] = new[x]
    BY <1>1, <1>4 DEF Insert
  <1>7. Calm BY <1>1, <1>3, <1>4, <1>5, LegsCalm
  <1> QED BY <1>3, <1>6, <1>7

LEMMA OccurrenceCalm ==
  ASSUME Sound, NEW s, NEW t \in TxIds, NEW a, NEW amt, NEW ty, NEW mode,
         CreateOccurrence(s, t, a, amt, ty, mode)
  PROVE  Calm /\ NoImport
  <1> DEFINE row == [NewRow(a, amt, ty, mode[1]) EXCEPT !.series = s, !.state = mode[2]]
  <1>1. Insert([x \in {t} |-> row]) /\ batch' = batch BY DEF CreateOccurrence
  <1>2. row.linked = NoTx /\ row.batch = NoBatch BY DEF NewRow
  <1> HIDE DEF row
  <1> QED BY <1>1, <1>2, SingleCalm

LEMMA TransferOccurrenceCalm ==
  ASSUME Sound, NEW s, NEW e \in TxIds, NEW i \in TxIds, NEW from \in Accounts, NEW to \in Accounts,
         NEW amt \in Amounts, NEW mode \in OccurrenceModes,
         CreateTransferOccurrence(s, e, i, from, to, amt, mode)
  PROVE  Calm /\ NoImport
  <1> DEFINE st   == mode[1]
             q    == mode[2]
             legs == TransferLegs(e, i, from, to, amt, st)
             new  == [x \in {e, i} |-> [legs[x] EXCEPT !.series = s, !.state = q]]
  <1>1. e # i /\ Insert(new) /\ batch' = batch BY DEF CreateTransferOccurrence
  <1>2. GoodLegs(legs, e, i, st) BY <1>1, ModeType, TransferLegsType
  <1> HIDE DEF st, q, legs
  <1>3. ASSUME NEW x \in {e, i}
        PROVE  new[x].linked = legs[x].linked /\ new[x].batch = NoBatch
    <2> DEFINE r == legs[x]
    <2>1. r \in Row /\ r.batch = NoBatch BY <1>2 DEF GoodLegs
    <2>2. new[x] = [r EXCEPT !.series = s, !.state = q] OBVIOUS
    <2> HIDE DEF r, new
    <2>3. new[x].linked = r.linked /\ new[x].batch = NoBatch
      BY <2>1, <2>2 DEF Row
    <2> QED BY <2>3 DEF r
  <1>4. DOMAIN new = {e, i} OBVIOUS
  <1> HIDE DEF new
  <1>5. legs[e].linked = i /\ legs[i].linked = e BY <1>1, <1>2 DEF GoodLegs
  <1> QED BY <1>1, <1>3, <1>4, <1>5, LegsCalm

LEMMA PairCalm ==
  ASSUME Sound, NEW e \in TxIds, NEW i \in TxIds, PairExistingTransactions(e, i)
  PROVE  Calm /\ NoImport
  <1>1. /\ e \in live /\ i \in live /\ LinkPairGuards(tx[e], tx[i]) /\ batch' = batch
        /\ tx' = [tx EXCEPT ![e].linked = i, ![i].linked = e] /\ live' = live
    BY DEF PairExistingTransactions
  <1>2. e # i /\ tx[e].linked = NoTx /\ tx[i].linked = NoTx
    BY <1>1 DEF LinkPairGuards
  <1>3. tx[e] \in Row /\ tx[i] \in Row /\ DOMAIN tx = TxIds BY <1>1 DEF Sound, TypeOK
  <1>4. /\ tx'[e] = [tx[e] EXCEPT !.linked = i] /\ tx'[i] = [tx[i] EXCEPT !.linked = e]
        /\ \A u \in live \ {e, i} : tx'[u] = tx[u]
    BY <1>1, <1>2, <1>3 DEF Sound, TypeOK
  <1>5. /\ SameButLink(tx'[e], tx[e]) /\ tx'[e].linked = i
        /\ SameButLink(tx'[i], tx[i]) /\ tx'[i].linked = e
    BY <1>3, <1>4, SetLinked, SetLinkedSame
  <1>6. live' = live \cup {e} BY <1>1
  <1>7. \A u \in {e, i} \cap live : SameButLink(tx'[u], tx[u])
    BY <1>5
  <1>8. Calm
    BY <1>1, <1>2, <1>4, <1>5, <1>6, <1>7, Zenon, LinkCalm
  <1> QED BY <1>1, <1>8 DEF NoImport

\* A new row linked with an existing one.
LEMMA InsertLinkedCalm ==
  ASSUME Sound, NEW t \in TxIds, NEW p \in live, NEW new \in Row, InsertLinked(t, new, p)
  PROVE  /\ Calm /\ t \notin live /\ live' = live \cup {t}
         /\ tx'[t].batch = new.batch /\ tx'[t].state = new.state
  <1>1. /\ t \notin live /\ live' = live \cup {t}
        /\ tx' = [tx EXCEPT ![t] = [new EXCEPT !.linked = p], ![p].linked = t]
        /\ LinkPairGuards(new, tx[p]) \/ LinkPairGuards(tx[p], new)
    BY DEF InsertLinked
  <1>2. t # p /\ tx[p].linked = NoTx BY <1>1 DEF LinkPairGuards
  <1>3. tx[p] \in Row /\ DOMAIN tx = TxIds /\ p \in TxIds BY DEF Sound, TypeOK
  <1>4. /\ tx'[t] = [new EXCEPT !.linked = p] /\ tx'[p] = [tx[p] EXCEPT !.linked = t]
        /\ \A u \in live \ {t, p} : tx'[u] = tx[u]
    BY <1>1, <1>2, <1>3 DEF Sound, TypeOK
  <1>5. /\ tx'[t].linked = p /\ tx'[t].batch = new.batch /\ tx'[t].state = new.state
        /\ SameButLink(tx'[p], tx[p]) /\ tx'[p].linked = t
    BY <1>3, <1>4, SetLinked, SetLinkedSame
  <1>6. /\ t \in live => tx[t].linked = NoTx
        /\ \A u \in {t, p} \cap live : SameButLink(tx'[u], tx[u])
    BY <1>1, <1>5
  <1>7. Calm
    BY <1>1, <1>2, <1>4, <1>5, <1>6, Zenon, LinkCalm
  <1> QED BY <1>1, <1>5, <1>7

LEMMA ConvertCalm ==
  ASSUME Sound, NEW source \in TxIds, NEW t \in TxIds, NEW dst \in Accounts,
         ConvertAndCreateLeg(source, t, dst)
  PROVE  Calm /\ NoImport
  <1> DEFINE s   == tx[source]
             new == NewRow(dst, s.amount, Opposite(s.type), s.status)
  <1>1. source \in live /\ InsertLinked(t, new, source) /\ batch' = batch
    BY DEF ConvertAndCreateLeg
  <1>2. s \in Row BY <1>1 DEF Sound, TypeOK
  <1>3. new \in Row /\ new.batch = NoBatch
    BY <1>2 DEF NewRow, Row, Types, ReconStates, Opposite
  <1> HIDE DEF new
  <1> QED BY <1>1, <1>3, InsertLinkedCalm DEF NoImport

LEMMA ImportPairCalm ==
  ASSUME Sound, NEW b \in Batches, NEW t \in TxIds, NEW a \in Accounts, NEW p \in TxIds,
         ImportPairWithExisting(b, t, a, p)
  PROVE  /\ Calm /\ t \notin live /\ live' = live \cup {t}
         /\ tx'[t].batch = b /\ tx'[t].state = "accepted"
  <1> DEFINE q   == tx[p]
             row == NewRow(a, q.amount, Opposite(q.type), "settled")
             new == Imported(b, row)
  <1>1. p \in live /\ InsertLinked(t, new, p) BY DEF ImportPairWithExisting
  <1>2. q \in Row BY <1>1 DEF Sound, TypeOK
  <1>3. row \in Row /\ row.state = "accepted"
    BY <1>2 DEF NewRow, Row, Types, Statuses, ReconStates, Opposite
  <1> HIDE DEF row
  <1>4. new \in Row /\ new.state = "accepted" /\ new.batch = b
    BY <1>3, SetBatch DEF Imported
  <1> HIDE DEF new
  <1> QED BY <1>1, <1>4, InsertLinkedCalm

\* Unlinking a pair makes no match of what pointed at it.
LEMMA UnpairCalm ==
  ASSUME Sound, NEW t \in TxIds, UnpairTransactions(t)
  PROVE  Calm /\ NoImport
  <1> DEFINE p == tx[t].linked
  <1>1. /\ t \in live /\ p # NoTx /\ p # t /\ tx[p].linked = t /\ live' = live
        /\ tx' = [tx EXCEPT ![t].linked = NoTx, ![p].linked = NoTx] /\ batch' = batch
    BY DEF UnpairTransactions, IsReciprocalPair
  <1>2. p \in live BY <1>1 DEF Sound, LinksResolve
  <1>3. tx[t] \in Row /\ tx[p] \in Row /\ DOMAIN tx = TxIds /\ p \in TxIds
    BY <1>1, <1>2 DEF Sound, TypeOK
  <1>4. /\ tx'[t] = [tx[t] EXCEPT !.linked = NoTx]
        /\ tx'[p] = [tx[p] EXCEPT !.linked = NoTx]
        /\ \A u \in live \ {t, p} : tx'[u] = tx[u]
    BY <1>1, <1>3 DEF Sound, TypeOK
  <1>5. /\ SameButLink(tx'[t], tx[t]) /\ tx'[t].linked = NoTx
        /\ SameButLink(tx'[p], tx[p]) /\ tx'[p].linked = NoTx
    BY <1>3, <1>4, SetLinked, SetLinkedSame
  <1>6. tx[t].linked = p OBVIOUS
  <1> HIDE DEF p
  <1>7. ASSUME NEW u \in live', OneWay(tx', u)
        PROVE  u \in live /\ OneWay(tx, u) /\ tx'[u].linked = tx[u].linked
    <2>1. u \in live \ {t, p} /\ tx'[u] = tx[u]
      BY <1>1, <1>4, <1>5, <1>7 DEF OneWay
    <2>2. tx[u].linked \in live
      BY <1>7, <2>1 DEF OneWay, Sound, LinksResolve
    <2>3. tx[u].linked \notin {t, p} => tx'[tx[u].linked] = tx[tx[u].linked]
      BY <2>2, <1>4
    <2> QED BY <1>1, <1>6, <1>7, <2>1, <2>3 DEF OneWay, IsReciprocalPair
  <1>8. \A u \in live : /\ tx'[u].batch = tx[u].batch
                        /\ tx'[u].state = tx[u].state
                        /\ tx'[u].series = tx[u].series
    BY <1>4, <1>5 DEF SameButLink
  <1> QED BY <1>1, <1>7, <1>8 DEF Calm, NoImport

LEMMA UpdateCalm ==
  ASSUME Sound, NEW t \in TxIds, NEW a \in Accounts, NEW amt \in Amounts,
         NEW ty \in Types, NEW st \in Statuses, NEW F \in SUBSET SeriesSyncTargets(t),
         UpdateTransaction(t, a, amt, ty, st, F)
  PROVE  Calm /\ NoImport
  <1>1. batch' = batch
    BY Zenon DEF UpdateTransaction
  <1>2. /\ live' = live
        /\ \A u \in live : /\ tx'[u].linked = tx[u].linked /\ tx'[u].batch = tx[u].batch
                           /\ tx'[u].state = tx[u].state /\ tx'[u].series = tx[u].series
    BY UpdateRows DEF Sound
  <1> QED BY <1>1, <1>2, InPlaceCalm DEF NoImport

LEMMA OpeningCalm ==
  ASSUME Sound, NEW a, NEW o, UpdateOpeningBalance(a, o)
  PROVE  Calm /\ NoImport
  BY InPlaceCalm DEF UpdateOpeningBalance, NoImport

\* Promoted rows are not reverted.
LEMMA PromoteCalm ==
  ASSUME Sound, NEW t \in TxIds, NEW s \in Series, PromoteToRecurring(t, s)
  PROVE  Calm /\ NoImport
  <1>1. /\ t \in live /\ tx[t].state \notin Reverted /\ batch' = batch
        /\ tx' = [tx EXCEPT ![t].series = s] /\ live' = live
    BY DEF PromoteToRecurring
  <1>2. tx[t] \in Row /\ DOMAIN tx = TxIds BY <1>1 DEF Sound, TypeOK
  <1>3. /\ tx'[t] = [tx[t] EXCEPT !.series = s]
        /\ \A u \in live \ {t} : tx'[u] = tx[u]
    BY <1>1, <1>2 DEF Sound, TypeOK
  <1>4. /\ tx'[t].linked = tx[t].linked /\ tx'[t].batch = tx[t].batch
        /\ tx'[t].state = tx[t].state
    BY <1>2, <1>3 DEF Row
  <1> QED BY <1>1, <1>3, <1>4, InPlaceCalm DEF NoImport

\* A skipped occurrence was not imported, and no row links to it.
LEMMA SkipCalm ==
  ASSUME Sound, NEW t \in TxIds, SkipOccurrence(t)
  PROVE  Calm /\ NoImport
  <1>1. /\ t \in live /\ tx[t].batch = NoBatch /\ ~Referred(t) /\ batch' = batch
        /\ tx' = [tx EXCEPT ![t].state = "skipped"] /\ live' = live
    BY DEF SkipOccurrence
  <1>2. tx[t] \in Row /\ DOMAIN tx = TxIds BY <1>1 DEF Sound, TypeOK
  <1>3. /\ tx'[t] = [tx[t] EXCEPT !.state = "skipped"]
        /\ \A u \in live \ {t} : tx'[u] = tx[u]
    BY <1>1, <1>2 DEF Sound, TypeOK
  <1>4. /\ tx'[t].linked = tx[t].linked /\ tx'[t].batch = tx[t].batch
        /\ tx'[t].series = tx[t].series
    BY <1>2, <1>3 DEF Row
  <1> QED BY <1>1, <1>3, <1>4, InPlaceCalm DEF NoImport

LEMMA SettleCalm ==
  ASSUME Sound, NEW due \in SUBSET TxIds, SettleDueAuto(due)
  PROVE  Calm /\ NoImport
  <1> DEFINE S == AutoSettleUnits(due)
  <1>1. /\ S \subseteq live /\ live' = live /\ batch' = batch
        /\ tx' = [t \in TxIds |-> IF t \in S THEN [tx[t] EXCEPT !.status = "settled"]
                                  ELSE tx[t]]
    BY DEF SettleDueAuto, AutoSettleUnits
  <1> HIDE DEF S
  <1>2. ASSUME NEW u \in live
        PROVE  /\ tx'[u].linked = tx[u].linked /\ tx'[u].batch = tx[u].batch
               /\ tx'[u].state = tx[u].state /\ tx'[u].series = tx[u].series
    <2>1. tx[u] \in Row /\ u \in TxIds BY DEF Sound, TypeOK
    <2>2. tx'[u] \in {tx[u], [tx[u] EXCEPT !.status = "settled"]} BY <1>1, <2>1
    <2> QED BY <2>1, <2>2 DEF Row
  <1> QED BY <1>1, <1>2, InPlaceCalm DEF NoImport

-----------------------------------------------------------------------------
(* The rows of a batch, and its counters. *)

RowsOf(T, L, b)     == {t \in L : T[t].batch = b}
AcceptedOf(T, L, b) == {t \in L : T[t].batch = b /\ T[t].state = "accepted"}

\* Header h counts the rows of batch b.
Counts(h, T, L, b) ==
    /\ h.rows = Cardinality(RowsOf(T, L, b))
    /\ h.accepted = Cardinality(AcceptedOf(T, L, b))
    /\ h.pending = Cardinality(PendingRows(T, L, b))

LEMMA ExactBefore ==
  ASSUME CountersExact, NEW b \in Batches
  PROVE  Counts(batch[b], tx, live, b)
  <1>1. {t \in {t \in live : tx[t].batch = b} : tx[t].state = "accepted"} = AcceptedOf(tx, live, b)
    BY DEF AcceptedOf
  <1> QED BY <1>1 DEF CountersExact, Counts, RowsOf

LEMMA ExactAfter ==
  ASSUME \A b \in Batches : Counts(batch'[b], tx', live', b)
  PROVE  CountersExact'
  <1> SUFFICES ASSUME NEW b \in Batches
               PROVE  LET rows == {t \in live' : tx'[t].batch = b} IN
                      /\ batch'[b].rows = Cardinality(rows)
                      /\ batch'[b].accepted = Cardinality({t \in rows : tx'[t].state = "accepted"})
                      /\ batch'[b].pending = Cardinality(PendingRows(tx', live', b))
    BY DEF CountersExact
  <1>1. {t \in {t \in live' : tx'[t].batch = b} : tx'[t].state = "accepted"}
          = AcceptedOf(tx', live', b)
    BY DEF AcceptedOf
  <1> QED BY <1>1 DEF Counts, RowsOf

\* A set of rows is finite.
LEMMA OfFinite ==
  ASSUME TypeOK, NEW b
  PROVE  /\ IsFiniteSet(RowsOf(tx, live, b)) /\ Cardinality(RowsOf(tx, live, b)) \in Nat
         /\ IsFiniteSet(AcceptedOf(tx, live, b)) /\ Cardinality(AcceptedOf(tx, live, b)) \in Nat
         /\ IsFiniteSet(PendingRows(tx, live, b)) /\ Cardinality(PendingRows(tx, live, b)) \in Nat
  <1>1. /\ RowsOf(tx, live, b) \in SUBSET TxIds
        /\ AcceptedOf(tx, live, b) \in SUBSET TxIds
        /\ PendingRows(tx, live, b) \in SUBSET TxIds
    BY DEF TypeOK, RowsOf, AcceptedOf, PendingRows
  <1> QED BY <1>1, LedgerAssumption, FS_Subset, FS_CardinalityType

\* A handler that leaves imported rows as they were leaves the counts.
LEMMA CalmCounts ==
  ASSUME Sound, CountersExact, Calm, NoImport
  PROVE  CountersExact'
  <1> SUFFICES ASSUME NEW b \in Batches PROVE Counts(batch'[b], tx', live', b)
    BY ExactAfter
  <1>1. b # NoBatch BY LedgerAssumption
  <1>2. \A t : (t \in live' /\ tx'[t].batch = b) <=> (t \in live /\ tx[t].batch = b)
    BY <1>1 DEF Calm, NoImport
  <1>3. \A t \in live : tx[t].batch = b => tx'[t].state = tx[t].state
    BY <1>1 DEF Calm
  <1>4. /\ RowsOf(tx', live', b) = RowsOf(tx, live, b)
        /\ AcceptedOf(tx', live', b) = AcceptedOf(tx, live, b)
        /\ PendingRows(tx', live', b) = PendingRows(tx, live, b)
    BY <1>2, <1>3 DEF RowsOf, AcceptedOf, PendingRows
  <1>5. batch'[b] = batch[b] BY DEF NoImport
  <1> QED BY <1>4, <1>5, ExactBefore DEF Counts

\* One more imported row is one more accepted row.
LEMMA ImportCounts ==
  ASSUME Sound, CountersExact, Calm, NEW b \in Batches, CountImported(b),
         NEW t, t \notin live, t \in live',
         tx'[t].batch = b, tx'[t].state = "accepted",
         \A x \in live' \ live : x = t \/ tx'[x].batch = NoBatch
  PROVE  CountersExact'
  <1> SUFFICES ASSUME NEW c \in Batches PROVE Counts(batch'[c], tx', live', c)
    BY ExactAfter
  <1>1. c # NoBatch /\ TypeOK BY LedgerAssumption DEF Sound
  <1>2. \A x : (x \in live' /\ x # t /\ tx'[x].batch = c) <=> (x \in live /\ tx[x].batch = c)
    BY <1>1 DEF Calm
  <1>3. \A x \in live : tx[x].batch = c => tx'[x].state = tx[x].state
    BY <1>1 DEF Calm
  <1>4. Counts(batch[c], tx, live, c) BY ExactBefore
  <1>5. CASE c # b
    <2>1. /\ RowsOf(tx', live', c) = RowsOf(tx, live, c)
          /\ AcceptedOf(tx', live', c) = AcceptedOf(tx, live, c)
          /\ PendingRows(tx', live', c) = PendingRows(tx, live, c)
      BY <1>2, <1>3, <1>5 DEF RowsOf, AcceptedOf, PendingRows
    <2>2. batch'[c] = batch[c] BY <1>1, <1>5 DEF CountImported, TypeOK
    <2> QED BY <1>4, <2>1, <2>2 DEF Counts
  <1>6. CASE c = b
    <2>1. /\ RowsOf(tx', live', c) = RowsOf(tx, live, c) \cup {t}
          /\ AcceptedOf(tx', live', c) = AcceptedOf(tx, live, c) \cup {t}
          /\ t \notin RowsOf(tx, live, c) /\ t \notin AcceptedOf(tx, live, c)
      BY <1>2, <1>3, <1>6 DEF RowsOf, AcceptedOf
    <2>2. PendingRows(tx', live', c) = PendingRows(tx, live, c)
      <3>1. "accepted" \notin PendingStates BY DEF PendingStates
      <3> QED BY <1>2, <1>3, <3>1 DEF PendingRows
    <2>3. /\ Cardinality(RowsOf(tx', live', c)) = Cardinality(RowsOf(tx, live, c)) + 1
          /\ Cardinality(AcceptedOf(tx', live', c)) = Cardinality(AcceptedOf(tx, live, c)) + 1
      BY <1>1, <2>1, OfFinite, FS_AddElement
    <2>4. /\ batch'[c].rows = batch[c].rows + 1 /\ batch'[c].accepted = batch[c].accepted + 1
          /\ batch'[c].pending = batch[c].pending
      BY <1>1, <1>6 DEF CountImported, TypeOK
    <2> QED BY <1>4, <2>2, <2>3, <2>4 DEF Counts
  <1> QED BY <1>5, <1>6

\* Taking rows out of a finite set takes their number off its size.
LEMMA TakenOut ==
  ASSUME NEW S, IsFiniteSet(S), NEW U, U \subseteq S
  PROVE  /\ Cardinality(S \ U) = Minus(Cardinality(S), Cardinality(U))
         /\ Cardinality(U) \in Nat /\ Cardinality(S \ U) \in Nat
  <1>1. S \cap U = U OBVIOUS
  <1>2. Cardinality(S \ U) = Cardinality(S) - Cardinality(U)
    BY <1>1, FS_Difference
  <1>3. IsFiniteSet(U) /\ Cardinality(U) <= Cardinality(S) BY FS_Subset
  <1>4. Cardinality(U) \in Nat /\ Cardinality(S) \in Nat BY <1>3, FS_CardinalityType
  <1> QED BY <1>2, <1>3, <1>4 DEF Minus

\* Closing a batch whose pending counter is right leaves the counters.
LEMMA CloseCounts ==
  ASSUME NEW h, NEW T, NEW L, NEW b, h \in BatchHeader, Counts(h, T, L, b)
  PROVE  Counts(CloseIfComplete(h, Cardinality(PendingRows(T, L, b))), T, L, b)
  <1> DEFINE n == Cardinality(PendingRows(T, L, b))
  <1>1. h.pending = n BY DEF Counts
  <1> HIDE DEF n
  <1>2. /\ CloseIfComplete(h, n).rows = h.rows /\ CloseIfComplete(h, n).accepted = h.accepted
        /\ CloseIfComplete(h, n).pending = h.pending
    BY <1>1 DEF CloseIfComplete, BatchHeader
  <1> QED BY <1>2 DEF Counts, n

\* A deletion takes off each counter the rows whose state it ends: the deleted
\* ones, and the rows matched against them, which it rejects.
LEMMA DeleteCounts ==
  ASSUME Sound, CountersExact, NEW D \in SUBSET live, Deletes(D), Remove(D)
  PROVE  CountersExact'
  <1> SUFFICES ASSUME NEW b \in Batches PROVE Counts(batch'[b], tx', live', b)
    BY ExactAfter
  <1> DEFINE gone == {u \in D : tx[u].batch = b}
             lost == LostRows(D, b)
             acc  == {u \in lost : tx[u].state = "accepted"}
             pend == {u \in lost : tx[u].state \in PendingStates}
             h    == [batch[b] EXCEPT !.rows     = Minus(@, Cardinality(gone)),
                                      !.accepted = Minus(@, Cardinality(acc)),
                                      !.pending  = Minus(@, Cardinality(pend))]
             left == Cardinality(PendingRows(Without(D), live \ D, b))
  <1>1. TypeOK /\ Counts(batch[b], tx, live, b) BY ExactBefore DEF Sound
  <1>2. /\ live' = live \ D
        /\ \A u \in live \ D : /\ tx'[u].batch = tx[u].batch
                               /\ tx'[u].state = IF u \in Orphans(D) THEN "rejected"
                                                 ELSE tx[u].state
    BY DEF Deletes
  <1>3. /\ gone \subseteq RowsOf(tx, live, b)
        /\ acc \subseteq AcceptedOf(tx, live, b)
        /\ pend \subseteq PendingRows(tx, live, b)
    BY DEF RowsOf, AcceptedOf, PendingRows, LostRows, Orphans
  <1>4. RowsOf(tx', live', b) = RowsOf(tx, live, b) \ gone
    BY <1>2 DEF RowsOf
  <1>5. AcceptedOf(tx', live', b) = AcceptedOf(tx, live, b) \ acc
    BY <1>2 DEF AcceptedOf, LostRows
  <1>6. PendingRows(tx', live', b) = PendingRows(tx, live, b) \ pend
    <2>1. "rejected" \notin PendingStates BY DEF PendingStates
    <2> QED BY <1>2, <2>1 DEF PendingRows, LostRows
  <1>7. PendingRows(Without(D), live \ D, b) = PendingRows(tx', live', b)
    <2>1. \A u \in live \ D : /\ Without(D)[u].batch = tx'[u].batch
                              /\ Without(D)[u].state = tx'[u].state
      BY <1>1, <1>2, WithoutRows
    <2> QED BY <1>2, <2>1 DEF PendingRows
  <1>8. batch'[b] = IF Cardinality(pend) = 0 THEN h ELSE CloseIfComplete(h, left)
    BY DEF Remove, SettledHeader
  <1>9. h \in BatchHeader /\ Counts(h, tx', live', b)
    <2>1. /\ Cardinality(RowsOf(tx', live', b))
               = Minus(Cardinality(RowsOf(tx, live, b)), Cardinality(gone))
          /\ Cardinality(RowsOf(tx', live', b)) \in Nat
      BY <1>1, <1>3, <1>4, OfFinite, TakenOut
    <2>2. /\ Cardinality(AcceptedOf(tx', live', b))
               = Minus(Cardinality(AcceptedOf(tx, live, b)), Cardinality(acc))
          /\ Cardinality(AcceptedOf(tx', live', b)) \in Nat
      BY <1>1, <1>3, <1>5, OfFinite, TakenOut
    <2>3. /\ Cardinality(PendingRows(tx', live', b))
               = Minus(Cardinality(PendingRows(tx, live, b)), Cardinality(pend))
          /\ Cardinality(PendingRows(tx', live', b)) \in Nat
      BY <1>1, <1>3, <1>6, OfFinite, TakenOut
    <2> DEFINE h0 == batch[b]
               x == Minus(h0.rows, Cardinality(gone))
               y == Minus(h0.accepted, Cardinality(acc))
               z == Minus(h0.pending, Cardinality(pend))
    <2>4. h0 \in BatchHeader BY <1>1 DEF TypeOK
    <2>5. /\ x = Cardinality(RowsOf(tx', live', b)) /\ x \in Nat
          /\ y = Cardinality(AcceptedOf(tx', live', b)) /\ y \in Nat
          /\ z = Cardinality(PendingRows(tx', live', b)) /\ z \in Nat
      BY <1>1, <2>1, <2>2, <2>3 DEF Counts
    <2>6. h = [h0 EXCEPT !.rows = x, !.accepted = y, !.pending = z] OBVIOUS
    <2> HIDE DEF h, h0, x, y, z
    <2>7. h \in BatchHeader /\ h.rows = x /\ h.accepted = y /\ h.pending = z
      BY <2>4, <2>5, <2>6 DEF BatchHeader
    <2> QED BY <2>5, <2>7 DEF Counts
  <1> HIDE DEF h, pend
  <1> QED BY <1>7, <1>8, <1>9, CloseCounts

\* Closing a batch at the end of a request leaves its counters.
LEMMA FinishCounts ==
  ASSUME Sound, CountersExact, FinishReconcileRequest
  PROVE  CountersExact'
  <1> SUFFICES ASSUME NEW b \in Batches PROVE Counts(batch'[b], tx', live', b)
    BY ExactAfter
  <1> DEFINE h == batch[b]
  <1>1. h \in BatchHeader /\ Counts(h, tx, live, b)
    BY ExactBefore DEF Sound, TypeOK
  <1>2. /\ tx' = tx /\ live' = live
        /\ batch'[b] \in {h, CloseIfComplete(h, Cardinality(PendingRows(tx, live, b)))}
    BY DEF FinishReconcileRequest, Sound, TypeOK
  <1> HIDE DEF h
  <1>3. Counts(batch'[b], tx, live, b)
    BY <1>1, <1>2, CloseCounts
  <1> QED BY <1>2, <1>3

\* One row that enters or leaves a finite set of rows.
LEMMA OneMoves ==
  ASSUME NEW S, NEW U, IsFiniteSet(S), NEW t, \A u : u # t => (u \in U <=> u \in S)
  PROVE  Cardinality(U) = IF t \in S /\ t \notin U THEN Minus(Cardinality(S), 1)
                          ELSE IF t \notin S /\ t \in U THEN Cardinality(S) + 1
                          ELSE Cardinality(S)
  <1>1. CASE t \in S /\ t \notin U
    <2>1. U = S \ {t} BY <1>1
    <2>2. Cardinality(U) = Cardinality(S) - 1 BY <1>1, <2>1, FS_RemoveElement
    <2>3. Cardinality(S) \in Nat /\ Cardinality(U) \in Nat
      BY <2>1, FS_RemoveElement, FS_CardinalityType
    <2> QED BY <1>1, <2>2, <2>3 DEF Minus
  <1>2. CASE t \notin S /\ t \in U
    <2>1. U = S \cup {t} BY <1>2
    <2> QED BY <1>2, <2>1, FS_AddElement
  <1>3. CASE t \in S <=> t \in U
    <2>1. U = S BY <1>3
    <2> QED BY <1>3, <2>1
  <1> QED BY <1>1, <1>2, <1>3

\* A transition moves its row from one counter to the other.
LEMMA TransitionCounts ==
  ASSUME Sound, CountersExact, NEW t \in TxIds, NEW row, Transition(t, row),
         row.batch = tx[t].batch
  PROVE  CountersExact'
  <1> SUFFICES ASSUME NEW c \in Batches PROVE Counts(batch'[c], tx', live', c)
    BY ExactAfter
  <1> DEFINE b == tx[t].batch
             step(n, from, to) == IF from /\ ~to THEN Minus(n, 1)
                                  ELSE IF ~from /\ to THEN n + 1 ELSE n
             x == step(batch[b].pending, tx[t].state \in PendingStates,
                                         row.state \in PendingStates)
             y == step(batch[b].accepted, tx[t].state = "accepted",
                                          row.state = "accepted")
  <1>1. /\ t \in live /\ tx[t] \in Row /\ live' = live /\ tx'[t] = row
        /\ \A u \in live \ {t} : tx'[u] = tx[u]
    BY TransitionStart
  <1>2. TypeOK /\ Counts(batch[c], tx, live, c) BY ExactBefore DEF Sound
  <1>3. RowsOf(tx', live', c) = RowsOf(tx, live, c)
    BY <1>1 DEF RowsOf
  <1>4. batch' = [batch EXCEPT ![b].pending = x, ![b].accepted = y]
    <2>1. batch' = [batch EXCEPT
             ![b].pending  = step(@, tx[t].state \in PendingStates,
                                     row.state \in PendingStates),
             ![b].accepted = step(@, tx[t].state = "accepted",
                                     row.state = "accepted")]
      BY Zenon DEF Transition
    <2>2. b \in Batches
      <3>1. b # NoBatch BY Zenon DEF Transition
      <3> QED BY <1>1, <3>1 DEF Row
    <2>3. batch[b] \in BatchHeader BY <1>2, <2>2 DEF TypeOK
    <2> HIDE DEF step, b
    <2> QED BY <1>2, <2>1, <2>2, <2>3 DEF TypeOK, BatchHeader
  <1>5. CASE c # b
    <2>1. /\ AcceptedOf(tx', live', c) = AcceptedOf(tx, live, c)
          /\ PendingRows(tx', live', c) = PendingRows(tx, live, c)
      BY <1>1, <1>5 DEF AcceptedOf, PendingRows
    <2> HIDE DEF x, y
    <2>2. batch'[c] = batch[c] BY <1>2, <1>4, <1>5 DEF TypeOK
    <2> QED BY <1>2, <1>3, <2>1, <2>2 DEF Counts
  <1>6. CASE c = b
    <2>1. Cardinality(AcceptedOf(tx', live', c)) = y
      <3> DEFINE S == AcceptedOf(tx, live, c)
                 U == AcceptedOf(tx', live', c)
      <3>1. /\ (tx[t].state = "accepted") <=> t \in S
            /\ (row.state = "accepted") <=> t \in U
            /\ \A u : u # t => (u \in U <=> u \in S)
        BY <1>1, <1>6 DEF AcceptedOf
      <3>2. IsFiniteSet(S) /\ batch[b].accepted = Cardinality(S)
        BY <1>2, <1>6, OfFinite DEF Counts
      <3> HIDE DEF S, U
      <3>3. Cardinality(U) = IF t \in S /\ t \notin U THEN Minus(Cardinality(S), 1)
                             ELSE IF t \notin S /\ t \in U THEN Cardinality(S) + 1
                             ELSE Cardinality(S)
        BY <3>1, <3>2, OneMoves
      <3>4. Cardinality(U) = y
        BY <3>1, <3>2, <3>3
      <3> QED BY <3>4 DEF U
    <2>2. Cardinality(PendingRows(tx', live', c)) = x
      <3> DEFINE S == PendingRows(tx, live, c)
                 U == PendingRows(tx', live', c)
      <3>1. /\ (tx[t].state \in PendingStates) <=> t \in S
            /\ (row.state \in PendingStates) <=> t \in U
            /\ \A u : u # t => (u \in U <=> u \in S)
        BY <1>1, <1>6 DEF PendingRows
      <3>2. IsFiniteSet(S) /\ batch[b].pending = Cardinality(S)
        BY <1>2, <1>6, OfFinite DEF Counts
      <3> HIDE DEF S, U
      <3>3. Cardinality(U) = IF t \in S /\ t \notin U THEN Minus(Cardinality(S), 1)
                             ELSE IF t \notin S /\ t \in U THEN Cardinality(S) + 1
                             ELSE Cardinality(S)
        BY <3>1, <3>2, OneMoves
      <3>4. Cardinality(U) = x
        BY <3>1, <3>2, <3>3
      <3> QED BY <3>4 DEF U
    <2> HIDE DEF x, y
    <2>3. /\ batch'[c].rows = batch[c].rows /\ batch'[c].pending = x
          /\ batch'[c].accepted = y
      <3>1. batch[c] \in BatchHeader BY <1>2 DEF TypeOK
      <3> QED BY <1>2, <1>4, <1>6, <3>1 DEF TypeOK, BatchHeader
    <2> QED BY <1>2, <1>3, <2>1, <2>2, <2>3 DEF Counts
  <1> QED BY <1>5, <1>6

-----------------------------------------------------------------------------
(* A row that another one is matched against stays counted. *)

LEMMA CalmMatches ==
  ASSUME Sound, OneWayLinkIsMatch, MatchedOccurrenceCounts, Calm
  PROVE  MatchedOccurrenceCounts'
  <1> SUFFICES ASSUME NEW t \in live', OneWay(tx', t), tx'[t].state \notin Reverted,
                      NEW m, m = tx'[t].linked,
                      tx'[m].series # NoSeries, tx'[m].batch = NoBatch
               PROVE  tx'[m].state \notin Reverted
    BY DEF MatchedOccurrenceCounts, OneWay
  <1>1. t \in live /\ OneWay(tx, t) /\ tx[t].linked = m
    BY DEF Calm
  <1>2. tx[t].batch # NoBatch
    BY <1>1 DEF OneWayLinkIsMatch, OneWay
  <1>3. tx[t].state \notin Reverted
    BY <1>1, <1>2 DEF Calm
  <1>4. m \in live /\ Referred(m)
    BY <1>1 DEF OneWay, Sound, LinksResolve, Referred
  <1>5. tx'[m].batch = tx[m].batch /\ tx'[m].state = tx[m].state
    BY <1>4 DEF Calm
  <1>6. CASE tx'[m].series = tx[m].series
    BY <1>1, <1>3, <1>5, <1>6 DEF MatchedOccurrenceCounts, OneWay
  <1>7. CASE tx'[m].series # tx[m].series
    BY <1>4, <1>7 DEF Calm
  <1> QED BY <1>6, <1>7

\* A deletion rejects imported rows only.
LEMMA DeleteMatches ==
  ASSUME Sound, OneWayLinkIsMatch, MatchedOccurrenceCounts, NEW D \in SUBSET live,
         ClosedUnderPairs(D), Deletes(D)
  PROVE  MatchedOccurrenceCounts'
  <1> SUFFICES ASSUME NEW t \in live', OneWay(tx', t), tx'[t].state \notin Reverted,
                      NEW m, m = tx'[t].linked,
                      tx'[m].series # NoSeries, tx'[m].batch = NoBatch
               PROVE  tx'[m].state \notin Reverted
    BY DEF MatchedOccurrenceCounts, OneWay
  <1>1. t \in live \ D /\ NoTx \notin D
    BY LedgerAssumption DEF Deletes, Sound, TypeOK
  <1>2. tx[t].linked = m /\ m # NoTx /\ m \notin D /\ t \notin Orphans(D)
    BY <1>1 DEF Deletes, OneWay, Reverted
  <1>3. m \in live \ D /\ m # t
    BY <1>1, <1>2 DEF Sound, LinksResolve
  <1>4. OneWay(tx, t)
    BY <1>1, <1>2, <1>3 DEF Deletes, OneWay, IsReciprocalPair
  <1>5. tx[t].state \notin Reverted /\ tx[m].batch = NoBatch /\ tx[m].series # NoSeries
    BY <1>1, <1>2, <1>3 DEF Deletes
  <1>6. tx[m].state \notin Reverted
    BY <1>1, <1>2, <1>4, <1>5 DEF MatchedOccurrenceCounts, OneWay
  <1>7. m \notin Orphans(D)
    BY <1>1, <1>3, <1>5 DEF Orphans, ContributesToCachedBalance, OneWayLinkIsMatch, IsReciprocalPair
  <1> QED BY <1>3, <1>6, <1>7 DEF Deletes

\* A review step changes imported rows, and matches against counted ones.
LEMMA TransitionMatches ==
  ASSUME Sound, MatchedOccurrenceCounts, NEW t \in TxIds, NEW row, Transition(t, row),
         row.batch = tx[t].batch,
         \/ row.linked = tx[t].linked
         \/ row.linked \in live \ {t} /\ tx[row.linked].state \notin Reverted
  PROVE  MatchedOccurrenceCounts'
  <1> SUFFICES ASSUME NEW u \in live', OneWay(tx', u), tx'[u].state \notin Reverted,
                      NEW m, m = tx'[u].linked,
                      tx'[m].series # NoSeries, tx'[m].batch = NoBatch
               PROVE  tx'[m].state \notin Reverted
    BY DEF MatchedOccurrenceCounts, OneWay
  <1>1. /\ t \in live /\ tx[t].state \notin Reverted /\ live' = live /\ tx'[t] = row
        /\ \A v \in live \ {t} : tx'[v] = tx[v]
    BY TransitionStart
  <1>2. tx[t].batch # NoBatch BY Zenon DEF Transition
  <1>3. m \in live
    BY <1>1 DEF OneWay, Sound, LinksResolve
  <1>4. m # t /\ tx'[m] = tx[m]
    BY <1>1, <1>2, <1>3
  <1>5. CASE u = t /\ row.linked # tx[t].linked
    BY <1>1, <1>4, <1>5
  <1>6. CASE u # t \/ row.linked = tx[t].linked
    <2>1. tx[u].linked = m /\ tx[u].state \notin Reverted /\ u \in live
      BY <1>1, <1>6
    <2>2. OneWay(tx, u)
      BY <2>1, <1>4 DEF OneWay, IsReciprocalPair
    <2> QED BY <2>1, <2>2, <1>4 DEF MatchedOccurrenceCounts, OneWay
  <1> QED BY <1>5, <1>6

-----------------------------------------------------------------------------
(* Every step, and the theorems. *)

\* What a step keeps of the counters and of the matches.
CountsKept == CountersExact => CountersExact'
MatchesKept == MatchedOccurrenceCounts => MatchedOccurrenceCounts'

\* A handler that makes no match and touches no imported row keeps both.
LEMMA CalmKeeps ==
  ASSUME Sound, OneWayLinkIsMatch, Calm, NoImport
  PROVE  CountsKept /\ MatchesKept
  BY CalmCounts, CalmMatches DEF CountsKept, MatchesKept

LEMMA DeletingKept ==
  ASSUME Sound, OneWayLinkIsMatch, Deleting
  PROVE  CountsKept /\ MatchesKept
  BY DeleteCounts, DeleteMatches DEF CountsKept, MatchesKept, Deleting

LEMMA WritesKeep ==
  ASSUME Sound, OneWayLinkIsMatch, Writes
  PROVE  CountsKept /\ MatchesKept
  <1>1. CASE \E t \in TxIds, a \in Accounts, amt \in Amounts, ty \in Types, st \in Statuses :
                Idle /\ CreateTransaction(t, a, amt, ty, st)
    BY <1>1, Zenon, CreateCalm, CalmKeeps
  <1>2. CASE \E e, i \in TxIds, from, to \in Accounts, amt \in Amounts, st \in Statuses :
                Idle /\ CreateTransfer(e, i, from, to, amt, st)
    BY <1>2, Zenon, TransferCalm, CalmKeeps
  <1>3. CASE \E t \in TxIds, a \in Accounts, target \in Targets :
                Idle /\ AdjustAccountBalance(t, a, target)
    BY <1>3, Zenon, AdjustCalm, CalmKeeps
  <1>4. CASE \E t \in TxIds, a \in Accounts, amt \in Amounts, ty \in Types, st \in Statuses :
                \E F \in SUBSET SeriesSyncTargets(t) :
                   Idle /\ UpdateTransaction(t, a, amt, ty, st, F)
    BY <1>4, Zenon, UpdateCalm, CalmKeeps
  <1>5. CASE \/ \E a \in Accounts, o \in Openings : Idle /\ UpdateOpeningBalance(a, o)
             \/ \E e, i \in TxIds : Idle /\ PairExistingTransactions(e, i)
             \/ \E t \in TxIds : Idle /\ UnpairTransactions(t)
    BY <1>5, Zenon, OpeningCalm, PairCalm, UnpairCalm, CalmKeeps
  <1>6. CASE \E source, t \in TxIds, dst \in Accounts : Idle /\ ConvertAndCreateLeg(source, t, dst)
    BY <1>6, Zenon, ConvertCalm, CalmKeeps
  <1>7. CASE \/ \E t \in TxIds : Idle /\ DeleteTransaction(t)
             \/ \E ids \in SUBSET TxIds : Idle /\ BulkDeleteTransactions(ids)
    <2>1. TypeOK /\ LinksResolve BY DEF Sound
    <2> QED BY <1>7, <2>1, Zenon, DeleteDeletes, BulkDeleteDeletes, DeletingKept
  <1> QED BY <1>1, <1>2, <1>3, <1>4, <1>5, <1>6, <1>7, Zenon DEF Writes

LEMMA ImportsKeep ==
  ASSUME Sound, OneWayLinkIsMatch, Imports
  PROVE  CountsKept /\ MatchesKept
  <1>1. PICK b \in Batches :
          \/ \E t \in TxIds, a \in Accounts, amt \in Amounts, ty \in Types :
                Idle /\ ImportCreate(b, t, a, amt, ty)
          \/ \E t, p \in TxIds, a \in Accounts : Idle /\ ImportPairWithExisting(b, t, a, p)
          \/ \E e, i \in TxIds, from, to \in Accounts, amt \in Amounts :
                \E bankLeg \in {e, i} :
                   Idle /\ ImportCreateTransferPair(b, e, i, from, to, amt, bankLeg)
    BY Zenon DEF Imports
  <1>2. ASSUME NEW t, Calm, CountImported(b), t \notin live, t \in live',
               tx'[t].batch = b, tx'[t].state = "accepted",
               \A x \in live' \ live : x = t \/ tx'[x].batch = NoBatch
        PROVE  CountsKept /\ MatchesKept
    BY <1>2, ImportCounts, CalmMatches DEF CountsKept, MatchesKept
  <1>3. ASSUME NEW t \in TxIds, NEW a \in Accounts, NEW amt \in Amounts, NEW ty \in Types,
               ImportCreate(b, t, a, amt, ty)
        PROVE  CountsKept /\ MatchesKept
    <2>1. CountImported(b) BY <1>3 DEF ImportCreate
    <2>2. /\ Calm /\ t \notin live /\ live' = live \cup {t}
          /\ tx'[t].batch = b /\ tx'[t].state = "accepted"
      BY <1>3, ImportCreateCalm
    <2>3. t \in live' /\ \A x \in live' \ live : x = t BY <2>2
    <2> QED BY <2>1, <2>2, <2>3, <1>2
  <1>4. ASSUME NEW t \in TxIds, NEW p \in TxIds, NEW a \in Accounts,
               ImportPairWithExisting(b, t, a, p)
        PROVE  CountsKept /\ MatchesKept
    <2>1. CountImported(b) BY <1>4 DEF ImportPairWithExisting
    <2>2. /\ Calm /\ t \notin live /\ live' = live \cup {t}
          /\ tx'[t].batch = b /\ tx'[t].state = "accepted"
      BY <1>4, ImportPairCalm
    <2>3. t \in live' /\ \A x \in live' \ live : x = t BY <2>2
    <2> QED BY <2>1, <2>2, <2>3, <1>2
  <1>5. ASSUME NEW e \in TxIds, NEW i \in TxIds, NEW from \in Accounts, NEW to \in Accounts,
               NEW amt \in Amounts, NEW bankLeg \in {e, i},
               ImportCreateTransferPair(b, e, i, from, to, amt, bankLeg)
        PROVE  CountsKept /\ MatchesKept
    <2>1. CountImported(b) BY <1>5 DEF ImportCreateTransferPair
    <2>2. /\ Calm /\ live \cap {e, i} = {} /\ live' = live \cup {e, i}
          /\ tx'[bankLeg].batch = b /\ tx'[bankLeg].state = "accepted"
          /\ \A x \in {e, i} \ {bankLeg} : tx'[x].batch = NoBatch
      BY <1>5, ImportTransferCalm
    <2>3. /\ bankLeg \notin live /\ bankLeg \in live'
          /\ \A x \in live' \ live : x = bankLeg \/ tx'[x].batch = NoBatch
      BY <2>2
    <2> QED BY <2>1, <2>2, <2>3, <1>2
  <1> QED BY <1>1, <1>3, <1>4, <1>5, Zenon

LEMMA TransitionKept ==
  ASSUME Sound, NEW t \in TxIds, NEW row, Transition(t, row), row.batch = tx[t].batch,
         \/ row.linked = tx[t].linked
         \/ row.linked \in live \ {t} /\ tx[row.linked].state \notin Reverted
  PROVE  CountsKept /\ MatchesKept
  BY TransitionCounts, TransitionMatches DEF CountsKept, MatchesKept

LEMMA ReviewsKeep ==
  ASSUME Sound, OneWayLinkIsMatch, Reviews
  PROVE  CountsKept /\ MatchesKept
  <1>1. ASSUME NEW t \in TxIds, NEW target, ReconcileFlag(t, target)
        PROVE  CountsKept /\ MatchesKept
    <2> DEFINE r == tx[t]
               row == [r EXCEPT !.state = target]
    <2>1. Transition(t, row) BY <1>1 DEF ReconcileFlag
    <2>2. r \in Row BY <2>1, TransitionStart
    <2>3. row.linked = r.linked /\ row.batch = r.batch
      <3> HIDE DEF r
      <3> QED BY <2>2 DEF Row
    <2> HIDE DEF row
    <2> QED BY <2>1, <2>3, TransitionKept
  <1>2. ASSUME NEW t \in TxIds, NEW amt, ReconcileEdit(t, amt)
        PROVE  CountsKept /\ MatchesKept
    <2> DEFINE r == tx[t]
               row == [r EXCEPT !.state = "edited", !.amount = amt]
    <2>1. Transition(t, row) BY <1>2 DEF ReconcileEdit
    <2>2. r \in Row BY <2>1, TransitionStart
    <2>3. row.linked = r.linked /\ row.batch = r.batch
      <3> HIDE DEF r
      <3> QED BY <2>2 DEF Row
    <2> HIDE DEF row
    <2> QED BY <2>1, <2>3, TransitionKept
  <1>3. ASSUME NEW t \in TxIds, NEW m \in TxIds, ReconcileMatch(t, m)
        PROVE  CountsKept /\ MatchesKept
    <2> DEFINE r == tx[t]
               row == [r EXCEPT !.state = "matched", !.linked = m]
    <2>1. Transition(t, row) /\ m \in live \ {t} /\ tx[m].state \notin Reverted
      BY <1>3 DEF ReconcileMatch
    <2>2. r \in Row BY <2>1, TransitionStart
    <2>3. row.linked = m /\ row.batch = r.batch
      <3> HIDE DEF r
      <3> QED BY <2>2 DEF Row
    <2> HIDE DEF row
    <2> QED BY <2>1, <2>3, TransitionKept
  <1>4. CASE FinishReconcileRequest
    <2>1. UNCHANGED <<live, tx>> BY <1>4 DEF FinishReconcileRequest
    <2>2. MatchesKept
      BY <2>1 DEF MatchesKept, MatchedOccurrenceCounts, IsReciprocalPair
    <2> QED BY <1>4, <2>2, FinishCounts DEF CountsKept
  <1> QED BY <1>1, <1>2, <1>3, <1>4, Zenon DEF Reviews

LEMMA RecurrencesKeep ==
  ASSUME Sound, OneWayLinkIsMatch, Recurrences
  PROVE  CountsKept /\ MatchesKept
  <1>1. CASE \/ \E t \in TxIds : Idle /\ SkipOccurrence(t)
             \/ \E t \in TxIds, s \in Series : Idle /\ PromoteToRecurring(t, s)
             \/ \E due \in SUBSET TxIds : Idle /\ SettleDueAuto(due)
    BY <1>1, Zenon, SkipCalm, PromoteCalm, SettleCalm, CalmKeeps
  <1>2. CASE \E s \in Series, future \in SUBSET TxIds : Idle /\ StopRecurring(s, future)
    <2>1. TypeOK /\ LinksResolve BY DEF Sound
    <2> QED BY <1>2, <2>1, Zenon, StopDeletes, DeletingKept
  <1>3. CASE \E s \in Series, t \in TxIds, a \in Accounts, amt \in Amounts, ty \in Types,
                mode \in OccurrenceModes : Idle /\ CreateOccurrence(s, t, a, amt, ty, mode)
    BY <1>3, Zenon, OccurrenceCalm, CalmKeeps
  <1>4. CASE \E s \in Series, e, i \in TxIds, from, to \in Accounts, amt \in Amounts,
                mode \in OccurrenceModes :
                   Idle /\ CreateTransferOccurrence(s, e, i, from, to, amt, mode)
    BY <1>4, Zenon, TransferOccurrenceCalm, CalmKeeps
  <1> QED BY <1>1, <1>2, <1>3, <1>4, Zenon DEF Recurrences

\* Links in one direction, counters and matches hold up one another.
LEMMA ReviewedStep ==
  ASSUME Sound, OneWayLinkIsMatch, [Next]_vars
  PROVE  Sound' /\ OneWayLinkIsMatch' /\ CountsKept /\ MatchesKept
  <1>1. CASE Next
    <2>1. Sound' BY <1>1, NextSound
    <2>2. OneWayLinkIsMatch' BY <1>1, NextKeeps DEF Sound
    <2>3. CountsKept /\ MatchesKept
      BY <1>1, WritesKeep, ImportsKeep, ReviewsKeep, RecurrencesKeep DEF Next
    <2> QED BY <2>1, <2>2, <2>3
  <1>2. CASE UNCHANGED vars
    <2>1. Sound' BY <1>2, StutterSound
    <2>2. OneWayLinkIsMatch' BY <1>2, StutterKeeps DEF Sound, Keeps
    <2>3. CountsKept
      BY <1>2 DEF vars, CountsKept, CountersExact, PendingRows
    <2>4. MatchesKept
      BY <1>2 DEF vars, MatchesKept, MatchedOccurrenceCounts, IsReciprocalPair
    <2> QED BY <2>1, <2>2, <2>3, <2>4
  <1> QED BY <1>1, <1>2

\* The counters of every import batch equal a recount of its rows after any
\* sequence of imports, reviews, closes and deletions: a close never sees
\* pending rows the header forgot, and no counter sticks above its rows.
THEOREM CountersCorrect == Spec => []CountersExact
  <1> DEFINE I == Sound /\ OneWayLinkIsMatch /\ CountersExact
  <1>1. Init => I
    <2> SUFFICES ASSUME Init PROVE I OBVIOUS
    <2>1. Sound /\ OneWayLinkIsMatch BY InitSound, InitIInv DEF IInv, Shape
    <2>2. CountersExact
      BY FS_EmptySet DEF Init, CountersExact, NoHeader, PendingRows
    <2> QED BY <2>1, <2>2
  <1>2. I /\ [Next]_vars => I' BY ReviewedStep DEF CountsKept
  <1>3. I => CountersExact OBVIOUS
  <1> QED BY <1>1, <1>2, <1>3, PTL DEF Spec

\* An expected occurrence that a bank row was matched against is never skipped
\* or rejected while the match stands, whether or not imported rows are
\* promoted to a series.
THEOREM MatchesCorrect == Spec => []MatchedOccurrenceCounts
  <1> DEFINE I == Sound /\ OneWayLinkIsMatch /\ MatchedOccurrenceCounts
  <1>1. Init => I
    <2> SUFFICES ASSUME Init PROVE I OBVIOUS
    <2>1. Sound /\ OneWayLinkIsMatch BY InitSound, InitIInv DEF IInv, Shape
    <2>2. MatchedOccurrenceCounts BY DEF Init, MatchedOccurrenceCounts
    <2> QED BY <2>1, <2>2
  <1>2. I /\ [Next]_vars => I' BY ReviewedStep DEF MatchesKept
  <1>3. I => MatchedOccurrenceCounts OBVIOUS
  <1> QED BY <1>1, <1>2, <1>3, PTL DEF Spec

\* As long as no imported row is promoted, a pending row of a series carries no
\* match of its own either: a row with one is imported, and it is in no series.
THEOREM RecurringCorrect == ~PromotesImported => (Spec => []RecurringConsistent)
  <1> SUFFICES ASSUME ~PromotesImported PROVE Spec => []RecurringConsistent OBVIOUS
  <1> DEFINE I == IInv /\ Sound /\ MatchedOccurrenceCounts
  <1>1. Init => I
    <2> SUFFICES ASSUME Init PROVE I OBVIOUS
    <2>1. MatchedOccurrenceCounts BY DEF Init, MatchedOccurrenceCounts
    <2> QED BY <2>1, InitIInv, InitSound
  <1>2. I /\ [Next]_vars => I'
    <2> SUFFICES ASSUME I, [Next]_vars PROVE I' OBVIOUS
    <2>1. IInv'
      <3>1. CASE Next BY <3>1, NextKeeps DEF IInv, Shape
      <3>2. CASE UNCHANGED vars BY <3>2, StutterKeeps DEF IInv, Shape, Keeps
      <3> QED BY <3>1, <3>2
    <2>2. Sound' /\ MatchedOccurrenceCounts'
      BY ReviewedStep DEF IInv, Shape, MatchesKept
    <2> QED BY <2>1, <2>2
  <1>3. I => RecurringConsistent
    BY DEF IInv, Shape, OneWayLinkIsMatch, RecurringNotImported, RecurringConsistent,
       PendingRecurringHasNoMatch
  <1> QED BY <1>1, <1>2, <1>3, PTL DEF Spec
=============================================================================
