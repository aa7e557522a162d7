------------------------------ MODULE Accounts ------------------------------
(***************************************************************************)
(* The accounts of an organisation: their type and the columns that belong *)
(* to a type, opening balances, the default account, and the rows that     *)
(* depend on the type of another row: per-cycle card payments and          *)
(* recurring transfers.  A request reads, and a later step checks, writes  *)
(* and commits; only the path that touches the type or a column of a type, *)
(* and a change of the opening balance, lock the row.                      *)
(***************************************************************************)
EXTENDS Integers

CONSTANTS
    Accts,       \* account identities: positive numbers
    Bodies,      \* bodies of updates: records with some of the columns
    NewRows,     \* rows an account is created with
    AcctReqs,    \* requests
    MaxAcctReqs  \* bound: requests begun

VARIABLES
    acct,     \* account -> row, or NoAcct
    posted,   \* account -> sum of its settled transactions
    settled,  \* accounts that have settled transactions
    cycles,   \* accounts with recorded cycle payments
    series,   \* recurring transfers: pairs of source and destination
    areq,     \* per request: what it does and what it has read
    single,   \* whether requests run one at a time in this behaviour
    acctReqs  \* requests begun

accountVars == <<acct, posted, settled, cycles, series, areq, single, acctReqs>>

Slugs     == {"checking", "credit_card", "loan"}
Liability == {"credit_card", "loan"}

\* Columns of a type: 0 and FALSE stand for NULL; same is a relative month of
\* 0, card any other column of a card, loan all the columns of a loan.
NoAcct == [type |-> "none", active |-> FALSE, dflt |-> FALSE, opening |-> 0,
           balance |-> 0, source |-> 0, close |-> 0, pay |-> 0, same |-> FALSE,
           card |-> FALSE, loan |-> FALSE]

\* A row of accounts.
AccountRow ==
    [type : Slugs, active : BOOLEAN, dflt : BOOLEAN, opening : Int, balance : Int,
     source : Accts \cup {0}, close : Nat, pay : Nat, same : BOOLEAN, card : BOOLEAN,
     loan : BOOLEAN]

\* What a body may say of each column it has.
ColumnValues ==
    [type |-> Slugs, active |-> BOOLEAN, dflt |-> BOOLEAN, opening |-> Int,
     source |-> Accts \cup {0}, close |-> Nat, pay |-> Nat, same |-> BOOLEAN,
     card |-> BOOLEAN, loan |-> BOOLEAN]

\* What the proofs ask of the constants; no account is created as the default.
AccountsAssumption ==
    /\ 0 \notin Accts
    /\ \A row \in NewRows : row \in AccountRow /\ ~ row.dflt
    /\ \A body \in Bodies : \A f \in DOMAIN body :
          f \in DOMAIN ColumnValues /\ body[f] \in ColumnValues[f]

IsAcct(a) == acct[a] # NoAcct

-----------------------------------------------------------------------------
(* The rules of the columns. *)

\* _reject_same_month_payment_before_close, with the default payment day.
PaysAfterClose(row) ==
    row.same /\ row.close # 0 => (IF row.pay = 0 THEN 1 ELSE row.pay) > row.close

\* validate_credit_card_fields and validate_loan_fields.
CardFieldsValid(row) == row.card => row.type = "credit_card"
LoanFieldsValid(row) == row.loan <=> row.type = "loan"

\* The checks of create_account.
CreateValid(row) ==
    /\ row.close # 0 <=> row.type = "credit_card"
    /\ row.type # "credit_card" => row.pay = 0 /\ ~ row.same
    /\ PaysAfterClose(row)
    /\ CardFieldsValid(row)
    /\ LoanFieldsValid(row)

\* validate_close_day_cascade and validate_payment_day_cascade.
CascadeValid(from, to, body) ==
    LET given == "close" \in DOMAIN body
    IN  IF to = "credit_card"
        THEN IF from = "credit_card" THEN given => body.close # 0
             ELSE given /\ body.close # 0
        ELSE /\ given => body.close = 0
             /\ "pay" \in DOMAIN body => body.pay = 0
             /\ "same" \in DOMAIN body => ~ body.same

Given(row, body, F) == [f \in DOMAIN row |->
    IF f \in F \cap DOMAIN body THEN body[f] ELSE row[f]]

\* Mutant: the days of a card outlive the card.
ClearedExceptDays(row, to) ==
    [f \in DOMAIN row |->
        IF f = "type" THEN to
        ELSE IF f = "source" /\ to \notin Liability THEN 0
        ELSE IF f = "card" /\ to # "credit_card" THEN FALSE
        ELSE IF f = "loan" /\ to # "loan" THEN FALSE
        ELSE row[f]]

\* apply_type_change_in_session: what a type does not have is cleared.
Cleared(row, to) ==
    [f \in DOMAIN row |->
        IF f = "type" THEN to
        ELSE IF f = "source" /\ to \notin Liability THEN 0
        ELSE IF f \in {"close", "pay", "same", "card"} /\ to # "credit_card" THEN NoAcct[f]
        ELSE IF f = "loan" /\ to # "loan" THEN FALSE
        ELSE row[f]]

\* Mutant: an account may pay for itself.
SourceAnyAsset(src, self) ==
    src # 0 => IsAcct(src) /\ acct[src].type \notin Liability /\ acct[src].active

\* validate_payment_source_account; who is edited is 0 on create.
SourceValid(src, self) ==
    src # 0 => /\ src # self
               /\ IsAcct(src)
               /\ acct[src].type \notin Liability
               /\ acct[src].active

-----------------------------------------------------------------------------
(* Requests. *)

NoAcctReq == [op |-> "idle", a |-> 0, b |-> 0, body |-> <<>>, admin |-> FALSE,
              row |-> NoAcct, from |-> {}]

AcctsQuiet == \A r \in AcctReqs : areq[r].op = "idle"

BeginAcct(r, op, a, b, body, admin) ==
    /\ areq[r].op = "idle"
    /\ acctReqs < MaxAcctReqs
    /\ single => AcctsQuiet
    /\ IsAcct(a)
    /\ acctReqs' = acctReqs + 1
    /\ areq' = [areq EXCEPT ![r] = [op |-> op, a |-> a, b |-> b, body |-> body,
          admin |-> admin, row |-> acct[a], from |-> {s[1] : s \in series}]]
    /\ UNCHANGED <<acct, posted, settled, cycles, series, single>>

TypeColumns == {"type", "close", "pay", "same", "card", "loan"}
TouchesType(body) == TypeColumns \cap DOMAIN body # {}

\* update_account reads the row; with type columns in the body,
\* _update_account_atomic reads its type.
UpdateAccount(r, a, body, admin) == BeginAcct(r, "update", a, 0, body, admin)

\* The row the rules are applied to: current where it is locked, as read where not.
Basis(q) ==
    IF TouchesType(q.body) \/ "opening" \in DOMAIN q.body THEN acct[q.a] ELSE q.row

\* A body without a type keeps the type that was read before the lock.
Target(q) == IF "type" \in DOMAIN q.body THEN q.body.type ELSE q.row.type

\* Sources of recurring transfers as this request sees them.
SourcesSeen(q) == IF "type" \in DOMAIN q.body THEN {s[1] : s \in series} ELSE q.from

TypeChangeAllowed(q) ==
    LET row == acct[q.a]
        to  == Target(q)
        new == Given(Cleared(row, to), q.body, {"close", "pay", "same"})
    IN  /\ row.type # to /\ to \in Liability => q.a \notin SourcesSeen(q)
        /\ CascadeValid(row.type, to, q.body)
        /\ to = "credit_card" => PaysAfterClose(new)
        /\ to # "credit_card" /\ q.a \in cycles => q.admin

\* _apply_non_type_fields on a row whose type is settled.
NonTypeAllowed(q, row) ==
    LET new == Given(row, q.body, {"card", "loan", "opening"})
        balance == row.balance + new.opening - row.opening
    IN  /\ "source" \in DOMAIN q.body => SourceValid(q.body.source, q.a)
        /\ CardFieldsValid(new)
        /\ LoanFieldsValid(new)
        /\ new.opening # row.opening => q.admin \/ q.a \notin settled
        /\ "active" \in DOMAIN q.body /\ ~ q.body.active => balance = 0

\* Mutant: the balance is not moved with the opening balance.
OpeningAlone(q, row) == row.balance

\* The balance moves by what the opening balance moves.
BalanceAfter(q, row) ==
    row.balance + (IF "opening" \in DOMAIN q.body THEN q.body.opening - row.opening ELSE 0)

\* The row written: of a row that is not locked only the columns of the body
\* that differ from what was read.
RowWritten(q) ==
    LET base == Basis(q)
        row  == IF TouchesType(q.body) THEN Cleared(base, Target(q)) ELSE base
        new  == Given(row, q.body, DOMAIN q.body \ {"type"})
    IN  [f \in DOMAIN NoAcct |->
            IF f = "balance" THEN BalanceAfter(q, acct[q.a])
            ELSE IF new[f] # base[f] THEN new[f] ELSE acct[q.a][f]]

\* Mutant: the other accounts keep their flag.
DefaultAdded(q, b) == acct[b]

\* Making an account the default clears the flag of the others.
OthersWritten(q, b) ==
    IF "dflt" \in DOMAIN q.body /\ q.body.dflt /\ IsAcct(b)
    THEN [acct[b] EXCEPT !.dflt = FALSE] ELSE acct[b]

UpdateOk(q) ==
    LET base == Basis(q)
        row  == IF TouchesType(q.body) THEN Cleared(base, Target(q)) ELSE base
    IN  /\ IsAcct(q.a)
        /\ TouchesType(q.body) => TypeChangeAllowed(q)
        /\ NonTypeAllowed(q, row)

\* Leaving the card type deletes the cycle payments.
CyclesAfter(q) ==
    IF TouchesType(q.body) /\ Target(q) # "credit_card" THEN cycles \ {q.a} ELSE cycles

CommitUpdate(r) ==
    LET q == areq[r]
    IN  /\ q.op = "update"
        /\ UpdateOk(q)
        /\ acct' = [b \in Accts |-> IF b = q.a THEN RowWritten(q) ELSE OthersWritten(q, b)]
        /\ cycles' = CyclesAfter(q)
        /\ areq' = [areq EXCEPT ![r] = NoAcctReq]
        /\ UNCHANGED <<posted, settled, series, single, acctReqs>>

\* create_account: a new row, valid as a whole; the balance is the opening one.
\* Identities are not used again while a request holds one.
CreateAccount(a, row) ==
    /\ ~ IsAcct(a)
    /\ \A r \in AcctReqs : a \notin {areq[r].a, areq[r].b}
    /\ CreateValid(row)
    /\ SourceValid(row.source, 0)
    /\ acct' = [acct EXCEPT ![a] = [row EXCEPT !.balance = row.opening]]
    /\ UNCHANGED <<posted, settled, cycles, series, areq, single, acctReqs>>

\* delete_account: refused while the row as read has a balance or dependents;
\* foreign keys hold at the commit.
DeleteAccount(r, a) ==
    /\ acct[a].balance = 0
    /\ a \notin settled
    /\ \A s \in series : a \notin {s[1], s[2]}
    /\ BeginAcct(r, "delete", a, 0, <<>>, FALSE)

CommitDelete(r) ==
    LET q == areq[r]
    IN  /\ q.op = "delete"
        /\ IsAcct(q.a)
        /\ q.a \notin settled
        /\ \A s \in series : q.a \notin {s[1], s[2]}
        /\ acct' = [b \in Accts |->
              IF b = q.a THEN NoAcct
              ELSE IF acct[b].source = q.a THEN [acct[b] EXCEPT !.source = 0] ELSE acct[b]]
        /\ posted' = [posted EXCEPT ![q.a] = 0]
        /\ cycles' = cycles \ {q.a}
        /\ areq' = [areq EXCEPT ![r] = NoAcctReq]
        /\ UNCHANGED <<settled, series, single, acctReqs>>

\* adjust_account_balance, under the row's lock: an entry of the difference.
AdjustBalance(a, target) ==
    /\ IsAcct(a)
    /\ acctReqs < MaxAcctReqs
    /\ single => AcctsQuiet
    /\ target # acct[a].balance
    /\ posted' = [posted EXCEPT ![a] = @ + target - acct[a].balance]
    /\ settled' = settled \cup {a}
    /\ acct' = [acct EXCEPT ![a].balance = target]
    /\ acctReqs' = acctReqs + 1
    /\ UNCHANGED <<cycles, series, areq, single>>

\* upsert_cycle_payment: the account is a card as it was read.
PutCyclePayment(r, a) ==
    /\ acct[a].type = "credit_card"
    /\ acct[a].close # 0
    /\ BeginAcct(r, "cycle", a, 0, <<>>, TRUE)

DeleteCyclePayment(r, a) ==
    /\ a \in cycles
    /\ BeginAcct(r, "uncycle", a, 0, <<>>, TRUE)

CommitCycle(r) ==
    LET q == areq[r]
    IN  /\ q.op \in {"cycle", "uncycle"}
        /\ IsAcct(q.a)
        /\ cycles' = IF q.op = "cycle" THEN cycles \cup {q.a} ELSE cycles \ {q.a}
        /\ areq' = [areq EXCEPT ![r] = NoAcctReq]
        /\ UNCHANGED <<acct, posted, settled, series, single, acctReqs>>

\* Mutant: a transfer may come from a card or a loan.
AnySource(a, b) == IsAcct(a) /\ IsAcct(b) /\ a # b /\ acct[a].active /\ acct[b].active

\* _validate_transfer_accounts, in one currency.
TransferAccountsValid(a, b) ==
    /\ IsAcct(a) /\ IsAcct(b) /\ a # b
    /\ acct[a].active /\ acct[b].active
    /\ acct[a].type \notin Liability

CreateSeries(r, a, b) ==
    /\ TransferAccountsValid(a, b)
    /\ BeginAcct(r, "series", a, b, <<>>, FALSE)

CommitSeries(r) ==
    LET q == areq[r]
    IN  /\ q.op = "series"
        /\ IsAcct(q.a) /\ IsAcct(q.b)
        /\ series' = series \cup {<<q.a, q.b>>}
        /\ areq' = [areq EXCEPT ![r] = NoAcctReq]
        /\ UNCHANGED <<acct, posted, settled, cycles, single, acctReqs>>

DeleteSeries(s) ==
    /\ s \in series
    /\ single => AcctsQuiet
    /\ series' = series \ {s}
    /\ UNCHANGED <<acct, posted, settled, cycles, areq, single, acctReqs>>

\* A request that is refused, or fails at the commit, writes nothing.
RefuseAcct(r) ==
    /\ areq[r].op # "idle"
    /\ areq' = [areq EXCEPT ![r] = NoAcctReq]
    /\ UNCHANGED <<acct, posted, settled, cycles, series, single, acctReqs>>

-----------------------------------------------------------------------------
AccountsInit ==
    /\ acct = [a \in Accts |-> NoAcct]
    /\ posted = [a \in Accts |-> 0]
    /\ settled = {}
    /\ cycles = {}
    /\ series = {}
    /\ areq = [r \in AcctReqs |-> NoAcctReq]
    /\ single \in BOOLEAN
    /\ acctReqs = 0

AccountsNext ==
    \/ \E a \in Accts, row \in NewRows : CreateAccount(a, row)
    \/ \E r \in AcctReqs, a \in Accts :
          \/ \E body \in Bodies, admin \in BOOLEAN : UpdateAccount(r, a, body, admin)
          \/ DeleteAccount(r, a)
          \/ PutCyclePayment(r, a)
          \/ DeleteCyclePayment(r, a)
          \/ \E b \in Accts : CreateSeries(r, a, b)
    \/ \E r \in AcctReqs :
          CommitUpdate(r) \/ CommitDelete(r) \/ CommitCycle(r) \/ CommitSeries(r) \/ RefuseAcct(r)
    \/ \E a \in Accts, target \in {0, 1} : AdjustBalance(a, target)
    \/ \E s \in series : DeleteSeries(s)

-----------------------------------------------------------------------------
(* Properties. *)

\* What refers to an account refers to one that exists, and no account pays
\* for itself.
AccountsTypeOK ==
    /\ \A a \in Accts : IsAcct(a) => acct[a] \in AccountRow
    /\ \A a \in Accts : acct[a].source # 0 => acct[a].source # a /\ IsAcct(acct[a].source)
    /\ \A a \in cycles \cup settled : IsAcct(a)
    /\ \A s \in series : IsAcct(s[1]) /\ IsAcct(s[2])

\* A card has a close day, and no card pays a statement before it closes; the
\* columns of a card or a loan are on no other account.  So under type changes
\* and edits that overlap, one of which keeps a type it read before the other.
ColumnsFollowType ==
    \A a \in Accts : IsAcct(a) => CreateValid(acct[a])

\* The balance is the opening balance and what was posted, whichever requests
\* change the opening balance, adjust the balance or change the type at once.
OpeningCounted ==
    \A a \in Accts : acct[a].balance = acct[a].opening + posted[a]

\* At most one account is the default, also when two become it at once.
OneDefault == \A a, b \in Accts : acct[a].dflt /\ acct[b].dflt => a = b

\* While requests do not overlap, cycle payments are on cards and no recurring
\* transfer comes from a card or a loan, through every change of type.
DependentsFollowType ==
    single => /\ \A a \in cycles : acct[a].type = "credit_card"
              /\ \A s \in series : acct[s[1]].type \notin Liability
=============================================================================
