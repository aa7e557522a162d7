------------------------------- MODULE Plans -------------------------------
(***************************************************************************)
(* Forecast plans (one per billing period: a draft that is filled by hand, *)
(* from the recorded sources or from another period, then activated) and   *)
(* the rebalancing of a period's budgets.                                  *)
(*                                                                         *)
(* An edit is one transaction under REPEATABLE READ.  It reads the plan    *)
(* and its items from a snapshot and writes rows by their id when it       *)
(* commits: an insert of an item that is there by now breaks the unique    *)
(* key and a change of a row that is gone breaks the row count, and both   *)
(* roll the edit back; a delete of a row that is gone does nothing, and a  *)
(* row that was changed meanwhile is deleted all the same.  The income     *)
(* side repeats the expense side and is left out; planned amounts are      *)
(* reduced to where they come from.                                        *)
(***************************************************************************)
EXTENDS Integers, FiniteSetsExt

CONSTANTS
    PlanPeriods,   \* billing periods
    Cats,          \* categories: positive numbers, the order of their ids
    ParentOf,      \* category -> its master; a master is its own
    Budgeted,      \* master categories that have a budget: numbers, by id
    PlanEdits,     \* requests that edit plans
    Amounts,       \* budget amounts and projected spending, in cents
    MaxBudget      \* bound: the largest budget amount

\* Categories are two levels deep; amounts are whole cents, never negative.
PlansAssumption ==
    /\ Cats \subseteq Nat \ {0}
    /\ \A c \in Cats : ParentOf[c] \in Cats /\ ParentOf[ParentOf[c]] = ParentOf[c]
    /\ Budgeted \subseteq Nat \ {0} /\ IsFiniteSet(Budgeted)
    /\ Amounts \subseteq Nat

VARIABLES
    plan,         \* period -> status of its plan, "none" without a row
    item,         \* period -> category -> source of its item, "none" without
    granularity,  \* forecast_input_granularity: "master" or "subcategory"
    planEdit,     \* per request: the edit in progress
    amount,       \* category -> amount of its budget in the period
    proposal      \* the rebalance on the user's screen

plansVars == <<plan, item, granularity, planEdit, amount, proposal>>

-----------------------------------------------------------------------------
(* Items of a plan, as functions from categories to sources. *)

NoItems == [c \in Cats |-> "none"]
Masters == {c \in Cats : ParentOf[c] = c}
ItemsOf(it) == {c \in Cats : it[c] # "none"}

\* sub_pairs: the masters of which a subcategory has an item.
SubPairs(it) == {ParentOf[c] : c \in ItemsOf(it) \ Masters}

\* Families that have an item for the master and one for a subcategory.
Mixed(it) == ItemsOf(it) \cap Masters \cap SubPairs(it)

\* would_conflict: an item that would count a family a second time.
WouldConflict(it, c, mode, pre) ==
    IF mode = "subcategory"
    THEN c \notin Masters /\ it[ParentOf[c]] # "none" /\ ParentOf[c] \notin pre
    ELSE c \in SubPairs(it)

\* The categories that templates, rows of the period or the rows of the three
\* months before it put a positive amount on: any.
Sources == SUBSET Cats

\* group_key: amounts are summed up to the master unless subcategories are planned.
GroupKeys(S) == IF granularity = "subcategory" THEN S ELSE {ParentOf[c] : c \in S}

\* plan_populate: the items to add, one per group that has an amount and no item.
Populate(it, keys, mode, pre) ==
    {c \in keys : it[c] = "none" /\ ~ WouldConflict(it, c, mode, pre)}

\* Mutant: only the item itself is looked for in the target.
CopyableAnyFamily(src, tgt, c) == tgt[c] = "none"

\* The rule by which plan_copy takes or leaves an item.
Copyable(src, tgt, c) ==
    /\ tgt[c] = "none"
    /\ IF c \in Masters THEN c \notin SubPairs(tgt)
       ELSE tgt[ParentOf[c]] # "none" => ParentOf[c] \in SubPairs(tgt)

-----------------------------------------------------------------------------
(* Edits. *)

NoEdit == [kind |-> "idle", period |-> "none", seen |-> NoItems, gone |-> {},
           inserts |-> {}, changes |-> {}, drops |-> {}, keys |-> {},
           mode |-> "none", paired |-> {}, row |-> "none", status |-> "none"]

\* An edit q of period k has read its items (seen) and the status of its plan
\* (row).  It will insert, change and drop the rows of these categories; gone are
\* those it has read that others removed since.
BeginEdit(p, k, q) ==
    /\ planEdit[p].kind = "idle"
    /\ planEdit' = [planEdit EXCEPT ![p] =
          [q EXCEPT !.period = k, !.seen = item[k], !.row = plan[k]]]
    /\ UNCHANGED <<plan, item, granularity, amount, proposal>>

\* An edit by hand.
ByHand(inserts, changes, drops, status) ==
    [NoEdit EXCEPT !.kind = "hand", !.inserts = inserts, !.changes = changes,
                   !.drops = drops, !.status = status]

\* Editing by period creates the draft; editing by id needs it.
DraftOrNone(k) == plan[k] # "active"
Draft(k) == plan[k] = "draft"

GetOrCreatePlan(p, k) ==
    plan[k] = "none" /\ BeginEdit(p, k, ByHand({}, {}, {}, "draft"))

PopulateFromSources(p, k, S) ==
    /\ DraftOrNone(k)
    /\ BeginEdit(p, k, [NoEdit EXCEPT
          !.kind = "populate", !.mode = granularity, !.status = "draft",
          !.inserts = Populate(item[k], GroupKeys(S), granularity, SubPairs(item[k]))])

\* refresh_from_sources: generated items are dropped, whatever they are by then;
\* what is made again is decided on what the snapshot still shows.
RefreshFromSources(p, k, S) ==
    /\ DraftOrNone(k)
    /\ BeginEdit(p, k, [NoEdit EXCEPT
          !.kind = "refresh", !.mode = granularity, !.status = "draft",
          !.keys = GroupKeys(S), !.drops = {c \in Cats : item[k][c] = "auto"}])

\* paired: the families of the copied plan that have both kinds of items.
CopyFromPeriod(p, k, from) ==
    /\ DraftOrNone(k)
    /\ plan[from] # "none"
    /\ ItemsOf(item[from]) # {}
    /\ BeginEdit(p, k, [NoEdit EXCEPT
          !.kind = "copy", !.status = "draft", !.paired = Mixed(item[from]),
          !.inserts = {c \in ItemsOf(item[from]) : Copyable(item[from], item[k], c)}])

\* upsert_item, and bulk_upsert for several categories; those whose amount stays
\* as it is are not among them.
UpsertItems(p, k, C) ==
    /\ Draft(k)
    /\ granularity = "master" => C \subseteq Masters
    /\ BeginEdit(p, k, ByHand(C \ ItemsOf(item[k]), C \cap ItemsOf(item[k]), {}, "draft"))

UpdateItem(p, k, c) ==
    /\ Draft(k)
    /\ item[k][c] # "none"
    /\ BeginEdit(p, k, ByHand({}, {c}, {}, "draft"))

DeleteItem(p, k, c) ==
    /\ Draft(k)
    /\ item[k][c] # "none"
    /\ BeginEdit(p, k, ByHand({}, {}, {c}, "draft"))

DiscardPlan(p, k) ==
    Draft(k) /\ BeginEdit(p, k, ByHand({}, {}, ItemsOf(item[k]), "draft"))

ActivatePlan(p, k) ==
    /\ Draft(k)
    /\ ItemsOf(item[k]) # {}
    /\ BeginEdit(p, k, ByHand({}, {}, {}, "active"))

RevertToDraft(p, k) ==
    plan[k] = "active" /\ BeginEdit(p, k, ByHand({}, {}, {}, "draft"))

\* Mutant: rows are deleted by their category.
DroppedByCategory(q) == q.drops

\* The rows an edit really deletes.
Dropped(q) == q.drops \ q.gone

\* What the edit's snapshot shows after its deletes: a row that another request
\* removed is still in it, a row of its own is not.
Kept(q) == [c \in Cats |-> IF c \in Dropped(q) THEN "none" ELSE q.seen[c]]

\* Mutant: the subcategories are looked at after the generated items are gone.
PairsAfterDelete(q) == SubPairs(Kept(q))

\* pre_existing_sub_pairs: those that were there before the delete.
PairsBefore(q) == SubPairs(q.seen)

Inserts(q) ==
    IF q.kind = "refresh" THEN Populate(Kept(q), q.keys, q.mode, PairsBefore(q))
    ELSE q.inserts

InsertedAs(q) == IF q.kind \in {"populate", "refresh"} THEN "auto" ELSE "manual"

\* No insert meets an item, no change misses its row, and the plan an edit
\* creates is not there yet.
Commits(q) ==
    /\ \A c \in Inserts(q) : item[q.period][c] = "none" \/ c \in Dropped(q)
    /\ q.changes \cap q.gone = {}
    /\ q.row = "none" => plan[q.period] = "none"

\* The items of its period after an edit.
Written(q) ==
    [c \in Cats |-> IF c \in Inserts(q) THEN InsertedAs(q)
                    ELSE IF c \in q.changes THEN "manual"
                    ELSE IF c \in Dropped(q) THEN "none" ELSE item[q.period][c]]

\* Edit e after q has committed: the rows q deleted are gone for it.
Overtaken(e, q) ==
    IF e.period = q.period
    THEN [e EXCEPT !.gone = @ \cup (Dropped(q) \cap ItemsOf(e.seen))] ELSE e

\* The commit, or the rollback.  A status the edit does not change is not written.
CommitEdit(p) ==
    LET q == planEdit[p]
    IN  /\ q.kind # "idle"
        /\ IF Commits(q)
           THEN /\ item' = [item EXCEPT ![q.period] = Written(q)]
                /\ plan' = IF q.status = q.row THEN plan
                           ELSE [plan EXCEPT ![q.period] = q.status]
                /\ planEdit' = [o \in PlanEdits |->
                      IF o = p THEN NoEdit ELSE Overtaken(planEdit[o], q)]
           ELSE /\ planEdit' = [planEdit EXCEPT ![p] = NoEdit]
                /\ UNCHANGED <<item, plan>>
        /\ UNCHANGED <<granularity, amount, proposal>>

SetGranularity ==
    /\ granularity' = IF granularity = "master" THEN "subcategory" ELSE "master"
    /\ UNCHANGED <<plan, item, planEdit, amount, proposal>>

-----------------------------------------------------------------------------
(* Rebalancing the budgets of a period. *)

Total(f) == MapThenSumSet(LAMBDA c : f[c], DOMAIN f)
Positive(n) == IF n > 0 THEN n ELSE 0

Headroom(a, proj) == [c \in Budgeted |-> Positive(a[c] - proj[c])]
Deficit(a, proj)  == [c \in Budgeted |-> Positive(proj[c] - a[c])]

Movable(a, proj) ==
    LET h == Total(Headroom(a, proj))
        d == Total(Deficit(a, proj))
    IN  IF h < d THEN h ELSE d

\* Mutant: every donor's share is rounded up.
GivenRoundedUp(a, proj) ==
    LET h == Headroom(a, proj)
    IN  [c \in Budgeted |-> IF Total(h) = 0 THEN 0
                           ELSE (Movable(a, proj) * h[c] + Total(h) - 1) \div Total(h)]

\* What each donor gives: its share of the movable amount in whole cents, the
\* cents left over to the largest remainders, then to the lower id.
Given(a, proj) ==
    LET h        == Headroom(a, proj)
        th       == Total(h)
        m        == Movable(a, proj)
        floor    == [c \in Budgeted |-> IF th = 0 THEN 0 ELSE (m * h[c]) \div th]
        rem      == [c \in Budgeted |-> IF th = 0 THEN 0 ELSE (m * h[c]) % th]
        donors   == {c \in Budgeted : h[c] > 0}
        before(b, c) == rem[b] > rem[c] \/ (rem[b] = rem[c] /\ b < c)
        leftover == m - Total(floor)
    IN  [c \in Budgeted |->
            IF c \in donors /\ Cardinality({b \in donors : before(b, c)}) < leftover
            THEN floor[c] + 1 ELSE floor[c]]

\* What each category in deficit receives, when they are served in the order of
\* their rank until the movable amount is used up.
Received(a, proj, rank) ==
    LET d == Deficit(a, proj)
        m == Movable(a, proj)
        ahead(c) == MapThenSumSet(LAMBDA b : d[b], {b \in Budgeted : rank[b] < rank[c]})
        left(c)  == Positive(m - ahead(c))
    IN  [c \in Budgeted |-> IF left(c) < d[c] THEN left(c) ELSE d[c]]

\* _allocate_rebalance: the new amounts.
AllocateRebalance(a, proj, rank) ==
    [c \in Budgeted |-> a[c] - Given(a, proj)[c] + Received(a, proj, rank)[c]]

\* The orders the model's advice may put the categories into.
Ranks == {r \in [Budgeted -> 1 .. Cardinality(Budgeted)] :
             \A b, c \in Budgeted : r[b] = r[c] => b = c}

NoProposal == [expected |-> <<>>, proj |-> <<>>, new |-> <<>>]

\* suggest_rebalance: the amounts it was computed from stay on the screen as
\* expected_amount.
SuggestRebalance(proj, rank) ==
    /\ proposal = NoProposal
    /\ proposal' = [expected |-> amount, proj |-> proj,
                    new |-> AllocateRebalance(amount, proj, rank)]
    /\ UNCHANGED <<plan, item, granularity, planEdit, amount>>

\* Only the budgets that move are sent.
Sent == {c \in Budgeted : proposal.new[c] # proposal.expected[c]}

\* Mutant: the amounts are not compared with those the user saw.
UnseenAmounts(expected) == TRUE

\* The locked rows still have the amounts the user saw.
AmountsAsSeen(expected) == \A c \in Sent : amount[c] = expected[c]

\* rebalance_budgets: the rows are locked, compared and, if the changes net to
\* zero, written; a conflict reloads the screen.
RebalanceBudgets ==
    /\ proposal # NoProposal
    /\ amount' = IF /\ AmountsAsSeen(proposal.expected)
                    /\ Total(proposal.new) = Total(proposal.expected)
                 THEN [c \in Budgeted |-> IF c \in Sent THEN proposal.new[c] ELSE amount[c]]
                 ELSE amount
    /\ proposal' = NoProposal
    /\ UNCHANGED <<plan, item, granularity, planEdit>>

UpdateBudget(c, n) ==
    /\ n <= MaxBudget
    /\ amount' = [amount EXCEPT ![c] = n]
    /\ UNCHANGED <<plan, item, granularity, planEdit, proposal>>

-----------------------------------------------------------------------------
PlansInit ==
    /\ plan = [k \in PlanPeriods |-> "none"]
    /\ item = [k \in PlanPeriods |-> NoItems]
    /\ granularity = "master"
    /\ planEdit = [p \in PlanEdits |-> NoEdit]
    /\ amount = [c \in Budgeted |-> 0]
    /\ proposal = NoProposal

PlanNext ==
    \/ \E p \in PlanEdits, k \in PlanPeriods :
          \/ GetOrCreatePlan(p, k)
          \/ \E S \in Sources : PopulateFromSources(p, k, S)
          \/ \E S \in Sources : RefreshFromSources(p, k, S)
          \/ \E from \in PlanPeriods : CopyFromPeriod(p, k, from)
          \/ \E C \in SUBSET Cats \ {{}} : UpsertItems(p, k, C)
          \/ \E c \in Cats : UpdateItem(p, k, c)
          \/ \E c \in Cats : DeleteItem(p, k, c)
          \/ DiscardPlan(p, k)
          \/ ActivatePlan(p, k)
          \/ RevertToDraft(p, k)
    \/ \E p \in PlanEdits : CommitEdit(p)
    \/ SetGranularity

BudgetNext ==
    \/ \E proj \in [Budgeted -> Amounts], rank \in Ranks : SuggestRebalance(proj, rank)
    \/ RebalanceBudgets
    \/ \E c \in Budgeted, n \in Amounts : UpdateBudget(c, n)

-----------------------------------------------------------------------------
(* Properties. *)

\* Statuses and sources are those of the enums, items belong to a plan that
\* exists, and no budget goes below zero.
PlansTypeOK ==
    /\ plan \in [PlanPeriods -> {"none", "draft", "active"}]
    /\ item \in [PlanPeriods -> [Cats -> {"none", "manual", "auto"}]]
    /\ \A k \in PlanPeriods : plan[k] = "none" => item[k] = NoItems
    /\ granularity \in {"master", "subcategory"}
    /\ \A c \in Budgeted : amount[c] \in Nat

\* A suggestion moves money and makes none: the total stays, no donor gives
\* more than its headroom and nobody receives more than its deficit, and no cent
\* that could move is left, whatever the rounding of the shares and the advice on
\* their order: afterwards nobody is short or nobody has anything to give.
SuggestionSound ==
    proposal # NoProposal =>
        LET old  == proposal.expected
            proj == proposal.proj
            new  == proposal.new
        IN  /\ Total(new) = Total(old)
            /\ \A c \in Budgeted :
                  IF old[c] >= proj[c] THEN new[c] >= proj[c] /\ new[c] <= old[c]
                  ELSE new[c] >= old[c] /\ new[c] <= proj[c]
            /\ \/ \A c \in Budgeted : new[c] >= proj[c]
               \/ \A c \in Budgeted : new[c] <= proj[c]

\* Request p's edit ends in this step.
Ends(p) == planEdit[p] # NoEdit /\ planEdit'[p] = NoEdit

\* User-touched stays.  An item by hand goes, or becomes a generated one, only by
\* the commit of an edit that read this very row: a delete by hand, or a refresh
\* that read it when it was still a generated one (which the docstring denies).
\* Nothing overwrites an item that was inserted by hand after its read.
ManualKept ==
    \A k \in PlanPeriods, c \in Cats :
        item[k][c] = "manual" /\ item'[k][c] # "manual" =>
            \E p \in PlanEdits :
                LET q == planEdit[p]
                IN  /\ Ends(p) /\ q.period = k
                    /\ q.seen[c] # "none" /\ c \notin q.gone
                    /\ q.kind = "hand" \/ (q.kind = "refresh" /\ q.seen[c] = "auto")

\* A refresh takes away no item whose group has an amount in the sources, unless
\* it is the item of a master and one of a subcategory stays, which would count
\* twice: also below a master's item by hand, and whatever was edited meanwhile.
RefreshReturns ==
    \A p \in PlanEdits, c \in Cats :
        LET q == planEdit[p]
        IN  /\ Ends(p) /\ q.kind = "refresh"
            /\ item[q.period][c] # "none" /\ item'[q.period][c] = "none"
            => c \notin q.keys \/ c \in SubPairs(Kept(q))

\* A family has an item on its master and one on a subcategory after populate, a
\* refresh or a copy only if what the request read had both (the plan it copies,
\* too), if it has made the master's own item next to the subcategories', or if
\* items of the family came or went since it read them.
FillsCountOnce ==
    \A p \in PlanEdits, m \in Masters :
        LET q == planEdit[p]
            k == q.period
        IN  /\ Ends(p) /\ q.kind \in {"populate", "refresh", "copy"}
            /\ m \in Mixed(item'[k])
            /\ \A c \in Cats : ParentOf[c] = m => (item[k][c] = "none" <=> q.seen[c] = "none")
            => \/ m \in Mixed(q.seen) \cup q.paired
               \/ /\ q.mode = "subcategory" /\ item'[k][m] = "auto"
                  /\ item[k][m] = "none" \/ m \in Dropped(q)

\* Applying a rebalance never changes the total of the budgets as they are when
\* it is applied, although they may have been edited since it was computed.
RebalanceKeepsTotal == RebalanceBudgets => Total(amount') = Total(amount)
=============================================================================
