--------------------------- MODULE MCOrganisation ---------------------------
(* What the members of an organisation keep: categories, accounts, recurring  *)
(* series, what is shared with other organisations, and the reset of it all,  *)
(* on small instances.  The code joins these parts by foreign keys that no    *)
(* property below relates, so a behaviour exercises one part, its focus; the  *)
(* variables of the others are Off.                                           *)
EXTENDS Integers, FiniteSets, TLC

CONSTANTS
    Requests,   \* of every part
    Ids, SystemRow, Deps, MaxCatEdits, MaxOverlaps,
    Orgs, TagNames, Eligible, Merchants, MinContributors, Absent,
    Accts, Bodies, NewRows, MaxAcctReqs,
    Steps, Counts, Cycle, MaxDay, MaxCatchup, MaxAsked, Overlapping, Starts,
    Ttl, MaxWritten

VARIABLES
    focus,    \* the part that is exercised
    count,    \* bound: of what MCSeries and WriteOnce limit
    cat, dep, catEdit, alone, restored, spent, catEdits,
    share, tags, entry, contrib, votes, voteCount, ruled, aged, sreq,
    acct, posted, settled, cycles, series, areq, single, acctReqs,
    tpl, rows, today, call, delivered, resumedAt,
    tables, seeds, lock, reset, gone

T == INSTANCE Taxonomy WITH CatEdits <- Requests
D == INSTANCE SharedData WITH Names <- TagNames, ShareReqs <- Requests
A == INSTANCE Accounts WITH AcctReqs <- Requests
S == INSTANCE MCSeries WITH Calls <- Requests, asked <- count
R == INSTANCE Reset WITH Owners <- Requests, rows <- tables

\* What the parts ask of their constants.
ASSUME OrganisationAssumption ==
    /\ T!TaxonomyAssumption /\ A!AccountsAssumption /\ D!SharedAssumption
    /\ S!SeriesAssumption /\ R!ResetAssumption

Off == "off"
taxonomyVars == <<cat, dep, catEdit, alone, restored, spent, catEdits>>
sharedVars == <<share, tags, entry, contrib, votes, voteCount, ruled, aged, sreq>>
accountVars == <<acct, posted, settled, cycles, series, areq, single, acctReqs>>
seriesVars == <<tpl, rows, today, call, delivered, resumedAt>>
resetVars == <<tables, seeds, lock, reset, gone>>
organisationVars ==
    <<focus, count, taxonomyVars, sharedVars, accountVars, seriesVars, resetVars>>

-----------------------------------------------------------------------------
(* The instances. *)

\* Three masters, two of them with a subcategory.
Recommended ==
    (1 :> [type |-> "income", parent |-> 0]) @@ (2 :> [type |-> "income", parent |-> 1])
 @@ (3 :> [type |-> "expense", parent |-> 0]) @@ (4 :> [type |-> "expense", parent |-> 3])
 @@ (5 :> [type |-> "expense", parent |-> 0])

\* An active row with the columns of f, the others empty.
RowWith(f) ==
    f @@ [type |-> "none", active |-> TRUE, dflt |-> FALSE, opening |-> 0, balance |-> 0,
          source |-> 0, close |-> 0, pay |-> 0, same |-> FALSE, card |-> FALSE, loan |-> FALSE]

\* A bank account with money, and a card that its own account pays.
SomeRows == {RowWith([type |-> "checking", opening |-> 1]),
             RowWith([type |-> "credit_card", close |-> 1, pay |-> 2, same |-> TRUE])}

\* Changes of type, of the columns a type requires or forbids, of the opening
\* balance, of the default and of the payment source.
SomeBodies ==
    {[type |-> "checking"], [type |-> "credit_card", close |-> 2],
     [type |-> "loan", loan |-> TRUE], [close |-> 2, card |-> TRUE],
     [pay |-> 2, same |-> TRUE], [loan |-> TRUE, opening |-> 0], [opening |-> 0],
     [opening |-> 1, active |-> FALSE], [dflt |-> TRUE],
     [source |-> 1, active |-> FALSE], [source |-> 2]}

-----------------------------------------------------------------------------
(* One part at a time. *)

NoTaxonomy == /\ cat = Off /\ dep = Off /\ catEdit = Off /\ alone = Off
              /\ restored = Off /\ spent = Off /\ catEdits = Off
NoSharing == /\ share = Off /\ tags = Off /\ entry = Off /\ contrib = Off
             /\ votes = Off /\ voteCount = Off /\ ruled = Off /\ aged = Off /\ sreq = Off
NoAccounts == /\ acct = Off /\ posted = Off /\ settled = Off /\ cycles = Off
              /\ series = Off /\ areq = Off /\ single = Off /\ acctReqs = Off
NoSeries == /\ tpl = Off /\ rows = Off /\ today = Off /\ call = Off
            /\ delivered = Off /\ resumedAt = Off
NoReset == /\ tables = Off /\ seeds = Off /\ lock = Off /\ reset = Off /\ gone = Off

Init ==
    /\ focus \in {"categories", "tags", "votes", "accounts", "series", "reset"}
    /\ IF focus = "categories" THEN T!TaxonomyInit ELSE NoTaxonomy
    /\ IF focus \in {"tags", "votes"} THEN D!SharedInit ELSE NoSharing
    /\ IF focus = "accounts" THEN A!AccountsInit ELSE NoAccounts
    /\ IF focus = "series" THEN S!Init ELSE NoSeries /\ count = 0
    /\ IF focus = "reset" THEN R!ResetInit ELSE NoReset

CategoryStep ==
    /\ focus = "categories" /\ T!TaxonomyNext
    /\ UNCHANGED <<focus, count, sharedVars, accountVars, seriesVars, resetVars>>

OthersThanSharing ==
    UNCHANGED <<focus, count, taxonomyVars, accountVars, seriesVars, resetVars>>
TagStep == focus = "tags" /\ D!TagNext /\ OthersThanSharing
VoteStep == focus = "votes" /\ D!VoteNext /\ OthersThanSharing

AccountStep ==
    /\ focus = "accounts" /\ A!AccountsNext
    /\ UNCHANGED <<focus, count, taxonomyVars, sharedVars, seriesVars, resetVars>>

SeriesStep ==
    /\ focus = "series" /\ S!Next
    /\ UNCHANGED <<focus, taxonomyVars, sharedVars, accountVars, resetVars>>

\* Bound: rows written while a reset runs.
WriteOnce == count' = count + (IF \E t \in R!Tables : R!Write(t) THEN 1 ELSE 0)
ResetStep ==
    /\ focus = "reset" /\ R!ResetNext /\ WriteOnce /\ count' <= MaxWritten
    /\ UNCHANGED <<focus, taxonomyVars, sharedVars, accountVars, seriesVars>>

Next == \/ CategoryStep \/ TagStep \/ VoteStep \/ AccountStep \/ SeriesStep
        \/ ResetStep
Spec == Init /\ [][Next]_organisationVars

\* Requests are interchangeable, and so are organisations.
Symmetry == Permutations(Requests) \cup Permutations(Orgs)

\* Bounds of shared data: one name at a time in an organisation, and only names
\* that are eligible in a request.
Followed ==
    focus \in {"tags", "votes"} =>
        /\ \A r \in Requests : sreq[r].names \cap (TagNames \ Eligible) = {}
        /\ \A o \in Orgs : Cardinality(tags[o]) < 2
        /\ \A n \in TagNames : entry[n] = Absent \/ entry[n] \in -1 .. 2

-----------------------------------------------------------------------------
(* What holds.  Each of these names the invariants of one module, which       *)
(* explains them.                                                             *)

\* Categories: types agree along the tree, the floor of one category of each type
\* holds and what depends on a category keeps one of its type (category_service).
CategoriesSafe ==
    focus = "categories" =>
        T!TaxonomyTypeOK /\ T!TypesAgree /\ T!FloorKept /\ T!EntriesAccepted

\* Shared dictionaries: an organisation that stopped sharing contributes nothing,
\* a suggestion needs enough contributors, and votes are counted exactly
\* (tag_service, category_rules_service).
SharingSafe ==
    focus \in {"tags", "votes"} =>
        D!SharedTypeOK /\ D!ContributionIsCurrent /\ D!KAnonymity /\ D!VotesExact

\* Accounts: the columns follow the type, the opening balance is in the balance,
\* one account is the default, and dependents suit the type (account_service).
AccountsSafe ==
    focus = "accounts" =>
        /\ A!AccountsTypeOK /\ A!ColumnsFollowType /\ A!OpeningCounted
        /\ A!OneDefault /\ A!DependentsFollowType

\* Recurring series: no day is billed twice, the frontier is past what was spent
\* and a pause is not caught up (recurring_service).
SeriesSafe ==
    focus = "series" =>
        /\ S!SeriesTypeOK /\ S!FrontierPastSpent /\ S!NoDayBilledTwice
        /\ S!NoBackfillAfterPause

\* Reset: the categories are seeded once, a finished reset left no row of before,
\* and one fails only when it was disturbed (org_data_service).
ResetSafe ==
    focus = "reset" =>
        R!ResetTypeOK /\ R!SeededOnce /\ R!FinishedIsClean /\ R!FailsOnlyDisturbed
=============================================================================
