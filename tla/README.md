# A TLA+ model of The Better Decision

The Better Decision is a personal-finance application: a FastAPI service over
MySQL (`src/backend/app`) and a Next.js frontend (`src/frontend`). Several
replicas of the service share one database; jobs run on a ticker inside each of
them. There is no message queue and no cache that outlives a request, so the
system's hard behaviour is that of concurrent requests over one database: a
request reads rows, checks rules on what it read, and commits later; some rows
are locked, many are not; a request may be cut off between two commits, and what
it asked of a provider (Google, Mailgun, a language model) may have happened
although no answer arrived.

This directory models the parts of the service where that matters: money and its
import, recurring series, plans, periods and projections, accounts and
categories, identity and permission, and what is paid for, sent and done by
agents.

## The system and its parts

`PROJECT.json` lists every component with its sources, whether it is modelled,
and what is left out of it. In groups:

| part | state | operations | what is hard |
|---|---|---|---|
| ledger, reconciliation, import confirm (`services/transaction_service.py`, `reconciliation_service.py`, `import_service.py`, `transaction_filters.py`) | transaction rows with status, link and review state; cached balances; batch headers with counters and the progress of a confirm | create, transfer, edit with the series, pair, convert, unpair, delete, adjust; accept, match, skip, reject, reopen; claim, chunk, replay | the balance is kept by increments in a dozen handlers; a link means a transfer or a match; repeats, crashes and stale headers of a confirm |
| recurring series (`services/recurring_service.py`) | template with its frontier (`next_due_date`), instalments, stop; occurrences | generate with catch-up, settle, skip, move, edit, pause, stop, resume, promote | a series frozen for months must not be billed for them; requests that read the template unlocked |
| plans, budgets, periods (`services/forecast_plan_service.py`, `budget_service.py`, `billing_service.py`) | plan per period, items per family; budgets; roster of periods | fill, refresh, copy, edit; suggest and apply a rebalance; open, close, plan, cycle day | edits that overlap a refresh; rounding; two closers with different dates, each from its snapshot |
| projection, scenarios (`services/projection_kernel.py`, `scenario_engine.py`) | none of their own but the saved result | project, simulate, compare | each payment must be counted once, as series, row, cycle or loan payment |
| accounts, categories, shared dictionaries (`routers/accounts.py`, `services/category_service.py`, `tag_service.py`, `category_rules_service.py`) | columns that belong to a type; a tree of two levels; counts of contributing organisations | change type, default, source; move, merge, delete, restore; share, withdraw, vote | rules over several rows that no constraint of the database holds |
| organisation reset (`services/org_data_service.py`, `org_reset_lock_service.py`) | tables, a fenced lease | wipe, seed, delete | a reset that outlives its lease |
| sessions (`state_db.py`, `routers/auth.py`) | families and their token ids, the cutoff, cookies | sign in, refresh, verify, log out, revoke | a refresh is up to six transactions; tabs race; a grace window forgives, reuse detection must not |
| second factor, addresses and passwords, members, Google sign-in (`auth/`, `routers/auth.py`, `routers/users.py`, `services/invitation_service.py`) | factors, codes, challenges, letters, proofs, users, invitations, round trips in tabs | challenge, verify, regenerate; register, verify, change, reset; invite, accept, merge; begin, call back, land | single-use things presented twice at once; a letter that outlives what it names; cookies shared by tabs |
| grants to programs (`services/oauth_service.py`, `api_token_service.py`) | codes, refresh tokens, scopes | consent, exchange, rotate, revoke, expire | reuse of a rotated token against its race |
| agents and the assistant (`agent/actions.py`, `services/agent_chat.py`) | staged actions, leases of turns | stage, confirm, cancel, carry out, sweep; rounds of a turn | a preview that is stale at execution; an action confirmed twice; a lease that expires under its holder |
| model spending, subscriptions, broadcasts (`services/ai_dispatch.py`, `subscription_service.py`, `broadcast_service.py`) | reservations, ledger, caps, keys; trial, plan, overrides; recipients, claims | reserve, settle, rotate; start, change, expire, sweep; drain, resume, webhook | settlement after death or in the next month; two sweeps; two pods over one list of recipients |

The parts meet in two ways only. Requests of every part are admitted by a
session or a grant; and parts write each other's rows: the import confirm and
the series write ledger rows (composed in `Ledger`), the reset wipes everybody's
tables (`Reset`), a logout moves the cutoff that grants are held against
(`Grants`), an account's type decides what a series may name (`Accounts`), a
closed period moves its budgets (`Periods`). Where such a crossing carries a
property, both sides are in one module.

## Modules

Each module is one component, with the names of the source where TLA+ allows it;
`map` in `PROJECT.json` gives the lines every definition stands for. A request
is split at every point where another one may act on what it read: at the reads
before a lock, at each commit, at each call to another system. Where the code
holds a lock from its first read to its commit, the request is one action.
A refused request changes nothing and is not a step. Most modules have a `Crash`,
`Lost` or `DropRequest` action that cuts a request off between two commits.

| module | what it is |
|---|---|
| `Ledger` | rows, links, balances, batches; one action per handler. `MCLedger`: instances. `LedgerProofs`: theorems |
| `ImportConfirm` | the claim / chunk protocol of `execute_import`, one action per database transaction of a request. `ImportConfirmProofs`: theorems |
| `ImportOnce` | the abstract specification of a confirm, which `ImportConfirm` implements |
| `Series` | one template, its frontier and its occurrences, requests that overlap. `MCSeries`: instance. Theorem in `OrganisationProofs` |
| `Accounts`, `Taxonomy`, `SharedData`, `Reset` | accounts; categories; tag and merchant dictionaries; the reset and deletion of an organisation. With `Series` in `MCOrganisation`. `OrganisationProofs`: theorems |
| `Plans`, `Periods` | plans and the rebalancing of budgets; the roster of billing periods under MySQL's REPEATABLE READ |
| `Projection`, `Simulation` | the projected balances; scenarios simulated month by month. `MCSimulation`: instance. With `Plans` and `Periods` in `MCPlanning`. `PlanningProofs`: theorems about plans, periods, projections and scenarios |
| `Sessions` | session families, and `/refresh` and `/verify` split at every call into the store. `MCSessions`: instances. `SessionsProofs`: theorems |
| `SecondFactor`, `Emails`, `Members`, `SignIn`, `Grants` | who may act. `MCSecondFactor`, `MCMembers`, `MCGrants`: instances. Together in `MCIdentity`. `IdentityProofs`: theorems |
| `Spending`, `Entitlements`, `AgentActions` (with the tools in `AgentTools`), `Broadcast`, `Turns` | what is paid for, done and sent. `MCSpending`: instance. Together in `MCServices`. `ServicesProofs`: theorems; `SumTheorems`: sums over finite sets |

`MCOrganisation`, `MCPlanning`, `MCIdentity` and `MCServices` put independent
parts side by side: the initial state picks a `focus`, only that part moves and
the variables of the others are `"Off"`. None of their properties relates two
parts, so letting them move together would multiply states and show nothing more.

### Ledger

`live` and `tx` are the `transactions` table, `opening` and `balance` two columns
of `accounts`, `batch` the header of each import batch, `req` the batch whose
reconcile request is running. `posted` is a history variable: per account and
row, the net amount that `apply_balance` and `revert_balance` calls for that row
have left in the account. No action reads it. `Rebook(R, A)` is the only place
where money moves: the handler reverts the rows `R` as they were and applies the
rows `A` as they are afterwards, and each action states its own `R` and `A` from
the gates of its handler.

A handler is one action because it runs in one database transaction. A reconcile
request applies a list of transitions, at least one, and may close the batch at
the end; nothing else runs in between, and the invariants hold after each
transition too. `bulk_update_transactions` commits each row through
`update_transaction` and so is a sequence of `UpdateTransaction` steps.

Where the code selects rows by date (the rows a "this and future" edit reaches,
the due rows of the sweep, the future rows of a stopped series) the action takes
any subset. Names, categories and tags are left out, and so is the template, so
an occurrence may carry any account, amount and type: more than the code does.
`PromotesImported` says whether users promote imported rows to a series. The code
allows it; instances and the theorem that set it to `FALSE` describe a ledger in
which nobody does, because a finding below starts there.

### ImportConfirm

One idempotency key of one organisation. `header` is the `import_batches` row that
holds the key, `live` counts per header and row the transactions now in the
ledger. Each request runs through `begin`, `claim`, `reread` and `run`. A chunk
runs under the header's row lock in one transaction, so `RunChunk` is one step;
`_find_keyed_batch` reads outside the lock, so what it saw (`seen`) may be stale.
A request may crash at any point, a client may send it again, and the user
deletes rows that have arrived. Which rows of a slice write a transaction is left
open. `ImportOnce` promises that pieces arrive, none twice, and that once the
import is final every answer reports the same rows; the mapping is in
`ImplementsImportOnce`.

### Sessions

One user; families of different users share no row. `family` and `member` are the
tables `auth_session_families` and `auth_session_members`, `cutoff` is
`token_cutoff(user)`, `jar` the refresh cookie of each browser, shared by its
tabs. A request carries the token it was sent with (`tok`) through program points
that correspond to the `await`s of the handler: `sent`, the four probes of
`_validate_single_refresh_token` (`head`, `grace`, `family`, `member`), `rotate`,
for the loser of a rotation `regrace` and `refamily`, `catchup` and `catchmember`,
and `reuse`. Each call into `state_db` is one transaction and one step. An answer
that sets or clears the cookie waits at `reply` or `expire` until it arrives. A
request may be dropped at any point, also after its rotation committed.

`parent` and `late` are history variables and no guard reads them. The clock is
one for the database and the application and counts ticks. A purge removes any
part of the families past the margin, since it takes a batch of them and skips
locked ones; the rows that `skip_locked` passes over are those of requests about
to rotate or to detect reuse, or any part of them.

### Organisations

`Series`: days are numbers, a frequency is a number of days. `call` holds what a
request read without the template's lock; in the run generations, stops and moves
(`Overlapping`) meet each other and every edit, and a resume runs alone. A pause
through `is_active: false` writes that column only, so it is one step. `delivered` and
`resumedAt` are history, and so is `byHand` on a row: the series no longer knows
its day, because a person moved it, or because it is a row a stop unlinked whose day
a series date move has put after `last_spent_date` or has landed on. `Accounts`: a body is the set of columns a request sends; a request
carries the row it read, because the type in it is written back
(`routers/accounts.py`). `Taxonomy`: an edit is the rows it read and the change
it commits; foreign keys are checked at the commit, rules on what was read.
`SharedData`: an import that votes holds one snapshot for many rows, while
turning sharing off takes the row of the setting. `Reset`: the wipe commits table
by table in the code's order, and `Names` gives the foreign keys that refuse it.

### Planning

`Plans`: an edit reads the plan and its items from one snapshot and later commits
its row writes: what it inserts, changes and drops. `gone` are the rows it has read
that others removed since, so a key that is taken or a row that is missing rolls it
back, while deleting a missing row does nothing. A refresh drops every generated row
it has read, whatever it is by then, and makes again what its sources have and its
snapshot, less its own deletes, lacks; a row another request deleted is still in that
snapshot (REPEATABLE READ) and so does not come back. A family is a master category
and its subcategories; items belong to one or the other by the plan's granularity.
Only the budgets a suggestion moves are sent and compared. `Periods`: a close is the snapshot of its first
read, the lock, and the commit in which InnoDB reads the newest rows again. The
lock is by id: a request remembers (`gone`) that a reset deleted its row, since a
row made later at the same start is another one.
`Projection`: `Points` is the whole computation, as a function of rows and
series; the actions are what the world does to the rows it will be asked about
again. `Simulation`: a job takes its world from the books once and then steps
month by month, while the books go on.

### Identity

`SecondFactor`: the claims of a used time step, code or challenge are rows of
their own, committed before what they permit. `Emails`: a person owns an address;
who reads its mail or signs in with Google as it is that person, so `provers` and
the password's `by` say whom an account belongs to. `Members`: an acceptance is
its first read, the lock of the organisation, the count in its snapshot and the
commit. `SignIn`: browsers with cookies, tabs with storage, callbacks that wait
for Google while other tabs go on, addresses opened again elsewhere. `Grants`:
rows of `api_tokens`, the serial of their refresh token, the token before it that
a lost answer may bring back, and the actions their program staged.

### Services

`Spending`: one meter for tokens and money; a call is prepared, reserved, sent
(perhaps several times), settled. `Entitlements`: requests read a row and later
write the columns they change; only the sweep locks. `AgentActions`: one row
stands for the data; a tool is what it does to that row, its risk, and whether
its preview holds the row. `Broadcast`: a drain is split at every `await`; the
provider's three outcomes include none. `Turns`: the lease with its time, and the
phases of a turn with the deadline that is checked before each provider call.

A tool that makes a row from its arguments alone describes no row. One that makes
rows from others (`MakesFrom`: a copy, a budget from the forecast, a goal of a plan)
describes those without holding them, and one that removes items of a plan
(`RemovesUnheld`) locks the plan only: both can be stale, and `AsPreviewed` speaks of
the tools that hold what they describe. An administrator's request changes either the
dates of a subscription or its plan and status in the run (`SmallUpdate`).

## Properties

A run names composite properties; each is a conjunction of named parts, and
where it says "safe" or "sound" the type invariant of its module is among them.
The comment before each part states it in full, with its exceptions: several
hold only while requests do not overlap, because the code locks nothing there
(the observations say what happens otherwise).

| property | parts, and what they say |
|---|---|
| `RowsSound`; `PostedExact`, `OneWayLinkIsMatch`, `CountersExact`, `BalanceConsistent`, `AdjustmentsImmutable` | `LinksResolve`: a link names another existing row. `PairShape`: a mutual link is a transfer: two accounts of one currency, opposite types, equal amounts. The others: the balance holds of every row exactly what the filter gives it, one-way links are matches of imported rows, counters equal a recount, adjustments never change |
| `RecurringConsistent` | `PendingRecurringHasNoMatch`, on which the series sync and the sweep rely. `MatchedOccurrenceCounts`: an occurrence that a bank row was matched against stays counted |
| `ConfirmSafe`, `ImplementsImportOnce`, `EveryConfirmEnds` | `NoDuplicateRow`: no row of a file is in the ledger twice. `KeyNeverMixes`: one key, one body. The refinement, and that every confirm is answered, refused or dies |
| `SessionsSound`, `ChainLinear`, `NoLateAnswer`, `DeniedEndsFamily` | a token in use is never taken for a stolen one; a family is one chain; a token out of use is not answered; reuse ends the family for good |
| `CategoriesSafe` | `TypesAgree`: a subcategory has the type of its master. `FloorKept`: a master and a subcategory of each side remain. `EntriesAccepted`: every entry is on a category that accepts its side |
| `SharingSafe` | `ContributionIsCurrent`: a contribution or vote lasts only while the organisation shares. `KAnonymity`: a name is suggested only while enough organisations share it, although counts drift. `VotesExact` |
| `AccountsSafe` | `ColumnsFollowType`: no account has columns of another type. `OpeningCounted`: opening balance and postings add up under overlapping edits. `OneDefault`. `DependentsFollowType`: cycle payments and recurring transfers fit the types of their accounts |
| `SeriesSafe` | `FrontierPastSpent`: the frontier stays after every occurrence spent. `NoDayBilledTwice`: two rows on one day are the work of a person's move (`byHand`; see Observations). `NoBackfillAfterPause`: a resumed series is not billed for its pause |
| `ResetSafe` | `SeededOnce`, also after a crash, a takeover and a stalled release. `FinishedIsClean`. `FailsOnlyDisturbed`: a reset fails only over what was written meanwhile, and a deletion never |
| `PlansKept` | `ManualKept`: an item by hand goes, or becomes a generated one, only by an edit that read this very row: a delete, or a refresh to which it was still generated. `RefreshReturns`: a refresh loses no item its sources still have. `FillsCountOnce`: no fill makes a family count twice, with the exceptions it names |
| `PlansSafe`, `TotalsAndDaysKept` | Items are on plans that exist. `SuggestionSound`: a suggestion keeps the total, and no cent that could move is left. `RebalanceKeepsTotal`: its application keeps it too, although budgets were edited meanwhile. `CloseHandsOver`: a step that closes a period leaves a row on the next day |
| `PeriodsSafe` | `NoDoubleDay`: no day in two closed periods. `BudgetEndFollows`: a budget's copied end follows its period. `AnomaliesExact`: what the checker calls free of gaps and overlaps is |
| `ProjectionSafe`, `ForecastHolds` | `NeverIntoCredit`: no projected payment turns a debt into a credit: a loan is not above zero at the end of a period with a payment (on the day itself it may be, when a charge follows in the period), and a card's payments stay within what was owed at the close. `ForecastHolds`: the projection does not move when generation runs, a row is settled on its day, or a projected payment is recorded |
| `ScenariosSafe` | `EndsAsCounted`: after every month a balance equals a closed form of the snapshot. `VerdictFollowsPoints`: the colour says what the points show |
| `MfaSafe` | `CodeOnce`, `ChallengeOnce`: each is accepted once, whatever overlaps. `BudgetHeld`: wrong guesses stay within the limit and one per request under way. `NoCodeLost`: a request that loses a race or dies spends no recovery code |
| `MailSafe` | `AddressProven`, `PasswordProven`: a verified address, and the password on it, are the owner's. `NumberOnce`: a letter is good for one change |
| `MembersSafe` | `InviteTakenOnce`, `OwnerRemains` |
| `SignInSafe` | `OnlyOwnRounds`: sessions and proofs come only from round trips begun in the same browser. `ProofsAndTabsBound`: a proof serves the action and user it was begun for. `AccountHasSession` |
| `GrantsSafe`, `StepsAndScopesOrdered` | `AnsweredOnce`: a code or refresh token brings new tokens once. `CapHeld`. `LogoutWins`: no token from before a logout everywhere is accepted after it. `StagedFollowToken`: revoking cancels what was staged. `StepsForward`: no older code after a newer one. `GrantNeverWidens` |
| `SpendingSafe` | `SpendCovered`: what the provider charged is counted in its month, whatever died. `CeilingHeld`, `WarnedOnce`, `KeysStayRetired` |
| `EntitlementsSafe`, `AgentSafe`, `CarriedOutAsAgreed` | `TrialRemindedOnce`; `PaidPeriodKept`: what was bought is in effect until its last day. `AppliedOnce`; `PersonDecides`. `AsPreviewed`; `OnlyExpiredSwept`; `DeliveryOnlyWorsens` |
| `BroadcastSafe` | `NeverDoubleSend`, `UnsentMeansNotQueued`, `HistoryKept`: one message per recipient, whatever answers are lost and pods race |
| `TurnsSafe` | `OneCallAtATime` |

Each has a mutant in `PROJECT.json`: a plausible slip in one definition that
makes the property fail under its own instance. The modules hold further
operators marked "Mutant:"; each of them breaks another part of a composite.

## Runs

| run | instance | shows |
|---|---|---|
| `ledger_import` | 3 rows, 2 accounts, 1 batch, amount 1 | links, postings, pairs and counters under every order of writes, imports and reviews |
| `ledger_writes` | 3 rows, 3 accounts of two currencies, amounts 1 and 2, openings 0 and 1, adjustments to 1 | balances, pair shape, adjustments |
| `ledger_recurring` | 2 rows, 1 batch, 1 series, amounts 1 and 2, nothing imported is promoted | balances under series edits, skips, sweeps and stops beside imports and review |
| `import_confirm` | 2 requests, 2 bodies, 3 rows in chunks of 2, at most 3 headers; fairness, deletions, crashes | one content per key, no duplicate, refinement of `ImportOnce`, every confirm ends |
| `sessions_race` | 3 requests of one browser, one family, grace 1, duration 3, 2 members kept, 4 token ids, 2 ticks | one chain, no late answer, reuse detection exact in both directions |
| `organisation` | categories, dictionaries, accounts, one series, reset; 2 requests each | `CategoriesSafe`, `SharingSafe`, `AccountsSafe`, `SeriesSafe`, `ResetSafe` |
| `planning` | plans of two periods, budgets, three period starts; one book to project (`FirstRows`, `FirstTemplates`, `FirstOpenings`, `FirstCards`: no row or up to two, one series at a time, three cards); two accounts with three books (`FirstBooks`), up to 2 plans compared (`MaxCompared`, 3 in the code); 2 requests each | plans, periods, projections and scenarios |
| `identity` | 3 people, two browsers with their tabs, one client program; 2 requests each | who may act |
| `services` | one organisation, 2 requests or pods, 2 turns | what is paid for, done and sent |
| `ledger_promoted_balance`, `sessions_catchup`, `last_seat` | smallest instances | the findings |

**Why the bounds are enough.** Two overlapping requests are what every hazard in
the list needs, except a refresh, where a winner, a loser and one that rotates
while the loser catches up make three. Three rows are the smallest number at
which a pair and a row matched onto one of its legs exist together, and a chain of
a matched row, its target and another; `ThirdRowSettled` keeps one of them out of
review. Two amounts tell an edit from a no-op. A chunk smaller than the file makes
a confirm of two transactions; `MaxHeaders` exceeds the number of requests and
never binds. `KeepMembers` = 2 lets a family outlive the pruning of its first
token within 4 ids (`sessions_catchup` keeps 3, or the token in question would be
pruned; the code keeps 1000). Clocks exceed the durations they are about: the
grace, a token's life, a lease; a trial of 3 days begins on the day of its first
reminder, and one that an administrator shortens ends within the run. Counts of requests (`MaxAsked`,
`MaxSteps`, `MaxCatEdits`, `MaxAcctReqs`) let two requests overlap and one more
follow; `MaxDisturbed`, `MaxOverlaps`, `MaxWipes` and `MaxOpened` bound how often
the world interferes, and one or two suffice for each hazard named.
`Followed` stops a behaviour once such a bound is spent. In
`MCSeries` the kinds of unlocked request outside `Overlapping` run by themselves.

Symmetry is used for row ids, accounts of one currency, requests, families,
browsers, organisations, ids and values, and not in the run with liveness.
`CHECK_DEADLOCK FALSE` in the bounded runs: when every request has ended and the
counts are spent the system is at rest. The ledger runs do check deadlock.

**Fairness.** Only `FairSpec` of `ImportConfirm` states any: weak fairness for each
request's own steps, since the event loop schedules a coroutine that can proceed.
Nothing is assumed of clients, crashes or deletions. The other parts have no
liveness property: most of what they begin is ended by the user's next request, or
not at all, which the code accepts.

## Findings

1. `ledger_promoted_balance`: `promote_to_recurring` accepts an imported row.
   Reopened in review, matched and set to pending it becomes what
   `_propagate_fields_to_series` says cannot exist: a pending recurring row with
   a one-way link. `_settle_due_auto` then adds that row to the balance although
   `balance_contribution_filter` leaves it out, and the cached balance drifts.
2. `sessions_catchup`: a refresh on the grace path reads the current head, then
   validates that head in another transaction. A third refresh that rotates in
   between makes the validation miss, and the browser gets the terminal 401 that
   the grace window exists to prevent, although its session is alive.
3. `last_seat`: an acceptance reads the invitation before it locks the
   organisation, and that read fixes its snapshot. The second of two acceptances
   waits for the lock and then counts the members without the one the first has
   added: both take the last seat. Reached only with `billing_ui_enabled`.

## Observations

Behaviour met while modelling that no run states as a property, because the code
promises nothing else or the consequence is small. The models contain it.

* Ledger: skipping or rejecting a row after another one was matched onto it is
  not refused; reopening an accepted row leaves a closed batch closed;
  `row_count == 0` is taken for "nothing imported" although deletes decrement it.
* Plans: an edit that overlaps `activate` can change or empty an active plan. "Items
  with source=MANUAL stay untouched" (`services/forecast_plan_service.py:1036`), and
  the assistant tells users so (`agent/forecast_plan_tools.py`, `_ADD`); but an item
  edited by hand between the read of a refresh and its delete is deleted, and made
  again as a generated one if its sources still have it. Fills that overlap other
  edits can count a family twice. `ManualKept` and `FillsCountOnce` hold with exactly
  these exceptions.
* Categories: a restored child takes its recommendation's type, also below a
  master whose type has changed (compare `routers/categories.py:358`); the floor of
  one category per type is not locked.
* Dictionaries: `contributor_org_count` is counted up through the ORM
  (`services/tag_service.py:487`) and can drift under two contributions at once.
* Accounts: `models/account.py` says `payment_source` is "set only on liability
  accounts"; the type of its target is not checked. Cycle payments and transfer
  sources race with a change of type. Two defaults chosen at once can leave none.
* Series: generation's probe for existing occurrences reads a snapshot older than
  the template's lock; the move of a row's date checks the frontier unlocked; a
  stop does not see rows of a concurrent generation; two resumes can give up
  instalments that `_reanchor_frontier_on_resume` means to keep. A series date move
  writes `last_spent_date` too, and may take it back
  (`services/transaction_service.py:763`), while `services/date_utils.py:128` says
  "which `_advance_frontier` writes and nothing else rewinds"; and it looks at linked
  rows only. So after a stop and a resume, a move, or an edit of the frontier and a
  generation, can put an occurrence on the day of a row that the stop unlinked. TLC
  finds both on larger instances when `byHand` stands for moves of single rows only.
* Reset: `restore_recommended_categories` seeds without the lease; a cancelled
  request leaves the lock until it is stale; rows written during a reset survive.
* Periods: "The open row a racing closer left behind"
  (`services/billing_service.py:783`) is looked for by a plain read of an older
  snapshot, so the loser of two closes fails instead of finding it.
  When `update_billing_cycle` loses the insert of a first period, the rollback takes
  the new cycle day back as well, as its docstring admits
  (`routers/settings.py:539`); the model keeps the day.
* Projection: cycles of the first period bill only real rows; rows settled beyond
  the first period are in the seed at once; what is due before `window_start` is
  not projected.
* Simulation: a horizon made shorter is not checked against the months of events;
  contributions go on after the target date; the suggestion counts the whole
  horizon; a saved projection stays when parameters change; a scenario with an
  alert can carry a green verdict.
* Addresses: an administrator's change read as unverified can still move an account
  its owner verified meanwhile; a verify that read a pending change applies it
  although it was cancelled; two first registrations at once both become
  superadmin.
* Members: the number of owners is read unlocked; a revoke that races an
  acceptance can leave the accepted invitation revoked as well.
* Sign-in: a failing callback clears the cookies of a newer round trip in another
  tab; a session can exist for an account whose commit failed; step-up compares
  with a user row loaded before the exchange.
* Grants: a request authenticated before a revoke can stage an action after the
  cancellation; `MAX_CLIENTS` is counted unlocked; a lost refresh answer lets the
  client's retry end the grant; two scope changes at once can raise a scope
  (compare "A token's scope can only be lowered", `routers/agent_tokens.py:252`).
* Spending: concurrent calls on an own key can pass the hard cap together; a
  validation that races a rotation leaves the models of the old key on the new
  one; the ceiling is the one read when the call was prepared. While the store of
  its mark does not answer, the warning of the soft cap repeats
  (`services/ai_dispatch.py:801`); `WarnedOnce` is for a store that does.
* Subscriptions: a trial's expiry that races `change_plan` loses the chosen plan;
  `change_plan` leaves a cancelled subscription cancelled; concurrent overrides can
  mix columns; plans are edited and deleted on an unlocked count.
* Agent actions: the header of `agent/actions.py` (lines 24-26) says "the re-preview
  and the execute are two transactions. The window is milliseconds". The code has no
  such window for a tool that holds its row: `confirm` previews and executes on one
  session (`agent/actions.py:565-595`), the tool runs on that session
  (`agent/tools.py:261-265`; `agent/route_tool.py:24` and 144-146,
  `get_caller_session`), and nothing commits before the tool's own commit. The model
  follows the code: `Repreview` keeps its locks up to `Execute`, on which
  `AsPreviewed` rests. What the header says of a window is true of a tool that holds
  no row: its action can be carried out on a changed one.
* Agent actions, further: the ceiling of live actions is unlocked; a failed last commit leaves an action
  "failed" or "executing" that was carried out.
* Turns: the phase of tools is not bounded in time, which is harmless: the
  deadline is checked before each call. That an admission takes at most a unit of
  time is assumed.

## Proofs

`LedgerProofs` proves, for all constants that satisfy `LedgerAssumption` (amounts
positive, finitely many row ids, the "no" values outside their sets):

* `ShapeCorrect`: `Spec => [](TypeOK /\ LinksResolve /\ OneWayLinkIsMatch)`;
* `PostedCorrect`: if imported rows are not promoted, `Spec => []PostedExact`:
  the balance contains of each row exactly what the row's own fields say.

`PostedExact` is not inductive alone. A step that deletes rows nulls links, and
what that does to a row's membership of the balance depends on the links
resolving and on one-way links being matches; a sweep that settles a row adds its
amount without looking at links, which is right only if recurring rows are not
imported (`RecurringNotImported`) and so carry no one-way link. The inductive
invariant is the conjunction of these. The proof has a lemma per kind of step on
the table: inserting rows (`InsertKeeps`), linking two rows (`RelinkKeeps`),
removing a set of rows (`RemoveKeeps`), a review transition (`TransitionKeeps`),
marking rows in place (`MarkKeeps`), editing (`UpdateKeeps`); `RebookExact` reduces
`PostedExact'` to one fact per row: the row was reverted if and only if it counted
before or its value changed, and applied likewise. Each action is an instance of
one of these, and `NextKeeps` collects them.

Its second half goes on from the same assumptions. `Sound` adds `PairShape` and
`AdjustPlain` (a manual adjustment has no link, batch or series) to `LinksResolve`;
`StepSound` says what one step may do to one row, and every action
is shown to satisfy it. From it follow `RowsCorrect` (`RowsSound`) and the two
action properties, `AdjustmentsCorrect` and `RevertedCorrect` (a skipped or rejected
row stays so, `RevertedIsTerminal`, which is proved only). `BalanceCorrect`
is `~PromotesImported => (Spec => []BalanceConsistent)`: the balance is the sum of
what was posted per row, `PostedExact` gives each summand, and `SumTheorems` says
how a sum over a finite set changes with one summand. The sums are folds; their
facts are proved by induction over sizes in the form of a least counterexample, a
set, because the library's induction theorems cannot be used. For the rest most
handlers are `Calm`: they delete nothing, make no match and leave imported rows, and
rows another one links to, as they are. Deletions (`Deleting`), imports and review
transitions are taken one by one. `CountersCorrect` (`CountersExact`) follows each set
a header counts through the step (`DeleteCounts`: the set less the rows whose state
the deletion ends; `TransitionCounts`: one row enters or leaves). `MatchesCorrect` is
`MatchedOccurrenceCounts` for any `PromotesImported`: a matched row is reverted neither
by a skip, which asks for a row nobody links to, nor by a deletion, which rejects
imported rows only. `RecurringCorrect` is
`~PromotesImported => (Spec => []RecurringConsistent)`.

`SessionsProofs` proves, for all constants that satisfy `SessionsAssumption`
(positive grace, duration and limits, `None` outside the sets it stands beside):

* `ChainCorrect`: `Spec => [](TypeOK /\ ChainLinear)`;
* `LateCorrect`: `Spec => []NoLateAnswer`;
* `ReuseCorrect`: `Spec => [](InUseNotDenied /\ DeniedEndsFamily)`;
* `SoundCorrect`: `Spec => []SessionsSound`.

The inductive invariant `SessionInv` adds three things. `RowsAgree`: the head of a
family is one of its members and sequence numbers are not shared. `TokensIssued`:
every token in a cookie, a request or an answer is a member of its family unless
the family has rotated `KeepMembers` times, which is why reuse detection may treat
a non-member of an old family as consumed. `RequestsKnow`: what a request may
conclude from where it is, although other requests have moved since. The argument
for the last one is that tokens only age: a token that is not in use, or not the
head of a live family, never becomes so again. `StoreGood` collects what a step of
the tables or of the clock must satisfy for that, `StillSettled` carries a request
over such a step, and `Assemble` puts the invariant together again.

`ImportConfirmProofs`: `ConfirmCorrect` (`ConfirmSafe`) and `ConfirmImplements`, the
refinement of `ImportOnce`, for all constants of `ConfirmAssumption` (chunks of at
least one row, room for one header). `ConfirmInv` adds `Sent` (a request that is
under way has a body), `Claims` (what it saw of a header is a header that was
there, of its own body if it runs) and `Tables`: only the latest header has rows
in the ledger (`Latest`), they lie before its progress and are of its body
(`Placed`), and `row_count` counts them (`Counted`). Each transaction of a request
is a step of `ImportOnce` or none.

In the modules that put parts side by side a theorem has the form
`Spec => []XSafe` and an invariant that holds while `focus` is on the part; the
other parts leave its variables alone. What a part asks of its constants is a plain
definition in its module (`TurnAssumption`, `MfaAssumption`, ...), since an
`ASSUME` is not inherited by an instance; `MCServices`, `MCIdentity`,
`MCOrganisation` and `MCPlanning` assume them for their instances and TLC
evaluates that.

`ServicesProofs`, under `ServicesAssumption`:

* `TurnsCorrect`: for any finite set of requests and times with `LeaseTime >=
  TurnTime + 2` (the code: a lease of 180 s, a turn of 90 s, an admission of far
  less than the rest). A lease that is only held, or only young, is not enough: it
  may run out under a slow tool, and a turn that has lost it goes on to its own end.
  `TurnInv` says that names of turns differ (so a late release by name hits nobody
  else), that an admission holds a lease at least `LeaseTime - 1` long, and that a
  turn which still has time, or a call under way, holds a lease that outlives its
  time. Who takes the lease over finds it run out, so nobody has time left.
* `AgentCorrect`: whoever is past the conditional update that claims an action is
  the only one (`Claimed`), so the count of executions is what the status says
  (`Counted`); every path to that update has passed the check of its kind
  (`Allowed`, `Decides`); a preview that holds its row still matches (`Holds`).
  `CarriedOutCorrect` is the action property `CarriedOutAsAgreed` from the same
  invariant and those of subscriptions and broadcasts.
* `EntitlementsCorrect`: reminders counted are rows there, numbers of rows grow,
  and when requests do not overlap one that is under way acts on what is stored.
* `BroadcastCorrect`: batches that pods hold do not meet, their rows were claimed
  from `waiting`, and a row is claimed once (`BatchesApart`, `TakenOnce`).
* `SpendingCorrect`: the meter of a month is at least what its calls have reserved
  or billed (`Covered`, a sum over the calls), and a reservation is only made under
  the ceiling that its call read (`CeilingHeld`).

`IdentityProofs`, under `IdentityAssumption`:

* `MembersCorrect`: an acceptance past the lock is the only one of its
  organisation and its invitation is still pending; when requests do not overlap,
  what they read is what is stored.
* `MailCorrect`: numbers of letters are given out once and in order, a claim under
  way is alone with its number, and a row is verified only by who read its address.
* `GrantsCorrect`: the cap is not inductive as it stands, because a rotation under
  way may make a row live again. `Reserved` counts those rows too.
* `MfaCorrect`: failures are counted after a request began in an open window, so the
  budget can be passed by the requests under way: failures plus requests on
  their way to fail are at most the limit plus the number of requests minus one.
* `OrderCorrect`: the action property `StepsAndScopesOrdered`.
* `SignInCorrect`: states and codes are not shared between rounds, and what a
  callback carries is of the round in its own browser.

`OrganisationProofs`, under `OrganisationAssumption`:

* `ResetCorrect`: a reset that works holds the lock under a token of its own, and
  the tables it is past are empty unless something wrote meanwhile.
* `SharingCorrect`: a request that gives something away holds the row of a
  setting that is on, and one request holds that row. `contributor_org_count`
  may drift below zero, so "no row" is a constant (`Absent`)
  apart from the numbers.
* `AccountsCorrect`: an update that locks nothing writes only columns that no rule
  relates to a type; a request that runs alone sees the row as it is.
* `CategoriesCorrect`: whether an identity is a master's or a subcategory's is
  decided when it is given out (`MasterId`, `SubId`), so edits that overlap cannot
  build a third level although each checks what it read; an edit that runs alone
  is committed on the rows its rules were checked against (`RunsAlone`), and then
  each kind of edit keeps types, floor and entries (`CreatedRight`, `RetypedRight`,
  `MovedRight`, `DeletedRight`). The floor is a fact about sizes of sets
  (`AnotherOne`).
* `SeriesCorrect`: `SeriesSafe`, if resumes run alone (`"resumes" \notin
  Overlapping`; two of them rewind the frontier), while any number of generations,
  stops and moves overlap each other and the edits. `NoDayBilledTwice` is not inductive:
  a row on a later day of the grid would meet the next generation. `SeriesInv` adds
  that the rows whose day the series knows lie before the frontier and, once
  unlinked, not after `last_spent_date` (`Known`), which is what a moved frontier has
  to clear. A run spends the first days of the grid and as many as are left
  (`SlotsAre`), so numbers and days are new (`RowsGrow`), although its snapshot of
  the rows is old: it can only keep it from writing, not make it write a day twice.
  A series move shifts the linked rows by less than a step and the frontier with them
  (`MoveSeriesKeeps`).

`PlanningProofs`, under `PlanningAssumption` (months that follow each other from day
1, categories two levels deep, whole cents):

* `PeriodsCorrect`: `NoDoubleDay` says nothing of requests in flight, and a close
  decides from a snapshot that may be old. `PeriodInv` says what such a snapshot is
  worth. In every run the table comes after it (`Kept`): no row it has is gone, and
  where it has an open row there is an open one, the same or a later one. Without a
  racing insert more holds (`Exact`): if the row a close is about to lock is open
  still, the snapshot is the table, because every close opens a later row
  (`OthersOvertaken`); and nobody loses an insert. `AnomaliesExact` needs no
  invariant beyond the type: the report is exact for every roster of upright rows
  (`CleanCoversOnce`, `OnceIsClean`), however it came about.
* `PlansCorrect` and `PlansKeptCorrect`: `PlanInv` says of every edit in progress
  what its row writes are worth against what it read (`GoodEdit`, `Fits`): it drops
  rows it has read, a fill inserts nothing that would count a family it read twice,
  and a plan it saw still exists. A commit writes only that (`CommitIs`), and keeps it true of the
  others (`OvertakenIs`). So an item by hand can go only with the row itself
  (`ManualIsKept`); a refresh misses a key only where the subcategories claim it
  (`RefreshIsReturned`); and for a fill it is enough to compare the family as read
  with the family as it is, case by case (`FillIsOnce`).
  `SuggestionSound` is arithmetic: the shares
  rounded down leave over the sum of the remainders over the total headroom, a
  number of cents no larger than the number of donors; the order by remainder and id
  gives each donor its place, so exactly that many are rounded up (`FirstK`,
  `SharesAdd`); the categories in deficit, served by rank, take the smaller of what
  is movable and what those so far lack (`ServedAdd`).
* `TotalsAndDaysCorrect`: the action property `TotalsAndDaysKept`. Only a close
  changes a row that is there, and `Kept` is what makes its loser's retry find or
  leave an open period.
* `ProjectionCorrect`, for the rows, series, cards and loans of `ProjectionAssumption`
  (whole amounts, transfers that are not negative between two accounts, rows with
  their own numbers). The projection is a recursive function over the periods of the
  loan and the cycles of the card; it exists on every prefix of them
  (`LoanStepsExist`, `CardStepsExist`), and the induction is over the prefix. After a
  period the walk's balance is what was owed at first, the legs before the period,
  and its own payments and interest (`LoanOk`); so the payment, capped at what is
  left after the legs of its own period, ends it at zero or below, and later payments
  and interest come on later days (`PeriodsFollow`). For the card, what earlier
  cycles paid is the sum of the payments (`CardOk`): it comes off what is owed, and
  credits only lower the rest. `BookInv` keeps the rows such that what is received is
  never negative, and a new row's number new.
* `ScenariosCorrect`, for the books and plans of `SimulationAssumption` (whole
  amounts and rates, frequencies of at least a day, one name per series, an
  instalment that comes out whole): the run holds a queue of frontiers and
  instalments, `EndsAsCounted` counts numbered occurrences from the snapshot. The
  occurrences a series has before a month are its first ones, `0 .. n - 1`
  (`SegmentIs`), so the queue after `m` months is the snapshot moved on by their
  number (`AfterMonths`, `QueueAdvances`): the month then posts those the count gains,
  be they posted, silenced or overdue (`MonthPosts`, `HappenGrows`), and sums over
  series and months add up (`RecurringAdds`, `HappenedAdds`). `SimInv` adds that a run
  is this count of the books as they were (`RunCounts`), which neither `Generate` nor
  an edit can touch, and that streaks and dips are what the points show (`RunShows`).

Only model-checked: `ForecastHolds`, which compares two projections, each computed
whole, around a step that moves a row from one of its sums to another.
Out of the prover's reach: liveness under fairness (`EveryConfirmEnds`), `ENABLED`,
and modules with recursive operators.

## Not modelled

Components marked `not_modelled` in `PROJECT.json`, with the reason there: the
scheduler (each of its jobs is an action of the part it serves), batch create, roles
and permissions, reports, notifications, parsers, AI providers and features, the
frontend, migrations, rate limits. Inside the modelled parts: the unlocked reads and
the lock order of the ledger's handlers, import preview and category learning,
`create_import_batch`, which no longer has a caller, sessions of requests with
several cookies, a session duration that changes.

## Plan

1. Proofs: `ForecastHolds` of `Projection`, as lemmas on how each sum changes when a
   row is added, settled or takes the place of an occurrence.
2. `LedgerLocks`: `update_transaction`, `delete_transaction` and
   `reconcile_request` on one row split at their reads and locks, with deadlock
   victims; does `PostedExact` survive the unlocked reads?
3. `Sessions`: the families that predate a change of credentials, for what
   survives it when the revoke fails while a refresh is in flight.
