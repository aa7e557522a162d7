----------------------------- MODULE AgentTools -----------------------------
(***************************************************************************)
(* The tools an agent may name: what each does to the row its preview      *)
(* describes, its risk, and whether the preview holds that row until the   *)
(* transaction ends.  Only a tool that makes a row from its arguments      *)
(* alone describes none; one that makes rows from others, or next to them  *)
(* (a copy, a transfer, a goal of a plan), describes those, holds none and *)
(* may find them changed.  A fill or an edit of a plan's items locks the   *)
(* plan, not the items it describes; skipping or writing an occurrence     *)
(* holds the template, whose schedule it moves.                            *)
(***************************************************************************)

Tool(names, risk, does, holds) ==
    [name : names, risk : {risk}, does : {does}, holds : {holds}]

Reads(names) == Tool(names, "read", "nothing", FALSE)
Sets(names) == Tool(names, "write", "set", TRUE)
MoneySets(names) == Tool(names, "sensitive", "set", TRUE)
Derives(names) == Tool(names, "sensitive", "set", FALSE)
Makes(names) == Tool(names, "sensitive", "make", FALSE)
MakesFrom(names) == Tool(names, "sensitive", "make from", FALSE)
Removes(names) == Tool(names, "sensitive", "remove", TRUE)
RemovesUnheld(names) == Tool(names, "sensitive", "remove", FALSE)

AccountReads == Reads({"accounts_get", "account_types_list", "cycle_payments_list"})
AccountTools == Makes({"accounts_create"}) \cup Sets({"accounts_update"})
AccountMoneyTools == MoneySets({"accounts_update_money"})
AccountDeleteTools == Removes({"accounts_delete"})
AdjustTools == MoneySets({"accounts_adjust_balance"})
AccountTypeTools ==
    Makes({"account_types_create"}) \cup Sets({"account_types_update"})
        \cup Removes({"account_types_delete"})
CycleTools ==
    MakesFrom({"cycle_payments_create"}) \cup MoneySets({"cycle_payments_upsert"})
        \cup Removes({"cycle_payments_delete"})

BillingTools ==
    Reads({"billing_cycle_get", "billing_periods_list"})
        \cup Derives({"billing_cycle_update", "billing_period_close"})
        \cup Makes({"billing_period_create"}) \cup MakesFrom({"billing_periods_ensure_future"})

BudgetMakers ==
    MakesFrom({"budgets_create", "budgets_from_forecast", "budgets_copy_from_period",
               "budgets_draft_next"})
BudgetTools == Sets({"budgets_rebalance", "budgets_update_amount"}) \cup Removes({"budgets_delete"})

\* A category of its own describes none; a subcategory has its master's type.
CategoryTools == MakesFrom({"categories_create"}) \cup Sets({"categories_update"})
CategoryMoves == Derives({"categories_move", "categories_batch_move"})
CategoryDeletes == Removes({"categories_delete"}) \cup MakesFrom({"categories_restore_recommended"})

PlanFillTools ==
    Reads({"forecast_plan_get"})
        \cup Derives({"forecast_plan_populate", "forecast_plan_refresh", "forecast_plan_copy"})
PlanItemTools ==
    Derives({"forecast_plan_item_add", "forecast_plan_items_bulk", "forecast_plan_item_update"})
        \cup RemovesUnheld({"forecast_plan_item_delete"})
PlanStatusTools ==
    MoneySets({"forecast_plan_activate", "forecast_plan_revert"})
        \cup RemovesUnheld({"forecast_plan_discard"})

PreferenceTools ==
    Reads({"notification_preferences_get"}) \cup MoneySets({"notification_preferences_update"})

RecurringTools ==
    Reads({"recurring_list"}) \cup MakesFrom({"recurring_create"})
        \cup Sets({"recurring_update"}) \cup MoneySets({"recurring_update_money"})
RecurringStops == Derives({"recurring_stop"}) \cup Removes({"recurring_delete"})
OccurrenceTools ==
    MoneySets({"recurring_skip_next", "recurring_materialise_next"})
        \cup Derives({"recurring_generate"})

ReportReads ==
    Reads({"reports_list", "reports_get", "report_versions_list", "reports_query",
           "reports_sankey_query"})
ReportTools ==
    MoneySets({"reports_update", "reports_update_layout"})
        \cup Makes({"reports_create"}) \cup MakesFrom({"reports_duplicate"})
ReportVersions ==
    MoneySets({"reports_reset", "report_version_restore"}) \cup Removes({"reports_delete"})

ScenarioReads ==
    Reads({"scenarios_list", "scenarios_get", "scenarios_simulate", "scenarios_compare"})
ScenarioTools ==
    Makes({"scenarios_create"}) \cup MoneySets({"scenarios_update"}) \cup Removes({"scenarios_delete"})
GoalTools ==
    MakesFrom({"plan_goal_create"}) \cup MoneySets({"plan_goal_update"}) \cup Removes({"plan_goal_delete"})

TransactionReads ==
    Reads({"accounts_list", "categories_list", "budgets_list", "transactions_search",
           "spending_by_category", "forecast_get", "transactions_get"})
TransactionTools == Sets({"transactions_set_category", "transactions_update"})
TransactionMoneyTools ==
    MoneySets({"transactions_update_money"}) \cup MakesFrom({"transactions_create"})
TransactionDeletes == Removes({"transactions_delete"}) \cup MakesFrom({"transactions_transfer"})

Catalogue ==
    UNION {AccountReads, AccountTools, AccountMoneyTools, AccountDeleteTools, AdjustTools,
           AccountTypeTools, CycleTools, BillingTools, BudgetMakers, BudgetTools, CategoryTools,
           CategoryMoves, CategoryDeletes, PlanFillTools, PlanItemTools, PlanStatusTools,
           PreferenceTools, RecurringTools, RecurringStops, OccurrenceTools, ReportReads,
           ReportTools, ReportVersions, ScenarioReads, ScenarioTools, GoalTools,
           TransactionReads, TransactionTools, TransactionMoneyTools, TransactionDeletes}

\* register refuses a tool whose name is taken, a write that deletes, and a
\* read that would do something.
Registrable(t, others) ==
    /\ \A u \in others \ {t} : u.name # t.name
    /\ t.does = "remove" => t.risk = "sensitive"
    /\ t.risk = "read" <=> t.does = "nothing"
=============================================================================
