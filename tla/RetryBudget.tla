---------------------------- MODULE RetryBudget ----------------------------
(***************************************************************************)
(* What a user idler promises of its requests to scale Jenkins: each one   *)
(* costs a unit of a budget, one is under way at a time, it changes the    *)
(* deployment at most once and in its own direction, and the budget comes  *)
(* back only between requests.                                             *)
(***************************************************************************)
EXTENDS Naturals

CONSTANT MaxRetries

VARIABLES
  idleSpent,    \* requests to idle since the last refill
  unIdleSpent,  \* requests to un-idle since the last refill
  underWay,     \* the request under way: "idle", "unIdle" or "none"
  requested     \* the replicas the deployment asks for

budgetVars == <<idleSpent, unIdleSpent, underWay, requested>>

BudgetInit ==
  /\ idleSpent = 0
  /\ unIdleSpent = 0
  /\ underWay = "none"
  /\ requested \in 0 .. 1

SpendIdle ==
  /\ underWay = "none"
  /\ idleSpent < MaxRetries
  /\ idleSpent' = idleSpent + 1
  /\ underWay' = "idle"
  /\ UNCHANGED <<unIdleSpent, requested>>

SpendUnIdle ==
  /\ underWay = "none"
  /\ unIdleSpent < MaxRetries
  /\ unIdleSpent' = unIdleSpent + 1
  /\ underWay' = "unIdle"
  /\ UNCHANGED <<idleSpent, requested>>

\* The request ends: it took effect or it did not.
Settle ==
  /\ underWay # "none"
  /\ underWay' = "none"
  /\ requested' \in {requested, IF underWay = "idle" THEN 0 ELSE 1}
  /\ UNCHANGED <<idleSpent, unIdleSpent>>

Refill ==
  /\ underWay = "none"
  /\ idleSpent' = 0
  /\ unIdleSpent' = 0
  /\ UNCHANGED <<underWay, requested>>

\* Somebody else scales Jenkins.
ScaleElsewhere ==
  /\ requested' \in 0 .. 1
  /\ UNCHANGED <<idleSpent, unIdleSpent, underWay>>

BudgetNext == SpendIdle \/ SpendUnIdle \/ Settle \/ Refill \/ ScaleElsewhere

BudgetSpec == BudgetInit /\ [][BudgetNext]_budgetVars
=============================================================================
