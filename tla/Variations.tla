----------------------------- MODULE Variations -----------------------------
(***************************************************************************)
(* Variation orders and the budgets they move                              *)
(* (src/backend/actions/money.ts), and the budget watch                    *)
(* (src/backend/modules/jobs/handlers.ts, runBudgetCheck).                 *)
(*                                                                         *)
(* The decision reads the variation, checks that it awaits one, resolves   *)
(* the client, and writes without looking again.  A suspended decision is  *)
(* deciding[p].                                                            *)
(***************************************************************************)
EXTENDS Integers, FiniteSets

CONSTANTS
  VariationOrders,
  Deciders,           \* decisions that can be in flight at once
  NoVariation,        \* no decision in flight
  Impacts,            \* what variations add to the budget, in cents
  Budget,             \* the budget of the project and of its one phase
  Spends,             \* what Transaction rows add, in cents
  MaxSpent            \* bound: what the rows may add up to

ASSUME VariationAssumption ==
  /\ Impacts \subseteq Int \ {0}
  /\ Budget \in Nat /\ Spends \subseteq Nat \ {0} /\ MaxSpent \in Nat
  /\ NoVariation \notin VariationOrders

VARIABLES
  variation,          \* VariationOrder: status, impact, phase named or not
  budget,             \* Project.budget
  phaseBudget,        \* Phase.budget
  spent,              \* the sum of the Transaction rows
  deciding

variationVars == <<variation, budget, phaseBudget, spent, deciding>>

VariationRow ==
  [status : {"none", "submitted", "approved", "rejected"},
   impact : Impacts \cup {0}, phased : BOOLEAN]

VariationTypeOK ==
  /\ variation \in [VariationOrders -> VariationRow]
  /\ budget \in Int /\ phaseBudget \in Nat /\ spent \in Nat
  /\ deciding \in [Deciders -> [of : VariationOrders \cup {NoVariation},
                                approve : BOOLEAN]]

NoDecision == [of |-> NoVariation, approve |-> FALSE]

VariationInit ==
  /\ variation = [v \in VariationOrders |->
                    [status |-> "none", impact |-> 0, phased |-> FALSE]]
  /\ budget = Budget /\ phaseBudget = Budget /\ spent = 0
  /\ deciding = [p \in Deciders |-> NoDecision]

\* variation.submit.
SubmitVariation(v, impact, phased) ==
  /\ variation[v].status = "none"
  /\ variation' = [variation EXCEPT ![v] =
       [status |-> "submitted", impact |-> impact, phased |-> phased]]
  /\ UNCHANGED <<budget, phaseBudget, spent, deciding>>

\* fault: the status is not looked at.
AwaitsDecisionAnyway(v) == variation[v].status # "none"

AwaitsDecision(v) == variation[v].status = "submitted"

ReadVariation(p, v, approve) ==
  /\ AwaitsDecision(v)
  /\ deciding[p] = NoDecision
  /\ deciding' = [deciding EXCEPT ![p] = [of |-> v, approve |-> approve]]
  /\ UNCHANGED <<variation, budget, phaseBudget, spent>>

\* A phase budget does not go below zero.
PhaseAfter(v) ==
  IF phaseBudget + variation[v].impact > 0 THEN phaseBudget + variation[v].impact ELSE 0

\* Both budgets and the status, in one transaction.
ApproveVariation(p) ==
  LET v == deciding[p].of IN
  /\ v # NoVariation /\ deciding[p].approve
  /\ budget' = budget + variation[v].impact
  /\ phaseBudget' = IF variation[v].phased THEN PhaseAfter(v) ELSE phaseBudget
  /\ variation' = [variation EXCEPT ![v].status = "approved"]
  /\ deciding' = [deciding EXCEPT ![p] = NoDecision]
  /\ UNCHANGED spent

RejectVariation(p) ==
  LET v == deciding[p].of IN
  /\ v # NoVariation /\ ~deciding[p].approve
  /\ variation' = [variation EXCEPT ![v].status = "rejected"]
  /\ deciding' = [deciding EXCEPT ![p] = NoDecision]
  /\ UNCHANGED <<budget, phaseBudget, spent>>

\* A flow of the money modules records a Transaction row.
SpendBudget(n) ==
  /\ spent + n <= MaxSpent
  /\ spent' = spent + n
  /\ UNCHANGED <<variation, budget, phaseBudget, deciding>>

VariationNext ==
  \/ \E v \in VariationOrders, impact \in Impacts, phased \in BOOLEAN :
       SubmitVariation(v, impact, phased)
  \/ \E p \in Deciders :
       \/ \E v \in VariationOrders, approve \in BOOLEAN : ReadVariation(p, v, approve)
       \/ ApproveVariation(p) \/ RejectVariation(p)
  \/ \E n \in Spends : SpendBudget(n)

VariationSpec == VariationInit /\ [][VariationNext]_variationVars

-----------------------------------------------------------------------------
(* The budget watch.                                                       *)

\* Math.round for what is not negative.
RoundDiv(a, b) == (2 * a + b) \div (2 * b)

\* pacePct in tenths: Math.round(Number((spent * 10000n) / budget) / 1000) / 10.
PaceTenths == IF budget > 0 THEN RoundDiv((spent * 10000) \div budget, 1000) ELSE 0

\* runBudgetCheck: over 100 is "over", over 90 is "watch".
Level ==
  CASE PaceTenths > 1000 -> "over"
    [] PaceTenths > 900 /\ PaceTenths <= 1000 -> "watch"
    [] OTHER -> "ok"

-----------------------------------------------------------------------------
SumImpacts[S \in SUBSET VariationOrders] ==
  IF S = {} THEN 0
  ELSE LET v == CHOOSE v \in S : TRUE IN variation[v].impact + SumImpacts[S \ {v}]

\* "Budget moves ONLY after client approval" (money.ts:341), and by what was
\* approved: the budget of the project is what it was plus the approved
\* impacts.  Holds of decisions taken one at a time; two in flight over one
\* variation move it twice, or move it for one that ends up rejected.
BudgetIsApproved ==
  budget = Budget + SumImpacts[{v \in VariationOrders : variation[v].status = "approved"}]

\* ">90% -> 'watch', >100% -> 'over'" (handlers.ts:717).
OverspendIsFlagged == budget > 0 /\ spent > budget => Level = "over"
=============================================================================
