------------------------------ MODULE GoalMode ------------------------------
(***************************************************************************)
(* The goal of a session (agent/goal/goal-mode.ts), reduced to its status  *)
(* and the turns it has used.  The budgets are one ceiling on the turns.   *)
(***************************************************************************)
EXTENDS Naturals

CONSTANTS
  TurnBudget,    \* budgetLimits.turnBudget
  MaxGoals       \* bound: goals created in one behaviour

ASSUME GoalAssumption == TurnBudget \in Nat \ {0} /\ MaxGoals \in Nat

(* created counts the goals so far; it only bounds the model. *)
GoalStatus == {"none", "active", "paused", "blocked"}
Goals == [status : GoalStatus, turns : Nat, created : 0..MaxGoals]

NoGoal == [status |-> "none", turns |-> 0, created |-> 0]

IsActive(g) == g.status = "active"

\* Mutant: a budget counts as reached once it has been exceeded.
overBudget_Exceeded(g) == g.turns > TurnBudget

overBudget(g) == g.turns >= TurnBudget

createGoal(g) == {[status |-> "active", turns |-> 0, created |-> g.created + 1]} \cap Goals
clearGoal(g) == [g EXCEPT !.status = "none", !.turns = 0]

(* These act on an active goal and leave any other one alone. *)
incrementTurn(g) == IF IsActive(g) THEN [g EXCEPT !.turns = @ + 1] ELSE g
pauseActiveGoal(g) == IF IsActive(g) THEN [g EXCEPT !.status = "paused"] ELSE g
markBlocked(g) == IF IsActive(g) THEN [g EXCEPT !.status = "blocked"] ELSE g

(* resumeGoal() refuses a goal that does not exist. *)
resumeGoal(g) == IF g.status \in {"paused", "blocked"} THEN [g EXCEPT !.status = "active"] ELSE g

(* What the user's commands can make of the goal: createGoal (with replace *)
(* when there is one), pauseGoal, resumeGoal.                              *)
UserGoalMoves(g) == createGoal(g) \cup {pauseActiveGoal(g), resumeGoal(g)}

(* What the model's goal tools can make of it within a step: CreateGoal,   *)
(* UpdateGoal active, blocked or complete (which clears the record).       *)
ModelGoalMoves(g) ==
  {g, resumeGoal(g), markBlocked(g)} \cup createGoal(g)
    \cup (IF IsActive(g) THEN {clearGoal(g)} ELSE {})
=============================================================================
