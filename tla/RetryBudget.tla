---------------------------- MODULE RetryBudget ----------------------------
(***************************************************************************)
(* The watchdog's retry budget (main/retry_budget.h): which door command   *)
(* is charged, how long it has been waiting, how many times it was resent  *)
(* and whether its budget is spent.  The C code keeps the start time; the  *)
(* model keeps the age of the command instead, in ticks, so that the state *)
(* space is finite.  The age is only ever compared with the timeout and    *)
(* saturates just above it (AgeBudget), which no comparison can tell.      *)
(*                                                                         *)
(* There is no state here: these are operators on a budget record.         *)
(***************************************************************************)
EXTENDS Naturals

RetryBudgets(cap) == [id : Nat, age : 0..cap, attempts : 0..1, done : BOOLEAN]

\* retry_budget_t retry_budget = {};
EmptyBudget == [id |-> 0, age |-> 0, attempts |-> 0, done |-> FALSE]

\* A budget starts over when it is charged with another command.
ChargedTo(b, id) ==
  IF b.id = id THEN b
  ELSE [id |-> id, age |-> 0, attempts |-> 0, done |-> FALSE]

Fresh_Uncounted(b, attempts, done) ==         \* MUTANT: the retry is not counted
  [id |-> b.id, age |-> 0, attempts |-> 0, done |-> done]
\* b->started_ms = now, with the attempts and the verdict that go with it.
Fresh(b, attempts, done) ==
  [id |-> b.id, age |-> 0, attempts |-> attempts, done |-> done]

(***************************************************************************)
(* retry_budget_step(): the budget after the step and the action the       *)
(* watchdog takes.  A request that was once seen not pending is done and   *)
(* never waits again.                                                      *)
(***************************************************************************)
RetryBudgetStep(b, id, pending, allowed, timeout) ==
  LET c    == ChargedTo(b, id)
      done == c.done \/ ~pending
      late == c.age > timeout
  IN  IF id = 0 THEN [budget |-> b, action |-> "WAIT"]
      ELSE IF done \/ ~late
           THEN [budget |-> [c EXCEPT !.done = done], action |-> "WAIT"]
      ELSE IF allowed /\ c.attempts = 0
           THEN [budget |-> Fresh(c, 1, FALSE), action |-> "SEND"]
      ELSE [budget |-> Fresh(c, c.attempts, TRUE), action |-> "REVERT"]

\* One tick of waiting, saturating just above the timeout.
AgeBudget(b, timeout) ==
  [b EXCEPT !.age = IF @ > timeout THEN @ ELSE @ + 1]
=============================================================================
