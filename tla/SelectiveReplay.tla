-------------------------- MODULE SelectiveReplay --------------------------
(***************************************************************************)
(* The live part of a replay (replay.py, ReplayEngine._selective): the     *)
(* boundaries of a fixture are taken in their order, those of the chosen   *)
(* steps are executed once more, and what comes of it is compared with the *)
(* record.  Which steps are held is a matter of the current plan and is    *)
(* looked up before the loop (build_module_registry): here it is part of   *)
(* the case.  Replay says how fixtures come about and cases begin.         *)
(***************************************************************************)
EXTENDS PlanEval

CONSTANTS
  LiveCosts,  \* what a live execution may cost; recorded ones cost nothing
  MaxCost     \* the replay budget (ReplayBudget.max_cost_usd)

ASSUME CostAssumption == LiveCosts \subseteq Nat /\ MaxCost \in Nat

VARIABLES
  fixture,  \* the exported fixture
  replay    \* one call of ReplayEngine.replay

Idle == [phase |-> "idle"]

\* A case before the loop; held are the keys of the effectful modules and the
\* interactions of the current workflow.
Case(w, mode, selected, held) ==
  [phase |-> "live", current |-> w, mode |-> mode, selected |-> selected, held |-> held,
   position |-> 1, comparisons |-> <<>>, cost |-> 0, changed |-> FALSE, attempted |-> FALSE,
   status |-> "NONE"]

Ended(case, status) ==
  [case EXCEPT !.phase = "done", !.status = status]

\* The statuses of a replay that is not refused.
Accepting == {"PASS", "CHANGED", "REPLAY_BUDGET_EXCEEDED"}

-----------------------------------------------------------------------------
AtBoundary == fixture.boundaries[replay.position]

InLoop == replay.phase = "live" /\ replay.position <= Len(fixture.boundaries)

IsSelected == AtBoundary.instance[1] \in replay.selected

\* Effectful modules and interactions are not executed.
IsHeld == AtBoundary.instance[1] \in replay.held

Compared(executed, value, cost) ==
  [replay EXCEPT
    !.position = @ + 1,
    !.comparisons = Append(@, [instance |-> AtBoundary.instance, executed |-> executed,
                               output |-> value]),
    !.cost = @ + cost]

Skip ==
  /\ InLoop /\ ~IsSelected
  /\ replay' = [replay EXCEPT !.position = @ + 1]
  /\ UNCHANGED fixture

Hold ==
  /\ InLoop /\ IsSelected /\ IsHeld
  /\ replay' = Compared(FALSE, AtBoundary.output, 0)
  /\ UNCHANGED fixture

\* What a live handler may do: leave by the exception with which the broker
\* denies an effect, by another one, with a value of another type, or with a
\* result, having tried an effect or not.
Outcomes ==
  [attempts : {TRUE}, leaves : {"denied"}, value : {<<>>}, cost : {0}]
    \cup [attempts : BOOLEAN, leaves : {"raises", "mistyped"}, value : {<<>>}, cost : {0}]
    \cup [attempts : BOOLEAN, leaves : {"returns"}, value : Values, cost : LiveCosts]

\* Mutant: an attempt counts only when its exception reaches the engine.
LiveStatus_Escaped(outcome) ==
  CASE outcome.leaves = "denied" -> "REPLAY_EFFECT_VIOLATION"
    [] outcome.leaves = "raises" -> "REPLAY_LIVE_FAILURE"
    [] outcome.leaves = "mistyped" -> "ERROR"
    [] OTHER -> "NONE"

\* How the replay ends with an outcome; NONE when it goes on.
LiveStatus(outcome) ==
  CASE outcome.leaves = "denied" \/ outcome.attempts -> "REPLAY_EFFECT_VIOLATION"
    [] outcome.leaves = "raises" /\ ~outcome.attempts -> "REPLAY_LIVE_FAILURE"
    [] outcome.leaves = "mistyped" /\ ~outcome.attempts -> "ERROR"
    [] OTHER -> "NONE"

\* behavior_changed of this or an earlier comparison.
BehaviorChanged(outcome) ==
  replay.changed \/ outcome.value # AtBoundary.output \/ outcome.cost > 0

\* The module is executed on its recorded input, and its output and cost are
\* compared with the record.
Live(outcome) ==
  /\ InLoop /\ IsSelected /\ ~IsHeld
  /\ LET status == LiveStatus(outcome)
         tried == replay.attempted \/ outcome.attempts
     IN  replay' = IF status # "NONE"
                   THEN [Ended(replay, status) EXCEPT !.attempted = tried]
                   ELSE [Compared(TRUE, outcome.value, outcome.cost) EXCEPT
                           !.attempted = tried, !.changed = BehaviorChanged(outcome)]
  /\ UNCHANGED fixture

Finish ==
  /\ replay.phase = "live" /\ replay.position > Len(fixture.boundaries)
  /\ replay' = Ended(replay, CASE replay.cost > MaxCost -> "REPLAY_BUDGET_EXCEEDED"
                               [] replay.cost <= MaxCost /\ replay.changed -> "CHANGED"
                               [] OTHER -> "PASS")
  /\ UNCHANGED fixture

Loop ==
  \/ Skip
  \/ Hold
  \/ \E outcome \in Outcomes : Live(outcome)
  \/ Finish

-----------------------------------------------------------------------------
(***************************************************************************)
(* The loop in any surroundings, of which Replay is one.                   *)
(***************************************************************************)

\* A run goes on, or is exported.
Prepare == replay = Idle /\ UNCHANGED replay

\* A case begins: its first state is determined by the case; or it ends before
\* the loop, and a selective one is refused then.
Begin ==
  /\ replay = Idle
  /\ fixture.boundaries \in Seq(ToSet(fixture.boundaries))
  /\ LET case == Case(replay'.current, replay'.mode, replay'.selected, replay'.held)
     IN  \/ replay' = case
         \/ /\ replay' = Ended(case, replay'.status)
            /\ replay'.mode = "selective" => replay'.status \notin Accepting
  /\ UNCHANGED fixture

LoopInit == replay = Idle

LoopSpec == LoopInit /\ [][Prepare \/ Begin \/ Loop]_<<fixture, replay>>

-----------------------------------------------------------------------------
\* The boundaries of the chosen steps, and their comparisons in their order.
Chosen == {i \in DOMAIN fixture.boundaries : fixture.boundaries[i].instance[1] \in replay.selected}

ComparisonOf(i) == replay.comparisons[Cardinality({j \in Chosen : j <= i})]

\* A selective replay that is not refused has looked at every recorded execution
\* of the chosen steps and executed those that are not held; no handler tried an
\* effect, not even one that caught the denial and returned as if nothing had
\* happened; and it passes only when every one of them, not the last alone,
\* returned what was recorded at no higher cost.
PassedAsCompared ==
  replay.phase = "done" /\ replay.mode = "selective" /\ replay.status \in Accepting =>
    LET same == \A i \in Chosen : ComparisonOf(i).output = fixture.boundaries[i].output
    IN  /\ ~replay.attempted
        /\ Len(replay.comparisons) = Cardinality(Chosen)
        /\ \A i \in Chosen :
             LET b == fixture.boundaries[i]
             IN  /\ ComparisonOf(i).instance = b.instance
                 /\ ComparisonOf(i).executed <=> b.instance[1] \notin replay.held
        /\ replay.status = "PASS" => same /\ replay.cost = 0
        /\ replay.status = "CHANGED" => (~same \/ replay.cost > 0) /\ replay.cost <= MaxCost
=============================================================================
