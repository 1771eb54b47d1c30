------------------------------- MODULE MCWork -------------------------------
(* The work of a project, in parts that share no state but the tasks, and    *)
(* that are explored one at a time.                                          *)
EXTENDS Resourcing, ProjectControls, LegacyFinance, DecisionActions, Portfolio, TLC

CONSTANTS s1, s2, r1, r2, k1, d1

VARIABLE part

Meetings == [r \in Decisions |-> IF r = r1 THEN s1 ELSE s2]

Symmetric == Permutations(Tasks) \cup Permutations(Allocations)
                 \cup Permutations(Assets)

FirstPlan == planVars = <<[p \in Phases |-> NoPhase], [t \in Tasks |-> NoTask],
                          {}, [e \in Entries |-> NoEntry]>>

Planned == {t \in Tasks : tasks[t] # NoTask}
NoTime == timeEntries = [e \in Entries |-> NoEntry]
NoPhases == phases = [p \in Phases |-> NoPhase]

\* Bound: three tasks that have not started, in trees and in one way of waiting.
GraphFocused ==
    /\ NoTime /\ NoPhases
    /\ \A t \in Tasks : tasks[t].status \in {"none", "todo"} \/ tasks[t].archived
    /\ \A d \in dependencies : d.type = "finish_to_start"

\* Bound: two tasks, which wait for one another, or have a parent, or are in
\* phases; a phase whose progress is set by hand has one task.
TasksFocused ==
    LET inPhases == {t \in Tasks : tasks[t].phase # NULL}
        by == {p \in Phases : phases[p].manual \/ phases[p].progress > 0}
    IN  /\ NoTime /\ Cardinality(Planned) <= 2
        /\ dependencies # {} => Parents = {} /\ inPhases = {}
        /\ Parents # {} \/ inPhases # {} =>
              \A t \in Tasks : tasks[t].progress \in {0, 100}
        /\ by # {} => Cardinality(Planned) = 1
        /\ ~NoPhases => dependencies = {}

\* Bound: two tasks that have not started and are in no phase.
TimeFocused ==
    /\ NoPhases /\ dependencies = {} /\ Cardinality(Planned) <= 2
    /\ \A t \in Tasks : tasks[t].status # "in_progress" /\ tasks[t].progress = 0
                        /\ tasks[t].parent = NULL

\* Bound: one task that has not started and one phase, with which one resource
\* is allocated; one of two resources has a capacity of one throughout.
ResourcesFocused ==
    LET used == {a \in Allocations : allocations[a] # NoAllocation}
        others == {r \in Assets : /\ resources[r] # NoResource
                                  /\ \/ resources[r].capacity # 1
                                     \/ resources[r].status = "unavailable"}
        gone == {p \in Phases : phases[p].archived}
    IN  /\ NoTime /\ dependencies = {} /\ Cardinality(Planned) <= 1
        /\ \A t \in Tasks : tasks[t].status \in {"none", "todo"} \/ tasks[t].archived
        /\ \A p \in Phases : phases[p].progress = 0 /\ ~phases[p].manual
                             /\ (phases[p].status = "cancelled" => p \in gone)
        /\ Cardinality(others) <= 1
        /\ Planned \cup gone # {} => others = {} /\ Cardinality(used) <= 1

\* Bound: risks, indicators and budgets, one of them at a time.
ControlsFocused ==
    Cardinality(
        {i \in 1 .. 3 :
            CASE i = 1 -> risks # [r \in Risks |-> NoRisk]
              [] i = 2 -> kpis # [k \in Kpis |-> NoKpi]
              [] i = 3 -> budgets # [v \in Versions |-> NoBudget]}) <= 1

\* Bound: goals are set when there is one project.
PortfolioFocused ==
    goals # [g \in Goals |-> NoGoal] =>
        Cardinality({p \in Projects : projects[p] # NoProject}) = 1

WorkInit ==
    /\ part \in {"graph", "tasks", "time", "resources", "controls", "legacy",
                 "decisions", "portfolio"}
    /\ PlanInit /\ ResourceInit /\ ControlsInit
    /\ LegacyInit /\ DecisionInit /\ PortfolioInit
    \* What only one part looks at starts in one way in the others.
    /\ part # "legacy" => oldEntries = <<>>
    /\ part # "decisions" => duties = [d \in Duties |-> NoDuty]

WorkNext ==
    /\ UNCHANGED part
    /\ \/ /\ \/ part = "graph" /\ PlanNext /\ GraphFocused'
             \/ part = "tasks" /\ PlanNext /\ TasksFocused'
             \/ part = "time" /\ PlanNext /\ TimeFocused'
          /\ UNCHANGED <<resourceVars, controlVars, legacyVars, decisionVars,
                         portfolioVars>>
       \/ /\ part = "resources"
          /\ \/ PlanNext /\ UNCHANGED resourceVars
             \/ ResourceNext /\ UNCHANGED planVars
          /\ ResourcesFocused'
          /\ UNCHANGED <<controlVars, legacyVars, decisionVars, portfolioVars>>
       \/ /\ part = "controls" /\ ControlsNext /\ ControlsFocused'
          /\ UNCHANGED <<planVars, resourceVars, legacyVars, decisionVars,
                         portfolioVars>>
       \/ /\ part = "legacy" /\ LegacyNext
          /\ UNCHANGED <<planVars, resourceVars, controlVars, decisionVars,
                         portfolioVars>>
       \/ /\ part = "decisions" /\ DecisionNext
          /\ UNCHANGED <<planVars, resourceVars, controlVars, legacyVars,
                         portfolioVars>>
       \/ /\ part = "portfolio" /\ PortfolioNext /\ PortfolioFocused'
          /\ UNCHANGED <<planVars, resourceVars, controlVars, legacyVars,
                         decisionVars>>

workVars == <<part, planVars, resourceVars, controlVars, legacyVars,
              decisionVars, portfolioVars>>

WorkSpec == WorkInit /\ [][WorkNext]_workVars
=============================================================================
