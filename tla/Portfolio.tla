----------------------------- MODULE Portfolio -----------------------------
(***************************************************************************)
(* The projects of the organisations, their goals and the milestones of    *)
(* these (src/platform-store.js).  One project is the default, which is    *)
(* what the public pages show.                                             *)
(***************************************************************************)
EXTENDS Nullable

CONSTANTS
    Projects, Organizations,
    Goals, Milestones,
    Weights,     \* weights of goals and milestones
    MaxWeight    \* MAX_PRACTICAL_WEIGHT

ASSUME PortfolioAssumption ==
    /\ Weights \subseteq Nat \ {0} /\ MaxWeight \in Nat
    /\ IsFiniteSet(Goals) /\ IsFiniteSet(Milestones)
    /\ NULL \notin Organizations \cup Projects \cup Goals

VARIABLES
    projects,    \* projects[p]: NoProject, or the row
    goals,       \* goals[g]: its project and weight
    milestones   \* milestones[m]: its goal and weight

portfolioVars == <<projects, goals, milestones>>

NoProject == [org |-> NULL, published |-> FALSE, archived |-> FALSE, default |-> FALSE]
NoGoal == [project |-> NULL, weight |-> 0]
NoMilestone == [goal |-> NULL, weight |-> 0]

PortfolioInit ==
    /\ projects = [p \in Projects |-> NoProject]
    /\ goals = [g \in Goals |-> NoGoal]
    /\ milestones = [m \in Milestones |-> NoMilestone]

-----------------------------------------------------------------------------
(* Projects.                                                               *)

\* UPDATE projects SET active=0, in the organisation of p only.
DefaultsCleared(rows, p) ==
    [q \in Projects |-> IF q # p /\ rows[q].org = rows[p].org
                        THEN [rows[q] EXCEPT !.default = FALSE] ELSE rows[q]]

\* The unique index projects_single_active is over all organisations: the
\* default of another one makes the statement fail.
OneDefault(rows) == \A p, q \in Projects :
    rows[p].default /\ rows[q].default => p = q

SetProject(p, row) ==
    LET rows == [projects EXCEPT ![p] = row]
    IN  /\ projects' = IF row.default THEN DefaultsCleared(rows, p) ELSE rows
        /\ OneDefault(projects')
        /\ UNCHANGED <<goals, milestones>>

CreateProject(p, org, published, default) ==
    /\ projects[p] = NoProject
    /\ SetProject(p, [org |-> org, published |-> published, archived |-> FALSE,
                      default |-> default])

\* Mutant: only what the request says of the archive is looked at.
NotBeingArchived(archived, isArchived) == archived # TRUE
IsLive(archived, isArchived) == ~isArchived

\* archived is NULL when the request does not mention it; an archived project
\* may be published again.
UpdateProject(p, published, archived, default) ==
    LET isArchived == IF archived = NULL THEN projects[p].archived ELSE archived
        isDefault == IF archived = TRUE THEN FALSE ELSE default
    IN  /\ projects[p] # NoProject
        /\ isDefault => IsLive(archived, isArchived)
        /\ SetProject(p, [org |-> projects[p].org,
                          published |-> published /\ archived # TRUE,
                          archived |-> isArchived, default |-> isDefault])

ArchiveProject(p) ==
    /\ projects[p] # NoProject /\ ~projects[p].archived
    /\ projects' = [projects EXCEPT ![p] =
           [@ EXCEPT !.archived = TRUE, !.published = FALSE, !.default = FALSE]]
    /\ UNCHANGED <<goals, milestones>>

-----------------------------------------------------------------------------
(* Goals and milestones.                                                   *)

Open(p) == projects[p] # NoProject /\ ~projects[p].archived

WeightOf(rows, own) ==
    SumFunctionOnSet([x \in own |-> rows[x].weight], own)

\* createGoal and patchGoal, with assertWeightAggregateCapacity.
SetGoal(g, p, weight) ==
    LET others == {h \in Goals \ {g} : goals[h].project = p}
    IN  /\ Open(p)
        /\ goals[g].project \in {NULL, p}
        /\ weight + WeightOf(goals, others) <= MaxWeight
        /\ goals' = [goals EXCEPT ![g] = [project |-> p, weight |-> weight]]
        /\ UNCHANGED <<projects, milestones>>

\* createMilestone and patchMilestone.
SetMilestone(m, g, weight) ==
    LET others == {n \in Milestones \ {m} : milestones[n].goal = g}
    IN  /\ goals[g] # NoGoal /\ Open(goals[g].project)
        /\ milestones[m].goal \in {NULL, g}
        /\ weight + WeightOf(milestones, others) <= MaxWeight
        /\ milestones' = [milestones EXCEPT ![m] = [goal |-> g, weight |-> weight]]
        /\ UNCHANGED <<projects, goals>>

PortfolioNext ==
    \/ \E p \in Projects :
          \/ \E published, default \in BOOLEAN :
                \/ \E org \in Organizations : CreateProject(p, org, published, default)
                \/ \E archived \in {TRUE, FALSE, NULL} :
                      UpdateProject(p, published, archived, default)
          \/ ArchiveProject(p)
          \/ \E g \in Goals, weight \in Weights : SetGoal(g, p, weight)
    \/ \E m \in Milestones, g \in Goals, weight \in Weights : SetMilestone(m, g, weight)

PortfolioSpec == PortfolioInit /\ [][PortfolioNext]_portfolioVars

-----------------------------------------------------------------------------
(* Properties.                                                             *)

\* updateProject and assertWeightAggregateCapacity: however projects are
\* archived, brought back and made the default, the default is never one that
\* is archived; and weights set one by one never exceed their bound together.
PortfolioSound ==
    /\ \A p \in Projects : projects[p].default => ~projects[p].archived
    /\ \A p \in Projects :
          WeightOf(goals, {g \in Goals : goals[g].project = p}) <= MaxWeight
    /\ \A g \in Goals :
          WeightOf(milestones, {m \in Milestones : milestones[m].goal = g}) <= MaxWeight
=============================================================================
