------------------------------ MODULE WorkProofs ------------------------------
(***************************************************************************)
(* Proofs about the work of a project: its goals, what has to be done      *)
(* after a meeting, its plan, the resources it takes, and its budgets.     *)
(* These parts share no state but the tasks, and each has an invariant of  *)
(* its own.                                                                *)
(***************************************************************************)
EXTENDS Resourcing, ProjectControls, LegacyFinance, DecisionActions, Portfolio,
        SumTheorems, SequenceTheorems

-----------------------------------------------------------------------------
(* Goals and milestones.                                                   *)

Project == [org : Organizations \cup {NULL}, published : BOOLEAN,
            archived : BOOLEAN, default : BOOLEAN]
Goal == [project : Projects \cup {NULL}, weight : Nat]
Milestone == [goal : Goals \cup {NULL}, weight : Nat]

PortfolioTypeOK ==
    /\ projects \in [Projects -> Project]
    /\ goals \in [Goals -> Goal]
    /\ milestones \in [Milestones -> Milestone]

PortfolioInv == PortfolioTypeOK /\ PortfolioSound

\* assertWeightAggregateCapacity: the weights of a group whose row x is the
\* only one that changes.
LEMMA WeightChanged ==
  ASSUME NEW own, IsFiniteSet(own), NEW old, NEW new, NEW x \in own,
         \A y \in own : new[y].weight \in Nat,
         \A y \in own \ {x} : new[y] = old[y]
  PROVE  WeightOf(new, own) = new[x].weight + WeightOf(old, own \ {x})
<1> DEFINE f == [y \in own |-> new[y].weight]
           g == [y \in own \ {x} |-> old[y].weight]
<1>1. /\ \A y \in own : f[y] \in Int
      /\ \A y \in own \ {x} : f[y] = g[y]
      /\ f[x] = new[x].weight
  OBVIOUS
<1>2. IsFiniteSet(own \ {x})
  BY FS_RemoveElement
<1> HIDE DEF f, g
<1>3. SumFunctionOnSet(f, own) = f[x] + SumFunctionOnSet(f, own \ {x})
  BY <1>1, SumTake
<1>4. SumFunctionOnSet(f, own \ {x}) = SumFunctionOnSet(g, own \ {x})
  BY <1>1, <1>2, SumSame
<1>5. /\ WeightOf(new, own) = SumFunctionOnSet(f, own)
      /\ WeightOf(old, own \ {x}) = SumFunctionOnSet(g, own \ {x})
  BY Zenon DEF WeightOf, f, g
<1>6. QED
  BY <1>1, <1>3, <1>4, <1>5

LEMMA WeightKept ==
  ASSUME NEW own, NEW old, NEW new, \A y \in own : new[y] = old[y]
  PROVE  WeightOf(new, own) = WeightOf(old, own)
<1>1. [y \in own |-> new[y].weight] = [y \in own |-> old[y].weight]
  OBVIOUS
<1>2. QED
  BY <1>1 DEF WeightOf

LEMMA NoWeight == ASSUME NEW rows PROVE WeightOf(rows, {}) = 0
BY SumOfNone DEF WeightOf

\* The rows that are not archived are the only ones that can be the default.
DefaultIsLive(rows) == \A q \in Projects : rows[q].default => ~rows[q].archived

LEMMA SetProjectSound ==
  ASSUME PortfolioInv, NEW p \in Projects, NEW row \in Project,
         row.default => ~row.archived, SetProject(p, row)
  PROVE  PortfolioInv'
<1> DEFINE rows == [projects EXCEPT ![p] = row]
<1>1. /\ rows \in [Projects -> Project]
      /\ DefaultIsLive(rows)
  BY DEF PortfolioInv, PortfolioTypeOK, PortfolioSound, DefaultIsLive
<1>2. ASSUME NEW q \in Projects
      PROVE  /\ [rows[q] EXCEPT !.default = FALSE] \in Project
             /\ [rows[q] EXCEPT !.default = FALSE].default = FALSE
  BY <1>1 DEF Project
<1>3. projects' = DefaultsCleared(rows, p) \/ projects' = rows
  BY DEF SetProject
<1> HIDE DEF rows
<1>4. projects' \in [Projects -> Project] /\ DefaultIsLive(projects')
  BY <1>1, <1>2, <1>3 DEF DefaultsCleared, DefaultIsLive
<1>5. UNCHANGED <<goals, milestones>>
  BY DEF SetProject
<1>6. QED
  BY <1>4, <1>5 DEF PortfolioInv, PortfolioTypeOK, PortfolioSound, DefaultIsLive,
                    WeightOf

LEMMA ProjectsStaySound ==
  ASSUME PortfolioInv, NEW p \in Projects, NEW published \in BOOLEAN,
         NEW default \in BOOLEAN
  PROVE  /\ \A org \in Organizations :
               CreateProject(p, org, published, default) => PortfolioInv'
         /\ \A archived \in {TRUE, FALSE, NULL} :
               UpdateProject(p, published, archived, default) => PortfolioInv'
         /\ ArchiveProject(p) => PortfolioInv'
<1>1. projects \in [Projects -> Project]
  BY DEF PortfolioInv, PortfolioTypeOK
<1>2. ASSUME NEW org \in Organizations, CreateProject(p, org, published, default)
      PROVE  PortfolioInv'
  <2> DEFINE row == [org |-> org, published |-> published, archived |-> FALSE,
                     default |-> default]
  <2>1. row \in Project /\ (row.default => ~row.archived)
    BY DEF Project
  <2>2. SetProject(p, row)
    BY <1>2 DEF CreateProject
  <2>3. QED
    BY <2>1, <2>2, SetProjectSound
<1>3. ASSUME NEW archived \in {TRUE, FALSE, NULL},
             UpdateProject(p, published, archived, default)
      PROVE  PortfolioInv'
  <2> DEFINE isArchived == IF archived = NULL THEN projects[p].archived ELSE archived
             isDefault == IF archived = TRUE THEN FALSE ELSE default
             open == published /\ archived # TRUE
             row == [org |-> projects[p].org, published |-> open,
                     archived |-> isArchived, default |-> isDefault]
  <2>1. SetProject(p, row) /\ (isDefault => IsLive(archived, isArchived))
    BY <1>3 DEF UpdateProject
  <2>2. isArchived \in BOOLEAN /\ isDefault \in BOOLEAN /\ open \in BOOLEAN
    <3>1. projects[p].archived \in BOOLEAN
      BY <1>1 DEF Project
    <3>2. CASE archived = NULL
      BY <3>1, <3>2
    <3>3. CASE archived # NULL
      <4>1. archived \in BOOLEAN
        BY <3>3
      <4>2. QED
        BY <3>3, <4>1
    <3>4. QED
      BY <3>2, <3>3
  <2>3. isDefault => ~isArchived
    BY <2>1 DEF IsLive
  <2>4. projects[p].org \in Organizations \cup {NULL}
    BY <1>1 DEF Project
  <2> HIDE DEF isArchived, isDefault, open
  <2>5. row \in Project /\ (row.default => ~row.archived)
    BY <2>2, <2>3, <2>4 DEF Project
  <2>6. QED
    BY <2>1, <2>5, SetProjectSound
<1>4. ASSUME ArchiveProject(p) PROVE PortfolioInv'
  <2> DEFINE row == [projects[p] EXCEPT !.archived = TRUE, !.published = FALSE,
                                        !.default = FALSE]
  <2>1. row \in Project /\ row.default = FALSE
    BY <1>1 DEF Project
  <2>2. projects' = [projects EXCEPT ![p] = row] /\ UNCHANGED <<goals, milestones>>
    BY <1>4 DEF ArchiveProject
  <2> HIDE DEF row
  <2>3. projects' \in [Projects -> Project] /\ DefaultIsLive(projects')
    BY <2>1, <2>2, <1>1 DEF DefaultIsLive, PortfolioInv, PortfolioSound
  <2>4. QED
    BY <2>2, <2>3 DEF PortfolioInv, PortfolioTypeOK, PortfolioSound,
                      DefaultIsLive, WeightOf
<1>5. QED
  BY <1>2, <1>3, <1>4

LEMMA SetGoalSound ==
  ASSUME PortfolioInv, NEW g \in Goals, NEW p \in Projects,
         NEW weight \in Weights, SetGoal(g, p, weight)
  PROVE  PortfolioInv'
<1>1. /\ goals \in [Goals -> Goal] /\ projects \in [Projects -> Project]
      /\ milestones \in [Milestones -> Milestone]
      /\ weight \in Nat /\ MaxWeight \in Nat /\ IsFiniteSet(Goals)
      /\ NULL \notin Projects
  BY PortfolioAssumption DEF PortfolioInv, PortfolioTypeOK
<1>2. /\ goals' = [goals EXCEPT ![g] = [project |-> p, weight |-> weight]]
      /\ goals[g].project \in {NULL, p}
      /\ UNCHANGED <<projects, milestones>>
      /\ weight + WeightOf(goals, {h \in Goals \ {g} : goals[h].project = p})
             <= MaxWeight
  BY DEF SetGoal
<1>3. goals' \in [Goals -> Goal]
  BY <1>1, <1>2 DEF Goal
<1>4. ASSUME NEW q \in Projects
      PROVE  WeightOf(goals', {h \in Goals : goals'[h].project = q}) <= MaxWeight
  <2> DEFINE own == {h \in Goals : goals'[h].project = q}
             before == {h \in Goals : goals[h].project = q}
  <2>1. CASE q = p
    <3>1. own \ {g} = {h \in Goals \ {g} : goals[h].project = p}
      BY <2>1, <1>1, <1>2
    <3>2. /\ g \in own /\ goals'[g].weight = weight
          /\ \A h \in own : goals'[h].weight \in Nat
          /\ \A h \in own \ {g} : goals'[h] = goals[h]
      BY <2>1, <1>1, <1>2, <1>3 DEF Goal
    <3>3. IsFiniteSet(own)
      BY <1>1, FS_Subset
    <3> HIDE DEF own
    <3>4. WeightOf(goals', own) = weight + WeightOf(goals, own \ {g})
      BY <3>2, <3>3, WeightChanged
    <3>5. WeightOf(goals', own) <= MaxWeight
      BY <3>1, <3>4, <1>2
    <3>6. QED
      BY <3>5 DEF own
  <2>2. CASE q # p
    <3>1. own = before /\ \A h \in own : goals'[h] = goals[h]
      BY <2>2, <1>1, <1>2
    <3>2. WeightOf(goals, before) <= MaxWeight
      BY DEF PortfolioInv, PortfolioSound
    <3> HIDE DEF own, before
    <3>3. WeightOf(goals', own) = WeightOf(goals, before)
      BY <3>1, WeightKept
    <3>4. QED
      BY <3>2, <3>3 DEF own
  <2>3. QED
    BY <2>1, <2>2
<1>5. /\ \A q \in Projects : projects'[q].default => ~projects'[q].archived
      /\ \A h \in Goals :
            WeightOf(milestones', {n \in Milestones : milestones'[n].goal = h})
                <= MaxWeight
  BY <1>2 DEF PortfolioInv, PortfolioSound
<1>6. PortfolioTypeOK'
  BY <1>1, <1>2, <1>3 DEF PortfolioTypeOK
<1>7. QED
  BY <1>4, <1>5, <1>6 DEF PortfolioInv, PortfolioSound

LEMMA SetMilestoneSound ==
  ASSUME PortfolioInv, NEW m \in Milestones, NEW g \in Goals,
         NEW weight \in Weights, SetMilestone(m, g, weight)
  PROVE  PortfolioInv'
<1>1. /\ goals \in [Goals -> Goal] /\ projects \in [Projects -> Project]
      /\ milestones \in [Milestones -> Milestone]
      /\ weight \in Nat /\ MaxWeight \in Nat /\ IsFiniteSet(Milestones)
      /\ NULL \notin Goals
  BY PortfolioAssumption DEF PortfolioInv, PortfolioTypeOK
<1>2. /\ milestones' = [milestones EXCEPT ![m] = [goal |-> g, weight |-> weight]]
      /\ milestones[m].goal \in {NULL, g}
      /\ UNCHANGED <<projects, goals>>
      /\ weight + WeightOf(milestones, {n \in Milestones \ {m} :
                                           milestones[n].goal = g}) <= MaxWeight
  BY DEF SetMilestone
<1>3. milestones' \in [Milestones -> Milestone]
  BY <1>1, <1>2 DEF Milestone
<1>4. ASSUME NEW q \in Goals
      PROVE  WeightOf(milestones', {n \in Milestones : milestones'[n].goal = q})
                 <= MaxWeight
  <2> DEFINE own == {n \in Milestones : milestones'[n].goal = q}
             before == {n \in Milestones : milestones[n].goal = q}
  <2>1. CASE q = g
    <3>1. own \ {m} = {n \in Milestones \ {m} : milestones[n].goal = g}
      BY <2>1, <1>1, <1>2
    <3>2. /\ m \in own /\ milestones'[m].weight = weight
          /\ \A n \in own : milestones'[n].weight \in Nat
          /\ \A n \in own \ {m} : milestones'[n] = milestones[n]
      BY <2>1, <1>1, <1>2, <1>3 DEF Milestone
    <3>3. IsFiniteSet(own)
      BY <1>1, FS_Subset
    <3> HIDE DEF own
    <3>4. WeightOf(milestones', own) = weight + WeightOf(milestones, own \ {m})
      BY <3>2, <3>3, WeightChanged
    <3>5. WeightOf(milestones', own) <= MaxWeight
      BY <3>1, <3>4, <1>2
    <3>6. QED
      BY <3>5 DEF own
  <2>2. CASE q # g
    <3>1. own = before /\ \A n \in own : milestones'[n] = milestones[n]
      BY <2>2, <1>1, <1>2
    <3>2. WeightOf(milestones, before) <= MaxWeight
      BY DEF PortfolioInv, PortfolioSound
    <3> HIDE DEF own, before
    <3>3. WeightOf(milestones', own) = WeightOf(milestones, before)
      BY <3>1, WeightKept
    <3>4. QED
      BY <3>2, <3>3 DEF own
  <2>3. QED
    BY <2>1, <2>2
<1>5. /\ \A q \in Projects : projects'[q].default => ~projects'[q].archived
      /\ \A q \in Projects :
            WeightOf(goals', {h \in Goals : goals'[h].project = q}) <= MaxWeight
  BY <1>2 DEF PortfolioInv, PortfolioSound
<1>6. PortfolioTypeOK'
  BY <1>1, <1>2, <1>3 DEF PortfolioTypeOK
<1>7. QED
  BY <1>4, <1>5, <1>6 DEF PortfolioInv, PortfolioSound

LEMMA PortfolioStarts == ASSUME PortfolioInit PROVE PortfolioInv
<1>1. /\ projects \in [Projects -> Project]
      /\ \A p \in Projects : projects[p].default = FALSE
      /\ goals = [g \in Goals |-> NoGoal]
      /\ milestones = [m \in Milestones |-> NoMilestone]
  BY DEF PortfolioInit, Project, NoProject
<1>2. /\ goals \in [Goals -> Goal] /\ \A g \in Goals : goals[g].project = NULL
      /\ milestones \in [Milestones -> Milestone]
      /\ \A m \in Milestones : milestones[m].goal = NULL
  BY <1>1 DEF NoGoal, NoMilestone, Goal, Milestone
<1>3. MaxWeight \in Nat /\ NULL \notin Projects \cup Goals
  BY PortfolioAssumption
<1>4. ASSUME NEW p \in Projects
      PROVE  WeightOf(goals, {g \in Goals : goals[g].project = p}) <= MaxWeight
  <2>1. {g \in Goals : goals[g].project = p} = {}
    BY <1>2, <1>3
  <2>2. QED
    BY <2>1, <1>3, NoWeight
<1>5. ASSUME NEW g \in Goals
      PROVE  WeightOf(milestones, {m \in Milestones : milestones[m].goal = g})
                 <= MaxWeight
  <2>1. {m \in Milestones : milestones[m].goal = g} = {}
    BY <1>2, <1>3
  <2>2. QED
    BY <2>1, <1>3, NoWeight
<1>6. QED
  BY <1>1, <1>2, <1>4, <1>5 DEF PortfolioInv, PortfolioTypeOK, PortfolioSound

\* The default project is never an archived one, and the weights of the goals
\* of a project, and of the milestones of a goal, stay within their bound,
\* for any number of them.
THEOREM PortfolioIsSound == PortfolioSpec => []PortfolioSound
<1>1. PortfolioInit => PortfolioInv
  BY PortfolioStarts
<1>2. PortfolioInv /\ [PortfolioNext]_portfolioVars => PortfolioInv'
  <2> SUFFICES ASSUME PortfolioInv, [PortfolioNext]_portfolioVars
               PROVE  PortfolioInv'
    OBVIOUS
  <2>1. CASE UNCHANGED portfolioVars
    BY <2>1 DEF portfolioVars, PortfolioInv, PortfolioTypeOK, PortfolioSound,
                WeightOf
  <2>2. CASE PortfolioNext
    BY <2>2, ProjectsStaySound, SetGoalSound, SetMilestoneSound, Zenon
    DEF PortfolioNext
  <2>3. QED
    BY <2>1, <2>2
<1>3. PortfolioInv => PortfolioSound
  BY DEF PortfolioInv
<1>4. QED
  BY <1>1, <1>2, <1>3, PTL DEF PortfolioSpec
-----------------------------------------------------------------------------
(* What has to be done after a meeting.                                    *)

Duty == [status : {"open", "in_progress", "done", "cancelled"},
         workflow : Workflow, title : Titles, assignee : Assignees \cup {NULL},
         sitting : Sittings \cup {NULL}, decision : Decisions \cup {NULL},
         stamps : SUBSET Workflow]

Change == [from : Workflow \cup {NULL}, to : Workflow]

DecisionTypeOK ==
    /\ duties \in [Duties -> Duty \cup {NoDuty}]
    /\ record \in [Duties -> Seq(Change)]
    /\ available \subseteq Assignees
    /\ upToDate \in BOOLEAN

\* What one row and its history say together, as in OneStory.
StoryOf(row, rows) ==
    /\ row.status = physicalStatus(row.workflow)
    /\ row.stamps \subseteq {row.workflow}
    /\ \A i \in 2 .. Len(rows) : rows[i].from = rows[i - 1].to
    /\ rows # <<>> =>
          /\ rows[Len(rows)].to = row.workflow
          /\ row.workflow \in {"blocked", "cancelled", "completed"} =>
                \/ row.workflow \in row.stamps
                \/ \A i \in DOMAIN rows : rows[i].from = row.workflow
    /\ row.decision # NULL => row.sitting = SittingOf[row.decision]

\* Before the database is opened by this version nothing is in the newer
\* column and nothing in the history.
IsOld(row) ==
    /\ row.workflow = "open" /\ row.stamps = {} /\ row.decision = NULL

DecisionInv ==
    /\ DecisionTypeOK
    /\ \A d \in Duties : duties[d] = NoDuty => record[d] = <<>>
    /\ ~upToDate => \A d \in Duties :
          record[d] = <<>> /\ (duties[d] # NoDuty => IsOld(duties[d]))
    /\ upToDate => \A d \in Duties :
          duties[d] # NoDuty => StoryOf(duties[d], record[d])

LEMMA StoryIsOne == ASSUME DecisionInv PROVE OneStory
BY DEF DecisionInv, OneStory, StoryOf

\* Another row is written to the history, and it starts where the last ended.
LEMMA StoryGoesOn ==
  ASSUME NEW rows \in Seq(Change), NEW change \in Change, NEW row, NEW new,
         StoryOf(row, rows), change.to = new.workflow,
         rows = <<>> \/ change.from = row.workflow,
         new.status = physicalStatus(new.workflow),
         new.stamps \subseteq {new.workflow},
         new.workflow \in {"blocked", "cancelled", "completed"} =>
            \/ new.workflow \in new.stamps
            \/ /\ new.workflow = change.from
               /\ rows # <<>> => new.workflow = row.workflow
                                 /\ new.stamps = row.stamps,
         new.decision # NULL => new.sitting = SittingOf[new.decision]
  PROVE  StoryOf(new, Append(rows, change))
<1> DEFINE more == Append(rows, change)
<1>1. /\ Len(more) = Len(rows) + 1 /\ Len(rows) \in Nat
      /\ more[Len(rows) + 1] = change
      /\ \A i \in 1 .. Len(rows) : more[i] = rows[i]
      /\ DOMAIN more = 1 .. Len(rows) + 1 /\ more # <<>>
      /\ rows # <<>> => Len(rows) >= 1
      /\ DOMAIN rows = 1 .. Len(rows)
  BY EmptySeq, AppendProperties
<1> HIDE DEF more
<1>2. ASSUME NEW i \in 2 .. Len(more) PROVE more[i].from = more[i - 1].to
  <2>1. CASE i <= Len(rows)
    <3>1. i \in 1 .. Len(rows) /\ i - 1 \in 1 .. Len(rows) /\ i \in 2 .. Len(rows)
      BY <1>1, <2>1
    <3>2. QED
      BY <3>1, <1>1 DEF StoryOf
  <2>2. CASE i = Len(rows) + 1
    <3>1. rows # <<>> /\ i - 1 = Len(rows) /\ Len(rows) \in 1 .. Len(rows)
      BY <2>2, <1>1
    <3>2. more[i - 1].to = row.workflow
      BY <3>1, <1>1 DEF StoryOf
    <3>3. QED
      BY <3>1, <3>2, <2>2, <1>1
  <2>3. QED
    BY <2>1, <2>2, <1>1
<1>3. ASSUME new.workflow \in {"blocked", "cancelled", "completed"},
             new.workflow \notin new.stamps
      PROVE  \A i \in DOMAIN more : more[i].from = new.workflow
  <2>1. \A i \in 1 .. Len(rows) : rows[i].from = new.workflow
    <3>1. CASE rows = <<>>
      BY <3>1
    <3>2. CASE rows # <<>>
      <4>1. /\ new.workflow = row.workflow /\ new.stamps = row.stamps
        BY <1>3, <3>2
      <4>2. \A i \in DOMAIN rows : rows[i].from = row.workflow
        BY <1>3, <3>2, <4>1, Zenon DEF StoryOf
      <4>3. QED
        BY <4>1, <4>2, <1>1
    <3>3. QED
      BY <3>1, <3>2
  <2>2. QED
    BY <2>1, <1>1, <1>3
<1>4. more[Len(more)].to = new.workflow
  BY <1>1
<1>5. StoryOf(new, more)
  BY <1>2, <1>3, <1>4, Zenon DEF StoryOf
<1>6. QED
  BY <1>5 DEF more

LEMMA OpenDatabaseSound ==
  ASSUME DecisionInv, OpenDatabase
  PROVE  DecisionInv'
<1>1. /\ duties \in [Duties -> Duty \cup {NoDuty}]
      /\ record \in [Duties -> Seq(Change)]
      /\ upToDate \in BOOLEAN
      /\ upToDate' = TRUE /\ UNCHANGED <<record, available>>
      /\ duties' = [d \in Duties |-> Upgraded(d)]
  BY DEF OpenDatabase, DecisionInv, DecisionTypeOK
<1>2. ASSUME NEW d \in Duties
      PROVE  /\ Upgraded(d) \in Duty \cup {NoDuty}
             /\ Upgraded(d) = NoDuty => record[d] = <<>>
             /\ Upgraded(d) # NoDuty => StoryOf(Upgraded(d), record[d])
  <2>1. CASE duties[d] = NoDuty
    <3>1. Upgraded(d) = NoDuty
      BY <2>1 DEF Upgraded, NoDuty
    <3>2. QED
      BY <2>1, <3>1 DEF DecisionInv
  <2>2. CASE duties[d] # NoDuty /\ duties[d].workflow = "open" /\ record[d] = <<>>
    <3> DEFINE row == duties[d]
               new == [row EXCEPT !.workflow = FromPhysical(row.status)]
    <3>1. row \in Duty /\ Upgraded(d) = new
      BY <1>1, <2>2 DEF Upgraded
    <3>2. row.stamps = {} \/ row.status = "open"
      BY <2>2, <1>1 DEF DecisionInv, IsOld, StoryOf, physicalStatus
    <3>3. row.decision = NULL \/ row.sitting = SittingOf[row.decision]
      BY <2>2, <1>1 DEF DecisionInv, IsOld, StoryOf
    <3>4. row.stamps \subseteq {row.workflow} \/ row.stamps = {}
      BY <2>2, <1>1 DEF DecisionInv, IsOld, StoryOf
    <3> HIDE DEF row
    <3>5. /\ new \in Duty /\ new.status = row.status /\ new.stamps = row.stamps
          /\ new.decision = row.decision /\ new.sitting = row.sitting
          /\ new.workflow = FromPhysical(row.status)
          /\ row.status = physicalStatus(FromPhysical(row.status))
      BY <3>1 DEF Duty, FromPhysical, Workflow, physicalStatus
    <3>6. new.stamps \subseteq {new.workflow}
      BY <3>2, <3>4, <3>5, <2>2 DEF FromPhysical, row
    <3> HIDE DEF new
    <3>7. StoryOf(new, <<>>)
      BY <3>3, <3>5, <3>6 DEF StoryOf
    <3>8. new # NoDuty
      BY <3>5 DEF Duty, NoDuty
    <3>9. QED
      BY <2>2, <3>1, <3>5, <3>7, <3>8
  <2>3. CASE duties[d] # NoDuty /\ ~(duties[d].workflow = "open" /\ record[d] = <<>>)
    <3>1. Upgraded(d) = duties[d]
      BY <2>3 DEF Upgraded
    <3>2. upToDate
      BY <2>3 DEF DecisionInv, IsOld
    <3>3. QED
      BY <1>1, <2>3, <3>1, <3>2 DEF DecisionInv
  <2>4. QED
    BY <2>1, <2>2, <2>3
<1>3. QED
  BY <1>1, <1>2 DEF DecisionInv, DecisionTypeOK

\* A row and its history are written together, and the others stay.
LEMMA RowWritten ==
  ASSUME DecisionInv, upToDate, NEW d \in Duties, NEW row \in Duty,
         NEW change \in Change,
         duties' = [duties EXCEPT ![d] = row],
         record' = [record EXCEPT ![d] = Append(@, change)],
         UNCHANGED <<available, upToDate>>,
         StoryOf(row, Append(record[d], change))
  PROVE  DecisionInv'
<1>1. /\ duties \in [Duties -> Duty \cup {NoDuty}]
      /\ record \in [Duties -> Seq(Change)]
  BY DEF DecisionInv, DecisionTypeOK
<1>2. Append(record[d], change) \in Seq(Change)
  BY <1>1, AppendProperties
<1>3. row # NoDuty
  BY DEF Duty, NoDuty, Workflow
<1>4. DecisionTypeOK'
  BY <1>1, <1>2 DEF DecisionTypeOK, DecisionInv
<1>5. ASSUME NEW e \in Duties, e # d
      PROVE  duties'[e] = duties[e] /\ record'[e] = record[e]
  BY <1>1, <1>5
<1>6. duties'[d] = row /\ record'[d] = Append(record[d], change)
  BY <1>1
<1>7. \A e \in Duties : duties'[e] = NoDuty => record'[e] = <<>>
  BY <1>3, <1>5, <1>6 DEF DecisionInv
<1>8. \A e \in Duties : duties'[e] # NoDuty => StoryOf(duties'[e], record'[e])
  BY <1>5, <1>6, Zenon DEF DecisionInv
<1>9. QED
  BY <1>4, <1>7, <1>8, Zenon DEF DecisionInv

LEMMA DutyCreated ==
  ASSUME DecisionInv, NEW d \in Duties, NEW title \in Titles,
         NEW user \in Assignees \cup {NULL}, NEW sitting \in Sittings \cup {NULL},
         NEW decision \in Decisions \cup {NULL},
         Create(d, title, user, sitting, decision)
  PROVE  DecisionInv'
<1> DEFINE at == IF decision = NULL THEN sitting ELSE SittingOf[decision]
           row == [status |-> "open", workflow |-> "open", title |-> title,
                   assignee |-> user, sitting |-> at, decision |-> decision,
                   stamps |-> {}]
           change == [from |-> NULL, to |-> "open"]
<1>1. /\ upToDate /\ duties[d] = NoDuty
      /\ duties' = [duties EXCEPT ![d] = row]
      /\ record' = [record EXCEPT ![d] = Append(@, change)]
      /\ UNCHANGED <<available, upToDate>>
  BY DEF Create, Note
<1>2. at \in Sittings \cup {NULL}
  BY DecisionAssumption
<1>3. decision # NULL => at = SittingOf[decision]
  OBVIOUS
<1> HIDE DEF at
<1>4. row \in Duty /\ change \in Change
  BY <1>2 DEF Duty, Change, Workflow
<1>5. record[d] = <<>>
  BY <1>1 DEF DecisionInv
<1>6. Append(record[d], change) = <<change>>
  BY <1>5
<1>7. StoryOf(row, <<change>>)
  BY <1>3 DEF StoryOf, physicalStatus
<1> HIDE DEF row, change
<1>8. QED
  BY <1>1, <1>4, <1>6, <1>7, RowWritten

LEMMA DutyPatched ==
  ASSUME DecisionInv, NEW d \in Duties, NEW title \in Titles,
         NEW user \in Assignees \cup {NULL}, Patch(d, title, user)
  PROVE  DecisionInv'
<1> DEFINE old == duties[d]
           row == [old EXCEPT !.title = title, !.assignee = user]
           change == [from |-> old.workflow, to |-> old.workflow]
<1>1. /\ upToDate /\ old # NoDuty
      /\ duties' = [duties EXCEPT ![d] = row]
      /\ record' = [record EXCEPT ![d] = Append(@, change)]
      /\ UNCHANGED <<available, upToDate>>
  BY DEF Patch, Note
<1>2. /\ old \in Duty /\ record[d] \in Seq(Change)
      /\ StoryOf(old, record[d])
  BY <1>1 DEF DecisionInv, DecisionTypeOK
<1> HIDE DEF old
<1>3. /\ row \in Duty /\ change \in Change /\ change.from = old.workflow
      /\ change.to = row.workflow /\ row.workflow = old.workflow
      /\ row.status = old.status /\ row.stamps = old.stamps
      /\ row.decision = old.decision /\ row.sitting = old.sitting
  BY <1>2 DEF Duty, Change
<1> HIDE DEF row, change
<1>4. StoryOf(row, Append(record[d], change))
  <2>1. /\ row.status = physicalStatus(row.workflow)
        /\ row.stamps \subseteq {row.workflow}
        /\ row.decision # NULL => row.sitting = SittingOf[row.decision]
    BY <1>2, <1>3 DEF StoryOf
  <2>2. QED
    BY <2>1, <1>2, <1>3, StoryGoesOn
<1>5. QED
  BY <1>1, <1>3, <1>4, RowWritten

LEMMA DutyMoved ==
  ASSUME DecisionInv, NEW d \in Duties, NEW to \in Workflow, Transition(d, to)
  PROVE  DecisionInv'
<1> DEFINE old == duties[d]
           stamps == Stamps(old.stamps, old.workflow, to)
           row == [old EXCEPT !.status = physicalStatus(to), !.workflow = to,
                              !.stamps = stamps]
           change == [from |-> old.workflow, to |-> to]
<1>1. /\ upToDate /\ old # NoDuty
      /\ duties' = [duties EXCEPT ![d] = row]
      /\ record' = [record EXCEPT ![d] = Append(@, change)]
      /\ UNCHANGED <<available, upToDate>>
  BY DEF Transition, Note
<1>2. /\ old \in Duty /\ record[d] \in Seq(Change)
      /\ StoryOf(old, record[d])
  BY <1>1 DEF DecisionInv, DecisionTypeOK
<1> HIDE DEF old
<1>3. /\ stamps \subseteq {to}
      /\ to \in {"blocked", "cancelled", "completed"} => to \in stamps
      /\ stamps \in SUBSET Workflow
  BY <1>2 DEF StoryOf, Stamps, Workflow
<1>4. physicalStatus(to) \in {"open", "in_progress", "done", "cancelled"}
  BY DEF physicalStatus, Workflow
<1> HIDE DEF stamps
<1>5. /\ row \in Duty /\ change \in Change /\ change.from = old.workflow
      /\ change.to = to /\ row.workflow = to /\ row.status = physicalStatus(to)
      /\ row.stamps = stamps
      /\ row.decision = old.decision /\ row.sitting = old.sitting
  BY <1>2, <1>3, <1>4 DEF Duty, Change
<1> HIDE DEF row, change
<1>6. StoryOf(row, Append(record[d], change))
  <2>1. row.decision # NULL => row.sitting = SittingOf[row.decision]
    BY <1>2, <1>5 DEF StoryOf
  <2>2. QED
    BY <2>1, <1>2, <1>3, <1>5, StoryGoesOn
<1>7. QED
  BY <1>1, <1>5, <1>6, RowWritten

LEMMA DecisionStarts == ASSUME DecisionInit PROVE DecisionInv
<1>1. /\ record = [d \in Duties |-> <<>>] /\ available = Assignees
      /\ upToDate = FALSE
  BY DEF DecisionInit
<1>2. ASSUME NEW title \in Titles, NEW row \in OldDuty(title)
      PROVE  row \in Duty /\ IsOld(row)
  <2>1. PICK status \in {"open", "in_progress", "done", "cancelled"} :
           row = [NoDuty EXCEPT !.status = status, !.workflow = "open",
                                !.title = title]
    BY DEF OldDuty
  <2>2. row = [status |-> status, workflow |-> "open", title |-> title,
               assignee |-> NULL, sitting |-> NULL, decision |-> NULL,
               stamps |-> {}]
    BY <2>1 DEF NoDuty
  <2>3. QED
    BY <2>2 DEF Duty, IsOld, Workflow
<1>3. /\ duties \in [Duties -> Duty \cup {NoDuty}]
      /\ \A d \in Duties : duties[d] # NoDuty => IsOld(duties[d])
  <2>1. CASE duties = [d \in Duties |-> NoDuty]
    BY <2>1
  <2>2. ASSUME NEW first \in Duties, NEW row \in UNION {OldDuty(x) : x \in Titles},
               duties = [d \in Duties |-> IF d = first THEN row ELSE NoDuty]
        PROVE  <1>3!1 /\ <1>3!2
    BY <1>2, <2>2
  <2>3. QED
    BY <2>1, <2>2 DEF DecisionInit
<1>4. record \in [Duties -> Seq(Change)]
  BY <1>1, EmptySeq
<1>5. QED
  BY <1>1, <1>3, <1>4 DEF DecisionInv, DecisionTypeOK

\* The two columns, the times and the history of an action tell one story,
\* also of the actions an older version has left, for any length of history.
THEOREM StoryIsKept == DecisionSpec => []OneStory
<1>1. DecisionInit => DecisionInv
  BY DecisionStarts
<1>2. DecisionInv /\ [DecisionNext]_decisionVars => DecisionInv'
  <2> SUFFICES ASSUME DecisionInv, [DecisionNext]_decisionVars
               PROVE  DecisionInv'
    OBVIOUS
  <2>1. CASE UNCHANGED decisionVars
    BY <2>1, Zenon DEF decisionVars, DecisionInv, DecisionTypeOK
  <2>2. ASSUME NEW user \in Assignees, AssigneesChange(user)
        PROVE  DecisionInv'
    <3>1. available' \subseteq Assignees /\ UNCHANGED <<duties, record, upToDate>>
      BY <2>2 DEF AssigneesChange, DecisionInv, DecisionTypeOK
    <3>2. QED
      BY <3>1, Zenon DEF DecisionInv, DecisionTypeOK
  <2>3. CASE DecisionNext
    BY <2>2, <2>3, OpenDatabaseSound, DutyCreated, DutyPatched, DutyMoved, Zenon
    DEF DecisionNext
  <2>4. QED
    BY <2>1, <2>3
<1>3. DecisionInv => OneStory
  BY StoryIsOne
<1>4. QED
  BY <1>1, <1>2, <1>3, PTL DEF DecisionSpec
-----------------------------------------------------------------------------
(* Relations without a cycle.                                              *)

LEMMA AcyclicLess ==
  ASSUME NEW D, NEW R, NEW Q, Acyclic(R, D), Q \subseteq R
  PROVE  Acyclic(Q, D)
BY DEF Acyclic

LEMMA FromIsClosed ==
  ASSUME NEW D, NEW R \in SUBSET (D \X D), NEW b \in D
  PROVE  /\ b \in From(R, b, D)
         /\ \A x \in From(R, b, D), y \in D : <<x, y>> \in R => y \in From(R, b, D)
<1>1. b \in From(R, b, D)
  BY DEF From
<1>2. ASSUME NEW x \in From(R, b, D), NEW y \in D, <<x, y>> \in R
      PROVE  y \in From(R, b, D)
  <2>1. ASSUME NEW S \in SUBSET D, b \in S, Leads(R, S) PROVE y \in S
    <3>1. x \in S
      BY <1>2, <2>1 DEF From
    <3>2. QED
      BY <3>1, <1>2, <2>1 DEF Leads
  <2>2. QED
    BY <2>1 DEF From
<1>3. QED
  BY <1>1, <1>2

\* dependencyWouldCycle and its like: an edge from a to b makes no cycle when a
\* is not among what b leads to.
LEMMA AcyclicMore ==
  ASSUME NEW D, NEW R \in SUBSET (D \X D), Acyclic(R, D), NEW a \in D, NEW b \in D,
         a \notin From(R, b, D), NEW Q, Q \subseteq R \cup {<<a, b>>}
  PROVE  Acyclic(Q, D)
<1> DEFINE F == From(R, b, D)
<1> SUFFICES ASSUME NEW S \in SUBSET D, S # {}
             PROVE  \E x \in S : \A y \in S : <<x, y>> \notin Q
  BY DEF Acyclic
<1>1. /\ b \in F /\ a \notin F /\ F \subseteq D
      /\ \A x \in F, y \in D : <<x, y>> \in R => y \in F
  BY FromIsClosed DEF From
<1> HIDE DEF F
<1>2. CASE S \cap F # {}
  <2>1. PICK x \in S \cap F : \A y \in S \cap F : <<x, y>> \notin R
    BY <1>1, <1>2 DEF Acyclic
  <2>2. ASSUME NEW y \in S PROVE <<x, y>> \notin Q
    <3>1. <<x, y>> \notin R
      BY <2>1, <1>1
    <3>2. x # a
      BY <1>1
    <3>3. QED
      BY <3>1, <3>2
  <2>3. QED
    BY <2>2
<1>3. CASE S \cap F = {}
  <2>1. PICK x \in S : \A y \in S : <<x, y>> \notin R
    BY DEF Acyclic
  <2>2. b \notin S
    BY <1>1, <1>3
  <2>3. \A y \in S : <<x, y>> \notin Q
    BY <2>1, <2>2
  <2>4. QED
    BY <2>3
<1>4. QED
  BY <1>2, <1>3

-----------------------------------------------------------------------------
(* The plan.                                                               *)

Phase == [status : PhaseStatuses \cup {"none"}, archived : BOOLEAN,
          manual : BOOLEAN, progress : 0 .. 100]
Task == [status : TaskStatuses \cup {"none"}, phase : Phases \cup {NULL},
         parent : Tasks \cup {NULL}, progress : 0 .. 100, started : BOOLEAN,
         completed : BOOLEAN, archived : BOOLEAN, minutes : Nat]
TimeEntry == [task : Tasks \cup {NULL}, minutes : Nat]

PlanTypeOK ==
    /\ phases \in [Phases -> Phase]
    /\ tasks \in [Tasks -> Task]
    /\ dependencies \subseteq Dependency
    /\ timeEntries \in [Entries -> TimeEntry]

PlanInv == PlanTypeOK /\ PlanSound

LEMMA PlanConstants ==
  /\ \A n \in Percents : n \in 0 .. 100
  /\ \A n \in Minutes : n \in Nat
  /\ NULL \notin Phases /\ NULL \notin Tasks
  /\ IsFiniteSet(Entries)
BY PlanAssumption

\* A pair of Parents is a task and the parent in its row.
ParentsIn(rows) == {<<t, rows[t].parent>> : t \in {t \in Tasks : rows[t].parent # NULL}}

LEMMA ParentsAre ==
  /\ Parents = ParentsIn(tasks)
  /\ Parents' = ParentsIn(tasks')
BY DEF Parents, ParentsIn

LEMMA ParentsArePairs ==
  ASSUME NEW rows \in [Tasks -> Task]
  PROVE  ParentsIn(rows) \in SUBSET (Tasks \X Tasks)
<1>1. ASSUME NEW t \in Tasks, rows[t].parent # NULL PROVE rows[t].parent \in Tasks
  BY <1>1 DEF Task
<1>2. QED
  BY <1>1 DEF ParentsIn

LEMMA MinutesAreNat ==
  ASSUME NEW rows \in [Entries -> TimeEntry], NEW t
  PROVE  MinutesOn(rows, t) \in Nat
<1> DEFINE own(e) == IF rows[e].task = t THEN rows[e].minutes ELSE 0
           f == [e \in Entries |-> own(e)]
<1>1. \A e \in Entries : f[e] \in Nat
  BY DEF TimeEntry
<1>2. MinutesOn(rows, t) = SumFunctionOnSet(f, Entries)
  BY DEF MinutesOn
<1> HIDE DEF f
<1>3. QED
  BY <1>1, <1>2, SumIsNat, PlanConstants

\* One row of a task is written; its minutes stay, and its parent stays or is
\* one that it does not lead to.
LEMMA TaskWritten ==
  ASSUME PlanInv, NEW t \in Tasks, NEW row \in Task,
         tasks' = [tasks EXCEPT ![t] = row],
         phases' \in [Phases -> Phase], dependencies' \subseteq dependencies,
         timeEntries' = timeEntries,
         row.minutes = tasks[t].minutes,
         \/ row.parent \in {NULL, tasks[t].parent}
         \/ row.parent \in Tasks /\ t \notin After(Parents, row.parent)
  PROVE  PlanInv'
<1>1. /\ tasks \in [Tasks -> Task] /\ dependencies \subseteq Dependency
      /\ timeEntries \in [Entries -> TimeEntry]
      /\ Acyclic(Parents, Tasks) /\ Acyclic(Waits(dependencies), Tasks)
      /\ \A u \in Tasks : tasks[u].minutes = MinutesOn(timeEntries, u)
  BY DEF PlanInv, PlanTypeOK, PlanSound, NothingWaitsForItself, MinutesAddUp
<1>2. tasks' \in [Tasks -> Task]
  BY <1>1
<1>3. Acyclic(Waits(dependencies'), Tasks)
  <2>1. Waits(dependencies') \subseteq Waits(dependencies)
    BY DEF Waits
  <2>2. QED
    BY <2>1, <1>1, AcyclicLess
<1>4. Acyclic(Parents', Tasks)
  <2>1. Parents \in SUBSET (Tasks \X Tasks)
    BY <1>1, ParentsAre, ParentsArePairs
  <2>2. CASE row.parent \in {NULL, tasks[t].parent}
    <3>1. ParentsIn(tasks') \subseteq ParentsIn(tasks)
      BY <1>1, <2>2 DEF ParentsIn
    <3>2. QED
      BY <3>1, <1>1, ParentsAre, AcyclicLess
  <2>3. CASE row.parent \in Tasks /\ t \notin After(Parents, row.parent)
    <3>1. ParentsIn(tasks') \subseteq ParentsIn(tasks) \cup {<<t, row.parent>>}
      BY <1>1 DEF ParentsIn
    <3>2. QED
      BY <3>1, <2>1, <2>3, <1>1, ParentsAre, AcyclicMore DEF After
  <2>4. QED
    BY <2>2, <2>3
<1>5. \A u \in Tasks : tasks'[u].minutes = MinutesOn(timeEntries', u)
  BY <1>1
<1>6. QED
  BY <1>1, <1>2, <1>3, <1>4, <1>5
  DEF PlanInv, PlanTypeOK, PlanSound, NothingWaitsForItself, MinutesAddUp

LEMMA PhasesSound ==
  ASSUME PlanInv, NEW p \in Phases, NEW status \in PhaseStatuses,
         NEW manual \in BOOLEAN, NEW n \in Percents,
         \/ CreatePhase(p, status, manual, n) \/ PatchPhase(p, status, manual, n)
         \/ ArchivePhase(p)
  PROVE  PlanInv'
<1>1. phases \in [Phases -> Phase]
  BY DEF PlanInv, PlanTypeOK
<1>2. UNCHANGED <<tasks, dependencies, timeEntries>>
  BY DEF CreatePhase, PatchPhase, ArchivePhase
<1>3. PICK row : row = phases[p]
  OBVIOUS
<1>4. row \in Phase
  BY <1>1, <1>3
<1>5. phases' \in [Phases -> Phase]
  <2>1. CASE CreatePhase(p, status, manual, n)
    <3>1. [NoPhase EXCEPT !.status = status, !.manual = manual,
                          !.progress = n] \in Phase
      BY PlanConstants DEF NoPhase, Phase
    <3>2. QED
      BY <3>1, <2>1, <1>1 DEF CreatePhase
  <2>2. CASE PatchPhase(p, status, manual, n)
    <3>1. [row EXCEPT !.status = status, !.manual = manual,
                      !.progress = n] \in Phase
      BY <1>4, PlanConstants DEF Phase
    <3>2. phases' = [phases EXCEPT ![p] = [row EXCEPT !.status = status,
                         !.manual = manual, !.progress = n]]
      BY <2>2, <1>3 DEF PatchPhase
    <3>3. QED
      BY <3>1, <3>2, <1>1
  <2>3. CASE ArchivePhase(p)
    <3>1. [row EXCEPT !.status = "cancelled", !.archived = TRUE] \in Phase
      BY <1>4 DEF Phase, PhaseStatuses
    <3>2. phases' = [phases EXCEPT ![p] =
                        [row EXCEPT !.status = "cancelled", !.archived = TRUE]]
      BY <2>3, <1>3 DEF ArchivePhase
    <3>3. QED
      BY <3>1, <3>2, <1>1
  <2>4. QED
    BY <2>1, <2>2, <2>3
<1>6. Parents' = Parents
  BY <1>2, ParentsAre
<1>7. QED
  BY <1>2, <1>5, <1>6
  DEF PlanInv, PlanTypeOK, PlanSound, NothingWaitsForItself, MinutesAddUp

LEMMA CreateTaskSound ==
  ASSUME PlanInv, NEW t \in Tasks, NEW phase \in Phases \cup {NULL},
         NEW parent \in Tasks \cup {NULL}, NEW status \in TaskStatuses,
         NEW n \in Percents, CreateTask(t, phase, parent, status, n)
  PROVE  PlanInv'
<1> DEFINE chosen == IF phase = NULL /\ parent # NULL THEN tasks[parent].phase
                                                      ELSE phase
           begun == status \in {"in_progress", "done"}
           ended == status = "done"
           row == [status |-> status, phase |-> chosen, parent |-> parent,
                   progress |-> ProgressOf(status, n), started |-> begun,
                   completed |-> ended, archived |-> FALSE, minutes |-> 0]
<1>1. tasks \in [Tasks -> Task] /\ phases \in [Phases -> Phase]
  BY DEF PlanInv, PlanTypeOK
<1>2. /\ tasks[t] = NoTask /\ ParentFits(t, parent, chosen)
      /\ tasks' = [tasks EXCEPT ![t] = row]
      /\ UNCHANGED <<phases, dependencies, timeEntries>>
  BY DEF CreateTask
<1>3. chosen \in Phases \cup {NULL} /\ begun \in BOOLEAN /\ ended \in BOOLEAN
  BY <1>1 DEF Task
<1>4. ProgressOf(status, n) \in 0 .. 100
  BY PlanConstants DEF ProgressOf
<1>5. parent # NULL => parent \in Tasks /\ t \notin After(Parents, parent)
  BY <1>2 DEF ParentFits
<1> HIDE DEF chosen, begun, ended
<1>6. row \in Task /\ row.minutes = 0 /\ row.parent = parent
  BY <1>3, <1>4 DEF Task
<1>7. tasks[t].minutes = 0
  BY <1>2 DEF NoTask
<1> HIDE DEF row
<1>8. QED
  BY <1>1, <1>2, <1>5, <1>6, <1>7, TaskWritten

\* What PatchTask makes of a row, and that what the task waits for lets it start
\* or finish when it does.
PatchMakes(t, parent, new) ==
    /\ tasks' = [tasks EXCEPT ![t] = new]
    /\ new.parent = parent /\ new.minutes = tasks[t].minutes
    /\ Allowed(dependencies, t, ~Started(tasks[t]) /\ Started(new),
               tasks[t].status # "done" /\ new.status = "done")

LEMMA PatchTaskIs ==
  ASSUME PlanInv, NEW t \in Tasks, NEW phase \in Phases \cup {NULL},
         NEW parent \in Tasks \cup {NULL}, NEW status \in TaskStatuses,
         NEW n \in Percents, PatchTask(t, phase, parent, status, n)
  PROVE  \E new \in Task : PatchMakes(t, parent, new)
<1> DEFINE reached == ProgressOf(status, n)
           row == tasks[t]
           starting == ~Started(row) /\
                       (status \in {"in_progress", "done"} \/ reached > 0)
           begun == row.started \/ starting
           ended == status = "done" \/ (row.status # "done" /\ row.completed)
           s == [row EXCEPT !.phase = phase, !.parent = parent,
                            !.status = status, !.progress = reached]
           new == [s EXCEPT !.started = begun, !.completed = ended]
<1>1. row \in Task /\ tasks \in [Tasks -> Task]
  BY DEF PlanInv, PlanTypeOK
<1>2. reached \in 0 .. 100
  BY PlanConstants DEF ProgressOf
<1>3. begun \in BOOLEAN /\ ended \in BOOLEAN
  BY <1>1 DEF Task
<1>4. /\ tasks' = [tasks EXCEPT
               ![t].phase = phase, ![t].parent = parent,
               ![t].status = status, ![t].progress = reached,
               ![t].started = @ \/ starting,
               ![t].completed = status = "done" \/ (row.status # "done" /\ @)]
      /\ Allowed(dependencies, t, starting, row.status # "done" /\ status = "done")
  BY Zenon DEF PatchTask
<1> HIDE DEF reached
<1>5. tasks' = [tasks EXCEPT ![t] = new]
  BY <1>1, <1>4
<1> HIDE DEF row
<1>6. /\ s \in Task /\ s.parent = parent /\ s.minutes = row.minutes
      /\ s.status = status /\ s.progress = reached
  BY <1>1, <1>2 DEF Task
<1> HIDE DEF s, begun, ended
<1>7. new \in Task
  BY <1>3, <1>6 DEF Task
<1>8. /\ new.parent = s.parent /\ new.minutes = s.minutes
      /\ new.status = s.status /\ new.progress = s.progress
      /\ new.started = begun
  BY <1>3, <1>6 DEF Task
<1> HIDE DEF new, starting
<1>9. starting <=> ~Started(row) /\ Started(new)
  <2>1. Started(new) <=>
           begun \/ status \in {"in_progress", "done"} \/ reached > 0
    BY <1>6, <1>8 DEF Started
  <2>2. row.started => Started(row)
    BY DEF Started
  <2>3. QED
    BY <2>1, <2>2, Zenon DEF starting, begun
<1>10. Allowed(dependencies, t, ~Started(row) /\ Started(new),
               row.status # "done" /\ new.status = "done")
  <2>1. starting = (~Started(row) /\ Started(new))
    BY <1>9, Zenon DEF starting
  <2>2. new.status = status
    BY <1>6, <1>8
  <2>3. QED
    BY <1>4, <2>1, <2>2, Zenon
<1>11. QED
  BY <1>5, <1>6, <1>7, <1>8, <1>10, Zenon DEF row, PatchMakes

LEMMA PatchTaskSound ==
  ASSUME PlanInv, NEW t \in Tasks, NEW phase \in Phases \cup {NULL},
         NEW parent \in Tasks \cup {NULL}, NEW status \in TaskStatuses,
         NEW n \in Percents, PatchTask(t, phase, parent, status, n)
  PROVE  PlanInv'
<1>1. PICK new \in Task : PatchMakes(t, parent, new)
  BY PatchTaskIs, Zenon
<1>2. UNCHANGED <<phases, dependencies, timeEntries>> /\ ParentFits(t, parent, phase)
  BY DEF PatchTask
<1>3. parent # NULL => parent \in Tasks /\ t \notin After(Parents, parent)
  BY <1>2 DEF ParentFits
<1>4. phases \in [Phases -> Phase]
  BY DEF PlanInv, PlanTypeOK
<1>5. QED
  BY <1>1, <1>2, <1>3, <1>4, TaskWritten DEF PatchMakes

LEMMA ArchiveTaskSound ==
  ASSUME PlanInv, NEW t \in Tasks, ArchiveTask(t)
  PROVE  PlanInv'
<1> DEFINE old == tasks[t]
           row == [old EXCEPT !.status = "cancelled", !.archived = TRUE]
<1>1. /\ tasks' = [tasks EXCEPT ![t] = row]
      /\ dependencies' \subseteq dependencies
      /\ UNCHANGED <<phases, timeEntries>>
  BY DEF ArchiveTask
<1>2. old \in Task /\ phases \in [Phases -> Phase]
  BY DEF PlanInv, PlanTypeOK
<1> HIDE DEF old
<1>3. row \in Task /\ row.parent = old.parent /\ row.minutes = old.minutes
  BY <1>2 DEF Task, TaskStatuses
<1> HIDE DEF row
<1>4. QED
  BY <1>1, <1>2, <1>3, TaskWritten DEF old

LEMMA DependenciesSound ==
  ASSUME PlanInv, NEW d \in Dependency, AddDependency(d) \/ RemoveDependency(d)
  PROVE  PlanInv'
<1>1. /\ dependencies \subseteq Dependency
      /\ Acyclic(Waits(dependencies), Tasks)
  BY DEF PlanInv, PlanTypeOK, PlanSound, NothingWaitsForItself
<1>2. UNCHANGED <<phases, tasks, timeEntries>>
  BY DEF AddDependency, RemoveDependency
<1>3. dependencies' \subseteq Dependency /\ Acyclic(Waits(dependencies'), Tasks)
  <2>1. CASE AddDependency(d)
    <3>1. /\ d.task \in Tasks /\ d.on \in Tasks
          /\ d.task \notin From(Waits(dependencies), d.on, Tasks)
          /\ dependencies' = dependencies \cup {d}
      BY <2>1 DEF AddDependency, Dependency, After
    <3>2. Waits(dependencies') \subseteq Waits(dependencies) \cup {<<d.task, d.on>>}
      BY <3>1 DEF Waits
    <3>3. Waits(dependencies) \in SUBSET (Tasks \X Tasks)
      BY <1>1 DEF Waits, Dependency
    <3>4. Acyclic(Waits(dependencies'), Tasks)
      BY <1>1, <3>1, <3>2, <3>3, AcyclicMore
    <3>5. QED
      BY <1>1, <3>1, <3>4
  <2>2. CASE RemoveDependency(d)
    <3>1. dependencies' \subseteq dependencies
      BY <2>2 DEF RemoveDependency
    <3>2. Waits(dependencies') \subseteq Waits(dependencies)
      BY <3>1 DEF Waits
    <3>3. QED
      BY <1>1, <3>1, <3>2, AcyclicLess
  <2>3. QED
    BY <2>1, <2>2
<1>4. Parents' = Parents
  BY <1>2, ParentsAre
<1>5. QED
  BY <1>2, <1>3, <1>4
  DEF PlanInv, PlanTypeOK, PlanSound, NothingWaitsForItself, MinutesAddUp

\* recomputeTaskActualMinutes: a task that the entry neither leaves nor comes
\* to has the minutes it had.
LEMMA MinutesElsewhere ==
  ASSUME NEW rows \in [Entries -> TimeEntry], NEW e \in Entries,
         NEW row \in TimeEntry, NEW t, t # rows[e].task, t # row.task
  PROVE  MinutesOn([rows EXCEPT ![e] = row], t) = MinutesOn(rows, t)
<1> DEFINE new == [rows EXCEPT ![e] = row]
           before(x) == IF rows[x].task = t THEN rows[x].minutes ELSE 0
           after(x) == IF new[x].task = t THEN new[x].minutes ELSE 0
<1>1. \A x \in Entries : after(x) = before(x)
  OBVIOUS
<1>2. [x \in Entries |-> after(x)] = [x \in Entries |-> before(x)]
  BY <1>1
<1>3. QED
  BY <1>2 DEF MinutesOn

LEMMA SetEntrySound ==
  ASSUME PlanInv, NEW e \in Entries, NEW row \in TimeEntry, SetEntry(e, row)
  PROVE  PlanInv'
<1>1. /\ tasks \in [Tasks -> Task] /\ timeEntries \in [Entries -> TimeEntry]
      /\ \A t \in Tasks : tasks[t].minutes = MinutesOn(timeEntries, t)
  BY DEF PlanInv, PlanTypeOK, PlanSound, MinutesAddUp
<1>2. /\ timeEntries' = [timeEntries EXCEPT ![e] = row]
      /\ tasks' = [t \in Tasks |->
             IF t \in Recount(timeEntries[e].task, row.task)
             THEN [tasks[t] EXCEPT !.minutes = MinutesOn(timeEntries', t)]
             ELSE tasks[t]]
      /\ UNCHANGED <<phases, dependencies>>
  BY DEF SetEntry
<1>3. timeEntries' \in [Entries -> TimeEntry]
  BY <1>1, <1>2
<1>4. ASSUME NEW t \in Tasks
      PROVE  /\ tasks'[t] \in Task /\ tasks'[t].parent = tasks[t].parent
             /\ tasks'[t].minutes = MinutesOn(timeEntries', t)
  <2> DEFINE n == MinutesOn(timeEntries', t)
             old == tasks[t]
  <2>1. n \in Nat /\ old \in Task
    BY <1>1, <1>3, MinutesAreNat
  <2>2. CASE t \in Recount(timeEntries[e].task, row.task)
    <3>1. tasks'[t] = [old EXCEPT !.minutes = n]
      BY <1>2, <2>2
    <3> HIDE DEF n, old
    <3>2. tasks'[t] \in Task /\ tasks'[t].parent = old.parent
          /\ tasks'[t].minutes = n
      BY <2>1, <3>1 DEF Task
    <3>3. QED
      BY <3>2 DEF n, old
  <2>3. CASE t \notin Recount(timeEntries[e].task, row.task)
    <3>1. tasks'[t] = old
      BY <1>2, <2>3
    <3>2. t # timeEntries[e].task /\ t # row.task
      BY <2>3, PlanConstants DEF Recount
    <3>3. n = MinutesOn(timeEntries, t)
      BY <3>2, <1>1, <1>2, MinutesElsewhere
    <3>4. QED
      BY <3>1, <3>3, <2>1, <1>1
  <2>4. QED
    BY <2>2, <2>3
<1>5. tasks' \in [Tasks -> Task]
  BY <1>2, <1>4
<1>6. Parents' = Parents
  <2>1. ParentsIn(tasks') = ParentsIn(tasks)
    BY <1>4 DEF ParentsIn
  <2>2. QED
    BY <2>1, ParentsAre
<1>7. QED
  BY <1>2, <1>3, <1>4, <1>5, <1>6
  DEF PlanInv, PlanTypeOK, PlanSound, NothingWaitsForItself, MinutesAddUp

LEMMA TimeSound ==
  ASSUME PlanInv, NEW e \in Entries
  PROVE  /\ \A t \in Tasks, n \in Minutes :
               CreateTimeEntry(e, t, n) \/ PatchTimeEntry(e, t, n) => PlanInv'
         /\ DeleteTimeEntry(e) => PlanInv'
<1>1. ASSUME NEW t \in Tasks, NEW n \in Minutes,
             CreateTimeEntry(e, t, n) \/ PatchTimeEntry(e, t, n)
      PROVE  PlanInv'
  <2>1. [task |-> t, minutes |-> n] \in TimeEntry
    BY PlanConstants DEF TimeEntry
  <2>2. QED
    BY <1>1, <2>1, SetEntrySound DEF CreateTimeEntry, PatchTimeEntry
<1>2. ASSUME DeleteTimeEntry(e) PROVE PlanInv'
  <2>1. NoEntry \in TimeEntry
    BY DEF NoEntry, TimeEntry
  <2>2. QED
    BY <1>2, <2>1, SetEntrySound DEF DeleteTimeEntry
<1>3. QED
  BY <1>1, <1>2

\* What a report makes of a row: a task starts only when there is progress, and
\* is done only when there is all of it.
LEMMA ReportedIs ==
  ASSUME NEW row \in Task, NEW progress \in 0 .. 100,
         NEW new, new = Reported(row, progress)
  PROVE  /\ new \in Task /\ new.parent = row.parent /\ new.minutes = row.minutes
         /\ new.status = "done" => row.status = "done" \/ progress = 100
         /\ Started(new) => Started(row) \/ progress > 0
<1> DEFINE status == CASE progress = 100 -> "done"
                       [] progress > 0 /\ row.status = "todo" -> "in_progress"
                       [] OTHER -> row.status
           begun == row.started \/ progress > 0
           ended == progress = 100 \/ (row.status # "done" /\ row.completed)
           s == [row EXCEPT !.progress = progress, !.status = status]
<1>1. new = [s EXCEPT !.started = begun, !.completed = ended]
  BY DEF Reported, Task
<1>2. /\ status \in TaskStatuses \cup {"none"}
      /\ status = "done" => row.status = "done" \/ progress = 100
      /\ status = "in_progress" => row.status = "in_progress" \/ progress > 0
  BY DEF Task, TaskStatuses
<1>3. begun \in BOOLEAN /\ ended \in BOOLEAN
  BY DEF Task
<1> HIDE DEF status
<1>4. /\ s \in Task /\ s.parent = row.parent /\ s.minutes = row.minutes
      /\ s.status = status /\ s.progress = progress
  BY <1>2 DEF Task
<1> HIDE DEF s, begun, ended
<1>5. new \in Task
  BY <1>1, <1>3, <1>4 DEF Task
<1>6. /\ new.parent = s.parent /\ new.minutes = s.minutes
      /\ new.status = s.status /\ new.progress = s.progress
      /\ new.started = begun
  BY <1>1, <1>4 DEF Task
<1>7. Started(new) => Started(row) \/ progress > 0
  <2>1. CASE progress > 0
    BY <2>1
  <2>2. CASE ~(progress > 0)
    <3>1. new.started = row.started /\ ~(progress = 100)
      BY <2>2, <1>6 DEF begun, Task
    <3>2. new.status \in {"in_progress", "done"} => row.status = new.status
      BY <2>2, <3>1, <1>2, <1>4, <1>6
    <3>3. ~(new.progress > 0)
      BY <2>2, <1>4, <1>6
    <3>4. QED
      BY <3>1, <3>2, <3>3, Zenon DEF Started
  <2>3. QED
    BY <2>1, <2>2
<1>8. QED
  BY <1>2, <1>4, <1>5, <1>6, <1>7

LEMMA ReportSound ==
  ASSUME PlanInv, NEW phase \in Phases \cup {NULL}, NEW t \in Tasks \cup {NULL},
         NEW n \in Percents, CreateProgressUpdate(phase, t, n)
  PROVE  PlanInv'
<1>1. /\ tasks \in [Tasks -> Task] /\ phases \in [Phases -> Phase]
      /\ n \in 0 .. 100
  BY PlanConstants DEF PlanInv, PlanTypeOK
<1>2. UNCHANGED <<dependencies, timeEntries>>
  BY DEF CreateProgressUpdate
<1>3. CASE t = NULL
  <2>1. tasks' = tasks /\ phase \in Phases
    BY <1>3 DEF CreateProgressUpdate
  <2>2. PICK row : row = phases[phase]
    OBVIOUS
  <2>3. phases' \in {phases, [phases EXCEPT ![phase] = [row EXCEPT !.progress = n]]}
    BY <1>3, <2>2 DEF CreateProgressUpdate
  <2>4. [row EXCEPT !.progress = n] \in Phase
    BY <1>1, <2>1, <2>2 DEF Phase
  <2>5. phases' \in [Phases -> Phase]
    BY <1>1, <2>1, <2>3, <2>4
  <2>6. Parents' = Parents
    BY <2>1, ParentsAre
  <2>7. QED
    BY <1>2, <2>1, <2>5, <2>6
    DEF PlanInv, PlanTypeOK, PlanSound, NothingWaitsForItself, MinutesAddUp
<1>4. CASE t # NULL
  <2> DEFINE row == Reported(tasks[t], n)
  <2>1. tasks' = [tasks EXCEPT ![t] = row] /\ phases' = phases /\ t \in Tasks
    BY <1>4 DEF CreateProgressUpdate
  <2>2. row \in Task /\ row.parent = tasks[t].parent /\ row.minutes = tasks[t].minutes
    BY <1>1, <2>1, ReportedIs
  <2> HIDE DEF row
  <2>3. QED
    BY <1>1, <1>2, <2>1, <2>2, TaskWritten
<1>5. QED
  BY <1>3, <1>4

LEMMA PlanStarts == ASSUME PlanInit PROVE PlanInv
<1>1. /\ phases \in [Phases -> Phase] /\ tasks \in [Tasks -> Task]
      /\ dependencies = {}
      /\ timeEntries \in [Entries -> TimeEntry]
      /\ \A t \in Tasks : tasks[t].parent = NULL /\ tasks[t].minutes = 0
      /\ \A e \in Entries : timeEntries[e].task = NULL
  BY DEF PlanInit, Phase, Task, TimeEntry, NoPhase, NoTask, NoEntry
<1>2. ParentsIn(tasks) = {} /\ Waits(dependencies) = {}
  BY <1>1 DEF ParentsIn, Waits
<1>3. Acyclic({}, Tasks)
  <2>1. ASSUME NEW S \in SUBSET Tasks, S # {}
        PROVE  \E x \in S : \A y \in S : <<x, y>> \notin {}
    BY <2>1
  <2>2. QED
    BY <2>1 DEF Acyclic
<1>4. ASSUME NEW t \in Tasks PROVE MinutesOn(timeEntries, t) = 0
  <2> DEFINE own(e) == IF timeEntries[e].task = t THEN timeEntries[e].minutes ELSE 0
             f == [e \in Entries |-> own(e)]
  <2>1. \A e \in Entries : f[e] = 0
    BY <1>1, PlanConstants
  <2>2. MinutesOn(timeEntries, t) = SumFunctionOnSet(f, Entries)
    BY DEF MinutesOn
  <2> HIDE DEF f
  <2>3. QED
    BY <2>1, <2>2, PlanConstants, SumOfZeros
<1>5. QED
  BY <1>1, <1>2, <1>3, <1>4, ParentsAre
  DEF PlanInv, PlanTypeOK, PlanSound, NothingWaitsForItself, MinutesAddUp

LEMMA PlanStays ==
  ASSUME PlanInv, [PlanNext]_planVars
  PROVE  PlanInv'
<1>1. CASE UNCHANGED planVars
  <2>1. UNCHANGED <<phases, tasks, dependencies, timeEntries>>
    BY <1>1 DEF planVars
  <2>2. Parents' = Parents
    BY <2>1, ParentsAre
  <2>3. QED
    BY <2>1, <2>2
    DEF PlanInv, PlanTypeOK, PlanSound, NothingWaitsForItself, MinutesAddUp
<1>2. ASSUME NEW p \in Phases, ArchivePhase(p) PROVE PlanInv'
  <2>1. "planned" \in PhaseStatuses /\ TRUE \in BOOLEAN /\ 0 \in Percents
    BY PlanAssumption DEF PhaseStatuses
  <2>2. QED
    BY <1>2, <2>1, PhasesSound, Zenon
<1>3. CASE PlanNext
  BY <1>2, <1>3, PhasesSound, CreateTaskSound, PatchTaskSound, ArchiveTaskSound,
     DependenciesSound, TimeSound, ReportSound, Zenon
  DEF PlanNext
<1>4. QED
  BY <1>1, <1>3

\* No task comes to wait for itself or to be among its own ancestors, and the
\* minutes of each are those of its entries, for any number of tasks.
THEOREM PlanIsSound == PlanSpec => []PlanSound
<1>1. PlanInit => PlanInv
  BY PlanStarts
<1>2. PlanInv /\ [PlanNext]_planVars => PlanInv'
  BY PlanStays
<1>3. PlanInv => PlanSound
  BY DEF PlanInv
<1>4. QED
  BY <1>1, <1>2, <1>3, PTL DEF PlanSpec
\* What StartedInOrder says of one task and one step.
InOrder(t) ==
    Allowed(dependencies, t, ~Started(tasks[t]) /\ Started(tasks'[t]),
            tasks[t].status # "done" /\ tasks'[t].status = "done")

\* Less is asked of a task that does less.
LEMMA AllowsLess ==
  ASSUME NEW d \in Dependency, NEW s \in BOOLEAN, NEW f \in BOOLEAN,
         NEW starting \in BOOLEAN, NEW finishing \in BOOLEAN,
         Allows(d, starting, finishing) \/ (~s /\ ~f),
         s => starting, f => finishing
  PROVE  Allows(d, s, f)
<1>1. CASE d.type = "finish_to_start"
  BY <1>1, Zenon DEF Allows
<1>2. CASE d.type = "start_to_start"
  BY <1>2 DEF Allows
<1>3. CASE d.type = "finish_to_finish"
  BY <1>3 DEF Allows
<1>4. CASE d.type = "start_to_finish"
  BY <1>4 DEF Allows
<1>5. QED
  BY <1>1, <1>2, <1>3, <1>4 DEF Dependency, DependencyTypes

\* A task that neither starts nor finishes is held up by nothing.
LEMMA IdleInOrder ==
  ASSUME PlanInv, NEW t \in Tasks,
         Started(tasks'[t]) => Started(tasks[t]),
         tasks'[t].status = "done" => tasks[t].status = "done"
  PROVE  InOrder(t)
<1> DEFINE s == ~Started(tasks[t]) /\ Started(tasks'[t])
           f == tasks[t].status # "done" /\ tasks'[t].status = "done"
<1>1. ~s /\ ~f /\ s \in BOOLEAN /\ f \in BOOLEAN
  OBVIOUS
<1>2. dependencies \subseteq Dependency
  BY DEF PlanInv, PlanTypeOK
<1> HIDE DEF s, f
<1>3. \A d \in dependencies : Allows(d, s, f)
  BY <1>1, <1>2, AllowsLess
<1>4. Allowed(dependencies, t, s, f)
  BY <1>3 DEF Allowed
<1>5. QED
  BY <1>4 DEF InOrder, s, f

\* One row is written, and what its task waits for allows what it does.
LEMMA WrittenInOrder ==
  ASSUME PlanInv, NEW t \in Tasks, NEW row, tasks' = [tasks EXCEPT ![t] = row],
         Allowed(dependencies, t, ~Started(tasks[t]) /\ Started(row),
                 tasks[t].status # "done" /\ row.status = "done")
  PROVE  \A u \in Tasks : InOrder(u)
<1>1. tasks \in [Tasks -> Task]
  BY DEF PlanInv, PlanTypeOK
<1>2. tasks'[t] = row /\ \A u \in Tasks \ {t} : tasks'[u] = tasks[u]
  BY <1>1
<1>3. InOrder(t)
  BY <1>2, Zenon DEF InOrder
<1>4. \A u \in Tasks \ {t} : InOrder(u)
  BY <1>2, IdleInOrder
<1>5. QED
  BY <1>3, <1>4

LEMMA TasksInOrder ==
  ASSUME PlanInv, NEW t \in Tasks, NEW phase \in Phases \cup {NULL},
         NEW parent \in Tasks \cup {NULL}, NEW status \in TaskStatuses,
         NEW n \in Percents
  PROVE  /\ PatchTask(t, phase, parent, status, n) => \A u \in Tasks : InOrder(u)
         /\ CreateTask(t, phase, parent, status, n) =>
               \A u \in Tasks : tasks[u] # NoTask => InOrder(u)
         /\ ArchiveTask(t) => \A u \in Tasks : InOrder(u)
<1>1. ASSUME PatchTask(t, phase, parent, status, n)
      PROVE  \A u \in Tasks : InOrder(u)
  <2>1. PICK new \in Task : PatchMakes(t, parent, new)
    BY <1>1, PatchTaskIs, Zenon
  <2>2. QED
    BY <2>1, WrittenInOrder DEF PatchMakes
<1>2. ASSUME CreateTask(t, phase, parent, status, n), NEW u \in Tasks,
             tasks[u] # NoTask
      PROVE  InOrder(u)
  <2>1. tasks \in [Tasks -> Task] /\ u # t
    BY <1>2 DEF CreateTask, PlanInv, PlanTypeOK
  <2>2. tasks'[u] = tasks[u]
    BY <1>2, <2>1 DEF CreateTask
  <2>3. QED
    BY <2>2, IdleInOrder
<1>3. ASSUME ArchiveTask(t), NEW u \in Tasks PROVE InOrder(u)
  <2> DEFINE old == tasks[t]
             row == [old EXCEPT !.status = "cancelled", !.archived = TRUE]
  <2>1. tasks' = [tasks EXCEPT ![t] = row]
    BY <1>3 DEF ArchiveTask
  <2>2. tasks \in [Tasks -> Task] /\ old \in Task
    BY DEF PlanInv, PlanTypeOK
  <2>3. CASE u = t
    <3> HIDE DEF old
    <3>1. /\ row.status = "cancelled" /\ row.started = old.started
          /\ row.progress = old.progress
      BY <2>2 DEF Task
    <3>2. tasks'[u] = row /\ tasks[u] = old
      BY <2>1, <2>2, <2>3 DEF old
    <3>3. Started(tasks'[u]) => Started(tasks[u])
      BY <3>1, <3>2 DEF Started
    <3>4. QED
      BY <3>1, <3>2, <3>3, IdleInOrder
  <2>4. CASE u # t
    <3>1. tasks'[u] = tasks[u]
      BY <2>1, <2>2, <2>4
    <3>2. QED
      BY <3>1, IdleInOrder
  <2>5. QED
    BY <2>3, <2>4
<1>4. QED
  BY <1>1, <1>2, <1>3

LEMMA EntryInOrder ==
  ASSUME PlanInv, NEW e \in Entries, NEW row, SetEntry(e, row)
  PROVE  \A t \in Tasks : InOrder(t)
<1> SUFFICES ASSUME NEW t \in Tasks PROVE InOrder(t)
  OBVIOUS
<1> DEFINE old == tasks[t]
           n == MinutesOn(timeEntries', t)
<1>1. tasks'[t] \in {old, [old EXCEPT !.minutes = n]} /\ old \in Task
  BY DEF SetEntry, PlanInv, PlanTypeOK
<1> HIDE DEF old, n
<1>2. /\ tasks'[t].status = old.status /\ tasks'[t].started = old.started
      /\ tasks'[t].progress = old.progress
  BY <1>1 DEF Task
<1>3. Started(tasks'[t]) => Started(old)
  BY <1>2 DEF Started
<1>4. QED
  BY <1>2, <1>3, IdleInOrder DEF old

LEMMA ReportInOrder ==
  ASSUME PlanInv, NEW phase \in Phases \cup {NULL}, NEW t \in Tasks \cup {NULL},
         NEW n \in Percents, CreateProgressUpdate(phase, t, n)
  PROVE  \A u \in Tasks : InOrder(u)
<1>1. CASE t = NULL
  <2>1. tasks' = tasks
    BY <1>1 DEF CreateProgressUpdate
  <2>2. QED
    BY <2>1, IdleInOrder
<1>2. CASE t # NULL
  <2> DEFINE row == Reported(tasks[t], n)
             s == ~Started(tasks[t]) /\ Started(row)
             f == tasks[t].status # "done" /\ row.status = "done"
             starting == ~Started(tasks[t]) /\ n > 0
             finishing == tasks[t].status # "done" /\ n = 100
  <2>1. /\ tasks' = [tasks EXCEPT ![t] = row] /\ t \in Tasks
        /\ Allowed(dependencies, t, starting, finishing)
    BY <1>2 DEF CreateProgressUpdate, ReportAllowed
  <2>2. /\ tasks[t] \in Task /\ n \in 0 .. 100
        /\ dependencies \subseteq Dependency
    BY <2>1, PlanConstants DEF PlanInv, PlanTypeOK
  <2>3. (s => starting) /\ (f => finishing)
    BY <2>2, ReportedIs
  <2>4. /\ s \in BOOLEAN /\ f \in BOOLEAN
        /\ starting \in BOOLEAN /\ finishing \in BOOLEAN
    OBVIOUS
  <2> HIDE DEF s, f, starting, finishing
  <2>5. \A d \in dependencies : Allows(d, starting, finishing) => Allows(d, s, f)
    BY <2>2, <2>3, <2>4, AllowsLess
  <2>6. Allowed(dependencies, t, s, f)
    BY <2>1, <2>5 DEF Allowed
  <2>7. QED
    BY <2>1, <2>6, WrittenInOrder DEF s, f
<1>3. QED
  BY <1>1, <1>2

LEMMA StepInOrder ==
  ASSUME PlanInv, [PlanNext]_planVars, NEW t \in Tasks, tasks[t] # NoTask
  PROVE  InOrder(t)
<1>1. CASE UNCHANGED tasks
  BY <1>1, IdleInOrder
<1>2. ASSUME NEW p \in Phases, NEW status \in PhaseStatuses,
             NEW manual \in BOOLEAN, NEW n \in Percents,
             CreatePhase(p, status, manual, n) \/ PatchPhase(p, status, manual, n)
      PROVE  UNCHANGED tasks
  BY <1>2 DEF CreatePhase, PatchPhase
<1>3. ASSUME NEW p \in Phases, ArchivePhase(p) PROVE UNCHANGED tasks
  BY <1>3 DEF ArchivePhase
<1>4. ASSUME NEW u \in Tasks, NEW phase \in Phases \cup {NULL},
             NEW parent \in Tasks \cup {NULL}, NEW status \in TaskStatuses,
             NEW n \in Percents,
             \/ CreateTask(u, phase, parent, status, n)
             \/ PatchTask(u, phase, parent, status, n)
      PROVE  InOrder(t)
  BY <1>4, TasksInOrder, Zenon
<1>5. ASSUME NEW u \in Tasks, ArchiveTask(u) PROVE InOrder(t)
  <2>1. /\ NULL \in Phases \cup {NULL} /\ NULL \in Tasks \cup {NULL}
        /\ "todo" \in TaskStatuses /\ 0 \in Percents
    BY PlanAssumption DEF TaskStatuses
  <2>2. QED
    BY <1>5, <2>1, TasksInOrder, Zenon
<1>6. ASSUME NEW d \in Dependency, AddDependency(d) \/ RemoveDependency(d)
      PROVE  UNCHANGED tasks
  BY <1>6 DEF AddDependency, RemoveDependency
<1>7. ASSUME NEW e \in Entries,
             \/ \E u \in Tasks, n \in Minutes :
                   CreateTimeEntry(e, u, n) \/ PatchTimeEntry(e, u, n)
             \/ DeleteTimeEntry(e)
      PROVE  InOrder(t)
  <2>1. \E row : SetEntry(e, row)
    BY <1>7 DEF CreateTimeEntry, PatchTimeEntry, DeleteTimeEntry
  <2>2. QED
    BY <2>1, EntryInOrder
<1>8. ASSUME NEW phase \in Phases \cup {NULL}, NEW u \in Tasks \cup {NULL},
             NEW n \in Percents, CreateProgressUpdate(phase, u, n)
      PROVE  InOrder(t)
  BY <1>8, ReportInOrder, Zenon
<1>9. CASE UNCHANGED planVars
  BY <1>1, <1>9 DEF planVars
<1>10. CASE PlanNext
  BY <1>1, <1>2, <1>3, <1>4, <1>5, <1>6, <1>7, <1>8, <1>10, Zenon DEF PlanNext
<1>11. QED
  BY <1>9, <1>10

\* Whichever operation starts or finishes a task, what the task waits for has
\* come as far as each dependency asks.
THEOREM TasksStartInOrder == PlanSpec => StartedInOrder
<1>1. PlanInit => PlanInv
  BY PlanStarts
<1>2. PlanInv /\ [PlanNext]_planVars => PlanInv'
  BY PlanStays
<1>3. PlanInv /\ [PlanNext]_planVars =>
         [\A t \in Tasks :
            tasks[t] # NoTask =>
               Allowed(dependencies, t,
                       ~Started(tasks[t]) /\ Started(tasks'[t]),
                       tasks[t].status # "done" /\ tasks'[t].status = "done")
         ]_planVars
  BY StepInOrder, Zenon DEF InOrder
<1>4. QED
  BY <1>1, <1>2, <1>3, PTL DEF PlanSpec, StartedInOrder
-----------------------------------------------------------------------------
(* Resources.                                                              *)

Resource == [status : {"none", "available", "unavailable"},
             capacity : Capacities \cup {0, NULL}, archived : BOOLEAN]
Allocation == [resource : Assets \cup {NULL}, task : Tasks \cup {NULL},
               phase : Phases \cup {NULL}, quantity : Nat, from : Nat, to : Nat]

\* Only what is there has been allocated.
ResourceInv ==
    /\ resources \in [Assets -> Resource]
    /\ allocations \in [Allocations -> Allocation]
    /\ \A a \in Allocations : \A r \in Assets :
          allocations[a].resource = r => resources[r] # NoResource
    /\ NeverOverallocated

LEMMA ResourceConstants ==
  /\ \A n \in Capacities : n \in Nat
  /\ LastWorkday \in Nat
  /\ IsFiniteSet(Allocations)
  /\ NULL \notin Assets
  /\ \A day \in Starts \cup Ends : day \in Nat
BY ResourcingAssumption DEF Starts, Ends

\* What one allocation takes, as in Load.
Taken(rows, r, day) ==
    [a \in Allocations |-> IF rows[a].resource = r /\ rows[a].from <= day
                                /\ day <= rows[a].to
                           THEN rows[a].quantity ELSE 0]

LEMMA LoadIs ==
  ASSUME NEW rows, NEW r, NEW day
  PROVE  Load(rows, r, day) = SumFunctionOnSet(Taken(rows, r, day), Allocations)
BY Zenon DEF Load, Taken

LEMMA TakenIsNat ==
  ASSUME NEW rows \in [Allocations -> Allocation], NEW r, NEW day \in Nat
  PROVE  \A a \in Allocations : Taken(rows, r, day)[a] \in Nat
BY DEF Taken, Allocation

\* The load of a day is no less when each allocation takes no less.
LEMMA LoadGrows ==
  ASSUME NEW few \in [Allocations -> Allocation], NEW day \in Nat,
         NEW many \in [Allocations -> Allocation], NEW other \in Nat, NEW r,
         \A a \in Allocations : Taken(few, r, day)[a] <= Taken(many, r, other)[a]
  PROVE  Load(few, r, day) <= Load(many, r, other)
<1> DEFINE f == Taken(few, r, day)
           g == Taken(many, r, other)
<1>1. \A a \in Allocations : f[a] \in Int /\ g[a] \in Int /\ f[a] <= g[a]
  BY TakenIsNat
<1>2. IsFiniteSet(Allocations)
  BY ResourceConstants
<1> HIDE DEF f, g
<1>3. SumFunctionOnSet(f, Allocations) <= SumFunctionOnSet(g, Allocations)
  BY <1>1, <1>2, SumMonotone
<1>4. QED
  BY <1>3, LoadIs DEF f, g

LEMMA LoadIsNat ==
  ASSUME NEW rows \in [Allocations -> Allocation], NEW r, NEW day \in Nat
  PROVE  Load(rows, r, day) \in Nat
<1> DEFINE f == Taken(rows, r, day)
<1>1. \A a \in Allocations : f[a] \in Nat
  BY TakenIsNat
<1>2. IsFiniteSet(Allocations)
  BY ResourceConstants
<1> HIDE DEF f
<1>3. SumFunctionOnSet(f, Allocations) \in Nat
  BY <1>1, <1>2, SumIsNat
<1>4. QED
  BY <1>3, LoadIs DEF f

\* peakAllocation: the load of a day is at most that of the last day before it
\* on which an allocation starts.
LEMMA LoadRisesAtPoints ==
  ASSUME NEW rows \in [Allocations -> Allocation], NEW r, NEW day \in Nat
  PROVE  \E point \in Points(rows) :
            point \in Nat /\ Load(rows, r, day) <= Load(rows, r, point)
<1> DEFINE P == {p \in Points(rows) : p <= day}
<1>1. \A p \in Points(rows) : p \in Nat
  BY DEF Points, Allocation
<1>2. IsFiniteSet(P)
  <2>1. P \subseteq 0 .. day
    BY <1>1
  <2>2. IsFiniteSet(0 .. day)
    BY FS_Interval
  <2>3. QED
    BY <2>1, <2>2, FS_Subset
<1>3. 0 \in P /\ IsFiniteSet(P) /\ \A p \in P : p \in Int
  BY <1>1, <1>2 DEF Points
<1>4. PICK point \in P : \A p \in P : p <= point
  <2> HIDE DEF P
  <2>1. P # {}
    BY <1>3
  <2>2. QED
    BY <1>3, <2>1, LargestExists
<1>5. point \in Nat /\ point <= day /\ point \in Points(rows)
  BY <1>1, <1>4
<1>6. ASSUME NEW a \in Allocations
      PROVE  Taken(rows, r, day)[a] <= Taken(rows, r, point)[a]
  <2>1. /\ rows[a].from \in Nat /\ rows[a].to \in Nat /\ rows[a].quantity \in Nat
        /\ rows[a].from \in Points(rows)
    BY DEF Allocation, Points
  <2>2. rows[a].from <= day => rows[a].from <= point
    BY <1>4, <2>1
  <2>3. QED
    BY <1>5, <2>1, <2>2 DEF Taken
<1>7. Load(rows, r, day) <= Load(rows, r, point)
  BY <1>5, <1>6, LoadGrows
<1>8. QED
  BY <1>5, <1>7

\* validateResourceCapacity: what holds at the points holds on every day.
LEMMA PointsAreEnough ==
  ASSUME NEW rows \in [Allocations -> Allocation], NEW r,
         NEW capacity \in Capacities \cup {0, NULL}, capacity # NULL,
         WithinCapacity(rows, r, capacity), NEW day \in Nat
  PROVE  Load(rows, r, day) <= capacity
<1>1. PICK point \in Points(rows) :
         point \in Nat /\ Load(rows, r, day) <= Load(rows, r, point)
  BY LoadRisesAtPoints
<1>2. Load(rows, r, point) <= capacity
  BY <1>1 DEF WithinCapacity
<1>3. /\ Load(rows, r, day) \in Nat /\ Load(rows, r, point) \in Nat
      /\ capacity \in Nat
  BY <1>1, LoadIsNat, ResourceConstants
<1>4. QED
  BY <1>1, <1>2, <1>3

LEMMA ResourcesStay ==
  ASSUME ResourceInv, NEW r \in Assets, NEW status \in {"available", "unavailable"},
         NEW capacity \in Capacities \cup {0, NULL},
         \/ CreateResource(r, status, capacity) \/ PatchResource(r, status, capacity)
         \/ ArchiveResource(r)
  PROVE  ResourceInv'
<1>1. /\ resources \in [Assets -> Resource]
      /\ allocations \in [Allocations -> Allocation]
      /\ \A a \in Allocations : \A q \in Assets :
            allocations[a].resource = q => resources[q] # NoResource
      /\ \A q \in Assets, day \in Starts \cup Ends :
            resources[q].capacity # NULL =>
                Load(allocations, q, day) <= resources[q].capacity
  BY DEF ResourceInv, NeverOverallocated
<1>2. allocations' = allocations
  BY DEF CreateResource, PatchResource, ArchiveResource
<1>3. PICK old : old = resources[r]
  OBVIOUS
<1>4. old \in Resource
  BY <1>1, <1>3
<1>5. PICK new \in Resource :
         /\ resources' = [resources EXCEPT ![r] = new]
         /\ new # NoResource
         /\ \/ new.capacity = old.capacity /\ old # NoResource
            \/ new.capacity = capacity
               /\ (old = NoResource \/ WithinCapacity(allocations, r, capacity))
  <2>1. CASE CreateResource(r, status, capacity)
    <3> DEFINE new == [NoResource EXCEPT !.status = status, !.capacity = capacity]
    <3>1. /\ new \in Resource /\ new.capacity = capacity /\ new.status = status
      BY DEF NoResource, Resource
    <3>2. resources' = [resources EXCEPT ![r] = new] /\ old = NoResource
      BY <2>1, <1>3 DEF CreateResource
    <3> HIDE DEF new
    <3>3. new # NoResource
      BY <3>1 DEF NoResource
    <3>4. QED
      BY <3>1, <3>2, <3>3
  <2>2. CASE PatchResource(r, status, capacity)
    <3> DEFINE new == [old EXCEPT !.status = status, !.capacity = capacity]
    <3>1. /\ new \in Resource /\ new.capacity = capacity /\ new.status = status
      BY <1>4 DEF Resource
    <3>2. /\ resources' = [resources EXCEPT ![r] = new]
          /\ WithinCapacity(allocations, r, capacity)
      BY <2>2, <1>3 DEF PatchResource
    <3> HIDE DEF new
    <3>3. new # NoResource
      BY <3>1 DEF NoResource
    <3>4. QED
      BY <3>1, <3>2, <3>3
  <2>3. CASE ArchiveResource(r)
    <3> DEFINE new == [old EXCEPT !.status = "unavailable", !.archived = TRUE]
    <3>1. /\ new \in Resource /\ new.capacity = old.capacity
          /\ new.status = "unavailable"
      BY <1>4 DEF Resource
    <3>2. resources' = [resources EXCEPT ![r] = new] /\ old # NoResource
      BY <2>3, <1>3 DEF ArchiveResource
    <3> HIDE DEF new
    <3>3. new # NoResource
      BY <3>1 DEF NoResource
    <3>4. QED
      BY <3>1, <3>2, <3>3
  <2>4. QED
    BY <2>1, <2>2, <2>3
<1>6. resources' \in [Assets -> Resource]
  BY <1>1, <1>5
<1>7. ASSUME NEW a \in Allocations, NEW q \in Assets, allocations'[a].resource = q
      PROVE  resources'[q] # NoResource
  BY <1>1, <1>2, <1>5, <1>7
<1>8. ASSUME NEW q \in Assets, NEW day \in Starts \cup Ends,
             resources'[q].capacity # NULL
      PROVE  Load(allocations', q, day) <= resources'[q].capacity
  <2>1. CASE q # r
    <3>1. resources'[q] = resources[q]
      BY <1>1, <1>5, <2>1
    <3>2. QED
      BY <3>1, <1>1, <1>2, <1>8
  <2>2. CASE q = r /\ new.capacity = old.capacity /\ old # NoResource
    <3>1. resources'[q].capacity = resources[q].capacity
      BY <1>1, <1>3, <1>5, <2>2
    <3>2. QED
      BY <3>1, <1>1, <1>2, <1>8
  <2>3. CASE q = r /\ new.capacity = capacity /\ WithinCapacity(allocations, r, capacity)
    <3>1. resources'[q].capacity = capacity /\ day \in Nat
      BY <1>1, <1>5, <2>3, ResourceConstants
    <3>2. Load(allocations, r, day) <= capacity
      BY <3>1, <1>1, <1>8, <2>3, PointsAreEnough
    <3>3. QED
      BY <3>1, <3>2, <2>3, <1>2
  <2>4. CASE q = r /\ new.capacity = capacity /\ old = NoResource
    <3>1. resources'[q].capacity = capacity /\ day \in Nat
      BY <1>1, <1>5, <2>4, ResourceConstants
    <3>2. \A a \in Allocations : allocations[a].resource # q
      BY <1>1, <1>3, <2>4
    <3>3. \A a \in Allocations : Taken(allocations, q, day)[a] = 0
      BY <3>2 DEF Taken
    <3>4. Load(allocations, q, day) = 0
      BY <3>3, ResourceConstants, SumOfZeros, LoadIs
    <3>5. capacity \in Nat
      BY <3>1, <1>8, ResourceConstants
    <3>6. QED
      BY <3>1, <3>4, <3>5, <1>2
  <2>5. QED
    BY <2>1, <2>2, <2>3, <2>4, <1>5
<1>9. QED
  BY <1>1, <1>2, <1>6, <1>7, <1>8 DEF ResourceInv, NeverOverallocated

\* An allocation is written: for another resource than its own no day takes
\* more than before.
LEMMA AllocationStays ==
  ASSUME ResourceInv, NEW a \in Allocations, NEW row \in Allocation,
         allocations' = [allocations EXCEPT ![a] = row], UNCHANGED resources,
         row.resource \in Assets =>
            /\ resources[row.resource] # NoResource
            /\ WithinCapacity(allocations', row.resource,
                              resources[row.resource].capacity)
  PROVE  ResourceInv'
<1>1. /\ resources \in [Assets -> Resource]
      /\ allocations \in [Allocations -> Allocation]
      /\ \A b \in Allocations : \A q \in Assets :
            allocations[b].resource = q => resources[q] # NoResource
      /\ \A q \in Assets, day \in Starts \cup Ends :
            resources[q].capacity # NULL =>
                Load(allocations, q, day) <= resources[q].capacity
  BY DEF ResourceInv, NeverOverallocated
<1>2. allocations' \in [Allocations -> Allocation]
  BY <1>1
<1>3. ASSUME NEW b \in Allocations, NEW q \in Assets, allocations'[b].resource = q
      PROVE  resources'[q] # NoResource
  BY <1>1, <1>3
<1>4. ASSUME NEW q \in Assets, NEW day \in Starts \cup Ends,
             resources[q].capacity # NULL
      PROVE  Load(allocations', q, day) <= resources[q].capacity
  <2>1. /\ day \in Nat /\ resources[q].capacity \in Capacities \cup {0, NULL}
    BY <1>1, ResourceConstants DEF Resource
  <2>2. CASE row.resource = q
    BY <1>2, <1>4, <2>1, <2>2, PointsAreEnough
  <2>3. CASE row.resource # q
    <3>1. ASSUME NEW b \in Allocations
          PROVE  Taken(allocations', q, day)[b] <= Taken(allocations, q, day)[b]
      <4>1. /\ Taken(allocations, q, day)[b] \in Nat
            /\ Taken(allocations', q, day)[b] \in Nat
        BY <1>1, <1>2, <2>1, TakenIsNat
      <4>2. CASE b = a
        <5>1. Taken(allocations', q, day)[b] = 0
          BY <4>2, <2>3, <1>1 DEF Taken
        <5>2. QED
          BY <4>1, <5>1
      <4>3. CASE b # a
        <5>1. allocations'[b] = allocations[b]
          BY <4>3, <1>1
        <5>2. Taken(allocations', q, day)[b] = Taken(allocations, q, day)[b]
          BY <5>1 DEF Taken
        <5>3. QED
          BY <4>1, <5>2
      <4>4. QED
        BY <4>2, <4>3
    <3>2. Load(allocations', q, day) <= Load(allocations, q, day)
      BY <1>1, <1>2, <2>1, <3>1, LoadGrows
    <3>3. /\ Load(allocations', q, day) \in Nat /\ Load(allocations, q, day) \in Nat
          /\ resources[q].capacity \in Nat
      <4>1. Load(allocations', q, day) \in Nat
        BY <1>2, <2>1, LoadIsNat
      <4>2. Load(allocations, q, day) \in Nat
        BY <1>1, <2>1, LoadIsNat
      <4>3. resources[q].capacity \in Nat
        BY <1>4, <2>1, ResourceConstants
      <4>4. QED
        BY <4>1, <4>2, <4>3
    <3>4. QED
      BY <1>1, <1>4, <3>2, <3>3
  <2>4. QED
    BY <2>2, <2>3
<1>5. QED
  BY <1>1, <1>2, <1>3, <1>4 DEF ResourceInv, NeverOverallocated

LEMMA AllocationsStay ==
  ASSUME ResourceInv, NEW a \in Allocations
  PROVE  /\ \A row \in Allocation : row.resource \in Assets =>
               (CreateAllocation(a, row) \/ PatchAllocation(a, row) => ResourceInv')
         /\ DeleteAllocation(a) => ResourceInv'
<1>1. ASSUME NEW row \in Allocation, row.resource \in Assets,
             CreateAllocation(a, row) \/ PatchAllocation(a, row)
      PROVE  ResourceInv'
  <2>1. SetAllocation(a, row)
    BY <1>1 DEF CreateAllocation, PatchAllocation
  <2>2. /\ allocations' = [allocations EXCEPT ![a] = row] /\ UNCHANGED resources
        /\ WithinCapacity(allocations', row.resource, resources[row.resource].capacity)
        /\ resources[row.resource].status = "available"
    BY <2>1 DEF SetAllocation, AllocationFits
  <2>3. resources[row.resource] # NoResource
    BY <2>2 DEF NoResource
  <2>4. QED
    BY <2>2, <2>3, AllocationStays
<1>2. ASSUME DeleteAllocation(a) PROVE ResourceInv'
  <2>1. /\ allocations' = [allocations EXCEPT ![a] = NoAllocation]
        /\ UNCHANGED resources
    BY <1>2 DEF DeleteAllocation
  <2>2. NoAllocation \in Allocation /\ NoAllocation.resource \notin Assets
    BY ResourceConstants DEF NoAllocation, Allocation
  <2>3. QED
    BY <2>1, <2>2, AllocationStays
<1>3. QED
  BY <1>1, <1>2

LEMMA ResourceStarts == ASSUME ResourceInit PROVE ResourceInv
<1>1. /\ resources \in [Assets -> Resource]
      /\ \A r \in Assets : resources[r].capacity = NULL
      /\ allocations \in [Allocations -> Allocation]
      /\ \A a \in Allocations : allocations[a].resource = NULL
  BY DEF ResourceInit, NoResource, NoAllocation, Resource, Allocation
<1>2. QED
  BY <1>1, ResourceConstants DEF ResourceInv, NeverOverallocated

\* Through allocations made, moved and removed, and capacities changed, no day
\* has more of a resource in use than there is, though the code only looks at
\* the days on which an allocation starts.
THEOREM ResourcesSuffice == ResourceSpec => []NeverOverallocated
<1> DEFINE Next == \/ PlanNext /\ UNCHANGED resourceVars
                   \/ ResourceNext /\ UNCHANGED planVars
<1>1. PlanInit /\ ResourceInit => ResourceInv
  BY ResourceStarts
<1>2. ResourceInv /\ [Next]_<<planVars, resourceVars>> => ResourceInv'
  <2> SUFFICES ASSUME ResourceInv, [Next]_<<planVars, resourceVars>>
               PROVE  ResourceInv'
    OBVIOUS
  <2>1. CASE UNCHANGED resourceVars
    <3>1. UNCHANGED <<resources, allocations>>
      BY <2>1 DEF resourceVars
    <3>2. QED
      BY <3>1, Zenon DEF ResourceInv, NeverOverallocated, Load
  <2>2. ASSUME NEW r \in Assets, ArchiveResource(r) PROVE ResourceInv'
    BY <2>2, ResourcesStay
  <2>3. ASSUME NEW a \in Allocations, NEW r \in Assets, NEW t \in Tasks \cup {NULL},
               NEW p \in Phases \cup {NULL}, NEW n \in Capacities,
               NEW from \in Starts, NEW to \in Ends, NEW row,
               row = [resource |-> r, task |-> t, phase |-> p, quantity |-> n,
                      from |-> from, to |-> to]
        PROVE  CreateAllocation(a, row) \/ PatchAllocation(a, row) => ResourceInv'
    <3>1. n \in Nat /\ from \in Nat /\ to \in Nat
      BY ResourceConstants
    <3>2. row \in Allocation /\ row.resource = r
      BY <2>3, <3>1 DEF Allocation
    <3>3. QED
      BY <3>2, AllocationsStay
  <2>4. CASE ResourceNext
    BY <2>2, <2>3, <2>4, ResourcesStay, AllocationsStay, Zenon DEF ResourceNext
  <2>5. QED
    BY <2>1, <2>4 DEF resourceVars
<1>3. ResourceInv => NeverOverallocated
  BY DEF ResourceInv
<1>4. QED
  BY <1>1, <1>2, <1>3, PTL DEF ResourceSpec
-----------------------------------------------------------------------------
(* Risks, indicators and budgets.                                          *)

Kpi == [status : {"none", "active", "archived"}, current : Values \cup {NULL}]
Budget == [version : Nat,
           status : {"none", "draft", "approved", "superseded", "cancelled"}]
Line == [parent : (Versions \X Slots) \cup {NULL}, amount : Amounts \cup {NULL}]

ControlsTypeOK ==
    /\ kpis \in [Kpis -> Kpi]
    /\ measured \in [Kpis -> [Times -> Values \cup {NULL}]]
    /\ budgets \in [Versions -> Budget]
    /\ lines \in [Versions -> [Slots -> Line]]

\* What ControlsSound says of one indicator and of the lines of one version.
Newest(kpi, row) ==
    \A time \in TimesOf(row) :
        (\A later \in TimesOf(row) : later <= time) => kpi.current = row[time]
LinksIn(v, row) == {e \in Slots \X Slots : row[e[1]].parent = <<v, e[2]>>}
TreesIn(v, row) ==
    /\ \A s \in Slots : row[s].parent # NULL =>
           \E t \in Slots : row[s].parent = <<v, t>> /\ row[t] # NoLine
    /\ Acyclic(LinksIn(v, row), Slots)
OneInForce(rows) ==
    \A v, w \in Versions : v # w =>
        /\ {rows[v].status, rows[w].status} # {"approved"}
        /\ rows[v].version = rows[w].version => rows[v] = NoBudget

ControlsInv ==
    /\ ControlsTypeOK
    /\ \A k \in Kpis : Newest(kpis[k], measured[k])
    /\ OneInForce(budgets)
    /\ \A v \in Versions : TreesIn(v, lines[v])

LEMMA ControlsConstants ==
  /\ \A time \in Times : time \in Nat
  /\ IsFiniteSet(Times) /\ IsFiniteSet(Versions)
  /\ NULL \notin Values /\ NULL \notin Slots /\ NULL \notin Versions
  /\ NULL \notin Amounts
  /\ NULL \notin Versions \X Slots
BY ControlsAssumption

LEMMA ControlsAreSound == ASSUME ControlsInv PROVE ControlsSound
<1>1. CurrentIsNewest
  BY Zenon DEF ControlsInv, CurrentIsNewest, Newest
<1>2. OneBudgetInForce
  BY Zenon DEF ControlsInv, OneBudgetInForce, OneInForce
<1>3. \A v \in Versions : LineParents(v) = LinksIn(v, lines[v])
  BY Zenon DEF LineParents, LinksIn
<1>4. LinesFormTrees
  BY <1>3, Zenon DEF ControlsInv, LinesFormTrees, TreesIn
<1>5. QED
  BY <1>1, <1>2, <1>4 DEF ControlsSound

\* addKpiMeasurement: the newest of the times there are is the one chosen.
LEMMA LatestIsNewest ==
  ASSUME NEW row \in [Times -> Values \cup {NULL}], NEW time \in TimesOf(row),
         NEW kpi, kpi.current = LatestOf(row, time)
  PROVE  Newest(kpi, row)
<1> SUFFICES ASSUME NEW last \in TimesOf(row),
                    \A other \in TimesOf(row) : other <= last
             PROVE  kpi.current = row[last]
  BY DEF Newest
<1> DEFINE Latest(x) == \A other \in TimesOf(row) : other <= x
           chosen == CHOOSE x \in TimesOf(row) : Latest(x)
<1>1. chosen \in TimesOf(row) /\ Latest(chosen)
  OBVIOUS
<1>2. chosen \in Nat /\ last \in Nat
  BY <1>1, ControlsConstants DEF TimesOf
<1>3. chosen = last
  BY <1>1, <1>2
<1>4. QED
  BY <1>3 DEF LatestOf

LEMMA KpisStay ==
  ASSUME ControlsInv, NEW k \in Kpis,
         \/ CreateKpi(k) \/ ArchiveKpi(k)
         \/ \E time \in Times, value \in Values : AddKpiMeasurement(k, time, value)
  PROVE  ControlsInv'
<1>1. /\ kpis \in [Kpis -> Kpi]
      /\ measured \in [Kpis -> [Times -> Values \cup {NULL}]]
      /\ \A j \in Kpis : Newest(kpis[j], measured[j])
  BY DEF ControlsInv, ControlsTypeOK
<1>2. UNCHANGED <<budgets, lines>>
  BY DEF CreateKpi, ArchiveKpi, AddKpiMeasurement
<1>3. PICK old : old = kpis[k]
  OBVIOUS
<1>4. old \in Kpi /\ old.current \in Values \cup {NULL}
  BY <1>1, <1>3 DEF Kpi
<1>5. /\ kpis' \in [Kpis -> Kpi]
      /\ measured' \in [Kpis -> [Times -> Values \cup {NULL}]]
      /\ \A j \in Kpis : Newest(kpis'[j], measured'[j])
  <2>1. ASSUME NEW status \in {"active", "archived"},
               kpis' = [kpis EXCEPT ![k] = [old EXCEPT !.status = status]],
               measured' = measured
        PROVE  <1>5
    <3> DEFINE new == [old EXCEPT !.status = status]
    <3>1. new \in Kpi /\ new.current = old.current
      BY <1>4 DEF Kpi
    <3> HIDE DEF new
    <3>2. kpis' = [kpis EXCEPT ![k] = new]
      BY <2>1 DEF new
    <3>3. \A j \in Kpis : kpis'[j].current = kpis[j].current
      BY <1>1, <1>3, <3>1, <3>2
    <3>4. \A j \in Kpis : Newest(kpis'[j], measured'[j])
      BY <1>1, <2>1, <3>3, Zenon DEF Newest
    <3>5. QED
      BY <1>1, <2>1, <3>1, <3>2, <3>4
  <2>2. CASE CreateKpi(k)
    BY <1>3, <2>1, <2>2 DEF CreateKpi
  <2>3. CASE ArchiveKpi(k)
    BY <1>3, <2>1, <2>3 DEF ArchiveKpi
  <2>4. ASSUME NEW time \in Times, NEW value \in Values,
               AddKpiMeasurement(k, time, value)
        PROVE  <1>5
    <3> DEFINE row == [measured[k] EXCEPT ![time] = value]
               now == LatestOf(row, time)
               new == [old EXCEPT !.current = now]
    <3>1. /\ measured' = [measured EXCEPT ![k] = row]
          /\ kpis' = [kpis EXCEPT ![k] = [old EXCEPT !.current =
                                              LatestOf(measured'[k], time)]]
      BY <1>3, <2>4 DEF AddKpiMeasurement
    <3>2. /\ row \in [Times -> Values \cup {NULL}] /\ row[time] = value
          /\ measured'[k] = row
      BY <1>1, <3>1
    <3> HIDE DEF row
    <3>3. time \in TimesOf(row)
      BY <3>2, ControlsConstants DEF TimesOf
    <3>4. now \in Values \cup {NULL}
      <4>1. PICK last \in TimesOf(row) : \A other \in TimesOf(row) : other <= last
        <5>1. IsFiniteSet(TimesOf(row)) /\ \A x \in TimesOf(row) : x \in Int
          BY ControlsConstants, FS_Subset DEF TimesOf
        <5>2. QED
          BY <3>3, <5>1, LargestExists
      <4>2. (CHOOSE x \in TimesOf(row) : \A other \in TimesOf(row) : other <= x)
                \in TimesOf(row)
        BY <4>1
      <4>3. QED
        BY <3>2, <4>2 DEF LatestOf, TimesOf
    <3> HIDE DEF now
    <3>5. new \in Kpi /\ new.current = now
      BY <1>4, <3>4 DEF Kpi
    <3>6. kpis' = [kpis EXCEPT ![k] = new]
      BY <3>1, <3>2 DEF now
    <3> HIDE DEF new
    <3>7. Newest(new, row)
      BY <3>2, <3>3, <3>5, LatestIsNewest DEF now
    <3>8. /\ kpis'[k] = new /\ measured'[k] = row
          /\ \A j \in Kpis \ {k} : kpis'[j] = kpis[j] /\ measured'[j] = measured[j]
      BY <1>1, <3>1, <3>6
    <3>9. \A j \in Kpis : Newest(kpis'[j], measured'[j])
      BY <1>1, <3>7, <3>8
    <3>10. QED
      BY <1>1, <3>1, <3>2, <3>5, <3>6, <3>9
  <2>5. QED
    BY <2>2, <2>3, <2>4
<1>6. QED
  BY <1>2, <1>5 DEF ControlsInv, ControlsTypeOK

\* The number of a new version is one that no other has.
LEMMA NextVersionIsNew ==
  ASSUME ControlsTypeOK
  PROVE  /\ NextVersion \in Nat
         /\ \A v \in Versions : budgets[v].version < NextVersion
<1> DEFINE numbers == {budgets[v].version : v \in Versions}
           f == [v \in Versions |-> budgets[v].version]
<1>1. \A v \in Versions : budgets[v].version \in Nat
  BY DEF ControlsTypeOK, Budget
<1>2. IsFiniteSet(numbers)
  <2>1. f \in Surjection(Versions, numbers)
    BY DEF Surjection
  <2>2. QED
    BY <2>1, ControlsConstants, FS_Surjection
<1>3. \A n \in numbers : n \in Nat
  BY <1>1
<1> HIDE DEF numbers, f
<1>4. IsFiniteSet({0} \cup numbers) /\ {0} \cup numbers # {}
  BY <1>2, FS_AddElement, FS_Singleton, FS_Union
<1>5. \E n \in {0} \cup numbers : \A m \in {0} \cup numbers : m <= n
  <2> DEFINE all == {0} \cup numbers
  <2>1. \A n \in all : n \in Int
    BY <1>3
  <2>2. IsFiniteSet(all) /\ all # {}
    BY <1>4
  <2> HIDE DEF all
  <2>3. \E n \in all : \A m \in all : m <= n
    BY <2>1, <2>2, LargestExists
  <2>4. QED
    BY <2>3 DEF all
<1> DEFINE last == CHOOSE n \in {0} \cup numbers : \A m \in numbers : m <= n
<1>6. last \in {0} \cup numbers /\ \A m \in numbers : m <= last
  BY <1>5
<1>7. NextVersion = 1 + last
  BY DEF NextVersion, NextNumber, numbers
<1> HIDE DEF last
<1>8. \A v \in Versions : budgets[v].version \in numbers
  BY DEF numbers
<1>9. last \in Nat
  BY <1>3, <1>6
<1>10. QED
  BY <1>1, <1>6, <1>7, <1>8, <1>9

LEMMA NewVersionSound ==
  ASSUME ControlsInv, NEW v \in Versions,
         budgets' = [budgets EXCEPT ![v] = [version |-> NextVersion,
                                            status |-> "draft"]]
  PROVE  budgets' \in [Versions -> Budget] /\ OneInForce(budgets')
<1> DEFINE n == NextVersion
<1>1. budgets \in [Versions -> Budget] /\ OneInForce(budgets)
  BY DEF ControlsInv, ControlsTypeOK
<1>2. n \in Nat /\ \A w \in Versions : budgets[w].version < n
  BY NextVersionIsNew DEF ControlsInv
<1> HIDE DEF n
<1>3. budgets' = [budgets EXCEPT ![v] = [version |-> n, status |-> "draft"]]
  BY DEF n
<1>4. budgets' \in [Versions -> Budget]
  BY <1>1, <1>2, <1>3 DEF Budget
<1>5. /\ budgets'[v].version = n /\ budgets'[v].status = "draft"
      /\ \A w \in Versions \ {v} : budgets'[w] = budgets[w]
      /\ \A w \in Versions : budgets[w].version \in Nat
  BY <1>1, <1>3 DEF Budget
<1>6. ASSUME NEW a \in Versions, NEW b \in Versions, a # b
      PROVE  /\ {budgets'[a].status, budgets'[b].status} # {"approved"}
             /\ budgets'[a].version = budgets'[b].version => budgets'[a] = NoBudget
  <2>1. CASE a = v
    BY <2>1, <1>2, <1>5, <1>6
  <2>2. CASE b = v
    BY <2>2, <1>2, <1>5, <1>6
  <2>3. CASE a # v /\ b # v
    BY <2>3, <1>1, <1>5, <1>6 DEF OneInForce
  <2>4. QED
    BY <2>1, <2>2, <2>3
<1>7. QED
  BY <1>4, <1>6 DEF OneInForce

LEMMA BudgetsStay ==
  ASSUME ControlsInv, NEW v \in Versions,
         CreateBudget(v) \/ ApproveBudget(v) \/ CancelBudget(v)
  PROVE  ControlsInv'
<1>1. budgets \in [Versions -> Budget] /\ OneInForce(budgets)
  BY DEF ControlsInv, ControlsTypeOK
<1>2. UNCHANGED <<kpis, measured, lines>>
  BY DEF CreateBudget, ApproveBudget, CancelBudget
<1>3. PICK old : old = budgets[v]
  OBVIOUS
<1>4. old \in Budget
  BY <1>1, <1>3
<1>5. CASE CreateBudget(v)
  <2>1. budgets' \in [Versions -> Budget] /\ OneInForce(budgets')
    BY <1>5, NewVersionSound DEF CreateBudget
  <2>2. QED
    BY <1>2, <2>1, Zenon DEF ControlsInv, ControlsTypeOK
<1>6. CASE ApproveBudget(v)
  <2>1. ASSUME NEW w \in Versions
        PROVE  /\ budgets'[w] \in Budget
               /\ budgets'[w].version = budgets[w].version
               /\ budgets'[w].status = "approved" => w = v
               /\ budgets[w] = NoBudget => budgets'[w] = NoBudget
    <3>1. PICK b : b = budgets[w]
      OBVIOUS
    <3>2. b \in Budget
      BY <1>1, <3>1
    <3>3. CASE w = v
      <4>1. budgets'[w] = [b EXCEPT !.status = "approved"] /\ b.status = "draft"
        BY <1>6, <3>1, <3>3 DEF ApproveBudget, Draft
      <4>2. QED
        BY <4>1, <3>1, <3>2, <3>3 DEF Budget, NoBudget
    <3>4. CASE w # v
      <4>1. budgets'[w] = Superseded(v, b)
        BY <1>6, <3>1, <3>4 DEF ApproveBudget
      <4>2. QED
        BY <4>1, <3>1, <3>2 DEF Superseded, Budget, NoBudget
    <3>5. QED
      BY <3>3, <3>4
  <2>2. budgets' \in [Versions -> Budget]
    BY <2>1, <1>6 DEF ApproveBudget
  <2>3. OneInForce(budgets')
    <3>1. ASSUME NEW a \in Versions, NEW b \in Versions, a # b
          PROVE  {budgets'[a].status, budgets'[b].status} # {"approved"}
      BY <2>1, <3>1
    <3>2. ASSUME NEW a \in Versions, NEW b \in Versions, a # b,
                 budgets'[a].version = budgets'[b].version
          PROVE  budgets'[a] = NoBudget
      BY <2>1, <1>1, <3>2 DEF OneInForce
    <3>3. QED
      BY <3>1, <3>2 DEF OneInForce
  <2>4. QED
    BY <1>2, <2>2, <2>3, Zenon DEF ControlsInv, ControlsTypeOK
<1>7. CASE CancelBudget(v)
  <2> DEFINE new == [old EXCEPT !.status = "cancelled"]
  <2>1. budgets' = [budgets EXCEPT ![v] = new] /\ old # NoBudget
    BY <1>7, <1>3 DEF CancelBudget, NoBudget
  <2>2. new \in Budget /\ new.version = old.version /\ new.status = "cancelled"
    BY <1>4 DEF Budget
  <2> HIDE DEF new
  <2>3. budgets' \in [Versions -> Budget]
    BY <1>1, <2>1, <2>2
  <2>4. /\ budgets'[v] = new
        /\ \A w \in Versions \ {v} : budgets'[w] = budgets[w]
    BY <1>1, <2>1
  <2>5. OneInForce(budgets')
    <3>1. ASSUME NEW a \in Versions, NEW b \in Versions, a # b
          PROVE  {budgets'[a].status, budgets'[b].status} # {"approved"}
      <4>1. CASE a = v
        BY <4>1, <2>2, <2>4, <3>1
      <4>2. CASE b = v
        BY <4>2, <2>2, <2>4, <3>1
      <4>3. CASE a # v /\ b # v
        BY <4>3, <1>1, <2>4, <3>1 DEF OneInForce
      <4>4. QED
        BY <4>1, <4>2, <4>3
    <3>2. ASSUME NEW a \in Versions, NEW b \in Versions, a # b,
                 budgets'[a].version = budgets'[b].version
          PROVE  budgets'[a] = NoBudget
      <4>1. budgets[a].version = budgets[b].version
        BY <3>2, <1>3, <2>2, <2>4
      <4>2. budgets[a] = NoBudget
        BY <4>1, <1>1, <3>2, Zenon DEF OneInForce
      <4>3. a # v
        BY <4>2, <2>1, <1>3
      <4>4. QED
        BY <4>2, <4>3, <2>4
    <3>3. QED
      BY <3>1, <3>2 DEF OneInForce
  <2>6. QED
    BY <1>2, <2>3, <2>5, Zenon DEF ControlsInv, ControlsTypeOK
<1>8. QED
  BY <1>5, <1>6, <1>7
LEMMA ReviseBudgetSound ==
  ASSUME ControlsInv, NEW v \in Versions, NEW source \in Versions,
         ReviseBudget(v, source)
  PROVE  ControlsInv'
<1>1. /\ lines \in [Versions -> [Slots -> Line]]
      /\ \A w \in Versions : TreesIn(w, lines[w])
  BY DEF ControlsInv, ControlsTypeOK
<1>2. /\ lines' = [lines EXCEPT ![v] =
                      [s \in Slots |-> CopyIn(v, lines[source][s])]]
      /\ UNCHANGED <<kpis, measured>>
  BY DEF ReviseBudget
<1>3. budgets' \in [Versions -> Budget] /\ OneInForce(budgets')
  BY NewVersionSound DEF ReviseBudget
<1> DEFINE row == lines[source]
           copy == [s \in Slots |-> CopyIn(v, row[s])]
<1>4. ASSUME NEW s \in Slots
      PROVE  /\ copy[s] \in Line
             /\ row[s].parent = NULL => copy[s] = row[s]
             /\ \A t \in Slots : row[s].parent = <<source, t>> =>
                                    copy[s].parent = <<v, t>>
             /\ copy[s].parent # NULL => row[s].parent # NULL
  <2>1. PICK line : line = row[s]
    OBVIOUS
  <2>2. line \in Line
    BY <1>1, <2>1
  <2>3. CASE line.parent = NULL
    <3>1. copy[s] = line
      BY <2>1, <2>3 DEF CopyIn
    <3>2. \A t \in Slots : line.parent # <<source, t>>
      BY <2>3, ControlsConstants
    <3>3. QED
      BY <2>1, <2>2, <2>3, <3>1, <3>2
  <2>4. CASE line.parent # NULL
    <3>1. line.parent \in Versions \X Slots
      BY <2>2, <2>4 DEF Line
    <3>2. copy[s] = [line EXCEPT !.parent = <<v, line.parent[2]>>]
      BY <2>1, <2>2, <2>4 DEF CopyIn, Line
    <3>3. copy[s] \in Line /\ copy[s].parent = <<v, line.parent[2]>>
      BY <2>2, <3>1, <3>2 DEF Line
    <3>4. QED
      BY <2>1, <2>4, <3>3
  <2>5. QED
    BY <2>3, <2>4
<1>5. copy \in [Slots -> Line]
  BY <1>4
<1>6. TreesIn(v, copy)
  <2>1. TreesIn(source, row)
    BY <1>1
  <2>2. \A s \in Slots : row[s].parent # NULL =>
           \E t \in Slots : row[s].parent = <<source, t>> /\ row[t] # NoLine
    BY <2>1, Zenon DEF TreesIn
  <2>3. ASSUME NEW s \in Slots, copy[s].parent # NULL
        PROVE  \E t \in Slots : copy[s].parent = <<v, t>> /\ copy[t] # NoLine
    <3>1. PICK t \in Slots : row[s].parent = <<source, t>> /\ row[t] # NoLine
      BY <1>4, <2>2, <2>3
    <3>2. copy[s].parent = <<v, t>>
      BY <1>4, <3>1
    <3>3. copy[t] # NoLine
      <4>1. CASE row[t].parent = NULL
        BY <4>1, <1>4, <3>1
      <4>2. CASE row[t].parent # NULL
        <5>1. PICK u \in Slots : row[t].parent = <<source, u>>
          BY <4>2, <2>2
        <5>2. copy[t].parent = <<v, u>> /\ <<v, u>> \in Versions \X Slots
          BY <1>4, <5>1
        <5>3. copy[t].parent # NULL
          BY <5>2, ControlsConstants
        <5>4. QED
          BY <5>3 DEF NoLine
      <4>3. QED
        BY <4>1, <4>2
    <3>4. QED
      BY <3>2, <3>3
  <2>4. LinksIn(v, copy) \subseteq LinksIn(source, row)
    <3>1. ASSUME NEW s \in Slots, NEW t \in Slots, copy[s].parent = <<v, t>>
          PROVE  row[s].parent = <<source, t>>
      <4>1. <<v, t>> \in Versions \X Slots
        OBVIOUS
      <4>2. copy[s].parent # NULL
        BY <3>1, <4>1, ControlsConstants
      <4>3. PICK u \in Slots : row[s].parent = <<source, u>>
        BY <1>4, <2>2, <4>2
      <4>4. <<v, u>> = <<v, t>>
        BY <1>4, <3>1, <4>3
      <4>5. QED
        BY <4>3, <4>4
    <3> HIDE DEF copy, row
    <3>2. QED
      BY <3>1 DEF LinksIn
  <2>5. Acyclic(LinksIn(v, copy), Slots)
    BY <2>1, <2>4, AcyclicLess DEF TreesIn
  <2> HIDE DEF copy
  <2>6. QED
    BY <2>3, <2>5 DEF TreesIn
<1> HIDE DEF copy, row
<1>7. lines' = [lines EXCEPT ![v] = copy]
  BY <1>2 DEF copy, row
<1>8. /\ lines' \in [Versions -> [Slots -> Line]]
      /\ \A w \in Versions : TreesIn(w, lines'[w])
  BY <1>1, <1>5, <1>6, <1>7
<1>9. QED
  BY <1>2, <1>3, <1>8, Zenon DEF ControlsInv, ControlsTypeOK

LEMMA SetBudgetLineSound ==
  ASSUME ControlsInv, NEW v \in Versions, NEW s \in Slots,
         NEW parent \in Slots \cup {NULL}, NEW amount \in Amounts,
         SetBudgetLine(v, s, parent, amount)
  PROVE  ControlsInv'
<1> DEFINE row == lines[v]
           up == IF parent = NULL THEN NULL ELSE <<v, parent>>
           line == [parent |-> up, amount |-> amount]
           new == [row EXCEPT ![s] = line]
<1>1. /\ lines \in [Versions -> [Slots -> Line]]
      /\ \A w \in Versions : TreesIn(w, lines[w])
  BY DEF ControlsInv, ControlsTypeOK
<1>2. /\ parent # NULL => row[parent] # NoLine /\ NoCycle(v, s, parent)
      /\ lines' = [lines EXCEPT ![v] = new]
      /\ UNCHANGED <<kpis, measured, budgets>>
  BY <1>1 DEF SetBudgetLine
<1>3. row \in [Slots -> Line] /\ TreesIn(v, row)
  BY <1>1
<1>4. line \in Line /\ line # NoLine
  BY ControlsConstants DEF Line, NoLine
<1> HIDE DEF row
<1>5. /\ new \in [Slots -> Line] /\ new[s] = line
      /\ \A t \in Slots \ {s} : new[t] = row[t]
  BY <1>3, <1>4
<1>6. TreesIn(v, new)
  <2>1. ASSUME NEW t \in Slots, new[t].parent # NULL
        PROVE  \E u \in Slots : new[t].parent = <<v, u>> /\ new[u] # NoLine
    <3>1. CASE t = s
      <4>1. parent \in Slots /\ new[t].parent = <<v, parent>>
        BY <1>5, <2>1, <3>1
      <4>2. new[parent] # NoLine
        BY <1>2, <1>4, <1>5, <4>1, ControlsConstants
      <4>3. QED
        BY <4>1, <4>2
    <3>2. CASE t # s
      <4>1. new[t] = row[t]
        BY <1>5, <3>2
      <4>2. PICK u \in Slots : row[t].parent = <<v, u>> /\ row[u] # NoLine
        BY <1>3, <2>1, <4>1, Zenon DEF TreesIn
      <4>3. new[u] # NoLine
        BY <1>4, <1>5, <4>2
      <4>4. QED
        BY <4>1, <4>2, <4>3
    <3>3. QED
      BY <3>1, <3>2
  <2>2. Acyclic(LinksIn(v, new), Slots)
    <3>1. Acyclic(LinksIn(v, row), Slots)
      BY <1>3 DEF TreesIn
    <3>2. LinksIn(v, row) \in SUBSET (Slots \X Slots)
      BY DEF LinksIn
    <3>3. CASE parent = NULL
      <4>1. \A t \in Slots : new[s].parent # <<v, t>>
        BY <1>5, <3>3, ControlsConstants
      <4> HIDE DEF new
      <4>2. LinksIn(v, new) \subseteq LinksIn(v, row)
        BY <1>5, <4>1 DEF LinksIn
      <4>3. QED
        BY <3>1, <4>2, AcyclicLess
    <3>4. CASE parent # NULL
      <4>1. parent \in Slots /\ new[s].parent = <<v, parent>>
        BY <1>5, <3>4
      <4>2. s \notin From(LinksIn(v, row), parent, Slots)
        BY <1>2, <3>4, Zenon DEF NoCycle, LineParents, LinksIn, row
      <4> HIDE DEF new
      <4>3. LinksIn(v, new) \subseteq LinksIn(v, row) \cup {<<s, parent>>}
        BY <1>5, <4>1 DEF LinksIn
      <4>4. QED
        BY <3>1, <3>2, <4>1, <4>2, <4>3, AcyclicMore
    <3>5. QED
      BY <3>3, <3>4
  <2> HIDE DEF new
  <2>3. QED
    BY <2>1, <2>2 DEF TreesIn
<1> HIDE DEF new
<1>7. /\ lines' \in [Versions -> [Slots -> Line]]
      /\ \A w \in Versions : TreesIn(w, lines'[w])
  BY <1>1, <1>2, <1>5, <1>6
<1>8. QED
  BY <1>2, <1>7, Zenon DEF ControlsInv, ControlsTypeOK

LEMMA DeleteBudgetLineSound ==
  ASSUME ControlsInv, NEW v \in Versions, NEW s \in Slots, DeleteBudgetLine(v, s)
  PROVE  ControlsInv'
<1> DEFINE row == lines[v]
           new == [row EXCEPT ![s] = NoLine]
<1>1. /\ lines \in [Versions -> [Slots -> Line]]
      /\ \A w \in Versions : TreesIn(w, lines[w])
  BY DEF ControlsInv, ControlsTypeOK
<1>2. /\ \A child \in Slots : row[child].parent # <<v, s>>
      /\ lines' = [lines EXCEPT ![v] = new]
      /\ UNCHANGED <<kpis, measured, budgets>>
  BY <1>1 DEF DeleteBudgetLine
<1>3. row \in [Slots -> Line] /\ TreesIn(v, row) /\ NoLine \in Line
  BY <1>1 DEF NoLine, Line
<1> HIDE DEF row
<1>4. /\ new \in [Slots -> Line] /\ new[s].parent = NULL
      /\ \A t \in Slots \ {s} : new[t] = row[t]
  BY <1>3 DEF NoLine
<1> HIDE DEF new
<1>5. TreesIn(v, new)
  <2>1. ASSUME NEW t \in Slots, new[t].parent # NULL
        PROVE  \E u \in Slots : new[t].parent = <<v, u>> /\ new[u] # NoLine
    <3>1. new[t] = row[t]
      BY <1>4, <2>1
    <3>2. PICK u \in Slots : row[t].parent = <<v, u>> /\ row[u] # NoLine
      BY <1>3, <2>1, <3>1, Zenon DEF TreesIn
    <3>3. new[u] = row[u]
      BY <1>2, <1>4, <3>2
    <3>4. QED
      BY <3>1, <3>2, <3>3
  <2>2. LinksIn(v, new) \subseteq LinksIn(v, row)
    <3>1. \A t \in Slots : new[s].parent # <<v, t>>
      BY <1>4, ControlsConstants
    <3>2. QED
      BY <1>4, <3>1 DEF LinksIn
  <2>3. Acyclic(LinksIn(v, new), Slots)
    BY <1>3, <2>2, AcyclicLess DEF TreesIn
  <2>4. QED
    BY <2>1, <2>3 DEF TreesIn
<1>6. /\ lines' \in [Versions -> [Slots -> Line]]
      /\ \A w \in Versions : TreesIn(w, lines'[w])
  BY <1>1, <1>2, <1>4, <1>5
<1>7. QED
  BY <1>2, <1>6, Zenon DEF ControlsInv, ControlsTypeOK

LEMMA ControlsStart == ASSUME ControlsInit PROVE ControlsInv
<1>1. /\ kpis \in [Kpis -> Kpi] /\ budgets \in [Versions -> Budget]
      /\ measured \in [Kpis -> [Times -> Values \cup {NULL}]]
      /\ \A k \in Kpis, time \in Times : measured[k][time] = NULL
      /\ \A v \in Versions : budgets[v] = NoBudget
  BY DEF ControlsInit, Kpi, NoKpi, Budget, NoBudget
<1>2. /\ lines \in [Versions -> [Slots -> Line]]
      /\ \A v \in Versions, s \in Slots : lines[v][s].parent = NULL
  BY DEF ControlsInit, Line, NoLine
<1>3. \A k \in Kpis : Newest(kpis[k], measured[k])
  BY <1>1 DEF Newest, TimesOf
<1>4. OneInForce(budgets)
  BY <1>1 DEF OneInForce, NoBudget
<1>5. ASSUME NEW v \in Versions PROVE TreesIn(v, lines[v])
  <2>1. LinksIn(v, lines[v]) = {}
    BY <1>2, ControlsConstants DEF LinksIn
  <2>2. ASSUME NEW S \in SUBSET Slots, S # {}
        PROVE  \E x \in S : \A y \in S : <<x, y>> \notin {}
    BY <2>2
  <2>3. Acyclic({}, Slots)
    BY <2>2 DEF Acyclic
  <2>4. QED
    BY <1>2, <2>1, <2>3 DEF TreesIn
<1>6. QED
  BY <1>1, <1>2, <1>3, <1>4, <1>5 DEF ControlsInv, ControlsTypeOK

\* An indicator shows its newest measurement in whatever order they come, at
\* most one version of the budget is in force under a number of its own, and
\* the lines of each are trees, for any number of them.
THEOREM ControlsStaySound == ControlsSpec => []ControlsSound
<1>1. ControlsInit => ControlsInv
  BY ControlsStart
<1>2. ControlsInv /\ [ControlsNext]_controlVars => ControlsInv'
  <2> SUFFICES ASSUME ControlsInv, [ControlsNext]_controlVars
               PROVE  ControlsInv'
    OBVIOUS
  <2>1. CASE UNCHANGED <<kpis, measured, budgets, lines>>
    BY <2>1, Zenon DEF ControlsInv, ControlsTypeOK
  <2>2. ASSUME NEW r \in Risks, NEW status \in {"open", "resolved"},
               SetRisk(r, status)
        PROVE  ControlsInv'
    BY <2>1, <2>2 DEF SetRisk
  <2>3. ASSUME NEW r \in Risks, DeleteRisk(r) PROVE ControlsInv'
    BY <2>1, <2>3 DEF DeleteRisk
  <2>4. ASSUME NEW k \in Kpis,
               \/ CreateKpi(k) \/ ArchiveKpi(k)
               \/ \E time \in Times, value \in Values :
                     AddKpiMeasurement(k, time, value)
        PROVE  ControlsInv'
    BY <2>4, KpisStay, Zenon
  <2>5. ASSUME NEW v \in Versions,
               \/ CreateBudget(v) \/ ApproveBudget(v) \/ CancelBudget(v)
               \/ \E source \in Versions : ReviseBudget(v, source)
               \/ \E s \in Slots :
                     \/ \E parent \in Slots \cup {NULL}, n \in Amounts :
                           SetBudgetLine(v, s, parent, n)
                     \/ DeleteBudgetLine(v, s)
        PROVE  ControlsInv'
    BY <2>5, BudgetsStay, ReviseBudgetSound, SetBudgetLineSound,
       DeleteBudgetLineSound, Zenon
  <2>6. CASE ControlsNext
    BY <2>2, <2>3, <2>4, <2>5, <2>6, Zenon DEF ControlsNext
  <2>7. CASE UNCHANGED controlVars
    BY <2>1, <2>7 DEF controlVars
  <2>8. QED
    BY <2>6, <2>7
<1>3. ControlsInv => ControlsSound
  BY ControlsAreSound
<1>4. QED
  BY <1>1, <1>2, <1>3, PTL DEF ControlsSpec
-----------------------------------------------------------------------------
(* The old financial entries.                                              *)

Old == [kind : Kinds, sum : Nat, date : Nat, reverses : Nat]
Receipt == [kind : Kinds \cup {"none"}, sum : Nat, date : Nat, entry : Nat]

\* The copies are of entries there are, and each has a number of its own.
CopiesMatch(rows, entries) ==
    /\ DOMAIN rows \subseteq Copied(entries)
    /\ \A i \in DOMAIN rows :
          /\ rows[i].number \in Nat \ otherNumbers
          /\ rows[i].accounts = AccountsOf(entries[i])
          /\ rows[i].sum = entries[i].sum
          /\ \A j \in DOMAIN rows : i # j => rows[i].number # rows[j].number

NotReversals(entries) == {i \in DOMAIN entries : entries[i].reverses = 0}
KeysUsed == {k \in Keys : receipts[k] # NoReceipt}

\* Nothing has been copied, or all that there is to copy has.
LegacyInv ==
    /\ oldEntries \in Seq(Old)
    /\ \A i \in DOMAIN oldEntries : oldEntries[i].reverses <= Len(oldEntries)
    /\ DOMAIN copies \in {{}, Copied(oldEntries)}
    /\ CopiesMatch(copies, oldEntries)
    /\ otherNumbers \subseteq Nat /\ IsFiniteSet(otherNumbers)
    /\ receipts \in [Keys -> Receipt]
    /\ PostedOnce

LEMMA LegacyConstants ==
  /\ \A sum \in Sums : sum \in Nat
  /\ \A kind \in Kinds :
        kind \in {"revenue", "expense", "investment", "distribution", "valuation"}
  /\ IsFiniteSet(Keys)
BY LegacyAssumption

LEMMA GreatestIs ==
  ASSUME NEW S, IsFiniteSet(S), S # {}, \A x \in S : x \in Int
  PROVE  Max(S) \in S /\ \A x \in S : x <= Max(S)
<1>1. PICK y \in S : \A x \in S : x <= y
  BY LargestExists
<1>2. \A x \in S : y >= x
  BY <1>1
<1>3. Max(S) \in S /\ \A x \in S : Max(S) >= x
  BY <1>2, Zenon DEF Max
<1>4. QED
  BY <1>3

LEMMA EntriesAreFinite ==
  ASSUME NEW entries \in Seq(Old)
  PROVE  /\ IsFiniteSet(DOMAIN entries) /\ DOMAIN entries \subseteq Nat \ {0}
         /\ Copied(entries) \subseteq DOMAIN entries /\ IsFiniteSet(Copied(entries))
         /\ \A i \in DOMAIN entries : entries[i] \in Old
<1>1. DOMAIN entries = 1 .. Len(entries) /\ Len(entries) \in Nat
      /\ \A i \in DOMAIN entries : entries[i] \in Old
  OBVIOUS
<1>2. IsFiniteSet(DOMAIN entries)
  BY <1>1, FS_Interval
<1>3. Copied(entries) \subseteq DOMAIN entries
  BY DEF Copied
<1>4. IsFiniteSet(Copied(entries))
  BY <1>2, <1>3, FS_Subset
<1>5. QED
  BY <1>1, <1>2, <1>3, <1>4

\* The numbers that are taken are no greater than the greatest of them.
LEMMA NumbersAreBounded ==
  ASSUME NEW entries \in Seq(Old), CopiesMatch(copies, entries),
         otherNumbers \subseteq Nat, IsFiniteSet(otherNumbers)
  PROVE  /\ Max({0} \cup TakenNumbers) \in Nat
         /\ \A n \in TakenNumbers : n <= Max({0} \cup TakenNumbers)
<1> DEFINE own == {copies[i].number : i \in DOMAIN copies}
           f == [i \in DOMAIN copies |-> copies[i].number]
           D == DOMAIN copies
           all == {0} \cup TakenNumbers
<1>1. IsFiniteSet(D)
  <2>1. D \subseteq Copied(entries)
    BY DEF CopiesMatch
  <2>2. QED
    BY <2>1, EntriesAreFinite, FS_Subset
<1>2. f \in Surjection(D, own)
  BY DEF Surjection
<1>3. \A n \in own : n \in Nat
  BY DEF CopiesMatch
<1>4. TakenNumbers = own \cup otherNumbers
  BY DEF TakenNumbers
<1> HIDE DEF own, f, D
<1>5. IsFiniteSet(own)
  BY <1>1, <1>2, FS_Surjection
<1>6. IsFiniteSet(all) /\ all # {} /\ \A n \in all : n \in Nat
  <2>1. IsFiniteSet(own \cup otherNumbers)
    BY <1>5, FS_Union
  <2>2. IsFiniteSet({0} \cup (own \cup otherNumbers))
    BY <2>1, FS_Singleton, FS_Union
  <2>3. QED
    BY <1>3, <1>4, <2>2
<1>7. TakenNumbers \subseteq all
  OBVIOUS
<1> HIDE DEF all
<1>8. Max(all) \in all /\ \A n \in all : n <= Max(all)
  BY <1>6, GreatestIs
<1>9. Max(all) \in Nat /\ \A n \in TakenNumbers : n <= Max(all)
  BY <1>6, <1>7, <1>8
<1>10. QED
  BY <1>9 DEF all

\* Each entry has a place of its own.
Before(entries, i) ==
    {j \in Copied(entries) :
        \/ entries[j].date < entries[i].date
        \/ entries[j].date = entries[i].date /\ j <= i}

LEMMA PlaceIs ==
  ASSUME NEW entries \in Seq(Old), NEW i \in Copied(entries)
  PROVE  /\ Place(entries, i) = Cardinality(Before(entries, i))
         /\ IsFiniteSet(Before(entries, i)) /\ i \in Before(entries, i)
         /\ Place(entries, i) \in Nat \ {0}
<1>1. Place(entries, i) = Cardinality(Before(entries, i))
  BY DEF Place, Before
<1>2. Before(entries, i) \subseteq Copied(entries) /\ i \in Before(entries, i)
  <2>1. i \in Nat /\ i <= i
    BY EntriesAreFinite
  <2>2. QED
    BY <2>1 DEF Before
<1>3. IsFiniteSet(Before(entries, i))
  BY <1>2, EntriesAreFinite, FS_Subset
<1>4. Cardinality(Before(entries, i)) \in Nat \ {0}
  BY <1>2, <1>3, FS_CardinalityType, FS_EmptySet
<1>5. QED
  BY <1>1, <1>2, <1>3, <1>4

LEMMA PlacesGrow ==
  ASSUME NEW entries \in Seq(Old), NEW i \in Copied(entries),
         NEW j \in Copied(entries),
         \/ entries[i].date < entries[j].date
         \/ entries[i].date = entries[j].date /\ i < j
  PROVE  Place(entries, i) < Place(entries, j)
<1> DEFINE A == Before(entries, i)
           B == Before(entries, j)
<1>1. /\ IsFiniteSet(A) /\ IsFiniteSet(B) /\ j \in B
      /\ Place(entries, i) = Cardinality(A) /\ Place(entries, j) = Cardinality(B)
  BY PlaceIs
<1>2. A \subseteq B \ {j}
  <2>1. \A h \in Copied(entries) : entries[h].date \in Nat /\ h \in Nat
    BY EntriesAreFinite DEF Old
  <2>2. QED
    BY <2>1 DEF Before
<1> HIDE DEF A, B
<1>3. IsFiniteSet(B \ {j}) /\ Cardinality(B \ {j}) = Cardinality(B) - 1
  BY <1>1, FS_RemoveElement
<1>4. Cardinality(A) <= Cardinality(B \ {j})
  BY <1>2, <1>3, FS_Subset
<1>5. Cardinality(A) \in Nat /\ Cardinality(B) \in Nat
  BY <1>1, FS_CardinalityType
<1>6. QED
  BY <1>1, <1>3, <1>4, <1>5

LEMMA PlacesDiffer ==
  ASSUME NEW entries \in Seq(Old), NEW i \in Copied(entries),
         NEW j \in Copied(entries), i # j
  PROVE  Place(entries, i) # Place(entries, j)
<1>1. /\ entries[i].date \in Nat /\ entries[j].date \in Nat /\ i \in Nat /\ j \in Nat
      /\ Place(entries, i) \in Nat /\ Place(entries, j) \in Nat
  BY EntriesAreFinite, PlaceIs DEF Old
<1>2. CASE entries[i].date < entries[j].date \/ (entries[i].date = entries[j].date /\ i < j)
  <2>1. Place(entries, i) < Place(entries, j)
    BY <1>2, PlacesGrow
  <2>2. QED
    BY <1>1, <2>1
<1>3. CASE entries[j].date < entries[i].date \/ (entries[j].date = entries[i].date /\ j < i)
  <2>1. Place(entries, j) < Place(entries, i)
    BY <1>3, PlacesGrow
  <2>2. QED
    BY <1>1, <2>1
<1>4. QED
  BY <1>1, <1>2, <1>3

\* syncLegacyFinance: all there is to copy is copied then, each under a number
\* that neither store has used.
LEMMA SyncedMatches ==
  ASSUME NEW entries \in Seq(Old), CopiesMatch(copies, entries),
         otherNumbers \subseteq Nat, IsFiniteSet(otherNumbers)
  PROVE  /\ DOMAIN Synced(entries) = Copied(entries)
         /\ CopiesMatch(Synced(entries), entries)
<1> DEFINE last == Max({0} \cup TakenNumbers)
           next(i) == last + Place(entries, i)
           D == DOMAIN copies
           new == {i \in Copied(entries) \ D : next(i) \notin otherNumbers}
           row(i) == IF i \in D THEN copies[i]
                     ELSE [number |-> next(i), accounts |-> AccountsOf(entries[i]),
                           sum |-> entries[i].sum]
           rows == [i \in D \cup new |-> row(i)]
<1>1. last \in Nat /\ \A n \in TakenNumbers : n <= last
  BY NumbersAreBounded
<1>2. /\ \A i \in D : copies[i].number \in TakenNumbers
      /\ \A n \in otherNumbers : n \in TakenNumbers
  BY DEF TakenNumbers
<1>3. Synced(entries) = rows
  BY DEF Synced
<1>4. D \subseteq Copied(entries)
  BY DEF CopiesMatch
<1> HIDE DEF last, D
<1>5. ASSUME NEW i \in Copied(entries)
      PROVE  next(i) \in Nat /\ next(i) > last /\ next(i) \notin otherNumbers
  <2>1. Place(entries, i) \in Nat \ {0}
    BY PlaceIs
  <2>2. next(i) \in Nat /\ next(i) > last
    BY <1>1, <2>1
  <2>3. QED
    BY <1>1, <1>2, <2>2
<1>6. D \cup new = Copied(entries)
  BY <1>4, <1>5
<1>7. DOMAIN rows = Copied(entries)
  BY <1>6
<1>8. ASSUME NEW i \in D
      PROVE  /\ rows[i] = copies[i] /\ copies[i].number \in Nat \ otherNumbers
             /\ copies[i].number <= last
             /\ copies[i].accounts = AccountsOf(entries[i])
             /\ copies[i].sum = entries[i].sum
             /\ \A j \in D : i # j => copies[i].number # copies[j].number
  BY <1>1, <1>2 DEF CopiesMatch, D
<1>9. ASSUME NEW i \in Copied(entries), i \notin D
      PROVE  /\ rows[i].number = next(i)
             /\ rows[i].accounts = AccountsOf(entries[i])
             /\ rows[i].sum = entries[i].sum
  BY <1>6, <1>9
<1> HIDE DEF rows, new
<1>10. ASSUME NEW i \in Copied(entries)
       PROVE  /\ rows[i].number \in Nat \ otherNumbers
              /\ rows[i].accounts = AccountsOf(entries[i])
              /\ rows[i].sum = entries[i].sum
  <2>1. CASE i \in D
    BY <2>1, <1>8
  <2>2. CASE i \notin D
    BY <2>2, <1>5, <1>9
  <2>3. QED
    BY <2>1, <2>2
<1>11. ASSUME NEW i \in Copied(entries), NEW j \in Copied(entries), i # j
       PROVE  rows[i].number # rows[j].number
  <2>1. CASE i \in D /\ j \in D
    BY <2>1, <1>8, <1>11
  <2>2. CASE i \in D /\ j \notin D
    <3>1. rows[j].number = next(j)
      BY <2>2, <1>9
    <3>2. rows[i].number = copies[i].number
      BY <2>2, <1>8
    <3>3. QED
      BY <2>2, <3>1, <3>2, <1>1, <1>5, <1>8
  <2>3. CASE i \notin D /\ j \in D
    <3>1. rows[i].number = next(i)
      BY <2>3, <1>9
    <3>2. rows[j].number = copies[j].number
      BY <2>3, <1>8
    <3>3. QED
      BY <2>3, <3>1, <3>2, <1>1, <1>5, <1>8
  <2>4. CASE i \notin D /\ j \notin D
    <3>1. rows[i].number = next(i) /\ rows[j].number = next(j)
      BY <2>4, <1>9
    <3>2. /\ Place(entries, i) \in Nat /\ Place(entries, j) \in Nat
          /\ Place(entries, i) # Place(entries, j)
      BY <1>11, PlaceIs, PlacesDiffer
    <3>3. QED
      BY <3>1, <3>2, <1>1
  <2>5. QED
    BY <2>1, <2>2, <2>3, <2>4
<1>12. CopiesMatch(rows, entries)
  BY <1>7, <1>10, <1>11 DEF CopiesMatch
<1>13. QED
  BY <1>3, <1>7, <1>12
\* What an entry adds to the total of a kind.
OfKind(entries, kind) ==
    [i \in DOMAIN entries |-> IF entries[i].kind = kind THEN Signed(entries[i]) ELSE 0]

LEMMA TotalIs ==
  ASSUME NEW entries \in Seq(Old), NEW kind
  PROVE  /\ Total(entries, kind) =
               SumFunctionOnSet(OfKind(entries, kind), DOMAIN entries)
         /\ \A i \in DOMAIN entries : OfKind(entries, kind)[i] \in Int
<1> DEFINE D == DOMAIN entries
           own == {i \in D : entries[i].kind = kind}
           f == [i \in D |-> Signed(entries[i])]
           g == OfKind(entries, kind)
<1>1. IsFiniteSet(D) /\ own \in SUBSET D /\ IsFiniteSet(own)
  <2>1. IsFiniteSet(D) /\ own \subseteq D
    BY EntriesAreFinite
  <2>2. QED
    BY <2>1, FS_Subset
<1>2. ASSUME NEW i \in D PROVE Signed(entries[i]) \in Int
  <2>1. entries[i].sum \in Nat
    BY EntriesAreFinite DEF Old
  <2>2. QED
    BY <2>1 DEF Signed
<1>3. /\ \A i \in D : g[i] \in Int
      /\ \A i \in own : f[i] = g[i]
      /\ \A i \in D \ own : g[i] = 0
  BY <1>2 DEF OfKind
<1>4. Total(entries, kind) = SumFunctionOnSet(f, own)
  BY Zenon DEF Total
<1> HIDE DEF D, own, f, g
<1>5. SumFunctionOnSet(f, own) = SumFunctionOnSet(g, own)
  BY <1>1, <1>3, SumSame
<1>6. SumFunctionOnSet(g, D) = SumFunctionOnSet(g, own)
  BY <1>1, <1>3, SumWithin
<1>7. QED
  BY <1>3, <1>4, <1>5, <1>6 DEF D, g

\* The cash of a copy is what the old report makes of its entry.
LEMMA CashOfCopy ==
  ASSUME LegacyInv, NEW i \in DOMAIN copies
  PROVE  Cash(i) + OfKind(oldEntries, "expense")[i]
                 + OfKind(oldEntries, "distribution")[i] =
         OfKind(oldEntries, "revenue")[i] + OfKind(oldEntries, "investment")[i]
<1> DEFINE entry == oldEntries[i]
           normal == NormalAccounts(entry.kind)
<1>1. /\ i \in Copied(oldEntries) /\ copies[i].accounts = AccountsOf(entry)
      /\ copies[i].sum = entry.sum
  BY DEF LegacyInv, CopiesMatch
<1>2. /\ i \in DOMAIN oldEntries /\ entry.sum \in Nat /\ entry.kind # "valuation"
      /\ entry.kind \in Kinds /\ entry \in Old
  BY <1>1, EntriesAreFinite DEF LegacyInv, Copied, Old
<1>3. entry.kind \in {"revenue", "expense", "investment", "distribution"}
  BY <1>2, LegacyConstants
<1>4. \A kind : OfKind(oldEntries, kind)[i] =
                   IF entry.kind = kind THEN Signed(entry) ELSE 0
  BY <1>2 DEF OfKind
<1>5. copies[i].accounts = IF entry.reverses = 0 THEN normal
                                               ELSE <<normal[2], normal[1]>>
  BY <1>1 DEF AccountsOf
<1> HIDE DEF entry, normal
<1>6. CASE entry.kind \in {"revenue", "investment"}
  <2>1. normal[1] = "cash" /\ normal[2] # "cash" /\ normal = <<normal[1], normal[2]>>
    BY <1>6 DEF NormalAccounts, normal
  <2>2. Cash(i) = Signed(entry)
    BY <1>1, <1>2, <1>5, <2>1 DEF Cash, Signed
  <2>3. QED
    BY <1>2, <1>4, <1>6, <2>2 DEF Signed
<1>7. CASE entry.kind \in {"expense", "distribution"}
  <2>1. normal[2] = "cash" /\ normal[1] # "cash" /\ normal = <<normal[1], normal[2]>>
    BY <1>7 DEF NormalAccounts, normal
  <2>2. Cash(i) = -Signed(entry)
    BY <1>1, <1>2, <1>5, <2>1 DEF Cash, Signed
  <2>3. QED
    BY <1>2, <1>4, <1>7, <2>2 DEF Signed
<1>8. QED
  BY <1>3, <1>6, <1>7

\* An entry that is not copied counts in no total of the cash.
LEMMA NoCashOfOthers ==
  ASSUME LegacyInv, NEW i \in DOMAIN oldEntries, i \notin Copied(oldEntries),
         NEW kind \in {"revenue", "expense", "investment", "distribution"}
  PROVE  OfKind(oldEntries, kind)[i] = 0
BY DEF OfKind, Copied

LEMMA JournalAgrees == ASSUME LegacyInv PROVE JournalTellsTheSame
<1> SUFFICES ASSUME DOMAIN copies # {}
             PROVE  JournalTellsTheSame
  BY DEF JournalTellsTheSame
<1> DEFINE D == DOMAIN oldEntries
           C == DOMAIN copies
           cash == [i \in C |-> Cash(i)]
           c == [i \in D |-> IF i \in C THEN Cash(i) ELSE 0]
           r == OfKind(oldEntries, "revenue")
           e == OfKind(oldEntries, "expense")
           n == OfKind(oldEntries, "investment")
           d == OfKind(oldEntries, "distribution")
           u == [i \in D |-> c[i] + e[i]]
           v == [i \in D |-> u[i] + d[i]]
           w == [i \in D |-> r[i] + n[i]]
<1>1. C = Copied(oldEntries) /\ oldEntries \in Seq(Old)
  BY DEF LegacyInv
<1>2. /\ \A i, j \in C :
            /\ i # j => copies[i].number # copies[j].number
            /\ copies[i].number \notin otherNumbers
  BY DEF LegacyInv, CopiesMatch
<1>3. /\ IsFiniteSet(D) /\ C \in SUBSET D /\ IsFiniteSet(C)
  BY <1>1, EntriesAreFinite
<1>4. /\ \A i \in D : r[i] \in Int /\ e[i] \in Int /\ n[i] \in Int /\ d[i] \in Int
      /\ Total(oldEntries, "revenue") = SumFunctionOnSet(r, D)
      /\ Total(oldEntries, "expense") = SumFunctionOnSet(e, D)
      /\ Total(oldEntries, "investment") = SumFunctionOnSet(n, D)
      /\ Total(oldEntries, "distribution") = SumFunctionOnSet(d, D)
  BY <1>1, TotalIs
<1>5. ASSUME NEW i \in C PROVE Cash(i) \in Int
  <2>1. /\ copies[i].sum \in Nat
        /\ copies[i].accounts = AccountsOf(oldEntries[i])
        /\ oldEntries[i].kind \in {"revenue", "expense", "investment", "distribution"}
    <3>1. /\ i \in Copied(oldEntries) /\ oldEntries[i] \in Old
          /\ copies[i].accounts = AccountsOf(oldEntries[i])
          /\ copies[i].sum = oldEntries[i].sum
      BY <1>1, EntriesAreFinite DEF LegacyInv, CopiesMatch
    <3>2. oldEntries[i].kind \in Kinds /\ oldEntries[i].kind # "valuation"
      BY <3>1 DEF Old, Copied
    <3>3. QED
      BY <3>1, <3>2, LegacyConstants DEF Old
  <2>2. copies[i].accounts[1] = "cash" \/ copies[i].accounts[2] = "cash"
    BY <2>1 DEF AccountsOf, NormalAccounts
  <2>3. QED
    BY <2>1, <2>2 DEF Cash
<1>6. \A i \in D : c[i] \in Int
  BY <1>5
<1>7. ASSUME NEW i \in D PROVE c[i] + e[i] + d[i] = r[i] + n[i]
  <2>1. CASE i \in C
    <3>1. c[i] = Cash(i)
      BY <2>1
    <3>2. QED
      BY <2>1, <3>1, CashOfCopy
  <2>2. CASE i \notin C
    <3>1. c[i] = 0
      BY <2>2
    <3>2. e[i] = 0 /\ d[i] = 0 /\ r[i] = 0 /\ n[i] = 0
      BY <1>1, <2>2, NoCashOfOthers
    <3> HIDE DEF c, e, d, r, n
    <3>3. QED
      BY <3>1, <3>2
  <2>3. QED
    BY <2>1, <2>2
<1>8. /\ \A i \in C : cash[i] = c[i]
      /\ \A i \in D \ C : c[i] = 0
  BY <1>3
<1> HIDE DEF c, e, d, r, n, D, C, cash
<1>9. /\ \A i \in D : u[i] = c[i] + e[i] /\ u[i] \in Int
      /\ \A i \in D : v[i] = u[i] + d[i] /\ v[i] \in Int
      /\ \A i \in D : w[i] = r[i] + n[i] /\ w[i] \in Int
      /\ \A i \in D : v[i] = w[i]
  BY <1>4, <1>6, <1>7
<1> HIDE DEF u, v, w
<1>10. SumFunctionOnSet(u, D) = SumFunctionOnSet(c, D) + SumFunctionOnSet(e, D)
  BY <1>3, <1>4, <1>6, <1>9, SumPlus
<1>11. SumFunctionOnSet(v, D) = SumFunctionOnSet(u, D) + SumFunctionOnSet(d, D)
  BY <1>3, <1>4, <1>9, SumPlus
<1>12. SumFunctionOnSet(w, D) = SumFunctionOnSet(r, D) + SumFunctionOnSet(n, D)
  BY <1>3, <1>4, <1>9, SumPlus
<1>13. SumFunctionOnSet(v, D) = SumFunctionOnSet(w, D)
  BY <1>3, <1>9, SumSame
<1>14. /\ SumFunctionOnSet(cash, C) = SumFunctionOnSet(c, C)
       /\ SumFunctionOnSet(c, D) = SumFunctionOnSet(c, C)
  <2>1. SumFunctionOnSet(cash, C) = SumFunctionOnSet(c, C)
    BY <1>3, <1>8, SumSame
  <2>2. SumFunctionOnSet(c, D) = SumFunctionOnSet(c, C)
    BY <1>3, <1>6, <1>8, SumWithin
  <2>3. QED
    BY <2>1, <2>2
<1>15. /\ SumFunctionOnSet(c, D) \in Int /\ SumFunctionOnSet(r, D) \in Int
       /\ SumFunctionOnSet(e, D) \in Int /\ SumFunctionOnSet(n, D) \in Int
       /\ SumFunctionOnSet(d, D) \in Int
  BY <1>3, <1>4, <1>6, SumIsInt
<1>16. SumFunctionOnSet(cash, C) =
           Total(oldEntries, "revenue") - Total(oldEntries, "expense")
           + Total(oldEntries, "investment") - Total(oldEntries, "distribution")
  BY <1>4, <1>10, <1>11, <1>12, <1>13, <1>14, <1>15
<1>17. QED
  BY <1>1, <1>2, <1>16, Zenon DEF JournalTellsTheSame, C, cash

-----------------------------------------------------------------------------
(* Each operation on the old entries.                                      *)

\* What the entries and the copies are once an entry has been posted.
PostedLast(entry) ==
    /\ oldEntries' \in Seq(Old) /\ Len(oldEntries) \in Nat
    /\ Len(oldEntries') = Len(oldEntries) + 1
    /\ oldEntries'[Len(oldEntries) + 1] = entry
    /\ \A i \in DOMAIN oldEntries : oldEntries'[i] = oldEntries[i]
    /\ DOMAIN oldEntries = 1 .. Len(oldEntries)
    /\ DOMAIN oldEntries' = DOMAIN oldEntries \cup {Len(oldEntries) + 1}
    /\ DOMAIN copies' = Copied(oldEntries')
    /\ CopiesMatch(copies', oldEntries')

LEMMA PostedIs ==
  ASSUME LegacyInv, NEW entry \in Old, Post(entry)
  PROVE  PostedLast(entry)
<1>1. /\ oldEntries \in Seq(Old) /\ oldEntries' = Append(oldEntries, entry)
      /\ copies' = Synced(oldEntries')
  BY DEF LegacyInv, Post
<1>2. /\ oldEntries' \in Seq(Old)
      /\ Len(oldEntries') = Len(oldEntries) + 1 /\ Len(oldEntries) \in Nat
      /\ oldEntries'[Len(oldEntries) + 1] = entry
      /\ \A i \in 1 .. Len(oldEntries) : oldEntries'[i] = oldEntries[i]
      /\ DOMAIN oldEntries = 1 .. Len(oldEntries)
      /\ DOMAIN oldEntries' = 1 .. Len(oldEntries) + 1
  BY <1>1, AppendProperties
<1>3. DOMAIN oldEntries' = DOMAIN oldEntries \cup {Len(oldEntries) + 1}
  BY <1>2
<1>4. CopiesMatch(copies, oldEntries')
  <2>1. Copied(oldEntries) \subseteq Copied(oldEntries')
    BY <1>2, <1>3 DEF Copied
  <2>2. \A i \in DOMAIN copies : i \in DOMAIN oldEntries
    BY DEF LegacyInv, CopiesMatch, Copied
  <2>3. \A i \in DOMAIN copies : oldEntries'[i] = oldEntries[i]
    BY <2>2, <1>2
  <2>4. QED
    BY <2>1, <2>3 DEF LegacyInv, CopiesMatch
<1>5. /\ DOMAIN copies' = Copied(oldEntries')
      /\ CopiesMatch(copies', oldEntries')
  <2>1. otherNumbers \subseteq Nat /\ IsFiniteSet(otherNumbers)
    BY DEF LegacyInv
  <2>2. PICK entries : entries = oldEntries'
    OBVIOUS
  <2>3. /\ DOMAIN Synced(entries) = Copied(entries)
        /\ CopiesMatch(Synced(entries), entries)
    BY <1>2, <1>4, <2>1, <2>2, SyncedMatches
  <2>4. QED
    BY <1>1, <2>2, <2>3
<1>6. QED
  BY <1>2, <1>3, <1>5 DEF PostedLast

LEMMA CreateEntrySound ==
  ASSUME LegacyInv, NEW k \in Keys, NEW kind \in Kinds, NEW sum \in Sums,
         NEW date \in 1 .. LastDate, CreateFinancialEntry(k, kind, sum, date)
  PROVE  LegacyInv'
<1> DEFINE entry == OldEntry(kind, sum, date)
           n == Len(oldEntries) + 1
           receipt == [kind |-> kind, sum |-> sum, date |-> date, entry |-> n]
<1>1. /\ Post(entry) /\ receipts[k] = NoReceipt
      /\ receipts' = [receipts EXCEPT ![k] = receipt]
      /\ UNCHANGED <<otherNumbers, ownerThere>>
  BY DEF CreateFinancialEntry, IsNew
<1>2. entry \in Old /\ entry.reverses = 0
  BY LegacyConstants DEF OldEntry, Old
<1> HIDE DEF entry
<1>3. /\ oldEntries' \in Seq(Old) /\ n \in Nat \ {0} /\ Len(oldEntries') = n
      /\ oldEntries'[n] = entry
      /\ \A i \in DOMAIN oldEntries : oldEntries'[i] = oldEntries[i]
      /\ DOMAIN oldEntries = 1 .. Len(oldEntries)
      /\ DOMAIN oldEntries' = DOMAIN oldEntries \cup {n}
      /\ DOMAIN copies' = Copied(oldEntries')
      /\ CopiesMatch(copies', oldEntries')
  <2>1. PostedLast(entry)
    BY <1>1, <1>2, PostedIs
  <2>2. QED
    BY <2>1 DEF PostedLast
<1>4. /\ \A i \in DOMAIN oldEntries : oldEntries[i].reverses <= Len(oldEntries)
      /\ \A i \in DOMAIN oldEntries : oldEntries[i].reverses \in Nat
      /\ receipts \in [Keys -> Receipt] /\ Len(oldEntries) \in Nat
  <2>1. oldEntries \in Seq(Old)
    BY DEF LegacyInv
  <2>2. \A i \in DOMAIN oldEntries : oldEntries[i] \in Old
    BY <2>1, EntriesAreFinite
  <2>3. \A i \in DOMAIN oldEntries : oldEntries[i].reverses \in Nat
    BY <2>2 DEF Old
  <2>4. /\ \A i \in DOMAIN oldEntries : oldEntries[i].reverses <= Len(oldEntries)
        /\ receipts \in [Keys -> Receipt]
    BY Zenon DEF LegacyInv
  <2>5. QED
    BY <2>1, <2>3, <2>4
<1>5. receipt \in Receipt /\ receipt # NoReceipt
  BY <1>3, LegacyConstants DEF Receipt, NoReceipt
<1> HIDE DEF receipt
<1>6. \A i \in DOMAIN oldEntries' : oldEntries'[i].reverses <= Len(oldEntries')
  BY <1>2, <1>3, <1>4
<1>7. ASSUME NEW i \in DOMAIN oldEntries', NEW j \in DOMAIN oldEntries',
             oldEntries'[i].reverses = j
      PROVE  /\ oldEntries'[j].reverses = 0
             /\ \A h \in DOMAIN oldEntries' : oldEntries'[h].reverses = j => h = i
  <2>1. i # n /\ i \in DOMAIN oldEntries /\ oldEntries'[i] = oldEntries[i]
    BY <1>2, <1>3, <1>7
  <2>2. j # n /\ j \in DOMAIN oldEntries /\ oldEntries'[j] = oldEntries[j]
    BY <1>3, <1>4, <1>7, <2>1
  <2>3. /\ oldEntries[j].reverses = 0
        /\ \A h \in DOMAIN oldEntries : oldEntries[h].reverses = j => h = i
    BY <1>7, <2>1, <2>2 DEF LegacyInv, PostedOnce
  <2>4. \A h \in DOMAIN oldEntries' : oldEntries'[h].reverses = j =>
           h \in DOMAIN oldEntries
    BY <1>2, <1>3, <2>2
  <2>5. QED
    BY <1>3, <2>2, <2>3, <2>4
<1>8. Cardinality(NotReversals(oldEntries')) <= 1 + Cardinality(KeysUsed')
  <2>1. NotReversals(oldEntries') = NotReversals(oldEntries) \cup {n}
    BY <1>2, <1>3 DEF NotReversals
  <2>2. KeysUsed' = KeysUsed \cup {k} /\ k \notin KeysUsed
    BY <1>1, <1>4, <1>5 DEF KeysUsed
  <2>3. IsFiniteSet(NotReversals(oldEntries)) /\ n \notin NotReversals(oldEntries)
    <3>1. NotReversals(oldEntries) \subseteq DOMAIN oldEntries
      BY DEF NotReversals
    <3>2. IsFiniteSet(DOMAIN oldEntries)
      BY EntriesAreFinite DEF LegacyInv
    <3>3. QED
      BY <1>3, <1>4, <3>1, <3>2, FS_Subset
  <2>4. IsFiniteSet(KeysUsed)
    BY LegacyConstants, FS_Subset DEF KeysUsed
  <2>5. Cardinality(NotReversals(oldEntries)) <= 1 + Cardinality(KeysUsed)
    BY DEF LegacyInv, PostedOnce, NotReversals, KeysUsed
  <2>6. Cardinality(NotReversals(oldEntries')) = Cardinality(NotReversals(oldEntries)) + 1
    BY <2>1, <2>3, FS_AddElement
  <2>7. Cardinality(KeysUsed') = Cardinality(KeysUsed) + 1
    BY <2>2, <2>4, FS_AddElement
  <2>8. /\ Cardinality(NotReversals(oldEntries)) \in Nat
        /\ Cardinality(KeysUsed) \in Nat
    BY <2>3, <2>4, FS_CardinalityType
  <2>9. QED
    BY <2>5, <2>6, <2>7, <2>8
<1>9. PostedOnce'
  BY <1>7, <1>8 DEF PostedOnce, NotReversals, KeysUsed
<1>10. receipts' \in [Keys -> Receipt]
  BY <1>1, <1>4, <1>5
<1>11. CopiesMatch(copies, oldEntries)'
  BY <1>1, <1>3 DEF CopiesMatch
<1>12. otherNumbers' \subseteq Nat /\ IsFiniteSet(otherNumbers')
  BY <1>1 DEF LegacyInv
<1>13. QED
  BY <1>3, <1>6, <1>9, <1>10, <1>11, <1>12, Zenon DEF LegacyInv

LEMMA ReverseEntrySound ==
  ASSUME LegacyInv, NEW r \in DOMAIN oldEntries, NEW date \in 1 .. LastDate,
         ReverseFinancialEntry(r, date)
  PROVE  LegacyInv'
<1> DEFINE old == oldEntries[r]
           entry == [old EXCEPT !.date = date, !.reverses = r]
           n == Len(oldEntries) + 1
<1>1. /\ Post(entry) /\ old.reverses = 0
      /\ \A j \in DOMAIN oldEntries : oldEntries[j].reverses # r
      /\ UNCHANGED <<otherNumbers, receipts, ownerThere>>
  BY DEF ReverseFinancialEntry, Reversible
<1>2. old \in Old /\ r \in Nat \ {0}
  BY EntriesAreFinite DEF LegacyInv
<1> HIDE DEF old
<1>3. entry \in Old /\ entry.reverses = r
  <2> DEFINE dated == [old EXCEPT !.date = date]
  <2>1. date \in Nat /\ r \in Nat
    BY <1>2
  <2>2. dated \in Old
    BY <1>2, <2>1 DEF Old
  <2>3. entry = [dated EXCEPT !.reverses = r]
    OBVIOUS
  <2> HIDE DEF dated, entry
  <2>4. QED
    BY <2>1, <2>2, <2>3 DEF Old
<1> HIDE DEF entry
<1>4. /\ oldEntries' \in Seq(Old) /\ n \in Nat \ {0} /\ Len(oldEntries') = n
      /\ oldEntries'[n] = entry
      /\ \A i \in DOMAIN oldEntries : oldEntries'[i] = oldEntries[i]
      /\ DOMAIN oldEntries = 1 .. Len(oldEntries)
      /\ DOMAIN oldEntries' = DOMAIN oldEntries \cup {n}
      /\ DOMAIN copies' = Copied(oldEntries')
      /\ CopiesMatch(copies', oldEntries')
  <2>1. PostedLast(entry)
    BY <1>1, <1>3, PostedIs
  <2>2. QED
    BY <2>1 DEF PostedLast
<1>5. /\ \A i \in DOMAIN oldEntries : oldEntries[i].reverses <= Len(oldEntries)
      /\ \A i \in DOMAIN oldEntries : oldEntries[i].reverses \in Nat
      /\ receipts \in [Keys -> Receipt] /\ Len(oldEntries) \in Nat
  <2>1. oldEntries \in Seq(Old)
    BY DEF LegacyInv
  <2>2. \A i \in DOMAIN oldEntries : oldEntries[i] \in Old
    BY <2>1, EntriesAreFinite
  <2>3. \A i \in DOMAIN oldEntries : oldEntries[i].reverses \in Nat
    BY <2>2 DEF Old
  <2>4. /\ \A i \in DOMAIN oldEntries : oldEntries[i].reverses <= Len(oldEntries)
        /\ receipts \in [Keys -> Receipt]
    BY Zenon DEF LegacyInv
  <2>5. QED
    BY <2>1, <2>3, <2>4
<1>6. \A i \in DOMAIN oldEntries' : oldEntries'[i].reverses <= Len(oldEntries')
  BY <1>3, <1>4, <1>5
<1>7. ASSUME NEW i \in DOMAIN oldEntries', NEW j \in DOMAIN oldEntries',
             oldEntries'[i].reverses = j
      PROVE  /\ oldEntries'[j].reverses = 0
             /\ \A h \in DOMAIN oldEntries' : oldEntries'[h].reverses = j => h = i
  <2>1. CASE i = n
    <3>1. j = r /\ oldEntries'[j].reverses = 0
      BY <1>1, <1>3, <1>4, <1>7, <2>1 DEF old
    <3>2. QED
      BY <1>1, <1>4, <2>1, <3>1
  <2>2. CASE i # n
    <3>1. i \in DOMAIN oldEntries /\ oldEntries'[i] = oldEntries[i]
      BY <1>4, <2>2
    <3>2. j # n /\ j # r /\ j \in DOMAIN oldEntries /\ oldEntries'[j] = oldEntries[j]
      BY <1>1, <1>4, <1>5, <1>7, <3>1
    <3>3. /\ oldEntries[j].reverses = 0
          /\ \A h \in DOMAIN oldEntries : oldEntries[h].reverses = j => h = i
      BY <1>7, <3>1, <3>2 DEF LegacyInv, PostedOnce
    <3>4. \A h \in DOMAIN oldEntries' : oldEntries'[h].reverses = j =>
             h \in DOMAIN oldEntries
      BY <1>3, <1>4, <3>2
    <3>5. QED
      BY <1>4, <3>2, <3>3, <3>4
  <2>3. QED
    BY <2>1, <2>2
<1>8. NotReversals(oldEntries') = NotReversals(oldEntries)
  BY <1>2, <1>3, <1>4 DEF NotReversals
<1>9. Cardinality(NotReversals(oldEntries)) <= 1 + Cardinality(KeysUsed)
  BY DEF LegacyInv, PostedOnce, NotReversals, KeysUsed
<1>10. KeysUsed' = KeysUsed
  BY <1>1 DEF KeysUsed
<1>11. PostedOnce'
  BY <1>7, <1>8, <1>9, <1>10 DEF PostedOnce, NotReversals, KeysUsed
<1>12. CopiesMatch(copies, oldEntries)'
  BY <1>1, <1>4 DEF CopiesMatch
<1>13. /\ otherNumbers' \subseteq Nat /\ IsFiniteSet(otherNumbers')
       /\ receipts' \in [Keys -> Receipt]
  BY <1>1 DEF LegacyInv
<1>14. QED
  BY <1>4, <1>6, <1>11, <1>12, <1>13, Zenon DEF LegacyInv

LEMMA ServerStartsSound == ASSUME LegacyInv, ServerStarts PROVE LegacyInv'
<1>1. /\ copies' = Synced(oldEntries)
      /\ UNCHANGED <<oldEntries, otherNumbers, receipts, ownerThere>>
  BY DEF ServerStarts
<1>2. /\ DOMAIN copies' = Copied(oldEntries)
      /\ CopiesMatch(copies', oldEntries)
  BY <1>1, SyncedMatches DEF LegacyInv
<1>3. CopiesMatch(copies, oldEntries)'
  BY <1>1, <1>2 DEF CopiesMatch
<1>4. PostedOnce'
  BY <1>1, Zenon DEF LegacyInv, PostedOnce
<1>5. QED
  BY <1>1, <1>2, <1>3, <1>4 DEF LegacyInv

LEMMA PostElsewhereSound == ASSUME LegacyInv, PostElsewhere PROVE LegacyInv'
<1> DEFINE last == Max({0} \cup TakenNumbers)
<1>1. /\ {0} \cup otherNumbers \cup {copies[i].number : i \in DOMAIN copies}
             = {0} \cup TakenNumbers
      /\ UNCHANGED <<oldEntries, copies, receipts, ownerThere>>
  BY DEF PostElsewhere, TakenNumbers
<1>2. otherNumbers' = otherNumbers \cup {1 + last}
  BY <1>1 DEF PostElsewhere
<1>3. last \in Nat /\ \A n \in TakenNumbers : n <= last
  BY NumbersAreBounded DEF LegacyInv
<1>4. \A i \in DOMAIN copies : copies[i].number \in TakenNumbers
  BY DEF TakenNumbers
<1> HIDE DEF last
<1>5. \A i \in DOMAIN copies : copies[i].number \in Nat \ otherNumbers'
  <2>1. \A i \in DOMAIN copies : copies[i].number \in Nat \ otherNumbers
    BY DEF LegacyInv, CopiesMatch
  <2>2. QED
    BY <1>2, <1>3, <1>4, <2>1
<1>6. CopiesMatch(copies, oldEntries)'
  BY <1>1, <1>5 DEF LegacyInv, CopiesMatch
<1>7. otherNumbers' \subseteq Nat /\ IsFiniteSet(otherNumbers')
  <2>1. otherNumbers \subseteq Nat /\ IsFiniteSet(otherNumbers)
    BY Zenon DEF LegacyInv
  <2>2. IsFiniteSet(otherNumbers \cup {1 + last})
    BY <2>1, FS_AddElement, Zenon
  <2>3. 1 + last \in Nat
    BY <1>3
  <2>4. QED
    BY <1>2, <2>1, <2>2, <2>3
<1>8. PostedOnce'
  BY <1>1, Zenon DEF LegacyInv, PostedOnce
<1>9. QED
  BY <1>1, <1>6, <1>7, <1>8 DEF LegacyInv

LEMMA LegacyStarts == ASSUME LegacyInit PROVE LegacyInv
<1>1. /\ copies = <<>> /\ otherNumbers = {} /\ ownerThere = FALSE
      /\ receipts = [k \in Keys |-> NoReceipt]
  BY DEF LegacyInit
<1>2. /\ oldEntries \in Seq(Old) /\ Len(oldEntries) <= 1
      /\ \A i \in DOMAIN oldEntries : oldEntries[i].reverses = 0
  <2>1. CASE oldEntries = <<>>
    BY <2>1
  <2>2. ASSUME NEW kind \in Kinds, NEW sum \in Sums,
               oldEntries = <<OldEntry(kind, sum, 1)>>
        PROVE  <1>2
    <3>1. OldEntry(kind, sum, 1) \in Old /\ OldEntry(kind, sum, 1).reverses = 0
      BY LegacyConstants DEF OldEntry, Old
    <3>2. QED
      BY <2>2, <3>1
  <2>3. QED
    BY <2>1, <2>2 DEF LegacyInit
<1>3. /\ DOMAIN copies = {} /\ CopiesMatch(copies, oldEntries)
  BY <1>1 DEF CopiesMatch
<1>4. receipts \in [Keys -> Receipt]
  BY <1>1 DEF Receipt, NoReceipt
<1>5. IsFiniteSet({}) /\ Len(oldEntries) \in Nat
  BY <1>2, FS_EmptySet
<1>6. \A i \in DOMAIN oldEntries : i # 0
  BY <1>2, EntriesAreFinite
<1>7. Cardinality(NotReversals(oldEntries)) <= 1 + Cardinality(KeysUsed)
  <2>1. NotReversals(oldEntries) \subseteq {1}
    BY <1>2, EntriesAreFinite DEF NotReversals
  <2>2. IsFiniteSet({1}) /\ Cardinality({1}) = 1
    BY FS_Singleton
  <2>3. Cardinality(NotReversals(oldEntries)) <= 1
    BY <2>1, <2>2, FS_Subset
  <2>4. IsFiniteSet(NotReversals(oldEntries)) /\ IsFiniteSet(KeysUsed)
    BY <2>1, <2>2, LegacyConstants, FS_Subset DEF KeysUsed
  <2>5. /\ Cardinality(NotReversals(oldEntries)) \in Nat
        /\ Cardinality(KeysUsed) \in Nat
    BY <2>4, FS_CardinalityType
  <2>6. QED
    BY <2>3, <2>5
<1>8. PostedOnce
  BY <1>2, <1>6, <1>7 DEF PostedOnce, NotReversals, KeysUsed
<1>9. QED
  BY <1>1, <1>2, <1>3, <1>4, <1>5, <1>8 DEF LegacyInv

\* The journal has every old entry once, under a number of its own, and its
\* cash is what the old reports make of the entries; each key has posted one
\* entry, and none is taken back twice, for any number of entries.
THEOREM AccountsAgree == LegacySpec => []BothAccountsAgree
<1>1. LegacyInit => LegacyInv
  BY LegacyStarts
<1>2. LegacyInv /\ [LegacyNext]_legacyVars => LegacyInv'
  <2> SUFFICES ASSUME LegacyInv, [LegacyNext]_legacyVars
               PROVE  LegacyInv'
    OBVIOUS
  <2>1. CASE UNCHANGED <<oldEntries, copies, otherNumbers, receipts>>
    BY <2>1, Zenon DEF LegacyInv, CopiesMatch, PostedOnce
  <2>2. CASE OwnerComes
    BY <2>1, <2>2 DEF OwnerComes
  <2>3. CASE LegacyNext
    BY <2>2, <2>3, CreateEntrySound, ReverseEntrySound, ServerStartsSound,
       PostElsewhereSound, Zenon
    DEF LegacyNext
  <2>4. CASE UNCHANGED legacyVars
    BY <2>1, <2>4 DEF legacyVars
  <2>5. QED
    BY <2>3, <2>4
<1>3. LegacyInv => BothAccountsAgree
  BY JournalAgrees DEF BothAccountsAgree, LegacyInv
<1>4. QED
  BY <1>1, <1>2, <1>3, PTL DEF LegacySpec
=============================================================================
