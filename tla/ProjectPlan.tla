---------------------------- MODULE ProjectPlan ----------------------------
(***************************************************************************)
(* Phases, tasks, their dependencies, time and progress                    *)
(* (src/operations-store.js).  A task belongs to a phase and may have a    *)
(* parent; it waits for others in one of four ways; time is recorded on    *)
(* it, and reports of progress move it too.  One project that is not       *)
(* archived; every operation is one transaction.                           *)
(***************************************************************************)
EXTENDS Nullable

CONSTANTS
    Phases, Tasks,
    Entries,  \* time entries that may be recorded
    Minutes,  \* lengths of time entries
    Percents  \* values of a progress; 0 and 100 are among them

ASSUME PlanAssumption ==
    /\ {0, 100} \subseteq Percents /\ Percents \subseteq 0 .. 100
    /\ Minutes \subseteq Nat \ {0}
    /\ NULL \notin Phases \cup Tasks
    /\ IsFiniteSet(Entries)

\* backlog is like todo; blocked and review are like in_progress; of the
\* statuses of a phase only cancelled is ever looked at.
TaskStatuses == {"todo", "in_progress", "done", "cancelled"}
PhaseStatuses == {"planned", "cancelled"}
DependencyTypes == {"finish_to_start", "start_to_start",
                    "finish_to_finish", "start_to_finish"}

VARIABLES
    phases,        \* phases[p]: NoPhase, or its status, archived_at and progress
    tasks,         \* tasks[t]: NoTask, or the row
    dependencies,  \* task waits for on, in the way of type
    timeEntries    \* timeEntries[e]: NoEntry, or its task and minutes

planVars == <<phases, tasks, dependencies, timeEntries>>

NoPhase == [status |-> "none", archived |-> FALSE, manual |-> FALSE,
            progress |-> 0]
NoTask == [status |-> "none", phase |-> NULL, parent |-> NULL, progress |-> 0,
           started |-> FALSE, completed |-> FALSE, archived |-> FALSE,
           minutes |-> 0]
NoEntry == [task |-> NULL, minutes |-> 0]
Dependency == [task : Tasks, on : Tasks, type : DependencyTypes]

PlanInit ==
    /\ phases = [p \in Phases |-> NoPhase]
    /\ tasks = [t \in Tasks |-> NoTask]
    /\ dependencies = {}
    /\ timeEntries = [e \in Entries |-> NoEntry]

-----------------------------------------------------------------------------
(* Phases.                                                                 *)

LiveTask(t) == tasks[t].status \notin {"none", "cancelled"}
LivePhase(p) == phases[p].status \notin {"none", "cancelled"}

CreatePhase(p, status, manual, progress) ==
    /\ phases[p] = NoPhase
    /\ phases' = [phases EXCEPT ![p] =
           [NoPhase EXCEPT !.status = status, !.manual = manual,
                           !.progress = progress]]
    /\ UNCHANGED <<tasks, dependencies, timeEntries>>

\* Nothing here asks for the tasks of a phase that is cancelled.
PatchPhase(p, status, manual, progress) ==
    /\ phases[p] # NoPhase /\ ~phases[p].archived
    /\ phases' = [phases EXCEPT ![p].status = status, ![p].manual = manual,
                                ![p].progress = progress]
    /\ UNCHANGED <<tasks, dependencies, timeEntries>>

ArchivePhase(p) ==
    /\ phases[p] # NoPhase /\ ~phases[p].archived
    /\ \A t \in Tasks : LiveTask(t) => tasks[t].phase # p
    /\ phases' = [phases EXCEPT ![p].status = "cancelled",
                                ![p].archived = TRUE]
    /\ UNCHANGED <<tasks, dependencies, timeEntries>>

-----------------------------------------------------------------------------
(* Tasks: their parents and what they wait for.                            *)

\* Mutant: only the task itself and its direct neighbours are looked at.
DirectlyAfter(R, t) == {t} \cup {u \in Tasks : <<t, u>> \in R}
\* t and all that it leads to, as the recursive query collects it.
After(R, t) == From(R, t, Tasks)

Parents == {<<t, tasks[t].parent>> : t \in {t \in Tasks : tasks[t].parent # NULL}}
Waits(deps) == {<<d.task, d.on>> : d \in deps}

\* ensureTaskParent.
ParentFits(t, parent, phase) ==
    parent # NULL =>
        /\ LiveTask(parent)
        /\ t \notin After(Parents, parent)
        /\ phase = tasks[parent].phase

\* predecessorStarted.
Started(row) ==
    row.started \/ row.status \in {"in_progress", "done"} \/ row.progress > 0

\* assertTaskDependenciesAllow, for one dependency.
Allows(d, starting, finishing) ==
    LET before == tasks[d.on]
    IN  LiveTask(d.on) =>
        CASE d.type = "finish_to_start" -> starting => before.status = "done"
          [] d.type = "start_to_start" -> starting => Started(before)
          [] d.type = "finish_to_finish" -> finishing => before.status = "done"
          [] d.type = "start_to_finish" -> finishing => Started(before)

Allowed(deps, t, starting, finishing) ==
    \A d \in deps : d.task = t => Allows(d, starting, finishing)

\* A task that has not started has made no progress; one that is done, all.
ProgressOf(status, progress) == IF status = "done" THEN 100 ELSE progress
StatusFits(status, progress) == status = "todo" => progress = 0

\* A phase that the parent brings along is not asked whether it is cancelled.
CreateTask(t, phase, parent, status, progress) ==
    LET chosen == IF phase = NULL /\ parent # NULL THEN tasks[parent].phase
                                                   ELSE phase
    IN  /\ tasks[t] = NoTask
        /\ phase # NULL => LivePhase(phase)
        /\ ParentFits(t, parent, chosen)
        /\ StatusFits(status, ProgressOf(status, progress))
        /\ tasks' = [tasks EXCEPT ![t] =
               [status |-> status, phase |-> chosen, parent |-> parent,
                progress |-> ProgressOf(status, progress),
                started |-> status \in {"in_progress", "done"},
                completed |-> status = "done", archived |-> FALSE,
                minutes |-> 0]]
        /\ UNCHANGED <<phases, dependencies, timeEntries>>

\* Cancelling a task leaves its children as they are.
PatchTask(t, phase, parent, status, progress) ==
    LET row == tasks[t]
        reached == ProgressOf(status, progress)
        starting == ~Started(row) /\
                    (status \in {"in_progress", "done"} \/ reached > 0)
        finishing == row.status # "done" /\ status = "done"
    IN  /\ row # NoTask /\ ~row.archived
        /\ phase # NULL => LivePhase(phase)
        /\ ParentFits(t, parent, phase)
        /\ \A child \in Tasks : LiveTask(child) /\ tasks[child].parent = t =>
               tasks[child].phase = phase
        /\ StatusFits(status, reached)
        /\ Allowed(dependencies, t, starting, finishing)
        /\ tasks' = [tasks EXCEPT
               ![t].phase = phase, ![t].parent = parent,
               ![t].status = status, ![t].progress = reached,
               ![t].started = @ \/ starting,
               ![t].completed = status = "done" \/ (row.status # "done" /\ @)]
        /\ UNCHANGED <<phases, dependencies, timeEntries>>

ArchiveTask(t) ==
    /\ tasks[t] # NoTask /\ ~tasks[t].archived
    /\ \A child \in Tasks : LiveTask(child) => tasks[child].parent # t
    /\ tasks' = [tasks EXCEPT ![t].status = "cancelled", ![t].archived = TRUE]
    /\ dependencies' = {d \in dependencies : t \notin {d.task, d.on}}
    /\ UNCHANGED <<phases, timeEntries>>

\* What the task waits for already is asked again when it has started.
AddDependency(d) ==
    /\ \A t \in {d.task, d.on} : tasks[t] # NoTask /\ ~tasks[t].archived
    /\ d.task \notin After(Waits(dependencies), d.on)
    /\ <<d.task, d.on>> \notin Waits(dependencies)
    /\ Allowed(dependencies \cup {d}, d.task,
               Started(tasks[d.task]), tasks[d.task].status = "done")
    /\ dependencies' = dependencies \cup {d}
    /\ UNCHANGED <<phases, tasks, timeEntries>>

RemoveDependency(d) ==
    /\ d \in dependencies
    /\ dependencies' = dependencies \ {d}
    /\ UNCHANGED <<phases, tasks, timeEntries>>

-----------------------------------------------------------------------------
(* Time.                                                                   *)

\* Mutant: the task an entry is taken from keeps its minutes.
RecountNew(old, new) == {new}
\* The tasks whose minutes are added up again.
Recount(old, new) == {old, new} \ {NULL}

MinutesOn(rows, t) ==
    LET own(e) == IF rows[e].task = t THEN rows[e].minutes ELSE 0
    IN  SumFunctionOnSet([e \in Entries |-> own(e)], Entries)

SetEntry(e, row) ==
    /\ timeEntries' = [timeEntries EXCEPT ![e] = row]
    /\ tasks' = [t \in Tasks |->
           IF t \in Recount(timeEntries[e].task, row.task)
           THEN [tasks[t] EXCEPT !.minutes = MinutesOn(timeEntries', t)]
           ELSE tasks[t]]
    /\ UNCHANGED <<phases, dependencies>>

CreateTimeEntry(e, t, minutes) ==
    /\ timeEntries[e] = NoEntry
    /\ LiveTask(t)
    /\ SetEntry(e, [task |-> t, minutes |-> minutes])

PatchTimeEntry(e, t, minutes) ==
    /\ timeEntries[e] # NoEntry
    /\ LiveTask(t)
    /\ SetEntry(e, [task |-> t, minutes |-> minutes])

DeleteTimeEntry(e) == timeEntries[e] # NoEntry /\ SetEntry(e, NoEntry)

-----------------------------------------------------------------------------
(* Reports of progress.                                                    *)

\* Mutant: a report of progress is not held up by what the task waits for.
ReportUnchecked(t, progress) == TRUE
ReportAllowed(t, progress) ==
    Allowed(dependencies, t, ~Started(tasks[t]) /\ progress > 0,
            tasks[t].status # "done" /\ progress = 100)

\* A task that is done stays done, and one that was cancelled comes back.
Reported(row, progress) ==
    [row EXCEPT
       !.progress = progress,
       !.status = CASE progress = 100 -> "done"
                    [] progress > 0 /\ @ = "todo" -> "in_progress"
                    [] OTHER -> @,
       !.started = @ \/ progress > 0,
       !.completed = progress = 100 \/ (row.status # "done" /\ @)]

CreateProgressUpdate(phase, t, progress) ==
    /\ {phase, t} # {NULL}
    /\ phase # NULL => phases[phase] # NoPhase /\ ~phases[phase].archived
    /\ t # NULL => /\ tasks[t] # NoTask /\ ~tasks[t].archived
                   /\ ReportAllowed(t, progress)
    /\ phase # NULL /\ t # NULL => tasks[t].phase \in {NULL, phase}
    /\ tasks' = IF t = NULL THEN tasks
                ELSE [tasks EXCEPT ![t] = Reported(@, progress)]
    /\ phases' = IF t = NULL /\ phases[phase].manual
                 THEN [phases EXCEPT ![phase].progress = progress]
                 ELSE phases
    /\ UNCHANGED <<dependencies, timeEntries>>

PlanNext ==
    \/ \E p \in Phases :
          \/ \E status \in PhaseStatuses, manual \in BOOLEAN, n \in Percents :
                CreatePhase(p, status, manual, n) \/ PatchPhase(p, status, manual, n)
          \/ ArchivePhase(p)
    \/ \E t \in Tasks :
          \/ \E phase \in Phases \cup {NULL}, parent \in Tasks \cup {NULL},
                status \in TaskStatuses, n \in Percents :
                \/ CreateTask(t, phase, parent, status, n)
                \/ PatchTask(t, phase, parent, status, n)
          \/ ArchiveTask(t)
    \/ \E d \in Dependency : AddDependency(d) \/ RemoveDependency(d)
    \/ \E e \in Entries :
          \/ \E t \in Tasks, n \in Minutes :
                CreateTimeEntry(e, t, n) \/ PatchTimeEntry(e, t, n)
          \/ DeleteTimeEntry(e)
    \/ \E phase \in Phases \cup {NULL}, t \in Tasks \cup {NULL}, n \in Percents :
          CreateProgressUpdate(phase, t, n)

PlanSpec == PlanInit /\ [][PlanNext]_planVars

-----------------------------------------------------------------------------
(* Properties.                                                             *)

\* dependencyWouldCycle and ensureTaskParent: through any series of edits no
\* task comes to wait for itself, and none to be among its own ancestors.
NothingWaitsForItself ==
    Acyclic(Waits(dependencies), Tasks) /\ Acyclic(Parents, Tasks)

\* recomputeTaskActualMinutes: the minutes of a task are those of its entries,
\* also of entries that were moved away from it or removed.
MinutesAddUp == \A t \in Tasks : tasks[t].minutes = MinutesOn(timeEntries, t)

\* The plan hangs together, whatever edits made it.
PlanSound == NothingWaitsForItself /\ MinutesAddUp

\* assertTaskDependenciesAllow: whichever operation starts or finishes a task,
\* those it waits for have come as far as the dependency asks.
StartedInOrder ==
    [][\A t \in Tasks :
          tasks[t] # NoTask =>
             Allowed(dependencies, t,
                     ~Started(tasks[t]) /\ Started(tasks'[t]),
                     tasks[t].status # "done" /\ tasks'[t].status = "done")
      ]_planVars

\* What ensureTaskParent and archivePhase tell whoever they refuse: a task is
\* in the phase of its parent, and no active task is in an archived phase.
OnePhasePerTree ==
    \A t \in Tasks : LiveTask(t) =>
        /\ tasks[t].parent # NULL => tasks[t].phase = tasks[tasks[t].parent].phase
        /\ tasks[t].phase # NULL => ~phases[tasks[t].phase].archived
=============================================================================
