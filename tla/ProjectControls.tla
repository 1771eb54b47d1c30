-------------------------- MODULE ProjectControls --------------------------
(***************************************************************************)
(* Risks, indicators and budgets of a project (src/operations-store.js).   *)
(* Measurements of an indicator arrive in any order of their times.  A     *)
(* budget is a series of versions: one is drafted line by line, approved,  *)
(* and replaced by a version that starts as a copy of an earlier one.      *)
(***************************************************************************)
EXTENDS Nullable

CONSTANTS
    Risks, Kpis,
    Times,      \* when an indicator may be measured
    Values,     \* what may be measured
    Versions,   \* budget versions that may be created
    Slots,      \* lines a version may have
    Amounts     \* planned amounts of a line

ASSUME ControlsAssumption ==
    /\ Times \subseteq Nat /\ IsFiniteSet(Times)
    /\ NULL \notin Values \cup Slots \cup Versions \cup Amounts
    /\ NULL \notin Versions \X Slots
    /\ IsFiniteSet(Versions)

VARIABLES
    risks,     \* risks[r]: its status and whether resolved_at is set
    kpis,      \* kpis[k]: its status and current_value
    measured,  \* measured[k][time]: the value, or NULL
    budgets,   \* budgets[v]: version_no and status
    lines      \* lines[v][s]: NoLine, or the parent and the amount

controlVars == <<risks, kpis, measured, budgets, lines>>

\* mitigating and accepted are like open, closed is like resolved.
NoRisk == [status |-> "none", resolved |-> FALSE]
NoKpi == [status |-> "none", current |-> NULL]
NoBudget == [version |-> 0, status |-> "none"]
\* The parent of a line is named with the version it is in.
NoLine == [parent |-> NULL, amount |-> NULL]

ControlsInit ==
    /\ risks = [r \in Risks |-> NoRisk]
    /\ kpis = [k \in Kpis |-> NoKpi]
    /\ measured = [k \in Kpis |-> [time \in Times |-> NULL]]
    /\ budgets = [v \in Versions |-> NoBudget]
    /\ lines = [v \in Versions |-> [s \in Slots |-> NoLine]]

-----------------------------------------------------------------------------
(* Risks and indicators.                                                   *)

\* createRisk and patchRisk.
SetRisk(r, status) ==
    /\ risks' = [risks EXCEPT ![r] =
           [status |-> status, resolved |-> status = "resolved"]]
    /\ UNCHANGED <<kpis, measured, budgets, lines>>

DeleteRisk(r) ==
    /\ risks[r] # NoRisk
    /\ risks' = [risks EXCEPT ![r] = NoRisk]
    /\ UNCHANGED <<kpis, measured, budgets, lines>>

CreateKpi(k) ==
    /\ kpis[k] = NoKpi
    /\ kpis' = [kpis EXCEPT ![k].status = "active"]
    /\ UNCHANGED <<risks, measured, budgets, lines>>

ArchiveKpi(k) ==
    /\ kpis[k].status = "active"
    /\ kpis' = [kpis EXCEPT ![k].status = "archived"]
    /\ UNCHANGED <<risks, measured, budgets, lines>>

TimesOf(row) == {time \in Times : row[time] # NULL}

\* Mutant: the measurement that came last counts, whatever time it is of.
AsRecorded(row, time) == row[time]
\* ORDER BY measured_at DESC LIMIT 1, after the new one is inserted.
LatestOf(row, time) ==
    row[CHOOSE last \in TimesOf(row) : \A other \in TimesOf(row) : other <= last]

\* KPI_MEASUREMENT_EXISTS when there is one of that time.
AddKpiMeasurement(k, time, value) ==
    /\ kpis[k].status = "active"
    /\ measured[k][time] = NULL
    /\ measured' = [measured EXCEPT ![k][time] = value]
    /\ kpis' = [kpis EXCEPT ![k].current = LatestOf(measured'[k], time)]
    /\ UNCHANGED <<risks, budgets, lines>>

-----------------------------------------------------------------------------
(* Budgets.                                                                *)

Draft(v) == budgets[v].status = "draft"

NextVersion == NextNumber({budgets[v].version : v \in Versions})

CreateBudget(v) ==
    /\ budgets[v] = NoBudget
    /\ budgets' = [budgets EXCEPT ![v] =
           [version |-> NextVersion, status |-> "draft"]]
    /\ UNCHANGED <<risks, kpis, measured, lines>>

LineParents(v) == {e \in Slots \X Slots : lines[v][e[1]].parent = <<v, e[2]>>}

\* Mutant: only the line itself is refused as its parent.
NotItself(v, s, parent) == parent # s
\* ensureBudgetLineParent walks up from the parent.
NoCycle(v, s, parent) == s \notin From(LineParents(v), parent, Slots)

\* createBudgetLine and patchBudgetLine: a line that is not there yet is
\* nobody's parent.
SetBudgetLine(v, s, parent, amount) ==
    /\ Draft(v)
    /\ parent # NULL => /\ lines[v][parent] # NoLine
                        /\ NoCycle(v, s, parent)
    /\ lines' = [lines EXCEPT ![v][s] =
           [parent |-> IF parent = NULL THEN NULL ELSE <<v, parent>>,
            amount |-> amount]]
    /\ UNCHANGED <<risks, kpis, measured, budgets>>

DeleteBudgetLine(v, s) ==
    /\ Draft(v)
    /\ lines[v][s] # NoLine
    /\ \A child \in Slots : lines[v][child].parent # <<v, s>>
    /\ lines' = [lines EXCEPT ![v][s] = NoLine]
    /\ UNCHANGED <<risks, kpis, measured, budgets>>

\* Mutant: the version that was in force stays approved.
AlsoApproved(v, b) == b
\* What approving v makes of another version.
Superseded(v, b) ==
    IF b.status = "approved" THEN [b EXCEPT !.status = "superseded"] ELSE b

ApproveBudget(v) ==
    /\ Draft(v)
    /\ \E s \in Slots : lines[v][s] # NoLine
    /\ budgets' = [w \in Versions |->
           IF w = v THEN [budgets[v] EXCEPT !.status = "approved"]
                    ELSE Superseded(v, budgets[w])]
    /\ UNCHANGED <<risks, kpis, measured, lines>>

\* Mutant: the copies keep the parents of what they are copies of.
SameParent(v, line) == line
\* The copy of a line in the version v.
CopyIn(v, line) ==
    IF line.parent = NULL THEN line ELSE [line EXCEPT !.parent = <<v, @[2]>>]

\* The lines are copied in the order that the users gave them (order_no), and
\* the table refuses a child that comes before its parent: then the whole
\* revision fails and changes nothing.  The order is left out; the action is the
\* revision that succeeds.
ReviseBudget(v, source) ==
    /\ budgets[v] = NoBudget
    /\ budgets[source].status \in {"approved", "superseded"}
    /\ budgets' = [budgets EXCEPT ![v] =
           [version |-> NextVersion, status |-> "draft"]]
    /\ lines' = [lines EXCEPT ![v] = [s \in Slots |-> CopyIn(v, lines[source][s])]]
    /\ UNCHANGED <<risks, kpis, measured>>

CancelBudget(v) ==
    /\ budgets[v].status \in {"draft", "superseded"}
    /\ budgets' = [budgets EXCEPT ![v].status = "cancelled"]
    /\ UNCHANGED <<risks, kpis, measured, lines>>

ControlsNext ==
    \/ \E r \in Risks :
          \/ \E status \in {"open", "resolved"} : SetRisk(r, status)
          \/ DeleteRisk(r)
    \/ \E k \in Kpis :
          \/ CreateKpi(k) \/ ArchiveKpi(k)
          \/ \E time \in Times, value \in Values : AddKpiMeasurement(k, time, value)
    \/ \E v \in Versions :
          \/ CreateBudget(v) \/ ApproveBudget(v) \/ CancelBudget(v)
          \/ \E source \in Versions : ReviseBudget(v, source)
          \/ \E s \in Slots :
                \/ \E parent \in Slots \cup {NULL}, n \in Amounts :
                      SetBudgetLine(v, s, parent, n)
                \/ DeleteBudgetLine(v, s)

ControlsSpec == ControlsInit /\ [][ControlsNext]_controlVars

-----------------------------------------------------------------------------
(* Properties.                                                             *)

\* addKpiMeasurement: measurements recorded late, for an earlier time, do not
\* take the place of the newest one.
CurrentIsNewest ==
    \A k \in Kpis : \A time \in TimesOf(measured[k]) :
        (\A later \in TimesOf(measured[k]) : later <= time)
        => kpis[k].current = measured[k][time]

\* approveBudget: at most one version is in force, and versions have numbers
\* of their own.
OneBudgetInForce ==
    \A v, w \in Versions : v # w =>
        /\ {budgets[v].status, budgets[w].status} # {"approved"}
        /\ budgets[v].version = budgets[w].version => budgets[v] = NoBudget

\* ensureBudgetLineParent and reviseBudget: the lines of a version, edited or
\* copied, hang together as trees of that version.
LinesFormTrees ==
    \A v \in Versions :
        /\ \A s \in Slots : lines[v][s].parent # NULL =>
               \E t \in Slots : lines[v][s].parent = <<v, t>> /\ lines[v][t] # NoLine
        /\ Acyclic(LineParents(v), Slots)

\* Indicators show what was last the case, and budgets are what they were made
\* up of, however late, however often and in which order they were edited.
ControlsSound == CurrentIsNewest /\ OneBudgetInForce /\ LinesFormTrees
=============================================================================
