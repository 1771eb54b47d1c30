----------------------------- MODULE Resourcing -----------------------------
(***************************************************************************)
(* Resources of a project and their allocation to its tasks and phases     *)
(* (src/operations-store.js): a resource may have a capacity, and what is  *)
(* allocated of it at the same time must stay within.                      *)
(***************************************************************************)
EXTENDS ProjectPlan

CONSTANTS
    Assets,       \* resources that may be created
    Allocations,  \* allocations that may be made
    Capacities,   \* capacities and quantities
    LastWorkday   \* bound on the days

\* An allocation without a start has started on day 0, and one without an end
\* ends after the last day.
Starts == 0 .. LastWorkday
Ends == 1 .. LastWorkday + 1

ASSUME ResourcingAssumption ==
    /\ Capacities \subseteq Nat \ {0}
    /\ LastWorkday \in Nat
    /\ IsFiniteSet(Allocations)
    /\ NULL \notin Assets \cup Capacities

VARIABLES
    resources,   \* resources[r]: NoResource, or its status and capacity
    allocations  \* allocations[a]: NoAllocation, or the row

resourceVars == <<resources, allocations>>

\* allocated is like available; retired, without the archive, is like
\* unavailable.
NoResource == [status |-> "none", capacity |-> NULL, archived |-> FALSE]
NoAllocation == [resource |-> NULL, task |-> NULL, phase |-> NULL,
                 quantity |-> 0, from |-> 0, to |-> 0]

ResourceInit ==
    /\ resources = [r \in Assets |-> NoResource]
    /\ allocations = [a \in Allocations |-> NoAllocation]

\* What rows[...] take of the resource r on a day.
Load(rows, r, day) ==
    LET taken(a) == IF rows[a].resource = r /\ rows[a].from <= day
                          /\ day <= rows[a].to
                    THEN rows[a].quantity ELSE 0
    IN  SumFunctionOnSet([a \in Allocations |-> taken(a)], Allocations)

\* Mutant: those who have been there from the start are not looked at alone.
PointsAfterStart(rows) == {rows[a].from : a \in Allocations} \ {0}
\* peakAllocation: the load can only rise where an allocation starts.
Points(rows) == {0} \cup {rows[a].from : a \in Allocations}

\* validateResourceCapacity.
WithinCapacity(rows, r, capacity) ==
    capacity # NULL => \A day \in Points(rows) : Load(rows, r, day) <= capacity

CreateResource(r, status, capacity) ==
    /\ resources[r] = NoResource
    /\ resources' = [resources EXCEPT ![r] =
           [NoResource EXCEPT !.status = status, !.capacity = capacity]]
    /\ UNCHANGED allocations

PatchResource(r, status, capacity) ==
    /\ resources[r] # NoResource /\ ~resources[r].archived
    /\ WithinCapacity(allocations, r, capacity)
    /\ resources' = [resources EXCEPT ![r].status = status,
                                      ![r].capacity = capacity]
    /\ UNCHANGED allocations

\* What is allocated of it stays allocated.
ArchiveResource(r) ==
    /\ resources[r] # NoResource /\ ~resources[r].archived
    /\ resources' = [resources EXCEPT ![r].status = "unavailable",
                                      ![r].archived = TRUE]
    /\ UNCHANGED allocations

\* allocationInput.
AllocationFits(row) ==
    /\ resources[row.resource].status = "available"
    /\ {row.task, row.phase} # {NULL}
    /\ row.task # NULL => tasks[row.task] # NoTask /\ ~tasks[row.task].archived
    /\ row.phase # NULL => phases[row.phase] # NoPhase /\ ~phases[row.phase].archived
    /\ row.task # NULL /\ row.phase # NULL =>
           tasks[row.task].phase \in {NULL, row.phase}
    /\ row.from > 0 => row.from <= row.to

\* createAllocation and patchAllocation: the row itself is left out of what
\* is allocated already.
SetAllocation(a, row) ==
    LET rows == [allocations EXCEPT ![a] = row]
    IN  /\ AllocationFits(row)
        /\ WithinCapacity(rows, row.resource, resources[row.resource].capacity)
        /\ allocations' = rows
        /\ UNCHANGED resources

CreateAllocation(a, row) == allocations[a] = NoAllocation /\ SetAllocation(a, row)
PatchAllocation(a, row) == allocations[a] # NoAllocation /\ SetAllocation(a, row)

DeleteAllocation(a) ==
    /\ allocations[a] # NoAllocation
    /\ allocations' = [allocations EXCEPT ![a] = NoAllocation]
    /\ UNCHANGED resources

ResourceNext ==
    \/ \E r \in Assets :
          \/ \E status \in {"available", "unavailable"},
                capacity \in Capacities \cup {0, NULL} :
                CreateResource(r, status, capacity) \/ PatchResource(r, status, capacity)
          \/ ArchiveResource(r)
    \/ \E a \in Allocations :
          \/ \E r \in Assets, t \in Tasks \cup {NULL}, p \in Phases \cup {NULL},
                n \in Capacities, from \in Starts, to \in Ends :
                LET row == [resource |-> r, task |-> t, phase |-> p,
                            quantity |-> n, from |-> from, to |-> to]
                IN  CreateAllocation(a, row) \/ PatchAllocation(a, row)
          \/ DeleteAllocation(a)

ResourceSpec ==
    /\ PlanInit /\ ResourceInit
    /\ [][\/ PlanNext /\ UNCHANGED resourceVars
          \/ ResourceNext /\ UNCHANGED planVars]_<<planVars, resourceVars>>

-----------------------------------------------------------------------------
(* Properties.                                                             *)

\* RESOURCE_OVERALLOCATED: through allocations made, moved to other days or
\* resources and removed, and capacities changed, no day has more of a
\* resource in use than there is.
NeverOverallocated ==
    \A r \in Assets, day \in Starts \cup Ends :
        resources[r].capacity # NULL =>
            Load(allocations, r, day) <= resources[r].capacity
=============================================================================
