-------------------------- MODULE DecisionActions --------------------------
(***************************************************************************)
(* What has to be done after a meeting                                     *)
(* (src/decision-action-store.js).  The table has an old column for the    *)
(* status, which knows no blocked actions, next to a newer one; a database *)
(* of an older version is brought up to date when it is opened.            *)
(***************************************************************************)
EXTENDS Nullable, Sequences

CONSTANTS
    Duties,       \* actions that may be created
    Assignees,    \* users
    Sittings,     \* meetings of the project
    Decisions,    \* resolutions of the project
    SittingOf,    \* SittingOf[r]: the meeting of a resolution
    Titles,       \* stands for the fields that are patched freely
    MaxHistory    \* bound on the history of an action

ASSUME DecisionAssumption ==
    /\ SittingOf \in [Decisions -> Sittings]
    /\ NULL \notin Sittings \cup Decisions \cup Assignees

Workflow == {"open", "in_progress", "blocked", "completed", "cancelled"}

TRANSITIONS ==
    [open        |-> {"in_progress", "cancelled"},
     in_progress |-> {"blocked", "completed", "cancelled"},
     blocked     |-> {"in_progress", "completed", "cancelled"},
     completed   |-> {"open"},
     cancelled   |-> {"open"}]

VARIABLES
    duties,     \* duties[d]: NoDuty, or the row
    record,     \* record[d]: from and to of each row of its history
    available,  \* users who are active members of the organisation
    upToDate    \* the database has been opened by this version

decisionVars == <<duties, record, available, upToDate>>

NoDuty == [status |-> "none", workflow |-> "none", title |-> NULL,
           assignee |-> NULL, sitting |-> NULL, decision |-> NULL,
           stamps |-> {}]

physicalStatus(status) ==
    CASE status = "completed" -> "done" [] status = "blocked" -> "in_progress"
      [] OTHER -> status

\* What the upgrade makes of the old column.
FromPhysical(status) == IF status = "done" THEN "completed" ELSE status

\* A row of an older version has no history, and open in the newer column
\* whatever the old one says.
OldDuty(title) ==
    {[NoDuty EXCEPT !.status = status, !.workflow = "open", !.title = title] :
        status \in {"open", "in_progress", "done", "cancelled"}}

DecisionInit ==
    /\ duties \in {[d \in Duties |-> NoDuty]} \cup
           {[d \in Duties |-> IF d = first THEN row ELSE NoDuty] :
               first \in Duties, row \in UNION {OldDuty(x) : x \in Titles}}
    /\ record = [d \in Duties |-> <<>>]
    /\ available = Assignees
    /\ upToDate = FALSE

-----------------------------------------------------------------------------
(* Opening the database.                                                   *)

\* A row that has been open here before keeps what the newer column says.
Upgraded(d) ==
    IF duties[d].workflow = "open" /\ record[d] = <<>>
    THEN [duties[d] EXCEPT !.workflow = FromPhysical(duties[d].status)]
    ELSE duties[d]

OpenDatabase ==
    /\ duties' = [d \in Duties |-> Upgraded(d)]
    /\ upToDate' = TRUE
    /\ UNCHANGED <<record, available>>

-----------------------------------------------------------------------------
(* Operations.                                                             *)

\* requireAssignee.
MayBeAssigned(user) == user = NULL \/ user \in available

\* recordChange.
Note(d, from, to) ==
    /\ Len(record[d]) < MaxHistory
    /\ record' = [record EXCEPT ![d] = Append(@, [from |-> from, to |-> to])]

\* resolveGovernanceScope: with a resolution alone comes its meeting.
Create(d, title, user, sitting, decision) ==
    /\ upToDate
    /\ duties[d] = NoDuty
    /\ MayBeAssigned(user)
    /\ decision # NULL => sitting \in {NULL, SittingOf[decision]}
    /\ duties' = [duties EXCEPT ![d] =
           [status |-> "open", workflow |-> "open", title |-> title,
            assignee |-> user,
            sitting |-> IF decision = NULL THEN sitting ELSE SittingOf[decision],
            decision |-> decision, stamps |-> {}]]
    /\ Note(d, NULL, "open")
    /\ UNCHANGED <<available, upToDate>>

\* An assignee who has left has to be replaced before anything else changes;
\* when nothing changes nothing is recorded.
Patch(d, title, user) ==
    /\ upToDate
    /\ duties[d] # NoDuty
    /\ MayBeAssigned(user)
    /\ <<title, user>> # <<duties[d].title, duties[d].assignee>>
    /\ duties' = [duties EXCEPT ![d].title = title, ![d].assignee = user]
    /\ Note(d, duties[d].workflow, duties[d].workflow)
    /\ UNCHANGED <<available, upToDate>>

\* Mutant: the stamp of the state that is left stays.
StampsKept(stamps, before, to) == stamps \cup ({to} \ {"open", "in_progress"})
\* completed_at, blocked_at and cancelled_at.
Stamps(stamps, before, to) ==
    (stamps \ {before}) \cup ({to} \ {"open", "in_progress"})

Transition(d, to) ==
    /\ upToDate
    /\ duties[d] # NoDuty
    /\ to \in TRANSITIONS[duties[d].workflow]
    /\ duties' = [duties EXCEPT
           ![d].status = physicalStatus(to), ![d].workflow = to,
           ![d].stamps = Stamps(@, duties[d].workflow, to)]
    /\ Note(d, duties[d].workflow, to)
    /\ UNCHANGED <<available, upToDate>>

\* A membership or a user is disabled or comes back.
AssigneesChange(user) ==
    /\ available' = IF user \in available THEN available \ {user}
                                          ELSE available \cup {user}
    /\ UNCHANGED <<duties, record, upToDate>>

DecisionNext ==
    \/ OpenDatabase
    \/ \E d \in Duties, title \in Titles, user \in Assignees \cup {NULL} :
          \/ \E sitting \in Sittings \cup {NULL}, decision \in Decisions \cup {NULL} :
                Create(d, title, user, sitting, decision)
          \/ Patch(d, title, user)
    \/ \E d \in Duties, to \in Workflow : Transition(d, to)
    \/ \E user \in Assignees : AssigneesChange(user)

DecisionSpec == DecisionInit /\ [][DecisionNext]_decisionVars

-----------------------------------------------------------------------------
(* Properties.                                                             *)

\* The old column, which other readers use, the newer one, the times that go
\* with a status and the history tell the same story: each row of the history
\* starts where the one before it ended, the last ends where the action is,
\* and only the state the action is in has a time.
OneStory ==
    \A d \in Duties : upToDate /\ duties[d] # NoDuty =>
        LET status == duties[d].workflow
            rows == record[d]
        IN  /\ duties[d].status = physicalStatus(status)
            /\ duties[d].stamps \subseteq {status}
            /\ \A i \in 2 .. Len(rows) : rows[i].from = rows[i - 1].to
            /\ rows # <<>> => /\ rows[Len(rows)].to = status
                              /\ status \in {"blocked", "cancelled", "completed"} =>
                                    \/ status \in duties[d].stamps
                                    \/ \A i \in DOMAIN rows : rows[i].from = status
            /\ duties[d].decision # NULL =>
                   duties[d].sitting = SittingOf[duties[d].decision]
=============================================================================
