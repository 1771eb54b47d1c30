-------------------------- MODULE ProposalWorkflow --------------------------
(***************************************************************************)
(* Proposals for the needs of a project (src/store.js).  Applicants send   *)
(* proposals under an idempotency key and follow them with a tracking      *)
(* token; administrators move them through the workflow, write a decision  *)
(* message the applicant sees, archive needs and unpublish the project.    *)
(* Each request is one transaction.  The needs are those of NeedOrder,     *)
(* whose operations come between.  Contents, tokens, internal notes and    *)
(* timestamps are left out: a message is empty (null in the database), too *)
(* short to be a reason, or a reason.                                      *)
(***************************************************************************)
EXTENDS NeedOrder

CONSTANTS
    Proposals,
    Keys        \* idempotency keys, each the secret of one browser form

Statuses == {"new", "contacted", "negotiating", "accepted", "rejected"}
Final == {"accepted", "rejected"}
Messages == {"", "short", "reason"}

VARIABLES
    published,  \* the project can be seen by the public
    proposals,  \* proposals[p]: NoProposal, or the row
    told        \* told[p]: the last event the applicant can see

proposalVars == <<published, proposals, told>>
workflowVars == <<needVars, proposalVars>>

NoProposal == [need |-> "none", key |-> "none", status |-> "none",
               message |-> "", decided |-> FALSE]
NoEvent == [from |-> "none", to |-> "none", message |-> ""]

Submitted == {p \in Proposals : proposals[p] # NoProposal}

WorkflowInit ==
    /\ NeedInit
    /\ published \in BOOLEAN
    /\ proposals = [p \in Proposals |-> NoProposal]
    /\ told = [p \in Proposals |-> NoEvent]

-----------------------------------------------------------------------------
SetPublished(value) ==
    /\ published' = value
    /\ UNCHANGED <<proposals, told>>

\* Mutant: a retry is recognised only while the proposal is untouched.
ReplayWhileNew(need, key) ==
    \E q \in Submitted : /\ proposals[q].need = need
                         /\ proposals[q].key = key
                         /\ proposals[q].status = "new"
\* A proposal with this key exists: the request is a retry, answered from
\* the row, or a conflict; nothing is written.
Replay(need, key) ==
    \E q \in Submitted : proposals[q].need = need /\ proposals[q].key = key

Collects(need) == published /\ need \in active

CreateProposal(p, need, key) ==
    /\ proposals[p] = NoProposal
    /\ ~Replay(need, key)
    /\ Collects(need)
    /\ proposals' = [proposals EXCEPT ![p] =
           [need |-> need, key |-> key, status |-> "new", message |-> "",
            decided |-> FALSE]]
    /\ told' = [told EXCEPT ![p] =
           [from |-> "none", to |-> "new", message |-> ""]]
    /\ UNCHANGED published

\* Mutant: the other proposals of the need are not looked at.
AcceptableUnchecked(p) == TRUE
Acceptable(p) ==
    \A q \in Submitted \ {p} :
        proposals[q].need = proposals[p].need =>
            proposals[q].status # "accepted"

Allowed(p, from, to, confirmUnaccept) ==
    \/ from = "new" /\ to \in {"contacted", "rejected"}
    \/ from = "contacted" /\ to \in {"negotiating", "rejected"}
    \/ from = "negotiating" /\ to \in Final
    \/ from = "rejected" /\ to = "new"
    \/ from = "accepted" /\ to = "negotiating" /\ confirmUnaccept

\* written: the request carries a decisionMessage, perhaps an empty one.
NextDecision(row, to, changed, written, message) ==
    IF changed /\ to \notin Final THEN ""
    ELSE IF written THEN message ELSE row.message

\* Mutant: a reason is asked for only when the status changes.
ReasonGivenOnChange(to, changed, decision) ==
    to = "rejected" /\ changed => decision = "reason"
ReasonGiven(to, changed, decision) ==
    to = "rejected" => decision = "reason"

\* Mutant: rewriting the message of a decided proposal adds no event.
VisibleOnStatusOnly(changed, rewritten) == changed
\* The applicant is told of a new status and of a new decision message.
Visible(changed, rewritten) == changed \/ rewritten

Decided(row, to, changed) ==
    IF changed THEN to \in Final ELSE row.decided

\* validateProposalPatch asks for the reason in the same request as the
\* status "rejected", before the row is read.
ValidPatch(status, written, message) ==
    status = "rejected" => written /\ message = "reason"

UpdateProposal(p, status, written, message, confirmUnaccept) ==
    LET row == proposals[p]
        changed == status # row.status
        decision == NextDecision(row, status, changed, written, message)
    IN  /\ p \in Submitted
        /\ changed => Allowed(p, row.status, status, confirmUnaccept)
        /\ changed /\ status = "accepted" => Acceptable(p)
        /\ ReasonGiven(status, changed, decision)
        /\ changed \/ decision # row.message
        /\ proposals' = [proposals EXCEPT ![p] =
               [row EXCEPT !.status = status, !.message = decision,
                           !.decided = Decided(row, status, changed)]]
        /\ told' = IF Visible(changed, decision # row.message)
                   THEN [told EXCEPT ![p] = [from |-> row.status,
                                             to |-> status,
                                             message |-> decision]]
                   ELSE told
        /\ UNCHANGED published

\* A request names a status, which the validator checks, or leaves it alone.
PatchProposal(p) ==
    \E written, confirmUnaccept \in BOOLEAN, message \in Messages :
        \/ \E status \in Statuses :
              /\ ValidPatch(status, written, message)
              /\ UpdateProposal(p, status, written, message, confirmUnaccept)
        \/ /\ written
           /\ UpdateProposal(p, proposals[p].status, written, message,
                             confirmUnaccept)

ProposalNext ==
    \/ \E value \in BOOLEAN : SetPublished(value)
    \/ \E p \in Proposals, n \in Needs, k \in Keys : CreateProposal(p, n, k)
    \/ \E p \in Proposals : PatchProposal(p)

WorkflowNext ==
    \/ NeedNext /\ UNCHANGED proposalVars
    \/ ProposalNext /\ UNCHANGED needVars

WorkflowSpec == WorkflowInit /\ [][WorkflowNext]_workflowVars

-----------------------------------------------------------------------------
\* A need is promised to one applicant at a time, whatever the order in which
\* administrators accept, withdraw and re-open proposals, also on a need that
\* is archived meanwhile.
OneAcceptedPerNeed ==
    \A p, q \in Submitted :
        /\ proposals[p].need = proposals[q].need
        /\ proposals[p].status = "accepted"
        /\ proposals[q].status = "accepted"
        => p = q

\* A rejected proposal always gives its applicant a reason, through every
\* later edit of the message, and a proposal has a decision date exactly while
\* it is decided, however often the decision is withdrawn.
DecisionConsistent ==
    \A p \in Submitted :
        /\ proposals[p].status = "rejected" => proposals[p].message = "reason"
        /\ proposals[p].decided <=> proposals[p].status \in Final

\* The history the applicant reads with the tracking token ends in the status
\* and the decision the same page shows: no change of either goes untold.
TrackingTellsTruth ==
    \A p \in Submitted :
        /\ told[p].to = proposals[p].status
        /\ told[p].message = proposals[p].message

\* Retrying a submission never files it twice, also after the proposal has
\* moved on or its need was archived.
OneProposalPerKey ==
    \A p, q \in Submitted :
        /\ proposals[p].need = proposals[q].need
        /\ proposals[p].key = proposals[q].key
        => p = q

\* updateProposal and createProposal: all of that, in every order of requests.
ProposalsSound ==
    /\ OneAcceptedPerNeed /\ DecisionConsistent
    /\ TrackingTellsTruth /\ OneProposalPerKey
=============================================================================
