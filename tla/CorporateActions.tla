-------------------------- MODULE CorporateActions --------------------------
(***************************************************************************)
(* Corporate actions on the share register                                 *)
(* (src/enterprise-finance-store.js): issuance, capital increase, split,   *)
(* reverse split and rights issue, each drafted, approved on a preview and *)
(* executed when the preview still stands, and the preemptive rights that  *)
(* a rights issue hands out.  Once the organisation is governed, an action *)
(* needs a resolution of its own, and its creator may neither approve nor  *)
(* execute it.  Repeated approvals and executions only read.               *)
(***************************************************************************)
EXTENDS ShareRegister

CONSTANTS
    Actions,  \* corporate actions that may be created
    Users,    \* active members of the organisation
    Plans,    \* what an action may be: see Plan
    Voted,    \* Voted[r]: the plan resolution r was voted on for
    Prices,   \* amounts of settled incoming payments
    LastDay   \* bound on the days

Days == 1 .. LastDay

\* holder, num, den, units and expires are only read where the type needs them.
\* recordDate and expires are 0 where the plan names no day.
Plan == [type : {"issuance", "capital_increase", "split", "reverse_split",
                 "rights_issue"},
         holder : Holders \cup {None}, units : Nat, num : Nat, den : Nat,
         price : Nat, recordDate : Nat, expires : Nat]

ASSUME ActionsAssumption ==
    /\ Plans \subseteq Plan
    /\ \A p \in Plans :
          /\ p.type = "issuance" => p.holder \in Holders
          /\ p.type = "split" => p.num > p.den /\ p.den > 0
          /\ p.type = "reverse_split" => p.den > p.num /\ p.num > 0
    /\ Voted \in [Resolutions -> Plans]
    /\ None \notin Actions

VARIABLES
    actions,   \* actions[a]: NoAction, or the action
    binding,   \* binding[r]: the action r is bound to, or None
    consumed,  \* the resolutions that have been spent
    rights,    \* rights[a][h]: the right of h out of the rights issue a
    cleared,   \* holders with a current verification and a signed contract
    settled,   \* amounts of the settled incoming payments
    today,
    lastEntry  \* the day of the last entry of the share ledger

actionVars ==
    <<actions, binding, consumed, rights, cleared, settled, today, lastEntry>>
capitalVars == <<registerVars, actionVars>>

ActionStatuses == {"draft", "approved", "completed"}
NoAction == [status |-> "none", plan |-> None, resolution |-> None,
             creator |-> None, approver |-> None, executor |-> None,
             seen |-> None]
NoRight == [status |-> "none", entitled |-> 0, exercised |-> 0]

ActionInit ==
    /\ actions = [a \in Actions |-> NoAction]
    /\ binding = [r \in Resolutions |-> None]
    /\ consumed = {}
    /\ rights = [a \in Actions |-> [h \in Holders |-> NoRight]]
    /\ cleared = {}
    /\ settled = {}
    /\ today = 1
    /\ lastEntry = 0

CapitalInit == RegisterInit /\ ActionInit

-----------------------------------------------------------------------------
(* The preview: what the action would make of the register.                *)

PlanOf(a) == actions[a].plan
Splits(p) == p.type \in {"split", "reverse_split"}

\* FRACTIONAL_SHARES_NOT_SUPPORTED otherwise.
Scales(n, p) == (n * p.num) % p.den = 0

AuthorizedAfter(p) ==
    CASE Splits(p) -> (authorized * p.num) \div p.den
      [] p.type = "capital_increase" -> authorized + p.units
      [] OTHER -> authorized

HoldingAfter(p) ==
    CASE Splits(p) -> [h \in Holders |-> (holding[h] * p.num) \div p.den]
      [] p.type = "issuance" -> [holding EXCEPT ![p.holder] = @ + p.units]
      [] OTHER -> holding

Possible(p) ==
    /\ Splits(p) => \A n \in {authorized} \cup {holding[h] : h \in Holders} :
                        Scales(n, p)
    /\ p.type = "issuance" => Issued + p.units <= authorized
    /\ p.type = "rights_issue" => Issued > 0

\* largestRemainder: shares in proportion, the leftover to the largest
\* remainders, ids breaking ties (any order of the holders stands for it).
Entitled(p) ==
    LET share == [h \in Holders |-> (p.units * holding[h]) \div Issued]
        Rest(h) == (p.units * holding[h]) % Issued
        leftover == p.units - SumFunctionOnSet(share, Holders)
    IN  {[h \in Holders |-> share[h] + IF h \in up THEN 1 ELSE 0] :
            up \in {up \in SUBSET {h \in Holders : holding[h] > 0} :
                       /\ Cardinality(up) = leftover
                       /\ \A g \in up, h \in Holders \ up : Rest(g) >= Rest(h)}}

\* corporateActionApprovalSnapshot: what approval and execution must agree on.
Snapshot(r) ==
    [authorized |-> authorized, holding |-> holding, evidence |-> r]

-----------------------------------------------------------------------------
(* The resolution an action needs once the organisation is governed.       *)

\* requireApprovedCorporateResolution: held, closed, quorum, approved, and
\* voted on for exactly this plan.
VotedFor(r, p) ==
    r \in Resolutions /\ votes[r] = "approved" /\ Voted[r] = p

\* Mutant: the resolution is not tied to one action.
BoundToAny(r, a) == binding[r] # None
BoundTo(r, a) == binding[r] = a

Evidence(r, a) == VotedFor(r, PlanOf(a)) /\ BoundTo(r, a) /\ r \notin consumed

CreateCorporateAction(a, p, r, u) ==
    /\ actions[a] = NoAction
    /\ p.type = "issuance" => p.holder \in members
    /\ IF governed
       THEN /\ VotedFor(r, p) /\ binding[r] = None
            /\ binding' = [binding EXCEPT ![r] = a]
       ELSE /\ r # None => votes[r] \in {"approved", "rejected"}
            /\ UNCHANGED binding
    /\ actions' = [actions EXCEPT ![a] =
           [NoAction EXCEPT !.status = "draft", !.plan = p,
                            !.resolution = r, !.creator = u]]
    /\ UNCHANGED <<registerVars, consumed, rights, cleared, settled, today,
                   lastEntry>>

\* Mutant: whoever drafted an action may approve and execute it.
AnyUser(a, u) == TRUE
FourEyes(a, u) == governed => actions[a].creator # u

EvidenceFor(a) == IF governed THEN actions[a].resolution ELSE None

ApproveCorporateAction(a, u) ==
    /\ actions[a].status = "draft"
    /\ FourEyes(a, u)
    /\ governed => Evidence(actions[a].resolution, a)
    /\ Possible(PlanOf(a))
    /\ actions' = [actions EXCEPT ![a].status = "approved",
                                  ![a].approver = u,
                                  ![a].seen = Snapshot(EvidenceFor(a))]
    /\ UNCHANGED <<registerVars, binding, consumed, rights, cleared, settled,
                   today, lastEntry>>

\* Mutant: what was approved is executed on whatever the register is now.
NeverStale(a) == TRUE
\* CORPORATE_ACTION_PREVIEW_STALE otherwise.
StillAsApproved(a) == actions[a].seen = Snapshot(EvidenceFor(a))

\* CAP_TABLE_CHANGED_SINCE_RECORD_DATE otherwise.
RecordDateStands(p) == p.recordDate > 0 => lastEntry <= p.recordDate

\* Mutant: the certificates outlive the units they name.
KeepCertificates(p) == certificates
CertificatesAfter(p) ==
    IF Splits(p)
    THEN [c \in Certificates |->
             IF certificates[c].status = "active"
             THEN [certificates[c] EXCEPT !.status = "cancelled"]
             ELSE certificates[c]]
    ELSE certificates

\* Nothing here asks whether a resolution is being voted on.
ExecuteCorporateAction(a, u) ==
    LET p == PlanOf(a)
    IN  /\ actions[a].status = "approved"
        /\ FourEyes(a, u)
        /\ governed => Evidence(actions[a].resolution, a)
        /\ Possible(p)
        /\ StillAsApproved(a)
        /\ RecordDateStands(p)
        /\ p.type = "issuance" => p.holder \in members
        /\ actions' = [actions EXCEPT ![a].status = "completed",
                                      ![a].executor = u]
        /\ consumed' = IF governed THEN consumed \cup {actions[a].resolution}
                                   ELSE consumed
        /\ authorized' = AuthorizedAfter(p)
        /\ holding' = HoldingAfter(p)
        /\ certificates' = CertificatesAfter(p)
        /\ lastEntry' = IF holding' # holding THEN today ELSE lastEntry
        /\ IF p.type = "rights_issue"
           THEN \E e \in Entitled(p) :
                   rights' = [rights EXCEPT ![a] = [h \in Holders |->
                       IF holding[h] > 0
                       THEN [NoRight EXCEPT !.status = "available",
                                            !.entitled = e[h]]
                       ELSE NoRight]]
           ELSE UNCHANGED rights
        /\ UNCHANGED <<weight, members, votes, governed, binding, cleared,
                       settled, today>>

-----------------------------------------------------------------------------
(* Preemptive rights.                                                      *)

Exercisable(a, h) ==
    rights[a][h].status \in {"available", "partially_exercised"}

\* Mutant: the request is compared with the entitlement, not with the rest.
WithinEntitled(right, units) == units <= right.entitled
WithinRemaining(right, units) == units <= right.entitled - right.exercised

\* The mark of a right as expired is rolled back with the refusal, and any
\* settled payment that is large enough will do, whatever else it paid for.
ExercisePreemptiveRight(a, h, units) ==
    LET right == rights[a][h]
        exercised == right.exercised + units
    IN  /\ Exercisable(a, h)
        /\ PlanOf(a).expires > 0 => today <= PlanOf(a).expires
        /\ WithinRemaining(right, units)
        /\ h \in cleared
        /\ PlanOf(a).price > 0 =>
               \E paid \in settled : paid >= PlanOf(a).price * units
        /\ RoomFor(units)
        /\ holding' = [holding EXCEPT ![h] = @ + units]
        /\ lastEntry' = today
        /\ rights' = [rights EXCEPT
               ![a][h].exercised = exercised,
               ![a][h].status = IF exercised = right.entitled
                                THEN "exercised" ELSE "partially_exercised"]
        /\ UNCHANGED <<authorized, weight, members, votes, governed,
                       certificates, actions, binding, consumed, cleared,
                       settled, today>>

WaivePreemptiveRight(a, h) ==
    /\ Exercisable(a, h)
    /\ rights' = [rights EXCEPT ![a][h].status = "waived"]
    /\ UNCHANGED <<registerVars, actions, binding, consumed, cleared, settled,
                   today, lastEntry>>

\* Verifications, contracts and payments, as far as a right looks at them.
EvidenceChanges ==
    /\ \/ \E h \in Holders : cleared' \in {cleared \cup {h}, cleared \ {h}}
          /\ UNCHANGED settled
       \/ \E amount \in Prices : settled' = settled \cup {amount}
          /\ UNCHANGED cleared
    /\ UNCHANGED <<registerVars, actions, binding, consumed, rights, today,
                   lastEntry>>

NextDay ==
    /\ today < LastDay
    /\ today' = today + 1
    /\ UNCHANGED <<registerVars, actions, binding, consumed, rights, cleared,
                   settled, lastEntry>>

\* An issuance is the only other operation here that writes the ledger.
RegisterStep ==
    /\ RegisterNext
    /\ lastEntry' = IF holding' # holding THEN today ELSE lastEntry
    /\ UNCHANGED <<actions, binding, consumed, rights, cleared, settled, today>>

CapitalNext ==
    \/ RegisterStep
    \/ \E a \in Actions, u \in Users :
          \/ \E p \in Plans, r \in Resolutions \cup {None} :
                CreateCorporateAction(a, p, r, u)
          \/ ApproveCorporateAction(a, u)
          \/ ExecuteCorporateAction(a, u)
    \/ \E a \in Actions, h \in Holders :
          \/ \E units \in IssueSizes : ExercisePreemptiveRight(a, h, units)
          \/ WaivePreemptiveRight(a, h)
    \/ EvidenceChanges
    \/ NextDay

CapitalSpec == CapitalInit /\ [][CapitalNext]_capitalVars

-----------------------------------------------------------------------------
(* Properties.                                                             *)

\* share_certificates and the split of executeCorporateAction: as long as
\* nobody sells, what a holder's active certificates add up to is held,
\* although a reverse split takes units away.
CertifiedIsHeld == \A h \in Holders : Certified(h) <= holding[h]

\* approved_preview_hash: an action that is executed turns the register its
\* approver saw, and no other, into what was approved; a split leaves every
\* holder's part of the authorized units what it was.
ExecutedAsApproved ==
    [][\A a \in Actions :
          actions[a].status = "approved" /\ actions'[a].status = "completed"
          => /\ actions[a].seen.holding = holding
             /\ actions[a].seen.authorized = authorized
             /\ Splits(PlanOf(a)) =>
                   \A g \in Holders :
                      holding'[g] * authorized = holding[g] * authorized'
             ]_capitalVars

\* resolution_operation_bindings: of the actions executed under governance,
\* each had a resolution voted for its very plan, no two the same one, and
\* nobody approved or executed what they had drafted.
CompletedWasVoted ==
    \A a \in Actions :
        LET r == actions[a].resolution
        IN  actions[a].status = "completed" /\ actions[a].seen.evidence # None
            => /\ r \in consumed
               /\ Voted[r] = PlanOf(a)
               /\ binding[r] = a
               /\ actions[a].creator \notin
                      {actions[a].approver, actions[a].executor}

\* preemptive_rights: a rights issue hands out exactly its units, nobody
\* takes more than their right, and a right is closed when it is used up.
RightsAddUp ==
    \A a \in Actions :
        LET entitled == [h \in Holders |-> rights[a][h].entitled]
        IN  actions[a].status = "completed" /\ PlanOf(a).type = "rights_issue"
            => /\ SumFunctionOnSet(entitled, Holders) = PlanOf(a).units
               /\ \A h \in Holders :
                     /\ rights[a][h].exercised <= rights[a][h].entitled
                     /\ rights[a][h].status = "exercised" =>
                           rights[a][h].exercised = rights[a][h].entitled

\* executeCorporateAction, exercisePreemptiveRight and issueShareCertificate:
\* the register stays within the authorized units, what is certified is held
\* and what a rights issue hands out is what was planned.
RegisterAddsUp == WithinAuthorized /\ CertifiedIsHeld /\ RightsAddUp
=============================================================================
