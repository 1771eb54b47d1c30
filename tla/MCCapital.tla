------------------------------ MODULE MCCapital ------------------------------
(* Two parts that share no state and are explored one at a time: a class of  *)
(* shares under corporate actions, where one vote is enough, and a meeting   *)
(* of two voters with one share at most and two proxies.                     *)
EXTENDS CorporateActions, Governance, TLC

CONSTANTS h1, h2, u1, m1

VARIABLE part

BasePlan == [type |-> "split", holder |-> None, units |-> 0, num |-> 2,
             den |-> 1, price |-> 0, recordDate |-> 0, expires |-> 0]
RightsIssue == [BasePlan EXCEPT !.type = "rights_issue", !.units = 2,
                                !.price = 1, !.expires = 1]
ReverseSplit == [BasePlan EXCEPT !.type = "reverse_split", !.num = 1,
                                 !.den = 2, !.recordDate = 1]
Issuance == [BasePlan EXCEPT !.type = "issuance", !.holder = h2, !.units = 1]
Increase == [BasePlan EXCEPT !.type = "capital_increase", !.units = 2]

AllPlans == {BasePlan, RightsIssue, ReverseSplit, Issuance, Increase}
VotedPlans == [r \in Resolutions |-> Issuance]

Symmetric == Permutations(Actions) \cup Permutations(Voters)
                 \cup Permutations(Proxies)

Planned(types) == {a \in Actions :
    actions[a] # NoAction /\ actions[a].plan.type \in types}

\* Bounds: one user drafts, and acts alone while nothing is governed; the plans
\* of two actions have to do with each other; and what only one kind of action
\* looks at changes when there is one.
OneDrafter == \A a \in Actions :
    /\ actions[a].creator \in {u1, None}
    /\ actions[a].seen # None /\ actions[a].seen.evidence = None =>
          {actions[a].approver, actions[a].executor} \subseteq {u1, None}

CapitalFocused ==
    /\ OneDrafter
    /\ Planned({"split", "reverse_split"}) # {} =>
          Planned({"issuance", "rights_issue", "capital_increase"}) = {}
    /\ Planned({"rights_issue"}) # {} =>
          /\ Planned({"issuance"}) = {}
          /\ Cardinality(Planned({"rights_issue"})) = 1
    /\ cleared \cup settled # {} =>
          \E a \in Actions, h \in Holders : rights[a][h].entitled > 0
    /\ settled # {} => cleared # {}
    /\ \/ members # Holders
       \/ \E a \in Actions : actions[a].resolution # None
       \/ governed /\ \E a \in Actions : actions[a] # NoAction
       => Planned({"issuance"}) # {}
    /\ certificates # [c \in Certificates |-> NoCertificate] =>
          Planned({"reverse_split"}) # {}
    /\ today > 1 => Planned({"reverse_split", "rights_issue"}) # {}

Cast == {h \in Voters : \E r \in Motions : ballots[r][h] # NoBallot}
Granted == {p \in Proxies : proxies[p] # NoProxy}

\* Bounds: nobody abstains; at most one voter has a seat or is archived; who
\* comes and when the record date is vary while nobody has voted; a second
\* proxy is granted while no vote runs; and a second day comes when there is a
\* proxy that it ends, and no seat or archived voter.
MeetingFocused ==
    /\ \A r \in Motions, h \in Voters : ballots[r][h].choice # "abstain"
    /\ \A r \in Motions : motions[r] = "draft" \/ r = m1
    /\ \A p \in Proxies : proxies[p].expires <= 1
    /\ Cardinality(board) + Cardinality(Voters \ active) <= 1
    /\ Cast # {} => /\ present \in {{}, Voters} /\ recordDate = 1
                    /\ Cardinality(Granted) <= 1
    /\ Cardinality(Granted) = 2 =>
          /\ board = {} /\ active = Voters
          /\ \A r \in Motions : motions[r] = "draft"
    /\ date > 1 \/ recordDate > 1 =>
          /\ \E p \in Granted : proxies[p].expires = 1
          /\ board = {} /\ active = Voters

FocusedInit ==
    /\ part \in {"capital", "governance"}
    /\ CapitalInit
    /\ GovernanceInit

FocusedNext ==
    \/ /\ part = "capital"
       /\ CapitalNext /\ CapitalFocused'
       /\ UNCHANGED <<part, governanceVars>>
    \/ /\ part = "governance"
       /\ GovernanceNext /\ MeetingFocused'
       /\ UNCHANGED <<part, capitalVars>>

FocusedSpec ==
    FocusedInit /\ [][FocusedNext]_<<part, capitalVars, governanceVars>>

\* Bound: once a resolution is closed, only ownership and its outcome change.
Closed == \E r \in Motions : motions[r] \in Outcomes

HistoryNext ==
    /\ part = "governance" /\ GovernanceNext
    /\ Closed => UNCHANGED <<recordDate, present, proxies>>
    /\ UNCHANGED <<part, capitalVars>>

HistorySpec ==
    FocusedInit /\ part = "governance"
        /\ [][HistoryNext]_<<part, capitalVars, governanceVars>>
=============================================================================
