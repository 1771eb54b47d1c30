------------------------------- MODULE MCCases -------------------------------
(* What people apply for and are paid: needs with their proposals, and       *)
(* identity cases with the distributions that rest on them, one at a time.   *)
EXTENDS ProposalWorkflow, Distributions, TLC

VARIABLE part

\* Keys are named as proposals are, to keep the group small.
Symmetric == Permutations(Needs) \cup Permutations(Proposals)

\* Bound: needs are put in every order only while there are no proposals; with
\* proposals, two needs are enough to archive one and keep the other.
ProposalsFocused ==
    Submitted = {} \/ Cardinality(active \cup archived) <= 2

\* Bound: three holders share a distribution as long as nobody is identified,
\* which is all that the allocation needs; two may have identity cases, and
\* then the distribution is theirs; one case has other checks than passed ones,
\* of two kinds.  Holders are numbers because ties are broken by their order.
CasesFocused ==
    \/ \A c \in Cases : cases[c] = NoCase
    \/ /\ \A c \in Cases : cases[c].subject \in 0 .. 2
       /\ \A d \in Dists : Recipients(d) \subseteq 1 .. 2
       /\ Cardinality({c \in Cases : cases[c].checks \ {"passed"} # {}}) <= 1
       /\ \A c \in Cases : Cardinality(cases[c].checks) <= 2

CasesInit ==
    /\ WorkflowInit /\ DistributionInit
    /\ part \in {"proposals", "distributions"}
    /\ part = "distributions" => ~published

CasesNext ==
    /\ UNCHANGED part
    /\ \/ /\ part = "proposals" /\ WorkflowNext /\ ProposalsFocused'
          /\ UNCHANGED distributionVars
       \/ /\ part = "distributions" /\ DistributionNext /\ CasesFocused'
          /\ UNCHANGED workflowVars

CasesSpec == CasesInit /\ [][CasesNext]_<<part, workflowVars, distributionVars>>
=============================================================================
