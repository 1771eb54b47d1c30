---------------------------- MODULE ShareRegister ----------------------------
(***************************************************************************)
(* The share register of a project (src/platform-store.js): one class of   *)
(* shares, the units each stakeholder holds, the votes during which        *)
(* ownership stands still, and the certificates handed out for the units   *)
(* (src/enterprise-finance-store.js).  The ledger is append-only; only its *)
(* sum for each holder is kept.  Classes do not interact, so one is        *)
(* enough; names, symbols and roles of stakeholders are left out, and so   *)
(* is the bound of safe integers on totals.                                *)
(***************************************************************************)
EXTENDS Integers, FiniteSets, Functions

CONSTANTS
    Holders,      \* stakeholders of the project
    Resolutions,  \* resolutions of its meetings
    Certificates, \* certificates that may be issued
    Limits,       \* authorized units a class may be given
    Weights,      \* voting weights a class may be given
    IssueSizes,   \* units issued or certified at once
    Leavers,      \* bound: the holders that may be archived
    None          \* no holder, resolution, payment, ...

ASSUME RegisterAssumption ==
    /\ Limits \subseteq Nat \ {0}
    /\ IssueSizes \subseteq Nat \ {0}
    /\ Leavers \subseteq Holders
    /\ IsFiniteSet(Holders) /\ IsFiniteSet(Certificates)
    /\ None \notin Holders \cup Resolutions \cup Certificates

VARIABLES
    authorized,   \* units the class may have
    weight,       \* voting weight of a unit
    holding,      \* holding[h]: sum of the ledger entries of h
    members,      \* the holders that are not archived
    votes,        \* votes[r]: the state of resolution r
    governed,     \* the organisation has an active owner
    certificates  \* certificates[c]: NoCertificate, or the certificate

registerVars ==
    <<authorized, weight, holding, members, votes, governed, certificates>>

\* "approved": closed at a held meeting, with quorum and a majority.
VoteStates == {"draft", "open", "approved", "rejected"}
Certificate == [status : {"active", "cancelled", "replaced"},
                holder : Holders, units : IssueSizes]
NoCertificate == [status |-> "none", holder |-> None, units |-> 0]

RegisterInit ==
    /\ authorized \in Limits
    /\ weight \in Weights
    /\ holding = [h \in Holders |-> 0]
    /\ members = Holders
    /\ votes = [r \in Resolutions |-> "draft"]
    /\ governed = FALSE
    /\ certificates = [c \in Certificates |-> NoCertificate]

-----------------------------------------------------------------------------
Issued == SumFunctionOnSet(holding, Holders)

VoteOpen == \E r \in Resolutions : votes[r] = "open"

\* Mutant: the record date of a vote is not respected.
NeverLocked == TRUE
\* assertVotingRecordDateUnlocked
Unlocked == ~VoteOpen

PatchShareClass(limit, w) ==
    /\ limit >= Issued
    /\ w # weight => Unlocked
    /\ authorized' = limit
    /\ weight' = w
    /\ UNCHANGED <<holding, members, votes, governed, certificates>>

\* Mutant: the limit is compared with what is issued already.
RoomBefore(units) == Issued < authorized
RoomFor(units) == Issued + units <= authorized

IssueShares(h, units) ==
    /\ ~governed
    /\ Unlocked
    /\ h \in members
    /\ RoomFor(units)
    /\ holding' = [holding EXCEPT ![h] = @ + units]
    /\ UNCHANGED <<authorized, weight, members, votes, governed, certificates>>

ArchiveStakeholder(h) ==
    /\ Unlocked
    /\ members' = members \ {h}
    /\ UNCHANGED <<authorized, weight, holding, votes, governed, certificates>>

RestoreStakeholder(h) ==
    /\ Unlocked
    /\ members' = members \cup {h}
    /\ UNCHANGED <<authorized, weight, holding, votes, governed, certificates>>

OpenVote(r) ==
    /\ votes[r] = "draft"
    /\ votes' = [votes EXCEPT ![r] = "open"]
    /\ UNCHANGED <<authorized, weight, holding, members, governed, certificates>>

\* The outcome of a closed resolution may be computed again, and differ.
FinalizeVote(r, outcome) ==
    /\ votes[r] # "draft"
    /\ votes' = [votes EXCEPT ![r] = outcome]
    /\ UNCHANGED <<authorized, weight, holding, members, governed, certificates>>

\* The first owner is set up; the last one cannot be removed.
Bootstrap ==
    /\ governed' = TRUE
    /\ UNCHANGED <<authorized, weight, holding, members, votes, certificates>>

CertificatesOf(h) ==
    {c \in Certificates :
        certificates[c].status = "active" /\ certificates[c].holder = h}
Certified(h) ==
    SumFunctionOnSet([c \in Certificates |-> certificates[c].units],
                     CertificatesOf(h))

IssueCertificate(c, h, units) ==
    /\ certificates[c] = NoCertificate
    /\ Certified(h) + units <= holding[h]
    /\ certificates' = [certificates EXCEPT ![c] =
           [status |-> "active", holder |-> h, units |-> units]]
    /\ UNCHANGED <<authorized, weight, holding, members, votes, governed>>

CancelCertificate(c) ==
    /\ certificates[c].status = "active"
    /\ certificates' = [certificates EXCEPT ![c].status = "cancelled"]
    /\ UNCHANGED <<authorized, weight, holding, members, votes, governed>>

ReplaceCertificate(c, new) ==
    /\ certificates[c].status = "active"
    /\ certificates[new] = NoCertificate
    /\ certificates' = [certificates EXCEPT ![c].status = "replaced",
                                            ![new] = certificates[c]]
    /\ UNCHANGED <<authorized, weight, holding, members, votes, governed>>

RegisterNext ==
    \/ \E limit \in Limits, w \in Weights : PatchShareClass(limit, w)
    \/ \E h \in Holders, units \in IssueSizes : IssueShares(h, units)
    \/ \E h \in Leavers : ArchiveStakeholder(h) \/ RestoreStakeholder(h)
    \/ \E r \in Resolutions :
          \/ OpenVote(r)
          \/ \E outcome \in {"approved", "rejected"} : FinalizeVote(r, outcome)
    \/ Bootstrap
    \/ \E c \in Certificates :
          \/ \E h \in Holders, units \in IssueSizes :
                IssueCertificate(c, h, units)
          \/ CancelCertificate(c)
          \/ \E new \in Certificates : ReplaceCertificate(c, new)

-----------------------------------------------------------------------------
(* Properties.                                                             *)

RegisterTypeOK ==
    /\ authorized \in Limits
    /\ weight \in Weights
    /\ holding \in [Holders -> Nat]
    /\ members \in SUBSET Holders
    /\ votes \in [Resolutions -> VoteStates]
    /\ governed \in BOOLEAN
    /\ certificates \in [Certificates -> Certificate \cup {NoCertificate}]

\* assertCapitalBounds: what is issued stays within what is authorized,
\* although both change by separate operations.
WithinAuthorized == Issued <= authorized

\* assertVotingRecordDateUnlocked: while a resolution is open, ownership, the
\* active stakeholders and the weight of a unit stay what they were.
StillWhileVoting ==
    [][VoteOpen => UNCHANGED <<holding, weight, members>>]_registerVars
=============================================================================
