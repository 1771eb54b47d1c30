----------------------------- MODULE Governance -----------------------------
(***************************************************************************)
(* Votes of a meeting (src/platform-store.js) and the proxies, the quorum  *)
(* and the outcome computed for them (src/enterprise-finance-store.js).    *)
(* A ballot weighs what the register says when it is cast; the quorum is   *)
(* reckoned with the holdings of the meeting's record date.  Ownership is  *)
(* written by operations that take the lock of open resolutions (corporate *)
(* actions, which do not, are in CorporateActions).  A stakeholder acts    *)
(* through the one user linked to them, so they share a name here.  The    *)
(* quorum and the threshold are a half, their defaults: no operation sets  *)
(* them.  Days stand for instants.                                         *)
(***************************************************************************)
EXTENDS Integers, FiniteSets, Functions

CONSTANTS
    Voters,      \* stakeholders of the project
    Motions,     \* resolutions of the meeting
    Proxies,     \* proxies that may be granted
    VoteWeights, \* voting weights the share class may be given
    MaxUnits,    \* bound on the units a voter holds
    Horizon,     \* bound on the days
    Nobody

ASSUME GovernanceAssumption ==
    /\ VoteWeights \subseteq Nat
    /\ MaxUnits \in Nat /\ Horizon \in Nat \ {0}
    /\ IsFiniteSet(Voters) /\ IsFiniteSet(Proxies)
    /\ Nobody \notin Voters \cup Motions \cup Proxies

Dates == 1 .. Horizon

VARIABLES
    date,
    ledger,     \* ledger[d][h]: units h gained or lost on day d
    voteWeight, \* voting weight of a unit
    active,     \* voters that are not archived
    board,      \* voters whose role is board
    supervised, \* the organisation has an active owner
    recordDate, \* the day the meeting is scheduled for
    present,    \* voters recorded as present
    motions,    \* motions[r]: the state of the resolution
    ballots,    \* ballots[r][h]: NoBallot, or the ballot of h
    proxies     \* proxies[p]: NoProxy, or the proxy

ownershipVars == <<ledger, voteWeight, active, board>>
meetingVars == <<recordDate, present, motions, ballots, proxies>>
governanceVars == <<date, ownershipVars, supervised, meetingVars>>

Choices == {"yes", "no", "abstain"}
Outcomes == {"approved", "rejected", "tied", "no_quorum"}
Ballot == [choice : Choices, power : Nat, by : Voters \cup {Nobody},
           proxy : Proxies \cup {Nobody}]
NoBallot == [choice |-> "none", power |-> 0, by |-> Nobody, proxy |-> Nobody]

\* scope: the one resolution it is for, or Nobody for the whole meeting.
\* expires: the day it ends on, or 0.
Proxy == [status : {"active", "revoked"}, grantor : Voters, holder : Voters,
          scope : Motions \cup {Nobody}, power : Nat, expires : Nat]
NoProxy == [status |-> "none", grantor |-> Nobody, holder |-> Nobody,
            scope |-> Nobody, power |-> 0, expires |-> 0]

GovernanceInit ==
    /\ date = 1
    /\ ledger = [d \in Dates |-> [h \in Voters |-> 0]]
    /\ voteWeight \in VoteWeights
    /\ active = Voters
    /\ board = {}
    /\ supervised = FALSE
    /\ recordDate = 1
    /\ present = {}
    /\ motions = [r \in Motions |-> "draft"]
    /\ ballots = [r \in Motions |-> [h \in Voters |-> NoBallot]]
    /\ proxies = [p \in Proxies |-> NoProxy]

-----------------------------------------------------------------------------
(* Voting power.                                                           *)

\* holdingsAt: what the ledger adds up to at the end of a day.
HoldingAt(day, h) ==
    SumFunctionOnSet([d \in Dates |-> ledger[d][h]], 1 .. day)

\* A member of the board without shares has one vote.
PowerAt(day) == [h \in Voters |->
    LET power == HoldingAt(day, h) * voteWeight
    IN  IF power = 0 /\ h \in board \cap active THEN 1 ELSE power]

PowerNow(h) == PowerAt(Horizon)[h]

MotionOpen == \E r \in Motions : motions[r] = "open"
\* Mutant: ownership changes while a resolution is voted on.
LockIgnored == TRUE
\* assertVotingRecordDateUnlocked
LockFree == ~ MotionOpen

\* Issuance, sale, weight, role, archive: all of them look at the lock.
OwnershipChanges ==
    /\ LockFree
    /\ \/ \E h \in Voters, n \in {-1, 1} :
             /\ HoldingAt(Horizon, h) + n \in 0 .. MaxUnits
             /\ ledger' = [ledger EXCEPT ![date][h] = @ + n]
             /\ UNCHANGED <<voteWeight, active, board>>
       \/ voteWeight' \in VoteWeights /\ UNCHANGED <<ledger, active, board>>
       \/ \E h \in Voters :
             /\ board' \in {board \cup {h}, board \ {h}}
             /\ UNCHANGED <<ledger, voteWeight, active>>
       \/ \E h \in Voters :
             /\ active' \in {active \cup {h}, active \ {h}}
             /\ UNCHANGED <<ledger, voteWeight, board>>
    /\ UNCHANGED <<date, supervised, meetingVars>>

OwnerAppointed ==
    /\ supervised' = TRUE
    /\ UNCHANGED <<date, ownershipVars, meetingVars>>

DatePasses ==
    /\ date < Horizon
    /\ date' = date + 1
    /\ UNCHANGED <<ownershipVars, supervised, meetingVars>>

-----------------------------------------------------------------------------
(* The meeting and its resolutions.                                        *)

PatchMeeting(day) ==
    /\ recordDate' = day
    /\ UNCHANGED <<date, ownershipVars, supervised, present, motions, ballots,
                   proxies>>

SetAttendance(h) ==
    /\ h \in active
    /\ present' \in {present \cup {h}, present \ {h}}
    /\ UNCHANGED <<date, ownershipVars, supervised, recordDate, motions, ballots,
                   proxies>>

OpenResolution(r) ==
    /\ motions[r] = "draft"
    /\ motions' = [motions EXCEPT ![r] = "open"]
    /\ UNCHANGED <<date, ownershipVars, supervised, recordDate, present,
                   ballots, proxies>>

-----------------------------------------------------------------------------
(* Proxies.                                                                *)

ActiveProxies == {p \in Proxies : proxies[p].status = "active"}

Duplicate(grantor, scope) == \E p \in ActiveProxies :
    proxies[p].grantor = grantor /\ proxies[p].scope = scope

\* The holder a grantor is followed to; a later row replaces an earlier one,
\* rows in no order, and a proxy for the meeting does not see those for one
\* resolution.
Chains(scope) ==
    LET seen == {p \in ActiveProxies : proxies[p].scope \in {Nobody, scope}}
    IN  {g \in [Voters -> Voters \cup {Nobody}] : \A h \in Voters :
            LET holders == {proxies[p].holder :
                               p \in {p \in seen : proxies[p].grantor = h}}
            IN  IF holders = {} THEN g[h] = Nobody ELSE g[h] \in holders}

\* PROXY_CYCLE: following the chain from the holder leads back to the grantor
\* (or to a cycle), in at most as many steps as there are members.
ReachesNone(chain, h) ==
    LET after[n \in 0 .. Cardinality(Voters)] ==
            IF n = 0 THEN h
            ELSE IF after[n - 1] = Nobody THEN Nobody ELSE chain[after[n - 1]]
    IN  after[Cardinality(Voters)] = Nobody

CreateProxy(p, grantor, holder, scope, expires) ==
    LET power == PowerAt(recordDate)[grantor]
    IN  /\ proxies[p] = NoProxy
        /\ {grantor, holder} \subseteq active
        /\ grantor # holder
        /\ power > 0
        /\ ~ Duplicate(grantor, scope)
        /\ \E chain \in Chains(scope) :
              ReachesNone([chain EXCEPT ![grantor] = holder], grantor)
        /\ proxies' = [proxies EXCEPT ![p] =
               [status |-> "active", grantor |-> grantor, holder |-> holder,
                scope |-> scope, power |-> power, expires |-> expires]]
        /\ UNCHANGED <<date, ownershipVars, supervised, recordDate, present,
                       motions, ballots>>

RevokeProxy(p) ==
    /\ proxies[p].status = "active"
    /\ proxies[p].grantor \in active
    /\ proxies' = [proxies EXCEPT ![p].status = "revoked"]
    /\ UNCHANGED <<date, ownershipVars, supervised, recordDate, present, motions,
                   ballots>>

-----------------------------------------------------------------------------
(* Ballots.                                                                *)

\* Mutant: a proxy for one resolution votes on another.
HoldsAnyProxy(p, h, by, r) ==
    /\ proxies[p].status = "active"
    /\ proxies[p].grantor = h /\ proxies[p].holder = by
    /\ proxies[p].expires = 0 \/ proxies[p].expires > date
HoldsProxy(p, h, by, r) ==
    /\ HoldsAnyProxy(p, h, by, r)
    /\ proxies[p].scope \in {Nobody, r}

\* Once governed, the voter or a proxy of theirs casts the ballot; a proxy
\* that does not carry the whole power of today is refused.
MayVote(p, h, by, r) ==
    IF supervised /\ by # h
    THEN /\ by \in active
         /\ p \in Proxies
         /\ HoldsProxy(p, h, by, r)
         /\ proxies[p].power = PowerNow(h)
    ELSE p = Nobody /\ (~ supervised => by = Nobody)

TakesBallots(r) == motions[r] = "open"

\* A ballot that is changed keeps its weight, unless a proxy changes it.
Vote(r, h, by, p, choice) ==
    /\ TakesBallots(r)
    /\ h \in active
    /\ PowerNow(h) > 0
    /\ MayVote(p, h, by, r)
    /\ ballots' = [ballots EXCEPT ![r][h] =
           [choice |-> choice,
            power |-> IF p = Nobody /\ @ # NoBallot THEN @.power ELSE PowerNow(h),
            by |-> by, proxy |-> p]]
    /\ UNCHANGED <<date, ownershipVars, supervised, recordDate, present, motions,
                   proxies>>

-----------------------------------------------------------------------------
(* Quorum and outcome.                                                     *)

Eligible == SumFunctionOnSet(PowerAt(recordDate), Voters)

\* The proxies that stand in for an absent grantor.  Here the last day of a
\* proxy still counts, which a ballot no longer accepts.
StandIns(r) == {p \in ActiveProxies :
    /\ proxies[p].expires = 0 \/ proxies[p].expires >= date
    /\ proxies[p].scope \in {Nobody, r}
    /\ proxies[p].holder \in present
    /\ proxies[p].grantor \notin present}

Smaller(m, n) == IF m < n THEN m ELSE n
PowerOfProxy(p) ==
    Smaller(proxies[p].power, PowerAt(recordDate)[proxies[p].grantor])

\* Mutant: a grantor with two proxies counts twice.
RepresentedTwice(r) ==
    {SumFunctionOnSet([p \in Proxies |-> IF p \in StandIns(r)
                                         THEN PowerOfProxy(p) ELSE 0], Proxies)}
\* The first proxy of a grantor counts, and any may be the first.
RepresentedBy(r) ==
    {SumFunctionOnSet([p \in Proxies |-> IF p \in first THEN PowerOfProxy(p)
                                                        ELSE 0], Proxies) :
        first \in {first \in SUBSET StandIns(r) : \A p \in StandIns(r) :
                      Cardinality({q \in first :
                          proxies[q].grantor = proxies[p].grantor}) = 1}}

\* The power present or represented; one value for each choice of first rows.
Represented(r) ==
    {SumFunctionOnSet(PowerAt(recordDate), present) + n : n \in RepresentedBy(r)}

Tally(r, choice) ==
    SumFunctionOnSet([h \in Voters |-> ballots[r][h].power],
                     {h \in Voters : ballots[r][h].choice = choice})

OutcomeOf(r, represented) ==
    CASE Eligible = 0 \/ represented * 2 < Eligible -> "no_quorum"
      [] OTHER ->
            CASE Tally(r, "yes") > Tally(r, "no") -> "approved"
              [] Tally(r, "yes") = Tally(r, "no") /\ Tally(r, "yes") > 0 -> "tied"
              [] OTHER -> "rejected"

\* Closing a resolution, or computing the outcome of a closed one again.
FinalizeOutcome(r) ==
    /\ motions[r] # "draft"
    /\ \E n \in Represented(r) :
          motions' = [motions EXCEPT ![r] = OutcomeOf(r, n)]
    /\ UNCHANGED <<date, ownershipVars, supervised, recordDate, present,
                   ballots, proxies>>

GovernanceNext ==
    \/ OwnershipChanges
    \/ OwnerAppointed
    \/ DatePasses
    \/ \E day \in Dates : PatchMeeting(day)
    \/ \E h \in Voters : SetAttendance(h)
    \/ \E r \in Motions : OpenResolution(r) \/ FinalizeOutcome(r)
    \/ \E p \in Proxies :
          \/ \E g, h \in Voters, scope \in Motions \cup {Nobody},
                expires \in {0} \cup Dates : CreateProxy(p, g, h, scope, expires)
          \/ RevokeProxy(p)
    \/ \E r \in Motions, h \in Voters, by \in Voters \cup {Nobody},
          p \in Proxies \cup {Nobody}, choice \in Choices :
             Vote(r, h, by, p, choice)

GovernanceSpec == GovernanceInit /\ [][GovernanceNext]_governanceVars

-----------------------------------------------------------------------------
(* Properties.                                                             *)

\* The lock of open resolutions: while a vote runs, every ballot cast so far
\* weighs what its voter's shares and seat are worth.
BallotsMatchRegister ==
    \A r \in Motions, h \in Voters :
        motions[r] = "open" /\ ballots[r][h] # NoBallot
        => ballots[r][h].power = PowerNow(h)

\* representedGrantors of calculateQuorum: no power counts twice, although a
\* grantor may have several proxies or come in person.
QuorumNeverOverstated ==
    \A r \in Motions : \A n \in Represented(r) : n <= Eligible

\* A ballot that somebody else cast names a proxy its voter granted them for
\* this resolution or for the whole meeting.
CastByRight ==
    \A r \in Motions, h \in Voters :
        LET ballot == ballots[r][h]
        IN  ballot.by \notin {Nobody, h} =>
            /\ ballot.proxy \in Proxies
            /\ proxies[ballot.proxy].grantor = h
            /\ proxies[ballot.proxy].holder = ballot.by
            /\ proxies[ballot.proxy].scope \in {Nobody, r}

\* castVote and calculateQuorum: what an outcome is computed from was cast by
\* right, once, with the weight of the register, and counted once.
VotesAddUp == BallotsMatchRegister /\ QuorumNeverOverstated /\ CastByRight

\* A change of ownership after the vote does not change its outcome.
OutcomeIsHistory ==
    [][\A r \in Motions : motions[r] \in Outcomes =>
          motions'[r] = motions[r]]_governanceVars
=============================================================================
