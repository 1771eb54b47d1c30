---------------------------- MODULE Distributions ----------------------------
(***************************************************************************)
(* Distributions of profit (src/enterprise-finance-store.js): a preview    *)
(* fixes what each shareholder of the record date is due, by largest       *)
(* remainders; approval posts the liability; payment pays every holder     *)
(* whose identity is verified, withholds the rest, and posts one entry for *)
(* all it paid.  Each is one transaction, which a closed fiscal period or  *)
(* a wrong account aborts as a whole (JournalLedger models those).  Of the *)
(* accounts, only the two amounts posted for each distribution are kept.   *)
(***************************************************************************)
EXTENDS KycCases, Integers, FiniteSets, Functions, FiniteSetsExt

CONSTANTS
    NDistributions, \* bound on the distributions
    Sums,           \* amounts to distribute
    Units,          \* units a holder may have on the record date
    KycRequired     \* DISTRIBUTION_KYC_REQUIRED

ASSUME DistributionsAssumption ==
    /\ IsFiniteSet(Holders)
    /\ Holders \subseteq Nat  \* their order is the order of their ids
    /\ Sums \subseteq Nat \ {0}
    /\ Units \subseteq Nat
    /\ KycRequired \in BOOLEAN

Dists == 1 .. NDistributions

VARIABLES
    dists,    \* dists[d]: NoDist, or the distribution
    outgoing, \* outgoing[d][h]: the outgoing payment to h, 0 if none
    declared, \* declared[d]: the amount its approval posted
    paidOut   \* paidOut[d]: the amount its payment posted

distributionVars == <<today, cases, dists, outgoing, declared, paidOut>>

DistStatuses == {"draft", "approved", "processing", "paid"}
Dist == [status : DistStatuses, total : Sums,
         units : [Holders -> Units], amount : [Holders -> 0 .. Max(Sums)],
         paid : SUBSET Holders, withheld : SUBSET Holders]
NoDist == [status |-> "none", total |-> 0, units |-> [h \in Holders |-> 0],
           amount |-> [h \in Holders |-> 0], paid |-> {}, withheld |-> {}]

DistributionInit ==
    /\ KycInit
    /\ dists = [d \in Dists |-> NoDist]
    /\ outgoing = [d \in Dists |-> [h \in Holders |-> 0]]
    /\ declared = [d \in Dists |-> 0]
    /\ paidOut = [d \in Dists |-> 0]

-----------------------------------------------------------------------------
\* The holders with an allocation: those with units on the record date.
Eligible(units) == {h \in Holders : units[h] > 0}

\* Mutant: ties and leftovers ignore the remainders.
RankByKey(units, remainder, h) == Cardinality({g \in Eligible(units) : g < h})
\* The place of h when the largest remainder comes first, ids breaking ties.
Rank(units, remainder, h) ==
    Cardinality({g \in Eligible(units) :
        \/ remainder[g] > remainder[h]
        \/ remainder[g] = remainder[h] /\ g < h})

RoundedUp(units, remainder, leftover, h) ==
    Rank(units, remainder, h) < leftover

\* The leftover is less than one unit per holder, so that the loop that hands
\* it out never comes round to the first holder again.
LargestRemainder(total, units) ==
    LET weight == SumFunctionOnSet(units, Eligible(units))
        share == [h \in Holders |-> (total * units[h]) \div weight]
        remainder == [h \in Holders |-> (total * units[h]) % weight]
        leftover == total - SumFunctionOnSet(share, Eligible(units))
    IN  [h \in Holders |->
            IF h \in Eligible(units) /\ RoundedUp(units, remainder, leftover, h)
            THEN share[h] + 1 ELSE share[h]]

\* units stands for the holdings at the record date, read once.
CreateDistributionPreview(d, total, units) ==
    /\ dists[d] = NoDist
    /\ Eligible(units) # {}
    /\ dists' = [dists EXCEPT ![d] =
           [status |-> "draft", total |-> total, units |-> units,
            amount |-> LargestRemainder(total, units),
            paid |-> {}, withheld |-> {}]]
    /\ UNCHANGED <<today, cases, outgoing, declared, paidOut>>

Recipients(d) == Eligible(dists[d].units)

ApproveDistribution(d) ==
    /\ dists[d].status = "draft"
    /\ SumFunctionOnSet(dists[d].amount, Recipients(d)) = dists[d].total
    /\ dists' = [dists EXCEPT ![d].status = "approved"]
    /\ declared' = [declared EXCEPT ![d] = dists[d].total]
    /\ UNCHANGED <<today, cases, outgoing, paidOut>>

\* Mutant: an allocation that was withheld is considered again.
DueAgain(d) == Recipients(d) \ dists[d].paid
Due(d) == Recipients(d) \ (dists[d].paid \cup dists[d].withheld)

\* paidOn is a date of the request, today's when there is none.
PayableNow(d, paidOn) ==
    {h \in Due(d) : KycRequired => HasCurrentKyc(h, paidOn)}

\* Mutant: the distribution is settled when nothing is left to try.
SettledWhenTried(d, paid, withheld) == Recipients(d) = paid \cup withheld
Settled(d, paid, withheld) == Recipients(d) = paid

\* Mutant: the whole distribution is posted, withheld amounts included.
PostedInFull(d, now) == IF now = {} THEN 0 ELSE dists[d].total
PostedNow(d, now) == SumFunctionOnSet(dists[d].amount, now)

\* The entry of a distribution's payment has one idempotency key: a second
\* posting of the same amount is answered with the first, any other amount
\* is a conflict that aborts the payment.
PostPayment(d, amount) ==
    IF amount = 0 THEN UNCHANGED paidOut
    ELSE /\ paidOut[d] \in {0, amount}
         /\ paidOut' = [paidOut EXCEPT ![d] = amount]

PayDistribution(d, paidOn) ==
    LET now == PayableNow(d, paidOn)
        paid == dists[d].paid \cup now
        withheld == dists[d].withheld \cup (Due(d) \ now)
    IN  /\ dists[d].status \in {"approved", "processing"}
        /\ PostPayment(d, PostedNow(d, now))
        /\ outgoing' = [outgoing EXCEPT ![d] = [h \in Holders |->
               IF h \in now /\ outgoing[d][h] = 0 THEN dists[d].amount[h]
                                                 ELSE outgoing[d][h]]]
        /\ dists' = [dists EXCEPT
               ![d].paid = paid,
               ![d].withheld = withheld,
               ![d].status = IF Settled(d, paid, withheld)
                             THEN "paid" ELSE "processing"]
        /\ UNCHANGED <<today, cases, declared>>

DistributionNext ==
    \/ KycNext /\ UNCHANGED <<dists, outgoing, declared, paidOut>>
    \/ \E d \in Dists, total \in Sums, units \in [Holders -> Units] :
          CreateDistributionPreview(d, total, units)
    \/ \E d \in Dists : ApproveDistribution(d)
    \/ \E d \in Dists, paidOn \in Days : PayDistribution(d, paidOn)

DistributionSpec == DistributionInit /\ [][DistributionNext]_distributionVars

-----------------------------------------------------------------------------
DistributionTypeOK ==
    /\ KycTypeOK
    /\ dists \in [Dists -> Dist \cup {NoDist}]
    /\ outgoing \in [Dists -> [Holders -> Nat]]
    /\ declared \in [Dists -> Nat]
    /\ paidOut \in [Dists -> Nat]

\* What a preview promises: the allocations add up to the total, each is its
\* proportional share rounded down or up, no holder of more units gets less
\* than a holder of fewer, and of two holders who are rounded differently the
\* one rounded up lost more to rounding.
FairAllocations ==
    \A d \in Dists :
        LET amount == dists[d].amount
            units == dists[d].units
            weight == SumFunctionOnSet(units, Holders)
            total == dists[d].total
            Lost(h) == (total * units[h]) % weight
            Favoured(h) == amount[h] * weight > total * units[h]
        IN  dists[d] # NoDist =>
            /\ SumFunctionOnSet(amount, Holders) = total
            /\ \A h \in Holders :
                  /\ amount[h] * weight < total * units[h] + weight
                  /\ amount[h] * weight + weight > total * units[h]
            /\ \A g, h \in Holders :
                  /\ units[g] > units[h] => amount[g] >= amount[h]
                  /\ Favoured(g) /\ ~ Favoured(h) => Lost(g) >= Lost(h)

\* The books agree with the payments: what the payment entry took from the
\* bank is what the outgoing payments add up to and what the holders marked
\* as paid were due, and never more than the liability that was declared.
CashMatchesAllocations ==
    \A d \in Dists :
        /\ paidOut[d] = SumFunctionOnSet(outgoing[d], Holders)
        /\ paidOut[d] = SumFunctionOnSet(dists[d].amount, dists[d].paid)
        /\ paidOut[d] <= declared[d]

\* createDistributionPreview to payDistribution: what was divided fairly is
\* what is paid and posted.
MoneyAddsUp == FairAllocations /\ CashMatchesAllocations

\* A distribution is settled exactly when every allocation is paid, so that
\* a liability to a withheld holder is never reported as discharged.
SettledOnlyWhenPaid ==
    \A d \in Dists :
        dists[d].status = "paid" <=>
            /\ declared[d] > 0
            /\ paidOut[d] = declared[d]
            /\ Recipients(d) = dists[d].paid

\* A payment run is never taken for a conflicting retry of an earlier one:
\* whoever is still due, nothing has been posted under the payment's key.
PaymentNeverConflicts ==
    \A d \in Dists : Due(d) # {} => paidOut[d] = 0
=============================================================================
