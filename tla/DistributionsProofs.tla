------------------------ MODULE DistributionsProofs ------------------------
(***************************************************************************)
(* Proofs about identity cases, distributions, proposals and the order of  *)
(* needs.                                                                  *)
(***************************************************************************)
EXTENDS Distributions, ProposalWorkflow, SumTheorems

LEMMA KycStepTypes ==
  ASSUME KycTypeOK, [KycNext]_kycVars
  PROVE  KycTypeOK'
<1> USE DEF KycTypeOK
<1>1. ASSUME NEW c \in Cases, NEW s \in Holders, CreateKycCase(c, s)
      PROVE  KycTypeOK'
  BY <1>1 DEF CreateKycCase, Case, Unreviewed, Never
<1>2. ASSUME NEW c \in Cases, NEW result \in CheckStatuses,
             AddKycCheck(c, result)
      PROVE  KycTypeOK'
  <2>1. cases[c] \in Case
    BY <1>2 DEF AddKycCheck, OpenForChecks, NoCase, Unreviewed
  <2>2. [cases[c] EXCEPT !.checks = @ \cup {result},
                         !.status = "in_review"] \in Case
    BY <2>1 DEF Case, Unreviewed
  <2>3. QED
    BY <1>2, <2>2 DEF AddKycCheck
<1>3. ASSUME NEW c \in Cases, NEW decision \in Decisions,
             NEW expires \in Days \cup {Never},
             ReviewKycCase(c, decision, expires)
      PROVE  KycTypeOK'
  <2>1. cases[c] \in Case
    BY <1>3 DEF ReviewKycCase, NoCase, Unreviewed
  <2>2. [cases[c] EXCEPT !.status = decision, !.expires = expires] \in Case
    BY <2>1 DEF Case, Decisions
  <2>3. QED
    BY <1>3, <2>2 DEF ReviewKycCase
<1>4. CASE Tick
  BY <1>4, KycAssumption DEF Tick, Days
<1>5. CASE UNCHANGED kycVars
  BY <1>5 DEF kycVars
<1>6. QED
  BY <1>1, <1>2, <1>3, <1>4, <1>5 DEF KycNext

\* The variables of the identity cases keep their types.
THEOREM KycTypeCorrect == KycSpec => []KycTypeOK
<1>1. KycInit => KycTypeOK
  BY KycAssumption DEF KycInit, KycTypeOK, Days
<1>2. QED
  BY <1>1, KycStepTypes, PTL DEF KycSpec

LEMMA KycStepSound ==
  ASSUME KycTypeOK, KycSound, [KycNext]_kycVars
  PROVE  KycSound'
<1> USE DEF KycTypeOK, KycSound, Active, CasesOf
<1>1. ASSUME NEW c \in Cases, NEW s \in Holders, CreateKycCase(c, s)
      PROVE  KycSound'
  BY <1>1 DEF CreateKycCase, Unreviewed
<1>2. ASSUME NEW c \in Cases, NEW result \in CheckStatuses,
             AddKycCheck(c, result)
      PROVE  KycSound'
  <2>1. /\ cases[c].status \in Unreviewed
        /\ cases[c] \in Case
    BY <1>2 DEF AddKycCheck, OpenForChecks, NoCase, Unreviewed
  <2>2. /\ cases'[c].status = "in_review"
        /\ cases'[c].subject = cases[c].subject
        /\ \A d \in Cases \ {c} : cases'[d] = cases[d]
    BY <1>2, <2>1 DEF AddKycCheck, Case
  <2>3. QED
    BY <2>1, <2>2 DEF Unreviewed
<1>3. ASSUME NEW c \in Cases, NEW decision \in Decisions,
             NEW expires \in Days \cup {Never},
             ReviewKycCase(c, decision, expires)
      PROVE  KycSound'
  <2>1. /\ cases[c].status \in Unreviewed
        /\ cases[c] \in Case
        /\ decision = "verified" => cases[c].checks = {"passed"}
    BY <1>3 DEF ReviewKycCase, NoCase, Unreviewed, Passed
  <2>2. /\ cases'[c].status = decision
        /\ cases'[c].subject = cases[c].subject
        /\ cases'[c].checks = cases[c].checks
        /\ \A d \in Cases \ {c} : cases'[d] = cases[d]
    BY <1>3, <2>1 DEF ReviewKycCase, Case
  <2>3. QED
    BY <2>1, <2>2 DEF Unreviewed, Decisions
<1>4. CASE UNCHANGED cases
  BY <1>4
<1>5. QED
  BY <1>1, <1>2, <1>3, <1>4 DEF KycNext, Tick, kycVars

\* A person never has two active cases, and a verified case has only passed
\* checks.
THEOREM KycIsSound == KycSpec => []KycSound
<1>1. KycInit => KycSound
  BY KycAssumption DEF KycInit, KycSound, Active, CasesOf, NoCase, Unreviewed
<1>2. QED
  BY <1>1, KycStepSound, KycTypeCorrect, PTL DEF KycSpec

\* No step changes a case that has been decided.
THEOREM DecisionsAreFinal == KycSpec => DecidedIsFinal
<1> DEFINE Kept ==
        \A c \in Cases : cases[c].status \in {"verified", "rejected"} =>
            cases'[c] = cases[c]
<1>1. KycTypeOK /\ KycNext => Kept
  <2> SUFFICES ASSUME KycTypeOK, KycNext, NEW d \in Cases,
                      cases[d].status \in {"verified", "rejected"}
               PROVE  cases'[d] = cases[d]
    OBVIOUS
  <2> USE DEF KycTypeOK
  <2>1. ASSUME NEW c \in Cases, NEW s \in Holders, CreateKycCase(c, s)
        PROVE  cases'[d] = cases[d]
    BY <2>1 DEF CreateKycCase, NoCase
  <2>2. ASSUME NEW c \in Cases, NEW result \in CheckStatuses,
               AddKycCheck(c, result)
        PROVE  cases'[d] = cases[d]
    BY <2>2 DEF AddKycCheck, OpenForChecks, Unreviewed
  <2>3. ASSUME NEW c \in Cases, NEW decision \in Decisions,
               NEW expires \in Days \cup {Never},
               ReviewKycCase(c, decision, expires)
        PROVE  cases'[d] = cases[d]
    BY <2>3 DEF ReviewKycCase, Unreviewed
  <2>4. QED
    BY <2>1, <2>2, <2>3 DEF KycNext, Tick
<1> HIDE DEF Kept
<1>2. KycTypeOK /\ [KycNext]_kycVars => [Kept]_kycVars
  BY <1>1
<1>3. KycSpec => [][Kept]_kycVars
  BY <1>2, KycTypeCorrect, PTL DEF KycSpec
<1>4. QED
  BY <1>3, PTL DEF DecidedIsFinal, Kept

-----------------------------------------------------------------------------
(* Distributions.                                                          *)

\* Payment runs leave the identity cases alone, so that all of the above
\* holds of them also where distributions are paid.
THEOREM CasesImplemented == DistributionSpec => KycSpec
<1>1. DistributionInit => KycInit
  BY DEF DistributionInit
<1>2. [DistributionNext]_distributionVars => [KycNext]_kycVars
  BY DEF DistributionNext, distributionVars, kycVars, CreateDistributionPreview,
         ApproveDistribution, PayDistribution
<1>3. QED
  BY <1>1, <1>2, PTL DEF DistributionSpec, KycSpec

Fields == {"status", "total", "units", "amount", "paid", "withheld"}

Untouched(d) ==
    paidOut[d] = 0 /\ dists[d].paid = {} /\ dists[d].withheld = {}

\* What approval established and what it posted.
Declared(d) ==
    /\ dists[d].total \in Nat \ {0}
    /\ SumFunctionOnSet(dists[d].amount, Recipients(d)) = dists[d].total
    /\ declared[d] = dists[d].total

\* What one payment run established: nobody is left to be considered.
Considered(d) ==
    /\ Due(d) = {}
    /\ paidOut[d] = SumFunctionOnSet(dists[d].amount, dists[d].paid)

DistInv(d) ==
    /\ DOMAIN dists[d] = Fields
    /\ \/ /\ dists[d].status = "none"
          /\ Untouched(d)
          /\ declared[d] = 0
       \/ /\ dists[d].status = "draft"
          /\ Untouched(d)
          /\ declared[d] = 0
          /\ dists[d].total \in Nat \ {0}
       \/ /\ dists[d].status = "approved"
          /\ Untouched(d)
          /\ Declared(d)
       \/ /\ dists[d].status = "processing"
          /\ Declared(d)
          /\ Considered(d)
          /\ dists[d].paid # Recipients(d)
       \/ /\ dists[d].status = "paid"
          /\ Declared(d)
          /\ Considered(d)
          /\ dists[d].paid = Recipients(d)

\* The inductive invariant: SettledOnlyWhenPaid alone does not say that a
\* second payment run finds nobody to pay.
Inv ==
    /\ dists = [d \in Dists |-> dists[d]]
    /\ paidOut = [d \in Dists |-> paidOut[d]]
    /\ declared = [d \in Dists |-> declared[d]]
    /\ \A d \in Dists : DistInv(d)

LEMMA InvInit == DistributionInit => Inv
  BY DEF DistributionInit, Inv, DistInv, NoDist, Fields, Untouched

\* A step that writes one distribution leaves the others' invariant alone.
LEMMA OneDistribution ==
  ASSUME Inv, NEW d \in Dists, NEW row, NEW posted, NEW sent,
         dists' = [dists EXCEPT ![d] = row],
         declared' = [declared EXCEPT ![d] = posted],
         paidOut' = [paidOut EXCEPT ![d] = sent],
         DistInv(d)'
  PROVE  Inv'
<1>1. ASSUME NEW e \in Dists
      PROVE  DistInv(e)'
  <2>1. CASE e = d
    BY <2>1
  <2>2. CASE e # d
    <3>1. /\ DistInv(e)
          /\ dists'[e] = dists[e]
          /\ declared'[e] = declared[e]
          /\ paidOut'[e] = paidOut[e]
      BY <2>2 DEF Inv
    <3>2. QED
      BY <3>1 DEF DistInv, Untouched, Declared, Considered, Recipients,
                  Eligible, Due
  <2>3. QED
    BY <2>1, <2>2
<1>2. QED
  BY <1>1 DEF Inv

LEMMA CreateKeeps ==
  ASSUME Inv, NEW d \in Dists, NEW total \in Sums,
         NEW units \in [Holders -> Units],
         CreateDistributionPreview(d, total, units)
  PROVE  Inv'
<1>1. /\ dists[d].status = "none"
      /\ DistInv(d)
  BY DEF CreateDistributionPreview, NoDist, Inv
<1>2. DistInv(d)'
  <2>1. /\ dists'[d].status = "draft"
        /\ dists'[d].total = total
        /\ dists'[d].paid = {}
        /\ dists'[d].withheld = {}
        /\ DOMAIN dists'[d] = Fields
    BY DEF CreateDistributionPreview, Inv, Fields
  <2>2. /\ declared'[d] = 0
        /\ paidOut'[d] = 0
    BY <1>1 DEF CreateDistributionPreview, DistInv, Untouched
  <2>3. QED
    BY <2>1, <2>2, DistributionsAssumption DEF DistInv, Untouched
<1>3. /\ declared' = [declared EXCEPT ![d] = declared[d]]
      /\ paidOut' = [paidOut EXCEPT ![d] = paidOut[d]]
  BY DEF CreateDistributionPreview, Inv
<1>4. QED
  BY <1>2, <1>3, OneDistribution DEF CreateDistributionPreview

LEMMA ApproveKeeps ==
  ASSUME Inv, NEW d \in Dists, ApproveDistribution(d)
  PROVE  Inv'
<1>1. /\ dists[d].status = "draft"
      /\ DistInv(d)
  BY DEF ApproveDistribution, Inv
<1>2. /\ dists'[d].status = "approved"
      /\ dists'[d].total = dists[d].total
      /\ dists'[d].units = dists[d].units
      /\ dists'[d].amount = dists[d].amount
      /\ dists'[d].paid = dists[d].paid
      /\ dists'[d].withheld = dists[d].withheld
      /\ DOMAIN dists'[d] = Fields
  BY <1>1 DEF ApproveDistribution, Inv, DistInv, Fields
<1>3. /\ declared'[d] = dists[d].total
      /\ paidOut'[d] = paidOut[d]
  BY DEF ApproveDistribution, Inv
<1>4. DistInv(d)'
  BY <1>1, <1>2, <1>3
     DEF DistInv, Untouched, Declared, Recipients, ApproveDistribution
<1>5. /\ dists' = [dists EXCEPT ![d] = [dists[d] EXCEPT !.status = "approved"]]
      /\ paidOut' = [paidOut EXCEPT ![d] = paidOut[d]]
  BY DEF ApproveDistribution, Inv
<1>6. QED
  BY <1>4, <1>5, OneDistribution DEF ApproveDistribution

LEMMA PayKeeps ==
  ASSUME Inv, NEW d \in Dists, NEW paidOn \in Days, PayDistribution(d, paidOn)
  PROVE  Inv'
<1> DEFINE now == PayableNow(d, paidOn)
           paid == dists[d].paid \cup now
           withheld == dists[d].withheld \cup (Due(d) \ now)
           row == [dists[d] EXCEPT !.paid = paid, !.withheld = withheld,
                      !.status = IF Settled(d, paid, withheld)
                                 THEN "paid" ELSE "processing"]
<1>1. /\ DistInv(d)
      /\ dists[d].status \in {"approved", "processing"}
      /\ Declared(d)
      /\ now \subseteq Due(d)
  BY DEF PayDistribution, Inv, DistInv, PayableNow
<1>2. dists' = [dists EXCEPT ![d] = row]
  BY DEF PayDistribution, Inv
<1>3. /\ dists'[d].total = dists[d].total
      /\ dists'[d].units = dists[d].units
      /\ dists'[d].amount = dists[d].amount
      /\ dists'[d].paid = paid
      /\ dists'[d].withheld = withheld
      /\ dists'[d].status = IF Recipients(d) = paid
                            THEN "paid" ELSE "processing"
      /\ DOMAIN dists'[d] = Fields
  BY <1>1, <1>2 DEF Inv, DistInv, Fields, Settled
<1>4. Recipients(d)' = Recipients(d)
  BY <1>3 DEF Recipients, Eligible
<1>5. declared' = declared
  BY DEF PayDistribution
<1>6. Declared(d)'
  BY <1>1, <1>3, <1>4, <1>5 DEF Declared
<1>7. Due(d)' = {}
  BY <1>1, <1>3, <1>4 DEF Due
<1> DEFINE amount == SumFunctionOnSet(dists[d].amount, now)
<1>8. /\ amount = 0 => paidOut' = paidOut
      /\ amount # 0 => paidOut' = [paidOut EXCEPT ![d] = amount]
  BY DEF PayDistribution, PostPayment, PostedNow
<1>9. paidOut'[d] = SumFunctionOnSet(dists[d].amount, paid)
  <2>1. CASE dists[d].status = "approved"
    <3>1. paidOut[d] = 0 /\ paid = now
      BY <1>1, <2>1 DEF DistInv, Untouched
    <3>2. QED
      BY <1>8, <3>1 DEF Inv
  <2>2. CASE dists[d].status = "processing"
    <3>1. /\ Due(d) = {}
          /\ paidOut[d] = SumFunctionOnSet(dists[d].amount, dists[d].paid)
      BY <1>1, <2>2 DEF DistInv, Considered
    <3>2. now = {} /\ paid = dists[d].paid
      BY <1>1, <3>1
    <3>3. amount = 0
      BY <3>2, SumOfNone
    <3>4. QED
      BY <1>8, <3>1, <3>2, <3>3
  <2>3. QED
    BY <1>1, <2>1, <2>2
<1>10. DistInv(d)'
  BY <1>3, <1>4, <1>6, <1>7, <1>9 DEF DistInv, Considered
<1>11. /\ declared' = [declared EXCEPT ![d] = declared[d]]
       /\ paidOut' = [paidOut EXCEPT ![d] = paidOut'[d]]
  BY <1>5, <1>8 DEF Inv
<1>12. QED
  BY <1>2, <1>10, <1>11, OneDistribution

LEMMA InvStep == Inv /\ [DistributionNext]_distributionVars => Inv'
<1> SUFFICES ASSUME Inv, [DistributionNext]_distributionVars
             PROVE  Inv'
  OBVIOUS
<1>1. CASE UNCHANGED <<dists, outgoing, declared, paidOut>>
  <2>1. \A d \in Dists : DistInv(d) <=> DistInv(d)'
    BY <1>1 DEF DistInv, Untouched, Declared, Considered, Recipients,
                Eligible, Due
  <2>2. QED
    BY <1>1, <2>1 DEF Inv
<1>2. QED
  BY <1>1, CreateKeeps, ApproveKeeps, PayKeeps DEF DistributionNext, distributionVars

THEOREM Invariance == DistributionSpec => []Inv
  BY InvInit, InvStep, PTL DEF DistributionSpec

\* Whenever a payment run has somebody to consider, nothing has been posted
\* under the distribution's payment key, for any number of holders, cases
\* and distributions.
THEOREM NoPaymentConflict == DistributionSpec => []PaymentNeverConflicts
<1>1. Inv => PaymentNeverConflicts
  BY DEF Inv, DistInv, Untouched, Considered, PaymentNeverConflicts
<1>2. QED
  BY <1>1, Invariance, PTL

\* A distribution is reported as paid exactly when its payment posted all
\* that its approval declared and every recipient is paid.
THEOREM PaidMeansSettled == DistributionSpec => []SettledOnlyWhenPaid
<1>1. Inv => SettledOnlyWhenPaid
  BY DEF Inv, DistInv, Untouched, Declared, Considered, SettledOnlyWhenPaid
<1>2. QED
  BY <1>1, Invariance, PTL

-----------------------------------------------------------------------------
LEMMA DistributionConstants ==
  /\ IsFiniteSet(Holders) /\ \A h \in Holders : h \in Nat
  /\ \A total \in Sums : total \in Nat \ {0}
  /\ \A n \in Units : n \in Nat
BY DistributionsAssumption

LEMMA EligibleIs ==
  ASSUME NEW units
  PROVE  /\ Eligible(units) \in SUBSET Holders /\ IsFiniteSet(Eligible(units))
         /\ Cardinality(Eligible(units)) \in Nat
<1>1. Eligible(units) \in SUBSET Holders
  BY DEF Eligible
<1>2. QED
  BY <1>1, DistributionConstants, FS_Subset, FS_CardinalityType

-----------------------------------------------------------------------------
(* The largest remainders.  The holders with units stand in a row, and as  *)
(* many of them as there are units left over come before the rest.         *)

Before(remainder, g, h) ==
    \/ remainder[g] > remainder[h]
    \/ remainder[g] = remainder[h] /\ g < h

LEMMA RankIs ==
  ASSUME NEW units, NEW remainder, NEW h
  PROVE  Rank(units, remainder, h) =
             Cardinality({g \in Eligible(units) : Before(remainder, g, h)})
BY Zenon DEF Rank, Before

LEMMA RankInRow ==
  ASSUME NEW units, NEW remainder \in [Holders -> Nat],
         NEW g \in Eligible(units), NEW h \in Eligible(units),
         Before(remainder, g, h)
  PROVE  Rank(units, remainder, g) < Rank(units, remainder, h)
<1> DEFINE Ahead(k) == {j \in Eligible(units) : Before(remainder, j, k)}
<1>1. /\ \A k \in Eligible(units) : k \in Nat /\ remainder[k] \in Nat
      /\ IsFiniteSet(Eligible(units))
  BY EligibleIs, DistributionConstants
<1>2. Ahead(g) \cup {g} \in SUBSET Ahead(h) /\ g \notin Ahead(g)
  BY <1>1 DEF Before
<1>3. /\ Ahead(g) \in SUBSET Eligible(units) /\ Ahead(h) \in SUBSET Eligible(units)
      /\ Rank(units, remainder, g) = Cardinality(Ahead(g))
      /\ Rank(units, remainder, h) = Cardinality(Ahead(h))
  BY RankIs, Zenon
<1> HIDE DEF Ahead
<1>4. IsFiniteSet(Ahead(g)) /\ IsFiniteSet(Ahead(h))
  BY <1>1, <1>3, FS_Subset
<1>5. Cardinality(Ahead(g) \cup {g}) = Cardinality(Ahead(g)) + 1
  BY <1>2, <1>4, FS_AddElement
<1>6. Cardinality(Ahead(g) \cup {g}) <= Cardinality(Ahead(h))
  BY <1>2, <1>4, FS_Subset
<1>7. Cardinality(Ahead(g)) \in Nat /\ Cardinality(Ahead(h)) \in Nat
  BY <1>4, FS_CardinalityType
<1>8. QED
  BY <1>3, <1>5, <1>6, <1>7

LEMMA RankIsPlace ==
  ASSUME NEW units, NEW remainder \in [Holders -> Nat], NEW h \in Eligible(units)
  PROVE  Rank(units, remainder, h) \in 0 .. Cardinality(Eligible(units)) - 1
<1> DEFINE ahead == {j \in Eligible(units) : Before(remainder, j, h)}
<1>1. /\ h \in Nat /\ remainder[h] \in Nat
      /\ IsFiniteSet(Eligible(units)) /\ Cardinality(Eligible(units)) \in Nat
  BY EligibleIs, DistributionConstants
<1>2. ahead \cup {h} \in SUBSET Eligible(units) /\ h \notin ahead
  BY <1>1 DEF Before
<1>3. Rank(units, remainder, h) = Cardinality(ahead)
  BY RankIs, Zenon
<1> HIDE DEF ahead
<1>4. IsFiniteSet(ahead)
  BY <1>1, <1>2, FS_Subset
<1>5. /\ Cardinality(ahead \cup {h}) = Cardinality(ahead) + 1
      /\ Cardinality(ahead) \in Nat
  BY <1>2, <1>4, FS_AddElement, FS_CardinalityType
<1>6. Cardinality(ahead \cup {h}) <= Cardinality(Eligible(units))
  BY <1>1, <1>2, FS_Subset
<1>7. QED
  BY <1>1, <1>3, <1>5, <1>6

\* Of two holders with units one comes before the other.
LEMMA OneIsBefore ==
  ASSUME NEW units, NEW remainder \in [Holders -> Nat],
         NEW g \in Eligible(units), NEW h \in Eligible(units), g # h
  PROVE  Before(remainder, g, h) \/ Before(remainder, h, g)
<1>1. /\ g \in Nat /\ h \in Nat
      /\ remainder[g] \in Nat /\ remainder[h] \in Nat
  BY EligibleIs, DistributionConstants
<1>2. QED
  BY <1>1 DEF Before

\* As many holders are rounded up as there are units left over.
LEMMA RoundedUpAre ==
  ASSUME NEW units, NEW remainder \in [Holders -> Nat], NEW leftover \in Nat,
         leftover <= Cardinality(Eligible(units))
  PROVE  Cardinality({h \in Eligible(units) :
                         RoundedUp(units, remainder, leftover, h)}) = leftover
<1> DEFINE E == Eligible(units)
           c == Cardinality(E)
           rank == [h \in E |-> Rank(units, remainder, h)]
           R == {h \in E : RoundedUp(units, remainder, leftover, h)}
           place == [h \in R |-> rank[h]]
<1>1. c \in Nat /\ IsFiniteSet(E)
  BY EligibleIs
<1>2. rank \in [E -> 0 .. c - 1]
  BY RankIsPlace
<1>3. ASSUME NEW g \in E, NEW h \in E, rank[g] = rank[h] PROVE g = h
  <2>1. rank[g] \in Int /\ rank[h] \in Int
    BY <1>2
  <2>2. ~ Before(remainder, g, h) /\ ~ Before(remainder, h, g)
    BY <1>3, <2>1, RankInRow
  <2>3. QED
    BY <2>2, OneIsBefore
<1>4. R = {h \in E : rank[h] < leftover}
  BY DEF RoundedUp
<1> HIDE DEF E, c, rank, R
<1>5. rank \in Surjection(E, 0 .. c - 1)
  <2>1. rank \in Injection(E, 0 .. c - 1)
    BY <1>2, <1>3 DEF Injection, IsInjective
  <2>2. IsFiniteSet(0 .. c - 1) /\ Cardinality(0 .. c - 1) = c
    BY <1>1, FS_Interval
  <2>3. QED
    BY <1>1, <2>1, <2>2, FS_Injection DEF c
<1>6. place \in Bijection(R, 0 .. leftover - 1)
  <2>1. place \in [R -> 0 .. leftover - 1]
    BY <1>2, <1>4
  <2>2. \A g, h \in R : place[g] = place[h] => g = h
    BY <1>3, <1>4
  <2>3. ASSUME NEW n \in 0 .. leftover - 1 PROVE \E h \in R : place[h] = n
    <3>1. n \in 0 .. c - 1
      BY <1>1 DEF c, E
    <3>2. PICK h \in E : rank[h] = n
      BY <1>5, <3>1 DEF Surjection
    <3>3. QED
      BY <1>4, <3>2
  <2> HIDE DEF place
  <2>4. QED
    BY <2>1, <2>2, <2>3 DEF Bijection, Injection, Surjection, IsInjective
<1>7. IsFiniteSet(R)
  BY <1>1, <1>4, FS_Subset
<1>8. Cardinality(R) = Cardinality(0 .. leftover - 1)
  BY <1>6, <1>7, FS_Bijection DEF ExistsBijection
<1>9. QED
  BY <1>8, FS_Interval DEF R, E

\* Division with a remainder.
LEMMA Division ==
  ASSUME NEW a \in Nat, NEW w \in Nat, w > 0
  PROVE  /\ a \div w \in Nat /\ a % w \in Nat /\ a % w < w
         /\ a = w * (a \div w) + (a % w)
         /\ a = 0 => a \div w = 0 /\ a % w = 0
OBVIOUS

WeightOf(units) == SumFunctionOnSet(units, Eligible(units))
ShareOf(total, units) ==
    [h \in Holders |-> (total * units[h]) \div WeightOf(units)]
RemainderOf(total, units) ==
    [h \in Holders |-> (total * units[h]) % WeightOf(units)]
LeftoverOf(total, units) ==
    total - SumFunctionOnSet(ShareOf(total, units), Eligible(units))

LEMMA LargestRemainderIs ==
  ASSUME NEW total, NEW units
  PROVE  LargestRemainder(total, units) =
             [h \in Holders |->
                 IF h \in Eligible(units) /\ RoundedUp(units, RemainderOf(total, units),
                                                  LeftoverOf(total, units), h)
                 THEN ShareOf(total, units)[h] + 1 ELSE ShareOf(total, units)[h]]
BY Zenon DEF LargestRemainder, WeightOf, ShareOf, RemainderOf, LeftoverOf

\* What division leaves for the remainders.
DividesWell(total, units) ==
    LET weight == WeightOf(units)
        share == ShareOf(total, units)
        remainder == RemainderOf(total, units)
    IN  /\ weight \in Nat \ {0}
        /\ remainder \in [Holders -> Nat]
        /\ \A h \in Holders :
              /\ units[h] \in Nat /\ share[h] \in Nat
              /\ remainder[h] < weight
              /\ total * units[h] = weight * share[h] + remainder[h]
              /\ h \notin Eligible(units) =>
                    units[h] = 0 /\ share[h] = 0 /\ remainder[h] = 0

LEMMA WeightIsPositive ==
  ASSUME NEW units \in [Holders -> Nat], Eligible(units) # {}
  PROVE  WeightOf(units) \in Nat \ {0}
<1> DEFINE E == Eligible(units)
<1>1. IsFiniteSet(E) /\ \A h \in E : h \in Holders /\ units[h] \in Nat /\ units[h] > 0
  BY EligibleIs DEF Eligible
<1>2. PICK h \in E : TRUE
  OBVIOUS
<1> HIDE DEF E
<1>3. IsFiniteSet(E \ {h})
  BY <1>1, FS_Subset
<1>4. SumFunctionOnSet(units, E) = units[h] + SumFunctionOnSet(units, E \ {h})
  <2>1. \A x \in E : units[x] \in Int
    BY <1>1
  <2>2. QED
    BY <1>1, <1>2, <2>1, SumTake
<1>5. SumFunctionOnSet(units, E \ {h}) \in Nat
  <2>1. \A x \in E \ {h} : units[x] \in Nat
    BY <1>1
  <2>2. QED
    BY <1>3, <2>1, SumIsNat
<1>6. QED
  BY <1>1, <1>2, <1>4, <1>5 DEF WeightOf, E

LEMMA SharesDivideWell ==
  ASSUME NEW total \in Nat, NEW units \in [Holders -> Nat], Eligible(units) # {}
  PROVE  DividesWell(total, units)
<1> DEFINE weight == WeightOf(units)
           share == ShareOf(total, units)
           remainder == RemainderOf(total, units)
<1>1. weight \in Nat \ {0}
  BY WeightIsPositive
<1> HIDE DEF weight
<1>2. ASSUME NEW h \in Holders
      PROVE  /\ units[h] \in Nat /\ share[h] \in Nat
             /\ remainder[h] \in Nat /\ remainder[h] < weight
             /\ total * units[h] = weight * share[h] + remainder[h]
             /\ h \notin Eligible(units) =>
                    units[h] = 0 /\ share[h] = 0 /\ remainder[h] = 0
  <2> DEFINE a == total * units[h]
  <2>1. /\ units[h] \in Nat /\ a \in Nat
        /\ h \notin Eligible(units) => units[h] = 0 /\ a = 0
    BY DEF Eligible
  <2>2. share[h] = a \div weight /\ remainder[h] = a % weight
    BY DEF ShareOf, RemainderOf, weight
  <2> HIDE DEF share, remainder
  <2>3. /\ a \div weight \in Nat /\ a % weight \in Nat /\ a % weight < weight
        /\ a = weight * (a \div weight) + (a % weight)
        /\ a = 0 => a \div weight = 0 /\ a % weight = 0
    <3> HIDE DEF a
    <3>1. QED
      BY <1>1, <2>1, Division
  <2>4. a = total * units[h]
    OBVIOUS
  <2> HIDE DEF a
  <2>5. QED
    BY <2>1, <2>2, <2>3, <2>4
<1>3. remainder \in [Holders -> Nat]
  <2>1. remainder = [h \in Holders |-> remainder[h]]
    BY DEF RemainderOf
  <2> HIDE DEF remainder
  <2>2. QED
    BY <1>2, <2>1
<1> HIDE DEF share, remainder
<1>4. QED
  BY <1>1, <1>2, <1>3 DEF DividesWell, weight, share, remainder

\* What is left over is less than one unit for every holder who lost something
\* to rounding.
LEMMA LeftoverIsSmall ==
  ASSUME NEW total \in Nat, NEW units \in [Holders -> Nat], Eligible(units) # {}
  PROVE  /\ SumFunctionOnSet(ShareOf(total, units), Eligible(units)) \in Nat
         /\ LeftoverOf(total, units) \in Nat
         /\ LeftoverOf(total, units) <=
               Cardinality({h \in Eligible(units) : RemainderOf(total, units)[h] > 0})
<1> DEFINE E == Eligible(units)
           weight == WeightOf(units)
           share == ShareOf(total, units)
           remainder == RemainderOf(total, units)
           P == {h \in E : remainder[h] > 0}
           p == [h \in E |-> total * units[h]]
           m == [h \in E |-> weight * share[h]]
           one == [h \in E |-> 1]
           full == [h \in E |-> weight]
<1>1. /\ IsFiniteSet(E) /\ weight \in Nat \ {0}
      /\ weight = SumFunctionOnSet(units, E)
      /\ \A h \in E : /\ units[h] \in Nat /\ share[h] \in Nat
                      /\ remainder[h] \in Nat /\ remainder[h] < weight
                      /\ total * units[h] = weight * share[h] + remainder[h]
  <2>1. DividesWell(total, units)
    BY SharesDivideWell
  <2>2. \A h \in E : h \in Holders
    BY EligibleIs
  <2>3. weight = SumFunctionOnSet(units, E)
    BY DEF WeightOf
  <2>4. QED
    BY <2>1, <2>2, <2>3, EligibleIs DEF DividesWell
<1>2. LeftoverOf(total, units) = total - SumFunctionOnSet(share, E)
  BY DEF LeftoverOf
<1> HIDE DEF E, weight, share, remainder
<1>3. SumFunctionOnSet(p, E) = weight * total
  <2>1. \A h \in E : units[h] \in Int /\ p[h] \in Int /\ p[h] * 1 = units[h] * total
    BY <1>1
  <2> HIDE DEF p
  <2>2. SumFunctionOnSet(p, E) * 1 = SumFunctionOnSet(units, E) * total
    BY <1>1, <2>1, SumScaled
  <2>3. SumFunctionOnSet(p, E) \in Int
    BY <1>1, <2>1, SumIsInt
  <2>4. QED
    BY <1>1, <2>2, <2>3
<1>4. /\ SumFunctionOnSet(m, E) = weight * SumFunctionOnSet(share, E)
      /\ SumFunctionOnSet(share, E) \in Nat
  <2>1. /\ \A h \in E : share[h] \in Int /\ m[h] \in Int /\ m[h] * 1 = share[h] * weight
        /\ \A h \in E : share[h] \in Nat
    BY <1>1
  <2> HIDE DEF m
  <2>2. SumFunctionOnSet(m, E) * 1 = SumFunctionOnSet(share, E) * weight
    BY <1>1, <2>1, SumScaled
  <2>3. SumFunctionOnSet(m, E) \in Int /\ SumFunctionOnSet(share, E) \in Nat
    BY <1>1, <2>1, SumIsInt, SumIsNat
  <2>4. QED
    BY <1>1, <2>2, <2>3
<1>5. SumFunctionOnSet(p, E) = SumFunctionOnSet(m, E) + SumFunctionOnSet(remainder, E)
  <2>1. \A h \in E : m[h] \in Int /\ remainder[h] \in Int /\ p[h] = m[h] + remainder[h]
    BY <1>1
  <2> HIDE DEF m, p
  <2>2. QED
    BY <1>1, <2>1, SumPlus
<1>6. /\ SumFunctionOnSet(remainder, E) = SumFunctionOnSet(remainder, P)
      /\ SumFunctionOnSet(remainder, E) \in Nat
      /\ P \in SUBSET E /\ IsFiniteSet(P)
  <2>1. /\ \A h \in E : remainder[h] \in Int /\ remainder[h] \in Nat
        /\ P \in SUBSET E /\ \A h \in E \ P : remainder[h] = 0
    BY <1>1
  <2> HIDE DEF P
  <2>2. QED
    BY <1>1, <2>1, SumWithin, SumIsNat, FS_Subset
<1>7. SumFunctionOnSet(remainder, P) <= SumFunctionOnSet(full, P)
  <2>1. \A h \in P : remainder[h] \in Int /\ full[h] \in Int /\ remainder[h] <= full[h]
    BY <1>1
  <2> HIDE DEF full, P
  <2>2. QED
    BY <1>6, <2>1, SumMonotone
<1>8. SumFunctionOnSet(full, P) = weight * Cardinality(P) /\ Cardinality(P) \in Nat
  <2>1. \A h \in P : one[h] = 1 /\ one[h] \in Int /\ full[h] \in Int
                     /\ full[h] * 1 = one[h] * weight
    BY <1>1
  <2> HIDE DEF full, one, P
  <2>2. SumFunctionOnSet(one, P) = Cardinality(P) /\ Cardinality(P) \in Nat
    BY <1>6, <2>1, SumOfOnes, FS_CardinalityType
  <2>3. SumFunctionOnSet(full, P) * 1 = SumFunctionOnSet(one, P) * weight
    BY <1>1, <1>6, <2>1, SumScaled
  <2>4. SumFunctionOnSet(full, P) \in Int
    BY <1>6, <2>1, SumIsInt
  <2>5. QED
    BY <1>1, <2>2, <2>3, <2>4
<1> HIDE DEF p, m, one, full, P
<1> DEFINE left == LeftoverOf(total, units)
<1>9. /\ weight * left = SumFunctionOnSet(remainder, E) /\ left \in Int
      /\ weight * left <= weight * Cardinality(P)
  BY <1>1, <1>2, <1>3, <1>4, <1>5, <1>6, <1>7, <1>8
<1> HIDE DEF left
<1>10. left \in Nat /\ left <= Cardinality(P)
  BY <1>1, <1>6, <1>8, <1>9
<1>11. QED
  BY <1>4, <1>10 DEF left, P, E, share, remainder

LEMMA Quotients ==
  ASSUME NEW w \in Nat, NEW a \in Nat, NEW b \in Nat, NEW r \in Nat, NEW s \in Nat,
         r < w, w * a + r >= w * b + s
  PROVE  a >= b /\ (a = b => r >= s)
<1>1. CASE a < b
  <2>1. w * a + w <= w * b
    BY <1>1
  <2>2. QED
    BY <2>1
<1>2. QED
  BY <1>1

LEMMA Cancelled ==
  ASSUME NEW t \in Nat, NEW a \in Nat, NEW b \in Nat, t * a = t * b, t * a > 0
  PROVE  a = b
OBVIOUS

\* The body of FairAllocations.
Fair(amount, units, total) ==
    LET weight == SumFunctionOnSet(units, Holders)
        Lost(h) == (total * units[h]) % weight
        Favoured(h) == amount[h] * weight > total * units[h]
    IN  /\ SumFunctionOnSet(amount, Holders) = total
        /\ \A h \in Holders :
              /\ amount[h] * weight < total * units[h] + weight
              /\ amount[h] * weight + weight > total * units[h]
        /\ \A g, h \in Holders :
              /\ units[g] > units[h] => amount[g] >= amount[h]
              /\ Favoured(g) /\ ~ Favoured(h) => Lost(g) >= Lost(h)

\* Who is rounded up lost something, as did all who come before.
LEMMA RoundedUpLost ==
  ASSUME NEW total \in Nat, NEW units \in [Holders -> Nat], Eligible(units) # {},
         NEW h \in Eligible(units),
         RoundedUp(units, RemainderOf(total, units), LeftoverOf(total, units), h)
  PROVE  RemainderOf(total, units)[h] > 0
<1> DEFINE E == Eligible(units)
           remainder == RemainderOf(total, units)
           left == LeftoverOf(total, units)
           P == {g \in E : remainder[g] > 0}
           ahead == {g \in E : Before(remainder, g, h)}
<1>1. /\ remainder \in [Holders -> Nat] /\ IsFiniteSet(E)
      /\ \A g \in E : g \in Holders
  BY SharesDivideWell, EligibleIs DEF DividesWell
<1>2. left \in Nat /\ left <= Cardinality(P)
  BY LeftoverIsSmall
<1>3. Cardinality(ahead) < left
  BY RankIs DEF RoundedUp
<1>4. IsFiniteSet(P) /\ IsFiniteSet(ahead)
  BY <1>1, FS_Subset
<1> SUFFICES ASSUME remainder[h] <= 0 PROVE FALSE
  BY <1>1
<1>5. P \in SUBSET ahead
  BY <1>1 DEF Before
<1> HIDE DEF P, ahead, left
<1>6. Cardinality(P) <= Cardinality(ahead)
  BY <1>4, <1>5, FS_Subset
<1>7. Cardinality(P) \in Nat /\ Cardinality(ahead) \in Nat
  BY <1>4, FS_CardinalityType
<1>8. QED
  BY <1>2, <1>3, <1>6, <1>7

LEMMA AllocationsAreFair ==
  ASSUME NEW total \in Nat, NEW units \in [Holders -> Nat], Eligible(units) # {}
  PROVE  /\ Fair(LargestRemainder(total, units), units, total)
         /\ \A h \in Holders : LargestRemainder(total, units)[h] \in Nat
         /\ SumFunctionOnSet(LargestRemainder(total, units), Eligible(units)) = total
<1> DEFINE E == Eligible(units)
           weight == WeightOf(units)
           share == ShareOf(total, units)
           remainder == RemainderOf(total, units)
           left == LeftoverOf(total, units)
           amount == LargestRemainder(total, units)
           R == {h \in E : RoundedUp(units, remainder, left, h)}
           P == {h \in E : remainder[h] > 0}
           extra == [h \in Holders |-> IF h \in R THEN 1 ELSE 0]
<1>1. /\ IsFiniteSet(E) /\ weight \in Nat \ {0} /\ E \in SUBSET Holders
      /\ remainder \in [Holders -> Nat] /\ IsFiniteSet(Holders)
      /\ Cardinality(E) \in Nat
  BY SharesDivideWell, EligibleIs, DistributionConstants DEF DividesWell
<1>2. /\ \A h \in Holders :
            /\ units[h] \in Nat /\ share[h] \in Nat
            /\ remainder[h] \in Nat /\ remainder[h] < weight
            /\ total * units[h] = weight * share[h] + remainder[h]
            /\ h \notin E => units[h] = 0 /\ share[h] = 0 /\ remainder[h] = 0
  BY SharesDivideWell DEF DividesWell
<1>3. /\ left \in Nat /\ left <= Cardinality(P)
      /\ left = total - SumFunctionOnSet(share, E)
      /\ SumFunctionOnSet(share, E) \in Nat
  BY LeftoverIsSmall DEF LeftoverOf
<1>4. \A h \in R : remainder[h] > 0
  BY RoundedUpLost
<1>5. \A h \in Holders : amount[h] = IF h \in R THEN share[h] + 1 ELSE share[h]
  BY LargestRemainderIs
<1>6. \A h \in Holders : remainder[h] = (total * units[h]) % weight
  BY DEF RemainderOf
<1>7. ASSUME NEW g \in E, NEW h \in R, Before(remainder, g, h) PROVE g \in R
  <2>1. Rank(units, remainder, g) < Rank(units, remainder, h)
    BY <1>1, <1>7, RankInRow
  <2>2. Rank(units, remainder, h) < left
    BY DEF RoundedUp
  <2>3. /\ Rank(units, remainder, g) \in Int /\ Rank(units, remainder, h) \in Int
    BY <1>1, RankIsPlace
  <2>4. Rank(units, remainder, g) < left
    <3> HIDE DEF left, E, remainder
    <3>1. QED
      BY <1>3, <2>1, <2>2, <2>3
  <2>5. QED
    BY <2>4 DEF RoundedUp
<1>8. Cardinality(R) = left
  <2>1. P \in SUBSET E
    OBVIOUS
  <2> HIDE DEF P
  <2>2. Cardinality(P) <= Cardinality(E) /\ Cardinality(P) \in Nat
    BY <1>1, <2>1, FS_Subset, FS_CardinalityType
  <2>3. left <= Cardinality(E)
    <3> HIDE DEF left, E
    <3>1. QED
      BY <1>1, <1>3, <2>2
  <2>4. QED
    BY <1>1, <1>3, <2>3, RoundedUpAre
<1>9. R \in SUBSET E
  OBVIOUS
<1>10. ASSUME NEW g \in E, NEW h \in E, remainder[g] > remainder[h]
       PROVE  Before(remainder, g, h)
  BY <1>10 DEF Before
<1> HIDE DEF E, weight, share, remainder, left, amount, R, P
<1>11. /\ \A h \in Holders : amount[h] \in Nat
       /\ \A h \in Holders : share[h] \in Nat /\ units[h] \in Nat
       /\ \A h \in Holders \ E : units[h] = 0 /\ share[h] = 0
  <2>1. \A h \in Holders : share[h] \in Nat /\ units[h] \in Nat
    BY <1>2
  <2>2. \A h \in Holders \ E : units[h] = 0 /\ share[h] = 0
    BY <1>2
  <2>3. QED
    BY <1>5, <2>1, <2>2
<1>12. SumFunctionOnSet(amount, E) = total
  <2>1. /\ \A h \in E : /\ share[h] \in Int /\ extra[h] \in Int
                        /\ amount[h] = share[h] + extra[h]
        /\ \A h \in E \ R : extra[h] = 0
        /\ \A h \in R : extra[h] = 1
        /\ IsFiniteSet(R)
    <3>1. ASSUME NEW h \in E
          PROVE  /\ share[h] \in Int /\ extra[h] \in Int
                 /\ amount[h] = share[h] + extra[h]
      <4>1. h \in Holders /\ extra[h] = IF h \in R THEN 1 ELSE 0
        BY <1>1
      <4>2. share[h] \in Nat /\ amount[h] = IF h \in R THEN share[h] + 1 ELSE share[h]
        BY <1>5, <1>11, <4>1
      <4> HIDE DEF extra
      <4>3. QED
        BY <4>1, <4>2
    <3>3. IsFiniteSet(R)
      BY <1>1, <1>9, FS_Subset
    <3>4. QED
      BY <1>1, <1>9, <3>1, <3>3
  <2> HIDE DEF extra
  <2>2. SumFunctionOnSet(amount, E) = SumFunctionOnSet(share, E) + SumFunctionOnSet(extra, E)
    BY <1>1, <2>1, SumPlus
  <2>3. SumFunctionOnSet(extra, E) = SumFunctionOnSet(extra, R)
    BY <1>1, <1>9, <2>1, SumWithin
  <2>4. SumFunctionOnSet(extra, R) = left
    BY <1>8, <2>1, SumOfOnes
  <2>5. QED
    BY <1>3, <2>2, <2>3, <2>4
<1>13. SumFunctionOnSet(amount, Holders) = total
  <2>1. ASSUME NEW h \in Holders PROVE amount[h] \in Int
    BY <1>11
  <2>2. \A h \in Holders \ E : amount[h] = 0
    BY <1>5, <1>9, <1>11
  <2>3. QED
    BY <1>1, <1>12, <2>1, <2>2, SumWithin
<1>14. SumFunctionOnSet(units, Holders) = weight
  <2>1. /\ \A h \in Holders : units[h] \in Int
        /\ \A h \in Holders \ E : units[h] = 0
    BY <1>11
  <2>2. QED
    BY <1>1, <2>1, SumWithin DEF weight, WeightOf, E
<1>15. ASSUME NEW h \in Holders
       PROVE  /\ amount[h] * weight < total * units[h] + weight
              /\ amount[h] * weight + weight > total * units[h]
              /\ amount[h] * weight > total * units[h] <=> h \in R
  <2>1. CASE h \in R
    <3>1. amount[h] = share[h] + 1 /\ remainder[h] > 0
      BY <1>4, <1>5, <2>1
    <3>2. amount[h] * weight = weight * share[h] + weight
      BY <1>1, <1>2, <3>1
    <3>3. QED
      BY <1>1, <1>2, <2>1, <3>1, <3>2
  <2>2. CASE h \notin R
    <3>1. amount[h] * weight = weight * share[h]
      BY <1>1, <1>2, <1>5, <2>2
    <3>2. QED
      BY <1>1, <1>2, <2>2, <3>1
  <2>3. QED
    BY <2>1, <2>2
<1>16. ASSUME NEW g \in Holders, NEW h \in Holders, units[g] > units[h]
       PROVE  amount[g] >= amount[h]
  <2>1. g \in E
    BY <1>2, <1>16
  <2>2. total * units[g] >= total * units[h]
    BY <1>2, <1>16
  <2>3. weight * share[g] + remainder[g] >= weight * share[h] + remainder[h]
    BY <1>2, <2>2
  <2>4. share[g] >= share[h] /\ (share[g] = share[h] => remainder[g] >= remainder[h])
    BY <1>1, <1>2, <2>3, Quotients
  <2>5. CASE share[g] > share[h]
    BY <1>5, <1>11, <2>5
  <2>6. CASE share[g] = share[h]
    <3>1. remainder[g] >= remainder[h]
      BY <2>4, <2>6
    <3>2. CASE h \in R /\ g \notin R
      <4>1. remainder[g] = remainder[h] /\ remainder[h] > 0
        <5>1. remainder[h] > 0 /\ h \in E
          BY <1>4, <1>9, <3>2
        <5>2. ~ (remainder[g] > remainder[h])
          BY <1>7, <1>10, <2>1, <3>2, <5>1
        <5>3. remainder[g] \in Nat /\ remainder[h] \in Nat
          BY <1>1
        <5>4. QED
          BY <3>1, <5>1, <5>2, <5>3
      <4>2. /\ total * units[g] = weight * share[g] + remainder[g]
            /\ total * units[h] = weight * share[h] + remainder[h]
            /\ weight * share[h] \in Nat /\ remainder[h] \in Nat
        BY <1>1, <1>2
      <4>3. total * units[g] = total * units[h] /\ total * units[g] > 0
        BY <2>6, <4>1, <4>2
      <4>4. units[g] = units[h]
        BY <1>11, <4>3, Cancelled
      <4>5. QED
        BY <1>11, <1>16, <4>4
    <3>3. QED
      BY <1>5, <1>11, <2>6, <3>2
  <2>7. QED
    BY <1>11, <2>4, <2>5, <2>6
<1>17. ASSUME NEW g \in Holders, NEW h \in Holders, g \in R, h \notin R
       PROVE  remainder[g] >= remainder[h]
  <2>1. CASE h \notin E
    BY <1>2, <2>1
  <2>2. CASE h \in E
    BY <1>2, <1>7, <1>9, <1>10, <1>17, <2>2
  <2>3. QED
    BY <2>1, <2>2
<1>18. Fair(amount, units, total)
  BY <1>6, <1>13, <1>14, <1>15, <1>16, <1>17 DEF Fair
<1>19. QED
  BY <1>11, <1>12, <1>18 DEF amount, E

\* A distribution that was previewed is divided, and stays so; what is paid was
\* due, and is what has gone out.
DividedRow(row) ==
    /\ row.total \in Nat /\ row.units \in [Holders -> Nat]
    /\ Eligible(row.units) # {}
    /\ row.amount = LargestRemainder(row.total, row.units)

Sent(payments, row) ==
    /\ row.paid \in SUBSET Eligible(row.units)
    /\ payments = [h \in Holders |-> IF h \in row.paid THEN row.amount[h] ELSE 0]

MoneyOf(row, payments) ==
    /\ row = NoDist \/ DividedRow(row)
    /\ Sent(payments, row)

MoneyInv ==
    /\ outgoing = [d \in Dists |-> outgoing[d]]
    /\ \A d \in Dists : MoneyOf(dists[d], outgoing[d])

LEMMA MoneyStarts == DistributionInit => MoneyInv
<1> SUFFICES ASSUME DistributionInit PROVE MoneyInv
  OBVIOUS
<1>1. ASSUME NEW d \in Dists
      PROVE  dists[d] = NoDist /\ outgoing[d] = [h \in Holders |-> 0]
  BY DEF DistributionInit
<1>2. Sent([h \in Holders |-> 0], NoDist)
  BY DEF Sent, NoDist
<1>3. outgoing = [d \in Dists |-> outgoing[d]]
  BY DEF DistributionInit
<1>4. QED
  BY <1>1, <1>2, <1>3, Zenon DEF MoneyInv, MoneyOf

\* A step that writes one distribution leaves the others' money alone.
LEMMA MoneyOfOne ==
  ASSUME Inv, MoneyInv, NEW d \in Dists, NEW row, NEW payments,
         dists' = [dists EXCEPT ![d] = row],
         outgoing' = [outgoing EXCEPT ![d] = payments],
         MoneyOf(row, payments)
  PROVE  MoneyInv'
<1>1. ASSUME NEW e \in Dists PROVE MoneyOf(dists'[e], outgoing'[e])
  <2>1. MoneyOf(dists[e], outgoing[e])
    BY DEF MoneyInv
  <2>2. CASE e = d
    <3>1. dists'[e] = row /\ outgoing'[e] = payments
      BY <2>2 DEF Inv, MoneyInv
    <3>2. QED
      BY <3>1
  <2>3. CASE e # d
    <3>1. dists'[e] = dists[e] /\ outgoing'[e] = outgoing[e]
      BY <2>3 DEF Inv, MoneyInv
    <3>2. QED
      BY <2>1, <3>1
  <2>4. QED
    BY <2>2, <2>3
<1>2. outgoing' = [e \in Dists |-> outgoing'[e]]
  BY DEF MoneyInv
<1>3. QED
  BY <1>1, <1>2, Zenon DEF MoneyInv

LEMMA PreviewDivides ==
  ASSUME Inv, MoneyInv, NEW d \in Dists, NEW total \in Sums,
         NEW units \in [Holders -> Units],
         CreateDistributionPreview(d, total, units)
  PROVE  MoneyInv'
<1> DEFINE row == [status |-> "draft", total |-> total, units |-> units,
                   amount |-> LargestRemainder(total, units),
                   paid |-> {}, withheld |-> {}]
<1>1. /\ dists[d] = NoDist /\ Eligible(units) # {}
      /\ dists' = [dists EXCEPT ![d] = row] /\ outgoing' = outgoing
  BY DEF CreateDistributionPreview
<1>2. units \in [Holders -> Nat] /\ total \in Nat
  BY DistributionConstants
<1>3. /\ row.total = total /\ row.units = units /\ row.paid = {}
      /\ row.amount = LargestRemainder(total, units)
  OBVIOUS
<1>4. Sent(outgoing[d], NoDist)
  BY <1>1, Zenon DEF MoneyInv, MoneyOf
<1>5. outgoing[d] = [h \in Holders |-> 0]
  BY <1>4 DEF Sent, NoDist
<1> HIDE DEF row
<1>6. MoneyOf(row, outgoing[d])
  <2>1. DividedRow(row)
    BY <1>1, <1>2, <1>3, Zenon DEF DividedRow
  <2>2. Sent(outgoing[d], row)
    BY <1>3, <1>5 DEF Sent
  <2>3. QED
    BY <2>1, <2>2 DEF MoneyOf
<1>7. outgoing' = [outgoing EXCEPT ![d] = outgoing[d]]
  BY <1>1 DEF MoneyInv
<1>8. QED
  BY <1>1, <1>6, <1>7, MoneyOfOne

LEMMA ApprovalDivides ==
  ASSUME Inv, MoneyInv, NEW d \in Dists, ApproveDistribution(d)
  PROVE  MoneyInv'
<1> DEFINE row == [dists[d] EXCEPT !.status = "approved"]
<1>1. /\ dists' = [dists EXCEPT ![d] = row] /\ outgoing' = outgoing
      /\ dists[d].status = "draft"
  BY DEF ApproveDistribution, Inv
<1>2. DividedRow(dists[d]) /\ Sent(outgoing[d], dists[d])
  <2>1. dists[d] # NoDist
    BY <1>1 DEF NoDist
  <2>2. QED
    BY <2>1, Zenon DEF MoneyInv, MoneyOf
<1>3. DOMAIN dists[d] = Fields
  BY DEF Inv, DistInv
<1>4. /\ row.total = dists[d].total /\ row.units = dists[d].units
      /\ row.amount = dists[d].amount /\ row.paid = dists[d].paid
  BY <1>3 DEF Fields
<1> HIDE DEF row
<1>5. MoneyOf(row, outgoing[d])
  <2>1. DividedRow(row)
    BY <1>2, <1>4, Zenon DEF DividedRow
  <2>2. Sent(outgoing[d], row)
    BY <1>2, <1>4, Zenon DEF Sent
  <2>3. QED
    BY <2>1, <2>2 DEF MoneyOf
<1>6. outgoing' = [outgoing EXCEPT ![d] = outgoing[d]]
  BY <1>1 DEF MoneyInv
<1>7. QED
  BY <1>1, <1>5, <1>6, MoneyOfOne

LEMMA PaymentDivides ==
  ASSUME Inv, MoneyInv, NEW d \in Dists, NEW paidOn \in Days,
         PayDistribution(d, paidOn)
  PROVE  MoneyInv'
<1> DEFINE now == PayableNow(d, paidOn)
           paid == dists[d].paid \cup now
           withheld == dists[d].withheld \cup (Due(d) \ now)
           status == IF Settled(d, paid, withheld) THEN "paid" ELSE "processing"
           row == [dists[d] EXCEPT !.paid = paid, !.withheld = withheld,
                      !.status = status]
           payments == [h \in Holders |->
               IF h \in now /\ outgoing[d][h] = 0 THEN dists[d].amount[h]
                                                 ELSE outgoing[d][h]]
<1>1. /\ dists[d].status \in {"approved", "processing"}
      /\ dists' = [dists EXCEPT ![d] = row]
      /\ outgoing' = [outgoing EXCEPT ![d] = payments]
  BY DEF PayDistribution, Inv
<1>2. DividedRow(dists[d]) /\ Sent(outgoing[d], dists[d])
  <2>1. dists[d] # NoDist
    BY <1>1 DEF NoDist
  <2>2. QED
    BY <2>1, Zenon DEF MoneyInv, MoneyOf
<1>3. DOMAIN dists[d] = Fields
  BY DEF Inv, DistInv
<1>4. /\ row.total = dists[d].total /\ row.units = dists[d].units
      /\ row.amount = dists[d].amount /\ row.paid = paid
  <2> HIDE DEF paid, withheld, status
  <2>1. QED
    BY <1>3 DEF Fields
<1>5. /\ now \in SUBSET Eligible(dists[d].units)
      /\ \A h \in now : h \in Holders /\ h \notin dists[d].paid
  BY DEF PayableNow, Due, Recipients, Eligible
<1> HIDE DEF row, now
<1>6. Sent(payments, row)
  <2>1. paid \in SUBSET Eligible(dists[d].units)
    BY <1>2, <1>5 DEF Sent
  <2>2. ASSUME NEW h \in Holders
        PROVE  payments[h] = IF h \in paid THEN dists[d].amount[h] ELSE 0
    <3>1. outgoing[d][h] = IF h \in dists[d].paid THEN dists[d].amount[h] ELSE 0
      BY <1>2 DEF Sent
    <3>2. QED
      BY <1>5, <3>1
  <2>3. payments = [h \in Holders |-> IF h \in paid THEN dists[d].amount[h] ELSE 0]
    BY <2>2
  <2> HIDE DEF payments, paid
  <2>4. QED
    BY <1>4, <2>1, <2>3, Zenon DEF Sent
<1> HIDE DEF paid, payments
<1>7. DividedRow(row)
  BY <1>2, <1>4, Zenon DEF DividedRow
<1>8. QED
  BY <1>1, <1>6, <1>7, MoneyOfOne DEF MoneyOf

LEMMA MoneyStep == Inv /\ MoneyInv /\ [DistributionNext]_distributionVars => MoneyInv'
<1> SUFFICES ASSUME Inv, MoneyInv, [DistributionNext]_distributionVars
             PROVE  MoneyInv'
  OBVIOUS
<1>1. CASE UNCHANGED <<dists, outgoing>>
  BY <1>1, Zenon DEF MoneyInv
<1>2. QED
  BY <1>1, PreviewDivides, ApprovalDivides, PaymentDivides
  DEF DistributionNext, distributionVars

LEMMA BooksAgree ==
  ASSUME Inv, MoneyInv, NEW d \in Dists
  PROVE  /\ paidOut[d] = SumFunctionOnSet(outgoing[d], Holders)
         /\ paidOut[d] = SumFunctionOnSet(dists[d].amount, dists[d].paid)
         /\ paidOut[d] <= declared[d]
<1> DEFINE amount == dists[d].amount
           paid == dists[d].paid
           sent == outgoing[d]
<1>1. DistInv(d) /\ MoneyOf(dists[d], outgoing[d])
  BY DEF Inv, MoneyInv
<1>2. /\ paid \in SUBSET Recipients(d) /\ Recipients(d) \in SUBSET Holders
      /\ IsFiniteSet(Recipients(d)) /\ IsFiniteSet(Holders)
      /\ sent = [h \in Holders |-> IF h \in paid THEN amount[h] ELSE 0]
  BY <1>1, EligibleIs, DistributionConstants DEF MoneyOf, Sent, Recipients
<1>3. \A h \in Holders : amount[h] \in Nat
  <2>1. CASE dists[d] = NoDist
    <3>1. amount = NoDist.amount
      BY <2>1
    <3>2. NoDist.amount = [h \in Holders |-> 0]
      BY DEF NoDist
    <3>3. amount = [h \in Holders |-> 0]
      BY <3>1, <3>2, Zenon
    <3> HIDE DEF amount
    <3>4. QED
      BY <3>3
  <2>2. CASE DividedRow(dists[d])
    BY <2>2, AllocationsAreFair DEF DividedRow
  <2>3. QED
    BY <1>1, <2>1, <2>2 DEF MoneyOf
<1>4. paidOut[d] = SumFunctionOnSet(amount, paid)
  <2>1. CASE Untouched(d)
    BY <2>1, SumOfNone DEF Untouched
  <2>2. CASE Considered(d)
    BY <2>2 DEF Considered
  <2>3. QED
    BY <1>1, <2>1, <2>2 DEF DistInv
<1>5. paidOut[d] <= declared[d]
  <2>1. CASE Untouched(d) /\ declared[d] = 0
    BY <2>1 DEF Untouched
  <2>2. CASE Declared(d)
    <3>1. declared[d] = SumFunctionOnSet(amount, Recipients(d))
      BY <2>2 DEF Declared
    <3>2. \A h \in Recipients(d) : amount[h] \in Nat
      BY <1>2, <1>3
    <3> HIDE DEF amount, paid
    <3>3. SumFunctionOnSet(amount, paid) <= SumFunctionOnSet(amount, Recipients(d))
      BY <1>2, <3>2, SumGrows
    <3>4. QED
      BY <1>4, <3>1, <3>3
  <2>3. QED
    BY <1>1, <2>1, <2>2 DEF DistInv
<1>6. SumFunctionOnSet(sent, Holders) = SumFunctionOnSet(amount, paid)
  <2>1. ASSUME NEW h \in Holders PROVE sent[h] \in Int
    <3>1. sent[h] = IF h \in paid THEN amount[h] ELSE 0
      BY <1>2
    <3>2. amount[h] \in Nat
      BY <1>3
    <3> HIDE DEF sent, amount, paid
    <3>3. QED
      BY <3>1, <3>2
  <2>2. /\ \A h \in Holders \ paid : sent[h] = 0
        /\ \A h \in paid : sent[h] = amount[h]
        /\ paid \in SUBSET Holders
    BY <1>2
  <2> HIDE DEF sent, amount, paid
  <2>3. SumFunctionOnSet(sent, Holders) = SumFunctionOnSet(sent, paid)
    BY <1>2, <2>1, <2>2, SumWithin
  <2>4. IsFiniteSet(paid)
    BY <1>2, <2>2, FS_Subset
  <2>5. SumFunctionOnSet(sent, paid) = SumFunctionOnSet(amount, paid)
    BY <2>2, <2>4, SumSame
  <2>6. QED
    BY <2>3, <2>5
<1>7. QED
  BY <1>4, <1>5, <1>6

\* What is divided is divided fairly, and what is paid out, posted and sent is
\* what was allocated to whoever is marked as paid, never more than declared,
\* for any number of holders with any number of units and any total.
THEOREM MoneyIsSound == DistributionSpec => []MoneyAddsUp
<1>1. DistributionInit => Inv /\ MoneyInv
  BY InvInit, MoneyStarts
<1>2. Inv /\ MoneyInv /\ [DistributionNext]_distributionVars => Inv' /\ MoneyInv'
  BY InvStep, MoneyStep
<1>3. Inv /\ MoneyInv => MoneyAddsUp
  <2> SUFFICES ASSUME Inv, MoneyInv PROVE MoneyAddsUp
    OBVIOUS
  <2>1. CashMatchesAllocations
    BY BooksAgree, Zenon DEF CashMatchesAllocations
  <2>2. ASSUME NEW d \in Dists, dists[d] # NoDist
        PROVE  Fair(dists[d].amount, dists[d].units, dists[d].total)
    <3>1. DividedRow(dists[d])
      BY <2>2, Zenon DEF MoneyInv, MoneyOf
    <3>2. QED
      BY <3>1, AllocationsAreFair DEF DividedRow
  <2>3. FairAllocations
    BY <2>2, Zenon DEF FairAllocations, Fair
  <2>4. QED
    BY <2>1, <2>3 DEF MoneyAddsUp
<1>4. QED
  BY <1>1, <1>2, <1>3, PTL DEF DistributionSpec

-----------------------------------------------------------------------------
(* Proposals.  The operations on needs come between those on proposals but *)
(* leave their variables alone; what a proposal promises does not depend   *)
(* on the order of the needs.                                              *)

Proposal == [need : Needs, key : Keys, status : Statuses,
             message : Messages, decided : BOOLEAN]

ProposalTypeOK ==
    /\ published \in BOOLEAN
    /\ proposals \in [Proposals -> Proposal \cup {NoProposal}]
    /\ DOMAIN told = Proposals

LEMMA NoProposalIsNone == NoProposal \notin Proposal
  BY DEF NoProposal, Proposal, Statuses

(* What an operation leaves of the other proposals: everything.            *)
OnlyTouches(p) ==
    \A q \in Proposals \ {p} :
        proposals'[q] = proposals[q] /\ told'[q] = told[q]

(* What filing a proposal and what updating one establish.                 *)
Filed(p, need, key) ==
    /\ proposals[p] = NoProposal
    /\ \A q \in Submitted :
          ~ (proposals[q].need = need /\ proposals[q].key = key)
    /\ proposals'[p].need = need /\ proposals'[p].key = key
    /\ proposals'[p].status = "new" /\ proposals'[p].message = ""
    /\ ~proposals'[p].decided
    /\ told'[p].to = "new" /\ told'[p].message = ""

Updated(p) ==
    /\ proposals[p] \in Proposal
    /\ proposals'[p] \in Proposal
    /\ proposals'[p].need = proposals[p].need
    /\ proposals'[p].key = proposals[p].key
    /\ proposals'[p].status # proposals[p].status =>
          /\ proposals'[p].decided <=> proposals'[p].status \in Final
          /\ proposals'[p].status = "accepted" => Acceptable(p)
    /\ proposals'[p].status = proposals[p].status =>
          proposals'[p].decided = proposals[p].decided
    /\ proposals'[p].status = "rejected" => proposals'[p].message = "reason"
    /\ told'[p].to = proposals'[p].status
    /\ told'[p].message = proposals'[p].message

LEMMA CreateFiles ==
  ASSUME ProposalTypeOK, NEW p \in Proposals, NEW n \in Needs, NEW k \in Keys,
         CreateProposal(p, n, k)
  PROVE  Filed(p, n, k) /\ OnlyTouches(p) /\ ProposalTypeOK'
<1> USE DEF ProposalTypeOK, CreateProposal
<1>1. Filed(p, n, k)
  BY DEF Filed, Replay
<1>2. OnlyTouches(p)
  BY DEF OnlyTouches
<1>3. ProposalTypeOK'
  BY DEF Proposal, Statuses, Messages
<1>4. QED
  BY <1>1, <1>2, <1>3

LEMMA UpdateUpdates ==
  ASSUME ProposalTypeOK, NEW p \in Proposals, NEW status \in Statuses,
         NEW written \in BOOLEAN, NEW message \in Messages,
         NEW confirm \in BOOLEAN,
         UpdateProposal(p, status, written, message, confirm)
  PROVE  Updated(p) /\ OnlyTouches(p) /\ ProposalTypeOK'
<1> DEFINE row == proposals[p]
           changed == status # row.status
           decision == NextDecision(row, status, changed, written, message)
           decided == Decided(row, status, changed)
<1>1. row \in Proposal
  BY DEF ProposalTypeOK, UpdateProposal, Submitted
<1>2. decision \in Messages /\ decided \in BOOLEAN
  <2>1. decision \in Messages
    BY <1>1 DEF NextDecision, Proposal, Messages
  <2>2. decided \in BOOLEAN
    <3>1. CASE changed
      <4>1. CASE status \in Final
        BY <3>1, <4>1 DEF Decided
      <4>2. CASE status \notin Final
        BY <3>1, <4>2 DEF Decided
      <4>3. QED
        BY <4>1, <4>2
    <3>2. CASE ~changed
      BY <1>1, <3>2 DEF Decided, Proposal
    <3>3. QED
      BY <3>1, <3>2
  <2>3. QED
    BY <2>1, <2>2
<1>3. /\ changed /\ status = "accepted" => Acceptable(p)
      /\ status = "rejected" => decision = "reason"
      /\ changed \/ decision # row.message
      /\ proposals' = [proposals EXCEPT ![p] =
             [row EXCEPT !.status = status, !.message = decision,
                         !.decided = decided]]
      /\ told' = [told EXCEPT ![p] = [from |-> row.status, to |-> status,
                                      message |-> decision]]
      /\ published' = published
  BY DEF UpdateProposal, ReasonGiven, Visible
<1>4. /\ changed => (decided <=> status \in Final)
      /\ ~changed => decided = row.decided
  BY DEF Decided
<1> HIDE DEF decision, decided
<1>5. /\ proposals'[p] \in Proposal
      /\ proposals'[p] = [need |-> row.need, key |-> row.key,
                          status |-> status, message |-> decision,
                          decided |-> decided]
      /\ told'[p] = [from |-> row.status, to |-> status,
                     message |-> decision]
  BY <1>1, <1>2, <1>3 DEF Proposal, ProposalTypeOK
<1>6. Updated(p)
  BY <1>1, <1>3, <1>4, <1>5 DEF Updated
<1>7. OnlyTouches(p)
  BY <1>3 DEF OnlyTouches, ProposalTypeOK
<1>8. ProposalTypeOK'
  BY <1>3, <1>5 DEF ProposalTypeOK
<1>9. QED
  BY <1>6, <1>7, <1>8

LEMMA PatchUpdates ==
  ASSUME ProposalTypeOK, NEW p \in Proposals, PatchProposal(p)
  PROVE  Updated(p) /\ OnlyTouches(p) /\ ProposalTypeOK'
<1>1. PICK written \in BOOLEAN, confirm \in BOOLEAN, message \in Messages :
        \/ \E status \in Statuses :
              UpdateProposal(p, status, written, message, confirm)
        \/ UpdateProposal(p, proposals[p].status, written, message, confirm)
  BY DEF PatchProposal
<1>2. ASSUME UpdateProposal(p, proposals[p].status, written, message, confirm)
      PROVE  proposals[p].status \in Statuses
  BY <1>2 DEF UpdateProposal, Submitted, ProposalTypeOK, Proposal
<1>3. QED
  BY <1>1, <1>2, UpdateUpdates

LEMMA FiledIsSound ==
  ASSUME ProposalTypeOK, ProposalsSound, ProposalTypeOK',
         NEW p \in Proposals, NEW n \in Needs, NEW k \in Keys,
         Filed(p, n, k), OnlyTouches(p)
  PROVE  ProposalsSound'
<1>1. \A q \in Submitted' : q # p => q \in Submitted
  BY DEF OnlyTouches, Submitted
<1>2. OneAcceptedPerNeed'
  BY <1>1 DEF OneAcceptedPerNeed, ProposalsSound, Filed, OnlyTouches, Submitted
<1>3. DecisionConsistent'
  BY <1>1 DEF DecisionConsistent, ProposalsSound, Filed, OnlyTouches,
              Submitted, Final
<1>4. TrackingTellsTruth'
  BY <1>1 DEF TrackingTellsTruth, ProposalsSound, Filed, OnlyTouches, Submitted
<1>5. OneProposalPerKey'
  <2> SUFFICES ASSUME NEW q \in Submitted', NEW r \in Submitted', q # r,
                      proposals'[q].need = proposals'[r].need,
                      proposals'[q].key = proposals'[r].key
               PROVE  FALSE
    BY DEF OneProposalPerKey
  <2>1. CASE q = p
    BY <1>1, <2>1 DEF Filed, OnlyTouches, Submitted
  <2>2. CASE r = p
    BY <1>1, <2>2 DEF Filed, OnlyTouches, Submitted
  <2>3. CASE q # p /\ r # p
    BY <1>1, <2>3 DEF ProposalsSound, OneProposalPerKey, OnlyTouches, Submitted
  <2>4. QED
    BY <2>1, <2>2, <2>3
<1>6. QED
  BY <1>2, <1>3, <1>4, <1>5 DEF ProposalsSound

LEMMA UpdatedIsSound ==
  ASSUME ProposalTypeOK, ProposalsSound, ProposalTypeOK',
         NEW p \in Proposals, Updated(p), OnlyTouches(p)
  PROVE  ProposalsSound'
<1>1. Submitted' = Submitted /\ p \in Submitted
  BY NoProposalIsNone DEF OnlyTouches, Updated, Submitted
<1>2. OneAcceptedPerNeed'
  BY <1>1 DEF OneAcceptedPerNeed, ProposalsSound, Updated, OnlyTouches,
              Submitted, Acceptable
<1>3. DecisionConsistent'
  BY <1>1 DEF DecisionConsistent, ProposalsSound, Updated, OnlyTouches,
              Submitted
<1>4. TrackingTellsTruth'
  BY <1>1 DEF TrackingTellsTruth, ProposalsSound, Updated, OnlyTouches,
              Submitted
<1>5. OneProposalPerKey'
  BY <1>1 DEF OneProposalPerKey, ProposalsSound, Updated, OnlyTouches,
              Submitted
<1>6. QED
  BY <1>2, <1>3, <1>4, <1>5 DEF ProposalsSound

LEMMA WorkflowStep ==
  ASSUME ProposalTypeOK, ProposalsSound, [WorkflowNext]_workflowVars
  PROVE  ProposalTypeOK' /\ ProposalsSound'
<1>1. ASSUME NEW value \in BOOLEAN, SetPublished(value)
      PROVE  ProposalTypeOK' /\ ProposalsSound'
  BY <1>1 DEF SetPublished, ProposalTypeOK, ProposalsSound, OneAcceptedPerNeed,
              DecisionConsistent, TrackingTellsTruth, OneProposalPerKey,
              Submitted
<1>2. ASSUME NEW p \in Proposals, NEW n \in Needs, NEW k \in Keys,
             CreateProposal(p, n, k)
      PROVE  ProposalTypeOK' /\ ProposalsSound'
  BY <1>2, CreateFiles, FiledIsSound
<1>3. ASSUME NEW p \in Proposals, PatchProposal(p)
      PROVE  ProposalTypeOK' /\ ProposalsSound'
  BY <1>3, PatchUpdates, UpdatedIsSound
<1>4. CASE UNCHANGED proposalVars
  BY <1>4 DEF proposalVars, ProposalTypeOK, ProposalsSound, OneAcceptedPerNeed,
              DecisionConsistent, TrackingTellsTruth, OneProposalPerKey,
              Submitted
<1>5. QED
  BY <1>1, <1>2, <1>3, <1>4 DEF WorkflowNext, ProposalNext, workflowVars

\* In every order of submissions, retries, decisions, withdrawn decisions and
\* archived needs: a need is promised to one applicant, a rejection has its
\* reason, the applicant's history tells the truth, and a retry files nothing
\* twice.
THEOREM ProposalsAreSound == WorkflowSpec => []ProposalsSound
<1>1. WorkflowInit => ProposalTypeOK /\ ProposalsSound
  BY DEF WorkflowInit, ProposalTypeOK, ProposalsSound, OneAcceptedPerNeed,
         DecisionConsistent, TrackingTellsTruth, OneProposalPerKey, Submitted
<1>2. QED
  BY <1>1, WorkflowStep, PTL DEF WorkflowSpec

-----------------------------------------------------------------------------
(* The order of the needs.  The numbers of the active needs are those of   *)
(* places, whatever is shifted, so that the list a reader sees exists; each*)
(* operation is then shown to change it in one place or to rearrange it.   *)

\* ord gives the elements of S the numbers 1, 2, ... without repetition.
Numbers(ord, S) ==
    /\ \A n \in S : ord[n] \in 1 .. Cardinality(S)
    /\ \A m, n \in S : ord[m] = ord[n] => m = n
    /\ \A i \in 1 .. Cardinality(S) : \E n \in S : ord[n] = i

Listing(ord, S) == [i \in 1 .. Cardinality(S) |-> CHOOSE n \in S : ord[n] = i]

NeedInv ==
    /\ active \in SUBSET Needs /\ archived \in SUBSET Needs
    /\ order_no \in [Needs -> Int]
    /\ Numbers(order_no, active)

LEMMA ActiveIsFinite ==
  ASSUME NEW S \in SUBSET Needs
  PROVE  IsFiniteSet(S) /\ Cardinality(S) \in Nat
BY NeedOrderAssumption, FS_Subset, FS_CardinalityType

LEMMA ListingIs ==
  ASSUME NEW S \in SUBSET Needs, NEW ord, Numbers(ord, S)
  PROVE  /\ Listing(ord, S) \in Seq(S)
         /\ Listing(ord, S) \in [1 .. Cardinality(S) -> S]
         /\ Len(Listing(ord, S)) = Cardinality(S)
         /\ DOMAIN Listing(ord, S) = 1 .. Cardinality(S)
         /\ \A i \in 1 .. Cardinality(S) :
               Listing(ord, S)[i] \in S /\ ord[Listing(ord, S)[i]] = i
         /\ \A n \in S : Listing(ord, S)[ord[n]] = n
         /\ ToSet(Listing(ord, S)) = S
         /\ IsInjective(Listing(ord, S))
<1> DEFINE k == Cardinality(S)
           t == Listing(ord, S)
<1>1. k \in Nat
  BY ActiveIsFinite
<1>2. \A i \in 1 .. k : t[i] \in S /\ ord[t[i]] = i
  BY DEF Numbers, Listing
<1>3. DOMAIN t = 1 .. k /\ t \in [1 .. k -> S]
  BY <1>2 DEF Listing
<1>4. \A n \in S : ord[n] \in 1 .. k /\ t[ord[n]] = n
  BY <1>2 DEF Numbers
<1> HIDE DEF t, k
<1>5. t \in Seq(S) /\ Len(t) = k
  BY <1>1, <1>3
<1>6. ToSet(t) = S
  BY <1>2, <1>3, <1>4 DEF ToSet
<1>7. IsInjective(t)
  BY <1>2, <1>3 DEF IsInjective
<1>8. QED
  BY <1>2, <1>3, <1>4, <1>5, <1>6, <1>7 DEF t, k

\* A sequence that has every element at its number is the listing.
LEMMA ListingIsOne ==
  ASSUME NEW S \in SUBSET Needs, NEW ord, Numbers(ord, S),
         NEW t \in Seq(S), Len(t) = Cardinality(S),
         \A i \in 1 .. Len(t) : ord[t[i]] = i
  PROVE  t = Listing(ord, S)
<1>1. \A i \in 1 .. Cardinality(S) : t[i] \in S
  BY ActiveIsFinite
<1>2. \A i \in 1 .. Cardinality(S) : t[i] = Listing(ord, S)[i]
  BY <1>1, ListingIs DEF Numbers
<1>3. t = [i \in 1 .. Cardinality(S) |-> t[i]]
  BY ActiveIsFinite
<1>4. QED
  BY <1>2, <1>3 DEF Listing

LEMMA ListIs ==
  ASSUME Numbers(order_no, active)
  PROVE  DenseOrder /\ List = Listing(order_no, active)
<1>1. {order_no[n] : n \in active} = 1 .. Cardinality(active)
  BY DEF Numbers
<1>2. QED
  BY <1>1 DEF DenseOrder, List, Listing

LEMMA NextListIs ==
  ASSUME Numbers(order_no', active')
  PROVE  List' = Listing(order_no', active')
<1>1. {order_no'[n] : n \in active'} = 1 .. Cardinality(active')
  BY DEF Numbers
<1>2. QED
  BY <1>1 DEF DenseOrder, List, Listing

LEMMA LesserOfTwo ==
  ASSUME NEW a \in Int, NEW b \in Int
  PROVE  Min({a, b}) = IF a <= b THEN a ELSE b
<1>1. CASE a <= b
  <2>1. \A y \in {a, b} : a <= y
    BY <1>1
  <2>2. Min({a, b}) \in {a, b} /\ \A y \in {a, b} : Min({a, b}) <= y
    BY <2>1 DEF Min
  <2>3. QED
    BY <1>1, <2>2
<1>2. CASE ~(a <= b)
  <2>1. \A y \in {a, b} : b <= y
    BY <1>2
  <2>2. Min({a, b}) \in {a, b} /\ \A y \in {a, b} : Min({a, b}) <= y
    BY <2>1 DEF Min
  <2>3. QED
    BY <1>2, <2>2
<1>3. QED
  BY <1>1, <1>2

\* The next number is that of the place behind the last.
LEMMA NextOrderIs == ASSUME NeedInv PROVE NextOrder = Cardinality(active) + 1
<1> DEFINE k == Cardinality(active)
           T == {0} \cup {order_no[n] : n \in active}
<1>1. k \in Nat
  BY ActiveIsFinite DEF NeedInv
<1>2. T = 0 .. k
  <2>1. {order_no[n] : n \in active} = 1 .. k
    BY DEF NeedInv, Numbers
  <2> HIDE DEF k
  <2>2. 0 .. k = {0} \cup 1 .. k
    BY <1>1
  <2>3. QED
    BY <2>1, <2>2
<1> HIDE DEF k, T
<1>3. Max(T) = k
  <2>1. k \in T /\ \A y \in T : k >= y
    BY <1>1, <1>2
  <2>2. Max(T) \in T /\ \A y \in T : Max(T) >= y
    BY <2>1 DEF Max
  <2>3. Max(T) \in Int /\ Max(T) >= k /\ k >= Max(T)
    BY <1>1, <1>2, <2>1, <2>2
  <2>4. QED
    BY <1>1, <2>3
<1>4. QED
  BY <1>3 DEF NextOrder, k, T

LEMMA JoinedIs ==
  ASSUME NEW S, NEW u \in Seq(S), NEW v \in Seq(S)
  PROVE  /\ u \o v \in Seq(S)
         /\ Len(u \o v) = Len(u) + Len(v)
         /\ \A j \in 1 .. Len(u) : (u \o v)[j] = u[j]
         /\ \A j \in 1 .. Len(v) : (u \o v)[Len(u) + j] = v[j]
OBVIOUS

LEMMA InsertedIs ==
  ASSUME NEW S, NEW s \in Seq(S), NEW x \in S, NEW i \in 1 .. Len(s) + 1
  PROVE  /\ InsertAt(s, i, x) \in Seq(S)
         /\ Len(InsertAt(s, i, x)) = Len(s) + 1
         /\ \A j \in 1 .. Len(s) + 1 :
               InsertAt(s, i, x)[j] = IF j < i THEN s[j] ELSE IF j = i THEN x ELSE s[j - 1]
<1> DEFINE a == SubSeq(s, 1, i - 1)
           c == SubSeq(s, i, Len(s))
<1>0. Len(s) \in Nat /\ i \in Int
  OBVIOUS
<1>1. a \in Seq(S) /\ Len(a) = i - 1 /\ \A j \in 1 .. i - 1 : a[j] = s[j]
  OBVIOUS
<1>2. c \in Seq(S) /\ Len(c) = Len(s) - i + 1
      /\ \A j \in 1 .. Len(s) - i + 1 : c[j] = s[i + j - 1]
  OBVIOUS
<1>3. InsertAt(s, i, x) = a \o <<x>> \o c
  BY DEF InsertAt
<1> HIDE DEF a, c
<1>4. /\ a \o <<x>> \in Seq(S) /\ Len(a \o <<x>>) = i
      /\ \A j \in 1 .. i : (a \o <<x>>)[j] = IF j < i THEN s[j] ELSE x
  BY <1>1
<1> DEFINE d == a \o <<x>>
<1> HIDE DEF d
<1>5. PICK w : w = d \o c
  OBVIOUS
<1>6. d \in Seq(S) /\ Len(d) = i /\ InsertAt(s, i, x) = w
      /\ \A j \in 1 .. i : d[j] = IF j < i THEN s[j] ELSE x
  BY <1>3, <1>4, <1>5 DEF d
<1>7. /\ w \in Seq(S) /\ Len(w) = Len(s) + 1
      /\ \A j \in 1 .. i : w[j] = d[j]
      /\ \A j \in 1 .. Len(s) - i + 1 : w[i + j] = c[j]
  <2>1. /\ d \o c \in Seq(S)
        /\ Len(d \o c) = Len(d) + Len(c)
        /\ \A j \in 1 .. Len(d) : (d \o c)[j] = d[j]
        /\ \A j \in 1 .. Len(c) : (d \o c)[Len(d) + j] = c[j]
    BY <1>2, <1>6, JoinedIs
  <2>2. Len(d) + Len(c) = Len(s) + 1
    BY <1>0, <1>2, <1>6
  <2>3. QED
    BY <1>2, <1>5, <1>6, <2>1, <2>2
<1>8. ASSUME NEW j \in 1 .. Len(s) + 1
      PROVE  w[j] = IF j < i THEN s[j] ELSE IF j = i THEN x ELSE s[j - 1]
  <2>1. CASE j <= i
    BY <1>0, <1>6, <1>7, <2>1
  <2>2. CASE j > i
    <3>1. j - i \in 1 .. Len(s) - i + 1
      BY <1>0, <2>2
    <3>2. w[i + (j - i)] = c[j - i] /\ c[j - i] = s[i + (j - i) - 1]
      BY <1>2, <1>7, <3>1
    <3>3. i + (j - i) = j /\ i + (j - i) - 1 = j - 1
      BY <1>0
    <3>4. QED
      BY <1>0, <2>2, <3>2, <3>3
  <2>3. QED
    BY <1>0, <2>1, <2>2
<1>9. QED
  BY <1>6, <1>7, <1>8

LEMMA RemovedIs ==
  ASSUME NEW S, NEW s \in Seq(S), NEW i \in 1 .. Len(s)
  PROVE  /\ RemoveAt(s, i) \in Seq(S)
         /\ Len(RemoveAt(s, i)) = Len(s) - 1
         /\ \A j \in 1 .. Len(s) - 1 :
               RemoveAt(s, i)[j] = IF j < i THEN s[j] ELSE s[j + 1]
<1> DEFINE a == SubSeq(s, 1, i - 1)
           c == SubSeq(s, i + 1, Len(s))
<1>0. Len(s) \in Nat /\ i \in Int
  OBVIOUS
<1>1. a \in Seq(S) /\ Len(a) = i - 1 /\ \A j \in 1 .. i - 1 : a[j] = s[j]
  OBVIOUS
<1>2. c \in Seq(S) /\ Len(c) = Len(s) - i
      /\ \A j \in 1 .. Len(s) - i : c[j] = s[i + j]
  OBVIOUS
<1>3. RemoveAt(s, i) = a \o c
  BY DEF RemoveAt
<1> HIDE DEF a, c
<1>4. PICK w : w = a \o c
  OBVIOUS
<1>5. /\ w \in Seq(S) /\ Len(w) = Len(s) - 1 /\ RemoveAt(s, i) = w
      /\ \A j \in 1 .. i - 1 : w[j] = a[j]
      /\ \A j \in 1 .. Len(s) - i : w[i - 1 + j] = c[j]
  <2>0. a \in Seq(S) /\ c \in Seq(S)
    BY <1>1, <1>2
  <2>1. /\ a \o c \in Seq(S)
        /\ Len(a \o c) = Len(a) + Len(c)
        /\ \A j \in 1 .. Len(a) : (a \o c)[j] = a[j]
        /\ \A j \in 1 .. Len(c) : (a \o c)[Len(a) + j] = c[j]
    BY <2>0, JoinedIs
  <2>2. Len(a) + Len(c) = Len(s) - 1
    BY <1>0, <1>1, <1>2
  <2>3. QED
    BY <1>1, <1>2, <1>3, <1>4, <2>1, <2>2
<1>6. ASSUME NEW j \in 1 .. Len(s) - 1
      PROVE  w[j] = IF j < i THEN s[j] ELSE s[j + 1]
  <2>1. CASE j < i
    BY <1>0, <1>1, <1>5, <2>1
  <2>2. CASE j >= i
    <3>1. j - i + 1 \in 1 .. Len(s) - i
      BY <1>0, <2>2
    <3>2. w[i - 1 + (j - i + 1)] = c[j - i + 1] /\ c[j - i + 1] = s[i + (j - i + 1)]
      BY <1>2, <1>5, <3>1
    <3>3. i - 1 + (j - i + 1) = j /\ i + (j - i + 1) = j + 1
      BY <1>0
    <3>4. QED
      BY <1>0, <2>2, <3>2, <3>3
  <2>3. QED
    BY <1>0, <2>1, <2>2
<1>7. QED
  BY <1>5, <1>6

\* What every operation comes to.
Arranged ==
    /\ NeedInv'
    /\ Ordered!Next

\* The same needs in another order.
LEMMA RearrangeStep ==
  ASSUME NeedInv, active' = active, NeedInv'
  PROVE  Ordered!Next
<1>1. List = Listing(order_no, active) /\ List' = Listing(order_no', active')
  BY ListIs, NextListIs DEF NeedInv
<1>2. /\ ToSet(List) = active /\ DOMAIN List = 1 .. Cardinality(active)
  BY <1>1, ListingIs DEF NeedInv
<1>3. /\ ToSet(List') = active /\ IsInjective(List')
      /\ List' \in [1 .. Cardinality(active) -> active]
  BY <1>1, ListingIs DEF NeedInv
<1>4. PICK s : s = List'
  OBVIOUS
<1>5. s \in [DOMAIN List -> ToSet(List)]
  BY <1>2, <1>3, <1>4
<1>6. Ordered!Rearrange(s)
  BY <1>2, <1>3, <1>4
     DEF Ordered!Rearrange, Ordered!ToSet, ToSet, Ordered!IsInjective, IsInjective
<1>7. Ordered!ToSet(List) = ToSet(List)
  BY DEF Ordered!ToSet, ToSet
<1>8. QED
  BY <1>5, <1>6, <1>7 DEF Ordered!Next

LEMMA CreateStep ==
  ASSUME NeedInv, NEW n \in Needs, NEW wanted \in Positions, CreateNeed(n, wanted)
  PROVE  Arranged
<1> DEFINE k == Cardinality(active)
           selected == Min({wanted, NextOrder})
<1>1. k \in Nat /\ IsFiniteSet(active) /\ active \in SUBSET Needs
      /\ order_no \in [Needs -> Int] /\ archived' = archived
  BY ActiveIsFinite DEF NeedInv, CreateNeed
<1>2. /\ n \notin active
      /\ active' = active \cup {n}
      /\ order_no' = [Shifted(FromPosition(selected), 1) EXCEPT ![n] = selected]
  BY DEF CreateNeed
<1>3. selected \in 1 .. k + 1
  <2>1. NextOrder = k + 1 /\ wanted \in Int /\ wanted >= 1
    BY NextOrderIs, NeedOrderAssumption DEF Positions
  <2> HIDE DEF k
  <2>2. selected = IF wanted <= k + 1 THEN wanted ELSE k + 1
    BY <1>1, <2>1, LesserOfTwo
  <2>3. QED
    BY <1>1, <2>1, <2>2
<1>4. Cardinality(active') = k + 1 /\ active' \in SUBSET Needs
  BY <1>1, <1>2, FS_AddElement
<1> HIDE DEF selected
<1>5. /\ order_no' \in [Needs -> Int]
      /\ order_no'[n] = selected
      /\ \A m \in active :
            order_no'[m] = IF order_no[m] >= selected THEN order_no[m] + 1 ELSE order_no[m]
  BY <1>1, <1>2, <1>3 DEF Shifted, FromPosition
<1>6. /\ \A m \in active : order_no[m] \in 1 .. k
      /\ \A m, j \in active : order_no[m] = order_no[j] => m = j
      /\ \A i \in 1 .. k : \E m \in active : order_no[m] = i
  BY DEF NeedInv, Numbers
<1> HIDE DEF k
<1>7. Numbers(order_no', active')
  <2>1. \A m \in active' : order_no'[m] \in 1 .. k + 1
    BY <1>1, <1>2, <1>3, <1>5, <1>6
  <2>2. \A m, j \in active' : order_no'[m] = order_no'[j] => m = j
    BY <1>1, <1>2, <1>3, <1>5, <1>6
  <2>3. ASSUME NEW i \in 1 .. k + 1 PROVE \E m \in active' : order_no'[m] = i
    <3>1. CASE i = selected
      BY <1>2, <1>5, <3>1
    <3>2. CASE i < selected
      <4>1. i \in 1 .. k
        BY <1>1, <1>3, <3>2
      <4>2. PICK m \in active : order_no[m] = i
        BY <1>6, <4>1
      <4>3. order_no'[m] = i
        BY <1>3, <1>5, <3>2, <4>2
      <4>4. QED
        BY <1>2, <4>3
    <3>3. CASE i > selected
      <4>1. i - 1 \in 1 .. k
        BY <1>1, <1>3, <3>3
      <4>2. PICK m \in active : order_no[m] = i - 1
        BY <1>6, <4>1
      <4>3. order_no'[m] = i
        BY <1>3, <1>5, <3>3, <4>2
      <4>4. QED
        BY <1>2, <4>3
    <3>4. QED
      BY <1>3, <3>1, <3>2, <3>3
  <2>4. QED
    BY <1>4, <2>1, <2>2, <2>3 DEF Numbers
<1>8. NeedInv'
  BY <1>1, <1>4, <1>5, <1>7 DEF NeedInv
<1>9. List = Listing(order_no, active) /\ List' = Listing(order_no', active')
  BY <1>7, ListIs, NextListIs DEF NeedInv
<1>10. /\ List \in Seq(active) /\ Len(List) = k
       /\ \A i \in 1 .. k : List[i] \in active /\ order_no[List[i]] = i
       /\ ToSet(List) = active
  BY <1>9, ListingIs DEF NeedInv, k
<1> DEFINE t == InsertAt(List, selected, n)
<1>11. List \in Seq(active')
  BY <1>2, <1>10
<1>12. /\ t \in Seq(active') /\ Len(t) = k + 1
       /\ \A j \in 1 .. k + 1 :
             t[j] = IF j < selected THEN List[j] ELSE IF j = selected THEN n ELSE List[j - 1]
  <2>1. n \in active' /\ selected \in 1 .. Len(List) + 1
    BY <1>2, <1>3, <1>10
  <2>2. QED
    <3>1. PICK S, u, j : S = active' /\ u = List /\ j = selected
      OBVIOUS
    <3>2. u \in Seq(S) /\ n \in S /\ j \in 1 .. Len(u) + 1
      BY <1>11, <2>1, <3>1
    <3>3. /\ InsertAt(u, j, n) \in Seq(S)
          /\ Len(InsertAt(u, j, n)) = Len(u) + 1
          /\ \A m \in 1 .. Len(u) + 1 :
                InsertAt(u, j, n)[m] = IF m < j THEN u[m] ELSE IF m = j THEN n ELSE u[m - 1]
      BY <3>2, InsertedIs
    <3>4. QED
      BY <1>10, <3>1, <3>3
<1> HIDE DEF t
<1>13. \A j \in 1 .. k + 1 : order_no'[t[j]] = j
  <2> TAKE j \in 1 .. k + 1
  <2>1. CASE j < selected
    <3>1. j \in 1 .. k
      BY <1>1, <1>3, <2>1
    <3>2. QED
      BY <1>1, <1>3, <1>5, <1>10, <1>12, <2>1, <3>1
  <2>2. CASE j = selected
    BY <1>5, <1>12, <2>2
  <2>3. CASE j > selected
    <3>1. j - 1 \in 1 .. k /\ t[j] = List[j - 1]
      BY <1>1, <1>3, <1>12, <2>3
    <3>2. t[j] \in active /\ order_no[t[j]] = j - 1
      BY <1>10, <3>1
    <3>3. QED
      BY <1>1, <1>3, <1>5, <2>3, <3>2
  <2>4. QED
    BY <1>3, <2>1, <2>2, <2>3
<1>14. List' = t
  BY <1>4, <1>7, <1>9, <1>12, <1>13, ListingIsOne
<1>15. Ordered!Insert(n, selected)
  BY <1>2, <1>10, <1>14
     DEF Ordered!Insert, Ordered!InsertAt, InsertAt, Ordered!ToSet, ToSet, t
<1>16. selected \in 1 .. Len(List) + 1
  BY <1>3, <1>10
<1>17. QED
  BY <1>8, <1>15, <1>16 DEF Arranged, Ordered!Next

LEMMA UpdateStep ==
  ASSUME NeedInv, NEW n \in Needs, NEW wanted \in Positions, UpdateNeed(n, wanted)
  PROVE  Arranged
<1> DEFINE k == Cardinality(active)
           selected == Min({wanted, k})
<1>1. k \in Nat /\ active \in SUBSET Needs /\ order_no \in [Needs -> Int]
      /\ active' = active /\ archived' = archived /\ n \in active
  BY ActiveIsFinite DEF NeedInv, UpdateNeed
<1>2. /\ \A m \in active : order_no[m] \in 1 .. k
      /\ \A m, j \in active : order_no[m] = order_no[j] => m = j
      /\ \A i \in 1 .. k : \E m \in active : order_no[m] = i
  BY DEF NeedInv, Numbers
<1>3. selected \in 1 .. k
  <2>1. wanted \in Int /\ wanted >= 1
    BY NeedOrderAssumption DEF Positions
  <2> HIDE DEF k
  <2>2. selected = IF wanted <= k THEN wanted ELSE k
    BY <1>1, <2>1, LesserOfTwo
  <2>3. k >= 1
    BY <1>1, <1>2
  <2>4. QED
    BY <1>1, <2>1, <2>2, <2>3
<1>4. IF selected < order_no[n] THEN MoveUp(n, selected) ELSE MoveDown(n, selected)
  BY DEF UpdateNeed
<1> HIDE DEF selected
<1>5. Numbers(order_no', active) /\ order_no' \in [Needs -> Int]
  <2>1. CASE selected < order_no[n]
    <3>0. order_no' = [Shifted({m \in active : order_no[m] \in selected .. order_no[n] - 1}, 1)
                          EXCEPT ![n] = selected]
      BY <1>4, <2>1 DEF MoveUp
    <3>a. \A m \in active :
             order_no[m] \in selected .. order_no[n] - 1 <=> (selected <= order_no[m] /\ order_no[m] < order_no[n])
      BY <1>1, <1>2, <1>3
    <3>b. order_no' = [m \in Needs |->
             IF m = n THEN selected
             ELSE IF m \in active /\ order_no[m] \in selected .. order_no[n] - 1
             THEN order_no[m] + 1 ELSE order_no[m]]
      BY <3>0 DEF Shifted
    <3>c. order_no' \in [Needs -> Int] /\ order_no'[n] = selected
      BY <1>1, <1>3, <3>b
    <3>1. /\ order_no' \in [Needs -> Int]
          /\ order_no'[n] = selected
          /\ \A m \in active \ {n} :
                order_no'[m] = IF selected <= order_no[m] /\ order_no[m] < order_no[n]
                               THEN order_no[m] + 1 ELSE order_no[m]
      BY <1>1, <3>a, <3>b, <3>c
    <3> HIDE DEF k
    <3>2. \A m \in active : order_no'[m] \in 1 .. k
      BY <1>1, <1>2, <1>3, <2>1, <3>1
    <3>3. \A m, j \in active : order_no'[m] = order_no'[j] => m = j
      BY <1>1, <1>2, <1>3, <2>1, <3>1
    <3>4. ASSUME NEW i \in 1 .. k PROVE \E m \in active : order_no'[m] = i
      <4>1. CASE i = selected
        BY <1>1, <3>1, <4>1
      <4>2. CASE i < selected \/ i > order_no[n]
        <5>1. PICK m \in active : order_no[m] = i
          BY <1>2
        <5>2. m # n
          BY <1>1, <1>2, <1>3, <2>1, <4>2, <5>1
        <5>3. order_no'[m] = i
          BY <1>1, <1>2, <1>3, <3>1, <4>2, <5>1, <5>2
        <5>4. QED
          BY <5>3
      <4>3. CASE selected < i /\ i <= order_no[n]
        <5>1. i - 1 \in 1 .. k
          BY <1>1, <1>3, <4>3
        <5>2. PICK m \in active : order_no[m] = i - 1
          BY <1>2, <5>1
        <5>3. m # n
          BY <1>1, <1>2, <4>3, <5>2
        <5>4. order_no'[m] = i
          BY <1>1, <1>2, <1>3, <3>1, <4>3, <5>2, <5>3
        <5>5. QED
          BY <5>4
      <4>4. QED
        BY <1>1, <1>2, <1>3, <4>1, <4>2, <4>3
    <3>5. QED
      BY <3>1, <3>2, <3>3, <3>4 DEF Numbers, k
  <2>2. CASE ~(selected < order_no[n])
    <3>0. order_no' = [Shifted({m \in active : order_no[m] \in order_no[n] + 1 .. selected}, -1)
                          EXCEPT ![n] = selected]
      BY <1>4, <2>2 DEF MoveDown
    <3>a. \A m \in active :
             order_no[m] \in order_no[n] + 1 .. selected <=> (order_no[n] < order_no[m] /\ order_no[m] <= selected)
      BY <1>1, <1>2, <1>3
    <3>b. order_no' = [m \in Needs |->
             IF m = n THEN selected
             ELSE IF m \in active /\ order_no[m] \in order_no[n] + 1 .. selected
             THEN order_no[m] - 1 ELSE order_no[m]]
      BY <3>0 DEF Shifted
    <3>c. order_no' \in [Needs -> Int] /\ order_no'[n] = selected
      BY <1>1, <1>3, <3>b
    <3>1. /\ order_no' \in [Needs -> Int]
          /\ order_no'[n] = selected
          /\ \A m \in active \ {n} :
                order_no'[m] = IF order_no[n] < order_no[m] /\ order_no[m] <= selected
                               THEN order_no[m] - 1 ELSE order_no[m]
      BY <1>1, <3>a, <3>b, <3>c
    <3> HIDE DEF k
    <3>2. \A m \in active : order_no'[m] \in 1 .. k
      BY <1>1, <1>2, <1>3, <2>2, <3>1
    <3>3. \A m, j \in active : order_no'[m] = order_no'[j] => m = j
      BY <1>1, <1>2, <1>3, <2>2, <3>1
    <3>4. ASSUME NEW i \in 1 .. k PROVE \E m \in active : order_no'[m] = i
      <4>1. CASE i = selected
        BY <1>1, <3>1, <4>1
      <4>2. CASE i > selected \/ i < order_no[n]
        <5>1. PICK m \in active : order_no[m] = i
          BY <1>2
        <5>2. m # n
          BY <1>1, <1>2, <1>3, <2>2, <4>2, <5>1
        <5>3. order_no'[m] = i
          BY <1>1, <1>2, <1>3, <3>1, <4>2, <5>1, <5>2
        <5>4. QED
          BY <5>3
      <4>3. CASE order_no[n] <= i /\ i < selected
        <5>1. i + 1 \in 1 .. k
          BY <1>1, <1>3, <4>3
        <5>2. PICK m \in active : order_no[m] = i + 1
          BY <1>2, <5>1
        <5>3. m # n
          BY <1>1, <1>2, <4>3, <5>2
        <5>4. order_no'[m] = i
          BY <1>1, <1>2, <1>3, <3>1, <4>3, <5>2, <5>3
        <5>5. QED
          BY <5>4
      <4>4. QED
        BY <1>1, <1>2, <1>3, <4>1, <4>2, <4>3
    <3>5. QED
      BY <3>1, <3>2, <3>3, <3>4 DEF Numbers, k
  <2>3. QED
    BY <2>1, <2>2
<1>6. NeedInv'
  BY <1>1, <1>5 DEF NeedInv
<1>7. QED
  BY <1>1, <1>6, RearrangeStep DEF Arranged

LEMMA ArchiveStep ==
  ASSUME NeedInv, NEW n \in Needs, ArchiveNeed(n)
  PROVE  Arranged
<1> DEFINE k == Cardinality(active)
           place == order_no[n]
<1>1. /\ k \in Nat /\ IsFiniteSet(active) /\ active \in SUBSET Needs
      /\ order_no \in [Needs -> Int] /\ archived' \in SUBSET Needs
  BY ActiveIsFinite DEF NeedInv, ArchiveNeed
<1>2. n \in active /\ active' = active \ {n}
  BY DEF ArchiveNeed
<1>3. /\ order_no' \in [Needs -> Int]
      /\ \A m \in active' :
            order_no'[m] = IF order_no[m] > place THEN order_no[m] - 1 ELSE order_no[m]
  BY <1>1, <1>2 DEF ArchiveNeed, Shifted
<1>4. Cardinality(active') = k - 1 /\ active' \in SUBSET Needs
  BY <1>1, <1>2, FS_RemoveElement
<1>5. /\ \A m \in active : order_no[m] \in 1 .. k
      /\ \A m, j \in active : order_no[m] = order_no[j] => m = j
      /\ \A i \in 1 .. k : \E m \in active : order_no[m] = i
      /\ place \in 1 .. k
  BY <1>2 DEF NeedInv, Numbers
<1>6. \A m \in active' : m \in active /\ order_no[m] # place
  BY <1>2, <1>5
<1> HIDE DEF k, place
<1>7. Numbers(order_no', active')
  <2>1. \A m \in active' : order_no'[m] \in 1 .. k - 1
    BY <1>1, <1>3, <1>5, <1>6
  <2>2. \A m, j \in active' : order_no'[m] = order_no'[j] => m = j
    BY <1>1, <1>3, <1>5, <1>6
  <2>3. ASSUME NEW i \in 1 .. k - 1 PROVE \E m \in active' : order_no'[m] = i
    <3>1. CASE i < place
      <4>1. i \in 1 .. k
        BY <1>1
      <4>2. PICK m \in active : order_no[m] = i
        BY <1>5, <4>1
      <4>3. m \in active'
        BY <1>2, <1>5, <3>1, <4>2 DEF place
      <4>4. order_no'[m] = i
        BY <1>3, <1>5, <3>1, <4>2, <4>3
      <4>5. QED
        BY <4>3, <4>4
    <3>2. CASE i >= place
      <4>1. i + 1 \in 1 .. k
        BY <1>1
      <4>2. PICK m \in active : order_no[m] = i + 1
        BY <1>5, <4>1
      <4>3. m \in active'
        BY <1>2, <1>5, <3>2, <4>2 DEF place
      <4>4. order_no'[m] = i
        BY <1>3, <1>5, <3>2, <4>2, <4>3
      <4>5. QED
        BY <4>3, <4>4
    <3>3. QED
      BY <1>5, <3>1, <3>2
  <2>4. QED
    BY <1>4, <2>1, <2>2, <2>3 DEF Numbers
<1>8. NeedInv'
  BY <1>1, <1>3, <1>4, <1>7 DEF NeedInv
<1>9. List = Listing(order_no, active) /\ List' = Listing(order_no', active')
  BY <1>7, ListIs, NextListIs DEF NeedInv
<1>10. /\ List \in Seq(active) /\ Len(List) = k /\ DOMAIN List = 1 .. k
       /\ \A i \in 1 .. k : List[i] \in active /\ order_no[List[i]] = i
  BY <1>9, ListingIs DEF NeedInv, k
<1> DEFINE t == RemoveAt(List, place)
<1>11. /\ t \in Seq(active) /\ Len(t) = k - 1
       /\ \A j \in 1 .. k - 1 : t[j] = IF j < place THEN List[j] ELSE List[j + 1]
  BY <1>5, <1>10, RemovedIs
<1> HIDE DEF t
<1>12. \A j \in 1 .. k - 1 : t[j] \in active' /\ order_no'[t[j]] = j
  <2> TAKE j \in 1 .. k - 1
  <2>1. CASE j < place
    <3>1. j \in 1 .. k /\ t[j] = List[j]
      BY <1>1, <1>11, <2>1
    <3>2. t[j] \in active /\ order_no[t[j]] = j
      BY <1>10, <3>1
    <3>3. t[j] \in active'
      BY <1>2, <1>5, <2>1, <3>2 DEF place
    <3>4. QED
      BY <1>1, <1>3, <1>5, <2>1, <3>2, <3>3
  <2>2. CASE ~(j < place)
    <3>1. j + 1 \in 1 .. k /\ t[j] = List[j + 1]
      BY <1>1, <1>11, <2>2
    <3>2. t[j] \in active /\ order_no[t[j]] = j + 1
      BY <1>10, <3>1
    <3>3. t[j] \in active'
      BY <1>2, <1>5, <2>2, <3>2 DEF place
    <3>4. QED
      BY <1>1, <1>3, <1>5, <2>2, <3>2, <3>3
  <2>3. QED
    BY <2>1, <2>2
<1>13. t \in Seq(active')
  BY <1>1, <1>11, <1>12
<1>14. List' = t
  BY <1>4, <1>7, <1>9, <1>11, <1>12, <1>13, ListingIsOne
<1>15. Ordered!Delete(place) /\ place \in DOMAIN List
  BY <1>5, <1>10, <1>14 DEF Ordered!Delete, Ordered!RemoveAt, RemoveAt, t
<1>16. QED
  BY <1>8, <1>15 DEF Arranged, Ordered!Next

LEMMA ReorderStep ==
  ASSUME NeedInv, NEW ids \in Requests, ReorderNeeds(ids)
  PROVE  Arranged
<1> DEFINE k == Cardinality(active)
<1>1. /\ k \in Nat /\ IsFiniteSet(active) /\ active \in SUBSET Needs
      /\ active' = active /\ archived' = archived
      /\ order_no \in [Needs -> Int]
  BY ActiveIsFinite DEF NeedInv, ReorderNeeds
<1>2. /\ DOMAIN ids = 1 .. k /\ IsInjective(ids) /\ active \subseteq ToSet(ids)
      /\ ToSet(ids) \subseteq Needs
  BY DEF Requests, ReorderNeeds, ValidOrder, ToSet, NeedInv
\* As many places as needs: the request names no other need.
<1>3. ToSet(ids) = active
  <2>1. ids \in Surjection(1 .. k, ToSet(ids))
    BY <1>2 DEF Surjection, ToSet, Requests
  <2>2. IsFiniteSet(1 .. k) /\ Cardinality(1 .. k) = k
    BY <1>1, FS_Interval
  <2> HIDE DEF k
  <2>3. IsFiniteSet(ToSet(ids)) /\ Cardinality(ToSet(ids)) <= k
    BY <2>1, <2>2, FS_Surjection
  <2>4. k <= Cardinality(ToSet(ids)) /\ (Cardinality(ToSet(ids)) = k => ToSet(ids) = active)
    BY <1>1, <1>2, <2>3, FS_Subset DEF k
  <2>5. QED
    BY <1>1, <2>3, <2>4, FS_CardinalityType
<1>4. \A n \in active : \E i \in 1 .. k : ids[i] = n
  BY <1>2 DEF ToSet
<1>5. \A i \in 1 .. k : ids[i] \in active
  BY <1>2, <1>3 DEF ToSet
<1>6. order_no' = [n \in Needs |->
           IF n \in ToSet(ids) THEN CHOOSE i \in DOMAIN ids : ids[i] = n
                               ELSE order_no[n]]
  BY DEF ReorderNeeds
<1>7. \A n \in active : order_no'[n] \in 1 .. k /\ ids[order_no'[n]] = n
  <2> TAKE n \in active
  <2>1. order_no'[n] = CHOOSE i \in 1 .. k : ids[i] = n
    BY <1>1, <1>2, <1>3, <1>6
  <2>2. QED
    BY <1>4, <2>1
<1>8. \A i \in 1 .. k : order_no'[ids[i]] = i
  BY <1>2, <1>5, <1>7 DEF IsInjective
<1> HIDE DEF k
<1>9. Numbers(order_no', active)
  BY <1>5, <1>7, <1>8 DEF Numbers, k
<1>10. order_no' \in [Needs -> Int]
  <2>1. \A n \in Needs : order_no'[n] \in Int
    BY <1>1, <1>3, <1>6, <1>7
  <2>2. QED
    BY <1>6, <2>1
<1>11. NeedInv'
  BY <1>1, <1>9, <1>10 DEF NeedInv
<1>12. QED
  BY <1>1, <1>11, RearrangeStep DEF Arranged

LEMMA NeedStart == ASSUME NeedInit PROVE NeedInv /\ Ordered!Init
<1>1. active = {} /\ archived = {} /\ order_no = [n \in Needs |-> 0]
  BY DEF NeedInit
<1>2. Cardinality(active) = 0
  BY <1>1, FS_EmptySet
<1>3. Numbers(order_no, active)
  BY <1>1, <1>2 DEF Numbers
<1>4. NeedInv
  BY <1>1, <1>3 DEF NeedInv
<1>5. List \in Seq(active) /\ Len(List) = 0
  BY <1>1, <1>2, <1>3, ListIs, ListingIs
<1>6. List = <<>>
  BY <1>5
<1>7. QED
  BY <1>4, <1>6 DEF Ordered!Init

LEMMA NeedStep ==
  ASSUME NeedInv, [NeedNext]_needVars
  PROVE  NeedInv' /\ [Ordered!Next]_List
<1>1. CASE NeedNext
  BY <1>1, CreateStep, UpdateStep, ArchiveStep, ReorderStep DEF NeedNext, Arranged
<1>2. CASE UNCHANGED needVars
  <2>1. active' = active /\ archived' = archived /\ order_no' = order_no
    BY <1>2 DEF needVars
  <2>2. NeedInv'
    BY <2>1 DEF NeedInv
  <2>3. List' = List
    BY <2>1 DEF List, DenseOrder
  <2>4. QED
    BY <2>2, <2>3
<1>3. QED
  BY <1>1, <1>2

\* However many needs there are, the numbers are those of places after every
\* operation.
THEOREM PlacesAreDense == NeedSpec => []DenseOrder
<1>1. NeedInv => DenseOrder
  BY ListIs DEF NeedInv
<1>2. QED
  BY <1>1, NeedStart, NeedStep, PTL DEF NeedSpec

\* The needs implement the ordered list: every operation inserts, deletes or
\* rearranges, whatever range of numbers it shifts.
THEOREM NeedsImplementList == NeedSpec => ImplementsOrderedList
<1>1. QED
  BY NeedStart, NeedStep, PTL DEF NeedSpec, ImplementsOrderedList, Ordered!Spec

\* Proposals leave the list of needs alone.
THEOREM WorkflowImplementsList == WorkflowSpec => ImplementsOrderedList
<1>1. WorkflowInit => NeedInit
  BY DEF WorkflowInit
<1>2. [WorkflowNext]_workflowVars => [NeedNext]_needVars
  BY DEF WorkflowNext, workflowVars
<1>3. WorkflowSpec => NeedSpec
  BY <1>1, <1>2, PTL DEF WorkflowSpec, NeedSpec
<1>4. QED
  BY <1>3, NeedsImplementList
=============================================================================
