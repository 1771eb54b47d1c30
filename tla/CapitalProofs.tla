---------------------------- MODULE CapitalProofs ----------------------------
(***************************************************************************)
(* Proofs about corporate actions and about the votes of meetings, which   *)
(* share no state: what the register holds adds up through splits, issues, *)
(* rights and certificates, an action turns the register its approver saw  *)
(* into what was voted for, and no power is counted twice in a meeting.    *)
(***************************************************************************)
EXTENDS CorporateActions, Governance, SumTheorems

-----------------------------------------------------------------------------
(* Types.                                                                  *)

Seen == [authorized : Nat, holding : [Holders -> Nat],
         evidence : Resolutions \cup {None}]

Action == [status : ActionStatuses, plan : Plans,
           resolution : Resolutions \cup {None}, creator : Users,
           approver : Users \cup {None}, executor : Users \cup {None},
           seen : Seen \cup {None}]

Right == [status : {"none", "available", "partially_exercised", "exercised",
                    "waived"}, entitled : Nat, exercised : Nat]

\* An action may leave the limits that a class is given otherwise.
RegisterOK ==
    /\ authorized \in Nat
    /\ holding \in [Holders -> Nat]
    /\ certificates \in [Certificates -> Certificate \cup {NoCertificate}]

ActionTypeOK ==
    /\ actions \in [Actions -> Action \cup {NoAction}]
    /\ binding \in [Resolutions -> Actions \cup {None}]
    /\ consumed \subseteq Resolutions
    /\ rights \in [Actions -> [Holders -> Right]]

LEMMA RegisterTypes ==
  ASSUME RegisterOK, RegisterNext
  PROVE  RegisterOK'
<1> USE DEF RegisterOK
<1>1. ASSUME NEW limit \in Limits, NEW w \in Weights, PatchShareClass(limit, w)
      PROVE  RegisterOK'
  BY <1>1, RegisterAssumption DEF PatchShareClass
<1>2. ASSUME NEW h \in Holders, NEW units \in IssueSizes, IssueShares(h, units)
      PROVE  RegisterOK'
  BY <1>2, RegisterAssumption DEF IssueShares
<1>3. ASSUME NEW c \in Certificates, NEW h \in Holders, NEW units \in IssueSizes,
             IssueCertificate(c, h, units)
      PROVE  RegisterOK'
  BY <1>3 DEF IssueCertificate, Certificate
<1>4. ASSUME NEW c \in Certificates, CancelCertificate(c)
      PROVE  RegisterOK'
  <2>1. certificates[c] \in Certificate
    BY <1>4 DEF CancelCertificate, NoCertificate
  <2>2. [certificates[c] EXCEPT !.status = "cancelled"] \in Certificate
    BY <2>1 DEF Certificate
  <2>3. QED
    BY <1>4, <2>2 DEF CancelCertificate
<1>5. ASSUME NEW c \in Certificates, NEW new \in Certificates,
             ReplaceCertificate(c, new)
      PROVE  RegisterOK'
  <2>1. certificates[c] \in Certificate
    BY <1>5 DEF ReplaceCertificate, NoCertificate
  <2>2. [certificates[c] EXCEPT !.status = "replaced"] \in Certificate
    BY <2>1 DEF Certificate
  <2>3. QED
    BY <1>5, <2>1, <2>2 DEF ReplaceCertificate
<1>6. QED
  BY <1>1, <1>2, <1>3, <1>4, <1>5
     DEF RegisterNext, ArchiveStakeholder, RestoreStakeholder, OpenVote,
         FinalizeVote, Bootstrap

\* Where a split is possible, nothing is lost in the division.
LEMMA Divides ==
  ASSUME NEW n \in Nat, NEW p \in Plans, Splits(p), Scales(n, p)
  PROVE  /\ p.num \in Nat /\ p.den \in Nat /\ p.den > 0
         /\ (n * p.num) \div p.den \in Nat
         /\ ((n * p.num) \div p.den) * p.den = n * p.num
<1>1. p.num \in Nat /\ p.den \in Nat /\ p.den > 0
  BY ActionsAssumption DEF Splits, Plan
<1> DEFINE x == n * p.num
           d == p.den
<1>2. x \in Nat /\ d \in Nat /\ d > 0 /\ x % d = 0
  BY <1>1 DEF Scales
<1> HIDE DEF x, d
<1>3. x \div d \in Nat /\ (x \div d) * d = x
  BY <1>2
<1>4. QED
  BY <1>1, <1>3 DEF x, d

\* What a split makes of the register.
LEMMA SplitScales ==
  ASSUME RegisterOK, NEW p \in Plans, Possible(p), Splits(p)
  PROVE  /\ p.num \in Nat /\ p.den \in Nat /\ p.den > 0
         /\ AuthorizedAfter(p) \in Nat
         /\ AuthorizedAfter(p) * p.den = authorized * p.num
         /\ HoldingAfter(p) \in [Holders -> Nat]
         /\ \A h \in Holders : HoldingAfter(p)[h] * p.den = holding[h] * p.num
<1>1. \A n \in {authorized} \cup {holding[h] : h \in Holders} : Scales(n, p)
  BY DEF Possible
<1>2. /\ AuthorizedAfter(p) = (authorized * p.num) \div p.den
      /\ HoldingAfter(p) = [h \in Holders |-> (holding[h] * p.num) \div p.den]
  BY DEF AuthorizedAfter, HoldingAfter, Splits
<1>3. /\ p.num \in Nat /\ p.den \in Nat /\ p.den > 0
      /\ AuthorizedAfter(p) \in Nat
      /\ AuthorizedAfter(p) * p.den = authorized * p.num
  BY <1>1, <1>2, Divides DEF RegisterOK
<1>4. ASSUME NEW h \in Holders
      PROVE  /\ HoldingAfter(p)[h] \in Nat
             /\ HoldingAfter(p)[h] * p.den = holding[h] * p.num
  BY <1>1, <1>2, Divides DEF RegisterOK
<1>5. HoldingAfter(p) \in [Holders -> Nat]
  BY <1>2, <1>4
<1>6. QED
  BY <1>3, <1>4, <1>5

LEMMA AfterIsOK ==
  ASSUME RegisterOK, NEW p \in Plans, Possible(p)
  PROVE  AuthorizedAfter(p) \in Nat /\ HoldingAfter(p) \in [Holders -> Nat]
<1>1. CASE Splits(p)
  BY <1>1, SplitScales
<1>2. CASE ~Splits(p)
  <2>1. p.units \in Nat
    BY ActionsAssumption DEF Plan
  <2>2. QED
    BY <1>2, <2>1, ActionsAssumption DEF RegisterOK, AuthorizedAfter, HoldingAfter
<1>3. QED
  BY <1>1, <1>2

\* What a rights issue hands out is a number for every holder.
LEMMA SharesAreNat ==
  ASSUME RegisterOK, NEW p \in Plans, Issued > 0
  PROVE  /\ Issued \in Nat
         /\ \A h \in Holders : (p.units * holding[h]) \div Issued \in Nat
<1>1. Issued \in Nat
  BY RegisterAssumption, SumIsNat DEF RegisterOK, Issued
<1>2. ASSUME NEW h \in Holders PROVE (p.units * holding[h]) \div Issued \in Nat
  <2> DEFINE x == p.units * holding[h]
  <2>1. x \in Nat
    BY ActionsAssumption DEF Plan, RegisterOK
  <2> HIDE DEF x
  <2>2. x \div Issued \in Nat
    BY <1>1, <2>1
  <2>3. QED
    BY <2>2 DEF x
<1>3. QED
  BY <1>1, <1>2

\* The leftover is handed out one unit each, and nobody without shares gets any.
LEMMA EntitledAddUp ==
  ASSUME RegisterOK, NEW p \in Plans, Issued > 0, NEW e \in Entitled(p)
  PROVE  /\ \A h \in Holders : e[h] \in Nat
         /\ \A h \in Holders : holding[h] = 0 => e[h] = 0
         /\ SumFunctionOnSet(e, Holders) = p.units
<1> DEFINE share == [h \in Holders |-> (p.units * holding[h]) \div Issued]
           leftover == p.units - SumFunctionOnSet(share, Holders)
<1>0. p.units \in Nat
  BY ActionsAssumption DEF Plan
<1>1. PICK up \in SUBSET {h \in Holders : holding[h] > 0} :
          /\ Cardinality(up) = leftover
          /\ e = [h \in Holders |-> share[h] + IF h \in up THEN 1 ELSE 0]
  BY DEF Entitled
<1>2. Issued \in Nat /\ \A h \in Holders : share[h] \in Nat
  BY SharesAreNat
<1>3. \A h \in Holders : holding[h] = 0 => share[h] = 0
  <2>1. ASSUME NEW h \in Holders, holding[h] = 0 PROVE share[h] = 0
    <3>1. p.units * holding[h] = 0
      BY <1>0, <2>1
    <3>2. 0 \div Issued = 0
      BY <1>2
    <3>3. QED
      BY <3>1, <3>2
  <2>2. QED
    BY <2>1
<1> DEFINE one == [h \in Holders |-> IF h \in up THEN 1 ELSE 0]
<1> HIDE DEF share
<1>4. \A h \in Holders :
         one[h] \in Nat /\ e[h] = share[h] + one[h] /\ (h \notin up => one[h] = 0)
  BY <1>1
<1>5. SumFunctionOnSet(one, up) = Cardinality(up)
  <2>1. IsFiniteSet(up) /\ \A h \in up : one[h] = 1
    BY RegisterAssumption, FS_Subset
  <2> HIDE DEF one
  <2>2. QED
    BY <2>1, SumOfOnes
<1> HIDE DEF one
<1>6. SumFunctionOnSet(one, Holders) = SumFunctionOnSet(one, up)
  BY <1>4, RegisterAssumption, SumWithin
<1>7. SumFunctionOnSet(e, Holders) =
          SumFunctionOnSet(share, Holders) + SumFunctionOnSet(one, Holders)
  BY <1>2, <1>4, RegisterAssumption, SumPlus
<1>8. SumFunctionOnSet(share, Holders) \in Nat
  BY <1>2, RegisterAssumption, SumIsNat
<1>9. SumFunctionOnSet(e, Holders) = p.units
  BY <1>0, <1>1, <1>5, <1>6, <1>7, <1>8
<1>10. \A h \in Holders : holding[h] = 0 => h \notin up
  BY <1>1
<1>11. QED
  BY <1>2, <1>3, <1>4, <1>9, <1>10

-----------------------------------------------------------------------------
(* The register: what is issued and what is certified.                     *)

LEMMA CapitalIsFinite ==
  /\ IsFiniteSet(Holders) /\ IsFiniteSet(Certificates)
  /\ \A n \in IssueSizes : n \in Nat /\ n > 0
  /\ \A n \in Limits : n \in Nat
  BY RegisterAssumption

LEMMA IssuedIsNat == ASSUME RegisterOK PROVE Issued \in Nat
  BY CapitalIsFinite, SumIsNat DEF RegisterOK, Issued

\* One holder has units more.
LEMMA IssuedGrows ==
  ASSUME RegisterOK, NEW h \in Holders, NEW units \in Nat,
         holding' = [holding EXCEPT ![h] = @ + units]
  PROVE  Issued' = Issued + units
<1>1. /\ \A g \in Holders : holding[g] \in Int /\ holding'[g] \in Int
      /\ \A g \in Holders \ {h} : holding'[g] = holding[g]
      /\ holding'[h] = holding[h] + units
  BY DEF RegisterOK
<1>2. SumFunctionOnSet(holding', Holders) =
          SumFunctionOnSet(holding, Holders) + holding'[h] - holding[h]
  <2> DEFINE f == holding
             k == holding'
  <2>1. /\ \A g \in Holders : f[g] \in Int /\ k[g] \in Int
        /\ \A g \in Holders \ {h} : k[g] = f[g]
    BY <1>1
  <2> HIDE DEF f, k
  <2>2. SumFunctionOnSet(k, Holders) = SumFunctionOnSet(f, Holders) + k[h] - f[h]
    BY <2>1, CapitalIsFinite, SumChange
  <2>3. QED
    BY <2>2 DEF f, k
<1>3. SumFunctionOnSet(holding, Holders) \in Nat
  BY IssuedIsNat DEF Issued
<1>4. holding[h] \in Nat
  BY DEF RegisterOK
<1>5. QED
  BY <1>1, <1>2, <1>3, <1>4 DEF Issued

\* The units of a certificate out of cs, as far as they are certified to h.
ActiveFor(cs, h) ==
    {c \in Certificates : cs[c].status = "active" /\ cs[c].holder = h}
UnitsFor(cs, h) ==
    [c \in Certificates |-> IF c \in ActiveFor(cs, h) THEN cs[c].units ELSE 0]

LEMMA UnitsAreNat ==
  ASSUME NEW cs \in [Certificates -> Certificate \cup {NoCertificate}],
         NEW h \in Holders
  PROVE  \A c \in Certificates : UnitsFor(cs, h)[c] \in Nat
<1> SUFFICES ASSUME NEW c \in ActiveFor(cs, h) PROVE cs[c].units \in Nat
  BY DEF UnitsFor
<1>1. cs[c] \in Certificate
  BY DEF ActiveFor, NoCertificate
<1>2. QED
  BY <1>1, CapitalIsFinite DEF Certificate

LEMMA UnitsAddUp ==
  ASSUME NEW cs \in [Certificates -> Certificate \cup {NoCertificate}],
         NEW h \in Holders
  PROVE  /\ SumFunctionOnSet([c \in Certificates |-> cs[c].units],
                             ActiveFor(cs, h)) =
                SumFunctionOnSet(UnitsFor(cs, h), Certificates)
         /\ SumFunctionOnSet(UnitsFor(cs, h), Certificates) \in Nat
<1> DEFINE units == [c \in Certificates |-> cs[c].units]
           mine == ActiveFor(cs, h)
           f == UnitsFor(cs, h)
<1>1. /\ mine \in SUBSET Certificates
      /\ \A c \in mine : units[c] = f[c]
      /\ \A c \in Certificates \ mine : f[c] = 0
  BY DEF ActiveFor, UnitsFor
<1>2. \A c \in Certificates : f[c] \in Nat
  BY UnitsAreNat
<1> HIDE DEF units, mine, f
<1>3. IsFiniteSet(mine) /\ IsFiniteSet(Certificates)
  BY <1>1, CapitalIsFinite, FS_Subset
<1>4. SumFunctionOnSet(units, mine) = SumFunctionOnSet(f, mine)
  BY <1>1, <1>3, SumSame
<1>5. SumFunctionOnSet(f, Certificates) = SumFunctionOnSet(f, mine)
  BY <1>1, <1>2, <1>3, SumWithin
<1>6. SumFunctionOnSet(f, Certificates) \in Nat
  BY <1>2, <1>3, SumIsNat
<1>7. QED
  BY <1>4, <1>5, <1>6 DEF units, mine, f

LEMMA CertifiedIs ==
  ASSUME NEW h \in Holders
  PROVE  /\ RegisterOK =>
               Certified(h) = SumFunctionOnSet(UnitsFor(certificates, h), Certificates)
         /\ RegisterOK' =>
               Certified(h)' = SumFunctionOnSet(UnitsFor(certificates', h), Certificates)
<1>1. /\ Certified(h) =
             SumFunctionOnSet([c \in Certificates |-> certificates[c].units],
                              ActiveFor(certificates, h))
      /\ Certified(h)' =
             SumFunctionOnSet([c \in Certificates |-> certificates'[c].units],
                              ActiveFor(certificates', h))
  BY Zenon DEF Certified, CertificatesOf, ActiveFor
<1>2. QED
  BY <1>1, UnitsAddUp DEF RegisterOK

\* Where a holder keeps what they have and the certificates do not grow.
LEMMA NoMoreCertified ==
  ASSUME RegisterOK, RegisterOK', NEW h \in Holders,
         Certified(h) <= holding[h], holding[h] <= holding'[h],
         \A c \in Certificates :
            UnitsFor(certificates', h)[c] <= UnitsFor(certificates, h)[c]
  PROVE  Certified(h)' <= holding'[h]
<1> DEFINE f == UnitsFor(certificates, h)
           g == UnitsFor(certificates', h)
<1>1. /\ \A c \in Certificates : f[c] \in Nat
      /\ \A c \in Certificates : g[c] \in Nat
  BY UnitsAreNat DEF RegisterOK
<1>2. /\ Certified(h) = SumFunctionOnSet(f, Certificates)
      /\ Certified(h)' = SumFunctionOnSet(g, Certificates)
  BY CertifiedIs
<1>3. \A c \in Certificates : g[c] <= f[c]
  OBVIOUS
<1> HIDE DEF f, g
<1>4. SumFunctionOnSet(g, Certificates) <= SumFunctionOnSet(f, Certificates)
  BY <1>1, <1>3, CapitalIsFinite, SumMonotone
<1>5. /\ SumFunctionOnSet(g, Certificates) \in Nat
      /\ SumFunctionOnSet(f, Certificates) \in Nat
  BY <1>1, CapitalIsFinite, SumIsNat
<1>6. holding[h] \in Nat /\ holding'[h] \in Nat
  BY DEF RegisterOK
<1>7. QED
  BY <1>2, <1>4, <1>5, <1>6

LEMMA IssueCertificateStep ==
  ASSUME RegisterOK, RegisterOK', CertifiedIsHeld, NEW c \in Certificates,
         NEW h \in Holders, NEW units \in IssueSizes, IssueCertificate(c, h, units)
  PROVE  CertifiedIsHeld'
<1> DEFINE row == [status |-> "active", holder |-> h, units |-> units]
<1>1. /\ certificates' = [certificates EXCEPT ![c] = row]
      /\ certificates[c] = NoCertificate
      /\ Certified(h) + units <= holding[h]
      /\ holding' = holding
  BY DEF IssueCertificate
<1>2. \A d \in Certificates \ {c} : certificates'[d] = certificates[d]
  BY <1>1 DEF RegisterOK
<1>3. certificates'[c] = row /\ certificates[c].status = "none"
  BY <1>1 DEF RegisterOK, NoCertificate
<1>4. ASSUME NEW g \in Holders PROVE Certified(g)' <= holding'[g]
  <2> DEFINE f == UnitsFor(certificates, g)
             k == UnitsFor(certificates', g)
  <2>1. /\ \A d \in Certificates : f[d] \in Nat
        /\ \A d \in Certificates : k[d] \in Nat
    BY UnitsAreNat DEF RegisterOK
  <2>2. /\ Certified(g) = SumFunctionOnSet(f, Certificates)
        /\ Certified(g)' = SumFunctionOnSet(k, Certificates)
    BY CertifiedIs
  <2>3. \A d \in Certificates \ {c} : k[d] = f[d]
    BY <1>2 DEF UnitsFor, ActiveFor
  <2>4. f[c] = 0 /\ k[c] = IF g = h THEN units ELSE 0
    BY <1>3 DEF UnitsFor, ActiveFor
  <2> HIDE DEF f, k
  <2>5. SumFunctionOnSet(k, Certificates) =
            SumFunctionOnSet(f, Certificates) + k[c] - f[c]
    BY <2>1, <2>3, CapitalIsFinite, SumChange
  <2>6. SumFunctionOnSet(f, Certificates) \in Nat
    BY <2>1, CapitalIsFinite, SumIsNat
  <2>7. Certified(g)' = IF g = h THEN Certified(g) + units ELSE Certified(g)
    BY <2>2, <2>4, <2>5, <2>6, CapitalIsFinite
  <2>8. QED
    BY <1>1, <2>7 DEF CertifiedIsHeld
<1>5. QED
  BY <1>4 DEF CertifiedIsHeld

LEMMA ReplaceCertificateStep ==
  ASSUME RegisterOK, RegisterOK', CertifiedIsHeld, NEW c \in Certificates,
         NEW new \in Certificates, ReplaceCertificate(c, new)
  PROVE  CertifiedIsHeld'
<1> DEFINE old == certificates[c]
<1>1. /\ certificates' = [certificates EXCEPT ![c].status = "replaced",
                                             ![new] = certificates[c]]
      /\ old.status = "active" /\ certificates[new] = NoCertificate
      /\ holding' = holding
  BY DEF ReplaceCertificate
<1>2. c # new /\ old \in Certificate /\ certificates[new].status = "none"
  BY <1>1 DEF RegisterOK, NoCertificate
<1>3. /\ certificates'[c].status = "replaced"
      /\ certificates'[new] = old
      /\ \A d \in Certificates \ {c, new} : certificates'[d] = certificates[d]
  BY <1>1, <1>2 DEF RegisterOK, Certificate
<1>4. ASSUME NEW g \in Holders PROVE Certified(g)' <= holding'[g]
  <2> DEFINE f == UnitsFor(certificates, g)
             k == UnitsFor(certificates', g)
  <2>1. /\ \A d \in Certificates : f[d] \in Nat
        /\ \A d \in Certificates : k[d] \in Nat
    BY UnitsAreNat DEF RegisterOK
  <2>2. /\ Certified(g) = SumFunctionOnSet(f, Certificates)
        /\ Certified(g)' = SumFunctionOnSet(k, Certificates)
    BY CertifiedIs
  <2>3. \A d \in Certificates \ {c, new} : k[d] = f[d]
    BY <1>3 DEF UnitsFor, ActiveFor
  <2>4. k[c] = 0 /\ f[new] = 0 /\ k[new] = f[c]
    BY <1>1, <1>2, <1>3 DEF UnitsFor, ActiveFor
  <2> HIDE DEF f, k
  <2>5. SumFunctionOnSet(k, Certificates) =
            SumFunctionOnSet(f, Certificates) + k[c] - f[c] + k[new] - f[new]
    BY <1>2, <2>1, <2>3, CapitalIsFinite, SumMoved
  <2>6. SumFunctionOnSet(f, Certificates) \in Nat
    BY <2>1, CapitalIsFinite, SumIsNat
  <2>7. SumFunctionOnSet(k, Certificates) = SumFunctionOnSet(f, Certificates)
    BY <2>1, <2>4, <2>5, <2>6
  <2>8. QED
    BY <1>1, <2>2, <2>7 DEF CertifiedIsHeld
<1>5. QED
  BY <1>4 DEF CertifiedIsHeld

LEMMA CancelCertificateStep ==
  ASSUME RegisterOK, RegisterOK', CertifiedIsHeld, NEW c \in Certificates,
         CancelCertificate(c)
  PROVE  CertifiedIsHeld'
<1>1. /\ certificates' = [certificates EXCEPT ![c].status = "cancelled"]
      /\ certificates[c].status = "active"
      /\ holding' = holding
  BY DEF CancelCertificate
<1>2. /\ certificates'[c].status = "cancelled"
      /\ \A d \in Certificates \ {c} : certificates'[d] = certificates[d]
  BY <1>1 DEF RegisterOK, Certificate, NoCertificate
<1>3. ASSUME NEW g \in Holders PROVE Certified(g)' <= holding'[g]
  <2>1. \A d \in Certificates : UnitsFor(certificates, g)[d] \in Nat
    BY UnitsAreNat DEF RegisterOK
  <2>2. \A d \in Certificates :
           \/ UnitsFor(certificates', g)[d] = 0
           \/ UnitsFor(certificates', g)[d] = UnitsFor(certificates, g)[d]
    BY <1>2 DEF UnitsFor, ActiveFor
  <2>3. \A d \in Certificates :
           UnitsFor(certificates', g)[d] <= UnitsFor(certificates, g)[d]
    BY <2>1, <2>2
  <2>4. holding[g] <= holding'[g] /\ Certified(g) <= holding[g]
    BY <1>1 DEF RegisterOK, CertifiedIsHeld
  <2>5. QED
    BY <2>3, <2>4, NoMoreCertified
<1>4. QED
  BY <1>3 DEF CertifiedIsHeld

\* Units may be added where the certificates stay.
LEMMA HeldGrows ==
  ASSUME RegisterOK, RegisterOK', CertifiedIsHeld, certificates' = certificates,
         \A h \in Holders : holding[h] <= holding'[h]
  PROVE  CertifiedIsHeld'
<1>1. ASSUME NEW g \in Holders PROVE Certified(g)' <= holding'[g]
  <2>1. \A d \in Certificates : UnitsFor(certificates, g)[d] \in Nat
    BY UnitsAreNat DEF RegisterOK
  <2>2. \A d \in Certificates :
           UnitsFor(certificates', g)[d] <= UnitsFor(certificates, g)[d]
    BY <2>1
  <2>3. QED
    BY <2>2, NoMoreCertified DEF CertifiedIsHeld
<1>2. QED
  BY <1>1 DEF CertifiedIsHeld

\* After a split there is no certificate left.
LEMMA NoneCertified ==
  ASSUME RegisterOK', NEW p, certificates' = CertificatesAfter(p), Splits(p)
  PROVE  CertifiedIsHeld'
<1>1. \A c \in Certificates : certificates'[c].status # "active"
  <2>1. ASSUME NEW c \in Certificates PROVE certificates'[c].status # "active"
    <3>1. certificates'[c] = IF certificates[c].status = "active"
                             THEN [certificates[c] EXCEPT !.status = "cancelled"]
                             ELSE certificates[c]
      BY DEF CertificatesAfter
    <3>2. certificates'[c] \in Certificate \cup {NoCertificate}
      BY DEF RegisterOK
    <3>3. QED
      BY <3>1, <3>2 DEF Certificate, NoCertificate
  <2>2. QED
    BY <2>1
<1>2. ASSUME NEW h \in Holders PROVE Certified(h)' <= holding'[h]
  <2> DEFINE k == UnitsFor(certificates', h)
  <2>1. \A c \in Certificates : k[c] = 0
    BY <1>1 DEF UnitsFor, ActiveFor
  <2>2. Certified(h)' = SumFunctionOnSet(k, Certificates)
    BY CertifiedIs
  <2> HIDE DEF k
  <2>3. SumFunctionOnSet(k, Certificates) = 0
    BY <2>1, CapitalIsFinite, SumOfZeros
  <2>4. QED
    BY <2>2, <2>3 DEF RegisterOK
<1>3. QED
  BY <1>2 DEF CertifiedIsHeld

\* What the operations on the register keep.
LEMMA RegisterStepHolds ==
  ASSUME RegisterOK, WithinAuthorized, CertifiedIsHeld, RegisterNext
  PROVE  RegisterOK' /\ WithinAuthorized' /\ CertifiedIsHeld'
<1>0. RegisterOK'
  BY RegisterTypes
<1>1. ASSUME NEW limit \in Limits, NEW w \in Weights, PatchShareClass(limit, w)
      PROVE  WithinAuthorized' /\ CertifiedIsHeld'
  <2>1. holding' = holding /\ certificates' = certificates
    BY <1>1 DEF PatchShareClass
  <2>2. limit >= Issued /\ authorized' = limit /\ Issued' = Issued
    BY <1>1, <2>1 DEF PatchShareClass, Issued
  <2>3. WithinAuthorized'
    BY <2>2, IssuedIsNat, CapitalIsFinite DEF WithinAuthorized
  <2>4. QED
    BY <1>0, <2>1, <2>3, HeldGrows DEF RegisterOK
<1>2. ASSUME NEW h \in Holders, NEW units \in IssueSizes, IssueShares(h, units)
      PROVE  WithinAuthorized' /\ CertifiedIsHeld'
  <2>1. /\ holding' = [holding EXCEPT ![h] = @ + units]
        /\ certificates' = certificates /\ authorized' = authorized
        /\ Issued + units <= authorized
        /\ units \in Nat
    BY <1>2, CapitalIsFinite DEF IssueShares, RoomFor
  <2>2. Issued' = Issued + units
    BY <2>1, IssuedGrows
  <2>3. \A g \in Holders : holding[g] <= holding'[g]
    BY <2>1 DEF RegisterOK
  <2>4. QED
    BY <1>0, <2>1, <2>2, <2>3, HeldGrows DEF WithinAuthorized
<1>3. ASSUME UNCHANGED <<authorized, holding>>, CertifiedIsHeld'
      PROVE  WithinAuthorized' /\ CertifiedIsHeld'
  BY <1>3 DEF WithinAuthorized, Issued
<1>4. ASSUME UNCHANGED <<authorized, holding, certificates>>
      PROVE  WithinAuthorized' /\ CertifiedIsHeld'
  <2>1. \A h \in Holders : holding[h] <= holding'[h]
    BY <1>4 DEF RegisterOK
  <2>2. CertifiedIsHeld'
    BY <1>0, <1>4, <2>1, HeldGrows
  <2>3. QED
    BY <1>3, <1>4, <2>2
<1>5. ASSUME NEW c \in Certificates,
             \/ \E h \in Holders, units \in IssueSizes :
                   IssueCertificate(c, h, units)
             \/ CancelCertificate(c)
             \/ \E new \in Certificates : ReplaceCertificate(c, new)
      PROVE  WithinAuthorized' /\ CertifiedIsHeld'
  <2>1. UNCHANGED <<authorized, holding>>
    BY <1>5 DEF IssueCertificate, CancelCertificate, ReplaceCertificate
  <2>2. CertifiedIsHeld'
    BY <1>0, <1>5, IssueCertificateStep, CancelCertificateStep,
       ReplaceCertificateStep
  <2>3. QED
    BY <1>3, <2>1, <2>2
<1>6. QED
  BY <1>0, <1>1, <1>2, <1>4, <1>5
     DEF RegisterNext, ArchiveStakeholder, RestoreStakeholder, OpenVote,
         FinalizeVote, Bootstrap

-----------------------------------------------------------------------------
(* The actions: what each operation makes of an action and of a right.     *)

LEMMA CreateTypes ==
  ASSUME ActionTypeOK, NEW a \in Actions, NEW p \in Plans,
         NEW r \in Resolutions \cup {None}, NEW u \in Users,
         CreateCorporateAction(a, p, r, u)
  PROVE  /\ ActionTypeOK'
         /\ actions'[a].status = "draft"
         /\ \A b \in Actions \ {a} : actions'[b] = actions[b]
         /\ \A q \in Resolutions : binding[q] # None => binding'[q] = binding[q]
<1> DEFINE row == [NoAction EXCEPT !.status = "draft", !.plan = p,
                                   !.resolution = r, !.creator = u]
<1>1. row \in Action /\ row.status = "draft"
  BY DEF NoAction, Action, ActionStatuses
<1> HIDE DEF row
<1>2. /\ actions' = [actions EXCEPT ![a] = row]
      /\ UNCHANGED <<consumed, rights>>
      /\ binding' = binding \/ (binding[r] = None /\ binding' = [binding EXCEPT ![r] = a])
  BY DEF CreateCorporateAction, row
<1>3. QED
  BY <1>1, <1>2 DEF ActionTypeOK

LEMMA ApproveTypes ==
  ASSUME RegisterOK, ActionTypeOK, NEW a \in Actions, NEW u \in Users,
         ApproveCorporateAction(a, u)
  PROVE  /\ ActionTypeOK'
         /\ actions[a] \in Action /\ actions'[a].status = "approved"
         /\ actions'[a].plan = actions[a].plan
         /\ actions'[a].resolution = actions[a].resolution
         /\ actions'[a].creator = actions[a].creator
         /\ actions'[a].approver = u
         /\ actions'[a].seen = Snapshot(EvidenceFor(a))
         /\ \A b \in Actions \ {a} : actions'[b] = actions[b]
<1> DEFINE r == actions[a]
           s == Snapshot(EvidenceFor(a))
           row == [r EXCEPT !.status = "approved", !.approver = u, !.seen = s]
<1>1. r \in Action
  BY DEF ApproveCorporateAction, ActionTypeOK, NoAction
<1>2. s \in Seen
  BY <1>1 DEF Snapshot, EvidenceFor, Seen, RegisterOK, Action
<1>3. actions' = [actions EXCEPT ![a] = row]
  BY DEF ApproveCorporateAction
<1> HIDE DEF r, s
<1>4. /\ row \in Action /\ row.status = "approved" /\ row.plan = r.plan
      /\ row.resolution = r.resolution /\ row.creator = r.creator
      /\ row.approver = u /\ row.seen = s
  BY <1>1, <1>2 DEF Action, ActionStatuses
<1> HIDE DEF row
<1>5. UNCHANGED <<binding, consumed, rights>>
  BY DEF ApproveCorporateAction
<1>6. QED
  BY <1>1, <1>3, <1>4, <1>5 DEF ActionTypeOK, r, s

LEMMA ExecuteTypes ==
  ASSUME RegisterOK, ActionTypeOK, NEW a \in Actions, NEW u \in Users,
         ExecuteCorporateAction(a, u)
  PROVE  /\ ActionTypeOK'
         /\ actions[a] \in Action /\ actions'[a].status = "completed"
         /\ actions'[a].plan = actions[a].plan
         /\ actions'[a].resolution = actions[a].resolution
         /\ actions'[a].creator = actions[a].creator
         /\ actions'[a].approver = actions[a].approver
         /\ actions'[a].executor = u
         /\ actions'[a].seen = actions[a].seen
         /\ \A b \in Actions \ {a} : /\ actions'[b] = actions[b]
                                     /\ rights'[b] = rights[b]
<1> DEFINE r == actions[a]
           row == [r EXCEPT !.status = "completed", !.executor = u]
<1>1. r \in Action
  <2>1. r.status = "approved"
    BY DEF ExecuteCorporateAction
  <2>2. QED
    BY <2>1 DEF ActionTypeOK, NoAction
<1>2. actions' = [actions EXCEPT ![a] = row]
  BY DEF ExecuteCorporateAction
<1> HIDE DEF r
<1>3. /\ row \in Action /\ row.status = "completed" /\ row.plan = r.plan
      /\ row.resolution = r.resolution /\ row.creator = r.creator
      /\ row.approver = r.approver /\ row.executor = u /\ row.seen = r.seen
  BY <1>1 DEF Action, ActionStatuses
<1> HIDE DEF row
<1>4. binding' = binding /\ consumed' \subseteq Resolutions
  BY DEF ExecuteCorporateAction, ActionTypeOK, Evidence, VotedFor
<1>5. /\ rights' \in [Actions -> [Holders -> Right]]
      /\ \A b \in Actions \ {a} : rights'[b] = rights[b]
  <2>1. CASE rights' = rights
    BY <2>1 DEF ActionTypeOK
  <2>2. CASE PlanOf(a).type = "rights_issue"
    <3> DEFINE p == PlanOf(a)
    <3>1. p \in Plans /\ Issued > 0
      BY <1>1, <2>2 DEF ExecuteCorporateAction, Possible, PlanOf, Action, r
    <3>2. PICK e \in Entitled(p) :
              rights' = [rights EXCEPT ![a] = [h \in Holders |->
                  IF holding[h] > 0
                  THEN [NoRight EXCEPT !.status = "available", !.entitled = e[h]]
                  ELSE NoRight]]
      BY <2>2 DEF ExecuteCorporateAction
    <3>3. \A h \in Holders : e[h] \in Nat
      BY <3>1, EntitledAddUp
    <3>4. ASSUME NEW n \in Nat
          PROVE  [NoRight EXCEPT !.status = "available", !.entitled = n] \in Right
      BY DEF NoRight, Right
    <3>5. NoRight \in Right
      BY DEF NoRight, Right
    <3>6. QED
      BY <3>2, <3>3, <3>4, <3>5 DEF ActionTypeOK
  <2>3. QED
    BY <2>1, <2>2 DEF ExecuteCorporateAction
<1>6. QED
  BY <1>1, <1>2, <1>3, <1>4, <1>5 DEF ActionTypeOK, r

\* A right that is exercised or waived keeps what it entitles to.
LEMMA RightTypes ==
  ASSUME ActionTypeOK, NEW a \in Actions, NEW h \in Holders,
         \/ \E units \in IssueSizes : ExercisePreemptiveRight(a, h, units)
         \/ WaivePreemptiveRight(a, h)
  PROVE  /\ ActionTypeOK' /\ actions' = actions
         /\ \A b \in Actions, g \in Holders :
               /\ rights'[b][g].entitled = rights[b][g].entitled
               /\ \/ rights'[b][g] = rights[b][g]
                  \/ rights'[b][g].status = "waived" /\
                        rights'[b][g].exercised = rights[b][g].exercised
                  \/ /\ rights'[b][g].exercised <= rights'[b][g].entitled
                     /\ rights'[b][g].status = "exercised" =>
                           rights'[b][g].exercised = rights'[b][g].entitled
<1>1. rights[a][h] \in Right
  BY DEF ActionTypeOK
<1>2. ASSUME NEW units \in IssueSizes, ExercisePreemptiveRight(a, h, units)
      PROVE  \E row \in Right :
                /\ rights' = [rights EXCEPT ![a][h] = row]
                /\ row.entitled = rights[a][h].entitled
                /\ row.exercised <= row.entitled
                /\ row.status = "exercised" => row.exercised = row.entitled
  <2> DEFINE r == rights[a][h]
             n == r.exercised + units
             s == IF n = r.entitled THEN "exercised" ELSE "partially_exercised"
             row == [r EXCEPT !.exercised = n, !.status = s]
  <2>1. rights' = [rights EXCEPT ![a][h] = row]
    BY <1>2 DEF ExercisePreemptiveRight
  <2>2. /\ n \in Nat /\ n <= r.entitled
        /\ s \in {"exercised", "partially_exercised"}
        /\ s = "exercised" => n = r.entitled
    BY <1>1, <1>2, CapitalIsFinite
       DEF ExercisePreemptiveRight, WithinRemaining, Right
  <2> HIDE DEF r, n, s
  <2>3. r \in Right
    BY <1>1 DEF r
  <2>4. row \in Right /\ row.entitled = r.entitled /\ row.exercised = n /\ row.status = s
    BY <2>2, <2>3 DEF Right
  <2>5. QED
    BY <2>1, <2>2, <2>4 DEF r
<1>3. ASSUME WaivePreemptiveRight(a, h)
      PROVE  \E row \in Right :
                /\ rights' = [rights EXCEPT ![a][h] = row]
                /\ row.entitled = rights[a][h].entitled
                /\ row.exercised = rights[a][h].exercised
                /\ row.status = "waived"
  <2> DEFINE row == [rights[a][h] EXCEPT !.status = "waived"]
  <2>1. rights' = [rights EXCEPT ![a][h] = row]
    BY <1>3 DEF WaivePreemptiveRight
  <2>2. /\ row \in Right /\ row.entitled = rights[a][h].entitled
        /\ row.exercised = rights[a][h].exercised /\ row.status = "waived"
    BY <1>1 DEF Right
  <2>3. QED
    BY <2>1, <2>2
<1>4. UNCHANGED <<actions, binding, consumed>>
  BY DEF ExercisePreemptiveRight, WaivePreemptiveRight
<1>5. QED
  BY <1>2, <1>3, <1>4 DEF ActionTypeOK

-----------------------------------------------------------------------------
(* Completed actions: what was approved under governance had a resolution  *)
(* of its own already then, and governance does not end.                   *)

VotedInv ==
    \A a \in Actions :
        LET r == actions[a].resolution
        IN  actions[a].status \in {"approved", "completed"}
                /\ actions[a].seen.evidence # None
            => /\ r \in Resolutions /\ Voted[r] = PlanOf(a) /\ binding[r] = a
               /\ actions[a].creator # actions[a].approver
               /\ actions[a].status = "completed" =>
                     r \in consumed /\ actions[a].creator # actions[a].executor

LEMMA VotedIsSound == ASSUME VotedInv PROVE CompletedWasVoted
  BY DEF VotedInv, CompletedWasVoted

\* Nothing that is bound or spent is given back.
LEMMA VotedStays ==
  ASSUME VotedInv, NEW b \in Actions, actions'[b] = actions[b],
         consumed \subseteq consumed',
         \A q \in Resolutions : binding[q] # None => binding'[q] = binding[q]
  PROVE  LET r == actions'[b].resolution
         IN  actions'[b].status \in {"approved", "completed"}
                 /\ actions'[b].seen.evidence # None
             => /\ r \in Resolutions /\ Voted[r] = actions'[b].plan
                /\ binding'[r] = b
                /\ actions'[b].creator # actions'[b].approver
                /\ actions'[b].status = "completed" =>
                      r \in consumed' /\ actions'[b].creator # actions'[b].executor
<1>1. b # None
  BY ActionsAssumption
<1>2. QED
  BY <1>1 DEF VotedInv, PlanOf

LEMMA VotedStep ==
  ASSUME RegisterOK, ActionTypeOK, VotedInv, CapitalNext
  PROVE  VotedInv'
<1>1. ASSUME NEW a \in Actions, NEW p \in Plans,
             NEW r \in Resolutions \cup {None}, NEW u \in Users,
             CreateCorporateAction(a, p, r, u)
      PROVE  VotedInv'
  <2>1. /\ actions'[a].status = "draft"
        /\ \A b \in Actions \ {a} : actions'[b] = actions[b]
        /\ \A q \in Resolutions : binding[q] # None => binding'[q] = binding[q]
    BY <1>1, CreateTypes
  <2>2. consumed' = consumed
    BY <1>1 DEF CreateCorporateAction
  <2>3. QED
    BY <2>1, <2>2, VotedStays DEF VotedInv, PlanOf
<1>2. ASSUME NEW a \in Actions, NEW u \in Users, ApproveCorporateAction(a, u)
      PROVE  VotedInv'
  <2>1. /\ actions'[a].plan = actions[a].plan
        /\ actions'[a].status = "approved"
        /\ actions'[a].resolution = actions[a].resolution
        /\ actions'[a].creator = actions[a].creator
        /\ actions'[a].approver = u
        /\ actions'[a].seen.evidence = EvidenceFor(a)
        /\ \A b \in Actions \ {a} : actions'[b] = actions[b]
    <3>1. Snapshot(EvidenceFor(a)).evidence = EvidenceFor(a)
      BY DEF Snapshot
    <3>2. QED
      BY <1>2, <3>1, ApproveTypes
  <2>2. UNCHANGED <<binding, consumed>>
    BY <1>2 DEF ApproveCorporateAction
  <2>3. EvidenceFor(a) # None =>
            /\ Evidence(actions[a].resolution, a)
            /\ actions[a].creator # u
    BY <1>2 DEF ApproveCorporateAction, EvidenceFor, FourEyes
  <2>4. QED
    BY <2>1, <2>2, <2>3, VotedStays
       DEF VotedInv, PlanOf, Evidence, VotedFor, BoundTo
<1>3. ASSUME NEW a \in Actions, NEW u \in Users, ExecuteCorporateAction(a, u)
      PROVE  VotedInv'
  <2>1. /\ actions'[a].plan = actions[a].plan
        /\ actions'[a].status = "completed"
        /\ actions'[a].resolution = actions[a].resolution
        /\ actions'[a].creator = actions[a].creator
        /\ actions'[a].approver = actions[a].approver
        /\ actions'[a].executor = u
        /\ actions'[a].seen = actions[a].seen
        /\ \A b \in Actions \ {a} : actions'[b] = actions[b]
    BY <1>3, ExecuteTypes
  <2>2. /\ actions[a].status = "approved"
        /\ actions[a].seen.evidence = EvidenceFor(a)
        /\ binding' = binding /\ consumed \subseteq consumed'
        /\ EvidenceFor(a) # None =>
              actions[a].resolution \in consumed' /\ actions[a].creator # u
    <3>1. /\ actions[a].status = "approved"
          /\ actions[a].seen = Snapshot(EvidenceFor(a))
          /\ binding' = binding
      BY <1>3 DEF ExecuteCorporateAction, StillAsApproved
    <3>2. actions[a].seen.evidence = EvidenceFor(a)
      BY <3>1 DEF Snapshot
    <3>3. /\ FourEyes(a, u)
          /\ consumed' = IF governed THEN consumed \cup {actions[a].resolution}
                         ELSE consumed
      BY <1>3 DEF ExecuteCorporateAction
    <3>4. CASE governed
      BY <3>1, <3>2, <3>3, <3>4 DEF FourEyes
    <3>5. CASE ~governed
      BY <3>1, <3>2, <3>3, <3>5 DEF EvidenceFor
    <3>6. QED
      BY <3>4, <3>5
  <2>3. QED
    BY <2>1, <2>2, VotedStays DEF VotedInv, PlanOf
<1>4. ASSUME UNCHANGED <<actions, binding, consumed>>
      PROVE  VotedInv'
  BY <1>4 DEF VotedInv, PlanOf
<1>5. CASE RegisterStep \/ EvidenceChanges \/ NextDay
  BY <1>4, <1>5 DEF RegisterStep, EvidenceChanges, NextDay
<1>6. ASSUME NEW a \in Actions, NEW h \in Holders,
             \/ \E units \in IssueSizes : ExercisePreemptiveRight(a, h, units)
             \/ WaivePreemptiveRight(a, h)
      PROVE  VotedInv'
  BY <1>4, <1>6 DEF ExercisePreemptiveRight, WaivePreemptiveRight
<1>7. QED
  BY <1>1, <1>2, <1>3, <1>5, <1>6 DEF CapitalNext

-----------------------------------------------------------------------------
(* What an executed action makes of the register.                          *)

LEMMA ExecuteStep ==
  ASSUME RegisterOK, ActionTypeOK, WithinAuthorized, CertifiedIsHeld,
         NEW a \in Actions, NEW u \in Users, ExecuteCorporateAction(a, u)
  PROVE  RegisterOK' /\ WithinAuthorized' /\ CertifiedIsHeld'
<1> DEFINE p == PlanOf(a)
<1>1. /\ p \in Plans /\ Possible(p)
      /\ authorized' = AuthorizedAfter(p)
      /\ holding' = HoldingAfter(p)
      /\ certificates' = CertificatesAfter(p)
  <2>1. actions[a] \in Action
    BY ExecuteTypes
  <2>2. QED
    BY <2>1 DEF ExecuteCorporateAction, Action, PlanOf
<1> HIDE DEF p
<1>2. p \in Plan /\ p.units \in Nat
  BY <1>1, ActionsAssumption DEF Plan
<1>3. certificates' \in [Certificates -> Certificate \cup {NoCertificate}]
  <2>1. ASSUME NEW c \in Certificates, certificates[c].status = "active"
        PROVE  [certificates[c] EXCEPT !.status = "cancelled"] \in Certificate
    <3>1. certificates[c] \in Certificate
      BY <2>1 DEF RegisterOK, NoCertificate
    <3>2. QED
      BY <3>1 DEF Certificate
  <2>2. QED
    BY <1>1, <2>1 DEF CertificatesAfter, RegisterOK
<1>4. RegisterOK'
  BY <1>1, <1>3, AfterIsOK DEF RegisterOK
<1>5. CASE Splits(p)
  <2>1. CertifiedIsHeld'
    BY <1>1, <1>4, <1>5, NoneCertified
  <2> DEFINE num == p.num
             den == p.den
  <2>2. /\ num \in Nat /\ den \in Nat /\ den > 0
        /\ authorized' * den = authorized * num
        /\ \A h \in Holders : holding'[h] * den = holding[h] * num
    BY <1>1, <1>5, SplitScales
  <2> HIDE DEF num, den
  <2> DEFINE f == holding
             g == holding'
  <2>3. \A h \in Holders :
           f[h] \in Int /\ g[h] \in Int /\ g[h] * den = f[h] * num
    BY <1>4, <2>2 DEF RegisterOK
  <2> HIDE DEF f, g
  <2>4. SumFunctionOnSet(g, Holders) * den = SumFunctionOnSet(f, Holders) * num
    BY <2>2, <2>3, CapitalIsFinite, SumScaled
  <2>5. Issued' * den = Issued * num
    BY <2>4 DEF Issued, f, g
  <2>6. Issued \in Nat /\ Issued' \in Nat
    <3>1. \A h \in Holders : holding'[h] \in Nat
      BY <1>4 DEF RegisterOK
    <3>2. QED
      BY <3>1, IssuedIsNat, CapitalIsFinite, SumIsNat DEF Issued
  <2>7. Issued' * den <= authorized' * den
    <3>1. Issued * num <= authorized * num
      BY <2>2, <2>6 DEF WithinAuthorized, RegisterOK
    <3>2. QED
      BY <2>2, <2>5, <3>1
  <2>8. Issued' <= authorized'
    <3> DEFINE x == Issued'
               y == authorized'
    <3>1. x \in Nat /\ y \in Nat /\ x * den <= y * den
      BY <1>4, <2>6, <2>7 DEF RegisterOK
    <3> HIDE DEF x, y
    <3>2. x <= y
      BY <2>2, <3>1
    <3>3. QED
      BY <3>2 DEF x, y
  <2>9. QED
    BY <1>4, <2>1, <2>8 DEF WithinAuthorized
<1>6. CASE ~Splits(p)
  <2>1. certificates' = certificates
    BY <1>1, <1>6 DEF CertificatesAfter
  <2>2. CASE p.type = "issuance"
    <3>1. /\ holding' = [holding EXCEPT ![p.holder] = @ + p.units]
          /\ authorized' = authorized
          /\ Issued + p.units <= authorized /\ p.holder \in Holders
      BY <1>1, <2>2, ActionsAssumption
         DEF HoldingAfter, AuthorizedAfter, Splits, Possible
    <3>2. Issued' = Issued + p.units
      BY <1>2, <3>1, IssuedGrows
    <3>3. \A h \in Holders : holding[h] <= holding'[h]
      BY <1>2, <3>1 DEF RegisterOK
    <3>4. QED
      BY <1>4, <2>1, <3>1, <3>2, <3>3, HeldGrows DEF WithinAuthorized
  <2>3. CASE p.type # "issuance"
    <3>1. holding' = holding /\ authorized <= authorized'
      BY <1>1, <1>2, <1>6, <2>3
         DEF HoldingAfter, AuthorizedAfter, Splits, RegisterOK
    <3>2. \A h \in Holders : holding[h] <= holding'[h]
      BY <3>1 DEF RegisterOK
    <3>3. Issued' <= authorized'
      BY <1>4, <3>1, IssuedIsNat DEF Issued, WithinAuthorized, RegisterOK
    <3>4. QED
      BY <1>4, <2>1, <3>2, <3>3, HeldGrows DEF WithinAuthorized
  <2>4. QED
    BY <2>2, <2>3
<1>7. QED
  BY <1>5, <1>6

LEMMA ExerciseStep ==
  ASSUME RegisterOK, WithinAuthorized, CertifiedIsHeld, NEW a \in Actions,
         NEW h \in Holders, NEW units \in IssueSizes,
         ExercisePreemptiveRight(a, h, units)
  PROVE  RegisterOK' /\ WithinAuthorized' /\ CertifiedIsHeld'
<1>1. /\ holding' = [holding EXCEPT ![h] = @ + units]
      /\ authorized' = authorized /\ certificates' = certificates
      /\ Issued + units <= authorized
      /\ units \in Nat
  BY CapitalIsFinite DEF ExercisePreemptiveRight, RoomFor
<1>2. RegisterOK'
  BY <1>1 DEF RegisterOK
<1>3. Issued' = Issued + units
  BY <1>1, IssuedGrows
<1>4. \A g \in Holders : holding[g] <= holding'[g]
  BY <1>1 DEF RegisterOK
<1>5. QED
  BY <1>1, <1>2, <1>3, <1>4, HeldGrows DEF WithinAuthorized

LEMMA RegisterHolds ==
  ASSUME RegisterOK, ActionTypeOK, WithinAuthorized, CertifiedIsHeld,
         [CapitalNext]_capitalVars
  PROVE  RegisterOK' /\ WithinAuthorized' /\ CertifiedIsHeld'
<1>1. ASSUME UNCHANGED registerVars
      PROVE  RegisterOK' /\ WithinAuthorized' /\ CertifiedIsHeld'
  <2>1. UNCHANGED <<authorized, holding, certificates>>
    BY <1>1 DEF registerVars
  <2>2. RegisterOK' /\ \A h \in Holders : holding[h] <= holding'[h]
    BY <2>1 DEF RegisterOK
  <2>3. WithinAuthorized'
    BY <2>1 DEF WithinAuthorized, Issued
  <2>4. QED
    BY <2>1, <2>2, <2>3, HeldGrows
<1>2. CASE UNCHANGED capitalVars
  BY <1>1, <1>2 DEF capitalVars
<1>3. CASE RegisterStep
  BY <1>3, RegisterStepHolds DEF RegisterStep
<1>4. ASSUME NEW a \in Actions, NEW u \in Users,
             \/ \E p \in Plans, r \in Resolutions \cup {None} :
                   CreateCorporateAction(a, p, r, u)
             \/ ApproveCorporateAction(a, u)
      PROVE  RegisterOK' /\ WithinAuthorized' /\ CertifiedIsHeld'
  BY <1>1, <1>4 DEF CreateCorporateAction, ApproveCorporateAction
<1>5. ASSUME NEW a \in Actions, NEW h \in Holders, WaivePreemptiveRight(a, h)
      PROVE  RegisterOK' /\ WithinAuthorized' /\ CertifiedIsHeld'
  BY <1>1, <1>5 DEF WaivePreemptiveRight
<1>6. CASE EvidenceChanges \/ NextDay
  BY <1>1, <1>6 DEF EvidenceChanges, NextDay
<1>7. QED
  BY <1>2, <1>3, <1>4, <1>5, <1>6, ExecuteStep, ExerciseStep DEF CapitalNext

-----------------------------------------------------------------------------
(* Rights: a rights issue hands out its units when it is executed.         *)

LEMMA ExecutedRights ==
  ASSUME RegisterOK, ActionTypeOK, NEW a \in Actions, NEW u \in Users,
         ExecuteCorporateAction(a, u), PlanOf(a).type = "rights_issue"
  PROVE  /\ SumFunctionOnSet([h \in Holders |-> rights'[a][h].entitled], Holders) =
                PlanOf(a).units
         /\ \A h \in Holders :
               rights'[a][h].exercised = 0 /\ rights'[a][h].status # "exercised"
<1> DEFINE p == PlanOf(a)
           entitled == [h \in Holders |-> rights'[a][h].entitled]
<1>1. p \in Plans /\ Issued > 0
  <2>1. actions[a] \in Action
    BY ExecuteTypes
  <2>2. QED
    BY <2>1 DEF ExecuteCorporateAction, Possible, PlanOf, Action
<1>2. PICK e \in Entitled(p) :
          rights' = [rights EXCEPT ![a] = [h \in Holders |->
              IF holding[h] > 0
              THEN [NoRight EXCEPT !.status = "available", !.entitled = e[h]]
              ELSE NoRight]]
  BY DEF ExecuteCorporateAction
<1>3. /\ \A h \in Holders : e[h] \in Nat
      /\ \A h \in Holders : holding[h] = 0 => e[h] = 0
      /\ SumFunctionOnSet(e, Holders) = p.units
  BY <1>1, EntitledAddUp
<1>4. ASSUME NEW h \in Holders
      PROVE  /\ rights'[a][h].entitled = e[h]
             /\ rights'[a][h].exercised = 0 /\ rights'[a][h].status # "exercised"
  <2>1. rights'[a][h] = IF holding[h] > 0
                        THEN [NoRight EXCEPT !.status = "available",
                                             !.entitled = e[h]]
                        ELSE NoRight
    BY <1>2 DEF ActionTypeOK
  <2>2. holding[h] > 0 \/ holding[h] = 0
    BY DEF RegisterOK
  <2>3. QED
    BY <1>3, <2>1, <2>2 DEF NoRight
<1>5. \A h \in Holders : entitled[h] = e[h]
  BY <1>4
<1> HIDE DEF entitled
<1>6. SumFunctionOnSet(entitled, Holders) = SumFunctionOnSet(e, Holders)
  BY <1>5, CapitalIsFinite, SumSame
<1>7. QED
  BY <1>3, <1>4, <1>6 DEF entitled

\* An issue whose rights entitle to what they did keeps adding up.
LEMMA RightsStay ==
  ASSUME RightsAddUp, NEW b \in Actions,
         actions[b].status = "completed", actions[b].plan.type = "rights_issue",
         \A g \in Holders :
            /\ rights'[b][g].entitled = rights[b][g].entitled
            /\ \/ rights'[b][g] = rights[b][g]
               \/ rights'[b][g].status = "waived" /\
                     rights'[b][g].exercised = rights[b][g].exercised
               \/ /\ rights'[b][g].exercised <= rights'[b][g].entitled
                  /\ rights'[b][g].status = "exercised" =>
                        rights'[b][g].exercised = rights'[b][g].entitled
  PROVE  /\ SumFunctionOnSet([h \in Holders |-> rights'[b][h].entitled], Holders) =
                actions[b].plan.units
         /\ \A h \in Holders :
               /\ rights'[b][h].exercised <= rights'[b][h].entitled
               /\ rights'[b][h].status = "exercised" =>
                     rights'[b][h].exercised = rights'[b][h].entitled
<1>1. [h \in Holders |-> rights'[b][h].entitled] =
          [h \in Holders |-> rights[b][h].entitled]
  OBVIOUS
<1>2. /\ SumFunctionOnSet([h \in Holders |-> rights[b][h].entitled], Holders) =
             actions[b].plan.units
      /\ \A h \in Holders :
            /\ rights[b][h].exercised <= rights[b][h].entitled
            /\ rights[b][h].status = "exercised" =>
                  rights[b][h].exercised = rights[b][h].entitled
  BY DEF RightsAddUp, PlanOf
<1>3. QED
  BY <1>1, <1>2

LEMMA RightsStep ==
  ASSUME RegisterOK, ActionTypeOK, RightsAddUp, [CapitalNext]_capitalVars
  PROVE  RightsAddUp'
<1> DEFINE AddUp(b) ==
        /\ SumFunctionOnSet([h \in Holders |-> rights'[b][h].entitled], Holders) =
               actions'[b].plan.units
        /\ \A h \in Holders :
              /\ rights'[b][h].exercised <= rights'[b][h].entitled
              /\ rights'[b][h].status = "exercised" =>
                    rights'[b][h].exercised = rights'[b][h].entitled
<1>0. SUFFICES ASSUME NEW b \in Actions, actions'[b].status = "completed",
                      actions'[b].plan.type = "rights_issue"
               PROVE  AddUp(b)
  BY DEF RightsAddUp, PlanOf
<1>1. ASSUME actions'[b] = actions[b], rights'[b] = rights[b]
      PROVE  AddUp(b)
  BY <1>0, <1>1, RightsStay
<1>2. ASSUME NEW a \in Actions, NEW u \in Users, NEW p \in Plans,
             NEW r \in Resolutions \cup {None}, CreateCorporateAction(a, p, r, u)
      PROVE  AddUp(b)
  <2>1. /\ actions'[a].status = "draft"
        /\ \A c \in Actions \ {a} : actions'[c] = actions[c]
        /\ rights' = rights
    BY <1>2, CreateTypes DEF CreateCorporateAction
  <2>2. QED
    BY <1>0, <1>1, <2>1
<1>3. ASSUME NEW a \in Actions, NEW u \in Users, ApproveCorporateAction(a, u)
      PROVE  AddUp(b)
  <2>1. /\ actions'[a].status = "approved"
        /\ \A c \in Actions \ {a} : actions'[c] = actions[c]
        /\ rights' = rights
    BY <1>3, ApproveTypes DEF ApproveCorporateAction
  <2>2. QED
    BY <1>0, <1>1, <2>1
<1>4. ASSUME NEW a \in Actions, NEW u \in Users, ExecuteCorporateAction(a, u)
      PROVE  AddUp(b)
  <2>1. /\ actions'[a].plan = PlanOf(a)
        /\ \A c \in Actions \ {a} :
              actions'[c] = actions[c] /\ rights'[c] = rights[c]
        /\ ActionTypeOK'
    BY <1>4, ExecuteTypes DEF PlanOf
  <2>2. CASE b = a
    <3>1. /\ SumFunctionOnSet([h \in Holders |-> rights'[a][h].entitled],
                              Holders) = PlanOf(a).units
          /\ \A h \in Holders :
                rights'[a][h].exercised = 0 /\ rights'[a][h].status # "exercised"
      BY <1>0, <1>4, <2>1, <2>2, ExecutedRights
    <3>2. \A h \in Holders : rights'[a][h].entitled \in Nat
      BY <2>1 DEF ActionTypeOK, Right
    <3>3. QED
      BY <2>1, <2>2, <3>1, <3>2
  <2>3. CASE b # a
    BY <1>1, <2>1, <2>3
  <2>4. QED
    BY <2>2, <2>3
<1>5. ASSUME NEW a \in Actions, NEW h \in Holders,
             \/ \E units \in IssueSizes : ExercisePreemptiveRight(a, h, units)
             \/ WaivePreemptiveRight(a, h)
      PROVE  AddUp(b)
  BY <1>0, <1>5, RightTypes, RightsStay
<1>6. CASE RegisterStep \/ EvidenceChanges \/ NextDay \/ UNCHANGED capitalVars
  BY <1>1, <1>6
     DEF RegisterStep, EvidenceChanges, NextDay, capitalVars, actionVars
<1>7. QED
  BY <1>2, <1>3, <1>4, <1>5, <1>6 DEF CapitalNext

-----------------------------------------------------------------------------
CapitalInv == RegisterOK /\ ActionTypeOK /\ RegisterAddsUp /\ VotedInv

LEMMA CapitalStart == ASSUME CapitalInit PROVE CapitalInv
<1>1. RegisterOK
  BY CapitalIsFinite DEF CapitalInit, RegisterInit, RegisterOK
<1>2. /\ \A h \in Holders : holding[h] = 0
      /\ \A c \in Certificates : certificates[c] = NoCertificate
      /\ \A a \in Actions : actions[a] = NoAction
  BY DEF CapitalInit, RegisterInit, ActionInit
<1>3. WithinAuthorized
  <2>1. Issued = 0
    BY <1>2, CapitalIsFinite, SumOfZeros DEF Issued
  <2>2. QED
    BY <1>1, <2>1 DEF WithinAuthorized, RegisterOK
<1>4. CertifiedIsHeld
  <2>1. ASSUME NEW h \in Holders PROVE Certified(h) <= holding[h]
    <3>1. CertificatesOf(h) = {}
      BY <1>2 DEF CertificatesOf, NoCertificate
    <3>2. QED
      BY <1>2, <3>1, SumOfNone DEF Certified
  <2>2. QED
    BY <2>1 DEF CertifiedIsHeld
<1>5. ActionTypeOK
  BY DEF CapitalInit, ActionInit, ActionTypeOK, NoRight, Right
<1>6. RightsAddUp /\ VotedInv
  BY <1>2 DEF RightsAddUp, VotedInv, NoAction
<1>7. QED
  BY <1>1, <1>3, <1>4, <1>5, <1>6 DEF CapitalInv, RegisterAddsUp

LEMMA CapitalStep ==
  ASSUME CapitalInv, [CapitalNext]_capitalVars
  PROVE  CapitalInv'
<1> USE DEF CapitalInv, RegisterAddsUp
<1>1. RegisterOK' /\ WithinAuthorized' /\ CertifiedIsHeld' /\ RightsAddUp'
  BY RegisterHolds, RightsStep
<1>2. VotedInv'
  <2>1. CASE UNCHANGED capitalVars
    BY <2>1 DEF capitalVars, actionVars, VotedInv, PlanOf
  <2>2. QED
    BY <2>1, VotedStep
<1>3. ActionTypeOK'
  <2>1. ASSUME UNCHANGED <<actions, binding, consumed, rights>>
        PROVE  ActionTypeOK'
    BY <2>1 DEF ActionTypeOK
  <2>2. CASE RegisterStep \/ EvidenceChanges \/ NextDay \/ UNCHANGED capitalVars
    BY <2>1, <2>2
       DEF RegisterStep, EvidenceChanges, NextDay, capitalVars, actionVars
  <2>3. QED
    BY <2>2, CreateTypes, ApproveTypes, ExecuteTypes, RightTypes DEF CapitalNext
<1>4. QED
  BY <1>1, <1>2, <1>3

LEMMA CapitalSafe == CapitalSpec => []CapitalInv
  BY CapitalStart, CapitalStep, PTL DEF CapitalSpec

\* Through issues, splits, rights and certificates of any number, what is
\* issued stays within what is authorized, what is certified is held, and the
\* rights of an issue are exactly its units.
THEOREM RegisterIsSound == CapitalSpec => []RegisterAddsUp
<1>1. CapitalInv => RegisterAddsUp
  BY DEF CapitalInv
<1>2. QED
  BY <1>1, CapitalSafe, PTL

\* Every action executed on the evidence of a resolution had one that was voted
\* for its very plan and bound to it alone, and a second person.
THEOREM CompletedIsVoted == CapitalSpec => []CompletedWasVoted
<1>1. CapitalInv => CompletedWasVoted
  BY VotedIsSound DEF CapitalInv
<1>2. QED
  BY <1>1, CapitalSafe, PTL

\* An execution finds the register its approver saw, and a split multiplies
\* all of it by the same ratio.
LEMMA ExecutionIsExact ==
  ASSUME RegisterOK, RegisterOK', ActionTypeOK, NEW a \in Actions, NEW u \in Users,
         ExecuteCorporateAction(a, u)
  PROVE  /\ actions[a].seen.holding = holding
         /\ actions[a].seen.authorized = authorized
         /\ Splits(PlanOf(a)) => \A g \in Holders :
               holding'[g] * authorized = holding[g] * authorized'
<1>1. /\ actions[a].seen.holding = holding
      /\ actions[a].seen.authorized = authorized
  <2>1. actions[a].seen = Snapshot(EvidenceFor(a))
    BY DEF ExecuteCorporateAction, StillAsApproved
  <2>2. QED
    BY <2>1 DEF Snapshot
<1>2. ASSUME Splits(PlanOf(a)), NEW g \in Holders
      PROVE  holding'[g] * authorized = holding[g] * authorized'
  <2> DEFINE p == PlanOf(a)
  <2>1. /\ p \in Plans /\ Possible(p)
        /\ authorized' = AuthorizedAfter(p)
        /\ holding' = HoldingAfter(p)
    <3>1. actions[a] \in Action
      BY ExecuteTypes
    <3>2. QED
      BY <3>1 DEF ExecuteCorporateAction, Action, PlanOf
  <2> DEFINE num == p.num
             den == p.den
             old == authorized
             new == authorized'
             had == holding[g]
             has == holding'[g]
  <2>2. /\ num \in Nat /\ den \in Nat /\ den > 0
        /\ new * den = old * num
        /\ has * den = had * num
    BY <1>2, <2>1, SplitScales
  <2>3. old \in Nat /\ new \in Nat /\ had \in Nat /\ has \in Nat
    BY DEF RegisterOK
  <2> HIDE DEF num, den, old, new, had, has
  <2>4. (has * old) * den = (had * new) * den
    <3>1. (has * old) * den = (has * den) * old
      BY <2>2, <2>3
    <3>2. (had * new) * den = had * (new * den)
      BY <2>2, <2>3
    <3>3. (had * num) * old = had * (old * num)
      BY <2>2, <2>3
    <3>4. QED
      BY <2>2, <3>1, <3>2, <3>3
  <2>5. has * old = had * new
    <3> DEFINE x == has * old
               y == had * new
    <3>1. x \in Nat /\ y \in Nat /\ x * den = y * den
      BY <2>3, <2>4
    <3> HIDE DEF x, y
    <3>2. x = y
      BY <2>2, <3>1
    <3>3. QED
      BY <3>2 DEF x, y
  <2>6. QED
    BY <2>5 DEF old, new, had, has
<1>3. QED
  BY <1>1, <1>2

\* Only an execution completes an action.
LEMMA OnlyExecutionCompletes ==
  ASSUME RegisterOK, ActionTypeOK, [CapitalNext]_capitalVars, NEW a \in Actions,
         actions[a].status = "approved", actions'[a].status = "completed"
  PROVE  \E u \in Users : ExecuteCorporateAction(a, u)
<1>1. actions'[a] # actions[a]
  OBVIOUS
<1>2. ASSUME NEW b \in Actions, NEW u \in Users, NEW p \in Plans,
             NEW r \in Resolutions \cup {None}, CreateCorporateAction(b, p, r, u)
      PROVE  FALSE
  BY <1>1, <1>2, CreateTypes
<1>3. ASSUME NEW b \in Actions, NEW u \in Users, ApproveCorporateAction(b, u)
      PROVE  FALSE
  BY <1>1, <1>3, ApproveTypes
<1>4. ASSUME NEW b \in Actions, NEW u \in Users, ExecuteCorporateAction(b, u)
      PROVE  \E w \in Users : ExecuteCorporateAction(a, w)
  BY <1>1, <1>4, ExecuteTypes
<1>5. ~ UNCHANGED actions
  BY <1>1
<1>6. CASE RegisterStep \/ EvidenceChanges \/ NextDay \/ UNCHANGED capitalVars
  BY <1>5, <1>6
     DEF RegisterStep, EvidenceChanges, NextDay, capitalVars, actionVars
<1>7. ASSUME NEW b \in Actions, NEW h \in Holders,
             \/ \E units \in IssueSizes : ExercisePreemptiveRight(b, h, units)
             \/ WaivePreemptiveRight(b, h)
      PROVE  FALSE
  BY <1>5, <1>7 DEF ExercisePreemptiveRight, WaivePreemptiveRight
<1>8. QED
  BY <1>2, <1>3, <1>4, <1>6, <1>7 DEF CapitalNext

\* An action that is executed turns the register its approver saw, and no
\* other, into what was approved, and a split leaves every part what it was.
THEOREM ExecutionIsAsApproved == CapitalSpec => ExecutedAsApproved
<1> DEFINE A == \A a \in Actions :
          actions[a].status = "approved" /\ actions'[a].status = "completed"
          => /\ actions[a].seen.holding = holding
             /\ actions[a].seen.authorized = authorized
             /\ Splits(PlanOf(a)) =>
                   \A g \in Holders :
                      holding'[g] * authorized = holding[g] * authorized'
<1>1. CapitalInv /\ CapitalInv' /\ [CapitalNext]_capitalVars => A
  BY ExecutionIsExact, OnlyExecutionCompletes DEF CapitalInv
<1>2. CapitalInv /\ CapitalInv' /\ [CapitalNext]_capitalVars => [A]_capitalVars
  BY <1>1
<1> HIDE DEF A
<1>3. CapitalSpec => [][A]_capitalVars
  BY <1>2, CapitalSafe, PTL DEF CapitalSpec
<1>4. QED
  BY <1>3 DEF ExecutedAsApproved, A

-----------------------------------------------------------------------------
(* Meetings: what a voter holds.  The ledger is written on the day that is  *)
(* now, so that what was held on earlier days stays.                        *)

GovernanceTypeOK ==
    /\ date \in Dates
    /\ ledger \in [Dates -> [Voters -> Int]]
    /\ voteWeight \in Nat
    /\ recordDate \in Dates
    /\ present \subseteq Voters
    /\ motions \in [Motions -> {"draft", "open"} \cup Outcomes]
    /\ ballots \in [Motions -> [Voters -> Ballot \cup {NoBallot}]]
    /\ proxies \in [Proxies -> Proxy \cup {NoProxy}]

LedgerInv ==
    /\ \A d \in Dates : d > date => \A h \in Voters : ledger[d][h] = 0
    /\ \A day \in Dates, h \in Voters : HoldingAt(day, h) \in Nat

LEMMA MeetingIsFinite ==
  /\ IsFiniteSet(Voters) /\ IsFiniteSet(Proxies)
  /\ \A w \in VoteWeights : w \in Nat
  /\ Horizon \in Nat /\ Horizon > 0 /\ MaxUnits \in Nat
  /\ Nobody \notin Voters /\ Nobody \notin Proxies /\ Nobody \notin Motions
  BY GovernanceAssumption

\* The entries of h, day by day.
Entries(l, h) == [d \in Dates |-> l[d][h]]

LEMMA HoldingIs ==
  ASSUME NEW day, NEW h
  PROVE  /\ HoldingAt(day, h) = SumFunctionOnSet(Entries(ledger, h), 1 .. day)
         /\ HoldingAt(day, h)' = SumFunctionOnSet(Entries(ledger', h), 1 .. day)
  BY Zenon DEF HoldingAt, Entries

LEMMA EntriesAreInt ==
  ASSUME NEW l \in [Dates -> [Voters -> Int]], NEW h \in Voters, NEW day \in Dates
  PROVE  /\ 1 .. day \in SUBSET Dates /\ IsFiniteSet(1 .. day)
         /\ \A d \in 1 .. day : Entries(l, h)[d] \in Int
<1>1. day \in Nat /\ 1 .. day \in SUBSET Dates
  BY MeetingIsFinite DEF Dates
<1>2. IsFiniteSet(1 .. day)
  BY <1>1, FS_Interval
<1>3. \A d \in Dates : Entries(l, h)[d] \in Int
  BY DEF Entries
<1>4. QED
  BY <1>1, <1>2, <1>3

\* Nothing is written ahead: from today on the holding is what it will be.
LEMMA HoldingFromToday ==
  ASSUME GovernanceTypeOK, LedgerInv, NEW h \in Voters, NEW day \in Dates,
         day >= date
  PROVE  HoldingAt(day, h) = HoldingAt(Horizon, h)
<1> DEFINE f == Entries(ledger, h)
           early == 1 .. day
           all == 1 .. Horizon
<1>1. Horizon \in Dates /\ date \in Nat /\ day \in Nat /\ day <= Horizon
  BY MeetingIsFinite DEF Dates, GovernanceTypeOK
<1>2. /\ IsFiniteSet(all) /\ \A d \in all : f[d] \in Int
      /\ early \in SUBSET all
  <2>1. ledger \in [Dates -> [Voters -> Int]]
    BY DEF GovernanceTypeOK
  <2>2. IsFiniteSet(all) /\ \A d \in all : f[d] \in Int
    BY <1>1, <2>1, EntriesAreInt
  <2>3. early \in SUBSET all
    BY <1>1
  <2>4. QED
    BY <2>2, <2>3
<1>3. \A d \in all \ early : f[d] = 0
  <2>1. ASSUME NEW d \in all \ early PROVE f[d] = 0
    <3>1. d \in Dates /\ d > date
      BY <1>1, <2>1 DEF Dates
    <3>2. QED
      BY <3>1 DEF LedgerInv, Entries
  <2>2. QED
    BY <2>1
<1> HIDE DEF f, early, all
<1>4. SumFunctionOnSet(f, all) = SumFunctionOnSet(f, early)
  BY <1>2, <1>3, SumWithin
<1>5. QED
  BY <1>4, HoldingIs DEF f, early, all

\* A unit gained or lost today.
LEMMA LedgerEntryStep ==
  ASSUME GovernanceTypeOK, LedgerInv, NEW h \in Voters, NEW n \in {-1, 1},
         HoldingAt(Horizon, h) + n \in 0 .. MaxUnits,
         ledger' = [ledger EXCEPT ![date][h] = @ + n], date' = date
  PROVE  ledger' \in [Dates -> [Voters -> Int]] /\ LedgerInv'
<1>0. n \in Int /\ date \in Dates /\ Horizon \in Dates
  BY MeetingIsFinite DEF GovernanceTypeOK, Dates
<1>1. /\ ledger' \in [Dates -> [Voters -> Int]]
      /\ ledger'[date][h] = ledger[date][h] + n
      /\ \A d \in Dates, g \in Voters :
            d # date \/ g # h => ledger'[d][g] = ledger[d][g]
  BY <1>0 DEF GovernanceTypeOK
<1>2. \A d \in Dates : d > date' => \A g \in Voters : ledger'[d][g] = 0
  <2>1. \A d \in Dates : d > date => d # date
    BY <1>0 DEF Dates
  <2>2. QED
    BY <1>1, <2>1 DEF LedgerInv
<1>3. ASSUME NEW day \in Dates, NEW g \in Voters
      PROVE  HoldingAt(day, g)' \in Nat
  <2> DEFINE f == Entries(ledger, g)
             k == Entries(ledger', g)
             days == 1 .. day
  <2>1. /\ IsFiniteSet(days) /\ days \in SUBSET Dates
        /\ \A d \in days : f[d] \in Int
        /\ \A d \in days : k[d] \in Int
    BY <1>1, EntriesAreInt DEF GovernanceTypeOK
  <2>2. /\ HoldingAt(day, g) = SumFunctionOnSet(f, days)
        /\ HoldingAt(day, g)' = SumFunctionOnSet(k, days)
    BY HoldingIs
  <2>3. \A d \in days : d # date \/ g # h => k[d] = f[d]
    BY <1>1, <2>1 DEF Entries
  <2>4. g = h => k[date] = f[date] + n
    BY <1>0, <1>1 DEF Entries
  <2>5. date \in days => day >= date
    BY <1>0 DEF Dates
  <2> HIDE DEF f, k, days
  <2>6. CASE g # h \/ date \notin days
    <3>1. \A d \in days : f[d] = k[d]
      BY <2>3, <2>6
    <3>2. SumFunctionOnSet(f, days) = SumFunctionOnSet(k, days)
      BY <2>1, <3>1, SumSame
    <3>3. QED
      BY <2>2, <3>2 DEF LedgerInv
  <2>7. CASE g = h /\ date \in days
    <3>1. SumFunctionOnSet(k, days) = SumFunctionOnSet(f, days) + k[date] - f[date]
      BY <2>1, <2>3, <2>7, SumChange
    <3>2. SumFunctionOnSet(f, days) \in Int /\ f[date] \in Int
      BY <2>1, <2>7, SumIsInt
    <3>3. HoldingAt(day, g)' = HoldingAt(day, g) + n
      BY <1>0, <2>2, <2>4, <2>7, <3>1, <3>2
    <3>4. HoldingAt(day, g) = HoldingAt(Horizon, h)
      BY <2>5, <2>7, HoldingFromToday
    <3>5. QED
      BY <3>3, <3>4, MeetingIsFinite
  <2>8. QED
    BY <2>6, <2>7
<1>4. QED
  BY <1>1, <1>2, <1>3 DEF LedgerInv

LEMMA PowerIsNat ==
  ASSUME GovernanceTypeOK, LedgerInv, NEW day \in Dates, NEW h \in Voters
  PROVE  PowerAt(day)[h] \in Nat
<1>1. HoldingAt(day, h) \in Nat /\ voteWeight \in Nat
  BY DEF LedgerInv, GovernanceTypeOK
<1>2. HoldingAt(day, h) * voteWeight \in Nat
  BY <1>1
<1>3. QED
  BY <1>2 DEF PowerAt

\* The power of a voter depends on ownership only.
LEMMA PowerStays ==
  ASSUME UNCHANGED ownershipVars, NEW h
  PROVE  PowerNow(h)' = PowerNow(h)
<1>1. UNCHANGED <<ledger, voteWeight, active, board>>
  BY DEF ownershipVars
<1>2. QED
  BY <1>1, Zenon DEF PowerNow, PowerAt, HoldingAt

LEMMA LedgerStays ==
  ASSUME LedgerInv, ledger' = ledger, date' = date \/ date' = date + 1,
         GovernanceTypeOK
  PROVE  LedgerInv'
<1>1. \A day \in Dates, h \in Voters : HoldingAt(day, h)' = HoldingAt(day, h)
  BY Zenon DEF HoldingAt
<1>2. \A d \in Dates : d > date' => d > date
  BY DEF Dates, GovernanceTypeOK
<1>3. QED
  BY <1>1, <1>2 DEF LedgerInv

-----------------------------------------------------------------------------
(* Ballots: what a ballot weighs and by what right it was cast.            *)

BallotInv ==
    \A r \in Motions, h \in Voters :
        /\ motions[r] = "draft" => ballots[r][h] = NoBallot
        /\ motions[r] = "open" /\ ballots[r][h] # NoBallot =>
              ballots[r][h].power = PowerNow(h)

GovernanceInv == GovernanceTypeOK /\ LedgerInv /\ BallotInv /\ CastByRight

\* What leaves ballots, resolutions and proxies alone leaves their rights.
LEMMA BallotsStay ==
  ASSUME BallotInv, CastByRight, UNCHANGED <<motions, ballots, proxies>>,
         MotionOpen => UNCHANGED ownershipVars
  PROVE  BallotInv' /\ CastByRight'
<1>1. CastByRight'
  BY DEF CastByRight
<1>2. ASSUME NEW r \in Motions, NEW h \in Voters, motions[r] = "open"
      PROVE  PowerNow(h)' = PowerNow(h)
  BY <1>2, PowerStays DEF MotionOpen
<1>3. QED
  BY <1>1, <1>2 DEF BallotInv

LEMMA OwnershipStep ==
  ASSUME GovernanceInv, OwnershipChanges
  PROVE  GovernanceInv'
<1> USE DEF GovernanceInv
<1>1. /\ UNCHANGED <<date, recordDate, present, motions, ballots, proxies>>
      /\ ~ MotionOpen
  BY DEF OwnershipChanges, meetingVars, LockFree
<1>2. BallotInv' /\ CastByRight'
  BY <1>1, BallotsStay
<1>3. ledger' \in [Dates -> [Voters -> Int]] /\ LedgerInv'
  <2>1. CASE ledger' = ledger
    BY <1>1, <2>1, LedgerStays DEF GovernanceTypeOK
  <2>2. CASE \E h \in Voters, n \in {-1, 1} :
               /\ HoldingAt(Horizon, h) + n \in 0 .. MaxUnits
               /\ ledger' = [ledger EXCEPT ![date][h] = @ + n]
    BY <1>1, <2>2, LedgerEntryStep
  <2>3. QED
    BY <2>1, <2>2 DEF OwnershipChanges
<1>4. voteWeight' \in Nat
  BY MeetingIsFinite DEF OwnershipChanges, GovernanceTypeOK
<1>5. QED
  BY <1>1, <1>2, <1>3, <1>4 DEF GovernanceTypeOK

LEMMA MeetingStep ==
  ASSUME GovernanceInv,
         \/ OwnerAppointed \/ DatePasses
         \/ \E day \in Dates : PatchMeeting(day)
         \/ \E h \in Voters : SetAttendance(h)
         \/ UNCHANGED governanceVars
  PROVE  GovernanceInv'
<1> USE DEF GovernanceInv
<1>1. /\ UNCHANGED <<ownershipVars, motions, ballots, proxies>>
      /\ recordDate' \in Dates /\ present' \subseteq Voters
      /\ date' \in Dates /\ (date' = date \/ date' = date + 1)
  <2>1. CASE OwnerAppointed \/ UNCHANGED governanceVars
    BY <2>1 DEF OwnerAppointed, governanceVars, meetingVars, GovernanceTypeOK
  <2>2. CASE DatePasses
    BY <2>2, MeetingIsFinite DEF DatePasses, meetingVars, GovernanceTypeOK, Dates
  <2>3. CASE \E day \in Dates : PatchMeeting(day)
    BY <2>3 DEF PatchMeeting, GovernanceTypeOK
  <2>4. CASE \E h \in Voters : SetAttendance(h)
    BY <2>4 DEF SetAttendance, GovernanceTypeOK
  <2>5. QED
    BY <2>1, <2>2, <2>3, <2>4
<1>2. UNCHANGED <<ledger, voteWeight>>
  BY <1>1 DEF ownershipVars
<1>3. BallotInv' /\ CastByRight' /\ LedgerInv'
  BY <1>1, <1>2, BallotsStay, LedgerStays
<1>4. QED
  BY <1>1, <1>2, <1>3 DEF GovernanceTypeOK

LEMMA ResolutionStep ==
  ASSUME GovernanceInv, NEW r \in Motions,
         OpenResolution(r) \/ FinalizeOutcome(r)
  PROVE  GovernanceInv'
<1> USE DEF GovernanceInv
<1>1. UNCHANGED <<date, ownershipVars, recordDate, present, ballots, proxies>>
  BY DEF OpenResolution, FinalizeOutcome
<1>2. UNCHANGED <<ledger, voteWeight>>
  BY <1>1 DEF ownershipVars
<1>3. \/ /\ motions[r] = "draft" /\ motions' = [motions EXCEPT ![r] = "open"]
      \/ /\ motions[r] # "draft"
         /\ \E o \in Outcomes : motions' = [motions EXCEPT ![r] = o]
  <2>1. \A n : OutcomeOf(r, n) \in Outcomes
    BY DEF OutcomeOf, Outcomes
  <2>2. QED
    BY <2>1 DEF OpenResolution, FinalizeOutcome
<1>4. \A h \in Voters : PowerNow(h)' = PowerNow(h)
  BY <1>1, PowerStays
<1>5. BallotInv' /\ motions' \in [Motions -> {"draft", "open"} \cup Outcomes]
  BY <1>1, <1>3, <1>4 DEF BallotInv, GovernanceTypeOK, Outcomes
<1>6. LedgerInv' /\ CastByRight'
  BY <1>1, <1>2, LedgerStays DEF CastByRight
<1>7. QED
  BY <1>1, <1>2, <1>5, <1>6 DEF GovernanceTypeOK

\* A proxy is written once; revoked, it is still on record.
LEMMA ProxyStep ==
  ASSUME GovernanceInv, NEW p \in Proxies,
         \/ \E g, h \in Voters, scope \in Motions \cup {Nobody},
               expires \in {0} \cup Dates : CreateProxy(p, g, h, scope, expires)
         \/ RevokeProxy(p)
  PROVE  GovernanceInv'
<1> USE DEF GovernanceInv
<1>1. UNCHANGED <<date, ownershipVars, recordDate, present, motions, ballots>>
  BY DEF CreateProxy, RevokeProxy
<1>2. UNCHANGED <<ledger, voteWeight>>
  BY <1>1 DEF ownershipVars
<1>3. \E row \in Proxy :
         /\ proxies' = [proxies EXCEPT ![p] = row]
         /\ proxies[p].grantor # Nobody =>
               /\ row.grantor = proxies[p].grantor
               /\ row.holder = proxies[p].holder
               /\ row.scope = proxies[p].scope
  <2>1. ASSUME NEW g \in Voters, NEW h \in Voters,
               NEW scope \in Motions \cup {Nobody},
               NEW expires \in {0} \cup Dates, CreateProxy(p, g, h, scope, expires)
        PROVE  \E row \in Proxy :
                  /\ proxies' = [proxies EXCEPT ![p] = row]
                  /\ proxies[p].grantor = Nobody
    <3> DEFINE power == PowerAt(recordDate)[g]
               row == [status |-> "active", grantor |-> g, holder |-> h,
                       scope |-> scope, power |-> power, expires |-> expires]
    <3>1. power \in Nat
      BY PowerIsNat DEF GovernanceTypeOK
    <3>2. expires \in Nat
      BY DEF Dates
    <3>3. proxies' = [proxies EXCEPT ![p] = row] /\ proxies[p] = NoProxy
      BY <2>1 DEF CreateProxy
    <3> HIDE DEF power
    <3>4. row \in Proxy
      BY <3>1, <3>2 DEF Proxy
    <3>5. proxies[p].grantor = Nobody
      BY <3>3 DEF NoProxy
    <3> HIDE DEF row
    <3>6. QED
      BY <3>3, <3>4, <3>5
  <2>2. ASSUME RevokeProxy(p)
        PROVE  \E row \in Proxy :
                  /\ proxies' = [proxies EXCEPT ![p] = row]
                  /\ row.grantor = proxies[p].grantor
                  /\ row.holder = proxies[p].holder
                  /\ row.scope = proxies[p].scope
    <3> DEFINE row == [proxies[p] EXCEPT !.status = "revoked"]
    <3>1. proxies[p] \in Proxy
      BY <2>2 DEF RevokeProxy, GovernanceTypeOK, NoProxy
    <3>2. /\ row \in Proxy /\ row.grantor = proxies[p].grantor
          /\ row.holder = proxies[p].holder /\ row.scope = proxies[p].scope
      BY <3>1 DEF Proxy
    <3>3. proxies' = [proxies EXCEPT ![p] = row]
      BY <2>2 DEF RevokeProxy
    <3>4. QED
      BY <3>2, <3>3
  <2>3. QED
    BY <2>1, <2>2
<1>4. /\ proxies' \in [Proxies -> Proxy \cup {NoProxy}]
      /\ \A q \in Proxies : proxies[q].grantor # Nobody =>
            /\ proxies'[q].grantor = proxies[q].grantor
            /\ proxies'[q].holder = proxies[q].holder
            /\ proxies'[q].scope = proxies[q].scope
  BY <1>3 DEF GovernanceTypeOK
<1>5. CastByRight'
  BY <1>1, <1>4, MeetingIsFinite DEF CastByRight
<1>6. LedgerInv' /\ BallotInv'
  <2>1. \A h \in Voters : PowerNow(h)' = PowerNow(h)
    BY <1>1, PowerStays
  <2>2. QED
    BY <1>1, <1>2, <2>1, LedgerStays DEF BallotInv
<1>7. QED
  BY <1>1, <1>2, <1>4, <1>5, <1>6 DEF GovernanceTypeOK

LEMMA VoteStep ==
  ASSUME GovernanceInv, NEW r \in Motions, NEW h \in Voters,
         NEW by \in Voters \cup {Nobody}, NEW p \in Proxies \cup {Nobody},
         NEW choice \in Choices, Vote(r, h, by, p, choice)
  PROVE  GovernanceInv'
<1> USE DEF GovernanceInv
<1> DEFINE old == ballots[r][h]
           power == IF p = Nobody /\ old # NoBallot THEN old.power ELSE PowerNow(h)
           row == [choice |-> choice, power |-> power, by |-> by, proxy |-> p]
<1>1. /\ UNCHANGED <<date, ownershipVars, recordDate, present, motions, proxies>>
      /\ ballots' = [ballots EXCEPT ![r][h] = row]
      /\ motions[r] = "open"
  BY DEF Vote, TakesBallots
<1>2. UNCHANGED <<ledger, voteWeight>>
  BY <1>1 DEF ownershipVars
<1>3. power = PowerNow(h) /\ power \in Nat
  <2>1. Horizon \in Dates
    BY MeetingIsFinite DEF Dates
  <2>2. PowerNow(h) \in Nat
    BY <2>1, PowerIsNat DEF PowerNow
  <2>3. QED
    BY <1>1, <2>2 DEF BallotInv
<1> HIDE DEF power
<1>4. row \in Ballot /\ row.power = power /\ row.by = by /\ row.proxy = p
  BY <1>3 DEF Ballot
<1>5. by \notin {Nobody, h} =>
         /\ p \in Proxies
         /\ proxies[p].grantor = h /\ proxies[p].holder = by
         /\ proxies[p].scope \in {Nobody, r}
  BY DEF Vote, MayVote, HoldsProxy, HoldsAnyProxy
<1> HIDE DEF row
<1>6. /\ ballots' \in [Motions -> [Voters -> Ballot \cup {NoBallot}]]
      /\ ballots'[r][h] = row
      /\ \A q \in Motions, g \in Voters :
            q # r \/ g # h => ballots'[q][g] = ballots[q][g]
  BY <1>1, <1>4 DEF GovernanceTypeOK
<1>7. \A g \in Voters : PowerNow(g)' = PowerNow(g)
  BY <1>1, PowerStays
<1>8. BallotInv'
  <2>1. ASSUME NEW q \in Motions, NEW g \in Voters
        PROVE  /\ motions'[q] = "draft" => ballots'[q][g] = NoBallot
               /\ motions'[q] = "open" /\ ballots'[q][g] # NoBallot =>
                     ballots'[q][g].power = PowerNow(g)'
    <3>1. CASE q = r /\ g = h
      BY <1>1, <1>3, <1>4, <1>6, <1>7, <3>1
    <3>2. CASE q # r \/ g # h
      BY <1>1, <1>6, <1>7, <3>2 DEF BallotInv
    <3>3. QED
      BY <3>1, <3>2
  <2>2. QED
    BY <2>1 DEF BallotInv
<1>9. CastByRight'
  BY <1>1, <1>4, <1>5, <1>6 DEF CastByRight
<1>10. LedgerInv'
  BY <1>1, <1>2, LedgerStays
<1>11. QED
  BY <1>1, <1>2, <1>6, <1>8, <1>9, <1>10 DEF GovernanceTypeOK

-----------------------------------------------------------------------------
(* The quorum: who is present counts, and who is represented, each grantor  *)
(* through one proxy and none of those who are present.                     *)

LEMMA OneProxyEach ==
  ASSUME NEW r \in Motions, NEW first \in SUBSET StandIns(r),
         \A p \in StandIns(r) :
            Cardinality({q \in first : proxies[q].grantor = proxies[p].grantor}) = 1
  PROVE  \A p \in first, q \in first :
            proxies[p].grantor = proxies[q].grantor => p = q
<1> SUFFICES ASSUME NEW p \in first, NEW q \in first,
                    proxies[p].grantor = proxies[q].grantor
             PROVE  p = q
  OBVIOUS
<1> DEFINE same == {s \in first : proxies[s].grantor = proxies[p].grantor}
<1>1. first \subseteq Proxies
  BY DEF StandIns, ActiveProxies
<1>2. IsFiniteSet(same) /\ Cardinality(same) = 1 /\ p \in same /\ q \in same
  <2>1. same \subseteq Proxies
    BY <1>1
  <2>2. IsFiniteSet(same)
    BY <2>1, MeetingIsFinite, FS_Subset
  <2>3. QED
    BY <2>2
<1> HIDE DEF same
<1>3. \E x : same = {x}
  BY <1>2, FS_Singleton
<1>4. QED
  BY <1>2, <1>3

LEMMA QuorumStands ==
  ASSUME GovernanceTypeOK, LedgerInv
  PROVE  QuorumNeverOverstated
<1> SUFFICES ASSUME NEW r \in Motions, NEW n \in Represented(r)
             PROVE  n <= Eligible
  BY DEF QuorumNeverOverstated
<1> DEFINE w == PowerAt(recordDate)
           charge(first) == [p \in Proxies |-> IF p \in first THEN PowerOfProxy(p)
                                               ELSE 0]
<1>1. PICK first \in SUBSET StandIns(r) :
         /\ \A p \in StandIns(r) : Cardinality({q \in first :
               proxies[q].grantor = proxies[p].grantor}) = 1
         /\ n = SumFunctionOnSet(w, present) + SumFunctionOnSet(charge(first), Proxies)
  BY DEF Represented, RepresentedBy
<1> DEFINE f == charge(first)
           absent == Voters \ present
           g == [p \in Proxies |-> proxies[p].grantor]
<1>2. \A h \in Voters : w[h] \in Nat
  BY PowerIsNat DEF GovernanceTypeOK
<1>3. first \subseteq Proxies /\ \A p \in first : proxies[p] \in Proxy
  BY DEF StandIns, ActiveProxies, GovernanceTypeOK, NoProxy
<1>4. \A p \in first : g[p] \in absent
  BY <1>3 DEF StandIns, Proxy
<1>5. \A p \in first, q \in first : g[p] = g[q] => p = q
  BY <1>1, <1>3, OneProxyEach
<1> HIDE DEF w
<1>6. \A p \in first : f[p] \in Nat /\ f[p] <= w[g[p]]
  <2>1. ASSUME NEW p \in first PROVE f[p] \in Nat /\ f[p] <= w[g[p]]
    <3>1. f[p] = Smaller(proxies[p].power, w[proxies[p].grantor])
      BY <1>3 DEF PowerOfProxy, w
    <3>2. /\ proxies[p].power \in Nat
          /\ g[p] = proxies[p].grantor /\ w[g[p]] \in Nat
      BY <1>2, <1>3, <1>4 DEF Proxy
    <3>3. QED
      BY <3>1, <3>2 DEF Smaller
  <2>2. QED
    BY <2>1
<1>7. \A p \in Proxies \ first : f[p] = 0
  OBVIOUS
<1>8. present \in SUBSET Voters
  BY DEF GovernanceTypeOK
<1> HIDE DEF f, g
<1>9. IsFiniteSet(first) /\ IsFiniteSet(absent) /\ IsFiniteSet(Voters)
      /\ IsFiniteSet(Proxies)
  BY <1>3, MeetingIsFinite, FS_Subset
<1>10. \A p \in Proxies : f[p] \in Int
  BY <1>6, <1>7
<1>11. SumFunctionOnSet(f, Proxies) = SumFunctionOnSet(f, first)
  BY <1>3, <1>7, <1>9, <1>10, SumWithin
<1>12. SumFunctionOnSet(f, first) <= SumFunctionOnSet(w, absent)
  <2>1. \A y \in absent : w[y] \in Nat
    BY <1>2
  <2> HIDE DEF absent
  <2>2. \A p \in first : g[p] \in absent /\ f[p] \in Int /\ f[p] <= w[g[p]]
    BY <1>4, <1>6
  <2>3. QED
    BY <1>5, <1>9, <2>1, <2>2, SumInjected
<1>13. SumFunctionOnSet(w, Voters) =
           SumFunctionOnSet(w, present) + SumFunctionOnSet(w, absent)
  BY <1>2, <1>8, <1>9, SumSplit
<1>14. /\ SumFunctionOnSet(w, present) \in Nat
       /\ SumFunctionOnSet(w, absent) \in Nat
       /\ SumFunctionOnSet(f, first) \in Nat
  <2>1. IsFiniteSet(present)
    BY <1>8, <1>9, FS_Subset
  <2>2. /\ \A y \in absent : w[y] \in Nat
        /\ \A y \in present : w[y] \in Nat
    BY <1>2, <1>8
  <2>3. QED
    BY <1>6, <1>9, <2>1, <2>2, SumIsNat
<1>15. n = SumFunctionOnSet(w, present) + SumFunctionOnSet(f, Proxies)
  BY <1>1 DEF f
<1>16. Eligible = SumFunctionOnSet(w, Voters)
  BY DEF Eligible, w
<1> HIDE DEF absent
<1>17. QED
  BY <1>11, <1>12, <1>13, <1>14, <1>15, <1>16

-----------------------------------------------------------------------------
LEMMA GovernanceStart == ASSUME GovernanceInit PROVE GovernanceInv
<1>1. 1 \in Dates /\ date = 1 /\ recordDate = 1
  BY MeetingIsFinite DEF GovernanceInit, Dates
<1>2. GovernanceTypeOK
  BY <1>1, MeetingIsFinite DEF GovernanceInit, GovernanceTypeOK
<1>3. \A d \in Dates, h \in Voters : ledger[d][h] = 0
  BY DEF GovernanceInit
<1>4. ASSUME NEW day \in Dates, NEW h \in Voters PROVE HoldingAt(day, h) = 0
  <2> DEFINE f == Entries(ledger, h)
             days == 1 .. day
  <2>1. IsFiniteSet(days) /\ days \in SUBSET Dates
    BY <1>2, EntriesAreInt DEF GovernanceTypeOK
  <2>2. \A d \in days : f[d] = 0
    BY <1>3, <2>1 DEF Entries
  <2>3. HoldingAt(day, h) = SumFunctionOnSet(f, days)
    BY HoldingIs
  <2> HIDE DEF f, days
  <2>4. QED
    BY <2>1, <2>2, <2>3, SumOfZeros
<1>5. LedgerInv
  BY <1>3, <1>4 DEF LedgerInv
<1>6. BallotInv /\ CastByRight
  BY DEF GovernanceInit, BallotInv, CastByRight, NoBallot
<1>7. QED
  BY <1>2, <1>5, <1>6 DEF GovernanceInv

\* However ownership, proxies, attendance and ballots follow each other: what
\* an open vote has collected weighs what the register says, was cast by the
\* voter or under a proxy of theirs, and no power is present twice.
THEOREM VotesAreSound == GovernanceSpec => []VotesAddUp
<1>1. GovernanceInv => VotesAddUp
  BY QuorumStands DEF GovernanceInv, BallotInv, VotesAddUp, BallotsMatchRegister
<1>2. GovernanceInv /\ [GovernanceNext]_governanceVars => GovernanceInv'
  BY OwnershipStep, MeetingStep, ResolutionStep, ProxyStep, VoteStep
     DEF GovernanceNext
<1>3. QED
  BY <1>1, <1>2, GovernanceStart, PTL DEF GovernanceSpec
=============================================================================
