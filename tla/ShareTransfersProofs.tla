------------------------ MODULE ShareTransfersProofs ------------------------
(***************************************************************************)
(* Proofs about transfers of shares and the offers they fill.              *)
(***************************************************************************)
EXTENDS ShareTransfers, SumTheorems

\* A transfer is between two holders, and nobody approved it until it is
\* approved.
WellFormed ==
    \A t \in Transfers : transfers[t] # NoTransfer =>
        /\ transfers[t].deal.from # transfers[t].deal.to
        /\ transfers[t].status # "approved" => transfers[t].approver = None

\* A resolution is only bound to a transfer whose maker is on record: this is
\* why a transfer that was pending when the organisation became governed
\* cannot be approved without a second person.
MakersKnown ==
    \A r \in Resolutions : bound[r] # None =>
        /\ transfers[bound[r]] # NoTransfer
        /\ transfers[bound[r]].maker # None

Inv == TypeOK /\ WellFormed /\ MakersKnown /\ ApprovalWasEarned

-----------------------------------------------------------------------------
\* Types.

LEMMA RegisterStepTypes ==
  ASSUME TypeOK, RegisterNext, UNCHANGED transferVars
  PROVE  TypeOK'
<1> USE DEF TypeOK, RegisterTypeOK
<1>1. UNCHANGED <<transfers, offers, payments, bound, consumed, cleared, today>>
  BY DEF transferVars
<1>2. ASSUME NEW limit \in Limits, NEW w \in Weights, PatchShareClass(limit, w)
      PROVE  TypeOK'
  BY <1>1, <1>2 DEF PatchShareClass
<1>3. ASSUME NEW h \in Holders, NEW units \in IssueSizes, IssueShares(h, units)
      PROVE  TypeOK'
  BY <1>1, <1>3, RegisterAssumption DEF IssueShares
<1>4. ASSUME NEW h \in Leavers, ArchiveStakeholder(h) \/ RestoreStakeholder(h)
      PROVE  TypeOK'
  BY <1>1, <1>4, RegisterAssumption DEF ArchiveStakeholder, RestoreStakeholder
<1>5. ASSUME NEW r \in Resolutions, OpenVote(r)
      PROVE  TypeOK'
  BY <1>1, <1>5 DEF OpenVote, VoteStates
<1>6. ASSUME NEW r \in Resolutions, NEW outcome \in {"approved", "rejected"},
             FinalizeVote(r, outcome)
      PROVE  TypeOK'
  BY <1>1, <1>6 DEF FinalizeVote, VoteStates
<1>7. CASE Bootstrap
  BY <1>1, <1>7 DEF Bootstrap
<1>8. ASSUME NEW c \in Certificates, NEW h \in Holders, NEW units \in IssueSizes,
             IssueCertificate(c, h, units)
      PROVE  TypeOK'
  BY <1>1, <1>8 DEF IssueCertificate, Certificate
<1>9. ASSUME NEW c \in Certificates, CancelCertificate(c)
      PROVE  TypeOK'
  <2>1. certificates[c] \in Certificate
    BY <1>9 DEF CancelCertificate, NoCertificate
  <2>2. [certificates[c] EXCEPT !.status = "cancelled"] \in Certificate
    BY <2>1 DEF Certificate
  <2>3. QED
    BY <1>1, <1>9, <2>2 DEF CancelCertificate
<1>10. ASSUME NEW c \in Certificates, NEW new \in Certificates,
              ReplaceCertificate(c, new)
       PROVE  TypeOK'
  <2>1. certificates[c] \in Certificate
    BY <1>10 DEF ReplaceCertificate, NoCertificate
  <2>2. [certificates[c] EXCEPT !.status = "replaced"] \in Certificate
    BY <2>1 DEF Certificate
  <2>3. QED
    BY <1>1, <1>10, <2>1, <2>2 DEF ReplaceCertificate
<1>11. QED
  BY <1>2, <1>3, <1>4, <1>5, <1>6, <1>7, <1>8, <1>9, <1>10 DEF RegisterNext

LEMMA OfferStepTypes ==
  ASSUME TypeOK, OfferNext, UNCHANGED registerVars
  PROVE  TypeOK'
<1> USE DEF TypeOK
<1>1. RegisterTypeOK'
  BY DEF RegisterTypeOK, registerVars
<1>2. ASSUME NEW o \in Offers, NEW side, NEW seller \in Holders \cup {None},
             NEW buyer \in Holders \cup {None}, NEW units \in IssueSizes,
             NEW price \in Prices, NEW until \in Days,
             CreateShareOffer(o, side, seller, buyer, units, price, until)
      PROVE  TypeOK'
  <2>1. units \in Nat
    BY RegisterAssumption
  <2>2. QED
    BY <1>1, <1>2, <2>1 DEF CreateShareOffer, Offer
<1>3. ASSUME NEW o \in Offers, NEW price \in Prices, NEW until \in Days,
             NEW cancel \in BOOLEAN, PatchShareOffer(o, price, until, cancel)
      PROVE  TypeOK'
  <2>1. offers[o] \in Offer
    BY <1>3 DEF PatchShareOffer, OfferLive, NoOffer
  <2>2. [offers[o] EXCEPT !.price = price, !.until = until,
              !.status = IF cancel THEN "cancelled" ELSE @] \in Offer
    BY <2>1 DEF Offer
  <2>3. QED
    BY <1>1, <1>3, <2>2 DEF PatchShareOffer
<1>4. QED
  BY <1>2, <1>3 DEF OfferNext

LEMMA PaymentStepTypes ==
  ASSUME TypeOK, PaymentNext, UNCHANGED registerVars
  PROVE  TypeOK'
<1> USE DEF TypeOK
<1>1. RegisterTypeOK'
  BY DEF RegisterTypeOK, registerVars
<1>2. ASSUME NEW p \in Payments, NEW deal \in Deals,
             NEW t \in Transfers \cup {None}, CreatePayment(p, deal.price, t)
      PROVE  TypeOK'
  BY <1>1, <1>2, TransferAssumption DEF CreatePayment, Payment
<1>3. ASSUME NEW p \in Payments, ConfirmPayment(p)
      PROVE  TypeOK'
  <2>1. [payments[p] EXCEPT !.status = "succeeded"] \in Payment
    BY DEF Payment
  <2>2. QED
    BY <1>1, <1>3, <2>1 DEF ConfirmPayment
<1>4. QED
  BY <1>2, <1>3 DEF PaymentNext

\* Binding evidence keeps the types of what is bound.
LEMMA BindingTypes ==
  ASSUME TypeOK, NEW r \in Resolutions, NEW p \in Payments, NEW t \in Transfers,
         NEW deal
  PROVE  /\ BindResolution(r, t, deal) =>
               bound' \in [Resolutions -> Transfers \cup {None}]
         /\ BindPayment(p, t, deal) => payments' \in [Payments -> Payment]
<1>1. [payments[p] EXCEPT !.purpose = t] \in Payment
  BY DEF TypeOK, Payment
<1>2. QED
  BY <1>1 DEF TypeOK, BindResolution, BindPayment

LEMMA CreateTypes ==
  ASSUME TypeOK, UNCHANGED registerVars,
         NEW t \in Transfers, NEW u \in Users, NEW r \in Resolutions \cup {None},
         NEW p \in Payments \cup {None}, NEW deal \in Deals,
         NEW o \in Offers \cup {None}, NEW status \in {"draft", "pending"},
         CreateShareTransfer(t, u, deal, o, r, p, status)
  PROVE  TypeOK'
<1> USE DEF TypeOK
<1>1. RegisterTypeOK'
  BY DEF RegisterTypeOK, registerVars
<1>2. bound' \in [Resolutions -> Transfers \cup {None}]
  BY BindingTypes DEF CreateShareTransfer, BindResolution
<1>3. payments' \in [Payments -> Payment]
  <2>1. [payments[p] EXCEPT !.purpose = t] \in Payment \/ p = None
    BY DEF Payment
  <2>2. QED
    BY <2>1 DEF CreateShareTransfer, BindPayment
<1>4. transfers' \in [Transfers -> Transfer \cup {NoTransfer}]
  BY DEF CreateShareTransfer, Transfer, TransferStatuses
<1>5. QED
  BY <1>1, <1>2, <1>3, <1>4 DEF CreateShareTransfer

LEMMA DraftTypes ==
  ASSUME TypeOK, UNCHANGED registerVars,
         NEW t \in Transfers, NEW u \in Users, NEW r \in Resolutions \cup {None},
         NEW p \in Payments \cup {None}, NEW edited \in BOOLEAN,
         NEW next \in {"draft", "pending", "cancelled"},
         PatchDraft(t, u, edited, r, p, next)
  PROVE  TypeOK'
<1> USE DEF TypeOK
<1>1. RegisterTypeOK'
  BY DEF RegisterTypeOK, registerVars
<1>2. bound' \in [Resolutions -> Transfers \cup {None}]
  BY DEF PatchDraft, BindResolution
<1>3. payments' \in [Payments -> Payment]
  <2>1. [payments[p] EXCEPT !.purpose = t] \in Payment \/ p = None
    BY DEF Payment
  <2>2. QED
    BY <2>1 DEF PatchDraft, BindPayment
<1>4. transfers' \in [Transfers -> Transfer \cup {NoTransfer}]
  <2>1. transfers[t] \in Transfer
    BY DEF PatchDraft, NoTransfer
  <2>2. ASSUME NEW maker \in Users \cup {None}
        PROVE  [transfers[t] EXCEPT !.status = next, !.resolution = r,
                                    !.payment = p, !.maker = maker]
                  \in Transfer
    BY <2>1 DEF Transfer, TransferStatuses
  <2>3. transfers[t].maker \in Users \cup {None}
    BY <2>1 DEF Transfer
  <2>4. QED
    BY <2>2, <2>3 DEF PatchDraft
<1>5. QED
  BY <1>1, <1>2, <1>3, <1>4 DEF PatchDraft

LEMMA CloseTypes ==
  ASSUME TypeOK, UNCHANGED registerVars, NEW t \in Transfers,
         NEW next \in {"rejected", "cancelled"}, CloseTransfer(t, next)
  PROVE  TypeOK'
<1>1. RegisterTypeOK'
  BY DEF TypeOK, RegisterTypeOK, registerVars
<1>2. transfers[t] \in Transfer
  BY DEF TypeOK, CloseTransfer, NoTransfer
<1>3. [transfers[t] EXCEPT !.status = next] \in Transfer
  BY <1>2 DEF Transfer, TransferStatuses
<1>4. QED
  BY <1>1, <1>3 DEF TypeOK, CloseTransfer

LEMMA ApproveTypes ==
  ASSUME TypeOK, WellFormed, NEW t \in Transfers, NEW u \in Users,
         ApproveShareTransfer(t, u)
  PROVE  TypeOK'
<1> DEFINE T == transfers[t]
<1>1. T \in Transfer /\ T.deal.from # T.deal.to
  BY DEF TypeOK, WellFormed, ApproveShareTransfer, Approvable, NoTransfer
<1>2. T.deal \in Deals
  BY <1>1 DEF Transfer
<1>3. /\ T.deal.from \in Holders
      /\ T.deal.to \in Holders
      /\ T.deal.units \in Nat
  BY <1>2, TransferAssumption
<1>4. holding' \in [Holders -> Nat]
  <2>1. holding \in [Holders -> Nat]
    BY DEF TypeOK, RegisterTypeOK
  <2>2. holding[T.deal.from] - T.deal.units \in Nat
    BY <2>1, <1>3 DEF ApproveShareTransfer, HasUnits
  <2>3. holding[T.deal.to] + T.deal.units \in Nat
    BY <2>1, <1>3
  <2>4. holding' = [holding EXCEPT ![T.deal.from] = @ - T.deal.units,
                                   ![T.deal.to] = @ + T.deal.units]
    BY DEF ApproveShareTransfer
  <2>5. QED
    BY <2>1, <2>2, <2>3, <2>4, <1>1, <1>3
<1>5. RegisterTypeOK'
  BY <1>4 DEF TypeOK, RegisterTypeOK, ApproveShareTransfer
<1>6. offers' \in [Offers -> Offer \cup {NoOffer}]
  <2>1. CASE T.offer = None
    BY <2>1 DEF TypeOK, ApproveShareTransfer
  <2>2. CASE T.offer # None
    <3>1. T.offer \in Offers
      BY <2>2, <1>1 DEF Transfer
    <3>2. offers[T.offer] \in Offer /\ T.deal.units <= offers[T.offer].remaining
      BY <2>2, <3>1
         DEF TypeOK, ApproveShareTransfer, OfferCovers, OpenFor, OfferLive, NoOffer
    <3>3. offers[T.offer].remaining - T.deal.units \in Nat
      BY <3>2, <1>3 DEF Offer
    <3>4. AfterFill(offers[T.offer], T.deal.units) \in Offer
      BY <3>2, <3>3 DEF Offer, AfterFill
    <3>5. offers' = [offers EXCEPT ![T.offer] = AfterFill(@, T.deal.units)]
      BY <2>2 DEF ApproveShareTransfer
    <3>6. QED
      BY <3>4, <3>5 DEF TypeOK
  <2>3. QED
    BY <2>1, <2>2
<1>7. consumed' \in SUBSET Resolutions
  <2>1. governed => T.resolution \in Resolutions
    BY <1>1 DEF Transfer, ApproveShareTransfer, Compliant, ResolutionConsumable,
                ResolutionInScope
  <2>2. QED
    BY <2>1 DEF TypeOK, ApproveShareTransfer
<1>8. transfers' \in [Transfers -> Transfer \cup {NoTransfer}]
  <2>1. ASSUME NEW approver \in Users \cup {None}
        PROVE  [T EXCEPT !.status = "approved", !.approver = approver]
                  \in Transfer
    BY <1>1 DEF Transfer, TransferStatuses
  <2>2. T.approver \in Users \cup {None}
    BY <1>1 DEF Transfer
  <2>3. QED
    BY <2>1, <2>2 DEF TypeOK, ApproveShareTransfer
<1>9. QED
  BY <1>5, <1>6, <1>7, <1>8 DEF TypeOK, ApproveShareTransfer

LEMMA StepTypes ==
  ASSUME TypeOK, WellFormed, [Next]_vars
  PROVE  TypeOK'
<1>1. CASE RegisterNext /\ UNCHANGED transferVars
  BY <1>1, RegisterStepTypes
<1>2. CASE OfferNext /\ UNCHANGED registerVars
  BY <1>2, OfferStepTypes
<1>3. CASE PaymentNext /\ UNCHANGED registerVars
  BY <1>3, PaymentStepTypes
<1>4. CASE DraftNext /\ UNCHANGED registerVars
  BY <1>4, CreateTypes, DraftTypes DEF DraftNext
<1>5. CASE ReviewNext /\ UNCHANGED registerVars
  BY <1>5, CloseTypes DEF ReviewNext
<1>6. ASSUME NEW h \in Leavers, ClearanceChanges(h), UNCHANGED registerVars
      PROVE  TypeOK'
  BY <1>6, RegisterAssumption
     DEF TypeOK, RegisterTypeOK, registerVars, ClearanceChanges
<1>7. CASE Tomorrow /\ UNCHANGED registerVars
  BY <1>7, TransferAssumption
     DEF TypeOK, RegisterTypeOK, registerVars, Tomorrow, Days
<1>8. ASSUME NEW t \in Transfers, NEW u \in Users, ApproveShareTransfer(t, u)
      PROVE  TypeOK'
  BY <1>8, ApproveTypes
<1>9. CASE UNCHANGED vars
  BY <1>9 DEF TypeOK, RegisterTypeOK, vars, registerVars, transferVars
<1>10. QED
  BY <1>1, <1>2, <1>3, <1>4, <1>5, <1>6, <1>7, <1>8, <1>9 DEF Next

-----------------------------------------------------------------------------
\* What the steps do to transfers and their evidence.

LEMMA OtherSteps ==
  ASSUME UNCHANGED <<transfers, payments, bound, consumed>>, Inv, TypeOK'
  PROVE  Inv'
BY DEF Inv, WellFormed, MakersKnown, ApprovalWasEarned, Approved, Earned

LEMMA PaymentSteps ==
  ASSUME Inv, TypeOK', PaymentNext
  PROVE  Inv'
<1>1. UNCHANGED <<transfers, bound, consumed>>
  BY DEF PaymentNext, CreatePayment, ConfirmPayment
<1>2. WellFormed' /\ MakersKnown'
  BY <1>1 DEF Inv, WellFormed, MakersKnown
<1>3. ASSUME NEW p \in Payments, payments[p].status = "succeeded"
      PROVE  payments'[p] = payments[p]
  BY <1>3 DEF PaymentNext, CreatePayment, ConfirmPayment, Inv, TypeOK
<1>4. ASSUME NEW t \in Transfers, transfers[t].status = "approved",
             transfers[t].approver # None
      PROVE  Earned(t)'
  <2>1. Earned(t) /\ transfers[t] \in Transfer
    BY <1>4 DEF Inv, TypeOK, ApprovalWasEarned, Approved, NoTransfer
  <2>2. CASE transfers[t].deal.price > 0
    <3>1. transfers[t].payment \in Payments
      BY <2>1, <2>2 DEF Earned, Transfer
    <3>2. QED
      BY <1>1, <1>3, <2>1, <2>2, <3>1 DEF Earned
  <2>3. CASE ~(transfers[t].deal.price > 0)
    BY <1>1, <2>1, <2>3 DEF Earned
  <2>4. QED
    BY <2>2, <2>3
<1>5. QED
  BY <1>1, <1>2, <1>4 DEF Inv, ApprovalWasEarned, Approved

\* A step that makes or changes transfer t, not yet decided, in keeping with
\* the rules for binding evidence.
DraftStep(t, r, p) ==
    /\ transfers[t].status # "approved"
    /\ transfers'[t].status # "approved"
    /\ \A other \in Transfers \ {t} : transfers'[other] = transfers[other]
    /\ transfers'[t] # NoTransfer
    /\ transfers'[t].deal.from # transfers'[t].deal.to
    /\ transfers'[t].approver = None
    /\ transfers[t] # NoTransfer /\ transfers[t].maker # None
          => transfers'[t].maker # None
    /\ \/ UNCHANGED bound
       \/ /\ r \in Resolutions
          /\ ResolutionFree(r, t)
          /\ bound' = [bound EXCEPT ![r] = t]
          /\ transfers'[t].maker # None
    /\ \/ UNCHANGED payments
       \/ /\ p \in Payments
          /\ payments[p].purpose \in {None, t}
          /\ payments' = [payments EXCEPT ![p].purpose = t]
    /\ UNCHANGED consumed

LEMMA DraftSteps ==
  ASSUME Inv, TypeOK', NEW t \in Transfers, NEW r, NEW p, DraftStep(t, r, p)
  PROVE  Inv'
<1>1. WellFormed'
  BY DEF Inv, WellFormed, DraftStep
<1>2. MakersKnown'
  <2>1. SUFFICES ASSUME NEW q \in Resolutions, bound'[q] # None
                 PROVE  /\ transfers'[bound'[q]] # NoTransfer
                        /\ transfers'[bound'[q]].maker # None
    BY DEF MakersKnown
  <2>2. bound'[q] = t \/ bound'[q] = bound[q]
    BY DEF DraftStep, Inv, TypeOK
  <2>3. bound'[q] # t => bound'[q] \in Transfers \ {t}
    BY <2>1 DEF TypeOK
  <2>4. CASE bound'[q] # t
    BY <2>1, <2>2, <2>3, <2>4 DEF DraftStep, Inv, MakersKnown
  <2>5. CASE bound'[q] = t /\ bound[q] = t
    BY <2>1, <2>5, TransferAssumption DEF DraftStep, Inv, MakersKnown
  <2>6. CASE bound'[q] = t /\ bound[q] # t
    BY <2>6 DEF DraftStep
  <2>7. QED
    BY <2>4, <2>5, <2>6
<1>3. ApprovalWasEarned'
  <2>1. SUFFICES ASSUME NEW a \in Transfers, transfers'[a].status = "approved",
                        transfers'[a].approver # None
                 PROVE  Earned(a)'
    BY DEF ApprovalWasEarned, Approved
  <2>2. a # t /\ transfers'[a] = transfers[a]
    BY <2>1 DEF DraftStep
  <2>3. Earned(a) /\ transfers[a] \in Transfer
    BY <2>1, <2>2 DEF Inv, TypeOK, ApprovalWasEarned, Approved, NoTransfer
  <2>4. bound'[transfers[a].resolution] = a
    <3>1. bound[transfers[a].resolution] = a
          /\ transfers[a].resolution \in Resolutions
      BY <2>3 DEF Earned, Inv, TypeOK
    <3>2. a # None
      BY TransferAssumption
    <3>3. QED
      BY <2>2, <3>1, <3>2 DEF DraftStep, ResolutionFree, Inv, TypeOK
  <2>5. ASSUME transfers[a].deal.price > 0
        PROVE  payments'[transfers[a].payment] = payments[transfers[a].payment]
    <3>1. /\ transfers[a].payment \in Payments
          /\ payments[transfers[a].payment].purpose = a
      BY <2>3, <2>5 DEF Earned, Transfer
    <3>2. a # None
      BY TransferAssumption
    <3>3. QED
      BY <2>2, <3>1, <3>2 DEF DraftStep, Inv, TypeOK
  <2>6. QED
    BY <2>2, <2>3, <2>4, <2>5 DEF Earned, DraftStep
<1>4. QED
  BY <1>1, <1>2, <1>3 DEF Inv

LEMMA CreateIsDraftStep ==
  ASSUME Inv, NEW t \in Transfers, NEW u \in Users,
         NEW r \in Resolutions \cup {None}, NEW p \in Payments \cup {None},
         NEW deal \in Deals, NEW o \in Offers \cup {None},
         NEW status \in {"draft", "pending"},
         CreateShareTransfer(t, u, deal, o, r, p, status)
  PROVE  DraftStep(t, r, p)
<1> DEFINE new == [status |-> status, deal |-> deal, offer |-> o,
                   resolution |-> r, payment |-> p,
                   maker |-> IF governed THEN u ELSE None, approver |-> None]
<1>1. /\ transfers[t] = NoTransfer
      /\ transfers' = [transfers EXCEPT ![t] = new]
      /\ deal.from # deal.to
      /\ UNCHANGED consumed
  BY DEF CreateShareTransfer
<1>2. transfers'[t] = new
  BY <1>1 DEF Inv, TypeOK
<1>3. \A other \in Transfers \ {t} : transfers'[other] = transfers[other]
  BY <1>1 DEF Inv, TypeOK
<1>4. new # NoTransfer
  <2>1. new.status \in {"draft", "pending"} /\ NoTransfer.status = "none"
    BY DEF NoTransfer
  <2>2. QED
    BY <2>1
<1>5. \/ UNCHANGED bound
      \/ /\ r \in Resolutions
         /\ ResolutionFree(r, t)
         /\ bound' = [bound EXCEPT ![r] = t]
         /\ transfers'[t].maker # None
  BY <1>2, TransferAssumption DEF CreateShareTransfer, BindResolution, CanBind
<1>6. \/ UNCHANGED payments
      \/ /\ p \in Payments
         /\ payments[p].purpose \in {None, t}
         /\ payments' = [payments EXCEPT ![p].purpose = t]
  BY DEF CreateShareTransfer, BindPayment, CanFund
<1>7. transfers[t].status = "none" /\ transfers'[t].status # "approved"
  BY <1>1, <1>2 DEF NoTransfer
<1>8. QED
  BY <1>1, <1>2, <1>3, <1>4, <1>5, <1>6, <1>7 DEF DraftStep

LEMMA PatchIsDraftStep ==
  ASSUME Inv, NEW t \in Transfers, NEW u \in Users,
         NEW r \in Resolutions \cup {None}, NEW p \in Payments \cup {None},
         NEW edited \in BOOLEAN, NEW next \in {"draft", "pending", "cancelled"},
         PatchDraft(t, u, edited, r, p, next)
  PROVE  DraftStep(t, r, p)
<1>1. transfers[t] \in Transfer /\ transfers[t].status = "draft"
  BY DEF PatchDraft, Inv, TypeOK, NoTransfer
<1>2. /\ transfers'[t].status = next
      /\ transfers'[t].deal = transfers[t].deal
      /\ transfers'[t].approver = transfers[t].approver
      /\ transfers'[t].maker = IF governed /\ (edited \/ next = "pending")
                               THEN u ELSE transfers[t].maker
      /\ \A other \in Transfers \ {t} : transfers'[other] = transfers[other]
  BY <1>1 DEF PatchDraft, Inv, TypeOK, Transfer
<1>3. transfers'[t] # NoTransfer /\ transfers[t] # NoTransfer
  BY <1>1, <1>2 DEF NoTransfer
<1>4. transfers[t].deal.from # transfers[t].deal.to /\ transfers[t].approver = None
  BY <1>1, <1>3 DEF Inv, WellFormed
<1>5. u # None
  BY TransferAssumption
<1>6. \/ UNCHANGED bound
      \/ /\ r \in Resolutions
         /\ ResolutionFree(r, t)
         /\ bound' = [bound EXCEPT ![r] = t]
         /\ transfers'[t].maker # None
  BY <1>2, <1>5 DEF PatchDraft, Documented, BindResolution, CanBind
<1>7. \/ UNCHANGED payments
      \/ /\ p \in Payments
         /\ payments[p].purpose \in {None, t}
         /\ payments' = [payments EXCEPT ![p].purpose = t]
  BY DEF PatchDraft, BindPayment, CanFund
<1>8. UNCHANGED consumed
  BY DEF PatchDraft
<1>9. QED
  BY <1>1, <1>2, <1>3, <1>4, <1>5, <1>6, <1>7, <1>8 DEF DraftStep

LEMMA CloseIsDraftStep ==
  ASSUME Inv, NEW t \in Transfers, NEW next \in {"rejected", "cancelled"},
         CloseTransfer(t, next)
  PROVE  DraftStep(t, None, None)
<1>1. transfers[t] \in Transfer /\ transfers[t].status = "pending"
  BY DEF CloseTransfer, Inv, TypeOK, NoTransfer
<1>2. /\ transfers'[t].status = next
      /\ transfers'[t].deal = transfers[t].deal
      /\ transfers'[t].approver = transfers[t].approver
      /\ transfers'[t].maker = transfers[t].maker
      /\ \A other \in Transfers \ {t} : transfers'[other] = transfers[other]
  BY <1>1 DEF CloseTransfer, Inv, TypeOK, Transfer
<1>3. transfers'[t] # NoTransfer /\ transfers[t] # NoTransfer
  BY <1>1, <1>2 DEF NoTransfer
<1>4. transfers[t].deal.from # transfers[t].deal.to /\ transfers[t].approver = None
  BY <1>1, <1>3 DEF Inv, WellFormed
<1>5. UNCHANGED <<payments, bound, consumed>>
  BY DEF CloseTransfer
<1>6. QED
  BY <1>1, <1>2, <1>3, <1>4, <1>5 DEF DraftStep

\* What an approval does to the transfers.
LEMMA ApprovalStep ==
  ASSUME TypeOK, NEW t \in Transfers, NEW u \in Users, ApproveShareTransfer(t, u)
  PROVE  /\ transfers[t] \in Transfer
         /\ transfers[t].status = "pending"
         /\ transfers'[t] = [transfers[t] EXCEPT
                !.status = "approved",
                !.approver = IF governed THEN u ELSE transfers[t].approver]
         /\ \A other \in Transfers \ {t} : transfers'[other] = transfers[other]
BY DEF TypeOK, ApproveShareTransfer, Approvable, NoTransfer

LEMMA ApproveSteps ==
  ASSUME Inv, TypeOK', NEW t \in Transfers, NEW u \in Users,
         ApproveShareTransfer(t, u)
  PROVE  Inv'
<1> DEFINE T == transfers[t]
<1>1. /\ T \in Transfer
      /\ T.status = "pending"
      /\ transfers'[t] = [T EXCEPT
             !.status = "approved", !.approver = IF governed THEN u ELSE T.approver]
      /\ \A other \in Transfers \ {t} : transfers'[other] = transfers[other]
  BY ApprovalStep DEF Inv
<1>2. UNCHANGED <<bound, payments>>
  BY DEF ApproveShareTransfer
<1>3. T # NoTransfer /\ transfers'[t] # NoTransfer
  BY <1>1 DEF NoTransfer, Transfer
<1>4. /\ transfers'[t].deal = T.deal
      /\ transfers'[t].maker = T.maker
      /\ transfers'[t].resolution = T.resolution
      /\ transfers'[t].payment = T.payment
      /\ transfers'[t].approver = IF governed THEN u ELSE T.approver
  BY <1>1 DEF Transfer
<1>5. WellFormed'
  <2>1. T.deal.from # T.deal.to
    BY <1>3 DEF Inv, WellFormed
  <2>2. transfers'[t].status = "approved"
    BY <1>1 DEF Transfer
  <2>3. ASSUME NEW a \in Transfers, transfers'[a] # NoTransfer
        PROVE  /\ transfers'[a].deal.from # transfers'[a].deal.to
               /\ transfers'[a].status # "approved" => transfers'[a].approver = None
    <3>1. CASE a = t
      BY <1>4, <2>1, <2>2, <3>1
    <3>2. CASE a # t
      <4>1. transfers'[a] = transfers[a]
        BY <1>1, <3>2
      <4>2. QED
        BY <2>3, <4>1 DEF Inv, WellFormed
    <3>3. QED
      BY <3>1, <3>2
  <2>4. QED
    BY <2>3 DEF WellFormed
<1>6. MakersKnown'
  <2>1. ASSUME NEW r \in Resolutions, bound[r] # None
        PROVE  /\ transfers'[bound[r]] # NoTransfer
               /\ transfers'[bound[r]].maker # None
    <3>1. bound[r] \in Transfers
      BY <2>1 DEF Inv, TypeOK
    <3>2. transfers[bound[r]] # NoTransfer /\ transfers[bound[r]].maker # None
      BY <2>1 DEF Inv, MakersKnown
    <3>3. CASE bound[r] = t
      BY <1>3, <1>4, <3>2, <3>3
    <3>4. CASE bound[r] # t
      <4>1. transfers'[bound[r]] = transfers[bound[r]]
        BY <1>1, <3>1, <3>4
      <4>2. QED
        BY <3>2, <4>1
    <3>5. QED
      BY <3>3, <3>4
  <2>2. QED
    BY <1>2, <2>1 DEF MakersKnown
<1>7. consumed \subseteq consumed'
  BY DEF ApproveShareTransfer
<1>8. ASSUME NEW a \in Transfers \ {t}, a \in Approved', transfers'[a].approver # None
      PROVE  Earned(a)'
  BY <1>1, <1>2, <1>7, <1>8 DEF Inv, ApprovalWasEarned, Approved, Earned
<1>9. ASSUME transfers'[t].approver # None
      PROVE  Earned(t)'
  <2>1. T.approver = None
    BY <1>1, <1>3 DEF Inv, WellFormed
  <2>2. governed /\ transfers'[t].approver = u
    BY <1>4, <1>9, <2>1
  <2>3. FourEyes(t, u) /\ ResolutionConsumable(t) /\ PaidFor(t)
    BY <2>2 DEF ApproveShareTransfer, Compliant
  <2>4. /\ T.resolution \in Resolutions
        /\ bound[T.resolution] = t
        /\ Scope[T.resolution] = T.deal
    BY <1>1, <2>3 DEF ResolutionConsumable, ResolutionInScope, Transfer
  <2>5. T.maker # None
    BY <2>4, TransferAssumption DEF Inv, MakersKnown
  <2>6. T.maker \notin {None, u}
    BY <2>3, <2>5 DEF FourEyes
  <2>7. T.resolution \in consumed'
    BY <2>2 DEF ApproveShareTransfer
  <2>8. T.deal.price > 0 =>
           /\ T.payment # None
           /\ payments[T.payment] = [status |-> "succeeded",
                                     amount |-> T.deal.price, purpose |-> t]
    BY <2>3 DEF PaidFor
  <2>9. QED
    BY <1>2, <1>4, <2>2, <2>4, <2>6, <2>7, <2>8 DEF Earned
<1>10. QED
  BY <1>5, <1>6, <1>8, <1>9 DEF Inv, ApprovalWasEarned, Approved

LEMMA InvInit == Init => Inv
<1> SUFFICES ASSUME Init PROVE Inv
  OBVIOUS
<1>1. TypeOK
  <2>1. RegisterTypeOK
    BY RegisterAssumption DEF Init, RegisterInit, RegisterTypeOK, VoteStates
  <2>2. NoPayment \in Payment
    BY DEF NoPayment, Payment
  <2>3. 1 \in Days
    BY TransferAssumption DEF Days
  <2>4. QED
    BY <2>1, <2>2, <2>3 DEF Init, TypeOK
<1>2. \A t \in Transfers : transfers[t] = NoTransfer
  BY DEF Init
<1>3. Approved = {}
  BY <1>2 DEF Approved, NoTransfer
<1>4. QED
  BY <1>1, <1>2, <1>3 DEF Inv, WellFormed, MakersKnown, ApprovalWasEarned, Init

LEMMA InvStep ==
  ASSUME Inv, [Next]_vars
  PROVE  Inv'
<1>1. TypeOK'
  BY StepTypes DEF Inv
<1>2. CASE UNCHANGED <<transfers, payments, bound, consumed>>
  BY <1>1, <1>2, OtherSteps
<1>3. CASE PaymentNext
  BY <1>1, <1>3, PaymentSteps
<1>4. CASE DraftNext
  BY <1>1, <1>4, DraftSteps, CreateIsDraftStep, PatchIsDraftStep DEF DraftNext
<1>5. CASE ReviewNext
  BY <1>1, <1>5, DraftSteps, CloseIsDraftStep DEF ReviewNext
<1>6. ASSUME NEW t \in Transfers, NEW u \in Users, ApproveShareTransfer(t, u)
      PROVE  Inv'
  BY <1>1, <1>6, ApproveSteps
<1>7. OfferNext => UNCHANGED <<transfers, payments, bound, consumed>>
  BY DEF OfferNext, CreateShareOffer, PatchShareOffer
<1>8. QED
  BY <1>2, <1>3, <1>4, <1>5, <1>6, <1>7
     DEF Next, ClearanceChanges, Tomorrow, transferVars, vars

\* The variables keep their types.
THEOREM TypeCorrect == Spec => []TypeOK
<1>1. Inv => TypeOK
  BY DEF Inv
<1>2. QED
  BY <1>1, InvInit, InvStep, PTL DEF Spec

\* In a governed organisation every approved transfer has two people, its own
\* consumed resolution and its own payment behind it.
THEOREM ApprovalsAreEarned == Spec => []ApprovalWasEarned
<1>1. Inv => ApprovalWasEarned
  BY DEF Inv
<1>2. QED
  BY <1>1, InvInit, InvStep, PTL DEF Spec

-----------------------------------------------------------------------------
\* While a resolution is open, ownership, members and weights stand still.
THEOREM VotesFreezeOwnership == Spec => StillWhileVoting
<1> DEFINE Still == VoteOpen => UNCHANGED <<holding, weight, members>>
<1>1. RegisterNext => Still
  BY DEF RegisterNext, PatchShareClass, IssueShares, ArchiveStakeholder,
         RestoreStakeholder, OpenVote, FinalizeVote, Bootstrap,
         IssueCertificate, CancelCertificate, ReplaceCertificate, Unlocked
<1>2. ASSUME NEW t \in Transfers, NEW u \in Users, ApproveShareTransfer(t, u)
      PROVE  Still
  BY <1>2 DEF ApproveShareTransfer, Unlocked
<1> HIDE DEF Still
<1>3. [Next]_vars => [Still]_registerVars
  BY <1>1, <1>2 DEF Next, vars
<1>4. Spec => [][Still]_registerVars
  BY <1>3, PTL DEF Spec
<1>5. QED
  BY <1>4, PTL DEF StillWhileVoting, Still

-----------------------------------------------------------------------------
\* The implementation of the ownership ledger.

LEMMA RegisterMoves ==
  ASSUME TypeOK, RegisterNext, UNCHANGED transferVars
  PROVE  [Ownership!Next]_<<holding, Approved>>
<1>1. UNCHANGED Approved
  BY DEF transferVars, Approved
<1>2. ASSUME NEW h \in Holders, NEW n \in IssueSizes, IssueShares(h, n)
      PROVE  Ownership!Next
  BY <1>1, <1>2 DEF IssueShares, Ownership!Next, Ownership!Issue
<1>3. \/ \E h \in Holders, n \in IssueSizes : IssueShares(h, n)
      \/ UNCHANGED holding
  BY DEF RegisterNext, PatchShareClass, ArchiveStakeholder, RestoreStakeholder,
         OpenVote, FinalizeVote, Bootstrap, IssueCertificate,
         CancelCertificate, ReplaceCertificate
<1>4. QED
  BY <1>1, <1>2, <1>3

LEMMA ApprovalMoves ==
  ASSUME Inv, NEW t \in Transfers, NEW u \in Users, ApproveShareTransfer(t, u)
  PROVE  Ownership!Next
<1> DEFINE deal == transfers[t].deal
<1>1. /\ transfers[t] \in Transfer
      /\ transfers[t].status = "pending"
      /\ \A other \in Transfers \ {t} : transfers'[other] = transfers[other]
  BY ApprovalStep DEF Inv
<1>2. transfers'[t].status = "approved"
  BY ApprovalStep DEF Inv, Transfer
<1>3. t \notin Approved /\ Approved' = Approved \cup {t}
  BY <1>1, <1>2 DEF Approved
<1>4. deal \in Deals /\ deal.from # deal.to
  BY <1>1 DEF Transfer, NoTransfer, Inv, WellFormed
<1>5. deal.from \in Holders /\ deal.to \in Holders
  BY <1>4, TransferAssumption
<1>6. deal.units <= holding[deal.from]
  <2>1. deal.units \in Nat /\ holding[deal.from] \in Nat
    BY <1>4, <1>5, TransferAssumption DEF Inv, TypeOK, RegisterTypeOK
  <2>2. holding[deal.from] >= deal.units
    BY DEF ApproveShareTransfer, HasUnits
  <2>3. QED
    BY <2>1, <2>2
<1>7. holding' = [holding EXCEPT ![deal.from] = @ - deal.units,
                                 ![deal.to] = @ + deal.units]
  BY DEF ApproveShareTransfer
<1>8. Ownership!Move(t, deal.from, deal.to, deal.units)
  BY <1>3, <1>4, <1>6, <1>7 DEF Ownership!Move
<1>9. deal.units \in IssueSizes \cup {d.units : d \in Deals}
  BY <1>4
<1>10. QED
  BY <1>5, <1>8, <1>9 DEF Ownership!Next

LEMMA OtherMoves ==
  ASSUME Inv, OfferNext \/ PaymentNext \/ DraftNext \/ ReviewNext
  PROVE  UNCHANGED Approved
<1>1. ASSUME NEW t \in Transfers, NEW r, NEW p, DraftStep(t, r, p)
      PROVE  UNCHANGED Approved
  BY <1>1 DEF DraftStep, Approved
<1>2. CASE DraftNext
  BY <1>1, <1>2, CreateIsDraftStep, PatchIsDraftStep DEF DraftNext
<1>3. CASE ReviewNext
  BY <1>1, <1>3, CloseIsDraftStep DEF ReviewNext
<1>4. CASE OfferNext
  <2>1. ASSUME NEW o, NEW price, NEW until, NEW side, NEW seller, NEW buyer,
               NEW units,
               CreateShareOffer(o, side, seller, buyer, units, price, until)
        PROVE  UNCHANGED transfers
    BY <2>1 DEF CreateShareOffer
  <2>2. ASSUME NEW o, NEW price, NEW until, NEW cancel,
               PatchShareOffer(o, price, until, cancel)
        PROVE  UNCHANGED transfers
    BY <2>2 DEF PatchShareOffer
  <2>3. UNCHANGED transfers
    BY <1>4, <2>1, <2>2, Zenon DEF OfferNext
  <2>4. QED
    BY <2>3 DEF Approved
<1>5. CASE PaymentNext
  <2>1. UNCHANGED transfers
    BY <1>5 DEF PaymentNext, CreatePayment, ConfirmPayment
  <2>2. QED
    BY <2>1 DEF Approved
<1>6. QED
  BY <1>2, <1>3, <1>4, <1>5

\* Units only change hands whole, once per transfer, from a holder who has
\* them.
THEOREM OwnershipImplemented == Spec => ImplementsOwnership
<1>1. Init => Ownership!Init
  BY DEF Init, RegisterInit, Ownership!Init, Approved, NoTransfer
<1>2. Inv /\ [Next]_vars => [Ownership!Next]_<<holding, Approved>>
  <2>1. SUFFICES ASSUME Inv, [Next]_vars
                 PROVE  [Ownership!Next]_<<holding, Approved>>
    OBVIOUS
  <2>2. CASE RegisterNext /\ UNCHANGED transferVars
    BY <2>1, <2>2, RegisterMoves DEF Inv
  <2>3. ASSUME NEW t \in Transfers, NEW u \in Users, ApproveShareTransfer(t, u)
        PROVE  Ownership!Next
    BY <2>1, <2>3, ApprovalMoves
  <2>4. CASE (OfferNext \/ PaymentNext \/ DraftNext \/ ReviewNext)
             /\ UNCHANGED registerVars
    BY <2>1, <2>4, OtherMoves DEF registerVars
  <2>5. ASSUME NEW h \in Leavers, ClearanceChanges(h), UNCHANGED registerVars
        PROVE  UNCHANGED <<holding, Approved>>
    BY <2>5 DEF ClearanceChanges, registerVars, Approved
  <2>6. CASE Tomorrow /\ UNCHANGED registerVars
    BY <2>6 DEF Tomorrow, registerVars, Approved
  <2>7. CASE UNCHANGED vars
    BY <2>7 DEF vars, registerVars, transferVars, Approved
  <2>8. QED
    BY <2>1, <2>2, <2>3, <2>4, <2>5, <2>6, <2>7 DEF Next
<1>3. Spec => []Inv
  BY InvInit, InvStep, PTL DEF Spec
<1>4. QED
  BY <1>1, <1>2, <1>3, PTL DEF Spec, ImplementsOwnership, Ownership!Spec,
     Ownership!vars

-----------------------------------------------------------------------------
(* Offers.                                                                 *)

Taken(o) ==
    SumFunctionOnSet([t \in Fills(o) |-> transfers[t].deal.units], Fills(o))

\* What is kept with an offer, of which so many units are taken.
Kept(offer, taken) ==
    /\ offer.remaining = offer.units - taken
    /\ offer.status = "filled" <=> offer.remaining = 0
    /\ offer.status = "open" => taken = 0

\* A transfer is drafted on an offer that is there: a new offer has been
\* filled by nobody.
OffersKnown ==
    \A t \in Transfers :
        transfers[t] # NoTransfer /\ transfers[t].offer # None =>
            offers[transfers[t].offer] # NoOffer

OfferInv ==
    /\ OffersKnown
    /\ \A o \in Offers : offers[o] # NoOffer => Kept(offers[o], Taken(o))

LEMMA TransferConstants ==
  /\ IsFiniteSet(Transfers) /\ None \notin Offers
  /\ \A deal \in Deals : deal.units \in Nat \ {0}
BY TransferAssumption

LEMMA FillsAre ==
  ASSUME TypeOK, NEW o \in Offers
  PROVE  /\ IsFiniteSet(Fills(o)) /\ Fills(o) \in SUBSET Transfers
         /\ \A t \in Fills(o) : transfers[t].deal.units \in Nat
<1>1. Fills(o) \in SUBSET Transfers
  BY DEF Fills, Approved
<1>2. ASSUME NEW t \in Fills(o) PROVE transfers[t].deal.units \in Nat
  <2>1. transfers[t] \in Transfer
    BY DEF Fills, Approved, TypeOK, NoTransfer
  <2>2. QED
    BY <2>1, TransferConstants DEF Transfer
<1>3. QED
  BY <1>1, <1>2, TransferConstants, FS_Subset

\* Where no transfer of an offer is approved, what is taken stays the same.
LEMMA TakenSame ==
  ASSUME NEW o \in Offers, Fills(o)' = Fills(o),
         \A t \in Fills(o) : transfers'[t].deal = transfers[t].deal
  PROVE  Taken(o)' = Taken(o)
<1>1. [t \in Fills(o)' |-> transfers'[t].deal.units] =
          [t \in Fills(o) |-> transfers[t].deal.units]
  OBVIOUS
<1>2. QED
  BY <1>1, Zenon DEF Taken

LEMMA OffersStart == Init => OfferInv
<1> SUFFICES ASSUME Init PROVE OfferInv
  OBVIOUS
<1>1. /\ \A t \in Transfers : transfers[t] = NoTransfer
      /\ \A o \in Offers : offers[o] = NoOffer
  BY DEF Init
<1>2. QED
  BY <1>1, Zenon DEF OfferInv, OffersKnown

LEMMA OfferStepKeeps ==
  ASSUME TypeOK, OfferInv, OfferNext
  PROVE  OfferInv'
<1>1. UNCHANGED transfers
  BY DEF OfferNext, CreateShareOffer, PatchShareOffer
<1>2. ASSUME NEW o \in Offers PROVE Taken(o)' = Taken(o)
  <2>1. Fills(o)' = Fills(o)
    BY <1>1 DEF Fills, Approved
  <2>2. QED
    BY <1>1, <2>1, TakenSame
<1>3. ASSUME NEW o \in Offers
      PROVE  /\ offers[o] # NoOffer => offers'[o] # NoOffer
             /\ offers'[o] # NoOffer => Kept(offers'[o], Taken(o))
  <2>1. offers[o] # NoOffer => Kept(offers[o], Taken(o)) /\ offers[o] \in Offer
    BY DEF OfferInv, TypeOK
  <2>2. CASE offers'[o] = offers[o]
    BY <2>1, <2>2
  <2>3. ASSUME NEW side, NEW seller, NEW buyer, NEW units \in IssueSizes,
               NEW price, NEW until,
               CreateShareOffer(o, side, seller, buyer, units, price, until)
        PROVE  <1>3!2
    <3>1. /\ offers[o] = NoOffer
          /\ offers'[o] = [status |-> "open", seller |-> seller, buyer |-> buyer,
                           units |-> units, remaining |-> units, price |-> price,
                           until |-> until]
      BY <2>3 DEF CreateShareOffer, TypeOK
    <3>2. Fills(o) = {}
      <4>1. ASSUME NEW t \in Transfers, transfers[t].status = "approved",
                   transfers[t].offer = o
            PROVE  FALSE
        <5>1. transfers[t] # NoTransfer /\ o # None
          BY <4>1, TransferConstants DEF NoTransfer
        <5>2. QED
          BY <3>1, <4>1, <5>1 DEF OfferInv, OffersKnown
      <4>2. QED
        BY <4>1 DEF Fills, Approved
    <3>3. Taken(o) = 0
      BY <3>2, SumOfNone DEF Taken
    <3>4. units \in Nat \ {0}
      BY RegisterAssumption
    <3>5. offers'[o] # NoOffer
      <4>1. offers'[o].status = "open"
        BY <3>1
      <4>2. QED
        BY <4>1 DEF NoOffer
    <3>6. QED
      BY <3>1, <3>3, <3>4, <3>5 DEF Kept
  <2>4. ASSUME NEW price, NEW until, NEW cancel \in BOOLEAN,
               PatchShareOffer(o, price, until, cancel)
        PROVE  <1>3!2
    <3>1. offers[o] # NoOffer /\ offers[o].status \in {"open", "partially_filled"}
      BY <2>4 DEF PatchShareOffer, OfferLive, NoOffer
    <3>2. offers[o] \in Offer /\ Kept(offers[o], Taken(o))
      BY <2>1, <3>1
    <3>3. /\ offers'[o].units = offers[o].units
          /\ offers'[o].remaining = offers[o].remaining
          /\ offers'[o].status \in {"cancelled", offers[o].status}
      BY <2>4, <3>2 DEF PatchShareOffer, TypeOK, Offer
    <3>4. offers'[o] # NoOffer
      <4>1. offers'[o].status # "none"
        BY <3>1, <3>3
      <4>2. QED
        BY <4>1 DEF NoOffer
    <3>5. QED
      BY <3>1, <3>2, <3>3, <3>4 DEF Kept
  <2>5. QED
    <3>1. PICK q \in Offers, price \in Prices, until \in Days :
             \/ \E side \in {"sell", "buy"}, seller, buyer \in Holders \cup {None},
                   units \in IssueSizes :
                   CreateShareOffer(q, side, seller, buyer, units, price, until)
             \/ \E cancel \in BOOLEAN : PatchShareOffer(q, price, until, cancel)
      BY DEF OfferNext
    <3>2. q # o => offers'[o] = offers[o]
      BY <3>1 DEF CreateShareOffer, PatchShareOffer, TypeOK
    <3>3. QED
      BY <2>2, <2>3, <2>4, <3>1, <3>2
<1>4. OffersKnown'
  <2>1. ASSUME NEW t \in Transfers, transfers[t] # NoTransfer,
               transfers[t].offer # None
        PROVE  offers'[transfers[t].offer] # NoOffer
    <3>1. transfers[t].offer \in Offers
      BY <2>1 DEF TypeOK, Transfer
    <3>2. QED
      BY <1>3, <2>1, <3>1 DEF OfferInv, OffersKnown
  <2>2. QED
    BY <1>1, <2>1 DEF OffersKnown
<1>5. QED
  BY <1>2, <1>3, <1>4 DEF OfferInv

\* A step that makes or changes one transfer, not approved before or after,
\* and names an offer that is there.
QuietStep(t) ==
    /\ UNCHANGED offers
    /\ \A other \in Transfers \ {t} : transfers'[other] = transfers[other]
    /\ transfers[t].status # "approved" /\ transfers'[t].status # "approved"
    /\ transfers'[t].offer # None => offers[transfers'[t].offer] # NoOffer

LEMMA QuietKeeps ==
  ASSUME OfferInv, NEW t \in Transfers, QuietStep(t)
  PROVE  OfferInv'
<1>1. ASSUME NEW o \in Offers PROVE Taken(o)' = Taken(o)
  <2>1. /\ Fills(o)' = Fills(o)
        /\ \A s \in Fills(o) : transfers'[s] = transfers[s]
    BY DEF Fills, Approved, QuietStep
  <2>2. QED
    BY <2>1, TakenSame
<1>2. OffersKnown'
  BY DEF OfferInv, OffersKnown, QuietStep
<1>3. UNCHANGED offers
  BY DEF QuietStep
<1>4. QED
  BY <1>1, <1>2, <1>3 DEF OfferInv

LEMMA DraftsAreQuiet ==
  ASSUME Inv, OfferInv, DraftNext \/ ReviewNext
  PROVE  \E t \in Transfers : QuietStep(t)
<1>1. ASSUME NEW t \in Transfers, NEW u \in Users, NEW r \in Resolutions \cup {None},
             NEW p \in Payments \cup {None}, NEW deal \in Deals,
             NEW o \in Offers \cup {None}, NEW status \in {"draft", "pending"},
             CreateShareTransfer(t, u, deal, o, r, p, status)
      PROVE  QuietStep(t)
  <2>1. DraftStep(t, r, p)
    BY <1>1, CreateIsDraftStep
  <2>2. transfers'[t].offer = o /\ UNCHANGED offers
    BY <1>1 DEF CreateShareTransfer, Inv, TypeOK
  <2>3. o # None => offers[o] # NoOffer
    BY <1>1 DEF CreateShareTransfer, OfferMatches
  <2>4. QED
    BY <2>1, <2>2, <2>3 DEF QuietStep, DraftStep
<1>2. ASSUME NEW t \in Transfers, transfers[t] \in Transfer,
             transfers'[t].offer = transfers[t].offer
      PROVE  transfers'[t].offer # None => offers[transfers'[t].offer] # NoOffer
  <2>1. transfers[t] # NoTransfer
    BY <1>2 DEF Transfer, NoTransfer, TransferStatuses
  <2>2. QED
    BY <1>2, <2>1 DEF OfferInv, OffersKnown
<1>3. ASSUME NEW t \in Transfers, NEW u \in Users, NEW r \in Resolutions \cup {None},
             NEW p \in Payments \cup {None}, NEW edited \in BOOLEAN,
             NEW next \in {"draft", "pending", "cancelled"},
             PatchDraft(t, u, edited, r, p, next)
      PROVE  QuietStep(t)
  <2>1. DraftStep(t, r, p)
    BY <1>3, PatchIsDraftStep
  <2>2. transfers[t] \in Transfer /\ UNCHANGED offers
    BY <1>3 DEF PatchDraft, Inv, TypeOK, NoTransfer
  <2>3. transfers'[t].offer = transfers[t].offer
    BY <1>3, <2>2 DEF PatchDraft, Inv, TypeOK, Transfer
  <2>4. QED
    BY <1>2, <2>1, <2>2, <2>3 DEF QuietStep, DraftStep
<1>4. ASSUME NEW t \in Transfers, NEW next \in {"rejected", "cancelled"},
             CloseTransfer(t, next)
      PROVE  QuietStep(t)
  <2>1. DraftStep(t, None, None)
    BY <1>4, CloseIsDraftStep
  <2>2. transfers[t] \in Transfer /\ UNCHANGED offers
    BY <1>4 DEF CloseTransfer, Inv, TypeOK, NoTransfer
  <2>3. transfers'[t].offer = transfers[t].offer
    BY <1>4, <2>2 DEF CloseTransfer, Inv, TypeOK, Transfer
  <2>4. QED
    BY <1>2, <2>1, <2>2, <2>3 DEF QuietStep, DraftStep
<1>5. CASE DraftNext
  <2>1. PICK t \in Transfers, u \in Users, r \in Resolutions \cup {None},
             p \in Payments \cup {None} :
          \/ \E deal \in Deals, o \in Offers \cup {None},
                status \in {"draft", "pending"} :
                CreateShareTransfer(t, u, deal, o, r, p, status)
          \/ \E edited \in BOOLEAN, next \in {"draft", "pending", "cancelled"} :
                PatchDraft(t, u, edited, r, p, next)
    BY <1>5 DEF DraftNext
  <2>2. QuietStep(t)
    BY <1>1, <1>3, <2>1
  <2>3. QED
    BY <2>2
<1>6. CASE ReviewNext
  BY <1>4, <1>6, Zenon DEF ReviewNext
<1>7. QED
  BY <1>5, <1>6

\* An approval takes the units of its deal from its offer, and from no other.
LEMMA ApprovalTakes ==
  ASSUME Inv, Inv', OfferInv, NEW t \in Transfers, NEW u \in Users,
         ApproveShareTransfer(t, u)
  PROVE  OfferInv'
<1> DEFINE T == transfers[t]
           n == T.deal.units
<1>1. /\ T \in Transfer /\ T.status = "pending"
      /\ transfers'[t].status = "approved"
      /\ transfers'[t].deal = T.deal /\ transfers'[t].offer = T.offer
      /\ \A other \in Transfers \ {t} : transfers'[other] = transfers[other]
  <2>1. /\ T \in Transfer /\ T.status = "pending"
        /\ transfers'[t] = [T EXCEPT !.status = "approved",
                                     !.approver = IF governed THEN u ELSE T.approver]
        /\ \A other \in Transfers \ {t} : transfers'[other] = transfers[other]
    BY ApprovalStep DEF Inv
  <2>2. QED
    BY <2>1 DEF Transfer
<1>2. /\ T # NoTransfer /\ n \in Nat \ {0}
      /\ T.offer # None => T.offer \in Offers
      /\ None \notin Offers
  BY <1>1, TransferConstants DEF Transfer, NoTransfer
<1>3. ASSUME NEW q \in Offers, q # T.offer PROVE Taken(q)' = Taken(q)
  <2>1. /\ Fills(q)' = Fills(q)
        /\ \A s \in Fills(q) : transfers'[s] = transfers[s]
    BY <1>1, <1>3 DEF Fills, Approved
  <2>2. QED
    BY <2>1, TakenSame
<1>4. ASSUME NEW o \in Offers, o = T.offer
      PROVE  Taken(o)' = Taken(o) + n
  <2> DEFINE S == Fills(o)
             S1 == S \cup {t}
             f == [s \in S |-> transfers[s].deal.units]
             g == [s \in S1 |-> transfers'[s].deal.units]
  <2>2. Fills(o)' = S1 /\ t \notin S /\ t \in S1
    BY <1>1, <1>4 DEF Fills, Approved
  <2>3. /\ IsFiniteSet(S) /\ S \in SUBSET Transfers
        /\ \A s \in S : transfers[s].deal.units \in Nat
    BY FillsAre DEF Inv
  <2>4. Taken(o) = SumFunctionOnSet(f, S)
    BY DEF Taken
  <2>5. Taken(o)' = SumFunctionOnSet(g, S1)
    <3>1. Taken(o)' = SumFunctionOnSet([s \in Fills(o)' |-> transfers'[s].deal.units],
                                       Fills(o)')
      BY Zenon DEF Taken
    <3>2. QED
      BY <2>2, <3>1
  <2>6. /\ \A s \in S : f[s] = g[s] /\ f[s] \in Int
        /\ g[t] = n /\ \A s \in S1 : g[s] \in Int
    <3>1. ASSUME NEW s \in S
          PROVE  f[s] = transfers[s].deal.units /\ g[s] = transfers[s].deal.units
      <4>1. s \in Transfers \ {t}
        BY <2>2, <2>3
      <4>2. transfers'[s] = transfers[s]
        BY <1>1, <4>1
      <4>3. QED
        BY <4>2
    <3>2. g[t] = n
      BY <1>1, <2>2
    <3> HIDE DEF f, g
    <3>3. QED
      BY <1>2, <2>3, <3>1, <3>2
  <2> HIDE DEF S, S1, f, g
  <2>7. SumFunctionOnSet(f, S) = SumFunctionOnSet(g, S) /\ SumFunctionOnSet(f, S) \in Int
    BY <2>3, <2>6, SumSame, SumIsInt
  <2>8. SumFunctionOnSet(g, S \cup {t}) = g[t] + SumFunctionOnSet(g, S)
    BY <2>2, <2>3, <2>6, SumAdd DEF S1
  <2>9. QED
    BY <1>2, <2>4, <2>5, <2>6, <2>7, <2>8 DEF S1
<1>5. ASSUME NEW q \in Offers, offers'[q] # NoOffer
      PROVE  Kept(offers'[q], Taken(q)')
  <2>1. CASE q # T.offer
    <3>1. offers'[q] = offers[q]
      BY <2>1 DEF ApproveShareTransfer, Inv, TypeOK
    <3>2. QED
      BY <1>3, <1>5, <2>1, <3>1 DEF OfferInv
  <2>2. CASE q = T.offer
    <3>1. /\ offers[q] \in Offer /\ n <= offers[q].remaining
          /\ offers'[q] = AfterFill(offers[q], n)
      BY <1>2, <2>2 DEF ApproveShareTransfer, OfferCovers, OpenFor, OfferLive,
                        NoOffer, Inv, TypeOK
    <3>2. offers[q] # NoOffer
      BY <3>1 DEF Offer, NoOffer
    <3>3. Kept(offers[q], Taken(q)) /\ Taken(q) \in Int
      BY <3>2, FillsAre, SumIsInt DEF OfferInv, Taken, Inv
    <3>4. /\ offers'[q].units = offers[q].units
          /\ offers'[q].remaining = offers[q].remaining - n
          /\ offers'[q].status = IF offers[q].remaining = n
                                 THEN "filled" ELSE "partially_filled"
      BY <3>1 DEF AfterFill, Offer
    <3>5. /\ offers[q].units \in Nat /\ offers[q].remaining \in Nat
      BY <3>1, RegisterAssumption DEF Offer
    <3>6. Taken(q)' = Taken(q) + n
      BY <1>2, <1>4, <2>2
    <3>7. QED
      BY <1>2, <3>3, <3>4, <3>5, <3>6 DEF Kept
  <2>3. QED
    BY <2>1, <2>2
<1>6. ASSUME NEW q \in Offers, offers[q] # NoOffer PROVE offers'[q] # NoOffer
  <2>1. CASE q # T.offer
    BY <1>6, <2>1 DEF ApproveShareTransfer, Inv, TypeOK
  <2>2. CASE q = T.offer
    <3>1. offers[q] \in Offer /\ offers'[q] = AfterFill(offers[q], n)
      BY <1>2, <1>6, <2>2 DEF ApproveShareTransfer, Inv, TypeOK
    <3>2. offers'[q].status \in {"filled", "partially_filled"}
      BY <3>1 DEF AfterFill, Offer
    <3>3. QED
      BY <3>2 DEF NoOffer
  <2>3. QED
    BY <2>1, <2>2
<1>7. OffersKnown'
  <2>1. ASSUME NEW s \in Transfers, transfers'[s] # NoTransfer,
               transfers'[s].offer # None
        PROVE  offers'[transfers'[s].offer] # NoOffer
    <3>1. transfers[s] # NoTransfer /\ transfers'[s].offer = transfers[s].offer
      BY <1>1, <1>2, <2>1
    <3>2. transfers[s].offer \in Offers
      BY <2>1, <3>1 DEF Inv, TypeOK, Transfer
    <3>3. QED
      BY <1>6, <2>1, <3>1, <3>2 DEF OfferInv, OffersKnown
  <2>2. QED
    BY <2>1 DEF OffersKnown
<1>8. QED
  BY <1>5, <1>7 DEF OfferInv

LEMMA OfferInvStep ==
  ASSUME Inv, OfferInv, [Next]_vars
  PROVE  OfferInv'
<1>1. Inv'
  BY InvStep
<1>2. CASE UNCHANGED <<transfers, offers>>
  BY <1>2, Zenon DEF OfferInv, OffersKnown, Taken, Fills, Approved
<1>3. CASE OfferNext
  BY <1>3, OfferStepKeeps DEF Inv
<1>4. CASE DraftNext \/ ReviewNext
  BY <1>4, DraftsAreQuiet, QuietKeeps
<1>5. ASSUME NEW t \in Transfers, NEW u \in Users, ApproveShareTransfer(t, u)
      PROVE  OfferInv'
  BY <1>1, <1>5, ApprovalTakes
<1>6. PaymentNext => UNCHANGED <<transfers, offers>>
  BY DEF PaymentNext, CreatePayment, ConfirmPayment
<1>7. QED
  BY <1>2, <1>3, <1>4, <1>5, <1>6
     DEF Next, ClearanceChanges, Tomorrow, transferVars, vars

\* What remains of an offer is what the approved transfers left, and an offer
\* is never oversold, for any number of offers and transfers drafted on them.
THEOREM OffersAreSound == Spec => []OfferAddsUp
<1>1. Init => Inv /\ OfferInv
  BY InvInit, OffersStart
<1>2. Inv /\ OfferInv /\ [Next]_vars => Inv' /\ OfferInv'
  BY InvStep, OfferInvStep
<1>3. Inv /\ OfferInv => OfferAddsUp
  <2> SUFFICES ASSUME Inv, OfferInv, NEW o \in Offers, offers[o] # NoOffer
               PROVE  /\ Taken(o) <= offers[o].units
                      /\ offers[o].remaining = offers[o].units - Taken(o)
                      /\ offers[o].status = "filled" <=> offers[o].remaining = 0
                      /\ offers[o].status = "open" => Taken(o) = 0
    BY Zenon DEF OfferAddsUp, Taken
  <2>1. Kept(offers[o], Taken(o))
    BY DEF OfferInv
  <2>2. offers[o].remaining \in Nat /\ offers[o].units \in Nat
    BY RegisterAssumption DEF Inv, TypeOK, Offer
  <2>3. Taken(o) \in Int
    BY FillsAre, SumIsInt DEF Taken, Inv
  <2>4. QED
    BY <2>1, <2>2, <2>3 DEF Kept
<1>4. QED
  BY <1>1, <1>2, <1>3, PTL DEF Spec
=============================================================================
