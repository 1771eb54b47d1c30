--------------------------- MODULE ShareTransfers ---------------------------
(***************************************************************************)
(* Offers and transfers of shares (src/platform-store.js).  A transfer is  *)
(* drafted, submitted with its evidence by its maker, and approved by      *)
(* someone else, which moves the units.  Once the organisation is governed *)
(* a resolution and, for a price, a payment are bound to the transfer for  *)
(* good.  Every operation is one IMMEDIATE transaction, so that one that   *)
(* fails leaves nothing.                                                   *)
(*                                                                         *)
(* The identity cases and the contract of a transfer are one set: the      *)
(* holders that are cleared to trade.  The receipts that answer a repeated *)
(* request are left out.                                                   *)
(***************************************************************************)
EXTENDS ShareRegister

CONSTANTS
    Transfers,  \* transfers that may be made
    Offers,     \* offers that may be made
    Payments,   \* payment intents
    Users,      \* active members with a session
    Deals,      \* [from, to, units, price] of the transfers
    Scope,      \* Scope[r]: the deal that resolution r allows
    Prices,     \* unit prices of offers
    LastDay     \* bound on the days

ASSUME TransferAssumption ==
    /\ Deals \subseteq [from : Holders, to : Holders, units : Nat \ {0},
                        price : Nat]
    /\ Scope \in [Resolutions -> Deals]
    /\ Prices \subseteq Nat
    /\ LastDay \in Nat \ {0}
    /\ IsFiniteSet(Transfers)
    /\ None \notin Transfers \cup Offers \cup Payments \cup Users

Days == 1 .. LastDay

VARIABLES
    transfers, \* transfers[t]: NoTransfer, or the transfer
    offers,    \* offers[o]: NoOffer, or the offer
    payments,  \* payments[p]: status, amount and the transfer it is bound to
    bound,     \* bound[r]: the transfer resolution r is bound to, or None
    consumed,  \* resolutions that were consumed
    cleared,   \* holders with a valid identity case and an active contract
    today

transferVars ==
    <<transfers, offers, payments, bound, consumed, cleared, today>>
vars == <<registerVars, transferVars>>

TransferStatuses == {"draft", "pending", "approved", "rejected", "cancelled"}
Transfer == [status : TransferStatuses, deal : Deals,
             offer : Offers \cup {None}, resolution : Resolutions \cup {None},
             payment : Payments \cup {None}, maker : Users \cup {None},
             approver : Users \cup {None}]
NoTransfer == [status |-> "none"]

Offer == [status : {"open", "partially_filled", "filled", "cancelled"},
          seller : Holders \cup {None}, buyer : Holders \cup {None},
          units : IssueSizes, remaining : Nat, price : Prices, until : Days]
NoOffer == [status |-> "none"]

Payment == [status : {"none", "pending", "succeeded"}, amount : Nat,
            purpose : Transfers \cup {None}]
NoPayment == [status |-> "none", amount |-> 0, purpose |-> None]

Init ==
    /\ RegisterInit
    /\ transfers = [t \in Transfers |-> NoTransfer]
    /\ offers = [o \in Offers |-> NoOffer]
    /\ payments = [p \in Payments |-> NoPayment]
    /\ bound = [r \in Resolutions |-> None]
    /\ consumed = {}
    /\ cleared = Holders
    /\ today = 1

-----------------------------------------------------------------------------
\* Offers.

OfferLive(o) == offers[o].status \in {"open", "partially_filled"}

\* A sell offer is checked against the units of the seller, a buy offer not.
CreateShareOffer(o, side, seller, buyer, units, price, until) ==
    /\ offers[o] = NoOffer
    /\ {seller, buyer} \subseteq members \cup {None}
    /\ side = "sell" => seller # None /\ holding[seller] >= units
    /\ side = "buy" => buyer # None
    /\ until >= today
    /\ offers' = [offers EXCEPT ![o] =
           [status |-> "open", seller |-> seller, buyer |-> buyer,
            units |-> units, remaining |-> units, price |-> price,
            until |-> until]]
    /\ UNCHANGED <<transfers, payments, bound, consumed, cleared, today>>

PatchShareOffer(o, price, until, cancel) ==
    /\ OfferLive(o)
    /\ ~cancel => until >= today
    /\ offers' = [offers EXCEPT ![o].price = price, ![o].until = until,
                  ![o].status = IF cancel THEN "cancelled" ELSE @]
    /\ UNCHANGED <<transfers, payments, bound, consumed, cleared, today>>

\* Mutant: the remaining units are not looked at again.
OpenFor(o, deal) ==
    /\ OfferLive(o)
    /\ offers[o].until >= today
    /\ deal.price = offers[o].price * deal.units

\* The offer is live and still covers the deal at its price.
OfferCovers(o, deal) ==
    /\ OpenFor(o, deal)
    /\ deal.units <= offers[o].remaining

OfferMatches(o, deal) ==
    /\ offers[o] # NoOffer
    /\ offers[o].seller \in {None, deal.from}
    /\ offers[o].buyer \in {None, deal.to}

AfterFill(offer, units) ==
    [offer EXCEPT !.remaining = @ - units,
                  !.status = IF offer.remaining = units
                             THEN "filled" ELSE "partially_filled"]
-----------------------------------------------------------------------------
\* Evidence.

\* A resolution is bound to one transfer, and a transfer to one resolution.
ResolutionFree(r, t) ==
    \/ bound[r] = t
    \/ bound[r] = None /\ \A other \in Resolutions : bound[other] # t

\* requireApprovedTransferResolution, when it may bind.
CanBind(r, t, deal) ==
    /\ votes[r] = "approved"
    /\ Scope[r] = deal
    /\ ResolutionFree(r, t)
    /\ r \notin consumed

\* bindTransferPayment: the purpose of a payment never changes, and only one
\* payment has a transfer as its purpose.
CanFund(p, t, deal) ==
    /\ deal.price > 0
    /\ payments[p].status # "none"
    /\ payments[p].amount = deal.price
    /\ \/ payments[p].purpose = t
       \/ /\ payments[p].purpose = None
          /\ \A other \in Payments : payments[other].purpose # t

Cleared(deal) == {deal.from, deal.to} \subseteq cleared

\* What governed review needs before it starts.
Documented(r, p, deal) ==
    /\ r # None
    /\ deal.price > 0 => p # None
    /\ Cleared(deal)

BindResolution(r, t, deal) ==
    /\ CanBind(r, t, deal)
    /\ bound' = [bound EXCEPT ![r] = t]

BindPayment(p, t, deal) ==
    /\ CanFund(p, t, deal)
    /\ payments' = [payments EXCEPT ![p].purpose = t]

\* createPaymentIntent: an incoming payment without an invoice, for any
\* purpose or for a transfer in draft.
CreatePayment(p, amount, t) ==
    /\ payments[p].status = "none"
    /\ amount > 0
    /\ t # None =>
          /\ transfers[t].status = "draft"
          /\ transfers[t].deal.price = amount
          /\ \A other \in Payments : payments[other].purpose # t
    /\ payments' = [payments EXCEPT ![p] =
           [status |-> "pending", amount |-> amount, purpose |-> t]]
    /\ UNCHANGED <<transfers, offers, bound, consumed, cleared, today>>

ConfirmPayment(p) ==
    /\ payments[p].status = "pending"
    /\ payments' = [payments EXCEPT ![p].status = "succeeded"]
    /\ UNCHANGED <<transfers, offers, bound, consumed, cleared, today>>
-----------------------------------------------------------------------------
\* Transfers.

CreateShareTransfer(t, u, deal, o, r, p, status) ==
    /\ transfers[t] = NoTransfer
    /\ deal.from # deal.to
    /\ {deal.from, deal.to} \subseteq members
    /\ o # None => OfferMatches(o, deal) /\ OfferCovers(o, deal)
    /\ governed /\ status = "pending" => Documented(r, p, deal)
    /\ IF governed /\ r # None THEN BindResolution(r, t, deal)
       ELSE UNCHANGED bound
    /\ IF p # None THEN BindPayment(p, t, deal) ELSE UNCHANGED payments
    /\ transfers' = [transfers EXCEPT ![t] =
           [status |-> status, deal |-> deal, offer |-> o, resolution |-> r,
            payment |-> p, maker |-> IF governed THEN u ELSE None,
            approver |-> None]]
    /\ UNCHANGED <<offers, consumed, cleared, today>>

\* A change of a draft's evidence, its submission, or both; "edited" says that
\* the request names evidence, be it the same.
PatchDraft(t, u, edited, r, p, next) ==
    LET T == transfers[t]
        submitted == governed /\ next = "pending"
        made == governed /\ (edited \/ next = "pending")
    IN
    /\ T.status = "draft"
    /\ ~edited => r = T.resolution /\ p = T.payment
    /\ made => T.maker \in {None, u}
    /\ IF submitted
       THEN /\ Documented(r, p, T.deal)
            /\ BindResolution(r, t, T.deal)
            /\ IF p # None THEN BindPayment(p, t, T.deal)
               ELSE UNCHANGED payments
       ELSE UNCHANGED <<bound, payments>>
    /\ transfers' = [transfers EXCEPT
           ![t].status = next, ![t].resolution = r, ![t].payment = p,
           ![t].maker = IF made THEN u ELSE @]
    /\ UNCHANGED <<offers, consumed, cleared, today>>

CloseTransfer(t, next) ==
    /\ transfers[t].status = "pending"
    /\ transfers' = [transfers EXCEPT ![t].status = next]
    /\ UNCHANGED <<offers, payments, bound, consumed, cleared, today>>

FourEyes(t, u) == transfers[t].maker # u

\* Mutant: any approved resolution of the same scope will do.
ResolutionInScope(t) ==
    /\ transfers[t].resolution # None
    /\ votes[transfers[t].resolution] = "approved"
    /\ Scope[transfers[t].resolution] = transfers[t].deal

ResolutionConsumable(t) ==
    /\ ResolutionInScope(t)
    /\ bound[transfers[t].resolution] = t
    /\ transfers[t].resolution \notin consumed

\* requireTransferPayment
PaidFor(t) ==
    LET p == transfers[t].payment IN
    \/ transfers[t].deal.price = 0
    \/ /\ p # None
       /\ payments[p] = [status |-> "succeeded",
                         amount |-> transfers[t].deal.price, purpose |-> t]
       /\ \A other \in Transfers \ {t} :
             ~ (/\ transfers[other].status = "approved"
                /\ transfers[other].payment = p)

\* validateEnterpriseTransferCompliance
Compliant(t) ==
    /\ ResolutionConsumable(t)
    /\ Cleared(transfers[t].deal)
    /\ PaidFor(t)

HasUnits(deal) == holding[deal.from] >= deal.units

\* Mutant: an approval is not final.
Reapprovable(t) == transfers[t].status \in {"pending", "approved"}
Approvable(t) == transfers[t].status = "pending"

ApproveShareTransfer(t, u) ==
    LET T == transfers[t] IN
    /\ Approvable(t)
    /\ governed => FourEyes(t, u) /\ Compliant(t)
    /\ Unlocked
    /\ {T.deal.from, T.deal.to} \subseteq members
    /\ HasUnits(T.deal)
    /\ T.offer # None => OfferCovers(T.offer, T.deal)
    /\ consumed' = IF governed THEN consumed \cup {T.resolution} ELSE consumed
    /\ holding' = [holding EXCEPT ![T.deal.from] = @ - T.deal.units,
                                  ![T.deal.to] = @ + T.deal.units]
    /\ offers' = IF T.offer = None THEN offers
                 ELSE [offers EXCEPT ![T.offer] = AfterFill(@, T.deal.units)]
    /\ transfers' = [transfers EXCEPT
           ![t].status = "approved",
           ![t].approver = IF governed THEN u ELSE @]
    /\ UNCHANGED <<authorized, weight, members, votes, governed, certificates,
                   payments, bound, cleared, today>>
-----------------------------------------------------------------------------
\* The world around: identity cases and contracts come and go, days pass.

ClearanceChanges(h) ==
    /\ cleared' = (cleared \ {h}) \cup ({h} \ cleared)
    /\ UNCHANGED <<transfers, offers, payments, bound, consumed, today>>

Tomorrow ==
    /\ today < LastDay
    /\ today' = today + 1
    /\ UNCHANGED <<transfers, offers, payments, bound, consumed, cleared>>

\* What an operation asks of its offer or transfer comes first, to be decided
\* once.
OfferNext ==
    \E o \in Offers, price \in Prices, until \in Days :
       \/ /\ offers[o] = NoOffer
          /\ \E side \in {"sell", "buy"}, seller, buyer \in Holders \cup {None},
                units \in IssueSizes :
                CreateShareOffer(o, side, seller, buyer, units, price, until)
       \/ \E cancel \in BOOLEAN : PatchShareOffer(o, price, until, cancel)

PaymentNext ==
    \E p \in Payments :
       \/ \E deal \in Deals, t \in Transfers \cup {None} :
             CreatePayment(p, deal.price, t)
       \/ ConfirmPayment(p)

DraftNext ==
    \E t \in Transfers, u \in Users, r \in Resolutions \cup {None},
       p \in Payments \cup {None} :
       \/ /\ transfers[t] = NoTransfer
          /\ \E deal \in Deals, o \in Offers \cup {None},
                status \in {"draft", "pending"} :
                CreateShareTransfer(t, u, deal, o, r, p, status)
       \/ /\ transfers[t].status = "draft"
          /\ \E edited \in BOOLEAN, next \in {"draft", "pending", "cancelled"} :
                PatchDraft(t, u, edited, r, p, next)

ReviewNext ==
    \E t \in Transfers, next \in {"rejected", "cancelled"} :
       CloseTransfer(t, next)

Next ==
    \/ RegisterNext /\ UNCHANGED transferVars
    \/ /\ \/ OfferNext
          \/ PaymentNext
          \/ DraftNext
          \/ ReviewNext
          \/ \E h \in Leavers : ClearanceChanges(h)
          \/ Tomorrow
       /\ UNCHANGED registerVars
    \/ \E t \in Transfers, u \in Users : ApproveShareTransfer(t, u)

Spec == Init /\ [][Next]_vars

-----------------------------------------------------------------------------
(* Properties.                                                             *)

\* Types of the variables.
TypeOK ==
    /\ RegisterTypeOK
    /\ transfers \in [Transfers -> Transfer \cup {NoTransfer}]
    /\ offers \in [Offers -> Offer \cup {NoOffer}]
    /\ payments \in [Payments -> Payment]
    /\ bound \in [Resolutions -> Transfers \cup {None}]
    /\ consumed \in SUBSET Resolutions
    /\ cleared \in SUBSET Holders
    /\ today \in Days

Approved == {t \in Transfers : transfers[t].status = "approved"}
Fills(o) == {t \in Approved : transfers[t].offer = o}

\* An offer never sells more than it offers, however many transfers were
\* drafted against it: what remains is what the approved ones left, and it is
\* filled exactly when nothing does.
OfferAddsUp ==
    \A o \in Offers : offers[o] # NoOffer =>
        LET taken == SumFunctionOnSet(
                [t \in Fills(o) |-> transfers[t].deal.units], Fills(o))
        IN  /\ taken <= offers[o].units
            /\ offers[o].remaining = offers[o].units - taken
            /\ offers[o].status = "filled" <=> offers[o].remaining = 0
            /\ offers[o].status = "open" => taken = 0

Earned(t) ==
    LET T == transfers[t] IN
    /\ T.maker \notin {None, T.approver}
    /\ T.resolution \in consumed
    /\ bound[T.resolution] = t
    /\ Scope[T.resolution] = T.deal
    /\ T.deal.price > 0 =>
          /\ T.payment # None
          /\ payments[T.payment] = [status |-> "succeeded",
                                    amount |-> T.deal.price, purpose |-> t]

\* A transfer approved in a governed organisation was made and approved by two
\* people, one of whom submitted it; its resolution allowed exactly its deal
\* and was used for nothing else; and its payment succeeded, for the exact
\* price, bound to it alone.
ApprovalWasEarned ==
    \A t \in Approved : transfers[t].approver # None => Earned(t)

\* Every operation on shares implements the ownership ledger: units only move
\* between holders, whole, once per transfer.
Ownership == INSTANCE OwnershipLedger WITH
    units <- holding,
    moved <- Approved,
    Sizes <- IssueSizes \cup {deal.units : deal \in Deals}

ImplementsOwnership == Ownership!Spec
=============================================================================
