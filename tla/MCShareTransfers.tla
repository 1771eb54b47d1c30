-------------------------- MODULE MCShareTransfers --------------------------
(* Two holders and sales of one or two units at one a unit: transfers that   *)
(* compete for their evidence, and transfers against an offer, one at a time. *)
EXTENDS ShareTransfers, TLC

CONSTANTS h1, h2

VARIABLE part

Sale(units) == [from |-> h1, to |-> h2, units |-> units, price |-> units]

Sales == {Sale(1), Sale(2)}
OneUnit == [r \in Resolutions |-> Sale(1)]

Symmetric == Permutations(Transfers) \cup Permutations(Resolutions)
                \cup Permutations(Users)

\* Bound: one transfer is dropped.
DropFocused ==
    Cardinality({t \in Transfers : transfers[t].status \in {"rejected", "cancelled"}}) <= 1

\* Bound: no offers; sales of one unit of a class of two, which h1 is given, on
\* one day; no resolution is bound beside one that was rejected.
EvidenceFocused ==
    /\ holding[h2] <= Cardinality(Approved)
    /\ (\E r \in Resolutions : votes[r] = "rejected") =>
           bound = [r \in Resolutions |-> None]
    /\ \A p \in Payments : payments[p].amount <= 1
    /\ \A t \in Transfers : transfers[t] = NoTransfer \/ transfers[t].deal = Sale(1)

\* Bound: the organisation has no owner yet, so that transfers need no evidence,
\* and name none; nothing is voted on or paid; an offer is of one side, that of
\* h1 to sell, of h2 to buy, or of h2 to sell, which no sale matches.
OffersFocused ==
    /\ \A o \in Offers : offers[o] = NoOffer \/
           <<offers[o].seller, offers[o].buyer>> \in
               {<<h1, None>>, <<None, h2>>, <<h2, None>>}
    /\ \A t \in Transfers : transfers[t] = NoTransfer \/ transfers[t].resolution = None

TransferInit ==
    /\ Init
    /\ \/ part = "evidence" /\ authorized = 2
       \/ part = "offers" /\ authorized = 4

\* What does not change comes first, to be decided early.
TransferNext ==
    /\ UNCHANGED <<part, authorized>>
    /\ \/ /\ part = "evidence"
          /\ UNCHANGED <<offers, today>>
          /\ Next
          /\ EvidenceFocused'
       \/ /\ part = "offers"
          /\ UNCHANGED <<governed, votes, payments>>
          /\ Next
          /\ OffersFocused'
    /\ DropFocused'

TransferSpec == TransferInit /\ [][TransferNext]_<<part, vars>>
=============================================================================
