--------------------------- MODULE OwnershipLedger ---------------------------
(***************************************************************************)
(* What a share register promises: units appear when they are issued, and  *)
(* afterwards only change hands, by transfers of which each moves its      *)
(* units once, from a holder who has them to another.                      *)
(***************************************************************************)
EXTENDS Integers

CONSTANTS
    Holders,
    Transfers,
    Sizes      \* how many units are issued or moved at once

VARIABLES
    units,  \* units[h]: units of h
    moved   \* transfers that moved theirs

vars == <<units, moved>>

Init ==
    /\ units = [h \in Holders |-> 0]
    /\ moved = {}

Issue(h, n) ==
    /\ units' = [units EXCEPT ![h] = @ + n]
    /\ UNCHANGED moved

Move(t, seller, buyer, n) ==
    /\ seller # buyer
    /\ n <= units[seller]
    /\ t \notin moved
    /\ units' = [units EXCEPT ![seller] = @ - n, ![buyer] = @ + n]
    /\ moved' = moved \cup {t}

Next ==
    \/ \E h \in Holders, n \in Sizes : Issue(h, n)
    \/ \E t \in Transfers, seller, buyer \in Holders, n \in Sizes :
          Move(t, seller, buyer, n)

Spec == Init /\ [][Next]_vars
=============================================================================
