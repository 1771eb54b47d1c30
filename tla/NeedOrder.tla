------------------------------ MODULE NeedOrder ------------------------------
(***************************************************************************)
(* The order of a project's cooperation needs (src/store.js).  Every need  *)
(* carries its position as a number; each operation shifts the numbers of  *)
(* the other active needs with range updates, in one transaction.  An      *)
(* archived need keeps the number it had.  Titles, descriptions and        *)
(* timestamps are left out.                                                *)
(***************************************************************************)
EXTENDS Integers, FiniteSets, FiniteSetsExt, SequencesExt

CONSTANTS
    Needs,       \* the ids of needs
    ActiveLimit, \* the most active needs a project may have
    MaxOrderNo   \* the highest position a request may ask for

ASSUME NeedOrderAssumption ==
    /\ IsFiniteSet(Needs)
    /\ ActiveLimit \in Nat \ {0}
    /\ MaxOrderNo \in Nat \ {0}

VARIABLES
    active,    \* the needs that are not archived
    archived,
    order_no   \* order_no[n]: the position of n; 0 before n exists

needVars == <<active, archived, order_no>>

Positions == 1 .. MaxOrderNo

NeedInit ==
    /\ active = {}
    /\ archived = {}
    /\ order_no = [n \in Needs |-> 0]

-----------------------------------------------------------------------------
Shifted(moved, by) ==
    [n \in Needs |-> IF n \in moved THEN order_no[n] + by ELSE order_no[n]]

NextOrder == Max({0} \cup {order_no[n] : n \in active}) + 1

\* Mutant: only the needs behind the new one make room for it.
FromPositionExclusive(selected) == {m \in active : order_no[m] > selected}
FromPosition(selected) == {m \in active : order_no[m] >= selected}

\* A request without a position asks for a position past the end.
CreateNeed(n, wanted) ==
    LET selected == Min({wanted, NextOrder}) IN
    /\ n \notin active \cup archived
    /\ Cardinality(active) < ActiveLimit
    /\ order_no' =
           [Shifted(FromPosition(selected), 1) EXCEPT ![n] = selected]
    /\ active' = active \cup {n}
    /\ UNCHANGED archived

MoveUp(n, selected) ==
    LET moved == {m \in active : order_no[m] \in selected .. order_no[n] - 1}
    IN  order_no' = [Shifted(moved, 1) EXCEPT ![n] = selected]

\* Mutant: the need at the new position is not moved.
MoveDownShort(n, selected) ==
    LET moved == {m \in active : order_no[m] \in order_no[n] + 1 .. selected - 1}
    IN  order_no' = [Shifted(moved, -1) EXCEPT ![n] = selected]
MoveDown(n, selected) ==
    LET moved == {m \in active : order_no[m] \in order_no[n] + 1 .. selected}
    IN  order_no' = [Shifted(moved, -1) EXCEPT ![n] = selected]

UpdateNeed(n, wanted) ==
    LET selected == Min({wanted, Cardinality(active)}) IN
    /\ n \in active
    /\ wanted # order_no[n]
    /\ IF selected < order_no[n] THEN MoveUp(n, selected)
                                 ELSE MoveDown(n, selected)
    /\ UNCHANGED <<active, archived>>

ArchiveNeed(n) ==
    LET moved == {m \in active \ {n} : order_no[m] > order_no[n]} IN
    /\ n \in active
    /\ active' = active \ {n}
    /\ archived' = archived \cup {n}
    /\ order_no' = Shifted(moved, -1)

\* Mutant: the ids are distinct and as many as the active needs.
ValidOrderByCount(ids) == IsInjective(ids) /\ Len(ids) = Cardinality(active)
\* The request must list every active need once.
ValidOrder(ids) ==
    /\ IsInjective(ids)
    /\ Len(ids) = Cardinality(active)
    /\ active \subseteq ToSet(ids)

ReorderNeeds(ids) ==
    /\ ValidOrder(ids)
    /\ order_no' = [n \in Needs |->
           IF n \in ToSet(ids) THEN CHOOSE i \in DOMAIN ids : ids[i] = n
                               ELSE order_no[n]]
    /\ UNCHANGED <<active, archived>>

Requests == [1 .. Cardinality(active) -> active \cup archived]

NeedNext ==
    \/ \E n \in Needs, wanted \in Positions :
          CreateNeed(n, wanted) \/ UpdateNeed(n, wanted)
    \/ \E n \in Needs : ArchiveNeed(n)
    \/ \E ids \in Requests : ReorderNeeds(ids)

NeedSpec == NeedInit /\ [][NeedNext]_needVars

-----------------------------------------------------------------------------
\* The active needs are numbered 1, 2, ... without repetition, which is what
\* makes a position a request asks for, and the count it is capped by, mean
\* anything.
DenseOrder ==
    {order_no[n] : n \in active} = 1 .. Cardinality(active)

\* The needs as the project page lists them (ORDER BY order_no); when the
\* numbers are not those of places, what no list of needs is.
List ==
    IF DenseOrder
    THEN [i \in 1 .. Cardinality(active) |-> CHOOSE n \in active : order_no[n] = i]
    ELSE <<"torn">>

Ordered == INSTANCE OrderedList WITH Elements <- Needs, list <- List

\* However the numbers are shifted, they are those of places, and what a
\* reader sees is a list that gains a need at one place, loses one, or is
\* rearranged: no need is lost, repeated or displaced by an operation on
\* another one.
ImplementsOrderedList == Ordered!Spec
=============================================================================
