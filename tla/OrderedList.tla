----------------------------- MODULE OrderedList -----------------------------
(***************************************************************************)
(* What the ordered needs of a project promise: a list without repetition  *)
(* that gains an element at a position, loses one, or is put in another    *)
(* order.                                                                  *)
(***************************************************************************)
EXTENDS SequencesExt

CONSTANT Elements

VARIABLE list

Init == list = <<>>

Insert(x, i) ==
    /\ x \notin ToSet(list)
    /\ list' = InsertAt(list, i, x)

Delete(i) == list' = RemoveAt(list, i)

Rearrange(s) ==
    /\ IsInjective(s)
    /\ ToSet(s) = ToSet(list)
    /\ list' = s

Next ==
    \/ \E x \in Elements, i \in 1 .. Len(list) + 1 : Insert(x, i)
    \/ \E i \in DOMAIN list : Delete(i)
    \/ \E s \in [DOMAIN list -> ToSet(list)] : Rearrange(s)

Spec == Init /\ [][Next]_list
=============================================================================
