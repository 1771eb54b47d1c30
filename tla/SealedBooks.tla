---------------------------- MODULE SealedBooks ----------------------------
(***************************************************************************)
(* What a double-entry ledger with fiscal periods promises: postings are   *)
(* only ever added, each to a period that is open at that moment, and a    *)
(* period may be opened and sealed at will without touching a posting.     *)
(***************************************************************************)
CONSTANT Periods

VARIABLES
    book,  \* book[p]: the postings of period p
    open   \* periods that accept postings

Init ==
    /\ book = [p \in Periods |-> {}]
    /\ open \subseteq Periods

Post(p) ==
    /\ p \in open
    /\ book[p] \subseteq book'[p]
    /\ book' = [book EXCEPT ![p] = book'[p]]
    /\ UNCHANGED open

SetOpen(open2) ==
    /\ open' = open2
    /\ UNCHANGED book

Next ==
    \/ \E p \in Periods : Post(p)
    \/ \E open2 \in SUBSET Periods : SetOpen(open2)

Spec == Init /\ [][Next]_<<book, open>>
=============================================================================
