--------------------------- MODULE MCOutboxRolling ---------------------------
(* Two server processes on one database, as during a rolling restart. *)
EXTENDS NotificationOutbox, TLC

CONSTANTS w1, w2, o1, o2

MCWorkers == {w1, w2}
MCOperators == {o1, o2}
Symmetric == Permutations(MCWorkers) \cup Permutations(MCOperators)
=============================================================================
