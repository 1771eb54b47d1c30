-------------------------- MODULE MessageLifecycle --------------------------
(***************************************************************************)
(* What the notification outbox promises about a message, whoever works on *)
(* it: a message is open until it is sent or cancelled, exactly one of the *)
(* two happens and it is never taken back, and the secret of a message is  *)
(* disclosed at most once and only after the message was marked sent.      *)
(***************************************************************************)
CONSTANT Messages

VARIABLES
    outcome,   \* outcome[m] \in {"none", "open", "sent", "cancelled"}
    disclosed  \* messages whose secret has been shown

Init ==
    /\ outcome \in [Messages -> {"none", "open"}]
    /\ disclosed = {}

Create(m) ==
    /\ outcome[m] = "none"
    /\ outcome' = [outcome EXCEPT ![m] = "open"]
    /\ UNCHANGED disclosed

Settle(m, result) ==
    /\ outcome[m] = "open"
    /\ outcome' = [outcome EXCEPT ![m] = result]
    /\ UNCHANGED disclosed

Disclose(m) ==
    /\ outcome[m] = "sent"
    /\ m \notin disclosed
    /\ disclosed' = disclosed \cup {m}
    /\ UNCHANGED outcome

Next ==
    \E m \in Messages :
        \/ Create(m)
        \/ \E result \in {"sent", "cancelled"} : Settle(m, result)
        \/ Disclose(m)

Spec == Init /\ [][Next]_<<outcome, disclosed>>
=============================================================================
