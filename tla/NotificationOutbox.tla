------------------------- MODULE NotificationOutbox -------------------------
(***************************************************************************)
(* The durable notification outbox: the table notification_outbox and the  *)
(* three parties that change its rows.                                     *)
(*                                                                         *)
(*  - the worker of a server process (src/notification-worker.js) claims a *)
(*    row under a lease, awaits the provider and records the outcome with  *)
(*    a compare-and-swap on (status, attempts, updated_at);                *)
(*  - the organisation hub (src/enterprise-hub-store.js) enqueues rows and *)
(*    lets an administrator confirm, retry or cancel them;                 *)
(*  - the operator's command line tool (scripts/manual-notification.js), a *)
(*    process of its own, marks a manual row sent and then reveals it.     *)
(*                                                                         *)
(* Time is relative: a row and a claim carry their age since updated_at,   *)
(* saturated at the lease, and a row carries the time left until           *)
(* next_attempt_at.  A row is a number; rows are created in that order.    *)
(***************************************************************************)
EXTENDS Naturals, FiniteSets

CONSTANTS
    NRows,        \* rows are 1..NRows
    Workers,      \* server processes that share the database
    Operators,    \* concurrent runs of the command line tool
    Lease,        \* leaseMs, in ticks
    MaxAttempts,  \* attempts after which markFailed is terminal (8 in the code)
    MaxRetries,   \* bound on the retries of an administrator, per row
    MaxCrashes,   \* bound on the crashes of server processes
    AttemptBound  \* bound on the attempts of a row

Rows == 1 .. NRows

\* The provider of a row; "live" is an adapter that the deployment configures.
Kinds == {"manual", "sandbox", "live"}

ASSUME OutboxAssumption ==
    /\ NRows \in Nat \ {0}
    /\ Lease \in Nat \ {0}
    /\ MaxAttempts \in Nat \ {0}
    /\ MaxRetries \in Nat
    /\ MaxCrashes \in Nat
    /\ AttemptBound \in Nat
    /\ 0 \notin Workers \cup Operators

VARIABLES
    outbox,    \* outbox[r]: the row (status, kind, attempts, age, wait)
    inflight,  \* inflight[w]: the claim a worker is delivering, or Idle
    accepted,  \* rows a real provider has accepted at least once
    holding,   \* holding[o]: row marked sent whose message is not yet printed
    revealed,  \* revealed[r]: times the message of r was printed
    retries,   \* retries[r]: retries by an administrator
    crashes    \* crashes of server processes so far

vars == <<outbox, inflight, accepted, holding, revealed, retries, crashes>>

Statuses == {"absent", "pending", "processing", "sent", "failed", "cancelled"}
FinalStatuses == {"sent", "cancelled"}

\* No claim: runOnce is not running.
Idle == [row |-> 0, attempts |-> 0, age |-> 0, accepted |-> FALSE]
Job == [row : Rows, attempts : Nat \ {0}, age : 0 .. Lease, accepted : BOOLEAN]

Row == [status : Statuses, kind : Kinds, attempts : Nat, age : 0 .. Lease,
        wait : Nat]

NewRow(kind) ==
    [status |-> "pending", kind |-> kind, attempts |-> 0, age |-> 0, wait |-> 0]

\* A manual row that an older build claimed and abandoned.
LegacyRow ==
    [status |-> "processing", kind |-> "manual", attempts |-> 1,
     age |-> Lease, wait |-> 0]

Absent == [NewRow("live") EXCEPT !.status = "absent"]

Smaller(a, b) == IF a <= b THEN a ELSE b

\* UPDATE notification_outbox: every transition stamps updated_at.
Written(rows, r, status, attempts, wait) ==
    [rows EXCEPT ![r] = [@ EXCEPT !.status = status, !.attempts = attempts,
                                  !.wait = wait, !.age = 0]]

\* 30 s * 2^min(attempt, 8), in units of 30 s; the cap of 6 h (720 units) is
\* above every value of the table.
DelaySteps == <<2, 4, 8, 16, 32, 64, 128, 256>>
RetryDelay(attempt) == Smaller(720, DelaySteps[Smaller(attempt, 8)])

Init ==
    /\ outbox \in [Rows -> {Absent, LegacyRow}]
    /\ \A r, q \in Rows : q <= r /\ outbox[q] = Absent => outbox[r] = Absent
    /\ inflight = [w \in Workers |-> Idle]
    /\ accepted = {}
    /\ holding = [o \in Operators |-> 0]
    /\ revealed = [r \in Rows |-> 0]
    /\ retries = [r \in Rows |-> 0]
    /\ crashes = 0

-----------------------------------------------------------------------------
(* Time.                                                                   *)

Older(age) == Smaller(age + 1, Lease)

Tick ==
    /\ outbox' = [r \in Rows |->
           [outbox[r] EXCEPT !.age = Older(@),
                             !.wait = IF @ = 0 THEN 0 ELSE @ - 1]]
    /\ inflight' = [w \in Workers |->
           IF inflight[w] = Idle
           THEN Idle
           ELSE [inflight[w] EXCEPT !.age = Older(@)]]
    /\ UNCHANGED <<accepted, holding, revealed, retries, crashes>>

-----------------------------------------------------------------------------
(* The worker.                                                             *)

Stale(r) == outbox[r].age >= Lease
Due(r) == outbox[r].wait = 0

\* Mutant: the select forgets provider<>'manual'.
ClaimableAnyKind(r) ==
    \/ outbox[r].status = "pending" /\ Due(r)
    \/ outbox[r].status = "processing" /\ Stale(r)

\* Mutant: an expired lease is never taken over.
ClaimableNoLease(r) ==
    outbox[r].kind # "manual" /\ outbox[r].status = "pending" /\ Due(r)

Claimable(r) ==
    /\ outbox[r].kind # "manual"
    /\ \/ outbox[r].status = "pending" /\ Due(r)
       \/ outbox[r].status = "processing" /\ Stale(r)

\* The first statement of every claim transaction.
AbandonedManual(r) ==
    /\ outbox[r].kind = "manual"
    /\ outbox[r].status = "processing"
    /\ Stale(r)

Recovered ==
    [r \in Rows |->
        IF AbandonedManual(r)
        THEN [outbox[r] EXCEPT !.status = "pending", !.wait = 0, !.age = 0]
        ELSE outbox[r]]

\* Mutant: taking over an abandoned claim does not count as an attempt.
SameAttempt(r) ==
    IF outbox[r].status = "processing" THEN outbox[r].attempts
    ELSE outbox[r].attempts + 1

NextAttempt(r) == outbox[r].attempts + 1

\* claimOne: ORDER BY created_at, id LIMIT 1.
ClaimOne(w, r) ==
    /\ inflight[w] = Idle
    /\ Claimable(r)
    /\ \A q \in Rows : q < r => ~ Claimable(q)
    /\ outbox[r].attempts < AttemptBound
    /\ outbox' = Written(Recovered, r, "processing", NextAttempt(r),
                          outbox[r].wait)
    /\ inflight' = [inflight EXCEPT ![w] =
           [row |-> r, attempts |-> NextAttempt(r), age |-> 0,
            accepted |-> FALSE]]
    /\ UNCHANGED <<accepted, holding, revealed, retries, crashes>>

\* A poll that finds nothing still runs the recovery of manual rows.
PollEmpty(w) ==
    /\ inflight[w] = Idle
    /\ \A r \in Rows : ~ Claimable(r)
    /\ outbox' = Recovered
    /\ UNCHANGED <<inflight, accepted, holding, revealed, retries, crashes>>

\* The provider takes the message; its answer is still under way.
ProviderAccepts(w) ==
    /\ inflight[w] # Idle
    /\ ~ inflight[w].accepted
    /\ outbox[inflight[w].row].kind = "live"
    /\ accepted' = accepted \cup {inflight[w].row}
    /\ inflight' = [inflight EXCEPT ![w].accepted = TRUE]
    /\ UNCHANGED <<outbox, holding, revealed, retries, crashes>>

\* Mutant: the update that records an answer is keyed by the id alone.
ClaimStandsById(w) == inflight[w] # Idle

\* WHERE id=? AND status='processing' AND attempts=? AND updated_at=?
ClaimStands(w) ==
    LET job == inflight[w] IN
    /\ outbox[job.row].status = "processing"
    /\ outbox[job.row].attempts = job.attempts
    /\ outbox[job.row].age = job.age

\* Mutant: result.accepted is not looked at.
DeliveredOptimistic(w) == inflight[w] # Idle

\* A sandbox row counts as delivered without any provider.
Delivered(w) ==
    outbox[inflight[w].row].kind = "sandbox" \/ inflight[w].accepted

MarkSent(w) ==
    LET r == inflight[w].row IN
    /\ inflight[w] # Idle
    /\ Delivered(w)
    /\ outbox' = IF ClaimStands(w)
                 THEN Written(outbox, r, "sent", outbox[r].attempts, 0)
                 ELSE outbox
    /\ inflight' = [inflight EXCEPT ![w] = Idle]
    /\ UNCHANGED <<accepted, holding, revealed, retries, crashes>>

\* Mutant: off by one in the last attempt.
TerminalLate(attempt) == attempt > MaxAttempts

Terminal(attempt) == attempt >= MaxAttempts

\* Every error of deliver ends here: no adapter, an unreadable payload, a
\* rejection, or a connection lost before or after the provider accepted.
MarkFailed(w) ==
    LET r == inflight[w].row
        terminal == Terminal(inflight[w].attempts)
    IN
    /\ inflight[w] # Idle
    /\ outbox' =
           IF ClaimStands(w)
           THEN Written(outbox, r,
                        IF terminal THEN "failed" ELSE "pending",
                        outbox[r].attempts,
                        IF terminal THEN 0
                        ELSE RetryDelay(inflight[w].attempts))
           ELSE outbox
    /\ inflight' = [inflight EXCEPT ![w] = Idle]
    /\ UNCHANGED <<accepted, holding, revealed, retries, crashes>>

\* The process dies, or is stopped, while it delivers: the row stays
\* 'processing' until its lease is over.
Crash(w) ==
    /\ inflight[w] # Idle
    /\ crashes < MaxCrashes
    /\ crashes' = crashes + 1
    /\ inflight' = [inflight EXCEPT ![w] = Idle]
    /\ UNCHANGED <<outbox, accepted, holding, revealed, retries>>

-----------------------------------------------------------------------------
(* The organisation hub.                                                   *)

Enqueue(r, kind) ==
    /\ outbox[r].status = "absent"
    /\ \A q \in Rows : q < r => outbox[q].status # "absent"
    /\ outbox' = [outbox EXCEPT ![r] = NewRow(kind)]
    /\ UNCHANGED <<inflight, accepted, holding, revealed, retries, crashes>>

HubMarkSent(r) ==
    /\ outbox[r].status \notin FinalStatuses \cup {"absent"}
    /\ outbox[r].kind = "manual"
    /\ outbox' = Written(outbox, r, "sent", outbox[r].attempts, 0)
    /\ UNCHANGED <<inflight, accepted, holding, revealed, retries, crashes>>

HubRetry(r) ==
    /\ outbox[r].status \notin FinalStatuses \cup {"absent"}
    /\ retries[r] < MaxRetries
    /\ retries' = [retries EXCEPT ![r] = @ + 1]
    /\ outbox' = Written(outbox, r, "pending", outbox[r].attempts, 0)
    /\ UNCHANGED <<inflight, accepted, holding, revealed, crashes>>

\* Cancelling a cancelled row is allowed and rewrites updated_at.
Cancellable(r) == outbox[r].status \notin {"sent", "absent"}

HubCancel(r) ==
    /\ Cancellable(r)
    /\ outbox' = Written(outbox, r, "cancelled", outbox[r].attempts, 0)
    /\ UNCHANGED <<inflight, accepted, holding, revealed, retries, crashes>>

-----------------------------------------------------------------------------
(* The operator's command line tool.                                       *)

\* Mutant: the status of the row is not checked.
DeliverableAnyStatus(r) ==
    outbox[r].kind = "manual" /\ outbox[r].status # "absent"

\* Every row that the application enqueues is an authentication mail.
Deliverable(r) ==
    /\ outbox[r].kind = "manual"
    /\ outbox[r].status \in {"pending", "failed"}

\* The transaction of deliverManualNotification; the message is returned
\* only after COMMIT.
ManualDeliver(o, r) ==
    /\ holding[o] = 0
    /\ Deliverable(r)
    /\ outbox' = Written(outbox, r, "sent", outbox[r].attempts + 1, 0)
    /\ holding' = [holding EXCEPT ![o] = r]
    /\ UNCHANGED <<inflight, accepted, revealed, retries, crashes>>

\* The sealed payload does not validate.
ManualRefuse(o, r) ==
    /\ holding[o] = 0
    /\ Deliverable(r)
    /\ outbox[r].attempts < AttemptBound
    /\ outbox' = Written(outbox, r, "failed", outbox[r].attempts + 1, 0)
    /\ UNCHANGED <<inflight, accepted, holding, revealed, retries, crashes>>

\* writeDelivery
Reveal(o) ==
    /\ holding[o] # 0
    /\ revealed' = [revealed EXCEPT ![holding[o]] = @ + 1]
    /\ holding' = [holding EXCEPT ![o] = 0]
    /\ UNCHANGED <<outbox, inflight, accepted, retries, crashes>>

\* The tool dies between COMMIT and the print: the message is lost.
OperatorCrash(o) ==
    /\ holding[o] # 0
    /\ holding' = [holding EXCEPT ![o] = 0]
    /\ UNCHANGED <<outbox, inflight, accepted, revealed, retries, crashes>>

-----------------------------------------------------------------------------
Poll(w) == PollEmpty(w) \/ \E r \in Rows : ClaimOne(w, r)

Answer(w) == MarkSent(w) \/ MarkFailed(w)

Worker(w) == Poll(w) \/ ProviderAccepts(w) \/ Answer(w) \/ Crash(w)

Hub(r) ==
    \/ \E kind \in Kinds : Enqueue(r, kind)
    \/ HubMarkSent(r)
    \/ HubRetry(r)
    \/ HubCancel(r)

Operator(o) ==
    \/ \E r \in Rows : ManualDeliver(o, r) \/ ManualRefuse(o, r)
    \/ Reveal(o)
    \/ OperatorCrash(o)

Next ==
    \/ Tick
    \/ \E w \in Workers : Worker(w)
    \/ \E r \in Rows : Hub(r)
    \/ \E o \in Operators : Operator(o)

Spec == Init /\ [][Next]_vars

(***************************************************************************)
(* The interval timer polls for ever, time passes, and a call of the       *)
(* adapter settles.  Nothing is assumed of administrators and operators.   *)
(***************************************************************************)
FairSpec ==
    /\ Spec
    /\ WF_vars(Tick)
    /\ \A w \in Workers : WF_vars(Poll(w)) /\ WF_vars(Answer(w))
-----------------------------------------------------------------------------
(* Properties.                                                             *)

\* Types of the variables; a claim names a row that exists.
TypeOK ==
    /\ outbox \in [Rows -> Row]
    /\ inflight \in [Workers -> Job \cup {Idle}]
    /\ accepted \subseteq Rows
    /\ holding \in [Operators -> Rows \cup {0}]
    /\ revealed \in [Rows -> Nat]
    /\ retries \in [Rows -> Nat]
    /\ crashes \in Nat

\* Two claims of one row never carry the same attempt number, and a claim
\* never carries one the row has not reached: this is what lets the
\* compare-and-swap of markSent and markFailed single out the latest claim.
ClaimsDistinct ==
    /\ \A w \in Workers : inflight[w] # Idle =>
           inflight[w].attempts <= outbox[inflight[w].row].attempts
    /\ \A v, w \in Workers :
           /\ v # w
           /\ inflight[v] # Idle
           /\ inflight[w] # Idle
           /\ inflight[v].row = inflight[w].row
           => inflight[v].attempts # inflight[w].attempts

\* A row of a real provider is recorded as sent only if that provider has
\* accepted it: no late, lost or reordered answer makes an unsent row sent.
LiveSentWasAccepted ==
    \A r \in Rows :
        outbox[r].kind = "live" /\ outbox[r].status = "sent" => r \in accepted

\* No automatic delivery ever handles a manual row, whatever an older build
\* left behind: its secret leaves the database only through the operator.
ManualNeverAutomatic ==
    /\ \A w \in Workers : inflight[w] # Idle =>
           outbox[inflight[w].row].kind # "manual"
    /\ \A r \in accepted : outbox[r].kind # "manual"

\* The one-time link of a row is printed at most once, and only of a row
\* that stays marked sent, however operators, administrators and crashes
\* interleave (the at-most-once reveal of deliverManualNotification).
RevealedAtMostOnce ==
    \A r \in Rows :
        /\ revealed[r] <= 1
        /\ \A o \in Operators : holding[o] = r =>
               /\ outbox[r].status = "sent"
               /\ revealed[r] = 0
               /\ \A p \in Operators : holding[p] = r => p = o
        /\ revealed[r] > 0 => outbox[r].status = "sent"

\* A sent or cancelled row is final: no answer of a provider, lease recovery,
\* retry or operator changes its outcome.
FinalIsFinal ==
    [][\A r \in Rows : outbox[r].status \in FinalStatuses =>
           outbox'[r].status = outbox[r].status]_vars

\* The automatic retries stop: with one worker, a row is attempted at most
\* MaxAttempts times plus once for every retry an administrator asked for
\* and every crash that left a claim behind.
RetryBudget ==
    \A r \in Rows : outbox[r].kind # "manual" =>
        outbox[r].attempts <= MaxAttempts + retries[r] + crashes

\* Every row of an automatic provider leaves the queue: it is sent, given up
\* or cancelled, even if crashes abandon its lease or its answers get lost.
EventuallySettled ==
    \A r \in Rows :
        /\ outbox[r].kind # "manual"
        /\ outbox[r].status \in {"pending", "processing"}
        ~> outbox[r].status \in {"sent", "failed", "cancelled"}

(***************************************************************************)
(* What the outbox promises (MessageLifecycle), under the refinement       *)
(* mapping that forgets claims, leases, attempts and deadlines.            *)
(***************************************************************************)
Outcome(r) ==
    CASE outbox[r].status = "absent" -> "none"
      [] outbox[r].status \in FinalStatuses -> outbox[r].status
      [] OTHER -> "open"

outcomeBar == [r \in Rows |-> Outcome(r)]
disclosedBar == {r \in Rows : revealed[r] > 0}

Lifecycle == INSTANCE MessageLifecycle
    WITH Messages <- Rows, outcome <- outcomeBar, disclosed <- disclosedBar

\* The outbox implements the message lifecycle.
ImplementsLifecycle == Lifecycle!Spec
=============================================================================
