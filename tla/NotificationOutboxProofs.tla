---------------------- MODULE NotificationOutboxProofs ----------------------
(***************************************************************************)
(* Proofs about the notification outbox, for any number of rows, server    *)
(* processes and operators and for every value of the lease and bounds.    *)
(*                                                                         *)
(* The safety properties rest on one inductive invariant, OutboxInv: the   *)
(* properties themselves, and what a claim remembers of its row.  The      *)
(* budget of attempts needs another, BudgetInv, and a single worker.       *)
(***************************************************************************)
EXTENDS NotificationOutbox, TLAPS

-----------------------------------------------------------------------------
(* The operators.                                                          *)

\* The back-off after any attempt the worker can count is a natural number.
LEMMA RetryDelayType == \A attempt \in Nat \ {0} : RetryDelay(attempt) \in Nat
<1> SUFFICES ASSUME NEW attempt \in Nat \ {0}
             PROVE  RetryDelay(attempt) \in Nat
  OBVIOUS
<1> DEFINE i == Smaller(attempt, 8)
<1>1. i \in 1 .. 8
  BY DEF Smaller
<1>2. DelaySteps[i] \in Nat
  <2> HIDE DEF i
  <2>1. i = 1 \/ i = 2 \/ i = 3 \/ i = 4 \/ i = 5 \/ i = 6 \/ i = 7 \/ i = 8
    BY <1>1
  <2>2. QED
    BY <2>1 DEF DelaySteps
<1> HIDE DEF i
<1>3. Smaller(720, DelaySteps[i]) \in Nat
  BY <1>2 DEF Smaller
<1>4. QED
  BY <1>3 DEF RetryDelay, i

\* An age stays within the lease.
LEMMA OlderType == \A age \in 0 .. Lease : Older(age) \in 0 .. Lease
  BY OutboxAssumption DEF Older, Smaller

\* An UPDATE keeps the types of the table.
LEMMA WrittenType ==
  ASSUME NEW rows \in [Rows -> Row], NEW r \in Rows, NEW status \in Statuses,
         NEW attempts \in Nat, NEW wait \in Nat
  PROVE  Written(rows, r, status, attempts, wait) \in [Rows -> Row]
<1>1. [rows[r] EXCEPT !.status = status, !.attempts = attempts,
                      !.wait = wait, !.age = 0] \in Row
  <2>1. rows[r] \in Row /\ 0 \in 0 .. Lease
    BY OutboxAssumption
  <2>2. QED
    BY <2>1 DEF Row
<1>2. QED
  BY <1>1 DEF Written

\* An UPDATE rewrites its row, keeps the row's kind and leaves the others.
LEMMA WrittenRow ==
  ASSUME NEW rows \in [Rows -> Row], NEW r \in Rows,
         NEW status, NEW attempts, NEW wait
  PROVE  LET new == Written(rows, r, status, attempts, wait) IN
         /\ new[r].status = status
         /\ new[r].attempts = attempts
         /\ new[r].kind = rows[r].kind
         /\ \A q \in Rows : q # r => new[q] = rows[q]
  BY DEF Written, Row

\* Recovery touches abandoned manual rows only, and only their deadlines.
LEMMA RecoveredRow ==
  ASSUME outbox \in [Rows -> Row]
  PROVE  /\ Recovered \in [Rows -> Row]
         /\ \A r \in Rows :
               /\ Recovered[r].kind = outbox[r].kind
               /\ Recovered[r].attempts = outbox[r].attempts
               /\ AbandonedManual(r) => Recovered[r].status = "pending"
               /\ ~ AbandonedManual(r) => Recovered[r] = outbox[r]
<1>1. ASSUME NEW r \in Rows
      PROVE  LET row == [outbox[r] EXCEPT !.status = "pending", !.wait = 0,
                                          !.age = 0]
             IN  /\ row \in Row
                 /\ row.kind = outbox[r].kind
                 /\ row.attempts = outbox[r].attempts
                 /\ row.status = "pending"
  <2>1. outbox[r] \in Row /\ "pending" \in Statuses /\ 0 \in 0 .. Lease
    BY OutboxAssumption DEF Statuses
  <2>2. QED
    BY <2>1 DEF Row
<1>2. QED
  BY <1>1 DEF Recovered

-----------------------------------------------------------------------------
(* Type correctness.                                                       *)

LEMMA InitTypeOK == Init => TypeOK
<1> SUFFICES ASSUME Init PROVE TypeOK
  OBVIOUS
<1>1. {Absent, LegacyRow} \subseteq Row
  BY OutboxAssumption
  DEF Absent, LegacyRow, NewRow, Row, Statuses, Kinds
<1>2. outbox \in [Rows -> Row]
  BY <1>1 DEF Init
<1>3. QED
  BY <1>2, OutboxAssumption DEF Init, TypeOK

\* A claim that is being delivered is a job on an existing row.
LEMMA BusyIsJob ==
  ASSUME TypeOK, NEW w \in Workers, inflight[w] # Idle
  PROVE  inflight[w] \in Job /\ inflight[w].row \in Rows
  BY DEF TypeOK, Job

\* Every step keeps the types.
LEMMA NextTypeOK == TypeOK /\ [Next]_vars => TypeOK'
<1> SUFFICES ASSUME TypeOK, [Next]_vars PROVE TypeOK'
  OBVIOUS
<1> USE DEF TypeOK
<1>a. Statuses = {"absent", "pending", "processing", "sent", "failed",
                  "cancelled"}
  BY DEF Statuses
<1>b. \A r \in Rows : outbox[r].attempts \in Nat /\ outbox[r].wait \in Nat
  BY DEF Row
<1>1. CASE Tick
  <2>1. ASSUME NEW r \in Rows
        PROVE  [outbox[r] EXCEPT !.age = Older(@),
                                 !.wait = IF @ = 0 THEN 0 ELSE @ - 1] \in Row
    <3>1. outbox[r] \in Row
      OBVIOUS
    <3>2. Older(outbox[r].age) \in 0 .. Lease
      BY <3>1, OlderType DEF Row
    <3>3. (IF outbox[r].wait = 0 THEN 0 ELSE outbox[r].wait - 1) \in Nat
      BY <3>1 DEF Row
    <3>4. QED
      BY <3>1, <3>2, <3>3 DEF Row
  <2>2. ASSUME NEW w \in Workers, inflight[w] # Idle
        PROVE  [inflight[w] EXCEPT !.age = Older(@)] \in Job
    <3>1. inflight[w] \in Job
      BY <2>2, BusyIsJob
    <3>2. Older(inflight[w].age) \in 0 .. Lease
      BY <3>1, OlderType DEF Job
    <3>3. QED
      BY <3>1, <3>2 DEF Job
  <2>3. outbox' \in [Rows -> Row]
    BY <1>1, <2>1 DEF Tick
  <2>4. inflight' \in [Workers -> Job \cup {Idle}]
    BY <1>1, <2>2 DEF Tick
  <2>5. QED
    BY <1>1, <2>3, <2>4 DEF Tick
<1>2. ASSUME NEW w \in Workers, NEW r \in Rows, ClaimOne(w, r)
      PROVE  TypeOK'
  <2>1. NextAttempt(r) \in Nat \ {0}
    BY <1>b DEF NextAttempt
  <2>2. outbox' \in [Rows -> Row]
    BY <1>2, <1>a, <1>b, <2>1, RecoveredRow, WrittenType DEF ClaimOne
  <2>3. [row |-> r, attempts |-> NextAttempt(r), age |-> 0,
         accepted |-> FALSE] \in Job
    BY <2>1, OutboxAssumption DEF Job
  <2>4. QED
    BY <1>2, <2>2, <2>3 DEF ClaimOne
<1>3. ASSUME NEW w \in Workers, PollEmpty(w)
      PROVE  TypeOK'
  BY <1>3, RecoveredRow DEF PollEmpty
<1>4. ASSUME NEW w \in Workers, ProviderAccepts(w)
      PROVE  TypeOK'
  <2>1. inflight[w] \in Job
    BY <1>4, BusyIsJob DEF ProviderAccepts
  <2>2. [inflight[w] EXCEPT !.accepted = TRUE] \in Job
    BY <2>1 DEF Job
  <2>3. inflight[w].row \in Rows
    BY <2>1 DEF Job
  <2>4. QED
    BY <1>4, <2>2, <2>3 DEF ProviderAccepts
<1>5. ASSUME NEW w \in Workers, MarkSent(w)
      PROVE  TypeOK'
  <2>1. inflight[w].row \in Rows
    BY <1>5, BusyIsJob DEF MarkSent
  <2>2. outbox' \in [Rows -> Row]
    BY <1>5, <2>1, <1>a, <1>b, WrittenType DEF MarkSent
  <2>3. QED
    BY <1>5, <2>2 DEF MarkSent
<1>6. ASSUME NEW w \in Workers, MarkFailed(w)
      PROVE  TypeOK'
  <2> DEFINE r == inflight[w].row
             final == Terminal(inflight[w].attempts)
             next == IF final THEN "failed" ELSE "pending"
             wait == IF final THEN 0 ELSE RetryDelay(inflight[w].attempts)
  <2>1. inflight[w] \in Job /\ r \in Rows
    BY <1>6, BusyIsJob DEF MarkFailed
  <2>2. next \in Statuses
    BY <1>a
  <2>3. wait \in Nat
    BY <2>1, RetryDelayType DEF Job
  <2>4. outbox' = IF ClaimStands(w)
                  THEN Written(outbox, r, next, outbox[r].attempts, wait)
                  ELSE outbox
    BY <1>6 DEF MarkFailed
  <2> HIDE DEF r, final, next, wait
  <2>5. outbox' \in [Rows -> Row]
    BY <2>1, <2>2, <2>3, <2>4, <1>b, WrittenType
  <2>6. QED
    BY <1>6, <2>5 DEF MarkFailed
<1>7. ASSUME NEW w \in Workers, Crash(w)
      PROVE  TypeOK'
  BY <1>7 DEF Crash
<1>8. ASSUME NEW r \in Rows, NEW kind \in Kinds, Enqueue(r, kind)
      PROVE  TypeOK'
  <2>1. NewRow(kind) \in Row
    BY <1>a, OutboxAssumption DEF NewRow, Row
  <2>2. QED
    BY <1>8, <2>1 DEF Enqueue
<1>9. ASSUME NEW r \in Rows, HubMarkSent(r) \/ HubRetry(r) \/ HubCancel(r)
      PROVE  TypeOK'
  <2>1. \A status \in Statuses :
            Written(outbox, r, status, outbox[r].attempts, 0) \in [Rows -> Row]
    BY <1>b, WrittenType
  <2>2. \E status \in Statuses :
            outbox' = Written(outbox, r, status, outbox[r].attempts, 0)
    BY <1>9, <1>a DEF HubMarkSent, HubRetry, HubCancel
  <2>3. outbox' \in [Rows -> Row]
    BY <2>1, <2>2
  <2>4. QED
    BY <1>9, <2>3 DEF HubMarkSent, HubRetry, HubCancel
<1>10. ASSUME NEW o \in Operators, NEW r \in Rows,
              ManualDeliver(o, r) \/ ManualRefuse(o, r)
       PROVE  TypeOK'
  <2>1. outbox[r].attempts + 1 \in Nat
    BY <1>b
  <2>2. \A status \in Statuses :
            Written(outbox, r, status, outbox[r].attempts + 1, 0)
                \in [Rows -> Row]
    BY <2>1, WrittenType
  <2>3. \E status \in Statuses :
            outbox' = Written(outbox, r, status, outbox[r].attempts + 1, 0)
    BY <1>10, <1>a DEF ManualDeliver, ManualRefuse
  <2>4. outbox' \in [Rows -> Row]
    BY <2>2, <2>3
  <2>5. QED
    BY <1>10, <2>4 DEF ManualDeliver, ManualRefuse
<1>11. ASSUME NEW o \in Operators, Reveal(o) \/ OperatorCrash(o)
       PROVE  TypeOK'
  BY <1>11 DEF Reveal, OperatorCrash
<1>12. CASE UNCHANGED vars
  BY <1>12 DEF vars
<1>13. QED
  BY <1>1, <1>2, <1>3, <1>4, <1>5, <1>6, <1>7, <1>8, <1>9, <1>10, <1>11,
     <1>12
  DEF Next, Worker, Poll, Answer, Hub, Operator

\* The variables of the outbox always have their types: no interleaving of
\* workers, administrators, operators and crashes leaves a row with a status
\* outside the table's CHECK or a claim of a row that does not exist.
THEOREM TypeCorrect == Spec => []TypeOK
<1>1. Init => TypeOK
  BY InitTypeOK
<1>2. TypeOK /\ [Next]_vars => TypeOK'
  BY NextTypeOK
<1>3. QED
  BY <1>1, <1>2, PTL DEF Spec

-----------------------------------------------------------------------------
(* What a step may do to a row and to a claim.                             *)

\* A row that exists keeps its kind and never loses attempts, a final row
\* keeps its status, and a live row becomes sent only through a claim whose
\* provider accepted.
RowStep(r) ==
    /\ outbox[r].status # "absent" =>
           /\ outbox'[r].status # "absent"
           /\ outbox'[r].kind = outbox[r].kind
           /\ outbox'[r].attempts >= outbox[r].attempts
    /\ outbox[r].status \in FinalStatuses =>
           outbox'[r].status = outbox[r].status
    /\ /\ outbox'[r].status = "sent"
       /\ outbox'[r].kind = "live"
       /\ outbox[r].status # "sent"
       => \E w \in Workers : /\ inflight[w] # Idle
                             /\ inflight[w].row = r
                             /\ inflight[w].accepted

LEMMA RowSteps == TypeOK /\ [Next]_vars => \A r \in Rows : RowStep(r)
<1> SUFFICES ASSUME TypeOK, [Next]_vars PROVE \A r \in Rows : RowStep(r)
  OBVIOUS
<1> USE DEF RowStep, FinalStatuses
<1>a. outbox \in [Rows -> Row]
  BY DEF TypeOK
<1>b. \A r \in Rows : outbox[r].attempts \in Nat
  BY <1>a DEF Row
<1>1. CASE Tick
  <2>1. ASSUME NEW r \in Rows
        PROVE  /\ outbox'[r].status = outbox[r].status
               /\ outbox'[r].kind = outbox[r].kind
               /\ outbox'[r].attempts = outbox[r].attempts
    <3>1. outbox[r] \in Row
      BY <1>a
    <3>2. outbox'[r] = [outbox[r] EXCEPT !.age = Older(@),
                                  !.wait = IF @ = 0 THEN 0 ELSE @ - 1]
      BY <1>1 DEF Tick
    <3>3. QED
      BY <3>1, <3>2 DEF Row
  <2>2. QED
    BY <2>1, <1>b
<1>2. ASSUME NEW w \in Workers, NEW q \in Rows, ClaimOne(w, q)
      PROVE  \A r \in Rows : RowStep(r)
  <2>1. /\ outbox'[q].status = "processing"
        /\ outbox'[q].attempts = outbox[q].attempts + 1
        /\ outbox'[q].kind = outbox[q].kind
        /\ \A r \in Rows : r # q => outbox'[r] = Recovered[r]
    BY <1>2, <1>a, RecoveredRow, WrittenRow DEF ClaimOne, NextAttempt
  <2>2. outbox[q].status \in {"pending", "processing"}
    BY <1>2 DEF ClaimOne, Claimable
  <2>3. ASSUME NEW r \in Rows, r # q PROVE RowStep(r)
    BY <1>a, <1>b, <2>1, <2>3, RecoveredRow DEF AbandonedManual
  <2>4. QED
    BY <1>b, <2>1, <2>2, <2>3
<1>3. ASSUME NEW w \in Workers, PollEmpty(w)
      PROVE  \A r \in Rows : RowStep(r)
  BY <1>3, <1>a, <1>b, RecoveredRow DEF PollEmpty, AbandonedManual
<1>4. ASSUME NEW w \in Workers, MarkSent(w)
      PROVE  \A r \in Rows : RowStep(r)
  <2> DEFINE q == inflight[w].row
  <2>1. q \in Rows /\ inflight[w] # Idle
    BY <1>4, BusyIsJob DEF MarkSent
  <2>2. CASE ~ ClaimStands(w)
    BY <1>4, <2>2, <1>b DEF MarkSent
  <2>3. CASE ClaimStands(w)
    <3>1. outbox' = Written(outbox, q, "sent", outbox[q].attempts, 0)
      BY <1>4, <2>3 DEF MarkSent
    <3>2. outbox[q].status = "processing"
      BY <2>3 DEF ClaimStands
    <3>3. outbox[q].kind = "live" => inflight[w].accepted
      BY <1>4 DEF MarkSent, Delivered
    <3> HIDE DEF q
    <3>4. /\ outbox'[q].status = "sent"
          /\ outbox'[q].attempts = outbox[q].attempts
          /\ outbox'[q].kind = outbox[q].kind
          /\ \A r \in Rows : r # q => outbox'[r] = outbox[r]
      BY <1>a, <2>1, <3>1, WrittenRow
    <3>5. QED
      BY <1>b, <2>1, <3>2, <3>3, <3>4 DEF q
  <2>4. QED
    BY <2>2, <2>3
<1>5. ASSUME NEW q \in Rows, NEW status, NEW attempts \in Nat, NEW wait,
             outbox' = Written(outbox, q, status, attempts, wait),
             status # "absent",
             attempts >= outbox[q].attempts,
             \/ outbox[q].status \notin FinalStatuses
             \/ status = outbox[q].status,
             status # "sent" \/ outbox[q].kind = "manual"
      PROVE  \A r \in Rows : RowStep(r)
  <2>1. /\ outbox'[q].status = status
        /\ outbox'[q].attempts = attempts
        /\ outbox'[q].kind = outbox[q].kind
        /\ \A r \in Rows : r # q => outbox'[r] = outbox[r]
    BY <1>a, <1>5, WrittenRow
  <2>2. QED
    BY <1>5, <1>b, <2>1
<1>6. ASSUME NEW w \in Workers, MarkFailed(w)
      PROVE  \A r \in Rows : RowStep(r)
  <2> DEFINE q == inflight[w].row
             next == IF Terminal(inflight[w].attempts)
                     THEN "failed" ELSE "pending"
             wait == IF Terminal(inflight[w].attempts)
                     THEN 0 ELSE RetryDelay(inflight[w].attempts)
  <2>1. q \in Rows
    BY <1>6, BusyIsJob DEF MarkFailed
  <2>2. CASE ~ ClaimStands(w)
    BY <1>6, <2>2, <1>b DEF MarkFailed
  <2>3. CASE ClaimStands(w)
    <3>1. outbox' = Written(outbox, q, next, outbox[q].attempts, wait)
      BY <1>6, <2>3 DEF MarkFailed
    <3>2. outbox[q].status = "processing"
      BY <2>3 DEF ClaimStands
    <3>3. next # "absent" /\ next # "sent"
      OBVIOUS
    <3> HIDE DEF q, next, wait
    <3>4. QED
      BY <1>b, <1>5, <2>1, <3>1, <3>2, <3>3
  <2>4. QED
    BY <2>2, <2>3
<1>7. ASSUME NEW q \in Rows, HubMarkSent(q) \/ HubRetry(q) \/ HubCancel(q)
      PROVE  \A r \in Rows : RowStep(r)
  <2>1. CASE HubMarkSent(q)
    BY <1>b, <1>5, <2>1 DEF HubMarkSent
  <2>2. CASE HubRetry(q)
    BY <1>b, <1>5, <2>2 DEF HubRetry
  <2>3. CASE HubCancel(q)
    BY <1>b, <1>5, <2>3 DEF HubCancel, Cancellable
  <2>4. QED
    BY <1>7, <2>1, <2>2, <2>3
<1>8. ASSUME NEW o \in Operators, NEW q \in Rows,
             ManualDeliver(o, q) \/ ManualRefuse(o, q)
      PROVE  \A r \in Rows : RowStep(r)
  <2>1. CASE ManualDeliver(o, q)
    BY <1>b, <1>5, <2>1 DEF ManualDeliver, Deliverable
  <2>2. CASE ManualRefuse(o, q)
    BY <1>b, <1>5, <2>2 DEF ManualRefuse, Deliverable
  <2>3. QED
    BY <1>8, <2>1, <2>2
<1>9. ASSUME NEW q \in Rows, NEW kind \in Kinds, Enqueue(q, kind)
      PROVE  \A r \in Rows : RowStep(r)
  BY <1>9, <1>a, <1>b DEF Enqueue, NewRow
<1>10. CASE UNCHANGED outbox
  BY <1>10, <1>b
<1>11. QED
  BY <1>1, <1>2, <1>3, <1>4, <1>6, <1>7, <1>8, <1>9, <1>10
  DEF Next, Worker, Poll, Answer, Hub, Operator, ProviderAccepts, Crash,
      Reveal, OperatorCrash, vars

\* A sent or cancelled row is final, for every number of workers and whatever
\* the order of answers, retries, cancellations and crashes.
THEOREM FinalForever == Spec => FinalIsFinal
<1>1. TypeOK /\ [Next]_vars =>
          [\A r \in Rows : outbox[r].status \in FinalStatuses =>
              outbox'[r].status = outbox[r].status]_vars
  BY RowSteps DEF RowStep
<1>2. QED
  BY <1>1, TypeCorrect, PTL DEF Spec, FinalIsFinal

\* After a step a worker's claim is a claim of a row just taken, with the
\* row's new attempt number, or the claim it had; an acceptance it carries is
\* recorded.
NewClaim(w) ==
    LET r == inflight'[w].row IN
    /\ r \in Rows
    /\ ClaimOne(w, r)
    /\ inflight'[w].attempts = outbox[r].attempts + 1
    /\ outbox'[r].attempts = outbox[r].attempts + 1
    /\ ~ inflight'[w].accepted

KeptClaim(w) ==
    /\ inflight[w] # Idle
    /\ inflight'[w].row = inflight[w].row
    /\ inflight'[w].attempts = inflight[w].attempts
    /\ inflight'[w].accepted =>
           inflight[w].accepted \/ inflight[w].row \in accepted'

ClaimStep(w) == inflight'[w] # Idle => NewClaim(w) \/ KeptClaim(w)

LEMMA ClaimSteps == TypeOK /\ [Next]_vars => \A w \in Workers : ClaimStep(w)
<1> SUFFICES ASSUME TypeOK, [Next]_vars
             PROVE  \A w \in Workers : ClaimStep(w)
  OBVIOUS
<1> USE DEF ClaimStep, KeptClaim
<1>a. inflight \in [Workers -> Job \cup {Idle}] /\ outbox \in [Rows -> Row]
  BY DEF TypeOK
<1>1. CASE Tick
  <2>1. ASSUME NEW w \in Workers, inflight'[w] # Idle
        PROVE  KeptClaim(w)
    <3>1. /\ inflight[w] # Idle
          /\ inflight'[w] = [inflight[w] EXCEPT !.age = Older(@)]
      BY <1>1, <2>1 DEF Tick
    <3>2. inflight[w] \in Job
      BY <3>1, BusyIsJob
    <3>3. QED
      BY <3>1, <3>2 DEF Job
  <2>2. QED
    BY <2>1
<1>2. ASSUME NEW v \in Workers, NEW r \in Rows, ClaimOne(v, r)
      PROVE  \A w \in Workers : ClaimStep(w)
  <2>1. inflight'[v] = [row |-> r, attempts |-> outbox[r].attempts + 1,
                        age |-> 0, accepted |-> FALSE]
    BY <1>2, <1>a DEF ClaimOne, NextAttempt
  <2>2. outbox'[r].attempts = outbox[r].attempts + 1
    BY <1>2, <1>a, RecoveredRow, WrittenRow DEF ClaimOne, NextAttempt
  <2>3. NewClaim(v)
    BY <1>2, <2>1, <2>2 DEF NewClaim
  <2>4. \A w \in Workers : w # v => inflight'[w] = inflight[w]
    BY <1>2, <1>a DEF ClaimOne
  <2>5. QED
    BY <2>3, <2>4
<1>3. ASSUME NEW v \in Workers, ProviderAccepts(v)
      PROVE  \A w \in Workers : ClaimStep(w)
  <2>1. inflight[v] \in Job /\ inflight[v] # Idle
    BY <1>3, BusyIsJob DEF ProviderAccepts
  <2>2. /\ inflight'[v] = [inflight[v] EXCEPT !.accepted = TRUE]
        /\ \A w \in Workers : w # v => inflight'[w] = inflight[w]
    BY <1>3, <1>a DEF ProviderAccepts
  <2>3. /\ inflight'[v].row = inflight[v].row
        /\ inflight'[v].attempts = inflight[v].attempts
    BY <2>1, <2>2 DEF Job
  <2>4. inflight[v].row \in accepted'
    BY <1>3 DEF ProviderAccepts
  <2>5. QED
    BY <2>1, <2>2, <2>3, <2>4
<1>4. ASSUME NEW v \in Workers, MarkSent(v) \/ MarkFailed(v) \/ Crash(v)
      PROVE  \A w \in Workers : ClaimStep(w)
  <2>1. inflight' = [inflight EXCEPT ![v] = Idle]
    BY <1>4 DEF MarkSent, MarkFailed, Crash
  <2>2. QED
    BY <2>1, <1>a
<1>5. CASE UNCHANGED inflight
  BY <1>5
<1>6. QED
  BY <1>1, <1>2, <1>3, <1>4, <1>5
  DEF Next, Worker, Poll, Answer, Hub, Operator, PollEmpty, Enqueue,
      HubMarkSent, HubRetry, HubCancel, ManualDeliver, ManualRefuse,
      Reveal, OperatorCrash, vars

-----------------------------------------------------------------------------
(* The inductive invariant.                                                *)

\* A claim is of a row that exists, and a row is delivered only if it exists;
\* what a claim knows of an acceptance is true.  Without this, a new row
\* could appear under a number that a claim already holds.
ClaimKnown ==
    /\ \A w \in Workers : inflight[w] # Idle =>
           /\ outbox[inflight[w].row].status # "absent"
           /\ inflight[w].accepted => inflight[w].row \in accepted
    /\ \A r \in accepted : outbox[r].status # "absent"

OutboxInv ==
    /\ TypeOK
    /\ ClaimKnown
    /\ ClaimsDistinct
    /\ ManualNeverAutomatic
    /\ LiveSentWasAccepted
    /\ RevealedAtMostOnce

LEMMA InitOutboxInv == Init => OutboxInv
<1> SUFFICES ASSUME Init PROVE OutboxInv
  OBVIOUS
<1>1. TypeOK
  BY InitTypeOK
<1>2. \A r \in Rows : outbox[r].status \in {"absent", "processing"}
  BY DEF Init, Absent, LegacyRow, NewRow
<1>3. RevealedAtMostOnce
  BY DEF Init, RevealedAtMostOnce, Rows
<1>4. QED
  BY <1>1, <1>2, <1>3
  DEF Init, OutboxInv, ClaimKnown, ClaimsDistinct, ManualNeverAutomatic,
      LiveSentWasAccepted

\* The rows a provider has accepted grow only by a row of kind "live" that a
\* worker holds.
LEMMA AcceptedGrows ==
  ASSUME TypeOK, [Next]_vars
  PROVE  /\ accepted \subseteq accepted'
         /\ \A r \in accepted' \ accepted :
               \E w \in Workers : inflight[w] # Idle /\ inflight[w].row = r
<1>1. CASE \E w \in Workers : ProviderAccepts(w)
  BY <1>1 DEF ProviderAccepts
<1>2. CASE UNCHANGED accepted
  BY <1>2
<1>3. QED
  BY <1>1, <1>2
  DEF Next, Worker, Poll, Answer, Hub, Operator, Tick, ClaimOne, PollEmpty,
      MarkSent, MarkFailed, Crash, Enqueue, HubMarkSent, HubRetry, HubCancel,
      ManualDeliver, ManualRefuse, Reveal, OperatorCrash, vars

\* A row that is claimed exists, is not manual, and stays so.
LEMMA ClaimedRow ==
  ASSUME TypeOK, [Next]_vars, NEW w \in Workers, NEW r \in Rows,
         ClaimOne(w, r)
  PROVE  /\ outbox[r].status # "absent"
         /\ outbox[r].kind # "manual"
         /\ outbox'[r].status # "absent"
         /\ outbox'[r].kind # "manual"
<1>1. outbox[r].status # "absent" /\ outbox[r].kind # "manual"
  BY DEF ClaimOne, Claimable
<1>2. QED
  BY <1>1, RowSteps DEF RowStep

LEMMA NextClaimKnown ==
  ASSUME OutboxInv, [Next]_vars
  PROVE  ClaimKnown' /\ ManualNeverAutomatic'
<1>1. TypeOK /\ TypeOK' /\ ClaimKnown /\ ManualNeverAutomatic
  BY NextTypeOK DEF OutboxInv
<1>2. ASSUME NEW w \in Workers, inflight[w] # Idle
      PROVE  /\ outbox'[inflight[w].row].status # "absent"
             /\ outbox'[inflight[w].row].kind # "manual"
  <2>1. inflight[w].row \in Rows
    BY <1>1, <1>2, BusyIsJob
  <2>2. QED
    BY <1>1, <1>2, <2>1, RowSteps DEF RowStep, ClaimKnown,
       ManualNeverAutomatic
<1>3. ASSUME NEW w \in Workers, inflight'[w] # Idle
      PROVE  /\ outbox'[inflight'[w].row].status # "absent"
             /\ outbox'[inflight'[w].row].kind # "manual"
             /\ inflight'[w].accepted => inflight'[w].row \in accepted'
  <2>1. CASE NewClaim(w)
    BY <1>1, <2>1, ClaimedRow DEF NewClaim
  <2>2. CASE KeptClaim(w)
    BY <1>1, <1>2, <2>2, AcceptedGrows DEF KeptClaim, ClaimKnown
  <2>3. QED
    BY <1>1, <1>3, <2>1, <2>2, ClaimSteps DEF ClaimStep
<1>4. ASSUME NEW r \in accepted'
      PROVE  outbox'[r].status # "absent" /\ outbox'[r].kind # "manual"
  <2>1. CASE r \in accepted
    <3>1. r \in Rows
      BY <1>1, <2>1 DEF TypeOK
    <3>2. QED
      BY <1>1, <2>1, <3>1, RowSteps DEF RowStep, ClaimKnown,
         ManualNeverAutomatic
  <2>2. CASE r \notin accepted
    BY <1>1, <1>2, <1>4, <2>2, AcceptedGrows
  <2>3. QED
    BY <2>1, <2>2
<1>5. QED
  BY <1>3, <1>4 DEF ClaimKnown, ManualNeverAutomatic

LEMMA NextClaimsDistinct ==
  ASSUME OutboxInv, [Next]_vars
  PROVE  ClaimsDistinct'
<1>1. TypeOK /\ TypeOK' /\ ClaimKnown /\ ClaimsDistinct
  BY NextTypeOK DEF OutboxInv
<1>2. ASSUME NEW w \in Workers, inflight[w] # Idle
      PROVE  /\ inflight[w].row \in Rows
             /\ inflight[w].attempts \in Nat
             /\ outbox[inflight[w].row].attempts \in Nat
             /\ inflight[w].attempts <= outbox[inflight[w].row].attempts
             /\ outbox'[inflight[w].row].attempts \in Nat
             /\ outbox[inflight[w].row].attempts
                    <= outbox'[inflight[w].row].attempts
  <2>1. inflight[w] \in Job /\ inflight[w].row \in Rows
    BY <1>1, <1>2, BusyIsJob
  <2>2. \A r \in Rows :
            outbox[r].attempts \in Nat /\ outbox'[r].attempts \in Nat
    BY <1>1 DEF TypeOK, Row
  <2>3. outbox[inflight[w].row].status # "absent"
    BY <1>1, <1>2 DEF ClaimKnown
  <2>4. inflight[w].attempts <= outbox[inflight[w].row].attempts
    BY <1>1, <1>2 DEF ClaimsDistinct
  <2>5. outbox[inflight[w].row].attempts
            <= outbox'[inflight[w].row].attempts
    BY <1>1, <2>1, <2>2, <2>3, RowSteps DEF RowStep
  <2>6. QED
    BY <2>1, <2>2, <2>4, <2>5 DEF Job
<1>3. ASSUME NEW w \in Workers, NewClaim(w)
      PROVE  /\ outbox[inflight'[w].row].attempts \in Nat
             /\ inflight'[w].attempts = outbox[inflight'[w].row].attempts + 1
             /\ outbox'[inflight'[w].row].attempts = inflight'[w].attempts
             /\ \A v \in Workers : v # w => inflight'[v] = inflight[v]
  BY <1>1, <1>3 DEF NewClaim, ClaimOne, TypeOK, Row
<1>4. ASSUME NEW w \in Workers, inflight'[w] # Idle
      PROVE  inflight'[w].attempts <= outbox'[inflight'[w].row].attempts
  <2>1. CASE NewClaim(w)
    BY <1>3, <2>1
  <2>2. CASE KeptClaim(w)
    BY <1>2, <2>2 DEF KeptClaim
  <2>3. QED
    BY <1>1, <1>4, <2>1, <2>2, ClaimSteps DEF ClaimStep
<1>5. ASSUME NEW v \in Workers, NEW w \in Workers, v # w,
             inflight'[v] # Idle, inflight'[w] # Idle,
             inflight'[v].row = inflight'[w].row
      PROVE  inflight'[v].attempts # inflight'[w].attempts
  <2>1. CASE NewClaim(w)
    BY <1>2, <1>3, <1>5, <2>1
  <2>2. CASE NewClaim(v)
    BY <1>2, <1>3, <1>5, <2>2
  <2>3. CASE KeptClaim(v) /\ KeptClaim(w)
    BY <1>1, <1>5, <2>3 DEF KeptClaim, ClaimsDistinct
  <2>4. QED
    BY <1>1, <1>5, <2>1, <2>2, <2>3, ClaimSteps DEF ClaimStep
<1>6. QED
  BY <1>4, <1>5 DEF ClaimsDistinct

LEMMA NextLiveSent ==
  ASSUME OutboxInv, [Next]_vars
  PROVE  LiveSentWasAccepted'
<1>1. TypeOK /\ ClaimKnown /\ LiveSentWasAccepted
  BY DEF OutboxInv
<1>2. SUFFICES ASSUME NEW r \in Rows,
                      outbox'[r].kind = "live", outbox'[r].status = "sent"
               PROVE  r \in accepted'
  BY DEF LiveSentWasAccepted
<1>3. CASE outbox[r].status = "sent"
  BY <1>1, <1>2, <1>3, RowSteps, AcceptedGrows DEF RowStep,
     LiveSentWasAccepted
<1>4. CASE outbox[r].status # "sent"
  BY <1>1, <1>2, <1>4, RowSteps, AcceptedGrows DEF RowStep, ClaimKnown
<1>5. QED
  BY <1>3, <1>4

LEMMA NextRevealed ==
  ASSUME OutboxInv, [Next]_vars
  PROVE  RevealedAtMostOnce'
<1>1. TypeOK /\ RevealedAtMostOnce
  BY DEF OutboxInv
<1>2. \A r \in Rows : outbox[r].status = "sent" => outbox'[r].status = "sent"
  BY <1>1, RowSteps DEF RowStep, FinalStatuses
<1>a. /\ holding \in [Operators -> Rows \cup {0}]
      /\ revealed \in [Rows -> Nat]
      /\ 0 \notin Rows
  BY <1>1 DEF TypeOK, Rows
<1>3. ASSUME NEW o \in Operators, NEW r \in Rows, ManualDeliver(o, r)
      PROVE  RevealedAtMostOnce'
  <2>1. outbox[r].status # "sent"
    BY <1>3 DEF ManualDeliver, Deliverable
  <2>2. revealed[r] = 0 /\ \A p \in Operators : holding[p] # r
    BY <1>1, <1>a, <2>1 DEF RevealedAtMostOnce
  <2>3. outbox'[r].status = "sent"
    BY <1>1, <1>3, WrittenRow DEF ManualDeliver, TypeOK
  <2>4. /\ holding' = [holding EXCEPT ![o] = r]
        /\ revealed' = revealed
    BY <1>3 DEF ManualDeliver
  <2>5. QED
    BY <1>1, <1>2, <1>a, <2>2, <2>3, <2>4 DEF RevealedAtMostOnce
<1>4. ASSUME NEW o \in Operators, Reveal(o)
      PROVE  RevealedAtMostOnce'
  <2> DEFINE r == holding[o]
  <2>1. r \in Rows /\ outbox' = outbox
    BY <1>4, <1>a DEF Reveal
  <2>2. /\ outbox[r].status = "sent"
        /\ revealed[r] = 0
        /\ \A p \in Operators : holding[p] = r => p = o
    BY <1>1, <2>1 DEF RevealedAtMostOnce
  <2>3. /\ revealed' = [revealed EXCEPT ![r] = @ + 1]
        /\ holding' = [holding EXCEPT ![o] = 0]
    BY <1>4 DEF Reveal
  <2> HIDE DEF r
  <2>4. QED
    BY <1>1, <1>a, <2>1, <2>2, <2>3 DEF RevealedAtMostOnce
<1>5. ASSUME NEW o \in Operators, OperatorCrash(o)
      PROVE  RevealedAtMostOnce'
  BY <1>1, <1>2, <1>5, <1>a DEF OperatorCrash, RevealedAtMostOnce
<1>6. CASE UNCHANGED <<holding, revealed>>
  BY <1>1, <1>2, <1>6 DEF RevealedAtMostOnce
<1>7. QED
  BY <1>3, <1>4, <1>5, <1>6
  DEF Next, Worker, Poll, Answer, Hub, Operator, Tick, ClaimOne, PollEmpty,
      MarkSent, MarkFailed, Crash, ProviderAccepts, Enqueue, HubMarkSent,
      HubRetry, HubCancel, ManualRefuse, vars

LEMMA NextOutboxInv == OutboxInv /\ [Next]_vars => OutboxInv'
  BY NextTypeOK, NextClaimKnown, NextClaimsDistinct, NextLiveSent,
     NextRevealed
  DEF OutboxInv

LEMMA OutboxInvariant == Spec => []OutboxInv
<1>1. Init => OutboxInv
  BY InitOutboxInv
<1>2. OutboxInv /\ [Next]_vars => OutboxInv'
  BY NextOutboxInv
<1>3. QED
  BY <1>1, <1>2, PTL DEF Spec

\* Attempt numbers single out the latest claim of a row: the compare-and-swap
\* of markSent and markFailed cannot mistake an older claim for it.
THEOREM ClaimsAreDistinct == Spec => []ClaimsDistinct
  BY OutboxInvariant, PTL DEF OutboxInv

\* A live row is recorded as sent only after its provider accepted it.
THEOREM SentWasAccepted == Spec => []LiveSentWasAccepted
  BY OutboxInvariant, PTL DEF OutboxInv

\* No worker ever handles a manual row.
THEOREM ManualStaysManual == Spec => []ManualNeverAutomatic
  BY OutboxInvariant, PTL DEF OutboxInv

\* A one-time link is printed at most once, however many operators run.
THEOREM RevealIsOnce == Spec => []RevealedAtMostOnce
  BY OutboxInvariant, PTL DEF OutboxInv

-----------------------------------------------------------------------------
(* The automatic retries stop, with one server process.                    *)

Attended(r) == \E w \in Workers : inflight[w] # Idle /\ inflight[w].row = r

Budget(r) == MaxAttempts + retries[r] + crashes

\* A row that may be claimed has an attempt left in its budget.
AttemptsLeft(r) ==
    /\ outbox[r].attempts <= Budget(r)
    /\ \/ outbox[r].status = "pending"
       \/ outbox[r].status = "processing" /\ ~ Attended(r)
       => outbox[r].attempts < Budget(r)

\* The claim of a row that is being processed is the one that counts: without
\* a second process nobody takes the row over, and a lease that runs out
\* finds its worker busy.
BudgetInv ==
    /\ \A w \in Workers :
          /\ inflight[w] # Idle
          /\ outbox[inflight[w].row].status = "processing"
          => ClaimStands(w)
    /\ \A r \in Rows : outbox[r].kind # "manual" => AttemptsLeft(r)

LEMMA InitBudgetInv == Init => BudgetInv
<1> SUFFICES ASSUME Init PROVE BudgetInv
  OBVIOUS
<1>1. \A w \in Workers : inflight[w] = Idle
  BY DEF Init
<1>2. ASSUME NEW r \in Rows, outbox[r].kind # "manual"
      PROVE  AttemptsLeft(r)
  <2>1. outbox[r] = Absent /\ retries[r] = 0 /\ crashes = 0
    BY <1>2 DEF Init, LegacyRow
  <2>2. QED
    BY <2>1, OutboxAssumption DEF AttemptsLeft, Budget, Absent, NewRow
<1>3. QED
  BY <1>1, <1>2 DEF BudgetInv

\* A step that leaves a row's status and attempts, who attends to it, and the
\* budgets alone, or raises them, leaves it its attempts.
LEMMA SameAttemptsLeft ==
  ASSUME TypeOK, TypeOK', NEW r \in Rows,
         AttemptsLeft(r),
         outbox'[r].status = outbox[r].status,
         outbox'[r].attempts = outbox[r].attempts,
         Attended(r) => Attended(r)',
         Budget(r)' >= Budget(r)
  PROVE  AttemptsLeft(r)'
<1>1. /\ Budget(r) \in Nat /\ Budget(r)' \in Nat
      /\ outbox[r].attempts \in Nat
  BY OutboxAssumption DEF TypeOK, Row, Budget
<1>2. QED
  BY <1>1 DEF AttemptsLeft

\* An UPDATE that leaves the attempts alone, of a row with attempts left
\* unless it becomes final or failed.
LEMMA UpdateAttemptsLeft ==
  ASSUME TypeOK, TypeOK', NEW q \in Rows, NEW status, NEW wait,
         outbox' = Written(outbox, q, status, outbox[q].attempts, wait),
         inflight' = inflight,
         \A r \in Rows : Budget(r)' >= Budget(r),
         status # "processing",
         status = "pending" /\ outbox[q].kind # "manual"
             => outbox[q].attempts < Budget(q)',
         BudgetInv
  PROVE  BudgetInv'
<1>1. /\ outbox'[q].status = status
      /\ outbox'[q].attempts = outbox[q].attempts
      /\ outbox'[q].kind = outbox[q].kind
      /\ \A r \in Rows : r # q => outbox'[r] = outbox[r]
  BY WrittenRow DEF TypeOK
<1>2. ASSUME NEW w \in Workers,
             inflight'[w] # Idle,
             outbox'[inflight'[w].row].status = "processing"
      PROVE  ClaimStands(w)'
  <2>1. inflight[w] # Idle /\ inflight[w].row \in Rows \ {q}
    BY <1>1, <1>2, BusyIsJob
  <2>2. QED
    BY <1>1, <1>2, <2>1 DEF BudgetInv, ClaimStands
<1>3. ASSUME NEW r \in Rows, outbox'[r].kind # "manual"
      PROVE  AttemptsLeft(r)'
  <2>1. AttemptsLeft(r)
    BY <1>1, <1>3 DEF BudgetInv
  <2>2. CASE r # q
    BY <1>1, <2>1, <2>2, SameAttemptsLeft DEF Attended
  <2>3. CASE r = q
    <3>1. /\ Budget(q) \in Nat /\ Budget(q)' \in Nat
          /\ outbox[q].attempts \in Nat
      BY OutboxAssumption DEF TypeOK, Row, Budget
    <3>2. outbox[q].attempts <= Budget(q)'
      BY <2>1, <2>3, <3>1 DEF AttemptsLeft
    <3>3. QED
      BY <1>1, <1>3, <2>3, <3>1, <3>2 DEF AttemptsLeft
  <2>4. QED
    BY <2>2, <2>3
<1>4. QED
  BY <1>2, <1>3 DEF BudgetInv

LEMMA NextBudgetInv ==
  ASSUME \A v, w \in Workers : v = w,
         OutboxInv, [Next]_vars, BudgetInv
  PROVE  BudgetInv'
<1>a. TypeOK /\ TypeOK' /\ ClaimKnown
  BY NextTypeOK DEF OutboxInv
<1>b. \A r \in Rows : /\ Budget(r) \in Nat
                      /\ outbox[r].attempts \in Nat
                      /\ retries[r] \in Nat
  BY <1>a, OutboxAssumption DEF TypeOK, Row, Budget
<1>c. /\ outbox \in [Rows -> Row]
      /\ inflight \in [Workers -> Job \cup {Idle}]
      /\ retries \in [Rows -> Nat] /\ crashes \in Nat
  BY <1>a DEF TypeOK
<1>1. CASE Tick
  <2>1. ASSUME NEW r \in Rows
        PROVE  /\ outbox'[r].status = outbox[r].status
               /\ outbox'[r].kind = outbox[r].kind
               /\ outbox'[r].attempts = outbox[r].attempts
               /\ outbox'[r].age = Older(outbox[r].age)
    <3>1. outbox[r] \in Row
      BY <1>c
    <3>2. outbox'[r] = [outbox[r] EXCEPT !.age = Older(@),
                                  !.wait = IF @ = 0 THEN 0 ELSE @ - 1]
      BY <1>1 DEF Tick
    <3>3. QED
      BY <3>1, <3>2 DEF Row
  <2>2. ASSUME NEW w \in Workers
        PROVE  /\ inflight'[w] # Idle <=> inflight[w] # Idle
               /\ inflight[w] # Idle =>
                     /\ inflight'[w].row = inflight[w].row
                     /\ inflight'[w].attempts = inflight[w].attempts
                     /\ inflight'[w].age = Older(inflight[w].age)
    <3>1. CASE inflight[w] = Idle
      BY <1>1, <3>1 DEF Tick
    <3>2. CASE inflight[w] # Idle
      <4>1. inflight[w] \in Job
        BY <1>a, <3>2, BusyIsJob
      <4>2. inflight'[w] = [inflight[w] EXCEPT !.age = Older(@)]
        BY <1>1, <3>2 DEF Tick
      <4>3. /\ inflight'[w].row = inflight[w].row
            /\ inflight'[w].attempts = inflight[w].attempts
            /\ inflight'[w].age = Older(inflight[w].age)
        BY <4>1, <4>2 DEF Job
      <4>4. inflight'[w].attempts # 0
        BY <4>1, <4>3 DEF Job
      <4>5. QED
        BY <3>2, <4>3, <4>4 DEF Idle
    <3>3. QED
      BY <3>1, <3>2
  <2>3. ASSUME NEW w \in Workers,
               inflight'[w] # Idle,
               outbox'[inflight'[w].row].status = "processing"
        PROVE  ClaimStands(w)'
    <3>1. inflight[w] # Idle /\ inflight[w].row \in Rows
      BY <1>a, <2>2, <2>3, BusyIsJob
    <3>2. ClaimStands(w)
      BY <2>1, <2>2, <2>3, <3>1 DEF BudgetInv
    <3>3. QED
      BY <2>1, <2>2, <2>3, <3>1, <3>2 DEF ClaimStands
  <2>4. ASSUME NEW r \in Rows, outbox'[r].kind # "manual"
        PROVE  AttemptsLeft(r)'
    <3>1. Budget(r)' = Budget(r)
      BY <1>1 DEF Tick, Budget
    <3>2. Attended(r) => Attended(r)'
      BY <2>2 DEF Attended
    <3>3. QED
      BY <1>a, <1>b, <2>1, <2>4, <3>1, <3>2, SameAttemptsLeft DEF BudgetInv
  <2>5. QED
    BY <2>3, <2>4 DEF BudgetInv
\* Recovery touches manual rows only.
<1>d. ASSUME NEW r \in Rows, outbox[r].kind # "manual"
      PROVE  Recovered[r] = outbox[r]
  BY <1>c, <1>d, RecoveredRow DEF AbandonedManual
<1>2. ASSUME NEW w \in Workers, NEW q \in Rows, ClaimOne(w, q)
      PROVE  BudgetInv'
  <2>1. /\ outbox'[q].status = "processing"
        /\ outbox'[q].attempts = outbox[q].attempts + 1
        /\ outbox'[q].age = 0
        /\ outbox'[q].kind = outbox[q].kind
        /\ \A r \in Rows : r # q => outbox'[r] = Recovered[r]
    <3>1. Recovered \in [Rows -> Row]
      BY <1>c, RecoveredRow
    <3>2. Recovered[q].kind = outbox[q].kind
      BY <1>c, RecoveredRow
    <3>3. outbox' = Written(Recovered, q, "processing", outbox[q].attempts + 1,
                            outbox[q].wait)
      BY <1>2 DEF ClaimOne, NextAttempt
    <3>4. outbox'[q].age = 0
      BY <3>1, <3>3 DEF Written, Row
    <3>5. QED
      BY <3>1, <3>2, <3>3, <3>4, WrittenRow
  <2>2. /\ outbox[q].kind # "manual"
        /\ outbox[q].status \in {"pending", "processing"}
        /\ inflight[w] = Idle
    BY <1>2 DEF ClaimOne, Claimable
  <2>3. \A v \in Workers : v = w
    BY <1>2
  <2>4. inflight'[w] = [row |-> q, attempts |-> outbox[q].attempts + 1,
                        age |-> 0, accepted |-> FALSE]
    BY <1>2, <1>c DEF ClaimOne, NextAttempt
  <2>5. ClaimStands(w)'
    BY <2>1, <2>4 DEF ClaimStands
  <2>6. outbox[q].attempts < Budget(q)
    <3>1. ~ Attended(q)
      BY <2>2, <2>3 DEF Attended
    <3>2. QED
      BY <2>2, <3>1 DEF BudgetInv, AttemptsLeft
  <2>7. \A r \in Rows : Budget(r)' = Budget(r)
    BY <1>2 DEF ClaimOne, Budget
  <2>8. AttemptsLeft(q)'
    <3>1. Attended(q)'
      <4>1. inflight'[w] # Idle
        BY <2>4, <1>b DEF Idle, Rows
      <4>2. QED
        BY <2>4, <4>1 DEF Attended
    <3>2. QED
      BY <1>b, <2>1, <2>6, <2>7, <3>1 DEF AttemptsLeft
  <2>9. ASSUME NEW r \in Rows, r # q, outbox'[r].kind # "manual"
        PROVE  AttemptsLeft(r)'
    <3>1. outbox[r].kind # "manual"
      BY <1>c, <2>1, <2>9, RecoveredRow
    <3>2. outbox'[r] = outbox[r]
      BY <1>d, <2>1, <2>9, <3>1
    <3>3. ~ Attended(r)
      BY <2>2, <2>3 DEF Attended
    <3>4. QED
      BY <1>a, <1>b, <2>7, <3>1, <3>2, <3>3, SameAttemptsLeft DEF BudgetInv
  <2>10. QED
    BY <2>3, <2>5, <2>8, <2>9 DEF BudgetInv
<1>3. ASSUME NEW w \in Workers, PollEmpty(w)
      PROVE  BudgetInv'
  <2>1. inflight[w] = Idle /\ outbox' = Recovered /\ inflight' = inflight
    BY <1>3 DEF PollEmpty
  <2>2. \A r \in Rows : Budget(r)' = Budget(r)
    BY <1>3 DEF PollEmpty, Budget
  <2>3. ASSUME NEW r \in Rows, outbox'[r].kind # "manual"
        PROVE  AttemptsLeft(r)'
    <3>1. outbox[r].kind # "manual"
      BY <1>c, <2>1, <2>3, RecoveredRow
    <3>2. outbox'[r] = outbox[r]
      BY <1>d, <2>1, <3>1
    <3>3. Attended(r) => Attended(r)'
      BY <2>1 DEF Attended
    <3>4. QED
      BY <1>a, <1>b, <2>2, <3>1, <3>2, <3>3, SameAttemptsLeft DEF BudgetInv
  <2>4. \A v \in Workers : inflight'[v] = Idle
    BY <2>1
  <2>5. QED
    BY <2>3, <2>4 DEF BudgetInv
<1>4. ASSUME NEW w \in Workers, ProviderAccepts(w)
      PROVE  BudgetInv'
  <2>1. outbox' = outbox /\ inflight[w] # Idle /\ inflight[w] \in Job
    BY <1>4, <1>a, BusyIsJob DEF ProviderAccepts
  <2>2. inflight'[w] = [inflight[w] EXCEPT !.accepted = TRUE]
    BY <1>4, <1>c DEF ProviderAccepts
  <2>3. /\ inflight'[w].row = inflight[w].row
        /\ inflight'[w].attempts = inflight[w].attempts
        /\ inflight'[w].age = inflight[w].age
        /\ inflight'[w] # Idle
    BY <2>1, <2>2 DEF Job, Idle
  <2>4. \A v \in Workers : v = w
    OBVIOUS
  <2>5. \A r \in Rows : Budget(r)' = Budget(r)
    BY <1>4 DEF ProviderAccepts, Budget
  <2>6. \A r \in Rows : Attended(r) => Attended(r)'
    BY <2>3, <2>4 DEF Attended
  <2>7. ASSUME NEW r \in Rows, outbox'[r].kind # "manual"
        PROVE  AttemptsLeft(r)'
    BY <1>a, <1>b, <2>1, <2>5, <2>6, <2>7, SameAttemptsLeft DEF BudgetInv
  <2>8. QED
    BY <2>1, <2>3, <2>4, <2>7 DEF BudgetInv, ClaimStands
\* The worker lets go of a row that is not, or no longer, being processed.
<1>5. ASSUME NEW w \in Workers, inflight' = [inflight EXCEPT ![w] = Idle],
             inflight[w] # Idle,
             \A r \in Rows : Budget(r)' = Budget(r),
             \A r \in Rows : r # inflight[w].row => outbox'[r] = outbox[r],
             outbox'[inflight[w].row].kind = outbox[inflight[w].row].kind,
             outbox'[inflight[w].row].attempts
                 = outbox[inflight[w].row].attempts,
             outbox'[inflight[w].row].status # "processing",
             outbox[inflight[w].row].kind # "manual" =>
                 \/ outbox'[inflight[w].row].status # "pending"
                 \/ outbox[inflight[w].row].attempts < Budget(inflight[w].row)
      PROVE  BudgetInv'
  <2>1. \A v \in Workers : inflight'[v] = Idle
    BY <1>5, <1>c
  <2> DEFINE q == inflight[w].row
  <2>2. q \in Rows
    BY <1>5, <1>a, BusyIsJob
  <2>3. \A r \in Rows : Attended(r) => r = q
    BY <1>5 DEF Attended
  <2>4. ASSUME NEW r \in Rows, outbox'[r].kind # "manual"
        PROVE  AttemptsLeft(r)'
    <3>1. CASE r = q
      BY <1>5, <1>b, <2>4, <3>1 DEF BudgetInv, AttemptsLeft
    <3>2. CASE r # q
      <4>1. ~ Attended(r) /\ outbox'[r] = outbox[r]
        BY <1>5, <2>3, <3>2
      <4>2. QED
        BY <1>5, <1>a, <1>b, <2>4, <4>1, SameAttemptsLeft DEF BudgetInv
    <3>3. QED
      BY <3>1, <3>2
  <2>5. QED
    BY <2>1, <2>4 DEF BudgetInv
<1>6. ASSUME NEW w \in Workers, MarkSent(w)
      PROVE  BudgetInv'
  <2> DEFINE q == inflight[w].row
  <2>1. /\ inflight[w] # Idle
        /\ inflight' = [inflight EXCEPT ![w] = Idle]
        /\ \A r \in Rows : Budget(r)' = Budget(r)
    BY <1>6 DEF MarkSent, Budget
  <2>2. q \in Rows
    BY <1>a, <2>1, BusyIsJob
  <2>3. CASE ClaimStands(w)
    <3>1. outbox' = Written(outbox, q, "sent", outbox[q].attempts, 0)
      BY <1>6, <2>3 DEF MarkSent
    <3> HIDE DEF q
    <3>2. /\ outbox'[q].status = "sent"
          /\ outbox'[q].attempts = outbox[q].attempts
          /\ outbox'[q].kind = outbox[q].kind
          /\ \A r \in Rows : r # q => outbox'[r] = outbox[r]
      BY <1>c, <2>2, <3>1, WrittenRow
    <3>3. QED
      BY <1>5, <2>1, <3>2 DEF q
  <2>4. CASE ~ ClaimStands(w)
    <3>1. outbox' = outbox
      BY <1>6, <2>4 DEF MarkSent
    <3>2. outbox[q].status # "processing"
      BY <2>1, <2>4 DEF BudgetInv
    <3>3. outbox[q].kind # "manual" /\ outbox[q].status = "pending"
              => outbox[q].attempts < Budget(q)
      BY <2>2 DEF BudgetInv, AttemptsLeft
    <3>4. QED
      BY <1>5, <2>1, <3>1, <3>2, <3>3
  <2>5. QED
    BY <2>3, <2>4
<1>7. ASSUME NEW w \in Workers, MarkFailed(w)
      PROVE  BudgetInv'
  <2> DEFINE q == inflight[w].row
             final == Terminal(inflight[w].attempts)
             next == IF final THEN "failed" ELSE "pending"
             wait == IF final THEN 0 ELSE RetryDelay(inflight[w].attempts)
  <2>1. /\ inflight[w] # Idle
        /\ inflight' = [inflight EXCEPT ![w] = Idle]
        /\ \A r \in Rows : Budget(r)' = Budget(r)
    BY <1>7 DEF MarkFailed, Budget
  <2>2. q \in Rows
    BY <1>a, <2>1, BusyIsJob
  <2>3. CASE ClaimStands(w)
    <3>1. outbox' = Written(outbox, q, next, outbox[q].attempts, wait)
      BY <1>7, <2>3 DEF MarkFailed
    <3>2. outbox[q].attempts = inflight[w].attempts
      BY <2>3 DEF ClaimStands
    <3>3. next = "pending" => outbox[q].attempts < Budget(q)
      <4>1. SUFFICES ASSUME ~ final PROVE outbox[q].attempts < Budget(q)
        OBVIOUS
      <4>2. ~ (outbox[q].attempts >= MaxAttempts)
        BY <3>2, <4>1 DEF Terminal
      <4> HIDE DEF q
      <4>3. QED
        BY <1>b, <1>c, <2>2, <4>2, OutboxAssumption DEF Budget
    <3>4. next # "processing"
      OBVIOUS
    <3> HIDE DEF q, next, wait, final
    <3>5. /\ outbox'[q].status = next
          /\ outbox'[q].attempts = outbox[q].attempts
          /\ outbox'[q].kind = outbox[q].kind
          /\ \A r \in Rows : r # q => outbox'[r] = outbox[r]
      BY <1>c, <2>2, <3>1, WrittenRow
    <3>6. QED
      BY <1>5, <2>1, <3>3, <3>4, <3>5 DEF q
  <2>4. CASE ~ ClaimStands(w)
    <3>1. outbox' = outbox
      BY <1>7, <2>4 DEF MarkFailed
    <3>2. outbox[q].status # "processing"
      BY <2>1, <2>4 DEF BudgetInv
    <3>3. outbox[q].kind # "manual" /\ outbox[q].status = "pending"
              => outbox[q].attempts < Budget(q)
      BY <2>2 DEF BudgetInv, AttemptsLeft
    <3>4. QED
      BY <1>5, <2>1, <3>1, <3>2, <3>3
  <2>5. QED
    BY <2>3, <2>4
\* A crash leaves a claim behind, and gives every row one attempt more.
<1>8. ASSUME NEW w \in Workers, Crash(w)
      PROVE  BudgetInv'
  <2>1. \A v \in Workers : inflight'[v] = Idle
    BY <1>8, <1>c DEF Crash
  <2>2. \A r \in Rows : Budget(r)' = Budget(r) + 1
    BY <1>8, <1>c, OutboxAssumption DEF Crash, Budget
  <2>3. outbox' = outbox
    BY <1>8 DEF Crash
  <2>4. QED
    BY <1>b, <2>1, <2>2, <2>3 DEF BudgetInv, AttemptsLeft
<1>9. ASSUME NEW r \in Rows, NEW kind \in Kinds, Enqueue(r, kind)
      PROVE  BudgetInv'
  <2>1. /\ outbox[r].status = "absent" /\ inflight' = inflight
        /\ outbox'[r] = NewRow(kind)
        /\ \A q \in Rows : q # r => outbox'[q] = outbox[q]
        /\ \A q \in Rows : Budget(q)' = Budget(q)
    BY <1>9, <1>c DEF Enqueue, Budget
  <2>2. \A q \in Rows : Attended(q)' <=> Attended(q)
    BY <2>1 DEF Attended
  <2>3. \A w \in Workers : inflight[w] # Idle => inflight[w].row # r
    BY <1>a, <2>1 DEF ClaimKnown
  <2>4. \A w \in Workers : inflight[w] # Idle => inflight[w].row \in Rows
    BY <1>a, BusyIsJob
  <2>5. AttemptsLeft(r)'
    <3>1. Budget(r) >= MaxAttempts
      BY <1>b, <1>c, OutboxAssumption DEF Budget
    <3>2. outbox'[r].attempts = 0 /\ 0 < Budget(r)' /\ 0 <= Budget(r)'
      BY <1>b, <2>1, <3>1, OutboxAssumption DEF NewRow
    <3>3. QED
      BY <3>2 DEF AttemptsLeft
  <2>6. QED
    BY <2>1, <2>2, <2>3, <2>4, <2>5 DEF BudgetInv, AttemptsLeft, ClaimStands
<1>10. ASSUME NEW r \in Rows, HubMarkSent(r) \/ HubRetry(r) \/ HubCancel(r)
       PROVE  BudgetInv'
  <2>1. CASE HubMarkSent(r)
    <3>1. \A q \in Rows : Budget(q)' >= Budget(q)
      BY <1>b, <2>1 DEF HubMarkSent, Budget
    <3>2. QED
      BY <1>a, <2>1, <3>1, UpdateAttemptsLeft DEF HubMarkSent
  <2>2. CASE HubCancel(r)
    <3>1. \A q \in Rows : Budget(q)' >= Budget(q)
      BY <1>b, <2>2 DEF HubCancel, Budget
    <3>2. QED
      BY <1>a, <2>2, <3>1, UpdateAttemptsLeft DEF HubCancel
  <2>3. CASE HubRetry(r)
    <3>1. /\ Budget(r)' = Budget(r) + 1
          /\ \A q \in Rows : q # r => Budget(q)' = Budget(q)
      BY <1>c, <2>3, OutboxAssumption DEF HubRetry, Budget
    <3>2. \A q \in Rows : Budget(q)' >= Budget(q)
      BY <1>b, <3>1
    <3>3. outbox[r].kind # "manual" => outbox[r].attempts < Budget(r)'
      BY <1>b, <3>1 DEF BudgetInv, AttemptsLeft
    <3>4. QED
      BY <1>a, <2>3, <3>2, <3>3, UpdateAttemptsLeft DEF HubRetry
  <2>4. QED
    BY <1>10, <2>1, <2>2, <2>3
<1>11. ASSUME NEW o \in Operators, NEW q \in Rows,
              ManualDeliver(o, q) \/ ManualRefuse(o, q)
       PROVE  BudgetInv'
  <2>1. /\ outbox[q].kind = "manual" /\ inflight' = inflight
        /\ \A r \in Rows : Budget(r)' = Budget(r)
    BY <1>11 DEF ManualDeliver, ManualRefuse, Deliverable, Budget
  <2>2. \E status \in {"sent", "failed"} :
            outbox' = Written(outbox, q, status, outbox[q].attempts + 1, 0)
    BY <1>11 DEF ManualDeliver, ManualRefuse
  <2>3. /\ outbox'[q].kind = "manual"
        /\ outbox'[q].status # "processing"
        /\ \A r \in Rows : r # q => outbox'[r] = outbox[r]
    BY <1>c, <2>1, <2>2, WrittenRow
  <2>4. \A r \in Rows : Attended(r)' <=> Attended(r)
    BY <2>1 DEF Attended
  <2>5. \A w \in Workers : inflight[w] # Idle => inflight[w].row \in Rows
    BY <1>a, BusyIsJob
  <2>6. QED
    BY <2>1, <2>3, <2>4, <2>5 DEF BudgetInv, AttemptsLeft, ClaimStands
<1>12. CASE UNCHANGED <<outbox, inflight, retries, crashes>>
  BY <1>12 DEF BudgetInv, AttemptsLeft, Attended, Budget, ClaimStands
<1>13. QED
  BY <1>1, <1>2, <1>3, <1>4, <1>6, <1>7, <1>8, <1>9, <1>10, <1>11, <1>12
  DEF Next, Worker, Poll, Answer, Hub, Operator, Reveal, OperatorCrash, vars

\* With one server process the automatic retries stop: a message is attempted
\* at most MaxAttempts times, and once more for every retry an administrator
\* asked for and every crash.  (Two processes can take a row from each other
\* for ever, when every delivery outlasts the lease.)
THEOREM RetriesStop ==
  ASSUME \A v, w \in Workers : v = w
  PROVE  Spec => []RetryBudget
<1>1. Init => BudgetInv
  BY InitBudgetInv
<1>2. OutboxInv /\ BudgetInv /\ [Next]_vars => BudgetInv'
  BY NextBudgetInv
<1>3. BudgetInv => RetryBudget
  BY DEF BudgetInv, AttemptsLeft, Budget, RetryBudget
<1>4. QED
  BY <1>1, <1>2, <1>3, OutboxInvariant, PTL DEF Spec

-----------------------------------------------------------------------------
(* The outbox implements the message lifecycle.                            *)

\* One row changes its outcome, or none does.
OneOutcome(r, result) ==
    /\ Outcome(r)' = result
    /\ \A q \in Rows : q # r => Outcome(q)' = Outcome(q)

LEMMA OneOutcomeBar ==
  ASSUME NEW r \in Rows, NEW result, OneOutcome(r, result)
  PROVE  outcomeBar' = [outcomeBar EXCEPT ![r] = result]
  BY DEF OneOutcome, outcomeBar

LEMMA SameOutcomeBar ==
  ASSUME \A q \in Rows : Outcome(q)' = Outcome(q)
  PROVE  outcomeBar' = outcomeBar
  BY DEF outcomeBar

\* Only the print discloses.
LEMMA DisclosedOnlyByReveal ==
  ASSUME [Next]_vars
  PROVE  disclosedBar' = disclosedBar \/ \E o \in Operators : Reveal(o)
<1>1. UNCHANGED revealed \/ \E o \in Operators : Reveal(o)
  BY DEF Next, Worker, Poll, Answer, Hub, Operator, Tick, ClaimOne, PollEmpty,
     MarkSent, MarkFailed, Crash, ProviderAccepts, Enqueue, HubMarkSent,
     HubRetry, HubCancel, ManualDeliver, ManualRefuse, OperatorCrash, vars
<1>2. QED
  BY <1>1 DEF disclosedBar

\* Outcomes move as the lifecycle allows, one row at a time.
LEMMA OutcomeSteps ==
  ASSUME TypeOK, [Next]_vars
  PROVE  \/ \A q \in Rows : Outcome(q)' = Outcome(q)
         \/ \E r \in Rows : Outcome(r) = "none" /\ OneOutcome(r, "open")
         \/ \E r \in Rows, result \in {"sent", "cancelled"} :
                Outcome(r) = "open" /\ OneOutcome(r, result)
<1> DEFINE Goal == \/ \A q \in Rows : Outcome(q)' = Outcome(q)
                   \/ \E r \in Rows :
                          Outcome(r) = "none" /\ OneOutcome(r, "open")
                   \/ \E r \in Rows, result \in {"sent", "cancelled"} :
                          Outcome(r) = "open" /\ OneOutcome(r, result)
<1> USE DEF FinalStatuses, OneOutcome, Outcome
<1>a. outbox \in [Rows -> Row]
  BY DEF TypeOK
<1>1. CASE Tick
  <2>1. ASSUME NEW r \in Rows PROVE outbox'[r].status = outbox[r].status
    BY <1>a, <1>1 DEF Tick, Row
  <2>2. QED
    BY <2>1
<1>b. \A r \in Rows : Recovered[r].status = outbox[r].status
                    \/ /\ outbox[r].status = "processing"
                       /\ Recovered[r].status = "pending"
  BY <1>a, RecoveredRow DEF AbandonedManual
<1>2. ASSUME NEW w \in Workers, NEW q \in Rows, ClaimOne(w, q)
      PROVE  Goal
  <2>1. /\ outbox'[q].status = "processing"
        /\ \A r \in Rows : r # q => outbox'[r] = Recovered[r]
    BY <1>2, <1>a, RecoveredRow, WrittenRow DEF ClaimOne
  <2>2. outbox[q].status \in {"pending", "processing"}
    BY <1>2 DEF ClaimOne, Claimable
  <2>3. QED
    BY <1>b, <2>1, <2>2
<1>3. ASSUME NEW w \in Workers, PollEmpty(w)
      PROVE  Goal
  BY <1>3, <1>b DEF PollEmpty
\* An UPDATE of an open row leaves it open or settles it.
<1>4. ASSUME NEW q \in Rows, NEW status, NEW attempts, NEW wait,
             outbox' = Written(outbox, q, status, attempts, wait),
             \/ /\ outbox[q].status \in {"pending", "processing", "failed"}
                /\ status \in {"pending", "failed", "sent", "cancelled"}
             \/ outbox[q].status = "cancelled" /\ status = "cancelled"
      PROVE  Goal
  <2>1. /\ outbox'[q].status = status
        /\ \A r \in Rows : r # q => outbox'[r] = outbox[r]
    BY <1>a, <1>4, WrittenRow
  <2>2. QED
    BY <1>4, <2>1
<1>5. ASSUME NEW w \in Workers, MarkSent(w) \/ MarkFailed(w)
      PROVE  Goal
  <2> DEFINE q == inflight[w].row
             next == IF Terminal(inflight[w].attempts)
                     THEN "failed" ELSE "pending"
             wait == IF Terminal(inflight[w].attempts)
                     THEN 0 ELSE RetryDelay(inflight[w].attempts)
  <2>1. q \in Rows
    BY <1>5, BusyIsJob DEF MarkSent, MarkFailed
  <2>2. \/ outbox' = outbox
        \/ /\ outbox[q].status = "processing"
           /\ \/ outbox' = Written(outbox, q, "sent", outbox[q].attempts, 0)
              \/ outbox' = Written(outbox, q, next, outbox[q].attempts, wait)
    BY <1>5 DEF MarkSent, MarkFailed, ClaimStands
  <2>3. next \in {"pending", "failed"}
    OBVIOUS
  <2> HIDE DEF q, next, wait
  <2>4. QED
    BY <1>4, <2>1, <2>2, <2>3
<1>6. ASSUME NEW q \in Rows, HubMarkSent(q) \/ HubRetry(q) \/ HubCancel(q)
      PROVE  Goal
  <2>1. outbox[q].status \in Statuses
    BY <1>a DEF Row
  <2>2. CASE HubMarkSent(q)
    BY <1>4, <2>1, <2>2 DEF HubMarkSent, Statuses
  <2>3. CASE HubRetry(q)
    BY <1>4, <2>1, <2>3 DEF HubRetry, Statuses
  <2>4. CASE HubCancel(q)
    BY <1>4, <2>1, <2>4 DEF HubCancel, Cancellable, Statuses
  <2>5. QED
    BY <1>6, <2>2, <2>3, <2>4
<1>7. ASSUME NEW o \in Operators, NEW q \in Rows,
             ManualDeliver(o, q) \/ ManualRefuse(o, q)
      PROVE  Goal
  BY <1>4, <1>7 DEF ManualDeliver, ManualRefuse, Deliverable
<1>8. ASSUME NEW q \in Rows, NEW kind \in Kinds, Enqueue(q, kind)
      PROVE  Goal
  BY <1>8, <1>a DEF Enqueue, NewRow
<1>9. CASE UNCHANGED outbox
  BY <1>9
<1>10. QED
  BY <1>1, <1>2, <1>3, <1>5, <1>6, <1>7, <1>8, <1>9
  DEF Next, Worker, Poll, Answer, Hub, Operator, ProviderAccepts, Crash,
      Reveal, OperatorCrash, vars

\* The row that is printed is marked sent and was never printed before.
LEMMA RevealDiscloses ==
  ASSUME OutboxInv, NEW o \in Operators, Reveal(o)
  PROVE  \E r \in Rows : Lifecycle!Disclose(r)
<1> DEFINE r == holding[o]
<1>1. /\ r \in Rows
      /\ revealed \in [Rows -> Nat]
      /\ outbox[r].status = "sent"
      /\ revealed[r] = 0
  BY DEF OutboxInv, TypeOK, Reveal, RevealedAtMostOnce
<1>2. revealed' = [revealed EXCEPT ![r] = @ + 1] /\ outbox' = outbox
  BY DEF Reveal
<1> HIDE DEF r
<1>3. r \notin disclosedBar /\ disclosedBar' = disclosedBar \cup {r}
  BY <1>1, <1>2 DEF disclosedBar
<1>4. outcomeBar[r] = "sent" /\ outcomeBar' = outcomeBar
  BY <1>1, <1>2 DEF outcomeBar, Outcome, FinalStatuses
<1>5. QED
  BY <1>1, <1>3, <1>4 DEF Lifecycle!Disclose

LEMMA LifecycleStep ==
  ASSUME OutboxInv, [Next]_vars
  PROVE  [Lifecycle!Next]_<<outcomeBar, disclosedBar>>
<1>1. CASE \E o \in Operators : Reveal(o)
  BY <1>1, RevealDiscloses DEF Lifecycle!Next
<1>2. CASE disclosedBar' = disclosedBar
  <2>1. TypeOK
    BY DEF OutboxInv
  <2>2. CASE \A q \in Rows : Outcome(q)' = Outcome(q)
    BY <1>2, <2>2, SameOutcomeBar
  <2>3. ASSUME NEW r \in Rows, Outcome(r) = "none", OneOutcome(r, "open")
        PROVE  Lifecycle!Next
    <3>1. outcomeBar[r] = "none"
      BY <2>3 DEF outcomeBar
    <3>2. outcomeBar' = [outcomeBar EXCEPT ![r] = "open"]
      BY <2>3, OneOutcomeBar
    <3>3. QED
      BY <1>2, <3>1, <3>2 DEF Lifecycle!Next, Lifecycle!Create
  <2>4. ASSUME NEW r \in Rows, NEW result \in {"sent", "cancelled"},
               Outcome(r) = "open", OneOutcome(r, result)
        PROVE  Lifecycle!Next
    <3>1. outcomeBar[r] = "open"
      BY <2>4 DEF outcomeBar
    <3>2. outcomeBar' = [outcomeBar EXCEPT ![r] = result]
      BY <2>4, OneOutcomeBar
    <3>3. QED
      BY <1>2, <3>1, <3>2 DEF Lifecycle!Next, Lifecycle!Settle
  <2>5. QED
    BY <2>1, <2>2, <2>3, <2>4, OutcomeSteps
<1>3. QED
  BY <1>1, <1>2, DisclosedOnlyByReveal

LEMMA LifecycleInit == Init => Lifecycle!Init
<1> SUFFICES ASSUME Init PROVE Lifecycle!Init
  OBVIOUS
<1>1. ASSUME NEW r \in Rows PROVE Outcome(r) \in {"none", "open"}
  BY DEF Init, Outcome, Absent, LegacyRow, NewRow, FinalStatuses
<1>2. disclosedBar = {}
  BY DEF Init, disclosedBar
<1>3. QED
  BY <1>1, <1>2 DEF Lifecycle!Init, outcomeBar

\* The outbox implements the message lifecycle: whoever works on a message,
\* it is sent or cancelled at most once, never both, and its secret is
\* disclosed at most once, only after it was marked sent.
THEOREM OutboxImplementsLifecycle == Spec => ImplementsLifecycle
<1>1. Init => Lifecycle!Init
  BY LifecycleInit
<1>2. OutboxInv /\ [Next]_vars => [Lifecycle!Next]_<<outcomeBar, disclosedBar>>
  BY LifecycleStep
<1>3. QED
  BY <1>1, <1>2, OutboxInvariant, PTL DEF Spec, ImplementsLifecycle,
     Lifecycle!Spec
=============================================================================
