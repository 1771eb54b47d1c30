------------------------------ MODULE AuditChain ------------------------------
(***************************************************************************)
(* The chain of audit events (src/enterprise-audit.js).  append reads the  *)
(* hash of the last event and then inserts the next.  The server calls it  *)
(* in the transaction of the change it reports, or after it without one;   *)
(* the operator's command (scripts/manual-notification.js), a process of   *)
(* its own, calls it in a transaction.  Only one process at a time holds a *)
(* transaction.  A hash is what its event is the only one to have: its     *)
(* place in the table.                                                     *)
(***************************************************************************)
EXTENDS Nullable, Naturals, Sequences

CONSTANTS
    MaxEvents  \* bound on the length of the chain

ASSUME ChainAssumption == MaxEvents \in Nat /\ NULL \notin Nat

VARIABLES
    events,       \* events[i]: the previous hash it holds, and whether it was
                  \* appended within a transaction
    pending,      \* what append of the server has read outside a transaction
    transaction   \* what append of the command has read in its transaction

auditVars == <<events, pending, transaction>>

AuditInit == events = <<>> /\ pending = NULL /\ transaction = NULL

\* verify: the event holds the hash of the event before it.
Follows(i) == events[i].previous = i - 1

LastHash == Len(events)

Inserted(previous, inside) ==
    Append(events, [previous |-> previous, inside |-> inside])

\* Mutant: the command's transaction lets the server write.
NeverLocked == TRUE
\* BEGIN IMMEDIATE of the command, until it commits.
Unlocked == transaction = NULL

\* append in a transaction of the server, which is one step for the command.
ServerAppends ==
    /\ pending = NULL /\ Unlocked
    /\ Len(events) < MaxEvents
    /\ events' = Inserted(LastHash, TRUE)
    /\ UNCHANGED <<pending, transaction>>

\* append without a transaction: the SELECT, which does not wait for others.
ServerReads ==
    /\ pending = NULL
    /\ pending' = LastHash
    /\ UNCHANGED <<events, transaction>>

\* The INSERT, which waits for the end of the command's transaction.
ServerInserts ==
    /\ pending # NULL /\ Unlocked
    /\ Len(events) < MaxEvents
    /\ events' = Inserted(pending, FALSE)
    /\ pending' = NULL
    /\ UNCHANGED transaction

\* deliverManualNotification: BEGIN IMMEDIATE and the SELECT.
CommandReads ==
    /\ transaction = NULL
    /\ transaction' = LastHash
    /\ UNCHANGED <<events, pending>>

CommandCommits ==
    /\ transaction # NULL
    /\ Len(events) < MaxEvents
    /\ events' = Inserted(transaction, TRUE)
    /\ transaction' = NULL
    /\ UNCHANGED pending

\* The command is killed, or refuses the message: its transaction is undone.
CommandEnds ==
    /\ transaction # NULL
    /\ transaction' = NULL
    /\ UNCHANGED <<events, pending>>

\* The server is killed.
ServerEnds ==
    /\ pending # NULL
    /\ pending' = NULL
    /\ UNCHANGED <<events, transaction>>

AuditNext ==
    \/ ServerAppends \/ ServerReads \/ ServerInserts \/ ServerEnds
    \/ CommandReads \/ CommandCommits \/ CommandEnds

AuditSpec == AuditInit /\ [][AuditNext]_auditVars

-----------------------------------------------------------------------------
(* Properties.                                                             *)

\* append: an event appended in a transaction follows the one before it,
\* whatever the other process does at the time.
TransactionsChain == \A i \in DOMAIN events : events[i].inside => Follows(i)
=============================================================================
