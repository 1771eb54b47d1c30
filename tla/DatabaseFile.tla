---------------------------- MODULE DatabaseFile ----------------------------
(***************************************************************************)
(* The file of the database: the server that migrates and writes it        *)
(* (src/database.js, server.js), the copies that scripts/backup.js makes   *)
(* of it while the server runs, and scripts/restore.js, which puts a copy  *)
(* in its place, one rename after the other, and undoes what it did when a *)
(* step fails.  Each program may be killed between two steps.  The service *)
(* is stopped while a restore runs, which its confirmation phrase asks the *)
(* operator for.                                                           *)
(***************************************************************************)
EXTENDS Nullable, Integers

CONSTANTS
    Copies,     \* names a backup may be written to
    Restores,   \* runs of restore, each with an operationId of its own, numbered
                \* in the order in which they come
    Releases,   \* values of SCHEMA_VERSION of the releases in use
    MaxWrites   \* bound on what the server is asked to keep

File == [version : Int, holds : SUBSET Nat]

ASSUME FileAssumption ==
    /\ Releases \subseteq Nat \ {0} /\ MaxWrites \in Nat
    /\ Restores \subseteq Nat
    /\ NULL \notin Restores \cup File

VARIABLES
    release,  \* SCHEMA_VERSION of the programs that are installed
    written,  \* what the server has acknowledged: numbers
    server,   \* "stopped", "starting" or "serving"
    live,     \* what is at targetPath, or NULL
    kept,     \* kept[r]: what is at the rollbackPath of run r, or NULL
    copies,   \* copies[b]: what is at this destination of a backup, or NULL
    copying,  \* the backup under way and what it has read, or NULL
    restore   \* the last restore: its step, its files, and what it found and left

fileVars == <<release, written, server, live, kept, copies, copying, restore>>

Torn == [version |-> -1, holds |-> {}]
Empty == [version |-> 0, holds |-> {}]
NoRestore == [step |-> "none", run |-> NULL, source |-> NULL, staged |-> NULL,
              found |-> NULL, left |-> NULL]

FileInit ==
    /\ release \in Releases
    /\ written = {}
    /\ server = "stopped"
    /\ live = NULL
    /\ kept = [r \in Restores |-> NULL]
    /\ copies = [b \in Copies |-> NULL]
    /\ copying = NULL
    /\ restore = NoRestore

Answered == {"none", "restored", "refused"}
Restoring == restore.step \notin Answered

-----------------------------------------------------------------------------
(* The server.                                                             *)

\* Another release is installed, an earlier one included.
Deploy ==
    /\ server = "stopped" /\ ~Restoring
    /\ release' \in Releases
    /\ UNCHANGED <<written, server, live, kept, copies, copying, restore>>

\* openDatabase; it makes a database where there is none.
ServerStarts ==
    /\ server = "stopped" /\ ~Restoring
    /\ live # NULL => live.version <= release
    /\ server' = "starting"
    /\ live' = IF live = NULL THEN Empty ELSE live
    /\ UNCHANGED <<release, written, kept, copies, copying, restore>>

\* applyMigrations: one migration and its number in one transaction.
Migrate ==
    /\ server = "starting" /\ live.version < release
    /\ live' = [live EXCEPT !.version = @ + 1]
    /\ UNCHANGED <<release, written, server, kept, copies, copying, restore>>

ServerListens ==
    /\ server = "starting" /\ live.version = release
    /\ server' = "serving"
    /\ UNCHANGED <<release, written, live, kept, copies, copying, restore>>

Write ==
    /\ server = "serving" /\ Cardinality(written) < MaxWrites
    /\ written' = written \cup {Cardinality(written) + 1}
    /\ live' = [live EXCEPT !.holds = @ \cup (written' \ written)]
    /\ UNCHANGED <<release, server, kept, copies, copying, restore>>

\* shutdown, or the process is killed: what was committed is in the file or in
\* its log, which goes where the file goes.
ServerStops ==
    /\ server # "stopped"
    /\ server' = "stopped"
    /\ UNCHANGED <<release, written, live, kept, copies, copying, restore>>

-----------------------------------------------------------------------------
(* backup.js.                                                              *)

\* VACUUM INTO reads the database as it is now.
BackupStarts(b) ==
    /\ copying = NULL
    /\ live # NULL /\ copies[b] = NULL
    /\ copying' = [to |-> b, reads |-> live]
    /\ copies' = [copies EXCEPT ![b] = Torn]
    /\ UNCHANGED <<release, written, server, live, kept, restore>>

BackupDone ==
    /\ copying # NULL
    /\ copies' = [copies EXCEPT ![copying.to] = copying.reads]
    /\ copying' = NULL
    /\ UNCHANGED <<release, written, server, live, kept, restore>>

\* What has been written of the copy stays.
BackupKilled ==
    /\ copying # NULL
    /\ copying' = NULL
    /\ UNCHANGED <<release, written, server, live, kept, copies, restore>>

-----------------------------------------------------------------------------
(* restore.js.                                                             *)

\* Mutant: any file that can be opened will do.
Readable(file) == TRUE
\* verifyHamkariDatabase: whole, and of exactly this schema.
Recognizable(file) == file.version = release

\* Mutant: the name of the file that is kept only tells the second.
KeptOfTheSecond(r) == CHOOSE any \in Restores : TRUE
\* rollbackPath.
KeptAs(r) == r

Step(step) ==
    /\ restore' = [restore EXCEPT !.step = step]
    /\ UNCHANGED <<release, written, server, copying, copies>>

RestoreStarts(r, b) ==
    /\ ~Restoring /\ server = "stopped"
    /\ restore.run # NULL => restore.run < r
    /\ copies[b] # NULL /\ Recognizable(copies[b])
    /\ restore' = [step |-> "copying", run |-> r, source |-> copies[b],
                   staged |-> NULL, found |-> live, left |-> NULL]
    /\ UNCHANGED <<release, written, server, live, kept, copies, copying>>

\* copyFileSync; the copy may go wrong.
StageCopy ==
    /\ restore.step = "copying"
    /\ \E file \in {restore.source, Torn} :
          restore' = [restore EXCEPT !.step = "staged", !.staged = file]
    /\ UNCHANGED <<release, written, server, live, kept, copying, copies>>

\* The staged copy is verified, the live file found whole, and moved away.
MoveLive ==
    /\ restore.step = "staged" /\ Recognizable(restore.staged)
    /\ live # NULL
    /\ kept' = [kept EXCEPT ![KeptAs(restore.run)] = live]
    /\ live' = NULL
    /\ Step("moved")

InstallStaged ==
    /\ \/ restore.step = "moved"
       \/ restore.step = "staged" /\ Recognizable(restore.staged) /\ restore.found = NULL
    /\ live' = restore.staged
    /\ UNCHANGED kept
    /\ Step("installed")

RestoreAnswers(step) ==
    /\ restore' = [restore EXCEPT !.step = step, !.left = live']
    /\ UNCHANGED <<release, written, server, copying, copies>>

RestoreSucceeds ==
    /\ restore.step = "installed" /\ Recognizable(live)
    /\ UNCHANGED <<live, kept>>
    /\ RestoreAnswers("restored")

\* Any step may fail: a full disk, a busy database, the check of the result.
RemoveInstalled ==
    /\ restore.step = "installed"
    /\ live' = NULL
    /\ UNCHANGED kept
    /\ Step("undoing")

\* Mutant: the file that was moved away comes back only for one put in place.
LiveWasReplaced == restore.step = "undoing" /\ restore.found # NULL
\* liveMoved.
LiveWasMoved == restore.step \in {"moved", "undoing"} /\ restore.found # NULL

RestoreFails ==
    /\ restore.step \in {"copying", "staged", "moved", "undoing"}
    /\ IF LiveWasMoved
       THEN /\ live' = kept[KeptAs(restore.run)]
            /\ kept' = [kept EXCEPT ![KeptAs(restore.run)] = NULL]
       ELSE UNCHANGED <<live, kept>>
    /\ RestoreAnswers("refused")

\* Killed between two steps: nobody undoes anything.
RestoreKilled ==
    /\ Restoring
    /\ restore' = [NoRestore EXCEPT !.run = restore.run]
    /\ UNCHANGED <<release, written, server, live, kept, copying, copies>>

FileNext ==
    \/ Deploy \/ ServerStarts \/ Migrate \/ ServerListens \/ Write \/ ServerStops
    \/ \E b \in Copies : BackupStarts(b) \/ \E r \in Restores : RestoreStarts(r, b)
    \/ BackupDone \/ BackupKilled
    \/ StageCopy \/ MoveLive \/ InstallStaged \/ RestoreSucceeds
    \/ RemoveInstalled \/ RestoreFails \/ RestoreKilled

FileSpec == FileInit /\ [][FileNext]_fileVars

-----------------------------------------------------------------------------
(* Properties.                                                             *)

\* rollbackPath: whatever is restored, however often, and wherever a run is
\* killed, all that was ever acknowledged is in the live file or in one that
\* was kept.
NothingIsLost ==
    \A n \in written :
        \E file \in {live} \cup {kept[r] : r \in Restores} :
            file # NULL /\ n \in file.holds

\* restoreDatabase: a run that answers leaves the copy in place of the live
\* file, or the live file as it found it.
RestoredOrUntouched ==
    /\ restore.step = "restored" => restore.left = restore.source
    /\ restore.step = "refused" => restore.left = restore.found

\* Every answer a run gives can be relied on, and nothing depends on one.
StorageSound == NothingIsLost /\ RestoredOrUntouched
=============================================================================
