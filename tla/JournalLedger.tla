---------------------------- MODULE JournalLedger ----------------------------
(***************************************************************************)
(* The double-entry ledger of a project (src/enterprise-finance-store.js): *)
(* accounts, fiscal periods and journal entries, which are drafted, posted *)
(* and reversed.  Every operation is one IMMEDIATE transaction, so it is   *)
(* one action.  A request whose idempotency key is known returns the entry *)
(* it made before or is refused: it changes nothing, so the actions are    *)
(* the requests with a new key.                                            *)
(*                                                                         *)
(* A line is an account and a signed amount: a debit is positive, a credit *)
(* negative, and no line is both or neither (validateJournalLines).        *)
(* Entries are numbered by entry_no, which the code takes as MAX + 1.      *)
(*                                                                         *)
(* A second writer is syncLegacyFinance (src/enterprise-schema.js), which  *)
(* copies the old financial entries of the project into the same tables.   *)
(* Its copies are posted, into a period of its own, without a look at the  *)
(* period's status or at whether the accounts are active.                  *)
(***************************************************************************)
EXTENDS Integers, Sequences, FiniteSets, SequencesExt

CONSTANTS
    Accounts,   \* accounts the project may create
    Types,      \* account types in use
    Periods,    \* fiscal periods the project may create
    Dates,      \* days, as naturals
    NEntries,   \* bound on the journal entries
    Amounts,    \* amounts of the lines of manual entries
    MaxLines,   \* bound on the lines of an entry
    Migration,  \* the period of the copies, migration-period-<project>
    OldTypes,   \* types of the accounts of the copies, migration-account-...
    OldSums     \* amounts of the old entries

ASSUME LedgerAssumption ==
    /\ Dates \subseteq Nat
    /\ Amounts \subseteq Nat \ {0}
    /\ NEntries \in Nat \ {0}
    /\ MaxLines \in Nat
    /\ Migration \in Periods
    /\ DOMAIN OldTypes \subseteq Accounts
    /\ \A a \in DOMAIN OldTypes : OldTypes[a] \in Types
    /\ OldSums \subseteq Nat

OldAccounts == DOMAIN OldTypes
Entries == 1 .. NEntries

VARIABLES
    accounts,  \* accounts[a]: Unopened, or its type and whether it is active
    periods,   \* periods[p]: Undefined, or its status and range of days
    journal    \* journal[e]: NoEntry, or the entry

ledgerVars == <<accounts, periods, journal>>

PeriodStatuses == {"open", "closing", "closed"}

Unopened == [type |-> "none", active |-> FALSE]
Undefined == [status |-> "none", from |-> 1, to |-> 0]
NoEntry == [status |-> "none", date |-> 0, period |-> "none", lines |-> <<>>,
            reversalOf |-> 0, legacy |-> FALSE]

Line == [account : Accounts, amount : Int \ {0}]
Account == [type : Types, active : BOOLEAN]
Period == [status : PeriodStatuses, from : Dates, to : Dates]
Entry == [status : {"draft", "posted", "reversed"}, date : Dates,
          period : Periods, lines : Seq(Line), reversalOf : Entries \cup {0},
          legacy : BOOLEAN]

LedgerInit ==
    /\ accounts = [a \in Accounts |-> Unopened]
    /\ periods = [p \in Periods |-> Undefined]
    /\ journal = [e \in Entries |-> NoEntry]

-----------------------------------------------------------------------------
(* Accounts.                                                               *)

Used(a) ==
    \E e \in Entries : \E i \in DOMAIN journal[e].lines :
        journal[e].lines[i].account = a

CreateAccount(a, type) ==
    /\ a \notin OldAccounts
    /\ accounts[a] = Unopened
    /\ accounts' = [accounts EXCEPT ![a] = [type |-> type, active |-> TRUE]]
    /\ UNCHANGED <<periods, journal>>

\* The type of an account with lines is locked.
TypeFree(a) == ~ Used(a)

PatchAccount(a, type, active) ==
    /\ accounts[a] # Unopened
    /\ type # accounts[a].type => TypeFree(a)
    /\ accounts' = [accounts EXCEPT ![a] = [type |-> type, active |-> active]]
    /\ UNCHANGED <<periods, journal>>

-----------------------------------------------------------------------------
(* Fiscal periods.                                                         *)

Covers(p, date) == periods[p].from <= date /\ date <= periods[p].to

Overlaps(p, from, to) == periods[p].from <= to /\ periods[p].to >= from

CreateFiscalPeriod(p, from, to, status) ==
    /\ p # Migration
    /\ periods[p] = Undefined
    /\ from <= to
    /\ \A q \in Periods : periods[q] # Undefined => ~ Overlaps(q, from, to)
    /\ periods' = [periods EXCEPT ![p] =
           [status |-> status, from |-> from, to |-> to]]
    /\ UNCHANGED <<accounts, journal>>

\* A closed period does not go back to closing.
AllowedStatus(current) ==
    IF current = "closed" THEN {"closed", "open"} ELSE PeriodStatuses

SetFiscalPeriodStatus(p, next) ==
    /\ periods[p] # Undefined
    /\ next \in AllowedStatus(periods[p].status)
    /\ next = "closed" =>
           \A e \in Entries :
               journal[e].period = p => journal[e].status # "draft"
    /\ periods' = [periods EXCEPT ![p].status = next]
    /\ UNCHANGED <<accounts, journal>>

-----------------------------------------------------------------------------
(* Journal entries.                                                        *)

Transfer(debit, credit, amount) ==
    <<[account |-> debit, amount |-> amount],
      [account |-> credit, amount |-> -amount]>>

Total(lines) ==
    SumFunctionOnSet([i \in DOMAIN lines |-> lines[i].amount], DOMAIN lines)

\* Mutant: an unbalanced entry is accepted.
ValidUnbalanced(lines) ==
    /\ Len(lines) >= 2
    /\ \A i \in DOMAIN lines : accounts[lines[i].account].active

Valid(lines) ==
    /\ Len(lines) >= 2
    /\ \A i \in DOMAIN lines : accounts[lines[i].account].active
    /\ Total(lines) = 0

Mirror(lines) ==
    [i \in DOMAIN lines |-> [lines[i] EXCEPT !.amount = -@]]

\* entry_no is one more than the largest.
NextEntry(e) ==
    /\ journal[e] = NoEntry
    /\ \A f \in Entries : f < e => journal[f] # NoEntry

\* createDraftInside: the period may be named or found by the date; it must
\* cover the date but may be closed.
Draftable(e, date, p, lines) ==
    /\ NextEntry(e)
    /\ periods[p] # Undefined
    /\ Covers(p, date)
    /\ Valid(lines)

Draft(date, p, lines, of) ==
    [status |-> "draft", date |-> date, period |-> p, lines |-> lines,
     reversalOf |-> of, legacy |-> FALSE]

\* Mutant: posting does not look at the period.
PostableAnyPeriod(entry) == Valid(entry.lines)

\* postJournalInside
Postable(entry) ==
    /\ periods[entry.period].status = "open"
    /\ Covers(entry.period, entry.date)
    /\ Valid(entry.lines)

Posted(entry) == [entry EXCEPT !.status = "posted"]

CreateJournalDraft(e, date, p, lines) ==
    /\ Draftable(e, date, p, lines)
    /\ journal' = [journal EXCEPT ![e] = Draft(date, p, lines, 0)]
    /\ UNCHANGED <<accounts, periods>>

\* A line is added without its counterpart: the draft may be unbalanced
\* until it is posted.
AddJournalLine(e, line) ==
    /\ journal[e].status = "draft"
    /\ accounts[line.account].active
    /\ Len(journal[e].lines) < MaxLines
    /\ journal' = [journal EXCEPT ![e].lines = Append(@, line)]
    /\ UNCHANGED <<accounts, periods>>

\* Posting a posted or reversed entry again returns it unchanged.
PostJournal(e) ==
    /\ journal[e].status = "draft"
    /\ Postable(journal[e])
    /\ journal' = [journal EXCEPT ![e] = Posted(@)]
    /\ UNCHANGED <<accounts, periods>>

Counted(e) == journal[e].status \in {"posted", "reversed"}

\* Mutant: an earlier reversal is not looked for.
NotYetReversedUnchecked(o) == TRUE

NotYetReversed(o) ==
    \A f \in Entries : journal[f].reversalOf = o => ~ Counted(f)

\* The reversal e of o, which is no draft, is drafted and posted, and o is
\* marked.
Reversal(o, e, date, p) ==
    LET entry == Draft(date, p, Mirror(journal[o].lines), o) IN
    /\ Counted(o)
    /\ Draftable(e, date, p, entry.lines)
    /\ Postable(entry)
    /\ journal' = [journal EXCEPT ![e] = Posted(entry),
                                  ![o].status = "reversed"]

ReverseJournal(o, e, date, p) ==
    /\ NotYetReversed(o)
    /\ Reversal(o, e, date, p)
    /\ UNCHANGED <<accounts, periods>>

-----------------------------------------------------------------------------
(* syncLegacyFinance.                                                      *)

\* The old entries of a project, valuations included, lie between two days.
OldEntries(from, to) ==
    {old \in [date : Dates, debit : OldAccounts, credit : OldAccounts,
              sum : OldSums] :
        from <= old.date /\ old.date <= to /\ old.debit # old.credit}

\* A line of nothing is refused by the table, and INSERT OR IGNORE passes it
\* over: the copy of an entry of nothing has no lines.
CopyLines(old) ==
    IF old.sum = 0 THEN <<>> ELSE Transfer(old.debit, old.credit, old.sum)

Copy(old) ==
    [status |-> "posted", date |-> old.date, period |-> Migration,
     lines |-> CopyLines(old), reversalOf |-> 0, legacy |-> TRUE]

\* Entries that are numbered next, one after the other.
NextEntries ==
    {new \in SUBSET Entries : \A e \in new :
        /\ journal[e] = NoEntry
        /\ \A f \in Entries : f < e => f \in new \/ journal[f] # NoEntry}

Earlier(a, b) == IF a < b THEN a ELSE b
Later(a, b) == IF a < b THEN b ELSE a

\* Inserted closed without a look at the other periods, and stretched later,
\* whatever its status is then.
Stretched(from, to) ==
    LET old == periods[Migration] IN
    IF old = Undefined
    THEN [status |-> "closed", from |-> from, to |-> to]
    ELSE [status |-> old.status, from |-> Earlier(old.from, from),
          to |-> Later(old.to, to)]

\* The copies are those of the old entries that have none yet.  A call that
\* fails, because an account took the code of one of OldAccounts, changes nothing.
SyncLegacy(new, copies, from, to) ==
    /\ from <= to
    /\ accounts' = [a \in Accounts |->
           IF a \in OldAccounts /\ accounts[a] = Unopened
           THEN [type |-> OldTypes[a], active |-> TRUE]
           ELSE accounts[a]]
    /\ periods' = [periods EXCEPT ![Migration] = Stretched(from, to)]
    /\ journal' = [e \in Entries |->
           IF e \in new THEN Copy(copies[e]) ELSE journal[e]]

-----------------------------------------------------------------------------
\* A draft of two or more lines on distinct or equal accounts; unbalanced
\* ones are refused, so a pair is enough to reach every balanced draft
\* together with AddJournalLine.
Pairs == {Transfer(a, b, n) : a, b \in Accounts, n \in Amounts}

ManualLines == [account : Accounts, amount : Amounts \cup {-n : n \in Amounts}]

\* What Draftable asks of an entry, its day and its period comes first in the
\* next-state relations, to be decided once.
LedgerNext ==
    \/ \E a \in Accounts, type \in Types :
          \/ CreateAccount(a, type)
          \/ \E active \in BOOLEAN : PatchAccount(a, type, active)
    \/ \E p \in Periods, status \in PeriodStatuses :
          \/ \E from, to \in Dates : CreateFiscalPeriod(p, from, to, status)
          \/ SetFiscalPeriodStatus(p, status)
    \/ \E e \in Entries, date \in Dates, p \in Periods :
          /\ NextEntry(e) /\ Covers(p, date)
          /\ \/ \E lines \in Pairs : CreateJournalDraft(e, date, p, lines)
             \/ \E o \in Entries : ReverseJournal(o, e, date, p)
    \/ \E e \in Entries :
          \/ \E line \in ManualLines : AddJournalLine(e, line)
          \/ PostJournal(e)
    \/ \E new \in NextEntries, from, to \in Dates :
          \E copies \in [new -> OldEntries(from, to)] :
              SyncLegacy(new, copies, from, to)

LedgerSpec == LedgerInit /\ [][LedgerNext]_ledgerVars

-----------------------------------------------------------------------------
(* Reports.                                                                *)

\* The accountTotals behind trialBalance, profitAndLoss and balanceSheet.
InTotals(e) == Counted(e)

AccountTotal(lines, a) ==
    SumFunctionOnSet([i \in DOMAIN lines |-> lines[i].amount],
                     {i \in DOMAIN lines : lines[i].account = a})

\* The lines of the entries of a set, in the order of the entries.
LinesOf(entries) ==
    FlattenSeq([e \in Entries |->
        IF e \in entries THEN journal[e].lines ELSE <<>>])

PeriodBalance(p, a) ==
    AccountTotal(
        LinesOf({e \in Entries : InTotals(e) /\ journal[e].period = p}), a)

-----------------------------------------------------------------------------
(* Properties.                                                             *)

\* Types of the variables.
LedgerTypeOK ==
    /\ accounts \in [Accounts -> Account \cup {Unopened}]
    /\ periods \in [Periods -> Period \cup {Undefined}]
    /\ journal \in [Entries -> Entry \cup {NoEntry}]

\* The books balance: every entry that reports count is balanced, although a
\* draft gains its lines one at a time and accounts come and go meanwhile, and
\* has lines, unless it is a copy of an old entry of nothing.
BooksBalance ==
    \A e \in Entries : Counted(e) =>
        /\ Total(journal[e].lines) = 0
        /\ \/ Len(journal[e].lines) >= 2
           \/ journal[e].legacy /\ journal[e].lines = <<>>

OwnPeriods == Periods \ {Migration}

\* createFiscalPeriod: of the periods it creates, one at most covers a day.
\* (The period of the copies is stretched over the others.)
OnePeriodPerDay ==
    \A p, q \in OwnPeriods : \A date \in Dates :
        Covers(p, date) /\ Covers(q, date) => p = q

\* The balances of a period that is not open do not move, that of the copies
\* aside: no posting, no reversal (not even of an entry of that very period)
\* and no copy reaches back into it.
ClosedBooksFrozen ==
    [][\A p \in OwnPeriods : periods[p].status # "open" =>
           \A a \in Accounts : PeriodBalance(p, a)' = PeriodBalance(p, a)]_ledgerVars

\* docs/PLATFORM_MODEL.md: closing a fiscal period restricts posting in it, so
\* the balances of a period that is closed do not move, whichever it is.
ClosingRestrictsPosting ==
    [][\A p \in Periods : periods[p].status = "closed" =>
           \A a \in Accounts : PeriodBalance(p, a)' = PeriodBalance(p, a)]_ledgerVars

(***************************************************************************)
(* The abstract ledger, under the mapping that forgets drafts, accounts    *)
(* and marks, and of the period of the copies the copies.                  *)
(***************************************************************************)
Booked(p) ==
    {e \in Entries :
        /\ Counted(e) /\ journal[e].period = p
        /\ ~ (p = Migration /\ journal[e].legacy)}

bookBar ==
    [p \in Periods |->
        {[entry |-> e, lines |-> journal[e].lines] : e \in Booked(p)}]
openBar == {p \in Periods : periods[p].status = "open"}

Sealed == INSTANCE SealedBooks WITH book <- bookBar, open <- openBar

\* Postings are only added, to open periods, and never edited or removed: those
\* of the finance store in every period, and of copies none outside their own.
ImplementsSealedBooks == Sealed!Spec
=============================================================================
