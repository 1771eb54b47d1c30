------------------------- MODULE JournalLedgerProofs -------------------------
(***************************************************************************)
(* Proofs about the ledger and about the invoices and payments that post   *)
(* to it, for any accounts, periods, days, amounts and numbers of entries. *)
(* The sum of the lines of an entry (Total) is left opaque, except of the  *)
(* copies of old entries: what the proofs need is that it is checked when  *)
(* an entry is posted and that the lines are never touched afterwards.     *)
(* What is paid and what is reversed have invariants of their own, PaidInv *)
(* and ReversalInv.                                                        *)
(***************************************************************************)
EXTENDS Receivables, SumTheorems

-----------------------------------------------------------------------------
(* What an operation may do to the journal.                                *)

\* An entry that is counted stays so, with the same lines and period.
EntryKept(e) ==
    Counted(e) =>
        /\ Counted(e)'
        /\ journal'[e].lines = journal[e].lines
        /\ journal'[e].period = journal[e].period
        /\ journal'[e].legacy = journal[e].legacy

\* An entry of the finance store that becomes counted is balanced, in p.
EntryNew(e, p) ==
    ~ Counted(e) /\ Counted(e)' =>
        /\ journal'[e].period = p
        /\ Len(journal'[e].lines) >= 2
        /\ Total(journal'[e].lines) = 0

\* A copy of an old entry is balanced and in the period of the copies.
CopyNew(e) ==
    ~ Counted(e) /\ Counted(e)' =>
        /\ journal'[e].legacy
        /\ journal'[e].period = Migration
        /\ Total(journal'[e].lines) = 0
        /\ Len(journal'[e].lines) >= 2 \/ journal'[e].lines = <<>>

\* One operation of the books: entries are kept, and new ones are copies or go
\* to one open period; a step that changes a period posts nothing but copies.
BookStep ==
    /\ \A e \in Entries : EntryKept(e)
    /\ \/ \A e \in Entries : CopyNew(e)
       \/ \E p \in Periods :
             /\ periods[p].status = "open"
             /\ \A e \in Entries : EntryNew(e, p)
             /\ UNCHANGED periods

LEMMA TransferType ==
  ASSUME NEW debit \in Accounts, NEW credit \in Accounts,
         NEW amount \in Nat \ {0}
  PROVE  Transfer(debit, credit, amount) \in Seq(Line)
  BY DEF Transfer, Line

LEMMA TransferBalances ==
  ASSUME NEW debit, NEW credit, NEW amount \in Int
  PROVE  Total(Transfer(debit, credit, amount)) = 0
<1> DEFINE lines == Transfer(debit, credit, amount)
           f == [i \in DOMAIN lines |-> lines[i].amount]
<1>1. DOMAIN lines = {} \cup {1} \cup {2}
  BY DEF Transfer
<1>2. f[1] = amount /\ f[2] = -amount
  BY DEF Transfer
<1>3. Total(lines) = SumFunctionOnSet(f, {} \cup {1} \cup {2})
  BY <1>1, Zenon DEF Total
<1> HIDE DEF f, lines
<1>4. SumFunctionOnSet(f, {}) = 0
  BY SumOfNone
<1>5. SumFunctionOnSet(f, {} \cup {1}) = f[1] + SumFunctionOnSet(f, {})
  <2>1. IsFiniteSet({})
    BY FS_EmptySet
  <2>2. 1 \notin {} /\ \A y \in {} \cup {1} : f[y] \in Int
    BY <1>2
  <2>3. QED
    BY <2>1, <2>2, SumAdd
<1>6. SumFunctionOnSet(f, {} \cup {1} \cup {2}) =
          f[2] + SumFunctionOnSet(f, {} \cup {1})
  <2>1. IsFiniteSet({} \cup {1})
    BY FS_EmptySet, FS_AddElement
  <2>2. 2 \notin {} \cup {1} /\ \A y \in {} \cup {1} \cup {2} : f[y] \in Int
    BY <1>2
  <2>3. QED
    BY <2>1, <2>2, SumAdd
<1>7. QED
  BY <1>2, <1>3, <1>4, <1>5, <1>6 DEF lines

LEMMA NoneBalances == Total(<<>>) = 0
<1>1. DOMAIN <<>> = {}
  OBVIOUS
<1>2. Total(<<>>) = SumFunctionOnSet([i \in DOMAIN <<>> |-> <<>>[i].amount], {})
  BY <1>1, Zenon DEF Total
<1>3. QED
  BY <1>2, SumOfNone

\* A copy of an old entry is a balanced entry of the period of the copies.
LEMMA CopyType ==
  ASSUME NEW from, NEW to, NEW old \in OldEntries(from, to)
  PROVE  /\ Copy(old) \in Entry
         /\ Copy(old).status = "posted"
         /\ Copy(old).legacy
         /\ Copy(old).period = Migration
         /\ Copy(old).reversalOf = 0
         /\ Total(Copy(old).lines) = 0
         /\ Len(Copy(old).lines) >= 2 \/ Copy(old).lines = <<>>
<1>1. /\ old.date \in Dates /\ old.sum \in Nat
      /\ old.debit \in Accounts /\ old.credit \in Accounts
  BY LedgerAssumption DEF OldEntries, OldAccounts
<1>2. /\ CopyLines(old) \in Seq(Line)
      /\ Total(CopyLines(old)) = 0
      /\ Len(CopyLines(old)) >= 2 \/ CopyLines(old) = <<>>
  <2>1. CASE old.sum = 0
    BY <2>1, NoneBalances DEF CopyLines
  <2>2. CASE old.sum # 0
    <3>1. CopyLines(old) = Transfer(old.debit, old.credit, old.sum)
      BY <2>2 DEF CopyLines
    <3>2. CopyLines(old) \in Seq(Line) /\ Total(CopyLines(old)) = 0
      BY <1>1, <2>2, <3>1, TransferType, TransferBalances
    <3>3. Len(CopyLines(old)) = 2
      BY <3>1 DEF Transfer
    <3>4. QED
      BY <3>2, <3>3
  <2>3. QED
    BY <2>1, <2>2
<1>3. QED
  BY <1>1, <1>2, LedgerAssumption DEF Copy, Entry

LEMMA LineTypes ==
  ASSUME NEW lines \in Seq(Line)
  PROVE  /\ Mirror(lines) \in Seq(Line)
         /\ Len(Mirror(lines)) = Len(lines)
<1>1. \A i \in DOMAIN lines : [lines[i] EXCEPT !.amount = -@] \in Line
  <2> SUFFICES ASSUME NEW i \in DOMAIN lines
               PROVE  [lines[i] EXCEPT !.amount = -@] \in Line
    OBVIOUS
  <2>1. lines[i] \in Line
    OBVIOUS
  <2>2. QED
    BY <2>1 DEF Line
<1>2. QED
  BY <1>1 DEF Mirror

\* A new entry of well-typed lines, drafted or posted, is an entry.
LEMMA DraftType ==
  ASSUME NEW date \in Dates, NEW p \in Periods, NEW lines \in Seq(Line),
         NEW of \in Entries \cup {0}
  PROVE  /\ Draft(date, p, lines, of) \in Entry
         /\ Posted(Draft(date, p, lines, of)) \in Entry
         /\ Posted(Draft(date, p, lines, of)).lines = lines
         /\ Posted(Draft(date, p, lines, of)).period = p
         /\ Posted(Draft(date, p, lines, of)).status = "posted"
  BY DEF Draft, Posted, Entry

LEMMA EntryTypes ==
  ASSUME LedgerTypeOK, NEW e \in Entries, journal[e].status # "none"
  PROVE  journal[e] \in Entry
  BY DEF LedgerTypeOK, NoEntry

\* Drafting and posting at once (invoices and payments).
LEMMA BookNowStep ==
  ASSUME LedgerTypeOK, NEW e \in Entries, NEW date \in Dates,
         NEW p \in Periods, NEW lines \in Seq(Line),
         BookNow(e, date, p, lines), UNCHANGED periods
  PROVE  journal' \in [Entries -> Entry \cup {NoEntry}] /\ BookStep
<1> DEFINE new == Posted(Draft(date, p, lines, 0))
<1>1. /\ new \in Entry
      /\ new.lines = lines
      /\ new.period = p
      /\ new.status = "posted"
  BY DraftType
<1>2. /\ journal[e] = NoEntry
      /\ periods[p].status = "open"
      /\ Len(lines) >= 2
      /\ Total(lines) = 0
      /\ journal' = [journal EXCEPT ![e] = new]
  BY DEF BookNow, Draftable, NextEntry, Postable, Draft, Valid
<1> HIDE DEF new
<1>3. journal \in [Entries -> Entry \cup {NoEntry}]
  BY DEF LedgerTypeOK
<1>4. ~ Counted(e)
  BY <1>2 DEF Counted, NoEntry
<1>5. \A f \in Entries : f # e => journal'[f] = journal[f]
  BY <1>2, <1>3
<1>6. journal'[e] = new
  BY <1>2, <1>3
<1>7. \A f \in Entries : EntryKept(f) /\ EntryNew(f, p)
  BY <1>1, <1>2, <1>4, <1>5, <1>6 DEF EntryKept, EntryNew, Counted
<1>8. QED
  BY <1>1, <1>2, <1>3, <1>7 DEF BookStep

\* Reversing an entry: a new entry is posted and the original is marked.
LEMMA ReversalStep ==
  ASSUME LedgerTypeOK, NEW o \in Entries, NEW e \in Entries,
         NEW date \in Dates, NEW p \in Periods,
         Reversal(o, e, date, p), UNCHANGED periods
  PROVE  journal' \in [Entries -> Entry \cup {NoEntry}] /\ BookStep
<1> DEFINE lines == Mirror(journal[o].lines)
           new == Posted(Draft(date, p, lines, o))
<1>1. Counted(o)
  BY DEF Reversal
<1>2. journal[o] \in Entry
  BY <1>1, EntryTypes DEF Counted
<1>3. lines \in Seq(Line)
  BY <1>2, LineTypes DEF Entry
<1> HIDE DEF lines
<1>4. /\ new \in Entry
      /\ new.lines = lines
      /\ new.period = p
      /\ new.status = "posted"
  BY <1>3, DraftType
<1>5. /\ journal[e] = NoEntry
      /\ periods[p].status = "open"
      /\ Len(lines) >= 2
      /\ Total(lines) = 0
  BY DEF Reversal, Draftable, NextEntry, Postable, Draft, Valid, lines
<1>6. journal' = [journal EXCEPT ![e] = new,
                                 ![o] = [@ EXCEPT !.status = "reversed"]]
  <2>1. o # e
    BY <1>1, <1>5 DEF Counted, NoEntry
  <2>2. QED
    BY <2>1 DEF Reversal, lines
<1> HIDE DEF new
<1>7. journal \in [Entries -> Entry \cup {NoEntry}]
  BY DEF LedgerTypeOK
<1>8. ~ Counted(e) /\ o # e
  BY <1>1, <1>5 DEF Counted, NoEntry
<1>9. /\ journal'[e] = new
      /\ journal'[o] = [journal[o] EXCEPT !.status = "reversed"]
      /\ \A f \in Entries \ {e, o} : journal'[f] = journal[f]
  BY <1>6, <1>7, <1>8
<1>10. /\ journal'[o] \in Entry
       /\ journal'[o].status = "reversed"
       /\ journal'[o].lines = journal[o].lines
       /\ journal'[o].period = journal[o].period
       /\ journal'[o].legacy = journal[o].legacy
  BY <1>2, <1>9 DEF Entry
<1>11. \A f \in Entries : EntryKept(f) /\ EntryNew(f, p)
  BY <1>1, <1>4, <1>5, <1>8, <1>9, <1>10 DEF EntryKept, EntryNew, Counted
<1>12. journal' \in [Entries -> Entry \cup {NoEntry}]
  BY <1>4, <1>6, <1>7, <1>9, <1>10
<1>13. QED
  BY <1>5, <1>11, <1>12 DEF BookStep

-----------------------------------------------------------------------------
(* The operations of the ledger.                                           *)

\* An operation that leaves the journal alone is a step of the books.
LEMMA QuietStep ==
  ASSUME UNCHANGED journal
  PROVE  BookStep
  BY DEF BookStep, EntryKept, CopyNew, Counted

\* The copies of a call, and the accounts and the period they need.
LEMMA SyncStep ==
  ASSUME LedgerTypeOK, NEW new \in NextEntries, NEW from \in Dates,
         NEW to \in Dates, NEW copies \in [new -> OldEntries(from, to)],
         SyncLegacy(new, copies, from, to)
  PROVE  /\ LedgerTypeOK' /\ BookStep
         /\ \A e \in new : journal[e] = NoEntry /\ journal'[e] = Copy(copies[e])
         /\ \A e \in Entries \ new : journal'[e] = journal[e]
         /\ \A p \in OwnPeriods : periods'[p] = periods[p]
         /\ \A p \in Periods :
               periods'[p].status = "open" <=> periods[p].status = "open"
<1>a. /\ accounts \in [Accounts -> Account \cup {Unopened}]
      /\ periods \in [Periods -> Period \cup {Undefined}]
      /\ journal \in [Entries -> Entry \cup {NoEntry}]
  BY DEF LedgerTypeOK
<1>1. accounts' \in [Accounts -> Account \cup {Unopened}]
  <2>1. \A a \in OldAccounts : [type |-> OldTypes[a], active |-> TRUE] \in Account
    BY LedgerAssumption DEF OldAccounts, Account
  <2>2. QED
    BY <1>a, <2>1 DEF SyncLegacy
<1>2. periods' = [periods EXCEPT ![Migration] = Stretched(from, to)]
  BY DEF SyncLegacy
<1>3. /\ Stretched(from, to) \in Period
      /\ Stretched(from, to).status = "open" <=> periods[Migration].status = "open"
  <2>1. CASE periods[Migration] = Undefined
    BY <2>1 DEF Stretched, Period, PeriodStatuses, Undefined
  <2>2. CASE periods[Migration] # Undefined
    <3>1. periods[Migration] \in Period
      BY <1>a, <2>2, LedgerAssumption
    <3>2. \A a, b \in Dates : Earlier(a, b) \in Dates /\ Later(a, b) \in Dates
      BY DEF Earlier, Later
    <3>3. QED
      BY <2>2, <3>1, <3>2 DEF Stretched, Period
  <2>3. QED
    BY <2>1, <2>2
<1>4. /\ periods' \in [Periods -> Period \cup {Undefined}]
      /\ \A p \in OwnPeriods : periods'[p] = periods[p]
      /\ \A p \in Periods :
            periods'[p].status = "open" <=> periods[p].status = "open"
  BY <1>a, <1>2, <1>3, LedgerAssumption DEF OwnPeriods
<1>5. /\ new \in SUBSET Entries
      /\ \A e \in new : journal[e] = NoEntry
  BY DEF NextEntries
<1>6. journal' = [e \in Entries |->
          IF e \in new THEN Copy(copies[e]) ELSE journal[e]]
  BY DEF SyncLegacy
<1>7. /\ \A e \in new : journal'[e] = Copy(copies[e])
      /\ \A e \in Entries \ new : journal'[e] = journal[e]
  BY <1>5, <1>6
<1>8. \A e \in new :
          /\ journal'[e] \in Entry
          /\ journal'[e].legacy /\ journal'[e].period = Migration
          /\ Total(journal'[e].lines) = 0
          /\ Len(journal'[e].lines) >= 2 \/ journal'[e].lines = <<>>
  BY <1>7, CopyType
<1>9. journal' \in [Entries -> Entry \cup {NoEntry}]
  <2>1. \A e \in Entries : journal'[e] \in Entry \cup {NoEntry}
    BY <1>a, <1>7, <1>8
  <2>2. QED
    BY <1>6, <2>1
<1>10. \A e \in new : ~ Counted(e)
  BY <1>5 DEF Counted, NoEntry
<1>11. \A e \in Entries : EntryKept(e) /\ CopyNew(e)
  BY <1>7, <1>8, <1>10 DEF EntryKept, CopyNew, Counted
<1>12. QED
  BY <1>1, <1>4, <1>5, <1>7, <1>9, <1>11 DEF LedgerTypeOK, BookStep

LEMMA LedgerSteps ==
  ASSUME LedgerTypeOK, LedgerNext
  PROVE  LedgerTypeOK' /\ BookStep
<1> USE DEF LedgerTypeOK
<1>1. ASSUME NEW a \in Accounts, NEW type \in Types,
             \/ CreateAccount(a, type)
             \/ \E active \in BOOLEAN : PatchAccount(a, type, active)
      PROVE  LedgerTypeOK' /\ BookStep
  <2>1. PICK active \in BOOLEAN :
            accounts' = [accounts EXCEPT ![a] =
                [type |-> type, active |-> active]]
    BY <1>1 DEF CreateAccount, PatchAccount
  <2>2. UNCHANGED <<periods, journal>>
    BY <1>1 DEF CreateAccount, PatchAccount
  <2>3. [type |-> type, active |-> active] \in Account
    BY DEF Account
  <2>4. accounts' \in [Accounts -> Account \cup {Unopened}]
    BY <2>1, <2>3
  <2>5. QED
    BY <2>2, <2>4, QuietStep
<1>2. ASSUME NEW p \in Periods, NEW status \in PeriodStatuses,
             NEW from \in Dates, NEW to \in Dates,
             CreateFiscalPeriod(p, from, to, status)
      PROVE  LedgerTypeOK' /\ BookStep
  <2>1. [status |-> status, from |-> from, to |-> to] \in Period
    BY DEF Period
  <2>2. QED
    BY <1>2, <2>1, QuietStep DEF CreateFiscalPeriod
<1>3. ASSUME NEW p \in Periods, NEW status \in PeriodStatuses,
             SetFiscalPeriodStatus(p, status)
      PROVE  LedgerTypeOK' /\ BookStep
  <2>1. periods[p] \in Period
    BY <1>3 DEF SetFiscalPeriodStatus
  <2>2. [periods[p] EXCEPT !.status = status] \in Period
    BY <2>1 DEF Period
  <2>3. periods' = [periods EXCEPT ![p] = [periods[p] EXCEPT !.status = status]]
    BY <1>3 DEF SetFiscalPeriodStatus
  <2>4. periods' \in [Periods -> Period \cup {Undefined}]
    BY <2>2, <2>3
  <2>5. QED
    BY <1>3, <2>4, QuietStep DEF SetFiscalPeriodStatus
<1>4. ASSUME NEW e \in Entries, NEW date \in Dates, NEW p \in Periods,
             NEW lines \in Pairs, CreateJournalDraft(e, date, p, lines)
      PROVE  LedgerTypeOK' /\ BookStep
  <2>1. lines \in Seq(Line)
    <3>1. PICK a \in Accounts, b \in Accounts, n \in Amounts :
              lines = Transfer(a, b, n)
      BY DEF Pairs
    <3>2. n \in Nat \ {0}
      BY LedgerAssumption
    <3>3. QED
      BY <3>1, <3>2, TransferType
  <2>2. Draft(date, p, lines, 0) \in Entry
    BY <2>1, DraftType
  <2>3. /\ journal[e] = NoEntry
        /\ journal' = [journal EXCEPT ![e] = Draft(date, p, lines, 0)]
        /\ UNCHANGED <<accounts, periods>>
    BY <1>4 DEF CreateJournalDraft, Draftable, NextEntry
  <2>4. \A f \in Entries : EntryKept(f) /\ CopyNew(f)
    <3>1. journal'[e].status = "draft"
      BY <2>3 DEF Draft
    <3>2. \A f \in Entries \ {e} : journal'[f] = journal[f]
      BY <2>3
    <3>3. EntryKept(e) /\ CopyNew(e)
      BY <2>3, <3>1 DEF EntryKept, CopyNew, Counted, NoEntry
    <3>4. QED
      BY <3>2, <3>3 DEF EntryKept, CopyNew, Counted
  <2>5. journal' \in [Entries -> Entry \cup {NoEntry}]
    BY <2>2, <2>3
  <2>6. QED
    BY <2>3, <2>4, <2>5 DEF BookStep
<1>5. ASSUME NEW e \in Entries, NEW date \in Dates, NEW p \in Periods,
             NEW o \in Entries, ReverseJournal(o, e, date, p)
      PROVE  LedgerTypeOK' /\ BookStep
  BY <1>5, ReversalStep DEF ReverseJournal
<1>6. ASSUME NEW e \in Entries, NEW line \in ManualLines,
             AddJournalLine(e, line)
      PROVE  LedgerTypeOK' /\ BookStep
  <2>1. line \in Line
    <3>1. PICK a \in Accounts,
               n \in Amounts \cup {-m : m \in Amounts} :
              line = [account |-> a, amount |-> n]
      BY DEF ManualLines
    <3>2. n \in Int \ {0}
      BY LedgerAssumption
    <3>3. QED
      BY <3>1, <3>2 DEF Line
  <2>2. journal[e] \in Entry
    BY <1>6, EntryTypes DEF AddJournalLine
  <2> DEFINE new == [journal[e] EXCEPT !.lines = Append(@, line)]
  <2>3. /\ new \in Entry
        /\ new.status = journal[e].status
    <3>1. journal[e].lines \in Seq(Line)
      BY <2>2 DEF Entry
    <3>2. Append(journal[e].lines, line) \in Seq(Line)
      BY <2>1, <3>1
    <3>3. new = [journal[e] EXCEPT !.lines = Append(journal[e].lines, line)]
      OBVIOUS
    <3>4. QED
      BY <2>2, <3>2, <3>3 DEF Entry
  <2>4. /\ journal[e].status = "draft"
        /\ journal' = [journal EXCEPT ![e] = new]
        /\ UNCHANGED <<accounts, periods>>
    BY <1>6 DEF AddJournalLine
  <2> HIDE DEF new
  <2>5. \A f \in Entries : EntryKept(f) /\ CopyNew(f)
    BY <2>3, <2>4 DEF EntryKept, CopyNew, Counted
  <2>6. journal' \in [Entries -> Entry \cup {NoEntry}]
    BY <2>3, <2>4
  <2>7. QED
    BY <2>4, <2>5, <2>6 DEF BookStep
<1>7. ASSUME NEW e \in Entries, PostJournal(e)
      PROVE  LedgerTypeOK' /\ BookStep
  <2>1. journal[e] \in Entry
    BY <1>7, EntryTypes DEF PostJournal
  <2> DEFINE new == Posted(journal[e])
             p == journal[e].period
  <2>2. /\ new \in Entry
        /\ new.status = "posted"
        /\ new.lines = journal[e].lines
        /\ new.period = p
        /\ p \in Periods
    BY <2>1 DEF Posted, Entry
  <2>3. /\ journal[e].status = "draft"
        /\ periods[p].status = "open"
        /\ Len(journal[e].lines) >= 2
        /\ Total(journal[e].lines) = 0
        /\ journal' = [journal EXCEPT ![e] = new]
        /\ UNCHANGED <<accounts, periods>>
    BY <1>7 DEF PostJournal, Postable, Valid
  <2> HIDE DEF new, p
  <2>4. \A f \in Entries : EntryKept(f) /\ EntryNew(f, p)
    BY <2>2, <2>3 DEF EntryKept, EntryNew, Counted
  <2>5. QED
    BY <2>2, <2>3, <2>4 DEF BookStep
<1>8. ASSUME NEW new \in NextEntries, NEW from \in Dates, NEW to \in Dates,
             NEW copies \in [new -> OldEntries(from, to)], SyncLegacy(new, copies, from, to)
      PROVE  LedgerTypeOK' /\ BookStep
  BY <1>8, SyncStep
<1>9. QED
  BY <1>1, <1>2, <1>3, <1>4, <1>5, <1>6, <1>7, <1>8 DEF LedgerNext

-----------------------------------------------------------------------------
(* Invoices and payments.                                                  *)

LEMMA IntentTypes ==
  ASSUME TypeOK, NEW t \in Intents, intents[t].status # "none"
  PROVE  intents[t] \in Intent /\ intents[t].amount \in Nat \ {0}
<1>1. intents[t] \in Intent
  BY DEF TypeOK, NoIntent
<1>2. intents[t].amount \in Payments
  BY <1>1 DEF Intent
<1>3. QED
  BY <1>1, <1>2, ReceivablesAssumption

LEMMA SettlementType ==
  ASSUME TypeOK, NEW t \in Intents, intents[t].status = "pending",
         NEW cash \in Accounts, NEW account \in Accounts
  PROVE  SettlementLines(t, cash, account) \in Seq(Line)
  BY IntentTypes, TransferType DEF SettlementLines

LEMMA Steps ==
  ASSUME TypeOK, [Next]_vars
  PROVE  TypeOK' /\ BookStep
<1>a. LedgerTypeOK
  BY DEF TypeOK
<1>b. /\ invoices \in [Invoices -> Invoice \cup {NoInvoice}]
      /\ intents \in [Intents -> Intent \cup {NoIntent}]
  BY DEF TypeOK
<1>1. CASE LedgerNext /\ UNCHANGED <<invoices, intents>>
  BY <1>a, <1>1, LedgerSteps DEF TypeOK
<1>2. ASSUME NEW e \in Entries, NEW date \in Dates, NEW p \in Periods,
             NEW i \in Invoices, NEW kind \in Kinds, NEW total \in Totals,
             NEW debit \in Accounts, NEW credit \in Accounts,
             IssueInvoice(i, e, kind, total, debit, credit, date, p)
      PROVE  TypeOK' /\ BookStep
  <2>1. total \in Nat \ {0}
    BY ReceivablesAssumption
  <2>2. Transfer(debit, credit, total) \in Seq(Line)
    BY <2>1, TransferType
  <2>3. journal' \in [Entries -> Entry \cup {NoEntry}] /\ BookStep
    BY <1>2, <1>a, <2>2, BookNowStep DEF IssueInvoice
  <2>4. [kind |-> kind, total |-> total, paid |-> 0, entry |-> e,
         status |-> "issued"] \in Invoice
    BY DEF Invoice
  <2>5. QED
    BY <1>2, <1>a, <1>b, <2>3, <2>4 DEF IssueInvoice, TypeOK, LedgerTypeOK
<1>3. ASSUME NEW e \in Entries, NEW date \in Dates, NEW p \in Periods,
             NEW i \in Invoices, VoidInvoice(i, e, date, p)
      PROVE  TypeOK' /\ BookStep
  <2>1. invoices[i] \in Invoice
    BY <1>3, <1>b DEF VoidInvoice, Voidable, NoInvoice
  <2>2. invoices[i].entry \in Entries
    BY <2>1 DEF Invoice
  <2>3. journal' \in [Entries -> Entry \cup {NoEntry}] /\ BookStep
    BY <1>3, <1>a, <2>2, ReversalStep DEF VoidInvoice
  <2>4. [invoices[i] EXCEPT !.status = "void"] \in Invoice
    BY <2>1 DEF Invoice
  <2>5. invoices' = [invoices EXCEPT ![i] =
            [invoices[i] EXCEPT !.status = "void"]]
    BY <1>3 DEF VoidInvoice
  <2>6. QED
    BY <1>3, <1>a, <1>b, <2>3, <2>4, <2>5
    DEF VoidInvoice, TypeOK, LedgerTypeOK
<1>4. ASSUME NEW t \in Intents, NEW i \in Invoices, NEW amount \in Payments,
             CreateInvoicePayment(t, i, amount)
      PROVE  TypeOK' /\ BookStep
  <2>1. [invoice |-> i, direction |-> DirectionOf(invoices[i].kind),
         amount |-> amount, status |-> "pending"] \in Intent
    BY DEF Intent, DirectionOf, Directions
  <2>2. QED
    BY <1>4, <1>a, <1>b, <2>1, QuietStep
    DEF CreateInvoicePayment, TypeOK, LedgerTypeOK
<1>5. ASSUME NEW t \in Intents, NEW direction \in Directions,
             NEW amount \in Payments, CreateOtherPayment(t, direction, amount)
      PROVE  TypeOK' /\ BookStep
  <2>1. [invoice |-> 0, direction |-> direction, amount |-> amount,
         status |-> "pending"] \in Intent
    BY DEF Intent
  <2>2. QED
    BY <1>5, <1>a, <1>b, <2>1, QuietStep
    DEF CreateOtherPayment, TypeOK, LedgerTypeOK
\* A pending intent becomes succeeded.
<1>c. ASSUME NEW t \in Intents, intents[t].status = "pending",
             intents' = [intents EXCEPT ![t].status = "succeeded"]
      PROVE  intents' \in [Intents -> Intent \cup {NoIntent}]
  <2>1. intents[t] \in Intent
    BY <1>c, IntentTypes
  <2>2. [intents[t] EXCEPT !.status = "succeeded"] \in Intent
    BY <2>1 DEF Intent
  <2>3. intents' = [intents EXCEPT ![t] =
            [intents[t] EXCEPT !.status = "succeeded"]]
    BY <1>c
  <2>4. QED
    BY <1>b, <2>2, <2>3
<1>6. ASSUME NEW t \in Intents, NEW e \in Entries, NEW cash \in Accounts,
             NEW date \in Dates, NEW p \in Periods,
             ConfirmInvoicePayment(t, e, cash, date, p)
      PROVE  TypeOK' /\ BookStep
  <2> DEFINE i == intents[t].invoice
             amount == intents[t].amount
             new == [invoices[i] EXCEPT !.paid = @ + amount,
                                        !.status = PaidStatus(i, amount)]
  <2>1. intents[t].status = "pending" /\ i # 0
    BY <1>6 DEF ConfirmInvoicePayment
  <2>2. i \in Invoices /\ amount \in Nat \ {0}
    BY <2>1, IntentTypes DEF Intent
  <2>3. PICK account \in SettlementAccounts(i) :
            BookNow(e, date, p, SettlementLines(t, cash, account))
    BY <1>6 DEF ConfirmInvoicePayment
  <2>4. invoices[i] \in Invoice /\ account \in Accounts
    <3>1. CASE invoices[i] = NoInvoice
      <4>1. amount <= invoices[i].total - invoices[i].paid
        BY <1>6 DEF ConfirmInvoicePayment, Payable, Outstanding
      <4>2. QED
        BY <2>2, <3>1, <4>1 DEF NoInvoice
    <3>2. CASE invoices[i] \in Invoice
      <4>1. invoices[i].entry \in Entries
        BY <3>2 DEF Invoice
      <4> DEFINE lines == journal[invoices[i].entry].lines
      <4>2. lines \in Seq(Line)
        <5>1. journal[invoices[i].entry] \in Entry \cup {NoEntry}
          BY <1>a, <4>1 DEF LedgerTypeOK
        <5>2. NoEntry.lines \in Seq(Line)
          BY DEF NoEntry
        <5>3. \A row \in Entry : row.lines \in Seq(Line)
          BY DEF Entry
        <5>4. QED
          BY <5>1, <5>2, <5>3
      <4>3. PICK k \in DOMAIN lines : account = lines[k].account
        BY DEF SettlementAccounts
      <4> HIDE DEF lines
      <4>4. lines[k] \in Line
        BY <4>2, <4>3
      <4>5. QED
        BY <3>2, <4>3, <4>4 DEF Line
    <3>3. QED
      BY <1>b, <2>2, <3>1, <3>2
  <2>5. SettlementLines(t, cash, account) \in Seq(Line)
    BY <2>1, <2>4, SettlementType
  <2>6. journal' \in [Entries -> Entry \cup {NoEntry}] /\ BookStep
    BY <1>6, <1>a, <2>3, <2>5, BookNowStep DEF ConfirmInvoicePayment
  <2>7. new \in Invoice
    <3>1. invoices[i].paid + amount \in Nat
      BY <2>2, <2>4 DEF Invoice
    <3>2. PaidStatus(i, amount) \in {"paid", "partially_paid"}
      BY DEF PaidStatus
    <3> HIDE DEF i, amount
    <3>3. QED
      BY <2>4, <3>1, <3>2 DEF Invoice
  <2>8. invoices' = [invoices EXCEPT ![i] = new]
    BY <1>6 DEF ConfirmInvoicePayment
  <2>9. intents' \in [Intents -> Intent \cup {NoIntent}]
    BY <1>6, <1>c, <2>1 DEF ConfirmInvoicePayment
  <2>10. UNCHANGED <<accounts, periods>>
    BY <1>6 DEF ConfirmInvoicePayment
  <2> HIDE DEF i, amount, new
  <2>11. invoices' \in [Invoices -> Invoice \cup {NoInvoice}]
    BY <1>b, <2>2, <2>7, <2>8
  <2>12. QED
    BY <1>a, <2>6, <2>9, <2>10, <2>11 DEF TypeOK, LedgerTypeOK
<1>7. ASSUME NEW t \in Intents, NEW e \in Entries, NEW cash \in Accounts,
             NEW account \in Accounts, NEW date \in Dates, NEW p \in Periods,
             ConfirmOtherPayment(t, e, cash, account, date, p)
      PROVE  TypeOK' /\ BookStep
  <2>1. intents[t].status = "pending"
    BY <1>7 DEF ConfirmOtherPayment
  <2>2. SettlementLines(t, cash, account) \in Seq(Line)
    BY <2>1, SettlementType
  <2>3. journal' \in [Entries -> Entry \cup {NoEntry}] /\ BookStep
    BY <1>7, <1>a, <2>2, BookNowStep DEF ConfirmOtherPayment
  <2>4. intents' \in [Intents -> Intent \cup {NoIntent}]
    BY <1>7, <1>c, <2>1 DEF ConfirmOtherPayment
  <2>5. UNCHANGED <<accounts, periods, invoices>>
    BY <1>7 DEF ConfirmOtherPayment
  <2>6. QED
    BY <1>a, <1>b, <2>3, <2>4, <2>5 DEF TypeOK, LedgerTypeOK
<1>8. CASE UNCHANGED vars
  BY <1>a, <1>b, <1>8, QuietStep DEF vars, TypeOK, LedgerTypeOK
<1>9. QED
  BY <1>1, <1>2, <1>3, <1>4, <1>5, <1>6, <1>7, <1>8 DEF Next

-----------------------------------------------------------------------------
(* Types.                                                                  *)

LEMMA LedgerInitType == LedgerInit => LedgerTypeOK
  BY DEF LedgerInit, LedgerTypeOK

\* The variables of the ledger keep their types when only the ledger runs.
THEOREM LedgerTypeCorrect == LedgerSpec => []LedgerTypeOK
<1>1. LedgerTypeOK /\ UNCHANGED ledgerVars => LedgerTypeOK'
  BY DEF ledgerVars, LedgerTypeOK
<1>2. QED
  BY <1>1, LedgerInitType, LedgerSteps, PTL DEF LedgerSpec

\* The variables keep their types: no confirmed payment, void or reversal
\* leaves an invoice, an intent or an entry outside the values its table
\* accepts.
THEOREM TypeCorrect == Spec => []TypeOK
<1>1. Init => TypeOK
  BY LedgerInitType DEF Init, TypeOK
<1>2. QED
  BY <1>1, Steps, PTL DEF Spec

-----------------------------------------------------------------------------
(* The books balance.                                                      *)

LEMMA BalanceKept ==
  ASSUME BooksBalance, BookStep
  PROVE  BooksBalance'
<1> SUFFICES ASSUME NEW e \in Entries, Counted(e)'
             PROVE  /\ Total(journal'[e].lines) = 0
                    /\ \/ Len(journal'[e].lines) >= 2
                       \/ journal'[e].legacy /\ journal'[e].lines = <<>>
  BY DEF BooksBalance
<1>1. CASE Counted(e)
  BY <1>1 DEF BooksBalance, BookStep, EntryKept
<1>2. CASE ~ Counted(e)
  BY <1>2 DEF BookStep, EntryNew, CopyNew
<1>3. QED
  BY <1>1, <1>2

\* Every entry that the reports count is balanced, whatever drafts, invoices,
\* payments, reversals and copies of old entries wrote it, and has lines,
\* unless it is the copy of an old entry of nothing.
THEOREM BooksAlwaysBalance == Spec => []BooksBalance
<1>1. Init => BooksBalance
  BY DEF Init, LedgerInit, BooksBalance, Counted, NoEntry
<1>2. TypeOK /\ BooksBalance /\ [Next]_vars => BooksBalance'
  BY Steps, BalanceKept
<1>3. QED
  BY <1>1, <1>2, TypeCorrect, PTL DEF Spec

-----------------------------------------------------------------------------
(* Fiscal periods.                                                         *)

\* What an operation does to the ranges of the periods, that of the copies
\* aside: none changes, except that a new period is added that overlaps no other.
LEMMA PeriodsStep ==
  ASSUME LedgerTypeOK, OnePeriodPerDay, LedgerNext
  PROVE  OnePeriodPerDay'
<1> USE DEF LedgerTypeOK
<1>1. ASSUME NEW p \in Periods, NEW status \in PeriodStatuses,
             NEW from \in Dates, NEW to \in Dates,
             CreateFiscalPeriod(p, from, to, status)
      PROVE  OnePeriodPerDay'
  <2> SUFFICES ASSUME NEW q \in OwnPeriods, NEW date \in Dates, q # p,
                      Covers(p, date)', Covers(q, date)'
               PROVE  FALSE
    <3>1. \A q \in Periods \ {p} : periods'[q] = periods[q]
      BY <1>1 DEF CreateFiscalPeriod
    <3>2. \A q \in Periods \ {p}, date \in Dates :
              Covers(q, date)' <=> Covers(q, date)
      BY <3>1 DEF Covers
    <3>3. QED
      BY <3>2 DEF OnePeriodPerDay, OwnPeriods
  <2>0. q \in Periods
    BY DEF OwnPeriods
  <2>1. /\ periods'[p].from = from
        /\ periods'[p].to = to
        /\ periods'[q] = periods[q]
        /\ periods[q] # Undefined => ~ Overlaps(q, from, to)
    BY <1>1, <2>0 DEF CreateFiscalPeriod
  <2>2. CASE periods[q] = Undefined
    BY <2>1, <2>2, LedgerAssumption DEF Covers, Undefined
  <2>3. CASE periods[q] \in Period
    <3>1. periods[q].from \in Nat /\ periods[q].to \in Nat
      BY <2>3, LedgerAssumption DEF Period
    <3>2. from \in Nat /\ to \in Nat /\ date \in Nat
      BY LedgerAssumption
    <3>3. periods[q] # Undefined
      BY <2>3 DEF Period, Undefined, PeriodStatuses
    <3>4. QED
      BY <2>1, <3>1, <3>2, <3>3 DEF Covers, Overlaps
  <2>4. QED
    BY <2>0, <2>2, <2>3
<1>2. ASSUME NEW p \in Periods, NEW status \in PeriodStatuses,
             SetFiscalPeriodStatus(p, status)
      PROVE  OnePeriodPerDay'
  <2>1. periods[p] \in Period
    BY <1>2 DEF SetFiscalPeriodStatus
  <2>2. periods' = [periods EXCEPT ![p] = [periods[p] EXCEPT !.status = status]]
    BY <1>2 DEF SetFiscalPeriodStatus
  <2>3. \A q \in Periods : /\ periods'[q].from = periods[q].from
                           /\ periods'[q].to = periods[q].to
    BY <2>1, <2>2 DEF Period
  <2>4. QED
    BY <2>3 DEF OnePeriodPerDay, OwnPeriods, Covers
<1>3. CASE UNCHANGED periods
  BY <1>3 DEF OnePeriodPerDay, Covers
<1>4. ASSUME NEW new \in NextEntries, NEW from \in Dates, NEW to \in Dates,
             NEW copies \in [new -> OldEntries(from, to)], SyncLegacy(new, copies, from, to)
      PROVE  OnePeriodPerDay'
  <2>1. \A p \in OwnPeriods : periods'[p] = periods[p]
    BY <1>4, SyncStep
  <2>2. QED
    BY <2>1 DEF OnePeriodPerDay, Covers
<1>5. QED
  BY <1>1, <1>2, <1>3, <1>4
  DEF LedgerNext, CreateAccount, PatchAccount, CreateJournalDraft,
      ReverseJournal, AddJournalLine, PostJournal

\* Of the periods that were created, one at most covers a day, however they
\* were created, closed and reopened and whatever was copied meanwhile.
THEOREM DayHasOnePeriod == LedgerSpec => []OnePeriodPerDay
<1>1. LedgerInit => OnePeriodPerDay
  BY LedgerAssumption DEF LedgerInit, OnePeriodPerDay, OwnPeriods, Covers, Undefined
<1>2. OnePeriodPerDay /\ UNCHANGED ledgerVars => OnePeriodPerDay'
  BY DEF ledgerVars, OnePeriodPerDay, Covers
<1>3. QED
  BY <1>1, <1>2, LedgerTypeCorrect, PeriodsStep, PTL DEF LedgerSpec

-----------------------------------------------------------------------------
(* Closed periods.                                                         *)

InPeriod(p) == {e \in Entries : InTotals(e) /\ journal[e].period = p}

\* A step of the books leaves the balances of a period that is not open alone,
\* unless it is that of the copies.
LEMMA BalancesFrozen ==
  ASSUME BookStep, NEW p \in OwnPeriods, periods[p].status # "open",
         NEW a \in Accounts
  PROVE  PeriodBalance(p, a)' = PeriodBalance(p, a)
<1> USE DEF BookStep, EntryKept, EntryNew, CopyNew, InTotals, OwnPeriods
<1>1. InPeriod(p)' = InPeriod(p)
  BY DEF InPeriod
<1>2. \A e \in InPeriod(p) : journal'[e].lines = journal[e].lines
  BY DEF InPeriod
<1>3. [e \in Entries |-> IF e \in InPeriod(p) THEN journal[e].lines ELSE <<>>]'
      = [e \in Entries |-> IF e \in InPeriod(p) THEN journal[e].lines ELSE <<>>]
  BY <1>1, <1>2
<1>4. LinesOf(InPeriod(p))' = LinesOf(InPeriod(p))
  BY <1>3 DEF LinesOf
<1>5. PeriodBalance(p, a) = AccountTotal(LinesOf(InPeriod(p)), a)
  BY Zenon DEF PeriodBalance, InPeriod
<1>6. PeriodBalance(p, a)' = AccountTotal(LinesOf(InPeriod(p))', a)
  BY Zenon DEF PeriodBalance, InPeriod
<1>7. QED
  BY <1>4, <1>5, <1>6

\* The balances of a period that is not open do not move, whatever is posted,
\* reversed or copied, unless it is the period of the copies.
THEOREM ClosedPeriodsFrozen == LedgerSpec => ClosedBooksFrozen
<1> DEFINE Frozen ==
        \A p \in OwnPeriods : periods[p].status # "open" =>
            \A a \in Accounts : PeriodBalance(p, a)' = PeriodBalance(p, a)
<1>1. LedgerTypeOK /\ LedgerNext => Frozen
  BY LedgerSteps, BalancesFrozen
<1> HIDE DEF Frozen
<1>2. LedgerTypeOK /\ [LedgerNext]_ledgerVars => [Frozen]_ledgerVars
  BY <1>1
<1>3. LedgerSpec => [][Frozen]_ledgerVars
  BY <1>2, LedgerTypeCorrect, PTL DEF LedgerSpec
<1>4. QED
  BY <1>3 DEF ClosedBooksFrozen, Frozen

-----------------------------------------------------------------------------
(* Sealed books.                                                           *)

Book(p) == {[entry |-> e, lines |-> journal[e].lines] : e \in Booked(p)}

\* What an operation does to the books: they only grow, and only the books of
\* one open period do.
LEMMA BooksGrow ==
  ASSUME BookStep
  PROVE  \/ \A p \in Periods : Book(p)' = Book(p)
         \/ \E p \in Periods :
               /\ periods[p].status = "open"
               /\ Book(p) \subseteq Book(p)'
               /\ \A q \in Periods \ {p} : Book(q)' = Book(q)
               /\ UNCHANGED periods
<1>1. \A p \in Periods : Book(p) \subseteq Book(p)'
  BY DEF BookStep, EntryKept, Book, Booked
<1>2. CASE \A e \in Entries : CopyNew(e)
  <2> SUFFICES ASSUME NEW p \in Periods PROVE Book(p)' = Book(p)
    OBVIOUS
  <2>1. Booked(p)' = Booked(p)
    BY <1>2 DEF BookStep, EntryKept, CopyNew, Booked
  <2>2. \A e \in Booked(p) : journal'[e].lines = journal[e].lines
    BY DEF BookStep, EntryKept, Booked
  <2>3. QED
    BY <2>1, <2>2 DEF Book
<1>3. ASSUME NEW p \in Periods, periods[p].status = "open",
             \A e \in Entries : EntryNew(e, p), UNCHANGED periods
      PROVE  \A q \in Periods \ {p} : Book(q)' = Book(q)
  BY <1>3 DEF BookStep, EntryKept, EntryNew, Book, Booked
<1>4. QED
  BY <1>1, <1>2, <1>3 DEF BookStep

LEMMA BooksRefine ==
  ASSUME BookStep
  PROVE  [Sealed!Next]_<<bookBar, openBar>>
<1>1. /\ bookBar = [p \in Periods |-> Book(p)]
      /\ bookBar' = [p \in Periods |-> Book(p)']
  BY DEF bookBar, Book
<1>2. CASE \A p \in Periods : Book(p)' = Book(p)
  <2>1. UNCHANGED bookBar
    BY <1>1, <1>2
  <2>2. openBar' \in SUBSET Periods
    BY DEF openBar
  <2>3. QED
    BY <2>1, <2>2 DEF Sealed!Next, Sealed!SetOpen
<1>3. ASSUME NEW p \in Periods,
             periods[p].status = "open",
             Book(p) \subseteq Book(p)',
             \A q \in Periods \ {p} : Book(q)' = Book(q),
             UNCHANGED periods
      PROVE  Sealed!Next
  <2>1. p \in openBar /\ UNCHANGED openBar
    BY <1>3 DEF openBar
  <2>2. bookBar' = [bookBar EXCEPT ![p] = bookBar'[p]]
    BY <1>1, <1>3
  <2>3. bookBar[p] \subseteq bookBar'[p]
    BY <1>1, <1>3
  <2>4. QED
    BY <2>1, <2>2, <2>3 DEF Sealed!Next, Sealed!Post
<1>4. QED
  BY <1>2, <1>3, BooksGrow

LEMMA BooksInit == LedgerInit => Sealed!Init
  BY DEF LedgerInit, Sealed!Init, bookBar, Booked, openBar, Counted, NoEntry

\* The finance core implements the sealed books: invoices, voids, payments
\* and reversals only ever add postings, to a period that is open at that
\* moment, and copies of old entries come only to the period of the copies.
THEOREM ReceivablesSealBooks == Spec => ImplementsSealedBooks
<1>1. TypeOK /\ [Next]_vars => [Sealed!Next]_<<bookBar, openBar>>
  BY Steps, BooksRefine
<1>2. QED
  BY <1>1, BooksInit, TypeCorrect, PTL
  DEF Spec, Init, ImplementsSealedBooks, Sealed!Spec

\* The same for the ledger on its own.
THEOREM LedgerSealsBooks == LedgerSpec => ImplementsSealedBooks
<1>1. LedgerTypeOK /\ LedgerNext => [Sealed!Next]_<<bookBar, openBar>>
  BY LedgerSteps, BooksRefine
<1>2. UNCHANGED ledgerVars => UNCHANGED <<bookBar, openBar>>
  BY DEF ledgerVars, bookBar, Booked, openBar, Counted
<1>3. QED
  BY <1>1, <1>2, BooksInit, LedgerTypeCorrect, PTL
  DEF LedgerSpec, ImplementsSealedBooks, Sealed!Spec

-----------------------------------------------------------------------------
(* What is paid.                                                           *)

\* The paid amount of an invoice is what its confirmed intents add up to, and
\* an intent is for an invoice that has been issued.
PaidInv ==
    /\ \A t \in Intents : intents[t].invoice # 0 =>
          invoices[intents[t].invoice] # NoInvoice
    /\ PaidMatchesPayments

\* What PaidMatchesPayments says of an invoice whose payments add up to paid.
PaidWell(row, paid) ==
    /\ row.paid = paid
    /\ paid <= row.total
    /\ row.status = "paid" <=> paid = row.total
    /\ row.status \in {"issued", "void"} <=> paid = 0

PaidSum(i) == SumFunctionOnSet(Paid, Confirmed(i))

LEMMA PaidIs ==
    PaidMatchesPayments <=>
        \A i \in Invoices : invoices[i] # NoInvoice => PaidWell(invoices[i], PaidSum(i))
  BY DEF PaidMatchesPayments, PaidWell, PaidSum

LEMMA PaidIsAfter ==
    PaidMatchesPayments' <=>
        \A i \in Invoices :
            invoices'[i] # NoInvoice => PaidWell(invoices'[i], PaidSum(i)')
  BY DEF PaidMatchesPayments, PaidWell, PaidSum

LEMMA IntentsFinite ==
  /\ IsFiniteSet(Intents)
  /\ \A s \in SUBSET Intents : IsFiniteSet(s)
<1>1. 1 \in Int /\ NIntents \in Int
  BY ReceivablesAssumption
<1>2. IsFiniteSet(1 .. NIntents)
  BY <1>1, FS_Interval
<1>3. QED
  BY <1>2, FS_Subset DEF Intents

LEMMA IntentRows ==
  ASSUME TypeOK, NEW t \in Intents
  PROVE  /\ intents[t].amount \in Nat /\ Paid[t] = intents[t].amount
         /\ intents[t].invoice \in Invoices \cup {0}
<1>1. intents[t] \in Intent \cup {NoIntent}
  BY DEF TypeOK
<1>2. Paid[t] = intents[t].amount
  BY DEF Paid
<1>3. CASE intents[t] = NoIntent
  BY <1>2, <1>3 DEF NoIntent
<1>4. CASE intents[t] \in Intent
  <2>1. intents[t].amount \in Payments /\ intents[t].invoice \in Invoices \cup {0}
    BY <1>4 DEF Intent
  <2>2. QED
    BY <1>2, <2>1, ReceivablesAssumption
<1>5. QED
  BY <1>1, <1>3, <1>4

LEMMA InvoiceRows ==
  ASSUME TypeOK, NEW i \in Invoices, invoices[i] # NoInvoice
  PROVE  /\ invoices[i] \in Invoice
         /\ invoices[i].total \in Nat \ {0} /\ invoices[i].paid \in Nat
         /\ invoices[i].status # "none"
<1>1. invoices[i] \in Invoice
  BY DEF TypeOK
<1>2. QED
  BY <1>1, ReceivablesAssumption DEF Invoice

LEMMA NoInvoiceIsNone == NoInvoice \notin Invoice /\ NoInvoice.status = "none"
  BY DEF NoInvoice, Invoice, Kinds

\* The payments of an invoice that no intent joins add up to the same.
LEMMA PaidStays ==
  ASSUME TypeOK, NEW i \in Invoices,
         \A t \in Intents :
             \/ /\ intents'[t].invoice = intents[t].invoice
                /\ intents'[t].status = intents[t].status
                /\ intents'[t].amount = intents[t].amount
             \/ t \notin Confirmed(i) /\ t \notin Confirmed(i)'
  PROVE  PaidSum(i)' = PaidSum(i)
<1>1. Confirmed(i)' = Confirmed(i) /\ Confirmed(i) \in SUBSET Intents
  BY DEF Confirmed
<1>2. \A t \in Confirmed(i) : Paid'[t] = Paid[t]
  <2> SUFFICES ASSUME NEW t \in Confirmed(i) PROVE Paid'[t] = Paid[t]
    OBVIOUS
  <2>1. t \in Intents /\ intents'[t].amount = intents[t].amount
    BY <1>1
  <2>2. QED
    BY <2>1 DEF Paid
<1>3. SumFunctionOnSet(Paid', Confirmed(i)) = SumFunctionOnSet(Paid, Confirmed(i))
  BY <1>1, <1>2, IntentsFinite, SumSame
<1>4. QED
  BY <1>1, <1>3 DEF PaidSum

\* An intent that is confirmed adds its amount.
LEMMA PaidRises ==
  ASSUME TypeOK, NEW t \in Intents, intents[t].status = "pending",
         intents' = [intents EXCEPT ![t].status = "succeeded"],
         NEW i, i = intents[t].invoice
  PROVE  /\ \A j \in Invoices \ {i} : PaidSum(j)' = PaidSum(j)
         /\ PaidSum(i)' = PaidSum(i) + intents[t].amount
<1>1. /\ intents'[t] = [intents[t] EXCEPT !.status = "succeeded"]
      /\ \A u \in Intents \ {t} : intents'[u] = intents[u]
  BY DEF TypeOK
<1>2. intents[t] \in Intent
  BY IntentTypes
<1>3. /\ intents'[t].invoice = i /\ intents'[t].status = "succeeded"
      /\ intents'[t].amount = intents[t].amount
  BY <1>1, <1>2 DEF Intent
<1>4. ASSUME NEW j \in Invoices \ {i} PROVE PaidSum(j)' = PaidSum(j)
  <2>1. t \notin Confirmed(j) /\ t \notin Confirmed(j)'
    BY <1>3 DEF Confirmed
  <2>2. QED
    BY <1>1, <2>1, PaidStays
<1>5. Confirmed(i)' = Confirmed(i) \cup {t} /\ t \notin Confirmed(i)
  BY <1>1, <1>3 DEF Confirmed
<1>6. \A u \in Intents : Paid'[u] = Paid[u] /\ Paid[u] \in Int
  <2> SUFFICES ASSUME NEW u \in Intents PROVE Paid'[u] = Paid[u] /\ Paid[u] \in Int
    OBVIOUS
  <2>1. intents'[u].amount = intents[u].amount
    BY <1>1, <1>3
  <2>2. QED
    BY <2>1, IntentRows DEF Paid
<1>7. PaidSum(i)' = SumFunctionOnSet(Paid', Confirmed(i) \cup {t})
  BY <1>5 DEF PaidSum
<1>8. Confirmed(i) \in SUBSET Intents /\ Confirmed(i) \cup {t} \in SUBSET Intents
  BY DEF Confirmed
<1> DEFINE s == Confirmed(i)
<1> HIDE DEF s
<1>9. SumFunctionOnSet(Paid', s \cup {t}) = SumFunctionOnSet(Paid, s \cup {t})
  BY <1>6, <1>8, IntentsFinite, SumSame DEF s
<1>10. SumFunctionOnSet(Paid, s \cup {t}) = Paid[t] + SumFunctionOnSet(Paid, s)
  <2>1. IsFiniteSet(s) /\ t \notin s
    BY <1>5, <1>8, IntentsFinite DEF s
  <2>2. \A u \in s \cup {t} : Paid[u] \in Int
    BY <1>6, <1>8 DEF s
  <2>3. QED
    BY <2>1, <2>2, SumAdd
<1>11. SumFunctionOnSet(Paid, s) \in Int
  BY <1>6, <1>8, IntentsFinite, SumIsInt DEF s
<1>12. Paid[t] = intents[t].amount /\ Paid[t] \in Int
  BY <1>6, IntentRows
<1>13. SumFunctionOnSet(Paid, s) = PaidSum(i)
  BY DEF PaidSum, s
<1>14. PaidSum(i)' = PaidSum(i) + intents[t].amount
  BY <1>7, <1>9, <1>10, <1>11, <1>12, <1>13 DEF s
<1>15. QED
  BY <1>4, <1>14

LEMMA PaidInvStep ==
  ASSUME TypeOK, PaidInv, [Next]_vars
  PROVE  PaidInv'
<1>a. /\ invoices \in [Invoices -> Invoice \cup {NoInvoice}]
      /\ intents \in [Intents -> Intent \cup {NoIntent}]
  BY DEF TypeOK
<1>b. \A i \in Invoices : invoices[i] # NoInvoice => PaidWell(invoices[i], PaidSum(i))
  BY PaidIs DEF PaidInv
<1>c. \A t \in Intents : intents[t].invoice # 0 =>
          /\ intents[t].invoice \in Invoices
          /\ invoices[intents[t].invoice] # NoInvoice
  BY IntentRows DEF PaidInv
<1>d. 0 \notin Invoices
  BY DEF Invoices
<1>1. CASE UNCHANGED <<invoices, intents>>
  <2>1. \A i \in Invoices : PaidSum(i)' = PaidSum(i)
    BY <1>1, PaidStays
  <2>2. QED
    BY <1>1, <1>b, <2>1, PaidIsAfter DEF PaidInv
<1>2. ASSUME NEW i \in Invoices, NEW kind, NEW total \in Totals, NEW e,
             invoices[i] = NoInvoice, UNCHANGED intents,
             invoices' = [invoices EXCEPT ![i] =
                 [kind |-> kind, total |-> total, paid |-> 0, entry |-> e,
                  status |-> "issued"]]
      PROVE  PaidInv'
  <2>1. \A j \in Invoices : PaidSum(j)' = PaidSum(j)
    BY <1>2, PaidStays
  <2>2. PaidSum(i) = 0
    <3>1. Confirmed(i) = {}
      BY <1>2, <1>c, <1>d DEF Confirmed
    <3>2. QED
      BY <3>1, SumOfNone DEF PaidSum
  <2>3. /\ invoices'[i].paid = 0 /\ invoices'[i].status = "issued"
        /\ invoices'[i].total = total /\ total \in Nat \ {0}
        /\ \A j \in Invoices \ {i} : invoices'[j] = invoices[j]
    BY <1>2, <1>a, ReceivablesAssumption
  <2>4. PaidWell(invoices'[i], 0)
    BY <2>3 DEF PaidWell
  <2>5. \A j \in Invoices :
            invoices'[j] # NoInvoice => PaidWell(invoices'[j], PaidSum(j)')
    BY <1>b, <2>1, <2>2, <2>3, <2>4
  <2>6. \A j \in Invoices : invoices[j] # NoInvoice => invoices'[j] # NoInvoice
    BY <1>2, <2>3
  <2>7. QED
    BY <1>2, <1>c, <2>5, <2>6, PaidIsAfter DEF PaidInv
<1>3. ASSUME NEW i \in Invoices, Voidable(i), UNCHANGED intents,
             invoices' = [invoices EXCEPT ![i].status = "void"]
      PROVE  PaidInv'
  <2>1. \A j \in Invoices : PaidSum(j)' = PaidSum(j)
    BY <1>3, PaidStays
  <2>2. invoices[i] # NoInvoice /\ invoices[i].paid = 0
    BY <1>3, NoInvoiceIsNone DEF Voidable
  <2>3. /\ invoices'[i] = [invoices[i] EXCEPT !.status = "void"]
        /\ \A j \in Invoices \ {i} : invoices'[j] = invoices[j]
    BY <1>3, <1>a
  <2>4. /\ invoices[i] \in Invoice /\ invoices[i].total \in Nat \ {0}
    BY <2>2, InvoiceRows
  <2>5. /\ invoices'[i].paid = 0 /\ invoices'[i].status = "void"
        /\ invoices'[i].total \in Nat \ {0}
    BY <2>2, <2>3, <2>4 DEF Invoice
  <2>6. PaidWell(invoices'[i], 0)
    BY <2>5 DEF PaidWell
  <2>7. PaidSum(i) = 0
    BY <1>b, <2>2 DEF PaidWell
  <2>8. \A j \in Invoices :
            invoices'[j] # NoInvoice => PaidWell(invoices'[j], PaidSum(j)')
    BY <1>b, <2>1, <2>3, <2>6, <2>7
  <2>9. \A j \in Invoices : invoices[j] # NoInvoice => invoices'[j] # NoInvoice
    BY <2>3, <2>5, NoInvoiceIsNone
  <2>10. QED
    BY <1>3, <1>c, <2>8, <2>9, PaidIsAfter DEF PaidInv
\* A new intent is not confirmed.
<1>4. ASSUME NEW t \in Intents, NEW row, intents[t] = NoIntent,
             intents' = [intents EXCEPT ![t] = row], row.status = "pending",
             row.invoice # 0 => invoices[row.invoice] # NoInvoice,
             UNCHANGED invoices
      PROVE  PaidInv'
  <2>1. intents'[t] = row /\ \A u \in Intents \ {t} : intents'[u] = intents[u]
    BY <1>4, <1>a
  <2>2. intents[t].status # "succeeded"
    BY <1>4 DEF NoIntent
  <2>3. \A i \in Invoices : PaidSum(i)' = PaidSum(i)
    <3> SUFFICES ASSUME NEW i \in Invoices PROVE PaidSum(i)' = PaidSum(i)
      OBVIOUS
    <3>1. t \notin Confirmed(i) /\ t \notin Confirmed(i)'
      BY <1>4, <2>1, <2>2 DEF Confirmed
    <3>2. QED
      BY <2>1, <3>1, PaidStays
  <2>4. \A u \in Intents : intents'[u].invoice # 0 =>
            invoices[intents'[u].invoice] # NoInvoice
    BY <1>4, <1>c, <2>1
  <2>5. QED
    BY <1>4, <1>b, <2>3, <2>4, PaidIsAfter DEF PaidInv
<1>5. ASSUME NEW t \in Intents, NEW i \in Invoices, NEW amount \in Payments,
             CreateInvoicePayment(t, i, amount)
      PROVE  PaidInv'
  <2>1. invoices[i] # NoInvoice
    BY <1>5, NoInvoiceIsNone DEF CreateInvoicePayment
  <2>2. QED
    BY <1>4, <1>5, <2>1 DEF CreateInvoicePayment
<1>6. ASSUME NEW t \in Intents, NEW direction \in Directions, NEW amount \in Payments,
             CreateOtherPayment(t, direction, amount)
      PROVE  PaidInv'
  BY <1>4, <1>6 DEF CreateOtherPayment
<1>7. ASSUME NEW t \in Intents, intents[t].status = "pending",
             intents' = [intents EXCEPT ![t].status = "succeeded"]
      PROVE  \A u \in Intents : intents'[u].invoice = intents[u].invoice
  BY <1>7, <1>a, IntentTypes DEF Intent
<1>8. ASSUME NEW t \in Intents, NEW e \in Entries, NEW cash \in Accounts,
             NEW date \in Dates, NEW p \in Periods,
             ConfirmInvoicePayment(t, e, cash, date, p)
      PROVE  PaidInv'
  <2> DEFINE amount == intents[t].amount
  <2>0. PICK i \in Invoices \cup {0} : i = intents[t].invoice
    BY IntentRows
  <2>1. /\ intents[t].status = "pending" /\ i # 0
        /\ amount <= invoices[i].total - invoices[i].paid
        /\ intents' = [intents EXCEPT ![t].status = "succeeded"]
        /\ invoices' = [invoices EXCEPT ![i].paid = @ + amount,
                                        ![i].status = PaidStatus(i, amount)]
    BY <1>8, <2>0 DEF ConfirmInvoicePayment, Payable, Outstanding
  <2>2. i \in Invoices /\ invoices[i] # NoInvoice
    BY <1>c, <2>0, <2>1
  <2>3. amount \in Nat \ {0}
    BY <2>1, IntentTypes
  <2>4. /\ invoices[i] \in Invoice /\ invoices[i].total \in Nat /\ invoices[i].paid \in Nat
    BY <2>2, InvoiceRows
  <2>5. /\ \A j \in Invoices \ {i} : PaidSum(j)' = PaidSum(j)
        /\ PaidSum(i)' = PaidSum(i) + amount
    BY <2>0, <2>1, PaidRises
  <2> HIDE DEF amount
  <2>6. /\ invoices'[i] = [invoices[i] EXCEPT !.paid = @ + amount,
                                              !.status = PaidStatus(i, amount)]
        /\ \A j \in Invoices \ {i} : invoices'[j] = invoices[j]
    BY <1>a, <2>1, <2>2
  <2>7. /\ invoices'[i].paid = invoices[i].paid + amount
        /\ invoices'[i].status = PaidStatus(i, amount)
        /\ invoices'[i].total = invoices[i].total
    BY <2>4, <2>6 DEF Invoice
  <2>8. invoices[i].paid = PaidSum(i)
    BY <1>b, <2>2 DEF PaidWell
  <2>9. PaidWell(invoices'[i], PaidSum(i)')
    BY <2>1, <2>3, <2>4, <2>5, <2>7, <2>8 DEF PaidWell, PaidStatus
  <2>10. \A j \in Invoices :
            invoices'[j] # NoInvoice => PaidWell(invoices'[j], PaidSum(j)')
    <3>1. ASSUME NEW j \in Invoices, j # i, invoices'[j] # NoInvoice
          PROVE  PaidWell(invoices'[j], PaidSum(j)')
      <4>1. invoices'[j] = invoices[j] /\ PaidSum(j)' = PaidSum(j)
        BY <2>5, <2>6, <3>1
      <4>2. PaidWell(invoices[j], PaidSum(j))
        BY <1>b, <3>1, <4>1
      <4>3. QED
        BY <4>1, <4>2
    <3>2. QED
      BY <2>9, <3>1
  <2>11. PaidStatus(i, amount) # "none"
    BY DEF PaidStatus
  <2>12. \A j \in Invoices : invoices[j] # NoInvoice => invoices'[j] # NoInvoice
    BY <2>6, <2>7, <2>11, NoInvoiceIsNone
  <2>13. \A u \in Intents : intents'[u].invoice = intents[u].invoice
    BY <1>7, <2>1
  <2>14. QED
    BY <1>c, <2>10, <2>12, <2>13, PaidIsAfter DEF PaidInv
<1>9. ASSUME NEW t \in Intents, NEW e \in Entries, NEW cash \in Accounts,
             NEW account \in Accounts, NEW date \in Dates, NEW p \in Periods,
             ConfirmOtherPayment(t, e, cash, account, date, p)
      PROVE  PaidInv'
  <2>1. /\ intents[t].status = "pending" /\ intents[t].invoice = 0
        /\ intents' = [intents EXCEPT ![t].status = "succeeded"]
        /\ invoices' = invoices
    BY <1>9 DEF ConfirmOtherPayment
  <2>2. \A j \in Invoices : PaidSum(j)' = PaidSum(j)
    BY <1>d, <2>1, PaidRises
  <2>3. \A u \in Intents : intents'[u].invoice = intents[u].invoice
    BY <1>7, <2>1
  <2>4. QED
    BY <1>b, <1>c, <2>1, <2>2, <2>3, PaidIsAfter DEF PaidInv
<1>10. QED
  BY <1>1, <1>2, <1>3, <1>5, <1>6, <1>8, <1>9
  DEF Next, IssueInvoice, VoidInvoice, vars

LEMMA PaidStart == Init => PaidInv
  BY DEF Init, PaidInv, PaidMatchesPayments, NoIntent

\* However many intents compete for the balance of an invoice, what it says is
\* paid is what was confirmed, and never more than its total.
THEOREM PaidIsConfirmed == Spec => []PaidMatchesPayments
<1>1. TypeOK /\ PaidInv /\ [Next]_vars => PaidInv'
  BY PaidInvStep
<1>2. PaidInv => PaidMatchesPayments
  BY DEF PaidInv
<1>3. QED
  BY <1>1, <1>2, PaidStart, TypeCorrect, PTL DEF Spec

-----------------------------------------------------------------------------
(* What is reversed.                                                       *)

\* A step that reverses nothing.
Unmarked ==
    \A e \in Entries :
        /\ journal'[e].reversalOf = journal[e].reversalOf
        /\ journal'[e].status = "reversed" <=> journal[e].status = "reversed"
        /\ Counted(e) => Counted(e)' /\ journal'[e].lines = journal[e].lines

\* A step that posts e, the reversal of o, and marks o.
Marked(o, e) ==
    /\ Counted(o) /\ journal[e] = NoEntry
    /\ journal'[e].status = "posted"
    /\ journal'[e].reversalOf = o
    /\ journal'[e].lines = Mirror(journal[o].lines)
    /\ journal'[o].status = "reversed"
    /\ journal'[o].reversalOf = journal[o].reversalOf
    /\ journal'[o].lines = journal[o].lines
    /\ \A f \in Entries \ {e, o} : journal'[f] = journal[f]

LEMMA BookNowUnmarked ==
  ASSUME LedgerTypeOK, NEW e \in Entries, NEW date, NEW p, NEW lines,
         BookNow(e, date, p, lines)
  PROVE  Unmarked
<1>1. /\ journal[e] = NoEntry
      /\ journal' = [journal EXCEPT ![e] = Posted(Draft(date, p, lines, 0))]
  BY DEF BookNow, Draftable, NextEntry
<1>2. /\ journal'[e] = Posted(Draft(date, p, lines, 0))
      /\ \A f \in Entries \ {e} : journal'[f] = journal[f]
  BY <1>1 DEF LedgerTypeOK
<1>3. journal'[e].reversalOf = 0 /\ journal'[e].status = "posted"
  BY <1>2 DEF Posted, Draft
<1>4. QED
  BY <1>1, <1>2, <1>3 DEF Unmarked, Counted, NoEntry

LEMMA ReversalMarks ==
  ASSUME LedgerTypeOK, NEW o \in Entries, NEW e \in Entries, NEW date, NEW p,
         Reversal(o, e, date, p)
  PROVE  Marked(o, e)
<1> DEFINE new == Posted(Draft(date, p, Mirror(journal[o].lines), o))
<1>1. /\ Counted(o) /\ journal[e] = NoEntry
      /\ journal' = [journal EXCEPT ![e] = new, ![o].status = "reversed"]
  BY DEF Reversal, Draftable, NextEntry
<1>2. /\ new.status = "posted" /\ new.reversalOf = o
      /\ new.lines = Mirror(journal[o].lines)
  BY DEF Posted, Draft
<1>3. o # e
  BY <1>1 DEF Counted, NoEntry
<1> HIDE DEF new
<1>4. /\ journal'[e] = new
      /\ journal'[o] = [journal[o] EXCEPT !.status = "reversed"]
      /\ \A f \in Entries \ {e, o} : journal'[f] = journal[f]
  BY <1>1, <1>3 DEF LedgerTypeOK
<1>5. journal[o] \in Entry
  BY <1>1, EntryTypes DEF Counted
<1>6. /\ journal'[o].status = "reversed"
      /\ journal'[o].reversalOf = journal[o].reversalOf
      /\ journal'[o].lines = journal[o].lines
  BY <1>4, <1>5 DEF Entry
<1>7. QED
  BY <1>1, <1>2, <1>4, <1>6 DEF Marked

\* What a step may do to reversals: those of entries of invoices aside, an
\* entry is reversed that was not.
ReversalStepOK ==
    /\ \A o \in Entries : o \in Invoiced => o \in Invoiced'
    /\ \/ Unmarked
       \/ \E o, e \in Entries : Marked(o, e) /\ (NotYetReversed(o) \/ o \in Invoiced)

LEMMA LedgerUnmarked ==
  ASSUME LedgerTypeOK, LedgerNext
  PROVE  \/ Unmarked
         \/ \E o, e \in Entries : Marked(o, e) /\ NotYetReversed(o)
<1>a. journal \in [Entries -> Entry \cup {NoEntry}]
  BY DEF LedgerTypeOK
<1>1. CASE UNCHANGED journal
  BY <1>1 DEF Unmarked, Counted
<1>2. ASSUME NEW e \in Entries, NEW date \in Dates, NEW p \in Periods,
             NEW lines \in Pairs, CreateJournalDraft(e, date, p, lines)
      PROVE  Unmarked
  <2>1. /\ journal[e] = NoEntry
        /\ journal'[e] = Draft(date, p, lines, 0)
        /\ \A f \in Entries \ {e} : journal'[f] = journal[f]
    BY <1>2, <1>a DEF CreateJournalDraft, Draftable, NextEntry
  <2>2. QED
    BY <2>1 DEF Unmarked, Counted, NoEntry, Draft
<1>3. ASSUME NEW e \in Entries, NEW date \in Dates, NEW p \in Periods,
             NEW o \in Entries, ReverseJournal(o, e, date, p)
      PROVE  Marked(o, e) /\ NotYetReversed(o)
  BY <1>3, ReversalMarks DEF ReverseJournal
<1>4. ASSUME NEW e \in Entries, NEW line \in ManualLines, AddJournalLine(e, line)
      PROVE  Unmarked
  <2>1. journal[e] \in Entry /\ journal[e].status = "draft"
    BY <1>4, EntryTypes DEF AddJournalLine
  <2>2. /\ journal'[e] = [journal[e] EXCEPT !.lines = Append(@, line)]
        /\ \A f \in Entries \ {e} : journal'[f] = journal[f]
    BY <1>4, <1>a DEF AddJournalLine
  <2>3. /\ journal'[e].status = "draft"
        /\ journal'[e].reversalOf = journal[e].reversalOf
    BY <2>1, <2>2 DEF Entry
  <2>4. QED
    BY <2>1, <2>2, <2>3 DEF Unmarked, Counted
<1>5. ASSUME NEW e \in Entries, PostJournal(e)
      PROVE  Unmarked
  <2>1. journal[e] \in Entry /\ journal[e].status = "draft"
    BY <1>5, EntryTypes DEF PostJournal
  <2>2. /\ journal'[e] = Posted(journal[e])
        /\ \A f \in Entries \ {e} : journal'[f] = journal[f]
    BY <1>5, <1>a DEF PostJournal
  <2>3. /\ journal'[e].status = "posted"
        /\ journal'[e].reversalOf = journal[e].reversalOf
    BY <2>1, <2>2 DEF Entry, Posted
  <2>4. QED
    BY <2>1, <2>2, <2>3 DEF Unmarked, Counted
<1>6. ASSUME NEW new \in NextEntries, NEW from \in Dates, NEW to \in Dates,
             NEW copies \in [new -> OldEntries(from, to)], SyncLegacy(new, copies, from, to)
      PROVE  Unmarked
  <2>1. /\ \A e \in new : journal[e] = NoEntry /\ journal'[e] = Copy(copies[e])
        /\ \A e \in Entries \ new : journal'[e] = journal[e]
    BY <1>6, SyncStep
  <2>2. \A e \in new : journal'[e].status = "posted" /\ journal'[e].reversalOf = 0
    BY <2>1, CopyType
  <2>3. QED
    BY <2>1, <2>2 DEF Unmarked, Counted, NoEntry
<1>7. QED
  BY <1>1, <1>2, <1>3, <1>4, <1>5, <1>6
  DEF LedgerNext, CreateAccount, PatchAccount, CreateFiscalPeriod,
      SetFiscalPeriodStatus

LEMMA ReversalSteps ==
  ASSUME TypeOK, [Next]_vars
  PROVE  ReversalStepOK
<1>a. LedgerTypeOK
  BY DEF TypeOK
<1>b. invoices \in [Invoices -> Invoice \cup {NoInvoice}]
  BY DEF TypeOK
<1>c. ASSUME NEW i \in Invoices,
             \/ invoices[i] = NoInvoice
             \/ invoices'[i].entry = invoices[i].entry,
             \A j \in Invoices \ {i} : invoices'[j] = invoices[j]
      PROVE  \A o \in Entries : o \in Invoiced => o \in Invoiced'
  <2>1. NoInvoice.entry \notin Entries
    BY DEF NoInvoice, Entries
  <2>2. ASSUME NEW o \in Entries, NEW j \in Invoices, invoices[j].entry = o
        PROVE  invoices'[j].entry = o
    BY <1>c, <2>1, <2>2
  <2>3. QED
    BY <2>2 DEF Invoiced
<1>d. UNCHANGED invoices => \A o \in Entries : o \in Invoiced => o \in Invoiced'
  BY DEF Invoiced
<1>e. UNCHANGED journal => Unmarked
  BY DEF Unmarked, Counted
<1>1. CASE LedgerNext /\ UNCHANGED <<invoices, intents>>
  BY <1>1, <1>a, <1>d, LedgerUnmarked DEF ReversalStepOK
<1>2. ASSUME NEW e \in Entries, NEW date \in Dates, NEW p \in Periods,
             NEW i \in Invoices, NEW kind \in Kinds, NEW total \in Totals,
             NEW debit \in Accounts, NEW credit \in Accounts,
             IssueInvoice(i, e, kind, total, debit, credit, date, p)
      PROVE  ReversalStepOK
  <2>1. /\ invoices[i] = NoInvoice
        /\ BookNow(e, date, p, Transfer(debit, credit, total))
        /\ \A j \in Invoices \ {i} : invoices'[j] = invoices[j]
    BY <1>2, <1>b DEF IssueInvoice
  <2>2. Unmarked
    BY <1>a, <2>1, BookNowUnmarked
  <2>3. QED
    BY <1>c, <2>1, <2>2 DEF ReversalStepOK
<1>3. ASSUME NEW e \in Entries, NEW date \in Dates, NEW p \in Periods,
             NEW i \in Invoices, VoidInvoice(i, e, date, p)
      PROVE  ReversalStepOK
  <2>1. invoices[i] \in Invoice
    BY <1>3, <1>b DEF VoidInvoice, Voidable, NoInvoice
  <2>2. invoices[i].entry \in Entries /\ invoices[i].entry \in Invoiced
    BY <2>1 DEF Invoice, Invoiced
  <2>3. Marked(invoices[i].entry, e)
    BY <1>3, <1>a, <2>2, ReversalMarks DEF VoidInvoice
  <2>4. /\ invoices'[i] = [invoices[i] EXCEPT !.status = "void"]
        /\ \A j \in Invoices \ {i} : invoices'[j] = invoices[j]
    BY <1>3, <1>b DEF VoidInvoice
  <2>5. invoices'[i].entry = invoices[i].entry
    BY <2>1, <2>4 DEF Invoice
  <2>6. QED
    BY <1>c, <2>2, <2>3, <2>4, <2>5 DEF ReversalStepOK
<1>4. ASSUME NEW t \in Intents, NEW i \in Invoices, NEW amount \in Payments,
             CreateInvoicePayment(t, i, amount)
      PROVE  ReversalStepOK
  BY <1>4, <1>d, <1>e DEF CreateInvoicePayment, ReversalStepOK
<1>5. ASSUME NEW t \in Intents, NEW direction \in Directions,
             NEW amount \in Payments, CreateOtherPayment(t, direction, amount)
      PROVE  ReversalStepOK
  BY <1>5, <1>d, <1>e DEF CreateOtherPayment, ReversalStepOK
<1>6. ASSUME NEW t \in Intents, NEW e \in Entries, NEW cash \in Accounts,
             NEW date \in Dates, NEW p \in Periods,
             ConfirmInvoicePayment(t, e, cash, date, p)
      PROVE  ReversalStepOK
  <2>1. PICK i \in Invoices \cup {0} : i = intents[t].invoice
    BY IntentRows
  <2>2. i # 0 /\ intents[t].amount <= invoices[i].total - invoices[i].paid
    BY <1>6, <2>1 DEF ConfirmInvoicePayment, Payable, Outstanding
  <2>3. Unmarked
    BY <1>6, <1>a, BookNowUnmarked DEF ConfirmInvoicePayment
  <2>4. invoices' = [invoices EXCEPT ![i].paid = @ + intents[t].amount,
                                     ![i].status = PaidStatus(i, intents[t].amount)]
    BY <1>6, <2>1 DEF ConfirmInvoicePayment
  <2> DEFINE paid == invoices[i].paid + intents[t].amount
             status == PaidStatus(i, intents[t].amount)
  <2>5. /\ invoices'[i] = [invoices[i] EXCEPT !.paid = paid, !.status = status]
        /\ \A j \in Invoices \ {i} : invoices'[j] = invoices[j]
    BY <1>b, <2>2, <2>4
  <2> HIDE DEF paid, status
  <2>6. invoices[i] # NoInvoice => invoices'[i].entry = invoices[i].entry
    BY <1>b, <2>2, <2>5 DEF Invoice
  <2>7. QED
    BY <1>c, <2>2, <2>3, <2>5, <2>6 DEF ReversalStepOK
<1>7. ASSUME NEW t \in Intents, NEW e \in Entries, NEW cash \in Accounts,
             NEW account \in Accounts, NEW date \in Dates, NEW p \in Periods,
             ConfirmOtherPayment(t, e, cash, account, date, p)
      PROVE  ReversalStepOK
  BY <1>7, <1>a, <1>d, BookNowUnmarked DEF ConfirmOtherPayment, ReversalStepOK
<1>8. CASE UNCHANGED vars
  BY <1>8, <1>d, <1>e DEF vars, ReversalStepOK
<1>9. QED
  BY <1>1, <1>2, <1>3, <1>4, <1>5, <1>6, <1>7, <1>8 DEF Next

\* A reversal is in the books and mirrors an entry that is marked; an entry
\* that is marked has one, and one that no invoice was issued with has no two.
ReversalInv ==
    /\ \A f \in Entries : journal[f].reversalOf # 0 =>
          /\ Counted(f)
          /\ journal[f].reversalOf \in Entries
          /\ journal[journal[f].reversalOf].status = "reversed"
          /\ journal[f].lines = Mirror(journal[journal[f].reversalOf].lines)
    /\ \A f, g \in Entries :
          /\ journal[f].reversalOf = journal[g].reversalOf
          /\ journal[f].reversalOf \in Entries \ Invoiced
          => f = g
    /\ \A o \in Entries : journal[o].status = "reversed" =>
          \E f \in Entries : journal[f].reversalOf = o

LEMMA ReversalInvStep ==
  ASSUME TypeOK, ReversalInv, ReversalStepOK
  PROVE  ReversalInv'
<1>a. 0 \notin Entries
  BY DEF Entries
<1>b. /\ \A f \in Entries : journal[f].reversalOf # 0 =>
            /\ Counted(f)
            /\ journal[f].reversalOf \in Entries
            /\ journal[journal[f].reversalOf].status = "reversed"
            /\ journal[f].lines = Mirror(journal[journal[f].reversalOf].lines)
      /\ \A f, g \in Entries :
            /\ journal[f].reversalOf = journal[g].reversalOf
            /\ journal[f].reversalOf \in Entries \ Invoiced
            => f = g
      /\ \A o \in Entries : journal[o].status = "reversed" =>
            \E f \in Entries : journal[f].reversalOf = o
  BY DEF ReversalInv
<1>c. \A o \in Entries : o \in Invoiced => o \in Invoiced'
  BY DEF ReversalStepOK
<1>d. \A o \in Entries : journal[o].status = "reversed" => Counted(o)
  BY DEF Counted
<1>1. CASE Unmarked
  <2>1. \A e \in Entries :
            /\ journal'[e].reversalOf = journal[e].reversalOf
            /\ journal'[e].status = "reversed" <=> journal[e].status = "reversed"
            /\ Counted(e) => Counted(e)' /\ journal'[e].lines = journal[e].lines
    BY <1>1 DEF Unmarked
  <2>2. ASSUME NEW f \in Entries, journal'[f].reversalOf # 0
        PROVE  /\ Counted(f)'
               /\ journal'[f].reversalOf \in Entries
               /\ journal'[journal'[f].reversalOf].status = "reversed"
               /\ journal'[f].lines = Mirror(journal'[journal'[f].reversalOf].lines)
    BY <1>b, <1>d, <2>1, <2>2
  <2>3. ASSUME NEW f \in Entries, NEW g \in Entries,
               journal'[f].reversalOf = journal'[g].reversalOf,
               journal'[f].reversalOf \in Entries \ Invoiced'
        PROVE  f = g
    BY <1>b, <1>c, <2>1, <2>3
  <2>4. \A o \in Entries : journal'[o].status = "reversed" =>
            \E f \in Entries : journal'[f].reversalOf = o
    BY <1>b, <2>1
  <2>5. QED
    BY <2>2, <2>3, <2>4 DEF ReversalInv
<1>2. ASSUME NEW o \in Entries, NEW e \in Entries, Marked(o, e),
             NotYetReversed(o) \/ o \in Invoiced
      PROVE  ReversalInv'
  <2>1. /\ Counted(o) /\ journal[e] = NoEntry /\ o # e
        /\ journal'[e].status = "posted"
        /\ journal'[e].reversalOf = o
        /\ journal'[e].lines = Mirror(journal[o].lines)
        /\ journal'[o].status = "reversed"
        /\ journal'[o].reversalOf = journal[o].reversalOf
        /\ journal'[o].lines = journal[o].lines
        /\ \A f \in Entries \ {e, o} : journal'[f] = journal[f]
    BY <1>2 DEF Marked, Counted, NoEntry
  <2>2. journal[e].reversalOf = 0 /\ ~ Counted(e)
    BY <2>1 DEF NoEntry, Counted
  \* Nothing is a reversal of the new entry, and what was reversed stays so.
  <2>3. ASSUME NEW f \in Entries, journal[f].reversalOf # 0
        PROVE  /\ f # e
               /\ journal[f].reversalOf \in Entries \ {e}
               /\ journal'[f].reversalOf = journal[f].reversalOf
               /\ journal'[f].lines = journal[f].lines
               /\ Counted(f)'
               /\ journal'[journal[f].reversalOf].status = "reversed"
               /\ journal'[journal[f].reversalOf].lines
                      = journal[journal[f].reversalOf].lines
    <3>1. f # e /\ Counted(f)
      BY <1>b, <2>2, <2>3
    <3>2. /\ journal[f].reversalOf \in Entries \ {e}
          /\ journal[journal[f].reversalOf].status = "reversed"
      BY <1>b, <1>d, <2>2, <2>3
    <3>3. Counted(f)'
      BY <2>1, <3>1 DEF Counted
    <3>4. QED
      BY <2>1, <3>1, <3>2, <3>3
  <2>4. ASSUME NEW f \in Entries, journal'[f].reversalOf # 0
        PROVE  f = e \/ journal[f].reversalOf # 0
    BY <2>1, <2>4
  <2>5. ASSUME NEW f \in Entries, journal'[f].reversalOf # 0
        PROVE  /\ Counted(f)'
               /\ journal'[f].reversalOf \in Entries
               /\ journal'[journal'[f].reversalOf].status = "reversed"
               /\ journal'[f].lines = Mirror(journal'[journal'[f].reversalOf].lines)
    <3>1. CASE f = e
      <4>1. Counted(e)'
        BY <2>1 DEF Counted
      <4>2. QED
        BY <2>1, <3>1, <4>1
    <3>2. CASE journal[f].reversalOf # 0
      BY <1>b, <2>3, <3>2
    <3>3. QED
      BY <2>4, <2>5, <3>1, <3>2
  <2>6. ASSUME NEW f \in Entries, NEW g \in Entries,
               journal'[f].reversalOf = journal'[g].reversalOf,
               journal'[f].reversalOf \in Entries \ Invoiced'
        PROVE  f = g
    <3>1. CASE f # e /\ g # e
      <4>1. journal[f].reversalOf # 0 /\ journal[g].reversalOf # 0
        BY <1>a, <2>4, <2>6, <3>1
      <4>2. QED
        BY <1>b, <1>c, <2>3, <2>6, <4>1
    <3>2. ASSUME NEW h \in Entries, h # e, journal'[h].reversalOf = o, o \notin Invoiced
          PROVE  FALSE
      <4>1. journal[h].reversalOf # 0
        BY <1>a, <2>4, <3>2
      <4>2. journal[h].reversalOf = o /\ Counted(h)
        BY <1>b, <2>3, <3>2, <4>1
      <4>3. QED
        BY <1>2, <3>2, <4>2 DEF NotYetReversed
    <3>3. o \notin Invoiced' => o \notin Invoiced
      BY <1>c
    <3>4. QED
      BY <2>1, <2>6, <3>1, <3>2, <3>3
  <2>7. ASSUME NEW q \in Entries, journal'[q].status = "reversed"
        PROVE  \E f \in Entries : journal'[f].reversalOf = q
    <3>1. CASE q = o
      BY <2>1, <3>1
    <3>2. CASE q # o
      <4>1. journal[q].status = "reversed"
        BY <2>1, <2>7, <3>2
      <4>2. PICK f \in Entries : journal[f].reversalOf = q
        BY <1>b, <4>1
      <4>3. journal'[f].reversalOf = q
        BY <1>a, <2>3, <4>2
      <4>4. QED
        BY <4>3
    <3>3. QED
      BY <3>1, <3>2
  <2>8. QED
    BY <2>5, <2>6, <2>7 DEF ReversalInv
<1>3. QED
  BY <1>1, <1>2 DEF ReversalStepOK

\* An entry and its mirror cancel on every account.
LEMMA MirrorCancels ==
  ASSUME NEW lines \in Seq(Line), NEW a
  PROVE  AccountTotal(lines, a) + AccountTotal(Mirror(lines), a) = 0
<1> DEFINE D == DOMAIN lines
           of == {i \in D : lines[i].account = a}
           f == [i \in D |-> lines[i].amount]
           g == [i \in D |-> Mirror(lines)[i].amount]
           none == [i \in D |-> 0]
<1>1. \A i \in D : lines[i] \in Line
  OBVIOUS
<1>2. ASSUME NEW i \in D
      PROVE  /\ Mirror(lines)[i].account = lines[i].account
             /\ Mirror(lines)[i].amount = - lines[i].amount
             /\ lines[i].amount \in Int
  <2>1. lines[i] \in Line
    BY <1>1
  <2>2. Mirror(lines)[i] = [lines[i] EXCEPT !.amount = -@]
    BY DEF Mirror
  <2>3. QED
    BY <2>1, <2>2 DEF Line
<1>3. DOMAIN Mirror(lines) = D
  BY DEF Mirror
<1>4. {i \in D : Mirror(lines)[i].account = a} = of
  BY <1>2
<1>5. /\ AccountTotal(lines, a) = SumFunctionOnSet(f, of)
      /\ AccountTotal(Mirror(lines), a) = SumFunctionOnSet(g, of)
  <2>1. AccountTotal(lines, a) = SumFunctionOnSet(f, of)
    BY Zenon DEF AccountTotal
  <2>2. AccountTotal(Mirror(lines), a)
            = SumFunctionOnSet([i \in DOMAIN Mirror(lines) |-> Mirror(lines)[i].amount],
                {i \in DOMAIN Mirror(lines) : Mirror(lines)[i].account = a})
    BY Zenon DEF AccountTotal
  <2>3. QED
    BY <1>3, <1>4, <2>1, <2>2, Zenon
<1>6. IsFiniteSet(of)
  <2>1. 1 \in Int /\ Len(lines) \in Int /\ D = 1 .. Len(lines)
    OBVIOUS
  <2>2. IsFiniteSet(D)
    BY <2>1, FS_Interval
  <2>3. QED
    BY <2>2, FS_Subset
<1>7. \A i \in of : f[i] \in Int /\ g[i] \in Int /\ none[i] = f[i] + g[i]
  BY <1>2
<1>8. \A i \in of : none[i] = 0
  OBVIOUS
<1> HIDE DEF of, f, g, none, D
<1>9. SumFunctionOnSet(none, of) = SumFunctionOnSet(f, of) + SumFunctionOnSet(g, of)
  BY <1>6, <1>7, SumPlus
<1>10. SumFunctionOnSet(none, of) = 0
  BY <1>6, <1>8, SumOfZeros
<1>11. QED
  BY <1>5, <1>9, <1>10

LEMMA ReversedOnce == ASSUME TypeOK, ReversalInv PROVE ReversedExactlyOnce
<1>a. 0 \notin Entries
  BY DEF Entries
<1> SUFFICES ASSUME NEW o \in Entries \ Invoiced
             PROVE  LET reversals == {f \in Entries : journal[f].reversalOf = o} IN
                    /\ Cardinality(reversals) <= 1
                    /\ Counted(o) =>
                           (journal[o].status = "reversed" <=> reversals # {})
                    /\ \A f \in reversals : \A a \in Accounts :
                           AccountTotal(journal[o].lines, a)
                               + AccountTotal(journal[f].lines, a) = 0
  BY DEF ReversedExactlyOnce
<1> DEFINE reversals == {f \in Entries : journal[f].reversalOf = o}
<1>1. \A f, g \in reversals : f = g
  BY DEF ReversalInv
<1>2. Cardinality(reversals) <= 1
  <2>1. CASE reversals = {}
    <3>1. Cardinality(reversals) = 0
      BY <2>1, FS_EmptySet
    <3>2. QED
      BY <3>1
  <2>2. CASE reversals # {}
    <3>1. PICK f \in reversals : TRUE
      BY <2>2
    <3> HIDE DEF reversals
    <3>2. reversals = {f}
      BY <1>1, <3>1
    <3>3. Cardinality(reversals) = 1
      BY <3>2, FS_Singleton
    <3>4. QED
      BY <3>3
  <2>3. QED
    BY <2>1, <2>2
<1>3. journal[o].status = "reversed" <=> reversals # {}
  BY <1>a DEF ReversalInv
<1>4. ASSUME NEW f \in reversals, NEW a \in Accounts
      PROVE  AccountTotal(journal[o].lines, a) + AccountTotal(journal[f].lines, a) = 0
  <2>1. /\ journal[f].lines = Mirror(journal[o].lines)
        /\ journal[o].status = "reversed"
    BY <1>a DEF ReversalInv
  <2>2. journal[o].lines \in Seq(Line)
    <3>1. journal[o] \in Entry
      BY <2>1, EntryTypes DEF TypeOK
    <3>2. QED
      BY <3>1 DEF Entry
  <2>3. QED
    BY <2>1, <2>2, MirrorCancels
<1>5. QED
  BY <1>2, <1>3, <1>4

LEMMA ReversalStart == ASSUME Init PROVE ReversalInv
<1>1. \A f \in Entries : journal[f].reversalOf = 0 /\ journal[f].status = "none"
  BY DEF Init, LedgerInit, NoEntry
<1>2. 0 \notin Entries
  BY DEF Entries
<1>3. QED
  BY <1>1, <1>2 DEF ReversalInv

\* An entry that no invoice was issued with is reversed once at most, is marked
\* so exactly then, and the two cancel on every account.
THEOREM ReversalsAreSound == Spec => []ReversedExactlyOnce
<1>1. TypeOK /\ ReversalInv /\ [Next]_vars => ReversalInv'
  BY ReversalSteps, ReversalInvStep
<1>2. TypeOK /\ ReversalInv => ReversedExactlyOnce
  BY ReversedOnce
<1>3. Init => ReversalInv
  BY ReversalStart
<1>4. QED
  BY <1>1, <1>2, <1>3, TypeCorrect, PTL DEF Spec
=============================================================================
