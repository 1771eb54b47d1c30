----------------------------- MODULE Receivables -----------------------------
(***************************************************************************)
(* Invoices and payments on top of the ledger                              *)
(* (src/enterprise-finance-store.js): issuing an invoice posts its entry,  *)
(* voiding it posts a reversal, and confirming a payment intent posts the  *)
(* settlement and raises the paid amount, each in one transaction.  An     *)
(* intent is created long before it is confirmed, so everything about its  *)
(* invoice may have changed in between.                                    *)
(***************************************************************************)
EXTENDS JournalLedger

CONSTANTS
    NInvoices,  \* bound on the invoices
    NIntents,   \* bound on the payment intents
    Totals,     \* totals of an invoice
    Payments    \* amounts of a payment

ASSUME ReceivablesAssumption ==
    /\ NInvoices \in Nat \ {0}
    /\ NIntents \in Nat \ {0}
    /\ Totals \subseteq Nat \ {0}
    /\ Payments \subseteq Nat \ {0}

Invoices == 1 .. NInvoices
Intents == 1 .. NIntents
Kinds == {"receivable", "payable"}

VARIABLES
    invoices,  \* invoices[i]: NoInvoice, or the invoice
    intents    \* intents[t]: NoIntent, or the payment intent

vars == <<accounts, periods, journal, invoices, intents>>

Invoice == [kind : Kinds, total : Totals, paid : Nat, entry : Entries,
            status : {"issued", "partially_paid", "paid", "void"}]
NoInvoice == [kind |-> "none", total |-> 0, paid |-> 0, entry |-> 0,
              status |-> "none"]

Directions == {"incoming", "outgoing"}

\* invoice is 0 for a payment that settles no invoice.
Intent == [invoice : Invoices \cup {0}, direction : Directions,
           amount : Payments, status : {"pending", "succeeded"}]
NoIntent == [invoice |-> 0, direction |-> "none", amount |-> 0,
             status |-> "none"]

Init ==
    /\ LedgerInit
    /\ invoices = [i \in Invoices |-> NoInvoice]
    /\ intents = [t \in Intents |-> NoIntent]

-----------------------------------------------------------------------------
\* createDraftInside followed by postJournalInside.
BookNow(e, date, p, lines) ==
    LET entry == Draft(date, p, lines, 0) IN
    /\ Draftable(e, date, p, lines)
    /\ Postable(entry)
    /\ journal' = [journal EXCEPT ![e] = Posted(entry)]

IssueInvoice(i, e, kind, total, debit, credit, date, p) ==
    /\ invoices[i] = NoInvoice
    /\ BookNow(e, date, p, Transfer(debit, credit, total))
    /\ invoices' = [invoices EXCEPT ![i] =
           [kind |-> kind, total |-> total, paid |-> 0, entry |-> e,
            status |-> "issued"]]
    /\ UNCHANGED <<accounts, periods, intents>>

\* Voiding a void invoice again changes nothing.
Voidable(i) ==
    /\ invoices[i].status \notin {"none", "void"}
    /\ invoices[i].paid = 0

VoidInvoice(i, e, date, p) ==
    /\ Voidable(i)
    /\ Reversal(invoices[i].entry, e, date, p)
    /\ invoices' = [invoices EXCEPT ![i].status = "void"]
    /\ UNCHANGED <<accounts, periods, intents>>

Outstanding(i) == invoices[i].total - invoices[i].paid

DirectionOf(kind) == IF kind = "payable" THEN "outgoing" ELSE "incoming"

CreateInvoicePayment(t, i, amount) ==
    /\ intents[t] = NoIntent
    /\ invoices[i].status \notin {"none", "void", "paid"}
    /\ amount <= Outstanding(i)
    /\ intents' = [intents EXCEPT ![t] =
           [invoice |-> i, direction |-> DirectionOf(invoices[i].kind),
            amount |-> amount, status |-> "pending"]]
    /\ UNCHANGED <<accounts, periods, journal, invoices>>

CreateOtherPayment(t, direction, amount) ==
    /\ intents[t] = NoIntent
    /\ intents' = [intents EXCEPT ![t] =
           [invoice |-> 0, direction |-> direction, amount |-> amount,
            status |-> "pending"]]
    /\ UNCHANGED <<accounts, periods, journal, invoices>>

\* invoiceSettlementAccount: the receivable or payable account is the one of
\* the line that has the right type and side.
Settles(kind, line) ==
    IF kind = "receivable"
    THEN accounts[line.account].type = "asset" /\ line.amount > 0
    ELSE accounts[line.account].type = "liability" /\ line.amount < 0

SettlementAccounts(i) ==
    LET lines == journal[invoices[i].entry].lines IN
    {lines[j].account : j \in
        {k \in DOMAIN lines : Settles(invoices[i].kind, lines[k])}}

SettlementLines(t, cash, account) ==
    IF intents[t].direction = "incoming"
    THEN Transfer(cash, account, intents[t].amount)
    ELSE Transfer(account, cash, intents[t].amount)

\* Mutant: what is outstanding is checked only when the intent is created.
PayableUnchecked(i, amount) == invoices[i] # NoInvoice

\* The code looks at what is outstanding and not at the status.
Payable(i, amount) == amount <= Outstanding(i)

PaidStatus(i, amount) ==
    IF invoices[i].paid + amount = invoices[i].total
    THEN "paid"
    ELSE "partially_paid"

ConfirmInvoicePayment(t, e, cash, date, p) ==
    LET i == intents[t].invoice
        amount == intents[t].amount
    IN
    /\ intents[t].status = "pending"
    /\ i # 0
    /\ Payable(i, amount)
    /\ \E account \in SettlementAccounts(i) :
           BookNow(e, date, p, SettlementLines(t, cash, account))
    /\ intents' = [intents EXCEPT ![t].status = "succeeded"]
    /\ invoices' = [invoices EXCEPT ![i].paid = @ + amount,
                                    ![i].status = PaidStatus(i, amount)]
    /\ UNCHANGED <<accounts, periods>>

ConfirmOtherPayment(t, e, cash, account, date, p) ==
    /\ intents[t].status = "pending"
    /\ intents[t].invoice = 0
    /\ BookNow(e, date, p, SettlementLines(t, cash, account))
    /\ intents' = [intents EXCEPT ![t].status = "succeeded"]
    /\ UNCHANGED <<accounts, periods, invoices>>

Next ==
    \/ LedgerNext /\ UNCHANGED <<invoices, intents>>
    \/ \E e \in Entries, date \in Dates, p \in Periods :
          /\ NextEntry(e) /\ Covers(p, date)
          /\ \/ \E i \in Invoices, kind \in Kinds, total \in Totals,
                   debit, credit \in Accounts :
                   IssueInvoice(i, e, kind, total, debit, credit, date, p)
             \/ \E i \in Invoices : VoidInvoice(i, e, date, p)
             \/ \E t \in Intents, cash \in Accounts :
                   \/ ConfirmInvoicePayment(t, e, cash, date, p)
                   \/ \E account \in Accounts :
                         ConfirmOtherPayment(t, e, cash, account, date, p)
    \/ \E t \in Intents, amount \in Payments :
          \/ \E i \in Invoices : CreateInvoicePayment(t, i, amount)
          \/ \E direction \in Directions :
                CreateOtherPayment(t, direction, amount)

Spec == Init /\ [][Next]_vars

-----------------------------------------------------------------------------
(* Properties.                                                             *)

\* Types of the variables.
TypeOK ==
    /\ LedgerTypeOK
    /\ invoices \in [Invoices -> Invoice \cup {NoInvoice}]
    /\ intents \in [Intents -> Intent \cup {NoIntent}]

Invoiced == {invoices[i].entry : i \in Invoices}

\* reverseJournal: an entry that no invoice was issued with, be it a reversal,
\* has at most one reversal in the books, is marked reversed exactly when it
\* has one, and the two cancel on every account.  (voidInvoice reverses the
\* entry of its invoice without asking whether that has been done.)
ReversedExactlyOnce ==
    \A o \in Entries \ Invoiced :
        LET reversals == {f \in Entries : journal[f].reversalOf = o} IN
        /\ Cardinality(reversals) <= 1
        /\ Counted(o) =>
               (journal[o].status = "reversed" <=> reversals # {})
        /\ \A f \in reversals : \A a \in Accounts :
               AccountTotal(journal[o].lines, a) + AccountTotal(journal[f].lines, a) = 0

Paid == [t \in Intents |-> intents[t].amount]

Confirmed(i) ==
    {t \in Intents : intents[t].invoice = i /\ intents[t].status = "succeeded"}

\* The paid amount of an invoice is the sum of its confirmed payments and
\* never more than its total, however many intents compete for the balance,
\* and its status says so.
PaidMatchesPayments ==
    \A i \in Invoices : invoices[i] # NoInvoice =>
        LET paid == SumFunctionOnSet(Paid, Confirmed(i)) IN
        /\ invoices[i].paid = paid
        /\ paid <= invoices[i].total
        /\ invoices[i].status = "paid" <=> paid = invoices[i].total
        /\ invoices[i].status \in {"issued", "void"} <=> paid = 0

\* createPaymentIntent refuses a void invoice as not payable: a void invoice
\* stays void.
VoidStaysVoid ==
    [][\A i \in Invoices : invoices[i].status = "void" =>
           invoices'[i].status = "void"]_vars
=============================================================================
