------------------------------ MODULE MCFinance ------------------------------
(* The ledger alone, the ledger with the copies of old entries, and the       *)
(* invoices on top of it, one at a time.                                      *)
EXTENDS Receivables, TLC

CONSTANTS m1, m2, pm

VARIABLE part

\* Two of the accounts of the copies: cash and capital.
TwoOldTypes == m1 :> "asset" @@ m2 :> "equity"

Symmetric ==
    Permutations(Accounts \ OldAccounts) \cup Permutations(OwnPeriods)

NoCopies == periods[Migration] = Undefined

\* Bound: three entries, enough for a reversal of a reversal, of two lines on
\* accounts of one type; a draft gains a third line, and is out of balance, as
\* long as there are two entries.
LedgerFocused ==
    /\ NoCopies
    /\ \A a \in Accounts : accounts[a].type \in {"none", "asset"}
    /\ (\E e \in Entries : Len(journal[e].lines) > 2) => journal[NEntries] = NoEntry

\* Bound: the accounts of the copies only, which stay in use, one period beside
\* theirs, on the last day, none that is closing, and drafts that debit cash.
CopiesFocused ==
    /\ \A a \in Accounts : accounts[a].type # "none" =>
           a \in OldAccounts /\ accounts[a] = [type |-> OldTypes[a], active |-> TRUE]
    /\ Cardinality({p \in OwnPeriods : periods[p] # Undefined}) <= 1
    /\ \A p \in Periods : periods[p].status # "closing"
    /\ \A p \in OwnPeriods : periods[p] # Undefined => periods[p].from = 2
    /\ \A e \in Entries : journal[e].status = "draft" =>
           journal[e].lines = Transfer(m1, m2, 1)

\* Bound: one period of one day, no drafts and no account that is out of use,
\* so that the orders of invoices and payments are explored; the intents, which
\* are alike, are created in their order.
ReceivablesFocused ==
    /\ NoCopies
    /\ Cardinality({p \in Periods : periods[p] # Undefined}) <= 1
    /\ \A p \in Periods : periods[p].to <= 1 /\ periods[p].status # "closing"
    /\ \A a \in Accounts : accounts[a] # Unopened =>
           accounts[a].active /\ accounts[a].type \in {"asset", "liability"}
    /\ \A e \in Entries : journal[e].status # "draft"
    /\ \A t \in Intents : intents[t] # NoIntent =>
           \A u \in Intents : u < t => intents[u] # NoIntent

FinanceInit == Init /\ part \in {"ledger", "copies", "receivables"}

FinanceNext ==
    /\ UNCHANGED part
    /\ \/ /\ part = "ledger" /\ LedgerNext /\ LedgerFocused'
          /\ UNCHANGED <<invoices, intents>>
       \/ /\ part = "copies" /\ LedgerNext /\ CopiesFocused'
          /\ UNCHANGED <<invoices, intents>>
       \/ part = "receivables" /\ Next /\ ReceivablesFocused'

FinanceSpec == FinanceInit /\ [][FinanceNext]_<<part, vars>>
=============================================================================
