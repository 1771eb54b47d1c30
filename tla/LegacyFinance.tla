--------------------------- MODULE LegacyFinance ---------------------------
(***************************************************************************)
(* The old financial entries (src/platform-store.js), which are posted     *)
(* with an idempotency key and corrected by a reversal until the           *)
(* organisation has an owner, and syncLegacyFinance                        *)
(* (src/enterprise-schema.js), which copies them to the journal after      *)
(* every posting and at every start.  The journal numbers its entries      *)
(* together with those the finance store posts.                            *)
(***************************************************************************)
EXTENDS Integers, Sequences, FiniteSetsExt, Functions

CONSTANTS
    Keys,          \* idempotency keys
    Kinds,         \* kinds of entries
    Sums,          \* amounts
    LastDate,      \* bound on the days of entries
    MaxEntries,    \* bound on the entries
    MaxOthers,     \* bound on the entries of the finance store
    MaxSafeTotal   \* Number.MAX_SAFE_INTEGER

ASSUME LegacyAssumption ==
    /\ Kinds \subseteq {"revenue", "expense", "investment", "distribution",
                        "valuation"}
    /\ Sums \subseteq 0 .. MaxSafeTotal
    /\ IsFiniteSet(Keys)

VARIABLES
    oldEntries,   \* financial_entries, in the order they were created
    copies,       \* copies[i]: the journal entry of the i-th of them
    otherNumbers, \* numbers of the journal entries of the finance store
    receipts,     \* receipts[k]: the request that key stands for, or NoReceipt
    ownerThere    \* the organisation has an owner

legacyVars == <<oldEntries, copies, otherNumbers, receipts, ownerThere>>

NoReceipt == [kind |-> "none", sum |-> 0, date |-> 0, entry |-> 0]

\* 0 in reverses: the entry is no reversal.
OldEntry(kind, sum, date) ==
    [kind |-> kind, sum |-> sum, date |-> date, reverses |-> 0]

-----------------------------------------------------------------------------
(* syncLegacyFinance.                                                      *)

Copied(entries) == {i \in DOMAIN entries : entries[i].kind # "valuation"}

NormalAccounts(kind) ==
    CASE kind = "revenue" -> <<"cash", "revenue">>
      [] kind = "expense" -> <<"expense", "cash">>
      [] kind = "investment" -> <<"cash", "capital">>
      [] kind = "distribution" -> <<"retained", "cash">>

\* Mutant: a reversal is booked like what it reverses.
NeverSwapped(entry) == NormalAccounts(entry.kind)
\* What is debited and what is credited.
AccountsOf(entry) ==
    LET normal == NormalAccounts(entry.kind)
    IN  IF entry.reverses = 0 THEN normal ELSE <<normal[2], normal[1]>>

\* The place of an entry among those of its project, by their days; entries
\* that have been copied already use up a number all the same.
Place(entries, i) ==
    Cardinality({j \in Copied(entries) :
        \/ entries[j].date < entries[i].date
        \/ entries[j].date = entries[i].date /\ j <= i})

\* Mutant: only the numbers of earlier copies are looked at.
CopiesOnly == {copies[i].number : i \in DOMAIN copies}
TakenNumbers == {copies[i].number : i \in DOMAIN copies} \cup otherNumbers

\* INSERT OR IGNORE: an entry that has a copy is passed over, and so is one
\* whose number is taken.
Synced(entries) ==
    LET next(i) == Max({0} \cup TakenNumbers) + Place(entries, i)
        new == {i \in Copied(entries) \ DOMAIN copies : next(i) \notin otherNumbers}
    IN  [i \in (DOMAIN copies) \cup new |->
            IF i \in DOMAIN copies THEN copies[i]
            ELSE [number |-> next(i), accounts |-> AccountsOf(entries[i]),
                  sum |-> entries[i].sum]]

-----------------------------------------------------------------------------
(* Operations.                                                             *)

Signed(entry) == IF entry.reverses = 0 THEN entry.sum ELSE -entry.sum
Total(entries, kind) ==
    LET own == {i \in DOMAIN entries : entries[i].kind = kind}
    IN  SumFunctionOnSet([i \in DOMAIN entries |-> Signed(entries[i])], own)

\* assertFinancialDerivedCapacity.
TotalsAreSafe(entries) ==
    LET total(kind) == Total(entries, kind)
        profit == total("revenue") - total("expense")
        cash == profit + total("investment") - total("distribution")
    IN  \A n \in {total(kind) : kind \in Kinds} \cup {profit, cash} :
            -MaxSafeTotal <= n /\ n <= MaxSafeTotal

\* Entries of before the upgrade have no copies yet.
LegacyInit ==
    /\ oldEntries \in {<<>>} \cup
           {<<OldEntry(kind, sum, 1)>> : kind \in Kinds, sum \in Sums}
    /\ copies = <<>>
    /\ otherNumbers = {}
    /\ receipts = [k \in Keys |-> NoReceipt]
    /\ ownerThere = FALSE

Post(entry) ==
    /\ Len(oldEntries) < MaxEntries
    /\ ~ownerThere
    /\ TotalsAreSafe(Append(oldEntries, entry))
    /\ oldEntries' = Append(oldEntries, entry)
    /\ copies' = Synced(oldEntries')

\* Mutant: the key is not looked up.
AlwaysNew(k) == TRUE
IsNew(k) == receipts[k] = NoReceipt

\* With the key of an earlier request the entry of that request is returned,
\* or the request is refused.
CreateFinancialEntry(k, kind, sum, date) ==
    /\ IsNew(k)
    /\ Post(OldEntry(kind, sum, date))
    /\ receipts' = [receipts EXCEPT ![k] =
           [kind |-> kind, sum |-> sum, date |-> date,
            entry |-> Len(oldEntries) + 1]]
    /\ UNCHANGED <<otherNumbers, ownerThere>>

\* Mutant: an entry may be reversed again.
NotAReversal(i) == oldEntries[i].reverses = 0
Reversible(i) ==
    /\ oldEntries[i].reverses = 0
    /\ \A j \in DOMAIN oldEntries : oldEntries[j].reverses # i

ReverseFinancialEntry(i, date) ==
    /\ Reversible(i)
    /\ Post([oldEntries[i] EXCEPT !.date = date, !.reverses = i])
    /\ UNCHANGED <<otherNumbers, receipts, ownerThere>>

\* openDatabase.
ServerStarts ==
    /\ copies' = Synced(oldEntries)
    /\ UNCHANGED <<oldEntries, otherNumbers, receipts, ownerThere>>

\* postJournalEntry of the finance store.
PostElsewhere ==
    /\ Cardinality(otherNumbers) < MaxOthers
    /\ otherNumbers' = otherNumbers \cup
           {1 + Max({0} \cup otherNumbers \cup {copies[i].number : i \in DOMAIN copies})}
    /\ UNCHANGED <<oldEntries, copies, receipts, ownerThere>>

\* bootstrapOwner.
OwnerComes ==
    /\ ~ownerThere
    /\ ownerThere' = TRUE
    /\ UNCHANGED <<oldEntries, copies, otherNumbers, receipts>>

LegacyNext ==
    \/ \E k \in Keys, kind \in Kinds, sum \in Sums, date \in 1 .. LastDate :
          CreateFinancialEntry(k, kind, sum, date)
    \/ \E i \in DOMAIN oldEntries, date \in 1 .. LastDate :
          ReverseFinancialEntry(i, date)
    \/ ServerStarts
    \/ PostElsewhere
    \/ OwnerComes

LegacySpec == LegacyInit /\ [][LegacyNext]_legacyVars

-----------------------------------------------------------------------------
(* Properties.                                                             *)

Cash(i) ==
    CASE copies[i].accounts[1] = "cash" -> copies[i].sum
      [] copies[i].accounts[2] = "cash" -> -copies[i].sum

\* syncLegacyFinance: once a posting or a start has synchronised them, the
\* journal has every entry, once and under a number of its own, and its cash
\* is what the old reports make of the entries.
JournalTellsTheSame ==
    DOMAIN copies # {} =>
        /\ DOMAIN copies = Copied(oldEntries)
        /\ \A i, j \in DOMAIN copies :
              /\ i # j => copies[i].number # copies[j].number
              /\ copies[i].number \notin otherNumbers
        /\ SumFunctionOnSet([i \in DOMAIN copies |-> Cash(i)], DOMAIN copies) =
              Total(oldEntries, "revenue") - Total(oldEntries, "expense")
              + Total(oldEntries, "investment") - Total(oldEntries, "distribution")

\* operation_receipts and reverseFinancialEntry: of what was posted here, each
\* key has posted one entry, and no entry is taken back more than once, nor
\* the taking back itself.
PostedOnce ==
    /\ \A i, j \in DOMAIN oldEntries :
          oldEntries[i].reverses = j =>
              /\ oldEntries[j].reverses = 0
              /\ \A h \in DOMAIN oldEntries : oldEntries[h].reverses = j => h = i
    /\ Cardinality({i \in DOMAIN oldEntries : oldEntries[i].reverses = 0})
          <= 1 + Cardinality({k \in Keys : receipts[k] # NoReceipt})

\* The old entries and the journal stay two accounts of the same.
BothAccountsAgree == JournalTellsTheSame /\ PostedOnce
=============================================================================
