SPECIFICATION CasesSpec
CONSTANTS
    Needs = {n1, n2, n3, n4}
    Proposals = {q1, q2}
    Keys = {q1, q2}
    ActiveLimit = 3
    MaxOrderNo = 5
    Holders = {1, 2, 3}
    NCases = 2
    LastDay = 1
    NDistributions = 1
    Sums = {4}
    Units = {0, 1, 2}
    KycRequired = TRUE
SYMMETRY Symmetric
INVARIANTS
    ProposalsSound
    KycSound
    MoneyAddsUp
    SettledOnlyWhenPaid
    PaymentNeverConflicts
PROPERTIES
    ImplementsOrderedList
CHECK_DEADLOCK FALSE
