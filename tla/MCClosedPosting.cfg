SPECIFICATION FinanceSpec
CONSTANTS
    m1 = m1
    m2 = m2
    pm = pm
    Accounts = {a1, a2, m1, m2}
    Types = {"asset", "liability", "equity"}
    Periods = {p1, p2, pm}
    Dates = {1, 2}
    NEntries = 3
    Amounts = {1}
    MaxLines = 3
    Migration = pm
    OldTypes <- TwoOldTypes
    OldSums = {0, 1}
    NInvoices = 1
    NIntents = 2
    Totals = {2}
    Payments = {1, 2}
SYMMETRY Symmetric
PROPERTIES
    ClosingRestrictsPosting
CHECK_DEADLOCK FALSE
