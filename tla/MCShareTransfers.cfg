SPECIFICATION TransferSpec
CONSTANTS
    h1 = h1
    h2 = h2
    Holders = {h1, h2}
    Resolutions = {r1, r2}
    Certificates = {}
    Limits = {2, 4}
    Weights = {1}
    IssueSizes = {2}
    Leavers = {}
    None = None
    Transfers = {t1, t2}
    Offers = {o1}
    Payments = {p1}
    Users = {u1, u2}
    Deals <- Sales
    Scope <- OneUnit
    Prices = {1, 2}
    LastDay = 2
SYMMETRY Symmetric
INVARIANTS
    ApprovalWasEarned
    OfferAddsUp
PROPERTIES
    StillWhileVoting
    ImplementsOwnership
