SPECIFICATION FocusedSpec
CONSTANTS
    h1 = h1
    h2 = h2
    u1 = u1
    m1 = m1
    Holders = {h1, h2}
    Resolutions = {r1}
    Certificates = {c1}
    Limits = {2}
    Weights = {1}
    IssueSizes = {1, 2}
    Leavers = {h2}
    Actions = {a1, a2}
    Users = {u1, u2}
    Plans <- AllPlans
    Voted <- VotedPlans
    Prices = {2}
    LastDay = 2
    None = None
    Voters = {v1, v2}
    Motions = {m1, m2}
    Proxies = {p1, p2}
    VoteWeights = {1}
    MaxUnits = 1
    Horizon = 2
    Nobody = Nobody
SYMMETRY Symmetric
INVARIANTS
    RegisterAddsUp
    CompletedWasVoted
    VotesAddUp
PROPERTIES
    ExecutedAsApproved
