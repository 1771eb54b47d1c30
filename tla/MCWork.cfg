SPECIFICATION WorkSpec
CONSTANTS
    NULL = NULL
    s1 = s1
    s2 = s2
    r1 = r1
    r2 = r2
    k1 = k1
    d1 = d1
    Phases = {p1}
    Tasks = {t1, t2, t3}
    Entries = {e1, e2}
    Minutes = {1, 2}
    Percents = {0, 50, 100}
    Assets = {b1, b2}
    Allocations = {a1, a2}
    Capacities = {1, 2}
    LastWorkday = 2
    Risks = {h1}
    Kpis = {i1}
    Times = {1, 2, 3}
    Values = {0, 1}
    Versions = {v1, v2, v3}
    Slots = {l1, l2}
    Amounts = {1}
    Keys = {k1, k2}
    Kinds = {"revenue", "expense", "distribution", "valuation"}
    Sums = {1, 2}
    LastDate = 2
    MaxEntries = 3
    MaxOthers = 1
    MaxSafeTotal = 3
    Duties = {d1}
    Assignees = {u1, u2}
    Sittings = {s1, s2}
    Decisions = {r1, r2}
    SittingOf <- Meetings
    Titles = {x1, x2}
    MaxHistory = 4
    Projects = {j1, j2, j3}
    Organizations = {o1, o2}
    Goals = {g1, g2}
    Milestones = {n1, n2}
    Weights = {1, 2}
    MaxWeight = 3
SYMMETRY Symmetric
INVARIANTS
    PlanSound
    NeverOverallocated
    ControlsSound
    BothAccountsAgree
    OneStory
    PortfolioSound
PROPERTIES
    StartedInOrder
CHECK_DEADLOCK FALSE
