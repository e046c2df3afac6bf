SPECIFICATION Spec
CONSTANTS
    o = o
    p = p
    q = q
    f = f
    r = r
    b = b
    g = g
    l4 = l4
    l1 = l1
    l2 = l2
    l3 = l3
    m1 = m1
    x1 = x1
    x2 = x2
    unknown = unknown
    Unknown = unknown
    Order = {o}
    Shipment = {p, q}
    Freight = {f}
    Single = {r, g}
    Batch = {b}
    Line = {l1, l2, l3, l4}
    Legacy = {g}
    Register = {m1}
    Deduction = {x1, x2}
    Amount = {1}
    OrderOf <- MCOrderOf
    CaseOf <- MCCaseOf
    SourceOf <- MCSourceOf
    FirstDue <- MCFirstDue
SYMMETRY Symmetric
INVARIANTS TypeOK PaidAsApproved DepositsBacked
PROPERTY NeverBeyondDue
CHECK_DEADLOCK FALSE
