SPECIFICATION BoundedSpec
CONSTANTS
    p1 = p1  p2 = p2  x1 = x1  x2 = x2  x3 = x3  x4 = x4  r1 = r1  r2 = r2  h1 = h1  h2 = h2
    Purchases = {p1, p2}
    Payments = {x1, x2, x3, x4}
    PurchaseOf <- PurchaseOfEach
    FinalPrice = 15
    Events <- EventsOfFour
    Handlers = {h1, h2}
    Mismatched = {x4}
    LatePayments = {x1}
    Refunds = {}
    RefundOf <- RefundOfOne
    Amounts = {}
    MaxDisputes = 1
    MaxLosses = 0
SYMMETRY HandlerSymmetry
INVARIANTS LicenseIsPaid CapturedIsReal
PROPERTIES PromiseIsKept
CHECK_DEADLOCK FALSE
