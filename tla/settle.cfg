SPECIFICATION BoundedFairSpec
CONSTANTS
    p1 = p1  p2 = p2  x1 = x1  x2 = x2  x3 = x3  x4 = x4  r1 = r1  r2 = r2  h1 = h1  h2 = h2
    Purchases = {p1, p2}
    Payments = {x1}
    PurchaseOf <- PurchaseOfOne
    FinalPrice = 15
    Events <- EventsOfOne
    Handlers = {h1, h2}
    Mismatched = {}
    LatePayments = {x1}
    Refunds = {r1}
    RefundOf <- RefundOfOne
    Amounts = {}
    MaxDisputes = 1
    MaxLosses = 1
PROPERTIES CapturedIsSettled RefundIsFinal
CHECK_DEADLOCK FALSE
