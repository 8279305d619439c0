SPECIFICATION Spec
CONSTANTS
    p1 = p1  p2 = p2  x1 = x1  x2 = x2  x3 = x3  x4 = x4  r1 = r1  r2 = r2  h1 = h1  h2 = h2
    Purchases = {p1}
    Payments = {x1}
    PurchaseOf <- PurchaseOfOne
    FinalPrice = 15
    Events <- EventsOfSuccess
    Handlers = {h1}
    Mismatched = {}
    LatePayments = {}
    Refunds = {r1, r2}
    RefundOf <- RefundOfOne
    Amounts = {5}
    MaxDisputes = 1
    MaxLosses = 1
SYMMETRY RefundSymmetry
CONSTRAINT DisputeOrLoss
INVARIANTS RefundCeiling EffectsRunOnce SellerIsCreditedOnce
CHECK_DEADLOCK FALSE
