------------------------------ MODULE MoneyMath ------------------------------
(***************************************************************************)
(* The integer arithmetic of the money paths, in kopecks.  The program     *)
(* computes with JavaScript numbers; on the non-negative amounts it is     *)
(* given, Math.round rounds halves up and Math.floor truncates.            *)
(***************************************************************************)
EXTENDS Integers

\* Math.round(a / b), halves up.
RoundDiv(a, b) == (2 * a + b) \div (2 * b)

\* splitFees: the platform keeps 10% of the final price, the seller the rest.
PlatformFee(finalPrice) == RoundDiv(finalPrice, 10)
SellerNet(finalPrice) == finalPrice - PlatformFee(finalPrice)

\* applyRefundEffects: the seller's share of a refund, proportional to the
\* original split; the platform bears what is left.
RefundSellerPart(amount, sellerRevenue, captured) ==
    RoundDiv(amount * sellerRevenue, captured)
RefundPlatformPart(amount, sellerRevenue, captured) ==
    amount - RefundSellerPart(amount, sellerRevenue, captured)
=============================================================================
