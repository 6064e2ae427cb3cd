------------------------------- MODULE Money -------------------------------
(***************************************************************************)
(* The rounding rules of internal/money/money.go, and Reconcile of         *)
(* internal/settle/deposit.go, over whole numbers: USDC in units of the    *)
(* network's precision, NGN in kobo, and a rate as a fraction, n/d kobo to *)
(* the unit.  Floating point itself is not modelled; the snap of ceilTo,   *)
(* which is there because of it, is.                                       *)
(***************************************************************************)
EXTENDS Integers

CONSTANTS QuoteUnit, \* one unit at QuoteDecimals
          Dust,      \* DustUSDC
          SnapParts  \* ceilTo snaps what is less than 1/SnapParts of a unit from a whole number

ASSUME MoneyAssumptions ==
    /\ QuoteUnit \in Nat \ {0} /\ SnapParts \in Nat \ {0, 1}
    /\ Dust \in Nat /\ Dust < QuoteUnit

\* A rate, and the range of rates ceilTo is meant for: what it snaps away is worth less than half
\* a kobo.
IsRate(rate) == rate \in [n : Nat \ {0}, d : Nat \ {0}]
Ordinary(rate) == 2 * (rate.n * QuoteUnit) < SnapParts * rate.d

\* Mutant: rounded to the nearest unit.
NearestQuotient(a, b) == (2 * a + b) \div (2 * b)

\* ceilTo for a/b quote units: rounded up, unless it is a whole number but for the float's error.
CeilTo(a, b) == (a \div b) + (IF (a % b) * SnapParts < b THEN 0 ELSE 1)

\* roundTo for a/b, which is not negative: half a unit is rounded up.
RoundTo(a, b) == (2 * a + b) \div (2 * b)

CeilUSDC(usdc) == CeilTo(usdc, QuoteUnit) * QuoteUnit
QuoteUSDC(ngn, rate) == CeilTo(ngn * rate.d, rate.n * QuoteUnit) * QuoteUnit
QuoteNGN(usdc, rate) == RoundTo(usdc * rate.n, rate.d)

\* Mutant: a tolerance of one unit at the quote's precision.
CoversWidely(deposited, quoted) == quoted <= 0 \/ deposited >= quoted - QuoteUnit

Covers(deposited, quoted) == quoted <= 0 \/ deposited >= quoted - Dust

-----------------------------------------------------------------------------
\* Reconcile, for what remains of a deposit after the fee (which is zero on Stellar): what the
\* merchant is paid, and whether and by how much it falls short.
Shortfall(quotedNGN, worth) == IF worth < quotedNGN THEN quotedNGN - worth ELSE 0

Reconcile(payable, order) ==
    LET worth   == QuoteNGN(payable, order.rate)
        covered == order.quotedNGN <= 0 \/ Covers(payable, order.quotedUSDC)
        payout  == IF covered /\ (~order.manual \/ worth < order.quotedNGN) /\ order.quotedNGN > 0
                   THEN order.quotedNGN ELSE worth
    IN [payoutNGN |-> payout,
        underpaid |-> ~covered,
        shortfallNGN |-> IF covered THEN 0 ELSE Shortfall(order.quotedNGN, worth)]

=============================================================================
