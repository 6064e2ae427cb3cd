------------------------------- MODULE Quotes -------------------------------
(***************************************************************************)
(* One order's money, from the request to the payout: the quote of         *)
(* handleCreateOrder (internal/api/api.go), what the payer sends, and what *)
(* Record makes of it (internal/settle/deposit.go).                        *)
(***************************************************************************)
EXTENDS Money

CONSTANTS RateKobo, RateUnits, \* rates are so many kobo to so many units
          maxKobo,             \* bound on the NGN of requests
          maxUnits             \* bound on USDC, asked for or sent

Rates == [n : RateKobo, d : RateUnits]

ASSUME QuotesAssumptions ==
    /\ \A rate \in Rates : IsRate(rate) /\ Ordinary(rate)
    /\ maxKobo \in Nat /\ maxUnits \in Nat

VARIABLES quotePc,
          asked,   \* the amounts of the request, 0 for one that is not given
          quoted,  \* the order as it is saved
          paid,    \* USDC in its account
          credited \* what Reconcile made of it
quoteVars == <<quotePc, asked, quoted, paid, credited>>

NoOrderYet == [rate |-> [n |-> 1, d |-> 1], quotedUSDC |-> 0, quotedNGN |-> 0, manual |-> FALSE]
NothingYet == [payoutNGN |-> 0, underpaid |-> FALSE, shortfallNGN |-> 0]

QuotesInit ==
    /\ quotePc = "request"
    /\ asked = [usdc |-> 0, ngn |-> 0]
    /\ quoted = NoOrderYet /\ paid = 0 /\ credited = NothingYet

\* handleCreateOrder: one amount may be missing and is derived from the other; an NGN amount worth
\* no USDC is refused (QuoteUSDC), a USDC amount that is snapped to nothing is not.
QuoteStruck ==
    /\ quotePc = "request"
    /\ \E usdc \in 0 .. maxUnits, ngn \in 0 .. maxKobo, rate \in Rates, manual \in BOOLEAN :
        LET amountUSDC == IF usdc = 0 THEN QuoteUSDC(ngn, rate) ELSE CeilUSDC(usdc)
            amountNGN == IF ngn = 0 THEN QuoteNGN(amountUSDC, rate) ELSE ngn
        IN /\ usdc + ngn > 0 /\ (usdc = 0 => amountUSDC > 0)
           /\ asked' = [usdc |-> usdc, ngn |-> ngn]
           /\ quoted' = [rate |-> rate, quotedUSDC |-> amountUSDC, quotedNGN |-> amountNGN,
                         manual |-> manual]
    /\ quotePc' = "watch"
    /\ UNCHANGED <<paid, credited>>

\* A payer sends what he likes.
PayerPays ==
    /\ quotePc = "watch"
    /\ \E usdc \in 1 .. maxUnits : paid + usdc <= maxUnits /\ paid' = paid + usdc
    /\ UNCHANGED <<quotePc, asked, quoted, credited>>

\* Record: the whole balance is reconciled, once there is one.
DepositReconciled ==
    /\ quotePc = "watch"
    /\ paid > 0
    /\ credited' = Reconcile(paid, quoted)
    /\ quotePc' = "credited"
    /\ UNCHANGED <<asked, quoted, paid>>

QuotesNext == QuoteStruck \/ PayerPays \/ DepositReconciled

QuotesSpec == QuotesInit /\ [][QuotesNext]_quoteVars

-----------------------------------------------------------------------------
\* A quote struck from an invoice is worth the invoice, is less than one quote unit above its
\* exact price, and settles it in full when it is paid to the unit (money.go: "a quote rounds UP",
\* "the merchant is never short").
QuoteCoversInvoice ==
    quotePc = "watch" /\ asked.usdc = 0 =>
        LET r == Reconcile(quoted.quotedUSDC, quoted)
        IN /\ QuoteNGN(quoted.quotedUSDC, quoted.rate) >= asked.ngn
           /\ (quoted.quotedUSDC - QuoteUnit) * quoted.rate.n < asked.ngn * quoted.rate.d
           /\ ~r.underpaid /\ r.payoutNGN >= asked.ngn

\* A merchant is never paid less than the smaller of the invoice and what arrived, nor less than
\* what arrived for a manual order; and where one amount of the quote was derived from the other,
\* never more than what arrived, a shortfall of dust and half a kobo are worth (deposit.go: "the
\* merchant never receives less than the invoice when the payer covered it"; money.go on a wider
\* tolerance: "Linq quietly covering the gap between what a payer sent and what a merchant was
\* promised").
PayoutIsFair ==
    quotePc = "credited" =>
        LET worth == QuoteNGN(paid, quoted.rate)
        IN /\ \/ credited.payoutNGN >= worth
              \/ credited.payoutNGN >= quoted.quotedNGN /\ ~quoted.manual
           /\ credited.underpaid =>
                credited.payoutNGN + credited.shortfallNGN >= quoted.quotedNGN
           /\ (asked.usdc = 0 \/ asked.ngn = 0) =>
                credited.payoutNGN <= QuoteNGN(paid + Dust, quoted.rate)

=============================================================================
