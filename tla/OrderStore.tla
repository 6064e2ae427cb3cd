----------------------------- MODULE OrderStore -----------------------------
(***************************************************************************)
(* The stellar_orders table and the statements that move an order:         *)
(* internal/store/order.go and internal/store/claim.go.  Every operator    *)
(* below that primes a variable is one SQL UPDATE, hence atomic.  The      *)
(* history row each one appends is not modelled here.                      *)
(***************************************************************************)
EXTENDS Naturals, OrderStates

CONSTANTS Orders,         \* order ids
          RefundAddressOf,\* the orders created with a refund address
          MaxUnits        \* most USDC (in units) payers send to one address

ASSUME OrderAssumptions == RefundAddressOf \subseteq Orders /\ MaxUnits \in Nat

Units == 0 .. MaxUnits

\* The row's columns.  The hash columns sweep_tx_hash and refund_tx_hash only
\* matter as "is one of them set".
VARIABLES status,            \* lifecycle state
          financialOutcome,  \* "" until claimed
          amountUSDC,        \* what the deposit was recorded as
          depositFrom,       \* is the payer's account known?
          payoutAttempts, sweepAttempts, refundAttempts,
          closedTxHash,      \* is sweep_tx_hash or refund_tx_hash set?
          reservesReclaimed
orderVars == <<status, financialOutcome, amountUSDC, depositFrom, payoutAttempts,
               sweepAttempts, refundAttempts, closedTxHash, reservesReclaimed>>

\* The columns a bare move leaves alone.
dataColumns == <<financialOutcome, amountUSDC, depositFrom, payoutAttempts, sweepAttempts,
                 refundAttempts, closedTxHash, reservesReclaimed>>

Outcomes == {"", "disbursed", "refunded"}

StoreTypeOK ==
    /\ status \in [Orders -> States]
    /\ financialOutcome \in [Orders -> Outcomes]
    /\ amountUSDC \in [Orders -> Units]
    /\ depositFrom \in [Orders -> BOOLEAN]
    /\ payoutAttempts \in [Orders -> Nat]
    /\ sweepAttempts \in [Orders -> Nat]
    /\ refundAttempts \in [Orders -> Nat]
    /\ closedTxHash \in [Orders -> BOOLEAN]
    /\ reservesReclaimed \in [Orders -> BOOLEAN]

\* Orders as the API creates them: provisioned, awaiting a deposit.  The quote
\* amount_usdc holds until then is not told apart from 0.
StoreInit ==
    /\ status = [o \in Orders |-> "awaiting_deposit"]
    /\ financialOutcome = [o \in Orders |-> ""]
    /\ amountUSDC = [o \in Orders |-> 0]
    /\ depositFrom = [o \in Orders |-> FALSE]
    /\ payoutAttempts = [o \in Orders |-> 0]
    /\ sweepAttempts = [o \in Orders |-> 0]
    /\ refundAttempts = [o \in Orders |-> 0]
    /\ closedTxHash = [o \in Orders |-> FALSE]
    /\ reservesReclaimed = [o \in Orders |-> FALSE]

InState(s) == {o \in Orders : status[o] = s}

-----------------------------------------------------------------------------
\* Mutant: the update is not conditional on the state the order is in.
WinsUnconditionally(o, from, to) == CanTransition(from, to)

\* Would this caller win the move?  The condition of ClaimStatus.
Wins(o, from, to) == CanTransition(from, to) /\ status[o] = from

SetStatus(o, to) == status' = [status EXCEPT ![o] = to]

\* ClaimStatus, ClaimStatusBecause: compare and swap on a legal move, else nothing.
ClaimStatus(o, from, to) ==
    IF Wins(o, from, to) THEN SetStatus(o, to) ELSE UNCHANGED status

\* ReleaseStatus, ReleaseStatusBecause: conditional on the state alone; the table
\* of legal moves is not consulted.
ReleaseStatus(o, from, to) ==
    IF status[o] = from THEN SetStatus(o, to) ELSE UNCHANGED status

\* ClaimFinancialOutcome: can it still be claimed, and the claim.
OutcomeOpen(o) == financialOutcome[o] = ""
SetOutcome(o, outcome) == financialOutcome' = [financialOutcome EXCEPT ![o] = outcome]

\* Where a refund can go: the address given at creation, else the payer's account.
HasRefundDestination(o) == o \in RefundAddressOf \/ depositFrom[o]

=============================================================================
