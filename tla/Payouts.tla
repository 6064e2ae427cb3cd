------------------------------- MODULE Payouts -------------------------------
(***************************************************************************)
(* NGN disbursement: internal/payout/worker.go, with the Linq API behind   *)
(* internal/payout/linq.go.  Several workers may run, one per worker       *)
(* process.  A worker's pc is the next statement of pay() that touches the *)
(* row or the network:                                                     *)
(*   idle -> submit -> outcome -> disburse -> queueSweep -> idle           *)
(*           submit -> ask     (no usable answer: what does Status say?)   *)
(*           submit, ask -> retry -> requeue -> idle                       *)
(*           submit -> release -> idle       (still queued there)          *)
(***************************************************************************)
EXTENDS OrderStore, Faults

CONSTANTS PayoutWorkers,
          maxPayoutAttempts, \* maxAttempts in worker.go
          RestartsFailed,    \* does the Linq API start a failed reference again?
          NoRow              \* what an idle worker works on

ASSUME PayoutAssumptions == maxPayoutAttempts \in Nat \ {0} /\ RestartsFailed \in BOOLEAN

\* A selected row is a copy: the attempts counter it carries is as old as the query.
Rows == [order : Orders, attempts : Nat]

VARIABLES payout,   \* what the Linq API knows of each reference
          delayed,  \* a submission given up on that may still arrive
          payPc, payBatch, payRow
providerVars == <<payout, delayed>>
payVars == <<payout, delayed, payPc, payBatch, payRow>>

PayPcs == {"idle", "submit", "ask", "outcome", "disburse", "queueSweep", "retry",
           "requeue", "release"}

PayoutsTypeOK ==
    /\ payout \in [Orders -> {"unknown", "queued", "paid", "failed"}]
    /\ delayed \in [Orders -> BOOLEAN]
    /\ payPc \in [PayoutWorkers -> PayPcs]
    /\ payBatch \in [PayoutWorkers -> SUBSET Rows]
    /\ payRow \in [PayoutWorkers -> Rows \union {NoRow}]
    /\ \A p \in PayoutWorkers : payPc[p] # "idle" => payRow[p] \in Rows

PayoutsInit ==
    /\ payout = [o \in Orders |-> "unknown"]
    /\ delayed = [o \in Orders |-> FALSE]
    /\ payPc = [p \in PayoutWorkers |-> "idle"]
    /\ payBatch = [p \in PayoutWorkers |-> {}]
    /\ payRow = [p \in PayoutWorkers |-> NoRow]

-----------------------------------------------------------------------------
\* The Linq API.  A submission is idempotent on its reference: it starts a payout
\* nobody knows and otherwise returns the existing one.  The contract (provider.go) asks
\* that of a retry after a timeout; whether a payout known to have failed is started
\* again is left open.
Starts(o) == payout[o] = "unknown" \/ (payout[o] = "failed" /\ RestartsFailed)

Accepts(o, s) ==
    IF Starts(o)
    THEN s \in {"queued", "paid", "failed"}
    ELSE s = payout[o]

SetPayout(o, s) == payout' = [payout EXCEPT ![o] = s]

\* A queued transfer is paid or refused by the bank.
BankDecides(o) ==
    /\ payout[o] = "queued"
    /\ \E s \in {"paid", "failed"} : SetPayout(o, s)
    /\ UNCHANGED <<delayed, payPc, payBatch, payRow, orderVars, faultVars>>

\* A submission the worker gave up on arrives after all.
DelayedArrives(o) ==
    /\ delayed[o]
    /\ delayed' = [delayed EXCEPT ![o] = FALSE]
    /\ \E s \in {"queued", "paid", "failed"} : Accepts(o, s) /\ SetPayout(o, s)
    /\ UNCHANGED <<payPc, payBatch, payRow, orderVars, faultVars>>

-----------------------------------------------------------------------------
Goto(p, pc) == payPc' = [payPc EXCEPT ![p] = pc] /\ UNCHANGED payRow
PayDone(p) ==
    /\ payPc' = [payPc EXCEPT ![p] = "idle"]
    /\ payRow' = [payRow EXCEPT ![p] = NoRow]

\* Mutants: queued read as paid; queued read as failed.
AfterResultQueuedIsPaid(s) == IF s \in {"paid", "queued"} THEN "outcome" ELSE "retry"
AfterResultQueuedIsFailed(s) == IF s = "paid" THEN "outcome" ELSE "retry"

\* settle(): where the worker goes on a provider result.
AfterResult(s) ==
    CASE s = "paid" -> "outcome" [] s = "failed" -> "retry" [] OTHER -> "release"

\* sweep(): the rows that are queued, each with the attempts it has now.
PayQuery(p) ==
    /\ payPc[p] = "idle" /\ payBatch[p] = {}
    /\ InState("payout_queued") # {}
    /\ payBatch' = [payBatch EXCEPT ![p] =
            {[order |-> o, attempts |-> payoutAttempts[o]] : o \in InState("payout_queued")}]
    /\ UNCHANGED <<payPc, payRow, providerVars, orderVars, faultVars>>

\* pay(): the next row of the batch is claimed, or skipped when another worker has it.
PayClaim(p) ==
    /\ payPc[p] = "idle"
    /\ \E row \in payBatch[p] :
        /\ payBatch' = [payBatch EXCEPT ![p] = @ \ {row}]
        /\ ClaimStatus(row.order, "payout_queued", "payout_processing")
        /\ IF Wins(row.order, "payout_queued", "payout_processing")
           THEN /\ payPc' = [payPc EXCEPT ![p] = "submit"]
                /\ payRow' = [payRow EXCEPT ![p] = row]
           ELSE UNCHANGED <<payPc, payRow>>
    /\ UNCHANGED <<dataColumns, providerVars, faultVars>>

\* Provider.Pay answers.
PaySubmit(p) ==
    /\ payPc[p] = "submit"
    /\ LET o == payRow[p].order IN
        \E s \in {"queued", "paid", "failed"} :
            Accepts(o, s) /\ SetPayout(o, s) /\ Goto(p, AfterResult(s))
    /\ UNCHANGED <<delayed, payBatch, orderVars, faultVars>>

\* Provider.Pay errs: the request got there and the answer was lost, ...
PayAnswerLost(p) ==
    /\ payPc[p] = "submit"
    /\ Lose
    /\ LET o == payRow[p].order IN
        \E s \in {"queued", "paid", "failed"} : Accepts(o, s) /\ SetPayout(o, s)
    /\ Goto(p, "ask")
    /\ UNCHANGED <<delayed, payBatch, orderVars>>

\* ... or it did not get there, yet or ever.
PayRequestLost(p) ==
    /\ payPc[p] = "submit"
    /\ Lose
    /\ \E late \in BOOLEAN : delayed' = [delayed EXCEPT ![payRow[p].order] = @ \/ late]
    /\ Goto(p, "ask")
    /\ UNCHANGED <<payout, payBatch, orderVars>>

\* Provider.Status: only a definite answer is acted on; "queued" and "unknown" are not.
PayAsk(p) ==
    /\ payPc[p] = "ask"
    /\ LET s == payout[payRow[p].order] IN
        Goto(p, IF s \in {"paid", "failed"} THEN AfterResult(s) ELSE "retry")
    /\ UNCHANGED <<providerVars, payBatch, orderVars, faultVars>>

\* Provider.Status errs.
PayAskLost(p) ==
    /\ payPc[p] = "ask"
    /\ Lose
    /\ Goto(p, "retry")
    /\ UNCHANGED <<providerVars, payBatch, orderVars>>

\* settle(), still in flight: hand the order back.
PayRelease(p) ==
    /\ payPc[p] = "release"
    /\ ReleaseStatus(payRow[p].order, "payout_processing", "payout_queued")
    /\ PayDone(p)
    /\ UNCHANGED <<dataColumns, providerVars, payBatch, faultVars>>

\* markDisbursed: the outcome is claimed, or the worker stops and leaves the order
\* where it is.
PayOutcome(p) ==
    /\ payPc[p] = "outcome"
    /\ LET o == payRow[p].order IN
        IF OutcomeOpen(o)
        THEN SetOutcome(o, "disbursed") /\ Goto(p, "disburse")
        ELSE PayDone(p) /\ UNCHANGED financialOutcome
    /\ UNCHANGED <<status, amountUSDC, depositFrom, payoutAttempts, sweepAttempts,
                   refundAttempts, closedTxHash, reservesReclaimed>>
    /\ UNCHANGED <<providerVars, payBatch, faultVars>>

\* markDisbursed: the order is disbursed ...
PayDisburse(p) ==
    /\ payPc[p] = "disburse"
    /\ ClaimStatus(payRow[p].order, "payout_processing", "disbursed")
    /\ Goto(p, "queueSweep")
    /\ UNCHANGED <<dataColumns, providerVars, payBatch, faultVars>>

\* ... and its treasury sweep queued.
PayQueueSweep(p) ==
    /\ payPc[p] = "queueSweep"
    /\ ClaimStatus(payRow[p].order, "disbursed", "sweep_queued")
    /\ PayDone(p)
    /\ UNCHANGED <<dataColumns, providerVars, payBatch, faultVars>>

\* retryOrRefund: the attempt is written, computed from the selected row; an error of
\* this statement is only logged.
PayRetry(p) ==
    /\ payPc[p] = "retry"
    /\ \/ /\ payoutAttempts' = [payoutAttempts EXCEPT ![payRow[p].order] = payRow[p].attempts + 1]
          /\ UNCHANGED faultVars
       \/ Lose /\ UNCHANGED payoutAttempts
    /\ Goto(p, "requeue")
    /\ UNCHANGED <<status, financialOutcome, amountUSDC, depositFrom, sweepAttempts,
                   refundAttempts, closedTxHash, reservesReclaimed>>
    /\ UNCHANGED <<providerVars, payBatch>>

\* retryOrRefund: another chance, or the payer's money goes back.
PayRequeue(p) ==
    /\ payPc[p] = "requeue"
    /\ IF payRow[p].attempts + 1 < maxPayoutAttempts
       THEN ReleaseStatus(payRow[p].order, "payout_processing", "payout_queued")
       ELSE ClaimStatus(payRow[p].order, "payout_processing", "refund_queued")
    /\ PayDone(p)
    /\ UNCHANGED <<dataColumns, providerVars, payBatch, faultVars>>

\* The handler is cut short, alone or with its loop; a request it was waiting on may still
\* arrive.
PayCrash(p) ==
    /\ payPc[p] # "idle"
    /\ Crash
    /\ \E late \in BOOLEAN :
        delayed' = IF payPc[p] = "submit"
                   THEN [delayed EXCEPT ![payRow[p].order] = @ \/ late]
                   ELSE delayed
    /\ PayDone(p)
    /\ \E rest \in {{}, payBatch[p]} : payBatch' = [payBatch EXCEPT ![p] = rest]
    /\ UNCHANGED <<payout, orderVars>>

=============================================================================
