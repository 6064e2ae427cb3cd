----------------------------- MODULE Settlement -----------------------------
(***************************************************************************)
(* The settlement of orders: the detectors, the payout workers and the     *)
(* chain workers of any number of worker processes (cmd/worker/main.go)    *)
(* over one orders table, the Stellar ledger and the Linq API.  The loops  *)
(* share nothing but the database: one loop's final state is the next      *)
(* loop's queue.                                                           *)
(***************************************************************************)
EXTENDS Deposits, Payouts, ChainQueues, FiniteSets

vars == <<orderVars, ledgerVars, faultVars, detVars, payVars, chainVars>>

Init == StoreInit /\ LedgerInit /\ FaultsInit /\ DepositsInit /\ PayoutsInit /\ ChainInit

\* A step of one component leaves the variables of the others alone.
OnlyDetection == UNCHANGED <<payVars, chainVars>>
OnlyPayouts == UNCHANGED <<ledgerVars, detVars, chainVars>>
OnlyChain == UNCHANGED <<detVars, payVars>>
OnlyLedger == UNCHANGED <<orderVars, faultVars, detVars, payVars, chainVars>>

DetectionRuns ==
    \/ \E o \in Orders : DeadlinePasses(o) /\ OnlyDetection
    \/ \E d \in Scanners : ScannerQuery(d) /\ OnlyDetection
    \/ \E d \in Scanners : ScannerReads(d) /\ OnlyDetection
    \/ \E d \in Scanners : ScannerReadFails(d) /\ OnlyDetection
    \/ \E d \in Scanners : Expire(d) /\ OnlyDetection
    \/ \E d \in Streams : StreamReads(d) /\ OnlyDetection
    \/ \E d \in Detectors : Record(d) /\ OnlyDetection
    \/ \E d \in Detectors : QueuePayout(d) /\ OnlyDetection
    \/ \E d \in Detectors : EnqueueFails(d) /\ OnlyDetection
    \/ \E d \in Detectors : DetectorCrash(d) /\ OnlyDetection

PayoutRuns ==
    \/ \E o \in Orders : BankDecides(o) /\ OnlyPayouts
    \/ \E o \in Orders : DelayedArrives(o) /\ OnlyPayouts
    \/ \E p \in PayoutWorkers : PayQuery(p) /\ OnlyPayouts
    \/ \E p \in PayoutWorkers : PayClaim(p) /\ OnlyPayouts
    \/ \E p \in PayoutWorkers : PaySubmit(p) /\ OnlyPayouts
    \/ \E p \in PayoutWorkers : PayAnswerLost(p) /\ OnlyPayouts
    \/ \E p \in PayoutWorkers : PayRequestLost(p) /\ OnlyPayouts
    \/ \E p \in PayoutWorkers : PayAsk(p) /\ OnlyPayouts
    \/ \E p \in PayoutWorkers : PayAskLost(p) /\ OnlyPayouts
    \/ \E p \in PayoutWorkers : PayRelease(p) /\ OnlyPayouts
    \/ \E p \in PayoutWorkers : PayOutcome(p) /\ OnlyPayouts
    \/ \E p \in PayoutWorkers : PayDisburse(p) /\ OnlyPayouts
    \/ \E p \in PayoutWorkers : PayQueueSweep(p) /\ OnlyPayouts
    \/ \E p \in PayoutWorkers : PayRetry(p) /\ OnlyPayouts
    \/ \E p \in PayoutWorkers : PayRequeue(p) /\ OnlyPayouts
    \/ \E p \in PayoutWorkers : PayCrash(p) /\ OnlyPayouts

ChainRuns ==
    \/ \E o \in Orders : PayerSends(o) /\ OnlyLedger
    \/ \E o \in Orders : PendingLands(o) /\ OnlyLedger
    \/ \E o \in Orders : PendingExpires(o) /\ OnlyLedger
    \/ \E c \in ChainWorkers, job \in Jobs : ChainQuery(c, job) /\ OnlyChain
    \/ \E c \in ChainWorkers : SweepClaim(c) /\ OnlyChain
    \/ \E c \in ChainWorkers : RefundClaim(c) /\ OnlyChain
    \/ \E c \in ChainWorkers : RefundOutcome(c) /\ OnlyChain
    \/ \E c \in ChainWorkers : SweepReads(c) /\ OnlyChain
    \/ \E c \in ChainWorkers : SweepReadFails(c) /\ OnlyChain
    \/ \E c \in ChainWorkers : SweepLands(c) /\ OnlyChain
    \/ \E c \in ChainWorkers : SweepRejected(c) /\ OnlyChain
    \/ \E c \in ChainWorkers : SweepAnswerLost(c) /\ OnlyChain
    \/ \E c \in ChainWorkers : SweepTimesOut(c) /\ OnlyChain
    \/ \E c \in ChainWorkers : SweepRecord(c) /\ OnlyChain
    \/ \E c \in ChainWorkers : SweepRetry(c) /\ OnlyChain
    \/ \E c \in ChainWorkers : SweepRequeue(c) /\ OnlyChain
    \/ \E c \in ChainWorkers : ReclaimProbe(c) /\ OnlyChain
    \/ \E c \in ChainWorkers : ReclaimProbeFails(c) /\ OnlyChain
    \/ \E c \in ChainWorkers : ReclaimLands(c) /\ OnlyChain
    \/ \E c \in ChainWorkers : ReclaimRejected(c) /\ OnlyChain
    \/ \E c \in ChainWorkers : ReclaimLost(c) /\ OnlyChain
    \/ \E c \in ChainWorkers : MarkReclaimed(c) /\ OnlyChain
    \/ \E c \in ChainWorkers : ChainCrash(c) /\ OnlyChain

Next == DetectionRuns \/ PayoutRuns \/ ChainRuns

Spec == Init /\ [][Next]_vars

-----------------------------------------------------------------------------
(***************************************************************************)
(* Fairness.  wake.Loop calls each worker's pass again after at most its   *)
(* interval, whether or not it was signalled, so a loop that is not cut    *)
(* short keeps taking steps; a pass of the chain worker makes its three    *)
(* queries in turn, so none of them is passed over for ever.  The bank     *)
(* decides every transfer, time goes by, and a submission's time bounds    *)
(* run out.  Nothing is assumed of payers, of the streams ("the stream is  *)
(* an optimisation") or of anything being lost.                            *)
(***************************************************************************)
ScannerRuns(d) ==
    /\ ScannerQuery(d) \/ ScannerReads(d) \/ Record(d) \/ QueuePayout(d) \/ Expire(d)
    /\ OnlyDetection
StreamFinishes(d) ==
    /\ Record(d) \/ QueuePayout(d)
    /\ OnlyDetection
PayWorkerRuns(p) ==
    /\ \/ PayQuery(p) \/ PayClaim(p) \/ PaySubmit(p) \/ PayAsk(p) \/ PayRelease(p)
       \/ PayOutcome(p) \/ PayDisburse(p) \/ PayQueueSweep(p) \/ PayRetry(p) \/ PayRequeue(p)
    /\ OnlyPayouts
ChainWorkerQueries(c, job) == ChainQuery(c, job) /\ OnlyChain
ChainWorkerRuns(c) ==
    /\ \/ SweepClaim(c) \/ RefundClaim(c) \/ ReclaimProbe(c) \/ SweepReads(c)
       \/ SweepLands(c) \/ SweepRejected(c) \/ ReclaimLands(c) \/ ReclaimRejected(c)
       \/ RefundOutcome(c) \/ SweepRecord(c) \/ SweepRetry(c) \/ SweepRequeue(c) \/ MarkReclaimed(c)
    /\ OnlyChain

Fairness ==
    /\ \A d \in Scanners : WF_vars(ScannerRuns(d))
    /\ \A d \in Streams : WF_vars(StreamFinishes(d))
    /\ \A p \in PayoutWorkers : WF_vars(PayWorkerRuns(p))
    /\ \A c \in ChainWorkers :
        /\ WF_vars(ChainWorkerRuns(c))
        /\ \A job \in Jobs : SF_vars(ChainWorkerQueries(c, job))
    /\ \A o \in Orders :
        /\ WF_vars(DeadlinePasses(o) /\ OnlyDetection)
        /\ WF_vars(BankDecides(o) /\ OnlyPayouts)
        /\ WF_vars(PendingExpires(o) /\ OnlyLedger)

FairSpec == Spec /\ Fairness

-----------------------------------------------------------------------------
(* Type invariant *)

\* Every column, ledger entry and handler variable stays in its range, and a handler
\* that is not idle works on a row it selected.
TypeOK == StoreTypeOK /\ LedgerTypeOK /\ FaultsTypeOK /\ DepositsTypeOK /\ PayoutsTypeOK /\ ChainTypeOK

-----------------------------------------------------------------------------
(* Safety *)

\* USDC leaves a deposit account only in the direction the financial outcome names: to
\* treasury once it was claimed "disbursed", to the payer once it was claimed "refunded"
\* (ClaimFinancialOutcome, markDisbursed, refund).
FundsFollowOutcome ==
    \A o \in Orders : /\ treasury[o] > 0 => financialOutcome[o] = "disbursed"
                      /\ returned[o] > 0 => financialOutcome[o] = "refunded"

\* The service takes the USDC of an order only after the merchant has the NGN: "the merchant is
\* paid before Linq moves its own funds" (state.go, markDisbursed).
SweptOnlyAfterPaid == \A o \in Orders : treasury[o] > 0 => payout[o] = "paid"

\* The holders of an order: the handlers between a claim they won and the move that hands
\* the order on.
DetectorHolds(d, o) == detPc[d] = "queue" /\ detOrder[d] = o
PayoutHolds(p, o) == payPc[p] # "idle" /\ payRow[p].order = o
ChainHolds(c, o) == /\ chainPc[c] \notin {"idle", "close", "markClosed", "markGone"}
                    /\ chainTask[c].order = o

\* Claiming gives exclusive possession: whatever number of worker processes run, no two
\* handlers hold one order, not even handlers of two different loops (claim.go: "it returns
\* true only for the caller that actually performed the move").
OneHolder ==
    \A o \in Orders :
        /\ \A d, e \in Detectors : DetectorHolds(d, o) /\ DetectorHolds(e, o) => d = e
        /\ \A p, q \in PayoutWorkers : PayoutHolds(p, o) /\ PayoutHolds(q, o) => p = q
        /\ \A c, e \in ChainWorkers : ChainHolds(c, o) /\ ChainHolds(e, o) => c = e
        /\ \A d \in Detectors, p \in PayoutWorkers : ~(DetectorHolds(d, o) /\ PayoutHolds(p, o))
        /\ \A d \in Detectors, c \in ChainWorkers : ~(DetectorHolds(d, o) /\ ChainHolds(c, o))
        /\ \A p \in PayoutWorkers, c \in ChainWorkers : ~(PayoutHolds(p, o) /\ ChainHolds(c, o))

\* An order is only reported settled or refunded when its account is closed and at least
\* the recorded deposit went where the state says, lost answers and retries included
\* (sweep, refund, Client.Sweep).
FinishedMeansMoved ==
    \A o \in Orders :
        /\ status[o] = "settled_in_treasury" => ~accountOpen[o] /\ treasury[o] >= amountUSDC[o]
        /\ status[o] = "refunded" => ~accountOpen[o] /\ returned[o] >= amountUSDC[o]

\* An expired order leaves the reclaim queue only when its account is gone, so neither
\* reserves nor a late deposit are forgotten (reclaim, markReclaimed, Client.Reclaim).
ReclaimedMeansClosed ==
    \A o \in Orders : reservesReclaimed[o] => status[o] = "expired" /\ ~accountOpen[o] /\ Sent(o) = 0

\* Exactly one detection counts: from its claim on, and until it is handed back to wait again, an
\* order's recorded amount and sender stay as they are (Deposits.Record: "one door to the money").
CreditedOnce ==
    [][\A o \in Orders : status[o] # "awaiting_deposit" =>
            amountUSDC'[o] = amountUSDC[o] /\ depositFrom'[o] = depositFrom[o]]_vars

\* Every move an order makes is in the table of legal moves, except the one ReleaseStatus
\* makes without consulting it: a credited order whose payout could not be queued is handed
\* back (state.go, transitions: "enforced rather than documented"; Deposits.Record).
HandedBack(o) ==
    EnqueueMayFail /\ status[o] = "deposit_detected" /\ status'[o] = "awaiting_deposit"

OnlyLegalMoves ==
    [][\A o \in Orders : status'[o] # status[o] =>
            CanTransition(status[o], status'[o]) \/ HandedBack(o)]_vars

\* No order is both paid out and refunded (order.go, FinancialOutcome).
PaidOrRefunded == \A o \in Orders : ~(payout[o] = "paid" /\ returned[o] > 0)

\* The states in which an order belongs to a handler: no query selects it, so once its handler is
\* gone nothing moves it on.
HeldStates ==
    {"deposit_detected", "payout_processing", "disbursed", "sweep_processing", "refund_processing"}

Attended(o) ==
    \/ \E d \in Detectors : DetectorHolds(d, o)
    \/ \E p \in PayoutWorkers : PayoutHolds(p, o)
    \/ \E c \in ChainWorkers : ChainHolds(c, o)

\* A second try of a refund finds its own outcome claimed, and drops the order (refund()).
RefundDecided(o) == status[o] = "refund_processing" /\ financialOutcome[o] = "refunded"

Abandoned == {o \in Orders : status[o] \in HeldStates /\ ~Attended(o) /\ ~RefundDecided(o)}

\* A handler that comes to its end hands its order on: one order is left behind by a handler that
\* was cut short and by nothing else, lost answers, outcomes already claimed and moves not won
\* included (Record, settle, markDisbursed, retryOrRefund, sweep, retry).
AbandonedPerCrash == Cardinality(Abandoned) <= crashes

\* An order marked failed still has its USDC in its own deposit account (retry, DEPLOYMENT.md).
FailedKeepsFunds ==
    \A o \in Orders : status[o] = "failed" => treasury[o] = 0 /\ returned[o] = 0

-----------------------------------------------------------------------------
(* The inductive invariant behind OneHolder, FundsFollowOutcome and SweptOnlyAfterPaid *)

\* A handler that holds an order finds it in the state its claim left it in, and no other
\* handler of its kind holds it.
DetectorClaims ==
    \A o \in Orders, d \in Detectors : DetectorHolds(d, o) =>
        /\ status[o] = "deposit_detected"
        /\ \A e \in Detectors : DetectorHolds(e, o) => e = d

PayoutClaims ==
    \A o \in Orders, p \in PayoutWorkers : PayoutHolds(p, o) =>
        /\ status[o] = IF payPc[p] = "queueSweep" THEN "disbursed" ELSE "payout_processing"
        /\ \A q \in PayoutWorkers : PayoutHolds(q, o) => q = p

ChainClaims ==
    \A o \in Orders, c \in ChainWorkers : ChainHolds(c, o) =>
        /\ chainTask[c].job \in {"sweep", "refund"}
        /\ status[o] = Processing(chainTask[c].job)
        /\ \A e \in ChainWorkers : ChainHolds(e, o) => e = c

Claims == DetectorClaims /\ PayoutClaims /\ ChainClaims

\* What was decided of each order agrees with the rest.  First the payout, then the states,
\* then the submissions still under way, then the two loops that move NGN and USDC.
MovesAsDecided(o, to) ==
    /\ to = "treasury" => financialOutcome[o] = "disbursed"
    /\ to = "payer" => financialOutcome[o] = "refunded"

PaidIfDisbursed == \A o \in Orders : financialOutcome[o] = "disbursed" => payout[o] = "paid"

DisbursedIfSwept ==
    \A o \in Orders : status[o] \in {"disbursed"} \union SweepLeg => financialOutcome[o] = "disbursed"

SubmissionsDecided == \A o \in Orders : \A tx \in pending[o] : MovesAsDecided(o, tx.to)

PayoutsDecided ==
    \A p \in PayoutWorkers :
        /\ payPc[p] = "outcome" => payout[payRow[p].order] = "paid"
        /\ payPc[p] = "disburse" => financialOutcome[payRow[p].order] = "disbursed"

ChainDecided ==
    \A c \in ChainWorkers :
        /\ chainPc[c] = "outcome" => chainTask[c].job = "refund"
        /\ chainPc[c] \in {"read", "send", "record", "retry", "requeue"} =>
                /\ chainTask[c].job \in {"sweep", "refund"}
                /\ MovesAsDecided(chainTask[c].order, Destination(chainTask[c].job))

Decided ==
    PaidIfDisbursed /\ DisbursedIfSwept /\ SubmissionsDecided /\ PayoutsDecided /\ ChainDecided

\* What is proved inductive: the types, who may hold which order, what was decided of each
\* order, and the property that rests on it.
IInv == TypeOK /\ Claims /\ Decided /\ FundsFollowOutcome

-----------------------------------------------------------------------------
(* Refinement of OrderPromise, where no request is lost (MaxLosses = 0) *)

Place(o) ==
    CASE treasury[o] > 0 -> "treasury"
      [] treasury[o] = 0 /\ returned[o] > 0 -> "payer"
      [] treasury[o] = 0 /\ returned[o] = 0 /\ balance[o] > 0 -> "held"
      [] OTHER -> "none"

Promise == INSTANCE OrderPromise WITH
    funds <- [o \in Orders |-> Place(o)],
    merchantPaid <- [o \in Orders |-> payout[o] = "paid"],
    decision <- financialOutcome

\* Detection, payout, sweep and refund together keep the promise made about an order's
\* money: decided once, after the merchant is paid or never will be, and moved that way only.
KeepsPromise == Promise!Spec

-----------------------------------------------------------------------------
(* Liveness, under FairSpec *)

\* Money that reached an order after it was credited.
ToppedUp(o) == Sent(o) - amountUSDC[o]

\* What top-ups alone can do to an order.  A submission is refused if the balance moved after it was
\* read: a refund that this happens to is dropped at its second try (refund), and a sweep or
\* refund whose every attempt it happens to is flagged (retry).
DroppedOverTopUp(o) == RefundDecided(o) /\ ~Attended(o) /\ ToppedUp(o) > 0
FlaggedOverTopUps(o) == status[o] = "failed" /\ ToppedUp(o) >= maxChainAttempts

\* A credited order comes to its end, USDC in treasury or back with the payer, unless a
\* request was lost on the way or its payer's top-ups came in between: one to drop a refund, as many
\* as there are attempts to fail a sweep (Record, pay, sweep, refund, one after the other).
CreditedSettles ==
    \A o \in Orders : status[o] = "deposit_detected" ~>
        \/ status[o] \in {"settled_in_treasury", "refunded"}
        \/ DroppedOverTopUp(o) \/ FlaggedOverTopUps(o)
        \/ losses > 0

\* No order is watched for ever: a deposit is found or the deadline ends the wait, lost
\* balance reads included (Scanner.check, Deposits.Expire).
WatchEnds == \A o \in Orders : status[o] = "awaiting_deposit" ~> status[o] # "awaiting_deposit"

\* Every deposit account is closed and its reserves come back, except where an expired order holds
\* a late deposit, top-ups stopped its sweep or refund, or a request was lost (reclaim, sweep, refund).
ReservesReturn ==
    \A o \in Orders :
        <>(\/ ~accountOpen[o]
           \/ status[o] = "expired" /\ balance[o] > 0
           \/ DroppedOverTopUp(o) \/ FlaggedOverTopUps(o)
           \/ losses > 0)

\* A sweep is retried or flagged, lost requests included: a queued sweep ends in treasury or
\* failed (ChainWorker.sweep and retry).
SweepEnds ==
    \A o \in Orders : status[o] = "sweep_queued" ~> status[o] \in {"settled_in_treasury", "failed"}

\* A refund is retried or flagged: a claimed refund ends refunded or failed (retry: "backs an
\* order out for another attempt, or gives up and flags it").
RefundEnds ==
    \A o \in Orders : status[o] = "refund_processing" ~> status[o] \in {"refunded", "failed"}

\* A payout in progress is picked up again whatever happens to the worker (cmd/worker/main.go,
\* lines 4 to 7).
PayoutResumes ==
    \A o \in Orders : status[o] = "payout_processing" ~> status[o] # "payout_processing"

=============================================================================
