--------------------------- MODULE DecisionProofs ---------------------------
(***************************************************************************)
(* Money moves as it was decided.  The inductive invariant is TypeOK with  *)
(* Decided and FundsFollowOutcome: the outcome column is written only      *)
(* while it is empty, by a payout worker that knows the merchant paid or   *)
(* by a chain worker about to refund; every transaction under way agrees   *)
(* with it; so whatever lands later agrees with it too.                    *)
(***************************************************************************)
EXTENDS SettlementProofs

\* Every handler of the three loops is in the statement its decision allows, and no
\* transaction that landed went against the decision.
MoneyInv == Decided /\ FundsFollowOutcome

\* Initially nothing is decided and nothing has moved.
LEMMA MoneyInit == Init => MoneyInv
<1> SUFFICES ASSUME Init PROVE MoneyInv
  OBVIOUS
<1> USE DEF Init
<1>1. PaidIfDisbursed /\ DisbursedIfSwept
  BY DEF StoreInit, PaidIfDisbursed, DisbursedIfSwept, SweepLeg
<1>2. SubmissionsDecided
  BY DEF LedgerInit, SubmissionsDecided
<1>3. PayoutsDecided /\ ChainDecided
  BY DEF PayoutsInit, ChainInit, PayoutsDecided, ChainDecided
<1>4. FundsFollowOutcome
  BY DEF LedgerInit, FundsFollowOutcome
<1>5. QED
  BY <1>1, <1>2, <1>3, <1>4 DEF MoneyInv, Decided

-----------------------------------------------------------------------------
(* What stays true because an outcome, once claimed, and a paid payout stay *)

\* No step rewrites a claimed outcome, and a paid payout stays paid.
Lasting ==
    /\ \A o \in Orders : financialOutcome[o] # "" => financialOutcome'[o] = financialOutcome[o]
    /\ \A o \in Orders : payout[o] = "paid" => payout'[o] = "paid"

\* A direction that was decided stays decided.
LEMMA AllowedLasts ==
    ASSUME Lasting, NEW o \in Orders, NEW to, MovesAsDecided(o, to)
    PROVE  MovesAsDecided(o, to)'
  BY DEF Lasting, MovesAsDecided

\* Submissions under way stay as decided when none is added.
LEMMA SubmissionsLast ==
    ASSUME Lasting, SubmissionsDecided, \A o \in Orders : pending'[o] \subseteq pending[o]
    PROVE  SubmissionsDecided'
<1> SUFFICES ASSUME NEW o \in Orders, NEW tx \in pending'[o] PROVE MovesAsDecided(o, tx.to)'
  BY DEF SubmissionsDecided, MovesAsDecided
<1>1. MovesAsDecided(o, tx.to)
  BY DEF SubmissionsDecided
<1>2. QED
  BY <1>1, AllowedLasts DEF MovesAsDecided

\* Payout workers that do not step stay as decided.
LEMMA PayoutsLast ==
    ASSUME Lasting, PayoutsTypeOK, PayoutsDecided, UNCHANGED <<payPc, payRow>>
    PROVE  PayoutsDecided'
  BY DEF Lasting, PayoutsTypeOK, PayoutsDecided, Rows

\* Chain workers that do not step stay as decided.
LEMMA ChainLasts ==
    ASSUME Lasting, ChainTypeOK, ChainDecided, UNCHANGED <<chainPc, chainTask>>
    PROVE  ChainDecided'
<1> SUFFICES ASSUME NEW c \in ChainWorkers,
                    chainPc[c] \in {"read", "send", "record", "retry", "requeue"}
             PROVE  MovesAsDecided(chainTask[c].order, Destination(chainTask[c].job))'
  BY DEF ChainDecided, Destination, MovesAsDecided
<1>1. chainTask[c].order \in Orders
  BY DEF ChainTypeOK, Tasks
<1>2. MovesAsDecided(chainTask[c].order, Destination(chainTask[c].job))
  BY DEF ChainDecided
<1>3. QED
  BY <1>1, <1>2 DEF Lasting, MovesAsDecided, Destination

\* USDC that does not move has moved as decided.
LEMMA FundsLast ==
    ASSUME Lasting, FundsFollowOutcome, UNCHANGED <<treasury, returned>>
    PROVE  FundsFollowOutcome'
  BY DEF Lasting, FundsFollowOutcome

\* A move to a state that no sweep is in.
LEMMA OtherStatesLast ==
    ASSUME Lasting, DisbursedIfSwept,
           \A o \in Orders : \/ status'[o] = status[o]
                             \/ status'[o] \notin {"disbursed"} \union SweepLeg
    PROVE  DisbursedIfSwept'
  BY DEF Lasting, DisbursedIfSwept, SweepLeg

\* What a move statement does to the status column: order o may change, to `to`.
LEMMA MoveEffect ==
    ASSUME StoreTypeOK, NEW o, NEW from, NEW to,
           ClaimStatus(o, from, to) \/ ReleaseStatus(o, from, to) \/ SetStatus(o, to)
                \/ UNCHANGED status
    PROVE  \A q \in Orders : status'[q] = status[q] \/ (q = o /\ status'[q] = to)
  BY DEF StoreTypeOK, ClaimStatus, ReleaseStatus, SetStatus

-----------------------------------------------------------------------------
\* Detection decides nothing and moves no money.
LEMMA MoneyDetection == TypeOK /\ MoneyInv /\ DetectionRuns => MoneyInv'
<1> SUFFICES ASSUME TypeOK, MoneyInv, DetectionRuns PROVE MoneyInv'
  OBVIOUS
<1> DEFINE Moves == \A o \in Orders :
                        \/ status'[o] = status[o]
                        \/ status'[o] \notin {"disbursed"} \union SweepLeg
           Quiet == Moves /\ UNCHANGED <<financialOutcome, ledgerVars>>
<1>t. StoreTypeOK /\ PayoutsTypeOK /\ ChainTypeOK
  BY DEF TypeOK
<1>m. ASSUME NEW o, NEW from, NEW to \in {"deposit_detected", "payout_queued", "awaiting_deposit", "expired"},
             ClaimStatus(o, from, to) \/ ReleaseStatus(o, from, to) \/ SetStatus(o, to)
                \/ UNCHANGED status
      PROVE  Moves
  BY <1>t, <1>m, MoveEffect DEF SweepLeg
<1>1. ASSUME NEW o \in Orders, DeadlinePasses(o) PROVE Quiet
  BY <1>1 DEF DeadlinePasses, orderVars
<1>2. ASSUME NEW d \in Scanners, ScannerQuery(d) \/ ScannerReads(d) \/ ScannerReadFails(d) PROVE Quiet
  BY <1>2 DEF ScannerQuery, ScannerReads, ScannerReadFails, orderVars
<1>3. ASSUME NEW d \in Scanners, Expire(d) PROVE Quiet
  <2>1. Moves
    BY <1>3, <1>m DEF Expire
  <2>2. QED
    BY <1>3, <2>1 DEF Expire, dataColumns
<1>4. ASSUME NEW d \in Streams, StreamReads(d) PROVE Quiet
  BY <1>4 DEF StreamReads, orderVars
<1>5. ASSUME NEW d \in Detectors, Record(d) PROVE Quiet
  <2>1. Moves
    BY <1>5, <1>m DEF Record
  <2>2. QED
    BY <1>5, <2>1 DEF Record
<1>6. ASSUME NEW d \in Detectors, QueuePayout(d) PROVE Quiet
  <2>1. Moves
    BY <1>6, <1>m DEF QueuePayout
  <2>2. QED
    BY <1>6, <2>1 DEF QueuePayout, dataColumns
<1>7. ASSUME NEW d \in Detectors, EnqueueFails(d) PROVE Quiet
  <2>1. Moves
    BY <1>7, <1>m DEF EnqueueFails
  <2>2. QED
    BY <1>7, <2>1 DEF EnqueueFails, dataColumns
<1>8. ASSUME NEW d \in Detectors, DetectorCrash(d) PROVE Quiet
  BY <1>8 DEF DetectorCrash, orderVars
<1>9. Quiet /\ UNCHANGED <<payVars, chainVars>>
  BY <1>1, <1>2, <1>3, <1>4, <1>5, <1>6, <1>7, <1>8 DEF DetectionRuns, OnlyDetection
<1>10. Lasting /\ PaidIfDisbursed'
  BY <1>9 DEF Lasting, payVars, MoneyInv, Decided, PaidIfDisbursed
<1>11. DisbursedIfSwept' /\ SubmissionsDecided' /\ PayoutsDecided' /\ ChainDecided' /\ FundsFollowOutcome'
  BY <1>t, <1>9, <1>10, OtherStatesLast, SubmissionsLast, PayoutsLast, ChainLasts, FundsLast
     DEF MoneyInv, Decided, payVars, chainVars, ledgerVars
<1>12. QED
  BY <1>10, <1>11 DEF MoneyInv, Decided

-----------------------------------------------------------------------------
\* A step that leaves every payout worker, or every one but p, where it was; p's new
\* statement is backed by what its row says.
LEMMA OnePayWorker ==
    ASSUME Lasting, PayoutsTypeOK, PayoutsDecided, NEW p \in PayoutWorkers,
           \A q \in PayoutWorkers : q # p => payPc'[q] = payPc[q] /\ payRow'[q] = payRow[q],
           payPc'[p] = "outcome" => payout'[payRow'[p].order] = "paid",
           payPc'[p] = "disburse" => financialOutcome'[payRow'[p].order] = "disbursed"
    PROVE  PayoutsDecided'
<1> SUFFICES ASSUME NEW q \in PayoutWorkers, q # p
             PROVE  /\ payPc'[q] = "outcome" => payout'[payRow'[q].order] = "paid"
                    /\ payPc'[q] = "disburse" => financialOutcome'[payRow'[q].order] = "disbursed"
  BY DEF PayoutsDecided
<1>1. payPc[q] # "idle" => payRow[q].order \in Orders
  BY DEF PayoutsTypeOK, Rows
<1>2. payPc'[q] = payPc[q] /\ payRow'[q] = payRow[q]
  OBVIOUS
<1>3. ASSUME payPc[q] = "outcome" PROVE payout'[payRow[q].order] = "paid"
  <2>1. payRow[q].order \in Orders /\ payout[payRow[q].order] = "paid"
    BY <1>1, <1>3 DEF PayoutsDecided
  <2>2. QED
    BY <2>1 DEF Lasting
<1>4. ASSUME payPc[q] = "disburse" PROVE financialOutcome'[payRow[q].order] = "disbursed"
  <2>1. payRow[q].order \in Orders /\ financialOutcome[payRow[q].order] = "disbursed"
    BY <1>1, <1>4 DEF PayoutsDecided
  <2>2. QED
    BY <2>1 DEF Lasting
<1>5. QED
  BY <1>2, <1>3, <1>4

\* Only an answer of "paid" leads to the outcome, and none leads further.
LEMMA ResultIsKnown ==
    \A s : /\ AfterResult(s) = "outcome" => s = "paid"
           /\ AfterResult(s) # "disburse"
<1> TAKE s
<1>1. CASE s = "paid"
  BY <1>1, Zenon DEF AfterResult
<1>2. CASE s = "failed"
  <2>1. AfterResult(s) = "retry"
    BY <1>2, Zenon DEF AfterResult
  <2>2. QED
    BY <2>1
<1>3. CASE s # "paid" /\ s # "failed"
  <2>1. AfterResult(s) = "release"
    BY <1>3, Zenon DEF AfterResult
  <2>2. QED
    BY <2>1
<1>4. QED
  BY <1>1, <1>2, <1>3

\* The Linq API never takes back that it paid.
LEMMA PaidStays ==
    ASSUME PayoutsTypeOK, NEW o, NEW s,
           Accepts(o, s) \/ payout[o] = "queued", SetPayout(o, s)
    PROVE  \A q \in Orders : payout[q] = "paid" => payout'[q] = "paid"
<1> SUFFICES ASSUME NEW q \in Orders, payout[q] = "paid" PROVE payout'[q] = "paid"
  OBVIOUS
<1>1. CASE q = o
  <2>1. payout[o] # "queued" /\ ~Starts(o)
    BY <1>1 DEF Starts
  <2>2. s = "paid"
    BY <1>1, <2>1 DEF Accepts
  <2>3. QED
    BY <1>1, <2>2 DEF PayoutsTypeOK, SetPayout
<1>2. CASE q # o
  BY <1>2 DEF PayoutsTypeOK, SetPayout
<1>3. QED
  BY <1>1, <1>2

\* A payout worker decides only on a payout that is paid, and queues a sweep only for it.
LEMMA MoneyPayouts == TypeOK /\ MoneyInv /\ PayoutRuns => MoneyInv'
<1> SUFFICES ASSUME TypeOK, MoneyInv, PayoutRuns PROVE MoneyInv'
  OBVIOUS
<1> DEFINE Good == Lasting /\ PaidIfDisbursed' /\ DisbursedIfSwept' /\ PayoutsDecided'
           Still == financialOutcome' = financialOutcome
           Moves == \A o \in Orders : \/ status'[o] = status[o]
                                      \/ status'[o] \notin {"disbursed"} \union SweepLeg
<1>t. StoreTypeOK /\ PayoutsTypeOK /\ ChainTypeOK
  BY DEF TypeOK
<1>i. PaidIfDisbursed /\ DisbursedIfSwept /\ PayoutsDecided
  BY DEF MoneyInv, Decided
<1>r. \A p \in PayoutWorkers : payPc[p] # "idle" => payRow[p].order \in Orders
  BY <1>t DEF PayoutsTypeOK, Rows
<1>k. ASSUME Still, \A q \in Orders : payout[q] = "paid" => payout'[q] = "paid"
      PROVE  Lasting /\ PaidIfDisbursed'
  BY <1>k, <1>i DEF Lasting, PaidIfDisbursed
<1>m. ASSUME NEW o, NEW from, NEW to \in {"payout_queued", "payout_processing", "refund_queued"},
             ClaimStatus(o, from, to) \/ ReleaseStatus(o, from, to) \/ UNCHANGED status
      PROVE  Moves
  BY <1>t, <1>m, MoveEffect DEF SweepLeg
<1>n. ASSUME NEW p \in PayoutWorkers, PayDone(p) \/ \E pc \in {"ask", "retry", "requeue"} : Goto(p, pc),
             Lasting
      PROVE  PayoutsDecided'
  <2>1. \A q \in PayoutWorkers : q # p => payPc'[q] = payPc[q] /\ payRow'[q] = payRow[q]
    BY <1>n, <1>t DEF PayDone, Goto, PayoutsTypeOK
  <2>2. payPc'[p] # "outcome" /\ payPc'[p] # "disburse"
    BY <1>n, <1>t DEF PayDone, Goto, PayoutsTypeOK
  <2>3. QED
    BY <1>i, <1>t, <1>n, <2>1, <2>2, OnePayWorker
<1>o. ASSUME Still, UNCHANGED payout, Moves PROVE Lasting /\ PaidIfDisbursed' /\ DisbursedIfSwept'
  BY <1>o, <1>k, <1>i, OtherStatesLast
<1>p. ASSUME NEW p \in PayoutWorkers, UNCHANGED status, Lasting,
             NEW s, AfterResult(s) = "outcome" => payout'[payRow[p].order] = "paid",
             Goto(p, AfterResult(s))
      PROVE  PayoutsDecided'
  <2>1. \A q \in PayoutWorkers : q # p => payPc'[q] = payPc[q] /\ payRow'[q] = payRow[q]
    BY <1>p, <1>t DEF Goto, PayoutsTypeOK
  <2>2. payPc'[p] = AfterResult(s) /\ payRow' = payRow
    BY <1>p, <1>t DEF Goto, PayoutsTypeOK
  <2>3. QED
    BY <1>i, <1>t, <1>p, <2>1, <2>2, OnePayWorker, ResultIsKnown
<1>1. ASSUME NEW o \in Orders, BankDecides(o) PROVE Good
  <2>1. Lasting /\ PaidIfDisbursed'
    BY <1>1, <1>t, <1>k, PaidStays DEF BankDecides, orderVars
  <2>2. QED
    BY <1>1, <1>t, <1>i, <2>1, PayoutsLast, OtherStatesLast DEF BankDecides, orderVars
<1>2. ASSUME NEW o \in Orders, DelayedArrives(o) PROVE Good
  <2>1. Lasting /\ PaidIfDisbursed'
    BY <1>2, <1>t, <1>k, PaidStays DEF DelayedArrives, orderVars
  <2>2. QED
    BY <1>2, <1>t, <1>i, <2>1, PayoutsLast, OtherStatesLast DEF DelayedArrives, orderVars
<1>3. ASSUME NEW p \in PayoutWorkers, PayQuery(p) PROVE Good
  BY <1>3, <1>t, <1>i, <1>o, PayoutsLast DEF PayQuery, orderVars, providerVars
<1>4. ASSUME NEW p \in PayoutWorkers, PayClaim(p) PROVE Good
  <2>1. PICK row \in payBatch[p] :
           /\ ClaimStatus(row.order, "payout_queued", "payout_processing")
           /\ \/ /\ payPc' = [payPc EXCEPT ![p] = "submit"]
                 /\ payRow' = [payRow EXCEPT ![p] = row]
              \/ UNCHANGED <<payPc, payRow>>
    BY <1>4 DEF PayClaim
  <2>2. Lasting /\ PaidIfDisbursed' /\ DisbursedIfSwept'
    BY <1>4, <2>1, <1>m, <1>o DEF PayClaim, dataColumns, providerVars
  <2>3. CASE UNCHANGED <<payPc, payRow>>
    BY <1>t, <1>i, <2>2, <2>3, PayoutsLast
  <2>4. CASE /\ payPc' = [payPc EXCEPT ![p] = "submit"]
             /\ payRow' = [payRow EXCEPT ![p] = row]
    <3>1. payPc'[p] = "submit"
      BY <1>t, <2>4 DEF PayoutsTypeOK
    <3>2. \A q \in PayoutWorkers : q # p => payPc'[q] = payPc[q] /\ payRow'[q] = payRow[q]
      BY <1>t, <2>4 DEF PayoutsTypeOK
    <3>3. QED
      BY <1>t, <1>i, <2>2, <3>1, <3>2, OnePayWorker
  <2>5. QED
    BY <2>1, <2>3, <2>4
<1>5. ASSUME NEW p \in PayoutWorkers, PaySubmit(p) PROVE Good
  <2>1. PICK s \in {"queued", "paid", "failed"} :
           Accepts(payRow[p].order, s) /\ SetPayout(payRow[p].order, s) /\ Goto(p, AfterResult(s))
    BY <1>5 DEF PaySubmit
  <2>2. Lasting /\ PaidIfDisbursed'
    BY <1>5, <2>1, <1>t, <1>k, PaidStays DEF PaySubmit, orderVars
  <2>3. payout'[payRow[p].order] = s
    BY <1>5, <1>t, <1>r, <2>1 DEF PaySubmit, SetPayout, PayoutsTypeOK
  <2>4. PayoutsDecided'
    BY <1>5, <1>p, <2>1, <2>2, <2>3, ResultIsKnown DEF PaySubmit, orderVars
  <2>5. QED
    BY <1>5, <1>i, <2>2, <2>4, OtherStatesLast DEF PaySubmit, orderVars
<1>6. ASSUME NEW p \in PayoutWorkers, PayAnswerLost(p) PROVE Good
  <2>1. Lasting /\ PaidIfDisbursed'
    BY <1>6, <1>t, <1>k, PaidStays DEF PayAnswerLost, orderVars
  <2>2. QED
    BY <1>6, <1>i, <1>n, <2>1, OtherStatesLast DEF PayAnswerLost, orderVars
<1>7. ASSUME NEW p \in PayoutWorkers, PayRequestLost(p) PROVE Good
  BY <1>7, <1>n, <1>o DEF PayRequestLost, orderVars
<1>8. ASSUME NEW p \in PayoutWorkers, PayAsk(p) PROVE Good
  <2> DEFINE s == payout[payRow[p].order]
  <2>1. Lasting /\ PaidIfDisbursed' /\ DisbursedIfSwept'
    BY <1>8, <1>o DEF PayAsk, orderVars, providerVars
  <2>2. CASE s \in {"paid", "failed"}
    <3>1. Goto(p, AfterResult(s)) /\ UNCHANGED <<payout, status>>
      BY <1>8, <2>2 DEF PayAsk, orderVars, providerVars
    <3>2. AfterResult(s) = "outcome" => payout'[payRow[p].order] = "paid"
      BY <3>1, ResultIsKnown
    <3>3. QED
      BY <1>p, <2>1, <3>1, <3>2
  <2>3. CASE s \notin {"paid", "failed"}
    BY <1>8, <1>n, <2>1, <2>3 DEF PayAsk
  <2>4. QED
    BY <2>2, <2>3
<1>9. ASSUME NEW p \in PayoutWorkers, PayAskLost(p) PROVE Good
  BY <1>9, <1>n, <1>o DEF PayAskLost, orderVars, providerVars
<1>10. ASSUME NEW p \in PayoutWorkers, PayRelease(p) PROVE Good
  <2>1. Moves
    BY <1>10, <1>m DEF PayRelease
  <2>2. QED
    BY <1>10, <1>n, <1>o, <2>1 DEF PayRelease, dataColumns, providerVars
<1>11. ASSUME NEW p \in PayoutWorkers, PayOutcome(p) PROVE Good
  <2> DEFINE o == payRow[p].order
  <2>1. o \in Orders /\ payout[o] = "paid" /\ UNCHANGED <<status, payout>>
    BY <1>11, <1>i, <1>r DEF PayOutcome, PayoutsDecided, providerVars
  <2>2. CASE OutcomeOpen(o)
    <3>1. financialOutcome' = [financialOutcome EXCEPT ![o] = "disbursed"] /\ Goto(p, "disburse")
      BY <1>11, <2>2 DEF PayOutcome, SetOutcome
    <3>2. Lasting
      BY <1>t, <2>1, <2>2, <3>1 DEF Lasting, OutcomeOpen, StoreTypeOK
    <3>3. PaidIfDisbursed'
      BY <1>t, <1>i, <2>1, <3>1 DEF PaidIfDisbursed, StoreTypeOK
    <3>4. payPc'[p] = "disburse" /\ payRow' = payRow
      BY <1>t, <3>1 DEF Goto, PayoutsTypeOK
    <3>5. \A q \in PayoutWorkers : q # p => payPc'[q] = payPc[q] /\ payRow'[q] = payRow[q]
      BY <1>t, <3>1 DEF Goto, PayoutsTypeOK
    <3>6. financialOutcome'[o] = "disbursed"
      BY <1>t, <2>1, <3>1 DEF StoreTypeOK
    <3>7. PayoutsDecided'
      BY <1>t, <1>i, <3>2, <3>4, <3>5, <3>6, OnePayWorker
    <3>8. QED
      BY <1>i, <2>1, <3>2, <3>3, <3>7, OtherStatesLast
  <2>3. CASE ~OutcomeOpen(o)
    <3>1. PayDone(p) /\ Still
      BY <1>11, <2>3 DEF PayOutcome
    <3>2. QED
      BY <1>n, <1>o, <2>1, <3>1
  <2>4. QED
    BY <2>2, <2>3
<1>12. ASSUME NEW p \in PayoutWorkers, PayDisburse(p) PROVE Good
  <2> DEFINE o == payRow[p].order
  <2>1. financialOutcome[o] = "disbursed" /\ Still /\ UNCHANGED payout
    BY <1>12, <1>i DEF PayDisburse, PayoutsDecided, dataColumns, providerVars
  <2>2. Lasting /\ PaidIfDisbursed'
    BY <1>k, <2>1
  <2>3. \A q \in Orders : status'[q] = status[q] \/ q = o
    BY <1>12, <1>t, MoveEffect DEF PayDisburse
  <2>4. DisbursedIfSwept'
    BY <1>i, <2>1, <2>3 DEF DisbursedIfSwept
  <2>5. PayoutsDecided'
    <3>1. payPc'[p] = "queueSweep" /\ payRow' = payRow
      BY <1>12, <1>t DEF PayDisburse, Goto, PayoutsTypeOK
    <3>2. \A q \in PayoutWorkers : q # p => payPc'[q] = payPc[q] /\ payRow'[q] = payRow[q]
      BY <1>12, <1>t DEF PayDisburse, Goto, PayoutsTypeOK
    <3>3. QED
      BY <1>t, <1>i, <2>2, <3>1, <3>2, OnePayWorker
  <2>6. QED
    BY <2>2, <2>4, <2>5
<1>13. ASSUME NEW p \in PayoutWorkers, PayQueueSweep(p) PROVE Good
  <2> DEFINE o == payRow[p].order
  <2>1. o \in Orders /\ Still /\ UNCHANGED payout /\ PayDone(p)
    BY <1>13, <1>r DEF PayQueueSweep, dataColumns, providerVars
  <2>2. Lasting /\ PaidIfDisbursed' /\ PayoutsDecided'
    BY <1>k, <1>n, <2>1
  <2>3. \A q \in Orders : status'[q] = status[q] \/ (q = o /\ status[o] = "disbursed")
    BY <1>13, <1>t DEF PayQueueSweep, ClaimStatus, Wins, SetStatus, StoreTypeOK
  <2>4. DisbursedIfSwept'
    BY <1>i, <2>1, <2>3 DEF DisbursedIfSwept
  <2>5. QED
    BY <2>2, <2>4
<1>14. ASSUME NEW p \in PayoutWorkers, PayRetry(p) PROVE Good
  BY <1>14, <1>n, <1>o DEF PayRetry, providerVars
<1>15. ASSUME NEW p \in PayoutWorkers, PayRequeue(p) PROVE Good
  <2>1. Moves
    BY <1>15, <1>m DEF PayRequeue
  <2>2. QED
    BY <1>15, <1>n, <1>o, <2>1 DEF PayRequeue, dataColumns, providerVars
<1>16. ASSUME NEW p \in PayoutWorkers, PayCrash(p) PROVE Good
  BY <1>16, <1>n, <1>o DEF PayCrash, orderVars
<1>17. Good /\ OnlyPayouts
  BY <1>1, <1>2, <1>3, <1>4, <1>5, <1>6, <1>7, <1>8, <1>9, <1>10, <1>11, <1>12, <1>13,
     <1>14, <1>15, <1>16 DEF PayoutRuns
<1>18. SubmissionsDecided' /\ ChainDecided' /\ FundsFollowOutcome'
  BY <1>t, <1>17, SubmissionsLast, ChainLasts, FundsLast
     DEF MoneyInv, Decided, OnlyPayouts, ledgerVars, chainVars
<1>19. QED
  BY <1>17, <1>18 DEF MoneyInv, Decided

-----------------------------------------------------------------------------
\* The statements of a chain worker that has its decision, and what the outcomes then say
\* of its task.
Moving == {"read", "send", "record", "retry", "requeue"}
DecidedBy(outcomes, t) ==
    /\ t.job = "sweep" => outcomes[t.order] = "disbursed"
    /\ t.job = "refund" => outcomes[t.order] = "refunded"
    /\ t.job \in {"sweep", "refund"}

\* ChainDecided, task by task.
LEMMA ChainDecidedOf ==
    ChainDecided <=>
        \A c \in ChainWorkers :
            /\ chainPc[c] = "outcome" => chainTask[c].job = "refund"
            /\ chainPc[c] \in Moving => DecidedBy(financialOutcome, chainTask[c])
  BY DEF ChainDecided, Moving, DecidedBy, MovesAsDecided, Destination

\* ... and the same of the next state.
LEMMA ChainDecidedNext ==
    ASSUME \A c \in ChainWorkers :
            /\ chainPc'[c] = "outcome" => chainTask'[c].job = "refund"
            /\ chainPc'[c] \in Moving => DecidedBy(financialOutcome', chainTask'[c])
    PROVE  ChainDecided'
  BY DEF ChainDecided, Moving, DecidedBy, MovesAsDecided, Destination

\* A task that was decided stays decided.
LEMMA TaskLasts ==
    ASSUME Lasting, ChainTypeOK, NEW c \in ChainWorkers, chainPc[c] # "idle",
           DecidedBy(financialOutcome, chainTask[c])
    PROVE  DecidedBy(financialOutcome', chainTask[c])
<1>1. chainTask[c].order \in Orders
  BY DEF ChainTypeOK, Tasks
<1>2. QED
  BY <1>1 DEF Lasting, DecidedBy

\* A step that leaves every chain worker but c where it was.
LEMMA OneChainWorker ==
    ASSUME Lasting, ChainTypeOK, ChainDecided, NEW c \in ChainWorkers,
           \A e \in ChainWorkers : e # c => chainPc'[e] = chainPc[e] /\ chainTask'[e] = chainTask[e],
           chainPc'[c] = "outcome" => chainTask'[c].job = "refund",
           chainPc'[c] \in Moving => DecidedBy(financialOutcome', chainTask'[c])
    PROVE  ChainDecided'
<1> SUFFICES ASSUME NEW e \in ChainWorkers, e # c
             PROVE  /\ chainPc'[e] = "outcome" => chainTask'[e].job = "refund"
                    /\ chainPc'[e] \in Moving => DecidedBy(financialOutcome', chainTask'[e])
  BY ChainDecidedNext
<1>1. chainPc'[e] = chainPc[e] /\ chainTask'[e] = chainTask[e]
  OBVIOUS
<1>2. chainPc[e] = "outcome" => chainTask[e].job = "refund"
  BY ChainDecidedOf
<1>3. ASSUME chainPc[e] \in Moving PROVE DecidedBy(financialOutcome', chainTask[e])
  <2>1. chainPc[e] # "idle"
    BY <1>3 DEF Moving
  <2>2. DecidedBy(financialOutcome, chainTask[e])
    BY <1>3, ChainDecidedOf
  <2>3. QED
    BY <2>1, <2>2, TaskLasts
<1>4. QED
  BY <1>1, <1>2, <1>3

\* A transaction that was decided lands as it was decided.
LEMMA TeardownAsDecided ==
    ASSUME LedgerTypeOK, FundsFollowOutcome, Lasting, NEW o \in Orders, NEW tx,
           MovesAsDecided(o, tx.to), Teardown(o, tx)
    PROVE  FundsFollowOutcome'
<1> SUFFICES ASSUME NEW q \in Orders
             PROVE  /\ treasury'[q] > 0 => financialOutcome'[q] = "disbursed"
                    /\ returned'[q] > 0 => financialOutcome'[q] = "refunded"
  BY DEF FundsFollowOutcome
<1>1. treasury'[q] = treasury[q] \/ (q = o /\ tx.to = "treasury")
  BY DEF Teardown, LedgerTypeOK
<1>2. returned'[q] = returned[q] \/ (q = o /\ tx.to = "payer")
  BY DEF Teardown, LedgerTypeOK
<1>3. QED
  BY <1>1, <1>2 DEF FundsFollowOutcome, MovesAsDecided, Lasting

\* A chain worker sweeps only what was decided "disbursed" and refunds only what it has just
\* decided "refunded"; what lands late was decided when it was sent.
LEMMA MoneyChain == TypeOK /\ MoneyInv /\ ChainRuns => MoneyInv'
<1> SUFFICES ASSUME TypeOK, MoneyInv, ChainRuns PROVE MoneyInv'
  OBVIOUS
<1> DEFINE Good == /\ Lasting /\ PaidIfDisbursed' /\ DisbursedIfSwept' /\ SubmissionsDecided'
                   /\ ChainDecided' /\ FundsFollowOutcome'
           Still == UNCHANGED <<financialOutcome, payout>>
           Moves == \A o \in Orders : \/ status'[o] = status[o]
                                      \/ status'[o] \notin {"disbursed"} \union SweepLeg
<1>t. StoreTypeOK /\ LedgerTypeOK /\ PayoutsTypeOK /\ ChainTypeOK
  BY DEF TypeOK
<1>i. /\ PaidIfDisbursed /\ DisbursedIfSwept /\ SubmissionsDecided /\ PayoutsDecided
      /\ ChainDecided /\ FundsFollowOutcome
  BY DEF MoneyInv, Decided
<1>o. \A c \in ChainWorkers : chainPc[c] # "idle" => chainTask[c].order \in Orders
  BY <1>t DEF ChainTypeOK, Tasks
<1>k. ASSUME Still PROVE Lasting /\ PaidIfDisbursed'
  BY <1>k, <1>i DEF Lasting, PaidIfDisbursed
\* The ledger untouched, and the ledger's part after it.
<1>l. ASSUME Still, UNCHANGED ledgerVars
      PROVE  SubmissionsDecided' /\ FundsFollowOutcome'
  BY <1>l, <1>k, <1>i, SubmissionsLast, FundsLast DEF ledgerVars
\* A worker in a decided task goes on in it, and knows of it what it knew.
<1>x. \A c \in ChainWorkers : chainPc[c] \in Moving => DecidedBy(financialOutcome, chainTask[c])
  BY <1>i, ChainDecidedOf
<1>g. ASSUME NEW c \in ChainWorkers, NEW pc \in {"send", "record", "retry", "requeue"},
             chainPc[c] \in Moving, Lasting, GoOn(c, pc)
      PROVE  ChainDecided'
  <2>1. \A e \in ChainWorkers : e # c => chainPc'[e] = chainPc[e] /\ chainTask'[e] = chainTask[e]
    BY <1>g, <1>t DEF GoOn, ChainTypeOK
  <2>2. chainPc'[c] = pc /\ chainTask'[c] = chainTask[c]
    BY <1>g, <1>t DEF GoOn, ChainTypeOK
  <2>3. chainPc[c] # "idle"
    BY <1>g DEF Moving
  <2>4. DecidedBy(financialOutcome', chainTask'[c])
    BY <1>g, <1>t, <1>x, <2>2, <2>3, TaskLasts
  <2>5. QED
    BY <1>g, <1>t, <1>i, <2>1, <2>2, <2>4, OneChainWorker
\* A worker that is done, or works on an expired order, is bound by no decision.
<1>e. ASSUME NEW c \in ChainWorkers, Lasting,
             \A e \in ChainWorkers : e # c => chainPc'[e] = chainPc[e] /\ chainTask'[e] = chainTask[e],
             chainPc'[c] \in {"idle", "close", "markClosed", "markGone"}
      PROVE  ChainDecided'
  <2>1. chainPc'[c] \notin Moving /\ chainPc'[c] # "outcome"
    BY <1>e DEF Moving
  <2>2. QED
    BY <1>e, <1>t, <1>i, <2>1, OneChainWorker
<1>d. ASSUME NEW c \in ChainWorkers, Lasting, ChainDone(c) PROVE ChainDecided'
  BY <1>d, <1>e, <1>t DEF ChainDone, ChainTypeOK
<1>f. ASSUME NEW c \in ChainWorkers, Lasting, GoOn(c, "markClosed") PROVE ChainDecided'
  BY <1>f, <1>e, <1>t DEF GoOn, ChainTypeOK
<1>w. ASSUME NEW c \in ChainWorkers, Lasting, NEW t, NEW pc \in {"close", "markGone"}, Begin(c, pc, t)
      PROVE  ChainDecided'
  BY <1>w, <1>e, <1>t DEF Begin, ChainTypeOK
\* Moves of a chain worker: a sweep's order stays in the sweep leg, decided before it.
<1>m. ASSUME NEW o \in Orders, NEW from, NEW to, Still,
             ClaimStatus(o, from, to) \/ ReleaseStatus(o, from, to) \/ SetStatus(o, to)
                \/ UNCHANGED status,
             to \in {"disbursed"} \union SweepLeg => financialOutcome[o] = "disbursed"
      PROVE  DisbursedIfSwept'
  <2>1. \A q \in Orders : status'[q] = status[q] \/ (q = o /\ status'[q] = to)
    BY <1>m, <1>t, MoveEffect
  <2>2. QED
    BY <1>m, <1>i, <2>1 DEF DisbursedIfSwept
<1>s. ASSUME Still, UNCHANGED status PROVE DisbursedIfSwept'
  BY <1>s, <1>i DEF DisbursedIfSwept
<1>a. ASSUME NEW o \in Orders, NEW tx, Teardown(o, tx), MovesAsDecided(o, tx.to), Still,
             \A q \in Orders : pending'[q] \subseteq pending[q]
      PROVE  SubmissionsDecided' /\ FundsFollowOutcome'
  BY <1>a, <1>k, <1>t, <1>i, TeardownAsDecided, SubmissionsLast
<1>c. \A c \in ChainWorkers : chainPc[c] = "send" =>
        MovesAsDecided(chainTask[c].order, SweepTx(c).to)
  BY <1>x DEF Moving, DecidedBy, MovesAsDecided, SweepTx, Destination
<1>z. \A o \in Orders : MovesAsDecided(o, ReclaimTx.to)
  BY DEF ReclaimTx, MovesAsDecided
<1>p. ASSUME NEW o \in Orders, NEW tx, MovesAsDecided(o, tx.to), Still,
             pending' = [pending EXCEPT ![o] = @ \union {tx}], UNCHANGED <<treasury, returned>>
      PROVE  SubmissionsDecided' /\ FundsFollowOutcome'
  <2>1. \A q \in Orders : pending'[q] = pending[q] \/ (q = o /\ pending'[q] = pending[q] \union {tx})
    BY <1>p, <1>t DEF LedgerTypeOK
  <2>2. SubmissionsDecided'
    BY <1>p, <1>i, <2>1 DEF SubmissionsDecided, MovesAsDecided
  <2>3. QED
    BY <1>p, <1>k, <1>i, <2>2, FundsLast
<1>q. ASSUME Still, UNCHANGED <<chainPc, chainTask>> PROVE ChainDecided'
  BY <1>q, <1>k, <1>t, <1>i, ChainLasts
<1>1. ASSUME NEW o \in Orders, PayerSends(o), OnlyLedger PROVE Good
  BY <1>1, <1>k, <1>i, <1>s, <1>q, SubmissionsLast, FundsLast
     DEF PayerSends, OnlyLedger, orderVars, payVars, chainVars
<1>2. ASSUME NEW o \in Orders, PendingLands(o), OnlyLedger PROVE Good
  <2>1. PICK tx \in pending[o] : Teardown(o, tx) /\ pending' = [pending EXCEPT ![o] = @ \ {tx}]
    BY <1>2 DEF PendingLands
  <2>2. MovesAsDecided(o, tx.to) /\ \A q \in Orders : pending'[q] \subseteq pending[q]
    BY <1>i, <1>t, <2>1 DEF SubmissionsDecided, LedgerTypeOK
  <2>3. Still /\ UNCHANGED <<status, chainPc, chainTask>>
    BY <1>2 DEF OnlyLedger, orderVars, payVars, chainVars
  <2>4. QED
    BY <1>a, <1>k, <1>s, <1>q, <2>1, <2>2, <2>3
<1>3. ASSUME NEW o \in Orders, PendingExpires(o), OnlyLedger PROVE Good
  <2>1. \A q \in Orders : pending'[q] \subseteq pending[q]
    BY <1>3, <1>t DEF PendingExpires, LedgerTypeOK
  <2>2. Still /\ UNCHANGED <<status, chainPc, chainTask, treasury, returned>>
    BY <1>3 DEF OnlyLedger, orderVars, payVars, chainVars, PendingExpires
  <2>3. QED
    BY <1>k, <1>i, <1>s, <1>q, <2>1, <2>2, SubmissionsLast, FundsLast
<1>4. ASSUME NEW c \in ChainWorkers, NEW job \in Jobs, ChainQuery(c, job), UNCHANGED payout PROVE Good
  BY <1>4, <1>k, <1>l, <1>s, <1>q DEF ChainQuery, orderVars
<1>5. ASSUME NEW c \in ChainWorkers, SweepClaim(c), UNCHANGED payout PROVE Good
  <2>1. PICK t \in chainBatch[c] :
           /\ t.job = "sweep" /\ Takes(c, t)
           /\ ClaimStatus(t.order, "sweep_queued", "sweep_processing")
           /\ IF Wins(t.order, "sweep_queued", "sweep_processing")
              THEN Begin(c, "read", t)
              ELSE UNCHANGED <<chainPc, chainTask, chainAmount>>
    BY <1>5 DEF SweepClaim
  <2>2. t.order \in Orders /\ Still /\ UNCHANGED ledgerVars
    BY <1>5, <1>t DEF SweepClaim, ChainTypeOK, Tasks, dataColumns
  <2>3. Lasting /\ PaidIfDisbursed' /\ SubmissionsDecided' /\ FundsFollowOutcome'
    BY <1>k, <1>l, <2>2
  <2>4. CASE Wins(t.order, "sweep_queued", "sweep_processing")
    <3>1. financialOutcome[t.order] = "disbursed" /\ Begin(c, "read", t)
      BY <1>i, <2>1, <2>2, <2>4 DEF Wins, DisbursedIfSwept, SweepLeg
    <3>2. DisbursedIfSwept'
      BY <1>m, <2>1, <2>2, <3>1
    <3>3. \A e \in ChainWorkers : e # c => chainPc'[e] = chainPc[e] /\ chainTask'[e] = chainTask[e]
      BY <1>t, <3>1 DEF Begin, ChainTypeOK
    <3>4. chainPc'[c] = "read" /\ chainTask'[c] = t
      BY <1>t, <3>1 DEF Begin, ChainTypeOK
    <3>5. DecidedBy(financialOutcome', t)
      BY <2>1, <2>2, <3>1 DEF DecidedBy
    <3>6. ChainDecided'
      BY <1>t, <1>i, <2>3, <3>3, <3>4, <3>5, OneChainWorker
    <3>7. QED
      BY <2>3, <3>2, <3>6
  <2>5. CASE ~Wins(t.order, "sweep_queued", "sweep_processing")
    BY <1>s, <1>q, <2>1, <2>2, <2>3, <2>5 DEF ClaimStatus
  <2>6. QED
    BY <2>4, <2>5
<1>6. ASSUME NEW c \in ChainWorkers, RefundClaim(c), UNCHANGED payout PROVE Good
  <2>1. PICK t \in chainBatch[c] :
           /\ t.job = "refund" /\ Takes(c, t)
           /\ \/ SetStatus(t.order, "refund_processing") /\ Begin(c, "outcome", t)
              \/ UNCHANGED <<status, chainPc, chainTask, chainAmount>>
    BY <1>6 DEF RefundClaim
  <2>2. t.order \in Orders /\ Still /\ UNCHANGED ledgerVars
    BY <1>6, <1>t DEF RefundClaim, ChainTypeOK, Tasks, dataColumns
  <2>3. Lasting /\ PaidIfDisbursed' /\ SubmissionsDecided' /\ FundsFollowOutcome'
    BY <1>k, <1>l, <2>2
  <2>4. CASE SetStatus(t.order, "refund_processing") /\ Begin(c, "outcome", t)
    <3>1. DisbursedIfSwept'
      BY <1>m, <2>2, <2>4 DEF SweepLeg
    <3>2. \A e \in ChainWorkers : e # c => chainPc'[e] = chainPc[e] /\ chainTask'[e] = chainTask[e]
      BY <1>t, <2>4 DEF Begin, ChainTypeOK
    <3>3. chainPc'[c] = "outcome" /\ chainTask'[c] = t
      BY <1>t, <2>4 DEF Begin, ChainTypeOK
    <3>4. ChainDecided'
      BY <1>t, <1>i, <2>1, <2>3, <3>2, <3>3, OneChainWorker DEF Moving
    <3>5. QED
      BY <2>3, <3>1, <3>4
  <2>5. CASE UNCHANGED <<status, chainPc, chainTask, chainAmount>>
    BY <1>s, <1>q, <2>2, <2>3, <2>5
  <2>6. QED
    BY <2>1, <2>4, <2>5
<1>7. ASSUME NEW c \in ChainWorkers, RefundOutcome(c), UNCHANGED payout PROVE Good
  <2> DEFINE o == chainTask[c].order
  <2>1. o \in Orders /\ chainTask[c].job = "refund" /\ UNCHANGED <<status, ledgerVars>>
    BY <1>7, <1>i, <1>o, ChainDecidedOf DEF RefundOutcome
  <2>2. CASE OutcomeOpen(o)
    <3>1. financialOutcome' = [financialOutcome EXCEPT ![o] = "refunded"] /\ GoOn(c, "read")
      BY <1>7, <2>2 DEF RefundOutcome, SetOutcome
    <3>2. Lasting
      BY <1>7, <1>t, <2>1, <2>2, <3>1 DEF Lasting, OutcomeOpen, StoreTypeOK
    <3>3. PaidIfDisbursed'
      BY <1>7, <1>t, <1>i, <3>1 DEF PaidIfDisbursed, StoreTypeOK
    <3>4. DisbursedIfSwept' /\ SubmissionsDecided' /\ FundsFollowOutcome'
      BY <1>i, <2>1, <3>2, OtherStatesLast, SubmissionsLast, FundsLast DEF ledgerVars
    <3>5. \A e \in ChainWorkers : e # c => chainPc'[e] = chainPc[e] /\ chainTask'[e] = chainTask[e]
      BY <1>t, <3>1 DEF GoOn, ChainTypeOK
    <3>6. chainPc'[c] = "read" /\ chainTask'[c] = chainTask[c]
      BY <1>t, <3>1 DEF GoOn, ChainTypeOK
    <3>7. DecidedBy(financialOutcome', chainTask[c])
      BY <1>t, <2>1, <3>1 DEF DecidedBy, StoreTypeOK
    <3>8. ChainDecided'
      BY <1>t, <1>i, <3>2, <3>5, <3>6, <3>7, OneChainWorker
    <3>9. QED
      BY <3>2, <3>3, <3>4, <3>8
  <2>3. CASE ~OutcomeOpen(o)
    <3>1. ChainDone(c) /\ Still
      BY <1>7, <2>3 DEF RefundOutcome
    <3>2. QED
      BY <1>k, <1>l, <1>s, <1>d, <2>1, <3>1
  <2>4. QED
    BY <2>2, <2>3
<1>8. ASSUME NEW c \in ChainWorkers, SweepReads(c), UNCHANGED payout PROVE Good
  <2>1. Lasting /\ PaidIfDisbursed' /\ DisbursedIfSwept' /\ SubmissionsDecided' /\ FundsFollowOutcome'
    BY <1>8, <1>k, <1>l, <1>s DEF SweepReads, orderVars
  <2>2. \A e \in ChainWorkers : e # c => chainPc'[e] = chainPc[e] /\ chainTask'[e] = chainTask[e]
    BY <1>8, <1>t DEF SweepReads, ChainTypeOK
  <2>3. chainPc'[c] = "send" /\ chainTask'[c] = chainTask[c]
    BY <1>8, <1>t DEF SweepReads, ChainTypeOK
  <2>4. DecidedBy(financialOutcome', chainTask[c])
    BY <1>8, <1>x DEF SweepReads, orderVars, Moving
  <2>5. ChainDecided'
    BY <1>t, <1>i, <2>1, <2>2, <2>3, <2>4, OneChainWorker
  <2>6. QED
    BY <2>1, <2>5
<1>9. ASSUME NEW c \in ChainWorkers, SweepReadFails(c), UNCHANGED payout PROVE Good
  <2>1. chainPc[c] \in Moving /\ Still /\ UNCHANGED <<status, ledgerVars>>
    BY <1>9 DEF SweepReadFails, Moving, orderVars
  <2>2. QED
    BY <1>9, <1>k, <1>l, <1>s, <1>g, <2>1 DEF SweepReadFails
<1>10. ASSUME NEW c \in ChainWorkers, SweepLands(c), UNCHANGED payout PROVE Good
  <2>1. /\ chainPc[c] \in Moving /\ Still /\ UNCHANGED <<status, pending>>
        /\ Teardown(chainTask[c].order, SweepTx(c))
    BY <1>10 DEF SweepLands, Moving, orderVars
  <2>2. chainTask[c].order \in Orders /\ MovesAsDecided(chainTask[c].order, SweepTx(c).to)
    BY <1>10, <1>o, <1>c DEF SweepLands
  <2>3. SubmissionsDecided' /\ FundsFollowOutcome'
    BY <1>a, <2>1, <2>2
  <2>4. QED
    BY <1>10, <1>k, <1>s, <1>g, <2>1, <2>3 DEF SweepLands
<1>11. ASSUME NEW c \in ChainWorkers, SweepRejected(c), UNCHANGED payout PROVE Good
  <2>1. chainPc[c] \in Moving /\ Still /\ UNCHANGED <<status, ledgerVars>>
    BY <1>11 DEF SweepRejected, Moving, orderVars
  <2>2. QED
    BY <1>11, <1>k, <1>l, <1>s, <1>g, <2>1 DEF SweepRejected
<1>12. ASSUME NEW c \in ChainWorkers, SweepAnswerLost(c), UNCHANGED payout PROVE Good
  <2>1. /\ chainPc[c] \in Moving /\ Still /\ UNCHANGED <<status, pending>>
        /\ Teardown(chainTask[c].order, SweepTx(c))
    BY <1>12 DEF SweepAnswerLost, Moving, orderVars
  <2>2. chainTask[c].order \in Orders /\ MovesAsDecided(chainTask[c].order, SweepTx(c).to)
    BY <1>12, <1>o, <1>c DEF SweepAnswerLost
  <2>3. SubmissionsDecided' /\ FundsFollowOutcome'
    BY <1>a, <2>1, <2>2
  <2>4. QED
    BY <1>12, <1>k, <1>s, <1>g, <2>1, <2>3 DEF SweepAnswerLost
<1>13. ASSUME NEW c \in ChainWorkers, SweepTimesOut(c), UNCHANGED payout PROVE Good
  <2>1. chainPc[c] \in Moving /\ Still /\ UNCHANGED <<status, treasury, returned>>
    BY <1>13 DEF SweepTimesOut, Moving, orderVars
  <2>2. chainTask[c].order \in Orders /\ MovesAsDecided(chainTask[c].order, SweepTx(c).to)
    BY <1>13, <1>o, <1>c DEF SweepTimesOut
  <2>3. SubmissionsDecided' /\ FundsFollowOutcome'
    BY <1>13, <1>p, <2>1, <2>2 DEF SweepTimesOut
  <2>4. QED
    BY <1>13, <1>k, <1>s, <1>g, <2>1, <2>3 DEF SweepTimesOut
<1>14. ASSUME NEW c \in ChainWorkers, SweepRecord(c), UNCHANGED payout PROVE Good
  <2> DEFINE o == chainTask[c].order
             job == chainTask[c].job
  <2>1. o \in Orders /\ Still /\ UNCHANGED ledgerVars /\ ChainDone(c)
    BY <1>14, <1>o DEF SweepRecord, dataColumns
  <2>2. \/ job = "sweep" /\ financialOutcome[o] = "disbursed"
        \/ job = "refund"
    BY <1>14, <1>x DEF SweepRecord, Moving, DecidedBy
  <2>3. DisbursedIfSwept'
    <3>1. Finished(job) \in {"disbursed"} \union SweepLeg => financialOutcome[o] = "disbursed"
      BY <2>2 DEF Finished, SweepLeg
    <3>2. ClaimStatus(o, Processing(job), Finished(job))
      BY <1>14 DEF SweepRecord
    <3>3. QED
      BY <1>m, <2>1, <3>1, <3>2
  <2>4. QED
    BY <1>k, <1>l, <1>d, <2>1, <2>3
<1>15. ASSUME NEW c \in ChainWorkers, SweepRetry(c), UNCHANGED payout PROVE Good
  <2>1. chainPc[c] \in Moving /\ Still /\ UNCHANGED <<status, ledgerVars>>
    BY <1>15 DEF SweepRetry, Moving, orderVars
  <2>2. QED
    BY <1>15, <1>k, <1>l, <1>s, <1>g, <2>1 DEF SweepRetry
<1>16. ASSUME NEW c \in ChainWorkers, SweepRequeue(c), UNCHANGED payout PROVE Good
  <2> DEFINE o == chainTask[c].order
             job == chainTask[c].job
  <2>1. o \in Orders /\ Still /\ UNCHANGED ledgerVars /\ ChainDone(c)
    BY <1>16, <1>o DEF SweepRequeue, dataColumns
  <2>2. \/ job = "sweep" /\ financialOutcome[o] = "disbursed"
        \/ job = "refund"
    BY <1>16, <1>x DEF SweepRequeue, Moving, DecidedBy
  <2>3. DisbursedIfSwept'
    <3>1. Queued(job) \in {"disbursed"} \union SweepLeg => financialOutcome[o] = "disbursed"
      BY <2>2 DEF Queued, SweepLeg
    <3>2. \/ ReleaseStatus(o, Processing(job), Queued(job))
          \/ ClaimStatus(o, Processing(job), "failed")
      BY <1>16 DEF SweepRequeue
    <3>3. "failed" \notin {"disbursed"} \union SweepLeg
      BY DEF SweepLeg
    <3>4. QED
      BY <1>m, <2>1, <3>1, <3>2, <3>3
  <2>4. QED
    BY <1>k, <1>l, <1>d, <2>1, <2>3
<1>17. ASSUME NEW c \in ChainWorkers, ReclaimProbe(c), UNCHANGED payout PROVE Good
  <2>1. PICK t \in chainBatch[c] : Begin(c, "markGone", t) \/ Begin(c, "close", t)
    BY <1>17 DEF ReclaimProbe
  <2>2. Still /\ UNCHANGED <<status, ledgerVars>>
    BY <1>17 DEF ReclaimProbe, orderVars
  <2>3. QED
    BY <1>k, <1>l, <1>s, <1>w, <2>1, <2>2
<1>18. ASSUME NEW c \in ChainWorkers, ReclaimProbeFails(c), UNCHANGED payout PROVE Good
  BY <1>18, <1>k, <1>l, <1>s, <1>q DEF ReclaimProbeFails, orderVars
<1>19. ASSUME NEW c \in ChainWorkers, ReclaimLands(c), UNCHANGED payout PROVE Good
  <2>1. /\ Still /\ UNCHANGED <<status, pending>> /\ chainTask[c].order \in Orders
        /\ Teardown(chainTask[c].order, ReclaimTx)
    BY <1>19, <1>o DEF ReclaimLands, orderVars
  <2>2. SubmissionsDecided' /\ FundsFollowOutcome'
    BY <1>a, <1>z, <2>1
  <2>3. QED
    BY <1>19, <1>k, <1>s, <1>f, <2>1, <2>2 DEF ReclaimLands
<1>20. ASSUME NEW c \in ChainWorkers, ReclaimRejected(c), UNCHANGED payout PROVE Good
  BY <1>20, <1>k, <1>l, <1>s, <1>d DEF ReclaimRejected, orderVars
<1>21. ASSUME NEW c \in ChainWorkers, ReclaimLost(c), UNCHANGED payout PROVE Good
  <2> DEFINE o == chainTask[c].order
  <2>1. Still /\ UNCHANGED status /\ o \in Orders
    BY <1>21, <1>o DEF ReclaimLost, orderVars
  <2>2. ASSUME Teardown(o, ReclaimTx), UNCHANGED pending
        PROVE  SubmissionsDecided' /\ FundsFollowOutcome'
    BY <1>a, <1>z, <2>1, <2>2
  <2>3. ASSUME pending' = [pending EXCEPT ![o] = @ \union {ReclaimTx}],
               UNCHANGED <<treasury, returned>>
        PROVE  SubmissionsDecided' /\ FundsFollowOutcome'
    BY <1>p, <1>z, <2>1, <2>3
  <2>4. SubmissionsDecided' /\ FundsFollowOutcome'
    BY <1>21, <2>2, <2>3 DEF ReclaimLost
  <2>5. QED
    BY <1>21, <1>k, <1>s, <1>d, <2>1, <2>4 DEF ReclaimLost
<1>22. ASSUME NEW c \in ChainWorkers, MarkReclaimed(c), UNCHANGED payout PROVE Good
  BY <1>22, <1>k, <1>l, <1>s, <1>d DEF MarkReclaimed
<1>23. ASSUME NEW c \in ChainWorkers, ChainCrash(c), UNCHANGED payout PROVE Good
  BY <1>23, <1>k, <1>l, <1>s, <1>d DEF ChainCrash, orderVars
<1>24. Good /\ UNCHANGED payVars
  BY <1>1, <1>2, <1>3, <1>4, <1>5, <1>6, <1>7, <1>8, <1>9, <1>10, <1>11, <1>12, <1>13,
     <1>14, <1>15, <1>16, <1>17, <1>18, <1>19, <1>20, <1>21, <1>22, <1>23 DEF ChainRuns, OnlyChain, OnlyLedger, payVars
<1>25. PayoutsDecided'
  BY <1>t, <1>i, <1>24, PayoutsLast DEF payVars
<1>26. QED
  BY <1>24, <1>25 DEF MoneyInv, Decided

-----------------------------------------------------------------------------
\* A step that changes nothing.
LEMMA MoneyStutter == TypeOK /\ MoneyInv /\ UNCHANGED vars => MoneyInv'
<1> SUFFICES ASSUME TypeOK, MoneyInv, UNCHANGED vars PROVE MoneyInv'
  OBVIOUS
<1>1. UNCHANGED <<orderVars, ledgerVars, payVars, chainVars>>
  BY DEF vars
<1>2. Lasting /\ PaidIfDisbursed'
  BY <1>1 DEF Lasting, orderVars, payVars, MoneyInv, Decided, PaidIfDisbursed
<1>3. DisbursedIfSwept' /\ SubmissionsDecided' /\ PayoutsDecided' /\ ChainDecided' /\ FundsFollowOutcome'
  BY <1>1, <1>2, OtherStatesLast, SubmissionsLast, PayoutsLast, ChainLasts, FundsLast
     DEF TypeOK, MoneyInv, Decided, orderVars, ledgerVars, payVars, chainVars
<1>4. QED
  BY <1>2, <1>3 DEF MoneyInv, Decided

\* Every reachable state is well typed and agrees with what was decided.
LEMMA MoneyCorrect == Spec => [](TypeOK /\ MoneyInv)
<1>1. TypeOK /\ MoneyInv /\ [Next]_vars => MoneyInv'
  BY MoneyDetection, MoneyPayouts, MoneyChain, MoneyStutter DEF Next
<1>2. QED
  BY <1>1, MoneyInit, TypeCorrect, PTL DEF Spec

\* For any number of orders, workers, lost requests, late submissions and crashes: USDC
\* reaches treasury only if the order's outcome was claimed "disbursed", and the payer only
\* if it was claimed "refunded" (claim.go, ClaimFinancialOutcome).
THEOREM FundsAlwaysFollowOutcome == Spec => []FundsFollowOutcome
<1>1. MoneyInv => FundsFollowOutcome
  BY DEF MoneyInv
<1>2. QED
  BY <1>1, MoneyCorrect, PTL

\* ... and therefore only one of the two, whatever is retried or lands late.
THEOREM OneDirection ==
    Spec => [](\A o \in Orders : ~(treasury[o] > 0 /\ returned[o] > 0))
<1>1. MoneyInv => \A o \in Orders : ~(treasury[o] > 0 /\ returned[o] > 0)
  BY DEF MoneyInv, FundsFollowOutcome
<1>2. QED
  BY <1>1, MoneyCorrect, PTL

\* Linq takes the USDC of an order only once the merchant has the NGN: "the merchant is paid
\* before Linq moves its own funds" (payout/worker.go, markDisbursed).
THEOREM AlwaysSweptAfterPaid == Spec => []SweptOnlyAfterPaid
<1>1. MoneyInv => SweptOnlyAfterPaid
  BY DEF MoneyInv, Decided, FundsFollowOutcome, PaidIfDisbursed, SweptOnlyAfterPaid
<1>2. QED
  BY <1>1, MoneyCorrect, PTL

=============================================================================
