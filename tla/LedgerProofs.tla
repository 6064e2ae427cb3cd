---------------------------- MODULE LedgerProofs ----------------------------
(***************************************************************************)
(* What an order's state says of its money and of its account.  First the  *)
(* moves each loop makes (OnlyLegalMoves, CreditedOnce); then what happens *)
(* on the ledger, which is that an open account receives, or is emptied    *)
(* and closed by one transaction, and is never opened again; then, without *)
(* losses, what stays in the accounts of failed orders, and that the whole *)
(* settlement implements OrderPromise; last, with losses again, when an    *)
(* outcome is open, and what a crash leaves behind.                        *)
(***************************************************************************)
EXTENDS ClaimProofs, FiniteSetTheorems

-----------------------------------------------------------------------------
(* The moves of each loop *)

Moves(o, from, to) == status[o] = from /\ status'[o] = to

DetectorMoves(o) ==
    \/ Moves(o, "awaiting_deposit", "deposit_detected")
    \/ Moves(o, "awaiting_deposit", "expired")
    \/ Moves(o, "deposit_detected", "payout_queued")
    \/ Moves(o, "deposit_detected", "awaiting_deposit") /\ EnqueueMayFail

PayoutMoves(o) ==
    \/ Moves(o, "payout_queued", "payout_processing")
    \/ Moves(o, "payout_processing", "payout_queued")
    \/ Moves(o, "payout_processing", "disbursed")
    \/ Moves(o, "payout_processing", "refund_queued")
    \/ Moves(o, "disbursed", "sweep_queued")

ChainMoves(o) ==
    \E job \in {"sweep", "refund"} :
        \/ Moves(o, Queued(job), Processing(job))
        \/ Moves(o, Processing(job), Queued(job))
        \/ Moves(o, Processing(job), Finished(job))
        \/ Moves(o, Processing(job), "failed")

\* The scanner and the streams credit an order, hand it on or back, or give it up.
LEMMA MovesOfDetection ==
    ASSUME TypeOK, DetectionRuns, NEW q \in Orders, status'[q] # status[q]
    PROVE  DetectorMoves(q)
  <1>t. StoreTypeOK
    BY DEF TypeOK
  <1>1. ASSUME NEW o \in Orders, DeadlinePasses(o) PROVE FALSE
    BY <1>1 DEF DeadlinePasses, orderVars
  <1>2. ASSUME NEW d, ScannerQuery(d) \/ ScannerReads(d) \/ ScannerReadFails(d) \/ StreamReads(d) PROVE FALSE
    BY <1>2 DEF ScannerQuery, ScannerReads, ScannerReadFails, StreamReads, orderVars
  <1>3. ASSUME NEW d, Expire(d) PROVE DetectorMoves(q)
    BY <1>3, <1>t, MoveIsFrom DEF Expire, DetectorMoves, Moves
  <1>4. ASSUME NEW d, Record(d) PROVE DetectorMoves(q)
    <2>1. ClaimStatus(detOrder[d], "awaiting_deposit", "deposit_detected")
      BY <1>4 DEF Record, ClaimStatus
    <2>2. QED
      BY <1>t, <2>1, MoveIsFrom DEF DetectorMoves, Moves
  <1>5. ASSUME NEW d, QueuePayout(d) PROVE DetectorMoves(q)
    BY <1>5, <1>t, MoveIsFrom DEF QueuePayout, DetectorMoves, Moves
  <1>6. ASSUME NEW d, EnqueueFails(d) PROVE DetectorMoves(q)
    BY <1>6, <1>t, MoveIsFrom DEF EnqueueFails, DetectorMoves, Moves
  <1>7. ASSUME NEW d, DetectorCrash(d) PROVE FALSE
    BY <1>7 DEF DetectorCrash, orderVars
  <1>8. QED
    BY <1>1, <1>2, <1>3, <1>4, <1>5, <1>6, <1>7 DEF DetectionRuns

\* A payout worker claims, hands back, disburses and queues the sweep, or queues the refund.
LEMMA MovesOfPayouts ==
    ASSUME TypeOK, PayoutRuns, NEW q \in Orders, status'[q] # status[q]
    PROVE  PayoutMoves(q)
  <1>t. StoreTypeOK
    BY DEF TypeOK
  <1>1. ASSUME NEW o \in Orders, BankDecides(o) \/ DelayedArrives(o) PROVE FALSE
    BY <1>1 DEF BankDecides, DelayedArrives, orderVars
  <1>2. ASSUME NEW p, \/ PayQuery(p) \/ PaySubmit(p) \/ PayAnswerLost(p) \/ PayRequestLost(p)
                      \/ PayAsk(p) \/ PayAskLost(p) \/ PayOutcome(p) \/ PayRetry(p) \/ PayCrash(p)
        PROVE  FALSE
    BY <1>2 DEF PayQuery, PaySubmit, PayAnswerLost, PayRequestLost, PayAsk, PayAskLost, PayOutcome,
                PayRetry, PayCrash, orderVars
  <1>3. ASSUME NEW p, PayClaim(p) PROVE PayoutMoves(q)
    BY <1>3, <1>t, MoveIsFrom DEF PayClaim, PayoutMoves, Moves
  <1>4. ASSUME NEW p, PayRelease(p) PROVE PayoutMoves(q)
    BY <1>4, <1>t, MoveIsFrom DEF PayRelease, PayoutMoves, Moves
  <1>5. ASSUME NEW p, PayDisburse(p) PROVE PayoutMoves(q)
    BY <1>5, <1>t, MoveIsFrom DEF PayDisburse, PayoutMoves, Moves
  <1>6. ASSUME NEW p, PayQueueSweep(p) PROVE PayoutMoves(q)
    BY <1>6, <1>t, MoveIsFrom DEF PayQueueSweep, PayoutMoves, Moves
  <1>7. ASSUME NEW p, PayRequeue(p) PROVE PayoutMoves(q)
    BY <1>7, <1>t, MoveIsFrom DEF PayRequeue, PayoutMoves, Moves
  <1>8. QED
    BY <1>1, <1>2, <1>3, <1>4, <1>5, <1>6, <1>7 DEF PayoutRuns

\* The states a chain worker moves an order between are those of one of its two kinds of work.
LEMMA WorkOf ==
    ASSUME NEW job
    PROVE  \E kind \in {"sweep", "refund"} :
              /\ Queued(job) = Queued(kind) /\ Processing(job) = Processing(kind)
              /\ Finished(job) = Finished(kind)
  <1>1. CASE job = "sweep"
    BY <1>1
  <1>2. CASE job # "sweep"
    BY <1>2 DEF Queued, Processing, Finished
  <1>3. QED
    BY <1>1, <1>2

\* A chain worker claims, finishes, hands back or flags an order.
LEMMA MovesOfChain ==
    ASSUME TypeOK, ChainRuns, NEW q \in Orders, status'[q] # status[q]
    PROVE  ChainMoves(q)
  <1>t. StoreTypeOK
    BY DEF TypeOK
  <1>1. ASSUME OnlyLedger PROVE FALSE
    BY <1>1 DEF OnlyLedger, orderVars
  <1>2. ASSUME NEW c, \/ \E job \in Jobs : ChainQuery(c, job)
                      \/ RefundOutcome(c) \/ SweepReads(c) \/ SweepReadFails(c) \/ SweepLands(c)
                      \/ SweepRejected(c) \/ SweepAnswerLost(c) \/ SweepTimesOut(c) \/ SweepRetry(c)
                      \/ ReclaimProbe(c) \/ ReclaimProbeFails(c) \/ ReclaimLands(c)
                      \/ ReclaimRejected(c) \/ ReclaimLost(c) \/ MarkReclaimed(c) \/ ChainCrash(c)
        PROVE  FALSE
    BY <1>2 DEF ChainQuery, RefundOutcome, SweepReads, SweepReadFails, SweepLands, SweepRejected,
                SweepAnswerLost, SweepTimesOut, SweepRetry, ReclaimProbe, ReclaimProbeFails,
                ReclaimLands, ReclaimRejected, ReclaimLost, MarkReclaimed, ChainCrash, orderVars
  <1>3. ASSUME NEW c, SweepClaim(c) PROVE ChainMoves(q)
    BY <1>3, <1>t, MoveIsFrom DEF SweepClaim, ChainMoves, Moves, Queued, Processing
  <1>4. ASSUME NEW c, RefundClaim(c) PROVE ChainMoves(q)
    <2>1. PICK t \in chainBatch[c] :
              \/ Wins(t.order, "refund_queued", "refund_processing") /\ SetStatus(t.order, "refund_processing")
              \/ UNCHANGED status
      BY <1>4 DEF RefundClaim
    <2>2. ClaimStatus(t.order, "refund_queued", "refund_processing") \/ UNCHANGED status
      BY <2>1 DEF ClaimStatus
    <2>3. QED
      BY <1>t, <2>2, MoveIsFrom DEF ChainMoves, Moves, Queued, Processing
  <1>m. ASSUME NEW job, NEW o, NEW from, NEW to,
               from = Processing(job), to \in {Queued(job), Finished(job), "failed"},
               ClaimStatus(o, from, to) \/ ReleaseStatus(o, from, to)
        PROVE  ChainMoves(q)
    <2>1. status[q] = from /\ status'[q] = to
      BY <1>m, <1>t, MoveIsFrom
    <2>2. QED
      BY <1>m, <2>1, WorkOf DEF ChainMoves, Moves
  <1>5. ASSUME NEW c, SweepRecord(c) PROVE ChainMoves(q)
    BY <1>5, <1>m DEF SweepRecord
  <1>6. ASSUME NEW c, SweepRequeue(c) PROVE ChainMoves(q)
    BY <1>6, <1>m DEF SweepRequeue
  <1>7. QED
    BY <1>1, <1>2, <1>3, <1>4, <1>5, <1>6 DEF ChainRuns

\* Whatever moves, it moves as one of the loops moves it.
LEMMA MovesOfNext ==
    ASSUME TypeOK, Next, NEW q \in Orders, status'[q] # status[q]
    PROVE  DetectorMoves(q) \/ PayoutMoves(q) \/ ChainMoves(q)
  BY MovesOfDetection, MovesOfPayouts, MovesOfChain DEF Next

\* The moves of the loops are in the table, except the hand-back of a credited order.
LEMMA MovesAreLegal ==
    ASSUME NEW q \in Orders, DetectorMoves(q) \/ PayoutMoves(q) \/ ChainMoves(q)
    PROVE  CanTransition(status[q], status'[q]) \/ HandedBack(q)
  <1>1. CASE DetectorMoves(q)
    BY <1>1 DEF DetectorMoves, Moves, CanTransition, transitions, HandedBack
  <1>2. CASE PayoutMoves(q)
    BY <1>2 DEF PayoutMoves, Moves, CanTransition, transitions
  <1>3. CASE ChainMoves(q)
    BY <1>3 DEF ChainMoves, Moves, Queued, Processing, Finished, CanTransition, transitions
  <1>4. QED
    BY <1>1, <1>2, <1>3

\* Whatever any number of processes do, an order only moves along the table of legal moves, or
\* is handed back after a refused payout (state.go, transitions: "enforced rather than
\* documented").
THEOREM OnlyLegalMovesEver == Spec => OnlyLegalMoves
  <1>1. TypeOK /\ [Next]_vars =>
            [\A o \in Orders : status'[o] # status[o] =>
                CanTransition(status[o], status'[o]) \/ HandedBack(o)]_vars
    BY MovesOfNext, MovesAreLegal
  <1>2. QED
    BY <1>1, TypeCorrect, PTL DEF Spec, OnlyLegalMoves

\* Only Record writes what an order was credited with, and only if its claim is won.
LEMMA CreditedOnceStep ==
    ASSUME TypeOK, Next, NEW o \in Orders, status[o] # "awaiting_deposit"
    PROVE  amountUSDC'[o] = amountUSDC[o] /\ depositFrom'[o] = depositFrom[o]
  <1>t. StoreTypeOK
    BY DEF TypeOK
  <1>1. ASSUME NEW d, Record(d) PROVE amountUSDC'[o] = amountUSDC[o] /\ depositFrom'[o] = depositFrom[o]
    BY <1>1, <1>t DEF Record, Wins, StoreTypeOK
  <1>2. ASSUME DetectionRuns, \A d : ~Record(d) PROVE UNCHANGED <<amountUSDC, depositFrom>>
    BY <1>2 DEF DetectionRuns, DeadlinePasses, ScannerQuery, ScannerReads, ScannerReadFails, StreamReads,
                QueuePayout, EnqueueFails, Expire, DetectorCrash, orderVars, dataColumns
  <1>3. ASSUME PayoutRuns PROVE UNCHANGED <<amountUSDC, depositFrom>>
    BY <1>3 DEF PayoutRuns, BankDecides, DelayedArrives, PayQuery, PayClaim, PaySubmit, PayAnswerLost,
                PayRequestLost, PayAsk, PayAskLost, PayRelease, PayOutcome, PayDisburse, PayQueueSweep,
                PayRetry, PayRequeue, PayCrash, orderVars, dataColumns
  <1>4. ASSUME ChainRuns PROVE UNCHANGED <<amountUSDC, depositFrom>>
    BY <1>4 DEF ChainRuns, OnlyLedger, ChainQuery, SweepClaim, RefundClaim, RefundOutcome, SweepReads,
                SweepReadFails, SweepLands, SweepRejected, SweepAnswerLost, SweepTimesOut, SweepRecord,
                SweepRetry, SweepRequeue, ReclaimProbe, ReclaimProbeFails, ReclaimLands, ReclaimRejected,
                ReclaimLost, MarkReclaimed, ChainCrash, orderVars, dataColumns
  <1>5. QED
    BY <1>1, <1>2, <1>3, <1>4 DEF Next

\* However many scanners, streams and processes see one deposit, what it was
\* credited with stays until the order is handed back (Deposits.Record: "one door to the money").
THEOREM AlwaysCreditedOnce == Spec => CreditedOnce
  <1>1. TypeOK /\ [Next]_vars =>
            [\A o \in Orders : status[o] # "awaiting_deposit" =>
                amountUSDC'[o] = amountUSDC[o] /\ depositFrom'[o] = depositFrom[o]]_vars
    BY CreditedOnceStep
  <1>2. QED
    BY <1>1, TypeCorrect, PTL DEF Spec, CreditedOnce

-----------------------------------------------------------------------------
(* What happens on the ledger *)

Rests(o) ==
    /\ accountOpen'[o] = accountOpen[o] /\ balance'[o] = balance[o]
    /\ treasury'[o] = treasury[o] /\ returned'[o] = returned[o]

Receives(o) ==
    /\ accountOpen[o] /\ accountOpen'[o] /\ balance'[o] = balance[o] + 1
    /\ treasury'[o] = treasury[o] /\ returned'[o] = returned[o]

Closes(o, to) ==
    /\ accountOpen[o] /\ ~accountOpen'[o] /\ balance'[o] = 0
    /\ treasury'[o] = IF to = "treasury" THEN treasury[o] + balance[o] ELSE treasury[o]
    /\ returned'[o] = IF to = "payer" THEN returned[o] + balance[o] ELSE returned[o]

\* The transactions there are about order o: submitted before, or by a worker now.
Submits(c, o, tx) ==
    /\ chainTask[c].order = o
    /\ \/ chainPc[c] = "send" /\ tx = SweepTx(c)
       \/ chainPc[c] = "close" /\ tx = ReclaimTx

Known(o, tx) == tx \in pending[o] \/ \E c \in ChainWorkers : Submits(c, o, tx)

LedgerStep(o) ==
    \/ Rests(o)
    \/ Receives(o)
    \/ \E tx : Known(o, tx) /\ tx.amount = balance[o] /\ Closes(o, tx.to)

\* A transaction that was accepted closes its order's account and leaves the others alone.
LEMMA TeardownCloses ==
    ASSUME LedgerTypeOK, NEW o \in Orders, NEW tx, Known(o, tx), LedgerAccepts(o, tx), Teardown(o, tx)
    PROVE  \A q \in Orders : LedgerStep(q)
  <1>1. \A q \in Orders : q # o => Rests(q)
    BY DEF Teardown, LedgerTypeOK, Rests
  <1>2. Closes(o, tx.to)
    BY DEF Teardown, LedgerTypeOK, LedgerAccepts, Closes
  <1>3. QED
    BY <1>1, <1>2 DEF LedgerStep, LedgerAccepts

\* Every step leaves an account alone, or pays into it while it is open, or closes it with a
\* transaction that was made for what it held.
LEMMA LedgerSteps ==
    ASSUME TypeOK, Next PROVE \A q \in Orders : LedgerStep(q)
  <1>t. LedgerTypeOK /\ ChainTypeOK
    BY DEF TypeOK
  <1>u. ASSUME UNCHANGED <<accountOpen, balance, treasury, returned>> PROVE \A q \in Orders : LedgerStep(q)
    BY <1>u DEF LedgerStep, Rests
  <1>1. CASE DetectionRuns
    BY <1>1, <1>u DEF DetectionRuns, DeadlinePasses, ScannerQuery, ScannerReads, ScannerReadFails,
            StreamReads, Record, QueuePayout, EnqueueFails, Expire, DetectorCrash, ledgerVars
  <1>2. CASE PayoutRuns
    BY <1>2, <1>u DEF PayoutRuns, OnlyPayouts, ledgerVars
  <1>3. ASSUME NEW o \in Orders, PayerSends(o) PROVE \A q \in Orders : LedgerStep(q)
    <2>1. Receives(o) /\ \A q \in Orders : q # o => Rests(q)
      BY <1>3, <1>t DEF PayerSends, LedgerTypeOK, Receives, Rests
    <2>2. QED
      BY <2>1 DEF LedgerStep
  <1>4. ASSUME NEW o \in Orders, PendingLands(o) PROVE \A q \in Orders : LedgerStep(q)
    BY <1>4, <1>t, TeardownCloses DEF PendingLands, Known
  <1>5. ASSUME NEW o \in Orders, PendingExpires(o) PROVE \A q \in Orders : LedgerStep(q)
    BY <1>5, <1>u DEF PendingExpires
  <1>6. ASSUME NEW c \in ChainWorkers, SweepLands(c) \/ SweepAnswerLost(c)
        PROVE  \A q \in Orders : LedgerStep(q)
    <2>1. /\ chainTask[c].order \in Orders /\ chainPc[c] = "send"
          /\ LedgerAccepts(chainTask[c].order, SweepTx(c)) /\ Teardown(chainTask[c].order, SweepTx(c))
      BY <1>6, <1>t DEF SweepLands, SweepAnswerLost, ChainTypeOK, Tasks
    <2>2. Known(chainTask[c].order, SweepTx(c))
      BY <2>1 DEF Known, Submits
    <2>3. QED
      BY <1>t, <2>1, <2>2, TeardownCloses
  <1>7. ASSUME NEW c \in ChainWorkers, ReclaimLands(c) \/ ReclaimLost(c)
        PROVE  \A q \in Orders : LedgerStep(q)
    <2>1. /\ chainTask[c].order \in Orders /\ chainPc[c] = "close"
          /\ \/ /\ LedgerAccepts(chainTask[c].order, ReclaimTx)
                /\ Teardown(chainTask[c].order, ReclaimTx)
             \/ UNCHANGED <<accountOpen, balance, treasury, returned>>
      BY <1>7, <1>t DEF ReclaimLands, ReclaimLost, ChainTypeOK, Tasks
    <2>2. Known(chainTask[c].order, ReclaimTx)
      BY <2>1 DEF Known, Submits
    <2>3. QED
      BY <1>t, <1>u, <2>1, <2>2, TeardownCloses
  <1>8. ASSUME NEW c, \/ \E job \in Jobs : ChainQuery(c, job)
                      \/ SweepClaim(c) \/ RefundClaim(c) \/ RefundOutcome(c) \/ SweepReads(c)
                      \/ SweepReadFails(c) \/ SweepRejected(c) \/ SweepTimesOut(c) \/ SweepRecord(c)
                      \/ SweepRetry(c) \/ SweepRequeue(c) \/ ReclaimProbe(c) \/ ReclaimProbeFails(c)
                      \/ ReclaimRejected(c) \/ MarkReclaimed(c) \/ ChainCrash(c)
        PROVE  \A q \in Orders : LedgerStep(q)
    BY <1>8, <1>u DEF ChainQuery, SweepClaim, RefundClaim, RefundOutcome, SweepReads, SweepReadFails,
            SweepRejected, SweepTimesOut, SweepRecord, SweepRetry, SweepRequeue, ReclaimProbe,
            ReclaimProbeFails, ReclaimRejected, MarkReclaimed, ChainCrash, ledgerVars
  <1>9. CASE ChainRuns
    BY <1>9, <1>3, <1>4, <1>5, <1>6, <1>7, <1>8 DEF ChainRuns
  <1>10. QED
    BY <1>1, <1>2, <1>9 DEF Next

\* A transaction is only under way if it was, or if a worker's submission has just timed out,
\* which is a loss.
LEMMA PendingSteps ==
    ASSUME TypeOK, Next, NEW q \in Orders, NEW tx \in pending'[q]
    PROVE  tx \in pending[q] \/ ((\E c \in ChainWorkers : Submits(c, q, tx)) /\ Lose)
  <1>t. LedgerTypeOK /\ ChainTypeOK
    BY DEF TypeOK
  <1>1. CASE DetectionRuns
    BY <1>1 DEF DetectionRuns, DeadlinePasses, ScannerQuery, ScannerReads, ScannerReadFails,
            StreamReads, Record, QueuePayout, EnqueueFails, Expire, DetectorCrash, ledgerVars
  <1>2. CASE PayoutRuns
    BY <1>2 DEF PayoutRuns, OnlyPayouts, ledgerVars
  <1>3. ASSUME NEW o \in Orders, PayerSends(o) \/ PendingLands(o) \/ PendingExpires(o)
        PROVE  tx \in pending[q]
    BY <1>3, <1>t DEF PayerSends, PendingLands, PendingExpires, LedgerTypeOK
  <1>4. ASSUME NEW c \in ChainWorkers, SweepTimesOut(c)
        PROVE  tx \in pending[q] \/ (Submits(c, q, tx) /\ Lose)
    BY <1>4, <1>t DEF SweepTimesOut, Submits, LedgerTypeOK
  <1>5. ASSUME NEW c \in ChainWorkers, ReclaimLost(c)
        PROVE  tx \in pending[q] \/ (Submits(c, q, tx) /\ Lose)
    BY <1>5, <1>t DEF ReclaimLost, Submits, LedgerTypeOK
  <1>6. ASSUME NEW c, \/ \E job \in Jobs : ChainQuery(c, job)
                      \/ SweepClaim(c) \/ RefundClaim(c) \/ RefundOutcome(c) \/ SweepReads(c)
                      \/ SweepReadFails(c) \/ SweepRejected(c) \/ SweepRecord(c)
                      \/ SweepRetry(c) \/ SweepRequeue(c) \/ ReclaimProbe(c) \/ ReclaimProbeFails(c)
                      \/ ReclaimRejected(c) \/ MarkReclaimed(c) \/ ChainCrash(c)
                      \/ SweepLands(c) \/ SweepAnswerLost(c) \/ ReclaimLands(c)
        PROVE  tx \in pending[q]
    BY <1>6 DEF ChainQuery, SweepClaim, RefundClaim, RefundOutcome, SweepReads, SweepReadFails,
            SweepRejected, SweepRecord, SweepRetry, SweepRequeue, ReclaimProbe, ReclaimProbeFails,
            ReclaimRejected, MarkReclaimed, ChainCrash, SweepLands, SweepAnswerLost, ReclaimLands,
            ledgerVars
  <1>7. CASE ChainRuns
    BY <1>7, <1>3, <1>4, <1>5, <1>6 DEF ChainRuns
  <1>8. QED
    BY <1>1, <1>2, <1>7 DEF Next

-----------------------------------------------------------------------------
(* The inductive invariant *)

\* Nothing has left an open account, nothing is left in a closed one, and the transaction that
\* pays the sponsor alone finds nothing to pay.
Accounts ==
    \A o \in Orders :
        /\ accountOpen[o] => treasury[o] = 0 /\ returned[o] = 0
        /\ ~accountOpen[o] => balance[o] = 0
        /\ \A tx \in pending[o] : tx.to = "sponsor" => tx.amount = 0

\* What was credited, or is about to be, was sent.
Credits ==
    /\ \A o \in Orders : amountUSDC[o] <= Sent(o)
    /\ \A d \in Detectors, o \in Orders :
            detPc[d] = "record" /\ detOrder[d] = o => detBalance[d] <= Sent(o)

\* All that was sent to o went to this place.
WentTo(o, place) ==
    /\ ~accountOpen[o]
    /\ place = "treasury" => treasury[o] = Sent(o)
    /\ place = "payer" => returned[o] = Sent(o)

Finishes ==
    /\ \A o \in Orders : /\ status[o] = "settled_in_treasury" => WentTo(o, "treasury")
                         /\ status[o] = "refunded" => WentTo(o, "payer")
    /\ \A c \in ChainWorkers, o \in Orders :
            chainPc[c] = "record" /\ chainTask[c].order = o => WentTo(o, Destination(chainTask[c].job))

\* Until its payout is queued nobody touches an order's account.
Untouched(o) == accountOpen[o] /\ pending[o] = {} /\ ~closedTxHash[o] /\ ~reservesReclaimed[o]

\* The account of an order that was given up is closed when it holds nothing, or not at all.
GivenUp(o) ==
    /\ \A tx \in pending[o] : tx.amount = 0
    /\ ~accountOpen[o] => Sent(o) = 0
    /\ closedTxHash[o] => ~accountOpen[o]

Closings ==
    \A o \in Orders :
        /\ status[o] \in {"awaiting_deposit", "deposit_detected"} => Untouched(o)
        /\ status[o] = "expired" => GivenUp(o)
        /\ reservesReclaimed[o] => status[o] = "expired" /\ ~accountOpen[o]

\* A worker that reclaims works on orders that were given up, and marks closed accounts.
Reclaims ==
    \A c \in ChainWorkers :
        /\ \A t \in chainBatch[c] : t.job = "reclaim" => status[t.order] = "expired"
        /\ chainPc[c] \in {"close", "markClosed", "markGone"} => status[chainTask[c].order] = "expired"
        /\ chainPc[c] \in {"markClosed", "markGone"} => ~accountOpen[chainTask[c].order]

LedgerInv == Accounts /\ Credits /\ Finishes /\ Closings /\ Reclaims

\* Without losses USDC has only left an account whose order is finished, or is held by the
\* worker that is about to record that it is.
Moved(o) == treasury[o] > 0 \/ returned[o] > 0
MovedIsRecorded ==
    \A o \in Orders :
        /\ pending[o] = {}
        /\ Moved(o) =>
            /\ status[o] \in {"sweep_processing", "settled_in_treasury", "refund_processing", "refunded"}
            /\ \A c \in ChainWorkers : ChainHolds(c, o) => chainPc[c] = "record"

-----------------------------------------------------------------------------
(* Accounts and credits *)

\* A closed account stays as it is, and no USDC is ever lost on the way.
LEMMA ClosedStays ==
    ASSUME TypeOK, Accounts, Next, NEW o \in Orders
    PROVE  (~accountOpen[o] => Rests(o)) /\ Sent(o) <= Sent(o)'
  <1>t. /\ balance[o] \in Nat /\ treasury[o] \in Nat /\ returned[o] \in Nat
        /\ \A tx \in pending[o] : tx.to \in {"treasury", "payer", "sponsor"}
    BY OrderAssumptions DEF TypeOK, LedgerTypeOK, Units, Teardowns
  <1>1. LedgerStep(o)
    BY LedgerSteps
  <1>2. CASE Rests(o) \/ Receives(o)
    BY <1>t, <1>2 DEF Rests, Receives, Sent
  <1>3. ASSUME NEW tx, Known(o, tx), tx.amount = balance[o], Closes(o, tx.to)
        PROVE  (~accountOpen[o] => Rests(o)) /\ Sent(o) <= Sent(o)'
    <2>1. tx.to \in {"treasury", "payer"} \/ tx.amount = 0
      BY <1>3, <1>t DEF Known, Submits, SweepTx, ReclaimTx, Destination, Accounts
    <2>2. QED
      BY <1>3, <1>t, <2>1 DEF Closes, Sent
  <1>4. QED
    BY <1>1, <1>2, <1>3 DEF LedgerStep

\* Accounts are emptied and closed as a whole.
LEMMA AccountsStep == TypeOK /\ Accounts /\ Next => Accounts'
  <1> SUFFICES ASSUME TypeOK, Accounts, Next, NEW o \in Orders
               PROVE  /\ accountOpen'[o] => treasury'[o] = 0 /\ returned'[o] = 0
                      /\ ~accountOpen'[o] => balance'[o] = 0
                      /\ \A tx \in pending'[o] : tx.to = "sponsor" => tx.amount = 0
    BY DEF Accounts
  <1>1. /\ accountOpen'[o] => treasury'[o] = 0 /\ returned'[o] = 0
        /\ ~accountOpen'[o] => balance'[o] = 0
    BY LedgerSteps DEF LedgerStep, Rests, Receives, Closes, Accounts
  <1>2. ASSUME NEW tx \in pending'[o], tx.to = "sponsor" PROVE tx.amount = 0
    <2>1. \A c : SweepTx(c).to # "sponsor"
      BY DEF SweepTx, Destination
    <2>2. tx \in pending[o] \/ \E c \in ChainWorkers : Submits(c, o, tx)
      BY PendingSteps
    <2>3. QED
      BY <1>2, <2>1, <2>2 DEF Submits, ReclaimTx, Accounts
  <1>3. QED
    BY <1>1, <1>2

\* An order is credited with what its detector read, and a detector reads what is there.
LEMMA DetectorSteps ==
    ASSUME TypeOK, Next
    PROVE  /\ \A o \in Orders :
                \/ amountUSDC'[o] = amountUSDC[o]
                \/ \E d \in Detectors : detPc[d] = "record" /\ detOrder[d] = o /\ amountUSDC'[o] = detBalance[d]
           /\ \A d \in Detectors : detPc'[d] = "record" =>
                \/ detPc[d] = "record" /\ detOrder'[d] = detOrder[d] /\ detBalance'[d] = detBalance[d]
                \/ detBalance'[d] = balance[detOrder'[d]]
  <1> DEFINE Credit == \A o \in Orders :
                \/ amountUSDC'[o] = amountUSDC[o]
                \/ \E d \in Detectors : detPc[d] = "record" /\ detOrder[d] = o /\ amountUSDC'[o] = detBalance[d]
             Read == \A d \in Detectors : detPc'[d] = "record" =>
                \/ detPc[d] = "record" /\ detOrder'[d] = detOrder[d] /\ detBalance'[d] = detBalance[d]
                \/ detBalance'[d] = balance[detOrder'[d]]
  <1>t. StoreTypeOK /\ DepositsTypeOK
    BY DEF TypeOK
  <1>u. ASSUME UNCHANGED <<detPc, detOrder, detBalance>> PROVE Read
    BY <1>u
  <1>h. ASSUME NEW d \in Detectors, NEW pc \in {"idle", "expire"}, NEW o, NEW units, NEW from,
               Handle(d, pc, o, units, from)
        PROVE  Read
    BY <1>h, <1>t DEF Handle, DepositsTypeOK
  <1>r. ASSUME NEW d \in Detectors, NEW o \in Orders, NEW from, Handle(d, "record", o, balance[o], from)
        PROVE  Read
    BY <1>r, <1>t DEF Handle, DepositsTypeOK
  <1>1. ASSUME NEW o \in Orders, DeadlinePasses(o) PROVE Credit /\ Read
    BY <1>1, <1>u DEF DeadlinePasses, orderVars
  <1>2. ASSUME NEW d, ScannerQuery(d) \/ ScannerReadFails(d) PROVE Credit /\ Read
    BY <1>2, <1>u DEF ScannerQuery, ScannerReadFails, orderVars
  <1>3. ASSUME NEW d \in Scanners, ScannerReads(d) PROVE Credit /\ Read
    <2>1. PICK o \in detBatch[d] : \/ \E from \in BOOLEAN : Handle(d, "record", o, balance[o], from)
                                   \/ Handle(d, "expire", o, 0, FALSE)
      BY <1>3 DEF ScannerReads
    <2>2. d \in Detectors /\ o \in Orders
      BY <1>t DEF Detectors, DepositsTypeOK
    <2>3. Read
      BY <1>h, <1>r, <2>1, <2>2
    <2>4. QED
      BY <1>3, <2>3 DEF ScannerReads, orderVars
  <1>4. ASSUME NEW d \in Streams, StreamReads(d) PROVE Credit /\ Read
    <2>1. PICK o \in Orders : Handle(d, "record", o, balance[o], TRUE)
      BY <1>4 DEF StreamReads
    <2>2. d \in Detectors
      BY DEF Detectors
    <2>3. QED
      BY <1>4, <1>r, <2>1, <2>2 DEF StreamReads, orderVars
  <1>5. ASSUME NEW d \in Detectors, Record(d) PROVE Credit /\ Read
    <2>1. CASE Wins(detOrder[d], "awaiting_deposit", "deposit_detected")
      <3>1. Read
        BY <1>5, <1>t, <2>1 DEF Record, DepositsTypeOK
      <3>2. Credit
        BY <1>5, <1>t, <2>1 DEF Record, StoreTypeOK
      <3>3. QED
        BY <3>1, <3>2
    <2>2. CASE ~Wins(detOrder[d], "awaiting_deposit", "deposit_detected")
      BY <1>5, <1>h, <2>2 DEF Record, HandlerDone
    <2>3. QED
      BY <2>1, <2>2
  <1>6. ASSUME NEW d \in Detectors, \/ QueuePayout(d) \/ EnqueueFails(d) \/ DetectorCrash(d)
        PROVE  Credit /\ Read
    BY <1>6, <1>h DEF QueuePayout, EnqueueFails, DetectorCrash, HandlerDone, dataColumns, orderVars
  <1>7. ASSUME NEW d \in Scanners, Expire(d) PROVE Credit /\ Read
    BY <1>7, <1>h DEF Expire, HandlerDone, dataColumns, Detectors
  <1>8. CASE DetectionRuns
    BY <1>8, <1>1, <1>2, <1>3, <1>4, <1>5, <1>6, <1>7 DEF DetectionRuns
  <1>9. CASE PayoutRuns
    BY <1>9, <1>u DEF PayoutRuns, BankDecides, DelayedArrives, PayQuery, PayClaim, PaySubmit, PayAnswerLost,
                PayRequestLost, PayAsk, PayAskLost, PayRelease, PayOutcome, PayDisburse, PayQueueSweep,
                PayRetry, PayRequeue, PayCrash, orderVars, dataColumns, OnlyPayouts, detVars
  <1>10. CASE ChainRuns
    <2>1. UNCHANGED amountUSDC
      BY <1>10 DEF ChainRuns, OnlyLedger, ChainQuery, SweepClaim, RefundClaim, RefundOutcome, SweepReads,
                SweepReadFails, SweepLands, SweepRejected, SweepAnswerLost, SweepTimesOut, SweepRecord,
                SweepRetry, SweepRequeue, ReclaimProbe, ReclaimProbeFails, ReclaimLands, ReclaimRejected,
                ReclaimLost, MarkReclaimed, ChainCrash, orderVars, dataColumns
    <2>2. UNCHANGED detVars
      BY <1>10 DEF ChainRuns, OnlyLedger, OnlyChain
    <2>3. QED
      BY <1>u, <2>1, <2>2 DEF detVars
  <1>11. QED
    BY <1>8, <1>9, <1>10 DEF Next

\* What is credited was sent: what arrived before stays in the sum.
LEMMA CreditsStep == TypeOK /\ TypeOK' /\ Accounts /\ Credits /\ Next => Credits'
  <1> SUFFICES ASSUME TypeOK, TypeOK', Accounts, Credits, Next PROVE Credits'
    OBVIOUS
  <1>t. /\ \A o \in Orders : /\ amountUSDC[o] \in Nat /\ amountUSDC'[o] \in Nat
                             /\ balance[o] \in Nat /\ treasury[o] \in Nat /\ returned[o] \in Nat
                             /\ Sent(o) \in Nat /\ Sent(o)' \in Nat
        /\ \A d \in Detectors : detBalance[d] \in Nat
    BY OrderAssumptions DEF TypeOK, StoreTypeOK, LedgerTypeOK, DepositsTypeOK, Units, Sent
  <1>1. \A o \in Orders : Sent(o) <= Sent(o)'
    BY ClosedStays
  <1>2. ASSUME NEW o \in Orders PROVE amountUSDC'[o] <= Sent(o)'
    <2>1. amountUSDC'[o] <= Sent(o)
      BY DetectorSteps, <1>t DEF Credits
    <2>2. QED
      BY <1>1, <1>t, <2>1
  <1>3. ASSUME NEW d \in Detectors, NEW o \in Orders, detPc'[d] = "record", detOrder'[d] = o
        PROVE  detBalance'[d] <= Sent(o)'
    <2>1. detBalance'[d] <= Sent(o) /\ detBalance'[d] \in Nat
      <3>1. CASE detPc[d] = "record" /\ detOrder'[d] = detOrder[d] /\ detBalance'[d] = detBalance[d]
        BY <1>3, <1>t, <3>1 DEF Credits
      <3>2. CASE detBalance'[d] = balance[detOrder'[d]]
        BY <1>3, <1>t, <3>2 DEF Sent
      <3>3. QED
        BY <1>3, <3>1, <3>2, DetectorSteps
    <2>2. QED
      BY <1>1, <1>t, <2>1
  <1>4. QED
    BY <1>2, <1>3 DEF Credits

-----------------------------------------------------------------------------
(* What chain workers go through *)

\* The loops that move NGN leave the chain workers and their columns alone.
LEMMA OthersLeaveChain ==
    ASSUME DetectionRuns \/ PayoutRuns
    PROVE  UNCHANGED <<chainVars, closedTxHash, reservesReclaimed>>
  <1>1. CASE DetectionRuns
    BY <1>1 DEF DetectionRuns, DeadlinePasses, ScannerQuery, ScannerReads, ScannerReadFails,
            StreamReads, Record, QueuePayout, EnqueueFails, Expire, DetectorCrash, OnlyDetection,
            orderVars, dataColumns
  <1>2. CASE PayoutRuns
    BY <1>2 DEF PayoutRuns, BankDecides, DelayedArrives, PayQuery, PayClaim, PaySubmit, PayAnswerLost,
            PayRequestLost, PayAsk, PayAskLost, PayRelease, PayOutcome, PayDisburse, PayQueueSweep,
            PayRetry, PayRequeue, PayCrash, orderVars, dataColumns, OnlyPayouts
  <1>3. QED
    BY <1>1, <1>2

\* A worker is about to record only after its own transaction landed.
LEMMA RecordSteps ==
    ASSUME TypeOK, Next, NEW c \in ChainWorkers, chainPc'[c] = "record"
    PROVE  /\ chainTask'[c] = chainTask[c]
           /\ \/ chainPc[c] = "record"
              \/ /\ chainPc[c] = "send"
                 /\ LedgerAccepts(chainTask[c].order, SweepTx(c))
                 /\ Teardown(chainTask[c].order, SweepTx(c))
  <1> DEFINE Goal == /\ chainTask'[c] = chainTask[c]
                     /\ \/ chainPc[c] = "record"
                        \/ /\ chainPc[c] = "send"
                           /\ LedgerAccepts(chainTask[c].order, SweepTx(c))
                           /\ Teardown(chainTask[c].order, SweepTx(c))
  <1>t. ChainTypeOK
    BY DEF TypeOK
  <1>u. ASSUME UNCHANGED <<chainPc, chainTask>> PROVE Goal
    BY <1>u
  <1>1. CASE DetectionRuns \/ PayoutRuns
    BY <1>1, <1>u, OthersLeaveChain DEF chainVars
  <1>2. CASE OnlyLedger
    BY <1>2, <1>u DEF OnlyLedger, chainVars
  <1>3. ASSUME NEW e \in ChainWorkers, SweepLands(e) PROVE Goal
    BY <1>3, <1>t DEF SweepLands, GoOn, ChainTypeOK
  <1>p. ASSUME NEW e \in ChainWorkers, NEW pc \in ChainPcs \ {"record"}, chainPc' = [chainPc EXCEPT ![e] = pc],
               \A w \in ChainWorkers : w # e => chainTask'[w] = chainTask[w]
        PROVE  Goal
    BY <1>p, <1>t DEF ChainTypeOK
  <1>4. ASSUME NEW e \in ChainWorkers,
               \/ SweepReadFails(e) \/ SweepRejected(e) \/ SweepAnswerLost(e) \/ SweepTimesOut(e)
               \/ SweepRetry(e) \/ ReclaimLands(e)
        PROVE  Goal
    <2>1. PICK pc \in {"retry", "requeue", "markClosed"} : GoOn(e, pc)
      BY <1>4 DEF SweepReadFails, SweepRejected, SweepAnswerLost, SweepTimesOut, SweepRetry, ReclaimLands
    <2>2. QED
      BY <1>p, <2>1 DEF GoOn, ChainPcs
  <1>5. ASSUME NEW e \in ChainWorkers,
               \/ SweepRecord(e) \/ SweepRequeue(e) \/ ReclaimRejected(e) \/ ReclaimLost(e)
               \/ MarkReclaimed(e) \/ ChainCrash(e)
        PROVE  Goal
    <2>1. ChainDone(e)
      BY <1>5 DEF SweepRecord, SweepRequeue, ReclaimRejected, ReclaimLost, MarkReclaimed, ChainCrash
    <2>2. QED
      BY <1>p, <1>t, <2>1 DEF ChainDone, ChainPcs, ChainTypeOK
  <1>6. ASSUME NEW e \in ChainWorkers,
               SweepClaim(e) \/ RefundClaim(e) \/ ReclaimProbe(e)
        PROVE  Goal
    <2>1. \/ UNCHANGED <<chainPc, chainTask>>
          \/ \E t, pc : pc \in {"read", "outcome", "markGone", "close"} /\ Begin(e, pc, t)
      BY <1>6 DEF SweepClaim, RefundClaim, ReclaimProbe
    <2>2. QED
      BY <1>p, <1>t, <1>u, <2>1 DEF Begin, ChainPcs, ChainTypeOK
  <1>7. ASSUME NEW e \in ChainWorkers, RefundOutcome(e) PROVE Goal
    <2>1. GoOn(e, "read") \/ ChainDone(e)
      BY <1>7 DEF RefundOutcome
    <2>2. QED
      BY <1>p, <1>t, <2>1 DEF GoOn, ChainDone, ChainPcs, ChainTypeOK
  <1>8. ASSUME NEW e \in ChainWorkers, SweepReads(e) PROVE Goal
    BY <1>8, <1>p DEF SweepReads, ChainPcs
  <1>9. ASSUME NEW e \in ChainWorkers, (\E job \in Jobs : ChainQuery(e, job)) \/ ReclaimProbeFails(e) PROVE Goal
    BY <1>9, <1>u DEF ChainQuery, ReclaimProbeFails
  <1>10. CASE ChainRuns
    BY <1>10, <1>2, <1>3, <1>4, <1>5, <1>6, <1>7, <1>8, <1>9 DEF ChainRuns
  <1>11. QED
    BY <1>1, <1>10 DEF Next

\* What a worker reclaims was selected as expired, and what it marks was closed by itself, or had
\* been before.
LEMMA ReclaimSteps ==
    ASSUME TypeOK, Next, NEW c \in ChainWorkers
    PROVE  /\ \A t \in chainBatch'[c] : t \in chainBatch[c] \/ (t.job = "reclaim" => status[t.order] = "expired")
           /\ chainPc'[c] \in {"close", "markGone"} /\ chainPc'[c] # chainPc[c] =>
                /\ chainTask'[c] \in chainBatch[c] /\ chainTask'[c].job = "reclaim"
                /\ chainPc'[c] = "markGone" =>
                        closedTxHash[chainTask'[c].order] \/ ~accountOpen[chainTask'[c].order]
           /\ chainPc'[c] = "markClosed" /\ chainPc'[c] # chainPc[c] =>
                /\ chainPc[c] = "close" /\ chainTask'[c] = chainTask[c]
                /\ Teardown(chainTask[c].order, ReclaimTx)
           /\ chainPc'[c] \in {"close", "markGone", "markClosed"} /\ chainPc'[c] = chainPc[c] =>
                chainTask'[c] = chainTask[c]
  <1> DEFINE
        Batch == \A t \in chainBatch'[c] : t \in chainBatch[c] \/ (t.job = "reclaim" => status[t.order] = "expired")
        Probe == chainPc'[c] \in {"close", "markGone"} /\ chainPc'[c] # chainPc[c] =>
                /\ chainTask'[c] \in chainBatch[c] /\ chainTask'[c].job = "reclaim"
                /\ chainPc'[c] = "markGone" =>
                        closedTxHash[chainTask'[c].order] \/ ~accountOpen[chainTask'[c].order]
        Land == chainPc'[c] = "markClosed" /\ chainPc'[c] # chainPc[c] =>
                /\ chainPc[c] = "close" /\ chainTask'[c] = chainTask[c]
                /\ Teardown(chainTask[c].order, ReclaimTx)
        Stay == chainPc'[c] \in {"close", "markGone", "markClosed"} /\ chainPc'[c] = chainPc[c] =>
                chainTask'[c] = chainTask[c]
        Goal == Batch /\ Probe /\ Land /\ Stay
  <1>t. ChainTypeOK
    BY DEF TypeOK
  <1>u. ASSUME UNCHANGED chainVars PROVE Goal
    BY <1>u DEF chainVars
  <1>b. ASSUME NEW e \in ChainWorkers, NEW t, Takes(e, t) PROVE Batch
    BY <1>b, <1>t DEF Takes, ChainTypeOK
  <1>1. CASE DetectionRuns \/ PayoutRuns
    BY <1>1, <1>u, OthersLeaveChain
  <1>2. CASE OnlyLedger
    BY <1>2, <1>u DEF OnlyLedger
  \* The acting worker goes on to a statement outside reclaim.
  <1>p. ASSUME NEW e \in ChainWorkers, NEW pc \in ChainPcs \ {"close", "markGone", "markClosed"},
               chainPc' = [chainPc EXCEPT ![e] = pc],
               \A w \in ChainWorkers : w # e => chainTask'[w] = chainTask[w]
        PROVE  Probe /\ Land /\ Stay
    BY <1>p, <1>t DEF ChainTypeOK
  <1>3. ASSUME NEW e \in ChainWorkers,
               \/ SweepReadFails(e) \/ SweepRejected(e) \/ SweepAnswerLost(e) \/ SweepTimesOut(e)
               \/ SweepRetry(e) \/ SweepLands(e)
        PROVE  Goal
    <2>1. PICK pc \in {"retry", "requeue", "record"} : GoOn(e, pc)
      BY <1>3 DEF SweepReadFails, SweepRejected, SweepAnswerLost, SweepTimesOut, SweepRetry, SweepLands
    <2>2. UNCHANGED chainBatch
      BY <1>3 DEF SweepReadFails, SweepRejected, SweepAnswerLost, SweepTimesOut, SweepRetry, SweepLands
    <2>3. QED
      BY <1>p, <2>1, <2>2 DEF GoOn, ChainPcs
  <1>d. ASSUME NEW e \in ChainWorkers, ChainDone(e) PROVE Probe /\ Land /\ Stay
    BY <1>d, <1>p, <1>t DEF ChainDone, ChainPcs, ChainTypeOK
  <1>4. ASSUME NEW e \in ChainWorkers,
               SweepRecord(e) \/ SweepRequeue(e) \/ ReclaimRejected(e) \/ ReclaimLost(e) \/ MarkReclaimed(e)
        PROVE  Goal
    BY <1>4, <1>d DEF SweepRecord, SweepRequeue, ReclaimRejected, ReclaimLost, MarkReclaimed
  <1>5. ASSUME NEW e \in ChainWorkers, ChainCrash(e) PROVE Goal
    <2>1. Batch
      BY <1>5, <1>t DEF ChainCrash, ChainTypeOK
    <2>2. QED
      BY <1>5, <1>d, <2>1 DEF ChainCrash
  <1>6. ASSUME NEW e \in ChainWorkers, SweepClaim(e) \/ RefundClaim(e) PROVE Goal
    <2>1. PICK t : /\ Takes(e, t)
                   /\ \/ UNCHANGED <<chainPc, chainTask>>
                      \/ Begin(e, "read", t) \/ Begin(e, "outcome", t)
      BY <1>6 DEF SweepClaim, RefundClaim
    <2>2. Probe /\ Land /\ Stay
      <3>1. CASE UNCHANGED <<chainPc, chainTask>>
        BY <3>1
      <3>2. CASE Begin(e, "read", t) \/ Begin(e, "outcome", t)
        BY <1>p, <1>t, <3>2 DEF Begin, ChainPcs, ChainTypeOK
      <3>3. QED
        BY <2>1, <3>1, <3>2
    <2>3. QED
      BY <1>b, <2>1, <2>2
  <1>7. ASSUME NEW e \in ChainWorkers, RefundOutcome(e) PROVE Goal
    <2>1. (GoOn(e, "read") \/ ChainDone(e)) /\ UNCHANGED chainBatch
      BY <1>7 DEF RefundOutcome
    <2>2. QED
      BY <1>p, <1>d, <2>1 DEF GoOn, ChainPcs
  <1>8. ASSUME NEW e \in ChainWorkers, SweepReads(e) PROVE Goal
    BY <1>8, <1>p DEF SweepReads, ChainPcs
  <1>9. ASSUME NEW e \in ChainWorkers, NEW job \in Jobs, ChainQuery(e, job) PROVE Goal
    <2>1. \A t \in chainBatch'[e] : t.job = job /\ t.order \in QueueOf(job)
      BY <1>9, <1>t DEF ChainQuery, ChainTypeOK
    <2>2. \A t \in chainBatch'[e] : t.job = "reclaim" => status[t.order] = "expired"
      BY <2>1 DEF QueueOf, InState
    <2>3. Batch
      BY <1>9, <1>t, <2>2 DEF ChainQuery, ChainTypeOK
    <2>4. QED
      BY <1>9, <2>3 DEF ChainQuery
  <1>10. ASSUME NEW e \in ChainWorkers, ReclaimProbe(e) PROVE Goal
    <2>1. PICK t \in chainBatch[e] :
            /\ t.job = "reclaim" /\ Takes(e, t)
            /\ Begin(e, IF closedTxHash[t.order] \/ ~accountOpen[t.order] THEN "markGone" ELSE "close", t)
      BY <1>10 DEF ReclaimProbe
    <2>2. Probe /\ Land /\ Stay
      BY <2>1, <1>t DEF Begin, Takes, ChainTypeOK
    <2>3. QED
      BY <1>b, <2>1, <2>2
  <1>11. ASSUME NEW e \in ChainWorkers, ReclaimProbeFails(e) PROVE Goal
    <2>1. PICK t \in chainBatch[e] : Takes(e, t)
      BY <1>11 DEF ReclaimProbeFails
    <2>2. QED
      BY <1>11, <1>b, <2>1 DEF ReclaimProbeFails
  <1>12. ASSUME NEW e \in ChainWorkers, ReclaimLands(e) PROVE Goal
    <2>1. Probe /\ Land /\ Stay
      BY <1>12, <1>t DEF ReclaimLands, GoOn, ChainTypeOK
    <2>2. QED
      BY <1>12, <2>1 DEF ReclaimLands
  <1>13. CASE ChainRuns
    BY <1>13, <1>2, <1>3, <1>4, <1>5, <1>6, <1>7, <1>8, <1>9, <1>10, <1>11, <1>12 DEF ChainRuns
  <1>14. QED
    BY <1>1, <1>13 DEF Next

\* Orders are finished by the worker that is about to record it.
LEMMA FinishSteps ==
    ASSUME TypeOK, Next, NEW q \in Orders, status'[q] # status[q],
           status'[q] \in {"settled_in_treasury", "refunded"}
    PROVE  \E c \in ChainWorkers : /\ chainPc[c] = "record" /\ chainTask[c].order = q
                                   /\ status'[q] = Finished(chainTask[c].job)
  <1>t. StoreTypeOK
    BY DEF TypeOK
  <1>1. CASE DetectionRuns
    BY <1>1, MovesOfDetection DEF DetectorMoves, Moves
  <1>2. CASE PayoutRuns
    BY <1>2, MovesOfPayouts DEF PayoutMoves, Moves
  <1>3. ASSUME NEW c, SweepClaim(c) \/ RefundClaim(c) PROVE FALSE
    <2>1. \E o, to : to \in {"sweep_processing", "refund_processing"} /\ (SetStatus(o, to) \/ UNCHANGED status)
      BY <1>3 DEF SweepClaim, RefundClaim, ClaimStatus
    <2>2. QED
      BY <2>1, <1>t DEF SetStatus, StoreTypeOK
  <1>4. ASSUME NEW c, SweepRequeue(c) PROVE FALSE
    <2>1. \E o, from, to : /\ to \in {"sweep_queued", "refund_queued", "failed"}
                           /\ ClaimStatus(o, from, to) \/ ReleaseStatus(o, from, to)
      BY <1>4 DEF SweepRequeue, Queued
    <2>2. QED
      BY <2>1, <1>t, MoveIsFrom
  <1>5. ASSUME NEW c \in ChainWorkers, SweepRecord(c)
        PROVE  /\ chainPc[c] = "record" /\ chainTask[c].order = q
               /\ status'[q] = Finished(chainTask[c].job)
    BY <1>5, <1>t, MoveIsFrom DEF SweepRecord
  <1>6. ASSUME OnlyLedger PROVE FALSE
    BY <1>6 DEF OnlyLedger, orderVars
  <1>7. ASSUME NEW c, \/ \E job \in Jobs : ChainQuery(c, job)
                      \/ RefundOutcome(c) \/ SweepReads(c) \/ SweepReadFails(c) \/ SweepLands(c)
                      \/ SweepRejected(c) \/ SweepAnswerLost(c) \/ SweepTimesOut(c) \/ SweepRetry(c)
                      \/ ReclaimProbe(c) \/ ReclaimProbeFails(c) \/ ReclaimLands(c)
                      \/ ReclaimRejected(c) \/ ReclaimLost(c) \/ MarkReclaimed(c) \/ ChainCrash(c)
        PROVE  FALSE
    BY <1>7 DEF ChainQuery, RefundOutcome, SweepReads, SweepReadFails, SweepLands, SweepRejected,
                SweepAnswerLost, SweepTimesOut, SweepRetry, ReclaimProbe, ReclaimProbeFails,
                ReclaimLands, ReclaimRejected, ReclaimLost, MarkReclaimed, ChainCrash, orderVars
  <1>8. CASE ChainRuns
    BY <1>8, <1>3, <1>4, <1>5, <1>6, <1>7 DEF ChainRuns
  <1>9. QED
    BY <1>1, <1>2, <1>8 DEF Next

\* The hash of a closed account is written with the final state, or by a worker that marks.
LEMMA MarkSteps ==
    ASSUME TypeOK, Next, NEW q \in Orders,
           closedTxHash'[q] # closedTxHash[q] \/ reservesReclaimed'[q] # reservesReclaimed[q]
    PROVE  \/ /\ reservesReclaimed'[q] = reservesReclaimed[q]
              /\ status'[q] \in {"settled_in_treasury", "refunded"}
           \/ \E c \in ChainWorkers : chainPc[c] \in {"markClosed", "markGone"} /\ chainTask[c].order = q
  <1>t. StoreTypeOK /\ ChainTypeOK
    BY DEF TypeOK
  <1>1. CASE DetectionRuns \/ PayoutRuns
    BY <1>1, OthersLeaveChain
  <1>2. ASSUME OnlyLedger PROVE FALSE
    BY <1>2 DEF OnlyLedger, orderVars
  <1>3. ASSUME NEW c \in ChainWorkers, SweepRecord(c)
        PROVE  /\ reservesReclaimed'[q] = reservesReclaimed[q]
               /\ status'[q] \in {"settled_in_treasury", "refunded"}
    <2> DEFINE o == chainTask[c].order
               to == Finished(chainTask[c].job)
    <2>1. /\ UNCHANGED reservesReclaimed
          /\ closedTxHash' = [closedTxHash EXCEPT ![o] = @ \/ Wins(o, Processing(chainTask[c].job), to)]
          /\ ClaimStatus(o, Processing(chainTask[c].job), to)
      BY <1>3 DEF SweepRecord
    <2>2. q = o /\ Wins(o, Processing(chainTask[c].job), to)
      BY <1>t, <2>1 DEF StoreTypeOK
    <2>3. status'[q] = to
      BY <1>t, <2>1, <2>2 DEF ClaimStatus, SetStatus, StoreTypeOK
    <2>4. QED
      BY <2>1, <2>3 DEF Finished
  <1>4. ASSUME NEW c \in ChainWorkers, MarkReclaimed(c)
        PROVE  chainPc[c] \in {"markClosed", "markGone"} /\ chainTask[c].order = q
    BY <1>4, <1>t DEF MarkReclaimed, StoreTypeOK
  <1>5. ASSUME NEW c, \/ \E job \in Jobs : ChainQuery(c, job)
                      \/ SweepClaim(c) \/ RefundClaim(c) \/ SweepRequeue(c)
                      \/ RefundOutcome(c) \/ SweepReads(c) \/ SweepReadFails(c) \/ SweepLands(c)
                      \/ SweepRejected(c) \/ SweepAnswerLost(c) \/ SweepTimesOut(c) \/ SweepRetry(c)
                      \/ ReclaimProbe(c) \/ ReclaimProbeFails(c) \/ ReclaimLands(c)
                      \/ ReclaimRejected(c) \/ ReclaimLost(c) \/ ChainCrash(c)
        PROVE  FALSE
    BY <1>5 DEF ChainQuery, SweepClaim, RefundClaim, SweepRequeue, RefundOutcome, SweepReads,
                SweepReadFails, SweepLands, SweepRejected, SweepAnswerLost, SweepTimesOut, SweepRetry,
                ReclaimProbe, ReclaimProbeFails, ReclaimLands, ReclaimRejected, ReclaimLost,
                ChainCrash, orderVars, dataColumns
  <1>6. CASE ChainRuns
    BY <1>6, <1>2, <1>3, <1>4, <1>5 DEF ChainRuns
  <1>7. QED
    BY <1>1, <1>6 DEF Next

-----------------------------------------------------------------------------
(* Finished orders, and orders that were given up *)

\* What went somewhere stays there.
LEMMA WentStays ==
    ASSUME TypeOK, Accounts, Next, NEW o \in Orders, NEW place, WentTo(o, place)
    PROVE  WentTo(o, place)'
  <1>1. Rests(o)
    BY ClosedStays DEF WentTo
  <1>2. QED
    BY <1>1 DEF WentTo, Rests, Sent

\* An order is finished where its worker's transaction took all that was sent.
LEMMA FinishesStep == TypeOK /\ Accounts /\ Finishes /\ Next => Finishes'
  <1> SUFFICES ASSUME TypeOK, Accounts, Finishes, Next PROVE Finishes'
    OBVIOUS
  <1>1. ASSUME NEW o \in Orders, NEW job \in {"sweep", "refund"}, status'[o] = Finished(job)
        PROVE  WentTo(o, Destination(job))'
    <2>1. CASE status'[o] = status[o]
      <3>1. WentTo(o, Destination(job))
        BY <1>1, <2>1 DEF Finishes, Finished, Destination
      <3>2. QED
        BY <3>1, WentStays
    <2>2. CASE status'[o] # status[o]
      <3>1. status'[o] \in {"settled_in_treasury", "refunded"}
        BY <1>1 DEF Finished
      <3>2. PICK c \in ChainWorkers : /\ chainPc[c] = "record" /\ chainTask[c].order = o
                                      /\ status'[o] = Finished(chainTask[c].job)
        BY <2>2, <3>1, FinishSteps
      <3>3. WentTo(o, Destination(chainTask[c].job))
        BY <3>2 DEF Finishes
      <3>4. Destination(chainTask[c].job) = Destination(job)
        BY <1>1, <3>2 DEF Finished, Destination
      <3>5. WentTo(o, Destination(job))
        BY <3>3, <3>4
      <3>6. QED
        BY <3>5, WentStays
    <2>3. QED
      BY <2>1, <2>2
  <1>2. ASSUME NEW c \in ChainWorkers, NEW o \in Orders, chainPc'[c] = "record", chainTask'[c].order = o,
               NEW place, place = Destination(chainTask'[c].job)
        PROVE  WentTo(o, place)'
    <2>1. chainTask'[c] = chainTask[c]
      BY <1>2, RecordSteps
    <2>2. place = Destination(chainTask[c].job)
      BY <1>2, <2>1
    <2>3. CASE chainPc[c] = "record"
      <3>1. WentTo(o, place)
        BY <1>2, <2>1, <2>2, <2>3 DEF Finishes
      <3>2. QED
        BY <3>1, WentStays
    <2>4. CASE LedgerAccepts(chainTask[c].order, SweepTx(c)) /\ Teardown(chainTask[c].order, SweepTx(c))
      <3>1. /\ ~accountOpen'[o] /\ balance'[o] = 0
            /\ place = "treasury" => treasury'[o] = treasury[o] + chainAmount[c] /\ returned'[o] = returned[o]
            /\ place = "payer" => treasury'[o] = treasury[o] /\ returned'[o] = returned[o] + chainAmount[c]
        BY <1>2, <2>1, <2>2, <2>4 DEF Teardown, SweepTx, TypeOK, LedgerTypeOK
      <3>2. treasury[o] = 0 /\ returned[o] = 0 /\ balance[o] = chainAmount[c] /\ balance[o] \in Nat
        BY <1>2, <2>1, <2>4, OrderAssumptions
           DEF LedgerAccepts, Accounts, SweepTx, TypeOK, LedgerTypeOK, Units
      <3>3. QED
        BY <3>1, <3>2 DEF WentTo, Sent
    <2>5. QED
      BY <1>2, <2>3, <2>4, RecordSteps
  <1>3. ASSUME NEW o \in Orders
        PROVE  /\ status'[o] = "settled_in_treasury" => WentTo(o, "treasury")'
               /\ status'[o] = "refunded" => WentTo(o, "payer")'
    BY <1>1 DEF Finished, Destination
  <1>4. QED
    BY <1>2, <1>3 DEF Finishes, WentTo

\* Nobody submits anything for an order in none of these states, but a worker that reclaims it.
LEMMA OnlyHoldersSubmit ==
    ASSUME Claims, Reclaims, NEW o \in Orders, NEW c \in ChainWorkers, NEW tx, Submits(c, o, tx),
           status[o] \notin {"sweep_processing", "refund_processing"}
    PROVE  status[o] = "expired" /\ tx = ReclaimTx
  <1>1. chainPc[c] # "send"
    BY DEF Submits, Claims, ChainClaims, ChainHolds, Processing
  <1>2. QED
    BY <1>1 DEF Submits, Reclaims

\* Which moves lead to these states, and that expired orders stay.
LEMMA EarlyMoves ==
    ASSUME TypeOK, Next, NEW o \in Orders
    PROVE  /\ status'[o] \in {"awaiting_deposit", "deposit_detected"} =>
                status[o] \in {"awaiting_deposit", "deposit_detected"}
           /\ status'[o] = "expired" => status[o] \in {"awaiting_deposit", "expired"}
           /\ status[o] = "expired" => status'[o] = "expired"
  <1>1. CASE status'[o] = status[o]
    BY <1>1
  <1>2. CASE DetectorMoves(o)
    BY <1>2 DEF DetectorMoves, Moves
  <1>3. CASE PayoutMoves(o)
    BY <1>3 DEF PayoutMoves, Moves
  <1>4. CASE ChainMoves(o)
    BY <1>4 DEF ChainMoves, Moves, Queued, Processing, Finished
  <1>5. QED
    BY <1>1, <1>2, <1>3, <1>4, MovesOfNext

\* The account of an order is left alone until its payout is queued, and closed empty when it
\* was given up.
LEMMA ClosingsStep == TypeOK /\ Claims /\ Accounts /\ Closings /\ Reclaims /\ Next => Closings'
  <1> SUFFICES ASSUME TypeOK, Claims, Accounts, Closings, Reclaims, Next, NEW o \in Orders
               PROVE  /\ status'[o] \in {"awaiting_deposit", "deposit_detected"} => Untouched(o)'
                      /\ status'[o] = "expired" => GivenUp(o)'
                      /\ reservesReclaimed'[o] => status'[o] = "expired" /\ ~accountOpen'[o]
    BY DEF Closings, Untouched, GivenUp, Sent
  <1>s. LedgerStep(o)
    BY LedgerSteps
  <1>m. ASSUME NEW c \in ChainWorkers, chainPc[c] \in {"markClosed", "markGone"}, chainTask[c].order = o
        PROVE  status[o] = "expired" /\ ~accountOpen[o]
    BY <1>m DEF Reclaims
  <1>b. closedTxHash[o] \in BOOLEAN /\ closedTxHash'[o] \in BOOLEAN
        /\ reservesReclaimed[o] \in BOOLEAN /\ reservesReclaimed'[o] \in BOOLEAN
    <2>1. TypeOK'
      BY TypeDetection, TypePayouts, TypeChain DEF Next
    <2>2. QED
      BY <2>1 DEF TypeOK, StoreTypeOK
  <1>1. ASSUME status'[o] \in {"awaiting_deposit", "deposit_detected"} PROVE Untouched(o)'
    <2>1. status[o] \in {"awaiting_deposit", "deposit_detected"} /\ Untouched(o)
      BY <1>1, EarlyMoves DEF Closings
    <2>2. \A tx : ~Known(o, tx)
      BY <2>1, OnlyHoldersSubmit DEF Known, Untouched
    <2>3. accountOpen'[o]
      BY <1>s, <2>1, <2>2 DEF LedgerStep, Rests, Receives, Untouched
    <2>4. pending'[o] = {}
      BY <2>1, <2>2, PendingSteps DEF Known, Untouched
    <2>5. closedTxHash'[o] = closedTxHash[o] /\ reservesReclaimed'[o] = reservesReclaimed[o]
      BY <1>1, <1>m, <2>1, MarkSteps
    <2>6. QED
      BY <2>1, <2>3, <2>4, <2>5 DEF Untouched
  <1>2. ASSUME status'[o] = "expired" PROVE GivenUp(o)'
    <2>1. status[o] \in {"awaiting_deposit", "expired"} /\ GivenUp(o)
      BY <1>2, EarlyMoves DEF Closings, Untouched, GivenUp
    <2>2. \A tx : Known(o, tx) => tx.amount = 0
      BY <2>1, OnlyHoldersSubmit DEF Known, GivenUp, ReclaimTx
    <2>3. \A tx \in pending'[o] : tx.amount = 0
      BY <2>2, PendingSteps DEF Known
    <2>4. ~accountOpen'[o] => balance'[o] + treasury'[o] + returned'[o] = 0
      <3>1. CASE Rests(o)
        BY <2>1, <3>1 DEF Rests, GivenUp, Sent
      <3>2. CASE Receives(o)
        BY <3>2 DEF Receives
      <3>3. ASSUME NEW tx, Known(o, tx), tx.amount = balance[o], Closes(o, tx.to)
            PROVE  balance'[o] + treasury'[o] + returned'[o] = 0
        BY <2>2, <3>3 DEF Closes, Accounts
      <3>4. QED
        BY <1>s, <3>1, <3>2, <3>3 DEF LedgerStep
    <2>5. closedTxHash'[o] => ~accountOpen'[o]
      <3>1. ASSUME closedTxHash'[o] PROVE ~accountOpen[o]
        BY <1>2, <1>b, <1>m, <2>1, <3>1, MarkSteps DEF GivenUp
      <3>2. QED
        BY <3>1, ClosedStays DEF Rests
    <2>6. QED
      BY <2>3, <2>4, <2>5 DEF GivenUp, Sent
  <1>3. ASSUME reservesReclaimed'[o] PROVE status'[o] = "expired" /\ ~accountOpen'[o]
    <2>1. status[o] = "expired" /\ ~accountOpen[o]
      BY <1>b, <1>m, <1>3, MarkSteps DEF Closings
    <2>2. QED
      BY <2>1, EarlyMoves, ClosedStays DEF Rests
  <1>4. QED
    BY <1>1, <1>2, <1>3

\* A worker that reclaims an order finds it expired throughout, and marks a closed account.
LEMMA ReclaimsStep == TypeOK /\ Accounts /\ Closings /\ Reclaims /\ Next => Reclaims'
  <1> SUFFICES ASSUME TypeOK, Accounts, Closings, Reclaims, Next, NEW c \in ChainWorkers
               PROVE  /\ \A t \in chainBatch'[c] : t.job = "reclaim" => status'[t.order] = "expired"
                      /\ chainPc'[c] \in {"close", "markClosed", "markGone"} =>
                            status'[chainTask'[c].order] = "expired"
                      /\ chainPc'[c] \in {"markClosed", "markGone"} => ~accountOpen'[chainTask'[c].order]
    BY DEF Reclaims
  <1>n. TypeOK'
    BY TypeDetection, TypePayouts, TypeChain DEF Next
  <1>t. /\ \A t \in chainBatch'[c] : t.order \in Orders
        /\ chainPc'[c] # "idle" => chainTask'[c].order \in Orders
        /\ chainPc[c] # "idle" => chainTask[c].order \in Orders
    BY <1>n DEF TypeOK, ChainTypeOK, Tasks
  <1>1. ASSUME NEW t \in chainBatch'[c], t.job = "reclaim" PROVE status'[t.order] = "expired"
    <2>1. status[t.order] = "expired"
      BY <1>1, ReclaimSteps DEF Reclaims
    <2>2. QED
      BY <1>t, <2>1, EarlyMoves
  <1>2. ASSUME NEW o \in Orders, chainPc'[c] \in {"close", "markClosed", "markGone"}, chainTask'[c].order = o
        PROVE  status'[o] = "expired" /\ (chainPc'[c] # "close" => ~accountOpen'[o])
    <2>1. CASE chainPc'[c] = chainPc[c]
      <3>1. status[o] = "expired" /\ (chainPc[c] # "close" => ~accountOpen[o])
        BY <1>2, <2>1, ReclaimSteps DEF Reclaims
      <3>2. QED
        BY <2>1, <3>1, EarlyMoves, ClosedStays DEF Rests
    <2>2. CASE chainPc'[c] # chainPc[c] /\ chainPc'[c] \in {"close", "markGone"}
      <3>1. /\ chainTask'[c] \in chainBatch[c] /\ chainTask'[c].job = "reclaim"
            /\ chainPc'[c] = "markGone" => closedTxHash[o] \/ ~accountOpen[o]
        BY <1>2, <2>2, ReclaimSteps
      <3>2. status[o] = "expired"
        BY <1>2, <3>1 DEF Reclaims
      <3>3. chainPc'[c] = "markGone" => ~accountOpen[o]
        BY <3>1, <3>2 DEF Closings, GivenUp
      <3>4. QED
        BY <2>2, <3>2, <3>3, EarlyMoves, ClosedStays DEF Rests
    <2>3. CASE chainPc'[c] # chainPc[c] /\ chainPc'[c] = "markClosed"
      <3>1. chainPc[c] = "close" /\ chainTask[c].order = o /\ Teardown(o, ReclaimTx)
        BY <1>2, <2>3, ReclaimSteps
      <3>2. status[o] = "expired"
        BY <3>1 DEF Reclaims
      <3>3. ~accountOpen'[o]
        BY <3>1 DEF Teardown, TypeOK, LedgerTypeOK
      <3>4. QED
        BY <3>2, <3>3, EarlyMoves
    <2>4. QED
      BY <1>2, <2>1, <2>2, <2>3
  <1>3. QED
    BY <1>1, <1>2, <1>t

\* Initially nothing was sent, credited, selected or closed.
LEMMA LedgerInvInit == Init => LedgerInv
  <1> SUFFICES ASSUME Init PROVE LedgerInv
    OBVIOUS
  <1> USE DEF Init
  <1>1. Accounts
    BY DEF Accounts, LedgerInit
  <1>2. Credits
    <2>1. ASSUME NEW o \in Orders PROVE amountUSDC[o] <= Sent(o)
      <3>1. amountUSDC[o] = 0 /\ balance[o] = 0 /\ treasury[o] = 0 /\ returned[o] = 0
        BY DEF LedgerInit, StoreInit
      <3>2. QED
        BY <3>1 DEF Sent
    <2>2. \A d \in Detectors : detPc[d] # "record"
      BY DEF DepositsInit
    <2>3. QED
      BY <2>1, <2>2 DEF Credits
  <1>3. Finishes
    BY DEF Finishes, StoreInit, ChainInit
  <1>4. Closings
    BY DEF Closings, LedgerInit, StoreInit, Untouched
  <1>5. Reclaims
    BY DEF Reclaims, ChainInit
  <1>6. QED
    BY <1>1, <1>2, <1>3, <1>4, <1>5 DEF LedgerInv

\* A step that changes nothing.
LEMMA LedgerInvStutter == LedgerInv /\ UNCHANGED vars => LedgerInv'
  <1> SUFFICES ASSUME LedgerInv, UNCHANGED vars PROVE LedgerInv'
    OBVIOUS
  <1> USE DEF LedgerInv, vars, orderVars, ledgerVars, detVars, chainVars
  <1>1. Accounts' /\ Credits'
    BY DEF Accounts, Credits, Sent
  <1>2. Finishes'
    BY DEF Finishes, WentTo, Sent
  <1>3. Closings' /\ Reclaims'
    BY DEF Closings, Reclaims, Untouched, GivenUp, Sent
  <1>4. QED
    BY <1>1, <1>2, <1>3

\* Orders, accounts and the workers between them agree in every reachable state.
LEMMA LedgerCorrect == Spec => [](TypeOK /\ Claims /\ LedgerInv)
  <1>1. TypeOK /\ TypeOK' /\ Claims /\ LedgerInv /\ [Next]_vars => LedgerInv'
    BY AccountsStep, CreditsStep, FinishesStep, ClosingsStep, ReclaimsStep, LedgerInvStutter DEF LedgerInv
  <1>2. QED
    BY <1>1, LedgerInvInit, ClaimsCorrect, PTL DEF Spec

\* An order reported settled or refunded is: its account is closed and at least what was
\* recorded went to treasury, or back, however many answers were lost, tries were made and
\* processes died (sweep, refund, Client.Sweep).
THEOREM FinishedAlwaysMeansMoved == Spec => []FinishedMeansMoved
  <1>1. TypeOK /\ LedgerInv => FinishedMeansMoved
    <2> SUFFICES ASSUME LedgerInv, NEW o \in Orders
                 PROVE  /\ status[o] = "settled_in_treasury" => ~accountOpen[o] /\ treasury[o] >= amountUSDC[o]
                        /\ status[o] = "refunded" => ~accountOpen[o] /\ returned[o] >= amountUSDC[o]
      BY DEF FinishedMeansMoved
    <2>1. amountUSDC[o] <= Sent(o)
      BY DEF LedgerInv, Credits
    <2>2. QED
      BY <2>1 DEF LedgerInv, Finishes, WentTo
  <1>2. QED
    BY <1>1, LedgerCorrect, PTL

\* An expired order leaves the reclaim queue only with its account gone and nothing in it, so no
\* late deposit is forgotten (reclaim, markReclaimed).
THEOREM ReclaimedAlwaysMeansClosed == Spec => []ReclaimedMeansClosed
  <1>1. LedgerInv => ReclaimedMeansClosed
    BY DEF LedgerInv, Closings, GivenUp, ReclaimedMeansClosed
  <1>2. QED
    BY <1>1, LedgerCorrect, PTL

-----------------------------------------------------------------------------
(* Without losses *)

\* An account is closed by a transaction under way, by a sweep that is about to record it, by a
\* sweep whose answer is lost, or by a reclaim.
LEMMA CloseSteps ==
    ASSUME TypeOK, Next, NEW q \in Orders, accountOpen'[q] # accountOpen[q], ~Lose
    PROVE  \/ pending[q] # {}
           \/ \E c \in ChainWorkers :
                /\ chainTask[c].order = q
                /\ \/ chainPc[c] = "close" /\ Teardown(q, ReclaimTx)
                   \/ chainPc[c] = "send" /\ GoOn(c, "record") /\ UNCHANGED status
  <1>t. LedgerTypeOK
    BY DEF TypeOK
  <1>1. CASE DetectionRuns
    BY <1>1 DEF DetectionRuns, DeadlinePasses, ScannerQuery, ScannerReads, ScannerReadFails,
            StreamReads, Record, QueuePayout, EnqueueFails, Expire, DetectorCrash, ledgerVars
  <1>2. CASE PayoutRuns
    BY <1>2 DEF PayoutRuns, OnlyPayouts, ledgerVars
  <1>3. ASSUME NEW o \in Orders, PayerSends(o) \/ PendingExpires(o) PROVE FALSE
    BY <1>3 DEF PayerSends, PendingExpires
  <1>4. ASSUME NEW o \in Orders, PendingLands(o) PROVE pending[q] # {}
    BY <1>4, <1>t DEF PendingLands, Teardown, LedgerTypeOK
  <1>5. ASSUME NEW c \in ChainWorkers, SweepLands(c)
        PROVE  chainTask[c].order = q /\ chainPc[c] = "send" /\ GoOn(c, "record") /\ UNCHANGED status
    BY <1>5, <1>t DEF SweepLands, Teardown, LedgerTypeOK, orderVars
  <1>6. ASSUME NEW c \in ChainWorkers, ReclaimLands(c)
        PROVE  chainTask[c].order = q /\ chainPc[c] = "close" /\ Teardown(q, ReclaimTx)
    BY <1>6, <1>t DEF ReclaimLands, Teardown, LedgerTypeOK
  <1>7. ASSUME NEW c, SweepAnswerLost(c) \/ ReclaimLost(c) PROVE FALSE
    BY <1>7 DEF SweepAnswerLost, ReclaimLost
  <1>8. ASSUME NEW c, \/ \E job \in Jobs : ChainQuery(c, job)
                      \/ SweepClaim(c) \/ RefundClaim(c) \/ RefundOutcome(c) \/ SweepReads(c)
                      \/ SweepReadFails(c) \/ SweepRejected(c) \/ SweepTimesOut(c) \/ SweepRecord(c)
                      \/ SweepRetry(c) \/ SweepRequeue(c) \/ ReclaimProbe(c) \/ ReclaimProbeFails(c)
                      \/ ReclaimRejected(c) \/ MarkReclaimed(c) \/ ChainCrash(c)
        PROVE  FALSE
    BY <1>8 DEF ChainQuery, SweepClaim, RefundClaim, RefundOutcome, SweepReads, SweepReadFails,
            SweepRejected, SweepTimesOut, SweepRecord, SweepRetry, SweepRequeue, ReclaimProbe,
            ReclaimProbeFails, ReclaimRejected, MarkReclaimed, ChainCrash, ledgerVars
  <1>9. CASE ChainRuns
    BY <1>9, <1>3, <1>4, <1>5, <1>6, <1>7, <1>8 DEF ChainRuns
  <1>10. QED
    BY <1>1, <1>2, <1>9 DEF Next

\* An order is handed back or flagged by the worker that holds it, after a failed attempt.
LEMMA RequeueSteps ==
    ASSUME TypeOK, Next, NEW q \in Orders, status'[q] # status[q],
           status[q] \in {"sweep_processing", "refund_processing"},
           status'[q] \notin {"settled_in_treasury", "refunded"}
    PROVE  \E c \in ChainWorkers : chainPc[c] = "requeue" /\ chainTask[c].order = q
  <1>t. StoreTypeOK
    BY DEF TypeOK
  <1>1. CASE DetectionRuns
    BY <1>1, MovesOfDetection DEF DetectorMoves, Moves
  <1>2. CASE PayoutRuns
    BY <1>2, MovesOfPayouts DEF PayoutMoves, Moves
  <1>3. ASSUME NEW c, SweepClaim(c) PROVE FALSE
    BY <1>3, <1>t, MoveIsFrom DEF SweepClaim
  <1>4. ASSUME NEW c, RefundClaim(c) PROVE FALSE
    <2>1. \E o : ClaimStatus(o, "refund_queued", "refund_processing") \/ UNCHANGED status
      BY <1>4 DEF RefundClaim, ClaimStatus
    <2>2. QED
      BY <2>1, <1>t, MoveIsFrom
  <1>5. ASSUME NEW c, SweepRecord(c) PROVE FALSE
    <2>1. \E o, from, to : to \in {"settled_in_treasury", "refunded"} /\ ClaimStatus(o, from, to)
      BY <1>5 DEF SweepRecord, Finished
    <2>2. QED
      BY <2>1, <1>t, MoveIsFrom
  <1>6. ASSUME NEW c, SweepRequeue(c) PROVE chainPc[c] = "requeue" /\ chainTask[c].order = q
    BY <1>6, <1>t, MoveIsFrom DEF SweepRequeue
  <1>7. ASSUME OnlyLedger PROVE FALSE
    BY <1>7 DEF OnlyLedger, orderVars
  <1>8. ASSUME NEW c, \/ \E job \in Jobs : ChainQuery(c, job)
                      \/ RefundOutcome(c) \/ SweepReads(c) \/ SweepReadFails(c) \/ SweepLands(c)
                      \/ SweepRejected(c) \/ SweepAnswerLost(c) \/ SweepTimesOut(c) \/ SweepRetry(c)
                      \/ ReclaimProbe(c) \/ ReclaimProbeFails(c) \/ ReclaimLands(c)
                      \/ ReclaimRejected(c) \/ ReclaimLost(c) \/ MarkReclaimed(c) \/ ChainCrash(c)
        PROVE  FALSE
    BY <1>8 DEF ChainQuery, RefundOutcome, SweepReads, SweepReadFails, SweepLands, SweepRejected,
                SweepAnswerLost, SweepTimesOut, SweepRetry, ReclaimProbe, ReclaimProbeFails,
                ReclaimLands, ReclaimRejected, ReclaimLost, MarkReclaimed, ChainCrash, orderVars
  <1>9. CASE ChainRuns
    BY <1>9, <1>3, <1>4, <1>5, <1>6, <1>7, <1>8 DEF ChainRuns
  <1>10. QED
    BY <1>1, <1>2, <1>9 DEF Next

\* A worker holds what it held, and goes on recording what it was about to record, or has just
\* claimed a queued order.
LEMMA HolderSteps ==
    ASSUME TypeOK, Next, NEW q \in Orders, NEW c \in ChainWorkers, ChainHolds(c, q)'
    PROVE  \/ ChainHolds(c, q) /\ (chainPc[c] = "record" => chainPc'[c] = "record")
           \/ status[q] \in {"sweep_queued", "refund_queued"}
  <1> DEFINE Goal == \/ ChainHolds(c, q) /\ (chainPc[c] = "record" => chainPc'[c] = "record")
                     \/ status[q] \in {"sweep_queued", "refund_queued"}
  <1>t. ChainTypeOK
    BY DEF TypeOK
  <1>u. ASSUME UNCHANGED <<chainPc, chainTask>> PROVE Goal
    BY <1>u DEF ChainHolds
  <1>p. ASSUME NEW e \in ChainWorkers, NEW pc, chainPc' = [chainPc EXCEPT ![e] = pc], UNCHANGED chainTask,
               chainPc[e] \in {"outcome", "read", "send", "retry", "requeue"}
               \/ pc \in {"idle", "markClosed"}
        PROVE  Goal
    BY <1>p, <1>t DEF ChainHolds, ChainTypeOK
  <1>d. ASSUME NEW e \in ChainWorkers, ChainDone(e) PROVE Goal
    BY <1>d, <1>t DEF ChainDone, ChainHolds, ChainTypeOK
  <1>1. CASE DetectionRuns \/ PayoutRuns
    BY <1>1, <1>u, OthersLeaveChain DEF chainVars
  <1>2. CASE OnlyLedger
    BY <1>2, <1>u DEF OnlyLedger, chainVars
  <1>3. ASSUME NEW e \in ChainWorkers,
               \/ SweepReads(e) \/ SweepReadFails(e) \/ SweepRejected(e) \/ SweepAnswerLost(e)
               \/ SweepTimesOut(e) \/ SweepLands(e) \/ SweepRetry(e) \/ ReclaimLands(e)
        PROVE  Goal
    BY <1>3, <1>p DEF SweepReads, SweepReadFails, SweepRejected, SweepAnswerLost, SweepTimesOut,
            SweepLands, SweepRetry, ReclaimLands, GoOn
  <1>4. ASSUME NEW e \in ChainWorkers,
               \/ SweepRecord(e) \/ SweepRequeue(e) \/ ReclaimRejected(e) \/ ReclaimLost(e)
               \/ MarkReclaimed(e) \/ ChainCrash(e)
        PROVE  Goal
    BY <1>4, <1>d DEF SweepRecord, SweepRequeue, ReclaimRejected, ReclaimLost, MarkReclaimed, ChainCrash
  <1>5. ASSUME NEW e \in ChainWorkers, RefundOutcome(e) PROVE Goal
    BY <1>5, <1>p, <1>d DEF RefundOutcome, GoOn
  <1>6. ASSUME NEW e \in ChainWorkers, SweepClaim(e) \/ RefundClaim(e) PROVE Goal
    <2>1. \/ UNCHANGED <<chainPc, chainTask>>
          \/ \E t, pc : status[t.order] \in {"sweep_queued", "refund_queued"} /\ Begin(e, pc, t)
      BY <1>6 DEF SweepClaim, RefundClaim, Wins
    <2>2. ASSUME NEW t, NEW pc, status[t.order] \in {"sweep_queued", "refund_queued"}, Begin(e, pc, t)
          PROVE  Goal
      BY <2>2, <1>t DEF Begin, ChainHolds, ChainTypeOK
    <2>3. QED
      BY <1>u, <2>1, <2>2
  <1>7. ASSUME NEW e \in ChainWorkers, ReclaimProbe(e) PROVE Goal
    <2>1. PICK t, pc : pc \in {"markGone", "close"} /\ Begin(e, pc, t)
      BY <1>7 DEF ReclaimProbe
    <2>2. QED
      BY <2>1, <1>t DEF Begin, ChainHolds, ChainTypeOK
  <1>8. ASSUME NEW e \in ChainWorkers, (\E job \in Jobs : ChainQuery(e, job)) \/ ReclaimProbeFails(e) PROVE Goal
    BY <1>8, <1>u DEF ChainQuery, ReclaimProbeFails
  <1>9. CASE ChainRuns
    BY <1>9, <1>2, <1>3, <1>4, <1>5, <1>6, <1>7, <1>8 DEF ChainRuns
  <1>10. QED
    BY <1>1, <1>9 DEF Next

\* Money moves with the worker that is about to record it, if no answer is lost.
LEMMA LosslessStep ==
    ASSUME MaxLosses = 0, TypeOK, TypeOK', Claims, Accounts, MovedIsRecorded, Next
    PROVE  MovedIsRecorded'
  <1>l. ~Lose
    BY DEF TypeOK, FaultsTypeOK, Lose
  <1> SUFFICES ASSUME NEW o \in Orders
               PROVE  /\ pending'[o] = {}
                      /\ Moved(o)' =>
                            /\ status'[o] \in {"sweep_processing", "settled_in_treasury",
                                               "refund_processing", "refunded"}
                            /\ \A c \in ChainWorkers : ChainHolds(c, o)' => chainPc'[c] = "record"
    BY DEF MovedIsRecorded
  <1>1. pending'[o] = {}
    BY <1>l, PendingSteps DEF MovedIsRecorded
  <1>2. ASSUME Moved(o)
        PROVE  /\ status'[o] \in {"sweep_processing", "settled_in_treasury",
                                  "refund_processing", "refunded"}
               /\ \A c \in ChainWorkers : ChainHolds(c, o)' => chainPc'[c] = "record"
    <2>1. /\ status[o] \in {"sweep_processing", "settled_in_treasury", "refund_processing", "refunded"}
          /\ \A c \in ChainWorkers : ChainHolds(c, o) => chainPc[c] = "record"
      BY <1>2 DEF MovedIsRecorded
    <2>2. \A c \in ChainWorkers : ChainHolds(c, o)' => chainPc'[c] = "record"
      BY <2>1, HolderSteps
    <2>3. CASE status'[o] = status[o] \/ status'[o] \in {"settled_in_treasury", "refunded"}
      BY <2>1, <2>2, <2>3
    <2>4. CASE status'[o] # status[o] /\ status'[o] \notin {"settled_in_treasury", "refunded"}
      <3>1. status[o] \in {"sweep_processing", "refund_processing"}
        <4>1. DetectorMoves(o) \/ PayoutMoves(o) \/ ChainMoves(o)
          BY <2>4, MovesOfNext
        <4>2. QED
          BY <2>1, <4>1 DEF DetectorMoves, PayoutMoves, ChainMoves, Moves, Queued, Processing, Finished
      <3>2. PICK c \in ChainWorkers : chainPc[c] = "requeue" /\ chainTask[c].order = o
        BY <2>4, <3>1, RequeueSteps
      <3>3. QED
        BY <2>1, <3>2 DEF ChainHolds
    <2>5. QED
      BY <2>3, <2>4
  <1>3. ASSUME ~Moved(o), Moved(o)'
        PROVE  /\ status'[o] \in {"sweep_processing", "settled_in_treasury",
                                  "refund_processing", "refunded"}
               /\ \A c \in ChainWorkers : ChainHolds(c, o)' => chainPc'[c] = "record"
    <2>1. accountOpen'[o] # accountOpen[o]
      BY <1>3, LedgerSteps DEF LedgerStep, Rests, Receives, Closes, Moved
    <2>2. PICK c \in ChainWorkers :
            /\ chainTask[c].order = o
            /\ \/ chainPc[c] = "close" /\ Teardown(o, ReclaimTx)
               \/ chainPc[c] = "send" /\ GoOn(c, "record") /\ UNCHANGED status
      BY <1>l, <2>1, CloseSteps DEF MovedIsRecorded
    <2>3. ~(chainPc[c] = "close" /\ Teardown(o, ReclaimTx))
      BY <1>3 DEF Teardown, ReclaimTx, Moved, TypeOK, LedgerTypeOK
    <2>4. ChainHolds(c, o) /\ chainPc'[c] = "record" /\ status'[o] = status[o]
      BY <2>2, <2>3 DEF ChainHolds, GoOn, TypeOK, ChainTypeOK
    <2>5. /\ status[o] \in {"sweep_processing", "refund_processing"}
          /\ \A e \in ChainWorkers : ChainHolds(e, o) => e = c
      BY <2>4 DEF Claims, ChainClaims, Processing
    <2>6. \A e \in ChainWorkers : ChainHolds(e, o)' => e = c
      BY <2>5, HolderSteps
    <2>7. QED
      BY <2>4, <2>5, <2>6
  <1>4. QED
    BY <1>1, <1>2, <1>3

\* An order that is flagged as failed still has its USDC in its own account, as long as no answer
\* is lost, with any number of crashes, top-ups and processes (retry: "The money is still in the
\* order's own account").
THEOREM FailedKeepsFundsUnlessLost == ASSUME MaxLosses = 0 PROVE Spec => []FailedKeepsFunds
  <1>1. Init => MovedIsRecorded
    BY DEF Init, LedgerInit, MovedIsRecorded, Moved
  <1>2. TypeOK /\ TypeOK' /\ Claims /\ LedgerInv /\ MovedIsRecorded /\ [Next]_vars => MovedIsRecorded'
    <2>1. MovedIsRecorded /\ UNCHANGED vars => MovedIsRecorded'
      BY DEF MovedIsRecorded, Moved, ChainHolds, vars, orderVars, ledgerVars, chainVars
    <2>2. QED
      BY <2>1, LosslessStep DEF LedgerInv
  <1>3. TypeOK /\ MovedIsRecorded => FailedKeepsFunds
    <2> SUFFICES ASSUME TypeOK, MovedIsRecorded, NEW o \in Orders, status[o] = "failed"
                 PROVE  treasury[o] = 0 /\ returned[o] = 0
      BY DEF FailedKeepsFunds
    <2>1. treasury[o] \in Nat /\ returned[o] \in Nat
      BY OrderAssumptions DEF TypeOK, LedgerTypeOK, Units
    <2>2. QED
      BY <2>1 DEF MovedIsRecorded, Moved
  <1>4. QED
    BY <1>1, <1>2, <1>3, LedgerCorrect, PTL DEF Spec

-----------------------------------------------------------------------------
(* The promise, without losses *)

\* What was submitted for order o, and what the Linq API made of it, agrees with o's state and
\* with its outcome.
SubmittedAsDecided(o) ==
    /\ delayed[o] => status[o] = "payout_processing" /\ \A p \in PayoutWorkers : ~PayoutHolds(p, o)
    /\ payout[o] = "queued" => status[o] \in {"payout_queued", "payout_processing"}
    /\ status[o] \in RefundLeg \/ financialOutcome[o] = "refunded" => payout[o] = "failed"
    /\ status[o] \in {"awaiting_deposit", "deposit_detected", "payout_queued"} => financialOutcome[o] = ""
    /\ financialOutcome[o] = "refunded" => status[o] \in RefundLeg \union {"failed"}

\* A worker only gives up on a payout that failed, and decides nothing before it is paid.
WorkedAsDecided(p, o) ==
    PayoutHolds(p, o) =>
        /\ payPc[p] # "ask"
        /\ payPc[p] \in {"retry", "requeue"} => payout[o] = "failed"
        /\ payPc[p] \notin {"disburse", "queueSweep"} => financialOutcome[o] = ""

PayoutAgrees ==
    \A o \in Orders : SubmittedAsDecided(o) /\ \A p \in PayoutWorkers : WorkedAsDecided(p, o)

\* USDC was sent to every order that was credited, or is about to be.
Funded ==
    /\ \A o \in Orders : status[o] \notin {"awaiting_deposit", "expired"} => Sent(o) > 0
    /\ \A d \in Detectors, o \in Orders : detPc[d] = "record" /\ detOrder[d] = o => Sent(o) > 0

\* Only what there is is credited.
LEMMA CreditSteps ==
    ASSUME TypeOK, Next
    PROVE  /\ \A o \in Orders : status'[o] = "deposit_detected" =>
                \/ status[o] = "deposit_detected"
                \/ \E d \in Detectors : detPc[d] = "record" /\ detOrder[d] = o
           /\ \A d \in Detectors : detPc'[d] = "record" =>
                \/ detPc[d] = "record" /\ detOrder'[d] = detOrder[d]
                \/ balance[detOrder'[d]] > 0
  <1> DEFINE Credit == \A o \in Orders : status'[o] = "deposit_detected" =>
                \/ status[o] = "deposit_detected"
                \/ \E d \in Detectors : detPc[d] = "record" /\ detOrder[d] = o
             Read == \A d \in Detectors : detPc'[d] = "record" =>
                \/ detPc[d] = "record" /\ detOrder'[d] = detOrder[d]
                \/ balance[detOrder'[d]] > 0
  <1>t. StoreTypeOK /\ DepositsTypeOK
    BY DEF TypeOK
  <1>u. ASSUME UNCHANGED <<detPc, detOrder>> PROVE Read
    BY <1>u
  <1>h. ASSUME NEW d \in Detectors, NEW pc \in {"idle", "expire"}, NEW o, NEW units, NEW from,
               Handle(d, pc, o, units, from)
        PROVE  Read
    BY <1>h, <1>t DEF Handle, DepositsTypeOK
  <1>r. ASSUME NEW d \in Detectors, NEW o \in Orders, NEW units, NEW from, balance[o] > 0,
               Handle(d, "record", o, units, from)
        PROVE  Read
    BY <1>r, <1>t DEF Handle, DepositsTypeOK
  <1>s. ASSUME UNCHANGED status PROVE Credit
    BY <1>s
  <1>m. ASSUME NEW o, NEW from, NEW to, to # "deposit_detected",
               ClaimStatus(o, from, to) \/ ReleaseStatus(o, from, to)
        PROVE  Credit
    BY <1>m, <1>t, MoveIsFrom
  <1>1. ASSUME NEW o \in Orders, DeadlinePasses(o) PROVE Credit /\ Read
    BY <1>1, <1>u, <1>s DEF DeadlinePasses, orderVars
  <1>2. ASSUME NEW d \in Scanners, ScannerQuery(d) \/ ScannerReadFails(d) PROVE Credit /\ Read
    BY <1>2, <1>u, <1>s DEF ScannerQuery, ScannerReadFails, orderVars
  <1>3. ASSUME NEW d \in Scanners, ScannerReads(d) PROVE Credit /\ Read
    <2>1. d \in Detectors /\ UNCHANGED status
      BY <1>3 DEF Detectors, ScannerReads, orderVars
    <2>2. PICK o \in Orders : \/ \E from : balance[o] > 0 /\ Handle(d, "record", o, balance[o], from)
                              \/ Handle(d, "expire", o, 0, FALSE)
      BY <1>3, <1>t, <2>1 DEF ScannerReads, DepositsTypeOK
    <2>3. Read
      BY <1>h, <1>r, <2>1, <2>2
    <2>4. QED
      BY <1>s, <2>1, <2>3
  <1>4. ASSUME NEW d \in Scanners, Expire(d) PROVE Credit /\ Read
    <2>1. d \in Detectors /\ Handle(d, "idle", NoOrder, 0, FALSE)
      BY <1>4 DEF Detectors, Expire, HandlerDone
    <2>2. Credit
      BY <1>4, <1>m, <1>s DEF Expire
    <2>3. QED
      BY <1>h, <2>1, <2>2
  <1>5. ASSUME NEW d \in Streams, StreamReads(d) PROVE Credit /\ Read
    <2>1. d \in Detectors /\ UNCHANGED status
      BY <1>5 DEF Detectors, StreamReads, orderVars
    <2>2. QED
      BY <1>5, <1>r, <1>s, <2>1 DEF StreamReads
  <1>6. ASSUME NEW d \in Detectors, Record(d) PROVE Credit /\ Read
    <2>1. Credit
      BY <1>6, <1>t DEF Record, SetStatus, StoreTypeOK
    <2>2. \/ Handle(d, "idle", NoOrder, 0, FALSE)
          \/ detPc' = [detPc EXCEPT ![d] = "queue"] /\ UNCHANGED detOrder
      BY <1>6 DEF Record, HandlerDone
    <2>3. Read
      BY <1>h, <1>t, <2>2 DEF DepositsTypeOK
    <2>4. QED
      BY <2>1, <2>3
  <1>7. ASSUME NEW d \in Detectors, QueuePayout(d) \/ EnqueueFails(d) PROVE Credit /\ Read
    <2>1. Handle(d, "idle", NoOrder, 0, FALSE)
      BY <1>7 DEF QueuePayout, EnqueueFails, HandlerDone
    <2>2. Credit
      BY <1>7, <1>m DEF QueuePayout, EnqueueFails
    <2>3. QED
      BY <1>h, <2>1, <2>2
  <1>8. ASSUME NEW d \in Detectors, DetectorCrash(d) PROVE Credit /\ Read
    <2>1. Handle(d, "idle", NoOrder, 0, FALSE) /\ UNCHANGED status
      BY <1>8 DEF DetectorCrash, HandlerDone, orderVars
    <2>2. QED
      BY <1>h, <1>s, <2>1
  <1>9. CASE DetectionRuns
    BY <1>9, <1>1, <1>2, <1>3, <1>4, <1>5, <1>6, <1>7, <1>8 DEF DetectionRuns
  <1>10. ASSUME PayoutRuns \/ ChainRuns PROVE Credit /\ Read
    <2>1. UNCHANGED detVars
      BY <1>10 DEF PayoutRuns, OnlyPayouts, ChainRuns, OnlyLedger, OnlyChain
    <2>2. ASSUME NEW o \in Orders, status'[o] # status[o] PROVE status'[o] # "deposit_detected"
      <3>1. PayoutMoves(o) \/ ChainMoves(o)
        BY <1>10, <2>2, MovesOfPayouts, MovesOfChain
      <3>2. QED
        BY <3>1 DEF PayoutMoves, ChainMoves, Moves, Queued, Processing, Finished
    <2>3. QED
      BY <1>u, <2>1, <2>2 DEF detVars
  <1>11. QED
    BY <1>9, <1>10 DEF Next

\* What was sent stays in the sum, wherever it goes.
LEMMA FundedStep == TypeOK /\ TypeOK' /\ Accounts /\ Funded /\ Next => Funded'
  <1> SUFFICES ASSUME TypeOK, TypeOK', Accounts, Funded, Next PROVE Funded'
    OBVIOUS
  <1>t. \A o \in Orders : /\ balance[o] \in Nat /\ treasury[o] \in Nat /\ returned[o] \in Nat
                          /\ Sent(o) \in Nat /\ Sent(o)' \in Nat /\ Sent(o) <= Sent(o)'
    BY OrderAssumptions, ClosedStays DEF TypeOK, LedgerTypeOK, Units, Sent
  <1>1. ASSUME NEW o \in Orders, Sent(o) > 0 PROVE Sent(o)' > 0
    BY <1>1, <1>t
  <1>2. ASSUME NEW o \in Orders, status'[o] \notin {"awaiting_deposit", "expired"} PROVE Sent(o)' > 0
    <2>1. CASE status'[o] = status[o]
      BY <1>1, <1>2, <2>1 DEF Funded
    <2>2. CASE status'[o] # status[o]
      <3>1. DetectorMoves(o) \/ PayoutMoves(o) \/ ChainMoves(o)
        BY <2>2, MovesOfNext
      <3>2. \/ status[o] \notin {"awaiting_deposit", "expired"}
            \/ \E d \in Detectors : detPc[d] = "record" /\ detOrder[d] = o
        <4>1. CASE status'[o] = "deposit_detected"
          BY <4>1, CreditSteps
        <4>2. CASE status'[o] # "deposit_detected"
          BY <1>2, <3>1, <4>2 DEF DetectorMoves, PayoutMoves, ChainMoves, Moves, Queued, Processing, Finished
        <4>3. QED
          BY <4>1, <4>2
      <3>3. QED
        BY <1>1, <3>2 DEF Funded
    <2>3. QED
      BY <2>1, <2>2
  <1>3. ASSUME NEW d \in Detectors, NEW o \in Orders, detPc'[d] = "record", detOrder'[d] = o
        PROVE  Sent(o)' > 0
    <2>1. (detPc[d] = "record" /\ detOrder[d] = o) \/ balance[o] > 0
      BY <1>3, CreditSteps
    <2>2. Sent(o) > 0
      <3>1. CASE balance[o] > 0
        BY <1>t, <3>1 DEF Sent
      <3>2. QED
        BY <2>1, <3>1 DEF Funded
    <2>3. QED
      BY <1>1, <2>2
  <1>4. QED
    BY <1>2, <1>3 DEF Funded

-----------------------------------------------------------------------------
\* The other loops claim an outcome only for a refund under way.
LEMMA OtherOutcomes ==
    ASSUME TypeOK, Claims, MoneyInv, DetectionRuns \/ ChainRuns, NEW o \in Orders
    PROVE  \/ financialOutcome'[o] = financialOutcome[o]
           \/ /\ status[o] = "refund_processing" /\ status'[o] = status[o]
              /\ financialOutcome[o] = "" /\ financialOutcome'[o] = "refunded"
  <1> DEFINE Goal == \/ financialOutcome'[o] = financialOutcome[o]
                     \/ /\ status[o] = "refund_processing" /\ status'[o] = status[o]
                        /\ financialOutcome[o] = "" /\ financialOutcome'[o] = "refunded"
  <1>t. StoreTypeOK /\ ChainTypeOK
    BY DEF TypeOK
  <1>1. CASE DetectionRuns
    BY <1>1 DEF DetectionRuns, DeadlinePasses, ScannerQuery, ScannerReads, ScannerReadFails,
            StreamReads, Record, QueuePayout, EnqueueFails, Expire, DetectorCrash, orderVars, dataColumns
  <1>2. ASSUME OnlyLedger PROVE Goal
    BY <1>2 DEF OnlyLedger, orderVars
  <1>3. ASSUME NEW c, \/ \E job \in Jobs : ChainQuery(c, job)
                      \/ SweepClaim(c) \/ RefundClaim(c) \/ SweepReads(c) \/ SweepReadFails(c)
                      \/ SweepLands(c) \/ SweepRejected(c) \/ SweepAnswerLost(c) \/ SweepTimesOut(c)
                      \/ SweepRecord(c) \/ SweepRetry(c) \/ SweepRequeue(c) \/ ReclaimProbe(c)
                      \/ ReclaimProbeFails(c) \/ ReclaimLands(c) \/ ReclaimRejected(c)
                      \/ ReclaimLost(c) \/ MarkReclaimed(c) \/ ChainCrash(c)
        PROVE  Goal
    BY <1>3 DEF ChainQuery, SweepClaim, RefundClaim, SweepReads, SweepReadFails, SweepLands,
            SweepRejected, SweepAnswerLost, SweepTimesOut, SweepRecord, SweepRetry, SweepRequeue,
            ReclaimProbe, ReclaimProbeFails, ReclaimLands, ReclaimRejected, ReclaimLost,
            MarkReclaimed, ChainCrash, orderVars, dataColumns
  <1>4. ASSUME NEW c \in ChainWorkers, RefundOutcome(c) PROVE Goal
    <2>1. chainPc[c] = "outcome" /\ chainTask[c].job = "refund" /\ ChainHolds(c, chainTask[c].order)
      BY <1>4 DEF RefundOutcome, MoneyInv, Decided, ChainDecided, ChainHolds
    <2>2. chainTask[c].order \in Orders
      BY <1>t, <2>1 DEF ChainTypeOK, Tasks
    <2>3. status[chainTask[c].order] = "refund_processing"
      BY <2>1, <2>2 DEF Claims, ChainClaims, Processing
    <2>4. /\ UNCHANGED status
          /\ \/ OutcomeOpen(chainTask[c].order) /\ SetOutcome(chainTask[c].order, "refunded")
             \/ UNCHANGED financialOutcome
      BY <1>4 DEF RefundOutcome
    <2>5. QED
      BY <1>t, <2>3, <2>4 DEF OutcomeOpen, SetOutcome, StoreTypeOK
  <1>5. CASE ChainRuns
    BY <1>5, <1>2, <1>3, <1>4 DEF ChainRuns
  <1>6. QED
    BY <1>1, <1>5

\* The other loops leave payouts as they are.
LEMMA AgreesOthers ==
    ASSUME TypeOK, Claims, MoneyInv, PayoutAgrees, DetectionRuns \/ ChainRuns
    PROVE  PayoutAgrees'
  <1>p. UNCHANGED <<payout, delayed, payPc, payRow>>
    <2>1. CASE DetectionRuns
      BY <2>1 DEF DetectionRuns, OnlyDetection, payVars
    <2>2. CASE ChainRuns
      BY <2>2 DEF ChainRuns, OnlyLedger, OnlyChain, payVars
    <2>3. QED
      BY <2>1, <2>2
  <1>s. ASSUME NEW o \in Orders PROVE status'[o] = status[o] \/ DetectorMoves(o) \/ ChainMoves(o)
    BY MovesOfDetection, MovesOfChain
  <1> SUFFICES ASSUME NEW o \in Orders
               PROVE  SubmittedAsDecided(o)' /\ \A p \in PayoutWorkers : WorkedAsDecided(p, o)'
    BY DEF PayoutAgrees
  <1>i. SubmittedAsDecided(o) /\ \A p \in PayoutWorkers : WorkedAsDecided(p, o)
    BY DEF PayoutAgrees
  <1>h. \A p \in PayoutWorkers : PayoutHolds(p, o)' <=> PayoutHolds(p, o)
    BY <1>p DEF PayoutHolds
  <1>o. \/ financialOutcome'[o] = financialOutcome[o]
        \/ /\ status[o] = "refund_processing" /\ status'[o] = status[o]
           /\ financialOutcome[o] = "" /\ financialOutcome'[o] = "refunded"
    BY OtherOutcomes
  <1>1. CASE status'[o] = status[o]
    <2>1. SubmittedAsDecided(o)'
      BY <1>p, <1>i, <1>h, <1>o, <1>1 DEF SubmittedAsDecided, RefundLeg
    <2>2. ASSUME NEW p \in PayoutWorkers, PayoutHolds(p, o) PROVE status[o] # "refund_processing"
      BY <2>2 DEF Claims, PayoutClaims
    <2>3. QED
      BY <1>p, <1>i, <1>h, <1>o, <2>1, <2>2 DEF WorkedAsDecided
  <1>2. CASE status'[o] # status[o]
    <2>1. financialOutcome'[o] = financialOutcome[o]
      BY <1>o, <1>2
    <2>2. \A p \in PayoutWorkers : WorkedAsDecided(p, o)'
      BY <1>p, <1>i, <1>h, <2>1 DEF WorkedAsDecided
    <2>3. CASE DetectorMoves(o)
      BY <1>p, <1>i, <1>h, <2>1, <2>2, <2>3 DEF SubmittedAsDecided, DetectorMoves, Moves, RefundLeg
    <2>4. CASE ChainMoves(o)
      <3>1. /\ status[o] \in {"sweep_queued", "sweep_processing", "refund_queued", "refund_processing"}
            /\ status'[o] \in SweepLeg \union RefundLeg \union {"failed"}
            /\ status[o] \in {"sweep_queued", "sweep_processing"} => status'[o] \notin RefundLeg
            /\ status[o] \in {"refund_queued", "refund_processing"} => status'[o] \notin SweepLeg
        BY <2>4 DEF ChainMoves, Moves, Queued, Processing, Finished, SweepLeg, RefundLeg
      <3>2. QED
        BY <1>p, <1>i, <1>h, <2>1, <2>2, <3>1 DEF SubmittedAsDecided, RefundLeg, SweepLeg
    <2>5. QED
      BY <1>2, <1>s, <2>3, <2>4
  <1>3. QED
    BY <1>1, <1>2

\* A step of the payout loop is about one order.
LEMMA OneOrderPays ==
    ASSUME PayoutAgrees, NEW r \in Orders,
           SubmittedAsDecided(r)' /\ \A p \in PayoutWorkers : WorkedAsDecided(p, r)',
           \A o \in Orders : o # r =>
                /\ status'[o] = status[o] /\ financialOutcome'[o] = financialOutcome[o]
                /\ payout'[o] = payout[o] /\ delayed'[o] = delayed[o],
           \A o \in Orders, p \in PayoutWorkers : o # r /\ PayoutHolds(p, o)' =>
                PayoutHolds(p, o) /\ payPc'[p] = payPc[p]
    PROVE  PayoutAgrees'
  <1> SUFFICES ASSUME NEW o \in Orders, o # r
               PROVE  SubmittedAsDecided(o)' /\ \A p \in PayoutWorkers : WorkedAsDecided(p, o)'
    BY DEF PayoutAgrees
  <1>1. SubmittedAsDecided(o) /\ \A p \in PayoutWorkers : WorkedAsDecided(p, o)
    BY DEF PayoutAgrees
  <1>2. SubmittedAsDecided(o)'
    BY <1>1 DEF SubmittedAsDecided
  <1>3. ASSUME NEW p \in PayoutWorkers PROVE WorkedAsDecided(p, o)'
    BY <1>1 DEF WorkedAsDecided
  <1>4. QED
    BY <1>2, <1>3

\* Where an answer leads: to the outcome when paid, to a retry when failed, back otherwise.
LEMMA ResultLeads ==
    ASSUME NEW s \in {"queued", "paid", "failed"}
    PROVE  \/ s = "paid" /\ AfterResult(s) = "outcome"
           \/ s = "failed" /\ AfterResult(s) = "retry"
           \/ s = "queued" /\ AfterResult(s) = "release"
  <1>1. CASE s = "paid"
    BY <1>1, Zenon DEF AfterResult
  <1>2. CASE s = "failed"
    <2>1. s # "paid"
      BY <1>2
    <2>2. QED
      BY <1>2, <2>1, Zenon DEF AfterResult
  <1>3. CASE s = "queued"
    <2>1. s # "paid" /\ s # "failed"
      BY <1>3
    <2>2. QED
      BY <1>3, <2>1, Zenon DEF AfterResult
  <1>4. QED
    BY <1>1, <1>2, <1>3

\* A payout worker, the bank and a late submission keep payouts, states and outcomes together.
LEMMA AgreesPayouts ==
    ASSUME MaxLosses = 0, TypeOK, Claims, MoneyInv, PayoutAgrees, PayoutRuns
    PROVE  PayoutAgrees'
  <1>l. ~Lose
    BY DEF TypeOK, FaultsTypeOK, Lose
  <1>t. StoreTypeOK /\ PayoutsTypeOK
    BY DEF TypeOK
  <1>i. \A o \in Orders : SubmittedAsDecided(o) /\ \A p \in PayoutWorkers : WorkedAsDecided(p, o)
    BY DEF PayoutAgrees
  <1>h. ASSUME NEW p \in PayoutWorkers, payPc[p] # "idle"
        PROVE  \E r \in Orders :
                  /\ payRow[p].order = r /\ PayoutHolds(p, r) /\ ~delayed[r]
                  /\ status[r] = IF payPc[p] = "queueSweep" THEN "disbursed" ELSE "payout_processing"
                  /\ \A q \in PayoutWorkers : PayoutHolds(q, r) => q = p
                  /\ SubmittedAsDecided(r) /\ WorkedAsDecided(p, r)
    <2>1. payRow[p].order \in Orders
      BY <1>h, <1>t DEF PayoutsTypeOK, Rows
    <2>2. PICK r \in Orders : payRow[p].order = r
      BY <2>1
    <2>3. PayoutHolds(p, r)
      BY <1>h, <2>2 DEF PayoutHolds
    <2>4. /\ status[r] = IF payPc[p] = "queueSweep" THEN "disbursed" ELSE "payout_processing"
          /\ \A q \in PayoutWorkers : PayoutHolds(q, r) => q = p
      BY <2>3 DEF Claims, PayoutClaims
    <2>5. SubmittedAsDecided(r) /\ WorkedAsDecided(p, r)
      BY <1>i
    <2>6. ~delayed[r]
      BY <2>3, <2>5 DEF SubmittedAsDecided
    <2>7. QED
      BY <2>2, <2>3, <2>4, <2>5, <2>6
\* Worker p goes on with its order r, or drops it; nothing happens to the other orders.
  <1> DEFINE Only(r) == \A o \in Orders : o # r =>
                /\ status'[o] = status[o] /\ financialOutcome'[o] = financialOutcome[o]
                /\ payout'[o] = payout[o] /\ delayed'[o] = delayed[o]
             Goes(p, pc) ==
                /\ payPc' = [payPc EXCEPT ![p] = pc]
                /\ payRow' = payRow \/ (pc = "idle" /\ payRow' = [payRow EXCEPT ![p] = NoRow])
  <1>g. ASSUME NEW p \in PayoutWorkers, NEW r \in Orders, NEW pc,
               payPc[p] # "idle", payRow[p].order = r,
               \A q \in PayoutWorkers : PayoutHolds(q, r) => q = p,
               Goes(p, pc), Only(r), SubmittedAsDecided(r)',
               pc # "ask", pc \in {"retry", "requeue"} => payout'[r] = "failed",
               pc \notin {"idle", "disburse", "queueSweep"} => financialOutcome'[r] = ""
        PROVE  PayoutAgrees'
    <2>1. ASSUME NEW q \in PayoutWorkers, NEW o \in Orders, PayoutHolds(q, o)'
          PROVE  \/ q = p /\ o = r /\ pc # "idle"
                 \/ q # p /\ PayoutHolds(q, o) /\ payPc'[q] = payPc[q]
      BY <1>g, <1>t, <2>1 DEF PayoutHolds, PayoutsTypeOK
    <2>2. payPc'[p] = pc
      BY <1>g, <1>t DEF PayoutsTypeOK
    <2>3. ASSUME NEW q \in PayoutWorkers PROVE WorkedAsDecided(q, r)'
      BY <1>g, <2>1, <2>2 DEF WorkedAsDecided
    <2>4. \A o \in Orders, q \in PayoutWorkers : o # r /\ PayoutHolds(q, o)' =>
                PayoutHolds(q, o) /\ payPc'[q] = payPc[q]
      BY <2>1
    <2>5. QED
      BY <1>g, <2>3, <2>4, OneOrderPays
\* Nobody takes up or drops an order.
  <1>u. ASSUME NEW r \in Orders, UNCHANGED <<payPc, payRow>>, Only(r), SubmittedAsDecided(r)',
               payout'[r] # "failed" => payout[r] # "failed", financialOutcome'[r] = financialOutcome[r]
        PROVE  PayoutAgrees'
    <2>1. \A o \in Orders, q \in PayoutWorkers : PayoutHolds(q, o)' => PayoutHolds(q, o) /\ payPc'[q] = payPc[q]
      BY <1>u DEF PayoutHolds
    <2>2. ASSUME NEW q \in PayoutWorkers PROVE WorkedAsDecided(q, r)'
      BY <1>i, <1>u, <2>1 DEF WorkedAsDecided
    <2>3. QED
      BY <1>u, <2>1, <2>2, OneOrderPays
  <1>k. ASSUME UNCHANGED <<payPc, payRow, payout, delayed, status, financialOutcome>> PROVE PayoutAgrees'
    BY <1>i, <1>k DEF PayoutAgrees, SubmittedAsDecided, WorkedAsDecided, PayoutHolds
  <1>1. ASSUME NEW o \in Orders, BankDecides(o) PROVE PayoutAgrees'
    <2>1. PICK s \in {"paid", "failed"} : SetPayout(o, s)
      BY <1>1 DEF BankDecides
    <2>2. /\ payout'[o] \in {"paid", "failed"} /\ payout[o] = "queued" /\ Only(o)
          /\ UNCHANGED <<payPc, payRow, delayed, status, financialOutcome>>
      BY <1>1, <1>t, <2>1 DEF BankDecides, SetPayout, PayoutsTypeOK, orderVars
    <2>3. SubmittedAsDecided(o)'
      BY <1>i, <2>2 DEF SubmittedAsDecided, PayoutHolds
    <2>4. QED
      BY <1>u, <2>2, <2>3
  <1>2. ASSUME NEW o \in Orders, DelayedArrives(o) PROVE PayoutAgrees'
    <2>1. PICK s \in {"queued", "paid", "failed"} : SetPayout(o, s)
      BY <1>2 DEF DelayedArrives
    <2>2. /\ payout'[o] = s /\ delayed[o] /\ ~delayed'[o] /\ Only(o)
          /\ UNCHANGED <<payPc, payRow, status, financialOutcome>>
      BY <1>2, <1>t, <2>1 DEF DelayedArrives, SetPayout, PayoutsTypeOK, orderVars
    <2>3. status[o] = "payout_processing" /\ \A p \in PayoutWorkers : ~PayoutHolds(p, o)
      BY <1>i, <2>2 DEF SubmittedAsDecided
    <2>4. SubmittedAsDecided(o)'
      BY <1>i, <2>2, <2>3 DEF SubmittedAsDecided, RefundLeg
    <2>5. ASSUME NEW p \in PayoutWorkers PROVE WorkedAsDecided(p, o)'
      BY <2>2, <2>3 DEF WorkedAsDecided, PayoutHolds
    <2>6. \A q \in Orders, p \in PayoutWorkers : PayoutHolds(p, q)' => PayoutHolds(p, q) /\ payPc'[p] = payPc[p]
      BY <2>2 DEF PayoutHolds
    <2>7. QED
      BY <2>2, <2>4, <2>5, <2>6, OneOrderPays
  <1>3. ASSUME NEW p \in PayoutWorkers, PayQuery(p) PROVE PayoutAgrees'
    BY <1>3, <1>k DEF PayQuery, providerVars, orderVars
  <1>4. ASSUME NEW p \in PayoutWorkers, PayClaim(p) PROVE PayoutAgrees'
    <2>1. PICK row \in payBatch[p] :
             /\ ClaimStatus(row.order, "payout_queued", "payout_processing")
             /\ IF Wins(row.order, "payout_queued", "payout_processing")
                THEN /\ payPc' = [payPc EXCEPT ![p] = "submit"]
                     /\ payRow' = [payRow EXCEPT ![p] = row]
                ELSE UNCHANGED <<payPc, payRow>>
      BY <1>4 DEF PayClaim
    <2>2. row.order \in Orders /\ payPc[p] = "idle" /\ UNCHANGED <<financialOutcome, payout, delayed>>
      BY <1>4, <1>t DEF PayClaim, PayoutsTypeOK, Rows, dataColumns, providerVars
    <2>3. CASE ~Wins(row.order, "payout_queued", "payout_processing")
      BY <1>k, <2>1, <2>2, <2>3 DEF ClaimStatus
    <2>4. CASE Wins(row.order, "payout_queued", "payout_processing")
      <3>1. PICK r \in Orders : r = row.order
        BY <2>2
      <3>2. /\ status[r] = "payout_queued" /\ status'[r] = "payout_processing" /\ Only(r)
            /\ payPc'[p] = "submit"
        BY <1>t, <2>1, <2>2, <2>4, <3>1 DEF Wins, ClaimStatus, SetStatus, StoreTypeOK, PayoutsTypeOK
      <3>3. ~delayed[r] /\ financialOutcome[r] = ""
        BY <1>i, <3>2 DEF SubmittedAsDecided
      <3>4. \A q \in PayoutWorkers : ~PayoutHolds(q, r)
        BY <3>2 DEF Claims, PayoutClaims
      <3>5. \A o \in Orders, q \in PayoutWorkers : PayoutHolds(q, o)' =>
                \/ q = p /\ o = r
                \/ q # p /\ PayoutHolds(q, o) /\ payPc'[q] = payPc[q]
        BY <1>t, <2>1, <2>4, <3>1 DEF PayoutHolds, PayoutsTypeOK
      <3>6. SubmittedAsDecided(r)'
        BY <2>2, <3>2, <3>3 DEF SubmittedAsDecided, RefundLeg
      <3>7. ASSUME NEW q \in PayoutWorkers PROVE WorkedAsDecided(q, r)'
        BY <2>2, <3>2, <3>3, <3>4, <3>5 DEF WorkedAsDecided
      <3>8. QED
        BY <3>2, <3>5, <3>6, <3>7, OneOrderPays
    <2>5. QED
      BY <2>3, <2>4
  <1>5. ASSUME NEW p \in PayoutWorkers, PaySubmit(p) PROVE PayoutAgrees'
    <2>0. payPc[p] = "submit"
      BY <1>5 DEF PaySubmit
    <2>1. PICK r \in Orders :
                  /\ payRow[p].order = r /\ PayoutHolds(p, r) /\ ~delayed[r]
                  /\ status[r] = "payout_processing"
                  /\ \A q \in PayoutWorkers : PayoutHolds(q, r) => q = p
                  /\ SubmittedAsDecided(r) /\ WorkedAsDecided(p, r)
      BY <1>h, <2>0
    <2>2. PICK s \in {"queued", "paid", "failed"} : SetPayout(r, s) /\ Goto(p, AfterResult(s))
      BY <1>5, <2>1 DEF PaySubmit
    <2>3. /\ payout'[r] = s /\ Only(r) /\ Goes(p, AfterResult(s))
          /\ UNCHANGED <<delayed, status, financialOutcome>>
      BY <1>5, <1>t, <2>1, <2>2 DEF PaySubmit, SetPayout, Goto, PayoutsTypeOK, orderVars
    <2>4. financialOutcome[r] = ""
      BY <2>0, <2>1 DEF WorkedAsDecided
    <2>5. SubmittedAsDecided(r)'
      BY <2>1, <2>3, <2>4 DEF SubmittedAsDecided, RefundLeg
    <2>6. /\ AfterResult(s) # "ask"
          /\ AfterResult(s) \in {"retry", "requeue"} => s = "failed"
      BY ResultLeads
    <2>7. QED
      BY <1>g, <2>0, <2>1, <2>3, <2>4, <2>5, <2>6
  <1>6. ASSUME NEW p \in PayoutWorkers, PayAnswerLost(p) \/ PayRequestLost(p) \/ PayAskLost(p) PROVE FALSE
    BY <1>l, <1>6 DEF PayAnswerLost, PayRequestLost, PayAskLost
  <1>7. ASSUME NEW p \in PayoutWorkers, PayAsk(p) PROVE FALSE
    <2>1. payPc[p] = "ask"
      BY <1>7 DEF PayAsk
    <2>2. QED
      BY <1>h, <2>1 DEF WorkedAsDecided
\* A handler hands its order back, or on.
  <1>m. ASSUME NEW p \in PayoutWorkers, payPc[p] \in {"release", "requeue", "queueSweep"}, PayDone(p),
               NEW to, UNCHANGED <<financialOutcome, payout, delayed>>,
               \/ to = "payout_queued" /\ payPc[p] \in {"release", "requeue"}
               \/ to = "refund_queued" /\ payPc[p] = "requeue"
               \/ to = "sweep_queued" /\ payPc[p] = "queueSweep",
               \E from : \/ ClaimStatus(payRow[p].order, from, to)
                         \/ ReleaseStatus(payRow[p].order, from, to)
        PROVE  PayoutAgrees'
    <2>1. PICK r \in Orders :
                  /\ payRow[p].order = r /\ PayoutHolds(p, r) /\ ~delayed[r]
                  /\ status[r] = IF payPc[p] = "queueSweep" THEN "disbursed" ELSE "payout_processing"
                  /\ \A q \in PayoutWorkers : PayoutHolds(q, r) => q = p
                  /\ SubmittedAsDecided(r) /\ WorkedAsDecided(p, r)
      BY <1>h, <1>m
    <2>2. \A o \in Orders : status'[o] = status[o] \/ (o = r /\ status'[o] = to)
      BY <1>m, <1>t, <2>1, MoveIsFrom
    <2>3. Only(r) /\ Goes(p, "idle")
      BY <1>m, <2>2 DEF PayDone
    <2>4. SubmittedAsDecided(r)'
      <3>1. CASE payPc[p] = "queueSweep"
        BY <1>m, <2>1, <2>2, <3>1 DEF SubmittedAsDecided, RefundLeg
      <3>2. CASE payPc[p] # "queueSweep"
        <4>1. financialOutcome[r] = "" /\ (payPc[p] = "requeue" => payout[r] = "failed")
          BY <1>m, <2>1, <3>2 DEF WorkedAsDecided
        <4>2. QED
          BY <1>m, <2>1, <2>2, <3>2, <4>1 DEF SubmittedAsDecided, RefundLeg
      <3>3. QED
        BY <3>1, <3>2
    <2>5. QED
      BY <1>g, <1>m, <2>1, <2>3, <2>4
  <1>8. ASSUME NEW p \in PayoutWorkers, PayRelease(p) PROVE PayoutAgrees'
    BY <1>8, <1>m DEF PayRelease, dataColumns, providerVars
  <1>9. ASSUME NEW p \in PayoutWorkers, PayQueueSweep(p) PROVE PayoutAgrees'
    BY <1>9, <1>m DEF PayQueueSweep, dataColumns, providerVars
  <1>10. ASSUME NEW p \in PayoutWorkers, PayRequeue(p) PROVE PayoutAgrees'
    BY <1>10, <1>m DEF PayRequeue, dataColumns, providerVars
  <1>11. ASSUME NEW p \in PayoutWorkers, PayOutcome(p) PROVE PayoutAgrees'
    <2>0. payPc[p] = "outcome"
      BY <1>11 DEF PayOutcome
    <2>1. PICK r \in Orders :
                  /\ payRow[p].order = r /\ PayoutHolds(p, r) /\ ~delayed[r]
                  /\ status[r] = "payout_processing"
                  /\ \A q \in PayoutWorkers : PayoutHolds(q, r) => q = p
                  /\ SubmittedAsDecided(r) /\ WorkedAsDecided(p, r)
      BY <1>h, <2>0
    <2>2. UNCHANGED <<status, payout, delayed>>
      BY <1>11 DEF PayOutcome, providerVars
    <2>3. financialOutcome[r] = ""
      BY <2>0, <2>1 DEF WorkedAsDecided
    <2>4. financialOutcome'[r] = "disbursed" /\ Only(r) /\ Goes(p, "disburse")
      BY <1>11, <1>t, <2>1, <2>2, <2>3 DEF PayOutcome, OutcomeOpen, SetOutcome, Goto, StoreTypeOK
    <2>5. SubmittedAsDecided(r)'
      BY <2>1, <2>2, <2>4 DEF SubmittedAsDecided, RefundLeg
    <2>6. QED
      BY <1>g, <2>0, <2>1, <2>4, <2>5
  <1>12. ASSUME NEW p \in PayoutWorkers, PayDisburse(p) PROVE PayoutAgrees'
    <2>0. payPc[p] = "disburse"
      BY <1>12 DEF PayDisburse
    <2>1. PICK r \in Orders :
                  /\ payRow[p].order = r /\ PayoutHolds(p, r) /\ ~delayed[r]
                  /\ status[r] = "payout_processing"
                  /\ \A q \in PayoutWorkers : PayoutHolds(q, r) => q = p
                  /\ SubmittedAsDecided(r) /\ WorkedAsDecided(p, r)
      BY <1>h, <2>0
    <2>2. UNCHANGED <<financialOutcome, payout, delayed>>
      BY <1>12 DEF PayDisburse, dataColumns, providerVars
    <2>3. financialOutcome[r] = "disbursed" /\ payout[r] = "paid"
      BY <2>0, <2>1 DEF MoneyInv, Decided, PayoutsDecided, PaidIfDisbursed
    <2>4. \A o \in Orders : status'[o] = status[o] \/ (o = r /\ status'[o] = "disbursed")
      BY <1>12, <1>t, <2>1, MoveIsFrom DEF PayDisburse
    <2>5. Only(r) /\ Goes(p, "queueSweep")
      BY <1>12, <2>2, <2>4 DEF PayDisburse, Goto
    <2>6. SubmittedAsDecided(r)'
      BY <2>1, <2>2, <2>3, <2>4 DEF SubmittedAsDecided, RefundLeg
    <2>7. QED
      BY <1>g, <2>0, <2>1, <2>5, <2>6
  <1>13. ASSUME NEW p \in PayoutWorkers, PayRetry(p) PROVE PayoutAgrees'
    <2>0. payPc[p] = "retry"
      BY <1>13 DEF PayRetry
    <2>1. PICK r \in Orders :
                  /\ payRow[p].order = r /\ PayoutHolds(p, r) /\ ~delayed[r]
                  /\ status[r] = "payout_processing"
                  /\ \A q \in PayoutWorkers : PayoutHolds(q, r) => q = p
                  /\ SubmittedAsDecided(r) /\ WorkedAsDecided(p, r)
      BY <1>h, <2>0
    <2>2. UNCHANGED <<status, financialOutcome, payout, delayed>> /\ Only(r) /\ Goes(p, "requeue")
      BY <1>13 DEF PayRetry, Goto, providerVars
    <2>3. financialOutcome[r] = "" /\ payout[r] = "failed"
      BY <2>0, <2>1 DEF WorkedAsDecided
    <2>4. SubmittedAsDecided(r)'
      BY <2>1, <2>2, <2>3 DEF SubmittedAsDecided
    <2>5. QED
      BY <1>g, <2>0, <2>1, <2>2, <2>3, <2>4
  <1>14. ASSUME NEW p \in PayoutWorkers, PayCrash(p) PROVE PayoutAgrees'
    <2>0. payPc[p] # "idle"
      BY <1>14 DEF PayCrash
    <2>1. PICK r \in Orders :
                  /\ payRow[p].order = r /\ PayoutHolds(p, r) /\ ~delayed[r]
                  /\ status[r] = IF payPc[p] = "queueSweep" THEN "disbursed" ELSE "payout_processing"
                  /\ \A q \in PayoutWorkers : PayoutHolds(q, r) => q = p
                  /\ SubmittedAsDecided(r) /\ WorkedAsDecided(p, r)
      BY <1>h, <2>0
    <2>2. UNCHANGED <<status, financialOutcome, payout>> /\ PayDone(p)
      BY <1>14 DEF PayCrash, orderVars
    <2>3. /\ \A o \in Orders : o # r => delayed'[o] = delayed[o]
          /\ payPc[p] # "submit" => delayed'[r] = delayed[r]
      BY <1>14, <1>t, <2>1 DEF PayCrash, PayoutsTypeOK
    <2>4. \A q \in PayoutWorkers : ~PayoutHolds(q, r)'
      <3>1. \A q \in PayoutWorkers : payPc'[q] # "idle" => q # p /\ payPc[q] # "idle" /\ payRow'[q] = payRow[q]
        BY <1>t, <2>2 DEF PayDone, PayoutsTypeOK
      <3>2. QED
        BY <2>1, <3>1 DEF PayoutHolds
    <2>5. SubmittedAsDecided(r)'
      BY <2>1, <2>2, <2>3, <2>4 DEF SubmittedAsDecided
    <2>6. Only(r) /\ Goes(p, "idle")
      BY <2>2, <2>3 DEF PayDone
    <2>7. QED
      BY <1>g, <2>0, <2>1, <2>5, <2>6
  <1>15. QED
    BY <1>1, <1>2, <1>3, <1>4, <1>5, <1>6, <1>7, <1>8, <1>9, <1>10, <1>11, <1>12, <1>13, <1>14
       DEF PayoutRuns

-----------------------------------------------------------------------------
(* The steps of OrderPromise *)

\* Where USDC is, as numbers say it.
LEMMA Places ==
    ASSUME TypeOK, NEW o \in Orders
    PROVE  /\ treasury[o] > 0 => Place(o) = "treasury"
           /\ treasury[o] = 0 /\ returned[o] > 0 => Place(o) = "payer"
           /\ treasury[o] = 0 /\ returned[o] = 0 /\ balance[o] > 0 => Place(o) = "held"
           /\ treasury[o] = 0 /\ returned[o] = 0 /\ balance[o] = 0 => Place(o) = "none"
  <1>1. balance[o] \in Nat /\ treasury[o] \in Nat /\ returned[o] \in Nat
    BY OrderAssumptions DEF TypeOK, LedgerTypeOK, Units
  <1>2. QED
    BY <1>1 DEF Place

\* USDC that was credited and has not moved is held.
LEMMA CreditedIsHeld ==
    ASSUME TypeOK, Funded, NEW o \in Orders, ~Moved(o), status[o] \notin {"awaiting_deposit", "expired"}
    PROVE  Place(o) = "held"
  <1>1. balance[o] \in Nat /\ treasury[o] \in Nat /\ returned[o] \in Nat
    BY OrderAssumptions DEF TypeOK, LedgerTypeOK, Units
  <1>2. treasury[o] = 0 /\ returned[o] = 0
    BY <1>1 DEF Moved
  <1>3. balance[o] + treasury[o] + returned[o] > 0
    BY DEF Funded, Sent
  <1>4. QED
    BY <1>1, <1>2, <1>3, Places

\* Equal outcomes are one function.
LEMMA SameOutcomes ==
    ASSUME TypeOK, TypeOK', \A o \in Orders : financialOutcome'[o] = financialOutcome[o]
    PROVE  UNCHANGED financialOutcome
  <1>1. financialOutcome \in [Orders -> Outcomes] /\ financialOutcome' \in [Orders -> Outcomes]
    BY DEF TypeOK, StoreTypeOK
  <1>2. QED
    BY <1>1

\* A step that shows nothing of order o.
Unseen(o) ==
    /\ Place(o)' = Place(o) /\ financialOutcome'[o] = financialOutcome[o]
    /\ payout'[o] = "paid" <=> payout[o] = "paid"

\* A step of the promise about one order.
LEMMA OneOrderPromised ==
    ASSUME TypeOK, TypeOK', NEW r \in Orders, \A o \in Orders : o # r => Unseen(o),
           \/ /\ Place(r) = "none" /\ Place(r)' = "held"
              /\ financialOutcome'[r] = financialOutcome[r] /\ payout'[r] = payout[r]
           \/ /\ Place(r) = "held" /\ Place(r)' = "held" /\ payout[r] # "paid" /\ payout'[r] = "paid"
              /\ financialOutcome[r] = "" /\ financialOutcome'[r] = ""
           \/ /\ Place(r) = "held" /\ Place(r)' = "held" /\ payout'[r] = payout[r]
              /\ financialOutcome[r] = ""
              /\ \/ financialOutcome'[r] = "disbursed" /\ payout[r] = "paid"
                 \/ financialOutcome'[r] = "refunded" /\ payout[r] # "paid"
           \/ /\ Place(r) = "held" /\ payout'[r] = payout[r] /\ financialOutcome'[r] = financialOutcome[r]
              /\ \/ Place(r)' = "treasury" /\ financialOutcome[r] = "disbursed"
                 \/ Place(r)' = "payer" /\ financialOutcome[r] = "refunded"
    PROVE  Promise!Next
  <1> DEFINE funds == [o \in Orders |-> Place(o)]
             paid == [o \in Orders |-> payout[o] = "paid"]
  <1>1. /\ financialOutcome \in [Orders -> Outcomes] /\ financialOutcome' \in [Orders -> Outcomes]
    BY DEF TypeOK, StoreTypeOK
  <1>f. ASSUME NEW place, Place(r)' = place PROVE funds' = [funds EXCEPT ![r] = place]
    BY <1>f DEF Unseen
  <1>g. ASSUME Place(r)' = Place(r) PROVE UNCHANGED funds
    BY <1>g DEF Unseen
  <1>p. ASSUME payout'[r] = "paid" PROVE paid' = [paid EXCEPT ![r] = TRUE]
    BY <1>p DEF Unseen
  <1>q. ASSUME payout'[r] = payout[r] PROVE UNCHANGED paid
    <2>1. \A o \in Orders : payout'[o] = "paid" <=> payout[o] = "paid"
      BY <1>q DEF Unseen
    <2>2. QED
      BY <2>1
  <1>d. ASSUME NEW d, financialOutcome'[r] = d
        PROVE  financialOutcome' = [financialOutcome EXCEPT ![r] = d]
    BY <1>1, <1>d DEF Unseen
  <1>e. ASSUME financialOutcome'[r] = financialOutcome[r] PROVE UNCHANGED financialOutcome
    <2>1. \A o \in Orders : financialOutcome'[o] = financialOutcome[o]
      BY <1>e DEF Unseen
    <2>2. QED
      BY <2>1, SameOutcomes
  <1>n. funds[r] = Place(r) /\ (paid[r] <=> payout[r] = "paid")
    OBVIOUS
  <1>2. CASE /\ Place(r) = "none" /\ Place(r)' = "held"
             /\ financialOutcome'[r] = financialOutcome[r] /\ payout'[r] = payout[r]
    <2>1. Promise!Arrive(r)
      BY <1>2, <1>f, <1>q, <1>e, <1>n DEF Promise!Arrive, Promise!MoveFunds
    <2>2. QED
      BY <2>1 DEF Promise!Next
  <1>3. CASE /\ Place(r) = "held" /\ Place(r)' = "held" /\ payout[r] # "paid" /\ payout'[r] = "paid"
             /\ financialOutcome[r] = "" /\ financialOutcome'[r] = ""
    <2>1. Promise!PayMerchant(r)
      BY <1>3, <1>g, <1>p, <1>e, <1>n DEF Promise!PayMerchant, Promise!Undecided
    <2>2. QED
      BY <2>1 DEF Promise!Next
  <1>4. CASE /\ Place(r) = "held" /\ Place(r)' = "held" /\ payout'[r] = payout[r]
             /\ financialOutcome[r] = ""
             /\ \/ financialOutcome'[r] = "disbursed" /\ payout[r] = "paid"
                \/ financialOutcome'[r] = "refunded" /\ payout[r] # "paid"
    <2>1. Promise!DecideDisbursed(r) \/ Promise!DecideRefunded(r)
      BY <1>4, <1>g, <1>q, <1>d, <1>n
         DEF Promise!DecideDisbursed, Promise!DecideRefunded, Promise!Decide, Promise!Undecided
    <2>2. QED
      BY <2>1 DEF Promise!Next
  <1>5. CASE /\ Place(r) = "held" /\ payout'[r] = payout[r] /\ financialOutcome'[r] = financialOutcome[r]
             /\ \/ Place(r)' = "treasury" /\ financialOutcome[r] = "disbursed"
                \/ Place(r)' = "payer" /\ financialOutcome[r] = "refunded"
    <2>1. Promise!Collect(r) \/ Promise!GiveBack(r)
      BY <1>5, <1>f, <1>q, <1>e, <1>n DEF Promise!Collect, Promise!GiveBack, Promise!MoveFunds
    <2>2. QED
      BY <2>1 DEF Promise!Next
  <1>6. QED
    BY <1>2, <1>3, <1>4, <1>5

\* A step that shows nothing of any order.
LEMMA NothingSeen ==
    ASSUME TypeOK, TypeOK', \A o \in Orders : Unseen(o)
    PROVE  UNCHANGED Promise!promiseVars
  <1>2. UNCHANGED financialOutcome
    BY SameOutcomes DEF Unseen
  <1>3. UNCHANGED [o \in Orders |-> Place(o)]
    BY DEF Unseen
  <1>4. UNCHANGED [o \in Orders |-> payout[o] = "paid"]
    BY DEF Unseen
  <1>5. QED
    BY <1>2, <1>3, <1>4 DEF Promise!promiseVars

\* The invariant under which every step is a step of the promise, or none.
LosslessInv == MovedIsRecorded /\ Funded /\ PayoutAgrees

\* Where nothing moves on the ledger nothing moves in the promise.
LEMMA SamePlaces ==
    ASSUME UNCHANGED <<balance, treasury, returned>>, NEW o \in Orders
    PROVE  Place(o)' = Place(o)
  BY DEF Place

\* Detection moves no money and decides nothing.
LEMMA DetectionUnseen ==
    ASSUME DetectionRuns, NEW o \in Orders PROVE Unseen(o)
  <1>1. UNCHANGED <<balance, treasury, returned, financialOutcome, payout>>
    BY DEF DetectionRuns, DeadlinePasses, ScannerQuery, ScannerReads, ScannerReadFails,
           StreamReads, Record, QueuePayout, EnqueueFails, Expire, DetectorCrash, OnlyDetection,
           orderVars, dataColumns, ledgerVars, payVars
  <1>2. QED
    BY <1>1, SamePlaces DEF Unseen

\* A payout that starts or ends is a merchant paid or nothing, a claimed outcome is a decision.
LEMMA PayoutsPromised ==
    ASSUME MaxLosses = 0, TypeOK, TypeOK', Claims, MoneyInv, LosslessInv, PayoutRuns
    PROVE  Promise!Next \/ UNCHANGED Promise!promiseVars
  <1>l. ~Lose
    BY DEF TypeOK, FaultsTypeOK, Lose
  <1>t. StoreTypeOK /\ PayoutsTypeOK
    BY DEF TypeOK
  <1>i. \A o \in Orders : SubmittedAsDecided(o) /\ \A p \in PayoutWorkers : WorkedAsDecided(p, o)
    BY DEF LosslessInv, PayoutAgrees
  <1>p. \A o \in Orders : Place(o)' = Place(o)
    <2>1. UNCHANGED <<balance, treasury, returned>>
      BY DEF PayoutRuns, OnlyPayouts, ledgerVars
    <2>2. QED
      BY <2>1, SamePlaces
\* The payer's USDC is held while his order's payout is queued or worked on.
  <1>h. ASSUME NEW o \in Orders, status[o] \in {"payout_queued", "payout_processing"}
        PROVE  Place(o) = "held" /\ Place(o)' = "held"
    <2>1. ~Moved(o)
      BY <1>h DEF LosslessInv, MovedIsRecorded
    <2>2. Place(o) = "held"
      BY <1>h, <2>1, CreditedIsHeld DEF LosslessInv
    <2>3. QED
      BY <1>p, <2>2
  <1>u. ASSUME UNCHANGED <<payout, financialOutcome>> PROVE UNCHANGED Promise!promiseVars
    BY <1>p, <1>u, NothingSeen DEF Unseen
\* The Linq API makes s of the payout of an undecided order.
  <1>s. ASSUME NEW o \in Orders, NEW s, SetPayout(o, s), UNCHANGED financialOutcome,
               payout[o] = "paid" => s = "paid",
               status[o] \in {"payout_queued", "payout_processing"},
               payout[o] = "paid" \/ financialOutcome[o] = ""
        PROVE  Promise!Next \/ UNCHANGED Promise!promiseVars
    <2>1. payout'[o] = s /\ \A q \in Orders : q # o => payout'[q] = payout[q]
      BY <1>s, <1>t DEF SetPayout, PayoutsTypeOK
    <2>2. \A q \in Orders : q # o => Unseen(q)
      BY <1>p, <1>s, <2>1 DEF Unseen
    <2>3. CASE s = "paid" /\ payout[o] # "paid"
      BY <1>h, <1>s, <2>1, <2>2, <2>3, OneOrderPromised
    <2>4. CASE s # "paid" \/ payout[o] = "paid"
      <3>1. Unseen(o)
        BY <1>p, <1>s, <2>1, <2>4 DEF Unseen
      <3>2. QED
        BY <2>2, <3>1, NothingSeen
    <2>5. QED
      BY <2>3, <2>4
  <1>1. ASSUME NEW o \in Orders, BankDecides(o)
        PROVE  Promise!Next \/ UNCHANGED Promise!promiseVars
    <2>1. PICK s : SetPayout(o, s)
      BY <1>1 DEF BankDecides
    <2>2. payout[o] = "queued" /\ UNCHANGED financialOutcome
      BY <1>1 DEF BankDecides, orderVars
    <2>3. status[o] \in {"payout_queued", "payout_processing"} /\ financialOutcome[o] # "refunded"
      BY <1>i, <2>2 DEF SubmittedAsDecided
    <2>4. financialOutcome[o] = ""
      BY <1>t, <2>2, <2>3 DEF StoreTypeOK, Outcomes, MoneyInv, Decided, PaidIfDisbursed
    <2>5. QED
      BY <1>s, <2>1, <2>2, <2>3, <2>4
  <1>2. ASSUME NEW o \in Orders, DelayedArrives(o)
        PROVE  Promise!Next \/ UNCHANGED Promise!promiseVars
    <2>1. PICK s \in {"queued", "paid", "failed"} : Accepts(o, s) /\ SetPayout(o, s)
      BY <1>2 DEF DelayedArrives
    <2>2. delayed[o] /\ UNCHANGED financialOutcome
      BY <1>2 DEF DelayedArrives, orderVars
    <2>3. status[o] = "payout_processing" /\ financialOutcome[o] # "refunded"
      BY <1>i, <2>2 DEF SubmittedAsDecided, RefundLeg
    <2>4. payout[o] = "paid" \/ financialOutcome[o] = ""
      BY <1>t, <2>3 DEF StoreTypeOK, Outcomes, MoneyInv, Decided, PaidIfDisbursed
    <2>5. payout[o] = "paid" => s = "paid"
      BY <2>1 DEF Accepts, Starts
    <2>6. QED
      BY <1>s, <2>1, <2>2, <2>3, <2>4, <2>5
\* What a worker knows of the order it holds.
  <1>w. ASSUME NEW p \in PayoutWorkers, payPc[p] \in {"submit", "outcome"}
        PROVE  \E r \in Orders : /\ payRow[p].order = r /\ status[r] = "payout_processing"
                                 /\ financialOutcome[r] = ""
    <2>1. PICK r \in Orders : payRow[p].order = r
      BY <1>t, <1>w DEF PayoutsTypeOK, Rows
    <2>2. PayoutHolds(p, r)
      BY <1>w, <2>1 DEF PayoutHolds
    <2>3. status[r] = "payout_processing"
      BY <1>w, <2>2 DEF Claims, PayoutClaims
    <2>4. financialOutcome[r] = ""
      BY <1>i, <1>w, <2>2 DEF WorkedAsDecided
    <2>5. QED
      BY <2>1, <2>3, <2>4
  <1>3. ASSUME NEW p \in PayoutWorkers, PaySubmit(p)
        PROVE  Promise!Next \/ UNCHANGED Promise!promiseVars
    <2>1. PICK r \in Orders : /\ payRow[p].order = r /\ status[r] = "payout_processing"
                              /\ financialOutcome[r] = ""
      BY <1>3, <1>w DEF PaySubmit
    <2>2. PICK s \in {"queued", "paid", "failed"} : Accepts(r, s) /\ SetPayout(r, s)
      BY <1>3, <2>1 DEF PaySubmit
    <2>3. payout[r] = "paid" => s = "paid"
      BY <2>2 DEF Accepts, Starts
    <2>4. UNCHANGED financialOutcome
      BY <1>3 DEF PaySubmit, orderVars
    <2>5. QED
      BY <1>s, <2>1, <2>2, <2>3, <2>4
  <1>4. ASSUME NEW p \in PayoutWorkers, PayOutcome(p)
        PROVE  Promise!Next \/ UNCHANGED Promise!promiseVars
    <2>1. PICK r \in Orders : /\ payRow[p].order = r /\ status[r] = "payout_processing"
                              /\ financialOutcome[r] = ""
      BY <1>4, <1>w DEF PayOutcome
    <2>2. payout[r] = "paid"
      BY <1>4, <2>1 DEF PayOutcome, MoneyInv, Decided, PayoutsDecided
    <2>3. UNCHANGED payout /\ SetOutcome(r, "disbursed")
      BY <1>4, <2>1 DEF PayOutcome, OutcomeOpen, providerVars
    <2>4. financialOutcome'[r] = "disbursed" /\ \A o \in Orders : o # r => Unseen(o)
      BY <1>p, <1>t, <2>3 DEF SetOutcome, StoreTypeOK, Unseen
    <2>5. QED
      BY <1>h, <2>1, <2>2, <2>3, <2>4, OneOrderPromised
  <1>5. ASSUME NEW p \in PayoutWorkers,
               \/ PayQuery(p) \/ PayClaim(p) \/ PayAsk(p) \/ PayRelease(p) \/ PayDisburse(p)
               \/ PayQueueSweep(p) \/ PayRetry(p) \/ PayRequeue(p) \/ PayCrash(p)
        PROVE  UNCHANGED Promise!promiseVars
    BY <1>5, <1>u DEF PayQuery, PayClaim, PayAsk, PayRelease, PayDisburse, PayQueueSweep, PayRetry,
       PayRequeue, PayCrash, providerVars, orderVars, dataColumns
  <1>6. ASSUME NEW p \in PayoutWorkers, PayAnswerLost(p) \/ PayRequestLost(p) \/ PayAskLost(p) PROVE FALSE
    BY <1>l, <1>6 DEF PayAnswerLost, PayRequestLost, PayAskLost
  <1>7. QED
    BY <1>1, <1>2, <1>3, <1>4, <1>5, <1>6 DEF PayoutRuns

\* USDC that arrives, is collected or given back is so in the promise; so is a refund decided.
LEMMA ChainPromised ==
    ASSUME MaxLosses = 0, TypeOK, TypeOK', Claims, MoneyInv, Accounts, LosslessInv, ChainRuns
    PROVE  Promise!Next \/ UNCHANGED Promise!promiseVars
  <1>l. ~Lose
    BY DEF TypeOK, FaultsTypeOK, Lose
  <1>t. StoreTypeOK /\ LedgerTypeOK /\ ChainTypeOK
    BY DEF TypeOK
  <1>n. \A o \in Orders : balance[o] \in Nat /\ treasury[o] \in Nat /\ returned[o] \in Nat
    BY <1>t, OrderAssumptions DEF LedgerTypeOK, Units
  <1>p. UNCHANGED payout
    BY DEF ChainRuns, OnlyLedger, OnlyChain, payVars
  <1>u. ASSUME UNCHANGED <<balance, treasury, returned, financialOutcome>>
        PROVE  UNCHANGED Promise!promiseVars
    BY <1>p, <1>u, SamePlaces, NothingSeen DEF Unseen
\* Only order r is touched.
  <1>o. ASSUME NEW r \in Orders, UNCHANGED financialOutcome,
               \A q \in Orders : q # r => /\ balance'[q] = balance[q] /\ treasury'[q] = treasury[q]
                                          /\ returned'[q] = returned[q]
        PROVE  \A q \in Orders : q # r => Unseen(q)
    <2> SUFFICES ASSUME NEW q \in Orders, q # r PROVE Unseen(q)
      OBVIOUS
    <2>1. Place(q)' = Place(q)
      BY <1>o DEF Place
    <2>2. QED
      BY <1>o, <1>p, <2>1 DEF Unseen
  <1>1. ASSUME NEW o \in Orders, PayerSends(o), OnlyLedger
        PROVE  Promise!Next \/ UNCHANGED Promise!promiseVars
    <2>1. /\ balance'[o] = balance[o] + 1 /\ UNCHANGED <<treasury, returned, financialOutcome>>
          /\ \A q \in Orders : q # o => balance'[q] = balance[q]
      BY <1>1, <1>t DEF PayerSends, OnlyLedger, orderVars, LedgerTypeOK
    <2>2. \A q \in Orders : q # o => Unseen(q)
      BY <1>o, <2>1
    <2>3. treasury[o] = 0 /\ returned[o] = 0
      BY <1>1 DEF PayerSends, Accounts
    <2>4. Place(o)' = "held"
      BY <1>n, <2>1, <2>3 DEF Place
    <2>5. CASE balance[o] = 0
      <3>1. Place(o) = "none"
        BY <2>3, <2>5, Places
      <3>2. QED
        BY <1>p, <2>1, <2>2, <2>4, <3>1, OneOrderPromised
    <2>6. CASE balance[o] > 0
      <3>1. Place(o) = "held"
        BY <2>3, <2>6, Places
      <3>2. Unseen(o)
        BY <1>p, <2>1, <2>4, <3>1 DEF Unseen
      <3>3. QED
        BY <2>2, <3>2, NothingSeen
    <2>7. QED
      BY <1>n, <2>5, <2>6
  <1>2. ASSUME NEW o \in Orders, PendingLands(o) \/ PendingExpires(o) PROVE FALSE
    BY <1>2 DEF PendingLands, PendingExpires, LosslessInv, MovedIsRecorded
\* A transaction takes all there is from account o.
  <1>c. ASSUME NEW o \in Orders, NEW tx, LedgerAccepts(o, tx), Teardown(o, tx), UNCHANGED financialOutcome,
               \/ tx.to = "treasury" /\ financialOutcome[o] = "disbursed"
               \/ tx.to = "payer" /\ financialOutcome[o] = "refunded"
               \/ tx.to = "sponsor" /\ tx.amount = 0
        PROVE  Promise!Next \/ UNCHANGED Promise!promiseVars
    <2>1. /\ tx.amount = balance[o] /\ balance'[o] = 0
          /\ treasury'[o] = IF tx.to = "treasury" THEN treasury[o] + tx.amount ELSE treasury[o]
          /\ returned'[o] = IF tx.to = "payer" THEN returned[o] + tx.amount ELSE returned[o]
          /\ \A q \in Orders : q # o => /\ balance'[q] = balance[q] /\ treasury'[q] = treasury[q]
                                        /\ returned'[q] = returned[q]
      BY <1>c, <1>t DEF LedgerAccepts, Teardown, LedgerTypeOK
    <2>2. treasury[o] = 0 /\ returned[o] = 0
      BY <1>c DEF LedgerAccepts, Accounts
    <2>3. \A q \in Orders : q # o => Unseen(q)
      BY <1>c, <1>o, <2>1
    <2>4. CASE balance[o] = 0
      <3>1. treasury'[o] = 0 /\ returned'[o] = 0
        BY <2>1, <2>2, <2>4
      <3>2. Place(o)' = Place(o)
        BY <2>1, <2>2, <2>4, <3>1 DEF Place
      <3>3. Unseen(o)
        BY <1>c, <1>p, <3>2 DEF Unseen
      <3>4. QED
        BY <2>3, <3>3, NothingSeen
    <2>5. CASE balance[o] > 0
      <3>1. Place(o) = "held"
        BY <2>2, <2>5, Places
      <3>2. CASE tx.to = "treasury" /\ financialOutcome[o] = "disbursed"
        <4>1. treasury'[o] > 0
          BY <1>n, <2>1, <2>2, <2>5, <3>2
        <4>2. Place(o)' = "treasury"
          BY <4>1 DEF Place
        <4>3. QED
          BY <1>c, <1>p, <2>3, <3>1, <3>2, <4>2, OneOrderPromised
      <3>3. CASE tx.to = "payer" /\ financialOutcome[o] = "refunded"
        <4>1. treasury'[o] = 0 /\ returned'[o] > 0
          BY <1>n, <2>1, <2>2, <2>5, <3>3
        <4>2. Place(o)' = "payer"
          BY <4>1 DEF Place
        <4>3. QED
          BY <1>c, <1>p, <2>3, <3>1, <3>3, <4>2, OneOrderPromised
      <3>4. QED
        BY <1>c, <2>1, <2>5, <3>2, <3>3
    <2>6. QED
      BY <1>n, <2>4, <2>5
  <1>3. ASSUME NEW c \in ChainWorkers, SweepLands(c)
        PROVE  Promise!Next \/ UNCHANGED Promise!promiseVars
    <2>1. /\ chainPc[c] = "send" /\ UNCHANGED financialOutcome
          /\ LedgerAccepts(chainTask[c].order, SweepTx(c)) /\ Teardown(chainTask[c].order, SweepTx(c))
      BY <1>3 DEF SweepLands, orderVars
    <2>2. chainTask[c].order \in Orders
      BY <1>t, <2>1 DEF ChainTypeOK, Tasks
    <2>3. MovesAsDecided(chainTask[c].order, Destination(chainTask[c].job))
      BY <2>1 DEF MoneyInv, Decided, ChainDecided
    <2>4. \/ SweepTx(c).to = "treasury" /\ financialOutcome[chainTask[c].order] = "disbursed"
          \/ SweepTx(c).to = "payer" /\ financialOutcome[chainTask[c].order] = "refunded"
      BY <2>3 DEF MovesAsDecided, SweepTx, Destination
    <2>5. QED
      BY <1>c, <2>1, <2>2, <2>4
  <1>4. ASSUME NEW c \in ChainWorkers, ReclaimLands(c)
        PROVE  Promise!Next \/ UNCHANGED Promise!promiseVars
    <2>1. /\ chainPc[c] = "close" /\ UNCHANGED financialOutcome
          /\ LedgerAccepts(chainTask[c].order, ReclaimTx) /\ Teardown(chainTask[c].order, ReclaimTx)
      BY <1>4 DEF ReclaimLands, orderVars
    <2>2. chainTask[c].order \in Orders
      BY <1>t, <2>1 DEF ChainTypeOK, Tasks
    <2>3. QED
      BY <1>c, <2>1, <2>2 DEF ReclaimTx
  <1>5. ASSUME NEW c \in ChainWorkers, RefundOutcome(c)
        PROVE  Promise!Next \/ UNCHANGED Promise!promiseVars
    <2>1. chainPc[c] = "outcome" /\ chainTask[c].job = "refund"
      BY <1>5 DEF RefundOutcome, MoneyInv, Decided, ChainDecided
    <2>2. PICK r \in Orders : chainTask[c].order = r
      BY <1>t, <2>1 DEF ChainTypeOK, Tasks
    <2>3. ChainHolds(c, r)
      BY <2>1, <2>2 DEF ChainHolds
    <2>4. status[r] = "refund_processing"
      BY <2>1, <2>2, <2>3 DEF Claims, ChainClaims, Processing
    <2>5. ~Moved(r) /\ payout[r] = "failed"
      BY <2>1, <2>3, <2>4 DEF LosslessInv, MovedIsRecorded, PayoutAgrees, SubmittedAsDecided, RefundLeg
    <2>6. Place(r) = "held"
      BY <2>4, <2>5, CreditedIsHeld DEF LosslessInv
    <2>7. /\ UNCHANGED <<balance, treasury, returned>>
          /\ \/ OutcomeOpen(r) /\ SetOutcome(r, "refunded")
             \/ UNCHANGED financialOutcome
      BY <1>5, <2>2 DEF RefundOutcome, ledgerVars
    <2>8. CASE UNCHANGED financialOutcome
      BY <1>u, <2>7, <2>8
    <2>9. CASE OutcomeOpen(r) /\ SetOutcome(r, "refunded")
      <3>1. /\ financialOutcome[r] = "" /\ financialOutcome'[r] = "refunded"
            /\ \A q \in Orders : q # r => financialOutcome'[q] = financialOutcome[q]
        BY <1>t, <2>9 DEF OutcomeOpen, SetOutcome, StoreTypeOK
      <3>2. \A q \in Orders : Place(q)' = Place(q)
        BY <2>7, SamePlaces
      <3>3. \A q \in Orders : q # r => Unseen(q)
        BY <1>p, <3>1, <3>2 DEF Unseen
      <3>4. QED
        BY <1>p, <2>5, <2>6, <3>1, <3>2, <3>3, OneOrderPromised
    <2>10. QED
      BY <2>7, <2>8, <2>9
  <1>6. ASSUME NEW c, \/ \E job \in Jobs : ChainQuery(c, job)
                      \/ SweepClaim(c) \/ RefundClaim(c) \/ SweepReads(c) \/ SweepRejected(c)
                      \/ SweepRecord(c) \/ SweepRetry(c) \/ SweepRequeue(c) \/ ReclaimProbe(c)
                      \/ ReclaimRejected(c) \/ MarkReclaimed(c) \/ ChainCrash(c)
        PROVE  UNCHANGED Promise!promiseVars
    BY <1>6, <1>u DEF ChainQuery, SweepClaim, RefundClaim, SweepReads, SweepRejected, SweepRecord,
       SweepRetry, SweepRequeue, ReclaimProbe, ReclaimRejected, MarkReclaimed, ChainCrash,
       ledgerVars, orderVars, dataColumns
  <1>7. ASSUME NEW c, \/ SweepReadFails(c) \/ SweepAnswerLost(c) \/ SweepTimesOut(c)
                      \/ ReclaimProbeFails(c) \/ ReclaimLost(c)
        PROVE  FALSE
    BY <1>l, <1>7 DEF SweepReadFails, SweepAnswerLost, SweepTimesOut, ReclaimProbeFails, ReclaimLost
  <1>8. QED
    BY <1>1, <1>2, <1>3, <1>4, <1>5, <1>6, <1>7 DEF ChainRuns

-----------------------------------------------------------------------------
\* Nothing is sent, paid or decided initially.
LEMMA LosslessInit == Init => LosslessInv
  <1> SUFFICES ASSUME Init PROVE LosslessInv
    OBVIOUS
  <1> USE DEF Init
  <1>1. MovedIsRecorded
    BY DEF LedgerInit, MovedIsRecorded, Moved
  <1>2. Funded
    BY DEF StoreInit, DepositsInit, Funded
  <1>3. PayoutAgrees
    BY DEF StoreInit, PayoutsInit, PayoutAgrees, SubmittedAsDecided, WorkedAsDecided, PayoutHolds, RefundLeg
  <1>4. QED
    BY <1>1, <1>2, <1>3 DEF LosslessInv

\* Without losses, money, payouts and outcomes stay together.
LEMMA LosslessNext ==
    ASSUME MaxLosses = 0
    PROVE  TypeOK /\ TypeOK' /\ Claims /\ MoneyInv /\ LedgerInv /\ LosslessInv /\ [Next]_vars => LosslessInv'
  <1>1. ASSUME LosslessInv, UNCHANGED vars PROVE LosslessInv'
    <2> USE <1>1 DEF LosslessInv, vars, orderVars
    <2>1. MovedIsRecorded'
      BY DEF MovedIsRecorded, Moved, ChainHolds, ledgerVars, chainVars
    <2>2. Funded'
      BY DEF Funded, Sent, ledgerVars, detVars
    <2>3. PayoutAgrees'
      BY DEF PayoutAgrees, SubmittedAsDecided, WorkedAsDecided, PayoutHolds, payVars
    <2>4. QED
      BY <2>1, <2>2, <2>3
  <1>2. ASSUME TypeOK, TypeOK', Claims, MoneyInv, LedgerInv, LosslessInv, Next PROVE LosslessInv'
    <2>1. MovedIsRecorded' /\ Funded'
      BY <1>2, LosslessStep, FundedStep DEF LosslessInv, LedgerInv
    <2>2. PayoutAgrees'
      BY <1>2, AgreesOthers, AgreesPayouts DEF LosslessInv, Next
    <2>3. QED
      BY <2>1, <2>2 DEF LosslessInv
  <1>3. QED
    BY <1>1, <1>2

\* As long as no answer is lost, no order is both paid out and refunded, whatever number of
\* processes run and handlers are cut short (order.go, FinancialOutcome): what is returned was decided
\* "refunded", and that was decided of a payout that had failed.
THEOREM PaidOrRefundedUnlessLost == ASSUME MaxLosses = 0 PROVE Spec => []PaidOrRefunded
  <1>1. LosslessInv /\ FundsFollowOutcome => PaidOrRefunded
    BY DEF LosslessInv, PayoutAgrees, SubmittedAsDecided, FundsFollowOutcome, PaidOrRefunded
  <1>2. QED
    BY <1>1, LosslessInit, LosslessNext, LedgerCorrect, MoneyCorrect, FundsAlwaysFollowOutcome, PTL DEF Spec

\* Detection, payout, sweep and refund implement OrderPromise, as long as no answer is lost, with
\* any number of orders, workers, top-ups and crashes: an order's USDC is held until it is decided,
\* once, after the merchant was paid or when he never was, and then goes that way only (markDisbursed,
\* refund, ClaimFinancialOutcome).
THEOREM PromiseIsKept == ASSUME MaxLosses = 0 PROVE Spec => KeepsPromise
  <1>1. Init => Promise!Init
    <2> SUFFICES ASSUME Init PROVE Promise!Init
      OBVIOUS
    <2>1. \A o \in Orders : Place(o) = "none" /\ payout[o] # "paid"
      BY DEF Init, LedgerInit, PayoutsInit, Place
    <2>2. QED
      BY <2>1 DEF Init, StoreInit, Promise!Init
  <1>2. TypeOK /\ TypeOK' /\ Claims /\ MoneyInv /\ LedgerInv /\ LosslessInv /\ [Next]_vars
            => [Promise!Next]_(Promise!promiseVars)
    <2>1. ASSUME UNCHANGED vars PROVE UNCHANGED Promise!promiseVars
      <3>1. UNCHANGED <<balance, treasury, returned, payout, financialOutcome>>
        BY <2>1 DEF vars, orderVars, ledgerVars, payVars
      <3>2. \A o \in Orders : Unseen(o)
        BY <3>1, SamePlaces DEF Unseen
      <3>3. UNCHANGED [o \in Orders |-> Place(o)] /\ UNCHANGED [o \in Orders |-> payout[o] = "paid"]
        BY <3>1, <3>2 DEF Unseen
      <3>4. QED
        BY <3>1, <3>3 DEF Promise!promiseVars
    <2>2. ASSUME TypeOK, TypeOK', Claims, MoneyInv, LedgerInv, LosslessInv, Next
          PROVE  Promise!Next \/ UNCHANGED Promise!promiseVars
      <3>1. CASE DetectionRuns
        BY <2>2, <3>1, DetectionUnseen, NothingSeen
      <3>2. CASE PayoutRuns
        BY <2>2, <3>2, PayoutsPromised
      <3>3. CASE ChainRuns
        BY <2>2, <3>3, ChainPromised DEF LedgerInv
      <3>4. QED
        BY <2>2, <3>1, <3>2, <3>3 DEF Next
    <2>3. QED
      BY <2>1, <2>2
  <1>3. QED
    BY <1>1, <1>2, LosslessInit, LosslessNext, LedgerCorrect, MoneyCorrect, PTL DEF Spec, KeepsPromise, Promise!Spec

-----------------------------------------------------------------------------
(* What is decided, and when *)

\* Nothing is decided of an order until its payout is, and nothing but a refund after that.
LatePcs == {"disburse", "queueSweep"}

Undecided(o) ==
    /\ status[o] \in {"awaiting_deposit", "deposit_detected", "payout_queued", "expired"} =>
            financialOutcome[o] = ""
    /\ \A p \in PayoutWorkers : PayoutHolds(p, o) /\ payPc[p] \notin LatePcs =>
            financialOutcome[o] = ""
    /\ status[o] \in RefundLeg => financialOutcome[o] # "disbursed"

\* A payout worker claims an outcome only for the order it is about to disburse.
LEMMA PayoutOutcomes ==
    ASSUME TypeOK, Claims, PayoutRuns, NEW o \in Orders
    PROVE  \/ financialOutcome'[o] = financialOutcome[o]
           \/ /\ status[o] = "payout_processing" /\ status'[o] = status[o]
              /\ financialOutcome[o] = "" /\ financialOutcome'[o] = "disbursed"
              /\ \A p \in PayoutWorkers : PayoutHolds(p, o)' => payPc'[p] = "disburse"
  <1> DEFINE Goal == \/ financialOutcome'[o] = financialOutcome[o]
                     \/ /\ status[o] = "payout_processing" /\ status'[o] = status[o]
                        /\ financialOutcome[o] = "" /\ financialOutcome'[o] = "disbursed"
                        /\ \A p \in PayoutWorkers : PayoutHolds(p, o)' => payPc'[p] = "disburse"
  <1>t. StoreTypeOK /\ PayoutsTypeOK
    BY DEF TypeOK
  <1>1. ASSUME NEW r, BankDecides(r) \/ DelayedArrives(r) PROVE Goal
    BY <1>1 DEF BankDecides, DelayedArrives, orderVars
  <1>2. ASSUME NEW p, \/ PayQuery(p) \/ PayClaim(p) \/ PaySubmit(p) \/ PayAnswerLost(p)
                      \/ PayRequestLost(p) \/ PayAsk(p) \/ PayAskLost(p) \/ PayRelease(p)
                      \/ PayDisburse(p) \/ PayQueueSweep(p) \/ PayRetry(p) \/ PayRequeue(p) \/ PayCrash(p)
        PROVE  Goal
    BY <1>2 DEF PayQuery, PayClaim, PaySubmit, PayAnswerLost, PayRequestLost, PayAsk, PayAskLost,
            PayRelease, PayDisburse, PayQueueSweep, PayRetry, PayRequeue, PayCrash, orderVars, dataColumns
  <1>3. ASSUME NEW p \in PayoutWorkers, PayOutcome(p) PROVE Goal
    <2>1. CASE ~OutcomeOpen(payRow[p].order) \/ payRow[p].order # o
      BY <1>3, <1>t, <2>1 DEF PayOutcome, SetOutcome, StoreTypeOK
    <2>2. CASE OutcomeOpen(payRow[p].order) /\ payRow[p].order = o
      <3>1. PayoutHolds(p, o) /\ payPc[p] = "outcome"
        BY <1>3, <2>2 DEF PayOutcome, PayoutHolds
      <3>2. status[o] = "payout_processing" /\ \A q \in PayoutWorkers : PayoutHolds(q, o) => q = p
        BY <3>1 DEF Claims, PayoutClaims
      <3>3. /\ UNCHANGED <<status, payRow>> /\ payPc' = [payPc EXCEPT ![p] = "disburse"]
            /\ financialOutcome[o] = "" /\ financialOutcome'[o] = "disbursed"
        BY <1>3, <1>t, <2>2 DEF PayOutcome, OutcomeOpen, SetOutcome, Goto, StoreTypeOK
      <3>4. \A q \in PayoutWorkers : PayoutHolds(q, o)' => payPc'[q] = "disburse"
        BY <1>t, <3>1, <3>2, <3>3 DEF PayoutHolds, PayoutsTypeOK
      <3>5. QED
        BY <3>2, <3>3, <3>4
    <2>3. QED
      BY <2>1, <2>2
  <1>4. QED
    BY <1>1, <1>2, <1>3 DEF PayoutRuns

\* A payout worker holds what it held and does not go back before the outcome, or has just
\* claimed a queued order.
LEMMA PayHolderSteps ==
    ASSUME TypeOK, Next, NEW o \in Orders, NEW p \in PayoutWorkers, PayoutHolds(p, o)'
    PROVE  \/ PayoutHolds(p, o) /\ (payPc[p] \in LatePcs => payPc'[p] \in LatePcs)
           \/ status[o] = "payout_queued"
  <1> DEFINE Goal == \/ PayoutHolds(p, o) /\ (payPc[p] \in LatePcs => payPc'[p] \in LatePcs)
                     \/ status[o] = "payout_queued"
  <1>t. PayoutsTypeOK
    BY DEF TypeOK
  <1>u. ASSUME UNCHANGED <<payPc, payRow>> PROVE Goal
    BY <1>u DEF PayoutHolds
  <1>g. ASSUME NEW q \in PayoutWorkers, NEW pc, Goto(q, pc), payPc[q] # "idle",
               payPc[q] \notin LatePcs \/ pc \in LatePcs
        PROVE  Goal
    BY <1>g, <1>t DEF Goto, PayoutHolds, PayoutsTypeOK
  <1>d. ASSUME NEW q \in PayoutWorkers, PayDone(q) PROVE Goal
    BY <1>d, <1>t DEF PayDone, PayoutHolds, PayoutsTypeOK
  <1>1. CASE DetectionRuns \/ ChainRuns
    <2>1. UNCHANGED payVars
      BY <1>1 DEF DetectionRuns, ChainRuns, OnlyDetection, OnlyLedger, OnlyChain
    <2>2. QED
      BY <1>u, <2>1 DEF payVars
  <1>2. ASSUME NEW r, BankDecides(r) \/ DelayedArrives(r) PROVE Goal
    BY <1>2, <1>u DEF BankDecides, DelayedArrives
  <1>3. ASSUME NEW q \in PayoutWorkers, PayQuery(q) PROVE Goal
    BY <1>3, <1>u DEF PayQuery
  <1>4. ASSUME NEW q \in PayoutWorkers, PayClaim(q) PROVE Goal
    <2>1. PICK row \in payBatch[q] :
            IF Wins(row.order, "payout_queued", "payout_processing")
            THEN payPc' = [payPc EXCEPT ![q] = "submit"] /\ payRow' = [payRow EXCEPT ![q] = row]
            ELSE UNCHANGED <<payPc, payRow>>
      BY <1>4 DEF PayClaim
    <2>2. CASE Wins(row.order, "payout_queued", "payout_processing")
      BY <1>t, <2>1, <2>2 DEF Wins, PayoutHolds, PayoutsTypeOK, LatePcs
    <2>3. QED
      BY <1>u, <2>1, <2>2
  <1>5. ASSUME NEW q \in PayoutWorkers,
               \/ PaySubmit(q) \/ PayAnswerLost(q) \/ PayRequestLost(q) \/ PayAsk(q) \/ PayAskLost(q)
               \/ PayRetry(q) \/ PayDisburse(q)
        PROVE  Goal
    <2>1. \E pc : Goto(q, pc) /\ payPc[q] # "idle" /\ (payPc[q] \notin LatePcs \/ pc \in LatePcs)
      BY <1>5 DEF PaySubmit, PayAnswerLost, PayRequestLost, PayAsk, PayAskLost, PayRetry, PayDisburse, LatePcs
    <2>2. QED
      BY <1>g, <2>1
  <1>6. ASSUME NEW q \in PayoutWorkers,
               PayRelease(q) \/ PayQueueSweep(q) \/ PayRequeue(q) \/ PayCrash(q)
        PROVE  Goal
    BY <1>6, <1>d DEF PayRelease, PayQueueSweep, PayRequeue, PayCrash
  <1>7. ASSUME NEW q \in PayoutWorkers, PayOutcome(q) PROVE Goal
    <2>1. (payPc[q] = "outcome" /\ Goto(q, "disburse")) \/ PayDone(q)
      BY <1>7 DEF PayOutcome
    <2>2. QED
      BY <1>g, <1>d, <2>1 DEF LatePcs
  <1>8. CASE PayoutRuns
    BY <1>8, <1>2, <1>3, <1>4, <1>5, <1>6, <1>7 DEF PayoutRuns
  <1>9. QED
    BY <1>1, <1>8 DEF Next

\* An order goes back to the payout queue, or to the refunds, by the hand of a worker that has
\* decided nothing.
LEMMA BackSteps ==
    ASSUME TypeOK, PayoutRuns, NEW o \in Orders, status[o] = "payout_processing",
           status'[o] \in {"payout_queued", "refund_queued"}
    PROVE  \E p \in PayoutWorkers : PayoutHolds(p, o) /\ payPc[p] \notin LatePcs
  <1>t. StoreTypeOK
    BY DEF TypeOK
  <1>1. ASSUME NEW r, BankDecides(r) \/ DelayedArrives(r) PROVE FALSE
    BY <1>1 DEF BankDecides, DelayedArrives, orderVars
  <1>2. ASSUME NEW p, \/ PayQuery(p) \/ PaySubmit(p) \/ PayAnswerLost(p) \/ PayRequestLost(p)
                      \/ PayAsk(p) \/ PayAskLost(p) \/ PayOutcome(p) \/ PayRetry(p) \/ PayCrash(p)
        PROVE  FALSE
    BY <1>2 DEF PayQuery, PaySubmit, PayAnswerLost, PayRequestLost, PayAsk, PayAskLost, PayOutcome,
                PayRetry, PayCrash, orderVars
  <1>3. ASSUME NEW p, PayClaim(p) \/ PayDisburse(p) \/ PayQueueSweep(p) PROVE FALSE
    BY <1>3, <1>t, MoveIsFrom DEF PayClaim, PayDisburse, PayQueueSweep
  <1>4. ASSUME NEW p \in PayoutWorkers, PayRelease(p) PROVE PayoutHolds(p, o) /\ payPc[p] \notin LatePcs
    <2>1. payRow[p].order = o
      BY <1>4, <1>t, MoveIsFrom DEF PayRelease
    <2>2. QED
      BY <1>4, <2>1 DEF PayRelease, PayoutHolds, LatePcs
  <1>5. ASSUME NEW p \in PayoutWorkers, PayRequeue(p) PROVE PayoutHolds(p, o) /\ payPc[p] \notin LatePcs
    <2>1. payRow[p].order = o
      BY <1>5, <1>t, MoveIsFrom DEF PayRequeue
    <2>2. QED
      BY <1>5, <2>1 DEF PayRequeue, PayoutHolds, LatePcs
  <1>6. QED
    BY <1>1, <1>2, <1>3, <1>4, <1>5 DEF PayoutRuns

\* Nothing is decided too early, lost answers and crashes included.
LEMMA UndecidedStep ==
    ASSUME TypeOK, Claims, MoneyInv, Next, NEW o \in Orders, Undecided(o)
    PROVE  Undecided(o)'
  <1>o. \/ financialOutcome'[o] = financialOutcome[o]
        \/ /\ status[o] = "refund_processing" /\ status'[o] = status[o]
           /\ financialOutcome'[o] = "refunded"
        \/ /\ status[o] = "payout_processing" /\ status'[o] = status[o]
           /\ \A p \in PayoutWorkers : PayoutHolds(p, o)' => payPc'[p] = "disburse"
    BY OtherOutcomes, PayoutOutcomes DEF Next
  <1>m. status'[o] = status[o] \/ DetectorMoves(o) \/ PayoutMoves(o) \/ ChainMoves(o)
    BY MovesOfNext
  <1>b. ASSUME status[o] = "payout_processing", status'[o] \in {"payout_queued", "refund_queued"}
        PROVE  financialOutcome'[o] = ""
    <2>1. ~DetectorMoves(o) /\ ~ChainMoves(o)
      BY <1>b DEF DetectorMoves, ChainMoves, Moves, Queued, Processing
    <2>2. PayoutRuns
      BY <1>b, <2>1, MovesOfDetection, MovesOfChain DEF Next
    <2>3. financialOutcome[o] = ""
      BY <1>b, <2>2, BackSteps DEF Undecided
    <2>4. QED
      BY <1>b, <1>o, <2>3
  <1>1. ASSUME status'[o] \in {"awaiting_deposit", "deposit_detected", "payout_queued", "expired"}
        PROVE  financialOutcome'[o] = ""
    <2>1. \/ status[o] \in {"awaiting_deposit", "deposit_detected", "payout_queued", "expired"}
          \/ status[o] = "payout_processing" /\ status'[o] = "payout_queued"
      BY <1>m, <1>1 DEF DetectorMoves, PayoutMoves, ChainMoves, Moves, Queued, Processing, Finished
    <2>2. QED
      BY <1>b, <1>o, <2>1 DEF Undecided
  <1>2. ASSUME NEW p \in PayoutWorkers, PayoutHolds(p, o)', payPc'[p] \notin LatePcs
        PROVE  financialOutcome'[o] = ""
    <2>1. financialOutcome[o] = "" /\ status[o] # "refund_processing"
      <3>1. CASE status[o] = "payout_queued"
        BY <3>1 DEF Undecided
      <3>2. CASE PayoutHolds(p, o) /\ payPc[p] \notin LatePcs
        BY <3>2 DEF Undecided, Claims, PayoutClaims, LatePcs
      <3>3. QED
        BY <1>2, <3>1, <3>2, PayHolderSteps
    <2>2. QED
      BY <1>o, <1>2, <2>1 DEF LatePcs
  <1>3. ASSUME status'[o] \in RefundLeg PROVE financialOutcome'[o] # "disbursed"
    <2>1. status[o] \in RefundLeg \/ (status[o] = "payout_processing" /\ status'[o] = "refund_queued")
      BY <1>m, <1>3 DEF DetectorMoves, PayoutMoves, ChainMoves, Moves, Queued, Processing, Finished, RefundLeg
    <2>2. QED
      BY <1>b, <1>o, <2>1 DEF Undecided, RefundLeg
  <1>4. QED
    BY <1>1, <1>2, <1>3 DEF Undecided

\* With any number of processes, lost answers and crashes, an order waits for its payout with
\* nothing decided of it, a worker that holds it finds the outcome open, and an order that was paid
\* for is never refunded (ClaimFinancialOutcome, markDisbursed, retryOrRefund).
THEOREM NothingDecidedEarly == Spec => [](\A o \in Orders : Undecided(o))
  <1> DEFINE Inv == \A o \in Orders : Undecided(o)
  <1>1. Init => Inv
    BY DEF Init, StoreInit, PayoutsInit, Undecided, PayoutHolds, RefundLeg
  <1>2. TypeOK /\ Claims /\ MoneyInv /\ Inv /\ [Next]_vars => Inv'
    <2>1. Inv /\ UNCHANGED vars => Inv'
      BY DEF vars, orderVars, payVars, Undecided, PayoutHolds
    <2>2. QED
      BY <2>1, UndecidedStep
  <1>3. QED
    BY <1>1, <1>2, LedgerCorrect, MoneyCorrect, PTL DEF Spec

-----------------------------------------------------------------------------
(* What a crash leaves behind *)

\* After the step o is in good hands, or needs none.
Passed(o) == Attended(o)' \/ status'[o] \notin HeldStates \/ RefundDecided(o)'

\* Before the step o was in good hands, or needed none.
Safe(o) == Attended(o) \/ status[o] \notin HeldStates

\* A step leaves no order behind, or a crash, and then at most one.
LeavesNone == \A o \in Orders : Safe(o) => Passed(o)
LeavesOne == Crash /\ \E r \in Orders : \A o \in Orders \ {r} : Safe(o) => Passed(o)
Leaves == LeavesNone \/ LeavesOne

\* No detector lets go of o.
DetectorsStay(o) == \A d \in Detectors : DetectorHolds(d, o) => DetectorHolds(d, o)'
PayoutsStay(o) == \A p \in PayoutWorkers : PayoutHolds(p, o) => PayoutHolds(p, o)'
ChainStays(o) == \A c \in ChainWorkers : ChainHolds(c, o) => ChainHolds(c, o)'

\* An order nobody lets go of and nobody moves is passed on.
LEMMA StayingPasses ==
    ASSUME NEW o \in Orders, DetectorsStay(o), PayoutsStay(o), ChainStays(o), status'[o] = status[o]
    PROVE  Safe(o) => Passed(o)
  BY DEF DetectorsStay, PayoutsStay, ChainStays, Safe, Passed, Attended

\* Loops that do not step let go of nothing.
LEMMA IdleStay ==
    ASSUME NEW o
    PROVE  /\ UNCHANGED detVars => DetectorsStay(o)
           /\ UNCHANGED payVars => PayoutsStay(o)
           /\ UNCHANGED chainVars => ChainStays(o)
  BY DEF DetectorsStay, DetectorHolds, detVars, PayoutsStay, PayoutHolds, payVars,
         ChainStays, ChainHolds, chainVars

\* A detector lets go of the order it queues or hands back, or in a crash.
LEMMA DetectionLeaves == ASSUME TypeOK, Claims, DetectionRuns PROVE Leaves
  <1>t. StoreTypeOK /\ DepositsTypeOK
    BY DEF TypeOK
  <1>s. ASSUME NEW o \in Orders PROVE PayoutsStay(o) /\ ChainStays(o)
    BY IdleStay DEF DetectionRuns, OnlyDetection
  <1>u. ASSUME UNCHANGED <<status, detPc, detOrder>> PROVE Leaves
    BY <1>u, <1>s, StayingPasses DEF DetectorsStay, DetectorHolds, Leaves, LeavesNone
\* A handler that starts, or ends without an order, lets go of none.
  <1>h. ASSUME NEW d \in Detectors, NEW pc, NEW r, NEW units, NEW from,
               Handle(d, pc, r, units, from), NEW o \in Orders, detPc[d] # "queue" \/ detOrder[d] # o
        PROVE  DetectorsStay(o)
    BY <1>h, <1>t DEF Handle, DetectorsStay, DetectorHolds, DepositsTypeOK
\* A handler that ends has moved its order on, or was cut short.
  <1>m. ASSUME NEW d \in Detectors, detPc[d] = "queue", HandlerDone(d),
               NEW to \in {"payout_queued", "awaiting_deposit"},
               \/ ClaimStatus(detOrder[d], "deposit_detected", to) /\ to = "payout_queued"
               \/ ReleaseStatus(detOrder[d], "deposit_detected", to)
        PROVE  Leaves
    <2>1. PICK r \in Orders : detOrder[d] = r
      BY <1>m, <1>t DEF DepositsTypeOK
    <2>2. status[r] = "deposit_detected"
      BY <1>m, <2>1 DEF Claims, DetectorClaims, DetectorHolds
    <2>3. status' = [status EXCEPT ![r] = to]
      BY <1>m, <2>1, <2>2 DEF ClaimStatus, ReleaseStatus, Wins, SetStatus, CanTransition, transitions
    <2>4. Passed(r)
      BY <1>m, <1>t, <2>3 DEF StoreTypeOK, Passed, HeldStates
    <2>5. ASSUME NEW o \in Orders, o # r PROVE DetectorsStay(o) /\ status'[o] = status[o]
      BY <1>m, <1>h, <1>t, <2>1, <2>3, <2>5 DEF HandlerDone, StoreTypeOK
    <2>6. QED
      BY <1>s, <2>4, <2>5, StayingPasses DEF Leaves, LeavesNone
  <1>1. ASSUME NEW r, DeadlinePasses(r) PROVE Leaves
    BY <1>1, <1>u DEF DeadlinePasses, orderVars
  <1>2. ASSUME NEW d, ScannerQuery(d) \/ ScannerReadFails(d) PROVE Leaves
    BY <1>2, <1>u DEF ScannerQuery, ScannerReadFails, orderVars
  <1>3. ASSUME NEW d \in Detectors, ScannerReads(d) \/ StreamReads(d) PROVE Leaves
    <2>1. UNCHANGED status /\ \E pc, r, units, from : detPc[d] # "queue" /\ Handle(d, pc, r, units, from)
      BY <1>3 DEF ScannerReads, StreamReads, orderVars
    <2>2. \A o \in Orders : DetectorsStay(o) /\ status'[o] = status[o]
      BY <1>h, <2>1
    <2>3. QED
      BY <1>s, <2>2, StayingPasses DEF Leaves, LeavesNone
  <1>4. ASSUME NEW d \in Detectors, Expire(d) PROVE Leaves
    <2>1. ASSUME NEW o \in Orders PROVE DetectorsStay(o)
      BY <1>4, <1>h DEF Expire, HandlerDone
    <2>2. ASSUME NEW o \in Orders PROVE status'[o] = status[o] \/ status'[o] = "expired"
      BY <1>4, <1>t, MoveIsFrom DEF Expire
    <2>3. QED
      BY <1>s, <2>1, <2>2, StayingPasses DEF Leaves, LeavesNone, Passed, HeldStates
  <1>5. ASSUME NEW d \in Detectors, Record(d) PROVE Leaves
    <2>1. PICK r \in Orders : detOrder[d] = r
      BY <1>5, <1>t DEF Record, DepositsTypeOK
    <2>2. CASE Wins(r, "awaiting_deposit", "deposit_detected")
      <3>1. /\ status' = [status EXCEPT ![r] = "deposit_detected"]
            /\ detPc' = [detPc EXCEPT ![d] = "queue"] /\ UNCHANGED detOrder
        BY <1>5, <2>1, <2>2 DEF Record, SetStatus
      <3>2. DetectorHolds(d, r)'
        BY <1>t, <2>1, <3>1 DEF DetectorHolds, DepositsTypeOK
      <3>3. ASSUME NEW o \in Orders, o # r PROVE DetectorsStay(o) /\ status'[o] = status[o]
        BY <1>t, <2>1, <3>1, <3>3 DEF DetectorsStay, DetectorHolds, DepositsTypeOK, StoreTypeOK
      <3>4. QED
        BY <1>s, <3>2, <3>3, StayingPasses DEF Leaves, LeavesNone, Passed, Attended
    <2>3. CASE ~Wins(r, "awaiting_deposit", "deposit_detected")
      <3>1. HandlerDone(d) /\ UNCHANGED status /\ detPc[d] # "queue"
        BY <1>5, <2>1, <2>3 DEF Record
      <3>2. ASSUME NEW o \in Orders PROVE DetectorsStay(o) /\ status'[o] = status[o]
        BY <1>h, <3>1 DEF HandlerDone
      <3>3. QED
        BY <1>s, <3>2, StayingPasses DEF Leaves, LeavesNone
    <2>4. QED
      BY <2>2, <2>3
  <1>6. ASSUME NEW d \in Detectors, QueuePayout(d) PROVE Leaves
    BY <1>6, <1>m DEF QueuePayout
  <1>7. ASSUME NEW d \in Detectors, EnqueueFails(d) PROVE Leaves
    BY <1>7, <1>m DEF EnqueueFails
  <1>8. ASSUME NEW d \in Detectors, DetectorCrash(d) PROVE Leaves
    <2>1. PICK r \in Orders : detOrder[d] = r
      BY <1>8, <1>t DEF DetectorCrash, DepositsTypeOK
    <2>2. Crash /\ UNCHANGED status /\ HandlerDone(d)
      BY <1>8 DEF DetectorCrash, orderVars
    <2>3. ASSUME NEW o \in Orders, o # r PROVE DetectorsStay(o) /\ status'[o] = status[o]
      BY <1>h, <2>1, <2>2, <2>3 DEF HandlerDone
    <2>4. QED
      BY <1>s, <2>2, <2>3, StayingPasses DEF Leaves, LeavesOne
  <1>9. QED
    BY <1>1, <1>2, <1>3, <1>4, <1>5, <1>6, <1>7, <1>8 DEF DetectionRuns, Detectors

\* A payout worker lets go of the order it hands back, refunds or queues for its sweep, or in a
\* crash: it never finds the outcome of an order it was paid for already claimed.
LEMMA PayoutsLeave ==
    ASSUME TypeOK, Claims, \A o \in Orders : Undecided(o), PayoutRuns
    PROVE  Leaves
  <1>t. StoreTypeOK /\ PayoutsTypeOK
    BY DEF TypeOK
  <1>s. ASSUME NEW o \in Orders PROVE DetectorsStay(o) /\ ChainStays(o)
    BY IdleStay DEF PayoutRuns, OnlyPayouts
  <1>h. ASSUME NEW p \in PayoutWorkers, payPc[p] # "idle"
        PROVE  \E r \in Orders :
                  /\ payRow[p].order = r /\ PayoutHolds(p, r)
                  /\ status[r] = IF payPc[p] = "queueSweep" THEN "disbursed" ELSE "payout_processing"
    <2>1. payRow[p].order \in Orders
      BY <1>h, <1>t DEF PayoutsTypeOK, Rows
    <2>2. QED
      BY <1>h, <2>1 DEF PayoutHolds, Claims, PayoutClaims
\* A worker that goes on, or an idle one, lets go of nothing.
  <1>u. ASSUME UNCHANGED <<payPc, payRow>> PROVE \A o \in Orders : PayoutsStay(o)
    BY <1>u DEF PayoutsStay, PayoutHolds
  <1>g. ASSUME NEW p \in PayoutWorkers, NEW pc \in PayPcs \ {"idle"}, Goto(p, pc)
        PROVE  \A o \in Orders : PayoutsStay(o)
    BY <1>g, <1>t DEF Goto, PayoutsStay, PayoutHolds, PayoutsTypeOK
  <1>k. ASSUME UNCHANGED status, \A o \in Orders : PayoutsStay(o) PROVE Leaves
    BY <1>k, <1>s, StayingPasses DEF Leaves, LeavesNone
  <1>d. ASSUME NEW p \in PayoutWorkers, PayDone(p), NEW o \in Orders, payRow[p].order # o
        PROVE  PayoutsStay(o)
    BY <1>d, <1>t DEF PayDone, PayoutsStay, PayoutHolds, PayoutsTypeOK
\* A worker that ends has moved its order on.
  <1>m. ASSUME NEW p \in PayoutWorkers, PayDone(p), payPc[p] # "idle", NEW from, NEW to,
               \/ ClaimStatus(payRow[p].order, from, to) /\ CanTransition(from, to)
               \/ ReleaseStatus(payRow[p].order, from, to),
               from = (IF payPc[p] = "queueSweep" THEN "disbursed" ELSE "payout_processing"),
               to \in {"payout_queued", "refund_queued", "sweep_queued"}
        PROVE  Leaves
    <2>1. PICK r \in Orders : payRow[p].order = r /\ status[r] = from
      BY <1>m, <1>h
    <2>2. status' = [status EXCEPT ![r] = to]
      BY <1>m, <2>1 DEF ClaimStatus, ReleaseStatus, Wins, SetStatus
    <2>3. Passed(r)
      BY <1>m, <1>t, <2>2 DEF StoreTypeOK, Passed, HeldStates
    <2>4. ASSUME NEW o \in Orders, o # r PROVE PayoutsStay(o) /\ status'[o] = status[o]
      BY <1>m, <1>d, <1>t, <2>1, <2>2, <2>4 DEF StoreTypeOK
    <2>5. QED
      BY <1>s, <2>3, <2>4, StayingPasses DEF Leaves, LeavesNone
  <1>1. ASSUME NEW r, BankDecides(r) \/ DelayedArrives(r) PROVE Leaves
    BY <1>1, <1>u, <1>k DEF BankDecides, DelayedArrives, orderVars
  <1>2. ASSUME NEW p \in PayoutWorkers, PayQuery(p) PROVE Leaves
    BY <1>2, <1>u, <1>k DEF PayQuery, orderVars
  <1>3. ASSUME NEW p \in PayoutWorkers, PayClaim(p) PROVE Leaves
    <2>1. PICK row \in payBatch[p] :
            /\ payPc[p] = "idle"
            /\ ClaimStatus(row.order, "payout_queued", "payout_processing")
            /\ IF Wins(row.order, "payout_queued", "payout_processing")
               THEN payPc' = [payPc EXCEPT ![p] = "submit"] /\ payRow' = [payRow EXCEPT ![p] = row]
               ELSE UNCHANGED <<payPc, payRow>>
      BY <1>3 DEF PayClaim
    <2>2. PICK r \in Orders : row.order = r
      BY <1>t, <2>1 DEF PayoutsTypeOK, Rows
    <2>3. CASE ~Wins(r, "payout_queued", "payout_processing")
      BY <2>1, <2>2, <2>3, <1>u, <1>k DEF ClaimStatus
    <2>4. CASE Wins(r, "payout_queued", "payout_processing")
      <3>1. /\ status' = [status EXCEPT ![r] = "payout_processing"]
            /\ payPc' = [payPc EXCEPT ![p] = "submit"] /\ payRow' = [payRow EXCEPT ![p] = row]
        BY <2>1, <2>2, <2>4 DEF ClaimStatus, SetStatus
      <3>2. PayoutHolds(p, r)'
        BY <1>t, <2>2, <3>1 DEF PayoutHolds, PayoutsTypeOK
      <3>3. ASSUME NEW o \in Orders, o # r PROVE PayoutsStay(o) /\ status'[o] = status[o]
        BY <1>t, <2>1, <3>1, <3>3 DEF PayoutsStay, PayoutHolds, PayoutsTypeOK, StoreTypeOK
      <3>4. QED
        BY <1>s, <3>2, <3>3, StayingPasses DEF Leaves, LeavesNone, Passed, Attended
    <2>5. QED
      BY <2>3, <2>4
  <1>4. ASSUME NEW p \in PayoutWorkers,
               \/ PaySubmit(p) \/ PayAnswerLost(p) \/ PayRequestLost(p) \/ PayAsk(p) \/ PayAskLost(p)
               \/ PayRetry(p)
        PROVE  Leaves
    <2>1. UNCHANGED status /\ \E pc \in PayPcs \ {"idle"} : Goto(p, pc)
      <3>1. CASE PaySubmit(p)
        BY <3>1, ResultLeads DEF PaySubmit, PayPcs, orderVars
      <3>2. CASE PayAsk(p)
        BY <3>2, ResultLeads DEF PayAsk, PayPcs, orderVars
      <3>3. CASE PayAnswerLost(p) \/ PayRequestLost(p) \/ PayAskLost(p) \/ PayRetry(p)
        BY <3>3 DEF PayAnswerLost, PayRequestLost, PayAskLost, PayRetry, PayPcs, orderVars
      <3>4. QED
        BY <1>4, <3>1, <3>2, <3>3
    <2>2. QED
      BY <1>g, <1>k, <2>1
  <1>5. ASSUME NEW p \in PayoutWorkers, PayRelease(p) PROVE Leaves
    BY <1>5, <1>m DEF PayRelease
  <1>6. ASSUME NEW p \in PayoutWorkers, PayOutcome(p) PROVE Leaves
    <2>1. OutcomeOpen(payRow[p].order)
      BY <1>6, <1>h DEF PayOutcome, Undecided, LatePcs, OutcomeOpen
    <2>2. UNCHANGED status /\ Goto(p, "disburse")
      BY <1>6, <2>1 DEF PayOutcome
    <2>3. QED
      BY <1>g, <1>k, <2>2 DEF PayPcs
  <1>7. ASSUME NEW p \in PayoutWorkers, PayDisburse(p) PROVE Leaves
    <2>1. PICK r \in Orders : payRow[p].order = r /\ PayoutHolds(p, r)
      BY <1>7, <1>h DEF PayDisburse
    <2>2. \A o \in Orders : PayoutsStay(o)
      BY <1>7, <1>g DEF PayDisburse, PayPcs
    <2>3. Passed(r)
      BY <2>1, <2>2 DEF PayoutsStay, Passed, Attended
    <2>4. ASSUME NEW o \in Orders, o # r PROVE status'[o] = status[o]
      BY <1>7, <1>t, <2>1, <2>4, MoveIsFrom DEF PayDisburse
    <2>5. QED
      BY <1>s, <2>2, <2>3, <2>4, StayingPasses DEF Leaves, LeavesNone
  <1>8. ASSUME NEW p \in PayoutWorkers, PayQueueSweep(p) PROVE Leaves
    <2>1. CanTransition("disbursed", "sweep_queued")
      BY DEF CanTransition, transitions
    <2>2. QED
      BY <1>8, <1>m, <2>1 DEF PayQueueSweep
  <1>9. ASSUME NEW p \in PayoutWorkers, PayRequeue(p) PROVE Leaves
    <2>1. CanTransition("payout_processing", "refund_queued")
      BY DEF CanTransition, transitions
    <2>2. QED
      BY <1>9, <1>m, <2>1 DEF PayRequeue
  <1>10. ASSUME NEW p \in PayoutWorkers, PayCrash(p) PROVE Leaves
    <2>1. PICK r \in Orders : payRow[p].order = r
      BY <1>10, <1>h DEF PayCrash
    <2>2. Crash /\ UNCHANGED status /\ PayDone(p)
      BY <1>10 DEF PayCrash, orderVars
    <2>3. ASSUME NEW o \in Orders, o # r PROVE PayoutsStay(o) /\ status'[o] = status[o]
      BY <1>d, <2>1, <2>2, <2>3
    <2>4. QED
      BY <1>s, <2>2, <2>3, StayingPasses DEF Leaves, LeavesOne
  <1>11. QED
    BY <1>1, <1>2, <1>3, <1>4, <1>5, <1>6, <1>7, <1>8, <1>9, <1>10 DEF PayoutRuns

\* A chain worker lets go of the order it finished, hands back or flags, in a crash, or when the
\* refund was decided by an earlier try.
LEMMA ChainLeaves ==
    ASSUME TypeOK, Claims, MoneyInv, \A o \in Orders : Undecided(o), ChainRuns
    PROVE  Leaves
  <1>t. StoreTypeOK /\ ChainTypeOK
    BY DEF TypeOK
  <1>s. ASSUME NEW o \in Orders PROVE DetectorsStay(o) /\ PayoutsStay(o)
    BY IdleStay DEF ChainRuns, OnlyLedger, OnlyChain
  <1> DEFINE Unheld == {"idle", "close", "markClosed", "markGone"}
  <1>h. ASSUME NEW c \in ChainWorkers, chainPc[c] \notin Unheld
        PROVE  \E r \in Orders, job \in {"sweep", "refund"} :
                  /\ chainTask[c].order = r /\ chainTask[c].job = job /\ ChainHolds(c, r)
                  /\ status[r] = Processing(job)
    <2>1. chainTask[c].order \in Orders
      BY <1>h, <1>t DEF ChainTypeOK, Tasks
    <2>2. QED
      BY <1>h, <2>1 DEF ChainHolds, Claims, ChainClaims
\* A worker that goes on lets go of nothing; one that ends, of its own order at most.
  <1>u. ASSUME UNCHANGED <<chainPc, chainTask>> PROVE \A o \in Orders : ChainStays(o)
    BY <1>u DEF ChainStays, ChainHolds
  <1>g. ASSUME NEW c \in ChainWorkers, NEW pc, chainPc' = [chainPc EXCEPT ![c] = pc], UNCHANGED chainTask,
               chainPc[c] \in Unheld \/ pc \in ChainPcs \ Unheld
        PROVE  \A o \in Orders : ChainStays(o)
    BY <1>g, <1>t DEF ChainStays, ChainHolds, ChainTypeOK
  <1>b. ASSUME NEW c \in ChainWorkers, NEW pc, NEW t, Begin(c, pc, t), chainPc[c] = "idle"
        PROVE  \A o \in Orders : ChainStays(o)
    BY <1>b, <1>t DEF Begin, ChainStays, ChainHolds, ChainTypeOK
  <1>d. ASSUME NEW c \in ChainWorkers, ChainDone(c), NEW o \in Orders,
               chainPc[c] \in Unheld \/ chainTask[c].order # o
        PROVE  ChainStays(o)
    BY <1>d, <1>t DEF ChainDone, ChainStays, ChainHolds, ChainTypeOK
  <1>k. ASSUME UNCHANGED status, \A o \in Orders : ChainStays(o) PROVE Leaves
    BY <1>k, <1>s, StayingPasses DEF Leaves, LeavesNone
\* A worker that ends has moved its order on.
  <1>m. ASSUME NEW c \in ChainWorkers, ChainDone(c), NEW r \in Orders, NEW job \in {"sweep", "refund"},
               chainTask[c].order = r, status[r] = Processing(job),
               NEW to \in {Queued(job), Finished(job), "failed"},
               ClaimStatus(r, Processing(job), to) \/ ReleaseStatus(r, Processing(job), to)
        PROVE  Leaves
    <2>1. CanTransition(Processing(job), to)
      BY DEF CanTransition, transitions, Processing, Queued, Finished
    <2>2. status' = [status EXCEPT ![r] = to]
      BY <1>m, <2>1 DEF ClaimStatus, ReleaseStatus, Wins, SetStatus
    <2>3. Passed(r)
      BY <1>t, <2>2 DEF StoreTypeOK, Passed, HeldStates, Queued, Finished
    <2>4. ASSUME NEW o \in Orders, o # r PROVE ChainStays(o) /\ status'[o] = status[o]
      BY <1>m, <1>d, <1>t, <2>2, <2>4 DEF StoreTypeOK
    <2>5. QED
      BY <1>s, <2>3, <2>4, StayingPasses DEF Leaves, LeavesNone
\* A worker that claims an order holds it.
  <1>c. ASSUME NEW c \in ChainWorkers, chainPc[c] = "idle", NEW t \in Tasks,
               NEW pc \in ChainPcs \ Unheld, Begin(c, pc, t), NEW to, SetStatus(t.order, to)
        PROVE  Leaves
    <2>1. PICK r \in Orders : t.order = r
      BY DEF Tasks
    <2>2. ChainHolds(c, r)'
      BY <1>c, <1>t, <2>1 DEF Begin, ChainHolds, ChainTypeOK
    <2>3. ASSUME NEW o \in Orders, o # r PROVE ChainStays(o) /\ status'[o] = status[o]
      BY <1>c, <1>b, <1>t, <2>1, <2>3 DEF SetStatus, StoreTypeOK
    <2>4. QED
      BY <1>s, <2>2, <2>3, StayingPasses DEF Leaves, LeavesNone, Passed, Attended
  <1>1. CASE OnlyLedger
    BY <1>1, <1>u, <1>k DEF OnlyLedger, orderVars, chainVars
  <1>2. ASSUME NEW c \in ChainWorkers, (\E job \in Jobs : ChainQuery(c, job)) \/ ReclaimProbeFails(c)
        PROVE  Leaves
    BY <1>2, <1>u, <1>k DEF ChainQuery, ReclaimProbeFails, orderVars
  <1>3. ASSUME NEW c \in ChainWorkers, SweepClaim(c) PROVE Leaves
    <2>1. PICK t \in chainBatch[c] :
            /\ chainPc[c] = "idle"
            /\ ClaimStatus(t.order, "sweep_queued", "sweep_processing")
            /\ IF Wins(t.order, "sweep_queued", "sweep_processing")
               THEN Begin(c, "read", t)
               ELSE UNCHANGED <<chainPc, chainTask, chainAmount>>
      BY <1>3 DEF SweepClaim, Takes
    <2>2. t \in Tasks
      BY <1>t DEF ChainTypeOK
    <2>3. CASE Wins(t.order, "sweep_queued", "sweep_processing")
      BY <1>c, <2>1, <2>2, <2>3 DEF ClaimStatus, ChainPcs
    <2>4. CASE ~Wins(t.order, "sweep_queued", "sweep_processing")
      BY <1>u, <1>k, <2>1, <2>4 DEF ClaimStatus
    <2>5. QED
      BY <2>3, <2>4
  <1>4. ASSUME NEW c \in ChainWorkers, RefundClaim(c) PROVE Leaves
    <2>1. PICK t \in chainBatch[c] :
            /\ chainPc[c] = "idle"
            /\ \/ SetStatus(t.order, "refund_processing") /\ Begin(c, "outcome", t)
               \/ UNCHANGED <<status, chainPc, chainTask, chainAmount>>
      BY <1>4 DEF RefundClaim, Takes
    <2>2. t \in Tasks
      BY <1>t DEF ChainTypeOK
    <2>3. CASE SetStatus(t.order, "refund_processing") /\ Begin(c, "outcome", t)
      BY <1>c, <2>1, <2>2, <2>3 DEF ChainPcs
    <2>4. CASE UNCHANGED <<status, chainPc, chainTask, chainAmount>>
      BY <1>u, <1>k, <2>4
    <2>5. QED
      BY <2>1, <2>3, <2>4
  <1>5. ASSUME NEW c \in ChainWorkers, RefundOutcome(c) PROVE Leaves
    <2>1. PICK r \in Orders : chainTask[c].order = r /\ status[r] = "refund_processing"
      <3>1. chainPc[c] = "outcome" /\ chainTask[c].job = "refund"
        BY <1>5 DEF RefundOutcome, MoneyInv, Decided, ChainDecided
      <3>2. QED
        BY <1>h, <3>1 DEF Processing
    <2>2. CASE OutcomeOpen(r)
      <3>1. UNCHANGED status /\ GoOn(c, "read")
        BY <1>5, <2>1, <2>2 DEF RefundOutcome
      <3>2. QED
        BY <1>g, <1>k, <3>1 DEF GoOn, ChainPcs
    <2>3. CASE ~OutcomeOpen(r)
      <3>1. UNCHANGED <<status, financialOutcome>> /\ ChainDone(c)
        BY <1>5, <2>1, <2>3 DEF RefundOutcome
      <3>2. financialOutcome[r] = "refunded"
        BY <1>t, <2>1, <2>3 DEF Undecided, OutcomeOpen, StoreTypeOK, Outcomes, RefundLeg
      <3>3. Passed(r)
        BY <2>1, <3>1, <3>2 DEF Passed, RefundDecided
      <3>4. ASSUME NEW o \in Orders, o # r PROVE ChainStays(o)
        BY <1>d, <2>1, <3>1, <3>4
      <3>5. QED
        BY <1>s, <3>1, <3>3, <3>4, StayingPasses DEF Leaves, LeavesNone
    <2>4. QED
      BY <2>2, <2>3
  <1>6. ASSUME NEW c \in ChainWorkers,
               \/ SweepReads(c) \/ SweepReadFails(c) \/ SweepLands(c) \/ SweepRejected(c)
               \/ SweepAnswerLost(c) \/ SweepTimesOut(c) \/ SweepRetry(c) \/ ReclaimLands(c)
        PROVE  Leaves
    <2>1. /\ UNCHANGED <<status, chainTask>>
          /\ \E pc : /\ chainPc' = [chainPc EXCEPT ![c] = pc]
                     /\ chainPc[c] \in Unheld \/ pc \in ChainPcs \ Unheld
      BY <1>6 DEF SweepReads, SweepReadFails, SweepLands, SweepRejected, SweepAnswerLost, SweepTimesOut,
              SweepRetry, ReclaimLands, GoOn, ChainPcs, orderVars
    <2>2. QED
      BY <1>g, <1>k, <2>1
  <1>7. ASSUME NEW c \in ChainWorkers, SweepRecord(c) PROVE Leaves
    <2>1. PICK r \in Orders, job \in {"sweep", "refund"} :
            chainTask[c].order = r /\ chainTask[c].job = job /\ status[r] = Processing(job)
      BY <1>7, <1>h DEF SweepRecord
    <2>2. ClaimStatus(r, Processing(job), Finished(job)) /\ ChainDone(c)
      BY <1>7, <2>1 DEF SweepRecord
    <2>3. QED
      BY <1>m, <2>1, <2>2
  <1>8. ASSUME NEW c \in ChainWorkers, SweepRequeue(c) PROVE Leaves
    <2>1. PICK r \in Orders, job \in {"sweep", "refund"} :
            chainTask[c].order = r /\ chainTask[c].job = job /\ status[r] = Processing(job)
      BY <1>8, <1>h DEF SweepRequeue
    <2>2. /\ ChainDone(c)
          /\ \/ ReleaseStatus(r, Processing(job), Queued(job))
             \/ ClaimStatus(r, Processing(job), "failed")
      BY <1>8, <2>1 DEF SweepRequeue
    <2>3. QED
      BY <1>m, <2>1, <2>2
  <1>9. ASSUME NEW c \in ChainWorkers, ReclaimProbe(c) PROVE Leaves
    <2>1. UNCHANGED status /\ \E pc, t : Begin(c, pc, t) /\ chainPc[c] = "idle"
      BY <1>9 DEF ReclaimProbe, Takes, orderVars
    <2>2. QED
      BY <1>b, <1>k, <2>1
  <1>10. ASSUME NEW c \in ChainWorkers, ReclaimRejected(c) \/ ReclaimLost(c) \/ MarkReclaimed(c) PROVE Leaves
    <2>1. UNCHANGED status /\ ChainDone(c) /\ chainPc[c] \in Unheld
      BY <1>10 DEF ReclaimRejected, ReclaimLost, MarkReclaimed, orderVars
    <2>2. QED
      BY <1>d, <1>k, <2>1
  <1>11. ASSUME NEW c \in ChainWorkers, ChainCrash(c) PROVE Leaves
    <2>1. PICK r \in Orders : chainTask[c].order = r
      BY <1>11, <1>t DEF ChainCrash, ChainTypeOK, Tasks
    <2>2. Crash /\ UNCHANGED status /\ ChainDone(c)
      BY <1>11 DEF ChainCrash, orderVars
    <2>3. ASSUME NEW o \in Orders, o # r PROVE ChainStays(o) /\ status'[o] = status[o]
      BY <1>d, <2>1, <2>2, <2>3
    <2>4. QED
      BY <1>s, <2>2, <2>3, StayingPasses DEF Leaves, LeavesOne
  <1>12. QED
    BY <1>1, <1>2, <1>3, <1>4, <1>5, <1>6, <1>7, <1>8, <1>9, <1>10, <1>11 DEF ChainRuns

\* The crash counter only grows.
LEMMA CrashesGrow == ASSUME TypeOK, Next PROVE crashes' = crashes \/ Crash
  <1>1. CASE DetectionRuns
    BY <1>1 DEF DetectionRuns, DeadlinePasses, ScannerQuery, ScannerReads, ScannerReadFails, StreamReads,
            Record, QueuePayout, EnqueueFails, Expire, DetectorCrash, Lose, faultVars
  <1>2. CASE PayoutRuns
    BY <1>2 DEF PayoutRuns, BankDecides, DelayedArrives, PayQuery, PayClaim, PaySubmit, PayAnswerLost,
            PayRequestLost, PayAsk, PayAskLost, PayRelease, PayOutcome, PayDisburse, PayQueueSweep,
            PayRetry, PayRequeue, PayCrash, Lose, faultVars
  <1>3. CASE ChainRuns
    BY <1>3 DEF ChainRuns, OnlyLedger, ChainQuery, SweepClaim, RefundClaim, RefundOutcome, SweepReads,
            SweepReadFails, SweepLands, SweepRejected, SweepAnswerLost, SweepTimesOut, SweepRecord,
            SweepRetry, SweepRequeue, ReclaimProbe, ReclaimProbeFails, ReclaimLands, ReclaimRejected,
            ReclaimLost, MarkReclaimed, ChainCrash, Lose, faultVars
  <1>4. QED
    BY <1>1, <1>2, <1>3 DEF Next

\* An order dropped by a refund stays as it was, as long as it belongs to nobody.
LEMMA DroppedStays ==
    ASSUME TypeOK, Claims, MoneyInv, Next, NEW o \in Orders, RefundDecided(o), status'[o] \in HeldStates
    PROVE  RefundDecided(o)'
  <1>1. status'[o] = status[o]
    BY MovesOfNext DEF RefundDecided, DetectorMoves, PayoutMoves, ChainMoves, Moves, Queued, Processing,
       Finished, HeldStates
  <1>2. financialOutcome'[o] = financialOutcome[o]
    BY OtherOutcomes, PayoutOutcomes DEF RefundDecided, Next
  <1>3. QED
    BY <1>1, <1>2 DEF RefundDecided

\* A crash adds one abandoned order at most, and no other step adds any.
LEMMA AbandonedStep ==
    ASSUME IsFiniteSet(Orders), TypeOK, Claims, MoneyInv, \A o \in Orders : Undecided(o), Next,
           AbandonedPerCrash
    PROVE  AbandonedPerCrash'
  <1>1. ASSUME NEW o \in Orders, Safe(o) => Passed(o), o \in Abandoned' PROVE o \in Abandoned
    BY <1>1, DroppedStays DEF Abandoned, Safe, Passed
  <1>2. Leaves
    BY DetectionLeaves, PayoutsLeave, ChainLeaves DEF Next
  <1>3. Abandoned \subseteq Orders /\ Abandoned' \subseteq Orders
    BY DEF Abandoned
  <1>4. IsFiniteSet(Abandoned) /\ IsFiniteSet(Abandoned')
    BY <1>3, FS_Subset
  <1>5. Cardinality(Abandoned) \in Nat /\ Cardinality(Abandoned') \in Nat
    BY <1>4, FS_CardinalityType
  <1>6. crashes \in Nat /\ Cardinality(Abandoned) <= crashes
    BY FaultBudgets DEF TypeOK, FaultsTypeOK, AbandonedPerCrash
  <1>7. CASE LeavesNone
    <2>1. Abandoned' \subseteq Abandoned
      BY <1>1, <1>3, <1>7 DEF LeavesNone
    <2>2. Cardinality(Abandoned') <= Cardinality(Abandoned)
      BY <1>4, <2>1, FS_Subset
    <2>3. crashes' = crashes \/ crashes' = crashes + 1
      BY CrashesGrow DEF Crash
    <2>4. Cardinality(Abandoned') <= crashes'
      BY <1>5, <1>6, <2>2, <2>3
    <2>5. QED
      BY <2>4 DEF AbandonedPerCrash
  <1>8. CASE LeavesOne
    <2>1. PICK r \in Orders : \A o \in Orders \ {r} : Safe(o) => Passed(o)
      BY <1>8 DEF LeavesOne
    <2>2. Abandoned' \subseteq Abandoned \union {r}
      BY <1>1, <1>3, <2>1
    <2>3. /\ IsFiniteSet(Abandoned \union {r})
          /\ \/ Cardinality(Abandoned \union {r}) = Cardinality(Abandoned)
             \/ Cardinality(Abandoned \union {r}) = Cardinality(Abandoned) + 1
      BY <1>4, FS_AddElement
    <2>4. Cardinality(Abandoned') <= Cardinality(Abandoned \union {r})
      BY <2>2, <2>3, FS_Subset
    <2>5. crashes' = crashes + 1
      BY <1>8 DEF LeavesOne, Crash
    <2>6. Cardinality(Abandoned') <= crashes'
      BY <1>5, <1>6, <2>3, <2>4, <2>5
    <2>7. QED
      BY <2>6 DEF AbandonedPerCrash
  <1>9. QED
    BY <1>2, <1>7, <1>8 DEF Leaves

\* However many orders, loops and processes there are, and whatever answers are lost, each crash
\* leaves one order at most in a state no loop selects, and nothing else does, but a refund that
\* was decided by an earlier try (Record, settle, markDisbursed, retryOrRefund, sweep, retry).
THEOREM AbandonedOnlyInCrashes == ASSUME IsFiniteSet(Orders) PROVE Spec => []AbandonedPerCrash
  <1>1. Init => AbandonedPerCrash
    <2> SUFFICES ASSUME Init PROVE AbandonedPerCrash
      OBVIOUS
    <2>1. Abandoned = {}
      BY DEF Init, StoreInit, Abandoned, HeldStates
    <2>2. QED
      BY <2>1, FS_EmptySet DEF Init, FaultsInit, AbandonedPerCrash
  <1>2. /\ TypeOK /\ Claims /\ MoneyInv /\ (\A o \in Orders : Undecided(o))
        /\ AbandonedPerCrash /\ [Next]_vars
        => AbandonedPerCrash'
    <2>1. ASSUME AbandonedPerCrash, UNCHANGED vars PROVE AbandonedPerCrash'
      <3>1. UNCHANGED <<orderVars, faultVars, detVars, payVars, chainVars>>
        BY <2>1 DEF vars
      <3>2. Abandoned' = Abandoned
        BY <3>1 DEF Abandoned, Attended, RefundDecided, DetectorHolds, PayoutHolds, ChainHolds,
           orderVars, detVars, payVars, chainVars
      <3>3. QED
        BY <2>1, <3>1, <3>2 DEF AbandonedPerCrash, faultVars
    <2>2. QED
      BY <2>1, AbandonedStep
  <1>3. QED
    BY <1>1, <1>2, LedgerCorrect, MoneyCorrect, NothingDecidedEarly, PTL DEF Spec

=============================================================================
