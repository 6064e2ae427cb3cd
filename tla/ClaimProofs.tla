---------------------------- MODULE ClaimProofs ----------------------------
(***************************************************************************)
(* A claim is exclusive.  The inductive invariant is TypeOK with Claims: a *)
(* handler that holds an order finds it in the state its claim left it in. *)
(* The states two kinds of handlers leave their orders in differ, and a    *)
(* claim is only won from a state nobody holds an order in, so no second   *)
(* handler can come to hold it; whoever moves an order on holds it alone.  *)
(***************************************************************************)
EXTENDS DecisionProofs

\* One order, one holder: handlers of different kinds hold orders in different states.
LEMMA ClaimsExclude == Claims => OneHolder
<1> SUFFICES ASSUME Claims PROVE OneHolder
  OBVIOUS
<1>1. \A c \in ChainWorkers, o \in Orders : ChainHolds(c, o) =>
            status[o] \in {"sweep_processing", "refund_processing"}
  BY DEF Claims, ChainClaims, Processing
<1>2. \A p \in PayoutWorkers, o \in Orders : PayoutHolds(p, o) =>
            status[o] \in {"payout_processing", "disbursed"}
  BY DEF Claims, PayoutClaims
<1>3. \A d \in Detectors, o \in Orders : DetectorHolds(d, o) => status[o] = "deposit_detected"
  BY DEF Claims, DetectorClaims
<1>4. QED
  BY <1>1, <1>2, <1>3 DEF OneHolder, Claims, DetectorClaims, PayoutClaims, ChainClaims

\* Nobody holds o.
Free(o) == /\ \A d \in Detectors : ~DetectorHolds(d, o)
           /\ \A p \in PayoutWorkers : ~PayoutHolds(p, o)
           /\ \A c \in ChainWorkers : ~ChainHolds(c, o)

\* Nobody holds an order in a state it can be claimed from.
LEMMA QueuedIsFree ==
    ASSUME Claims, NEW o \in Orders, status[o] \notin HeldStates PROVE Free(o)
  BY DEF Claims, DetectorClaims, PayoutClaims, ChainClaims, Processing, HeldStates, Free

\* Initially nobody holds an order.
LEMMA ClaimsInit == Init => Claims
  BY DEF Init, DepositsInit, PayoutsInit, ChainInit, Claims, DetectorClaims, PayoutClaims,
         ChainClaims, DetectorHolds, PayoutHolds, ChainHolds

-----------------------------------------------------------------------------
(* How the holders of one kind may change in a step *)

\* Holders may let go of an order; the state of an order still held does not change.
DetectorsKeep ==
    \A o \in Orders, d \in Detectors :
        DetectorHolds(d, o)' => DetectorHolds(d, o) /\ status'[o] = status[o]
PayoutsKeep ==
    \A o \in Orders, p \in PayoutWorkers : PayoutHolds(p, o)' =>
        /\ PayoutHolds(p, o) /\ status'[o] = status[o]
        /\ payPc'[p] = "queueSweep" <=> payPc[p] = "queueSweep"
ChainKeeps ==
    \A o \in Orders, c \in ChainWorkers : ChainHolds(c, o)' =>
        ChainHolds(c, o) /\ status'[o] = status[o] /\ chainTask'[c] = chainTask[c]

\* Detectors that hold what they held, in the state they held it in, keep their claims.
LEMMA DetectorsKept == ASSUME DetectorClaims, DetectorsKeep PROVE DetectorClaims'
  BY DEF DetectorClaims, DetectorsKeep
\* The same of payout workers.
LEMMA PayoutsKept == ASSUME PayoutClaims, PayoutsKeep PROVE PayoutClaims'
  BY DEF PayoutClaims, PayoutsKeep
\* The same of chain workers.
LEMMA ChainKept == ASSUME ChainClaims, ChainKeeps PROVE ChainClaims'
  BY DEF ChainClaims, ChainKeeps

\* Handlers that do not step keep their orders if nobody moves those.
LEMMA DetectorsIdle ==
    ASSUME UNCHANGED detVars,
           \A o \in Orders, d \in Detectors : DetectorHolds(d, o) => status'[o] = status[o]
    PROVE  DetectorsKeep
  BY DEF DetectorsKeep, DetectorHolds, detVars
\* The same of payout workers.
LEMMA PayoutsIdle ==
    ASSUME UNCHANGED payVars,
           \A o \in Orders, p \in PayoutWorkers : PayoutHolds(p, o) => status'[o] = status[o]
    PROVE  PayoutsKeep
  BY DEF PayoutsKeep, PayoutHolds, payVars
\* The same of chain workers.
LEMMA ChainIdle ==
    ASSUME UNCHANGED chainVars,
           \A o \in Orders, c \in ChainWorkers : ChainHolds(c, o) => status'[o] = status[o]
    PROVE  ChainKeeps
  BY DEF ChainKeeps, ChainHolds, chainVars

\* What a move statement does: nothing, or order o goes from `from` to `to`.
LEMMA MoveIsFrom ==
    ASSUME StoreTypeOK, NEW o, NEW from, NEW to,
           ClaimStatus(o, from, to) \/ ReleaseStatus(o, from, to) \/ UNCHANGED status
    PROVE  \A q \in Orders : status'[q] = status[q] \/ (q = o /\ status[o] = from /\ status'[o] = to)
  BY DEF StoreTypeOK, ClaimStatus, ReleaseStatus, SetStatus, Wins

-----------------------------------------------------------------------------
\* A detector's handler comes to hold an order only by winning it from awaiting_deposit.
LEMMA ClaimsDetection == TypeOK /\ Claims /\ DetectionRuns => Claims'
<1> SUFFICES ASSUME TypeOK, Claims, DetectionRuns PROVE Claims'
  OBVIOUS
<1> DEFINE Others == \A o \in Orders :
                        /\ \A p \in PayoutWorkers : PayoutHolds(p, o) => status'[o] = status[o]
                        /\ \A c \in ChainWorkers : ChainHolds(c, o) => status'[o] = status[o]
           Good == DetectorClaims' /\ Others
<1>t. StoreTypeOK /\ DepositsTypeOK
  BY DEF TypeOK
<1>c. DetectorClaims /\ OneHolder
  BY ClaimsExclude DEF Claims
\* The handler reads or ends: it holds nothing after the step.
<1>h. ASSUME NEW d \in Detectors, NEW pc \in {"idle", "record", "expire"}, NEW o, NEW units, NEW from,
             Handle(d, pc, o, units, from)
      PROVE  \A e \in Detectors, q \in Orders : DetectorHolds(e, q)' => e # d /\ DetectorHolds(e, q)
  BY <1>h, <1>t DEF Handle, DetectorHolds, DepositsTypeOK
<1>s. ASSUME NEW d \in Detectors, NEW pc \in {"idle", "record", "expire"}, NEW o, NEW units, NEW from,
             Handle(d, pc, o, units, from), UNCHANGED status
      PROVE  Good
  <2>1. DetectorsKeep
    BY <1>h, <1>s DEF DetectorsKeep
  <2>2. QED
    BY <1>c, <1>s, <2>1, DetectorsKept
<1>u. ASSUME UNCHANGED <<status, detPc, detOrder>> PROVE Good
  BY <1>c, <1>u DEF DetectorClaims, DetectorHolds
\* The handler lets go of the order it holds.
<1>m. ASSUME NEW d \in Detectors, detPc[d] = "queue", HandlerDone(d), NEW to,
             \/ ClaimStatus(detOrder[d], "deposit_detected", to)
             \/ ReleaseStatus(detOrder[d], "deposit_detected", to)
      PROVE  Good
  <2> DEFINE o == detOrder[d]
  <2>1. o \in Orders /\ DetectorHolds(d, o)
    BY <1>m, <1>t DEF DepositsTypeOK, DetectorHolds
  <2>2. \A q \in Orders : status'[q] = status[q] \/ q = o
    BY <1>m, <1>t, MoveIsFrom
  <2>3. Others
    BY <1>c, <2>1, <2>2 DEF OneHolder
  <2>4. \A e \in Detectors, q \in Orders : DetectorHolds(e, q)' => e # d /\ DetectorHolds(e, q)
    BY <1>m, <1>h DEF HandlerDone
  <2>5. DetectorsKeep
    BY <1>c, <2>1, <2>2, <2>4 DEF DetectorsKeep, OneHolder
  <2>6. QED
    BY <1>c, <2>3, <2>5, DetectorsKept
<1>1. ASSUME NEW o \in Orders, DeadlinePasses(o) PROVE Good
  BY <1>1, <1>u DEF DeadlinePasses, orderVars
<1>2. ASSUME NEW d \in Scanners, ScannerQuery(d) \/ ScannerReadFails(d) PROVE Good
  BY <1>2, <1>u DEF ScannerQuery, ScannerReadFails, orderVars
<1>3. ASSUME NEW d \in Scanners, ScannerReads(d) PROVE Good
  <2>1. UNCHANGED status /\ d \in Detectors
    BY <1>3 DEF ScannerReads, orderVars, Detectors
  <2>2. PICK o \in detBatch[d] : \/ \E from \in BOOLEAN : Handle(d, "record", o, balance[o], from)
                                 \/ Handle(d, "expire", o, 0, FALSE)
    BY <1>3 DEF ScannerReads
  <2>3. CASE Handle(d, "expire", o, 0, FALSE)
    BY <1>s, <2>1, <2>3
  <2>4. CASE \E from \in BOOLEAN : Handle(d, "record", o, balance[o], from)
    BY <1>s, <2>1, <2>4
  <2>5. QED
    BY <2>2, <2>3, <2>4
<1>4. ASSUME NEW d \in Scanners, Expire(d) PROVE Good
  <2>1. d \in Detectors
    BY DEF Detectors
  <2>2. \A q \in Orders : status'[q] = status[q] \/ status[q] = "awaiting_deposit"
    BY <1>4, <1>t, MoveIsFrom DEF Expire
  <2>3. \A q \in Orders : Free(q) \/ status'[q] = status[q]
    BY <2>2, QueuedIsFree DEF HeldStates
  <2>4. \A e \in Detectors, q \in Orders : DetectorHolds(e, q)' => DetectorHolds(e, q)
    BY <1>4, <1>h, <2>1 DEF Expire, HandlerDone
  <2>5. DetectorsKeep /\ Others
    BY <2>3, <2>4 DEF DetectorsKeep, Free
  <2>6. QED
    BY <1>c, <2>5, DetectorsKept
<1>5. ASSUME NEW d \in Streams, StreamReads(d) PROVE Good
  <2>1. UNCHANGED status /\ d \in Detectors
    BY <1>5 DEF StreamReads, orderVars, Detectors
  <2>2. PICK o \in Orders : Handle(d, "record", o, balance[o], TRUE)
    BY <1>5 DEF StreamReads
  <2>3. QED
    BY <1>s, <2>1, <2>2
<1>6. ASSUME NEW d \in Detectors, Record(d) PROVE Good
  <2> DEFINE o == detOrder[d]
  <2>1. CASE Wins(o, "awaiting_deposit", "deposit_detected")
    <3>1. o \in Orders /\ Free(o)
      BY <1>6, <1>t, <2>1, QueuedIsFree DEF Record, DepositsTypeOK, Wins, HeldStates
    <3>2. /\ status' = [status EXCEPT ![o] = "deposit_detected"]
          /\ detPc' = [detPc EXCEPT ![d] = "queue"] /\ detOrder' = detOrder
      BY <1>6, <2>1 DEF Record, SetStatus
    <3>3. status'[o] = "deposit_detected" /\ \A q \in Orders : q # o => status'[q] = status[q]
      BY <1>t, <3>1, <3>2 DEF StoreTypeOK
    <3>4. \A e \in Detectors, q \in Orders : DetectorHolds(e, q)' =>
                (e = d /\ q = o) \/ (q # o /\ DetectorHolds(e, q))
      BY <1>t, <3>1, <3>2 DEF DetectorHolds, DepositsTypeOK, Free
    <3>5. DetectorClaims'
      BY <1>c, <3>3, <3>4 DEF DetectorClaims
    <3>6. QED
      BY <3>1, <3>3, <3>5 DEF Free
  <2>2. CASE ~Wins(o, "awaiting_deposit", "deposit_detected")
    BY <1>6, <1>s, <2>2 DEF Record, HandlerDone
  <2>3. QED
    BY <2>1, <2>2
<1>7. ASSUME NEW d \in Detectors, QueuePayout(d) PROVE Good
  BY <1>7, <1>m DEF QueuePayout
<1>8. ASSUME NEW d \in Detectors, EnqueueFails(d) PROVE Good
  BY <1>8, <1>m DEF EnqueueFails
<1>9. ASSUME NEW d \in Detectors, DetectorCrash(d) PROVE Good
  BY <1>9, <1>s DEF DetectorCrash, HandlerDone, orderVars
<1>10. Good /\ OnlyDetection
  BY <1>1, <1>2, <1>3, <1>4, <1>5, <1>6, <1>7, <1>8, <1>9 DEF DetectionRuns
<1>11. PayoutsKeep /\ ChainKeeps
  BY <1>10, PayoutsIdle, ChainIdle DEF OnlyDetection
<1>12. QED
  BY <1>10, <1>11, PayoutsKept, ChainKept DEF Claims

-----------------------------------------------------------------------------
\* No answer of the Linq API leads straight to queueing the sweep.
LEMMA ResultsStay == \A s : AfterResult(s) # "queueSweep"
<1> TAKE s
<1>1. CASE s = "paid"
  <2>1. AfterResult(s) = "outcome"
    BY <1>1, Zenon DEF AfterResult
  <2>2. QED
    BY <2>1
<1>2. CASE s = "failed"
  <2>1. AfterResult(s) = "retry"
    BY <1>2, Zenon DEF AfterResult
  <2>2. QED
    BY <2>1
<1>3. CASE s # "paid" /\ s # "failed"
  <2>1. AfterResult(s) = "release"
    BY <1>3, Zenon DEF AfterResult
  <2>2. QED
    BY <2>1
<1>4. QED
  BY <1>1, <1>2, <1>3

\* A payout worker comes to hold an order only by winning it from payout_queued.
LEMMA ClaimsPayouts == TypeOK /\ Claims /\ PayoutRuns => Claims'
<1> SUFFICES ASSUME TypeOK, Claims, PayoutRuns PROVE Claims'
  OBVIOUS
<1> DEFINE Others == \A o \in Orders :
                        /\ \A d \in Detectors : DetectorHolds(d, o) => status'[o] = status[o]
                        /\ \A c \in ChainWorkers : ChainHolds(c, o) => status'[o] = status[o]
           Good == PayoutClaims' /\ Others
<1>t. StoreTypeOK /\ PayoutsTypeOK
  BY DEF TypeOK
<1>c. PayoutClaims /\ OneHolder
  BY ClaimsExclude DEF Claims
<1>o. \A p \in PayoutWorkers : payPc[p] # "idle" =>
        payRow[p].order \in Orders /\ PayoutHolds(p, payRow[p].order)
  BY <1>t DEF PayoutsTypeOK, Rows, PayoutHolds
<1>u. ASSUME UNCHANGED <<status, payPc, payRow>> PROVE Good
  BY <1>c, <1>u DEF PayoutClaims, PayoutHolds
\* A worker goes on with its order, or drops it, without moving it.
<1>g. ASSUME NEW p \in PayoutWorkers, UNCHANGED status, payPc[p] \notin {"idle", "queueSweep"},
             NEW pc, pc # "idle", pc # "queueSweep", Goto(p, pc)
      PROVE  Good
  <2>1. \A q \in PayoutWorkers, o \in Orders : PayoutHolds(q, o)' =>
            /\ PayoutHolds(q, o)
            /\ payPc'[q] = "queueSweep" <=> payPc[q] = "queueSweep"
    BY <1>g, <1>t DEF Goto, PayoutHolds, PayoutsTypeOK
  <2>2. PayoutsKeep
    BY <1>g, <2>1 DEF PayoutsKeep
  <2>3. QED
    BY <1>c, <1>g, <2>2, PayoutsKept
<1>d. ASSUME NEW p \in PayoutWorkers, PayDone(p)
      PROVE  \A q \in PayoutWorkers, o \in Orders : PayoutHolds(q, o)' =>
                q # p /\ PayoutHolds(q, o) /\ payPc'[q] = payPc[q]
  BY <1>d, <1>t DEF PayDone, PayoutHolds, PayoutsTypeOK
<1>e. ASSUME NEW p \in PayoutWorkers, PayDone(p), UNCHANGED status PROVE Good
  <2>1. PayoutsKeep
    BY <1>d, <1>e DEF PayoutsKeep
  <2>2. QED
    BY <1>c, <1>e, <2>1, PayoutsKept
\* A worker hands on the order it holds.
<1>m. ASSUME NEW p \in PayoutWorkers, payPc[p] # "idle", PayDone(p), NEW from, NEW to,
             ClaimStatus(payRow[p].order, from, to) \/ ReleaseStatus(payRow[p].order, from, to)
      PROVE  Good
  <2> DEFINE o == payRow[p].order
  <2>1. o \in Orders /\ PayoutHolds(p, o)
    BY <1>m, <1>o
  <2>2. \A q \in Orders : status'[q] = status[q] \/ q = o
    BY <1>m, <1>t, MoveIsFrom
  <2>3. Others
    BY <1>c, <2>1, <2>2 DEF OneHolder
  <2>4. PayoutsKeep
    BY <1>c, <1>d, <1>m, <2>1, <2>2 DEF PayoutsKeep, OneHolder
  <2>5. QED
    BY <1>c, <2>3, <2>4, PayoutsKept
<1>1. ASSUME NEW o \in Orders, BankDecides(o) \/ DelayedArrives(o) PROVE Good
  BY <1>1, <1>u DEF BankDecides, DelayedArrives, orderVars
<1>2. ASSUME NEW p \in PayoutWorkers, PayQuery(p) PROVE Good
  BY <1>2, <1>u DEF PayQuery, orderVars
<1>3. ASSUME NEW p \in PayoutWorkers, PayClaim(p) PROVE Good
  <2>1. PICK row \in payBatch[p] :
           /\ ClaimStatus(row.order, "payout_queued", "payout_processing")
           /\ IF Wins(row.order, "payout_queued", "payout_processing")
              THEN /\ payPc' = [payPc EXCEPT ![p] = "submit"]
                   /\ payRow' = [payRow EXCEPT ![p] = row]
              ELSE UNCHANGED <<payPc, payRow>>
    BY <1>3 DEF PayClaim
  <2> DEFINE o == row.order
  <2>2. o \in Orders /\ payPc[p] = "idle"
    BY <1>3, <1>t DEF PayClaim, PayoutsTypeOK, Rows
  <2>3. CASE Wins(o, "payout_queued", "payout_processing")
    <3>1. Free(o) /\ status' = [status EXCEPT ![o] = "payout_processing"]
      BY <2>1, <2>2, <2>3, QueuedIsFree DEF Wins, HeldStates, ClaimStatus, SetStatus
    <3>2. status'[o] = "payout_processing" /\ \A q \in Orders : q # o => status'[q] = status[q]
      BY <1>t, <2>2, <3>1 DEF StoreTypeOK
    <3>3. payPc' = [payPc EXCEPT ![p] = "submit"] /\ payRow' = [payRow EXCEPT ![p] = row]
      BY <2>1, <2>3
    <3>4. \A w \in PayoutWorkers, q \in Orders : PayoutHolds(w, q)' =>
                \/ w = p /\ q = o /\ payPc'[w] = "submit"
                \/ w # p /\ q # o /\ PayoutHolds(w, q) /\ payPc'[w] = payPc[w]
      BY <1>t, <2>2, <3>1, <3>3 DEF PayoutHolds, PayoutsTypeOK, Free
    <3>5. PayoutClaims'
      BY <1>c, <3>2, <3>4 DEF PayoutClaims
    <3>6. QED
      BY <3>1, <3>2, <3>5 DEF Free
  <2>4. CASE ~Wins(o, "payout_queued", "payout_processing")
    BY <1>u, <2>1, <2>4 DEF ClaimStatus
  <2>5. QED
    BY <2>3, <2>4
<1>4. ASSUME NEW p \in PayoutWorkers, PaySubmit(p) PROVE Good
  <2>1. PICK s \in {"queued", "paid", "failed"} : Goto(p, AfterResult(s))
    BY <1>4 DEF PaySubmit
  <2>2. QED
    BY <1>4, <1>g, <2>1, ResultsStay, ResultsLeadOn DEF PaySubmit, orderVars
<1>5. ASSUME NEW p \in PayoutWorkers, PayAnswerLost(p) \/ PayRequestLost(p) PROVE Good
  BY <1>5, <1>g DEF PayAnswerLost, PayRequestLost, orderVars
<1>6. ASSUME NEW p \in PayoutWorkers, PayAsk(p) PROVE Good
  <2>1. PICK pc : pc # "idle" /\ pc # "queueSweep" /\ Goto(p, pc)
    BY <1>6, ResultsStay, ResultsLeadOn DEF PayAsk
  <2>2. QED
    BY <1>6, <1>g, <2>1 DEF PayAsk, orderVars
<1>7. ASSUME NEW p \in PayoutWorkers, PayAskLost(p) PROVE Good
  BY <1>7, <1>g DEF PayAskLost, orderVars
<1>8. ASSUME NEW p \in PayoutWorkers, PayRelease(p) PROVE Good
  BY <1>8, <1>m DEF PayRelease
<1>9. ASSUME NEW p \in PayoutWorkers, PayOutcome(p) PROVE Good
  <2>1. CASE OutcomeOpen(payRow[p].order)
    BY <1>9, <1>g, <2>1 DEF PayOutcome
  <2>2. CASE ~OutcomeOpen(payRow[p].order)
    BY <1>9, <1>e, <2>2 DEF PayOutcome
  <2>3. QED
    BY <2>1, <2>2
<1>10. ASSUME NEW p \in PayoutWorkers, PayDisburse(p) PROVE Good
  <2> DEFINE o == payRow[p].order
  <2>1. o \in Orders /\ PayoutHolds(p, o) /\ status[o] = "payout_processing"
    BY <1>10, <1>o, <1>c DEF PayDisburse, PayoutClaims
  <2>2. status' = [status EXCEPT ![o] = "disbursed"]
    BY <1>10, <2>1 DEF PayDisburse, ClaimStatus, SetStatus, Wins, CanTransition, transitions
  <2>3. status'[o] = "disbursed" /\ \A q \in Orders : q # o => status'[q] = status[q]
    BY <1>t, <2>1, <2>2 DEF StoreTypeOK
  <2>4. Others
    BY <1>c, <2>1, <2>3 DEF OneHolder
  <2>5. \A w \in PayoutWorkers, q \in Orders : PayoutHolds(w, q)' =>
            \/ w = p /\ q = o /\ payPc'[w] = "queueSweep"
            \/ w # p /\ PayoutHolds(w, q) /\ payPc'[w] = payPc[w]
    BY <1>10, <1>t DEF PayDisburse, Goto, PayoutHolds, PayoutsTypeOK
  <2>6. PayoutClaims'
    <3> SUFFICES ASSUME NEW q \in Orders, NEW w \in PayoutWorkers, PayoutHolds(w, q)'
                 PROVE  /\ status'[q] = IF payPc'[w] = "queueSweep" THEN "disbursed" ELSE "payout_processing"
                        /\ \A v \in PayoutWorkers : PayoutHolds(v, q)' => v = w
      BY DEF PayoutClaims
    <3>1. CASE w = p
      BY <1>c, <2>1, <2>3, <2>5, <3>1 DEF OneHolder
    <3>2. CASE w # p
      <4>1. PayoutHolds(w, q) /\ payPc'[w] = payPc[w] /\ q # o
        BY <1>c, <2>1, <2>5, <3>2 DEF OneHolder
      <4>2. QED
        BY <1>c, <2>1, <2>3, <2>5, <4>1 DEF PayoutClaims
    <3>3. QED
      BY <3>1, <3>2
  <2>7. QED
    BY <2>4, <2>6
<1>11. ASSUME NEW p \in PayoutWorkers, PayQueueSweep(p) PROVE Good
  BY <1>11, <1>m DEF PayQueueSweep
<1>12. ASSUME NEW p \in PayoutWorkers, PayRetry(p) PROVE Good
  BY <1>12, <1>g DEF PayRetry
<1>13. ASSUME NEW p \in PayoutWorkers, PayRequeue(p) PROVE Good
  BY <1>13, <1>m DEF PayRequeue
<1>14. ASSUME NEW p \in PayoutWorkers, PayCrash(p) PROVE Good
  BY <1>14, <1>e DEF PayCrash, orderVars
<1>15. Good /\ OnlyPayouts
  BY <1>1, <1>2, <1>3, <1>4, <1>5, <1>6, <1>7, <1>8, <1>9, <1>10, <1>11, <1>12, <1>13, <1>14
     DEF PayoutRuns
<1>16. DetectorsKeep /\ ChainKeeps
  BY <1>15, DetectorsIdle, ChainIdle DEF OnlyPayouts
<1>17. QED
  BY <1>15, <1>16, DetectorsKept, ChainKept DEF Claims

-----------------------------------------------------------------------------
\* A chain worker comes to hold an order only by winning it from sweep_queued or
\* refund_queued; expired orders are not claimed at all.
LEMMA ClaimsChain == TypeOK /\ Claims /\ ChainRuns => Claims'
<1> SUFFICES ASSUME TypeOK, Claims, ChainRuns PROVE Claims'
  OBVIOUS
<1> DEFINE Others == \A o \in Orders :
                        /\ \A d \in Detectors : DetectorHolds(d, o) => status'[o] = status[o]
                        /\ \A p \in PayoutWorkers : PayoutHolds(p, o) => status'[o] = status[o]
           Good == ChainClaims' /\ Others
           Quiet == {"idle", "close", "markClosed", "markGone"}
<1>t. StoreTypeOK /\ ChainTypeOK
  BY DEF TypeOK
<1>c. ChainClaims /\ OneHolder
  BY ClaimsExclude DEF Claims
<1>o. \A c \in ChainWorkers : chainPc[c] \notin Quiet =>
        chainTask[c].order \in Orders /\ ChainHolds(c, chainTask[c].order)
  BY <1>t DEF ChainTypeOK, Tasks, ChainHolds
<1>u. ASSUME UNCHANGED <<status, chainPc, chainTask>> PROVE Good
  BY <1>c, <1>u DEF ChainClaims, ChainHolds
\* A worker goes on with its order without moving it.
<1>g. ASSUME NEW c \in ChainWorkers, chainPc[c] \notin Quiet, UNCHANGED status,
             NEW pc, chainPc' = [chainPc EXCEPT ![c] = pc], UNCHANGED chainTask
      PROVE  Good
  <2>1. ChainKeeps
    BY <1>g, <1>t DEF ChainKeeps, ChainHolds, ChainTypeOK
  <2>2. QED
    BY <1>c, <1>g, <2>1, ChainKept
\* A worker that holds nothing after the step.
<1>d. ASSUME NEW c \in ChainWorkers, NEW pc \in Quiet, NEW t,
             chainPc' = [chainPc EXCEPT ![c] = pc], chainTask' = [chainTask EXCEPT ![c] = t]
      PROVE  \A e \in ChainWorkers, o \in Orders : ChainHolds(e, o)' =>
                e # c /\ ChainHolds(e, o) /\ chainTask'[e] = chainTask[e]
  BY <1>d, <1>t DEF ChainHolds, ChainTypeOK
<1>e. ASSUME NEW c \in ChainWorkers, NEW pc \in Quiet, NEW t, UNCHANGED status,
             chainPc' = [chainPc EXCEPT ![c] = pc], chainTask' = [chainTask EXCEPT ![c] = t]
      PROVE  Good
  <2>1. ChainKeeps
    BY <1>d, <1>e DEF ChainKeeps
  <2>2. QED
    BY <1>c, <1>e, <2>1, ChainKept
<1>f. ASSUME NEW c \in ChainWorkers, ChainDone(c), UNCHANGED status PROVE Good
  BY <1>e, <1>f DEF ChainDone
\* A worker hands on the order it holds.
<1>m. ASSUME NEW c \in ChainWorkers, chainPc[c] \notin Quiet, ChainDone(c), NEW from, NEW to,
             ClaimStatus(chainTask[c].order, from, to) \/ ReleaseStatus(chainTask[c].order, from, to)
      PROVE  Good
  <2> DEFINE o == chainTask[c].order
  <2>1. o \in Orders /\ ChainHolds(c, o)
    BY <1>m, <1>o
  <2>2. \A q \in Orders : status'[q] = status[q] \/ q = o
    BY <1>m, <1>t, MoveIsFrom
  <2>3. Others
    BY <1>c, <2>1, <2>2 DEF OneHolder
  <2>4. \A e \in ChainWorkers, q \in Orders : ChainHolds(e, q)' =>
            e # c /\ ChainHolds(e, q) /\ chainTask'[e] = chainTask[e]
    BY <1>m, <1>d DEF ChainDone
  <2>5. ChainKeeps
    BY <1>c, <2>1, <2>2, <2>4 DEF ChainKeeps, OneHolder
  <2>6. QED
    BY <1>c, <2>3, <2>5, ChainKept
\* A worker wins a queued order.
<1>n. ASSUME NEW c \in ChainWorkers, NEW t \in Tasks, t.job \in {"sweep", "refund"},
             chainPc[c] = "idle", NEW pc \in {"outcome", "read"}, Begin(c, pc, t),
             status[t.order] \in {"sweep_queued", "refund_queued"},
             SetStatus(t.order, Processing(t.job))
      PROVE  Good
  <2> DEFINE o == t.order
  <2>1. o \in Orders
    BY DEF Tasks
  <2>2. Free(o)
    BY <1>n, <2>1, QueuedIsFree DEF HeldStates
  <2>3. status'[o] = Processing(t.job) /\ \A q \in Orders : q # o => status'[q] = status[q]
    BY <1>n, <1>t, <2>1 DEF SetStatus, StoreTypeOK
  <2>4. \A e \in ChainWorkers, q \in Orders : ChainHolds(e, q)' =>
            \/ e = c /\ q = o /\ chainTask'[e] = t
            \/ e # c /\ q # o /\ ChainHolds(e, q) /\ chainTask'[e] = chainTask[e]
    BY <1>n, <1>t, <2>1, <2>2 DEF Begin, ChainHolds, ChainTypeOK, Free
  <2>5. ChainClaims'
    <3> SUFFICES ASSUME NEW q \in Orders, NEW e \in ChainWorkers, ChainHolds(e, q)'
                 PROVE  /\ chainTask'[e].job \in {"sweep", "refund"}
                        /\ status'[q] = Processing(chainTask'[e].job)
                        /\ \A w \in ChainWorkers : ChainHolds(w, q)' => w = e
      BY DEF ChainClaims, Processing
    <3>1. CASE e = c
      BY <1>n, <2>3, <2>4, <3>1
    <3>2. CASE e # c
      <4>1. q # o /\ ChainHolds(e, q) /\ chainTask'[e] = chainTask[e]
        BY <2>4, <3>2
      <4>2. QED
        BY <1>c, <2>3, <2>4, <4>1 DEF ChainClaims
    <3>3. QED
      BY <3>1, <3>2
  <2>6. QED
    BY <2>2, <2>3, <2>5 DEF Free
<1>1. ASSUME OnlyLedger PROVE Good
  BY <1>1, <1>u DEF OnlyLedger, orderVars, chainVars
<1>2. ASSUME NEW c \in ChainWorkers, NEW job \in Jobs, ChainQuery(c, job) PROVE Good
  BY <1>2, <1>u DEF ChainQuery, orderVars
<1>3. ASSUME NEW c \in ChainWorkers, SweepClaim(c) PROVE Good
  <2>1. PICK t \in chainBatch[c] :
           /\ t.job = "sweep" /\ Takes(c, t)
           /\ ClaimStatus(t.order, "sweep_queued", "sweep_processing")
           /\ IF Wins(t.order, "sweep_queued", "sweep_processing")
              THEN Begin(c, "read", t)
              ELSE UNCHANGED <<chainPc, chainTask, chainAmount>>
    BY <1>3 DEF SweepClaim
  <2>2. t \in Tasks /\ chainPc[c] = "idle" /\ Processing(t.job) = "sweep_processing"
    BY <1>t, <2>1 DEF Takes, ChainTypeOK, Processing
  <2>3. CASE Wins(t.order, "sweep_queued", "sweep_processing")
    BY <1>n, <2>1, <2>2, <2>3 DEF Wins, ClaimStatus
  <2>4. CASE ~Wins(t.order, "sweep_queued", "sweep_processing")
    BY <1>u, <2>1, <2>4 DEF ClaimStatus
  <2>5. QED
    BY <2>3, <2>4
<1>4. ASSUME NEW c \in ChainWorkers, RefundClaim(c) PROVE Good
  <2>1. PICK t \in chainBatch[c] :
           /\ t.job = "refund" /\ Takes(c, t)
           /\ \/ /\ Wins(t.order, "refund_queued", "refund_processing")
                 /\ SetStatus(t.order, "refund_processing") /\ Begin(c, "outcome", t)
              \/ UNCHANGED <<status, chainPc, chainTask, chainAmount>>
    BY <1>4 DEF RefundClaim
  <2>2. t \in Tasks /\ chainPc[c] = "idle" /\ Processing(t.job) = "refund_processing"
    BY <1>t, <2>1 DEF Takes, ChainTypeOK, Processing
  <2>3. CASE UNCHANGED <<status, chainPc, chainTask, chainAmount>>
    BY <1>u, <2>3
  <2>4. CASE /\ Wins(t.order, "refund_queued", "refund_processing")
             /\ SetStatus(t.order, "refund_processing") /\ Begin(c, "outcome", t)
    BY <1>n, <2>1, <2>2, <2>4 DEF Wins
  <2>5. QED
    BY <2>1, <2>3, <2>4
<1>5. ASSUME NEW c \in ChainWorkers, RefundOutcome(c) PROVE Good
  <2>1. CASE OutcomeOpen(chainTask[c].order)
    BY <1>5, <1>g, <2>1 DEF RefundOutcome, GoOn
  <2>2. CASE ~OutcomeOpen(chainTask[c].order)
    BY <1>5, <1>f, <2>2 DEF RefundOutcome
  <2>3. QED
    BY <2>1, <2>2
<1>6. ASSUME NEW c \in ChainWorkers, SweepReads(c) PROVE Good
  BY <1>6, <1>g DEF SweepReads, orderVars
<1>7. ASSUME NEW c \in ChainWorkers, SweepReadFails(c) PROVE Good
  BY <1>7, <1>g DEF SweepReadFails, GoOn, orderVars
<1>8. ASSUME NEW c \in ChainWorkers, SweepLands(c) PROVE Good
  BY <1>8, <1>g DEF SweepLands, GoOn, orderVars
<1>9. ASSUME NEW c \in ChainWorkers, SweepRejected(c) PROVE Good
  BY <1>9, <1>g DEF SweepRejected, GoOn, orderVars
<1>10. ASSUME NEW c \in ChainWorkers, SweepAnswerLost(c) PROVE Good
  BY <1>10, <1>g DEF SweepAnswerLost, GoOn, orderVars
<1>11. ASSUME NEW c \in ChainWorkers, SweepTimesOut(c) PROVE Good
  BY <1>11, <1>g DEF SweepTimesOut, GoOn, orderVars
<1>12. ASSUME NEW c \in ChainWorkers, SweepRecord(c) PROVE Good
  BY <1>12, <1>m DEF SweepRecord
<1>13. ASSUME NEW c \in ChainWorkers, SweepRetry(c) PROVE Good
  BY <1>13, <1>g DEF SweepRetry, GoOn
<1>14. ASSUME NEW c \in ChainWorkers, SweepRequeue(c) PROVE Good
  BY <1>14, <1>m DEF SweepRequeue
<1>15. ASSUME NEW c \in ChainWorkers, ReclaimProbe(c) PROVE Good
  <2>1. PICK t \in chainBatch[c] : Begin(c, "markGone", t) \/ Begin(c, "close", t)
    BY <1>15 DEF ReclaimProbe
  <2>2. QED
    BY <1>15, <1>e, <2>1 DEF ReclaimProbe, Begin, orderVars
<1>16. ASSUME NEW c \in ChainWorkers, ReclaimProbeFails(c) PROVE Good
  BY <1>16, <1>u DEF ReclaimProbeFails, orderVars
<1>17. ASSUME NEW c \in ChainWorkers, ReclaimLands(c) PROVE Good
  <2>1. ChainKeeps /\ UNCHANGED status
    BY <1>17, <1>t DEF ReclaimLands, GoOn, orderVars, ChainKeeps, ChainHolds, ChainTypeOK
  <2>2. QED
    BY <1>c, <2>1, ChainKept
<1>18. ASSUME NEW c \in ChainWorkers, ReclaimRejected(c) \/ ReclaimLost(c) PROVE Good
  BY <1>18, <1>f DEF ReclaimRejected, ReclaimLost, orderVars
<1>19. ASSUME NEW c \in ChainWorkers, MarkReclaimed(c) PROVE Good
  BY <1>19, <1>f DEF MarkReclaimed
<1>20. ASSUME NEW c \in ChainWorkers, ChainCrash(c) PROVE Good
  BY <1>20, <1>f DEF ChainCrash, orderVars
<1>21. Good /\ UNCHANGED <<detVars, payVars>>
  BY <1>1, <1>2, <1>3, <1>4, <1>5, <1>6, <1>7, <1>8, <1>9, <1>10, <1>11, <1>12, <1>13,
     <1>14, <1>15, <1>16, <1>17, <1>18, <1>19, <1>20
     DEF ChainRuns, OnlyChain, OnlyLedger
<1>22. DetectorsKeep /\ PayoutsKeep
  BY <1>21, DetectorsIdle, PayoutsIdle
<1>23. QED
  BY <1>21, <1>22, DetectorsKept, PayoutsKept DEF Claims

-----------------------------------------------------------------------------
\* A step that changes nothing.
LEMMA ClaimsStutter == Claims /\ UNCHANGED vars => Claims'
  BY DEF vars, orderVars, detVars, payVars, chainVars, Claims, DetectorClaims, PayoutClaims,
         ChainClaims, DetectorHolds, PayoutHolds, ChainHolds

\* In every reachable state a held order is where its holder's claim left it.
LEMMA ClaimsCorrect == Spec => [](TypeOK /\ Claims)
<1>1. TypeOK /\ Claims /\ [Next]_vars => Claims'
  BY ClaimsDetection, ClaimsPayouts, ClaimsChain, ClaimsStutter DEF Next
<1>2. QED
  BY <1>1, ClaimsInit, TypeCorrect, PTL DEF Spec

\* However many worker processes run, no two handlers ever hold one order, handlers of
\* different loops included, whatever is lost and wherever they crash (claim.go, ClaimStatus:
\* "returns true only for the caller that actually performed the move").
THEOREM AlwaysOneHolder == Spec => []OneHolder
  BY ClaimsCorrect, ClaimsExclude, PTL

\* The whole inductive invariant of the settlement: types, claims and decisions together.
THEOREM InvariantCorrect == Spec => []IInv
<1>1. TypeOK /\ Claims /\ MoneyInv => IInv
  BY DEF IInv, MoneyInv
<1>2. QED
  BY <1>1, ClaimsCorrect, MoneyCorrect, PTL

=============================================================================
