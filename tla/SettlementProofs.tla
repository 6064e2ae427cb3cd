-------------------------- MODULE SettlementProofs --------------------------
(***************************************************************************)
(* Every step of Settlement keeps TypeOK, its conjuncts one after the      *)
(* other: the rows, the ledger, the fault budgets and the three kinds of   *)
(* handlers.  A conjunct a step leaves alone is carried over by a frame    *)
(* lemma; the rest needs the type a helper of the model leaves behind.     *)
(***************************************************************************)
EXTENDS Settlement, TLAPS

\* The names used below are states.
LEMMA NamedStates ==
    /\ "initiated" \in States /\ "awaiting_deposit" \in States /\ "deposit_detected" \in States
    /\ "payout_queued" \in States /\ "payout_processing" \in States /\ "disbursed" \in States
    /\ "sweep_queued" \in States /\ "sweep_processing" \in States
    /\ "settled_in_treasury" \in States /\ "refund_queued" \in States
    /\ "refund_processing" \in States /\ "refunded" \in States
    /\ "expired" \in States /\ "failed" \in States
  BY DEF States, FiatLeg, SweepLeg, RefundLeg

\* An empty account holds an amount in range.
LEMMA ZeroUnits ==
    /\ 0 \in Units
    /\ \A n : n \in Units <=> n \in Nat /\ n <= MaxUnits
  BY OrderAssumptions DEF OrderAssumptions, Units

\* Moving an order to a state keeps the status column well typed.
LEMMA MoveKeepsType ==
    ASSUME StoreTypeOK, NEW o, NEW from, NEW to \in States,
           ClaimStatus(o, from, to) \/ ReleaseStatus(o, from, to) \/ SetStatus(o, to)
    PROVE  status' \in [Orders -> States]
  BY DEF StoreTypeOK, ClaimStatus, ReleaseStatus, SetStatus

\* A statement that touches no other column keeps the row well typed.
LEMMA DataKeepsType ==
    ASSUME StoreTypeOK, status' \in [Orders -> States], UNCHANGED dataColumns
    PROVE  StoreTypeOK'
  BY DEF StoreTypeOK, dataColumns

\* The initial state is well typed.
LEMMA TypeInit == Init => TypeOK
<1> SUFFICES ASSUME Init PROVE TypeOK
  OBVIOUS
<1> USE DEF Init
<1>1. StoreTypeOK
  BY NamedStates, ZeroUnits DEF StoreInit, StoreTypeOK, Outcomes
<1>2. LedgerTypeOK
  <2>1. \A o \in Orders : Sent(o) <= MaxUnits
    BY ZeroUnits DEF LedgerInit, Sent
  <2>2. QED
    BY ZeroUnits, <2>1 DEF LedgerInit, LedgerTypeOK
<1>3. FaultsTypeOK
  BY FaultBudgets DEF FaultBudgets, FaultsInit, FaultsTypeOK
<1>4. DepositsTypeOK
  BY ZeroUnits DEF DepositsInit, DepositsTypeOK
<1>5. PayoutsTypeOK
  BY DEF PayoutsInit, PayoutsTypeOK, PayPcs
<1>6. ChainTypeOK
  BY ZeroUnits DEF ChainInit, ChainTypeOK, ChainPcs
<1>7. QED
  BY <1>1, <1>2, <1>3, <1>4, <1>5, <1>6 DEF TypeOK

\* Steps of a component keep the variables of the others well typed.
LEMMA FaultsKeepType ==
    ASSUME FaultsTypeOK, Lose \/ Crash \/ UNCHANGED faultVars PROVE FaultsTypeOK'
  BY FaultBudgets DEF FaultBudgets, FaultsTypeOK, Lose, Crash, faultVars

\* A step that leaves the ledger alone leaves it well typed; likewise for the rows,
\* the detectors, the payout workers and the chain workers.
LEMMA LedgerFrame == ASSUME LedgerTypeOK, UNCHANGED ledgerVars PROVE LedgerTypeOK'
  BY DEF LedgerTypeOK, ledgerVars, Sent

\* The rows, left alone.
LEMMA StoreFrame == ASSUME StoreTypeOK, UNCHANGED orderVars PROVE StoreTypeOK'
  BY DEF StoreTypeOK, orderVars

\* The detectors, left alone.
LEMMA DepositsFrame == ASSUME DepositsTypeOK, UNCHANGED detVars PROVE DepositsTypeOK'
  BY DEF DepositsTypeOK, detVars

\* The payout workers, left alone.
LEMMA PayoutsFrame == ASSUME PayoutsTypeOK, UNCHANGED payVars PROVE PayoutsTypeOK'
  BY DEF PayoutsTypeOK, payVars

\* The chain workers, left alone.
LEMMA ChainFrame == ASSUME ChainTypeOK, UNCHANGED chainVars PROVE ChainTypeOK'
  BY DEF ChainTypeOK, chainVars

-----------------------------------------------------------------------------
(* Detection keeps the types *)

\* A detector that starts on an order, or ends, stays well typed.
LEMMA HandleKeepsType ==
    ASSUME DepositsTypeOK, NEW d \in Detectors, NEW pc \in {"idle", "record", "queue", "expire"},
           NEW o \in Orders \union {NoOrder}, pc # "idle" => o \in Orders,
           NEW units \in Units, NEW from \in BOOLEAN,
           Handle(d, pc, o, units, from),
           deadlinePassed' \in [Orders -> BOOLEAN],
           detBatch' \in [Detectors -> SUBSET Orders]
    PROVE  DepositsTypeOK'
  BY DEF DepositsTypeOK, Handle

\* A handler that ends, whatever it worked on, leaves the detectors well typed.
LEMMA HandlerDoneKeepsType ==
    ASSUME DepositsTypeOK, NEW d \in Detectors, HandlerDone(d),
           UNCHANGED deadlinePassed, detBatch' \in [Detectors -> SUBSET Orders]
    PROVE  DepositsTypeOK'
  BY ZeroUnits DEF DepositsTypeOK, HandlerDone, Handle

\* A move of an order by a handler that touches no other column and no ledger entry.
LEMMA BareMoveKeepsType ==
    ASSUME TypeOK, NEW o, NEW from, NEW to \in States,
           ClaimStatus(o, from, to) \/ ReleaseStatus(o, from, to) \/ UNCHANGED status,
           UNCHANGED dataColumns
    PROVE  StoreTypeOK'
<1>1. status' \in [Orders -> States]
  BY MoveKeepsType DEF TypeOK, StoreTypeOK
<1>2. QED
  BY <1>1, DataKeepsType DEF TypeOK

\* Every step of deposit detection keeps TypeOK.
LEMMA TypeDetection == TypeOK /\ DetectionRuns => TypeOK'
<1> SUFFICES ASSUME TypeOK, DetectionRuns PROVE TypeOK'
  OBVIOUS
<1> DEFINE Good == StoreTypeOK' /\ LedgerTypeOK' /\ FaultsTypeOK' /\ DepositsTypeOK'
<1>t. StoreTypeOK /\ LedgerTypeOK /\ FaultsTypeOK /\ DepositsTypeOK /\ PayoutsTypeOK /\ ChainTypeOK
  BY DEF TypeOK
<1>1. ASSUME NEW o \in Orders, DeadlinePasses(o) PROVE Good
  BY <1>1, <1>t, StoreFrame, LedgerFrame, FaultsKeepType DEF DeadlinePasses, DepositsTypeOK
<1>2. ASSUME NEW d \in Detectors, Record(d) PROVE Good
  <2> DEFINE o == detOrder[d]
  <2>1. LedgerTypeOK' /\ FaultsTypeOK'
    BY <1>2, <1>t, LedgerFrame, FaultsKeepType DEF Record
  <2>2. CASE Wins(o, "awaiting_deposit", "deposit_detected")
    <3>1. status' \in [Orders -> States]
      BY <1>2, <1>t, <2>2, MoveKeepsType, NamedStates DEF Record
    <3>2. StoreTypeOK'
      BY <1>2, <1>t, <2>2, <3>1 DEF Record, StoreTypeOK, DepositsTypeOK
    <3>3. DepositsTypeOK'
      BY <1>2, <1>t, <2>2 DEF Record, DepositsTypeOK
    <3>4. QED
      BY <2>1, <3>2, <3>3
  <2>3. CASE ~Wins(o, "awaiting_deposit", "deposit_detected")
    <3>1. StoreTypeOK'
      BY <1>2, <1>t, <2>3 DEF Record, StoreTypeOK
    <3>2. HandlerDone(d) /\ UNCHANGED <<deadlinePassed, detBatch>>
      BY <1>2, <2>3 DEF Record
    <3>3. DepositsTypeOK'
      BY <1>t, <3>2, HandlerDoneKeepsType DEF DepositsTypeOK
    <3>4. QED
      BY <2>1, <3>1, <3>3
  <2>4. QED
    BY <2>2, <2>3
<1>3. ASSUME NEW d \in Scanners, ScannerQuery(d) PROVE Good
  BY <1>3, <1>t, StoreFrame, LedgerFrame, FaultsKeepType
     DEF ScannerQuery, InState, DepositsTypeOK, Detectors
<1>4. ASSUME NEW d \in Scanners, ScannerReads(d) PROVE Good
  <2>1. StoreTypeOK' /\ LedgerTypeOK' /\ FaultsTypeOK'
    BY <1>4, <1>t, StoreFrame, LedgerFrame, FaultsKeepType DEF ScannerReads
  <2>2. PICK o \in detBatch[d] :
           /\ detBatch' = [detBatch EXCEPT ![d] = @ \ {o}]
           /\ IF balance[o] > 0
              THEN \E from \in BOOLEAN : Handle(d, "record", o, balance[o], from)
              ELSE Handle(d, "expire", o, 0, FALSE)
    BY <1>4 DEF ScannerReads
  <2>3. d \in Detectors /\ o \in Orders /\ balance[o] \in Units
    BY <1>t DEF DepositsTypeOK, LedgerTypeOK, Detectors
  <2>4. deadlinePassed' \in [Orders -> BOOLEAN] /\ detBatch' \in [Detectors -> SUBSET Orders]
    BY <1>4, <1>t, <2>2, <2>3 DEF ScannerReads, DepositsTypeOK
  <2>5. CASE balance[o] > 0
    <3>1. PICK from \in BOOLEAN : Handle(d, "record", o, balance[o], from)
      BY <2>2, <2>5
    <3>2. QED
      BY <1>t, <2>1, <2>3, <2>4, <3>1, HandleKeepsType
  <2>6. CASE ~(balance[o] > 0)
    BY <1>t, <2>1, <2>2, <2>3, <2>4, <2>6, HandleKeepsType, ZeroUnits
  <2>7. QED
    BY <2>5, <2>6
<1>5. ASSUME NEW d \in Scanners, ScannerReadFails(d) PROVE Good
  BY <1>5, <1>t, StoreFrame, LedgerFrame, FaultsKeepType
     DEF ScannerReadFails, DepositsTypeOK, Detectors
<1>6. ASSUME NEW d \in Streams, StreamReads(d) PROVE Good
  <2>1. StoreTypeOK' /\ LedgerTypeOK' /\ FaultsTypeOK'
    BY <1>6, <1>t, StoreFrame, LedgerFrame, FaultsKeepType DEF StreamReads
  <2>2. PICK o \in Orders : Handle(d, "record", o, balance[o], TRUE)
    BY <1>6 DEF StreamReads
  <2>3. d \in Detectors /\ balance[o] \in Units
    BY <1>t DEF LedgerTypeOK, Detectors
  <2>4. deadlinePassed' \in [Orders -> BOOLEAN] /\ detBatch' \in [Detectors -> SUBSET Orders]
    BY <1>6, <1>t DEF StreamReads, DepositsTypeOK
  <2>5. QED
    BY <1>t, <2>1, <2>2, <2>3, <2>4, HandleKeepsType
<1>7. ASSUME NEW d \in Detectors, QueuePayout(d) PROVE Good
  <2>1. StoreTypeOK'
    BY <1>7, BareMoveKeepsType, NamedStates DEF QueuePayout
  <2>2. DepositsTypeOK'
    BY <1>7, <1>t, HandlerDoneKeepsType DEF QueuePayout, DepositsTypeOK
  <2>3. QED
    BY <1>7, <1>t, <2>1, <2>2, LedgerFrame, FaultsKeepType DEF QueuePayout
<1>8. ASSUME NEW d \in Detectors, EnqueueFails(d) PROVE Good
  <2>1. StoreTypeOK'
    BY <1>8, BareMoveKeepsType, NamedStates DEF EnqueueFails
  <2>2. DepositsTypeOK'
    BY <1>8, <1>t, HandlerDoneKeepsType DEF EnqueueFails, DepositsTypeOK
  <2>3. QED
    BY <1>8, <1>t, <2>1, <2>2, LedgerFrame, FaultsKeepType DEF EnqueueFails
<1>9. ASSUME NEW d \in Scanners, Expire(d) PROVE Good
  <2>1. StoreTypeOK'
    BY <1>9, BareMoveKeepsType, NamedStates DEF Expire
  <2>2. DepositsTypeOK'
    BY <1>9, <1>t, HandlerDoneKeepsType DEF Expire, DepositsTypeOK, Detectors
  <2>3. QED
    BY <1>9, <1>t, <2>1, <2>2, LedgerFrame, FaultsKeepType DEF Expire
<1>10. ASSUME NEW d \in Detectors, DetectorCrash(d) PROVE Good
  <2>1. detBatch' \in [Detectors -> SUBSET Orders]
    BY <1>10, <1>t DEF DetectorCrash, DepositsTypeOK
  <2>2. DepositsTypeOK'
    BY <1>10, <1>t, <2>1, HandlerDoneKeepsType DEF DetectorCrash
  <2>3. QED
    BY <1>10, <1>t, <2>2, StoreFrame, LedgerFrame, FaultsKeepType DEF DetectorCrash
<1>11. Good /\ OnlyDetection
  BY <1>1, <1>2, <1>3, <1>4, <1>5, <1>6, <1>7, <1>8, <1>9, <1>10 DEF DetectionRuns
<1>12. QED
  BY <1>t, <1>11, PayoutsFrame, ChainFrame DEF OnlyDetection, TypeOK

-----------------------------------------------------------------------------
(* The payout workers keep the types *)

\* What a step of a payout worker leaves typed when it moves neither worker nor row.
PayDataOK ==
    /\ payout \in [Orders -> {"unknown", "queued", "paid", "failed"}]
    /\ delayed \in [Orders -> BOOLEAN]
    /\ payBatch \in [PayoutWorkers -> SUBSET Rows]

\* A worker in a row's handler goes to another of its statements.
LEMMA GotoKeepsType ==
    ASSUME PayoutsTypeOK, NEW p \in PayoutWorkers, payPc[p] # "idle", NEW pc \in PayPcs,
           Goto(p, pc), PayDataOK'
    PROVE  PayoutsTypeOK'
  BY DEF PayoutsTypeOK, PayDataOK, Goto

\* A worker is done with its row.
LEMMA PayDoneKeepsType ==
    ASSUME PayoutsTypeOK, NEW p \in PayoutWorkers, PayDone(p), PayDataOK'
    PROVE  PayoutsTypeOK'
  BY DEF PayoutsTypeOK, PayDataOK, PayDone, PayPcs

\* Whatever the Linq API reports leads to a statement of the handler.
LEMMA ResultsLeadOn ==
    \A s : AfterResult(s) \in PayPcs /\ AfterResult(s) # "idle"
<1> TAKE s
<1>1. CASE s = "paid"
  <2>1. AfterResult(s) = "outcome"
    BY <1>1, Zenon DEF AfterResult
  <2>2. QED
    BY <2>1 DEF PayPcs
<1>2. CASE s = "failed"
  <2>1. AfterResult(s) = "retry"
    BY <1>2, Zenon DEF AfterResult
  <2>2. QED
    BY <2>1 DEF PayPcs
<1>3. CASE s # "paid" /\ s # "failed"
  <2>1. AfterResult(s) = "release"
    BY <1>3, Zenon DEF AfterResult
  <2>2. QED
    BY <2>1 DEF PayPcs
<1>4. QED
  BY <1>1, <1>2, <1>3

\* The control points of a payout worker used below.
LEMMA NamedPayPcs ==
    /\ "idle" \in PayPcs /\ "submit" \in PayPcs /\ "ask" \in PayPcs /\ "outcome" \in PayPcs
    /\ "disburse" \in PayPcs /\ "queueSweep" \in PayPcs /\ "retry" \in PayPcs
    /\ "requeue" \in PayPcs /\ "release" \in PayPcs
  BY DEF PayPcs

\* Every step of the payout workers, the bank and the network to it keeps TypeOK.
LEMMA TypePayouts == TypeOK /\ PayoutRuns => TypeOK'
<1> SUFFICES ASSUME TypeOK, PayoutRuns PROVE TypeOK'
  OBVIOUS
<1> DEFINE Good == StoreTypeOK' /\ FaultsTypeOK' /\ PayoutsTypeOK'
<1>t. StoreTypeOK /\ FaultsTypeOK /\ PayoutsTypeOK
  BY DEF TypeOK
<1>d. PayDataOK /\ \A p \in PayoutWorkers : payPc[p] # "idle" => payRow[p] \in Rows
  BY <1>t DEF PayoutsTypeOK, PayDataOK
<1>r. \A p \in PayoutWorkers : payPc[p] # "idle" =>
        payRow[p].order \in Orders /\ payRow[p].attempts \in Nat
  BY <1>d DEF Rows
<1>1. ASSUME NEW o \in Orders, BankDecides(o) PROVE Good
  <2>1. PayoutsTypeOK'
    BY <1>1, <1>t DEF BankDecides, SetPayout, PayoutsTypeOK
  <2>2. QED
    BY <1>1, <1>t, <2>1, StoreFrame, FaultsKeepType DEF BankDecides
<1>2. ASSUME NEW o \in Orders, DelayedArrives(o) PROVE Good
  <2>1. PayoutsTypeOK'
    BY <1>2, <1>t DEF DelayedArrives, SetPayout, PayoutsTypeOK
  <2>2. QED
    BY <1>2, <1>t, <2>1, StoreFrame, FaultsKeepType DEF DelayedArrives
<1>3. ASSUME NEW p \in PayoutWorkers, PayQuery(p) PROVE Good
  <2> DEFINE rows == {[order |-> o, attempts |-> payoutAttempts[o]] : o \in InState("payout_queued")}
  <2>1. rows \in SUBSET Rows
    BY <1>t DEF StoreTypeOK, InState, Rows
  <2>2. PayoutsTypeOK'
    BY <1>3, <1>t, <2>1 DEF PayQuery, providerVars, PayoutsTypeOK
  <2>3. QED
    BY <1>3, <1>t, <2>2, StoreFrame, FaultsKeepType DEF PayQuery
<1>4. ASSUME NEW p \in PayoutWorkers, PayClaim(p) PROVE Good
  <2>1. PICK row \in payBatch[p] :
           /\ payBatch' = [payBatch EXCEPT ![p] = @ \ {row}]
           /\ ClaimStatus(row.order, "payout_queued", "payout_processing")
           /\ IF Wins(row.order, "payout_queued", "payout_processing")
              THEN /\ payPc' = [payPc EXCEPT ![p] = "submit"]
                   /\ payRow' = [payRow EXCEPT ![p] = row]
              ELSE UNCHANGED <<payPc, payRow>>
    BY <1>4 DEF PayClaim
  <2>2. StoreTypeOK'
    BY <1>4, <2>1, BareMoveKeepsType, NamedStates DEF PayClaim
  <2>3. row \in Rows /\ payBatch' \in [PayoutWorkers -> SUBSET Rows]
    BY <1>t, <2>1 DEF PayoutsTypeOK
  <2>4. PayoutsTypeOK'
    BY <1>4, <1>t, <2>1, <2>3, NamedPayPcs DEF PayClaim, providerVars, PayoutsTypeOK
  <2>5. QED
    BY <1>4, <1>t, <2>2, <2>4, FaultsKeepType DEF PayClaim
<1>5. ASSUME NEW p \in PayoutWorkers, PaySubmit(p) PROVE Good
  <2>1. PICK s \in {"queued", "paid", "failed"} :
           SetPayout(payRow[p].order, s) /\ Goto(p, AfterResult(s))
    BY <1>5 DEF PaySubmit
  <2>2. PayDataOK'
    BY <1>5, <1>d, <2>1 DEF PaySubmit, PayDataOK, SetPayout
  <2>3. PayoutsTypeOK'
    BY <1>5, <1>t, <2>1, <2>2, GotoKeepsType, ResultsLeadOn DEF PaySubmit
  <2>4. QED
    BY <1>5, <1>t, <2>3, StoreFrame, FaultsKeepType DEF PaySubmit
<1>6. ASSUME NEW p \in PayoutWorkers, PayAnswerLost(p) PROVE Good
  <2>1. PayDataOK'
    BY <1>6, <1>d DEF PayAnswerLost, PayDataOK, SetPayout
  <2>2. PayoutsTypeOK'
    BY <1>6, <1>t, <2>1, GotoKeepsType, NamedPayPcs DEF PayAnswerLost
  <2>3. QED
    BY <1>6, <1>t, <2>2, StoreFrame, FaultsKeepType DEF PayAnswerLost
<1>7. ASSUME NEW p \in PayoutWorkers, PayRequestLost(p) PROVE Good
  <2>1. PayDataOK'
    BY <1>7, <1>d DEF PayRequestLost, PayDataOK
  <2>2. PayoutsTypeOK'
    BY <1>7, <1>t, <2>1, GotoKeepsType, NamedPayPcs DEF PayRequestLost
  <2>3. QED
    BY <1>7, <1>t, <2>2, StoreFrame, FaultsKeepType DEF PayRequestLost
<1>8. ASSUME NEW p \in PayoutWorkers, PayAsk(p) PROVE Good
  <2>1. PayDataOK' /\ payPc[p] # "idle"
    BY <1>8, <1>d DEF PayAsk, PayDataOK, providerVars
  <2>2. PICK pc \in PayPcs : Goto(p, pc)
    BY <1>8, ResultsLeadOn, NamedPayPcs DEF PayAsk
  <2>3. PayoutsTypeOK'
    BY <1>t, <2>1, <2>2, GotoKeepsType
  <2>4. QED
    BY <1>8, <1>t, <2>3, StoreFrame, FaultsKeepType DEF PayAsk
<1>9. ASSUME NEW p \in PayoutWorkers, PayAskLost(p) PROVE Good
  <2>1. PayDataOK'
    BY <1>9, <1>d DEF PayAskLost, PayDataOK, providerVars
  <2>2. PayoutsTypeOK'
    BY <1>9, <1>t, <2>1, GotoKeepsType, NamedPayPcs DEF PayAskLost
  <2>3. QED
    BY <1>9, <1>t, <2>2, StoreFrame, FaultsKeepType DEF PayAskLost
<1>10. ASSUME NEW p \in PayoutWorkers, PayRelease(p) PROVE Good
  <2>1. PayDataOK'
    BY <1>10, <1>d DEF PayRelease, PayDataOK, providerVars
  <2>2. PayoutsTypeOK'
    BY <1>10, <1>t, <2>1, PayDoneKeepsType DEF PayRelease
  <2>3. StoreTypeOK'
    BY <1>10, BareMoveKeepsType, NamedStates DEF PayRelease
  <2>4. QED
    BY <1>10, <1>t, <2>2, <2>3, FaultsKeepType DEF PayRelease
<1>11. ASSUME NEW p \in PayoutWorkers, PayOutcome(p) PROVE Good
  <2>1. PayDataOK' /\ payPc[p] # "idle"
    BY <1>11, <1>d DEF PayOutcome, PayDataOK, providerVars
  <2>2. PayoutsTypeOK'
    BY <1>11, <1>t, <2>1, PayDoneKeepsType, GotoKeepsType, NamedPayPcs DEF PayOutcome
  <2>3. StoreTypeOK'
    BY <1>11, <1>t, <1>r DEF PayOutcome, SetOutcome, StoreTypeOK, Outcomes
  <2>4. QED
    BY <1>11, <1>t, <2>2, <2>3, FaultsKeepType DEF PayOutcome
<1>12. ASSUME NEW p \in PayoutWorkers, PayDisburse(p) PROVE Good
  <2>1. PayDataOK'
    BY <1>12, <1>d DEF PayDisburse, PayDataOK, providerVars
  <2>2. PayoutsTypeOK'
    BY <1>12, <1>t, <2>1, GotoKeepsType, NamedPayPcs DEF PayDisburse
  <2>3. StoreTypeOK'
    BY <1>12, BareMoveKeepsType, NamedStates DEF PayDisburse
  <2>4. QED
    BY <1>12, <1>t, <2>2, <2>3, FaultsKeepType DEF PayDisburse
<1>13. ASSUME NEW p \in PayoutWorkers, PayQueueSweep(p) PROVE Good
  <2>1. PayDataOK'
    BY <1>13, <1>d DEF PayQueueSweep, PayDataOK, providerVars
  <2>2. PayoutsTypeOK'
    BY <1>13, <1>t, <2>1, PayDoneKeepsType DEF PayQueueSweep
  <2>3. StoreTypeOK'
    BY <1>13, BareMoveKeepsType, NamedStates DEF PayQueueSweep
  <2>4. QED
    BY <1>13, <1>t, <2>2, <2>3, FaultsKeepType DEF PayQueueSweep
<1>14. ASSUME NEW p \in PayoutWorkers, PayRetry(p) PROVE Good
  <2>1. PayDataOK'
    BY <1>14, <1>d DEF PayRetry, PayDataOK, providerVars
  <2>2. PayoutsTypeOK'
    BY <1>14, <1>t, <2>1, GotoKeepsType, NamedPayPcs DEF PayRetry
  <2>3. StoreTypeOK'
    BY <1>14, <1>t, <1>r DEF PayRetry, StoreTypeOK
  <2>4. QED
    BY <1>14, <1>t, <2>2, <2>3, FaultsKeepType DEF PayRetry
<1>15. ASSUME NEW p \in PayoutWorkers, PayRequeue(p) PROVE Good
  <2>1. PayDataOK'
    BY <1>15, <1>d DEF PayRequeue, PayDataOK, providerVars
  <2>2. PayoutsTypeOK'
    BY <1>15, <1>t, <2>1, PayDoneKeepsType DEF PayRequeue
  <2>3. StoreTypeOK'
    BY <1>15, BareMoveKeepsType, NamedStates DEF PayRequeue
  <2>4. QED
    BY <1>15, <1>t, <2>2, <2>3, FaultsKeepType DEF PayRequeue
<1>16. ASSUME NEW p \in PayoutWorkers, PayCrash(p) PROVE Good
  <2>1. PayDataOK'
    BY <1>16, <1>d DEF PayCrash, PayDataOK
  <2>2. PayoutsTypeOK'
    BY <1>16, <1>t, <2>1, PayDoneKeepsType DEF PayCrash
  <2>3. QED
    BY <1>16, <1>t, <2>2, StoreFrame, FaultsKeepType DEF PayCrash
<1>17. Good /\ OnlyPayouts
  BY <1>1, <1>2, <1>3, <1>4, <1>5, <1>6, <1>7, <1>8, <1>9, <1>10, <1>11, <1>12, <1>13,
     <1>14, <1>15, <1>16 DEF PayoutRuns
<1>18. QED
  BY <1>17, LedgerFrame, DepositsFrame, ChainFrame DEF OnlyPayouts, TypeOK

-----------------------------------------------------------------------------
(* The ledger and the chain workers keep the types *)

\* A chain worker that goes on to its next statement stays well typed.
LEMMA GoOnKeepsType ==
    ASSUME ChainTypeOK, NEW c \in ChainWorkers, chainPc[c] # "idle", NEW pc \in ChainPcs,
           GoOn(c, pc), UNCHANGED chainBatch
    PROVE  ChainTypeOK'
  BY DEF ChainTypeOK, GoOn

\* A chain worker that ends its handler stays well typed.
LEMMA ChainDoneKeepsType ==
    ASSUME ChainTypeOK, NEW c \in ChainWorkers, ChainDone(c),
           chainBatch' \in [ChainWorkers -> SUBSET Tasks]
    PROVE  ChainTypeOK'
  BY ZeroUnits DEF ChainTypeOK, ChainDone, ChainPcs

\* A chain worker that takes a selected row stays well typed.
LEMMA BeginKeepsType ==
    ASSUME ChainTypeOK, NEW c \in ChainWorkers, NEW pc \in ChainPcs, NEW t \in Tasks,
           Begin(c, pc, t), chainBatch' \in [ChainWorkers -> SUBSET Tasks]
    PROVE  ChainTypeOK'
  BY DEF ChainTypeOK, Begin

\* The control points of a chain worker used below.
LEMMA NamedChainPcs ==
    /\ "idle" \in ChainPcs /\ "outcome" \in ChainPcs /\ "read" \in ChainPcs
    /\ "send" \in ChainPcs /\ "record" \in ChainPcs /\ "retry" \in ChainPcs
    /\ "requeue" \in ChainPcs /\ "close" \in ChainPcs /\ "markClosed" \in ChainPcs
    /\ "markGone" \in ChainPcs
  BY DEF ChainPcs

\* A teardown the ledger takes moves USDC but makes none.
LEMMA TeardownKeepsType ==
    ASSUME LedgerTypeOK, NEW o \in Orders, NEW tx \in Teardowns,
           LedgerAccepts(o, tx), Teardown(o, tx),
           pending' \in [Orders -> SUBSET Teardowns]
    PROVE  LedgerTypeOK'
<1> DEFINE b == balance[o]
           t == treasury[o]
           r == returned[o]
           tt == IF tx.to = "treasury" THEN t + tx.amount ELSE t
           rr == IF tx.to = "payer" THEN r + tx.amount ELSE r
<1>1. b \in Nat /\ t \in Nat /\ r \in Nat /\ b + t + r <= MaxUnits /\ tx.amount = b
  BY ZeroUnits DEF LedgerTypeOK, LedgerAccepts, Sent
<1>a. ASSUME NEW x \in Nat, NEW y \in Nat, NEW z \in Nat, x + y + z <= MaxUnits
      PROVE  0 + y + z <= MaxUnits
  BY <1>a, OrderAssumptions
<1>2. tt \in Nat /\ rr \in Nat /\ 0 + tt + rr <= MaxUnits
  <2>1. CASE tx.to = "treasury"
    <3>1. tt = t + b /\ rr = r
      BY <1>1, <2>1
    <3>2. QED
      BY <1>1, <3>1
  <2>2. CASE tx.to = "payer"
    <3>1. tt = t /\ rr = r + b
      BY <1>1, <2>2
    <3>2. QED
      BY <1>1, <3>1
  <2>3. CASE tx.to # "treasury" /\ tx.to # "payer"
    <3>1. tt = t /\ rr = r
      BY <2>3
    <3>2. QED
      BY <1>1, <1>a, <3>1
  <2>4. QED
    BY <2>1, <2>2, <2>3
<1>3. /\ accountOpen' \in [Orders -> BOOLEAN]
      /\ balance' = [balance EXCEPT ![o] = 0]
      /\ treasury' = [treasury EXCEPT ![o] = tt]
      /\ returned' = [returned EXCEPT ![o] = rr]
  BY DEF Teardown, LedgerTypeOK
<1> HIDE DEF tt, rr
<1>4. tt \in Units /\ rr \in Units
  <2>1. tt <= MaxUnits /\ rr <= MaxUnits
    BY <1>2, OrderAssumptions
  <2>2. QED
    BY <1>2, <2>1, ZeroUnits
<1>5. /\ balance' \in [Orders -> Units]
      /\ treasury' \in [Orders -> Units]
      /\ returned' \in [Orders -> Units]
  BY <1>3, <1>4, ZeroUnits DEF LedgerTypeOK
<1>6. ASSUME NEW q \in Orders PROVE balance'[q] + treasury'[q] + returned'[q] <= MaxUnits
  <2>1. CASE q = o
    BY <1>2, <1>3, <2>1 DEF LedgerTypeOK
  <2>2. CASE q # o
    BY <1>3, <2>2 DEF LedgerTypeOK, Sent
  <2>3. QED
    BY <2>1, <2>2
<1>7. QED
  BY <1>3, <1>5, <1>6 DEF LedgerTypeOK, Sent

\* What a chain worker submits, and a submission kept as pending, is a teardown.
LEMMA SweepTxType ==
    ASSUME ChainTypeOK, NEW c \in ChainWorkers PROVE SweepTx(c) \in Teardowns
  BY DEF ChainTypeOK, SweepTx, Destination, Teardowns

\* A submission that may still land is one of the teardowns.
LEMMA PendingKeepsType ==
    ASSUME LedgerTypeOK, NEW o \in Orders, NEW tx \in Teardowns,
           \/ pending' = [pending EXCEPT ![o] = @ \union {tx}]
           \/ pending' = [pending EXCEPT ![o] = @ \ {tx}]
    PROVE  pending' \in [Orders -> SUBSET Teardowns]
  BY DEF LedgerTypeOK

\* A queue's rows are tasks.
LEMMA QueuedRowsAreTasks ==
    ASSUME StoreTypeOK, NEW job \in Jobs
    PROVE  {[job |-> job, order |-> o, attempts |-> AttemptsOf(job, o)] : o \in QueueOf(job)}
                \in SUBSET Tasks
<1>1. CASE job = "sweep"
  BY <1>1 DEF StoreTypeOK, QueueOf, AttemptsOf, InState, Tasks
<1>2. CASE job = "refund"
  BY <1>2 DEF StoreTypeOK, QueueOf, AttemptsOf, InState, Tasks
<1>3. CASE job = "reclaim"
  BY <1>3 DEF StoreTypeOK, QueueOf, AttemptsOf, InState, Tasks
<1>4. QED
  BY <1>1, <1>2, <1>3 DEF Jobs

\* The states a job's order moves through are states.
LEMMA JobStates ==
    \A job : Queued(job) \in States /\ Processing(job) \in States /\ Finished(job) \in States
  BY NamedStates DEF Queued, Processing, Finished

\* Every step of the ledger and its payers keeps TypeOK.
LEMMA TypeLedger ==
    ASSUME LedgerTypeOK, NEW o \in Orders, PayerSends(o) \/ PendingLands(o) \/ PendingExpires(o)
    PROVE  LedgerTypeOK'
<1>1. CASE PayerSends(o)
  <2> DEFINE b == balance[o] + 1
  <2>1. balance[o] \in Nat /\ treasury[o] \in Nat /\ returned[o] \in Nat /\ Sent(o) < MaxUnits
    BY <1>1, ZeroUnits DEF PayerSends, LedgerTypeOK
  <2>2. b \in Nat /\ b + treasury[o] + returned[o] <= MaxUnits
    BY <2>1, OrderAssumptions DEF Sent
  <2>3. b <= MaxUnits
    BY <2>1, <2>2, OrderAssumptions
  <2>4. b \in Units
    BY <2>2, <2>3, ZeroUnits
  <2> HIDE DEF b
  <2>5. balance' = [balance EXCEPT ![o] = b]
    BY <1>1 DEF PayerSends, LedgerTypeOK, b
  <2>6. ASSUME NEW q \in Orders PROVE balance'[q] + treasury[q] + returned[q] <= MaxUnits
    <3>1. CASE q = o
      BY <2>2, <2>5, <3>1 DEF LedgerTypeOK
    <3>2. CASE q # o
      BY <2>5, <3>2 DEF LedgerTypeOK, Sent
    <3>3. QED
      BY <3>1, <3>2
  <2>7. QED
    BY <1>1, <2>4, <2>5, <2>6 DEF PayerSends, LedgerTypeOK, Sent
<1>2. CASE PendingLands(o)
  <2>1. PICK tx \in pending[o] :
           LedgerAccepts(o, tx) /\ Teardown(o, tx) /\ pending' = [pending EXCEPT ![o] = @ \ {tx}]
    BY <1>2 DEF PendingLands
  <2>2. tx \in Teardowns
    BY DEF LedgerTypeOK
  <2>3. QED
    BY <2>1, <2>2, PendingKeepsType, TeardownKeepsType
<1>3. CASE PendingExpires(o)
  <2>1. PICK tx \in pending[o] : pending' = [pending EXCEPT ![o] = @ \ {tx}]
    BY <1>3 DEF PendingExpires
  <2>2. pending' \in [Orders -> SUBSET Teardowns]
    BY <2>1, PendingKeepsType DEF LedgerTypeOK
  <2>3. QED
    BY <1>3, <2>2 DEF PendingExpires, LedgerTypeOK, Sent
<1>4. QED
  BY <1>1, <1>2, <1>3

\* A claim attempt on a task of the batch keeps the worker well typed, won or lost.
LEMMA TakesKeepsType ==
    ASSUME ChainTypeOK, NEW c \in ChainWorkers, NEW t \in chainBatch[c], Takes(c, t),
           \/ \E pc \in ChainPcs : Begin(c, pc, t)
           \/ UNCHANGED <<chainPc, chainTask, chainAmount>>
    PROVE  ChainTypeOK'
<1>1. t \in Tasks /\ chainBatch' \in [ChainWorkers -> SUBSET Tasks]
  BY DEF ChainTypeOK, Takes
<1>2. CASE \E pc \in ChainPcs : Begin(c, pc, t)
  BY <1>1, <1>2, BeginKeepsType
<1>3. CASE UNCHANGED <<chainPc, chainTask, chainAmount>>
  BY <1>1, <1>3 DEF ChainTypeOK
<1>4. QED
  BY <1>2, <1>3

\* Every step of the chain workers and the ledger keeps TypeOK.
LEMMA TypeChain == TypeOK /\ ChainRuns => TypeOK'
<1> SUFFICES ASSUME TypeOK, ChainRuns PROVE TypeOK'
  OBVIOUS
<1> DEFINE Good == StoreTypeOK' /\ LedgerTypeOK' /\ FaultsTypeOK' /\ ChainTypeOK'
<1>t. StoreTypeOK /\ LedgerTypeOK /\ FaultsTypeOK /\ ChainTypeOK
  BY DEF TypeOK
<1>b. chainBatch \in [ChainWorkers -> SUBSET Tasks]
  BY <1>t DEF ChainTypeOK
<1>r. \A c \in ChainWorkers : chainPc[c] # "idle" =>
        chainTask[c].order \in Orders /\ chainTask[c].attempts \in Nat
  BY <1>t DEF ChainTypeOK, Tasks
<1>x. ReclaimTx \in Teardowns
  BY ZeroUnits DEF ReclaimTx, Teardowns
<1>1. ASSUME NEW o \in Orders, PayerSends(o) \/ PendingLands(o) \/ PendingExpires(o), OnlyLedger
      PROVE  TypeOK'
  BY <1>1, TypeLedger, StoreFrame, FaultsKeepType, DepositsFrame, PayoutsFrame, ChainFrame
     DEF TypeOK, OnlyLedger
<1>2. ASSUME NEW c \in ChainWorkers, NEW job \in Jobs, ChainQuery(c, job) PROVE Good
  <2>1. chainBatch' \in [ChainWorkers -> SUBSET Tasks]
    BY <1>2, <1>t, <1>b, QueuedRowsAreTasks DEF ChainQuery
  <2>2. ChainTypeOK'
    BY <1>2, <1>t, <2>1 DEF ChainQuery, ChainTypeOK
  <2>3. QED
    BY <1>2, <1>t, <2>2, StoreFrame, LedgerFrame, FaultsKeepType DEF ChainQuery
<1>3. ASSUME NEW c \in ChainWorkers, SweepClaim(c) PROVE Good
  <2>1. PICK t \in chainBatch[c] :
           /\ Takes(c, t)
           /\ ClaimStatus(t.order, "sweep_queued", "sweep_processing")
           /\ Begin(c, "read", t) \/ UNCHANGED <<chainPc, chainTask, chainAmount>>
    BY <1>3 DEF SweepClaim
  <2>2. StoreTypeOK'
    BY <1>3, <2>1, BareMoveKeepsType, NamedStates DEF SweepClaim
  <2>3. ChainTypeOK'
    BY <1>t, <2>1, TakesKeepsType, NamedChainPcs
  <2>4. QED
    BY <1>3, <1>t, <2>2, <2>3, LedgerFrame, FaultsKeepType DEF SweepClaim
<1>4. ASSUME NEW c \in ChainWorkers, RefundClaim(c) PROVE Good
  <2>1. PICK t \in chainBatch[c] :
           /\ Takes(c, t)
           /\ SetStatus(t.order, "refund_processing") \/ UNCHANGED status
           /\ Begin(c, "outcome", t) \/ UNCHANGED <<chainPc, chainTask, chainAmount>>
    BY <1>4 DEF RefundClaim
  <2>2. status' \in [Orders -> States]
    BY <1>t, <2>1, MoveKeepsType, NamedStates DEF StoreTypeOK
  <2>3. StoreTypeOK'
    BY <1>4, <1>t, <2>2, DataKeepsType DEF RefundClaim
  <2>4. ChainTypeOK'
    BY <1>t, <2>1, TakesKeepsType, NamedChainPcs
  <2>5. QED
    BY <1>4, <1>t, <2>3, <2>4, LedgerFrame, FaultsKeepType DEF RefundClaim
<1>5. ASSUME NEW c \in ChainWorkers, RefundOutcome(c) PROVE Good
  <2>1. ChainTypeOK'
    BY <1>5, <1>t, <1>b, GoOnKeepsType, ChainDoneKeepsType, NamedChainPcs DEF RefundOutcome
  <2>2. StoreTypeOK'
    BY <1>5, <1>t, <1>r DEF RefundOutcome, SetOutcome, StoreTypeOK, Outcomes
  <2>3. QED
    BY <1>5, <1>t, <2>1, <2>2, LedgerFrame, FaultsKeepType DEF RefundOutcome
<1>6. ASSUME NEW c \in ChainWorkers, SweepReads(c) PROVE Good
  <2>1. balance[chainTask[c].order] \in Units
    BY <1>6, <1>t, <1>r DEF SweepReads, LedgerTypeOK
  <2>2. ChainTypeOK'
    BY <1>6, <1>t, <2>1, NamedChainPcs DEF SweepReads, ChainTypeOK
  <2>3. QED
    BY <1>6, <1>t, <2>2, StoreFrame, LedgerFrame, FaultsKeepType DEF SweepReads
<1>7. ASSUME NEW c \in ChainWorkers, SweepReadFails(c) PROVE Good
  <2>1. ChainTypeOK'
    BY <1>7, <1>t, GoOnKeepsType, NamedChainPcs DEF SweepReadFails
  <2>2. QED
    BY <1>7, <1>t, <2>1, StoreFrame, LedgerFrame, FaultsKeepType DEF SweepReadFails
<1>8. ASSUME NEW c \in ChainWorkers, SweepLands(c) PROVE Good
  <2>1. ChainTypeOK'
    BY <1>8, <1>t, GoOnKeepsType, NamedChainPcs DEF SweepLands
  <2>2. LedgerTypeOK'
    BY <1>8, <1>t, <1>r, SweepTxType, TeardownKeepsType DEF SweepLands, LedgerTypeOK
  <2>3. QED
    BY <1>8, <1>t, <2>1, <2>2, StoreFrame, FaultsKeepType DEF SweepLands
<1>9. ASSUME NEW c \in ChainWorkers, SweepRejected(c) PROVE Good
  <2>1. ChainTypeOK'
    BY <1>9, <1>t, GoOnKeepsType, NamedChainPcs DEF SweepRejected
  <2>2. QED
    BY <1>9, <1>t, <2>1, StoreFrame, LedgerFrame, FaultsKeepType DEF SweepRejected
<1>10. ASSUME NEW c \in ChainWorkers, SweepAnswerLost(c) PROVE Good
  <2>1. ChainTypeOK'
    BY <1>10, <1>t, GoOnKeepsType, NamedChainPcs DEF SweepAnswerLost
  <2>2. LedgerTypeOK'
    BY <1>10, <1>t, <1>r, SweepTxType, TeardownKeepsType DEF SweepAnswerLost, LedgerTypeOK
  <2>3. QED
    BY <1>10, <1>t, <2>1, <2>2, StoreFrame, FaultsKeepType DEF SweepAnswerLost
<1>11. ASSUME NEW c \in ChainWorkers, SweepTimesOut(c) PROVE Good
  <2>1. ChainTypeOK'
    BY <1>11, <1>t, GoOnKeepsType, NamedChainPcs DEF SweepTimesOut
  <2>2. pending' \in [Orders -> SUBSET Teardowns]
    BY <1>11, <1>t, <1>r, SweepTxType, PendingKeepsType DEF SweepTimesOut
  <2>3. LedgerTypeOK'
    BY <1>11, <1>t, <2>2 DEF SweepTimesOut, LedgerTypeOK, Sent
  <2>4. QED
    BY <1>11, <1>t, <2>1, <2>3, StoreFrame, FaultsKeepType DEF SweepTimesOut
<1>12. ASSUME NEW c \in ChainWorkers, SweepRecord(c) PROVE Good
  <2>1. ChainTypeOK'
    BY <1>12, <1>t, <1>b, ChainDoneKeepsType DEF SweepRecord
  <2>2. status' \in [Orders -> States]
    BY <1>12, <1>t, MoveKeepsType, JobStates DEF SweepRecord
  <2>3. closedTxHash' \in [Orders -> BOOLEAN]
    BY <1>12, <1>t DEF SweepRecord, StoreTypeOK
  <2>4. StoreTypeOK'
    BY <1>12, <1>t, <2>2, <2>3 DEF SweepRecord, StoreTypeOK
  <2>5. QED
    BY <1>12, <1>t, <2>1, <2>4, LedgerFrame, FaultsKeepType DEF SweepRecord
<1>13. ASSUME NEW c \in ChainWorkers, SweepRetry(c) PROVE Good
  <2>1. ChainTypeOK'
    BY <1>13, <1>t, GoOnKeepsType, NamedChainPcs DEF SweepRetry
  <2>2. chainTask[c].order \in Orders /\ chainTask[c].attempts + 1 \in Nat
    BY <1>13, <1>r DEF SweepRetry
  <2>3. StoreTypeOK'
    BY <1>13, <1>t, <2>2 DEF SweepRetry, StoreTypeOK
  <2>4. FaultsTypeOK'
    BY <1>13, <1>t, FaultsKeepType DEF SweepRetry
  <2>5. QED
    BY <1>13, <1>t, <2>1, <2>3, <2>4, LedgerFrame DEF SweepRetry
<1>14. ASSUME NEW c \in ChainWorkers, SweepRequeue(c) PROVE Good
  <2>1. ChainTypeOK'
    BY <1>14, <1>t, <1>b, ChainDoneKeepsType DEF SweepRequeue
  <2>2. StoreTypeOK'
    BY <1>14, BareMoveKeepsType, JobStates, NamedStates DEF SweepRequeue
  <2>3. QED
    BY <1>14, <1>t, <2>1, <2>2, LedgerFrame, FaultsKeepType DEF SweepRequeue
<1>15. ASSUME NEW c \in ChainWorkers, ReclaimProbe(c) PROVE Good
  <2>1. PICK t \in chainBatch[c] :
           Takes(c, t) /\ (Begin(c, "markGone", t) \/ Begin(c, "close", t))
    BY <1>15 DEF ReclaimProbe
  <2>2. ChainTypeOK'
    BY <1>t, <2>1, TakesKeepsType, NamedChainPcs
  <2>3. QED
    BY <1>15, <1>t, <2>2, StoreFrame, LedgerFrame, FaultsKeepType DEF ReclaimProbe
<1>16. ASSUME NEW c \in ChainWorkers, ReclaimProbeFails(c) PROVE Good
  <2>1. ChainTypeOK'
    BY <1>16, <1>t, TakesKeepsType DEF ReclaimProbeFails
  <2>2. QED
    BY <1>16, <1>t, <2>1, StoreFrame, LedgerFrame, FaultsKeepType DEF ReclaimProbeFails
<1>17. ASSUME NEW c \in ChainWorkers, ReclaimLands(c) PROVE Good
  <2>1. ChainTypeOK'
    BY <1>17, <1>t, GoOnKeepsType, NamedChainPcs DEF ReclaimLands
  <2>2. LedgerTypeOK'
    BY <1>17, <1>t, <1>r, <1>x, TeardownKeepsType DEF ReclaimLands, LedgerTypeOK
  <2>3. QED
    BY <1>17, <1>t, <2>1, <2>2, StoreFrame, FaultsKeepType DEF ReclaimLands
<1>18. ASSUME NEW c \in ChainWorkers, ReclaimRejected(c) PROVE Good
  <2>1. ChainTypeOK'
    BY <1>18, <1>t, <1>b, ChainDoneKeepsType DEF ReclaimRejected
  <2>2. QED
    BY <1>18, <1>t, <2>1, StoreFrame, LedgerFrame, FaultsKeepType DEF ReclaimRejected
<1>19. ASSUME NEW c \in ChainWorkers, ReclaimLost(c) PROVE Good
  <2> DEFINE o == chainTask[c].order
  <2>1. ChainTypeOK'
    BY <1>19, <1>t, <1>b, ChainDoneKeepsType DEF ReclaimLost
  <2>2. o \in Orders
    BY <1>19, <1>r DEF ReclaimLost
  <2>3. ASSUME LedgerAccepts(o, ReclaimTx), Teardown(o, ReclaimTx), UNCHANGED pending
        PROVE  LedgerTypeOK'
    BY <1>t, <1>x, <2>2, <2>3, TeardownKeepsType DEF LedgerTypeOK
  <2>4. ASSUME pending' = [pending EXCEPT ![o] = @ \union {ReclaimTx}],
               UNCHANGED <<accountOpen, balance, treasury, returned>>
        PROVE  LedgerTypeOK'
    <3>1. pending' \in [Orders -> SUBSET Teardowns]
      BY <1>t, <1>x, <2>2, <2>4, PendingKeepsType
    <3>2. QED
      BY <1>t, <2>4, <3>1 DEF LedgerTypeOK, Sent
  <2>5. LedgerTypeOK'
    BY <1>19, <2>3, <2>4 DEF ReclaimLost
  <2>6. QED
    BY <1>19, <1>t, <2>1, <2>5, StoreFrame, FaultsKeepType DEF ReclaimLost
<1>20. ASSUME NEW c \in ChainWorkers, MarkReclaimed(c) PROVE Good
  <2>1. ChainTypeOK'
    BY <1>20, <1>t, <1>b, ChainDoneKeepsType DEF MarkReclaimed
  <2>2. StoreTypeOK'
    BY <1>20, <1>t DEF MarkReclaimed, StoreTypeOK
  <2>3. QED
    BY <1>20, <1>t, <2>1, <2>2, LedgerFrame, FaultsKeepType DEF MarkReclaimed
<1>21. ASSUME NEW c \in ChainWorkers, ChainCrash(c) PROVE Good
  <2>1. chainBatch' \in [ChainWorkers -> SUBSET Tasks]
    BY <1>21, <1>b DEF ChainCrash
  <2>2. ChainTypeOK'
    BY <1>21, <1>t, <2>1, ChainDoneKeepsType DEF ChainCrash
  <2>3. QED
    BY <1>21, <1>t, <2>2, StoreFrame, LedgerFrame, FaultsKeepType DEF ChainCrash
<1>22. TypeOK' \/ (Good /\ OnlyChain)
  BY <1>1, <1>2, <1>3, <1>4, <1>5, <1>6, <1>7, <1>8, <1>9, <1>10, <1>11, <1>12, <1>13, <1>14,
     <1>15, <1>16, <1>17, <1>18, <1>19, <1>20, <1>21 DEF ChainRuns
<1>23. QED
  BY <1>22, DepositsFrame, PayoutsFrame DEF OnlyChain, TypeOK

-----------------------------------------------------------------------------
\* A step that changes nothing keeps TypeOK.
LEMMA TypeStutter == TypeOK /\ UNCHANGED vars => TypeOK'
  BY StoreFrame, LedgerFrame, FaultsKeepType, DepositsFrame, PayoutsFrame, ChainFrame
     DEF TypeOK, vars

\* In every reachable state, for any number of orders, workers, faults and attempts, the
\* columns of every order, the ledger and every handler's variables are well typed, and a
\* payer's USDC is never made or lost by a teardown (store/order.go, settle/workers.go).
THEOREM TypeCorrect == Spec => []TypeOK
<1>1. TypeOK /\ [Next]_vars => TypeOK'
  BY TypeDetection, TypePayouts, TypeChain, TypeStutter DEF Next
<1>2. QED
  BY <1>1, TypeInit, PTL DEF Spec

=============================================================================
