------------------------------ MODULE Deposits ------------------------------
(***************************************************************************)
(* Deposit detection: internal/settle/deposit.go, scanner.go and the       *)
(* handler of stream.go.  A polling scanner and a Horizon stream watch the *)
(* same orders; both go through Record, which claims the order with a      *)
(* compare and swap.  A detector's pc is the next statement of its handler *)
(* that reads or writes shared state:                                      *)
(*   idle -> record -> queue        (a balance was seen)                   *)
(*   idle -> expire                 (none was; scanner only)               *)
(***************************************************************************)
EXTENDS DepositAccounts, Faults

CONSTANTS Scanners,       \* scanner loops, one per worker process
          Streams,        \* open payment streams
          EnqueueMayFail, \* does settle.Payouts ever refuse an order?
          NoOrder         \* what an idle handler works on

ASSUME DetectorAssumptions ==
    Scanners \intersect Streams = {} /\ EnqueueMayFail \in BOOLEAN /\ NoOrder \notin Orders

Detectors == Scanners \union Streams

VARIABLES deadlinePassed,  \* is time.Now() after deposit_deadline?
          detPc, detBatch,
          detOrder, detBalance, detFrom  \* the handler's order, balance read, sender known
detVars == <<deadlinePassed, detPc, detBatch, detOrder, detBalance, detFrom>>

DepositsTypeOK ==
    /\ deadlinePassed \in [Orders -> BOOLEAN]
    /\ detPc \in [Detectors -> {"idle", "record", "queue", "expire"}]
    /\ detBatch \in [Detectors -> SUBSET Orders]
    /\ detOrder \in [Detectors -> Orders \union {NoOrder}]
    /\ \A d \in Detectors : detPc[d] # "idle" => detOrder[d] \in Orders
    /\ detBalance \in [Detectors -> Units]
    /\ detFrom \in [Detectors -> BOOLEAN]

DepositsInit ==
    /\ deadlinePassed = [o \in Orders |-> FALSE]
    /\ detPc = [d \in Detectors |-> "idle"]
    /\ detBatch = [d \in Detectors |-> {}]
    /\ detOrder = [d \in Detectors |-> NoOrder]
    /\ detBalance = [d \in Detectors |-> 0]
    /\ detFrom = [d \in Detectors |-> FALSE]

-----------------------------------------------------------------------------
\* The deposit deadline of an order goes by.
DeadlinePasses(o) ==
    /\ ~deadlinePassed[o]
    /\ deadlinePassed' = [deadlinePassed EXCEPT ![o] = TRUE]
    /\ UNCHANGED <<detPc, detBatch, detOrder, detBalance, detFrom>>
    /\ UNCHANGED <<orderVars, ledgerVars, faultVars>>

\* The handler starts on order o with what it read from Horizon.
Handle(d, pc, o, units, from) ==
    /\ detPc' = [detPc EXCEPT ![d] = pc]
    /\ detOrder' = [detOrder EXCEPT ![d] = o]
    /\ detBalance' = [detBalance EXCEPT ![d] = units]
    /\ detFrom' = [detFrom EXCEPT ![d] = from]

HandlerDone(d) == Handle(d, "idle", NoOrder, 0, FALSE)

\* Scanner.sweep: one query takes every order that is still waiting.
ScannerQuery(d) ==
    /\ detPc[d] = "idle" /\ detBatch[d] = {}
    /\ InState("awaiting_deposit") # {}
    /\ detBatch' = [detBatch EXCEPT ![d] = InState("awaiting_deposit")]
    /\ UNCHANGED <<deadlinePassed, detPc, detOrder, detBalance, detFrom>>
    /\ UNCHANGED <<orderVars, ledgerVars, faultVars>>

\* Scanner.check: one balance read for the next order of the batch.  The sender of
\* a deposit is looked up too and may stay unknown (a path payment).
ScannerReads(d) ==
    /\ detPc[d] = "idle"
    /\ \E o \in detBatch[d] :
        /\ detBatch' = [detBatch EXCEPT ![d] = @ \ {o}]
        /\ IF balance[o] > 0
           THEN \E from \in BOOLEAN : Handle(d, "record", o, balance[o], from)
           ELSE Handle(d, "expire", o, 0, FALSE)
    /\ UNCHANGED <<deadlinePassed, orderVars, ledgerVars, faultVars>>

\* Horizon did not answer: the order keeps its deadline until the next sweep.
ScannerReadFails(d) ==
    /\ detPc[d] = "idle"
    /\ \E o \in detBatch[d] : detBatch' = [detBatch EXCEPT ![d] = @ \ {o}]
    /\ Lose
    /\ UNCHANGED <<deadlinePassed, detPc, detOrder, detBalance, detFrom, orderVars, ledgerVars>>

\* Streamer.handle: a payment to o was seen (or is seen again); the live balance is
\* read.  With nothing left to credit Record stops at once.
StreamReads(d) ==
    /\ detPc[d] = "idle"
    /\ \E o \in Orders :
        /\ balance[o] > 0
        /\ Handle(d, "record", o, balance[o], TRUE)
    /\ UNCHANGED <<deadlinePassed, detBatch, orderVars, ledgerVars, faultVars>>

\* Mutant: the deposit is written before the claim, in a statement of its own.
RecordWritesFirst(d) ==
    /\ detPc[d] = "record"
    /\ LET o == detOrder[d] IN
        /\ amountUSDC' = [amountUSDC EXCEPT ![o] = detBalance[d]]
        /\ IF Wins(o, "awaiting_deposit", "deposit_detected")
           THEN /\ SetStatus(o, "deposit_detected")
                /\ detPc' = [detPc EXCEPT ![d] = "queue"]
                /\ UNCHANGED <<detOrder, detBalance, detFrom>>
           ELSE HandlerDone(d) /\ UNCHANGED status
    /\ UNCHANGED <<depositFrom, financialOutcome, payoutAttempts, sweepAttempts, refundAttempts,
                   closedTxHash, reservesReclaimed>>
    /\ UNCHANGED <<deadlinePassed, detBatch, ledgerVars, faultVars>>

\* Deposits.Record, first statement: claim the order and store the evidence with it.
Record(d) ==
    /\ detPc[d] = "record"
    /\ LET o == detOrder[d] IN
        IF Wins(o, "awaiting_deposit", "deposit_detected")
        THEN /\ SetStatus(o, "deposit_detected")
             /\ amountUSDC' = [amountUSDC EXCEPT ![o] = detBalance[d]]
             /\ depositFrom' = [depositFrom EXCEPT ![o] = @ \/ detFrom[d]]
             /\ detPc' = [detPc EXCEPT ![d] = "queue"]
             /\ UNCHANGED <<detOrder, detBalance, detFrom>>
        ELSE HandlerDone(d) /\ UNCHANGED <<status, amountUSDC, depositFrom>>
    /\ UNCHANGED <<financialOutcome, payoutAttempts, sweepAttempts, refundAttempts,
                   closedTxHash, reservesReclaimed>>
    /\ UNCHANGED <<deadlinePassed, detBatch, ledgerVars, faultVars>>

\* Mutant: the order is claimed and never advanced.
QueuePayoutForgets(d) ==
    /\ detPc[d] = "queue"
    /\ HandlerDone(d)
    /\ UNCHANGED <<orderVars, deadlinePassed, detBatch, ledgerVars, faultVars>>

\* Deposits.Record, the rest: the payout is queued, so the state advances.
QueuePayout(d) ==
    /\ detPc[d] = "queue"
    /\ ClaimStatus(detOrder[d], "deposit_detected", "payout_queued")
    /\ HandlerDone(d)
    /\ UNCHANGED <<dataColumns, deadlinePassed, detBatch, ledgerVars, faultVars>>

\* ... or queueing is refused and the claim is handed back.
EnqueueFails(d) ==
    /\ EnqueueMayFail
    /\ detPc[d] = "queue"
    /\ ReleaseStatus(detOrder[d], "deposit_detected", "awaiting_deposit")
    /\ HandlerDone(d)
    /\ UNCHANGED <<dataColumns, deadlinePassed, detBatch, ledgerVars, faultVars>>

\* Mutant: the deadline test is the wrong way round.
ExpireBeforeDeadline(d) ==
    /\ detPc[d] = "expire"
    /\ IF deadlinePassed[detOrder[d]]
       THEN UNCHANGED status
       ELSE ClaimStatus(detOrder[d], "awaiting_deposit", "expired")
    /\ HandlerDone(d)
    /\ UNCHANGED <<dataColumns, deadlinePassed, detBatch, ledgerVars, faultVars>>

\* The tail of Scanner.check and Deposits.Expire: give up on an order that had no
\* balance when it was read, once its deadline has passed.
Expire(d) ==
    /\ detPc[d] = "expire"
    /\ IF deadlinePassed[detOrder[d]]
       THEN ClaimStatus(detOrder[d], "awaiting_deposit", "expired")
       ELSE UNCHANGED status
    /\ HandlerDone(d)
    /\ UNCHANGED <<dataColumns, deadlinePassed, detBatch, ledgerVars, faultVars>>

\* The handler is cut short: with the whole loop, or alone, when a statement fails and the
\* loop goes on with the rest of its batch.
DetectorCrash(d) ==
    /\ detPc[d] # "idle"
    /\ Crash
    /\ HandlerDone(d)
    /\ \E rest \in {{}, detBatch[d]} : detBatch' = [detBatch EXCEPT ![d] = rest]
    /\ UNCHANGED <<deadlinePassed, orderVars, ledgerVars>>

=============================================================================
