----------------------------- MODULE ChainQueues -----------------------------
(***************************************************************************)
(* The on-chain half of settlement: ChainWorker of                         *)
(* internal/settle/workers.go and the Sweep and Reclaim calls of           *)
(* internal/stellar/sweep.go.  One pass works three queues; each handler   *)
(* claims an order, submits one transaction that empties and closes its    *)
(* deposit account, and records the hash:                                  *)
(*   sweep    idle -> read -> send -> record -> idle                       *)
(*   refund   idle -> outcome -> read -> send -> record -> idle            *)
(*            read, send -> retry -> requeue -> idle   (both)              *)
(*   reclaim  idle -> close -> mark -> idle                                *)
(***************************************************************************)
EXTENDS DepositAccounts, Faults

CONSTANTS ChainWorkers,
          maxChainAttempts,
          NoTask   \* what an idle worker works on

ASSUME ChainAssumptions == maxChainAttempts \in Nat \ {0}

Jobs == {"sweep", "refund", "reclaim"}

\* One selected row: a copy, its attempts counter as old as the query.
Tasks == [job : Jobs, order : Orders, attempts : Nat]

VARIABLES chainPc, chainBatch,
          chainTask,
          chainAmount  \* the balance read before a sweep was built
chainVars == <<chainPc, chainBatch, chainTask, chainAmount>>

ChainPcs == {"idle", "outcome", "read", "send", "record", "retry", "requeue", "close",
             "markClosed", "markGone"}

ChainTypeOK ==
    /\ chainPc \in [ChainWorkers -> ChainPcs]
    /\ chainBatch \in [ChainWorkers -> SUBSET Tasks]
    /\ chainTask \in [ChainWorkers -> Tasks \union {NoTask}]
    /\ \A c \in ChainWorkers : chainPc[c] # "idle" => chainTask[c] \in Tasks
    /\ chainAmount \in [ChainWorkers -> Units]

ChainInit ==
    /\ chainPc = [c \in ChainWorkers |-> "idle"]
    /\ chainBatch = [c \in ChainWorkers |-> {}]
    /\ chainTask = [c \in ChainWorkers |-> NoTask]
    /\ chainAmount = [c \in ChainWorkers |-> 0]

-----------------------------------------------------------------------------
\* Mutants: the reclaim filter is inverted; a refund is handed back to the sweep queue;
\* the state a sweep is handed back to is misspelt.
QueueOfReclaimed(job) ==
    CASE job = "sweep"   -> InState("sweep_queued")
      [] job = "refund"  -> InState("refund_queued")
      [] job = "reclaim" -> {o \in InState("expired") : reservesReclaimed[o]}
QueuedForSweep(job) == "sweep_queued"
QueuedMisspelt(job) == IF job = "sweep" THEN "sweep_queue" ELSE "refund_queued"

\* pass() and each(): the rows of a queue, with what is read from each of them.
QueueOf(job) ==
    CASE job = "sweep"   -> InState("sweep_queued")
      [] job = "refund"  -> InState("refund_queued")
      [] job = "reclaim" -> {o \in InState("expired") : ~reservesReclaimed[o]}

AttemptsOf(job, o) ==
    CASE job = "sweep"   -> sweepAttempts[o]
      [] job = "refund"  -> refundAttempts[o]
      [] job = "reclaim" -> 0

Queued(job) == IF job = "sweep" THEN "sweep_queued" ELSE "refund_queued"
Processing(job) == IF job = "sweep" THEN "sweep_processing" ELSE "refund_processing"
Finished(job) == IF job = "sweep" THEN "settled_in_treasury" ELSE "refunded"
Destination(job) == IF job = "sweep" THEN "treasury" ELSE "payer"

GoOn(c, pc) == chainPc' = [chainPc EXCEPT ![c] = pc] /\ UNCHANGED <<chainTask, chainAmount>>
Begin(c, pc, t) ==
    /\ chainPc' = [chainPc EXCEPT ![c] = pc]
    /\ chainTask' = [chainTask EXCEPT ![c] = t]
    /\ UNCHANGED chainAmount
ChainDone(c) ==
    /\ chainPc' = [chainPc EXCEPT ![c] = "idle"]
    /\ chainTask' = [chainTask EXCEPT ![c] = NoTask]
    /\ chainAmount' = [chainAmount EXCEPT ![c] = 0]

Takes(c, t) ==
    /\ chainPc[c] = "idle"
    /\ t \in chainBatch[c]
    /\ chainBatch' = [chainBatch EXCEPT ![c] = @ \ {t}]

\* each(): one query of one queue.  A pass makes the three queries in turn.
ChainQuery(c, job) ==
    /\ chainPc[c] = "idle" /\ chainBatch[c] = {}
    /\ QueueOf(job) # {}
    /\ chainBatch' = [chainBatch EXCEPT ![c] =
            {[job |-> job, order |-> o, attempts |-> AttemptsOf(job, o)] : o \in QueueOf(job)}]
    /\ UNCHANGED <<chainPc, chainTask, chainAmount, orderVars, ledgerVars, faultVars>>

\* sweep(): claim a disbursed order, or skip it.
SweepClaim(c) ==
    /\ \E t \in chainBatch[c] :
        /\ t.job = "sweep" /\ Takes(c, t)
        /\ ClaimStatus(t.order, "sweep_queued", "sweep_processing")
        /\ IF Wins(t.order, "sweep_queued", "sweep_processing")
           THEN Begin(c, "read", t)
           ELSE UNCHANGED <<chainPc, chainTask, chainAmount>>
    /\ UNCHANGED <<dataColumns, ledgerVars, faultVars>>

\* refund(): claim a refund that has somewhere to go; otherwise the row is left queued.
RefundClaim(c) ==
    /\ \E t \in chainBatch[c] :
        /\ t.job = "refund" /\ Takes(c, t)
        /\ LET won == /\ HasRefundDestination(t.order)
                      /\ Wins(t.order, "refund_queued", "refund_processing") IN
           IF won
           THEN SetStatus(t.order, "refund_processing") /\ Begin(c, "outcome", t)
           ELSE UNCHANGED <<status, chainPc, chainTask, chainAmount>>
    /\ UNCHANGED <<dataColumns, ledgerVars, faultVars>>

\* Mutant: money is moved without claiming the outcome.
RefundSkipsOutcome(c) ==
    /\ chainPc[c] = "outcome"
    /\ GoOn(c, "read")
    /\ UNCHANGED <<chainBatch, orderVars, ledgerVars, faultVars>>

\* refund(): claim the outcome before moving money, or stop and leave the order as it is.
RefundOutcome(c) ==
    /\ chainPc[c] = "outcome"
    /\ LET o == chainTask[c].order IN
        IF OutcomeOpen(o)
        THEN SetOutcome(o, "refunded") /\ GoOn(c, "read")
        ELSE ChainDone(c) /\ UNCHANGED financialOutcome
    /\ UNCHANGED <<status, amountUSDC, depositFrom, payoutAttempts, sweepAttempts,
                   refundAttempts, closedTxHash, reservesReclaimed>>
    /\ UNCHANGED <<chainBatch, ledgerVars, faultVars>>

-----------------------------------------------------------------------------
\* Client.Sweep: what is sent is the balance read now, not the amount recorded.
SweepReads(c) ==
    /\ chainPc[c] = "read"
    /\ chainPc' = [chainPc EXCEPT ![c] = "send"]
    /\ chainAmount' = [chainAmount EXCEPT ![c] = balance[chainTask[c].order]]
    /\ UNCHANGED <<chainBatch, chainTask, orderVars, ledgerVars, faultVars>>

\* Horizon cannot be read, or the sponsor account cannot be loaded.
SweepReadFails(c) ==
    /\ chainPc[c] = "read"
    /\ Lose
    /\ GoOn(c, "retry")
    /\ UNCHANGED <<chainBatch, orderVars, ledgerVars>>

SweepTx(c) == [to |-> Destination(chainTask[c].job), amount |-> chainAmount[c]]

\* Mutants: a success is taken for a failure; a refusal is taken for a success.
SweepLandsUnnoticed(c) ==
    /\ chainPc[c] = "send"
    /\ LET o == chainTask[c].order IN LedgerAccepts(o, SweepTx(c)) /\ Teardown(o, SweepTx(c))
    /\ GoOn(c, "retry")
    /\ UNCHANGED <<chainBatch, pending, orderVars, faultVars>>
SweepRejectedUnnoticed(c) ==
    /\ chainPc[c] = "send"
    /\ ~LedgerAccepts(chainTask[c].order, SweepTx(c))
    /\ GoOn(c, "record")
    /\ UNCHANGED <<chainBatch, orderVars, ledgerVars, faultVars>>

\* The transaction is in a ledger and its hash is known, ...
SweepLands(c) ==
    /\ chainPc[c] = "send"
    /\ LET o == chainTask[c].order IN LedgerAccepts(o, SweepTx(c)) /\ Teardown(o, SweepTx(c))
    /\ GoOn(c, "record")
    /\ UNCHANGED <<chainBatch, pending, orderVars, faultVars>>

\* ... or the ledger refused it: the balance has moved, or the account is gone, ...
SweepRejected(c) ==
    /\ chainPc[c] = "send"
    /\ ~LedgerAccepts(chainTask[c].order, SweepTx(c))
    /\ GoOn(c, "retry")
    /\ UNCHANGED <<chainBatch, orderVars, ledgerVars, faultVars>>

\* ... or it landed and the answer was lost, ...
SweepAnswerLost(c) ==
    /\ chainPc[c] = "send"
    /\ Lose
    /\ LET o == chainTask[c].order IN LedgerAccepts(o, SweepTx(c)) /\ Teardown(o, SweepTx(c))
    /\ GoOn(c, "retry")
    /\ UNCHANGED <<chainBatch, pending, orderVars>>

\* ... or Horizon timed out and it may land until its time bounds run out.
SweepTimesOut(c) ==
    /\ chainPc[c] = "send"
    /\ Lose
    /\ pending' = [pending EXCEPT ![chainTask[c].order] = @ \union {SweepTx(c)}]
    /\ GoOn(c, "retry")
    /\ UNCHANGED <<accountOpen, balance, treasury, returned, chainBatch, orderVars>>

\* sweep(), refund(): the final state and the hash, in one statement.
SweepRecord(c) ==
    /\ chainPc[c] = "record"
    /\ LET o == chainTask[c].order
           from == Processing(chainTask[c].job)
           to == Finished(chainTask[c].job)
       IN  /\ ClaimStatus(o, from, to)
           /\ closedTxHash' = [closedTxHash EXCEPT ![o] = @ \/ Wins(o, from, to)]
    /\ ChainDone(c)
    /\ UNCHANGED <<financialOutcome, amountUSDC, depositFrom, payoutAttempts, sweepAttempts,
                   refundAttempts, reservesReclaimed>>
    /\ UNCHANGED <<chainBatch, ledgerVars, faultVars>>

\* retry(): the attempt is written, computed from the selected row; an error of this
\* statement is only logged.
SweepRetry(c) ==
    /\ chainPc[c] = "retry"
    /\ LET t == chainTask[c] IN
        \/ /\ t.job = "sweep"
           /\ sweepAttempts' = [sweepAttempts EXCEPT ![t.order] = t.attempts + 1]
           /\ UNCHANGED <<refundAttempts, faultVars>>
        \/ /\ t.job = "refund"
           /\ refundAttempts' = [refundAttempts EXCEPT ![t.order] = t.attempts + 1]
           /\ UNCHANGED <<sweepAttempts, faultVars>>
        \/ Lose /\ UNCHANGED <<sweepAttempts, refundAttempts>>
    /\ GoOn(c, "requeue")
    /\ UNCHANGED <<status, financialOutcome, amountUSDC, depositFrom, payoutAttempts,
                   closedTxHash, reservesReclaimed>>
    /\ UNCHANGED <<chainBatch, ledgerVars>>

\* Mutant: the two states of the release are swapped.
SweepRequeueSwapped(c) ==
    /\ chainPc[c] = "requeue"
    /\ LET t == chainTask[c] IN
        IF t.attempts + 1 < maxChainAttempts
        THEN ReleaseStatus(t.order, Queued(t.job), Processing(t.job))
        ELSE ClaimStatus(t.order, Processing(t.job), "failed")
    /\ ChainDone(c)
    /\ UNCHANGED <<dataColumns, chainBatch, ledgerVars, faultVars>>

\* retry(): another attempt, or the order is flagged for a human.
SweepRequeue(c) ==
    /\ chainPc[c] = "requeue"
    /\ LET t == chainTask[c] IN
        IF t.attempts + 1 < maxChainAttempts
        THEN ReleaseStatus(t.order, Processing(t.job), Queued(t.job))
        ELSE ClaimStatus(t.order, Processing(t.job), "failed")
    /\ ChainDone(c)
    /\ UNCHANGED <<dataColumns, chainBatch, ledgerVars, faultVars>>

-----------------------------------------------------------------------------
\* reclaim() and the account lookup of Client.Reclaim.
ReclaimProbe(c) ==
    /\ \E t \in chainBatch[c] :
        /\ t.job = "reclaim" /\ Takes(c, t)
        /\ Begin(c, IF closedTxHash[t.order] \/ ~accountOpen[t.order] THEN "markGone" ELSE "close", t)
    /\ UNCHANGED <<orderVars, ledgerVars, faultVars>>

ReclaimProbeFails(c) ==
    /\ \E t \in chainBatch[c] : t.job = "reclaim" /\ Takes(c, t)
    /\ Lose
    /\ UNCHANGED <<chainPc, chainTask, chainAmount, orderVars, ledgerVars>>

ReclaimTx == [to |-> "sponsor", amount |-> 0]

\* Client.Reclaim: the account is merged, ...
ReclaimLands(c) ==
    /\ chainPc[c] = "close"
    /\ LET o == chainTask[c].order IN LedgerAccepts(o, ReclaimTx) /\ Teardown(o, ReclaimTx)
    /\ GoOn(c, "markClosed")
    /\ UNCHANGED <<chainBatch, pending, orderVars, faultVars>>

\* Mutant: an account that could not be closed is marked as reclaimed.
ReclaimRejectedMarks(c) ==
    /\ chainPc[c] = "close"
    /\ ~LedgerAccepts(chainTask[c].order, ReclaimTx)
    /\ GoOn(c, "markGone")
    /\ UNCHANGED <<chainBatch, orderVars, ledgerVars, faultVars>>

\* ... or the ledger refused: it holds USDC by now, or is gone.  Left for the next pass.
ReclaimRejected(c) ==
    /\ chainPc[c] = "close"
    /\ ~LedgerAccepts(chainTask[c].order, ReclaimTx)
    /\ ChainDone(c)
    /\ UNCHANGED <<chainBatch, orderVars, ledgerVars, faultVars>>

\* ... or no answer came: the merge is done, or may still be, or never will.
ReclaimLost(c) ==
    /\ chainPc[c] = "close"
    /\ Lose
    /\ LET o == chainTask[c].order IN
        \/ LedgerAccepts(o, ReclaimTx) /\ Teardown(o, ReclaimTx) /\ UNCHANGED pending
        \/ /\ pending' = [pending EXCEPT ![o] = @ \union {ReclaimTx}]
           /\ UNCHANGED <<accountOpen, balance, treasury, returned>>
    /\ ChainDone(c)
    /\ UNCHANGED <<chainBatch, orderVars>>

\* markReclaimed: out of the queue for good, with the hash when there is one.
MarkReclaimed(c) ==
    /\ chainPc[c] \in {"markClosed", "markGone"}
    /\ LET o == chainTask[c].order IN
        /\ reservesReclaimed' = [reservesReclaimed EXCEPT ![o] = TRUE]
        /\ closedTxHash' = [closedTxHash EXCEPT ![o] = @ \/ chainPc[c] = "markClosed"]
    /\ ChainDone(c)
    /\ UNCHANGED <<status, financialOutcome, amountUSDC, depositFrom, payoutAttempts,
                   sweepAttempts, refundAttempts>>
    /\ UNCHANGED <<chainBatch, ledgerVars, faultVars>>

\* The handler is cut short, alone or with its loop.
ChainCrash(c) ==
    /\ chainPc[c] # "idle"
    /\ Crash
    /\ ChainDone(c)
    /\ \E rest \in {{}, chainBatch[c]} : chainBatch' = [chainBatch EXCEPT ![c] = rest]
    /\ UNCHANGED <<orderVars, ledgerVars>>

=============================================================================
