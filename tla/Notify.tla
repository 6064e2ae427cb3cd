------------------------------- MODULE Notify -------------------------------
(***************************************************************************)
(* Merchant notifications: the history rows of internal/store/history.go   *)
(* as an outbox, and the worker of internal/notify/notify.go that empties  *)
(* it.  The handlers that move orders are those of Settlement; here all    *)
(* that is left of one is that a move is one statement and recording it    *)
(* another.  A notifier's pc:                                              *)
(*   idle -> post -> mark -> post .. idle                                  *)
(*           post -> backoff -> post .. idle                               *)
(***************************************************************************)
EXTENDS OrderStates, Faults, Sequences, FiniteSetsExt

CONSTANTS Orders,
          Notifiers, \* notification workers, one per process
          Batch,     \* rows of one pass
          MaxMoves   \* bound on the moves of all orders

ASSUME NotifyAssumptions ==
    Batch \in Nat \ {0} /\ MaxMoves \in Nat /\ IsFiniteSet(Notifiers)

VARIABLES status,
          moving,    \* the states an order was moved to by handlers that have not recorded
                     \* it yet
          history,   \* the rows of kind transition, in the order of (at, id)
          notified, waiting, \* rows with notified_at set, with notify_after to come
          received,  \* row by row, how often the merchant's backend got it
          notifyPc, notifyBatch
moveVars == <<status, moving, history>>
outboxVars == <<notified, waiting, received>>
notifyVars == <<notifyPc, notifyBatch>>
vars == <<moveVars, outboxVars, notifyVars, faultVars>>

Moves == [order : Orders, to : States]
\* The rows that are to be reported.
Reportable == {i \in DOMAIN history : history[i].to \in notifiable}

TypeOK ==
    /\ FaultsTypeOK
    /\ status \in [Orders -> States]
    /\ moving \in [Orders -> SUBSET States]
    /\ history \in Seq(Moves)
    /\ notified \subseteq Reportable /\ waiting \subseteq Reportable
    /\ received \in Seq(Nat) /\ Len(received) = Len(history)
    /\ notifyPc \in [Notifiers -> {"idle", "post", "mark", "backoff"}]
    /\ notifyBatch \in [Notifiers -> SUBSET Reportable]
    /\ \A n \in Notifiers : notifyPc[n] # "idle" => notifyBatch[n] # {}

Init ==
    /\ FaultsInit
    /\ status = [o \in Orders |-> "awaiting_deposit"]
    /\ moving = [o \in Orders |-> {}]
    /\ history = <<>>
    /\ notified = {} /\ waiting = {}
    /\ received = <<>>
    /\ notifyPc = [n \in Notifiers |-> "idle"]
    /\ notifyBatch = [n \in Notifiers |-> {}]

-----------------------------------------------------------------------------
Moved == {m \in Moves : m.to \in moving[m.order]}

\* The states in which the handler that moved an order there moves it on as well.
InHand == {"deposit_detected", "payout_processing", "disbursed",
           "sweep_processing", "refund_processing"}

\* ClaimStatus, ReleaseStatus: the statement that moves the order. From a queue another handler
\* may do so before the move there is recorded; Record hands a deposit back along no legal move.
Move(o) ==
    /\ status[o] \in InHand => status[o] \notin moving[o]
    /\ Len(history) + Cardinality(Moved) < MaxMoves
    /\ \E to \in States \ moving[o] :
        /\ \/ CanTransition(status[o], to)
           \/ status[o] = "deposit_detected" /\ to = "awaiting_deposit"
        /\ status' = [status EXCEPT ![o] = to]
        /\ moving' = [moving EXCEPT ![o] = @ \union {to}]
    /\ UNCHANGED <<history, outboxVars, notifyVars, faultVars>>

\* recordTransition: the row of the move is written, or it is not and nobody is told, be it that
\* the insert fails or that the handler dies before it.
recordTransition(o, to) ==
    /\ to \in moving[o]
    /\ moving' = [moving EXCEPT ![o] = @ \ {to}]
    /\ \/ /\ history' = Append(history, [order |-> o, to |-> to])
          /\ received' = Append(received, 0)
          /\ UNCHANGED faultVars
       \/ Lose /\ UNCHANGED <<history, received>>
    /\ UNCHANGED <<status, notified, waiting, notifyVars>>

-----------------------------------------------------------------------------
\* Mutant: every move is reported.
DueWhatever == DOMAIN history \ (notified \union waiting)
\* Mutant: what is reported is the state an order is in, not the moves it made.
DueByStatus ==
    {i \in Reportable : history[i].to = status[history[i].order]} \ (notified \union waiting)

\* The rows a pass may select.
Due == Reportable \ (notified \union waiting)

\* Mutant: newest first.
NewestDue == {i \in Due : Cardinality({j \in Due : j > i}) < Batch}

\* ORDER BY at, id LIMIT Batch.
OldestDue == {i \in Due : Cardinality({j \in Due : j < i}) < Batch}

NotifyAt(n, pc) == notifyPc' = [notifyPc EXCEPT ![n] = pc]

\* sweep selects a batch; with nothing due the pass ends at once.
NotifyQuery(n) ==
    /\ notifyPc[n] = "idle"
    /\ OldestDue # {}
    /\ notifyBatch' = [notifyBatch EXCEPT ![n] = OldestDue]
    /\ NotifyAt(n, "post")
    /\ UNCHANGED <<moveVars, outboxVars, faultVars>>

Current(n) == Min(notifyBatch[n])

\* deliverEvent returns: on to the next row of the batch.
EventDone(n) ==
    /\ notifyBatch' = [notifyBatch EXCEPT ![n] = @ \ {Current(n)}]
    /\ NotifyAt(n, IF notifyBatch[n] = {Current(n)} THEN "idle" ELSE "post")

Receives(i) == received' = [received EXCEPT ![i] = @ + 1]

\* post: the merchant's backend takes the event and says so.
NotifyPosts(n) ==
    /\ notifyPc[n] = "post"
    /\ Receives(Current(n))
    /\ NotifyAt(n, "mark")
    /\ UNCHANGED <<moveVars, notified, waiting, notifyBatch, faultVars>>

\* Mutant: an error of post is taken for a delivery.
PostFailsUnnoticed(n) ==
    /\ notifyPc[n] = "post"
    /\ Lose
    /\ NotifyAt(n, "mark")
    /\ UNCHANGED <<moveVars, outboxVars, notifyBatch>>

\* The order cannot be loaded, the backend refuses or cannot be reached, or it took the event
\* and its answer is lost.
NotifyPostFails(n) ==
    /\ notifyPc[n] = "post"
    /\ Lose
    /\ Receives(Current(n)) \/ UNCHANGED received
    /\ NotifyAt(n, "backoff")
    /\ UNCHANGED <<moveVars, notified, waiting, notifyBatch>>

\* Mutant: the attempts are reset, but the row stays owed.
MarksAttemptsOnly(n) ==
    /\ notifyPc[n] = "mark"
    /\ waiting' = waiting \ {Current(n)}
    /\ EventDone(n)
    /\ UNCHANGED <<moveVars, notified, received, faultVars>>

\* The delivery is recorded, or it is not and the row stays owed.
NotifyMarks(n) ==
    /\ notifyPc[n] = "mark"
    /\ \/ /\ notified' = notified \union {Current(n)}
          /\ waiting' = waiting \ {Current(n)}
          /\ UNCHANGED faultVars
       \/ Lose /\ UNCHANGED <<notified, waiting>>
    /\ EventDone(n)
    /\ UNCHANGED <<moveVars, received>>

\* Mutant: a failed delivery is given up.
BacksOffForGood(n) ==
    /\ notifyPc[n] = "backoff"
    /\ notified' = notified \union {Current(n)}
    /\ EventDone(n)
    /\ UNCHANGED <<moveVars, waiting, received, faultVars>>

\* backOff: the row is left alone for a while.
NotifyBacksOff(n) ==
    /\ notifyPc[n] = "backoff"
    /\ \/ waiting' = waiting \union {Current(n)} /\ UNCHANGED faultVars
       \/ Lose /\ UNCHANGED waiting
    /\ EventDone(n)
    /\ UNCHANGED <<moveVars, notified, received>>

\* notify_after passes.
BackOffEnds ==
    /\ \E i \in waiting : waiting' = waiting \ {i}
    /\ UNCHANGED <<moveVars, notified, received, notifyVars, faultVars>>

\* A pass is cut short.
NotifierCrash(n) ==
    /\ notifyPc[n] # "idle"
    /\ Crash
    /\ NotifyAt(n, "idle")
    /\ notifyBatch' = [notifyBatch EXCEPT ![n] = {}]
    /\ UNCHANGED <<moveVars, outboxVars>>

-----------------------------------------------------------------------------
NotifierSteps(n) ==
    NotifyQuery(n) \/ NotifyPosts(n) \/ NotifyMarks(n) \/ NotifyBacksOff(n)

Next ==
    \/ \E o \in Orders : Move(o)
    \/ \E o \in Orders, to \in States : recordTransition(o, to)
    \/ \E n \in Notifiers : NotifyQuery(n)
    \/ \E n \in Notifiers : NotifyPosts(n)
    \/ \E n \in Notifiers : NotifyPostFails(n)
    \/ \E n \in Notifiers : NotifyMarks(n)
    \/ \E n \in Notifiers : NotifyBacksOff(n)
    \/ \E n \in Notifiers : NotifierCrash(n)
    \/ BackOffEnds

Spec == Init /\ [][Next]_vars

\* A handler goes on to record what it moved, wake.Loop runs pass after pass, time passes.
FairSpec ==
    /\ Spec
    /\ \A o \in Orders, to \in States : WF_vars(recordTransition(o, to))
    /\ \A n \in Notifiers : WF_vars(NotifierSteps(n))
    /\ WF_vars(BackOffEnds)

-----------------------------------------------------------------------------
\* A row is only taken for reported once the merchant's backend has it (deliverEvent: "losing
\* the notification would not be" harmless).
NotifiedMeansReceived == \A i \in notified : received[i] > 0

\* A merchant gets a row again only after a fault, or from another process that selected it
\* before it was marked ("delivered once", deliverEvent: "the duplicate this causes").
RepeatsBounded ==
    \A i \in DOMAIN received : received[i] <= Cardinality(Notifiers) + losses + crashes

\* While nothing is lost a merchant first hears of an order's moves in the order of its history
\* (sweep: "the merchant reads the story in the order it occurred").
StoryInOrderUnlessLost ==
    losses = 0 =>
        \A i, j \in Reportable :
            i < j /\ history[i].order = history[j].order /\ received[j] > 0 => received[i] > 0

\* Once the orders have come to rest every recorded row is received, whatever failed on the way
\* ("a gap that is still open").
Unheard == {i \in Reportable : received[i] = 0}
OwedIsReported == <>[](Unheard = {})

\* An order that passes through a reportable state is reported in it, however fast it moves on,
\* unless something fails (StatusEvent: "a transition, once recorded, does not stop having
\* happened").
Reported(o, s) ==
    \E i \in DOMAIN history : history[i] = [order |-> o, to |-> s] /\ received[i] > 0
PassedThrough == {s \in notifiable : transitions(s) # {}}
EveryStateReported ==
    \A o \in Orders, s \in PassedThrough :
        status[o] = s ~> Reported(o, s) \/ losses + crashes > 0

=============================================================================
