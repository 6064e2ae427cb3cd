-------------------------------- MODULE Wake --------------------------------
(***************************************************************************)
(* Wake signals: the bus of internal/wake/wake.go, the loop of             *)
(* internal/wake/loop.go, the Postgres bridge of internal/wake/pg.go and   *)
(* the waker of cmd/worker/main.go.  One worker process runs the loops,    *)
(* the API server only publishes.  A row of the database is a loop's work  *)
(* if its query selects it; a signal says that such a row was written.  A  *)
(* loop's pc:                                                              *)
(*   query -> work -> wait -> query                                        *)
(***************************************************************************)
EXTENDS OrderStates, Faults

CONSTANTS Loops,    \* the loops the worker process runs
          Movers,   \* its handlers that move orders
          Requests  \* the API's handlers

\* Loop.Topic of every loop, and what its query selects. "pool_claimed" is a pool account taken.
TopicOf == [streamer |-> "deposits", scanner |-> "deposits", payout |-> "payouts",
            chain |-> "chain", notify |-> "notify", keeper |-> "pool"]
Queue == [streamer |-> {"awaiting_deposit"},
          scanner  |-> {"awaiting_deposit"},
          payout   |-> {"payout_queued"},
          chain    |-> {"sweep_queued", "refund_queued", "expired"},
          notify   |-> notifiable,
          keeper   |-> {"pool_claimed"}]

Topics == {TopicOf[l] : l \in Loops}

ASSUME WakeAssumptions == Loops \subseteq DOMAIN Queue /\ Movers \intersect Requests = {}

VARIABLES unseen,    \* the loops with a row written since they last queried
          signalled, \* the topics whose channel, of capacity one, is full
          telling,   \* the signals a handler still has to give, and where: local, then bridge
          notes,     \* topics published and not delivered yet
          listening, \* is a session in LISTEN?
          loopPc,
          unheard    \* auxiliary: topics of which a publication, or a pass, was lost
wakeVars == <<unseen, signalled, telling, notes, listening, loopPc, unheard>>

Signals == Topics \X {"local", "bridge"}

WakeTypeOK ==
    /\ unseen \subseteq Loops
    /\ signalled \subseteq Topics /\ notes \subseteq Topics /\ unheard \subseteq Topics
    /\ telling \in [Movers \union Requests -> SUBSET Signals]
    /\ listening \in BOOLEAN
    /\ loopPc \in [Loops -> {"query", "work", "wait"}]

WakeInit ==
    /\ unseen = {} /\ signalled = {} /\ notes = {} /\ unheard = {}
    /\ telling = [h \in Movers \union Requests |-> {}]
    /\ listening = FALSE
    /\ loopPc = [l \in Loops |-> "query"]

-----------------------------------------------------------------------------
\* waker: the topics to signal when an order has moved.
Woken(to) ==
    Topics \intersect
        UNION {IF to = "awaiting_deposit" THEN {"deposits"} ELSE {},
               IF to = "payout_queued" THEN {"payouts"} ELSE {},
               IF to \in {"sweep_queued", "refund_queued", "expired"} THEN {"chain"} ELSE {},
               IF to \in notifiable THEN {"notify"} ELSE {}}

\* A row is written; the loops whose queries select it have not seen it.
Written(row) == unseen' = unseen \union {l \in Loops : row \in Queue[l]}

\* ClaimStatus or ReleaseStatus moves an order, and its history row is written; then
\* recordTransition calls the waker.
OrderMoves(h) ==
    /\ telling[h] = {}
    /\ \E to \in States :
        /\ Written(to)
        /\ telling' = [telling EXCEPT ![h] = Woken(to) \X {"local"}]
    /\ UNCHANGED <<signalled, notes, listening, loopPc, unheard, faultVars>>

\* handleCreateOrder takes a pool account, or saves an order. Nobody waits on the server's own
\* bus: all that counts is what it publishes.
RequestWrites(r) ==
    /\ telling[r] = {}
    /\ \E to \in {"deposits", "pool"} \intersect Topics :
        /\ Written(IF to = "pool" THEN "pool_claimed" ELSE "awaiting_deposit")
        /\ telling' = [telling EXCEPT ![r] = {<<to, "bridge">>}]
    /\ UNCHANGED <<signalled, notes, listening, loopPc, unheard, faultVars>>

\* Mutant: an unbuffered channel, which only takes a signal while a loop is parked on it.
SignalLocalUnbuffered(h, topic) ==
    /\ <<topic, "local">> \in telling[h]
    /\ signalled' = IF \E l \in Loops : TopicOf[l] = topic /\ loopPc[l] = "wait"
                    THEN signalled \union {topic} ELSE signalled
    /\ telling' = [telling EXCEPT ![h] = (@ \ {<<topic, "local">>}) \union {<<topic, "bridge">>}]
    /\ UNCHANGED <<unseen, notes, listening, loopPc, unheard, faultVars>>

\* signalLocal: the channel is filled, unless it is full, and the bridge comes next.
SignalLocal(h, topic) ==
    /\ <<topic, "local">> \in telling[h]
    /\ signalled' = signalled \union {topic}
    /\ telling' = [telling EXCEPT ![h] = (@ \ {<<topic, "local">>}) \union {<<topic, "bridge">>}]
    /\ UNCHANGED <<unseen, notes, listening, loopPc, unheard, faultVars>>

\* Notify: published to the sessions in LISTEN, to nobody when there is none, or not at all. What
\* the worker publishes it has signalled to itself before.
Publish(h, topic) ==
    /\ <<topic, "bridge">> \in telling[h]
    /\ telling' = [telling EXCEPT ![h] = @ \ {<<topic, "bridge">>}]
    /\ \/ /\ listening
          /\ notes' = notes \union {topic}
          /\ UNCHANGED <<unheard, faultVars>>
       \/ /\ IF listening THEN Lose ELSE UNCHANGED faultVars
          /\ unheard' = IF h \in Requests THEN unheard \union {topic} ELSE unheard
          /\ UNCHANGED notes
    /\ UNCHANGED <<unseen, signalled, listening, loopPc>>

\* A handler dies before it has told everyone; with a server's handler its signals are lost.
RequestDies(r) ==
    /\ Crash
    /\ telling[r] # {}
    /\ telling' = [telling EXCEPT ![r] = {}]
    /\ unheard' = unheard \union {s[1] : s \in telling[r]}
    /\ UNCHANGED <<unseen, signalled, notes, listening, loopPc>>

-----------------------------------------------------------------------------
\* listenOnce: a session is opened, and dropped with what was on its way to it.
Connect ==
    /\ ~listening
    /\ listening' = TRUE
    /\ UNCHANGED <<unseen, signalled, telling, notes, loopPc, unheard, faultVars>>

Disconnect ==
    /\ listening
    /\ Lose
    /\ listening' = FALSE
    /\ notes' = {}
    /\ unheard' = unheard \union notes
    /\ UNCHANGED <<unseen, signalled, telling, loopPc>>

\* A notification arrives and is signalled here, not published again.
Deliver(topic) ==
    /\ topic \in notes
    /\ notes' = notes \ {topic}
    /\ signalled' = signalled \union {topic}
    /\ UNCHANGED <<unseen, telling, listening, loopPc, unheard, faultVars>>

-----------------------------------------------------------------------------
LoopAt(l, pc) == loopPc' = [loopPc EXCEPT ![l] = pc]

\* Work begins: the loop's query runs, or fails and the pass finds nothing.
Query(l) ==
    /\ loopPc[l] = "query"
    /\ LoopAt(l, "work")
    /\ unseen' = unseen \ {l}
    /\ unheard' = unheard \ {TopicOf[l]}
    /\ UNCHANGED <<signalled, telling, notes, listening, faultVars>>

QueryFails(l) ==
    /\ loopPc[l] = "query"
    /\ Lose
    /\ LoopAt(l, "work")
    /\ unheard' = unheard \union {TopicOf[l]}
    /\ UNCHANGED <<unseen, signalled, telling, notes, listening>>

PassEnds(l) ==
    /\ loopPc[l] = "work"
    /\ LoopAt(l, "wait")
    /\ UNCHANGED <<unseen, signalled, telling, notes, listening, unheard, faultVars>>

\* Wait ends by a signal, which this loop takes, or by its timer.
Woke(l) ==
    /\ loopPc[l] = "wait"
    /\ TopicOf[l] \in signalled
    /\ signalled' = signalled \ {TopicOf[l]}
    /\ LoopAt(l, "query")
    /\ UNCHANGED <<unseen, telling, notes, listening, unheard, faultVars>>

\* Mutant: a loop trusts the listener while there is one.
TimesOutUnheard(l) ==
    /\ loopPc[l] = "wait"
    /\ ~listening
    /\ LoopAt(l, "query")
    /\ UNCHANGED <<unseen, signalled, telling, notes, listening, unheard, faultVars>>

TimesOut(l) ==
    /\ loopPc[l] = "wait"
    /\ LoopAt(l, "query")
    /\ UNCHANGED <<unseen, signalled, telling, notes, listening, unheard, faultVars>>

\* The worker process restarts: its channels, session and handlers are gone, its loops start.
WorkerRestarts ==
    /\ Crash
    /\ signalled' = {} /\ notes' = {} /\ listening' = FALSE
    /\ telling' = [h \in Movers \union Requests |-> IF h \in Movers THEN {} ELSE telling[h]]
    /\ loopPc' = [l \in Loops |-> "query"]
    /\ UNCHANGED <<unseen, unheard>>

-----------------------------------------------------------------------------
HandlerTells(h) == \E topic \in Topics : SignalLocal(h, topic) \/ Publish(h, topic)

WakeNext ==
    \/ \E h \in Movers : OrderMoves(h)
    \/ \E r \in Requests : RequestWrites(r) \/ RequestDies(r)
    \/ \E h \in Movers \union Requests : HandlerTells(h)
    \/ Connect \/ Disconnect
    \/ \E topic \in Topics : Deliver(topic)
    \/ \E l \in Loops : Query(l) \/ QueryFails(l) \/ PassEnds(l) \/ Woke(l) \/ TimesOut(l)
    \/ WorkerRestarts

WakeSpec == WakeInit /\ FaultsInit /\ [][WakeNext]_<<wakeVars, faultVars>>

\* Loop.Run: a pass ends, and a timer fires whether or not anybody signals.
LoopSteps(l) == Query(l) \/ PassEnds(l) \/ TimesOut(l)

-----------------------------------------------------------------------------
\* A signal of the topic is on its way to a loop, or has reached the channel.
Coming(topic) ==
    \/ topic \in signalled \union notes
    \/ \E h \in Movers : <<topic, "local">> \in telling[h]
    \/ \E r \in Requests : <<topic, "bridge">> \in telling[r]

\* When work was written that none of a topic's loops has seen, and none of them is about to look,
\* a signal is coming, unless one was lost: no order of a write, a pass, a wait and a signal makes
\* a loop sleep over its work (wake.go: the channel is buffered "so a signal sent while nobody is
\* waiting is still delivered to the next waiter"; history.go: "After the row is written, never
\* before").
SomeoneWoken ==
    \A topic \in Topics :
        (\A l \in Loops : TopicOf[l] = topic => l \in unseen /\ loopPc[l] # "query")
            => Coming(topic) \/ topic \in unheard

\* Every loop sees its work in the end, whatever signals are lost, and also when another loop of
\* its topic took the signal (wake.go: "a lost signal costs a delay rather than a settlement").
WorkIsFound == \A l \in Loops : l \in unseen ~> l \notin unseen

=============================================================================
