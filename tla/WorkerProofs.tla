---------------------------- MODULE WorkerProofs ----------------------------
(***************************************************************************)
(* What the loops of the worker process rest on, for every value of the    *)
(* constants: no wake-up is lost (Wake), no payment is skipped and no more *)
(* streams are open than the supervisor may open (Streams).                *)
(*                                                                         *)
(* SomeoneWoken is inductive beside the types: a write puts the topic of   *)
(* every loop that queries it into the hands of the writer                 *)
(* (TopicsCoverQueues), from there a signal only goes to the channel, to   *)
(* the bridge or to unheard, and only a loop that is about to query takes  *)
(* it from the channel.                                                    *)
(*                                                                         *)
(* NothingSkipped says nothing of an order that is not created yet, of a   *)
(* goroutine between two events, or of which order it works for:           *)
(* StreamsInv adds that a goroutine has one order, one that was created,   *)
(* and that none is past the claim of an order nobody has claimed.         *)
(*                                                                         *)
(* StreamsBounded counts goroutines, the supervisor counts entries:        *)
(* OwnedInv says that a goroutine that was not cancelled has its order's   *)
(* entry, and what must hold of the orders for it to keep it.              *)
(***************************************************************************)
EXTENDS MCWorker, TLAPS, FiniteSetTheorems

WakeInv == WakeTypeOK /\ SomeoneWoken

\* Nobody of this topic has seen the latest work, or is about to look.
Unattended(topic) == \A l \in Loops : TopicOf[l] = topic => l \in unseen /\ loopPc[l] # "query"

-----------------------------------------------------------------------------
\* The waker signals the topic of every loop whose query selects the state an order moved to: the
\* switch of waker agrees with the queries of the six loops.
LEMMA TopicsCoverQueues ==
    ASSUME NEW l \in Loops, NEW to \in States, to \in Queue[l]
    PROVE  TopicOf[l] \in Woken(to)
  <1>1. l \in {"streamer", "scanner", "payout", "chain", "notify", "keeper"}
    BY WakeAssumptions DEF Queue
  <1>2. TopicOf[l] \in Topics
    BY DEF Topics
  <1>3. CASE l \in {"streamer", "scanner"}
    BY <1>2, <1>3 DEF Woken, TopicOf, Queue
  <1>4. CASE l = "payout"
    BY <1>2, <1>4 DEF Woken, TopicOf, Queue
  <1>5. CASE l = "chain"
    BY <1>2, <1>5 DEF Woken, TopicOf, Queue
  <1>6. CASE l = "notify"
    BY <1>2, <1>6 DEF Woken, TopicOf, Queue
  <1>7. CASE l = "keeper"
    BY <1>7 DEF Queue, States, FiatLeg, SweepLeg, RefundLeg
  <1> QED
    BY <1>1, <1>3, <1>4, <1>5, <1>6, <1>7

\* A request's signal is that of the loops whose queries select what it wrote.
LEMMA RequestsCoverQueues ==
    ASSUME NEW l \in Loops, NEW to \in {"deposits", "pool"},
           (IF to = "pool" THEN "pool_claimed" ELSE "awaiting_deposit") \in Queue[l]
    PROVE  TopicOf[l] = to
  <1>1. l \in {"streamer", "scanner", "payout", "chain", "notify", "keeper"}
    BY WakeAssumptions DEF Queue
  <1>2. CASE l \in {"streamer", "scanner"}
    BY <1>2 DEF TopicOf, Queue
  <1>3. CASE l \in {"payout", "chain"}
    BY <1>3 DEF TopicOf, Queue
  <1>4. CASE l = "notify"
    BY <1>4 DEF Queue, notifiable
  <1>5. CASE l = "keeper"
    BY <1>5 DEF TopicOf, Queue
  <1> QED
    BY <1>1, <1>2, <1>3, <1>4, <1>5

\* Every topic is some loop's.
LEMMA TopicHasLoop ==
    ASSUME NEW topic \in Topics
    PROVE  \E l \in Loops : TopicOf[l] = topic
  BY DEF Topics

\* Nothing is written and nobody starts to look, so signals only have to survive.
LEMMA SignalsSurvive ==
    ASSUME SomeoneWoken,
           unseen' \subseteq unseen,
           \A l \in Loops : loopPc'[l] # "query" => loopPc[l] # "query",
           \A topic \in Topics :
               Coming(topic) \/ topic \in unheard => Coming(topic)' \/ topic \in unheard'
    PROVE  SomeoneWoken'
  BY DEF SomeoneWoken

-----------------------------------------------------------------------------
LEMMA WrittenTypes ==
    ASSUME WakeTypeOK, NEW row, Written(row)
    PROVE  unseen' \subseteq Loops
  BY DEF WakeTypeOK, Written

LEMMA WriteTypes ==
    ASSUME WakeTypeOK,
           \/ \E h \in Movers : OrderMoves(h)
           \/ \E r \in Requests : RequestWrites(r) \/ RequestDies(r)
    PROVE  WakeTypeOK'
  <1>1. ASSUME NEW h \in Movers, OrderMoves(h) PROVE WakeTypeOK'
    <2>1. PICK to \in States : Written(to) /\ telling' = [telling EXCEPT ![h] = Woken(to) \X {"local"}]
      BY <1>1 DEF OrderMoves
    <2>2. Woken(to) \subseteq Topics
      BY DEF Woken
    <2>3. Woken(to) \X {"local"} \subseteq Signals
      BY <2>2 DEF Signals
    <2>4. telling' \in [Movers \union Requests -> SUBSET Signals]
      BY <2>1, <2>3 DEF WakeTypeOK
    <2> QED
      BY <1>1, <2>1, <2>4, WrittenTypes DEF OrderMoves, WakeTypeOK
  <1>2. ASSUME NEW r \in Requests, RequestWrites(r) PROVE WakeTypeOK'
    <2>1. PICK to \in {"deposits", "pool"} \intersect Topics :
              /\ Written(IF to = "pool" THEN "pool_claimed" ELSE "awaiting_deposit")
              /\ telling' = [telling EXCEPT ![r] = {<<to, "bridge">>}]
      BY <1>2 DEF RequestWrites
    <2>2. {<<to, "bridge">>} \subseteq Signals
      BY DEF Signals
    <2>3. telling' \in [Movers \union Requests -> SUBSET Signals]
      BY <2>1, <2>2 DEF WakeTypeOK
    <2> QED
      BY <1>2, <2>1, <2>3, WrittenTypes DEF RequestWrites, WakeTypeOK
  <1>3. ASSUME NEW r \in Requests, RequestDies(r) PROVE WakeTypeOK'
    <2>1. {s[1] : s \in telling[r]} \subseteq Topics
      BY DEF WakeTypeOK, Signals
    <2> QED
      BY <1>3, <2>1 DEF RequestDies, WakeTypeOK
  <1> QED
    BY <1>1, <1>2, <1>3

LEMMA SignalTypes ==
    ASSUME WakeTypeOK,
           \/ \E h \in Movers \union Requests : HandlerTells(h)
           \/ Connect \/ Disconnect \/ \E topic \in Topics : Deliver(topic)
    PROVE  WakeTypeOK'
  <1>1. ASSUME NEW h \in Movers \union Requests, NEW topic \in Topics,
               SignalLocal(h, topic) \/ Publish(h, topic)
        PROVE  WakeTypeOK'
    <2>1. telling[h] \subseteq Signals /\ <<topic, "bridge">> \in Signals
      BY DEF WakeTypeOK, Signals
    <2>2. CASE SignalLocal(h, topic)
      BY <2>1, <2>2 DEF SignalLocal, WakeTypeOK
    <2>3. CASE Publish(h, topic)
      BY <2>1, <2>3 DEF Publish, WakeTypeOK
    <2> QED
      BY <1>1, <2>2, <2>3
  <1>2. CASE Connect \/ Disconnect
    BY <1>2 DEF Connect, Disconnect, WakeTypeOK
  <1>3. ASSUME NEW topic \in Topics, Deliver(topic) PROVE WakeTypeOK'
    BY <1>3 DEF Deliver, WakeTypeOK
  <1> QED
    BY <1>1, <1>2, <1>3 DEF HandlerTells

LEMMA LoopTypes ==
    ASSUME WakeTypeOK,
           \/ \E l \in Loops : Query(l) \/ QueryFails(l) \/ PassEnds(l) \/ Woke(l) \/ TimesOut(l)
           \/ WorkerRestarts
    PROVE  WakeTypeOK'
  <1>1. ASSUME NEW l \in Loops, Query(l) \/ QueryFails(l) PROVE WakeTypeOK'
    <2>1. TopicOf[l] \in Topics
      BY DEF Topics
    <2> QED
      BY <1>1, <2>1 DEF Query, QueryFails, LoopAt, WakeTypeOK
  <1>2. ASSUME NEW l \in Loops, PassEnds(l) \/ Woke(l) \/ TimesOut(l) PROVE WakeTypeOK'
    BY <1>2 DEF PassEnds, Woke, TimesOut, LoopAt, WakeTypeOK
  <1>3. CASE WorkerRestarts
    BY <1>3 DEF WorkerRestarts, WakeTypeOK
  <1> QED
    BY <1>1, <1>2, <1>3

-----------------------------------------------------------------------------
\* Whoever writes work holds the signal for every loop that selects it.
LEMMA MoveSignals ==
    ASSUME WakeTypeOK, SomeoneWoken, NEW h \in Movers, OrderMoves(h)
    PROVE  SomeoneWoken'
  <1>1. PICK to \in States : Written(to) /\ telling' = [telling EXCEPT ![h] = Woken(to) \X {"local"}]
    BY DEF OrderMoves
  <1>2. telling'[h] = Woken(to) \X {"local"} /\ telling[h] = {}
        /\ \A g \in Movers \union Requests : g # h => telling'[g] = telling[g]
    BY <1>1 DEF OrderMoves, WakeTypeOK
  <1>3. UNCHANGED <<signalled, notes, unheard, loopPc>>
    BY DEF OrderMoves
  <1>4. SUFFICES ASSUME NEW topic \in Topics, Unattended(topic)'
                 PROVE  Coming(topic)' \/ topic \in unheard'
    BY DEF SomeoneWoken, Unattended
  <1>5. CASE Unattended(topic)
    <2>1. Coming(topic) \/ topic \in unheard
      BY <1>5 DEF SomeoneWoken, Unattended
    <2> QED
      BY <1>2, <1>3, <2>1 DEF Coming
  <1>6. CASE ~Unattended(topic)
    <2>1. PICK l \in Loops : TopicOf[l] = topic /\ l \notin unseen
      BY <1>3, <1>4, <1>6 DEF Unattended
    <2>2. to \in Queue[l]
      BY <1>1, <1>4, <2>1 DEF Unattended, Written
    <2>3. <<topic, "local">> \in telling'[h]
      BY <1>2, <2>1, <2>2, TopicsCoverQueues
    <2> QED
      BY <2>3 DEF Coming
  <1> QED
    BY <1>5, <1>6

LEMMA RequestSignals ==
    ASSUME WakeTypeOK, SomeoneWoken, NEW r \in Requests, RequestWrites(r)
    PROVE  SomeoneWoken'
  <1>1. PICK to \in {"deposits", "pool"} \intersect Topics :
            /\ Written(IF to = "pool" THEN "pool_claimed" ELSE "awaiting_deposit")
            /\ telling' = [telling EXCEPT ![r] = {<<to, "bridge">>}]
    BY DEF RequestWrites
  <1>2. telling'[r] = {<<to, "bridge">>} /\ telling[r] = {}
        /\ \A g \in Movers \union Requests : g # r => telling'[g] = telling[g]
    BY <1>1 DEF RequestWrites, WakeTypeOK
  <1>3. UNCHANGED <<signalled, notes, unheard, loopPc>>
    BY DEF RequestWrites
  <1>4. SUFFICES ASSUME NEW topic \in Topics, Unattended(topic)'
                 PROVE  Coming(topic)' \/ topic \in unheard'
    BY DEF SomeoneWoken, Unattended
  <1>5. CASE Unattended(topic)
    <2>1. Coming(topic) \/ topic \in unheard
      BY <1>5 DEF SomeoneWoken, Unattended
    <2> QED
      BY <1>2, <1>3, <2>1 DEF Coming
  <1>6. CASE ~Unattended(topic)
    <2>1. PICK l \in Loops : TopicOf[l] = topic /\ l \notin unseen
      BY <1>3, <1>4, <1>6 DEF Unattended
    <2>2. (IF to = "pool" THEN "pool_claimed" ELSE "awaiting_deposit") \in Queue[l]
      BY <1>1, <1>4, <2>1 DEF Unattended, Written
    <2>3. topic = to
      BY <2>1, <2>2, RequestsCoverQueues
    <2> QED
      BY <1>2, <2>3 DEF Coming
  <1> QED
    BY <1>5, <1>6

\* On its way a signal is passed on, or counted as unheard.
LEMMA SignalSurvivesTelling ==
    ASSUME WakeTypeOK, SomeoneWoken, NEW h \in Movers \union Requests, NEW told \in Topics,
           SignalLocal(h, told) \/ Publish(h, told)
    PROVE  SomeoneWoken'
  <1>1. unseen' = unseen /\ loopPc' = loopPc
    BY DEF SignalLocal, Publish
  <1>2. \A g \in Movers \union Requests : g # h => telling'[g] = telling[g]
    BY DEF SignalLocal, Publish, WakeTypeOK
  <1>3. ASSUME NEW topic \in Topics, Coming(topic) \/ topic \in unheard
        PROVE  Coming(topic)' \/ topic \in unheard'
    <2>1. CASE SignalLocal(h, told)
      <3>1. telling'[h] = (telling[h] \ {<<told, "local">>}) \union {<<told, "bridge">>}
        BY <2>1 DEF SignalLocal, WakeTypeOK
      <3>2. signalled' = signalled \union {told} /\ notes' = notes /\ unheard' = unheard
        BY <2>1 DEF SignalLocal
      <3> QED
        BY <1>2, <1>3, <3>1, <3>2 DEF Coming
    <2>2. CASE Publish(h, told)
      <3>1. telling'[h] = telling[h] \ {<<told, "bridge">>} /\ signalled' = signalled
        BY <2>2 DEF Publish, WakeTypeOK
      <3>2. notes \subseteq notes' /\ unheard \subseteq unheard'
        BY <2>2 DEF Publish
      <3>3. h \in Requests => told \in notes' \/ told \in unheard'
        BY <2>2 DEF Publish
      <3>4. <<topic, "local">> # <<told, "bridge">>
        OBVIOUS
      <3> QED
        BY <1>2, <1>3, <3>1, <3>2, <3>3, <3>4, WakeAssumptions DEF Coming
    <2> QED
      BY <2>1, <2>2
  <1> QED
    BY <1>1, <1>3, SignalsSurvive

LEMMA SignalSurvivesLoss ==
    ASSUME WakeTypeOK, SomeoneWoken,
           \/ \E r \in Requests : RequestDies(r)
           \/ Connect \/ Disconnect \/ \E topic \in Topics : Deliver(topic)
    PROVE  SomeoneWoken'
  <1>1. ASSUME NEW r \in Requests, RequestDies(r) PROVE SomeoneWoken'
    <2>1. /\ \A g \in Movers \union Requests : g # r => telling'[g] = telling[g]
          /\ UNCHANGED <<unseen, signalled, notes, loopPc>>
          /\ unheard' = unheard \union {s[1] : s \in telling[r]}
      BY <1>1 DEF RequestDies, WakeTypeOK
    <2>2. \A topic \in Topics : <<topic, "bridge">> \in telling[r] => topic \in unheard'
      BY <2>1
    <2> QED
      BY <2>1, <2>2, SignalsSurvive, WakeAssumptions DEF Coming
  <1>2. CASE Connect
    BY <1>2, SignalsSurvive DEF Connect, Coming
  <1>3. CASE Disconnect
    BY <1>3, SignalsSurvive DEF Disconnect, Coming
  <1>4. ASSUME NEW topic \in Topics, Deliver(topic) PROVE SomeoneWoken'
    BY <1>4, SignalsSurvive DEF Deliver, Coming
  <1> QED
    BY <1>1, <1>2, <1>3, <1>4

\* A loop that takes a signal looks; one whose pass found nothing, because its query failed, is
\* counted; and a worker that starts looks everywhere.
LEMMA LoopsLook ==
    ASSUME WakeTypeOK, SomeoneWoken,
           \/ \E l \in Loops : Query(l) \/ QueryFails(l) \/ PassEnds(l) \/ Woke(l) \/ TimesOut(l)
           \/ WorkerRestarts
    PROVE  SomeoneWoken'
  <1>1. ASSUME NEW l \in Loops, Query(l) PROVE SomeoneWoken'
    <2>1. /\ l \notin unseen' /\ unseen' \subseteq unseen
          /\ UNCHANGED <<signalled, telling, notes>>
          /\ unheard' = unheard \ {TopicOf[l]}
          /\ \A k \in Loops : k # l => loopPc'[k] = loopPc[k]
      BY <1>1 DEF Query, LoopAt, WakeTypeOK
    <2>2. SUFFICES ASSUME NEW topic \in Topics, Unattended(topic)'
                   PROVE  Coming(topic)' \/ topic \in unheard'
      BY DEF SomeoneWoken, Unattended
    <2>3. topic # TopicOf[l]
      BY <2>1, <2>2 DEF Unattended
    <2>4. Unattended(topic)
      BY <2>1, <2>2, <2>3 DEF Unattended
    <2> QED
      BY <2>1, <2>3, <2>4 DEF Unattended, SomeoneWoken, Coming
  <1>2. ASSUME NEW l \in Loops, QueryFails(l) PROVE SomeoneWoken'
    <2>1. /\ UNCHANGED <<unseen, signalled, telling, notes>>
          /\ unheard' = unheard \union {TopicOf[l]}
          /\ \A k \in Loops : k # l => loopPc'[k] = loopPc[k]
      BY <1>2 DEF QueryFails, LoopAt, WakeTypeOK
    <2>2. SUFFICES ASSUME NEW topic \in Topics, Unattended(topic)', topic # TopicOf[l]
                   PROVE  Coming(topic)' \/ topic \in unheard'
      BY <2>1 DEF SomeoneWoken, Unattended
    <2>3. Unattended(topic)
      BY <2>1, <2>2 DEF Unattended
    <2> QED
      BY <2>1, <2>3 DEF Unattended, SomeoneWoken, Coming
  <1>3. ASSUME NEW l \in Loops, PassEnds(l) PROVE SomeoneWoken'
    <2>1. \A k \in Loops : loopPc'[k] # "query" => loopPc[k] # "query"
      BY <1>3 DEF PassEnds, LoopAt, WakeTypeOK
    <2> QED
      BY <1>3, <2>1, SignalsSurvive DEF PassEnds, Coming
  <1>4. ASSUME NEW l \in Loops, Woke(l) \/ TimesOut(l) PROVE SomeoneWoken'
    <2>1. /\ UNCHANGED <<unseen, telling, notes, unheard>>
          /\ signalled \ {TopicOf[l]} \subseteq signalled'
          /\ loopPc'[l] = "query"
          /\ \A k \in Loops : k # l => loopPc'[k] = loopPc[k]
      BY <1>4 DEF Woke, TimesOut, LoopAt, WakeTypeOK
    <2>2. SUFFICES ASSUME NEW topic \in Topics, Unattended(topic)'
                   PROVE  Coming(topic)' \/ topic \in unheard'
      BY DEF SomeoneWoken, Unattended
    <2>3. topic # TopicOf[l] /\ Unattended(topic)
      BY <2>1, <2>2 DEF Unattended
    <2> QED
      BY <2>1, <2>3 DEF Unattended, SomeoneWoken, Coming
  <1>5. CASE WorkerRestarts
    <2>1. \A l \in Loops : loopPc'[l] = "query"
      BY <1>5 DEF WorkerRestarts
    <2> QED
      BY <2>1, TopicHasLoop DEF SomeoneWoken
  <1> QED
    BY <1>1, <1>2, <1>3, <1>4, <1>5

-----------------------------------------------------------------------------
LEMMA WakeInvInit == WakeInit => WakeInv
  <1> SUFFICES ASSUME WakeInit PROVE WakeInv
    OBVIOUS
  <1>1. WakeTypeOK
    BY DEF WakeInit, WakeTypeOK
  <1>2. SomeoneWoken
    BY TopicHasLoop DEF WakeInit, SomeoneWoken
  <1> QED
    BY <1>1, <1>2 DEF WakeInv

LEMMA WakeInvNext == WakeInv /\ [WakeNext]_<<wakeVars, faultVars>> => WakeInv'
  <1> SUFFICES ASSUME WakeTypeOK, SomeoneWoken, [WakeNext]_<<wakeVars, faultVars>>
               PROVE  WakeTypeOK' /\ SomeoneWoken'
    BY DEF WakeInv
  <1>1. CASE \E h \in Movers : OrderMoves(h)
    BY <1>1, WriteTypes, MoveSignals
  <1>2. ASSUME NEW r \in Requests, RequestWrites(r) PROVE WakeTypeOK' /\ SomeoneWoken'
    BY <1>2, WriteTypes, RequestSignals
  <1>3. ASSUME NEW r \in Requests, RequestDies(r) PROVE WakeTypeOK' /\ SomeoneWoken'
    BY <1>3, WriteTypes, SignalSurvivesLoss
  <1>4. CASE \E h \in Movers \union Requests : HandlerTells(h)
    BY <1>4, SignalTypes, SignalSurvivesTelling DEF HandlerTells
  <1>5. CASE Connect \/ Disconnect \/ \E topic \in Topics : Deliver(topic)
    BY <1>5, SignalTypes, SignalSurvivesLoss
  <1>6. CASE \/ \E l \in Loops : Query(l) \/ QueryFails(l) \/ PassEnds(l) \/ Woke(l) \/ TimesOut(l)
             \/ WorkerRestarts
    BY <1>6, LoopTypes, LoopsLook
  <1>7. CASE UNCHANGED <<wakeVars, faultVars>>
    BY <1>7 DEF wakeVars, WakeTypeOK, SomeoneWoken, Coming
  <1> QED
    BY <1>1, <1>2, <1>3, <1>4, <1>5, <1>6, <1>7 DEF WakeNext

\* Work that nobody has seen and nobody is about to look for has a signal coming, or its signal was
\* lost (Bus, Loop.Run, recordTransition, waker, Listen), for all six loops and any number of
\* handlers and faults.
THEOREM NoLostWakeUp == WakeSpec => []SomeoneWoken
  <1>1. WakeInv => SomeoneWoken
    BY DEF WakeInv
  <1> QED
    BY <1>1, WakeInvInit, WakeInvNext, PTL DEF WakeSpec

-----------------------------------------------------------------------------
\* A goroutine's order is one order.
OneOrderEach == \A w \in Watchers : \A o, p \in watching[w] : o = p

\* Only what was created is watched, or about to be.
CreatedOnly ==
    \A o \in WatchedIn("initiated") : o \notin wanted /\ \A w \in Watchers : o \notin watching[w]

\* Nobody has claimed this order, nor had to hand it back.
Unclaimed(o) == watchedStatus[o] \in {"initiated", "awaiting_deposit"} /\ o \notin handedBack

\* No goroutine of it has a claim, a cursor to save, or a payment behind it.
AtItsStart(o) ==
    \A w \in Watchers : o \in watching[w] =>
        watchPc[w] \notin {"enqueue", "save"} /\ (watchPc[w] = "open" => reached[w] = 0)

NothingBehind == \A o \in WatchedOrders : Unclaimed(o) => cursor[o] = 0 /\ AtItsStart(o)

StreamsInv == StreamsTypeOK /\ OneOrderEach /\ CreatedOnly /\ NothingBehind

-----------------------------------------------------------------------------
LEMMA StreamsInvInit == StreamsInit => StreamsInv
  <1> SUFFICES ASSUME StreamsInit PROVE StreamsInv
    OBVIOUS
  <1>1. 0 \in 0 .. maxPayments
    BY StreamAssumptions
  <1>2. StreamsTypeOK
    BY <1>1 DEF StreamsInit, StreamsTypeOK, WatchPcs
  <1>3. OneOrderEach /\ CreatedOnly /\ NothingBehind
    BY DEF StreamsInit, OneOrderEach, CreatedOnly, NothingBehind, AtItsStart, WatchedIn
  <1> QED
    BY <1>2, <1>3 DEF StreamsInv

\* Orders are created, paid, claimed, queued, handed back and expired.
LEMMA OrdersKeepInv ==
    ASSUME StreamsInv, NEW o \in WatchedOrders,
           \/ OrderCreated(o) \/ PaymentLands(o)
           \/ ScannerClaims(o) \/ ScannerEnqueues(o) \/ ScannerExpires(o)
    PROVE  StreamsInv'
  <1> USE DEF StreamsInv
  <1>1. CASE OrderCreated(o)
    <2>1. StreamsTypeOK'
      BY <1>1 DEF OrderCreated, SetWatched, WatchedIn, watchSide, faultVars, StreamsTypeOK
    <2>2. OneOrderEach' /\ CreatedOnly' /\ NothingBehind'
      BY <1>1 DEF OrderCreated, SetWatched, WatchedIn, watchSide, StreamsTypeOK,
                  OneOrderEach, CreatedOnly, NothingBehind, Unclaimed, AtItsStart
    <2> QED
      BY <2>1, <2>2
  <1>2. CASE PaymentLands(o)
    <2>1. StreamsTypeOK'
      BY <1>2, StreamAssumptions DEF PaymentLands, watchSide, StreamsTypeOK
    <2>2. OneOrderEach' /\ CreatedOnly' /\ NothingBehind'
      BY <1>2 DEF PaymentLands, WatchedIn, watchSide,
                  OneOrderEach, CreatedOnly, NothingBehind, Unclaimed, AtItsStart
    <2> QED
      BY <2>1, <2>2
  <1>3. CASE ScannerClaims(o)
    <2>1. StreamsTypeOK'
      BY <1>3 DEF ScannerClaims, RecordClaims, WatchedIn, watchSide, StreamsTypeOK
    <2>2. OneOrderEach' /\ CreatedOnly' /\ NothingBehind'
      BY <1>3 DEF ScannerClaims, RecordClaims, WatchedIn, watchSide, StreamsTypeOK,
                  OneOrderEach, CreatedOnly, NothingBehind, Unclaimed, AtItsStart
    <2> QED
      BY <2>1, <2>2
  <1>4. CASE ScannerEnqueues(o)
    <2>1. StreamsTypeOK'
      BY <1>4 DEF ScannerEnqueues, SetWatched, HandsBack, watchSide, StreamsTypeOK
    <2>2. OneOrderEach' /\ CreatedOnly' /\ NothingBehind'
      BY <1>4 DEF ScannerEnqueues, SetWatched, HandsBack, WatchedIn, watchSide, StreamsTypeOK,
                  OneOrderEach, CreatedOnly, NothingBehind, Unclaimed, AtItsStart
    <2> QED
      BY <2>1, <2>2
  <1>5. CASE ScannerExpires(o)
    <2>1. StreamsTypeOK'
      BY <1>5 DEF ScannerExpires, SetWatched, WatchedIn, watchSide, StreamsTypeOK
    <2>2. OneOrderEach' /\ CreatedOnly' /\ NothingBehind'
      BY <1>5 DEF ScannerExpires, SetWatched, WatchedIn, watchSide, StreamsTypeOK,
                  OneOrderEach, CreatedOnly, NothingBehind, Unclaimed, AtItsStart
    <2> QED
      BY <2>1, <2>2
  <1> QED
    BY <1>1, <1>2, <1>3, <1>4, <1>5

\* The supervisor only asks for orders that await a deposit, and its goroutines start at "load".
LEMMA SupervisorKeepsInv ==
    ASSUME StreamsInv, Supervises
    PROVE  StreamsInv'
  <1> USE DEF StreamsInv
  <1>1. CASE SuperviseQueries
    <2>1. wanted' \subseteq WatchedIn("awaiting_deposit")
      BY <1>1 DEF SuperviseQueries, Wanted
    <2>2. StreamsTypeOK'
      BY <1>1, <2>1 DEF SuperviseQueries, WatchedIn, orderSide, watchSide, StreamsTypeOK
    <2>3. OneOrderEach' /\ CreatedOnly' /\ NothingBehind'
      BY <1>1, <2>1 DEF SuperviseQueries, WatchedIn, orderSide, watchSide,
                  OneOrderEach, CreatedOnly, NothingBehind, Unclaimed, AtItsStart
    <2> QED
      BY <2>2, <2>3
  <1>2. CASE SupervisePrunes
    <2>1. UNION {active[o] : o \in WatchedOrders \ wanted} \subseteq Watchers
      BY DEF StreamsTypeOK
    <2>2. StreamsTypeOK'
      BY <1>2, <2>1 DEF SupervisePrunes, orderSide, StreamsTypeOK
    <2>3. OneOrderEach' /\ CreatedOnly' /\ NothingBehind'
      BY <1>2 DEF SupervisePrunes, WatchedIn, orderSide,
                  OneOrderEach, CreatedOnly, NothingBehind, Unclaimed, AtItsStart
    <2> QED
      BY <2>2, <2>3
  <1>3. ASSUME NEW o \in WatchedOrders, Ensures(o) PROVE StreamsInv'
    <2>1. CASE UNCHANGED <<active, watchSide>>
      <3>1. StreamsTypeOK'
        BY <1>3, <2>1 DEF Ensures, orderSide, watchSide, StreamsTypeOK
      <3>2. OneOrderEach' /\ CreatedOnly' /\ NothingBehind'
        BY <1>3, <2>1 DEF Ensures, WatchedIn, orderSide, watchSide,
                    OneOrderEach, CreatedOnly, NothingBehind, Unclaimed, AtItsStart
      <3> QED
        BY <3>1, <3>2
    <2>2. ASSUME NEW w \in Watchers,
                 watchPc[w] = "none",
                 active' = [active EXCEPT ![o] = {w}],
                 watchPc' = [watchPc EXCEPT ![w] = "load"],
                 watching' = [watching EXCEPT ![w] = {o}],
                 UNCHANGED <<reached, cancelled>>
          PROVE  StreamsInv'
      <3>1. StreamsTypeOK'
        BY <1>3, <2>2 DEF Ensures, orderSide, StreamsTypeOK, WatchPcs
      <3>2. OneOrderEach'
        BY <2>2 DEF OneOrderEach, StreamsTypeOK
      <3>3. CreatedOnly'
        BY <1>3, <2>2 DEF Ensures, WatchedIn, orderSide, CreatedOnly, StreamsTypeOK
      <3>4. NothingBehind'
        BY <1>3, <2>2 DEF Ensures, orderSide, NothingBehind, Unclaimed, AtItsStart, StreamsTypeOK
      <3> QED
        BY <3>1, <3>2, <3>3, <3>4
    <2> QED
      BY <1>3, <2>1, <2>2 DEF Ensures
  <1>4. CASE SupervisePasses
    <2>1. StreamsTypeOK'
      BY <1>4 DEF SupervisePasses, orderSide, watchSide, StreamsTypeOK
    <2>2. OneOrderEach' /\ CreatedOnly' /\ NothingBehind'
      BY <1>4 DEF SupervisePasses, WatchedIn, orderSide, watchSide,
                  OneOrderEach, CreatedOnly, NothingBehind, Unclaimed, AtItsStart
    <2> QED
      BY <2>1, <2>2
  <1> QED
    BY <1>1, <1>2, <1>3, <1>4 DEF Supervises

-----------------------------------------------------------------------------
\* A goroutine that returns leaves nothing behind.
LEMMA ReturnsKeepsInv ==
    ASSUME StreamsInv, NEW w \in Watchers, Returns(w), UNCHANGED <<orderSide, supervising, wanted>>
    PROVE  StreamsInv'
  <1> USE DEF StreamsInv
  <1>1. StreamsTypeOK'
    BY StreamAssumptions DEF Returns, WatchAt, orderSide, StreamsTypeOK, WatchPcs
  <1>2. OneOrderEach' /\ CreatedOnly'
    BY DEF Returns, WatchAt, WatchedIn, orderSide, OneOrderEach, CreatedOnly, StreamsTypeOK
  <1>3. NothingBehind'
    BY DEF Returns, WatchAt, orderSide, NothingBehind, Unclaimed, AtItsStart, StreamsTypeOK
  <1> QED
    BY <1>1, <1>2, <1>3

\* A goroutine between two events, up to the payment it is handed.
LEMMA EventsKeepInv ==
    ASSUME StreamsInv, NEW w \in Watchers,
           \/ WatchEndsHere(w) \/ LoadFails(w) \/ Loads(w)
           \/ StreamDelivers(w) \/ StreamFails(w) \/ Reconnects(w)
    PROVE  StreamsInv'
  <1> USE DEF StreamsInv
  <1>1. CASE WatchEndsHere(w) \/ LoadFails(w)
    BY <1>1, ReturnsKeepsInv DEF WatchEndsHere, LoadFails
  <1>2. CASE Loads(w)
    <2>1. PICK o \in watching[w] : reached' = [reached EXCEPT ![w] = cursor[o]]
      BY <1>2 DEF Loads
    <2>2. StreamsTypeOK'
      BY <1>2, <2>1 DEF Loads, WatchAt, orderSide, StreamsTypeOK, WatchPcs
    <2>3. OneOrderEach' /\ CreatedOnly'
      BY <1>2 DEF Loads, WatchedIn, orderSide, OneOrderEach, CreatedOnly
    <2>4. NothingBehind'
      BY <1>2, <2>1 DEF Loads, WatchAt, orderSide, NothingBehind, Unclaimed, AtItsStart,
                        OneOrderEach, StreamsTypeOK
    <2> QED
      BY <2>2, <2>3, <2>4
  <1>3. CASE StreamDelivers(w)
    <2>1. PICK o \in watching[w] : reached[w] < landed[o]
      BY <1>3 DEF StreamDelivers
    <2>2. reached[w] + 1 \in 0 .. maxPayments
      BY <2>1, StreamAssumptions DEF StreamsTypeOK
    <2>3. StreamsTypeOK'
      BY <1>3, <2>2 DEF StreamDelivers, WatchAt, orderSide, StreamsTypeOK, WatchPcs
    <2>4. OneOrderEach' /\ CreatedOnly'
      BY <1>3 DEF StreamDelivers, WatchedIn, orderSide, OneOrderEach, CreatedOnly
    <2>5. NothingBehind'
      BY <1>3 DEF StreamDelivers, WatchAt, orderSide, NothingBehind, Unclaimed, AtItsStart,
                  StreamsTypeOK
    <2> QED
      BY <2>3, <2>4, <2>5
  <1>4. CASE StreamFails(w)
    <2>1. StreamsTypeOK'
      BY <1>4, StreamAssumptions DEF StreamFails, WatchAt, orderSide, StreamsTypeOK, WatchPcs
    <2>2. OneOrderEach' /\ CreatedOnly'
      BY <1>4 DEF StreamFails, WatchedIn, orderSide, OneOrderEach, CreatedOnly
    <2>3. NothingBehind'
      BY <1>4 DEF StreamFails, WatchAt, orderSide, NothingBehind, Unclaimed, AtItsStart,
                  StreamsTypeOK
    <2> QED
      BY <2>1, <2>2, <2>3
  <1>5. CASE Reconnects(w)
    <2>1. StreamsTypeOK'
      BY <1>5 DEF Reconnects, WatchAt, orderSide, StreamsTypeOK, WatchPcs
    <2>2. OneOrderEach' /\ CreatedOnly'
      BY <1>5 DEF Reconnects, WatchedIn, orderSide, OneOrderEach, CreatedOnly
    <2>3. NothingBehind'
      BY <1>5 DEF Reconnects, WatchAt, orderSide, NothingBehind, Unclaimed, AtItsStart,
                  StreamsTypeOK
    <2> QED
      BY <2>1, <2>2, <2>3
  <1> QED
    BY <1>1, <1>2, <1>3, <1>4, <1>5

\* A goroutine with a payment in hand: its order is claimed before the cursor may follow.
LEMMA HandlersKeepInv ==
    ASSUME StreamsInv, NEW w \in Watchers, WatchRecords(w) \/ WatchEnqueues(w) \/ WatchSaves(w)
    PROVE  StreamsInv'
  <1> USE DEF StreamsInv
  <1>1. CASE WatchRecords(w)
    <2>1. PICK o \in watching[w] :
              /\ RecordClaims(o)
              /\ WatchAt(w, IF watchedStatus[o] = "awaiting_deposit" THEN "enqueue" ELSE "save")
      BY <1>1 DEF WatchRecords
    <2>2. o \in WatchedOrders /\ watchedStatus[o] # "initiated"
      BY DEF StreamsTypeOK, CreatedOnly, WatchedIn
    <2>3. StreamsTypeOK'
      BY <1>1, <2>1, <2>2 DEF WatchRecords, RecordClaims, WatchAt, StreamsTypeOK, WatchPcs
    <2>4. OneOrderEach' /\ CreatedOnly'
      BY <1>1, <2>1, <2>2 DEF WatchRecords, RecordClaims, WatchedIn, OneOrderEach, CreatedOnly,
                              StreamsTypeOK
    <2>5. NothingBehind'
      BY <1>1, <2>1, <2>2 DEF WatchRecords, RecordClaims, WatchAt, NothingBehind, Unclaimed,
                              AtItsStart, OneOrderEach, StreamsTypeOK
    <2> QED
      BY <2>3, <2>4, <2>5
  <1>2. CASE WatchEnqueues(w)
    <2>1. PICK o \in watching[w] :
              \/ /\ SetWatched(o, "moved_on")
                 /\ WatchAt(w, "save") /\ UNCHANGED <<reached, handedBack, faultVars>>
              \/ /\ HandsBack(o)
                 /\ WatchAt(w, "backoff") /\ reached' = [reached EXCEPT ![w] = 0]
      BY <1>2 DEF WatchEnqueues
    <2>2. o \in WatchedOrders /\ watchedStatus[o] # "initiated"
      BY DEF StreamsTypeOK, CreatedOnly, WatchedIn
    <2>3. StreamsTypeOK'
      BY <1>2, <2>1, <2>2, StreamAssumptions DEF WatchEnqueues, SetWatched, HandsBack, WatchAt,
                              StreamsTypeOK, WatchPcs
    <2>4. OneOrderEach' /\ CreatedOnly'
      BY <1>2, <2>1, <2>2 DEF WatchEnqueues, SetWatched, HandsBack, WatchedIn, OneOrderEach,
                              CreatedOnly, StreamsTypeOK
    <2>5. NothingBehind'
      BY <1>2, <2>1, <2>2 DEF WatchEnqueues, SetWatched, HandsBack, WatchAt, NothingBehind,
                              Unclaimed, AtItsStart, OneOrderEach, StreamsTypeOK
    <2> QED
      BY <2>3, <2>4, <2>5
  <1>3. CASE WatchSaves(w)
    <2>1. \/ \E o \in watching[w] : cursor' = [cursor EXCEPT ![o] = reached[w]]
          \/ UNCHANGED cursor
      BY <1>3 DEF WatchSaves
    <2>2. StreamsTypeOK'
      BY <1>3, <2>1 DEF WatchSaves, WatchAt, StreamsTypeOK, WatchPcs
    <2>3. OneOrderEach' /\ CreatedOnly'
      BY <1>3 DEF WatchSaves, WatchedIn, OneOrderEach, CreatedOnly
    <2>4. NothingBehind'
      BY <1>3, <2>1 DEF WatchSaves, WatchAt, NothingBehind, Unclaimed, AtItsStart, OneOrderEach,
                        StreamsTypeOK
    <2> QED
      BY <2>2, <2>3, <2>4
  <1> QED
    BY <1>1, <1>2, <1>3

LEMMA CrashKeepsInv ==
    ASSUME StreamsInv, StreamerCrash
    PROVE  StreamsInv'
  <1> USE DEF StreamsInv
  <1>1. StreamsTypeOK'
    BY StreamAssumptions DEF StreamerCrash, StreamsTypeOK, WatchPcs
  <1>2. OneOrderEach' /\ CreatedOnly' /\ NothingBehind'
    BY DEF StreamerCrash, WatchedIn, StreamsTypeOK, OneOrderEach, CreatedOnly, NothingBehind,
           Unclaimed, AtItsStart
  <1> QED
    BY <1>1, <1>2

LEMMA StreamsInvNext == StreamsInv /\ [StreamsNext]_allStreamVars => StreamsInv'
  <1> SUFFICES ASSUME StreamsInv, [StreamsNext]_allStreamVars PROVE StreamsInv'
    OBVIOUS
  <1>1. CASE StreamsNext
    BY <1>1, OrdersKeepInv, SupervisorKeepsInv, EventsKeepInv, HandlersKeepInv, CrashKeepsInv
       DEF StreamsNext, Watches
  <1>2. CASE UNCHANGED allStreamVars
    BY <1>2 DEF allStreamVars, streamVars, orderSide, watchSide, StreamsInv, StreamsTypeOK,
                OneOrderEach, CreatedOnly, WatchedIn, NothingBehind, Unclaimed, AtItsStart
  <1> QED
    BY <1>1, <1>2

LEMMA InvSkipsNothing == StreamsInv => NothingSkipped
  BY DEF StreamsInv, NothingBehind, Unclaimed, AtItsStart, NothingSkipped, WatchedIn

\* The streams skip nothing, whatever connections drop, saves fail or processes die: no cursor of
\* supervise, watch and SaveCursor is ever ahead of the credit of the payments behind it.
THEOREM NoPaymentSkipped == StreamsSpec => []NothingSkipped
  <1>1. StreamsInit => StreamsInv
    BY StreamsInvInit
  <1>2. StreamsInv /\ [StreamsNext]_allStreamVars => StreamsInv'
    BY StreamsInvNext
  <1>3. StreamsInv => NothingSkipped
    BY InvSkipsNothing
  <1> QED
    BY <1>1, <1>2, <1>3, PTL DEF StreamsSpec

-----------------------------------------------------------------------------
(* How many streams are open.  As long as no credit is handed back, an order *)
(* that was wanted stays so until it is claimed or expires: orders are       *)
(* created with ever later deadlines.  So only streams of such orders are    *)
(* cancelled, and those are not wanted again: a cancelled goroutine that     *)
(* returns deletes no entry of another.                                      *)

Claimed(o) == watchedStatus[o] \in {"deposit_detected", "moved_on"}

InCreationOrder ==
    /\ \A o, p \in WatchedOrders :
           o < p /\ watchedStatus[o] = "initiated" => watchedStatus[p] = "initiated"
    /\ \A o \in scanning : watchedStatus[o] # "initiated"

\* An entry's goroutine is there, the only one, and watches its order.
EntriesOwned ==
    /\ \A o \in WatchedOrders : \A v, w \in active[o] : v = w
    /\ \A o \in WatchedOrders : \A w \in active[o] : o \in watching[w]
    /\ \A w \in Watchers : watchPc[w] = "none" => watching[w] = {}
    /\ \A w \in cancelled : watching[w] # {}
    /\ Cardinality(Entries) <= maxStreams

StreamsOwned ==
    handedBack = {} =>
        /\ \A o \in WatchedOrders : Live(o) \subseteq active[o]
        /\ \A w \in cancelled : \A o \in watching[w] :
               active[o] = {} /\ o \notin wanted /\ Claimed(o)
        /\ \A o \in Entries \union wanted : watchedStatus[o] = "awaiting_deposit" => o \in Wanted
        /\ supervising = "prune" => \A o \in Entries \ wanted : Claimed(o)

OwnedInv == InCreationOrder /\ EntriesOwned /\ StreamsOwned

\* Sets of orders are counted.
LEMMA OrdersCounted ==
    ASSUME NEW S, S \subseteq WatchedOrders, NEW T, T \subseteq S
    PROVE  /\ IsFiniteSet(S) /\ Cardinality(S) \in Nat /\ Cardinality(T) \in Nat
           /\ Cardinality(T) <= Cardinality(S)
           /\ \A o : Cardinality(S \union {o}) <= Cardinality(S) + 1
  <1>1. IsFiniteSet(WatchedOrders)
    BY FS_Interval, StreamAssumptions DEF WatchedOrders
  <1>2. IsFiniteSet(S) /\ IsFiniteSet(T) /\ Cardinality(T) <= Cardinality(S)
    BY <1>1, FS_Subset
  <1>3. Cardinality(S) \in Nat /\ Cardinality(T) \in Nat
    BY <1>2, FS_CardinalityType
  <1>4. \A o : Cardinality(S \union {o}) <= Cardinality(S) + 1
    BY <1>2, <1>3, FS_AddElement
  <1> QED
    BY <1>2, <1>3, <1>4

\* An order is as wanted as before while nobody before it comes to await a deposit.
LEMMA StaysWanted ==
    ASSUME NEW o \in Wanted, o \in WatchedIn("awaiting_deposit")',
           \A p \in WatchedOrders :
               p < o /\ watchedStatus'[p] = "awaiting_deposit"
                   => watchedStatus[p] = "awaiting_deposit"
    PROVE  o \in Wanted'
  <1> DEFINE Before == {p \in WatchedIn("awaiting_deposit") : p < o}
  <1>1. Before \subseteq WatchedOrders /\ Before' \subseteq Before
    BY DEF WatchedIn
  <1>2. /\ Cardinality(Before') <= Cardinality(Before)
        /\ Cardinality(Before) \in Nat /\ Cardinality(Before') \in Nat
    <2> HIDE DEF Before
    <2> QED
      BY <1>1, OrdersCounted
  <1>3. Cardinality(Before) < maxStreams
    BY DEF Wanted
  <1>4. Cardinality(Before') < maxStreams
    <2> HIDE DEF Before
    <2> QED
      BY <1>2, <1>3, StreamAssumptions
  <1> QED
    BY <1>4 DEF Wanted

-----------------------------------------------------------------------------
LEMMA OwnedInit == StreamsInit => OwnedInv
  <1> SUFFICES ASSUME StreamsInit PROVE OwnedInv
    OBVIOUS
  <1>1. Entries = {}
    BY DEF StreamsInit, Entries
  <1>2. Cardinality(Entries) = 0
    BY <1>1, FS_EmptySet
  <1>3. \A o \in WatchedOrders : Live(o) = {}
    BY DEF StreamsInit, Live
  <1> QED
    BY <1>1, <1>2, <1>3, StreamAssumptions
       DEF StreamsInit, OwnedInv, InCreationOrder, EntriesOwned, StreamsOwned

\* Whatever moves an order on, or a goroutine from one event to the next: none comes to await its
\* deposit again, unless its credit is handed back.
LEMMA OrdersKeepOwned ==
    ASSUME StreamsInv, OwnedInv, InCreationOrder',
           UNCHANGED <<supervising, wanted, active, watching, cancelled>>,
           \A w \in Watchers : watchPc'[w] = "none" => watchPc[w] = "none",
           handedBack' = {} =>
               /\ handedBack = {}
               /\ \A o \in WatchedOrders :
                      /\ Claimed(o) => Claimed(o)'
                      /\ watchedStatus[o] = "awaiting_deposit" => watchedStatus'[o] # "initiated"
    PROVE  OwnedInv'
  <1>1. Entries' = Entries /\ \A o \in WatchedOrders : Live(o)' = Live(o)
    BY DEF Entries, Live
  <1>2. EntriesOwned'
    BY <1>1 DEF OwnedInv, EntriesOwned
  <1>3. ASSUME handedBack' = {}
        PROVE  StreamsOwned'
    <2>1. StreamsOwned /\ handedBack = {}
      BY <1>3 DEF OwnedInv
    <2>2. Entries \union wanted \subseteq WatchedOrders
      BY DEF Entries, StreamsInv, StreamsTypeOK
    <2>3. \A o \in Entries \union wanted : watchedStatus[o] # "initiated"
      BY DEF StreamsInv, StreamsTypeOK, CreatedOnly, WatchedIn, OwnedInv, EntriesOwned, Entries
    <2>4. \A o \in WatchedOrders :
              watchedStatus[o] \in {"initiated", "awaiting_deposit", "deposit_detected", "moved_on"}
      BY DEF StreamsInv, StreamsTypeOK
    <2>5. ASSUME NEW o \in Entries \union wanted, watchedStatus'[o] = "awaiting_deposit"
          PROVE  o \in Wanted'
      <3>1. watchedStatus[o] = "awaiting_deposit"
        BY <1>3, <2>2, <2>3, <2>4, <2>5 DEF Claimed
      <3>2. o \in Wanted /\ o \in WatchedIn("awaiting_deposit")'
        BY <2>1, <2>2, <2>5, <3>1 DEF StreamsOwned, WatchedIn
      <3>3. ASSUME NEW p \in WatchedOrders, p < o, watchedStatus'[p] = "awaiting_deposit"
            PROVE  watchedStatus[p] = "awaiting_deposit"
        <4>1. watchedStatus[p] # "initiated"
          BY <2>2, <3>1, <3>3 DEF OwnedInv, InCreationOrder
        <4>2. ~Claimed(p)
          BY <1>3, <3>3 DEF Claimed
        <4> QED
          BY <2>4, <4>1, <4>2 DEF Claimed
      <3> QED
        BY <3>2, <3>3, StaysWanted
    <2>6. \A w \in cancelled : watching[w] \subseteq WatchedOrders
      BY DEF StreamsInv, StreamsTypeOK
    <2> QED
      BY <1>1, <1>3, <2>1, <2>2, <2>5, <2>6 DEF StreamsOwned
  <1> QED
    BY <1>2, <1>3 DEF OwnedInv, StreamsOwned

LEMMA CreationKeepsOwned ==
    ASSUME StreamsInv, OwnedInv, NEW o \in WatchedOrders, OrderCreated(o)
    PROVE  OwnedInv'
  <1>1. /\ watchedStatus[o] = "initiated"
        /\ \A p \in 1 .. o - 1 : watchedStatus[p] # "initiated"
        /\ watchedStatus' = [watchedStatus EXCEPT ![o] = "awaiting_deposit"]
        /\ UNCHANGED <<scanning, handedBack, supervising, wanted, active, watching, watchPc, cancelled>>
    BY DEF OrderCreated, WatchedIn, SetWatched, watchSide
  <1>2. watchedStatus'[o] = "awaiting_deposit"
        /\ \A p \in WatchedOrders \ {o} : watchedStatus'[p] = watchedStatus[p]
    BY <1>1 DEF StreamsInv, StreamsTypeOK
  <1>3. InCreationOrder'
    <2>1. ASSUME NEW p \in WatchedOrders, NEW q \in WatchedOrders, p < q,
                 watchedStatus'[p] = "initiated"
          PROVE  watchedStatus'[q] = "initiated"
      <3>1. p # o /\ watchedStatus[p] = "initiated"
        BY <1>2, <2>1
      <3>2. watchedStatus[q] = "initiated"
        BY <2>1, <3>1 DEF OwnedInv, InCreationOrder
      <3>3. ~(p < o)
        <4>1. p < o => p \in 1 .. o - 1
          BY StreamAssumptions DEF WatchedOrders
        <4> QED
          BY <1>1, <3>1, <4>1
      <3>4. q # o
        BY <2>1, <3>3
      <3> QED
        BY <1>2, <3>2, <3>4
    <2>2. \A p \in scanning : watchedStatus'[p] # "initiated"
      BY <1>2 DEF OwnedInv, InCreationOrder, StreamsInv, StreamsTypeOK
    <2> QED
      BY <1>1, <2>1, <2>2 DEF InCreationOrder
  <1>4. \A p \in WatchedOrders :
            /\ Claimed(p) => Claimed(p)'
            /\ watchedStatus[p] = "awaiting_deposit" => watchedStatus'[p] # "initiated"
    BY <1>1, <1>2 DEF Claimed
  <1> QED
    BY <1>1, <1>3, <1>4, OrdersKeepOwned

\* A step that creates no order, and moves none back unless its credit is.
LEMMA StatusKeepsOwned ==
    ASSUME StreamsInv, OwnedInv,
           UNCHANGED <<supervising, wanted, active, watching, cancelled>>,
           \A w \in Watchers : watchPc'[w] = "none" => watchPc[w] = "none",
           handedBack \subseteq handedBack',
           NEW o \in WatchedOrders, watchedStatus[o] # "initiated", scanning' \subseteq scanning \union {o},
           NEW to \in {"awaiting_deposit", "deposit_detected", "moved_on"},
           watchedStatus' \in {watchedStatus, [watchedStatus EXCEPT ![o] = to]},
           watchedStatus' = watchedStatus \/ to = "moved_on" \/ o \in handedBack'
               \/ (to = "deposit_detected" /\ watchedStatus[o] = "awaiting_deposit")
    PROVE  OwnedInv'
  <1>1. /\ watchedStatus'[o] \in {watchedStatus[o], to}
        /\ \A p \in WatchedOrders \ {o} : watchedStatus'[p] = watchedStatus[p]
    BY DEF StreamsInv, StreamsTypeOK
  <1>2. \A p \in WatchedOrders : watchedStatus'[p] = "initiated" <=> watchedStatus[p] = "initiated"
    BY <1>1
  <1>3. InCreationOrder'
    BY <1>2 DEF OwnedInv, InCreationOrder, StreamsInv, StreamsTypeOK
  <1>4. ASSUME handedBack' = {}, NEW p \in WatchedOrders
        PROVE  /\ Claimed(p) => Claimed(p)'
               /\ watchedStatus[p] = "awaiting_deposit" => watchedStatus'[p] # "initiated"
    BY <1>1, <1>2, <1>4 DEF Claimed, StreamsInv, StreamsTypeOK
  <1> QED
    BY <1>3, <1>4, OrdersKeepOwned

LEMMA ScannerKeepsOwned ==
    ASSUME StreamsInv, OwnedInv, NEW o \in WatchedOrders,
           \/ OrderCreated(o) \/ PaymentLands(o)
           \/ ScannerClaims(o) \/ ScannerEnqueues(o) \/ ScannerExpires(o)
    PROVE  OwnedInv'
  <1> USE DEF watchSide
  <1>1. CASE OrderCreated(o)
    BY <1>1, CreationKeepsOwned
  <1>2. CASE PaymentLands(o)
    BY <1>2, StatusKeepsOwned DEF PaymentLands
  <1>3. CASE ScannerClaims(o)
    BY <1>3, StatusKeepsOwned DEF ScannerClaims, RecordClaims, WatchedIn
  <1>4. CASE ScannerEnqueues(o)
    <2>1. watchedStatus[o] # "initiated"
      BY <1>4 DEF ScannerEnqueues, OwnedInv, InCreationOrder
    <2> QED
      BY <1>4, <2>1, StatusKeepsOwned DEF ScannerEnqueues, SetWatched, HandsBack
  <1>5. CASE ScannerExpires(o)
    BY <1>5, StatusKeepsOwned DEF ScannerExpires, SetWatched, WatchedIn
  <1> QED
    BY <1>1, <1>2, <1>3, <1>4, <1>5

LEMMA GoroutinesKeepOwned ==
    ASSUME StreamsInv, OwnedInv, NEW w \in Watchers,
           \/ Loads(w) \/ StreamDelivers(w) \/ StreamFails(w) \/ Reconnects(w)
           \/ WatchRecords(w) \/ WatchEnqueues(w) \/ WatchSaves(w)
    PROVE  OwnedInv'
  <1>1. UNCHANGED <<supervising, wanted, active, watching, cancelled, scanning>>
    BY DEF Loads, StreamDelivers, StreamFails, Reconnects, WatchRecords, WatchEnqueues, WatchSaves,
           orderSide
  <1>2. \A v \in Watchers : watchPc'[v] = "none" => watchPc[v] = "none"
    <2>1. \E pc \in WatchPcs \ {"none"} : WatchAt(w, pc)
      BY DEF Loads, StreamDelivers, StreamFails, Reconnects, WatchRecords, WatchEnqueues, WatchSaves,
             WatchPcs
    <2> QED
      BY <2>1 DEF WatchAt, StreamsInv, StreamsTypeOK
  <1>3. CASE UNCHANGED <<watchedStatus, handedBack>>
    <2>1. InCreationOrder'
      BY <1>1, <1>3 DEF OwnedInv, InCreationOrder
    <2> QED
      BY <1>1, <1>2, <1>3, <2>1, OrdersKeepOwned DEF Claimed
  <1>4. CASE WatchRecords(w)
    <2>1. PICK o \in watching[w] : RecordClaims(o)
      BY <1>4 DEF WatchRecords
    <2>2. o \in WatchedOrders /\ watchedStatus[o] # "initiated" /\ handedBack' = handedBack
      BY <1>4 DEF WatchRecords, StreamsInv, StreamsTypeOK, CreatedOnly, WatchedIn
    <2> QED
      BY <1>1, <1>2, <2>1, <2>2, StatusKeepsOwned DEF RecordClaims
  <1>5. CASE WatchEnqueues(w)
    <2>1. PICK o \in watching[w] :
              \/ SetWatched(o, "moved_on") /\ handedBack' = handedBack
              \/ HandsBack(o)
      BY <1>5 DEF WatchEnqueues
    <2>2. o \in WatchedOrders /\ watchedStatus[o] # "initiated"
      BY DEF StreamsInv, StreamsTypeOK, CreatedOnly, WatchedIn
    <2> QED
      BY <1>1, <1>2, <2>1, <2>2, StatusKeepsOwned DEF SetWatched, HandsBack
  <1> QED
    BY <1>3, <1>4, <1>5 DEF Loads, StreamDelivers, StreamFails, Reconnects, WatchSaves, orderSide

-----------------------------------------------------------------------------
\* Only streams of orders that were claimed or have expired are cancelled.
LEMMA PruneKeepsOwned ==
    ASSUME StreamsInv, OwnedInv, SupervisePrunes
    PROVE  OwnedInv'
  <1>1. /\ supervising = "prune" /\ supervising' = "ensure"
        /\ cancelled' = cancelled \union UNION {active[o] : o \in WatchedOrders \ wanted}
        /\ \A o \in WatchedOrders : active'[o] = IF o \in wanted THEN active[o] ELSE {}
        /\ UNCHANGED <<watchedStatus, scanning, handedBack, wanted, watchPc, watching>>
    BY DEF SupervisePrunes, orderSide
  <1>2. Entries' \subseteq Entries /\ Entries \subseteq WatchedOrders
    BY <1>1 DEF Entries
  <1>3. Cardinality(Entries') <= maxStreams
    <2>1. /\ Cardinality(Entries') <= Cardinality(Entries)
          /\ Cardinality(Entries) \in Nat /\ Cardinality(Entries') \in Nat
      BY <1>2, OrdersCounted
    <2> QED
      BY <2>1, StreamAssumptions DEF OwnedInv, EntriesOwned
  <1>4. ASSUME NEW w \in cancelled'
        PROVE  w \in cancelled \/ \E o \in WatchedOrders \ wanted : w \in active[o]
    BY <1>1, <1>4
  <1>5. EntriesOwned'
    BY <1>1, <1>3, <1>4 DEF OwnedInv, EntriesOwned
  <1>6. Wanted' = Wanted
    BY <1>1 DEF Wanted, WatchedIn
  <1>7. ASSUME handedBack' = {}
        PROVE  StreamsOwned'
    <2>1. StreamsOwned /\ handedBack = {}
      BY <1>1, <1>7 DEF OwnedInv
    <2>2. ASSUME NEW o \in WatchedOrders
          PROVE  Live(o)' \subseteq active'[o]
      <3>1. Live(o) \subseteq active[o] /\ Live(o)' \subseteq Live(o) \ cancelled'
        BY <1>1, <2>1 DEF Live, StreamsOwned
      <3>2. o \notin wanted => active[o] \subseteq cancelled'
        BY <1>1
      <3> QED
        BY <1>1, <3>1, <3>2
    <2>3. ASSUME NEW w \in cancelled', NEW o \in watching[w]
          PROVE  active'[o] = {} /\ o \notin wanted /\ Claimed(o)
      <3>1. o \in WatchedOrders /\ cancelled \subseteq Watchers
            /\ \A p \in WatchedOrders : active[p] \subseteq Watchers
        BY <1>4, <2>3 DEF StreamsInv, StreamsTypeOK
      <3>2. CASE w \in cancelled
        BY <1>1, <2>1, <2>3, <3>1, <3>2 DEF StreamsOwned
      <3>3. ASSUME NEW p \in WatchedOrders \ wanted, w \in active[p]
            PROVE  active'[o] = {} /\ o \notin wanted /\ Claimed(o)
        <4>1. o = p
          BY <2>3, <3>1, <3>3 DEF OwnedInv, EntriesOwned, StreamsInv, OneOrderEach
        <4>2. p \in Entries
          BY <3>3 DEF Entries
        <4> QED
          BY <1>1, <2>1, <3>3, <4>1, <4>2 DEF StreamsOwned
      <3> QED
        BY <1>4, <3>2, <3>3
    <2> QED
      BY <1>1, <1>2, <1>6, <2>1, <2>2, <2>3 DEF StreamsOwned, Claimed
  <1> QED
    BY <1>1, <1>5, <1>7 DEF OwnedInv, InCreationOrder, StreamsOwned

\* A goroutine is started for an order that has none, and whose streams nobody has cancelled.
LEMMA EnsureKeepsOwned ==
    ASSUME StreamsInv, OwnedInv, NEW o \in WatchedOrders, NEW w \in Watchers,
           supervising = "ensure", o \in wanted, wanted' = wanted \ {o},
           o \notin Entries, Cardinality(Entries) < maxStreams, watchPc[w] = "none",
           active' = [active EXCEPT ![o] = {w}],
           watchPc' = [watchPc EXCEPT ![w] = "load"],
           watching' = [watching EXCEPT ![w] = {o}],
           UNCHANGED <<orderSide, supervising, cancelled>>
    PROVE  OwnedInv'
  <1>1. /\ active'[o] = {w} /\ \A p \in WatchedOrders \ {o} : active'[p] = active[p]
        /\ watchPc'[w] = "load" /\ \A v \in Watchers \ {w} : watchPc'[v] = watchPc[v]
        /\ watching'[w] = {o} /\ \A v \in Watchers \ {w} : watching'[v] = watching[v]
        /\ UNCHANGED <<watchedStatus, scanning, handedBack>>
    BY DEF StreamsInv, StreamsTypeOK, orderSide
  <1>2. watching[w] = {} /\ w \notin cancelled /\ \A p \in WatchedOrders : w \notin active[p]
    BY DEF OwnedInv, EntriesOwned
  <1>3. Entries' = Entries \union {o} /\ Entries \subseteq WatchedOrders
    BY <1>1 DEF Entries
  <1>4. Cardinality(Entries') <= maxStreams
    <2>1. /\ Cardinality(Entries \union {o}) <= Cardinality(Entries) + 1
          /\ Cardinality(Entries) \in Nat
      BY <1>3, OrdersCounted
    <2>2. Cardinality(Entries \union {o}) \in Nat
      <3>1. Entries \union {o} \subseteq WatchedOrders
        BY <1>3
      <3> QED
        BY <3>1, OrdersCounted
    <2> QED
      BY <1>3, <2>1, <2>2, StreamAssumptions
  <1>5. EntriesOwned'
    <2>1. \A p \in WatchedOrders : \A v \in active[p] : v \in Watchers
      BY DEF StreamsInv, StreamsTypeOK
    <2>2. cancelled \subseteq Watchers
      BY DEF StreamsInv, StreamsTypeOK
    <2> QED
      BY <1>1, <1>2, <1>4, <2>1, <2>2 DEF OwnedInv, EntriesOwned
  <1>6. Wanted' = Wanted
    BY <1>1 DEF Wanted, WatchedIn
  <1>7. ASSUME handedBack' = {}
        PROVE  StreamsOwned'
    <2>1. StreamsOwned /\ handedBack = {}
      BY <1>1, <1>7 DEF OwnedInv
    <2>2. ASSUME NEW p \in WatchedOrders
          PROVE  Live(p)' \subseteq active'[p]
      <3>1. Live(p) \subseteq active[p]
        BY <2>1 DEF StreamsOwned
      <3>2. CASE p = o
        <4>1. Live(o) = {}
          BY <3>1, <3>2 DEF Entries
        <4> QED
          BY <1>1, <3>2, <4>1 DEF Live
      <3>3. CASE p # o
        BY <1>1, <3>1, <3>3 DEF Live
      <3> QED
        BY <3>2, <3>3
    <2>3. ASSUME NEW v \in cancelled', NEW p \in watching'[v]
          PROVE  active'[p] = {} /\ p \notin wanted' /\ Claimed(p)
      <3>1. v \in cancelled /\ v # w /\ v \in Watchers /\ p \in watching[v] /\ p \in WatchedOrders
        BY <1>1, <1>2, <2>3 DEF StreamsInv, StreamsTypeOK
      <3>2. active[p] = {} /\ p \notin wanted /\ Claimed(p)
        BY <2>1, <3>1 DEF StreamsOwned
      <3> QED
        BY <1>1, <3>1, <3>2
    <2> QED
      BY <1>1, <1>3, <1>6, <2>1, <2>2, <2>3 DEF StreamsOwned, Claimed
  <1> QED
    BY <1>1, <1>5, <1>7 DEF OwnedInv, InCreationOrder, StreamsOwned

LEMMA SupervisorKeepsOwned ==
    ASSUME StreamsInv, OwnedInv, Supervises
    PROVE  OwnedInv'
  <1>1. CASE SuperviseQueries
    <2>1. /\ wanted' = Wanted /\ supervising' = "prune"
          /\ UNCHANGED <<watchedStatus, scanning, handedBack, active, watchPc, watching, cancelled>>
      BY <1>1 DEF SuperviseQueries, orderSide, watchSide
    <2>2. Wanted' = Wanted /\ Entries' = Entries /\ \A o \in WatchedOrders : Live(o)' = Live(o)
      BY <2>1 DEF Wanted, WatchedIn, Entries, Live
    <2>3. InCreationOrder' /\ EntriesOwned'
      BY <2>1, <2>2 DEF OwnedInv, InCreationOrder, EntriesOwned
    <2>4. \A o \in Wanted : watchedStatus[o] = "awaiting_deposit"
      BY DEF Wanted, WatchedIn
    <2>5. ASSUME handedBack = {}, NEW o \in Entries \ Wanted
          PROVE  Claimed(o)
      <3>1. watchedStatus[o] # "awaiting_deposit"
        BY <2>5 DEF OwnedInv, StreamsOwned
      <3>2. watchedStatus[o] # "initiated" /\ o \in WatchedOrders
        BY DEF StreamsInv, StreamsTypeOK, CreatedOnly, WatchedIn, OwnedInv, EntriesOwned, Entries
      <3> QED
        BY <3>1, <3>2 DEF Claimed, StreamsInv, StreamsTypeOK
    <2>6. StreamsOwned'
      BY <2>1, <2>2, <2>4, <2>5 DEF OwnedInv, StreamsOwned, Claimed
    <2> QED
      BY <2>3, <2>6 DEF OwnedInv
  <1>2. CASE SupervisePrunes
    BY <1>2, PruneKeepsOwned
  <1>3. ASSUME NEW o \in WatchedOrders, Ensures(o)
        PROVE  OwnedInv'
    <2>1. CASE UNCHANGED <<active, watchSide>>
      <3>1. /\ wanted' = wanted \ {o} /\ supervising' = "ensure"
            /\ UNCHANGED <<watchedStatus, scanning, handedBack, active, watchPc, watching, cancelled>>
        BY <1>3, <2>1 DEF Ensures, orderSide, watchSide
      <3>2. Wanted' = Wanted /\ Entries' = Entries /\ \A p \in WatchedOrders : Live(p)' = Live(p)
        BY <3>1 DEF Wanted, WatchedIn, Entries, Live
      <3> QED
        BY <3>1, <3>2 DEF OwnedInv, InCreationOrder, EntriesOwned, StreamsOwned, Claimed
    <2>2. CASE ~UNCHANGED <<active, watchSide>>
      <3>1. Cardinality(Entries) < maxStreams /\ o \notin Entries
        <4>1. Entries \subseteq WatchedOrders
          BY DEF Entries
        <4>2. Cardinality(Entries) \in Nat
          BY <4>1, OrdersCounted
        <4> QED
          BY <1>3, <2>2, <4>2, StreamAssumptions DEF Ensures
      <3> QED
        BY <1>3, <2>2, <3>1, EnsureKeepsOwned DEF Ensures
    <2> QED
      BY <2>1, <2>2
  <1>4. CASE SupervisePasses
    <2>1. /\ wanted' = wanted /\ supervising' = "idle"
          /\ UNCHANGED <<watchedStatus, scanning, handedBack, active, watchPc, watching, cancelled>>
      BY <1>4 DEF SupervisePasses, orderSide, watchSide
    <2>2. Wanted' = Wanted /\ Entries' = Entries /\ \A p \in WatchedOrders : Live(p)' = Live(p)
      BY <2>1 DEF Wanted, WatchedIn, Entries, Live
    <2> QED
      BY <2>1, <2>2 DEF OwnedInv, InCreationOrder, EntriesOwned, StreamsOwned, Claimed
  <1> QED
    BY <1>1, <1>2, <1>3, <1>4 DEF Supervises

\* The entry a goroutine deletes is its own, or none.
LEMMA ReturnsKeepsOwned ==
    ASSUME StreamsInv, OwnedInv, NEW w \in Watchers, Returns(w),
           UNCHANGED <<orderSide, supervising, wanted>>
    PROVE  OwnedInv'
  <1>1. /\ \A o \in WatchedOrders : active'[o] = IF o \in watching[w] THEN {} ELSE active[o]
        /\ watchPc'[w] = "none" /\ \A v \in Watchers \ {w} : watchPc'[v] = watchPc[v]
        /\ watching'[w] = {} /\ \A v \in Watchers \ {w} : watching'[v] = watching[v]
        /\ cancelled' = cancelled \ {w}
        /\ UNCHANGED <<watchedStatus, scanning, handedBack, supervising, wanted>>
    BY DEF Returns, WatchAt, StreamsInv, StreamsTypeOK, orderSide
  <1>2. Entries' \subseteq Entries /\ Entries \subseteq WatchedOrders
    BY <1>1 DEF Entries
  <1>3. Cardinality(Entries') <= maxStreams
    <2>1. /\ Cardinality(Entries') <= Cardinality(Entries)
          /\ Cardinality(Entries) \in Nat /\ Cardinality(Entries') \in Nat
      BY <1>2, OrdersCounted
    <2> QED
      BY <2>1, StreamAssumptions DEF OwnedInv, EntriesOwned
  <1>4. cancelled \subseteq Watchers /\ \A o \in WatchedOrders : active[o] \subseteq Watchers
    BY DEF StreamsInv, StreamsTypeOK
  <1>5. EntriesOwned'
    BY <1>1, <1>3, <1>4 DEF OwnedInv, EntriesOwned
  <1>6. Wanted' = Wanted
    BY <1>1 DEF Wanted, WatchedIn
  <1>7. ASSUME handedBack' = {}
        PROVE  StreamsOwned'
    <2>1. StreamsOwned /\ handedBack = {}
      BY <1>1, <1>7 DEF OwnedInv
    <2>2. ASSUME NEW o \in WatchedOrders
          PROVE  Live(o)' \subseteq active'[o]
      <3>1. Live(o) \subseteq active[o]
        BY <2>1 DEF StreamsOwned
      <3>2. Live(o)' \subseteq Live(o) \ {w}
        BY <1>1 DEF Live
      <3>3. CASE o \notin watching[w]
        BY <1>1, <3>1, <3>2, <3>3
      <3>4. CASE o \in watching[w] /\ w \in cancelled
        <4>1. active[o] = {}
          BY <2>1, <3>4 DEF StreamsOwned
        <4> QED
          BY <3>1, <3>2, <4>1
      <3>5. CASE o \in watching[w] /\ w \notin cancelled
        <4>1. w \in Live(o)
          BY <3>5 DEF Live
        <4>2. active[o] \subseteq {w}
          BY <3>1, <4>1 DEF OwnedInv, EntriesOwned
        <4> QED
          BY <3>1, <3>2, <4>2
      <3> QED
        BY <3>3, <3>4, <3>5
    <2>3. ASSUME NEW v \in cancelled', NEW o \in watching'[v]
          PROVE  active'[o] = {} /\ o \notin wanted' /\ Claimed(o)
      <3>1. v \in cancelled /\ v # w /\ v \in Watchers /\ o \in watching[v] /\ o \in WatchedOrders
        BY <1>1, <1>4, <2>3 DEF StreamsInv, StreamsTypeOK
      <3> QED
        BY <1>1, <2>1, <3>1 DEF StreamsOwned
    <2> QED
      BY <1>1, <1>2, <1>6, <2>1, <2>2, <2>3 DEF StreamsOwned, Claimed
  <1> QED
    BY <1>1, <1>5, <1>7 DEF OwnedInv, InCreationOrder, StreamsOwned

LEMMA CrashKeepsOwned ==
    ASSUME StreamsInv, OwnedInv, StreamerCrash
    PROVE  OwnedInv'
  <1>1. Entries' = {} /\ \A o \in WatchedOrders : Live(o)' = {}
    BY DEF StreamerCrash, Entries, Live
  <1>2. Cardinality(Entries') = 0
    BY <1>1, FS_EmptySet
  <1>3. InCreationOrder'
    BY DEF OwnedInv, InCreationOrder, StreamerCrash
  <1>4. EntriesOwned' /\ StreamsOwned'
    BY <1>1, <1>2, StreamAssumptions DEF StreamerCrash, EntriesOwned, StreamsOwned
  <1> QED
    BY <1>3, <1>4 DEF OwnedInv

LEMMA OwnedInvNext == StreamsInv /\ OwnedInv /\ [StreamsNext]_allStreamVars => OwnedInv'
  <1> SUFFICES ASSUME StreamsInv, OwnedInv, [StreamsNext]_allStreamVars PROVE OwnedInv'
    OBVIOUS
  <1>1. ASSUME NEW w \in Watchers, WatchEndsHere(w) \/ LoadFails(w) PROVE OwnedInv'
    BY <1>1, ReturnsKeepsOwned DEF WatchEndsHere, LoadFails
  <1>2. CASE StreamsNext
    BY <1>1, <1>2, ScannerKeepsOwned, SupervisorKeepsOwned, GoroutinesKeepOwned, CrashKeepsOwned
       DEF StreamsNext, Watches
  <1>3. CASE UNCHANGED allStreamVars
    <2>1. UNCHANGED <<watchedStatus, scanning, handedBack, supervising, wanted, active, watchPc,
                      watching, cancelled>>
      BY <1>3 DEF allStreamVars, streamVars, orderSide, watchSide
    <2>2. InCreationOrder'
      BY <2>1 DEF OwnedInv, InCreationOrder
    <2> QED
      BY <2>1, <2>2, OrdersKeepOwned DEF Claimed
  <1> QED
    BY <1>2, <1>3

\* The streams that are open are those of the entries, one each.
LEMMA OwnedIsBounded ==
    ASSUME StreamsInv, OwnedInv
    PROVE  StreamsBounded
  <1> SUFFICES ASSUME handedBack = {}
               PROVE  /\ \A o \in WatchedOrders : Cardinality(Live(o)) <= 1
                      /\ Cardinality(UNION {Live(o) : o \in WatchedOrders}) <= maxStreams
    BY DEF StreamsBounded
  <1>1. \A o \in WatchedOrders : Live(o) \subseteq active[o] /\ \A v, w \in active[o] : v = w
    BY DEF OwnedInv, EntriesOwned, StreamsOwned
  <1>2. ASSUME NEW o \in WatchedOrders
        PROVE  Cardinality(Live(o)) <= 1
    <2>1. CASE Live(o) = {}
      <3>1. Cardinality(Live(o)) = 0
        BY <2>1, FS_EmptySet
      <3> QED
        BY <3>1
    <2>2. ASSUME NEW w \in Live(o)
          PROVE  Cardinality(Live(o)) <= 1
      <3>1. Live(o) = {w}
        BY <1>1, <2>2
      <3>2. Cardinality({w}) = 1
        BY FS_Singleton
      <3> QED
        BY <3>1, <3>2
    <2> QED
      BY <2>1, <2>2
  <1> DEFINE open == UNION {Live(o) : o \in WatchedOrders}
             goroutine == [o \in Entries |-> CHOOSE w : w \in active[o]]
             owners == {goroutine[o] : o \in Entries}
  <1>3. open \subseteq owners
    <2>1. ASSUME NEW o \in WatchedOrders, NEW w \in Live(o)
          PROVE  w \in owners
      <3>1. w \in active[o] /\ o \in Entries
        BY <1>1, <2>1 DEF Entries
      <3>2. goroutine[o] = w
        BY <1>1, <3>1 DEF Entries
      <3> QED
        BY <3>1, <3>2
    <2> QED
      BY <2>1
  <1>4. IsFiniteSet(Entries) /\ Cardinality(Entries) \in Nat
    <2>1. Entries \subseteq WatchedOrders
      BY DEF Entries
    <2> QED
      BY <2>1, OrdersCounted
  <1>5. goroutine \in Surjection(Entries, owners)
    BY DEF Surjection
  <1>6. IsFiniteSet(owners) /\ Cardinality(owners) <= Cardinality(Entries)
    BY <1>4, <1>5, FS_Surjection
  <1>7. Cardinality(open) <= Cardinality(owners) /\ IsFiniteSet(open)
    BY <1>3, <1>6, FS_Subset
  <1>8. Cardinality(open) \in Nat /\ Cardinality(owners) \in Nat
    BY <1>6, <1>7, FS_CardinalityType
  <1>9. Cardinality(open) <= maxStreams
    <2> HIDE DEF open, owners
    <2> QED
      BY <1>4, <1>6, <1>7, <1>8, StreamAssumptions DEF OwnedInv, EntriesOwned
  <1> QED
    BY <1>2, <1>9

\* As long as no credit is handed back, one stream is open for an order, and no more in all than
\* the supervisor may open, for any number of orders, goroutines and faults (supervise, ensure,
\* watch).
THEOREM OpenStreamsBounded == StreamsSpec => []StreamsBounded
  <1>1. StreamsInit => StreamsInv /\ OwnedInv
    BY StreamsInvInit, OwnedInit
  <1>2. StreamsInv /\ OwnedInv /\ [StreamsNext]_allStreamVars => (StreamsInv /\ OwnedInv)'
    BY StreamsInvNext, OwnedInvNext
  <1>3. StreamsInv /\ OwnedInv => StreamsBounded
    BY OwnedIsBounded
  <1> QED
    BY <1>1, <1>2, <1>3, PTL DEF StreamsSpec

-----------------------------------------------------------------------------
\* Both components together.
WorkerInv == WakeInv /\ StreamsInv /\ OwnedInv /\ FaultsTypeOK

\* A step draws on the budget of faults once, or not at all.
OneFault == Lose \/ Crash \/ UNCHANGED faultVars

LEMMA FaultsKept == FaultsTypeOK /\ OneFault => FaultsTypeOK'
  BY FaultBudgets DEF FaultsTypeOK, OneFault, Lose, Crash, faultVars

LEMMA WakeFaults == WakeNext => OneFault
  <1> USE DEF OneFault
  <1>1. ASSUME NEW h \in Movers \union Requests, OrderMoves(h) \/ RequestWrites(h) \/ RequestDies(h)
        PROVE  OneFault
    BY <1>1 DEF OrderMoves, RequestWrites, RequestDies
  <1>2. ASSUME NEW h, NEW topic, SignalLocal(h, topic) \/ Publish(h, topic) \/ Deliver(topic)
        PROVE  OneFault
    BY <1>2 DEF SignalLocal, Publish, Deliver
  <1>3. ASSUME NEW l \in Loops, Query(l) \/ QueryFails(l) \/ PassEnds(l) \/ Woke(l) \/ TimesOut(l)
        PROVE  OneFault
    BY <1>3 DEF Query, QueryFails, PassEnds, Woke, TimesOut
  <1>4. Connect \/ Disconnect \/ WorkerRestarts => OneFault
    BY DEF Connect, Disconnect, WorkerRestarts
  <1> QED
    BY <1>1, <1>2, <1>3, <1>4 DEF WakeNext, HandlerTells

LEMMA StreamFaults == StreamsNext => OneFault
  <1> USE DEF OneFault
  <1>1. ASSUME NEW o \in WatchedOrders,
               \/ OrderCreated(o) \/ PaymentLands(o)
               \/ ScannerClaims(o) \/ ScannerEnqueues(o) \/ ScannerExpires(o)
        PROVE  OneFault
    BY <1>1 DEF OrderCreated, PaymentLands, ScannerClaims, ScannerEnqueues, ScannerExpires, HandsBack
  <1>2. Supervises \/ StreamerCrash => OneFault
    BY DEF Supervises, SuperviseQueries, SupervisePrunes, Ensures, SupervisePasses, StreamerCrash
  <1>3. ASSUME NEW w \in Watchers, Watches(w) \/ LoadFails(w) \/ StreamFails(w)
        PROVE  OneFault
    BY <1>3 DEF Watches, WatchEndsHere, Loads, StreamDelivers, WatchRecords, WatchEnqueues, HandsBack,
                WatchSaves, Reconnects, LoadFails, StreamFails
  <1> QED
    BY <1>1, <1>2, <1>3 DEF StreamsNext

\* Each component leaves what the other's invariant is about alone.
LEMMA WakeAtRest == WakeInv /\ UNCHANGED wakeVars => WakeInv'
  BY DEF WakeInv, wakeVars, WakeTypeOK, SomeoneWoken, Coming

LEMMA StreamsAtRest ==
    ASSUME StreamsInv, OwnedInv, UNCHANGED streamVars
    PROVE  StreamsInv' /\ OwnedInv'
  <1>1. /\ UNCHANGED <<watchedStatus, scanning, landed, cursor, handedBack, supervising, wanted>>
        /\ UNCHANGED <<active, watchPc, watching, reached, cancelled>>
    BY DEF streamVars, orderSide, watchSide
  <1>2. StreamsInv'
    BY <1>1 DEF StreamsInv, StreamsTypeOK, OneOrderEach, CreatedOnly, WatchedIn, NothingBehind,
                Unclaimed, AtItsStart
  <1>3. InCreationOrder'
    BY <1>1 DEF OwnedInv, InCreationOrder
  <1> QED
    BY <1>1, <1>2, <1>3, OrdersKeepOwned DEF Claimed

LEMMA WorkerInvariant == WorkerSpec => []WorkerInv
  <1>1. WorkerInit => WorkerInv
    BY WakeInvInit, StreamsInvInit, OwnedInit, FaultBudgets
       DEF WorkerInit, WorkerInv, FaultsInit, FaultsTypeOK
  <1>2. WorkerInv /\ [InWake(WakeNext) \/ InStreams(StreamsNext)]_workerVars => WorkerInv'
    <2> SUFFICES ASSUME WorkerInv, [InWake(WakeNext) \/ InStreams(StreamsNext)]_workerVars
                 PROVE  WorkerInv'
      OBVIOUS
    <2>1. CASE InWake(WakeNext)
      BY <2>1, WakeInvNext, StreamsAtRest, WakeFaults, FaultsKept DEF InWake, WorkerInv
    <2>2. CASE InStreams(StreamsNext)
      BY <2>2, StreamsInvNext, OwnedInvNext, WakeAtRest, StreamFaults, FaultsKept
         DEF InStreams, WorkerInv
    <2>3. CASE UNCHANGED workerVars
      <3>1. UNCHANGED wakeVars /\ UNCHANGED streamVars /\ OneFault
        BY <2>3 DEF workerVars, OneFault
      <3> QED
        BY <3>1, WakeAtRest, StreamsAtRest, FaultsKept DEF WorkerInv
    <2> QED
      BY <2>1, <2>2, <2>3
  <1> QED
    BY <1>1, <1>2, PTL DEF WorkerSpec

\* The worker process, signals and streams together: every variable of the bus, the loops, the
\* supervisor and its goroutines stays in its range, and each component keeps its own promises.
THEOREM WorkerCorrect ==
    WorkerSpec => [](WorkerTypeOK /\ SomeoneWoken /\ NothingSkipped /\ StreamsBounded)
  <1>1. WorkerInv => WorkerTypeOK /\ SomeoneWoken /\ NothingSkipped /\ StreamsBounded
    BY InvSkipsNothing, OwnedIsBounded DEF WorkerInv, WakeInv, StreamsInv, WorkerTypeOK
  <1> QED
    BY <1>1, WorkerInvariant, PTL

=============================================================================
