------------------------------ MODULE Streams ------------------------------
(***************************************************************************)
(* Stream supervision: internal/settle/stream.go over the Horizon streams  *)
(* of internal/stellar/stream.go and the cursors of                        *)
(* internal/store/cursor.go.  The scanner is here as what it does to an    *)
(* order's status.  A goroutine's pc:                                      *)
(*   load -> open -> record -> enqueue -> save -> open                     *)
(*   open, record, enqueue -> backoff -> load                              *)
(***************************************************************************)
EXTENDS Faults, FiniteSets

CONSTANTS LastOrder,   \* orders are 1 .. LastOrder, in the order of creation and of deadline
          maxStreams,
          maxWatchers, \* bound on the goroutines alive at once, the cancelled ones included
          maxPayments  \* bound on the payments to one order

ASSUME StreamAssumptions ==
    LastOrder \in Nat /\ maxStreams \in Nat \ {0} /\ maxWatchers \in Nat /\ maxPayments \in Nat

WatchedOrders == 1 .. LastOrder
Watchers == 1 .. maxWatchers

VARIABLES watchedStatus, \* "moved_on" stands for payout_queued, expired and what follows them
          scanning,      \* orders the scanner has claimed and not queued for payout yet
          landed,        \* payments on the ledger, order by order
          cursor,        \* stellar_stream_cursors: the last payment handled
          handedBack     \* auxiliary: orders whose credit was refused and handed back
VARIABLES supervising, \* supervise's pc
          wanted,      \* its snapshot of the orders to watch
          active,      \* s.active: the goroutine of an entry's CancelFunc, or none
          watchPc, watching, \* a goroutine and its order
          reached,     \* the last payment handed to its open stream
          cancelled
orderSide == <<watchedStatus, scanning, landed, cursor, handedBack>>
watchSide == <<watchPc, watching, reached, cancelled>>
streamVars == <<orderSide, supervising, wanted, active, watchSide>>

WatchPcs == {"none", "load", "open", "record", "enqueue", "save", "backoff"}

StreamsTypeOK ==
    /\ watchedStatus \in
         [WatchedOrders -> {"initiated", "awaiting_deposit", "deposit_detected", "moved_on"}]
    /\ scanning \subseteq WatchedOrders /\ handedBack \subseteq WatchedOrders
    /\ landed \in [WatchedOrders -> 0 .. maxPayments]
    /\ cursor \in [WatchedOrders -> 0 .. maxPayments]
    /\ supervising \in {"idle", "prune", "ensure"}
    /\ wanted \subseteq WatchedOrders
    /\ active \in [WatchedOrders -> SUBSET Watchers]
    /\ watchPc \in [Watchers -> WatchPcs]
    /\ watching \in [Watchers -> SUBSET WatchedOrders]
    /\ reached \in [Watchers -> 0 .. maxPayments]
    /\ cancelled \subseteq Watchers

StreamsInit ==
    /\ watchedStatus = [o \in WatchedOrders |-> "initiated"]
    /\ scanning = {} /\ handedBack = {}
    /\ landed = [o \in WatchedOrders |-> 0]
    /\ cursor = [o \in WatchedOrders |-> 0]
    /\ supervising = "idle" /\ wanted = {}
    /\ active = [o \in WatchedOrders |-> {}]
    /\ watchPc = [w \in Watchers |-> "none"]
    /\ watching = [w \in Watchers |-> {}]
    /\ reached = [w \in Watchers |-> 0]
    /\ cancelled = {}

-----------------------------------------------------------------------------
WatchedIn(status) == {o \in WatchedOrders : watchedStatus[o] = status}
SetWatched(o, status) == watchedStatus' = [watchedStatus EXCEPT ![o] = status]

\* handleCreateOrder: the order is saved, with the latest deadline so far.
OrderCreated(o) ==
    /\ o \in WatchedIn("initiated")
    /\ \A earlier \in 1 .. o - 1 : watchedStatus[earlier] # "initiated"
    /\ SetWatched(o, "awaiting_deposit")
    /\ UNCHANGED <<scanning, landed, cursor, handedBack>>
    /\ UNCHANGED <<supervising, wanted, active, watchSide, faultVars>>

\* A payer pays, at any time after the address was published.
PaymentLands(o) ==
    /\ watchedStatus[o] # "initiated"
    /\ landed[o] < maxPayments
    /\ landed' = [landed EXCEPT ![o] = @ + 1]
    /\ UNCHANGED <<watchedStatus, scanning, cursor, handedBack>>
    /\ UNCHANGED <<supervising, wanted, active, watchSide, faultVars>>

-----------------------------------------------------------------------------
\* Record, up to the claim, and from there: the payout is queued, or that is refused and the
\* claim is handed back.
RecordClaims(o) ==
    watchedStatus' = IF watchedStatus[o] = "awaiting_deposit"
                     THEN [watchedStatus EXCEPT ![o] = "deposit_detected"] ELSE watchedStatus
HandsBack(o) ==
    /\ Lose
    /\ SetWatched(o, "awaiting_deposit")
    /\ handedBack' = handedBack \union {o}

\* Scanner.check records a deposit.
ScannerClaims(o) ==
    /\ o \in WatchedIn("awaiting_deposit")
    /\ landed[o] > 0
    /\ RecordClaims(o)
    /\ scanning' = scanning \union {o}
    /\ UNCHANGED <<landed, cursor, handedBack>>
    /\ UNCHANGED <<supervising, wanted, active, watchSide, faultVars>>

ScannerEnqueues(o) ==
    /\ o \in scanning
    /\ scanning' = scanning \ {o}
    /\ \/ SetWatched(o, "moved_on") /\ UNCHANGED <<handedBack, faultVars>>
       \/ HandsBack(o)
    /\ UNCHANGED <<landed, cursor, supervising, wanted, active, watchSide>>

\* Scanner.check expires an order it read no deposit of; one may have landed since.
ScannerExpires(o) ==
    /\ o \in WatchedIn("awaiting_deposit")
    /\ SetWatched(o, "moved_on")
    /\ UNCHANGED <<scanning, landed, cursor, handedBack>>
    /\ UNCHANGED <<supervising, wanted, active, watchSide, faultVars>>

-----------------------------------------------------------------------------
\* Mutant: the latest deadlines first.
WantedNewest ==
    {o \in WatchedIn("awaiting_deposit") :
        Cardinality({later \in WatchedIn("awaiting_deposit") : later > o}) < maxStreams}

\* ORDER BY deposit_deadline ASC LIMIT max.
Wanted ==
    {o \in WatchedIn("awaiting_deposit") :
        Cardinality({earlier \in WatchedIn("awaiting_deposit") : earlier < o}) < maxStreams}

\* A query that fails is logged and changes nothing: Loop.Run makes the pass again.
SuperviseQueries ==
    /\ supervising = "idle"
    /\ wanted' = Wanted
    /\ supervising' = "prune"
    /\ UNCHANGED <<orderSide, active, watchSide, faultVars>>

\* Mutant: an entry is dropped without cancelling its stream.
SuperviseForgets ==
    /\ supervising = "prune"
    /\ active' = [o \in WatchedOrders |-> IF o \in wanted THEN active[o] ELSE {}]
    /\ supervising' = "ensure"
    /\ UNCHANGED <<orderSide, wanted, watchSide, faultVars>>

\* supervise, under its lock: the streams of orders that are not wanted are cancelled, and their
\* entries deleted while the goroutines may still be at work.
SupervisePrunes ==
    /\ supervising = "prune"
    /\ cancelled' = cancelled \union UNION {active[o] : o \in WatchedOrders \ wanted}
    /\ active' = [o \in WatchedOrders |-> IF o \in wanted THEN active[o] ELSE {}]
    /\ supervising' = "ensure"
    /\ UNCHANGED <<orderSide, wanted, watchPc, watching, reached, faultVars>>

Entries == {o \in WatchedOrders : active[o] # {}}

\* ensure, for the next order of the snapshot.
Ensures(o) ==
    /\ supervising = "ensure"
    /\ o \in wanted /\ \A p \in wanted : o <= p
    /\ wanted' = wanted \ {o}
    /\ IF o \in Entries \/ Cardinality(Entries) >= maxStreams
       THEN UNCHANGED <<active, watchSide>>
       ELSE \E w \in Watchers :
                /\ watchPc[w] = "none" /\ \A v \in 1 .. w - 1 : watchPc[v] # "none"
                /\ active' = [active EXCEPT ![o] = {w}]
                /\ watchPc' = [watchPc EXCEPT ![w] = "load"]
                /\ watching' = [watching EXCEPT ![w] = {o}]
                /\ UNCHANGED <<reached, cancelled>>
    /\ UNCHANGED <<orderSide, supervising, faultVars>>

SupervisePasses ==
    /\ supervising = "ensure"
    /\ wanted = {}
    /\ supervising' = "idle"
    /\ UNCHANGED <<orderSide, wanted, active, watchSide, faultVars>>

-----------------------------------------------------------------------------
WatchAt(w, pc) == watchPc' = [watchPc EXCEPT ![w] = pc]

\* watch returns: the deferred function deletes the order's entry, whoever's it is by now.
Returns(w) ==
    /\ active' = [o \in WatchedOrders |-> IF o \in watching[w] THEN {} ELSE active[o]]
    /\ WatchAt(w, "none")
    /\ watching' = [watching EXCEPT ![w] = {}]
    /\ reached' = [reached EXCEPT ![w] = 0]
    /\ cancelled' = cancelled \ {w}

\* A cancelled stream ends between two events or connections, never within a handler.
WatchEndsHere(w) ==
    /\ watchPc[w] \in {"load", "open", "backoff"}
    /\ w \in cancelled
    /\ Returns(w)
    /\ UNCHANGED <<orderSide, supervising, wanted, faultVars>>

\* Mutant: a stream without a cursor starts at "now".
LoadsNow(w) ==
    /\ watchPc[w] = "load"
    /\ \E o \in watching[w] :
           reached' = [reached EXCEPT ![w] = IF cursor[o] = 0 THEN landed[o] ELSE cursor[o]]
    /\ WatchAt(w, "open")
    /\ UNCHANGED <<orderSide, supervising, wanted, active, watching, cancelled, faultVars>>

\* LoadCursor, and a stream is opened after it: with none, from the start of the account.
Loads(w) ==
    /\ watchPc[w] = "load"
    /\ \E o \in watching[w] : reached' = [reached EXCEPT ![w] = cursor[o]]
    /\ WatchAt(w, "open")
    /\ UNCHANGED <<orderSide, supervising, wanted, active, watching, cancelled, faultVars>>

\* The cursor cannot be read: the goroutine gives up.
LoadFails(w) ==
    /\ watchPc[w] = "load"
    /\ Lose
    /\ Returns(w)
    /\ UNCHANGED <<orderSide, supervising, wanted>>

\* Mutant: the cursor is saved when a payment is seen.
StreamDeliversSaved(w) ==
    /\ watchPc[w] = "open"
    /\ \E o \in watching[w] :
        /\ reached[w] < landed[o]
        /\ cursor' = [cursor EXCEPT ![o] = reached[w] + 1]
    /\ reached' = [reached EXCEPT ![w] = @ + 1]
    /\ WatchAt(w, "record")
    /\ UNCHANGED <<watchedStatus, scanning, landed, handedBack>>
    /\ UNCHANGED <<supervising, wanted, active, watching, cancelled, faultVars>>

\* Mutant: the last payment is handed over again.
StreamDeliversAgain(w) ==
    /\ watchPc[w] = "open"
    /\ \E o \in watching[w] : reached[w] <= landed[o]
    /\ reached' = [reached EXCEPT ![w] = @ + 1]
    /\ WatchAt(w, "record")
    /\ UNCHANGED <<orderSide, supervising, wanted, active, watching, cancelled, faultVars>>

\* StreamUSDCPayments hands over the next payment.
StreamDelivers(w) ==
    /\ watchPc[w] = "open"
    /\ \E o \in watching[w] : reached[w] < landed[o]
    /\ reached' = [reached EXCEPT ![w] = @ + 1]
    /\ WatchAt(w, "record")
    /\ UNCHANGED <<orderSide, supervising, wanted, active, watching, cancelled, faultVars>>

\* The connection is dropped, or handle cannot read the balance or make the claim, whereupon the
\* stream is cancelled and hands over nothing more: the position is forgotten.
StreamFails(w) ==
    /\ watchPc[w] \in {"open", "record"}
    /\ Lose
    /\ WatchAt(w, "backoff")
    /\ reached' = [reached EXCEPT ![w] = 0]
    /\ UNCHANGED <<orderSide, supervising, wanted, active, watching, cancelled>>

\* handle, Record: claimed, or somebody else has.
WatchRecords(w) ==
    /\ watchPc[w] = "record"
    /\ \E o \in watching[w] :
        /\ RecordClaims(o)
        /\ WatchAt(w, IF watchedStatus[o] = "awaiting_deposit" THEN "enqueue" ELSE "save")
    /\ UNCHANGED <<scanning, landed, cursor, handedBack>>
    /\ UNCHANGED <<supervising, wanted, active, watching, reached, cancelled, faultVars>>

WatchEnqueues(w) ==
    /\ watchPc[w] = "enqueue"
    /\ \E o \in watching[w] :
        \/ SetWatched(o, "moved_on") /\ WatchAt(w, "save") /\ UNCHANGED <<reached, handedBack, faultVars>>
        \/ HandsBack(o) /\ WatchAt(w, "backoff") /\ reached' = [reached EXCEPT ![w] = 0]
    /\ UNCHANGED <<scanning, landed, cursor, supervising, wanted>>
    /\ UNCHANGED <<active, watching, cancelled>>

\* SaveCursor; that it fails is only logged.
WatchSaves(w) ==
    /\ watchPc[w] = "save"
    /\ \/ /\ \E o \in watching[w] : cursor' = [cursor EXCEPT ![o] = reached[w]]
          /\ UNCHANGED faultVars
       \/ Lose /\ UNCHANGED cursor
    /\ WatchAt(w, "open")
    /\ UNCHANGED <<watchedStatus, scanning, landed, handedBack>>
    /\ UNCHANGED <<supervising, wanted, active, watching, reached, cancelled>>

\* The back-off is over.
Reconnects(w) ==
    /\ watchPc[w] = "backoff"
    /\ WatchAt(w, "load")
    /\ UNCHANGED <<orderSide, supervising, wanted, active, watching, reached, cancelled, faultVars>>

\* The worker process dies with its goroutines, and what the scanner had claimed stays claimed.
StreamerCrash ==
    /\ Crash
    /\ scanning' = {}
    /\ supervising' = "idle" /\ wanted' = {}
    /\ active' = [o \in WatchedOrders |-> {}]
    /\ watchPc' = [w \in Watchers |-> "none"]
    /\ watching' = [w \in Watchers |-> {}]
    /\ reached' = [w \in Watchers |-> 0]
    /\ cancelled' = {}
    /\ UNCHANGED <<watchedStatus, landed, cursor, handedBack>>

-----------------------------------------------------------------------------
Supervises ==
    SuperviseQueries \/ SupervisePrunes \/ (\E o \in WatchedOrders : Ensures(o)) \/ SupervisePasses
Watches(w) ==
    \/ WatchEndsHere(w) \/ Loads(w) \/ StreamDelivers(w)
    \/ WatchRecords(w) \/ WatchEnqueues(w) \/ WatchSaves(w) \/ Reconnects(w)

StreamsNext ==
    \/ \E o \in WatchedOrders :
        \/ OrderCreated(o) \/ PaymentLands(o)
        \/ ScannerClaims(o) \/ ScannerEnqueues(o) \/ ScannerExpires(o)
    \/ Supervises
    \/ \E w \in Watchers : Watches(w) \/ LoadFails(w) \/ StreamFails(w)
    \/ StreamerCrash

allStreamVars == <<streamVars, faultVars>>
StreamsSpec == StreamsInit /\ FaultsInit /\ [][StreamsNext]_allStreamVars

\* Loop.Run supervises for ever, and goroutines run; nothing is assumed of the scanner.
StreamsFairSpec ==
    StreamsSpec /\ WF_allStreamVars(Supervises) /\ \A w \in Watchers : WF_allStreamVars(Watches(w))

-----------------------------------------------------------------------------
\* The streams of an order that nobody has cancelled.
Live(o) == {w \in Watchers \ cancelled : o \in watching[w]}

\* No payment is behind a cursor, saved or of an open stream, before its order was credited: not
\* when a save, a claim or a connection fails, nor when the process dies between the steps
\* (cursor.go: "a cursor saved ahead of the work it represents will skip that event on the next
\* reconnect"). A credit that is handed back is excepted: a stream that lost the claim in between
\* has saved its cursor, and only the scanner sees the payment again.
NothingSkipped ==
    \A o \in WatchedIn("awaiting_deposit") \ handedBack :
        /\ cursor[o] = 0
        /\ \A w \in Watchers : o \in watching[w] /\ watchPc[w] = "open" => reached[w] = 0

\* At most max streams are open, and one per order, although a cancelled stream may still be at
\* work when its successor starts, as long as no credit was handed back (stream.go: "watching N
\* deposit accounts means N connections. That is why this is bounded").
StreamsBounded ==
    handedBack = {} =>
        /\ \A o \in WatchedOrders : Cardinality(Live(o)) <= 1
        /\ Cardinality(UNION {Live(o) : o \in WatchedOrders}) <= maxStreams

Gone(o) == watchedStatus[o] = "moved_on"
Unwatched(o) == \A w \in Watchers : o \notin watching[w]

\* The streams of an order that has moved on are closed (stream.go: "Leaving them open would leak
\* a Horizon connection per settled order").
StreamsClose == \A o \in WatchedOrders : Gone(o) ~> Unwatched(o)

\* The same as long as no credit was handed back.
StreamsCloseUnlessHandedBack ==
    \A o \in WatchedOrders : Gone(o) ~> (Unwatched(o) \/ handedBack # {})

\* A payment to an order within the limit is recorded by its stream alone, whatever connections
\* drop and also when it landed before the stream was opened: nothing is assumed of the scanner
\* (stream.go: resuming at "now" "would silently skip every payment that landed while the
\* connection was down").
PaidIsRecorded ==
    \A o \in WatchedOrders :
        (o \in Wanted /\ landed[o] > 0) ~> (o \notin Wanted \/ o \in handedBack)

=============================================================================
