--------------------------- MODULE OrderCreation ---------------------------
(***************************************************************************)
(* Order creation over the account pool: handleCreateOrder and             *)
(* depositAccount of internal/api/api.go, ClaimPoolAccount and             *)
(* ReleasePoolAccount of internal/store/pool.go.  A handler serves one     *)
(* request at a time; a client may repeat a request, with its idempotency  *)
(* key, as often as it likes.  A handler's pc:                             *)
(*   idle -> select -> claim -> insert -> idle                             *)
(*           select, claim -> provision -> insert                          *)
(*           insert -> release -> idle                                     *)
(***************************************************************************)
EXTENDS AccountPool

CONSTANTS Handlers,      \* requests served at the same time
          Keys,          \* idempotency keys
          claimAttempts,
          NoRequest      \* the key of an idle handler

ASSUME CreationAssumptions == claimAttempts \in Nat \ {0} /\ NoRequest \notin Keys

\* An order as far as creation goes: its key and its deposit address.
CreatedOrders == [key : Keys, address : Accounts]

VARIABLES orders,   \* the orders table
          answers,  \* the orders clients were told of
          reqPc, reqKey,
          reqAccount, \* the candidate, then the account, of the request (at most one)
          pooled,     \* did it come from the pool (PoolID # 0)?
          misses      \* lost claims so far
creationVars == <<orders, answers, reqPc, reqKey, reqAccount, pooled, misses>>

vars == <<poolVars, keeperVars, faultVars, creationVars>>

ReqPcs == {"idle", "select", "claim", "provision", "insert", "release"}

TypeOK ==
    /\ PoolTypeOK /\ FaultsTypeOK
    /\ orders \subseteq CreatedOrders
    /\ answers \subseteq orders
    /\ reqPc \in [Handlers -> ReqPcs]
    /\ reqKey \in [Handlers -> Keys \union {NoRequest}]
    /\ reqAccount \in [Handlers -> SUBSET Accounts]
    /\ \A h \in Handlers : reqPc[h] \in {"claim", "insert", "release"} => reqAccount[h] # {}
    /\ pooled \in [Handlers -> BOOLEAN]
    /\ misses \in [Handlers -> 0 .. claimAttempts]

Init ==
    /\ PoolInit /\ FaultsInit
    /\ orders = {} /\ answers = {}
    /\ reqPc = [h \in Handlers |-> "idle"]
    /\ reqKey = [h \in Handlers |-> NoRequest]
    /\ reqAccount = [h \in Handlers |-> {}]
    /\ pooled = [h \in Handlers |-> FALSE]
    /\ misses = [h \in Handlers |-> 0]

-----------------------------------------------------------------------------
ReqAt(h, pc) == reqPc' = [reqPc EXCEPT ![h] = pc]

RequestEnds(h) ==
    /\ ReqAt(h, "idle")
    /\ reqKey' = [reqKey EXCEPT ![h] = NoRequest]
    /\ reqAccount' = [reqAccount EXCEPT ![h] = {}]
    /\ pooled' = [pooled EXCEPT ![h] = FALSE]
    /\ misses' = [misses EXCEPT ![h] = 0]

OrdersWith(key) == {o \in orders : o.key = key}

\* A request arrives; an order that already has its key is the answer.
Receive(h) ==
    /\ reqPc[h] = "idle"
    /\ \E key \in Keys :
        IF OrdersWith(key) # {}
        THEN answers' = answers \union OrdersWith(key) /\ UNCHANGED <<reqPc, reqKey>>
        ELSE ReqAt(h, "select") /\ reqKey' = [reqKey EXCEPT ![h] = key] /\ UNCHANGED answers
    /\ UNCHANGED <<orders, reqAccount, pooled, misses, poolVars, keeperVars, faultVars>>

\* ClaimPoolAccount: a candidate is selected, or the pool is empty.
PoolSelects(h) ==
    /\ reqPc[h] = "select"
    /\ IF Offered = {}
       THEN ReqAt(h, "provision") /\ UNCHANGED reqAccount
       ELSE /\ \E a \in Offered : reqAccount' = [reqAccount EXCEPT ![h] = {a}]
            /\ ReqAt(h, "claim")
    /\ UNCHANGED <<orders, answers, reqKey, pooled, misses, poolVars, keeperVars, faultVars>>

\* Mutant: the claim does not ask whether the row is still unclaimed.
PoolClaimsBlindly(h) ==
    /\ reqPc[h] = "claim"
    /\ claimed' = claimed \union (reqAccount[h] \intersect rows)
    /\ pooled' = [pooled EXCEPT ![h] = TRUE]
    /\ ReqAt(h, "insert")
    /\ UNCHANGED <<orders, answers, reqKey, reqAccount, misses>>
    /\ UNCHANGED <<rows, ready, Ledger, keeperVars, faultVars>>

\* Mutant: a lost claim is tried again without end.
PoolClaimsForEver(h) ==
    /\ reqPc[h] = "claim"
    /\ IF reqAccount[h] \subseteq rows \ claimed
       THEN /\ claimed' = claimed \union reqAccount[h]
            /\ pooled' = [pooled EXCEPT ![h] = TRUE]
            /\ ReqAt(h, "insert")
            /\ UNCHANGED <<reqAccount, misses>>
       ELSE /\ misses' = [misses EXCEPT ![h] = @ + 1]
            /\ ReqAt(h, "select")
            /\ reqAccount' = [reqAccount EXCEPT ![h] = {}]
            /\ UNCHANGED <<claimed, pooled>>
    /\ UNCHANGED <<orders, answers, reqKey, rows, ready, Ledger, keeperVars, faultVars>>

\* The claim is the UPDATE's own condition; whoever misses selects again, a few times.
PoolClaims(h) ==
    /\ reqPc[h] = "claim"
    /\ IF reqAccount[h] \subseteq rows \ claimed
       THEN /\ claimed' = claimed \union reqAccount[h]
            /\ pooled' = [pooled EXCEPT ![h] = TRUE]
            /\ ReqAt(h, "insert")
            /\ UNCHANGED <<reqAccount, misses>>
       ELSE /\ misses' = [misses EXCEPT ![h] = @ + 1]
            /\ ReqAt(h, IF misses[h] + 1 < claimAttempts THEN "select" ELSE "provision")
            /\ reqAccount' = [reqAccount EXCEPT ![h] = {}]
            /\ UNCHANGED <<claimed, pooled>>
    /\ UNCHANGED <<orders, answers, reqKey, rows, ready, Ledger, keeperVars, faultVars>>

\* A pool that cannot be read is passed over; the claim may have been written all the same.
PoolFails(h) ==
    /\ reqPc[h] \in {"select", "claim"}
    /\ Lose
    /\ \/ UNCHANGED claimed
       \/ /\ reqPc[h] = "claim" /\ reqAccount[h] \subseteq rows \ claimed
          /\ claimed' = claimed \union reqAccount[h]
    /\ ReqAt(h, "provision")
    /\ reqAccount' = [reqAccount EXCEPT ![h] = {}]
    /\ UNCHANGED <<orders, answers, reqKey, pooled, misses, rows, ready, Ledger, keeperVars>>

\* Provision: an account is generated and created inline, ...
Provisions(h) ==
    /\ reqPc[h] = "provision"
    /\ \E a \in Fresh :
        /\ inlined' = inlined \union {a}
        /\ exists' = exists \union {a}
        /\ reqAccount' = [reqAccount EXCEPT ![h] = {a}]
    /\ ReqAt(h, "insert")
    /\ UNCHANGED <<orders, answers, reqKey, pooled, misses, Table, minted, inFlight, keeperVars, faultVars>>

\* An inline account that reaches the ledger although its request does not go on.
CreatedUnnoticed == \E a \in Fresh : inlined' = inlined \union {a} /\ exists' = exists \union {a}

\* ... or cannot be, and the request is refused; it may have been created all the same.
\* The model also stops here when no keypair is left.
ProvisionFails(h) ==
    /\ reqPc[h] = "provision"
    /\ \/ Lose /\ UNCHANGED <<inlined, exists>>
       \/ Lose /\ CreatedUnnoticed
       \/ Fresh = {} /\ UNCHANGED <<inlined, exists, faultVars>>
    /\ RequestEnds(h)
    /\ UNCHANGED <<orders, answers, Table, minted, inFlight, keeperVars>>

NewOrder(h) == [key : {reqKey[h]}, address : reqAccount[h]]

\* An account whose order was not saved goes back, if it came from the pool.
Unsaved(h) ==
    IF pooled[h]
    THEN ReqAt(h, "release") /\ UNCHANGED <<reqKey, reqAccount, pooled, misses>>
    ELSE RequestEnds(h)

\* Mutant: the key's index is not unique.
InsertsTwice(h) ==
    /\ reqPc[h] = "insert"
    /\ orders' = orders \union NewOrder(h)
    /\ answers' = answers \union NewOrder(h)
    /\ RequestEnds(h)
    /\ UNCHANGED <<poolVars, keeperVars, faultVars>>

\* The order is inserted and answered, unless another request saved one with this key.
Inserts(h) ==
    /\ reqPc[h] = "insert"
    /\ IF OrdersWith(reqKey[h]) = {}
       THEN /\ orders' = orders \union NewOrder(h)
            /\ answers' = answers \union NewOrder(h)
            /\ RequestEnds(h)
       ELSE Unsaved(h) /\ UNCHANGED <<orders, answers>>
    /\ UNCHANGED <<poolVars, keeperVars, faultVars>>

\* The insert errs; the row may have been written all the same.
InsertFails(h) ==
    /\ reqPc[h] = "insert"
    /\ Lose
    /\ \/ UNCHANGED orders
       \/ OrdersWith(reqKey[h]) = {} /\ orders' = orders \union NewOrder(h)
    /\ Unsaved(h)
    /\ UNCHANGED <<answers, poolVars, keeperVars>>

\* Mutant: the account is not handed back.
ReleaseForgets(h) ==
    /\ reqPc[h] = "release"
    /\ RequestEnds(h)
    /\ UNCHANGED <<orders, answers, poolVars, keeperVars, faultVars>>

\* ReleasePoolAccount: the row is unclaimed, unless the statement fails.
Releases(h) ==
    /\ reqPc[h] = "release"
    /\ \/ claimed' = claimed \ reqAccount[h] /\ UNCHANGED faultVars
       \/ Lose /\ UNCHANGED claimed
    /\ RequestEnds(h)
    /\ UNCHANGED <<orders, answers, rows, ready, Ledger, keeperVars>>

\* The server dies while it serves the request.
HandlerCrash(h) ==
    /\ reqPc[h] # "idle"
    /\ Crash
    /\ \/ UNCHANGED <<inlined, exists>>
       \/ reqPc[h] = "provision" /\ CreatedUnnoticed
    /\ RequestEnds(h)
    /\ UNCHANGED <<orders, answers, Table, minted, inFlight, keeperVars>>

-----------------------------------------------------------------------------
Next ==
    \/ \E k \in Keepers : KeeperPass(k) /\ UNCHANGED creationVars
    \/ \E k \in Keepers : HealReads(k) /\ UNCHANGED creationVars
    \/ \E k \in Keepers : HealAdopts(k) /\ UNCHANGED creationVars
    \/ \E k \in Keepers : HealDrops(k) /\ UNCHANGED creationVars
    \/ \E k \in Keepers : CountReady(k) /\ UNCHANGED creationVars
    \/ \E k \in Keepers : MintReserves(k) /\ UNCHANGED creationVars
    \/ \E k \in Keepers : MintGivesUp(k) /\ UNCHANGED creationVars
    \/ \E k \in Keepers : MintLands(k) /\ UNCHANGED creationVars
    \/ \E k \in Keepers : MintMarks(k) /\ UNCHANGED creationVars
    \/ \E k \in Keepers : HealReadFails(k) /\ UNCHANGED creationVars
    \/ \E k \in Keepers : MintFails(k) /\ UNCHANGED creationVars
    \/ \E k \in Keepers : KeeperCrash(k) /\ UNCHANGED creationVars
    \/ BatchLands /\ UNCHANGED creationVars
    \/ BatchExpires /\ UNCHANGED creationVars
    \/ \E h \in Handlers : Receive(h)
    \/ \E h \in Handlers : PoolSelects(h)
    \/ \E h \in Handlers : PoolClaims(h)
    \/ \E h \in Handlers : PoolFails(h)
    \/ \E h \in Handlers : Provisions(h)
    \/ \E h \in Handlers : ProvisionFails(h)
    \/ \E h \in Handlers : Inserts(h)
    \/ \E h \in Handlers : InsertFails(h)
    \/ \E h \in Handlers : Releases(h)
    \/ \E h \in Handlers : HandlerCrash(h)

Spec == Init /\ [][Next]_vars

\* wake.Loop runs the keeper's pass again and again, and a pass works to its end.
FairSpec == Spec /\ \A k \in Keepers : WF_vars(KeeperSteps(k) /\ UNCHANGED creationVars)

-----------------------------------------------------------------------------
\* An address is only ever given to a payer once it can receive USDC: it exists on the ledger
\* with its trustline (mint, heal, Provision: "guessing either way costs money").
HandedOutExists == \A o \in orders : o.address \in exists

\* No two orders share a deposit address (store/pool.go: "two orders sharing a deposit address
\* would credit one payer's money to the other's merchant").
OneOrderPerAddress == \A o, q \in orders : o.address = q.address => o = q

\* ... which holds however requests interleave and servers die, while no answer is lost.
OneOrderUnlessLost == losses = 0 => OneOrderPerAddress

\* All requests with one key are answered with one order (order.go, IdempotencyKey).
SameAnswer == \A r, s \in answers : r.key = s.key => r = s

InUse == {o.address : o \in orders} \union UNION {reqAccount[h] : h \in Handlers}
Stranded == claimed \ InUse
\* A claimed account is an order's, or that of a request still being served; each fault strands
\* at most one (ClaimPoolAccount, ReleasePoolAccount).
StrandedPerFault == Cardinality(Stranded) <= losses + crashes

\* An account the pool paid for is never lost sight of: it has a row, a request or an order
\* (store/pool.go: "a crash between submitting and recording would otherwise strand their
\* reserves with no record they ever existed").
NoAccountLost == minted \intersect exists \subseteq rows \union InUse

\* No row stays unconfirmed: its account is found and adopted, or the row is dropped (heal).
PendingResolves == \A a \in Accounts : a \in Pending ~> a \notin Pending

\* An empty pool is filled again, while there are keypairs to fill it with (pass, mint).
PoolRefills == Offered = {} ~> (Offered # {} \/ Fresh = {})

=============================================================================
