--------------------------- MODULE CreationProofs ---------------------------
(***************************************************************************)
(* Order creation, for any keepers, requests, accounts, keys and faults:   *)
(*   - no payer is given an address that bounces (Known: orders, handlers, *)
(*     the pool and keepers only hand on what exists);                     *)
(*   - the types (a claim stays within the ready rows);                    *)
(*   - one order per key, and one answer;                                  *)
(*   - one order per address while no answer is lost (Owned: an account is *)
(*     free, one request's or one order's);                                *)
(*   - one stranded account per fault (LostInv);                           *)
(*   - for one keeper whose submissions do not outlive it, no account is   *)
(*     lost (Tracked).                                                     *)
(***************************************************************************)
EXTENDS OrderCreation, FiniteSetTheorems, TLAPS

(* Addresses exist.  HandedOutExists is not inductive alone: an order takes *)
(* its address from a handler, a handler from the pool, and the pool from a *)
(* keeper that saw the account on the ledger or put it there.  Accounts     *)
(* never leave the ledger here, so what is known stays known.               *)

\* The ranges the argument needs.
Shape ==
    /\ rows \subseteq Accounts /\ ready \subseteq Accounts
    /\ keeperPc \in [Keepers -> KeeperPcs]
    /\ unconfirmed \in [Keepers -> SUBSET Accounts]
    /\ healing \in [Keepers -> SUBSET Accounts]
    /\ minting \in [Keepers -> SUBSET Accounts]
    /\ reqPc \in [Handlers -> ReqPcs]
    /\ reqAccount \in [Handlers -> SUBSET Accounts]

\* What the pool offers exists, what a keeper is about to offer exists, and so does what a
\* handler is about to give to a payer, or back to the pool.
ReadyExists == ready \subseteq exists
KeepersKnow ==
    \A k \in Keepers : /\ keeperPc[k] = "adopt" => healing[k] \subseteq exists
                       /\ keeperPc[k] = "mark" => minting[k] \subseteq exists
HandlersKnow ==
    \A h \in Handlers : reqPc[h] \in {"claim", "insert", "release"} => reqAccount[h] \subseteq exists

Known == Shape /\ ReadyExists /\ KeepersKnow /\ HandlersKnow /\ HandedOutExists

-----------------------------------------------------------------------------
\* At the start there are no accounts, and nobody holds one.
LEMMA KnownInit == Init => Known
  BY DEF Init, PoolInit, Known, Shape, ReadyExists, KeepersKnow, HandlersKnow,
         HandedOutExists, KeeperPcs, ReqPcs

\* A keeper's step touches no request and no order, and takes nothing off the ledger: what
\* remains to be shown of each is what it does to the pool and to its own variables.
LEMMA KeeperKeeps ==
    ASSUME Known, UNCHANGED creationVars, exists \subseteq exists',
           Shape', ReadyExists', KeepersKnow'
    PROVE  Known'
  <1>1. HandlersKnow'
    BY DEF Known, HandlersKnow, creationVars
  <1>2. HandedOutExists'
    BY DEF Known, HandedOutExists, creationVars
  <1> QED
    BY <1>1, <1>2 DEF Known

\* A handler's step touches no keeper and does not make a row ready.
LEMMA HandlerKeeps ==
    ASSUME Known, UNCHANGED <<keeperVars, ready, rows>>, exists \subseteq exists',
           reqPc' \in [Handlers -> ReqPcs], reqAccount' \in [Handlers -> SUBSET Accounts],
           HandlersKnow', HandedOutExists'
    PROVE  Known'
  <1>1. Shape'
    BY DEF Known, Shape, keeperVars
  <1>2. ReadyExists'
    BY DEF Known, ReadyExists
  <1>3. KeepersKnow'
    BY DEF Known, KeepersKnow, keeperVars
  <1> QED
    BY <1>1, <1>2, <1>3 DEF Known

-----------------------------------------------------------------------------
\* Looking at the pool: heal() and the count, which only move the keeper itself.  A row heal()
\* decides to adopt is one it has just found on the ledger.
LEMMA HealKeeps ==
    ASSUME Known, NEW k \in Keepers, UNCHANGED creationVars,
           KeeperPass(k) \/ HealReads(k) \/ HealReadFails(k) \/ CountReady(k)
    PROVE  Known'
  <1> USE DEF Known, Shape, KeeperPcs, ReadyExists, KeepersKnow, KeeperAt, poolVars, creationVars
  <1>1. CASE KeeperPass(k)
    <2>1. Shape' /\ ReadyExists' /\ KeepersKnow' /\ exists' = exists
      BY <1>1 DEF KeeperPass, Pending
    <2> QED
      BY <2>1, KeeperKeeps
  <1>2. CASE HealReads(k)
    <2>1. Shape' /\ ReadyExists' /\ KeepersKnow' /\ exists' = exists
      BY <1>2 DEF HealReads
    <2> QED
      BY <2>1, KeeperKeeps
  <1>3. CASE HealReadFails(k)
    <2>1. Shape' /\ ReadyExists' /\ KeepersKnow' /\ exists' = exists
      BY <1>3 DEF HealReadFails
    <2> QED
      BY <2>1, KeeperKeeps
  <1>4. CASE CountReady(k)
    <2>1. Shape' /\ ReadyExists' /\ KeepersKnow' /\ exists' = exists
      BY <1>4 DEF CountReady
    <2> QED
      BY <2>1, KeeperKeeps
  <1> QED
    BY <1>1, <1>2, <1>3, <1>4

\* Changing the pool: rows are adopted, dropped, reserved and marked.
LEMMA TableKeeps ==
    ASSUME Known, NEW k \in Keepers, UNCHANGED creationVars,
           HealAdopts(k) \/ HealDrops(k) \/ MintReserves(k) \/ MintMarks(k)
    PROVE  Known'
  <1> USE DEF Known, Shape, KeeperPcs, ReadyExists, KeepersKnow, KeeperAt, Table, Ledger, creationVars
  <1>1. CASE HealAdopts(k)
    <2>1. Shape' /\ ReadyExists' /\ KeepersKnow' /\ exists' = exists
      BY <1>1 DEF HealAdopts, MarkPoolReady
    <2> QED
      BY <2>1, KeeperKeeps
  <1>2. CASE HealDrops(k)
    <2>1. Shape' /\ ReadyExists' /\ KeepersKnow' /\ exists' = exists
      BY <1>2 DEF HealDrops, DropPoolAccount
    <2> QED
      BY <2>1, KeeperKeeps
  <1>3. CASE MintReserves(k)
    <2>1. Shape' /\ ReadyExists' /\ KeepersKnow' /\ exists' = exists
      BY <1>3 DEF MintReserves, Reserve, Fresh
    <2> QED
      BY <2>1, KeeperKeeps
  <1>4. CASE MintMarks(k)
    <2>1. Shape' /\ ReadyExists' /\ KeepersKnow' /\ exists' = exists
      BY <1>4 DEF MintMarks, MarkPoolReady, MintEnds
    <2> QED
      BY <2>1, KeeperKeeps
  <1> QED
    BY <1>1, <1>2, <1>3, <1>4

\* Submitting a batch, with every way it can end.
LEMMA SubmitKeeps ==
    ASSUME Known, NEW k \in Keepers, UNCHANGED creationVars,
           MintLands(k) \/ MintFails(k) \/ MintGivesUp(k) \/ KeeperCrash(k)
    PROVE  Known'
  <1> USE DEF Known, Shape, KeeperPcs, ReadyExists, KeepersKnow, KeeperAt, MintEnds, Table,
              poolVars, creationVars
  <1>1. CASE MintLands(k)
    <2>1. Shape' /\ ReadyExists' /\ KeepersKnow' /\ exists \subseteq exists'
      BY <1>1 DEF MintLands
    <2> QED
      BY <2>1, KeeperKeeps
  <1>2. CASE MintFails(k)
    <2>1. Shape' /\ ReadyExists' /\ KeepersKnow' /\ exists \subseteq exists'
      BY <1>2 DEF MintFails
    <2> QED
      BY <2>1, KeeperKeeps
  <1>3. CASE MintGivesUp(k)
    <2>1. Shape' /\ ReadyExists' /\ KeepersKnow' /\ exists' = exists
      BY <1>3 DEF MintGivesUp, Reserve, Fresh
    <2> QED
      BY <2>1, KeeperKeeps
  <1>4. CASE KeeperCrash(k)
    <2>1. Shape' /\ ReadyExists' /\ KeepersKnow' /\ exists' = exists
      BY <1>4 DEF KeeperCrash
    <2> QED
      BY <2>1, KeeperKeeps
  <1> QED
    BY <1>1, <1>2, <1>3, <1>4

\* A batch that timed out lands or expires.
LEMMA BatchKeeps ==
    ASSUME Known, UNCHANGED creationVars, BatchLands \/ BatchExpires
    PROVE  Known'
  <1>1. exists \subseteq exists' /\ UNCHANGED <<rows, ready, keeperVars>>
    BY DEF BatchLands, BatchExpires, Table
  <1>2. Shape' /\ ReadyExists' /\ KeepersKnow'
    BY <1>1 DEF Known, Shape, ReadyExists, KeepersKnow, creationVars, keeperVars
  <1> QED
    BY <1>1, <1>2, KeeperKeeps

-----------------------------------------------------------------------------
\* Taking an account from the pool, or putting it back: candidates are ready rows.
LEMMA ClaimKeeps ==
    ASSUME Known, NEW h \in Handlers,
           Receive(h) \/ PoolSelects(h) \/ PoolClaims(h) \/ PoolFails(h) \/ Releases(h)
    PROVE  Known'
  <1> USE DEF Known, Shape, ReqPcs, HandlersKnow, HandedOutExists, ReqAt, RequestEnds, poolVars, Ledger
  <1> DEFINE Moves == /\ UNCHANGED <<keeperVars, ready, rows, exists>>
                      /\ reqPc' \in [Handlers -> ReqPcs]
                      /\ reqAccount' \in [Handlers -> SUBSET Accounts]
                      /\ HandlersKnow' /\ HandedOutExists'
  <1>1. CASE Receive(h)
    <2>1. Moves
      BY <1>1 DEF Receive
    <2> QED
      BY <2>1, HandlerKeeps
  <1>2. CASE PoolSelects(h)
    <2>1. Moves
      BY <1>2 DEF PoolSelects, Offered, ReadyExists
    <2> QED
      BY <2>1, HandlerKeeps
  <1>3. CASE PoolClaims(h)
    <2>1. Moves
      BY <1>3 DEF PoolClaims
    <2> QED
      BY <2>1, HandlerKeeps
  <1>4. CASE PoolFails(h)
    <2>1. Moves
      BY <1>4 DEF PoolFails
    <2> QED
      BY <2>1, HandlerKeeps
  <1>5. CASE Releases(h)
    <2>1. Moves
      BY <1>5 DEF Releases
    <2> QED
      BY <2>1, HandlerKeeps
  <1> QED
    BY <1>1, <1>2, <1>3, <1>4, <1>5

\* Creating an account for one request: it is on the ledger before it is handed on.
LEMMA ProvisionKeeps ==
    ASSUME Known, NEW h \in Handlers,
           Provisions(h) \/ ProvisionFails(h) \/ HandlerCrash(h)
    PROVE  Known'
  <1> USE DEF Known, Shape, ReqPcs, HandlersKnow, HandedOutExists, ReqAt, RequestEnds, Table, CreatedUnnoticed
  <1> DEFINE Moves == /\ UNCHANGED <<keeperVars, ready, rows>> /\ exists \subseteq exists'
                      /\ reqPc' \in [Handlers -> ReqPcs]
                      /\ reqAccount' \in [Handlers -> SUBSET Accounts]
                      /\ HandlersKnow' /\ HandedOutExists'
  <1>1. CASE Provisions(h)
    <2>1. Moves
      BY <1>1 DEF Provisions, Fresh
    <2> QED
      BY <2>1, HandlerKeeps
  <1>2. CASE ProvisionFails(h)
    <2>1. Moves
      BY <1>2 DEF ProvisionFails
    <2> QED
      BY <2>1, HandlerKeeps
  <1>3. CASE HandlerCrash(h)
    <2>1. Moves
      BY <1>3 DEF HandlerCrash
    <2> QED
      BY <2>1, HandlerKeeps
  <1> QED
    BY <1>1, <1>2, <1>3

\* Saving the order: its address is the account in the handler's hands.
LEMMA InsertKeeps ==
    ASSUME Known, NEW h \in Handlers, Inserts(h) \/ InsertFails(h)
    PROVE  Known'
  <1> USE DEF Known, Shape, ReqPcs, HandlersKnow, ReqAt, RequestEnds, Unsaved, poolVars
  <1>1. reqPc[h] = "insert" /\ UNCHANGED <<keeperVars, ready, rows, exists>>
    BY DEF Inserts, InsertFails
  <1>2. /\ reqPc' \in [Handlers -> ReqPcs]
        /\ reqAccount' \in [Handlers -> SUBSET Accounts]
        /\ HandlersKnow'
    BY <1>1 DEF Inserts, InsertFails
  <1>3. orders' \subseteq orders \union NewOrder(h)
    BY DEF Inserts, InsertFails
  <1>4. \A o \in NewOrder(h) : o.address \in exists
    BY <1>1 DEF NewOrder
  <1>5. HandedOutExists'
    BY <1>1, <1>3, <1>4 DEF HandedOutExists
  <1> QED
    BY <1>1, <1>2, <1>5, HandlerKeeps

-----------------------------------------------------------------------------
\* Every step of the system keeps what is known.
LEMMA KnownInductive ==
    ASSUME Known, [Next]_vars
    PROVE  Known'
  <1>1. ASSUME NEW k \in Keepers, UNCHANGED creationVars,
               \/ KeeperPass(k) \/ HealReads(k) \/ HealReadFails(k) \/ CountReady(k)
        PROVE  Known'
    BY <1>1, HealKeeps
  <1>2. ASSUME NEW k \in Keepers, UNCHANGED creationVars,
               HealAdopts(k) \/ HealDrops(k) \/ MintReserves(k) \/ MintMarks(k)
        PROVE  Known'
    BY <1>2, TableKeeps
  <1>3. ASSUME NEW k \in Keepers, UNCHANGED creationVars,
               MintLands(k) \/ MintFails(k) \/ MintGivesUp(k) \/ KeeperCrash(k)
        PROVE  Known'
    BY <1>3, SubmitKeeps
  <1>4. ASSUME UNCHANGED creationVars, BatchLands \/ BatchExpires
        PROVE  Known'
    BY <1>4, BatchKeeps
  <1>5. ASSUME NEW h \in Handlers,
               Receive(h) \/ PoolSelects(h) \/ PoolClaims(h) \/ PoolFails(h) \/ Releases(h)
        PROVE  Known'
    BY <1>5, ClaimKeeps
  <1>6. ASSUME NEW h \in Handlers, Provisions(h) \/ ProvisionFails(h) \/ HandlerCrash(h)
        PROVE  Known'
    BY <1>6, ProvisionKeeps
  <1>7. ASSUME NEW h \in Handlers, Inserts(h) \/ InsertFails(h)
        PROVE  Known'
    BY <1>7, InsertKeeps
  <1>8. ASSUME UNCHANGED vars
        PROVE  Known'
    BY <1>8 DEF Known, Shape, ReadyExists, KeepersKnow, HandlersKnow, HandedOutExists,
                vars, poolVars, keeperVars, creationVars
  <1> QED
    BY <1>1, <1>2, <1>3, <1>4, <1>5, <1>6, <1>7, <1>8 DEF Next

\* For any number of keepers, handlers, accounts and keys, and any number of lost requests and
\* crashes: an address given to a payer exists on the ledger, with its trustline
\* (depositAccount and heal: it can receive USDC before it is handed out).
THEOREM AddressesCorrect == Spec => []HandedOutExists
  <1>1. Spec => []Known
    BY KnownInit, KnownInductive, PTL DEF Spec
  <1>2. Known => HandedOutExists
    BY DEF Known
  <1> QED
    BY <1>1, <1>2, PTL

-----------------------------------------------------------------------------
(* Types.  A claim keeps claimed within ready because a candidate that was  *)
(* ready is either ready still or has lost its row: keypairs are generated  *)
(* once, so no row ever comes back.                                         *)

\* What a handler has in its hands.
HandsTyped ==
    \A h \in Handlers :
        /\ reqPc[h] # "idle" => reqKey[h] \in Keys
        /\ reqPc[h] \in {"idle", "select", "claim"} => misses[h] < claimAttempts
        /\ reqAccount[h] \subseteq generated
        /\ \A a, b \in reqAccount[h] : a = b
        /\ reqPc[h] = "claim" => reqAccount[h] \intersect rows \subseteq ready

TypeInv == TypeOK /\ HandsTyped

\* What the pool may do behind a handler's back: make keypairs of its own, offer accounts and
\* take rows away.
PoolMoves ==
    /\ generated \subseteq generated' /\ inlined' = inlined /\ minted' \subseteq minted \union Fresh
    /\ rows' \intersect generated \subseteq rows
    /\ ready \intersect rows' \subseteq ready'
    /\ claimed' = claimed \intersect rows'
    /\ losses <= losses' /\ crashes <= crashes'

LEMMA TypeInvInit == Init => TypeInv
  BY FaultBudgets, PoolAssumptions, CreationAssumptions
     DEF Init, PoolInit, FaultsInit, TypeInv, TypeOK, PoolTypeOK, FaultsTypeOK, HandsTyped, generated,
         KeeperPcs, ReqPcs

LEMMA LoseTypes ==
    ASSUME FaultsTypeOK, Lose \/ Crash \/ UNCHANGED faultVars
    PROVE  /\ FaultsTypeOK' /\ losses <= losses' /\ crashes <= crashes'
           /\ losses \in Nat /\ crashes \in Nat /\ losses' \in Nat /\ crashes' \in Nat
           /\ Lose => losses' # 0 /\ losses' + crashes' = losses + crashes + 1
           /\ Crash => losses' + crashes' = losses + crashes + 1
  BY FaultBudgets DEF FaultsTypeOK, Lose, Crash, faultVars

\* What a keeper counts to be missing is no more than a batch.
LEMMA ShortInBatch ==
    ASSUME PoolTypeOK, Short > 0
    PROVE  Short \in 0 .. Batch
  <1>1. IsFiniteSet(Fresh) /\ IsFiniteSet(Offered)
    BY PoolAssumptions, FS_Subset DEF Fresh, Offered, PoolTypeOK, generated
  <1>2. Cardinality(Fresh) \in Nat /\ Cardinality(Offered) \in Nat
    BY <1>1, FS_CardinalityType
  <1> DEFINE S == {Batch, Size - Cardinality(Offered), Cardinality(Fresh)}
  <1>3. \E x \in S : \A y \in S : x <= y
    <2> DEFINE b == Batch
               s == Size - Cardinality(Offered)
               f == Cardinality(Fresh)
    <2>1. b \in Int /\ s \in Int /\ f \in Int
      BY <1>2, PoolAssumptions
    <2> HIDE DEF b, s, f
    <2>2. \/ b <= s /\ b <= f
          \/ s <= b /\ s <= f
          \/ f <= b /\ f <= s
      BY <2>1
    <2>3. \E x \in {b, s, f} : \A y \in {b, s, f} : x <= y
      BY <2>1, <2>2
    <2> QED
      BY <2>3 DEF b, s, f
  <1>4. Min(S) \in S /\ \A y \in S : Min(S) <= y
    BY <1>3 DEF Min
  <1> QED
    BY <1>2, <1>4, PoolAssumptions DEF Short

LEMMA KeeperTypes ==
    ASSUME TypeInv, NEW k \in Keepers,
           \/ KeeperPass(k) \/ HealReads(k) \/ HealReadFails(k) \/ CountReady(k)
           \/ HealAdopts(k) \/ HealDrops(k) \/ MintReserves(k) \/ MintMarks(k)
           \/ MintLands(k) \/ MintFails(k) \/ MintGivesUp(k) \/ KeeperCrash(k)
    PROVE  PoolTypeOK' /\ FaultsTypeOK' /\ PoolMoves
  <1>1. PoolTypeOK /\ FaultsTypeOK
    BY DEF TypeInv, TypeOK
  <1> USE <1>1, LoseTypes DEF PoolTypeOK, PoolMoves, generated, KeeperPcs, KeeperAt
  <1>2. CASE KeeperPass(k)
    BY <1>2 DEF KeeperPass, Pending, poolVars
  <1>3. CASE HealReads(k)
    BY <1>3 DEF HealReads, poolVars
  <1>4. CASE HealReadFails(k)
    BY <1>4 DEF HealReadFails, poolVars
  <1>5. CASE CountReady(k)
    <2>1. count' \in [Keepers -> 0 .. Batch]
      BY <1>5, ShortInBatch DEF CountReady
    <2>2. Lose \/ UNCHANGED faultVars
      BY <1>5 DEF CountReady
    <2> QED
      BY <1>5, <2>1, <2>2 DEF CountReady, poolVars
  <1>6. CASE HealAdopts(k)
    BY <1>6 DEF HealAdopts, MarkPoolReady, Ledger, Table
  <1>7. CASE HealDrops(k)
    BY <1>7 DEF HealDrops, DropPoolAccount, Ledger, Table
  <1>8. CASE MintReserves(k)
    <2>1. PICK as \in SUBSET Fresh : Reserve(k, as) /\ minting' = [minting EXCEPT ![k] = as]
      BY <1>8 DEF MintReserves
    <2>2. minted' = minted \union as /\ rows' = rows \union as /\ as \subseteq Accounts
      BY <2>1 DEF Reserve, Fresh
    <2>3. UNCHANGED <<ready, claimed, inlined, exists, inFlight, unconfirmed, healing, count, faultVars>>
      BY <1>8 DEF MintReserves
    <2>4. minting' \in [Keepers -> SUBSET minted']
      BY <2>1, <2>2
    <2>5. keeperPc' \in [Keepers -> KeeperPcs]
      BY <1>8 DEF MintReserves
    <2>6. PoolTypeOK'
      BY <2>2, <2>3, <2>4, <2>5
    <2>7. FaultsTypeOK' /\ losses <= losses' /\ crashes <= crashes'
      BY <2>3
    <2>8. as \intersect generated = {}
      BY DEF Fresh
    <2>9. PoolMoves
      BY <2>1, <2>2, <2>3, <2>7, <2>8
    <2> QED
      BY <2>6, <2>7, <2>9
  <1>9. CASE MintMarks(k)
    BY <1>9, PoolAssumptions DEF MintMarks, MarkPoolReady, MintEnds, Ledger, Table
  <1>10. CASE MintLands(k)
    BY <1>10 DEF MintLands, Table
  <1>11. CASE MintFails(k)
    BY <1>11, PoolAssumptions DEF MintFails, MintEnds, Table
  <1>12. CASE MintGivesUp(k)
    BY <1>12, PoolAssumptions DEF MintGivesUp, MintEnds, Reserve, Fresh
  <1>13. CASE KeeperCrash(k)
    BY <1>13, PoolAssumptions DEF KeeperCrash, MintEnds, Table
  <1> QED
    BY <1>2, <1>3, <1>4, <1>5, <1>6, <1>7, <1>8, <1>9, <1>10, <1>11, <1>12, <1>13

LEMMA BatchTypes ==
    ASSUME TypeInv, BatchLands \/ BatchExpires
    PROVE  PoolTypeOK' /\ FaultsTypeOK' /\ PoolMoves
  <1>1. PoolTypeOK /\ FaultsTypeOK
    BY DEF TypeInv, TypeOK
  <1>2. UNCHANGED faultVars
    BY DEF BatchLands, BatchExpires
  <1>3. FaultsTypeOK' /\ losses <= losses' /\ crashes <= crashes'
    BY <1>1, <1>2, LoseTypes
  <1> QED
    BY <1>1, <1>3 DEF BatchLands, BatchExpires, PoolTypeOK, PoolMoves, generated, Table, keeperVars

\* The pool's steps do not disturb what handlers hold.
LEMMA PoolKeepsTypes ==
    ASSUME TypeInv, UNCHANGED creationVars, PoolTypeOK', FaultsTypeOK', PoolMoves
    PROVE  TypeInv'
  <1>1. TypeOK'
    BY DEF TypeInv, TypeOK, creationVars
  <1>2. HandsTyped'
    BY DEF TypeInv, HandsTyped, creationVars, PoolMoves
  <1> QED
    BY <1>1, <1>2 DEF TypeInv

\* A handler's step makes no keypair but the one it hands to itself, and no row.
LEMMA HandlerTypes ==
    ASSUME TypeInv, NEW h \in Handlers,
           \/ Receive(h) \/ PoolSelects(h) \/ PoolClaims(h) \/ PoolFails(h) \/ Provisions(h)
           \/ ProvisionFails(h) \/ Inserts(h) \/ InsertFails(h) \/ Releases(h) \/ HandlerCrash(h)
    PROVE  TypeInv'
  <1> USE LoseTypes, CreationAssumptions DEF TypeInv, TypeOK, HandsTyped, ReqPcs, ReqAt
  <1>1. CASE Receive(h)
    BY <1>1 DEF Receive, OrdersWith, poolVars, keeperVars, PoolTypeOK, generated
  <1>2. CASE PoolSelects(h)
    <2>1. Offered \subseteq ready /\ Offered \subseteq Accounts /\ Offered \subseteq generated
      BY DEF Offered, PoolTypeOK, generated
    <2>2. UNCHANGED <<poolVars, keeperVars, faultVars, orders, answers, reqKey, pooled, misses>>
      BY <1>2 DEF PoolSelects
    <2>3. TypeOK'
      <3>1. PoolTypeOK' /\ FaultsTypeOK'
        BY <2>2 DEF poolVars, keeperVars, PoolTypeOK, generated
      <3>2. CASE ReqAt(h, "provision") /\ UNCHANGED reqAccount
        BY <2>2, <3>1, <3>2
      <3>3. CASE ReqAt(h, "claim") /\ \E a \in Offered : reqAccount' = [reqAccount EXCEPT ![h] = {a}]
        BY <2>1, <2>2, <3>1, <3>3
      <3> QED
        BY <1>2, <3>2, <3>3 DEF PoolSelects
    <2>4. HandsTyped'
      BY <1>2, <2>1, <2>2 DEF PoolSelects, poolVars, generated
    <2> QED
      BY <2>3, <2>4
  <1>3. CASE PoolClaims(h)
    <2>1. reqAccount[h] \subseteq rows \ claimed => reqAccount[h] \subseteq ready
      BY <1>3 DEF PoolClaims
    <2>2. UNCHANGED <<orders, answers, reqKey, rows, ready, Ledger, keeperVars, faultVars>>
      BY <1>3 DEF PoolClaims
    <2>3. PoolTypeOK'
      BY <1>3, <2>1, <2>2 DEF PoolClaims, PoolTypeOK, Ledger, keeperVars, generated
    <2>4. TypeOK'
      <3>1. CASE pooled' = [pooled EXCEPT ![h] = TRUE] /\ ReqAt(h, "insert") /\ UNCHANGED <<reqAccount, misses>>
        BY <1>3, <2>2, <2>3, <3>1 DEF PoolClaims
      <3>2. CASE /\ misses' = [misses EXCEPT ![h] = @ + 1]
                 /\ ReqAt(h, IF misses[h] + 1 < claimAttempts THEN "select" ELSE "provision")
                 /\ reqAccount' = [reqAccount EXCEPT ![h] = {}]
                 /\ UNCHANGED pooled
        <4>1. misses[h] + 1 \in 0 .. claimAttempts
          BY <1>3 DEF PoolClaims
        <4> QED
          BY <2>2, <2>3, <3>2, <4>1
      <3> QED
        BY <1>3, <3>1, <3>2 DEF PoolClaims
    <2>5. HandsTyped'
      BY <1>3, <2>2 DEF PoolClaims, Ledger, generated
    <2> QED
      BY <2>4, <2>5
  <1>4. CASE PoolFails(h)
    <2>1. reqPc[h] = "claim" /\ reqAccount[h] \subseteq rows \ claimed => reqAccount[h] \subseteq ready
      OBVIOUS
    <2>2. PoolTypeOK'
      BY <1>4, <2>1 DEF PoolFails, PoolTypeOK, Ledger, keeperVars, generated
    <2>3. TypeOK' /\ HandsTyped'
      BY <1>4, <2>2 DEF PoolFails, Ledger, generated
    <2> QED
      BY <2>3
  <1>5. CASE Provisions(h)
    <2>1. PICK a \in Fresh : /\ inlined' = inlined \union {a} /\ exists' = exists \union {a}
                             /\ reqAccount' = [reqAccount EXCEPT ![h] = {a}]
      BY <1>5 DEF Provisions
    <2>2. a \in Accounts
      BY DEF Fresh
    <2>3. PoolTypeOK'
      BY <1>5, <2>1, <2>2 DEF Provisions, PoolTypeOK, Table, keeperVars, generated
    <2>4. TypeOK'
      BY <1>5, <2>1, <2>2, <2>3 DEF Provisions
    <2>5. HandsTyped'
      BY <1>5, <2>1 DEF Provisions, Table, generated
    <2> QED
      BY <2>4, <2>5
  <1>6. CASE ProvisionFails(h)
    <2>1. PoolTypeOK' /\ FaultsTypeOK'
      BY <1>6 DEF ProvisionFails, CreatedUnnoticed, Fresh, PoolTypeOK, Table, keeperVars, generated
    <2>2. TypeOK' /\ HandsTyped'
      BY <1>6, <2>1 DEF ProvisionFails, CreatedUnnoticed, RequestEnds, Table, generated
    <2> QED
      BY <2>2
  <1>7. CASE Inserts(h) \/ InsertFails(h)
    <2>1. /\ UNCHANGED <<poolVars, keeperVars>> /\ FaultsTypeOK'
          /\ orders' \subseteq orders \union NewOrder(h) /\ orders \subseteq orders'
          /\ answers' \subseteq answers \union (orders' \intersect NewOrder(h))
      BY <1>7 DEF Inserts, InsertFails
    <2>2. NewOrder(h) \subseteq CreatedOrders
      BY <1>7 DEF Inserts, InsertFails, NewOrder, CreatedOrders
    <2>3. PoolTypeOK'
      BY <2>1 DEF PoolTypeOK, poolVars, keeperVars, generated
    <2>4. RequestEnds(h) \/ (ReqAt(h, "release") /\ UNCHANGED <<reqKey, reqAccount, pooled, misses>>)
      BY <1>7 DEF Inserts, InsertFails, Unsaved
    <2>5. reqKey[h] \in Keys /\ reqAccount[h] # {}
      BY <1>7 DEF Inserts, InsertFails
    <2>6. /\ reqPc' \in [Handlers -> ReqPcs]
          /\ reqKey' \in [Handlers -> Keys \union {NoRequest}]
          /\ reqAccount' \in [Handlers -> SUBSET Accounts]
          /\ \A g \in Handlers : reqPc'[g] \in {"claim", "insert", "release"} => reqAccount'[g] # {}
          /\ pooled' \in [Handlers -> BOOLEAN]
          /\ misses' \in [Handlers -> 0 .. claimAttempts]
      <3>1. CASE RequestEnds(h)
        BY <3>1 DEF RequestEnds
      <3>2. CASE ReqAt(h, "release") /\ UNCHANGED <<reqKey, reqAccount, pooled, misses>>
        BY <2>5, <3>2
      <3> QED
        BY <2>4, <3>1, <3>2
    <2>7. HandsTyped'
      BY <2>1, <2>4, <2>5 DEF RequestEnds, poolVars, generated
    <2> QED
      BY <2>1, <2>2, <2>3, <2>6, <2>7
  <1>8. CASE Releases(h)
    <2>1. PoolTypeOK' /\ FaultsTypeOK'
      BY <1>8 DEF Releases, PoolTypeOK, Ledger, keeperVars, generated
    <2>2. TypeOK' /\ HandsTyped'
      BY <1>8, <2>1 DEF Releases, RequestEnds, Ledger, generated
    <2> QED
      BY <2>2
  <1>9. CASE HandlerCrash(h)
    <2>1. PoolTypeOK' /\ FaultsTypeOK'
      BY <1>9 DEF HandlerCrash, CreatedUnnoticed, Fresh, PoolTypeOK, Table, keeperVars, generated
    <2>2. TypeOK' /\ HandsTyped'
      BY <1>9, <2>1 DEF HandlerCrash, CreatedUnnoticed, RequestEnds, Table, generated
    <2> QED
      BY <2>2
  <1> QED
    BY <1>1, <1>2, <1>3, <1>4, <1>5, <1>6, <1>7, <1>8, <1>9

\* A step is the pool's or a handler's.
PoolStep == UNCHANGED creationVars /\ PoolTypeOK' /\ FaultsTypeOK' /\ PoolMoves
HandlerStep(h) ==
    \/ Receive(h) \/ PoolSelects(h) \/ PoolClaims(h) \/ PoolFails(h) \/ Provisions(h)
    \/ ProvisionFails(h) \/ Inserts(h) \/ InsertFails(h) \/ Releases(h) \/ HandlerCrash(h)

LEMMA WhoseStep ==
    ASSUME TypeInv, [Next]_vars
    PROVE  PoolStep \/ \E h \in Handlers : HandlerStep(h)
  <1>1. CASE UNCHANGED vars
    <2>1. PoolTypeOK /\ FaultsTypeOK /\ UNCHANGED faultVars
      BY <1>1 DEF TypeInv, TypeOK, vars
    <2>2. FaultsTypeOK' /\ losses <= losses' /\ crashes <= crashes'
      BY <2>1, LoseTypes
    <2> QED
      BY <1>1, <2>1, <2>2 DEF PoolStep, PoolMoves, PoolTypeOK, generated, vars, poolVars, keeperVars
  <1>2. ASSUME NEW k \in Keepers, UNCHANGED creationVars,
               \/ KeeperPass(k) \/ HealReads(k) \/ HealReadFails(k) \/ CountReady(k)
               \/ HealAdopts(k) \/ HealDrops(k) \/ MintReserves(k) \/ MintMarks(k)
               \/ MintLands(k) \/ MintFails(k) \/ MintGivesUp(k) \/ KeeperCrash(k)
        PROVE  PoolStep
    BY <1>2, KeeperTypes DEF PoolStep
  <1>3. ASSUME UNCHANGED creationVars, BatchLands \/ BatchExpires PROVE PoolStep
    BY <1>3, BatchTypes DEF PoolStep
  <1> QED
    BY <1>1, <1>2, <1>3 DEF Next, HandlerStep

LEMMA TypeInvNext ==
    ASSUME TypeInv, [Next]_vars
    PROVE  TypeInv'
  <1>1. CASE PoolStep
    BY <1>1, PoolKeepsTypes DEF PoolStep
  <1>2. ASSUME NEW h \in Handlers, HandlerStep(h) PROVE TypeInv'
    BY <1>2, HandlerTypes DEF HandlerStep
  <1> QED
    BY <1>1, <1>2, WhoseStep

\* Every row, keypair, batch, order and request stays in its range; in particular only ready rows
\* are ever claimed, and only accounts somebody generated are on the ledger.
THEOREM CreationTypeCorrect == Spec => []TypeOK
  <1>1. Spec => []TypeInv
    BY TypeInvInit, TypeInvNext, PTL DEF Spec
  <1>2. TypeInv => TypeOK
    BY DEF TypeInv
  <1> QED
    BY <1>1, <1>2, PTL

-----------------------------------------------------------------------------
(* One order per key.                                                       *)

KeyedOnce == \A o, q \in orders : o.key = q.key => o = q

\* The only step that changes the orders, and what it adds.
LEMMA OrdersGrow ==
    ASSUME TypeInv, NEW h \in Handlers, HandlerStep(h), orders' # orders
    PROVE  /\ Inserts(h) \/ InsertFails(h)
           /\ OrdersWith(reqKey[h]) = {} /\ orders' = orders \union NewOrder(h)
  BY DEF HandlerStep, Receive, PoolSelects, PoolClaims, PoolFails, Provisions, ProvisionFails, Inserts,
         InsertFails, Releases, HandlerCrash

LEMMA NewOrderIsOne ==
    ASSUME TypeInv, NEW h \in Handlers, reqPc[h] \in {"insert", "release"}
    PROVE  \E a \in Accounts : /\ reqAccount[h] = {a}
                               /\ NewOrder(h) = {[key |-> reqKey[h], address |-> a]}
  <1>1. PICK a \in reqAccount[h] : TRUE
    BY DEF TypeInv, TypeOK
  <1>2. reqAccount[h] = {a} /\ a \in Accounts
    BY DEF TypeInv, TypeOK, HandsTyped
  <1>3. NewOrder(h) = {[key |-> reqKey[h], address |-> a]}
    <2> DEFINE new == [key |-> reqKey[h], address |-> a]
    <2>1. NewOrder(h) = [key : {reqKey[h]}, address : {a}]
      BY <1>2 DEF NewOrder
    <2>2. new \in NewOrder(h)
      BY <2>1
    <2>3. ASSUME NEW n \in NewOrder(h) PROVE n = new
      BY <2>1
    <2> HIDE DEF new
    <2>4. NewOrder(h) = {new}
      BY <2>2, <2>3
    <2> QED
      BY <2>4 DEF new
  <1> QED
    BY <1>2, <1>3

LEMMA KeyedOnceNext ==
    ASSUME TypeInv, KeyedOnce, [Next]_vars
    PROVE  KeyedOnce'
  <1>1. CASE PoolStep
    BY <1>1 DEF PoolStep, creationVars, KeyedOnce
  <1>2. ASSUME NEW h \in Handlers, HandlerStep(h), orders' # orders PROVE KeyedOnce'
    <2>1. PICK a \in Accounts : NewOrder(h) = {[key |-> reqKey[h], address |-> a]}
      BY <1>2, OrdersGrow, NewOrderIsOne DEF Inserts, InsertFails
    <2> QED
      BY <1>2, <2>1, OrdersGrow DEF KeyedOnce, OrdersWith
  <1>3. CASE orders' = orders
    BY <1>3 DEF KeyedOnce
  <1> QED
    BY <1>1, <1>2, <1>3, WhoseStep

\* Requests that repeat a key are answered with one order, however many are served at once and
\* whatever is lost or dies.
THEOREM AnswersAgree == Spec => []SameAnswer
  <1>1. Init => TypeInv /\ KeyedOnce
    BY TypeInvInit DEF Init, KeyedOnce
  <1>2. TypeInv /\ KeyedOnce /\ [Next]_vars => (TypeInv /\ KeyedOnce)'
    BY TypeInvNext, KeyedOnceNext
  <1>3. TypeInv /\ KeyedOnce => SameAnswer
    BY DEF TypeInv, TypeOK, KeyedOnce, SameAnswer
  <1> QED
    BY <1>1, <1>2, <1>3, PTL DEF Spec

-----------------------------------------------------------------------------
(* One order per address, while no answer is lost.  An account is free, or  *)
(* in the hands of one request, or an order's.                              *)

Held(h) == IF reqPc[h] \in {"insert", "release"} THEN reqAccount[h] ELSE {}
Free == rows \ claimed
Addresses == {o.address : o \in orders}

Owned ==
    /\ OneOrderPerAddress
    /\ Addresses \intersect Free = {}
    /\ \A h \in Handlers : /\ Held(h) \intersect Free = {} /\ Held(h) \intersect Addresses = {}
                           /\ \A g \in Handlers : g # h => Held(g) \intersect Held(h) = {}

OwnedInv == TypeInv /\ Addresses \subseteq generated /\ (losses = 0 => Owned)

\* Nobody takes anything.
LEMMA NobodyTakes ==
    ASSUME Owned, UNCHANGED orders,
           Addresses \intersect Free' \subseteq Free,
           \A h \in Handlers : Held(h)' \subseteq Held(h) /\ Held(h) \intersect Free' \subseteq Free
    PROVE  Owned'
  <1>1. Addresses' = Addresses /\ OneOrderPerAddress'
    BY DEF Addresses, Owned, OneOrderPerAddress
  <1> QED
    BY <1>1 DEF Owned

\* A request takes an account that is nobody's.
LEMMA OneTakes ==
    ASSUME Owned, UNCHANGED orders, Free' \subseteq Free, NEW h \in Handlers,
           \A g \in Handlers \ {h} : Held(g)' = Held(g) /\ Held(g) \intersect Held(h)' = {},
           Held(h)' \intersect Free' = {}, Held(h)' \intersect Addresses = {}
    PROVE  Owned'
  <1>1. Addresses' = Addresses /\ OneOrderPerAddress'
    BY DEF Addresses, Owned, OneOrderPerAddress
  <1> QED
    BY <1>1 DEF Owned

\* A request lets go of its account, to the pool or to its order.
LEMMA OneLetsGo ==
    ASSUME Owned, NEW h \in Handlers, Held(h)' = {},
           \A g \in Handlers \ {h} : Held(g)' = Held(g),
           OneOrderPerAddress',
           \/ Free' = Free /\ Addresses' \subseteq Addresses \union Held(h)
           \/ Free' \subseteq Free \union Held(h) /\ Addresses' = Addresses
    PROVE  Owned'
  BY DEF Owned

LEMMA HandlerKeepsOwned ==
    ASSUME OwnedInv, NEW h \in Handlers, HandlerStep(h), losses' = 0
    PROVE  Owned'
  <1>1. TypeInv /\ PoolTypeOK /\ FaultsTypeOK /\ Owned /\ ~Lose
    <2>1. TypeInv /\ PoolTypeOK /\ FaultsTypeOK
      BY DEF OwnedInv, TypeInv, TypeOK
    <2>2. Lose \/ Crash \/ UNCHANGED faultVars
      BY DEF HandlerStep, Receive, PoolSelects, PoolClaims, PoolFails, Provisions, ProvisionFails,
             Inserts, InsertFails, Releases, HandlerCrash
    <2>3. losses = 0 /\ ~Lose
      BY <2>1, <2>2, LoseTypes
    <2> QED
      BY <2>1, <2>3 DEF OwnedInv
  <1>2. /\ reqPc \in [Handlers -> ReqPcs] /\ reqAccount \in [Handlers -> SUBSET Accounts]
        /\ \A g \in Handlers : Held(g) \subseteq generated
        /\ Addresses \subseteq generated
    BY <1>1 DEF TypeInv, TypeOK, HandsTyped, Held, OwnedInv
  <1>3. CASE Receive(h) \/ PoolSelects(h)
    <2>1. UNCHANGED <<orders, rows, claimed>> /\ \A g \in Handlers : Held(g)' \subseteq Held(g)
      BY <1>2, <1>3 DEF Receive, PoolSelects, poolVars, ReqAt, Held
    <2> QED
      BY <1>1, <2>1, NobodyTakes DEF Free
  <1>4. CASE PoolClaims(h)
    <2>1. UNCHANGED <<orders, rows>>
      BY <1>4 DEF PoolClaims
    <2>2. CASE reqAccount[h] \subseteq rows \ claimed
      <3>1. /\ claimed' = claimed \union reqAccount[h]
            /\ reqPc' = [reqPc EXCEPT ![h] = "insert"] /\ UNCHANGED reqAccount
        BY <1>4, <2>2 DEF PoolClaims, ReqAt
      <3>2. Held(h)' = reqAccount[h] /\ \A g \in Handlers \ {h} : Held(g)' = Held(g)
        BY <1>2, <3>1 DEF Held
      <3>3. Held(h)' \subseteq Free /\ Free' \subseteq Free /\ Held(h)' \intersect Free' = {}
        BY <2>1, <2>2, <3>1, <3>2 DEF Free
      <3> QED
        BY <1>1, <2>1, <3>2, <3>3, OneTakes DEF Owned
    <2>3. CASE ~(reqAccount[h] \subseteq rows \ claimed)
      <3>1. UNCHANGED claimed /\ \A g \in Handlers : Held(g)' \subseteq Held(g)
        BY <1>2, <1>4, <2>3 DEF PoolClaims, ReqAt, Held
      <3> QED
        BY <1>1, <2>1, <3>1, NobodyTakes DEF Free
    <2> QED
      BY <2>2, <2>3
  <1>5. CASE Provisions(h)
    <2>1. PICK a \in Fresh : reqAccount' = [reqAccount EXCEPT ![h] = {a}]
      BY <1>5 DEF Provisions
    <2>2. UNCHANGED <<orders, rows, claimed>> /\ reqPc' = [reqPc EXCEPT ![h] = "insert"]
      BY <1>5 DEF Provisions, Table, ReqAt
    <2>3. Held(h)' = {a} /\ \A g \in Handlers \ {h} : Held(g)' = Held(g)
      BY <1>2, <2>1, <2>2 DEF Held
    <2>4. a \notin generated /\ Free' = Free /\ Free \subseteq generated
      BY <1>1, <2>2 DEF Fresh, Free, PoolTypeOK, generated
    <2> QED
      BY <1>1, <1>2, <2>2, <2>3, <2>4, OneTakes
  <1>6. CASE ProvisionFails(h) \/ HandlerCrash(h)
    <2>1. UNCHANGED <<orders, rows, claimed>> /\ \A g \in Handlers : Held(g)' \subseteq Held(g)
      BY <1>2, <1>6 DEF ProvisionFails, HandlerCrash, Table, RequestEnds, ReqAt, Held
    <2> QED
      BY <1>1, <2>1, NobodyTakes DEF Free
  <1>7. CASE Inserts(h)
    <2>1. UNCHANGED <<rows, claimed>>
      BY <1>7 DEF Inserts, poolVars
    <2>2. CASE OrdersWith(reqKey[h]) = {}
      <3>1. PICK a \in Accounts : /\ reqAccount[h] = {a}
                                  /\ NewOrder(h) = {[key |-> reqKey[h], address |-> a]}
        BY <1>1, <1>7, NewOrderIsOne DEF Inserts
      <3>2. orders' = orders \union {[key |-> reqKey[h], address |-> a]} /\ RequestEnds(h)
        BY <1>7, <2>2, <3>1 DEF Inserts
      <3>3. Held(h) = {a}
        BY <1>7, <3>1 DEF Inserts, Held
      <3>4. Held(h)' = {} /\ \A g \in Handlers \ {h} : Held(g)' = Held(g)
        BY <1>2, <3>2 DEF RequestEnds, ReqAt, Held
      <3>5. Addresses' \subseteq Addresses \union Held(h)
        BY <3>2, <3>3 DEF Addresses
      <3>6. a \notin Addresses
        BY <1>1, <3>3 DEF Owned
      <3>7. OneOrderPerAddress'
        BY <1>1, <3>2, <3>6 DEF Owned, OneOrderPerAddress, Addresses
      <3> QED
        BY <1>1, <2>1, <3>4, <3>5, <3>7, OneLetsGo DEF Free
    <2>3. CASE OrdersWith(reqKey[h]) # {}
      <3>1. UNCHANGED orders /\ \A g \in Handlers : Held(g)' \subseteq Held(g)
        BY <1>2, <1>7, <2>3 DEF Inserts, Unsaved, RequestEnds, ReqAt, Held
      <3> QED
        BY <1>1, <2>1, <3>1, NobodyTakes DEF Free
    <2> QED
      BY <2>2, <2>3
  <1>8. CASE Releases(h)
    <2>1. claimed' = claimed \ reqAccount[h] /\ UNCHANGED <<orders, rows>> /\ RequestEnds(h)
      BY <1>1, <1>8 DEF Releases
    <2>2. Held(h) = reqAccount[h]
      BY <1>8 DEF Releases, Held
    <2>3. Held(h)' = {} /\ \A g \in Handlers \ {h} : Held(g)' = Held(g)
      BY <1>2, <2>1 DEF RequestEnds, ReqAt, Held
    <2>4. Free' \subseteq Free \union Held(h) /\ Addresses' = Addresses /\ OneOrderPerAddress'
      BY <1>1, <2>1, <2>2 DEF Free, Addresses, Owned, OneOrderPerAddress
    <2> QED
      BY <1>1, <2>3, <2>4, OneLetsGo
  <1>9. CASE PoolFails(h) \/ InsertFails(h)
    BY <1>1, <1>9 DEF PoolFails, InsertFails
  <1> QED
    BY <1>3, <1>4, <1>5, <1>6, <1>7, <1>8, <1>9 DEF HandlerStep

LEMMA AddressesGenerated ==
    ASSUME TypeInv, Addresses \subseteq generated, [Next]_vars
    PROVE  Addresses' \subseteq generated'
  <1>1. CASE PoolStep
    BY <1>1 DEF PoolStep, PoolMoves, creationVars, Addresses
  <1>2. ASSUME NEW h \in Handlers, HandlerStep(h) PROVE Addresses' \subseteq generated'
    <2>1. generated \subseteq generated'
      BY <1>2 DEF HandlerStep, Receive, PoolSelects, PoolClaims, PoolFails, Provisions, ProvisionFails,
             CreatedUnnoticed, Inserts, InsertFails, Releases, HandlerCrash, generated, poolVars, Ledger
    <2>2. CASE orders' = orders
      BY <2>1, <2>2 DEF Addresses
    <2>3. CASE orders' # orders
      <3>1. PICK a \in Accounts : /\ reqAccount[h] = {a}
                                  /\ NewOrder(h) = {[key |-> reqKey[h], address |-> a]}
        BY <1>2, <2>3, OrdersGrow, NewOrderIsOne DEF Inserts, InsertFails
      <3>2. orders' = orders \union {[key |-> reqKey[h], address |-> a]} /\ a \in generated
        BY <1>2, <2>3, <3>1, OrdersGrow DEF TypeInv, HandsTyped
      <3> QED
        BY <2>1, <3>2 DEF Addresses
    <2> QED
      BY <2>2, <2>3
  <1> QED
    BY <1>1, <1>2, WhoseStep

LEMMA OwnedInvNext ==
    ASSUME OwnedInv, [Next]_vars
    PROVE  OwnedInv'
  <1>1. TypeInv' /\ Addresses' \subseteq generated'
    BY TypeInvNext, AddressesGenerated DEF OwnedInv
  <1>2. ASSUME PoolStep, losses' = 0 PROVE Owned'
    <2>1. losses = 0
      BY <1>2 DEF PoolStep, PoolMoves, OwnedInv, TypeInv, TypeOK, FaultsTypeOK
    <2>2. Free' \intersect generated \subseteq Free
      BY <1>2 DEF PoolStep, PoolMoves, Free
    <2>3. \A h \in Handlers : Held(h)' = Held(h) /\ Held(h) \subseteq generated
      BY <1>2 DEF PoolStep, creationVars, Held, OwnedInv, TypeInv, HandsTyped
    <2> QED
      BY <1>2, <2>1, <2>2, <2>3, NobodyTakes DEF OwnedInv, PoolStep, creationVars
  <1>3. ASSUME NEW h \in Handlers, HandlerStep(h), losses' = 0 PROVE Owned'
    BY <1>3, HandlerKeepsOwned
  <1>4. PoolStep \/ \E h \in Handlers : HandlerStep(h)
    BY WhoseStep DEF OwnedInv
  <1> QED
    BY <1>1, <1>2, <1>3, <1>4 DEF OwnedInv

LEMMA OwnedInvInit == Init => OwnedInv
  BY TypeInvInit DEF Init, PoolInit, OwnedInv, Owned, OneOrderPerAddress, Addresses, Free, Held

\* While no answer is lost, no two orders share a deposit address, however requests race for the
\* pool and servers and keepers die (ClaimPoolAccount and ReleasePoolAccount, DropPoolAccount).
THEOREM AddressesAreUnshared == Spec => []OneOrderUnlessLost
  <1>1. OwnedInv /\ [Next]_vars => OwnedInv'
    BY OwnedInvNext
  <1>2. OwnedInv => OneOrderUnlessLost
    BY DEF OwnedInv, Owned, OneOrderUnlessLost
  <1> QED
    BY <1>1, <1>2, OwnedInvInit, PTL DEF Spec

-----------------------------------------------------------------------------
(* Stranded accounts.  StrandedPerFault counts a request's candidate as in  *)
(* use, which it stops to be when the claim is lost; Lost does not count    *)
(* it, and only grows with a fault, by one account.                         *)

Owners == Addresses \union UNION {Held(h) : h \in Handlers}
Lost == claimed \ Owners

\* An account that is not handed back was never in the pool.
InlineApart ==
    /\ inlined \intersect minted = {}
    /\ \A h \in Handlers : reqPc[h] = "insert" /\ ~pooled[h] => reqAccount[h] \subseteq inlined

LostInv == TypeInv /\ InlineApart /\ Cardinality(Lost) <= losses + crashes

LEMMA InlineApartNext ==
    ASSUME TypeInv, InlineApart, [Next]_vars
    PROVE  InlineApart'
  <1>1. CASE PoolStep
    BY <1>1 DEF PoolStep, PoolMoves, creationVars, InlineApart, Fresh, generated
  <1>2. ASSUME NEW h \in Handlers, HandlerStep(h) PROVE InlineApart'
    <2>1. /\ reqPc \in [Handlers -> ReqPcs] /\ reqAccount \in [Handlers -> SUBSET Accounts]
          /\ pooled \in [Handlers -> BOOLEAN]
      BY DEF TypeInv, TypeOK
    <2> USE <1>2, <2>1 DEF InlineApart, ReqAt
    <2>2. CASE Receive(h) \/ PoolSelects(h) \/ PoolFails(h)
      BY <2>2 DEF Receive, PoolSelects, PoolFails, poolVars, Ledger
    <2>3. CASE PoolClaims(h)
      BY <2>3 DEF PoolClaims, Ledger
    <2>4. CASE Provisions(h)
      BY <2>4 DEF Provisions, Fresh, generated
    <2>5. CASE ProvisionFails(h) \/ HandlerCrash(h)
      BY <2>5 DEF ProvisionFails, HandlerCrash, CreatedUnnoticed, RequestEnds, Fresh, generated
    <2>6. CASE Inserts(h) \/ InsertFails(h)
      BY <2>6 DEF Inserts, InsertFails, Unsaved, RequestEnds, poolVars
    <2>7. CASE Releases(h)
      BY <2>7 DEF Releases, RequestEnds, Ledger
    <2> QED
      BY <2>2, <2>3, <2>4, <2>5, <2>6, <2>7 DEF HandlerStep
  <1> QED
    BY <1>1, <1>2, WhoseStep

\* What is lost is finite, so a step that loses one more account counts one more.
LEMMA LostCounts ==
    ASSUME TypeInv, TypeInv'
    PROVE  /\ IsFiniteSet(Lost) /\ Cardinality(Lost) \in Nat /\ Cardinality(Lost') \in Nat
           /\ Lost' \subseteq Lost => Cardinality(Lost') <= Cardinality(Lost)
           /\ \A a : Lost' \subseteq Lost \union {a} => Cardinality(Lost') <= Cardinality(Lost) + 1
  <1>1. Lost \subseteq Accounts /\ Lost' \subseteq Accounts
    BY DEF Lost, TypeInv, TypeOK, PoolTypeOK, generated
  <1>2. IsFiniteSet(Lost) /\ IsFiniteSet(Lost')
    BY <1>1, PoolAssumptions, FS_Subset
  <1>3. Cardinality(Lost) \in Nat /\ Cardinality(Lost') \in Nat
    BY <1>2, FS_CardinalityType
  <1>4. Lost' \subseteq Lost => Cardinality(Lost') <= Cardinality(Lost)
    BY <1>2, FS_Subset
  <1>5. ASSUME NEW a, Lost' \subseteq Lost \union {a} PROVE Cardinality(Lost') <= Cardinality(Lost) + 1
    <2>1. /\ IsFiniteSet(Lost \union {a})
          /\ Cardinality(Lost \union {a}) = Cardinality(Lost) \/ Cardinality(Lost \union {a}) = Cardinality(Lost) + 1
      BY <1>2, FS_AddElement
    <2>2. Cardinality(Lost') <= Cardinality(Lost \union {a})
      BY <1>5, <2>1, FS_Subset
    <2> QED
      BY <1>3, <2>1, <2>2
  <1> QED
    BY <1>2, <1>3, <1>4, <1>5

\* Nothing more is lost when what is claimed and owned by nobody was so before.
LEMMA OwnersCover ==
    ASSUME NEW h \in Handlers, NEW S,
           claimed' \subseteq claimed \union S, Addresses \subseteq Addresses',
           \A g \in Handlers \ {h} : Held(g)' = Held(g)
    PROVE  Lost' \subseteq Lost \union ((S \union Held(h)) \ (Held(h)' \union Addresses'))
  <1> SUFFICES ASSUME NEW a \in Lost', a \notin Lost
               PROVE  a \in (S \union Held(h)) \ (Held(h)' \union Addresses')
    OBVIOUS
  <1>1. a \in claimed' /\ a \notin Addresses' /\ \A g \in Handlers : a \notin Held(g)'
    <2>1. a \in claimed' /\ a \notin Owners'
      BY DEF Lost
    <2>2. Addresses' \subseteq Owners'
      BY DEF Owners
    <2>3. \A g \in Handlers : Held(g)' \subseteq Owners'
      BY DEF Owners, Held
    <2> QED
      BY <2>1, <2>2, <2>3
  <1>2. a \notin claimed \/ a \in Addresses \/ \E g \in Handlers : a \in Held(g)
    BY DEF Lost, Owners
  <1>3. a \notin claimed \/ a \in Held(h)
    BY <1>1, <1>2
  <1> QED
    BY <1>1, <1>3

LEMMA HandlerLoses ==
    ASSUME TypeInv, InlineApart, NEW h \in Handlers, HandlerStep(h)
    PROVE  \/ Lost' \subseteq Lost
           \/ (Lose \/ Crash) /\ \E a : Lost' \subseteq Lost \union {a}
  <1>1. /\ reqPc \in [Handlers -> ReqPcs] /\ reqAccount \in [Handlers -> SUBSET Accounts]
        /\ claimed \subseteq minted
    BY DEF TypeInv, TypeOK, PoolTypeOK
  <1>2. \E a : reqAccount[h] \subseteq {a}
    BY DEF TypeInv, HandsTyped
  <1>3. Addresses \subseteq Addresses'
    <2>1. orders \subseteq orders'
      BY OrdersGrow
    <2> QED
      BY <2>1 DEF Addresses
  <1>4. \A g \in Handlers \ {h} : Held(g)' = Held(g)
    BY <1>1 DEF HandlerStep, Receive, PoolSelects, PoolClaims, PoolFails, Provisions, ProvisionFails,
                Inserts, InsertFails, Unsaved, Releases, HandlerCrash, RequestEnds, ReqAt, Held
  <1>5. Held(h) \subseteq reqAccount[h]
    BY DEF Held
  <1>6. CASE Receive(h) \/ PoolSelects(h) \/ Provisions(h) \/ ProvisionFails(h)
    <2>1. claimed' = claimed /\ Held(h) = {}
      BY <1>6 DEF Receive, PoolSelects, Provisions, ProvisionFails, poolVars, Table, Held
    <2> QED
      BY <1>3, <1>4, <2>1, OwnersCover
  <1>7. CASE PoolClaims(h)
    <2>1. Held(h) = {}
      BY <1>7 DEF PoolClaims, Held
    <2>2. claimed' = claimed \/ (claimed' = claimed \union reqAccount[h] /\ Held(h)' = reqAccount[h])
      <3>1. CASE /\ claimed' = claimed \union reqAccount[h]
                 /\ ReqAt(h, "insert") /\ UNCHANGED reqAccount
        <4>1. reqPc'[h] = "insert" /\ reqAccount'[h] = reqAccount[h]
          BY <1>1, <3>1 DEF ReqAt
        <4> QED
          BY <3>1, <4>1 DEF Held
      <3> QED
        BY <1>7, <3>1 DEF PoolClaims
    <2> QED
      BY <1>3, <1>4, <2>1, <2>2, OwnersCover
  <1>8. CASE Inserts(h)
    <2>1. claimed' = claimed
      BY <1>8 DEF Inserts, poolVars
    <2>2. CASE OrdersWith(reqKey[h]) = {}
      <3>1. PICK a \in Accounts : /\ reqAccount[h] = {a}
                                  /\ NewOrder(h) = {[key |-> reqKey[h], address |-> a]}
        BY <1>8, NewOrderIsOne DEF Inserts
      <3>2. reqAccount[h] \subseteq Addresses'
        <4> DEFINE new == [key |-> reqKey[h], address |-> a]
        <4>1. new \in orders' /\ new.address = a
          BY <1>8, <2>2, <3>1 DEF Inserts
        <4> HIDE DEF new
        <4>2. a \in Addresses'
          BY <4>1 DEF Addresses
        <4> QED
          BY <3>1, <4>2
      <3> QED
        BY <1>3, <1>4, <1>5, <2>1, <3>2, OwnersCover
    <2>3. CASE OrdersWith(reqKey[h]) # {} /\ pooled[h]
      <3>1. Held(h)' = Held(h)
        BY <1>1, <1>8, <2>3 DEF Inserts, Unsaved, ReqAt, Held
      <3> QED
        BY <1>3, <1>4, <2>1, <3>1, OwnersCover
    <2>4. CASE ~pooled[h]
      <3>1. reqAccount[h] \intersect claimed = {}
        BY <1>1, <1>8, <2>4 DEF Inserts, InlineApart
      <3>2. Lost' \subseteq Lost \union Held(h) /\ Lost' \subseteq claimed
        BY <1>3, <1>4, <2>1, OwnersCover DEF Lost
      <3> QED
        BY <1>5, <3>1, <3>2
    <2> QED
      BY <2>2, <2>3, <2>4
  <1>9. CASE Releases(h)
    <2>1. CASE claimed' = claimed \ reqAccount[h]
      <3>1. Lost' \subseteq Lost \union Held(h) /\ Lost' \subseteq claimed'
        BY <1>3, <1>4, <2>1, OwnersCover DEF Lost
      <3> QED
        BY <1>5, <2>1, <3>1
    <2>2. CASE Lose /\ UNCHANGED claimed
      <3>1. Lost' \subseteq Lost \union Held(h)
        BY <1>3, <1>4, <2>2, OwnersCover
      <3> QED
        BY <1>2, <1>5, <2>2, <3>1
    <2> QED
      BY <1>9, <2>1, <2>2 DEF Releases
  <1>10. CASE PoolFails(h) \/ InsertFails(h) \/ HandlerCrash(h)
    <2>1. (Lose \/ Crash) /\ claimed' \subseteq claimed \union reqAccount[h]
      BY <1>10 DEF PoolFails, InsertFails, HandlerCrash, poolVars, Table
    <2>2. Lost' \subseteq Lost \union reqAccount[h]
      BY <1>3, <1>4, <1>5, <2>1, OwnersCover
    <2> QED
      BY <1>2, <2>1, <2>2
  <1> QED
    BY <1>6, <1>7, <1>8, <1>9, <1>10 DEF HandlerStep

\* The budget of a step that loses at most what it spends.
LEMMA SumsGrow ==
    ASSUME NEW n \in Nat, NEW m \in Nat, NEW l \in Nat, NEW c \in Nat, NEW k \in Nat, NEW d \in Nat,
           n <= l + c, l <= k, c <= d,
           m <= n \/ (m <= n + 1 /\ k + d = l + c + 1)
    PROVE  m <= k + d
  OBVIOUS

LEMMA LostInvNext ==
    ASSUME LostInv, [Next]_vars
    PROVE  LostInv'
  <1>1. TypeInv /\ TypeInv' /\ InlineApart /\ InlineApart'
    BY TypeInvNext, InlineApartNext DEF LostInv
  <1>2. FaultsTypeOK /\ FaultsTypeOK'
    BY <1>1 DEF TypeInv, TypeOK
  <1>3. /\ losses \in Nat /\ crashes \in Nat /\ losses' \in Nat /\ crashes' \in Nat
        /\ Cardinality(Lost) \in Nat /\ Cardinality(Lost') \in Nat
        /\ Cardinality(Lost) <= losses + crashes
    BY <1>1, <1>2, FaultBudgets, LostCounts DEF FaultsTypeOK, LostInv
  <1>4. CASE PoolStep
    <2>1. Lost' \subseteq Lost
      <3>1. claimed' \subseteq claimed /\ Addresses' = Addresses /\ \A h \in Handlers : Held(h)' = Held(h)
        BY <1>4 DEF PoolStep, PoolMoves, creationVars, Addresses, Held
      <3> QED
        BY <3>1 DEF Lost, Owners
    <2>2. Cardinality(Lost') <= Cardinality(Lost)
      BY <1>1, <2>1, LostCounts
    <2>3. losses <= losses' /\ crashes <= crashes'
      BY <1>4 DEF PoolStep, PoolMoves
    <2>4. Cardinality(Lost') <= losses' + crashes'
      BY <1>3, <2>2, <2>3, SumsGrow
    <2> QED
      BY <1>1, <2>4 DEF LostInv
  <1>5. ASSUME NEW h \in Handlers, HandlerStep(h) PROVE LostInv'
    <2>1. Lose \/ Crash \/ UNCHANGED faultVars
      BY <1>5 DEF HandlerStep, Receive, PoolSelects, PoolClaims, PoolFails, Provisions, ProvisionFails,
             Inserts, InsertFails, Releases, HandlerCrash
    <2>2. /\ losses <= losses' /\ crashes <= crashes'
          /\ Lose \/ Crash => losses' + crashes' = losses + crashes + 1
      BY <1>2, <2>1, LoseTypes
    <2>3. \/ Cardinality(Lost') <= Cardinality(Lost)
          \/ (Lose \/ Crash) /\ Cardinality(Lost') <= Cardinality(Lost) + 1
      BY <1>1, <1>5, HandlerLoses, LostCounts
    <2>4. Cardinality(Lost') <= losses' + crashes'
      BY <1>3, <2>2, <2>3, SumsGrow
    <2> QED
      BY <1>1, <2>4 DEF LostInv
  <1> QED
    BY <1>1, <1>4, <1>5, WhoseStep

LEMMA LostInvInit == Init => LostInv
  <1> SUFFICES ASSUME Init PROVE LostInv
    OBVIOUS
  <1>1. Lost = {} /\ InlineApart
    BY DEF Init, PoolInit, Lost, InlineApart
  <1>2. Cardinality(Lost) = 0 /\ losses + crashes = 0
    BY <1>1, FS_EmptySet DEF Init, FaultsInit
  <1> QED
    BY <1>1, <1>2, TypeInvInit DEF LostInv

LEMMA StrandedAreLost == LostInv => StrandedPerFault
  <1> SUFFICES ASSUME LostInv PROVE Cardinality(Stranded) <= losses + crashes
    BY DEF StrandedPerFault
  <1>1. Stranded \subseteq Lost
    BY DEF Stranded, InUse, Lost, Owners, Held, Addresses
  <1>2. IsFiniteSet(Lost)
    <2>1. Lost \subseteq Accounts
      BY DEF Lost, LostInv, TypeInv, TypeOK, PoolTypeOK, generated
    <2> QED
      BY <2>1, PoolAssumptions, FS_Subset
  <1>3. Cardinality(Stranded) <= Cardinality(Lost) /\ Cardinality(Stranded) \in Nat /\ Cardinality(Lost) \in Nat
    BY <1>1, <1>2, FS_Subset, FS_CardinalityType
  <1>4. losses \in Nat /\ crashes \in Nat /\ Cardinality(Lost) <= losses + crashes
    BY FaultBudgets DEF LostInv, TypeInv, TypeOK, FaultsTypeOK
  <1> QED
    BY <1>3, <1>4

\* Each lost answer, failed statement or crash strands one pool account at most: a claim that a
\* request gives up is handed back, or belongs to whoever was faster.
THEOREM StrandedAreCounted == Spec => []StrandedPerFault
  <1>1. LostInv /\ [Next]_vars => LostInv'
    BY LostInvNext
  <1> QED
    BY <1>1, LostInvInit, StrandedAreLost, PTL DEF Spec

-----------------------------------------------------------------------------
(* Accounts without a record.  heal() drops a row whose account it did not  *)
(* find on the ledger.  That is safe as long as nobody creates the account  *)
(* after the look: no other keeper, and no submission that is still under   *)
(* way when its keeper has given it up or was cut short.                    *)

\* What the pool paid for has a row; a batch that is submitted has rows, and what is about to be
\* dropped does not exist.
Tracked ==
    /\ minted \intersect exists \subseteq rows
    /\ \A k \in Keepers : /\ keeperPc[k] = "submit" => minting[k] \subseteq rows
                          /\ keeperPc[k] = "drop" => healing[k] \intersect exists = {}

\* A keeper's step keeps track, if it is the only keeper.
LEMMA KeeperTracks ==
    ASSUME TypeInv, Tracked, NEW k \in Keepers, \A l \in Keepers : l = k,
           \/ KeeperPass(k) \/ HealReads(k) \/ HealReadFails(k) \/ CountReady(k)
           \/ HealAdopts(k) \/ HealDrops(k) \/ MintReserves(k) \/ MintMarks(k)
           \/ MintLands(k) \/ MintFails(k) \/ MintGivesUp(k) \/ KeeperCrash(k)
    PROVE  Tracked'
  <1>1. /\ rows \subseteq minted /\ generated \subseteq Accounts /\ exists \subseteq generated
        /\ keeperPc \in [Keepers -> KeeperPcs]
        /\ healing \in [Keepers -> SUBSET minted] /\ minting \in [Keepers -> SUBSET minted]
    BY DEF TypeInv, TypeOK, PoolTypeOK
  <1> USE <1>1 DEF Tracked, KeeperAt
  <1>2. CASE KeeperPass(k) \/ HealReadFails(k) \/ CountReady(k)
    BY <1>2 DEF KeeperPass, HealReadFails, CountReady, poolVars
  <1>3. CASE HealReads(k)
    BY <1>3 DEF HealReads, poolVars
  <1>4. CASE HealAdopts(k)
    BY <1>4 DEF HealAdopts, MarkPoolReady, Table, Ledger
  <1>5. CASE HealDrops(k)
    BY <1>5 DEF HealDrops, DropPoolAccount, Table, Ledger
  <1>6. CASE MintReserves(k)
    BY <1>6 DEF MintReserves, Reserve, Fresh, generated
  <1>7. CASE MintMarks(k)
    BY <1>7 DEF MintMarks, MintEnds, MarkPoolReady, Table, Ledger
  <1>8. CASE MintLands(k)
    BY <1>8 DEF MintLands, Table
  <1>9. CASE MintFails(k)
    BY <1>9 DEF MintFails, MintEnds, Table
  <1>10. CASE MintGivesUp(k)
    <2>1. \/ UNCHANGED <<minted, rows>>
          \/ \E as \in SUBSET Fresh : minted' = minted \union as /\ rows' = rows \union as
      BY <1>10 DEF MintGivesUp, Reserve
    <2>2. minted' \intersect exists \subseteq rows'
      BY <2>1 DEF Fresh, generated
    <2> QED
      BY <1>10, <2>2 DEF MintGivesUp, MintEnds
  <1>11. CASE KeeperCrash(k)
    BY <1>11 DEF KeeperCrash, MintEnds, Table
  <1> QED
    BY <1>2, <1>3, <1>4, <1>5, <1>6, <1>7, <1>8, <1>9, <1>10, <1>11

\* A request creates accounts no keeper ever generated, and takes no row away.
LEMMA HandlerTracks ==
    ASSUME TypeInv, Tracked, NEW h \in Handlers, HandlerStep(h)
    PROVE  Tracked'
  <1>1. UNCHANGED <<rows, minted, keeperPc, minting, healing>>
    BY DEF HandlerStep, Receive, PoolSelects, PoolClaims, PoolFails, Provisions, ProvisionFails, Inserts,
           InsertFails, Releases, HandlerCrash, poolVars, keeperVars, Table, Ledger
  <1>2. exists' \intersect minted \subseteq exists
    BY DEF HandlerStep, Receive, PoolSelects, PoolClaims, PoolFails, Provisions, ProvisionFails, Inserts,
           InsertFails, Releases, HandlerCrash, CreatedUnnoticed, Fresh, generated, poolVars, Ledger
  <1>3. healing \in [Keepers -> SUBSET minted]
    BY DEF TypeInv, TypeOK, PoolTypeOK
  <1> QED
    BY <1>1, <1>2, <1>3 DEF Tracked

\* Every step keeps track while no submission is left to itself.
LEMMA TrackedNext ==
    ASSUME \A k, l \in Keepers : k = l, TypeInv, Tracked, inFlight = {}, [Next]_vars
    PROVE  Tracked'
  <1>1. CASE UNCHANGED vars
    BY <1>1 DEF Tracked, vars, poolVars, keeperVars
  <1>2. ASSUME NEW k \in Keepers,
               \/ KeeperPass(k) \/ HealReads(k) \/ HealReadFails(k) \/ CountReady(k)
               \/ HealAdopts(k) \/ HealDrops(k) \/ MintReserves(k) \/ MintMarks(k)
               \/ MintLands(k) \/ MintFails(k) \/ MintGivesUp(k) \/ KeeperCrash(k)
        PROVE  Tracked'
    BY <1>2, KeeperTracks
  <1>3. ASSUME NEW h \in Handlers, HandlerStep(h) PROVE Tracked'
    BY <1>3, HandlerTracks
  <1>4. CASE BatchLands \/ BatchExpires
    BY <1>4 DEF BatchLands, BatchExpires
  <1> QED
    BY <1>1, <1>2, <1>3, <1>4 DEF Next, HandlerStep

\* With one keeper, and as long as no submission is left under way when its keeper gave it up or was
\* cut short, no account the pool paid for is lost, whatever else is lost or dies (store/pool.go:
\* recording before submitting, and heal): then the late submission is the only way to lose one.
THEOREM NothingLeaksUnlessLate ==
    ASSUME \A k, l \in Keepers : k = l
    PROVE  Spec /\ [](inFlight = {}) => []NoAccountLost
  <1>1. Init => Tracked
    BY DEF Init, PoolInit, Tracked
  <1>2. TypeInv /\ Tracked /\ inFlight = {} /\ [Next]_vars => Tracked'
    BY TrackedNext
  <1>3. Tracked => NoAccountLost
    BY DEF Tracked, NoAccountLost
  <1>4. TypeInv /\ [Next]_vars => TypeInv'
    BY TypeInvNext
  <1> QED
    BY <1>1, <1>2, <1>3, <1>4, TypeInvInit, PTL DEF Spec

=============================================================================
