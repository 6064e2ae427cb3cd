---------------------------- MODULE AccountPool ----------------------------
(***************************************************************************)
(* The pool of deposit accounts provisioned ahead of any order: the        *)
(* stellar_deposit_pool table of internal/store/pool.go and the keeper of  *)
(* internal/pool/keeper.go, one per worker process.  A keeper's pc is the  *)
(* next statement of pass() that touches the table or the ledger:          *)
(*   idle -> heal -> adopt | drop -> heal -> reserve -> submit -> mark     *)
(***************************************************************************)
EXTENDS Faults, FiniteSetsExt

CONSTANTS Accounts, \* keypairs that can be generated (bounds what is minted)
          Keepers,
          Size,     \* target number of ready accounts
          Batch     \* most accounts of one provisioning transaction

ASSUME PoolAssumptions ==
    IsFiniteSet(Accounts) /\ Size \in Nat \ {0} /\ Batch \in Nat \ {0}

VARIABLES rows, ready, claimed, \* rows of the table; those with ready set, claimed_at set
          minted, inlined,      \* keypairs generated by a keeper, by a request
          exists,               \* accounts on the ledger, with their USDC trustline
          inFlight              \* batches whose submission timed out
VARIABLES keeperPc,
          unconfirmed,          \* rows heal() still has to look at
          healing,              \* the one it has read from the ledger (at most one)
          count, minting        \* mint(): how many, and which accounts
poolVars == <<rows, ready, claimed, minted, inlined, exists, inFlight>>
keeperVars == <<keeperPc, unconfirmed, healing, count, minting>>

generated == minted \union inlined

KeeperPcs == {"idle", "heal", "adopt", "drop", "reserve", "submit", "mark"}

PoolTypeOK ==
    /\ rows \subseteq minted /\ generated \subseteq Accounts
    /\ ready \subseteq rows /\ claimed \subseteq ready
    /\ exists \subseteq generated
    /\ inFlight \subseteq SUBSET minted
    /\ keeperPc \in [Keepers -> KeeperPcs]
    /\ unconfirmed \in [Keepers -> SUBSET minted]
    /\ healing \in [Keepers -> SUBSET minted]
    /\ count \in [Keepers -> 0 .. Batch]
    /\ minting \in [Keepers -> SUBSET minted]

PoolInit ==
    /\ rows = {} /\ ready = {} /\ claimed = {}
    /\ minted = {} /\ inlined = {} /\ exists = {} /\ inFlight = {}
    /\ keeperPc = [k \in Keepers |-> "idle"]
    /\ unconfirmed = [k \in Keepers |-> {}]
    /\ healing = [k \in Keepers |-> {}]
    /\ count = [k \in Keepers |-> 0]
    /\ minting = [k \in Keepers |-> {}]

Fresh == Accounts \ generated

\* ReadyPoolAccounts, and the candidates of ClaimPoolAccount.
Offered == ready \ claimed
\* PendingPoolAccounts: rows whose provisioning was never confirmed.
Pending == rows \ (ready \union claimed)

\* MarkPoolReady: an UPDATE by id, so rows that are gone are passed over.
MarkPoolReady(as) == ready' = ready \union (as \intersect rows) /\ UNCHANGED <<rows, claimed>>

\* DropPoolAccount: a DELETE by id, whatever has become of the row meanwhile.
DropPoolAccount(a) ==
    rows' = rows \ {a} /\ ready' = ready \ {a} /\ claimed' = claimed \ {a}

Table == <<rows, ready, claimed>>
Ledger == <<minted, inlined, exists, inFlight>>

-----------------------------------------------------------------------------
KeeperAt(k, pc) == keeperPc' = [keeperPc EXCEPT ![k] = pc]

\* Mutant: pass() does not heal.
KeeperPassCountsOnly(k) ==
    /\ keeperPc[k] = "idle"
    /\ KeeperAt(k, "heal")
    /\ UNCHANGED <<poolVars, unconfirmed, healing, count, minting, faultVars>>

\* heal() selects the rows to resolve; if it cannot, the pass goes on without.
KeeperPass(k) ==
    /\ keeperPc[k] = "idle"
    /\ KeeperAt(k, "heal")
    /\ \/ unconfirmed' = [unconfirmed EXCEPT ![k] = Pending] /\ UNCHANGED faultVars
       \/ Lose /\ UNCHANGED unconfirmed
    /\ UNCHANGED <<poolVars, healing, count, minting>>

\* Mutant: every unconfirmed row is taken for an account that exists.
HealReadsNothing(k) ==
    /\ keeperPc[k] = "heal"
    /\ \E a \in unconfirmed[k] :
        /\ unconfirmed' = [unconfirmed EXCEPT ![k] = @ \ {a}]
        /\ healing' = [healing EXCEPT ![k] = {a}]
    /\ KeeperAt(k, "adopt")
    /\ UNCHANGED <<poolVars, count, minting, faultVars>>

\* TrustsUSDC: the ledger is asked whether the account was created.
HealReads(k) ==
    /\ keeperPc[k] = "heal"
    /\ \E a \in unconfirmed[k] :
        /\ unconfirmed' = [unconfirmed EXCEPT ![k] = @ \ {a}]
        /\ healing' = [healing EXCEPT ![k] = {a}]
        /\ KeeperAt(k, IF a \in exists THEN "adopt" ELSE "drop")
    /\ UNCHANGED <<poolVars, count, minting, faultVars>>

\* Horizon cannot be read: left for the next pass.
HealReadFails(k) ==
    /\ keeperPc[k] = "heal"
    /\ \E a \in unconfirmed[k] : unconfirmed' = [unconfirmed EXCEPT ![k] = @ \ {a}]
    /\ Lose
    /\ UNCHANGED <<poolVars, keeperPc, healing, count, minting>>

\* The row is adopted, or dropped; an error of the statement is only logged.
HealAdopts(k) ==
    /\ keeperPc[k] = "adopt"
    /\ \/ MarkPoolReady(healing[k]) /\ UNCHANGED faultVars
       \/ Lose /\ UNCHANGED Table
    /\ KeeperAt(k, "heal")
    /\ healing' = [healing EXCEPT ![k] = {}]
    /\ UNCHANGED <<Ledger, unconfirmed, count, minting>>

HealDrops(k) ==
    /\ keeperPc[k] = "drop"
    /\ \/ (\E a \in healing[k] : DropPoolAccount(a)) /\ UNCHANGED faultVars
       \/ Lose /\ UNCHANGED Table
    /\ KeeperAt(k, "heal")
    /\ healing' = [healing EXCEPT ![k] = {}]
    /\ UNCHANGED <<Ledger, unconfirmed, count, minting>>

\* Mutant: accounts that were taken still count.
ShortCountsTaken == Min({Batch, Size - Cardinality(ready), Cardinality(Fresh)})

\* How many accounts pass() mints: what is short, in batches (and while keypairs last).
Short == Min({Batch, Size - Cardinality(Offered), Cardinality(Fresh)})

\* pass() counts the pool, and stops if it is full or cannot be counted.
CountReady(k) ==
    /\ keeperPc[k] = "heal" /\ unconfirmed[k] = {}
    /\ \/ /\ Short <= 0
          /\ KeeperAt(k, "idle") /\ UNCHANGED <<count, faultVars>>
       \/ /\ Short > 0
          /\ KeeperAt(k, "reserve") /\ count' = [count EXCEPT ![k] = Short]
          /\ UNCHANGED faultVars
       \/ Lose /\ KeeperAt(k, "idle") /\ UNCHANGED count
    /\ UNCHANGED <<poolVars, unconfirmed, healing, minting>>

\* Keypairs are generated and recorded, not ready, before anything is submitted.
Reserve(k, as) ==
    /\ Cardinality(as) = count[k]
    /\ minted' = minted \union as
    /\ rows' = rows \union as

\* mint() begins.
MintReserves(k) ==
    /\ keeperPc[k] = "reserve"
    /\ \E as \in SUBSET Fresh : Reserve(k, as) /\ minting' = [minting EXCEPT ![k] = as]
    /\ KeeperAt(k, "submit")
    /\ UNCHANGED <<ready, claimed, inlined, exists, inFlight, unconfirmed, healing, count, faultVars>>

MintEnds(k) ==
    /\ KeeperAt(k, "idle")
    /\ count' = [count EXCEPT ![k] = 0]
    /\ minting' = [minting EXCEPT ![k] = {}]

\* The insert errs, its rows written or not (or, in the model, another process has used up the
\* keypairs): nothing is submitted.
MintGivesUp(k) ==
    /\ keeperPc[k] = "reserve"
    /\ \/ Lose /\ UNCHANGED <<minted, rows>>
       \/ Lose /\ \E as \in SUBSET Fresh : Reserve(k, as)
       \/ Cardinality(Fresh) < count[k] /\ UNCHANGED <<minted, rows, faultVars>>
    /\ MintEnds(k)
    /\ UNCHANGED <<ready, claimed, inlined, exists, inFlight, unconfirmed, healing>>

\* ProvisionBatch: all accounts of the batch are created, ...
MintLands(k) ==
    /\ keeperPc[k] = "submit"
    /\ exists' = exists \union minting[k]
    /\ KeeperAt(k, "mark")
    /\ UNCHANGED <<Table, minted, inlined, inFlight, unconfirmed, healing, count, minting, faultVars>>

\* ... or an error comes back: nothing happened, or it did and the answer was lost, or it
\* may still.  The rows stay, unready.
MintFails(k) ==
    /\ keeperPc[k] = "submit"
    /\ Lose
    /\ \/ UNCHANGED <<exists, inFlight>>
       \/ exists' = exists \union minting[k] /\ UNCHANGED inFlight
       \/ inFlight' = inFlight \union {minting[k]} /\ UNCHANGED exists
    /\ MintEnds(k)
    /\ UNCHANGED <<Table, minted, inlined, unconfirmed, healing>>

\* mint() ends: the batch is ready, unless the statement fails.
MintMarks(k) ==
    /\ keeperPc[k] = "mark"
    /\ \/ MarkPoolReady(minting[k]) /\ UNCHANGED faultVars
       \/ Lose /\ UNCHANGED Table
    /\ MintEnds(k)
    /\ UNCHANGED <<Ledger, unconfirmed, healing>>

\* The keeper is cut short; a submission it was waiting for may still land.
KeeperCrash(k) ==
    /\ keeperPc[k] # "idle"
    /\ Crash
    /\ \/ UNCHANGED inFlight
       \/ keeperPc[k] = "submit" /\ inFlight' = inFlight \union {minting[k]}
    /\ MintEnds(k)
    /\ unconfirmed' = [unconfirmed EXCEPT ![k] = {}]
    /\ healing' = [healing EXCEPT ![k] = {}]
    /\ UNCHANGED <<Table, minted, inlined, exists>>

\* A batch that timed out reaches a ledger, or its time bounds run out.
BatchLands ==
    /\ \E as \in inFlight :
        /\ exists' = exists \union as
        /\ inFlight' = inFlight \ {as}
    /\ UNCHANGED <<Table, minted, inlined, keeperVars, faultVars>>

BatchExpires ==
    /\ \E as \in inFlight : inFlight' = inFlight \ {as}
    /\ UNCHANGED <<Table, minted, inlined, exists, keeperVars, faultVars>>

KeeperSteps(k) ==
    \/ KeeperPass(k) \/ HealReads(k) \/ HealAdopts(k) \/ HealDrops(k)
    \/ CountReady(k) \/ MintReserves(k) \/ MintGivesUp(k) \/ MintLands(k) \/ MintMarks(k)

=============================================================================
