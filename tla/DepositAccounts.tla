-------------------------- MODULE DepositAccounts --------------------------
(***************************************************************************)
(* The single-use deposit accounts on the Stellar ledger, the payers who   *)
(* fund them and the one transaction that empties and closes each of them: *)
(* internal/stellar/sweep.go and query.go.  The ledger itself is external; *)
(* what it accepts is what the comments of Reclaim and Sweep rely on.      *)
(***************************************************************************)
EXTENDS OrderStore

VARIABLES accountOpen,  \* does the deposit account exist?
          balance,      \* USDC in it
          treasury,     \* USDC of this order that reached treasury
          returned,     \* USDC of this order that went back to the payer
          pending       \* submissions whose answer timed out, not yet in a ledger
ledgerVars == <<accountOpen, balance, treasury, returned, pending>>

\* The teardown transaction: pay `amount` to `to`, drop the trustline, merge the
\* account.  With amount 0 the payment is left out (Sweep of an empty account, Reclaim).
Teardowns == [to : {"treasury", "payer", "sponsor"}, amount : Units]

\* Everything payers ever sent to this order's address.
Sent(o) == balance[o] + treasury[o] + returned[o]

LedgerTypeOK ==
    /\ accountOpen \in [Orders -> BOOLEAN]
    /\ balance \in [Orders -> Units]
    /\ treasury \in [Orders -> Units]
    /\ returned \in [Orders -> Units]
    /\ pending \in [Orders -> SUBSET Teardowns]
    /\ \A o \in Orders : Sent(o) <= MaxUnits

LedgerInit ==
    /\ accountOpen = [o \in Orders |-> TRUE]
    /\ balance = [o \in Orders |-> 0]
    /\ treasury = [o \in Orders |-> 0]
    /\ returned = [o \in Orders |-> 0]
    /\ pending = [o \in Orders |-> {}]

\* A payer sends a unit: on time, late, or a second time, as long as the account exists.
PayerSends(o) ==
    /\ accountOpen[o]
    /\ Sent(o) < MaxUnits
    /\ balance' = [balance EXCEPT ![o] = @ + 1]
    /\ UNCHANGED <<accountOpen, treasury, returned, pending>>

\* The ledger takes the whole transaction or none of it: a payment above the balance
\* is underfunded, and the trustline cannot go while anything is left on it.
LedgerAccepts(o, tx) == accountOpen[o] /\ balance[o] = tx.amount

Teardown(o, tx) ==
    /\ accountOpen' = [accountOpen EXCEPT ![o] = FALSE]
    /\ balance' = [balance EXCEPT ![o] = 0]
    /\ treasury' = [treasury EXCEPT ![o] = IF tx.to = "treasury" THEN @ + tx.amount ELSE @]
    /\ returned' = [returned EXCEPT ![o] = IF tx.to = "payer" THEN @ + tx.amount ELSE @]

\* A submission that Horizon gave up waiting for reaches a ledger after all.
PendingLands(o) ==
    \E tx \in pending[o] :
        /\ LedgerAccepts(o, tx)
        /\ Teardown(o, tx)
        /\ pending' = [pending EXCEPT ![o] = @ \ {tx}]

\* ... or its 180 second time bounds run out, or the ledger refuses it.
PendingExpires(o) ==
    \E tx \in pending[o] :
        /\ pending' = [pending EXCEPT ![o] = @ \ {tx}]
        /\ UNCHANGED <<accountOpen, balance, treasury, returned>>

=============================================================================
