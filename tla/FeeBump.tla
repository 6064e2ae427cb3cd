------------------------------ MODULE FeeBump ------------------------------
(***************************************************************************)
(* Sponsored payments: handleSubmit and isAwaitingDeposit of               *)
(* internal/api/api.go, FeeBumpAndSubmit of internal/stellar/feebump.go.   *)
(* A payer signs a payment to one order's address and has it submitted; he *)
(* signs another when he is told that nothing was sent.  The sponsor pays  *)
(* the fee of the outer transaction, which takes none of its sequence      *)
(* numbers.                                                                *)
(***************************************************************************)
EXTENDS Faults

CONSTANT Payers

VARIABLES expecting,  \* payers whose order awaits a deposit
          submitPc,
          charged,    \* how often a payment landed
          unresolved, \* payments nobody waits for any more and the ledger may still take
          told        \* payers who were given a hash
feeBumpVars == <<expecting, submitPc, charged, unresolved, told>>

FeeBumpTypeOK ==
    /\ expecting \subseteq Payers /\ told \subseteq Payers
    /\ submitPc \in [Payers -> {"idle", "check", "submit"}]
    /\ charged \in [Payers -> Nat] /\ unresolved \in [Payers -> Nat]

FeeBumpInit ==
    /\ expecting = Payers
    /\ submitPc = [p \in Payers |-> "idle"]
    /\ charged = [p \in Payers |-> 0]
    /\ unresolved = [p \in Payers |-> 0]
    /\ told = {}

SubmitAt(p, pc) == submitPc' = [submitPc EXCEPT ![p] = pc]
Charge(p) == charged' = [charged EXCEPT ![p] = @ + 1]

\* A payer who has not been given a hash submits a payment.
PayerSigns(p) ==
    /\ submitPc[p] = "idle"
    /\ p \notin told
    /\ SubmitAt(p, "check")
    /\ UNCHANGED <<expecting, charged, unresolved, told, faultVars>>

\* isAwaitingDeposit: nothing is sponsored that no order waits for, or that cannot be looked up.
ChecksAwaiting(p) ==
    /\ submitPc[p] = "check"
    /\ \/ p \in expecting /\ SubmitAt(p, "submit") /\ UNCHANGED faultVars
       \/ p \notin expecting /\ SubmitAt(p, "idle") /\ UNCHANGED faultVars
       \/ Lose /\ SubmitAt(p, "idle")
    /\ UNCHANGED <<expecting, charged, unresolved, told>>

\* Mutant: a payment that landed is answered as one that did not.
BumpLandsUntold(p) ==
    /\ submitPc[p] = "submit"
    /\ SubmitAt(p, "idle")
    /\ Charge(p)
    /\ UNCHANGED <<expecting, unresolved, told, faultVars>>

BumpLands(p) ==
    /\ submitPc[p] = "submit"
    /\ SubmitAt(p, "idle")
    /\ Charge(p)
    /\ told' = told \union {p}
    /\ UNCHANGED <<expecting, unresolved, faultVars>>

\* The ledger refuses the payment, and the answer "nothing was sent" is right.
BumpRefused(p) ==
    /\ submitPc[p] = "submit"
    /\ SubmitAt(p, "idle")
    /\ UNCHANGED <<expecting, charged, unresolved, told, faultVars>>

\* Nobody waits for the answer any more: the payment has landed, or is still on its way.
Unheard(p) ==
    \/ Charge(p) /\ UNCHANGED unresolved
    \/ unresolved' = [unresolved EXCEPT ![p] = @ + 1] /\ UNCHANGED charged

\* Any other error is answered "nothing was sent" as well.
BumpFails(p) ==
    /\ submitPc[p] = "submit"
    /\ Lose
    /\ SubmitAt(p, "idle")
    /\ Unheard(p)
    /\ UNCHANGED <<expecting, told>>

\* The ledger takes a payment late, or never.
UnresolvedEnds(p) ==
    /\ unresolved[p] > 0
    /\ unresolved' = [unresolved EXCEPT ![p] = @ - 1]
    /\ Charge(p) \/ UNCHANGED charged
    /\ UNCHANGED <<expecting, submitPc, told, faultVars>>

\* The order is credited, or expires, with a payment checked and not submitted yet.
OrderMovesOn(p) ==
    /\ expecting' = expecting \ {p}
    /\ UNCHANGED <<submitPc, charged, unresolved, told, faultVars>>

\* The server dies while it serves a request, and the payer never hears of it.
SubmitCrash(p) ==
    /\ submitPc[p] # "idle"
    /\ Crash
    /\ SubmitAt(p, "idle")
    /\ \/ UNCHANGED <<charged, unresolved>>
       \/ submitPc[p] = "submit" /\ Unheard(p)
    /\ UNCHANGED <<expecting, told>>

FeeBumpNext ==
    \E p \in Payers :
        \/ PayerSigns(p) \/ ChecksAwaiting(p) \/ BumpLands(p) \/ BumpRefused(p) \/ BumpFails(p)
        \/ UnresolvedEnds(p) \/ OrderMovesOn(p) \/ SubmitCrash(p)

FeeBumpSpec == FeeBumpInit /\ FaultsInit /\ [][FeeBumpNext]_<<feeBumpVars, faultVars>>

-----------------------------------------------------------------------------
\* Payments that may be charged although their payer was told otherwise, or nothing.
ChargedUntold(p) == charged[p] + unresolved[p] - (IF p \in told THEN 1 ELSE 0)

\* A payer who pays again only because he was told that nothing was sent is charged once, and at
\* most once more for each answer or process that was lost: that often, and no more, the sentence
\* "nothing was sent" (handleSubmit) may be wrong.
ChargedOncePerLoss ==
    \A p \in Payers : ChargedUntold(p) <= losses + crashes

=============================================================================
