---------------------------- MODULE OrderPromise ----------------------------
(***************************************************************************)
(* What the service promises about the money of an order, without states,  *)
(* workers, rows or retries: the payer's USDC is held until it is decided, *)
(* once, that the order is disbursed or refunded; it is disbursed only     *)
(* with the merchant paid and refunded only with the merchant not paid;    *)
(* and the USDC then goes to treasury or back to the payer, never both.    *)
(***************************************************************************)
CONSTANT Orders

VARIABLES funds,        \* where the payer's USDC is
          merchantPaid, \* has the NGN reached the merchant?
          decision      \* the financial outcome
promiseVars == <<funds, merchantPaid, decision>>

Init ==
    /\ funds = [o \in Orders |-> "none"]
    /\ merchantPaid = [o \in Orders |-> FALSE]
    /\ decision = [o \in Orders |-> ""]

Undecided(o) == funds[o] = "held" /\ decision[o] = ""
Decide(o, d) == decision' = [decision EXCEPT ![o] = d]
MoveFunds(o, place) == funds' = [funds EXCEPT ![o] = place]

Arrive(o) ==
    /\ funds[o] = "none"
    /\ MoveFunds(o, "held")
    /\ UNCHANGED <<merchantPaid, decision>>

PayMerchant(o) ==
    /\ Undecided(o) /\ ~merchantPaid[o]
    /\ merchantPaid' = [merchantPaid EXCEPT ![o] = TRUE]
    /\ UNCHANGED <<funds, decision>>

DecideDisbursed(o) ==
    /\ Undecided(o) /\ merchantPaid[o]
    /\ Decide(o, "disbursed")
    /\ UNCHANGED <<funds, merchantPaid>>

DecideRefunded(o) ==
    /\ Undecided(o) /\ ~merchantPaid[o]
    /\ Decide(o, "refunded")
    /\ UNCHANGED <<funds, merchantPaid>>

Collect(o) ==
    /\ funds[o] = "held" /\ decision[o] = "disbursed"
    /\ MoveFunds(o, "treasury")
    /\ UNCHANGED <<merchantPaid, decision>>

GiveBack(o) ==
    /\ funds[o] = "held" /\ decision[o] = "refunded"
    /\ MoveFunds(o, "payer")
    /\ UNCHANGED <<merchantPaid, decision>>

Next == \E o \in Orders :
    Arrive(o) \/ PayMerchant(o) \/ DecideDisbursed(o) \/ DecideRefunded(o) \/ Collect(o) \/ GiveBack(o)

Spec == Init /\ [][Next]_promiseVars

=============================================================================
