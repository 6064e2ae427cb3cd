------------------------------ MODULE MCServer ------------------------------
(***************************************************************************)
(* The API server: order creation over the pool, the money of a quote, a   *)
(* payer's sponsored payment, and the sponsor's sequence number, which the *)
(* server and the worker draw on.  They share no state but the budgets of  *)
(* Faults, so a run explores one at a time, with the others at rest; that  *)
(* checks each of them as a run of its own would.                          *)
(***************************************************************************)
EXTENDS OrderCreation, Sponsor, FeeBump, Quotes

VARIABLE focus
creationSide == <<poolVars, keeperVars, creationVars>>
serverVars == <<focus, faultVars, creationSide, sponsorVars, feeBumpVars, quoteVars>>

\* Order creation at rest: the keeper has filled the pool, and nobody asks.
CreationRests ==
    LET spare == CHOOSE a \in Accounts : TRUE
    IN /\ rows = {spare} /\ ready = {spare} /\ minted = {spare} /\ exists = {spare}
       /\ claimed = {} /\ inlined = {} /\ inFlight = {}
       /\ keeperPc = [k \in Keepers |-> "idle"]
       /\ unconfirmed = [k \in Keepers |-> {}] /\ healing = [k \in Keepers |-> {}]
       /\ count = [k \in Keepers |-> 0] /\ minting = [k \in Keepers |-> {}]
       /\ orders = {} /\ answers = {}
       /\ reqPc = [h \in Handlers |-> "idle"] /\ reqKey = [h \in Handlers |-> NoRequest]
       /\ reqAccount = [h \in Handlers |-> {}] /\ pooled = [h \in Handlers |-> FALSE]
       /\ misses = [h \in Handlers |-> 0]

ServerInit ==
    /\ \/ focus = "creation" /\ Init
       \/ focus \in {"sponsor", "feebump", "quotes"} /\ CreationRests /\ FaultsInit
    /\ SponsorInit /\ FeeBumpInit /\ QuotesInit

InCreation(A) ==
    focus = "creation" /\ A /\ UNCHANGED <<focus, sponsorVars, feeBumpVars, quoteVars>>
InSponsor(A) ==
    focus = "sponsor" /\ A /\ UNCHANGED <<focus, creationSide, feeBumpVars, quoteVars>>
InFeeBump(A) ==
    focus = "feebump" /\ A /\ UNCHANGED <<focus, creationSide, sponsorVars, quoteVars>>
InQuotes(A) ==
    focus = "quotes" /\ A /\ UNCHANGED <<focus, faultVars, creationSide, sponsorVars, feeBumpVars>>

\* A credited order, and a sponsor nobody calls any more: the two that come to an end.
Finished ==
    /\ \/ focus = "quotes" /\ quotePc = "credited"
       \/ focus = "sponsor" /\ pending = {} /\ \A c \in Calls : callPc[c] = "returned"
    /\ UNCHANGED serverVars

ServerNext ==
    \/ InCreation(Next) \/ InSponsor(SponsorNext) \/ InFeeBump(FeeBumpNext) \/ InQuotes(QuotesNext)
    \/ Finished

\* FairSpec of OrderCreation, for the keepers; the others need no fairness.
ServerSpec ==
    /\ ServerInit /\ [][ServerNext]_serverVars
    /\ \A k \in Keepers : WF_serverVars(InCreation(KeeperSteps(k) /\ UNCHANGED creationVars))

\* The types of all four.
ServerTypeOK == TypeOK /\ SponsorTypeOK /\ FeeBumpTypeOK

=============================================================================
