---------------------------- MODULE ServerProofs ----------------------------
(***************************************************************************)
(* What the API server rests on beside order creation: the sponsor's       *)
(* sequence number (Sponsor), a payer's sponsored payment (FeeBump) and    *)
(* the money of a quote (Quotes), each for every value of its constants;   *)
(* and the server as a whole (MCServer), with CreationProofs for its pool. *)
(***************************************************************************)
EXTENDS MCServer, CreationProofs

-----------------------------------------------------------------------------
(* Sponsor.  A call that submits has loaded a sequence number that already  *)
(* counts the refusals before it, so the next refusal is a step of somebody *)
(* else that it does not count yet.                                         *)

\* What a call knows of the sequence number.
KeepsPace(c) ==
    /\ loaded[c] <= sequence
    /\ first[c] + refusals[c] <= sequence
    /\ callPc[c] = "waiting" => refusals[c] = 0
    /\ callPc[c] \in {"load", "submit"} => refusals[c] < sponsorSubmitAttempts
    /\ callPc[c] = "submit" => first[c] + refusals[c] <= loaded[c]

SponsorInv == SponsorTypeOK /\ \A c \in Calls : KeepsPace(c)

LEMMA SponsorInitInv == SponsorInit => SponsorInv
  BY SponsorAssumptions DEF SponsorInit, SponsorInv, SponsorTypeOK, KeepsPace, Pendings

LEMMA SponsorNextInv == SponsorInv /\ [SponsorNext]_<<sponsorVars, faultVars>> => SponsorInv'
  <1> SUFFICES ASSUME SponsorInv, [SponsorNext]_<<sponsorVars, faultVars>> PROVE SponsorInv'
    OBVIOUS
  <1> USE SponsorAssumptions DEF SponsorInv
  <1>1. ASSUME NEW c \in Calls, Locks(c) PROVE SponsorInv'
    <2>1. SponsorTypeOK'
      BY <1>1 DEF Locks, sponsorLedger, SponsorTypeOK
    <2>2. \A d \in Calls : KeepsPace(d)'
      BY <1>1 DEF Locks, sponsorLedger, SponsorTypeOK, KeepsPace
    <2> QED
      BY <2>1, <2>2
  <1>2. ASSUME NEW c \in Calls, LoadsSequence(c) PROVE SponsorInv'
    <2>1. SponsorTypeOK'
      BY <1>2 DEF LoadsSequence, sponsorLedger, SponsorTypeOK
    <2>2. \A d \in Calls : KeepsPace(d)'
      BY <1>2 DEF LoadsSequence, sponsorLedger, SponsorTypeOK, KeepsPace
    <2> QED
      BY <2>1, <2>2
  <1>3. ASSUME NEW c \in Calls, LoadSequenceFails(c) PROVE SponsorInv'
    <2>1. SponsorTypeOK'
      BY <1>3 DEF LoadSequenceFails, CallReturns, sponsorLedger, SponsorTypeOK
    <2>2. \A d \in Calls : KeepsPace(d)'
      BY <1>3 DEF LoadSequenceFails, CallReturns, sponsorLedger, SponsorTypeOK, KeepsPace
    <2> QED
      BY <2>1, <2>2
  <1>4. ASSUME NEW c \in Calls, SubmitLands(c) PROVE SponsorInv'
    <2>1. SponsorTypeOK'
      BY <1>4 DEF SubmitLands, Applies, CallReturns, SponsorTypeOK
    <2>2. \A d \in Calls : KeepsPace(d)'
      BY <1>4 DEF SubmitLands, Applies, CallReturns, SponsorTypeOK, KeepsPace
    <2> QED
      BY <2>1, <2>2
  <1>5. ASSUME NEW c \in Calls, SubmitRefused(c) PROVE SponsorInv'
    <2>1. loaded[c] < sequence /\ refusals[c] < sponsorSubmitAttempts
      BY <1>5 DEF SubmitRefused, IsNext, SponsorTypeOK, KeepsPace
    <2>2. SponsorTypeOK'
      BY <1>5, <2>1 DEF SubmitRefused, CallReturns, sponsorLedger, SponsorTypeOK
    <2>3. ASSUME NEW d \in Calls, d # c PROVE KeepsPace(d)'
      BY <1>5, <2>3 DEF SubmitRefused, CallReturns, sponsorLedger, SponsorTypeOK, KeepsPace
    <2>4. KeepsPace(c)'
      BY <1>5, <2>1 DEF SubmitRefused, CallReturns, sponsorLedger, SponsorTypeOK, KeepsPace
    <2> QED
      BY <2>2, <2>3, <2>4
  <1>6. ASSUME NEW c \in Calls, SubmitFails(c) \/ ClientCrash(c) PROVE SponsorInv'
    <2>1. sequence' \in {sequence, sequence + 1}
      BY <1>6 DEF SubmitFails, ClientCrash
    <2>2. pending' \subseteq Pendings
      BY <1>6 DEF SubmitFails, ClientCrash, StaysPending, SponsorTypeOK, Pendings
    <2>3. SponsorTypeOK'
      BY <1>6, <2>1, <2>2 DEF SubmitFails, ClientCrash, CallReturns, SponsorTypeOK
    <2>4. \A d \in Calls : KeepsPace(d)'
      BY <1>6, <2>1 DEF SubmitFails, ClientCrash, CallReturns, SponsorTypeOK, KeepsPace
    <2> QED
      BY <2>3, <2>4
  <1>7. CASE PendingApplies
    <2>1. PICK p \in pending : Applies(p.call) /\ pending' = pending \ {p} /\ UNCHANGED callVars
      BY <1>7 DEF PendingApplies
    <2>2. p.call \in Calls
      BY DEF SponsorTypeOK, Pendings
    <2>3. SponsorTypeOK'
      BY <2>1, <2>2 DEF Applies, callVars, SponsorTypeOK
    <2>4. \A d \in Calls : KeepsPace(d)'
      BY <2>1 DEF Applies, callVars, SponsorTypeOK, KeepsPace
    <2> QED
      BY <2>3, <2>4
  <1>8. CASE PendingDies
    BY <1>8 DEF PendingDies, callVars, SponsorTypeOK, KeepsPace
  <1>9. CASE UNCHANGED <<sponsorVars, faultVars>>
    BY <1>9 DEF sponsorVars, sponsorLedger, callVars, SponsorTypeOK, KeepsPace
  <1> QED
    BY <1>1, <1>2, <1>3, <1>4, <1>5, <1>6, <1>7, <1>8, <1>9 DEF SponsorNext

\* Every refusal submitSponsored retries is a transaction of somebody else that went through
\* while it was at work, for any number of processes, calls and attempts.
THEOREM RefusalsAreProgress == SponsorSpec => []CollisionMeansProgress
  <1>1. SponsorInit => SponsorInv
    BY SponsorInitInv
  <1>2. SponsorInv /\ [SponsorNext]_<<sponsorVars, faultVars>> => SponsorInv'
    BY SponsorNextInv
  <1>3. SponsorInv => CollisionMeansProgress
    BY DEF SponsorInv, KeepsPace, CollisionMeansProgress
  <1> QED
    BY <1>1, <1>2, <1>3, PTL DEF SponsorSpec

-----------------------------------------------------------------------------
(* The promise.  Until a call returns nothing of it was applied or is on    *)
(* its way; afterwards one transaction at most is, and its call was told    *)
(* of an error.                                                             *)

NothingSentYet ==
    \A c \in Calls : callPc[c] # "returned" =>
        applied[c] = 0 /\ answer[c] = "none" /\ \A p \in pending : p.call # c

OneOnItsWay ==
    /\ \A p \in pending : applied[p.call] = 0 /\ answer[p.call] = "error"
    /\ \A p, q \in pending : p.call = q.call => p = q

PromiseInv == SponsorInv /\ NothingSentYet /\ OneOnItsWay

LEMMA PromiseInitInv == SponsorInit => PromiseInv
  BY SponsorInitInv DEF SponsorInit, PromiseInv, NothingSentYet, OneOnItsWay

\* A call that has not returned answers, with nothing on its way.
LEMMA AnswerKeepsPromise ==
    ASSUME PromiseInv, NEW c \in Calls, callPc[c] # "returned",
           NEW a, CallReturns(c, a), UNCHANGED pending,
           \A d \in Calls : d # c => applied'[d] = applied[d]
    PROVE  NothingSentYet' /\ OneOnItsWay'
  <1>1. \A p \in pending : p.call \in Calls /\ p.call # c
    BY DEF PromiseInv, SponsorInv, SponsorTypeOK, Pendings, NothingSentYet
  <1> QED
    BY <1>1 DEF PromiseInv, SponsorInv, SponsorTypeOK, CallReturns, NothingSentYet, OneOnItsWay

LEMMA PromiseNextInv == PromiseInv /\ [SponsorNext]_<<sponsorVars, faultVars>> => PromiseInv'
  <1> SUFFICES ASSUME PromiseInv, [SponsorNext]_<<sponsorVars, faultVars>>
               PROVE  NothingSentYet' /\ OneOnItsWay'
    BY SponsorNextInv DEF PromiseInv
  <1>1. SponsorTypeOK
    BY DEF PromiseInv, SponsorInv
  <1>2. ASSUME NEW c \in Calls, Locks(c) \/ LoadsSequence(c) PROVE NothingSentYet' /\ OneOnItsWay'
    BY <1>1, <1>2 DEF Locks, LoadsSequence, sponsorLedger, SponsorTypeOK, PromiseInv, NothingSentYet,
                      OneOnItsWay
  <1>3. ASSUME NEW c \in Calls, LoadSequenceFails(c) PROVE NothingSentYet' /\ OneOnItsWay'
    BY <1>3, AnswerKeepsPromise DEF LoadSequenceFails, sponsorLedger
  <1>4. ASSUME NEW c \in Calls, SubmitLands(c) PROVE NothingSentYet' /\ OneOnItsWay'
    <2>1. \A d \in Calls : d # c => applied'[d] = applied[d]
      BY <1>1, <1>4 DEF SubmitLands, Applies, SponsorTypeOK
    <2> QED
      BY <1>4, <2>1, AnswerKeepsPromise DEF SubmitLands
  <1>5. ASSUME NEW c \in Calls, SubmitRefused(c) PROVE NothingSentYet' /\ OneOnItsWay'
    <2>1. CASE CallReturns(c, "bad_seq")
      BY <1>5, <2>1, AnswerKeepsPromise DEF SubmitRefused, sponsorLedger
    <2>2. CASE callPc' = [callPc EXCEPT ![c] = "load"] /\ UNCHANGED answer
      BY <1>1, <1>5, <2>2 DEF SubmitRefused, sponsorLedger, SponsorTypeOK, PromiseInv, NothingSentYet,
                              OneOnItsWay
    <2> QED
      BY <1>5, <2>1, <2>2 DEF SubmitRefused
  <1>6. ASSUME NEW c \in Calls, SubmitFails(c) \/ ClientCrash(c)
        PROVE  NothingSentYet' /\ OneOnItsWay'
    <2>0. callPc[c] # "returned" /\ CallReturns(c, "error") /\ UNCHANGED applied
      BY <1>6 DEF SubmitFails, ClientCrash, Holds
    <2>1. CASE UNCHANGED pending
      BY <2>0, <2>1, AnswerKeepsPromise
    <2>2. CASE StaysPending(c)
      <3> DEFINE sent == [call |-> c, seq |-> loaded[c] + 1]
      <3>1. sent.call = c
        OBVIOUS
      <3>2. pending' = pending \union {sent}
        BY <2>2 DEF StaysPending
      <3>3. \A p \in pending : p.call \in Calls /\ p.call # c
        BY <1>1, <2>0 DEF SponsorTypeOK, Pendings, PromiseInv, NothingSentYet
      <3>4. /\ callPc' = [callPc EXCEPT ![c] = "returned"]
            /\ answer' = [answer EXCEPT ![c] = "error"]
            /\ applied' = applied /\ applied[c] = 0
        BY <2>0 DEF CallReturns, PromiseInv, NothingSentYet
      <3> HIDE DEF sent
      <3> QED
        BY <1>1, <3>1, <3>2, <3>3, <3>4 DEF SponsorTypeOK, PromiseInv, NothingSentYet, OneOnItsWay
    <2> QED
      BY <1>6, <2>1, <2>2 DEF SubmitFails, ClientCrash
  <1>7. CASE PendingApplies
    <2>1. PICK p \in pending : Applies(p.call) /\ pending' = pending \ {p} /\ UNCHANGED callVars
      BY <1>7 DEF PendingApplies
    <2>2. \A q \in pending' : q.call # p.call
      BY <2>1 DEF PromiseInv, OneOnItsWay
    <2> QED
      BY <1>1, <2>1, <2>2 DEF Applies, callVars, SponsorTypeOK, Pendings, PromiseInv, NothingSentYet,
                              OneOnItsWay
  <1>8. CASE PendingDies
    BY <1>8 DEF PendingDies, callVars, PromiseInv, NothingSentYet, OneOnItsWay
  <1>9. CASE UNCHANGED <<sponsorVars, faultVars>>
    BY <1>9 DEF sponsorVars, sponsorLedger, callVars, PromiseInv, NothingSentYet, OneOnItsWay
  <1> QED
    BY <1>2, <1>3, <1>4, <1>5, <1>6, <1>7, <1>8, <1>9 DEF SponsorNext

LEMMA SponsorStepKeepsPromise ==
    ASSUME PromiseInv, [SponsorNext]_<<sponsorVars, faultVars>>
    PROVE  [Promise!Next]_(Promise!promiseVars)
  <1> USE DEF Promise!promiseVars
  <1>1. SponsorTypeOK
    BY DEF PromiseInv, SponsorInv
  <1>2. ASSUME NEW c \in Calls, Locks(c) \/ LoadsSequence(c) PROVE UNCHANGED Promise!promiseVars
    BY <1>2 DEF Locks, LoadsSequence, sponsorLedger
  <1>3. ASSUME NEW c \in Calls, LoadSequenceFails(c) \/ ClientCrash(c) PROVE Promise!Next
    BY <1>3 DEF LoadSequenceFails, ClientCrash, Holds, CallReturns, sponsorLedger, PromiseInv,
                NothingSentYet, Promise!Next, Promise!Answers
  <1>4. ASSUME NEW c \in Calls, SubmitLands(c) PROVE Promise!Next
    <2>1. applied[c] = 0 /\ answer[c] = "none"
      BY <1>4 DEF SubmitLands, PromiseInv, NothingSentYet
    <2>2. applied' = [applied EXCEPT ![c] = 1]
      BY <1>1, <1>4, <2>1 DEF SubmitLands, Applies, SponsorTypeOK
    <2>3. \E a \in {"hash", "error"} : answer' = [answer EXCEPT ![c] = a]
      BY <1>4 DEF SubmitLands, CallReturns
    <2> QED
      BY <2>1, <2>2, <2>3 DEF Promise!Next, Promise!Apply, Promise!Answers
  <1>5. ASSUME NEW c \in Calls, SubmitRefused(c)
        PROVE  Promise!Next \/ UNCHANGED Promise!promiseVars
    BY <1>5 DEF SubmitRefused, CallReturns, sponsorLedger, PromiseInv, NothingSentYet,
                Promise!Next, Promise!Answers
  <1>6. ASSUME NEW c \in Calls, SubmitFails(c) PROVE Promise!Next
    BY <1>6 DEF SubmitFails, CallReturns, PromiseInv, NothingSentYet, Promise!Next, Promise!Answers
  <1>7. CASE PendingApplies
    <2>1. PICK p \in pending : Applies(p.call) /\ UNCHANGED callVars
      BY <1>7 DEF PendingApplies
    <2>2. p.call \in Calls /\ applied[p.call] = 0 /\ answer[p.call] = "error"
      BY <1>1 DEF SponsorTypeOK, Pendings, PromiseInv, OneOnItsWay
    <2>3. applied' = [applied EXCEPT ![p.call] = 1]
      BY <1>1, <2>1, <2>2 DEF Applies, SponsorTypeOK
    <2>4. Promise!Apply(p.call) /\ UNCHANGED answer
      BY <2>1, <2>2, <2>3 DEF Promise!Apply, callVars
    <2> QED
      BY <2>2, <2>4 DEF Promise!Next
  <1>8. CASE PendingDies
    BY <1>8 DEF PendingDies, callVars
  <1>9. CASE UNCHANGED <<sponsorVars, faultVars>>
    BY <1>9 DEF sponsorVars, sponsorLedger, callVars
  <1> QED
    BY <1>2, <1>3, <1>4, <1>5, <1>6, <1>7, <1>8, <1>9 DEF SponsorNext

\* submitSponsored implements SubmissionPromise: a call's operations are applied once at most, a
\* hash means that they were and a refused sequence number that they never will be, whatever
\* collides, times out, is taken late or dies.
THEOREM SubmissionIsPromised == SponsorSpec => SubmitsOnce
  <1>1. SponsorInit => PromiseInv
    BY PromiseInitInv
  <1>2. PromiseInv /\ [SponsorNext]_<<sponsorVars, faultVars>> => PromiseInv'
    BY PromiseNextInv
  <1>3. SponsorInit => Promise!Init
    BY DEF SponsorInit, Promise!Init
  <1>4. PromiseInv /\ [SponsorNext]_<<sponsorVars, faultVars>>
            => [Promise!Next]_(Promise!promiseVars)
    BY SponsorStepKeepsPromise
  <1> QED
    BY <1>1, <1>2, <1>3, <1>4, PTL DEF SponsorSpec, SubmitsOnce, Promise!Spec

-----------------------------------------------------------------------------
(* Sponsored payments.  A payer who was given a hash is done, so the one    *)
(* payment he knows of is never counted twice.                              *)

FeeBumpInv ==
    /\ FeeBumpTypeOK
    /\ losses \in Nat /\ crashes \in Nat
    /\ \A p \in told : submitPc[p] = "idle"
    /\ ChargedOncePerLoss

\* A step of one payer that charges him at most one payment more than he is told of, and only
\* with a fault.
LEMMA OnePayerSteps ==
    ASSUME FeeBumpInv, NEW p \in Payers, FeeBumpTypeOK',
           losses' \in Nat, crashes' \in Nat, losses + crashes <= losses' + crashes',
           \A q \in Payers \ {p} : /\ charged'[q] = charged[q] /\ unresolved'[q] = unresolved[q]
                                   /\ submitPc'[q] = submitPc[q] /\ (q \in told' <=> q \in told),
           p \in told' => submitPc'[p] = "idle",
           ChargedUntold(p)' <= losses' + crashes'
    PROVE  FeeBumpInv'
  <1>1. ASSUME NEW q \in Payers, q # p PROVE ChargedUntold(q)' <= losses' + crashes'
    <2>1. ChargedUntold(q)' = ChargedUntold(q)
      BY <1>1 DEF ChargedUntold
    <2>2. ChargedUntold(q) \in Int /\ losses + crashes \in Int /\ losses' + crashes' \in Int
      BY DEF ChargedUntold, FeeBumpInv, FeeBumpTypeOK
    <2>3. ChargedUntold(q) <= losses + crashes
      BY DEF FeeBumpInv, ChargedOncePerLoss
    <2>4. ChargedUntold(q) <= losses' + crashes'
      BY <2>2, <2>3
    <2> QED
      BY <2>1, <2>4
  <1>2. ChargedOncePerLoss'
    BY <1>1 DEF ChargedOncePerLoss
  <1>3. \A q \in told' : submitPc'[q] = "idle"
    BY DEF FeeBumpInv, FeeBumpTypeOK
  <1> QED
    BY <1>2, <1>3 DEF FeeBumpInv

LEMMA FeeBumpNextInv == FeeBumpInv /\ [FeeBumpNext]_<<feeBumpVars, faultVars>> => FeeBumpInv'
  <1> SUFFICES ASSUME FeeBumpInv, [FeeBumpNext]_<<feeBumpVars, faultVars>> PROVE FeeBumpInv'
    OBVIOUS
  <1>0. FeeBumpTypeOK /\ losses \in Nat /\ crashes \in Nat
    BY DEF FeeBumpInv
  <1>1. ASSUME NEW p \in Payers
        PROVE  /\ ChargedUntold(p) <= losses + crashes
               /\ ChargedUntold(p) = charged[p] + unresolved[p] - (IF p \in told THEN 1 ELSE 0)
    BY DEF FeeBumpInv, ChargedOncePerLoss, ChargedUntold
  <1>2. ASSUME NEW p \in Payers, PayerSigns(p) \/ BumpRefused(p) PROVE FeeBumpInv'
    <2>1. FeeBumpTypeOK'
      BY <1>0, <1>2 DEF PayerSigns, BumpRefused, SubmitAt, FeeBumpTypeOK
    <2>2. p \in told => submitPc'[p] = "idle"
      BY <1>0, <1>2 DEF PayerSigns, BumpRefused, SubmitAt, FeeBumpTypeOK
    <2> QED
      BY <1>0, <1>1, <1>2, <2>1, <2>2, OnePayerSteps
         DEF PayerSigns, BumpRefused, SubmitAt, faultVars, FeeBumpTypeOK, ChargedUntold
  <1>3. ASSUME NEW p \in Payers, ChecksAwaiting(p) PROVE FeeBumpInv'
    <2>1. FeeBumpTypeOK'
      BY <1>0, <1>3 DEF ChecksAwaiting, SubmitAt, FeeBumpTypeOK
    <2>2. p \notin told
      BY <1>3 DEF ChecksAwaiting, FeeBumpInv
    <2>3. (losses' = losses \/ losses' = losses + 1) /\ crashes' = crashes
      BY <1>3 DEF ChecksAwaiting, Lose, faultVars
    <2>4. ChargedUntold(p)' = ChargedUntold(p)
      BY <1>3 DEF ChecksAwaiting, ChargedUntold
    <2>5. ChargedUntold(p)' <= losses' + crashes'
      BY <1>0, <1>1, <2>3, <2>4 DEF FeeBumpTypeOK
    <2>6. \A q \in Payers \ {p} : submitPc'[q] = submitPc[q]
      BY <1>0, <1>3 DEF ChecksAwaiting, SubmitAt, FeeBumpTypeOK
    <2>7. losses' \in Nat /\ crashes' \in Nat /\ losses + crashes <= losses' + crashes'
      BY <1>0, <2>3
    <2>8. UNCHANGED <<charged, unresolved, told>>
      BY <1>3 DEF ChecksAwaiting
    <2> QED
      BY <1>3, <2>1, <2>2, <2>5, <2>6, <2>7, <2>8, OnePayerSteps
  <1>4. ASSUME NEW p \in Payers, BumpLands(p) PROVE FeeBumpInv'
    <2>1. FeeBumpTypeOK'
      BY <1>0, <1>4 DEF BumpLands, SubmitAt, Charge, FeeBumpTypeOK
    <2>2. p \notin told
      BY <1>4 DEF BumpLands, FeeBumpInv
    <2> QED
      BY <1>0, <1>1, <1>4, <2>1, <2>2, OnePayerSteps
         DEF BumpLands, SubmitAt, Charge, faultVars, FeeBumpTypeOK, ChargedUntold
  <1>5. ASSUME NEW p \in Payers, BumpFails(p) PROVE FeeBumpInv'
    <2>1. FeeBumpTypeOK'
      BY <1>0, <1>5 DEF BumpFails, SubmitAt, Unheard, Charge, FeeBumpTypeOK
    <2>2. losses' = losses + 1 /\ crashes' = crashes
      BY <1>5 DEF BumpFails, Lose
    <2>3. p \notin told
      BY <1>5 DEF BumpFails, FeeBumpInv
    <2> QED
      BY <1>0, <1>1, <1>5, <2>1, <2>2, <2>3, OnePayerSteps
         DEF BumpFails, SubmitAt, Unheard, Charge, FeeBumpTypeOK, ChargedUntold
  <1>6. ASSUME NEW p \in Payers, UnresolvedEnds(p) PROVE FeeBumpInv'
    <2>1. FeeBumpTypeOK'
      BY <1>0, <1>6 DEF UnresolvedEnds, Charge, FeeBumpTypeOK
    <2>2. p \in told => submitPc[p] = "idle"
      BY DEF FeeBumpInv
    <2> QED
      BY <1>0, <1>1, <1>6, <2>1, <2>2, OnePayerSteps
         DEF UnresolvedEnds, Charge, faultVars, FeeBumpTypeOK, ChargedUntold
  <1>7. ASSUME NEW p \in Payers, OrderMovesOn(p) PROVE FeeBumpInv'
    BY <1>7 DEF OrderMovesOn, faultVars, FeeBumpInv, FeeBumpTypeOK, ChargedOncePerLoss, ChargedUntold
  <1>8. ASSUME NEW p \in Payers, SubmitCrash(p) PROVE FeeBumpInv'
    <2>1. FeeBumpTypeOK'
      BY <1>0, <1>8 DEF SubmitCrash, SubmitAt, Unheard, Charge, FeeBumpTypeOK
    <2>2. losses' = losses /\ crashes' = crashes + 1
      BY <1>8 DEF SubmitCrash, Crash
    <2>3. p \notin told
      BY <1>8 DEF SubmitCrash, FeeBumpInv
    <2>4. UNCHANGED <<charged, unresolved>> \/ Unheard(p)
      BY <1>8 DEF SubmitCrash
    <2>5. UNCHANGED told /\ submitPc' = [submitPc EXCEPT ![p] = "idle"]
      BY <1>8 DEF SubmitCrash, SubmitAt
    <2> QED
      BY <1>0, <1>1, <2>1, <2>2, <2>3, <2>4, <2>5, OnePayerSteps
         DEF Unheard, Charge, FeeBumpTypeOK, ChargedUntold
  <1>9. CASE UNCHANGED <<feeBumpVars, faultVars>>
    BY <1>9 DEF feeBumpVars, faultVars, FeeBumpInv, FeeBumpTypeOK, ChargedOncePerLoss, ChargedUntold
  <1> QED
    BY <1>2, <1>3, <1>4, <1>5, <1>6, <1>7, <1>8, <1>9 DEF FeeBumpNext

LEMMA FeeBumpInitInv == FeeBumpInit /\ FaultsInit => FeeBumpInv
  BY DEF FeeBumpInit, FaultsInit, FeeBumpInv, FeeBumpTypeOK, ChargedOncePerLoss, ChargedUntold

\* A payer who pays again only when handleSubmit told him that nothing was sent is charged once,
\* and at most once more for each answer or process that was lost.
THEOREM PayersAreChargedOncePerLoss == FeeBumpSpec => []ChargedOncePerLoss
  <1>1. FeeBumpInv => ChargedOncePerLoss
    BY DEF FeeBumpInv
  <1> QED
    BY <1>1, FeeBumpInitInv, FeeBumpNextInv, PTL DEF FeeBumpSpec

-----------------------------------------------------------------------------
(* Money.  Division is used through what it bounds; a product of two        *)
(* unknowns is named before it is compared, so that each leaf is linear.    *)

LEMMA Division ==
    ASSUME NEW a \in Nat, NEW b \in Nat \ {0}
    PROVE  /\ a \div b \in Nat
           /\ b * (a \div b) <= a
           /\ a < b * (a \div b) + b
           /\ a % b = a - b * (a \div b)
  <1>1. a \div b \in Nat
    OBVIOUS
  <1>2. b * (a \div b) <= a
    OBVIOUS
  <1>3. a < b * (a \div b) + b
    OBVIOUS
  <1>4. a % b = a - b * (a \div b)
    OBVIOUS
  <1> QED
    BY <1>1, <1>2, <1>3, <1>4

\* The quotient is the largest whole number that fits.
LEMMA QuotientIsLargest ==
    ASSUME NEW a \in Nat, NEW b \in Nat \ {0}, NEW k \in Nat, b * k <= a
    PROVE  k <= a \div b
  <1> DEFINE q == a \div b
  <1>1. q \in Nat /\ a < b * q + b
    BY Division
  <1> HIDE DEF q
  <1>2. SUFFICES ASSUME q + 1 <= k PROVE FALSE
    BY <1>1 DEF q
  <1>3. b * (q + 1) <= b * k
    BY <1>1, <1>2
  <1>4. b * (q + 1) = b * q + b
    BY <1>1
  <1> QED
    BY <1>1, <1>3, <1>4

\* roundTo is not below a number that is at most half a unit above the fraction.
LEMMA RoundToBounds ==
    ASSUME NEW a \in Nat, NEW b \in Nat \ {0}
    PROVE  /\ RoundTo(a, b) \in Nat
           /\ (2 * b) * RoundTo(a, b) <= 2 * a + b
           /\ \A k \in Nat : (2 * b) * k <= 2 * a + b => k <= RoundTo(a, b)
  <1>1. 2 * a + b \in Nat /\ 2 * b \in Nat \ {0}
    OBVIOUS
  <1>2. RoundTo(a, b) \in Nat /\ (2 * b) * RoundTo(a, b) <= 2 * a + b
    BY <1>1, Division DEF RoundTo
  <1>3. ASSUME NEW k \in Nat, (2 * b) * k <= 2 * a + b PROVE k <= RoundTo(a, b)
    BY <1>1, <1>3, QuotientIsLargest DEF RoundTo
  <1> QED
    BY <1>2, <1>3

\* What is worth more is not rounded to less.
LEMMA QuoteNGNGrows ==
    ASSUME NEW u \in Nat, NEW v \in Nat, u <= v, NEW rate, IsRate(rate)
    PROVE  /\ QuoteNGN(u, rate) \in Nat /\ QuoteNGN(v, rate) \in Nat
           /\ QuoteNGN(u, rate) <= QuoteNGN(v, rate)
  <1>1. rate.n \in Nat \ {0} /\ rate.d \in Nat \ {0}
    BY DEF IsRate
  <1> DEFINE x == u * rate.n
             y == v * rate.n
             d == rate.d
  <1>2. x \in Nat /\ y \in Nat /\ x <= y
    BY <1>1
  <1>3. QuoteNGN(u, rate) = RoundTo(x, d) /\ QuoteNGN(v, rate) = RoundTo(y, d) /\ d \in Nat \ {0}
    BY <1>1 DEF QuoteNGN
  <1> HIDE DEF x, y, d
  <1>4. /\ RoundTo(x, d) \in Nat /\ RoundTo(y, d) \in Nat
        /\ (2 * d) * RoundTo(x, d) <= 2 * x + d
    BY <1>2, <1>3, RoundToBounds
  <1>5. 2 * x + d <= 2 * y + d
    BY <1>2, <1>3
  <1>6. (2 * d) * RoundTo(x, d) <= 2 * y + d
    BY <1>2, <1>3, <1>4, <1>5
  <1> QED
    BY <1>2, <1>3, <1>4, <1>6, RoundToBounds

\* ceilTo is less than one above the fraction, and what it snaps away is below 1/SnapParts.
LEMMA CeilToBounds ==
    ASSUME NEW a \in Nat, NEW b \in Nat \ {0}
    PROVE  /\ CeilTo(a, b) \in Nat
           /\ b * (CeilTo(a, b) - 1) < a
           /\ (a - b * CeilTo(a, b)) * SnapParts < b
  <1> DEFINE q == a \div b
             r == a % b
             k == CeilTo(a, b)
  <1>1. q \in Nat /\ r \in Nat /\ r < b /\ b * q = a - r
    BY Division
  <1>2. SnapParts \in Nat \ {0}
    BY MoneyAssumptions
  <1>3. k = IF r * SnapParts < b THEN q ELSE q + 1
    BY <1>1 DEF CeilTo
  <1> HIDE DEF q, r, k
  <1>4. CASE r * SnapParts < b
    <2>1. k = q
      BY <1>3, <1>4
    <2>2. b * (k - 1) = b * q - b
      BY <1>1, <2>1
    <2>3. a - b * k = r
      BY <1>1, <2>1
    <2> QED
      BY <1>1, <1>2, <1>4, <2>1, <2>2, <2>3 DEF k
  <1>5. CASE ~(r * SnapParts < b)
    <2>1. k = q + 1 /\ k - 1 = q
      BY <1>1, <1>3, <1>5
    <2>2. r > 0
      <3>1. r = 0 => r * SnapParts = 0
        BY <1>2
      <3> QED
        BY <1>1, <1>5, <3>1
    <2>3. b * k = b * q + b
      BY <1>1, <2>1
    <2>4. a - b * k = r - b /\ r - b < 0
      BY <1>1, <2>3
    <2>5. (r - b) * SnapParts < 0
      BY <1>1, <1>2, <2>4
    <2> QED
      BY <1>1, <1>2, <2>1, <2>2, <2>4, <2>5 DEF k
  <1> QED
    BY <1>4, <1>5

\* A quote derived from NGN is worth it, and a quote unit less would not be.
LEMMA QuoteUSDCCovers ==
    ASSUME NEW ngn \in Nat, NEW rate, IsRate(rate), Ordinary(rate)
    PROVE  /\ QuoteUSDC(ngn, rate) \in Nat
           /\ QuoteNGN(QuoteUSDC(ngn, rate), rate) >= ngn
           /\ (QuoteUSDC(ngn, rate) - QuoteUnit) * rate.n < ngn * rate.d
  <1> DEFINE n == rate.n
             d == rate.d
             S == SnapParts
             Q == QuoteUnit
             a == ngn * d
             b == n * Q
             k == CeilTo(a, b)
  <1>1. n \in Nat \ {0} /\ d \in Nat \ {0} /\ S \in Nat \ {0} /\ Q \in Nat \ {0}
    BY MoneyAssumptions DEF IsRate
  <1>2. a \in Nat /\ b \in Nat \ {0} /\ 2 * b < S * d
    BY <1>1 DEF Ordinary
  <1>3. QuoteUSDC(ngn, rate) = k * Q
    BY DEF QuoteUSDC
  <1>4. ngn * rate.d = a /\ rate.n = n
    OBVIOUS
  <1> HIDE DEF k
  <1>5. k \in Nat /\ b * (k - 1) < a /\ (a - b * k) * S < b
    BY <1>2, CeilToBounds DEF k
  <1>6. (k * Q) * n = b * k /\ (k * Q - Q) * n = b * (k - 1) /\ k * Q \in Nat
    <2> HIDE DEF n, Q
    <2>1. k * Q \in Nat
      BY <1>1, <1>5
    <2>2. (k * Q) * n = (n * Q) * k
      BY <1>1, <1>5
    <2>3. k * Q - Q = (k - 1) * Q
      BY <1>1, <1>5
    <2>4. ((k - 1) * Q) * n = (n * Q) * (k - 1)
      BY <1>1, <1>5
    <2> QED
      BY <2>1, <2>2, <2>3, <2>4
  <1>7. 2 * (a - b * k) <= d
    <2> DEFINE e == a - b * k
    <2>1. e \in Int /\ e * S < b
      BY <1>1, <1>2, <1>5
    <2> HIDE DEF e, a, b
    <2>2. SUFFICES ASSUME 2 * e >= d PROVE FALSE
      BY <1>1, <2>1 DEF e
    <2>3. (2 * e) * S >= d * S
      BY <1>1, <2>1, <2>2
    <2>4. (2 * e) * S = 2 * (e * S) /\ d * S = S * d
      BY <1>1, <2>1
    <2> QED
      BY <1>1, <1>2, <2>1, <2>3, <2>4
  <1>8. (2 * d) * ngn <= 2 * ((k * Q) * n) + d
    <2>1. (2 * d) * ngn = 2 * a
      BY <1>1
    <2> HIDE DEF a, b
    <2> QED
      BY <1>1, <1>2, <1>5, <1>6, <1>7, <2>1
  <1>9. QuoteNGN(k * Q, rate) >= ngn
    <2>1. (k * Q) * n \in Nat /\ QuoteNGN(k * Q, rate) = RoundTo((k * Q) * n, d)
      BY <1>1, <1>6 DEF QuoteNGN
    <2> DEFINE x == (k * Q) * n
    <2> HIDE DEF x
    <2>2. x \in Nat /\ (2 * d) * ngn <= 2 * x + d /\ QuoteNGN(k * Q, rate) = RoundTo(x, d)
      BY <1>8, <2>1 DEF x
    <2>3. ngn <= RoundTo(x, d)
      BY <1>1, <2>2, RoundToBounds
    <2>4. RoundTo(x, d) \in Nat
      BY <1>1, <2>2, RoundToBounds
    <2> QED
      BY <2>2, <2>3, <2>4
  <1> HIDE DEF a, b
  <1> QED
    BY <1>3, <1>4, <1>5, <1>6, <1>9

\* What Reconcile pays is the quote or what arrived is worth, and it says what it falls short of.
LEMMA ReconcilePays ==
    ASSUME NEW payable \in Nat, NEW order,
           IsRate(order.rate), order.quotedUSDC \in Nat, order.quotedNGN \in Nat,
           order.manual \in BOOLEAN
    PROVE  LET worth == QuoteNGN(payable, order.rate)
               covered == order.quotedNGN = 0 \/ payable + Dust >= order.quotedUSDC
               r == Reconcile(payable, order)
           IN  /\ r.underpaid = ~covered
               /\ \/ r.payoutNGN = worth
                  \/ /\ r.payoutNGN = order.quotedNGN /\ order.quotedNGN > 0 /\ covered
                     /\ ~order.manual \/ worth < order.quotedNGN
               /\ ~covered => r.payoutNGN = worth /\ r.payoutNGN + r.shortfallNGN >= order.quotedNGN
  <1> DEFINE worth == QuoteNGN(payable, order.rate)
             covered == order.quotedNGN <= 0 \/ Covers(payable, order.quotedUSDC)
             r == Reconcile(payable, order)
  <1>1. worth \in Nat
    BY QuoteNGNGrows
  <1>2. covered <=> (order.quotedNGN = 0 \/ payable + Dust >= order.quotedUSDC)
    BY MoneyAssumptions DEF Covers
  <1>3. /\ r.payoutNGN = IF covered /\ (~order.manual \/ worth < order.quotedNGN) /\ order.quotedNGN > 0
                         THEN order.quotedNGN ELSE worth
        /\ r.underpaid = ~covered
        /\ r.shortfallNGN = IF covered THEN 0 ELSE Shortfall(order.quotedNGN, worth)
    BY DEF Reconcile
  <1> HIDE DEF worth, covered, r
  <1>4. ~covered => r.payoutNGN = worth /\ r.payoutNGN + r.shortfallNGN >= order.quotedNGN
    BY <1>1, <1>3 DEF Shortfall
  <1>5. r.underpaid = ~(order.quotedNGN = 0 \/ payable + Dust >= order.quotedUSDC)
    BY <1>2, <1>3, Zenon
  <1>6. \/ r.payoutNGN = worth
        \/ /\ r.payoutNGN = order.quotedNGN /\ order.quotedNGN > 0 /\ covered
           /\ ~order.manual \/ worth < order.quotedNGN
    BY <1>3
  <1> QED
    BY <1>2, <1>4, <1>5, <1>6 DEF worth, r

-----------------------------------------------------------------------------
(* The order remembers where its amounts come from.                         *)

Derived ==
    /\ quoted.rate \in Rates /\ quoted.quotedUSDC \in Nat /\ quoted.quotedNGN \in Nat
    /\ quoted.manual \in BOOLEAN
    /\ asked.usdc = 0 =>
         quoted.quotedUSDC = QuoteUSDC(asked.ngn, quoted.rate) /\ quoted.quotedNGN = asked.ngn
    /\ asked.ngn = 0 => quoted.quotedNGN = QuoteNGN(quoted.quotedUSDC, quoted.rate)
    /\ asked.usdc \in Nat /\ asked.ngn \in Nat /\ asked.usdc + asked.ngn > 0

QuotesInv ==
    /\ quotePc \in {"request", "watch", "credited"}
    /\ paid \in Nat
    /\ quotePc # "request" => Derived
    /\ quotePc = "credited" => credited = Reconcile(paid, quoted)

LEMMA QuoteStruckInv == QuotesInv /\ QuoteStruck => QuotesInv'
  <1> SUFFICES ASSUME QuotesInv, QuoteStruck PROVE QuotesInv'
    OBVIOUS
  <1>1. PICK usdc \in 0 .. maxUnits, ngn \in 0 .. maxKobo, rate \in Rates, manual \in BOOLEAN :
            LET amountUSDC == IF usdc = 0 THEN QuoteUSDC(ngn, rate) ELSE CeilUSDC(usdc)
                amountNGN == IF ngn = 0 THEN QuoteNGN(amountUSDC, rate) ELSE ngn
            IN /\ usdc + ngn > 0 /\ (usdc = 0 => amountUSDC > 0)
               /\ asked' = [usdc |-> usdc, ngn |-> ngn]
               /\ quoted' = [rate |-> rate, quotedUSDC |-> amountUSDC, quotedNGN |-> amountNGN,
                             manual |-> manual]
    BY DEF QuoteStruck
  <1> DEFINE amountUSDC == IF usdc = 0 THEN QuoteUSDC(ngn, rate) ELSE CeilUSDC(usdc)
             amountNGN == IF ngn = 0 THEN QuoteNGN(amountUSDC, rate) ELSE ngn
  <1>2. usdc \in Nat /\ ngn \in Nat /\ IsRate(rate) /\ Ordinary(rate)
    BY QuotesAssumptions
  <1>3. CeilUSDC(usdc) \in Nat
    BY <1>2, CeilToBounds, MoneyAssumptions DEF CeilUSDC
  <1>4. amountUSDC \in Nat
    BY <1>1, <1>2, <1>3, QuoteUSDCCovers
  <1>5. amountNGN \in Nat
    BY <1>2, <1>4, QuoteNGNGrows
  <1>6. /\ quoted'.rate = rate /\ quoted'.quotedUSDC = amountUSDC /\ quoted'.quotedNGN = amountNGN
        /\ quoted'.manual = manual /\ asked'.usdc = usdc /\ asked'.ngn = ngn /\ usdc + ngn > 0
    BY <1>1
  <1>7. usdc = 0 => ngn # 0
    BY <1>2, <1>6
  <1>8. Derived'
    BY <1>2, <1>4, <1>5, <1>6, <1>7 DEF Derived
  <1> QED
    BY <1>8 DEF QuoteStruck, QuotesInv

LEMMA QuotesNextInv == QuotesInv /\ [QuotesNext]_quoteVars => QuotesInv'
  <1> SUFFICES ASSUME QuotesInv, [QuotesNext]_quoteVars PROVE QuotesInv'
    OBVIOUS
  <1>1. CASE QuoteStruck
    BY <1>1, QuoteStruckInv
  <1>2. CASE PayerPays
    <2>1. paid' \in Nat
      BY <1>2, QuotesAssumptions DEF PayerPays, QuotesInv
    <2> QED
      BY <1>2, <2>1 DEF PayerPays, QuotesInv, Derived
  <1>3. CASE DepositReconciled
    BY <1>3 DEF DepositReconciled, QuotesInv, Derived
  <1>4. CASE UNCHANGED quoteVars
    BY <1>4 DEF quoteVars, QuotesInv, Derived
  <1> QED
    BY <1>1, <1>2, <1>3, <1>4 DEF QuotesNext

LEMMA QuotesInitInv == QuotesInit => QuotesInv
  BY DEF QuotesInit, QuotesInv

LEMMA QuotesInvCovers == QuotesInv => QuoteCoversInvoice
  <1> SUFFICES ASSUME QuotesInv, quotePc = "watch", asked.usdc = 0
               PROVE  LET r == Reconcile(quoted.quotedUSDC, quoted)
                      IN /\ QuoteNGN(quoted.quotedUSDC, quoted.rate) >= asked.ngn
                         /\ (quoted.quotedUSDC - QuoteUnit) * quoted.rate.n < asked.ngn * quoted.rate.d
                         /\ ~r.underpaid /\ r.payoutNGN >= asked.ngn
    BY DEF QuoteCoversInvoice
  <1>1. /\ quoted.quotedUSDC \in Nat /\ quoted.quotedNGN \in Nat /\ quoted.manual \in BOOLEAN
        /\ asked.ngn \in Nat /\ quoted.quotedNGN = asked.ngn
        /\ quoted.quotedUSDC = QuoteUSDC(asked.ngn, quoted.rate)
        /\ IsRate(quoted.rate) /\ Ordinary(quoted.rate)
    BY QuotesAssumptions DEF QuotesInv, Derived
  <1>2. /\ QuoteNGN(quoted.quotedUSDC, quoted.rate) >= asked.ngn
        /\ (quoted.quotedUSDC - QuoteUnit) * quoted.rate.n < asked.ngn * quoted.rate.d
    BY <1>1, QuoteUSDCCovers
  <1> DEFINE r == Reconcile(quoted.quotedUSDC, quoted)
  <1>3. quoted.quotedUSDC + Dust >= quoted.quotedUSDC
    BY <1>1, MoneyAssumptions
  <1>4. /\ r.underpaid = FALSE
        /\ r.payoutNGN = QuoteNGN(quoted.quotedUSDC, quoted.rate) \/ r.payoutNGN = quoted.quotedNGN
    BY <1>1, <1>3, ReconcilePays
  <1>5. r.payoutNGN >= asked.ngn
    BY <1>1, <1>2, <1>4
  <1> QED
    BY <1>2, <1>4, <1>5

\* A quote derived from an invoice settles it in full: for every amount, and every rate that
\* ceilTo is meant for.
THEOREM QuotesCoverInvoices == QuotesSpec => []QuoteCoversInvoice
  BY QuotesInvCovers, QuotesInitInv, QuotesNextInv, PTL DEF QuotesSpec

LEMMA QuotesInvFair == QuotesInv => PayoutIsFair
  <1> SUFFICES ASSUME QuotesInv, quotePc = "credited"
               PROVE  LET worth == QuoteNGN(paid, quoted.rate)
                      IN /\ \/ credited.payoutNGN >= worth
                            \/ credited.payoutNGN >= quoted.quotedNGN /\ ~quoted.manual
                         /\ credited.underpaid =>
                              credited.payoutNGN + credited.shortfallNGN >= quoted.quotedNGN
                         /\ (asked.usdc = 0 \/ asked.ngn = 0) =>
                              credited.payoutNGN <= QuoteNGN(paid + Dust, quoted.rate)
    BY DEF PayoutIsFair
  <1> DEFINE worth == QuoteNGN(paid, quoted.rate)
             most  == QuoteNGN(paid + Dust, quoted.rate)
             covered == quoted.quotedNGN = 0 \/ paid + Dust >= quoted.quotedUSDC
  <1>1. /\ quoted.quotedUSDC \in Nat /\ quoted.quotedNGN \in Nat /\ quoted.manual \in BOOLEAN
        /\ IsRate(quoted.rate) /\ Ordinary(quoted.rate)
        /\ paid \in Nat /\ credited = Reconcile(paid, quoted)
        /\ asked.usdc \in Nat /\ asked.ngn \in Nat
    BY QuotesAssumptions DEF QuotesInv, Derived
  <1>2. /\ credited.underpaid = ~covered
        /\ \/ credited.payoutNGN = worth
           \/ /\ credited.payoutNGN = quoted.quotedNGN /\ quoted.quotedNGN > 0 /\ covered
              /\ ~quoted.manual \/ worth < quoted.quotedNGN
        /\ ~covered =>
             credited.payoutNGN = worth /\ credited.payoutNGN + credited.shortfallNGN >= quoted.quotedNGN
    BY <1>1, ReconcilePays
  <1>3. paid + Dust \in Nat /\ paid <= paid + Dust
    BY <1>1, MoneyAssumptions
  <1>4. worth \in Nat /\ most \in Nat /\ worth <= most
    BY <1>1, <1>3, QuoteNGNGrows
  <1>5. ASSUME asked.usdc = 0 \/ asked.ngn = 0, quoted.quotedNGN > 0, covered
        PROVE  quoted.quotedNGN <= most
    <2>1. quoted.quotedNGN <= QuoteNGN(quoted.quotedUSDC, quoted.rate)
      <3>1. CASE asked.usdc = 0
        BY <1>1, <3>1, QuoteUSDCCovers DEF QuotesInv, Derived
      <3>2. CASE asked.ngn = 0
        BY <1>1, <3>2 DEF QuotesInv, Derived
      <3> QED
        BY <1>5, <3>1, <3>2
    <2>2. quoted.quotedUSDC <= paid + Dust
      BY <1>1, <1>3, <1>5
    <2>3. QuoteNGN(quoted.quotedUSDC, quoted.rate) <= most
      BY <1>1, <1>3, <2>2, QuoteNGNGrows
    <2>4. QuoteNGN(quoted.quotedUSDC, quoted.rate) \in Nat
      BY <1>1, QuoteNGNGrows
    <2> QED
      BY <1>1, <1>4, <2>1, <2>3, <2>4
  <1> HIDE DEF worth, most
  <1>6. \/ credited.payoutNGN >= worth
        \/ credited.payoutNGN >= quoted.quotedNGN /\ ~quoted.manual
    BY <1>1, <1>2, <1>4
  <1>7. credited.underpaid => credited.payoutNGN + credited.shortfallNGN >= quoted.quotedNGN
    BY <1>2
  <1>8. (asked.usdc = 0 \/ asked.ngn = 0) => credited.payoutNGN <= most
    BY <1>1, <1>2, <1>4, <1>5
  <1> QED
    BY <1>6, <1>7, <1>8 DEF worth, most

\* Reconcile is fair to the merchant and to Linq: for every quote, and whatever the payer sends.
THEOREM PayoutsAreFair == QuotesSpec => []PayoutIsFair
  BY QuotesInvFair, QuotesInitInv, QuotesNextInv, PTL DEF QuotesSpec

-----------------------------------------------------------------------------
(* The server as a whole.  Its parts meet in the budgets of Faults alone:   *)
(* what one promises per fault, the faults of another only loosen.          *)

CreationInv == Known /\ KeyedOnce /\ OwnedInv /\ LostInv

LEMMA CreationInitInv == Init => CreationInv
  BY KnownInit, OwnedInvInit, LostInvInit DEF CreationInv, KeyedOnce, Init

LEMMA CreationNextInv == CreationInv /\ [Next]_vars => CreationInv'
  BY KnownInductive, KeyedOnceNext, OwnedInvNext, LostInvNext DEF CreationInv, OwnedInv

\* A filled pool that nobody asks is a state of order creation like any other.
LEMMA CreationRestsInv ==
    ASSUME Accounts # {}, CreationRests, FaultsInit
    PROVE  CreationInv
  <1>1. PICK a \in Accounts :
            /\ rows = {a} /\ ready = {a} /\ minted = {a} /\ exists = {a}
            /\ claimed = {} /\ inlined = {} /\ inFlight = {} /\ orders = {} /\ answers = {}
            /\ keeperPc = [k \in Keepers |-> "idle"]
            /\ unconfirmed = [k \in Keepers |-> {}] /\ healing = [k \in Keepers |-> {}]
            /\ count = [k \in Keepers |-> 0] /\ minting = [k \in Keepers |-> {}]
            /\ reqPc = [h \in Handlers |-> "idle"] /\ reqKey = [h \in Handlers |-> NoRequest]
            /\ reqAccount = [h \in Handlers |-> {}] /\ pooled = [h \in Handlers |-> FALSE]
            /\ misses = [h \in Handlers |-> 0]
    <2> DEFINE spare == CHOOSE a \in Accounts : TRUE
    <2>1. spare \in Accounts
      OBVIOUS
    <2> QED
      BY <2>1 DEF CreationRests
  <1>2. Known
    BY <1>1 DEF Known, Shape, ReadyExists, KeepersKnow, HandlersKnow, HandedOutExists, KeeperPcs, ReqPcs
  <1>3. TypeInv
    BY <1>1, FaultBudgets, PoolAssumptions, CreationAssumptions
       DEF FaultsInit, TypeInv, TypeOK, PoolTypeOK, FaultsTypeOK, HandsTyped, generated, KeeperPcs, ReqPcs
  <1>4. KeyedOnce /\ OwnedInv
    BY <1>1, <1>3 DEF KeyedOnce, OwnedInv, Owned, OneOrderPerAddress, Addresses, Free, Held
  <1>5. LostInv
    <2>1. Lost = {} /\ InlineApart
      BY <1>1 DEF Lost, InlineApart
    <2>2. Cardinality(Lost) = 0 /\ losses + crashes = 0
      BY <2>1, FS_EmptySet DEF FaultsInit
    <2> QED
      BY <1>3, <2>1, <2>2 DEF LostInv
  <1> QED
    BY <1>2, <1>4, <1>5 DEF CreationInv

\* Faults are only ever added.
OneFault == Lose \/ Crash \/ UNCHANGED faultVars

LEMMA FaultsGrow ==
    ASSUME FaultsTypeOK, OneFault
    PROVE  /\ FaultsTypeOK' /\ losses \in Nat /\ crashes \in Nat /\ losses' \in Nat /\ crashes' \in Nat
           /\ losses <= losses' /\ crashes <= crashes'
  BY LoseTypes DEF OneFault

LEMMA SponsorFaults == SponsorNext => OneFault
  BY DEF SponsorNext, OneFault, Locks, LoadsSequence, LoadSequenceFails, SubmitLands, SubmitRefused,
         SubmitFails, ClientCrash, PendingApplies, PendingDies

LEMMA FeeBumpFaults == FeeBumpNext => OneFault
  BY DEF FeeBumpNext, OneFault, PayerSigns, ChecksAwaiting, BumpLands, BumpRefused, BumpFails,
         UnresolvedEnds, OrderMovesOn, SubmitCrash

\* Each part leaves what the invariants of the others are about alone.
LEMMA CreationAtRest ==
    ASSUME CreationInv, UNCHANGED creationSide, OneFault
    PROVE  CreationInv'
  <1> USE DEF creationSide, poolVars, keeperVars, creationVars
  <1>1. TypeInv /\ FaultsTypeOK
    BY DEF CreationInv, OwnedInv, TypeInv, TypeOK
  <1>2. /\ FaultsTypeOK' /\ losses \in Nat /\ crashes \in Nat /\ losses' \in Nat /\ crashes' \in Nat
        /\ losses <= losses' /\ crashes <= crashes'
    BY <1>1, FaultsGrow
  <1>3. Known'
    BY DEF CreationInv, Known, Shape, ReadyExists, KeepersKnow, HandlersKnow, HandedOutExists
  <1>4. TypeInv'
    BY <1>1, <1>2 DEF TypeInv, TypeOK, PoolTypeOK, HandsTyped, generated
  <1>5. KeyedOnce'
    BY DEF CreationInv, KeyedOnce
  <1>6. OwnedInv'
    <2>1. losses' = 0 => losses = 0
      BY <1>2
    <2>2. (Addresses \subseteq generated)' /\ (Owned => Owned')
      BY DEF CreationInv, OwnedInv, Owned, OneOrderPerAddress, Addresses, Free, Held, generated
    <2> QED
      BY <1>4, <2>1, <2>2 DEF CreationInv, OwnedInv
  <1>7. LostInv'
    <2>1. Lost' = Lost /\ InlineApart'
      BY DEF CreationInv, LostInv, Lost, Owners, Addresses, Held, InlineApart
    <2>2. Cardinality(Lost) \in Nat
      BY <1>1, <1>4, LostCounts
    <2>3. Cardinality(Lost) <= losses' + crashes'
      BY <1>2, <2>2 DEF CreationInv, LostInv
    <2> QED
      BY <1>4, <2>1, <2>3 DEF LostInv
  <1> QED
    BY <1>3, <1>5, <1>6, <1>7 DEF CreationInv

LEMMA SponsorAtRest == PromiseInv /\ UNCHANGED sponsorVars => PromiseInv'
  BY DEF PromiseInv, SponsorInv, SponsorTypeOK, KeepsPace, NothingSentYet, OneOnItsWay, sponsorVars,
         sponsorLedger, callVars

LEMMA FeeBumpAtRest ==
    ASSUME FeeBumpInv, UNCHANGED feeBumpVars, losses' \in Nat, crashes' \in Nat,
           losses <= losses', crashes <= crashes'
    PROVE  FeeBumpInv'
  <1>1. FeeBumpTypeOK' /\ \A p \in told' : submitPc'[p] = "idle"
    BY DEF FeeBumpInv, FeeBumpTypeOK, feeBumpVars
  <1>2. ASSUME NEW p \in Payers PROVE ChargedUntold(p)' <= losses' + crashes'
    <2>1. ChargedUntold(p)' = ChargedUntold(p)
      BY DEF ChargedUntold, feeBumpVars
    <2>2. ChargedUntold(p) \in Int /\ losses \in Nat /\ crashes \in Nat
      BY DEF ChargedUntold, FeeBumpInv, FeeBumpTypeOK
    <2>3. ChargedUntold(p) <= losses + crashes
      BY DEF FeeBumpInv, ChargedOncePerLoss
    <2>4. ChargedUntold(p) <= losses' + crashes'
      BY <2>2, <2>3
    <2> QED
      BY <2>1, <2>4
  <1>3. ChargedOncePerLoss'
    BY <1>2 DEF ChargedOncePerLoss
  <1> QED
    BY <1>1, <1>3 DEF FeeBumpInv

LEMMA QuotesAtRest == QuotesInv /\ UNCHANGED quoteVars => QuotesInv'
  BY DEF QuotesInv, Derived, quoteVars

ServerInv == CreationInv /\ PromiseInv /\ FeeBumpInv /\ QuotesInv

LEMMA ServerInitInv == ASSUME Accounts # {}, ServerInit PROVE ServerInv
  <1>1. CreationInv /\ FaultsInit
    BY CreationInitInv, CreationRestsInv DEF ServerInit, Init
  <1> QED
    BY <1>1, PromiseInitInv, FeeBumpInitInv, QuotesInitInv DEF ServerInit, ServerInv

LEMMA ServerNextInv == ServerInv /\ [ServerNext]_serverVars => ServerInv'
  <1> SUFFICES ASSUME ServerInv, [ServerNext]_serverVars PROVE ServerInv'
    OBVIOUS
  <1>0. FaultsTypeOK /\ TypeInv
    BY DEF ServerInv, CreationInv, OwnedInv, TypeInv, TypeOK
  <1>1. CASE InCreation(Next)
    <2>1. /\ Next /\ UNCHANGED sponsorVars /\ UNCHANGED feeBumpVars /\ UNCHANGED quoteVars
      BY <1>1 DEF InCreation
    <2>2. CreationInv'
      BY <2>1, CreationNextInv DEF ServerInv
    <2>3. losses' \in Nat /\ crashes' \in Nat /\ losses <= losses' /\ crashes <= crashes'
      <3>1. CASE PoolStep
        BY <3>1, FaultBudgets DEF PoolStep, PoolMoves, FaultsTypeOK
      <3>2. ASSUME NEW h \in Handlers, HandlerStep(h) PROVE OneFault
        BY <3>2 DEF HandlerStep, Receive, PoolSelects, PoolClaims, PoolFails, Provisions, ProvisionFails,
                    Inserts, InsertFails, Releases, HandlerCrash, OneFault
      <3> QED
        BY <1>0, <2>1, <3>1, <3>2, WhoseStep, FaultsGrow
    <2> QED
      BY <2>1, <2>2, <2>3, SponsorAtRest, FeeBumpAtRest, QuotesAtRest DEF ServerInv
  <1>2. CASE InSponsor(SponsorNext)
    <2>1. /\ SponsorNext /\ UNCHANGED creationSide /\ UNCHANGED feeBumpVars /\ UNCHANGED quoteVars
      BY <1>2 DEF InSponsor
    <2>2. OneFault
      BY <2>1, SponsorFaults
    <2> QED
      BY <1>0, <2>1, <2>2, PromiseNextInv, FaultsGrow, CreationAtRest, FeeBumpAtRest, QuotesAtRest
         DEF ServerInv
  <1>3. CASE InFeeBump(FeeBumpNext)
    <2>1. /\ FeeBumpNext /\ UNCHANGED creationSide /\ UNCHANGED sponsorVars /\ UNCHANGED quoteVars
      BY <1>3 DEF InFeeBump
    <2>2. OneFault
      BY <2>1, FeeBumpFaults
    <2> QED
      BY <2>1, <2>2, FeeBumpNextInv, CreationAtRest, SponsorAtRest, QuotesAtRest DEF ServerInv
  <1>4. CASE InQuotes(QuotesNext) \/ Finished \/ UNCHANGED serverVars
    <2>1. /\ UNCHANGED creationSide /\ UNCHANGED sponsorVars /\ UNCHANGED feeBumpVars /\ UNCHANGED faultVars
          /\ [QuotesNext]_quoteVars
      BY <1>4 DEF InQuotes, Finished, serverVars
    <2>2. OneFault
      BY <2>1 DEF OneFault
    <2> QED
      BY <1>0, <2>1, <2>2, QuotesNextInv, FaultsGrow, CreationAtRest, SponsorAtRest, FeeBumpAtRest
         DEF ServerInv
  <1> QED
    BY <1>1, <1>2, <1>3, <1>4 DEF ServerNext

\* The server, its four parts together and for any faults they share: every variable stays in its
\* range, addresses exist and are one order's, keys are answered once, a fault strands one account
\* and costs a payer one payment at most, and the money of a quote is right.
THEOREM ServerCorrect ==
    ASSUME Accounts # {}
    PROVE  ServerSpec => [](/\ ServerTypeOK /\ HandedOutExists /\ OneOrderUnlessLost /\ SameAnswer
                            /\ StrandedPerFault /\ CollisionMeansProgress /\ ChargedOncePerLoss
                            /\ QuoteCoversInvoice /\ PayoutIsFair)
  <1>1. ServerInit => ServerInv
    BY ServerInitInv
  <1>2. ASSUME ServerInv
        PROVE  /\ ServerTypeOK /\ HandedOutExists /\ OneOrderUnlessLost /\ SameAnswer
               /\ StrandedPerFault /\ CollisionMeansProgress /\ ChargedOncePerLoss
               /\ QuoteCoversInvoice /\ PayoutIsFair
    <2>1. CreationInv /\ SponsorInv /\ FeeBumpInv /\ QuotesInv
      BY <1>2 DEF ServerInv, PromiseInv
    <2>2. ServerTypeOK
      BY <2>1 DEF ServerTypeOK, CreationInv, OwnedInv, TypeInv, SponsorInv, FeeBumpInv
    <2>3. HandedOutExists /\ OneOrderUnlessLost /\ SameAnswer
      BY <2>1 DEF CreationInv, Known, OwnedInv, TypeInv, TypeOK, Owned, OneOrderUnlessLost, KeyedOnce, SameAnswer
    <2>4. StrandedPerFault
      BY <2>1, StrandedAreLost DEF CreationInv
    <2>5. CollisionMeansProgress /\ ChargedOncePerLoss
      BY <2>1 DEF SponsorInv, KeepsPace, CollisionMeansProgress, FeeBumpInv
    <2>6. QuoteCoversInvoice /\ PayoutIsFair
      BY <2>1, QuotesInvCovers, QuotesInvFair
    <2> QED
      BY <2>2, <2>3, <2>4, <2>5, <2>6
  <1> QED
    BY <1>1, <1>2, ServerNextInv, PTL DEF ServerSpec

\* Whatever else the server does meanwhile, its submissions keep their promise.
THEOREM ServerSubmitsOnce ==
    ASSUME Accounts # {}
    PROVE  ServerSpec => SubmitsOnce
  <1>1. ServerInit => ServerInv /\ Promise!Init
    BY ServerInitInv DEF ServerInit, SponsorInit, Promise!Init
  <1>2. ServerInv /\ [ServerNext]_serverVars => [Promise!Next]_(Promise!promiseVars)
    <2> SUFFICES ASSUME ServerInv, [ServerNext]_serverVars PROVE [Promise!Next]_(Promise!promiseVars)
      OBVIOUS
    <2>1. SponsorNext \/ UNCHANGED sponsorVars
      BY DEF ServerNext, InCreation, InSponsor, InFeeBump, InQuotes, Finished, serverVars
    <2>2. CASE UNCHANGED sponsorVars
      BY <2>2 DEF sponsorVars, sponsorLedger, callVars, Promise!promiseVars
    <2>3. CASE SponsorNext
      BY <2>3, SponsorStepKeepsPromise DEF ServerInv
    <2> QED
      BY <2>1, <2>2, <2>3
  <1> QED
    BY <1>1, <1>2, ServerNextInv, PTL DEF ServerSpec, SubmitsOnce, Promise!Spec

=============================================================================
