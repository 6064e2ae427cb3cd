------------------------------ MODULE Sponsor ------------------------------
(***************************************************************************)
(* Sponsored submissions: submitSponsored of internal/stellar/sweep.go.    *)
(* Every process holds a Client with a mutex, and all of them draw on the  *)
(* one sequence number of the sponsor's account.  What a transaction does  *)
(* is left to the modules whose handlers submit it.  A call's pc:          *)
(*   waiting -> load -> submit -> load .. returned                         *)
(***************************************************************************)
EXTENDS Faults

CONSTANTS Clients,               \* processes
          callsPerClient,        \* bound on the calls
          sponsorSubmitAttempts

ASSUME SponsorAssumptions == callsPerClient \in Nat /\ sponsorSubmitAttempts \in Nat \ {0}

Calls == Clients \X (1 .. callsPerClient)

VARIABLES sequence, \* of the sponsor's account, on the ledger
          pending,  \* transactions whose caller timed out or died: the ledger may still take them
          applied,  \* how often the operations of a call were applied
          callPc, loaded, refusals, answer,
          first     \* auxiliary: the sequence number when the call began
sponsorLedger == <<sequence, pending, applied>>
callVars == <<callPc, loaded, refusals, answer, first>>
sponsorVars == <<sponsorLedger, callVars>>

Pendings == [call : Calls, seq : Nat]

SponsorTypeOK ==
    /\ sequence \in Nat
    /\ pending \subseteq Pendings
    /\ applied \in [Calls -> Nat]
    /\ callPc \in [Calls -> {"waiting", "load", "submit", "returned"}]
    /\ loaded \in [Calls -> Nat] /\ first \in [Calls -> Nat]
    /\ refusals \in [Calls -> 0 .. sponsorSubmitAttempts]
    /\ answer \in [Calls -> {"none", "hash", "error", "bad_seq"}]

SponsorInit ==
    /\ sequence = 0 /\ pending = {}
    /\ applied = [c \in Calls |-> 0]
    /\ callPc = [c \in Calls |-> "waiting"]
    /\ loaded = [c \in Calls |-> 0] /\ first = [c \in Calls |-> 0]
    /\ refusals = [c \in Calls |-> 0]
    /\ answer = [c \in Calls |-> "none"]

-----------------------------------------------------------------------------
\* sponsorMu, held from the first load to the return.
Holds(c) == callPc[c] \in {"load", "submit"}

CallReturns(c, a) ==
    /\ callPc' = [callPc EXCEPT ![c] = "returned"]
    /\ answer' = [answer EXCEPT ![c] = a]

Locks(c) ==
    /\ callPc[c] = "waiting"
    /\ ~\E d \in Calls : d[1] = c[1] /\ Holds(d)
    /\ callPc' = [callPc EXCEPT ![c] = "load"]
    /\ first' = [first EXCEPT ![c] = sequence]
    /\ UNCHANGED <<sponsorLedger, loaded, refusals, answer, faultVars>>

\* Mutant: the sequence number is loaded once, before the attempts.
LoadsOnce(c) ==
    /\ callPc[c] = "load"
    /\ callPc' = [callPc EXCEPT ![c] = "submit"]
    /\ loaded' = [loaded EXCEPT ![c] = IF refusals[c] = 0 THEN sequence ELSE @]
    /\ UNCHANGED <<sponsorLedger, refusals, answer, first, faultVars>>

\* AccountDetail, inside the loop.
LoadsSequence(c) ==
    /\ callPc[c] = "load"
    /\ callPc' = [callPc EXCEPT ![c] = "submit"]
    /\ loaded' = [loaded EXCEPT ![c] = sequence]
    /\ UNCHANGED <<sponsorLedger, refusals, answer, first, faultVars>>

LoadSequenceFails(c) ==
    /\ callPc[c] = "load"
    /\ Lose
    /\ CallReturns(c, "error")
    /\ UNCHANGED <<sponsorLedger, loaded, refusals, first>>

\* The ledger takes a transaction with the next sequence number only.
IsNext(seq) == seq = sequence + 1
Applies(c) == sequence' = sequence + 1 /\ applied' = [applied EXCEPT ![c] = @ + 1]

SubmitLands(c) ==
    /\ callPc[c] = "submit"
    /\ IsNext(loaded[c] + 1)
    /\ Applies(c)
    /\ \/ CallReturns(c, "hash") /\ UNCHANGED faultVars
       \/ Lose /\ CallReturns(c, "error")
    /\ UNCHANGED <<pending, loaded, refusals, first>>

\* isBadSequence: build again from the sequence number as it is now, a few times.
SubmitRefused(c) ==
    /\ callPc[c] = "submit"
    /\ ~IsNext(loaded[c] + 1)
    /\ refusals' = [refusals EXCEPT ![c] = @ + 1]
    /\ IF refusals[c] + 1 < sponsorSubmitAttempts
       THEN callPc' = [callPc EXCEPT ![c] = "load"] /\ UNCHANGED answer
       ELSE CallReturns(c, "bad_seq")
    /\ UNCHANGED <<sponsorLedger, loaded, first, faultVars>>

\* A submission nobody waits for any more, which the ledger may still take.
StaysPending(c) == pending' = pending \union {[call |-> c, seq |-> loaded[c] + 1]}

\* Mutant: any error is a reason to submit again.
SubmitFailsRetried(c) ==
    /\ callPc[c] = "submit"
    /\ Lose
    /\ StaysPending(c)
    /\ callPc' = [callPc EXCEPT ![c] = "load"]
    /\ UNCHANGED <<sequence, applied, loaded, refusals, answer, first>>

\* Any other error ends the call: the operations are refused, which takes the sequence number, or
\* the transaction is, or the request times out and nobody knows.
SubmitFails(c) ==
    /\ callPc[c] = "submit"
    /\ \/ IsNext(loaded[c] + 1) /\ sequence' = sequence + 1 /\ UNCHANGED <<pending, faultVars>>
       \/ Lose /\ UNCHANGED <<sequence, pending>>
       \/ /\ Lose
          /\ StaysPending(c)
          /\ UNCHANGED sequence
    /\ CallReturns(c, "error")
    /\ UNCHANGED <<applied, loaded, refusals, first>>

PendingApplies ==
    \E p \in pending :
        /\ IsNext(p.seq)
        /\ Applies(p.call)
        /\ pending' = pending \ {p}
        /\ UNCHANGED <<callVars, faultVars>>

\* Its time bounds pass, or its sequence number is taken.
PendingDies ==
    /\ \E p \in pending : pending' = pending \ {p}
    /\ UNCHANGED <<sequence, applied, callVars, faultVars>>

\* A process dies in the middle of a call, and what it was submitting may be with the ledger.
ClientCrash(c) ==
    /\ Crash
    /\ Holds(c)
    /\ \/ UNCHANGED pending
       \/ callPc[c] = "submit" /\ StaysPending(c)
    /\ CallReturns(c, "error")
    /\ UNCHANGED <<sequence, applied, loaded, refusals, first>>

SponsorNext ==
    \/ \E c \in Calls :
        \/ Locks(c) \/ LoadsSequence(c) \/ LoadSequenceFails(c)
        \/ SubmitLands(c) \/ SubmitRefused(c) \/ SubmitFails(c) \/ ClientCrash(c)
    \/ PendingApplies \/ PendingDies

SponsorSpec == SponsorInit /\ FaultsInit /\ [][SponsorNext]_<<sponsorVars, faultVars>>

-----------------------------------------------------------------------------
\* Every refusal a call meets is somebody else's progress since it began: a call that gives up was
\* overtaken by as many transactions as it made attempts, and two processes cannot refuse each
\* other for ever (sweep.go: "the whole point of a retry here is to read the sequence number
\* again").
CollisionMeansProgress == \A c \in Calls : first[c] + refusals[c] <= sequence

\* submitSponsored keeps the promise its callers rely on: at most once, whatever collides, times
\* out or is taken late.
Promise == INSTANCE SubmissionPromise
SubmitsOnce == Promise!Spec

=============================================================================
