------------------------- MODULE SubmissionPromise -------------------------
(***************************************************************************)
(* What a caller of submitSponsored may rely on: its operations are        *)
(* applied at most once, a hash means that they were, and "the sequence    *)
(* was taken" that they were not and never will be.  Any other error says  *)
(* nothing.                                                                *)
(***************************************************************************)
EXTENDS Naturals

CONSTANT Calls

VARIABLES applied, \* how often the operations of a call were applied
          answer
promiseVars == <<applied, answer>>

Init == applied = [c \in Calls |-> 0] /\ answer = [c \in Calls |-> "none"]

Apply(c) ==
    /\ applied[c] = 0
    /\ answer[c] # "bad_seq"
    /\ applied' = [applied EXCEPT ![c] = 1]

Answers(c, a) == answer[c] = "none" /\ answer' = [answer EXCEPT ![c] = a]

\* The ledger may apply and the caller hear of it in one step, or in either order.
Next ==
    \E c \in Calls :
        \/ Apply(c) /\ (UNCHANGED answer \/ Answers(c, "hash") \/ Answers(c, "error"))
        \/ Answers(c, "error") /\ UNCHANGED applied
        \/ Answers(c, "bad_seq") /\ applied[c] = 0 /\ UNCHANGED applied

Spec == Init /\ [][Next]_promiseVars

=============================================================================
