------------------------------- MODULE Faults -------------------------------
(***************************************************************************)
(* What can go wrong around the worker process.  A loss is one request to  *)
(* Horizon or to the Linq API that is dropped, delayed, refused or whose   *)
(* answer never arrives, or one logged-and-ignored database error.  A      *)
(* crash ends one handler wherever it is: the process is killed, the loop  *)
(* recovers from a panic, or a database statement fails and the handler    *)
(* returns.  Both are budgeted, so that a run with a budget of 0 shows the *)
(* design alone and a larger budget shows it under that many faults.       *)
(***************************************************************************)
EXTENDS Naturals

CONSTANTS MaxLosses, MaxCrashes

ASSUME FaultBudgets == MaxLosses \in Nat /\ MaxCrashes \in Nat

VARIABLES losses, crashes
faultVars == <<losses, crashes>>

FaultsTypeOK == losses \in 0 .. MaxLosses /\ crashes \in 0 .. MaxCrashes
FaultsInit == losses = 0 /\ crashes = 0

\* One request is lost.
Lose == losses < MaxLosses /\ losses' = losses + 1 /\ UNCHANGED crashes
\* One handler is cut short.
Crash == crashes < MaxCrashes /\ crashes' = crashes + 1 /\ UNCHANGED losses

=============================================================================
