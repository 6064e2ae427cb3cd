------------------------------ MODULE MCWorker ------------------------------
(***************************************************************************)
(* What the loops of the worker process rest on: wake signals and deposit  *)
(* streams.  The two share no state but the budgets of Faults, so a run    *)
(* explores one at a time, with the other at rest; that checks each of     *)
(* them as a run of its own would.                                         *)
(***************************************************************************)
EXTENDS Wake, Streams

VARIABLE focus
workerVars == <<focus, faultVars, wakeVars, streamVars>>

WorkerInit == focus \in {"wake", "streams"} /\ WakeInit /\ StreamsInit /\ FaultsInit

InWake(A) == focus = "wake" /\ A /\ UNCHANGED <<focus, streamVars>>
InStreams(A) == focus = "streams" /\ A /\ UNCHANGED <<focus, wakeVars>>

\* WakeFairSpec and StreamsFairSpec.
WorkerSpec ==
    /\ WorkerInit /\ [][InWake(WakeNext) \/ InStreams(StreamsNext)]_workerVars
    /\ \A l \in Loops : WF_workerVars(InWake(LoopSteps(l)))
    /\ WF_workerVars(InStreams(Supervises))
    /\ \A w \in Watchers : WF_workerVars(InStreams(Watches(w)))

\* The types of both.
WorkerTypeOK == WakeTypeOK /\ StreamsTypeOK /\ FaultsTypeOK

=============================================================================
