---------------------------- MODULE OrderStates ----------------------------
(***************************************************************************)
(* The lifecycle of an order: internal/store/state.go.  A state is the     *)
(* string the status column holds.                                         *)
(***************************************************************************)

FiatLeg == {"payout_queued", "payout_processing", "disbursed"}
SweepLeg == {"sweep_queued", "sweep_processing", "settled_in_treasury"}
RefundLeg == {"refund_queued", "refund_processing", "refunded"}

States == {"initiated", "awaiting_deposit", "deposit_detected"}
            \union FiatLeg \union SweepLeg \union RefundLeg
            \union {"expired", "failed"}

\* The table of legal moves, one entry per state that has any.
transitions(from) ==
    CASE from = "initiated"         -> {"awaiting_deposit", "failed"}
      [] from = "awaiting_deposit"  -> {"deposit_detected", "expired", "failed"}
      [] from = "deposit_detected"  -> {"payout_queued", "failed"}
      [] from = "payout_queued"     -> {"payout_processing", "refund_queued", "failed"}
      [] from = "payout_processing" -> {"disbursed", "refund_queued", "payout_queued", "failed"}
      [] from = "disbursed"         -> {"sweep_queued"}
      [] from = "sweep_queued"      -> {"sweep_processing", "failed"}
      [] from = "sweep_processing"  -> {"settled_in_treasury", "sweep_queued", "failed"}
      [] from = "refund_queued"     -> {"refund_processing", "failed"}
      [] from = "refund_processing" -> {"refunded", "refund_queued", "failed"}
      [] OTHER                      -> {}

CanTransition(from, to) == to \in transitions(from)

\* The states the merchant's backend is told of (internal/notify/notify.go).
notifiable == {"deposit_detected", "disbursed", "settled_in_treasury",
               "refund_queued", "refunded", "expired", "failed"}

=============================================================================
