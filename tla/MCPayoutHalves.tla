--------------------------- MODULE MCPayoutHalves ---------------------------
(* The two halves of PayoutIntent that settle intents on their own, in one *)
(* instance: each behaviour is one of WebhookSpec or of ReconcilerSpec,    *)
(* and side says of which.                                                 *)
EXTENDS MCPayoutIntent

VARIABLE side

HalvesInit == Init /\ side \in {"webhooks", "reconcilers"}

HalvesNext ==
  /\ UNCHANGED side
  /\ \/ Create
     \/ side = "webhooks" /\ Webhook
     \/ side = "reconcilers" /\ Reconciler

HalvesSpec == HalvesInit /\ [][HalvesNext]_<<vars, side>>

=============================================================================
