--------------------------- MODULE EventDelivery ---------------------------
(***************************************************************************)
(* What the event outbox promises, without dispatchers, transactions,      *)
(* watermarks or windows.  Every committed domain event meets every        *)
(* workflow once: the pair waits, and is then either handed to a run of    *)
(* the workflow or passed over, and that is the end of it.                 *)
(***************************************************************************)
CONSTANTS Events, Workflows

VARIABLE fate   \* what became of an event for a workflow

Fates == {"absent", "waiting", "handed", "passed"}

DeliveryInit == fate = [p \in Events \X Workflows |-> "absent"]

\* The mutation that carries the event commits: every workflow will see it.
Arrive(e, w) == fate[e, w] = "absent" /\ fate'[e, w] = "waiting"

\* A pair is settled.
Settle(e, w) == fate[e, w] = "waiting" /\ fate'[e, w] \in {"handed", "passed"}

\* Many pairs may be settled together, but an event arrives for every workflow.
DeliveryNext ==
    /\ fate' \in [Events \X Workflows -> Fates]
    /\ \A e \in Events :
          \/ \A w \in Workflows : Arrive(e, w)
          \/ \A w \in Workflows : Settle(e, w) \/ fate'[e, w] = fate[e, w]

DeliverySpec == DeliveryInit /\ [][DeliveryNext]_fate
=============================================================================
