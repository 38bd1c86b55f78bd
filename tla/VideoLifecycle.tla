--------------------------- MODULE VideoLifecycle ---------------------------
(***************************************************************************)
(* What the service promises about a video's status: the state machine of  *)
(* docs/6, section 5, and README.md:103-108, with the reset a DLQ retry    *)
(* makes (README.md:150-151) and deletion by the owner.                    *)
(***************************************************************************)
CONSTANT Videos

VARIABLE status

Init == status = [v \in Videos |-> "NEW"]

Move(v, from, to) ==
  /\ status[v] \in from
  /\ status' = [status EXCEPT ![v] = to]

Create(v)   == Move(v, {"NEW"}, "PENDING")
Start(v)    == Move(v, {"PENDING"}, "PROCESSING")
Complete(v) == Move(v, {"PROCESSING"}, "COMPLETED")
Fail(v)     == Move(v, {"PENDING", "PROCESSING"}, "FAILED")
Retry(v)    == Move(v, {"FAILED"}, "PENDING")
Delete(v)   == Move(v, {"PENDING", "PROCESSING", "COMPLETED", "FAILED"}, "DELETED")

Next ==
  \E v \in Videos : \/ Create(v) \/ Start(v) \/ Complete(v) \/ Fail(v)
                    \/ Retry(v) \/ Delete(v)

Spec == Init /\ [][Next]_status
=============================================================================
