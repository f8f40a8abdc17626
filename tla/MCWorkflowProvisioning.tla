----------------------- MODULE MCWorkflowProvisioning -----------------------
(* A finite instance of WorkflowProvisioning for TLC: two replicas and a     *)
(* callback id, under which the runtime may send more than once.             *)
EXTENDS WorkflowProvisioning

MCWorkers == {"w1", "w2"}
MCCallbacks == {"c1"}
=============================================================================
