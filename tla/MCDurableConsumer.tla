------------------------- MODULE MCDurableConsumer -------------------------
(* A finite instance of DurableConsumer for TLC: one message more than may  *)
(* be outstanding, and two replicas.                                        *)
EXTENDS DurableConsumer

MCMessages == {"m1", "m2", "m3"}
MCWorkers == {"w1", "w2"}
=============================================================================
