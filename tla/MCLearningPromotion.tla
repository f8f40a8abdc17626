------------------------ MODULE MCLearningPromotion ------------------------
(* A finite instance of LearningPromotion for TLC: two deliveries at a time. *)
EXTENDS LearningPromotion

MCWorkers == {"w1", "w2"}
=============================================================================
