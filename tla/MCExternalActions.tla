------------------------- MODULE MCExternalActions -------------------------
(* A finite instance of ExternalActions for TLC: one action, whose fate no  *)
(* other action shares, and two publishers.                                 *)
EXTENDS ExternalActions

MCActions == {"a1"}
MCPublishers == {"p1", "p2"}
=============================================================================
