------------------------- MODULE MCOutboxPublisher -------------------------
(* A finite instance of OutboxPublisher for TLC: the first tenant has a     *)
(* deferrable dispatch in front of a dead letter and an event, the second an *)
(* incident in front of a poison row.                                       *)
EXTENDS OutboxPublisher

MCRows == 1..5
MCKind == <<"dispatch", "dead_letter", "event", "incident", "poison">>
MCTenantOf == <<1, 1, 1, 2, 2>>
=============================================================================
