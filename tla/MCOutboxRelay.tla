--------------------------- MODULE MCOutboxRelay ---------------------------
(* Two relay processes draining one outbox table. *)
EXTENDS OutboxRelay, TLC

CONSTANTS relay1, relay2

RelaySet == {relay1, relay2}
=============================================================================
