------------------------------ MODULE MCOutbox ------------------------------
(***************************************************************************)
(* Model values for the outbox publisher.                                  *)
(***************************************************************************)
EXTENDS OutboxPublisher

CONSTANTS p1, p2

=============================================================================
