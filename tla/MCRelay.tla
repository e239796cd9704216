------------------------------ MODULE MCRelay ------------------------------
(* Names for model checking Relay. *)
EXTENDS Relay

=============================================================================
