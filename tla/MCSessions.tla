---------------------------- MODULE MCSessions ----------------------------
(* Sessions.tla on small instances. *)
EXTENDS SessionsProperties, TLC

=============================================================================
