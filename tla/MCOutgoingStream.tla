-------------------------- MODULE MCOutgoingStream --------------------------
(* Instances of OutgoingStream for TLC are given by the bounds alone.       *)
EXTENDS OutgoingStream
=============================================================================
