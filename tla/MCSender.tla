------------------------------ MODULE MCSender ------------------------------
(* Constants of the run of Sender. *)
EXTENDS Sender

MCRequests == 0..1
=============================================================================
