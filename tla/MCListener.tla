------------------------------ MODULE MCListener ------------------------------
(* Small instances of Listener: model values for threads, contexts and sockets. *)
EXTENDS Listener
=============================================================================
