----------------------------- MODULE MCProcess ------------------------------
(* Process with a few worker threads. *)
EXTENDS Process
=============================================================================
