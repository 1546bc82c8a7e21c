-------------------------- MODULE MCPageProtocol --------------------------
(* Instances of PageProtocol for TLC: a page of three bytes. *)
EXTENDS PageProtocol
===========================================================================
