------------------------------ MODULE MCSystem ------------------------------
(* The values of MCServer for the whole system. *)
EXTENDS S4System, MCServer
=============================================================================
