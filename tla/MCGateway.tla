------------------------------ MODULE MCGateway ------------------------------
(* Gateway with two clients, one of whom shares a cursor. *)
EXTENDS Gateway

MCClients == {"ann", "bob"}
MCSharers == {"ann"}
=============================================================================
