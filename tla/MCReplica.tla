------------------------------- MODULE MCReplica -------------------------------
(***************************************************************************)
(* Clients on sockets for TLC.  Clients are only compared with each other, *)
(* so two that differ in name have the same future.  A demo file has none  *)
(* of its own kind beside it, and stays where it is.                       *)
(***************************************************************************)
EXTENDS Replica, TLC

Sockets == Clients \ FileClients

Symmetry == Permutations(Sockets)
================================================================================
