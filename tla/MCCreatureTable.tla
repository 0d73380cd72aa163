---------------------------- MODULE MCCreatureTable ----------------------------
(***************************************************************************)
(* Small instances of the creature table.                                  *)
(*                                                                         *)
(* The real HASHTABLE_SIZE is four times MAXCREATURES, so a collision      *)
(* needs two living creatures whose ids are 1024 apart.  The instances     *)
(* take fewer buckets than slots, so that chains of every length occur.    *)
(***************************************************************************)
EXTENDS CreatureTable

CONSTANTS p1, p2
================================================================================
