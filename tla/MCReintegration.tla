-------------------------- MODULE MCReintegration --------------------------
(* Reintegration with the shipped ladder for TLC. *)
EXTENDS Reintegration

ShippedLadder == <<5, 20, 50, 100>>
=============================================================================
