-------------------------- MODULE MCConsoleSession --------------------------
(* Two mounts and two sessions let every late answer meet a later mount and *)
(* a later sign-in. *)
EXTENDS ConsoleSession
=============================================================================
