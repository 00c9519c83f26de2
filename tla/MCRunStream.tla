---------------------------- MODULE MCRunStream ----------------------------
(***************************************************************************)
(* RunStream for TLC: two clients, or one that comes back.                 *)
(***************************************************************************)
EXTENDS RunStream

CONSTANTS s1, s2
=============================================================================
