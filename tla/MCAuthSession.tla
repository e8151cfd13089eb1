--------------------------- MODULE MCAuthSession ---------------------------
(***************************************************************************)
(* AuthSession for TLC.  Liveness is checked: no symmetry.                 *)
(***************************************************************************)
EXTENDS AuthSession
=============================================================================
