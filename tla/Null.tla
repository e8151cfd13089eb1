-------------------------------- MODULE Null --------------------------------
(* The value that stands for none: null, undefined, an empty field. *)
CONSTANT Nothing
=============================================================================
