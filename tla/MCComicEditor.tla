--------------------------- MODULE MCComicEditor ---------------------------
(***************************************************************************)
(* ComicEditor for TLC: keys of submissions and names of drafts are alike. *)
(***************************************************************************)
EXTENDS ComicEditor, TLC

Alike == Permutations(Jobs) \cup Permutations(Drafts)
=============================================================================
