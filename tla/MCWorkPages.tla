----------------------------- MODULE MCWorkPages -----------------------------
(* Two jobs that can change places between the pinned list and the other   *)
(* (or be retried), two assets and an upload, and enough records that each *)
(* form has another one to be filled with.                                 *)
EXTENDS WorkPages

TwoVisits == {[where |-> "j1", state |-> [j1 |-> "cancelling", j2 |-> "awaiting_review"]],
              [where |-> "center", state |-> [j1 |-> "failed", j2 |-> "unmade"]]}
TrashStarts == {{"a"}, Assets}
TwoShelves == {{"p", "c", "s", "t"}, {"p", "q", "s"}}
=============================================================================
