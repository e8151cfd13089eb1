------------------------------ MODULE Queries ------------------------------
(***************************************************************************)
(* The query cache behind the pages: what TanStack Query does with the     *)
(* loads of the queries that the page on the screen watches.  A page maps  *)
(* each query it watches to the shape in which it asks for it: one record  *)
(* ("one"), one page of a list ("page") or the pages loaded so far         *)
(* ("pages").  A load is Nothing, or a request with its answer once the    *)
(* server has read it; an answer is kept in the shape it was asked for.    *)
(***************************************************************************)
EXTENDS Null

Load(shape) == [shape |-> shape, answer |-> Nothing]

(* A page that starts to watch a query asks for it, or waits for the load  *)
(* that is under way.                                                      *)
Watched(loads, watch) ==
    [q \in DOMAIN loads |-> IF q \in DOMAIN watch /\ loads[q] = Nothing THEN Load(watch[q]) ELSE loads[q]]

(* invalidateQueries loads again what is watched.  A load under way is     *)
(* given up for a new one, but for the first of a query.                   *)
Invalidated(loads, cache, watch, stale) ==
    [q \in DOMAIN loads |->
        IF q \in DOMAIN watch \cap stale /\ (loads[q] = Nothing \/ cache[q] # Nothing)
        THEN Load(watch[q]) ELSE loads[q]]

(* A load that an invalidation would not replace. *)
Uncancelled(loads, cache, watch, q) ==
    loads[q] # Nothing /\ loads[q].answer # Nothing /\ (cache[q] = Nothing \/ q \notin DOMAIN watch)
=============================================================================
