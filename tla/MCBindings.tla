----------------------------- MODULE MCBindings -----------------------------
(* TLC instance of Bindings: two bindings of one table, one of which hears *)
(* all events, and one of another table.                                   *)
EXTENDS Bindings

MCFilters == {[events |-> "*", table |-> "todos"],
              [events |-> "INSERT", table |-> "todos"],
              [events |-> "INSERT", table |-> "messages"]}
=============================================================================
