------------------------------ MODULE MCSchema ------------------------------
(* Small instances of Schema: no retention or one day. *)
EXTENDS Schema
=============================================================================
