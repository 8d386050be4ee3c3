----------------------------- MODULE MCStorage ------------------------------
(* A small disk whose reserve covers two batches. *)
EXTENDS StoragePressure
=============================================================================
