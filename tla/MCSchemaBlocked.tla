-------------------------- MODULE MCSchemaBlocked ---------------------------
(* An instance of Schema with a history variable: whether the gate of this  *)
(* service was ever blocked over a table of another shape.  No kill, so a   *)
(* reload is what makes a new service.                                      *)
EXTENDS Schema

VARIABLE diagnosed

Reloaded == stopping /\ ~stopping'

MCInit == Init /\ diagnosed = FALSE

MCNext ==
    /\ Next
    /\ diagnosed' = (~Reloaded /\ (diagnosed \/ (pc["gate"] = "blocked" /\ table = "other")))

MCSpec == MCInit /\ [][MCNext]_<<vars, diagnosed>>

-----------------------------------------------------------------------------
(* A statement of the documentation that the code does not keep.           *)

\* docs/architecture.md: a table that differs blocks delivery until it is
\* corrected and the entry is reloaded.  In the code a blocked gate looks
\* again, as the docstring of _ensure_schema says.
BlockedUntilReload == diagnosed => pc["gate"] # "ready"
=============================================================================
