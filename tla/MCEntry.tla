------------------------------ MODULE MCEntry -------------------------------
(* Small instances of Entry: two destinations that ask for no password      *)
(* until one of them starts to.                                            *)
EXTENDS Entry

MCSlots == 1 .. 3

\* The destinations are alike: the entry starts at "here".
MCInit ==
    /\ Init
    /\ data = [dest |-> "here", secret |-> None]
    /\ secret = [d \in Destinations |-> None]
    /\ options.filter = "f"

MCSpec == MCInit /\ [][Next]_vars

MCFairSpec == MCSpec /\ Fairness
=============================================================================
