------------------------------ MODULE MCSpool ------------------------------
(* A small spool: three ids, one of them with two contents, payloads of one *)
(* and two bytes, and two configurations of which the second is tighter, so *)
(* that a reload can lower the limits under stored rows.                    *)
EXTENDS Spool

CONSTANTS a, b, c, c2

MCEvents == {a, b, c, c2}

MCIds == {a, b, c}

MCIdOf == [e \in MCEvents |-> IF e = c2 THEN c ELSE e]

MCSizeOf == [e \in MCEvents |-> IF e = b THEN 2 ELSE 1]

MCLimits ==
    {[pendingRows |-> 3, pendingBytes |-> 3, eventBytes |-> 2, deadRows |-> 2, deadBytes |-> 3],
     [pendingRows |-> 1, pendingBytes |-> 2, eventBytes |-> 1, deadRows |-> 2, deadBytes |-> 1]}
=============================================================================
