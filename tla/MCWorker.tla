------------------------------ MODULE MCWorker ------------------------------
(* Small instances of the worker.  Three events are enough for a batch of   *)
(* two, a row behind it, and a rejected or unencodable row in front of,     *)
(* between or behind good ones.  Heavy events take two bytes in the spool,  *)
(* so that they no longer fit the ring after a restart with the second      *)
(* limits; huge ones exceed the delivery batch once encoded.                *)
EXTENDS Worker

CONSTANTS NumEvents, PendingRows, Heavy, Huge, Lowered

MCEvents == 1 .. NumEvents

MCIdOf == [e \in MCEvents |-> e]

MCSizeOf == [e \in MCEvents |-> IF e \in Heavy THEN 2 ELSE 1]

MCIlpSizeOf == [e \in MCEvents |-> IF e \in Huge THEN DeliveryBatchBytes + 1 ELSE 1]

MCLimits ==
    {[pendingRows |-> PendingRows, pendingBytes |-> 4, eventBytes |-> 2,
      deadRows |-> 1, deadBytes |-> 2]}
    \cup IF Lowered
           THEN {[pendingRows |-> PendingRows, pendingBytes |-> 4, eventBytes |-> 1,
                  deadRows |-> 1, deadBytes |-> 1]}
           ELSE {}
=============================================================================
