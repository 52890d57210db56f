----------------------------- MODULE EventTable -----------------------------
(***************************************************************************)
(* What recording a batch promises of kairos_evolve.routing_events: it     *)
(* happens at once, each event of the batch gets a row unless it has one,  *)
(* and a row stays as it is.                                               *)
(***************************************************************************)
CONSTANTS Event, Batch, NoBatch,
          Members(_)  \* Members(b): the events of batch b

VARIABLE row          \* row[e]: the batch that recorded e

Init == row = [e \in Event |-> NoBatch]

Record(b) == row' = [e \in Event |-> IF e \in Members(b) /\ row[e] = NoBatch
                                     THEN b ELSE row[e]]

Next == \E b \in Batch : Record(b)

Spec == Init /\ [][Next]_row
=============================================================================
