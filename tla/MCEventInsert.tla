---------------------------- MODULE MCEventInsert ----------------------------
(***************************************************************************)
(* b1 names an event twice, b2 lists two of its events the other way       *)
(* round, b3 is empty.                                                     *)
(***************************************************************************)
EXTENDS EventInsert, TLC

CONSTANTS e1, e2, e3, b1, b2, b3

MCEvent == {e1, e2, e3}
MCBatch == {b1, b2, b3}
MCOrder == (b1 :> <<e1, e2, e1>>) @@ (b2 :> <<e2, e3, e1>>) @@ (b3 :> <<>>)
=============================================================================
