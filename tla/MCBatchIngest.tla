---------------------------- MODULE MCBatchIngest ----------------------------
(***************************************************************************)
(* Three batches that share events: b1 has enough for both scopes, and for *)
(* s2 only by listing e4 twice; b2 has enough for s1, with e4, and too few *)
(* for s2; b3, with the batch_id of b1, has another event as well.         *)
(***************************************************************************)
EXTENDS BatchIngest, TLC

CONSTANTS s1, s2, e1, e2, e3, e4, b1, b2, b3, i1, i2

MCScope == {s1, s2}
MCEvent == {e1, e2, e3, e4}
MCBatch == {b1, b2, b3}

Under(s, e) == [event |-> e, scope |-> s]

MCPayload ==
  (b1 :> <<Under(s1, e1), Under(s2, e4), Under(s1, e2), Under(s2, e4)>>) @@
  (b2 :> <<Under(s1, e2), Under(s1, e4), Under(s2, e1)>>) @@
  (b3 :> <<Under(s1, e1), Under(s1, e3)>>)
MCIdOf == (b1 :> i1) @@ (b2 :> i2) @@ (b3 :> i1)

Symmetry == Permutations(Worker)
=============================================================================
