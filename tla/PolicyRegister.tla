--------------------------- MODULE PolicyRegister ---------------------------
(***************************************************************************)
(* What the routing-policy tables promise a scope's readers: a register    *)
(* that is published to.  A publication is atomic, has a version number    *)
(* no other one has had, and becomes the current policy.  Which number it  *)
(* has is left open: publications that overlap may land out of order.      *)
(***************************************************************************)
EXTENDS Integers

CONSTANTS Scope, Version

VARIABLES published,  \* published[s]: the versions ever active
          current     \* current[s]: the latest publication, 0 before the first

Init == /\ published = [s \in Scope |-> {}]
        /\ current   = [s \in Scope |-> 0]

Publish(s, v) == /\ v \notin published[s]
                 /\ published' = [published EXCEPT ![s] = @ \cup {v}]
                 /\ current'   = [current   EXCEPT ![s] = v]

Next == \E s \in Scope, v \in Version : Publish(s, v)

Spec == Init /\ [][Next]_<<published, current>>
=============================================================================
