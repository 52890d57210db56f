----------------------------- MODULE EventInsert -----------------------------
(***************************************************************************)
(* async_record_routing_events (core/routing_store.py:202-238) statement   *)
(* by statement: the events of a batch are inserted one at a time, in the  *)
(* order of the payload, with ON CONFLICT (event_id) DO NOTHING, and       *)
(* committed together.                                                     *)
(*                                                                         *)
(* Batches may share events, and two deliveries of one batch share all of  *)
(* them.  An INSERT that meets a row another transaction has inserted and  *)
(* not committed waits for that transaction's end, so deliveries may wait  *)
(* for each other in a circle, which Postgres breaks by an abort.  A       *)
(* commit may take place although its answer is lost, or the call that     *)
(* awaits it is cancelled: then no caller learns what it inserted.         *)
(***************************************************************************)
EXTENDS Integers, Sequences, FiniteSets

CONSTANTS Worker,   \* in-flight deliveries
          Event, Batch, NoBatch,
          Order     \* Order[b]: the event_ids of batch b as the payload has them

ASSUME OrderAssumption   == Order \in [Batch -> Seq(Event)]
ASSUME NoBatchAssumption == NoBatch \notin Batch

VARIABLES
  row,    \* row[e]: batch_id of the committed row of e
  pc,
  batch,  \* the batch being recorded
  next,   \* the position of the event to insert next
  mine,   \* rows inserted and not yet committed
  count,  \* `inserted`
  acked,  \* history: the sum of `inserted` over the calls that returned
  unacked \* history: events committed by calls that did not return

vars  == <<row, pc, batch, next, mine, count, acked, unacked>>

Control == {"idle", "inserting"}
Members(b) == {Order[b][i] : i \in DOMAIN Order[b]}

Init == /\ row   = [e \in Event |-> NoBatch]
        /\ pc    = [w \in Worker |-> "idle"]
        /\ batch = [w \in Worker |-> NoBatch]
        /\ next  = [w \in Worker |-> 0]
        /\ mine  = [w \in Worker |-> {}]
        /\ count = [w \in Worker |-> 0]
        /\ acked = 0
        /\ unacked = {}

\* Mutant: the count of the call before is carried on.
Recounted_KeepsOn(w) == count

Recounted(w) == [count EXCEPT ![w] = 0]

Finish(w) == /\ pc'    = [pc    EXCEPT ![w] = "idle"]
             /\ batch' = [batch EXCEPT ![w] = NoBatch]
             /\ next'  = [next  EXCEPT ![w] = 0]
             /\ mine'  = [mine  EXCEPT ![w] = {}]
             /\ count' = Recounted(w)

-----------------------------------------------------------------------------
Begin(w, b) == /\ pc[w] = "idle"
               /\ pc'    = [pc    EXCEPT ![w] = "inserting"]
               /\ batch' = [batch EXCEPT ![w] = b]
               /\ next'  = [next  EXCEPT ![w] = 1]
               /\ UNCHANGED <<row, mine, count, acked, unacked>>

Unfinished(w) == pc[w] = "inserting" /\ next[w] <= Len(Order[batch[w]])

Current(w) == Order[batch[w]][next[w]]

\* Another open transaction has inserted e.
HeldByOther(e, w) == \E u \in Worker \ {w} : e \in mine[u]

\* Mutant: the UPDATE of an upsert takes over a row that is committed.
IsNew_TakesOver(w) == Current(w) \notin mine[w]

\* The row is not there, neither committed nor of this transaction.
IsNew(w) == row[Current(w)] = NoBatch /\ Current(w) \notin mine[w]

\* One INSERT: rowcount is 1 if the row was not there.
InsertRow(w) ==
  /\ Unfinished(w)
  /\ ~HeldByOther(Current(w), w)
  /\ IF IsNew(w)
     THEN /\ mine'  = [mine  EXCEPT ![w] = @ \cup {Current(w)}]
          /\ count' = [count EXCEPT ![w] = @ + 1]
     ELSE UNCHANGED <<mine, count>>
  /\ next' = [next EXCEPT ![w] = @ + 1]
  /\ UNCHANGED <<row, pc, batch, acked, unacked>>

\* Mutant: a call that inserted nothing returns without ending.
AtEnd_NotEmpty(w) == pc[w] = "inserting" /\ ~Unfinished(w) /\ mine[w] # {}

AtEnd(w) == pc[w] = "inserting" /\ ~Unfinished(w)

\* The server's side of the commit.
Store(w) == row' = [e \in Event |-> IF e \in mine[w] THEN batch[w] ELSE row[e]]

\* The commit, and the return of `inserted` (with no events, of 0).
Commit(w) == /\ AtEnd(w)
             /\ Store(w)
             /\ acked' = acked + count[w]
             /\ Finish(w)
             /\ UNCHANGED unacked

\* The commit takes place, but `await aconn.commit()` raises.
CommitUnanswered(w) == /\ AtEnd(w)
                       /\ Store(w)
                       /\ unacked' = unacked \cup mine[w]
                       /\ Finish(w)
                       /\ UNCHANGED acked

\* The request is lost at an await: its transaction is rolled back.
Fail(w) == /\ pc[w] = "inserting"
           /\ Finish(w)
           /\ UNCHANGED <<row, acked, unacked>>

WaitsFor(w, u) == w # u /\ Unfinished(w) /\ Current(w) \in mine[u]

\* Postgres aborts a transaction of a circle of waiting ones.
InCircle(w) == \E circle \in SUBSET Worker :
                 /\ w \in circle
                 /\ \A u \in circle : \E x \in circle : WaitsFor(u, x)

DeadlockAbort(w) == /\ InCircle(w)
                    /\ Finish(w)
                    /\ UNCHANGED <<row, acked, unacked>>

Advance(w) == InsertRow(w) \/ Commit(w) \/ DeadlockAbort(w)

Next == \E w \in Worker : \/ \E b \in Batch : Begin(w, b)
                          \/ Advance(w)
                          \/ CommitUnanswered(w)
                          \/ Fail(w)

Spec == Init /\ [][Next]_vars

(***************************************************************************)
(* The event loop resumes every coroutine and Postgres answers or aborts.  *)
(* The end of a transaction wakes every waiter for its rows, so a waiter   *)
(* is not passed over forever by those that come later.                    *)
(***************************************************************************)
FairSpec == Spec /\ \A w \in Worker : WF_vars(Advance(w)) /\ SF_vars(InsertRow(w))

-----------------------------------------------------------------------------
Recorded == {e \in Event : row[e] # NoBatch}

TypeOK ==
  /\ row   \in [Event -> Batch \cup {NoBatch}]
  /\ pc    \in [Worker -> Control]
  /\ batch \in [Worker -> Batch \cup {NoBatch}]
  /\ next  \in [Worker -> Nat]
  /\ mine  \in [Worker -> SUBSET Event]
  /\ count \in [Worker -> Nat]
  /\ acked \in Nat
  /\ unacked \in SUBSET Event
  /\ \A w \in Worker :
       /\ pc[w] = "idle" => /\ batch[w] = NoBatch
                            /\ next[w] = 0 /\ mine[w] = {} /\ count[w] = 0
       /\ pc[w] = "inserting" => /\ batch[w] \in Batch
                                 /\ next[w] \in 1..(Len(Order[batch[w]]) + 1)

(***************************************************************************)
(* The `inserted` counts that callers are given add up to the rows of the  *)
(* table, those aside that a call committed without being able to say so:  *)
(* an event is reported as new by one delivery at most, although batches   *)
(* share events, name one twice, are repeated and are aborted, and a call  *)
(* that fails after its commit leaves the repeat nothing to count again.   *)
(***************************************************************************)
InsertedAddsUp == acked = Cardinality(Recorded \ unacked)

(***************************************************************************)
(* Every call ends: no row is waited for forever, although its holders     *)
(* fail, are aborted, and make way for others that want it too.            *)
(***************************************************************************)
CallsEnd == \A w \in Worker : pc[w] # "idle" ~> pc[w] = "idle"

(***************************************************************************)
(* However the statements of deliveries interleave, the table changes as   *)
(* if each call that commits did all of its work at its commit.            *)
(***************************************************************************)
Table == INSTANCE EventTable
ImplementsTable == Table!Spec
=============================================================================
