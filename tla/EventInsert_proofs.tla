-------------------------- MODULE EventInsert_proofs --------------------------
(***************************************************************************)
(* Theorems about EventInsert, for any deliveries, events and batches.     *)
(***************************************************************************)
EXTENDS EventInsert, FiniteSetTheorems, WellFoundedInduction, TLAPS

\* An ended call is in its initial state, and only this worker's changes.
LEMMA FinishType ==
  ASSUME TypeOK, NEW w \in Worker, Finish(w)
  PROVE  /\ pc'    \in [Worker -> Control]
         /\ batch' \in [Worker -> Batch \cup {NoBatch}]
         /\ next'  \in [Worker -> Nat]
         /\ mine'  \in [Worker -> SUBSET Event]
         /\ count' \in [Worker -> Nat]
         /\ pc'[w] = "idle" /\ batch'[w] = NoBatch
         /\ next'[w] = 0 /\ mine'[w] = {} /\ count'[w] = 0
         /\ \A u \in Worker \ {w} :
              /\ pc'[u] = pc[u] /\ batch'[u] = batch[u] /\ next'[u] = next[u]
              /\ mine'[u] = mine[u] /\ count'[u] = count[u]
BY DEF TypeOK, Finish, Recounted, Control

\* The event at a position of the payload is one of the batch's.
LEMMA CurrentMember ==
  ASSUME TypeOK, NEW w \in Worker, Unfinished(w)
  PROVE  /\ batch[w] \in Batch
         /\ next[w] \in DOMAIN Order[batch[w]]
         /\ Current(w) \in Members(batch[w])
         /\ Current(w) \in Event
<1>1. batch[w] \in Batch /\ Order[batch[w]] \in Seq(Event)
  BY OrderAssumption DEF Unfinished, TypeOK
<1>2. next[w] \in 1..Len(Order[batch[w]])
  BY <1>1 DEF Unfinished, TypeOK
<1> QED
  BY <1>1, <1>2 DEF Current, Members

-----------------------------------------------------------------------------
\* The initial state is well typed.
LEMMA TypeInit == Init => TypeOK
BY DEF Init, TypeOK, Control

\* Every step preserves the types.
LEMMA TypeStep == TypeOK /\ [Next]_vars => TypeOK'
<1> SUFFICES ASSUME TypeOK, [Next]_vars PROVE TypeOK'
  OBVIOUS
<1>1. ASSUME NEW w \in Worker, NEW b \in Batch, Begin(w, b) PROVE TypeOK'
  <2>1. Len(Order[b]) \in Nat
    BY OrderAssumption
  <2> QED
    BY <1>1, <2>1 DEF Begin, TypeOK, Control
<1>2. ASSUME NEW w \in Worker, InsertRow(w) PROVE TypeOK'
  <2>1. /\ Current(w) \in Event
        /\ next[w] \in 1..Len(Order[batch[w]])
    BY <1>2, CurrentMember, OrderAssumption DEF InsertRow, IsNew, Unfinished, TypeOK
  <2>2. /\ mine' \in [Worker -> SUBSET Event] /\ count' \in [Worker -> Nat]
        /\ \A u \in Worker \ {w} : mine'[u] = mine[u] /\ count'[u] = count[u]
    <3>1. CASE UNCHANGED <<mine, count>>
      BY <3>1 DEF TypeOK
    <3>2. CASE /\ mine'  = [mine  EXCEPT ![w] = @ \cup {Current(w)}]
               /\ count' = [count EXCEPT ![w] = @ + 1]
      BY <3>2, <2>1 DEF TypeOK
    <3> QED
      BY <1>2, <3>1, <3>2 DEF InsertRow, IsNew
  <2>3. /\ next' = [next EXCEPT ![w] = @ + 1]
        /\ UNCHANGED <<row, pc, batch, acked, unacked>>
        /\ pc[w] = "inserting"
    BY <1>2 DEF InsertRow, IsNew, Unfinished
  <2>4. Len(Order[batch[w]]) \in Nat
    BY <2>3, OrderAssumption DEF TypeOK
  <2> QED
    BY <2>1, <2>2, <2>3, <2>4, SMTT(20) DEF TypeOK
<1>3. ASSUME NEW w \in Worker, Commit(w) \/ CommitUnanswered(w) PROVE TypeOK'
  <2>1. row' \in [Event -> Batch \cup {NoBatch}]
    BY <1>3 DEF Commit, CommitUnanswered, Store, AtEnd, TypeOK
  <2>2. acked' \in Nat /\ unacked' \in SUBSET Event
    BY <1>3 DEF Commit, CommitUnanswered, TypeOK
  <2>3. Finish(w)
    BY <1>3 DEF Commit, CommitUnanswered
  <2> QED
    BY <2>1, <2>2, <2>3, FinishType DEF TypeOK
<1>4. ASSUME NEW w \in Worker, DeadlockAbort(w) \/ Fail(w) PROVE TypeOK'
  BY <1>4, FinishType DEF DeadlockAbort, Fail, TypeOK
<1>5. CASE UNCHANGED vars
  BY <1>5 DEF vars, TypeOK
<1> QED
  BY <1>1, <1>2, <1>3, <1>4, <1>5 DEF Next, Advance

\* Every state of every behaviour is well typed.
THEOREM TypeInvariant == Spec => []TypeOK
  BY TypeInit, TypeStep, PTL DEF Spec

-----------------------------------------------------------------------------
(***************************************************************************)
(* The inductive invariant.  An event has no two rows in the making, nor   *)
(* one on top of a committed row, so that a commit never meets a duplicate *)
(* event_id; the rows in the making are of the batch, and counted; and an  *)
(* event a call has gone past has a row, committed or in the making.       *)
(***************************************************************************)
RowsExclusive ==
  \A w \in Worker : /\ mine[w] \cap Recorded = {}
                    /\ \A u \in Worker \ {w} : mine[w] \cap mine[u] = {}

RowsOfBatch ==
  \A w \in Worker : pc[w] = "inserting" => mine[w] \subseteq Members(batch[w])

RowsCounted ==
  \A w \in Worker : IsFiniteSet(mine[w]) /\ count[w] = Cardinality(mine[w])

PassedHaveRows ==
  \A w \in Worker : pc[w] = "inserting" =>
    \A i \in 1..(next[w] - 1) : Order[batch[w]][i] \in mine[w] \cup Recorded

IInv == /\ TypeOK
        /\ RowsExclusive
        /\ RowsOfBatch
        /\ RowsCounted
        /\ PassedHaveRows
        /\ IsFiniteSet(Recorded) /\ unacked \subseteq Recorded
        /\ InsertedAddsUp

\* The initial state satisfies the invariant.
LEMMA InvariantInit == Init => IInv
<1> SUFFICES ASSUME Init PROVE IInv
  OBVIOUS
<1>1. TypeOK
  BY TypeInit
<1>2. Recorded = {} /\ \A w \in Worker : mine[w] = {}
  BY DEF Init, Recorded
<1>3. RowsExclusive /\ RowsOfBatch /\ PassedHaveRows
  BY <1>2 DEF Init, RowsExclusive, RowsOfBatch, PassedHaveRows
<1>4. RowsCounted /\ IsFiniteSet(Recorded) /\ unacked \subseteq Recorded /\ InsertedAddsUp
  BY <1>2, FS_EmptySet DEF Init, RowsCounted, InsertedAddsUp
<1> QED
  BY <1>1, <1>3, <1>4 DEF IInv

-----------------------------------------------------------------------------
\* A call that begins has no row and has gone past no event.
LEMMA BeginStep ==
  ASSUME IInv, TypeOK', NEW w \in Worker, NEW b \in Batch, Begin(w, b)
  PROVE  IInv'
<1>1. /\ UNCHANGED <<row, mine, count, acked, unacked, Recorded>>
      /\ next'[w] = 1 /\ mine[w] = {}
      /\ \A u \in Worker \ {w} :
           pc'[u] = pc[u] /\ batch'[u] = batch[u] /\ next'[u] = next[u]
  BY DEF IInv, TypeOK, Begin, Recorded
<1>2. RowsExclusive' /\ RowsCounted' /\ IsFiniteSet(Recorded)' /\ (unacked \subseteq Recorded)' /\ InsertedAddsUp'
  BY <1>1 DEF IInv, RowsExclusive, RowsCounted, InsertedAddsUp
<1>3. RowsOfBatch'
  BY <1>1 DEF IInv, RowsOfBatch, TypeOK
<1>4. PassedHaveRows'
  <2> SUFFICES ASSUME NEW u \in Worker, pc'[u] = "inserting",
                      NEW i \in 1..(next'[u] - 1)
               PROVE  Order[batch'[u]][i] \in mine'[u] \cup Recorded'
    BY DEF PassedHaveRows
  <2> QED
    BY <1>1 DEF IInv, PassedHaveRows
<1> QED
  BY <1>2, <1>3, <1>4 DEF IInv

\* A call that ends without a commit takes its rows with it.
LEMMA EndStep ==
  ASSUME IInv, TypeOK', NEW w \in Worker, Finish(w), UNCHANGED <<row, acked, unacked>>
  PROVE  IInv'
<1>1. /\ Recorded' = Recorded
      /\ pc'[w] = "idle" /\ mine'[w] = {} /\ count'[w] = 0
      /\ \A u \in Worker \ {w} :
           /\ pc'[u] = pc[u] /\ batch'[u] = batch[u] /\ next'[u] = next[u]
           /\ mine'[u] = mine[u] /\ count'[u] = count[u]
  BY FinishType DEF IInv, Recorded
<1>2. RowsExclusive' /\ RowsOfBatch' /\ PassedHaveRows'
  BY <1>1 DEF IInv, RowsExclusive, RowsOfBatch, PassedHaveRows
<1>3. RowsCounted' /\ IsFiniteSet(Recorded)' /\ (unacked \subseteq Recorded)' /\ InsertedAddsUp'
  BY <1>1, FS_EmptySet DEF IInv, RowsCounted, InsertedAddsUp
<1> QED
  BY <1>2, <1>3 DEF IInv

\* What an INSERT adds to the rows in the making, in either case.
LEMMA InsertEffect ==
  ASSUME TypeOK, NEW w \in Worker, InsertRow(w)
  PROVE  /\ UNCHANGED <<row, pc, batch, acked, unacked, Recorded>>
         /\ pc[w] = "inserting"
         /\ next'[w] = next[w] + 1
         /\ mine'[w] = mine[w] \cup ({Current(w)} \ Recorded)
         /\ count'[w] = IF Current(w) \in Recorded \cup mine[w]
                        THEN count[w] ELSE count[w] + 1
         /\ \A u \in Worker \ {w} : /\ next'[u] = next[u] /\ mine'[u] = mine[u]
                                    /\ count'[u] = count[u]
                                    /\ Current(w) \notin mine[u]
<1>1. /\ UNCHANGED <<row, pc, batch, acked, unacked, Recorded>>
      /\ pc[w] = "inserting"
      /\ next' = [next EXCEPT ![w] = @ + 1]
      /\ \A u \in Worker \ {w} : Current(w) \notin mine[u]
  BY DEF InsertRow, IsNew, Unfinished, Recorded, HeldByOther
<1>2. Current(w) \in Event
  BY CurrentMember DEF InsertRow, IsNew
<1>3. CASE row[Current(w)] = NoBatch /\ Current(w) \notin mine[w]
  <2>1. /\ mine'  = [mine  EXCEPT ![w] = @ \cup {Current(w)}]
        /\ count' = [count EXCEPT ![w] = @ + 1]
    BY <1>3 DEF InsertRow, IsNew
  <2>2. Current(w) \notin Recorded \cup mine[w]
    BY <1>3 DEF Recorded
  <2> QED
    BY <1>1, <2>1, <2>2 DEF TypeOK
<1>4. CASE ~(row[Current(w)] = NoBatch /\ Current(w) \notin mine[w])
  <2>1. UNCHANGED <<mine, count>>
    BY <1>4 DEF InsertRow, IsNew
  <2>2. Current(w) \in Recorded \cup mine[w]
    BY <1>2, <1>4 DEF Recorded
  <2> QED
    BY <1>1, <2>1, <2>2 DEF TypeOK
<1> QED
  BY <1>3, <1>4

\* An INSERT goes past one event, which has a row from then on.
LEMMA InsertStep ==
  ASSUME IInv, TypeOK', NEW w \in Worker, InsertRow(w)
  PROVE  IInv'
<1> DEFINE cur == Current(w)
<1>1. /\ UNCHANGED <<row, pc, batch, acked, unacked, Recorded>>
      /\ pc[w] = "inserting"
      /\ next'[w] = next[w] + 1
      /\ mine'[w] = mine[w] \cup ({cur} \ Recorded)
      /\ count'[w] = IF cur \in Recorded \cup mine[w]
                     THEN count[w] ELSE count[w] + 1
      /\ \A u \in Worker \ {w} : /\ next'[u] = next[u] /\ mine'[u] = mine[u]
                                 /\ count'[u] = count[u]
                                 /\ cur \notin mine[u]
  BY InsertEffect DEF IInv
<1>2. cur \in Members(batch[w]) /\ cur = Order[batch[w]][next[w]]
  BY CurrentMember DEF IInv, InsertRow, IsNew, Current
<1>3. RowsExclusive'
  BY <1>1 DEF IInv, RowsExclusive
<1>4. RowsOfBatch'
  BY <1>1, <1>2 DEF IInv, RowsOfBatch
<1>5. RowsCounted'
  <2>1. IsFiniteSet(mine[w]) /\ count[w] = Cardinality(mine[w])
    BY DEF IInv, RowsCounted
  <2>2. CASE cur \in Recorded \cup mine[w]
    <3>1. mine'[w] = mine[w] /\ count'[w] = count[w]
      BY <1>1, <2>2
    <3> QED
      BY <1>1, <2>1, <3>1 DEF IInv, RowsCounted
  <2>3. CASE cur \notin Recorded \cup mine[w]
    <3>1. mine'[w] = mine[w] \cup {cur} /\ count'[w] = count[w] + 1
      BY <1>1, <2>3
    <3>2. /\ IsFiniteSet(mine[w] \cup {cur})
          /\ Cardinality(mine[w] \cup {cur}) = Cardinality(mine[w]) + 1
      BY <2>1, <2>3, FS_AddElement
    <3> QED
      BY <1>1, <2>1, <3>1, <3>2 DEF IInv, RowsCounted
  <2> QED
    BY <2>2, <2>3
<1>6. PassedHaveRows'
  <2> SUFFICES ASSUME NEW u \in Worker, pc[u] = "inserting",
                      NEW i \in 1..(next'[u] - 1)
               PROVE  Order[batch[u]][i] \in mine'[u] \cup Recorded
    BY <1>1 DEF PassedHaveRows
  <2>1. CASE u # w
    BY <1>1, <2>1 DEF IInv, PassedHaveRows
  <2>2. CASE u = w /\ i = next[w]
    BY <1>1, <1>2, <2>2
  <2>3. CASE u = w /\ i # next[w]
    <3>1. i \in 1..(next[w] - 1)
      BY <1>1, <2>3 DEF IInv, TypeOK
    <3> QED
      BY <1>1, <2>3, <3>1 DEF IInv, PassedHaveRows
  <2> QED
    BY <2>1, <2>2, <2>3
<1>7. IsFiniteSet(Recorded)' /\ (unacked \subseteq Recorded)' /\ InsertedAddsUp'
  BY <1>1 DEF IInv, InsertedAddsUp
<1> QED
  BY <1>3, <1>4, <1>5, <1>6, <1>7 DEF IInv

-----------------------------------------------------------------------------
\* At its commit a call has a row in the making for each event of its batch
\* that has none yet, and for no other: what it commits is the whole batch.
LEMMA CommitIsRecord ==
  ASSUME IInv, NEW w \in Worker, AtEnd(w)
  PROVE  /\ batch[w] \in Batch
         /\ mine[w] \subseteq Event
         /\ \A e \in Event :
              e \in mine[w] <=> e \in Members(batch[w]) /\ row[e] = NoBatch
<1>1. pc[w] = "inserting" /\ batch[w] \in Batch
  BY DEF IInv, TypeOK, AtEnd
<1>2. ASSUME NEW e \in Event, e \in mine[w]
      PROVE  e \in Members(batch[w]) /\ row[e] = NoBatch
  BY <1>1, <1>2 DEF IInv, RowsOfBatch, RowsExclusive, Recorded
<1>3. ASSUME NEW e \in Event, e \in Members(batch[w]), row[e] = NoBatch
      PROVE  e \in mine[w]
  <2>1. PICK i \in 1..Len(Order[batch[w]]) : e = Order[batch[w]][i]
    BY <1>1, <1>3, OrderAssumption DEF Members
  <2>2. i \in 1..(next[w] - 1)
    BY <1>1, OrderAssumption DEF IInv, TypeOK, AtEnd, Unfinished
  <2> QED
    BY <1>1, <1>3, <2>1, <2>2 DEF IInv, PassedHaveRows, Recorded
<1> QED
  BY <1>1, <1>2, <1>3 DEF IInv, TypeOK

\* A commit moves the rows in the making, and their count, to the table.
LEMMA CommitStep ==
  ASSUME IInv, TypeOK', NEW w \in Worker, Commit(w) \/ CommitUnanswered(w)
  PROVE  IInv'
<1>0. AtEnd(w) /\ Store(w) /\ Finish(w)
  BY DEF Commit, CommitUnanswered
<1>1. batch[w] \in Batch /\ batch[w] # NoBatch
  BY <1>0, CommitIsRecord, NoBatchAssumption
<1>2. Recorded' = Recorded \cup mine[w]
  BY <1>0, <1>1 DEF Store, Recorded, IInv, TypeOK
<1>3. /\ pc'[w] = "idle" /\ mine'[w] = {} /\ count'[w] = 0
      /\ \A u \in Worker \ {w} :
           /\ pc'[u] = pc[u] /\ batch'[u] = batch[u] /\ next'[u] = next[u]
           /\ mine'[u] = mine[u] /\ count'[u] = count[u]
  BY <1>0, FinishType DEF IInv
<1>4. RowsExclusive'
  BY <1>2, <1>3 DEF IInv, RowsExclusive
<1>5. RowsOfBatch' /\ PassedHaveRows'
  BY <1>2, <1>3 DEF IInv, RowsOfBatch, PassedHaveRows
<1>6. RowsCounted'
  BY <1>3, FS_EmptySet DEF IInv, RowsCounted
<1>7. /\ IsFiniteSet(mine[w]) /\ count[w] = Cardinality(mine[w])
      /\ IsFiniteSet(Recorded) /\ acked = Cardinality(Recorded \ unacked)
      /\ Recorded \cap mine[w] = {} /\ unacked \subseteq Recorded
  BY DEF IInv, RowsCounted, InsertedAddsUp, RowsExclusive
<1>8. IsFiniteSet(Recorded')
  BY <1>2, <1>7, FS_Union
<1>9. unacked' \subseteq Recorded' /\ acked' = Cardinality(Recorded' \ unacked')
  <2>1. CASE Commit(w)
    <3>1. unacked' = unacked /\ acked' = acked + count[w]
      BY <2>1 DEF Commit
    <3> DEFINE told == Recorded \ unacked
    <3>2. Recorded' \ unacked' = told \cup mine[w] /\ told \cap mine[w] = {}
      BY <1>2, <1>7, <3>1
    <3>3. IsFiniteSet(told) /\ acked = Cardinality(told)
      BY <1>7, FS_Difference
    <3> HIDE DEF told
    <3>4. Cardinality(told \cup mine[w]) =
            Cardinality(told) + Cardinality(mine[w]) - Cardinality(told \cap mine[w])
      BY ONLY <1>7, <3>3, FS_Union, Zenon
    <3>5. Cardinality(told \cap mine[w]) = 0
      BY <3>2, FS_EmptySet
    <3>6. Cardinality(told) \in Nat /\ Cardinality(mine[w]) \in Nat
      BY <1>7, <3>3, FS_CardinalityType
    <3>7. unacked' \subseteq Recorded'
      BY <1>2, <1>7, <3>1
    <3>8. Cardinality(Recorded' \ unacked') = Cardinality(told \cup mine[w])
      BY ONLY <3>2
    <3>9. Cardinality(told \cup mine[w]) = acked'
      BY <1>7, <3>1, <3>3, <3>4, <3>5, <3>6
    <3> QED
      BY ONLY <3>7, <3>8, <3>9
  <2>2. CASE CommitUnanswered(w)
    <3>1. unacked' = unacked \cup mine[w] /\ acked' = acked
      BY <2>2 DEF CommitUnanswered
    <3>2. Recorded' \ unacked' = Recorded \ unacked
      BY <1>2, <1>7, <3>1
    <3> QED
      BY <1>2, <1>7, <3>1, <3>2
  <2> QED
    BY <2>1, <2>2
<1> QED
  BY <1>4, <1>5, <1>6, <1>8, <1>9 DEF IInv, InsertedAddsUp

\* Every step preserves the invariant.
LEMMA InvariantStep == IInv /\ [Next]_vars => IInv'
<1> SUFFICES ASSUME IInv, [Next]_vars PROVE IInv'
  OBVIOUS
<1>0. TypeOK'
  BY TypeStep DEF IInv
<1>1. ASSUME NEW w \in Worker, NEW b \in Batch, Begin(w, b) PROVE IInv'
  BY <1>0, <1>1, BeginStep
<1>2. ASSUME NEW w \in Worker, InsertRow(w) PROVE IInv'
  BY <1>0, <1>2, InsertStep
<1>3. ASSUME NEW w \in Worker, Commit(w) \/ CommitUnanswered(w) PROVE IInv'
  BY <1>0, <1>3, CommitStep
<1>4. ASSUME NEW w \in Worker, DeadlockAbort(w) \/ Fail(w) PROVE IInv'
  BY <1>0, <1>4, EndStep DEF DeadlockAbort, Fail
<1>5. CASE UNCHANGED vars
  <2>1. Recorded' = Recorded
    BY <1>5 DEF vars, Recorded
  <2> QED
    BY <1>0, <1>5, <2>1 DEF vars, IInv, RowsExclusive, RowsOfBatch, RowsCounted,
                            PassedHaveRows, InsertedAddsUp
<1> QED
  BY <1>1, <1>2, <1>3, <1>4, <1>5 DEF Next, Advance

\* The counts that calls return add up to the rows of the table, but for those
\* of commits that took place without an answer.
THEOREM InsertedAddsUpHolds == Spec => []InsertedAddsUp
<1>1. IInv => InsertedAddsUp
  BY DEF IInv
<1> QED
  BY <1>1, InvariantInit, InvariantStep, PTL DEF Spec

-----------------------------------------------------------------------------
(***************************************************************************)
(* Row by row inserts implement a table that takes a batch at once: a      *)
(* commit is a Record of the call's batch, every other step a stutter.     *)
(***************************************************************************)
THEOREM TableImplemented == Spec => ImplementsTable
<1>1. Init => Table!Init
  BY DEF Init, Table!Init
<1>2. IInv /\ [Next]_vars => [Table!Next]_row
  <2> SUFFICES ASSUME IInv, [Next]_vars, row' # row PROVE Table!Next
    OBVIOUS
  <2>1. PICK w \in Worker : AtEnd(w) /\ Store(w)
    BY DEF Next, Advance, Begin, InsertRow, IsNew, DeadlockAbort, Fail, Commit,
           CommitUnanswered, vars
  <2>2. Table!Record(batch[w])
    BY <2>1, CommitIsRecord DEF Store, Table!Record
  <2> QED
    BY <2>1, <2>2, CommitIsRecord DEF Table!Next
<1> QED
  BY <1>1, <1>2, InvariantInit, InvariantStep, PTL
     DEF Spec, ImplementsTable, Table!Spec

-----------------------------------------------------------------------------
(***************************************************************************)
(* Deadlocks.  A row in the making is of an event the call has gone past,  *)
(* so a call that waits holds earlier events of its payload only.          *)
(***************************************************************************)
MineIsPassed ==
  \A w \in Worker : pc[w] = "inserting" =>
    \A e \in mine[w] : \E i \in 1..(next[w] - 1) : Order[batch[w]][i] = e

LEMMA PassedStep == IInv /\ MineIsPassed /\ [Next]_vars => MineIsPassed'
<1> SUFFICES ASSUME IInv, MineIsPassed, [Next]_vars PROVE MineIsPassed'
  OBVIOUS
<1>0. TypeOK
  BY DEF IInv
<1>1. ASSUME NEW w \in Worker,
             \A u \in Worker \ {w} : /\ pc'[u] = pc[u] /\ batch'[u] = batch[u]
                                     /\ next'[u] = next[u] /\ mine'[u] = mine[u],
             pc'[w] = "inserting" => mine'[w] = {}
      PROVE  MineIsPassed'
  BY <1>1 DEF MineIsPassed
<1>2. ASSUME NEW w \in Worker, NEW b \in Batch, Begin(w, b) PROVE MineIsPassed'
  <2>1. mine[w] = {}
    BY <1>0, <1>2 DEF Begin, TypeOK
  <2> QED
    BY <1>0, <1>1, <1>2, <2>1 DEF Begin, TypeOK
<1>3. ASSUME NEW w \in Worker, InsertRow(w) PROVE MineIsPassed'
  <2>1. /\ UNCHANGED <<pc, batch>> /\ pc[w] = "inserting"
        /\ next'[w] = next[w] + 1 /\ next[w] \in Nat \ {0}
        /\ mine'[w] \subseteq mine[w] \cup {Current(w)}
        /\ \A u \in Worker \ {w} : next'[u] = next[u] /\ mine'[u] = mine[u]
    BY <1>0, <1>3, InsertEffect DEF TypeOK
  <2>2. ASSUME NEW e \in mine'[w]
        PROVE  \E i \in 1..(next'[w] - 1) : Order[batch[w]][i] = e
    <3>1. CASE e \in mine[w]
      BY <2>1, <3>1 DEF MineIsPassed
    <3>2. CASE e = Current(w)
      <4>1. next[w] \in 1..(next'[w] - 1)
        BY <2>1
      <4> QED
        BY <3>2, <4>1 DEF Current
    <3> QED
      BY <2>1, <3>1, <3>2
  <2> QED
    BY <2>1, <2>2 DEF MineIsPassed
<1>4. ASSUME NEW w \in Worker, Finish(w) PROVE MineIsPassed'
  BY <1>0, <1>1, <1>4, FinishType
<1>5. CASE UNCHANGED vars
  BY <1>5 DEF vars, MineIsPassed
<1> QED
  BY <1>2, <1>3, <1>4, <1>5 DEF Next, Advance, Commit, CommitUnanswered, Fail, DeadlockAbort

\* Every non-empty set of naturals has a least element.
LEMMA LeastNatural ==
  ASSUME NEW T \in SUBSET Nat, T # {}
  PROVE  \E m \in T : \A n \in T : m <= n
<1> DEFINE R == OpToRel(<, Nat)
<1>1. IsWellFoundedOn(R, Nat)
  BY NatLessThanWellFounded, Zenon
<1>2. \A m, n \in Nat : m < n => <<m, n>> \in R
  BY Zenon DEF OpToRel
<1> HIDE DEF R
<1>3. PICK m \in T : \A n \in T : ~ (<<n, m>> \in R)
  BY <1>1, WFMin
<1>4. \A n \in T : ~ (n < m)
  BY <1>2, <1>3
<1> QED
  BY <1>4

(***************************************************************************)
(* Calls that wait for each other in a circle take batches that list the   *)
(* events they share in different orders: if all payloads follow one order *)
(* of the events, such as that of their creation, nothing is ever aborted  *)
(* for a deadlock.                                                         *)
(***************************************************************************)
FollowsOrder(rank) ==
  /\ \A e, f \in Event : rank[e] = rank[f] => e = f
  /\ \A b \in Batch : \A i, j \in DOMAIN Order[b] :
       i < j => rank[Order[b][i]] <= rank[Order[b][j]]

THEOREM OneOrderNeverDeadlocks ==
  ASSUME NEW N \in Nat, NEW rank \in [Event -> 0..N], FollowsOrder(rank)
  PROVE  Spec => [](\A w \in Worker : ~InCircle(w))
<1>1. ASSUME IInv, MineIsPassed, NEW u \in Worker, NEW x \in Worker, NEW y \in Worker,
             WaitsFor(u, x), WaitsFor(x, y)
      PROVE  rank[Current(u)] < rank[Current(x)]
  <2>1. /\ Current(u) \in mine[x] /\ Current(x) \in mine[y] /\ x # y
        /\ Unfinished(u) /\ Unfinished(x) /\ pc[x] = "inserting" /\ TypeOK
    BY <1>1 DEF WaitsFor, Unfinished, IInv
  <2>2. /\ Current(u) \in Event /\ Current(x) \in Event
        /\ batch[x] \in Batch /\ next[x] \in DOMAIN Order[batch[x]]
    BY <2>1, CurrentMember
  <2>3. PICK i \in 1..(next[x] - 1) : Order[batch[x]][i] = Current(u)
    BY <1>1, <2>1 DEF MineIsPassed
  <2>4. i \in DOMAIN Order[batch[x]] /\ i < next[x]
    BY <2>2, <2>3, OrderAssumption
  <2>5. rank[Current(u)] <= rank[Current(x)]
    BY <2>2, <2>3, <2>4 DEF FollowsOrder, Current
  <2>6. Current(u) # Current(x)
    BY <1>1, <2>1 DEF IInv, RowsExclusive
  <2> QED
    BY <2>2, <2>5, <2>6 DEF FollowsOrder
<1>2. ASSUME IInv, MineIsPassed, NEW w \in Worker, InCircle(w) PROVE FALSE
  <2>1. PICK circle \in SUBSET Worker :
          w \in circle /\ \A u \in circle : \E x \in circle : WaitsFor(u, x)
    BY <1>2 DEF InCircle
  <2> DEFINE Room(u) == N - rank[Current(u)]
             T == {Room(u) : u \in circle}
  <2>2. \A u \in circle : Room(u) \in Nat
    <3> SUFFICES ASSUME NEW u \in circle PROVE Room(u) \in Nat
      OBVIOUS
    <3>1. Current(u) \in Event
      BY <1>2, <2>1, CurrentMember DEF WaitsFor, IInv
    <3> QED
      BY <3>1
  <2>3. PICK m \in T : \A n \in T : m <= n
    <3>1. T \in SUBSET Nat /\ T # {}
      BY <2>1, <2>2
    <3> HIDE DEF T
    <3> QED
      BY <3>1, LeastNatural
  <2>4. PICK u \in circle : \A x \in circle : Room(u) <= Room(x)
    BY <2>3
  <2>5. PICK x \in circle : WaitsFor(u, x)
    BY <2>1
  <2>6. PICK y \in circle : WaitsFor(x, y)
    BY <2>1
  <2>7. rank[Current(u)] < rank[Current(x)]
    BY <1>1, <1>2, <2>5, <2>6
  <2>8. rank[Current(u)] \in 0..N /\ rank[Current(x)] \in 0..N
    BY <1>2, <2>5, <2>6, CurrentMember DEF WaitsFor, IInv
  <2>9. Room(u) <= Room(x)
    BY <2>4
  <2> QED
    BY <2>7, <2>8, <2>9
<1>3. Init => MineIsPassed
  BY DEF Init, MineIsPassed
<1>4. IInv /\ MineIsPassed => \A w \in Worker : ~InCircle(w)
  BY <1>2
<1> QED
  BY <1>3, <1>4, PassedStep, InvariantInit, InvariantStep, PTL DEF Spec
=============================================================================
