--------------------------- MODULE ConnectionPool ---------------------------
(***************************************************************************)
(* How requests share the connection pool of api/adapters/db.py.  A write  *)
(* takes one connection in IdempotencyMiddleware.dispatch and keeps it     *)
(* while the handler runs (api/middleware/idempotency.py:70-146); the      *)
(* handler of POST /v1/routing/events/batch takes a second one, several    *)
(* times in turn, for the ingest, for each read of the active policy and   *)
(* for each bump (api/routes/routing.py:107, 205, 226).  jobs_run takes    *)
(* none.  A read of a policy and readyz take one and nothing else.         *)
(*                                                                         *)
(* The pool itself is psycopg_pool's AsyncConnectionPool: a released       *)
(* connection goes to the first waiter, and a wait that lasts 30 s ends in *)
(* PoolTimeout.                                                            *)
(***************************************************************************)
EXTENDS Integers, Sequences, FiniteSets, SequencesExt

CONSTANTS Worker,   \* requests App Runner lets in at a time (max_concurrency)
          PoolSize, \* max_size of the pool
          MaxUses   \* bound: connections a handler takes in turn

ASSUME PoolSizeAssumption == PoolSize \in Nat \ {0}
ASSUME MaxUsesAssumption  == MaxUses \in Nat \ {0}
ASSUME WorkerAssumption   == IsFiniteSet(Worker)

(***************************************************************************)
(* entering: a write waits for the gate's connection.  gated: it holds it, *)
(* in the handler or storing the answer.  wanting: waits for a connection  *)
(* of the handler.  using: holds that connection.  leaving: the handler    *)
(* has raised, and the gate's connection is still held.                    *)
(***************************************************************************)
VARIABLES
  kind,    \* kind[w]: "read", "job" or "events" while a request is served
  pc,      \* "idle" or one of the above
  uses,    \* connections the handler has taken so far
  free,    \* idle connections of the pool
  waiters  \* requests waiting for a connection, first come first served

vars == <<kind, pc, uses, free, waiters>>

Init == /\ kind = [w \in Worker |-> "none"]
        /\ pc   = [w \in Worker |-> "idle"]
        /\ uses = [w \in Worker |-> 0]
        /\ free = PoolSize
        /\ waiters = <<>>

IsWrite(w) == kind[w] \in {"job", "events"}

HoldsGate(w) == \/ pc[w] \in {"gated", "leaving"}
                \/ IsWrite(w) /\ pc[w] \in {"wanting", "using"}

Holders == {w \in Worker : HoldsGate(w) \/ pc[w] = "using"}

\* What a waiter becomes when it is given a connection.
Granted(state) == IF state = "entering" THEN "gated" ELSE "using"

\* getconn: at once while the pool has an idle connection, else in line.
Acquire(w, wait) ==
  IF free > 0
  THEN /\ free' = free - 1
       /\ pc' = [pc EXCEPT ![w] = Granted(wait)]
       /\ UNCHANGED waiters
  ELSE /\ waiters' = Append(waiters, w)
       /\ pc' = [pc EXCEPT ![w] = wait]
       /\ UNCHANGED free

\* putconn: to the first in line, else back to the pool; w goes on to `next`.
Release(w, next) ==
  IF waiters = <<>>
  THEN /\ free' = free + 1
       /\ pc' = [pc EXCEPT ![w] = next]
       /\ UNCHANGED waiters
  ELSE LET h == Head(waiters)
       IN  /\ waiters' = Tail(waiters)
           /\ pc' = [pc EXCEPT ![w] = next, ![h] = Granted(pc[h])]
           /\ UNCHANGED free

-----------------------------------------------------------------------------
\* A request reaches the middleware (a write) or the handler (a read).
Arrive(w, k) == /\ pc[w] = "idle"
                /\ kind' = [kind EXCEPT ![w] = k]
                /\ Acquire(w, IF k = "read" THEN "wanting" ELSE "entering")
                /\ UNCHANGED uses

\* Mutant: every write's handler takes connections of its own.
TakesOwn_AnyWrite(w) == IsWrite(w)

TakesOwn(w) == kind[w] = "events"

\* The events handler enters one of its `async with pool.connection()`.
HandlerAcquires(w) == /\ pc[w] = "gated"
                      /\ TakesOwn(w)
                      /\ uses[w] < MaxUses
                      /\ uses' = [uses EXCEPT ![w] = @ + 1]
                      /\ Acquire(w, "wanting")
                      /\ UNCHANGED kind

\* It leaves the block; a read is answered with that.
HandlerReleases(w) ==
  /\ pc[w] = "using"
  /\ IF IsWrite(w)
     THEN Release(w, "gated") /\ UNCHANGED kind
     ELSE Release(w, "idle") /\ kind' = [kind EXCEPT ![w] = "none"]
  /\ UNCHANGED uses

\* The answer is stored, or the request failed: the gate's block is left.
GateReleases(w) == /\ pc[w] \in {"gated", "leaving"}
                   /\ Release(w, "idle")
                   /\ kind' = [kind EXCEPT ![w] = "none"]
                   /\ uses' = [uses EXCEPT ![w] = 0]

\* Mutant: the wait of a handler inside the gate's block has no timeout.
IsTimed_Ungated(w) == pc[w] \in {"entering", "wanting"} /\ ~HoldsGate(w)

IsTimed(w) == pc[w] \in {"entering", "wanting"}

\* Mutant: the exception does not unwind the gate's block.
Unwinds_Never(w) == FALSE

Unwinds(w) == HoldsGate(w)

(***************************************************************************)
(* PoolTimeout, or the caller hangs up while the request waits: it leaves  *)
(* the line, and an exception unwinds a write through the gate's block.    *)
(***************************************************************************)
TimeOut(w) == /\ IsTimed(w)
              /\ \E i \in DOMAIN waiters : /\ waiters[i] = w
                                          /\ waiters' = RemoveAt(waiters, i)
              /\ IF Unwinds(w)
                 THEN /\ pc' = [pc EXCEPT ![w] = "leaving"]
                      /\ UNCHANGED kind
                 ELSE /\ pc' = [pc EXCEPT ![w] = "idle"]
                      /\ kind' = [kind EXCEPT ![w] = "none"]
              /\ UNCHANGED <<uses, free>>

Advance(w) == HandlerAcquires(w) \/ HandlerReleases(w) \/ GateReleases(w)

Next == \E w \in Worker : \/ \E k \in {"read", "job", "events"} : Arrive(w, k)
                          \/ Advance(w)
                          \/ TimeOut(w)

Spec == Init /\ [][Next]_vars

(***************************************************************************)
(* The event loop resumes a request that holds what it needs, and a wait   *)
(* does not outlast the pool's timeout.                                    *)
(***************************************************************************)
FairSpec == Spec /\ \A w \in Worker : WF_vars(Advance(w)) /\ WF_vars(TimeOut(w))

-----------------------------------------------------------------------------
(***************************************************************************)
(* No connection leaks and none is shared: the idle ones and those held by *)
(* the gates and the handlers are the pool, on every path, timeouts in     *)
(* either block included.                                                  *)
(***************************************************************************)
Conserved ==
  free + Cardinality({w \in Worker : HoldsGate(w)})
       + Cardinality({w \in Worker : pc[w] = "using"}) = PoolSize

(***************************************************************************)
(* The pool stalls when each of its connections is kept by the gate of a   *)
(* request whose handler waits for one more: only a timeout can end it.    *)
(* It takes as many event batches at a time as the pool has connections;   *)
(* reads, readyz and job dispatches cannot bring it about, and a pool with *)
(* more connections than requests let in never stalls.                     *)
(***************************************************************************)
Stalled == free = 0 /\ \A w \in Holders : pc[w] = "wanting"

OnlyBatchesStall ==
  Stalled => /\ \A w \in Holders : kind[w] = "events"
             /\ Cardinality(Holders) = PoolSize

\* Every request that is let in is answered, if only with the timeout's 500.
RequestsEnd == \A w \in Worker : pc[w] # "idle" ~> pc[w] = "idle"
=============================================================================
