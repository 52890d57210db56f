------------------------ MODULE IdempotencyGate_proofs ------------------------
(***************************************************************************)
(* Theorems about IdempotencyGate, for any requests, keys, bodies and time *)
(* to live, and about the two modules that extend it: JobsRun, for any     *)
(* jobs, faults and answers of the intake, and SignedWrites, for any       *)
(* window, wait and clocks of the callers.                                 *)
(***************************************************************************)
EXTENDS JobsRun, SignedWrites, TLAPS

\* An ended request is in its initial state, and only this worker's changes.
LEMMA FinishType ==
  ASSUME TypeOK, NEW w \in Worker, Finish(w)
  PROVE  /\ pc'     \in [Worker -> Control]
         /\ key'    \in [Worker -> Key \cup {NoKey}]
         /\ body'   \in [Worker -> Body \cup {NoBody}]
         /\ answer' \in [Worker -> Answer \cup {"none"}]
         /\ pc'[w] = "idle" /\ key'[w] = NoKey
         /\ body'[w] = NoBody /\ answer'[w] = "none"
         /\ \A u \in Worker \ {w} :
              /\ pc'[u] = pc[u] /\ key'[u] = key[u]
              /\ body'[u] = body[u] /\ answer'[u] = answer[u]
BY DEF TypeOK, Finish, Control

\* A request that is not idle has a key and a body.
LEMMA BusyHasKey ==
  ASSUME TypeOK, NEW w \in Worker, pc[w] # "idle"
  PROVE  key[w] \in Key /\ body[w] \in Body
BY DEF TypeOK

\* The row a worker stores is a row of the table, and not the absent one.
LEMMA StoredRow ==
  ASSUME TypeOK, NEW w \in Worker, pc[w] = "storing"
  PROVE  LET r == [body    |-> body[w],
                   answer  |-> answer[w],
                   expires |-> now + TTL]
         IN  r \in Row /\ r # NoRow
<1> DEFINE r == [body |-> body[w], answer |-> answer[w], expires |-> now + TTL]
<1>1. body[w] \in Body /\ answer[w] \in Cacheable
  BY BusyHasKey DEF TypeOK
<1>2. now + TTL \in 0..(MaxTime + TTL)
  BY TimeAssumption DEF TypeOK, Time
<1>3. r \in Row
  BY <1>1, <1>2 DEF Row
<1>4. r.answer # NoRow.answer
  BY <1>1 DEF NoRow, Cacheable
<1> QED
  BY <1>3, <1>4

-----------------------------------------------------------------------------
\* The initial state is well typed.
LEMMA TypeInit == Init => TypeOK
BY TimeAssumption DEF Init, TypeOK, Time, Control

\* Every step preserves the types.
LEMMA TypeStep == TypeOK /\ [Next]_vars => TypeOK'
<1> SUFFICES ASSUME TypeOK, [Next]_vars PROVE TypeOK'
  OBVIOUS
<1>1. CASE Tick
  BY <1>1, TimeAssumption DEF Tick, TypeOK, Time, requests, history
<1>2. ASSUME NEW w \in Worker, NEW k \in Key, NEW b \in Body, Replay(w, k, b)
      PROVE  TypeOK'
  <2>1. row[k] \in Row
    BY <1>2 DEF Replay, Live, TypeOK
  <2>2. row[k].answer \in Cacheable
    BY <2>1 DEF Row
  <2> QED
    BY <1>2, <2>2 DEF Replay, Promise, TypeOK, requests
<1>3. ASSUME NEW w \in Worker, NEW k \in Key, NEW b \in Body, RunHandler(w, k, b)
      PROVE  TypeOK'
  BY <1>3, NoKeyAssumption, NoBodyAssumption DEF RunHandler, TypeOK, Control
<1>4. ASSUME NEW w \in Worker, NEW a \in Answer, HandlerAnswers(w, a)
      PROVE  TypeOK'
  BY <1>4 DEF HandlerAnswers, IsStored, TypeOK, Control, Cacheable, Answer
<1>5. ASSUME NEW w \in Worker, Store(w) PROVE TypeOK'
  <2>1. row' \in [Key -> Row \cup {NoRow}]
    BY <1>5, StoredRow DEF Store, TypeOK
  <2> QED
    BY <1>5, <2>1 DEF Store, TypeOK, Control, history
<1>6. ASSUME NEW w \in Worker, Respond(w) PROVE TypeOK'
  <2>1. promised' \subseteq [key : Key, body : Body, answer : Cacheable]
    BY <1>6, BusyHasKey DEF Respond, Promise, TypeOK
  <2> QED
    BY <1>6, <2>1, FinishType DEF Respond, TypeOK
<1>7. ASSUME NEW w \in Worker, Fail(w) PROVE TypeOK'
  <2>1. lost' \subseteq Key
    BY <1>7, BusyHasKey DEF Fail, TypeOK
  <2> QED
    BY <1>7, <2>1, FinishType DEF Fail, TypeOK
<1>8. CASE UNCHANGED vars
  BY <1>8 DEF vars, TypeOK
<1> QED
  BY <1>1, <1>2, <1>3, <1>4, <1>5, <1>6, <1>7, <1>8
     DEF Next, Advance, Arrive, Collide

\* Every state of every behaviour is well typed.
THEOREM TypeInvariant == Spec => []TypeOK
  BY TypeInit, TypeStep, PTL DEF Spec

-----------------------------------------------------------------------------
(***************************************************************************)
(* The inductive invariant.  A key is calm while no two requests of it     *)
(* have run the handler at a time and no row of it has expired; two        *)
(* requests of a calm key are then never in flight together, so a request  *)
(* that is in the handler is the only one that can write the row.          *)
(***************************************************************************)
Calm(k)  == k \notin overlapped \cup outlived
Sound(k) == Calm(k) /\ k \notin lost

UniqueRunner == \A u, w \in Worker :
  u # w /\ key[u] = key[w] /\ key[w] # NoKey => key[w] \in overlapped

UnstoredHasNoRow == \A w \in Worker :
  pc[w] \in {"handling", "storing"} /\ Calm(key[w]) => row[key[w]] = NoRow

RespondingIsStored == \A w \in Worker :
  pc[w] = "responding" /\ answer[w] \in Cacheable /\ Calm(key[w]) =>
    /\ row[key[w]] # NoRow
    /\ row[key[w]].body = body[w]
    /\ row[key[w]].answer = answer[w]

HandlingHasNoRun == \A w \in Worker :
  pc[w] = "handling" /\ Sound(key[w]) => runs[key[w]] = 0

RunsAreStored == \A k \in Key :
  Sound(k) /\ runs[k] # 0 =>
    row[k] # NoRow \/ \E w \in Worker : pc[w] = "storing" /\ key[w] = k

StoringHasRun == \A w \in Worker : pc[w] = "storing" => runs[key[w]] # 0

IInv == /\ TypeOK
        /\ UniqueRunner
        /\ UnstoredHasNoRow
        /\ RespondingIsStored
        /\ HandlingHasNoRun
        /\ RunsAreStored
        /\ StoringHasRun
        /\ PromiseKept
        /\ RunsOnce
        /\ ServerErrorReRuns

-----------------------------------------------------------------------------
\* The initial state satisfies the invariant: nothing is in flight.
LEMMA InductiveInit == Init => IInv
BY TypeInit
   DEF Init, IInv, UniqueRunner, UnstoredHasNoRow, RespondingIsStored,
     HandlingHasNoRun, RunsAreStored, StoringHasRun, PromiseKept, RunsOnce, ServerErrorReRuns,
     Calm, Sound

\* A step of the clock, or none, disturbs no conjunct.
LEMMA QuietStep ==
  ASSUME IInv, TypeOK', UNCHANGED <<row, requests, history>>
  PROVE  IInv'
BY DEF IInv, requests, history,
     UniqueRunner, UnstoredHasNoRow, RespondingIsStored, HandlingHasNoRun,
     RunsAreStored, StoringHasRun, PromiseKept, RunsOnce, ServerErrorReRuns,
     Calm, Sound

\* A replay tells its caller what the row of the key says.
LEMMA ReplayStep ==
  ASSUME IInv, TypeOK', NEW w \in Worker, NEW k \in Key, NEW b \in Body,
         Replay(w, k, b)
  PROVE  IInv'
<1> USE DEF IInv
<1>1. UNCHANGED <<row, requests, runs, overlapped, outlived, lost>>
  BY DEF Replay
<1>2. PromiseKept'
  BY <1>1 DEF Replay, Live, Matches, Promise, PromiseKept
<1> QED
  BY <1>1, <1>2 DEF requests,
     UniqueRunner, UnstoredHasNoRow, RespondingIsStored, HandlingHasNoRun,
     RunsAreStored, StoringHasRun, PromiseKept, RunsOnce, ServerErrorReRuns,
     Calm, Sound

(***************************************************************************)
(* A request lets itself through to the handler when it sees no live row.  *)
(* If its key is calm afterwards there was no row at all and no other      *)
(* request of the key in flight, so no answer of it is on its way either.  *)
(***************************************************************************)
LEMMA RunHandlerStep ==
  ASSUME IInv, TypeOK', NEW w \in Worker, NEW k \in Key, NEW b \in Body,
         RunHandler(w, k, b)
  PROVE  IInv'
<1> USE DEF IInv
<1>1. /\ UNCHANGED <<row, answer, promised, runs, lost>>
      /\ pc[w] = "idle" /\ pc'[w] = "handling" /\ key'[w] = k
      /\ \A u \in Worker \ {w} : /\ pc'[u] = pc[u] /\ key'[u] = key[u]
                                 /\ body'[u] = body[u]
  BY DEF RunHandler, TypeOK
<1>2. overlapped \subseteq overlapped' /\ outlived \subseteq outlived'
  BY DEF RunHandler
<1>3. \A j \in Key : Calm(j)' => Calm(j)
  BY <1>2 DEF Calm
<1>4. k \notin overlapped' => \A u \in Worker : key[u] # k
  BY DEF RunHandler, Running
<1>5. Calm(k)' => row[k] = NoRow
  BY DEF RunHandler, Calm
<1>6. \A u \in Worker : pc[u] # "idle" => key[u] \in Key
  BY BusyHasKey
<1>7. UniqueRunner'
  BY <1>1, <1>2, <1>4, NoKeyAssumption DEF UniqueRunner
<1>8. UnstoredHasNoRow'
  BY <1>1, <1>3, <1>5, <1>6 DEF UnstoredHasNoRow
<1>9. RespondingIsStored'
  BY <1>1, <1>3, <1>6 DEF RespondingIsStored
<1>10. RunsAreStored'
  <2> SUFFICES ASSUME NEW j \in Key, Sound(j)', runs[j] # 0
               PROVE  row[j] # NoRow \/
                         \E u \in Worker : pc'[u] = "storing" /\ key'[u] = j
    BY <1>1 DEF RunsAreStored
  <2>1. Sound(j)
    BY <1>1, <1>3 DEF Sound
  <2> QED
    BY <1>1, <2>1 DEF RunsAreStored
<1>11. HandlingHasNoRun'
  <2>1. Sound(k)' => runs[k] = 0
    BY <1>1, <1>3, <1>4, <1>5 DEF Sound, Calm, RunsAreStored
  <2> QED
    BY <1>1, <1>3, <1>6, <2>1 DEF HandlingHasNoRun, Sound
<1>12. StoringHasRun' /\ ServerErrorReRuns'
  BY <1>1 DEF StoringHasRun, ServerErrorReRuns
<1>13. PromiseKept' /\ RunsOnce'
  BY <1>1, <1>2 DEF PromiseKept, RunsOnce
<1> QED
  BY <1>7, <1>8, <1>9, <1>10, <1>11, <1>12, <1>13

(***************************************************************************)
(* The handler answers.  In a sound key it is the only request in flight   *)
(* and its cacheable answer the first, so it is on its way to the row.     *)
(***************************************************************************)
LEMMA HandlerAnswersStep ==
  ASSUME IInv, TypeOK', NEW w \in Worker, NEW a \in Answer,
         HandlerAnswers(w, a)
  PROVE  IInv'
<1> USE DEF IInv
<1>1. /\ UNCHANGED <<row, key, body, promised, overlapped, outlived, lost>>
      /\ pc[w] = "handling" /\ pc'[w] \in {"storing", "responding"}
      /\ pc'[w] = "storing" <=> a \in Cacheable
      /\ answer'[w] = a /\ key[w] \in Key
      /\ \A u \in Worker \ {w} : pc'[u] = pc[u] /\ answer'[u] = answer[u]
  BY BusyHasKey DEF HandlerAnswers, IsStored, TypeOK
<1>2. /\ \A k \in Key \ {key[w]} : runs'[k] = runs[k]
      /\ a \notin Cacheable => runs' = runs
      /\ a \in Cacheable => runs'[key[w]] # 0
      /\ a \in Cacheable /\ runs[key[w]] = 0 => runs'[key[w]] = 1
  BY <1>1 DEF HandlerAnswers, IsStored, TypeOK
<1>3. \A u \in Worker : pc[u] # "idle" => key[u] \in Key
  BY BusyHasKey
<1>4. \A u \in Worker \ {w} : key[u] = key[w] => key[w] \in overlapped
  BY <1>1, NoKeyAssumption DEF UniqueRunner
<1>5. UniqueRunner'
  BY <1>1 DEF UniqueRunner
<1>6. UnstoredHasNoRow' /\ RespondingIsStored'
  BY <1>1 DEF UnstoredHasNoRow, RespondingIsStored, Calm
<1>7. HandlingHasNoRun'
  BY <1>1, <1>2, <1>3, <1>4 DEF HandlingHasNoRun, Sound, Calm
<1>8. RunsAreStored'
  <2> SUFFICES ASSUME NEW k \in Key, Sound(k)', runs'[k] # 0
               PROVE  row[k] # NoRow \/
                         \E u \in Worker : pc'[u] = "storing" /\ key[u] = k
    BY <1>1 DEF RunsAreStored
  <2>1. Sound(k)
    BY <1>1 DEF Sound, Calm
  <2>2. CASE k = key[w] /\ a \in Cacheable
    BY <1>1, <2>2
  <2>3. CASE k # key[w] \/ a \notin Cacheable
    <3>1. row[k] # NoRow \/ \E u \in Worker : pc[u] = "storing" /\ key[u] = k
      BY <1>2, <2>1, <2>3 DEF RunsAreStored
    <3> QED
      BY <1>1, <3>1
  <2> QED
    BY <2>2, <2>3
<1>9. StoringHasRun'
  BY <1>1, <1>2, <1>3 DEF StoringHasRun
<1>10. RunsOnce'
  <2> SUFFICES ASSUME NEW k \in Key, Sound(k)'
               PROVE  runs'[k] <= 1
    BY DEF RunsOnce, Sound, Calm
  <2>1. Sound(k)
    BY <1>1 DEF Sound, Calm
  <2>2. CASE k = key[w] /\ a \in Cacheable
    BY <1>1, <1>2, <2>1, <2>2 DEF HandlingHasNoRun
  <2>3. CASE k # key[w] \/ a \notin Cacheable
    BY <1>2, <2>1, <2>3 DEF RunsOnce, Sound, Calm
  <2> QED
    BY <2>2, <2>3
<1>11. ServerErrorReRuns'
  BY <1>1, <1>2 DEF ServerErrorReRuns
<1>12. PromiseKept'
  BY <1>1 DEF PromiseKept
<1> QED
  BY <1>5, <1>6, <1>7, <1>8, <1>9, <1>10, <1>11, <1>12

(***************************************************************************)
(* The row is written.  The key of the row has had an answer, and if it is *)
(* calm the row was absent and is now the answer of its only request.      *)
(***************************************************************************)
LEMMA StoreStep ==
  ASSUME IInv, TypeOK', NEW w \in Worker, Store(w)
  PROVE  IInv'
<1> USE DEF IInv
<1> DEFINE r == [body |-> body[w], answer |-> answer[w], expires |-> now + TTL]
<1>1. /\ UNCHANGED <<key, body, answer, promised, runs,
                   overlapped, outlived, lost>>
      /\ pc[w] = "storing" /\ pc'[w] = "responding"
      /\ key[w] \in Key
      /\ \A u \in Worker \ {w} : pc'[u] = pc[u]
  BY BusyHasKey DEF Store, TypeOK, history
<1>2. \A u \in Worker : pc[u] # "idle" => key[u] \in Key
  BY BusyHasKey
<1>3. \A u \in Worker \ {w} : key[u] = key[w] => key[w] \in overlapped
  BY <1>1, NoKeyAssumption DEF UniqueRunner
<1>4. r # NoRow
  BY <1>1, StoredRow
<1>5. /\ \A k \in Key : k # key[w] \/ row[k] # NoRow => row'[k] = row[k]
      /\ row[key[w]] = NoRow => row'[key[w]] = r
      /\ row'[key[w]] # NoRow
  BY <1>1, <1>4 DEF Store, TypeOK
<1>6. UniqueRunner'
  BY <1>1 DEF UniqueRunner
<1>7. UnstoredHasNoRow'
  BY <1>1, <1>2, <1>3, <1>5 DEF UnstoredHasNoRow, Calm
<1>8. RespondingIsStored'
  <2> SUFFICES ASSUME NEW u \in Worker, pc'[u] = "responding",
                      answer[u] \in Cacheable, Calm(key[u])'
               PROVE  /\ row'[key[u]] # NoRow
                      /\ row'[key[u]].body = body[u]
                      /\ row'[key[u]].answer = answer[u]
    BY <1>1 DEF RespondingIsStored
  <2>1. Calm(key[u])
    BY <1>1 DEF Calm
  <2>2. CASE u = w
    BY <1>1, <1>4, <1>5, <2>1, <2>2 DEF UnstoredHasNoRow
  <2>3. CASE u # w
    BY <1>1, <1>2, <1>5, <2>1, <2>3 DEF RespondingIsStored
  <2> QED
    BY <2>2, <2>3
<1>9. HandlingHasNoRun' /\ StoringHasRun' /\ RunsOnce'
  BY <1>1 DEF HandlingHasNoRun, StoringHasRun, RunsOnce, Sound, Calm
<1>10. RunsAreStored'
  BY <1>1, <1>5 DEF RunsAreStored, Sound, Calm
<1>11. PromiseKept'
  BY <1>1, <1>5 DEF PromiseKept, TypeOK
<1>12. ServerErrorReRuns'
  BY <1>1, <1>5 DEF ServerErrorReRuns, StoringHasRun
<1> QED
  BY <1>6, <1>7, <1>8, <1>9, <1>10, <1>11, <1>12

(***************************************************************************)
(* A request that has ended leaves no trace in the conjuncts about those   *)
(* in flight; what it leaves is a promise, or a lost answer.               *)
(***************************************************************************)
LEMMA FinishStep ==
  ASSUME IInv, NEW w \in Worker, Finish(w), pc[w] # "idle",
         UNCHANGED <<row, runs, overlapped, outlived>>,
         lost \subseteq lost',
         pc[w] = "storing" => key[w] \in lost'
  PROVE  /\ UniqueRunner' /\ UnstoredHasNoRow' /\ RespondingIsStored'
         /\ HandlingHasNoRun' /\ RunsAreStored' /\ StoringHasRun'
         /\ RunsOnce' /\ ServerErrorReRuns'
<1> USE DEF IInv
<1>1. /\ pc'[w] = "idle" /\ key'[w] = NoKey
      /\ \A u \in Worker \ {w} :
           /\ pc'[u] = pc[u] /\ key'[u] = key[u]
           /\ body'[u] = body[u] /\ answer'[u] = answer[u]
  BY FinishType
<1>2. \A k : (Calm(k)' <=> Calm(k)) /\ (Sound(k)' => Sound(k))
  BY DEF Calm, Sound
<1>3. UniqueRunner'
  BY <1>1 DEF UniqueRunner
<1>4. UnstoredHasNoRow' /\ RespondingIsStored'
  BY <1>1, <1>2 DEF UnstoredHasNoRow, RespondingIsStored
<1>5. HandlingHasNoRun' /\ StoringHasRun'
  BY <1>1, <1>2 DEF HandlingHasNoRun, StoringHasRun
<1>6. RunsAreStored'
  <2> SUFFICES ASSUME NEW k \in Key, Sound(k)', runs[k] # 0, row[k] = NoRow
               PROVE  \E u \in Worker : pc'[u] = "storing" /\ key'[u] = k
    BY DEF RunsAreStored
  <2>1. PICK u \in Worker : pc[u] = "storing" /\ key[u] = k
    BY <1>2 DEF RunsAreStored
  <2>2. u # w
    BY <2>1 DEF Sound
  <2> QED
    BY <1>1, <2>1, <2>2
<1>7. RunsOnce' /\ ServerErrorReRuns'
  BY DEF RunsOnce, ServerErrorReRuns
<1> QED
  BY <1>3, <1>4, <1>5, <1>6, <1>7

\* Every step preserves the invariant.
LEMMA InductiveStep == IInv /\ [Next]_vars => IInv'
<1> SUFFICES ASSUME IInv, [Next]_vars PROVE IInv'
  OBVIOUS
<1>1. TypeOK'
  BY TypeStep DEF IInv
<1>2. CASE Tick
  BY <1>1, <1>2, QuietStep DEF Tick
<1>3. ASSUME NEW w \in Worker, Arrive(w) PROVE IInv'
  BY <1>1, <1>3, ReplayStep, RunHandlerStep, QuietStep
     DEF Arrive, Collide, vars, requests, history
<1>4. ASSUME NEW w \in Worker, Advance(w) PROVE IInv'
  <2>1. ASSUME Respond(w) PROVE IInv'
    <3>1. PromiseKept'
      BY <2>1 DEF Respond, Promise, PromiseKept, RespondingIsStored, Calm, IInv
    <3> QED
      BY <1>1, <2>1, <3>1, FinishStep DEF Respond, IInv
  <2> QED
    BY <1>1, <1>4, <2>1, HandlerAnswersStep, StoreStep DEF Advance
<1>5. ASSUME NEW w \in Worker, Fail(w) PROVE IInv'
  <2>1. PromiseKept'
    BY <1>5 DEF Fail, PromiseKept, IInv
  <2> QED
    BY <1>1, <1>5, <2>1, FinishStep DEF Fail, IInv
<1>6. CASE UNCHANGED vars
  BY <1>1, <1>6, QuietStep DEF vars, requests, history
<1> QED
  BY <1>2, <1>3, <1>4, <1>5, <1>6 DEF Next

-----------------------------------------------------------------------------
(***************************************************************************)
(* A cacheable answer that was sent is the stored one, unless requests of  *)
(* the key overlapped or a row of it expired.                              *)
(***************************************************************************)
THEOREM PromiseKeptHolds == Spec => []PromiseKept
<1>1. IInv => PromiseKept
  BY DEF IInv
<1> QED
  BY InductiveInit, InductiveStep, <1>1, PTL DEF Spec

(***************************************************************************)
(* The handler produces a second cacheable answer under a key only after   *)
(* an overlap, an expired row or an answer lost before its commit.         *)
(***************************************************************************)
THEOREM RunsOnceHolds == Spec => []RunsOnce
<1>1. IInv => RunsOnce
  BY DEF IInv
<1> QED
  BY InductiveInit, InductiveStep, <1>1, PTL DEF Spec

(***************************************************************************)
(* A key under which the handler has produced nothing but 5xx has no row,  *)
(* so that its next request runs the handler.                              *)
(***************************************************************************)
THEOREM ServerErrorReRunsHolds == Spec => []ServerErrorReRuns
<1>1. IInv => ServerErrorReRuns
  BY DEF IInv
<1> QED
  BY InductiveInit, InductiveStep, <1>1, PTL DEF Spec
-----------------------------------------------------------------------------
(***************************************************************************)
(* JobsRun.  Every step of a job is one of the gate, or leaves it alone.   *)
(***************************************************************************)
LEMMA JobsStep == ASSUME JobsNext PROVE [Next]_vars
<1>1. ASSUME NEW j \in Key, NEW w \in Worker, NEW b \in Body,
             DispatchReplayed(w, j, b) \/ DispatchRun(w, j, b)
      PROVE  Next
  BY <1>1 DEF DispatchReplayed, DispatchRun, Arrive, Next
<1>2. ASSUME NEW w \in Worker, HandlerReturns(w) PROVE Next
  <2>1. RouteAnswer(push[w]) \in Answer
    BY DEF RouteAnswer, Answer
  <2> QED
    BY <1>2, <2>1 DEF HandlerReturns, Advance, Next
<1>3. ASSUME NEW w \in Worker, StoreAnswer(w) \/ RespondToQueue(w) \/ RequestFails(w)
      PROVE  Next
  BY <1>3 DEF StoreAnswer, RespondToQueue, RequestFails, Advance, Next
<1>4. ASSUME NEW w \in Worker, SendCandidate(w) \/ IntakeServes(w) PROVE UNCHANGED vars
  BY <1>4 DEF SendCandidate, IntakeServes, IntakeAccepts, IntakeRefuses, PushLost,
              gate, gateway, vars
<1>5. ASSUME NEW j \in Key, QueueGivesUp(j) PROVE UNCHANGED vars
  BY <1>5 DEF QueueGivesUp, gate, vars
<1>6. CASE ClockTicks
  BY <1>6 DEF ClockTicks, Next
<1> QED
  BY <1>1, <1>2, <1>3, <1>4, <1>5, <1>6 DEF JobsNext, Dispatch, Serve

\* jobs_run behind the middleware is a handler the gate knows: what the gate
\* guarantees of any handler, it guarantees of the jobs.
THEOREM JobsAreGated == JobsSpec => Spec
<1>1. [JobsNext]_jobVars => [Next]_vars
  BY JobsStep DEF jobVars, vars
<1>2. JobsInit => Init
  BY DEF JobsInit
<1> QED
  BY <1>1, <1>2, PTL DEF JobsSpec, Spec

(***************************************************************************)
(* The inductive invariant.  A job the gateway may forget is held: its     *)
(* candidate is with the intake, or a push of it was redirected.  A 202    *)
(* comes from there and goes through the handler's answer, the row and     *)
(* what callers were told to the queue, which listens to the request that  *)
(* runs for the job, and to no other.                                      *)
(***************************************************************************)
Held == intake \cup redirected

JobsTypeOK ==
  /\ push       \in [Worker -> Push]
  /\ intake     \in SUBSET Key
  /\ queue      \in [Key -> {"pending", "dispatched", "done"}]
  /\ awaited    \in [Key -> Worker \cup {NoWorker}]
  /\ redirected \in SUBSET Key

PushTold == \A w \in Worker :
  /\ push[w] # "none" => pc[w] = "handling"
  /\ push[w] \in {"2xx", "3xx"} => key[w] \in Held

AnswerTold == \A w \in Worker : answer[w] = "success" => key[w] \in Held

RowTold == \A k \in Key : row[k].answer = "success" => k \in Held

PromiseTold == \A p \in promised : p.answer = "success" => p.key \in Held

QueueTold == \A j \in Key : queue[j] = "done" => j \in Held

QueueListens == \A j \in Key, w \in Worker :
  awaited[j] = w => pc[w] # "idle" /\ key[w] = j

JobsInv == /\ TypeOK
           /\ JobsTypeOK
           /\ PushTold
           /\ AnswerTold
           /\ RowTold
           /\ PromiseTold
           /\ QueueTold
           /\ QueueListens

LEMMA JobsInvInit == JobsInit => JobsInv
<1> SUFFICES ASSUME JobsInit PROVE JobsInv
  OBVIOUS
<1>1. TypeOK
  BY TypeInit DEF JobsInit
<1>2. JobsTypeOK
  BY DEF JobsInit, JobsTypeOK, Push
<1> QED
  BY <1>1, <1>2, NoWorkerAssumption
     DEF JobsInit, Init, NoRow, JobsInv, PushTold, AnswerTold, RowTold, PromiseTold,
         QueueTold, QueueListens

\* The queue hears of the jobs of request w, and of no other.
LEMMA ResolveEffect ==
  ASSUME JobsInv, NEW w \in Worker, NEW state \in {"pending", "done"}, Resolve(w, state)
  PROVE  /\ queue'   \in [Key -> {"pending", "dispatched", "done"}]
         /\ awaited' \in [Key -> Worker \cup {NoWorker}]
         /\ \A j \in Key : queue'[j] = "done" =>
              queue[j] = "done" \/ (state = "done" /\ pc[w] # "idle" /\ key[w] = j)
         /\ \A j \in Key, u \in Worker : awaited'[j] = u => awaited[j] = u /\ u # w
BY NoWorkerAssumption DEF Resolve, JobsInv, JobsTypeOK, QueueListens

\* What is held stays held, and so does what is said of it.
LEMMA HeldFrame ==
  ASSUME JobsInv, NEW w \in Worker, Held \subseteq Held',
         UNCHANGED <<pc, key, answer, row, promised>>,
         \A u \in Worker \ {w} : UNCHANGED push[u],
         push'[w] # "none" => pc[w] = "handling",
         push'[w] \in {"2xx", "3xx"} => key[w] \in Held',
         \A j \in Key : queue'[j] = "done" => queue[j] = "done",
         \A j \in Key, u \in Worker : awaited'[j] = u => awaited[j] = u
  PROVE  /\ PushTold' /\ AnswerTold' /\ RowTold' /\ PromiseTold'
         /\ QueueTold' /\ QueueListens'
<1> USE DEF JobsInv
<1>1. PushTold'
  BY DEF PushTold
<1>2. AnswerTold' /\ RowTold' /\ PromiseTold'
  BY DEF AnswerTold, RowTold, PromiseTold
<1>3. QueueTold' /\ QueueListens'
  BY DEF QueueTold, QueueListens
<1> QED
  BY <1>1, <1>2, <1>3

\* The steps of the intake, the sending of a candidate, and the queue that
\* gives up leave the gate alone.
LEMMA PushJobsStep ==
  ASSUME JobsInv, NEW w \in Worker, SendCandidate(w) \/ IntakeServes(w)
  PROVE  JobsInv'
<1> USE DEF JobsInv, JobsTypeOK, Push
<1>1. /\ UNCHANGED <<now, row, pc, key, body, answer, promised, runs, overlapped,
                   outlived, lost, queue, awaited>>
      /\ pc[w] = "handling"
  BY DEF SendCandidate, IntakeServes, IntakeAccepts, IntakeRefuses, PushLost, gate,
         gateway, PushTold
<1>2. key[w] \in Key
  BY <1>1, BusyHasKey
<1>3. /\ push' \in [Worker -> Push] /\ intake' \in SUBSET Key
      /\ redirected' \in SUBSET Key
      /\ Held \subseteq Held'
      /\ \A u \in Worker \ {w} : UNCHANGED push[u]
      /\ push'[w] \in {"2xx", "3xx"} => key[w] \in Held'
  <2>1. CASE SendCandidate(w)
    BY <2>1 DEF SendCandidate, gateway, Held
  <2>2. CASE IntakeAccepts(w)
    BY <1>2, <2>2 DEF IntakeAccepts, Held
  <2>3. CASE \E status \in IntakeAnswers : IntakeRefuses(w, status)
    BY <1>2, <2>3, IntakeAssumption DEF IntakeRefuses, gateway, Held
  <2>4. CASE PushLost(w)
    BY <1>2, <2>4 DEF PushLost, Held
  <2> QED
    BY <2>1, <2>2, <2>3, <2>4 DEF IntakeServes
<1>4. TypeOK'
  BY <1>1 DEF TypeOK
<1>5. JobsTypeOK'
  BY <1>1, <1>3
<1>6. /\ PushTold' /\ AnswerTold' /\ RowTold' /\ PromiseTold'
      /\ QueueTold' /\ QueueListens'
  BY <1>1, <1>3, HeldFrame
<1> QED
  BY <1>4, <1>5, <1>6

LEMMA QueueGivesUpStep ==
  ASSUME JobsInv, NEW j \in Key, QueueGivesUp(j)
  PROVE  JobsInv'
<1> USE DEF JobsInv, JobsTypeOK
<1>1. /\ UNCHANGED <<now, row, pc, key, body, answer, promised, runs, overlapped,
                   outlived, lost, push, intake, redirected>>
      /\ queue'   = [queue   EXCEPT ![j] = "pending"]
      /\ awaited' = [awaited EXCEPT ![j] = NoWorker]
  BY DEF QueueGivesUp, gate
<1>2. TypeOK' /\ JobsTypeOK'
  BY <1>1 DEF TypeOK
<1>3. PushTold' /\ AnswerTold' /\ RowTold' /\ PromiseTold'
  BY <1>1 DEF PushTold, AnswerTold, RowTold, PromiseTold, Held
<1>4. QueueTold' /\ QueueListens'
  BY <1>1, NoWorkerAssumption DEF QueueTold, QueueListens, Held
<1> QED
  BY <1>2, <1>3, <1>4

\* A dispatch answered at once: what the queue hears is what the row holds.
LEMMA DispatchReplayedStep ==
  ASSUME JobsInv, TypeOK', NEW w \in Worker, NEW j \in Key, NEW b \in Body,
         DispatchReplayed(w, j, b)
  PROVE  JobsInv'
<1> USE DEF JobsInv, JobsTypeOK
<1>1. /\ UNCHANGED <<now, row, pc, key, body, answer, push, intake, awaited, redirected>>
      /\ promised' = promised \cup {Promise(j, b, row[j].answer)}
      /\ queue' = [queue EXCEPT ![j] = IF row[j].answer = "success"
                                       THEN "done" ELSE "pending"]
  BY DEF DispatchReplayed, Replay, requests
<1>2. JobsTypeOK'
  BY <1>1
<1>3. PushTold' /\ AnswerTold' /\ RowTold' /\ QueueListens'
  BY <1>1 DEF PushTold, AnswerTold, RowTold, QueueListens, Held
<1>4. PromiseTold'
  BY <1>1 DEF PromiseTold, RowTold, Promise, Held
<1>5. QueueTold'
  BY <1>1 DEF QueueTold, RowTold, Held
<1> QED
  BY <1>2, <1>3, <1>4, <1>5

LEMMA DispatchRunStep ==
  ASSUME JobsInv, TypeOK', NEW w \in Worker, NEW j \in Key, NEW b \in Body,
         DispatchRun(w, j, b)
  PROVE  JobsInv'
<1> USE DEF JobsInv, JobsTypeOK
<1>1. /\ UNCHANGED <<row, answer, promised, push, intake, redirected>>
      /\ pc[w] = "idle" /\ push[w] = "none" /\ answer[w] = "none"
      /\ pc'  = [pc  EXCEPT ![w] = "handling"]
      /\ key' = [key EXCEPT ![w] = j]
      /\ queue'   = [queue   EXCEPT ![j] = "dispatched"]
      /\ awaited' = [awaited EXCEPT ![j] = w]
  BY DEF DispatchRun, RunHandler, PushTold, TypeOK
<1>2. JobsTypeOK'
  BY <1>1
<1>3. PushTold' /\ AnswerTold' /\ RowTold' /\ PromiseTold' /\ QueueTold'
  BY <1>1 DEF PushTold, AnswerTold, RowTold, PromiseTold, QueueTold, Held, TypeOK
<1>4. QueueListens'
  <2> SUFFICES ASSUME NEW i \in Key, NEW u \in Worker, awaited'[i] = u
               PROVE  pc'[u] # "idle" /\ key'[u] = i
    BY DEF QueueListens
  <2>1. CASE i = j
    BY <1>1, <2>1 DEF TypeOK
  <2>2. CASE i # j
    <3>1. awaited[i] = u /\ pc[u] # "idle" /\ key[u] = i
      BY <1>1, <2>2 DEF QueueListens
    <3> QED
      BY <1>1, <3>1 DEF TypeOK
  <2> QED
    BY <2>1, <2>2
<1> QED
  BY <1>2, <1>3, <1>4

\* jobs_run answers 202 only after a push that left the job held.
LEMMA HandlerReturnsStep ==
  ASSUME JobsInv, TypeOK', NEW w \in Worker, HandlerReturns(w)
  PROVE  JobsInv'
<1> USE DEF JobsInv, JobsTypeOK
<1>1. /\ UNCHANGED <<row, key, promised, queue, awaited, intake, redirected>>
      /\ pc[w] = "handling" /\ pc'[w] \in {"storing", "responding"}
      /\ \A u \in Worker \ {w} : /\ pc'[u] = pc[u] /\ answer'[u] = answer[u]
                                 /\ push'[u] = push[u]
      /\ answer'[w] = RouteAnswer(push[w])
      /\ push'[w] = "none" /\ push[w] \in Push \ {"none", "sent"}
      /\ push' \in [Worker -> Push]
  BY DEF HandlerReturns, HandlerAnswers, gateway, TypeOK, Push
<1>2. answer'[w] = "success" => push[w] \in {"2xx", "3xx"}
  BY <1>1 DEF RouteAnswer, Push
<1>3. JobsTypeOK'
  BY <1>1
<1>4. PushTold' /\ AnswerTold'
  BY <1>1, <1>2 DEF PushTold, AnswerTold, Held
<1>5. RowTold' /\ PromiseTold' /\ QueueTold' /\ QueueListens'
  BY <1>1 DEF RowTold, PromiseTold, QueueTold, QueueListens, Held
<1> QED
  BY <1>3, <1>4, <1>5

LEMMA StoreAnswerStep ==
  ASSUME JobsInv, TypeOK', NEW w \in Worker, StoreAnswer(w)
  PROVE  JobsInv'
<1> USE DEF JobsInv, JobsTypeOK
<1>1. /\ UNCHANGED <<key, answer, promised, push, queue, awaited, intake, redirected>>
      /\ pc[w] = "storing" /\ pc'[w] = "responding"
      /\ \A u \in Worker \ {w} : pc'[u] = pc[u]
  BY DEF StoreAnswer, Store, gateway, history, TypeOK
<1>2. \A k \in Key : row'[k].answer = row[k].answer
                       \/ (k = key[w] /\ row'[k].answer = answer[w])
  BY DEF StoreAnswer, Store, TypeOK
<1>3. PushTold'
  <2>1. push[w] = "none"
    BY <1>1 DEF PushTold
  <2> QED
    BY <1>1, <2>1 DEF PushTold, Held
<1>4. AnswerTold' /\ PromiseTold' /\ QueueTold' /\ QueueListens'
  BY <1>1 DEF AnswerTold, PromiseTold, QueueTold, QueueListens, Held
<1>5. RowTold'
  BY <1>1, <1>2 DEF RowTold, AnswerTold, Held
<1>6. JobsTypeOK'
  BY <1>1
<1> QED
  BY <1>3, <1>4, <1>5, <1>6

\* A request ends, answered or lost: the queue hears success only of an answer
\* that stands for a held job.
LEMMA RequestEndsStep ==
  ASSUME JobsInv, TypeOK', NEW w \in Worker, NEW state \in {"pending", "done"},
         Finish(w), Resolve(w, state), UNCHANGED <<row, intake, redirected>>,
         state = "done" => answer[w] = "success",
         push' \in [Worker -> Push],
         push'[w] = "none", \A u \in Worker \ {w} : push'[u] = push[u],
         \A p \in promised' : p \in promised \/ (p.key = key[w] /\ p.answer = answer[w])
  PROVE  JobsInv'
<1> USE DEF JobsInv, JobsTypeOK
<1>1. /\ pc'[w] = "idle" /\ answer'[w] = "none"
      /\ \A u \in Worker \ {w} : /\ pc'[u] = pc[u] /\ key'[u] = key[u]
                                 /\ answer'[u] = answer[u]
  BY FinishType
<1>2. Held' = Held
  BY DEF Held
<1>3. JobsTypeOK'
  BY ResolveEffect
<1>4. PushTold' /\ AnswerTold' /\ RowTold'
  BY <1>1, <1>2 DEF PushTold, AnswerTold, RowTold
<1>5. PromiseTold'
  BY <1>2 DEF PromiseTold, AnswerTold
<1>6. QueueTold'
  BY <1>2, ResolveEffect DEF QueueTold, AnswerTold
<1>7. QueueListens'
  BY <1>1, ResolveEffect DEF QueueListens
<1> QED
  BY <1>3, <1>4, <1>5, <1>6, <1>7

LEMMA JobsInvStep == JobsInv /\ [JobsNext]_jobVars => JobsInv'
<1> SUFFICES ASSUME JobsInv, [JobsNext]_jobVars PROVE JobsInv'
  OBVIOUS
<1>1. TypeOK /\ TypeOK'
  <2>1. [Next]_vars
    BY JobsStep DEF jobVars, vars
  <2> QED
    BY <2>1, TypeStep DEF JobsInv
<1>2. CASE ClockTicks
  BY <1>1, <1>2 DEF ClockTicks, Tick, requests, history, gateway, JobsInv, JobsTypeOK,
     PushTold, AnswerTold, RowTold, PromiseTold, QueueTold, QueueListens, Held
<1>3. ASSUME NEW j \in Key, Dispatch(j) \/ QueueGivesUp(j) PROVE JobsInv'
  BY <1>1, <1>3, DispatchReplayedStep, DispatchRunStep, QueueGivesUpStep DEF Dispatch
<1>4. ASSUME NEW w \in Worker, RespondToQueue(w) PROVE JobsInv'
  <2> DEFINE state == IF answer[w] = "success" THEN "done" ELSE "pending"
  <2>1. /\ Finish(w) /\ Resolve(w, state) /\ state \in {"pending", "done"}
        /\ UNCHANGED <<row, intake, redirected, push>>
        /\ push[w] = "none" /\ push \in [Worker -> Push]
        /\ state = "done" => answer[w] = "success"
    BY <1>4 DEF RespondToQueue, Respond, JobsInv, JobsTypeOK, PushTold
  <2>2. \A p \in promised' : p \in promised \/ (p.key = key[w] /\ p.answer = answer[w])
    BY <1>4 DEF RespondToQueue, Respond, Promise
  <2> HIDE DEF state
  <2> QED
    BY <1>1, <2>1, <2>2, RequestEndsStep
<1>5. ASSUME NEW w \in Worker, RequestFails(w) PROVE JobsInv'
  <2>1. /\ Finish(w) /\ Resolve(w, "pending")
        /\ UNCHANGED <<row, intake, redirected, promised>>
        /\ push' = [push EXCEPT ![w] = "none"] /\ push \in [Worker -> Push]
    BY <1>5 DEF RequestFails, Fail, JobsInv, JobsTypeOK
  <2>2. /\ push' \in [Worker -> Push]
        /\ push'[w] = "none" /\ \A u \in Worker \ {w} : push'[u] = push[u]
    BY <2>1 DEF Push
  <2> QED
    BY <1>1, <2>1, <2>2, RequestEndsStep
<1>6. ASSUME NEW w \in Worker, Serve(w) \/ IntakeServes(w) PROVE JobsInv'
  BY <1>1, <1>4, <1>6, PushJobsStep, HandlerReturnsStep, StoreAnswerStep DEF Serve
<1>7. CASE UNCHANGED jobVars
  BY <1>1, <1>7 DEF jobVars, JobsInv, JobsTypeOK, PushTold, AnswerTold, RowTold,
     PromiseTold, QueueTold, QueueListens, Held
<1> QED
  BY <1>2, <1>3, <1>5, <1>6, <1>7 DEF JobsNext

(***************************************************************************)
(* No candidate silently vanishes: a job off the queue, and a 202 sent or  *)
(* stored, is of a job whose candidate the gateway holds, or of which a    *)
(* push was redirected, whatever faults the jobs meet.                     *)
(***************************************************************************)
THEOREM AcceptedIsDeliveredHolds == JobsSpec => []AcceptedIsDelivered
<1>1. JobsInv => AcceptedIsDelivered
  BY DEF JobsInv, QueueTold, RowTold, PromiseTold, Held, AcceptedIsDelivered, Accepted
<1> QED
  BY <1>1, JobsInvInit, JobsInvStep, PTL DEF JobsSpec
-----------------------------------------------------------------------------
(***************************************************************************)
(* SignedWrites.  The inductive invariant bounds the times at which an     *)
(* envelope can still matter.  Verification lets through no envelope       *)
(* dated more than FutureSkew ahead or MaxAge ago, and the wait for a      *)
(* connection is at most MaxWait; so the envelope of a request in flight,  *)
(* and of the request that stored a row, is dated at most FutureSkew       *)
(* after, and the envelope of a request that reaches the lookup at most    *)
(* MaxAge + MaxWait before.                                                *)
(***************************************************************************)
Envelope == [key : Key, body : Body, ts : Int]

SentOK == sent \in SUBSET Envelope /\ waiting \in [Worker -> {NoRequest} \cup
                                       [envelope : sent, until : Int]]

WaitBounded == \A w \in Worker : waiting[w] # NoRequest =>
  /\ now <= waiting[w].until
  /\ waiting[w].envelope.ts - now <= FutureSkew
  /\ waiting[w].until - waiting[w].envelope.ts <= MaxAge + MaxWait

\* An envelope of key k that is dated no later than that.
SignedBy(k, time) == \E e \in sent : e.key = k /\ e.ts - time <= FutureSkew

BusySigned == \A w \in Worker : pc[w] # "idle" => SignedBy(key[w], now)

RowSigned == \A k \in Key : row[k] # NoRow => SignedBy(k, row[k].expires - TTL)

SignedInv == /\ TypeOK
             /\ SentOK
             /\ WaitBounded
             /\ BusySigned
             /\ RowSigned
             /\ RowOutlivesWindow

LEMMA SignedInvInit == SignedInit => SignedInv
<1> SUFFICES ASSUME SignedInit PROVE SignedInv
  OBVIOUS
<1>1. TypeOK
  BY TypeInit DEF SignedInit
<1> QED
  BY <1>1 DEF SignedInit, Init, SignedInv, SentOK, WaitBounded, BusySigned, RowSigned,
              RowOutlivesWindow

\* Envelopes stay, and time only adds to what they are late by.
LEMMA SignedByStays ==
  ASSUME SentOK, sent \subseteq sent', NEW k, NEW t \in Int, NEW u \in Int, t <= u,
         SignedBy(k, t)
  PROVE  \E e \in sent' : e.key = k /\ e.ts - u <= FutureSkew
<1>1. PICK e \in sent : e.key = k /\ e.ts - t <= FutureSkew
  BY DEF SignedBy
<1>2. e.ts \in Int /\ FutureSkew \in Int /\ e \in sent'
  BY WindowAssumption DEF SentOK, Envelope
<1>3. e.ts - u <= FutureSkew
  BY <1>1, <1>2
<1> QED
  BY <1>1, <1>2, <1>3

LEMMA TimesAreInts ==
  ASSUME TypeOK
  PROVE  /\ now \in Int
         /\ \A k \in Key : row[k] # NoRow => row[k].expires - TTL \in Int
<1>1. now \in Int
  BY DEF TypeOK, Time
<1>2. ASSUME NEW k \in Key, row[k] # NoRow PROVE row[k].expires - TTL \in Int
  <2>1. row[k] \in Row
    BY <1>2 DEF TypeOK
  <2>2. row[k].expires \in 0..(MaxTime + TTL) /\ TTL \in Nat /\ MaxTime \in Nat
    BY <2>1, TimeAssumption DEF Row
  <2> QED
    BY <2>2
<1> QED
  BY <1>1, <1>2

\* A step of the requests, the callers or the clock that starts no request,
\* stores nothing and finds no expired row.
LEMMA SignedFrame ==
  ASSUME SignedInv, TypeOK', sent \subseteq sent', now <= now', UNCHANGED <<row, outlived>>,
         \A w \in Worker : pc'[w] # "idle" => pc[w] # "idle" /\ key'[w] = key[w]
  PROVE  BusySigned' /\ RowSigned' /\ RowOutlivesWindow'
<1> USE DEF SignedInv
<1>1. now \in Int /\ now' \in Int
  BY DEF TypeOK, Time
<1>2. BusySigned'
  <2> SUFFICES ASSUME NEW w \in Worker, pc'[w] # "idle"
               PROVE  \E e \in sent' : e.key = key[w] /\ e.ts - now' <= FutureSkew
    BY DEF BusySigned, SignedBy
  <2>1. SignedBy(key[w], now)
    BY DEF BusySigned
  <2> QED
    BY <1>1, <2>1, SignedByStays
<1>3. RowSigned'
  <2> SUFFICES ASSUME NEW k \in Key, row[k] # NoRow
               PROVE  \E e \in sent' : /\ e.key = k
                                       /\ e.ts - (row[k].expires - TTL) <= FutureSkew
    BY DEF RowSigned, SignedBy
  <2>1. SignedBy(k, row[k].expires - TTL) /\ row[k].expires - TTL \in Int
    BY TimesAreInts DEF RowSigned
  <2> QED
    BY <2>1, SignedByStays
<1>4. RowOutlivesWindow'
  BY DEF RowOutlivesWindow
<1> QED
  BY <1>2, <1>3, <1>4

\* What an envelope says of a wait that is on still holds while the clock stands.
LEMMA WaitFrame ==
  ASSUME SignedInv, sent' = sent, now' = now, NEW w \in Worker,
         waiting' = [waiting EXCEPT ![w] = NoRequest] \/ waiting' = waiting
  PROVE  SentOK' /\ WaitBounded'
<1> USE DEF SignedInv
<1>1. SentOK'
  BY DEF SentOK
<1>2. WaitBounded'
  BY DEF SentOK, WaitBounded
<1> QED
  BY <1>1, <1>2

LEMMA SignStep ==
  ASSUME SignedInv, NEW k \in Key, NEW b \in Body, NEW drift \in Drift, Sign(k, b, drift)
  PROVE  SignedInv'
<1>1. /\ UNCHANGED <<now, row, pc, key, body, answer, promised, runs, overlapped,
                   outlived, lost, waiting>>
      /\ sent' = sent \cup {[key |-> k, body |-> b, ts |-> now + drift]}
  BY DEF Sign, requests, history
<1>2. now \in Int /\ drift \in Int
  BY WindowAssumption DEF SignedInv, TypeOK, Time
<1>3. TypeOK'
  BY <1>1 DEF SignedInv, TypeOK
<1>4. SentOK'
  BY <1>1, <1>2 DEF SignedInv, SentOK, Envelope
<1>5. WaitBounded'
  BY <1>1 DEF SignedInv, WaitBounded
<1>6. BusySigned' /\ RowSigned' /\ RowOutlivesWindow'
  BY <1>1, <1>2, <1>3, SignedFrame
<1> QED
  BY <1>3, <1>4, <1>5, <1>6 DEF SignedInv

LEMMA VerifyStep ==
  ASSUME SignedInv, NEW w \in Worker, NEW e \in sent, Verify(w, e)
  PROVE  SignedInv'
<1> DEFINE request == [envelope |-> e, until |-> now + MaxWait]
<1>1. /\ UNCHANGED <<now, row, pc, key, body, answer, promised, runs, overlapped,
                   outlived, lost, sent>>
      /\ waiting' = [waiting EXCEPT ![w] = request]
      /\ now - e.ts <= MaxAge /\ e.ts - now <= FutureSkew
  BY DEF Verify, InWindow, requests, history
<1>2. /\ now \in Int /\ e.ts \in Int
      /\ MaxAge \in Nat /\ FutureSkew \in Nat /\ MaxWait \in Nat
  BY WindowAssumption DEF SignedInv, SentOK, Envelope, TypeOK, Time
<1>3. /\ request.envelope = e /\ request.until = now + MaxWait
      /\ request \in [envelope : sent, until : Int]
  BY <1>2
<1> HIDE DEF request
<1>4. TypeOK'
  BY <1>1 DEF SignedInv, TypeOK
<1>5. SentOK'
  BY <1>1, <1>3 DEF SignedInv, SentOK
<1>6. WaitBounded'
  <2> SUFFICES ASSUME NEW u \in Worker, waiting'[u] # NoRequest
               PROVE  /\ now <= waiting'[u].until
                      /\ waiting'[u].envelope.ts - now <= FutureSkew
                      /\ waiting'[u].until - waiting'[u].envelope.ts <= MaxAge + MaxWait
    BY <1>1 DEF WaitBounded
  <2>1. CASE u = w
    <3>1. waiting'[u] = request
      BY <1>1, <2>1 DEF SignedInv, SentOK
    <3>2. /\ now <= request.until
          /\ request.envelope.ts - now <= FutureSkew
          /\ request.until - request.envelope.ts <= MaxAge + MaxWait
      <4>1. /\ now <= now + MaxWait /\ e.ts - now <= FutureSkew
            /\ now + MaxWait - e.ts <= MaxAge + MaxWait
        BY <1>1, <1>2
      <4> QED
        BY <1>2, <1>3, <4>1
    <3> QED
      BY <3>1, <3>2
  <2>2. CASE u # w
    BY <1>1, <2>2 DEF SignedInv, SentOK, WaitBounded
  <2> QED
    BY <2>1, <2>2
<1>7. BusySigned' /\ RowSigned' /\ RowOutlivesWindow'
  BY <1>1, <1>2, <1>4, SignedFrame
<1> QED
  BY <1>4, <1>5, <1>6, <1>7 DEF SignedInv

(***************************************************************************)
(* A request that the gate lets through brings its envelope.  If it finds  *)
(* an expired row, the envelope under which the row was stored and its own *)
(* are apart by what the row has lived for, less the two ends.             *)
(***************************************************************************)
LEMMA LookUpRunsStep ==
  ASSUME SignedInv, TypeOK', NEW w \in Worker, waiting[w] # NoRequest,
         NEW e \in sent, e = waiting[w].envelope,
         RunHandler(w, e.key, e.body), sent' = sent
  PROVE  BusySigned' /\ RowSigned' /\ RowOutlivesWindow'
<1> USE DEF SignedInv
<1>1. /\ UNCHANGED <<now, row>> /\ e.key \in Key /\ e.ts \in Int
      /\ pc' = [pc EXCEPT ![w] = "handling"] /\ key' = [key EXCEPT ![w] = e.key]
      /\ outlived' = IF row[e.key] # NoRow THEN outlived \cup {e.key} ELSE outlived
      /\ ~Live(e.key)
  BY DEF RunHandler, SentOK, Envelope
<1>2. /\ now \in Int /\ waiting[w].until \in Int /\ TTL \in Int
      /\ MaxAge \in Int /\ FutureSkew \in Int /\ MaxWait \in Int
  BY WindowAssumption, TimeAssumption DEF SentOK, TypeOK, Time
<1>3. /\ now <= waiting[w].until
      /\ e.ts - now <= FutureSkew
      /\ waiting[w].until - e.ts <= MaxAge + MaxWait
  BY DEF WaitBounded
<1>4. BusySigned'
  BY <1>1, <1>3 DEF BusySigned, SignedBy, TypeOK
<1>5. RowSigned'
  BY <1>1 DEF RowSigned, SignedBy
<1>6. RowOutlivesWindow'
  <2> SUFFICES ASSUME NEW k \in outlived'
               PROVE  \E d, f \in {s \in sent : s.key = k} :
                        f.ts - d.ts >= TTL - (MaxAge + FutureSkew + MaxWait)
    BY DEF RowOutlivesWindow
  <2>1. CASE k \in outlived
    BY <2>1 DEF RowOutlivesWindow
  <2>2. CASE k \notin outlived
    <3>1. k = e.key /\ row[k] # NoRow /\ k \in Key
      BY <1>1, <2>2
    <3>2. row[k].expires \in Int /\ row[k].expires <= now
      <4>1. row[k] \in Row
        BY <3>1 DEF TypeOK
      <4>2. row[k].expires \in Int
        BY <4>1, TimeAssumption DEF Row
      <4> QED
        BY <1>1, <1>2, <3>1, <4>2 DEF Live
    <3>3. PICK d \in sent : d.key = k /\ d.ts - (row[k].expires - TTL) <= FutureSkew
      BY <3>1 DEF RowSigned, SignedBy
    <3>4. d.ts \in Int
      BY DEF SentOK, Envelope
    <3>5. e.ts - d.ts >= TTL - (MaxAge + FutureSkew + MaxWait)
      BY <1>1, <1>2, <1>3, <3>2, <3>3, <3>4
    <3> QED
      BY <3>1, <3>3, <3>5
  <2> QED
    BY <2>1, <2>2
<1> QED
  BY <1>4, <1>5, <1>6

\* The row that is stored dates from now, when its request was in flight.
LEMMA StoreSignedStep ==
  ASSUME SignedInv, TypeOK', NEW w \in Worker, Store(w), sent' = sent
  PROVE  BusySigned' /\ RowSigned' /\ RowOutlivesWindow'
<1> USE DEF SignedInv
<1> DEFINE r == [body |-> body[w], answer |-> answer[w], expires |-> now + TTL]
<1>1. /\ UNCHANGED <<now, key, outlived>>
      /\ pc[w] = "storing" /\ pc' = [pc EXCEPT ![w] = "responding"]
      /\ row' = IF row[key[w]] = NoRow THEN [row EXCEPT ![key[w]] = r] ELSE row
  BY DEF Store, history
<1>2. r.expires - TTL = now
  <2>1. r.expires = now + TTL /\ now \in Int /\ TTL \in Int
    BY TimeAssumption DEF TypeOK, Time
  <2> QED
    BY <2>1
<1> HIDE DEF r
<1>3. BusySigned'
  BY <1>1 DEF BusySigned, SignedBy, TypeOK
<1>4. RowSigned'
  <2> SUFFICES ASSUME NEW k \in Key, row'[k] # NoRow
               PROVE  SignedBy(k, row'[k].expires - TTL)
    BY DEF RowSigned, SignedBy
  <2>1. CASE row'[k] = row[k]
    BY <2>1 DEF RowSigned
  <2>2. CASE row'[k] # row[k]
    <3>1. k = key[w] /\ row'[k] = r
      BY <1>1, <2>2 DEF TypeOK
    <3>2. SignedBy(k, now)
      BY <1>1, <3>1 DEF BusySigned
    <3> QED
      BY <1>2, <3>1, <3>2
  <2> QED
    BY <2>1, <2>2
<1>5. RowOutlivesWindow'
  BY <1>1 DEF RowOutlivesWindow
<1> QED
  BY <1>3, <1>4, <1>5

\* Every step of a signed write is one of the gate, or leaves it alone.
LEMMA SignedStep == ASSUME SentOK, SignedNext PROVE [Next]_vars
<1>1. CASE TimePasses
  BY <1>1 DEF TimePasses, Next
<1>2. ASSUME NEW w \in Worker, LookUp(w) PROVE Next
  <2> DEFINE e == waiting[w].envelope
  <2>1. e \in Envelope
    BY <1>2 DEF LookUp, SentOK
  <2>2. e.key \in Key /\ e.body \in Body
    BY <2>1 DEF Envelope
  <2>3. Replay(w, e.key, e.body) \/ Collide(w, e.key, e.body) \/ RunHandler(w, e.key, e.body)
    BY <1>2 DEF LookUp
  <2> HIDE DEF e
  <2> QED
    BY <2>2, <2>3 DEF Arrive, Next
<1>3. ASSUME NEW w \in Worker, GateServes(w) PROVE Next
  BY <1>3 DEF GateServes, Next
<1>4. ASSUME NEW w \in Worker, GiveUp(w) PROVE UNCHANGED vars
  BY <1>4 DEF GiveUp, requests, history, vars
<1>5. ASSUME NEW k \in Key, NEW b \in Body, NEW drift \in Drift, Sign(k, b, drift)
      PROVE  UNCHANGED vars
  BY <1>5 DEF Sign, requests, history, vars
<1>6. ASSUME NEW e \in sent, Refuse(e) \/ \E w \in Worker : Verify(w, e)
      PROVE  UNCHANGED vars
  BY <1>6 DEF Refuse, Verify, signedVars, requests, history, vars
<1> QED
  BY <1>1, <1>2, <1>3, <1>4, <1>5, <1>6 DEF SignedNext

LEMMA SignedInvStep == SignedInv /\ [SignedNext]_signedVars => SignedInv'
<1> SUFFICES ASSUME SignedInv, [SignedNext]_signedVars PROVE SignedInv'
  OBVIOUS
<1>1. TypeOK /\ SentOK /\ now \in Int
  BY DEF SignedInv, TypeOK, Time
<1>2. TypeOK'
  <2>1. [Next]_vars
    BY <1>1, SignedStep DEF signedVars, vars
  <2> QED
    BY <1>1, <2>1, TypeStep
<1>3. CASE TimePasses
  <2>1. /\ now' = now + 1 /\ sent' = sent /\ waiting' = waiting
        /\ UNCHANGED <<row, pc, key, outlived>>
        /\ \A w \in Worker : waiting[w] # NoRequest => now < waiting[w].until
    BY <1>3 DEF TimePasses, Tick, requests, history
  <2>2. SentOK'
    BY <1>1, <2>1 DEF SentOK
  <2>3. WaitBounded'
    <3> SUFFICES ASSUME NEW w \in Worker, waiting[w] # NoRequest
                 PROVE  /\ now + 1 <= waiting[w].until
                        /\ waiting[w].envelope.ts - (now + 1) <= FutureSkew
                        /\ waiting[w].until - waiting[w].envelope.ts <= MaxAge + MaxWait
      BY <2>1 DEF WaitBounded
    <3>1. /\ waiting[w].until \in Int /\ waiting[w].envelope \in sent
      BY DEF SignedInv, SentOK
    <3>2. waiting[w].envelope.ts \in Int /\ FutureSkew \in Int
      BY <3>1, WindowAssumption DEF SignedInv, SentOK, Envelope
    <3>3. /\ now < waiting[w].until
          /\ waiting[w].envelope.ts - now <= FutureSkew
          /\ waiting[w].until - waiting[w].envelope.ts <= MaxAge + MaxWait
      BY <2>1 DEF SignedInv, WaitBounded
    <3> QED
      BY <1>1, <3>1, <3>2, <3>3
  <2>4. now <= now'
    BY <1>1, <2>1
  <2> QED
    BY <1>2, <2>1, <2>2, <2>3, <2>4, SignedFrame DEF SignedInv
<1>4. ASSUME NEW k \in Key, NEW b \in Body, NEW drift \in Drift, Sign(k, b, drift)
      PROVE  SignedInv'
  BY <1>4, SignStep
<1>5. ASSUME NEW e \in sent, NEW w \in Worker, Verify(w, e) PROVE SignedInv'
  BY <1>5, VerifyStep
<1>6. ASSUME NEW w \in Worker, LookUp(w) PROVE SignedInv'
  <2>1. PICK e \in sent : /\ e = waiting[w].envelope
                          /\ \/ Replay(w, e.key, e.body)
                             \/ Collide(w, e.key, e.body)
                             \/ RunHandler(w, e.key, e.body)
    BY <1>1, <1>6 DEF LookUp, SentOK
  <2>2. /\ waiting[w] # NoRequest /\ sent' = sent /\ now' = now
        /\ waiting' = [waiting EXCEPT ![w] = NoRequest]
    BY <1>6, <2>1 DEF LookUp, Replay, Collide, RunHandler, vars
  <2>3. BusySigned' /\ RowSigned' /\ RowOutlivesWindow'
    <3>1. CASE RunHandler(w, e.key, e.body)
      BY <1>2, <2>1, <2>2, <3>1, LookUpRunsStep
    <3>2. CASE Replay(w, e.key, e.body) \/ Collide(w, e.key, e.body)
      <4>1. UNCHANGED <<row, pc, key, outlived>>
        BY <3>2 DEF Replay, Collide, requests, vars
      <4> QED
        BY <1>1, <1>2, <2>2, <4>1, SignedFrame
    <3> QED
      BY <2>1, <3>1, <3>2
  <2> QED
    BY <1>2, <2>2, <2>3, WaitFrame DEF SignedInv
<1>7. ASSUME NEW w \in Worker, GiveUp(w) PROVE SignedInv'
  <2>1. /\ UNCHANGED <<now, row, pc, key, outlived, sent>>
        /\ waiting' = [waiting EXCEPT ![w] = NoRequest]
    BY <1>7 DEF GiveUp, requests, history
  <2>2. SentOK' /\ WaitBounded'
    BY <2>1, WaitFrame
  <2>3. BusySigned' /\ RowSigned' /\ RowOutlivesWindow'
    BY <1>1, <1>2, <2>1, SignedFrame
  <2> QED
    BY <1>2, <2>2, <2>3 DEF SignedInv
<1>8. ASSUME NEW w \in Worker, GateServes(w) PROVE SignedInv'
  <2>1. sent' = sent /\ waiting' = waiting /\ now' = now
    BY <1>8 DEF GateServes, Advance, HandlerAnswers, Store, Respond, Fail
  <2>2. BusySigned' /\ RowSigned' /\ RowOutlivesWindow'
    <3>1. CASE Store(w)
      BY <1>2, <2>1, <3>1, StoreSignedStep
    <3>2. CASE (\E a \in Answer : HandlerAnswers(w, a)) \/ Respond(w) \/ Fail(w)
      <4>1. /\ UNCHANGED <<row, outlived>>
            /\ \A u \in Worker : pc'[u] # "idle" => pc[u] # "idle" /\ key'[u] = key[u]
        BY <1>1, <3>2 DEF HandlerAnswers, Respond, Fail, Finish, TypeOK
      <4> QED
        BY <1>1, <1>2, <2>1, <4>1, SignedFrame
    <3> QED
      BY <1>8, <3>1, <3>2 DEF GateServes, Advance
  <2> QED
    BY <1>2, <2>1, <2>2, WaitFrame DEF SignedInv
<1>9. CASE UNCHANGED signedVars
  BY <1>2, <1>9 DEF signedVars, SignedInv, SentOK, WaitBounded, BusySigned, RowSigned,
                    SignedBy, RowOutlivesWindow
<1> QED
  BY <1>3, <1>4, <1>5, <1>6, <1>7, <1>8, <1>9 DEF SignedNext, Refuse

(***************************************************************************)
(* A row outlives the requests it answers: only another envelope, signed   *)
(* so much later, can find the row of its key expired.                     *)
(***************************************************************************)
THEOREM RowOutlivesWindowHolds == SignedSpec => []RowOutlivesWindow
<1>1. SignedInv => RowOutlivesWindow
  BY DEF SignedInv
<1> QED
  BY <1>1, SignedInvInit, SignedInvStep, PTL DEF SignedSpec

\* What the gate guarantees of any requests, it guarantees of those that get
\* through verification, however often and late they are delivered.
THEOREM SignedWritesAreGated == SignedSpec => Spec
<1>1. SignedInv /\ [SignedNext]_signedVars => [Next]_vars
  BY SignedStep DEF SignedInv, signedVars, vars
<1>2. SignedInit => Init
  BY DEF SignedInit
<1> QED
  BY <1>1, <1>2, SignedInvInit, SignedInvStep, PTL DEF SignedSpec, Spec

\* Signed writes keep the promises of the gate.
THEOREM SignedWritesKeepPromises ==
  SignedSpec => [](PromiseKept /\ RunsOnce /\ ServerErrorReRuns)
  BY SignedWritesAreGated, PromiseKeptHolds, RunsOnceHolds,
     ServerErrorReRunsHolds, PTL

(***************************************************************************)
(* From end to end: with a lifetime longer than window and wait, a key     *)
(* under which one envelope was signed has the handler produce at most one *)
(* cacheable answer and its caller told nothing but the stored one,        *)
(* however often, late and out of order the envelope is delivered, unless  *)
(* two of its deliveries overlap or an answer is lost before its commit.   *)
(* Expiry is no way to a second run any more.                              *)
(***************************************************************************)
SignedOnce(k) == \A e, f \in {s \in sent : s.key = k} : e = f

OnceForAll ==
  TTL > MaxAge + FutureSkew + MaxWait =>
    \A k \in Key \ overlapped : SignedOnce(k) =>
      /\ k \notin lost => runs[k] <= 1
      /\ \A p \in promised : p.key = k => /\ row[k] # NoRow
                                          /\ row[k].body = p.body
                                          /\ row[k].answer = p.answer

THEOREM SignedOnceRunsOnce == SignedSpec => []OnceForAll
<1>1. SignedInv /\ RowOutlivesWindow /\ PromiseKept /\ RunsOnce => OnceForAll
  <2> SUFFICES ASSUME SignedInv, RowOutlivesWindow, PromiseKept, RunsOnce,
                      TTL > MaxAge + FutureSkew + MaxWait,
                      NEW k \in Key \ overlapped, SignedOnce(k)
               PROVE  /\ k \notin lost => runs[k] <= 1
                      /\ \A p \in promised : p.key = k => /\ row[k] # NoRow
                                                          /\ row[k].body = p.body
                                                          /\ row[k].answer = p.answer
    BY DEF OnceForAll
  <2>1. k \notin outlived
    <3> SUFFICES ASSUME k \in outlived PROVE FALSE
      OBVIOUS
    <3>1. PICK e \in {s \in sent : s.key = k}, f \in {s \in sent : s.key = k} :
            f.ts - e.ts >= TTL - (MaxAge + FutureSkew + MaxWait)
      BY DEF RowOutlivesWindow
    <3>2. e = f /\ e.ts \in Int
      BY DEF SignedOnce, SignedInv, SentOK, Envelope
    <3> QED
      BY <3>1, <3>2, TimeAssumption, WindowAssumption
  <2> QED
    BY <2>1 DEF PromiseKept, RunsOnce
<1> QED
  BY <1>1, SignedInvInit, SignedInvStep, SignedWritesAreGated, PromiseKeptHolds,
     RunsOnceHolds, RowOutlivesWindowHolds, PTL DEF SignedSpec
=============================================================================
