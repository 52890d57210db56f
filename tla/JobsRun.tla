------------------------------- MODULE JobsRun -------------------------------
(***************************************************************************)
(* POST /v1/jobs/run behind the idempotency middleware: the gateway's job  *)
(* queue dispatches a job until it is answered 202, the handler jobs_run   *)
(* (api/routes/jobs.py) computes a candidate and pushes it to the          *)
(* gateway's intake (GatewayEventsClient.candidate_returned), and maps the *)
(* outcome of the push to its own answer.                                  *)
(*                                                                         *)
(* The key is jobs-run:{job_id}, so Key is the set of jobs; a dispatch of  *)
(* a job always has the same body.  The queue and the intake are the       *)
(* gateway's: they are modelled from what jobs.py and gateway_events.py    *)
(* say of them (retry on anything but 202, one candidate per job).         *)
(***************************************************************************)
EXTENDS IdempotencyGate

CONSTANTS IntakeAnswers, \* classes of status the intake may answer with
          NoWorker,
          MaxFaults      \* bound: faults in a behaviour

ASSUME IntakeAssumption   == IntakeAnswers \subseteq {"2xx", "3xx", "4xx", "5xx"}
ASSUME NoWorkerAssumption == NoWorker \notin Worker
ASSUME FaultsAssumption   == MaxFaults \in Nat

VARIABLES
  push,    \* push[w]: the candidate push of the handler running in w
  intake,  \* jobs whose candidate the gateway holds as pending
  queue,   \* queue[j]: the job in the gateway's queue
  awaited, \* awaited[j]: the request the queue waits for
  faults,  \* faults so far
  redirected \* history: jobs of which a push was answered with a 3xx

gate    == <<now, row, pc, key, body, answer,
             promised, runs, overlapped, outlived, lost>>
gateway == <<intake, queue, awaited>>
jobVars == <<now, row, pc, key, body, answer,
             promised, runs, overlapped, outlived, lost,
             push, intake, queue, awaited, faults, redirected>>

\* "lost" is TRANSPORT_ERROR_STATUS = 599: no answer reached the client.
Push == {"none", "sent", "2xx", "3xx", "4xx", "5xx", "lost"}

JobsInit == /\ Init
            /\ push    = [w \in Worker |-> "none"]
            /\ intake  = {}
            /\ queue   = [j \in Key |-> "pending"]
            /\ awaited = [j \in Key |-> NoWorker]
            /\ faults  = 0
            /\ redirected = {}

Fault == faults < MaxFaults /\ faults' = faults + 1

-----------------------------------------------------------------------------
(***************************************************************************)
(* The queue sends a pending job.  A stored answer comes back at once; a   *)
(* request that passes the gate starts the handler.  Any answer but 202    *)
(* puts the job back.                                                      *)
(***************************************************************************)
DispatchReplayed(w, j, b) ==
  /\ queue[j] = "pending"
  /\ Replay(w, j, b)
  /\ queue' = [queue EXCEPT ![j] = IF row[j].answer = "success"
                                   THEN "done" ELSE "pending"]
  /\ UNCHANGED <<push, intake, awaited, faults, redirected>>

DispatchRun(w, j, b) ==
  /\ queue[j] = "pending"
  /\ RunHandler(w, j, b)
  /\ queue'   = [queue   EXCEPT ![j] = "dispatched"]
  /\ awaited' = [awaited EXCEPT ![j] = w]
  /\ UNCHANGED <<push, intake, faults, redirected>>

\* run_fake_evolve, then candidate_returned signs and POSTs the candidate.
SendCandidate(w) ==
  /\ pc[w] = "handling"
  /\ push[w] = "none"
  /\ push' = [push EXCEPT ![w] = "sent"]
  /\ UNCHANGED <<gate, gateway, faults, redirected>>

\* The intake answers; only a 2xx means that it has the candidate.
IntakeAccepts(w) ==
  /\ push[w] = "sent"
  /\ "2xx" \in IntakeAnswers
  /\ push'   = [push EXCEPT ![w] = "2xx"]
  /\ intake' = intake \cup {key[w]}
  /\ UNCHANGED <<gate, queue, awaited, faults, redirected>>

IntakeRefuses(w, status) ==
  /\ push[w] = "sent"
  /\ status # "2xx"
  /\ push' = [push EXCEPT ![w] = status]
  /\ redirected' = IF status = "3xx" THEN redirected \cup {key[w]} ELSE redirected
  /\ Fault
  /\ UNCHANGED <<gate, gateway>>

\* httpx.HTTPError: the POST or, after the intake took it, its answer is lost.
PushLost(w) ==
  /\ push[w] = "sent"
  /\ push' = [push EXCEPT ![w] = "lost"]
  /\ intake' \in {intake, intake \cup {key[w]}}
  /\ Fault
  /\ UNCHANGED <<gate, queue, awaited, redirected>>

\* Mutant: only a 5xx of the intake is a failed delivery.
RouteAnswer_ServerErrorsOnly(status) ==
  IF status \in {"5xx", "lost"} THEN "server_error" ELSE "success"

\* status_code >= 400 becomes 502, anything else 202.
RouteAnswer(status) == IF status \in {"4xx", "5xx", "lost"}
                       THEN "server_error" ELSE "success"

HandlerReturns(w) ==
  /\ push[w] \notin {"none", "sent"}
  /\ HandlerAnswers(w, RouteAnswer(push[w]))
  /\ push' = [push EXCEPT ![w] = "none"]
  /\ UNCHANGED <<gateway, faults, redirected>>

StoreAnswer(w) == /\ Store(w)
                  /\ UNCHANGED <<push, gateway, faults, redirected>>

\* The queue hears the answer of the request it waits for, and no other.
Resolve(w, state) ==
  LET waiting == {j \in Key : awaited[j] = w}
  IN  /\ queue'   = [j \in Key |-> IF j \in waiting THEN state ELSE queue[j]]
      /\ awaited' = [j \in Key |-> IF j \in waiting THEN NoWorker
                                                    ELSE awaited[j]]

RespondToQueue(w) ==
  /\ Respond(w)
  /\ Resolve(w, IF answer[w] = "success" THEN "done" ELSE "pending")
  /\ UNCHANGED <<push, intake, faults, redirected>>

\* The request is lost at any point: the queue sees an error.
RequestFails(w) ==
  /\ Fail(w)
  /\ push' = [push EXCEPT ![w] = "none"]
  /\ Resolve(w, "pending")
  /\ Fault
  /\ UNCHANGED <<intake, redirected>>

\* The queue stops waiting; the request goes on without it.
QueueGivesUp(j) ==
  /\ awaited[j] # NoWorker
  /\ queue'   = [queue   EXCEPT ![j] = "pending"]
  /\ awaited' = [awaited EXCEPT ![j] = NoWorker]
  /\ Fault
  /\ UNCHANGED <<gate, push, intake, redirected>>

ClockTicks == Tick /\ UNCHANGED <<push, gateway, faults, redirected>>

Dispatch(j) == \E w \in Worker, b \in Body : \/ DispatchReplayed(w, j, b)
                                             \/ DispatchRun(w, j, b)

Serve(w) == \/ SendCandidate(w)
            \/ HandlerReturns(w)
            \/ StoreAnswer(w)
            \/ RespondToQueue(w)

IntakeServes(w) == \/ IntakeAccepts(w)
                   \/ \E status \in IntakeAnswers : IntakeRefuses(w, status)
                   \/ PushLost(w)

JobsNext == \/ ClockTicks
            \/ \E j \in Key : Dispatch(j) \/ QueueGivesUp(j)
            \/ \E w \in Worker : Serve(w) \/ IntakeServes(w) \/ RequestFails(w)

JobsSpec == JobsInit /\ [][JobsNext]_jobVars

(***************************************************************************)
(* The queue keeps dispatching, the event loop keeps running the handlers, *)
(* and a push that was sent is answered or times out (httpx timeout=5.0).  *)
(* The clock, the faults and giving up are not fair.                       *)
(***************************************************************************)
JobsFairness == /\ \A j \in Key : WF_jobVars(Dispatch(j))
                /\ \A w \in Worker : WF_jobVars(Serve(w))
                /\ \A w \in Worker : WF_jobVars(IntakeServes(w))

JobsFairSpec == JobsSpec /\ JobsFairness

-----------------------------------------------------------------------------
(***************************************************************************)
(* "The candidate must never silently vanish" (jobs.py:85): a job struck   *)
(* off the queue, and any 202 that was sent or is stored for replay,       *)
(* stands for a candidate the gateway holds, whatever was lost, retried or *)
(* overlapped, unless the intake answered a push with a 3xx: jobs_run      *)
(* takes whatever is below 400 for a delivery.                             *)
(***************************************************************************)
Accepted == {j \in Key : queue[j] = "done" \/ row[j].answer = "success"}
              \cup {p.key : p \in {q \in promised : q.answer = "success"}}

AcceptedIsDelivered == Accepted \subseteq intake \cup redirected

(***************************************************************************)
(* After the last fault the retries reach their goal: every job ends up    *)
(* struck off the queue, no stored answer standing in the way.             *)
(***************************************************************************)
JobsComplete == \A j \in Key : <>(queue[j] = "done")
=============================================================================
