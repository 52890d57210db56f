--------------------------- MODULE IdempotencyGate ---------------------------
(***************************************************************************)
(* IdempotencyMiddleware.dispatch (api/middleware/idempotency.py) over the *)
(* table kairos_audit.idempotency_keys: what a caller that repeats a write *)
(* under one key is answered, and how often the handler runs for it.       *)
(*                                                                         *)
(* A worker is one in-flight write that has a key (given or derived from   *)
(* job_id).  The handler is whatever call_next reaches: it answers with    *)
(* some class of status, or the request is lost.  A body stands for its    *)
(* request_hash.  The table is only ever inserted into: the job that would *)
(* delete expired rows (core/idempotency.py:8) is not in the repository.   *)
(***************************************************************************)
EXTENDS Integers, FiniteSets

CONSTANTS Worker,     \* in-flight writes
          Key,        \* idempotency keys
          Body,       \* request bodies, one per request_hash
          NoKey,      \* the key of an idle worker
          NoBody,     \* the body of an idle worker
          TTL,        \* settings.idempotency_ttl
          MaxTime     \* bound: the last instant of the clock

ASSUME NoKeyAssumption  == NoKey \notin Key
ASSUME NoBodyAssumption == NoBody \notin Body
ASSUME TimeAssumption   == TTL \in Nat \ {0} /\ MaxTime \in Nat

Time == 0..MaxTime

\* 2xx, 4xx, 5xx: all the middleware distinguishes is status_code < 500.
Answer == {"success", "client_error", "server_error"}
Cacheable == {"success", "client_error"}

Row   == [body : Body, answer : Cacheable, expires : 0..(MaxTime + TTL)]
NoRow == [body |-> NoBody, answer |-> "none", expires |-> 0]

VARIABLES
  now,      \* the service's clock
  row,      \* row[k]: the idempotency_keys row of k, committed
  pc,       \* where the request is suspended
  key,      \* its key
  body,     \* its body
  answer,   \* the handler's status, once it has returned
  \* history, read by the properties only
  promised, \* cacheable answers sent to a caller
  runs,     \* runs[k]: cacheable answers the handler has produced under k
  overlapped, \* keys two of whose requests ran the handler at a time
  outlived,   \* keys whose row had expired when a request looked it up
  lost        \* keys with a cacheable answer lost before its commit

requests == <<pc, key, body, answer>>
history  == <<promised, runs, overlapped, outlived, lost>>
vars     == <<now, row, pc, key, body, answer,
              promised, runs, overlapped, outlived, lost>>

Control == {"idle", "handling", "storing", "responding"}

Init == /\ now = 0
        /\ row    = [k \in Key |-> NoRow]
        /\ pc     = [w \in Worker |-> "idle"]
        /\ key    = [w \in Worker |-> NoKey]
        /\ body   = [w \in Worker |-> NoBody]
        /\ answer = [w \in Worker |-> "none"]
        /\ promised = {}
        /\ runs = [k \in Key |-> 0]
        /\ overlapped = {} /\ outlived = {} /\ lost = {}

Tick == /\ now < MaxTime
        /\ now' = now + 1
        /\ UNCHANGED <<row, requests, history>>

Running(k) == {w \in Worker : key[w] = k}

\* A hit: the row is there and clock.now() < expires_at.
Live(k) == row[k] # NoRow /\ now < row[k].expires

\* Mutant: the request_hash is not compared.
Matches_AnyBody(k, b) == TRUE

\* stored_hash = request_hash
Matches(k, b) == row[k].body = b

\* Mutants: every answer is stored; only a 2xx is.
IsStored_All(a) == TRUE
IsStored_SuccessOnly(a) == a = "success"

\* A 5xx is passed on and never stored.
IsStored(a) == a \in Cacheable

Finish(w) == /\ pc'     = [pc     EXCEPT ![w] = "idle"]
             /\ key'    = [key    EXCEPT ![w] = NoKey]
             /\ body'   = [body   EXCEPT ![w] = NoBody]
             /\ answer' = [answer EXCEPT ![w] = "none"]

Promise(k, b, a) == [key |-> k, body |-> b, answer |-> a]

-----------------------------------------------------------------------------
(***************************************************************************)
(* The SELECT and what follows it up to the next await.  A hit is answered *)
(* at once, with the stored answer or with 409; the row, expired or        *)
(* absent, otherwise lets the request through to the handler.              *)
(***************************************************************************)
Replay(w, k, b) == /\ pc[w] = "idle"
                   /\ Live(k)
                   /\ Matches(k, b)
                   /\ promised' = promised \cup {Promise(k, b, row[k].answer)}
                   /\ UNCHANGED <<now, row, requests, runs, overlapped,
                                  outlived, lost>>

Collide(w, k, b) == /\ pc[w] = "idle"
                    /\ Live(k)
                    /\ ~Matches(k, b)
                    /\ UNCHANGED vars

RunHandler(w, k, b) ==
  /\ pc[w] = "idle"
  /\ ~Live(k)
  /\ pc'   = [pc   EXCEPT ![w] = "handling"]
  /\ key'  = [key  EXCEPT ![w] = k]
  /\ body' = [body EXCEPT ![w] = b]
  /\ overlapped' = IF Running(k) # {} THEN overlapped \cup {k} ELSE overlapped
  /\ outlived'   = IF row[k] # NoRow THEN outlived \cup {k} ELSE outlived
  /\ UNCHANGED <<now, row, answer, promised, runs, lost>>

\* call_next returns a response.
HandlerAnswers(w, a) ==
  /\ pc[w] = "handling"
  /\ answer' = [answer EXCEPT ![w] = a]
  /\ pc' = [pc EXCEPT ![w] = IF IsStored(a) THEN "storing" ELSE "responding"]
  /\ runs' = IF a \in Cacheable /\ runs[key[w]] < 2
             THEN [runs EXCEPT ![key[w]] = @ + 1] ELSE runs
  /\ UNCHANGED <<now, row, key, body, promised, overlapped, outlived, lost>>

\* INSERT ... ON CONFLICT (key) DO NOTHING, and the commit.
Store(w) ==
  /\ pc[w] = "storing"
  /\ row' = IF row[key[w]] = NoRow
            THEN [row EXCEPT ![key[w]] = [body    |-> body[w],
                                          answer  |-> answer[w],
                                          expires |-> now + TTL]]
            ELSE row
  /\ pc' = [pc EXCEPT ![w] = "responding"]
  /\ UNCHANGED <<now, key, body, answer, history>>

Respond(w) ==
  /\ pc[w] = "responding"
  /\ promised' = IF answer[w] \in Cacheable
                 THEN promised \cup {Promise(key[w], body[w], answer[w])}
                 ELSE promised
  /\ Finish(w)
  /\ UNCHANGED <<now, row, runs, overlapped, outlived, lost>>

(***************************************************************************)
(* The handler raises, a statement fails, the process is lost or the       *)
(* caller hangs up.  The caller learns nothing it can rely on.             *)
(***************************************************************************)
Fail(w) == /\ pc[w] # "idle"
           /\ lost' = IF pc[w] = "storing" THEN lost \cup {key[w]} ELSE lost
           /\ Finish(w)
           /\ UNCHANGED <<now, row, promised, runs, overlapped, outlived>>

Advance(w) == \/ \E a \in Answer : HandlerAnswers(w, a)
              \/ Store(w)
              \/ Respond(w)

Arrive(w) == \E k \in Key, b \in Body : \/ Replay(w, k, b)
                                        \/ Collide(w, k, b)
                                        \/ RunHandler(w, k, b)

Next == Tick \/ \E w \in Worker : Arrive(w) \/ Advance(w) \/ Fail(w)

Spec == Init /\ [][Next]_vars

-----------------------------------------------------------------------------
TypeOK ==
  /\ now    \in Time
  /\ row    \in [Key -> Row \cup {NoRow}]
  /\ pc     \in [Worker -> Control]
  /\ key    \in [Worker -> Key \cup {NoKey}]
  /\ body   \in [Worker -> Body \cup {NoBody}]
  /\ answer \in [Worker -> Answer \cup {"none"}]
  /\ promised \subseteq [key : Key, body : Body, answer : Cacheable]
  /\ runs   \in [Key -> 0..2]
  /\ overlapped \subseteq Key
  /\ outlived \subseteq Key
  /\ lost \subseteq Key
  /\ \A w \in Worker :
       /\ pc[w] = "idle" <=> key[w] = NoKey
       /\ pc[w] = "idle" <=> body[w] = NoBody
       /\ pc[w] \in {"idle", "handling"} <=> answer[w] = "none"
       /\ pc[w] = "storing" => answer[w] \in Cacheable

(***************************************************************************)
(* What a caller was told is what a repeat of the same body is told: a     *)
(* cacheable answer that was sent is the stored one, unless two requests   *)
(* of the key ran the handler at a time or a row of the key has expired.   *)
(***************************************************************************)
PromiseKept ==
  \A p \in promised :
    p.key \notin overlapped \cup outlived =>
      /\ row[p.key] # NoRow
      /\ row[p.key].body = p.body
      /\ row[p.key].answer = p.answer

(***************************************************************************)
(* The handler produces a cacheable answer at most once per key, and there *)
(* are exactly three ways to a second one: requests that overlap, a row    *)
(* that expired, and an answer lost between the handler and the commit.    *)
(***************************************************************************)
RunsOnce ==
  \A k \in Key \ (overlapped \cup outlived \cup lost) : runs[k] <= 1

(***************************************************************************)
(* "a failed dispatch MUST re-run on retry" (idempotency.py:118): while    *)
(* the handler has produced nothing but 5xx under a key, whatever its      *)
(* requests overlap with, the next one finds no row and runs the handler.  *)
(***************************************************************************)
ServerErrorReRuns == \A k \in Key : runs[k] = 0 => row[k] = NoRow

(***************************************************************************)
(* What the module's docstring says of a miss: "runs handler, stores       *)
(* response in idempotency table for replay TTL" (idempotency.py:8).       *)
(***************************************************************************)
StoredForReplay ==
  [][\A w \in Worker, k \in Key :
       Store(w) /\ key[w] = k => row'[k] # NoRow /\ now' < row'[k].expires]_vars
=============================================================================
