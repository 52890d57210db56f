----------------------------- MODULE SignedWrites -----------------------------
(***************************************************************************)
(* A write on its way through both middlewares: EnvelopeVerifyMiddleware   *)
(* (api/middleware/envelope_verify.py, core/envelope.py), which is the     *)
(* outer one, and the idempotency gate behind it.                          *)
(*                                                                         *)
(* A caller signs a request once and sends it; what it sent may arrive     *)
(* any number of times, late and in any order, and the caller may sign the *)
(* same write again.  Verification reads the clock before the gate waits   *)
(* for a connection of the pool, and the gate reads it again.  Only        *)
(* envelopes of a registered key over the body they came with are          *)
(* modelled: the others are refused whenever they arrive.                  *)
(***************************************************************************)
EXTENDS IdempotencyGate

CONSTANTS MaxAge,     \* DEFAULT_TTL of verify_envelope
          FutureSkew, \* FUTURE_SKEW of verify_envelope
          MaxWait,    \* the longest wait between verification and lookup
          Drift,      \* what a caller's clock may be ahead of the service's
          NoRequest,  \* the request of a worker that waits for nothing
          MaxSigned   \* bound: envelopes in a behaviour

ASSUME WindowAssumption == /\ MaxAge \in Nat /\ FutureSkew \in Nat
                           /\ MaxWait \in Nat /\ MaxSigned \in Nat
                           /\ Drift \subseteq Int

VARIABLES
  sent,    \* envelopes signed so far: the request's key and body, and ts
  waiting  \* waiting[w]: the verified request that waits for a connection

signedVars == <<now, row, pc, key, body, answer,
                promised, runs, overlapped, outlived, lost, sent, waiting>>

SignedInit == /\ Init
              /\ sent = {}
              /\ waiting = [w \in Worker |-> NoRequest]

-----------------------------------------------------------------------------
\* sign_envelope: ts is the caller's clock.  A retry may be signed anew.
Sign(k, b, drift) ==
  /\ Cardinality(sent) < MaxSigned
  /\ sent' = sent \cup {[key |-> k, body |-> b, ts |-> now + drift]}
  /\ UNCHANGED <<now, row, requests, history, waiting>>

\* Mutants: one end of the window is left open.
InWindow_AnyAge(ts) == ts - now <= FutureSkew
InWindow_AnySkew(ts) == now - ts <= MaxAge

\* verify_envelope refuses age > ttl and -age > FUTURE_SKEW.
InWindow(ts) == /\ now - ts <= MaxAge
                /\ ts - now <= FutureSkew

\* A delivery is verified and asks the pool for a connection.
Verify(w, e) ==
  /\ pc[w] = "idle"
  /\ waiting[w] = NoRequest
  /\ InWindow(e.ts)
  /\ waiting' = [waiting EXCEPT ![w] = [envelope |-> e, until |-> now + MaxWait]]
  /\ UNCHANGED <<now, row, requests, history, sent>>

\* 401.
Refuse(e) == ~InWindow(e.ts) /\ UNCHANGED signedVars

\* The connection is there: the gate's lookup, on the body that was verified.
LookUp(w) ==
  /\ waiting[w] # NoRequest
  /\ LET e == waiting[w].envelope
     IN  \/ Replay(w, e.key, e.body)
         \/ Collide(w, e.key, e.body)
         \/ RunHandler(w, e.key, e.body)
  /\ waiting' = [waiting EXCEPT ![w] = NoRequest]
  /\ UNCHANGED sent

\* PoolTimeout, a failed SELECT, or the caller hangs up: nothing was done.
GiveUp(w) ==
  /\ waiting[w] # NoRequest
  /\ waiting' = [waiting EXCEPT ![w] = NoRequest]
  /\ UNCHANGED <<now, row, requests, history, sent>>

\* No wait outlasts its limit.
TimePasses == /\ \A w \in Worker : waiting[w] # NoRequest => now < waiting[w].until
              /\ Tick
              /\ UNCHANGED <<sent, waiting>>

GateServes(w) == (Advance(w) \/ Fail(w)) /\ UNCHANGED <<sent, waiting>>

SignedNext ==
  \/ TimePasses
  \/ \E k \in Key, b \in Body, drift \in Drift : Sign(k, b, drift)
  \/ \E e \in sent : Refuse(e) \/ \E w \in Worker : Verify(w, e)
  \/ \E w \in Worker : LookUp(w) \/ GiveUp(w) \/ GateServes(w)

SignedSpec == SignedInit /\ [][SignedNext]_signedVars

-----------------------------------------------------------------------------
(***************************************************************************)
(* A row outlives the requests it answers: when a request finds the row of *)
(* its key expired, another envelope was signed under the key, earlier by  *)
(* at least what idempotency_ttl (settings.py) exceeds the window of       *)
(* verify_envelope and the wait by.  A request that is signed once, or     *)
(* again within that span, is therefore never run a second time because    *)
(* its answer was forgotten, however often and late it is delivered.       *)
(***************************************************************************)
RowOutlivesWindow ==
  \A k \in outlived :
    \E e, f \in {s \in sent : s.key = k} :
      f.ts - e.ts >= TTL - (MaxAge + FutureSkew + MaxWait)
=============================================================================
