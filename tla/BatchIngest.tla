----------------------------- MODULE BatchIngest -----------------------------
(***************************************************************************)
(* POST /v1/routing/events/batch (api/routes/routing.py:93-180): what one  *)
(* delivery of a batch writes, and what several deliveries, overlapping or *)
(* repeated after a failure, teach the policies of its scopes.             *)
(*                                                                         *)
(* The handler commits the envelope row, then the events, then a new       *)
(* policy for each scope that has enough of them, each on its own.  An     *)
(* entry of the list is one unit of reward, and a policy is the bag of     *)
(* events it was computed from (module Hebbian has the arithmetic).  The   *)
(* pipeline that publishes a policy is one step here; PolicyVersions has   *)
(* its commits.  A batch is what was signed, with its events and           *)
(* merkle_root; nothing stops two of them from having one batch_id, nor    *)
(* one of them from listing an event twice, under one scope or two.        *)
(* Which deliveries run the handler is IdempotencyGate's: here any batch   *)
(* may, again too once it was answered (a new key, or an expired answer).  *)
(***************************************************************************)
EXTENDS Integers, Sequences, FiniteSets

CONSTANTS Worker,      \* in-flight deliveries
          Scope, Event, Batch, BatchId,
          NoBatch, NoScope,
          Payload,     \* Payload[b]: the list of events of batch b
          IdOf,        \* IdOf[b]: its batch_id
          Threshold,   \* entries of a scope that make its delta reach
                       \* settings.policy_bump_delta_threshold
          MaxBatch,    \* settings.routing_event_batch_max_size
          MaxDeliveries \* bound: deliveries in all

Entry == [event : Event, scope : Scope]

ASSUME PayloadAssumption == /\ Payload \in [Batch -> Seq(Entry)]
                            /\ IdOf    \in [Batch -> BatchId]
                            /\ NoBatch \notin Batch \cup BatchId
                            /\ NoScope \notin Scope
ASSUME BoundAssumption   == Threshold \in Nat \ {0} /\ MaxBatch \in Nat
                                                    /\ MaxDeliveries \in Nat

VARIABLES
  envelopes,  \* envelopes[i]: the batch the envelope_batches row of i is of
  recorded,   \* recorded[e]: batch_id of the routing_events row of e
  policy,     \* policy[s][e]: how often the active policy of s has learned e
  answered,   \* batches whose 202 is stored in the idempotency table
  pc,
  batch,      \* the batch being delivered
  todo,       \* its scopes not yet dealt with
  at,         \* the scope being dealt with
  basis,      \* the policy read as its baseline
  deliveries, \* history: deliveries[b], how often b ran the handler
  clobbered   \* history: scopes where a stale baseline replaced a policy

tables == <<envelopes, recorded, policy, answered>>
tasks  == <<pc, batch, todo, at, basis>>
vars   == <<envelopes, recorded, policy, answered,
            pc, batch, todo, at, basis, deliveries, clobbered>>

Unlearned == [e \in Event |-> 0]

Members(b)  == {Payload[b][i].event : i \in DOMAIN Payload[b]}
ScopesOf(b) == {Payload[b][i].scope : i \in DOMAIN Payload[b]}

\* The entries that the loop over the events puts into the bucket of scope s.
Bucket(b, s) == {i \in DOMAIN Payload[b] : Payload[b][i].scope = s}

\* The entries of batch b that list event e under scope s.
Listed(b, s, e) == {i \in Bucket(b, s) : Payload[b][i].event = e}

\* The deliveries of b so far: <<b, n>> is the n-th one.
DeliveriesOf(b) == {b} \X (1..deliveries[b])

Init == /\ envelopes = [i \in BatchId |-> NoBatch]
        /\ recorded  = [e \in Event |-> NoBatch]
        /\ policy    = [s \in Scope |-> Unlearned]
        /\ answered  = {}
        /\ pc    = [w \in Worker |-> "idle"]
        /\ batch = [w \in Worker |-> NoBatch]
        /\ todo  = [w \in Worker |-> {}]
        /\ at    = [w \in Worker |-> NoScope]
        /\ basis = [w \in Worker |-> Unlearned]
        /\ deliveries = [b \in Batch |-> 0]
        /\ clobbered = {}

Finish(w) == /\ pc'    = [pc    EXCEPT ![w] = "idle"]
             /\ batch' = [batch EXCEPT ![w] = NoBatch]
             /\ todo'  = [todo  EXCEPT ![w] = {}]
             /\ at'    = [at    EXCEPT ![w] = NoScope]
             /\ basis' = [basis EXCEPT ![w] = Unlearned]

-----------------------------------------------------------------------------
\* The size check, then write_envelope_only: ON CONFLICT DO NOTHING, commit.
WriteEnvelope(w, b) ==
  /\ pc[w] = "idle"
  /\ Len(Payload[b]) <= MaxBatch
  /\ Cardinality(UNION {DeliveriesOf(a) : a \in Batch}) < MaxDeliveries
  /\ deliveries' = [deliveries EXCEPT ![b] = @ + 1]
  /\ envelopes' = IF envelopes[IdOf[b]] = NoBatch
                  THEN [envelopes EXCEPT ![IdOf[b]] = b] ELSE envelopes
  /\ pc'    = [pc EXCEPT ![w] = "enveloped"]
  /\ batch' = [batch EXCEPT ![w] = b]
  /\ UNCHANGED <<recorded, policy, answered, todo, at, basis, clobbered>>

\* Mutant: a batch with an event that is already recorded records nothing.
NewIn_AllOrNothing(b) ==
  IF \A e \in Members(b) : recorded[e] = NoBatch THEN Members(b) ELSE {}

\* An event that is recorded stays the batch's that recorded it.
NewIn(b) == {e \in Members(b) : recorded[e] = NoBatch}

\* async_record_routing_events
RecordEvents(w) ==
  /\ pc[w] = "enveloped"
  /\ recorded' = [e \in Event |-> IF e \in NewIn(batch[w]) THEN IdOf[batch[w]]
                                                          ELSE recorded[e]]
  /\ pc'   = [pc EXCEPT ![w] = "learning"]
  /\ todo' = [todo EXCEPT ![w] = ScopesOf(batch[w])]
  /\ UNCHANGED <<envelopes, policy, answered, batch, at, basis, deliveries,
                 clobbered>>

\* _read_active_policy for the next scope of the batch.
ReadPolicy(w, s) ==
  /\ pc[w] = "learning"
  /\ s \in todo[w]
  /\ pc'    = [pc EXCEPT ![w] = "deciding"]
  /\ at'    = [at EXCEPT ![w] = s]
  /\ basis' = [basis EXCEPT ![w] = policy[s]]
  /\ UNCHANGED <<tables, batch, todo, deliveries, clobbered>>

\* HebbianUpdater.apply and should_bump: all entries of the payload count, the
\* ones whose event was already recorded included.
ShouldBump(w) == Cardinality(Bucket(batch[w], at[w])) >= Threshold

\* Mutant: a scope stays in the loop after it is dealt with.
Remaining_All(w) == todo[w]

Remaining(w) == todo[w] \ {at[w]}

NextScope(w) == /\ pc'    = [pc EXCEPT ![w] = "learning"]
                /\ todo'  = [todo EXCEPT ![w] = Remaining(w)]
                /\ at'    = [at EXCEPT ![w] = NoScope]
                /\ basis' = [basis EXCEPT ![w] = Unlearned]
                /\ UNCHANGED batch

KeepPolicy(w) == /\ pc[w] = "deciding"
                 /\ ~ShouldBump(w)
                 /\ NextScope(w)
                 /\ UNCHANGED <<tables, deliveries, clobbered>>

\* Mutant: events that another batch has recorded are left out.
Counted_NewOnly(b, s, e) == IF recorded[e] = IdOf[b] THEN Listed(b, s, e) ELSE {}

Counted(b, s, e) == Listed(b, s, e)

\* _bump_and_activate: the new policy is the one read plus the bucket, in which
\* an event counts as often as it is listed.
Learned(w) ==
  [e \in Event |-> basis[w][e] + Cardinality(Counted(batch[w], at[w], e))]

PublishPolicy(w) ==
  /\ pc[w] = "deciding"
  /\ ShouldBump(w)
  /\ policy' = [policy EXCEPT ![at[w]] = Learned(w)]
  /\ clobbered' = IF policy[at[w]] # basis[w] THEN clobbered \cup {at[w]}
                                              ELSE clobbered
  /\ NextScope(w)
  /\ UNCHANGED <<envelopes, recorded, answered, deliveries>>

\* Every scope is dealt with: the 202 is stored and sent.
AnswerBatch(w) == /\ pc[w] = "learning"
                  /\ todo[w] = {}
                  /\ answered' = answered \cup {batch[w]}
                  /\ Finish(w)
                  /\ UNCHANGED <<envelopes, recorded, policy, deliveries,
                                 clobbered>>

\* The request is lost at an await.  What it committed stays.
Fail(w) == /\ pc[w] # "idle"
           /\ Finish(w)
           /\ UNCHANGED <<tables, deliveries, clobbered>>

Advance(w) == \/ RecordEvents(w)
              \/ \E s \in Scope : ReadPolicy(w, s)
              \/ KeepPolicy(w)
              \/ PublishPolicy(w)
              \/ AnswerBatch(w)

Next == \E w \in Worker : \/ \E b \in Batch : WriteEnvelope(w, b)
                          \/ Advance(w)
                          \/ Fail(w)

Spec == Init /\ [][Next]_vars

-----------------------------------------------------------------------------
(***************************************************************************)
(* A policy learns only what the tables can account for: an event it has   *)
(* learned has its routing_events row, and the envelope of the batch_id    *)
(* that row names is of a batch with the event, unless another batch was   *)
(* delivered under that batch_id: the envelope stays the first one's.      *)
(***************************************************************************)
Reused(i) ==
  \E a, b \in Batch : /\ a # b /\ IdOf[a] = i /\ IdOf[b] = i
                      /\ deliveries[a] > 0 /\ deliveries[b] > 0

LearnedIsRecorded ==
  \A s \in Scope, e \in Event : policy[s][e] > 0 =>
    /\ recorded[e] # NoBatch
    /\ envelopes[recorded[e]] # NoBatch
    /\ e \in Members(envelopes[recorded[e]]) \/ Reused(recorded[e])

(***************************************************************************)
(* A 202 says that the batch has been learned: the active policy of each   *)
(* scope it bumped has each of its events, unless a stale baseline has     *)
(* replaced a policy of the scope.                                         *)
(***************************************************************************)
AnsweredIsLearned ==
  \A b \in answered : \A s \in ScopesOf(b) \ clobbered :
    Cardinality(Bucket(b, s)) >= Threshold =>
      \A i \in Bucket(b, s) : policy[s][Payload[b][i].event] > 0

(***************************************************************************)
(* A policy counts an event at most once for each entry that lists it      *)
(* under its scope and each delivery of the entry's batch, so an event is  *)
(* learned at most once where it is listed once, in a batch delivered      *)
(* once: interleaving and failures alone never count twice.                *)
(***************************************************************************)
DeliveredEntries(s, e) ==
  UNION {DeliveriesOf(b) \X Listed(b, s, e) : b \in Batch}

LearnedOncePerEntry ==
  \A s \in Scope, e \in Event :
    policy[s][e] <= Cardinality(DeliveredEntries(s, e))
=============================================================================
