-------------------------- MODULE BatchIngest_proofs --------------------------
(***************************************************************************)
(* Theorems about BatchIngest, for any number of deliveries, any batches   *)
(* and any way they share and repeat their events and their batch_ids.     *)
(***************************************************************************)
EXTENDS BatchIngest, FiniteSetTheorems, TLAPS

TypeOK ==
  /\ envelopes  \in [BatchId -> Batch \cup {NoBatch}]
  /\ recorded   \in [Event -> BatchId \cup {NoBatch}]
  /\ policy     \in [Scope -> [Event -> Nat]]
  /\ answered   \in SUBSET Batch
  /\ pc         \in [Worker -> {"idle", "enveloped", "learning", "deciding"}]
  /\ batch      \in [Worker -> Batch \cup {NoBatch}]
  /\ todo       \in [Worker -> SUBSET Scope]
  /\ at         \in [Worker -> Scope \cup {NoScope}]
  /\ basis      \in [Worker -> [Event -> Nat]]
  /\ deliveries \in [Batch -> Nat]
  /\ clobbered  \in SUBSET Scope

Delivering(w) == pc[w] # "idle"
HasRecorded(w) == pc[w] \in {"learning", "deciding"}

\* A delivery has a batch and, while it decides, a scope.
InFlight ==
  \A w \in Worker : /\ Delivering(w) => batch[w] \in Batch
                    /\ pc[w] = "deciding" => at[w] \in Scope

\* An envelope is of a batch that was delivered under its id.
EnvelopesTrue ==
  \A i \in BatchId : envelopes[i] # NoBatch =>
    IdOf[envelopes[i]] = i /\ deliveries[envelopes[i]] > 0

\* A batch is in flight only after its id has an envelope.
EnvelopeFirst ==
  \A w \in Worker : Delivering(w) =>
    deliveries[batch[w]] > 0 /\ envelopes[IdOf[batch[w]]] # NoBatch

\* A row names the id of a delivered batch with that event.
Accounts(b, e) == IdOf[b] = recorded[e] /\ e \in Members(b) /\ deliveries[b] > 0

RowsTrue ==
  \A e \in Event : recorded[e] # NoBatch =>
    /\ envelopes[recorded[e]] # NoBatch
    /\ \E b \in Batch : Accounts(b, e)

\* No event is learned, or about to be, before it has its row.
RowsFirst ==
  \A e \in Event :
    \/ recorded[e] # NoBatch
    \/ /\ \A w \in Worker : HasRecorded(w) => e \notin Members(batch[w])
       /\ \A w \in Worker : basis[w][e] = 0
       /\ \A s \in Scope : policy[s][e] = 0

\* The bump that batch b owes scope s is in the policy of s.
Taught(b, s) == Cardinality(Bucket(b, s)) >= Threshold =>
                  \A i \in Bucket(b, s) : policy[s][Payload[b][i].event] > 0

\* What a delivery has dealt with stays in the policy.
LearnedSoFar ==
  \A w \in Worker : HasRecorded(w) =>
    \A s \in (ScopesOf(batch[w]) \ todo[w]) \ clobbered : Taught(batch[w], s)

RecordInv == /\ TypeOK
             /\ InFlight
             /\ EnvelopesTrue
             /\ EnvelopeFirst
             /\ RowsTrue
             /\ RowsFirst

LearnInv == /\ LearnedSoFar
            /\ AnsweredIsLearned

\* The entries with event e that deliveries have yet to teach scope s.
Owes(w, s)   == Delivering(w) /\ (pc[w] = "enveloped" \/ s \in todo[w])
Owing(s, e)  == UNION {{w} \X Listed(batch[w], s, e) : w \in {v \in Worker : Owes(v, s)}}

DecidesOnce ==
  \A w \in Worker : pc[w] = "deciding" => at[w] \in todo[w]

CountsFinite == \A s \in Scope, e \in Event : /\ IsFiniteSet(DeliveredEntries(s, e))
                                              /\ IsFiniteSet(Owing(s, e))

\* What a policy of scope s, or a baseline read from one, has learned of an event
\* leaves room for the entries that deliveries have yet to teach.
RoomIn(weights, s, e) ==
  weights[e] + Cardinality(Owing(s, e)) <= Cardinality(DeliveredEntries(s, e))

RoomLeft ==
  \A e \in Event : /\ \A s \in Scope : RoomIn(policy[s], s, e)
                   /\ \A w \in Worker : pc[w] = "deciding" => RoomIn(basis[w], at[w], e)

CountInv == /\ TypeOK
            /\ InFlight
            /\ DecidesOnce
            /\ CountsFinite
            /\ RoomLeft
-----------------------------------------------------------------------------
\* The entries of a batch are finitely many, each with an event and a scope.
LEMMA BatchTypes ==
  ASSUME NEW b \in Batch
  PROVE  /\ IsFiniteSet(DOMAIN Payload[b])
         /\ \A i \in DOMAIN Payload[b] : /\ Payload[b][i].event \in Event
                                         /\ Payload[b][i].scope \in Scope
         /\ Members(b) \subseteq Event /\ ScopesOf(b) \subseteq Scope
<1>1. Payload[b] \in Seq(Entry)
  BY PayloadAssumption
<1>2. DOMAIN Payload[b] = 1..Len(Payload[b]) /\ Len(Payload[b]) \in Nat
  BY <1>1
<1>3. \A i \in DOMAIN Payload[b] : Payload[b][i] \in Entry
  BY <1>1
<1>4. IsFiniteSet(DOMAIN Payload[b])
  <2>1. 1 \in Int /\ Len(Payload[b]) \in Int
    BY <1>2
  <2> HIDE DEF Entry
  <2> QED
    BY ONLY <1>2, <2>1, FS_Interval
<1> QED
  BY <1>3, <1>4 DEF Entry, Members, ScopesOf

LEMMA ListedTypes ==
  ASSUME NEW b \in Batch, NEW s, NEW e
  PROVE  /\ IsFiniteSet(Listed(b, s, e)) /\ Cardinality(Listed(b, s, e)) \in Nat
         /\ e \notin Members(b) => Cardinality(Listed(b, s, e)) = 0
         /\ \A i \in Listed(b, s, e) : Cardinality(Listed(b, s, e)) > 0
<1>1. IsFiniteSet(DOMAIN Payload[b]) /\ Listed(b, s, e) \in SUBSET DOMAIN Payload[b]
  BY BatchTypes DEF Listed, Bucket
<1>2. IsFiniteSet(Listed(b, s, e)) /\ Cardinality(Listed(b, s, e)) \in Nat
  BY <1>1, FS_Subset, FS_CardinalityType
<1>3. Cardinality(Listed(b, s, e)) = 0 <=> Listed(b, s, e) = {}
  BY <1>2, FS_EmptySet
<1> QED
  <2>1. \A i \in Listed(b, s, e) : i \in DOMAIN Payload[b] /\ Payload[b][i].event = e
    BY DEF Listed, Bucket
  <2>2. e \notin Members(b) => Listed(b, s, e) = {}
    BY <2>1 DEF Members
  <2> QED
    BY ONLY <1>2, <1>3, <2>1, <2>2

LEMMA TypeInit == Init => TypeOK /\ InFlight
BY PayloadAssumption DEF Init, TypeOK, InFlight, Delivering, Unlearned

LEMMA TypeStep ==
  ASSUME TypeOK, InFlight, Next
  PROVE  TypeOK' /\ InFlight'
<1> USE PayloadAssumption DEF TypeOK, InFlight, Delivering
<1> PICK w \in Worker : (\E b \in Batch : WriteEnvelope(w, b)) \/ Advance(w) \/ Fail(w)
  BY DEF Next
<1>1. CASE \E b \in Batch : WriteEnvelope(w, b)
  BY <1>1 DEF WriteEnvelope
<1>2. CASE RecordEvents(w)
  BY <1>2, BatchTypes DEF RecordEvents
<1>3. CASE \E s \in Scope : ReadPolicy(w, s)
  BY <1>3 DEF ReadPolicy, tables
<1>4. CASE KeepPolicy(w)
  BY <1>4 DEF KeepPolicy, NextScope, Remaining, Unlearned, tables
<1>5. CASE PublishPolicy(w)
  <2>1. Learned(w) \in [Event -> Nat]
    <3>1. batch[w] \in Batch /\ basis[w] \in [Event -> Nat]
      BY <1>5 DEF PublishPolicy
    <3>2. \A e \in Event : basis[w][e] + Cardinality(Listed(batch[w], at[w], e)) \in Nat
      BY <3>1, ListedTypes
    <3> QED
      BY ONLY <3>2 DEF Learned, Counted
  <2> QED
    BY <1>5, <2>1 DEF PublishPolicy, NextScope, Remaining, Unlearned
<1>6. CASE AnswerBatch(w)
  BY <1>6 DEF AnswerBatch, Finish, Unlearned
<1>7. CASE Fail(w)
  BY <1>7 DEF Fail, Finish, Unlearned, tables
<1> QED
  BY <1>1, <1>2, <1>3, <1>4, <1>5, <1>6, <1>7 DEF Advance
-----------------------------------------------------------------------------
LEMMA RecordInit == Init => RecordInv
<1> SUFFICES ASSUME Init PROVE RecordInv
  OBVIOUS
<1>1. TypeOK /\ InFlight
  BY TypeInit
<1> QED
  BY <1>1 DEF Init, RecordInv, EnvelopesTrue, EnvelopeFirst, RowsTrue, RowsFirst,
              Delivering, HasRecorded, Unlearned

\* write_envelope_only: the first envelope of an id stays.
LEMMA WriteEnvelopeRecordStep ==
  ASSUME RecordInv, NEW w \in Worker, NEW b \in Batch, WriteEnvelope(w, b)
  PROVE  EnvelopesTrue' /\ EnvelopeFirst' /\ RowsTrue' /\ RowsFirst'
<1> USE PayloadAssumption DEF RecordInv, TypeOK
<1>1. /\ IdOf[b] \in BatchId /\ b # NoBatch
      /\ deliveries' = [deliveries EXCEPT ![b] = @ + 1]
      /\ envelopes' = IF envelopes[IdOf[b]] = NoBatch
                      THEN [envelopes EXCEPT ![IdOf[b]] = b] ELSE envelopes
      /\ pc'    = [pc EXCEPT ![w] = "enveloped"]
      /\ batch' = [batch EXCEPT ![w] = b]
      /\ UNCHANGED <<recorded, policy, basis>>
  BY DEF WriteEnvelope
<1>2. /\ \A a \in Batch : deliveries[a] > 0 => deliveries'[a] > 0
      /\ deliveries'[b] > 0
  BY <1>1
<1>3. /\ \A i \in BatchId : envelopes[i] # NoBatch => envelopes'[i] = envelopes[i]
      /\ \A i \in BatchId : envelopes[i] = NoBatch =>
           envelopes'[i] = NoBatch \/ (i = IdOf[b] /\ envelopes'[i] = b)
      /\ envelopes'[IdOf[b]] # NoBatch
  BY <1>1
<1>4. EnvelopesTrue'
  <2>1. \A i \in BatchId : envelopes[i] \in Batch \cup {NoBatch}
    OBVIOUS
  <2>2. EnvelopesTrue
    OBVIOUS
  <2> QED
    BY ONLY <1>2, <1>3, <2>1, <2>2 DEF EnvelopesTrue
<1>5. EnvelopeFirst'
  BY <1>1, <1>2, <1>3 DEF EnvelopeFirst, InFlight, Delivering
<1>6. RowsTrue'
  BY <1>1, <1>2, <1>3 DEF RowsTrue, Accounts
<1>7. RowsFirst'
  BY <1>1 DEF RowsFirst, HasRecorded
<1> QED
  BY <1>4, <1>5, <1>6, <1>7

\* async_record_routing_events: each event of the batch has a row afterwards.
LEMMA RecordEventsRecordStep ==
  ASSUME RecordInv, NEW w \in Worker, RecordEvents(w)
  PROVE  EnvelopesTrue' /\ EnvelopeFirst' /\ RowsTrue' /\ RowsFirst'
<1> USE PayloadAssumption DEF RecordInv, TypeOK
<1>1. /\ pc[w] = "enveloped" /\ batch[w] \in Batch
      /\ IdOf[batch[w]] \in BatchId /\ IdOf[batch[w]] # NoBatch
      /\ pc' = [pc EXCEPT ![w] = "learning"]
      /\ UNCHANGED <<envelopes, policy, batch, basis, deliveries>>
  BY DEF RecordEvents, InFlight, Delivering
<1>2. /\ \A e \in Event : recorded[e] # NoBatch => recorded'[e] = recorded[e]
      /\ \A e \in Event : recorded[e] = NoBatch =>
           IF e \in Members(batch[w]) THEN recorded'[e] = IdOf[batch[w]]
                                      ELSE recorded'[e] = NoBatch
  BY DEF RecordEvents, NewIn
<1>3. EnvelopesTrue'
  BY <1>1 DEF EnvelopesTrue
<1>4. EnvelopeFirst'
  BY <1>1 DEF EnvelopeFirst, Delivering
<1>5. RowsTrue'
  <2>1. deliveries[batch[w]] > 0 /\ envelopes[IdOf[batch[w]]] # NoBatch
    BY <1>1 DEF EnvelopeFirst, Delivering
  <2> QED
    BY <1>1, <1>2, <2>1 DEF RowsTrue, Accounts
<1>6. RowsFirst'
  BY <1>1, <1>2 DEF RowsFirst, HasRecorded
<1> QED
  BY <1>3, <1>4, <1>5, <1>6

\* The other steps write no envelope and no row.
LEMMA PolicyRecordStep ==
  ASSUME RecordInv, NEW w \in Worker,
         UNCHANGED <<envelopes, recorded, deliveries>>,
         \A v \in Worker : pc'[v] # "idle" => batch'[v] = batch[v] /\ Delivering(v),
         \A v \in Worker : HasRecorded(v)' => HasRecorded(v),
         \A v \in Worker, e \in Event : recorded[e] = NoBatch => basis'[v][e] = 0,
         \A s \in Scope, e \in Event : recorded[e] = NoBatch => policy'[s][e] = 0
  PROVE  EnvelopesTrue' /\ EnvelopeFirst' /\ RowsTrue' /\ RowsFirst'
<1> USE DEF RecordInv
<1>1. EnvelopesTrue'
  BY DEF EnvelopesTrue
<1>2. EnvelopeFirst'
  BY DEF EnvelopeFirst, Delivering
<1>3. RowsTrue'
  BY DEF RowsTrue, Accounts
<1>4. RowsFirst'
  BY DEF RowsFirst, HasRecorded
<1> QED
  BY <1>1, <1>2, <1>3, <1>4

LEMMA RecordStep == ASSUME RecordInv, Next PROVE RecordInv'
<1> PICK w \in Worker : (\E b \in Batch : WriteEnvelope(w, b)) \/ Advance(w) \/ Fail(w)
  BY DEF Next
<1>1. TypeOK /\ InFlight /\ RowsFirst
  BY DEF RecordInv
<1> SUFFICES EnvelopesTrue' /\ EnvelopeFirst' /\ RowsTrue' /\ RowsFirst'
  BY <1>1, TypeStep DEF RecordInv
<1>2. CASE \E b \in Batch : WriteEnvelope(w, b)
  BY <1>2, WriteEnvelopeRecordStep
<1>3. CASE RecordEvents(w)
  BY <1>3, RecordEventsRecordStep
<1>4. CASE \E s \in Scope : ReadPolicy(w, s)
  <2>1. /\ UNCHANGED <<envelopes, recorded, deliveries, batch, policy>>
        /\ \A v \in Worker : pc'[v] # "idle" => Delivering(v)
        /\ \A v \in Worker : HasRecorded(v)' => HasRecorded(v)
    BY <1>1, <1>4 DEF ReadPolicy, tables, TypeOK, Delivering, HasRecorded
  <2>2. \A v \in Worker, e \in Event : recorded[e] = NoBatch => basis'[v][e] = 0
    BY <1>1, <1>4 DEF ReadPolicy, TypeOK, RowsFirst
  <2> QED
    BY <1>1, <2>1, <2>2, PolicyRecordStep DEF RowsFirst
<1>5. CASE KeepPolicy(w)
  <2>1. /\ UNCHANGED <<envelopes, recorded, deliveries, batch, policy>>
        /\ \A v \in Worker : pc'[v] # "idle" => Delivering(v)
        /\ \A v \in Worker : HasRecorded(v)' => HasRecorded(v)
    BY <1>1, <1>5 DEF KeepPolicy, NextScope, tables, TypeOK, Delivering, HasRecorded
  <2>2. \A v \in Worker, e \in Event : recorded[e] = NoBatch => basis'[v][e] = 0
    BY <1>1, <1>5 DEF KeepPolicy, NextScope, Unlearned, TypeOK, RowsFirst
  <2> QED
    BY <1>1, <2>1, <2>2, PolicyRecordStep DEF RowsFirst
<1>6. CASE PublishPolicy(w)
  <2>1. /\ UNCHANGED <<envelopes, recorded, deliveries, batch>>
        /\ HasRecorded(w)
        /\ \A v \in Worker : pc'[v] # "idle" => Delivering(v)
        /\ \A v \in Worker : HasRecorded(v)' => HasRecorded(v)
    BY <1>1, <1>6 DEF PublishPolicy, NextScope, TypeOK, Delivering, HasRecorded
  <2>2. \A v \in Worker, e \in Event : recorded[e] = NoBatch => basis'[v][e] = 0
    BY <1>1, <1>6 DEF PublishPolicy, NextScope, Unlearned, TypeOK, RowsFirst
  <2>3. \A e \in Event : recorded[e] = NoBatch => Learned(w)[e] = 0
    BY <1>1, <2>1, ListedTypes DEF Learned, Counted, RowsFirst, InFlight, Delivering, HasRecorded
  <2>4. \A s \in Scope, e \in Event : recorded[e] = NoBatch => policy'[s][e] = 0
    BY <1>1, <1>6, <2>3 DEF PublishPolicy, TypeOK, RowsFirst
  <2> QED
    BY <2>1, <2>2, <2>4, PolicyRecordStep
<1>7. CASE AnswerBatch(w) \/ Fail(w)
  <2>1. /\ UNCHANGED <<envelopes, recorded, deliveries, policy>>
        /\ \A v \in Worker : pc'[v] # "idle" => batch'[v] = batch[v] /\ Delivering(v)
        /\ \A v \in Worker : HasRecorded(v)' => HasRecorded(v)
    BY <1>1, <1>7 DEF AnswerBatch, Fail, Finish, tables, TypeOK, Delivering, HasRecorded
  <2>2. \A v \in Worker, e \in Event : recorded[e] = NoBatch => basis'[v][e] = 0
    BY <1>1, <1>7 DEF AnswerBatch, Fail, Finish, Unlearned, TypeOK, RowsFirst
  <2> QED
    BY <1>1, <2>1, <2>2, PolicyRecordStep DEF RowsFirst
<1> QED
  BY <1>2, <1>3, <1>4, <1>5, <1>6, <1>7 DEF Advance

LEMMA RecordedLearned == RecordInv => LearnedIsRecorded
<1> SUFFICES ASSUME RecordInv, NEW s \in Scope, NEW e \in Event, policy[s][e] > 0
             PROVE  /\ recorded[e] # NoBatch
                    /\ envelopes[recorded[e]] # NoBatch
                    /\ e \in Members(envelopes[recorded[e]]) \/ Reused(recorded[e])
  BY DEF LearnedIsRecorded
<1>1. recorded[e] # NoBatch
  BY DEF RecordInv, RowsFirst
<1>2. recorded[e] \in BatchId /\ envelopes[recorded[e]] \in Batch \cup {NoBatch}
  BY <1>1 DEF RecordInv, TypeOK
<1>3. envelopes[recorded[e]] # NoBatch
  BY <1>1 DEF RecordInv, RowsTrue
<1>4. PICK b \in Batch : Accounts(b, e)
  BY <1>1 DEF RecordInv, RowsTrue
<1>5. /\ IdOf[envelopes[recorded[e]]] = recorded[e]
      /\ deliveries[envelopes[recorded[e]]] > 0
  BY <1>2, <1>3 DEF RecordInv, EnvelopesTrue
<1> QED
  BY <1>1, <1>2, <1>3, <1>4, <1>5 DEF Accounts, Reused

\* Policies learn only what the tables account for: the commits of a delivery
\* come in an order, and no failure or overlap of deliveries undoes it.
THEOREM LearnedIsRecordedHolds == Spec => []LearnedIsRecorded
<1>1. RecordInv /\ UNCHANGED vars => RecordInv'
  BY DEF RecordInv, TypeOK, InFlight, EnvelopesTrue, EnvelopeFirst, RowsTrue,
         RowsFirst, Delivering, HasRecorded, Accounts, vars
<1>2. RecordInv /\ [Next]_vars => RecordInv'
  BY <1>1, RecordStep
<1> QED
  BY <1>2, RecordInit, RecordedLearned, PTL DEF Spec
-----------------------------------------------------------------------------
LEMMA LearnInit == Init => LearnInv
BY DEF Init, LearnInv, LearnedSoFar, AnsweredIsLearned, HasRecorded

\* What a step must keep for the policies to keep what they were taught.
LEMMA KeptTaught ==
  ASSUME RecordInv,
         clobbered \subseteq clobbered',
         \A s \in Scope \ clobbered', e \in Event : policy[s][e] > 0 => policy'[s][e] > 0,
         NEW b \in Batch, NEW s \in Scope \ clobbered', Taught(b, s)
  PROVE  Taught(b, s)'
<1>1. \A i \in Bucket(b, s) : Payload[b][i].event \in Event
  BY BatchTypes DEF Bucket
<1> QED
  BY <1>1 DEF Taught, Bucket

\* A step that leaves the policies alone and lets no delivery drop a scope it
\* has not dealt with.
LEMMA QuietLearnStep ==
  ASSUME RecordInv, LearnInv, UNCHANGED <<policy, clobbered>>,
         \A b \in answered' : b \in answered \/
           (\A s \in ScopesOf(b) \ clobbered : Taught(b, s)),
         \A v \in Worker : HasRecorded(v)' =>
           \/ /\ HasRecorded(v) /\ UNCHANGED <<batch[v], todo[v]>>
           \/ \A s \in (ScopesOf(batch'[v]) \ todo'[v]) \ clobbered : Taught(batch'[v], s)
  PROVE  LearnInv'
<1>1. LearnedSoFar'
  BY DEF LearnInv, LearnedSoFar, Taught, Bucket, ScopesOf
<1>2. AnsweredIsLearned'
  BY DEF LearnInv, AnsweredIsLearned, Taught, Bucket, ScopesOf
<1> QED
  BY <1>1, <1>2 DEF LearnInv

\* A publish from a fresh baseline only adds; from a stale one, it marks the scope.
LEMMA PublishTeaches ==
  ASSUME RecordInv, NEW w \in Worker, PublishPolicy(w)
  PROVE  /\ clobbered \subseteq clobbered'
         /\ \A s \in Scope \ clobbered', e \in Event :
              policy[s][e] > 0 => policy'[s][e] > 0
         /\ \A b \in Batch, s \in Scope : b = batch[w] /\ s = at[w] => Taught(b, s)'
<1>1. /\ pc[w] = "deciding" /\ at[w] \in Scope /\ batch[w] \in Batch
      /\ basis[w] \in [Event -> Nat]
      /\ \A i \in Bucket(batch[w], at[w]) : Payload[batch[w]][i].event \in Event
  BY BatchTypes DEF PublishPolicy, RecordInv, TypeOK, InFlight, Delivering, Bucket
<1>2. /\ policy \in [Scope -> [Event -> Nat]]
      /\ policy' = [policy EXCEPT ![at[w]] = Learned(w)]
      /\ clobbered' = IF policy[at[w]] # basis[w] THEN clobbered \cup {at[w]}
                                                  ELSE clobbered
      /\ batch' = batch
  BY DEF PublishPolicy, NextScope, RecordInv, TypeOK
<1>3. /\ \A e \in Event : basis[w][e] > 0 => Learned(w)[e] > 0
      /\ \A i \in Bucket(batch[w], at[w]) : Learned(w)[Payload[batch[w]][i].event] > 0
  <2>1. ASSUME NEW e \in Event
        PROVE  /\ Learned(w)[e] = basis[w][e] + Cardinality(Listed(batch[w], at[w], e))
               /\ basis[w][e] \in Nat /\ Cardinality(Listed(batch[w], at[w], e)) \in Nat
    BY <1>1, ListedTypes DEF Learned, Counted
  <2>2. \A i \in Bucket(batch[w], at[w]) :
           Cardinality(Listed(batch[w], at[w], Payload[batch[w]][i].event)) > 0
    <3> TAKE i \in Bucket(batch[w], at[w])
    <3>1. i \in Listed(batch[w], at[w], Payload[batch[w]][i].event)
      BY DEF Listed
    <3> QED
      BY <1>1, <3>1, ListedTypes
  <2> QED
    BY <1>1, <2>1, <2>2
<1>4. clobbered \subseteq clobbered'
  BY <1>2
<1>5. \A s \in Scope \ clobbered', e \in Event : policy[s][e] > 0 => policy'[s][e] > 0
  <2> SUFFICES ASSUME NEW s \in Scope \ clobbered', NEW e \in Event, policy[s][e] > 0
               PROVE  policy'[s][e] > 0
    OBVIOUS
  <2>1. CASE s # at[w]
    BY <1>1, <1>2, <2>1
  <2>2. CASE s = at[w]
    <3>1. policy[s] = basis[w]
      BY <1>2, <2>2
    <3>2. policy'[s] = Learned(w)
      BY <1>1, <1>2, <2>2
    <3> QED
      BY <1>3, <3>1, <3>2
  <2> QED
    BY <2>1, <2>2
<1>6. \A i \in Bucket(batch[w], at[w]) : policy'[at[w]][Payload[batch[w]][i].event] > 0
  BY <1>1, <1>2, <1>3
<1>7. \A b \in Batch, s \in Scope : b = batch[w] /\ s = at[w] => Taught(b, s)'
  BY <1>6 DEF Taught, Bucket
<1> QED
  BY <1>4, <1>5, <1>7

LEMMA PublishLearnStep ==
  ASSUME RecordInv, LearnInv, NEW w \in Worker, PublishPolicy(w)
  PROVE  LearnInv'
<1>1. /\ clobbered \subseteq clobbered'
      /\ \A s \in Scope \ clobbered', e \in Event : policy[s][e] > 0 => policy'[s][e] > 0
      /\ \A b \in Batch, s \in Scope : b = batch[w] /\ s = at[w] => Taught(b, s)'
  BY PublishTeaches
<1>2. \A b \in Batch : \A s \in Scope \ clobbered' : Taught(b, s) => Taught(b, s)'
  BY <1>1, KeptTaught
<1>3. /\ answered' = answered /\ answered \subseteq Batch
      /\ batch' = batch
      /\ todo' = [todo EXCEPT ![w] = todo[w] \ {at[w]}]
      /\ todo \in [Worker -> SUBSET Scope]
      /\ pc[w] = "deciding"
      /\ \A v \in Worker : HasRecorded(v)' => HasRecorded(v)
      /\ \A v \in Worker : HasRecorded(v) => batch[v] \in Batch
  BY DEF PublishPolicy, NextScope, Remaining, RecordInv, TypeOK, InFlight, Delivering,
         HasRecorded
<1>4. AnsweredIsLearned'
  <2> SUFFICES ASSUME NEW b \in answered', NEW s \in ScopesOf(b) \ clobbered'
               PROVE  Taught(b, s)'
    BY DEF AnsweredIsLearned, Taught, ScopesOf, Bucket
  <2>1. b \in Batch /\ b \in answered /\ s \in Scope /\ s \notin clobbered
    BY <1>1, <1>3, BatchTypes
  <2>2. Taught(b, s)
    BY <2>1 DEF LearnInv, AnsweredIsLearned, Taught
  <2> QED
    BY <1>2, <2>1, <2>2
<1>5. LearnedSoFar'
  <2> SUFFICES ASSUME NEW v \in Worker, HasRecorded(v)',
                      NEW s \in (ScopesOf(batch[v]) \ todo'[v]) \ clobbered'
               PROVE  \A b \in Batch : b = batch[v] => Taught(b, s)'
    BY <1>3 DEF LearnedSoFar, Taught, ScopesOf, Bucket
  <2>1. HasRecorded(v) /\ batch[v] \in Batch
    BY <1>3
  <2>2. s \in Scope /\ s \notin clobbered
    BY <1>1, <2>1, BatchTypes
  <2>3. CASE s \in todo[v]
    <3>1. v = w /\ s = at[w]
      BY <1>3, <2>3
    <3> QED
      BY <1>1, <2>2, <3>1
  <2>4. CASE s \notin todo[v]
    BY <1>2, <2>1, <2>2, <2>4 DEF LearnInv, LearnedSoFar
  <2> QED
    BY <2>3, <2>4
<1> QED
  BY <1>4, <1>5 DEF LearnInv

LEMMA LearnStep == ASSUME RecordInv, LearnInv, Next PROVE LearnInv'
<1> PICK w \in Worker : (\E b \in Batch : WriteEnvelope(w, b)) \/ Advance(w) \/ Fail(w)
  BY DEF Next
<1>1. TypeOK /\ InFlight
  BY DEF RecordInv
<1>2. CASE \E b \in Batch : WriteEnvelope(w, b)
  <2>1. /\ UNCHANGED <<policy, clobbered, answered>>
        /\ \A v \in Worker : HasRecorded(v)' =>
             HasRecorded(v) /\ UNCHANGED <<batch[v], todo[v]>>
    BY <1>1, <1>2 DEF WriteEnvelope, TypeOK, HasRecorded
  <2> QED
    BY <2>1, QuietLearnStep
<1>3. CASE RecordEvents(w)
  <2>1. /\ UNCHANGED <<policy, clobbered, answered>>
        /\ \A v \in Worker \ {w} : HasRecorded(v)' =>
             HasRecorded(v) /\ UNCHANGED <<batch[v], todo[v]>>
        /\ batch' = batch /\ todo'[w] = ScopesOf(batch'[w])
    BY <1>1, <1>3 DEF RecordEvents, TypeOK, HasRecorded
  <2>2. ScopesOf(batch'[w]) \ todo'[w] = {}
    BY <2>1
  <2>3. \A v \in Worker : HasRecorded(v)' =>
           \/ /\ HasRecorded(v) /\ UNCHANGED <<batch[v], todo[v]>>
           \/ \A s \in (ScopesOf(batch'[v]) \ todo'[v]) \ clobbered : Taught(batch'[v], s)
    BY <2>1, <2>2
  <2> QED
    BY <2>1, <2>3, QuietLearnStep
<1>4. CASE \E s \in Scope : ReadPolicy(w, s)
  <2>1. /\ UNCHANGED <<policy, clobbered, answered>>
        /\ \A v \in Worker : HasRecorded(v)' =>
             HasRecorded(v) /\ UNCHANGED <<batch[v], todo[v]>>
    BY <1>1, <1>4 DEF ReadPolicy, tables, TypeOK, HasRecorded
  <2> QED
    BY <2>1, QuietLearnStep
<1>5. CASE KeepPolicy(w)
  <2>1. /\ UNCHANGED <<policy, clobbered, answered>>
        /\ batch' = batch /\ batch[w] \in Batch
        /\ HasRecorded(w) /\ \A v \in Worker : HasRecorded(v)' => HasRecorded(v)
        /\ \A v \in Worker \ {w} : UNCHANGED todo[v]
        /\ todo'[w] = todo[w] \ {at[w]}
        /\ ~(Cardinality(Bucket(batch[w], at[w])) >= Threshold)
    BY <1>1, <1>5 DEF KeepPolicy, NextScope, Remaining, ShouldBump, tables, TypeOK,
                      InFlight, Delivering, HasRecorded
  <2>2. Taught(batch[w], at[w])
    BY <2>1 DEF Taught
  <2>3. \A s \in (ScopesOf(batch'[w]) \ todo'[w]) \ clobbered : Taught(batch'[w], s)
    BY <2>1, <2>2 DEF LearnInv, LearnedSoFar
  <2>4. \A v \in Worker : HasRecorded(v)' =>
           \/ /\ HasRecorded(v) /\ UNCHANGED <<batch[v], todo[v]>>
           \/ \A s \in (ScopesOf(batch'[v]) \ todo'[v]) \ clobbered : Taught(batch'[v], s)
    BY <2>1, <2>3
  <2> QED
    BY <2>1, <2>4, QuietLearnStep
<1>6. CASE PublishPolicy(w)
  BY <1>6, PublishLearnStep
<1>7. CASE AnswerBatch(w)
  <2>1. /\ UNCHANGED <<policy, clobbered>>
        /\ answered' = answered \cup {batch[w]}
        /\ HasRecorded(w) /\ todo[w] = {}
        /\ \A v \in Worker : HasRecorded(v)' =>
             HasRecorded(v) /\ UNCHANGED <<batch[v], todo[v]>>
    BY <1>1, <1>7 DEF AnswerBatch, Finish, TypeOK, HasRecorded
  <2>2. \A s \in ScopesOf(batch[w]) \ clobbered : Taught(batch[w], s)
    BY <2>1 DEF LearnInv, LearnedSoFar
  <2>3. \A b \in answered' : b \in answered \/
           (\A s \in ScopesOf(b) \ clobbered : Taught(b, s))
    BY <2>1, <2>2
  <2> QED
    BY <2>1, <2>3, QuietLearnStep
<1>8. CASE Fail(w)
  <2>1. /\ UNCHANGED <<policy, clobbered, answered>>
        /\ \A v \in Worker : HasRecorded(v)' =>
             HasRecorded(v) /\ UNCHANGED <<batch[v], todo[v]>>
    BY <1>1, <1>8 DEF Fail, Finish, tables, TypeOK, HasRecorded
  <2> QED
    BY <2>1, QuietLearnStep
<1> QED
  BY <1>2, <1>3, <1>4, <1>5, <1>6, <1>7, <1>8 DEF Advance

\* A stored 202 tells the truth: what it says was learned is in the policy,
\* whatever ran at the same time, unless a stale baseline wiped it out.
THEOREM AnsweredIsLearnedHolds == Spec => []AnsweredIsLearned
<1> DEFINE Inv == RecordInv /\ LearnInv
<1>1. Init => Inv
  BY RecordInit, LearnInit
<1>2. Inv /\ UNCHANGED vars => Inv'
  BY DEF RecordInv, TypeOK, InFlight, EnvelopesTrue, EnvelopeFirst, RowsTrue,
         RowsFirst, Delivering, HasRecorded, Accounts, LearnInv, LearnedSoFar,
         AnsweredIsLearned, Taught, vars
<1>3. Inv /\ [Next]_vars => Inv'
  BY <1>2, RecordStep, LearnStep
<1>4. Inv => AnsweredIsLearned
  BY DEF LearnInv
<1> QED
  BY <1>1, <1>3, <1>4, PTL DEF Spec
-----------------------------------------------------------------------------
(***************************************************************************)
(* Counting.  A delivery that begins is one more delivery of each entry of *)
(* its batch, and one more that has yet to teach it; what it teaches moves *)
(* from the second count to the policy.                                    *)
(***************************************************************************)
LEMMA PairedWithOne ==
  ASSUME NEW x, NEW L, IsFiniteSet(L)
  PROVE  /\ IsFiniteSet({x} \X L)
         /\ Cardinality({x} \X L) = Cardinality(L)
<1>1. IsFiniteSet({x}) /\ Cardinality({x}) = 1
  BY FS_Singleton
<1>2. /\ IsFiniteSet({x} \X L)
      /\ Cardinality({x} \X L) = Cardinality({x}) * Cardinality(L)
  BY <1>1, FS_Product
<1> QED
  BY <1>1, <1>2, FS_CardinalityType

\* A finite set and another apart from it count together.
LEMMA CountsApart ==
  ASSUME NEW S, NEW T, IsFiniteSet(S), IsFiniteSet(T), S \cap T = {}
  PROVE  /\ IsFiniteSet(S \cup T)
         /\ Cardinality(S \cup T) = Cardinality(S) + Cardinality(T)
<1>1. Cardinality(S) \in Nat /\ Cardinality(T) \in Nat
  BY FS_CardinalityType
<1>2. Cardinality(S \cap T) = 0
  BY FS_EmptySet
<1>3. /\ IsFiniteSet(S \cup T)
      /\ Cardinality(S \cup T) = Cardinality(S) + Cardinality(T) - Cardinality(S \cap T)
  BY ONLY FS_Union, IsFiniteSet(S), IsFiniteSet(T), Zenon
<1> QED
  BY <1>1, <1>2, <1>3

LEMMA OneMoreDelivery ==
  ASSUME TypeOK, NEW b \in Batch, NEW s \in Scope, NEW e \in Event,
         IsFiniteSet(DeliveredEntries(s, e)),
         deliveries' = [deliveries EXCEPT ![b] = @ + 1]
  PROVE  /\ IsFiniteSet(DeliveredEntries(s, e))'
         /\ Cardinality(DeliveredEntries(s, e))' =
              Cardinality(DeliveredEntries(s, e)) + Cardinality(Listed(b, s, e))
<1> DEFINE one == <<b, deliveries[b] + 1>>
           new == {one} \X Listed(b, s, e)
<1>1. /\ deliveries[b] \in Nat /\ deliveries'[b] = deliveries[b] + 1
      /\ \A a \in Batch : a # b => deliveries'[a] = deliveries[a]
  BY DEF TypeOK
<1>2. 1..deliveries'[b] = (1..deliveries[b]) \cup {deliveries[b] + 1}
  BY <1>1
<1>3. DeliveriesOf(b)' = DeliveriesOf(b) \cup {one}
  BY <1>2 DEF DeliveriesOf
<1>4. \A a \in Batch : a # b => DeliveriesOf(a)' = DeliveriesOf(a)
  BY <1>1 DEF DeliveriesOf
<1>5. \A a \in Batch : one \notin DeliveriesOf(a)
  BY <1>1 DEF DeliveriesOf
<1>6. \A a \in Batch : (DeliveriesOf(a) \X Listed(a, s, e))' =
                         IF a = b THEN (DeliveriesOf(b) \X Listed(b, s, e)) \cup new
                                  ELSE DeliveriesOf(a) \X Listed(a, s, e)
  <2>1. \A a : Listed(a, s, e)' = Listed(a, s, e)
    BY DEF Listed, Bucket
  <2> QED
    BY <1>3, <1>4, <2>1
<1> HIDE DEF one
<1>7. DeliveredEntries(s, e)' = DeliveredEntries(s, e) \cup new
  BY <1>6 DEF DeliveredEntries
<1>8. DeliveredEntries(s, e) \cap new = {}
  BY <1>5 DEF DeliveredEntries
<1>9. IsFiniteSet(new) /\ Cardinality(new) = Cardinality(Listed(b, s, e))
  BY ListedTypes, PairedWithOne
<1> QED
  BY <1>7, <1>8, <1>9, CountsApart

LEMMA CountInit == Init => CountInv
<1> SUFFICES ASSUME Init PROVE CountInv
  OBVIOUS
<1>1. TypeOK /\ InFlight
  BY TypeInit
<1>2. DecidesOnce
  BY DEF Init, DecidesOnce
<1>3. ASSUME NEW s \in Scope, NEW e \in Event
      PROVE  Owing(s, e) = {} /\ DeliveredEntries(s, e) = {}
  <2>1. Owing(s, e) = {}
    BY DEF Init, Owing, Owes, Delivering
  <2>2. \A b \in Batch : DeliveriesOf(b) = {}
    BY DEF Init, DeliveriesOf
  <2> QED
    BY <2>1, <2>2 DEF DeliveredEntries
<1>4. CountsFinite
  BY <1>3, FS_EmptySet DEF CountsFinite
<1>5. \A s \in Scope, e \in Event : /\ Cardinality(Owing(s, e)) = 0
                                    /\ Cardinality(DeliveredEntries(s, e)) = 0
  BY <1>3, FS_EmptySet
<1>6. /\ \A s \in Scope, e \in Event : policy[s][e] = 0
      /\ \A w \in Worker : pc[w] # "deciding"
  BY DEF Init, Unlearned
<1>7. RoomLeft
  BY <1>5, <1>6 DEF RoomLeft, RoomIn
<1> QED
  BY <1>1, <1>2, <1>4, <1>7 DEF CountInv

LEMMA CountTypes ==
  ASSUME CountInv, NEW s \in Scope, NEW e \in Event
  PROVE  /\ Cardinality(Owing(s, e)) \in Nat
         /\ Cardinality(DeliveredEntries(s, e)) \in Nat
BY FS_CardinalityType DEF CountInv, CountsFinite

\* A step that begins no delivery and teaches nothing.
LEMMA QuietCountStep ==
  ASSUME CountInv, TypeOK', InFlight', UNCHANGED <<deliveries, policy>>,
         \A s \in Scope, e \in Event : Owing(s, e)' \subseteq Owing(s, e),
         \A v \in Worker : pc'[v] = "deciding" =>
           \/ pc[v] = "deciding" /\ UNCHANGED <<basis[v], at[v]>>
           \/ basis'[v] = policy[at'[v]]
  PROVE  CountsFinite' /\ RoomLeft'
<1>1. ASSUME NEW s \in Scope, NEW e \in Event
      PROVE  /\ UNCHANGED DeliveredEntries(s, e)
             /\ IsFiniteSet(Owing(s, e)') /\ Cardinality(Owing(s, e)') \in Nat
             /\ Cardinality(Owing(s, e)') <= Cardinality(Owing(s, e))
  <2>1. IsFiniteSet(Owing(s, e)) /\ Owing(s, e)' \in SUBSET Owing(s, e)
    BY DEF CountInv, CountsFinite
  <2>2. UNCHANGED DeliveredEntries(s, e)
    BY DEF DeliveredEntries, DeliveriesOf, Listed, Bucket
  <2> QED
    BY <2>1, <2>2, FS_Subset, FS_CardinalityType
<1>2. CountsFinite'
  BY <1>1 DEF CountsFinite, CountInv
<1>3. ASSUME NEW s \in Scope, NEW e \in Event PROVE RoomIn(policy[s], s, e)'
  <2>1. policy[s][e] \in Nat /\ RoomIn(policy[s], s, e)
    BY DEF CountInv, TypeOK, RoomLeft
  <2> QED
    BY <1>1, <2>1, CountTypes DEF RoomIn
<1>4. ASSUME NEW v \in Worker, NEW e \in Event, pc'[v] = "deciding"
      PROVE  RoomIn(basis[v], at[v], e)'
  <2>1. at'[v] \in Scope /\ basis'[v][e] \in Nat
    BY <1>4 DEF TypeOK, InFlight
  <2>2. RoomIn(basis'[v], at'[v], e)
    BY <1>4, <2>1 DEF CountInv, RoomLeft
  <2> QED
    BY <1>1, <2>1, <2>2, CountTypes DEF RoomIn
<1> QED
  BY <1>2, <1>3, <1>4 DEF RoomLeft

\* A delivery begins: it owes each entry of its batch.
LEMMA BeginCountStep ==
  ASSUME CountInv, NEW w \in Worker, NEW b \in Batch, WriteEnvelope(w, b)
  PROVE  CountsFinite' /\ RoomLeft'
<1>1. /\ pc[w] = "idle"
      /\ deliveries' = [deliveries EXCEPT ![b] = @ + 1]
      /\ pc'    = [pc EXCEPT ![w] = "enveloped"]
      /\ batch' = [batch EXCEPT ![w] = b]
      /\ UNCHANGED <<policy, basis, todo, at>>
  BY DEF WriteEnvelope
<1>2. /\ pc'[w] = "enveloped" /\ batch'[w] = b
      /\ \A v \in Worker \ {w} : pc'[v] = pc[v] /\ batch'[v] = batch[v]
  BY <1>1 DEF CountInv, TypeOK
<1>3. ASSUME NEW s \in Scope, NEW e \in Event
      PROVE  /\ IsFiniteSet(Owing(s, e)')
             /\ Cardinality(Owing(s, e)') =
                  Cardinality(Owing(s, e)) + Cardinality(Listed(b, s, e))
  <2> DEFINE owed(v) == {v} \X Listed(batch[v], s, e)
  <2>1. /\ Owes(w, s)' /\ ~Owes(w, s)
        /\ \A v \in Worker \ {w} : Owes(v, s)' <=> Owes(v, s)
    BY <1>1, <1>2 DEF Owes, Delivering
  <2>2. /\ owed(w)' = {w} \X Listed(b, s, e)
        /\ \A v \in Worker \ {w} : owed(v)' = owed(v)
    BY <1>2 DEF Listed, Bucket
  <2>3. Owing(s, e)' = Owing(s, e) \cup ({w} \X Listed(b, s, e))
    BY <2>1, <2>2 DEF Owing
  <2>4. Owing(s, e) \cap ({w} \X Listed(b, s, e)) = {}
    BY <2>1 DEF Owing
  <2>5. /\ IsFiniteSet({w} \X Listed(b, s, e))
        /\ Cardinality({w} \X Listed(b, s, e)) = Cardinality(Listed(b, s, e))
    BY ListedTypes, PairedWithOne
  <2> QED
    BY <2>3, <2>4, <2>5, CountsApart DEF CountInv, CountsFinite
<1>4. ASSUME NEW s \in Scope, NEW e \in Event
      PROVE  /\ IsFiniteSet(DeliveredEntries(s, e))'
             /\ Cardinality(DeliveredEntries(s, e))' =
                  Cardinality(DeliveredEntries(s, e)) + Cardinality(Listed(b, s, e))
  BY <1>1, OneMoreDelivery DEF CountInv, CountsFinite
<1>5. CountsFinite'
  BY <1>3, <1>4 DEF CountsFinite
<1>6. ASSUME NEW s \in Scope, NEW e \in Event, NEW weights \in [Event -> Nat],
             RoomIn(weights, s, e)
      PROVE  weights[e] + Cardinality(Owing(s, e))' <= Cardinality(DeliveredEntries(s, e))'
  BY <1>3, <1>4, <1>6, CountTypes, ListedTypes DEF RoomIn
<1>7. RoomLeft'
  BY <1>1, <1>2, <1>6 DEF RoomLeft, RoomIn, CountInv, TypeOK, InFlight, Delivering
<1> QED
  BY <1>5, <1>7

\* A policy is published: what its delivery owed its scope, it owes no more.
LEMMA TeachCountStep ==
  ASSUME CountInv, NEW w \in Worker, PublishPolicy(w)
  PROVE  CountsFinite' /\ RoomLeft'
<1>1. /\ pc[w] = "deciding" /\ at[w] \in todo[w]
      /\ at[w] \in Scope /\ batch[w] \in Batch
      /\ policy' = [policy EXCEPT ![at[w]] = Learned(w)]
      /\ pc'    = [pc EXCEPT ![w] = "learning"]
      /\ todo'  = [todo EXCEPT ![w] = todo[w] \ {at[w]}]
      /\ \A v \in Worker \ {w} : UNCHANGED <<basis[v], at[v]>>
      /\ UNCHANGED <<batch, deliveries>>
  BY DEF PublishPolicy, NextScope, Remaining, CountInv, TypeOK, DecidesOnce, InFlight,
         Delivering
<1>2. /\ pc'[w] = "learning" /\ todo'[w] = todo[w] \ {at[w]}
      /\ \A v \in Worker \ {w} : pc'[v] = pc[v] /\ todo'[v] = todo[v]
  BY <1>1 DEF CountInv, TypeOK
<1>3. ASSUME NEW s \in Scope, NEW e \in Event
      PROVE  /\ s # at[w] => Owing(s, e)' = Owing(s, e)
             /\ IsFiniteSet(Owing(s, e)')
             /\ s = at[w] => Cardinality(Owing(s, e)) =
                  Cardinality(Owing(s, e)') + Cardinality(Listed(batch[w], s, e))
  <2> DEFINE owed == {w} \X Listed(batch[w], s, e)
  <2>1. /\ s = at[w] => Owes(w, s) /\ ~Owes(w, s)'
        /\ s # at[w] => (Owes(w, s)' <=> Owes(w, s))
        /\ \A v \in Worker \ {w} : Owes(v, s)' <=> Owes(v, s)
    BY <1>1, <1>2 DEF Owes, Delivering
  <2>2. \A v : Listed(batch[v], s, e)' = Listed(batch[v], s, e)
    BY <1>1 DEF Listed, Bucket
  <2>3. s # at[w] => Owing(s, e)' = Owing(s, e)
    BY <2>1, <2>2 DEF Owing
  <2>4. s = at[w] => Owing(s, e) = Owing(s, e)' \cup owed
    BY <2>1, <2>2 DEF Owing
  <2>5. s = at[w] => Owing(s, e)' \cap owed = {}
    <3> SUFFICES ASSUME s = at[w], NEW x \in Owing(s, e)' PROVE x \notin owed
      OBVIOUS
    <3>1. PICK v \in Worker : Owes(v, s)' /\ x \in {v} \X Listed(batch[v], s, e)'
      BY DEF Owing
    <3>2. v # w
      BY <2>1, <3>1
    <3> QED
      BY <3>1, <3>2
  <2>6. IsFiniteSet(owed) /\ Cardinality(owed) = Cardinality(Listed(batch[w], s, e))
    BY <1>1, ListedTypes, PairedWithOne
  <2>7. IsFiniteSet(Owing(s, e)) /\ Owing(s, e)' \in SUBSET Owing(s, e)
    BY <2>3, <2>4 DEF CountInv, CountsFinite
  <2>8. IsFiniteSet(Owing(s, e)')
    BY <2>7, FS_Subset
  <2> QED
    BY <2>3, <2>4, <2>5, <2>6, <2>8, CountsApart
<1>4. \A s \in Scope, e \in Event : UNCHANGED DeliveredEntries(s, e)
  BY <1>1 DEF DeliveredEntries, DeliveriesOf, Listed, Bucket
<1>5. CountsFinite'
  BY <1>3, <1>4 DEF CountsFinite, CountInv
<1>6. ASSUME NEW s \in Scope, NEW e \in Event
      PROVE  Cardinality(Owing(s, e)') \in Nat /\ Cardinality(Owing(s, e)') <= Cardinality(Owing(s, e))
  BY <1>1, <1>3, CountTypes, ListedTypes, FS_CardinalityType
<1>7. ASSUME NEW s \in Scope, NEW e \in Event PROVE RoomIn(policy[s], s, e)'
  <2>1. policy[s][e] \in Nat /\ RoomIn(policy[s], s, e)
    BY DEF CountInv, TypeOK, RoomLeft
  <2>2. CASE s # at[w]
    <3>1. policy'[s] = policy[s]
      BY <1>1, <2>2 DEF CountInv, TypeOK
    <3> QED
      BY <1>4, <1>6, <2>1, <3>1, CountTypes DEF RoomIn
  <2>3. CASE s = at[w]
    <3>1. policy'[s][e] = basis[w][e] + Cardinality(Listed(batch[w], s, e))
      BY <1>1, <2>3 DEF Learned, Counted, CountInv, TypeOK
    <3>2. basis[w][e] \in Nat /\ RoomIn(basis[w], s, e)
      BY <1>1, <2>3 DEF CountInv, TypeOK, RoomLeft
    <3> QED
      BY <1>1, <1>3, <1>4, <1>6, <2>3, <3>1, <3>2, CountTypes, ListedTypes DEF RoomIn
  <2> QED
    BY <2>2, <2>3
<1>8. ASSUME NEW v \in Worker, NEW e \in Event, pc'[v] = "deciding"
      PROVE  RoomIn(basis[v], at[v], e)'
  <2>1. v # w /\ pc[v] = "deciding" /\ at'[v] = at[v] /\ basis'[v] = basis[v]
    BY <1>1, <1>2, <1>8
  <2>2. at[v] \in Scope /\ basis[v][e] \in Nat /\ RoomIn(basis[v], at[v], e)
    BY <2>1 DEF CountInv, TypeOK, InFlight, RoomLeft
  <2> QED
    BY <1>4, <1>6, <2>1, <2>2, CountTypes DEF RoomIn
<1> QED
  BY <1>5, <1>7, <1>8 DEF RoomLeft

LEMMA CountStep == ASSUME CountInv, Next PROVE CountInv'
<1> USE PayloadAssumption
<1> PICK w \in Worker : (\E b \in Batch : WriteEnvelope(w, b)) \/ Advance(w) \/ Fail(w)
  BY DEF Next
<1>1. TypeOK /\ InFlight /\ DecidesOnce /\ TypeOK' /\ InFlight'
  BY TypeStep DEF CountInv
<1>2. DecidesOnce'
  <2>1. \A v \in Worker \ {w} : pc'[v] = pc[v] /\ at'[v] = at[v] /\ todo'[v] = todo[v]
    BY <1>1 DEF TypeOK, Advance, WriteEnvelope, RecordEvents, ReadPolicy, KeepPolicy,
                PublishPolicy, NextScope, AnswerBatch, Fail, Finish
  <2>2. pc'[w] = "deciding" => \E s \in Scope : ReadPolicy(w, s)
    BY <1>1 DEF TypeOK, Advance, WriteEnvelope, RecordEvents, KeepPolicy,
                PublishPolicy, NextScope, AnswerBatch, Fail, Finish
  <2>3. pc'[w] = "deciding" => at'[w] \in todo'[w]
    BY <1>1, <2>2 DEF TypeOK, ReadPolicy
  <2> QED
    BY <1>1, <2>1, <2>3 DEF DecidesOnce
<1> SUFFICES CountsFinite' /\ RoomLeft'
  BY <1>1, <1>2 DEF CountInv
<1>3. CASE \E b \in Batch : WriteEnvelope(w, b)
  BY <1>3, BeginCountStep
<1>4. CASE RecordEvents(w)
  <2>1. \A s \in Scope, e \in Event : Owing(s, e)' \subseteq Owing(s, e)
    BY <1>1, <1>4 DEF RecordEvents, Owing, Owes, Delivering, TypeOK
  <2> QED
    BY <1>1, <1>4, <2>1, QuietCountStep DEF RecordEvents, TypeOK
<1>5. CASE \E s \in Scope : ReadPolicy(w, s)
  <2>1. \A s \in Scope, e \in Event : Owing(s, e)' \subseteq Owing(s, e)
    BY <1>1, <1>5 DEF ReadPolicy, Owing, Owes, Delivering, TypeOK
  <2>2. /\ \A v \in Worker \ {w} : /\ pc'[v] = pc[v] /\ basis'[v] = basis[v]
                                   /\ at'[v] = at[v]
        /\ basis'[w] = policy[at'[w]]
        /\ UNCHANGED <<deliveries, policy>>
    BY <1>1, <1>5 DEF ReadPolicy, tables, TypeOK
  <2> QED
    BY <1>1, <2>1, <2>2, QuietCountStep
<1>6. CASE KeepPolicy(w)
  <2>1. \A s \in Scope, e \in Event : Owing(s, e)' \subseteq Owing(s, e)
    BY <1>1, <1>6 DEF KeepPolicy, NextScope, Remaining, Owing, Owes, Delivering, TypeOK
  <2>2. /\ \A v \in Worker \ {w} : /\ pc'[v] = pc[v] /\ basis'[v] = basis[v]
                                   /\ at'[v] = at[v]
        /\ pc'[w] # "deciding"
        /\ UNCHANGED <<deliveries, policy>>
    BY <1>1, <1>6 DEF KeepPolicy, NextScope, tables, TypeOK
  <2> QED
    BY <1>1, <2>1, <2>2, QuietCountStep
<1>7. CASE PublishPolicy(w)
  BY <1>7, TeachCountStep
<1>8. CASE AnswerBatch(w) \/ Fail(w)
  <2>1. \A s \in Scope, e \in Event : Owing(s, e)' \subseteq Owing(s, e)
    BY <1>1, <1>8 DEF AnswerBatch, Fail, Finish, Owing, Owes, Delivering, TypeOK
  <2>2. /\ \A v \in Worker \ {w} : /\ pc'[v] = pc[v] /\ basis'[v] = basis[v]
                                   /\ at'[v] = at[v]
        /\ pc'[w] # "deciding"
        /\ UNCHANGED <<deliveries, policy>>
    BY <1>1, <1>8 DEF AnswerBatch, Fail, Finish, tables, TypeOK
  <2> QED
    BY <1>1, <2>1, <2>2, QuietCountStep
<1> QED
  BY <1>3, <1>4, <1>5, <1>6, <1>7, <1>8 DEF Advance

LEMMA CountStutter == CountInv /\ UNCHANGED vars => CountInv'
<1> SUFFICES ASSUME CountInv, UNCHANGED vars PROVE CountInv'
  OBVIOUS
<1>1. TypeOK' /\ InFlight' /\ DecidesOnce'
  BY DEF CountInv, TypeOK, InFlight, DecidesOnce, Delivering, vars
<1>2. CountsFinite' /\ RoomLeft'
  BY <1>1, QuietCountStep DEF Owing, Owes, Delivering, CountInv, TypeOK, vars
<1> QED
  BY <1>1, <1>2 DEF CountInv

LEMMA RoomIsBound == CountInv => LearnedOncePerEntry
<1> SUFFICES ASSUME CountInv, NEW s \in Scope, NEW e \in Event
             PROVE  policy[s][e] <= Cardinality(DeliveredEntries(s, e))
  BY DEF LearnedOncePerEntry
<1>1. policy[s][e] \in Nat /\ RoomIn(policy[s], s, e)
  BY DEF CountInv, TypeOK, RoomLeft
<1> QED
  BY <1>1, CountTypes DEF RoomIn

\* No policy counts an event more often than entries with it were delivered,
\* whatever overlaps, fails, is delivered again and repeats its events.
THEOREM LearnedOncePerEntryHolds == Spec => []LearnedOncePerEntry
<1>1. CountInv /\ [Next]_vars => CountInv'
  BY CountStep, CountStutter
<1> QED
  BY <1>1, CountInit, RoomIsBound, PTL DEF Spec

\* An event that one entry of one delivery has brought to a scope is learned at
\* most once by the scope's policy, answered or not, and exactly once as soon as
\* the delivery is answered, if its batch bumped the scope and no stale baseline
\* has replaced a policy of the scope.
LearnedExactlyOnce ==
  \A s \in Scope, e \in Event : Cardinality(DeliveredEntries(s, e)) = 1 =>
    /\ policy[s][e] <= 1
    /\ \A b \in answered :
         /\ Listed(b, s, e) # {}
         /\ Cardinality(Bucket(b, s)) >= Threshold
         /\ s \notin clobbered
         => policy[s][e] = 1

THEOREM LearnedExactlyOnceHolds == Spec => []LearnedExactlyOnce
<1> DEFINE Inv == RecordInv /\ LearnInv
<1>1. Init => Inv /\ CountInv
  BY RecordInit, LearnInit, CountInit
<1>2. Inv /\ UNCHANGED vars => Inv'
  BY DEF RecordInv, TypeOK, InFlight, EnvelopesTrue, EnvelopeFirst, RowsTrue,
         RowsFirst, Delivering, HasRecorded, Accounts, LearnInv, LearnedSoFar,
         AnsweredIsLearned, Taught, vars
<1>3. Inv /\ CountInv /\ [Next]_vars => Inv' /\ CountInv'
  BY <1>2, RecordStep, LearnStep, CountStep, CountStutter
<1>4. Inv /\ CountInv => LearnedExactlyOnce
  <2> SUFFICES ASSUME Inv, CountInv, NEW s \in Scope, NEW e \in Event,
                      Cardinality(DeliveredEntries(s, e)) = 1
               PROVE  /\ policy[s][e] <= 1
                      /\ \A b \in answered :
                           /\ Listed(b, s, e) # {}
                           /\ Cardinality(Bucket(b, s)) >= Threshold
                           /\ s \notin clobbered
                           => policy[s][e] = 1
    BY DEF LearnedExactlyOnce
  <2>1. policy[s][e] \in Nat /\ policy[s][e] <= 1
    BY RoomIsBound DEF CountInv, TypeOK, LearnedOncePerEntry
  <2>2. ASSUME NEW b \in answered, Listed(b, s, e) # {},
               Cardinality(Bucket(b, s)) >= Threshold, s \notin clobbered
        PROVE  policy[s][e] > 0
    <3>1. PICK i \in Bucket(b, s) : Payload[b][i].event = e
      BY <2>2 DEF Listed
    <3>2. s \in ScopesOf(b)
      BY DEF Bucket, ScopesOf
    <3> QED
      BY <2>2, <3>1, <3>2 DEF LearnInv, AnsweredIsLearned
  <2> QED
    BY <2>1, <2>2
<1> QED
  BY <1>1, <1>3, <1>4, PTL DEF Spec
-----------------------------------------------------------------------------
(***************************************************************************)
(* A stale baseline takes two deliveries that decide about one scope at    *)
(* the same time: where none do, no learning is lost, and an answered      *)
(* batch is learned, without an exception.                                 *)
(***************************************************************************)
DecideApart ==
  \A u, w \in Worker :
    u # w /\ pc[u] = "deciding" /\ pc[w] = "deciding" => at[u] # at[w]

AnsweredIsLearnedAlways ==
  \A b \in answered : \A s \in ScopesOf(b) :
    Cardinality(Bucket(b, s)) >= Threshold =>
      \A i \in Bucket(b, s) : policy[s][Payload[b][i].event] > 0

FreshBaseline ==
  /\ clobbered = {}
  /\ \A w \in Worker : pc[w] = "deciding" => basis[w] = policy[at[w]]

LEMMA FreshStep ==
  ASSUME TypeOK, InFlight, FreshBaseline, DecideApart, [Next]_vars
  PROVE  FreshBaseline'
<1>1. ASSUME NEW w \in Worker, NEW s \in Scope, ReadPolicy(w, s)
      PROVE  FreshBaseline'
  BY <1>1 DEF ReadPolicy, FreshBaseline, TypeOK, tables
<1>2. ASSUME NEW w \in Worker, PublishPolicy(w) PROVE FreshBaseline'
  <2>1. /\ pc[w] = "deciding" /\ at[w] \in Scope
        /\ policy' = [policy EXCEPT ![at[w]] = Learned(w)]
        /\ clobbered' = {}
        /\ pc'[w] = "learning"
        /\ \A u \in Worker \ {w} : /\ pc'[u] = pc[u] /\ at'[u] = at[u]
                                   /\ basis'[u] = basis[u]
    BY <1>2 DEF PublishPolicy, NextScope, InFlight, FreshBaseline, TypeOK
  <2>2. ASSUME NEW u \in Worker, pc'[u] = "deciding"
        PROVE  basis'[u] = policy'[at'[u]]
    <3>1. u # w /\ pc[u] = "deciding" /\ at[u] # at[w]
      BY <2>1, <2>2 DEF DecideApart
    <3> QED
      BY <2>1, <3>1 DEF FreshBaseline, InFlight, TypeOK
  <2> QED
    BY <2>1, <2>2 DEF FreshBaseline
<1>3. ASSUME NEW w \in Worker, UNCHANGED <<policy, clobbered>>,
             \A u \in Worker \ {w} : /\ pc'[u] = pc[u] /\ at'[u] = at[u]
                                     /\ basis'[u] = basis[u],
             pc'[w] # "deciding"
      PROVE  FreshBaseline'
  BY <1>3 DEF FreshBaseline
<1>4. ASSUME NEW w \in Worker, NEW b \in Batch, WriteEnvelope(w, b)
      PROVE  FreshBaseline'
  BY <1>3, <1>4 DEF WriteEnvelope, TypeOK
<1>5. ASSUME NEW w \in Worker, RecordEvents(w) PROVE FreshBaseline'
  BY <1>3, <1>5 DEF RecordEvents, TypeOK
<1>6. ASSUME NEW w \in Worker, KeepPolicy(w) PROVE FreshBaseline'
  BY <1>3, <1>6 DEF KeepPolicy, NextScope, tables, TypeOK
<1>7. ASSUME NEW w \in Worker, AnswerBatch(w) \/ Fail(w) PROVE FreshBaseline'
  BY <1>3, <1>7 DEF AnswerBatch, Fail, Finish, tables, TypeOK
<1>8. CASE UNCHANGED vars
  BY <1>8 DEF vars, FreshBaseline
<1> QED
  BY <1>1, <1>2, <1>4, <1>5, <1>6, <1>7, <1>8 DEF Next, Advance

THEOREM NothingClobbered == Spec /\ []DecideApart => []AnsweredIsLearnedAlways
<1>1. Init => RecordInv /\ FreshBaseline
  BY RecordInit DEF Init, FreshBaseline
<1>2. RecordInv /\ UNCHANGED vars => RecordInv'
  BY DEF RecordInv, TypeOK, InFlight, EnvelopesTrue, EnvelopeFirst, RowsTrue,
         RowsFirst, Delivering, HasRecorded, Accounts, vars
<1>3. RecordInv /\ FreshBaseline /\ DecideApart /\ [Next]_vars
      => RecordInv' /\ FreshBaseline'
  BY <1>2, RecordStep, FreshStep DEF RecordInv
<1>4. FreshBaseline /\ AnsweredIsLearned => AnsweredIsLearnedAlways
  BY DEF FreshBaseline, AnsweredIsLearned, AnsweredIsLearnedAlways
<1> QED
  BY <1>1, <1>3, <1>4, AnsweredIsLearnedHolds, PTL DEF Spec
=============================================================================
