------------------------- MODULE ConnectionPool_proofs -------------------------
(***************************************************************************)
(* Theorems about ConnectionPool, for any number of requests, pool size    *)
(* and number of connections a handler takes.                              *)
(***************************************************************************)
EXTENDS ConnectionPool, SequenceTheorems, FiniteSetTheorems, TLAPS

Waiting == {"entering", "wanting"}

TypeOK ==
  /\ kind    \in [Worker -> {"none", "read", "job", "events"}]
  /\ pc      \in [Worker -> {"idle", "gated", "using", "leaving"} \cup Waiting]
  /\ uses    \in [Worker -> Nat]
  /\ free    \in Nat
  /\ waiters \in Seq(Worker)

\* Only writes pass the gate, and the one that takes more is events/batch.
KindFits ==
  \A w \in Worker :
    /\ pc[w] = "idle" <=> kind[w] = "none"
    /\ pc[w] \in {"entering", "gated", "leaving"} => IsWrite(w)
    /\ IsWrite(w) /\ pc[w] \in {"wanting", "using"} => kind[w] = "events"

\* The line has the requests that wait, each once, and they wait for a reason.
LineHolds ==
  /\ \A i \in DOMAIN waiters : pc[waiters[i]] \in Waiting
  /\ \A i, j \in DOMAIN waiters : waiters[i] = waiters[j] => i = j
  /\ \A w \in Worker : pc[w] \in Waiting => \E i \in DOMAIN waiters : waiters[i] = w
  /\ waiters # <<>> => free = 0

\* The connections that the gates hold, and those of the handlers.
Gates == {w \in Worker : HoldsGate(w)}
Users == {w \in Worker : pc[w] = "using"}

Load(gates, users) == Cardinality(gates) + Cardinality(users)

\* Conserved, in these terms.
LoadFits == free + Load(Gates, Users) = PoolSize

IInv == /\ TypeOK
        /\ KindFits
        /\ LineHolds
        /\ LoadFits
-----------------------------------------------------------------------------
\* What is left of a sequence without its i-th element.
LEMMA RemoveAtProperties ==
  ASSUME NEW S, NEW s \in Seq(S), NEW i \in 1..Len(s)
  PROVE  /\ RemoveAt(s, i) \in Seq(S)
         /\ Len(RemoveAt(s, i)) = Len(s) - 1
         /\ \A j \in 1..(Len(s) - 1) :
              RemoveAt(s, i)[j] = IF j < i THEN s[j] ELSE s[j + 1]
<1> DEFINE front == SubSeq(s, 1, i - 1)
           back  == SubSeq(s, i + 1, Len(s))
<1>1. /\ Len(s) \in Nat /\ i \in Int /\ i - 1 \in Int /\ i + 1 \in Int
      /\ \A j \in 1..Len(s) : s[j] \in S
  OBVIOUS
<1>2. /\ front \in Seq(S) /\ Len(front) = i - 1
      /\ \A j \in 1..(i - 1) : front[j] = s[j]
  BY <1>1, SubSeqProperties
<1>3. /\ back \in Seq(S) /\ Len(back) = Len(s) - i
      /\ \A j \in 1..(Len(s) - i) : back[j] = s[i + j]
  BY <1>1, SubSeqProperties
<1> HIDE DEF front, back
<1>4. /\ front \o back \in Seq(S)
      /\ Len(front \o back) = Len(s) - 1
      /\ \A j \in 1..(Len(s) - 1) :
           (front \o back)[j] = IF j <= i - 1 THEN front[j] ELSE back[j - (i - 1)]
  <2>1. Len(front) + Len(back) = Len(s) - 1
    BY <1>1, <1>2, <1>3
  <2>2. /\ front \o back \in Seq(S)
        /\ Len(front \o back) = Len(front) + Len(back)
        /\ \A j \in 1..(Len(front) + Len(back)) :
             (front \o back)[j] =
               IF j <= Len(front) THEN front[j] ELSE back[j - Len(front)]
    <3>1. front \in Seq(S) /\ back \in Seq(S)
      BY <1>2, <1>3
    <3> QED
      BY <3>1, ConcatProperties, ZenonT(40)
  <2> QED
    BY <1>2, <1>3, <2>1, <2>2
<1>5. \A j \in 1..(Len(s) - 1) :
        (front \o back)[j] = IF j < i THEN s[j] ELSE s[j + 1]
  BY <1>1, <1>2, <1>3, <1>4
<1> QED
  BY <1>4, <1>5 DEF RemoveAt, front, back

\* getconn puts the request among those that hold or at the end of the line.
LEMMA AcquireEffect ==
  ASSUME TypeOK, LineHolds, NEW w \in Worker, NEW wait \in Waiting,
         pc[w] \notin Waiting, Acquire(w, wait)
  PROVE  /\ \/ /\ free > 0 /\ free' = free - 1
               /\ pc' = [pc EXCEPT ![w] = Granted(wait)]
            \/ free' = free /\ pc' = [pc EXCEPT ![w] = wait]
         /\ free' \in Nat
         /\ waiters' \in Seq(Worker)
         /\ LineHolds'
<1>1. CASE free > 0
  <2>1. /\ waiters = <<>> /\ waiters' = <<>>
        /\ pc' = [pc EXCEPT ![w] = Granted(wait)]
        /\ free' = free - 1
    BY <1>1 DEF Acquire, LineHolds, TypeOK
  <2>2. Granted(wait) \notin Waiting
    BY DEF Granted, Waiting
  <2> QED
    BY <1>1, <2>1, <2>2 DEF LineHolds, TypeOK
<1>2. CASE ~(free > 0)
  <2>1. /\ free = 0 /\ free' = 0
        /\ waiters' = Append(waiters, w)
        /\ pc' = [pc EXCEPT ![w] = wait]
    BY <1>2 DEF Acquire, TypeOK
  <2>2. /\ waiters' \in Seq(Worker) /\ Len(waiters) \in Nat
        /\ Len(waiters') = Len(waiters) + 1
        /\ waiters'[Len(waiters) + 1] = w
        /\ \A i \in 1..Len(waiters) : waiters'[i] = waiters[i]
    BY <2>1 DEF TypeOK
  <2>3. \A i \in 1..Len(waiters) : waiters[i] \in Worker /\ waiters[i] # w
    BY DEF LineHolds, TypeOK
  <2>4. DOMAIN waiters' = 1..(Len(waiters) + 1) /\ DOMAIN waiters = 1..Len(waiters)
    BY <2>2 DEF TypeOK
  <2>5. \A i \in DOMAIN waiters' : pc'[waiters'[i]] \in Waiting
    BY <2>1, <2>2, <2>3, <2>4 DEF LineHolds, TypeOK
  <2>6. \A i, j \in DOMAIN waiters' : waiters'[i] = waiters'[j] => i = j
    BY <2>2, <2>3, <2>4 DEF LineHolds
  <2>7. ASSUME NEW u \in Worker, pc'[u] \in Waiting
        PROVE  \E i \in DOMAIN waiters' : waiters'[i] = u
    <3>1. CASE u = w
      BY <2>2, <2>4, <3>1
    <3>2. CASE u # w
      <4>1. PICK i \in DOMAIN waiters : waiters[i] = u
        BY <2>1, <2>7, <3>2 DEF LineHolds, TypeOK
      <4> QED
        BY <2>2, <2>4, <4>1
    <3> QED
      BY <3>1, <3>2
  <2> QED
    BY <2>1, <2>2, <2>5, <2>6, <2>7 DEF LineHolds
<1> QED
  BY <1>1, <1>2

\* putconn gives the connection to the first in line, who is another request.
LEMMA ReleaseEffect ==
  ASSUME TypeOK, LineHolds, NEW w \in Worker,
         NEW next \in {"idle", "gated"}, pc[w] \notin Waiting, Release(w, next)
  PROVE  /\ \/ free' = free + 1 /\ pc' = [pc EXCEPT ![w] = next]
            \/ \E h \in Worker \ {w} :
                 /\ pc[h] \in Waiting
                 /\ free' = free
                 /\ pc' = [pc EXCEPT ![w] = next, ![h] = Granted(pc[h])]
         /\ free' \in Nat
         /\ waiters' \in Seq(Worker)
         /\ LineHolds'
<1>1. next \notin Waiting
  BY DEF Waiting
<1>2. CASE waiters = <<>>
  BY <1>1, <1>2 DEF Release, LineHolds, TypeOK
<1>3. CASE waiters # <<>>
  <2> DEFINE h == Head(waiters)
  <2>0. waiters \in Seq(Worker) /\ waiters' = Tail(waiters)
    BY <1>3 DEF Release, TypeOK
  <2>1. /\ h \in Worker /\ h = waiters[1] /\ Len(waiters) \in Nat \ {0}
        /\ waiters' \in Seq(Worker)
        /\ \A i \in 1..(Len(waiters) - 1) : waiters'[i] = waiters[i + 1]
        /\ DOMAIN waiters' = 1..(Len(waiters) - 1)
        /\ DOMAIN waiters = 1..Len(waiters)
    <3>1. h = waiters[1] /\ Len(waiters) \in Nat \ {0}
      BY <1>3, <2>0, EmptySeq, LenProperties
    <3> QED
      BY <1>3, <2>0, <3>1, HeadTailProperties, LenProperties
  <2>2. pc[h] \in Waiting /\ h # w /\ Granted(pc[h]) \notin Waiting
    BY <2>1 DEF LineHolds, Granted, Waiting
  <2>3. /\ pc' = [pc EXCEPT ![w] = next, ![h] = Granted(pc[h])]
        /\ free' = free /\ free = 0
    BY <1>3 DEF Release, LineHolds
  <2>4. \A i \in 1..(Len(waiters) - 1) : /\ waiters[i + 1] \in Worker
                                         /\ waiters[i + 1] # h
                                         /\ waiters[i + 1] # w
                                         /\ pc[waiters[i + 1]] \in Waiting
    <3> SUFFICES ASSUME NEW i \in 1..(Len(waiters) - 1)
                 PROVE  /\ waiters[i + 1] \in Worker
                        /\ waiters[i + 1] # h
                        /\ waiters[i + 1] # w
                        /\ pc[waiters[i + 1]] \in Waiting
      OBVIOUS
    <3>1. i + 1 \in DOMAIN waiters /\ i + 1 # 1 /\ 1 \in DOMAIN waiters
      BY <2>1
    <3>2. waiters[i + 1] \in Worker /\ pc[waiters[i + 1]] \in Waiting
      BY <2>0, <2>1, <3>1, ElementOfSeq DEF LineHolds
    <3> QED
      BY <2>1, <3>1, <3>2 DEF LineHolds
  <2> HIDE DEF h
  <2>5. \A i \in DOMAIN waiters' : pc'[waiters'[i]] \in Waiting
    BY <2>1, <2>3, <2>4 DEF TypeOK
  <2>6. ASSUME NEW i \in DOMAIN waiters', NEW j \in DOMAIN waiters',
               waiters'[i] = waiters'[j]
        PROVE  i = j
    <3>1. i + 1 \in DOMAIN waiters /\ j + 1 \in DOMAIN waiters
      BY <2>1
    <3>2. i + 1 = j + 1
      BY <2>1, <2>6, <3>1 DEF LineHolds
    <3> QED
      BY <2>1, <3>2
  <2>7. ASSUME NEW u \in Worker, pc'[u] \in Waiting
        PROVE  \E i \in DOMAIN waiters' : waiters'[i] = u
    <3>1. u # w /\ u # h /\ pc[u] \in Waiting
      BY <1>1, <2>1, <2>2, <2>3, <2>7 DEF TypeOK
    <3>2. PICK i \in DOMAIN waiters : waiters[i] = u
      BY <3>1 DEF LineHolds
    <3>3. i # 1
      BY <2>1, <3>1, <3>2
    <3>4. i - 1 \in DOMAIN waiters' /\ waiters'[i - 1] = u
      BY <2>1, <3>2, <3>3
    <3> QED
      BY <3>4
  <2>8. LineHolds'
    BY <2>3, <2>5, <2>6, <2>7 DEF LineHolds
  <2> QED
    BY <2>1, <2>2, <2>3, <2>8 DEF TypeOK
<1> QED
  BY <1>2, <1>3

\* A wait that times out leaves the line, and nobody else does.
LEMMA LeaveEffect ==
  ASSUME TypeOK, LineHolds, NEW w \in Worker, pc[w] \in Waiting,
         NEW next \in {"idle", "leaving"}, pc' = [pc EXCEPT ![w] = next],
         UNCHANGED free,
         NEW p \in DOMAIN waiters, waiters[p] = w, waiters' = RemoveAt(waiters, p)
  PROVE  /\ waiters' \in Seq(Worker)
         /\ LineHolds'
<1>1. waiters \in Seq(Worker) /\ Len(waiters) \in Nat /\ p \in 1..Len(waiters)
      /\ DOMAIN waiters = 1..Len(waiters)
  BY LenProperties DEF TypeOK
<1>2. /\ waiters' \in Seq(Worker)
      /\ Len(waiters') = Len(waiters) - 1
      /\ \A j \in 1..(Len(waiters) - 1) :
           waiters'[j] = IF j < p THEN waiters[j] ELSE waiters[j + 1]
  BY <1>1, RemoveAtProperties
<1>3. DOMAIN waiters' = 1..(Len(waiters) - 1)
  BY <1>2, LenProperties
<1> DEFINE old(j) == IF j < p THEN j ELSE j + 1
<1>4. \A j \in DOMAIN waiters' : /\ old(j) \in DOMAIN waiters /\ old(j) # p
                                 /\ waiters'[j] = waiters[old(j)]
  BY <1>1, <1>2, <1>3
<1>5. \A j \in DOMAIN waiters' : waiters'[j] # w /\ waiters'[j] \in Worker
                                 /\ pc[waiters'[j]] \in Waiting
  <2> TAKE j \in DOMAIN waiters'
  <2>1. waiters[old(j)] \in Worker
    BY <1>1, <1>4, ElementOfSeq
  <2> QED
    BY <1>4, <2>1 DEF LineHolds
<1>6. next \notin Waiting
  BY DEF Waiting
<1>7. \A j \in DOMAIN waiters' : pc'[waiters'[j]] \in Waiting
  BY <1>5 DEF TypeOK
<1>8. ASSUME NEW i \in DOMAIN waiters', NEW j \in DOMAIN waiters',
             waiters'[i] = waiters'[j]
      PROVE  i = j
  <2>1. old(i) = old(j)
    BY <1>4, <1>8 DEF LineHolds
  <2> QED
    BY <1>1, <1>3, <2>1
<1>9. ASSUME NEW u \in Worker, pc'[u] \in Waiting
      PROVE  \E i \in DOMAIN waiters' : waiters'[i] = u
  <2>1. u # w /\ pc[u] \in Waiting
    BY <1>6, <1>9 DEF TypeOK
  <2>2. PICK i \in DOMAIN waiters : waiters[i] = u
    BY <2>1 DEF LineHolds
  <2>3. i # p
    BY <2>1, <2>2
  <2>4. CASE i < p
    BY <1>1, <1>2, <1>3, <2>2, <2>4
  <2>5. CASE i > p
    <3>1. i - 1 \in DOMAIN waiters' /\ waiters'[i - 1] = u
      BY <1>1, <1>2, <1>3, <2>2, <2>5
    <3> QED
      BY <3>1
  <2> QED
    BY <1>1, <2>3, <2>4, <2>5
<1>10. waiters' # <<>> => free' = 0
  BY <1>1 DEF LineHolds
<1> QED
  BY <1>2, <1>7, <1>8, <1>9, <1>10 DEF LineHolds

-----------------------------------------------------------------------------
\* Taking one connection, or giving one back, on either side of the count.
LEMMA LoadChange ==
  ASSUME NEW G \in SUBSET Worker, NEW U \in SUBSET Worker, NEW w \in Worker
  PROVE  /\ Load(G, U) \in Nat
         /\ w \notin G => Load(G \cup {w}, U) = Load(G, U) + 1
         /\ w \notin U => Load(G, U \cup {w}) = Load(G, U) + 1
         /\ w \in G => Load(G \ {w}, U) = Load(G, U) - 1
         /\ w \in U => Load(G, U \ {w}) = Load(G, U) - 1
<1>1. IsFiniteSet(G) /\ IsFiniteSet(U)
  BY WorkerAssumption, FS_Subset
<1>2. Cardinality(G) \in Nat /\ Cardinality(U) \in Nat
  BY <1>1, FS_CardinalityType
<1>3. /\ w \notin G => Cardinality(G \cup {w}) = Cardinality(G) + 1
      /\ w \notin U => Cardinality(U \cup {w}) = Cardinality(U) + 1
  BY <1>1, FS_AddElement
<1>4. /\ w \in G => Cardinality(G \ {w}) = Cardinality(G) - 1
      /\ w \in U => Cardinality(U \ {w}) = Cardinality(U) - 1
  BY <1>1, FS_RemoveElement
<1> QED
  BY <1>2, <1>3, <1>4 DEF Load

LEMMA HoldersAreWorkers == Gates \in SUBSET Worker /\ Users \in SUBSET Worker
  BY DEF Gates, Users

\* A request arrives: it takes an idle connection or a place in the line.
LEMMA ArriveStep ==
  ASSUME IInv, NEW w \in Worker, NEW k \in {"read", "job", "events"}, Arrive(w, k)
  PROVE  IInv'
<1> DEFINE wait == IF k = "read" THEN "wanting" ELSE "entering"
<1>1. /\ TypeOK /\ KindFits /\ LineHolds /\ LoadFits
      /\ pc[w] = "idle" /\ kind' = [kind EXCEPT ![w] = k] /\ uses' = uses
      /\ wait \in Waiting /\ pc[w] \notin Waiting /\ Acquire(w, wait)
  BY DEF IInv, Arrive, Waiting
<1>2. /\ \/ /\ free > 0 /\ free' = free - 1
            /\ pc' = [pc EXCEPT ![w] = Granted(wait)]
         \/ free' = free /\ pc' = [pc EXCEPT ![w] = wait]
      /\ free' \in Nat /\ waiters' \in Seq(Worker) /\ LineHolds'
  BY <1>1, AcquireEffect
<1>3. Granted(wait) = IF k = "read" THEN "using" ELSE "gated"
  BY DEF Granted
<1>4. TypeOK'
  BY <1>1, <1>2, <1>3 DEF TypeOK, Waiting
<1>5. KindFits'
  BY <1>1, <1>2, <1>3 DEF KindFits, TypeOK, IsWrite
<1>6. kind[w] = "none" /\ w \notin Gates /\ w \notin Users
  BY <1>1 DEF KindFits, Gates, Users, HoldsGate
<1>7. \A u \in Worker \ {w} : pc'[u] = pc[u] /\ kind'[u] = kind[u]
  BY <1>1, <1>2 DEF TypeOK
<1>8. \/ free' = free /\ Gates' = Gates /\ Users' = Users
      \/ free' = free - 1 /\ Gates' = Gates \cup {w} /\ Users' = Users
      \/ free' = free - 1 /\ Gates' = Gates /\ Users' = Users \cup {w}
  <2>1. CASE free' = free /\ pc' = [pc EXCEPT ![w] = wait]
    BY <1>1, <1>6, <1>7, <2>1 DEF Gates, Users, HoldsGate, IsWrite, TypeOK
  <2>2. CASE free' = free - 1 /\ pc' = [pc EXCEPT ![w] = Granted(wait)]
    BY <1>1, <1>3, <1>6, <1>7, <2>2 DEF Gates, Users, HoldsGate, IsWrite, TypeOK
  <2> QED
    BY <1>2, <2>1, <2>2
<1>9. LoadFits'
  <2>1. /\ Load(Gates, Users) \in Nat
        /\ Load(Gates \cup {w}, Users) = Load(Gates, Users) + 1
        /\ Load(Gates, Users \cup {w}) = Load(Gates, Users) + 1
    BY <1>6, LoadChange, HoldersAreWorkers
  <2>2. \/ free' = free /\ Load(Gates', Users') = Load(Gates, Users)
        \/ free' = free - 1 /\ Load(Gates', Users') = Load(Gates \cup {w}, Users)
        \/ free' = free - 1 /\ Load(Gates', Users') = Load(Gates, Users \cup {w})
    BY <1>8, ZenonT(40)
  <2> QED
    BY <1>1, <2>1, <2>2, PoolSizeAssumption DEF LoadFits, TypeOK
<1> QED
  BY <1>2, <1>4, <1>5, <1>9 DEF IInv

\* A connection is given back: the first in line takes it over, or the pool.
LEMMA ReleaseStep ==
  ASSUME IInv, NEW w \in Worker, NEW next \in {"idle", "gated"},
         \/ pc[w] = "using" /\ (next = "gated" <=> IsWrite(w))
         \/ pc[w] \in {"gated", "leaving"} /\ next = "idle",
         Release(w, next),
         kind' = IF next = "idle" THEN [kind EXCEPT ![w] = "none"] ELSE kind,
         uses' \in [Worker -> Nat]
  PROVE  IInv'
<1> DEFINE gates == IF pc[w] = "using" THEN Gates ELSE Gates \ {w}
           users == IF pc[w] = "using" THEN Users \ {w} ELSE Users
<1>1. /\ TypeOK /\ KindFits /\ LineHolds /\ LoadFits
      /\ pc[w] \notin Waiting
  BY DEF IInv, Waiting
<1>2. /\ \/ free' = free + 1 /\ pc' = [pc EXCEPT ![w] = next]
         \/ \E h \in Worker \ {w} :
              /\ pc[h] \in Waiting
              /\ free' = free
              /\ pc' = [pc EXCEPT ![w] = next, ![h] = Granted(pc[h])]
      /\ free' \in Nat /\ waiters' \in Seq(Worker) /\ LineHolds'
  BY <1>1, ReleaseEffect
<1>3. TypeOK'
  BY <1>1, <1>2 DEF TypeOK, Granted, Waiting
<1>4. KindFits'
  BY <1>1, <1>2 DEF KindFits, TypeOK, IsWrite, Granted, Waiting
<1>5. /\ gates \in SUBSET Worker /\ users \in SUBSET Worker
      /\ Load(Gates, Users) \in Nat
      /\ Load(gates, users) = Load(Gates, Users) - 1
  <2>1. pc[w] = "using" => w \in Users
    BY DEF Users
  <2>2. pc[w] # "using" => w \in Gates
    BY DEF Gates, HoldsGate
  <2> QED
    BY <2>1, <2>2, LoadChange, HoldersAreWorkers
<1> HIDE DEF gates, users
<1>6. CASE free' = free + 1 /\ pc' = [pc EXCEPT ![w] = next]
  <2>1. \A u \in Worker \ {w} : pc'[u] = pc[u] /\ kind'[u] = kind[u]
    BY <1>1, <1>6 DEF TypeOK
  <2>2. pc'[w] = next /\ (next = "idle" => kind'[w] = "none")
        /\ (next = "gated" => kind'[w] = kind[w])
    BY <1>1, <1>6 DEF TypeOK
  <2>3. Gates' = gates
    BY <2>1, <2>2 DEF gates, Gates, HoldsGate, IsWrite
  <2>4. Users' = users
    BY <2>1, <2>2 DEF users, Users
  <2>5. Load(Gates', Users') = Load(gates, users)
    BY <2>3, <2>4, ZenonT(40)
  <2>6. LoadFits'
    BY <1>1, <1>5, <1>6, <2>5, PoolSizeAssumption DEF LoadFits, TypeOK
  <2> QED
    BY <1>2, <1>3, <1>4, <2>6 DEF IInv
<1>7. ASSUME NEW h \in Worker \ {w}, pc[h] \in Waiting, free' = free,
             pc' = [pc EXCEPT ![w] = next, ![h] = Granted(pc[h])]
      PROVE  LoadFits'
  <2>1. \A u \in Worker \ {w, h} : pc'[u] = pc[u] /\ kind'[u] = kind[u]
    BY <1>1, <1>7 DEF TypeOK
  <2>2. /\ pc'[w] = next /\ pc'[h] = Granted(pc[h]) /\ kind'[h] = kind[h]
        /\ next = "idle" => kind'[w] = "none"
        /\ next = "gated" => kind'[w] = kind[w]
    BY <1>1, <1>7 DEF TypeOK
  <2>3. CASE pc[h] = "entering"
    <3>1. Gates' = gates \cup {h} /\ h \notin gates
      BY <2>1, <2>2, <2>3 DEF gates, Gates, HoldsGate, IsWrite, Granted
    <3>2. Users' = users
      BY <2>1, <2>2, <2>3 DEF users, Users, Granted
    <3>3. Load(Gates', Users') = Load(gates \cup {h}, users)
      BY <3>1, <3>2, ZenonT(40)
    <3>4. Load(gates \cup {h}, users) = Load(gates, users) + 1
      BY <1>5, <3>1, LoadChange
    <3> QED
      BY <1>1, <1>5, <1>7, <3>3, <3>4, PoolSizeAssumption DEF LoadFits, TypeOK
  <2>4. CASE pc[h] = "wanting"
    <3>1. Gates' = gates
      BY <2>1, <2>2, <2>4 DEF gates, Gates, HoldsGate, IsWrite, Granted
    <3>2. Users' = users \cup {h} /\ h \notin users
      BY <2>1, <2>2, <2>4 DEF users, Users, Granted
    <3>3. Load(Gates', Users') = Load(gates, users \cup {h})
      BY <3>1, <3>2, ZenonT(40)
    <3>4. Load(gates, users \cup {h}) = Load(gates, users) + 1
      BY <1>5, <3>2, LoadChange
    <3> QED
      BY <1>1, <1>5, <1>7, <3>3, <3>4, PoolSizeAssumption DEF LoadFits, TypeOK
  <2> QED
    BY <1>7, <2>3, <2>4 DEF Waiting
<1> QED
  BY <1>2, <1>3, <1>4, <1>6, <1>7 DEF IInv

\* The handler of an event batch takes or waits for one more connection.
LEMMA HandlerAcquiresStep ==
  ASSUME IInv, NEW w \in Worker, HandlerAcquires(w)
  PROVE  IInv'
<1>1. /\ TypeOK /\ KindFits /\ LineHolds /\ LoadFits
      /\ pc[w] = "gated" /\ kind[w] = "events" /\ kind' = kind
      /\ uses' \in [Worker -> Nat]
      /\ "wanting" \in Waiting /\ pc[w] \notin Waiting /\ Acquire(w, "wanting")
  BY DEF IInv, HandlerAcquires, TakesOwn, Waiting, TypeOK
<1>2. /\ \/ free' = free - 1 /\ pc' = [pc EXCEPT ![w] = "using"]
         \/ free' = free /\ pc' = [pc EXCEPT ![w] = "wanting"]
      /\ free' \in Nat /\ waiters' \in Seq(Worker) /\ LineHolds'
  BY <1>1, AcquireEffect DEF Granted
<1>3. TypeOK' /\ KindFits'
  BY <1>1, <1>2 DEF TypeOK, KindFits, IsWrite, Waiting
<1>4. \A u \in Worker \ {w} : pc'[u] = pc[u]
  BY <1>1, <1>2 DEF TypeOK
<1>5. Gates' = Gates
  BY <1>1, <1>2, <1>4 DEF Gates, HoldsGate, IsWrite, TypeOK
<1>6. w \notin Users
  BY <1>1 DEF Users
<1>7. \/ free' = free - 1 /\ Users' = Users \cup {w}
      \/ free' = free /\ Users' = Users
  BY <1>1, <1>2, <1>4, <1>6 DEF Users, TypeOK
<1>8. \/ free' = free - 1 /\ Load(Gates', Users') = Load(Gates, Users \cup {w})
      \/ free' = free /\ Load(Gates', Users') = Load(Gates, Users)
  BY <1>5, <1>7, ZenonT(40)
<1>9. Load(Gates, Users) \in Nat
      /\ Load(Gates, Users \cup {w}) = Load(Gates, Users) + 1
  BY <1>6, LoadChange, HoldersAreWorkers
<1>10. LoadFits'
  BY <1>1, <1>8, <1>9, PoolSizeAssumption DEF LoadFits, TypeOK
<1> QED
  BY <1>2, <1>3, <1>10 DEF IInv

\* A timeout gives nothing back by itself: a write that holds the gate's
\* connection keeps it until it has unwound.
LEMMA TimeOutStep ==
  ASSUME IInv, NEW w \in Worker, TimeOut(w)
  PROVE  IInv'
<1> DEFINE next == IF HoldsGate(w) THEN "leaving" ELSE "idle"
<1>1. /\ TypeOK /\ KindFits /\ LineHolds /\ LoadFits
      /\ pc[w] \in Waiting
      /\ pc' = [pc EXCEPT ![w] = next]
      /\ kind' = IF next = "idle" THEN [kind EXCEPT ![w] = "none"] ELSE kind
      /\ UNCHANGED <<uses, free>>
  BY DEF IInv, TimeOut, IsTimed, Unwinds, Waiting
<1>2. PICK p \in DOMAIN waiters : waiters[p] = w /\ waiters' = RemoveAt(waiters, p)
  BY DEF TimeOut
<1>3. waiters' \in Seq(Worker) /\ LineHolds'
  <2>1. next \in {"idle", "leaving"} /\ pc' = [pc EXCEPT ![w] = next]
    BY <1>1
  <2> HIDE DEF next
  <2> QED
    BY <1>1, <1>2, <2>1, LeaveEffect
<1>4. TypeOK'
  BY <1>1, <1>3 DEF TypeOK, Waiting
<1>5. KindFits'
  BY <1>1 DEF KindFits, TypeOK, IsWrite, HoldsGate, Waiting
<1>6. \A u \in Worker \ {w} : pc'[u] = pc[u] /\ kind'[u] = kind[u]
  BY <1>1 DEF TypeOK
<1>7. Gates' = Gates /\ Users' = Users
  BY <1>1, <1>6 DEF Gates, Users, HoldsGate, IsWrite, TypeOK, Waiting
<1>8. LoadFits'
  BY <1>1, <1>7 DEF LoadFits
<1> QED
  BY <1>3, <1>4, <1>5, <1>8 DEF IInv

-----------------------------------------------------------------------------
\* The invariant is inductive.
LEMMA InvariantStep == IInv /\ [Next]_vars => IInv'
<1> SUFFICES ASSUME IInv, [Next]_vars PROVE IInv'
  OBVIOUS
<1>1. ASSUME NEW w \in Worker, NEW k \in {"read", "job", "events"}, Arrive(w, k)
      PROVE  IInv'
  BY <1>1, ArriveStep
<1>2. ASSUME NEW w \in Worker, HandlerAcquires(w) PROVE IInv'
  BY <1>2, HandlerAcquiresStep
<1>3. ASSUME NEW w \in Worker, HandlerReleases(w) PROVE IInv'
  <2>1. uses' \in [Worker -> Nat] /\ pc[w] = "using"
    BY <1>3 DEF HandlerReleases, IInv, TypeOK
  <2>2. CASE IsWrite(w)
    BY <1>3, <2>1, <2>2, ReleaseStep DEF HandlerReleases
  <2>3. CASE ~IsWrite(w)
    BY <1>3, <2>1, <2>3, ReleaseStep DEF HandlerReleases
  <2> QED
    BY <2>2, <2>3
<1>4. ASSUME NEW w \in Worker, GateReleases(w) PROVE IInv'
  <2>1. uses' \in [Worker -> Nat] /\ pc[w] \in {"gated", "leaving"}
    BY <1>4 DEF GateReleases, IInv, TypeOK
  <2> QED
    BY <1>4, <2>1, ReleaseStep DEF GateReleases
<1>5. ASSUME NEW w \in Worker, TimeOut(w) PROVE IInv'
  BY <1>5, TimeOutStep
<1>6. CASE UNCHANGED vars
  BY <1>6 DEF vars, IInv, TypeOK, KindFits, IsWrite, LineHolds, LoadFits, Gates,
              Users, HoldsGate
<1> QED
  BY <1>1, <1>2, <1>3, <1>4, <1>5, <1>6 DEF Next, Advance

\* At first every connection is idle.
LEMMA InvariantInit == Init => IInv
<1> SUFFICES ASSUME Init PROVE IInv
  OBVIOUS
<1>1. TypeOK /\ KindFits
  BY PoolSizeAssumption DEF Init, TypeOK, KindFits, IsWrite, Waiting
<1>2. LineHolds
  BY DEF Init, LineHolds, Waiting
<1>3. Gates = {} /\ Users = {}
  BY DEF Init, Gates, Users, HoldsGate, IsWrite
<1>4. Load(Gates, Users) = 0
  BY <1>3, FS_EmptySet DEF Load
<1>5. LoadFits
  BY <1>4, PoolSizeAssumption DEF Init, LoadFits
<1> QED
  BY <1>1, <1>2, <1>5 DEF IInv

\* The two ways to count what is held agree.
LEMMA LoadIsConserved == IInv => Conserved
<1> SUFFICES ASSUME IInv PROVE Conserved
  OBVIOUS
<1>1. /\ Cardinality(Gates) \in Nat /\ Cardinality(Users) \in Nat
      /\ free \in Nat
      /\ free + (Cardinality(Gates) + Cardinality(Users)) = PoolSize
  BY WorkerAssumption, FS_Subset, FS_CardinalityType, HoldersAreWorkers
     DEF IInv, TypeOK, LoadFits, Load
<1> QED
  BY <1>1 DEF Conserved, Gates, Users

\* No connection leaks and none is shared, whatever times out, for any number
\* of requests and any pool.
THEOREM ConservedHolds == Spec => []Conserved
  BY LoadIsConserved, InvariantInit, InvariantStep, PTL DEF Spec

\* A stall needs as many event batches as the pool has connections: each has
\* passed the gate and waits for its second connection.
LEMMA StalledByBatches == IInv => OnlyBatchesStall
<1> SUFFICES ASSUME IInv, Stalled
             PROVE  /\ \A w \in Holders : kind[w] = "events"
                    /\ Cardinality(Holders) = PoolSize
  BY DEF OnlyBatchesStall
<1>1. \A w \in Holders : pc[w] = "wanting" /\ HoldsGate(w)
  BY DEF Stalled, Holders
<1>2. \A w \in Holders : kind[w] = "events"
  BY <1>1 DEF IInv, KindFits, HoldsGate, Holders
<1>3. Holders = Gates /\ Users = {}
  BY <1>1 DEF Holders, Gates, Users
<1>4. Cardinality(Users) = 0
  BY <1>3, FS_EmptySet
<1>5. Cardinality(Holders) = Cardinality(Gates)
  BY <1>3, ZenonT(40)
<1>6. free = 0 /\ Cardinality(Gates) \in Nat
  BY WorkerAssumption, FS_Subset, FS_CardinalityType, HoldersAreWorkers
     DEF Stalled
<1>7. Cardinality(Holders) = PoolSize
  BY <1>4, <1>5, <1>6, PoolSizeAssumption DEF IInv, LoadFits, Load
<1> QED
  BY <1>2, <1>7

\* A pool of any size is exhausted for good only by as many event batches.
THEOREM OnlyBatchesStallHolds == Spec => []OnlyBatchesStall
  BY StalledByBatches, InvariantInit, InvariantStep, PTL DEF Spec

\* A pool with more connections than requests let in never stalls.
THEOREM LargePoolNeverStalls ==
  ASSUME PoolSize > Cardinality(Worker)
  PROVE  Spec => []~Stalled
<1>1. IInv => ~Stalled
  <2> SUFFICES ASSUME IInv, Stalled PROVE FALSE
    OBVIOUS
  <2>1. Cardinality(Holders) = PoolSize
    BY StalledByBatches DEF OnlyBatchesStall
  <2>2. /\ Cardinality(Holders) <= Cardinality(Worker)
        /\ Cardinality(Worker) \in Nat
    BY WorkerAssumption, FS_Subset, FS_CardinalityType DEF Holders
  <2> QED
    BY <2>1, <2>2, PoolSizeAssumption
<1> QED
  BY <1>1, InvariantInit, InvariantStep, PTL DEF Spec

\* Who waits is in the line, once, and waits only while no connection is
\* idle: no wakeup is lost when a wait times out.
THEOREM LineHoldsAlways == Spec => []LineHolds
<1>1. IInv => LineHolds
  BY DEF IInv
<1> QED
  BY <1>1, InvariantInit, InvariantStep, PTL DEF Spec
=============================================================================
