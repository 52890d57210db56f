--------------------------- MODULE Candidates_proofs ---------------------------
(***************************************************************************)
(* Theorems about candidates: the one the evolve loop picks (EvolveRuns),  *)
(* for any number of runs, scores of a judge, texts, candidates and time,  *)
(* and those the gates let through one after the other (SafetyGates), for  *)
(* any keys of the safety block and any sizes.                             *)
(***************************************************************************)
EXTENDS EvolveRuns, SafetyGates, SequenceTheorems, FiniteSetTheorems, TLAPS

Writing == {"baseline", "evolved", "metrics"}

TypeOK ==
  /\ now        \in Time
  /\ pc         \in [Run -> {"ready", "exploring", "done", "dead"} \cup Writing]
  /\ base       \in [Run -> Text \cup {Judged}]
  /\ baseScore  \in [Run -> Nat]
  /\ explored   \in [Run -> Seq(Nat)]
  /\ bestScore  \in [Run -> Nat \cup {-1}]
  /\ bestWinner \in [Run -> Nat]
  /\ winner     \in [Run -> Nat]
  /\ ts         \in [Run -> Time \cup {-1}]
  /\ dir        \in [Time -> [File -> Run \cup {NoRun, Partial}]]

\* The accumulator of the report: the largest score explored, or None.  (That
\* it has a first occurrence is kept here, as it would take an induction.)
ReportIsBest(scores, best) ==
  /\ scores = <<>> <=> best = -1
  /\ \A i \in DOMAIN scores : scores[i] <= best
  /\ scores # <<>> => \E i \in DOMAIN scores :
       scores[i] = best /\ \A j \in 1..(i - 1) : scores[j] < best

\* The accumulator of the winner: the first of the best that beat the baseline.
WinnerIsFirst(scores, score, best, i) ==
  /\ \A j \in DOMAIN scores : scores[j] <= best
  /\ i = 0 => best = score
  /\ i # 0 => /\ i \in DOMAIN scores
              /\ scores[i] = best
              /\ best > score
              /\ \A j \in 1..(i - 1) : scores[j] < best

Reporting ==
  \A r \in Run : /\ ReportIsBest(explored[r], bestScore[r])
                 /\ pc[r] = "ready" => explored[r] = <<>> /\ winner[r] = 0
                 /\ pc[r] # "ready" => WinnerIsFirst(explored[r], baseScore[r],
                                                     bestWinner[r], winner[r])

Opened == \A r \in Run :
  /\ pc[r] \in {"ready", "exploring"} => ts[r] = -1
  /\ pc[r] \in Writing \cup {"done"}  => ts[r] # -1

\* The run that file f of directory t is of, or that crashed on it.
Wrote(q, t, f) == /\ ts[q] = t
                  /\ f = "evolved" => winner[q] # 0
                  /\ \/ dir[t][f] = q
                     \/ dir[t][f] = Partial /\ pc[q] = "dead"

Written == \A t \in Time, f \in File :
  dir[t][f] # NoRun => \E q \in Run : Wrote(q, t, f)

\* What a run has been past is there, and metrics.json is the last of it.
Progress == \A r \in Run, t \in Time :
  /\ ts[r] = t /\ pc[r] \in {"evolved", "metrics", "done"} =>
       dir[t]["baseline"] # NoRun
  /\ ts[r] = t /\ pc[r] \in {"metrics", "done"} /\ winner[r] # 0 =>
       dir[t]["evolved"] # NoRun
  /\ dir[t]["metrics"] = r => pc[r] = "done"

\* A run that is scored by the heuristic starts from the score of its text.
ScoredByHeuristic == \A r \in Run : base[r] \in Text =>
  baseScore[r] = Heuristic(base[r], base[r])

IInv == /\ TypeOK
        /\ Reporting
        /\ Opened
        /\ Written
        /\ Progress
        /\ ScoredByHeuristic
        /\ HeuristicKeepsBaseline
-----------------------------------------------------------------------------
(***************************************************************************)
(* The heuristic: both of its parts are largest for the text itself.       *)
(***************************************************************************)
LEMMA DivMonotone ==
  ASSUME NEW a \in Nat, NEW b \in Nat, NEW n \in Nat \ {0}, a <= b
  PROVE  a \div n \in Nat /\ a \div n <= b \div n
OBVIOUS

LEMMA DivBound ==
  ASSUME NEW s \in Nat, NEW a \in Nat, NEW n \in Nat \ {0}, a <= n
  PROVE  (s * a) \div n \in Nat /\ (s * a) \div n <= s
OBVIOUS

LEMMA TextType ==
  ASSUME NEW t \in Text
  PROVE  t.words \in SUBSET Word /\ IsFiniteSet(t.words) /\ t.length \in Nat
BY TextAssumption, ScaleAssumption, FS_Subset DEF Text

LEMMA OverlapBest ==
  ASSUME NEW t \in Text, NEW c \in Text
  PROVE  Overlap(t, c) \in Nat /\ Overlap(t, c) <= Overlap(t, t)
<1> DEFINE all    == Cardinality(t.words)
           common == Cardinality(t.words \cap c.words)
<1>1. all \in Nat /\ common \in Nat /\ common <= all
  BY TextType, FS_CardinalityType, FS_Intersection
<1>2. t.words # {} => all # 0
  BY TextType, FS_EmptySet
<1>3. t.words \cap t.words = t.words
  OBVIOUS
<1> HIDE DEF all, common
<1>4. /\ Scale * common \in Nat /\ Scale * all \in Nat
      /\ Scale * common <= Scale * all
  BY <1>1, ScaleAssumption
<1>5. all # 0 => /\ (Scale * common) \div all \in Nat
                 /\ (Scale * common) \div all <= (Scale * all) \div all
  BY <1>1, <1>4, DivMonotone
<1>6. /\ Overlap(t, c) = IF t.words = {} THEN 0 ELSE (Scale * common) \div all
      /\ Overlap(t, t) = IF t.words = {} THEN 0 ELSE (Scale * all) \div all
  BY <1>3 DEF Overlap, all, common
<1> QED
  BY <1>2, <1>5, <1>6

LEMMA ConcisenessBest ==
  ASSUME NEW t \in Text, NEW c \in Text
  PROVE  Conciseness(t, c) \in Nat /\ Conciseness(t, c) <= Conciseness(t, t)
<1>1. /\ t.length \in Nat /\ Scale \in Nat
      /\ AtLeastOne(c.length) \in Nat \ {0}
      /\ AtLeastOne(t.length) = IF t.length = 0 THEN 1 ELSE t.length
  BY TextType, ScaleAssumption DEF AtLeastOne
<1>2. Conciseness(t, c) \in Nat /\ Conciseness(t, c) <= Scale
  BY <1>1, DivBound DEF Conciseness
<1>3. CASE t.length = 0
  <2>1. Scale * t.length = 0
    BY <1>1, <1>3
  <2>2. /\ (Scale * t.length) \div AtLeastOne(c.length) = 0
        /\ (Scale * t.length) \div AtLeastOne(t.length) = 0
    BY <1>1, <1>3, <2>1
  <2>3. Conciseness(t, c) = 0 /\ Conciseness(t, t) = 0
    BY <1>1, <1>3, <2>2 DEF Conciseness
  <2> QED
    BY <2>3
<1>4. CASE t.length # 0
  <2>1. Conciseness(t, t) = Scale
    BY <1>1, <1>4 DEF Conciseness
  <2> QED
    BY <1>2, <2>1
<1> QED
  BY <1>3, <1>4

LEMMA HeuristicBest ==
  ASSUME NEW t \in Text, NEW c \in Text
  PROVE  Heuristic(t, c) \in Nat /\ Heuristic(t, c) <= Heuristic(t, t)
<1>1. Overlap(t, c) \in Nat /\ Overlap(t, c) <= Overlap(t, t) /\ Overlap(t, t) \in Nat
  BY OverlapBest
<1>2. /\ Conciseness(t, c) \in Nat /\ Conciseness(t, t) \in Nat
      /\ Conciseness(t, c) <= Conciseness(t, t)
  BY ConcisenessBest
<1> QED
  BY <1>1, <1>2 DEF Heuristic

LEMMA ScoresType ==
  ASSUME NEW t \in Text \cup {Judged}, NEW s \in ScoresOf(t, Text)
  PROVE  s \in Nat
BY ScoreAssumption, HeuristicBest DEF ScoresOf
-----------------------------------------------------------------------------
LEMMA TypeInit == Init => TypeOK
<1> SUFFICES ASSUME Init PROVE TypeOK
  OBVIOUS
<1>1. 0 \in Time
  BY BoundAssumption DEF Time
<1>2. <<>> \in Seq(Nat)
  OBVIOUS
<1> QED
  BY <1>1, <1>2 DEF Init, TypeOK

LEMMA WriteFileType ==
  ASSUME TypeOK, Opened, NEW r \in Run, NEW f \in Writing,
         NEW next \in Writing \cup {"done"}, WriteFile(r, f, next)
  PROVE  TypeOK'
<1>1. ts[r] \in Time
  BY DEF TypeOK, Opened, WriteFile
<1>2. dir' \in [Time -> [File -> Run \cup {NoRun, Partial}]]
  BY <1>1 DEF WriteFile, TypeOK, File, Writing
<1> QED
  BY <1>2 DEF WriteFile, TypeOK, loop

LEMMA TypeStep == ASSUME TypeOK, Opened, Next PROVE TypeOK'
<1>1. CASE Tick
  BY <1>1, BoundAssumption DEF Tick, TypeOK, Time, loop
<1>2. ASSUME NEW r \in Run, NEW t \in Text \cup {Judged}, NEW n \in 0..MaxCandidates,
             NEW s \in ScoresOf(t, {t}), Begin(r, t, n, s)
      PROVE  TypeOK'
  <2>1. s \in Nat
    BY ScoreAssumption, HeuristicBest DEF ScoresOf
  <2> QED
    BY <1>2, <2>1 DEF Begin, TypeOK
<1>3. ASSUME NEW r \in Run, NEW s \in ScoresOf(base[r], Text), Explore(r, s) PROVE TypeOK'
  <2>1. base[r] \in Text \cup {Judged}
    BY DEF TypeOK
  <2>2. s \in Nat
    BY <2>1, ScoresType
  <2>3. explored' \in [Run -> Seq(Nat)]
    <3>1. explored[r] \in Seq(Nat) /\ Append(explored[r], s) \in Seq(Nat)
      BY <2>2, AppendProperties DEF TypeOK
    <3> QED
      BY <1>3, <3>1 DEF Explore, TypeOK
  <2>4. Len(explored[r]) + 1 \in Nat
    BY LenProperties DEF TypeOK
  <2>5. /\ bestScore'  \in [Run -> Nat \cup {-1}]
        /\ bestWinner' \in [Run -> Nat]
        /\ winner'     \in [Run -> Nat]
    BY <1>3, <2>2, <2>4 DEF Explore, TypeOK
  <2> QED
    BY <1>3, <2>3, <2>5 DEF Explore, TypeOK
<1>4. ASSUME NEW r \in Run, OpenDirectory(r) PROVE TypeOK'
  BY <1>4 DEF OpenDirectory, TypeOK, loop, Writing
<1>5. ASSUME NEW r \in Run, WriteBaseline(r) \/ WriteEvolved(r) \/ WriteMetrics(r)
      PROVE  TypeOK'
  BY <1>5, WriteFileType DEF WriteBaseline, WriteEvolved, WriteMetrics, Writing
<1>6. ASSUME NEW r \in Run, NothingEvolved(r) PROVE TypeOK'
  BY <1>6 DEF NothingEvolved, TypeOK, loop, Writing
<1>7. ASSUME NEW r \in Run, Crash(r) PROVE TypeOK'
  <2>1. dir' \in [Time -> [File -> Run \cup {NoRun, Partial}]]
    <3>1. CASE UNCHANGED dir
      BY <3>1 DEF TypeOK
    <3>2. CASE \E f \in Writes(r) : dir' = [dir EXCEPT ![ts[r]][f] = Partial]
      <4>1. PICK f \in Writes(r) : dir' = [dir EXCEPT ![ts[r]][f] = Partial]
        BY <3>2
      <4>2. f \in File /\ pc[r] \in Writing
        BY DEF Writes, File, Writing
      <4>3. ts[r] \in Time
        BY <4>2 DEF Opened, TypeOK
      <4> QED
        BY <4>1, <4>2, <4>3 DEF TypeOK
    <3> QED
      BY <1>7, <3>1, <3>2 DEF Crash
  <2> QED
    BY <1>7, <2>1 DEF Crash, TypeOK, loop
<1> QED
  BY <1>1, <1>2, <1>3, <1>4, <1>5, <1>6, <1>7 DEF Next, Step
-----------------------------------------------------------------------------
(***************************************************************************)
(* The loop: one more score keeps both accumulators true.                  *)
(***************************************************************************)
LEMMA ReportStep ==
  ASSUME NEW scores \in Seq(Nat), NEW best \in Nat \cup {-1}, NEW s \in Nat,
         ReportIsBest(scores, best)
  PROVE  ReportIsBest(Append(scores, s), IF s > best THEN s ELSE best)
<1> DEFINE more == Append(scores, s)
           top  == IF s > best THEN s ELSE best
<1>1. /\ Len(scores) \in Nat /\ DOMAIN scores = 1..Len(scores)
      /\ \A i \in 1..Len(scores) : scores[i] \in Nat
  BY LenProperties, ElementOfSeq
<1>2. /\ DOMAIN more = 1..(Len(scores) + 1) /\ more # <<>>
      /\ \A i \in 1..Len(scores) : more[i] = scores[i]
      /\ more[Len(scores) + 1] = s
  BY AppendProperties
<1>3. top \in Nat /\ top >= s /\ top >= best
  OBVIOUS
<1>4. \E i \in DOMAIN more : more[i] = top /\ \A j \in 1..(i - 1) : more[j] < top
  <2>1. CASE s > best
    <3>1. \A j \in 1..Len(scores) : scores[j] < s
      BY <1>1, <2>1 DEF ReportIsBest
    <3> QED
      BY <1>1, <1>2, <2>1, <3>1
  <2>2. CASE ~(s > best)
    <3>1. top = best /\ best # -1
      BY <1>3, <2>2
    <3>2. PICK i \in DOMAIN scores :
            scores[i] = best /\ \A j \in 1..(i - 1) : scores[j] < best
      BY <3>1 DEF ReportIsBest
    <3> QED
      BY <1>1, <1>2, <3>1, <3>2
  <2> QED
    BY <2>1, <2>2
<1>5. \A i \in DOMAIN more : more[i] <= top
  BY <1>1, <1>2, <1>3 DEF ReportIsBest
<1>6. top # -1
  BY <1>3
<1> QED
  BY <1>2, <1>4, <1>5, <1>6 DEF ReportIsBest

LEMMA WinnerStep ==
  ASSUME NEW scores \in Seq(Nat), NEW score \in Nat, NEW best \in Nat, NEW i \in Nat,
         NEW s \in Nat, WinnerIsFirst(scores, score, best, i), best >= score
  PROVE  IF s > best
         THEN WinnerIsFirst(Append(scores, s), score, s, Len(scores) + 1)
         ELSE WinnerIsFirst(Append(scores, s), score, best, i)
<1>1. /\ Len(scores) \in Nat /\ DOMAIN scores = 1..Len(scores)
      /\ \A j \in 1..Len(scores) : scores[j] \in Nat
  BY LenProperties, ElementOfSeq
<1>2. /\ DOMAIN Append(scores, s) = 1..(Len(scores) + 1)
      /\ \A j \in 1..Len(scores) : Append(scores, s)[j] = scores[j]
      /\ Append(scores, s)[Len(scores) + 1] = s
  BY AppendProperties
<1>3. \A j \in 1..Len(scores) : scores[j] <= best
  BY <1>1 DEF WinnerIsFirst
<1>4. CASE s > best
  <2>1. \A j \in 1..Len(scores) : scores[j] < s
    BY <1>1, <1>3, <1>4
  <2> QED
    BY <1>1, <1>2, <1>4, <2>1 DEF WinnerIsFirst
<1>5. CASE ~(s > best)
  <2>1. \A j \in DOMAIN Append(scores, s) : Append(scores, s)[j] <= best
    BY <1>1, <1>2, <1>3, <1>5
  <2>2. ASSUME i # 0
        PROVE  /\ i \in DOMAIN Append(scores, s) /\ Append(scores, s)[i] = best
               /\ best > score
               /\ \A j \in 1..(i - 1) : Append(scores, s)[j] < best
    BY <1>1, <1>2, <2>2 DEF WinnerIsFirst
  <2> QED
    BY <1>5, <2>1, <2>2 DEF WinnerIsFirst
<1> QED
  BY <1>4, <1>5

LEMMA NeverBelowBaseline ==
  ASSUME NEW scores, NEW score \in Nat, NEW best \in Nat, NEW i \in Nat,
         WinnerIsFirst(scores, score, best, i)
  PROVE  best >= score
BY DEF WinnerIsFirst

LEMMA ReportingStep == ASSUME IInv, Next PROVE Reporting'
<1> USE DEF IInv
<1>1. ASSUME NEW r \in Run, NEW t \in Text \cup {Judged}, NEW n \in 0..MaxCandidates,
             NEW s \in ScoresOf(t, {t}), Begin(r, t, n, s)
      PROVE  Reporting'
  <2>1. /\ UNCHANGED <<explored, bestScore, winner>> /\ pc[r] = "ready"
        /\ pc' = [pc EXCEPT ![r] = "exploring"]
        /\ baseScore'[r] = s /\ bestWinner'[r] = s
        /\ \A q \in Run \ {r} : UNCHANGED <<baseScore[q], bestWinner[q], pc[q]>>
    BY <1>1 DEF Begin, TypeOK
  <2>2. explored[r] = <<>> /\ winner[r] = 0
    BY <2>1 DEF Reporting
  <2>3. WinnerIsFirst(explored[r], s, s, winner[r])
    BY <2>2 DEF WinnerIsFirst
  <2> QED
    BY <2>1, <2>3 DEF Reporting, TypeOK
<1>2. ASSUME NEW r \in Run, NEW s \in ScoresOf(base[r], Text), Explore(r, s)
      PROVE  Reporting'
  <2>1. base[r] \in Text \cup {Judged}
    BY DEF TypeOK
  <2>2. /\ s \in Nat /\ explored[r] \in Seq(Nat) /\ bestScore[r] \in Nat \cup {-1}
        /\ bestWinner[r] \in Nat /\ baseScore[r] \in Nat /\ winner[r] \in Nat
    BY <2>1, ScoresType DEF TypeOK
  <2>3. /\ pc' = pc /\ baseScore' = baseScore /\ pc[r] = "exploring"
        /\ explored'[r] = Append(explored[r], s)
        /\ bestScore'[r] = IF s > bestScore[r] THEN s ELSE bestScore[r]
        /\ IF s > bestWinner[r]
           THEN bestWinner'[r] = s /\ winner'[r] = Len(explored[r]) + 1
           ELSE bestWinner'[r] = bestWinner[r] /\ winner'[r] = winner[r]
        /\ \A q \in Run \ {r} :
             UNCHANGED <<explored[q], bestScore[q], bestWinner[q], winner[q]>>
    BY <1>2 DEF Explore, Exploring, Beats, TypeOK
  <2>4. /\ ReportIsBest(explored[r], bestScore[r])
        /\ WinnerIsFirst(explored[r], baseScore[r], bestWinner[r], winner[r])
    BY <2>3 DEF Reporting
  <2>5. ReportIsBest(explored'[r], bestScore'[r])
    BY <2>2, <2>3, <2>4, ReportStep
  <2>6. bestWinner[r] >= baseScore[r]
    BY <2>2, <2>4, NeverBelowBaseline
  <2>7. WinnerIsFirst(explored'[r], baseScore[r], bestWinner'[r], winner'[r])
    BY <2>2, <2>3, <2>4, <2>6, WinnerStep
  <2> QED
    BY <2>3, <2>5, <2>7 DEF Reporting
<1>3. ASSUME UNCHANGED loop, \A r \in Run : pc'[r] = "ready" <=> pc[r] = "ready"
      PROVE  Reporting'
  BY <1>3 DEF Reporting, loop
<1>4. CASE Tick
  BY <1>3, <1>4 DEF Tick
<1>5. ASSUME NEW r \in Run,
             \/ OpenDirectory(r) \/ WriteBaseline(r) \/ WriteEvolved(r)
             \/ NothingEvolved(r) \/ WriteMetrics(r) \/ Crash(r)
      PROVE  Reporting'
  <2>1. /\ UNCHANGED loop /\ pc[r] # "ready"
        /\ \E next \in {"baseline", "evolved", "metrics", "done", "dead"} :
             pc' = [pc EXCEPT ![r] = next]
    BY <1>5 DEF OpenDirectory, WriteBaseline, WriteEvolved, NothingEvolved,
                WriteMetrics, WriteFile, Crash
  <2> QED
    BY <1>3, <2>1 DEF TypeOK
<1> QED
  BY <1>1, <1>2, <1>4, <1>5 DEF Next, Step

(***************************************************************************)
(* What the report says, from the two accumulators: the candidate sent is  *)
(* the winner, or the first of the best where there is none.               *)
(***************************************************************************)
LEMMA FirstBest ==
  ASSUME NEW scores \in Seq(Nat), scores # <<>>, NEW best \in Nat,
         ReportIsBest(scores, best)
  PROVE  \E i \in DOMAIN scores : \A j \in DOMAIN scores :
           /\ scores[j] <= scores[i]
           /\ j < i => scores[j] < scores[i]
<1>1. /\ Len(scores) \in Nat /\ DOMAIN scores = 1..Len(scores)
      /\ \A i \in 1..Len(scores) : scores[i] \in Nat
  BY LenProperties, ElementOfSeq
<1>2. PICK i \in DOMAIN scores :
        scores[i] = best /\ \A j \in 1..(i - 1) : scores[j] < best
  BY DEF ReportIsBest
<1> QED
  BY <1>1, <1>2 DEF ReportIsBest

LEMMA ReportIsFirstBest == IInv => ResultIsFirstBest
<1> SUFFICES ASSUME IInv, NEW r \in Run, pc[r] # "ready"
             PROVE  /\ winner[r] # 0 <=> EvolvedScore(r) > baseScore[r]
                    /\ explored[r] # <<>> =>
                         /\ explored[r][Chosen(r)] = EvolvedScore(r)
                         /\ \A i \in 1..(Chosen(r) - 1) : explored[r][i] < EvolvedScore(r)
  BY DEF ResultIsFirstBest
<1> DEFINE scores == explored[r]
<1>1. /\ scores \in Seq(Nat) /\ bestScore[r] \in Nat \cup {-1}
      /\ baseScore[r] \in Nat /\ bestWinner[r] \in Nat /\ winner[r] \in Nat
      /\ ReportIsBest(scores, bestScore[r])
      /\ WinnerIsFirst(scores, baseScore[r], bestWinner[r], winner[r])
  BY DEF IInv, TypeOK, Reporting
<1>2. /\ Len(scores) \in Nat /\ DOMAIN scores = 1..Len(scores)
      /\ \A i \in 1..Len(scores) : scores[i] \in Nat
  BY <1>1, LenProperties, ElementOfSeq
<1>3. CASE scores = <<>>
  <2>1. bestScore[r] = -1 /\ DOMAIN scores = {}
    BY <1>1, <1>3 DEF ReportIsBest
  <2>2. EvolvedScore(r) = baseScore[r] /\ winner[r] = 0
    BY <1>1, <2>1 DEF EvolvedScore, WinnerIsFirst
  <2> QED
    BY <1>1, <1>3, <2>2
<1>4. CASE scores # <<>>
  <2>1. /\ bestScore[r] \in Nat /\ EvolvedScore(r) = bestScore[r]
        /\ \A i \in DOMAIN scores : scores[i] <= bestScore[r]
    BY <1>1, <1>4 DEF ReportIsBest, EvolvedScore
  <2>2. PICK top \in DOMAIN scores : scores[top] = bestScore[r]
    BY <1>1, <1>4 DEF ReportIsBest
  <2>3. CASE winner[r] # 0
    <3>1. /\ Chosen(r) = winner[r] /\ winner[r] \in DOMAIN scores
          /\ scores[winner[r]] = bestWinner[r] /\ bestWinner[r] > baseScore[r]
          /\ \A j \in 1..(winner[r] - 1) : scores[j] < bestWinner[r]
          /\ \A j \in DOMAIN scores : scores[j] <= bestWinner[r]
      BY <1>1, <2>3 DEF Chosen, WinnerIsFirst
    <3>2. bestWinner[r] = bestScore[r]
      BY <1>1, <1>2, <2>1, <2>2, <3>1
    <3> QED
      BY <1>1, <2>1, <2>3, <3>1, <3>2
  <2>4. CASE winner[r] = 0
    <3>1. ~(EvolvedScore(r) > baseScore[r])
      BY <1>1, <2>1, <2>2, <2>4 DEF WinnerIsFirst
    <3>2. /\ Chosen(r) \in DOMAIN scores
          /\ \A j \in DOMAIN scores : /\ scores[j] <= scores[Chosen(r)]
                                      /\ j < Chosen(r) => scores[j] < scores[Chosen(r)]
      BY <1>1, <1>4, <2>1, <2>4, FirstBest DEF Chosen
    <3>3. scores[Chosen(r)] = bestScore[r]
      BY <1>2, <2>1, <2>2, <3>2
    <3> QED
      BY <1>2, <2>1, <2>4, <3>1, <3>2, <3>3
  <2> QED
    BY <2>3, <2>4
<1> QED
  BY <1>3, <1>4
-----------------------------------------------------------------------------
(***************************************************************************)
(* The directories.  A file that is there stays, or is written over by a   *)
(* run of the same directory, and the winner of a run that has opened its  *)
(* directory does not change.                                              *)
(***************************************************************************)
DirInv == Opened /\ Written /\ Progress

\* Steps of the loop: no run gets anywhere near its directory.
LEMMA LoopDirStep ==
  ASSUME IInv, UNCHANGED <<ts, dir>>,
         \A r \in Run : \/ pc'[r] = pc[r] /\ winner'[r] = winner[r]
                        \/ ts[r] = -1 /\ pc'[r] \in {"exploring", "dead"}
  PROVE  DirInv'
<1> USE DEF IInv
<1>1. Opened'
  BY DEF Opened, Writing
<1>2. -1 \notin Time
  BY DEF Time
<1>3. Written'
  <2> SUFFICES ASSUME NEW t \in Time, NEW f \in File, dir[t][f] # NoRun
               PROVE  \E q \in Run : Wrote(q, t, f)'
    BY DEF Written
  <2>1. PICK q \in Run : Wrote(q, t, f)
    BY DEF Written
  <2>2. pc'[q] = pc[q] /\ winner'[q] = winner[q]
    BY <1>2, <2>1 DEF Wrote
  <2> QED
    BY <2>1, <2>2 DEF Wrote
<1>4. Progress'
  <2> SUFFICES ASSUME NEW r \in Run, NEW t \in Time
               PROVE  /\ ts[r] = t /\ pc'[r] \in {"evolved", "metrics", "done"} =>
                           dir[t]["baseline"] # NoRun
                      /\ ts[r] = t /\ pc'[r] \in {"metrics", "done"} /\ winner'[r] # 0 =>
                           dir[t]["evolved"] # NoRun
                      /\ dir[t]["metrics"] = r => pc'[r] = "done"
    BY DEF Progress
  <2>1. dir[t]["metrics"] = r => pc[r] = "done" /\ ts[r] # -1
    BY DEF Progress, Opened
  <2> QED
    BY <1>2, <2>1 DEF Progress
<1> QED
  BY <1>1, <1>3, <1>4 DEF DirInv

\* A directory is opened: what is in it is left as it is.
LEMMA OpenDirStep ==
  ASSUME IInv, TypeOK', NEW r \in Run, OpenDirectory(r)
  PROVE  DirInv'
<1> USE DEF IInv
<1>1. /\ now \in Time /\ ts[r] = -1 /\ -1 \notin Time /\ pc[r] = "exploring"
      /\ ts' = [ts EXCEPT ![r] = now] /\ pc' = [pc EXCEPT ![r] = "baseline"]
      /\ dir' = dir /\ winner' = winner
  BY DEF OpenDirectory, Opened, TypeOK, Time, loop
<1>2. /\ pc'[r] = "baseline" /\ ts'[r] = now
      /\ \A q \in Run \ {r} : pc'[q] = pc[q] /\ ts'[q] = ts[q]
  BY <1>1 DEF TypeOK
<1>3. Opened'
  BY <1>1, <1>2 DEF Opened, Writing
<1>4. Written'
  <2> SUFFICES ASSUME NEW t \in Time, NEW f \in File, dir[t][f] # NoRun
               PROVE  \E q \in Run : Wrote(q, t, f)'
    BY <1>1 DEF Written
  <2>1. PICK q \in Run : Wrote(q, t, f)
    BY DEF Written
  <2>2. q # r
    BY <1>1, <2>1 DEF Wrote
  <2> QED
    BY <1>1, <1>2, <2>1, <2>2 DEF Wrote
<1>5. Progress'
  <2> SUFFICES ASSUME NEW q \in Run, NEW t \in Time
               PROVE  /\ ts'[q] = t /\ pc'[q] \in {"evolved", "metrics", "done"} =>
                           dir[t]["baseline"] # NoRun
                      /\ ts'[q] = t /\ pc'[q] \in {"metrics", "done"} /\ winner[q] # 0 =>
                           dir[t]["evolved"] # NoRun
                      /\ dir[t]["metrics"] = q => pc'[q] = "done"
    BY <1>1 DEF Progress
  <2>1. CASE q = r
    BY <1>1, <1>2, <2>1 DEF Progress
  <2>2. CASE q # r
    BY <1>2, <2>2 DEF Progress
  <2> QED
    BY <2>1, <2>2
<1> QED
  BY <1>3, <1>4, <1>5 DEF DirInv

\* What a step of run r may do to file f of a directory, before its next step.
FileStep(r, t, f, next) ==
  \/ dir'[t][f] = dir[t][f]
  \/ /\ t = ts[r]
     /\ f = "evolved" => winner[r] # 0
     /\ \/ dir'[t][f] = r /\ (f = "metrics" => next = "done")
        \/ dir'[t][f] = Partial /\ next = "dead"

\* A run writes one of its files, leaves one out, or crashes.
LEMMA FileDirStep ==
  ASSUME IInv, TypeOK', NEW r \in Run, ts' = ts, winner' = winner,
         pc[r] \in Writing,
         NEW next \in {"evolved", "metrics", "done", "dead"},
         pc' = [pc EXCEPT ![r] = next],
         \A t \in Time, f \in File : FileStep(r, t, f, next),
         next \in {"evolved", "metrics", "done"} => dir'[ts[r]]["baseline"] # NoRun,
         next \in {"metrics", "done"} /\ winner[r] # 0 =>
           dir'[ts[r]]["evolved"] # NoRun
  PROVE  DirInv'
<1> USE DEF IInv
<1>1. /\ pc'[r] = next /\ \A q \in Run \ {r} : pc'[q] = pc[q]
      /\ pc[r] # "dead" /\ pc[r] # "done"
  BY DEF TypeOK, Writing
<1>2. ts[r] \in Time
  BY DEF Opened, TypeOK
<1>3. Opened'
  <2>1. ts[r] # -1
    BY <1>2 DEF Time
  <2> QED
    BY <1>1, <2>1 DEF Opened, Writing
<1>4. Written'
  <2> SUFFICES ASSUME NEW t \in Time, NEW f \in File, dir'[t][f] # NoRun
               PROVE  \E q \in Run : Wrote(q, t, f)'
    BY DEF Written
  <2>1. CASE dir'[t][f] = dir[t][f]
    <3>1. PICK q \in Run : Wrote(q, t, f)
      BY <2>1 DEF Written
    <3>2. pc[q] = "dead" => pc'[q] = "dead"
      BY <1>1
    <3> QED
      BY <2>1, <3>1, <3>2 DEF Wrote
  <2>2. CASE dir'[t][f] # dir[t][f]
    <3>1. Wrote(r, t, f)'
      BY <1>1, <2>2 DEF FileStep, Wrote
    <3> QED
      BY <3>1
  <2> QED
    BY <2>1, <2>2
<1>5. Progress'
  <2> SUFFICES ASSUME NEW q \in Run, NEW t \in Time
               PROVE  /\ ts[q] = t /\ pc'[q] \in {"evolved", "metrics", "done"} =>
                           dir'[t]["baseline"] # NoRun
                      /\ ts[q] = t /\ pc'[q] \in {"metrics", "done"} /\ winner[q] # 0 =>
                           dir'[t]["evolved"] # NoRun
                      /\ dir'[t]["metrics"] = q => pc'[q] = "done"
    BY DEF Progress
  <2>1. \A f \in File : dir[t][f] # NoRun => dir'[t][f] # NoRun
    BY RunAssumption DEF FileStep
  <2>2. dir'[t]["metrics"] = q => \/ dir[t]["metrics"] = q
                                  \/ q = r /\ next = "done"
    BY RunAssumption DEF FileStep, File
  <2>3. CASE q = r
    <3>1. dir[t]["metrics"] # r
      BY <1>1 DEF Progress
    <3> QED
      BY <1>1, <2>2, <2>3, <3>1
  <2>4. CASE q # r
    BY <1>1, <2>1, <2>2, <2>4 DEF Progress, File
  <2> QED
    BY <2>3, <2>4
<1> QED
  BY <1>3, <1>4, <1>5 DEF DirInv

LEMMA WriteDirStep ==
  ASSUME IInv, TypeOK', NEW r \in Run,
         WriteBaseline(r) \/ WriteEvolved(r) \/ NothingEvolved(r) \/ WriteMetrics(r)
  PROVE  DirInv'
<1> USE DEF IInv
<1>1. pc[r] \in Writing /\ ts' = ts /\ winner' = winner
  BY DEF WriteBaseline, WriteEvolved, NothingEvolved, WriteMetrics, WriteFile, loop, Writing
<1>2. ts[r] \in Time
  BY <1>1 DEF Opened, TypeOK
<1>3. /\ dir \in [Time -> [File -> Run \cup {NoRun, Partial}]] /\ r # NoRun
      /\ pc[r] \in {"evolved", "metrics"} => dir[ts[r]]["baseline"] # NoRun
      /\ pc[r] = "metrics" /\ winner[r] # 0 => dir[ts[r]]["evolved"] # NoRun
  BY <1>2, RunAssumption DEF TypeOK, Progress
<1>4. ASSUME NEW f \in File, dir' = [dir EXCEPT ![ts[r]][f] = r]
      PROVE  \A t \in Time, g \in File :
               dir'[t][g] = IF t = ts[r] /\ g = f THEN r ELSE dir[t][g]
  BY <1>2, <1>3, <1>4
<1>5. CASE WriteBaseline(r)
  <2>1. /\ pc' = [pc EXCEPT ![r] = "evolved"]
        /\ \A t \in Time, g \in File :
             dir'[t][g] = IF t = ts[r] /\ g = "baseline" THEN r ELSE dir[t][g]
    BY <1>4, <1>5 DEF WriteBaseline, WriteFile, File
  <2>2. \A t \in Time, g \in File : FileStep(r, t, g, "evolved")
    BY <2>1 DEF FileStep
  <2> QED
    BY <1>1, <1>2, <1>3, <2>1, <2>2, FileDirStep DEF File
<1>6. CASE WriteEvolved(r)
  <2>1. /\ pc[r] = "evolved" /\ pc' = [pc EXCEPT ![r] = "metrics"] /\ winner[r] # 0
        /\ \A t \in Time, g \in File :
             dir'[t][g] = IF t = ts[r] /\ g = "evolved" THEN r ELSE dir[t][g]
    BY <1>4, <1>6 DEF WriteEvolved, WriteFile, File
  <2>2. \A t \in Time, g \in File : FileStep(r, t, g, "metrics")
    BY <2>1 DEF FileStep
  <2> QED
    BY <1>1, <1>2, <1>3, <2>1, <2>2, FileDirStep DEF File
<1>7. CASE NothingEvolved(r)
  <2>1. /\ pc[r] = "evolved" /\ pc' = [pc EXCEPT ![r] = "metrics"] /\ winner[r] = 0
        /\ dir' = dir
    BY <1>7 DEF NothingEvolved
  <2>2. \A t \in Time, g \in File : FileStep(r, t, g, "metrics")
    BY <2>1 DEF FileStep
  <2> QED
    BY <1>1, <1>3, <2>1, <2>2, FileDirStep
<1>8. CASE WriteMetrics(r)
  <2>1. /\ pc[r] = "metrics" /\ pc' = [pc EXCEPT ![r] = "done"]
        /\ \A t \in Time, g \in File :
             dir'[t][g] = IF t = ts[r] /\ g = "metrics" THEN r ELSE dir[t][g]
    BY <1>4, <1>8 DEF WriteMetrics, WriteFile, File
  <2>2. \A t \in Time, g \in File : FileStep(r, t, g, "done")
    BY <2>1 DEF FileStep
  <2> QED
    BY <1>1, <1>2, <1>3, <2>1, <2>2, FileDirStep DEF File
<1> QED
  BY <1>5, <1>6, <1>7, <1>8

LEMMA CrashDirStep ==
  ASSUME IInv, TypeOK', NEW r \in Run, Crash(r)
  PROVE  DirInv'
<1> USE DEF IInv
<1>1. /\ pc[r] \in {"exploring"} \cup Writing /\ pc' = [pc EXCEPT ![r] = "dead"]
      /\ ts' = ts /\ winner' = winner
      /\ dir' = dir \/ \E f \in Writes(r) : dir' = [dir EXCEPT ![ts[r]][f] = Partial]
  BY DEF Crash, loop, TypeOK
<1>2. CASE pc[r] = "exploring"
  <2>1. ts[r] = -1 /\ dir' = dir
    BY <1>1, <1>2 DEF Opened, Writes
  <2>2. \A q \in Run : \/ pc'[q] = pc[q] /\ winner'[q] = winner[q]
                       \/ ts[q] = -1 /\ pc'[q] \in {"exploring", "dead"}
    BY <1>1, <2>1 DEF TypeOK
  <2> QED
    BY <1>1, <2>1, <2>2, LoopDirStep
<1>3. CASE pc[r] \in Writing
  <2>1. ts[r] \in Time
    BY <1>3 DEF Opened, TypeOK
  <2>2. \A f \in Writes(r) : f = "evolved" => winner[r] # 0
    BY DEF Writes
  <2>3. \A t \in Time, g \in File :
          \/ dir'[t][g] = dir[t][g]
          \/ t = ts[r] /\ dir'[t][g] = Partial /\ g \in Writes(r)
    BY <1>1, <2>1 DEF TypeOK
  <2>4. \A t \in Time, g \in File : FileStep(r, t, g, "dead")
    BY <2>2, <2>3 DEF FileStep
  <2> QED
    BY <1>1, <1>3, <2>4, FileDirStep
<1> QED
  BY <1>1, <1>2, <1>3

LEMMA DirStep == ASSUME IInv, TypeOK', Next PROVE DirInv'
<1>1. CASE Tick
  BY <1>1, LoopDirStep DEF Tick, loop
<1>2. ASSUME NEW r \in Run, NEW t \in Text \cup {Judged}, NEW n \in 0..MaxCandidates,
             NEW s \in ScoresOf(t, {t}), Begin(r, t, n, s)
      PROVE  DirInv'
  <2>1. /\ UNCHANGED <<ts, dir, winner>> /\ pc[r] = "ready"
        /\ pc' = [pc EXCEPT ![r] = "exploring"]
    BY <1>2 DEF Begin
  <2>2. ts[r] = -1 /\ pc \in [Run -> {"ready", "exploring", "done", "dead"} \cup Writing]
    BY <2>1 DEF IInv, TypeOK, Opened
  <2> QED
    BY <2>1, <2>2, LoopDirStep
<1>3. ASSUME NEW r \in Run, NEW s \in ScoresOf(base[r], Text), Explore(r, s) PROVE DirInv'
  <2>1. UNCHANGED <<ts, dir, pc>> /\ pc[r] = "exploring"
    BY <1>3 DEF Explore, Exploring
  <2>2. ts[r] = -1
    BY <2>1 DEF IInv, Opened
  <2>3. \A q \in Run \ {r} : winner'[q] = winner[q]
    BY <1>3 DEF Explore, IInv, TypeOK
  <2> QED
    BY <2>1, <2>2, <2>3, LoopDirStep
<1> QED
  BY <1>1, <1>2, <1>3, OpenDirStep, WriteDirStep, CrashDirStep DEF Next, Step
-----------------------------------------------------------------------------
(***************************************************************************)
(* A run that is scored by the heuristic.                                  *)
(***************************************************************************)
LEMMA HeuristicStep ==
  ASSUME IInv, TypeOK', Next
  PROVE  ScoredByHeuristic' /\ HeuristicKeepsBaseline'
<1> USE DEF IInv
<1>1. ASSUME NEW r \in Run, NEW t \in Text \cup {Judged}, NEW n \in 0..MaxCandidates,
             NEW s \in ScoresOf(t, {t}), Begin(r, t, n, s)
      PROVE  ScoredByHeuristic' /\ HeuristicKeepsBaseline'
  <2>1. /\ UNCHANGED <<ts, dir, winner>> /\ pc[r] = "ready"
        /\ base'[r] = t /\ baseScore'[r] = s
        /\ \A q \in Run \ {r} : base'[q] = base[q] /\ baseScore'[q] = baseScore[q]
    BY <1>1 DEF Begin, TypeOK
  <2>2. t \in Text => s = Heuristic(t, t)
    BY TextAssumption DEF ScoresOf
  <2>3. winner[r] = 0
    BY <2>1 DEF Reporting
  <2>4. \A u \in Time : dir[u]["evolved"] # r
    <3>1. ts[r] = -1 /\ -1 \notin Time
      BY <2>1 DEF Opened, Time
    <3> QED
      BY <3>1, RunAssumption DEF Written, Wrote, File
  <2>5. ScoredByHeuristic'
    BY <2>1, <2>2 DEF ScoredByHeuristic
  <2>6. HeuristicKeepsBaseline'
    BY <2>1, <2>3, <2>4 DEF HeuristicKeepsBaseline
  <2> QED
    BY <2>5, <2>6
<1>2. ASSUME NEW r \in Run, NEW s \in ScoresOf(base[r], Text), Explore(r, s)
      PROVE  ScoredByHeuristic' /\ HeuristicKeepsBaseline'
  <2>1. /\ UNCHANGED <<ts, dir, base, baseScore>> /\ pc[r] = "exploring"
        /\ ~(s > bestWinner[r]) => winner'[r] = winner[r]
        /\ \A q \in Run \ {r} : winner'[q] = winner[q]
    BY <1>2 DEF Explore, Exploring, Beats, TypeOK
  <2>2. ASSUME base[r] \in Text PROVE winner'[r] = 0
    <3>1. PICK c \in Text : s = Heuristic(base[r], c)
      BY <2>2, TextAssumption DEF ScoresOf
    <3>2. /\ s \in Nat /\ s <= baseScore[r]
      BY <2>2, <3>1, HeuristicBest DEF ScoredByHeuristic
    <3>3. winner[r] = 0 /\ WinnerIsFirst(explored[r], baseScore[r], bestWinner[r], winner[r])
      BY <2>1, <2>2 DEF HeuristicKeepsBaseline, Reporting
    <3>4. bestWinner[r] = baseScore[r] /\ baseScore[r] \in Nat
      BY <3>3 DEF WinnerIsFirst, TypeOK
    <3> QED
      BY <2>1, <3>2, <3>3, <3>4
  <2>3. ScoredByHeuristic'
    BY <2>1 DEF ScoredByHeuristic
  <2>4. HeuristicKeepsBaseline'
    BY <2>1, <2>2 DEF HeuristicKeepsBaseline
  <2> QED
    BY <2>3, <2>4
<1>3. ASSUME UNCHANGED loop,
             \A r \in Run, t \in Time : dir'[t]["evolved"] = r =>
               dir[t]["evolved"] = r \/ winner[r] # 0
      PROVE  ScoredByHeuristic' /\ HeuristicKeepsBaseline'
  <2>1. ScoredByHeuristic'
    BY <1>3 DEF ScoredByHeuristic, loop
  <2>2. HeuristicKeepsBaseline'
    BY <1>3 DEF HeuristicKeepsBaseline, loop
  <2> QED
    BY <2>1, <2>2
<1>4. CASE Tick
  BY <1>3, <1>4 DEF Tick
<1>5. ASSUME NEW r \in Run, OpenDirectory(r) \/ NothingEvolved(r)
      PROVE  ScoredByHeuristic' /\ HeuristicKeepsBaseline'
  BY <1>3, <1>5 DEF OpenDirectory, NothingEvolved
<1>6. ASSUME NEW r \in Run, WriteBaseline(r) \/ WriteEvolved(r) \/ WriteMetrics(r)
      PROVE  ScoredByHeuristic' /\ HeuristicKeepsBaseline'
  <2>1. /\ UNCHANGED loop /\ dir \in [Time -> [File -> Run \cup {NoRun, Partial}]]
        /\ \E f \in File : /\ dir' = [dir EXCEPT ![ts[r]][f] = r]
                           /\ f = "evolved" => winner[r] # 0
    BY <1>6 DEF WriteBaseline, WriteEvolved, WriteMetrics, WriteFile, File, TypeOK
  <2>2. \A q \in Run, t \in Time : dir'[t]["evolved"] = q =>
               dir[t]["evolved"] = q \/ winner[q] # 0
    BY <2>1 DEF File
  <2> QED
    BY <1>3, <2>1, <2>2
<1>7. ASSUME NEW r \in Run, Crash(r)
      PROVE  ScoredByHeuristic' /\ HeuristicKeepsBaseline'
  <2>1. /\ UNCHANGED loop /\ dir \in [Time -> [File -> Run \cup {NoRun, Partial}]]
        /\ \/ dir' = dir
           \/ \E f \in Writes(r) : dir' = [dir EXCEPT ![ts[r]][f] = Partial]
    BY <1>7 DEF Crash, TypeOK
  <2>2. \A q \in Run, t \in Time : dir'[t]["evolved"] = q => dir[t]["evolved"] = q
    BY <2>1, RunAssumption DEF File
  <2> QED
    BY <1>3, <2>1, <2>2
<1> QED
  BY <1>1, <1>2, <1>4, <1>5, <1>6, <1>7 DEF Next, Step
-----------------------------------------------------------------------------
LEMMA InvariantInit == Init => IInv
<1> SUFFICES ASSUME Init PROVE IInv
  OBVIOUS
<1>1. TypeOK
  BY TypeInit
<1>2. Reporting
  BY DEF Init, Reporting, ReportIsBest
<1>3. Opened /\ Written /\ Progress
  BY RunAssumption DEF Init, Opened, Written, Progress, Writing, Time, File
<1>4. ScoredByHeuristic /\ HeuristicKeepsBaseline
  BY TextAssumption DEF Init, ScoredByHeuristic, HeuristicKeepsBaseline
<1> QED
  BY <1>1, <1>2, <1>3, <1>4 DEF IInv

LEMMA InvariantStep == IInv /\ [Next]_vars => IInv'
<1>1. ASSUME IInv, Next PROVE IInv'
  <2>1. TypeOK'
    BY <1>1, TypeStep DEF IInv
  <2> QED
    BY <1>1, <2>1, ReportingStep, DirStep, HeuristicStep DEF IInv, DirInv
<1>2. ASSUME IInv, UNCHANGED vars PROVE IInv'
  BY <1>2 DEF vars, IInv, TypeOK, Reporting, Opened, Written, Wrote, Progress,
              ScoredByHeuristic, HeuristicKeepsBaseline
<1> QED
  BY <1>1, <1>2

\* The two accumulators of the loop tell one story: a winner and an improvement
\* go together, and the candidate sent has the score reported beside it.
THEOREM ResultIsFirstBestHolds == Spec => []ResultIsFirstBest
BY InvariantInit, InvariantStep, ReportIsFirstBest, PTL DEF Spec

LEMMA DirectoryIsWhole == IInv => MetricsVouch
<1> SUFFICES ASSUME IInv, NEW r \in Run, NEW t \in Time, dir[t]["metrics"] = r
             PROVE  LET here    == {q \in Run : ts[q] = t}
                        winners == {q \in here : winner[q] # 0}
                    IN  /\ dir[t]["baseline"] \in here \cup CutBy(here)
                        /\ dir[t]["evolved"] \in winners \cup CutBy(winners)
                                 \cup (IF winner[r] = 0 THEN {NoRun} ELSE {})
  BY DEF MetricsVouch
<1> USE DEF IInv
<1> DEFINE here    == {q \in Run : ts[q] = t}
           winners == {q \in here : winner[q] # 0}
<1>1. pc[r] = "done" /\ ts[r] = t
  <2>1. PICK q \in Run : Wrote(q, t, "metrics")
    BY RunAssumption DEF Written, File
  <2> QED
    BY <2>1, RunAssumption DEF Wrote, Progress
<1>2. dir[t]["baseline"] \in here \cup CutBy(here)
  <2>1. PICK q \in Run : Wrote(q, t, "baseline")
    BY <1>1 DEF Written, Progress, File
  <2> QED
    BY <2>1 DEF Wrote, CutBy
<1>3. dir[t]["evolved"] # NoRun => dir[t]["evolved"] \in winners \cup CutBy(winners)
  <2>1. SUFFICES ASSUME dir[t]["evolved"] # NoRun
                 PROVE  dir[t]["evolved"] \in winners \cup CutBy(winners)
    OBVIOUS
  <2>2. PICK q \in Run : Wrote(q, t, "evolved")
    BY <2>1 DEF Written, File
  <2> QED
    BY <2>2 DEF Wrote, CutBy
<1>4. dir[t]["evolved"] = NoRun => winner[r] = 0
  BY <1>1 DEF Progress
<1> QED
  BY <1>2, <1>3, <1>4

\* metrics.json vouches for its directory, also when several runs share it,
\* whatever crashed at whatever point.
THEOREM MetricsVouchHolds == Spec => []MetricsVouch
BY InvariantInit, InvariantStep, DirectoryIsWhole, PTL DEF Spec

\* The heuristic prefers no text to the one it started from: a run without a
\* judge has no winner and writes no evolved.md.
THEOREM HeuristicKeepsBaselineHolds == Spec => []HeuristicKeepsBaseline
<1>1. IInv => HeuristicKeepsBaseline
  BY DEF IInv
<1> QED
  BY <1>1, InvariantInit, InvariantStep, PTL DEF Spec
-----------------------------------------------------------------------------
(***************************************************************************)
(* The gates.  What the first version asked for, of what is still named,   *)
(* the current one asks for; a candidate that passes asks for no less.     *)
(***************************************************************************)
Rank == {-1, 0, 1, 2, 3}

GatesInv == /\ current \in Artifact
            /\ floor.safety \in [Key -> {0, 1, 2}]
            /\ floor.rank \in Rank
            /\ NamedNeverWeakens

Strict(k) == IF k = "citation_verification" THEN "required" ELSE "enforced"

\* The table, key by key.
LEMMA TableOf ==
  ASSUME NEW k \in Key
  PROVE  IF k = "upl_check"
         THEN /\ ValuesOf(k) = {"required", "not-applicable"}
              /\ "required" \in DOMAIN ForbiddenWeakening[k]
              /\ ForbiddenWeakening[k]["required"] = {"not-applicable"}
         ELSE /\ ValuesOf(k) = {Strict(k), "advisory", "disabled", "not-applicable"}
              /\ DOMAIN ForbiddenWeakening[k] = {Strict(k), "advisory"}
              /\ ForbiddenWeakening[k][Strict(k)] = {"advisory", "disabled", "not-applicable"}
              /\ ForbiddenWeakening[k]["advisory"] = {"disabled", "not-applicable"}
<1> DEFINE Two(strict) == [v \in {strict, "advisory"} |-> Below(v)]
<1>1. k \in {"citation_verification", "jurisdiction_consistency", "matter_scope", "upl_check"}
  BY KeyAssumption DEF ForbiddenWeakening
<1>2. ASSUME NEW strict \in {"required", "enforced"}
      PROVE  /\ DOMAIN Two(strict) = {strict, "advisory"}
             /\ Two(strict)[strict] = {"advisory", "disabled", "not-applicable"}
             /\ Two(strict)["advisory"] = {"disabled", "not-applicable"}
             /\ UNION {Two(strict)[v] : v \in DOMAIN Two(strict)}
                  = {"advisory", "disabled", "not-applicable"}
  <2>1. /\ Below(strict) = {"advisory", "disabled", "not-applicable"}
        /\ Below("advisory") = {"disabled", "not-applicable"}
    BY DEF Below
  <2>2. {Two(strict)[v] : v \in DOMAIN Two(strict)} = {Below(strict), Below("advisory")}
    OBVIOUS
  <2> QED
    BY <2>1, <2>2
<1>3. k # "upl_check" => ForbiddenWeakening[k] = Two(Strict(k))
  BY <1>1 DEF ForbiddenWeakening, Strict
<1>4. k = "upl_check" => ForbiddenWeakening[k] = [required |-> {"not-applicable"}]
  BY <1>1 DEF ForbiddenWeakening
<1>5. Strict(k) \in {"required", "enforced"}
  BY DEF Strict
<1> HIDE DEF Two
<1>6. CASE k # "upl_check"
  BY <1>2, <1>3, <1>5, <1>6 DEF ValuesOf
<1>7. CASE k = "upl_check"
  BY <1>4, <1>7 DEF ValuesOf
<1> QED
  BY <1>6, <1>7

\* What is not forbidden is no weaker.
LEMMA AllowedIsNoWeaker ==
  ASSUME NEW k \in Key, NEW v \in ValuesOf(k), NEW u \in ValuesOf(k),
         v \in DOMAIN ForbiddenWeakening[k] => u \notin ForbiddenWeakening[k][v]
  PROVE  Strength(u) >= Strength(v)
<1>1. CASE k = "upl_check"
  BY <1>1, TableOf DEF Strength
<1>2. CASE k # "upl_check"
  BY <1>2, TableOf DEF Strength, Strict
<1> QED
  BY <1>1, <1>2

\* A word of a row is a value of the entry, not the lack of one.
LEMMA NamedIsStated == \A k \in Key : Unstated \notin ValuesOf(k)
BY TableOf, UnstatedAssumption DEF Strict, Values

LEMMA RankType == \A t : RankOf(t) \in Rank
BY DEF RankOf, TierRank, Rank

\* What an artifact asks for, entry by entry.
LEMMA AskedFor ==
  ASSUME NEW a
  PROVE  /\ \A k \in Key : /\ Asked(a).safety[k] \in {0, 1, 2}
                           /\ k \in Named(a) => Asked(a).safety[k] = Strength(a.safety[k])
                           /\ k \notin Named(a) => Asked(a).safety[k] = 0
         /\ Asked(a).safety \in [Key -> {0, 1, 2}]
         /\ Asked(a).disclaimer = a.disclaimer
         /\ Asked(a).rank = IF a.tier # Unstated THEN RankOf(a.tier) ELSE -1
         /\ Asked(a).rank \in Rank
<1>1. \A v : Strength(v) \in {0, 1, 2}
  BY DEF Strength
<1>2. \A t : RankOf(t) \in Rank
  BY RankType
<1> QED
  BY <1>1, <1>2 DEF Asked, Rank

LEMMA GatesInvInit == GatesInit => GatesInv
<1> SUFFICES ASSUME GatesInit PROVE GatesInv
  OBVIOUS
<1>1. current \in Artifact /\ floor = Asked(current)
  BY DEF GatesInit
<1>2. /\ floor.safety \in [Key -> {0, 1, 2}] /\ floor.rank \in Rank
      /\ floor.disclaimer = current.disclaimer
  BY <1>1, AskedFor
<1>3. NamedNeverWeakens
  BY <1>1, <1>2 DEF NamedNeverWeakens, Rank
<1> QED
  BY <1>1, <1>2, <1>3 DEF GatesInv

LEMMA AdoptStep ==
  ASSUME GatesInv, NEW c \in Artifact, Adopt(c)
  PROVE  GatesInv'
<1>1. current' = c /\ floor' = Kept(c) /\ SafetyBlockIntact(c, current)
  BY DEF Adopt, SkillGates
<1>2. /\ \A k \in Key : floor'.safety[k] = IF k \in Named(c) THEN floor.safety[k] ELSE 0
      /\ floor'.safety \in [Key -> {0, 1, 2}]
      /\ floor'.disclaimer = floor.disclaimer
      /\ floor'.rank = IF c.tier # Unstated THEN floor.rank ELSE -1
      /\ floor'.rank \in Rank
  BY <1>1 DEF Kept, GatesInv, Rank
<1>3. ASSUME NEW k \in Key PROVE Asked(c).safety[k] >= floor'.safety[k]
  <2>1. /\ floor.safety[k] \in {0, 1, 2}
        /\ Asked(current).safety[k] >= floor.safety[k]
        /\ Asked(c).safety[k] \in {0, 1, 2} /\ Asked(current).safety[k] \in {0, 1, 2}
    BY AskedFor DEF GatesInv, NamedNeverWeakens
  <2>2. CASE k \notin Named(c)
    BY <1>2, <2>2, AskedFor
  <2>3. CASE k \in Named(c) /\ k \notin Named(current)
    <3>1. floor.safety[k] = 0
      BY <2>1, <2>3, AskedFor
    <3> QED
      BY <1>2, <2>1, <2>3, <3>1
  <2>4. CASE k \in Named(c) /\ k \in Named(current)
    <3>1. c.safety[k] \in ValuesOf(k) /\ current.safety[k] \in ValuesOf(k)
      BY <2>4 DEF Named
    <3>2. ~Weakens(k, c, current) /\ c.safety[k] # Unstated
      BY <1>1, <3>1, NamedIsStated DEF SafetyBlockIntact
    <3>3. Strength(c.safety[k]) >= Strength(current.safety[k])
      BY <3>1, <3>2, AllowedIsNoWeaker DEF Weakens
    <3>4. Asked(c).safety[k] >= Asked(current).safety[k]
      BY <2>4, <3>3, AskedFor
    <3> QED
      BY <1>2, <2>1, <2>4, <3>4
  <2> QED
    BY <2>2, <2>3, <2>4
<1>4. Asked(c).rank >= floor'.rank
  <2>1. /\ floor.rank \in Rank /\ Asked(current).rank >= floor.rank
        /\ Asked(c).rank \in Rank /\ Asked(current).rank \in Rank
    BY AskedFor DEF GatesInv, NamedNeverWeakens
  <2>2. CASE c.tier = Unstated
    BY <1>2, <2>2, AskedFor DEF Rank
  <2>3. CASE c.tier # Unstated /\ current.tier = Unstated
    <3>1. floor.rank = -1
      BY <2>1, <2>3, AskedFor DEF Rank
    <3> QED
      BY <1>2, <2>1, <2>3, <3>1 DEF Rank
  <2>4. CASE c.tier # Unstated /\ current.tier # Unstated
    <3>1. ~ (RankOf(c.tier) < RankOf(current.tier))
      BY <1>1, <2>4 DEF SafetyBlockIntact, LowersTier
    <3>2. RankOf(c.tier) \in Rank /\ RankOf(current.tier) \in Rank
      BY RankType
    <3> QED
      BY <1>2, <2>1, <2>4, <3>1, <3>2, AskedFor DEF Rank
  <2> QED
    BY <2>2, <2>3, <2>4
<1>5. floor'.disclaimer => c.disclaimer
  BY <1>1, <1>2 DEF GatesInv, NamedNeverWeakens, SafetyBlockIntact
<1>6. NamedNeverWeakens'
  <2>1. Asked(current)' = Asked(c)
    BY <1>1 DEF Asked, Named
  <2> QED
    BY <1>1, <1>3, <1>4, <1>5, <2>1 DEF NamedNeverWeakens
<1> QED
  BY <1>1, <1>2, <1>6 DEF GatesInv

\* No sequence of candidates that pass weakens what every version names: the
\* pairwise comparison of the gates is transitive on the words of a row, and on
\* tiers, listed or not.
THEOREM NamedNeverWeakensHolds == GatesSpec => []NamedNeverWeakens
<1>1. ASSUME GatesInv, UNCHANGED versions PROVE GatesInv'
  BY <1>1 DEF GatesInv, NamedNeverWeakens, Asked, Named, versions
<1>2. GatesInv /\ [GatesNext]_versions => GatesInv'
  BY <1>1, AdoptStep DEF GatesNext
<1>3. GatesInv => NamedNeverWeakens
  BY DEF GatesInv
<1> QED
  BY <1>2, <1>3, GatesInvInit, PTL DEF GatesSpec
=============================================================================
