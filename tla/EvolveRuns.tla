----------------------------- MODULE EvolveRuns -----------------------------
(***************************************************************************)
(* `kairos-evolve prompts` (cli/evolve_prompts.py): runs of the command    *)
(* for one skill with one output directory.  A run scores the baseline and *)
(* the candidates of a rewriter (core/prompts.py), then writes three files *)
(* to a directory named after the second in which it got there.            *)
(*                                                                         *)
(* The rewriter is open.  A run is scored by the heuristic of the command  *)
(* or, as evolve_prompts takes any scorer, by a judge (core/judges.py),    *)
(* whose scores are open too: any members of Score.                        *)
(* POST /v1/jobs/run has the same loop and the same heuristic, on a        *)
(* scratch skill of its own (core/fake_evolve.py), and sends the candidate *)
(* Chosen picks.                                                           *)
(***************************************************************************)
EXTENDS Integers, Sequences, FiniteSets

CONSTANTS Run,            \* invocations of the command
          NoRun, Partial, \* contents of a file: none, and cut off by a crash
          Score,          \* composite scores of a judge
          Judged,         \* in place of the baseline of a run with a judge
          Word,           \* words a text may have
          MaxLength,      \* bound: characters of a text
          Scale,          \* a multiple of all lengths: fractions are exact
          MaxCandidates,  \* bound: --iterations
          MaxTime         \* bound: the last second

ASSUME ScoreAssumption == Score \subseteq Nat /\ Score # {}
ASSUME RunAssumption   == NoRun \notin Run /\ Partial \notin Run /\ NoRun # Partial
ASSUME BoundAssumption == MaxCandidates \in Nat /\ MaxTime \in Nat
ASSUME ScaleAssumption == /\ MaxLength \in Nat /\ Scale \in Nat \ {0}
                          /\ \A n \in 1..MaxLength : Scale % n = 0

VARIABLES
  now,
  pc,
  base,        \* baseline_text, or Judged
  wanted,      \* n_candidates
  baseScore,   \* baseline_score
  explored,    \* scores of candidates_explored, in order
  bestScore,   \* best_candidate_score, -1 for None
  bestWinner,  \* best_winner_score
  winner,      \* the position of `winner` in explored, 0 for None
  ts,          \* the second its directory is named after, -1 before that
  dir          \* dir[t]: what each file of directory t was written by

loop  == <<base, wanted, baseScore, explored, bestScore, bestWinner, winner>>
vars  == <<now, pc, base, wanted, baseScore, explored, bestScore, bestWinner,
           winner, ts, dir>>

Time    == 0..MaxTime
File    == {"baseline", "evolved", "metrics"}

\* What the heuristic reads of a text: its words, of two letters at least,
\* with a space between them, and its length.
Text == {t \in [words : SUBSET Word, length : 0..MaxLength] :
           3 * Cardinality(t.words) <= t.length + 1}

ASSUME TextAssumption == IsFiniteSet(Word) /\ Judged \notin Text

-----------------------------------------------------------------------------
\* keyword_overlap_score, in units of 1/Scale.
Overlap(expected, actual) ==
  IF expected.words = {} THEN 0
  ELSE (Scale * Cardinality(expected.words \cap actual.words))
         \div Cardinality(expected.words)

AtLeastOne(n) == IF n = 0 THEN 1 ELSE n

\* Mutant: without min(1.0, ...).
Conciseness_Uncapped(t, c) == (Scale * t.length) \div AtLeastOne(c.length)

\* min(1.0, len(baseline_text) / max(1, len(candidate_text)))
Conciseness(t, c) == IF t.length >= AtLeastOne(c.length) THEN Scale
                     ELSE (Scale * t.length) \div AtLeastOne(c.length)

\* _heuristic_scorer and composite: 0.5 + 0.3 of the overlap, 0.2 of this.
Heuristic(t, c) == 8 * Overlap(t, c) + 2 * Conciseness(t, c)

\* What the scorer of a run may give to some of the candidates.
ScoresOf(t, candidates) ==
  IF t = Judged THEN Score ELSE {Heuristic(t, c) : c \in candidates}

-----------------------------------------------------------------------------
Init == /\ now = 0
        /\ pc = [r \in Run |-> "ready"]
        /\ base       = [r \in Run |-> Judged]
        /\ wanted     = [r \in Run |-> 0]
        /\ baseScore  = [r \in Run |-> 0]
        /\ explored   = [r \in Run |-> <<>>]
        /\ bestScore  = [r \in Run |-> -1]
        /\ bestWinner = [r \in Run |-> 0]
        /\ winner     = [r \in Run |-> 0]
        /\ ts  = [r \in Run |-> -1]
        /\ dir = [t \in Time |-> [f \in File |-> NoRun]]

Tick == /\ now < MaxTime
        /\ now' = now + 1
        /\ UNCHANGED <<pc, loop, ts, dir>>

-----------------------------------------------------------------------------
\* The baseline is run and scored, and the rewriter returns n candidates.
Begin(r, t, n, s) == /\ pc[r] = "ready"
                     /\ pc'         = [pc         EXCEPT ![r] = "exploring"]
                     /\ base'       = [base       EXCEPT ![r] = t]
                     /\ wanted'     = [wanted     EXCEPT ![r] = n]
                     /\ baseScore'  = [baseScore  EXCEPT ![r] = s]
                     /\ bestWinner' = [bestWinner EXCEPT ![r] = s]
                     /\ UNCHANGED <<now, explored, bestScore, winner, ts, dir>>

Exploring(r) == pc[r] = "exploring" /\ Len(explored[r]) < wanted[r]

\* Mutant: a candidate as good as the best so far replaces it.
Beats_OrTies(score, best) == score >= best

Beats(score, best) == score > best

\* One candidate is run, scored and compared.
Explore(r, s) ==
  /\ Exploring(r)
  /\ explored'  = [explored  EXCEPT ![r] = Append(@, s)]
  /\ bestScore' = [bestScore EXCEPT ![r] = IF s > @ THEN s ELSE @]
  /\ IF Beats(s, bestWinner[r])
     THEN /\ bestWinner' = [bestWinner EXCEPT ![r] = s]
          /\ winner'     = [winner     EXCEPT ![r] = Len(explored[r]) + 1]
     ELSE UNCHANGED <<bestWinner, winner>>
  /\ UNCHANGED <<now, pc, base, wanted, baseScore, ts, dir>>

EvolvedScore(r) == IF bestScore[r] = -1 THEN baseScore[r] ELSE bestScore[r]

(***************************************************************************)
(* The candidate jobs_run sends: the winner, else the first of the best    *)
(* explored, else (0) the baseline.                                        *)
(***************************************************************************)
Chosen(r) ==
  IF winner[r] # 0 \/ explored[r] = <<>> THEN winner[r]
  ELSE CHOOSE i \in DOMAIN explored[r] : \A j \in DOMAIN explored[r] :
         /\ explored[r][j] <= explored[r][i]
         /\ j < i => explored[r][j] < explored[r][i]

\* evolve_prompts returns; the directory is named and made, or was there.
OpenDirectory(r) == /\ pc[r] = "exploring"
                    /\ ~Exploring(r)
                    /\ ts' = [ts EXCEPT ![r] = now]
                    /\ pc' = [pc EXCEPT ![r] = "baseline"]
                    /\ UNCHANGED <<now, loop, dir>>

WriteFile(r, f, next) == /\ pc[r] = f
                         /\ dir' = [dir EXCEPT ![ts[r]][f] = r]
                         /\ pc'  = [pc EXCEPT ![r] = next]
                         /\ UNCHANGED <<now, loop, ts>>

\* Mutant: metrics.json is written before evolved.md would be.
WriteBaseline_MetricsNext(r) == WriteFile(r, "baseline", "metrics")

WriteBaseline(r) == WriteFile(r, "baseline", "evolved")

WriteEvolved(r) == winner[r] # 0 /\ WriteFile(r, "evolved", "metrics")

NothingEvolved(r) == /\ pc[r] = "evolved"
                     /\ winner[r] = 0
                     /\ pc' = [pc EXCEPT ![r] = "metrics"]
                     /\ UNCHANGED <<now, loop, ts, dir>>

WriteMetrics(r) == WriteFile(r, "metrics", "done")

(***************************************************************************)
(* The rewriter, the scorer or a write raises, or the process is killed.   *)
(* The file it was about to write may have been opened, and so emptied.    *)
(***************************************************************************)
Writes(r) == CASE pc[r] \in {"baseline", "metrics"}       -> {pc[r]}
               [] pc[r] = "evolved" /\ winner[r] # 0 -> {"evolved"}
               [] OTHER                              -> {}

Crash(r) ==
  /\ pc[r] \notin {"ready", "done", "dead"}
  /\ pc' = [pc EXCEPT ![r] = "dead"]
  /\ \/ UNCHANGED dir
     \/ \E f \in Writes(r) : dir' = [dir EXCEPT ![ts[r]][f] = Partial]
  /\ UNCHANGED <<now, loop, ts>>

Step(r) == \/ \E t \in Text \cup {Judged}, n \in 0..MaxCandidates :
                \E s \in ScoresOf(t, {t}) : Begin(r, t, n, s)
           \/ \E s \in ScoresOf(base[r], Text) : Explore(r, s)
           \/ OpenDirectory(r)
           \/ WriteBaseline(r)
           \/ WriteEvolved(r)
           \/ NothingEvolved(r)
           \/ WriteMetrics(r)

Next == Tick \/ \E r \in Run : Step(r) \/ Crash(r)

Spec == Init /\ [][Next]_vars

-----------------------------------------------------------------------------
(***************************************************************************)
(* The two accumulators of the loop, kept apart, tell one story: there is  *)
(* a winner exactly when the reported improvement is positive, and the     *)
(* candidate jobs_run sends, winner or fall-back, is the first of those    *)
(* with the score that is reported as evolved_score beside it.             *)
(***************************************************************************)
ResultIsFirstBest ==
  \A r \in Run : pc[r] # "ready" =>
    /\ winner[r] # 0 <=> EvolvedScore(r) > baseScore[r]
    /\ explored[r] # <<>> =>
         /\ explored[r][Chosen(r)] = EvolvedScore(r)
         /\ \A i \in 1..(Chosen(r) - 1) : explored[r][i] < EvolvedScore(r)

(***************************************************************************)
(* metrics.json vouches for its directory, also when several runs got to   *)
(* it in one second: baseline.md is there, whole, of a run of that second, *)
(* and so is evolved.md when the run metrics.json is of has a winner; else *)
(* it may be there, left by another run that has one.  A file is cut off   *)
(* only where a run that was to write it crashed: the one run of a second  *)
(* vouches for files that are all its own.                                 *)
(***************************************************************************)
CutBy(runs) == IF \E q \in runs : pc[q] = "dead" THEN {Partial} ELSE {}

MetricsVouch ==
  \A r \in Run, t \in Time : dir[t]["metrics"] = r =>
    LET here    == {q \in Run : ts[q] = t}
        winners == {q \in here : winner[q] # 0}
    IN  /\ dir[t]["baseline"] \in here \cup CutBy(here)
        /\ dir[t]["evolved"] \in winners \cup CutBy(winners)
                                 \cup (IF winner[r] = 0 THEN {NoRun} ELSE {})

(***************************************************************************)
(* The heuristic never prefers a candidate: a text scores best against     *)
(* itself, so that a run without a judge has no winner and writes no       *)
(* evolved.md, and jobs_run always sends its fall-back.  Each part of the  *)
(* score is at most the baseline's, and sums of floats keep that order.    *)
(***************************************************************************)
HeuristicKeepsBaseline ==
  \A r \in Run : base[r] \in Text =>
    /\ winner[r] = 0
    /\ \A t \in Time : dir[t]["evolved"] # r
=============================================================================
