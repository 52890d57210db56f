------------------------------ MODULE Hebbian ------------------------------
(***************************************************************************)
(* HebbianUpdater.apply and PolicyBumpDecision.should_bump                 *)
(* (core/policies.py) over the batches of one scope, delivered one after   *)
(* the other as post_events_batch does (api/routes/routing.py:147-166).    *)
(*                                                                         *)
(* Weights and deltas are counted in units of the reward.  The code adds   *)
(* them up as floats: a sum of enough terms may come out a little below    *)
(* what it stands for, and does from RoundedFrom events on, so a batch     *)
(* that reaches the threshold exactly may or may not bump.  A skill with   *)
(* no key in description_weights weighs Start, as it does to its readers.  *)
(***************************************************************************)
EXTENDS Integers

CONSTANTS Skill,
          Start,       \* the weight of a skill without a key, 1.0
          Floor, Ceiling,
          Reward, Penalty,
          Threshold,   \* settings.policy_bump_delta_threshold
          RoundedFrom, \* events whose float sum may fall short, 8
          MaxEvents,   \* bound: events of a batch
          MaxSlack     \* bound: the slack up to which kept batches are counted

ASSUME WeightAssumption == /\ Start \in Int /\ Floor \in Int /\ Ceiling \in Int
                           /\ Floor <= Start /\ Start <= Ceiling
ASSUME UnitAssumption   == /\ Reward \in Nat \ {0} /\ Penalty \in Nat \ {0}
                           /\ Threshold \in Nat \ {0}
ASSUME BoundAssumption  == /\ RoundedFrom \in Nat /\ MaxEvents \in Nat
                           /\ MaxSlack \in Nat

VARIABLES
  weights,  \* description_weights of the active policy
  deltas,   \* deltas of the batch being applied
  events,   \* its events so far
  \* history
  clamped,  \* skills a published weight of which was cut to a bound
  learned,  \* learned[s]: the sum of the published deltas of s, until then
  given,    \* given[s]: the same with the deltas of kept batches that count
  slack,    \* what these batches may have lost of the feedback on a skill
  praised,  \* skills rewarded by a batch that was published
  blamed,   \* skills penalised by a batch that was published
  pending   \* the rewarded and the penalised of the batch being applied

totals == <<weights, learned, given, slack, clamped, praised, blamed>>
vars   == <<weights, deltas, events, learned, given, slack, clamped,
            praised, blamed, pending>>

Zero == [s \in Skill |-> 0]
None == [praised |-> {}, blamed |-> {}]

Init == /\ weights = [s \in Skill |-> Start]
        /\ deltas  = Zero
        /\ events  = 0
        /\ learned = Zero
        /\ given   = Zero
        /\ slack   = 0
        /\ clamped = {} /\ praised = {} /\ blamed = {}
        /\ pending = None

Magnitude(x) == IF x < 0 THEN -x ELSE x

\* Mutant: the floor is forgotten.
Clamp_CeilingOnly(x) == IF x > Ceiling THEN Ceiling ELSE x

\* max(floor, min(ceiling, x))
Clamp(x) == CASE x > Ceiling -> Ceiling
              [] x < Floor   -> Floor
              [] OTHER       -> x

-----------------------------------------------------------------------------
\* An event whose routed skill was accepted, or that names none.
Accept(s) == /\ events < MaxEvents
             /\ events'  = events + 1
             /\ deltas'  = [deltas EXCEPT ![s] = @ + Reward]
             /\ pending' = [pending EXCEPT !.praised = @ \cup {s}]
             /\ UNCHANGED totals

\* Mutant: the two skills of the event are taken for one another.
CorrectionOf_Swapped(s, a) == [deltas EXCEPT ![s] = @ + Reward, ![a] = @ - Penalty]

CorrectionOf(s, a) == [deltas EXCEPT ![s] = @ - Penalty, ![a] = @ + Reward]

\* An event that was routed to s and for which the user took a instead.
Correct(s, a) ==
  /\ events < MaxEvents
  /\ s # a
  /\ events'  = events + 1
  /\ deltas'  = CorrectionOf(s, a)
  /\ pending' = [praised |-> pending.praised \cup {a},
                 blamed  |-> pending.blamed  \cup {s}]
  /\ UNCHANGED totals

\* Mutant: any delta is enough.
Bumps_AnyDelta(exactly) == \E s \in Skill : deltas[s] # 0

\* Mutant: the threshold itself is not enough.
Bumps_Above(exactly) == \E s \in Skill : Magnitude(deltas[s]) > Threshold

\* should_bump; `exactly` is its outcome for a sum that is due at Threshold.
Bumps(exactly) ==
  \E s \in Skill : \/ Magnitude(deltas[s]) > Threshold
                   \/ Magnitude(deltas[s]) = Threshold /\ exactly

\* Whether a sum due at the threshold is computed as reaching it.
Reaches == IF events < RoundedFrom THEN {TRUE} ELSE {TRUE, FALSE}

NextBatch == /\ events'  = 0
             /\ deltas'  = Zero
             /\ pending' = None

\* The most a batch may come to that is kept.
Allowance == IF events < RoundedFrom THEN Threshold - 1 ELSE Threshold

Keep == /\ events > 0
        /\ \E exactly \in Reaches : ~Bumps(exactly)
        /\ NextBatch
        /\ IF slack + Allowance <= MaxSlack
           THEN /\ slack' = slack + Allowance
                /\ given' = [s \in Skill |-> IF s \in clamped THEN 0
                                             ELSE given[s] + deltas[s]]
           ELSE UNCHANGED <<slack, given>>
        /\ UNCHANGED <<weights, learned, clamped, praised, blamed>>

\* Mutant: the weights of the baseline are not read.
Updated_FromStart(s) == Clamp(Start + deltas[s])

Updated(s) == Clamp(weights[s] + deltas[s])

Publish ==
  /\ events > 0
  /\ \E exactly \in Reaches : Bumps(exactly)
  /\ weights' = [s \in Skill |-> Updated(s)]
  /\ clamped' = clamped \cup
                {s \in Skill : weights[s] + deltas[s] \notin Floor..Ceiling}
  /\ learned' = [s \in Skill |-> IF s \in clamped' THEN 0
                                  ELSE learned[s] + deltas[s]]
  /\ given'   = [s \in Skill |-> IF s \in clamped' THEN 0
                                  ELSE given[s] + deltas[s]]
  /\ praised' = praised \cup pending.praised
  /\ blamed'  = blamed \cup pending.blamed
  /\ NextBatch
  /\ UNCHANGED slack

Next == \/ \E s \in Skill : Accept(s) \/ \E a \in Skill : Correct(s, a)
        \/ Keep
        \/ Publish

Spec == Init /\ [][Next]_vars

-----------------------------------------------------------------------------
TypeOK ==
  /\ weights \in [Skill -> Floor..Ceiling]
  /\ deltas  \in [Skill -> Int]
  /\ events  \in 0..MaxEvents
  /\ learned \in [Skill -> Int]
  /\ given   \in [Skill -> Int]
  /\ slack   \in 0..MaxSlack
  /\ clamped \subseteq Skill
  /\ praised \subseteq Skill
  /\ blamed  \subseteq Skill
  /\ pending \in [praised : SUBSET Skill, blamed : SUBSET Skill]

(***************************************************************************)
(* A weight is the sum of what was published for its skill, unless a bound *)
(* has once cut it off: batches that were kept leave no trace, and those   *)
(* that were published are each counted in full.                           *)
(***************************************************************************)
Accounted ==
  \A s \in Skill \ clamped : weights[s] = Start + learned[s]

(***************************************************************************)
(* What users said of a skill and its weight differ by less than the       *)
(* threshold for each batch that did not bump (by the threshold itself, if *)
(* the batch was large enough for its sum to be rounded down): such a      *)
(* batch drops its deltas, in either direction, and nothing else is lost,  *)
(* until a bound has cut the weight off.                                   *)
(***************************************************************************)
Loss(s) == given[s] - (weights[s] - Start)

LossBounded ==
  \A s \in Skill \ clamped : Loss(s) \in -slack..slack

(***************************************************************************)
(* A skill weighs less than one that was never seen only if some user took *)
(* another in its place, and more only if some user accepted it, whatever  *)
(* the bounds have cut off in between.                                     *)
(***************************************************************************)
Earned ==
  \A s \in Skill : /\ weights[s] < Start => s \in blamed
                   /\ weights[s] > Start => s \in praised

(***************************************************************************)
(* A new version that weighs every skill as the old one did (and so has    *)
(* its etag, unless it lists a skill that is new and was not moved) is     *)
(* published only when a skill that reached the threshold is already at    *)
(* the bound it was pushed to.                                             *)
(***************************************************************************)
Pinned(s) == \/ deltas[s] >= Threshold /\ weights[s] = Ceiling
             \/ -deltas[s] >= Threshold /\ weights[s] = Floor

BumpIsFelt ==
  [][Publish /\ weights' = weights => \E s \in Skill : Pinned(s)]_vars
=============================================================================
