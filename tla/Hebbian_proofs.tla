---------------------------- MODULE Hebbian_proofs ----------------------------
(***************************************************************************)
(* Theorems about Hebbian, for any skills, units, bounds and threshold.    *)
(***************************************************************************)
EXTENDS Hebbian, TLAPS

\* A weight that is cut stays within its bounds, and within them is not cut.
LEMMA ClampBounds ==
  ASSUME NEW x \in Int
  PROVE  /\ Clamp(x) \in Floor..Ceiling
         /\ x \in Floor..Ceiling => Clamp(x) = x
         /\ Clamp(x) < x => Clamp(x) = Ceiling
         /\ Clamp(x) > x => Clamp(x) = Floor
BY WeightAssumption DEF Clamp

-----------------------------------------------------------------------------
\* The initial state is well typed.
LEMMA TypeInit == Init => TypeOK
BY WeightAssumption, BoundAssumption DEF Init, TypeOK, Zero, None

\* Every step preserves the types.
LEMMA TypeStep == TypeOK /\ [Next]_vars => TypeOK'
<1> SUFFICES ASSUME TypeOK, [Next]_vars PROVE TypeOK'
  OBVIOUS
<1> USE UnitAssumption, BoundAssumption
<1>1. ASSUME NEW s \in Skill, Accept(s) PROVE TypeOK'
  BY <1>1 DEF Accept, totals, TypeOK
<1>2. ASSUME NEW s \in Skill, NEW a \in Skill, Correct(s, a) PROVE TypeOK'
  BY <1>2 DEF Correct, CorrectionOf, totals, TypeOK
<1>3. CASE Keep
  <2>1. slack' \in 0..MaxSlack
    BY <1>3 DEF Keep, Allowance, TypeOK
  <2>2. given' \in [Skill -> Int]
    BY <1>3 DEF Keep, TypeOK
  <2> QED
    BY <1>3, <2>1, <2>2 DEF Keep, NextBatch, Zero, None, TypeOK
<1>4. CASE Publish
  <2>1. weights' \in [Skill -> Floor..Ceiling]
    BY <1>4, ClampBounds, WeightAssumption DEF Publish, Updated, TypeOK
  <2>2. learned' \in [Skill -> Int] /\ given' \in [Skill -> Int]
    BY <1>4 DEF Publish, TypeOK
  <2>3. /\ deltas' \in [Skill -> Int]
        /\ events' \in 0..MaxEvents
        /\ pending' \in [praised : SUBSET Skill, blamed : SUBSET Skill]
    BY <1>4 DEF Publish, NextBatch, Zero, None
  <2>4. slack' \in 0..MaxSlack
    BY <1>4 DEF Publish, TypeOK
  <2>5. clamped' \subseteq Skill /\ praised' \subseteq Skill /\ blamed' \subseteq Skill
    BY <1>4 DEF Publish, TypeOK
  <2> QED
    BY <2>1, <2>2, <2>3, <2>4, <2>5 DEF TypeOK
<1>5. CASE UNCHANGED vars
  BY <1>5 DEF vars, TypeOK
<1> QED
  BY <1>1, <1>2, <1>3, <1>4, <1>5 DEF Next

\* Weights stay within their bounds in every behaviour.
THEOREM TypeInvariant == Spec => []TypeOK
  BY TypeInit, TypeStep, PTL DEF Spec

-----------------------------------------------------------------------------
(***************************************************************************)
(* The inductive invariant: a delta of the batch being applied has the     *)
(* sign of some feedback of that batch, which will be remembered if the    *)
(* batch is published.                                                     *)
(***************************************************************************)
DeltasEarned ==
  \A s \in Skill : /\ deltas[s] < 0 => s \in pending.blamed
                   /\ deltas[s] > 0 => s \in pending.praised

IInv == TypeOK /\ DeltasEarned /\ Accounted /\ LossBounded /\ Earned

\* The initial state satisfies the invariant.
LEMMA InvariantInit == Init => IInv
<1> SUFFICES ASSUME Init PROVE IInv
  OBVIOUS
<1>1. TypeOK
  BY TypeInit
<1>2. DeltasEarned
  <2> SUFFICES ASSUME NEW s \in Skill
               PROVE  ~(deltas[s] < 0) /\ ~(deltas[s] > 0)
    BY DEF DeltasEarned
  <2>1. deltas[s] = 0
    BY DEF Init, Zero
  <2> QED
    BY <2>1
<1>3. Accounted /\ LossBounded /\ Earned
  BY WeightAssumption DEF Init, Zero, Accounted, LossBounded, Loss, Earned
<1> QED
  BY <1>1, <1>2, <1>3 DEF IInv

\* Feedback within a batch leaves the weights and what they account for.
LEMMA FeedbackStep ==
  ASSUME IInv, TypeOK',
         NEW s \in Skill, Accept(s) \/ \E a \in Skill : Correct(s, a)
  PROVE  IInv'
<1>1. DeltasEarned'
  <2>1. CASE Accept(s)
    BY <2>1, UnitAssumption DEF Accept, totals, IInv, TypeOK, DeltasEarned
  <2>2. ASSUME NEW a \in Skill, Correct(s, a) PROVE DeltasEarned'
    BY <2>2, UnitAssumption
       DEF Correct, CorrectionOf, totals, IInv, TypeOK, DeltasEarned
  <2> QED
    BY <2>1, <2>2
<1>2. Accounted' /\ LossBounded' /\ Earned'
  BY DEF Accept, Correct, totals, IInv, Accounted, LossBounded, Loss, Earned
<1> QED
  BY <1>1, <1>2 DEF IInv

\* A batch that is kept drops deltas of at most its allowance.
LEMMA KeepStep ==
  ASSUME IInv, TypeOK', Keep
  PROVE  IInv'
<1> USE DEF IInv
<1>1. ASSUME NEW s \in Skill
      PROVE  deltas[s] \in -Allowance..Allowance
  <2>1. PICK exactly \in Reaches : ~Bumps(exactly)
    BY DEF Keep
  <2>2. /\ ~(Magnitude(deltas[s]) > Threshold)
        /\ ~(Magnitude(deltas[s]) = Threshold /\ exactly)
    BY <2>1 DEF Bumps
  <2>3. deltas[s] \in Int /\ Magnitude(deltas[s]) \in Int
    BY DEF TypeOK, Magnitude
  <2>4. CASE events < RoundedFrom
    <3>1. exactly
      BY <2>4 DEF Reaches
    <3>2. Magnitude(deltas[s]) <= Threshold - 1
      BY <2>2, <2>3, <3>1, UnitAssumption
    <3> QED
      BY <2>3, <2>4, <3>2, UnitAssumption DEF Allowance, Magnitude
  <2>5. CASE ~(events < RoundedFrom)
    BY <2>2, <2>3, <2>5, UnitAssumption DEF Allowance, Magnitude
  <2> QED
    BY <2>4, <2>5
<1>2. LossBounded'
  <2> SUFFICES ASSUME NEW s \in Skill \ clamped
               PROVE  given'[s] - (weights[s] - Start) \in -slack'..slack'
    BY DEF Keep, LossBounded, Loss
  <2> DEFINE loss == given[s] - (weights[s] - Start)
  <2>1. /\ loss \in -slack..slack
        /\ weights[s] \in Int /\ given[s] \in Int /\ deltas[s] \in Int
        /\ slack \in Int /\ Allowance \in Int
    BY WeightAssumption, UnitAssumption
       DEF TypeOK, LossBounded, Loss, Allowance
  <2>2. CASE slack + Allowance <= MaxSlack
    <3>1. slack' = slack + Allowance /\ given'[s] = given[s] + deltas[s]
      BY <2>2 DEF Keep
    <3> QED
      BY <1>1, <2>1, <3>1, WeightAssumption
  <2>3. CASE ~(slack + Allowance <= MaxSlack)
    BY <2>1, <2>3 DEF Keep
  <2> QED
    BY <2>2, <2>3
<1>3. DeltasEarned' /\ Accounted' /\ Earned'
  BY DEF Keep, NextBatch, Zero, DeltasEarned, Accounted, Earned
<1> QED
  BY <1>2, <1>3

\* A batch that is published adds its deltas to the weights and to the sums.
LEMMA PublishStep ==
  ASSUME IInv, TypeOK', Publish
  PROVE  IInv'
<1> USE DEF IInv
<1>1. DeltasEarned'
  BY DEF Publish, NextBatch, Zero, DeltasEarned
<1>2. ASSUME NEW s \in Skill
      PROVE  /\ weights[s] + deltas[s] \in Int
             /\ weights'[s] = Clamp(weights[s] + deltas[s])
  BY <1>2, WeightAssumption DEF Publish, Updated, TypeOK
<1>3. Accounted'
  <2> SUFFICES ASSUME NEW s \in Skill, s \notin clamped'
               PROVE  weights'[s] = Start + learned'[s]
    BY DEF Accounted
  <2>1. s \notin clamped /\ weights[s] + deltas[s] \in Floor..Ceiling
    BY DEF Publish
  <2>2. weights'[s] = weights[s] + deltas[s]
    BY <2>1, <1>2, ClampBounds
  <2>3. learned'[s] = learned[s] + deltas[s]
    BY DEF Publish
  <2> QED
    BY <2>1, <2>2, <2>3, WeightAssumption DEF Accounted, TypeOK
<1>4. Earned'
  <2> SUFFICES ASSUME NEW s \in Skill
               PROVE  /\ weights'[s] < Start => s \in blamed'
                      /\ weights'[s] > Start => s \in praised'
    BY DEF Earned
  <2> DEFINE sum == weights[s] + deltas[s]
  <2>1. /\ sum \in Int
        /\ weights'[s] = Clamp(sum)
        /\ weights[s] \in Int /\ deltas[s] \in Int
    BY <1>2, WeightAssumption DEF TypeOK
  <2>2. Clamp(sum) < Start => sum < Start
    BY <2>1, WeightAssumption DEF Clamp
  <2>3. Clamp(sum) > Start => sum > Start
    BY <2>1, WeightAssumption DEF Clamp
  <2>4. sum < Start => weights[s] < Start \/ deltas[s] < 0
    BY <2>1, WeightAssumption
  <2>5. sum > Start => weights[s] > Start \/ deltas[s] > 0
    BY <2>1, WeightAssumption
  <2> QED
    BY <2>1, <2>2, <2>3, <2>4, <2>5 DEF Publish, Earned, DeltasEarned
<1>5. LossBounded'
  <2> SUFFICES ASSUME NEW s \in Skill, s \notin clamped'
               PROVE  given'[s] - (weights'[s] - Start) \in -slack..slack
    BY DEF Publish, LossBounded, Loss
  <2>1. s \notin clamped /\ weights[s] + deltas[s] \in Floor..Ceiling
    BY DEF Publish
  <2>2. weights'[s] = weights[s] + deltas[s]
    BY <2>1, <1>2, ClampBounds
  <2>3. given'[s] = given[s] + deltas[s]
    BY DEF Publish
  <2>4. given[s] - (weights[s] - Start) \in -slack..slack
    BY <2>1 DEF LossBounded, Loss
  <2>5. /\ weights[s] \in Int /\ given[s] \in Int
        /\ deltas[s] \in Int /\ slack \in Int
    BY WeightAssumption DEF TypeOK
  <2> QED
    BY <2>2, <2>3, <2>4, <2>5, WeightAssumption
<1> QED
  BY <1>1, <1>3, <1>4, <1>5

\* Every step preserves the invariant.
LEMMA InvariantStep == IInv /\ [Next]_vars => IInv'
<1> SUFFICES ASSUME IInv, [Next]_vars PROVE IInv'
  OBVIOUS
<1>0. TypeOK'
  BY TypeStep DEF IInv
<1>1. ASSUME NEW s \in Skill, Accept(s) \/ \E a \in Skill : Correct(s, a)
      PROVE  IInv'
  BY <1>0, <1>1, FeedbackStep
<1>2. CASE Keep
  BY <1>0, <1>2, KeepStep
<1>3. CASE Publish
  BY <1>0, <1>3, PublishStep
<1>4. CASE UNCHANGED vars
  BY <1>0, <1>4 DEF vars, IInv, DeltasEarned, Accounted, LossBounded, Loss,
     Earned
<1> QED
  BY <1>1, <1>2, <1>3, <1>4 DEF Next

\* A weight is the sum of what was published for its skill, until a bound
\* has cut it.
THEOREM AccountedHolds == Spec => []Accounted
<1>1. IInv => Accounted
  BY DEF IInv
<1> QED
  BY <1>1, InvariantInit, InvariantStep, PTL DEF Spec

\* The feedback on a skill and its weight differ by less than the threshold
\* for each batch that did not bump, by no more than it if sums were rounded.
THEOREM LossBoundedHolds == Spec => []LossBounded
<1>1. IInv => LossBounded
  BY DEF IInv
<1> QED
  BY <1>1, InvariantInit, InvariantStep, PTL DEF Spec

\* Only feedback moves a weight to the side of Start it is on.
THEOREM EarnedHolds == Spec => []Earned
<1>1. IInv => Earned
  BY DEF IInv
<1> QED
  BY <1>1, InvariantInit, InvariantStep, PTL DEF Spec

-----------------------------------------------------------------------------
\* A published version that changes no weight has a skill at the bound the
\* batch pushed it to.
THEOREM BumpIsFeltHolds == Spec => BumpIsFelt
<1>1. TypeOK /\ [Next]_vars =>
        [Publish /\ weights' = weights => \E s \in Skill : Pinned(s)]_vars
  <2> SUFFICES ASSUME TypeOK, Publish, weights' = weights
               PROVE  \E s \in Skill : Pinned(s)
    OBVIOUS
  <2>1. PICK s \in Skill : Magnitude(deltas[s]) >= Threshold
    BY UnitAssumption DEF Publish, Bumps, Magnitude, TypeOK
  <2>2. /\ deltas[s] \in Int /\ weights[s] \in Int
        /\ weights[s] + deltas[s] \in Int
        /\ Clamp(weights[s] + deltas[s]) = weights[s]
    BY WeightAssumption DEF Publish, Updated, TypeOK
  <2>3. CASE deltas[s] >= Threshold
    BY <2>2, <2>3, ClampBounds, UnitAssumption DEF Pinned
  <2>4. CASE -deltas[s] >= Threshold
    BY <2>2, <2>4, ClampBounds, UnitAssumption DEF Pinned
  <2> QED
    BY <2>1, <2>2, <2>3, <2>4 DEF Magnitude
<1> QED
  BY <1>1, TypeInit, TypeStep, PTL DEF Spec, BumpIsFelt
=============================================================================
