------------------------------ MODULE SafetyGates ------------------------------
(***************************************************************************)
(* The constraint gates (core/constraints.py) over the life of a skill:    *)
(* a candidate that passes run_skill_artifact_gates against the current    *)
(* version becomes the current version, against which the next candidate   *)
(* is checked.                                                             *)
(*                                                                         *)
(* An artifact is what the gates look at: its size, whether its text is    *)
(* clean and its frontmatter parses, and the entries of the frontmatter.   *)
(* An entry may have any word; an empty one counts as not there.           *)
(***************************************************************************)
EXTENDS Integers, FiniteSets

CONSTANTS Key,        \* keys of the safety block that are in use
          SafetyWord, \* words that the entries of the safety block have
          TierWord,   \* words that risk_tier has
          Unstated,   \* the value of an entry that is not there
          SizeLimit,  \* size_limit
          MaxSize     \* bound: bytes of an artifact

ASSUME SizeAssumption == SizeLimit \in Nat /\ MaxSize \in Nat

\* Mutant: "advisory" is taken for no weakening.
Below_AdvisoryGoes(v) == {"disabled", "not-applicable"}

\* What a strict value v, or v = "advisory", must not become.
Below(v) == {"disabled", "not-applicable"} \cup ({"advisory"} \ {v})

\* _SAFETY_KEYS_FORBIDDEN_WEAKENING
ForbiddenWeakening ==
  LET two(strict) == [v \in {strict, "advisory"} |-> Below(v)]
  IN  [citation_verification    |-> two("required"),
       jurisdiction_consistency |-> two("enforced"),
       matter_scope             |-> two("enforced"),
       upl_check                |-> [required |-> {"not-applicable"}]]

ASSUME KeyAssumption == Key \subseteq DOMAIN ForbiddenWeakening

Values == {"required", "enforced", "advisory", "disabled", "not-applicable"}

ASSUME UnstatedAssumption == Unstated \notin SafetyWord \cup TierWord \cup Values

\* The values of a key that its row of the table names.
ValuesOf(k) == DOMAIN ForbiddenWeakening[k]
                 \cup UNION {ForbiddenWeakening[k][v] : v \in DOMAIN ForbiddenWeakening[k]}

\* _RISK_TIER_RANK, and the rank of a word that it does not list.
TierRank == [low |-> 0, medium |-> 1, high |-> 2, critical |-> 3]
RankOf(t) == IF t \in DOMAIN TierRank THEN TierRank[t] ELSE -1

\* How much a value asks for, in the table's own terms.
Strength(v) == CASE v \in {"required", "enforced"} -> 2
                 [] v = "advisory"                 -> 1
                 [] OTHER                          -> 0

VARIABLES
  current, \* the version candidates are checked against
  floor    \* history: what the first version asked for

versions == <<current, floor>>

Artifact == [size : 0..MaxSize, clean : BOOLEAN, parses : BOOLEAN,
             safety : [Key -> SafetyWord \cup {Unstated}],
             disclaimer : BOOLEAN, tier : TierWord \cup {Unstated}]

\* The keys to which a gives a word of their own row.
Named(a) == {k \in Key : a.safety[k] \in ValuesOf(k)}

\* What a asks for: nothing where its word is not one of the key's row.
Asked(a) == [safety     |-> [k \in Key |-> IF k \in Named(a) THEN Strength(a.safety[k])
                                                            ELSE 0],
             disclaimer |-> a.disclaimer,
             rank       |-> IF a.tier # Unstated THEN RankOf(a.tier) ELSE -1]

\* What is left of the floor once a is a version: an entry that a leaves out, or
\* in which it has a word that is not one of the key's row, has none any more.
Kept(a) == [safety     |-> [k \in Key |-> IF k \in Named(a) THEN floor.safety[k] ELSE 0],
            disclaimer |-> floor.disclaimer,
            rank       |-> IF a.tier # Unstated THEN floor.rank ELSE -1]

GatesInit == /\ current \in {a \in Artifact : a.parses /\ a.size > 0}
             /\ floor = Asked(current)

-----------------------------------------------------------------------------
BaseSize(b) == IF b.size = 0 THEN 1 ELSE b.size

\* grew <= max_growth, at its default of 0.5.
WithinGrowth(c, b) == 2 * (c.size - BaseSize(b)) <= BaseSize(b)

UniversalGates(c, b) == /\ c.size > 0
                        /\ c.size <= SizeLimit
                        /\ WithinGrowth(c, b)
                        /\ c.clean

Weakens(k, c, b) == /\ c.safety[k] # Unstated
                    /\ b.safety[k] \in DOMAIN ForbiddenWeakening[k]
                    /\ c.safety[k] \in ForbiddenWeakening[k][b.safety[k]]

LowersTier(c, b) == /\ c.tier # Unstated
                    /\ b.tier # Unstated
                    /\ RankOf(c.tier) < RankOf(b.tier)

SafetyBlockIntact(c, b) == /\ \A k \in Key : ~Weakens(k, c, b)
                           /\ b.disclaimer => c.disclaimer
                           /\ ~LowersTier(c, b)

SkillGates(c, b) == /\ UniversalGates(c, b)
                    /\ c.parses
                    /\ SafetyBlockIntact(c, b)

\* A candidate that passes is adopted; one that fails changes nothing.
Adopt(c) == /\ SkillGates(c, current)
            /\ current' = c
            /\ floor' = Kept(c)

GatesNext == \E c \in Artifact : Adopt(c)

GatesSpec == GatesInit /\ [][GatesNext]_versions

-----------------------------------------------------------------------------
(***************************************************************************)
(* Of an entry to which every version has given a word of its own row, no  *)
(* number of adopted candidates makes the value weaker; nor do they lower  *)
(* a risk tier that every version states, or lose a disclaimer.  (What is  *)
(* left out for one version, or given a word that the row does not name,   *)
(* is protected no more: "required" may become "disabled" by way of any    *)
(* word the table does not know, as the gates look no further back than    *)
(* the version before.  "disabled" itself is such a word for upl_check,    *)
(* whose row forbids "not-applicable" alone.)                              *)
(***************************************************************************)
NamedNeverWeakens ==
  /\ \A k \in Key : Asked(current).safety[k] >= floor.safety[k]
  /\ Asked(current).rank >= floor.rank
  /\ floor.disclaimer => current.disclaimer
=============================================================================
