----------------------------- MODULE MCEvolveRuns -----------------------------
\* EvolveRuns for TLC: the runs are interchangeable.
EXTENDS EvolveRuns, TLC

RunSymmetry == Permutations(Run)
=============================================================================
