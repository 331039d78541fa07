---------------------------- MODULE MCActiveContext ----------------------------
(* ActiveContext on a few handles.  A behaviour makes at most MaxSteps calls,  *)
(* HandleCost fewer for each context alive at the time.                        *)
EXTENDS ActiveContext, TLC

CONSTANTS f, g, MaxSteps, HandleCost

VARIABLE steps

\* Answers that differ whenever their inputs do: any mix-up shows.
MCAnswer(kind, inputs, query) == <<kind, inputs, query>>

MCInit == Init /\ steps = 0
MCNext == steps + HandleCost * Cardinality(Live) < MaxSteps /\ Next /\ steps' = steps + 1
MCSpec == MCInit /\ [][MCNext]_<<vars, steps>>

Symmetry == Permutations(Forks)

=============================================================================
