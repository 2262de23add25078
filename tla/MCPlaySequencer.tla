--------------------------- MODULE MCPlaySequencer ---------------------------
(* Deployments of PlaySequencer for model checking: two devices, the left and *)
(* the right loudspeaker of one group, or one device in each of two groups.   *)
EXTENDS PlaySequencer, TLC

CONSTANTS left, right, kitchen, stereo

OneGroup == (left :> stereo) @@ (right :> stereo)
TwoGroups == (left :> stereo) @@ (right :> kitchen)

\* The loudspeakers of one group are interchangeable (for safety only).
Loudspeakers == Permutations({left, right})

=============================================================================
