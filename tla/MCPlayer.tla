------------------------------- MODULE MCPlayer -------------------------------
(* The source gains of pipeline.py for model checking Player, in halves:       *)
(* pcm (the default) 1.0, sbc 3.0.                                             *)
EXTENDS Player

MCGain == [codec \in 0..1 |-> IF codec = 0 THEN 2 ELSE 6]

=============================================================================
