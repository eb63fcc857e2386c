---------------------------- MODULE MCAnomalyLoop ----------------------------
(* A small instance of AnomalyLoop: two signals, scores on both sides of the  *)
(* threshold and of 0.95 and on them, and an alert handed over twice.         *)
EXTENDS AnomalyLoop, TLC

CONSTANTS s1, s2

MCSignals == {s1, s2}
MCScores == {85, 95, 96}
MCThreshold == 85
MCTwice == (s1 :> 2) @@ (s2 :> 1)
MCOnce == (s1 :> 1) @@ (s2 :> 1)
=============================================================================
