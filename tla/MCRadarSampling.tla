-------------------------- MODULE MCRadarSampling --------------------------
(* RadarSampling for TLC: the values of each kind are interchangeable.      *)
EXTENDS RadarSampling, TLC

Interchangeable ==
    Permutations(Pawns) \cup Permutations(Accounts) \cup Permutations(Maps)
=============================================================================
