---------------------------- MODULE MCRelayRoom -----------------------------
(* Small rooms for TLC: model values for the requests, their symmetry. *)
EXTENDS RelayRoom, TLC

CONSTANTS p1, p2, v1, v2

TwoProducers == {p1, p2}
TwoViewers == {v1, v2}
OneProducer == {p1}
OneViewer == {v1}

RequestSymmetry == Permutations(Producers) \cup Permutations(Viewers)
=============================================================================
