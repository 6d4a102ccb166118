-------------------------- MODULE MCRelaySessions ---------------------------
(* Small session tables for TLC. *)
EXTENDS RelaySessions, TLC

CONSTANTS s1, s2, v1, v2

TwoSessions == {s1, s2}
OneViewer == {v1}
TwoViewers == {v1, v2}
=============================================================================
