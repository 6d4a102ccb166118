-------------------------- MODULE MCOverlayProgram --------------------------
(* OverlayProgram for TLC: a game of two sides, played on one of them, and  *)
(* two ways to share it.                                                    *)
EXTENDS OverlayProgram

Plays(id, team) == [id |-> id, team |-> team, name |-> id, steamId |-> id]
Both == {Plays("terrorist", "T"), Plays("counter", "CT")}
Games == {[connected |-> TRUE, localTeam |-> "T", players |-> Both]}

Guarded == [names |-> FALSE, steamIds |-> TRUE, team |-> "opponentsOnly"]
DefaultOrGuarded == {Default, Guarded}
=============================================================================
