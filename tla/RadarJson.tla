----------------------------- MODULE RadarJson -----------------------------
(***************************************************************************)
(* web_radar_json.cpp: what serializeSnapshotV1 puts into a frame, and the  *)
(* memory of serializeSnapshotCached in main.cpp.  The text is not part of  *)
(* the model: a frame is the record of what it tells.  Its players come in  *)
(* the order of their identities; a set is enough here.                     *)
(***************************************************************************)
EXTENDS Naturals

CONSTANTS
    Null,       \* the JSON null; also a consumer that has no frame
    Names       \* names of players, Steam identities and opaque identities

Sides == {"T", "CT"}
Teams == Sides \cup {"SPEC", "NONE"}

Player == [id : Names, team : Teams, name : Names \cup {Null},
           steamId : Names \cup {Null}]
Snapshots == [connected : BOOLEAN, localTeam : Teams, players : SUBSET Player]

(* TeamViewPolicy and SerializationOptions.                                 *)
Policies == {"all", "localTeamOnly", "opponentsOnly"}
Options == [names : BOOLEAN, steamIds : BOOLEAN, team : Policies]

(* includePlayer: with a policy, one who is on no side sees nobody.         *)
IncludePlayer(snapshot, player, policy) ==
    \/ policy = "all"
    \/ /\ snapshot.localTeam \in Sides
       /\ IF policy = "localTeamOnly"
          THEN player.team = snapshot.localTeam
          ELSE player.team \in Sides \ {snapshot.localTeam}

AppendPlayer(player, options) ==
    [player EXCEPT !.name = IF options.names THEN @ ELSE Null,
                   !.steamId = IF options.steamIds THEN @ ELSE Null]

SerializeSnapshot(snapshot, options) ==
    [connected |-> snapshot.connected,
     localTeam |-> snapshot.localTeam,
     players |-> {AppendPlayer(p, options) :
                    p \in {q \in snapshot.players :
                             IncludePlayer(snapshot, q, options.team)}}]

(* The payloads made for the current snapshot, by the options they were     *)
(* made with.  An entry of an older snapshot never matches again: entries   *)
(* are compared by the snapshot's address and keep it alive.                *)
Matches_Any(entry, options) == TRUE
Matches(entry, options) == entry = options

SerializeCached(snapshot, options, entries) ==
    IF \E e \in entries : Matches(e, options)
    THEN SerializeSnapshot(snapshot, CHOOSE e \in entries : Matches(e, options))
    ELSE SerializeSnapshot(snapshot, options)

Remembered(options, entries) ==
    IF \E e \in entries : Matches(e, options) THEN entries ELSE entries \cup {options}

(* What a frame may show to one with these options, stated of the frame.    *)
Permitted(frame, options) ==
    \A p \in frame.players :
        /\ ~options.names => p.name = Null
        /\ ~options.steamIds => p.steamId = Null
        /\ options.team = "localTeamOnly" => p.team = frame.localTeam
        /\ options.team = "opponentsOnly" => p.team \in Sides \ {frame.localTeam}
=============================================================================
