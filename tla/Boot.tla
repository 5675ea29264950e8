------------------------------- MODULE Boot -------------------------------
(***************************************************************************)
(* The master's start: runMigrations (master/db.go), which among other     *)
(* statements moves the game-specific columns of game_servers into         *)
(* server_configs and then drops them, and seedGames (master/gamedefs.go), *)
(* which brings the game tables up to what this release registers.  Every  *)
(* statement commits on its own, and the process may end between any two:  *)
(* a failing migration ends it as a crash does.  Compose starts it again,  *)
(* in this or another release.  A definition whose comment starts with     *)
(* "Slip" is the next one with a mistake in it.                            *)
(***************************************************************************)
EXTENDS Naturals, Sequences

CONSTANTS
    Servers,    \* the rows of game_servers
    Columns,    \* start_map, map_group, extra_args: in the code's order
    Values,     \* what a setting may be
    NoValue,    \* NULL, the empty string, or no row
    Releases,   \* versions of the master
    NoRelease,
    Games,      \* registeredGames, a sequence of slugs
    Ports,      \* Ports[r][g]: the port mappings release r registers for g
    Modes,      \* Modes[r][g]: its modes
    Slugs,      \* every mode of any release
    MaxFaults,  \* bound of the model: ends of the process, failed seed statements
    MaxEdits    \* bound of the model: settings the user changes

Cols == {Columns[j] : j \in DOMAIN Columns}
GameSet == {Games[j] : j \in DOMAIN Games}

ASSUME BootAssumption ==
    /\ Columns \in Seq(Cols) /\ Games \in Seq(GameSet)
    /\ NoValue \notin Values /\ NoRelease \notin Releases
    /\ \A r \in Releases, g \in GameSet :
        /\ Ports[r][g] \in Seq({Ports[r][g][j] : j \in DOMAIN Ports[r][g]})
        /\ Modes[r][g] \in Seq(Slugs)
    /\ MaxFaults \in Nat /\ MaxEdits \in Nat

VARIABLES
    stage,      \* what the process is at; "down" when there is none
    game, i,    \* where it is in the list of games and in the stage's list
    release,    \* the release that runs
    has,        \* the old columns that still exist
    old,        \* old[s][c]: what the column holds
    config,     \* config[s][c]: the server_configs row under the column's key
    def,        \* def[g]: the game_definitions row, as releases whose name
                \* and whose other columns it holds
    ports,      \* ports[g]: the rows of game_port_mappings, in insertion order
    modes,      \* modes[g][m]: the game_modes row, likewise
    failed,     \* games with a seed statement that failed in this boot
    wanted,     \* history: the settings as the user last left them
    faults, edits

at == <<stage, game, i, release>>
settings == <<has, old, config, wanted>>
gameRows == <<def, ports, modes, failed>>
vars == <<at, settings, gameRows, faults, edits>>

Setting == Values \cup {NoValue}

(* What a setting is: the row, or else the column that is still to be      *)
(* copied.                                                                 *)
Effective(s, c) ==
    IF config[s][c] # NoValue THEN config[s][c]
    ELSE IF c \in has THEN old[s][c] ELSE NoValue

(* A row of a game, and what an upsert of release r leaves of it: the name *)
(* is not among the columns that ON CONFLICT sets.                         *)
NoRow == [name |-> NoRelease, rest |-> NoRelease]

Upserted(was, r) == [name |-> IF was = NoRow THEN r ELSE was.name, rest |-> r]

(* A database of an older master, or one without the old columns.          *)
Init ==
    /\ stage = "down" /\ game = 0 /\ i = 1 /\ release \in Releases
    /\ has \in {{}, Cols}
    /\ old \in [Servers -> [Cols -> Setting]]
    /\ config \in [Servers -> [Cols -> Setting]]
    /\ wanted = [s \in Servers |-> [c \in Cols |-> Effective(s, c)]]
    /\ def = [g \in GameSet |-> NoRow]
    /\ ports = [g \in GameSet |-> <<>>]
    /\ modes = [g \in GameSet |-> [m \in Slugs |-> NoRow]]
    /\ failed = {} /\ faults = 0 /\ edits = 0

G == Games[game]

(* What the stage's loop ranges over, and the stage after it.              *)
List == CASE stage \in {"copy", "drop"} -> Columns
          [] stage = "ports" -> Ports[release][G]
          [] stage = "modes" -> Modes[release][G]
          [] OTHER -> <<>>

After == [schema |-> "copy", copy |-> "drop", drop |-> "game",
          def |-> "clear", clear |-> "ports", ports |-> "modes",
          modes |-> "game"]

Goto(st) == stage' = st /\ i' = 1 /\ UNCHANGED <<game, release>>

InLoop(st) ==
    /\ stage = st /\ i <= Len(List)
    /\ i' = i + 1
    /\ UNCHANGED <<stage, game, release>>

LoopOver ==
    /\ stage \in {"copy", "drop", "ports", "modes"} /\ i > Len(List)
    /\ Goto(After[stage])
    /\ UNCHANGED <<settings, gameRows, faults, edits>>

-----------------------------------------------------------------------------
(* runMigrations                                                           *)

Start(r) ==
    /\ stage = "down"
    /\ stage' = "schema" /\ game' = 0 /\ i' = 1 /\ release' = r
    /\ failed' = {}
    /\ UNCHANGED <<settings, def, ports, modes, faults, edits>>

(* The CREATE TABLE IF NOT EXISTS and ADD COLUMN IF NOT EXISTS statements: *)
(* after a part of them, all of them run again.                            *)
CreateTables ==
    /\ stage = "schema"
    /\ Goto("copy")
    /\ UNCHANGED <<settings, gameRows, faults, edits>>

Merged(s, c) == [config[s] EXCEPT ![c] = Effective(s, c)]

(* Slip: the insert has ON CONFLICT DO UPDATE.                             *)
CopyOver ==
    /\ InLoop("copy")
    /\ LET c == Columns[i] IN
        config' = [s \in Servers |->
                      IF c \in has /\ old[s][c] # NoValue
                      THEN [config[s] EXCEPT ![c] = old[s][c]] ELSE config[s]]
    /\ UNCHANGED <<has, old, wanted, gameRows, faults, edits>>

(* Slip: the insert has no ON CONFLICT; a row that is there is an error.   *)
CopyStrict ==
    LET c == Columns[i]
        clash == \E s \in Servers :
            c \in has /\ old[s][c] # NoValue /\ config[s][c] # NoValue
    IN  /\ stage = "copy" /\ i <= Len(List)
        /\ IF clash THEN stage' = "down" /\ UNCHANGED <<i, config>>
           ELSE /\ i' = i + 1 /\ UNCHANGED stage
                /\ config' = [s \in Servers |-> Merged(s, c)]
        /\ UNCHANGED <<game, release, has, old, wanted, gameRows, faults, edits>>

(* The DO block of a column: its values become rows where there is none.   *)
Copy ==
    /\ InLoop("copy")
    /\ config' = [s \in Servers |-> Merged(s, Columns[i])]
    /\ UNCHANGED <<has, old, wanted, gameRows, faults, edits>>

(* Slip: the column is left, for the next boot to copy again.              *)
DropNothing == InLoop("drop") /\ UNCHANGED <<settings, gameRows, faults, edits>>

Drop ==
    /\ InLoop("drop")
    /\ has' = has \ {Columns[i]}
    /\ UNCHANGED <<old, config, wanted, gameRows, faults, edits>>

-----------------------------------------------------------------------------
(* seedGames: a statement that fails is logged and passed over.            *)

NextGame ==
    /\ stage = "game"
    /\ game' = game + 1 /\ i' = 1
    /\ stage' = IF game < Len(Games) THEN "def" ELSE "serve"
    /\ UNCHANGED <<release, settings, gameRows, faults, edits>>

SeedDef ==
    /\ stage = "def"
    /\ def' = [def EXCEPT ![G] = Upserted(@, release)]
    /\ Goto("clear")
    /\ UNCHANGED <<settings, ports, modes, failed, faults, edits>>

(* Slip: the mappings are not deleted before they are inserted.            *)
KeepPorts ==
    /\ stage = "clear"
    /\ Goto("ports")
    /\ UNCHANGED <<settings, gameRows, faults, edits>>

ClearPorts ==
    /\ stage = "clear"
    /\ ports' = [ports EXCEPT ![G] = <<>>]
    /\ Goto("ports")
    /\ UNCHANGED <<settings, def, modes, failed, faults, edits>>

InsertPort ==
    /\ InLoop("ports")
    /\ ports' = [ports EXCEPT ![G] = Append(@, List[i])]
    /\ UNCHANGED <<settings, def, modes, failed, faults, edits>>

UpsertMode ==
    /\ InLoop("modes")
    /\ modes' = [modes EXCEPT ![G][List[i]] = Upserted(@, release)]
    /\ UNCHANGED <<settings, def, ports, failed, faults, edits>>

(* A failing upsert of the definition goes on with the next game.          *)
SeedFails ==
    /\ faults < MaxFaults /\ faults' = faults + 1
    /\ \/ stage = "def" /\ Goto("game")
       \/ stage = "clear" /\ Goto("ports")
       \/ InLoop("ports")
       \/ InLoop("modes")
    /\ failed' = failed \cup {G}
    /\ UNCHANGED <<settings, def, ports, modes, edits>>

-----------------------------------------------------------------------------
(* The process ends: a crash, a stop for an upgrade, or log.Fatalf after a *)
(* ping or a migration that failed.                                        *)
End ==
    /\ stage # "down" /\ faults < MaxFaults
    /\ stage' = "down" /\ faults' = faults + 1
    /\ UNCHANGED <<game, i, release, settings, gameRows, edits>>

(* updateServer, once requests are served: a row is written or deleted.    *)
Edit(s, c, v) ==
    /\ stage = "serve" /\ edits < MaxEdits
    /\ config' = [config EXCEPT ![s][c] = v]
    /\ wanted' = [wanted EXCEPT ![s][c] = v]
    /\ edits' = edits + 1
    /\ UNCHANGED <<at, has, old, gameRows, faults>>

Progress ==
    \/ \E r \in Releases : Start(r)
    \/ CreateTables \/ Copy \/ Drop \/ LoopOver
    \/ NextGame \/ SeedDef \/ ClearPorts \/ InsertPort \/ UpsertMode

Next ==
    \/ Progress
    \/ SeedFails \/ End
    \/ \E s \in Servers, c \in Cols, v \in Setting : Edit(s, c, v)

Spec == Init /\ [][Next]_vars
FairSpec == Spec /\ WF_vars(Progress)

-----------------------------------------------------------------------------
Stored == [name : Releases \cup {NoRelease}, rest : Releases \cup {NoRelease}]

TypeOK ==
    /\ stage \in {"down", "schema", "copy", "drop", "game", "def", "clear",
                  "ports", "modes", "serve"}
    /\ game \in Nat /\ i \in Nat \ {0} /\ release \in Releases
    /\ stage \in {"def", "clear", "ports", "modes"} => game \in DOMAIN Games
    /\ has \subseteq Cols
    /\ old \in [Servers -> [Cols -> Setting]]
    /\ config \in [Servers -> [Cols -> Setting]]
    /\ wanted \in [Servers -> [Cols -> Setting]]
    /\ def \in [GameSet -> Stored]
    /\ DOMAIN ports = GameSet
    /\ modes \in [GameSet -> [Slugs -> Stored]]
    /\ failed \subseteq GameSet

(* Wherever the process ends and however often it starts again, a setting  *)
(* is what the user last made it: moving the columns (db.go 157-186) loses *)
(* none, overwrites none and brings none back that was removed.            *)
SettingsKept ==
    \A s \in Servers, c \in Cols : Effective(s, c) = wanted[s][c]

(* A master that serves finds every setting in server_configs, the only    *)
(* place buildServerStartPayload and getServer look.                       *)
ServesMigrated ==
    stage = "serve" =>
        \A s \in Servers, c \in Cols : config[s][c] = wanted[s][c]

(* Boot implements Settings: a master that serves goes by server_configs.  *)
Value == [s \in Servers |-> [c \in Cols |-> Effective(s, c)]]
Served == IF stage = "serve" THEN {config} ELSE {}

Plain == INSTANCE Settings WITH Keys <- Cols, value <- Value, served <- Served

(* To who sets and uses settings there is no migration: a start moves      *)
(* them, copy by copy and drop by drop (db.go 157-186), without a step     *)
(* that changes a value, wherever the process ends, and a master goes by   *)
(* all of them from the moment it serves.                                  *)
ImplementsSettings == Plain!Spec

(* Whatever earlier boots left half done, a boot none of whose statements  *)
(* for a game failed serves that game with what this release registers for *)
(* it: its definition and each of its modes but for their names, which     *)
(* stay as the release that first stored them has them (gamedefs.go 76-83, *)
(* 118), and its ports exactly, each once.  Of the modes of other releases *)
(* it says nothing: they stay as those left them, and are served.          *)
GamesAsRegistered ==
    stage = "serve" =>
        \A g \in GameSet \ failed :
            /\ def[g].rest = release
            /\ ports[g] = Ports[release][g]
            /\ \A j \in DOMAIN Modes[release][g] :
                modes[g][Modes[release][g][j]].rest = release

(* A start that was cut short anywhere never keeps the next from serving.  *)
RebootsServe == (stage # "serve") ~> (stage = "serve")
=============================================================================
