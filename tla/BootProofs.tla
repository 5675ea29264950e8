---------------------------- MODULE BootProofs ----------------------------
(***************************************************************************)
(* Proofs about the master's start, for any columns, settings, games and   *)
(* releases, and any number of ends of the process and of edits.           *)
(***************************************************************************)
EXTENDS Boot, TLAPS

Stages == {"down", "schema", "copy", "drop", "game", "def", "clear", "ports",
           "modes", "serve"}
Migrated == {"game", "def", "clear", "ports", "modes", "serve"}
InGame == {"def", "clear", "ports", "modes"}

(* What the moving of the settings needs of the types.                     *)
SettingsType ==
    /\ stage \in Stages /\ i \in Nat \ {0}
    /\ has \subseteq Cols
    /\ old \in [Servers -> [Cols -> Setting]]
    /\ config \in [Servers -> [Cols -> Setting]]
    /\ wanted \in [Servers -> [Cols -> Setting]]

(* Every value of the column is in server_configs, or something newer is.  *)
Copied(c) ==
    c \in has => \A s \in Servers : old[s][c] = NoValue \/ config[s][c] # NoValue

(* SettingsKept alone is not inductive: that Drop loses nothing rests on   *)
(* all columns having been copied in this very boot, and that an edit      *)
(* (which may remove a row) brings nothing back on their being gone.       *)
MoveInv ==
    /\ SettingsType
    /\ stage = "copy" => \A j \in DOMAIN Columns : j < i => Copied(Columns[j])
    /\ stage = "drop" => /\ \A c \in Cols : Copied(c)
                         /\ \A j \in DOMAIN Columns : j < i => Columns[j] \notin has
    /\ stage \in Migrated => has = {}
    /\ SettingsKept

LEMMA ColumnsFact ==
    /\ Len(Columns) \in Nat /\ DOMAIN Columns = 1 .. Len(Columns)
    /\ \A j \in DOMAIN Columns : Columns[j] \in Cols
    /\ \A c \in Cols : \E j \in DOMAIN Columns : c = Columns[j]
BY BootAssumption DEF Cols

LEMMA MoveInit == Init => MoveInv
<1> SUFFICES ASSUME Init PROVE MoveInv OBVIOUS
<1>1. SettingsType
  <2>1. \A s \in Servers, c \in Cols : Effective(s, c) \in Setting
    BY DEF Init, Effective, Setting
  <2> QED BY <2>1 DEF Init, SettingsType, Stages
<1>2. SettingsKept BY DEF Init, SettingsKept
<1> QED BY <1>1, <1>2 DEF Init, MoveInv, Migrated

(* A step that touches no setting keeps the invariant if it keeps or       *)
(* leaves the two loops.                                                   *)
LEMMA MoveAside ==
    ASSUME MoveInv, UNCHANGED settings,
           stage' \in Stages, i' \in Nat \ {0},
           \/ stage' \in {"down", "schema"}
           \/ stage' \in Migrated /\ stage \in Migrated
           \/ stage' = "copy" /\ i' = 1
    PROVE  MoveInv'
<1>1. SettingsType' BY DEF MoveInv, SettingsType, settings
<1>2. SettingsKept' BY DEF MoveInv, SettingsKept, Effective, settings
<1>3. stage' = "copy" => \A j \in DOMAIN Columns : j < i' => Copied(Columns[j])'
  BY ColumnsFact DEF Migrated
<1>4. stage' # "drop" BY DEF Migrated
<1>5. stage' \in Migrated => has' = {} BY DEF MoveInv, settings, Migrated
<1> QED BY <1>1, <1>2, <1>3, <1>4, <1>5 DEF MoveInv

LEMMA MoveCopy == MoveInv /\ Copy => MoveInv'
<1> SUFFICES ASSUME MoveInv, Copy PROVE MoveInv' OBVIOUS
<1> DEFINE k == Columns[i]
<1>1. /\ stage = "copy" /\ stage' = "copy" /\ i \in DOMAIN Columns /\ i' = i + 1
      /\ k \in Cols /\ i \in Nat \ {0}
  BY ColumnsFact DEF MoveInv, SettingsType, Copy, InLoop, List
<1>2. UNCHANGED <<has, old, wanted>> BY DEF Copy
<1>3. config' \in [Servers -> [Cols -> Setting]]
  <2>1. \A s \in Servers : Merged(s, k) \in [Cols -> Setting]
    BY <1>1 DEF Merged, Effective, MoveInv, SettingsType, Setting
  <2> QED BY <2>1 DEF Copy
<1>4. \A s \in Servers, c \in Cols :
        config'[s][c] = IF c = k THEN Effective(s, k) ELSE config[s][c]
  BY <1>1 DEF Copy, Merged, MoveInv, SettingsType
<1>5. \A s \in Servers, c \in Cols : Effective(s, c)' = Effective(s, c)
  BY <1>2, <1>4 DEF Effective
<1>6. SettingsType' BY <1>1, <1>2, <1>3 DEF MoveInv, SettingsType
<1>7. SettingsKept' BY <1>2, <1>5 DEF MoveInv, SettingsKept
<1>8. ASSUME NEW j \in DOMAIN Columns, j < i' PROVE Copied(Columns[j])'
  <2>1. CASE Columns[j] = k
    BY <2>1, <1>1, <1>2, <1>4 DEF Copied, Effective
  <2>2. CASE Columns[j] # k
    <3>1. j < i /\ Columns[j] \in Cols BY <2>2, <1>8, <1>1, ColumnsFact
    <3>2. Copied(Columns[j]) BY <3>1, <1>1 DEF MoveInv
    <3> QED BY <3>1, <3>2, <2>2, <1>2, <1>4 DEF Copied
  <2> QED BY <2>1, <2>2
<1> QED BY <1>1, <1>6, <1>7, <1>8 DEF MoveInv, Migrated

LEMMA MoveDrop == MoveInv /\ Drop => MoveInv'
<1> SUFFICES ASSUME MoveInv, Drop PROVE MoveInv' OBVIOUS
<1> DEFINE k == Columns[i]
<1>1. /\ stage = "drop" /\ stage' = "drop" /\ i \in DOMAIN Columns /\ i' = i + 1
      /\ k \in Cols /\ i \in Nat \ {0}
  BY ColumnsFact DEF MoveInv, SettingsType, Drop, InLoop, List
<1>2. has' = has \ {k} /\ UNCHANGED <<old, config, wanted>> BY DEF Drop
<1>3. \A c \in Cols : Copied(c) BY <1>1 DEF MoveInv
<1>4. \A c \in Cols : Copied(c)' BY <1>2, <1>3 DEF Copied
<1>5. \A s \in Servers, c \in Cols : Effective(s, c)' = Effective(s, c)
  BY <1>2, <1>3 DEF Effective, Copied
<1>6. SettingsType' BY <1>1, <1>2 DEF MoveInv, SettingsType
<1>7. SettingsKept' BY <1>2, <1>5 DEF MoveInv, SettingsKept
<1>8. \A j \in DOMAIN Columns : j < i' => Columns[j] \notin has'
  BY <1>1, <1>2, ColumnsFact DEF MoveInv
<1> QED BY <1>1, <1>4, <1>6, <1>7, <1>8 DEF MoveInv, Migrated

LEMMA MoveLoop == MoveInv /\ LoopOver => MoveInv'
<1> SUFFICES ASSUME MoveInv, LoopOver PROVE MoveInv' OBVIOUS
<1>1. i' = 1 /\ stage' = After[stage] /\ UNCHANGED settings
  BY DEF LoopOver, Goto
<1>2. CASE stage = "copy"
  <2>1. stage' = "drop" BY <1>1, <1>2 DEF After
  <2>2. i > Len(Columns) BY <1>2 DEF LoopOver, List
  <2>3. \A j \in DOMAIN Columns : j < i
    BY <2>2, ColumnsFact DEF MoveInv, SettingsType
  <2>4. \A c \in Cols : Copied(c)
    BY <1>2, <2>3, ColumnsFact DEF MoveInv
  <2>5. \A c \in Cols : Copied(c)' BY <1>1, <2>4 DEF Copied, settings
  <2>6. SettingsType'
    BY <1>1, <2>1 DEF MoveInv, SettingsType, settings, Stages
  <2>7. SettingsKept' BY <1>1 DEF MoveInv, SettingsKept, Effective, settings
  <2>8. \A j \in DOMAIN Columns : ~(j < i') BY <1>1, ColumnsFact
  <2> QED BY <2>1, <2>5, <2>6, <2>7, <2>8 DEF MoveInv, Migrated
<1>3. CASE stage = "drop"
  <2>1. stage' = "game" BY <1>1, <1>3 DEF After
  <2>2. i > Len(Columns) BY <1>3 DEF LoopOver, List
  <2>3. \A j \in DOMAIN Columns : j < i
    BY <2>2, ColumnsFact DEF MoveInv, SettingsType
  <2>4. \A c \in Cols : c \notin has
    BY <1>3, <2>3, ColumnsFact DEF MoveInv
  <2>5. has' = {} BY <1>1, <2>4 DEF MoveInv, SettingsType, settings
  <2>6. SettingsType'
    BY <1>1, <2>1 DEF MoveInv, SettingsType, settings, Stages
  <2>7. SettingsKept' BY <1>1 DEF MoveInv, SettingsKept, Effective, settings
  <2> QED BY <2>1, <2>5, <2>6, <2>7 DEF MoveInv, Migrated
<1>4. CASE stage \in {"ports", "modes"}
  <2>1. stage' \in {"modes", "game"} BY <1>1, <1>4 DEF After
  <2> QED BY <1>1, <1>4, <2>1, MoveAside DEF Stages, Migrated
<1> QED BY <1>2, <1>3, <1>4 DEF LoopOver

(* Settings are edited only once the old columns are gone.                 *)
LEMMA MoveEdit ==
    ASSUME MoveInv, NEW s \in Servers, NEW c \in Cols, NEW v \in Setting,
           Edit(s, c, v)
    PROVE  MoveInv'
<1>1. /\ stage = "serve" /\ stage' = stage /\ i' = i /\ has' = has /\ old' = old
      /\ has = {}
  BY DEF Edit, at, MoveInv, Migrated
<1>2. /\ config' \in [Servers -> [Cols -> Setting]]
      /\ wanted' \in [Servers -> [Cols -> Setting]]
  BY DEF Edit, MoveInv, SettingsType
<1>3. \A t \in Servers, d \in Cols : config[t][d] = wanted[t][d]
  BY <1>1 DEF MoveInv, SettingsKept, Effective
<1>4. \A t \in Servers, d \in Cols : config'[t][d] = wanted'[t][d]
  BY <1>3 DEF Edit, MoveInv, SettingsType
<1>5. SettingsKept' BY <1>1, <1>4 DEF SettingsKept, Effective
<1>6. SettingsType' BY <1>1, <1>2 DEF MoveInv, SettingsType
<1> QED BY <1>1, <1>5, <1>6 DEF MoveInv, Migrated

LEMMA MoveNext == MoveInv /\ [Next]_vars => MoveInv'
<1> SUFFICES ASSUME MoveInv, [Next]_vars PROVE MoveInv' OBVIOUS
<1> USE DEF Goto, InLoop, Stages, Migrated
<1>0. i \in Nat \ {0} /\ stage \in Stages BY DEF MoveInv, SettingsType
<1>1. CASE \E r \in Releases : Start(r)
  BY <1>1, <1>0, MoveAside DEF Start
<1>2. CASE CreateTables BY <1>2, <1>0, MoveAside DEF CreateTables
<1>3. CASE Copy BY <1>3, MoveCopy
<1>4. CASE Drop BY <1>4, MoveDrop
<1>5. CASE LoopOver BY <1>5, MoveLoop
<1>6. CASE NextGame BY <1>6, <1>0, MoveAside DEF NextGame
<1>7. CASE SeedDef BY <1>7, <1>0, MoveAside DEF SeedDef
<1>8. CASE ClearPorts BY <1>8, <1>0, MoveAside DEF ClearPorts
<1>9. CASE InsertPort BY <1>9, <1>0, MoveAside DEF InsertPort
<1>10. CASE UpsertMode BY <1>10, <1>0, MoveAside DEF UpsertMode
<1>11. CASE SeedFails BY <1>11, <1>0, MoveAside DEF SeedFails
<1>12. CASE End BY <1>12, <1>0, MoveAside DEF End
<1>13. CASE \E s \in Servers, c \in Cols, v \in Setting : Edit(s, c, v)
  BY <1>13, MoveEdit
<1>14. CASE UNCHANGED vars
  BY <1>14
    DEF vars, at, settings, MoveInv, SettingsType, SettingsKept, Effective,
               Copied
<1> QED
  BY <1>1, <1>2, <1>3, <1>4, <1>5, <1>6, <1>7, <1>8, <1>9, <1>10, <1>11, <1>12,
     <1>13, <1>14 DEF Next, Progress

LEMMA MoveAlways == Spec => []MoveInv
<1>1. MoveInv /\ [Next]_vars => MoveInv' BY MoveNext
<1> QED BY MoveInit, <1>1, PTL DEF Spec

(* No start, however it ends, and no number of them loses, overwrites or   *)
(* brings back a setting (db.go 157-186).                                  *)
THEOREM NoSettingLost == Spec => []SettingsKept
<1>1. MoveInv => SettingsKept BY DEF MoveInv
<1> QED BY <1>1, MoveAlways, PTL

(* A master that serves has every setting where its handlers look.         *)
THEOREM ServesOnlyMigrated == Spec => []ServesMigrated
<1>1. MoveInv => ServesMigrated
  BY DEF MoveInv, ServesMigrated, SettingsKept, Effective, Migrated
<1> QED BY <1>1, MoveAlways, PTL

-----------------------------------------------------------------------------
(* Boot implements Settings: every step but an edit leaves Value as it is, *)
(* since before and after it Value is what the user wanted.                *)

LEMMA ValueIsWanted == MoveInv => Value = wanted
<1> SUFFICES ASSUME MoveInv PROVE Value = wanted OBVIOUS
<1>1. wanted \in [Servers -> [Cols -> Setting]] BY DEF MoveInv, SettingsType
<1>2. \A s \in Servers : [c \in Cols |-> Effective(s, c)] = wanted[s]
  BY <1>1 DEF MoveInv, SettingsKept
<1> QED BY <1>1, <1>2 DEF Value

LEMMA ServedIsWanted == MoveInv /\ stage = "serve" => config = wanted
<1> SUFFICES ASSUME MoveInv, stage = "serve" PROVE config = wanted OBVIOUS
<1>1. /\ config \in [Servers -> [Cols -> Setting]]
      /\ wanted \in [Servers -> [Cols -> Setting]]
  BY DEF MoveInv, SettingsType
<1>2. has = {} /\ SettingsKept BY DEF MoveInv, Migrated
<1>3. ASSUME NEW s \in Servers PROVE config[s] = wanted[s]
  <2>1. /\ config[s] \in [Cols -> Setting] /\ wanted[s] \in [Cols -> Setting]
        /\ \A c \in Cols : config[s][c] = wanted[s][c]
    BY <1>1, <1>2 DEF SettingsKept, Effective
  <2> QED BY <2>1
<1> QED BY <1>1, <1>3

LEMMA WantedNext ==
    MoveInv' => (Value = wanted)' /\ (stage = "serve" => config = wanted)'
<1>1. MoveInv => Value = wanted BY ValueIsWanted
<1>2. MoveInv => (stage = "serve" => config = wanted) BY ServedIsWanted
<1> QED BY <1>1, <1>2, PTL

(* What a step that is no edit does to the stage.                          *)
LEMMA StageStep ==
    MoveInv /\ (Progress \/ SeedFails \/ End) =>
        /\ UNCHANGED wanted
        /\ stage = "serve" => stage' = "down"
<1> SUFFICES ASSUME MoveInv, Progress \/ SeedFails \/ End
             PROVE  UNCHANGED wanted /\ (stage = "serve" => stage' = "down")
  OBVIOUS
<1> USE DEF settings, InLoop, Goto
<1>1. CASE \E r \in Releases : Start(r) BY <1>1 DEF Start
<1>2. CASE CreateTables \/ LoopOver \/ NextGame
  BY <1>2 DEF CreateTables, LoopOver, NextGame
<1>3. CASE Copy \/ Drop BY <1>3 DEF Copy, Drop
<1>4. CASE SeedDef \/ ClearPorts \/ InsertPort \/ UpsertMode
  BY <1>4 DEF SeedDef, ClearPorts, InsertPort, UpsertMode
<1>5. CASE SeedFails \/ End BY <1>5 DEF SeedFails, End
<1> QED BY <1>1, <1>2, <1>3, <1>4, <1>5 DEF Progress

LEMMA SettingsStep ==
    MoveInv /\ [Next]_vars => [Plain!Next]_(Plain!settingVars)
<1> SUFFICES ASSUME MoveInv, [Next]_vars PROVE [Plain!Next]_(Plain!settingVars)
  OBVIOUS
<1>1. MoveInv' BY MoveNext
<1>2. Value = wanted /\ Value' = wanted' BY <1>1, ValueIsWanted, WantedNext
<1>3. /\ stage = "serve" => Served = {Value}
      /\ stage' = "serve" => Served' = {Value'}
      /\ stage # "serve" => Served = {}
      /\ stage' # "serve" => Served' = {}
  BY <1>1, <1>2, ServedIsWanted, WantedNext DEF Served
<1>4. CASE Progress \/ SeedFails \/ End
  <2>1. Value' = Value BY <1>2, <1>4, StageStep
  <2>2. stage = "serve" => stage' = "down" BY <1>4, StageStep
  <2>3. CASE stage = "serve"
    <3>1. Plain!Down BY <1>3, <2>1, <2>2, <2>3 DEF Plain!Down
    <3> QED BY <3>1 DEF Plain!Next
  <2>4. CASE stage # "serve" /\ stage' = "serve"
    <3>1. Plain!Up BY <1>3, <2>1, <2>4 DEF Plain!Up
    <3> QED BY <3>1 DEF Plain!Next
  <2>5. CASE stage # "serve" /\ stage' # "serve"
    BY <1>3, <2>1, <2>5 DEF Plain!settingVars
  <2> QED BY <2>3, <2>4, <2>5
<1>5. ASSUME NEW s \in Servers, NEW c \in Cols, NEW v \in Setting, Edit(s, c, v)
      PROVE  Plain!Next
  <2>1. /\ stage = "serve" /\ stage' = "serve"
        /\ wanted' = [wanted EXCEPT ![s][c] = v]
    BY <1>5 DEF Edit, at
  <2>2. Plain!Change(s, c, v) BY <1>2, <1>3, <2>1 DEF Plain!Change
  <2> QED BY <2>2 DEF Plain!Next
<1>6. CASE UNCHANGED vars
  <2>1. stage' = stage /\ wanted' = wanted BY <1>6 DEF vars, at, settings
  <2> QED BY <1>2, <1>3, <2>1 DEF Plain!settingVars
<1> QED BY <1>4, <1>5, <1>6 DEF Next

(* To who sets and uses settings there is no migration: no start changes a *)
(* value, and a master that serves goes by all of them (db.go 157-186).    *)
THEOREM BootImplementsSettings == Spec => ImplementsSettings
<1>1. Init => Plain!Init
  <2> SUFFICES ASSUME Init PROVE Plain!Init OBVIOUS
  <2>1. Value = wanted BY MoveInit, ValueIsWanted
  <2>2. wanted \in [Servers -> [Cols -> Setting]]
    BY MoveInit DEF MoveInv, SettingsType
  <2>3. Served = {} BY DEF Init, Served
  <2> QED BY <2>1, <2>2, <2>3 DEF Plain!Init
<1>2. MoveInv /\ [Next]_vars => [Plain!Next]_(Plain!settingVars) BY SettingsStep
<1> QED BY <1>1, <1>2, MoveAlways, PTL DEF Spec, ImplementsSettings, Plain!Spec

-----------------------------------------------------------------------------
(* Types                                                                   *)

LEMMA GamesFact ==
    /\ Len(Games) \in Nat /\ DOMAIN Games = 1 .. Len(Games)
    /\ \A k \in DOMAIN Games : Games[k] \in GameSet
BY BootAssumption DEF GameSet

(* An upsert leaves a row.                                                 *)
LEMMA StoredFact ==
    /\ NoRow \in Stored
    /\ \A was \in Stored, r \in Releases : Upserted(was, r) \in Stored
BY DEF NoRow, Stored, Upserted

LEMMA TypeNext == SettingsType' /\ TypeOK /\ [Next]_vars => TypeOK'
<1> SUFFICES ASSUME SettingsType', TypeOK, [Next]_vars PROVE TypeOK' OBVIOUS
<1> USE DEF TypeOK, SettingsType, Stages, Goto, InLoop
<1>1. CASE \E r \in Releases : Start(r)
  BY <1>1 DEF Start
<1>2. CASE CreateTables BY <1>2 DEF CreateTables, gameRows
<1>3. CASE Copy BY <1>3 DEF Copy, gameRows
<1>4. CASE Drop BY <1>4 DEF Drop, gameRows
<1>5. CASE LoopOver
  <2>1. stage \in {"ports", "modes"} \/ stage' \in {"drop", "game"}
    BY <1>5 DEF LoopOver, After
  <2> QED BY <1>5, <2>1 DEF LoopOver, gameRows
<1>6. CASE NextGame BY <1>6, GamesFact DEF NextGame, gameRows
<1>7. CASE SeedDef
  <2>1. def' = [def EXCEPT ![G] = Upserted(def[G], release)] /\ G \in GameSet
    BY <1>7, GamesFact DEF SeedDef, G
  <2>2. Upserted(def[G], release) \in Stored BY <2>1, StoredFact
  <2>3. def' \in [GameSet -> Stored] BY <2>1, <2>2
  <2> QED BY <1>7, <2>3 DEF SeedDef
<1>8. CASE ClearPorts BY <1>8 DEF ClearPorts
<1>9. CASE InsertPort BY <1>9 DEF InsertPort
<1>10. CASE UpsertMode
  <2>1. modes' = [modes EXCEPT ![G][List[i]] = Upserted(modes[G][List[i]], release)]
    BY <1>10 DEF UpsertMode
  <2>2. \A g \in GameSet, m \in Slugs : Upserted(modes[g][m], release) \in Stored
    BY StoredFact
  <2>3. modes' \in [GameSet -> [Slugs -> Stored]] BY <2>1, <2>2
  <2> QED BY <1>10, <2>3 DEF UpsertMode
<1>11. CASE SeedFails BY <1>11, GamesFact DEF SeedFails, G
<1>12. CASE End BY <1>12 DEF End, gameRows
<1>13. CASE \E s \in Servers, c \in Cols, v \in Setting : Edit(s, c, v)
  BY <1>13 DEF Edit, at, gameRows
<1>14. CASE UNCHANGED vars BY <1>14 DEF vars, at, settings, gameRows
<1> QED
  BY <1>1, <1>2, <1>3, <1>4, <1>5, <1>6, <1>7, <1>8, <1>9, <1>10, <1>11, <1>12,
     <1>13, <1>14 DEF Next, Progress

(* Every variable keeps to its values, and while a game is seeded the loop *)
(* is at one of registeredGames.                                           *)
THEOREM TypeCorrect == Spec => []TypeOK
<1>1. Init => TypeOK
  BY MoveInit, StoredFact DEF Init, TypeOK, MoveInv, SettingsType
<1>2. MoveInv' => SettingsType' BY DEF MoveInv
<1> QED BY <1>1, <1>2, TypeNext, MoveAlways, PTL DEF Spec

-----------------------------------------------------------------------------
(* The games                                                               *)

(* g is stored as the running release registers it.                        *)
Seeded(g) ==
    /\ def[g].rest = release
    /\ ports[g] = Ports[release][g]
    /\ \A j \in DOMAIN Modes[release][g] : modes[g][Modes[release][g][j]].rest = release

(* How far the current game has come: what the statements before this one  *)
(* have done, unless one of them failed.                                   *)
InHand ==
    G \notin failed =>
        /\ stage \in {"clear", "ports", "modes"} => def[G].rest = release
        /\ stage = "ports" =>
            /\ i <= Len(Ports[release][G]) + 1
            /\ ports[G] = SubSeq(Ports[release][G], 1, i - 1)
        /\ stage = "modes" =>
            /\ ports[G] = Ports[release][G]
            /\ \A j \in DOMAIN Modes[release][G] :
                j < i => modes[G][Modes[release][G][j]].rest = release

(* The games before the current one are done; one that is listed twice is  *)
(* open again while its second turn lasts.                                 *)
SeedInv ==
    /\ stage \in {"schema", "copy", "drop"} => game = 0
    /\ stage \in InGame =>
        /\ \A j \in DOMAIN Games :
            j < game /\ Games[j] # G /\ Games[j] \notin failed => Seeded(Games[j])
        /\ InHand
    /\ stage = "game" =>
        \A j \in DOMAIN Games :
            j <= game /\ Games[j] \notin failed => Seeded(Games[j])
    /\ GamesAsRegistered

LEMMA PortsFact ==
    ASSUME NEW r \in Releases, NEW g \in GameSet
    PROVE  /\ Len(Ports[r][g]) \in Nat /\ DOMAIN Ports[r][g] = 1 .. Len(Ports[r][g])
           /\ Ports[r][g] \in Seq({Ports[r][g][j] : j \in DOMAIN Ports[r][g]})
<1> DEFINE P == Ports[r][g]
           S == {P[j] : j \in DOMAIN P}
<1>1. P \in Seq(S) BY BootAssumption
<1>2. Len(P) \in Nat /\ DOMAIN P = 1 .. Len(P)
  <2> HIDE DEF P, S
  <2> QED BY <1>1
<1> QED BY <1>1, <1>2

LEMMA ModesFact ==
    ASSUME NEW r \in Releases, NEW g \in GameSet
    PROVE  /\ Len(Modes[r][g]) \in Nat /\ DOMAIN Modes[r][g] = 1 .. Len(Modes[r][g])
           /\ \A j \in DOMAIN Modes[r][g] : Modes[r][g][j] \in Slugs
<1> DEFINE M == Modes[r][g]
<1>1. M \in Seq(Slugs) BY BootAssumption
<1>2. Len(M) \in Nat /\ DOMAIN M = 1 .. Len(M) /\ \A j \in DOMAIN M : M[j] \in Slugs
  <2> HIDE DEF M
  <2> QED BY <1>1
<1> QED BY <1>2

(* A list taken one element at a time.                                     *)
LEMMA SubSeqGrows ==
    ASSUME NEW S, NEW s \in Seq(S), NEW k \in 1 .. Len(s)
    PROVE  Append(SubSeq(s, 1, k - 1), s[k]) = SubSeq(s, 1, k)
OBVIOUS

LEMMA SubSeqEnds ==
    ASSUME NEW S, NEW s \in Seq(S)
    PROVE  SubSeq(s, 1, 0) = <<>> /\ SubSeq(s, 1, Len(s)) = s
OBVIOUS

(* A step of the current game's turn changes that game's rows only.        *)
LEMMA TurnGoesOn ==
    ASSUME TypeOK, SeedInv, stage \in InGame, stage' \in InGame, InHand',
           game' = game, release' = release, failed \subseteq failed',
           \A g \in GameSet : g # G =>
               def'[g] = def[g] /\ ports'[g] = ports[g] /\ modes'[g] = modes[g]
    PROVE  SeedInv'
<1>1. G' = G BY DEF G
<1>2. ASSUME NEW j \in DOMAIN Games, j < game', Games[j] # G', Games[j] \notin failed'
      PROVE  Seeded(Games[j])'
  <2>1. Seeded(Games[j]) BY <1>1, <1>2 DEF SeedInv
  <2> QED BY <1>1, <1>2, <2>1, GamesFact DEF Seeded
<1>3. stage' \notin {"schema", "copy", "drop", "game", "serve"} BY DEF InGame
<1> QED BY <1>2, <1>3 DEF SeedInv, GamesAsRegistered

(* The turn ends: the current game is done, or has failed.                 *)
LEMMA TurnEnds ==
    ASSUME TypeOK, SeedInv, stage \in InGame, stage' = "game",
           game' = game, release' = release, failed \subseteq failed',
           UNCHANGED <<def, ports, modes>>,
           G \in failed' \/ Seeded(G)
    PROVE  SeedInv'
<1>1. ASSUME NEW j \in DOMAIN Games, j <= game, Games[j] \notin failed'
      PROVE  Seeded(Games[j])'
  <2>1. Seeded(Games[j])
    <3>1. CASE Games[j] = G BY <1>1, <3>1
    <3>2. CASE Games[j] # G
      <4>1. j < game BY <1>1, <3>2, GamesFact DEF G, TypeOK
      <4> QED BY <1>1, <3>2, <4>1 DEF SeedInv
    <3> QED BY <3>1, <3>2
  <2> QED BY <2>1 DEF Seeded
<1> QED BY <1>1 DEF SeedInv, GamesAsRegistered, InGame

LEMMA SeedNext == TypeOK /\ SeedInv /\ [Next]_vars => SeedInv'
<1> SUFFICES ASSUME TypeOK, SeedInv, [Next]_vars PROVE SeedInv' OBVIOUS
<1> USE DEF InGame
<1>0. /\ game \in Nat /\ i \in Nat \ {0} /\ release \in Releases
      /\ stage \in InGame => game \in DOMAIN Games /\ G \in GameSet
  BY GamesFact DEF TypeOK, G
<1>1. CASE \E r \in Releases : Start(r)
  BY <1>1 DEF Start, SeedInv, GamesAsRegistered
<1>2. CASE CreateTables
  BY <1>2 DEF CreateTables, Goto, SeedInv, GamesAsRegistered
<1>3. CASE Copy
  BY <1>3 DEF Copy, InLoop, SeedInv, GamesAsRegistered
<1>4. CASE Drop
  BY <1>4 DEF Drop, InLoop, SeedInv, GamesAsRegistered
<1>5. CASE LoopOver
  <2>1. /\ stage \in {"copy", "drop", "ports", "modes"} /\ i > Len(List)
        /\ stage' = After[stage] /\ i' = 1 /\ UNCHANGED gameRows
        /\ game' = game /\ release' = release
    BY <1>5 DEF LoopOver, Goto
  <2>2. CASE stage = "copy"
    BY <2>1, <2>2 DEF After, SeedInv, GamesAsRegistered
  <2>3. CASE stage = "drop"
    <3>1. game' = 0 /\ stage' = "game" BY <2>1, <2>3 DEF After, SeedInv
    <3> QED BY <3>1, GamesFact DEF SeedInv, GamesAsRegistered
  <2>4. CASE stage = "ports"
    <3>1. stage' = "modes" BY <2>1, <2>4 DEF After
    <3>2. i > Len(Ports[release][G]) BY <2>1, <2>4 DEF List
    <3>3. G \notin failed => ports[G] = Ports[release][G]
      <4> SUFFICES ASSUME G \notin failed PROVE ports[G] = Ports[release][G]
        OBVIOUS
      <4>1. /\ i <= Len(Ports[release][G]) + 1
            /\ ports[G] = SubSeq(Ports[release][G], 1, i - 1)
        BY <2>4 DEF SeedInv, InHand
      <4>2. i - 1 = Len(Ports[release][G])
        BY <1>0, <2>4, <3>2, <4>1, PortsFact
      <4> QED BY <1>0, <2>4, <4>1, <4>2, PortsFact, SubSeqEnds
    <3>4. G' = G BY <2>1 DEF G
    <3>5. \A j \in DOMAIN Modes[release][G] : ~(j < i')
      BY <1>0, <2>1, <2>4, ModesFact
    <3>6. G \notin failed => def[G].rest = release BY <2>4 DEF SeedInv, InHand
    <3>7. InHand'
      BY <2>1, <3>1, <3>3, <3>4, <3>5, <3>6 DEF InHand, gameRows
    <3> QED BY <2>1, <2>4, <3>1, <3>7, TurnGoesOn DEF gameRows
  <2>5. CASE stage = "modes"
    <3>1. stage' = "game" BY <2>1, <2>5 DEF After
    <3>2. i > Len(Modes[release][G]) BY <2>1, <2>5 DEF List
    <3>3. G \in failed \/ Seeded(G)
      BY <1>0, <2>5, <3>2, ModesFact DEF SeedInv, InHand, Seeded
    <3> QED BY <2>1, <2>5, <3>1, <3>3, TurnEnds DEF gameRows
  <2> QED BY <2>1, <2>2, <2>3, <2>4, <2>5
<1>6. CASE NextGame
  <2>1. /\ stage = "game" /\ game' = game + 1 /\ release' = release
        /\ stage' = IF game < Len(Games) THEN "def" ELSE "serve"
        /\ UNCHANGED gameRows
    BY <1>6 DEF NextGame
  <2>2. ASSUME NEW j \in DOMAIN Games, j <= game, Games[j] \notin failed'
        PROVE  Seeded(Games[j])'
    <3>1. Seeded(Games[j]) BY <2>1, <2>2 DEF SeedInv, gameRows
    <3> QED BY <2>1, <3>1 DEF Seeded, gameRows
  <2>3. CASE game < Len(Games)
    <3>1. stage' = "def" BY <2>1, <2>3
    <3>2. InHand' BY <3>1 DEF InHand
    <3> QED BY <1>0, <2>1, <2>2, <3>1, <3>2, GamesFact DEF SeedInv, GamesAsRegistered
  <2>4. CASE ~(game < Len(Games))
    <3>1. stage' = "serve" BY <2>1, <2>4
    <3>2. ASSUME NEW g \in GameSet \ failed' PROVE Seeded(g)'
      <4>1. PICK j \in DOMAIN Games : g = Games[j] BY DEF GameSet
      <4>2. j <= game BY <1>0, <2>4, GamesFact
      <4> QED BY <2>2, <4>1, <4>2
    <3> QED BY <3>1, <3>2 DEF SeedInv, GamesAsRegistered, Seeded
  <2> QED BY <2>3, <2>4
<1>7. CASE SeedDef
  <2>1. /\ stage = "def" /\ stage' = "clear" /\ def' = [def EXCEPT ![G] = Upserted(@, release)]
        /\ game' = game /\ release' = release /\ UNCHANGED <<ports, modes, failed>>
    BY <1>7 DEF SeedDef, Goto
  <2>2. G' = G BY <2>1 DEF G
  <2>3. def'[G].rest = release BY <1>0, <2>1 DEF TypeOK, Upserted
  <2>4. InHand' BY <2>1, <2>2, <2>3 DEF InHand
  <2> QED BY <1>0, <2>1, <2>4, TurnGoesOn DEF TypeOK
<1>8. CASE ClearPorts
  <2>1. /\ stage = "clear" /\ stage' = "ports" /\ ports' = [ports EXCEPT ![G] = <<>>]
        /\ i' = 1 /\ game' = game /\ release' = release
        /\ UNCHANGED <<def, modes, failed>>
    BY <1>8 DEF ClearPorts, Goto
  <2>2. G' = G BY <2>1 DEF G
  <2>3. ports'[G] = SubSeq(Ports[release][G], 1, 0)
    BY <1>0, <2>1, PortsFact, SubSeqEnds DEF TypeOK
  <2>4. 1 <= Len(Ports[release][G]) + 1 /\ 1 - 1 = 0
    BY <1>0, <2>1, PortsFact
  <2>5. InHand' BY <2>1, <2>2, <2>3, <2>4 DEF SeedInv, InHand
  <2> QED BY <1>0, <2>1, <2>5, TurnGoesOn DEF TypeOK
<1>9. CASE InsertPort
  <2>1. /\ stage = "ports" /\ stage' = stage /\ i <= Len(Ports[release][G])
        /\ ports' = [ports EXCEPT ![G] = Append(ports[G], Ports[release][G][i])]
        /\ i' = i + 1 /\ game' = game /\ release' = release
        /\ UNCHANGED <<def, modes, failed>>
    BY <1>9 DEF InsertPort, InLoop, List
  <2>2. G' = G BY <2>1 DEF G
  <2>3. G \notin failed => ports'[G] = SubSeq(Ports[release][G], 1, i)
    <3> SUFFICES ASSUME G \notin failed
                 PROVE  ports'[G] = SubSeq(Ports[release][G], 1, i)
      OBVIOUS
    <3>1. ports[G] = SubSeq(Ports[release][G], 1, i - 1)
      BY <2>1 DEF SeedInv, InHand
    <3>2. ports'[G] = Append(ports[G], Ports[release][G][i])
      BY <1>0, <2>1 DEF TypeOK
    <3>3. i \in 1 .. Len(Ports[release][G]) BY <1>0, <2>1, PortsFact
    <3> QED BY <1>0, <2>1, <3>1, <3>2, <3>3, PortsFact, SubSeqGrows
  <2>4. i' <= Len(Ports[release][G]) + 1 /\ i' - 1 = i
    BY <1>0, <2>1, PortsFact
  <2>5. InHand' BY <2>1, <2>2, <2>3, <2>4 DEF SeedInv, InHand
  <2> QED BY <1>0, <2>1, <2>5, TurnGoesOn DEF TypeOK
<1>10. CASE UpsertMode
  <2>1. /\ stage = "modes" /\ stage' = stage /\ i <= Len(Modes[release][G])
        /\ modes' = [modes EXCEPT ![G][Modes[release][G][i]] =
                                   Upserted(@, release)]
        /\ i' = i + 1 /\ game' = game /\ release' = release
        /\ UNCHANGED <<def, ports, failed>>
    BY <1>10 DEF UpsertMode, InLoop, List
  <2>2. G' = G BY <2>1 DEF G
  <2>3. i \in DOMAIN Modes[release][G] /\ Modes[release][G][i] \in Slugs
    BY <1>0, <2>1, ModesFact
  <2>4. ASSUME NEW j \in DOMAIN Modes[release][G], j < i', G \notin failed
        PROVE  modes'[G][Modes[release][G][j]].rest = release
    <3>1. Modes[release][G][j] \in Slugs BY <1>0, <2>1, ModesFact
    <3>2. modes'[G] = [modes[G] EXCEPT ![Modes[release][G][i]] = Upserted(@, release)]
      BY <1>0, <2>1 DEF TypeOK
    <3>3. modes[G] \in [Slugs -> Stored]
      BY <1>0, <2>1 DEF TypeOK
    <3>4. j = i \/ j < i BY <1>0, <2>1, <2>4, ModesFact
    <3>5. j < i => modes[G][Modes[release][G][j]].rest = release
      BY <2>1, <2>4 DEF SeedInv, InHand
    <3> QED BY <2>3, <3>1, <3>2, <3>3, <3>4, <3>5 DEF Upserted
  <2>5. InHand' BY <2>1, <2>2, <2>4 DEF SeedInv, InHand
  <2> QED BY <1>0, <2>1, <2>5, TurnGoesOn DEF TypeOK
<1>11. CASE SeedFails
  <2>1. /\ failed' = failed \cup {G} /\ game' = game /\ release' = release
        /\ UNCHANGED <<def, ports, modes>>
    BY <1>11 DEF SeedFails, Goto, InLoop
  <2>2. \/ stage = "def" /\ stage' = "game"
        \/ stage \in {"clear", "ports", "modes"} /\ stage' \in InGame
    BY <1>11 DEF SeedFails, Goto, InLoop
  <2>3. InHand' BY <2>1 DEF InHand, G
  <2> QED BY <2>1, <2>2, <2>3, TurnGoesOn, TurnEnds
<1>12. CASE End
  BY <1>12 DEF End, SeedInv, GamesAsRegistered
<1>13. CASE \E s \in Servers, c \in Cols, v \in Setting : Edit(s, c, v)
  BY <1>13 DEF Edit, at, gameRows, SeedInv, GamesAsRegistered
<1>14. CASE UNCHANGED vars
  BY <1>14
    DEF vars, at, gameRows, SeedInv, GamesAsRegistered, InHand, Seeded, G
<1> QED
  BY <1>1, <1>2, <1>3, <1>4, <1>5, <1>6, <1>7, <1>8, <1>9, <1>10, <1>11, <1>12,
     <1>13, <1>14 DEF Next, Progress

(* A boot none of whose statements for a game failed serves that game with *)
(* the definition and the modes this release registers, but for names that *)
(* an older release stored, and with exactly its ports, whatever earlier   *)
(* boots of this or another release left half done (gamedefs.go,           *)
(* seedGames).                                                             *)
THEOREM SeedsAsRegistered == Spec => []GamesAsRegistered
<1>1. Init => SeedInv BY DEF Init, SeedInv, GamesAsRegistered, InGame
<1>2. SeedInv => GamesAsRegistered BY DEF SeedInv
<1> QED BY <1>1, <1>2, SeedNext, TypeCorrect, PTL DEF Spec

-----------------------------------------------------------------------------
(* A start goes forward                                                    *)

Order == [down |-> 0, schema |-> 1, copy |-> 2, drop |-> 3, game |-> 4,
          def |-> 5, clear |-> 6, ports |-> 7, modes |-> 8, serve |-> 9]

(* The game the start is at: the head of the loop belongs to the next one. *)
Round == IF stage = "game" THEN game + 1 ELSE game

(* The next place is a later one: a later game, or a later statement.      *)
Later ==
    \/ Round' > Round
    \/ Round' = Round /\ Order[stage'] > Order[stage]
    \/ Round' = Round /\ stage' = stage /\ i' = i + 1

(* Where a start can be: neither list is ever overrun.                     *)
Place ==
    /\ stage # "down" => i <= Len(List) + 1
    /\ stage \in {"schema", "copy", "drop"} => game = 0
    /\ stage = "game" => game <= Len(Games)
    /\ stage = "serve" => game = Len(Games) + 1

LEMMA ListFact == TypeOK => Len(List) \in Nat
<1> SUFFICES ASSUME TypeOK PROVE Len(List) \in Nat OBVIOUS
<1>1. CASE stage \in {"copy", "drop"} BY <1>1, ColumnsFact DEF List
<1>2. CASE stage = "ports"
  <2>1. Len(Ports[release][G]) \in Nat BY <1>2, GamesFact, PortsFact DEF TypeOK, G
  <2> QED BY <1>2, <2>1 DEF List
<1>3. CASE stage = "modes"
  <2>1. Len(Modes[release][G]) \in Nat BY <1>3, GamesFact, ModesFact DEF TypeOK, G
  <2> QED BY <1>3, <2>1 DEF List
<1>4. CASE stage \notin {"copy", "drop", "ports", "modes"} BY <1>4 DEF List
<1> QED BY <1>1, <1>2, <1>3, <1>4

LEMMA ListFactNext == TypeOK' => (Len(List) \in Nat)'
BY ListFact, PTL

LEMMA ForwardStep ==
    ASSUME TypeOK, Place, [Next]_vars, stage \notin {"down", "serve"}, stage' # "down"
    PROVE  UNCHANGED at \/ Later
<1> USE DEF Later, Round, Order, TypeOK, Goto, InLoop
<1>1. CASE CreateTables BY <1>1 DEF CreateTables
<1>2. CASE Copy \/ Drop BY <1>2 DEF Copy, Drop
<1>3. CASE LoopOver
  <2>1. game' = game /\ game \in Nat BY <1>3 DEF LoopOver
  <2>2. stage \in {"copy", "ports"} => Order[stage'] > Order[stage] /\ Round' = Round
    BY <1>3, <2>1 DEF LoopOver, After
  <2>3. stage \in {"drop", "modes"} => Round' > Round
    BY <1>3, <2>1 DEF LoopOver, After
  <2> QED BY <1>3, <2>2, <2>3 DEF LoopOver
<1>4. CASE NextGame BY <1>4 DEF NextGame
<1>5. CASE SeedDef \/ ClearPorts BY <1>5 DEF SeedDef, ClearPorts
<1>6. CASE InsertPort \/ UpsertMode BY <1>6 DEF InsertPort, UpsertMode
<1>7. CASE SeedFails BY <1>7 DEF SeedFails
<1>8. CASE UNCHANGED at BY <1>8
<1> QED
  BY <1>1, <1>2, <1>3, <1>4, <1>5, <1>6, <1>7, <1>8
  DEF Next, Progress, Start, End, Edit, vars

LEMMA PlaceStep == TypeOK /\ TypeOK' /\ Place /\ [Next]_vars => Place'
<1> SUFFICES ASSUME TypeOK, TypeOK', Place, [Next]_vars PROVE Place' OBVIOUS
<1>1. Len(List) \in Nat /\ Len(List)' \in Nat /\ Len(Games) \in Nat /\ game \in Nat
  <2>1. Len(List) \in Nat BY ListFact
  <2>2. (Len(List) \in Nat)' BY ListFactNext
  <2> QED BY <2>1, <2>2, GamesFact DEF TypeOK
<1>2. ASSUME i' = 1, \/ stage' \in {"down", "schema", "copy", "drop"} /\ game' = 0
                     \/ stage' = "game" /\ game' <= Len(Games)
                     \/ stage' \in InGame
                     \/ stage' = "serve" /\ game' = Len(Games) + 1
      PROVE  Place'
  BY <1>1, <1>2 DEF Place, InGame
<1>3. stage \in InGame => game <= Len(Games) BY GamesFact DEF TypeOK, InGame
<1>4. CASE \E r \in Releases : Start(r) BY <1>2, <1>4 DEF Start
<1>5. CASE CreateTables BY <1>2, <1>5 DEF CreateTables, Goto, Place
<1>6. CASE LoopOver
  <2>1. stage' = After[stage] /\ i' = 1 /\ game' = game
    BY <1>6 DEF LoopOver, Goto
  <2> QED BY <1>1, <1>2, <1>3, <1>6, <2>1 DEF LoopOver, After, InGame, Place
<1>7. CASE NextGame
  <2>1. game' = game + 1 /\ i' = 1 /\ game <= Len(Games) BY <1>7 DEF NextGame, Place
  <2> QED BY <1>1, <1>2, <1>7, <2>1 DEF NextGame, InGame
<1>8. CASE SeedDef \/ ClearPorts
  BY <1>2, <1>8 DEF SeedDef, ClearPorts, Goto, InGame
<1>9. ASSUME NEW st, InLoop(st), st # "down" PROVE Place'
  <2>1. List' = List BY <1>9 DEF InLoop, List, G
  <2>2. i <= Len(List) /\ i' = i + 1 /\ UNCHANGED <<stage, game>> /\ i \in Nat
    BY <1>9 DEF InLoop, TypeOK
  <2> QED BY <1>1, <2>1, <2>2 DEF Place
<1>10. CASE Copy \/ Drop \/ InsertPort \/ UpsertMode
  BY <1>9, <1>10 DEF Copy, Drop, InsertPort, UpsertMode
<1>11. CASE SeedFails
  BY <1>2, <1>3, <1>9, <1>11 DEF SeedFails, Goto, InGame
<1>12. CASE End BY <1>12 DEF End, Place
<1>13. CASE UNCHANGED at BY <1>13 DEF at, Place, List, G
<1> QED
  BY <1>4, <1>5, <1>6, <1>7, <1>8, <1>10, <1>11, <1>12, <1>13
  DEF Next, Progress, Edit, vars

(* Why a start that nothing ends comes to serve: every step of it but the  *)
(* end of the process, a failing seed statement too, leads to a later      *)
(* place (a later game, stage or statement: db.go 189-198, gamedefs.go     *)
(* 50-122), and there are finitely many places.                            *)
THEOREM StartGoesForward ==
    Spec => /\ [][stage' = "down" \/ stage \in {"down", "serve"} \/ Later]_at
            /\ []Place
<1>1. Init => Place BY DEF Init, Place
<1>2. TypeOK /\ Place /\ [Next]_vars =>
        [stage' = "down" \/ stage \in {"down", "serve"} \/ Later]_at
  BY ForwardStep
<1> QED BY <1>1, <1>2, PlaceStep, TypeCorrect, PTL DEF Spec
=============================================================================
