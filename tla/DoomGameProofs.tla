--------------------------- MODULE DoomGameProofs ---------------------------
(* The theorems about the course of the game (DoomFlow) and about a player of *)
(* it (DoomPlayer). What outlives a menu or a game fits the one that is on,   *)
(* and nothing takes a game away from who plays it, for all lengths of pages, *)
(* demos and figures and for any number of levels and keys. What a player has *)
(* is counted once and within its bounds, for all figures and kits.           *)
EXTENDS DoomFlow, DoomPlayer, SequenceTheorems, TLAPS

(* ----------------------------------------------------------------------- *)
(* The invariant                                                            *)
(* ----------------------------------------------------------------------- *)

GameFields == DOMAIN Off
MenuFields ==
  {"active", "menu", "message", "last", "typing", "written", "old", "loadable", "quick"}

\* A record with these fields, whatever is in them.
IsRecord(r, fields) == r = [f \in fields |-> r[f]]

States == {"level", "intermission", "finale", "demoscreen"}
Actions == {"loadlevel", "newgame", "loadgame", "savegame", "playdemo", "completed", "victory", "worlddone", "nothing"}
Menus == {"Main", "Episode", "New", "Options", "Sound", "Load", "Save", "Read1", "Read2"}

PaceFits(g) == g.mixed \/ g.halted \/ g.pace = IF g.skill = "nightmare" THEN 1 ELSE 0

\* The scene and what is to be done are among those the tic knows.
Game(g) ==
  /\ IsRecord(g, GameFields)
  /\ g.mixed \in BOOLEAN /\ g.halted \in BOOLEAN
  /\ g.state \in States /\ g.action \in Actions
  /\ PaceFits(g)

\* The menu is one of those there are, and what waits for keys is on the screen.
Menu(m) ==
  /\ IsRecord(m, MenuFields)
  /\ {m.active, m.typing, m.last} \subseteq BOOLEAN
  /\ m.menu \in Menus
  /\ m.typing => m.active /\ m.menu = "Save" /\ m.message = "none"
  /\ m.message # "none" => m.active

IInv == Game(game) /\ Menu(menu)

Whole(w) == IsRecord(w, {"g", "m"}) /\ Game(w.g) /\ Menu(w.m)

\* No name is being typed and no message waits.
Settled(w) == Whole(w) /\ ~w.m.typing /\ w.m.message = "none"

(* ----------------------------------------------------------------------- *)
(* Levels and games                                                         *)
(* ----------------------------------------------------------------------- *)

\* A level is loaded without a change of skill.
LEMMA LoadLevel == ASSUME NEW g, Game(g) PROVE Game(G_DoLoadLevel(g))
  BY ZenonT(40) DEF G_DoLoadLevel, Game, IsRecord, GameFields, Off, PaceFits, States, Actions

\* The pace follows every change of skill.
LEMMA InitNew == ASSUME NEW g, Game(g), NEW skill, NEW map PROVE Game(G_InitNew(g, skill, map))
<1> DEFINE started ==
  [g EXCEPT
    !.pace = @ + (IF skill = "nightmare" /\ g.skill # "nightmare" THEN 1
                  ELSE IF skill # "nightmare" /\ g.skill = "nightmare" THEN -1 ELSE 0),
    !.usergame = TRUE, !.demoplayback = FALSE, !.map = map, !.skill = skill]
<1>1. Game(started)
  <2>1. PICK pace : pace = g.pace + (IF skill = "nightmare" /\ g.skill # "nightmare" THEN 1
                                     ELSE IF skill # "nightmare" /\ g.skill = "nightmare" THEN -1 ELSE 0)
    OBVIOUS
  <2>2. g.mixed \/ g.halted \/ pace = IF skill = "nightmare" THEN 1 ELSE 0
    BY <2>1 DEF Game, PaceFits
  <2>3. started = [g EXCEPT !.pace = pace, !.usergame = TRUE, !.demoplayback = FALSE, !.map = map, !.skill = skill]
    BY <2>1 DEF Game, IsRecord, GameFields, Off
  <2> HIDE DEF started
  <2> QED BY ZenonT(40), <2>2, <2>3 DEF Game, IsRecord, GameFields, Off, PaceFits
<1> HIDE DEF started
<1>2. Game(G_DoLoadLevel(started))
  BY <1>1, LoadLevel
<1> QED BY <1>2 DEF started, G_InitNew

LEMMA DoNewGame == ASSUME NEW g, Game(g) PROVE Game(G_DoNewGame(g))
<1>1. Game([g EXCEPT !.demoplayback = FALSE])
  BY DEF Game, IsRecord, GameFields, Off, PaceFits
<1> QED BY <1>1, InitNew DEF G_DoNewGame

\* A game of the other kind is the one whose pace is not kept.
LEMMA DoLoadGame == ASSUME NEW g, Game(g) PROVE Game(G_DoLoadGame(g))
<1>1. CASE g.file = {}
  <2>1. Game([g EXCEPT !.halted = TRUE, !.action = "nothing"])
    BY DEF Game, IsRecord, GameFields, Off, PaceFits, Actions
  <2> QED BY <1>1, <2>1 DEF G_DoLoadGame
<1>2. CASE g.file # {}
  <2> DEFINE f == CHOOSE x \in g.file : TRUE
             crossed == (f.skill = "nightmare") # (g.skill = "nightmare")
             loaded == [g EXCEPT !.skill = f.skill, !.mixed = @ \/ crossed]
  <2>1. Game(loaded)
    <3>1. PICK skill : skill = f.skill
      OBVIOUS
    <3>2. PICK c \in BOOLEAN : c = crossed /\ (c <=> (skill = "nightmare") # (g.skill = "nightmare"))
      BY <3>1
    <3>3. loaded = [g EXCEPT !.skill = skill, !.mixed = @ \/ c]
      BY <3>1, <3>2
    <3> HIDE DEF loaded
    <3> QED BY <3>2, <3>3 DEF Game, IsRecord, GameFields, Off, PaceFits
  <2>2. G_DoLoadGame(g) = G_InitNew(loaded, f.skill, f.map)
    BY <1>2 DEF G_DoLoadGame
  <2> HIDE DEF loaded, f
  <2> QED BY <2>1, <2>2, InitNew
<1> QED BY <1>1, <1>2

LEMMA DoSaveGame == ASSUME NEW g, Game(g) PROVE Game(G_DoSaveGame(g))
  BY DEF G_DoSaveGame, Game, IsRecord, GameFields, Off, PaceFits, Actions

(* ----------------------------------------------------------------------- *)
(* Pages, demos, figures and finale                                         *)
(* ----------------------------------------------------------------------- *)

LEMMA AdvanceDemo == ASSUME NEW g, Game(g) PROVE Game(D_AdvanceDemo(g))
  BY DEF D_AdvanceDemo, Game, IsRecord, GameFields, Off, PaceFits

LEMMA StartTitle == ASSUME NEW g, Game(g) PROVE Game(D_StartTitle(g))
<1>1. Game([g EXCEPT !.action = "nothing", !.sequence = -1])
  BY DEF Game, IsRecord, GameFields, Off, PaceFits, Actions
<1> QED BY <1>1, AdvanceDemo DEF D_StartTitle

LEMMA PageTicker == ASSUME NEW g, Game(g) PROVE Game(D_PageTicker(g))
<1>1. Game([g EXCEPT !.page = @ - 1])
  BY DEF Game, IsRecord, GameFields, Off, PaceFits
<1> QED BY <1>1, AdvanceDemo DEF D_PageTicker

LEMMA DoPlayDemo == ASSUME NEW g, Game(g) PROVE Game(G_DoPlayDemo(g))
<1> DEFINE h == G_InitNew(g, "medium", 1)
<1>1. Game(h)
  BY InitNew
<1>2. G_DoPlayDemo(g) = [h EXCEPT !.usergame = FALSE, !.demoplayback = TRUE, !.wait = DEMO]
  BY DEF G_DoPlayDemo
<1> HIDE DEF h
<1> QED BY <1>1, <1>2 DEF Game, IsRecord, GameFields, Off, PaceFits

LEMMA DoAdvanceDemo == ASSUME NEW g, Game(g) PROVE Game(D_DoAdvanceDemo(g))
<1> DEFINE next == (g.sequence + 1) % 6
           v == [g EXCEPT !.player = "live", !.advancedemo = FALSE, !.usergame = FALSE, !.paused = FALSE,
                          !.action = "nothing", !.sequence = next]
<1>1. Game(v)
  BY ZenonT(40) DEF Game, IsRecord, GameFields, Off, PaceFits, Actions
<1>2. D_DoAdvanceDemo(g) = IF next % 2 = 1 THEN G_DeferedPlayDemo(v)
                           ELSE [v EXCEPT !.page = PAGE, !.state = "demoscreen"]
  BY DEF D_DoAdvanceDemo
<1> HIDE DEF next, v
<1>3. Game(G_DeferedPlayDemo(v))
  BY <1>1 DEF G_DeferedPlayDemo, Game, IsRecord, GameFields, Off, PaceFits, Actions
<1>4. Game([v EXCEPT !.page = PAGE, !.state = "demoscreen"])
  BY <1>1 DEF Game, IsRecord, GameFields, Off, PaceFits, States
<1> QED BY <1>2, <1>3, <1>4

LEMMA CheckDemoStatus == ASSUME NEW g, Game(g) PROVE Game(G_CheckDemoStatus(g))
<1>1. Game([g EXCEPT !.demoplayback = FALSE])
  BY DEF Game, IsRecord, GameFields, Off, PaceFits
<1> QED BY <1>1, AdvanceDemo DEF G_CheckDemoStatus

LEMMA DoCompleted == ASSUME NEW g, Game(g) PROVE Game(G_DoCompleted(g))
<1>1. Game([g EXCEPT !.action = "victory"])
  BY DEF Game, IsRecord, GameFields, Off, PaceFits, Actions
<1>2. ASSUME NEW next PROVE Game(StartsTally([g EXCEPT !.action = "nothing", !.next = next]))
  BY ZenonT(40) DEF StartsTally, Game, IsRecord, GameFields, Off, PaceFits, Actions, States
<1> QED BY <1>1, <1>2 DEF G_DoCompleted

LEMMA StartFinale == ASSUME NEW g, Game(g) PROVE Game(F_StartFinale(g))
  BY ZenonT(40) DEF F_StartFinale, Game, IsRecord, GameFields, Off, PaceFits, Actions, States

LEMMA WorldDone == ASSUME NEW g, Game(g) PROVE Game(G_WorldDone(g))
<1>1. Game([g EXCEPT !.action = "worlddone"])
  BY DEF Game, IsRecord, GameFields, Off, PaceFits, Actions
<1> QED BY <1>1, StartFinale DEF G_WorldDone

LEMMA DoWorldDone == ASSUME NEW g, Game(g) PROVE Game(G_DoWorldDone(g))
<1>1. Game([g EXCEPT !.map = g.next + 1])
  BY DEF Game, IsRecord, GameFields, Off, PaceFits
<1> QED BY <1>1, LoadLevel DEF G_DoWorldDone

LEMMA FinaleTicker == ASSUME NEW g, Game(g), NEW buttons PROVE Game(F_Ticker(g, buttons))
<1>1. Game(StartsCast(g)) /\ Game([g EXCEPT !.action = "worlddone"])
  BY DEF StartsCast, Game, IsRecord, GameFields, Off, PaceFits, Actions
<1> DEFINE pressed == mode = "commercial" /\ g.wait > TEXT /\ buttons # "none"
           a == IF ~pressed THEN g ELSE IF g.map = 30 THEN StartsCast(g) ELSE [g EXCEPT !.action = "worlddone"]
           b == [a EXCEPT !.wait = IF @ > TEXT THEN @ ELSE @ + 1]
<1>2. Game(a)
  BY <1>1
<1>3. Game(b)
  <2> HIDE DEF a
  <2> QED BY <1>2 DEF Game, IsRecord, GameFields, Off, PaceFits
<1>4. Game([b EXCEPT !.wait = 0, !.stage = 1])
  <2> HIDE DEF b
  <2> QED BY <1>3 DEF Game, IsRecord, GameFields, Off, PaceFits
<1> QED BY <1>3, <1>4 DEF F_Ticker

(* ----------------------------------------------------------------------- *)
(* A tic                                                                    *)
(* ----------------------------------------------------------------------- *)

\* Whatever happens in the level, the game stays one.
LEMMA LevelTicker ==
  ASSUME NEW g, Game(g), NEW m, NEW buttons, NEW happens PROVE Game(P_Ticker(g, m, buttons, happens))
<1> DEFINE v == [g EXCEPT !.fresh = FALSE]
<1>1. Game(v)
  BY DEF Game, IsRecord, GameFields, Off, PaceFits
<1> HIDE DEF v
<1>2. ASSUME NEW who PROVE Game([v EXCEPT !.player = who])
  BY <1>1 DEF Game, IsRecord, GameFields, Off, PaceFits
<1>3. ASSUME NEW secret PROVE Game([v EXCEPT !.secretexit = secret, !.action = "completed"])
  <2> DEFINE x == [v EXCEPT !.secretexit = secret, !.action = "completed"]
  <2>1. IsRecord(x, GameFields)
    BY <1>1 DEF Game, IsRecord, GameFields, Off
  <2>2. /\ x.mixed = v.mixed /\ x.halted = v.halted /\ x.state = v.state /\ x.action = "completed"
        /\ x.pace = v.pace /\ x.skill = v.skill
    BY <1>1 DEF Game, IsRecord, GameFields, Off
  <2> HIDE DEF x
  <2>3. Game(x)
    BY <1>1, <2>1, <2>2 DEF Game, PaceFits, Actions
  <2> QED BY <2>3 DEF x
<1>4. Game(CASE v.player = "dead"                         -> IF buttons = "fire" THEN [v EXCEPT !.player = "reborn"] ELSE v
             [] v.player = "live" /\ happens = "dies"       -> [v EXCEPT !.player = "dead"]
             [] v.player = "live" /\ happens = "exit"       -> G_ExitLevel(v)
             [] v.player = "live" /\ happens = "secretexit" -> G_SecretExitLevel(v)
             [] OTHER                                       -> v)
  BY <1>1, <1>2, <1>3 DEF G_ExitLevel, G_SecretExitLevel
<1> QED BY <1>4 DEF P_Ticker, v

LEMMA TallyTicker == ASSUME NEW g, Game(g), NEW buttons PROVE Game(TallyTicks(g, buttons))
<1>1. ASSUME NEW wait PROVE Game([g EXCEPT !.wait = wait])
  BY DEF Game, IsRecord, GameFields, Off, PaceFits
<1> QED BY <1>1, WorldDone DEF TallyTicks

LEMMA DoReborn == ASSUME NEW g, Game(g) PROVE Game(G_DoReborn(g))
  BY DEF G_DoReborn, Game, IsRecord, GameFields, Off, PaceFits, Actions

LEMMA Acting == ASSUME NEW g, Game(g) PROVE Game(Acts(g))
<1>1. g.action \in Actions
  BY DEF Game
<1> QED BY <1>1, LoadLevel, DoNewGame, DoLoadGame, DoSaveGame, DoPlayDemo, DoCompleted, StartFinale, DoWorldDone
        DEF Acts, Actions

LEMMA ReadDemoTiccmd == ASSUME NEW g, Game(g) PROVE Game(G_ReadDemoTiccmd(g))
<1>1. Game([g EXCEPT !.wait = @ - 1])
  BY DEF Game, IsRecord, GameFields, Off, PaceFits
<1> QED BY <1>1, CheckDemoStatus DEF G_ReadDemoTiccmd

LEMMA Ticker ==
  ASSUME NEW before, Game(before), NEW m, NEW cmd, NEW happens PROVE Game(G_Ticker(before, m, cmd, happens))
<1> DEFINE g == Acts(Acts(G_DoReborn(before)))
           read == IF g.demoplayback THEN G_ReadDemoTiccmd(g) ELSE g
           buttons == IF g.demoplayback /\ g.wait # 0 THEN "none" ELSE cmd
           told == CASE buttons = "pause" -> [read EXCEPT !.paused = ~@]
                     [] buttons = "save"  -> [read EXCEPT !.action = "savegame"]
                     [] OTHER             -> read
<1>1. Game(g)
  BY DoReborn, Acting
<1> HIDE DEF g
<1>2. Game(read)
  BY <1>1, ReadDemoTiccmd
<1> HIDE DEF read
<1>3. Game([read EXCEPT !.paused = ~@]) /\ Game([read EXCEPT !.action = "savegame"])
  BY <1>2 DEF Game, IsRecord, GameFields, Off, PaceFits, Actions
<1> HIDE DEF buttons
<1>4. Game(told)
  BY <1>2, <1>3
<1> HIDE DEF told
<1>5. Game(P_Ticker(told, m, buttons, happens)) /\ Game(TallyTicks(told, buttons))
      /\ Game(F_Ticker(told, buttons)) /\ Game(D_PageTicker(told))
  BY <1>4, LevelTicker, TallyTicker, FinaleTicker, PageTicker
<1>6. told.state \in States
  BY <1>4 DEF Game
<1>7. Game(IF g.halted THEN g
           ELSE CASE told.state = "level"        -> P_Ticker(told, m, buttons, happens)
                  [] told.state = "intermission" -> TallyTicks(told, buttons)
                  [] told.state = "finale"       -> F_Ticker(told, buttons)
                  [] told.state = "demoscreen"   -> D_PageTicker(told))
  BY <1>1, <1>5, <1>6 DEF States
<1> QED BY <1>7 DEF G_Ticker, told, buttons, read, g

LEMMA BuildTiccmd == ASSUME NEW g, Game(g), NEW fire PROVE Game(G_BuildTiccmd(g, fire).game)
<1>1. Game([g EXCEPT !.sendsave = FALSE, !.sendpause = FALSE])
  BY DEF Game, IsRecord, GameFields, Off, PaceFits
<1>2. G_BuildTiccmd(g, fire).game = [g EXCEPT !.sendsave = FALSE, !.sendpause = FALSE]
  BY DEF G_BuildTiccmd
<1> QED BY <1>1, <1>2

(* ----------------------------------------------------------------------- *)
(* The menu                                                                 *)
(* ----------------------------------------------------------------------- *)

\* What the menu sets in the game.
LEMMA MenuSets ==
  ASSUME NEW g, Game(g), NEW skill
  PROVE  /\ Game(G_LoadGame(g)) /\ Game(G_SaveGame(g)) /\ Game(G_DeferedInitNew(g, skill))
         /\ Game([g EXCEPT !.halted = TRUE]) /\ Game([g EXCEPT !.sendpause = TRUE])
  BY ZenonT(40) DEF G_LoadGame, G_SaveGame, G_DeferedInitNew, Game, IsRecord, GameFields, Off, PaceFits, Actions

\* The other half of a world is not disturbed.
LEMMA OtherGame == ASSUME NEW w, Whole(w), NEW g, Game(g)
  PROVE  LET v == [w EXCEPT !.g = g] IN Whole(v) /\ v.g = g /\ v.m = w.m
  BY DEF Whole, IsRecord
LEMMA OtherMenu == ASSUME NEW w, Whole(w), NEW m, Menu(m)
  PROVE  LET v == [w EXCEPT !.m = m] IN Whole(v) /\ v.g = w.g /\ v.m = m
  BY DEF Whole, IsRecord

LEMMA Settles == ASSUME NEW w, Settled(w), NEW m, Menu(m), ~m.typing, m.message = "none"
  PROVE  LET v == [w EXCEPT !.m = m] IN Settled(v) /\ v.g = w.g /\ v.m = m
<1>1. Whole(w)
  BY DEF Settled
<1> DEFINE v == [w EXCEPT !.m = m]
<1>2. Whole(v) /\ v.g = w.g /\ v.m = m
  BY <1>1, OtherMenu
<1> HIDE DEF v
<1> QED BY <1>2 DEF Settled, v

\* The menu opens only when it is not open.
LEMMA StartControlPanel == ASSUME NEW w, Whole(w)
  PROVE  LET v == M_StartControlPanel(w)
         IN Whole(v) /\ v.m.active /\ v.m.typing = w.m.typing /\ v.m.message = w.m.message
<1> DEFINE m == [w.m EXCEPT !.active = TRUE, !.menu = "Main"]
<1>1. CASE w.m.active
  BY <1>1 DEF M_StartControlPanel
<1>2. CASE ~w.m.active
  <2>1. Menu(m) /\ m.active /\ m.typing = w.m.typing /\ m.message = w.m.message
    BY <1>2 DEF Whole, Menu, IsRecord, MenuFields, Menus
  <2>2. M_StartControlPanel(w) = [w EXCEPT !.m = m]
    BY <1>2 DEF M_StartControlPanel, Whole, IsRecord
  <2> HIDE DEF m
  <2>3. Whole([w EXCEPT !.m = m]) /\ [w EXCEPT !.m = m].m = m
    BY <2>1, OtherMenu
  <2> QED BY <2>1, <2>2, <2>3
<1> QED BY <1>1, <1>2

LEMMA SetupNextMenu == ASSUME NEW w, Whole(w), ~w.m.typing, NEW name \in Menus
  PROVE  LET v == M_SetupNextMenu(w, name)
         IN /\ Whole(v) /\ ~v.m.typing /\ v.m.message = w.m.message
            /\ v.m.active = w.m.active /\ v.m.menu = name
<1> DEFINE m == [w.m EXCEPT !.menu = name]
<1>1. Menu(m) /\ ~m.typing /\ m.message = w.m.message /\ m.active = w.m.active /\ m.menu = name
  BY DEF Whole, Menu, IsRecord, MenuFields
<1>2. M_SetupNextMenu(w, name) = [w EXCEPT !.m = m]
  BY DEF M_SetupNextMenu, Whole, IsRecord
<1> HIDE DEF m
<1>3. Whole([w EXCEPT !.m = m]) /\ [w EXCEPT !.m = m].m = m
  BY <1>1, OtherMenu
<1> QED BY <1>1, <1>2, <1>3

LEMMA ClearMenus == ASSUME NEW w, Settled(w) PROVE Settled(M_ClearMenus(w))
<1> DEFINE m == [w.m EXCEPT !.active = FALSE]
<1>1. Menu(m) /\ ~m.typing /\ m.message = "none"
  BY DEF Settled, Whole, Menu, IsRecord, MenuFields
<1>2. M_ClearMenus(w) = [w EXCEPT !.m = m]
  BY DEF M_ClearMenus, Settled, Whole, IsRecord
<1> HIDE DEF m
<1> QED BY <1>1, <1>2, Settles

\* A message opens the menu to be seen.
LEMMA StartMessage == ASSUME NEW w, Settled(w), NEW message
  PROVE  LET v == M_StartMessage(w, message)
         IN Whole(v) /\ ~v.m.typing /\ v.m.active
<1> DEFINE m == [w.m EXCEPT !.last = w.m.active, !.message = message, !.active = TRUE]
<1>1. Menu(m) /\ ~m.typing /\ m.active
  BY DEF Settled, Whole, Menu, IsRecord, MenuFields
<1>2. M_StartMessage(w, message) = [w EXCEPT !.m = m]
  BY DEF M_StartMessage, Settled, Whole, IsRecord
<1> HIDE DEF m
<1>3. Whole([w EXCEPT !.m = m]) /\ [w EXCEPT !.m = m].m = m
  BY <1>1, OtherMenu DEF Settled
<1> QED BY <1>1, <1>2, <1>3

LEMMA ReadSaveStrings == ASSUME NEW w, Settled(w)
  PROVE  LET v == M_ReadSaveStrings(w) IN Settled(v) /\ v.m.active = w.m.active /\ v.m.menu = w.m.menu
<1> DEFINE m == [w.m EXCEPT !.loadable = w.g.file # {}, !.written = w.g.file # {}]
<1>1. Menu(m) /\ ~m.typing /\ m.message = "none" /\ m.active = w.m.active /\ m.menu = w.m.menu
  BY DEF Settled, Whole, Menu, IsRecord, MenuFields
<1>2. M_ReadSaveStrings(w) = [w EXCEPT !.m = m]
  BY DEF M_ReadSaveStrings, Settled, Whole, IsRecord
<1> HIDE DEF m
<1>3. Settled([w EXCEPT !.m = m]) /\ [w EXCEPT !.m = m].m = m
  BY <1>1, Settles
<1> QED BY <1>1, <1>2, <1>3

\* quick is the slot of quick saves.
LEMMA Quick == ASSUME NEW w, Settled(w), NEW quick PROVE Settled([w EXCEPT !.m.quick = quick])
<1> DEFINE m == [w.m EXCEPT !.quick = quick]
<1>1. Menu(m) /\ ~m.typing /\ m.message = "none"
  BY DEF Settled, Whole, Menu, IsRecord, MenuFields
<1>2. [w EXCEPT !.m.quick = quick] = [w EXCEPT !.m = m]
  BY DEF Settled, Whole, IsRecord
<1> HIDE DEF m
<1> QED BY <1>1, <1>2, Settles

\* A game of its own for a settled world.
LEMMA Plays == ASSUME NEW w, Settled(w), NEW g, Game(g) PROVE Settled([w EXCEPT !.g = g])
<1> DEFINE v == [w EXCEPT !.g = g]
<1>1. Whole(v) /\ v.m = w.m
  BY OtherGame DEF Settled
<1> HIDE DEF v
<1> QED BY <1>1 DEF Settled, v

LEMMA LoadSelect == ASSUME NEW w, Settled(w) PROVE Settled(M_LoadSelect(w))
<1>1. Game(G_LoadGame(w.g))
  BY MenuSets DEF Settled, Whole
<1>2. Settled([w EXCEPT !.g = G_LoadGame(w.g)])
  BY <1>1, Plays
<1> QED BY <1>2, ClearMenus DEF M_LoadSelect

LEMMA LoadMenu == ASSUME NEW w, Settled(w) PROVE Settled(M_LoadGame(w))
<1>1. Settled(M_SetupNextMenu(w, "Load"))
  BY SetupNextMenu DEF Settled, Menus
<1> QED BY <1>1, ReadSaveStrings DEF M_LoadGame

LEMMA DoSave == ASSUME NEW w, Settled(w) PROVE Settled(M_DoSave(w))
<1>1. Game(G_SaveGame(w.g))
  BY MenuSets DEF Settled, Whole
<1> DEFINE v == M_ClearMenus([w EXCEPT !.g = G_SaveGame(@)])
           quick == IF v.m.quick = "next" THEN "slot" ELSE v.m.quick
<1>2. Settled(v)
  BY <1>1, Plays, ClearMenus
<1>3. M_DoSave(w) = [v EXCEPT !.m.quick = quick]
  BY DEF M_DoSave
<1> HIDE DEF v, quick
<1> QED BY <1>2, <1>3, Quick

\* Only the menu of saves lets a name be typed.
LEMMA SaveSelect == ASSUME NEW w, Settled(w), w.m.active, w.m.menu = "Save" PROVE Whole(M_SaveSelect(w))
<1> DEFINE m == [w.m EXCEPT !.typing = TRUE, !.old = w.m.written]
<1>1. Menu(m)
  BY DEF Settled, Whole, Menu, IsRecord, MenuFields
<1>2. M_SaveSelect(w) = [w EXCEPT !.m = m]
  BY DEF M_SaveSelect, Settled, Whole, IsRecord
<1> HIDE DEF m
<1> QED BY <1>1, <1>2, OtherMenu DEF Settled

LEMMA SaveMenu == ASSUME NEW w, Settled(w) PROVE Whole(M_SaveGame(w))
<1>1. Settled(M_SetupNextMenu(w, "Save"))
  BY SetupNextMenu DEF Settled, Menus
<1>2. Whole(M_ReadSaveStrings(M_SetupNextMenu(w, "Save")))
  BY <1>1, ReadSaveStrings DEF Settled
<1>3. Whole(M_StartMessage(w, "notice")) /\ Whole(w)
  BY StartMessage DEF Settled
<1> QED BY <1>2, <1>3 DEF M_SaveGame

LEMMA QuickSave == ASSUME NEW w, Settled(w) PROVE Whole(M_QuickSave(w))
<1>1. Settled(M_StartControlPanel(w))
  BY StartControlPanel DEF Settled
<1>2. Settled(M_ReadSaveStrings(M_StartControlPanel(w)))
  BY <1>1, ReadSaveStrings
<1>3. Settled(M_SetupNextMenu(M_ReadSaveStrings(M_StartControlPanel(w)), "Save"))
  BY <1>2, SetupNextMenu DEF Settled, Menus
<1>4. Whole([M_SetupNextMenu(M_ReadSaveStrings(M_StartControlPanel(w)), "Save") EXCEPT !.m.quick = "next"])
  BY <1>3, Quick DEF Settled
<1>5. Whole(M_StartMessage(w, "quickSave")) /\ Whole(w)
  BY StartMessage DEF Settled
<1> QED BY <1>4, <1>5 DEF M_QuickSave

LEMMA OtherItems ==
  ASSUME NEW w, Settled(w), NEW choice, NEW skill
  PROVE  /\ Whole(M_QuickLoad(w)) /\ Whole(M_NewGame(w)) /\ Whole(M_Episode(w, choice))
         /\ Whole(M_ChooseSkill(w, skill)) /\ Whole(M_EndGame(w))
<1>1. ASSUME NEW message PROVE Whole(M_StartMessage(w, message)) /\ Whole(w)
  BY StartMessage DEF Settled
<1>2. ASSUME NEW name \in Menus PROVE Whole(M_SetupNextMenu(w, name))
  BY SetupNextMenu DEF Settled
<1>3. Settled([w EXCEPT !.g = G_DeferedInitNew(@, skill)])
  BY Plays, MenuSets DEF Settled, Whole
<1>4. Whole(M_ClearMenus([w EXCEPT !.g = G_DeferedInitNew(@, skill)]))
  BY <1>3, ClearMenus DEF Settled
<1>5. Whole(M_SetupNextMenu(M_StartMessage(w, "notice"), "Read1"))
  BY StartMessage, SetupNextMenu DEF Menus
<1> QED BY <1>1, <1>2, <1>4, <1>5 DEF M_QuickLoad, M_NewGame, M_Episode, M_ChooseSkill, M_EndGame, Menus

LEMMA Choosing == ASSUME NEW w, Settled(w), w.m.active, NEW v \in Items(w) PROVE Whole(v)
<1>1. w.m.menu \in Menus /\ Whole(w) /\ ~w.m.typing
  BY DEF Settled, Whole, Menu
<1>2. /\ \A name \in Menus : Whole(M_SetupNextMenu(w, name))
      /\ \A message : Whole(M_StartMessage(w, message))
  BY <1>1, SetupNextMenu, StartMessage
<1>3. Whole(M_LoadGame(w)) /\ Whole(M_SaveGame(w)) /\ Whole(M_LoadSelect(w))
  BY LoadMenu, SaveMenu, LoadSelect DEF Settled
<1>4. w.m.menu = "Save" => Whole(M_SaveSelect(w))
  BY SaveSelect
<1> QED BY <1>1, <1>2, <1>3, <1>4, OtherItems DEF Items, Menus

(* ----------------------------------------------------------------------- *)
(* Keys                                                                     *)
(* ----------------------------------------------------------------------- *)

\* A name ends with its menu.
LEMMA Typing == ASSUME NEW w, Whole(w), w.m.typing, NEW key PROVE Whole(Types(w, key))
<1>1. ASSUME NEW written PROVE Whole([w EXCEPT !.m.written = written])
  <2> DEFINE m == [w.m EXCEPT !.written = written]
  <2>1. Menu(m)
    BY DEF Whole, Menu, IsRecord, MenuFields
  <2>2. [w EXCEPT !.m.written = written] = [w EXCEPT !.m = m]
    BY DEF Whole, IsRecord
  <2> HIDE DEF m
  <2> QED BY <2>1, <2>2, OtherMenu
<1>2. ASSUME NEW written
      PROVE  LET m == [w.m EXCEPT !.typing = FALSE, !.written = written]
             IN Menu(m) /\ ~m.typing /\ m.message = "none"
  BY DEF Whole, Menu, IsRecord, MenuFields
<1>3. Whole([w EXCEPT !.m.typing = FALSE, !.m.written = w.m.old])
  <2>1. [w EXCEPT !.m.typing = FALSE, !.m.written = w.m.old]
          = [w EXCEPT !.m = [w.m EXCEPT !.typing = FALSE, !.written = w.m.old]]
    BY DEF Whole, IsRecord
  <2> QED BY <1>2, <2>1, OtherMenu
<1>4. Settled([w EXCEPT !.m.typing = FALSE])
  <2> DEFINE m == [w.m EXCEPT !.typing = FALSE]
             v == [w EXCEPT !.m = m]
  <2>1. Menu(m) /\ ~m.typing /\ m.message = "none"
    BY DEF Whole, Menu, IsRecord, MenuFields
  <2>2. [w EXCEPT !.m.typing = FALSE] = v
    BY DEF Whole, IsRecord
  <2> HIDE DEF m
  <2>3. Whole(v) /\ v.m = m
    BY <2>1, OtherMenu
  <2> QED BY <2>1, <2>2, <2>3 DEF Settled
<1>5. Whole(LET v == [w EXCEPT !.m.typing = FALSE] IN IF w.m.written THEN M_DoSave(v) ELSE v)
  BY <1>4, DoSave DEF Settled
<1> QED BY <1>1, <1>3, <1>5 DEF Types

\* A prompt is answered with its message gone.
LEMMA Answering == ASSUME NEW w, Whole(w), ~w.m.typing, w.m.message # "none", NEW key
  PROVE  Whole(AnswersMessage(w, key))
<1> DEFINE m == [w.m EXCEPT !.active = w.m.last, !.message = "none"]
           v == [w EXCEPT !.m.active = w.m.last, !.m.message = "none"]
<1>1. Settled(v)
  <2>1. Menu(m) /\ ~m.typing /\ m.message = "none"
    BY DEF Whole, Menu, IsRecord, MenuFields
  <2>2. v = [w EXCEPT !.m = m]
    BY DEF Whole, IsRecord
  <2> HIDE DEF m, v
  <2>3. Whole([w EXCEPT !.m = m]) /\ [w EXCEPT !.m = m].m = m
    BY <2>1, OtherMenu
  <2> QED BY <2>1, <2>2, <2>3 DEF Settled
<1> HIDE DEF v
<1>2. ASSUME NEW message PROVE Settled(Answers(v, message, key))
  <2>1. Settled(M_DoSave(v)) /\ Settled(M_LoadSelect(v))
    BY <1>1, DoSave, LoadSelect
  <2>2. Settled(M_ClearMenus([v EXCEPT !.g = G_DeferedInitNew(@, "nightmare")]))
    <3>1. Settled([v EXCEPT !.g = G_DeferedInitNew(@, "nightmare")])
      BY <1>1, MenuSets, Plays DEF Settled, Whole
    <3> QED BY <3>1, ClearMenus
  <2>3. Settled([M_ClearMenus(v) EXCEPT !.g = D_StartTitle(@)])
    <3>1. Settled(M_ClearMenus(v)) /\ Game(M_ClearMenus(v).g)
      BY <1>1, ClearMenus DEF Settled, Whole
    <3> QED BY <3>1, StartTitle, Plays
  <2>4. Settled([v EXCEPT !.g.halted = TRUE])
    <3>1. [v EXCEPT !.g.halted = TRUE] = [v EXCEPT !.g = [v.g EXCEPT !.halted = TRUE]]
      OBVIOUS
    <3>2. Game([v.g EXCEPT !.halted = TRUE])
      BY <1>1, MenuSets DEF Settled, Whole
    <3> QED BY <1>1, <3>1, <3>2, Plays
  <2> QED BY <1>1, <2>1, <2>2, <2>3, <2>4 DEF Answers
<1>3. Settled(M_ClearMenus(Answers(v, w.m.message, key)))
  BY <1>2, ClearMenus
<1> QED BY <1>3 DEF Settled, AnswersMessage, v

LEMMA OpensMenus ==
  ASSUME NEW w, Settled(w),
         NEW key \in {"F1", "F2", "F3", "F4", "F6", "F7", "F9", "F10", "escape"}
  PROVE  Whole(FunctionKeys(w, key))
<1>1. Settled(M_StartControlPanel(w)) /\ Whole(M_StartControlPanel(w))
  BY StartControlPanel DEF Settled
<1>2. ASSUME NEW name \in Menus PROVE Whole(M_SetupNextMenu(M_StartControlPanel(w), name))
  BY <1>1, SetupNextMenu DEF Settled
<1>3. Whole(M_SaveGame(M_StartControlPanel(w))) /\ Whole(M_LoadGame(M_StartControlPanel(w)))
  BY <1>1, SaveMenu, LoadMenu DEF Settled
<1>4. Whole(M_QuickSave(w)) /\ Whole(M_EndGame(w)) /\ Whole(M_QuickLoad(w)) /\ Whole(M_StartMessage(w, "quit"))
  BY QuickSave, OtherItems, StartMessage DEF Settled
<1> QED BY <1>1, <1>2, <1>3, <1>4 DEF FunctionKeys, Menus

LEMMA Responding == ASSUME NEW w, Whole(w), NEW key, NEW v \in M_Responder(w, key) PROVE Whole(v)
<1>1. CASE w.m.typing
  BY <1>1, Typing DEF M_Responder
<1>2. CASE ~w.m.typing /\ w.m.message # "none"
  BY <1>2, Answering DEF M_Responder
<1>3. CASE ~w.m.typing /\ w.m.message = "none" /\ ~w.m.active
  BY <1>3, OpensMenus DEF M_Responder, Settled
<1>4. CASE ~w.m.typing /\ w.m.message = "none" /\ w.m.active
  <2>1. Settled(w) /\ w.m.menu \in Menus
    BY <1>4 DEF Settled, Whole, Menu
  <2>2. ASSUME NEW name \in Menus PROVE Whole(M_SetupNextMenu(w, name))
    BY <1>4, SetupNextMenu
  <2>3. prevMenu[w.m.menu] \in Menus /\ "Main" \in Menus
    BY <2>1 DEF Menus, prevMenu
  <2>4. Whole(M_ClearMenus(w))
    BY <2>1, ClearMenus DEF Settled
  <2>5. \A u \in Items(w) : Whole(u)
    BY <1>4, <2>1, Choosing
  <2> HIDE DEF Items
  <2>6. v \in CASE key = "enter"  -> Items(w)
              [] key = "escape" -> {M_ClearMenus(w)}
              [] key = "back"   -> {M_SetupNextMenu(w, IF mode = "commercial" /\ w.m.menu = "New" THEN "Main" ELSE prevMenu[w.m.menu])}
              [] OTHER          -> {}
    BY <1>4 DEF M_Responder
  <2> QED BY <2>2, <2>3, <2>4, <2>5, <2>6
<1> QED BY <1>1, <1>2, <1>3, <1>4

LEMMA GameResponder == ASSUME NEW w, Whole(w), NEW key PROVE Whole(G_Responder(w, key))
<1>1. [w EXCEPT !.g.sendpause = TRUE] = [w EXCEPT !.g = [w.g EXCEPT !.sendpause = TRUE]]
  OBVIOUS
<1>2. Game([w.g EXCEPT !.sendpause = TRUE])
  BY MenuSets DEF Whole
<1>3. Whole([w EXCEPT !.g.sendpause = TRUE])
  BY <1>1, <1>2, OtherGame
<1>4. Whole(M_StartControlPanel(w))
  BY StartControlPanel
<1> QED BY <1>3, <1>4 DEF G_Responder

(* ----------------------------------------------------------------------- *)
(* The theorem about what outlives a menu or a game                         *)
(* ----------------------------------------------------------------------- *)

LEMMA Starts == FlowInit => IInv
<1>1. Game(Off) /\ Game([Off EXCEPT !.file = {[skill |-> "medium", map |-> 3]}])
  BY DEF Off, Game, IsRecord, GameFields, PaceFits, States, Actions
<1> SUFFICES ASSUME FlowInit PROVE IInv
  OBVIOUS
<1>2. Game(game)
  BY <1>1, StartTitle, InitNew DEF FlowInit
<1>3. Menu(menu)
  BY DEF FlowInit, Menu, IsRecord, MenuFields, Menus
<1> QED BY <1>2, <1>3 DEF IInv

LEMMA NextKeeps == IInv /\ [FlowNext]_flow_vars => IInv'
<1> SUFFICES ASSUME IInv, [FlowNext]_flow_vars PROVE IInv'
  OBVIOUS
<1>1. ASSUME NEW key \in Keys, KeyGoesDown(key) PROVE IInv'
  <2> DEFINE w == World(game, menu)
  <2>1. Whole(w)
    BY DEF World, Whole, IsRecord, IInv
  <2>2. PICK v : /\ v \in (IF M_Responder(w, key) = {} THEN {G_Responder(w, key)} ELSE M_Responder(w, key))
                 /\ game' = v.g /\ menu' = v.m
    BY <1>1 DEF KeyGoesDown
  <2>3. Whole(v)
    BY <2>1, <2>2, Responding, GameResponder
  <2> QED BY <2>2, <2>3 DEF Whole, IInv
<1>2. ASSUME NEW fire \in BOOLEAN, Builds(fire) PROVE IInv'
  BY <1>2, BuildTiccmd DEF Builds, IInv
<1>3. ASSUME NEW happens, RunsTic(happens) PROVE IInv'
  <2>1. PICK g : /\ g = IF game.advancedemo THEN D_DoAdvanceDemo(game) ELSE game
                 /\ game' = G_Ticker(g, menu, Head(queue), happens) /\ menu' = menu
    BY <1>3 DEF RunsTic
  <2>2. Game(g)
    BY <2>1, DoAdvanceDemo DEF IInv
  <2> QED BY <2>1, <2>2, Ticker DEF IInv
<1>4. CASE UNCHANGED flow_vars
  BY <1>4 DEF flow_vars, IInv
<1> QED BY <1>1, <1>2, <1>3, <1>4 DEF FlowNext

\* Games with their monsters' pace, menus with the name being typed: what one
\* leaves behind fits the next, for any pages, demos, figures and keys.
THEOREM LeftoversAlwaysFit == FlowSpec => []LeftoversFit
<1>1. IInv => LeftoversFit
  BY DEF IInv, Game, Menu, PaceFits, LeftoversFit, PaceIsRight, TypingIsSeen
<1> QED BY Starts, NextKeeps, <1>1, PTL DEF FlowSpec

(* ----------------------------------------------------------------------- *)
(* Nothing breaks into a game                                               *)
(* ----------------------------------------------------------------------- *)

\* Neither a demo nor a page is on while somebody plays.
Playing(g) ==
  /\ g.demoplayback => ~g.usergame
  /\ g.state = "demoscreen" => ~g.usergame

\* Between tics no demo is about to start, and the next one is asked for without
\* a player, or when the game was given up.
Seated(g) ==
  /\ IsRecord(g, GameFields) /\ Playing(g) /\ g.action # "playdemo"
  /\ g.advancedemo /\ g.usergame => g.sequence = -1

\* Within a tic a demo may be about to start, but the next is not asked for.
Ticking(g) == IsRecord(g, GameFields) /\ Playing(g) /\ ~g.advancedemo

\* What an operation leaves alone that has nothing to do with demos.
Leaves(g, h) ==
  /\ IsRecord(h, GameFields)
  /\ h.usergame = g.usergame /\ h.demoplayback = g.demoplayback
  /\ h.advancedemo = g.advancedemo /\ h.sequence = g.sequence

\* Whoever plays goes on to play.
PlaysOn(g, h) == Seated(h) /\ (g.usergame => h.usergame)

LEMMA LeavesSeated ==
  ASSUME NEW g, Seated(g), NEW h, Leaves(g, h), h.state = "demoscreen" => g.state = "demoscreen", h.action # "playdemo"
  PROVE  PlaysOn(g, h)
  BY DEF Seated, Leaves, Playing, PlaysOn

LEMMA LeavesTicking ==
  ASSUME NEW g, Ticking(g), NEW h, Leaves(g, h), h.state = "demoscreen" => g.state = "demoscreen"
  PROVE  Ticking(h)
  BY DEF Ticking, Leaves, Playing

LEMMA LoadStarts == ASSUME NEW g, IsRecord(g, GameFields)
  PROVE  LET v == G_DoLoadLevel(g) IN Leaves(g, v) /\ v.action = "nothing" /\ v.state = "level"
  BY ZenonT(40) DEF G_DoLoadLevel, Leaves, IsRecord, GameFields, Off

\* A game that starts ends the demo that was playing.
LEMMA NewStarts == ASSUME NEW g, Ticking(g), NEW skill, NEW map
  PROVE  LET v == G_InitNew(g, skill, map) IN Ticking(v) /\ v.usergame /\ v.action = "nothing" /\ v.state = "level"
<1> DEFINE started ==
  [g EXCEPT
    !.pace = @ + (IF skill = "nightmare" /\ g.skill # "nightmare" THEN 1
                  ELSE IF skill # "nightmare" /\ g.skill = "nightmare" THEN -1 ELSE 0),
    !.usergame = TRUE, !.demoplayback = FALSE, !.map = map, !.skill = skill]
<1>1. IsRecord(started, GameFields) /\ started.usergame /\ ~started.demoplayback /\ ~started.advancedemo
  BY ZenonT(40) DEF Ticking, IsRecord, GameFields, Off
<1>2. G_InitNew(g, skill, map) = G_DoLoadLevel(started)
  BY DEF G_InitNew
<1> HIDE DEF started
<1> QED BY <1>1, <1>2, LoadStarts DEF Ticking, Playing, Leaves

\* What is done at the start of a tic: only a demo that starts has no player.
LEMMA ActingPlays == ASSUME NEW g, Ticking(g), g.action \in Actions
  PROVE  LET v == Acts(g)
         IN Ticking(v) /\ v.action # "playdemo" /\ (g.action # "playdemo" /\ g.usergame => v.usergame)
<1> DEFINE Fine(v) == Ticking(v) /\ v.action # "playdemo" /\ (g.action # "playdemo" /\ g.usergame => v.usergame)
<1>1. ASSUME NEW v, Leaves(g, v), v.state = "demoscreen" => g.state = "demoscreen", v.action # "playdemo"
      PROVE  Fine(v)
  BY <1>1, LeavesTicking DEF Leaves
<1>2. CASE g.action = "loadlevel"
  BY <1>1, <1>2, LoadStarts DEF Acts, Ticking
<1>3. CASE g.action = "newgame"
  <2>1. Ticking([g EXCEPT !.demoplayback = FALSE])
    BY DEF Ticking, Playing, IsRecord, GameFields, Off
  <2> QED BY <1>3, <2>1, NewStarts DEF Acts, G_DoNewGame
<1>4. CASE g.action = "loadgame"
  <2>1. LET v == [g EXCEPT !.halted = TRUE, !.action = "nothing"] IN Leaves(g, v) /\ v.state = g.state /\ v.action = "nothing"
    BY DEF Ticking, Leaves, IsRecord, GameFields, Off
  <2>2. ASSUME NEW skill, NEW mixed PROVE Ticking([g EXCEPT !.skill = skill, !.mixed = mixed])
    BY DEF Ticking, Playing, IsRecord, GameFields, Off
  <2>3. ASSUME NEW skill, NEW mixed, NEW s, NEW map
        PROVE  Fine(G_InitNew([g EXCEPT !.skill = skill, !.mixed = mixed], s, map))
    BY <2>2, NewStarts
  <2>4. Fine(G_DoLoadGame(g))
    <3>1. CASE g.file = {}
      BY <1>1, <2>1, <3>1 DEF G_DoLoadGame
    <3>2. CASE g.file # {}
      <4> HIDE DEF Fine
      <4> QED BY <2>3, <3>2 DEF G_DoLoadGame
    <3> QED BY <3>1, <3>2
  <2> QED BY <1>4, <2>4 DEF Acts
<1>5. CASE g.action = "savegame"
  <2>1. LET v == G_DoSaveGame(g) IN Leaves(g, v) /\ v.state = g.state /\ v.action = "nothing"
    BY DEF G_DoSaveGame, Ticking, Leaves, IsRecord, GameFields, Off
  <2> QED BY <1>1, <1>5, <2>1 DEF Acts
<1>6. CASE g.action = "playdemo"
  <2> DEFINE h == G_InitNew(g, "medium", 1)
             v == [h EXCEPT !.usergame = FALSE, !.demoplayback = TRUE, !.wait = DEMO]
  <2>1. Ticking(h) /\ h.action = "nothing"
    BY NewStarts
  <2>2. G_DoPlayDemo(g) = v
    BY DEF G_DoPlayDemo
  <2> HIDE DEF h
  <2>3. Ticking(v) /\ v.action = "nothing"
    BY <2>1 DEF Ticking, Playing, IsRecord, GameFields, Off
  <2> QED BY <1>6, <2>2, <2>3 DEF Acts
<1>7. CASE g.action = "completed"
  <2>1. LET v == [g EXCEPT !.action = "victory"] IN Leaves(g, v) /\ v.state = g.state /\ v.action = "victory"
    BY DEF Ticking, Leaves, IsRecord, GameFields, Off
  <2>2. ASSUME NEW next
        PROVE  LET v == StartsTally([g EXCEPT !.action = "nothing", !.next = next])
               IN Leaves(g, v) /\ v.state = "intermission" /\ v.action = "nothing"
    BY ZenonT(40) DEF StartsTally, Ticking, Leaves, IsRecord, GameFields, Off
  <2>3. Fine(G_DoCompleted(g))
    BY <1>1, <2>1, <2>2 DEF G_DoCompleted
  <2> QED BY <1>7, <2>3 DEF Acts
<1>8. CASE g.action = "victory"
  <2>1. LET v == F_StartFinale(g) IN Leaves(g, v) /\ v.state = "finale" /\ v.action = "nothing"
    BY ZenonT(40) DEF F_StartFinale, Ticking, Leaves, IsRecord, GameFields, Off
  <2> QED BY <1>1, <1>8, <2>1 DEF Acts
<1>9. CASE g.action = "worlddone"
  <2>1. Ticking([g EXCEPT !.map = g.next + 1]) /\ [g EXCEPT !.map = g.next + 1].usergame = g.usergame
    BY DEF Ticking, Playing, IsRecord, GameFields, Off
  <2> DEFINE v == G_DoWorldDone(g)
  <2>2. Leaves([g EXCEPT !.map = g.next + 1], v) /\ v.state = "level" /\ v.action = "nothing"
    BY <2>1, LoadStarts DEF G_DoWorldDone, Ticking
  <2>3. Fine(v)
    <3> HIDE DEF v
    <3> QED BY <2>1, <2>2, LeavesTicking DEF Leaves
  <2> QED BY <1>9, <2>3 DEF Acts
<1>10. CASE g.action = "nothing"
  BY <1>10 DEF Acts
<1> QED BY <1>2, <1>3, <1>4, <1>5, <1>6, <1>7, <1>8, <1>9, <1>10 DEF Actions

\* The next page or demo takes the player away, and may only be asked for.
LEMMA AdvanceTicks == ASSUME NEW g, Seated(g) PROVE Ticking(D_DoAdvanceDemo(g))
<1> DEFINE next == (g.sequence + 1) % 6
           v == [g EXCEPT !.player = "live", !.advancedemo = FALSE, !.usergame = FALSE, !.paused = FALSE,
                          !.action = "nothing", !.sequence = next]
<1>1. IsRecord(v, GameFields) /\ ~v.usergame /\ ~v.advancedemo
  BY ZenonT(40) DEF Seated, IsRecord, GameFields, Off
<1>2. D_DoAdvanceDemo(g) = IF next % 2 = 1 THEN G_DeferedPlayDemo(v)
                           ELSE [v EXCEPT !.page = PAGE, !.state = "demoscreen"]
  BY DEF D_DoAdvanceDemo
<1> HIDE DEF next, v
<1>3. Ticking(G_DeferedPlayDemo(v)) /\ Ticking([v EXCEPT !.page = PAGE, !.state = "demoscreen"])
  BY <1>1 DEF G_DeferedPlayDemo, Ticking, Playing, IsRecord, GameFields, Off
<1> QED BY <1>2, <1>3

\* A demo that ends, and a page, ask for what comes next.
LEMMA AsksForNext == ASSUME NEW g, Seated(g), ~g.usergame PROVE PlaysOn(g, D_AdvanceDemo(g))
  BY DEF D_AdvanceDemo, Seated, Playing, PlaysOn, IsRecord, GameFields, Off

LEMMA PageTicks == ASSUME NEW g, Seated(g), g.state = "demoscreen" PROVE PlaysOn(g, D_PageTicker(g))
<1>1. LET v == [g EXCEPT !.page = @ - 1] IN Leaves(g, v) /\ v.state = g.state /\ v.action = g.action
  BY DEF Seated, Leaves, IsRecord, GameFields, Off
<1>2. PlaysOn(g, [g EXCEPT !.page = @ - 1])
  BY <1>1, LeavesSeated DEF Seated
<1> QED BY <1>2, AsksForNext DEF D_PageTicker, Seated, Playing

LEMMA DemoTicks == ASSUME NEW g, Seated(g), g.demoplayback PROVE PlaysOn(g, G_ReadDemoTiccmd(g))
<1>1. LET v == [g EXCEPT !.wait = @ - 1] IN Leaves(g, v) /\ v.state = g.state /\ v.action = g.action
  BY DEF Seated, Leaves, IsRecord, GameFields, Off
<1>2. PlaysOn(g, [g EXCEPT !.wait = @ - 1])
  BY <1>1, LeavesSeated DEF Seated
<1>3. Seated([g EXCEPT !.demoplayback = FALSE]) /\ ~[g EXCEPT !.demoplayback = FALSE].usergame /\ ~g.usergame
  BY DEF Seated, Playing, IsRecord, GameFields, Off
<1>4. PlaysOn(g, D_AdvanceDemo([g EXCEPT !.demoplayback = FALSE]))
  BY <1>3, AsksForNext DEF PlaysOn
<1> QED BY <1>2, <1>4 DEF G_ReadDemoTiccmd, G_CheckDemoStatus

LEMMA FinaleTicks == ASSUME NEW g, Seated(g), NEW buttons PROVE PlaysOn(g, F_Ticker(g, buttons))
<1> DEFINE Near(h) == Leaves(g, h) /\ h.state = g.state /\ h.action # "playdemo"
<1>1. Near(g) /\ Near(StartsCast(g)) /\ Near([g EXCEPT !.action = "worlddone"])
  BY DEF StartsCast, Seated, Leaves, IsRecord, GameFields, Off
<1>2. ASSUME NEW h, Near(h), NEW wait, NEW stage
      PROVE  Near([h EXCEPT !.wait = wait]) /\ Near([h EXCEPT !.wait = wait, !.stage = stage])
  BY <1>2 DEF Leaves, IsRecord, GameFields, Off
<1> HIDE DEF Near
<1>3. Near(F_Ticker(g, buttons))
  <2> DEFINE pressed == mode = "commercial" /\ g.wait > TEXT /\ buttons # "none"
             a == IF ~pressed THEN g ELSE IF g.map = 30 THEN StartsCast(g) ELSE [g EXCEPT !.action = "worlddone"]
             b == [a EXCEPT !.wait = IF @ > TEXT THEN @ ELSE @ + 1]
  <2>1. Near(a)
    BY <1>1
  <2> HIDE DEF a
  <2>2. Near(b)
    BY <1>2, <2>1
  <2> HIDE DEF b
  <2>3. Near([b EXCEPT !.wait = 0, !.stage = 1])
    BY <1>2, <2>2
  <2> QED BY <2>2, <2>3 DEF F_Ticker, a, b
<1> QED BY <1>3, LeavesSeated DEF Near

LEMMA LevelTicks == ASSUME NEW g, Seated(g), NEW m, NEW buttons, NEW happens PROVE PlaysOn(g, P_Ticker(g, m, buttons, happens))
<1> DEFINE Near(h) == Leaves(g, h) /\ h.state = g.state /\ h.action # "playdemo"
           v == [g EXCEPT !.fresh = FALSE]
<1>1. Near(g) /\ Near(v)
  BY DEF Seated, Leaves, IsRecord, GameFields, Off
<1> HIDE DEF v
<1>2. ASSUME NEW who PROVE Near([v EXCEPT !.player = who])
  BY <1>1 DEF Leaves, IsRecord, GameFields, Off
<1>3. ASSUME NEW secret PROVE Near([v EXCEPT !.secretexit = secret, !.action = "completed"])
  BY <1>1 DEF Leaves, IsRecord, GameFields, Off
<1> HIDE DEF Near
<1>4. Near(CASE v.player = "dead"                         -> IF buttons = "fire" THEN [v EXCEPT !.player = "reborn"] ELSE v
             [] v.player = "live" /\ happens = "dies"       -> [v EXCEPT !.player = "dead"]
             [] v.player = "live" /\ happens = "exit"       -> G_ExitLevel(v)
             [] v.player = "live" /\ happens = "secretexit" -> G_SecretExitLevel(v)
             [] OTHER                                       -> v)
  BY <1>1, <1>2, <1>3 DEF G_ExitLevel, G_SecretExitLevel
<1>5. Near(P_Ticker(g, m, buttons, happens))
  BY <1>1, <1>4 DEF P_Ticker, v
<1> QED BY <1>5, LeavesSeated DEF Near

LEMMA TallyPlays == ASSUME NEW g, Seated(g), g.state # "demoscreen", NEW buttons PROVE PlaysOn(g, TallyTicks(g, buttons))
<1> DEFINE Near(h) == Leaves(g, h) /\ h.state # "demoscreen" /\ h.action # "playdemo"
<1>1. Near(g)
  BY DEF Seated, Leaves, IsRecord, GameFields, Off
<1>2. ASSUME NEW wait PROVE Near([g EXCEPT !.wait = wait])
  BY DEF Seated, Leaves, IsRecord, GameFields, Off
<1>3. ASSUME NEW h, Near(h) PROVE Near([h EXCEPT !.action = "worlddone"]) /\ Near(F_StartFinale(h))
  BY ZenonT(40), <1>3 DEF F_StartFinale, Leaves, IsRecord, GameFields, Off
<1> HIDE DEF Near
<1>4. Near(G_WorldDone([g EXCEPT !.wait = 0]))
  BY <1>2, <1>3 DEF G_WorldDone
<1>5. Near(TallyTicks(g, buttons))
  BY <1>1, <1>2, <1>4 DEF TallyTicks
<1> QED BY <1>5, LeavesSeated DEF Near

\* A tic at whose start nothing of a demo is asked for keeps the player.
LEMMA TicPlays ==
  ASSUME NEW before, Game(before), Ticking(before), NEW m, NEW cmd, NEW happens
  PROVE  LET v == G_Ticker(before, m, cmd, happens)
         IN Seated(v) /\ (before.action # "playdemo" /\ before.usergame => v.usergame)
<1> DEFINE reborn == G_DoReborn(before)
           g == Acts(Acts(reborn))
           read == IF g.demoplayback THEN G_ReadDemoTiccmd(g) ELSE g
           buttons == IF g.demoplayback /\ g.wait # 0 THEN "none" ELSE cmd
           told == CASE buttons = "pause" -> [read EXCEPT !.paused = ~@]
                     [] buttons = "save"  -> [read EXCEPT !.action = "savegame"]
                     [] OTHER             -> read
<1>1. /\ Game(reborn) /\ Ticking(reborn)
      /\ reborn.usergame = before.usergame /\ (reborn.action = "playdemo" => before.action = "playdemo")
  <2>1. Game(reborn)
    BY DoReborn
  <2>2. LET v == [before EXCEPT !.action = "loadlevel"] IN Leaves(before, v) /\ v.state = before.state /\ v.action = "loadlevel"
    BY DEF Ticking, Leaves, IsRecord, GameFields, Off
  <2>3. Ticking([before EXCEPT !.action = "loadlevel"])
    BY <2>2, LeavesTicking
  <2> QED BY <2>1, <2>2, <2>3 DEF G_DoReborn, Leaves
<1> HIDE DEF reborn
<1>2. /\ Game(Acts(reborn)) /\ Ticking(Acts(reborn)) /\ Acts(reborn).action # "playdemo"
      /\ before.action # "playdemo" /\ before.usergame => Acts(reborn).usergame
  BY <1>1, Acting, ActingPlays DEF Game
<1>3. /\ Game(g) /\ Ticking(g) /\ g.action # "playdemo"
      /\ before.action # "playdemo" /\ before.usergame => g.usergame
  BY <1>2, Acting, ActingPlays DEF Game
<1> HIDE DEF g
<1>4. PlaysOn(g, g)
  BY <1>3 DEF PlaysOn, Seated, Ticking
<1>5. PlaysOn(g, read) /\ Game(read)
  BY <1>3, <1>4, DemoTicks, ReadDemoTiccmd DEF PlaysOn
<1> HIDE DEF read
<1>6. PlaysOn(g, told) /\ Game(told)
  <2>1. LET v == [read EXCEPT !.paused = ~@] IN Leaves(read, v) /\ v.state = read.state /\ v.action = read.action
    BY <1>5 DEF Game, Leaves, IsRecord, GameFields, Off
  <2>2. LET v == [read EXCEPT !.action = "savegame"] IN Leaves(read, v) /\ v.state = read.state /\ v.action = "savegame"
    BY <1>5 DEF Game, Leaves, IsRecord, GameFields, Off
  <2>3. PlaysOn(read, [read EXCEPT !.paused = ~@]) /\ PlaysOn(read, [read EXCEPT !.action = "savegame"])
    BY <1>5, <2>1, <2>2, LeavesSeated DEF PlaysOn, Seated
  <2>4. Game([read EXCEPT !.paused = ~@]) /\ Game([read EXCEPT !.action = "savegame"])
    BY <1>5 DEF Game, IsRecord, GameFields, Off, PaceFits, Actions
  <2> HIDE DEF buttons
  <2> QED BY <1>5, <2>3, <2>4 DEF PlaysOn
<1> HIDE DEF told
<1>7. told.state \in States /\ Seated(told)
  BY <1>6 DEF Game, PlaysOn
<1>8. PlaysOn(told, CASE told.state = "level"        -> P_Ticker(told, m, buttons, happens)
                      [] told.state = "intermission" -> TallyTicks(told, buttons)
                      [] told.state = "finale"       -> F_Ticker(told, buttons)
                      [] told.state = "demoscreen"   -> D_PageTicker(told))
  BY <1>7, LevelTicks, TallyPlays, FinaleTicks, PageTicks DEF States
<1>9. PlaysOn(g, IF g.halted THEN g
                 ELSE CASE told.state = "level"        -> P_Ticker(told, m, buttons, happens)
                        [] told.state = "intermission" -> TallyTicks(told, buttons)
                        [] told.state = "finale"       -> F_Ticker(told, buttons)
                        [] told.state = "demoscreen"   -> D_PageTicker(told))
  BY <1>4, <1>6, <1>8 DEF PlaysOn
<1>10. PlaysOn(g, G_Ticker(before, m, cmd, happens))
  BY <1>9 DEF G_Ticker, told, buttons, read, g, reborn
<1> QED BY <1>3, <1>10 DEF PlaysOn

(* ----------------------------------------------------------------------- *)
(* What the menu may do to a game                                           *)
(* ----------------------------------------------------------------------- *)

Touched(g) ==
  {g, G_LoadGame(g), G_SaveGame(g), D_StartTitle(g), [g EXCEPT !.halted = TRUE], [g EXCEPT !.sendpause = TRUE],
   G_DeferedInitNew(g, "medium"), G_DeferedInitNew(g, "nightmare")}

Holds(w, g) == IsRecord(w, {"g", "m"}) /\ w.g = g

\* A game that is given up asks for the pages from the first.
LEMMA TouchedPlaysOn == ASSUME NEW g, Seated(g), NEW h \in Touched(g) PROVE PlaysOn(g, h)
<1> USE DEF Seated, Playing, PlaysOn, IsRecord, GameFields, Off
<1>1. PlaysOn(g, g)
  OBVIOUS
<1>2. PlaysOn(g, G_LoadGame(g)) /\ PlaysOn(g, G_SaveGame(g))
  BY DEF G_LoadGame, G_SaveGame
<1>3. PlaysOn(g, [g EXCEPT !.halted = TRUE]) /\ PlaysOn(g, [g EXCEPT !.sendpause = TRUE])
  OBVIOUS
<1>4. ASSUME NEW skill PROVE PlaysOn(g, G_DeferedInitNew(g, skill))
  BY DEF G_DeferedInitNew
<1>5. PlaysOn(g, D_StartTitle(g))
  BY ZenonT(40) DEF D_StartTitle, D_AdvanceDemo
<1> USE DEF Touched
<1> HIDE DEF PlaysOn
<1> QED BY <1>1, <1>2, <1>3, <1>4, <1>5

LEMMA MenuHolds == ASSUME NEW w, NEW g, Holds(w, g), NEW name
  PROVE  /\ Holds(M_StartControlPanel(w), g) /\ Holds(M_SetupNextMenu(w, name), g) /\ Holds(M_ClearMenus(w), g)
         /\ Holds(M_StartMessage(w, name), g) /\ Holds(M_ReadSaveStrings(w), g) /\ Holds(M_SaveSelect(w), g)
  BY DEF Holds, IsRecord, M_StartControlPanel, M_SetupNextMenu, M_ClearMenus, M_StartMessage, M_ReadSaveStrings, M_SaveSelect

LEMMA SetGameHolds == ASSUME NEW w, NEW g, Holds(w, g), NEW h PROVE Holds([w EXCEPT !.g = h], h)
  BY DEF Holds, IsRecord

LEMMA MenusHold == ASSUME NEW w, NEW g, Holds(w, g), NEW choice
  PROVE  /\ Holds(M_LoadGame(w), g) /\ Holds(M_SaveGame(w), g) /\ Holds(M_QuickSave(w), g) /\ Holds(M_QuickLoad(w), g)
         /\ Holds(M_NewGame(w), g) /\ Holds(M_Episode(w, choice), g) /\ Holds(M_EndGame(w), g)
<1>1. ASSUME NEW v, Holds(v, g) PROVE Holds([v EXCEPT !.m.quick = "next"], g)
  BY <1>1 DEF Holds, IsRecord
<1> QED BY <1>1, MenuHolds DEF M_LoadGame, M_SaveGame, M_QuickSave, M_QuickLoad, M_NewGame, M_Episode, M_EndGame

\* A save and a load are asked for, and a skill is chosen for the next game.
LEMMA MenuAsks == ASSUME NEW w, NEW g, Holds(w, g)
  PROVE  /\ Holds(M_LoadSelect(w), G_LoadGame(g)) /\ Holds(M_DoSave(w), G_SaveGame(g))
         /\ \A skill : Holds(M_ClearMenus([w EXCEPT !.g = G_DeferedInitNew(@, skill)]), G_DeferedInitNew(g, skill))
<1>1. w.g = g
  BY DEF Holds
<1>2. ASSUME NEW h PROVE Holds(M_ClearMenus([w EXCEPT !.g = h]), h)
  BY SetGameHolds, MenuHolds
<1>3. ASSUME NEW v, NEW h, Holds(v, h), NEW quick PROVE Holds([v EXCEPT !.m.quick = quick], h)
  BY <1>3 DEF Holds, IsRecord
<1>4. Holds(M_DoSave(w), G_SaveGame(g))
  BY <1>1, <1>2, <1>3 DEF M_DoSave
<1> QED BY <1>1, <1>2, <1>4 DEF M_LoadSelect

May(w, g) == \E h \in Touched(g) : Holds(w, h)

LEMMA KeysMay == ASSUME NEW w, NEW g, Holds(w, g), w.m.menu \in Menus, NEW key, NEW v \in M_Responder(w, key)
  PROVE  May(v, g)
<1>1. ASSUME NEW u, NEW h, Holds(u, h)
      PROVE  /\ Holds(u, g) => May(u, g)
             /\ h \in {G_LoadGame(g), G_SaveGame(g), D_StartTitle(g), [g EXCEPT !.halted = TRUE],
                       G_DeferedInitNew(g, "medium"), G_DeferedInitNew(g, "nightmare")} => May(u, g)
  BY <1>1 DEF May, Touched
<1>2. CASE w.m.typing
  <2>1. \A written : Holds([w EXCEPT !.m.written = written], g)
    BY DEF Holds, IsRecord
  <2>2. Holds([w EXCEPT !.m.typing = FALSE, !.m.written = w.m.old], g) /\ Holds([w EXCEPT !.m.typing = FALSE], g)
    BY DEF Holds, IsRecord
  <2>3. May(Types(w, key), g)
    BY <1>1, <2>1, <2>2, MenuAsks DEF Types
  <2> QED BY <1>2, <2>3 DEF M_Responder
<1>3. CASE ~w.m.typing /\ w.m.message # "none"
  <2> DEFINE u == [w EXCEPT !.m.active = w.m.last, !.m.message = "none"]
  <2>1. Holds(u, g)
    BY DEF Holds, IsRecord
  <2> HIDE DEF u
  <2>2. ASSUME NEW message PROVE May(Answers(u, message, key), g)
    <3>1. Holds([M_ClearMenus(u) EXCEPT !.g = D_StartTitle(@)], D_StartTitle(g))
      BY <2>1, MenuHolds, SetGameHolds DEF Holds
    <3>2. Holds([u EXCEPT !.g.halted = TRUE], [g EXCEPT !.halted = TRUE])
      BY <2>1 DEF Holds, IsRecord
    <3> QED BY <1>1, <2>1, <3>1, <3>2, MenuAsks DEF Answers
  <2>3. May(AnswersMessage(w, key), g)
    BY <2>2, MenuHolds DEF AnswersMessage, May, u
  <2> QED BY <1>3, <2>3 DEF M_Responder
<1>4. CASE ~w.m.typing /\ w.m.message = "none" /\ ~w.m.active
  <2>1. key \in {"F1", "F2", "F3", "F4", "F6", "F7", "F9", "F10", "escape"} => Holds(FunctionKeys(w, key), g)
    BY MenuHolds, MenusHold DEF FunctionKeys
  <2> QED BY <1>1, <1>4, <2>1 DEF M_Responder
<1>5. CASE ~w.m.typing /\ w.m.message = "none" /\ w.m.active
  <2>1. ASSUME NEW skill \in {"medium", "nightmare"} PROVE May(M_ChooseSkill(w, skill), g)
    BY <1>1, MenuHolds, MenuAsks DEF M_ChooseSkill
  <2>2. /\ \A name : Holds(M_SetupNextMenu(w, name), g)
        /\ \A message : Holds(M_StartMessage(w, message), g)
    BY MenuHolds
  <2>3. \A u \in Items(w) : May(u, g)
    BY <1>1, <2>1, <2>2, MenuHolds, MenusHold, MenuAsks DEF Items, Menus
  <2> HIDE DEF Items
  <2>4. Holds(M_ClearMenus(w), g)
    BY MenuHolds
  <2>5. v \in CASE key = "enter"  -> Items(w)
                [] key = "escape" -> {M_ClearMenus(w)}
                [] key = "back"   -> {M_SetupNextMenu(w, IF mode = "commercial" /\ w.m.menu = "New" THEN "Main" ELSE prevMenu[w.m.menu])}
                [] OTHER          -> {}
    BY <1>5 DEF M_Responder
  <2> QED BY <1>1, <2>2, <2>3, <2>4, <2>5
<1> QED BY <1>2, <1>3, <1>4, <1>5

LEMMA GameMay == ASSUME NEW w, NEW g, Holds(w, g), NEW key PROVE May(G_Responder(w, key), g)
<1>1. Holds([w EXCEPT !.g.sendpause = TRUE], [g EXCEPT !.sendpause = TRUE])
  BY DEF Holds, IsRecord
<1>2. Holds(M_StartControlPanel(w), g)
  BY MenuHolds
<1> QED BY <1>1, <1>2 DEF G_Responder, May, Touched

(* ----------------------------------------------------------------------- *)
(* The theorem about who plays                                              *)
(* ----------------------------------------------------------------------- *)

SInv == IInv /\ Seated(game)

LEMMA StartsSeated == FlowInit => SInv
<1> SUFFICES ASSUME FlowInit PROVE Seated(game)
  BY Starts DEF SInv
<1>1. Ticking(Off)
  BY DEF Off, Ticking, Playing, IsRecord, GameFields
<1>2. Seated(Off) /\ Seated([Off EXCEPT !.file = {[skill |-> "medium", map |-> 3]}])
  BY DEF Off, Seated, Playing, IsRecord, GameFields
<1>3. ASSUME NEW g, Seated(g) PROVE Seated(D_StartTitle(g))
  BY <1>3, TouchedPlaysOn DEF Touched, PlaysOn
<1>4. ASSUME NEW skill, NEW map PROVE Seated(G_InitNew(Off, skill, map))
  BY <1>1, NewStarts DEF Seated, Ticking
<1> QED BY <1>2, <1>3, <1>4 DEF FlowInit

\* Every step keeps the player, but for the one after the game was given up.
LEMMA NextPlays ==
  SInv /\ [FlowNext]_flow_vars => SInv' /\ (game.usergame /\ ~game'.usergame => game.sequence = -1)
<1> SUFFICES ASSUME SInv, [FlowNext]_flow_vars PROVE Seated(game)' /\ (game.usergame /\ ~game'.usergame => game.sequence = -1)
  BY NextKeeps DEF SInv
<1> USE DEF SInv
<1>1. ASSUME NEW key \in Keys, KeyGoesDown(key) PROVE PlaysOn(game, game')
  <2> DEFINE w == World(game, menu)
  <2>1. Holds(w, game) /\ w.m.menu \in Menus
    BY DEF World, Holds, IsRecord, IInv, Menu
  <2>2. PICK v : /\ v \in (IF M_Responder(w, key) = {} THEN {G_Responder(w, key)} ELSE M_Responder(w, key))
                 /\ game' = v.g
    BY <1>1 DEF KeyGoesDown
  <2>3. May(v, game)
    BY <2>1, <2>2, KeysMay, GameMay
  <2>4. game' \in Touched(game)
    BY <2>2, <2>3 DEF May, Holds
  <2> QED BY <2>4, TouchedPlaysOn
<1>2. ASSUME NEW fire \in BOOLEAN, Builds(fire) PROVE PlaysOn(game, game')
  <2>1. game' = [game EXCEPT !.sendsave = FALSE, !.sendpause = FALSE]
    BY <1>2 DEF Builds, G_BuildTiccmd
  <2>2. Leaves(game, game') /\ game'.state = game.state /\ game'.action = game.action
    BY <2>1 DEF Seated, Leaves, IsRecord, GameFields, Off
  <2> QED BY <2>2, LeavesSeated DEF Seated
<1>3. ASSUME NEW happens, RunsTic(happens)
      PROVE  Seated(game') /\ (game.usergame /\ ~game'.usergame => game.sequence = -1)
  <2>1. PICK g : /\ g = IF game.advancedemo THEN D_DoAdvanceDemo(game) ELSE game
                 /\ game' = G_Ticker(g, menu, Head(queue), happens)
    BY <1>3 DEF RunsTic
  <2>2. Game(g) /\ Ticking(g)
    BY <2>1, DoAdvanceDemo, AdvanceTicks DEF IInv, Seated, Ticking
  <2>3. Seated(game') /\ (g.action # "playdemo" /\ g.usergame => game'.usergame)
    BY <2>1, <2>2, TicPlays
  <2>4. CASE game.advancedemo
    BY <2>3, <2>4 DEF Seated
  <2>5. CASE ~game.advancedemo
    BY <2>1, <2>3, <2>5 DEF Seated
  <2> QED BY <2>4, <2>5
<1>4. CASE UNCHANGED flow_vars
  BY <1>4 DEF flow_vars
<1> QED BY <1>1, <1>2, <1>3, <1>4 DEF FlowNext, PlaysOn

\* A game is played until its end is asked for: no page runs out, no demo ends
\* and no key of the menu takes it away, whatever is left over from before it.
THEOREM NobodyIsInterrupted == FlowSpec => GameIsNotInterrupted
<1>1. SInv /\ [FlowNext]_flow_vars => [game.usergame /\ ~game'.usergame => game.sequence = -1]_flow_vars
  BY NextPlays
<1>2. SInv /\ [FlowNext]_flow_vars => SInv'
  BY NextPlays
<1> QED BY StartsSeated, <1>1, <1>2, PTL DEF FlowSpec, GameIsNotInterrupted

(* ----------------------------------------------------------------------- *)
(* The weapons' states                                                     *)
(* ----------------------------------------------------------------------- *)

\* The states a weapon passes through while it is in hand, and those of all flashes.
Anims(w) == {weaponinfo[w].upstate, weaponinfo[w].downstate, weaponinfo[w].readystate, weaponinfo[w].atkstate}
Row(anim) == {<<anim, i>> : i \in 1 .. Len(states[anim].tics)}
HandStates(w) == UNION {Row(anim) : anim \in Anims(w)}
Lights == {"LIGHTDONE", "PISTOLFLASH", "SGUNFLASH1", "DSGUNFLASH1", "CHAINFLASH1", "CHAINFLASH2", "MISSILEFLASH1",
           "PLASMAFLASH1", "PLASMAFLASH2", "BFGFLASH1", "NULL"}
FlashStates == UNION {Row(anim) : anim \in Lights}

\* Which state of its attack uses ammunition, and how much of it.
FiresAt(w) ==
  CASE w \in {"pistol", "shotgun", "supershotgun", "missile"} -> 2 [] w = "plasma" -> 1 [] w = "bfg" -> 3 [] OTHER -> 0
Charge(w) == CASE w = "bfg" -> BFGCELLS [] w = "supershotgun" -> DSGUNCELLS [] OTHER -> 1

\* The tables, row by row: the provers read no more of them at a time.
LEMMA RowsOfWeapons == ASSUME NEW anim \in DOMAIN WeaponStates PROVE states[anim] = WeaponStates[anim]
BY Zenon DEF states

LEMMA FistRows ==
  /\ states["PUNCHUP"] = Chain(<<1>>, <<"A_Raise">>, "PUNCHUP")
  /\ states["PUNCHDOWN"] = Chain(<<1>>, <<"A_Lower">>, "PUNCHDOWN")
  /\ states["PUNCH"] = Chain(<<1>>, <<"A_WeaponReady">>, "PUNCH")
  /\ states["PUNCH1"] = Chain(<<4, 4, 5, 4, 5>>, <<"none", "A_Punch", "none", "none", "A_ReFire">>, "PUNCH")
BY RowsOfWeapons DEF WeaponStates

LEMMA PistolRows ==
  /\ states["PISTOLUP"] = Chain(<<1>>, <<"A_Raise">>, "PISTOLUP")
  /\ states["PISTOLDOWN"] = Chain(<<1>>, <<"A_Lower">>, "PISTOLDOWN")
  /\ states["PISTOL"] = Chain(<<1>>, <<"A_WeaponReady">>, "PISTOL")
  /\ states["PISTOL1"] = Chain(<<4, 6, 4, 5>>, <<"none", "A_FirePistol", "none", "A_ReFire">>, "PISTOL")
BY RowsOfWeapons DEF WeaponStates

LEMMA ShotgunRows ==
  /\ states["SGUNUP"] = Chain(<<1>>, <<"A_Raise">>, "SGUNUP")
  /\ states["SGUNDOWN"] = Chain(<<1>>, <<"A_Lower">>, "SGUNDOWN")
  /\ states["SGUN"] = Chain(<<1>>, <<"A_WeaponReady">>, "SGUN")
  /\ states["SGUN1"] = Chain(<<3, 7, 5, 5, 4, 5, 5, 3, 7>>, <<"none", "A_FireShotgun", "none", "none", "none", "none", "none", "none", "A_ReFire">>, "SGUN")
BY RowsOfWeapons DEF WeaponStates

LEMMA ChaingunRows ==
  /\ states["CHAINUP"] = Chain(<<1>>, <<"A_Raise">>, "CHAINUP")
  /\ states["CHAINDOWN"] = Chain(<<1>>, <<"A_Lower">>, "CHAINDOWN")
  /\ states["CHAIN"] = Chain(<<1>>, <<"A_WeaponReady">>, "CHAIN")
  /\ states["CHAIN1"] = Chain(<<4, 4, 0>>, <<"A_FireCGun", "A_FireCGun", "A_ReFire">>, "CHAIN")
BY RowsOfWeapons DEF WeaponStates

LEMMA MissileRows ==
  /\ states["MISSILEUP"] = Chain(<<1>>, <<"A_Raise">>, "MISSILEUP")
  /\ states["MISSILEDOWN"] = Chain(<<1>>, <<"A_Lower">>, "MISSILEDOWN")
  /\ states["MISSILE"] = Chain(<<1>>, <<"A_WeaponReady">>, "MISSILE")
  /\ states["MISSILE1"] = Chain(<<8, 12, 0>>, <<"A_GunFlash", "A_FireMissile", "A_ReFire">>, "MISSILE")
BY RowsOfWeapons DEF WeaponStates

LEMMA PlasmaRows ==
  /\ states["PLASMAUP"] = Chain(<<1>>, <<"A_Raise">>, "PLASMAUP")
  /\ states["PLASMADOWN"] = Chain(<<1>>, <<"A_Lower">>, "PLASMADOWN")
  /\ states["PLASMA"] = Chain(<<1>>, <<"A_WeaponReady">>, "PLASMA")
  /\ states["PLASMA1"] = Chain(<<3, 20>>, <<"A_FirePlasma", "A_ReFire">>, "PLASMA")
BY RowsOfWeapons DEF WeaponStates

LEMMA BfgRows ==
  /\ states["BFGUP"] = Chain(<<1>>, <<"A_Raise">>, "BFGUP")
  /\ states["BFGDOWN"] = Chain(<<1>>, <<"A_Lower">>, "BFGDOWN")
  /\ states["BFG"] = Chain(<<1>>, <<"A_WeaponReady">>, "BFG")
  /\ states["BFG1"] = Chain(<<20, 10, 10, 20>>, <<"A_BFGsound", "A_GunFlash", "A_FireBFG", "A_ReFire">>, "BFG")
BY RowsOfWeapons DEF WeaponStates

LEMMA ChainsawRows ==
  /\ states["SAWUP"] = Chain(<<1>>, <<"A_Raise">>, "SAWUP")
  /\ states["SAWDOWN"] = Chain(<<1>>, <<"A_Lower">>, "SAWDOWN")
  /\ states["SAW"] = Chain(<<4, 4>>, <<"A_WeaponReady", "A_WeaponReady">>, "SAW")
  /\ states["SAW1"] = Chain(<<4, 4, 0>>, <<"A_Saw", "A_Saw", "A_ReFire">>, "SAW")
BY RowsOfWeapons DEF WeaponStates

LEMMA SuperShotgunRows ==
  /\ states["DSGUNUP"] = Chain(<<1>>, <<"A_Raise">>, "DSGUNUP")
  /\ states["DSGUNDOWN"] = Chain(<<1>>, <<"A_Lower">>, "DSGUNDOWN")
  /\ states["DSGUN"] = Chain(<<1>>, <<"A_WeaponReady">>, "DSGUN")
  /\ states["DSGUN1"] = Chain(<<3, 7, 7, 7, 7, 7, 7, 6, 6, 5>>, <<"none", "A_FireShotgun2", "none", "A_CheckReload", "A_OpenShotgun2", "none", "A_LoadShotgun2", "none", "A_CloseShotgun2", "A_ReFire">>, "DSGUN")
BY RowsOfWeapons DEF WeaponStates
LEMMA LightRows ==
  /\ states["LIGHTDONE"] = Chain(<<0>>, <<"A_Light0">>, "NULL")
  /\ states["PISTOLFLASH"] = Chain(<<7>>, <<"A_Light1">>, "LIGHTDONE")
  /\ states["SGUNFLASH1"] = Chain(<<4, 3>>, <<"A_Light1", "A_Light2">>, "LIGHTDONE")
  /\ states["DSGUNFLASH1"] = Chain(<<5, 4>>, <<"A_Light1", "A_Light2">>, "LIGHTDONE")
  /\ states["CHAINFLASH1"] = Chain(<<5>>, <<"A_Light1">>, "LIGHTDONE")
  /\ states["CHAINFLASH2"] = Chain(<<5>>, <<"A_Light2">>, "LIGHTDONE")
  /\ states["MISSILEFLASH1"] = Chain(<<3, 4, 4, 4>>, <<"A_Light1", "none", "A_Light2", "A_Light2">>, "LIGHTDONE")
  /\ states["PLASMAFLASH1"] = Chain(<<4>>, <<"A_Light1">>, "LIGHTDONE")
  /\ states["PLASMAFLASH2"] = Chain(<<4>>, <<"A_Light1">>, "LIGHTDONE")
  /\ states["BFGFLASH1"] = Chain(<<11, 6>>, <<"A_Light1", "A_Light2">>, "LIGHTDONE")
  /\ states["NULL"] = Chain(<<-1>>, <<"none">>, "NULL")
BY RowsOfWeapons DEF WeaponStates

LEMMA LightsLast ==
  ASSUME NEW anim \in Lights
  PROVE  /\ Len(states[anim].tics) \in 1..10 /\ states[anim].next \in Lights
         /\ \A n \in 1 .. Len(states[anim].tics) : states[anim].acts[n] \in {"A_Light0", "A_Light1", "A_Light2", "none"}
<1>1. Len(states[anim].tics) \in 1..10 /\ states[anim].next \in Lights
  BY LightRows DEF Lights, Chain
<1>2. ASSUME NEW n \in 1 .. Len(states[anim].tics)
      PROVE  states[anim].acts[n] \in {"A_Light0", "A_Light1", "A_Light2", "none"}
  <2>1. CASE anim = "SGUNFLASH1" BY <2>1, LightRows DEF Chain
  <2>4. CASE anim = "DSGUNFLASH1" BY <2>4, LightRows DEF Chain
  <2>5. CASE anim = "BFGFLASH1" BY <2>5, LightRows DEF Chain
  <2>2. CASE anim = "MISSILEFLASH1" BY <2>2, LightRows DEF Chain
  <2>3. CASE anim \in {"LIGHTDONE", "PISTOLFLASH"} BY <2>3, LightRows DEF Chain
  <2>6. CASE anim \in {"CHAINFLASH1", "CHAINFLASH2"} BY <2>6, LightRows DEF Chain
  <2>7. CASE anim \in {"PLASMAFLASH1", "PLASMAFLASH2"} BY <2>7, LightRows DEF Chain
  <2>8. CASE anim = "NULL" BY <2>8, LightRows DEF Chain
  <2> QED BY <2>1, <2>2, <2>3, <2>4, <2>5, <2>6, <2>7, <2>8 DEF Lights
<1> QED BY <1>1, <1>2

\* The states of a chain, and its first.
LEMMA RowHas ==
  ASSUME NEW anim, NEW n \in 1 .. Len(states[anim].tics)
  PROVE  <<anim, n>> \in Row(anim)
BY DEF Row

LEMMA RowStarts == ASSUME NEW anim, Len(states[anim].tics) \in 1..10 PROVE First(anim) \in Row(anim)
<1>0. ASSUME NEW l \in 1..10 PROVE 1 \in 1..l OBVIOUS
<1>1. 1 \in 1 .. Len(states[anim].tics) BY <1>0
<1> QED BY <1>1, RowHas DEF First

\* A flash goes on to its next state or to none, and its actions only light.
LEMMA FlashFollows ==
  ASSUME NEW s \in FlashStates
  PROVE  NextState(s) \in FlashStates /\ ActionOf(s) \in {"A_Light0", "A_Light1", "A_Light2", "none"}
<1>0. PICK anim \in Lights : s \in Row(anim) BY DEF FlashStates
<1>1. PICK n \in 1 .. Len(states[anim].tics) : s = <<anim, n>> BY <1>0 DEF Row
<1>2. s[1] = anim /\ s[2] = n BY <1>1
<1>3. Len(states[anim].tics) \in 1..10 /\ states[anim].next \in Lights BY LightsLast
<1>4. Len(states[states[anim].next].tics) \in 1..10 BY <1>3, LightsLast
<1>5. NextState(s) \in FlashStates
  <2>1. CASE n < Len(states[anim].tics)
    <3>1. <<anim, n + 1>> \in Row(anim) BY <1>3, <2>1, RowHas
    <3> QED BY <1>2, <2>1, <3>1 DEF NextState, FlashStates
  <2>2. CASE ~(n < Len(states[anim].tics))
    <3>1. First(states[anim].next) \in Row(states[anim].next) BY <1>4, RowStarts
    <3> QED BY <1>2, <1>3, <2>2, <3>1 DEF NextState, FlashStates
  <2> QED BY <2>1, <2>2
<1>6. ActionOf(s) \in {"A_Light0", "A_Light1", "A_Light2", "none"}
  BY <1>1, <1>2, LightsLast DEF ActionOf
<1> QED BY <1>5, <1>6

\* How the states of a weapon hang together: up and down go on, an attack ends in readiness.
Shape(w) ==
  LET i == weaponinfo[w]
      size(anim) == Len(states[anim].tics)
  IN /\ size(i.upstate) = 1 /\ states[i.upstate].next = i.upstate
     /\ size(i.downstate) = 1 /\ states[i.downstate].next = i.downstate
     /\ size(i.readystate) \in 1..2 /\ states[i.readystate].next = i.readystate
     /\ size(i.atkstate) \in 1..10 /\ states[i.atkstate].next = i.readystate
     /\ i.upstate \notin {"NULL", i.downstate, i.readystate, i.atkstate}
     /\ i.downstate \notin {"NULL", i.readystate, i.atkstate} /\ i.readystate \notin {"NULL", i.atkstate}
     /\ i.atkstate # "NULL" /\ i.flashstate \in Lights

\* What the actions do of which weapon.
ActsAs(w, s) ==
  LET does == ActionOf(s)
      i == weaponinfo[w]
      at(n) == s = <<i.atkstate, n>> /\ n = FiresAt(w)
  IN /\ does = "A_Lower" <=> s[1] = i.downstate
     /\ does = "A_FireCGun" => w = "chaingun"
     /\ does = "A_FirePistol" => w = "pistol" /\ at(2)
     /\ does = "A_FireShotgun" => w = "shotgun" /\ at(2)
     /\ does = "A_FireShotgun2" => w = "supershotgun" /\ at(2)
     /\ does = "A_FireMissile" => w = "missile" /\ at(2)
     /\ does = "A_FirePlasma" => w = "plasma" /\ at(1)
     /\ does = "A_FireBFG" => w = "bfg" /\ at(3)

\* Each weapon's chains are so: what the proofs below know of the tables.
LEMMA FistStates == Shape("fist") /\ \A s \in HandStates("fist") : ActsAs("fist", s)
<1>1. /\ weaponinfo["fist"].upstate = "PUNCHUP" /\ weaponinfo["fist"].downstate = "PUNCHDOWN"
      /\ weaponinfo["fist"].readystate = "PUNCH" /\ weaponinfo["fist"].atkstate = "PUNCH1"
      /\ weaponinfo["fist"].flashstate \in Lights
  BY DEF weaponinfo, Weapon, Lights
<1>2. Shape("fist")
  BY <1>1, FistRows DEF Shape, Chain
<1>3. ASSUME NEW s \in HandStates("fist") PROVE ActsAs("fist", s)
  <2>1. Row("PUNCHUP") = {<<"PUNCHUP", 1>>} /\ Row("PUNCHDOWN") = {<<"PUNCHDOWN", 1>>}
    BY FistRows DEF Row, Chain
  <2>2. Row("PUNCH") = {<<"PUNCH", n>> : n \in 1..1} /\ Row("PUNCH1") = {<<"PUNCH1", n>> : n \in 1..5}
    BY FistRows DEF Row, Chain
  <2>3. \/ s \in {<<"PUNCHUP", 1>>, <<"PUNCHDOWN", 1>>}
        \/ s \in {<<"PUNCH", n>> : n \in 1..1} \/ s \in {<<"PUNCH1", n>> : n \in 1..5}
    BY <1>1, <2>1, <2>2 DEF HandStates, Anims
  <2> QED BY <1>1, <2>3, FistRows DEF ActsAs, ActionOf, FiresAt, Chain
<1> QED BY <1>2, <1>3

LEMMA PistolStates == Shape("pistol") /\ \A s \in HandStates("pistol") : ActsAs("pistol", s)
<1>1. /\ weaponinfo["pistol"].upstate = "PISTOLUP" /\ weaponinfo["pistol"].downstate = "PISTOLDOWN"
      /\ weaponinfo["pistol"].readystate = "PISTOL" /\ weaponinfo["pistol"].atkstate = "PISTOL1"
      /\ weaponinfo["pistol"].flashstate \in Lights
  BY DEF weaponinfo, Weapon, Lights
<1>2. Shape("pistol")
  BY <1>1, PistolRows DEF Shape, Chain
<1>3. ASSUME NEW s \in HandStates("pistol") PROVE ActsAs("pistol", s)
  <2>1. Row("PISTOLUP") = {<<"PISTOLUP", 1>>} /\ Row("PISTOLDOWN") = {<<"PISTOLDOWN", 1>>}
    BY PistolRows DEF Row, Chain
  <2>2. Row("PISTOL") = {<<"PISTOL", n>> : n \in 1..1} /\ Row("PISTOL1") = {<<"PISTOL1", n>> : n \in 1..4}
    BY PistolRows DEF Row, Chain
  <2>3. \/ s \in {<<"PISTOLUP", 1>>, <<"PISTOLDOWN", 1>>}
        \/ s \in {<<"PISTOL", n>> : n \in 1..1} \/ s \in {<<"PISTOL1", n>> : n \in 1..4}
    BY <1>1, <2>1, <2>2 DEF HandStates, Anims
  <2> QED BY <1>1, <2>3, PistolRows DEF ActsAs, ActionOf, FiresAt, Chain
<1> QED BY <1>2, <1>3

LEMMA ShotgunStates == Shape("shotgun") /\ \A s \in HandStates("shotgun") : ActsAs("shotgun", s)
<1>1. /\ weaponinfo["shotgun"].upstate = "SGUNUP" /\ weaponinfo["shotgun"].downstate = "SGUNDOWN"
      /\ weaponinfo["shotgun"].readystate = "SGUN" /\ weaponinfo["shotgun"].atkstate = "SGUN1"
      /\ weaponinfo["shotgun"].flashstate \in Lights
  BY DEF weaponinfo, Weapon, Lights
<1>2. Shape("shotgun")
  BY <1>1, ShotgunRows DEF Shape, Chain
<1>3. ASSUME NEW s \in HandStates("shotgun") PROVE ActsAs("shotgun", s)
  <2>1. Row("SGUNUP") = {<<"SGUNUP", 1>>} /\ Row("SGUNDOWN") = {<<"SGUNDOWN", 1>>}
    BY ShotgunRows DEF Row, Chain
  <2>2. Row("SGUN") = {<<"SGUN", n>> : n \in 1..1} /\ Row("SGUN1") = {<<"SGUN1", n>> : n \in 1..9}
    BY ShotgunRows DEF Row, Chain
  <2>3. \/ s \in {<<"SGUNUP", 1>>, <<"SGUNDOWN", 1>>}
        \/ s \in {<<"SGUN", n>> : n \in 1..1} \/ s \in {<<"SGUN1", n>> : n \in 1..9}
    BY <1>1, <2>1, <2>2 DEF HandStates, Anims
  <2> QED BY <1>1, <2>3, ShotgunRows DEF ActsAs, ActionOf, FiresAt, Chain
<1> QED BY <1>2, <1>3

LEMMA ChaingunStates == Shape("chaingun") /\ \A s \in HandStates("chaingun") : ActsAs("chaingun", s)
<1>1. /\ weaponinfo["chaingun"].upstate = "CHAINUP" /\ weaponinfo["chaingun"].downstate = "CHAINDOWN"
      /\ weaponinfo["chaingun"].readystate = "CHAIN" /\ weaponinfo["chaingun"].atkstate = "CHAIN1"
      /\ weaponinfo["chaingun"].flashstate \in Lights
  BY DEF weaponinfo, Weapon, Lights
<1>2. Shape("chaingun")
  BY <1>1, ChaingunRows DEF Shape, Chain
<1>3. ASSUME NEW s \in HandStates("chaingun") PROVE ActsAs("chaingun", s)
  <2>1. Row("CHAINUP") = {<<"CHAINUP", 1>>} /\ Row("CHAINDOWN") = {<<"CHAINDOWN", 1>>}
    BY ChaingunRows DEF Row, Chain
  <2>2. Row("CHAIN") = {<<"CHAIN", n>> : n \in 1..1} /\ Row("CHAIN1") = {<<"CHAIN1", n>> : n \in 1..3}
    BY ChaingunRows DEF Row, Chain
  <2>3. \/ s \in {<<"CHAINUP", 1>>, <<"CHAINDOWN", 1>>}
        \/ s \in {<<"CHAIN", n>> : n \in 1..1} \/ s \in {<<"CHAIN1", n>> : n \in 1..3}
    BY <1>1, <2>1, <2>2 DEF HandStates, Anims
  <2> QED BY <1>1, <2>3, ChaingunRows DEF ActsAs, ActionOf, FiresAt, Chain
<1> QED BY <1>2, <1>3

LEMMA MissileStates == Shape("missile") /\ \A s \in HandStates("missile") : ActsAs("missile", s)
<1>1. /\ weaponinfo["missile"].upstate = "MISSILEUP" /\ weaponinfo["missile"].downstate = "MISSILEDOWN"
      /\ weaponinfo["missile"].readystate = "MISSILE" /\ weaponinfo["missile"].atkstate = "MISSILE1"
      /\ weaponinfo["missile"].flashstate \in Lights
  BY DEF weaponinfo, Weapon, Lights
<1>2. Shape("missile")
  BY <1>1, MissileRows DEF Shape, Chain
<1>3. ASSUME NEW s \in HandStates("missile") PROVE ActsAs("missile", s)
  <2>1. Row("MISSILEUP") = {<<"MISSILEUP", 1>>} /\ Row("MISSILEDOWN") = {<<"MISSILEDOWN", 1>>}
    BY MissileRows DEF Row, Chain
  <2>2. Row("MISSILE") = {<<"MISSILE", n>> : n \in 1..1} /\ Row("MISSILE1") = {<<"MISSILE1", n>> : n \in 1..3}
    BY MissileRows DEF Row, Chain
  <2>3. \/ s \in {<<"MISSILEUP", 1>>, <<"MISSILEDOWN", 1>>}
        \/ s \in {<<"MISSILE", n>> : n \in 1..1} \/ s \in {<<"MISSILE1", n>> : n \in 1..3}
    BY <1>1, <2>1, <2>2 DEF HandStates, Anims
  <2> QED BY <1>1, <2>3, MissileRows DEF ActsAs, ActionOf, FiresAt, Chain
<1> QED BY <1>2, <1>3

LEMMA PlasmaStates == Shape("plasma") /\ \A s \in HandStates("plasma") : ActsAs("plasma", s)
<1>1. /\ weaponinfo["plasma"].upstate = "PLASMAUP" /\ weaponinfo["plasma"].downstate = "PLASMADOWN"
      /\ weaponinfo["plasma"].readystate = "PLASMA" /\ weaponinfo["plasma"].atkstate = "PLASMA1"
      /\ weaponinfo["plasma"].flashstate \in Lights
  BY DEF weaponinfo, Weapon, Lights
<1>2. Shape("plasma")
  BY <1>1, PlasmaRows DEF Shape, Chain
<1>3. ASSUME NEW s \in HandStates("plasma") PROVE ActsAs("plasma", s)
  <2>1. Row("PLASMAUP") = {<<"PLASMAUP", 1>>} /\ Row("PLASMADOWN") = {<<"PLASMADOWN", 1>>}
    BY PlasmaRows DEF Row, Chain
  <2>2. Row("PLASMA") = {<<"PLASMA", n>> : n \in 1..1} /\ Row("PLASMA1") = {<<"PLASMA1", n>> : n \in 1..2}
    BY PlasmaRows DEF Row, Chain
  <2>3. \/ s \in {<<"PLASMAUP", 1>>, <<"PLASMADOWN", 1>>}
        \/ s \in {<<"PLASMA", n>> : n \in 1..1} \/ s \in {<<"PLASMA1", n>> : n \in 1..2}
    BY <1>1, <2>1, <2>2 DEF HandStates, Anims
  <2> QED BY <1>1, <2>3, PlasmaRows DEF ActsAs, ActionOf, FiresAt, Chain
<1> QED BY <1>2, <1>3

LEMMA BfgStates == Shape("bfg") /\ \A s \in HandStates("bfg") : ActsAs("bfg", s)
<1>1. /\ weaponinfo["bfg"].upstate = "BFGUP" /\ weaponinfo["bfg"].downstate = "BFGDOWN"
      /\ weaponinfo["bfg"].readystate = "BFG" /\ weaponinfo["bfg"].atkstate = "BFG1"
      /\ weaponinfo["bfg"].flashstate \in Lights
  BY DEF weaponinfo, Weapon, Lights
<1>2. Shape("bfg")
  BY <1>1, BfgRows DEF Shape, Chain
<1>3. ASSUME NEW s \in HandStates("bfg") PROVE ActsAs("bfg", s)
  <2>1. Row("BFGUP") = {<<"BFGUP", 1>>} /\ Row("BFGDOWN") = {<<"BFGDOWN", 1>>}
    BY BfgRows DEF Row, Chain
  <2>2. Row("BFG") = {<<"BFG", n>> : n \in 1..1} /\ Row("BFG1") = {<<"BFG1", n>> : n \in 1..4}
    BY BfgRows DEF Row, Chain
  <2>3. \/ s \in {<<"BFGUP", 1>>, <<"BFGDOWN", 1>>}
        \/ s \in {<<"BFG", n>> : n \in 1..1} \/ s \in {<<"BFG1", n>> : n \in 1..4}
    BY <1>1, <2>1, <2>2 DEF HandStates, Anims
  <2> QED BY <1>1, <2>3, BfgRows DEF ActsAs, ActionOf, FiresAt, Chain
<1> QED BY <1>2, <1>3

LEMMA ChainsawStates == Shape("chainsaw") /\ \A s \in HandStates("chainsaw") : ActsAs("chainsaw", s)
<1>1. /\ weaponinfo["chainsaw"].upstate = "SAWUP" /\ weaponinfo["chainsaw"].downstate = "SAWDOWN"
      /\ weaponinfo["chainsaw"].readystate = "SAW" /\ weaponinfo["chainsaw"].atkstate = "SAW1"
      /\ weaponinfo["chainsaw"].flashstate \in Lights
  BY DEF weaponinfo, Weapon, Lights
<1>2. Shape("chainsaw")
  BY <1>1, ChainsawRows DEF Shape, Chain
<1>3. ASSUME NEW s \in HandStates("chainsaw") PROVE ActsAs("chainsaw", s)
  <2>1. Row("SAWUP") = {<<"SAWUP", 1>>} /\ Row("SAWDOWN") = {<<"SAWDOWN", 1>>}
    BY ChainsawRows DEF Row, Chain
  <2>2. Row("SAW") = {<<"SAW", n>> : n \in 1..2} /\ Row("SAW1") = {<<"SAW1", n>> : n \in 1..3}
    BY ChainsawRows DEF Row, Chain
  <2>3. \/ s \in {<<"SAWUP", 1>>, <<"SAWDOWN", 1>>}
        \/ s \in {<<"SAW", n>> : n \in 1..2} \/ s \in {<<"SAW1", n>> : n \in 1..3}
    BY <1>1, <2>1, <2>2 DEF HandStates, Anims
  <2> QED BY <1>1, <2>3, ChainsawRows DEF ActsAs, ActionOf, FiresAt, Chain
<1> QED BY <1>2, <1>3

LEMMA SuperShotgunStates == Shape("supershotgun") /\ \A s \in HandStates("supershotgun") : ActsAs("supershotgun", s)
<1>1. /\ weaponinfo["supershotgun"].upstate = "DSGUNUP" /\ weaponinfo["supershotgun"].downstate = "DSGUNDOWN"
      /\ weaponinfo["supershotgun"].readystate = "DSGUN" /\ weaponinfo["supershotgun"].atkstate = "DSGUN1"
      /\ weaponinfo["supershotgun"].flashstate \in Lights
  BY DEF weaponinfo, Weapon, Lights
<1>2. Shape("supershotgun")
  BY <1>1, SuperShotgunRows DEF Shape, Chain
<1>3. ASSUME NEW s \in HandStates("supershotgun") PROVE ActsAs("supershotgun", s)
  <2>1. Row("DSGUNUP") = {<<"DSGUNUP", 1>>} /\ Row("DSGUNDOWN") = {<<"DSGUNDOWN", 1>>}
    BY SuperShotgunRows DEF Row, Chain
  <2>2. Row("DSGUN") = {<<"DSGUN", n>> : n \in 1..1} /\ Row("DSGUN1") = {<<"DSGUN1", n>> : n \in 1..10}
    BY SuperShotgunRows DEF Row, Chain
  <2>3. \/ s \in {<<"DSGUNUP", 1>>, <<"DSGUNDOWN", 1>>}
        \/ s \in {<<"DSGUN", n>> : n \in 1..1} \/ s \in {<<"DSGUN1", n>> : n \in 1..10}
    BY <1>1, <2>1, <2>2 DEF HandStates, Anims
  <2> QED BY <1>1, <2>3, SuperShotgunRows DEF ActsAs, ActionOf, FiresAt, Chain
<1> QED BY <1>2, <1>3

LEMMA Shapes == ASSUME NEW w \in Arms PROVE Shape(w) /\ \A s \in HandStates(w) : ActsAs(w, s)
<1>1. w \in {"fist", "pistol", "shotgun", "chaingun", "missile", "plasma", "bfg", "chainsaw", "supershotgun"}
  BY DEF Arms, weaponinfo
<1> QED BY <1>1, FistStates, PistolStates, ShotgunStates, ChaingunStates, MissileStates, PlasmaStates, BfgStates, ChainsawStates, SuperShotgunStates

\* Where a state of a weapon leads.
Follows(w, s) ==
  LET next == NextState(s)
      i == weaponinfo[w]
  IN /\ s # Null /\ s[2] \in Nat /\ s[2] >= 1 /\ next \in HandStates(w)
     /\ next[1] = i.downstate <=> s[1] = i.downstate
     /\ next[1] = i.atkstate => s[1] = i.atkstate /\ next[2] = s[2] + 1

LEMMA HandFollows == ASSUME NEW w \in Arms, NEW s \in HandStates(w) PROVE Follows(w, s)
<1> DEFINE i == weaponinfo[w]
<1>1. Shape(w) BY Shapes
<1>0. PICK anim \in Anims(w) : s \in Row(anim) BY DEF HandStates
<1>2. PICK n \in 1 .. Len(states[anim].tics) : s = <<anim, n>> BY <1>0 DEF Row
<1>3. /\ s # Null /\ s[1] = anim /\ s[2] = n /\ n \in Nat /\ n >= 1
  BY <1>1, <1>2 DEF Null, Anims, Shape
<1>4. CASE n < Len(states[anim].tics)
  <2>1. NextState(s) = <<anim, n + 1>> BY <1>3, <1>4 DEF NextState
  <2>2. Len(states[anim].tics) \in Nat BY <1>1, <1>2 DEF Shape, Anims
  <2>3. NextState(s) \in Row(anim) BY <1>3, <1>4, <2>1, <2>2, RowHas
  <2>4. NextState(s) \in HandStates(w) BY <2>3 DEF HandStates
  <2> QED BY <1>3, <2>1, <2>4 DEF Follows
<1>5. CASE ~(n < Len(states[anim].tics))
  <2>1. NextState(s) = <<states[anim].next, 1>> /\ NextState(s) = First(states[anim].next)
    BY <1>3, <1>5 DEF NextState, First
  <2>2. states[anim].next \in Anims(w) /\ Len(states[states[anim].next].tics) \in 1..10
    <3>1. ASSUME NEW a \in Anims(w) PROVE states[a].next \in Anims(w) BY <1>1 DEF Shape, Anims
    <3>2. ASSUME NEW a \in Anims(w) PROVE Len(states[a].tics) \in 1..10 BY <1>1 DEF Shape, Anims
    <3>3. Len(states[states[anim].next].tics) \in 1..10 BY <3>1, <3>2
    <3> QED BY <3>1, <3>3
  <2>3. NextState(s) \in HandStates(w) BY <2>1, <2>2, RowStarts DEF HandStates
  <2>4. states[anim].next # i.atkstate /\ (states[anim].next = i.downstate <=> anim = i.downstate)
    BY <1>1, <1>2 DEF Shape, Anims
  <2> QED BY <1>3, <2>1, <2>3, <2>4 DEF Follows
<1> QED BY <1>4, <1>5

\* Where a weapon comes up, is ready, fires and goes down.
LEMMA HandStarts ==
  ASSUME NEW w \in Arms
  PROVE  LET i == weaponinfo[w]
         IN /\ {First(i.upstate), First(i.downstate), First(i.readystate), First(i.atkstate)} \subseteq HandStates(w)
            /\ i.upstate \notin {i.downstate, i.atkstate} /\ i.readystate \notin {i.downstate, i.atkstate}
            /\ i.downstate # i.atkstate /\ First(i.flashstate) \in FlashStates
<1>1. Shape(w) BY Shapes
<1>2. First(weaponinfo[w].flashstate) \in FlashStates
  <2>1. weaponinfo[w].flashstate \in Lights BY <1>1 DEF Shape
  <2>2. Len(states[weaponinfo[w].flashstate].tics) \in 1..10 BY <2>1, LightsLast
  <2> QED BY <2>1, <2>2, RowStarts DEF FlashStates
<1>3. ASSUME NEW anim \in Anims(w) PROVE First(anim) \in HandStates(w)
  <2>1. Len(states[anim].tics) \in 1..10 BY <1>1 DEF Shape, Anims
  <2> QED BY <2>1, RowStarts DEF HandStates
<1>4. LET i == weaponinfo[w]
      IN /\ i.upstate \notin {i.downstate, i.atkstate} /\ i.readystate \notin {i.downstate, i.atkstate}
         /\ i.downstate # i.atkstate
  BY <1>1 DEF Shape
<1> QED BY <1>2, <1>3, <1>4 DEF Anims
-----------------------------------------------------------------------------
(* ----------------------------------------------------------------------- *)
(* The invariant                                                           *)
(* ----------------------------------------------------------------------- *)

Fields ==
  {"playerstate", "health", "mohealth", "armorpoints", "armortype", "ammo", "maxammo", "owned", "ready", "pending",
   "cards", "powers", "shadow", "backpack", "god", "attackdown", "usedown", "justattacked", "damagecount", "bonuscount",
   "extralight", "sy", "cmd", "psprites", "calls"}
Poses == (UNION {HandStates(w) : w \in Arms}) \cup FlashStates
Calls == [do : {"sets", "ends", "moves", "wears off", "dies"}, which : {"weapon", "flash"}, state : Poses]

\* What is asked of the fields. Nothing depends on what the others hold.
PlayerType(p) ==
  /\ DOMAIN p = Fields
  /\ p.playerstate \in {"live", "dead", "reborn"}
  /\ p.health \in Nat /\ p.mohealth \in Int /\ p.armorpoints \in Int /\ p.armortype \in 0..2
  /\ p.ammo \in [Ammo -> Int] /\ p.maxammo \in [Ammo -> Nat]
  /\ p.owned \subseteq Arms /\ p.ready \in Arms
  /\ p.powers \in [Powers -> Nat] /\ p.shadow \in BOOLEAN
  /\ DOMAIN p.psprites = {"weapon", "flash"}
  /\ \A which \in {"weapon", "flash"} :
       DOMAIN p.psprites[which] = {"state", "tics"} /\ p.psprites[which].state \in Poses
  /\ p.calls \in Seq(Calls)

Counted(p) == \A k \in Ammo : p.ammo[k] \in 0..p.maxammo[k]
Carried(p) == {"fist", "pistol", p.ready} \subseteq p.owned /\ p.pending \in p.owned \cup {"nochange"}
Heals(k) == k.cheats \cap {"god", "strength"} # {}
Healthy(k, p) ==
  /\ p.health = Max({p.mohealth, 0})
  /\ p.playerstate = "live" => p.health > 0
  /\ p.playerstate # "live" => p.health = 0 \/ Heals(k)
Shaded(p) == p.shadow <=> p.powers["invisibility"] > 0

\* A player apart from what is being done with the weapon.
Fine(k, p) == PlayerType(p) /\ Counted(p) /\ Carried(p) /\ Healthy(k, p) /\ Shaded(p)

\* P_SetPsprite is only ever called first; the thinker of the dead ends with the tic.
Quiet(p) == \A i \in DOMAIN p.calls : p.calls[i].do # "sets"
Ordered(p) ==
  /\ \A i \in DOMAIN p.calls :
       /\ p.calls[i].do = "sets" => i = 1
       /\ p.calls[i].do = "dies" => i = Len(p.calls) /\ p.playerstate = "dead"
  /\ p.playerstate = "reborn" => p.calls = <<>>

\* The state that is in force, or the one that is being set.
Setting(p, which) == p.calls # <<>> /\ p.calls[1].do = "sets" /\ p.calls[1].which = which
Coming(p, which) == IF Setting(p, which) THEN p.calls[1].state ELSE p.psprites[which].state
Lit(p) == {Coming(p, "flash"), p.psprites["flash"].state} \subseteq FlashStates

\* On the way to a shot there is enough for it; what goes down makes place for another.
Loaded(p, s, at) == s[1] = Info_(p).atkstate /\ at \in 1..FiresAt(p.ready) => p.ammo[Info_(p).ammo] >= Charge(p.ready)
Fits(p, s, at) ==
  s # Null =>
    /\ s \in HandStates(p.ready) /\ Loaded(p, s, at)
    /\ s[1] = Info_(p).downstate /\ p.playerstate = "live" => p.pending # "nochange"
Held(p) ==
  LET s == Coming(p, "weapon") IN Fits(p, s, IF Setting(p, "weapon") THEN s[2] ELSE s[2] + 1)

Sound(k, p) == Fine(k, p) /\ Ordered(p) /\ Lit(p) /\ Held(p)
PlayerInv == kit \in Kits /\ Sound(kit, player)

(* ----------------------------------------------------------------------- *)
(* The list of calls                                                       *)
(* ----------------------------------------------------------------------- *)

LEMMA MaxOfTwo == ASSUME NEW a \in Int, NEW b \in Int PROVE Max({a, b}) = IF a >= b THEN a ELSE b
BY DEF Max
LEMMA MinOfTwo == ASSUME NEW a \in Int, NEW b \in Int PROVE Min({a, b}) = IF a <= b THEN a ELSE b
BY DEF Min

LEMMA StartsInPoses ==
  ASSUME NEW w \in Arms, NEW s \in HandStates(w)
  PROVE  s \in Poses
BY DEF Poses

LEMMA LightStarts == ASSUME NEW anim \in Lights PROVE First(anim) \in FlashStates
<1>1. Len(states[anim].tics) \in 1..10 BY LightsLast
<1> QED BY <1>1, RowStarts DEF FlashStates

LEMMA NullIsDark == Null \in FlashStates /\ Null \in Poses
<1>1. Len(states["NULL"].tics) \in 1..10 BY LightsLast DEF Lights
<1>2. First("NULL") \in Row("NULL") BY <1>1, RowStarts
<1>3. Null = First("NULL") BY DEF First, Null
<1>4. "NULL" \in Lights BY DEF Lights
<1>5. ASSUME NEW anim \in Lights, NEW s \in Row(anim) PROVE s \in FlashStates BY DEF FlashStates
<1>6. Null \in FlashStates BY <1>2, <1>3, <1>4, <1>5
<1> QED BY <1>6 DEF Poses

\* A call that is put before the others.
LEMMA Pushing ==
  ASSUME NEW p, DOMAIN p = Fields, p.calls \in Seq(Calls), NEW call \in Calls
  PROVE  LET q == Pushed(p, call)
         IN /\ DOMAIN q = Fields /\ \A f \in Fields \ {"calls"} : q[f] = p[f]
            /\ q.calls \in Seq(Calls) /\ q.calls # <<>> /\ q.calls[1] = call
            /\ Len(q.calls) = Len(p.calls) + 1
            /\ \A i \in DOMAIN q.calls : i # 1 => i - 1 \in DOMAIN p.calls /\ q.calls[i] = p.calls[i - 1]
<1> DEFINE q == Pushed(p, call)
<1>1. q.calls = <<call>> \o p.calls /\ DOMAIN q = Fields /\ \A f \in Fields \ {"calls"} : q[f] = p[f]
  BY DEF Pushed, Fields
<1>2. <<call>> \in Seq(Calls) /\ Len(<<call>>) = 1 /\ <<call>>[1] = call OBVIOUS
<1> HIDE DEF q
<1>3. /\ q.calls \in Seq(Calls) /\ Len(q.calls) = Len(p.calls) + 1
      /\ \A i \in 1 .. Len(q.calls) : q.calls[i] = IF i <= 1 THEN call ELSE p.calls[i - 1]
  BY <1>1, <1>2
<1>4. Len(p.calls) \in Nat /\ DOMAIN p.calls = 1 .. Len(p.calls) /\ DOMAIN q.calls = 1 .. Len(q.calls)
  BY <1>3
<1>5. q.calls # <<>> /\ q.calls[1] = call BY <1>3, <1>4
<1> QED BY <1>1, <1>3, <1>4, <1>5 DEF q

\* Other calls make no other player.
LEMMA FineWithCalls ==
  ASSUME NEW k, NEW p, NEW q, Fine(k, p), DOMAIN q = Fields, q.calls \in Seq(Calls),
         \A f \in Fields \ {"calls"} : q[f] = p[f]
  PROVE  Fine(k, q)
<1>1. /\ q.playerstate = p.playerstate /\ q.health = p.health /\ q.mohealth = p.mohealth
      /\ q.armorpoints = p.armorpoints /\ q.armortype = p.armortype /\ q.ammo = p.ammo /\ q.maxammo = p.maxammo
      /\ q.owned = p.owned /\ q.ready = p.ready /\ q.pending = p.pending /\ q.powers = p.powers /\ q.shadow = p.shadow
      /\ q.psprites = p.psprites
  BY DEF Fields
<1>2. PlayerType(q) BY <1>1 DEF Fine, PlayerType
<1>3. Counted(q) /\ Carried(q) /\ Healthy(k, q) /\ Shaded(q) BY <1>1 DEF Fine, Counted, Carried, Healthy, Shaded
<1> QED BY <1>2, <1>3 DEF Fine

\* Setting a state of the weapon in hand, in reach of what it may need.
LEMMA SettingWeapon ==
  ASSUME NEW k, NEW p, Fine(k, p), Ordered(p), Quiet(p), Lit(p), p.playerstate # "reborn",
         NEW s \in Poses, Fits(p, s, s[2])
  PROVE  Sound(k, P_SetPsprite(p, "weapon", s))
<1> DEFINE call == Sets("weapon", s)
           q == Pushed(p, call)
<1>1. call \in Calls /\ call.do = "sets" /\ call.which = "weapon" /\ call.state = s
  BY DEF Sets, Call, Calls
<1>2. DOMAIN p = Fields /\ p.calls \in Seq(Calls) BY DEF Fine, PlayerType
<1>3. /\ DOMAIN q = Fields /\ \A f \in Fields \ {"calls"} : q[f] = p[f]
      /\ q.calls \in Seq(Calls) /\ q.calls # <<>> /\ q.calls[1] = call
      /\ Len(q.calls) = Len(p.calls) + 1
      /\ \A i \in DOMAIN q.calls : i # 1 => i - 1 \in DOMAIN p.calls /\ q.calls[i] = p.calls[i - 1]
  BY <1>1, <1>2, Pushing
<1> HIDE DEF q, call
<1>4. Fine(k, q)
  BY <1>3, FineWithCalls
<1>5. Ordered(q)
  BY <1>1, <1>2, <1>3 DEF Ordered, Quiet, Fields
<1>6. q.psprites = p.psprites /\ q.ready = p.ready /\ q.ammo = p.ammo /\ q.playerstate = p.playerstate /\ q.pending = p.pending
  BY <1>3 DEF Fields
<1>7. Lit(q)
  <2>1. p.psprites["flash"].state \in FlashStates BY DEF Lit
  <2> QED BY <1>1, <1>3, <1>6, <2>1 DEF Lit, Coming, Setting
<1>8. Held(q)
  <2>1. Setting(q, "weapon") /\ Coming(q, "weapon") = s BY <1>1, <1>3 DEF Coming, Setting
  <2>2. Fits(q, s, s[2]) BY <1>6 DEF Fits, Loaded, Info_
  <2> QED BY <2>1, <2>2 DEF Held
<1> QED BY <1>4, <1>5, <1>7, <1>8 DEF Sound, P_SetPsprite, q, call

\* Setting a state of the flash leaves the weapon as it is.
LEMMA SettingFlash ==
  ASSUME NEW k, NEW p, Sound(k, p), Quiet(p), p.playerstate # "reborn", NEW s \in FlashStates
  PROVE  Sound(k, P_SetPsprite(p, "flash", s))
<1> DEFINE call == Sets("flash", s)
           q == Pushed(p, call)
<1>1. call \in Calls /\ call.do = "sets" /\ call.which = "flash" /\ call.state = s
  BY DEF Sets, Call, Calls, Poses
<1>2. DOMAIN p = Fields /\ p.calls \in Seq(Calls) BY DEF Sound, Fine, PlayerType
<1>3. /\ DOMAIN q = Fields /\ \A f \in Fields \ {"calls"} : q[f] = p[f]
      /\ q.calls \in Seq(Calls) /\ q.calls # <<>> /\ q.calls[1] = call
      /\ Len(q.calls) = Len(p.calls) + 1
      /\ \A i \in DOMAIN q.calls : i # 1 => i - 1 \in DOMAIN p.calls /\ q.calls[i] = p.calls[i - 1]
  BY <1>1, <1>2, Pushing
<1> HIDE DEF q, call
<1>4. Fine(k, q)
  <2>1. Fine(k, p) BY DEF Sound
  <2> QED BY <1>3, <2>1, FineWithCalls
<1>5. Ordered(q)
  BY <1>1, <1>2, <1>3 DEF Sound, Ordered, Quiet, Fields
<1>6. q.psprites = p.psprites /\ q.ready = p.ready /\ q.ammo = p.ammo /\ q.playerstate = p.playerstate /\ q.pending = p.pending
  BY <1>3 DEF Fields
<1>7. Lit(q)
  <2>1. p.psprites["flash"].state \in FlashStates BY DEF Sound, Lit
  <2> QED BY <1>1, <1>3, <1>6, <2>1 DEF Lit, Coming, Setting
<1>8. Held(q)
  <2>1. ~Setting(q, "weapon") BY <1>1, <1>3 DEF Setting
  <2>2. ~Setting(p, "weapon") BY <1>2 DEF Setting, Quiet
  <2> QED BY <1>6, <2>1, <2>2 DEF Sound, Held, Coming, Fits, Loaded, Info_
<1> QED BY <1>4, <1>5, <1>7, <1>8 DEF Sound, P_SetPsprite, q, call

\* What is given and worn off leaves the hands as they are.
Keeps(p, q) ==
  /\ q.calls = p.calls /\ q.psprites = p.psprites /\ q.ready = p.ready /\ q.playerstate = p.playerstate
  /\ \A a \in Ammo : q.ammo[a] >= p.ammo[a]
  /\ q.pending = "nochange" => p.pending = "nochange"

LEMMA KeepsSound ==
  ASSUME NEW k, NEW p, NEW q, Sound(k, p), Fine(k, q), Keeps(p, q)
  PROVE  Sound(k, q)
<1>1. Ordered(q) /\ Lit(q) BY DEF Keeps, Sound, Ordered, Lit, Coming, Setting
<1>2. Held(q)
  <2>1. /\ Coming(q, "weapon") = Coming(p, "weapon") /\ Setting(q, "weapon") = Setting(p, "weapon")
        /\ Info_(q) = Info_(p) /\ q.ready = p.ready /\ q.playerstate = p.playerstate
    BY DEF Keeps, Coming, Setting, Info_
  <2>2. ASSUME NEW s, NEW at, Fits(p, s, at) PROVE Fits(q, s, at)
    <3>1. ASSUME Loaded(p, s, at) PROVE Loaded(q, s, at)
      <4>1. p.ready \in Arms /\ p.ammo \in [Ammo -> Int] /\ q.ammo \in [Ammo -> Int] BY DEF Sound, Fine, PlayerType
      <4>2. FiresAt(p.ready) # 0 => Info_(p).ammo \in Ammo
        BY <4>1 DEF FiresAt, Info_, Arms, weaponinfo, Weapon, Ammo
      <4>3. Charge(p.ready) \in Int BY FiguresAssumption DEF Charge
      <4> QED BY <2>1, <3>1, <4>1, <4>2, <4>3 DEF Loaded, Keeps
    <3> QED BY <2>1, <2>2, <3>1 DEF Fits, Keeps
  <2> QED BY <2>1, <2>2 DEF Sound, Held
<1> QED BY <1>1, <1>2 DEF Sound

-----------------------------------------------------------------------------
\* What holds of a player while a call is made, the weapon apart.
Free(k, p) == Fine(k, p) /\ Ordered(p) /\ Quiet(p) /\ Lit(p) /\ p.playerstate # "reborn"

\* The other fields do not matter.
Alike(p, q) ==
  /\ DOMAIN q = Fields
  /\ q.playerstate = p.playerstate /\ q.health = p.health /\ q.mohealth = p.mohealth
  /\ q.armorpoints = p.armorpoints /\ q.armortype = p.armortype /\ q.ammo = p.ammo /\ q.maxammo = p.maxammo
  /\ q.owned = p.owned /\ q.ready = p.ready /\ q.pending = p.pending /\ q.powers = p.powers /\ q.shadow = p.shadow
  /\ q.psprites = p.psprites /\ q.calls = p.calls

LEMMA AlikeIsFine == ASSUME NEW k, NEW p, NEW q, Fine(k, p), Alike(p, q) PROVE Fine(k, q)
<1>1. PlayerType(q) BY DEF Alike, Fine, PlayerType
<1>2. Counted(q) /\ Carried(q) /\ Healthy(k, q) /\ Shaded(q) BY DEF Alike, Fine, Counted, Carried, Healthy, Shaded
<1> QED BY <1>1, <1>2 DEF Fine

LEMMA AlikeIsFree == ASSUME NEW k, NEW p, NEW q, Free(k, p), Alike(p, q) PROVE Free(k, q)
<1>1. Fine(k, q) BY AlikeIsFine DEF Free
<1>2. Ordered(q) /\ Quiet(q) /\ Lit(q) /\ q.playerstate # "reborn"
  BY DEF Free, Alike, Ordered, Quiet, Lit, Coming, Setting
<1> QED BY <1>1, <1>2 DEF Free

LEMMA AlikeFits == ASSUME NEW p, NEW q, Alike(p, q), NEW s, NEW at, Fits(p, s, at) PROVE Fits(q, s, at)
BY DEF Alike, Fits, Loaded, Info_

LEMMA AlikeIsSound == ASSUME NEW k, NEW p, NEW q, Sound(k, p), Alike(p, q) PROVE Sound(k, q)
<1>1. Fine(k, q) BY AlikeIsFine DEF Sound
<1>2. Ordered(q) /\ Lit(q) BY DEF Sound, Alike, Ordered, Lit, Coming, Setting
<1>3. Held(q)
  <2>1. Coming(q, "weapon") = Coming(p, "weapon") /\ Setting(q, "weapon") = Setting(p, "weapon")
    BY DEF Alike, Coming, Setting
  <2> QED BY <2>1, AlikeFits DEF Sound, Held
<1> QED BY <1>1, <1>2, <1>3 DEF Sound

(* ----------------------------------------------------------------------- *)
(* What the actions of the weapon do                                       *)
(* ----------------------------------------------------------------------- *)

\* Another weapon that is owned is asked for.
LEMMA Asking ==
  ASSUME NEW k, NEW p, NEW w \in p.owned, Fine(k, p)
  PROVE  LET q == [p EXCEPT !.pending = w]
         IN /\ Fine(k, q) /\ q.pending = w /\ w # "nochange" /\ q.ready = p.ready /\ q.playerstate = p.playerstate
            /\ (Free(k, p) => Free(k, q)) /\ (Sound(k, p) => Sound(k, q)) /\ q.calls = p.calls
<1> DEFINE q == [p EXCEPT !.pending = w]
<1>1. DOMAIN p = Fields /\ p.owned \subseteq Arms BY DEF Fine, PlayerType
<1>2. DOMAIN q = Fields /\ q.pending = w /\ \A f \in Fields \ {"pending"} : q[f] = p[f]
  BY <1>1 DEF Fields
<1>3. w # "nochange" BY <1>1 DEF Arms, weaponinfo
<1> HIDE DEF q
<1>4. /\ q.playerstate = p.playerstate /\ q.health = p.health /\ q.mohealth = p.mohealth
      /\ q.armorpoints = p.armorpoints /\ q.armortype = p.armortype /\ q.ammo = p.ammo /\ q.maxammo = p.maxammo
      /\ q.owned = p.owned /\ q.ready = p.ready /\ q.powers = p.powers /\ q.shadow = p.shadow
      /\ q.psprites = p.psprites /\ q.calls = p.calls
  BY <1>2 DEF Fields
<1>5. Fine(k, q)
  <2>1. PlayerType(q) BY <1>2, <1>4 DEF Fine, PlayerType
  <2>2. Counted(q) /\ Carried(q) /\ Healthy(k, q) /\ Shaded(q)
    BY <1>2, <1>4 DEF Fine, Counted, Carried, Healthy, Shaded
  <2> QED BY <2>1, <2>2 DEF Fine
<1>6. Free(k, p) => Free(k, q)
  BY <1>4, <1>5 DEF Free, Ordered, Quiet, Lit, Coming, Setting
<1>7. Sound(k, p) => Sound(k, q)
  <2>1. Keeps(p, q)
    <3>1. \A a \in Ammo : q.ammo[a] >= p.ammo[a] BY <1>4 DEF Fine, PlayerType
    <3> QED BY <1>2, <1>3, <1>4, <3>1 DEF Keeps
  <2> QED BY <1>5, <2>1, KeepsSound
<1> QED BY <1>2, <1>3, <1>4, <1>5, <1>6, <1>7 DEF q

\* What the proofs about the hands use of the type.
LEMMA FreeIsTyped ==
  ASSUME NEW k, NEW p, Fine(k, p)
  PROVE  /\ DOMAIN p = Fields /\ p.ready \in Arms /\ p.owned \subseteq Arms /\ Info_(p) = weaponinfo[p.ready]
         /\ p.ammo \in [Ammo -> Int] /\ p.health \in Nat /\ p.mohealth \in Int
         /\ p.playerstate = "live" => p.health # 0
BY DEF Fine, PlayerType, Info_, Healthy

\* A weapon is let go: of the living only for another one.
LEMMA Dropping ==
  ASSUME NEW k, NEW p, Free(k, p), p.playerstate = "live" => p.pending # "nochange"
  PROVE  Sound(k, P_DropWeapon(p))
<1> DEFINE s == First(Info_(p).downstate)
<1>1. p.ready \in Arms /\ Info_(p) = weaponinfo[p.ready] BY FreeIsTyped DEF Free
<1>2. s \in HandStates(p.ready) /\ Info_(p).downstate # Info_(p).atkstate BY <1>1, HandStarts
<1>3. s \in Poses BY <1>1, <1>2, StartsInPoses
<1>4. Fits(p, s, s[2]) BY <1>2 DEF Fits, Loaded, First
<1> QED BY <1>3, <1>4, SettingWeapon DEF Free, P_DropWeapon

\* The fist is the last in the order, and everybody has it.
LEMMA BestIsOwned == ASSUME NEW k, NEW p, Fine(k, p) PROVE Best(p) \in p.owned
<1> DEFINE order == <<"plasma", "supershotgun", "chaingun", "shotgun", "pistol", "chainsaw", "missile", "bfg", "fist">>
           Chosen(i) == Serves(p, order[i]) /\ \A j \in 1 .. i - 1 : ~Serves(p, order[j])
<1>1. Serves(p, "fist")
  <2>1. weaponinfo["fist"].ammo = "noammo" BY DEF weaponinfo, Weapon
  <2> QED BY <2>1 DEF Serves
<1>2. DOMAIN order = 1..9 /\ order[9] = "fist" OBVIOUS
<1> HIDE DEF order
<1>3. \E i \in 1..9 : Chosen(i)
  <2>1. CASE Serves(p, order[1]) BY <2>1
  <2>2. CASE ~Serves(p, order[1]) /\ Serves(p, order[2]) BY <2>2
  <2>3. CASE ~Serves(p, order[1]) /\ ~Serves(p, order[2]) /\ Serves(p, order[3]) BY <2>3
  <2>4. CASE (\A j \in 1..3 : ~Serves(p, order[j])) /\ Serves(p, order[4]) BY <2>4
  <2>5. CASE (\A j \in 1..4 : ~Serves(p, order[j])) /\ Serves(p, order[5]) BY <2>5
  <2>6. CASE (\A j \in 1..5 : ~Serves(p, order[j])) /\ Serves(p, order[6]) BY <2>6
  <2>7. CASE (\A j \in 1..6 : ~Serves(p, order[j])) /\ Serves(p, order[7]) BY <2>7
  <2>8. CASE (\A j \in 1..7 : ~Serves(p, order[j])) /\ Serves(p, order[8]) BY <2>8
  <2>9. CASE \A j \in 1..8 : ~Serves(p, order[j]) BY <1>1, <1>2, <2>9
  <2> QED BY <2>1, <2>2, <2>3, <2>4, <2>5, <2>6, <2>7, <2>8, <2>9
<1>4. Best(p) = order[CHOOSE i \in 1..9 : Chosen(i)] BY <1>2 DEF Best, order
<1>5. Serves(p, Best(p)) BY <1>3, <1>4
<1> QED BY <1>5 DEF Serves, Fine, Carried

\* Without enough for a shot the best other weapon is asked for.
LEMMA CheckingAmmo ==
  ASSUME NEW k, NEW p, Free(k, p), Sound(k, p)
  PROVE  Sound(k, P_CheckAmmo(p))
<1> DEFINE q == [p EXCEPT !.pending = Best(p)]
<1>1. Best(p) \in p.owned BY BestIsOwned DEF Free
<1>2. Free(k, q) /\ q.pending # "nochange" /\ q.ready = p.ready BY <1>1, Asking DEF Free
<1>3. Sound(k, P_DropWeapon(q)) BY <1>2, Dropping
<1>4. P_DropWeapon(q) = P_SetPsprite(q, "weapon", First(Info_(p).downstate)) BY <1>2 DEF P_DropWeapon, Info_
<1> QED BY <1>3, <1>4 DEF P_CheckAmmo

\* The attack begins with enough for its shot.
LEMMA Firing ==
  ASSUME NEW k, NEW p, Free(k, p), Sound(k, p)
  PROVE  Sound(k, P_FireWeapon(p))
<1>1. CASE ~Enough(p) BY <1>1, CheckingAmmo DEF P_FireWeapon
<1>2. CASE Enough(p)
  <2> DEFINE s == First(Info_(p).atkstate)
  <2>1. p.ready \in Arms /\ Info_(p) = weaponinfo[p.ready] BY FreeIsTyped DEF Free
  <2>2. s \in HandStates(p.ready) /\ Info_(p).downstate # Info_(p).atkstate BY <2>1, HandStarts
  <2>3. s \in Poses BY <2>1, <2>2, StartsInPoses
  <2>4. 1 \in 1..FiresAt(p.ready) => p.ammo[Info_(p).ammo] >= Charge(p.ready)
    <3>1. CASE Info_(p).ammo = "noammo"
      <4>1. p.ready \in {"fist", "chainsaw"} BY <2>1, <3>1 DEF Arms, weaponinfo, Weapon
      <4> QED BY <4>1 DEF FiresAt
    <3>2. CASE Info_(p).ammo # "noammo" BY <1>2, <3>2 DEF Enough, Charge
    <3> QED BY <3>1, <3>2
  <2>5. Fits(p, s, s[2]) BY <2>2, <2>4 DEF Fits, Loaded, First
  <2>6. Sound(k, P_SetPsprite(p, "weapon", s)) BY <2>3, <2>5, SettingWeapon DEF Free
  <2> QED BY <1>2, <2>6 DEF P_FireWeapon
<1> QED BY <1>1, <1>2

(* ----------------------------------------------------------------------- *)
(* The steps of a weapon                                                   *)
(* ----------------------------------------------------------------------- *)

\* The first call is taken from the list.
LEMMA Popping ==
  ASSUME NEW k, NEW p, Sound(k, p), p.calls # <<>>
  PROVE  LET q == [p EXCEPT !.calls = Tail(@)]
             c == Head(p.calls)
         IN /\ Free(k, q) /\ c \in Calls
            /\ (c.do = "sets" /\ c.which = "weapon") => Fits(q, c.state, c.state[2])
            /\ ~(c.do = "sets" /\ c.which = "weapon") => Sound(k, q)
            /\ (c.do = "sets" /\ c.which = "flash") => c.state \in FlashStates
            /\ c.do = "dies" => q.calls = <<>> /\ q.playerstate = "dead"
<1> DEFINE q == [p EXCEPT !.calls = Tail(@)]
           c == Head(p.calls)
<1>0. Fine(k, p) /\ Ordered(p) /\ Lit(p) /\ Held(p) BY DEF Sound
<1>1. DOMAIN p = Fields /\ p.calls \in Seq(Calls) BY <1>0 DEF Fine, PlayerType
<1>2. DOMAIN q = Fields /\ q.calls = Tail(p.calls) /\ \A f \in Fields \ {"calls"} : q[f] = p[f]
  BY <1>1 DEF Fields
<1>3. c = p.calls[1] BY <1>1
<1> HIDE DEF q, c
<1>4. /\ Len(p.calls) \in Nat /\ Len(p.calls) >= 1 /\ DOMAIN p.calls = 1 .. Len(p.calls) /\ c \in Calls
      /\ q.calls \in Seq(Calls) /\ Len(q.calls) = Len(p.calls) - 1 /\ DOMAIN q.calls = 1 .. Len(q.calls)
      /\ \A i \in DOMAIN q.calls : q.calls[i] = p.calls[i + 1] /\ i + 1 \in DOMAIN p.calls
  BY <1>1, <1>2, <1>3
<1>5. /\ q.psprites = p.psprites /\ q.ready = p.ready /\ q.ammo = p.ammo
      /\ q.playerstate = p.playerstate /\ q.pending = p.pending
  BY <1>2 DEF Fields
<1>6. Fine(k, q) BY <1>0, <1>2, <1>4, FineWithCalls
<1>7. Quiet(q)
  <2>1. ASSUME NEW i \in DOMAIN q.calls PROVE q.calls[i].do # "sets"
    <3>1. q.calls[i] = p.calls[i + 1] /\ i + 1 \in DOMAIN p.calls /\ i \in Nat /\ i >= 1 BY <1>4
    <3>2. p.calls[i + 1].do = "sets" => i + 1 = 1 BY <1>0, <3>1 DEF Ordered
    <3> QED BY <3>1, <3>2
  <2> QED BY <2>1 DEF Quiet
<1>8. p.playerstate # "reborn" /\ Ordered(q) BY <1>0, <1>4, <1>5 DEF Ordered
<1>9. Lit(q)
  <2>1. q.psprites["flash"].state \in FlashStates BY <1>0, <1>5 DEF Lit
  <2>2. ~Setting(q, "flash") BY <1>4, <1>7 DEF Setting, Quiet
  <2> QED BY <2>1, <2>2 DEF Lit, Coming
<1>10. Free(k, q) BY <1>5, <1>6, <1>7, <1>8, <1>9 DEF Free
<1>11. ASSUME NEW s, NEW at, Fits(p, s, at) PROVE Fits(q, s, at)
  BY <1>5, <1>11 DEF Fits, Loaded, Info_
<1>12. ASSUME c.do = "sets", c.which = "weapon" PROVE Fits(q, c.state, c.state[2])
  <2>1. Setting(p, "weapon") /\ Coming(p, "weapon") = c.state BY <1>3, <1>12 DEF Setting, Coming
  <2> QED BY <1>0, <1>11, <2>1 DEF Held
<1>13. ASSUME ~(c.do = "sets" /\ c.which = "weapon") PROVE Sound(k, q)
  <2>1. ~Setting(p, "weapon") BY <1>3, <1>13 DEF Setting
  <2>2. ~Setting(q, "weapon") BY <1>4, <1>7 DEF Setting, Quiet
  <2>3. Held(q) BY <1>0, <1>5, <1>11, <2>1, <2>2 DEF Held, Coming
  <2> QED BY <1>10, <2>3 DEF Sound, Free
<1>14. ASSUME c.do = "sets", c.which = "flash" PROVE c.state \in FlashStates
  <2>1. Setting(p, "flash") /\ Coming(p, "flash") = c.state BY <1>3, <1>14 DEF Setting, Coming
  <2> QED BY <1>0, <2>1 DEF Lit
<1>15. ASSUME c.do = "dies" PROVE q.calls = <<>> /\ q.playerstate = "dead"
  <2>1. 1 \in DOMAIN p.calls /\ p.calls[1].do = "dies" BY <1>3, <1>4, <1>15
  <2>2. 1 = Len(p.calls) /\ p.playerstate = "dead" BY <1>0, <2>1 DEF Ordered
  <2> QED BY <1>4, <1>5, <2>2
<1> QED BY <1>4, <1>10, <1>12, <1>13, <1>14, <1>15 DEF q, c

\* A player whose weapon is in a state that fits is sound.
LEMMA InForce ==
  ASSUME NEW k, NEW p, Free(k, p), NEW s, p.psprites["weapon"].state = s, Fits(p, s, s[2] + 1)
  PROVE  Sound(k, p)
<1>1. ~Setting(p, "weapon")
  <2>1. DOMAIN p.calls = 1 .. Len(p.calls) /\ Len(p.calls) \in Nat /\ (p.calls # <<>> => Len(p.calls) >= 1)
    BY DEF Free, Fine, PlayerType
  <2> QED BY <2>1 DEF Free, Quiet, Setting
<1> QED BY <1>1 DEF Sound, Free, Held, Coming

\* What is loaded at a state of a chain is loaded at the next.
LEMMA FitsOn ==
  ASSUME NEW k, NEW p, Fine(k, p), NEW s, Fits(p, s, s[2])
  PROVE  Fits(p, s, s[2] + 1)
<1>1. CASE s = Null BY <1>1 DEF Fits
<1>2. CASE s # Null
  <2>1. p.ready \in Arms BY FreeIsTyped
  <2>2. s[2] \in Nat /\ s[2] >= 1 BY <1>2, <2>1, HandFollows DEF Fits, Follows
  <2>3. FiresAt(p.ready) \in Nat BY DEF FiresAt
  <2>4. Loaded(p, s, s[2] + 1) BY <1>2, <2>2, <2>3 DEF Fits, Loaded
  <2> QED BY <1>2, <2>4 DEF Fits
<1> QED BY <1>1, <1>2

\* A weapon comes up: the one in hand, or that which was asked for.
LEMMA BringingUp ==
  ASSUME NEW k, NEW p, Free(k, p), p.pending \in {"nochange", p.ready}
  PROVE  Sound(k, P_BringUpWeapon(p))
<1> DEFINE s == First(weaponinfo[p.ready].upstate)
           q == [p EXCEPT !.pending = "nochange", !.sy = BOTTOM]
<1>0. DOMAIN p = Fields /\ p.ready \in Arms BY FreeIsTyped DEF Free
<1>1. P_BringUpWeapon(p) = P_SetPsprite(q, "weapon", s) BY DEF P_BringUpWeapon
<1>2. /\ DOMAIN q = Fields /\ q.pending = "nochange" /\ \A f \in Fields \ {"pending", "sy"} : q[f] = p[f]
  BY <1>0 DEF Fields
<1> HIDE DEF q
<1>3. /\ q.playerstate = p.playerstate /\ q.health = p.health /\ q.mohealth = p.mohealth
      /\ q.armorpoints = p.armorpoints /\ q.armortype = p.armortype /\ q.ammo = p.ammo /\ q.maxammo = p.maxammo
      /\ q.owned = p.owned /\ q.ready = p.ready /\ q.powers = p.powers /\ q.shadow = p.shadow
      /\ q.psprites = p.psprites /\ q.calls = p.calls
  BY <1>2 DEF Fields
<1>4. Fine(k, q)
  <2>1. PlayerType(q) BY <1>2, <1>3 DEF Free, Fine, PlayerType
  <2>2. Counted(q) /\ Carried(q) /\ Healthy(k, q) /\ Shaded(q)
    BY <1>2, <1>3 DEF Free, Fine, Counted, Carried, Healthy, Shaded
  <2> QED BY <2>1, <2>2 DEF Fine
<1>5. Free(k, q) BY <1>3, <1>4 DEF Free, Ordered, Quiet, Lit, Coming, Setting
<1>6. s \in HandStates(p.ready) /\ s[1] = weaponinfo[p.ready].upstate
      /\ s[1] \notin {weaponinfo[p.ready].downstate, weaponinfo[p.ready].atkstate}
  BY <1>0, HandStarts DEF First
<1>7. s \in Poses BY <1>0, <1>6, StartsInPoses
<1> HIDE DEF s
<1>8. Fits(q, s, s[2]) BY <1>3, <1>6 DEF Fits, Loaded, Info_
<1> QED BY <1>1, <1>5, <1>7, <1>8, SettingWeapon DEF Free

\* The weapon in hand is in state s, whose action is now run.
InHand(k, p, s) ==
  Free(k, p) /\ p.psprites["weapon"].state = s /\ s \in HandStates(p.ready) /\ Fits(p, s, s[2])

LEMMA InHandIsSound == ASSUME NEW k, NEW p, NEW s, InHand(k, p, s) PROVE Sound(k, p)
BY FitsOn, InForce DEF InHand, Free

\* A ready weapon goes down, fires, or is ready on.
LEMMA ReadyActs == ASSUME NEW k, NEW p, NEW s, InHand(k, p, s) PROVE Sound(k, A_WeaponReady(p))
<1>1. Sound(k, p) /\ Free(k, p) BY InHandIsSound DEF InHand
<1>2. DOMAIN p = Fields /\ (p.playerstate = "live" => p.health # 0) BY <1>1, FreeIsTyped DEF Free
<1>3. ASSUME NEW b PROVE Alike(p, [p EXCEPT !.attackdown = b]) BY <1>2 DEF Alike, Fields
<1>4. CASE p.pending # "nochange" \/ p.health = 0
  BY <1>1, <1>2, <1>4, Dropping DEF A_WeaponReady
<1>5. CASE ~(p.pending # "nochange" \/ p.health = 0) /\ ~Attacks(p)
  BY <1>1, <1>3, <1>5, AlikeIsSound DEF A_WeaponReady
<1>6. CASE ~(p.pending # "nochange" \/ p.health = 0) /\ Attacks(p)
  <2> DEFINE q == [p EXCEPT !.attackdown = TRUE]
  <2>1. Sound(k, q) /\ Free(k, q) BY <1>1, <1>3, AlikeIsSound, AlikeIsFree
  <2>2. Sound(k, P_FireWeapon(q)) BY <2>1, Firing
  <2> QED BY <1>1, <1>6, <2>2 DEF A_WeaponReady
<1> QED BY <1>4, <1>5, <1>6

\* The trigger is still down.
LEMMA RefireActs ==
  ASSUME NEW k, NEW p, NEW s, InHand(k, p, s)
  PROVE  Sound(k, A_ReFire(p)) /\ Sound(k, A_CheckReload(p))
<1>1. Sound(k, p) /\ Free(k, p) BY InHandIsSound DEF InHand
<1> QED BY <1>1, Firing, CheckingAmmo DEF A_ReFire, A_CheckReload

\* What goes down makes place for what was asked for; only the dead hold nothing.
LEMMA LowerActs ==
  ASSUME NEW k, NEW p, NEW s, InHand(k, p, s), s[1] = Info_(p).downstate
  PROVE  Sound(k, A_Lower(p))
<1> DEFINE down == p.sy + 1
<1>1. Sound(k, p) /\ Free(k, p) BY InHandIsSound DEF InHand
<1>2. /\ DOMAIN p = Fields /\ (p.playerstate = "live" => p.health # 0) /\ p.owned \subseteq Arms
      /\ p.playerstate \in {"live", "dead"}
  BY <1>1, FreeIsTyped DEF Free, Fine, PlayerType
<1>3. ASSUME NEW n PROVE Alike(p, [p EXCEPT !.sy = n]) BY <1>2 DEF Alike, Fields
<1>4. CASE down < BOTTOM \/ p.playerstate = "dead"
  BY <1>1, <1>3, <1>4, AlikeIsSound DEF A_Lower
<1>5. CASE ~(down < BOTTOM) /\ p.playerstate = "live"
  <2> DEFINE q == [p EXCEPT !.ready = p.pending]
  <2>1. s # Null BY <1>2, HandFollows, FreeIsTyped, <1>1 DEF InHand, Follows, Free
  <2>2. p.pending # "nochange" BY <1>5, <2>1 DEF InHand, Fits
  <2>3. p.pending \in p.owned BY <1>1, <2>2 DEF Free, Fine, Carried
  <2>4. DOMAIN q = Fields /\ q.ready = p.pending /\ \A f \in Fields \ {"ready"} : q[f] = p[f]
    BY <1>2 DEF Fields
  <2>5. A_Lower(p) = P_BringUpWeapon(q) BY <1>2, <1>5 DEF A_Lower
  <2> HIDE DEF q
  <2>6. /\ q.playerstate = p.playerstate /\ q.health = p.health /\ q.mohealth = p.mohealth
        /\ q.armorpoints = p.armorpoints /\ q.armortype = p.armortype /\ q.ammo = p.ammo /\ q.maxammo = p.maxammo
        /\ q.owned = p.owned /\ q.pending = p.pending /\ q.powers = p.powers /\ q.shadow = p.shadow
        /\ q.psprites = p.psprites /\ q.calls = p.calls
    BY <2>4 DEF Fields
  <2>7. PlayerType(q) BY <1>1, <1>2, <2>3, <2>4, <2>6 DEF Free, Fine, PlayerType
  <2>8. Counted(q) /\ Carried(q) /\ Healthy(k, q) /\ Shaded(q)
    BY <1>1, <2>3, <2>4, <2>6 DEF Free, Fine, Counted, Carried, Healthy, Shaded
  <2>9. Free(k, q) BY <1>1, <2>6, <2>7, <2>8 DEF Free, Fine, Ordered, Quiet, Lit, Coming, Setting
  <2> QED BY <2>4, <2>5, <2>6, <2>9, BringingUp
<1> QED BY <1>2, <1>4, <1>5

\* A weapon that is up is ready.
LEMMA RaiseActs == ASSUME NEW k, NEW p, NEW s, InHand(k, p, s) PROVE Sound(k, A_Raise(p))
<1>1. Sound(k, p) /\ Free(k, p) BY InHandIsSound DEF InHand
<1>2. DOMAIN p = Fields /\ p.ready \in Arms /\ Info_(p) = weaponinfo[p.ready] BY <1>1, FreeIsTyped DEF Free
<1>3. ASSUME NEW n PROVE Alike(p, [p EXCEPT !.sy = n]) BY <1>2 DEF Alike, Fields
<1>4. CASE p.sy > 1 BY <1>1, <1>3, <1>4, AlikeIsSound DEF A_Raise
<1>5. CASE ~(p.sy > 1)
  <2> DEFINE q == [p EXCEPT !.sy = 0]
             t == First(Info_(p).readystate)
  <2>1. Free(k, q) /\ q.ready = p.ready BY <1>1, <1>3, AlikeIsFree DEF Alike
  <2>2. t \in HandStates(p.ready) /\ t[1] = Info_(p).readystate
        /\ t[1] \notin {Info_(p).downstate, Info_(p).atkstate}
    BY <1>2, HandStarts DEF First
  <2>3. t \in Poses BY <1>2, <2>2, StartsInPoses
  <2>4. A_Raise(p) = P_SetPsprite(q, "weapon", t) BY <1>5 DEF A_Raise
  <2> HIDE DEF q, t
  <2>5. Fits(q, t, t[2]) BY <2>1, <2>2 DEF Fits, Loaded, Info_
  <2> QED BY <2>1, <2>3, <2>4, <2>5, SettingWeapon DEF Free
<1> QED BY <1>4, <1>5

\* A shot uses what there is, and its flash is seen.
LEMMA UsingActs ==
  ASSUME NEW k, NEW p, NEW s, InHand(k, p, s), Info_(p).ammo \in Ammo, NEW n \in Nat, p.ammo[Info_(p).ammo] >= n,
         s[1] = Info_(p).atkstate => s[2] = FiresAt(p.ready) \/ FiresAt(p.ready) = 0
  PROVE  Sound(k, Uses(p, n)) /\ Free(k, Uses(p, n)) /\ Info_(Uses(p, n)) = Info_(p)
<1> DEFINE a == Info_(p).ammo
           q == Uses(p, n)
<1>1. Free(k, p) BY DEF InHand
<1>2. DOMAIN p = Fields /\ p.ammo \in [Ammo -> Int] /\ p.ready \in Arms BY <1>1, FreeIsTyped DEF Free
<1>3. /\ DOMAIN q = Fields /\ q.ammo = [p.ammo EXCEPT ![a] = @ - n]
      /\ \A f \in Fields \ {"ammo"} : q[f] = p[f]
  BY <1>2 DEF Uses, Fields
<1> HIDE DEF q
<1>4. /\ q.playerstate = p.playerstate /\ q.health = p.health /\ q.mohealth = p.mohealth
      /\ q.armorpoints = p.armorpoints /\ q.armortype = p.armortype /\ q.maxammo = p.maxammo
      /\ q.owned = p.owned /\ q.ready = p.ready /\ q.pending = p.pending /\ q.powers = p.powers /\ q.shadow = p.shadow
      /\ q.psprites = p.psprites /\ q.calls = p.calls
  BY <1>3 DEF Fields
<1>5. /\ q.ammo \in [Ammo -> Int] /\ q.ammo[a] = p.ammo[a] - n
      /\ \A b \in Ammo \ {a} : q.ammo[b] = p.ammo[b]
  BY <1>2, <1>3
<1>6. Counted(q)
  <2>1. p.maxammo \in [Ammo -> Nat] /\ \A b \in Ammo : p.ammo[b] \in 0..p.maxammo[b]
    BY <1>1 DEF Free, Fine, PlayerType, Counted
  <2> QED BY <1>4, <1>5, <2>1 DEF Counted
<1>7. PlayerType(q) BY <1>1, <1>3, <1>4, <1>5 DEF Free, Fine, PlayerType
<1>8. Carried(q) /\ Healthy(k, q) /\ Shaded(q) BY <1>1, <1>4 DEF Free, Fine, Carried, Healthy, Shaded
<1>9. Free(k, q) BY <1>1, <1>4, <1>6, <1>7, <1>8 DEF Free, Fine, Ordered, Quiet, Lit, Coming, Setting
<1>10. Fits(q, s, s[2] + 1)
  <2>1. s[2] \in Nat BY <1>2, HandFollows DEF InHand, Follows
  <2>2. FiresAt(p.ready) \in Nat BY DEF FiresAt
  <2>3. Loaded(q, s, s[2] + 1) BY <1>4, <2>1, <2>2 DEF Loaded, Info_
  <2> QED BY <1>4, <2>3 DEF Fits, InHand, Info_
<1>11. Sound(k, q) BY <1>4, <1>9, <1>10, InForce DEF InHand
<1> QED BY <1>4, <1>9, <1>11 DEF q, Info_

\* The flash is seen for itself.
LEMMA FlashActs ==
  ASSUME NEW k, NEW p, Sound(k, p), Free(k, p)
  PROVE  Sound(k, Flashes(p))
<1>1. p.ready \in Arms /\ Info_(p) = weaponinfo[p.ready] BY FreeIsTyped DEF Free
<1>2. First(Info_(p).flashstate) \in FlashStates BY <1>1, HandStarts
<1> QED BY <1>2, SettingFlash DEF Flashes, Free

\* On the way to its shot the weapon in hand is that of the action, and has enough.
LEMMA ShotActs ==
  ASSUME NEW k, NEW p, NEW s, InHand(k, p, s),
         ActionOf(s) \in {"A_FirePistol", "A_FireShotgun", "A_FireShotgun2", "A_FireMissile", "A_FirePlasma", "A_FireBFG"}
  PROVE  /\ Info_(p).ammo \in Ammo /\ s[1] = Info_(p).atkstate /\ s[2] = FiresAt(p.ready)
         /\ p.ammo[Info_(p).ammo] >= Charge(p.ready) /\ Charge(p.ready) \in Nat
         /\ ActionOf(s) = "A_FireShotgun2" => p.ready = "supershotgun"
         /\ ActionOf(s) = "A_FireBFG" => p.ready = "bfg"
         /\ ActionOf(s) \notin {"A_FireShotgun2", "A_FireBFG"} => p.ready \notin {"supershotgun", "bfg"}
<1>1. p.ready \in Arms /\ Info_(p) = weaponinfo[p.ready] BY FreeIsTyped DEF InHand, Free
<1>2. ActsAs(p.ready, s) /\ s # Null BY <1>1, Shapes, HandFollows DEF InHand, Follows
<1>3. /\ p.ready \in {"pistol", "shotgun", "supershotgun", "missile", "plasma", "bfg"}
      /\ s = <<weaponinfo[p.ready].atkstate, FiresAt(p.ready)>>
      /\ ActionOf(s) = "A_FireShotgun2" => p.ready = "supershotgun"
      /\ ActionOf(s) = "A_FireBFG" => p.ready = "bfg"
      /\ ActionOf(s) \notin {"A_FireShotgun2", "A_FireBFG"} => p.ready \notin {"supershotgun", "bfg"}
  BY <1>2 DEF ActsAs
<1>4. Info_(p).ammo \in Ammo BY <1>1, <1>3 DEF weaponinfo, Weapon, Ammo
<1>5. FiresAt(p.ready) \in 1..3 /\ Charge(p.ready) \in Nat BY <1>3, FiguresAssumption DEF FiresAt, Charge
<1>6. s[1] = Info_(p).atkstate /\ s[2] = FiresAt(p.ready) /\ s[2] \in 1..FiresAt(p.ready) BY <1>1, <1>3, <1>5
<1>7. Loaded(p, s, s[2]) BY <1>2 DEF InHand, Fits
<1> QED BY <1>3, <1>4, <1>5, <1>6, <1>7 DEF Loaded

\* The shots: with what the weapon on its way to them has been loaded with.
LEMMA Shooting ==
  ASSUME NEW k, NEW p, NEW s, InHand(k, p, s),
         ActionOf(s) \in {"A_FirePistol", "A_FireShotgun", "A_FireShotgun2", "A_FireMissile", "A_FirePlasma", "A_FireBFG"}
  PROVE  LET q == Uses(p, Charge(p.ready)) IN Sound(k, q) /\ Free(k, q)
BY ShotActs, UsingActs

LEMMA FireActs ==
  ASSUME NEW k, NEW p, NEW s, InHand(k, p, s)
  PROVE  /\ ActionOf(s) = "A_FirePistol" => Sound(k, A_FirePistol(p))
         /\ ActionOf(s) = "A_FireShotgun" => Sound(k, A_FireShotgun(p))
         /\ ActionOf(s) = "A_FireShotgun2" => Sound(k, A_FireShotgun2(p))
         /\ ActionOf(s) = "A_FireMissile" => Sound(k, A_FireMissile(p))
         /\ ActionOf(s) = "A_FirePlasma" => Sound(k, A_FirePlasma(p))
         /\ ActionOf(s) = "A_FireBFG" => Sound(k, A_FireBFG(p))
<1>1. ASSUME ActionOf(s) \in {"A_FirePistol", "A_FireShotgun", "A_FireMissile", "A_FirePlasma"}
      PROVE  Sound(k, Uses(p, 1)) /\ Free(k, Uses(p, 1))
  <2>1. Charge(p.ready) = 1 BY <1>1, ShotActs DEF Charge
  <2> QED BY <1>1, <2>1, Shooting
<1>2. ASSUME ActionOf(s) = "A_FirePistol" PROVE Sound(k, A_FirePistol(p)) BY <1>1, <1>2, FlashActs DEF A_FirePistol
<1>3. ASSUME ActionOf(s) = "A_FireShotgun" PROVE Sound(k, A_FireShotgun(p)) BY <1>1, <1>3, FlashActs DEF A_FireShotgun
<1>4. ASSUME ActionOf(s) = "A_FireShotgun2" PROVE Sound(k, A_FireShotgun2(p))
  <2>1. Charge(p.ready) = DSGUNCELLS BY <1>4, ShotActs DEF Charge
  <2> QED BY <1>4, <2>1, Shooting, FlashActs DEF A_FireShotgun2
<1>5. ASSUME ActionOf(s) = "A_FireMissile" PROVE Sound(k, A_FireMissile(p)) BY <1>1, <1>5 DEF A_FireMissile
<1>6. ASSUME ActionOf(s) = "A_FirePlasma" PROVE Sound(k, A_FirePlasma(p))
  <2> DEFINE q == Uses(p, 1)
             flash == IF "odd" \in p.cmd THEN "PLASMAFLASH2" ELSE "PLASMAFLASH1"
  <2>1. Sound(k, q) /\ Free(k, q) BY <1>1, <1>6
  <2>2. First(flash) \in FlashStates BY LightStarts DEF Lights
  <2>3. A_FirePlasma(p) = P_SetPsprite(q, "flash", First(flash)) BY DEF A_FirePlasma
  <2> HIDE DEF q, flash
  <2> QED BY <2>1, <2>2, <2>3, SettingFlash DEF Free
<1>7. ASSUME ActionOf(s) = "A_FireBFG" PROVE Sound(k, A_FireBFG(p))
  <2>1. Charge(p.ready) = BFGCELLS BY <1>7, ShotActs DEF Charge
  <2> QED BY <1>7, <2>1, Shooting DEF A_FireBFG
<1> QED BY <1>2, <1>3, <1>4, <1>5, <1>6, <1>7

\* The chaingun looks whether there is anything left.
LEMMA ChaingunActs ==
  ASSUME NEW k, NEW p, NEW s, InHand(k, p, s), ActionOf(s) = "A_FireCGun"
  PROVE  Sound(k, A_FireCGun(p))
<1>1. p.ready \in Arms /\ Info_(p) = weaponinfo[p.ready] /\ p.ammo \in [Ammo -> Int] /\ Sound(k, p)
  BY FreeIsTyped, InHandIsSound DEF InHand, Free
<1>2. p.ready = "chaingun" BY <1>1, Shapes DEF InHand, ActsAs
<1>3. Info_(p).ammo \in Ammo /\ FiresAt(p.ready) = 0 BY <1>1, <1>2 DEF weaponinfo, Weapon, Ammo, FiresAt
<1>4. CASE p.ammo[Info_(p).ammo] = 0 BY <1>1, <1>4 DEF A_FireCGun
<1>5. CASE p.ammo[Info_(p).ammo] # 0
  <2> DEFINE q == Uses(p, 1)
             flash == IF p.psprites["weapon"].state[2] = 1 THEN "CHAINFLASH1" ELSE "CHAINFLASH2"
  <2>1. p.ammo[Info_(p).ammo] >= 0 BY <1>3 DEF InHand, Free, Fine, Counted
  <2>2. p.ammo[Info_(p).ammo] >= 1 BY <1>1, <1>3, <1>5, <2>1
  <2>3. Sound(k, q) /\ Free(k, q) BY <1>3, <2>2, UsingActs
  <2>4. First(flash) \in FlashStates BY LightStarts DEF Lights
  <2>5. A_FireCGun(p) = P_SetPsprite(q, "flash", First(flash)) BY <1>5 DEF A_FireCGun
  <2> HIDE DEF q, flash
  <2> QED BY <2>3, <2>4, <2>5, SettingFlash DEF Free
<1> QED BY <1>4, <1>5

\* Neither the light nor the saw's mark is asked about.
LEMMA LightActs ==
  ASSUME NEW k, NEW p, Sound(k, p)
  PROVE  (\A n : Sound(k, A_Light(p, n))) /\ Sound(k, A_Saw(p))
<1>1. DOMAIN p = Fields BY DEF Sound, Fine, PlayerType
<1>2. ASSUME NEW n PROVE Alike(p, A_Light(p, n)) BY <1>1 DEF A_Light, Alike, Fields
<1>3. Alike(p, A_Saw(p)) BY <1>1 DEF A_Saw, Alike, Fields
<1> QED BY <1>2, <1>3, AlikeIsSound

\* What the actions of the weapon in hand do.
LEMMA HandActs ==
  ASSUME NEW k, NEW p, NEW s, InHand(k, p, s)
  PROVE  Sound(k, WeaponAction(p, ActionOf(s)))
<1> DEFINE does == ActionOf(s)
<1>1. Sound(k, p) /\ Free(k, p) BY InHandIsSound DEF InHand
<1>2. does = "A_Lower" => s[1] = Info_(p).downstate
  <2>1. p.ready \in Arms /\ Info_(p) = weaponinfo[p.ready] BY <1>1, FreeIsTyped DEF Free
  <2> QED BY <2>1, Shapes DEF InHand, ActsAs
<1> HIDE DEF does
<1>3. CASE does = "A_WeaponReady" BY <1>3, ReadyActs DEF WeaponAction, does
<1>4. CASE does = "A_Lower" BY <1>2, <1>4, LowerActs DEF WeaponAction, does
<1>5. CASE does = "A_Raise" BY <1>5, RaiseActs DEF WeaponAction, does
<1>6. CASE does = "A_ReFire" BY <1>6, RefireActs DEF WeaponAction, does
<1>7. CASE does = "A_CheckReload" BY <1>7, RefireActs DEF WeaponAction, does
<1>8. CASE does = "A_GunFlash" BY <1>1, <1>8, FlashActs DEF WeaponAction, A_GunFlash, does
<1>9. CASE does = "A_FireMissile" BY <1>9, FireActs DEF WeaponAction, does
<1>10. CASE does = "A_FireBFG" BY <1>10, FireActs DEF WeaponAction, does
<1>11. CASE does = "A_FirePlasma" BY <1>11, FireActs DEF WeaponAction, does
<1>12. CASE does = "A_FirePistol" BY <1>12, FireActs DEF WeaponAction, does
<1>13. CASE does = "A_FireShotgun" BY <1>13, FireActs DEF WeaponAction, does
<1>14. CASE does = "A_FireShotgun2" BY <1>14, FireActs DEF WeaponAction, does
<1>15. CASE does = "A_FireCGun" BY <1>15, ChaingunActs DEF WeaponAction, does
<1>16. CASE does \in {"A_Saw", "A_Light0", "A_Light1", "A_Light2"} BY <1>1, <1>16, LightActs DEF WeaponAction, does
<1>17. CASE does \notin {"A_WeaponReady", "A_Lower", "A_Raise", "A_ReFire", "A_CheckReload", "A_GunFlash", "A_FireMissile",
                         "A_FireBFG", "A_FirePlasma", "A_FirePistol", "A_FireShotgun", "A_FireShotgun2", "A_FireCGun",
                         "A_Saw", "A_Light0", "A_Light1", "A_Light2"}
  BY <1>1, <1>17 DEF WeaponAction, does
<1> QED BY <1>3, <1>4, <1>5, <1>6, <1>7, <1>8, <1>9, <1>10, <1>11, <1>12, <1>13, <1>14, <1>15, <1>16, <1>17

\* And those of the flash.
LEMMA FlashOnlyLights ==
  ASSUME NEW k, NEW p, Sound(k, p), NEW s \in FlashStates
  PROVE  Sound(k, WeaponAction(p, ActionOf(s)))
<1> DEFINE does == ActionOf(s)
<1>1. does \in {"A_Light0", "A_Light1", "A_Light2", "none"} BY FlashFollows
<1> HIDE DEF does
<1>2. Sound(k, WeaponAction(p, does)) BY <1>1, LightActs DEF WeaponAction
<1> QED BY <1>2 DEF does

-----------------------------------------------------------------------------
\* A state that is put in force leaves all else as it is.
LEMMA Putting ==
  ASSUME NEW k, NEW p, Free(k, p), NEW which \in {"weapon", "flash"}, NEW s \in Poses, which = "flash" => s \in FlashStates,
         NEW tics
  PROVE  LET q == [p EXCEPT !.psprites[which] = Psp(s, tics)]
         IN /\ Free(k, q) /\ q.psprites[which].state = s
            /\ \A other \in {"weapon", "flash"} \ {which} : q.psprites[other] = p.psprites[other]
            /\ \A t, at : Fits(p, t, at) => Fits(q, t, at)
<1> DEFINE q == [p EXCEPT !.psprites[which] = Psp(s, tics)]
<1>1. Fine(k, p) /\ DOMAIN p = Fields /\ DOMAIN p.psprites = {"weapon", "flash"} BY DEF Free, Fine, PlayerType
<1>2. /\ DOMAIN q = Fields /\ q.psprites = [p.psprites EXCEPT ![which] = Psp(s, tics)]
      /\ \A f \in Fields \ {"psprites"} : q[f] = p[f]
  BY <1>1 DEF Fields
<1> HIDE DEF q
<1>3. /\ q.playerstate = p.playerstate /\ q.health = p.health /\ q.mohealth = p.mohealth
      /\ q.armorpoints = p.armorpoints /\ q.armortype = p.armortype /\ q.ammo = p.ammo /\ q.maxammo = p.maxammo
      /\ q.owned = p.owned /\ q.ready = p.ready /\ q.pending = p.pending /\ q.powers = p.powers /\ q.shadow = p.shadow
      /\ q.calls = p.calls
  BY <1>2 DEF Fields
<1>4. /\ DOMAIN q.psprites = {"weapon", "flash"} /\ q.psprites[which].state = s
      /\ DOMAIN q.psprites[which] = {"state", "tics"}
      /\ \A other \in {"weapon", "flash"} \ {which} : q.psprites[other] = p.psprites[other]
  BY <1>1, <1>2 DEF Psp
<1>5. PlayerType(q) BY <1>1, <1>2, <1>3, <1>4 DEF Fine, PlayerType
<1>6. Counted(q) /\ Carried(q) /\ Healthy(k, q) /\ Shaded(q)
  BY <1>1, <1>3 DEF Fine, Counted, Carried, Healthy, Shaded
<1>7. Lit(q)
  <2>1. p.psprites["flash"].state \in FlashStates BY DEF Free, Lit
  <2>2. q.psprites["flash"].state \in FlashStates BY <1>4, <2>1
  <2>3. Setting(q, "flash") = Setting(p, "flash") BY <1>3 DEF Setting
  <2> QED BY <1>3, <2>2, <2>3 DEF Free, Lit, Coming
<1>8. Free(k, q) BY <1>3, <1>5, <1>6, <1>7 DEF Free, Fine, Ordered, Quiet
<1>9. ASSUME NEW t, NEW at, Fits(p, t, at) PROVE Fits(q, t, at) BY <1>3, <1>9 DEF Fits, Loaded, Info_
<1> QED BY <1>4, <1>8, <1>9 DEF q

\* The end of P_SetPsprite's loop is called for.
LEMMA Ending ==
  ASSUME NEW k, NEW p, Free(k, p), NEW which \in {"weapon", "flash"}
  PROVE  LET q == Pushed(p, Ends(which))
         IN Free(k, q) /\ q.psprites = p.psprites /\ \A t, at : Fits(p, t, at) => Fits(q, t, at)
<1> DEFINE call == Ends(which)
           q == Pushed(p, call)
<1>1. call \in Calls /\ call.do = "ends" BY NullIsDark DEF Ends, Call, Calls
<1>2. Fine(k, p) /\ DOMAIN p = Fields /\ p.calls \in Seq(Calls) BY DEF Free, Fine, PlayerType
<1>3. /\ DOMAIN q = Fields /\ \A f \in Fields \ {"calls"} : q[f] = p[f]
      /\ q.calls \in Seq(Calls) /\ q.calls # <<>> /\ q.calls[1] = call
      /\ Len(q.calls) = Len(p.calls) + 1
      /\ \A i \in DOMAIN q.calls : i # 1 => i - 1 \in DOMAIN p.calls /\ q.calls[i] = p.calls[i - 1]
  BY <1>1, <1>2, Pushing
<1> HIDE DEF q, call
<1>4. Fine(k, q) BY <1>2, <1>3, FineWithCalls
<1>5. Quiet(q) BY <1>1, <1>3 DEF Free, Quiet
<1>6. /\ q.psprites = p.psprites /\ q.ready = p.ready /\ q.ammo = p.ammo /\ q.playerstate = p.playerstate
      /\ q.pending = p.pending
  BY <1>3 DEF Fields
<1>7. Ordered(q) BY <1>1, <1>2, <1>3, <1>6 DEF Free, Ordered, Quiet
<1>8. Lit(q)
  <2>1. ~Setting(q, "flash") BY <1>1, <1>3 DEF Setting
  <2> QED BY <1>6, <2>1 DEF Free, Lit, Coming
<1>9. ASSUME NEW t, NEW at, Fits(p, t, at) PROVE Fits(q, t, at) BY <1>6, <1>9 DEF Fits, Loaded, Info_
<1> QED BY <1>4, <1>5, <1>6, <1>7, <1>8, <1>9 DEF q, call, Free

\* P_SetPsprite puts the state in force and runs its action.
LEMMA EnteringWeapon ==
  ASSUME NEW k, NEW p, Free(k, p), NEW s \in Poses, Fits(p, s, s[2])
  PROVE  Sound(k, Enters(p, "weapon", s))
<1>1. CASE s = Null
  <2> DEFINE q == [p EXCEPT !.psprites["weapon"] = Psp(s, 0)]
  <2>1. Free(k, q) /\ q.psprites["weapon"].state = s BY Putting
  <2>2. Enters(p, "weapon", s) = q BY <1>1 DEF Enters
  <2> HIDE DEF q
  <2>3. Sound(k, q)
    <3>1. Fits(q, s, s[2] + 1) BY <1>1 DEF Fits
    <3> QED BY <2>1, <3>1, InForce
  <2> QED BY <2>2, <2>3
<1>2. CASE s # Null
  <2> DEFINE q == [p EXCEPT !.psprites["weapon"] = Psp(s, Tics(s))]
             r == Pushed(q, Ends("weapon"))
  <2>1. Free(k, q) /\ q.psprites["weapon"].state = s /\ Fits(q, s, s[2]) BY Putting
  <2>2. Enters(p, "weapon", s) = WeaponAction(r, ActionOf(s)) BY <1>2 DEF Enters
  <2> HIDE DEF q
  <2>3. Free(k, r) /\ r.psprites = q.psprites /\ Fits(r, s, s[2]) BY <2>1, Ending
  <2> HIDE DEF r
  <2>4. InHand(k, r, s) BY <1>2, <2>1, <2>3 DEF InHand, Fits
  <2> QED BY <2>2, <2>4, HandActs
<1> QED BY <1>1, <1>2

LEMMA EnteringFlash ==
  ASSUME NEW k, NEW p, Free(k, p), Sound(k, p), NEW s \in FlashStates
  PROVE  Sound(k, Enters(p, "flash", s))
<1>0. s \in Poses BY DEF Poses
<1> DEFINE t == p.psprites["weapon"].state
<1>1. Fits(p, t, t[2] + 1)
  <2>1. ~Setting(p, "weapon")
    <3>1. DOMAIN p.calls = 1 .. Len(p.calls) /\ Len(p.calls) \in Nat /\ (p.calls # <<>> => Len(p.calls) >= 1)
      BY DEF Free, Fine, PlayerType
    <3> QED BY <3>1 DEF Free, Quiet, Setting
  <2> QED BY <2>1 DEF Sound, Held, Coming
<1>2. ASSUME NEW tics PROVE LET q == [p EXCEPT !.psprites["flash"] = Psp(s, tics)] IN Sound(k, q) /\ Free(k, q) /\ q.psprites["weapon"].state = t /\ Fits(q, t, t[2] + 1)
  <2> DEFINE q == [p EXCEPT !.psprites["flash"] = Psp(s, tics)]
  <2>1. Free(k, q) /\ q.psprites["weapon"] = p.psprites["weapon"] /\ Fits(q, t, t[2] + 1) BY <1>0, <1>1, Putting
  <2> HIDE DEF q
  <2>2. Sound(k, q) BY <2>1, InForce
  <2> QED BY <2>1, <2>2 DEF q
<1>3. CASE s = Null BY <1>2, <1>3 DEF Enters
<1>4. CASE s # Null
  <2> DEFINE q == [p EXCEPT !.psprites["flash"] = Psp(s, Tics(s))]
             r == Pushed(q, Ends("flash"))
  <2>1. Free(k, q) /\ q.psprites["weapon"].state = t /\ Fits(q, t, t[2] + 1) BY <1>2
  <2>2. Enters(p, "flash", s) = WeaponAction(r, ActionOf(s)) BY <1>4 DEF Enters
  <2> HIDE DEF q, t
  <2>3. Free(k, r) /\ r.psprites = q.psprites /\ Fits(r, t, t[2] + 1) BY <2>1, Ending
  <2> HIDE DEF r
  <2>4. Sound(k, r) BY <2>1, <2>3, InForce
  <2> QED BY <2>2, <2>4, FlashOnlyLights
<1> QED BY <1>3, <1>4

\* The state in force makes place for the one that follows it.
LEMMA Following ==
  ASSUME NEW k, NEW p, Free(k, p), Sound(k, p), NEW which \in {"weapon", "flash"}, p.psprites[which].state # Null
  PROVE  Sound(k, P_SetPsprite(p, which, NextState(p.psprites[which].state)))
<1> DEFINE s == p.psprites[which].state
           next == NextState(s)
<1>1. CASE which = "flash"
  <2>1. s \in FlashStates BY <1>1 DEF Free, Lit
  <2>2. next \in FlashStates BY <2>1, FlashFollows
  <2> QED BY <1>1, <2>2, SettingFlash DEF Free
<1>2. CASE which = "weapon"
  <2>1. ~Setting(p, "weapon")
    <3>1. DOMAIN p.calls = 1 .. Len(p.calls) /\ Len(p.calls) \in Nat /\ (p.calls # <<>> => Len(p.calls) >= 1)
      BY DEF Free, Fine, PlayerType
    <3> QED BY <3>1 DEF Free, Quiet, Setting
  <2>2. Fits(p, s, s[2] + 1) BY <1>2, <2>1 DEF Sound, Held, Coming
  <2>3. p.ready \in Arms /\ Info_(p) = weaponinfo[p.ready] BY FreeIsTyped DEF Free
  <2> HIDE DEF s
  <2>4. s # Null BY DEF s
  <2>5. Follows(p.ready, s) BY <2>2, <2>3, <2>4, HandFollows DEF Fits
  <2> HIDE DEF next
  <2>6. next \in HandStates(p.ready) /\ (next[1] = Info_(p).downstate <=> s[1] = Info_(p).downstate)
        /\ (next[1] = Info_(p).atkstate => s[1] = Info_(p).atkstate /\ next[2] = s[2] + 1)
    BY <2>3, <2>5 DEF Follows, next
  <2>7. Loaded(p, next, next[2]) BY <2>2, <2>4, <2>6 DEF Fits, Loaded
  <2>8. Fits(p, next, next[2]) BY <2>2, <2>4, <2>6, <2>7 DEF Fits
  <2>9. next \in Poses BY <2>3, <2>6, StartsInPoses
  <2>10. Sound(k, P_SetPsprite(p, "weapon", next)) BY <2>8, <2>9, SettingWeapon DEF Free
  <2> QED BY <1>2, <2>10 DEF next, s
<1> QED BY <1>1, <1>2

LEMMA PassingAndMoving ==
  ASSUME NEW k, NEW p, Free(k, p), Sound(k, p), NEW which \in {"weapon", "flash"}
  PROVE  Sound(k, Passes(p, which)) /\ Sound(k, MovePsprite(p, which))
<1> DEFINE s == p.psprites[which]
           q == [p EXCEPT !.psprites[which].tics = @ - 1]
<1>1. Sound(k, Passes(p, which)) BY Following DEF Passes
<1>2. Sound(k, q)
  <2>1. DOMAIN p = Fields /\ DOMAIN p.psprites = {"weapon", "flash"} /\ DOMAIN s = {"state", "tics"}
    BY DEF Free, Fine, PlayerType
  <2>2. /\ DOMAIN q = Fields /\ \A f \in Fields \ {"psprites"} : q[f] = p[f]
        /\ q.psprites = [p.psprites EXCEPT ![which] = [s EXCEPT !.tics = s.tics - 1]]
    BY <2>1 DEF Fields
  <2>3. /\ DOMAIN q.psprites = {"weapon", "flash"}
        /\ \A other \in {"weapon", "flash"} : q.psprites[other].state = p.psprites[other].state
                                              /\ DOMAIN q.psprites[other] = DOMAIN p.psprites[other]
    BY <2>1, <2>2
  <2> HIDE DEF q
  <2>4. /\ q.playerstate = p.playerstate /\ q.health = p.health /\ q.mohealth = p.mohealth
        /\ q.armorpoints = p.armorpoints /\ q.armortype = p.armortype /\ q.ammo = p.ammo /\ q.maxammo = p.maxammo
        /\ q.owned = p.owned /\ q.ready = p.ready /\ q.pending = p.pending /\ q.powers = p.powers /\ q.shadow = p.shadow
        /\ q.calls = p.calls
    BY <2>2 DEF Fields
  <2>5. PlayerType(q) BY <2>2, <2>3, <2>4 DEF Free, Fine, PlayerType
  <2>6. Counted(q) /\ Carried(q) /\ Healthy(k, q) /\ Shaded(q)
    BY <2>4 DEF Free, Fine, Counted, Carried, Healthy, Shaded
  <2>7. \A other \in {"weapon", "flash"} : Coming(q, other) = Coming(p, other) /\ Setting(q, other) = Setting(p, other)
    BY <2>3, <2>4 DEF Coming, Setting
  <2>8. Ordered(q) BY <2>4 DEF Sound, Ordered
  <2>9. Lit(q) BY <2>3, <2>7 DEF Sound, Lit
  <2>10. ASSUME NEW t, NEW at, Fits(p, t, at) PROVE Fits(q, t, at) BY <2>4, <2>10 DEF Fits, Loaded, Info_
  <2>11. Held(q) BY <2>7, <2>10 DEF Sound, Held
  <2> QED BY <2>5, <2>6, <2>8, <2>9, <2>11 DEF Sound, Fine
<1> QED BY <1>1, <1>2, Following DEF MovePsprite

\* The powers wear off, and with that of invisibility the shadow.
LEMMA WearingOff == ASSUME NEW k, NEW p, Sound(k, p) PROVE Sound(k, WornOff(p))
<1> DEFINE q == WornOff(p)
           w == p.powers
<1>0. Fine(k, p) BY DEF Sound
<1>1. DOMAIN p = Fields /\ w \in [Powers -> Nat] /\ p.shadow \in BOOLEAN BY <1>0 DEF Fine, PlayerType
<1>2. DOMAIN q = Fields /\ \A f \in Fields \ {"powers", "shadow", "cmd", "damagecount", "bonuscount"} : q[f] = p[f]
  BY <1>1 DEF WornOff, Fields
<1>3. /\ q.powers = [j \in Powers |-> CASE j = "allmap" -> w[j] [] j = "strength" -> Min({2 * w[j], 2})
                                        [] OTHER -> Max({w[j] - 1, 0})]
      /\ q.shadow = IF w["invisibility"] = 1 THEN FALSE ELSE p.shadow
  BY <1>1 DEF WornOff, Fields
<1> HIDE DEF q
<1>4. /\ q.playerstate = p.playerstate /\ q.health = p.health /\ q.mohealth = p.mohealth
      /\ q.armorpoints = p.armorpoints /\ q.armortype = p.armortype /\ q.ammo = p.ammo /\ q.maxammo = p.maxammo
      /\ q.owned = p.owned /\ q.ready = p.ready /\ q.pending = p.pending
      /\ q.psprites = p.psprites /\ q.calls = p.calls
  BY <1>2 DEF Fields
<1>5. q.powers \in [Powers -> Nat]
  <2>1. ASSUME NEW j \in Powers PROVE Min({2 * w[j], 2}) \in Nat /\ Max({w[j] - 1, 0}) \in Nat
    <3>1. w[j] \in Nat BY <1>1
    <3>2. Min({2 * w[j], 2}) = IF 2 * w[j] <= 2 THEN 2 * w[j] ELSE 2 BY <3>1, MinOfTwo
    <3>3. Max({w[j] - 1, 0}) = IF w[j] - 1 >= 0 THEN w[j] - 1 ELSE 0 BY <3>1, MaxOfTwo
    <3>4. Min({2 * w[j], 2}) \in Nat BY <3>1, <3>2
    <3>5. Max({w[j] - 1, 0}) \in Nat BY <3>1, <3>3
    <3> QED BY <3>4, <3>5
  <2>2. ASSUME NEW j \in Powers PROVE q.powers[j] \in Nat
    <3>1. q.powers[j] = CASE j = "allmap" -> w[j] [] j = "strength" -> Min({2 * w[j], 2}) [] OTHER -> Max({w[j] - 1, 0})
      BY <1>3
    <3>2. w[j] \in Nat BY <1>1
    <3> QED BY <2>1, <3>1, <3>2
  <2>3. DOMAIN q.powers = Powers /\ q.powers = [j \in Powers |-> q.powers[j]] BY <1>3
  <2> QED BY <2>2, <2>3
<1>6. Shaded(q)
  <2>1. "invisibility" \in Powers /\ w["invisibility"] \in Nat BY <1>1 DEF Powers
  <2>2. q.powers["invisibility"] = Max({w["invisibility"] - 1, 0}) BY <1>3, <2>1
  <2>3. Max({w["invisibility"] - 1, 0}) = IF w["invisibility"] - 1 >= 0 THEN w["invisibility"] - 1 ELSE 0
    BY <2>1, MaxOfTwo
  <2>4. p.shadow <=> w["invisibility"] > 0 BY <1>0 DEF Fine, Shaded
  <2> QED BY <1>1, <1>3, <2>1, <2>2, <2>3, <2>4 DEF Shaded
<1>7. PlayerType(q)
  <2>1. q.shadow \in BOOLEAN BY <1>1, <1>3
  <2> QED BY <1>0, <1>2, <1>4, <1>5, <2>1 DEF Fine, PlayerType
<1>8. Fine(k, q) BY <1>0, <1>4, <1>6, <1>7 DEF Fine, Counted, Carried, Healthy
<1>9. Keeps(p, q) BY <1>0, <1>4 DEF Keeps, Fine, PlayerType
<1> QED BY <1>8, <1>9, KeepsSound DEF q

\* The dead are reborn where their tic ends.
LEMMA Dying ==
  ASSUME NEW k, NEW p, Sound(k, p), p.calls = <<>>, p.playerstate = "dead"
  PROVE  Sound(k, Died(p))
<1> DEFINE q == Died(p)
<1>0. Fine(k, p) BY DEF Sound
<1>1. DOMAIN p = Fields BY <1>0 DEF Fine, PlayerType
<1>2. DOMAIN q = Fields /\ \A f \in Fields \ {"cmd", "damagecount", "playerstate"} : q[f] = p[f]
  BY <1>1 DEF Died, Fields
<1>3. q.playerstate \in {"dead", "reborn"} BY <1>1 DEF Died, Fields
<1> HIDE DEF q
<1>4. /\ q.health = p.health /\ q.mohealth = p.mohealth
      /\ q.armorpoints = p.armorpoints /\ q.armortype = p.armortype /\ q.ammo = p.ammo /\ q.maxammo = p.maxammo
      /\ q.owned = p.owned /\ q.ready = p.ready /\ q.pending = p.pending /\ q.powers = p.powers /\ q.shadow = p.shadow
      /\ q.psprites = p.psprites /\ q.calls = p.calls
  BY <1>2 DEF Fields
<1>5. PlayerType(q) BY <1>0, <1>2, <1>3, <1>4 DEF Fine, PlayerType
<1>6. Fine(k, q) BY <1>0, <1>3, <1>4, <1>5 DEF Fine, Counted, Carried, Healthy, Shaded
<1>7. Ordered(q) BY <1>4 DEF Ordered
<1>8. Lit(q) BY <1>4 DEF Sound, Lit, Coming, Setting
<1>9. Held(q)
  <2>1. ASSUME NEW t, NEW at, Fits(p, t, at) PROVE Fits(q, t, at) BY <1>3, <1>4, <2>1 DEF Fits, Loaded, Info_
  <2>2. Coming(q, "weapon") = Coming(p, "weapon") /\ Setting(q, "weapon") = Setting(p, "weapon")
    BY <1>4 DEF Coming, Setting
  <2> QED BY <2>1, <2>2 DEF Sound, Held
<1> QED BY <1>6, <1>7, <1>8, <1>9 DEF Sound, q

\* Making the first call.
LEMMA MakingIsSound == ASSUME PlayerInv, Makes PROVE PlayerInv'
<1> DEFINE p == [player EXCEPT !.calls = Tail(@)]
           call == Head(player.calls)
           k == kit
<1>1. Sound(k, player) /\ player.calls # <<>> BY DEF PlayerInv, Makes
<1>2. /\ Free(k, p) /\ call \in Calls
      /\ (call.do = "sets" /\ call.which = "weapon") => Fits(p, call.state, call.state[2])
      /\ ~(call.do = "sets" /\ call.which = "weapon") => Sound(k, p)
      /\ (call.do = "sets" /\ call.which = "flash") => call.state \in FlashStates
      /\ call.do = "dies" => p.calls = <<>> /\ p.playerstate = "dead"
  BY <1>1, Popping
<1>3. player' = Made(p, call) /\ kit' = k BY DEF Makes
<1> HIDE DEF p, call
<1>4. call.which \in {"weapon", "flash"} /\ call.state \in Poses /\ call.do \in {"sets", "ends", "moves", "wears off", "dies"}
  BY <1>2 DEF Calls
<1>5. Sound(k, Made(p, call))
  <2>1. CASE call.do = "sets" /\ call.which = "weapon" BY <1>2, <1>4, <2>1, EnteringWeapon DEF Made
  <2>2. CASE call.do = "sets" /\ call.which = "flash" BY <1>2, <2>2, EnteringFlash DEF Made
  <2>3. CASE call.do = "ends" BY <1>2, <1>4, <2>3, PassingAndMoving DEF Made
  <2>4. CASE call.do = "moves" BY <1>2, <1>4, <2>4, PassingAndMoving DEF Made
  <2>5. CASE call.do = "wears off" BY <1>2, <2>5, WearingOff DEF Made
  <2>6. CASE call.do = "dies" BY <1>2, <2>6, Dying DEF Made
  <2> QED BY <1>4, <2>1, <2>2, <2>3, <2>4, <2>5, <2>6
<1> QED BY <1>3, <1>5 DEF PlayerInv

-----------------------------------------------------------------------------
(* ----------------------------------------------------------------------- *)
(* What is given                                                           *)
(* ----------------------------------------------------------------------- *)

\* What a gift or a hurt leaves a player with, and what the hands notice of it.
Gets(k, p, q) == Fine(k, q) /\ Keeps(p, q)

LEMMA GetsNothing == ASSUME NEW k, NEW p, Fine(k, p) PROVE Gets(k, p, p)
BY DEF Gets, Keeps, Fine, PlayerType

LEMMA GetsBoth == ASSUME NEW k, NEW p, NEW q, NEW r, Fine(k, p), Gets(k, p, q), Gets(k, q, r) PROVE Gets(k, p, r)
<1>1. p.ammo \in [Ammo -> Int] /\ q.ammo \in [Ammo -> Int] /\ r.ammo \in [Ammo -> Int]
  BY DEF Gets, Fine, PlayerType
<1>2. \A a \in Ammo : r.ammo[a] >= p.ammo[a]
  <2>1. ASSUME NEW a \in Ammo PROVE r.ammo[a] >= p.ammo[a]
    <3>1. r.ammo[a] >= q.ammo[a] /\ q.ammo[a] >= p.ammo[a] BY DEF Gets, Keeps
    <3>2. p.ammo[a] \in Int /\ q.ammo[a] \in Int /\ r.ammo[a] \in Int BY <1>1
    <3> QED BY <3>1, <3>2
  <2> QED BY <2>1
<1> QED BY <1>2 DEF Gets, Keeps

\* Weapons and ammunition.
LEMMA Armed ==
  ASSUME NEW k, NEW p, NEW q, Fine(k, p), DOMAIN q = Fields,
         \A f \in Fields \ {"ammo", "maxammo", "owned", "pending", "backpack"} : q[f] = p[f],
         q.ammo \in [Ammo -> Int], q.maxammo \in [Ammo -> Nat], Counted(q),
         \A a \in Ammo : q.ammo[a] >= p.ammo[a],
         p.owned \subseteq q.owned, q.owned \subseteq Arms, q.pending \in q.owned \cup {"nochange"},
         q.pending = "nochange" => p.pending = "nochange"
  PROVE  Gets(k, p, q)
<1>1. /\ q.playerstate = p.playerstate /\ q.health = p.health /\ q.mohealth = p.mohealth
      /\ q.armorpoints = p.armorpoints /\ q.armortype = p.armortype /\ q.ready = p.ready /\ q.powers = p.powers
      /\ q.shadow = p.shadow /\ q.psprites = p.psprites /\ q.calls = p.calls
  BY DEF Fields
<1>2. PlayerType(q) BY <1>1 DEF Fine, PlayerType
<1>3. Carried(q) BY <1>1 DEF Fine, Carried
<1>4. Healthy(k, q) /\ Shaded(q) BY <1>1 DEF Fine, Healthy, Shaded
<1>5. Keeps(p, q) BY <1>1 DEF Keeps
<1> QED BY <1>2, <1>3, <1>4, <1>5 DEF Gets, Fine

\* Health, armor and powers.
LEMMA Treated ==
  ASSUME NEW k, NEW p, NEW q, Fine(k, p), DOMAIN q = Fields,
         \A f \in {"playerstate", "ammo", "maxammo", "owned", "ready", "pending", "psprites", "calls"} : q[f] = p[f],
         q.health \in Nat, q.mohealth \in Int, q.armorpoints \in Int, q.armortype \in 0..2,
         q.powers \in [Powers -> Nat], q.shadow \in BOOLEAN, Healthy(k, q), Shaded(q)
  PROVE  Gets(k, p, q)
<1>1. /\ q.playerstate = p.playerstate /\ q.ammo = p.ammo /\ q.maxammo = p.maxammo /\ q.owned = p.owned
      /\ q.ready = p.ready /\ q.pending = p.pending /\ q.psprites = p.psprites /\ q.calls = p.calls
  OBVIOUS
<1>2. PlayerType(q) BY <1>1 DEF Fine, PlayerType
<1>3. Counted(q) /\ Carried(q) BY <1>1 DEF Fine, Counted, Carried
<1>4. Keeps(p, q) BY <1>1 DEF Keeps, Fine, PlayerType
<1> QED BY <1>2, <1>3, <1>4 DEF Gets, Fine

LEMMA TakesOwned ==
  ASSUME NEW k, NEW p, Fine(k, p), NEW kind \in Ammo
  PROVE  Takes(p, kind) \in p.owned \cup {p.pending} /\ (Takes(p, kind) = "nochange" => p.pending = "nochange")
<1>1. {"fist", "pistol"} \subseteq p.owned /\ p.owned \subseteq Arms BY DEF Fine, Carried, PlayerType
<1>2. Takes(p, kind) \in p.owned \cup {p.pending} BY <1>1 DEF Takes
<1>3. "nochange" \notin p.owned BY <1>1 DEF Arms, weaponinfo
<1> QED BY <1>2, <1>3

LEMMA GivingAmmo ==
  ASSUME NEW k, NEW p, Fine(k, p), NEW kind \in Ammo \cup {"noammo"}, NEW num \in Nat
  PROVE  Gets(k, p, P_GiveAmmo(p, kind, num))
<1> DEFINE clips == IF num = 0 THEN clipammo[kind] \div 2 ELSE num * clipammo[kind]
           more == IF kit.baby THEN 2 * clips ELSE clips
           pending == IF p.ammo[kind] = 0 THEN Takes(p, kind) ELSE p.pending
           q == [p EXCEPT !.ammo[kind] = Min({@ + more, p.maxammo[kind]}), !.pending = pending]
<1>1. CASE kind = "noammo" \/ p.ammo[kind] = p.maxammo[kind] BY <1>1, GetsNothing DEF P_GiveAmmo
<1>2. CASE ~(kind = "noammo" \/ p.ammo[kind] = p.maxammo[kind])
  <2>0. kind \in Ammo BY <1>2
  <2>1. P_GiveAmmo(p, kind, num) = q BY <1>2 DEF P_GiveAmmo
  <2>2. clipammo[kind] \in Nat BY <2>0, FiguresAssumption
  <2>3. clips \in Nat
    <3>1. \A a, b \in Nat : a * b \in Nat OBVIOUS
    <3> QED BY <2>2, <3>1
  <2> HIDE DEF clips
  <2>4. more \in Nat BY <2>3
  <2> HIDE DEF more, pending
  <2>5. /\ DOMAIN p = Fields /\ p.ammo \in [Ammo -> Int] /\ p.maxammo \in [Ammo -> Nat] /\ p.owned \subseteq Arms
        /\ \A a \in Ammo : p.ammo[a] \in 0..p.maxammo[a]
        /\ p.pending \in p.owned \cup {"nochange"}
    BY DEF Fine, PlayerType, Counted, Carried
  <2> DEFINE full == Min({p.ammo[kind] + more, p.maxammo[kind]})
  <2>6. full \in p.ammo[kind] .. p.maxammo[kind] /\ full \in Int /\ p.ammo[kind] >= 0
    <3>1. p.ammo[kind] \in Int /\ p.maxammo[kind] \in Int /\ p.ammo[kind] <= p.maxammo[kind] /\ p.ammo[kind] >= 0
      BY <2>0, <2>5
    <3>2. full = IF p.ammo[kind] + more <= p.maxammo[kind] THEN p.ammo[kind] + more ELSE p.maxammo[kind]
      BY <2>4, <3>1, MinOfTwo
    <3> QED BY <2>4, <3>1, <3>2
  <2> HIDE DEF full
  <2>7. /\ DOMAIN q = Fields /\ q.ammo = [p.ammo EXCEPT ![kind] = full] /\ q.pending = pending
        /\ \A f \in Fields \ {"ammo", "pending"} : q[f] = p[f]
    BY <2>5 DEF Fields, full
  <2> HIDE DEF q
  <2>8. q.maxammo = p.maxammo /\ q.owned = p.owned BY <2>7 DEF Fields
  <2>9. /\ q.ammo \in [Ammo -> Int] /\ q.ammo[kind] = full /\ \A a \in Ammo \ {kind} : q.ammo[a] = p.ammo[a]
    BY <2>0, <2>5, <2>6, <2>7
  <2>10. Counted(q) /\ \A a \in Ammo : q.ammo[a] >= p.ammo[a]
    <3>1. ASSUME NEW a \in Ammo PROVE q.ammo[a] \in 0..q.maxammo[a] /\ q.ammo[a] >= p.ammo[a]
      <4>1. p.ammo[a] \in 0..p.maxammo[a] /\ p.ammo[a] \in Int /\ p.maxammo[a] \in Nat BY <2>5
      <4>2. CASE a = kind BY <2>6, <2>8, <2>9, <4>1, <4>2
      <4>3. CASE a # kind BY <2>8, <2>9, <4>1, <4>3
      <4> QED BY <4>2, <4>3
    <3> QED BY <3>1 DEF Counted
  <2>11. q.pending \in q.owned \cup {"nochange"} /\ (q.pending = "nochange" => p.pending = "nochange")
    BY <2>0, <2>5, <2>7, <2>8, TakesOwned DEF pending
  <2> QED BY <2>1, <2>5, <2>7, <2>8, <2>9, <2>10, <2>11, Armed
<1> QED BY <1>1, <1>2

LEMMA GivingWeapon ==
  ASSUME NEW k, NEW p, Fine(k, p), NEW weapon \in Arms, NEW dropped \in BOOLEAN
  PROVE  Gets(k, p, P_GiveWeapon(p, weapon, dropped))
<1> DEFINE v == P_GiveAmmo(p, weaponinfo[weapon].ammo, IF dropped THEN 1 ELSE 2)
           q == [v EXCEPT !.owned = @ \cup {weapon}, !.pending = weapon]
<1>1. weaponinfo[weapon].ammo \in Ammo \cup {"noammo"} BY DEF Arms, weaponinfo, Weapon, Ammo
<1>2. Gets(k, p, v) BY <1>1, GivingAmmo
<1>3. P_GiveWeapon(p, weapon, dropped) \in {v, q} BY DEF P_GiveWeapon
<1> HIDE DEF v
<1>4. Fine(k, v) BY <1>2 DEF Gets
<1>5. /\ DOMAIN v = Fields /\ v.ammo \in [Ammo -> Int] /\ v.maxammo \in [Ammo -> Nat] /\ v.owned \subseteq Arms
      /\ Counted(v)
  BY <1>4 DEF Fine, PlayerType
<1>6. /\ DOMAIN q = Fields /\ q.owned = v.owned \cup {weapon} /\ q.pending = weapon
      /\ \A f \in Fields \ {"owned", "pending"} : q[f] = v[f]
  BY <1>5 DEF Fields
<1> HIDE DEF q
<1>7. q.ammo = v.ammo /\ q.maxammo = v.maxammo BY <1>6 DEF Fields
<1>8. weapon # "nochange" BY DEF Arms, weaponinfo
<1>9. Counted(q) /\ \A a \in Ammo : q.ammo[a] >= v.ammo[a] BY <1>5, <1>7 DEF Counted
<1>10. Gets(k, v, q) BY <1>4, <1>5, <1>6, <1>7, <1>8, <1>9, Armed
<1> QED BY <1>2, <1>3, <1>10, GetsBoth

\* Only the living are healed, save where a cheat heals.
Mends(k, p) == p.playerstate = "live" \/ Heals(k)

LEMMA Mending ==
  ASSUME NEW k, NEW p, Fine(k, p), Mends(k, p), NEW h \in Nat, p.playerstate = "live" => h > 0,
         NEW q, DOMAIN q = Fields, q.health = h, q.mohealth = h,
         \A f \in Fields \ {"health", "mohealth", "god"} : q[f] = p[f]
  PROVE  Gets(k, p, q)
<1>1. /\ p.armorpoints \in Int /\ p.armortype \in 0..2 /\ p.powers \in [Powers -> Nat] /\ p.shadow \in BOOLEAN
      /\ Shaded(p)
  BY DEF Fine, PlayerType
<1>2. /\ q.playerstate = p.playerstate /\ q.armorpoints = p.armorpoints /\ q.armortype = p.armortype
      /\ q.powers = p.powers /\ q.shadow = p.shadow
      /\ \A f \in {"playerstate", "ammo", "maxammo", "owned", "ready", "pending", "psprites", "calls"} : q[f] = p[f]
  BY DEF Fields
<1>3. Max({h, 0}) = h BY MaxOfTwo
<1>4. Healthy(k, q) BY <1>2, <1>3 DEF Healthy, Mends
<1>5. Shaded(q) BY <1>1, <1>2 DEF Shaded
<1>6. q.health \in Nat /\ q.mohealth \in Int OBVIOUS
<1> QED BY <1>1, <1>2, <1>4, <1>5, <1>6, Treated

LEMMA FineHealth ==
  ASSUME NEW k, NEW p, Fine(k, p)
  PROVE  /\ DOMAIN p = Fields /\ p.health \in Nat /\ p.mohealth \in Int /\ (p.playerstate = "live" => p.health > 0)
         /\ p.armorpoints \in Int /\ p.armortype \in 0..2 /\ p.powers \in [Powers -> Nat] /\ p.shadow \in BOOLEAN
         /\ (p.shadow <=> p.powers["invisibility"] > 0) /\ Healthy(k, p)
BY DEF Fine, PlayerType, Healthy, Shaded

LEMMA FiguresAreNaturals ==
  /\ MAXHEALTH \in Nat /\ MAXHEALTH > 0 /\ ARMOR \in Nat /\ TOPHEALTH \in Nat /\ TOPHEALTH > 0
  /\ INVISTICS \in Nat /\ INVISTICS > 0 /\ INVULNTICS \in Nat /\ IRONTICS \in Nat /\ INFRATICS \in Nat
  /\ BONUSADD \in Nat
BY FiguresAssumption

LEMMA GivingBody ==
  ASSUME NEW k, NEW p, Fine(k, p), Mends(k, p), NEW num \in Nat
  PROVE  Gets(k, p, P_GiveBody(p, num))
<1> DEFINE h == Min({p.health + num, MAXHEALTH})
           q == [p EXCEPT !.health = h, !.mohealth = h]
<1>1. CASE p.health >= MAXHEALTH BY <1>1, GetsNothing DEF P_GiveBody
<1>2. CASE ~(p.health >= MAXHEALTH)
  <2>1. P_GiveBody(p, num) = q BY <1>2 DEF P_GiveBody
  <2>2. DOMAIN p = Fields /\ p.health \in Nat /\ (p.playerstate = "live" => p.health > 0) BY FineHealth
  <2>3. h = IF p.health + num <= MAXHEALTH THEN p.health + num ELSE MAXHEALTH BY <2>2, FiguresAreNaturals, MinOfTwo
  <2>4. h \in Nat /\ (p.playerstate = "live" => h > 0) BY <2>2, <2>3, FiguresAreNaturals
  <2> HIDE DEF h
  <2>5. /\ DOMAIN q = Fields /\ q.health = h /\ q.mohealth = h
        /\ \A f \in Fields \ {"health", "mohealth", "god"} : q[f] = p[f]
    BY <2>2 DEF Fields
  <2> HIDE DEF q
  <2> QED BY <2>1, <2>4, <2>5, Mending
<1> QED BY <1>1, <1>2

LEMMA GivingBonus ==
  ASSUME NEW k, NEW p, Fine(k, p), Mends(k, p), NEW most \in Nat, most > 0
  PROVE  Gets(k, p, Bonus(p, most))
<1> DEFINE h == Min({p.health + most, TOPHEALTH})
           q == [p EXCEPT !.health = h, !.mohealth = h]
<1>1. Bonus(p, most) = q BY DEF Bonus
<1>2. DOMAIN p = Fields /\ p.health \in Nat BY FineHealth
<1>3. h = IF p.health + most <= TOPHEALTH THEN p.health + most ELSE TOPHEALTH BY <1>2, FiguresAreNaturals, MinOfTwo
<1>4. h \in Nat /\ h > 0 BY <1>2, <1>3, FiguresAreNaturals
<1> HIDE DEF h
<1>5. /\ DOMAIN q = Fields /\ q.health = h /\ q.mohealth = h
      /\ \A f \in Fields \ {"health", "mohealth", "god"} : q[f] = p[f]
  BY <1>2 DEF Fields
<1> HIDE DEF q
<1> QED BY <1>1, <1>4, <1>5, Mending

\* What is neither health nor a power nor the hands'.
LEMMA Dressed ==
  ASSUME NEW k, NEW p, NEW q, Fine(k, p), DOMAIN q = Fields, q.armorpoints \in Int, q.armortype \in 0..2,
         \A f \in Fields \ {"armorpoints", "armortype", "cards", "bonuscount", "god"} : q[f] = p[f]
  PROVE  Gets(k, p, q)
<1>1. /\ q.playerstate = p.playerstate /\ q.health = p.health /\ q.mohealth = p.mohealth
      /\ q.powers = p.powers /\ q.shadow = p.shadow
      /\ \A f \in {"playerstate", "ammo", "maxammo", "owned", "ready", "pending", "psprites", "calls"} : q[f] = p[f]
  BY DEF Fields
<1>2. Healthy(k, q) /\ Shaded(q) BY <1>1 DEF Fine, Healthy, Shaded
<1>3. q.health \in Nat /\ q.mohealth \in Int /\ q.powers \in [Powers -> Nat] /\ q.shadow \in BOOLEAN
  BY <1>1, FineHealth
<1> QED BY <1>1, <1>2, <1>3, Treated

LEMMA GivingArmor ==
  ASSUME NEW k, NEW p, Fine(k, p), NEW type \in {1, 2}
  PROVE  Gets(k, p, P_GiveArmor(p, type))
<1> DEFINE q == [p EXCEPT !.armortype = type, !.armorpoints = type * ARMOR]
<1>1. P_GiveArmor(p, type) \in {p, q} BY DEF P_GiveArmor
<1>2. DOMAIN p = Fields BY FineHealth
<1>3. type * ARMOR \in Int BY FiguresAreNaturals
<1>4. /\ DOMAIN q = Fields /\ q.armortype = type /\ q.armorpoints = type * ARMOR
      /\ \A f \in Fields \ {"armorpoints", "armortype", "cards", "bonuscount", "god"} : q[f] = p[f]
  BY <1>2 DEF Fields
<1> HIDE DEF q
<1>5. Gets(k, p, q) BY <1>3, <1>4, Dressed
<1> QED BY <1>1, <1>5, GetsNothing

LEMMA GivingArmorBonus ==
  ASSUME NEW k, NEW p, Fine(k, p)
  PROVE  Gets(k, p, [p EXCEPT !.armorpoints = Min({@ + 1, 2 * ARMOR}), !.armortype = IF @ = 0 THEN 1 ELSE @])
<1> DEFINE points == Min({p.armorpoints + 1, 2 * ARMOR})
           type == IF p.armortype = 0 THEN 1 ELSE p.armortype
           q == [p EXCEPT !.armorpoints = Min({@ + 1, 2 * ARMOR}), !.armortype = IF @ = 0 THEN 1 ELSE @]
<1>1. DOMAIN p = Fields /\ p.armorpoints \in Int /\ p.armortype \in 0..2 BY FineHealth
<1>2. points \in Int
  <2>1. points = IF p.armorpoints + 1 <= 2 * ARMOR THEN p.armorpoints + 1 ELSE 2 * ARMOR
    BY <1>1, FiguresAreNaturals, MinOfTwo
  <2> QED BY <1>1, <2>1, FiguresAreNaturals
<1>3. type \in 0..2 BY <1>1
<1>4. /\ DOMAIN q = Fields /\ q.armortype = type /\ q.armorpoints = points
      /\ \A f \in Fields \ {"armorpoints", "armortype", "cards", "bonuscount", "god"} : q[f] = p[f]
  BY <1>1 DEF Fields
<1> HIDE DEF q, points, type
<1>5. Gets(k, p, q) BY <1>2, <1>3, <1>4, Dressed
<1> QED BY <1>5 DEF q

LEMMA GivingCard ==
  ASSUME NEW k, NEW p, Fine(k, p), NEW card
  PROVE  Gets(k, p, P_GiveCard(p, card))
<1> DEFINE q == [p EXCEPT !.cards = @ \cup {card}, !.bonuscount = BONUSADD]
<1>1. P_GiveCard(p, card) \in {p, q} BY DEF P_GiveCard
<1>2. DOMAIN p = Fields /\ p.armorpoints \in Int /\ p.armortype \in 0..2 BY FineHealth
<1>3. /\ DOMAIN q = Fields /\ q.armortype = p.armortype /\ q.armorpoints = p.armorpoints
      /\ \A f \in Fields \ {"armorpoints", "armortype", "cards", "bonuscount", "god"} : q[f] = p[f]
  BY <1>2 DEF Fields
<1> HIDE DEF q
<1>4. Gets(k, p, q) BY <1>2, <1>3, Dressed
<1> QED BY <1>1, <1>4, GetsNothing

\* A power is given; the shadow comes with that of invisibility and no other.
LEMMA Empowered ==
  ASSUME NEW k, NEW p, NEW q, Fine(k, p), DOMAIN q = Fields, NEW power \in Powers, NEW n \in Nat,
         q.powers = [p.powers EXCEPT ![power] = n],
         q.shadow = p.shadow \/ q.shadow = TRUE, power = "invisibility" => n > 0 /\ q.shadow = TRUE,
         power # "invisibility" => q.shadow = p.shadow,
         \A f \in Fields \ {"powers", "shadow"} : q[f] = p[f]
  PROVE  Gets(k, p, q)
<1>1. /\ q.playerstate = p.playerstate /\ q.health = p.health /\ q.mohealth = p.mohealth
      /\ q.armorpoints = p.armorpoints /\ q.armortype = p.armortype
      /\ \A f \in {"playerstate", "ammo", "maxammo", "owned", "ready", "pending", "psprites", "calls"} : q[f] = p[f]
  BY DEF Fields
<1>2. Healthy(k, q) BY <1>1 DEF Fine, Healthy
<1>3. p.powers \in [Powers -> Nat] /\ p.shadow \in BOOLEAN /\ (p.shadow <=> p.powers["invisibility"] > 0)
  BY FineHealth
<1>4. q.powers \in [Powers -> Nat] /\ q.shadow \in BOOLEAN BY <1>3
<1>5. Shaded(q)
  <2>1. "invisibility" \in Powers BY DEF Powers
  <2>2. CASE power = "invisibility"
    <3>1. q.powers["invisibility"] = n /\ n > 0 /\ q.shadow = TRUE BY <1>3, <2>1, <2>2
    <3> QED BY <3>1 DEF Shaded
  <2>3. CASE power # "invisibility"
    <3>1. q.powers["invisibility"] = p.powers["invisibility"] /\ q.shadow = p.shadow BY <1>3, <2>1, <2>3
    <3> QED BY <1>3, <3>1 DEF Shaded
  <2> QED BY <2>2, <2>3
<1>6. q.health \in Nat /\ q.mohealth \in Int /\ q.armorpoints \in Int /\ q.armortype \in 0..2 BY <1>1, FineHealth
<1> QED BY <1>1, <1>2, <1>4, <1>5, <1>6, Treated

LEMMA SettingPower ==
  ASSUME NEW k, NEW p, Fine(k, p), NEW power \in Powers, NEW n \in Nat,
         power = "invisibility" => n > 0 /\ p.shadow = TRUE
  PROVE  Gets(k, p, [p EXCEPT !.powers[power] = n])
<1> DEFINE q == [p EXCEPT !.powers[power] = n]
<1>1. DOMAIN p = Fields BY FineHealth
<1>2. /\ DOMAIN q = Fields /\ q.powers = [p.powers EXCEPT ![power] = n]
      /\ \A f \in Fields \ {"powers"} : q[f] = p[f]
  BY <1>1 DEF Fields
<1>3. q.shadow = p.shadow BY <1>2 DEF Fields
<1> HIDE DEF q
<1>4. Gets(k, p, q) BY <1>2, <1>3, Empowered
<1> QED BY <1>4 DEF q

LEMMA GivingPower ==
  ASSUME NEW k, NEW p, Fine(k, p), NEW power \in Powers, power = "strength" => Mends(k, p)
  PROVE  Gets(k, p, P_GivePower(p, power))
<1>1. CASE power = "invisibility"
  <2> DEFINE q == [p EXCEPT !.powers[power] = INVISTICS, !.shadow = TRUE]
  <2>1. DOMAIN p = Fields BY FineHealth
  <2>2. /\ DOMAIN q = Fields /\ q.powers = [p.powers EXCEPT ![power] = INVISTICS] /\ q.shadow = TRUE
        /\ \A f \in Fields \ {"powers", "shadow"} : q[f] = p[f]
    BY <2>1 DEF Fields
  <2>3. P_GivePower(p, power) = q BY <1>1 DEF P_GivePower
  <2> HIDE DEF q
  <2> QED BY <1>1, <2>2, <2>3, Empowered, FiguresAreNaturals
<1>2. CASE power = "strength"
  <2> DEFINE v == P_GiveBody(p, MAXHEALTH)
  <2>1. Gets(k, p, v) BY <1>2, GivingBody, FiguresAreNaturals
  <2>2. P_GivePower(p, power) = [v EXCEPT !.powers[power] = 1] BY <1>2 DEF P_GivePower
  <2> HIDE DEF v
  <2>3. Gets(k, v, [v EXCEPT !.powers[power] = 1]) BY <1>2, <2>1, SettingPower DEF Gets
  <2> QED BY <2>1, <2>2, <2>3, GetsBoth
<1>3. CASE power = "invulnerability" BY <1>3, SettingPower, FiguresAreNaturals DEF P_GivePower
<1>4. CASE power = "infrared" BY <1>4, SettingPower, FiguresAreNaturals DEF P_GivePower
<1>5. CASE power = "ironfeet" BY <1>5, SettingPower, FiguresAreNaturals DEF P_GivePower
<1>6. CASE power = "allmap" BY <1>6, SettingPower, FiguresAreNaturals DEF P_GivePower
<1> QED BY <1>1, <1>2, <1>3, <1>4, <1>5, <1>6 DEF Powers

LEMMA GivingBackpack == ASSUME NEW k, NEW p, Fine(k, p) PROVE Gets(k, p, Backpack(p))
<1> DEFINE v == IF p.backpack THEN p ELSE [p EXCEPT !.maxammo = [j \in Ammo |-> 2 * @[j]], !.backpack = TRUE]
           a == P_GiveAmmo(v, "clip", 1)
           b == P_GiveAmmo(a, "shell", 1)
           c == P_GiveAmmo(b, "cell", 1)
           d == P_GiveAmmo(c, "misl", 1)
<1>0. Backpack(p) = d BY DEF Backpack
<1>1. Gets(k, p, v)
  <2> DEFINE w == [p EXCEPT !.maxammo = [j \in Ammo |-> 2 * @[j]], !.backpack = TRUE]
  <2>1. /\ DOMAIN p = Fields /\ p.ammo \in [Ammo -> Int] /\ p.maxammo \in [Ammo -> Nat] /\ p.owned \subseteq Arms
        /\ \A j \in Ammo : p.ammo[j] \in 0..p.maxammo[j]
        /\ p.pending \in p.owned \cup {"nochange"}
    BY DEF Fine, PlayerType, Counted, Carried
  <2>2. /\ DOMAIN w = Fields /\ w.maxammo = [j \in Ammo |-> 2 * p.maxammo[j]]
        /\ \A f \in Fields \ {"maxammo", "backpack"} : w[f] = p[f]
    BY <2>1 DEF Fields
  <2> HIDE DEF w
  <2>3. w.ammo = p.ammo /\ w.owned = p.owned /\ w.pending = p.pending BY <2>2 DEF Fields
  <2>4. w.maxammo \in [Ammo -> Nat]
    <3>1. ASSUME NEW j \in Ammo PROVE 2 * p.maxammo[j] \in Nat BY <2>1
    <3> QED BY <2>2, <3>1
  <2>5. Counted(w) /\ \A j \in Ammo : w.ammo[j] >= p.ammo[j]
    <3>1. ASSUME NEW j \in Ammo PROVE w.ammo[j] \in 0..w.maxammo[j] /\ w.ammo[j] >= p.ammo[j]
      <4>1. p.ammo[j] \in 0..p.maxammo[j] /\ p.maxammo[j] \in Nat BY <2>1
      <4>2. w.maxammo[j] = 2 * p.maxammo[j] BY <2>2
      <4> QED BY <2>3, <4>1, <4>2
    <3> QED BY <3>1 DEF Counted
  <2>6. Gets(k, p, w) BY <2>1, <2>2, <2>3, <2>4, <2>5, Armed
  <2> QED BY <2>6, GetsNothing DEF w
<1> HIDE DEF v
<1>2. {"clip", "shell", "cell", "misl"} \subseteq Ammo BY DEF Ammo
<1>3. Gets(k, v, a) BY <1>1, <1>2, GivingAmmo DEF Gets
<1> HIDE DEF a
<1>4. Gets(k, a, b) BY <1>2, <1>3, GivingAmmo DEF Gets
<1> HIDE DEF b
<1>5. Gets(k, b, c) BY <1>2, <1>4, GivingAmmo DEF Gets
<1> HIDE DEF c
<1>6. Gets(k, c, d) BY <1>2, <1>5, GivingAmmo DEF Gets
<1> HIDE DEF d
<1>7. Gets(k, p, a) /\ Gets(k, a, c) BY <1>1, <1>3, <1>4, <1>5, GetsBoth DEF Gets
<1>8. Gets(k, p, c) BY <1>7, GetsBoth
<1> QED BY <1>0, <1>6, <1>8, GetsBoth

\* What an item gives.
LEMMA GivenIsFine ==
  ASSUME NEW k, NEW p, Fine(k, p), Mends(k, p), NEW item, Found(item)
  PROVE  Gets(k, p, Given(p, item))
<1>1. CASE item.is = "ammo" BY <1>1, GivingAmmo DEF Found, Given
<1>2. CASE item.is = "weapon" BY <1>2, GivingWeapon DEF Found, Given
<1>3. CASE item.is = "armor" BY <1>3, GivingArmor DEF Found, Given
<1>4. CASE item.is = "body" BY <1>4, GivingBody DEF Found, Given
<1>5. CASE item.is = "power" BY <1>5, GivingPower DEF Found, Given
<1>6. CASE item.is = "card" BY <1>6, GivingCard DEF Given
<1>7. CASE item.is = "healthbonus" BY <1>7, GivingBonus DEF Given
<1>8. CASE item.is = "soul" BY <1>8, GivingBonus, FiguresAreNaturals DEF Given
<1>9. CASE item.is = "armorbonus" BY <1>9, GivingArmorBonus DEF Given
<1>10. CASE item.is = "mega"
  <2> DEFINE v == [p EXCEPT !.health = TOPHEALTH, !.mohealth = TOPHEALTH]
  <2>1. Given(p, item) \in {p, P_GiveArmor(v, 2)} BY <1>10 DEF Given
  <2>2. DOMAIN p = Fields BY FineHealth
  <2>3. /\ DOMAIN v = Fields /\ v.health = TOPHEALTH /\ v.mohealth = TOPHEALTH
        /\ \A f \in Fields \ {"health", "mohealth", "god"} : v[f] = p[f]
    BY <2>2 DEF Fields
  <2> HIDE DEF v
  <2>4. Gets(k, p, v) BY <2>3, Mending, FiguresAreNaturals
  <2>5. Gets(k, v, P_GiveArmor(v, 2)) BY <2>4, GivingArmor DEF Gets
  <2> QED BY <2>1, <2>4, <2>5, GetsBoth, GetsNothing
<1>11. CASE item.is = "backpack" BY <1>11, GivingBackpack DEF Given
<1> QED BY <1>1, <1>2, <1>3, <1>4, <1>5, <1>6, <1>7, <1>8, <1>9, <1>10, <1>11 DEF Found

LEMMA GetsSound == ASSUME NEW k, NEW p, NEW q, Sound(k, p), Gets(k, p, q) PROVE Sound(k, q)
BY KeepsSound DEF Gets

\* What is touched is given, and a berserk's fist is asked for.
LEMMA Touching ==
  ASSUME NEW k, NEW p, Sound(k, p), NEW item, Found(item)
  PROVE  Sound(k, P_TouchSpecialThing(p, item))
<1> DEFINE v == Given(p, item)
           fist == IF item.is = "power" /\ item.kind = "strength" /\ p.ready # "fist" THEN [v EXCEPT !.pending = "fist"] ELSE v
           q == [fist EXCEPT !.bonuscount = @ + BONUSADD]
<1>1. P_TouchSpecialThing(p, item) = p \/ (p.mohealth > 0 /\ P_TouchSpecialThing(p, item) = q)
  <2>1. p.mohealth \in Int BY FineHealth DEF Sound
  <2> QED BY <2>1 DEF P_TouchSpecialThing
<1>2. ASSUME p.mohealth > 0 PROVE Sound(k, q)
  <2>0. Fine(k, p) BY DEF Sound
  <2>1. Mends(k, p)
    <3>1. p.mohealth \in Int /\ p.health = Max({p.mohealth, 0}) /\ (p.playerstate # "live" => p.health = 0 \/ Heals(k))
      BY <2>0, FineHealth DEF Healthy
    <3>2. p.health = p.mohealth BY <1>2, <3>1, MaxOfTwo
    <3> QED BY <1>2, <3>1, <3>2 DEF Mends
  <2>2. Sound(k, v) BY <2>0, <2>1, GivenIsFine, GetsSound
  <2> HIDE DEF v
  <2>3. "fist" \in v.owned /\ Fine(k, v) BY <2>2 DEF Sound, Fine, Carried
  <2>4. Sound(k, fist) BY <2>2, <2>3, Asking
  <2> HIDE DEF fist
  <2>5. DOMAIN fist = Fields BY <2>4 DEF Sound, Fine, PlayerType
  <2>6. Alike(fist, q) BY <2>5 DEF Alike, Fields
  <2> QED BY <2>4, <2>6, AlikeIsSound
<1> QED BY <1>1, <1>2

(* ----------------------------------------------------------------------- *)
(* What hurts, and a tic                                                   *)
(* ----------------------------------------------------------------------- *)

\* What hurts. Who is killed lets the weapon go.
LEMMA Damaging ==
  ASSUME NEW k, NEW p, Sound(k, p), Quiet(p), p.playerstate # "reborn", NEW damage \in Nat, NEW telefrag
  PROVE  Sound(k, P_DamageMobj(p, damage, telefrag))
<1> DEFINE part == damage \div (4 - p.armortype)
           saved == IF p.armortype = 0 THEN 0 ELSE Min({part, p.armorpoints})
           left == damage - saved
           type == IF p.armortype # 0 /\ p.armorpoints <= part THEN 0 ELSE p.armortype
           hurt == [p EXCEPT !.armortype = IF p.armortype # 0 /\ p.armorpoints <= damage \div (4 - p.armortype) THEN 0 ELSE @,
                             !.armorpoints = @ - saved, !.health = Max({@ - left, 0}),
                             !.mohealth = @ - left, !.damagecount = Min({@ + left, MAXHEALTH})]
           dead == [hurt EXCEPT !.playerstate = "dead"]
<1>0. Fine(k, p) BY DEF Sound
<1>1. /\ DOMAIN p = Fields /\ p.armortype \in 0..2 /\ p.armorpoints \in Int /\ p.health \in Nat /\ p.mohealth \in Int
      /\ p.playerstate \in {"live", "dead"} /\ p.health = Max({p.mohealth, 0})
      /\ p.powers \in [Powers -> Nat] /\ p.shadow \in BOOLEAN /\ Shaded(p)
  BY <1>0 DEF Fine, PlayerType, Healthy
<1>2. part \in Int
  <2>1. 4 - p.armortype \in 2..4 BY <1>1
  <2>2. \A d \in 2..4 : damage \div d \in Int OBVIOUS
  <2> QED BY <2>1, <2>2
<1>3. saved \in Int /\ left \in Int
  <2>1. Min({part, p.armorpoints}) = IF part <= p.armorpoints THEN part ELSE p.armorpoints BY <1>1, <1>2, MinOfTwo
  <2> QED BY <1>1, <1>2, <2>1
<1>4. type \in 0..2 BY <1>1
<1>5. /\ DOMAIN hurt = Fields /\ hurt.armortype = type /\ hurt.armorpoints = p.armorpoints - saved
      /\ hurt.health = Max({p.health - left, 0}) /\ hurt.mohealth = p.mohealth - left
      /\ \A f \in Fields \ {"armortype", "armorpoints", "health", "mohealth", "damagecount"} : hurt[f] = p[f]
  BY <1>1 DEF Fields
<1>6. \/ P_DamageMobj(p, damage, telefrag) = p
      \/ /\ p.mohealth > 0 /\ p.playerstate = "live"
         /\ P_DamageMobj(p, damage, telefrag) = IF hurt.mohealth <= 0 THEN P_KillMobj(hurt) ELSE hurt
  BY <1>1 DEF P_DamageMobj
<1> HIDE DEF part, saved, left, type, hurt
<1>7. /\ hurt.powers = p.powers /\ hurt.shadow = p.shadow /\ hurt.playerstate = p.playerstate
      /\ \A f \in {"playerstate", "ammo", "maxammo", "owned", "ready", "pending", "psprites", "calls"} : hurt[f] = p[f]
  BY <1>5 DEF Fields
<1>8. ASSUME p.mohealth > 0 PROVE hurt.health = Max({hurt.mohealth, 0}) /\ hurt.health \in Nat /\ hurt.mohealth \in Int
  <2>1. p.health = p.mohealth BY <1>1, <1>8, MaxOfTwo
  <2>2. hurt.mohealth \in Int BY <1>1, <1>3, <1>5
  <2>3. hurt.health = Max({hurt.mohealth, 0}) BY <1>5, <2>1
  <2>4. Max({hurt.mohealth, 0}) = IF hurt.mohealth >= 0 THEN hurt.mohealth ELSE 0 BY <2>2, MaxOfTwo
  <2> QED BY <2>2, <2>3, <2>4
<1>9. CASE p.mohealth > 0 /\ p.playerstate = "live" /\ ~(hurt.mohealth <= 0) /\ P_DamageMobj(p, damage, telefrag) = hurt
  <2>1. hurt.health > 0 BY <1>8, <1>9, MaxOfTwo
  <2>2. Healthy(k, hurt) BY <1>7, <1>8, <1>9, <2>1 DEF Healthy
  <2>3. Shaded(hurt) BY <1>1, <1>7 DEF Shaded
  <2>4. hurt.armorpoints \in Int /\ hurt.armortype \in 0..2 BY <1>1, <1>3, <1>4, <1>5
  <2>5. Gets(k, p, hurt) BY <1>0, <1>1, <1>5, <1>7, <1>8, <1>9, <2>2, <2>3, <2>4, Treated
  <2> QED BY <1>9, <2>5, GetsSound
<1>10. CASE p.mohealth > 0 /\ p.playerstate = "live" /\ hurt.mohealth <= 0
            /\ P_DamageMobj(p, damage, telefrag) = P_KillMobj(hurt)
  <2>1. hurt.health = 0 BY <1>8, <1>10, MaxOfTwo
  <2>2. /\ DOMAIN dead = Fields /\ dead.playerstate = "dead" /\ \A f \in Fields \ {"playerstate"} : dead[f] = hurt[f]
    BY <1>5 DEF Fields
  <2>3. P_KillMobj(hurt) = P_DropWeapon(dead) BY DEF P_KillMobj
  <2> HIDE DEF dead
  <2>4. /\ dead.health = 0 /\ dead.health = Max({dead.mohealth, 0}) /\ dead.mohealth \in Int
        /\ dead.armorpoints \in Int /\ dead.armortype \in 0..2
        /\ dead.ammo = p.ammo /\ dead.maxammo = p.maxammo /\ dead.owned = p.owned /\ dead.ready = p.ready
        /\ dead.pending = p.pending /\ dead.powers = p.powers /\ dead.shadow = p.shadow
        /\ dead.psprites = p.psprites /\ dead.calls = p.calls
    <3>1. dead.health = hurt.health /\ dead.mohealth = hurt.mohealth
          /\ dead.armorpoints = hurt.armorpoints /\ dead.armortype = hurt.armortype
          /\ \A f \in {"ammo", "maxammo", "owned", "ready", "pending", "psprites", "calls", "powers", "shadow"} :
               dead[f] = hurt[f]
      BY <2>2 DEF Fields
    <3> QED BY <1>1, <1>3, <1>4, <1>5, <1>7, <1>8, <1>10, <2>1, <3>1
  <2>5. PlayerType(dead) BY <1>0, <2>2, <2>4 DEF Fine, PlayerType
  <2>6. Fine(k, dead) BY <1>0, <2>2, <2>4, <2>5 DEF Fine, Counted, Carried, Healthy, Shaded
  <2>7. Free(k, dead) BY <2>2, <2>4, <2>6 DEF Free, Sound, Ordered, Quiet, Lit, Coming, Setting
  <2> QED BY <1>10, <2>2, <2>3, <2>7, Dropping
<1> QED BY <1>6, <1>9, <1>10

-----------------------------------------------------------------------------
\* Nothing is left to do.
LEMMA IdleIsFree ==
  ASSUME NEW k, NEW p, Sound(k, p), p.calls = <<>>, p.playerstate # "reborn"
  PROVE  Free(k, p) /\ Quiet(p)
BY DEF Sound, Free, Quiet

\* The weapon and its flash move, and then the tic ends.
LEMMA Scheduling ==
  ASSUME NEW k, NEW p, Sound(k, p), p.calls = <<>>, p.playerstate # "reborn",
         NEW last \in {WearsOff, Dies}, last = Dies => p.playerstate = "dead"
  PROVE  LET q == [p EXCEPT !.calls = P_MovePsprites(last)] IN Sound(k, q) /\ Quiet(q)
<1> DEFINE q == [p EXCEPT !.calls = P_MovePsprites(last)]
<1>0. Fine(k, p) BY DEF Sound
<1>1. DOMAIN p = Fields BY FineHealth, <1>0
<1>2. /\ DOMAIN q = Fields /\ q.calls = P_MovePsprites(last) /\ \A f \in Fields \ {"calls"} : q[f] = p[f]
  BY <1>1 DEF Fields
<1> HIDE DEF q
<1>3. /\ Moves("weapon") \in Calls /\ Moves("flash") \in Calls /\ last \in Calls
      /\ Moves("weapon").do = "moves" /\ Moves("flash").do = "moves" /\ last.do \in {"wears off", "dies"}
      /\ (last.do = "dies" => last = Dies)
  <2>1. ASSUME NEW which \in {"weapon", "flash"} PROVE Moves(which) \in Calls /\ Moves(which).do = "moves"
    BY NullIsDark DEF Moves, Call, Calls
  <2>2. WearsOff \in Calls /\ WearsOff.do = "wears off" BY NullIsDark DEF WearsOff, Call, Calls
  <2>3. Dies \in Calls /\ Dies.do = "dies" BY NullIsDark DEF Dies, Call, Calls
  <2> QED BY <2>1, <2>2, <2>3
<1>4. /\ q.calls \in Seq(Calls) /\ Len(q.calls) = 3 /\ q.calls # <<>>
      /\ q.calls[1] = Moves("weapon") /\ q.calls[2] = Moves("flash") /\ q.calls[3] = last /\ DOMAIN q.calls = 1..3
  <2> DEFINE a == Moves("weapon")
             b == Moves("flash")
  <2>1. q.calls = <<a, b, last>> BY <1>2 DEF P_MovePsprites
  <2>2. a \in Calls /\ b \in Calls /\ last \in Calls BY <1>3
  <2> HIDE DEF a, b
  <2>3. <<a, b, last>> \in Seq(Calls) /\ Len(<<a, b, last>>) = 3 BY <2>2
  <2>4. q.calls \in Seq(Calls) /\ Len(q.calls) = 3 BY <2>1, <2>3
  <2>5. q.calls # <<>> /\ DOMAIN q.calls = 1 .. Len(q.calls) BY <2>4, EmptySeq
  <2>6. q.calls[1] = a /\ q.calls[2] = b /\ q.calls[3] = last BY <2>1
  <2> QED BY <2>4, <2>5, <2>6 DEF a, b
<1>5. Fine(k, q) BY <1>0, <1>2, <1>4, FineWithCalls
<1>6. /\ q.psprites = p.psprites /\ q.ready = p.ready /\ q.ammo = p.ammo
      /\ q.playerstate = p.playerstate /\ q.pending = p.pending
  BY <1>2 DEF Fields
<1>7. ASSUME NEW i \in DOMAIN q.calls
      PROVE  q.calls[i].do # "sets" /\ (q.calls[i].do = "dies" => i = Len(q.calls) /\ q.playerstate = "dead")
  <2>1. i = 1 \/ i = 2 \/ i = 3 BY <1>4
  <2>2. CASE i = 1 BY <1>3, <1>4, <2>2
  <2>3. CASE i = 2 BY <1>3, <1>4, <2>3
  <2>4. CASE i = 3 BY <1>3, <1>4, <1>6, <2>4
  <2> QED BY <2>1, <2>2, <2>3, <2>4
<1>8. Quiet(q) BY <1>7 DEF Quiet
<1>9. Ordered(q) BY <1>6, <1>7 DEF Ordered
<1>10. ~Setting(q, "weapon") /\ ~Setting(q, "flash") BY <1>3, <1>4 DEF Setting
<1>11. ~Setting(p, "weapon") /\ ~Setting(p, "flash") BY DEF Setting
<1>12. Lit(q) BY <1>6, <1>10, <1>11 DEF Sound, Lit, Coming
<1>13. ASSUME NEW t, NEW at, Fits(p, t, at) PROVE Fits(q, t, at) BY <1>6, <1>13 DEF Fits, Loaded, Info_
<1>14. Held(q) BY <1>6, <1>10, <1>11, <1>13 DEF Sound, Held, Coming
<1> QED BY <1>5, <1>8, <1>9, <1>12, <1>14 DEF Sound, q

\* A tic asks for a weapon, may be burnt, and has the weapon moved.
LEMMA ChangingIsSound ==
  ASSUME NEW k, NEW p, Sound(k, p), NEW asked
  PROVE  Sound(k, Changes(p, asked)) /\ Changes(p, asked).calls = p.calls /\ Changes(p, asked).playerstate = p.playerstate
<1> DEFINE new == Wants(p, asked)
           q == [p EXCEPT !.pending = new]
<1>1. Changes(p, asked) = p \/ (new \in p.owned /\ Changes(p, asked) = q) BY DEF Changes
<1> HIDE DEF new
<1>2. ASSUME new \in p.owned PROVE Sound(k, q) /\ q.calls = p.calls /\ q.playerstate = p.playerstate
  BY <1>2, Asking DEF Sound
<1> QED BY <1>1, <1>2

LEMMA Thinking ==
  ASSUME NEW k, NEW p, Sound(k, p), p.calls = <<>>, p.playerstate # "reborn", NEW cmd, NEW asked, NEW burns
  PROVE  Sound(k, P_PlayerThink(p, cmd, asked, burns))
<1> DEFINE v == [p EXCEPT !.cmd = cmd, !.justattacked = FALSE]
           u == Changes(v, asked)
           t == [u EXCEPT !.usedown = "use" \in cmd]
           w == [u EXCEPT !.usedown = "use" \in cmd, !.calls = P_MovePsprites(WearsOff)]
<1>1. DOMAIN p = Fields BY DEF Sound, Fine, PlayerType
<1>2. Alike(p, v) BY <1>1 DEF Alike, Fields
<1>3. Sound(k, v) /\ v.calls = <<>> /\ v.playerstate = p.playerstate BY <1>2, AlikeIsSound DEF Alike
<1>4. P_PlayerThink(p, cmd, asked, burns) \in {P_DeathThink(v), P_DamageMobj(w, 1, FALSE), w}
      /\ (P_PlayerThink(p, cmd, asked, burns) = P_DeathThink(v) \/ P_PlayerThink(p, cmd, asked, burns) \in {P_DamageMobj(w, 1, FALSE), w})
      /\ (p.playerstate = "dead" => P_PlayerThink(p, cmd, asked, burns) = P_DeathThink(v))
      /\ (p.playerstate # "dead" => P_PlayerThink(p, cmd, asked, burns) \in {P_DamageMobj(w, 1, FALSE), w})
  BY DEF P_PlayerThink
<1> HIDE DEF v
<1>5. CASE p.playerstate = "dead"
  <2>1. Sound(k, P_DeathThink(v)) BY <1>3, <1>5, Scheduling DEF P_DeathThink
  <2> QED BY <1>4, <1>5, <2>1
<1>6. CASE p.playerstate # "dead"
  <2>1. Sound(k, u) /\ u.calls = <<>> /\ u.playerstate = p.playerstate BY <1>3, ChangingIsSound
  <2> HIDE DEF u
  <2>2. DOMAIN u = Fields BY <2>1 DEF Sound, Fine, PlayerType
  <2>3. Alike(u, t) BY <2>2 DEF Alike, Fields
  <2>4. Sound(k, t) /\ t.calls = <<>> /\ t.playerstate # "reborn" BY <2>1, <2>3, AlikeIsSound DEF Alike
  <2>5. w = [t EXCEPT !.calls = P_MovePsprites(WearsOff)] BY <2>2 DEF Fields
  <2>6. w.playerstate = t.playerstate BY <2>2 DEF Fields
  <2>7. WearsOff # Dies BY DEF WearsOff, Dies, Call
  <2> HIDE DEF t, w
  <2>8. Sound(k, w) /\ Quiet(w) BY <2>4, <2>5, <2>7, Scheduling
  <2>9. Sound(k, P_DamageMobj(w, 1, FALSE)) BY <2>4, <2>6, <2>8, Damaging
  <2> QED BY <1>4, <1>6, <2>8, <2>9
<1> QED BY <1>5, <1>6

\* Whoever fires a missile that has nowhere to fly is hurt where the state's action ends.
LEMMA BackfiringIsSound == ASSUME PlayerInv, Backfires PROVE PlayerInv'
<1>1. PICK damage \in kit.damages : Happens(P_DamageMobj(player, damage, FALSE)) BY DEF Backfires
<1>2. Sound(kit, player) /\ kit \in Kits /\ player.playerstate # "reborn" /\ damage \in Nat
  BY <1>1, KitsAssumption DEF PlayerInv, Happens
<1>3. Quiet(player)
  <2>1. Ordered(player) /\ player.calls \in Seq(Calls) /\ player.calls # <<>> /\ player.calls[1].do = "ends"
    BY <1>2 DEF Sound, Fine, PlayerType, Backfires, Ends, Call
  <2>2. ASSUME NEW i \in DOMAIN player.calls PROVE player.calls[i].do # "sets" BY <2>1 DEF Ordered
  <2> QED BY <2>2 DEF Quiet
<1>4. player' = P_DamageMobj(player, damage, FALSE) /\ kit' = kit BY <1>1 DEF Happens
<1> QED BY <1>2, <1>3, <1>4, Damaging DEF PlayerInv

-----------------------------------------------------------------------------
(* ----------------------------------------------------------------------- *)
(* Cheats, deaths and levels                                               *)
(* ----------------------------------------------------------------------- *)

\* A cheat heals whoever is not alive, or gives what may be carried.
LEMMA Cheating ==
  ASSUME NEW k, NEW p, Sound(k, p), k \in Kits, NEW cheat \in k.cheats
  PROVE  Sound(k, Cheats(p, cheat))
<1>0. Fine(k, p) /\ DOMAIN p = Fields BY DEF Sound, Fine, PlayerType
<1>1. cheat \in {"god", "ammo", "choppers"} \cup Powers BY KitsAssumption
<1>2. CASE cheat = "god"
  <2> DEFINE off == [p EXCEPT !.god = FALSE]
             on == [p EXCEPT !.god = TRUE, !.health = MAXHEALTH, !.mohealth = MAXHEALTH]
  <2>1. Cheats(p, cheat) \in {off, on} BY <1>2 DEF Cheats
  <2>2. Alike(p, off) BY <1>0 DEF Alike, Fields
  <2>3. /\ DOMAIN on = Fields /\ on.health = MAXHEALTH /\ on.mohealth = MAXHEALTH
        /\ \A f \in Fields \ {"health", "mohealth", "god"} : on[f] = p[f]
    BY <1>0 DEF Fields
  <2>4. Mends(k, p) BY <1>2 DEF Mends, Heals
  <2> HIDE DEF off, on
  <2>5. Gets(k, p, on) BY <1>0, <2>3, <2>4, Mending, FiguresAreNaturals
  <2> QED BY <2>1, <2>2, <2>5, AlikeIsSound, GetsSound
<1>3. CASE cheat = "ammo"
  <2> DEFINE q == [p EXCEPT !.armorpoints = 2 * ARMOR, !.armortype = 2, !.owned = Arms, !.ammo = p.maxammo, !.cards = Cards]
             v == [p EXCEPT !.armorpoints = 2 * ARMOR, !.armortype = 2, !.cards = Cards]
  <2>1. Cheats(p, cheat) = q BY <1>3 DEF Cheats
  <2>2. /\ DOMAIN v = Fields /\ v.armorpoints = 2 * ARMOR /\ v.armortype = 2
        /\ \A f \in Fields \ {"armorpoints", "armortype", "cards", "bonuscount", "god"} : v[f] = p[f]
    BY <1>0 DEF Fields
  <2>3. /\ DOMAIN q = Fields /\ q.owned = Arms /\ q.ammo = p.maxammo
        /\ \A f \in Fields \ {"owned", "ammo"} : q[f] = v[f]
    BY <1>0 DEF Fields
  <2> HIDE DEF q, v
  <2>4. Gets(k, p, v) BY <1>0, <2>2, Dressed, FiguresAreNaturals
  <2>5. v.ammo = p.ammo /\ v.maxammo = p.maxammo /\ v.owned = p.owned /\ v.pending = p.pending BY <2>2 DEF Fields
  <2>6. /\ p.maxammo \in [Ammo -> Nat] /\ p.ammo \in [Ammo -> Int] /\ \A a \in Ammo : p.ammo[a] \in 0..p.maxammo[a]
        /\ p.owned \subseteq Arms /\ p.pending \in p.owned \cup {"nochange"}
    BY <1>0 DEF Fine, PlayerType, Counted, Carried
  <2>7. q.maxammo = p.maxammo /\ q.pending = p.pending BY <2>3, <2>5 DEF Fields
  <2>8. q.ammo \in [Ammo -> Int] /\ q.maxammo \in [Ammo -> Nat] BY <2>3, <2>6, <2>7
  <2>9. Counted(q) /\ \A a \in Ammo : q.ammo[a] >= v.ammo[a]
    <3>1. ASSUME NEW a \in Ammo PROVE q.ammo[a] \in 0..q.maxammo[a] /\ q.ammo[a] >= v.ammo[a]
      <4>1. p.maxammo[a] \in Nat /\ p.ammo[a] \in 0..p.maxammo[a] BY <2>6
      <4> QED BY <2>3, <2>5, <2>7, <4>1
    <3> QED BY <3>1 DEF Counted
  <2>10. Gets(k, v, q) BY <2>3, <2>4, <2>5, <2>6, <2>7, <2>8, <2>9, Armed DEF Gets
  <2> QED BY <1>0, <2>1, <2>4, <2>10, GetsBoth, GetsSound
<1>4. CASE cheat = "choppers"
  <2> DEFINE q == [p EXCEPT !.owned = @ \cup {"chainsaw"}, !.powers["invulnerability"] = 1]
             v == [p EXCEPT !.powers["invulnerability"] = 1]
  <2>1. Cheats(p, cheat) = q BY <1>4 DEF Cheats
  <2>2. /\ DOMAIN v = Fields /\ \A f \in Fields \ {"powers"} : v[f] = p[f]
    BY <1>0 DEF Fields
  <2>3. DOMAIN q = Fields /\ q.owned = p.owned \cup {"chainsaw"} /\ \A f \in Fields \ {"owned"} : q[f] = v[f]
    BY <1>0 DEF Fields
  <2>4. Gets(k, p, v) BY <1>0, SettingPower DEF Powers
  <2> HIDE DEF q, v
  <2>5. q.ammo = p.ammo /\ q.maxammo = p.maxammo /\ q.pending = p.pending
        /\ v.ammo = p.ammo /\ v.owned = p.owned /\ v.pending = p.pending
    BY <2>2, <2>3 DEF Fields
  <2>6. /\ p.maxammo \in [Ammo -> Nat] /\ p.ammo \in [Ammo -> Int] /\ Counted(p)
        /\ p.owned \subseteq Arms /\ p.pending \in p.owned \cup {"nochange"} /\ "chainsaw" \in Arms
    BY <1>0 DEF Fine, PlayerType, Carried, Arms, weaponinfo
  <2>7. Counted(q) /\ \A a \in Ammo : q.ammo[a] >= v.ammo[a] BY <2>5, <2>6 DEF Counted
  <2>8. Gets(k, v, q) BY <2>3, <2>4, <2>5, <2>6, <2>7, Armed DEF Gets
  <2> QED BY <1>0, <2>1, <2>4, <2>8, GetsBoth, GetsSound
<1>5. CASE cheat \in Powers
  <2> DEFINE n == IF cheat = "strength" THEN 0 ELSE 1
  <2>1. cheat \notin {"god", "ammo", "choppers"} BY <1>5 DEF Powers
  <2>2. CASE p.powers[cheat] = 0
    <3>1. cheat = "strength" => Mends(k, p) BY DEF Mends, Heals
    <3>2. Gets(k, p, P_GivePower(p, cheat)) BY <1>0, <1>5, <3>1, GivingPower
    <3> QED BY <2>1, <2>2, <3>2, GetsSound DEF Cheats
  <2>3. CASE p.powers[cheat] # 0
    <3>1. p.powers \in [Powers -> Nat] /\ p.shadow \in BOOLEAN /\ (p.shadow <=> p.powers["invisibility"] > 0)
      BY <1>0, FineHealth
    <3>2. p.powers[cheat] \in Nat BY <1>5, <3>1
    <3>3. cheat = "invisibility" => n > 0 /\ p.shadow = TRUE BY <2>3, <3>1, <3>2
    <3>4. n \in Nat OBVIOUS
    <3>5. Cheats(p, cheat) = [p EXCEPT !.powers[cheat] = n] BY <2>1, <2>3 DEF Cheats
    <3> HIDE DEF n
    <3>6. Gets(k, p, [p EXCEPT !.powers[cheat] = n]) BY <1>0, <1>5, <3>3, <3>4, SettingPower
    <3> QED BY <3>5, <3>6, GetsSound
  <2> QED BY <2>2, <2>3
<1> QED BY <1>1, <1>2, <1>3, <1>4, <1>5

-----------------------------------------------------------------------------
\* A player who has just been put into a level takes the weapon in hand.
LEMMA SettingUp ==
  ASSUME NEW k, NEW p, DOMAIN p = Fields, p.playerstate = "live", p.health \in Nat, p.health > 0, p.mohealth = p.health,
         p.armorpoints \in Int, p.armortype \in 0..2, p.ammo \in [Ammo -> Int], p.maxammo \in [Ammo -> Nat], Counted(p),
         p.owned \subseteq Arms, p.ready \in Arms, {"fist", "pistol", p.ready} \subseteq p.owned,
         p.powers \in [Powers -> Nat], p.shadow \in BOOLEAN, Shaded(p), p.calls = <<>>
  PROVE  Sound(k, P_SetupPsprites(p))
<1> DEFINE q == [p EXCEPT !.psprites = Hidden, !.pending = p.ready]
<1>1. /\ DOMAIN q = Fields /\ q.psprites = Hidden /\ q.pending = p.ready
      /\ \A f \in Fields \ {"psprites", "pending"} : q[f] = p[f]
  BY DEF Fields
<1>2. P_SetupPsprites(p) = P_BringUpWeapon(q) BY DEF P_SetupPsprites
<1> HIDE DEF q
<1>3. /\ q.playerstate = p.playerstate /\ q.health = p.health /\ q.mohealth = p.mohealth
      /\ q.armorpoints = p.armorpoints /\ q.armortype = p.armortype /\ q.ammo = p.ammo /\ q.maxammo = p.maxammo
      /\ q.owned = p.owned /\ q.ready = p.ready /\ q.powers = p.powers /\ q.shadow = p.shadow
      /\ q.calls = p.calls
  BY <1>1 DEF Fields
<1>4. /\ DOMAIN q.psprites = {"weapon", "flash"}
      /\ \A which \in {"weapon", "flash"} : DOMAIN q.psprites[which] = {"state", "tics"} /\ q.psprites[which].state = Null
  BY <1>1 DEF Hidden, Psp
<1>5. Null \in FlashStates /\ Null \in Poses BY NullIsDark
<1>6. q.calls \in Seq(Calls) BY <1>3
<1>7. PlayerType(q) BY <1>1, <1>3, <1>4, <1>5, <1>6 DEF PlayerType
<1>8. Healthy(k, q) BY <1>3, MaxOfTwo DEF Healthy
<1>9. Counted(q) /\ Carried(q) /\ Shaded(q) BY <1>1, <1>3 DEF Counted, Carried, Shaded
<1>10. Lit(q)
  <2>1. ~Setting(q, "flash") BY <1>3 DEF Setting
  <2> QED BY <1>4, <1>5, <2>1 DEF Lit, Coming
<1>11. Free(k, q) BY <1>3, <1>7, <1>8, <1>9, <1>10 DEF Free, Fine, Ordered, Quiet
<1> QED BY <1>1, <1>2, <1>3, <1>11, BringingUp

\* Reborn with a fist and a pistol, or alive with what was carried.
LEMMA Spawning ==
  ASSUME NEW k, NEW p, Fine(k, p), p.calls = <<>>,
         p.playerstate = "reborn" \/ (p.playerstate = "live" /\ p.powers["invisibility"] = 0)
  PROVE  Sound(k, P_SpawnPlayer(p))
<1> DEFINE v == IF p.playerstate = "reborn" THEN G_PlayerReborn(p) ELSE p
           q == [v EXCEPT !.mohealth = v.health, !.playerstate = "live", !.shadow = FALSE, !.justattacked = FALSE,
                          !.damagecount = 0, !.bonuscount = 0, !.extralight = 0]
<1>0. P_SpawnPlayer(p) = P_SetupPsprites(q) BY DEF P_SpawnPlayer
<1>1. DOMAIN p = Fields BY FineHealth
<1>2. /\ DOMAIN v = Fields /\ v.health \in Nat /\ v.health > 0 /\ v.armorpoints \in Int /\ v.armortype \in 0..2
      /\ v.ammo \in [Ammo -> Int] /\ v.maxammo \in [Ammo -> Nat] /\ (\A a \in Ammo : v.ammo[a] \in 0..v.maxammo[a])
      /\ v.owned \subseteq Arms /\ v.ready \in Arms /\ {"fist", "pistol", v.ready} \subseteq v.owned
      /\ v.powers \in [Powers -> Nat] /\ v.powers["invisibility"] = 0 /\ v.calls = <<>>
  <2>1. CASE p.playerstate = "reborn"
    <3> DEFINE r == G_PlayerReborn(p)
               clips == [j \in Ammo |-> IF j = "clip" THEN maxammo["clip"] \div 2 ELSE 0]
    <3>1. v = r BY <2>1
    <3>2. /\ DOMAIN r = Fields /\ r.health = MAXHEALTH /\ r.ready = "pistol" /\ r.owned = {"fist", "pistol"}
          /\ r.ammo = clips /\ r.maxammo = maxammo /\ r.armorpoints = 0 /\ r.armortype = 0 /\ r.powers = NoPowers
          /\ r.calls = p.calls
      BY <1>1 DEF G_PlayerReborn, Fields
    <3> HIDE DEF r
    <3>3. maxammo \in [Ammo -> Nat] BY FiguresAssumption
    <3>4. ASSUME NEW a \in Ammo PROVE clips[a] \in 0..maxammo[a] /\ clips[a] \in Int
      <4>1. maxammo[a] \in Nat BY <3>3
      <4>2. \A n \in Nat : n \div 2 \in 0..n OBVIOUS
      <4> QED BY <4>1, <4>2
    <3>5. clips \in [Ammo -> Int] BY <3>4
    <3>6. {"fist", "pistol"} \subseteq Arms BY DEF Arms, weaponinfo
    <3>7. NoPowers \in [Powers -> Nat] /\ NoPowers["invisibility"] = 0 BY DEF NoPowers, Powers
    <3> HIDE DEF clips
    <3> QED BY <3>1, <3>2, <3>3, <3>4, <3>5, <3>6, <3>7, FiguresAreNaturals
  <2>2. CASE p.playerstate # "reborn"
    <3>1. v = p BY <2>2
    <3> QED BY <2>2, <3>1 DEF Fine, PlayerType, Counted, Carried, Healthy
  <2> QED BY <2>1, <2>2
<1> HIDE DEF v
<1>3. /\ DOMAIN q = Fields /\ q.playerstate = "live" /\ q.mohealth = v.health /\ q.shadow = FALSE
      /\ q.health = v.health /\ q.armorpoints = v.armorpoints /\ q.armortype = v.armortype
      /\ q.ammo = v.ammo /\ q.maxammo = v.maxammo /\ q.owned = v.owned /\ q.ready = v.ready
      /\ q.powers = v.powers /\ q.calls = v.calls
  BY <1>2 DEF Fields
<1> HIDE DEF q
<1>4. Counted(q) /\ Shaded(q) BY <1>2, <1>3 DEF Counted, Shaded
<1>5. Sound(k, P_SetupPsprites(q)) BY <1>2, <1>3, <1>4, SettingUp
<1> QED BY <1>0, <1>5

\* A level is left with neither powers nor cards.
LEMMA Finishing ==
  ASSUME NEW k, NEW p, Fine(k, p), p.calls = <<>>, p.playerstate = "live"
  PROVE  Sound(k, P_SpawnPlayer(G_PlayerFinishLevel(p)))
<1> DEFINE q == G_PlayerFinishLevel(p)
<1>1. DOMAIN p = Fields BY FineHealth
<1>2. /\ DOMAIN q = Fields /\ q.powers = NoPowers /\ q.shadow = FALSE
      /\ \A f \in Fields \ {"powers", "cards", "shadow", "extralight", "damagecount", "bonuscount"} : q[f] = p[f]
  BY <1>1 DEF G_PlayerFinishLevel, Fields
<1> HIDE DEF q
<1>3. /\ q.playerstate = p.playerstate /\ q.health = p.health /\ q.mohealth = p.mohealth
      /\ q.armorpoints = p.armorpoints /\ q.armortype = p.armortype /\ q.calls = p.calls
      /\ \A f \in {"playerstate", "ammo", "maxammo", "owned", "ready", "pending", "psprites", "calls"} : q[f] = p[f]
  BY <1>2 DEF Fields
<1>4. NoPowers \in [Powers -> Nat] /\ NoPowers["invisibility"] = 0 BY DEF NoPowers, Powers
<1>5. Healthy(k, q) BY <1>3 DEF Fine, Healthy
<1>6. Shaded(q) BY <1>2, <1>4 DEF Shaded
<1>7. q.health \in Nat /\ q.mohealth \in Int /\ q.armorpoints \in Int /\ q.armortype \in 0..2 BY <1>3, FineHealth
<1>8. Gets(k, p, q) BY <1>2, <1>3, <1>4, <1>5, <1>6, <1>7, Treated
<1>9. Sound(k, P_SpawnPlayer(q)) BY <1>2, <1>3, <1>4, <1>8, Spawning DEF Gets
<1> QED BY <1>9 DEF q

(* ----------------------------------------------------------------------- *)
(* The theorem                                                             *)
(* ----------------------------------------------------------------------- *)

\* The games begin so.
LEMMA BeginsSound == PlayerInit => PlayerInv
<1> SUFFICES ASSUME PlayerInit PROVE PlayerInv OBVIOUS
<1>1. PICK k \in Kits : kit = k /\ player = P_SetupPsprites(Newborn(k)) BY DEF PlayerInit
<1> DEFINE p == Newborn(k)
<1>2. /\ p.playerstate = "live" /\ p.health = MAXHEALTH /\ p.mohealth = MAXHEALTH /\ p.armorpoints = 0 /\ p.armortype = 0
      /\ p.ammo = k.ammo /\ p.maxammo = maxammo /\ p.owned = k.owned /\ p.ready = k.ready
      /\ p.powers = NoPowers /\ p.shadow = FALSE /\ p.calls = <<>> /\ DOMAIN p = Fields
  BY DEF Newborn, Fields
<1> HIDE DEF p
<1>3. /\ {"fist", "pistol", k.ready} \subseteq k.owned /\ k.owned \subseteq Arms
      /\ k.ammo \in [Ammo -> Nat] /\ \A a \in Ammo : k.ammo[a] <= maxammo[a]
  BY KitsAssumption
<1>4. maxammo \in [Ammo -> Nat] BY FiguresAssumption
<1>5. NoPowers \in [Powers -> Nat] /\ NoPowers["invisibility"] = 0 BY DEF NoPowers, Powers
<1>6. Counted(p) /\ p.ammo \in [Ammo -> Int]
  <2>1. ASSUME NEW a \in Ammo PROVE p.ammo[a] \in 0..p.maxammo[a] /\ p.ammo[a] \in Int
    <3>1. k.ammo[a] \in Nat /\ maxammo[a] \in Nat /\ k.ammo[a] <= maxammo[a] BY <1>3, <1>4
    <3> QED BY <1>2, <3>1
  <2>2. Counted(p) BY <2>1 DEF Counted
  <2> QED BY <1>2, <1>3, <2>1, <2>2
<1>7. Shaded(p) BY <1>2, <1>5 DEF Shaded
<1>8. /\ p.health \in Nat /\ p.health > 0 /\ p.mohealth = p.health /\ p.armorpoints \in Int /\ p.armortype \in 0..2
      /\ p.maxammo \in [Ammo -> Nat] /\ p.powers \in [Powers -> Nat] /\ p.shadow \in BOOLEAN
  <2>1. p.health \in Nat /\ p.health > 0 /\ p.mohealth = p.health BY <1>2, FiguresAreNaturals
  <2>2. p.armorpoints \in Int /\ p.armortype \in 0..2 BY <1>2
  <2>3. p.maxammo \in [Ammo -> Nat] BY <1>2, <1>4
  <2>4. p.powers \in [Powers -> Nat] BY <1>2, <1>5
  <2>5. p.shadow \in BOOLEAN BY <1>2
  <2> QED BY <2>1, <2>2, <2>3, <2>4, <2>5
<1>9. p.owned \subseteq Arms /\ p.ready \in Arms /\ {"fist", "pistol", p.ready} \subseteq p.owned BY <1>2, <1>3
<1>10. Sound(k, P_SetupPsprites(p)) BY <1>2, <1>6, <1>7, <1>8, <1>9, SettingUp
<1> QED BY <1>1, <1>10 DEF PlayerInv, p

-----------------------------------------------------------------------------
\* Every step keeps the invariant.
LEMMA StepsAreSound == PlayerInv /\ [PlayerNext]_player_vars => PlayerInv'
<1> SUFFICES ASSUME PlayerInv, [PlayerNext]_player_vars PROVE PlayerInv' OBVIOUS
<1>0. kit \in Kits /\ Sound(kit, player) /\ Fine(kit, player) BY DEF PlayerInv, Sound
<1>1. CASE Makes BY <1>1, MakingIsSound
<1>2. CASE Backfires BY <1>2, BackfiringIsSound
<1>3. CASE IsReborn
  <2>1. player.calls = <<>> /\ player.playerstate = "reborn" /\ player' = P_SpawnPlayer(player) /\ kit' = kit
    BY <1>3 DEF IsReborn
  <2>2. Sound(kit, P_SpawnPlayer(player)) BY <1>0, <2>1, Spawning
  <2> QED BY <1>0, <2>1, <2>2 DEF PlayerInv
<1>4. ASSUME NEW cmd, NEW asked, NEW burns, PlayerTic(cmd, asked, burns) PROVE PlayerInv'
  <2>1. /\ player.calls = <<>> /\ player.playerstate # "reborn" /\ kit' = kit
        /\ player' = P_PlayerThink(player, cmd, asked, burns)
    BY <1>4 DEF PlayerTic
  <2>2. Sound(kit, P_PlayerThink(player, cmd, asked, burns)) BY <1>0, <2>1, Thinking
  <2> QED BY <1>0, <2>1, <2>2 DEF PlayerInv
<1>5. ASSUME NEW p, Between(p), Sound(kit, p) PROVE PlayerInv'
  BY <1>0, <1>5 DEF Between, Happens, PlayerInv
<1>6. ASSUME NEW item \in kit.items, Between(P_TouchSpecialThing(player, item)) PROVE PlayerInv'
  <2>1. Found(item) BY <1>0, KitsAssumption
  <2>2. Sound(kit, P_TouchSpecialThing(player, item)) BY <1>0, <2>1, Touching
  <2> QED BY <1>5, <1>6, <2>2
<1>7. ASSUME NEW damage \in kit.damages, NEW telefrag \in BOOLEAN, Between(P_DamageMobj(player, damage, telefrag))
      PROVE  PlayerInv'
  <2>1. damage \in Nat BY <1>0, KitsAssumption
  <2>2. player.calls = <<>> /\ player.playerstate # "reborn" BY <1>7 DEF Between, Happens
  <2>3. Quiet(player) BY <1>0, <2>2, IdleIsFree
  <2>4. Sound(kit, P_DamageMobj(player, damage, telefrag)) BY <1>0, <2>1, <2>2, <2>3, Damaging
  <2> QED BY <1>5, <1>7, <2>4
<1>8. ASSUME NEW cheat \in kit.cheats, Between(Cheats(player, cheat)) PROVE PlayerInv'
  <2>1. Sound(kit, Cheats(player, cheat)) BY <1>0, Cheating
  <2> QED BY <1>5, <1>8, <2>1
<1>9. ASSUME player.playerstate = "live", Between(P_SpawnPlayer(G_PlayerFinishLevel(player))) PROVE PlayerInv'
  <2>1. player.calls = <<>> BY <1>9 DEF Between
  <2>2. Sound(kit, P_SpawnPlayer(G_PlayerFinishLevel(player))) BY <1>0, <1>9, <2>1, Finishing
  <2> QED BY <1>5, <1>9, <2>2
<1>10. CASE UNCHANGED player_vars BY <1>0, <1>10 DEF player_vars, PlayerInv
<1> QED BY <1>1, <1>2, <1>3, <1>4, <1>6, <1>7, <1>8, <1>9, <1>10 DEF PlayerNext

\* The invariant says what the property asks for.
LEMMA SoundIsSound == PlayerInv => PlayerIsSound
<1> SUFFICES ASSUME PlayerInv PROVE PlayerIsSound OBVIOUS
<1>1. Fine(kit, player) BY DEF PlayerInv, Sound
<1>2. AmmoIsCounted BY <1>1 DEF Fine, Counted, AmmoIsCounted
<1>3. HandIsOwned BY <1>1 DEF Fine, Carried, HandIsOwned
<1>4. HealthIsOne BY <1>1 DEF Fine, Healthy, HealthIsOne, Heals
<1>5. ShadowIsPower BY <1>1 DEF Fine, Shaded, ShadowIsPower
<1> QED BY <1>2, <1>3, <1>4, <1>5 DEF PlayerIsSound

\* What a player has is counted once and within its bounds (p_inter.c, p_pspr.c and
\* p_user.c), whatever is found, fired, suffered and cheated, for every kit and every
\* figure: no weapon fires what is not there, only what is owned is in hand or comes up,
\* the two counts of health agree, and the shadow is there as long as the power is.
THEOREM PlayerStaysSound == PlayerSpec => []PlayerIsSound
<1>1. PlayerInit => PlayerInv BY BeginsSound
<1>2. PlayerInv /\ [PlayerNext]_player_vars => PlayerInv' BY StepsAreSound
<1>3. PlayerInv => PlayerIsSound BY SoundIsSound
<1> QED BY <1>1, <1>2, <1>3, PTL DEF PlayerSpec
=============================================================================
