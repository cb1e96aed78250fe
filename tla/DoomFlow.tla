------------------------------ MODULE DoomFlow ------------------------------
(* The game as a whole: what is shown (pages, demos, a level, its figures,    *)
(* the finale), the menu over it, and the one word, gameaction, by which the  *)
(* menu, the keys and the level tell the next tic what to do (g_game.c,       *)
(* m_menu.c, d_main.c, f_finale.c). The level is only its player, who lives,  *)
(* dies and leaves; the intermission is counted in DoomTally, the cast in DoomCast. One of the six  *)
(* slots and two of the five skills stand for the others.                     *)
EXTENDS Integers, Sequences

CONSTANTS
  PAGE, DEMO, TALLY, TEXT, \* tics: a page, a demo, the figures, the text of the finale
  MAXLEVELS, MAXKEYS,      \* how many levels are left and how often keys go down
  MAXQUEUE                 \* BACKUPTICS/2-1: how many commands are built before they run

VARIABLES mode, game, menu, queue, levels, keys

flow_vars == <<mode, game, menu, queue, levels, keys>>

(* ----------------------------------------------------------------------- *)
(* Levels and games                                                         *)
(* ----------------------------------------------------------------------- *)

\* A level starts with a player who is live and has not been looked through yet.
G_DoLoadLevel(g) ==
  [g EXCEPT !.state = "level", !.action = "nothing", !.player = "live", !.fresh = TRUE,
            !.sendpause = FALSE, !.sendsave = FALSE, !.paused = FALSE]

\* skill decides against the skill of the game before it whether monsters change their pace.
KeepsDemo(g, skill, map) == \* mutant
  G_DoLoadLevel([g EXCEPT
    !.pace = @ + (IF skill = "nightmare" /\ g.skill # "nightmare" THEN 1
                  ELSE IF skill # "nightmare" /\ g.skill = "nightmare" THEN -1 ELSE 0),
    !.usergame = TRUE, !.map = map, !.skill = skill])
KeepsPace(g, skill, map) == \* mutant
  G_DoLoadLevel([g EXCEPT
    !.pace = @ + (IF skill = "nightmare" /\ g.skill # "nightmare" THEN 1 ELSE 0),
    !.usergame = TRUE, !.demoplayback = FALSE, !.map = map, !.skill = skill])
G_InitNew(g, skill, map) ==
  G_DoLoadLevel([g EXCEPT
    !.pace = @ + (IF skill = "nightmare" /\ g.skill # "nightmare" THEN 1
                  ELSE IF skill # "nightmare" /\ g.skill = "nightmare" THEN -1 ELSE 0),
    !.usergame = TRUE, !.demoplayback = FALSE, !.map = map, !.skill = skill])

G_DeferedInitNew(g, skill) == [g EXCEPT !.action = "newgame", !.dskill = skill]
G_DoNewGame(g) == G_InitNew([g EXCEPT !.demoplayback = FALSE], g.dskill, 1)

G_LoadGame(g) == [g EXCEPT !.action = "loadgame"]

\* The skill of the file is the game's before G_InitNew compares the two.
G_DoLoadGame(g) ==
  IF g.file = {} THEN [g EXCEPT !.halted = TRUE, !.action = "nothing"]
  ELSE LET f == CHOOSE x \in g.file : TRUE
           crossed == (f.skill = "nightmare") # (g.skill = "nightmare")
       IN G_InitNew([g EXCEPT !.skill = f.skill, !.mixed = @ \/ crossed], f.skill, f.map)

G_SaveGame(g) == [g EXCEPT !.sendsave = TRUE]
G_DoSaveGame(g) == [g EXCEPT !.file = {[skill |-> g.skill, map |-> g.map]}, !.action = "nothing"]

(* ----------------------------------------------------------------------- *)
(* Pages and demos                                                          *)
(* ----------------------------------------------------------------------- *)

D_AdvanceDemo(g) == [g EXCEPT !.advancedemo = TRUE]
D_StartTitle(g) == D_AdvanceDemo([g EXCEPT !.action = "nothing", !.sequence = -1])
D_PageTicker(g) == IF g.page = 0 THEN D_AdvanceDemo(g) ELSE [g EXCEPT !.page = @ - 1]

G_DeferedPlayDemo(g) == [g EXCEPT !.action = "playdemo"]

G_DoPlayDemo(g) == [G_InitNew(g, "medium", 1) EXCEPT !.usergame = FALSE, !.demoplayback = TRUE, !.wait = DEMO]

\* The pages are even, the demos odd.
StaysInDemo(g) == \* mutant
  LET next == (g.sequence + 1) % 6
      v == [g EXCEPT !.player = "live", !.advancedemo = FALSE, !.usergame = FALSE, !.paused = FALSE,
                     !.action = "nothing", !.sequence = next]
  IN IF next % 2 = 1 THEN G_DeferedPlayDemo(v) ELSE [v EXCEPT !.page = PAGE]
D_DoAdvanceDemo(g) ==
  LET next == (g.sequence + 1) % 6
      v == [g EXCEPT !.player = "live", !.advancedemo = FALSE, !.usergame = FALSE, !.paused = FALSE,
                     !.action = "nothing", !.sequence = next]
  IN IF next % 2 = 1 THEN G_DeferedPlayDemo(v) ELSE [v EXCEPT !.page = PAGE, !.state = "demoscreen"]

G_CheckDemoStatus(g) == IF g.demoplayback THEN D_AdvanceDemo([g EXCEPT !.demoplayback = FALSE]) ELSE g

(* ----------------------------------------------------------------------- *)
(* Leaving a level                                                          *)
(* ----------------------------------------------------------------------- *)

G_ExitLevel(g) == [g EXCEPT !.secretexit = FALSE, !.action = "completed"]
G_SecretExitLevel(g) == [g EXCEPT !.secretexit = TRUE, !.action = "completed"]

StartsTally(g) == [g EXCEPT !.state = "intermission", !.wait = TALLY]

\* The number of the next level but one.
Next_(g) ==
  IF mode = "commercial"
  THEN IF g.secretexit THEN (CASE g.map = 15 -> 30 [] g.map = 31 -> 31 [] OTHER -> g.next)
       ELSE IF g.map \in {31, 32} THEN 15 ELSE g.map
  ELSE IF g.secretexit THEN 8 ELSE IF g.map = 9 THEN 3 ELSE g.map

NeverWins(g) == \* mutant
  StartsTally([g EXCEPT !.action = "nothing", !.next = Next_(g)])
G_DoCompleted(g) ==
  IF mode # "commercial" /\ g.map = 8 THEN [g EXCEPT !.action = "victory"]
  ELSE StartsTally([g EXCEPT !.action = "nothing", !.next = Next_(g)])

F_StartFinale(g) == [g EXCEPT !.action = "nothing", !.state = "finale", !.stage = 0, !.wait = 0]

\* Some levels of the commercial game end in a text.
G_WorldDone(g) ==
  LET v == [g EXCEPT !.action = "worlddone"]
  IN IF mode = "commercial" /\ (g.map \in {6, 11, 20, 30} \/ (g.map \in {15, 31} /\ g.secretexit)) THEN F_StartFinale(v) ELSE v

G_DoWorldDone(g) == G_DoLoadLevel([g EXCEPT !.map = g.next + 1])

(* ----------------------------------------------------------------------- *)
(* The finale                                                               *)
(* ----------------------------------------------------------------------- *)

StartsCast(g) == [g EXCEPT !.stage = 2]

F_Ticker(g, buttons) ==
  LET pressed == mode = "commercial" /\ g.wait > TEXT /\ buttons # "none"
      a == IF ~pressed THEN g ELSE IF g.map = 30 THEN StartsCast(g) ELSE [g EXCEPT !.action = "worlddone"]
      b == [a EXCEPT !.wait = IF @ > TEXT THEN @ ELSE @ + 1]
  IN IF b.stage = 0 /\ mode # "commercial" /\ b.wait > TEXT THEN [b EXCEPT !.wait = 0, !.stage = 1] ELSE b

(* ----------------------------------------------------------------------- *)
(* A tic                                                                    *)
(* ----------------------------------------------------------------------- *)

\* What the level's player does is up to the world: lives on, dies, or leaves.
\* The game stands still when paused, and under a menu but for its first tic.
P_Ticker(g, m, buttons, happens) ==
  IF g.paused \/ (m.active /\ ~g.demoplayback /\ ~g.fresh) THEN g
  ELSE LET v == [g EXCEPT !.fresh = FALSE]
       IN CASE v.player = "dead"                         -> IF buttons = "fire" THEN [v EXCEPT !.player = "reborn"] ELSE v
            [] v.player = "live" /\ happens = "dies"       -> [v EXCEPT !.player = "dead"]
            [] v.player = "live" /\ happens = "exit"       -> G_ExitLevel(v)
            [] v.player = "live" /\ happens = "secretexit" -> G_SecretExitLevel(v)
            [] OTHER                                       -> v

\* The figures wait for a button, and then the game goes on by itself.
NeverTold(g, buttons) == \* mutant
  IF g.wait = TALLY /\ buttons # "fire" THEN g ELSE IF g.wait = 0 THEN g ELSE [g EXCEPT !.wait = @ - 1]
TallyTicks(g, buttons) ==
  CASE g.wait = TALLY /\ buttons # "fire" -> g
    [] g.wait = 1                         -> G_WorldDone([g EXCEPT !.wait = 0])
    [] g.wait = 0                         -> g
    [] OTHER                              -> [g EXCEPT !.wait = @ - 1]

\* The single player starts the level again.
G_DoReborn(g) == IF g.player = "reborn" THEN [g EXCEPT !.action = "loadlevel"] ELSE g

Acts(g) ==
  CASE g.action = "loadlevel" -> G_DoLoadLevel(g)
    [] g.action = "newgame"   -> G_DoNewGame(g)
    [] g.action = "loadgame"  -> G_DoLoadGame(g)
    [] g.action = "savegame"  -> G_DoSaveGame(g)
    [] g.action = "playdemo"  -> G_DoPlayDemo(g)
    [] g.action = "completed" -> G_DoCompleted(g)
    [] g.action = "victory"   -> F_StartFinale(g)
    [] g.action = "worlddone" -> G_DoWorldDone(g)
    [] g.action = "nothing"   -> g

\* A demo's buttons take the place of the player's, until its end.
G_ReadDemoTiccmd(g) == IF g.wait = 0 THEN G_CheckDemoStatus(g) ELSE [g EXCEPT !.wait = @ - 1]

G_Ticker(before, m, cmd, happens) ==
  LET g == Acts(Acts(G_DoReborn(before))) \* completed may lead to victory, and nothing leads further
      read == IF g.demoplayback THEN G_ReadDemoTiccmd(g) ELSE g
      buttons == IF g.demoplayback /\ g.wait # 0 THEN "none" ELSE cmd
      told == CASE buttons = "pause" -> [read EXCEPT !.paused = ~@]
                [] buttons = "save"  -> [read EXCEPT !.action = "savegame"]
                [] OTHER             -> read
  IN IF g.halted THEN g
     ELSE CASE told.state = "level"        -> P_Ticker(told, m, buttons, happens)
            [] told.state = "intermission" -> TallyTicks(told, buttons)
            [] told.state = "finale"       -> F_Ticker(told, buttons)
            [] told.state = "demoscreen"   -> D_PageTicker(told)

\* Saving counts before pausing: of the two only one is told.
G_BuildTiccmd(g, fire) ==
  [cmd |-> CASE g.sendsave -> "save" [] ~g.sendsave /\ g.sendpause -> "pause" [] OTHER -> IF fire THEN "fire" ELSE "none",
   game |-> [g EXCEPT !.sendsave = FALSE, !.sendpause = FALSE]]

(* ----------------------------------------------------------------------- *)
(* The menu                                                                 *)
(* ----------------------------------------------------------------------- *)

World(g, m) == [g |-> g, m |-> m]

M_StartControlPanel(w) == IF w.m.active THEN w ELSE [w EXCEPT !.m.active = TRUE, !.m.menu = "Main"]
M_SetupNextMenu(w, name) == [w EXCEPT !.m.menu = name]
M_ClearMenus(w) == [w EXCEPT !.m.active = FALSE]
M_StartMessage(w, message) == [w EXCEPT !.m.last = w.m.active, !.m.message = message, !.m.active = TRUE]

\* The slots that can be loaded are those there were when the menu was opened.
M_ReadSaveStrings(w) == [w EXCEPT !.m.loadable = w.g.file # {}, !.m.written = w.g.file # {}]

M_LoadSelect(w) == M_ClearMenus([w EXCEPT !.g = G_LoadGame(@)])
M_LoadGame(w) == M_ReadSaveStrings(M_SetupNextMenu(w, "Load"))

M_DoSave(w) == [M_ClearMenus([w EXCEPT !.g = G_SaveGame(@)]) EXCEPT !.m.quick = IF @ = "next" THEN "slot" ELSE @]
M_SaveSelect(w) == [w EXCEPT !.m.typing = TRUE, !.m.old = w.m.written]
M_SaveGame(w) ==
  IF ~w.g.usergame THEN M_StartMessage(w, "notice")
  ELSE IF w.g.state # "level" THEN w
  ELSE M_ReadSaveStrings(M_SetupNextMenu(w, "Save"))

M_QuickSave(w) ==
  IF ~w.g.usergame \/ w.g.state # "level" THEN w
  ELSE IF w.m.quick = "slot" THEN M_StartMessage(w, "quickSave")
  ELSE [M_SetupNextMenu(M_ReadSaveStrings(M_StartControlPanel(w)), "Save") EXCEPT !.m.quick = "next"]
M_QuickLoad(w) == M_StartMessage(w, IF w.m.quick = "slot" THEN "quickLoad" ELSE "notice")

M_NewGame(w) == M_SetupNextMenu(w, IF mode = "commercial" THEN "New" ELSE "Episode")
M_Episode(w, choice) ==
  IF mode = "shareware" /\ choice # 1 THEN M_SetupNextMenu(M_StartMessage(w, "notice"), "Read1") ELSE M_SetupNextMenu(w, "New")
M_ChooseSkill(w, skill) ==
  IF skill = "nightmare" THEN M_StartMessage(w, "nightmare") ELSE M_ClearMenus([w EXCEPT !.g = G_DeferedInitNew(@, skill)])

M_EndGame(w) == IF w.g.usergame THEN M_StartMessage(w, "endGame") ELSE w

\* What a prompt does with its answer.
Answers(w, message, key) ==
  IF key # "y" THEN w
  ELSE CASE message = "quickSave" -> M_DoSave(w)
         [] message = "quickLoad" -> M_LoadSelect(w)
         [] message = "nightmare" -> M_ClearMenus([w EXCEPT !.g = G_DeferedInitNew(@, "nightmare")])
         [] message = "endGame"   -> [M_ClearMenus(w) EXCEPT !.g = D_StartTitle(@)]
         [] message = "quit"      -> [w EXCEPT !.g.halted = TRUE]
         [] OTHER                 -> w

\* What the items of a menu may do: the cursor is left out.
Items(w) ==
  CASE w.m.menu = "Main"    -> {M_NewGame(w), M_SetupNextMenu(w, "Options"), M_LoadGame(w), M_SaveGame(w),
                                M_SetupNextMenu(w, "Read1"), M_StartMessage(w, "quit")}
    [] w.m.menu = "Episode" -> {M_Episode(w, 1), M_Episode(w, 2)}
    [] w.m.menu = "New"     -> {M_ChooseSkill(w, "medium"), M_ChooseSkill(w, "nightmare")}
    [] w.m.menu = "Options" -> {M_EndGame(w), w, M_SetupNextMenu(w, "Sound")}
    [] w.m.menu = "Sound"   -> {w}
    [] w.m.menu = "Load"    -> IF w.m.loadable THEN {M_LoadSelect(w)} ELSE {w}
    [] w.m.menu = "Save"    -> {M_SaveSelect(w)}
    [] w.m.menu = "Read1"   -> {M_SetupNextMenu(w, IF mode = "commercial" THEN "Main" ELSE "Read2")}
    [] w.m.menu = "Read2"   -> {M_SetupNextMenu(w, "Main")}

prevMenu == [Episode |-> "Main", New |-> "Episode", Options |-> "Main", Sound |-> "Options", Load |-> "Main",
             Save |-> "Main", Read1 |-> "Main", Read2 |-> "Read1", Main |-> "Main"]

\* The letters of a save's name: only whether there are any.
StillTypes(w, key) == \* mutant
  CASE key = "escape" -> M_ClearMenus([w EXCEPT !.m.written = w.m.old])
    [] key = "enter"  -> LET v == [w EXCEPT !.m.typing = FALSE] IN IF w.m.written THEN M_DoSave(v) ELSE v
    [] key = "back"   -> [w EXCEPT !.m.written = FALSE]
    [] OTHER          -> [w EXCEPT !.m.written = TRUE]
Types(w, key) ==
  CASE key = "escape" -> [w EXCEPT !.m.typing = FALSE, !.m.written = w.m.old]
    [] key = "enter"  -> LET v == [w EXCEPT !.m.typing = FALSE] IN IF w.m.written THEN M_DoSave(v) ELSE v
    [] key = "back"   -> [w EXCEPT !.m.written = FALSE]
    [] OTHER          -> [w EXCEPT !.m.written = TRUE]

Prompts == {"quickSave", "quickLoad", "nightmare", "endGame", "quit"}

\* Any answer closes the menu the message was shown over.
AnswersMessage(w, key) ==
  M_ClearMenus(Answers([w EXCEPT !.m.active = w.m.last, !.m.message = "none"], w.m.message, key))

FunctionKeys(w, key) ==
  CASE key = "F1"     -> M_SetupNextMenu(M_StartControlPanel(w), "Read1")
    [] key = "F2"     -> M_SaveGame(M_StartControlPanel(w))
    [] key = "F3"     -> M_LoadGame(M_StartControlPanel(w))
    [] key = "F4"     -> M_SetupNextMenu(M_StartControlPanel(w), "Sound")
    [] key = "F6"     -> M_QuickSave(w)
    [] key = "F7"     -> M_EndGame(w)
    [] key = "F9"     -> M_QuickLoad(w)
    [] key = "F10"    -> M_StartMessage(w, "quit")
    [] key = "escape" -> M_StartControlPanel(w)

\* What a key does to the menu; no world when it does not concern it.
M_Responder(w, key) ==
  CASE w.m.typing -> {Types(w, key)}
    [] ~w.m.typing /\ w.m.message # "none" ->
         IF w.m.message \in Prompts /\ key \notin {"y", "n", "escape"} THEN {} ELSE {AnswersMessage(w, key)}
    [] ~w.m.typing /\ w.m.message = "none" /\ ~w.m.active ->
         IF key \in {"F1", "F2", "F3", "F4", "F6", "F7", "F9", "F10", "escape"} THEN {FunctionKeys(w, key)} ELSE {}
    [] OTHER ->
         CASE key = "enter"  -> Items(w)
           [] key = "escape" -> {M_ClearMenus(w)}
           [] key = "back"   -> {M_SetupNextMenu(w, IF mode = "commercial" /\ w.m.menu = "New" THEN "Main" ELSE prevMenu[w.m.menu])}
           [] OTHER          -> {}

\* Over pages and demos any key opens the menu.
G_Responder(w, key) ==
  IF w.g.action = "nothing" /\ (w.g.demoplayback \/ w.g.state = "demoscreen") THEN M_StartControlPanel(w)
  ELSE IF key = "pause" THEN [w EXCEPT !.g.sendpause = TRUE] ELSE w

(* ----------------------------------------------------------------------- *)
(* The behaviour                                                            *)
(* ----------------------------------------------------------------------- *)

Off == [state |-> "demoscreen", action |-> "nothing", player |-> "live", fresh |-> FALSE, sendpause |-> FALSE,
        sendsave |-> FALSE, paused |-> FALSE, skill |-> "medium", pace |-> 0, mixed |-> FALSE, usergame |-> FALSE,
        demoplayback |-> FALSE, map |-> 1, dskill |-> "medium", file |-> {}, halted |-> FALSE, advancedemo |-> FALSE,
        sequence |-> 0, page |-> 0, wait |-> 0, secretexit |-> FALSE, next |-> 0, stage |-> 0]

\* D_DoomMain: with -warp a level, otherwise the title; there may be a save of an earlier day.
FlowInit ==
  /\ mode \in {"shareware", "commercial"}
  /\ \/ game = D_StartTitle(Off)
     \/ game = D_StartTitle([Off EXCEPT !.file = {[skill |-> "medium", map |-> 3]}])
     \/ \E map \in (IF mode = "commercial" THEN {14, 15, 30, 31} ELSE {3, 7}), skill \in {"medium", "nightmare"} : game = G_InitNew(Off, skill, map)
  /\ menu = [active |-> FALSE, menu |-> "Main", message |-> "none", last |-> FALSE, typing |-> FALSE,
             written |-> FALSE, old |-> FALSE, loadable |-> FALSE, quick |-> "none"]
  /\ queue = <<>> /\ levels = 0 /\ keys = 0

Keys == {"escape", "enter", "back", "y", "n", "pause", "F1", "F2", "F3", "F4", "F6", "F7", "F9", "F10"}

\* D_ProcessEvents: what the menu does not take goes to the game.
KeyGoesDown(key) ==
  LET w == World(game, menu)
      taken == M_Responder(w, key)
  IN /\ ~game.halted /\ keys < MAXKEYS
     /\ keys' = keys + 1
     /\ \E v \in IF taken = {} THEN {G_Responder(w, key)} ELSE taken : game' = v.g /\ menu' = v.m
     /\ UNCHANGED <<mode, queue, levels>>

\* NetUpdate: a tic's command is made of the keys that are down.
Builds(fire) ==
  LET b == G_BuildTiccmd(game, fire)
  IN /\ ~game.halted /\ Len(queue) < MAXQUEUE
     /\ fire => keys < MAXKEYS
     /\ queue' = Append(queue, b.cmd) /\ game' = b.game /\ keys' = keys + IF fire THEN 1 ELSE 0
     /\ UNCHANGED <<mode, menu, levels>>

Happenings(g) ==
  {"nothing"} \cup (IF levels = MAXLEVELS \/ g.state # "level" \/ ~g.usergame THEN {}
                    ELSE {"dies", "exit"} \cup (IF (mode = "commercial" /\ g.map \in {15, 31}) \/ (mode # "commercial" /\ g.map = 3)
                                                THEN {"secretexit"} ELSE {}))

\* TryRunTics
RunsTic(happens) ==
  LET g == IF game.advancedemo THEN D_DoAdvanceDemo(game) ELSE game
  IN /\ ~game.halted /\ queue # <<>> /\ happens \in Happenings(g)
     /\ game' = G_Ticker(g, menu, Head(queue), happens)
     /\ queue' = Tail(queue)
     /\ levels' = IF happens = "nothing" THEN levels ELSE levels + 1
     /\ UNCHANGED <<mode, menu, keys>>

FlowNext ==
  \/ \E key \in Keys : KeyGoesDown(key)
  \/ \E fire \in BOOLEAN : Builds(fire)
  \/ \E happens \in {"nothing", "dies", "exit", "secretexit"} : RunsTic(happens)

\* The loop goes on; nothing need happen in the level and no key need be pressed.
\* (weak fairness of both steps, with their guards written out)
FlowFairness ==
  /\ []<>(game.halted \/ Len(queue) = MAXQUEUE) \/ []<><<Builds(FALSE)>>_flow_vars
  /\ []<>(game.halted \/ queue = <<>>) \/ []<><<RunsTic("nothing")>>_flow_vars
FlowSpec == FlowInit /\ [][FlowNext]_flow_vars /\ FlowFairness

(* ----------------------------------------------------------------------- *)
(* Properties                                                               *)
(* ----------------------------------------------------------------------- *)

\* Nightmare's demons are fast and those of the other skills are not, whatever
\* games follow one another; loading a game of the other kind is what the code
\* gets wrong, so such runs are left out.
PaceIsRight == game.mixed \/ game.halted \/ game.pace = IF game.skill = "nightmare" THEN 1 ELSE 0

\* While a save's name is typed its menu is on the screen, and a prompt that
\* waits for an answer is seen.
TypingIsSeen ==
  /\ menu.typing => menu.active /\ menu.menu = "Save" /\ menu.message = "none"
  /\ menu.message # "none" => menu.active

\* No demo or page takes a game away from who plays it: only the end that was
\* asked for, which starts the pages at the first.
GameIsNotInterrupted == [][game.usergame /\ ~game'.usergame => game.sequence = -1]_flow_vars

\* Without a player the pages and demos follow one another for ever.
AttractGoesOn == []<>(game.state = "demoscreen" \/ game.usergame \/ game.halted)

\* Once a button is pressed the figures make room for what comes after them.
FiguresMakeRoom == [](game.state = "intermission" /\ game.wait < TALLY => <>(game.state # "intermission" \/ game.halted))

\* Whoever leaves the last level sees the finale, unless something else was asked
\* for meanwhile.
EndIsShown ==
  mode = "shareware" /\ game.action = "completed" /\ game.map = 8 /\ keys = MAXKEYS
    ~> game.state = "finale" \/ game.halted

\* What outlives a menu or a game fits the one that is on: the pace of the
\* monsters, the name being typed and the prompt.
LeftoversFit == PaceIsRight /\ TypingIsSeen

\* The game goes on from each of its scenes to the next, and nothing breaks into
\* one that is played.
CourseGoesOn == GameIsNotInterrupted /\ AttractGoesOn /\ FiguresMakeRoom /\ EndIsShown
=============================================================================
