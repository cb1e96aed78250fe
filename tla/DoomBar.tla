-------------------------------- MODULE DoomBar --------------------------------
(* The status bar on the screen (st_lib.c, st_stuff.c) under D_Display of     *)
(* riscv/d_main.c. The bar is drawn whole now and then; otherwise its pictures *)
(* are drawn only when they change, over what is there.                       *)
EXTENDS Integers

CONSTANTS
  MAXHAPPENINGS \* how much happens in the game

VARIABLES
  game,        \* the player and what is to be shown
  st,          \* st_stuff.c's and the widgets' own memory
  display,     \* D_Display's, and the menu's inhelpscreens
  screen,      \* what the lower part of the screen shows
  happenings

bar_vars == <<game, st, display, screen, happenings>>

None == -1
Nothing == [key |-> None, arms |-> None, armsbg |-> 0, number |-> None]

(* ----------------------------------------------------------------------- *)
(* The widgets                                                              *)
(* ----------------------------------------------------------------------- *)

\* A widget is what it drew last, and what is on the screen in its place.
STlib_updateMultIcon(w, inum, on, refresh) ==
  IF on /\ (w.old # inum \/ refresh) /\ inum # None THEN [old |-> inum, shown |-> inum] ELSE w
STlib_updateBinIcon(w, val, on, refresh) ==
  IF on /\ (w.old # val \/ refresh) THEN [old |-> val, shown |-> val] ELSE w
STlib_updateNum(shown, num, on) == IF on THEN num ELSE shown

Widget(s, sc, name) == [old |-> s.old[name], shown |-> sc.pictures[name]]

ST_drawWidgets(s, sc, refresh) ==
  LET on == s.statusbaron
      key == STlib_updateMultIcon(Widget(s, sc, "key"), s.keybox, on, refresh)
      arms == STlib_updateMultIcon(Widget(s, sc, "arms"), game.owned, on /\ ~game.deathmatch, refresh)
      armsbg == STlib_updateBinIcon(Widget(s, sc, "armsbg"), s.notdeathmatch, on, refresh)
  IN [st |-> [s EXCEPT !.old = [key |-> key.old, arms |-> arms.old, armsbg |-> armsbg.old]],
      screen |-> [sc EXCEPT !.pictures = [key |-> key.shown, arms |-> arms.shown, armsbg |-> armsbg.shown,
                                          number |-> STlib_updateNum(sc.pictures.number, game.health, on)]]]

\* The bar's background hides what was there.
ST_refreshBackground(s, sc) == IF s.statusbaron THEN [sc EXCEPT !.base = "bar", !.pictures = Nothing] ELSE sc

ST_doRefresh(s, sc) == ST_drawWidgets([s EXCEPT !.firsttime = FALSE], ST_refreshBackground(s, sc), TRUE)

ST_Drawer(s, sc, fullscreen, refresh) ==
  LET v == [s EXCEPT !.statusbaron = ~fullscreen \/ game.automapactive, !.firsttime = @ \/ refresh]
  IN IF v.firsttime THEN ST_doRefresh(v, sc) ELSE ST_drawWidgets(v, sc, FALSE)

\* A skull hides the card of its colour.
ST_updateWidgets(s, g) ==
  [s EXCEPT !.keybox = IF "skull" \in g.cards THEN 3 ELSE IF "card" \in g.cards THEN 0 ELSE None,
            !.notdeathmatch = IF g.deathmatch THEN 0 ELSE 1]

ST_Start(s) ==
  [s EXCEPT !.firsttime = TRUE, !.statusbaron = TRUE, !.keybox = None, !.old = [key |-> None, arms |-> None, armsbg |-> 0]]

(* ----------------------------------------------------------------------- *)
(* A frame                                                                  *)
(* ----------------------------------------------------------------------- *)

InLevel == game.state = "level" /\ game.gametic

\* Another picture than the level, or the view when it takes the whole screen.
Covers(sc, base) == [sc EXCEPT !.base = base, !.pictures = Nothing]

RedrawsAfterWipe(d, wipe) == wipe \/ (~game.full /\ d.fullscreen) \* mutant
RedrawsBar(d, wipe) ==
  wipe \/ (~game.full /\ d.fullscreen) \/ (d.inhelpscreensstate /\ ~d.inhelpscreens)

\* The level's lower part, the view over it, then the menu over all.
D_Display ==
  LET wipe == game.state # display.wipegamestate
      bar == IF InLevel THEN ST_Drawer(st, screen, game.full, RedrawsBar(display, wipe))
             ELSE [st |-> st, screen |-> IF game.state = "level" THEN screen ELSE Covers(screen, "page")]
      view == IF InLevel /\ game.full /\ ~game.automapactive THEN Covers(bar.screen, "view") ELSE bar.screen
  IN /\ st' = bar.st
     /\ screen' = [IF game.help THEN Covers(view, "help") ELSE view EXCEPT !.fresh = TRUE]
     /\ display' = [fullscreen |-> IF InLevel THEN game.full ELSE display.fullscreen,
                    inhelpscreensstate |-> display.inhelpscreens, inhelpscreens |-> game.help,
                    wipegamestate |-> game.state]
     /\ UNCHANGED <<game, happenings>>

(* ----------------------------------------------------------------------- *)
(* What happens between frames                                              *)
(* ----------------------------------------------------------------------- *)

Happens == happenings < MAXHAPPENINGS /\ happenings' = happenings + 1 /\ screen' = [screen EXCEPT !.fresh = FALSE]

\* A tic of the level: the player finds something, or is hurt.
BarTic ==
  /\ game.state = "level" /\ Happens
  /\ \E cards \in {game.cards, {"card"}, {"card", "skull"}}, health \in {0, 1}, owned \in {game.owned, 1} :
       game' = [game EXCEPT !.cards = cards, !.health = health, !.owned = owned, !.gametic = TRUE]
  /\ st' = ST_updateWidgets(st, game') /\ UNCHANGED display

Bare == [game EXCEPT !.cards = {}, !.health = 1, !.owned = 0, !.gametic = TRUE]

\* Reborn where the level goes on: P_SpawnPlayer starts the bar anew.
Reborn ==
  /\ game.state = "level" /\ Happens
  /\ game' = [Bare EXCEPT !.automapactive = FALSE]
  /\ st' = ST_updateWidgets(ST_Start(st), game') /\ UNCHANGED display

\* A level is loaded, which wipes even from another level; the keys are gone.
G_DoLoadLevel ==
  /\ Happens
  /\ \E bare \in BOOLEAN :
       game' = [IF bare THEN Bare ELSE [game EXCEPT !.cards = {}] EXCEPT !.state = "level", !.automapactive = FALSE, !.gametic = TRUE]
  /\ display' = [display EXCEPT !.wipegamestate = IF @ = "level" THEN "none" ELSE @]
  /\ st' = ST_updateWidgets(ST_Start(st), game')

\* The intermission, the finale or the pages: the map is stopped.
Leave ==
  /\ game.state = "level" /\ Happens
  /\ game' = [game EXCEPT !.state = "other", !.automapactive = FALSE] /\ UNCHANGED <<st, display>>

\* The menu's size takes effect in R_ExecuteSetViewSize.
M_SizeDisplay == Happens /\ game' = [game EXCEPT !.full = ~@] /\ UNCHANGED <<st, display>>
Help == Happens /\ game' = [game EXCEPT !.help = ~@] /\ UNCHANGED <<st, display>>

\* AM_Start tells the bar that the map is there.
AM_Start ==
  /\ game.state = "level" /\ ~game.automapactive /\ Happens
  /\ game' = [game EXCEPT !.automapactive = TRUE]
  /\ st' = [st EXCEPT !.firsttime = TRUE] /\ UNCHANGED display
AM_Stop ==
  /\ game.automapactive /\ Happens
  /\ game' = [game EXCEPT !.automapactive = FALSE] /\ UNCHANGED <<st, display>>

\* The keys a cheat gives are in no box before the next tic.
Cheat == game.state = "level" /\ Happens /\ game' = [game EXCEPT !.cards = {"card", "skull"}, !.owned = 1] /\ UNCHANGED <<st, display>>

BarInit ==
  /\ \E level, deathmatch, full \in BOOLEAN :
       game = [state |-> IF level THEN "level" ELSE "other", gametic |-> FALSE, deathmatch |-> deathmatch, cards |-> {},
               owned |-> 0, health |-> 1, full |-> full, automapactive |-> FALSE, help |-> FALSE]
  /\ st = ST_Start([firsttime |-> FALSE, statusbaron |-> FALSE, keybox |-> None, notdeathmatch |-> 0, old |-> 0])
  /\ display = [fullscreen |-> FALSE, inhelpscreensstate |-> FALSE, inhelpscreens |-> FALSE, wipegamestate |-> "other"]
  /\ screen = [base |-> "page", pictures |-> Nothing, fresh |-> FALSE]
  /\ happenings = 0

BarNext ==
  \/ D_Display \/ BarTic \/ Reborn \/ G_DoLoadLevel \/ Leave \/ M_SizeDisplay \/ Help \/ AM_Start \/ AM_Stop \/ Cheat

BarSpec == BarInit /\ [][BarNext]_bar_vars

(* ----------------------------------------------------------------------- *)
(* Properties                                                               *)
(* ----------------------------------------------------------------------- *)

\* Whatever has been over the bar since, after a frame it is whole and shows what
\* the player has. The help's picture stays for one frame after the help is left.
BarIsTrue ==
  (screen.fresh /\ InLevel /\ (game.automapactive \/ ~game.full) /\ ~game.help /\ ~display.inhelpscreensstate)
    => LET p == screen.pictures IN
       /\ screen.base = "bar" /\ p.key = st.keybox /\ p.number = game.health /\ p.armsbg = st.notdeathmatch
       /\ p.arms = IF game.deathmatch THEN None ELSE game.owned

=============================================================================
