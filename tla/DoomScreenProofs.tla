-------------------------- MODULE DoomScreenProofs --------------------------
(* The theorems about the status bar (DoomBar) and about the zone that what   *)
(* it shows is kept in (DoomZone): the bar is true after every frame, however *)
(* much happens between frames; the zone and the pointers into it agree after *)
(* every step, whatever is asked of it and in whatever order.                 *)
EXTENDS DoomBar, DoomZone, WellFoundedInduction, SequenceTheorems, TLAPS

(* ----------------------------------------------------------------------- *)
(* The status bar: the invariant                                            *)
(* ----------------------------------------------------------------------- *)

\* A record with these fields, whatever is in them.
IsRecord(r, fields) == r = [f \in fields |-> r[f]]

Cards == SUBSET {"card", "skull"}

Types ==
  /\ IsRecord(game, {"state", "gametic", "deathmatch", "cards", "owned", "health", "full", "automapactive", "help"})
  /\ {game.gametic, game.deathmatch, game.full, game.automapactive, game.help} \subseteq BOOLEAN
  /\ game.cards \in Cards /\ game.owned \in Nat /\ game.health \in {0, 1}
  /\ IsRecord(st, {"firsttime", "statusbaron", "keybox", "notdeathmatch", "old"})
  /\ {st.firsttime, st.statusbaron} \subseteq BOOLEAN
  /\ IsRecord(st.old, {"key", "arms", "armsbg"})
  /\ IsRecord(display, {"fullscreen", "inhelpscreensstate", "inhelpscreens", "wipegamestate"})
  /\ {display.fullscreen, display.inhelpscreensstate, display.inhelpscreens} \subseteq BOOLEAN
  /\ IsRecord(screen, {"base", "pictures", "fresh"}) /\ screen.fresh \in BOOLEAN
  /\ IsRecord(screen.pictures, {"key", "arms", "armsbg", "number"})

\* A key is drawn only of who has one, and only a new start of the bar forgets
\* the last one drawn.
KeysAreHeld ==
  /\ game.cards = {} => st.keybox = None
  /\ st.keybox = None => st.old.key = None

\* Before the first tic of a level the bar is still to be drawn whole.
NothingBeforeTic == game.state = "level" /\ ~game.gametic => st.firsttime

\* The screen shows what the widgets remember.
Faithful ==
  LET p == screen.pictures
  IN /\ screen.base = "bar" /\ p.key = st.old.key /\ p.armsbg = st.old.armsbg
     /\ p.arms = IF game.deathmatch THEN None ELSE st.old.arms

\* Where the next frame draws changes only, it draws them over the bar.
ChangesSuffice ==
  /\ ~st.firsttime /\ display.wipegamestate = "level"
  /\ ~display.inhelpscreens /\ ~display.inhelpscreensstate
  /\ ~display.fullscreen \/ game.automapactive
  => Faithful

BarInv == Types /\ KeysAreHeld /\ NothingBeforeTic /\ ChangesSuffice /\ BarIsTrue

(* ----------------------------------------------------------------------- *)
(* Drawing                                                                  *)
(* ----------------------------------------------------------------------- *)

Drawn(s, sc) ==
  /\ IsRecord(s, {"firsttime", "statusbaron", "keybox", "notdeathmatch", "old"})
  /\ s.statusbaron \in BOOLEAN /\ IsRecord(s.old, {"key", "arms", "armsbg"})
  /\ IsRecord(sc, {"base", "pictures", "fresh"})
  /\ IsRecord(sc.pictures, {"key", "arms", "armsbg", "number"})

\* What the widgets show after they have been drawn.
Shows(s, sc) ==
  LET p == sc.pictures
  IN /\ sc.base = "bar" /\ p.number = game.health
     /\ p.key = s.keybox /\ p.armsbg = s.notdeathmatch
     /\ p.arms = IF game.deathmatch THEN None ELSE game.owned
     /\ p.key = s.old.key /\ p.armsbg = s.old.armsbg
     /\ ~game.deathmatch => s.old.arms = game.owned

\* Drawing keeps everything but the pictures and what the widgets remember.
BarKeeps(r, s, sc) ==
  /\ Drawn(r.st, r.screen) /\ r.screen.fresh = sc.fresh
  /\ r.st.firsttime = s.firsttime /\ r.st.keybox = s.keybox
  /\ s.keybox = None => r.st.old.key = s.old.key

LEMMA WidgetsKeep ==
  ASSUME NEW s, NEW sc, Drawn(s, sc), NEW refresh \in BOOLEAN
  PROVE  BarKeeps(ST_drawWidgets(s, sc, refresh), s, sc)
  BY DEF ST_drawWidgets, STlib_updateMultIcon, STlib_updateBinIcon, STlib_updateNum, Widget, Drawn, IsRecord, BarKeeps

\* Drawn over the empty bar, or changes only over what they remember, they show
\* what there is.
LEMMA WidgetsShow ==
  ASSUME NEW s, NEW sc, Drawn(s, sc), NEW refresh \in BOOLEAN, s.statusbaron, sc.base = "bar",
         game.deathmatch \in BOOLEAN, game.owned \in Nat,
         s.keybox = None => s.old.key = None,
         refresh => sc.pictures = Nothing,
         ~refresh => /\ sc.pictures.key = s.old.key /\ sc.pictures.armsbg = s.old.armsbg
                     /\ sc.pictures.arms = IF game.deathmatch THEN None ELSE s.old.arms
  PROVE  LET r == ST_drawWidgets(s, sc, refresh) IN Shows(r.st, r.screen)
  BY DEF ST_drawWidgets, STlib_updateMultIcon, STlib_updateBinIcon, STlib_updateNum, Widget, Drawn, IsRecord,
         Shows, Nothing, None

\* The bar is drawn whole when it is asked for, and is true after it where its
\* changes were drawn over a screen that showed what the widgets remember.
LEMMA DrawerDraws ==
  ASSUME Types, KeysAreHeld, NEW refresh \in BOOLEAN
  PROVE  LET r == ST_Drawer(st, screen, game.full, refresh)
         IN /\ Drawn(r.st, r.screen) /\ r.screen.fresh = screen.fresh
            /\ r.st.firsttime = FALSE /\ r.st.keybox = st.keybox
            /\ st.keybox = None => r.st.old.key = None
            /\ (~game.full \/ game.automapactive) /\ (st.firsttime \/ refresh \/ Faithful)
                 => Shows(r.st, r.screen)
<1> DEFINE on == ~game.full \/ game.automapactive
           v == [st EXCEPT !.statusbaron = on, !.firsttime = @ \/ refresh]
           r == ST_Drawer(st, screen, game.full, refresh)
<1>1. /\ Drawn(v, screen) /\ v.statusbaron = on /\ v.firsttime = (st.firsttime \/ refresh)
      /\ v.firsttime \in BOOLEAN
      /\ v.keybox = st.keybox /\ v.old = st.old /\ v.notdeathmatch = st.notdeathmatch
  BY DEF Types, Drawn, IsRecord
<1>2. r = IF v.firsttime THEN ST_doRefresh(v, screen) ELSE ST_drawWidgets(v, screen, FALSE)
  BY DEF ST_Drawer
<1> HIDE DEF v, r
<1>3. CASE v.firsttime
  <2> DEFINE a == [v EXCEPT !.firsttime = FALSE]
             sc == ST_refreshBackground(v, screen)
  <2>1. /\ Drawn(a, sc) /\ a.firsttime = FALSE /\ a.statusbaron = on /\ a.keybox = st.keybox /\ a.old = st.old
        /\ sc.fresh = screen.fresh
        /\ on => sc.base = "bar" /\ sc.pictures = Nothing
    BY <1>1 DEF Drawn, IsRecord, ST_refreshBackground, Nothing
  <2>2. r = ST_drawWidgets(a, sc, TRUE)
    BY <1>2, <1>3 DEF ST_doRefresh
  <2> HIDE DEF a, sc
  <2>3. /\ Drawn(r.st, r.screen) /\ r.screen.fresh = screen.fresh
        /\ r.st.firsttime = FALSE /\ r.st.keybox = st.keybox
        /\ st.keybox = None => r.st.old.key = st.old.key
    <3>1. BarKeeps(r, a, sc)
      BY <2>1, <2>2, WidgetsKeep
    <3> QED BY <2>1, <3>1 DEF BarKeeps
  <2>4. ASSUME on PROVE Shows(r.st, r.screen)
    <3>1. /\ a.statusbaron /\ sc.base = "bar" /\ sc.pictures = Nothing
          /\ a.keybox = None => a.old.key = None
          /\ game.deathmatch \in BOOLEAN /\ game.owned \in Nat
      BY <2>1, <2>4 DEF KeysAreHeld, Types
    <3> QED BY <2>1, <2>2, <3>1, WidgetsShow
  <2> QED BY <2>3, <2>4 DEF KeysAreHeld, r
<1>4. CASE ~v.firsttime
  <2>1. r = ST_drawWidgets(v, screen, FALSE) /\ v.firsttime = FALSE
    BY <1>1, <1>2, <1>4
  <2>2. /\ Drawn(r.st, r.screen) /\ r.screen.fresh = screen.fresh
        /\ r.st.firsttime = FALSE /\ r.st.keybox = st.keybox
        /\ st.keybox = None => r.st.old.key = st.old.key
    <3>1. BarKeeps(r, v, screen)
      BY <1>1, <2>1, WidgetsKeep
    <3> QED BY <1>1, <2>1, <3>1 DEF BarKeeps
  <2>3. ASSUME on, Faithful PROVE Shows(r.st, r.screen)
    <3>1. /\ v.statusbaron /\ screen.base = "bar"
          /\ v.keybox = None => v.old.key = None
          /\ game.deathmatch \in BOOLEAN /\ game.owned \in Nat
          /\ screen.pictures.key = v.old.key /\ screen.pictures.armsbg = v.old.armsbg
          /\ screen.pictures.arms = IF game.deathmatch THEN None ELSE v.old.arms
      BY <1>1, <2>3 DEF KeysAreHeld, Types, Faithful
    <3> QED BY <1>1, <2>1, <3>1, WidgetsShow
  <2>4. ~(st.firsttime \/ refresh)
    BY <1>1, <1>4
  <2> QED BY <2>2, <2>3, <2>4 DEF KeysAreHeld, r
<1> QED BY <1>3, <1>4, <1>1

\* A frame leaves a bar that is true, and that the next may draw changes over.
LEMMA FrameKeeps == BarInv /\ D_Display => BarInv'
<1> SUFFICES ASSUME BarInv, D_Display PROVE BarInv'
  OBVIOUS
<1> USE DEF BarInv
<1> DEFINE wipe == game.state # display.wipegamestate
           refresh == RedrawsBar(display, wipe)
<1>1. /\ game' = game
      /\ display' = [fullscreen |-> IF InLevel THEN game.full ELSE display.fullscreen,
                     inhelpscreensstate |-> display.inhelpscreens, inhelpscreens |-> game.help,
                     wipegamestate |-> game.state]
  BY DEF D_Display
<1>2. CASE InLevel
  <2> DEFINE bar == ST_Drawer(st, screen, game.full, refresh)
  <2>1. PICK b, sc : /\ b = bar.st /\ sc = bar.screen
                     /\ st' = b
                     /\ screen' = [IF game.help THEN Covers(IF game.full /\ ~game.automapactive THEN Covers(sc, "view") ELSE sc, "help")
                                   ELSE IF game.full /\ ~game.automapactive THEN Covers(sc, "view") ELSE sc EXCEPT !.fresh = TRUE]
    BY <1>2 DEF D_Display
  <2>2. refresh \in BOOLEAN
    BY DEF RedrawsBar, Types
  <2> HIDE DEF refresh
  <2>3. /\ Drawn(b, sc) /\ b.firsttime = FALSE /\ b.keybox = st.keybox
        /\ st.keybox = None => b.old.key = None
        /\ (~game.full \/ game.automapactive) /\ (st.firsttime \/ refresh \/ Faithful) => Shows(b, sc)
    BY <2>1, <2>2, DrawerDraws
  <2> HIDE DEF bar
  <2>4. Types'
    BY <1>1, <2>1, <2>3 DEF Types, Drawn, IsRecord, Covers, Nothing
  <2>5. KeysAreHeld' /\ NothingBeforeTic'
    BY <1>1, <1>2, <2>1, <2>3 DEF KeysAreHeld, NothingBeforeTic, InLevel
  <2>6. ASSUME ~game.help, ~display.inhelpscreens, ~game.full \/ game.automapactive
        PROVE  Shows(b, sc)
    <3>1. st.firsttime \/ refresh \/ Faithful
      BY <2>6, <1>2 DEF ChangesSuffice, refresh, RedrawsBar, InLevel, Types
    <3> QED BY <2>3, <2>6, <3>1
  <2>7. ASSUME ~game.help, ~game.full \/ game.automapactive
        PROVE  screen'.base = sc.base /\ screen'.pictures = sc.pictures
    BY <2>1, <2>3, <2>7 DEF Drawn, IsRecord
  <2>8. ChangesSuffice' /\ BarIsTrue'
    BY <1>1, <1>2, <2>1, <2>6, <2>7 DEF ChangesSuffice, Faithful, BarIsTrue, Shows, InLevel
  <2> QED BY <2>4, <2>5, <2>8
<1>3. CASE ~InLevel
  <2>1. PICK sc : /\ sc = (IF game.state = "level" THEN screen ELSE Covers(screen, "page"))
                  /\ st' = st
                  /\ screen' = [IF game.help THEN Covers(sc, "help") ELSE sc EXCEPT !.fresh = TRUE]
    BY <1>3 DEF D_Display
  <2>2. Types'
    BY <1>1, <2>1 DEF Types, IsRecord, Covers, Nothing
  <2>3. KeysAreHeld' /\ NothingBeforeTic'
    BY <1>1, <2>1 DEF KeysAreHeld, NothingBeforeTic
  <2>4. ChangesSuffice' /\ BarIsTrue'
    BY <1>1, <1>3, <2>1 DEF ChangesSuffice, BarIsTrue, NothingBeforeTic, InLevel, Types
  <2> QED BY <2>2, <2>3, <2>4
<1> QED BY <1>2, <1>3

(* ----------------------------------------------------------------------- *)
(* What happens between frames                                              *)
(* ----------------------------------------------------------------------- *)

\* Nothing that happens leaves the screen fresh or draws on it.
LEMMA HappeningsDrawNothing ==
  ASSUME Types, Happens
  PROVE  /\ IsRecord(screen', {"base", "pictures", "fresh"}) /\ screen'.fresh = FALSE
         /\ screen'.base = screen.base /\ screen'.pictures = screen.pictures
  BY DEF Types, Happens, IsRecord

\* Between frames the invariant asks only for the keys, and that what may have
\* covered the bar has it drawn whole.
LEMMA HappeningKeeps ==
  ASSUME BarInv, Happens, Types', KeysAreHeld', NothingBeforeTic',
         \/ st'.firsttime
         \/ /\ st'.firsttime = st.firsttime /\ st'.old = st.old /\ display' = display
            /\ game'.deathmatch = game.deathmatch
            /\ game'.automapactive => game.automapactive
  PROVE  BarInv'
<1>1. /\ screen'.fresh = FALSE /\ screen'.base = screen.base /\ screen'.pictures = screen.pictures
  BY HappeningsDrawNothing DEF BarInv
<1>2. ChangesSuffice'
  BY <1>1 DEF BarInv, ChangesSuffice, Faithful
<1>3. BarIsTrue'
  BY <1>1 DEF BarIsTrue
<1> QED BY <1>2, <1>3 DEF BarInv

\* A tic gives keys and takes none.
LEMMA TicKeeps == BarInv /\ BarTic => BarInv'
<1> SUFFICES ASSUME BarInv, BarTic PROVE BarInv'
  OBVIOUS
<1>1. PICK cards \in {game.cards, {"card"}, {"card", "skull"}}, health \in {0, 1}, owned \in {game.owned, 1} :
        game' = [game EXCEPT !.cards = cards, !.health = health, !.owned = owned, !.gametic = TRUE]
  BY DEF BarTic
<1>2. /\ st' = ST_updateWidgets(st, game') /\ display' = display /\ Happens
      /\ IsRecord(screen', {"base", "pictures", "fresh"}) /\ screen'.fresh = FALSE
      /\ screen'.base = screen.base /\ screen'.pictures = screen.pictures
  BY HappeningsDrawNothing DEF BarTic, BarInv
<1>3. Types'
  <2>1. /\ IsRecord(st', {"firsttime", "statusbaron", "keybox", "notdeathmatch", "old"})
        /\ {st'.firsttime, st'.statusbaron} \subseteq BOOLEAN
        /\ IsRecord(st'.old, {"key", "arms", "armsbg"})
    BY <1>2 DEF BarInv, Types, IsRecord, ST_updateWidgets
  <2>2. /\ IsRecord(game', {"state", "gametic", "deathmatch", "cards", "owned", "health", "full", "automapactive", "help"})
        /\ {game'.gametic, game'.deathmatch, game'.full, game'.automapactive, game'.help} \subseteq BOOLEAN
        /\ game'.cards \in Cards /\ game'.owned \in Nat /\ game'.health \in {0, 1}
    <3>1. cards \in Cards /\ owned \in Nat
      BY <1>1 DEF BarInv, Types, Cards
    <3> QED BY ZenonT(40), <1>1, <3>1 DEF BarInv, Types, IsRecord
  <2> QED BY <1>2, <2>1, <2>2 DEF BarInv, Types
<1>4. /\ game'.cards = cards /\ game'.gametic /\ game'.deathmatch = game.deathmatch
      /\ game'.automapactive = game.automapactive
      /\ st'.firsttime = st.firsttime /\ st'.old = st.old
      /\ st'.keybox = IF "skull" \in cards THEN 3 ELSE IF "card" \in cards THEN 0 ELSE None
  BY <1>1, <1>2 DEF BarInv, Types, IsRecord, ST_updateWidgets
<1>5. KeysAreHeld'
  BY <1>1, <1>4 DEF BarInv, KeysAreHeld, None, Types, Cards
<1>6. NothingBeforeTic'
  BY <1>4 DEF NothingBeforeTic
<1> QED BY <1>2, <1>3, <1>4, <1>5, <1>6, HappeningKeeps

\* A new start of the bar draws it whole, for a player without keys.
LEMMA StartKeeps ==
  ASSUME BarInv, Happens, NEW owned \in Nat, NEW health \in {0, 1}, NEW state, NEW wipe,
         game' = [game EXCEPT !.cards = {}, !.health = health, !.owned = owned, !.gametic = TRUE,
                              !.state = state, !.automapactive = FALSE],
         st' = ST_updateWidgets(ST_Start(st), game'),
         display' = [display EXCEPT !.wipegamestate = wipe]
  PROVE  BarInv'
<1>1. /\ IsRecord(screen', {"base", "pictures", "fresh"}) /\ screen'.fresh = FALSE
      /\ screen'.base = screen.base /\ screen'.pictures = screen.pictures
  BY HappeningsDrawNothing DEF BarInv
<1>2. Types'
  <2>1. /\ IsRecord(st', {"firsttime", "statusbaron", "keybox", "notdeathmatch", "old"})
        /\ {st'.firsttime, st'.statusbaron} \subseteq BOOLEAN
        /\ IsRecord(st'.old, {"key", "arms", "armsbg"})
    BY DEF BarInv, Types, IsRecord, ST_updateWidgets, ST_Start
  <2>2. /\ IsRecord(game', {"state", "gametic", "deathmatch", "cards", "owned", "health", "full", "automapactive", "help"})
        /\ {game'.gametic, game'.deathmatch, game'.full, game'.automapactive, game'.help} \subseteq BOOLEAN
        /\ game'.cards \in Cards /\ game'.owned \in Nat /\ game'.health \in {0, 1}
    BY ZenonT(40) DEF BarInv, Types, IsRecord, Cards
  <2>3. /\ IsRecord(display', {"fullscreen", "inhelpscreensstate", "inhelpscreens", "wipegamestate"})
        /\ {display'.fullscreen, display'.inhelpscreensstate, display'.inhelpscreens} \subseteq BOOLEAN
    BY DEF BarInv, Types, IsRecord
  <2> QED BY <1>1, <2>1, <2>2, <2>3 DEF BarInv, Types
<1>3. game'.cards = {} /\ st'.firsttime /\ st'.keybox = None /\ st'.old.key = None
  BY DEF BarInv, Types, IsRecord, ST_updateWidgets, ST_Start
<1>4. KeysAreHeld' /\ NothingBeforeTic'
  BY <1>3 DEF KeysAreHeld, NothingBeforeTic
<1> QED BY <1>2, <1>3, <1>4, HappeningKeeps

LEMMA RebornKeeps == BarInv /\ Reborn => BarInv'
<1> SUFFICES ASSUME BarInv, Reborn PROVE BarInv'
  OBVIOUS
<1>1. game' = [game EXCEPT !.cards = {}, !.health = 1, !.owned = 0, !.gametic = TRUE,
                           !.state = game.state, !.automapactive = FALSE]
  BY DEF Reborn, Bare, BarInv, Types, IsRecord
<1>2. display' = [display EXCEPT !.wipegamestate = display.wipegamestate]
  BY DEF Reborn, BarInv, Types, IsRecord
<1> QED BY ZenonT(40), <1>1, <1>2, StartKeeps DEF Reborn

LEMMA LoadKeeps == BarInv /\ G_DoLoadLevel => BarInv'
<1> SUFFICES ASSUME BarInv, G_DoLoadLevel PROVE BarInv'
  OBVIOUS
<1>1. PICK owned \in Nat, health \in {0, 1} :
        game' = [game EXCEPT !.cards = {}, !.health = health, !.owned = owned, !.gametic = TRUE,
                             !.state = "level", !.automapactive = FALSE]
  <2>1. PICK bare \in BOOLEAN :
          game' = [IF bare THEN Bare ELSE [game EXCEPT !.cards = {}] EXCEPT !.state = "level", !.automapactive = FALSE, !.gametic = TRUE]
    BY DEF G_DoLoadLevel
  <2>2. CASE bare
    <3>1. game' = [game EXCEPT !.cards = {}, !.health = 1, !.owned = 0, !.gametic = TRUE,
                               !.state = "level", !.automapactive = FALSE]
      BY <2>1, <2>2 DEF Bare, BarInv, Types, IsRecord
    <3> QED BY <3>1
  <2>3. CASE ~bare
    <3>1. game' = [game EXCEPT !.cards = {}, !.health = game.health, !.owned = game.owned, !.gametic = TRUE,
                               !.state = "level", !.automapactive = FALSE]
      BY <2>1, <2>3 DEF BarInv, Types, IsRecord
    <3> QED BY <3>1 DEF BarInv, Types
  <2> QED BY <2>2, <2>3
<1>2. PICK wipe : display' = [display EXCEPT !.wipegamestate = wipe]
  BY DEF G_DoLoadLevel
<1> QED BY <1>1, <1>2, StartKeeps DEF G_DoLoadLevel

\* The rest turns one switch of the game, takes no key and opens no map that the
\* bar is not told of.
LEMMA SwitchKeeps ==
  ASSUME BarInv, Happens, display' = display,
         Types', game'.deathmatch = game.deathmatch, game'.gametic = game.gametic,
         game'.state = "level" => game.state = "level",
         game'.cards = game.cards \/ game'.cards # {},
         st'.firsttime = st.firsttime \/ st'.firsttime,
         st'.old = st.old, st'.keybox = st.keybox,
         st'.firsttime \/ (game'.automapactive => game.automapactive)
  PROVE  BarInv'
<1>1. KeysAreHeld' /\ NothingBeforeTic'
  BY DEF BarInv, KeysAreHeld, NothingBeforeTic
<1> QED BY <1>1, HappeningKeeps

LEMMA SwitchesKeep == BarInv /\ (Leave \/ M_SizeDisplay \/ Help \/ AM_Start \/ AM_Stop \/ Cheat) => BarInv'
<1> SUFFICES ASSUME BarInv, Leave \/ M_SizeDisplay \/ Help \/ AM_Start \/ AM_Stop \/ Cheat PROVE BarInv'
  OBVIOUS
<1>1. /\ Happens /\ display' = display
      /\ IsRecord(screen', {"base", "pictures", "fresh"}) /\ screen'.fresh = FALSE
      /\ screen'.base = screen.base /\ screen'.pictures = screen.pictures
  BY HappeningsDrawNothing DEF BarInv, Leave, M_SizeDisplay, Help, AM_Start, AM_Stop, Cheat
<1>2. CASE Leave
  BY <1>1, <1>2, SwitchKeeps DEF Leave, BarInv, Types, IsRecord
<1>3. CASE M_SizeDisplay
  BY <1>1, <1>3, SwitchKeeps DEF M_SizeDisplay, BarInv, Types, IsRecord
<1>4. CASE Help
  BY <1>1, <1>4, SwitchKeeps DEF Help, BarInv, Types, IsRecord
<1>5. CASE AM_Start
  BY <1>1, <1>5, SwitchKeeps DEF AM_Start, BarInv, Types, IsRecord
<1>6. CASE AM_Stop
  BY <1>1, <1>6, SwitchKeeps DEF AM_Stop, BarInv, Types, IsRecord
<1>7. CASE Cheat
  BY <1>1, <1>7, SwitchKeeps DEF Cheat, BarInv, Types, IsRecord, Cards
<1> QED BY <1>2, <1>3, <1>4, <1>5, <1>6, <1>7

(* ----------------------------------------------------------------------- *)
(* The theorem                                                              *)
(* ----------------------------------------------------------------------- *)

LEMMA Starts == BarInit => BarInv
<1> SUFFICES ASSUME BarInit PROVE BarInv
  OBVIOUS
<1>1. /\ screen = [base |-> "page", pictures |-> Nothing, fresh |-> FALSE]
      /\ display = [fullscreen |-> FALSE, inhelpscreensstate |-> FALSE, inhelpscreens |-> FALSE, wipegamestate |-> "other"]
      /\ st = ST_Start([firsttime |-> FALSE, statusbaron |-> FALSE, keybox |-> None, notdeathmatch |-> 0, old |-> 0])
  BY DEF BarInit
<1>2. PICK level \in BOOLEAN, deathmatch \in BOOLEAN, full \in BOOLEAN :
        game = [state |-> IF level THEN "level" ELSE "other", gametic |-> FALSE, deathmatch |-> deathmatch, cards |-> {},
                owned |-> 0, health |-> 1, full |-> full, automapactive |-> FALSE, help |-> FALSE]
  BY DEF BarInit
<1>3. /\ IsRecord(st, {"firsttime", "statusbaron", "keybox", "notdeathmatch", "old"})
      /\ IsRecord(st.old, {"key", "arms", "armsbg"})
      /\ st.firsttime = TRUE /\ st.statusbaron = TRUE /\ st.keybox = None /\ st.old.key = None
  BY <1>1 DEF ST_Start, IsRecord
<1>4. /\ IsRecord(game, {"state", "gametic", "deathmatch", "cards", "owned", "health", "full", "automapactive", "help"})
      /\ {game.gametic, game.deathmatch, game.full, game.automapactive, game.help} \subseteq BOOLEAN
      /\ game.cards = {} /\ game.owned = 0 /\ game.health = 1
  BY <1>2 DEF IsRecord
<1>5. Types
  <2>1. /\ IsRecord(screen, {"base", "pictures", "fresh"}) /\ screen.fresh \in BOOLEAN
        /\ IsRecord(screen.pictures, {"key", "arms", "armsbg", "number"})
    BY <1>1 DEF IsRecord, Nothing
  <2>2. /\ IsRecord(display, {"fullscreen", "inhelpscreensstate", "inhelpscreens", "wipegamestate"})
        /\ {display.fullscreen, display.inhelpscreensstate, display.inhelpscreens} \subseteq BOOLEAN
    BY <1>1 DEF IsRecord
  <2>3. game.cards \in Cards /\ game.owned \in Nat /\ game.health \in {0, 1}
    BY <1>4 DEF Cards
  <2>4. {st.firsttime, st.statusbaron} \subseteq BOOLEAN
    BY <1>3
  <2> QED BY Zenon, <1>3, <1>4, <2>1, <2>2, <2>3, <2>4 DEF Types
<1> QED BY <1>1, <1>3, <1>4, <1>5 DEF BarInv, KeysAreHeld, NothingBeforeTic, ChangesSuffice, BarIsTrue

\* After every frame the bar is whole and shows what the player has, whatever
\* covered it, however often and in whatever order.
THEOREM BarStaysTrue == BarSpec => []BarIsTrue
<1>1. BarInv /\ [BarNext]_bar_vars => BarInv'
  <2>1. BarInv /\ UNCHANGED bar_vars => BarInv'
    BY DEF bar_vars, BarInv, Types, KeysAreHeld, NothingBeforeTic, ChangesSuffice, Faithful, BarIsTrue, InLevel
  <2> QED BY <2>1, FrameKeeps, TicKeeps, RebornKeeps, LoadKeeps, SwitchesKeep DEF BarNext
<1>2. BarInv => BarIsTrue
  BY DEF BarInv
<1> QED BY Starts, <1>1, <1>2, PTL DEF BarSpec

(* ----------------------------------------------------------------------- *)
(* The zone: the invariant                                                  *)
(* ----------------------------------------------------------------------- *)

Block == [size : Nat, user : Int, tag : Nat, next : Int, prev : Int]
\* What a block takes of the zone; the head of the list takes one place.
Span(b, a) == IF a = ZONE THEN 1 ELSE b[a].size
After(e) == IF e = SIZE + 1 THEN ZONE ELSE e
\* The blocks lie one behind the other and are linked as they lie.
Laid(b) ==
  /\ b \in [DOMAIN b -> Block] /\ ZONE \in DOMAIN b /\ DOMAIN b \subseteq 0 .. SIZE
  /\ b[ZONE].user = ANYONE /\ b[ZONE].tag = PU_STATIC
  /\ \A a \in DOMAIN b : Span(b, a) >= 1 /\ a + Span(b, a) <= SIZE + 1 /\ b[a].next = After(a + Span(b, a))
  /\ \A a, x \in DOMAIN b : a < x => a + Span(b, a) <= x
  /\ \A a \in DOMAIN b : b[a].next \in DOMAIN b /\ b[a].prev \in DOMAIN b
  /\ \A a \in DOMAIN b : b[b[a].next].prev = a /\ b[b[a].prev].next = a
\* No two free blocks touch, but for one and the block behind it.
Apart(b, but) == \A a \in DOMAIN b \ but : ~(FreeBlock(b[a]) /\ FreeBlock(b[b[a].next]))

Whole(z) == Laid(z.blocks) /\ Apart(z.blocks, {}) /\ z.rover \in DOMAIN z.blocks

\* The pointers, but for some, are those of their blocks.
Led(z, o) ==
  z.ptr[o] # NULL =>
    /\ z.ptr[o] \in DOMAIN z.blocks \ {ZONE}
    /\ z.blocks[z.ptr[o]].user = User(o) /\ z.blocks[z.ptr[o]].size >= Bytes(o) + HEADER
    /\ o \in Keepers => z.blocks[z.ptr[o]].tag = PU_STATIC
Pointers(z, but) ==
  /\ \A o \in DOMAIN z.ptr \ but : Led(z, o)
  /\ \A o, p \in DOMAIN z.ptr \ but : z.ptr[o] = z.ptr[p] /\ z.ptr[o] # NULL => o = p
  /\ \A a \in DOMAIN z.blocks : z.blocks[a].user \notin {NOBODY, ANYONE} =>
       z.blocks[a].user \in DOMAIN z.ptr \ Keepers /\ z.ptr[z.blocks[a].user] = a

Shape(z) ==
  /\ z = Zone(z.blocks, z.rover, z.ptr)
  /\ z.ptr \in [DOMAIN z.ptr -> Int] /\ DOMAIN z.ptr \subseteq Keepers \cup Nat

\* How far behind `start' a block is.
Ahead(a, start) == IF a > start THEN a - start ELSE a - start + SIZE + 1
TooSmall(b, s, size) ==
  \A a \in DOMAIN b : FreeBlock(b[a]) /\ Ahead(a, s.start) < Ahead(s.base, s.start) => b[a].size < size
Looking(b, s, size) ==
  /\ {s.base, s.rover, s.start} \subseteq DOMAIN b
  /\ ~FreeBlock(b[s.start]) /\ ~FreeBlock(b[b[s.base].prev])
  /\ s.rover = s.base \/ (s.rover = b[s.base].next /\ FreeBlock(b[s.base]) /\ b[s.base].size < size)
  /\ TooSmall(b, s, size)

Kind(o) == IF o \in DOMAIN lumpinfo /\ lumpinfo[o].name = "reject" THEN PU_LEVEL ELSE PU_STATIC
Has(o) == ptr[o] # NULL /\ blocks[ptr[o]].tag = Kind(o)
CallType == [call : {"Z_Malloc", "Z_Free", "Z_FreeTags", "Z_ChangeTag", "W_CacheLumpNum"}, owner : Int, bytes : Nat, tag : Nat]
Needs(c, o) == c.owner = o /\ c.call \in {"Z_Free", "Z_ChangeTag"}
Brings(c, o) == c.owner = o /\ c.call \in {"Z_Malloc", "W_CacheLumpNum"} /\ c.tag = Kind(o)
Takes(c, o) ==
  \/ c.owner = o /\ c.call \in {"Z_Free", "Z_ChangeTag"}
  \/ c.owner = o /\ c.call \in {"Z_Malloc", "W_CacheLumpNum"} /\ c.tag # Kind(o)
  \/ c.call = "Z_FreeTags" /\ Kind(o) = PU_LEVEL
\* An owner has its block when the calls before the i-th are made.
Supplied(o, i) ==
  /\ o \in DOMAIN ptr
  /\ Has(o) \/ \E j \in 1 .. i - 1 : Brings(todo[j], o)
  /\ \A j \in 1 .. i - 1 : Takes(todo[j], o) => \E k \in j + 1 .. i - 1 : Brings(todo[k], o)

ACall(c) ==
  /\ c.bytes \in Nat /\ c.tag \in Nat
  /\ \/ /\ c.call = "Z_Malloc" /\ c.owner \in DOMAIN ptr \cup {ANYONE}
        /\ c.owner \in DOMAIN ptr => c.bytes = Bytes(c.owner)
        /\ c.owner \in Keepers => c.tag = PU_STATIC
        /\ c.tag >= PU_PURGELEVEL => c.owner >= COMPOSITE
     \/ c.call = "Z_Free" /\ c.owner \in DOMAIN ptr
     \/ c.call = "Z_ChangeTag" /\ c.owner \in DOMAIN ptr \ Keepers
     \/ c.call = "W_CacheLumpNum" /\ c.owner \in DOMAIN lumpinfo /\ c.owner \in DOMAIN ptr
     \/ c.call = "Z_FreeTags" /\ c.tag = PU_LEVEL
CallsAreRight ==
  /\ todo \in Seq(CallType)
  /\ \A i \in DOMAIN todo : ACall(todo[i])
  /\ \A i \in DOMAIN todo : todo[i].call = "Z_Malloc" /\ todo[i].owner >= COMPOSITE => i = 1 /\ ptr[todo[i].owner] = NULL
  /\ \A i \in DOMAIN todo : Needs(todo[i], todo[i].owner) => Supplied(todo[i].owner, i)
HeldBy == {W_CheckNumForName(name) : name \in Held} \cup (IF phase = "tally" THEN {LNAMES} ELSE {})
HeldIsSupplied == \A o \in HeldBy : Supplied(o, Len(todo) + 1)

Lump == [name : STRING, size : Nat]
LumpsAreThere ==
  /\ lumpinfo \in Seq(Lump) /\ files \in Seq(Seq(Lump))
  /\ phase \in {"adding", "starting", "level", "tally", "leaving"}
  /\ ptr \in [Keepers \cup {COMPOSITE} \cup (IF phase = "adding" THEN {} ELSE DOMAIN lumpinfo) -> Int]
  /\ phase # "adding" => lumpinfo # <<>>
  /\ IF lumpinfo = <<>> THEN files = Files
     ELSE \A name \in Names \cup {Composite[i] : i \in DOMAIN Composite} : \E l \in DOMAIN lumpinfo : lumpinfo[l].name = name
SearchIsRight ==
  search # NOSEARCH =>
    /\ search = [base |-> search.base, rover |-> search.rover, start |-> search.start]
    /\ todo # <<>> /\ todo[1].call = "Z_Malloc"
    /\ Looking(blocks, search, todo[1].bytes + HEADER)

ZoneInv ==
  /\ Whole(Z) /\ Pointers(Z, {}) /\ halted \in Int
  /\ LumpsAreThere /\ CallsAreRight /\ HeldIsSupplied /\ SearchIsRight
  /\ FailsOnlyWhenFull

\* A search comes further up the zone with every turn, from the block it began at;
\* what it merges on its way does not bring it back (rover in Z_Malloc's loop).
SearchGoesOn == [][search # NOSEARCH /\ search' # NOSEARCH /\ search' # search =>
  /\ search'.start = search.start
  /\ Ahead(search'.rover, search.start) > Ahead(search.rover, search.start)]_zone_vars

(* ----------------------------------------------------------------------- *)
(* Blocks                                                                   *)
(* ----------------------------------------------------------------------- *)

LEMMA Sizes == SIZE \in Nat /\ SIZE >= 1 /\ HEADER \in Nat /\ HEADER >= 1 /\ MINFRAGMENT \in Nat
  BY ZoneAssumption

LEMMA Marks == NULL = -1 /\ NONE = -1 /\ ZONE = 0 /\ NOBODY = -1 /\ ANYONE = -2 /\ PU_STATIC = 1 /\ COMPOSITE = 0
  BY DEF NULL, NONE, ZONE, NOBODY, ANYONE, PU_STATIC, COMPOSITE

\* What a block is.
LEMMA BlockIs ==
  ASSUME NEW b, Laid(b), NEW a \in DOMAIN b
  PROVE /\ a \in 0 .. SIZE /\ a \in Nat
        /\ b[a] = [size |-> b[a].size, user |-> b[a].user, tag |-> b[a].tag, next |-> b[a].next, prev |-> b[a].prev]
        /\ b[a].size \in Nat /\ b[a].user \in Int /\ b[a].tag \in Nat
        /\ b[a].next \in DOMAIN b /\ b[a].prev \in DOMAIN b
        /\ b[a].next \in Nat /\ b[a].prev \in Nat
        /\ b[b[a].next].prev = a /\ b[b[a].prev].next = a
        /\ Span(b, a) \in Nat /\ Span(b, a) >= 1 /\ a + Span(b, a) <= SIZE + 1
        /\ b[a].next = After(a + Span(b, a))
        /\ \A x \in DOMAIN b : a < x => a + Span(b, a) <= x
<1>1. a \in 0 .. SIZE /\ b[a] \in Block
  BY DEF Laid
<1>2. Span(b, a) \in Nat
  <2>1. b[a].size \in Nat
    BY <1>1 DEF Block
  <2> QED BY <2>1 DEF Span
<1>3. b[a].next \in Nat /\ b[a].prev \in Nat
  <2>1. b[a].next \in 0 .. SIZE /\ b[a].prev \in 0 .. SIZE
    BY DEF Laid
  <2> QED BY <2>1
<1> QED BY <1>1, <1>2, <1>3, Sizes DEF Laid, Block

\* The head of the list is not free.
LEMMA HeadIsOwned ==
  ASSUME NEW b, Laid(b)
  PROVE ZONE \in DOMAIN b /\ ~FreeBlock(b[ZONE])
  BY Marks DEF Laid, FreeBlock

\* The block behind is another, unless it is the head of the list and alone.
LEMMA NextIsOther ==
  ASSUME NEW b, Laid(b), NEW a \in DOMAIN b, a # ZONE
  PROVE b[a].next # a /\ b[a].prev # a /\ (b[a].next # ZONE => b[a].next = a + b[a].size /\ b[a].next > a)
<1>1. b[a].next # a
  BY BlockIs, Sizes, Marks DEF After
<1>2. b[a].prev # a
  BY <1>1, BlockIs
<1>3. b[a].next # ZONE => b[a].next = a + b[a].size /\ b[a].next > a
  BY BlockIs, Sizes, Marks DEF After, Span
<1> QED BY <1>1, <1>2, <1>3

\* A block takes the one behind it.
IsJoined(c, b, a, other) ==
  /\ DOMAIN c = DOMAIN b \ {other} /\ a \in DOMAIN c /\ b[other].next \in DOMAIN c
  /\ c \in [DOMAIN c -> Block]
  /\ \A x \in DOMAIN c : /\ c[x].user = b[x].user /\ c[x].tag = b[x].tag
                         /\ c[x].size = IF x = a THEN b[a].size + b[other].size ELSE b[x].size
                         /\ c[x].next = IF x = a THEN b[other].next ELSE b[x].next
                         /\ c[x].prev = IF x = b[other].next THEN a ELSE b[x].prev

LEMMA JoinedIs ==
  ASSUME NEW b, Laid(b), NEW a \in DOMAIN b, a # ZONE, NEW other, other = b[a].next, other # ZONE,
         NEW c, c = Joined(b, a, other)
  PROVE IsJoined(c, b, a, other)
<1> DEFINE n == b[other].next
<1>0. other \in DOMAIN b /\ n \in DOMAIN b /\ b[other].size \in Nat
  BY BlockIs
<1>1. a # other /\ n # other
  BY NextIsOther, <1>0
<1>2. n # a
  BY <1>0, BlockIs, NextIsOther, Sizes, Marks DEF After, Span
<1>3. DOMAIN c = DOMAIN b \ {other}
  BY DEF Joined, Unlist, Laid
<1>4. ASSUME NEW x \in DOMAIN b \ {other}
      PROVE c[x] = [size |-> IF x = a THEN b[a].size + b[other].size ELSE b[x].size, user |-> b[x].user, tag |-> b[x].tag,
                    next |-> IF x = a THEN b[other].next ELSE b[x].next,
                    prev |-> IF x = b[other].next THEN a ELSE b[x].prev]
  <2>0. b = [y \in DOMAIN b |-> b[y]] /\ b \in [DOMAIN b -> Block]
    BY DEF Laid
  <2>1. b[x] \in Block /\ b[a] \in Block
    BY DEF Laid
  <2>2. CASE x = a
    BY <1>0, <1>1, <1>2, <2>0, <2>1, <2>2 DEF Joined, Unlist, Block
  <2>3. CASE x = n
    BY <1>0, <1>1, <1>2, <2>0, <2>1, <2>3 DEF Joined, Unlist, Block
  <2>4. CASE x # a /\ x # n
    BY <1>0, <1>1, <1>2, <2>0, <2>1, <2>4 DEF Joined, Unlist, Block
  <2> QED BY <2>2, <2>3, <2>4
<1>5. \A x \in DOMAIN c : c[x] \in Block
  <2> SUFFICES ASSUME NEW x \in DOMAIN b \ {other} PROVE c[x] \in Block
    BY <1>3
  <2>1. /\ b[x].size \in Nat /\ b[x].user \in Int /\ b[x].tag \in Nat /\ b[x].next \in Int /\ b[x].prev \in Int
        /\ b[a].size \in Nat
    BY BlockIs
  <2>2. n \in Int /\ a \in Int
    BY <1>0, BlockIs
  <2>3. /\ (IF x = a THEN b[a].size + b[other].size ELSE b[x].size) \in Nat
        /\ (IF x = a THEN n ELSE b[x].next) \in Int /\ (IF x = n THEN a ELSE b[x].prev) \in Int
    BY <1>0, <2>1, <2>2
  <2> DEFINE s == IF x = a THEN b[a].size + b[other].size ELSE b[x].size
             f == IF x = a THEN n ELSE b[x].next
             g == IF x = n THEN a ELSE b[x].prev
  <2>4. c[x] = [size |-> s, user |-> b[x].user, tag |-> b[x].tag, next |-> f, prev |-> g]
    <3> QED BY <1>4
  <2>5. s \in Nat /\ f \in Int /\ g \in Int
    BY <2>3
  <2> HIDE DEF s, f, g
  <2> QED BY <2>1, <2>4, <2>5 DEF Block
<1>6. c \in [DOMAIN c -> Block]
  <2>1. c = [x \in DOMAIN c |-> c[x]]
    BY DEF Joined, Unlist
  <2> QED BY <1>5, <2>1
<1>7. ASSUME NEW x \in DOMAIN c
      PROVE /\ c[x].user = b[x].user /\ c[x].tag = b[x].tag
            /\ c[x].size = IF x = a THEN b[a].size + b[other].size ELSE b[x].size
            /\ c[x].next = IF x = a THEN b[other].next ELSE b[x].next
            /\ c[x].prev = IF x = b[other].next THEN a ELSE b[x].prev
  <2>1. x \in DOMAIN b \ {other}
    BY <1>3
  <2> DEFINE s == IF x = a THEN b[a].size + b[other].size ELSE b[x].size
             f == IF x = a THEN b[other].next ELSE b[x].next
             g == IF x = b[other].next THEN a ELSE b[x].prev
  <2>2. c[x] = [size |-> s, user |-> b[x].user, tag |-> b[x].tag, next |-> f, prev |-> g]
    BY <1>4, <2>1
  <2>3. c[x].user = b[x].user /\ c[x].tag = b[x].tag /\ c[x].size = s /\ c[x].next = f /\ c[x].prev = g
    <3> HIDE DEF s, f, g
    <3> QED BY <2>2
  <2> QED BY <2>3
<1>8. a \in DOMAIN c /\ n \in DOMAIN c
  <2> QED BY <1>0, <1>1, <1>3
<1> QED BY <1>3, <1>6, <1>7, <1>8 DEF IsJoined

LEMMA JoinedLaid ==
  ASSUME NEW b, Laid(b), NEW a \in DOMAIN b, a # ZONE, NEW other, other = b[a].next, other # ZONE,
         NEW c, c = Joined(b, a, other)
  PROVE Laid(c)
<1> DEFINE n == b[other].next
<1>1. /\ DOMAIN c = DOMAIN b \ {other} /\ a \in DOMAIN c /\ n \in DOMAIN c
      /\ c \in [DOMAIN c -> Block]
      /\ \A x \in DOMAIN c : /\ c[x].user = b[x].user /\ c[x].tag = b[x].tag
                             /\ c[x].size = IF x = a THEN b[a].size + b[other].size ELSE b[x].size
                             /\ c[x].next = IF x = a THEN n ELSE b[x].next
                             /\ c[x].prev = IF x = n THEN a ELSE b[x].prev
  <2>1. IsJoined(c, b, a, other)
    BY JoinedIs
  <2> QED BY <2>1 DEF IsJoined
<1>2. other \in DOMAIN b /\ b[other].prev = a /\ other = a + b[a].size /\ Span(b, other) = b[other].size /\ Span(b, a) = b[a].size
  BY BlockIs, NextIsOther DEF Span
<1>3. ZONE \in DOMAIN c /\ DOMAIN c \subseteq 0 .. SIZE /\ c[ZONE].user = ANYONE /\ c[ZONE].tag = PU_STATIC
  BY <1>1 DEF Laid
<1>4. \A x \in DOMAIN c : Span(c, x) = IF x = a THEN Span(b, a) + Span(b, other) ELSE Span(b, x)
  BY <1>1, <1>2 DEF Span
<1>5. ASSUME NEW x \in DOMAIN c
      PROVE Span(c, x) >= 1 /\ x + Span(c, x) <= SIZE + 1 /\ c[x].next = After(x + Span(c, x))
  <2>1. CASE x = a
    <3>1. Span(b, other) >= 1 /\ Span(b, a) >= 1 /\ other + Span(b, other) <= SIZE + 1 /\ n = After(other + Span(b, other))
          /\ Span(b, other) \in Nat /\ Span(b, a) \in Nat /\ a \in Nat
      BY <1>1, <1>2, BlockIs
    <3>2. a + Span(c, a) = other + Span(b, other)
      BY <1>1, <1>2, <1>4, <3>1
    <3> QED BY <1>1, <1>4, <2>1, <3>1, <3>2
  <2>2. CASE x # a
    BY <1>1, <1>4, <2>2, BlockIs
  <2> QED BY <2>1, <2>2
<1>6. ASSUME NEW x \in DOMAIN c, NEW y \in DOMAIN c, x < y PROVE x + Span(c, x) <= y
  <2>1. x \in DOMAIN b /\ y \in DOMAIN b /\ y # other
    BY <1>1
  <2>2. CASE x = a
    <3>1. other <= y
      BY <1>2, <1>6, <2>1, <2>2, BlockIs
    <3>2. other < y
      <4>1. other \in Nat /\ y \in Nat
        BY <1>2, <2>1, BlockIs
      <4> QED BY <2>1, <3>1, <4>1
    <3>3. other + Span(b, other) <= y
      BY <1>2, <2>1, <3>2, BlockIs
    <3> QED BY <1>2, <1>4, <2>2, <3>3, <2>1, BlockIs
  <2>3. CASE x # a
    BY <1>4, <1>6, <2>1, <2>3, BlockIs
  <2> QED BY <2>2, <2>3
<1>7. ASSUME NEW x \in DOMAIN c
      PROVE c[x].next \in DOMAIN c /\ c[x].prev \in DOMAIN c /\ c[c[x].next].prev = x /\ c[c[x].prev].next = x
  <2>1. x \in DOMAIN b /\ x # other /\ b[x].next \in DOMAIN b /\ b[x].prev \in DOMAIN b
        /\ b[b[x].next].prev = x /\ b[b[x].prev].next = x
    BY <1>1, BlockIs
  <2>2. b[n].prev = other /\ b[other].next = n
    BY <1>2, BlockIs
  <2>3. c[x].next \in DOMAIN c /\ c[c[x].next].prev = x
    <3>1. CASE x = a
      BY <1>1, <3>1
    <3>2. CASE x # a
      <4>1. b[x].next # other
        BY <1>2, <2>1, <3>2
      <4>2. b[x].next # n
        BY <2>1, <2>2
      <4> QED BY <1>1, <2>1, <3>2, <4>1, <4>2
    <3> QED BY <3>1, <3>2
  <2>4. c[x].prev \in DOMAIN c /\ c[c[x].prev].next = x
    <3>1. CASE x = n
      BY <1>1, <3>1
    <3>2. CASE x # n
      <4>1. b[x].prev # other
        BY <2>1, <2>2, <3>2
      <4>2. b[x].prev # a
        BY <1>2, <2>1, BlockIs
      <4> QED BY <1>1, <2>1, <3>2, <4>1, <4>2
    <3> QED BY <3>1, <3>2
  <2> QED BY <2>3, <2>4
<1>8. c \in [DOMAIN c -> Block]
  BY <1>1
<1>9. Laid(c)
  BY <1>3, <1>5, <1>6, <1>7, <1>8 DEF Laid
<1> QED BY <1>9

\* Blocks that lie as others do.
LEMMA SameLay ==
  ASSUME NEW b, Laid(b), NEW c, c \in [DOMAIN b -> Block],
         \A x \in DOMAIN b : c[x].size = b[x].size /\ c[x].next = b[x].next /\ c[x].prev = b[x].prev,
         c[ZONE].user = ANYONE, c[ZONE].tag = PU_STATIC
  PROVE Laid(c)
<1>1. DOMAIN c = DOMAIN b /\ \A x \in DOMAIN b : Span(c, x) = Span(b, x)
  BY DEF Span
<1>2. \A x \in DOMAIN b : Span(c, x) >= 1 /\ x + Span(c, x) <= SIZE + 1 /\ c[x].next = After(x + Span(c, x))
  BY <1>1 DEF Laid
<1>3. \A x, y \in DOMAIN b : x < y => x + Span(c, x) <= y
  BY <1>1 DEF Laid
<1>4. \A x \in DOMAIN b : c[x].next \in DOMAIN b /\ c[x].prev \in DOMAIN b
  BY DEF Laid
<1>5. \A x \in DOMAIN b : c[c[x].next].prev = x /\ c[c[x].prev].next = x
  BY BlockIs
<1>6. ZONE \in DOMAIN b /\ DOMAIN b \subseteq 0 .. SIZE
  BY DEF Laid
<1> QED BY <1>1, <1>2, <1>3, <1>4, <1>5, <1>6 DEF Laid

\* A block with another owner or tag.
IsRedone(c, b, a, u, t) ==
  /\ Laid(c) /\ DOMAIN c = DOMAIN b
  /\ \A x \in DOMAIN b : /\ c[x].size = b[x].size /\ c[x].next = b[x].next /\ c[x].prev = b[x].prev
                         /\ c[x].user = (IF x = a THEN u ELSE b[x].user)
                         /\ c[x].tag = (IF x = a THEN t ELSE b[x].tag)

LEMMA Redone ==
  ASSUME NEW b, Laid(b), NEW a \in DOMAIN b, a # ZONE, NEW u \in Int, NEW t \in Nat,
         NEW c, c = Owned(b, a, u, t)
  PROVE IsRedone(c, b, a, u, t)
<1>0. b \in [DOMAIN b -> Block]
  BY DEF Laid
<1>1. DOMAIN c = DOMAIN b /\ c[a] = [b[a] EXCEPT !.user = u, !.tag = t] /\ \A x \in DOMAIN b : x # a => c[x] = b[x]
  BY <1>0 DEF Owned
<1>2. c[a] \in Block /\ c[a].size = b[a].size /\ c[a].next = b[a].next /\ c[a].prev = b[a].prev /\ c[a].user = u /\ c[a].tag = t
  <2>1. b[a] \in Block
    BY <1>0
  <2> QED BY <1>1, <2>1 DEF Block
<1>3. c \in [DOMAIN b -> Block]
  <2>1. c = [x \in DOMAIN b |-> c[x]]
    BY <1>0 DEF Owned
  <2>2. \A x \in DOMAIN b : c[x] \in Block
    BY <1>0, <1>1, <1>2
  <2> QED BY <2>1, <2>2
<1>4. \A x \in DOMAIN b : c[x].size = b[x].size /\ c[x].next = b[x].next /\ c[x].prev = b[x].prev
  BY <1>1, <1>2
<1>5. c[ZONE].user = ANYONE /\ c[ZONE].tag = PU_STATIC
  BY <1>1 DEF Laid
<1>6. Laid(c)
  BY <1>3, <1>4, <1>5, SameLay
<1> QED BY <1>1, <1>2, <1>4, <1>6 DEF IsRedone

\* A free block joined to a free one touches no other.
LEMMA JoinedApart ==
  ASSUME NEW b, Laid(b), NEW a \in DOMAIN b, a # ZONE, NEW other, other = b[a].next, other # ZONE,
         NEW c, c = Joined(b, a, other)
  PROVE /\ Apart(b, {a, other}) => Apart(c, {a})
        /\ Apart(b, {a}) /\ FreeBlock(b[other]) => Apart(c, {})
<1>0. /\ DOMAIN c = DOMAIN b \ {other} /\ a \in DOMAIN c /\ b[other].next \in DOMAIN c
      /\ c \in [DOMAIN c -> Block]
      /\ \A x \in DOMAIN c : /\ c[x].user = b[x].user /\ c[x].tag = b[x].tag
                             /\ c[x].size = IF x = a THEN b[a].size + b[other].size ELSE b[x].size
                             /\ c[x].next = IF x = a THEN b[other].next ELSE b[x].next
                             /\ c[x].prev = IF x = b[other].next THEN a ELSE b[x].prev
  <2>1. IsJoined(c, b, a, other)
    BY JoinedIs
  <2> QED BY <2>1 DEF IsJoined
<1>1. /\ DOMAIN c = DOMAIN b \ {other} /\ b[other].next \in DOMAIN c
      /\ \A x \in DOMAIN c : c[x].user = b[x].user /\ (x # a => c[x].next = b[x].next) /\ (x = a => c[x].next = b[other].next)
  <2> QED BY <1>0
<1>2. other \in DOMAIN b /\ b[other].prev = a /\ a # other
  BY BlockIs, NextIsOther
<1>3. ASSUME NEW x \in DOMAIN c, x # a PROVE c[x].next \in DOMAIN c /\ c[c[x].next].user = b[b[x].next].user
  <2>1. b[x].next # other
    BY <1>1, <1>2, <1>3, BlockIs
  <2>2. b[x].next \in DOMAIN b
    BY <1>1, BlockIs
  <2> QED BY <1>1, <1>3, <2>1, <2>2
<1>4. ASSUME Apart(b, {a, other}) PROVE Apart(c, {a})
  BY <1>1, <1>3, <1>4 DEF Apart, FreeBlock
<1>5. ASSUME Apart(b, {a}), FreeBlock(b[other]) PROVE Apart(c, {})
  <2>1. ~FreeBlock(b[b[other].next])
    BY <1>2, <1>5 DEF Apart
  <2>2. ASSUME NEW x \in DOMAIN c PROVE ~(FreeBlock(c[x]) /\ FreeBlock(c[c[x].next]))
    <3>1. CASE x = a
      BY <1>1, <2>1, <3>1 DEF FreeBlock
    <3>2. CASE x # a
      BY <1>1, <1>3, <1>5, <3>2 DEF Apart, FreeBlock
    <3> QED BY <3>1, <3>2
  <2> QED BY <2>2 DEF Apart
<1> QED BY <1>4, <1>5

(* ----------------------------------------------------------------------- *)
(* Z_Free                                                                   *)
(* ----------------------------------------------------------------------- *)

\* Making a zone of its parts.
LEMMA ZoneOf == \A b, r, p : Zone(b, r, p).blocks = b /\ Zone(b, r, p).rover = r /\ Zone(b, r, p).ptr = p
  BY DEF Zone

LEMMA TellIs ==
  ASSUME NEW p, p \in [DOMAIN p -> Int], NEW user, NEW a \in Int
  PROVE /\ Tell(p, user, a) \in [DOMAIN p -> Int] /\ DOMAIN Tell(p, user, a) = DOMAIN p
        /\ \A o \in DOMAIN p : Tell(p, user, a)[o] = (IF o = user THEN a ELSE p[o])
  BY DEF Tell

\* A block without its owner.
LEMMA DisownIs ==
  ASSUME NEW z, Shape(z), NEW b, b = z.blocks, Laid(b), NEW a \in DOMAIN b, a # ZONE,
         NEW y, y = Disown(z, a)
  PROVE /\ Shape(y) /\ IsRedone(y.blocks, b, a, NOBODY, 0) /\ y.rover = z.rover
        /\ y.ptr = Tell(z.ptr, b[a].user, NULL)
<1>1. z.ptr \in [DOMAIN z.ptr -> Int] /\ NULL \in Int /\ NOBODY \in Int /\ 0 \in Nat
  BY Marks DEF Shape
<1> DEFINE p == Tell(z.ptr, b[a].user, NULL)
<1>2. p \in [DOMAIN p -> Int] /\ DOMAIN p = DOMAIN z.ptr
  BY <1>1, TellIs
<1> HIDE DEF p
<1>3. y = Zone(Owned(b, a, NOBODY, 0), z.rover, p)
  BY DEF Disown, p
<1>4. y.blocks = Owned(b, a, NOBODY, 0) /\ y.rover = z.rover /\ y.ptr = p
  BY <1>3, ZoneOf
<1>5. Shape(y)
  BY <1>2, <1>3, <1>4 DEF Shape
<1>6. IsRedone(y.blocks, b, a, NOBODY, 0)
  BY <1>1, <1>4, Redone
<1> QED BY <1>4, <1>5, <1>6 DEF p

LEMMA AbsorbIs ==
  ASSUME NEW z, Shape(z), NEW b, b = z.blocks, Laid(b), z.rover \in DOMAIN b,
         NEW a \in DOMAIN b, a # ZONE, NEW other, other = b[a].next, other # ZONE,
         NEW y, y = Absorb(z, a, other)
  PROVE Shape(y) /\ y.blocks = Joined(b, a, other) /\ y.ptr = z.ptr /\ y.rover \in DOMAIN y.blocks
<1> DEFINE j == Joined(b, a, other)
           r == IF z.rover = other THEN a ELSE z.rover
<1>1. y = Zone(j, r, z.ptr)
  BY DEF Absorb
<1>2. DOMAIN j = DOMAIN b \ {other} /\ a \in DOMAIN j
  <2> HIDE DEF j
  <2>1. j = Joined(b, a, other)
    BY DEF j
  <2>2. IsJoined(j, b, a, other)
    BY <2>1, JoinedIs
  <2> QED BY <2>2 DEF IsJoined
<1> HIDE DEF j
<1>3. r \in DOMAIN j
  BY <1>2
<1> HIDE DEF r
<1>4. y.blocks = j /\ y.rover = r /\ y.ptr = z.ptr
  BY <1>1, ZoneOf
<1>5. Shape(y)
  BY <1>1, <1>4 DEF Shape
<1> QED BY <1>3, <1>4, <1>5 DEF j

\* What is left of two blocks that were joined: where they are and who owns them.
IsLeft(c, b, a, other) ==
  /\ DOMAIN c = DOMAIN b \ {other} /\ a \in DOMAIN c
  /\ c[a].user = b[a].user /\ c[a].prev = b[a].prev
  /\ \A x \in DOMAIN c : x # a => c[x].size = b[x].size
  /\ \A x \in DOMAIN c : c[x].user = b[x].user /\ c[x].tag = b[x].tag

LEMMA JoinedLeft ==
  ASSUME NEW b, NEW a \in DOMAIN b, NEW other, NEW c, IsJoined(c, b, a, other), Laid(c), a # ZONE
  PROVE  IsLeft(c, b, a, other)
<1>1. DOMAIN c = DOMAIN b \ {other} /\ a \in DOMAIN c
  BY DEF IsJoined
<1>2. \A x \in DOMAIN c : c[x].user = b[x].user /\ c[x].tag = b[x].tag
  BY DEF IsJoined
<1>3. \A x \in DOMAIN c : x # a => c[x].size = b[x].size
  BY DEF IsJoined
<1>4. c[a].next = b[other].next /\ c[a].prev = IF a = b[other].next THEN a ELSE b[a].prev
  BY DEF IsJoined
<1>5. c[a].next # a
  BY <1>1, NextIsOther
<1>6. c[a].prev = b[a].prev
  BY <1>4, <1>5
<1>7. c[a].user = b[a].user
  BY <1>1, <1>2
<1> QED BY <1>1, <1>2, <1>3, <1>6, <1>7 DEF IsLeft

\* Blocks that were merged into m, of which a is one.
IsMerged(y, z, a, m) ==
  LET b == z.blocks
      c == y.blocks
  IN /\ Shape(y) /\ Laid(c) /\ y.rover \in DOMAIN c /\ y.ptr = z.ptr
     /\ m \in DOMAIN b /\ m \in DOMAIN c /\ FreeBlock(c[m]) /\ c[m].prev = b[m].prev
     /\ DOMAIN c \subseteq DOMAIN b /\ (m # a => a \notin DOMAIN c)
     /\ \A x \in DOMAIN b : x # a /\ ~FreeBlock(b[x]) => x \in DOMAIN c
     /\ \A x \in DOMAIN c : x # m => c[x].user = b[x].user /\ c[x].tag = b[x].tag /\ c[x].size = b[x].size

\* A free block, merged with the one before it.
LEMMA MergePrevIs ==
  ASSUME NEW z, Shape(z), Laid(z.blocks), z.rover \in DOMAIN z.blocks,
         NEW a \in DOMAIN z.blocks, a # ZONE, FreeBlock(z.blocks[a]), Apart(z.blocks, {z.blocks[a].prev, a})
  PROVE  /\ IsMerged(MergePrev(z, a), z, a, MergedAt(z, a))
         /\ Apart(MergePrev(z, a).blocks, {MergedAt(z, a)}) /\ MergedAt(z, a) # ZONE
<1> DEFINE b == z.blocks
           p == b[a].prev
           m == MergedAt(z, a)
           y == MergePrev(z, a)
           c == y.blocks
<1>0. Laid(b) /\ a \in DOMAIN b /\ FreeBlock(b[a]) /\ Apart(b, {p, a}) /\ z.rover \in DOMAIN b
  OBVIOUS
<1>1. p \in DOMAIN b /\ p # a /\ b[p].next = a /\ ~FreeBlock(b[ZONE])
  BY BlockIs, NextIsOther, HeadIsOwned
<1>2. m = (IF FreeBlock(b[p]) THEN p ELSE a) /\ y = (IF FreeBlock(b[p]) THEN Absorb(z, p, a) ELSE z)
  BY DEF MergePrev, MergedAt
<1> HIDE DEF p, m, y
<1>3. CASE FreeBlock(b[p])
  <2>1. m = p /\ p # ZONE /\ y = Absorb(z, p, a)
    BY <1>1, <1>2, <1>3
  <2>2. Shape(y) /\ c = Joined(b, p, a) /\ y.ptr = z.ptr /\ y.rover \in DOMAIN c
    BY <1>0, <1>1, <2>1, AbsorbIs
  <2> HIDE DEF b, c
  <2>3. Laid(c) /\ Apart(c, {p})
    BY <1>0, <1>1, <2>1, <2>2, JoinedLaid, JoinedApart
  <2>4. IsJoined(c, b, p, a)
    BY <1>0, <1>1, <2>1, <2>2, JoinedIs
  <2>5. IsLeft(c, b, p, a)
    BY <1>1, <2>1, <2>3, <2>4, JoinedLeft
  <2>6. /\ p \in DOMAIN c /\ DOMAIN c \subseteq DOMAIN b /\ a \notin DOMAIN c
        /\ FreeBlock(c[p]) /\ c[p].prev = b[p].prev
    BY <1>3, <2>5 DEF IsLeft, FreeBlock
  <2>7. /\ \A x \in DOMAIN b : x # a /\ ~FreeBlock(b[x]) => x \in DOMAIN c
        /\ \A x \in DOMAIN c : x # p => c[x].user = b[x].user /\ c[x].tag = b[x].tag /\ c[x].size = b[x].size
    BY <2>5 DEF IsLeft
  <2>8. IsMerged(y, z, a, p)
    BY <1>1, <2>2, <2>3, <2>6, <2>7 DEF IsMerged, b, c
  <2> QED BY <2>1, <2>3, <2>8 DEF c, m, y
<1>4. CASE ~FreeBlock(b[p])
  <2>1. m = a /\ y = z
    BY <1>2, <1>4
  <2>2. Apart(b, {a})
    BY <1>0, <1>4 DEF Apart, p
  <2>3. IsMerged(z, z, a, a)
    BY <1>0 DEF IsMerged
  <2> QED BY <2>1, <2>2, <2>3 DEF m, y
<1> QED BY <1>3, <1>4

\* A free block, merged with the one behind it.
LEMMA MergeNextIs ==
  ASSUME NEW z, Shape(z), Laid(z.blocks), z.rover \in DOMAIN z.blocks,
         NEW m \in DOMAIN z.blocks, m # ZONE, FreeBlock(z.blocks[m]), Apart(z.blocks, {m})
  PROVE  IsMerged(MergeNext(z, m), z, m, m) /\ Apart(MergeNext(z, m).blocks, {})
<1> DEFINE b == z.blocks
           n == b[m].next
           y == MergeNext(z, m)
           c == y.blocks
<1>0. Laid(b) /\ m \in DOMAIN b /\ FreeBlock(b[m]) /\ Apart(b, {m}) /\ z.rover \in DOMAIN b
  OBVIOUS
<1>1. n \in DOMAIN b /\ n # m /\ n = b[m].next /\ ~FreeBlock(b[ZONE])
  BY BlockIs, NextIsOther, HeadIsOwned
<1>2. y = (IF FreeBlock(b[n]) THEN Absorb(z, m, n) ELSE z)
  BY DEF MergeNext
<1> HIDE DEF n, y
<1>3. CASE FreeBlock(b[n])
  <2>1. n # ZONE /\ y = Absorb(z, m, n)
    BY <1>1, <1>2, <1>3
  <2>2. Shape(y) /\ c = Joined(b, m, n) /\ y.ptr = z.ptr /\ y.rover \in DOMAIN c
    BY <1>0, <1>1, <2>1, AbsorbIs
  <2> HIDE DEF b, c
  <2>3. Laid(c) /\ Apart(c, {})
    BY <1>0, <1>1, <1>3, <2>1, <2>2, JoinedLaid, JoinedApart
  <2>4. IsJoined(c, b, m, n)
    BY <1>0, <1>1, <2>1, <2>2, JoinedIs
  <2>5. IsLeft(c, b, m, n)
    BY <1>0, <2>3, <2>4, JoinedLeft
  <2>6. /\ m \in DOMAIN c /\ DOMAIN c \subseteq DOMAIN b
        /\ FreeBlock(c[m]) /\ c[m].prev = b[m].prev
    BY <1>0, <2>5 DEF IsLeft, FreeBlock
  <2>7. /\ \A x \in DOMAIN b : x # m /\ ~FreeBlock(b[x]) => x \in DOMAIN c
        /\ \A x \in DOMAIN c : x # m => c[x].user = b[x].user /\ c[x].tag = b[x].tag /\ c[x].size = b[x].size
    BY <1>3, <2>5 DEF IsLeft
  <2>8. IsMerged(y, z, m, m)
    BY <2>2, <2>3, <2>6, <2>7 DEF IsMerged, b, c
  <2> QED BY <2>3, <2>8 DEF c, y
<1>4. CASE ~FreeBlock(b[n])
  <2>1. y = z
    BY <1>2, <1>4
  <2>2. Apart(b, {})
    BY <1>0, <1>4 DEF Apart, n
  <2>3. IsMerged(z, z, m, m)
    BY <1>0 DEF IsMerged
  <2> QED BY <2>1, <2>2, <2>3 DEF y
<1> QED BY <1>3, <1>4

\* A block that was freed, merged with its neighbours.
IsFreed(y, z, a, m) ==
  LET b == z.blocks
      c == y.blocks
  IN /\ Shape(y) /\ Whole(y)
     /\ m # ZONE /\ m \in DOMAIN b /\ m \in DOMAIN c
     /\ FreeBlock(c[m]) /\ c[m].prev = b[m].prev
     /\ DOMAIN c \subseteq DOMAIN b /\ (m # a => FreeBlock(b[m]) /\ a \notin DOMAIN c)
     /\ \A x \in DOMAIN b : x # a /\ ~FreeBlock(b[x]) => x \in DOMAIN c
     /\ \A x \in DOMAIN c : x # m => c[x].user = b[x].user /\ c[x].tag = b[x].tag /\ c[x].size = b[x].size
     /\ y.ptr = Tell(z.ptr, b[a].user, NULL)

LEMMA FreedIs ==
  ASSUME NEW z, Shape(z), Whole(z), NEW a \in DOMAIN z.blocks, a # ZONE, ~FreeBlock(z.blocks[a]),
         NEW y, y = Freed(z, a)
  PROVE IsFreed(y, z, a, MergedAt(z, a))
<1> DEFINE b == z.blocks
           c == y.blocks
           m == MergedAt(z, a)
           p == b[a].prev
<1>0. Laid(b) /\ Apart(b, {}) /\ z.rover \in DOMAIN b
  BY DEF Whole
<1>1. p \in DOMAIN b /\ p # a /\ b[p].next = a
  BY <1>0, BlockIs, NextIsOther
<1>m. m = (IF FreeBlock(b[p]) THEN p ELSE a) /\ y = MergeNext(MergePrev(Disown(z, a), a), m)
  BY DEF MergedAt, Freed
<1> HIDE DEF m
<1>2. PICK z1 : z1 = Disown(z, a)
  OBVIOUS
<1>3. PICK b1 : b1 = z1.blocks
  OBVIOUS
<1>r. Shape(z1) /\ IsRedone(b1, b, a, NOBODY, 0) /\ z1.rover = z.rover /\ z1.ptr = Tell(z.ptr, b[a].user, NULL)
  BY <1>0, <1>2, <1>3, DisownIs
<1>4. /\ Laid(b1) /\ DOMAIN b1 = DOMAIN b
      /\ \A x \in DOMAIN b : /\ b1[x].size = b[x].size /\ b1[x].next = b[x].next /\ b1[x].prev = b[x].prev
                             /\ b1[x].user = (IF x = a THEN NOBODY ELSE b[x].user)
                             /\ b1[x].tag = (IF x = a THEN 0 ELSE b[x].tag)
  BY <1>r DEF IsRedone
<1> HIDE DEF p, b
<1>5. Apart(b1, {p, a})
  <2>1. ASSUME NEW x \in DOMAIN b, x # p, x # a PROVE ~(FreeBlock(b1[x]) /\ FreeBlock(b1[b1[x].next]))
    <3>1. b[x].next \in DOMAIN b /\ b[x].next # a
      BY <1>0, <1>1, <2>1, BlockIs DEF p
    <3> QED BY <1>0, <1>4, <2>1, <3>1 DEF Apart, FreeBlock
  <2> QED BY <1>4, <2>1 DEF Apart
<1>6. b1[a].prev = p /\ FreeBlock(b1[a]) /\ m = (IF FreeBlock(b1[p]) THEN p ELSE a) /\ a \in DOMAIN b1 /\ z1.rover \in DOMAIN b1
  <2>1. a \in DOMAIN b /\ p = b[a].prev
    BY DEF p, b
  <2>2. b1[a].prev = p /\ a \in DOMAIN b1 /\ z1.rover \in DOMAIN b1
    BY <1>0, <1>4, <1>r, <2>1
  <2>3. b1[a].user = NOBODY /\ b1[p].user = b[p].user
    BY <1>1, <1>4, <2>1
  <2> QED BY <1>m, <2>2, <2>3 DEF FreeBlock
<1>7. PICK z2 : z2 = MergePrev(z1, a)
  OBVIOUS
<1>8. PICK b2 : b2 = z2.blocks
  OBVIOUS
<1>9. IsMerged(z2, z1, a, m) /\ Apart(b2, {m}) /\ m # ZONE
  <2>1. m = MergedAt(z1, a)
    BY <1>3, <1>6 DEF MergedAt
  <2> QED BY <1>3, <1>4, <1>5, <1>6, <1>7, <1>8, <1>r, <2>1, MergePrevIs
<1>10. Shape(z2) /\ Laid(b2) /\ z2.rover \in DOMAIN b2 /\ m \in DOMAIN b2 /\ FreeBlock(b2[m])
  BY <1>8, <1>9 DEF IsMerged
<1>11. IsMerged(y, z2, m, m) /\ Apart(c, {})
  <2>1. y = MergeNext(z2, m)
    BY <1>m, <1>2, <1>7
  <2> QED BY <1>8, <1>9, <1>10, <2>1, MergeNextIs
<1>12. Shape(y) /\ Whole(y) /\ y.ptr = z1.ptr
  BY <1>9, <1>11 DEF Whole, IsMerged
<1> HIDE DEF c
<1>13. /\ m \in DOMAIN b1 /\ m \in DOMAIN b2 /\ FreeBlock(b2[m]) /\ b2[m].prev = b1[m].prev
       /\ DOMAIN b2 \subseteq DOMAIN b1 /\ (m # a => a \notin DOMAIN b2)
       /\ \A x \in DOMAIN b1 : x # a /\ ~FreeBlock(b1[x]) => x \in DOMAIN b2
       /\ \A x \in DOMAIN b2 : x # m => b2[x].user = b1[x].user /\ b2[x].tag = b1[x].tag /\ b2[x].size = b1[x].size
  BY <1>3, <1>8, <1>9 DEF IsMerged
<1>14. /\ m \in DOMAIN c /\ FreeBlock(c[m]) /\ c[m].prev = b2[m].prev
       /\ DOMAIN c \subseteq DOMAIN b2
       /\ \A x \in DOMAIN b2 : x # m /\ ~FreeBlock(b2[x]) => x \in DOMAIN c
       /\ \A x \in DOMAIN c : x # m => c[x].user = b2[x].user /\ c[x].tag = b2[x].tag /\ c[x].size = b2[x].size
  BY <1>8, <1>11 DEF IsMerged, c
<1>15. ASSUME NEW x \in DOMAIN b, x # a, ~FreeBlock(b[x]) PROVE x \in DOMAIN c
  <2>1. CASE x = m
    BY <1>14, <2>1
  <2>2. CASE x # m
    BY <1>4, <1>13, <1>14, <1>15, <2>2 DEF FreeBlock
  <2> QED BY <2>1, <2>2
<1>16. ASSUME NEW x \in DOMAIN c, x # m PROVE c[x].user = b[x].user /\ c[x].tag = b[x].tag /\ c[x].size = b[x].size
  BY <1>4, <1>13, <1>14, <1>16
<1>17. m \in DOMAIN b /\ DOMAIN c \subseteq DOMAIN b /\ c[m].prev = b[m].prev
  BY <1>4, <1>13, <1>14
<1>18. m # a => FreeBlock(b[m]) /\ a \notin DOMAIN c
  BY <1>m, <1>13, <1>14
<1> QED BY <1>r, <1>9, <1>12, <1>14, <1>15, <1>16, <1>17, <1>18 DEF IsFreed, b, c, m

\* What becomes of the pointers when the block at a is freed.
IsForgotten(y, z, a) ==
  /\ DOMAIN y.ptr = DOMAIN z.ptr
  /\ \A o \in DOMAIN z.ptr : y.ptr[o] = IF z.ptr[o] = a /\ o \notin Keepers THEN NULL ELSE z.ptr[o]
  /\ \A o \in DOMAIN z.ptr : z.ptr[o] \notin {a, NULL} => y.blocks[z.ptr[o]].tag = z.blocks[z.ptr[o]].tag

LEMMA Owners == Keepers \subseteq Int /\ \A o \in Keepers : o < ANYONE /\ User(o) = ANYONE
  BY DEF Keepers, LUMPINFO, OLDINFO, DIRBUF, LUMPCACHE, LNAMES, ANYONE, User, COMPOSITE

LEMMA UserIs == \A o \in Nat : User(o) = o /\ o \notin Keepers /\ o \notin {NULL, NOBODY, ANYONE}
  BY Owners, Marks DEF User

LEMMA FreedPointers ==
  ASSUME NEW z, Shape(z), Whole(z), Pointers(z, {}), NEW a \in DOMAIN z.blocks, a # ZONE, ~FreeBlock(z.blocks[a]),
         NEW y, y = Freed(z, a), NEW but,
         \A o \in (DOMAIN z.ptr \cap Keepers) \ but : z.ptr[o] # a
  PROVE IsForgotten(y, z, a) /\ Pointers(y, but)
<1> DEFINE b == z.blocks
           c == y.blocks
           m == MergedAt(z, a)
           u == b[a].user
<1>1. IsFreed(y, z, a, m)
  BY FreedIs
<1>2. /\ Shape(y) /\ m \in DOMAIN c /\ FreeBlock(c[m]) /\ DOMAIN c \subseteq DOMAIN b
      /\ (m # a => FreeBlock(b[m]) /\ a \notin DOMAIN c)
      /\ \A x \in DOMAIN b : x # a /\ ~FreeBlock(b[x]) => x \in DOMAIN c
      /\ \A x \in DOMAIN c : x # m => c[x].user = b[x].user /\ c[x].tag = b[x].tag /\ c[x].size = b[x].size
      /\ y.ptr = Tell(z.ptr, u, NULL)
  BY <1>1 DEF IsFreed
<1>3. z.ptr \in [DOMAIN z.ptr -> Int] /\ DOMAIN z.ptr \subseteq Keepers \cup Nat /\ NULL \in Int
  BY Marks DEF Shape
<1>4. DOMAIN y.ptr = DOMAIN z.ptr /\ \A o \in DOMAIN z.ptr : y.ptr[o] = IF o = u THEN NULL ELSE z.ptr[o]
  BY <1>2, <1>3, TellIs
<1>5. /\ \A o \in DOMAIN z.ptr : Led(z, o)
      /\ \A o, p \in DOMAIN z.ptr : z.ptr[o] = z.ptr[p] /\ z.ptr[o] # NULL => o = p
      /\ \A x \in DOMAIN b : b[x].user \notin {NOBODY, ANYONE} => b[x].user \in DOMAIN z.ptr \ Keepers /\ z.ptr[b[x].user] = x
  BY DEF Pointers
<1>6. a \in Nat /\ a # NULL
  <2>1. Laid(b)
    BY DEF Whole
  <2>2. a \in Nat
    BY <2>1, BlockIs
  <2> QED BY <2>2, Marks
<1> HIDE DEF m
<1>7. ASSUME NEW o \in DOMAIN z.ptr PROVE y.ptr[o] = IF z.ptr[o] = a /\ o \notin Keepers THEN NULL ELSE z.ptr[o]
  <2>1. CASE z.ptr[o] = a /\ o \notin Keepers
    <3>1. o \in Nat
      BY <1>3, <2>1
    <3>2. u = o
      BY <1>5, <1>6, <2>1, <3>1, UserIs DEF Led
    <3> QED BY <1>4, <2>1, <3>2
  <2>2. CASE o \in Keepers
    <3>1. o \notin {NOBODY, ANYONE} 
      BY <2>2, Owners, Marks
    <3>2. o # u
      BY <1>5, <2>2, <3>1
    <3> QED BY <1>4, <2>2, <3>2
  <2>3. CASE z.ptr[o] # a
    <3>1. o \in Keepers => o \notin {NOBODY, ANYONE} 
      BY Owners, Marks
    <3>2. o # u
      BY <1>3, <1>5, <2>3, <3>1, UserIs
    <3> QED BY <1>4, <2>3, <3>2
  <2> QED BY <2>1, <2>2, <2>3
\* Who led to another block still does.
<1>8. ASSUME NEW o \in DOMAIN z.ptr, z.ptr[o] \notin {a, NULL}
      PROVE LET x == z.ptr[o] IN x \in DOMAIN c \ {ZONE} /\ c[x].user = b[x].user /\ c[x].tag = b[x].tag /\ c[x].size = b[x].size
  <2> DEFINE x == z.ptr[o]
  <2>1. x \in DOMAIN b \ {ZONE} /\ b[x].user = User(o)
    BY <1>5, <1>8 DEF Led
  <2>2. User(o) # NOBODY
    <3>1. CASE o \in Keepers
      BY <3>1, Owners, Marks
    <3>2. CASE o \in Nat
      BY <3>2, UserIs
    <3> QED BY <1>3, <3>1, <3>2
  <2>t. ~FreeBlock(b[x])
    BY <2>1, <2>2 DEF FreeBlock
  <2>3. x \in DOMAIN c /\ x # m
    BY <1>2, <1>8, <2>1, <2>t
  <2> QED BY <1>2, <2>1, <2>3
<1>9. IsForgotten(y, z, a)
  BY <1>4, <1>7, <1>8 DEF IsForgotten
<1>10. ASSUME NEW o \in DOMAIN y.ptr \ but, y.ptr[o] # NULL PROVE y.ptr[o] = z.ptr[o] /\ z.ptr[o] \notin {a, NULL}
  BY <1>4, <1>7, <1>10
<1>11. ASSUME NEW o \in DOMAIN y.ptr \ but PROVE Led(y, o)
  BY <1>4, <1>5, <1>8, <1>10 DEF Led
<1>12. ASSUME NEW o \in DOMAIN y.ptr \ but, NEW p \in DOMAIN y.ptr \ but, y.ptr[o] = y.ptr[p], y.ptr[o] # NULL PROVE o = p
  BY <1>4, <1>5, <1>10, <1>12
<1>13. ASSUME NEW x \in DOMAIN c, c[x].user \notin {NOBODY, ANYONE} PROVE c[x].user \in DOMAIN y.ptr \ Keepers /\ y.ptr[c[x].user] = x
  <2>1. x # m /\ x \in DOMAIN b
    BY <1>2, <1>13 DEF FreeBlock
  <2>2. x # a
    BY <1>2, <1>13, <2>1
  <2>3. c[x].user = b[x].user
    BY <1>2, <2>1
  <2> HIDE DEF b, c
  <2> QED BY <1>4, <1>5, <1>7, <1>13, <2>1, <2>2, <2>3
<1>14. Pointers(y, but)
  BY <1>11, <1>12, <1>13 DEF Pointers
<1> QED BY <1>9, <1>14

(* ----------------------------------------------------------------------- *)
(* The block that is given                                                  *)
(* ----------------------------------------------------------------------- *)

\* A block and the rest of it.
IsSplit(c, b, size, base) ==
  /\ Laid(c) /\ DOMAIN c = DOMAIN b \cup {base + size} /\ base + size \notin DOMAIN b
  /\ c[base + size].user = NOBODY /\ c[base + size].next = b[base].next /\ c[base].next = base + size
  /\ c[base].size = size
  /\ \A x \in DOMAIN b : c[x].user = b[x].user /\ c[x].tag = b[x].tag
  /\ \A x \in DOMAIN b : x # base => c[x].size = b[x].size /\ c[x].next = b[x].next

LEMMA SplitIs ==
  ASSUME NEW b, Laid(b), NEW base \in DOMAIN b, base # ZONE, NEW size \in Nat, 1 <= size, size < b[base].size,
         NEW c, c = Split(b, size, base)
  PROVE IsSplit(c, b, size, base)
<1> DEFINE k == base + size
           n == b[base].next
<1>1. /\ base \in Nat /\ b[base].size \in Nat /\ Span(b, base) = b[base].size /\ n \in DOMAIN b /\ n # base
      /\ b[base] \in Block /\ n = After(base + b[base].size) /\ base + b[base].size <= SIZE + 1
  <2>1. n # base
    BY NextIsOther
  <2>2. Span(b, base) = b[base].size /\ b[base] \in Block
    BY DEF Span, Laid
  <2>3. /\ base \in Nat /\ b[base].size \in Nat /\ n \in DOMAIN b
        /\ base + Span(b, base) <= SIZE + 1 /\ n = After(base + Span(b, base))
    BY BlockIs
  <2> QED BY <2>1, <2>2, <2>3
<1>2. k \in Nat /\ k <= SIZE /\ k \notin DOMAIN b /\ k # base /\ k > base
  <2>1. k \in Nat /\ k <= SIZE /\ k # base /\ k > base
    BY <1>1, Sizes
  <2>2. k \notin DOMAIN b
    <3>1. ASSUME k \in DOMAIN b PROVE FALSE
      <4>1. base + Span(b, base) <= k
        BY <2>1, <3>1, BlockIs
      <4> QED BY <1>1, <4>1
    <3> QED BY <3>1
  <2> QED BY <2>1, <2>2
<1>3. DOMAIN c = DOMAIN b \cup {k} /\ c[k] = Rest(b, size, base)
  BY DEF Split
<1>4. ASSUME NEW x \in DOMAIN b
      PROVE c[x] = [size |-> IF x = base THEN size ELSE b[x].size, user |-> b[x].user, tag |-> b[x].tag,
                    next |-> IF x = base THEN k ELSE b[x].next, prev |-> IF x = n THEN k ELSE b[x].prev]
  <2>0. b = [y \in DOMAIN b |-> b[y]] /\ b \in [DOMAIN b -> Block] /\ b[x] \in Block
    BY DEF Laid
  <2>1. c[x] = [b EXCEPT ![n].prev = k, ![base].next = k, ![base].size = size][x]
    BY <1>2 DEF Split
  <2> HIDE DEF k
  <2>2. CASE x = base
    BY <1>1, <2>0, <2>1, <2>2 DEF Block
  <2>3. CASE x = n
    BY <1>1, <2>0, <2>1, <2>3 DEF Block
  <2>4. CASE x # base /\ x # n
    BY <1>1, <2>0, <2>1, <2>4 DEF Block
  <2> QED BY <2>2, <2>3, <2>4
<1>5. /\ c[k].size = b[base].size - size /\ c[k].user = NOBODY /\ c[k].tag = 0 /\ c[k].next = n /\ c[k].prev = base
      /\ c[k] \in Block
  <2>1. b[base].size - size \in Nat /\ NOBODY \in Int /\ n \in Int /\ base \in Int
    <3>1. n \in Nat
      BY BlockIs
    <3> QED BY <1>1, <3>1, Marks
  <2>2. c[k] = [size |-> b[base].size - size, user |-> NOBODY, tag |-> 0, next |-> n, prev |-> base]
    BY <1>3 DEF Rest
  <2> HIDE DEF n, k
  <2> QED BY <2>1, <2>2 DEF Block
<1>6. ASSUME NEW x \in DOMAIN b
      PROVE /\ c[x].size = (IF x = base THEN size ELSE b[x].size) /\ c[x].user = b[x].user /\ c[x].tag = b[x].tag
            /\ c[x].next = (IF x = base THEN k ELSE b[x].next) /\ c[x].prev = (IF x = n THEN k ELSE b[x].prev)
            /\ c[x] \in Block
  <2> DEFINE s == IF x = base THEN size ELSE b[x].size
             f == IF x = base THEN k ELSE b[x].next
             g == IF x = n THEN k ELSE b[x].prev
  <2>1. c[x] = [size |-> s, user |-> b[x].user, tag |-> b[x].tag, next |-> f, prev |-> g]
    BY <1>4
  <2>2. s \in Nat /\ f \in Int /\ g \in Int /\ b[x].user \in Int /\ b[x].tag \in Nat
    <3>1. b[x].size \in Nat /\ b[x].user \in Int /\ b[x].tag \in Nat /\ b[x].next \in Int /\ b[x].prev \in Int
      BY DEF Laid, Block
    <3> QED BY <1>2, <3>1
  <2>3. c[x].size = s /\ c[x].user = b[x].user /\ c[x].tag = b[x].tag /\ c[x].next = f /\ c[x].prev = g /\ c[x] \in Block
    <3> HIDE DEF s, f, g
    <3> QED BY <2>1, <2>2 DEF Block
  <2> QED BY <2>3
<1> HIDE DEF k, n
<1>7. c \in [DOMAIN c -> Block]
  <2>1. c = [x \in DOMAIN c |-> c[x]]
    BY DEF Split
  <2>2. \A x \in DOMAIN c : c[x] \in Block
    BY <1>3, <1>5, <1>6
  <2> QED BY <2>1, <2>2
<1>8. ZONE \in DOMAIN c /\ DOMAIN c \subseteq 0 .. SIZE /\ c[ZONE].user = ANYONE /\ c[ZONE].tag = PU_STATIC
  <2>1. ZONE \in DOMAIN b /\ DOMAIN b \subseteq 0 .. SIZE /\ b[ZONE].user = ANYONE /\ b[ZONE].tag = PU_STATIC
    BY DEF Laid
  <2>2. k \in 0 .. SIZE
    BY <1>2, Sizes
  <2> QED BY <1>3, <1>6, <2>1, <2>2
<1>9. /\ Span(c, k) = b[base].size - size /\ Span(c, base) = size
      /\ \A x \in DOMAIN b : x # base => Span(c, x) = Span(b, x)
  <2>1. k # ZONE
    BY <1>1, <1>2, Marks
  <2> QED BY <1>5, <1>6, <2>1 DEF Span
<1>10. ASSUME NEW x \in DOMAIN c
       PROVE Span(c, x) >= 1 /\ x + Span(c, x) <= SIZE + 1 /\ c[x].next = After(x + Span(c, x))
  <2>1. CASE x = k
    <3>1. k + Span(c, k) = base + b[base].size /\ Span(c, k) >= 1
      BY <1>1, <1>9 DEF k
    <3> QED BY <1>1, <1>5, <2>1, <3>1
  <2>2. CASE x = base
    <3>1. base + Span(c, base) = k /\ Span(c, base) >= 1 /\ c[base].next = k
      BY <1>6, <1>9 DEF k
    <3>2. k <= SIZE + 1 /\ After(k) = k
      BY <1>2, Sizes DEF After
    <3> QED BY <2>2, <3>1, <3>2
  <2>3. CASE x # k /\ x # base
    <3>1. x \in DOMAIN b
      BY <1>3, <2>3
    <3> QED BY <1>6, <1>9, <2>3, <3>1, BlockIs
  <2> QED BY <2>1, <2>2, <2>3
<1>11. ASSUME NEW x \in DOMAIN c, NEW y \in DOMAIN c, x < y PROVE x + Span(c, x) <= y
  <2>0. \A v \in DOMAIN b : v \in Nat
    BY BlockIs
  <2>1. CASE x \in DOMAIN b \ {base} /\ y \in DOMAIN b
    BY <1>9, <1>11, <2>1, BlockIs
  <2>2. CASE x \in DOMAIN b \ {base} /\ y = k
    <3>1. x + Span(b, x) <= base \/ base < x
      <4>1. x < base \/ base < x
        BY <1>1, <2>0, <2>2
      <4> QED BY <2>2, <4>1, BlockIs
    <3>2. CASE base < x
      <4>1. base + Span(b, base) <= x
        BY <2>2, <3>2, BlockIs
      <4>2. x < base + size
        BY <1>11, <2>2 DEF k
      <4>3. x \in Nat
        BY <2>0, <2>2
      <4> QED BY <1>1, <4>1, <4>2, <4>3
    <3>3. CASE x + Span(b, x) <= base
      <4>1. Span(b, x) \in Nat /\ x \in Nat
        BY <2>2, BlockIs
      <4> QED BY <1>1, <1>2, <1>9, <2>2, <3>3, <4>1
    <3> QED BY <3>1, <3>2, <3>3
  <2>3. CASE x = base
    <3>1. y = k \/ base + Span(b, base) <= y
      BY <1>3, <1>11, <2>3, BlockIs
    <3>2. CASE y = k
      BY <1>1, <1>9, <2>3, <3>2 DEF k
    <3>3. CASE base + Span(b, base) <= y /\ y \in DOMAIN b
      <4>1. y \in Nat
        BY <2>0, <3>3
      <4> QED BY <1>1, <1>9, <2>3, <3>3, <4>1
    <3> QED BY <1>3, <3>1, <3>2, <3>3
  <2>4. CASE x = k
    <3>1. y \in DOMAIN b /\ base < y
      <4>1. y # k
        BY <1>2, <1>11, <2>4
      <4>2. y \in DOMAIN b
        BY <1>3, <4>1
      <4>3. y \in Nat
        BY <2>0, <4>2
      <4> QED BY <1>1, <1>2, <1>11, <2>4, <4>2, <4>3
    <3>2. base + Span(b, base) <= y /\ y \in Nat
      BY <2>0, <3>1, BlockIs
    <3> QED BY <1>1, <1>9, <2>4, <3>2 DEF k
  <2> QED BY <1>3, <2>1, <2>2, <2>3, <2>4
<1>12. b[n].prev = base /\ \A x \in DOMAIN b : x # base => b[x].next # n
  BY BlockIs DEF n
<1>13. ASSUME NEW x \in DOMAIN c
       PROVE c[x].next \in DOMAIN c /\ c[x].prev \in DOMAIN c /\ c[c[x].next].prev = x /\ c[c[x].prev].next = x
  <2>1. CASE x = k
    BY <1>1, <1>3, <1>5, <1>6, <2>1
  <2>2. ASSUME x \in DOMAIN b PROVE c[x].next \in DOMAIN c /\ c[c[x].next].prev = x
    <3>1. CASE x = base
      BY <1>3, <1>5, <1>6, <3>1
    <3>2. CASE x # base
      <4>1. b[x].next \in DOMAIN b /\ b[b[x].next].prev = x /\ b[x].next # n
        BY <1>12, <2>2, <3>2, BlockIs
      <4> QED BY <1>3, <1>6, <2>2, <3>2, <4>1
    <3> QED BY <3>1, <3>2
  <2>3. ASSUME x \in DOMAIN b PROVE c[x].prev \in DOMAIN c /\ c[c[x].prev].next = x
    <3>1. CASE x = n
      BY <1>3, <1>5, <1>6, <2>3, <3>1
    <3>2. CASE x # n
      <4>1. b[x].prev \in DOMAIN b /\ b[b[x].prev].next = x
        BY <2>3, BlockIs
      <4>2. b[x].prev # base
        BY <3>2, <4>1 DEF n
      <4> QED BY <1>3, <1>6, <2>3, <3>2, <4>1, <4>2
    <3> QED BY <3>1, <3>2
  <2> QED BY <1>3, <2>1, <2>2, <2>3
<1>14. Laid(c)
  BY <1>7, <1>8, <1>10, <1>11, <1>13 DEF Laid
<1> QED BY <1>2, <1>3, <1>5, <1>6, <1>14 DEF IsSplit, k, n

\* What becomes of the pointers when the block at base is given to an owner.
IsGiven(y, z, tag, owner, base) ==
  /\ DOMAIN y.ptr = DOMAIN z.ptr
  /\ \A o \in DOMAIN z.ptr : y.ptr[o] = IF o = owner THEN base ELSE z.ptr[o]
  /\ base \in DOMAIN y.blocks /\ y.blocks[base].tag = tag
  /\ \A x \in DOMAIN z.blocks \ {base} : x \in DOMAIN y.blocks /\ y.blocks[x].tag = z.blocks[x].tag

\* A zone with a free block that is to be given, cut to its size or not.
IsCut(b, c, size, base) ==
  /\ Laid(c) /\ Apart(c, {base}) /\ DOMAIN b \subseteq DOMAIN c /\ base \in DOMAIN c /\ c[base].size >= size
  /\ \A x \in DOMAIN b : c[x].user = b[x].user /\ c[x].tag = b[x].tag
  /\ \A x \in DOMAIN b : x # base => c[x].size = b[x].size
  /\ \A x \in DOMAIN c \ DOMAIN b : c[x].user = NOBODY

LEMMA FragmentIs ==
  ASSUME NEW z, Shape(z), NEW b, b = z.blocks, Laid(b), Apart(b, {}),
         NEW base \in DOMAIN b, FreeBlock(b[base]), NEW size \in Nat, size >= 1, b[base].size >= size,
         NEW y, y = Fragment(z, size, base)
  PROVE Shape(y) /\ y.ptr = z.ptr /\ IsCut(b, y.blocks, size, base)
<1>0. base # ZONE /\ b[base].size \in Nat
  BY HeadIsOwned, BlockIs
<1>1. CASE b[base].size - size <= MINFRAGMENT
  <2>1. y = z
    BY <1>1 DEF Fragment
  <2>2. Apart(b, {base})
    BY DEF Apart
  <2> QED BY <2>1, <2>2 DEF IsCut
<1>2. CASE ~(b[base].size - size <= MINFRAGMENT)
  <2> DEFINE c == Split(b, size, base)
  <2>1. size < b[base].size
    BY <1>0, <1>2, Sizes
  <2>2. y = Zone(c, z.rover, z.ptr)
    BY <1>2 DEF Fragment
  <2>3. y.blocks = c /\ y.ptr = z.ptr /\ Shape(y)
    <3> HIDE DEF c
    <3>1. y.blocks = c /\ y.rover = z.rover /\ y.ptr = z.ptr
      BY <2>2, ZoneOf
    <3> QED BY <2>2, <3>1 DEF Shape
  <2>4. IsSplit(c, b, size, base)
    <3>1. c = Split(b, size, base)
      OBVIOUS
    <3> HIDE DEF c
    <3> QED BY <1>0, <2>1, <3>1, SplitIs
  <2> HIDE DEF c
  <2>5. /\ Laid(c) /\ DOMAIN c = DOMAIN b \cup {base + size} /\ base + size \notin DOMAIN b
        /\ c[base + size].user = NOBODY /\ c[base + size].next = b[base].next
        /\ c[base].size = size
        /\ \A x \in DOMAIN b : c[x].user = b[x].user /\ c[x].tag = b[x].tag
        /\ \A x \in DOMAIN b : x # base => c[x].size = b[x].size /\ c[x].next = b[x].next
    BY <2>4 DEF IsSplit
  <2>6. \A x \in DOMAIN b : b[x].next \in DOMAIN b
    BY BlockIs
  <2>7. ~FreeBlock(b[b[base].next])
    BY DEF Apart
  <2>8. Apart(c, {base})
    BY <2>5, <2>6, <2>7 DEF Apart, FreeBlock
  <2>9. c[base].size >= size
    BY <2>5
  <2> QED BY <2>3, <2>5, <2>8, <2>9 DEF IsCut
<1> QED BY <1>1, <1>2

LEMMA GivenIs ==
  ASSUME NEW z, Shape(z), Whole(z), Pointers(z, {}),
         NEW base \in DOMAIN z.blocks, FreeBlock(z.blocks[base]),
         NEW size \in Nat, size >= 1, z.blocks[base].size >= size,
         NEW tag \in Nat, NEW owner \in DOMAIN z.ptr \cup {ANYONE},
         owner \in Keepers => tag = PU_STATIC,
         owner \in DOMAIN z.ptr => size >= Bytes(owner) + HEADER,
         owner \in DOMAIN z.ptr \ Keepers => z.ptr[owner] = NULL,
         \A o \in DOMAIN z.ptr : Bytes(o) \in Nat,
         NEW y, y = Give(Fragment(z, size, base), tag, owner, base)
  PROVE Shape(y) /\ Whole(y) /\ Pointers(y, {}) /\ IsGiven(y, z, tag, owner, base)
<1> DEFINE b == z.blocks
           d == y.blocks
<1>0. Laid(b) /\ Apart(b, {}) /\ base # ZONE
  BY HeadIsOwned DEF Whole
<1>1. PICK w : w = Fragment(z, size, base)
  OBVIOUS
<1>2. PICK c : c = w.blocks
  OBVIOUS
<1>3. Shape(w) /\ w.ptr = z.ptr /\ IsCut(b, c, size, base)
  BY <1>0, <1>1, <1>2, FragmentIs
<1>4. /\ Laid(c) /\ Apart(c, {base}) /\ DOMAIN b \subseteq DOMAIN c /\ base \in DOMAIN c /\ c[base].size >= size
      /\ \A x \in DOMAIN b : c[x].user = b[x].user /\ c[x].tag = b[x].tag
      /\ \A x \in DOMAIN b : x # base => c[x].size = b[x].size
      /\ \A x \in DOMAIN c \ DOMAIN b : c[x].user = NOBODY
  BY <1>3 DEF IsCut
<1>5. base \in Nat /\ base # NULL
  BY <1>0, BlockIs, Marks
<1>6. z.ptr \in [DOMAIN z.ptr -> Int] /\ DOMAIN z.ptr \subseteq Keepers \cup Nat
  BY DEF Shape
<1>7. User(owner) \in Int /\ User(owner) # NOBODY /\ (owner \in DOMAIN z.ptr \ Keepers => User(owner) = owner)
      /\ (owner \notin DOMAIN z.ptr \ Keepers => User(owner) = ANYONE)
  <2>1. CASE owner \in Keepers
    BY <2>1, Owners, Marks
  <2>2. CASE owner = ANYONE
    <3>1. ANYONE \notin DOMAIN z.ptr
      BY <1>6, Owners, Marks
    <3> QED BY <2>2, <3>1, Marks DEF User
  <2>3. CASE owner \in Nat
    BY <2>3, UserIs, Marks
  <2> QED BY <1>6, <2>1, <2>2, <2>3
<1>8. PICK q : q = Tell(w.ptr, owner, base)
  OBVIOUS
<1>9. /\ q \in [DOMAIN z.ptr -> Int] /\ DOMAIN q = DOMAIN z.ptr
      /\ \A o \in DOMAIN z.ptr : q[o] = (IF o = owner THEN base ELSE z.ptr[o])
  BY <1>3, <1>5, <1>6, <1>8, TellIs
<1>10. y = Zone(Owned(c, base, User(owner), tag), c[base].next, q)
  BY <1>1, <1>2, <1>8 DEF Give
<1>11. d = Owned(c, base, User(owner), tag) /\ y.rover = c[base].next /\ y.ptr = q
  BY <1>10, ZoneOf
<1>12. IsRedone(d, c, base, User(owner), tag)
  BY <1>0, <1>4, <1>7, <1>11, Redone
<1>13. Shape(y)
  BY <1>6, <1>9, <1>10, <1>11 DEF Shape
<1> HIDE DEF b, d
<1>14. /\ Laid(d) /\ DOMAIN d = DOMAIN c
       /\ \A x \in DOMAIN c : /\ d[x].size = c[x].size /\ d[x].next = c[x].next /\ d[x].prev = c[x].prev
                              /\ d[x].user = (IF x = base THEN User(owner) ELSE c[x].user)
                              /\ d[x].tag = (IF x = base THEN tag ELSE c[x].tag)
  BY <1>12 DEF IsRedone
<1>15. Apart(d, {})
  <2>1. ASSUME NEW x \in DOMAIN c, FreeBlock(d[x]), FreeBlock(d[d[x].next]) PROVE FALSE
    <3>1. x # base /\ c[x].next \in DOMAIN c /\ c[x].next # base
      BY <1>4, <1>7, <1>14, <2>1, BlockIs DEF FreeBlock
    <3> QED BY <1>4, <1>14, <2>1, <3>1 DEF Apart, FreeBlock
  <2> QED BY <1>14, <2>1 DEF Apart
<1>16. y.rover \in DOMAIN d
  BY <1>4, <1>11, <1>14, BlockIs
<1>17. Whole(y)
  BY <1>14, <1>15, <1>16 DEF Whole, d
<1>18. IsGiven(y, z, tag, owner, base)
  <2>1. \A x \in DOMAIN b \ {base} : x \in DOMAIN d /\ d[x].tag = b[x].tag
    BY <1>4, <1>14
  <2>2. base \in DOMAIN d /\ d[base].tag = tag
    BY <1>4, <1>14
  <2> QED BY <1>9, <1>11, <2>1, <2>2 DEF IsGiven, b, d
<1>19. /\ \A o \in DOMAIN z.ptr : Led(z, o)
       /\ \A o, p \in DOMAIN z.ptr : z.ptr[o] = z.ptr[p] /\ z.ptr[o] # NULL => o = p
       /\ \A x \in DOMAIN b : b[x].user \notin {NOBODY, ANYONE} => b[x].user \in DOMAIN z.ptr \ Keepers /\ z.ptr[b[x].user] = x
  BY DEF Pointers, b
<1>20. ASSUME NEW o \in DOMAIN z.ptr, z.ptr[o] # NULL
       PROVE LET x == z.ptr[o] IN x \in DOMAIN b \ {ZONE} /\ x # base /\ x \in DOMAIN d
               /\ d[x].user = User(o) /\ d[x].size = b[x].size /\ d[x].tag = b[x].tag
  <2> DEFINE x == z.ptr[o]
  <2>1. x \in DOMAIN b \ {ZONE} /\ b[x].user = User(o)
    BY <1>19, <1>20 DEF Led, b
  <2>2. User(o) # NOBODY
    <3>1. CASE o \in Keepers
      BY <3>1, Owners, Marks
    <3>2. CASE o \in Nat
      BY <3>2, UserIs
    <3> QED BY <1>6, <3>1, <3>2
  <2>3. x # base
    BY <2>1, <2>2 DEF FreeBlock, b
  <2> HIDE DEF x
  <2>4. x \in DOMAIN c /\ x \in DOMAIN d
    BY <1>4, <1>14, <2>1
  <2>5. d[x].user = User(o) /\ d[x].size = b[x].size /\ d[x].tag = b[x].tag
    BY <1>4, <1>14, <2>1, <2>3, <2>4
  <2> QED BY <2>1, <2>3, <2>4, <2>5 DEF x
<1>21. ASSUME NEW o \in DOMAIN y.ptr PROVE Led(y, o)
  <2>1. o \in DOMAIN z.ptr
    BY <1>9, <1>11
  <2>2. CASE o = owner
    <3>1. d[base].user = User(o) /\ base \in DOMAIN d \ {ZONE} /\ d[base].tag = tag /\ d[base].size = c[base].size
      BY <1>0, <1>4, <1>14, <2>2
    <3>2. d[base].size >= Bytes(o) + HEADER
      <4>1. c[base].size \in Nat
        BY <1>4, BlockIs
      <4> QED BY <1>4, <2>1, <2>2, <3>1, <4>1, Sizes
    <3>3. y.ptr[o] = base
      BY <1>9, <1>11, <2>1, <2>2
    <3> QED BY <2>2, <3>1, <3>2, <3>3 DEF Led, d
  <2>3. CASE o # owner
    <3>1. y.ptr[o] = z.ptr[o]
      BY <1>9, <1>11, <2>1, <2>3
    <3> QED BY <1>19, <1>20, <2>1, <3>1 DEF Led, b, d
  <2> QED BY <2>2, <2>3
<1>22. ASSUME NEW o \in DOMAIN y.ptr, NEW p \in DOMAIN y.ptr, y.ptr[o] = y.ptr[p], y.ptr[o] # NULL PROVE o = p
  <2>1. \A r \in DOMAIN z.ptr : z.ptr[r] # base
    BY <1>5, <1>20
  <2> QED BY <1>9, <1>11, <1>19, <1>22, <2>1
<1>23. ASSUME NEW x \in DOMAIN d, d[x].user \notin {NOBODY, ANYONE}
       PROVE d[x].user \in DOMAIN y.ptr \ Keepers /\ y.ptr[d[x].user] = x
  <2>1. CASE x = base
    BY <1>7, <1>9, <1>11, <1>14, <1>23, <2>1
  <2>2. CASE x # base
    <3>1. x \in DOMAIN b /\ d[x].user = b[x].user
      BY <1>4, <1>14, <1>23, <2>2
    <3>2. b[x].user \in DOMAIN z.ptr \ Keepers /\ z.ptr[b[x].user] = x
      BY <1>19, <1>23, <3>1
    <3>3. x # NULL
      <4>1. x \in Nat
        BY <1>0, <3>1, BlockIs
      <4> QED BY <4>1, Marks
    <3>4. b[x].user # owner
      BY <3>2, <3>3
    <3> QED BY <1>9, <1>11, <3>1, <3>2, <3>4
  <2> QED BY <2>1, <2>2
<1>24. Pointers(y, {})
  BY <1>21, <1>22, <1>23 DEF Pointers, d
<1> QED BY <1>13, <1>17, <1>18, <1>24

(* ----------------------------------------------------------------------- *)
(* Z_Malloc's search                                                        *)
(* ----------------------------------------------------------------------- *)

LEMMA AheadIs ==
  ASSUME NEW b, Laid(b), NEW start \in DOMAIN b
  PROVE /\ Ahead(start, start) = SIZE + 1
        /\ \A x \in DOMAIN b : Ahead(x, start) \in Nat /\ (x # start => Ahead(x, start) < SIZE + 1)
        /\ \A x, y \in DOMAIN b : Ahead(x, start) = Ahead(y, start) => x = y
<1>1. \A x \in DOMAIN b : x \in Nat /\ x <= SIZE
  BY Sizes DEF Laid
<1> QED BY <1>1, Sizes DEF Ahead

\* The block behind is further ahead, and none lies between.
LEMMA Adjacent ==
  ASSUME NEW b, Laid(b), NEW start \in DOMAIN b, NEW a \in DOMAIN b, a # start
  PROVE /\ Ahead(a, start) < Ahead(b[a].next, start)
        /\ \A x \in DOMAIN b : Ahead(x, start) < Ahead(b[a].next, start) => Ahead(x, start) <= Ahead(a, start)
<1> DEFINE n == b[a].next
           e == a + Span(b, a)
<1>1. \A x \in DOMAIN b : x \in Nat /\ x <= SIZE
  BY Sizes DEF Laid
<1>2. e \in Nat /\ e > a /\ e <= SIZE + 1 /\ n = After(e) /\ \A x \in DOMAIN b : a < x => e <= x
  BY <1>1, BlockIs
<1> HIDE DEF e
<1>3. CASE e = SIZE + 1
  <2>1. n = 0 /\ \A x \in DOMAIN b : x <= a
    BY <1>1, <1>2, <1>3, Sizes, Marks DEF After
  <2> QED BY <1>1, <2>1, Sizes DEF Ahead
<1>4. CASE e # SIZE + 1
  <2>1. n = e
    BY <1>2, <1>4 DEF After
  <2>2. a < start => n <= start
    BY <1>2, <2>1
  <2>3. ASSUME NEW x \in DOMAIN b, Ahead(x, start) < Ahead(n, start) PROVE Ahead(x, start) <= Ahead(a, start)
    <3>1. a < x => n <= x
      BY <1>2, <2>1
    <3> QED BY <1>1, <1>2, <2>1, <2>2, <2>3, <3>1, Sizes DEF Ahead
  <2>4. Ahead(a, start) < Ahead(n, start)
    BY <1>1, <1>2, <2>1, <2>2, Sizes DEF Ahead
  <2> QED BY <2>3, <2>4
<1> QED BY <1>3, <1>4

\* The block behind the start is ahead of none.
LEMMA FirstAhead ==
  ASSUME NEW b, Laid(b), NEW start \in DOMAIN b, NEW x \in DOMAIN b
  PROVE Ahead(b[start].next, start) <= Ahead(x, start)
<1> DEFINE n == b[start].next
           e == start + Span(b, start)
<1>1. \A y \in DOMAIN b : y \in Nat /\ y <= SIZE
  BY Sizes DEF Laid
<1>2. e \in Nat /\ e > start /\ e <= SIZE + 1 /\ n = After(e) /\ \A y \in DOMAIN b : start < y => e <= y
  BY <1>1, BlockIs
<1> HIDE DEF e
<1>3. CASE e = SIZE + 1
  <2>1. n = 0 /\ \A y \in DOMAIN b : y <= start
    BY <1>1, <1>2, <1>3, Sizes, Marks DEF After
  <2> QED BY <1>1, <2>1, Sizes DEF Ahead
<1>4. CASE e # SIZE + 1
  <2>1. n = e
    BY <1>2, <1>4 DEF After
  <2>2. start < x => n <= x
    BY <1>2, <2>1
  <2> QED BY <1>1, <1>2, <2>1, <2>2, Sizes DEF Ahead
<1> QED BY <1>3, <1>4

\* What the search's variables say.
LEMMA LookingIs ==
  ASSUME NEW b, Laid(b), NEW s, NEW size, Looking(b, s, size)
  PROVE /\ s.base \in DOMAIN b /\ s.rover \in DOMAIN b /\ s.start \in DOMAIN b
        /\ ~FreeBlock(b[s.start]) /\ ~FreeBlock(b[b[s.base].prev])
        /\ s.rover = s.base \/ (s.rover = b[s.base].next /\ FreeBlock(b[s.base]) /\ b[s.base].size < size)
        /\ TooSmall(b, s, size)
  BY DEF Looking

LEMMA LookStarts ==
  ASSUME NEW b, Laid(b), Apart(b, {}), NEW r \in DOMAIN b, NEW size,
         NEW s, s.base = (IF FreeBlock(b[b[r].prev]) THEN b[r].prev ELSE r), s.rover = s.base, s.start = b[s.base].prev
  PROVE Looking(b, s, size)
<1>1. b[r].prev \in DOMAIN b /\ b[b[r].prev].next = r
  BY BlockIs
<1>2. s.base \in DOMAIN b
  BY <1>1
<1>3. s.start \in DOMAIN b /\ b[s.start].next = s.base
  BY <1>2, BlockIs
<1>4. ~FreeBlock(b[s.start])
  BY <1>1, <1>3 DEF Apart
<1>5. TooSmall(b, s, size)
  <2>1. ASSUME NEW a \in DOMAIN b, Ahead(a, s.start) < Ahead(s.base, s.start) PROVE FALSE
    <3>1. Ahead(s.base, s.start) <= Ahead(a, s.start)
      BY <1>3, FirstAhead
    <3>2. Ahead(s.base, s.start) \in Nat /\ Ahead(a, s.start) \in Nat
      BY <1>2, <1>3, AheadIs
    <3> QED BY <2>1, <3>1, <3>2
  <2> QED BY <2>1 DEF TooSmall
<1> QED BY <1>2, <1>3, <1>4, <1>5 DEF Looking

LEMMA LookSkipsFree ==
  ASSUME NEW b, Laid(b), Apart(b, {}), NEW s, NEW size \in Nat, Looking(b, s, size),
         s.rover # s.start, FreeBlock(b[s.rover]), ~(FreeBlock(b[s.base]) /\ b[s.base].size >= size),
         NEW t, t.base = s.base, t.rover = b[s.rover].next, t.start = s.start
  PROVE Looking(b, t, size) /\ Ahead(t.rover, s.start) > Ahead(s.rover, s.start)
<1>1. s.base \in DOMAIN b /\ s.rover \in DOMAIN b /\ s.start \in DOMAIN b
      /\ ~FreeBlock(b[s.start]) /\ ~FreeBlock(b[b[s.base].prev])
      /\ (s.rover = s.base \/ (s.rover = b[s.base].next /\ FreeBlock(b[s.base]) /\ b[s.base].size < size))
      /\ TooSmall(b, s, size)
  BY LookingIs
<1>2. s.rover = s.base
  BY <1>1 DEF Apart
<1>3. t.rover \in DOMAIN b /\ b[s.base].size \in Nat
  BY <1>1, BlockIs
<1>4. b[s.base].size < size
  BY <1>2, <1>3
<1>5. TooSmall(b, t, size)
  BY <1>1 DEF TooSmall
<1>6. Looking(b, t, size)
  BY <1>1, <1>2, <1>3, <1>4, <1>5 DEF Looking
<1>7. Ahead(s.rover, s.start) < Ahead(t.rover, s.start)
  BY <1>1, Adjacent
<1>8. Ahead(s.rover, s.start) \in Nat /\ Ahead(t.rover, s.start) \in Nat
  BY <1>1, <1>3, AheadIs
<1> QED BY <1>6, <1>7, <1>8

\* What is ahead of the rover no further than it and free is too small.
LEMMA PassedIsTooSmall ==
  ASSUME NEW b, Laid(b), NEW s, NEW size, Looking(b, s, size), ~FreeBlock(b[s.rover]),
         NEW a \in DOMAIN b, FreeBlock(b[a]), Ahead(a, s.start) <= Ahead(s.rover, s.start)
  PROVE b[a].size < size
<1>1. s.base \in DOMAIN b /\ s.rover \in DOMAIN b /\ s.start \in DOMAIN b
      /\ ~FreeBlock(b[s.start])
      /\ (s.rover = s.base \/ (s.rover = b[s.base].next /\ FreeBlock(b[s.base]) /\ b[s.base].size < size))
      /\ TooSmall(b, s, size)
  BY LookingIs
<1>2. a # s.rover /\ Ahead(a, s.start) \in Nat /\ Ahead(s.rover, s.start) \in Nat /\ Ahead(s.base, s.start) \in Nat
  BY <1>1, AheadIs
<1>3. Ahead(a, s.start) # Ahead(s.rover, s.start)
  BY <1>1, <1>2, AheadIs
<1>4. Ahead(a, s.start) < Ahead(s.rover, s.start)
  BY <1>2, <1>3
<1>5. CASE s.rover = s.base
  BY <1>1, <1>4, <1>5 DEF TooSmall
<1>6. CASE s.rover # s.base
  <2>1. s.base # s.start /\ s.rover = b[s.base].next
    BY <1>1, <1>6
  <2>2. Ahead(a, s.start) <= Ahead(s.base, s.start)
    BY <1>1, <1>4, <2>1, Adjacent
  <2>3. CASE a = s.base
    BY <1>1, <1>6, <2>3
  <2>4. CASE a # s.base
    <3>1. Ahead(a, s.start) # Ahead(s.base, s.start)
      BY <1>1, <2>4, AheadIs
    <3>2. Ahead(a, s.start) < Ahead(s.base, s.start)
      BY <1>2, <2>2, <3>1
    <3> QED BY <1>1, <3>2 DEF TooSmall
  <2> QED BY <2>3, <2>4
<1> QED BY <1>5, <1>6

LEMMA LookSkipsOwned ==
  ASSUME NEW b, Laid(b), NEW s, NEW size, Looking(b, s, size),
         s.rover # s.start, ~FreeBlock(b[s.rover]),
         NEW t, t.base = b[s.rover].next, t.rover = t.base, t.start = s.start
  PROVE Looking(b, t, size) /\ Ahead(t.rover, s.start) > Ahead(s.rover, s.start)
<1>1. s.rover \in DOMAIN b /\ s.start \in DOMAIN b /\ ~FreeBlock(b[s.start])
  BY LookingIs
<1>2. t.base \in DOMAIN b /\ b[t.base].prev = s.rover
  BY <1>1, BlockIs
<1>3. /\ Ahead(s.rover, s.start) < Ahead(t.base, s.start)
      /\ \A x \in DOMAIN b : Ahead(x, s.start) < Ahead(t.base, s.start) => Ahead(x, s.start) <= Ahead(s.rover, s.start)
  BY <1>1, Adjacent
<1>4. TooSmall(b, t, size)
  BY <1>3, PassedIsTooSmall DEF TooSmall
<1>5. Looking(b, t, size)
  BY <1>1, <1>2, <1>4 DEF Looking
<1>6. Ahead(s.rover, s.start) \in Nat /\ Ahead(t.rover, s.start) \in Nat
  BY <1>1, <1>2, AheadIs
<1> QED BY <1>3, <1>5, <1>6

\* What is purged is merged into the base.
LEMMA PurgedBase ==
  ASSUME NEW z, Shape(z), Whole(z), NEW s, NEW size, Looking(z.blocks, s, size),
         s.rover # ZONE, ~FreeBlock(z.blocks[s.rover]), NEW y, y = Freed(z, s.rover)
  PROVE /\ MergedAt(z, s.rover) = s.base /\ IsFreed(y, z, s.rover, s.base)
        /\ y.blocks[z.blocks[s.base].prev].next = s.base /\ s.base \in DOMAIN y.blocks /\ FreeBlock(y.blocks[s.base])
<1> DEFINE b == z.blocks
           c == y.blocks
           m == MergedAt(z, s.rover)
<1>0. Laid(b)
  BY DEF Whole
<1>1. /\ s.base \in DOMAIN b /\ s.rover \in DOMAIN b /\ ~FreeBlock(b[b[s.base].prev])
      /\ (s.rover = s.base \/ (s.rover = b[s.base].next /\ FreeBlock(b[s.base]) /\ b[s.base].size < size))
  BY <1>0, LookingIs
<1>2. m = s.base
  <2>1. b[b[s.base].next].prev = s.base
    BY <1>0, <1>1, BlockIs
  <2> QED BY <1>1, <2>1 DEF MergedAt
<1>3. IsFreed(y, z, s.rover, m)
  BY <1>1, FreedIs
<1> HIDE DEF m
<1>4. Laid(c) /\ s.base \in DOMAIN c /\ FreeBlock(c[s.base]) /\ c[s.base].prev = b[s.base].prev
  BY <1>2, <1>3 DEF IsFreed, Whole
<1> HIDE DEF c, b
<1>5. c[c[s.base].prev].next = s.base
  BY <1>4, BlockIs
<1> QED BY <1>2, <1>3, <1>4, <1>5 DEF m, b, c

LEMMA Further == \A i, j \in Nat : ~(i < j) /\ i # j => i > j
  OBVIOUS

\* The search goes on behind the base.
LEMMA LookPurges ==
  ASSUME NEW z, Shape(z), Whole(z), NEW s, NEW size \in Nat, Looking(z.blocks, s, size),
         s.rover # s.start, s.rover # ZONE, ~FreeBlock(z.blocks[s.rover]),
         NEW y, y = Freed(z, s.rover), y.blocks[s.base].size < size,
         NEW t, t.base = s.base, t.rover = y.blocks[s.base].next, t.start = s.start
  PROVE Looking(y.blocks, t, size) /\ Ahead(t.rover, s.start) > Ahead(s.rover, s.start)
<1> DEFINE b == z.blocks
           c == y.blocks
           base == s.base
<1>0. Laid(b) /\ Apart(b, {})
  BY DEF Whole
<1>1. /\ s.base \in DOMAIN b /\ s.rover \in DOMAIN b /\ s.start \in DOMAIN b
      /\ ~FreeBlock(b[s.start]) /\ ~FreeBlock(b[b[s.base].prev])
      /\ (s.rover = s.base \/ (s.rover = b[s.base].next /\ FreeBlock(b[s.base]) /\ b[s.base].size < size))
      /\ TooSmall(b, s, size)
  BY <1>0, LookingIs
<1>3. IsFreed(y, z, s.rover, s.base)
  BY PurgedBase
<1>4. /\ Laid(c) /\ Apart(c, {})
      /\ s.base \in DOMAIN c /\ FreeBlock(c[s.base]) /\ c[s.base].prev = b[s.base].prev
      /\ DOMAIN c \subseteq DOMAIN b /\ (s.base # s.rover => s.rover \notin DOMAIN c)
      /\ \A x \in DOMAIN b : x # s.rover /\ ~FreeBlock(b[x]) => x \in DOMAIN c
      /\ \A x \in DOMAIN c : x # s.base => c[x].user = b[x].user /\ c[x].tag = b[x].tag /\ c[x].size = b[x].size
  BY <1>3 DEF IsFreed, Whole
<1> HIDE DEF b, c
<1>6. c[base].next \in DOMAIN c
  BY <1>4, BlockIs
<1>t. t.base = base /\ t.rover = c[base].next /\ t.start = s.start /\ c[base].size < size
  BY DEF c
<1>7. Looking(c, t, size) /\ Ahead(t.rover, s.start) > Ahead(s.rover, s.start)
  <2>1. s.start \in DOMAIN c /\ s.start # s.base /\ ~FreeBlock(c[s.start])
    <3>1. s.start # s.base
      <4>1. s.rover = s.base \/ FreeBlock(b[s.base])
        BY <1>1
      <4> QED BY <1>1, <4>1
    <3>2. s.start \in DOMAIN c
      BY <1>1, <1>4
    <3> QED BY <1>1, <1>4, <3>1, <3>2 DEF FreeBlock
  <2>2. ~FreeBlock(c[c[base].prev])
    <3>1. c[base].prev \in DOMAIN c /\ c[c[base].prev].next = base
      BY <1>4, BlockIs
    <3> QED BY <1>4, <3>1 DEF Apart
  <2>3. TooSmall(c, t, size)
    <3>1. ASSUME NEW a \in DOMAIN c, FreeBlock(c[a]), Ahead(a, t.start) < Ahead(t.base, t.start) PROVE c[a].size < size
      <4>1. Ahead(s.base, s.start) \in Nat
        BY <1>1, <1>0, AheadIs
      <4>2. a # s.base
        BY <1>t, <3>1, <4>1
      <4>3. a \in DOMAIN b /\ FreeBlock(b[a]) /\ c[a].size = b[a].size
        BY <1>4, <3>1, <4>2 DEF FreeBlock
      <4> QED BY <1>1, <1>t, <3>1, <4>3 DEF TooSmall
    <3> QED BY <3>1 DEF TooSmall
  <2>4. Looking(c, t, size)
    BY <1>4, <1>6, <1>t, <2>1, <2>2, <2>3 DEF Looking
  <2>5. Ahead(base, s.start) < Ahead(t.rover, s.start)
    BY <1>4, <1>t, <2>1, Adjacent
  <2>6. Ahead(base, s.start) \in Nat /\ Ahead(t.rover, s.start) \in Nat /\ Ahead(s.rover, s.start) \in Nat
    BY <1>0, <1>1, <1>4, <1>6, <1>t, AheadIs
  <2>7. CASE s.rover = s.base
    BY <1>t, <2>4, <2>5, <2>6, <2>7
  <2>8. CASE s.rover # s.base
    <3>1. t.rover # s.rover /\ t.rover \in DOMAIN b
      BY <1>4, <1>6, <1>t, <2>8
    <3>2. ~(Ahead(t.rover, s.start) < Ahead(s.rover, s.start))
      <4>1. ASSUME Ahead(t.rover, s.start) < Ahead(s.rover, s.start) PROVE FALSE
        <5>1. s.rover = b[s.base].next
          BY <1>1, <2>8
        <5>2. Ahead(t.rover, s.start) <= Ahead(s.base, s.start)
          BY <1>0, <1>1, <2>1, <3>1, <4>1, <5>1, Adjacent
        <5> QED BY <2>5, <2>6, <5>2
      <4> QED BY <4>1
    <3>3. Ahead(t.rover, s.start) # Ahead(s.rover, s.start)
      BY <1>0, <1>1, <3>1, AheadIs
    <3>4. Ahead(t.rover, s.start) > Ahead(s.rover, s.start)
      BY <2>6, <3>2, <3>3, Further
    <3> QED BY <2>4, <3>4
  <2> QED BY <2>7, <2>8
<1> QED BY <1>7 DEF c

\* A search that has come to its end saw that every free block is too small.
LEMMA LookFails ==
  ASSUME NEW b, Laid(b), NEW s, NEW size, Looking(b, s, size), s.rover = s.start
  PROVE \A a \in DOMAIN b : FreeBlock(b[a]) => b[a].size < size
<1>1. s.start \in DOMAIN b /\ ~FreeBlock(b[s.start])
  BY LookingIs
<1>2. ASSUME NEW a \in DOMAIN b, FreeBlock(b[a]) PROVE b[a].size < size
  <2>1. Ahead(a, s.start) <= Ahead(s.rover, s.start)
    BY <1>1, <1>2, AheadIs, Sizes
  <2> QED BY <1>1, <1>2, <2>1, PassedIsTooSmall
<1> QED BY <1>2

(* ----------------------------------------------------------------------- *)
(* The calls that are pending                                               *)
(* ----------------------------------------------------------------------- *)

LEMMA TailIs ==
  ASSUME NEW T, NEW q \in Seq(T), q # <<>>
  PROVE /\ Head(q) = q[1] /\ Len(q) \in Nat \ {0} /\ 1 \in DOMAIN q /\ DOMAIN q = 1 .. Len(q)
        /\ Tail(q) \in Seq(T) /\ Len(Tail(q)) = Len(q) - 1 /\ \A j \in 1 .. Len(q) - 1 : Tail(q)[j] = q[j + 1]
  OBVIOUS

\* An owner's pointer leads to a block of its kind.
HasIn(z, o) == z.ptr[o] # NULL /\ z.blocks[z.ptr[o]].tag = Kind(o)

LEMMA KindSame ==
  ASSUME UNCHANGED lumpinfo, NEW o, NEW c
  PROVE /\ Kind(o)' = Kind(o) /\ (Takes(c, o)' <=> Takes(c, o)) /\ (Brings(c, o)' <=> Brings(c, o))
        /\ (Needs(c, o)' <=> Needs(c, o)) /\ Bytes(o)' = Bytes(o)
  BY DEF Kind, Takes, Brings, Needs, Bytes

\* The call is not yet done: what comes after it finds what it found.
LEMMA SuppliedStays ==
  ASSUME UNCHANGED lumpinfo, DOMAIN ptr' = DOMAIN ptr, NEW o, NEW i \in Nat, i >= 2, Supplied(o, i),
         Has(o) /\ ~Takes(todo[1], o) => Has(o)',
         \A j \in 1 .. i - 1 : (Takes(todo'[j], o) <=> Takes(todo[j], o)) /\ (Brings(todo'[j], o) <=> Brings(todo[j], o))
  PROVE Supplied(o, i)'
<1>1. /\ o \in DOMAIN ptr
      /\ Has(o) \/ \E j \in 1 .. i - 1 : Brings(todo[j], o)
      /\ \A j \in 1 .. i - 1 : Takes(todo[j], o) => \E k \in j + 1 .. i - 1 : Brings(todo[k], o)
  BY DEF Supplied
<1>2. \A j \in 1 .. i - 1 : (Takes(todo[j], o)' <=> Takes(todo[j], o)) /\ (Brings(todo[j], o)' <=> Brings(todo[j], o))
  <2>1. \A j : (Takes(todo[j], o)' <=> Takes(todo'[j], o)) /\ (Brings(todo[j], o)' <=> Brings(todo'[j], o))
    BY KindSame DEF Takes, Brings
  <2> QED BY <2>1
<1>3. Has(o)' \/ \E j \in 1 .. i - 1 : Brings(todo[j], o)
  <2>1. CASE Has(o) /\ Takes(todo[1], o)
    <3>1. PICK k \in 2 .. i - 1 : Brings(todo[k], o)
      <4>1. 1 \in 1 .. i - 1
        OBVIOUS
      <4> QED BY <1>1, <2>1, <4>1
    <3> QED BY <3>1
  <2>2. CASE ~(Has(o) /\ Takes(todo[1], o))
    BY <1>1, <2>2
  <2> QED BY <2>1, <2>2
<1>4. \A j \in 1 .. i - 1 : Takes(todo[j], o)' => \E k \in j + 1 .. i - 1 : Brings(todo[k], o)'
  <2>1. SUFFICES ASSUME NEW j \in 1 .. i - 1, Takes(todo[j], o)' PROVE \E k \in j + 1 .. i - 1 : Brings(todo[k], o)'
    OBVIOUS
  <2>2. PICK k \in j + 1 .. i - 1 : Brings(todo[k], o)
    BY <1>1, <1>2, <2>1
  <2>3. k \in 1 .. i - 1
    OBVIOUS
  <2> QED BY <1>2, <2>2, <2>3
<1>5. o \in DOMAIN ptr'
  BY <1>1
<1>6. Has(o)' \/ \E j \in 1 .. i - 1 : Brings(todo[j], o)'
  BY <1>2, <1>3
<1> QED BY <1>4, <1>5, <1>6 DEF Supplied

\* The call is done: those that are left find what they found behind it.
LEMMA SuppliedPops ==
  ASSUME UNCHANGED lumpinfo, DOMAIN ptr' = DOMAIN ptr, NEW o, NEW i \in Nat, i >= 2, Supplied(o, i),
         Has(o) /\ ~Takes(todo[1], o) => Has(o)',
         Brings(todo[1], o) => Has(o)',
         \A j \in 1 .. i - 2 : todo'[j] = todo[j + 1]
  PROVE Supplied(o, i - 1)'
<1>1. /\ o \in DOMAIN ptr
      /\ Has(o) \/ \E j \in 1 .. i - 1 : Brings(todo[j], o)
      /\ \A j \in 1 .. i - 1 : Takes(todo[j], o) => \E k \in j + 1 .. i - 1 : Brings(todo[k], o)
  BY DEF Supplied
<1>2. \A j \in 1 .. i - 2 : (Takes(todo[j], o)' <=> Takes(todo[j + 1], o)) /\ (Brings(todo[j], o)' <=> Brings(todo[j + 1], o))
  <2>1. \A j : (Takes(todo[j], o)' <=> Takes(todo'[j], o)) /\ (Brings(todo[j], o)' <=> Brings(todo'[j], o))
    BY KindSame DEF Takes, Brings
  <2> QED BY <2>1
<1>s. \A k \in 2 .. i - 1 : Brings(todo[k], o) => \E j \in 1 .. i - 2 : j = k - 1 /\ Brings(todo[j], o)'
  <2>1. SUFFICES ASSUME NEW k \in 2 .. i - 1, Brings(todo[k], o) PROVE k - 1 \in 1 .. i - 2 /\ Brings(todo[k - 1], o)'
    OBVIOUS
  <2>2. k - 1 \in 1 .. i - 2 /\ (k - 1) + 1 = k
    OBVIOUS
  <2> QED BY <1>2, <2>1, <2>2
<1>3. Has(o)' \/ \E j \in 1 .. i - 2 : Brings(todo[j], o)'
  <2>0. 1 \in 1 .. i - 1 /\ \A k : k \in 1 .. i - 1 => k = 1 \/ k \in 2 .. i - 1
    OBVIOUS
  <2>1. CASE \E k \in 2 .. i - 1 : Brings(todo[k], o)
    BY <1>s, <2>1
  <2>2. CASE ~\E k \in 2 .. i - 1 : Brings(todo[k], o)
    <3>1. ~Takes(todo[1], o)
      BY <1>1, <2>0, <2>2
    <3>2. Has(o) \/ Brings(todo[1], o)
      BY <1>1, <2>0, <2>2
    <3> QED BY <3>1, <3>2
  <2> QED BY <2>1, <2>2
<1>4. \A j \in 1 .. i - 2 : Takes(todo[j], o)' => \E k \in j + 1 .. i - 2 : Brings(todo[k], o)'
  <2>1. SUFFICES ASSUME NEW j \in 1 .. i - 2, Takes(todo[j], o)' PROVE \E k \in j + 1 .. i - 2 : Brings(todo[k], o)'
    OBVIOUS
  <2>2. j + 1 \in 1 .. i - 1 /\ (j + 1) + 1 = j + 2
    OBVIOUS
  <2>3. PICK k \in j + 2 .. i - 1 : Brings(todo[k], o)
    BY <1>1, <1>2, <2>1, <2>2
  <2>4. k \in 2 .. i - 1 /\ k - 1 \in j + 1 .. i - 2
    OBVIOUS
  <2> QED BY <1>s, <2>3, <2>4
<1>5. (i - 1) - 1 = i - 2 /\ o \in DOMAIN ptr'
  BY <1>1
<1> QED BY <1>3, <1>4, <1>5 DEF Supplied

LEMMA ACallSame ==
  ASSUME UNCHANGED lumpinfo, DOMAIN ptr' = DOMAIN ptr, NEW c
  PROVE ACall(c)' <=> ACall(c)
  BY KindSame DEF ACall

LEMMA HeldBySame ==
  ASSUME UNCHANGED lumpinfo, UNCHANGED phase
  PROVE HeldBy' = HeldBy
  BY DEF HeldBy, Held, W_CheckNumForName

\* Who only searches takes nothing away.
LEMMA SuppliedSame ==
  ASSUME HeldIsSupplied, UNCHANGED <<blocks, ptr, todo, lumpinfo, phase>>
  PROVE HeldIsSupplied'
<1>1. HeldBy' = HeldBy
  BY HeldBySame
<1>2. ASSUME NEW o PROVE Kind(o)' = Kind(o) /\ Has(o)' = Has(o)
  BY DEF Kind, Has
<1>3. ASSUME NEW o, NEW c PROVE Brings(c, o)' = Brings(c, o) /\ Takes(c, o)' = Takes(c, o)
  BY <1>2 DEF Brings, Takes
<1>4. todo' = todo /\ ptr' = ptr
  OBVIOUS
<1>5. ASSUME NEW o \in HeldBy PROVE Supplied(o, Len(todo) + 1)'
  <2>1. Supplied(o, Len(todo) + 1)
    BY <1>5 DEF HeldIsSupplied
  <2> QED BY <2>1, <1>2, <1>3, <1>4 DEF Supplied
<1> QED BY <1>1, <1>5 DEF HeldIsSupplied

\* A call is done.
LEMMA CallPops ==
  ASSUME CallsAreRight, HeldIsSupplied, todo # <<>>, todo' = Tail(todo),
         UNCHANGED lumpinfo, UNCHANGED phase, DOMAIN ptr' = DOMAIN ptr,
         \A o \in DOMAIN ptr : (Has(o) /\ ~Takes(todo[1], o) => Has(o)') /\ (Brings(todo[1], o) => Has(o)')
  PROVE CallsAreRight' /\ HeldIsSupplied'
<1>0. PICK n : n = Len(todo)
  OBVIOUS
<1>1. /\ todo \in Seq(CallType) /\ n \in Nat \ {0} /\ DOMAIN todo = 1 .. n /\ todo' \in Seq(CallType)
      /\ Len(todo') = n - 1 /\ DOMAIN todo' = 1 .. n - 1
      /\ \A j \in 1 .. n - 1 : todo'[j] = todo[j + 1] /\ j + 1 \in DOMAIN todo /\ j + 1 # 1
  BY <1>0, TailIs DEF CallsAreRight
<1>2. ASSUME NEW o, NEW i \in 2 .. n + 1, Supplied(o, i) PROVE Supplied(o, i - 1)'
  <2>1. o \in DOMAIN ptr
    BY <1>2 DEF Supplied
  <2>2. i \in Nat /\ i >= 2 /\ \A j \in 1 .. i - 2 : todo'[j] = todo[j + 1]
    BY <1>1
  <2> QED BY <1>2, <2>1, <2>2, SuppliedPops
<1>3. ASSUME NEW i \in DOMAIN todo' PROVE ACall(todo[i])'
  <2>1. PICK c : c = todo[i + 1]
    OBVIOUS
  <2>2. ACall(c)
    BY <1>1, <2>1 DEF CallsAreRight
  <2>3. ACall(c)'
    BY <2>2, ACallSame
  <2>4. c = todo'[i]
    BY <1>1, <2>1
  <2> QED BY <2>3, <2>4 DEF ACall
<1>4. ASSUME NEW i \in DOMAIN todo' PROVE ~(todo[i].call = "Z_Malloc" /\ todo[i].owner >= COMPOSITE)'
  <2>1. i + 1 \in DOMAIN todo /\ i + 1 # 1 /\ todo'[i] = todo[i + 1]
    BY <1>1
  <2> QED BY <2>1 DEF CallsAreRight
<1>5. ASSUME NEW i \in DOMAIN todo', Needs(todo[i], todo[i].owner)' PROVE Supplied(todo[i].owner, i)'
  <2>1. i + 1 \in DOMAIN todo /\ todo'[i] = todo[i + 1] /\ i + 1 \in 2 .. n + 1 /\ (i + 1) - 1 = i
    BY <1>1
  <2>2. PICK o : o = todo[i + 1].owner
    OBVIOUS
  <2>3. Needs(todo[i + 1], o)
    BY <1>5, <2>1, <2>2 DEF Needs
  <2>4. Supplied(o, i + 1)
    BY <2>1, <2>2, <2>3 DEF CallsAreRight
  <2>5. Supplied(o, i)'
    BY <1>2, <2>1, <2>4
  <2>6. todo'[i].owner = o
    BY <2>1, <2>2
  <2> QED BY <2>5, <2>6 DEF Supplied
<1>6. CallsAreRight'
  BY <1>1, <1>3, <1>4, <1>5 DEF CallsAreRight
<1>7. ASSUME NEW o \in HeldBy PROVE Supplied(o, Len(todo) + 1)'
  <2>1. Supplied(o, n + 1)
    BY <1>0, <1>7 DEF HeldIsSupplied
  <2>2. n + 1 \in 2 .. n + 1 /\ (n + 1) - 1 = n
    BY <1>1
  <2>3. Supplied(o, n)'
    BY <1>2, <2>1, <2>2
  <2>4. (Len(todo) + 1)' = n
    BY <1>1
  <2> QED BY <2>3, <2>4 DEF Supplied
<1>8. HeldIsSupplied'
  BY <1>7, HeldBySame DEF HeldIsSupplied
<1> QED BY <1>6, <1>8

\* A call is not yet done, or gives way to another that does the same.
LEMMA CallStays ==
  ASSUME CallsAreRight, HeldIsSupplied, todo # <<>>, NEW c \in CallType, todo' = <<c>> \o Tail(todo),
         UNCHANGED lumpinfo, UNCHANGED phase, DOMAIN ptr' = DOMAIN ptr,
         ACall(c), c.call \notin {"Z_Free", "Z_ChangeTag"},
         \A o \in DOMAIN ptr : (Takes(c, o) <=> Takes(todo[1], o)) /\ (Brings(c, o) <=> Brings(todo[1], o)),
         c.call = "Z_Malloc" /\ c.owner >= COMPOSITE => ptr'[c.owner] = NULL,
         \A o \in DOMAIN ptr : Has(o) /\ ~Takes(todo[1], o) => Has(o)'
  PROVE CallsAreRight' /\ HeldIsSupplied'
<1>0. PICK n : n = Len(todo)
  OBVIOUS
<1>1. /\ todo \in Seq(CallType) /\ n \in Nat \ {0} /\ DOMAIN todo = 1 .. n /\ todo' \in Seq(CallType)
      /\ Len(todo') = n /\ DOMAIN todo' = 1 .. n
      /\ todo'[1] = c /\ \A j \in 2 .. n : todo'[j] = todo[j] /\ j \in DOMAIN todo /\ j # 1
  <2>1. /\ todo \in Seq(CallType) /\ n \in Nat \ {0} /\ DOMAIN todo = 1 .. n
        /\ Tail(todo) \in Seq(CallType) /\ Len(Tail(todo)) = n - 1 /\ \A j \in 1 .. n - 1 : Tail(todo)[j] = todo[j + 1]
    BY <1>0, TailIs DEF CallsAreRight
  <2>2. PICK t \in Seq(CallType) : t = Tail(todo)
    BY <2>1
  <2>3. <<c>> \in Seq(CallType) /\ Len(<<c>>) = 1 /\ <<c>>[1] = c
    OBVIOUS
  <2>4. /\ todo' \in Seq(CallType) /\ Len(todo') = n
        /\ \A j \in 1 .. n : todo'[j] = IF j <= 1 THEN <<c>>[j] ELSE t[j - 1]
    <3>1. todo' = <<c>> \o t
      BY <2>2
    <3> QED BY <2>1, <2>2, <2>3, <3>1, ConcatProperties
  <2>5. ASSUME NEW j \in 2 .. n PROVE todo'[j] = todo[j] /\ j \in DOMAIN todo /\ j # 1
    <3>1. j - 1 \in 1 .. n - 1 /\ (j - 1) + 1 = j /\ j \in 1 .. n /\ ~(j <= 1)
      BY <2>1
    <3> QED BY <2>1, <2>2, <2>4, <3>1
  <2>6. todo'[1] = c
    BY <2>1, <2>3, <2>4
  <2>7. DOMAIN todo' = 1 .. n
    BY <2>4
  <2> QED BY <2>1, <2>4, <2>5, <2>6, <2>7
<1>2. ASSUME NEW o, NEW i \in 2 .. n + 1, Supplied(o, i) PROVE Supplied(o, i)'
  <2>1. o \in DOMAIN ptr
    BY <1>2 DEF Supplied
  <2>2. \A j \in 1 .. i - 1 : (Takes(todo'[j], o) <=> Takes(todo[j], o)) /\ (Brings(todo'[j], o) <=> Brings(todo[j], o))
    <3>1. ASSUME NEW j \in 1 .. i - 1
          PROVE (Takes(todo'[j], o) <=> Takes(todo[j], o)) /\ (Brings(todo'[j], o) <=> Brings(todo[j], o))
      <4>1. j = 1 \/ j \in 2 .. n
        BY <1>1
      <4> QED BY <1>1, <2>1, <4>1
    <3> QED BY <3>1
  <2>3. i \in Nat /\ i >= 2
    BY <1>1
  <2> QED BY <1>2, <2>1, <2>2, <2>3, SuppliedStays
<1>3. ASSUME NEW i \in DOMAIN todo' PROVE ACall(todo[i])'
  <2>1. PICK d : d = todo'[i]
    OBVIOUS
  <2>2. ACall(d)
    <3>1. i = 1 \/ i \in 2 .. n
      BY <1>1
    <3> QED BY <1>1, <2>1, <3>1 DEF CallsAreRight
  <2>3. ACall(d)'
    BY <2>2, ACallSame
  <2> QED BY <2>1, <2>3 DEF ACall
<1>4. ASSUME NEW i \in DOMAIN todo', (todo[i].call = "Z_Malloc" /\ todo[i].owner >= COMPOSITE)'
      PROVE i = 1 /\ (ptr[todo[i].owner] = NULL)'
  <2>1. i = 1 \/ i \in 2 .. n
    BY <1>1
  <2>2. CASE i \in 2 .. n
    BY <1>1, <1>4, <2>2 DEF CallsAreRight
  <2>3. CASE i = 1
    BY <1>1, <1>4, <2>3
  <2> QED BY <2>1, <2>2, <2>3
<1>5. ASSUME NEW i \in DOMAIN todo', Needs(todo[i], todo[i].owner)' PROVE Supplied(todo[i].owner, i)'
  <2>1. i \in 2 .. n
    <3>1. i # 1
      BY <1>1, <1>5 DEF Needs
    <3> QED BY <1>1, <3>1
  <2>2. PICK o : o = todo[i].owner
    OBVIOUS
  <2>3. todo'[i] = todo[i] /\ i \in DOMAIN todo
    BY <1>1, <2>1
  <2>4. Needs(todo[i], o)
    BY <1>5, <2>2, <2>3 DEF Needs
  <2>5. Supplied(o, i)
    BY <2>2, <2>3, <2>4 DEF CallsAreRight
  <2>6. Supplied(o, i)'
    BY <1>2, <1>1, <2>1, <2>5
  <2>7. todo'[i].owner = o
    BY <2>2, <2>3
  <2> QED BY <2>6, <2>7 DEF Supplied
<1>6. CallsAreRight'
  BY <1>1, <1>3, <1>4, <1>5 DEF CallsAreRight
<1>7. ASSUME NEW o \in HeldBy PROVE Supplied(o, Len(todo) + 1)'
  <2>1. Supplied(o, n + 1)
    BY <1>0, <1>7 DEF HeldIsSupplied
  <2>2. n + 1 \in 2 .. n + 1
    BY <1>1
  <2>3. Supplied(o, n + 1)'
    BY <1>2, <2>1, <2>2
  <2>4. (Len(todo) + 1)' = n + 1
    BY <1>1
  <2> QED BY <2>3, <2>4 DEF Supplied
<1>8. HeldIsSupplied'
  BY <1>7, HeldBySame DEF HeldIsSupplied
<1> QED BY <1>6, <1>8

\* The call under way goes on.
LEMMA CallWaits ==
  ASSUME CallsAreRight, HeldIsSupplied, todo # <<>>, UNCHANGED todo,
         UNCHANGED lumpinfo, UNCHANGED phase, DOMAIN ptr' = DOMAIN ptr,
         todo[1].call \notin {"Z_Free", "Z_ChangeTag"},
         \A o \in DOMAIN ptr : ptr[o] = NULL => ptr'[o] = NULL,
         \A o \in DOMAIN ptr : Has(o) /\ ~Takes(todo[1], o) => Has(o)'
  PROVE CallsAreRight' /\ HeldIsSupplied'
<1>1. todo \in Seq(CallType) /\ 1 \in DOMAIN todo /\ todo[1] \in CallType
  BY DEF CallsAreRight
<1>2. todo' = <<todo[1]>> \o Tail(todo)
  BY <1>1
<1>3. ACall(todo[1])
  BY <1>1 DEF CallsAreRight
<1>4. todo[1].call = "Z_Malloc" /\ todo[1].owner >= COMPOSITE => ptr'[todo[1].owner] = NULL
  <2>1. ASSUME todo[1].call = "Z_Malloc", todo[1].owner >= COMPOSITE PROVE ptr[todo[1].owner] = NULL /\ todo[1].owner \in DOMAIN ptr
    <3>1. todo[1].owner # ANYONE
      BY <2>1, Marks
    <3>2. todo[1].owner \in DOMAIN ptr
      BY <1>3, <2>1, <3>1 DEF ACall
    <3> QED BY <1>1, <2>1, <3>2 DEF CallsAreRight
  <2> QED BY <2>1
<1>5. PICK c : c = todo[1]
  OBVIOUS
<1> QED BY <1>1, <1>2, <1>3, <1>4, <1>5, CallStays

(* ----------------------------------------------------------------------- *)
(* The steps                                                                *)
(* ----------------------------------------------------------------------- *)

LEMMA LumpBytes ==
  ASSUME LumpsAreThere, NEW o \in DOMAIN ptr
  PROVE Bytes(o) \in Nat
<1>1. o \in Keepers \/ o = COMPOSITE \/ o \in DOMAIN lumpinfo
  BY DEF LumpsAreThere
<1>2. COMPOSITESIZE \in Nat /\ TABLESIZE \in Nat
  BY ZoneAssumption DEF TABLESIZE
<1>3. o \in DOMAIN lumpinfo => lumpinfo[o].size \in Nat
  <2>1. lumpinfo \in Seq(Lump)
    BY DEF LumpsAreThere
  <2>2. o \in DOMAIN lumpinfo => lumpinfo[o] \in Lump
    BY <2>1
  <2> QED BY <2>2 DEF Lump
<1> QED BY <1>1, <1>2, <1>3 DEF Bytes

\* What holds of the zone before a step.
LEMMA Before ==
  ASSUME ZoneInv
  PROVE /\ Z.blocks = blocks /\ Z.rover = rover /\ Z.ptr = ptr
        /\ Shape(Z) /\ Whole(Z) /\ Pointers(Z, {})
        /\ Laid(blocks) /\ Apart(blocks, {}) /\ rover \in DOMAIN blocks
        /\ ptr \in [DOMAIN ptr -> Int] /\ DOMAIN ptr \subseteq Keepers \cup Nat
        /\ \A o \in DOMAIN ptr : Bytes(o) \in Nat
        /\ \A o : Has(o) <=> HasIn(Z, o)
<1>1. Z.blocks = blocks /\ Z.rover = rover /\ Z.ptr = ptr
  BY ZoneOf DEF Z
<1>2. ptr \in [DOMAIN ptr -> Int] /\ DOMAIN ptr \subseteq Keepers \cup Nat
  <2>1. ptr \in [Keepers \cup {COMPOSITE} \cup (IF phase = "adding" THEN {} ELSE DOMAIN lumpinfo) -> Int]
    BY DEF ZoneInv, LumpsAreThere
  <2>2. DOMAIN lumpinfo \subseteq Nat /\ COMPOSITE \in Nat
    BY Marks DEF ZoneInv, LumpsAreThere
  <2> QED BY <2>1, <2>2
<1>3. Shape(Z)
  BY <1>1, <1>2 DEF Shape, Z
<1>4. Whole(Z) /\ Pointers(Z, {})
  BY DEF ZoneInv
<1>5. \A o : Has(o) <=> HasIn(Z, o)
  BY <1>1 DEF Has, HasIn
<1>6. \A o \in DOMAIN ptr : Bytes(o) \in Nat
  BY LumpBytes DEF ZoneInv
<1> QED BY <1>1, <1>2, <1>3, <1>4, <1>5, <1>6 DEF Whole

\* What holds of the zone after it.
LEMMA AfterStep ==
  ASSUME NEW y, Shape(y), Becomes(y), UNCHANGED lumpinfo
  PROVE /\ blocks' = y.blocks /\ rover' = y.rover /\ ptr' = y.ptr
        /\ Whole(y) => Whole(Z)'
        /\ Pointers(y, {}) => Pointers(Z, {})'
        /\ \A o : Has(o)' <=> HasIn(y, o)
<1>1. blocks' = y.blocks /\ rover' = y.rover /\ ptr' = y.ptr
  BY DEF Becomes
<1>2. Z' = y
  BY <1>1 DEF Z, Shape
<1>3. ASSUME Whole(y) PROVE Whole(Z)'
  BY <1>2, <1>3 DEF Whole, Laid, Apart, Span
<1>4. ASSUME Pointers(y, {}) PROVE Pointers(Z, {})'
  BY <1>2, <1>4 DEF Pointers, Led, Bytes
<1>5. \A o : Has(o)' <=> HasIn(y, o)
  BY <1>1, KindSame DEF Has, HasIn
<1> QED BY <1>1, <1>3, <1>4, <1>5

LEMMA LumpsStay ==
  ASSUME LumpsAreThere, UNCHANGED Users, ptr' \in [DOMAIN ptr -> Int]
  PROVE LumpsAreThere'
  BY DEF LumpsAreThere, Users

\* The call that is under way while Z_Malloc searches.
LEMMA Wanted ==
  ASSUME ZoneInv, todo # <<>>, Head(todo).call = "Z_Malloc"
  PROVE LET c == Head(todo) IN
        /\ c = todo[1] /\ c.call = "Z_Malloc" /\ c.tag \in Nat /\ Request \in Nat /\ Request >= 1
        /\ c.owner \in DOMAIN ptr \cup {ANYONE}
        /\ c.owner \in Keepers => c.tag = PU_STATIC
        /\ c.owner \in DOMAIN ptr => Request >= Bytes(c.owner) + HEADER
        /\ c.owner \in DOMAIN ptr \ Keepers => ptr[c.owner] = NULL
<1>1. todo \in Seq(CallType) /\ 1 \in DOMAIN todo /\ Head(todo) = todo[1]
  BY DEF ZoneInv, CallsAreRight
<1>2. PICK c : c = todo[1]
  OBVIOUS
<1>3. ACall(c) /\ c.call = "Z_Malloc"
  BY <1>1, <1>2 DEF ZoneInv, CallsAreRight
<1>4. /\ c.bytes \in Nat /\ c.tag \in Nat /\ c.owner \in DOMAIN ptr \cup {ANYONE}
      /\ c.owner \in DOMAIN ptr => c.bytes = Bytes(c.owner)
      /\ c.owner \in Keepers => c.tag = PU_STATIC
  BY <1>3 DEF ACall
<1>5. Request = c.bytes + HEADER
  BY <1>1, <1>2 DEF Request
<1>6. Request \in Nat /\ Request >= 1 /\ (c.owner \in DOMAIN ptr => Request >= Bytes(c.owner) + HEADER)
  BY <1>4, <1>5, Sizes
<1>7. ASSUME c.owner \in DOMAIN ptr \ Keepers PROVE ptr[c.owner] = NULL
  <2>1. c.owner >= COMPOSITE
    BY <1>7, Before, Marks
  <2> QED BY <1>1, <1>2, <1>3, <2>1 DEF ZoneInv, CallsAreRight
<1> QED BY <1>1, <1>2, <1>3, <1>4, <1>6, <1>7

\* Who has a block of its kind keeps it when another free block is given.
LEMMA GivenHas ==
  ASSUME NEW z, Shape(z), Whole(z), Pointers(z, {}), NEW base \in DOMAIN z.blocks, FreeBlock(z.blocks[base]),
         NEW y, NEW c, IsGiven(y, z, c.tag, c.owner, base), c.call = "Z_Malloc", NEW o \in DOMAIN z.ptr
  PROVE (HasIn(z, o) /\ ~Takes(c, o) => HasIn(y, o)) /\ (Brings(c, o) => HasIn(y, o))
<1>1. /\ y.ptr[o] = (IF o = c.owner THEN base ELSE z.ptr[o])
      /\ base \in DOMAIN y.blocks /\ y.blocks[base].tag = c.tag
      /\ \A x \in DOMAIN z.blocks \ {base} : x \in DOMAIN y.blocks /\ y.blocks[x].tag = z.blocks[x].tag
  BY DEF IsGiven
<1>2. base # NULL
  <2>1. base \in Nat
    BY BlockIs DEF Whole
  <2> QED BY <2>1, Marks
<1>3. CASE o = c.owner
  BY <1>1, <1>2, <1>3 DEF HasIn, Takes, Brings
<1>4. CASE o # c.owner
  <2>1. ASSUME HasIn(z, o) PROVE HasIn(y, o)
    <3>1. z.ptr[o] \in DOMAIN z.blocks /\ z.blocks[z.ptr[o]].user = User(o)
      BY <2>1 DEF Pointers, Led, HasIn
    <3>2. User(o) # NOBODY
      <4>1. CASE o \in Keepers
        BY <4>1, Owners, Marks
      <4>2. CASE o \in Nat
        BY <4>2, UserIs
      <4> QED BY <4>1, <4>2 DEF Shape
    <3>3. z.ptr[o] # base
      BY <3>1, <3>2 DEF FreeBlock
    <3> QED BY <1>1, <1>4, <2>1, <3>1, <3>3 DEF HasIn
  <2> QED BY <1>4, <2>1 DEF Brings
<1> QED BY <1>3, <1>4

\* A turn of the search, with what it purged or without.
LEMMA TurnIs ==
  ASSUME ZoneInv, Searching, NEW z, Shape(z), Whole(z), Pointers(z, {}), DOMAIN z.ptr = DOMAIN ptr,
         \A o \in DOMAIN ptr : Has(o) => HasIn(z, o),
         \A o \in DOMAIN ptr : ptr[o] = NULL => z.ptr[o] = NULL,
         NEW base \in DOMAIN z.blocks, NEW rv, NextTurn(z, base, rv),
         ~Suits(z, base) => Looking(z.blocks, [search EXCEPT !.base = base, !.rover = rv], Request)
  PROVE ZoneInv'
<1>1. /\ search # NOSEARCH /\ halted = NONE /\ todo # <<>> /\ todo[1].call = "Z_Malloc"
      /\ search = [base |-> search.base, rover |-> search.rover, start |-> search.start]
  BY DEF ZoneInv, Searching, SearchIsRight
<1>2. Head(todo) = todo[1] /\ todo \in Seq(CallType)
  BY <1>1, TailIs DEF ZoneInv, CallsAreRight
<1>3. UNCHANGED halted /\ UNCHANGED lumpinfo /\ UNCHANGED phase /\ UNCHANGED Users
  BY DEF NextTurn, Users
<1>4. halted' \in Int /\ FailsOnlyWhenFull'
  BY <1>1, <1>3, Marks DEF ZoneInv, FailsOnlyWhenFull
<1>5. \A o \in DOMAIN z.ptr : Bytes(o) \in Nat
  BY Before
<1>6. CASE Suits(z, base)
  <2>1. PICK c : c = Head(todo)
    OBVIOUS
  <2>2. PICK y : y = Give(Fragment(z, Request, base), c.tag, c.owner, base)
    OBVIOUS
  <2>3. Becomes(y) /\ search' = NOSEARCH /\ todo' = Tail(todo)
    BY <1>6, <2>1, <2>2 DEF NextTurn, Returns
  <2>4. /\ c = todo[1] /\ c.call = "Z_Malloc" /\ c.tag \in Nat /\ Request \in Nat /\ Request >= 1
        /\ c.owner \in DOMAIN ptr \cup {ANYONE}
        /\ c.owner \in Keepers => c.tag = PU_STATIC
        /\ c.owner \in DOMAIN ptr => Request >= Bytes(c.owner) + HEADER
        /\ c.owner \in DOMAIN ptr \ Keepers => ptr[c.owner] = NULL
    BY <1>1, <1>2, <2>1, Wanted
  <2>5. FreeBlock(z.blocks[base]) /\ z.blocks[base].size >= Request
    BY <1>6 DEF Suits
  <2>6. Shape(y) /\ Whole(y) /\ Pointers(y, {}) /\ IsGiven(y, z, c.tag, c.owner, base)
    BY <1>5, <2>2, <2>4, <2>5, GivenIs
  <2>7. /\ blocks' = y.blocks /\ rover' = y.rover /\ ptr' = y.ptr /\ Whole(Z)' /\ Pointers(Z, {})'
        /\ \A o : Has(o)' <=> HasIn(y, o)
    BY <1>3, <2>3, <2>6, AfterStep
  <2>8. DOMAIN ptr' = DOMAIN ptr /\ ptr' \in [DOMAIN ptr -> Int]
    BY <2>6, <2>7 DEF IsGiven, Shape
  <2>9. \A o \in DOMAIN ptr : (Has(o) /\ ~Takes(c, o) => Has(o)') /\ (Brings(c, o) => Has(o)')
    BY <2>4, <2>5, <2>6, <2>7, GivenHas
  <2>10. CallsAreRight' /\ HeldIsSupplied'
    BY <1>1, <1>3, <2>3, <2>4, <2>8, <2>9, CallPops DEF ZoneInv
  <2>11. LumpsAreThere'
    BY <1>3, <2>8, LumpsStay DEF ZoneInv
  <2>12. SearchIsRight'
    BY <2>3 DEF SearchIsRight, NOSEARCH
  <2> QED BY <1>4, <2>7, <2>10, <2>11, <2>12 DEF ZoneInv
<1>7. CASE ~Suits(z, base)
  <2>1. Becomes(z) /\ UNCHANGED todo /\ search' = [search EXCEPT !.base = base, !.rover = rv]
    BY <1>7 DEF NextTurn
  <2>2. /\ blocks' = z.blocks /\ rover' = z.rover /\ ptr' = z.ptr /\ Whole(Z)' /\ Pointers(Z, {})'
        /\ \A o : Has(o)' <=> HasIn(z, o)
    BY <1>3, <2>1, AfterStep
  <2>3. DOMAIN ptr' = DOMAIN ptr /\ ptr' \in [DOMAIN ptr -> Int]
    BY <2>2 DEF Shape
  <2>4. \A o \in DOMAIN ptr : (ptr[o] = NULL => ptr'[o] = NULL) /\ (Has(o) => Has(o)')
    BY <2>2
  <2>5. todo[1].call \notin {"Z_Free", "Z_ChangeTag"}
    BY <1>1
  <2>6. CallsAreRight' /\ HeldIsSupplied'
    BY <1>1, <1>3, <2>1, <2>3, <2>4, <2>5, CallWaits DEF ZoneInv
  <2>7. LumpsAreThere'
    BY <1>3, <2>3, LumpsStay DEF ZoneInv
  <2>8. SearchIsRight'
    <3>1. Looking(z.blocks, search', Request)
      BY <1>7, <2>1
    <3>2. Request = todo[1].bytes + HEADER
      BY <1>2 DEF Request
    <3>3. search' = [base |-> search'.base, rover |-> search'.rover, start |-> search'.start]
      BY <1>1, <2>1
    <3> QED BY <1>1, <2>1, <2>2, <3>1, <3>2, <3>3 DEF SearchIsRight, Looking, TooSmall
  <2> QED BY <1>4, <2>2, <2>6, <2>7, <2>8 DEF ZoneInv
<1> QED BY <1>6, <1>7

\* How much further ahead the rover of a search is after a step.
GoesOn ==
  search # NOSEARCH /\ search' # NOSEARCH /\ search' # search =>
    /\ search'.start = search.start
    /\ Ahead(search'.rover, search.start) > Ahead(search.rover, search.start)

LEMMA NothingStarts == ASSUME UNCHANGED search PROVE GoesOn
  BY DEF GoesOn

LEMMA StartsStep ==
  ASSUME ZoneInv, Z_Malloc
  PROVE ZoneInv' /\ GoesOn
<1>1. /\ UNCHANGED <<blocks, rover, ptr, halted, todo, Users>> /\ todo # <<>> /\ Head(todo).call = "Z_Malloc"
      /\ search = NOSEARCH /\ halted = NONE
  BY DEF Z_Malloc, Making
<1>2. PICK base : base = MergedAt(Z, rover)
  OBVIOUS
<1>3. search' = [base |-> base, rover |-> base, start |-> blocks[base].prev]
  BY <1>2 DEF Z_Malloc
<1>4. base = IF FreeBlock(blocks[blocks[rover].prev]) THEN blocks[rover].prev ELSE rover
  BY <1>2, Before DEF MergedAt
<1>5. PICK n : n = Request
  OBVIOUS
<1>6. PICK s : s = search'
  OBVIOUS
<1>7. Looking(blocks, s, n)
  <2>1. s.base = base /\ s.rover = base /\ s.start = blocks[base].prev
    BY <1>3, <1>6
  <2> QED BY <1>4, <2>1, Before, LookStarts
<1>8. n = todo'[1].bytes + HEADER /\ todo'[1].call = "Z_Malloc" /\ todo' # <<>>
  BY <1>1, <1>5, TailIs DEF Request, ZoneInv, CallsAreRight
<1>9. SearchIsRight'
  BY <1>1, <1>3, <1>6, <1>7, <1>8 DEF SearchIsRight, Looking, TooSmall
<1>10. Whole(Z)' /\ Pointers(Z, {})'
  <2>1. Becomes(Z)
    BY <1>1, Before DEF Becomes
  <2>2. UNCHANGED lumpinfo
    BY <1>1 DEF Users
  <2> QED BY <2>1, <2>2, Before, AfterStep
<1>11. LumpsAreThere'
  BY <1>1, Before, LumpsStay DEF ZoneInv
<1>12. CallsAreRight' /\ HeldIsSupplied'
  <2>1. UNCHANGED <<blocks, ptr, todo, lumpinfo, phase>>
    BY <1>1 DEF Users
  <2>2. CallsAreRight'
    BY <2>1 DEF ZoneInv, CallsAreRight, ACall, Supplied, Needs, Brings, Takes, Has, Kind, Bytes
  <2>3. HeldIsSupplied'
    BY <2>1, SuppliedSame DEF ZoneInv
  <2> QED BY <2>2, <2>3
<1>13. halted' \in Int /\ FailsOnlyWhenFull'
  BY <1>1 DEF ZoneInv, FailsOnlyWhenFull
<1> QED BY <1>1, <1>9, <1>10, <1>11, <1>12, <1>13 DEF ZoneInv, GoesOn

LEMMA FailsStep ==
  ASSUME ZoneInv, Fails
  PROVE ZoneInv' /\ GoesOn
<1>1. /\ UNCHANGED <<blocks, rover, ptr, todo, search, Users>> /\ halted' = Request
      /\ search # NOSEARCH /\ search.rover = search.start
  BY DEF Fails, Searching
<1>2. Looking(blocks, search, Request) /\ todo # <<>> /\ todo[1].call = "Z_Malloc"
  BY <1>1, TailIs DEF ZoneInv, SearchIsRight, Request, CallsAreRight
<1>3. \A a \in DOMAIN blocks : FreeBlock(blocks[a]) => blocks[a].size < Request
  BY <1>1, <1>2, Before, LookFails
<1>4. Head(todo).call = "Z_Malloc"
  BY <1>2, TailIs DEF ZoneInv, CallsAreRight
<1>5. halted' \in Int /\ FailsOnlyWhenFull'
  BY <1>1, <1>2, <1>3, <1>4, Wanted DEF FailsOnlyWhenFull
<1>6. Whole(Z)' /\ Pointers(Z, {})'
  <2>1. Becomes(Z)
    BY <1>1, Before DEF Becomes
  <2>2. UNCHANGED lumpinfo
    BY <1>1 DEF Users
  <2> QED BY <2>1, <2>2, Before, AfterStep
<1>7. LumpsAreThere'
  BY <1>1, Before, LumpsStay DEF ZoneInv
<1>8. CallsAreRight' /\ HeldIsSupplied'
  <2>1. UNCHANGED <<blocks, ptr, todo, lumpinfo, phase>>
    BY <1>1 DEF Users
  <2>2. CallsAreRight'
    BY <2>1 DEF ZoneInv, CallsAreRight, ACall, Supplied, Needs, Brings, Takes, Has, Kind, Bytes
  <2>3. HeldIsSupplied'
    BY <2>1, SuppliedSame DEF ZoneInv
  <2> QED BY <2>2, <2>3
<1>9. SearchIsRight'
  BY <1>1 DEF ZoneInv, SearchIsRight, Looking, TooSmall
<1> QED BY <1>1, <1>5, <1>6, <1>7, <1>8, <1>9, NothingStarts DEF ZoneInv

\* What a search knows when it makes a turn.
LEMMA SearchIs ==
  ASSUME ZoneInv, Searching
  PROVE /\ search # NOSEARCH /\ Looking(blocks, search, Request) /\ Request \in Nat
        /\ search = [base |-> search.base, rover |-> search.rover, start |-> search.start]
        /\ search.base \in DOMAIN blocks /\ search.rover \in DOMAIN blocks
<1>1. search # NOSEARCH /\ todo # <<>> /\ todo[1].call = "Z_Malloc"
  BY DEF Searching, ZoneInv, SearchIsRight
<1>2. Head(todo) = todo[1]
  BY <1>1, TailIs DEF ZoneInv, CallsAreRight
<1>3. Looking(blocks, search, Request) /\ search = [base |-> search.base, rover |-> search.rover, start |-> search.start]
  BY <1>1, <1>2 DEF ZoneInv, SearchIsRight, Request
<1>4. Request \in Nat
  BY <1>1, <1>2, Wanted
<1>5. search.base \in DOMAIN blocks /\ search.rover \in DOMAIN blocks
  BY <1>3 DEF Looking
<1> QED BY <1>1, <1>3, <1>4, <1>5

LEMMA SkipsFreeStep ==
  ASSUME ZoneInv, SkipsFree
  PROVE ZoneInv' /\ GoesOn
<1>1. Searching /\ search.rover # search.start /\ FreeBlock(blocks[search.rover])
      /\ NextTurn(Z, search.base, blocks[search.rover].next)
  BY DEF SkipsFree, LooksAt
<1>2. PICK t : t = [search EXCEPT !.base = search.base, !.rover = blocks[search.rover].next]
  OBVIOUS
<1>3. t.base = search.base /\ t.rover = blocks[search.rover].next /\ t.start = search.start
  BY <1>1, <1>2, SearchIs
<1>4. ~Suits(Z, search.base) =>
        Looking(blocks, t, Request) /\ Ahead(t.rover, search.start) > Ahead(search.rover, search.start)
  <2>1. ASSUME ~Suits(Z, search.base) PROVE ~(FreeBlock(blocks[search.base]) /\ blocks[search.base].size >= Request)
    BY <2>1, Before DEF Suits
  <2> QED BY <1>1, <1>3, <2>1, SearchIs, Before, LookSkipsFree
<1>5. ZoneInv'
  <2>1. \A o \in DOMAIN ptr : (Has(o) => HasIn(Z, o)) /\ (ptr[o] = NULL => Z.ptr[o] = NULL)
    BY Before
  <2>2. search.base \in DOMAIN Z.blocks /\ DOMAIN Z.ptr = DOMAIN ptr
    BY <1>1, SearchIs, Before
  <2>3. ~Suits(Z, search.base) => Looking(Z.blocks, t, Request)
    BY <1>4, Before
  <2> QED BY <1>1, <1>2, <2>1, <2>2, <2>3, Before, TurnIs
<1>6. GoesOn
  BY <1>1, <1>2, <1>3, <1>4 DEF GoesOn, NextTurn
<1> QED BY <1>5, <1>6

LEMMA SkipsOwnedStep ==
  ASSUME ZoneInv, SkipsOwned
  PROVE ZoneInv' /\ GoesOn
<1>1. Searching /\ search.rover # search.start /\ ~FreeBlock(blocks[search.rover])
      /\ NextTurn(Z, blocks[search.rover].next, blocks[search.rover].next)
  BY DEF SkipsOwned, LooksAt
<1>2. PICK t : t = [search EXCEPT !.base = blocks[search.rover].next, !.rover = blocks[search.rover].next]
  OBVIOUS
<1>3. t.base = blocks[search.rover].next /\ t.rover = t.base /\ t.start = search.start
  BY <1>1, <1>2, SearchIs
<1>4. Looking(blocks, t, Request) /\ Ahead(t.rover, search.start) > Ahead(search.rover, search.start)
  BY <1>1, <1>3, SearchIs, Before, LookSkipsOwned
<1>5. ZoneInv'
  <2>1. \A o \in DOMAIN ptr : (Has(o) => HasIn(Z, o)) /\ (ptr[o] = NULL => Z.ptr[o] = NULL)
    BY Before
  <2>2. blocks[search.rover].next \in DOMAIN Z.blocks /\ DOMAIN Z.ptr = DOMAIN ptr
    BY <1>1, SearchIs, Before, BlockIs
  <2>3. Looking(Z.blocks, t, Request)
    BY <1>4, Before
  <2> QED BY <1>1, <1>2, <2>1, <2>2, <2>3, Before, TurnIs
<1>6. GoesOn
  BY <1>1, <1>2, <1>3, <1>4 DEF GoesOn, NextTurn
<1> QED BY <1>5, <1>6

\* A block that is not a keeper's, and of another tag than the owners' kinds.
LEMMA OthersStay ==
  ASSUME ZoneInv, NEW a \in DOMAIN blocks, a # ZONE, ~FreeBlock(blocks[a]), NEW y, y = Freed(Z, a),
         blocks[a].tag # PU_STATIC
  PROVE /\ Shape(y) /\ Whole(y) /\ Pointers(y, {}) /\ DOMAIN y.ptr = DOMAIN ptr
        /\ \A o \in DOMAIN ptr : ptr[o] = NULL => y.ptr[o] = NULL
        /\ \A o \in DOMAIN ptr : Has(o) /\ Kind(o) # blocks[a].tag => HasIn(y, o)
<1>1. \A o \in (DOMAIN ptr \cap Keepers) : ptr[o] # a
  <2>1. ASSUME NEW o \in DOMAIN ptr \cap Keepers, ptr[o] = a PROVE FALSE
    <3>1. a # NULL
      <4>1. a \in Nat
        BY Before, BlockIs
      <4> QED BY <4>1, Marks
    <3>2. blocks[a].tag = PU_STATIC
      BY <2>1, <3>1, Before DEF Pointers, Led
    <3> QED BY <3>2
  <2> QED BY <2>1
<1>2. IsForgotten(y, Z, a) /\ Pointers(y, {})
  BY <1>1, Before, FreedPointers
<1>3. IsFreed(y, Z, a, MergedAt(Z, a))
  BY Before, FreedIs
<1>4. Shape(y) /\ Whole(y)
  BY <1>3 DEF IsFreed
<1>5. /\ DOMAIN y.ptr = DOMAIN ptr
      /\ \A o \in DOMAIN ptr : y.ptr[o] = IF ptr[o] = a /\ o \notin Keepers THEN NULL ELSE ptr[o]
      /\ \A o \in DOMAIN ptr : ptr[o] \notin {a, NULL} => y.blocks[ptr[o]].tag = blocks[ptr[o]].tag
  BY <1>2, Before DEF IsForgotten
<1>6. \A o \in DOMAIN ptr : Has(o) /\ Kind(o) # blocks[a].tag => HasIn(y, o)
  BY <1>5 DEF Has, HasIn
<1> QED BY <1>2, <1>4, <1>5, <1>6

LEMMA Kinds == \A o : Kind(o) \in {PU_STATIC, PU_LEVEL}
  BY DEF Kind

LEMMA PurgesStep ==
  ASSUME ZoneInv, Purges
  PROVE ZoneInv' /\ GoesOn
<1> DEFINE a == search.rover
<1>1. Searching /\ a # search.start /\ ~FreeBlock(blocks[a]) /\ blocks[a].tag >= PU_PURGELEVEL
      /\ Purged(Freed(Z, a), blocks[search.base].prev)
  BY DEF Purges, LooksAt
<1>2. a \in DOMAIN blocks
  BY <1>1, SearchIs
<1>3. blocks[a].tag \notin {PU_STATIC, PU_LEVEL} /\ a # ZONE
  <2>1. blocks[a].tag \in Nat /\ blocks[ZONE].tag = PU_STATIC
    BY <1>2, Before, BlockIs DEF Laid
  <2> QED BY <1>1, <2>1 DEF PU_STATIC, PU_LEVEL, PU_PURGELEVEL
<1> HIDE DEF a
<1>4. PICK z : z = Freed(Z, a)
  OBVIOUS
<1>5. /\ Shape(z) /\ Whole(z) /\ Pointers(z, {}) /\ DOMAIN z.ptr = DOMAIN ptr
      /\ \A o \in DOMAIN ptr : (ptr[o] = NULL => z.ptr[o] = NULL) /\ (Has(o) => HasIn(z, o))
  BY <1>1, <1>2, <1>3, <1>4, OthersStay, Kinds
<1>6. PICK base : base = z.blocks[blocks[search.base].prev].next
  OBVIOUS
<1>7. NextTurn(z, base, z.blocks[base].next)
  BY <1>1, <1>4, <1>6 DEF Purged
<1>8. PICK t : t = [search EXCEPT !.base = base, !.rover = z.blocks[base].next]
  OBVIOUS
<1>9. t.base = base /\ t.rover = z.blocks[base].next /\ t.start = search.start
  BY <1>1, <1>8, SearchIs
<1>10. PICK n : n = Request
  OBVIOUS
<1>s. /\ Looking(Z.blocks, search, n) /\ n \in Nat /\ Shape(Z) /\ Whole(Z) /\ Z.blocks = blocks
      /\ search.rover # search.start /\ search.rover # ZONE /\ ~FreeBlock(Z.blocks[search.rover])
      /\ z = Freed(Z, search.rover)
  BY <1>1, <1>3, <1>4, <1>10, SearchIs, Before DEF a
<1>b. base = search.base /\ base \in DOMAIN z.blocks /\ FreeBlock(z.blocks[base])
  <2>1. z.blocks[Z.blocks[search.base].prev].next = search.base /\ search.base \in DOMAIN z.blocks /\ FreeBlock(z.blocks[search.base])
    BY <1>s, PurgedBase
  <2> QED BY <1>6, <1>s, <2>1
<1>11. z.blocks[base].size < n => Looking(z.blocks, t, n) /\ Ahead(t.rover, search.start) > Ahead(a, search.start)
  <2>1. ASSUME z.blocks[base].size < n PROVE Looking(z.blocks, t, n) /\ Ahead(t.rover, search.start) > Ahead(search.rover, search.start)
    <3>1. t.base = search.base /\ t.rover = z.blocks[search.base].next /\ z.blocks[search.base].size < n
      BY <1>9, <1>b, <2>1
    <3> QED BY <1>9, <1>s, <3>1, LookPurges
  <2> QED BY <2>1 DEF a
<1>12. ~Suits(z, base) => Looking(z.blocks, t, n) /\ Ahead(t.rover, search.start) > Ahead(a, search.start)
  <2>1. z.blocks[base].size \in Nat /\ n \in Nat
    BY <1>5, <1>b, <1>s, BlockIs DEF Whole
  <2> QED BY <1>10, <1>11, <1>b, <2>1 DEF Suits
<1>13. ZoneInv'
  BY <1>1, <1>5, <1>7, <1>8, <1>10, <1>b, <1>12, TurnIs
<1>14. GoesOn
  BY <1>7, <1>8, <1>9, <1>12 DEF GoesOn, NextTurn, a
<1> QED BY <1>13, <1>14

\* The call that is to be made.
LEMMA HeadIs ==
  ASSUME ZoneInv, NEW function, Making(function)
  PROVE /\ halted = NONE /\ todo # <<>> /\ Head(todo) = todo[1] /\ todo[1] \in CallType /\ todo[1].call = function
        /\ ACall(todo[1])
        /\ Needs(todo[1], todo[1].owner) => Has(todo[1].owner) /\ todo[1].owner \in DOMAIN ptr
        /\ function # "Z_Malloc" => search = NOSEARCH
<1>1. halted = NONE /\ todo # <<>> /\ Head(todo) = todo[1] /\ todo[1] \in CallType /\ 1 \in DOMAIN todo /\ todo[1].call = function
  BY TailIs DEF Making, ZoneInv, CallsAreRight
<1>2. ACall(todo[1])
  BY <1>1 DEF ZoneInv, CallsAreRight
<1>3. ASSUME Needs(todo[1], todo[1].owner) PROVE Has(todo[1].owner) /\ todo[1].owner \in DOMAIN ptr
  <2>1. Supplied(todo[1].owner, 1)
    BY <1>1, <1>3 DEF ZoneInv, CallsAreRight
  <2> QED BY <2>1 DEF Supplied
<1>4. function # "Z_Malloc" => search = NOSEARCH
  BY <1>1 DEF ZoneInv, SearchIsRight
<1> QED BY <1>1, <1>2, <1>3, <1>4

\* A block that is led to.
LEMMA LedIs ==
  ASSUME ZoneInv, NEW o \in DOMAIN ptr, ptr[o] # NULL
  PROVE /\ ptr[o] \in DOMAIN blocks /\ ptr[o] # ZONE /\ ~FreeBlock(blocks[ptr[o]])
        /\ blocks[ptr[o]].user = User(o) /\ User(o) \in Int
        /\ \A p \in DOMAIN ptr : ptr[p] = ptr[o] => p = o
<1>1. ptr[o] \in DOMAIN blocks \ {ZONE} /\ blocks[ptr[o]].user = User(o)
  BY Before DEF Pointers, Led
<1>2. User(o) # NOBODY /\ User(o) \in Int
  <2>1. CASE o \in Keepers
    BY <2>1, Owners, Marks
  <2>2. CASE o \in Nat
    BY <2>2, UserIs
  <2> QED BY <2>1, <2>2, Before
<1>3. \A p \in DOMAIN ptr : ptr[p] = ptr[o] => p = o
  BY Before DEF Pointers
<1> QED BY <1>1, <1>2, <1>3 DEF FreeBlock

\* A call that is done, with what it leaves of the zone.
LEMMA DoneIs ==
  ASSUME ZoneInv, NEW function, Making(function), function # "Z_Malloc", Returns,
         UNCHANGED <<halted, search, Users>>,
         NEW y, Shape(y), Whole(y), Pointers(y, {}), Becomes(y), DOMAIN y.ptr = DOMAIN ptr,
         \A o \in DOMAIN ptr : (Has(o) /\ ~Takes(todo[1], o) => HasIn(y, o)) /\ (Brings(todo[1], o) => HasIn(y, o))
  PROVE ZoneInv' /\ GoesOn
<1>1. halted = NONE /\ todo # <<>> /\ todo' = Tail(todo) /\ search = NOSEARCH
  BY HeadIs DEF Returns
<1>2. UNCHANGED lumpinfo /\ UNCHANGED phase /\ UNCHANGED search /\ UNCHANGED halted /\ UNCHANGED Users
  BY DEF Users
<1>3. /\ blocks' = y.blocks /\ rover' = y.rover /\ ptr' = y.ptr /\ Whole(Z)' /\ Pointers(Z, {})'
      /\ \A o : Has(o)' <=> HasIn(y, o)
  BY <1>2, AfterStep
<1>4. DOMAIN ptr' = DOMAIN ptr /\ ptr' \in [DOMAIN ptr -> Int]
  BY <1>3 DEF Shape
<1>5. \A o \in DOMAIN ptr : (Has(o) /\ ~Takes(todo[1], o) => Has(o)') /\ (Brings(todo[1], o) => Has(o)')
  BY <1>3
<1>6. CallsAreRight' /\ HeldIsSupplied'
  BY <1>1, <1>2, <1>4, <1>5, CallPops DEF ZoneInv
<1>7. LumpsAreThere'
  BY <1>2, <1>4, LumpsStay DEF ZoneInv
<1>8. SearchIsRight' /\ halted' \in Int /\ FailsOnlyWhenFull'
  BY <1>1, <1>2, Marks DEF SearchIsRight, FailsOnlyWhenFull, NOSEARCH
<1> QED BY <1>2, <1>3, <1>6, <1>7, <1>8, NothingStarts DEF ZoneInv

LEMMA FreeStep ==
  ASSUME ZoneInv, Z_Free
  PROVE ZoneInv' /\ GoesOn
<1>1. Making("Z_Free") /\ Returns /\ UNCHANGED <<halted, search, Users>>
  BY DEF Z_Free
<1>2. PICK o : o = todo[1].owner
  OBVIOUS
<1>3. Has(o) /\ o \in DOMAIN ptr /\ Head(todo) = todo[1] /\ todo[1].call = "Z_Free"
  BY <1>1, <1>2, HeadIs DEF Needs
<1>4. PICK a : a = ptr[o]
  OBVIOUS
<1>5. a # NULL /\ a \in DOMAIN blocks /\ a # ZONE /\ ~FreeBlock(blocks[a]) /\ blocks[a].user = User(o)
      /\ \A p \in DOMAIN ptr : ptr[p] = a => p = o
  BY <1>3, <1>4, LedIs DEF Has
<1>6. PICK z : z = Freed(Z, a)
  OBVIOUS
<1>7. IsForgotten(z, Z, a) /\ Pointers(z, {o})
  BY <1>5, <1>6, Before, FreedPointers
<1>8. Shape(z) /\ Whole(z)
  <2>1. IsFreed(z, Z, a, MergedAt(Z, a))
    BY <1>5, <1>6, Before, FreedIs
  <2> QED BY <2>1 DEF IsFreed
<1>9. /\ DOMAIN z.ptr = DOMAIN ptr
      /\ \A p \in DOMAIN ptr : z.ptr[p] = IF ptr[p] = a /\ p \notin Keepers THEN NULL ELSE ptr[p]
      /\ \A p \in DOMAIN ptr : ptr[p] \notin {a, NULL} => z.blocks[ptr[p]].tag = blocks[ptr[p]].tag
  BY <1>7, Before DEF IsForgotten
<1>10. PICK q : q = [z.ptr EXCEPT ![o] = NULL]
  OBVIOUS
<1>11. q \in [DOMAIN ptr -> Int] /\ DOMAIN q = DOMAIN ptr /\ q[o] = NULL /\ \A p \in DOMAIN ptr : p # o => q[p] = z.ptr[p] /\ q[p] = ptr[p]
  <2>1. z.ptr \in [DOMAIN ptr -> Int] /\ NULL \in Int
    BY <1>8, <1>9, Marks DEF Shape
  <2> QED BY <1>3, <1>5, <1>9, <1>10, <2>1
<1>12. PICK y : y = Zone(z.blocks, z.rover, q)
  OBVIOUS
<1>13. y.blocks = z.blocks /\ y.rover = z.rover /\ y.ptr = q
  BY <1>12, ZoneOf
<1>14. Shape(y) /\ Whole(y)
  BY <1>8, <1>9, <1>11, <1>12, <1>13 DEF Shape, Whole
<1>15. Becomes(y)
  BY <1>2, <1>3, <1>4, <1>6, <1>10, <1>12 DEF Z_Free
<1>16. Pointers(y, {})
  <2>1. \A p \in DOMAIN y.ptr : Led(y, p)
    <3>1. ASSUME NEW p \in DOMAIN y.ptr, p # o PROVE Led(y, p)
      <4>1. Led(z, p)
        BY <1>7, <1>9, <1>11, <1>13, <3>1 DEF Pointers
      <4> QED BY <1>11, <1>13, <3>1, <4>1 DEF Led
    <3>2. Led(y, o)
      BY <1>11, <1>13 DEF Led
    <3> QED BY <3>1, <3>2
  <2>2. \A p, r \in DOMAIN y.ptr : y.ptr[p] = y.ptr[r] /\ y.ptr[p] # NULL => p = r
    BY <1>7, <1>9, <1>11, <1>13 DEF Pointers
  <2>3. ASSUME NEW x \in DOMAIN z.blocks, z.blocks[x].user \notin {NOBODY, ANYONE}
        PROVE z.blocks[x].user \in DOMAIN q \ Keepers /\ q[z.blocks[x].user] = x
    <3>1. PICK u : u = z.blocks[x].user
      OBVIOUS
    <3>2. u \in DOMAIN ptr \ Keepers /\ z.ptr[u] = x
      BY <1>7, <1>9, <2>3, <3>1 DEF Pointers
    <3>3. x # NULL
      <4>1. x \in Nat
        BY <1>8, BlockIs DEF Whole
      <4> QED BY <4>1, Marks
    <3>4. u # o
      BY <1>4, <1>9, <3>2, <3>3
    <3> QED BY <1>11, <3>1, <3>2, <3>4
  <2> QED BY <1>13, <2>1, <2>2, <2>3 DEF Pointers
<1>17. ASSUME NEW p \in DOMAIN ptr
       PROVE (Has(p) /\ ~Takes(todo[1], p) => HasIn(y, p)) /\ (Brings(todo[1], p) => HasIn(y, p))
  <2>1. ~Brings(todo[1], p)
    BY <1>3 DEF Brings
  <2>2. ASSUME Has(p), ~Takes(todo[1], p) PROVE HasIn(y, p)
    <3>1. p # o
      BY <1>2, <1>3, <2>2 DEF Takes
    <3> QED BY <1>5, <1>9, <1>11, <1>13, <2>2, <3>1 DEF Has, HasIn
  <2> QED BY <2>1, <2>2
<1>18. DOMAIN y.ptr = DOMAIN ptr
  BY <1>11, <1>13
<1> QED BY <1>1, <1>14, <1>15, <1>16, <1>17, <1>18, DoneIs

LEMMA FreeTagsStep ==
  ASSUME ZoneInv, Z_FreeTags
  PROVE ZoneInv' /\ GoesOn
<1>1. Making("Z_FreeTags") /\ UNCHANGED <<halted, search, Users>>
  BY DEF Z_FreeTags
<1>2. Head(todo) = todo[1] /\ todo[1].tag = PU_LEVEL /\ todo[1].call = "Z_FreeTags" /\ halted = NONE /\ search = NOSEARCH /\ todo # <<>>
  BY <1>1, HeadIs DEF ACall
<1>3. CASE Tagged(Head(todo).tag, PU_PURGELEVEL - 1) = {}
  <2>1. Returns /\ UNCHANGED <<blocks, rover, ptr>>
    BY <1>3 DEF Z_FreeTags
  <2>2. Becomes(Z)
    BY <2>1, Before DEF Becomes
  <2>3. \A o \in DOMAIN ptr : (Has(o) => HasIn(Z, o)) /\ ~Brings(todo[1], o)
    BY <1>2, Before DEF Brings
  <2>4. DOMAIN Z.ptr = DOMAIN ptr
    BY Before
  <2> QED BY <1>1, <2>1, <2>2, <2>3, <2>4, Before, DoneIs
<1>4. CASE Tagged(Head(todo).tag, PU_PURGELEVEL - 1) # {}
  <2>1. PICK a \in Tagged(Head(todo).tag, PU_PURGELEVEL - 1) : Becomes(Freed(Z, a))
    BY <1>4 DEF Z_FreeTags
  <2>2. a \in DOMAIN blocks /\ a # ZONE /\ ~FreeBlock(blocks[a]) /\ blocks[a].tag \in PU_LEVEL .. PU_PURGELEVEL - 1
    BY <1>2, <2>1 DEF Tagged
  <2>3. blocks[a].tag # PU_STATIC
    BY <2>2 DEF PU_LEVEL, PU_STATIC, PU_PURGELEVEL
  <2>4. PICK y : y = Freed(Z, a)
    OBVIOUS
  <2>5. /\ Shape(y) /\ Whole(y) /\ Pointers(y, {}) /\ DOMAIN y.ptr = DOMAIN ptr
        /\ \A o \in DOMAIN ptr : ptr[o] = NULL => y.ptr[o] = NULL
        /\ \A o \in DOMAIN ptr : Has(o) /\ Kind(o) # blocks[a].tag => HasIn(y, o)
    BY <2>2, <2>3, <2>4, OthersStay
  <2>6. UNCHANGED todo /\ UNCHANGED lumpinfo /\ UNCHANGED phase /\ UNCHANGED search /\ UNCHANGED halted /\ UNCHANGED Users
    BY <1>1, <1>4 DEF Z_FreeTags, Users
  <2>7. /\ blocks' = y.blocks /\ rover' = y.rover /\ ptr' = y.ptr /\ Whole(Z)' /\ Pointers(Z, {})'
        /\ \A o : Has(o)' <=> HasIn(y, o)
    BY <2>1, <2>4, <2>5, <2>6, AfterStep
  <2>8. DOMAIN ptr' = DOMAIN ptr /\ ptr' \in [DOMAIN ptr -> Int]
    BY <2>5, <2>7 DEF Shape
  <2>9. \A o \in DOMAIN ptr : Has(o) /\ ~Takes(todo[1], o) => Has(o)'
    <3>1. ASSUME NEW o \in DOMAIN ptr, Has(o), ~Takes(todo[1], o) PROVE HasIn(y, o)
      <4>1. Kind(o) = PU_STATIC
        BY <1>2, <3>1, Kinds DEF Takes
      <4> QED BY <2>3, <2>5, <3>1, <4>1
    <3> QED BY <2>7, <3>1
  <2>10. todo[1].call \notin {"Z_Free", "Z_ChangeTag"}
    BY <1>2
  <2>11. \A o \in DOMAIN ptr : ptr[o] = NULL => ptr'[o] = NULL
    BY <2>5, <2>7
  <2>12. CallsAreRight' /\ HeldIsSupplied'
    BY <1>2, <2>6, <2>8, <2>9, <2>10, <2>11, CallWaits DEF ZoneInv
  <2>13. LumpsAreThere'
    BY <2>6, <2>8, LumpsStay DEF ZoneInv
  <2>14. SearchIsRight' /\ halted' \in Int /\ FailsOnlyWhenFull'
    BY <1>2, <2>6, Marks DEF SearchIsRight, FailsOnlyWhenFull, NOSEARCH
  <2> QED BY <2>6, <2>7, <2>12, <2>13, <2>14, NothingStarts DEF ZoneInv
<1> QED BY <1>3, <1>4

\* An owner's block under another tag.
LEMMA TagIs ==
  ASSUME ZoneInv, NEW o \in DOMAIN ptr \ Keepers, ptr[o] # NULL, NEW tag \in Nat,
         NEW y, y = Zone(Owned(blocks, ptr[o], blocks[ptr[o]].user, tag), rover, ptr)
  PROVE /\ Shape(y) /\ Whole(y) /\ Pointers(y, {}) /\ y.ptr = ptr
        /\ y.blocks = Owned(blocks, ptr[o], blocks[ptr[o]].user, tag) /\ y.rover = rover
        /\ \A p \in DOMAIN ptr : HasIn(y, p) <=> IF p = o THEN tag = Kind(o) ELSE Has(p)
<1> DEFINE a == ptr[o]
<1>1. /\ a \in DOMAIN blocks /\ a # ZONE /\ ~FreeBlock(blocks[a])
      /\ blocks[a].user = User(o) /\ User(o) \in Int
      /\ \A p \in DOMAIN ptr : ptr[p] = a => p = o
  BY LedIs
<1>2. PICK c : c = Owned(blocks, a, blocks[a].user, tag)
  OBVIOUS
<1> HIDE DEF a
<1>3. IsRedone(c, blocks, a, blocks[a].user, tag)
  BY <1>1, <1>2, Before, Redone
<1>4. /\ Laid(c) /\ DOMAIN c = DOMAIN blocks
      /\ \A x \in DOMAIN blocks : /\ c[x].size = blocks[x].size /\ c[x].next = blocks[x].next
                                  /\ c[x].user = blocks[x].user
                                  /\ c[x].tag = (IF x = a THEN tag ELSE blocks[x].tag)
  BY <1>3 DEF IsRedone
<1>5. y = Zone(c, rover, ptr) /\ y.blocks = c /\ y.rover = rover /\ y.ptr = ptr
  BY <1>2, ZoneOf DEF a
<1>6. Shape(y)
  BY <1>5, Before DEF Shape
<1>7. Apart(c, {})
  <2>1. \A x \in DOMAIN blocks : blocks[x].next \in DOMAIN blocks
    BY Before, BlockIs
  <2>2. Apart(blocks, {})
    BY Before
  <2> QED BY <1>4, <2>1, <2>2 DEF Apart, FreeBlock
<1>8. Whole(y)
  BY <1>4, <1>5, <1>7, Before DEF Whole
<1>9. /\ \A p \in DOMAIN ptr : Led(Z, p)
      /\ \A p, r \in DOMAIN ptr : ptr[p] = ptr[r] /\ ptr[p] # NULL => p = r
      /\ \A x \in DOMAIN blocks : blocks[x].user \notin {NOBODY, ANYONE} =>
           blocks[x].user \in DOMAIN ptr \ Keepers /\ ptr[blocks[x].user] = x
  BY Before DEF Pointers
<1>10. ASSUME NEW p \in DOMAIN ptr PROVE Led(y, p)
  <2>1. CASE ptr[p] = NULL
    BY <1>5, <2>1 DEF Led
  <2>2. CASE ptr[p] # NULL
    <3>1. /\ ptr[p] \in DOMAIN blocks \ {ZONE} /\ blocks[ptr[p]].user = User(p) /\ blocks[ptr[p]].size >= Bytes(p) + HEADER
          /\ p \in Keepers => blocks[ptr[p]].tag = PU_STATIC
      BY <1>9, <2>2, Before DEF Led
    <3>2. p \in Keepers => ptr[p] # a
      BY <1>1
    <3> QED BY <1>4, <1>5, <3>1, <3>2 DEF Led
  <2> QED BY <2>1, <2>2
<1>11. Pointers(y, {})
  BY <1>4, <1>5, <1>9, <1>10 DEF Pointers
<1>12. ASSUME NEW p \in DOMAIN ptr PROVE HasIn(y, p) <=> IF p = o THEN tag = Kind(o) ELSE Has(p)
  <2>1. CASE p = o
    BY <1>1, <1>4, <1>5, <2>1 DEF HasIn, a
  <2>2. CASE p # o
    <3>1. ptr[p] # NULL => ptr[p] \in DOMAIN blocks /\ ptr[p] # a
      BY <1>1, <2>2, LedIs
    <3> QED BY <1>4, <1>5, <2>2, <3>1 DEF HasIn, Has
  <2> QED BY <2>1, <2>2
<1> QED BY <1>2, <1>5, <1>6, <1>8, <1>11, <1>12 DEF a

LEMMA ChangeTagStep ==
  ASSUME ZoneInv, Z_ChangeTag
  PROVE ZoneInv' /\ GoesOn
<1>1. Making("Z_ChangeTag") /\ Returns /\ UNCHANGED <<rover, ptr, halted, search, Users>>
      /\ SetsTag(ptr[Head(todo).owner], Head(todo).tag)
  BY DEF Z_ChangeTag
<1>2. PICK o : o = todo[1].owner
  OBVIOUS
<1>3. PICK tag : tag = todo[1].tag
  OBVIOUS
<1>4. Has(o) /\ o \in DOMAIN ptr \ Keepers /\ Head(todo) = todo[1] /\ todo[1].call = "Z_ChangeTag" /\ tag \in Nat
  BY <1>1, <1>2, <1>3, HeadIs DEF Needs, ACall
<1>5. PICK y : y = Zone(Owned(blocks, ptr[o], blocks[ptr[o]].user, tag), rover, ptr)
  OBVIOUS
<1>6. /\ Shape(y) /\ Whole(y) /\ Pointers(y, {}) /\ y.ptr = ptr
      /\ y.blocks = Owned(blocks, ptr[o], blocks[ptr[o]].user, tag) /\ y.rover = rover
      /\ \A p \in DOMAIN ptr : HasIn(y, p) <=> IF p = o THEN tag = Kind(o) ELSE Has(p)
  BY <1>4, <1>5, TagIs DEF Has
<1>7. Becomes(y)
  BY <1>1, <1>2, <1>3, <1>4, <1>6 DEF Becomes, SetsTag
<1>8. ASSUME NEW p \in DOMAIN ptr
      PROVE (Has(p) /\ ~Takes(todo[1], p) => HasIn(y, p)) /\ (Brings(todo[1], p) => HasIn(y, p))
  BY <1>2, <1>4, <1>6 DEF Takes, Brings
<1>9. UNCHANGED <<halted, search, Users>> /\ DOMAIN y.ptr = DOMAIN ptr
  BY <1>1, <1>6
<1> QED BY <1>1, <1>6, <1>7, <1>8, <1>9, DoneIs

\* The calls.
LEMMA MallocsIs ==
  ASSUME NEW n \in Nat, NEW t \in Nat, NEW o \in Int, NEW c, c = Mallocs(n, t, o)
  PROVE c \in CallType /\ c.call = "Z_Malloc" /\ c.owner = o /\ c.bytes = n /\ c.tag = t
BY DEF Mallocs, Call, CallType
LEMMA FreesIs ==
  ASSUME NEW o \in Int, NEW c, c = Frees(o)
  PROVE c \in CallType /\ c.call = "Z_Free" /\ c.owner = o /\ c.bytes = 0 /\ c.tag = 0
BY DEF Frees, Call, CallType
LEMMA FreesTagsIs ==
  ASSUME NEW t \in Nat, NEW c, c = FreesTags(t)
  PROVE c \in CallType /\ c.call = "Z_FreeTags" /\ c.owner = ANYONE /\ c.bytes = 0 /\ c.tag = t
BY DEF FreesTags, Call, CallType, ANYONE
LEMMA ChangesTagIs ==
  ASSUME NEW o \in Int, NEW t \in Nat, NEW c, c = ChangesTag(o, t)
  PROVE c \in CallType /\ c.call = "Z_ChangeTag" /\ c.owner = o /\ c.bytes = 0 /\ c.tag = t
BY DEF ChangesTag, Call, CallType
LEMMA CachesIs ==
  ASSUME NEW o \in Int, NEW t \in Nat, NEW c, c = Caches(o, t)
  PROVE c \in CallType /\ c.call = "W_CacheLumpNum" /\ c.owner = o /\ c.bytes = 0 /\ c.tag = t
BY DEF Caches, Call, CallType

LEMMA CacheLumpNumStep ==
  ASSUME ZoneInv, W_CacheLumpNum
  PROVE ZoneInv' /\ GoesOn
<1>1. Making("W_CacheLumpNum") /\ UNCHANGED <<rover, ptr, halted, search, Users>>
  BY DEF W_CacheLumpNum
<1>2. PICK o : o = todo[1].owner
  OBVIOUS
<1>3. PICK tag : tag = todo[1].tag
  OBVIOUS
<1>4. /\ o \in DOMAIN ptr /\ o \in DOMAIN lumpinfo /\ Head(todo) = todo[1] /\ todo[1].call = "W_CacheLumpNum" /\ tag \in Nat
      /\ halted = NONE /\ todo # <<>> /\ search = NOSEARCH
  BY <1>1, <1>2, <1>3, HeadIs DEF ACall
<1>5. o \in Nat \ {0} /\ o \notin Keepers
  <2>1. o \in Nat \ {0}
    BY <1>4 DEF ZoneInv, LumpsAreThere
  <2> QED BY <2>1, UserIs
<1>6. CASE ptr[o] # NULL
  <2>1. SetsTag(ptr[o], tag) /\ Returns
    BY <1>2, <1>3, <1>4, <1>6 DEF W_CacheLumpNum
  <2>2. PICK y : y = Zone(Owned(blocks, ptr[o], blocks[ptr[o]].user, tag), rover, ptr)
    OBVIOUS
  <2>3. /\ Shape(y) /\ Whole(y) /\ Pointers(y, {}) /\ y.ptr = ptr
        /\ y.blocks = Owned(blocks, ptr[o], blocks[ptr[o]].user, tag) /\ y.rover = rover
        /\ \A p \in DOMAIN ptr : HasIn(y, p) <=> IF p = o THEN tag = Kind(o) ELSE Has(p)
    BY <1>4, <1>5, <1>6, <2>2, TagIs
  <2>4. Becomes(y)
    BY <1>1, <2>1, <2>3 DEF Becomes, SetsTag
  <2>5. ASSUME NEW p \in DOMAIN ptr
        PROVE (Has(p) /\ ~Takes(todo[1], p) => HasIn(y, p)) /\ (Brings(todo[1], p) => HasIn(y, p))
    BY <1>2, <1>3, <1>4, <2>3 DEF Takes, Brings
  <2>6. UNCHANGED <<halted, search, Users>> /\ DOMAIN y.ptr = DOMAIN ptr
    BY <1>1, <2>3
  <2> QED BY <1>1, <2>1, <2>3, <2>4, <2>5, <2>6, DoneIs
<1>7. CASE ptr[o] = NULL
  <2>1. todo' = <<Mallocs(lumpinfo[o].size, tag, o)>> \o Tail(todo) /\ UNCHANGED blocks
    BY <1>2, <1>3, <1>4, <1>7 DEF W_CacheLumpNum
  <2>2. PICK c : c = Mallocs(lumpinfo[o].size, tag, o)
    OBVIOUS
  <2>3. lumpinfo[o].size \in Nat /\ Bytes(o) = lumpinfo[o].size
    <3>1. o # COMPOSITE
      BY <1>5, Marks
    <3>2. Bytes(o) = lumpinfo[o].size
      BY <1>5, <3>1 DEF Bytes
    <3> QED BY <1>4, <3>2, Before
  <2>4. c.call = "Z_Malloc" /\ c.owner = o /\ c.bytes = lumpinfo[o].size /\ c.tag = tag /\ c \in CallType
    <3>1. PICK n \in Nat : n = lumpinfo[o].size
      BY <2>3
    <3>2. c = Mallocs(n, tag, o) /\ o \in Int /\ tag \in Nat
      BY <1>4, <1>5, <2>2, <3>1
    <3> QED BY <3>1, <3>2, MallocsIs
  <2>6. ACall(c)
    BY <1>4, <1>5, <2>3, <2>4, Marks DEF ACall
  <2>7. \A p \in DOMAIN ptr : (Takes(c, p) <=> Takes(todo[1], p)) /\ (Brings(c, p) <=> Brings(todo[1], p))
    BY <1>2, <1>3, <1>4, <2>4 DEF Takes, Brings
  <2>8. UNCHANGED lumpinfo /\ UNCHANGED phase /\ UNCHANGED search /\ UNCHANGED halted /\ UNCHANGED Users /\ UNCHANGED ptr
    BY <1>1 DEF Users
  <2>9. Becomes(Z)
    BY <1>1, <2>1, Before DEF Becomes
  <2>10. Whole(Z)' /\ Pointers(Z, {})' /\ \A p : Has(p)' <=> HasIn(Z, p)
    BY <2>8, <2>9, Before, AfterStep
  <2>11. \A p \in DOMAIN ptr : Has(p) => Has(p)'
    BY <2>10, Before
  <2>12. CallsAreRight' /\ HeldIsSupplied'
    <3>1. c.call \notin {"Z_Free", "Z_ChangeTag"} /\ ptr'[c.owner] = NULL /\ todo' = <<c>> \o Tail(todo)
      BY <1>7, <2>1, <2>2, <2>4, <2>8
    <3>2. DOMAIN ptr' = DOMAIN ptr
      BY <2>8
    <3> QED BY <1>4, <2>4, <2>6, <2>7, <2>8, <2>11, <3>1, <3>2, CallStays DEF ZoneInv
  <2>13. LumpsAreThere'
    BY <2>8, Before, LumpsStay DEF ZoneInv
  <2>14. SearchIsRight' /\ halted' \in Int /\ FailsOnlyWhenFull'
    BY <1>4, <2>8, Marks DEF SearchIsRight, FailsOnlyWhenFull, NOSEARCH
  <2> QED BY <2>8, <2>10, <2>12, <2>13, <2>14, NothingStarts DEF ZoneInv
<1> QED BY <1>6, <1>7

LEMMA CallsStep ==
  ASSUME ZoneInv, Calls
  PROVE ZoneInv' /\ GoesOn
  BY StartsStep, FailsStep, SkipsFreeStep, SkipsOwnedStep, PurgesStep, FreeStep, FreeTagsStep, ChangeTagStep,
     CacheLumpNumStep DEF Calls

(* ----------------------------------------------------------------------- *)
(* Those who call                                                           *)
(* ----------------------------------------------------------------------- *)

\* The last lump of a name.
LEMMA LastIs ==
  ASSUME NEW q \in Seq(Lump), NEW name, \E l \in DOMAIN q : q[l].name = name
  PROVE \E l \in DOMAIN q : q[l].name = name /\ \A k \in DOMAIN q : q[k].name = name => k <= l
<1> DEFINE R == OpToRel(<, Nat)
           T == {Len(q) - l : l \in {k \in DOMAIN q : q[k].name = name}}
<1>1. Len(q) \in Nat /\ DOMAIN q = 1 .. Len(q)
  OBVIOUS
<1>2. T \subseteq Nat /\ T # {}
  BY <1>1
<1>3. PICK x \in T : \A y \in T : ~(<<y, x>> \in R)
  BY <1>2, NatLessThanWellFounded, WFMin
<1>4. PICK l \in DOMAIN q : q[l].name = name /\ x = Len(q) - l
  OBVIOUS
<1>5. ASSUME NEW k \in DOMAIN q, q[k].name = name PROVE k <= l
  <2>1. Len(q) - k \in T
    BY <1>5
  <2>2. ~(<<Len(q) - k, x>> \in R)
    BY <1>3, <2>1
  <2>3. ~(Len(q) - k < x)
    BY <1>2, <2>1, <2>2 DEF OpToRel
  <2> QED BY <1>1, <1>4, <2>3
<1> QED BY <1>4, <1>5

LEMMA NumIs ==
  ASSUME LumpsAreThere, lumpinfo # <<>>, NEW name \in Names \cup {Composite[i] : i \in DOMAIN Composite},
         NEW l, l = W_CheckNumForName(name)
  PROVE /\ l \in DOMAIN lumpinfo /\ lumpinfo[l].name = name /\ l \in Nat \ {0} /\ l \notin Keepers /\ l # COMPOSITE
        /\ Kind(l) = (IF name = "reject" THEN PU_LEVEL ELSE PU_STATIC)
        /\ phase # "adding" => l \in DOMAIN ptr
<1>1. lumpinfo \in Seq(Lump) /\ \E k \in DOMAIN lumpinfo : lumpinfo[k].name = name
  BY DEF LumpsAreThere
<1>2. l \in DOMAIN lumpinfo /\ lumpinfo[l].name = name
  BY <1>1, LastIs DEF W_CheckNumForName
<1>3. l \in Nat \ {0}
  BY <1>1, <1>2
<1>4. l \notin Keepers /\ l # COMPOSITE
  BY <1>3, UserIs, Marks
<1>5. phase # "adding" => l \in DOMAIN ptr
  BY <1>2 DEF LumpsAreThere
<1> QED BY <1>2, <1>3, <1>4, <1>5 DEF Kind

\* What the calls of a list find, when no other is under way.
SuppliedBy(q, o, i) ==
  /\ o \in DOMAIN ptr
  /\ Has(o) \/ \E j \in 1 .. i - 1 : Brings(q[j], o)
  /\ \A j \in 1 .. i - 1 : Takes(q[j], o) => \E k \in j + 1 .. i - 1 : Brings(q[k], o)
Right(q) ==
  /\ q \in Seq(CallType)
  /\ \A i \in DOMAIN q : /\ ACall(q[i])
                         /\ q[i].call = "Z_Malloc" /\ q[i].owner >= COMPOSITE => i = 1 /\ ptr[q[i].owner] = NULL
                         /\ Needs(q[i], q[i].owner) => SuppliedBy(q, q[i].owner, i)
Keeps(q, next) ==
  /\ SuppliedBy(q, W_CheckNumForName("face"), Len(q) + 1)
  /\ SuppliedBy(q, W_CheckNumForName("reject"), Len(q) + 1)
  /\ next = "tally" => /\ SuppliedBy(q, W_CheckNumForName("percent"), Len(q) + 1)
                       /\ SuppliedBy(q, LNAMES, Len(q) + 1)

LEMMA IdleIs ==
  ASSUME ZoneInv, Idle
  PROVE halted = NONE /\ todo = <<>> /\ search = NOSEARCH /\ \A o \in HeldBy : Has(o) /\ o \in DOMAIN ptr
<1>1. halted = NONE /\ todo = <<>> /\ search = NOSEARCH
  BY DEF Idle, ZoneInv, SearchIsRight
<1>2. ASSUME NEW o \in HeldBy PROVE Has(o) /\ o \in DOMAIN ptr
  <2>1. Supplied(o, 1)
    BY <1>1, <1>2 DEF ZoneInv, HeldIsSupplied
  <2> QED BY <2>1 DEF Supplied
<1> QED BY <1>1, <1>2

LEMMA GoesIs ==
  ASSUME ZoneInv, Idle, phase # "adding", NEW q, NEW next \in {"level", "tally", "leaving"}, Goes(q, next),
         Right(q), Keeps(q, next)
  PROVE ZoneInv' /\ GoesOn
<1>1. /\ todo' = q /\ phase' = next /\ blocks' = blocks /\ rover' = rover /\ halted' = halted /\ search' = search
      /\ ptr' = ptr /\ lumpinfo' = lumpinfo /\ files' = files
  BY DEF Goes, Does
<1>2. /\ \A o, i : Supplied(o, i)' <=> SuppliedBy(q, o, i)
      /\ \A c : (ACall(c)' <=> ACall(c)) /\ \A o : Needs(c, o)' <=> Needs(c, o)
  <2>1. \A o : Has(o)' <=> Has(o)
    BY <1>1 DEF Has, Kind
  <2>2. \A c, o : (Takes(c, o)' <=> Takes(c, o)) /\ (Brings(c, o)' <=> Brings(c, o)) /\ (Needs(c, o)' <=> Needs(c, o))
    BY <1>1, KindSame
  <2>3. \A c : ACall(c)' <=> ACall(c)
    BY <1>1, ACallSame
  <2>4. \A o, i : Supplied(o, i)' <=> SuppliedBy(q, o, i)
    <3>1. \A j, o : (Takes(todo[j], o)' <=> Takes(q[j], o)) /\ (Brings(todo[j], o)' <=> Brings(q[j], o))
      BY <1>1, KindSame DEF Takes, Brings
    <3> QED BY <1>1, <2>1, <3>1 DEF Supplied, SuppliedBy
  <2> QED BY <2>2, <2>3, <2>4
<1>3. CallsAreRight'
  <2>1. \A i : ACall(todo[i])' <=> ACall(q[i])
    BY <1>1, ACallSame DEF ACall
  <2>2. \A i : Needs(todo[i], todo[i].owner)' <=> Needs(q[i], q[i].owner)
    BY <1>1 DEF Needs
  <2>3. \A i : Supplied(todo[i].owner, i)' <=> SuppliedBy(q, q[i].owner, i)
    BY <1>1, <1>2 DEF Supplied
  <2> QED BY <1>1, <2>1, <2>2, <2>3 DEF CallsAreRight, Right
<1>4. HeldIsSupplied'
  <2>1. \A o \in HeldBy' :
          \/ o = W_CheckNumForName("face") \/ o = W_CheckNumForName("reject")
          \/ next = "tally" /\ (o = W_CheckNumForName("percent") \/ o = LNAMES)
    <3>1. HeldBy' = {W_CheckNumForName(name) : name \in Held'} \cup (IF next = "tally" THEN {LNAMES} ELSE {})
      BY <1>1 DEF HeldBy, W_CheckNumForName
    <3>2. Held' \subseteq {"face", "reject"} \cup (IF next = "tally" THEN {"percent"} ELSE {})
      BY <1>1 DEF Held
    <3>3. \A name \in Held' : name = "face" \/ name = "reject" \/ (next = "tally" /\ name = "percent")
      BY <3>2
    <3>4. ASSUME NEW o \in HeldBy'
          PROVE (next = "tally" /\ o = LNAMES) \/ \E name \in Held' : o = W_CheckNumForName(name)
      <4>1. CASE next = "tally"
        BY <3>1, <4>1
      <4>2. CASE next # "tally"
        BY <3>1, <4>2
      <4> QED BY <4>1, <4>2
    <3>5. ASSUME NEW o \in HeldBy'
          PROVE \/ o = W_CheckNumForName("face") \/ o = W_CheckNumForName("reject")
                \/ next = "tally" /\ (o = W_CheckNumForName("percent") \/ o = LNAMES)
      <4>1. CASE next = "tally" /\ o = LNAMES
        BY <4>1
      <4>2. CASE ~(next = "tally" /\ o = LNAMES)
        <5>1. PICK name \in Held' : o = W_CheckNumForName(name)
          BY <3>4, <3>5, <4>2
        <5>2. name = "face" \/ name = "reject" \/ (next = "tally" /\ name = "percent")
          BY <3>3, <5>1
        <5> QED BY <5>1, <5>2
      <4> QED BY <4>1, <4>2
    <3> QED BY <3>5
  <2>2. \A o \in HeldBy' : SuppliedBy(q, o, Len(q) + 1)
    BY <2>1 DEF Keeps
  <2>3. (Len(todo) + 1)' = Len(q) + 1
    BY <1>1
  <2> QED BY <1>1, <1>2, <2>2, <2>3 DEF HeldIsSupplied, Supplied
<1>5. LumpsAreThere'
  BY <1>1 DEF ZoneInv, LumpsAreThere
<1>6. SearchIsRight' /\ halted' \in Int /\ FailsOnlyWhenFull'
  BY <1>1, IdleIs, Marks DEF SearchIsRight, FailsOnlyWhenFull, NOSEARCH
<1>7. Whole(Z)' /\ Pointers(Z, {})'
  <2>1. Becomes(Z)
    BY <1>1, Before DEF Becomes
  <2> QED BY <1>1, <2>1, Before, AfterStep
<1> QED BY <1>1, <1>3, <1>4, <1>5, <1>6, <1>7, NothingStarts DEF ZoneInv

LEMMA LoadsOne ==
  ASSUME NEW name, NEW tag
  PROVE Loads(<<name>>, tag) = <<W_CacheLumpName(name, tag)>>
<1>1. Len(<<name>>) = 1 /\ <<name>>[1] = name
  OBVIOUS
<1>2. Loads(<<name>>, tag) = [i \in 1 .. 1 |-> W_CacheLumpName(<<name>>[i], tag)]
  BY <1>1 DEF Loads
<1>3. PICK c : c = W_CacheLumpName(name, tag)
  OBVIOUS
<1>4. Loads(<<name>>, tag) = [i \in 1 .. 1 |-> c]
  BY <1>1, <1>2, <1>3
<1>5. [i \in 1 .. 1 |-> c] = <<c>>
  OBVIOUS
<1> QED BY <1>3, <1>4, <1>5

LEMMA LetsOne ==
  ASSUME NEW name
  PROVE Lets(<<name>>) = <<ChangesTag(W_CheckNumForName(name), PU_CACHE)>>
<1>1. Len(<<name>>) = 1 /\ <<name>>[1] = name
  OBVIOUS
<1>2. Lets(<<name>>) = [i \in 1 .. 1 |-> ChangesTag(W_CheckNumForName(<<name>>[i]), PU_CACHE)]
  BY <1>1 DEF Lets
<1>3. PICK c : c = ChangesTag(W_CheckNumForName(name), PU_CACHE)
  OBVIOUS
<1>4. Lets(<<name>>) = [i \in 1 .. 1 |-> c]
  BY <1>1, <1>2, <1>3
<1>5. [i \in 1 .. 1 |-> c] = <<c>>
  OBVIOUS
<1> QED BY <1>3, <1>4, <1>5

LEMMA LoadsTwo ==
  ASSUME NEW one, NEW two, NEW tag
  PROVE Loads(<<one>> \o <<two>>, tag) = <<W_CacheLumpName(one, tag), W_CacheLumpName(two, tag)>>
<1>1. Len(<<one>> \o <<two>>) = 2 /\ (<<one>> \o <<two>>)[1] = one /\ (<<one>> \o <<two>>)[2] = two
  OBVIOUS
<1>2. PICK c : c = W_CacheLumpName(one, tag)
  OBVIOUS
<1>3. PICK d : d = W_CacheLumpName(two, tag)
  OBVIOUS
<1>4. PICK q : q = Loads(<<one>> \o <<two>>, tag)
  OBVIOUS
<1>5. q = [i \in 1 .. 2 |-> W_CacheLumpName((<<one>> \o <<two>>)[i], tag)]
  BY <1>1, <1>4 DEF Loads
<1>6. q[1] = c /\ q[2] = d /\ DOMAIN q = 1 .. 2
  BY <1>1, <1>2, <1>3, <1>5
<1>7. q = [i \in 1 .. 2 |-> q[i]]
  BY <1>5, <1>6
<1>8. q = <<c, d>>
  BY <1>6, <1>7
<1> QED BY <1>2, <1>3, <1>4, <1>8

LEMMA LevelList ==
  ASSUME NEW a \in CallType, NEW b \in CallType, NEW c \in CallType, NEW d \in CallType, NEW e \in CallType,
         NEW q, q = <<>> \o (<<a>> \o <<b, c, d>> \o <<e>>)
  PROVE q \in Seq(CallType) /\ Len(q) = 5 /\ q[1] = a /\ q[2] = b /\ q[3] = c /\ q[4] = d /\ q[5] = e
<1>1. q \in Seq(CallType)
  OBVIOUS
<1>2. Len(q) = 5
  OBVIOUS
<1>3. q[1] = a /\ q[2] = b /\ q[3] = c /\ q[4] = d /\ q[5] = e
  OBVIOUS
<1> QED BY <1>1, <1>2, <1>3

LEMMA FirstLevelList ==
  ASSUME NEW a \in CallType, NEW b \in CallType, NEW c \in CallType, NEW d \in CallType, NEW e \in CallType, NEW f \in CallType,
         NEW q, q = <<f>> \o (<<a>> \o <<b, c, d>> \o <<e>>)
  PROVE q \in Seq(CallType) /\ Len(q) = 6 /\ q[1] = f /\ q[2] = a /\ q[3] = b /\ q[4] = c /\ q[5] = d /\ q[6] = e
<1>1. q \in Seq(CallType)
  OBVIOUS
<1>2. Len(q) = 6
  OBVIOUS
<1>3. q[1] = f /\ q[2] = a /\ q[3] = b /\ q[4] = c /\ q[5] = d /\ q[6] = e
  <2>1. PICK r : r = <<a>> \o <<b, c, d>> \o <<e>>
    OBVIOUS
  <2>2. r \in Seq(CallType) /\ Len(r) = 5
    BY <2>1
  <2>3. r[1] = a /\ r[2] = b /\ r[3] = c /\ r[4] = d /\ r[5] = e
    <3>1. PICK s : s = <<a>> \o <<b, c, d>>
      OBVIOUS
    <3>2. s \in Seq(CallType) /\ Len(s) = 4
      BY <3>1
    <3>3. s[1] = a /\ s[2] = b /\ s[3] = c /\ s[4] = d
      BY <3>1
    <3>4. r = s \o <<e>>
      BY <2>1, <3>1
    <3>w. PICK w : w = <<e>>
      OBVIOUS
    <3>5. w \in Seq(CallType) /\ Len(w) = 1 /\ w[1] = e
      BY <3>w
    <3>6. r = s \o w
      BY <3>4, <3>w
    <3>7. \A i \in 1 .. Len(s) + Len(w) : r[i] = IF i <= Len(s) THEN s[i] ELSE w[i - Len(s)]
      BY <3>2, <3>5, <3>6, ConcatProperties
    <3>8. r[1] = s[1] /\ r[2] = s[2] /\ r[3] = s[3] /\ r[4] = s[4] /\ r[5] = w[1]
      BY <3>2, <3>5, <3>7
    <3> QED BY <3>3, <3>5, <3>8
  <2>4. q = <<f>> \o r
    BY <2>1
  <2> QED BY <2>2, <2>3, <2>4
<1> QED BY <1>1, <1>2, <1>3

LEMMA ShortList ==
  ASSUME NEW a \in CallType, NEW b \in CallType, NEW c \in CallType
  PROVE /\ <<a>> \in Seq(CallType) /\ Len(<<a>>) = 1 /\ <<a>>[1] = a
        /\ <<a, b>> \in Seq(CallType) /\ Len(<<a, b>>) = 2 /\ <<a, b>>[1] = a /\ <<a, b>>[2] = b
        /\ <<a>> \o <<b>> \in Seq(CallType) /\ Len(<<a>> \o <<b>>) = 2
        /\ (<<a>> \o <<b>>)[1] = a /\ (<<a>> \o <<b>>)[2] = b
        /\ <<a>> \o <<b, c>> \in Seq(CallType) /\ Len(<<a>> \o <<b, c>>) = 3
        /\ (<<a>> \o <<b, c>>)[1] = a /\ (<<a>> \o <<b, c>>)[2] = b /\ (<<a>> \o <<b, c>>)[3] = c
  OBVIOUS

\* The lumps that are asked for by name.
LEMMA NumbersAre ==
  ASSUME ZoneInv, phase # "adding", NEW f, f = W_CheckNumForName("face"), NEW r, r = W_CheckNumForName("reject"),
         NEW p, p = W_CheckNumForName("percent"), NEW v, v = W_CheckNumForName("vertexes"),
         NEW w, w = W_CheckNumForName("picture")
  PROVE /\ \A l \in {f, r, p, v, w} : /\ l \in DOMAIN lumpinfo /\ l \in DOMAIN ptr /\ l \in Nat \ {0} /\ l \in Int
                                      /\ l \notin Keepers /\ l # COMPOSITE
        /\ Kind(f) = PU_STATIC /\ Kind(r) = PU_LEVEL /\ Kind(p) = PU_STATIC /\ Kind(v) = PU_STATIC /\ Kind(w) = PU_STATIC
        /\ f # r /\ f # p /\ f # v /\ f # w /\ r # p /\ r # v /\ r # w /\ p # v /\ p # w /\ v # w
<1>1. /\ LumpsAreThere /\ lumpinfo # <<>>
  BY DEF ZoneInv, LumpsAreThere
<1>2. {"face", "reject", "percent", "vertexes", "picture"} \subseteq Names
  BY DEF Names
<1>3. ASSUME NEW name \in {"face", "reject", "percent", "vertexes", "picture"}, NEW l, l = W_CheckNumForName(name)
      PROVE /\ l \in DOMAIN lumpinfo /\ lumpinfo[l].name = name /\ l \in Nat \ {0} /\ l \notin Keepers /\ l # COMPOSITE
            /\ Kind(l) = (IF name = "reject" THEN PU_LEVEL ELSE PU_STATIC) /\ l \in DOMAIN ptr
  BY <1>1, <1>2, <1>3, NumIs
<1>4. f \in DOMAIN lumpinfo /\ lumpinfo[f].name = "face" /\ f \in Nat \ {0} /\ f \notin Keepers /\ f # COMPOSITE /\ Kind(f) = PU_STATIC /\ f \in DOMAIN ptr
  BY <1>3
<1>5. r \in DOMAIN lumpinfo /\ lumpinfo[r].name = "reject" /\ r \in Nat \ {0} /\ r \notin Keepers /\ r # COMPOSITE /\ Kind(r) = PU_LEVEL /\ r \in DOMAIN ptr
  BY <1>3
<1>6. p \in DOMAIN lumpinfo /\ lumpinfo[p].name = "percent" /\ p \in Nat \ {0} /\ p \notin Keepers /\ p # COMPOSITE /\ Kind(p) = PU_STATIC /\ p \in DOMAIN ptr
  BY <1>3
<1>7. v \in DOMAIN lumpinfo /\ lumpinfo[v].name = "vertexes" /\ v \in Nat \ {0} /\ v \notin Keepers /\ v # COMPOSITE /\ Kind(v) = PU_STATIC /\ v \in DOMAIN ptr
  BY <1>3
<1>8. w \in DOMAIN lumpinfo /\ lumpinfo[w].name = "picture" /\ w \in Nat \ {0} /\ w \notin Keepers /\ w # COMPOSITE /\ Kind(w) = PU_STATIC /\ w \in DOMAIN ptr
  BY <1>3
<1>9. f # r /\ f # p /\ f # v /\ f # w /\ r # p /\ r # v /\ r # w /\ p # v /\ p # w /\ v # w
  BY <1>4, <1>5, <1>6, <1>7, <1>8
<1> HIDE <1>3
<1> QED BY <1>4, <1>5, <1>6, <1>7, <1>8, <1>9

\* What is held between the calls is there.
LEMMA HeldHas ==
  ASSUME ZoneInv, Idle
  PROVE /\ phase \in {"level", "tally", "leaving"} => Has(W_CheckNumForName("face")) /\ Has(W_CheckNumForName("reject"))
        /\ phase = "tally" => Has(W_CheckNumForName("percent")) /\ Has(LNAMES)
<1>1. \A o \in HeldBy : Has(o)
  BY IdleIs
<1>2. \A name \in Held : W_CheckNumForName(name) \in HeldBy
  BY DEF HeldBy
<1>3. phase = "tally" => LNAMES \in HeldBy
  BY DEF HeldBy
<1>4. phase \in {"level", "tally", "leaving"} => "face" \in Held /\ "reject" \in Held
  BY DEF Held
<1>5. phase = "tally" => "percent" \in Held
  BY DEF Held
<1> QED BY <1>1, <1>2, <1>3, <1>4, <1>5

\* What no call takes is still there behind them.
LEMMA NotTaken ==
  ASSUME NEW q, NEW n \in Nat, NEW o \in DOMAIN ptr, Has(o), \A j \in 1 .. n : ~Takes(q[j], o)
  PROVE SuppliedBy(q, o, n + 1)
<1>1. (n + 1) - 1 = n
  OBVIOUS
<1> QED BY <1>1 DEF SuppliedBy

LEMMA DrawsStep ==
  ASSUME ZoneInv, DrawsPicture
  PROVE ZoneInv' /\ GoesOn
<1>1. phase \in {"level", "tally", "leaving"} /\ Idle /\ Goes(<<W_CacheLumpName("picture", PU_CACHE)>>, phase) /\ phase # "adding"
  BY DEF DrawsPicture, Playing
<1>2. PICK f : f = W_CheckNumForName("face")
  OBVIOUS
<1>3. PICK r : r = W_CheckNumForName("reject")
  OBVIOUS
<1>4. PICK p : p = W_CheckNumForName("percent")
  OBVIOUS
<1>5. PICK v : v = W_CheckNumForName("vertexes")
  OBVIOUS
<1>6. PICK w : w = W_CheckNumForName("picture")
  OBVIOUS
<1>7. /\ \A l \in {f, r, p, v, w} : /\ l \in DOMAIN lumpinfo /\ l \in DOMAIN ptr /\ l \in Nat \ {0} /\ l \in Int
                                    /\ l \notin Keepers /\ l # COMPOSITE
      /\ f # w /\ r # w /\ p # w
  BY <1>1, <1>2, <1>3, <1>4, <1>5, <1>6, NumbersAre
<1>8. PICK c : c = Caches(w, PU_CACHE)
  OBVIOUS
<1>9. c \in CallType /\ c.call = "W_CacheLumpNum" /\ c.owner = w /\ c.bytes = 0 /\ c.tag = PU_CACHE
  BY <1>7, <1>8, CachesIs DEF PU_CACHE
<1>10. PICK q : q = <<c>>
  OBVIOUS
<1>11. q \in Seq(CallType) /\ Len(q) = 1 /\ q[1] = c /\ DOMAIN q = 1 .. 1
  BY <1>9, <1>10, ShortList
<1>12. Goes(q, phase)
  BY <1>1, <1>6, <1>8, <1>10 DEF W_CacheLumpName
<1>13. Right(q)
  BY <1>7, <1>9, <1>11 DEF Right, ACall, Needs, PU_CACHE
<1>14. \A o : Takes(c, o) => o = w
  BY <1>9 DEF Takes
<1>15. Keeps(q, phase)
  <2>1. ASSUME NEW o \in DOMAIN ptr, Has(o), o # w PROVE SuppliedBy(q, o, Len(q) + 1)
    <3>1. \A j \in 1 .. Len(q) : ~Takes(q[j], o)
      BY <1>11, <1>14, <2>1
    <3>2. Len(q) \in Nat
      BY <1>11
    <3> QED BY <2>1, <3>1, <3>2, NotTaken
  <2>2. Has(f) /\ Has(r) /\ (phase = "tally" => Has(p) /\ Has(LNAMES))
    BY <1>1, <1>2, <1>3, <1>4, HeldHas
  <2>3. LNAMES \in DOMAIN ptr /\ LNAMES \in Keepers
    BY Owners, Before DEF ZoneInv, LumpsAreThere, Keepers
  <2> QED BY <1>2, <1>3, <1>4, <1>7, <2>1, <2>2, <2>3 DEF Keeps
<1> QED BY <1>1, <1>12, <1>13, <1>15, GoesIs

LEMMA AddsStep ==
  ASSUME ZoneInv, AddsThinker
  PROVE ZoneInv' /\ GoesOn
<1>1. phase = "level" /\ Idle /\ Goes(<<Mallocs(THINKERSIZE, PU_LEVSPEC, ANYONE)>>, phase)
  BY DEF AddsThinker
<1>2. PICK c : c = Mallocs(THINKERSIZE, PU_LEVSPEC, ANYONE)
  OBVIOUS
<1>3. c \in CallType /\ c.call = "Z_Malloc" /\ c.owner = ANYONE /\ c.bytes = THINKERSIZE /\ c.tag = PU_LEVSPEC
  <2>1. THINKERSIZE \in Nat /\ PU_LEVSPEC \in Nat /\ ANYONE \in Int
    BY ZoneAssumption DEF PU_LEVSPEC, ANYONE
  <2> QED BY <1>2, <2>1, MallocsIs
<1>4. PICK q : q = <<c>>
  OBVIOUS
<1>5. q \in Seq(CallType) /\ Len(q) = 1 /\ q[1] = c /\ DOMAIN q = 1 .. 1
  BY <1>3, <1>4, ShortList
<1>6. Goes(q, phase) /\ phase # "adding"
  BY <1>1, <1>2, <1>4
<1>7. ANYONE \notin DOMAIN ptr /\ ANYONE \notin Keepers /\ ~(ANYONE >= COMPOSITE)
  BY Before, Owners, Marks DEF Keepers, ANYONE, COMPOSITE, LUMPINFO, OLDINFO, DIRBUF, LUMPCACHE, LNAMES
<1>8. ACall(c)
  <2>1. THINKERSIZE \in Nat /\ PU_LEVSPEC \in Nat /\ ~(PU_LEVSPEC >= PU_PURGELEVEL)
    BY ZoneAssumption DEF PU_LEVSPEC, PU_PURGELEVEL
  <2> QED BY <1>3, <1>7, <2>1 DEF ACall
<1>9. Right(q)
  BY <1>3, <1>5, <1>7, <1>8 DEF Right, Needs
<1>10. \A o \in DOMAIN ptr : ~Takes(c, o)
  BY <1>3, <1>7 DEF Takes
<1>11. Keeps(q, phase)
  <2>1. ASSUME NEW o \in DOMAIN ptr, Has(o) PROVE SuppliedBy(q, o, Len(q) + 1)
    <3>1. \A j \in 1 .. Len(q) : ~Takes(q[j], o)
      BY <1>5, <1>10
    <3>2. Len(q) \in Nat
      BY <1>5
    <3> QED BY <2>1, <3>1, <3>2, NotTaken
  <2>2. Has(W_CheckNumForName("face")) /\ Has(W_CheckNumForName("reject"))
    BY <1>1, HeldHas
  <2>3. W_CheckNumForName("face") \in DOMAIN ptr /\ W_CheckNumForName("reject") \in DOMAIN ptr
    BY <1>6, NumbersAre
  <2> QED BY <1>1, <2>1, <2>2, <2>3 DEF Keeps
<1> QED BY <1>1, <1>6, <1>9, <1>11, GoesIs

LEMMA RunStep ==
  ASSUME ZoneInv, P_RunThinkers
  PROVE ZoneInv' /\ GoesOn
<1>1. PICK a \in DOMAIN blocks : blocks[a].user = ANYONE /\ blocks[a].tag = PU_LEVSPEC /\ Becomes(Freed(Z, a))
  BY DEF P_RunThinkers
<1>2. /\ Idle /\ phase = "level" /\ halted' = halted /\ todo' = todo /\ search' = search /\ UNCHANGED Users
      /\ lumpinfo' = lumpinfo /\ phase' = phase
  BY DEF P_RunThinkers, Users
<1>3. halted = NONE /\ todo = <<>> /\ search = NOSEARCH
  BY <1>2, IdleIs
<1>4. a # ZONE /\ ~FreeBlock(blocks[a]) /\ blocks[a].tag # PU_STATIC
  <2>1. blocks[ZONE].tag = PU_STATIC
    BY Before DEF Laid
  <2> QED BY <1>1, <2>1, Marks DEF FreeBlock, PU_LEVSPEC, PU_STATIC
<1>5. PICK y : y = Freed(Z, a)
  OBVIOUS
<1>6. /\ Shape(y) /\ Whole(y) /\ Pointers(y, {}) /\ DOMAIN y.ptr = DOMAIN ptr
      /\ \A o \in DOMAIN ptr : Has(o) /\ Kind(o) # blocks[a].tag => HasIn(y, o)
  BY <1>1, <1>4, <1>5, OthersStay
<1>7. /\ ptr' = y.ptr /\ Whole(Z)' /\ Pointers(Z, {})' /\ \A o : Has(o)' <=> HasIn(y, o)
  BY <1>1, <1>2, <1>5, <1>6, AfterStep
<1>8. DOMAIN ptr' = DOMAIN ptr /\ ptr' \in [DOMAIN ptr -> Int]
  BY <1>6, <1>7 DEF Shape
<1>9. \A o \in DOMAIN ptr : Has(o) => Has(o)'
  <2>1. \A o : Kind(o) # PU_LEVSPEC
    BY Kinds DEF PU_STATIC, PU_LEVEL, PU_LEVSPEC
  <2> QED BY <1>1, <1>6, <1>7, <2>1
<1>10. CallsAreRight'
  BY <1>2, <1>3 DEF CallsAreRight
<1>11. HeldIsSupplied'
  <2>1. Len(todo') + 1 = 1
    BY <1>2, <1>3
  <2>2. ASSUME NEW o \in HeldBy PROVE Supplied(o, 1)'
    <3>1. Has(o)' /\ o \in DOMAIN ptr'
      BY <1>2, <1>8, <1>9, IdleIs
    <3>2. 1 .. 1 - 1 = {}
      OBVIOUS
    <3> QED BY <3>1, <3>2 DEF Supplied
  <2>3. HeldBy' = HeldBy
    BY <1>2, HeldBySame
  <2> QED BY <2>1, <2>2, <2>3 DEF HeldIsSupplied, Supplied
<1>12. LumpsAreThere'
  BY <1>2, <1>8, LumpsStay DEF ZoneInv
<1>13. SearchIsRight' /\ halted' \in Int /\ FailsOnlyWhenFull'
  BY <1>2, <1>3, Marks DEF SearchIsRight, FailsOnlyWhenFull, NOSEARCH
<1> QED BY <1>2, <1>7, <1>10, <1>11, <1>12, <1>13, NothingStarts DEF ZoneInv

LEMMA NamesOwner ==
  ASSUME ZoneInv
  PROVE /\ LNAMES \in DOMAIN ptr /\ LNAMES \in Keepers /\ LNAMES \in Int /\ ~(LNAMES >= COMPOSITE)
        /\ Kind(LNAMES) = PU_STATIC /\ Bytes(LNAMES) = TABLESIZE
<1>1. LNAMES \in DOMAIN ptr /\ LNAMES \in Keepers /\ LNAMES \in Int /\ ~(LNAMES >= COMPOSITE)
  BY DEF ZoneInv, LumpsAreThere, Keepers, LNAMES, COMPOSITE
<1>2. LNAMES \notin DOMAIN lumpinfo
  BY DEF ZoneInv, LumpsAreThere, LNAMES
<1> QED BY <1>1, <1>2 DEF Kind, Bytes

LEMMA LoadStep ==
  ASSUME ZoneInv, WI_loadData
  PROVE ZoneInv' /\ GoesOn
<1>1. phase = "level" /\ Idle /\ phase # "adding"
      /\ Goes(<<Mallocs(TABLESIZE, PU_STATIC, LNAMES)>> \o Loads(WINAMES \o WISTAR, PU_STATIC), "tally")
  BY DEF WI_loadData
<1>2. PICK f : f = W_CheckNumForName("face")
  OBVIOUS
<1>3. PICK r : r = W_CheckNumForName("reject")
  OBVIOUS
<1>4. PICK p : p = W_CheckNumForName("percent")
  OBVIOUS
<1>5. PICK v : v = W_CheckNumForName("vertexes")
  OBVIOUS
<1>6. PICK w : w = W_CheckNumForName("picture")
  OBVIOUS
<1>7. /\ \A l \in {f, r, p, v, w} : /\ l \in DOMAIN lumpinfo /\ l \in DOMAIN ptr /\ l \in Nat \ {0} /\ l \in Int
                                    /\ l \notin Keepers /\ l # COMPOSITE
      /\ f # r /\ f # p /\ r # p /\ Kind(f) = PU_STATIC /\ Kind(r) = PU_LEVEL /\ Kind(p) = PU_STATIC
  BY <1>1, <1>2, <1>3, <1>4, <1>5, <1>6, NumbersAre
<1>8. LNAMES \in DOMAIN ptr /\ LNAMES \in Keepers /\ LNAMES \in Int /\ ~(LNAMES >= COMPOSITE) /\ Kind(LNAMES) = PU_STATIC
      /\ Bytes(LNAMES) = TABLESIZE /\ TABLESIZE \in Nat
  BY NamesOwner DEF TABLESIZE
<1>9. PICK a : a = Mallocs(TABLESIZE, PU_STATIC, LNAMES)
  OBVIOUS
<1>10. a \in CallType /\ a.call = "Z_Malloc" /\ a.owner = LNAMES /\ a.bytes = TABLESIZE /\ a.tag = PU_STATIC
  BY <1>8, <1>9, MallocsIs DEF PU_STATIC
<1>11. PICK b : b = Caches(p, PU_STATIC)
  OBVIOUS
<1>12. b \in CallType /\ b.call = "W_CacheLumpNum" /\ b.owner = p /\ b.bytes = 0 /\ b.tag = PU_STATIC
  BY <1>7, <1>11, CachesIs DEF PU_STATIC
<1>13. PICK c : c = Caches(f, PU_STATIC)
  OBVIOUS
<1>14. c \in CallType /\ c.call = "W_CacheLumpNum" /\ c.owner = f /\ c.bytes = 0 /\ c.tag = PU_STATIC
  BY <1>7, <1>13, CachesIs DEF PU_STATIC
<1>15. PICK q : q = <<a>> \o <<b, c>>
  OBVIOUS
<1>16. q \in Seq(CallType) /\ Len(q) = 3 /\ q[1] = a /\ q[2] = b /\ q[3] = c
  BY <1>10, <1>12, <1>14, <1>15, ShortList
<1>17. Goes(q, "tally")
  BY <1>1, <1>2, <1>4, <1>9, <1>11, <1>13, <1>15, LoadsTwo DEF WINAMES, WISTAR, W_CacheLumpName
<1>18. ACall(a) /\ ACall(b) /\ ACall(c)
  BY <1>7, <1>8, <1>10, <1>12, <1>14 DEF ACall, PU_STATIC, PU_PURGELEVEL
<1>19. \A j \in 1 .. 3 : (j = 1 /\ q[j] = a) \/ (j = 2 /\ q[j] = b) \/ (j = 3 /\ q[j] = c)
  BY <1>16
<1>20. Right(q)
  <2>1. DOMAIN q = 1 .. 3
    BY <1>16
  <2> QED BY <1>8, <1>10, <1>12, <1>14, <1>16, <1>18, <1>19, <2>1 DEF Right, Needs
<1>21. \A o \in DOMAIN ptr : ~Takes(a, o) /\ ~Takes(b, o) /\ ~Takes(c, o)
  BY <1>7, <1>8, <1>10, <1>12, <1>14 DEF Takes
<1>22. Brings(a, LNAMES) /\ Brings(b, p) /\ Brings(c, f)
  BY <1>7, <1>8, <1>10, <1>12, <1>14 DEF Brings
<1>23. Keeps(q, "tally")
  <2>1. Len(q) + 1 = 4 /\ 4 - 1 = 3 /\ Len(q) + 1 - 1 = 3
    BY <1>16
  <2>2. \A o \in DOMAIN ptr : \A j \in 1 .. 3 : ~Takes(q[j], o)
    BY <1>19, <1>21
  <2>3. Has(r)
    BY <1>1, <1>3, HeldHas
  <2>4. /\ \E j \in 1 .. 3 : Brings(q[j], LNAMES)
        /\ \E j \in 1 .. 3 : Brings(q[j], p)
        /\ \E j \in 1 .. 3 : Brings(q[j], f)
    BY <1>16, <1>22
  <2>5. \A o \in DOMAIN ptr : (Has(o) \/ \E j \in 1 .. 3 : Brings(q[j], o)) => SuppliedBy(q, o, Len(q) + 1)
    BY <2>1, <2>2 DEF SuppliedBy
  <2> QED BY <1>2, <1>3, <1>4, <1>7, <1>8, <2>3, <2>4, <2>5 DEF Keeps
<1> QED BY <1>1, <1>17, <1>20, <1>23, GoesIs

LEMMA UnloadStep ==
  ASSUME ZoneInv, WI_unloadData
  PROVE ZoneInv' /\ GoesOn
<1>1. phase = "tally" /\ Idle /\ phase # "adding" /\ Goes(<<Frees(LNAMES)>> \o Lets(WINAMES), "leaving")
  BY DEF WI_unloadData
<1>2. PICK f : f = W_CheckNumForName("face")
  OBVIOUS
<1>3. PICK r : r = W_CheckNumForName("reject")
  OBVIOUS
<1>4. PICK p : p = W_CheckNumForName("percent")
  OBVIOUS
<1>5. PICK v : v = W_CheckNumForName("vertexes")
  OBVIOUS
<1>6. PICK w : w = W_CheckNumForName("picture")
  OBVIOUS
<1>7. /\ \A l \in {f, r, p, v, w} : /\ l \in DOMAIN lumpinfo /\ l \in DOMAIN ptr /\ l \in Nat \ {0} /\ l \in Int
                                    /\ l \notin Keepers /\ l # COMPOSITE
      /\ f # r /\ f # p /\ r # p /\ Kind(f) = PU_STATIC /\ Kind(r) = PU_LEVEL /\ Kind(p) = PU_STATIC
  BY <1>1, <1>2, <1>3, <1>4, <1>5, <1>6, NumbersAre
<1>8. LNAMES \in DOMAIN ptr /\ LNAMES \in Keepers /\ LNAMES \in Int
  BY NamesOwner
<1>9. PICK a : a = Frees(LNAMES)
  OBVIOUS
<1>10. a \in CallType /\ a.call = "Z_Free" /\ a.owner = LNAMES /\ a.bytes = 0 /\ a.tag = 0
  BY <1>8, <1>9, FreesIs
<1>11. PICK b : b = ChangesTag(p, PU_CACHE)
  OBVIOUS
<1>12. b \in CallType /\ b.call = "Z_ChangeTag" /\ b.owner = p /\ b.bytes = 0 /\ b.tag = PU_CACHE /\ PU_CACHE \in Nat
  BY <1>7, <1>11, ChangesTagIs DEF PU_CACHE
<1>13. PICK q : q = <<a>> \o <<b>>
  OBVIOUS
<1>14. q \in Seq(CallType) /\ Len(q) = 2 /\ q[1] = a /\ q[2] = b
  BY <1>10, <1>12, <1>13, ShortList
<1>15. Goes(q, "leaving")
  BY <1>1, <1>4, <1>9, <1>11, <1>13, LetsOne DEF WINAMES
<1>16. ACall(a) /\ ACall(b)
  BY <1>7, <1>8, <1>10, <1>12 DEF ACall
<1>17. \A j \in 1 .. 2 : (j = 1 /\ q[j] = a) \/ (j = 2 /\ q[j] = b)
  BY <1>14
<1>18. Has(f) /\ Has(r) /\ Has(p) /\ Has(LNAMES)
  BY <1>1, <1>2, <1>3, <1>4, HeldHas
<1>19. \A o \in DOMAIN ptr : (Takes(a, o) => o = LNAMES) /\ (Takes(b, o) => o = p)
  BY <1>10, <1>12 DEF Takes
<1>20. SuppliedBy(q, LNAMES, 1)
  BY <1>8, <1>18 DEF SuppliedBy
<1>21. SuppliedBy(q, p, 2)
  <2>1. \A j \in 1 .. 1 : ~Takes(q[j], p)
    BY <1>7, <1>8, <1>14, <1>19
  <2>2. SuppliedBy(q, p, 1 + 1)
    BY <1>7, <1>18, <2>1, NotTaken
  <2> QED BY <2>2
<1>22. Right(q)
  <2>1. DOMAIN q = 1 .. 2
    BY <1>14
  <2> QED BY <1>10, <1>12, <1>14, <1>16, <1>17, <1>20, <1>21, <2>1 DEF Right, Needs
<1>23. Keeps(q, "leaving")
  <2>1. ASSUME NEW o \in {f, r} PROVE SuppliedBy(q, o, Len(q) + 1)
    <3>1. \A j \in 1 .. Len(q) : ~Takes(q[j], o)
      BY <1>7, <1>8, <1>14, <1>17, <1>19, <2>1
    <3> QED BY <1>7, <1>14, <1>18, <2>1, <3>1, NotTaken
  <2> QED BY <1>2, <1>3, <2>1 DEF Keeps
<1> QED BY <1>1, <1>15, <1>22, <1>23, GoesIs

\* The calls of P_SetupLevel find their lumps, and leave those that are held.
LEMMA LevelIsRight ==
  ASSUME ZoneInv, phase # "adding", NEW f, f = W_CheckNumForName("face"), NEW r, r = W_CheckNumForName("reject"),
         NEW v, v = W_CheckNumForName("vertexes"),
         NEW a, a = FreesTags(PU_LEVEL), NEW b, b = Mallocs(LEVELSIZE, PU_LEVEL, ANYONE), NEW c, c = Caches(v, PU_STATIC),
         NEW d, d = Frees(v), NEW e, e = Caches(r, PU_LEVEL)
  PROVE /\ a \in CallType /\ b \in CallType /\ c \in CallType /\ d \in CallType /\ e \in CallType
        /\ ACall(a) /\ ACall(b) /\ ACall(c) /\ ACall(d) /\ ACall(e)
        /\ \A x \in {a, b, c, e} : ~Needs(x, x.owner)
        /\ \A x \in {a, b, c, d, e} : ~(x.call = "Z_Malloc" /\ x.owner >= COMPOSITE)
        /\ d.owner = v /\ f \in DOMAIN ptr /\ r \in DOMAIN ptr /\ v \in DOMAIN ptr
        /\ Brings(c, v) /\ Brings(e, r)
        /\ \A o \in DOMAIN ptr : (Takes(a, o) => o # f /\ o # v) /\ ~Takes(b, o) /\ ~Takes(c, o) /\ (Takes(d, o) => o = v) /\ ~Takes(e, o)
        /\ f # v /\ r # v /\ f # r
<1>4. PICK p : p = W_CheckNumForName("percent")
  OBVIOUS
<1>6. PICK w : w = W_CheckNumForName("picture")
  OBVIOUS
<1>7. /\ \A l \in {f, r, p, v, w} : /\ l \in DOMAIN lumpinfo /\ l \in DOMAIN ptr /\ l \in Nat \ {0} /\ l \in Int
                                    /\ l \notin Keepers /\ l # COMPOSITE
      /\ f # r /\ f # v /\ r # v /\ Kind(f) = PU_STATIC /\ Kind(r) = PU_LEVEL /\ Kind(v) = PU_STATIC
  BY <1>4, <1>6, NumbersAre
<1>8. /\ LEVELSIZE \in Nat /\ PU_LEVEL \in Nat /\ PU_STATIC \in Nat /\ ANYONE \in Int /\ PU_LEVEL # PU_STATIC
      /\ ANYONE \notin DOMAIN ptr /\ ANYONE \notin Keepers /\ ~(ANYONE >= COMPOSITE) /\ ~(PU_LEVEL >= PU_PURGELEVEL)
  <2>1. LEVELSIZE \in Nat /\ PU_LEVEL \in Nat /\ PU_STATIC \in Nat /\ ANYONE \in Int /\ PU_LEVEL # PU_STATIC /\ ~(PU_LEVEL >= PU_PURGELEVEL)
    BY ZoneAssumption DEF PU_LEVEL, PU_STATIC, ANYONE, PU_PURGELEVEL
  <2>2. ANYONE \notin DOMAIN ptr /\ ANYONE \notin Keepers /\ ~(ANYONE >= COMPOSITE)
    BY Before, Owners, Marks DEF Keepers, ANYONE, COMPOSITE, LUMPINFO, OLDINFO, DIRBUF, LUMPCACHE, LNAMES
  <2> QED BY <2>1, <2>2
<1>9. a \in CallType /\ a.call = "Z_FreeTags" /\ a.owner = ANYONE /\ a.bytes = 0 /\ a.tag = PU_LEVEL
  BY <1>8, FreesTagsIs
<1>10. b \in CallType /\ b.call = "Z_Malloc" /\ b.owner = ANYONE /\ b.bytes = LEVELSIZE /\ b.tag = PU_LEVEL
  BY <1>8, MallocsIs
<1>11. c \in CallType /\ c.call = "W_CacheLumpNum" /\ c.owner = v /\ c.bytes = 0 /\ c.tag = PU_STATIC
  BY <1>7, <1>8, CachesIs
<1>12. d \in CallType /\ d.call = "Z_Free" /\ d.owner = v /\ d.bytes = 0 /\ d.tag = 0
  BY <1>7, FreesIs
<1>13. e \in CallType /\ e.call = "W_CacheLumpNum" /\ e.owner = r /\ e.bytes = 0 /\ e.tag = PU_LEVEL
  BY <1>7, <1>8, CachesIs
<1>14. ACall(a) /\ ACall(b) /\ ACall(c) /\ ACall(d) /\ ACall(e)
  <2>1. ACall(a)
    BY <1>8, <1>9 DEF ACall
  <2>2. ACall(b)
    BY <1>8, <1>10 DEF ACall
  <2>3. ACall(c)
    BY <1>7, <1>8, <1>11 DEF ACall
  <2>4. ACall(d)
    BY <1>7, <1>12 DEF ACall
  <2>5. ACall(e)
    BY <1>7, <1>8, <1>13 DEF ACall
  <2> QED BY <2>1, <2>2, <2>3, <2>4, <2>5
<1>15. Brings(c, v) /\ Brings(e, r)
  BY <1>7, <1>11, <1>13 DEF Brings
<1>16. \A o \in DOMAIN ptr : (Takes(a, o) => o # f /\ o # v) /\ ~Takes(b, o) /\ ~Takes(c, o) /\ (Takes(d, o) => o = v) /\ ~Takes(e, o)
  <2>1. \A o \in DOMAIN ptr : Takes(a, o) => o # f /\ o # v
    BY <1>7, <1>8, <1>9 DEF Takes
  <2>2. \A o \in DOMAIN ptr : ~Takes(b, o) /\ ~Takes(c, o) /\ (Takes(d, o) => o = v) /\ ~Takes(e, o)
    BY <1>7, <1>8, <1>10, <1>11, <1>12, <1>13 DEF Takes
  <2> QED BY <2>1, <2>2
<1>17. \A x \in {a, b, c, e} : ~Needs(x, x.owner)
  BY <1>9, <1>10, <1>11, <1>13 DEF Needs
<1>18. \A x \in {a, b, c, d, e} : ~(x.call = "Z_Malloc" /\ x.owner >= COMPOSITE)
  BY <1>8, <1>9, <1>10, <1>11, <1>12, <1>13
<1> QED BY <1>7, <1>9, <1>10, <1>11, <1>12, <1>13, <1>14, <1>15, <1>16, <1>17, <1>18

LEMMA SetsUpStep ==
  ASSUME ZoneInv, SetsUpLevel
  PROVE ZoneInv' /\ GoesOn
<1>0. PICK f : f = W_CheckNumForName("face")
  OBVIOUS
<1>1. PICK r : r = W_CheckNumForName("reject")
  OBVIOUS
<1>2. PICK v : v = W_CheckNumForName("vertexes")
  OBVIOUS
<1>3. PICK a : a = FreesTags(PU_LEVEL)
  OBVIOUS
<1>4. PICK b : b = Mallocs(LEVELSIZE, PU_LEVEL, ANYONE)
  OBVIOUS
<1>5. PICK c : c = Caches(v, PU_STATIC)
  OBVIOUS
<1>6. PICK d : d = Frees(v)
  OBVIOUS
<1>7. PICK e : e = Caches(r, PU_LEVEL)
  OBVIOUS
<1>8. PICK s : s = Caches(f, PU_STATIC)
  OBVIOUS
<1>9. /\ phase \in {"starting", "level", "leaving"} /\ Idle /\ phase # "adding"
      /\ Goes((IF phase = "starting" THEN ST_loadGraphics ELSE <<>>) \o P_SetupLevel, "level")
  BY DEF SetsUpLevel
<1>10. P_SetupLevel = <<a>> \o <<b, c, d>> \o <<e>> /\ ST_loadGraphics = <<s>>
  BY <1>0, <1>1, <1>2, <1>3, <1>4, <1>5, <1>6, <1>7, <1>8, LoadsOne
     DEF P_SetupLevel, P_LoadVertexes, ST_loadGraphics, STBAR, W_CacheLumpName
<1>11. /\ a \in CallType /\ b \in CallType /\ c \in CallType /\ d \in CallType /\ e \in CallType
       /\ ACall(a) /\ ACall(b) /\ ACall(c) /\ ACall(d) /\ ACall(e)
       /\ \A x \in {a, b, c, e} : ~Needs(x, x.owner)
       /\ \A x \in {a, b, c, d, e} : ~(x.call = "Z_Malloc" /\ x.owner >= COMPOSITE)
       /\ d.owner = v /\ f \in DOMAIN ptr /\ r \in DOMAIN ptr /\ v \in DOMAIN ptr
       /\ Brings(c, v) /\ Brings(e, r)
       /\ \A o \in DOMAIN ptr : (Takes(a, o) => o # f /\ o # v) /\ ~Takes(b, o) /\ ~Takes(c, o) /\ (Takes(d, o) => o = v) /\ ~Takes(e, o)
       /\ f # v /\ r # v /\ f # r
  BY <1>0, <1>1, <1>2, <1>3, <1>4, <1>5, <1>6, <1>7, <1>9, LevelIsRight
<1>12. CASE phase # "starting"
  <2>1. PICK q : q = <<>> \o (<<a>> \o <<b, c, d>> \o <<e>>)
    OBVIOUS
  <2>2. q \in Seq(CallType) /\ Len(q) = 5 /\ q[1] = a /\ q[2] = b /\ q[3] = c /\ q[4] = d /\ q[5] = e
    BY <1>11, <2>1, LevelList
  <2>3. Goes(q, "level")
    BY <1>9, <1>10, <1>12, <2>1
  <2>4. DOMAIN q = 1 .. 5 /\ \A i \in 1 .. 5 : i \in {1, 2, 3, 4, 5}
    BY <2>2
  <2>5. SuppliedBy(q, v, 4)
    <3>1. \A j \in 1 .. 3 : ~Takes(q[j], v)
      BY <1>11, <2>2
    <3>2. Brings(q[3], v)
      BY <1>11, <2>2
    <3> QED BY <1>11, <3>1, <3>2 DEF SuppliedBy
  <2>6. Right(q)
    <3>1. \A i \in DOMAIN q : ACall(q[i]) /\ ~(q[i].call = "Z_Malloc" /\ q[i].owner >= COMPOSITE)
      BY <1>11, <2>2, <2>4
    <3>2. \A i \in DOMAIN q : i # 4 => ~Needs(q[i], q[i].owner)
      BY <1>11, <2>2, <2>4
    <3> QED BY <1>11, <2>2, <2>5, <3>1, <3>2 DEF Right
  <2>7. Keeps(q, "level")
    <3>1. Has(f)
      <4>1. phase \in {"level", "leaving"}
        BY <1>9, <1>12
      <4> QED BY <1>0, <1>9, <4>1, HeldHas
    <3>2. \A j \in 1 .. 5 : ~Takes(q[j], f)
      BY <1>11, <2>2, <2>4
    <3>3. \A j \in 1 .. 5 : Takes(q[j], r) => j = 1
      BY <1>11, <2>2, <2>4
    <3>4. Brings(q[5], r)
      BY <1>11, <2>2
    <3>5. SuppliedBy(q, f, Len(q) + 1)
      BY <1>11, <2>2, <3>1, <3>2, NotTaken
    <3>6. SuppliedBy(q, r, 6)
      BY <1>11, <3>3, <3>4 DEF SuppliedBy
    <3> QED BY <1>0, <1>1, <2>2, <3>5, <3>6 DEF Keeps
  <2> QED BY <1>9, <2>3, <2>6, <2>7, GoesIs
<1>13. CASE phase = "starting"
  <2>0. s \in CallType /\ ACall(s) /\ ~Needs(s, s.owner) /\ s.call # "Z_Malloc" /\ Brings(s, f) /\ \A o \in DOMAIN ptr : ~Takes(s, o)
    <3>1. PICK p : p = W_CheckNumForName("percent")
      OBVIOUS
    <3>2. PICK w : w = W_CheckNumForName("picture")
      OBVIOUS
    <3>3. f \in DOMAIN lumpinfo /\ f \in DOMAIN ptr /\ f \in Int /\ Kind(f) = PU_STATIC
      BY <1>0, <1>1, <1>2, <1>9, <3>1, <3>2, NumbersAre
    <3>4. s \in CallType /\ s.call = "W_CacheLumpNum" /\ s.owner = f /\ s.bytes = 0 /\ s.tag = PU_STATIC /\ PU_STATIC \in Nat
      BY <1>8, <3>3, CachesIs DEF PU_STATIC
    <3> QED BY <3>3, <3>4 DEF ACall, Needs, Brings, Takes
  <2>1. PICK q : q = <<s>> \o (<<a>> \o <<b, c, d>> \o <<e>>)
    OBVIOUS
  <2>2. q \in Seq(CallType) /\ Len(q) = 6 /\ q[1] = s /\ q[2] = a /\ q[3] = b /\ q[4] = c /\ q[5] = d /\ q[6] = e
    BY <1>11, <2>0, <2>1, FirstLevelList
  <2>3. Goes(q, "level")
    BY <1>9, <1>10, <1>13, <2>1
  <2>4. DOMAIN q = 1 .. 6 /\ \A i \in 1 .. 6 : i \in {1, 2, 3, 4, 5, 6}
    BY <2>2
  <2>5. SuppliedBy(q, v, 5)
    <3>1. \A j \in 1 .. 4 : ~Takes(q[j], v)
      BY <1>11, <2>0, <2>2
    <3>2. Brings(q[4], v)
      BY <1>11, <2>2
    <3> QED BY <1>11, <3>1, <3>2 DEF SuppliedBy
  <2>6. Right(q)
    <3>1. \A i \in DOMAIN q : ACall(q[i]) /\ ~(q[i].call = "Z_Malloc" /\ q[i].owner >= COMPOSITE)
      BY <1>11, <2>0, <2>2, <2>4
    <3>2. \A i \in DOMAIN q : i # 5 => ~Needs(q[i], q[i].owner)
      BY <1>11, <2>0, <2>2, <2>4
    <3> QED BY <1>11, <2>2, <2>5, <3>1, <3>2 DEF Right
  <2>7. Keeps(q, "level")
    <3>1. Brings(q[1], f)
      BY <2>0, <2>2
    <3>2. \A j \in 1 .. 6 : ~Takes(q[j], f)
      BY <1>11, <2>0, <2>2, <2>4
    <3>3. \A j \in 1 .. 6 : Takes(q[j], r) => j = 2
      BY <1>11, <2>0, <2>2, <2>4
    <3>4. Brings(q[6], r)
      BY <1>11, <2>2
    <3>5. SuppliedBy(q, f, 7)
      BY <1>11, <3>1, <3>2 DEF SuppliedBy
    <3>6. SuppliedBy(q, r, 7)
      BY <1>11, <3>3, <3>4 DEF SuppliedBy
    <3> QED BY <1>0, <1>1, <2>2, <3>5, <3>6 DEF Keeps
  <2> QED BY <1>9, <2>3, <2>6, <2>7, GoesIs
<1> QED BY <1>12, <1>13

LEMMA LoadsIs ==
  ASSUME NEW names \in Seq(STRING), NEW t \in Nat, NEW q, q = Loads(names, t),
         \A i \in DOMAIN names : W_CheckNumForName(names[i]) \in Int
  PROVE /\ q \in Seq(CallType) /\ Len(q) = Len(names) /\ Len(q) \in Nat
        /\ \A i \in 1 .. Len(names) : q[i] = Caches(W_CheckNumForName(names[i]), t)
<1>1. Len(names) \in Nat /\ DOMAIN names = 1 .. Len(names)
  OBVIOUS
<1>2. q = [i \in 1 .. Len(names) |-> Caches(W_CheckNumForName(names[i]), t)]
  BY DEF Loads, W_CacheLumpName
<1>3. \A i \in 1 .. Len(names) : q[i] = Caches(W_CheckNumForName(names[i]), t) /\ q[i] \in CallType
  <2>1. ASSUME NEW i \in 1 .. Len(names) PROVE q[i] = Caches(W_CheckNumForName(names[i]), t) /\ q[i] \in CallType
    <3>1. PICK l \in Int : l = W_CheckNumForName(names[i])
      BY <1>1
    <3>2. q[i] = Caches(l, t)
      BY <1>2, <3>1
    <3>3. q[i] \in CallType
      BY <3>2, CachesIs
    <3> QED BY <3>1, <3>2, <3>3
  <2> QED BY <2>1
<1>4. q \in [1 .. Len(names) -> CallType]
  BY <1>2, <1>3
<1>5. q \in Seq(CallType) /\ Len(q) = Len(names)
  BY <1>1, <1>4
<1> QED BY <1>1, <1>3, <1>5

LEMMA CompositeStep ==
  ASSUME ZoneInv, R_GenerateComposite
  PROVE ZoneInv' /\ GoesOn
<1>1. /\ phase = "level" /\ Idle /\ ptr[COMPOSITE] = NULL /\ phase # "adding"
      /\ Goes(<<Mallocs(COMPOSITESIZE, PU_STATIC, COMPOSITE)>> \o Loads(Composite, PU_CACHE)
              \o <<ChangesTag(COMPOSITE, PU_CACHE)>>, "level")
  BY DEF R_GenerateComposite
<1>2. PICK f : f = W_CheckNumForName("face")
  OBVIOUS
<1>3. PICK r : r = W_CheckNumForName("reject")
  OBVIOUS
<1>4. f \in DOMAIN ptr /\ r \in DOMAIN ptr /\ f \in DOMAIN lumpinfo /\ r \in DOMAIN lumpinfo /\ f # COMPOSITE /\ r # COMPOSITE
      /\ lumpinfo[f].name = "face" /\ lumpinfo[r].name = "reject"
  <2>1. LumpsAreThere /\ lumpinfo # <<>>
    BY <1>1 DEF ZoneInv, LumpsAreThere
  <2>2. "face" \in Names /\ "reject" \in Names
    BY DEF Names
  <2>3. f \in DOMAIN ptr /\ f \in DOMAIN lumpinfo /\ f # COMPOSITE /\ lumpinfo[f].name = "face"
    BY <1>1, <1>2, <2>1, <2>2, NumIs
  <2>4. r \in DOMAIN ptr /\ r \in DOMAIN lumpinfo /\ r # COMPOSITE /\ lumpinfo[r].name = "reject"
    BY <1>1, <1>3, <2>1, <2>2, NumIs
  <2> QED BY <2>3, <2>4
<1>5. PICK k : k = Len(Composite)
  OBVIOUS
<1>6. /\ Composite \in Seq(STRING) /\ k \in Nat /\ DOMAIN Composite = 1 .. k
      /\ \A i \in 1 .. k : Composite[i] \notin {"face", "reject"}
  BY <1>5, ZoneAssumption
<1>7. ASSUME NEW i \in 1 .. k
      PROVE LET l == W_CheckNumForName(Composite[i])
            IN l \in Int /\ l \in DOMAIN lumpinfo /\ l \in DOMAIN ptr /\ l # f /\ l # r /\ l # COMPOSITE
  <2>1. LumpsAreThere /\ lumpinfo # <<>>
    BY <1>1 DEF ZoneInv, LumpsAreThere
  <2>2. PICK l : l = W_CheckNumForName(Composite[i])
    OBVIOUS
  <2>3. l \in DOMAIN lumpinfo /\ lumpinfo[l].name = Composite[i] /\ l \in Nat \ {0} /\ l # COMPOSITE /\ l \in DOMAIN ptr
    BY <1>1, <1>6, <2>1, <2>2, NumIs
  <2> QED BY <1>4, <1>6, <2>2, <2>3
<1>8. COMPOSITE \in DOMAIN ptr /\ COMPOSITE \notin Keepers /\ COMPOSITE \in Int /\ Kind(COMPOSITE) = PU_STATIC
      /\ Bytes(COMPOSITE) = COMPOSITESIZE /\ COMPOSITESIZE \in Nat
  <2>1. COMPOSITE \in DOMAIN ptr
    BY DEF ZoneInv, LumpsAreThere
  <2>2. COMPOSITE \notin Keepers /\ COMPOSITE \in Int
    BY DEF Keepers, COMPOSITE, LUMPINFO, OLDINFO, DIRBUF, LUMPCACHE, LNAMES
  <2>3. COMPOSITE \notin DOMAIN lumpinfo
    BY DEF ZoneInv, LumpsAreThere, COMPOSITE
  <2> QED BY <2>1, <2>2, <2>3, ZoneAssumption DEF Kind, Bytes
<1>9. PICK a : a = Mallocs(COMPOSITESIZE, PU_STATIC, COMPOSITE)
  OBVIOUS
<1>10. a \in CallType /\ a.call = "Z_Malloc" /\ a.owner = COMPOSITE /\ a.bytes = COMPOSITESIZE /\ a.tag = PU_STATIC
  BY <1>8, <1>9, MallocsIs DEF PU_STATIC
<1>11. PICK e : e = ChangesTag(COMPOSITE, PU_CACHE)
  OBVIOUS
<1>12. e \in CallType /\ e.call = "Z_ChangeTag" /\ e.owner = COMPOSITE /\ e.bytes = 0 /\ e.tag = PU_CACHE /\ PU_CACHE \in Nat
  BY <1>8, <1>11, ChangesTagIs DEF PU_CACHE
<1>13. PICK s : s = Loads(Composite, PU_CACHE)
  OBVIOUS
<1>14. /\ s \in Seq(CallType) /\ Len(s) = k
       /\ \A i \in 1 .. k : s[i] = Caches(W_CheckNumForName(Composite[i]), PU_CACHE)
  BY <1>5, <1>6, <1>7, <1>12, <1>13, LoadsIs
<1>15. ASSUME NEW i \in 1 .. k
       PROVE /\ s[i].call = "W_CacheLumpNum" /\ ACall(s[i]) /\ ~Needs(s[i], s[i].owner)
             /\ ~Takes(s[i], f) /\ ~Takes(s[i], r) /\ ~Takes(s[i], COMPOSITE)
  <2>1. PICK l : l = W_CheckNumForName(Composite[i])
    OBVIOUS
  <2>2. l \in Int /\ l \in DOMAIN lumpinfo /\ l \in DOMAIN ptr /\ l # f /\ l # r /\ l # COMPOSITE
    BY <1>7, <2>1
  <2>3. PICK c : c = Caches(l, PU_CACHE)
    OBVIOUS
  <2>4. c.call = "W_CacheLumpNum" /\ c.owner = l /\ c.bytes = 0 /\ c.tag = PU_CACHE
    BY <1>12, <2>2, <2>3, CachesIs
  <2>5. s[i] = c
    BY <1>14, <2>1, <2>3
  <2>6. ACall(c)
    BY <1>12, <2>2, <2>4 DEF ACall
  <2>7. ~Needs(c, c.owner) /\ ~Takes(c, f) /\ ~Takes(c, r) /\ ~Takes(c, COMPOSITE)
    BY <2>2, <2>4 DEF Needs, Takes
  <2> QED BY <2>4, <2>5, <2>6, <2>7
<1>16. PICK q : q = <<a>> \o s \o <<e>>
  OBVIOUS
<1>17. /\ q \in Seq(CallType) /\ Len(q) = k + 2 /\ q[1] = a /\ q[k + 2] = e
       /\ \A i \in 2 .. k + 1 : q[i] = s[i - 1]
  <2>1. PICK u : u = <<a>>
    OBVIOUS
  <2>2. u \in Seq(CallType) /\ Len(u) = 1 /\ u[1] = a
    BY <1>10, <2>1, ShortList
  <2>3. PICK w : w = <<e>>
    OBVIOUS
  <2>4. w \in Seq(CallType) /\ Len(w) = 1 /\ w[1] = e
    BY <1>12, <2>3, ShortList
  <2>5. PICK h : h = u \o s
    OBVIOUS
  <2>6. h \in Seq(CallType) /\ Len(h) = k + 1 /\ \A i \in 1 .. k + 1 : h[i] = IF i <= 1 THEN u[i] ELSE s[i - 1]
    <3>1. /\ h \in Seq(CallType) /\ Len(h) = Len(u) + Len(s)
          /\ \A i \in 1 .. Len(u) + Len(s) : h[i] = IF i <= Len(u) THEN u[i] ELSE s[i - Len(u)]
      BY <1>14, <2>2, <2>5, ConcatProperties
    <3>2. Len(u) + Len(s) = k + 1
      BY <1>6, <1>14, <2>2
    <3> QED BY <1>14, <2>2, <3>1, <3>2
  <2>7. q = h \o w
    BY <1>16, <2>1, <2>3, <2>5
  <2>8. q \in Seq(CallType) /\ Len(q) = k + 2 /\ \A i \in 1 .. k + 2 : q[i] = IF i <= k + 1 THEN h[i] ELSE w[i - (k + 1)]
    <3>1. /\ q \in Seq(CallType) /\ Len(q) = Len(h) + Len(w)
          /\ \A i \in 1 .. Len(h) + Len(w) : q[i] = IF i <= Len(h) THEN h[i] ELSE w[i - Len(h)]
      BY <2>4, <2>6, <2>7, ConcatProperties
    <3>2. Len(h) + Len(w) = k + 2
      BY <1>6, <2>4, <2>6
    <3> QED BY <2>4, <2>6, <3>1, <3>2
  <2>9. q[1] = a /\ q[k + 2] = e
    BY <1>6, <2>2, <2>4, <2>6, <2>8
  <2>10. \A i \in 2 .. k + 1 : q[i] = s[i - 1]
    BY <1>6, <2>6, <2>8
  <2> QED BY <2>8, <2>9, <2>10
<1>18. Goes(q, "level")
  BY <1>1, <1>9, <1>11, <1>13, <1>16
<1>19. ASSUME NEW i \in 1 .. k + 2
       PROVE (i = 1 /\ q[i] = a) \/ (i = k + 2 /\ q[i] = e) \/ (i \in 2 .. k + 1 /\ \E j \in 1 .. k : q[i] = s[j])
  <2>1. i = 1 \/ i = k + 2 \/ i \in 2 .. k + 1
    BY <1>6
  <2>2. i \in 2 .. k + 1 => i - 1 \in 1 .. k
    BY <1>6
  <2> QED BY <1>17, <2>1, <2>2
<1>20. ACall(a) /\ ACall(e)
  BY <1>8, <1>10, <1>12 DEF ACall, PU_STATIC, PU_PURGELEVEL
<1>21. ~Needs(a, a.owner) /\ ~Takes(a, COMPOSITE) /\ ~Takes(a, f) /\ ~Takes(a, r) /\ ~Takes(e, f) /\ ~Takes(e, r) /\ Brings(a, COMPOSITE)
  BY <1>4, <1>8, <1>10, <1>12 DEF Needs, Takes, Brings
<1>22. SuppliedBy(q, COMPOSITE, k + 2)
  <2>1. \A j \in 1 .. k + 1 : ~Takes(q[j], COMPOSITE)
    <3>1. ASSUME NEW j \in 1 .. k + 1 PROVE ~Takes(q[j], COMPOSITE)
      <4>1. j \in 1 .. k + 2 /\ j # k + 2
        BY <1>6
      <4> QED BY <1>15, <1>19, <1>21, <4>1
    <3> QED BY <3>1
  <2>2. (k + 2) - 1 = k + 1 /\ 1 \in 1 .. k + 1
    BY <1>6
  <2> QED BY <1>8, <1>17, <1>21, <2>1, <2>2 DEF SuppliedBy
<1>23. Right(q)
  <2>1. DOMAIN q = 1 .. k + 2
    BY <1>17
  <2>2. ASSUME NEW i \in DOMAIN q
        PROVE /\ ACall(q[i])
              /\ q[i].call = "Z_Malloc" /\ q[i].owner >= COMPOSITE => i = 1 /\ ptr[q[i].owner] = NULL
              /\ Needs(q[i], q[i].owner) => SuppliedBy(q, q[i].owner, i)
    <3>1. CASE i = 1 /\ q[i] = a
      BY <1>1, <1>10, <1>20, <1>21, <3>1
    <3>2. CASE i = k + 2 /\ q[i] = e
      BY <1>12, <1>20, <1>22, <3>2
    <3>3. CASE \E j \in 1 .. k : q[i] = s[j]
      BY <1>15, <3>3
    <3> QED BY <1>19, <2>1, <3>1, <3>2, <3>3
  <2> QED BY <1>17, <2>2 DEF Right
<1>24. Keeps(q, "level")
  <2>1. Has(f) /\ Has(r)
    BY <1>1, <1>2, <1>3, HeldHas
  <2>2. \A j \in 1 .. k + 2 : ~Takes(q[j], f) /\ ~Takes(q[j], r)
    BY <1>15, <1>19, <1>21
  <2>3. PICK m \in Nat : m = k + 2
    BY <1>6
  <2>4. SuppliedBy(q, f, m + 1) /\ SuppliedBy(q, r, m + 1)
    BY <1>4, <2>1, <2>2, <2>3, NotTaken
  <2> QED BY <1>2, <1>3, <1>17, <2>3, <2>4 DEF Keeps
<1> QED BY <1>1, <1>18, <1>23, <1>24, GoesIs

\* A list of calls that is begun, whatever else has changed.
LEMMA ListIs ==
  ASSUME NEW q, todo' = q, Right(q)'
  PROVE CallsAreRight'
<1>1. \A j, o : (Takes(todo[j], o)' <=> Takes(q[j], o)') /\ (Brings(todo[j], o)' <=> Brings(q[j], o)')
  BY DEF Takes, Brings
<1>2. \A o, i : Supplied(o, i)' <=> SuppliedBy(q, o, i)'
  BY <1>1 DEF Supplied, SuppliedBy
<1>3. \A i : ACall(todo[i])' <=> ACall(q[i])'
  BY DEF ACall
<1>4. \A i : Needs(todo[i], todo[i].owner)' <=> Needs(q[i], q[i].owner)
  BY DEF Needs
<1>5. \A i : Supplied(todo[i].owner, i)' <=> SuppliedBy(q, q[i].owner, i)'
  BY <1>2 DEF Supplied
<1>6. \A i : Needs(q[i], q[i].owner)' <=> Needs(q[i], q[i].owner)
  BY DEF Needs
<1> QED BY <1>3, <1>4, <1>5, <1>6 DEF CallsAreRight, Right

\* While no lump is held.
LEMMA NoneHeld ==
  ASSUME phase' \in {"adding", "starting"}
  PROVE HeldIsSupplied'
<1>1. HeldBy' = {}
  BY DEF HeldBy, Held
<1> QED BY <1>1 DEF HeldIsSupplied

LEMMA KeepersKind ==
  ASSUME LumpsAreThere'
  PROVE \A o \in Keepers : Kind(o)' = PU_STATIC /\ Bytes(o)' = TABLESIZE /\ o \in DOMAIN ptr'
<1>1. \A o \in Keepers : o \notin DOMAIN lumpinfo'
  BY DEF LumpsAreThere, Keepers, LUMPINFO, OLDINFO, DIRBUF, LUMPCACHE, LNAMES
<1>2. \A o \in Keepers : o \in DOMAIN ptr'
  BY DEF LumpsAreThere
<1> QED BY <1>1, <1>2 DEF Kind, Bytes

LEMMA InitFilesStep ==
  ASSUME ZoneInv, W_InitMultipleFiles
  PROVE ZoneInv' /\ GoesOn
<1>1. /\ phase = "adding" /\ files = <<>> /\ lumpinfo # <<>> /\ Idle /\ phase' = "starting" /\ lumpinfo' = lumpinfo /\ files' = files
      /\ todo' = <<Mallocs(TABLESIZE, PU_STATIC, LUMPCACHE)>>
      /\ blocks' = blocks /\ rover' = rover /\ halted' = halted /\ search' = search
      /\ ptr' = [o \in DOMAIN ptr \cup DOMAIN lumpinfo |-> IF o \in DOMAIN ptr THEN ptr[o] ELSE NULL]
  BY DEF W_InitMultipleFiles, Does
<1>2. /\ lumpinfo \in Seq(Lump) /\ DOMAIN ptr = Keepers \cup {COMPOSITE} /\ ptr \in [DOMAIN ptr -> Int]
  BY <1>1 DEF ZoneInv, LumpsAreThere
<1>3. /\ DOMAIN ptr' = Keepers \cup {COMPOSITE} \cup DOMAIN lumpinfo /\ ptr' \in [DOMAIN ptr' -> Int]
      /\ \A o \in DOMAIN ptr : ptr'[o] = ptr[o]
      /\ \A o \in DOMAIN ptr' : o \notin DOMAIN ptr => ptr'[o] = NULL
  BY <1>1, <1>2, Marks
<1>4. LumpsAreThere'
  BY <1>1, <1>3 DEF ZoneInv, LumpsAreThere
<1>5. /\ Laid(blocks) /\ Apart(blocks, {}) /\ rover \in DOMAIN blocks /\ Pointers(Z, {})
      /\ Z.blocks = blocks /\ Z.rover = rover /\ Z.ptr = ptr
  BY Before
<1>6. PICK p : p = ptr'
  OBVIOUS
<1>7. PICK y : y = Zone(blocks, rover, p)
  OBVIOUS
<1>8. y.blocks = blocks /\ y.rover = rover /\ y.ptr = p
  BY <1>7, ZoneOf
<1>9. Z' = y
  BY <1>1, <1>6, <1>7 DEF Z, Zone
<1>10. Whole(Z)'
  <2>1. Whole(y)
    BY <1>5, <1>8 DEF Whole
  <2> QED BY <1>9, <2>1 DEF Whole
<1>11. Pointers(Z, {})'
  <2>1. ASSUME NEW o \in DOMAIN p PROVE Led(y, o)
    <3>1. CASE o \in DOMAIN ptr
      <4>1. Led(Z, o) /\ p[o] = ptr[o]
        BY <1>3, <1>5, <1>6, <3>1 DEF Pointers
      <4> QED BY <1>5, <1>8, <4>1 DEF Led
    <3>2. CASE o \notin DOMAIN ptr
      BY <1>3, <1>6, <1>8, <3>2 DEF Led
    <3> QED BY <3>1, <3>2
  <2>2. \A o, x \in DOMAIN p : p[o] = p[x] /\ p[o] # NULL => o = x
    <3>1. \A o, x \in DOMAIN ptr : ptr[o] = ptr[x] /\ ptr[o] # NULL => o = x
      BY <1>5 DEF Pointers
    <3> QED BY <1>3, <1>6, <3>1
  <2>3. \A a \in DOMAIN blocks : blocks[a].user \notin {NOBODY, ANYONE} =>
          blocks[a].user \in DOMAIN p \ Keepers /\ p[blocks[a].user] = a
    <3>1. \A a \in DOMAIN blocks : blocks[a].user \notin {NOBODY, ANYONE} =>
            blocks[a].user \in DOMAIN ptr \ Keepers /\ ptr[blocks[a].user] = a
      BY <1>5 DEF Pointers
    <3> QED BY <1>2, <1>3, <1>6, <3>1
  <2>4. Pointers(y, {})
    BY <1>8, <2>1, <2>2, <2>3 DEF Pointers
  <2>5. \A o : Led(Z, o)' <=> Led(y, o)
    BY <1>1, <1>9 DEF Led, Bytes
  <2> QED BY <1>9, <2>4, <2>5 DEF Pointers
<1>12. PICK c : c = Mallocs(TABLESIZE, PU_STATIC, LUMPCACHE)
  OBVIOUS
<1>13. c \in CallType /\ c.call = "Z_Malloc" /\ c.owner = LUMPCACHE /\ c.bytes = TABLESIZE /\ c.tag = PU_STATIC
       /\ LUMPCACHE \in Keepers /\ ~(LUMPCACHE >= COMPOSITE) /\ PU_STATIC \in Nat /\ ~(PU_STATIC >= PU_PURGELEVEL) /\ TABLESIZE \in Nat
  <2>1. LUMPCACHE \in Keepers /\ LUMPCACHE \in Int /\ ~(LUMPCACHE >= COMPOSITE) /\ PU_STATIC \in Nat /\ ~(PU_STATIC >= PU_PURGELEVEL) /\ TABLESIZE \in Nat
    BY DEF Keepers, LUMPCACHE, COMPOSITE, PU_STATIC, PU_PURGELEVEL, TABLESIZE
  <2> QED BY <1>12, <2>1, MallocsIs
<1>14. PICK q : q = <<c>>
  OBVIOUS
<1>15. q \in Seq(CallType) /\ Len(q) = 1 /\ q[1] = c /\ DOMAIN q = 1 .. 1
  BY <1>13, <1>14, ShortList
<1>16. ACall(c)'
  BY <1>4, <1>13, KeepersKind DEF ACall
<1>17. Right(q)'
  BY <1>13, <1>15, <1>16 DEF Right, Needs
<1>18. CallsAreRight' /\ HeldIsSupplied'
  BY <1>1, <1>12, <1>14, <1>17, ListIs, NoneHeld
<1>19. SearchIsRight' /\ halted' \in Int /\ FailsOnlyWhenFull'
  BY <1>1, IdleIs, Marks DEF SearchIsRight, FailsOnlyWhenFull, NOSEARCH
<1> QED BY <1>1, <1>4, <1>10, <1>11, <1>18, <1>19, NothingStarts DEF ZoneInv

\* One call more.
LEMMA Appended ==
  ASSUME NEW s \in Seq(CallType), NEW e \in CallType, NEW t, t = s \o <<e>>
  PROVE t \in Seq(CallType) /\ Len(t) = Len(s) + 1 /\ t[Len(s) + 1] = e /\ \A i \in 1 .. Len(s) : t[i] = s[i]
<1>1. PICK w : w = <<e>>
  OBVIOUS
<1>2. w \in Seq(CallType) /\ Len(w) = 1 /\ w[1] = e
  BY <1>1, ShortList
<1>3. t = s \o w
  BY <1>1
<1>4. /\ t \in Seq(CallType) /\ Len(t) = Len(s) + Len(w)
      /\ \A i \in 1 .. Len(s) + Len(w) : t[i] = IF i <= Len(s) THEN s[i] ELSE w[i - Len(s)]
  BY <1>2, <1>3, ConcatProperties
<1>5. Len(s) \in Nat
  OBVIOUS
<1>6. \A i \in 1 .. Len(s) + 1 : t[i] = IF i <= Len(s) THEN s[i] ELSE w[i - Len(s)]
  BY <1>2, <1>4
<1>7. t[Len(s) + 1] = e
  BY <1>2, <1>5, <1>6
<1>8. \A i \in 1 .. Len(s) : t[i] = s[i]
  BY <1>5, <1>6
<1> QED BY <1>2, <1>4, <1>7, <1>8

\* The calls of W_AddFile: of the first file, of another.
LEMMA FirstFileList ==
  ASSUME NEW d \in CallType, NEW l \in CallType, NEW e \in CallType, NEW q, q = <<d, l>> \o <<>> \o <<e>>
  PROVE q \in Seq(CallType) /\ Len(q) = 3 /\ q[1] = d /\ q[2] = l /\ q[3] = e
<1>1. PICK s : s = <<d, l>> \o <<>>
  OBVIOUS
<1>2. s \in Seq(CallType) /\ Len(s) = 2 /\ s[1] = d /\ s[2] = l
  BY <1>1
<1>3. q = s \o <<e>>
  BY <1>1
<1>4. q \in Seq(CallType) /\ Len(q) = Len(s) + 1 /\ q[Len(s) + 1] = e /\ \A i \in 1 .. Len(s) : q[i] = s[i]
  BY <1>2, <1>3, Appended
<1> QED BY <1>2, <1>4

FileCalls(d, l, x, e) == <<d, l>> \o <<x>> \o <<e>>
Four(q, d, l, x, e) == q \in Seq(CallType) /\ Len(q) = 4 /\ q[1] = d /\ q[2] = l /\ q[3] = x /\ q[4] = e
LEMMA NextFileList ==
  ASSUME NEW d \in CallType, NEW l \in CallType, NEW x \in CallType, NEW e \in CallType, NEW q, q = FileCalls(d, l, x, e)
  PROVE Four(q, d, l, x, e)
<1>1. PICK r : r = <<d, l>>
  OBVIOUS
<1>2. r \in Seq(CallType) /\ Len(r) = 2 /\ r[1] = d /\ r[2] = l
  BY <1>1, ShortList
<1>3. PICK s : s = r \o <<x>>
  OBVIOUS
<1>4. s \in Seq(CallType) /\ Len(s) = Len(r) + 1 /\ s[Len(r) + 1] = x /\ \A i \in 1 .. Len(r) : s[i] = r[i]
  BY <1>2, <1>3, Appended
<1>5. Len(s) = 3 /\ s[1] = d /\ s[2] = l /\ s[3] = x
  BY <1>2, <1>4
<1>6. q = s \o <<e>>
  BY <1>1, <1>3 DEF FileCalls
<1>7. q \in Seq(CallType) /\ Len(q) = Len(s) + 1 /\ q[Len(s) + 1] = e /\ \A i \in 1 .. Len(s) : q[i] = s[i]
  BY <1>4, <1>6, Appended
<1> QED BY <1>5, <1>7 DEF Four

\* The lumps are more than they were, and all that is asked for is among them.
LEMMA LumpsGrow ==
  ASSUME LumpsAreThere, phase = "adding", phase' = phase, files # <<>>, files' = Tail(files), lumpinfo' = lumpinfo \o Head(files),
         ptr' \in [DOMAIN ptr -> Int]
  PROVE LumpsAreThere'
<1>1. /\ lumpinfo \in Seq(Lump) /\ files \in Seq(Seq(Lump)) /\ DOMAIN ptr = Keepers \cup {COMPOSITE}
  BY DEF LumpsAreThere
<1>2. PICK h : h = Head(files)
  OBVIOUS
<1>3. h \in Seq(Lump) /\ h = files[1] /\ files' \in Seq(Seq(Lump))
  BY <1>1, <1>2, TailIs
<1>4. PICK m : m = lumpinfo \o h
  OBVIOUS
<1>5. /\ m \in Seq(Lump) /\ Len(m) = Len(lumpinfo) + Len(h)
      /\ \A i \in 1 .. Len(lumpinfo) + Len(h) : m[i] = IF i <= Len(lumpinfo) THEN lumpinfo[i] ELSE h[i - Len(lumpinfo)]
  BY <1>1, <1>3, <1>4, ConcatProperties
<1>6. /\ Len(lumpinfo) \in Nat /\ Len(h) \in Nat /\ DOMAIN lumpinfo = 1 .. Len(lumpinfo) /\ DOMAIN h = 1 .. Len(h)
      /\ DOMAIN m = 1 .. Len(lumpinfo) + Len(h)
  BY <1>1, <1>3, <1>5
<1>7. ASSUME NEW name \in Names \cup {Composite[i] : i \in DOMAIN Composite} PROVE \E l \in DOMAIN m : m[l].name = name
  <2>1. CASE lumpinfo = <<>>
    <3>1. h = Files[1] /\ Len(lumpinfo) = 0
      BY <1>3, <2>1 DEF LumpsAreThere
    <3>2. PICK l \in DOMAIN h : h[l].name = name
      BY <3>1, ZoneAssumption
    <3>3. l \in 1 .. Len(lumpinfo) + Len(h) /\ m[l] = h[l]
      BY <1>5, <1>6, <3>1
    <3> QED BY <1>6, <3>2, <3>3
  <2>2. CASE lumpinfo # <<>>
    <3>1. PICK l \in DOMAIN lumpinfo : lumpinfo[l].name = name
      BY <2>2 DEF LumpsAreThere
    <3>2. l \in 1 .. Len(lumpinfo) + Len(h) /\ m[l] = lumpinfo[l]
      BY <1>5, <1>6
    <3> QED BY <1>6, <3>1, <3>2
  <2> QED BY <2>1, <2>2
<1>8. m # <<>>
  <2>1. "face" \in Names
    BY DEF Names
  <2>2. PICK l \in DOMAIN m : TRUE
    BY <1>7, <2>1
  <2> QED BY <2>2
<1>9. lumpinfo' = m
  BY <1>2, <1>4
<1> QED BY <1>1, <1>3, <1>5, <1>7, <1>8, <1>9 DEF LumpsAreThere

LEMMA AddFileStep ==
  ASSUME ZoneInv, W_AddFile
  PROVE ZoneInv' /\ GoesOn
<1>1. /\ phase = "adding" /\ files # <<>> /\ Idle /\ files' = Tail(files) /\ phase' = phase
  BY DEF W_AddFile
<1>2. /\ Laid(blocks) /\ Apart(blocks, {}) /\ rover \in DOMAIN blocks /\ Pointers(Z, {})
      /\ Z.blocks = blocks /\ Z.rover = rover /\ Z.ptr = ptr
  BY Before
<1>3. /\ DOMAIN ptr = Keepers \cup {COMPOSITE} /\ ptr \in [DOMAIN ptr -> Int] /\ LumpsAreThere
      /\ lumpinfo \in Seq(Lump) /\ files \in Seq(Seq(Lump))
  BY <1>1 DEF ZoneInv, LumpsAreThere
<1>4. HeldIsSupplied'
  BY <1>1, NoneHeld
<1>5. CASE lumpinfo # <<>> /\ Does(<<>>) /\ UNCHANGED <<ptr, lumpinfo>>
  <2>1. /\ lumpinfo' = lumpinfo /\ ptr' = ptr /\ todo' = <<>>
        /\ blocks' = blocks /\ rover' = rover /\ halted' = halted /\ search' = search
    BY <1>5 DEF Does
  <2>2. files' \in Seq(Seq(Lump))
    BY <1>1, <1>3, TailIs
  <2>3. LumpsAreThere'
    BY <1>1, <1>3, <1>5, <2>1, <2>2 DEF LumpsAreThere
  <2>4. CallsAreRight'
    BY <2>1 DEF CallsAreRight
  <2>5. SearchIsRight' /\ halted' \in Int /\ FailsOnlyWhenFull'
    BY <1>1, <2>1, IdleIs, Marks DEF SearchIsRight, FailsOnlyWhenFull, NOSEARCH
  <2>6. Whole(Z)' /\ Pointers(Z, {})'
    <3>1. Becomes(Z)
      BY <1>2, <2>1 DEF Becomes
    <3> QED BY <2>1, <3>1, Before, AfterStep
  <2> QED BY <1>4, <2>1, <2>3, <2>4, <2>5, <2>6, NothingStarts DEF ZoneInv
<1>6. CASE /\ lumpinfo' = lumpinfo \o Head(files)
           /\ ptr' = [ptr EXCEPT ![OLDINFO] = ptr[LUMPINFO], ![LUMPINFO] = NULL]
           /\ Does(<<Mallocs(TABLESIZE, PU_STATIC, DIRBUF), Mallocs(TABLESIZE, PU_STATIC, LUMPINFO)>>
                   \o (IF ptr[LUMPINFO] = NULL THEN <<>> ELSE <<Frees(OLDINFO)>>)
                   \o <<Frees(DIRBUF)>>)
  <2>1. /\ lumpinfo' = lumpinfo \o Head(files)
        /\ ptr' = [ptr EXCEPT ![OLDINFO] = ptr[LUMPINFO], ![LUMPINFO] = NULL]
        /\ todo' = <<Mallocs(TABLESIZE, PU_STATIC, DIRBUF), Mallocs(TABLESIZE, PU_STATIC, LUMPINFO)>>
                   \o (IF ptr[LUMPINFO] = NULL THEN <<>> ELSE <<Frees(OLDINFO)>>)
                   \o <<Frees(DIRBUF)>>
        /\ blocks' = blocks /\ rover' = rover /\ halted' = halted /\ search' = search
    BY <1>6 DEF Does
  <2>2. /\ {OLDINFO, LUMPINFO, DIRBUF} \subseteq Keepers /\ OLDINFO # LUMPINFO /\ OLDINFO # DIRBUF /\ LUMPINFO # DIRBUF
        /\ {OLDINFO, LUMPINFO, DIRBUF} \subseteq Int
        /\ ~(OLDINFO >= COMPOSITE) /\ ~(LUMPINFO >= COMPOSITE) /\ ~(DIRBUF >= COMPOSITE)
        /\ PU_STATIC \in Nat /\ ~(PU_STATIC >= PU_PURGELEVEL) /\ TABLESIZE \in Nat
    BY DEF Keepers, OLDINFO, LUMPINFO, DIRBUF, COMPOSITE, PU_STATIC, PU_PURGELEVEL, TABLESIZE
  <2>3. PICK p : p = ptr'
    OBVIOUS
  <2>4. /\ DOMAIN p = DOMAIN ptr /\ p \in [DOMAIN ptr -> Int] /\ p[OLDINFO] = ptr[LUMPINFO] /\ p[LUMPINFO] = NULL
        /\ \A o \in DOMAIN ptr : o \notin {OLDINFO, LUMPINFO} => p[o] = ptr[o]
    <3>1. PICK h : h = ptr[LUMPINFO]
      OBVIOUS
    <3>2. h \in Int /\ NULL \in Int /\ OLDINFO \in DOMAIN ptr /\ LUMPINFO \in DOMAIN ptr
      BY <1>3, <2>2, <3>1, Marks
    <3>3. p = [ptr EXCEPT ![OLDINFO] = h, ![LUMPINFO] = NULL]
      BY <2>1, <2>3, <3>1
    <3>4. DOMAIN p = DOMAIN ptr
      BY <3>3
    <3>5. p \in [DOMAIN ptr -> Int]
      BY <1>3, <3>2, <3>3
    <3>6. p[OLDINFO] = h /\ p[LUMPINFO] = NULL
      BY <2>2, <3>2, <3>3
    <3>7. \A o \in DOMAIN ptr : o \notin {OLDINFO, LUMPINFO} => p[o] = ptr[o]
      BY <3>3
    <3> QED BY <3>1, <3>4, <3>5, <3>6, <3>7
  <2>5. LumpsAreThere'
    BY <1>1, <1>3, <2>1, <2>3, <2>4, LumpsGrow
  <2>6. PICK y : y = Zone(blocks, rover, p)
    OBVIOUS
  <2>7. y.blocks = blocks /\ y.rover = rover /\ y.ptr = p
    BY <2>6, ZoneOf
  <2>8. Z' = y
    BY <2>1, <2>3, <2>6 DEF Z, Zone
  <2>9. Whole(Z)'
    <3>1. Whole(y)
      BY <1>2, <2>7 DEF Whole
    <3> QED BY <2>8, <3>1 DEF Whole
  <2>10. /\ \A o \in DOMAIN ptr : Led(Z, o)
         /\ \A o, x \in DOMAIN ptr : ptr[o] = ptr[x] /\ ptr[o] # NULL => o = x
         /\ \A a \in DOMAIN blocks : blocks[a].user \notin {NOBODY, ANYONE} =>
              blocks[a].user \in DOMAIN ptr \ Keepers /\ ptr[blocks[a].user] = a
    BY <1>2 DEF Pointers
  <2>11. \A o \in DOMAIN ptr : Bytes(o)' = Bytes(o)
    BY <1>3 DEF Bytes
  <2>12. ASSUME NEW o \in DOMAIN p PROVE Led(y, o)
    <3>1. CASE o = LUMPINFO
      BY <2>4, <2>7, <3>1 DEF Led
    <3>2. CASE o = OLDINFO
      <4>1. Led(Z, LUMPINFO) /\ p[o] = ptr[LUMPINFO]
        BY <1>3, <2>2, <2>4, <2>10, <3>2
      <4>2. Bytes(OLDINFO) = Bytes(LUMPINFO) /\ User(OLDINFO) = User(LUMPINFO)
        BY <2>2 DEF Bytes, User
      <4> QED BY <1>2, <2>2, <2>7, <3>2, <4>1, <4>2 DEF Led
    <3>3. CASE o \notin {LUMPINFO, OLDINFO}
      <4>1. Led(Z, o) /\ p[o] = ptr[o]
        BY <2>4, <2>10, <3>3
      <4> QED BY <1>2, <2>7, <4>1 DEF Led
    <3> QED BY <3>1, <3>2, <3>3
  <2>13. Pointers(Z, {})'
    <3>1. \A o, x \in DOMAIN p : p[o] = p[x] /\ p[o] # NULL => o = x
      <4>1. ASSUME NEW o \in DOMAIN p, NEW x \in DOMAIN p, p[o] = p[x], p[o] # NULL PROVE o = x
        <5>1. o # LUMPINFO /\ x # LUMPINFO /\ LUMPINFO \in DOMAIN ptr
          BY <1>3, <2>2, <2>4, <4>1
        <5>2. /\ p[o] = ptr[IF o = OLDINFO THEN LUMPINFO ELSE o]
              /\ p[x] = ptr[IF x = OLDINFO THEN LUMPINFO ELSE x]
          BY <2>4, <5>1
        <5>3. (IF o = OLDINFO THEN LUMPINFO ELSE o) = (IF x = OLDINFO THEN LUMPINFO ELSE x)
          BY <2>4, <2>10, <4>1, <5>1, <5>2
        <5> QED BY <5>1, <5>3
      <4> QED BY <4>1
    <3>2. \A a \in DOMAIN blocks : blocks[a].user \notin {NOBODY, ANYONE} =>
            blocks[a].user \in DOMAIN p \ Keepers /\ p[blocks[a].user] = a
      <4>1. ASSUME NEW a \in DOMAIN blocks, blocks[a].user \notin {NOBODY, ANYONE}
            PROVE blocks[a].user \in DOMAIN p \ Keepers /\ p[blocks[a].user] = a
        <5>1. PICK u : u = blocks[a].user
          OBVIOUS
        <5>2. u \in DOMAIN ptr \ Keepers /\ ptr[u] = a
          BY <2>10, <4>1, <5>1
        <5> QED BY <2>2, <2>4, <5>1, <5>2
      <4> QED BY <4>1
    <3>3. Pointers(y, {})
      BY <2>7, <2>12, <3>1, <3>2 DEF Pointers
    <3>4. \A o \in DOMAIN p : Led(Z, o)' <=> Led(y, o)
      BY <2>4, <2>8, <2>11 DEF Led
    <3> QED BY <2>7, <2>8, <3>3, <3>4 DEF Pointers
  <2>14. PICK d : d = Mallocs(TABLESIZE, PU_STATIC, DIRBUF)
    OBVIOUS
  <2>15. d \in CallType /\ d.call = "Z_Malloc" /\ d.owner = DIRBUF /\ d.bytes = TABLESIZE /\ d.tag = PU_STATIC
    BY <2>2, <2>14, MallocsIs
  <2>16. PICK l : l = Mallocs(TABLESIZE, PU_STATIC, LUMPINFO)
    OBVIOUS
  <2>17. l \in CallType /\ l.call = "Z_Malloc" /\ l.owner = LUMPINFO /\ l.bytes = TABLESIZE /\ l.tag = PU_STATIC
    BY <2>2, <2>16, MallocsIs
  <2>18. PICK x : x = Frees(OLDINFO)
    OBVIOUS
  <2>19. x \in CallType /\ x.call = "Z_Free" /\ x.owner = OLDINFO /\ x.bytes = 0 /\ x.tag = 0
    BY <2>2, <2>18, FreesIs
  <2>20. PICK e : e = Frees(DIRBUF)
    OBVIOUS
  <2>21. e \in CallType /\ e.call = "Z_Free" /\ e.owner = DIRBUF /\ e.bytes = 0 /\ e.tag = 0
    BY <2>2, <2>20, FreesIs
  <2>22. PICK q : q = todo'
    OBVIOUS
  <2>23. /\ ptr[LUMPINFO] = NULL => q = <<d, l>> \o <<>> \o <<e>>
         /\ ptr[LUMPINFO] # NULL => q = <<d, l>> \o <<x>> \o <<e>>
    BY <2>1, <2>14, <2>16, <2>18, <2>20, <2>22
  <2>24. /\ q \in Seq(CallType) /\ q[1] = d /\ q[2] = l
         /\ ptr[LUMPINFO] = NULL => Len(q) = 3 /\ q[3] = e
         /\ ptr[LUMPINFO] # NULL => Len(q) = 4 /\ q[3] = x /\ q[4] = e
    <3>1. CASE ptr[LUMPINFO] = NULL
      BY <2>15, <2>17, <2>21, <2>23, <3>1, FirstFileList
    <3>2. CASE ptr[LUMPINFO] # NULL
      <4>1. q = FileCalls(d, l, x, e)
        BY <2>23, <3>2 DEF FileCalls
      <4>2. d \in CallType /\ l \in CallType /\ x \in CallType /\ e \in CallType
        BY <2>15, <2>17, <2>19, <2>21
      <4>3. q \in Seq(CallType) /\ Len(q) = 4 /\ q[1] = d /\ q[2] = l /\ q[3] = x /\ q[4] = e
        <5>1. Four(q, d, l, x, e)
          BY <4>1, <4>2, NextFileList
        <5> QED BY <5>1 DEF Four
      <4> QED BY <3>2, <4>3
    <3> QED BY <3>1, <3>2
  <2>25. \A k \in Keepers : Kind(k)' = PU_STATIC /\ Bytes(k)' = TABLESIZE /\ k \in DOMAIN ptr'
    BY <2>5, KeepersKind
  <2>26. ACall(d)' /\ ACall(l)' /\ ACall(x)' /\ ACall(e)'
    <3>1. ACall(d)'
      BY <2>2, <2>15, <2>25 DEF ACall
    <3>2. ACall(l)'
      BY <2>2, <2>17, <2>25 DEF ACall
    <3>3. ACall(x)'
      BY <2>2, <2>19, <2>25 DEF ACall
    <3>4. ACall(e)'
      BY <2>2, <2>21, <2>25 DEF ACall
    <3> QED BY <3>1, <3>2, <3>3, <3>4
  <2>27. Brings(d, DIRBUF)' /\ ~Takes(d, DIRBUF)' /\ ~Takes(l, DIRBUF)' /\ ~Takes(x, DIRBUF)' /\ ~Takes(d, OLDINFO)' /\ ~Takes(l, OLDINFO)'
    BY <2>2, <2>15, <2>17, <2>19, <2>25 DEF Brings, Takes
  <2>28. ptr[LUMPINFO] # NULL => Has(OLDINFO)'
    <3>1. ASSUME ptr[LUMPINFO] # NULL PROVE blocks[ptr[LUMPINFO]].tag = PU_STATIC
      BY <1>2, <1>3, <2>2, <2>10, <3>1 DEF Led
    <3> QED BY <2>1, <2>2, <2>3, <2>4, <2>25, <3>1 DEF Has
  <2>29. \A i \in 3 .. 4 : i <= Len(q) /\ q[i] = e => SuppliedBy(q, DIRBUF, i)'
    <3>1. ASSUME NEW i \in 3 .. 4, i <= Len(q), q[i] = e PROVE SuppliedBy(q, DIRBUF, i)'
      <4>1. \A j \in 1 .. i - 1 : q[j] = d \/ q[j] = l \/ q[j] = x
        BY <2>24, <3>1
      <4>2. \A j \in 1 .. i - 1 : ~Takes(q[j], DIRBUF)'
        BY <2>27, <4>1
      <4>3. Brings(q[1], DIRBUF)' /\ 1 \in 1 .. i - 1
        BY <2>24, <2>27
      <4> QED BY <2>2, <2>25, <4>2, <4>3 DEF SuppliedBy
    <3> QED BY <3>1
  <2>30. ptr[LUMPINFO] # NULL => SuppliedBy(q, OLDINFO, 3)'
    <3>1. \A j \in 1 .. 2 : ~Takes(q[j], OLDINFO)'
      BY <2>24, <2>27
    <3> QED BY <2>2, <2>25, <2>28, <3>1 DEF SuppliedBy
  <2>31. Right(q)'
    <3>1. DOMAIN q = 1 .. Len(q) /\ Len(q) \in {3, 4}
      BY <2>24
    <3>2. ASSUME NEW i \in DOMAIN q
          PROVE /\ ACall(q[i])'
                /\ ~(q[i].call = "Z_Malloc" /\ q[i].owner >= COMPOSITE)
                /\ Needs(q[i], q[i].owner)' => SuppliedBy(q, q[i].owner, i)'
      <4>1. CASE i = 1 \/ i = 2
        BY <2>2, <2>15, <2>17, <2>24, <2>26, <4>1 DEF Needs
      <4>2. CASE q[i] = e /\ i \in 3 .. 4
        BY <2>21, <2>26, <2>29, <3>1, <4>2
      <4>3. CASE i = 3 /\ q[i] = x /\ ptr[LUMPINFO] # NULL
        BY <2>19, <2>26, <2>30, <4>3
      <4>4. (i = 1 \/ i = 2) \/ (q[i] = e /\ i \in 3 .. 4) \/ (i = 3 /\ q[i] = x /\ ptr[LUMPINFO] # NULL)
        BY <2>24, <3>1
      <4> QED BY <4>1, <4>2, <4>3, <4>4
    <3> QED BY <2>24, <3>2 DEF Right
  <2>32. CallsAreRight'
    BY <2>22, <2>31, ListIs
  <2>33. SearchIsRight' /\ halted' \in Int /\ FailsOnlyWhenFull'
    BY <1>1, <2>1, IdleIs, Marks DEF SearchIsRight, FailsOnlyWhenFull, NOSEARCH
  <2> QED BY <1>4, <2>1, <2>5, <2>9, <2>13, <2>32, <2>33, NothingStarts DEF ZoneInv
<1> QED BY <1>5, <1>6 DEF W_AddFile

(* ----------------------------------------------------------------------- *)
(* The theorems                                                             *)
(* ----------------------------------------------------------------------- *)

LEMMA InvInit ==
  ASSUME ZoneInit
  PROVE ZoneInv
<1>1. /\ blocks = [a \in {ZONE, 1} |->
            IF a = ZONE THEN [size |-> 0, user |-> ANYONE, tag |-> PU_STATIC, next |-> 1, prev |-> 1]
                        ELSE [size |-> SIZE, user |-> NOBODY, tag |-> 0, next |-> ZONE, prev |-> ZONE]]
      /\ rover = 1 /\ halted = NONE
      /\ ptr = [o \in Keepers \cup {COMPOSITE} |-> NULL]
      /\ lumpinfo = <<>> /\ phase = "adding" /\ files = Files /\ todo = <<>> /\ search = NOSEARCH
  BY DEF ZoneInit, Z_Init
<1>2. ZONE = 0 /\ ANYONE \in Int /\ NOBODY \in Int /\ ANYONE # NOBODY /\ PU_STATIC \in Nat /\ NULL \in Int /\ NONE \in Int
  BY DEF ZONE, ANYONE, NOBODY, PU_STATIC, NULL, NONE
<1>3. /\ DOMAIN blocks = {0, 1}
      /\ blocks[0].size = 0 /\ blocks[0].user = ANYONE /\ blocks[0].tag = PU_STATIC /\ blocks[0].next = 1 /\ blocks[0].prev = 1
      /\ blocks[1].size = SIZE /\ blocks[1].user = NOBODY /\ blocks[1].tag = 0 /\ blocks[1].next = 0 /\ blocks[1].prev = 0
      /\ blocks[0] \in Block /\ blocks[1] \in Block
  <2>1. PICK h : h = [size |-> 0, user |-> ANYONE, tag |-> PU_STATIC, next |-> 1, prev |-> 1]
    OBVIOUS
  <2>2. PICK n : n = [size |-> SIZE, user |-> NOBODY, tag |-> 0, next |-> ZONE, prev |-> ZONE]
    OBVIOUS
  <2>3. h \in Block /\ h.size = 0 /\ h.user = ANYONE /\ h.tag = PU_STATIC /\ h.next = 1 /\ h.prev = 1
    BY <1>2, <2>1 DEF Block
  <2>4. n \in Block /\ n.size = SIZE /\ n.user = NOBODY /\ n.tag = 0 /\ n.next = 0 /\ n.prev = 0
    BY <1>2, <2>2, Sizes DEF Block
  <2>5. blocks = [a \in {0, 1} |-> IF a = 0 THEN h ELSE n]
    BY <1>1, <1>2, <2>1, <2>2
  <2> HIDE DEF Block
  <2>6. DOMAIN blocks = {0, 1} /\ blocks[0] = h /\ blocks[1] = n
    BY <2>5
  <2> QED BY <2>3, <2>4, <2>6
<1>4. Laid(blocks)
  <2>1. blocks \in [DOMAIN blocks -> Block]
    BY <1>1, <1>3
  <2>2. /\ ZONE \in DOMAIN blocks /\ DOMAIN blocks \subseteq 0 .. SIZE /\ blocks[ZONE].user = ANYONE /\ blocks[ZONE].tag = PU_STATIC
    BY <1>2, <1>3, Sizes
  <2>3. Span(blocks, 0) = 1 /\ Span(blocks, 1) = SIZE /\ After(1) = 1 /\ After(1 + SIZE) = 0
    BY <1>2, <1>3, Sizes DEF Span, After
  <2>4. \A a \in DOMAIN blocks : a = 0 \/ a = 1
    BY <1>3
  <2>5. \A a \in DOMAIN blocks : Span(blocks, a) >= 1 /\ a + Span(blocks, a) <= SIZE + 1 /\ blocks[a].next = After(a + Span(blocks, a))
    BY <1>3, <2>3, <2>4, Sizes
  <2>6. \A a, x \in DOMAIN blocks : a < x => a + Span(blocks, a) <= x
    BY <2>3, <2>4
  <2>7. \A a \in DOMAIN blocks : blocks[a].next \in DOMAIN blocks /\ blocks[a].prev \in DOMAIN blocks
    BY <1>3, <2>4
  <2>8. \A a \in DOMAIN blocks : blocks[blocks[a].next].prev = a /\ blocks[blocks[a].prev].next = a
    BY <1>3, <2>4
  <2> QED BY <2>1, <2>2, <2>5, <2>6, <2>7, <2>8 DEF Laid
<1>5. Z.blocks = blocks /\ Z.rover = rover /\ Z.ptr = ptr
  BY ZoneOf DEF Z
<1>6. Whole(Z)
  <2>1. Apart(blocks, {})
    BY <1>2, <1>3 DEF Apart, FreeBlock
  <2> QED BY <1>1, <1>3, <1>4, <1>5, <2>1 DEF Whole
<1>7. Pointers(Z, {})
  <2>1. \A o \in DOMAIN ptr : ptr[o] = NULL
    BY <1>1
  <2>2. \A a \in DOMAIN blocks : blocks[a].user \in {NOBODY, ANYONE}
    BY <1>3
  <2> QED BY <1>5, <2>1, <2>2 DEF Pointers, Led
<1>8. LumpsAreThere
  <2>1. Files \in Seq(Seq(Lump))
    BY ZoneAssumption DEF Lump
  <2> QED BY <1>1, <1>2, <2>1 DEF LumpsAreThere
<1>9. CallsAreRight
  BY <1>1 DEF CallsAreRight
<1>10. HeldIsSupplied
  <2>1. HeldBy = {}
    BY <1>1 DEF HeldBy, Held
  <2> QED BY <2>1 DEF HeldIsSupplied
<1>11. SearchIsRight /\ halted \in Int /\ FailsOnlyWhenFull
  BY <1>1, <1>2 DEF SearchIsRight, FailsOnlyWhenFull
<1> QED BY <1>6, <1>7, <1>8, <1>9, <1>10, <1>11 DEF ZoneInv

LEMMA InvStutter ==
  ASSUME ZoneInv, UNCHANGED zone_vars
  PROVE ZoneInv'
<1>1. /\ blocks' = blocks /\ rover' = rover /\ ptr' = ptr /\ lumpinfo' = lumpinfo /\ phase' = phase /\ files' = files
      /\ halted' = halted /\ todo' = todo /\ search' = search
  BY DEF zone_vars
<1>2. Z' = Z
  BY <1>1 DEF Z, Zone
<1>3. Whole(Z)'
  BY <1>2 DEF ZoneInv, Whole
<1>4. Pointers(Z, {})'
  <2>1. \A o : Led(Z, o)' <=> Led(Z, o)
    BY <1>1, <1>2 DEF Led, Bytes
  <2> QED BY <1>2, <2>1 DEF ZoneInv, Pointers
<1>5. \A o : Has(o)' <=> Has(o)
  BY <1>1 DEF Has, Kind
<1>6. \A o, i : Supplied(o, i)' <=> Supplied(o, i)
  <2>1. \A j, o : (Takes(todo[j], o)' <=> Takes(todo[j], o)) /\ (Brings(todo[j], o)' <=> Brings(todo[j], o))
    BY <1>1 DEF Takes, Brings, Kind
  <2> QED BY <1>1, <1>5, <2>1 DEF Supplied
<1>7. CallsAreRight'
  <2>1. \A i : ACall(todo[i])' <=> ACall(todo[i])
    BY <1>1 DEF ACall, Bytes
  <2>2. \A i : Needs(todo[i], todo[i].owner)' <=> Needs(todo[i], todo[i].owner)
    BY <1>1 DEF Needs
  <2>3. \A i : Supplied(todo[i].owner, i)' <=> Supplied(todo[i].owner, i)
    BY <1>1, <1>6 DEF Supplied
  <2> QED BY <1>1, <2>1, <2>2, <2>3 DEF ZoneInv, CallsAreRight
<1>8. HeldIsSupplied'
  <2>1. HeldBy' = HeldBy
    BY <1>1, HeldBySame
  <2>2. (Len(todo) + 1)' = Len(todo) + 1
    BY <1>1
  <2> QED BY <1>1, <1>6, <2>1, <2>2 DEF ZoneInv, HeldIsSupplied, Supplied
<1>9. LumpsAreThere'
  BY <1>1 DEF ZoneInv, LumpsAreThere
<1>10. SearchIsRight' /\ halted' \in Int /\ FailsOnlyWhenFull'
  <2>1. search # NOSEARCH => Looking(blocks, search, todo[1].bytes + HEADER)'
    BY <1>1 DEF ZoneInv, SearchIsRight, Looking, TooSmall
  <2> QED BY <1>1, <2>1 DEF ZoneInv, SearchIsRight, FailsOnlyWhenFull, NOSEARCH
<1> QED BY <1>3, <1>4, <1>7, <1>8, <1>9, <1>10 DEF ZoneInv

LEMMA InvNext ==
  ASSUME ZoneInv, ZoneNext
  PROVE ZoneInv' /\ GoesOn
  BY CallsStep, AddFileStep, InitFilesStep, SetsUpStep, LoadStep, UnloadStep, DrawsStep, CompositeStep, AddsStep, RunStep
     DEF ZoneNext

LEMMA InvIsSound ==
  ASSUME ZoneInv
  PROVE ZoneIsSound
<1>1. /\ Laid(blocks) /\ Apart(blocks, {}) /\ rover \in DOMAIN blocks /\ Pointers(Z, {})
      /\ Z.blocks = blocks /\ Z.rover = rover /\ Z.ptr = ptr
  BY Before
<1>2. ZoneIsWhole
  <2>1. ASSUME NEW a \in DOMAIN blocks
        PROVE /\ blocks[a].next \in DOMAIN blocks /\ blocks[a].prev \in DOMAIN blocks
              /\ blocks[blocks[a].next].prev = a /\ blocks[blocks[a].prev].next = a
              /\ a # ZONE => blocks[a].next = (IF a + blocks[a].size = SIZE + 1 THEN ZONE ELSE a + blocks[a].size)
              /\ ~(FreeBlock(blocks[a]) /\ FreeBlock(blocks[blocks[a].next]))
    BY <1>1 DEF Laid, Apart, Span, After
  <2> QED BY <1>1, <2>1 DEF ZoneIsWhole
<1>3. PointersAreTrue
  <2>1. \A o \in DOMAIN ptr : ptr[o] # NULL =>
          /\ ptr[o] \in DOMAIN blocks \ {ZONE}
          /\ blocks[ptr[o]].user = User(o) /\ blocks[ptr[o]].size >= Bytes(o) + HEADER
    BY <1>1 DEF Pointers, Led
  <2>2. \A a \in DOMAIN blocks : blocks[a].user >= COMPOSITE => ptr[blocks[a].user] = a
    <3>1. \A u : u >= COMPOSITE => u \notin {NOBODY, ANYONE}
      BY DEF COMPOSITE, NOBODY, ANYONE
    <3> QED BY <1>1, <3>1 DEF Pointers
  <2> QED BY <2>1, <2>2 DEF PointersAreTrue
<1>4. HeldIsThere
  <2>1. ASSUME Idle, NEW name \in Held
        PROVE ptr[W_CheckNumForName(name)] # NULL /\ blocks[ptr[W_CheckNumForName(name)]].tag < PU_PURGELEVEL
    <3>1. PICK l : l = W_CheckNumForName(name)
      OBVIOUS
    <3>2. Has(l)
      <4>1. l \in HeldBy
        BY <2>1, <3>1 DEF HeldBy
      <4> QED BY <2>1, <4>1, IdleIs
    <3>3. Kind(l) < PU_PURGELEVEL
      BY DEF Kind, PU_LEVEL, PU_STATIC, PU_PURGELEVEL
    <3> QED BY <3>1, <3>2, <3>3 DEF Has
  <2> QED BY <2>1 DEF HeldIsThere
<1>5. FailsOnlyWhenFull
  BY DEF ZoneInv
<1> QED BY <1>2, <1>3, <1>4, <1>5 DEF ZoneIsSound

\* The zone stays whole: no gap, no overlap, no two free blocks side by side; each
\* pointer leads to its block; what is held is there; and a request fails only
\* when every free block is too small - for every size of the zone, every set of
\* files and every texture (ZoneIsSound of DoomZone).
THEOREM ZoneStaysSound == ZoneSpec => []ZoneIsSound
<1>1. ZoneInit => ZoneInv
  BY InvInit
<1>2. ZoneInv /\ [ZoneNext]_zone_vars => ZoneInv'
  BY InvNext, InvStutter
<1>3. ZoneInv => ZoneIsSound
  BY InvIsSound
<1> QED BY <1>1, <1>2, <1>3, PTL DEF ZoneSpec

\* Z_Malloc's search ends: each turn of its loop comes further up the zone from
\* the block it began at, whatever it merges on the way, and there is a last one.
THEOREM SearchEnds == ZoneSpec => SearchGoesOn
<1>1. ZoneInit => ZoneInv
  BY InvInit
<1>2. ZoneInv /\ [ZoneNext]_zone_vars => ZoneInv'
  BY InvNext, InvStutter
<1>3. ZoneInv /\ [ZoneNext]_zone_vars =>
        [search # NOSEARCH /\ search' # NOSEARCH /\ search' # search =>
           /\ search'.start = search.start
           /\ Ahead(search'.rover, search.start) > Ahead(search.rover, search.start)]_zone_vars
  BY InvNext DEF GoesOn
<1> QED BY <1>1, <1>2, <1>3, PTL DEF ZoneSpec, SearchGoesOn
=============================================================================
