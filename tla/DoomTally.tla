------------------------------ MODULE DoomTally ------------------------------
(* The intermission of wi_stuff.c: the figures of the level count up, by     *)
(* themselves or at a button at once, then the next place is shown and the    *)
(* game goes on.  The pictures move on meanwhile.                             *)
EXTENDS Integers, FiniteSetsExt

CONSTANTS
  PERCENT,     \* 100
  PAUSE,       \* TICRATE: between two figures
  SHOWNEXT, NOSTATE, \* SHOWNEXTLOCDELAY * TICRATE, 10
  FRAGS_SHOWN, \* 99
  Tallies,     \* what the levels end with: [mode, commercial, maxkills, maxitems, maxsecret, partime, plyr]
  Anims        \* [type, period, nanims, data1, data2] of the pictures

VARIABLES wbs, tally, asked

tally_vars == <<wbs, tally, asked>>

(* ----------------------------------------------------------------------- *)
(* The figures                                                              *)
(* ----------------------------------------------------------------------- *)

Ingame(wb) == DOMAIN wb.plyr
Me == 0
AtLeastOne(n) == IF n = 0 THEN 1 ELSE n

\* No level is without monsters, items and secrets, as they are divided by.
WI_initVariables(wb) ==
  [wb EXCEPT !.maxkills = AtLeastOne(@), !.maxitems = AtLeastOne(@), !.maxsecret = AtLeastOne(@)]

WI_fragSum(wb, p) == MapThenSumSet(LAMBDA q : wb.plyr[p].frags[q], Ingame(wb) \ {p}) - wb.plyr[p].frags[p]

Percent(part, whole) == (part * PERCENT) \div whole

Final(wb) ==
  [kills  |-> [p \in Ingame(wb) |-> Percent(wb.plyr[p].skills, wb.maxkills)],
   items  |-> [p \in Ingame(wb) |-> Percent(wb.plyr[p].sitems, wb.maxitems)],
   secret |-> [p \in Ingame(wb) |-> Percent(wb.plyr[p].ssecret, wb.maxsecret)],
   frags  |-> [p \in Ingame(wb) |-> WI_fragSum(wb, p)],
   time   |-> wb.plyr[Me].stime, par |-> wb.partime]

(* ----------------------------------------------------------------------- *)
(* The moving pictures                                                      *)
(* ----------------------------------------------------------------------- *)

\* How many tics until each moves next; the level's own picture waits in vain
\* unless the level is the next.
WI_initAnimatedBack(w, chance) ==
  [w EXCEPT !.anims = [a \in DOMAIN Anims |->
     [ctr |-> -1, due |-> CASE Anims[a].type = "always" -> 1 + (chance % Anims[a].period)
                            [] Anims[a].type = "random" -> 1 + Anims[a].data2 + (chance % Anims[a].data1)
                            [] Anims[a].type = "level"  -> 1]]]

MovesOnly(a, ctr, chance, next) == \* mutant
  CASE a.type = "always" -> [ctr |-> IF ctr + 1 >= a.nanims THEN 0 ELSE ctr + 1, due |-> a.period]
    [] a.type = "random" -> IF ctr + 1 = a.nanims THEN [ctr |-> -1, due |-> a.data2 + (chance % a.data1) - 1]
                            ELSE [ctr |-> ctr + 1, due |-> a.period]
    [] a.type = "level"  -> IF next = a.data1
                            THEN [ctr |-> IF ctr + 1 = a.nanims THEN ctr ELSE ctr + 1, due |-> a.period]
                            ELSE [ctr |-> ctr, due |-> 0]
Moves(a, ctr, chance, next) ==
  CASE a.type = "always" -> [ctr |-> IF ctr + 1 >= a.nanims THEN 0 ELSE ctr + 1, due |-> a.period]
    [] a.type = "random" -> IF ctr + 1 = a.nanims THEN [ctr |-> -1, due |-> a.data2 + (chance % a.data1)]
                            ELSE [ctr |-> ctr + 1, due |-> a.period]
    [] a.type = "level"  -> IF next = a.data1
                            THEN [ctr |-> IF ctr + 1 = a.nanims THEN ctr ELSE ctr + 1, due |-> a.period]
                            ELSE [ctr |-> ctr, due |-> 0]

WI_updateAnimatedBack(wb, w, chance) ==
  [w EXCEPT !.anims = [a \in DOMAIN Anims |->
     LET v == w.anims[a] IN
     IF v.due = 1 THEN Moves(Anims[a], v.ctr, chance, wb.next) ELSE [v EXCEPT !.due = IF @ > 0 THEN @ - 1 ELSE 0]]]

(* ----------------------------------------------------------------------- *)
(* The three tallies                                                        *)
(* ----------------------------------------------------------------------- *)

WI_initNoState(w) == [w EXCEPT !.state = "NoState", !.acceleratestage = FALSE, !.cnt = NOSTATE]
WI_initShowNextLoc(w, chance) ==
  WI_initAnimatedBack([w EXCEPT !.state = "ShowNextLoc", !.acceleratestage = FALSE, !.cnt = SHOWNEXT], chance)

StaysThere(wb, w, chance) == \* mutant
  IF ~w.acceleratestage THEN w ELSE IF wb.commercial THEN WI_initNoState(w) ELSE [w EXCEPT !.acceleratestage = FALSE]
Leaves(wb, w, chance) ==
  IF ~w.acceleratestage THEN w ELSE IF wb.commercial THEN WI_initNoState(w) ELSE WI_initShowNextLoc(w, chance)

WaitsAgain(w) == IF w.cnt_pause = 1 THEN [w EXCEPT !.cnt_pause = PAUSE] ELSE [w EXCEPT !.cnt_pause = @ - 1] \* mutant
\* The odd stages are pauses.
Waits(w) ==
  IF w.cnt_pause = 1 THEN [w EXCEPT !.cnt_pause = PAUSE, !.stage = @ + 1] ELSE [w EXCEPT !.cnt_pause = @ - 1]

Atmost(f, g) == [p \in DOMAIN f |-> IF f[p] >= g[p] THEN g[p] ELSE f[p]]
Plus(f, n) == [p \in DOMAIN f |-> f[p] + n]

\* One figure of everybody goes up, and the stage is over when all are there.
Counts(w, figure, step, final, over) ==
  LET v == [w EXCEPT ![figure] = Atmost(Plus(@, step), final)]
  IN IF v[figure] = final THEN [v EXCEPT !.stage = @ + over] ELSE v

\* In the single game as in the cooperative one.
WI_updateNetgameStats(wb, w, chance) ==
  LET f == Final(wb)
      single == wb.mode = "single"
      v == IF w.acceleratestage /\ w.stage # 10
           THEN [w EXCEPT !.acceleratestage = FALSE, !.stage = 10, !.kills = f.kills, !.items = f.items, !.secret = f.secret,
                          !.frags = IF ~single /\ w.dofrags THEN f.frags ELSE @,
                          !.time = IF single THEN f.time ELSE @, !.par = IF single THEN f.par ELSE @]
           ELSE w
  IN CASE v.stage = 2 -> Counts(v, "kills", 2, f.kills, 1)
       [] v.stage = 4 -> Counts(v, "items", 2, f.items, 1)
       [] v.stage = 6 -> Counts(v, "secret", 2, f.secret, IF single \/ v.dofrags THEN 1 ELSE 3)
       [] v.stage = 8 /\ ~single -> Counts(v, "frags", 1, f.frags, 1)
       [] v.stage = 8 /\ single ->
            LET t == Min({v.time + 3, f.time})
                r == Min({v.par + 3, f.par})
            IN [v EXCEPT !.time = t, !.par = r, !.stage = IF t = f.time /\ r = f.par THEN 9 ELSE 8]
       [] v.stage = 10 -> Leaves(wb, v, chance)
       [] OTHER -> Waits(v)

Between(n) == Max({-FRAGS_SHOWN, Min({FRAGS_SHOWN, n})})

WI_updateDeathmatchStats(wb, w, chance) ==
  LET frags == [p \in Ingame(wb) |-> wb.plyr[p].frags]
      totals == [p \in Ingame(wb) |-> WI_fragSum(wb, p)]
      toward(n, end) == IF n = end THEN n ELSE Between(IF end < 0 THEN n - 1 ELSE n + 1)
      v == IF w.acceleratestage /\ w.stage # 4
           THEN [w EXCEPT !.acceleratestage = FALSE, !.stage = 4, !.dm_frags = frags, !.dm_totals = totals] ELSE w
  IN CASE v.stage = 2 ->
            [v EXCEPT !.dm_frags = [p \in DOMAIN @ |-> [q \in DOMAIN @ |-> toward(@[p][q], frags[p][q])]],
                      !.dm_totals = [p \in DOMAIN @ |-> Between(totals[p])],
                      !.stage = IF v.dm_frags = frags THEN 3 ELSE 2]
       [] v.stage = 4 -> Leaves(wb, v, chance)
       [] OTHER -> Waits(v)

(* ----------------------------------------------------------------------- *)
(* WI_Start and WI_Ticker                                                   *)
(* ----------------------------------------------------------------------- *)

\* dofrags is kept from one intermission to the next.
WI_Start(wb, dofrags, chance) ==
  LET everyone(n) == [p \in Ingame(wb) |-> n]
      start == IF wb.mode = "single" THEN -1 ELSE 0
      sum == MapThenSumSet(LAMBDA p : WI_fragSum(wb, p), Ingame(wb)) + IF dofrags THEN 1 ELSE 0
  IN WI_initAnimatedBack(
       [state |-> "StatCount", acceleratestage |-> FALSE, stage |-> 1, cnt_pause |-> PAUSE, cnt |-> 0,
        kills |-> everyone(start), items |-> everyone(start), secret |-> everyone(start), frags |-> everyone(0),
        time |-> -1, par |-> -1, dofrags |-> wb.mode = "coop" /\ sum # 0,
        dm_frags |-> everyone(everyone(0)), dm_totals |-> everyone(0),
        down |-> {}, anims |-> <<>>], chance)

\* A button counts when it goes down.
WI_checkForAccelerate(w, pressed) ==
  [w EXCEPT !.acceleratestage = @ \/ (pressed \ w.down # {}), !.down = pressed]

WI_updateShowNextLoc(wb, w, chance) ==
  LET v == WI_updateAnimatedBack(wb, w, chance)
  IN IF v.cnt = 1 \/ v.acceleratestage THEN WI_initNoState([v EXCEPT !.cnt = @ - 1]) ELSE [v EXCEPT !.cnt = @ - 1]

\* The end is told once, when the count meets zero.
WI_updateNoState(wb, w, chance) ==
  LET v == WI_updateAnimatedBack(wb, w, chance)
  IN IF v.cnt = 1 THEN [v EXCEPT !.cnt = 0, !.state = "WorldDone"] ELSE [v EXCEPT !.cnt = @ - 1]

WI_Ticker(wb, w, pressed, chance) ==
  LET v == WI_checkForAccelerate(w, pressed)
      moved == WI_updateAnimatedBack(wb, v, chance)
  IN CASE v.state = "StatCount"   -> IF wb.mode = "deathmatch" THEN WI_updateDeathmatchStats(wb, moved, chance)
                                     ELSE WI_updateNetgameStats(wb, moved, chance)
       [] v.state = "ShowNextLoc" -> WI_updateShowNextLoc(wb, v, chance)
       [] v.state = "NoState"     -> WI_updateNoState(wb, v, chance)

(* ----------------------------------------------------------------------- *)
(* The behaviour                                                            *)
(* ----------------------------------------------------------------------- *)

Chances == {0, 1}

TallyInit ==
  /\ \E t \in Tallies : wbs = WI_initVariables(t)
  /\ \E dofrags \in BOOLEAN, chance \in Chances : tally = WI_Start(wbs, dofrags, chance)
  /\ asked = 0

\* asked counts the buttons that went down: players stop pressing at a bound.
TallyTic ==
  \E pressed \in SUBSET Ingame(wbs), chance \in Chances :
    /\ tally.state # "WorldDone"
    /\ asked = 3 => pressed \subseteq tally.down
    /\ tally' = WI_Ticker(wbs, tally, pressed, chance)
    /\ asked' = IF pressed \subseteq tally.down THEN asked ELSE asked + 1
    /\ UNCHANGED wbs

TallySpec == TallyInit /\ [][TallyTic]_tally_vars /\ WF_tally_vars(TallyTic)

(* ----------------------------------------------------------------------- *)
(* Properties                                                               *)
(* ----------------------------------------------------------------------- *)

Counted == tally.stage = IF wbs.mode = "deathmatch" THEN 4 ELSE 10

\* Only frames that exist are drawn, and a picture that moves always will move
\* again: its next tic is never missed.
PicturesMove ==
  \A a \in DOMAIN Anims :
    /\ tally.anims[a].ctr \in -1..(Anims[a].nanims - 1)
    /\ Anims[a].type # "level" \/ wbs.next = Anims[a].data1 => tally.anims[a].due > 0

\* The figures on the screen are those of the level.
ShownIsCounted ==
  LET f == Final(wbs) IN
  IF wbs.mode = "deathmatch"
  THEN \A p \in Ingame(wbs) : /\ tally.dm_totals[p] \in {f.frags[p], Between(f.frags[p])}
                              /\ tally.dm_frags[p] = wbs.plyr[p].frags
  ELSE /\ tally.kills = f.kills /\ tally.items = f.items /\ tally.secret = f.secret
       /\ wbs.mode = "single" => tally.time = f.time /\ tally.par = f.par
       /\ tally.dofrags => tally.frags = f.frags

\* Nobody need press anything for the figures to be counted; however the count
\* comes to its end, they are right then.
TooManyFrags ==
  wbs.mode = "deathmatch" /\ \E p \in Ingame(wbs), q \in Ingame(wbs) : wbs.plyr[p].frags[q] \notin -FRAGS_SHOWN..FRAGS_SHOWN
CountingEnds == tally.cnt_pause # PAUSE /\ ~TooManyFrags ~> tally.state # "StatCount" \/ (Counted /\ ShownIsCounted)

\* Three buttons end the intermission, at whatever moments they are pressed.
IntermissionEnds == [](asked = 3 => <>(tally.state = "WorldDone"))

=============================================================================
