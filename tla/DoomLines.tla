------------------------------ MODULE DoomLines ------------------------------
(* A level at play: its special lines are used, crossed and shot            *)
(* (p_switch.c, p_spec.c), and every tic runs the movers, the lights and the *)
(* switches' buttons. Things are only what stands in a sector: its height.   *)
(* A line is used between two tics, never after a mover and before the next. *)
EXTENDS DoomLights

CONSTANTS
  Scenes,    \* the levels, as Level builds them
  Chances,   \* what memory from Z_Malloc and P_Random may hold
  BRIGHT, DIM, \* the light levels 255 and 35 of the lines that turn light on
  BUTTONTIME, MAXBUTTONS,
  TALL,      \* the height of a thing
  USES, WALKS \* how often lines are tried and things walk in or out

VARIABLES level, past, tics \* the last: the parity of leveltime

lines_vars == <<level, past, tics>>

(* ----------------------------------------------------------------------- *)
(* Switches                                                                 *)
(* ----------------------------------------------------------------------- *)

P_StartButton(w, n, texture) ==
  LET free == SelectInSeq(w.button, LAMBDA b : b.btimer = 0)
      pressed == \E i \in DOMAIN w.button : w.button[i].btimer # 0 /\ w.button[i].line = n
  IN IF pressed THEN w
     ELSE IF free = 0 THEN I_Error(w)
     ELSE [w EXCEPT !.button[free] = [line |-> n, btexture |-> texture, btimer |-> BUTTONTIME]]

\* The two textures of a switch follow one another in switchlist.
Other == [off |-> "on", on |-> "off"]

ComesBackAsItIs(w, n, useAgain) == \* mutant
  LET v == IF useAgain THEN w ELSE [w EXCEPT !.line[n].special = 0]
      turned == [v EXCEPT !.line[n].texture = Other[@]]
  IN IF w.line[n].texture = "none" THEN v
     ELSE IF useAgain THEN P_StartButton(turned, n, turned.line[n].texture) ELSE turned
P_ChangeSwitchTexture(w, n, useAgain) ==
  LET v == IF useAgain THEN w ELSE [w EXCEPT !.line[n].special = 0]
      was == w.line[n].texture
      turned == [v EXCEPT !.line[n].texture = Other[was]]
  IN IF was = "none" THEN v ELSE IF useAgain THEN P_StartButton(turned, n, was) ELSE turned

\* A button's time is over: the line shows its old texture again.
ButtonStep(w, i) ==
  LET b == w.button[i]
  IN IF b.btimer = 0 THEN w
     ELSE IF b.btimer > 1 THEN [w EXCEPT !.button[i].btimer = @ - 1]
     ELSE [w EXCEPT !.line[b.line].texture = b.btexture, !.button[i] = [b EXCEPT !.btimer = 0]]

\* Of the rest, a level timer ends the level; moving pictures are left out.
P_UpdateSpecials(w) ==
  LET v == IF w.timer = 0 THEN w ELSE [w EXCEPT !.timer = @ - 1, !.exit = IF w.timer = 1 THEN "exit" ELSE @]
  IN FoldLeftDomain(ButtonStep, v, v.button)

(* ----------------------------------------------------------------------- *)
(* What each special does                                                   *)
(* ----------------------------------------------------------------------- *)

DoorLines ==
  [normal |-> {4, 29, 63, 90}, open |-> {2, 46, 61, 86, 103}, close |-> {3, 42, 50, 75},
   close30ThenOpen |-> {16, 76}, blazeRaise |-> {105, 108, 111, 114},
   blazeOpen |-> {106, 109, 112, 115}, blazeClose |-> {107, 110, 113, 116}]
FloorLines ==
  [lowerFloor |-> {19, 45, 83, 102}, lowerFloorToLowest |-> {23, 38, 60, 82}, turboLower |-> {36, 70, 71, 98},
   raiseFloor |-> {5, 24, 64, 91, 101}, raiseFloorCrush |-> {55, 56, 65, 94}, raiseFloor24 |-> {58, 92},
   raiseFloor24AndChange |-> {59, 93}, raiseFloor512 |-> {140}, raiseToTexture |-> {30, 96},
   raiseFloorToNearest |-> {18, 69, 119, 128}, raiseFloorTurbo |-> {129, 130, 131, 132}, lowerAndChange |-> {37, 84}]
CeilingLines ==
  [lowerToFloor |-> {41, 43}, crushAndRaise |-> {25, 49, 73}, fastCrushAndRaise |-> {6, 77},
   silentCrushAndRaise |-> {141}, lowerAndCrush |-> {44, 72}]
PlatLines ==
  [downWaitUpStay |-> {10, 21, 62, 88}, blazeDWUS |-> {120, 121, 122, 123}, perpetualRaise |-> {53, 87},
   raiseToNearestAndChange |-> {20, 22, 47, 68, 95}, raiseAndChange |-> {14, 15, 66, 67}]
StairLines == [build8 |-> {7, 8}, turbo16 |-> {100, 127}]

OneOf(table, special) == \E t \in DOMAIN table : special \in table[t]
TypeIn(table, special) == CHOOSE t \in DOMAIN table : special \in table[t]

LockedLines == {99, 133, 134, 135, 136, 137}
HandLines == {1, 26, 27, 28, 31, 32, 33, 34, 117, 118}
LightLines == [on |-> {13, 81, 138}, dim |-> {35, 79, 139}, brightest |-> {12, 80}]
TeleportLines == {39, 97, 125, 126}

\* The call a special makes.
Does(w, n, who, chance) ==
  LET line == w.line[n]
      sp == line.special
  IN CASE OneOf(DoorLines, sp) -> EV_DoDoor(w, line, TypeIn(DoorLines, sp))
       [] sp \in LockedLines -> EV_DoLockedDoor(w, line, "blazeOpen", who)
       [] sp \in HandLines -> EV_VerticalDoor(w, n, who)
       [] OneOf(FloorLines, sp) -> EV_DoFloor(w, line, TypeIn(FloorLines, sp), chance)
       [] OneOf(CeilingLines, sp) -> EV_DoCeiling(w, line, TypeIn(CeilingLines, sp), chance)
       [] sp = 40 -> EV_DoFloor(EV_DoCeiling(w, line, "raiseToHighest", chance), line, "lowerFloorToLowest", chance)
       [] OneOf(PlatLines, sp) ->
            EV_DoPlat(w, line, TypeIn(PlatLines, sp), IF sp \in {14, 67} THEN STEP32 ELSE STEP24, chance)
       [] OneOf(StairLines, sp) -> EV_BuildStairs(w, line, TypeIn(StairLines, sp), chance)
       [] sp = 9 -> EV_DoDonut(w, line, chance)
       [] sp \in {54, 89} -> EV_StopPlat(w, line)
       [] sp \in {57, 74} -> EV_CeilingCrushStop(w, line)
       [] OneOf(LightLines, sp) ->
            EV_LightTurnOn(w, line, [on |-> BRIGHT, dim |-> DIM, brightest |-> 0][TypeIn(LightLines, sp)])
       [] sp = 17 -> EV_StartLightStrobing(w, line, chance)
       [] sp = 104 -> EV_TurnTagLightsOff(w, line)
       [] sp \in {11, 52} -> [w EXCEPT !.exit = "exit"]
       [] sp \in {51, 124} -> [w EXCEPT !.exit = "secret"]
       [] OTHER -> w

SwitchOnce ==
  {7, 9, 11, 14, 15, 18, 20, 21, 23, 29, 41, 49, 50, 51, 55, 71, 101, 102, 103, 111, 112, 113, 122, 127, 131,
   133, 135, 137, 140}
SwitchAgain ==
  {42, 43, 45, 60, 61, 62, 63, 64, 65, 66, 67, 68, 69, 70, 99, 114, 115, 116, 123, 132, 134, 136, 138, 139}
WalkOnce ==
  {2, 3, 4, 5, 6, 8, 10, 12, 13, 16, 17, 19, 22, 25, 30, 35, 36, 37, 38, 39, 40, 44, 53, 54, 56, 57, 58, 59, 100,
   104, 108, 109, 110, 119, 121, 125, 130, 141}
WalkAgain ==
  {52, 72, 73, 74, 75, 76, 77, 79, 80, 81, 82, 83, 84, 86, 87, 88, 89, 90, 91, 92, 93, 94, 95, 96, 97, 98, 105,
   106, 107, 120, 124, 126, 128, 129}

\* A switch is turned when what it calls has found a sector to move (and the
\* key, where it takes one); an exit or a light is turned always.
Turned(w, n, who) ==
  LET line == w.line[n]
  IN IF line.special \in {11, 51, 138, 139} THEN TRUE
     ELSE FindsIdle(w, line) /\ (line.special \in LockedLines => who.is = "player" /\ HasKey(who, line.special))

P_UseSpecialLine(w, n, who, side, chance) ==
  LET line == w.line[n]
      allowed == who.is = "player" \/ (~line.secret /\ line.special \in {1, 32, 33, 34})
      v == Does(w, n, who, chance)
  IN IF side = 1 \/ ~allowed THEN w
     ELSE CASE line.special \in HandLines -> v
            [] line.special \in (SwitchOnce \cup SwitchAgain) ->
                 IF Turned(w, n, who) THEN P_ChangeSwitchTexture(v, n, line.special \in SwitchAgain) ELSE v
            [] OTHER -> w

P_CrossSpecialLine(w, n, who, chance) ==
  LET line == w.line[n]
      allowed == \/ who.is = "player" /\ line.special # 125
                 \/ who.is = "monster" /\ line.special \in (TeleportLines \cup {4, 10, 88})
      v == IF line.special \in TeleportLines THEN w ELSE Does(w, n, who, chance)
  IN IF ~allowed THEN w
     ELSE CASE line.special \in WalkOnce -> [v EXCEPT !.line[n].special = 0]
            [] line.special \in WalkAgain -> v
            [] OTHER -> w

\* Turned whatever the call found.
P_ShootSpecialLine(w, n, who, chance) ==
  LET line == w.line[n]
  IN IF line.special = 46 \/ (who.is = "player" /\ line.special \in {24, 47})
     THEN P_ChangeSwitchTexture(Does(w, n, who, chance), n, line.special = 46) ELSE w

\* A player who stands on the floor of s; what hurts is left to the player.
P_PlayerInSpecialSector(w, s, dying) ==
  CASE w.special[s] \in {0, 4, 5, 7, 16} -> w
    [] w.special[s] = 9 -> [w EXCEPT !.special[s] = 0, !.secretcount = @ + 1]
    [] w.special[s] = 11 -> IF dying THEN [w EXCEPT !.exit = "exit"] ELSE w
    [] OTHER -> I_Error(w)

(* ----------------------------------------------------------------------- *)
(* The level                                                                *)
(* ----------------------------------------------------------------------- *)

\* Every count of every light, and special 4 that stays after its strobe.
P_SpawnSpecial(w, s, chance) ==
  CASE w.special[s] = 1 -> P_SpawnLightFlash(w, s, chance)
    [] w.special[s] = 2 -> P_SpawnStrobeFlash(w, s, FASTDARK, FALSE, chance)
    [] w.special[s] = 3 -> P_SpawnStrobeFlash(w, s, SLOWDARK, FALSE, chance)
    [] w.special[s] = 4 -> [P_SpawnStrobeFlash(w, s, FASTDARK, FALSE, chance) EXCEPT !.special[s] = 4]
    [] w.special[s] = 8 -> P_SpawnGlowingLight(w, s)
    [] w.special[s] = 9 -> [w EXCEPT !.totalsecret = @ + 1]
    [] w.special[s] = 10 -> P_SpawnDoorCloseIn30(w, s, chance)
    [] w.special[s] = 12 -> P_SpawnStrobeFlash(w, s, SLOWDARK, TRUE, chance)
    [] w.special[s] = 13 -> P_SpawnStrobeFlash(w, s, FASTDARK, TRUE, chance)
    [] w.special[s] = 14 -> P_SpawnDoorRaiseIn5Mins(w, s)
    [] w.special[s] = 17 -> P_SpawnFireFlicker(w, s)
    [] OTHER -> w

P_SpawnSpecials(w, chance) ==
  FoldLeft(LAMBDA v, s : P_SpawnSpecial(v, s, chance), w, SetToSortSeq(Sectors(w), <))

\* A level as P_SetupLevel leaves it, before its specials are spawned.
Level(scene) ==
  [floor |-> scene.floor, ceiling |-> scene.ceiling, light |-> scene.light, special |-> scene.special,
   tag |-> scene.tag, ring |-> scene.ring, line |-> scene.line, timer |-> scene.timer,
   pic |-> scene.pic, bottoms |-> [s \in DOMAIN scene.floor |-> {STEP16}],
   tall |-> [s \in DOMAIN scene.floor |-> 0], data |-> [s \in DOMAIN scene.floor |-> NULL],
   mover |-> <<>>, lights |-> <<>>,
   activeceilings |-> [i \in 1..MAXCEILINGS |-> NULL], activeplats |-> [i \in 1..MAXPLATS |-> NULL],
   button |-> [i \in 1..MAXBUTTONS |-> [line |-> 0, btexture |-> "none", btimer |-> 0]],
   secretcount |-> 0, totalsecret |-> 0, exit |-> "no", halted |-> FALSE]

Playing == level.exit = "no" /\ ~level.halted

\* What the properties remember: how often the level was touched, the sectors
\* a second mover was given to, and those a crusher has worked in.
Untouched == [uses |-> 0, walks |-> 0, shared |-> {}, crushed |-> {}, unlisted |-> FALSE]

LinesInit ==
  /\ \E scene \in Scenes, chance \in Chances : level = P_SpawnSpecials(Level(scene), chance)
  /\ past = Untouched /\ tics = 0

RunLevel(w, feet, dying, chance) ==
  LET v == IF feet = NULL THEN w ELSE P_PlayerInSpecialSector(w, feet, dying)
  IN IF v.halted THEN v ELSE P_UpdateSpecials(RunLights(RunMovers(v), chance))

Tic ==
  /\ Playing
  /\ \E feet \in {NULL} \cup {s \in Sectors(level) : level.special[s] # 0}, dying \in BOOLEAN, chance \in Chances :
       level' = RunLevel(level, feet, dying, chance)
  /\ tics' = 1 - tics /\ UNCHANGED past

Crushing(w) == {w.mover[i].sector : i \in {j \in DOMAIN w.mover :
                  w.mover[j].kind \in {"floor", "ceiling"} /\ w.mover[j].crush}}

\* The sectors a second mover may be given to: a hand opens for good what moves
\* already, or a pool is raised that moves already, that two pillars have in
\* common, or that is itself tagged.
Shares(n) ==
  LET line == level.line[n]
      pillars == {s \in Sectors(level) : level.tag[s] = line.tag}
      under(s) == {p \in pillars : Pool(level, p) = s}
  IN CASE line.special \in (HandLines \ Reusable) -> {s \in {line.back} : ~Idle(level, s)}
       [] line.special = 9 ->
            {s \in Sectors(level) : ~Idle(level, s) \/ Cardinality(under(s)) > 1 \/ (under(s) # {} /\ s \in pillars)}
       [] OTHER -> {}

Touch(n, to) ==
  /\ to # level /\ level' = to /\ UNCHANGED tics
  /\ past' = [past EXCEPT !.uses = @ + 1, !.shared = @ \cup Shares(n), !.crushed = @ \cup Crushing(to),
                          !.unlisted = @ \/ Cardinality({i \in DOMAIN to.mover : to.mover[i].kind = "ceiling"}) > MAXCEILINGS]

Whos == [is : {"player", "monster", "missile"}, cards : {{}, {"blue", "red", "yellow"}}]

Trigger ==
  /\ Playing /\ past.uses < USES
  /\ \E n \in DOMAIN level.line, who \in Whos, chance \in Chances :
       \/ \E side \in {0, 1} : Touch(n, P_UseSpecialLine(level, n, who, side, chance))
       \/ Touch(n, P_CrossSpecialLine(level, n, who, chance))
       \/ Touch(n, P_ShootSpecialLine(level, n, who, chance))

\* Things come where they fit and go; a crusher kills what it squeezes.
Walk ==
  /\ Playing /\ past.walks < WALKS
  /\ \E s \in Sectors(level), h \in {0, TALL} :
       /\ level.tall[s] # h /\ h <= level.ceiling[s] - level.floor[s]
       /\ level' = [level EXCEPT !.tall[s] = h]
  /\ past' = [past EXCEPT !.walks = @ + 1] /\ UNCHANGED tics

Squeeze ==
  /\ Playing
  /\ \E s \in Crushing(level) : ~Fits(level, s) /\ level' = [level EXCEPT !.tall[s] = 0]
  /\ UNCHANGED <<past, tics>>

LinesNext == Tic \/ Trigger \/ Walk \/ Squeeze

\* A level that is at play is always ready for the next tic, and gets it.
Ticks == tics' # tics
LinesSpec == LinesInit /\ [][LinesNext]_lines_vars /\ ([]<>~Playing \/ []<><<Ticks>>_tics)

(* ----------------------------------------------------------------------- *)
(* Properties                                                               *)
(* ----------------------------------------------------------------------- *)

Movers(kind) == {i \in DOMAIN level.mover : level.mover[i].kind = kind}
Listed(list) == {list[i] : i \in DOMAIN list} \ {NULL}
Once(list) == \A i, j \in DOMAIN list : list[i] = list[j] /\ i # j => list[i] = NULL

\* specialdata, through which a hand reaches what moves a sector, never points
\* to a mover that has ended or that moves another sector.
SpecialDataIsLive ==
  \A s \in Sectors(level) :
    ~Idle(level, s) => level.data[s] \in DOMAIN level.mover /\ level.mover[level.data[s]].sector = s

\* Two movers never work against each other on one sector, but where a hand
\* or a donut that does not ask for specialdata has begun a second one.
OneMoverEach ==
  \A i, j \in DOMAIN level.mover :
    i # j /\ level.mover[i].sector = level.mover[j].sector => level.mover[i].sector \in past.shared

\* A line that stops or resumes by tag sees exactly the platforms there are,
\* and the ceilings, unless there were ever more of them than entries.
ListsAreTrue ==
  ~level.halted =>
    /\ Once(level.activeplats) /\ Listed(level.activeplats) = Movers("plat")
    /\ Once(level.activeceilings) /\ Listed(level.activeceilings) \subseteq Movers("ceiling")
    /\ ~past.unlisted => Listed(level.activeceilings) = Movers("ceiling")

\* What is stopped can be resumed the way it went, and nothing else is stopped.
StoppedCanResume ==
  /\ \A i \in Movers("plat") : LET p == level.mover[i]
       IN (p.run <=> (p.status # "in_stasis")) /\ p.oldstatus # "in_stasis"
  /\ \A i \in Movers("ceiling") : LET c == level.mover[i]
       IN (c.run <=> (c.direction # 0)) /\ (c.run \/ c.olddirection \in {-1, 1})

\* Nothing is left squeezed by a door, a platform or a plain floor: only where
\* a crusher works or has worked.
OnlyCrushersSqueeze == \A s \in Sectors(level) : Fits(level, s) \/ s \in past.crushed

\* The game stops with an error only when a table of platforms or of buttons
\* is full, or on a special that came from memory nobody had set.
OnlyFullTablesHalt ==
  level.halted =>
    \/ NULL \notin Range(level.activeplats)
    \/ \A i \in DOMAIN level.button : level.button[i].btimer # 0
    \/ \E s \in Sectors(level) : level.special[s] \notin {0, 4, 5, 7, 9, 11, 16}

\* A countdown runs from a time that was set: what waits for ever is a rising
\* platform turned back on its way, a door that was to shut in 30 seconds and
\* met something, or a mover a hand has reached into.
LongWait(m) ==
  \/ m.kind = "door" /\ m.direction \in {0, 2} /\ m.topcountdown <= 0
  \/ m.kind = "plat" /\ m.status = "waiting" /\ m.count <= 0
Unset(m) ==
  \/ m.kind = "plat" /\ m.type \in {"raiseAndChange", "raiseToNearestAndChange"}
  \/ \E chance \in Chances : m.kind = "door" /\ m.topwait = chance.garbage
CountdownsAreSet ==
  \A i \in DOMAIN level.mover : LongWait(level.mover[i]) => level.mover[i].byhand \/ Unset(level.mover[i])

\* A switch that can be used again shows that it is ready whenever no button
\* is on its way back.
SwitchComesBack ==
  ~level.halted =>
  \A n \in DOMAIN level.line :
    level.line[n].special \in (SwitchAgain \cup {46}) /\ level.line[n].texture = "on" =>
      \E i \in DOMAIN level.button : level.button[i].btimer # 0 /\ level.button[i].line = n

\* Whatever lights and lines do, a light level stays between black and full. A
\* fire may leave that range by the height of its flames, and a line that turns
\* light on or off takes such a level over from the sector beside it.
LightIsALevel ==
  LET flames == IF \E i \in DOMAIN level.lights : level.lights[i].kind = "flicker" THEN FLICKER ELSE 0
  IN \A s \in Sectors(level) : level.light[s] \in -flames .. (BRIGHT + flames)

\* What is started and left alone ends, and frees its sector; only crushers
\* and perpetual platforms go on, and what something stands under, what waits
\* for ever, what a hand reached into, or two that undo each other.
MayStay(m) ==
  \/ m.type \in (Crushers \cup {"perpetualRaise"}) \/ m.byhand \/ LongWait(m)
  \/ level.tall[m.sector] > 0 \/ m.sector \in past.shared
  \/ m.kind = "ceiling" /\ past.unlisted
MoversEnd == <>[](~Playing \/ \A i \in DOMAIN level.mover : MayStay(level.mover[i]))

\* A door that moves nothing else is done only when it is shut or as far up
\* as it was to go.
DoorsEndAtRest ==
  [][\A i \in Movers("door") :
       i \notin DOMAIN level'.mover =>
         LET d == level.mover[i]
         IN \/ d.sector \in past.shared
            \/ level'.ceiling[d.sector] = IF d.direction = -1 THEN level'.floor[d.sector] ELSE d.topheight]_lines_vars

\* Movers end, and doors where they were to go.
MoversComeToRest == DoorsEndAtRest /\ MoversEnd

\* Whatever lines are used and crossed, the movers, the pointers and lists that
\* lead to them and the switches that call them agree.
LevelIsSound ==
  /\ SpecialDataIsLive /\ OneMoverEach /\ ListsAreTrue /\ StoppedCanResume
  /\ OnlyCrushersSqueeze /\ CountdownsAreSet
  /\ SwitchComesBack /\ LightIsALevel /\ OnlyFullTablesHalt
=============================================================================
