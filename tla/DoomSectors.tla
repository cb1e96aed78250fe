----------------------------- MODULE DoomSectors -----------------------------
(* The moving sectors of a level (p_doors.c, p_floor.c, p_ceilng.c,        *)
(* p_plats.c and the searches of p_spec.c they start from): what starting,  *)
(* running, stopping and ending a door, a floor, a ceiling or a platform    *)
(* does to the level w. A mover is a record in w.mover under its id, the    *)
(* address of its thinker; w.data[s] is the specialdata pointer of sector s. *)
(* Heights and times are scaled: FAST stands for the factors 4 and 8, SLOW  *)
(* for the divisors 2, 4 and 8. chance holds what Z_Malloc'd memory and     *)
(* P_Random may hold.                                                       *)
EXTENDS Integers, Sequences, FiniteSetsExt, SequencesExt, Functions

CONSTANTS
  VDOORSPEED, VDOORWAIT, FLOORSPEED, CEILSPEED, PLATSPEED, PLATWAIT, FAST, SLOW,
  LIP, GAP, \* 4 and 8 units: what a door and a crusher leave
  STEP8, STEP16, STEP24, STEP32, STEP512,
  SHUT_IN, OPEN_IN, \* 30 seconds, 5 minutes
  MAXINT, LOWEST, \* no ceiling around; no floor around
  MAXCEILINGS, MAXPLATS

NULL == 0

(* ----------------------------------------------------------------------- *)
(* The sectors around                                                       *)
(* ----------------------------------------------------------------------- *)

\* w.ring[s] holds the two-sided lines of s, in their order.
getNextSector(l, s) == IF l.front = s THEN l.back ELSE l.front

Around(w, s) == {getNextSector(w.ring[s][i], s) : i \in DOMAIN w.ring[s]}

Values(f, S) == {f[s] : s \in S}

P_FindLowestFloorSurrounding(w, s) == Min({w.floor[s]} \cup Values(w.floor, Around(w, s)))
P_FindHighestFloorSurrounding(w, s) == Max({LOWEST} \cup Values(w.floor, Around(w, s)))
P_FindLowestCeilingSurrounding(w, s) == Min({MAXINT} \cup Values(w.ceiling, Around(w, s)))
P_FindHighestCeilingSurrounding(w, s) == Max({0} \cup Values(w.ceiling, Around(w, s)))

P_FindNextHighestFloor(w, s, height) ==
  LET higher == {h \in Values(w.floor, Around(w, s)) : h > height}
  IN IF higher = {} THEN height ELSE Min(higher)

Sectors(w) == DOMAIN w.floor

\* The sectors P_FindSectorFromLineTag returns one after the other.
Tagged(w, tag) == SetToSortSeq({s \in Sectors(w) : w.tag[s] = tag}, <)

NeverBusy(w, s) == TRUE \* mutant
Idle(w, s) == w.data[s] = NULL

\* What every EV_ function returns: it found a tagged sector that was idle.
FindsIdle(w, line) == \E s \in Sectors(w) : w.tag[s] = line.tag /\ Idle(w, s)

(* ----------------------------------------------------------------------- *)
(* Movers                                                                   *)
(* ----------------------------------------------------------------------- *)

Fresh(w) == CHOOSE i \in 1..(Cardinality(DOMAIN w.mover) + 1) : i \notin DOMAIN w.mover

\* Z_Malloc, P_AddThinker and sec->specialdata.
Start(w, s, m) ==
  LET id == Fresh(w)
  IN [w EXCEPT !.mover = (id :> m) @@ @, !.data[s] = id]

KeepsData(w, id) == [w EXCEPT !.mover = Restrict(@, DOMAIN @ \ {id})] \* mutant
\* sector->specialdata = NULL and P_RemoveThinker.
Ends(w, id) ==
  [w EXCEPT !.data[w.mover[id].sector] = NULL, !.mover = Restrict(@, DOMAIN @ \ {id})]

\* Sets one field of a mover.
Put(w, id, field, value) == [w EXCEPT !.mover[id][field] = value]

\* Every tagged sector that is idle when its turn comes.
StartIn(w, line, StartOne(_, _)) ==
  FoldLeft(LAMBDA v, s : IF Idle(v, s) THEN StartOne(v, s) ELSE v, w, Tagged(w, line.tag))

\* P_ChangeSector finds nothing that is taller than what is left.
Fits(w, s) == w.tall[s] = 0 \/ w.tall[s] <= w.ceiling[s] - w.floor[s]

\* T_MovePlane: the level after the step, and what it returns. A step into
\* something that does not fit is taken back, except that of a crusher and
\* that of a rising ceiling on its way.
MovesOn(w, s, plane, to) == [w EXCEPT ![plane][s] = to]

NeverTakenBack(crush, plane, direction, past) == ~past \* mutant
Stays(crush, plane, direction, past) ==
  ~past /\ IF direction = 1 THEN crush \/ plane = "ceiling" ELSE crush /\ plane = "ceiling"

T_MovePlane(w, s, speed, dest, crush, plane, direction) ==
  LET next == w[plane][s] + direction * speed
      past == direction * (next - dest) > 0
      moved == MovesOn(w, s, plane, IF past THEN dest ELSE next)
      fits == Fits(moved, s)
  IN [level |-> IF fits \/ Stays(crush, plane, direction, past) THEN moved ELSE w,
      res |-> IF past THEN "pastdest"
              ELSE IF fits \/ (plane = "ceiling" /\ direction = 1) THEN "ok" ELSE "crushed"]

\* A countdown that is asked for zero after it is taken down: from zero or
\* below it has 2^32 tics to go, which stand still here.
Down(n) == IF n > 0 THEN n - 1 ELSE -1

(* ----------------------------------------------------------------------- *)
(* Doors                                                                    *)
(* ----------------------------------------------------------------------- *)

T_DoorWaits(w, id) ==
  LET d == w.mover[id]
      v == Put(w, id, "topcountdown", Down(d.topcountdown))
  IN IF d.topcountdown # 1 THEN v
     ELSE CASE d.type \in {"blazeRaise", "normal"} -> Put(v, id, "direction", -1)
            [] d.type = "close30ThenOpen" -> Put(v, id, "direction", 1)
            [] OTHER -> v

T_DoorWaitsToRaise(w, id) ==
  LET d == w.mover[id]
      v == Put(w, id, "topcountdown", Down(d.topcountdown))
  IN IF d.topcountdown = 1 /\ d.type = "raiseIn5Mins"
     THEN Put(Put(v, id, "direction", 1), id, "type", "normal") ELSE v

ShutsOnThings(w, id) == \* mutant
  LET d == w.mover[id]
      move == T_MovePlane(w, d.sector, d.speed, w.floor[d.sector], FALSE, "ceiling", -1)
  IN IF move.res = "ok" THEN move.level ELSE Ends(move.level, id)
T_DoorCloses(w, id) ==
  LET d == w.mover[id]
      move == T_MovePlane(w, d.sector, d.speed, w.floor[d.sector], FALSE, "ceiling", -1)
      v == move.level
  IN CASE move.res = "pastdest" /\ d.type \in {"blazeRaise", "blazeClose", "normal", "close"} -> Ends(v, id)
       [] move.res = "pastdest" /\ d.type = "close30ThenOpen" ->
            Put(Put(v, id, "direction", 0), id, "topcountdown", SHUT_IN)
       [] move.res = "crushed" /\ d.type \notin {"blazeClose", "close"} -> Put(v, id, "direction", 1)
       [] OTHER -> v

T_DoorOpens(w, id) ==
  LET d == w.mover[id]
      move == T_MovePlane(w, d.sector, d.speed, d.topheight, FALSE, "ceiling", 1)
      v == move.level
  IN CASE move.res # "pastdest" -> v
       [] d.type \in {"blazeRaise", "normal"} ->
            Put(Put(v, id, "direction", 0), id, "topcountdown", d.topwait)
       [] d.type \in {"close30ThenOpen", "blazeOpen", "open"} -> Ends(v, id)
       [] OTHER -> v

T_VerticalDoor(w, id) ==
  CASE w.mover[id].direction = 0 -> T_DoorWaits(w, id)
    [] w.mover[id].direction = 2 -> T_DoorWaitsToRaise(w, id)
    [] w.mover[id].direction = -1 -> T_DoorCloses(w, id)
    [] w.mover[id].direction = 1 -> T_DoorOpens(w, id)

DoorTop(w, s) == P_FindLowestCeilingSurrounding(w, s) - LIP

Door(w, s, type, direction, topheight, speed) ==
  [kind |-> "door", run |-> TRUE, sector |-> s, type |-> type, direction |-> direction,
   topheight |-> topheight, speed |-> speed, topwait |-> VDOORWAIT, topcountdown |-> 0,
   byhand |-> FALSE]

EV_DoDoor(w, line, type) ==
  StartIn(w, line, LAMBDA v, s :
    Start(v, s, Door(v, s, type,
      IF type \in {"blazeClose", "close", "close30ThenOpen"} THEN -1 ELSE 1,
      IF type = "close30ThenOpen" THEN v.ceiling[s] ELSE DoorTop(v, s),
      IF type \in {"blazeClose", "blazeRaise", "blazeOpen"} THEN VDOORSPEED * FAST ELSE VDOORSPEED)))

\* The key a line asks of a player.
KeyOf(special) ==
  CASE special \in {26, 32, 99, 133} -> "blue"
    [] special \in {27, 34, 136, 137} -> "yellow"
    [] special \in {28, 33, 134, 135} -> "red"
    [] OTHER -> "none"

HasKey(who, special) == KeyOf(special) = "none" \/ KeyOf(special) \in who.cards

EV_DoLockedDoor(w, line, type, who) ==
  IF who.is = "player" /\ HasKey(who, line.special) THEN EV_DoDoor(w, line, type) ELSE w

\* door->direction lies where a platform keeps wait, a ceiling its speed and a
\* floor its texture: EV_VerticalDoor does not ask what moves the sector. A
\* speed of 1 or -1 is 1/65536 of a unit: such a ceiling stands still.
Reverses(w, id, who) ==
  LET m == w.mover[id]
      field == CASE m.kind = "door" -> "direction" [] m.kind = "plat" -> "wait"
                 [] m.kind = "ceiling" -> "speed" [] m.kind = "floor" -> "texture"
      v == [w EXCEPT !.mover[id].byhand = TRUE]
  IN IF m.kind = "ceiling" THEN (IF who.is = "player" THEN Put(v, id, field, 0) ELSE w)
     ELSE IF m[field] = -1 THEN Put(v, id, field, 1)
     ELSE IF who.is = "player" THEN Put(v, id, field, -1)
     ELSE w

Reusable == {1, 26, 27, 28, 117}

\* A line opens the sector behind it.
EV_VerticalDoor(w, n, who) ==
  LET line == w.line[n]
      s == line.back
      type == CASE line.special \in {1, 26, 27, 28} -> "normal"
                [] line.special \in {31, 32, 33, 34} -> "open"
                [] line.special = 117 -> "blazeRaise" [] OTHER -> "blazeOpen"
      speed == IF line.special \in {117, 118} THEN VDOORSPEED * FAST ELSE VDOORSPEED
  IN IF KeyOf(line.special) # "none" /\ ~(who.is = "player" /\ HasKey(who, line.special)) THEN w
     ELSE IF ~Idle(w, s) /\ line.special \in Reusable THEN Reverses(w, w.data[s], who)
     ELSE LET v == Start(w, s, Door(w, s, type, 1, DoorTop(w, s), speed))
          IN IF line.special \in Reusable THEN v ELSE [v EXCEPT !.line[n].special = 0]

\* Its topheight and topwait are what Z_Malloc returned.
P_SpawnDoorCloseIn30(w, s, chance) ==
  [Start(w, s, [Door(w, s, "normal", 0, chance.garbage, VDOORSPEED)
                EXCEPT !.topcountdown = SHUT_IN, !.topwait = chance.garbage])
   EXCEPT !.special[s] = 0]

P_SpawnDoorRaiseIn5Mins(w, s) ==
  [Start(w, s, [Door(w, s, "raiseIn5Mins", 2, DoorTop(w, s), VDOORSPEED)
                EXCEPT !.topcountdown = OPEN_IN])
   EXCEPT !.special[s] = 0]

(* ----------------------------------------------------------------------- *)
(* Floors                                                                   *)
(* ----------------------------------------------------------------------- *)

T_MoveFloor(w, id) ==
  LET m == w.mover[id]
      move == T_MovePlane(w, m.sector, m.speed, m.floordestheight, m.crush, "floor", m.direction)
      changes == \/ m.direction = 1 /\ m.type = "donutRaise"
                 \/ m.direction = -1 /\ m.type = "lowerAndChange"
      v == IF changes THEN [move.level EXCEPT !.special[m.sector] = m.newspecial, !.pic[m.sector] = m.texture]
           ELSE move.level
  IN IF move.res = "pastdest" THEN Ends(v, id) ELSE move.level

Floor(s, type, direction, speed, dest, chance) ==
  [kind |-> "floor", run |-> TRUE, sector |-> s, type |-> type, crush |-> FALSE,
   direction |-> direction, speed |-> speed, floordestheight |-> dest,
   newspecial |-> chance.garbage, texture |-> chance.garbage, byhand |-> FALSE]

FloorDest(w, s, type) ==
  CASE type = "lowerFloor" -> P_FindHighestFloorSurrounding(w, s)
    [] type \in {"lowerFloorToLowest", "lowerAndChange"} -> P_FindLowestFloorSurrounding(w, s)
    [] type = "turboLower" ->
         LET h == P_FindHighestFloorSurrounding(w, s) IN IF h = w.floor[s] THEN h ELSE h + GAP
    [] type \in {"raiseFloorCrush", "raiseFloor"} ->
         Min({P_FindLowestCeilingSurrounding(w, s), w.ceiling[s]}) - (IF type = "raiseFloor" THEN 0 ELSE GAP)
    [] type \in {"raiseFloorTurbo", "raiseFloorToNearest"} -> P_FindNextHighestFloor(w, s, w.floor[s])
    [] type \in {"raiseFloor24", "raiseFloor24AndChange"} -> w.floor[s] + STEP24
    [] type = "raiseFloor512" -> w.floor[s] + STEP512
    [] type = "raiseToTexture" -> w.floor[s] + Min({MAXINT} \cup w.bottoms[s])

\* lowerAndChange takes picture and special of the first neighbour that lies
\* as deep. Its loop over the lines of s goes on as long as the neighbour it
\* has just compared has more lines (those beyond the lines of s are left out).
ChangesTo(w, s, m) ==
  LET next(i) == getNextSector(w.ring[s][i], s)
      compared == {i \in DOMAIN w.ring[s] : \A j \in 1..(i - 1) : j < Len(w.ring[next(j)])}
      matches == {i \in compared : w.floor[next(i)] = m.floordestheight}
  IN IF matches = {} THEN [m EXCEPT !.texture = w.pic[s]]
     ELSE [m EXCEPT !.texture = w.pic[next(Min(matches))], !.newspecial = w.special[next(Min(matches))]]

EV_DoFloor(w, line, type, chance) ==
  StartIn(w, line, LAMBDA v, s :
    LET lowers == type \in {"lowerFloor", "lowerFloorToLowest", "turboLower", "lowerAndChange"}
        turbo == type \in {"turboLower", "raiseFloorTurbo"}
        m == [Floor(s, type, IF lowers THEN -1 ELSE 1, IF turbo THEN FLOORSPEED * FAST ELSE FLOORSPEED,
                    FloorDest(v, s, type), chance) EXCEPT !.crush = (type = "raiseFloorCrush")]
        begun == Start(v, s, IF type = "lowerAndChange" THEN ChangesTo(v, s, m) ELSE m)
    IN IF type # "raiseFloor24AndChange" THEN begun
       ELSE [begun EXCEPT !.pic[s] = v.pic[line.front], !.special[s] = v.special[line.front]])

\* The next stair: the sector behind the first line whose front is this one
\* and whose other side has the same floor picture and nothing moving it;
\* every such line counts a step, also the one of a sector that moves already.
NextStair(w, s, texture) ==
  LET behind == SelectSeq(w.ring[s], LAMBDA l : l.front = s /\ w.pic[l.back] = texture)
      free == SelectInSeq(behind, LAMBDA l : Idle(w, l.back))
  IN [found |-> free # 0, sector |-> IF free = 0 THEN s ELSE behind[free].back,
      steps |-> IF free = 0 THEN Len(behind) ELSE free]

Stair(s, speed, height, chance) ==
  [Floor(s, chance.type, 1, speed, height, chance) EXCEPT !.crush = chance.crush]

\* One flight: each stair starts where the last one stands.
Flight(w, s, speed, size, chance) ==
  LET texture == w.pic[s]
      first == [level |-> Start(w, s, Stair(s, speed, w.floor[s] + size, chance)),
                at |-> s, height |-> w.floor[s] + size]
      climb[n \in 0..Cardinality(Sectors(w))] ==
        IF n = 0 THEN first
        ELSE LET c == climb[n - 1]
                 next == NextStair(c.level, c.at, texture)
                 height == c.height + next.steps * size
             IN [level |-> IF next.found THEN Start(c.level, next.sector, Stair(next.sector, speed, height, chance))
                           ELSE c.level,
                 at |-> next.sector, height |-> height]
  IN climb[Cardinality(Sectors(w))]

\* The search for the next tagged sector goes on after the last stair built.
EV_BuildStairs(w, line, type, chance) ==
  LET speed == IF type = "build8" THEN FLOORSPEED \div SLOW ELSE FLOORSPEED * FAST
      size == IF type = "build8" THEN STEP8 ELSE STEP16
  IN FoldLeft(
       LAMBDA c, s :
         IF s <= c.at \/ ~Idle(c.level, s) THEN c
         ELSE LET f == Flight(c.level, s, speed, size, chance) IN [level |-> f.level, at |-> f.at],
       [level |-> w, at |-> 0], Tagged(w, line.tag)).level

\* What lies behind the first line of a pillar.
Pool(w, s1) == getNextSector(w.ring[s1][1], s1)

\* The pool around s1 rises to the level of what lies around it, s1 sinks to
\* it; what moves the pool already is not asked.
EV_DoDonut(w, line, chance) ==
  StartIn(w, line, LAMBDA v, s1 :
    LET s2 == Pool(v, s1)
        outer == SelectSeq(v.ring[s2], LAMBDA l : l.back # s1)
        s3 == Head(outer).back
        pool == [Floor(s2, "donutRaise", 1, FLOORSPEED \div SLOW, v.floor[s3], chance)
                 EXCEPT !.texture = v.pic[s3], !.newspecial = 0]
        pillar == Floor(s1, "lowerFloor", -1, FLOORSPEED \div SLOW, v.floor[s3], chance)
    IN IF outer = <<>> THEN v ELSE Start(Start(v, s2, pool), s1, pillar))

(* ----------------------------------------------------------------------- *)
(* Ceilings                                                                 *)
(* ----------------------------------------------------------------------- *)

\* A full table is not told: the ceiling runs unlisted.
P_AddActiveCeiling(w, id) ==
  LET free == SelectInSeq(w.activeceilings, LAMBDA c : c = NULL)
  IN IF free = 0 THEN w ELSE [w EXCEPT !.activeceilings[free] = id]

LeavesEntry(w, id) == \* mutant
  IF \E i \in DOMAIN w.activeceilings : w.activeceilings[i] = id THEN Ends(w, id) ELSE w
P_RemoveActiveCeiling(w, id) ==
  LET at == SelectInSeq(w.activeceilings, LAMBDA c : c = id)
  IN IF at = 0 THEN w ELSE [Ends(w, id) EXCEPT !.activeceilings[at] = NULL]

Crushers == {"silentCrushAndRaise", "fastCrushAndRaise", "crushAndRaise"}

T_CeilingRises(w, id) ==
  LET c == w.mover[id]
      move == T_MovePlane(w, c.sector, c.speed, c.topheight, FALSE, "ceiling", 1)
      v == move.level
  IN CASE move.res # "pastdest" -> v
       [] c.type = "raiseToHighest" -> P_RemoveActiveCeiling(v, id)
       [] c.type \in Crushers -> Put(v, id, "direction", -1)
       [] OTHER -> v

T_CeilingLowers(w, id) ==
  LET c == w.mover[id]
      move == T_MovePlane(w, c.sector, c.speed, c.bottomheight, c.crush, "ceiling", -1)
      v == move.level
  IN CASE move.res = "pastdest" /\ c.type \in Crushers ->
            LET up == Put(v, id, "direction", 1)
            IN IF c.type = "fastCrushAndRaise" THEN up ELSE Put(up, id, "speed", CEILSPEED)
       [] move.res = "pastdest" /\ c.type \in {"lowerAndCrush", "lowerToFloor"} -> P_RemoveActiveCeiling(v, id)
       [] move.res = "crushed" /\ c.type \in {"silentCrushAndRaise", "crushAndRaise", "lowerAndCrush"} ->
            Put(v, id, "speed", CEILSPEED \div SLOW)
       [] OTHER -> v

T_MoveCeiling(w, id) ==
  CASE w.mover[id].direction = 0 -> w
    [] w.mover[id].direction = 1 -> T_CeilingRises(w, id)
    [] w.mover[id].direction = -1 -> T_CeilingLowers(w, id)

\* What a change of every listed mover does.
OnListed(w, list, Chosen(_), Change(_)) ==
  [w EXCEPT !.mover = [i \in DOMAIN @ |->
     IF (\E n \in DOMAIN list : list[n] = i) /\ Chosen(@[i]) THEN Change(@[i]) ELSE @[i]]]

P_ActivateInStasisCeiling(w, line) ==
  OnListed(w, w.activeceilings, LAMBDA c : c.tag = line.tag /\ c.direction = 0,
           LAMBDA c : [c EXCEPT !.direction = c.olddirection, !.run = TRUE])

StopsTwice(w, line) == \* mutant
  OnListed(w, w.activeceilings, LAMBDA c : c.tag = line.tag,
           LAMBDA c : [c EXCEPT !.olddirection = c.direction, !.run = FALSE, !.direction = 0])
EV_CeilingCrushStop(w, line) ==
  OnListed(w, w.activeceilings, LAMBDA c : c.tag = line.tag /\ c.direction # 0,
           LAMBDA c : [c EXCEPT !.olddirection = c.direction, !.run = FALSE, !.direction = 0])

EV_DoCeiling(w, line, type, chance) ==
  StartIn(IF type \in Crushers THEN P_ActivateInStasisCeiling(w, line) ELSE w, line,
    LAMBDA v, s :
      LET c == [kind |-> "ceiling", run |-> TRUE, sector |-> s, type |-> type, tag |-> v.tag[s],
                crush |-> type \in Crushers,
                direction |-> IF type = "raiseToHighest" THEN 1 ELSE -1, olddirection |-> chance.garbage,
                topheight |-> CASE type \in Crushers -> v.ceiling[s]
                                [] type = "raiseToHighest" -> P_FindHighestCeilingSurrounding(v, s)
                                [] OTHER -> chance.garbage,
                bottomheight |-> v.floor[s] + (IF type = "lowerToFloor" THEN 0 ELSE GAP),
                speed |-> IF type = "fastCrushAndRaise" THEN CEILSPEED * FAST ELSE CEILSPEED,
                byhand |-> FALSE]
      IN P_AddActiveCeiling(Start(v, s, c), Fresh(v)))

(* ----------------------------------------------------------------------- *)
(* Platforms                                                                *)
(* ----------------------------------------------------------------------- *)

I_Error(w) == [w EXCEPT !.halted = TRUE]

AddsInSilence(w, id) == \* mutant
  LET free == SelectInSeq(w.activeplats, LAMBDA p : p = NULL)
  IN IF free = 0 THEN w ELSE [w EXCEPT !.activeplats[free] = id]
P_AddActivePlat(w, id) ==
  LET free == SelectInSeq(w.activeplats, LAMBDA p : p = NULL)
  IN IF free = 0 THEN I_Error(w) ELSE [w EXCEPT !.activeplats[free] = id]

P_RemoveActivePlat(w, id) ==
  LET at == SelectInSeq(w.activeplats, LAMBDA p : p = id)
  IN IF at = 0 THEN I_Error(w) ELSE [Ends(w, id) EXCEPT !.activeplats[at] = NULL]

OneWay == {"blazeDWUS", "downWaitUpStay", "raiseAndChange", "raiseToNearestAndChange"}

T_PlatRises(w, id) ==
  LET p == w.mover[id]
      move == T_MovePlane(w, p.sector, p.speed, p.high, p.crush, "floor", 1)
      v == Put(move.level, id, "count", p.wait)
  IN CASE move.res = "crushed" /\ ~p.crush -> Put(v, id, "status", "down")
       [] move.res = "pastdest" /\ p.type \in OneWay -> P_RemoveActivePlat(v, id)
       [] move.res = "pastdest" /\ p.type \notin OneWay -> Put(v, id, "status", "waiting")
       [] OTHER -> move.level

WaitsUncounted(w, id) == \* mutant
  LET p == w.mover[id]
      move == T_MovePlane(w, p.sector, p.speed, p.low, FALSE, "floor", -1)
  IN IF move.res = "pastdest" THEN Put(move.level, id, "status", "waiting") ELSE move.level
T_PlatLowers(w, id) ==
  LET p == w.mover[id]
      move == T_MovePlane(w, p.sector, p.speed, p.low, FALSE, "floor", -1)
  IN IF move.res = "pastdest" THEN Put(Put(move.level, id, "count", p.wait), id, "status", "waiting")
     ELSE move.level

WaitsAtTheWrongEnd(w, id) == \* mutant
  LET p == w.mover[id]
      v == Put(w, id, "count", Down(p.count))
  IN IF p.count # 1 THEN v
     ELSE Put(v, id, "status", IF w.floor[p.sector] = p.low THEN "down" ELSE "up")
T_PlatWaits(w, id) ==
  LET p == w.mover[id]
      v == Put(w, id, "count", Down(p.count))
  IN IF p.count # 1 THEN v
     ELSE Put(v, id, "status", IF w.floor[p.sector] = p.low THEN "up" ELSE "down")

T_PlatRaise(w, id) ==
  CASE w.mover[id].status = "up" -> T_PlatRises(w, id)
    [] w.mover[id].status = "down" -> T_PlatLowers(w, id)
    [] w.mover[id].status = "waiting" -> T_PlatWaits(w, id)
    [] OTHER -> w

P_ActivateInStasis(w, tag) ==
  OnListed(w, w.activeplats, LAMBDA p : p.tag = tag /\ p.status = "in_stasis",
           LAMBDA p : [p EXCEPT !.status = p.oldstatus, !.run = TRUE])

EV_StopPlat(w, line) ==
  OnListed(w, w.activeplats, LAMBDA p : p.tag = line.tag /\ p.status # "in_stasis",
           LAMBDA p : [p EXCEPT !.oldstatus = p.status, !.status = "in_stasis", !.run = FALSE])

\* A platform that only rises keeps the low end Z_Malloc returned.
Plat(w, s, line, type, amount, chance) ==
  LET rises == type \in {"raiseAndChange", "raiseToNearestAndChange"}
  IN [kind |-> "plat", run |-> TRUE, sector |-> s, type |-> type, tag |-> line.tag, crush |-> FALSE,
      speed |-> CASE rises -> PLATSPEED \div SLOW
                  [] type \in {"downWaitUpStay", "blazeDWUS"} -> PLATSPEED * FAST [] OTHER -> PLATSPEED,
      low |-> IF rises THEN chance.garbage ELSE P_FindLowestFloorSurrounding(w, s),
      high |-> CASE type = "raiseToNearestAndChange" -> P_FindNextHighestFloor(w, s, w.floor[s])
                 [] type = "raiseAndChange" -> w.floor[s] + amount
                 [] type = "perpetualRaise" -> Max({w.floor[s], P_FindHighestFloorSurrounding(w, s)})
                 [] OTHER -> w.floor[s],
      wait |-> IF rises THEN 0 ELSE PLATWAIT, count |-> chance.garbage,
      status |-> CASE rises -> "up" [] type = "perpetualRaise" -> chance.status [] OTHER -> "down",
      oldstatus |-> "down", byhand |-> FALSE]

EV_DoPlat(w, line, type, amount, chance) ==
  StartIn(IF type = "perpetualRaise" THEN P_ActivateInStasis(w, line.tag) ELSE w, line,
    LAMBDA v, s :
      LET begun == P_AddActivePlat(Start(v, s, Plat(v, s, line, type, amount, chance)), Fresh(v))
      IN CASE type = "raiseToNearestAndChange" ->
                [begun EXCEPT !.pic[s] = v.pic[line.front], !.special[s] = 0]
           [] type = "raiseAndChange" -> [begun EXCEPT !.pic[s] = v.pic[line.front]]
           [] OTHER -> begun)

\* P_RunThinkers, for the movers: one that has been stopped has no function.
RunsMover(w, id) ==
  IF id \notin DOMAIN w.mover \/ ~w.mover[id].run THEN w
  ELSE CASE w.mover[id].kind = "door" -> T_VerticalDoor(w, id)
         [] w.mover[id].kind = "floor" -> T_MoveFloor(w, id)
         [] w.mover[id].kind = "ceiling" -> T_MoveCeiling(w, id)
         [] w.mover[id].kind = "plat" -> T_PlatRaise(w, id)

RunMovers(w) == FoldLeft(RunsMover, w, SetToSortSeq(DOMAIN w.mover, <))

=============================================================================
