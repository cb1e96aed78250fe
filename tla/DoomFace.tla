------------------------------- MODULE DoomFace -------------------------------
(* The face in the status bar and the colour of the screen (st_stuff.c): what *)
(* happens to the player takes the face for a while, the graver before the    *)
(* lighter, and then it calms down.  Static variables outlive levels.         *)
EXTENDS Integers, FiniteSetsExt

CONSTANTS
  Healths,     \* what the player may have, of 0..200
  DAMAGES, BONUSES, \* what damagecount and bonuscount start at, at most 100
  STRAIGHT, TURN, EVILGRIN, RAMPAGEDELAY, \* tics, scaled down
  MAXHITS      \* how much happens to the player

VARIABLES plyr, face, hits

face_vars == <<plyr, face, hits>>

NUMPAINFACES == 5
FACESTRIDE == 8
TURNOFFSET == 3
OUCHOFFSET == 5
EVILGRINOFFSET == 6
RAMPAGEOFFSET == 7
GODFACE == NUMPAINFACES * FACESTRIDE
DEADFACE == GODFACE + 1
NUMFACES == DEADFACE + 1
MUCHPAIN == 20

(* ----------------------------------------------------------------------- *)
(* The face                                                                 *)
(* ----------------------------------------------------------------------- *)

\* C divides towards zero.
Divided(n, d) == IF n < 0 THEN -((-n) \div d) ELSE n \div d

ST_calcPainOffset(p) == FACESTRIDE * Divided((100 - Min({p.health, 100})) * NUMPAINFACES, 101)

Takes(s, p, priority, count, offset) ==
  [s EXCEPT !.priority = priority, !.facecount = count, !.faceindex = ST_calcPainOffset(p) + offset]

\* Whether the pain is much is asked of the health that came, not that went.
MuchPain(s, p) == p.health - s.oldhealth > MUCHPAIN

Dead(s, p) == IF s.priority < 10 /\ p.health = 0 THEN [s EXCEPT !.priority = 9, !.faceindex = DEADFACE, !.facecount = 1] ELSE s

Grins(s, p) ==
  IF s.priority < 9 /\ p.bonuscount > 0 /\ s.oldweapons # p.weapons
  THEN [Takes(s, p, 8, EVILGRIN, EVILGRINOFFSET) EXCEPT !.oldweapons = p.weapons] ELSE s

\* Towards who attacked, unless that was the player.
Turns(s, p) ==
  IF ~(s.priority < 8 /\ p.damagecount > 0 /\ p.attacker # "none") THEN s
  ELSE Takes(s, p, 7, TURN,
         IF MuchPain(s, p) THEN OUCHOFFSET
         ELSE CASE p.attacker = "ahead" -> RAMPAGEOFFSET
                [] p.attacker = "right" -> TURNOFFSET
                [] p.attacker = "left"  -> TURNOFFSET + 1)

Winces(s, p) ==
  IF ~(s.priority < 7 /\ p.damagecount > 0) THEN s
  ELSE IF MuchPain(s, p) THEN Takes(s, p, 7, TURN, OUCHOFFSET) ELSE Takes(s, p, 6, TURN, RAMPAGEOFFSET)

\* A trigger held for long.
Rages(s, p) ==
  IF s.priority >= 6 THEN s
  ELSE IF ~p.attackdown THEN [s EXCEPT !.lastattackdown = -1]
  ELSE IF s.lastattackdown = -1 THEN [s EXCEPT !.lastattackdown = RAMPAGEDELAY]
  ELSE IF s.lastattackdown # 1 THEN [s EXCEPT !.lastattackdown = @ - 1]
  ELSE [Takes(s, p, 5, 1, RAMPAGEOFFSET) EXCEPT !.lastattackdown = 1]

Shines(s, p) ==
  IF s.priority < 5 /\ p.god THEN [s EXCEPT !.priority = 4, !.faceindex = GODFACE, !.facecount = 1] ELSE s

KeepsPriority(s, p, chance) == \* mutant
  IF s.facecount = 0 THEN [s EXCEPT !.faceindex = ST_calcPainOffset(p) + (chance % 3), !.facecount = STRAIGHT] ELSE s
LooksOnce(s, p, chance) == \* mutant
  CASE s.facecount # 0 -> s
    [] s.facecount = 0 /\ s.priority = 0 -> [s EXCEPT !.facecount = STRAIGHT]
    [] OTHER -> Takes(s, p, 0, STRAIGHT, chance % 3)
Calms(s, p, chance) ==
  IF s.facecount = 0 THEN Takes(s, p, 0, STRAIGHT, chance % 3) ELSE s

ST_updateFaceWidget(s, p, chance) ==
  LET v == Calms(Shines(Rages(Winces(Turns(Grins(Dead(s, p), p), p), p), p), p), p, chance)
  IN [v EXCEPT !.facecount = @ - 1]

ST_Ticker(s, p, chance) == [ST_updateFaceWidget(s, p, chance) EXCEPT !.oldhealth = p.health]

\* What a level begins with; priority, facecount and lastattackdown are kept.
ST_initData(s, p) == [s EXCEPT !.faceindex = 0, !.oldhealth = -1, !.oldweapons = p.weapons]

(* ----------------------------------------------------------------------- *)
(* The palette                                                              *)
(* ----------------------------------------------------------------------- *)

STARTREDPALS == 1
NUMREDPALS == 8
STARTBONUSPALS == 9
NUMBONUSPALS == 4
RADIATIONPAL == 13

Shade(count, first, num) == first + Min({(count + 7) \div 8, num - 1})

ST_doPaletteStuff(p) ==
  LET berserk == IF p.strength > 0 THEN 12 - (p.strength \div 64) ELSE 0
      red == Max({p.damagecount, berserk})
  IN CASE red > 0 -> Shade(red, STARTREDPALS, NUMREDPALS)
       [] red <= 0 /\ p.bonuscount > 0 -> Shade(p.bonuscount, STARTBONUSPALS, NUMBONUSPALS)
       [] red <= 0 /\ p.bonuscount = 0 /\ p.ironfeet -> RADIATIONPAL
       [] OTHER -> 0

(* ----------------------------------------------------------------------- *)
(* The behaviour                                                            *)
(* ----------------------------------------------------------------------- *)

Born == [health |-> 100, weapons |-> 1, damagecount |-> 0, bonuscount |-> 0, attacker |-> "none", attackdown |-> FALSE,
         god |-> FALSE, strength |-> 0, ironfeet |-> FALSE]

FaceInit ==
  /\ plyr = Born /\ hits = 0
  /\ face = [faceindex |-> 0, facecount |-> 0, priority |-> 0, lastattackdown |-> -1, oldhealth |-> -1, oldweapons |-> 1]

Less(n) == Max({n - 1, 0})

\* P_PlayerThink counts the two counts down, and then the status bar ticks.
FaceTic ==
  \E chance \in {0, 2} :
    LET p == [plyr EXCEPT !.damagecount = Less(@), !.bonuscount = Less(@),
                          !.strength = IF @ = 0 THEN 0 ELSE Min({@ + 256, 1024})]
    IN plyr' = p /\ face' = ST_Ticker(face, p, chance) /\ UNCHANGED hits

\* What may happen to the player between two tics.
Befalls(p) == hits < MAXHITS /\ plyr' = p /\ hits' = hits + 1 /\ UNCHANGED face
Alive == plyr.health > 0

Hit == Alive /\ \E h \in Healths, d \in DAMAGES, a \in {"none", "ahead", "left", "right"} :
         h < plyr.health /\ Befalls([plyr EXCEPT !.health = h, !.damagecount = d + 1, !.attacker = a])
Find == Alive /\ \E h \in Healths, b \in BONUSES, w \in {plyr.weapons, 2} :
         h >= plyr.health /\ Befalls([plyr EXCEPT !.health = h, !.bonuscount = b + 1, !.weapons = w])
Press == Alive /\ Befalls([plyr EXCEPT !.attackdown = ~@])
TypesGod == Alive /\ Befalls([plyr EXCEPT !.god = ~@])
Wear == Alive /\ \E w \in {0, 1} : Befalls([plyr EXCEPT !.strength = w, !.ironfeet = w = 0])

\* Reborn in the same level, or in the next.
Start ==
  /\ hits < MAXHITS /\ hits' = hits + 1
  /\ plyr' = IF Alive THEN [plyr EXCEPT !.damagecount = 0, !.bonuscount = 0, !.strength = 0, !.ironfeet = FALSE] ELSE Born
  /\ face' = ST_initData(face, plyr')

FaceNext == FaceTic \/ Hit \/ Find \/ Press \/ TypesGod \/ Wear \/ Start

\* Tics, which alone leave hits as it is, go on as long as they change anything.
Settled == ~Alive /\ face.faceindex = DEADFACE /\ plyr.damagecount = 0 /\ plyr.bonuscount = 0
FaceFairness == []<>Settled \/ []<><<hits' = hits>>_face_vars
FaceSpec == FaceInit /\ [][FaceNext]_face_vars /\ FaceFairness

(* ----------------------------------------------------------------------- *)
(* Properties                                                               *)
(* ----------------------------------------------------------------------- *)

Straight == face.faceindex \in {ST_calcPainOffset(plyr) + n : n \in 0..2}
Stirred == plyr.attackdown \/ plyr.god \/ ~Alive

\* Once nothing happens any more, the face is the one of the health there is.
FaceCalms == <>[](Stirred \/ Straight)

\* Every wound that outlasts a grin shows in the face, whatever moved it before: in an earlier level,
\* by a death or for joy; only a new start leaves it unseen.
Hurt == plyr.damagecount > EVILGRIN + 1 /\ Alive
Plain == face.faceindex < GODFACE /\ face.faceindex % FACESTRIDE < TURNOFFSET
WoundShows == [](Hurt => <>(~Plain \/ (plyr.damagecount = 0 /\ face.oldhealth = -1)))

\* The face follows what happens and calms down.
FaceFollows == FaceCalms /\ WoundShows
=============================================================================
