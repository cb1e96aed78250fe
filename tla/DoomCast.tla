------------------------------ MODULE DoomCast ------------------------------
(* The end of the commercial game (f_finale.c): everybody of the game comes   *)
(* on, walks, strikes and shoots, and dies when a key is pressed.              *)
EXTENDS ThingTables

CONSTANT KEYS \* how many keys go down

VARIABLES cast, pressed

cast_vars == <<cast, pressed>>

castorder == <<"POSSESSED", "SHOTGUY", "CHAINGUY", "TROOP", "SERGEANT", "SKULL", "HEAD", "KNIGHT", "BRUISER",
               "BABY", "PAIN", "UNDEAD", "FATSO", "VILE", "SPIDER", "CYBORG", "PLAYER">>
Shown(n) == mobjinfo[castorder[n]]
CastTics(s) == IF Tics(s) = -1 THEN 15 ELSE Tics(s)

F_StartCast ==
  LET first == First(Shown(1).seestate)
  IN [num |-> 1, state |-> first, tics |-> Tics(first), death |-> FALSE, frames |-> 0, onmelee |-> FALSE, attacking |-> FALSE]

StaysDead(c) == \* mutant
  LET n == IF c.num = Len(castorder) THEN 1 ELSE c.num + 1
  IN IF Tics(c.state) = -1 \/ NextState(c.state) = Null
     THEN [c EXCEPT !.num = n, !.state = First(Shown(n).seestate), !.frames = 0]
     ELSE [c EXCEPT !.state = NextState(c.state), !.frames = @ + 1]
\* Everybody walks twelve frames, strikes or shoots in turn, and dies when told to.
Steps(c) ==
  LET n == IF c.num = Len(castorder) THEN 1 ELSE c.num + 1
  IN IF Tics(c.state) = -1 \/ NextState(c.state) = Null
     THEN [c EXCEPT !.num = n, !.death = FALSE, !.state = First(Shown(n).seestate), !.frames = 0]
     ELSE [c EXCEPT !.state = NextState(c.state), !.frames = @ + 1]
KeepsAttacking(c) == [c EXCEPT !.frames = 0, !.state = First(Shown(c.num).seestate)] \* mutant
StopsAttack(c) == [c EXCEPT !.attacking = FALSE, !.frames = 0, !.state = First(Shown(c.num).seestate)]

Strikes(c) ==
  LET one == IF c.onmelee THEN Shown(c.num).meleestate ELSE Shown(c.num).missilestate
      other == IF c.onmelee THEN Shown(c.num).missilestate ELSE Shown(c.num).meleestate
  IN IF c.frames # 12 THEN c
     ELSE [c EXCEPT !.attacking = TRUE, !.onmelee = ~@, !.state = First(IF one = "NULL" THEN other ELSE one)]

F_CastTicker(c) ==
  IF c.tics > 1 THEN [c EXCEPT !.tics = @ - 1]
  ELSE LET done == Tics(c.state) # -1 /\ NextState(c.state) # Null /\ c.state = First("PLAY_ATK1")
           a == Strikes(Steps(c))
           b == IF done THEN StopsAttack(c)
                ELSE IF a.attacking /\ (a.frames = 24 \/ a.state = First(Shown(a.num).seestate)) THEN StopsAttack(a) ELSE a
       IN [b EXCEPT !.tics = CastTics(b.state)]

F_CastResponder(c) ==
  LET dying == First(Shown(c.num).deathstate)
  IN IF c.death THEN c ELSE [c EXCEPT !.death = TRUE, !.state = dying, !.tics = Tics(dying), !.frames = 0, !.attacking = FALSE]

CastInit == cast = F_StartCast /\ pressed = 0
CastTic == cast' = F_CastTicker(cast) /\ UNCHANGED pressed
CastKey == pressed < KEYS /\ cast' = F_CastResponder(cast) /\ pressed' = pressed + 1
CastNext == CastTic \/ CastKey
CastSpec == CastInit /\ [][CastNext]_cast_vars /\ WF_cast_vars(CastTic)

\* Who is killed makes room for the next one, and who strikes walks on.
DeadMakeRoom == cast.death ~> ~cast.death
AttackEnds == cast.attacking ~> ~cast.attacking

\* Everybody gets a turn.
CastGoesOn == DeadMakeRoom /\ AttackEnds
=============================================================================
