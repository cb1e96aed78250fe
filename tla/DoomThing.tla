----------------------------- MODULE DoomThing -----------------------------
(***************************************************************************)
(* One thing of the game, of any kind, from its spawning to its removal:   *)
(* P_SetMobjState and the thinker of p_mobj.c, the actions of p_enemy.c    *)
(* its states run, and what the other things do to it (p_inter.c,          *)
(* p_map.c). The tables are ThingTables.                                   *)
(*                                                                         *)
(* P_SetMobjState runs the action of the state it enters, the action may   *)
(* call it again, and the loop of the outer call goes on afterwards, so    *)
(* what is left to run is kept as a stack of calls, `todo'. Where the      *)
(* thing is, what it can see and what P_Random returns are choices.        *)
(***************************************************************************)
EXTENDS ThingTables, FiniteSets

CONSTANT Types          \* the kinds of thing looked at
ASSUME TypesAssumption == Types \subseteq DOMAIN mobjinfo

VARIABLES mo,           \* the thing (mobj_t)
          todo,         \* calls still to run for it, the innermost first
          past          \* what happened to it, a subset of Events
Events == {"announced", "crushed", "respawned", "loaded", "fault"}
thingVars == <<mo, todo, past>>

\* The flags that decide something below; the others only steer its movement.
Tracked == {"SOLID", "SHOOTABLE", "MISSILE", "SKULLFLY", "CORPSE", "JUSTHIT", "JUSTATTACKED"}

info      == mobjinfo[mo.type]
Is(f)     == f \in mo.flags
Removed   == mo.state = Null
Dead      == mo.health = "dead"
Idle      == todo = <<>>

\* Calls that can be pending.
SetState(anim) == <<"SetMobjState", First(anim)>>
Clamp          == <<"Clamp">>
Add(f)         == <<"Add", f>>
Drop(f)        == <<"Drop", f>>

\* An action's outcome: the thing after its own assignments, and the calls it makes.
Out(m, calls) == [mo |-> m, calls |-> calls]
Nothing(m)    == {Out(m, <<>>)}

-----------------------------------------------------------------------------
(* The actions of p_enemy.c, as the outcomes they can have for the thing    *)
(* that runs them.                                                          *)

\* Some player may be found; then the target is alive.
P_LookForPlayers(m) == {[m EXCEPT !.target = "alive"]}

\* A sound or a player wakes it; an ambusher only notes a target it cannot see.
WakesBlind(m) == {Out(m, <<SetState(mobjinfo[m.type].seestate)>>)}   \* mutant
A_Look(m) ==
    LET calm == [m EXCEPT !.threshold = FALSE]
        seen == [calm EXCEPT !.target = "alive"]
    IN {Out(calm, <<>>), Out(seen, <<>>), Out(seen, <<SetState(mobjinfo[m.type].seestate)>>)}

\* The target is in sight and in range; one just hit fires back at once.
P_CheckMissileRange(m) == {[m EXCEPT !.flags = @ \ {"JUSTHIT"}]}

A_Chase(m0) ==
    LET kind  == mobjinfo[m0.type]
        calms == IF ~m0.threshold THEN {m0}
                 ELSE IF m0.target # "alive" THEN {[m0 EXCEPT !.threshold = FALSE]}
                 ELSE {m0, [m0 EXCEPT !.threshold = FALSE]}
        Chase(m) ==
            IF m.target # "alive" THEN
                 {Out(n, <<>>) : n \in P_LookForPlayers(m)}
                   \cup {Out(m, <<SetState(kind.spawnstate)>>)}
            ELSE IF "JUSTATTACKED" \in m.flags THEN
                 Nothing([m EXCEPT !.flags = @ \ {"JUSTATTACKED"}])
            ELSE Nothing(m)                                       \* walks, or picks another target
                   \cup {Out(m, <<SetState(kind.meleestate)>>) : s \in {kind.meleestate} \ {"NULL"}}
                   \cup {Out(n, <<SetState(kind.missilestate), Add("JUSTATTACKED")>>) :
                            n \in IF kind.missilestate = "NULL" THEN {} ELSE P_CheckMissileRange(m)}
    IN UNION {Chase(m) : m \in calms}

\* A strike or a bullet hits the target or not. A missile is thrown at the target's place,
\* with a flight time that is divided by its speed (P_SpawnMissile).
Fault(m)       == {Out(m, <<<<"Fault">>>>)}
Strike(m)      == Nothing(m) \cup Nothing([m EXCEPT !.target = IF @ = "alive" THEN "dead" ELSE @])
Throw(m, kind) == IF m.target = "none" \/ mobjinfo[kind].speed = 0 THEN Fault(m) ELSE Nothing(m)

\* Most attacks look whether there is a target; A_FatAttack1..3, A_BFGSpray and A_Fire do not.
A_PosAttack(m)   == IF m.target = "none" THEN Nothing(m) ELSE Strike(m)
A_SPosAttack(m)  == IF m.target = "none" THEN Nothing(m) ELSE Strike(m)
A_CPosAttack(m)  == IF m.target = "none" THEN Nothing(m) ELSE Strike(m)
A_SargAttack(m)  == IF m.target = "none" THEN Nothing(m) ELSE Strike(m)
A_SkelFist(m)    == IF m.target = "none" THEN Nothing(m) ELSE Strike(m)
A_TroopAttack(m) == IF m.target = "none" THEN Nothing(m) ELSE Strike(m) \cup Throw(m, "TROOPSHOT")
A_HeadAttack(m)  == IF m.target = "none" THEN Nothing(m) ELSE Strike(m) \cup Throw(m, "HEADSHOT")
A_BruisAttack(m) == IF m.target = "none" THEN Nothing(m) ELSE Strike(m) \cup Throw(m, "BRUISERSHOT")
A_BspiAttack(m)  == IF m.target = "none" THEN Nothing(m) ELSE Throw(m, "ARACHPLAZ")
A_CyberAttack(m) == IF m.target = "none" THEN Nothing(m) ELSE Throw(m, "ROCKET")
A_SkelMissile(m) == IF m.target = "none" THEN Nothing(m) ELSE Throw(m, "TRACER")
A_FatAttack1(m)  == Throw(m, "FATSHOT")
A_FatAttack2(m)  == Throw(m, "FATSHOT")
A_FatAttack3(m)  == Throw(m, "FATSHOT")

\* The fire follows what its arch-vile aims at, the ball's rays start at its shooter.
A_Fire(m)     == IF m.type = "FIRE" /\ m.target = "none" THEN Fault(m) ELSE Nothing(m)
A_BFGSpray(m) == IF m.target = "none" THEN Fault(m) ELSE Nothing(m)

\* Firing goes on while the target lives and is in sight.
Refire(m) == IF m.target = "alive" THEN Nothing(m) \cup {Out(m, <<SetState(mobjinfo[m.type].seestate)>>)}
             ELSE {Out(m, <<>>), Out(m, <<SetState(mobjinfo[m.type].seestate)>>)}
A_CPosRefire(m) == Refire(m)
A_SpidRefire(m) == Refire(m)

\* The lost soul charges; the pain elemental lets one fly, and three when it dies.
A_SkullAttack(m) == Nothing(IF m.target = "none" THEN m
                            ELSE [m EXCEPT !.flags = @ \cup {"SKULLFLY"}])
A_PainAttack(m)  == Nothing(m)
StaysSolid(m) == Nothing(m)   \* mutant
A_Fall(m)        == Nothing([m EXCEPT !.flags = @ \ {"SOLID"}])
A_PainDie(m)     == A_Fall(m)

\* The arch-vile raises a corpse, or chases; its fire may reach itself.
A_VileChase(m)  == {Out(m, <<SetState("VILE_HEAL1")>>)} \cup A_Chase(m)
A_VileAttack(m) == IF m.target = "none" THEN Nothing(m)
                   ELSE Strike(m) \cup {Out(m, <<<<"Damage", "self">>>>)}

\* What these do to the thing itself is nothing; the end of a boss is told to the level.
Announce(m)    == {Out(m, <<<<"Announce">>>>)}
A_BossDeath(m) == Announce(m)
FallsInSilence(m) == A_Fall(m)   \* mutant
A_KeenDie(m)   == {Out(o.mo, <<<<"Announce">>>>) : o \in A_Fall(m)}
A_BrainDie(m)  == Announce(m)

\* The cube flies until its reaction time is over, then a monster takes its place.
A_SpawnFly(m) == Nothing(m) \cup {Out(m, <<<<"Remove">>>>)}

Action(name, m) ==
    CASE name = "A_Look"        -> A_Look(m)
      [] name \in {"A_Chase", "A_Hoof", "A_Metal", "A_BabyMetal"} -> A_Chase(m)
      [] name = "A_PosAttack"   -> A_PosAttack(m)
      [] name = "A_SPosAttack"  -> A_SPosAttack(m)
      [] name = "A_CPosAttack"  -> A_CPosAttack(m)
      [] name = "A_TroopAttack" -> A_TroopAttack(m)
      [] name = "A_SargAttack"  -> A_SargAttack(m)
      [] name = "A_HeadAttack"  -> A_HeadAttack(m)
      [] name = "A_BruisAttack" -> A_BruisAttack(m)
      [] name = "A_SkelFist"    -> A_SkelFist(m)
      [] name = "A_BspiAttack"  -> A_BspiAttack(m)
      [] name = "A_CyberAttack" -> A_CyberAttack(m)
      [] name = "A_SkelMissile" -> A_SkelMissile(m)
      [] name = "A_FatAttack1"  -> A_FatAttack1(m)
      [] name = "A_FatAttack2"  -> A_FatAttack2(m)
      [] name = "A_FatAttack3"  -> A_FatAttack3(m)
      [] name \in {"A_Fire", "A_StartFire", "A_FireCrackle"} -> A_Fire(m)
      [] name = "A_BFGSpray"    -> A_BFGSpray(m)
      [] name = "A_CPosRefire"  -> A_CPosRefire(m)
      [] name = "A_SpidRefire"  -> A_SpidRefire(m)
      [] name = "A_SkullAttack" -> A_SkullAttack(m)
      [] name = "A_PainAttack"  -> A_PainAttack(m)
      [] name = "A_PainDie"     -> A_PainDie(m)
      [] name = "A_Fall"        -> A_Fall(m)
      [] name = "A_VileChase"   -> A_VileChase(m)
      [] name = "A_VileAttack"  -> A_VileAttack(m)
      [] name = "A_BossDeath"   -> A_BossDeath(m)
      [] name = "A_KeenDie"     -> A_KeenDie(m)
      [] name = "A_BrainDie"    -> A_BrainDie(m)
      [] name \in {"A_SpawnFly", "A_SpawnSound"} -> A_SpawnFly(m)
      [] OTHER                  -> Nothing(m)    \* sounds, A_FaceTarget, A_Explode, A_BrainSpit, ...

-----------------------------------------------------------------------------
(* The calls.                                                               *)

Call(name)  == ~Idle /\ todo[1][1] = name
Rest        == Tail(todo)
Flags(fs)   == [mo EXCEPT !.flags = fs]

P_RemoveMobj(m) == [m EXCEPT !.state = Null]

\* One round of P_SetMobjState: the state is entered and its action run; then the loop
\* looks at the tics the thing has by then.
KeepsTics ==   \* mutant
    /\ Call("SetMobjState")
    /\ LET s == todo[1][2] IN
       IF s = Null THEN mo' = P_RemoveMobj(mo) /\ todo' = Rest
       ELSE \E o \in Action(ActionOf(s), [mo EXCEPT !.state = s]) :
               mo' = o.mo /\ todo' = o.calls \o Rest
    /\ UNCHANGED past
P_SetMobjState ==
    /\ Call("SetMobjState")
    /\ LET s == todo[1][2] IN
       IF s = Null THEN mo' = P_RemoveMobj(mo) /\ todo' = Rest
       ELSE \E o \in Action(ActionOf(s), [mo EXCEPT !.state = s, !.tics = Tics(s)]) :
               /\ mo' = o.mo
               /\ todo' = o.calls \o <<<<"While", NextState(s)>>>> \o Rest
    /\ UNCHANGED past
While ==
    /\ Call("While")
    /\ todo' = IF mo.tics = 0 THEN <<<<"SetMobjState", todo[1][2]>>>> \o Rest ELSE Rest
    /\ UNCHANGED <<mo, past>>

\* tics -= P_Random()&3; if (tics < 1) tics = 1
ShortenTics ==
    /\ Call("Clamp")
    /\ \E r \in 0..3 : mo' = [mo EXCEPT !.tics = IF mo.tics - r < 1 THEN 1 ELSE mo.tics - r]
    /\ todo' = Rest
    /\ UNCHANGED past
SetFlag ==
    /\ Call("Add") \/ Call("Drop")
    /\ mo' = Flags(IF Call("Add") THEN mo.flags \cup {todo[1][2]} ELSE mo.flags \ {todo[1][2]})
    /\ todo' = Rest
    /\ UNCHANGED past
\* The fault of an action: it follows a null target, or divides by a speed of 0.
Faulting ==
    /\ Call("Fault")
    /\ past' = past \cup {"fault"} /\ todo' = Rest
    /\ UNCHANGED mo
Removal ==
    /\ Call("Remove")
    /\ mo' = P_RemoveMobj(mo) /\ todo' = Rest
    /\ UNCHANGED past
Announcement ==
    /\ Call("Announce")
    /\ past' = past \cup {"announced"} /\ todo' = Rest
    /\ UNCHANGED mo

P_ExplodeMissile(kind) == <<SetState(kind.deathstate), Clamp, Drop("MISSILE")>>

\* The thing is killed: it can be walked over and shot through only when its death
\* animation says so, unless it is a player.
StillFlying ==   \* mutant
    /\ Call("KillMobj")
    /\ mo' = [mo EXCEPT !.flags = (@ \ {"SHOOTABLE"}) \cup {"CORPSE"}, !.health = "dead"]
    /\ todo' = <<SetState(info.deathstate), Clamp>> \o Rest
    /\ UNCHANGED past
TornWithoutState ==   \* mutant
    /\ Call("KillMobj")
    /\ mo' = [mo EXCEPT !.flags = (@ \ {"SHOOTABLE", "SKULLFLY"}) \cup {"CORPSE"}, !.health = "dead"]
    /\ \E anim \in {info.deathstate, info.xdeathstate} : todo' = <<SetState(anim), Clamp>> \o Rest
    /\ UNCHANGED past
P_KillMobj ==
    /\ Call("KillMobj")
    /\ LET off == {"SHOOTABLE", "SKULLFLY"} \cup (IF mo.type = "PLAYER" THEN {"SOLID"} ELSE {})
       IN mo' = [mo EXCEPT !.flags = (@ \ off) \cup {"CORPSE"}, !.health = "dead"]
    /\ \E anim \in {info.deathstate} \cup ({info.xdeathstate} \ {"NULL"}) :
          todo' = <<SetState(anim), Clamp>> \o Rest
    /\ UNCHANGED past

\* The thing is damaged by nobody, by itself or by another: it dies, it feels pain or it
\* does not, and it may turn on who did it.
P_DamageMobj ==
    /\ Call("Damage")
    /\ IF ~Is("SHOOTABLE") \/ Dead THEN todo' = Rest /\ UNCHANGED mo
       ELSE LET turn == <<<<"Retarget", todo[1][2]>>>> IN
            \/ todo' = <<<<"KillMobj">>>> \o Rest /\ UNCHANGED mo
            \/ /\ info.painchance > 0 /\ ~Is("SKULLFLY")
               /\ mo' = Flags(mo.flags \cup {"JUSTHIT"})
               /\ todo' = <<SetState(info.painstate)>> \o turn \o Rest
            \/ /\ info.painchance < 256 \/ Is("SKULLFLY")
               /\ todo' = turn \o Rest /\ UNCHANGED mo
    /\ UNCHANGED past

\* The end of P_DamageMobj.
Retarget ==
    /\ Call("Retarget")
    /\ IF todo[1][2] = "other" /\ (~mo.threshold \/ mo.type = "VILE")
       THEN /\ mo' = [mo EXCEPT !.target = "alive", !.threshold = TRUE]
            /\ todo' = IF mo.state = First(info.spawnstate) /\ info.seestate # "NULL"
                       THEN <<SetState(info.seestate)>> \o Rest ELSE Rest
       ELSE UNCHANGED mo /\ todo' = Rest
    /\ UNCHANGED past

EverythingRespawns == mo' = P_RemoveMobj(mo) /\ past' = past \cup {"respawned"}   \* mutant
P_NightmareRespawn ==
    /\ "COUNTKILL" \in info.flags
    /\ mo' = P_RemoveMobj(mo) /\ past' = past \cup {"respawned"}

\* The thinker's countdown, after its movement. A thing that rests may be spawned anew on
\* nightmare skill, if it counts as a kill and enough time is over.
CountTics ==
    /\ Call("CountTics")
    /\ IF Removed THEN todo' = Rest /\ UNCHANGED <<mo, past>>
       ELSE IF mo.tics # -1 THEN
            /\ mo' = [mo EXCEPT !.tics = @ - 1]
            /\ todo' = IF mo.tics = 1 THEN <<<<"SetMobjState", NextState(mo.state)>>>> \o Rest ELSE Rest
            /\ UNCHANGED past
       ELSE /\ todo' = Rest
            /\ \/ UNCHANGED <<mo, past>>
               \/ P_NightmareRespawn


-----------------------------------------------------------------------------
(* The thinker.                                                             *)

\* P_XYMovement and P_ZMovement, as far as they change more than the place: a missile hits
\* something or a sky, one that clips nothing never does; a charging soul hits something
\* (PIT_CheckThing) or comes to rest, and either way stops charging.
P_XYMovement ==
    {<<>>}
    \cup (IF Is("MISSILE") /\ "NOCLIP" \notin info.flags
          THEN {P_ExplodeMissile(info), <<<<"Remove">>>>} ELSE {})
    \cup (IF Is("SKULLFLY") THEN {<<Drop("SKULLFLY"), SetState(info.spawnstate)>>} ELSE {})
P_ZMovement ==
    {<<>>} \cup (IF Is("MISSILE") /\ "NOCLIP" \notin info.flags THEN {P_ExplodeMissile(info)} ELSE {})

P_MobjThinker ==
    /\ Idle /\ ~Removed
    /\ \E moves \in P_XYMovement \cup P_ZMovement : todo' = moves \o <<<<"CountTics">>>>
    /\ UNCHANGED <<mo, past>>

-----------------------------------------------------------------------------
(* What the rest of the game does to the thing.                             *)

\* A shot, a blast, a charge or a crusher hurts it; only what is shot has a source.
Hurt ==
    /\ Idle /\ ~Removed /\ Is("SHOOTABLE")
    /\ \E source \in {"nobody", "other"} : todo' = <<<<"Damage", source>>>>
    /\ UNCHANGED <<mo, past>>

\* A ceiling or floor closes on it: what is dead becomes a pool of blood, and what a monster
\* dropped when it died (P_KillMobj) is gone.
Dropped == {"CLIP", "SHOTGUN", "CHAINGUN"}
PIT_ChangeSector ==
    /\ Idle /\ ~Removed
    /\ \/ Dead /\ todo' = <<SetState("GIBS"), Drop("SOLID")>> /\ past' = past \cup {"crushed"}
       \/ ~Dead /\ mo.type \in Dropped /\ todo' = <<<<"Remove">>>> /\ UNCHANGED past
    /\ UNCHANGED mo

\* A player takes it.
P_TouchSpecialThing ==
    /\ Idle /\ ~Removed /\ "SPECIAL" \in info.flags
    /\ todo' = <<<<"Remove">>>>
    /\ UNCHANGED <<mo, past>>

\* An arch-vile raises it: the raising state is entered first, then it is whole again.
PIT_VileCheck == Is("CORPSE") /\ mo.tics = -1 /\ info.raisestate # "NULL"
Raise ==
    /\ Idle /\ ~Removed /\ PIT_VileCheck
    /\ todo' = <<SetState(info.raisestate), <<"Revive">>>>
    /\ UNCHANGED <<mo, past>>
Revive ==
    /\ Call("Revive")
    /\ mo' = [mo EXCEPT !.flags = info.flags \cap Tracked, !.health = "alive", !.target = "none"]
    /\ todo' = Rest
    /\ past' = past \ {"announced", "crushed"}

\* Its target dies, or is raised or born again.
TargetChanges ==
    /\ Idle /\ ~Removed /\ mo.target # "none"
    /\ mo' = [mo EXCEPT !.target = IF @ = "alive" THEN "dead" ELSE "alive"]
    /\ UNCHANGED <<todo, past>>

\* The player's body follows his weapon and his feet (p_pspr.c, p_user.c), while he lives.
PlayerPoses ==
    /\ Idle /\ ~Removed /\ mo.type = "PLAYER" /\ ~Dead
    /\ \E anim \in {"PLAY_ATK1", "PLAY_ATK2"}
                    \cup (IF mo.state = First("PLAY") THEN {"PLAY_RUN1"} ELSE {})
                    \cup (IF mo.state[1] \in {"PLAY_RUN1", "PLAY_ATK1", "PLAY_ATK2"} THEN {"PLAY"} ELSE {}) :
          todo' = <<SetState(anim)>>
    /\ UNCHANGED <<mo, past>>

\* The game is saved and loaded (p_saveg.c): everything but the target comes back.
Load ==
    /\ Idle /\ ~Removed /\ "loaded" \notin past
    /\ mo' = [mo EXCEPT !.target = "none"]
    /\ past' = past \cup {"loaded"}
    /\ UNCHANGED todo

-----------------------------------------------------------------------------
(* Spawning.                                                                *)

P_SpawnMobj(kind) ==
    [type |-> kind, state |-> First(mobjinfo[kind].spawnstate),
     tics |-> Tics(First(mobjinfo[kind].spawnstate)), flags |-> mobjinfo[kind].flags \cap Tracked,
     health |-> "alive", target |-> "none", threshold |-> FALSE]

\* A thing of the map starts somewhere in its first state.
P_SpawnMapThing(kind) ==
    LET m == P_SpawnMobj(kind) IN
    {<<[m EXCEPT !.tics = t], <<>>>> : t \in IF m.tics > 0 THEN 1..m.tics ELSE {m.tics}}

\* A missile knows who threw it; it may hit something at once.
P_CheckMissileSpawn(kind) ==
    LET m == [P_SpawnMobj(kind) EXCEPT !.target = "alive"]
    IN {<<m, <<Clamp>>>>}
       \cup (IF "NOCLIP" \in mobjinfo[kind].flags THEN {}
             ELSE {<<m, <<Clamp>> \o P_ExplodeMissile(mobjinfo[kind])>>})

\* Puffs and blood start in a later state when the blow was weak.
P_SpawnPuff  == {<<P_SpawnMobj("PUFF"), <<Clamp>>>>, <<P_SpawnMobj("PUFF"), <<Clamp, SetState("PUFF3")>>>>}
P_SpawnBlood == {<<P_SpawnMobj("BLOOD"), <<Clamp>> \o calls>> :
                    calls \in {<<>>, <<SetState("BLOOD2")>>, <<SetState("BLOOD3")>>}}

\* A rocket that only bursts, when the icon of sin dies.
A_BrainExplode == {<<P_SpawnMobj("ROCKET"), <<SetState("BRAINEXPLODE1"), Clamp>>>>}

\* A lost soul leaves its pain elemental charging at the other's target, or dies there.
A_PainShootSkull ==
    {<<P_SpawnMobj("SKULL"), <<<<"KillMobj">>>>>>,
     <<[P_SpawnMobj("SKULL") EXCEPT !.target = "alive", !.flags = @ \cup {"SKULLFLY"}], <<>>>>}

\* The fire of an arch-vile.
OwnerlessFire == {<<P_SpawnMobj("FIRE"), <<>>>>}   \* mutant
A_VileTarget == {<<[P_SpawnMobj("FIRE") EXCEPT !.target = "alive"], <<>>>>}

\* A monster that comes out of a cube is awake if it sees a player.
A_SpawnedMonster(kind) ==
    {<<P_SpawnMobj(kind), <<>>>>,
     <<[P_SpawnMobj(kind) EXCEPT !.target = "alive"], <<SetState(mobjinfo[kind].seestate)>>>>}
Spawned == {"TROOP", "SERGEANT", "SHADOWS", "PAIN", "HEAD", "VILE", "UNDEAD", "BABY", "FATSO",
            "KNIGHT", "BRUISER"}

Births(kind) ==
    IF "MISSILE" \in mobjinfo[kind].flags
    THEN P_CheckMissileSpawn(kind) \cup (IF kind = "ROCKET" THEN A_BrainExplode ELSE {})
    ELSE CASE kind = "PUFF"  -> P_SpawnPuff
           [] kind = "BLOOD" -> P_SpawnBlood
           [] kind = "SKULL" -> P_SpawnMapThing(kind) \cup A_PainShootSkull
           [] kind = "FIRE"  -> A_VileTarget
           [] kind \in Spawned -> P_SpawnMapThing(kind) \cup A_SpawnedMonster(kind)
           [] OTHER -> P_SpawnMapThing(kind)

ThingInit ==
    /\ past = {}
    /\ \E kind \in Types : \E b \in Births(kind) : mo = b[1] /\ todo = b[2]

Calls ==
    P_SetMobjState \/ While \/ ShortenTics \/ SetFlag \/ Removal \/ Announcement \/ Faulting
    \/ P_KillMobj \/ P_DamageMobj \/ Retarget \/ CountTics \/ Revive
ThingNext ==
    \/ Calls \/ P_MobjThinker
    \/ Hurt \/ PIT_ChangeSector \/ P_TouchSpecialThing \/ Raise \/ TargetChanges \/ PlayerPoses \/ Load

\* Calls return, and the thinkers run every tic.
ThingFairness == WF_thingVars(Calls) /\ WF_thingVars(P_MobjThinker)
ThingSpec == ThingInit /\ [][ThingNext]_thingVars /\ ThingFairness

-----------------------------------------------------------------------------
(* Properties.                                                              *)

Between == Idle /\ ~Removed        \* the thing exists and none of its calls is running

\* A call of P_SetMobjState from an action it runs never nests without end: A_Chase and
\* A_Look call each other, and the stack of the processor is small.
NestingIsBounded == Len(todo) <= 5

\* Once a thing is dead, none of its states chases, looks, strikes or shoots until it is
\* raised, whatever the moment of its death.
Fights == {"A_Look", "A_Chase", "A_Hoof", "A_Metal", "A_BabyMetal", "A_VileChase", "A_VileAttack",
           "A_SkullAttack", "A_PainAttack", "A_PosAttack", "A_SPosAttack", "A_CPosAttack",
           "A_TroopAttack", "A_SargAttack", "A_HeadAttack", "A_BruisAttack", "A_SkelFist",
           "A_BspiAttack", "A_CyberAttack", "A_SkelMissile", "A_FatAttack1", "A_FatAttack2",
           "A_FatAttack3", "A_CPosRefire", "A_SpidRefire"}
DeadDoNotFight == Between /\ Dead => ActionOf(mo.state) \notin Fights

\* What lies there dead can be walked over, and shots pass: every death animation drops
\* SOLID on its way, a crusher does, and the icon of sin is the only one that keeps it.
CorpseIsPassable ==
    Between /\ Dead /\ mo.tics = -1 =>
        "SHOOTABLE" \notin mo.flags /\ ("SOLID" \in mo.flags => mo.type = "BOSSBRAIN")

\* What lives can be hit and blocks the way again, also after it was raised: no corpse's flag
\* stays with it.
LivingIsWhole ==
    Between /\ ~Dead => ({"SOLID", "SHOOTABLE"} \cap info.flags) \subseteq mo.flags
                         /\ "CORPSE" \notin mo.flags

\* A monster that can see never freezes in a state that lasts for ever while it lives: pain,
\* a strike, a charge or a healing always leads back to a state that acts.
NeverFrozen ==
    Between /\ ~Dead /\ info.seestate # "NULL" /\ mo.type # "PLAYER" => mo.tics # -1

\* The thinker takes every counted thing at rest for a corpse that may be spawned anew on
\* nightmare skill; the hanging Keen is the only one that rests alive.
OnlyTheDeadRespawn ==
    Removed /\ "respawned" \in past => Dead \/ mo.type = "KEEN"

\* A counted monster leaves the level by no other way, but for the pain elemental, whose
\* death ends in nothing.
MonstersAreNotLost ==
    Removed /\ "COUNTKILL" \in info.flags => "respawned" \in past \/ (Dead /\ mo.type = "PAIN")

\* The end of a boss is told to the level by the time it lies still, unless a crusher took
\* its body on the way.
Announcers == {"A_BossDeath", "A_KeenDie", "A_BrainDie"}
Bosses == {kind \in Types : \E a \in Announcers :
              a \in {states[mobjinfo[kind].deathstate].acts[i] :
                        i \in DOMAIN states[mobjinfo[kind].deathstate].acts}}
BossEndIsTold ==
    Between /\ Dead /\ mo.tics = -1 /\ mo.type \in Bosses => past \cap {"announced", "crushed"} # {}

\* An attack that does not look for a target has one, unless a saved game was loaded in the
\* middle of it: P_UnArchiveThinkers drops every target.
TargetIsThere == "fault" \in past => "loaded" \in past

\* A death animation ends: the thing lies still, is gone, or was raised.
DeathEnds == (~Removed /\ Dead) ~> (Removed \/ ~Dead \/ mo.tics = -1)

\* What only bursts, smokes or splashes is gone in the end.
Effects == {"PUFF", "BLOOD", "TFOG", "IFOG", "SMOKE", "FIRE", "SPAWNFIRE", "EXTRABFG"}
EffectEnds ==
    (~Removed /\ Idle /\ (mo.type \in Effects \/ ("MISSILE" \in info.flags /\ ~Is("MISSILE")))) ~> Removed


\* Deaths and effects come to their end.
ThingEnds == DeathEnds /\ EffectEnds
=============================================================================
