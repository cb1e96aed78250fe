---------------------------- MODULE ThingTables ----------------------------
(***************************************************************************)
(* The two tables that drive every thing of the game (doom/src/info.c):    *)
(* states[], the animations, and mobjinfo[], the kinds of thing. A row of  *)
(* states[] names the row that follows it; rows that only follow each      *)
(* other are kept together here as one animation, named after its first    *)
(* row, so that a state is <<animation, position>>. Sprites, frames,       *)
(* sounds, radius and height are left out; names lose their S_, MT_ and    *)
(* MF_ prefixes.                                                           *)
(***************************************************************************)
EXTENDS Integers, Sequences, TLC

\* n times x: a run of equal entries of a table.
Each(n, x) == [i \in 1..n |-> x]

\* An animation: how long each of its states lasts (-1: for ever), the action each runs
\* when it is entered ("none" for no action), and the animation that follows the last one.
Chain(tics, acts, next) == [tics |-> tics, acts |-> acts, next |-> next]
Anim(name, tics, acts, next) == name :> Chain(tics, acts, next)
Pose(name, tics, next) == Anim(name, tics, Each(Len(tics), "none"), next)
Still(names) == [name \in names |-> [tics |-> <<-1>>, acts |-> <<"none">>, next |-> "NULL"]]

\* A kind of thing: its number on the map, health, reaction time, chance of pain (of 256),
\* speed, mass, damage and flags, and the animations it starts in when it is spawned, sees
\* a target, is hurt, strikes, shoots, dies, is torn apart, and is raised.
Info(name, doomednum, spawnhealth, reactiontime, painchance, speed, mass, damage, flags, anims) ==
    name :> [doomednum |-> doomednum, spawnhealth |-> spawnhealth,
             reactiontime |-> reactiontime, painchance |-> painchance, speed |-> speed,
             mass |-> mass, damage |-> damage, flags |-> flags,
             spawnstate |-> anims[1], seestate |-> anims[2], painstate |-> anims[3],
             meleestate |-> anims[4], missilestate |-> anims[5], deathstate |-> anims[6],
             xdeathstate |-> anims[7], raisestate |-> anims[8]]

\* What is only there to be looked at or picked up: it has no animation but the first.
Prop(name, doomednum, spawnstate, flags) ==
    Info(name, doomednum, 1000, 8, 0, 0, 100, 0, flags, <<spawnstate>> \o Each(7, "NULL"))

\* The sets of flags most kinds have.
Monster     == {"SOLID", "SHOOTABLE", "COUNTKILL"}
Shot        == {"NOBLOCKMAP", "MISSILE", "DROPOFF", "NOGRAVITY"}
Item        == {"SPECIAL"}
CountedItem == {"SPECIAL", "COUNTITEM"}

-----------------------------------------------------------------------------
(* states[] *)

WeaponStates ==
    [LIGHTDONE |-> Chain(<<0>>, <<"A_Light0">>, "NULL"),
     PUNCH |-> Chain(<<1>>, <<"A_WeaponReady">>, "PUNCH"),
     PUNCHDOWN |-> Chain(<<1>>, <<"A_Lower">>, "PUNCHDOWN"),
     PUNCHUP |-> Chain(<<1>>, <<"A_Raise">>, "PUNCHUP"),
     PUNCH1 |-> Chain(<<4, 4, 5, 4, 5>>, <<"none", "A_Punch", "none", "none", "A_ReFire">>, "PUNCH"),
     PISTOL |-> Chain(<<1>>, <<"A_WeaponReady">>, "PISTOL"),
     PISTOLDOWN |-> Chain(<<1>>, <<"A_Lower">>, "PISTOLDOWN"),
     PISTOLUP |-> Chain(<<1>>, <<"A_Raise">>, "PISTOLUP"),
     PISTOL1 |-> Chain(<<4, 6, 4, 5>>, <<"none", "A_FirePistol", "none", "A_ReFire">>, "PISTOL"),
     PISTOLFLASH |-> Chain(<<7>>, <<"A_Light1">>, "LIGHTDONE"),
     SGUN |-> Chain(<<1>>, <<"A_WeaponReady">>, "SGUN"),
     SGUNDOWN |-> Chain(<<1>>, <<"A_Lower">>, "SGUNDOWN"),
     SGUNUP |-> Chain(<<1>>, <<"A_Raise">>, "SGUNUP"),
     SGUN1 |-> Chain(<<3, 7, 5, 5, 4, 5, 5, 3, 7>>, <<"none", "A_FireShotgun", "none", "none", "none", "none", "none", "none", "A_ReFire">>, "SGUN"),
     SGUNFLASH1 |-> Chain(<<4, 3>>, <<"A_Light1", "A_Light2">>, "LIGHTDONE"),
     DSGUN |-> Chain(<<1>>, <<"A_WeaponReady">>, "DSGUN"),
     DSGUNDOWN |-> Chain(<<1>>, <<"A_Lower">>, "DSGUNDOWN"),
     DSGUNUP |-> Chain(<<1>>, <<"A_Raise">>, "DSGUNUP"),
     DSGUN1 |-> Chain(<<3, 7, 7, 7, 7, 7, 7, 6, 6, 5>>, <<"none", "A_FireShotgun2", "none", "A_CheckReload", "A_OpenShotgun2", "none",
         "A_LoadShotgun2", "none", "A_CloseShotgun2", "A_ReFire">>, "DSGUN"),
     DSNR1 |-> Chain(<<7, 3>>, <<"none", "none">>, "DSGUNDOWN"),
     DSGUNFLASH1 |-> Chain(<<5, 4>>, <<"A_Light1", "A_Light2">>, "LIGHTDONE"),
     CHAIN |-> Chain(<<1>>, <<"A_WeaponReady">>, "CHAIN"),
     CHAINDOWN |-> Chain(<<1>>, <<"A_Lower">>, "CHAINDOWN"),
     CHAINUP |-> Chain(<<1>>, <<"A_Raise">>, "CHAINUP"),
     CHAIN1 |-> Chain(<<4, 4, 0>>, <<"A_FireCGun", "A_FireCGun", "A_ReFire">>, "CHAIN"),
     CHAINFLASH1 |-> Chain(<<5>>, <<"A_Light1">>, "LIGHTDONE"),
     CHAINFLASH2 |-> Chain(<<5>>, <<"A_Light2">>, "LIGHTDONE"),
     MISSILE |-> Chain(<<1>>, <<"A_WeaponReady">>, "MISSILE"),
     MISSILEDOWN |-> Chain(<<1>>, <<"A_Lower">>, "MISSILEDOWN"),
     MISSILEUP |-> Chain(<<1>>, <<"A_Raise">>, "MISSILEUP"),
     MISSILE1 |-> Chain(<<8, 12, 0>>, <<"A_GunFlash", "A_FireMissile", "A_ReFire">>, "MISSILE"),
     MISSILEFLASH1 |-> Chain(<<3, 4, 4, 4>>, <<"A_Light1", "none", "A_Light2", "A_Light2">>, "LIGHTDONE"),
     SAW |-> Chain(<<4, 4>>, <<"A_WeaponReady", "A_WeaponReady">>, "SAW"),
     SAWDOWN |-> Chain(<<1>>, <<"A_Lower">>, "SAWDOWN"),
     SAWUP |-> Chain(<<1>>, <<"A_Raise">>, "SAWUP"),
     SAW1 |-> Chain(<<4, 4, 0>>, <<"A_Saw", "A_Saw", "A_ReFire">>, "SAW"),
     PLASMA |-> Chain(<<1>>, <<"A_WeaponReady">>, "PLASMA"),
     PLASMADOWN |-> Chain(<<1>>, <<"A_Lower">>, "PLASMADOWN"),
     PLASMAUP |-> Chain(<<1>>, <<"A_Raise">>, "PLASMAUP"),
     PLASMA1 |-> Chain(<<3, 20>>, <<"A_FirePlasma", "A_ReFire">>, "PLASMA"),
     PLASMAFLASH1 |-> Chain(<<4>>, <<"A_Light1">>, "LIGHTDONE"),
     PLASMAFLASH2 |-> Chain(<<4>>, <<"A_Light1">>, "LIGHTDONE"),
     BFG |-> Chain(<<1>>, <<"A_WeaponReady">>, "BFG"),
     BFGDOWN |-> Chain(<<1>>, <<"A_Lower">>, "BFGDOWN"),
     BFGUP |-> Chain(<<1>>, <<"A_Raise">>, "BFGUP"),
     BFG1 |-> Chain(<<20, 10, 10, 20>>, <<"A_BFGsound", "A_GunFlash", "A_FireBFG", "A_ReFire">>, "BFG"),
     BFGFLASH1 |-> Chain(<<11, 6>>, <<"A_Light1", "A_Light2">>, "LIGHTDONE"),
     NULL |-> Chain(<<-1>>, <<"none">>, "NULL")]

EffectStates ==
    Pose("BLOOD1", <<8>>, "BLOOD2") @@ Pose("BLOOD2", <<8>>, "BLOOD3") @@
    Pose("BLOOD3", <<8>>, "NULL") @@ Pose("PUFF1", <<4, 4>>, "PUFF3") @@
    Pose("PUFF3", <<4, 4>>, "NULL") @@ Pose("TBALL1", <<4, 4>>, "TBALL1") @@
    Pose("TBALLX1", Each(3, 6), "NULL") @@ Pose("RBALL1", <<4, 4>>, "RBALL1") @@
    Pose("RBALLX1", Each(3, 6), "NULL") @@ Pose("PLASBALL", <<6, 6>>, "PLASBALL") @@
    Pose("PLASEXP", Each(5, 4), "NULL") @@ Pose("ROCKET", <<1>>, "ROCKET") @@
    Pose("BFGSHOT", <<4, 4>>, "BFGSHOT") @@
    Anim("BFGLAND", Each(6, 8), <<"none", "none", "A_BFGSpray">> \o Each(3, "none"), "NULL") @@
    Pose("BFGEXP", Each(4, 8), "NULL") @@
    Anim("EXPLODE1", <<8, 6, 4>>, <<"A_Explode", "none", "none">>, "NULL") @@
    Pose("TFOG", Each(12, 6), "NULL") @@ Pose("IFOG", Each(7, 6), "NULL") @@
    Pose("PLAY_RUN1", Each(4, 4), "PLAY_RUN1") @@ Pose("PLAY_ATK1", <<12>>, "PLAY") @@
    Pose("PLAY_ATK2", <<6>>, "PLAY_ATK1") @@ Anim("PLAY_PAIN", <<4, 4>>, <<"none", "A_Pain">>, "PLAY") @@
    Anim("PLAY_DIE1", Each(6, 10), <<"none", "A_PlayerScream", "A_Fall">> \o Each(3, "none"), "PLAY_DIE7") @@
    Anim("PLAY_XDIE1", Each(8, 5), <<"none", "A_XScream", "A_Fall">> \o Each(5, "none"), "PLAY_XDIE9") @@
    Still({"PLAY", "PLAY_DIE7", "PLAY_XDIE9"})

ZombieStates ==
    Anim("POSS_STND", <<10, 10>>, <<"A_Look", "A_Look">>, "POSS_STND") @@
    Anim("POSS_RUN1", Each(8, 4), Each(8, "A_Chase"), "POSS_RUN1") @@
    Anim("POSS_ATK1", <<10>>, <<"A_FaceTarget">>, "POSS_ATK2") @@
    Anim("POSS_ATK2", <<8, 8>>, <<"A_PosAttack", "none">>, "POSS_RUN1") @@
    Anim("POSS_PAIN", <<3, 3>>, <<"none", "A_Pain">>, "POSS_RUN1") @@
    Anim("POSS_DIE1", Each(4, 5), <<"none", "A_Scream", "A_Fall", "none">>, "POSS_DIE5") @@
    Anim("POSS_XDIE1", Each(8, 5) \o <<-1>>, <<"none", "A_XScream", "A_Fall">> \o Each(6, "none"), "NULL") @@
    Pose("POSS_RAISE1", Each(4, 5), "POSS_RUN1") @@
    Anim("SPOS_STND", <<10, 10>>, <<"A_Look", "A_Look">>, "SPOS_STND") @@
    Anim("SPOS_RUN1", Each(8, 3), Each(8, "A_Chase"), "SPOS_RUN1") @@
    Anim("SPOS_ATK1", <<10>>, <<"A_FaceTarget">>, "SPOS_ATK2") @@
    Anim("SPOS_ATK2", <<10, 10>>, <<"A_SPosAttack", "none">>, "SPOS_RUN1") @@
    Anim("SPOS_PAIN", <<3, 3>>, <<"none", "A_Pain">>, "SPOS_RUN1") @@
    Anim("SPOS_DIE1", Each(4, 5), <<"none", "A_Scream", "A_Fall", "none">>, "SPOS_DIE5") @@
    Anim("SPOS_XDIE1", Each(8, 5) \o <<-1>>, <<"none", "A_XScream", "A_Fall">> \o Each(6, "none"), "NULL") @@
    Pose("SPOS_RAISE1", Each(5, 5), "SPOS_RUN1") @@ Still({"POSS_DIE5", "SPOS_DIE5"})

VileStates ==
    Anim("VILE_STND", <<10, 10>>, <<"A_Look", "A_Look">>, "VILE_STND") @@
    Anim("VILE_RUN1", Each(12, 2), Each(12, "A_VileChase"), "VILE_RUN1") @@
    Anim("VILE_ATK1", <<0>>, <<"A_VileStart">>, "VILE_ATK2") @@
    Anim("VILE_ATK2", <<10>> \o Each(8, 8) \o <<20>>, <<"A_FaceTarget", "A_VileTarget">> \o Each(6,
        "A_FaceTarget") \o <<"A_VileAttack", "none">>, "VILE_RUN1") @@
    Pose("VILE_HEAL1", Each(3, 10), "VILE_RUN1") @@
    Anim("VILE_PAIN", <<5, 5>>, <<"none", "A_Pain">>, "VILE_RUN1") @@
    Anim("VILE_DIE1", Each(7, 7) \o <<5, 5, -1>>, <<"none", "A_Scream", "A_Fall">> \o Each(7, "none"), "NULL")
        @@
    Anim("FIRE1", Each(30, 2), <<"A_StartFire">> \o Each(3, "A_Fire") \o <<"A_FireCrackle">> \o Each(13,
        "A_Fire") \o <<"A_FireCrackle">> \o Each(11, "A_Fire"), "NULL")

RevenantStates ==
    Pose("SMOKE1", Each(5, 4), "NULL") @@
    Anim("TRACER", <<2, 2>>, <<"A_Tracer", "A_Tracer">>, "TRACER") @@
    Pose("TRACEEXP1", <<8, 6, 4>>, "NULL") @@
    Anim("SKEL_STND", <<10, 10>>, <<"A_Look", "A_Look">>, "SKEL_STND") @@
    Anim("SKEL_RUN1", Each(12, 2), Each(12, "A_Chase"), "SKEL_RUN1") @@
    Anim("SKEL_FIST1", <<0>>, <<"A_FaceTarget">>, "SKEL_FIST2") @@
    Anim("SKEL_FIST2", <<6, 6>>, <<"A_SkelWhoosh", "A_FaceTarget">>, "SKEL_FIST4") @@
    Anim("SKEL_FIST4", <<6>>, <<"A_SkelFist">>, "SKEL_RUN1") @@
    Anim("SKEL_MISS1", <<0>>, <<"A_FaceTarget">>, "SKEL_MISS2") @@
    Anim("SKEL_MISS2", Each(3, 10), <<"A_FaceTarget", "A_SkelMissile", "A_FaceTarget">>, "SKEL_RUN1") @@
    Anim("SKEL_PAIN", <<5, 5>>, <<"none", "A_Pain">>, "SKEL_RUN1") @@
    Anim("SKEL_DIE1", Each(5, 7) \o <<-1>>, <<"none", "none", "A_Scream", "A_Fall", "none", "none">>, "NULL") @@
    Pose("SKEL_RAISE1", Each(6, 5), "SKEL_RUN1")

MancubusStates ==
    Pose("FATSHOT1", <<4, 4>>, "FATSHOT1") @@ Pose("FATSHOTX1", <<8, 6, 4>>, "NULL") @@
    Anim("FATT_STND", <<15, 15>>, <<"A_Look", "A_Look">>, "FATT_STND") @@
    Anim("FATT_RUN1", Each(12, 4), Each(12, "A_Chase"), "FATT_RUN1") @@
    Anim("FATT_ATK1", <<20>>, <<"A_FatRaise">>, "FATT_ATK2") @@
    Anim("FATT_ATK2", <<10, 5, 5>>, <<"A_FatAttack1", "A_FaceTarget", "A_FaceTarget">>, "FATT_ATK5") @@
    Anim("FATT_ATK5", <<10, 5, 5>>, <<"A_FatAttack2", "A_FaceTarget", "A_FaceTarget">>, "FATT_ATK8") @@
    Anim("FATT_ATK8", <<10, 5, 5>>, <<"A_FatAttack3", "A_FaceTarget", "A_FaceTarget">>, "FATT_RUN1") @@
    Anim("FATT_PAIN", <<3, 3>>, <<"none", "A_Pain">>, "FATT_RUN1") @@
    Anim("FATT_DIE1", Each(9, 6) \o <<-1>>, <<"none", "A_Scream", "A_Fall">> \o Each(6, "none") \o
        <<"A_BossDeath">>, "NULL") @@
    Pose("FATT_RAISE1", Each(8, 5), "FATT_RUN1") @@
    Anim("CPOS_STND", <<10, 10>>, <<"A_Look", "A_Look">>, "CPOS_STND") @@
    Anim("CPOS_RUN1", Each(8, 3), Each(8, "A_Chase"), "CPOS_RUN1") @@
    Anim("CPOS_ATK1", <<10>>, <<"A_FaceTarget">>, "CPOS_ATK2") @@
    Anim("CPOS_ATK2", <<4>>, <<"A_CPosAttack">>, "CPOS_ATK3") @@
    Anim("CPOS_ATK3", <<4>>, <<"A_CPosAttack">>, "CPOS_ATK4") @@
    Anim("CPOS_ATK4", <<1>>, <<"A_CPosRefire">>, "CPOS_ATK2") @@
    Anim("CPOS_PAIN", <<3, 3>>, <<"none", "A_Pain">>, "CPOS_RUN1") @@
    Anim("CPOS_DIE1", Each(6, 5) \o <<-1>>, <<"none", "A_Scream", "A_Fall">> \o Each(4, "none"), "NULL") @@
    Anim("CPOS_XDIE1", Each(5, 5) \o <<-1>>, <<"none", "A_XScream", "A_Fall">> \o Each(3, "none"), "NULL") @@
    Pose("CPOS_RAISE1", Each(7, 5), "CPOS_RUN1")

ImpStates ==
    Anim("TROO_STND", <<10, 10>>, <<"A_Look", "A_Look">>, "TROO_STND") @@
    Anim("TROO_RUN1", Each(8, 3), Each(8, "A_Chase"), "TROO_RUN1") @@
    Anim("TROO_ATK1", <<8, 8>>, <<"A_FaceTarget", "A_FaceTarget">>, "TROO_ATK3") @@
    Anim("TROO_ATK3", <<6>>, <<"A_TroopAttack">>, "TROO_RUN1") @@
    Anim("TROO_PAIN", <<2, 2>>, <<"none", "A_Pain">>, "TROO_RUN1") @@
    Anim("TROO_DIE1", <<8, 8, 6, 6>>, <<"none", "A_Scream", "none", "A_Fall">>, "TROO_DIE5") @@
    Anim("TROO_XDIE1", Each(7, 5) \o <<-1>>, <<"none", "A_XScream", "none", "A_Fall">> \o Each(4, "none"), "NULL")
        @@
    Pose("TROO_RAISE1", <<8, 8>> \o Each(3, 6), "TROO_RUN1") @@
    Anim("SARG_STND", <<10, 10>>, <<"A_Look", "A_Look">>, "SARG_STND") @@
    Anim("SARG_RUN1", Each(8, 2), Each(8, "A_Chase"), "SARG_RUN1") @@
    Anim("SARG_ATK1", <<8>>, <<"A_FaceTarget">>, "SARG_ATK2") @@
    Anim("SARG_ATK2", <<8, 8>>, <<"A_FaceTarget", "A_SargAttack">>, "SARG_RUN1") @@
    Pose("SARG_PAIN", <<2>>, "SARG_PAIN2") @@ Anim("SARG_PAIN2", <<2>>, <<"A_Pain">>, "SARG_RUN1") @@
    Anim("SARG_DIE1", <<8, 8>> \o Each(3, 4), <<"none", "A_Scream", "none", "A_Fall", "none">>, "SARG_DIE6") @@
    Pose("SARG_RAISE1", Each(6, 5), "SARG_RUN1") @@
    Anim("HEAD_STND", <<10>>, <<"A_Look">>, "HEAD_STND") @@
    Anim("HEAD_RUN1", <<3>>, <<"A_Chase">>, "HEAD_RUN1") @@
    Anim("HEAD_ATK1", <<5>>, <<"A_FaceTarget">>, "HEAD_ATK2") @@
    Anim("HEAD_ATK2", <<5, 5>>, <<"A_FaceTarget", "A_HeadAttack">>, "HEAD_RUN1") @@
    Anim("HEAD_PAIN", <<3, 3, 6>>, <<"none", "A_Pain", "none">>, "HEAD_RUN1") @@
    Anim("HEAD_DIE1", Each(5, 8), <<"none", "A_Scream", "none", "none", "A_Fall">>, "HEAD_DIE6") @@
    Pose("HEAD_RAISE1", Each(6, 8), "HEAD_RUN1") @@ Still({"TROO_DIE5", "SARG_DIE6", "HEAD_DIE6"})

BaronStates ==
    Pose("BRBALL1", <<4, 4>>, "BRBALL1") @@ Pose("BRBALLX1", Each(3, 6), "NULL") @@
    Anim("BOSS_STND", <<10, 10>>, <<"A_Look", "A_Look">>, "BOSS_STND") @@
    Anim("BOSS_RUN1", Each(8, 3), Each(8, "A_Chase"), "BOSS_RUN1") @@
    Anim("BOSS_ATK1", <<8>>, <<"A_FaceTarget">>, "BOSS_ATK2") @@
    Anim("BOSS_ATK2", <<8, 8>>, <<"A_FaceTarget", "A_BruisAttack">>, "BOSS_RUN1") @@
    Anim("BOSS_PAIN", <<2, 2>>, <<"none", "A_Pain">>, "BOSS_RUN1") @@
    Anim("BOSS_DIE1", Each(6, 8) \o <<-1>>, <<"none", "A_Scream", "none", "A_Fall", "none", "none", "A_BossDeath">>,
        "NULL") @@
    Pose("BOSS_RAISE1", Each(7, 8), "BOSS_RUN1") @@
    Anim("BOS2_STND", <<10, 10>>, <<"A_Look", "A_Look">>, "BOS2_STND") @@
    Anim("BOS2_RUN1", Each(8, 3), Each(8, "A_Chase"), "BOS2_RUN1") @@
    Anim("BOS2_ATK1", <<8>>, <<"A_FaceTarget">>, "BOS2_ATK2") @@
    Anim("BOS2_ATK2", <<8, 8>>, <<"A_FaceTarget", "A_BruisAttack">>, "BOS2_RUN1") @@
    Anim("BOS2_PAIN", <<2, 2>>, <<"none", "A_Pain">>, "BOS2_RUN1") @@
    Anim("BOS2_DIE1", Each(6, 8) \o <<-1>>, <<"none", "A_Scream", "none", "A_Fall">> \o Each(3, "none"), "NULL") @@
    Pose("BOS2_RAISE1", Each(7, 8), "BOS2_RUN1") @@
    Anim("SKULL_STND", <<10, 10>>, <<"A_Look", "A_Look">>, "SKULL_STND") @@
    Anim("SKULL_RUN1", <<6, 6>>, <<"A_Chase", "A_Chase">>, "SKULL_RUN1") @@
    Anim("SKULL_ATK1", <<10>>, <<"A_FaceTarget">>, "SKULL_ATK2") @@
    Anim("SKULL_ATK2", <<4>>, <<"A_SkullAttack">>, "SKULL_ATK3") @@
    Pose("SKULL_ATK3", <<4, 4>>, "SKULL_ATK3") @@
    Anim("SKULL_PAIN", <<3, 3>>, <<"none", "A_Pain">>, "SKULL_RUN1") @@
    Anim("SKULL_DIE1", Each(5, 6), <<"none", "A_Scream", "none", "A_Fall", "none">>, "SKULL_DIE6") @@
    Pose("SKULL_DIE6", <<6>>, "NULL")

SpiderStates ==
    Anim("SPID_STND", <<10, 10>>, <<"A_Look", "A_Look">>, "SPID_STND") @@
    Anim("SPID_RUN1", Each(12, 3), <<"A_Metal">> \o Each(3, "A_Chase") \o <<"A_Metal">> \o Each(3,
        "A_Chase") \o <<"A_Metal">> \o Each(3, "A_Chase"), "SPID_RUN1") @@
    Anim("SPID_ATK1", <<20>>, <<"A_FaceTarget">>, "SPID_ATK2") @@
    Anim("SPID_ATK2", <<4>>, <<"A_SPosAttack">>, "SPID_ATK3") @@
    Anim("SPID_ATK3", <<4, 1>>, <<"A_SPosAttack", "A_SpidRefire">>, "SPID_ATK2") @@
    Anim("SPID_PAIN", <<3, 3>>, <<"none", "A_Pain">>, "SPID_RUN1") @@
    Anim("SPID_DIE1", <<20>> \o Each(8, 10) \o <<30, -1>>, <<"A_Scream", "A_Fall">> \o Each(8, "none") \o
        <<"A_BossDeath">>, "NULL") @@
    Anim("BSPI_STND", <<10, 10>>, <<"A_Look", "A_Look">>, "BSPI_STND") @@
    Pose("BSPI_SIGHT", <<20>>, "BSPI_RUN1") @@
    Anim("BSPI_RUN1", Each(12, 3), <<"A_BabyMetal">> \o Each(5, "A_Chase") \o <<"A_BabyMetal">> \o
        Each(5, "A_Chase"), "BSPI_RUN1") @@
    Anim("BSPI_ATK1", <<20>>, <<"A_FaceTarget">>, "BSPI_ATK2") @@
    Anim("BSPI_ATK2", <<4, 4, 1>>, <<"A_BspiAttack", "none", "A_SpidRefire">>, "BSPI_ATK2") @@
    Anim("BSPI_PAIN", <<3, 3>>, <<"none", "A_Pain">>, "BSPI_RUN1") @@
    Anim("BSPI_DIE1", <<20>> \o Each(5, 7) \o <<-1>>, <<"A_Scream", "A_Fall">> \o Each(4, "none") \o
        <<"A_BossDeath">>, "NULL") @@
    Pose("BSPI_RAISE1", Each(7, 5), "BSPI_RUN1") @@ Pose("ARACH_PLAZ", <<5, 5>>, "ARACH_PLAZ") @@
    Pose("ARACH_PLEX", Each(5, 5), "NULL")

CyberdemonStates ==
    Anim("CYBER_STND", <<10, 10>>, <<"A_Look", "A_Look">>, "CYBER_STND") @@
    Anim("CYBER_RUN1", Each(8, 3), <<"A_Hoof">> \o Each(5, "A_Chase") \o <<"A_Metal", "A_Chase">>,
        "CYBER_RUN1") @@
    Anim("CYBER_ATK1", <<6>>, <<"A_FaceTarget">>, "CYBER_ATK2") @@
    Anim("CYBER_ATK2", <<12, 12>>, <<"A_CyberAttack", "A_FaceTarget">>, "CYBER_ATK4") @@
    Anim("CYBER_ATK4", <<12, 12>>, <<"A_CyberAttack", "A_FaceTarget">>, "CYBER_ATK6") @@
    Anim("CYBER_ATK6", <<12>>, <<"A_CyberAttack">>, "CYBER_RUN1") @@
    Anim("CYBER_PAIN", <<10>>, <<"A_Pain">>, "CYBER_RUN1") @@
    Anim("CYBER_DIE1", Each(8, 10) \o <<30, -1>>, <<"none", "A_Scream">> \o Each(3, "none") \o <<"A_Fall">> \o
        Each(3, "none") \o <<"A_BossDeath">>, "NULL") @@
    Anim("PAIN_STND", <<10>>, <<"A_Look">>, "PAIN_STND") @@
    Anim("PAIN_RUN1", Each(6, 3), Each(6, "A_Chase"), "PAIN_RUN1") @@
    Anim("PAIN_ATK1", <<5, 5>>, <<"A_FaceTarget", "A_FaceTarget">>, "PAIN_ATK3") @@
    Anim("PAIN_ATK3", <<5, 0>>, <<"A_FaceTarget", "A_PainAttack">>, "PAIN_RUN1") @@
    Anim("PAIN_PAIN", <<6, 6>>, <<"none", "A_Pain">>, "PAIN_RUN1") @@
    Anim("PAIN_DIE1", Each(6, 8), <<"none", "A_Scream", "none", "none", "A_PainDie", "none">>, "NULL") @@
    Pose("PAIN_RAISE1", Each(6, 8), "PAIN_RUN1") @@
    Anim("SSWV_STND", <<10, 10>>, <<"A_Look", "A_Look">>, "SSWV_STND") @@
    Anim("SSWV_RUN1", Each(8, 3), Each(8, "A_Chase"), "SSWV_RUN1") @@
    Anim("SSWV_ATK1", <<10>>, <<"A_FaceTarget">>, "SSWV_ATK2") @@
    Anim("SSWV_ATK2", <<10, 4, 6, 4, 1>>, <<"A_FaceTarget", "A_CPosAttack", "A_FaceTarget",
        "A_CPosAttack", "A_CPosRefire">>, "SSWV_ATK2") @@
    Anim("SSWV_PAIN", <<3, 3>>, <<"none", "A_Pain">>, "SSWV_RUN1") @@
    Anim("SSWV_DIE1", Each(4, 5) \o <<-1>>, <<"none", "A_Scream", "A_Fall", "none", "none">>, "NULL") @@
    Anim("SSWV_XDIE1", Each(8, 5) \o <<-1>>, <<"none", "A_XScream", "A_Fall">> \o Each(6, "none"), "NULL") @@
    Pose("SSWV_RAISE1", Each(5, 5), "SSWV_RUN1")

KeenStates ==
    Pose("KEENSTND", <<-1>>, "KEENSTND") @@
    Anim("COMMKEEN", Each(11, 6) \o <<-1>>, <<"none", "none", "A_Scream">> \o Each(7, "none") \o <<"A_KeenDie",
        "none">>, "NULL") @@
    Anim("KEENPAIN", <<4, 8>>, <<"none", "A_Pain">>, "KEENSTND")

IconStates ==
    Anim("BRAIN_PAIN", <<36>>, <<"A_BrainPain">>, "BRAIN") @@
    Anim("BRAIN_DIE1", <<100, 10, 10, -1>>, <<"A_BrainScream", "none", "none", "A_BrainDie">>, "NULL") @@
    Anim("BRAINEYE", <<10>>, <<"A_Look">>, "BRAINEYE") @@
    Anim("BRAINEYESEE", <<181>>, <<"A_BrainAwake">>, "BRAINEYE1") @@
    Anim("BRAINEYE1", <<150>>, <<"A_BrainSpit">>, "BRAINEYE1") @@
    Anim("SPAWN1", Each(4, 3), <<"A_SpawnSound">> \o Each(3, "A_SpawnFly"), "SPAWN1") @@
    Anim("SPAWNFIRE1", Each(8, 4), Each(8, "A_Fire"), "NULL") @@
    Anim("BRAINEXPLODE1", Each(3, 10), <<"none", "none", "A_BrainExplode">>, "NULL") @@ Still({"BRAIN"})

ItemStates ==
    Pose("ARM1", <<6, 7>>, "ARM1") @@ Pose("ARM2", <<6, 6>>, "ARM2") @@
    Pose("BAR1", <<6, 6>>, "BAR1") @@
    Anim("BEXP", Each(3, 5) \o <<10, 10>>, <<"none", "A_Scream", "none", "A_Explode", "none">>, "NULL") @@
    Pose("BBAR1", Each(3, 4), "BBAR1") @@ Pose("BON1", Each(6, 6), "BON1") @@
    Pose("BON2", Each(6, 6), "BON2") @@ Pose("BKEY", <<10, 10>>, "BKEY") @@
    Pose("RKEY", <<10, 10>>, "RKEY") @@ Pose("YKEY", <<10, 10>>, "YKEY") @@
    Pose("BSKULL", <<10, 10>>, "BSKULL") @@ Pose("RSKULL", <<10, 10>>, "RSKULL") @@
    Pose("YSKULL", <<10, 10>>, "YSKULL") @@ Pose("SOUL", Each(6, 6), "SOUL") @@
    Pose("PINV", Each(4, 6), "PINV") @@ Pose("PINS", Each(4, 6), "PINS") @@
    Pose("MEGA", Each(4, 6), "MEGA") @@ Pose("PMAP", Each(6, 6), "PMAP") @@
    Pose("PVIS", <<6, 6>>, "PVIS") @@
    Still({"STIM", "MEDI", "PSTR", "SUIT", "CLIP", "AMMO", "ROCK", "BROK", "CELL", "CELP", "SHEL",
        "SBOX", "BPAK", "BFUG", "MGUN", "CSAW", "LAUN", "PLAS", "SHOT", "SHOT2"})

DecorationStates ==
    Pose("BLOODYTWITCH", <<10, 15, 8, 6>>, "BLOODYTWITCH") @@
    Pose("HEADCANDLES", <<6, 6>>, "HEADCANDLES") @@ Pose("LIVESTICK", <<6, 8>>, "LIVESTICK") @@
    Pose("EVILEYE", Each(4, 6), "EVILEYE") @@ Pose("FLOATSKULL", Each(3, 6), "FLOATSKULL") @@
    Pose("HEARTCOL", <<14, 14>>, "HEARTCOL") @@ Pose("BLUETORCH", Each(4, 4), "BLUETORCH") @@
    Pose("GREENTORCH", Each(4, 4), "GREENTORCH") @@ Pose("REDTORCH", Each(4, 4), "REDTORCH") @@
    Pose("BTORCHSHRT", Each(4, 4), "BTORCHSHRT") @@ Pose("GTORCHSHRT", Each(4, 4), "GTORCHSHRT") @@
    Pose("RTORCHSHRT", Each(4, 4), "RTORCHSHRT") @@ Pose("TECHLAMP", Each(4, 4), "TECHLAMP") @@
    Pose("TECH2LAMP", Each(4, 4), "TECH2LAMP") @@
    Still({"COLU", "STALAG", "DEADTORSO", "DEADBOTTOM", "HEADSONSTICK", "GIBS", "HEADONASTICK",
        "DEADSTICK", "MEAT2", "MEAT3", "MEAT4", "MEAT5", "STALAGTITE", "TALLGRNCOL", "SHRTGRNCOL",
        "TALLREDCOL", "SHRTREDCOL", "CANDLESTIK", "CANDELABRA", "SKULLCOL", "TORCHTREE", "BIGTREE",
        "TECHPILLAR", "HANGNOGUTS", "HANGBNOBRAIN", "HANGTLOOKDN", "HANGTSKULL", "HANGTLOOKUP",
        "HANGTNOBRAIN", "COLONGIBS", "SMALLPOOL", "BRAINSTEM"})

ThingStates ==
    EffectStates @@ ZombieStates @@ VileStates @@ RevenantStates @@
    MancubusStates @@ ImpStates @@ BaronStates @@ SpiderStates @@ CyberdemonStates @@
    KeenStates @@ IconStates @@ ItemStates @@ DecorationStates

states ==
    [a \in DOMAIN WeaponStates \cup DOMAIN ThingStates |->
       IF a \in DOMAIN WeaponStates THEN WeaponStates[a] ELSE ThingStates[a]]

-----------------------------------------------------------------------------
(* mobjinfo[] *)

Zombies ==
    Info("PLAYER", -1, 100, 0, 255, 0, 100, 0, {"SOLID", "SHOOTABLE", "DROPOFF", "PICKUP", "NOTDMATCH"},
         <<"PLAY", "PLAY_RUN1", "PLAY_PAIN", "NULL", "PLAY_ATK1", "PLAY_DIE1", "PLAY_XDIE1", "NULL">>) @@
    Info("POSSESSED", 3004, 20, 8, 200, 8, 100, 0, Monster,
         <<"POSS_STND", "POSS_RUN1", "POSS_PAIN", "NULL", "POSS_ATK1", "POSS_DIE1", "POSS_XDIE1", "POSS_RAISE1">>) @@
    Info("SHOTGUY", 9, 30, 8, 170, 8, 100, 0, Monster,
         <<"SPOS_STND", "SPOS_RUN1", "SPOS_PAIN", "NULL", "SPOS_ATK1", "SPOS_DIE1", "SPOS_XDIE1", "SPOS_RAISE1">>) @@
    Info("VILE", 64, 700, 8, 10, 15, 500, 0, Monster,
         <<"VILE_STND", "VILE_RUN1", "VILE_PAIN", "NULL", "VILE_ATK1", "VILE_DIE1", "NULL", "NULL">>) @@
    Prop("FIRE", -1, "FIRE1", {"NOBLOCKMAP", "NOGRAVITY"})

RevenantAndMancubus ==
    Info("UNDEAD", 66, 300, 8, 100, 10, 500, 0, Monster,
         <<"SKEL_STND", "SKEL_RUN1", "SKEL_PAIN", "SKEL_FIST1", "SKEL_MISS1", "SKEL_DIE1", "NULL", "SKEL_RAISE1">>) @@
    Info("TRACER", -1, 1000, 8, 0, 10, 100, 10, Shot,
         <<"TRACER", "NULL", "NULL", "NULL", "NULL", "TRACEEXP1", "NULL", "NULL">>) @@
    Prop("SMOKE", -1, "SMOKE1", {"NOBLOCKMAP", "NOGRAVITY"}) @@
    Info("FATSO", 67, 600, 8, 80, 8, 1000, 0, Monster,
         <<"FATT_STND", "FATT_RUN1", "FATT_PAIN", "NULL", "FATT_ATK1", "FATT_DIE1", "NULL", "FATT_RAISE1">>) @@
    Info("FATSHOT", -1, 1000, 8, 0, 20, 100, 8, Shot,
         <<"FATSHOT1", "NULL", "NULL", "NULL", "NULL", "FATSHOTX1", "NULL", "NULL">>)

ImpsAndDemons ==
    Info("CHAINGUY", 65, 70, 8, 170, 8, 100, 0, Monster,
         <<"CPOS_STND", "CPOS_RUN1", "CPOS_PAIN", "NULL", "CPOS_ATK1", "CPOS_DIE1", "CPOS_XDIE1", "CPOS_RAISE1">>) @@
    Info("TROOP", 3001, 60, 8, 200, 8, 100, 0, Monster,
         <<"TROO_STND", "TROO_RUN1", "TROO_PAIN", "TROO_ATK1", "TROO_ATK1", "TROO_DIE1", "TROO_XDIE1", "TROO_RAISE1">>) @@
    Info("SERGEANT", 3002, 150, 8, 180, 10, 400, 0, Monster,
         <<"SARG_STND", "SARG_RUN1", "SARG_PAIN", "SARG_ATK1", "NULL", "SARG_DIE1", "NULL", "SARG_RAISE1">>) @@
    Info("SHADOWS", 58, 150, 8, 180, 10, 400, 0, {"SOLID", "SHOOTABLE", "SHADOW", "COUNTKILL"},
         <<"SARG_STND", "SARG_RUN1", "SARG_PAIN", "SARG_ATK1", "NULL", "SARG_DIE1", "NULL", "SARG_RAISE1">>) @@
    Info("HEAD", 3005, 400, 8, 128, 8, 400, 0, {"SOLID", "SHOOTABLE", "FLOAT", "NOGRAVITY", "COUNTKILL"},
         <<"HEAD_STND", "HEAD_RUN1", "HEAD_PAIN", "NULL", "HEAD_ATK1", "HEAD_DIE1", "NULL", "HEAD_RAISE1">>)

Barons ==
    Info("BRUISER", 3003, 1000, 8, 50, 8, 1000, 0, Monster,
         <<"BOSS_STND", "BOSS_RUN1", "BOSS_PAIN", "BOSS_ATK1", "BOSS_ATK1", "BOSS_DIE1", "NULL", "BOSS_RAISE1">>) @@
    Info("BRUISERSHOT", -1, 1000, 8, 0, 15, 100, 8, Shot,
         <<"BRBALL1", "NULL", "NULL", "NULL", "NULL", "BRBALLX1", "NULL", "NULL">>) @@
    Info("KNIGHT", 69, 500, 8, 50, 8, 1000, 0, Monster,
         <<"BOS2_STND", "BOS2_RUN1", "BOS2_PAIN", "BOS2_ATK1", "BOS2_ATK1", "BOS2_DIE1", "NULL", "BOS2_RAISE1">>) @@
    Info("SKULL", 3006, 100, 8, 256, 8, 50, 3, {"SOLID", "SHOOTABLE", "FLOAT", "NOGRAVITY"},
         <<"SKULL_STND", "SKULL_RUN1", "SKULL_PAIN", "NULL", "SKULL_ATK1", "SKULL_DIE1", "NULL", "NULL">>) @@
    Info("SPIDER", 7, 3000, 8, 40, 12, 1000, 0, Monster,
         <<"SPID_STND", "SPID_RUN1", "SPID_PAIN", "NULL", "SPID_ATK1", "SPID_DIE1", "NULL", "NULL">>)

Commanders ==
    Info("BABY", 68, 500, 8, 128, 12, 600, 0, Monster,
         <<"BSPI_STND", "BSPI_SIGHT", "BSPI_PAIN", "NULL", "BSPI_ATK1", "BSPI_DIE1", "NULL", "BSPI_RAISE1">>) @@
    Info("CYBORG", 16, 4000, 8, 20, 16, 1000, 0, Monster,
         <<"CYBER_STND", "CYBER_RUN1", "CYBER_PAIN", "NULL", "CYBER_ATK1", "CYBER_DIE1", "NULL", "NULL">>) @@
    Info("PAIN", 71, 400, 8, 128, 8, 400, 0, {"SOLID", "SHOOTABLE", "FLOAT", "NOGRAVITY", "COUNTKILL"},
         <<"PAIN_STND", "PAIN_RUN1", "PAIN_PAIN", "NULL", "PAIN_ATK1", "PAIN_DIE1", "NULL", "PAIN_RAISE1">>) @@
    Info("WOLFSS", 84, 50, 8, 170, 8, 100, 0, Monster,
         <<"SSWV_STND", "SSWV_RUN1", "SSWV_PAIN", "NULL", "SSWV_ATK1", "SSWV_DIE1", "SSWV_XDIE1", "SSWV_RAISE1">>) @@
    Info("KEEN", 72, 100, 8, 256, 0, 10000000, 0, {"SOLID", "SPAWNCEILING", "NOGRAVITY", "SHOOTABLE", "COUNTKILL"},
         <<"KEENSTND", "NULL", "KEENPAIN", "NULL", "NULL", "COMMKEEN", "NULL", "NULL">>)

IconOfSin ==
    Info("BOSSBRAIN", 88, 250, 8, 255, 0, 10000000, 0, {"SOLID", "SHOOTABLE"},
         <<"BRAIN", "NULL", "BRAIN_PAIN", "NULL", "NULL", "BRAIN_DIE1", "NULL", "NULL">>) @@
    Info("BOSSSPIT", 89, 1000, 8, 0, 0, 100, 0, {"NOBLOCKMAP", "NOSECTOR"},
         <<"BRAINEYE", "BRAINEYESEE", "NULL", "NULL", "NULL", "NULL", "NULL", "NULL">>) @@
    Prop("BOSSTARGET", 87, "NULL", {"NOBLOCKMAP", "NOSECTOR"}) @@
    Info("SPAWNSHOT", -1, 1000, 8, 0, 10, 100, 3, {"NOBLOCKMAP", "MISSILE", "DROPOFF", "NOGRAVITY", "NOCLIP"},
         <<"SPAWN1", "NULL", "NULL", "NULL", "NULL", "NULL", "NULL", "NULL">>) @@
    Prop("SPAWNFIRE", -1, "SPAWNFIRE1", {"NOBLOCKMAP", "NOGRAVITY"})

BarrelAndShots ==
    Info("BARREL", 2035, 20, 8, 0, 0, 100, 0, {"SOLID", "SHOOTABLE", "NOBLOOD"},
         <<"BAR1", "NULL", "NULL", "NULL", "NULL", "BEXP", "NULL", "NULL">>) @@
    Info("TROOPSHOT", -1, 1000, 8, 0, 10, 100, 3, Shot,
         <<"TBALL1", "NULL", "NULL", "NULL", "NULL", "TBALLX1", "NULL", "NULL">>) @@
    Info("HEADSHOT", -1, 1000, 8, 0, 10, 100, 5, Shot,
         <<"RBALL1", "NULL", "NULL", "NULL", "NULL", "RBALLX1", "NULL", "NULL">>) @@
    Info("ROCKET", -1, 1000, 8, 0, 20, 100, 20, Shot,
         <<"ROCKET", "NULL", "NULL", "NULL", "NULL", "EXPLODE1", "NULL", "NULL">>) @@
    Info("PLASMA", -1, 1000, 8, 0, 25, 100, 5, Shot,
         <<"PLASBALL", "NULL", "NULL", "NULL", "NULL", "PLASEXP", "NULL", "NULL">>)

ShotsAndFog ==
    Info("BFG", -1, 1000, 8, 0, 25, 100, 100, Shot,
         <<"BFGSHOT", "NULL", "NULL", "NULL", "NULL", "BFGLAND", "NULL", "NULL">>) @@
    Info("ARACHPLAZ", -1, 1000, 8, 0, 25, 100, 5, Shot,
         <<"ARACH_PLAZ", "NULL", "NULL", "NULL", "NULL", "ARACH_PLEX", "NULL", "NULL">>) @@
    Prop("PUFF", -1, "PUFF1", {"NOBLOCKMAP", "NOGRAVITY"}) @@
    Prop("BLOOD", -1, "BLOOD1", {"NOBLOCKMAP"}) @@ Prop("TFOG", -1, "TFOG", {"NOBLOCKMAP", "NOGRAVITY"})

FogAndArmor ==
    Prop("IFOG", -1, "IFOG", {"NOBLOCKMAP", "NOGRAVITY"}) @@
    Prop("TELEPORTMAN", 14, "NULL", {"NOBLOCKMAP", "NOSECTOR"}) @@
    Prop("EXTRABFG", -1, "BFGEXP", {"NOBLOCKMAP", "NOGRAVITY"}) @@ Prop("MISC0", 2018, "ARM1", Item) @@
    Prop("MISC1", 2019, "ARM2", Item)

BonusesAndKeys ==
    Prop("MISC2", 2014, "BON1", CountedItem) @@ Prop("MISC3", 2015, "BON2", CountedItem) @@
    Prop("MISC4", 5, "BKEY", {"SPECIAL", "NOTDMATCH"}) @@
    Prop("MISC5", 13, "RKEY", {"SPECIAL", "NOTDMATCH"}) @@
    Prop("MISC6", 6, "YKEY", {"SPECIAL", "NOTDMATCH"})

KeysAndKits ==
    Prop("MISC7", 39, "YSKULL", {"SPECIAL", "NOTDMATCH"}) @@
    Prop("MISC8", 38, "RSKULL", {"SPECIAL", "NOTDMATCH"}) @@
    Prop("MISC9", 40, "BSKULL", {"SPECIAL", "NOTDMATCH"}) @@ Prop("MISC10", 2011, "STIM", Item) @@
    Prop("MISC11", 2012, "MEDI", Item)

Artifacts ==
    Prop("MISC12", 2013, "SOUL", CountedItem) @@ Prop("INV", 2022, "PINV", CountedItem) @@
    Prop("MISC13", 2023, "PSTR", CountedItem) @@ Prop("INS", 2024, "PINS", CountedItem) @@
    Prop("MISC14", 2025, "SUIT", Item)

MapsAndClips ==
    Prop("MISC15", 2026, "PMAP", CountedItem) @@ Prop("MISC16", 2045, "PVIS", CountedItem) @@
    Prop("MEGA", 83, "MEGA", CountedItem) @@ Prop("CLIP", 2007, "CLIP", Item) @@
    Prop("MISC17", 2048, "AMMO", Item)

Ammunition ==
    Prop("MISC18", 2010, "ROCK", Item) @@ Prop("MISC19", 2046, "BROK", Item) @@
    Prop("MISC20", 2047, "CELL", Item) @@ Prop("MISC21", 17, "CELP", Item) @@
    Prop("MISC22", 2008, "SHEL", Item)

Weapons ==
    Prop("MISC23", 2049, "SBOX", Item) @@ Prop("MISC24", 8, "BPAK", Item) @@
    Prop("MISC25", 2006, "BFUG", Item) @@ Prop("CHAINGUN", 2002, "MGUN", Item) @@
    Prop("MISC26", 2005, "CSAW", Item)

MoreWeapons ==
    Prop("MISC27", 2003, "LAUN", Item) @@ Prop("MISC28", 2004, "PLAS", Item) @@
    Prop("SHOTGUN", 2001, "SHOT", Item) @@ Prop("SUPERSHOTGUN", 82, "SHOT2", Item) @@
    Prop("MISC29", 85, "TECHLAMP", {"SOLID"})

Decorations1 ==
    Prop("MISC30", 86, "TECH2LAMP", {"SOLID"}) @@ Prop("MISC31", 2028, "COLU", {"SOLID"}) @@
    Prop("MISC32", 30, "TALLGRNCOL", {"SOLID"}) @@ Prop("MISC33", 31, "SHRTGRNCOL", {"SOLID"}) @@
    Prop("MISC34", 32, "TALLREDCOL", {"SOLID"})

Decorations2 ==
    Prop("MISC35", 33, "SHRTREDCOL", {"SOLID"}) @@ Prop("MISC36", 37, "SKULLCOL", {"SOLID"}) @@
    Prop("MISC37", 36, "HEARTCOL", {"SOLID"}) @@ Prop("MISC38", 41, "EVILEYE", {"SOLID"}) @@
    Prop("MISC39", 42, "FLOATSKULL", {"SOLID"})

Decorations3 ==
    Prop("MISC40", 43, "TORCHTREE", {"SOLID"}) @@ Prop("MISC41", 44, "BLUETORCH", {"SOLID"}) @@
    Prop("MISC42", 45, "GREENTORCH", {"SOLID"}) @@ Prop("MISC43", 46, "REDTORCH", {"SOLID"}) @@
    Prop("MISC44", 55, "BTORCHSHRT", {"SOLID"})

Decorations4 ==
    Prop("MISC45", 56, "GTORCHSHRT", {"SOLID"}) @@ Prop("MISC46", 57, "RTORCHSHRT", {"SOLID"}) @@
    Prop("MISC47", 47, "STALAGTITE", {"SOLID"}) @@ Prop("MISC48", 48, "TECHPILLAR", {"SOLID"}) @@
    Prop("MISC49", 34, "CANDLESTIK", {})

Decorations5 ==
    Prop("MISC50", 35, "CANDELABRA", {"SOLID"}) @@
    Prop("MISC51", 49, "BLOODYTWITCH", {"SOLID", "SPAWNCEILING", "NOGRAVITY"}) @@
    Prop("MISC52", 50, "MEAT2", {"SOLID", "SPAWNCEILING", "NOGRAVITY"}) @@
    Prop("MISC53", 51, "MEAT3", {"SOLID", "SPAWNCEILING", "NOGRAVITY"}) @@
    Prop("MISC54", 52, "MEAT4", {"SOLID", "SPAWNCEILING", "NOGRAVITY"})

Decorations6 ==
    Prop("MISC55", 53, "MEAT5", {"SOLID", "SPAWNCEILING", "NOGRAVITY"}) @@
    Prop("MISC56", 59, "MEAT2", {"SPAWNCEILING", "NOGRAVITY"}) @@
    Prop("MISC57", 60, "MEAT4", {"SPAWNCEILING", "NOGRAVITY"}) @@
    Prop("MISC58", 61, "MEAT3", {"SPAWNCEILING", "NOGRAVITY"}) @@
    Prop("MISC59", 62, "MEAT5", {"SPAWNCEILING", "NOGRAVITY"})

Decorations7 ==
    Prop("MISC60", 63, "BLOODYTWITCH", {"SPAWNCEILING", "NOGRAVITY"}) @@
    Prop("MISC61", 22, "HEAD_DIE6", {}) @@ Prop("MISC62", 15, "PLAY_DIE7", {}) @@
    Prop("MISC63", 18, "POSS_DIE5", {}) @@ Prop("MISC64", 21, "SARG_DIE6", {})

Decorations8 ==
    Prop("MISC65", 23, "SKULL_DIE6", {}) @@ Prop("MISC66", 20, "TROO_DIE5", {}) @@
    Prop("MISC67", 19, "SPOS_DIE5", {}) @@ Prop("MISC68", 10, "PLAY_XDIE9", {}) @@
    Prop("MISC69", 12, "PLAY_XDIE9", {})

Decorations9 ==
    Prop("MISC70", 28, "HEADSONSTICK", {"SOLID"}) @@ Prop("MISC71", 24, "GIBS", {}) @@
    Prop("MISC72", 27, "HEADONASTICK", {"SOLID"}) @@ Prop("MISC73", 29, "HEADCANDLES", {"SOLID"}) @@
    Prop("MISC74", 25, "DEADSTICK", {"SOLID"})

Decorations10 ==
    Prop("MISC75", 26, "LIVESTICK", {"SOLID"}) @@ Prop("MISC76", 54, "BIGTREE", {"SOLID"}) @@
    Prop("MISC77", 70, "BBAR1", {"SOLID"}) @@
    Prop("MISC78", 73, "HANGNOGUTS", {"SOLID", "SPAWNCEILING", "NOGRAVITY"}) @@
    Prop("MISC79", 74, "HANGBNOBRAIN", {"SOLID", "SPAWNCEILING", "NOGRAVITY"})

Decorations11 ==
    Prop("MISC80", 75, "HANGTLOOKDN", {"SOLID", "SPAWNCEILING", "NOGRAVITY"}) @@
    Prop("MISC81", 76, "HANGTSKULL", {"SOLID", "SPAWNCEILING", "NOGRAVITY"}) @@
    Prop("MISC82", 77, "HANGTLOOKUP", {"SOLID", "SPAWNCEILING", "NOGRAVITY"}) @@
    Prop("MISC83", 78, "HANGTNOBRAIN", {"SOLID", "SPAWNCEILING", "NOGRAVITY"}) @@
    Prop("MISC84", 79, "COLONGIBS", {"NOBLOCKMAP"})

Decorations12 ==
    Prop("MISC85", 80, "SMALLPOOL", {"NOBLOCKMAP"}) @@ Prop("MISC86", 81, "BRAINSTEM", {"NOBLOCKMAP"})

mobjinfo ==
    Zombies @@ RevenantAndMancubus @@ ImpsAndDemons @@ Barons @@ Commanders @@ IconOfSin
    @@ BarrelAndShots @@ ShotsAndFog @@ FogAndArmor @@ BonusesAndKeys @@ KeysAndKits @@
    Artifacts @@ MapsAndClips @@ Ammunition @@ Weapons @@ MoreWeapons @@ Decorations1 @@
    Decorations2 @@ Decorations3 @@ Decorations4 @@ Decorations5 @@ Decorations6 @@
    Decorations7 @@ Decorations8 @@ Decorations9 @@ Decorations10 @@ Decorations11 @@
    Decorations12

-----------------------------------------------------------------------------
(* A state is <<animation, position>>. *)

Null == <<"NULL", 1>>
First(anim)   == <<anim, 1>>
Tics(s)       == states[s[1]].tics[s[2]]
ActionOf(s)   == states[s[1]].acts[s[2]]
Repeats(s) == IF s[2] < Len(states[s[1]].tics) THEN <<s[1], s[2] + 1>> ELSE First(s[1])   \* mutant
NextState(s)  == IF s[2] < Len(states[s[1]].tics) THEN <<s[1], s[2] + 1>>
                 ELSE First(states[s[1]].next)
=============================================================================
