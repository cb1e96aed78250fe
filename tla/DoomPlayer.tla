----------------------------- MODULE DoomPlayer -----------------------------
(* A player: what is carried and worn, the weapon in hand and its flash       *)
(* (p_pspr.c), a tic of it (p_user.c), what is touched, what hurts (p_inter.c) *)
(* and what the cheats give (st_stuff.c). Where the player is, and what the    *)
(* shots hit, is left out; figures are scaled down.                           *)
(*                                                                            *)
(* P_SetPsprite runs the actions of the states, and they call it again: what  *)
(* is left to do in a tic is a list of calls, and a step makes the first.     *)
EXTENDS ThingTables, FiniteSetsExt

CONSTANTS
  Kits,        \* how the games begin, and what is touched, asked for, suffered and cheated in them
  maxammo, clipammo, \* by kind of ammunition
  BFGCELLS, DSGUNCELLS, \* 40; what the double shotgun uses, 2
  MAXHEALTH, ARMOR, TOPHEALTH, \* 100 points of health and of armor, and 200
  INVULNTICS, INVISTICS, IRONTICS, INFRATICS, BONUSADD,
  BOTTOM,      \* how many tics a weapon takes to go down
  MAXEVENTS    \* how many things are touched, hits and cheats there are

VARIABLES kit, player, events

player_vars == <<kit, player, events>>

Ammo == {"clip", "shell", "cell", "misl"}
Cards == {"bluecard", "yellowcard", "redcard", "blueskull", "yellowskull", "redskull"}
Powers == {"invulnerability", "invisibility", "infrared", "ironfeet", "strength", "allmap"}

\* d_items.c: up, down, ready, attack and flash of each weapon.
Weapon(ammo, up, down, ready, atk, flash) ==
  [ammo |-> ammo, upstate |-> up, downstate |-> down, readystate |-> ready, atkstate |-> atk, flashstate |-> flash]
weaponinfo ==
  [fist         |-> Weapon("noammo", "PUNCHUP", "PUNCHDOWN", "PUNCH", "PUNCH1", "NULL"),
   pistol       |-> Weapon("clip", "PISTOLUP", "PISTOLDOWN", "PISTOL", "PISTOL1", "PISTOLFLASH"),
   shotgun      |-> Weapon("shell", "SGUNUP", "SGUNDOWN", "SGUN", "SGUN1", "SGUNFLASH1"),
   chaingun     |-> Weapon("clip", "CHAINUP", "CHAINDOWN", "CHAIN", "CHAIN1", "CHAINFLASH1"),
   missile      |-> Weapon("misl", "MISSILEUP", "MISSILEDOWN", "MISSILE", "MISSILE1", "MISSILEFLASH1"),
   plasma       |-> Weapon("cell", "PLASMAUP", "PLASMADOWN", "PLASMA", "PLASMA1", "PLASMAFLASH1"),
   bfg          |-> Weapon("cell", "BFGUP", "BFGDOWN", "BFG", "BFG1", "BFGFLASH1"),
   chainsaw     |-> Weapon("noammo", "SAWUP", "SAWDOWN", "SAW", "SAW1", "NULL"),
   supershotgun |-> Weapon("shell", "DSGUNUP", "DSGUNDOWN", "DSGUN", "DSGUN1", "DSGUNFLASH1")]
Info_(p) == weaponinfo[p.ready]
Arms == DOMAIN weaponinfo

\* What there is to find.
Found(item) ==
  \/ item.is = "ammo" /\ item.kind \in Ammo /\ item.num \in Nat
  \/ item.is = "weapon" /\ item.kind \in Arms /\ item.dropped \in BOOLEAN
  \/ item.is = "armor" /\ item.num \in {1, 2}
  \/ item.is = "body" /\ item.num \in Nat
  \/ item.is = "power" /\ item.kind \in Powers
  \/ item.is = "card" /\ item.kind \in Cards
  \/ item.is \in {"healthbonus", "soul", "armorbonus", "mega", "backpack"}

\* G_PlayerReborn gives everybody a fist and a pistol, and nothing takes them away.
ASSUME KitsAssumption ==
  \A k \in Kits :
    /\ {"fist", "pistol", k.ready} \subseteq k.owned /\ k.owned \subseteq Arms
    /\ k.ammo \in [Ammo -> Nat] /\ \A a \in Ammo : k.ammo[a] <= maxammo[a]
    /\ \A item \in k.items : Found(item)
    /\ k.asked \subseteq Arms /\ k.damages \subseteq Nat
    /\ k.cheats \subseteq {"god", "ammo", "choppers"} \cup Powers
ASSUME FiguresAssumption ==
  /\ maxammo \in [Ammo -> Nat] /\ clipammo \in [Ammo -> Nat]
  /\ {BFGCELLS, DSGUNCELLS, MAXHEALTH, ARMOR, TOPHEALTH, INVISTICS} \subseteq Nat \ {0}
  /\ {INVULNTICS, IRONTICS, INFRATICS, BONUSADD, BOTTOM, MAXEVENTS} \subseteq Nat

(* ----------------------------------------------------------------------- *)
(* The weapon in hand                                                       *)
(* ----------------------------------------------------------------------- *)

\* A call: of P_SetPsprite, of the end of its loop, of one turn of P_MovePsprites, and
\* how P_PlayerThink and P_DeathThink end.
Call(does, which, state) == [do |-> does, which |-> which, state |-> state]
Sets(which, state) == Call("sets", which, state)
Ends(which) == Call("ends", which, Null)
Moves(which) == Call("moves", which, Null)
WearsOff == Call("wears off", "weapon", Null)
Dies == Call("dies", "weapon", Null)

Pushed(p, call) == [p EXCEPT !.calls = <<call>> \o @]
P_SetPsprite(p, which, state) == Pushed(p, Sets(which, state))
Psp(state, tics) == [state |-> state, tics |-> tics]
Hidden == [which \in {"weapon", "flash"} |-> Psp(Null, 0)]

IgnoresOwned(p) == \* mutant
  LET has(kind, n) == p.ammo[kind] >= n
      owns(w) == w \in p.owned
  IN CASE owns("plasma") /\ has("cell", 1) -> "plasma"
       [] owns("supershotgun") /\ has("shell", 3) -> "supershotgun"
       [] has("clip", 1) -> "chaingun"
       [] OTHER -> "fist"
\* Whether a weapon would do, were the one in hand empty. That of the pistol is not looked for.
Serves(p, w) ==
  /\ w \in p.owned \cup {"pistol", "fist"}
  /\ w \in {"plasma", "bfg"} => kit.mode # "shareware"
  /\ w = "supershotgun" => kit.mode = "commercial"
  /\ weaponinfo[w].ammo # "noammo" =>
       p.ammo[weaponinfo[w].ammo] > CASE w = "bfg" -> BFGCELLS [] w = "supershotgun" -> DSGUNCELLS [] OTHER -> 0
Best(p) ==
  LET order == <<"plasma", "supershotgun", "chaingun", "shotgun", "pistol", "chainsaw", "missile", "bfg", "fist">>
  IN order[CHOOSE i \in DOMAIN order : Serves(p, order[i]) /\ \A j \in 1 .. i - 1 : ~Serves(p, order[j])]

Enough(p) ==
  LET count == CASE p.ready = "bfg" -> BFGCELLS [] p.ready = "supershotgun" -> DSGUNCELLS [] OTHER -> 1
  IN Info_(p).ammo = "noammo" \/ p.ammo[Info_(p).ammo] >= count

\* Without enough for the next shot the best other weapon comes up.
P_CheckAmmo(p) ==
  IF Enough(p) THEN p ELSE P_SetPsprite([p EXCEPT !.pending = Best(p)], "weapon", First(Info_(p).downstate))

P_FireWeapon(p) == IF Enough(p) THEN P_SetPsprite(p, "weapon", First(Info_(p).atkstate)) ELSE P_CheckAmmo(p)
P_DropWeapon(p) == P_SetPsprite(p, "weapon", First(Info_(p).downstate))

P_BringUpWeapon(p) ==
  LET up == IF p.pending = "nochange" THEN p.ready ELSE p.pending
  IN P_SetPsprite([p EXCEPT !.pending = "nochange", !.sy = BOTTOM], "weapon", First(weaponinfo[up].upstate))

Attacks(p) == "attack" \in p.cmd

A_WeaponReady(p) ==
  IF p.pending # "nochange" \/ p.health = 0 THEN P_DropWeapon(p)
  ELSE IF ~Attacks(p) THEN [p EXCEPT !.attackdown = FALSE]
  ELSE IF p.attackdown /\ p.ready \in {"missile", "bfg"} THEN p
  ELSE P_FireWeapon([p EXCEPT !.attackdown = TRUE])

A_ReFire(p) ==
  IF Attacks(p) /\ p.pending = "nochange" /\ p.health # 0 THEN P_FireWeapon(p) ELSE P_CheckAmmo(p)
A_CheckReload(p) == P_CheckAmmo(p)

RisesAgain(p) == \* mutant
  LET down == p.sy + 1
  IN IF down < BOTTOM THEN [p EXCEPT !.sy = down]
     ELSE IF p.health = 0 THEN P_SetPsprite([p EXCEPT !.sy = down], "weapon", Null)
     ELSE P_BringUpWeapon([p EXCEPT !.ready = IF p.pending = "nochange" THEN @ ELSE p.pending])
A_Lower(p) ==
  LET down == p.sy + 1
  IN IF down < BOTTOM THEN [p EXCEPT !.sy = down]
     ELSE IF p.playerstate = "dead" THEN [p EXCEPT !.sy = BOTTOM]
     ELSE IF p.health = 0 THEN P_SetPsprite([p EXCEPT !.sy = down], "weapon", Null)
     ELSE P_BringUpWeapon([p EXCEPT !.ready = p.pending])
A_Raise(p) ==
  IF p.sy > 1 THEN [p EXCEPT !.sy = @ - 1] ELSE P_SetPsprite([p EXCEPT !.sy = 0], "weapon", First(Info_(p).readystate))

Uses(p, n) == [p EXCEPT !.ammo[Info_(p).ammo] = @ - n]
Flashes(p) == P_SetPsprite(p, "flash", First(Info_(p).flashstate))

A_GunFlash(p) == Flashes(p)
A_FireMissile(p) == Uses(p, 1)
A_FireBFG(p) == Uses(p, BFGCELLS)
A_FirePlasma(p) == P_SetPsprite(Uses(p, 1), "flash", First(IF "odd" \in p.cmd THEN "PLASMAFLASH2" ELSE "PLASMAFLASH1"))
A_FirePistol(p) == Flashes(Uses(p, 1))
A_FireShotgun(p) == Flashes(Uses(p, 1))
A_FireShotgun2(p) == Flashes(Uses(p, DSGUNCELLS))
A_FireCGun(p) ==
  IF p.ammo[Info_(p).ammo] = 0 THEN p
  ELSE P_SetPsprite(Uses(p, 1), "flash", First(IF p.psprites["weapon"].state[2] = 1 THEN "CHAINFLASH1" ELSE "CHAINFLASH2"))
A_Saw(p) == [p EXCEPT !.justattacked = TRUE]
A_Light(p, n) == [p EXCEPT !.extralight = n]

WeaponAction(p, name) ==
  CASE name = "A_WeaponReady" -> A_WeaponReady(p)
    [] name = "A_Lower"       -> A_Lower(p)
    [] name = "A_Raise"       -> A_Raise(p)
    [] name = "A_ReFire"      -> A_ReFire(p)
    [] name = "A_CheckReload" -> A_CheckReload(p)
    [] name = "A_GunFlash"    -> A_GunFlash(p)
    [] name = "A_FireMissile" -> A_FireMissile(p)
    [] name = "A_FireBFG"     -> A_FireBFG(p)
    [] name = "A_FirePlasma"  -> A_FirePlasma(p)
    [] name = "A_FirePistol"  -> A_FirePistol(p)
    [] name = "A_FireShotgun" -> A_FireShotgun(p)
    [] name = "A_FireShotgun2" -> A_FireShotgun2(p)
    [] name = "A_FireCGun"    -> A_FireCGun(p)
    [] name = "A_Saw"         -> A_Saw(p)
    [] name = "A_Light0"      -> A_Light(p, 0)
    [] name = "A_Light1"      -> A_Light(p, 1)
    [] name = "A_Light2"      -> A_Light(p, 2)
    [] OTHER                  -> p

\* The state's action may set another state; a state of no tics passes at once.
Enters(p, which, state) ==
  IF state = Null THEN [p EXCEPT !.psprites[which] = Psp(Null, 0)]
  ELSE WeaponAction(Pushed([p EXCEPT !.psprites[which] = Psp(state, Tics(state))], Ends(which)), ActionOf(state))
Passes(p, which) ==
  LET s == p.psprites[which]
  IN IF s.state = Null \/ s.tics # 0 THEN p ELSE P_SetPsprite(p, which, NextState(s.state))

MovePsprite(p, which) ==
  LET s == p.psprites[which]
  IN IF s.state = Null \/ s.tics = -1 THEN p
     ELSE IF s.tics = 1 THEN P_SetPsprite(p, which, NextState(s.state)) ELSE [p EXCEPT !.psprites[which].tics = @ - 1]
\* Both move, and then the tic ends.
P_MovePsprites(end) == <<Moves("weapon"), Moves("flash"), end>>

P_SetupPsprites(p) ==
  P_BringUpWeapon([p EXCEPT !.psprites = Hidden, !.pending = p.ready])

(* ----------------------------------------------------------------------- *)
(* What is given                                                            *)
(* ----------------------------------------------------------------------- *)

\* Each gives the player as it is afterwards; what changed nothing stays where it is.
\* Whoever had none of it takes a better weapon in hand.
Takes(p, kind) ==
  CASE kind = "clip" /\ p.ready = "fist" -> IF "chaingun" \in p.owned THEN "chaingun" ELSE "pistol"
    [] kind = "shell" /\ p.ready \in {"fist", "pistol"} /\ "shotgun" \in p.owned -> "shotgun"
    [] kind = "cell" /\ p.ready \in {"fist", "pistol"} /\ "plasma" \in p.owned -> "plasma"
    [] kind = "misl" /\ p.ready = "fist" /\ "missile" \in p.owned -> "missile"
    [] OTHER -> p.pending

P_GiveAmmo(p, kind, num) ==
  LET clips == IF num = 0 THEN clipammo[kind] \div 2 ELSE num * clipammo[kind]
      more == IF kit.baby THEN 2 * clips ELSE clips
  IN IF kind = "noammo" THEN p
     ELSE IF p.ammo[kind] = p.maxammo[kind] THEN p
     ELSE [p EXCEPT !.ammo[kind] = Min({@ + more, p.maxammo[kind]}), !.pending = IF p.ammo[kind] = 0 THEN Takes(p, kind) ELSE @]

P_GiveWeapon(p, weapon, dropped) ==
  LET v == P_GiveAmmo(p, weaponinfo[weapon].ammo, IF dropped THEN 1 ELSE 2)
  IN IF weapon \in p.owned THEN v ELSE [v EXCEPT !.owned = @ \cup {weapon}, !.pending = weapon]

P_GiveBody(p, num) ==
  IF p.health >= MAXHEALTH THEN p
  ELSE LET h == Min({p.health + num, MAXHEALTH}) IN [p EXCEPT !.health = h, !.mohealth = h]
P_GiveArmor(p, type) == IF p.armorpoints >= type * ARMOR THEN p ELSE [p EXCEPT !.armortype = type, !.armorpoints = type * ARMOR]
P_GiveCard(p, card) == IF card \in p.cards THEN p ELSE [p EXCEPT !.cards = @ \cup {card}, !.bonuscount = BONUSADD]

P_GivePower(p, power) ==
  CASE power = "invulnerability" -> [p EXCEPT !.powers[power] = INVULNTICS]
    [] power = "invisibility"    -> [p EXCEPT !.powers[power] = INVISTICS, !.shadow = TRUE]
    [] power = "infrared"        -> [p EXCEPT !.powers[power] = INFRATICS]
    [] power = "ironfeet"        -> [p EXCEPT !.powers[power] = IRONTICS]
    [] power = "strength"        -> [P_GiveBody(p, MAXHEALTH) EXCEPT !.powers[power] = 1]
    [] OTHER                     -> [p EXCEPT !.powers[power] = 1]

Bonus(p, most) == LET h == Min({p.health + most, TOPHEALTH}) IN [p EXCEPT !.health = h, !.mohealth = h]
Backpack(p) ==
  LET v == IF p.backpack THEN p ELSE [p EXCEPT !.maxammo = [k \in Ammo |-> 2 * @[k]], !.backpack = TRUE]
      clips == P_GiveAmmo(v, "clip", 1)
      shells == P_GiveAmmo(clips, "shell", 1)
  IN P_GiveAmmo(P_GiveAmmo(shells, "cell", 1), "misl", 1)

\* An item: what it gives, and whether it is taken even when it changes nothing.
Given(p, item) ==
  CASE item.is = "ammo"       -> P_GiveAmmo(p, item.kind, item.num)
    [] item.is = "weapon"     -> P_GiveWeapon(p, item.kind, item.dropped)
    [] item.is = "armor"      -> P_GiveArmor(p, item.num)
    [] item.is = "body"       -> P_GiveBody(p, item.num)
    [] item.is = "card"       -> P_GiveCard(p, item.kind)
    [] item.is = "power"      -> P_GivePower(p, item.kind)
    [] item.is = "healthbonus" -> Bonus(p, 1)
    [] item.is = "soul"       -> Bonus(p, MAXHEALTH)
    [] item.is = "armorbonus" -> [p EXCEPT !.armorpoints = Min({@ + 1, 2 * ARMOR}), !.armortype = IF @ = 0 THEN 1 ELSE @]
    [] item.is = "mega"       -> IF kit.mode # "commercial" THEN p ELSE P_GiveArmor([p EXCEPT !.health = TOPHEALTH, !.mohealth = TOPHEALTH], 2)
    [] item.is = "backpack"   -> Backpack(p)

\* A berserk's fist comes up; of the rest a gift tells whether it was taken.
P_TouchSpecialThing(p, item) ==
  LET v == Given(p, item)
      fist == IF item.is = "power" /\ item.kind = "strength" /\ p.ready # "fist" THEN [v EXCEPT !.pending = "fist"] ELSE v
      always == item.is \in {"card", "healthbonus", "armorbonus", "soul", "backpack"} \/ (item.is = "power" /\ item.kind # "allmap")
                \/ (item.is = "mega" /\ kit.mode = "commercial")
      taken == always \/ v # p
  IN IF p.mohealth <= 0 \/ ~taken THEN p ELSE [fist EXCEPT !.bonuscount = @ + BONUSADD]

(* ----------------------------------------------------------------------- *)
(* What hurts                                                               *)
(* ----------------------------------------------------------------------- *)

P_KillMobj(p) == P_DropWeapon([p EXCEPT !.playerstate = "dead"])

\* The armor takes its part. Invulnerability holds against all but a telefrag.
P_DamageMobj(p, damage, telefrag) ==
  LET saved == IF p.armortype = 0 THEN 0 ELSE Min({damage \div (4 - p.armortype), p.armorpoints})
      left == damage - saved
      hurt == [p EXCEPT !.armortype = IF p.armortype # 0 /\ p.armorpoints <= damage \div (4 - p.armortype) THEN 0 ELSE @,
                        !.armorpoints = @ - saved, !.health = Max({@ - left, 0}),
                        !.mohealth = @ - left, !.damagecount = Min({@ + left, MAXHEALTH})]
  IN IF p.mohealth <= 0 \/ p.playerstate = "dead" THEN p
     ELSE IF ~telefrag /\ (p.god \/ p.powers["invulnerability"] > 0) THEN p
     ELSE IF hurt.mohealth <= 0 THEN P_KillMobj(hurt) ELSE hurt

(* ----------------------------------------------------------------------- *)
(* A tic                                                                    *)
(* ----------------------------------------------------------------------- *)

P_DeathThink(p) == [p EXCEPT !.calls = P_MovePsprites(Dies)]
Died(p) == [p EXCEPT !.cmd = {}, !.damagecount = Max({@ - 1, 0}), !.playerstate = IF "use" \in p.cmd THEN "reborn" ELSE @]

\* The key for the fist is the one for the chainsaw, and so are the two shotguns'.
Wants(p, asked) ==
  CASE asked = "fist" /\ "chainsaw" \in p.owned /\ ~(p.ready = "chainsaw" /\ p.powers["strength"] > 0) -> "chainsaw"
    [] asked = "shotgun" /\ kit.mode = "commercial" /\ "supershotgun" \in p.owned /\ p.ready # "supershotgun" -> "supershotgun"
    [] OTHER -> asked

Changes(p, asked) ==
  LET new == Wants(p, asked)
  IN IF asked # "none" /\ new \in p.owned /\ new # p.ready /\ ~(new \in {"plasma", "bfg"} /\ kit.mode = "shareware")
     THEN [p EXCEPT !.pending = new] ELSE p

\* The powers wear off; the berserk's only gets older.
WornOff(p) ==
  LET w == p.powers
      less(n) == Max({n - 1, 0})
  IN [p EXCEPT !.powers = [k \in DOMAIN w |-> CASE k = "allmap" -> w[k] [] k = "strength" -> Min({2 * w[k], 2}) [] OTHER -> less(w[k])],
               !.shadow = IF w["invisibility"] = 1 THEN FALSE ELSE @,
               !.cmd = {}, !.damagecount = less(@), !.bonuscount = less(@)]

\* What is asked for is not touched by the floor that burns, and asks for nothing it
\* touches. The command is forgotten with its tic: nothing else reads it.
P_PlayerThink(p, cmd, asked, burns) ==
  LET v == [p EXCEPT !.cmd = cmd, !.justattacked = FALSE]
      w == [Changes(v, asked) EXCEPT !.usedown = "use" \in cmd, !.calls = P_MovePsprites(WearsOff)]
  IN IF p.playerstate = "dead" THEN P_DeathThink(v)
     ELSE IF burns /\ v.powers["ironfeet"] = 0 THEN P_DamageMobj(w, 1, FALSE) ELSE w

\* What a call does.
Made(p, call) ==
  CASE call.do = "sets"      -> Enters(p, call.which, call.state)
    [] call.do = "ends"      -> Passes(p, call.which)
    [] call.do = "moves"     -> MovePsprite(p, call.which)
    [] call.do = "wears off" -> WornOff(p)
    [] call.do = "dies"      -> Died(p)

(* ----------------------------------------------------------------------- *)
(* Levels, deaths and cheats                                                *)
(* ----------------------------------------------------------------------- *)

NoPowers == [k \in Powers |-> 0]

G_PlayerReborn(p) ==
  [p EXCEPT !.playerstate = "live", !.health = MAXHEALTH, !.ready = "pistol", !.pending = "pistol", !.owned = {"fist", "pistol"},
            !.ammo = [k \in Ammo |-> IF k = "clip" THEN maxammo["clip"] \div 2 ELSE 0], !.maxammo = maxammo, !.attackdown = TRUE,
            !.usedown = TRUE, !.cards = {}, !.armorpoints = 0, !.armortype = 0, !.powers = NoPowers, !.god = FALSE, !.backpack = FALSE]

\* Into a new thing, which has no shadow.
P_SpawnPlayer(p) ==
  LET v == IF p.playerstate = "reborn" THEN G_PlayerReborn(p) ELSE p
  IN P_SetupPsprites([v EXCEPT !.mohealth = v.health, !.playerstate = "live", !.shadow = FALSE, !.justattacked = FALSE,
                               !.damagecount = 0, !.bonuscount = 0, !.extralight = 0])

G_PlayerFinishLevel(p) ==
  [p EXCEPT !.powers = NoPowers, !.cards = {}, !.shadow = FALSE, !.extralight = 0, !.damagecount = 0, !.bonuscount = 0]

\* ST_Responder
Cheats(p, cheat) ==
  CASE cheat = "god"      -> IF p.god THEN [p EXCEPT !.god = FALSE] ELSE [p EXCEPT !.god = TRUE, !.health = MAXHEALTH, !.mohealth = MAXHEALTH]
    [] cheat = "ammo"     -> [p EXCEPT !.armorpoints = 2 * ARMOR, !.armortype = 2, !.owned = Arms, !.ammo = p.maxammo, !.cards = Cards]
    [] cheat = "choppers" -> [p EXCEPT !.owned = @ \cup {"chainsaw"}, !.powers["invulnerability"] = 1]
    [] OTHER              -> IF p.powers[cheat] = 0 THEN P_GivePower(p, cheat)
                             ELSE [p EXCEPT !.powers[cheat] = IF cheat = "strength" THEN 0 ELSE 1]

(* ----------------------------------------------------------------------- *)
(* The behaviour                                                            *)
(* ----------------------------------------------------------------------- *)

Newborn(k) ==
  [playerstate |-> "live", health |-> MAXHEALTH, mohealth |-> MAXHEALTH, armorpoints |-> 0, armortype |-> 0,
   ammo |-> k.ammo, maxammo |-> maxammo, owned |-> k.owned, ready |-> k.ready, pending |-> "nochange", cards |-> {},
   powers |-> NoPowers, shadow |-> FALSE, backpack |-> FALSE, god |-> FALSE, attackdown |-> TRUE, usedown |-> TRUE,
   justattacked |-> FALSE, damagecount |-> 0, bonuscount |-> 0, extralight |-> 0, sy |-> BOTTOM, cmd |-> {},
   psprites |-> Hidden, calls |-> <<>>]

PlayerInit == \E k \in Kits : kit = k /\ player = P_SetupPsprites(Newborn(k)) /\ events = 0

\* The first call is made.
Makes ==
  /\ player.calls # <<>>
  /\ player' = Made([player EXCEPT !.calls = Tail(@)], Head(player.calls))
  /\ UNCHANGED <<kit, events>>

\* The keys of a kit are those tried in it.
PlayerTic(cmd, asked, burns) ==
  /\ player.calls = <<>> /\ player.playerstate # "reborn"
  /\ burns \/ asked # "none" => events < MAXEVENTS
  /\ player' = P_PlayerThink(player, cmd, asked, burns)
  /\ events' = IF burns \/ asked # "none" THEN events + 1 ELSE events
  /\ UNCHANGED kit

Happens(p) ==
  /\ events < MAXEVENTS /\ player.playerstate # "reborn"
  /\ player' = p /\ events' = events + 1
  /\ UNCHANGED kit
Between(p) == player.calls = <<>> /\ Happens(p)

\* A missile that has nowhere to fly explodes before it is on its way: whoever fires
\* it is hurt within A_FireMissile.
Backfires ==
  /\ player.calls # <<>> /\ Head(player.calls) = Ends("weapon")
  /\ ActionOf(player.psprites["weapon"].state) = "A_FireMissile"
  /\ \E damage \in kit.damages : Happens(P_DamageMobj(player, damage, FALSE))

\* Reborn in the same level.
IsReborn ==
  /\ player.calls = <<>> /\ player.playerstate = "reborn"
  /\ player' = P_SpawnPlayer(player)
  /\ UNCHANGED <<kit, events>>

PlayerNext ==
  \/ Makes \/ Backfires \/ IsReborn
  \/ \E cmd \in {{}, {"attack"}, {"attack", "odd"}, {"use"}}, asked \in {"none"} \cup kit.asked, burns \in BOOLEAN :
       PlayerTic(cmd, asked, burns)
  \/ \E item \in kit.items : Between(P_TouchSpecialThing(player, item))
  \/ \E damage \in kit.damages, telefrag \in BOOLEAN : Between(P_DamageMobj(player, damage, telefrag))
  \/ \E cheat \in kit.cheats : Between(Cheats(player, cheat))
  \/ player.playerstate = "live" /\ Between(P_SpawnPlayer(G_PlayerFinishLevel(player)))

\* Calls are made to their end, and then there is another tic, whatever is pressed.
PlayerFairness == []<><<Makes>>_player_vars
PlayerSpec == PlayerInit /\ [][PlayerNext]_player_vars /\ PlayerFairness

(* ----------------------------------------------------------------------- *)
(* Properties                                                               *)
(* ----------------------------------------------------------------------- *)

\* No weapon fires what is not there, and nobody carries more than fits.
AmmoIsCounted == \A k \in Ammo : player.ammo[k] \in 0..player.maxammo[k]

\* Only weapons that are owned are in hand or come up.
HandIsOwned == {player.ready, player.pending} \subseteq player.owned \cup {"nochange"}

\* The two counts of health agree; who lives has some, and only a cheat gives any
\* to who does not: that for god, and that for strength, which heals.
HealthIsOne ==
  /\ player.health = Max({player.mohealth, 0})
  /\ player.playerstate = "live" => player.health > 0
  /\ player.playerstate # "live" => player.health = 0 \/ kit.cheats \cap {"god", "strength"} # {}

\* The shadow is there as long as the power is, and no longer.
ShadowIsPower == player.shadow <=> player.powers["invisibility"] > 0

\* A weapon that was asked for comes up, even if the trigger is never let go.
WeaponComesUp == []<>(player.pending = "nochange" \/ player.playerstate # "live")

\* The weapon of the dead goes down and stays there.
DeadHoldNothing == []<>(player.playerstate = "dead" => player.sy >= BOTTOM)

\* What a player has is counted once and within its bounds, whatever is found,
\* fired, suffered and cheated, before and after a death.
PlayerIsSound == AmmoIsCounted /\ HandIsOwned /\ HealthIsOne /\ ShadowIsPower

\* The hands follow: weapons come up for the living and go down for the dead.
HandsFollow == WeaponComesUp /\ DeadHoldNothing
=============================================================================
