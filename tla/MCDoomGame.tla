----------------------------- MODULE MCDoomGame -----------------------------
(* The course of the program and the player in a level, one of them in each  *)
(* behaviour: the other keeps the state it starts in.                        *)
EXTENDS DoomFlow, DoomPlayer

CONSTANT Parts
VARIABLE part

Some(c, s, e, m) == [clip |-> c, shell |-> s, cell |-> e, misl |-> m]
AmmoItem(kind, num) == [is |-> "ammo", kind |-> kind, num |-> num]
Gun(kind, dropped) == [is |-> "weapon", kind |-> kind, dropped |-> dropped]
Num(is, n) == [is |-> is, num |-> n]
Power(k) == [is |-> "power", kind |-> k]
Card(k) == [is |-> "card", kind |-> k]

\* A player, what lies about, the weapons asked for, the damages and the cheats.
Kit(version, baby, owned, ammo, ready, items, choices, damages, cheats) ==
  [mode |-> version, baby |-> baby, owned |-> owned \cup {"fist", "pistol"}, ammo |-> ammo, ready |-> ready,
   items |-> items, asked |-> choices, damages |-> damages, cheats |-> cheats]

MCKits ==
  {Kit("shareware", FALSE, {"chaingun", "shotgun"}, Some(3, 2, 0, 0), "pistol",
       {AmmoItem("clip", 0), Gun("chaingun", TRUE)}, {"shotgun"}, {3}, {}),
   Kit("commercial", TRUE, {"supershotgun", "shotgun"}, Some(0, 3, 0, 0), "supershotgun",
       {AmmoItem("shell", 1), Gun("supershotgun", FALSE), Num("mega", 0)}, {"shotgun"}, {3}, {}),
   Kit("commercial", FALSE, {"plasma", "bfg"}, Some(1, 0, 4, 0), "bfg",
       {Num("backpack", 0)}, {"plasma", "fist"}, {6}, {}),
   Kit("shareware", FALSE, {"missile"}, Some(0, 0, 0, 2), "missile",
       {AmmoItem("misl", 1), Gun("chainsaw", FALSE), Power("strength")}, {"fist"}, {2}, {"choppers"}),
   Kit("shareware", FALSE, {}, Some(0, 0, 0, 0), "fist",
       {Num("armor", 1), Num("armor", 2), Num("armorbonus", 1), Num("body", 1), Num("healthbonus", 1), Num("soul", 0)},
       {}, {1, 2, 6}, {}),
   Kit("shareware", FALSE, {}, Some(0, 0, 0, 0), "fist",
       {Power("invulnerability"), Power("invisibility"), Power("ironfeet"), Power("infrared"), Power("allmap"), Card("bluecard")},
       {}, {5}, {"god", "ammo", "invisibility"})}
MCMax == Some(6, 3, 6, 2)
MCClip == Some(2, 1, 2, 1)

GameInit ==
  /\ part \in Parts
  /\ FlowInit /\ (part # "flow" => mode = "shareware" /\ game = D_StartTitle(Off))
  /\ PlayerInit /\ (part # "player" => kit = CHOOSE k \in Kits : TRUE)

Flow == part = "flow" /\ FlowNext /\ UNCHANGED <<part, player_vars>>
Player == part = "player" /\ PlayerNext /\ UNCHANGED <<part, flow_vars>>

game_vars == <<part, flow_vars, player_vars>>

\* The fairness of each part, while it is the one that runs.
GameSpec ==
  /\ GameInit /\ [][Flow \/ Player]_game_vars
  /\ (part = "flow" /\ FlowFairness) \/ (part = "player" /\ PlayerFairness)

=============================================================================
