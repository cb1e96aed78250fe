----------------------------- MODULE MCDoomLevel -----------------------------
(* Small levels: doors, platforms, ceilings, floors, lights.                *)
EXTENDS DoomLines

Two(a, b) == [front |-> a, back |-> b]
Line(special, tag, front, back, texture) ==
  [special |-> special, tag |-> tag, front |-> front, back |-> back, texture |-> texture, secret |-> FALSE]

\* A room and a shut door; a second door behind it.
Doors(specials, lines) ==
  [floor |-> <<0, 0, 0>>, ceiling |-> <<9, 0, 0>>, light |-> <<4, 4, 4>>, special |-> specials,
   tag |-> <<0, 7, 7>>, pic |-> <<1, 1, 1>>, timer |-> 0, line |-> lines,
   ring |-> <<<<Two(1, 2), Two(1, 3)>>, <<Two(1, 2)>>, <<Two(1, 3)>>>>]
HandDoors == Doors(<<0, 0, 0>>, <<Line(1, 0, 1, 2, "none"), Line(31, 0, 1, 2, "none"), Line(63, 7, 1, 1, "off")>>)
KeyDoors == Doors(<<0, 0, 0>>, <<Line(28, 0, 1, 2, "none"), Line(99, 7, 1, 1, "off"), Line(110, 7, 1, 1, "none")>>)
WalkDoors == Doors(<<9, 0, 0>>, <<Line(76, 7, 1, 1, "none"), Line(4, 7, 1, 1, "none"), Line(42, 7, 1, 1, "off"), Line(46, 7, 1, 1, "off")>>)
TimedDoors ==
  [Doors(<<11, 14, 10>>, <<Line(1, 0, 1, 2, "none"), Line(11, 0, 1, 1, "off")>>)
   EXCEPT !.ceiling = <<9, 0, 8>>, !.timer = 12]

\* Two platforms between a low and a high floor.
Plats(lines) ==
  [floor |-> <<0, 4, 4>>, ceiling |-> <<12, 12, 12>>, light |-> <<4, 4, 4>>, special |-> <<0, 0, 0>>,
   tag |-> <<0, 5, 5>>, pic |-> <<1, 2, 2>>, timer |-> 0, line |-> lines,
   ring |-> <<<<Two(1, 2), Two(1, 3)>>, <<Two(1, 2), Two(2, 3)>>, <<Two(1, 3), Two(2, 3)>>>>]
PerpetualPlats == Plats(<<Line(87, 5, 1, 1, "none"), Line(89, 5, 1, 1, "none"), Line(1, 0, 1, 2, "none")>>)
CalledPlats ==
  [Plats(<<Line(62, 5, 1, 1, "off"), Line(66, 6, 1, 1, "off"), Line(47, 6, 1, 1, "off")>>)
   EXCEPT !.tag = <<6, 5, 0>>, !.ceiling = <<6, 12, 12>>]
ManyPlats == [Plats(<<Line(10, 5, 1, 1, "none"), Line(120, 5, 1, 1, "none")>>) EXCEPT !.tag = <<5, 5, 5>>]

Ceilings(lines) ==
  [floor |-> <<0, 0, 0>>, ceiling |-> <<8, 6, 6>>, light |-> <<4, 4, 4>>, special |-> <<0, 0, 0>>,
   tag |-> <<0, 5, 6>>, pic |-> <<1, 2, 2>>, timer |-> 0, line |-> lines,
   ring |-> <<<<Two(1, 2), Two(1, 3)>>, <<Two(1, 2), Two(2, 3)>>, <<Two(1, 3), Two(2, 3)>>>>]
CrushingCeilings ==
  Ceilings(<<Line(73, 5, 1, 1, "none"), Line(74, 5, 1, 1, "none"), Line(77, 6, 1, 1, "none"), Line(40, 6, 1, 1, "none")>>)
PlainCeilings == Ceilings(<<Line(44, 5, 1, 1, "none"), Line(43, 6, 1, 1, "off"), Line(40, 5, 1, 1, "none"), Line(1, 0, 1, 2, "none")>>)

\* A pillar in a pool in a room, and stairs.
Floors(lines) ==
  [floor |-> <<0, 0, 4, 2>>, ceiling |-> <<10, 10, 10, 8>>, light |-> <<4, 4, 4, 4>>, special |-> <<0, 0, 7, 0>>,
   tag |-> <<0, 5, 0, 6>>, pic |-> <<1, 1, 1, 2>>, timer |-> 0, line |-> lines,
   ring |-> <<<<Two(2, 1), Two(1, 3)>>, <<Two(2, 1)>>, <<Two(1, 3), Two(3, 4)>>, <<Two(3, 4)>>>>]
StairFloors == Floors(<<Line(7, 5, 1, 1, "off"), Line(9, 5, 1, 1, "off"), Line(19, 5, 1, 1, "none")>>)
MovedFloors ==
  Floors(<<Line(37, 6, 1, 1, "none"), Line(94, 6, 1, 1, "none"), Line(58, 6, 1, 1, "none"), Line(59, 6, 3, 1, "none"),
           Line(36, 6, 1, 1, "none"), Line(18, 6, 1, 1, "off"), Line(96, 6, 1, 1, "none"), Line(140, 6, 1, 1, "off")>>)

\* Two pillars of one tag in one pool.
TwoPillars ==
  [floor |-> <<0, 0, 4, 0>>, ceiling |-> <<10, 10, 10, 10>>, light |-> <<4, 4, 4, 4>>, special |-> <<0, 0, 0, 0>>,
   tag |-> <<0, 5, 0, 5>>, pic |-> <<1, 1, 1, 2>>, timer |-> 0, line |-> <<Line(9, 5, 1, 1, "off")>>,
   ring |-> <<<<Two(2, 1), Two(1, 3), Two(4, 1)>>, <<Two(2, 1)>>, <<Two(1, 3)>>, <<Two(4, 1)>>>>]

Lights(specials, lines) ==
  [floor |-> <<0, 0, 0>>, ceiling |-> <<9, 9, 9>>, light |-> <<2, 5, 3>>, special |-> specials,
   tag |-> <<4, 4, 4>>, pic |-> <<1, 1, 1>>, timer |-> 0, line |-> lines,
   ring |-> <<<<Two(1, 2), Two(1, 3)>>, <<Two(1, 2), Two(2, 3)>>, <<Two(1, 3), Two(2, 3)>>>>]
LitRooms == Lights(<<1, 8, 12>>, <<Line(138, 4, 1, 1, "off"), Line(139, 4, 1, 1, "off"), Line(104, 4, 1, 1, "none")>>)
\* A fire among rooms as bright as can be.
BrightRooms ==
  [Lights(<<17, 0, 0>>, <<Line(80, 4, 1, 1, "none"), Line(104, 4, 1, 1, "none")>>)
   EXCEPT !.light = <<8, 8, 8>>, !.tag = <<0, 4, 0>>]
DarkRooms == Lights(<<17, 4, 13>>, <<Line(80, 4, 1, 1, "none"), Line(17, 4, 1, 1, "none"), Line(52, 0, 1, 1, "none")>>)

MCScenes ==
  {HandDoors, KeyDoors, WalkDoors, TimedDoors, PerpetualPlats, CalledPlats, ManyPlats, CrushingCeilings,
   PlainCeilings, StairFloors, MovedFloors, TwoPillars, LitRooms, BrightRooms, DarkRooms}

FarBelow == -5

MCChances ==
  {[garbage |-> 6, status |-> "up", type |-> "other", crush |-> FALSE, random |-> 0],
   [garbage |-> 0, status |-> "down", type |-> "donutRaise", crush |-> TRUE, random |-> 1]}

=============================================================================
