----------------------------- MODULE DoomLights -----------------------------
(* The lights of a level (p_lights.c): flickering, flashing, strobing and   *)
(* glowing sectors run as thinkers for the whole level, w.lights; lines      *)
(* turn the light of their sectors on, off or to strobing. Light levels and  *)
(* tics are scaled. chance.random is what P_Random gives under its mask.     *)
EXTENDS DoomSectors

CONSTANTS
  GLOWSPEED, FLICKER, \* 8 and 16 of 255
  STROBEBRIGHT, FASTDARK, SLOWDARK

P_FindMinSurroundingLight(w, s, max) == Min({max} \cup Values(w.light, Around(w, s)))

Shine(w, s, level) == [w EXCEPT !.light[s] = level]
Count(w, i, tics) == [w EXCEPT !.lights[i].count = tics]

T_FireFlicker(w, i, chance) ==
  LET f == w.lights[i]
      amount == chance.random * FLICKER
      level == IF w.light[f.sector] - amount < f.minlight THEN f.minlight ELSE f.maxlight - amount
  IN IF f.count # 1 THEN Count(w, i, Down(f.count)) ELSE Count(Shine(w, f.sector, level), i, 4)

\* maxtime and mintime are masks, of one bit and of three.
T_LightFlash(w, i, chance) ==
  LET f == w.lights[i]
      level == IF w.light[f.sector] = f.maxlight THEN f.minlight ELSE f.maxlight
  IN IF f.count # 1 THEN Count(w, i, Down(f.count))
     ELSE Count(Shine(w, f.sector, level), i, chance.random + 1)

T_StrobeFlash(w, i) ==
  LET f == w.lights[i]
      dark == w.light[f.sector] = f.minlight
  IN IF f.count # 1 THEN Count(w, i, Down(f.count))
     ELSE Count(Shine(w, f.sector, IF dark THEN f.maxlight ELSE f.minlight), i,
                IF dark THEN f.brighttime ELSE f.darktime)

GlowsThrough(w, i) == \* mutant
  LET g == w.lights[i]
      next == w.light[g.sector] + g.direction * GLOWSPEED
      reached == IF g.direction = -1 THEN next < g.minlight ELSE next > g.maxlight
      v == Shine(w, g.sector, next)
  IN IF reached THEN [v EXCEPT !.lights[i].direction = -g.direction] ELSE v
T_Glow(w, i) ==
  LET g == w.lights[i]
      next == w.light[g.sector] + g.direction * GLOWSPEED
      reached == IF g.direction = -1 THEN next <= g.minlight ELSE next >= g.maxlight
  IN IF reached THEN [w EXCEPT !.lights[i].direction = -g.direction] ELSE Shine(w, g.sector, next)

RunLights(w, chance) ==
  FoldLeftDomain(LAMBDA v, i :
    CASE v.lights[i].kind = "flicker" -> T_FireFlicker(v, i, chance)
      [] v.lights[i].kind = "flash" -> T_LightFlash(v, i, chance)
      [] v.lights[i].kind = "strobe" -> T_StrobeFlash(v, i)
      [] v.lights[i].kind = "glow" -> T_Glow(v, i), w, w.lights)

\* A light thinker of s joins the list; the sector's special is done with.
Kindle(w, s, light) == [w EXCEPT !.lights = Append(@, light), !.special[s] = 0]

P_SpawnFireFlicker(w, s) ==
  Kindle(w, s, [kind |-> "flicker", sector |-> s, maxlight |-> w.light[s], count |-> 4,
                minlight |-> P_FindMinSurroundingLight(w, s, w.light[s]) + FLICKER])

P_SpawnLightFlash(w, s, chance) ==
  Kindle(w, s, [kind |-> "flash", sector |-> s, maxlight |-> w.light[s], count |-> chance.random + 1,
                minlight |-> P_FindMinSurroundingLight(w, s, w.light[s])])

P_SpawnStrobeFlash(w, s, dark, inSync, chance) ==
  LET min == P_FindMinSurroundingLight(w, s, w.light[s])
  IN Kindle(w, s, [kind |-> "strobe", sector |-> s, maxlight |-> w.light[s],
                   minlight |-> IF min = w.light[s] THEN 0 ELSE min,
                   darktime |-> dark, brighttime |-> STROBEBRIGHT,
                   count |-> IF inSync THEN 1 ELSE chance.random + 1])

P_SpawnGlowingLight(w, s) ==
  Kindle(w, s, [kind |-> "glow", sector |-> s, maxlight |-> w.light[s], direction |-> -1,
                minlight |-> P_FindMinSurroundingLight(w, s, w.light[s])])

\* A strobe does not make its sector busy: another line starts one more.
EV_StartLightStrobing(w, line, chance) ==
  StartIn(w, line, LAMBDA v, s : P_SpawnStrobeFlash(v, s, SLOWDARK, FALSE, chance))

EV_TurnTagLightsOff(w, line) ==
  FoldLeft(LAMBDA v, s : Shine(v, s, P_FindMinSurroundingLight(v, s, v.light[s])), w, Tagged(w, line.tag))

\* Without a level of its own, the line takes the brightest around the first
\* sector, and keeps it for the next ones.
EV_LightTurnOn(w, line, level) ==
  FoldLeft(
    LAMBDA c, s :
      LET bright == IF c.bright # 0 THEN c.bright ELSE Max({0} \cup Values(c.level.light, Around(c.level, s)))
      IN [level |-> Shine(c.level, s, bright), bright |-> bright],
    [level |-> w, bright |-> level], Tagged(w, line.tag)).level

=============================================================================
