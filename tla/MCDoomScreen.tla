---------------------------- MODULE MCDoomScreen ----------------------------
(* What is drawn beside the view, and the memory it is kept in: the face, the *)
(* status bar, the messages, the intermission, the cast and the zone, one of  *)
(* them in each behaviour. The others keep the state they start in.           *)
EXTENDS DoomFace, DoomBar, DoomChat, DoomTally, DoomCast, DoomZone

CONSTANT Parts
VARIABLE part

MCMacro == <<"b">>

Alone(k, i, s) == 0 :> [skills |-> k, sitems |-> i, ssecret |-> s, stime |-> 4, frags |-> (0 :> 0)]
Two(f, g) == (0 :> [skills |-> 1, sitems |-> 0, ssecret |-> 0, stime |-> 4, frags |-> f])
          @@ (1 :> [skills |-> 2, sitems |-> 1, ssecret |-> 0, stime |-> 4, frags |-> g])
End(kind, commercial, next, most, players) ==
  [mode |-> kind, commercial |-> commercial, next |-> next, maxkills |-> most, maxitems |-> most,
   maxsecret |-> 0, partime |-> 7, plyr |-> players]
MCTallies ==
  {End("single", FALSE, 2, 2, Alone(3, 0, 1)), End("single", TRUE, 1, 0, Alone(0, 0, 0)),
   End("coop", FALSE, 1, 2, Two(0 :> 1 @@ 1 :> 0, 0 :> 0 @@ 1 :> 0)),
   End("coop", TRUE, 1, 2, Two(0 :> 0 @@ 1 :> 2, 0 :> 1 @@ 1 :> 0)),
   End("deathmatch", FALSE, 1, 2, Two(0 :> 1 @@ 1 :> 3, 0 :> -2 @@ 1 :> 0)),
   End("deathmatch", TRUE, 1, 2, Two(0 :> 0 @@ 1 :> 4, 0 :> 0 @@ 1 :> 0))}
MCAnims == <<[type |-> "always", period |-> 2, nanims |-> 3, data1 |-> 0, data2 |-> 0],
             [type |-> "random", period |-> 2, nanims |-> 2, data1 |-> 2, data2 |-> 1],
             [type |-> "level", period |-> 2, nanims |-> 2, data1 |-> 2, data2 |-> 0]>>

Lump(name, size) == [name |-> name, size |-> size]
MCFiles == <<<<Lump("face", 1), Lump("percent", 1), Lump("reject", 1), Lump("vertexes", 2),
               Lump("picture", 2), Lump("patch", 1)>>,
             <<Lump("face", 2)>>>>
MCComposite == <<"patch", "picture">>

ScreenInit ==
  /\ part \in Parts
  /\ FaceInit /\ BarInit /\ ChatInit /\ TallyInit /\ CastInit /\ ZoneInit
  /\ part # "bar" => game.state = "level" /\ ~game.deathmatch /\ ~game.full
  /\ part # "tally" => /\ wbs = WI_initVariables(CHOOSE t \in Tallies : TRUE)
                       /\ tally = WI_Start(wbs, FALSE, CHOOSE c \in Chances : TRUE)

Face ==
  /\ part = "face" /\ FaceNext
  /\ UNCHANGED <<part, bar_vars, chat_vars, tally_vars, cast_vars, zone_vars>>
Bar ==
  /\ part = "bar" /\ BarNext
  /\ UNCHANGED <<part, face_vars, chat_vars, tally_vars, cast_vars, zone_vars>>
Chat ==
  /\ part = "chat" /\ ChatNext
  /\ UNCHANGED <<part, face_vars, bar_vars, tally_vars, cast_vars, zone_vars>>
Tally ==
  /\ part = "tally" /\ TallyTic
  /\ UNCHANGED <<part, face_vars, bar_vars, chat_vars, cast_vars, zone_vars>>
Cast ==
  /\ part = "cast" /\ CastNext
  /\ UNCHANGED <<part, face_vars, bar_vars, chat_vars, tally_vars, zone_vars>>
Memory ==
  /\ part = "zone" /\ ZoneNext
  /\ UNCHANGED <<part, face_vars, bar_vars, chat_vars, tally_vars, cast_vars>>

ScreenNext == Face \/ Bar \/ Chat \/ Tally \/ Cast \/ Memory

screen_vars == <<part, face_vars, bar_vars, chat_vars, tally_vars, cast_vars, zone_vars>>

\* The fairness of each part, while it is the one that runs: tics go on until they
\* change nothing any more (FaceFairness, ChatFairness, TallySpec's and CastSpec's
\* in one formula). The bar and the zone need none.
Settles == part \in {"bar", "zone"} \/ (part = "face" /\ Settled) \/ tally.state = "WorldDone"
Ticks ==
  \/ part = "face" /\ hits' = hits
  \/ part = "chat" /\ odd' # odd
  \/ part = "tally"
  \/ part = "cast" /\ pressed' = pressed
TicsGoOn == []<>Settles \/ []<><<Ticks>>_screen_vars

ScreenSpec == ScreenInit /\ [][ScreenNext]_screen_vars /\ TicsGoOn

=============================================================================
