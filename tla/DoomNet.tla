------------------------------- MODULE DoomNet -------------------------------
(* The network game of d_net.c: every node makes commands for coming tics,  *)
(* sends those the others may lack and runs a game tic when it has the       *)
(* commands of all (NetUpdate, GetPackets, TryRunTics), after the first node  *)
(* has told the others what game to start (D_ArbitrateNetStart). Packets may  *)
(* be lost, come twice and overtake one another. A player's number is its     *)
(* node's number, ticdup is 1; the clock adjustments of TryRunTics, which only *)
(* say how often a node makes a command, are left out.                        *)
EXTENDS Integers, FiniteSetsExt, Sequences

CONSTANTS
  Nodes,       \* 0..(n - 1), the key player is 0
  BACKUPTICS, RESENDCOUNT,
  BYTE, WINDOW, \* 256 and 64: what a tic number keeps in a packet
  Games,       \* [from, to, extratics]: what has been played without a loss,
               \* where the play ends, and how many tics are sent once more
  Settings,    \* [skill, episode, map] of the game to start
  MAXAGE,      \* how many later packets may overtake one
  FAULTS       \* how many packets are lost or doubled, or players leave

VARIABLES node, net, faults

net_vars == <<node, net, faults>>

WholeRing == BACKUPTICS - 1 \* mutant
LIMIT == (BACKUPTICS \div 2) - 1

\* The ring holds what two nodes may be apart and what is under way meanwhile,
\* and a byte tells the tics around now from one another.
ASSUME NetAssumption ==
  /\ 0 \in Nodes /\ BACKUPTICS \in Nat /\ BACKUPTICS >= 4 /\ RESENDCOUNT \in Nat
  /\ MAXAGE \in Nat /\ 2 * LIMIT + MAXAGE < BACKUPTICS
  /\ BYTE \in Nat /\ WINDOW \in Nat /\ WINDOW >= BACKUPTICS + LIMIT + MAXAGE /\ BYTE > 2 * WINDOW
  /\ Games \subseteq [from : Nat, to : Nat, extratics : {0, 1}]
  /\ Settings \subseteq [skill : 0 .. 15, episode : 0 .. 3, map : 0 .. 63]

(* ----------------------------------------------------------------------- *)
(* Tics and packets                                                         *)
(* ----------------------------------------------------------------------- *)

Low(tic) == tic % BYTE

\* The full number of a tic from its low byte, around maketic.
ExpandTics(st, low) ==
  LET base == st.maketic - Low(st.maketic)
      delta == low - Low(st.maketic)
  IN IF delta > WINDOW THEN base - BYTE + low
     ELSE IF delta < -WINDOW THEN base + BYTE + low
     ELSE base + low

Slot(tic) == tic % BACKUPTICS

CommandOfNow(st, p) == [tic |-> st.maketic, consistancy |-> st.consistancy[p][Slot(st.gametic)]] \* mutant
\* A command remembers the tic it was made for and, to find nodes that have
\* come apart, where its player was BACKUPTICS tics before.
Command(st, p) == [tic |-> st.maketic, consistancy |-> st.consistancy[p][Slot(st.maketic)]]

LowTic(st) == Min({st.nettics[q] : q \in {r \in Nodes : st.nodeingame[r]}})

Error(st) == [st EXCEPT !.halted = TRUE]

(* ----------------------------------------------------------------------- *)
(* GetPackets                                                               *)
(* ----------------------------------------------------------------------- *)

\* A request is answered from where it asks, but not while the last answer
\* is on its way.
AnswersRequest(st, q, packet) ==
  IF st.resendcount[q] <= 0 /\ "retransmit" \in packet.flags
  THEN [st EXCEPT !.resendto[q] = ExpandTics(st, packet.retransmitfrom), !.resendcount[q] = RESENDCOUNT]
  ELSE [st EXCEPT !.resendcount[q] = Max({0, @ - 1})]

CopiesWhole(st, q, packet, start) == \* mutant
  LET new == st.nettics[q]..(start + packet.numtics - 1)
      at(slot) == {t \in new : Slot(t) = slot}
  IN [st EXCEPT !.remoteresend[q] = FALSE, !.nettics[q] = start + packet.numtics,
                !.netcmds[q] = [slot \in DOMAIN @ |->
                   IF at(slot) = {} THEN @[slot] ELSE packet.cmds[Max(at(slot)) - st.nettics[q] + 1]]]
Copies(st, q, packet, start) ==
  LET new == st.nettics[q]..(start + packet.numtics - 1)
      at(slot) == {t \in new : Slot(t) = slot}
  IN [st EXCEPT !.remoteresend[q] = FALSE, !.nettics[q] = start + packet.numtics,
                !.netcmds[q] = [slot \in DOMAIN @ |->
                   IF at(slot) = {} THEN @[slot] ELSE packet.cmds[Max(at(slot)) - start + 1]]]

GetPacket(st, packet) ==
  LET q == packet.player
      start == ExpandTics(st, packet.starttic)
      v == AnswersRequest(st, q, packet)
      end == start + packet.numtics
  IN IF "setup" \in packet.flags THEN st
     ELSE IF "exit" \in packet.flags THEN [st EXCEPT !.nodeingame[q] = FALSE]
     ELSE IF end <= st.nettics[q] THEN v
     ELSE IF start > st.nettics[q] THEN [v EXCEPT !.remoteresend[q] = TRUE]
     ELSE Copies(v, q, packet, start)

(* ----------------------------------------------------------------------- *)
(* TryRunTics and G_Ticker                                                  *)
(* ----------------------------------------------------------------------- *)

Inconsistent(st) ==
  \E q \in Nodes :
    /\ st.nodeingame[q] /\ st.gametic > BACKUPTICS
    /\ st.netcmds[q][Slot(st.gametic)].consistancy # st.consistancy[q][Slot(st.gametic)]

Astray(st) == \E q \in Nodes : st.nodeingame[q] /\ st.netcmds[q][Slot(st.gametic)].tic # st.gametic

\* One game tic: everybody's command is run, and where everybody stands noted
\* (the tic stands for the place).
RunTic(st) ==
  LET seen == [st EXCEPT !.astray = @ \/ Astray(st)]
  IN IF Inconsistent(st) THEN Error(seen)
     ELSE [seen EXCEPT !.gametic = @ + 1,
                       !.consistancy = [q \in Nodes |->
                          IF st.nodeingame[q] THEN [@[q] EXCEPT ![Slot(st.gametic)] = st.gametic] ELSE @[q]]]

\* So many game tics from here, but for what an error ends.
Tics(st) ==
  LET Runs[n \in Nat] == IF n = 0 THEN st
                         ELSE LET v == Runs[n - 1] IN IF v.halted THEN v ELSE RunTic(v)
  IN Runs

\* The tics all of whose commands are there. The others see nothing of it, so
\* that a node runs them as soon as it can.
TryRunTics(st) ==
  LET due == LowTic(st) - st.gametic
  IN IF due < 0 THEN Error(st) ELSE Tics(st)[due]

(* ----------------------------------------------------------------------- *)
(* NetUpdate                                                                *)
(* ----------------------------------------------------------------------- *)

BuildsForNow(st, p) == \* mutant
  [st EXCEPT !.localcmds[Slot(st.gametic)] = Command(st, p), !.maketic = @ + 1]
G_BuildTiccmd(st, p) ==
  [st EXCEPT !.localcmds[Slot(st.maketic)] = Command(st, p), !.maketic = @ + 1]

\* What node q is sent: everything since resendto.
PacketTo(st, p, q) ==
  LET from == st.resendto[q]
  IN [player |-> p, to |-> q, starttic |-> Low(from), numtics |-> st.maketic - from,
      retransmitfrom |-> IF st.remoteresend[q] THEN Low(st.nettics[q]) ELSE 0,
      flags |-> IF st.remoteresend[q] THEN {"retransmit"} ELSE {},
      cmds |-> [j \in 1..(st.maketic - from) |-> st.localcmds[Slot(from + j - 1)]]]

TooMany(st) == \E q \in Nodes : st.nodeingame[q] /\ st.maketic - st.resendto[q] > BACKUPTICS

\* What has been sent is not sent again, but for extratics.
Sent(st) == [st EXCEPT !.resendto = [q \in Nodes |-> IF st.nodeingame[q] THEN st.maketic - st.extratics ELSE @[q]]]

\* A packet on its way has been overtaken by the later ones of its direction.
OnTheWay(packets) ==
  LET passed(f) == \E k \in packets : k.player = f.packet.player /\ k.to = f.packet.to
  IN {[f EXCEPT !.age = IF passed(f) THEN @ + 1 ELSE @] : f \in net} \cup {[packet |-> k, age |-> 0] : k \in packets}

Fewer == [faults EXCEPT !.left = @ - 1]

NoneTooOld(p) == \A f \in net : f.packet.player = p => f.age < MAXAGE

\* A bound: what is left of the network when all have played to the end is not
\* followed any more.
Over == \A p \in Nodes : node[p].phase = "gone" \/ node[p].halted \/ node[p].gametic = faults.last

\* One tic of the clock: a command is made unless the node is far ahead of
\* its own game; every node gets a packet, the own one by the rebound.
NetUpdate(p) ==
  LET st == node[p]
      makes == st.maketic - st.gametic < LIMIT /\ st.maketic < faults.last
      made == IF makes THEN G_BuildTiccmd(st, p) ELSE st
      others == {q \in Nodes \ {p} : made.nodeingame[q]}
  IN /\ st.phase = "play" /\ ~st.halted /\ NoneTooOld(p) /\ ~Over
     /\ node' = [node EXCEPT ![p] = IF TooMany(made) THEN Error(@)
                                   ELSE TryRunTics(GetPacket(Sent(made), PacketTo(made, p, p)))]
     /\ net' = IF TooMany(made) THEN net ELSE OnTheWay({PacketTo(made, p, q) : q \in others})
     /\ UNCHANGED faults

\* A packet of the network, in any order; a copy may stay behind.
Receive(p) ==
  \E f \in net, again \in BOOLEAN :
    /\ f.packet.to = p /\ node[p].phase = "play" /\ ~node[p].halted /\ ~Over
    /\ again => faults.left > 0
    /\ node' = [node EXCEPT ![p] = TryRunTics(GetPacket(@, f.packet))]
    /\ net' = IF again THEN net ELSE net \ {f}
    /\ faults' = IF again THEN Fewer ELSE faults

Lose ==
  /\ faults.left > 0 /\ ~Over
  /\ \E f \in net : net' = net \ {f}
  /\ faults' = Fewer
  /\ UNCHANGED node

(* ----------------------------------------------------------------------- *)
(* D_QuitNetGame                                                            *)
(* ----------------------------------------------------------------------- *)

\* Four packets, of which any may arrive.
D_QuitNetGame(p) ==
  /\ faults.left > 0 /\ p # 0 /\ ~Over /\ node[p].phase = "play" /\ NoneTooOld(p)
  /\ node' = [node EXCEPT ![p].phase = "gone"]
  /\ net' = OnTheWay({[player |-> p, to |-> q, starttic |-> 0, numtics |-> 0, retransmitfrom |-> 0,
                       flags |-> {"exit"}, cmds |-> <<>>] : q \in {r \in Nodes \ {p} : node[p].nodeingame[r]}})
  /\ faults' = [faults EXCEPT !.left = 0]

(* ----------------------------------------------------------------------- *)
(* D_ArbitrateNetStart                                                      *)
(* ----------------------------------------------------------------------- *)

\* The settings travel in two bytes: the skill in the low bits of one, the
\* episode above the 64 maps in the other.
Setup(p, q, settings) ==
  [player |-> p, to |-> q, flags |-> {"setup"}, numtics |-> 0, cmds |-> <<>>,
   retransmitfrom |-> settings.skill, starttic |-> (settings.episode * 64 + settings.map) % 256]

ThreeSkills(packet) == \* mutant
  [skill |-> packet.retransmitfrom % 4, episode |-> packet.starttic \div 64, map |-> packet.starttic % 64]
SettingsIn(packet) ==
  [skill |-> packet.retransmitfrom % 16, episode |-> packet.starttic \div 64, map |-> packet.starttic % 64]

\* The key player tells the others until it has heard of each.
SendsSetup(p) ==
  /\ p = 0 /\ node[p].phase = "arbitrate" /\ NoneTooOld(p)
  /\ IF node[p].gotinfo = Nodes \ {p}
     THEN node' = [node EXCEPT ![p].phase = "play"] /\ UNCHANGED net
     ELSE net' = OnTheWay({Setup(p, q, node[p].settings) : q \in Nodes \ {p}}) /\ UNCHANGED node
  /\ UNCHANGED faults

\* Any packet tells it; what else is in it is lost.
HearsOf(p) ==
  \E f \in net :
    /\ p = 0 /\ node[p].phase = "arbitrate" /\ f.packet.to = p
    /\ node' = [node EXCEPT ![p].gotinfo = @ \cup {f.packet.player}]
    /\ net' = net \ {f} /\ UNCHANGED faults

\* The others listen.
HearsSetup(p) ==
  \E f \in net :
    /\ p # 0 /\ node[p].phase = "arbitrate" /\ f.packet.to = p
    /\ node' = IF "setup" \in f.packet.flags
               THEN [node EXCEPT ![p].phase = "play", ![p].settings = SettingsIn(f.packet)] ELSE node
    /\ net' = net \ {f} /\ UNCHANGED faults

(* ----------------------------------------------------------------------- *)
(* The game                                                                 *)
(* ----------------------------------------------------------------------- *)

\* The last tic before start that has this slot.
LastIn(slot, start) == Max({t \in (start - BACKUPTICS)..(start - 1) : Slot(t) = slot})

Fresh(settings, start, extratics) ==
  LET ring == [slot \in 0..(BACKUPTICS - 1) |->
                 IF start = 0 THEN [tic |-> 0, consistancy |-> 0]
                 ELSE [tic |-> LastIn(slot, start), consistancy |-> LastIn(slot, start) - BACKUPTICS]]
      places == [slot \in 0..(BACKUPTICS - 1) |-> IF start = 0 THEN 0 ELSE LastIn(slot, start)]
  IN [phase |-> IF start = 0 THEN "arbitrate" ELSE "play", settings |-> settings, gotinfo |-> {}, extratics |-> extratics,
      maketic |-> start, gametic |-> start, halted |-> FALSE, astray |-> FALSE,
      nettics |-> [q \in Nodes |-> start], resendto |-> [q \in Nodes |-> start],
      resendcount |-> [q \in Nodes |-> 0], remoteresend |-> [q \in Nodes |-> FALSE],
      nodeingame |-> [q \in Nodes |-> TRUE], localcmds |-> ring, netcmds |-> [q \in Nodes |-> ring],
      consistancy |-> [q \in Nodes |-> places]]

NetInit ==
  /\ \E game \in Games, settings \in Settings :
       /\ node = [p \in Nodes |-> Fresh(IF p = 0 \/ game.from > 0 THEN settings ELSE [skill |-> 0, episode |-> 0, map |-> 0],
                                        game.from, game.extratics)]
       /\ faults = [left |-> FAULTS, last |-> game.to]
  /\ net = {}

Step(p) == NetUpdate(p) \/ SendsSetup(p)
Hears(p) == Receive(p) \/ HearsOf(p) \/ HearsSetup(p)

\* Packets for a node that has left go nowhere.
Drop == \E f \in net : /\ node[f.packet.to].phase = "gone" \/ node[f.packet.to].halted
                       /\ net' = net \ {f} /\ UNCHANGED <<node, faults>>

NetNext == (\E p \in Nodes : Step(p) \/ Hears(p) \/ D_QuitNetGame(p)) \/ Lose \/ Drop

\* The clock of a node that plays, or waits as the key player, goes on; as no
\* packet is overtaken more than MAXAGE times, one that is not lost comes.
Still(p) == Over \/ node[p].phase = "gone" \/ (node[p].phase = "arbitrate" /\ p # 0)
NetFairness == \A p \in Nodes : []<>Still(p) \/ []<><<Step(p)>>_net_vars

NetSpec == NetInit /\ [][NetNext]_net_vars /\ NetFairness

(* ----------------------------------------------------------------------- *)
(* Properties                                                               *)
(* ----------------------------------------------------------------------- *)

At(p, what) == node[p].phase = what

\* Every command a node has run is the one its player made for that
\* tic: neither a lost, late or doubled packet nor the rings put another there.
EveryoneRunsTheSame == \A p \in Nodes : ~node[p].astray

\* What another node still lacks can be sent again.
LackedCommandsAreKept ==
  \A p, q \in Nodes :
    At(p, "play") /\ ~At(q, "gone") /\ node[p].nodeingame[q] =>
      \A t \in node[q].nettics[p]..(node[p].maketic - 1) : node[p].localcmds[Slot(t)].tic = t

\* None of the errors of d_net.c and of the consistency check of g_game.c is
\* ever met, as long as packets are not too late.
NeverHalts == \A p \in Nodes : ~node[p].halted

\* Nobody's game is further ahead of another's than the commands made ahead.
NobodyRunsAhead ==
  \A p, q \in Nodes :
    At(p, "play") /\ At(q, "play") /\ node[p].nodeingame[q] => node[p].gametic - node[q].gametic < BACKUPTICS \div 2

\* All who play play the game the key player started.
SameGame == \A p \in Nodes : At(p, "play") => node[p].settings = node[0].settings


\* All play one game: the same settings, the same commands in the same tics, none
\* of them forgotten while somebody lacks it.
GamesAgree == SameGame /\ EveryoneRunsTheSame /\ LackedCommandsAreKept /\ NobodyRunsAhead /\ NeverHalts
=============================================================================
