---------------------------- MODULE DoomNetProofs ----------------------------
(* The theorem about the net game (DoomNet): all play one game, for any        *)
(* number of nodes, any length of the game and any number of lost, doubled     *)
(* and late packets.                                                           *)
EXTENDS DoomNet, WellFoundedInduction, TLAPS

(* ----------------------------------------------------------------------- *)
(* The invariant                                                            *)
(* ----------------------------------------------------------------------- *)

IsRecord(r, fields) == r = [f \in fields |-> r[f]]

NodeFields ==
  {"phase", "settings", "gotinfo", "extratics", "maketic", "gametic", "halted", "astray", "nettics", "resendto",
   "resendcount", "remoteresend", "nodeingame", "localcmds", "netcmds", "consistancy"}

\* What a place of a ring holds for a tic: at the start of a new game (zero) the
\* rings are filled with noughts.
Was(zero, t) == IF zero /\ t < 0 THEN 0 ELSE t

\* A tic's command is the same whoever made it.
Cmd(zero, t) == [tic |-> Was(zero, t), consistancy |-> Was(zero, t - BACKUPTICS)]

Slots == 0..(BACKUPTICS - 1)
IsRing(ring) == ring = [slot \in Slots |-> ring[slot]]

\* The ring holds the last BACKUPTICS commands, or places, before end.
Commands(zero, ring, end) == IsRing(ring) /\ \A t \in (end - BACKUPTICS)..(end - 1) : ring[Slot(t)] = Cmd(zero, t)
Places(zero, ring, end) == IsRing(ring) /\ \A t \in (end - BACKUPTICS)..(end - 1) : ring[Slot(t)] = Was(zero, t)

Shaped(st) ==
  /\ IsRecord(st, NodeFields)
  /\ st.maketic \in Nat /\ st.gametic \in Nat /\ st.extratics \in {0, 1}
  /\ st.nettics \in [Nodes -> Nat] /\ st.resendto \in [Nodes -> Int] /\ st.resendcount \in [Nodes -> Int]
  /\ st.remoteresend \in [Nodes -> BOOLEAN] /\ st.nodeingame \in [Nodes -> BOOLEAN]
  /\ st.netcmds = [q \in Nodes |-> st.netcmds[q]] /\ st.consistancy = [q \in Nodes |-> st.consistancy[q]]
  /\ st.halted \in BOOLEAN /\ st.astray \in BOOLEAN

\* A node's game is behind its own commands and behind those of all who play.
Behind(p, st) ==
  /\ st.nodeingame[p] /\ ~st.remoteresend[p]
  /\ st.gametic <= st.maketic /\ st.maketic <= st.gametic + LIMIT
  /\ \A q \in Nodes : st.nodeingame[q] => st.gametic <= st.nettics[q]

Filled(zero, st) ==
  /\ Commands(zero, st.localcmds, st.maketic)
  /\ \A q \in Nodes : st.nodeingame[q] => /\ Commands(zero, st.netcmds[q], st.nettics[q])
                                          /\ Places(zero, st.consistancy[q], st.gametic)

Sane(zero, p, st) == Shaped(st) /\ Behind(p, st) /\ Filled(zero, st) /\ ~st.halted /\ ~st.astray

\* What is to be sent is not more than so many commands.
Asked(st, most) ==
  \A q \in Nodes : st.nodeingame[q] => st.resendto[q] <= st.maketic /\ st.maketic - st.resendto[q] <= most

\* Between steps a node has its own commands back.
Settled(zero, p, st) == Sane(zero, p, st) /\ st.nettics[p] = st.maketic /\ Asked(st, BACKUPTICS - 1)

\* A packet with the commands before end.
Carries(zero, k, end) ==
  /\ k.numtics <= BACKUPTICS /\ k.starttic = Low(end - k.numtics)
  /\ k.cmds = [j \in 1..k.numtics |-> Cmd(zero, end - k.numtics + j - 1)]

\* Its sender has made as many commands since as later packets have overtaken it, and
\* asks for what it still lacked then.
UnderWay(zero, f) ==
  LET k == f.packet
      p == k.player
      q == k.to
  IN /\ IsRecord(f, {"packet", "age"}) /\ f.age \in 0..MAXAGE
     /\ p \in Nodes /\ q \in Nodes /\ p # q
     /\ k.numtics \in Nat /\ k.starttic \in Int /\ k.retransmitfrom \in Int
     /\ "setup" \in k.flags => SettingsIn(k) = node[0].settings
     /\ "exit" \in k.flags => At(p, "gone")
     /\ "setup" \notin k.flags /\ "exit" \notin k.flags /\ ~At(q, "gone") =>
          \E end \in (node[p].maketic - f.age)..node[p].maketic :
            /\ Carries(zero, k, end)
            /\ "retransmit" \in k.flags => \E r \in (end - LIMIT)..node[p].nettics[q] : k.retransmitfrom = Low(r)

Apart ==
  \A p, q \in Nodes : /\ node[p].nodeingame[q] => node[p].nettics[q] <= node[q].maketic
                      /\ node[p].nodeingame[q] \/ At(q, "gone")

NInv(zero) ==
  /\ node = [p \in Nodes |-> node[p]]
  /\ \A p \in Nodes : Settled(zero, p, node[p])
  /\ Apart
  /\ \A f \in net : UnderWay(zero, f)
  /\ SameGame /\ node[0].settings \in Settings

IInv == \E zero \in BOOLEAN : NInv(zero)
LEMMA Least == ASSUME NEW T, T \subseteq Nat, T # {} PROVE \E x \in T : \A y \in T : x <= y
<1> DEFINE R == OpToRel(<, Nat)
<1>1. IsWellFoundedOn(R, Nat)
  BY NatLessThanWellFounded
<1>2. \A x, y \in Nat : <<x, y>> \in R <=> x < y
  BY DEF OpToRel
<1> HIDE DEF R
<1>3. PICK x \in T : \A y \in T : ~ (<<y, x>> \in R)
  BY <1>1, WFMin
<1>4. ASSUME NEW y \in T PROVE x <= y
  <2>1. x \in Nat /\ y \in Nat
    OBVIOUS
  <2>2. ~(y < x)
    BY <1>2, <1>3, <2>1
  <2> QED BY <2>1, <2>2
<1> QED BY <1>4
LEMMA SetInduction ==
  ASSUME NEW S, 0 \in S, \A n \in Nat : n \in S => n + 1 \in S PROVE \A n \in Nat : n \in S
<1> SUFFICES ASSUME NEW m \in Nat, m \notin S PROVE FALSE
  OBVIOUS
<1> DEFINE T == {n \in Nat : n \notin S}
<1>1. PICK x \in T : \A y \in T : x <= y
  <2>1. T \subseteq Nat /\ T # {}
    OBVIOUS
  <2> HIDE DEF T
  <2> QED BY <2>1, Least
<1>2. x - 1 \in Nat /\ x - 1 \notin T
  BY <1>1
<1> QED BY <1>1, <1>2


\* What the numbers of the program are to one another.
LEMMA Numbers == /\ LIMIT \in Nat /\ BACKUPTICS \in Nat /\ WINDOW \in Nat /\ BYTE \in Nat /\ MAXAGE \in Nat
                 /\ 1 <= LIMIT /\ 2 * LIMIT + 2 <= BACKUPTICS /\ LIMIT < BACKUPTICS \div 2
                 /\ 2 * LIMIT + MAXAGE + 1 <= BACKUPTICS
                 /\ BACKUPTICS + LIMIT + MAXAGE <= WINDOW /\ 2 * WINDOW < BYTE
  BY NetAssumption DEF LIMIT

\* The remainder of a division.
LEMMA Remainder ==
  ASSUME NEW d \in Nat, d > 0, NEW t \in Int
  PROVE \E k \in Int : t = k * d + (t % d) /\ t % d \in 0..(d - 1)
<1> WITNESS t \div d \in Int
<1> QED OBVIOUS

LEMMA OneMultiple ==
  ASSUME NEW d \in Nat, d > 0, NEW k \in Int, NEW e \in Int, e = k * d, -d < e, e < d
  PROVE e = 0
<1>1. CASE k = 0
  BY <1>1
<1>2. CASE k >= 1
  BY <1>2
<1>3. CASE k <= -1
  BY <1>3
<1> QED BY <1>1, <1>2, <1>3

LEMMA SlotIn == ASSUME NEW t \in Int PROVE Slot(t) \in Slots
  BY Numbers, Remainder DEF Slot, Slots

\* Tics less than a round apart have places of their own.
LEMMA SlotUnique ==
  ASSUME NEW t \in Int, NEW u \in Int, Slot(t) = Slot(u), t - u < BACKUPTICS, u - t < BACKUPTICS
  PROVE t = u
<1>1. BACKUPTICS \in Nat /\ BACKUPTICS > 0
  BY Numbers
<1>2. PICK k \in Int : t = k * BACKUPTICS + Slot(t)
  BY <1>1, Remainder DEF Slot
<1>3. PICK j \in Int : u = j * BACKUPTICS + Slot(u)
  BY <1>1, Remainder DEF Slot
<1>4. t - u = (k - j) * BACKUPTICS
  BY <1>1, <1>2, <1>3, SlotIn DEF Slots
<1>5. t - u = 0
  BY <1>1, <1>4, OneMultiple
<1> QED BY <1>5

\* A round later the place is the same.
LEMMA SlotBack == ASSUME NEW t \in Int PROVE Slot(t - BACKUPTICS) = Slot(t)
<1>1. BACKUPTICS \in Nat /\ BACKUPTICS > 0
  BY Numbers
<1>2. PICK k \in Int : t = k * BACKUPTICS + Slot(t)
  BY <1>1, Remainder DEF Slot
<1>3. PICK j \in Int : t - BACKUPTICS = j * BACKUPTICS + Slot(t - BACKUPTICS)
  BY <1>1, Remainder DEF Slot
<1>4. Slot(t) \in 0..(BACKUPTICS - 1) /\ Slot(t - BACKUPTICS) \in 0..(BACKUPTICS - 1)
  BY <1>1, SlotIn DEF Slots
<1>5. Slot(t - BACKUPTICS) - Slot(t) = (k - j - 1) * BACKUPTICS
  BY <1>1, <1>2, <1>3, <1>4
<1>6. Slot(t - BACKUPTICS) - Slot(t) = 0
  BY <1>1, <1>4, <1>5, OneMultiple
<1> QED BY <1>4, <1>6

\* A tic around now is found again from its low byte.
LEMMA Expanded ==
  ASSUME NEW st, st.maketic \in Int, NEW s \in Int, s - st.maketic <= WINDOW, st.maketic - s <= WINDOW
  PROVE ExpandTics(st, Low(s)) = s
<1> DEFINE m == st.maketic
           base == m - Low(m)
           delta == Low(s) - Low(m)
<1>1. BYTE \in Nat /\ BYTE > 0 /\ WINDOW \in Nat /\ 2 * WINDOW < BYTE
  BY Numbers
<1>2. PICK k \in Int : m = k * BYTE + Low(m) /\ Low(m) \in 0..(BYTE - 1)
  BY <1>1, Remainder DEF Low
<1>3. PICK j \in Int : s = j * BYTE + Low(s) /\ Low(s) \in 0..(BYTE - 1)
  BY <1>1, Remainder DEF Low
<1>4. ExpandTics(st, Low(s)) = IF delta > WINDOW THEN base - BYTE + Low(s)
                               ELSE IF delta < -WINDOW THEN base + BYTE + Low(s) ELSE base + Low(s)
  BY DEF ExpandTics
<1> DEFINE e == s - m - delta
<1>5. m \in Int /\ delta \in Int /\ base \in Int /\ e \in Int /\ Low(s) \in Int
  BY <1>1, <1>2, <1>3
<1>6. s = base + e + Low(s)
  BY <1>2, <1>3, <1>5
<1>7. e = (j - k) * BYTE
  BY <1>1, <1>2, <1>3
<1>8. delta < BYTE /\ -BYTE < delta
  BY <1>1, <1>2, <1>3
<1>9. CASE delta > WINDOW
  <2>1. e + BYTE = (j - k + 1) * BYTE
    BY <1>1, <1>7
  <2>2. e + BYTE \in Int /\ -BYTE < e + BYTE /\ e + BYTE < BYTE
    BY <1>1, <1>5, <1>8, <1>9
  <2>3. e + BYTE = 0
    BY <1>1, <2>1, <2>2, OneMultiple
  <2> HIDE DEF m, base, delta, e
  <2> QED BY <1>1, <1>4, <1>5, <1>6, <1>9, <2>3
<1>10. CASE delta < -WINDOW
  <2>1. e - BYTE = (j - k - 1) * BYTE
    BY <1>1, <1>7
  <2>2. e - BYTE \in Int /\ -BYTE < e - BYTE /\ e - BYTE < BYTE
    BY <1>1, <1>5, <1>8, <1>10
  <2>3. e - BYTE = 0
    BY <1>1, <2>1, <2>2, OneMultiple
  <2> HIDE DEF m, base, delta, e
  <2> QED BY <1>1, <1>4, <1>5, <1>6, <1>10, <2>3
<1>11. CASE ~(delta > WINDOW) /\ ~(delta < -WINDOW)
  <2>1. e \in Int /\ -BYTE < e /\ e < BYTE
    BY <1>1, <1>5, <1>11
  <2>2. e = 0
    BY <1>1, <1>7, <2>1, OneMultiple
  <2> HIDE DEF m, base, delta, e
  <2> QED BY <1>1, <1>4, <1>5, <1>6, <1>11, <2>2
<1> QED BY <1>9, <1>10, <1>11

LEMMA ExpandsToInt ==
  ASSUME NEW st, st.maketic \in Int, NEW low \in Int PROVE ExpandTics(st, low) \in Int
<1>1. BYTE \in Nat /\ BYTE > 0
  BY Numbers
<1>2. Low(st.maketic) \in Int
  BY <1>1, Remainder DEF Low
<1> QED BY <1>1, <1>2 DEF ExpandTics

\* The settings arrive as they were sent.
LEMMA SettingsArrive ==
  ASSUME NEW s \in Settings, NEW p, NEW q PROVE SettingsIn(Setup(p, q, s)) = s
<1>1. s \in [skill : 0 .. 15, episode : 0 .. 3, map : 0 .. 63]
  BY NetAssumption
<1>2. s = [skill |-> s.skill, episode |-> s.episode, map |-> s.map]
  BY <1>1
<1>3. s.skill \in 0..15 /\ s.episode \in 0..3 /\ s.map \in 0..63
  BY <1>1
<1>4. s.skill % 16 = s.skill /\ (s.episode * 64 + s.map) % 256 = s.episode * 64 + s.map
  BY <1>3
<1>5. (s.episode * 64 + s.map) \div 64 = s.episode /\ (s.episode * 64 + s.map) % 64 = s.map
  BY <1>3
<1>6. SettingsIn(Setup(p, q, s)) = [skill |-> s.skill % 16, episode |-> ((s.episode * 64 + s.map) % 256) \div 64,
                                   map |-> ((s.episode * 64 + s.map) % 256) % 64]
  BY DEF SettingsIn, Setup
<1> QED BY <1>2, <1>4, <1>5, <1>6

LEMMA MaxOfOne == ASSUME NEW x \in Int PROVE Max({x}) = x
  BY DEF Max
LEMMA MaxOfNone == ASSUME NEW x \in Int PROVE Max({0, x}) \in Int
<1>1. \E y \in {0, x} : \A z \in {0, x} : y >= z
  OBVIOUS
<1> QED BY <1>1 DEF Max

(* ----------------------------------------------------------------------- *)
(* Game tics                                                                *)
(* ----------------------------------------------------------------------- *)

NextTic(v) == IF v.halted THEN v ELSE RunTic(v)

\* The recursion of Tics is what it says: there is a function of that kind, as
\* there is one up to every number.
LEMMA TicsByOne == ASSUME NEW st PROVE Tics(st)[0] = st /\ \A n \in Nat : Tics(st)[n + 1] = NextTic(Tics(st)[n])
<1> DEFINE Def(r) == [n \in Nat |-> IF n = 0 THEN st ELSE LET v == r[n - 1] IN IF v.halted THEN v ELSE RunTic(v)]
           Approx(r, k) == r[0] = st /\ \A n \in 0..(k - 1) : r[n + 1] = NextTic(r[n])
           S == {k \in Nat : \E r : Approx(r, k)}
<1>1. 0 \in S
  <2>1. Approx([n \in {0} |-> st], 0)
    OBVIOUS
  <2> QED BY <2>1
<1>2. \A k \in Nat : k \in S => k + 1 \in S
  <2> SUFFICES ASSUME NEW k \in Nat, NEW r, Approx(r, k) PROVE \E q : Approx(q, k + 1)
    OBVIOUS
  <2> DEFINE q == [n \in Nat |-> IF n = k + 1 THEN NextTic(r[k]) ELSE r[n]]
  <2>1. Approx(q, k + 1)
    OBVIOUS
  <2> QED BY <2>1
<1>3. \A k \in Nat : k \in S
  <2> HIDE DEF S
  <2> QED BY <1>1, <1>2, SetInduction
<1> DEFINE at(k) == CHOOSE r : Approx(r, k)
           f == [n \in Nat |-> at(n)[n]]
<1>4. \A k \in Nat : Approx(at(k), k)
  BY <1>3
<1>5. \A k, l \in Nat : k <= l => at(k)[k] = at(l)[k]
  <2> SUFFICES ASSUME NEW l \in Nat PROVE \A k \in Nat : k <= l => at(k)[k] = at(l)[k]
    OBVIOUS
  <2> DEFINE E == {k \in Nat : k <= l => \A m \in Nat : m >= k => at(m)[k] = at(l)[k]}
  <2> HIDE DEF at
  <2>1. 0 \in E
    BY <1>4
  <2>2. \A k \in Nat : k \in E => k + 1 \in E
    <3> SUFFICES ASSUME NEW k \in Nat, k \in E, k + 1 <= l, NEW m \in Nat, m >= k + 1 PROVE at(m)[k + 1] = at(l)[k + 1]
      OBVIOUS
    <3>1. at(m)[k + 1] = NextTic(at(m)[k]) /\ at(l)[k + 1] = NextTic(at(l)[k])
      BY <1>4
    <3>2. at(m)[k] = at(l)[k]
      OBVIOUS
    <3> QED BY <3>1, <3>2
  <2>3. \A k \in Nat : k \in E
    <3> HIDE DEF E
    <3> QED BY <2>1, <2>2, SetInduction
  <2> QED BY <2>3
<1>6. f = Def(f)
  <2> HIDE DEF at
  <2> SUFFICES ASSUME NEW n \in Nat PROVE at(n)[n] = IF n = 0 THEN st ELSE NextTic(f[n - 1])
    BY DEF NextTic
  <2>1. CASE n = 0
    BY <1>4, <2>1
  <2>2. CASE n # 0
    <3>1. n - 1 \in Nat /\ (n - 1) + 1 = n
      BY <2>2
    <3>2. at(n)[(n - 1) + 1] = NextTic(at(n)[n - 1])
      BY <1>4, <3>1
    <3>3. at(n)[n - 1] = at(n - 1)[n - 1]
      BY <1>5, <3>1
    <3> QED BY <2>2, <3>1, <3>2, <3>3
  <2> QED BY <2>1, <2>2
<1>7. Tics(st) = CHOOSE r : r = Def(r)
  BY DEF Tics
<1>8. Tics(st) = Def(Tics(st))
  <2> HIDE DEF Def, f
  <2> QED BY <1>6, <1>7
<1> QED BY <1>8 DEF NextTic

\* A game tic changes nothing but the game's time and places.
SameBut(st, v) ==
  /\ v.phase = st.phase /\ v.settings = st.settings /\ v.gotinfo = st.gotinfo /\ v.extratics = st.extratics
  /\ v.maketic = st.maketic /\ v.nettics = st.nettics /\ v.resendto = st.resendto /\ v.remoteresend = st.remoteresend
  /\ v.nodeingame = st.nodeingame /\ v.localcmds = st.localcmds /\ v.netcmds = st.netcmds

\* No player's commands are further ahead than the ring is long.
Near(st) == \A q \in Nodes : st.nodeingame[q] => st.nettics[q] <= st.gametic + BACKUPTICS

LEMMA RunTicKeeps ==
  ASSUME NEW zero \in BOOLEAN, NEW p \in Nodes, NEW st, Sane(zero, p, st), Near(st), st.nettics[p] = st.maketic,
         \A q \in Nodes : st.nodeingame[q] => st.gametic < st.nettics[q]
  PROVE LET v == NextTic(st) IN Sane(zero, p, v) /\ Near(v) /\ SameBut(st, v) /\ v.gametic = st.gametic + 1
<1> DEFINE g == st.gametic
<1>1. Shaped(st) /\ Behind(p, st) /\ Filled(zero, st) /\ ~st.halted /\ ~st.astray
  BY DEF Sane
<1>2. g \in Nat /\ st.maketic \in Nat /\ st.nettics \in [Nodes -> Nat] /\ st.nodeingame \in [Nodes -> BOOLEAN]
  BY <1>1 DEF Shaped
<1>3. BACKUPTICS \in Nat /\ BACKUPTICS >= 4
  BY Numbers
<1>4. ASSUME NEW q \in Nodes, st.nodeingame[q]
      PROVE st.netcmds[q][Slot(g)] = Cmd(zero, g) /\ st.consistancy[q][Slot(g)] = Was(zero, g - BACKUPTICS)
  <2>1. Commands(zero, st.netcmds[q], st.nettics[q]) /\ Places(zero, st.consistancy[q], g)
    BY <1>1, <1>4 DEF Filled
  <2>2. g \in (st.nettics[q] - BACKUPTICS)..(st.nettics[q] - 1)
    BY <1>2, <1>3, <1>4 DEF Near
  <2>3. g - BACKUPTICS \in (g - BACKUPTICS)..(g - 1)
    BY <1>2, <1>3
  <2>4. Slot(g - BACKUPTICS) = Slot(g)
    BY <1>2, SlotBack
  <2> QED BY <2>1, <2>2, <2>3, <2>4 DEF Commands, Places
<1>5. ~Inconsistent(st) /\ ~Astray(st)
  <2>1. Cmd(zero, g).tic = g /\ Cmd(zero, g).consistancy = Was(zero, g - BACKUPTICS)
    BY <1>2 DEF Cmd, Was
  <2> QED BY <1>4, <2>1 DEF Inconsistent, Astray
<1> DEFINE v == [st EXCEPT !.astray = FALSE, !.gametic = g + 1,
                           !.consistancy = [q \in Nodes |-> IF st.nodeingame[q] THEN [@[q] EXCEPT ![Slot(g)] = g] ELSE @[q]]]
<1>6. NextTic(st) = v
  BY <1>1, <1>5 DEF NextTic, RunTic, Shaped, IsRecord, NodeFields
<1>7. /\ SameBut(st, v) /\ v.gametic = g + 1 /\ v.halted = st.halted /\ v.astray = FALSE /\ v.resendcount = st.resendcount
      /\ v.consistancy = [q \in Nodes |-> IF st.nodeingame[q] THEN [st.consistancy[q] EXCEPT ![Slot(g)] = g]
                                          ELSE st.consistancy[q]]
      /\ IsRecord(v, NodeFields)
  BY <1>1 DEF Shaped, IsRecord, NodeFields, SameBut
<1> HIDE DEF v
<1>8. Shaped(v)
  <2>1. v.halted \in BOOLEAN /\ v.astray \in BOOLEAN
    BY <1>1, <1>7 DEF Shaped
  <2>2. v.consistancy = [q \in Nodes |-> v.consistancy[q]]
    BY <1>7
  <2>3. v.gametic \in Nat
    BY <1>2, <1>7
  <2> QED BY <1>1, <1>7, <2>1, <2>2, <2>3 DEF Shaped, SameBut
<1>9. Behind(p, v)
  <2>1. v.gametic <= v.maketic /\ v.maketic <= v.gametic + LIMIT
    BY <1>1, <1>2, <1>7, Numbers DEF Behind, SameBut
  <2> QED BY <1>1, <1>2, <1>7, <2>1 DEF Behind, SameBut
<1>10. ASSUME NEW q \in Nodes, st.nodeingame[q] PROVE Places(zero, v.consistancy[q], g + 1)
  <2>1. Places(zero, st.consistancy[q], g)
    BY <1>1, <1>10 DEF Filled
  <2> DEFINE ring == st.consistancy[q]
  <2>2. v.consistancy[q] = [ring EXCEPT ![Slot(g)] = g] /\ IsRing(ring) /\ Slot(g) \in Slots
    BY <1>2, <1>7, <1>10, <2>1, SlotIn DEF Places
  <2>3. ASSUME NEW t \in (g + 1 - BACKUPTICS)..g PROVE v.consistancy[q][Slot(t)] = Was(zero, t)
    <3>1. Slot(t) \in Slots
      BY <1>2, <1>3, SlotIn
    <3>2. CASE t = g
      BY <1>2, <2>2, <3>1, <3>2 DEF IsRing, Was
    <3>3. CASE t # g
      <4>1. Slot(t) # Slot(g)
        BY <1>2, <1>3, <3>3, SlotUnique
      <4>2. ring[Slot(t)] = Was(zero, t)
        BY <1>2, <1>3, <2>1, <3>3 DEF Places
      <4> QED BY <2>2, <3>1, <4>1, <4>2 DEF IsRing
    <3> QED BY <3>2, <3>3
  <2>4. IsRing(v.consistancy[q])
    BY <2>2 DEF IsRing
  <2>5. (g + 1) - BACKUPTICS = g + 1 - BACKUPTICS /\ (g + 1) - 1 = g
    BY <1>2, <1>3
  <2> QED BY <2>3, <2>4, <2>5 DEF Places
<1>11. Filled(zero, v)
  BY <1>1, <1>7, <1>10 DEF Filled, SameBut
<1>12. Near(v)
  BY <1>2, <1>3, <1>7 DEF Near, SameBut
<1> QED BY <1>1, <1>6, <1>7, <1>8, <1>9, <1>11, <1>12 DEF Sane

LEMMA LowTicIs ==
  ASSUME NEW zero \in BOOLEAN, NEW p \in Nodes, NEW st, Sane(zero, p, st)
  PROVE /\ LowTic(st) \in Nat /\ st.gametic <= LowTic(st)
        /\ \A q \in Nodes : st.nodeingame[q] => LowTic(st) <= st.nettics[q]
<1> DEFINE T == {st.nettics[q] : q \in {r \in Nodes : st.nodeingame[r]}}
<1>1. st.nettics \in [Nodes -> Nat] /\ st.nodeingame[p] /\ \A q \in Nodes : st.nodeingame[q] => st.gametic <= st.nettics[q]
  BY DEF Sane, Shaped, Behind
<1>2. T \subseteq Nat /\ T # {}
  BY <1>1
<1>3. LowTic(st) = CHOOSE x \in T : \A y \in T : x <= y
  BY DEF LowTic, Min
<1>4. LowTic(st) \in T /\ \A y \in T : LowTic(st) <= y
  <2> HIDE DEF T
  <2> QED BY <1>2, <1>3, Least
<1> QED BY <1>1, <1>2, <1>4

\* All that can be run is run without an error, and nothing else changes.
LEMMA TryRunTicsKeeps ==
  ASSUME NEW zero \in BOOLEAN, NEW p \in Nodes, NEW st, Sane(zero, p, st), Near(st), st.nettics[p] = st.maketic
  PROVE Sane(zero, p, TryRunTics(st)) /\ SameBut(st, TryRunTics(st))
<1> DEFINE due == LowTic(st) - st.gametic
           Good(v, n) == Sane(zero, p, v) /\ Near(v) /\ SameBut(st, v) /\ v.gametic = st.gametic + n
           S == {n \in Nat : n <= due => Good(Tics(st)[n], n)}
<1>1. st.gametic \in Nat /\ LowTic(st) \in Nat /\ due \in Nat
  BY LowTicIs DEF Sane, Shaped
<1>2. 0 \in S
  <2>1. Tics(st)[0] = st
    BY TicsByOne
  <2>2. SameBut(st, st) /\ st.gametic = st.gametic + 0
    BY <1>1 DEF SameBut
  <2> QED BY <2>1, <2>2
<1>3. \A n \in Nat : n \in S => n + 1 \in S
  <2> SUFFICES ASSUME NEW n \in Nat, n \in S, n + 1 <= due PROVE Good(Tics(st)[n + 1], n + 1)
    OBVIOUS
  <2> DEFINE u == Tics(st)[n]
             v == Tics(st)[n + 1]
  <2>1. Good(u, n)
    BY <1>1
  <2>2. v = NextTic(u)
    BY TicsByOne
  <2> HIDE DEF u, v
  <2>3. u.nettics[p] = u.maketic
    BY <2>1 DEF SameBut
  <2>4. \A q \in Nodes : u.nodeingame[q] => u.gametic < u.nettics[q]
    <3> SUFFICES ASSUME NEW q \in Nodes, u.nodeingame[q] PROVE u.gametic < u.nettics[q]
      OBVIOUS
    <3>1. LowTic(st) <= st.nettics[q] /\ st.nettics[q] \in Nat
      BY <2>1, LowTicIs DEF SameBut, Sane, Shaped
    <3> QED BY <1>1, <2>1, <3>1 DEF SameBut
  <2>5. Sane(zero, p, v) /\ Near(v) /\ SameBut(u, v) /\ v.gametic = u.gametic + 1
    BY <2>1, <2>2, <2>3, <2>4, RunTicKeeps
  <2>6. SameBut(st, v)
    BY <2>1, <2>5 DEF SameBut
  <2>7. v.gametic = st.gametic + (n + 1)
    BY <1>1, <2>1, <2>5
  <2> QED BY <2>5, <2>6, <2>7 DEF v
<1>4. \A n \in Nat : n \in S
  <2> HIDE DEF S
  <2> QED BY <1>2, <1>3, SetInduction
<1>5. Good(Tics(st)[due], due)
  BY <1>1, <1>4
<1>6. TryRunTics(st) = Tics(st)[due]
  BY <1>1 DEF TryRunTics
<1> QED BY <1>5, <1>6

(* ----------------------------------------------------------------------- *)
(* Rings                                                                    *)
(* ----------------------------------------------------------------------- *)

\* A command made takes the place of the one BACKUPTICS before.
LEMMA RingPlus ==
  ASSUME NEW zero \in BOOLEAN, NEW ring, NEW m \in Nat, Commands(zero, ring, m)
  PROVE Commands(zero, [ring EXCEPT ![Slot(m)] = Cmd(zero, m)], m + 1)
<1> DEFINE next == [ring EXCEPT ![Slot(m)] = Cmd(zero, m)]
<1>1. BACKUPTICS \in Nat /\ BACKUPTICS >= 4 /\ Slot(m) \in Slots /\ IsRing(ring)
  BY Numbers, SlotIn DEF Commands
<1>2. ASSUME NEW t \in (m + 1 - BACKUPTICS)..m PROVE next[Slot(t)] = Cmd(zero, t)
  <2>1. Slot(t) \in Slots
    BY <1>1, SlotIn
  <2>2. CASE t = m
    BY <1>1, <2>1, <2>2 DEF IsRing
  <2>3. CASE t # m
    <3>1. Slot(t) # Slot(m)
      BY <1>1, <2>3, SlotUnique
    <3>2. ring[Slot(t)] = Cmd(zero, t)
      BY <1>1, <2>3 DEF Commands
    <3> QED BY <1>1, <2>1, <3>1, <3>2 DEF IsRing
  <2> QED BY <2>2, <2>3
<1>3. IsRing(next)
  BY <1>1 DEF IsRing
<1> HIDE DEF next
<1>4. (m + 1) - 1 = m
  OBVIOUS
<1>5. Commands(zero, next, m + 1)
  BY <1>1, <1>2, <1>3, <1>4 DEF Commands
<1> QED BY <1>5 DEF next

\* What came in a packet.
Received(new, ring, cmds, start) ==
  LET at(slot) == {t \in new : Slot(t) = slot}
  IN [slot \in DOMAIN ring |-> IF at(slot) = {} THEN ring[slot] ELSE cmds[Max(at(slot)) - start + 1]]

\* The commands of a packet go to their places.
LEMMA RingReceived ==
  ASSUME NEW zero \in BOOLEAN, NEW ring, NEW n \in Nat, Commands(zero, ring, n),
         NEW start \in Int, NEW num \in Nat, num <= BACKUPTICS, start <= n, n < start + num,
         NEW cmds, cmds = [j \in 1..num |-> Cmd(zero, start + j - 1)]
  PROVE Commands(zero, Received(n..(start + num - 1), ring, cmds, start), start + num)
<1> DEFINE end == start + num
           new == n..(start + num - 1)
           at(slot) == {t \in new : Slot(t) = slot}
           next == Received(new, ring, cmds, start)
<1>1. BACKUPTICS \in Nat /\ BACKUPTICS >= 4 /\ IsRing(ring) /\ end \in Int
  BY Numbers DEF Commands
<1>2. next = [slot \in DOMAIN ring |-> IF at(slot) = {} THEN ring[slot] ELSE cmds[Max(at(slot)) - start + 1]]
  BY DEF Received
<1>3. DOMAIN ring = Slots /\ IsRing(next)
  BY <1>1, <1>2 DEF IsRing
<1>4. ASSUME NEW t \in (end - BACKUPTICS)..(end - 1) PROVE next[Slot(t)] = Cmd(zero, t)
  <2>1. Slot(t) \in Slots /\ t \in Int
    BY <1>1, SlotIn
  <2>2. next[Slot(t)] = IF at(Slot(t)) = {} THEN ring[Slot(t)] ELSE cmds[Max(at(Slot(t))) - start + 1]
    BY <1>2, <1>3, <2>1
  <2>3. \A u \in new : Slot(u) = Slot(t) => u = t
    <3> SUFFICES ASSUME NEW u \in new, Slot(u) = Slot(t) PROVE u = t
      OBVIOUS
    <3>1. u \in Int /\ u - t < BACKUPTICS /\ t - u < BACKUPTICS
      BY <1>1
    <3> QED BY <2>1, <3>1, SlotUnique
  <2>4. CASE t \in new
    <3>1. at(Slot(t)) = {t}
      BY <2>3, <2>4
    <3>2. next[Slot(t)] = cmds[t - start + 1]
      BY <2>1, <2>2, <3>1, MaxOfOne
    <3>3. t - start + 1 \in 1..num /\ start + (t - start + 1) - 1 = t
      BY <2>1, <2>4
    <3> QED BY <3>2, <3>3
  <2>5. CASE t \notin new
    <3>1. at(Slot(t)) = {}
      BY <2>3, <2>5
    <3>2. t \in (n - BACKUPTICS)..(n - 1)
      BY <1>1, <2>1, <2>5
    <3>3. ring[Slot(t)] = Cmd(zero, t)
      BY <3>2 DEF Commands
    <3> QED BY <2>2, <3>1, <3>3
  <2> QED BY <2>4, <2>5
<1> HIDE DEF next, new
<1> QED BY <1>3, <1>4 DEF Commands, next, new

(* ----------------------------------------------------------------------- *)
(* Packets at a node                                                        *)
(* ----------------------------------------------------------------------- *)

\* Nothing differs but what is to be sent.
Alike(st, v) ==
  /\ v.phase = st.phase /\ v.settings = st.settings /\ v.gotinfo = st.gotinfo /\ v.extratics = st.extratics
  /\ v.maketic = st.maketic /\ v.gametic = st.gametic /\ v.halted = st.halted /\ v.astray = st.astray
  /\ v.nettics = st.nettics /\ v.nodeingame = st.nodeingame /\ v.localcmds = st.localcmds /\ v.netcmds = st.netcmds
  /\ v.consistancy = st.consistancy

LEMMA SaneAlike ==
  ASSUME NEW zero \in BOOLEAN, NEW p \in Nodes, NEW st, Sane(zero, p, st), NEW v, Shaped(v), Alike(st, v),
         ~v.remoteresend[p]
  PROVE Sane(zero, p, v)
  BY DEF Sane, Behind, Filled, Alike

Answered(st, v, q, k) ==
  /\ Shaped(v) /\ Alike(st, v) /\ v.remoteresend = st.remoteresend
  /\ \/ v.resendto = st.resendto
     \/ "retransmit" \in k.flags /\ v.resendto = [st.resendto EXCEPT ![q] = ExpandTics(st, k.retransmitfrom)]

\* A request sets from where the next packets are.
LEMMA AnswersRequestGives ==
  ASSUME NEW st, Shaped(st), NEW q \in Nodes, NEW k, k.retransmitfrom \in Int
  PROVE Answered(st, AnswersRequest(st, q, k), q, k)
<1> DEFINE v == AnswersRequest(st, q, k)
           to == ExpandTics(st, k.retransmitfrom)
<1>1. to \in Int /\ RESENDCOUNT \in Int
  BY ExpandsToInt, NetAssumption DEF Shaped
<1>2. Max({0, st.resendcount[q] - 1}) \in Int
  <2>1. st.resendcount[q] - 1 \in Int
    BY DEF Shaped
  <2> QED BY <2>1, MaxOfNone
<1> DEFINE most == Max({0, st.resendcount[q] - 1})
<1> HIDE DEF to, most
<1>3. CASE v = [st EXCEPT !.resendto[q] = to, !.resendcount[q] = RESENDCOUNT] /\ "retransmit" \in k.flags
  <2>1. /\ IsRecord(v, NodeFields) /\ Alike(st, v) /\ v.remoteresend = st.remoteresend
        /\ v.resendto = [st.resendto EXCEPT ![q] = to] /\ v.resendcount = [st.resendcount EXCEPT ![q] = RESENDCOUNT]
    BY <1>3 DEF Shaped, IsRecord, NodeFields, Alike
  <2> HIDE DEF v
  <2>2. Shaped(v)
    BY <1>1, <2>1 DEF Shaped, Alike
  <2> QED BY <1>3, <2>1, <2>2 DEF v, to, Answered
<1>4. CASE v = [st EXCEPT !.resendcount[q] = most]
  <2>1. /\ IsRecord(v, NodeFields) /\ Alike(st, v) /\ v.remoteresend = st.remoteresend
        /\ v.resendto = st.resendto /\ v.resendcount = [st.resendcount EXCEPT ![q] = most]
    BY <1>4 DEF Shaped, IsRecord, NodeFields, Alike
  <2> HIDE DEF v
  <2>2. Shaped(v)
    BY <1>2, <2>1 DEF Shaped, Alike, most
  <2> QED BY <2>1, <2>2 DEF v, Answered
<1>5. v = [st EXCEPT !.resendcount[q] = most] \/ (v = [st EXCEPT !.resendto[q] = to, !.resendcount[q] = RESENDCOUNT] /\ "retransmit" \in k.flags)
  BY DEF AnswersRequest, to, most
<1> HIDE DEF v
<1> QED BY <1>3, <1>4, <1>5 DEF v

Copied(st, v, q, k, start) ==
  /\ Shaped(v)
  /\ v.phase = st.phase /\ v.settings = st.settings /\ v.gotinfo = st.gotinfo /\ v.extratics = st.extratics
  /\ v.maketic = st.maketic /\ v.gametic = st.gametic /\ v.halted = st.halted /\ v.astray = st.astray
  /\ v.nodeingame = st.nodeingame /\ v.localcmds = st.localcmds /\ v.consistancy = st.consistancy
  /\ v.resendto = st.resendto
  /\ v.remoteresend = [st.remoteresend EXCEPT ![q] = FALSE]
  /\ v.nettics = [st.nettics EXCEPT ![q] = start + k.numtics]
  /\ v.netcmds = [st.netcmds EXCEPT ![q] = Received(st.nettics[q]..(start + k.numtics - 1), st.netcmds[q], k.cmds, start)]

\* A packet with what is due next is copied, and its sender's tics go on.
LEMMA CopiesGives ==
  ASSUME NEW st, Shaped(st), NEW q \in Nodes, NEW k, NEW start \in Int, k.numtics \in Nat,
         st.nettics[q] < start + k.numtics
  PROVE Copied(st, Copies(st, q, k, start), q, k, start)
<1> DEFINE v == Copies(st, q, k, start)
           ring == Received(st.nettics[q]..(start + k.numtics - 1), st.netcmds[q], k.cmds, start)
<1>1. v = [st EXCEPT !.remoteresend[q] = FALSE, !.nettics[q] = start + k.numtics, !.netcmds[q] = ring]
  BY DEF Copies, Received
<1> HIDE DEF ring
<1>2. start + k.numtics \in Nat /\ st.nettics[q] \in Nat
  BY DEF Shaped
<1>3. /\ IsRecord(v, NodeFields)
      /\ v.phase = st.phase /\ v.settings = st.settings /\ v.gotinfo = st.gotinfo /\ v.extratics = st.extratics
      /\ v.maketic = st.maketic /\ v.gametic = st.gametic /\ v.halted = st.halted /\ v.astray = st.astray
      /\ v.nodeingame = st.nodeingame /\ v.localcmds = st.localcmds /\ v.consistancy = st.consistancy
      /\ v.resendto = st.resendto /\ v.resendcount = st.resendcount
      /\ v.remoteresend = [st.remoteresend EXCEPT ![q] = FALSE]
      /\ v.nettics = [st.nettics EXCEPT ![q] = start + k.numtics]
      /\ v.netcmds = [st.netcmds EXCEPT ![q] = ring]
  BY <1>1 DEF Shaped, IsRecord, NodeFields
<1> HIDE DEF v
<1>4. v.remoteresend \in [Nodes -> BOOLEAN] /\ v.nettics \in [Nodes -> Nat] /\ v.netcmds = [r \in Nodes |-> v.netcmds[r]]
  BY <1>2, <1>3 DEF Shaped
<1>5. Shaped(v)
  BY <1>3, <1>4 DEF Shaped
<1> QED BY <1>3, <1>5 DEF v, ring, Copied

\* After that the node is as sane as before, if its sender's commands are in it.
LEMMA CopiesKeeps ==
  ASSUME NEW zero \in BOOLEAN, NEW p \in Nodes, NEW st, Sane(zero, p, st), NEW q \in Nodes, NEW k, NEW start \in Int,
         k.numtics \in Nat, start <= st.nettics[q], st.nettics[q] < start + k.numtics,
         st.nodeingame[q] => Carries(zero, k, start + k.numtics)
  PROVE Sane(zero, p, Copies(st, q, k, start))
<1> DEFINE v == Copies(st, q, k, start)
           ring == Received(st.nettics[q]..(start + k.numtics - 1), st.netcmds[q], k.cmds, start)
<1>1. Shaped(st) /\ Behind(p, st) /\ Filled(zero, st) /\ ~st.halted /\ ~st.astray
  BY DEF Sane
<1>a. Copied(st, v, q, k, start)
  BY <1>1, CopiesGives
<1> HIDE DEF v
<1>2. /\ Shaped(v)
      /\ v.maketic = st.maketic /\ v.gametic = st.gametic /\ v.halted = st.halted /\ v.astray = st.astray
      /\ v.nodeingame = st.nodeingame /\ v.localcmds = st.localcmds /\ v.consistancy = st.consistancy
      /\ v.remoteresend = [st.remoteresend EXCEPT ![q] = FALSE]
      /\ v.nettics = [st.nettics EXCEPT ![q] = start + k.numtics]
      /\ v.netcmds = [st.netcmds EXCEPT ![q] = ring]
  BY <1>a DEF Copied
<1>3. Behind(p, v)
  <2>1. v.nodeingame[p] /\ ~v.remoteresend[p] /\ v.gametic <= v.maketic /\ v.maketic <= v.gametic + LIMIT
    BY <1>1, <1>2 DEF Behind, Shaped
  <2>2. ASSUME NEW r \in Nodes, v.nodeingame[r] PROVE v.gametic <= v.nettics[r]
    <3>1. st.gametic <= st.nettics[r] /\ st.gametic \in Nat /\ st.nettics \in [Nodes -> Nat]
      BY <1>1, <1>2, <2>2 DEF Behind, Shaped
    <3> QED BY <1>2, <3>1
  <2> QED BY <2>1, <2>2 DEF Behind
<1>4. ASSUME st.nodeingame[q] PROVE Commands(zero, ring, start + k.numtics)
  <2>1. Commands(zero, st.netcmds[q], st.nettics[q]) /\ st.nettics[q] \in Nat
    BY <1>1, <1>4 DEF Filled, Shaped
  <2>2. k.numtics <= BACKUPTICS
    BY <1>4 DEF Carries
  <2>3. k.cmds = [j \in 1..k.numtics |-> Cmd(zero, start + j - 1)]
    <3>1. (start + k.numtics) - k.numtics = start
      OBVIOUS
    <3> QED BY <1>4, <3>1 DEF Carries
  <2> QED BY <2>1, <2>2, <2>3, RingReceived
<1>5. Filled(zero, v)
  <2> HIDE DEF ring
  <2> SUFFICES ASSUME NEW r \in Nodes, v.nodeingame[r]
               PROVE Commands(zero, v.netcmds[r], v.nettics[r]) /\ Places(zero, v.consistancy[r], v.gametic)
    BY <1>1, <1>2 DEF Filled
  <2>1. Places(zero, v.consistancy[r], v.gametic)
    BY <1>1, <1>2 DEF Filled
  <2>2. CASE r = q
    <3>1. v.netcmds[r] = ring /\ v.nettics[r] = start + k.numtics
      BY <1>1, <1>2, <2>2 DEF Shaped
    <3> QED BY <1>2, <1>4, <2>1, <2>2, <3>1
  <2>3. CASE r # q
    <3>1. v.netcmds[r] = st.netcmds[r] /\ v.nettics[r] = st.nettics[r]
      BY <1>1, <1>2, <2>3 DEF Shaped
    <3> QED BY <1>1, <1>2, <2>1, <3>1 DEF Filled
  <2> QED BY <2>2, <2>3
<1> QED BY <1>1, <1>2, <1>3, <1>5 DEF Sane, v

(* ----------------------------------------------------------------------- *)
(* NetUpdate at a node                                                      *)
(* ----------------------------------------------------------------------- *)

\* What making a command leaves as it is.
Kept(st, v) ==
  /\ v.phase = st.phase /\ v.settings = st.settings /\ v.gotinfo = st.gotinfo /\ v.extratics = st.extratics
  /\ v.gametic = st.gametic /\ v.nettics = st.nettics /\ v.nodeingame = st.nodeingame
  /\ v.resendto = st.resendto /\ v.remoteresend = st.remoteresend

\* A command is made where the last BACKUPTICS before it have been run.
LEMMA MakingKeeps ==
  ASSUME NEW zero \in BOOLEAN, NEW p \in Nodes, NEW st, Sane(zero, p, st), st.maketic - st.gametic < LIMIT
  PROVE LET v == G_BuildTiccmd(st, p) IN Sane(zero, p, v) /\ Kept(st, v) /\ v.maketic = st.maketic + 1
<1> DEFINE m == st.maketic
           v == G_BuildTiccmd(st, p)
<1>1. Shaped(st) /\ Behind(p, st) /\ Filled(zero, st) /\ ~st.halted /\ ~st.astray
  BY DEF Sane
<1>2. m \in Nat /\ st.gametic \in Nat /\ st.gametic <= m /\ st.nodeingame[p]
  BY <1>1 DEF Shaped, Behind
<1>3. Command(st, p) = Cmd(zero, m)
  <2>1. Places(zero, st.consistancy[p], st.gametic)
    BY <1>1, <1>2 DEF Filled
  <2>2. m - BACKUPTICS \in (st.gametic - BACKUPTICS)..(st.gametic - 1)
    BY <1>2, Numbers
  <2>3. st.consistancy[p][Slot(m)] = Was(zero, m - BACKUPTICS)
    BY <1>2, <2>1, <2>2, SlotBack DEF Places
  <2>4. Was(zero, m) = m
    BY <1>2 DEF Was
  <2> QED BY <2>3, <2>4 DEF Command, Cmd
<1> DEFINE ring == [st.localcmds EXCEPT ![Slot(m)] = Cmd(zero, m)]
<1>4. Commands(zero, ring, m + 1)
  BY <1>1, <1>2, RingPlus DEF Filled
<1>5. /\ IsRecord(v, NodeFields) /\ Kept(st, v) /\ v.maketic = m + 1 /\ v.localcmds = ring
      /\ v.netcmds = st.netcmds /\ v.consistancy = st.consistancy /\ v.resendcount = st.resendcount
      /\ v.halted = st.halted /\ v.astray = st.astray
  <2>1. v = [st EXCEPT !.localcmds = ring, !.maketic = m + 1]
    BY <1>1, <1>3 DEF G_BuildTiccmd, Shaped, IsRecord, NodeFields
  <2> HIDE DEF ring
  <2> QED BY <1>1, <2>1 DEF Shaped, IsRecord, NodeFields, Kept
<1> HIDE DEF v, ring
<1>6. Shaped(v)
  BY <1>1, <1>2, <1>5 DEF Shaped, Kept
<1>7. Behind(p, v)
  BY <1>1, <1>2, <1>5, Numbers DEF Behind, Kept
<1>8. Filled(zero, v)
  BY <1>1, <1>4, <1>5 DEF Filled, Kept
<1> QED BY <1>1, <1>5, <1>6, <1>7, <1>8 DEF Sane, v

\* What is sent next starts at the end again, but for extratics.
LEMMA SentGives ==
  ASSUME NEW zero \in BOOLEAN, NEW p \in Nodes, NEW st, Sane(zero, p, st)
  PROVE LET v == Sent(st)
        IN /\ Sane(zero, p, v) /\ Alike(st, v) /\ v.remoteresend = st.remoteresend
           /\ \A q \in Nodes : st.nodeingame[q] => v.resendto[q] = st.maketic - st.extratics
<1> DEFINE v == Sent(st)
           to == [q \in Nodes |-> IF st.nodeingame[q] THEN st.maketic - st.extratics ELSE st.resendto[q]]
<1>1. Shaped(st)
  BY DEF Sane
<1>2. v = [st EXCEPT !.resendto = to]
  BY <1>1 DEF Sent, Shaped, IsRecord, NodeFields
<1>3. to \in [Nodes -> Int]
  BY <1>1 DEF Shaped
<1>4. \A q \in Nodes : st.nodeingame[q] => to[q] = st.maketic - st.extratics
  OBVIOUS
<1> HIDE DEF to
<1>5. /\ IsRecord(v, NodeFields) /\ Alike(st, v) /\ v.remoteresend = st.remoteresend /\ v.resendto = to
      /\ v.resendcount = st.resendcount
  BY <1>1, <1>2 DEF Shaped, IsRecord, NodeFields, Alike
<1> HIDE DEF v
<1>6. Shaped(v)
  BY <1>1, <1>3, <1>5 DEF Shaped, Alike
<1>7. Sane(zero, p, v)
  BY <1>5, <1>6, SaneAlike DEF Sane, Behind
<1> QED BY <1>4, <1>5, <1>7 DEF v

\* What a packet carries.
LEMMA PacketCarries ==
  ASSUME NEW zero \in BOOLEAN, NEW p \in Nodes, NEW st, Sane(zero, p, st), NEW q \in Nodes, st.nodeingame[q],
         Asked(st, BACKUPTICS)
  PROVE LET k == PacketTo(st, p, q)
        IN /\ Carries(zero, k, st.maketic) /\ k.numtics \in Nat /\ k.numtics = st.maketic - st.resendto[q]
           /\ k.player = p /\ k.to = q /\ k.starttic = Low(st.resendto[q]) /\ k.starttic \in Int /\ k.retransmitfrom \in Int
           /\ "setup" \notin k.flags /\ "exit" \notin k.flags
           /\ "retransmit" \in k.flags <=> st.remoteresend[q]
           /\ st.remoteresend[q] => k.retransmitfrom = Low(st.nettics[q])
<1> DEFINE k == PacketTo(st, p, q)
           from == st.resendto[q]
           m == st.maketic
<1>1. /\ m \in Nat /\ from \in Int /\ st.nettics[q] \in Nat /\ from <= m /\ m - from <= BACKUPTICS
      /\ Commands(zero, st.localcmds, m) /\ st.remoteresend[q] \in BOOLEAN
  BY DEF Sane, Shaped, Asked, Filled
<1>2. BYTE \in Nat /\ BYTE > 0
  BY Numbers
<1>3. Low(from) \in Int /\ Low(st.nettics[q]) \in Int
  BY <1>1, <1>2, Remainder DEF Low
<1>4. /\ k.numtics = m - from /\ k.player = p /\ k.to = q /\ k.starttic = Low(from)
      /\ k.retransmitfrom = (IF st.remoteresend[q] THEN Low(st.nettics[q]) ELSE 0)
      /\ k.flags = (IF st.remoteresend[q] THEN {"retransmit"} ELSE {})
      /\ k.cmds = [j \in 1..(m - from) |-> st.localcmds[Slot(from + j - 1)]]
  BY DEF PacketTo
<1> HIDE DEF k
<1>5. m - k.numtics = from
  BY <1>1, <1>4
<1>6. k.cmds = [j \in 1..(m - from) |-> Cmd(zero, from + j - 1)]
  <2>1. ASSUME NEW j \in 1..(m - from) PROVE st.localcmds[Slot(from + j - 1)] = Cmd(zero, from + j - 1)
    <3>1. from + j - 1 \in (m - BACKUPTICS)..(m - 1)
      BY <1>1, Numbers
    <3> QED BY <1>1, <3>1 DEF Commands
  <2> QED BY <1>4, <2>1
<1>7. Carries(zero, k, m)
  BY <1>1, <1>4, <1>5, <1>6 DEF Carries
<1>8. k.numtics \in Nat
  BY <1>1, <1>4
<1>9. k.retransmitfrom \in Int /\ ("retransmit" \in k.flags <=> st.remoteresend[q]) /\ "setup" \notin k.flags /\ "exit" \notin k.flags
  BY <1>1, <1>3, <1>4
<1> QED BY <1>3, <1>4, <1>7, <1>8, <1>9 DEF k

\* A node's own packet gives it its own command.
LEMMA OwnPacketKeeps ==
  ASSUME NEW zero \in BOOLEAN, NEW p \in Nodes, NEW made, Sane(zero, p, made), Asked(made, BACKUPTICS),
         made.nettics[p] \in {made.maketic - 1, made.maketic}, made.resendto[p] <= made.nettics[p]
  PROVE LET v == GetPacket(Sent(made), PacketTo(made, p, p))
        IN /\ Sane(zero, p, v) /\ v.nettics[p] = v.maketic /\ Asked(v, 1)
           /\ v.phase = made.phase /\ v.settings = made.settings /\ v.maketic = made.maketic /\ v.gametic = made.gametic
           /\ v.nodeingame = made.nodeingame
           /\ \A q \in Nodes \ {p} : v.nettics[q] = made.nettics[q]
<1> DEFINE w == Sent(made)
           k == PacketTo(made, p, p)
           from == made.resendto[p]
           u == AnswersRequest(w, p, k)
           v == GetPacket(w, k)
           m == made.maketic
<1>1. /\ made.nodeingame[p] /\ ~made.remoteresend[p] /\ m \in Nat /\ from \in Int /\ made.nettics \in [Nodes -> Nat]
      /\ made.extratics \in {0, 1}
  BY DEF Sane, Shaped, Behind
<1>2. from <= m /\ m - from <= BACKUPTICS
  BY <1>1 DEF Asked
<1>3. /\ Carries(zero, k, m) /\ k.numtics \in Nat /\ k.numtics = m - from
      /\ k.player = p /\ k.starttic = Low(from) /\ k.retransmitfrom \in Int
      /\ "setup" \notin k.flags /\ "exit" \notin k.flags /\ "retransmit" \notin k.flags
  BY <1>1, PacketCarries
<1>4. /\ Sane(zero, p, w) /\ Alike(made, w) /\ w.remoteresend = made.remoteresend
      /\ \A q \in Nodes : made.nodeingame[q] => w.resendto[q] = m - made.extratics
  BY SentGives
<1> HIDE DEF w, k, u
<1>5. Answered(w, u, p, k)
  BY <1>3, <1>4, AnswersRequestGives DEF Sane, u
<1>6. Sane(zero, p, u) /\ Alike(w, u) /\ u.resendto = w.resendto
  <2>1. Shaped(u) /\ Alike(w, u) /\ u.remoteresend = w.remoteresend /\ u.resendto = w.resendto
    BY <1>3, <1>5 DEF Answered
  <2> QED BY <1>1, <1>4, <2>1, SaneAlike
<1>7. Alike(made, u)
  BY <1>4, <1>6 DEF Alike
<1>8. ExpandTics(w, k.starttic) = from
  <2>1. w.maketic = m
    BY <1>4 DEF Alike
  <2>2. from - m <= WINDOW /\ m - from <= WINDOW
    BY <1>1, <1>2, Numbers
  <2> QED BY <1>1, <1>3, <2>1, <2>2, Expanded
<1>9. from + k.numtics = m /\ w.nettics = made.nettics
  BY <1>1, <1>3, <1>4 DEF Alike
<1>10. v = IF m <= made.nettics[p] THEN u
           ELSE IF from > made.nettics[p] THEN [u EXCEPT !.remoteresend[p] = TRUE] ELSE Copies(u, p, k, from)
  BY <1>3, <1>8, <1>9 DEF GetPacket, u
<1>11. ASSUME NEW x, x.resendto = u.resendto, x.nodeingame = made.nodeingame, x.maketic = m
       PROVE Asked(x, 1)
  BY <1>1, <1>4, <1>6, <1>11 DEF Asked
<1>12. CASE m <= made.nettics[p]
  <2>1. v = u /\ made.nettics[p] = m
    BY <1>1, <1>10, <1>12
  <2>2. Asked(u, 1)
    BY <1>7, <1>11 DEF Alike
  <2>3. /\ Sane(zero, p, u) /\ u.nettics = made.nettics /\ u.phase = made.phase /\ u.settings = made.settings
        /\ u.maketic = m /\ u.gametic = made.gametic /\ u.nodeingame = made.nodeingame
    BY <1>6, <1>7 DEF Alike
  <2> HIDE DEF v
  <2> QED BY <2>1, <2>2, <2>3 DEF v, w, k
<1>13. CASE ~(m <= made.nettics[p])
  <2>1. v = Copies(u, p, k, from)
    BY <1>1, <1>10, <1>13
  <2> DEFINE c == Copies(u, p, k, from)
  <2>2. from <= u.nettics[p] /\ u.nettics[p] < from + k.numtics
    BY <1>1, <1>7, <1>9, <1>13 DEF Alike
  <2>3. Copied(u, c, p, k, from)
    BY <1>1, <1>3, <1>6, <2>2, CopiesGives DEF Sane
  <2>4. Sane(zero, p, c)
    BY <1>1, <1>3, <1>6, <1>9, <2>2, CopiesKeeps
  <2> HIDE DEF c
  <2>5. /\ c.nettics = [u.nettics EXCEPT ![p] = m] /\ c.resendto = u.resendto /\ c.nodeingame = u.nodeingame
        /\ c.maketic = u.maketic /\ c.phase = u.phase /\ c.settings = u.settings /\ c.gametic = u.gametic
    BY <1>9, <2>3 DEF Copied
  <2>6. Asked(c, 1)
    BY <1>7, <1>11, <2>5 DEF Alike
  <2>7. c.nettics[p] = m /\ \A q \in Nodes \ {p} : c.nettics[q] = made.nettics[q]
    BY <1>1, <1>7, <2>5 DEF Alike
  <2>8. v = c
    BY <2>1 DEF c
  <2> HIDE DEF v
  <2> QED BY <1>7, <2>4, <2>5, <2>6, <2>7, <2>8 DEF Alike, v, w, k
<1> QED BY <1>12, <1>13 DEF w, k

\* One tic of the clock at a node: what is made, what is sent, and how it is left.
LEMMA UpdateKeeps ==
  ASSUME NEW zero \in BOOLEAN, NEW p \in Nodes, NEW st, Settled(zero, p, st), Near(st),
         NEW made, made = st \/ (made = G_BuildTiccmd(st, p) /\ st.maketic - st.gametic < LIMIT)
  PROVE LET v == TryRunTics(GetPacket(Sent(made), PacketTo(made, p, p)))
        IN /\ ~TooMany(made) /\ Sane(zero, p, made) /\ Asked(made, BACKUPTICS) /\ Kept(st, made)
           /\ made.maketic \in {st.maketic, st.maketic + 1}
           /\ Settled(zero, p, v)
           /\ v.phase = st.phase /\ v.settings = st.settings /\ v.maketic = made.maketic
           /\ v.nodeingame = st.nodeingame /\ \A q \in Nodes \ {p} : v.nettics[q] = st.nettics[q]
<1> DEFINE u == GetPacket(Sent(made), PacketTo(made, p, p))
           v == TryRunTics(u)
<1>1. Sane(zero, p, st) /\ st.nettics[p] = st.maketic /\ Asked(st, BACKUPTICS - 1)
  BY DEF Settled
<1>2. st.maketic \in Nat /\ st.gametic \in Nat /\ st.nodeingame[p] /\ st.resendto \in [Nodes -> Int] /\ st.nettics \in [Nodes -> Nat]
  BY <1>1 DEF Sane, Shaped, Behind
<1>3. Sane(zero, p, made) /\ Kept(st, made) /\ made.maketic \in {st.maketic, st.maketic + 1}
  <2>1. CASE made = st
    BY <1>1, <2>1 DEF Kept
  <2>2. CASE made = G_BuildTiccmd(st, p) /\ st.maketic - st.gametic < LIMIT
    BY <1>1, <2>2, MakingKeeps
  <2> QED BY <2>1, <2>2
<1>4. Asked(made, BACKUPTICS) /\ ~TooMany(made)
  <2>1. ASSUME NEW q \in Nodes, st.nodeingame[q]
        PROVE st.resendto[q] <= made.maketic /\ made.maketic - st.resendto[q] <= BACKUPTICS
    <3>1. st.resendto[q] <= st.maketic /\ st.maketic - st.resendto[q] <= BACKUPTICS - 1 /\ st.resendto[q] \in Int
      BY <1>1, <1>2, <2>1 DEF Asked
    <3> QED BY <1>2, <1>3, <3>1, Numbers
  <2>2. ASSUME NEW q \in Nodes PROVE made.maketic - st.resendto[q] \in Int
    BY <1>2, <1>3
  <2> QED BY <1>3, <2>1, <2>2, Numbers DEF Asked, TooMany, Kept
<1>5. made.nettics[p] \in {made.maketic - 1, made.maketic} /\ made.resendto[p] <= made.nettics[p]
  BY <1>1, <1>2, <1>3 DEF Kept, Asked
<1>6. /\ Sane(zero, p, u) /\ u.nettics[p] = u.maketic /\ Asked(u, 1)
      /\ u.phase = made.phase /\ u.settings = made.settings /\ u.maketic = made.maketic /\ u.gametic = made.gametic
      /\ u.nodeingame = made.nodeingame
      /\ \A q \in Nodes \ {p} : u.nettics[q] = made.nettics[q]
  BY <1>3, <1>4, <1>5, OwnPacketKeeps
<1> HIDE DEF u
<1>7. Near(u)
  <2> SUFFICES ASSUME NEW q \in Nodes, u.nodeingame[q] PROVE u.nettics[q] <= u.gametic + BACKUPTICS
    BY DEF Near
  <2>1. CASE q = p
    <3>1. u.maketic <= u.gametic + LIMIT /\ u.gametic \in Nat /\ u.maketic \in Nat
      BY <1>6 DEF Sane, Behind, Shaped
    <3> QED BY <1>6, <2>1, <3>1, Numbers
  <2>2. CASE q # p
    BY <1>3, <1>6, <2>2 DEF Near, Kept
  <2> QED BY <2>1, <2>2
<1>8. Sane(zero, p, v) /\ SameBut(u, v)
  BY <1>6, <1>7, TryRunTicsKeeps
<1> HIDE DEF v
<1>9. Asked(v, BACKUPTICS - 1)
  <2> SUFFICES ASSUME NEW q \in Nodes, v.nodeingame[q]
               PROVE v.resendto[q] <= v.maketic /\ v.maketic - v.resendto[q] <= BACKUPTICS - 1
    BY DEF Asked
  <2>1. u.resendto[q] <= u.maketic /\ u.maketic - u.resendto[q] <= 1 /\ u.resendto[q] \in Int /\ u.maketic \in Nat
    BY <1>6, <1>8 DEF Asked, SameBut, Sane, Shaped
  <2> QED BY <1>8, <2>1, Numbers DEF SameBut
<1>10. Settled(zero, p, v)
  BY <1>6, <1>8, <1>9 DEF Settled, SameBut
<1>11. /\ v.phase = st.phase /\ v.settings = st.settings /\ v.maketic = made.maketic
       /\ v.nodeingame = st.nodeingame /\ \A q \in Nodes \ {p} : v.nettics[q] = st.nettics[q]
  BY <1>3, <1>6, <1>8 DEF Kept, SameBut
<1> QED BY <1>3, <1>4, <1>10, <1>11 DEF v, u

(* ----------------------------------------------------------------------- *)
(* A packet of another node                                                 *)
(* ----------------------------------------------------------------------- *)

\* A packet is timely when its tics and those it asks for are around now.
Timely(zero, st, k, bound) ==
  \E end \in Int :
    /\ Carries(zero, k, end) /\ end <= bound
    /\ (end - k.numtics) - st.maketic <= WINDOW /\ st.maketic - (end - k.numtics) <= WINDOW
    /\ "retransmit" \in k.flags =>
         \E r \in Int : k.retransmitfrom = Low(r) /\ r <= st.maketic /\ st.maketic - r <= BACKUPTICS - 1

IsData(k) == "setup" \notin k.flags /\ "exit" \notin k.flags

\* What a packet from q may change.
Turned(st, v, k, q, bound) ==
  /\ v.phase = st.phase /\ v.settings = st.settings /\ v.maketic = st.maketic
  /\ v.nodeingame = st.nodeingame \/ ("exit" \in k.flags /\ v.nodeingame = [st.nodeingame EXCEPT ![q] = FALSE])
  /\ \A r \in Nodes \ {q} : v.nettics[r] = st.nettics[r]
  /\ st.nettics[q] <= v.nettics[q]
  /\ st.nodeingame[q] => v.nettics[q] <= bound

LEMMA ExitKeeps ==
  ASSUME NEW zero \in BOOLEAN, NEW p \in Nodes, NEW st, Settled(zero, p, st), NEW q \in Nodes \ {p}
  PROVE LET u == [st EXCEPT !.nodeingame[q] = FALSE]
        IN /\ Settled(zero, p, u) /\ u.nodeingame = [st.nodeingame EXCEPT ![q] = FALSE]
           /\ u.phase = st.phase /\ u.settings = st.settings /\ u.maketic = st.maketic /\ u.gametic = st.gametic
           /\ u.nettics = st.nettics
<1> DEFINE u == [st EXCEPT !.nodeingame[q] = FALSE]
<1>1. Sane(zero, p, st) /\ st.nettics[p] = st.maketic /\ Asked(st, BACKUPTICS - 1) /\ Shaped(st)
  BY DEF Settled, Sane
<1>2. /\ IsRecord(u, NodeFields) /\ u.nodeingame = [st.nodeingame EXCEPT ![q] = FALSE]
      /\ u.phase = st.phase /\ u.settings = st.settings /\ u.gotinfo = st.gotinfo /\ u.extratics = st.extratics
      /\ u.maketic = st.maketic /\ u.gametic = st.gametic /\ u.halted = st.halted /\ u.astray = st.astray
      /\ u.nettics = st.nettics /\ u.localcmds = st.localcmds /\ u.netcmds = st.netcmds /\ u.consistancy = st.consistancy
      /\ u.resendto = st.resendto /\ u.resendcount = st.resendcount /\ u.remoteresend = st.remoteresend
  BY <1>1 DEF Shaped, IsRecord, NodeFields
<1> HIDE DEF u
<1>3. Shaped(u)
  BY <1>1, <1>2 DEF Shaped
<1>4. \A r \in Nodes : u.nodeingame[r] => st.nodeingame[r]
  BY <1>1, <1>2 DEF Shaped
<1>5. Behind(p, u)
  <2>1. u.nodeingame[p]
    BY <1>1, <1>2 DEF Sane, Behind, Shaped
  <2> QED BY <1>1, <1>2, <1>4, <2>1 DEF Sane, Behind
<1>6. Filled(zero, u)
  BY <1>1, <1>2, <1>4 DEF Sane, Filled
<1>7. Asked(u, BACKUPTICS - 1)
  BY <1>1, <1>2, <1>4 DEF Asked
<1> QED BY <1>1, <1>2, <1>3, <1>5, <1>6, <1>7 DEF Settled, Sane, u

LEMMA DataKeeps ==
  ASSUME NEW zero \in BOOLEAN, NEW p \in Nodes, NEW st, Settled(zero, p, st),
         NEW k, NEW bound \in Int, NEW q \in Nodes \ {p}, k.player = q,
         k.numtics \in Nat, k.starttic \in Int, k.retransmitfrom \in Int, IsData(k),
         st.nodeingame[q] => st.nettics[q] <= bound /\ Timely(zero, st, k, bound)
  PROVE LET u == GetPacket(st, k)
        IN Settled(zero, p, u) /\ Turned(st, u, k, q, bound) /\ u.gametic = st.gametic /\ u.nodeingame = st.nodeingame
<1> DEFINE start == ExpandTics(st, k.starttic)
           w == AnswersRequest(st, q, k)
           u == GetPacket(st, k)
<1>1. Sane(zero, p, st) /\ st.nettics[p] = st.maketic /\ Asked(st, BACKUPTICS - 1) /\ Shaped(st)
  BY DEF Settled, Sane
<1>2. start \in Int
  BY <1>1, ExpandsToInt DEF Shaped
<1>3. Answered(st, w, q, k)
  BY <1>1, AnswersRequestGives
<1>4. ASSUME NEW end \in Int, Carries(zero, k, end), (end - k.numtics) - st.maketic <= WINDOW, st.maketic - (end - k.numtics) <= WINDOW
      PROVE start = end - k.numtics
  <2>1. st.maketic \in Int /\ end - k.numtics \in Int
    BY <1>1 DEF Shaped
  <2>2. k.starttic = Low(end - k.numtics)
    BY <1>4 DEF Carries
  <2> QED BY <1>4, <2>1, <2>2, Expanded
<1>5. u = IF start + k.numtics <= st.nettics[q] THEN w
          ELSE IF start > st.nettics[q] THEN [w EXCEPT !.remoteresend[q] = TRUE] ELSE Copies(w, q, k, start)
  BY DEF GetPacket, IsData
<1> HIDE DEF start, w, u
<1>6. Alike(st, w) /\ Shaped(w) /\ w.remoteresend = st.remoteresend
  BY <1>3 DEF Answered
<1>7. Sane(zero, p, w)
  BY <1>1, <1>6, SaneAlike DEF Sane, Behind
<1>8. ASSUME NEW r \in Nodes, st.nodeingame[r]
      PROVE w.resendto[r] <= st.maketic /\ st.maketic - w.resendto[r] <= BACKUPTICS - 1
  <2>1. st.resendto[r] <= st.maketic /\ st.maketic - st.resendto[r] <= BACKUPTICS - 1
    BY <1>1, <1>8 DEF Asked
  <2>2. CASE w.resendto = st.resendto
    BY <2>1, <2>2
  <2>3. CASE r # q /\ w.resendto = [st.resendto EXCEPT ![q] = ExpandTics(st, k.retransmitfrom)]
    BY <1>1, <2>1, <2>3 DEF Shaped
  <2>4. CASE r = q /\ "retransmit" \in k.flags /\ w.resendto = [st.resendto EXCEPT ![q] = ExpandTics(st, k.retransmitfrom)]
    <3>1. PICK x \in Int : k.retransmitfrom = Low(x) /\ x <= st.maketic /\ st.maketic - x <= BACKUPTICS - 1
      BY <1>8, <2>4 DEF Timely
    <3>2. st.maketic \in Int /\ x - st.maketic <= WINDOW /\ st.maketic - x <= WINDOW
      BY <1>1, <3>1, Numbers DEF Shaped
    <3>3. ExpandTics(st, k.retransmitfrom) = x
      BY <3>1, <3>2, Expanded
    <3>4. w.resendto[q] = x
      BY <1>1, <2>4, <3>3 DEF Shaped
    <3> QED BY <2>4, <3>1, <3>4
  <2> QED BY <1>3, <2>2, <2>3, <2>4 DEF Answered
<1>9. ASSUME NEW x, Sane(zero, p, x), x.nodeingame = st.nodeingame, x.maketic = st.maketic, x.resendto = w.resendto,
             x.nettics[p] = st.nettics[p]
      PROVE Settled(zero, p, x)
  BY <1>1, <1>8, <1>9 DEF Settled, Asked
<1>10. st.nettics \in [Nodes -> Nat]
  BY <1>1 DEF Shaped
<1>11. CASE start + k.numtics <= st.nettics[q]
  <2>1. u = w
    BY <1>5, <1>11
  <2>2. Settled(zero, p, w)
    BY <1>6, <1>7, <1>9 DEF Alike
  <2>3. Turned(st, w, k, q, bound)
    BY <1>6, <1>10 DEF Turned, Alike
  <2>4. u.gametic = st.gametic /\ u.nodeingame = st.nodeingame
    BY <1>6, <2>1 DEF Alike
  <2> QED BY <2>1, <2>2, <2>3, <2>4 DEF u
<1>12. CASE ~(start + k.numtics <= st.nettics[q]) /\ start > st.nettics[q]
  <2> DEFINE x == [w EXCEPT !.remoteresend[q] = TRUE]
  <2>1. u = x
    BY <1>5, <1>12
  <2>2. /\ IsRecord(x, NodeFields) /\ Alike(w, x) /\ x.resendto = w.resendto /\ x.resendcount = w.resendcount
        /\ x.remoteresend = [w.remoteresend EXCEPT ![q] = TRUE]
    BY <1>6 DEF Shaped, IsRecord, NodeFields, Alike
  <2> HIDE DEF x
  <2>3. Shaped(x) /\ ~x.remoteresend[p]
    <3>1. x.remoteresend \in [Nodes -> BOOLEAN] /\ ~x.remoteresend[p]
      BY <1>6, <1>7, <2>2 DEF Shaped, Sane, Behind
    <3> QED BY <1>6, <2>2, <3>1 DEF Shaped, Alike
  <2>4. Sane(zero, p, x) /\ Alike(st, x)
    BY <1>6, <1>7, <2>2, <2>3, SaneAlike DEF Alike
  <2>5. Settled(zero, p, x)
    BY <1>9, <2>2, <2>4 DEF Alike
  <2>6. Turned(st, x, k, q, bound)
    BY <1>10, <2>4 DEF Turned, Alike
  <2>7. x.gametic = st.gametic /\ x.nodeingame = st.nodeingame
    BY <2>4 DEF Alike
  <2> QED BY <2>1, <2>5, <2>6, <2>7 DEF u
<1>13. CASE ~(start + k.numtics <= st.nettics[q]) /\ ~(start > st.nettics[q])
  <2> DEFINE x == Copies(w, q, k, start)
  <2>1. u = x
    BY <1>5, <1>13
  <2>2. w.nettics = st.nettics /\ w.nodeingame = st.nodeingame
    BY <1>6 DEF Alike
  <2>3. start <= st.nettics[q] /\ st.nettics[q] < start + k.numtics
    BY <1>2, <1>10, <1>13
  <2>4. ASSUME st.nodeingame[q] PROVE Carries(zero, k, start + k.numtics) /\ start + k.numtics <= bound
    <3>1. PICK end \in Int : /\ Carries(zero, k, end) /\ end <= bound
                             /\ (end - k.numtics) - st.maketic <= WINDOW /\ st.maketic - (end - k.numtics) <= WINDOW
      BY <2>4 DEF Timely
    <3>2. start = end - k.numtics
      BY <1>4, <3>1
    <3>3. start + k.numtics = end
      BY <3>2
    <3> QED BY <3>1, <3>3
  <2>5. Copied(w, x, q, k, start)
    BY <1>2, <1>6, <2>2, <2>3, CopiesGives
  <2>6. Sane(zero, p, x)
    BY <1>2, <1>7, <2>2, <2>3, <2>4, CopiesKeeps
  <2> HIDE DEF x
  <2>7. /\ x.phase = st.phase /\ x.settings = st.settings /\ x.maketic = st.maketic /\ x.gametic = st.gametic
        /\ x.nodeingame = st.nodeingame /\ x.resendto = w.resendto
        /\ x.nettics = [st.nettics EXCEPT ![q] = start + k.numtics]
    BY <1>6, <2>5 DEF Copied, Alike
  <2>8. x.nettics[q] = start + k.numtics /\ \A r \in Nodes \ {q} : x.nettics[r] = st.nettics[r]
    BY <1>10, <2>7
  <2>9. Settled(zero, p, x)
    BY <1>9, <2>6, <2>7, <2>8
  <2>10. Turned(st, x, k, q, bound)
    BY <1>2, <1>10, <2>3, <2>4, <2>7, <2>8 DEF Turned
  <2> QED BY <2>1, <2>7, <2>9, <2>10 DEF u
<1> QED BY <1>11, <1>12, <1>13

\* A packet, whatever it is, leaves a node settled.
LEMMA ReceiveKeeps ==
  ASSUME NEW zero \in BOOLEAN, NEW p \in Nodes, NEW st, Settled(zero, p, st), Near(st),
         NEW k, NEW bound \in Int, NEW q \in Nodes \ {p}, k.player = q,
         k.numtics \in Nat, k.starttic \in Int, k.retransmitfrom \in Int,
         st.nodeingame[q] => st.nettics[q] <= bound /\ bound <= st.gametic + BACKUPTICS,
         st.nodeingame[q] /\ IsData(k) => Timely(zero, st, k, bound)
  PROVE LET v == TryRunTics(GetPacket(st, k)) IN Settled(zero, p, v) /\ Turned(st, v, k, q, bound)
<1> DEFINE u == GetPacket(st, k)
           v == TryRunTics(u)
<1>1. st.nettics \in [Nodes -> Nat] /\ st.nodeingame \in [Nodes -> BOOLEAN]
  BY DEF Settled, Sane, Shaped
<1>2. /\ Settled(zero, p, u) /\ Turned(st, u, k, q, bound) /\ u.gametic = st.gametic
      /\ \A r \in Nodes : u.nodeingame[r] => st.nodeingame[r]
  <2>1. CASE "setup" \in k.flags
    <3>1. u = st
      BY <2>1 DEF GetPacket
    <3> QED BY <1>1, <3>1 DEF Turned
  <2>2. CASE "setup" \notin k.flags /\ "exit" \in k.flags
    <3> DEFINE x == [st EXCEPT !.nodeingame[q] = FALSE]
    <3>1. u = x
      BY <2>2 DEF GetPacket
    <3>2. /\ Settled(zero, p, x) /\ x.nodeingame = [st.nodeingame EXCEPT ![q] = FALSE]
          /\ x.phase = st.phase /\ x.settings = st.settings /\ x.maketic = st.maketic /\ x.gametic = st.gametic
          /\ x.nettics = st.nettics
      BY ExitKeeps
    <3> HIDE DEF x, u
    <3>3. Turned(st, x, k, q, bound)
      BY <1>1, <2>2, <3>2 DEF Turned
    <3>4. \A r \in Nodes : x.nodeingame[r] => st.nodeingame[r]
      BY <1>1, <3>2
    <3> QED BY <3>1, <3>2, <3>3, <3>4
  <2>3. CASE IsData(k)
    <3>1. Settled(zero, p, u) /\ Turned(st, u, k, q, bound) /\ u.gametic = st.gametic /\ u.nodeingame = st.nodeingame
      BY <2>3, DataKeeps
    <3> QED BY <3>1
  <2> QED BY <2>1, <2>2, <2>3 DEF IsData
<1> HIDE DEF u
<1>3. Sane(zero, p, u) /\ u.nettics[p] = u.maketic /\ Asked(u, BACKUPTICS - 1)
  BY <1>2 DEF Settled
<1>4. Near(u)
  <2> SUFFICES ASSUME NEW r \in Nodes, u.nodeingame[r] PROVE u.nettics[r] <= u.gametic + BACKUPTICS
    BY DEF Near
  <2>1. st.nodeingame[r]
    BY <1>2
  <2>2. CASE r = q
    <3>1. u.nettics[q] <= bound /\ bound <= st.gametic + BACKUPTICS /\ u.nettics[q] \in Nat /\ st.gametic \in Nat
      BY <1>2, <1>3, <2>1, <2>2 DEF Turned, Sane, Shaped
    <3> QED BY <1>2, <2>2, <3>1, Numbers
  <2>3. CASE r # q
    BY <1>2, <2>1, <2>3 DEF Turned, Near
  <2> QED BY <2>2, <2>3
<1>5. Sane(zero, p, v) /\ SameBut(u, v)
  BY <1>3, <1>4, TryRunTicsKeeps
<1> HIDE DEF v
<1>6. Settled(zero, p, v)
  BY <1>3, <1>5 DEF Settled, SameBut, Asked
<1>7. Turned(st, v, k, q, bound)
  BY <1>2, <1>5 DEF Turned, SameBut
<1> QED BY <1>6, <1>7 DEF v, u

(* ----------------------------------------------------------------------- *)
(* The network                                                              *)
(* ----------------------------------------------------------------------- *)

\* Whoever has not left is followed by all: each game is behind its own
\* commands, those behind the other's game, and so round.
LEMMA Chain ==
  ASSUME NEW zero \in BOOLEAN, NInv(zero), NEW p \in Nodes, NEW q \in Nodes, ~At(p, "gone"), node[p].nodeingame[q]
  PROVE /\ node[p].maketic \in Nat /\ node[q].maketic \in Nat /\ node[p].gametic \in Nat /\ node[q].gametic \in Nat
        /\ node[p].nettics[q] \in Nat /\ node[q].nettics[p] \in Nat /\ node[q].nodeingame[p]
        /\ node[p].gametic <= node[p].nettics[q] /\ node[p].nettics[q] <= node[q].maketic
        /\ node[q].maketic <= node[q].gametic + LIMIT
        /\ node[q].gametic <= node[q].nettics[p] /\ node[q].nettics[p] <= node[p].maketic
        /\ node[p].maketic <= node[p].gametic + LIMIT
<1>1. Sane(zero, p, node[p]) /\ Sane(zero, q, node[q]) /\ Apart
  BY DEF NInv, Settled
<1>2. node[q].nodeingame[p]
  BY <1>1 DEF Apart
<1>3. node[p].nettics[q] <= node[q].maketic /\ node[q].nettics[p] <= node[p].maketic
  BY <1>1, <1>2 DEF Apart
<1> QED BY <1>1, <1>2, <1>3 DEF Sane, Shaped, Behind

LEMMA AllAreNear ==
  ASSUME NEW zero \in BOOLEAN, NInv(zero), NEW p \in Nodes, ~At(p, "gone")
  PROVE /\ Near(node[p])
        /\ \A q \in Nodes : node[p].nodeingame[q] => node[q].maketic <= node[p].gametic + BACKUPTICS
<1> SUFFICES ASSUME NEW q \in Nodes, node[p].nodeingame[q]
             PROVE node[p].nettics[q] <= node[p].gametic + BACKUPTICS /\ node[q].maketic <= node[p].gametic + BACKUPTICS
  BY DEF Near
<1> QED BY Chain, Numbers

\* All but what is under way.
NodesAgree(zero) ==
  /\ node = [p \in Nodes |-> node[p]]
  /\ \A p \in Nodes : Settled(zero, p, node[p])
  /\ Apart
  /\ SameGame /\ node[0].settings \in Settings

LEMMA NodeStep ==
  ASSUME NEW zero \in BOOLEAN, NInv(zero), NEW p \in Nodes, NEW v, node' = [node EXCEPT ![p] = v],
         Settled(zero, p, v), v.phase = node[p].phase, v.settings = node[p].settings, node[p].maketic <= v.maketic,
         \A q \in Nodes \ {p} : /\ v.nodeingame[q] => v.nettics[q] <= node[q].maketic
                                /\ v.nodeingame[q] \/ At(q, "gone")
  PROVE NodesAgree(zero)'
<1>1. 0 \in Nodes
  BY NetAssumption
<1>2. /\ node = [r \in Nodes |-> node[r]] /\ (\A r \in Nodes : Settled(zero, r, node[r])) /\ Apart
      /\ SameGame /\ node[0].settings \in Settings
  BY DEF NInv
<1>3. node' = [r \in Nodes |-> node'[r]] /\ node'[p] = v /\ \A r \in Nodes \ {p} : node'[r] = node[r]
  BY <1>2
<1>4. \A r \in Nodes : node'[r].phase = node[r].phase /\ node'[r].settings = node[r].settings
  BY <1>3
<1>5. \A r \in Nodes : Settled(zero, r, node'[r])
  BY <1>2, <1>3
<1>6. SameGame' /\ node'[0].settings \in Settings
  BY <1>1, <1>2, <1>4 DEF SameGame, At
<1>7. Apart'
  <2> SUFFICES ASSUME NEW r \in Nodes, NEW q \in Nodes
               PROVE /\ node'[r].nodeingame[q] => node'[r].nettics[q] <= node'[q].maketic
                     /\ node'[r].nodeingame[q] \/ At(q, "gone")'
    BY DEF Apart
  <2>1. At(q, "gone")' <=> At(q, "gone")
    BY <1>4 DEF At
  <2>2. /\ node[r].nodeingame[q] => node[r].nettics[q] <= node[q].maketic
        /\ node[r].nodeingame[q] \/ At(q, "gone")
    BY <1>2 DEF Apart
  <2>3. CASE r = p /\ q = p
    <3>1. v.nodeingame[p] /\ v.nettics[p] = v.maketic /\ v.maketic \in Nat
      BY DEF Settled, Sane, Behind, Shaped
    <3> QED BY <1>3, <2>3, <3>1
  <2>4. CASE r = p /\ q # p
    BY <1>3, <2>1, <2>4
  <2>5. CASE r # p /\ q = p
    <3>1. node[r].nettics[p] \in Nat /\ node[p].maketic \in Nat /\ v.maketic \in Nat
      BY <1>2 DEF Settled, Sane, Shaped
    <3> QED BY <1>3, <2>1, <2>2, <2>5, <3>1
  <2>6. CASE r # p /\ q # p
    BY <1>3, <2>1, <2>2, <2>6
  <2> QED BY <2>3, <2>4, <2>5, <2>6
<1> QED BY <1>3, <1>5, <1>6, <1>7 DEF NodesAgree

\* A packet stays what it was while its sender goes on.
LEMMA StaysUnderWay ==
  ASSUME NEW zero \in BOOLEAN, NEW f, UnderWay(zero, f), NEW g, IsRecord(g, {"packet", "age"}), g.packet = f.packet, g.age \in 0..MAXAGE,
         node'[0].settings = node[0].settings,
         \A r \in Nodes : At(r, "gone") => At(r, "gone")',
         ~At(f.packet.to, "gone")' =>
           /\ node[f.packet.player].maketic <= node'[f.packet.player].maketic
           /\ node'[f.packet.player].maketic - g.age <= node[f.packet.player].maketic - f.age
           /\ node[f.packet.player].nettics[f.packet.to] <= node'[f.packet.player].nettics[f.packet.to],
         \A r \in Nodes : /\ node[r].maketic \in Nat /\ node'[r].maketic \in Nat
                          /\ node[r].nettics \in [Nodes -> Nat] /\ node'[r].nettics \in [Nodes -> Nat]
  PROVE UnderWay(zero, g)'
<1> DEFINE k == f.packet
           p == k.player
           q == k.to
<1>1. /\ p \in Nodes /\ q \in Nodes /\ p # q /\ f.age \in 0..MAXAGE
      /\ k.numtics \in Nat /\ k.starttic \in Int /\ k.retransmitfrom \in Int
      /\ "setup" \in k.flags => SettingsIn(k) = node[0].settings
      /\ "exit" \in k.flags => At(p, "gone")
  BY DEF UnderWay
<1>2. ASSUME "setup" \notin k.flags, "exit" \notin k.flags, ~At(q, "gone")'
      PROVE \E end \in (node'[p].maketic - g.age)..node'[p].maketic :
              /\ Carries(zero, k, end)
              /\ "retransmit" \in k.flags => \E r \in (end - LIMIT)..node'[p].nettics[q] : k.retransmitfrom = Low(r)
  <2>1. PICK end \in (node[p].maketic - f.age)..node[p].maketic :
          /\ Carries(zero, k, end)
          /\ "retransmit" \in k.flags => \E r \in (end - LIMIT)..node[p].nettics[q] : k.retransmitfrom = Low(r)
    BY <1>1, <1>2 DEF UnderWay
  <2>2. /\ node[p].maketic \in Nat /\ node'[p].maketic \in Nat /\ node[p].nettics[q] \in Nat /\ node'[p].nettics[q] \in Nat
        /\ node[p].maketic <= node'[p].maketic /\ node'[p].maketic - g.age <= node[p].maketic - f.age
        /\ node[p].nettics[q] <= node'[p].nettics[q] /\ g.age \in Nat /\ f.age \in Nat /\ LIMIT \in Nat
    BY <1>1, <1>2, Numbers
  <2>3. end \in (node'[p].maketic - g.age)..node'[p].maketic
    BY <2>2
  <2>4. ASSUME "retransmit" \in k.flags PROVE \E r \in (end - LIMIT)..node'[p].nettics[q] : k.retransmitfrom = Low(r)
    <3>1. PICK r \in (end - LIMIT)..node[p].nettics[q] : k.retransmitfrom = Low(r)
      BY <2>1, <2>4
    <3>2. r \in (end - LIMIT)..node'[p].nettics[q]
      BY <2>2
    <3> QED BY <3>1, <3>2
  <2> QED BY <2>1, <2>3, <2>4
<1>3. "setup" \in k.flags => SettingsIn(k) = node'[0].settings
  BY <1>1
<1>4. "exit" \in k.flags => At(p, "gone")'
  BY <1>1
<1> QED BY <1>1, <1>2, <1>3, <1>4 DEF UnderWay

\* What others do to the node does not touch what is under way.
Frame(p) ==
  /\ \A r \in Nodes \ {p} : node'[r] = node[r]
  /\ node'[0].settings = node[0].settings
  /\ At(p, "gone") => At(p, "gone")'
  /\ node[p].maketic <= node'[p].maketic
  /\ \A q \in Nodes \ {p} : node[p].nettics[q] <= node'[p].nettics[q]
  /\ node'[p].maketic \in Nat /\ node'[p].nettics \in [Nodes -> Nat]

LEMMA OnTheWayKeeps ==
  ASSUME NEW zero \in BOOLEAN, NInv(zero), NEW p \in Nodes, NoneTooOld(p), Frame(p), node'[p].maketic <= node[p].maketic + 1,
         NEW packets, \A k \in packets : k.player = p /\ UnderWay(zero, [packet |-> k, age |-> 0])',
         \A q \in Nodes \ {p} : node[p].nodeingame[q] => \E k \in packets : k.to = q,
         net' = OnTheWay(packets)
  PROVE \A f \in net' : UnderWay(zero, f)'
<1>1. /\ \A r \in Nodes : node[r].maketic \in Nat /\ node[r].nettics \in [Nodes -> Nat]
      /\ 0 \in Nodes /\ Apart /\ MAXAGE \in Nat
  BY NetAssumption DEF NInv, Settled, Sane, Shaped
<1>2. \A r \in Nodes : /\ node[r].maketic \in Nat /\ node'[r].maketic \in Nat
                       /\ node[r].nettics \in [Nodes -> Nat] /\ node'[r].nettics \in [Nodes -> Nat]
  BY <1>1 DEF Frame
<1>3. node'[0].settings = node[0].settings /\ \A r \in Nodes : At(r, "gone") => At(r, "gone")'
  BY <1>1 DEF Frame, At
<1> DEFINE passed(f) == \E k \in packets : k.player = f.packet.player /\ k.to = f.packet.to
           later(f) == [f EXCEPT !.age = IF passed(f) THEN @ + 1 ELSE @]
<1>4. ASSUME NEW f \in net PROVE UnderWay(zero, later(f))'
  <2> DEFINE g == later(f)
             s == f.packet.player
             q == f.packet.to
  <2>1. UnderWay(zero, f)
    BY DEF NInv
  <2>2. IsRecord(f, {"packet", "age"}) /\ f.age \in 0..MAXAGE /\ s \in Nodes /\ q \in Nodes /\ s # q
    BY <2>1 DEF UnderWay
  <2>3. IsRecord(g, {"packet", "age"}) /\ g.packet = f.packet /\ g.age = (IF passed(f) THEN f.age + 1 ELSE f.age)
    BY <2>2 DEF IsRecord
  <2>4. s = p => f.age < MAXAGE
    BY DEF NoneTooOld
  <2>5. passed(f) => s = p
    OBVIOUS
  <2>6. s = p /\ ~passed(f) => At(q, "gone")'
    BY <1>1, <1>3, <2>2 DEF Apart
  <2> HIDE DEF passed, g
  <2>7. g.age \in 0..MAXAGE
    BY <1>1, <2>2, <2>3, <2>4, <2>5
  <2>8. ~At(q, "gone")' => /\ node[s].maketic <= node'[s].maketic
                           /\ node'[s].maketic - g.age <= node[s].maketic - f.age
                           /\ node[s].nettics[q] <= node'[s].nettics[q]
    <3>1. CASE s = p
      BY <1>2, <2>2, <2>3, <2>6, <3>1 DEF Frame
    <3>2. CASE s # p
      BY <1>2, <2>2, <2>3, <2>5, <3>2 DEF Frame
    <3> QED BY <3>1, <3>2
  <2>9. UnderWay(zero, g)'
    BY <1>2, <1>3, <2>1, <2>3, <2>7, <2>8, StaysUnderWay
  <2> QED BY <2>9 DEF g
<1>5. net' = {later(f) : f \in net} \cup {[packet |-> k, age |-> 0] : k \in packets}
  BY DEF OnTheWay
<1> HIDE DEF later
<1> QED BY <1>4, <1>5

\* Nothing new, and some of the old, may be left.
LEMMA LessUnderWay ==
  ASSUME NEW zero \in BOOLEAN, NInv(zero), NEW p \in Nodes, Frame(p), node'[p].maketic = node[p].maketic, net' \subseteq net
  PROVE \A f \in net' : UnderWay(zero, f)'
<1>1. /\ \A r \in Nodes : node[r].maketic \in Nat /\ node[r].nettics \in [Nodes -> Nat]
      /\ 0 \in Nodes
  BY NetAssumption DEF NInv, Settled, Sane, Shaped
<1>2. \A r \in Nodes : /\ node[r].maketic \in Nat /\ node'[r].maketic \in Nat
                       /\ node[r].nettics \in [Nodes -> Nat] /\ node'[r].nettics \in [Nodes -> Nat]
  BY <1>1 DEF Frame
<1>3. node'[0].settings = node[0].settings /\ \A r \in Nodes : At(r, "gone") => At(r, "gone")'
  BY <1>1 DEF Frame, At
<1> SUFFICES ASSUME NEW f \in net PROVE UnderWay(zero, f)'
  OBVIOUS
<1>4. UnderWay(zero, f)
  BY DEF NInv
<1>5. IsRecord(f, {"packet", "age"}) /\ f.age \in 0..MAXAGE /\ f.packet.player \in Nodes /\ f.packet.to \in Nodes /\ f.packet.player # f.packet.to
  BY <1>4 DEF UnderWay
<1>6. /\ node[f.packet.player].maketic <= node'[f.packet.player].maketic
      /\ node'[f.packet.player].maketic - f.age <= node[f.packet.player].maketic - f.age
      /\ node[f.packet.player].nettics[f.packet.to] <= node'[f.packet.player].nettics[f.packet.to]
  <2>1. CASE f.packet.player = p
    BY <1>2, <1>5, <2>1 DEF Frame
  <2>2. CASE f.packet.player # p
    BY <1>2, <1>5, <2>2 DEF Frame
  <2> QED BY <2>1, <2>2
<1> QED BY <1>2, <1>3, <1>4, <1>5, <1>6, StaysUnderWay

(* ----------------------------------------------------------------------- *)
(* The steps                                                                *)
(* ----------------------------------------------------------------------- *)

Rephased(p, phase, settings, gotinfo) ==
  [node EXCEPT ![p] = [node[p] EXCEPT !.phase = phase, !.settings = settings, !.gotinfo = gotinfo]]

\* A change of phase, settings or who has been heard of.
LEMMA PhaseStep ==
  ASSUME NEW zero \in BOOLEAN, NInv(zero), NEW p \in Nodes, NEW phase, NEW settings, NEW gotinfo,
         node' = Rephased(p, phase, settings, gotinfo),
         At(p, "gone") => phase = "gone", phase = "play" => settings = node[0].settings,
         p = 0 => settings = node[0].settings
  PROVE NodesAgree(zero)' /\ Frame(p) /\ node'[p].maketic = node[p].maketic /\ node'[p].phase = phase
        /\ node'[p].settings = settings
<1> DEFINE st == node[p]
           v == [st EXCEPT !.phase = phase, !.settings = settings, !.gotinfo = gotinfo]
<1>1. 0 \in Nodes
  BY NetAssumption
<1>2. /\ node = [r \in Nodes |-> node[r]] /\ (\A r \in Nodes : Settled(zero, r, node[r])) /\ Apart
      /\ SameGame /\ node[0].settings \in Settings
  BY DEF NInv
<1>3. Sane(zero, p, st) /\ st.nettics[p] = st.maketic /\ Asked(st, BACKUPTICS - 1) /\ Shaped(st)
  BY <1>2 DEF Settled, Sane
<1>4. /\ IsRecord(v, NodeFields) /\ v.phase = phase /\ v.settings = settings
      /\ v.extratics = st.extratics
      /\ v.maketic = st.maketic /\ v.gametic = st.gametic /\ v.halted = st.halted /\ v.astray = st.astray
      /\ v.nettics = st.nettics /\ v.nodeingame = st.nodeingame
      /\ v.localcmds = st.localcmds /\ v.netcmds = st.netcmds /\ v.consistancy = st.consistancy
      /\ v.resendto = st.resendto /\ v.resendcount = st.resendcount /\ v.remoteresend = st.remoteresend
  BY <1>3 DEF Shaped, IsRecord, NodeFields
<1> HIDE DEF v
<1>5. node' = [r \in Nodes |-> node'[r]] /\ node'[p] = v /\ \A r \in Nodes \ {p} : node'[r] = node[r]
  BY <1>2 DEF v, Rephased
<1>6. Shaped(v)
  BY <1>3, <1>4 DEF Shaped
<1>7. Sane(zero, p, v)
  BY <1>3, <1>4, <1>6 DEF Sane, Behind, Filled
<1>8. Settled(zero, p, v)
  BY <1>3, <1>4, <1>7 DEF Settled, Asked
<1>9. \A r \in Nodes : Settled(zero, r, node'[r])
  BY <1>2, <1>5, <1>8
<1>10. /\ \A r \in Nodes : node'[r].maketic = node[r].maketic /\ node'[r].nettics = node[r].nettics /\ node'[r].nodeingame = node[r].nodeingame
       /\ \A r \in Nodes : At(r, "gone") => At(r, "gone")'
  BY <1>4, <1>5 DEF At
<1>11. Apart'
  BY <1>2, <1>10 DEF Apart
<1>12. node'[0].settings = node[0].settings
  BY <1>1, <1>4, <1>5
<1>13. SameGame'
  <2> SUFFICES ASSUME NEW r \in Nodes, node'[r].phase = "play" PROVE node'[r].settings = node[0].settings
    BY <1>12 DEF SameGame, At
  <2>1. CASE r = p
    BY <1>4, <1>5, <2>1
  <2>2. CASE r # p
    BY <1>2, <1>5, <2>2 DEF SameGame, At
  <2> QED BY <2>1, <2>2
<1>14. Frame(p)
  <2>1. node[p].maketic \in Nat /\ node[p].nettics \in [Nodes -> Nat]
    BY <1>3 DEF Shaped
  <2> QED BY <1>5, <1>10, <1>12, <2>1 DEF Frame
<1> QED BY <1>2, <1>4, <1>5, <1>9, <1>10, <1>11, <1>12, <1>13, <1>14 DEF NodesAgree

LEMMA Together ==
  ASSUME NEW zero \in BOOLEAN, NodesAgree(zero)', \A f \in net' : UnderWay(zero, f)'
  PROVE NInv(zero)'
  BY DEF NodesAgree, NInv

LEMMA NetUpdateKeeps ==
  ASSUME NEW zero \in BOOLEAN, NInv(zero), NEW p \in Nodes, NetUpdate(p) PROVE NInv(zero)'
<1> DEFINE st == node[p]
           makes == st.maketic - st.gametic < LIMIT /\ st.maketic < faults.last
<1>1. PICK made : made = IF makes THEN G_BuildTiccmd(st, p) ELSE st
  OBVIOUS
<1> DEFINE others == {q \in Nodes \ {p} : made.nodeingame[q]}
           packets == {PacketTo(made, p, q) : q \in others}
<1>2. PICK v : v = TryRunTics(GetPacket(Sent(made), PacketTo(made, p, p)))
  OBVIOUS
<1>3. /\ st.phase = "play" /\ NoneTooOld(p)
      /\ node' = [node EXCEPT ![p] = IF TooMany(made) THEN Error(st) ELSE v]
      /\ net' = IF TooMany(made) THEN net ELSE OnTheWay(packets)
  BY <1>1, <1>2 DEF NetUpdate
<1>4. ~At(p, "gone")
  BY <1>3 DEF At
<1>5. Settled(zero, p, st) /\ Near(st) /\ node = [r \in Nodes |-> node[r]]
  BY <1>4, AllAreNear DEF NInv
<1>6. made = st \/ (made = G_BuildTiccmd(st, p) /\ st.maketic - st.gametic < LIMIT)
  BY <1>1
<1>7. /\ ~TooMany(made) /\ Sane(zero, p, made) /\ Asked(made, BACKUPTICS) /\ Kept(st, made)
      /\ made.maketic \in {st.maketic, st.maketic + 1}
      /\ Settled(zero, p, v)
      /\ v.phase = st.phase /\ v.settings = st.settings /\ v.maketic = made.maketic
      /\ v.nodeingame = st.nodeingame /\ \A q \in Nodes \ {p} : v.nettics[q] = st.nettics[q]
  BY <1>2, <1>5, <1>6, UpdateKeeps
<1>8. node' = [node EXCEPT ![p] = v] /\ net' = OnTheWay(packets)
  BY <1>3, <1>7
<1>9. node'[p] = v /\ \A r \in Nodes \ {p} : node'[r] = node[r]
  BY <1>5, <1>8
<1>10. st.maketic \in Nat /\ v.maketic \in Nat /\ v.nettics \in [Nodes -> Nat] /\ st.nettics \in [Nodes -> Nat] /\ 0 \in Nodes
  BY <1>5, <1>7, NetAssumption DEF Settled, Sane, Shaped
<1>11. NodesAgree(zero)'
  <2>1. ASSUME NEW q \in Nodes \ {p}
        PROVE (v.nodeingame[q] => v.nettics[q] <= node[q].maketic) /\ (v.nodeingame[q] \/ At(q, "gone"))
    BY <1>7 DEF NInv, Apart
  <2>2. st.maketic <= v.maketic
    BY <1>7, <1>10
  <2> QED BY <1>7, <1>8, <2>1, <2>2, NodeStep
<1>12. Frame(p)
  BY <1>3, <1>7, <1>9, <1>10 DEF Frame, At
<1>13. ASSUME NEW q \in others
       PROVE PacketTo(made, p, q).player = p /\ PacketTo(made, p, q).to = q /\ UnderWay(zero, [packet |-> PacketTo(made, p, q), age |-> 0])'
  <2>1. PICK k : k = PacketTo(made, p, q)
    OBVIOUS
  <2>2. q \in Nodes /\ q # p /\ made.nodeingame[q]
    OBVIOUS
  <2>3. /\ Carries(zero, k, made.maketic) /\ k.numtics \in Nat
        /\ k.player = p /\ k.to = q /\ k.starttic \in Int /\ k.retransmitfrom \in Int
        /\ "setup" \notin k.flags /\ "exit" \notin k.flags
        /\ "retransmit" \in k.flags <=> made.remoteresend[q]
        /\ made.remoteresend[q] => k.retransmitfrom = Low(made.nettics[q])
    BY <1>7, <2>1, <2>2, PacketCarries
  <2>4. /\ made.maketic \in Nat /\ made.gametic \in Nat /\ made.nettics[q] \in Nat
        /\ made.maketic <= made.gametic + LIMIT /\ made.gametic <= made.nettics[q] /\ LIMIT \in Nat /\ MAXAGE \in Nat
    BY <1>7, <2>2, Numbers DEF Sane, Shaped, Behind
  <2>5. node'[p].maketic = made.maketic /\ node'[p].nettics[q] = made.nettics[q]
    BY <1>7, <1>9, <2>2 DEF Kept
  <2> DEFINE g == [packet |-> k, age |-> 0]
  <2>6. g.packet = k /\ g.age = 0 /\ IsRecord(g, {"packet", "age"})
    BY DEF IsRecord
  <2>7. made.maketic \in (node'[p].maketic - 0)..node'[p].maketic
    BY <2>4, <2>5
  <2>8. ASSUME "retransmit" \in k.flags
        PROVE made.nettics[q] \in (made.maketic - LIMIT)..node'[p].nettics[q] /\ k.retransmitfrom = Low(made.nettics[q])
    BY <2>3, <2>4, <2>5, <2>8
  <2> HIDE DEF g
  <2>9. UnderWay(zero, g)'
    BY <2>2, <2>3, <2>4, <2>6, <2>7, <2>8 DEF UnderWay
  <2> QED BY <2>1, <2>3, <2>9 DEF g
<1>14. \A k \in packets : k.player = p /\ UnderWay(zero, [packet |-> k, age |-> 0])'
  BY <1>13
<1>15. \A q \in Nodes \ {p} : node[p].nodeingame[q] => \E k \in packets : k.to = q
  <2> SUFFICES ASSUME NEW q \in Nodes \ {p}, node[p].nodeingame[q] PROVE \E k \in packets : k.to = q
    OBVIOUS
  <2>1. q \in others
    BY <1>7 DEF Kept
  <2>2. PacketTo(made, p, q) \in packets /\ PacketTo(made, p, q).to = q
    BY <1>13, <2>1
  <2> QED BY <2>2
<1>16. node'[p].maketic <= node[p].maketic + 1
  BY <1>7, <1>9, <1>10
<1> HIDE DEF packets
<1>17. \A f \in net' : UnderWay(zero, f)'
  BY <1>3, <1>8, <1>12, <1>14, <1>15, <1>16, OnTheWayKeeps
<1> QED BY <1>11, <1>17, Together

LEMMA ReceiveStep ==
  ASSUME NEW zero \in BOOLEAN, NInv(zero), NEW p \in Nodes, Receive(p) PROVE NInv(zero)'
<1>1. PICK f \in net, again \in BOOLEAN :
        /\ f.packet.to = p /\ node[p].phase = "play"
        /\ node' = [node EXCEPT ![p] = TryRunTics(GetPacket(@, f.packet))]
        /\ net' = IF again THEN net ELSE net \ {f}
  BY DEF Receive
<1> DEFINE st == node[p]
           k == f.packet
           q == k.player
           bound == node[q].maketic
<1>2. PICK v : v = TryRunTics(GetPacket(st, k))
  OBVIOUS
<1>3. node = [r \in Nodes |-> node[r]] /\ (\A r \in Nodes : Settled(zero, r, node[r])) /\ Apart
  BY DEF NInv
<1>4. node' = [node EXCEPT ![p] = v] /\ net' \subseteq net
  BY <1>1, <1>2
<1>5. ~At(p, "gone")
  BY <1>1 DEF At
<1>6. UnderWay(zero, f)
  BY DEF NInv
<1>7. /\ q \in Nodes /\ q # p /\ f.age \in 0..MAXAGE
      /\ k.numtics \in Nat /\ k.starttic \in Int /\ k.retransmitfrom \in Int
      /\ "exit" \in k.flags => At(q, "gone")
  BY <1>1, <1>6 DEF UnderWay
<1>8. Near(st) /\ Settled(zero, p, st) /\ bound \in Nat
  BY <1>3, <1>5, <1>7, AllAreNear DEF Settled, Sane, Shaped
<1>9. st.nodeingame[q] => st.nettics[q] <= bound /\ bound <= st.gametic + BACKUPTICS
  BY <1>5, <1>7, AllAreNear, Chain
<1>10. ASSUME st.nodeingame[q], IsData(k) PROVE Timely(zero, st, k, bound)
  <2>1. PICK end \in (bound - f.age)..bound :
          /\ Carries(zero, k, end)
          /\ "retransmit" \in k.flags => \E r \in (end - LIMIT)..node[q].nettics[p] : k.retransmitfrom = Low(r)
    BY <1>1, <1>5, <1>6, <1>10 DEF UnderWay, IsData
  <2>2. /\ st.maketic \in Nat /\ bound \in Nat /\ st.gametic \in Nat /\ st.nettics[q] \in Nat
        /\ node[q].gametic \in Nat /\ node[q].nettics[p] \in Nat
        /\ st.gametic <= st.nettics[q] /\ st.nettics[q] <= bound /\ bound <= node[q].gametic + LIMIT
        /\ node[q].gametic <= node[q].nettics[p] /\ node[q].nettics[p] <= st.maketic /\ st.maketic <= st.gametic + LIMIT
    BY <1>5, <1>7, <1>10, Chain
  <2>3. end \in Int /\ k.numtics <= BACKUPTICS /\ f.age <= MAXAGE /\ f.age \in Nat
    BY <1>7, <2>1, <2>2, Numbers DEF Carries
  <2>4. end <= bound /\ (end - k.numtics) - st.maketic <= WINDOW /\ st.maketic - (end - k.numtics) <= WINDOW
    BY <1>7, <2>1, <2>2, <2>3, Numbers
  <2>5. ASSUME "retransmit" \in k.flags
        PROVE \E r \in Int : k.retransmitfrom = Low(r) /\ r <= st.maketic /\ st.maketic - r <= BACKUPTICS - 1
    <3>1. PICK r \in (end - LIMIT)..node[q].nettics[p] : k.retransmitfrom = Low(r)
      BY <2>1, <2>5
    <3>2. r \in Int /\ r <= st.maketic /\ st.maketic - r <= BACKUPTICS - 1
      BY <2>1, <2>2, <2>3, <3>1, Numbers
    <3> QED BY <3>1, <3>2
  <2> QED BY <2>1, <2>3, <2>4, <2>5 DEF Timely
<1>11. Settled(zero, p, v) /\ Turned(st, v, k, q, bound)
  <2>1. bound \in Int /\ q \in Nodes \ {p} /\ k.player = q
    BY <1>7, <1>8
  <2>2. st.nodeingame[q] /\ IsData(k) => Timely(zero, st, k, bound)
    BY <1>10
  <2> HIDE DEF st, k, q, bound
  <2> QED BY <1>2, <1>7, <1>8, <1>9, <2>1, <2>2, ReceiveKeeps
<1>12. node'[p] = v /\ \A r \in Nodes \ {p} : node'[r] = node[r]
  BY <1>3, <1>4
<1>13. st.nodeingame \in [Nodes -> BOOLEAN] /\ st.nettics \in [Nodes -> Nat] /\ st.maketic \in Nat /\ v.nettics \in [Nodes -> Nat] /\ 0 \in Nodes
  BY <1>8, <1>11, NetAssumption DEF Settled, Sane, Shaped
<1>14. ASSUME NEW r \in Nodes \ {p}
       PROVE (v.nodeingame[r] => v.nettics[r] <= node[r].maketic) /\ (v.nodeingame[r] \/ At(r, "gone"))
  <2>1. (st.nodeingame[r] => st.nettics[r] <= node[r].maketic) /\ (st.nodeingame[r] \/ At(r, "gone"))
    BY <1>3 DEF Apart
  <2>2. CASE r = q
    BY <1>7, <1>11, <1>13, <2>1, <2>2 DEF Turned
  <2>3. CASE r # q
    BY <1>7, <1>11, <1>13, <2>1, <2>3 DEF Turned
  <2> QED BY <2>2, <2>3
<1>15. NodesAgree(zero)'
  <2>1. v.phase = st.phase /\ v.settings = st.settings /\ st.maketic <= v.maketic
    BY <1>11, <1>13 DEF Turned
  <2> QED BY <1>4, <1>11, <1>14, <2>1, NodeStep
<1>16. Frame(p) /\ node'[p].maketic = node[p].maketic
  <2>1. \A r \in Nodes : st.nettics[r] <= v.nettics[r]
    BY <1>11, <1>13 DEF Turned
  <2> QED BY <1>1, <1>11, <1>12, <1>13, <2>1 DEF Frame, At, Turned
<1>17. \A g \in net' : UnderWay(zero, g)'
  BY <1>4, <1>16, LessUnderWay
<1> QED BY <1>15, <1>17, Together

LEMMA QuitKeeps ==
  ASSUME NEW zero \in BOOLEAN, NInv(zero), NEW p \in Nodes, D_QuitNetGame(p) PROVE NInv(zero)'
<1> DEFINE exit(q) == [player |-> p, to |-> q, starttic |-> 0, numtics |-> 0, retransmitfrom |-> 0,
                       flags |-> {"exit"}, cmds |-> <<>>]
           packets == {exit(q) : q \in {r \in Nodes \ {p} : node[p].nodeingame[r]}}
<1>1. p # 0 /\ NoneTooOld(p) /\ node' = [node EXCEPT ![p].phase = "gone"] /\ net' = OnTheWay(packets)
  BY DEF D_QuitNetGame
<1>2. node[p] = [f \in NodeFields |-> node[p][f]]
  BY DEF NInv, Settled, Sane, Shaped, IsRecord
<1>3. [node[p] EXCEPT !.phase = "gone"]
        = [node[p] EXCEPT !.phase = "gone", !.settings = node[p].settings, !.gotinfo = node[p].gotinfo]
  BY <1>2 DEF NodeFields
<1>4. node' = Rephased(p, "gone", node[p].settings, node[p].gotinfo)
  BY <1>1, <1>3 DEF Rephased
<1>5. NodesAgree(zero)' /\ Frame(p) /\ node'[p].maketic = node[p].maketic /\ node'[p].phase = "gone"
  <2> DEFINE phase == "gone"
  <2>1. phase = "gone" /\ (phase = "play" => node[p].settings = node[0].settings) /\ (p = 0 => node[p].settings = node[0].settings)
    BY <1>1
  <2>2. node' = Rephased(p, phase, node[p].settings, node[p].gotinfo)
    BY <1>4
  <2> HIDE DEF phase
  <2> QED BY <2>1, <2>2, PhaseStep
<1>6. ASSUME NEW q \in Nodes \ {p} PROVE exit(q).player = p /\ exit(q).to = q /\ UnderWay(zero, [packet |-> exit(q), age |-> 0])'
  <2>1. PICK k : k = exit(q)
    OBVIOUS
  <2>2. k.player = p /\ k.to = q /\ k.starttic = 0 /\ k.numtics = 0 /\ k.retransmitfrom = 0 /\ k.flags = {"exit"}
    BY <2>1
  <2>3. PICK g : g = [packet |-> k, age |-> 0]
    OBVIOUS
  <2>4. g.packet = k /\ g.age = 0 /\ IsRecord(g, {"packet", "age"})
    BY <2>3 DEF IsRecord
  <2>5. "setup" \notin k.flags /\ "exit" \in k.flags
    BY <2>2
  <2>6. UnderWay(zero, g)'
    BY <1>5, <2>2, <2>4, <2>5, Numbers DEF UnderWay, At
  <2> QED BY <2>1, <2>2, <2>3, <2>6
<1>7. \A k \in packets : k.player = p /\ UnderWay(zero, [packet |-> k, age |-> 0])'
  BY <1>6
<1>8. \A q \in Nodes \ {p} : node[p].nodeingame[q] => \E k \in packets : k.to = q
  BY <1>6
<1>9. node'[p].maketic <= node[p].maketic + 1
  BY <1>5 DEF Frame
<1> HIDE DEF packets
<1>10. \A f \in net' : UnderWay(zero, f)'
  BY <1>1, <1>5, <1>7, <1>8, <1>9, OnTheWayKeeps
<1> QED BY <1>5, <1>10, Together

LEMMA SameNodes ==
  ASSUME NEW zero \in BOOLEAN, NInv(zero), UNCHANGED node
  PROVE /\ NodesAgree(zero)'
        /\ \A p \in Nodes : Frame(p) /\ node'[p].maketic = node[p].maketic
<1>1. NodesAgree(zero)
  BY DEF NInv, NodesAgree
<1>2. NodesAgree(zero)'
  BY <1>1 DEF NodesAgree, Apart, SameGame, At
<1>3. \A p \in Nodes : node[p].maketic \in Nat /\ node[p].nettics \in [Nodes -> Nat]
  BY <1>1 DEF NodesAgree, Settled, Sane, Shaped
<1> QED BY <1>2, <1>3 DEF Frame, At

LEMMA SendsSetupKeeps ==
  ASSUME NEW zero \in BOOLEAN, NInv(zero), NEW p \in Nodes, SendsSetup(p) PROVE NInv(zero)'
<1>1. 0 \in Nodes /\ p = 0 /\ node[p].phase = "arbitrate" /\ NoneTooOld(p)
  BY NetAssumption DEF SendsSetup
<1> PICK s \in Settings : s = node[p].settings
  BY <1>1 DEF NInv
<1> DEFINE packets == {Setup(p, q, s) : q \in Nodes \ {p}}
<1>2. CASE node' = [node EXCEPT ![p].phase = "play"] /\ UNCHANGED net
  <2>1. node[p] = [f \in NodeFields |-> node[p][f]]
    BY DEF NInv, Settled, Sane, Shaped, IsRecord
  <2> DEFINE phase == "play"
  <2>2. [node[p] EXCEPT !.phase = phase]
          = [node[p] EXCEPT !.phase = phase, !.settings = node[p].settings, !.gotinfo = node[p].gotinfo]
    BY <2>1 DEF NodeFields
  <2>3. node' = Rephased(p, phase, node[p].settings, node[p].gotinfo)
    BY <1>2, <2>2 DEF Rephased
  <2>4. ~At(p, "gone") /\ node[p].settings = node[0].settings
    BY <1>1 DEF At
  <2> HIDE DEF phase
  <2>5. NodesAgree(zero)' /\ Frame(p) /\ node'[p].maketic = node[p].maketic
    BY <2>3, <2>4, PhaseStep
  <2>6. \A f \in net' : UnderWay(zero, f)'
    BY <1>2, <2>5, LessUnderWay
  <2> QED BY <2>5, <2>6, Together
<1>3. CASE net' = OnTheWay(packets) /\ UNCHANGED node
  <2>1. NodesAgree(zero)' /\ Frame(p) /\ node'[p].maketic = node[p].maketic /\ node[0].settings \in Settings
    BY <1>3, SameNodes DEF NInv
  <2>2. ASSUME NEW q \in Nodes \ {p}
        PROVE /\ Setup(p, q, s).player = p /\ Setup(p, q, s).to = q
              /\ UnderWay(zero, [packet |-> Setup(p, q, s), age |-> 0])'
    <3>1. PICK k : k = Setup(p, q, s)
      OBVIOUS
    <3>3. s.skill \in Int /\ s.episode \in Int /\ s.map \in Int
      BY NetAssumption
    <3>4. k.player = p /\ k.to = q /\ k.starttic = (s.episode * 64 + s.map) % 256 /\ k.numtics = 0 /\ k.retransmitfrom = s.skill /\ k.flags = {"setup"}
      BY <3>1 DEF Setup
    <3>5. k.starttic \in Int
      BY <3>3, <3>4
    <3>6. SettingsIn(k) = node'[0].settings
      BY <1>1, <1>3, <3>1, SettingsArrive
    <3>7. PICK g : g = [packet |-> k, age |-> 0]
      OBVIOUS
    <3>8. g.packet = k /\ g.age = 0 /\ IsRecord(g, {"packet", "age"})
      BY <3>7 DEF IsRecord
    <3>9. "exit" \notin k.flags /\ "setup" \in k.flags
      BY <3>4
    <3>10. UnderWay(zero, g)'
      BY <3>3, <3>4, <3>5, <3>6, <3>8, <3>9, Numbers DEF UnderWay
    <3> QED BY <3>1, <3>4, <3>7, <3>10
  <2>3. \A k \in packets : k.player = p /\ UnderWay(zero, [packet |-> k, age |-> 0])'
    BY <2>2
  <2>4. \A q \in Nodes \ {p} : node[p].nodeingame[q] => \E k \in packets : k.to = q
    BY <2>2
  <2>5. node'[p].maketic <= node[p].maketic + 1
    BY <2>1 DEF Frame
  <2> HIDE DEF packets
  <2>6. \A f \in net' : UnderWay(zero, f)'
    BY <1>1, <1>3, <2>1, <2>3, <2>4, <2>5, OnTheWayKeeps
  <2> QED BY <2>1, <2>6, Together
<1> QED BY <1>2, <1>3 DEF SendsSetup

LEMMA HearsOfKeeps ==
  ASSUME NEW zero \in BOOLEAN, NInv(zero), NEW p \in Nodes, HearsOf(p) PROVE NInv(zero)'
<1>1. PICK f \in net : /\ p = 0 /\ node[p].phase = "arbitrate"
                       /\ node' = [node EXCEPT ![p].gotinfo = @ \cup {f.packet.player}]
                       /\ net' = net \ {f}
  BY DEF HearsOf
<1>2. node[p] = [f_1 \in NodeFields |-> node[p][f_1]]
  BY DEF NInv, Settled, Sane, Shaped, IsRecord
<1> DEFINE phase == node[p].phase
           heard == node[p].gotinfo \cup {f.packet.player}
<1>3. [node[p] EXCEPT !.gotinfo = heard]
        = [node[p] EXCEPT !.phase = phase, !.settings = node[p].settings, !.gotinfo = heard]
  BY <1>2 DEF NodeFields
<1>4. node' = Rephased(p, phase, node[p].settings, heard)
  BY <1>1, <1>3 DEF Rephased
<1>5. phase = "arbitrate" /\ node[p].settings = node[0].settings /\ ~At(p, "gone")
  BY <1>1 DEF At
<1> HIDE DEF phase, heard
<1>6. NodesAgree(zero)' /\ Frame(p) /\ node'[p].maketic = node[p].maketic
  BY <1>4, <1>5, PhaseStep
<1>7. \A g \in net' : UnderWay(zero, g)'
  BY <1>1, <1>6, LessUnderWay
<1> QED BY <1>6, <1>7, Together

LEMMA HearsSetupKeeps ==
  ASSUME NEW zero \in BOOLEAN, NInv(zero), NEW p \in Nodes, HearsSetup(p) PROVE NInv(zero)'
<1>1. PICK f \in net : /\ p # 0 /\ node[p].phase = "arbitrate"
                       /\ node' = IF "setup" \in f.packet.flags
                                  THEN [node EXCEPT ![p].phase = "play", ![p].settings = SettingsIn(f.packet)] ELSE node
                       /\ net' = net \ {f}
  BY DEF HearsSetup
<1>2. CASE "setup" \notin f.packet.flags
  <2>1. UNCHANGED node
    BY <1>1, <1>2
  <2>2. NodesAgree(zero)' /\ Frame(p) /\ node'[p].maketic = node[p].maketic
    BY <2>1, SameNodes
  <2>3. \A g \in net' : UnderWay(zero, g)'
    BY <1>1, <2>2, LessUnderWay
  <2> QED BY <2>2, <2>3, Together
<1>3. CASE "setup" \in f.packet.flags
  <2>1. node[p] = [x \in NodeFields |-> node[p][x]] /\ node = [r \in Nodes |-> node[r]]
    BY DEF NInv, Settled, Sane, Shaped, IsRecord
  <2> DEFINE phase == "play"
  <2> PICK settings : settings = SettingsIn(f.packet)
    OBVIOUS
  <2>2. settings = node[0].settings
    BY <1>3 DEF NInv, UnderWay
  <2>3. node' = [node EXCEPT ![p].phase = phase, ![p].settings = settings]
    BY <1>1, <1>3
  <2> HIDE DEF phase
  <2>4. [node EXCEPT ![p].phase = phase, ![p].settings = settings]
          = [node EXCEPT ![p] = [node[p] EXCEPT !.phase = phase, !.settings = settings]]
    BY <2>1
  <2>5. [node[p] EXCEPT !.phase = phase, !.settings = settings]
          = [node[p] EXCEPT !.phase = phase, !.settings = settings, !.gotinfo = node[p].gotinfo]
    BY <2>1 DEF NodeFields
  <2>6. node' = Rephased(p, phase, settings, node[p].gotinfo)
    BY <2>3, <2>4, <2>5 DEF Rephased
  <2>7. ~At(p, "gone")
    BY <1>1 DEF At
  <2>8. NodesAgree(zero)' /\ Frame(p) /\ node'[p].maketic = node[p].maketic
    <3>1. At(p, "gone") => phase = "gone"
      BY <2>7
    <3>2. (phase = "play" => settings = node[0].settings) /\ (p = 0 => settings = node[0].settings)
      BY <2>2
    <3> QED BY <2>6, <3>1, <3>2, PhaseStep
  <2>9. \A g \in net' : UnderWay(zero, g)'
    BY <1>1, <2>8, LessUnderWay
  <2> QED BY <2>8, <2>9, Together
<1> QED BY <1>2, <1>3

\* A packet may be lost, or come to nobody.
LEMMA LossKeeps ==
  ASSUME NEW zero \in BOOLEAN, NInv(zero), UNCHANGED node, net' \subseteq net PROVE NInv(zero)'
<1>1. 0 \in Nodes
  BY NetAssumption
<1>2. NodesAgree(zero)' /\ Frame(0) /\ node'[0].maketic = node[0].maketic
  BY <1>1, SameNodes
<1>3. \A f \in net' : UnderWay(zero, f)'
  BY <1>1, <1>2, LessUnderWay
<1> QED BY <1>2, <1>3, Together

LEMMA StepKeeps == ASSUME NEW zero \in BOOLEAN, NInv(zero), [NetNext]_net_vars PROVE NInv(zero)'
<1>1. CASE UNCHANGED net_vars
  BY <1>1, LossKeeps DEF net_vars
<1>2. ASSUME NEW p \in Nodes, NetUpdate(p) PROVE NInv(zero)'
  BY <1>2, NetUpdateKeeps
<1>3. ASSUME NEW p \in Nodes, SendsSetup(p) PROVE NInv(zero)'
  BY <1>3, SendsSetupKeeps
<1>4. ASSUME NEW p \in Nodes, Receive(p) PROVE NInv(zero)'
  BY <1>4, ReceiveStep
<1>5. ASSUME NEW p \in Nodes, HearsOf(p) PROVE NInv(zero)'
  BY <1>5, HearsOfKeeps
<1>6. ASSUME NEW p \in Nodes, HearsSetup(p) PROVE NInv(zero)'
  BY <1>6, HearsSetupKeeps
<1>7. ASSUME NEW p \in Nodes, D_QuitNetGame(p) PROVE NInv(zero)'
  BY <1>7, QuitKeeps
<1>8. CASE Lose
  <2>1. UNCHANGED node /\ net' \subseteq net
    BY <1>8 DEF Lose
  <2> QED BY <2>1, LossKeeps
<1>9. CASE Drop
  <2>1. UNCHANGED node /\ net' \subseteq net
    BY <1>9 DEF Drop
  <2> QED BY <2>1, LossKeeps
<1> QED BY <1>1, <1>2, <1>3, <1>4, <1>5, <1>6, <1>7, <1>8, <1>9 DEF NetNext, Step, Hears

(* ----------------------------------------------------------------------- *)
(* The start                                                                *)
(* ----------------------------------------------------------------------- *)

LEMMA LastInIs ==
  ASSUME NEW start \in Nat, NEW t \in (start - BACKUPTICS)..(start - 1) PROVE LastIn(Slot(t), start) = t
<1> DEFINE T == {u \in (start - BACKUPTICS)..(start - 1) : Slot(u) = Slot(t)}
<1>1. BACKUPTICS \in Nat /\ t \in Int
  BY Numbers
<1>2. T = {t}
  <2>1. ASSUME NEW u \in (start - BACKUPTICS)..(start - 1), Slot(u) = Slot(t) PROVE u = t
    BY <1>1, <2>1, SlotUnique
  <2> QED BY <2>1
<1>3. LastIn(Slot(t), start) = Max(T)
  BY DEF LastIn
<1> QED BY <1>1, <1>2, <1>3, MaxOfOne

LEMMA FreshIsSettled ==
  ASSUME NEW p \in Nodes, NEW settings, NEW start \in Nat, NEW extratics \in {0, 1}
  PROVE LET st == Fresh(settings, start, extratics)
        IN /\ Settled(start = 0, p, st) /\ st.settings = settings /\ st.maketic = start
           /\ \A q \in Nodes : st.nodeingame[q] /\ st.nettics[q] = start
           /\ st.phase = IF start = 0 THEN "arbitrate" ELSE "play"
<1> DEFINE zero == start = 0
           st == Fresh(settings, start, extratics)
           ring == [slot \in 0..(BACKUPTICS - 1) |->
                      IF start = 0 THEN [tic |-> 0, consistancy |-> 0]
                      ELSE [tic |-> LastIn(slot, start), consistancy |-> LastIn(slot, start) - BACKUPTICS]]
           places == [slot \in 0..(BACKUPTICS - 1) |-> IF start = 0 THEN 0 ELSE LastIn(slot, start)]
<1>1. /\ st.phase = (IF start = 0 THEN "arbitrate" ELSE "play") /\ st.settings = settings /\ st.extratics = extratics
      /\ st.maketic = start /\ st.gametic = start /\ st.halted = FALSE /\ st.astray = FALSE
      /\ st.nettics = [q \in Nodes |-> start] /\ st.resendto = [q \in Nodes |-> start]
      /\ st.resendcount = [q \in Nodes |-> 0] /\ st.remoteresend = [q \in Nodes |-> FALSE]
      /\ st.nodeingame = [q \in Nodes |-> TRUE] /\ st.localcmds = ring /\ st.netcmds = [q \in Nodes |-> ring]
      /\ st.consistancy = [q \in Nodes |-> places] /\ IsRecord(st, NodeFields)
  BY DEF Fresh, IsRecord, NodeFields
<1>2. BACKUPTICS \in Nat /\ BACKUPTICS >= 4 /\ LIMIT \in Nat
  BY Numbers
<1>3. ASSUME NEW t \in (start - BACKUPTICS)..(start - 1)
      PROVE ring[Slot(t)] = Cmd(zero, t) /\ places[Slot(t)] = Was(zero, t)
  <2>1. t \in Int /\ Slot(t) \in 0..(BACKUPTICS - 1)
    BY <1>2, SlotIn DEF Slots
  <2>2. CASE start = 0
    <3>1. Was(zero, t) = 0 /\ Was(zero, t - BACKUPTICS) = 0
      BY <1>2, <2>1, <2>2 DEF Was
    <3>2. ring[Slot(t)] = [tic |-> 0, consistancy |-> 0] /\ places[Slot(t)] = 0
      BY <2>1, <2>2
    <3> HIDE DEF ring, places, zero
    <3> QED BY <3>1, <3>2 DEF Cmd
  <2>3. CASE start # 0
    <3>1. Was(zero, t) = t /\ Was(zero, t - BACKUPTICS) = t - BACKUPTICS
      BY <2>3 DEF Was
    <3>2. LastIn(Slot(t), start) = t
      BY LastInIs
    <3>3. ring[Slot(t)] = [tic |-> t, consistancy |-> t - BACKUPTICS] /\ places[Slot(t)] = t
      BY <2>1, <2>3, <3>2
    <3> HIDE DEF ring, places, zero
    <3> QED BY <3>1, <3>3 DEF Cmd
  <2> QED BY <2>2, <2>3
<1>4. Commands(zero, ring, start) /\ Places(zero, places, start)
  <2>1. IsRing(ring) /\ IsRing(places)
    BY DEF IsRing, Slots
  <2> HIDE DEF ring, places, zero
  <2> QED BY <1>3, <2>1 DEF Commands, Places
<1> HIDE DEF st, ring, places, zero
<1>5. Shaped(st)
  <2>1. st.netcmds = [q \in Nodes |-> st.netcmds[q]] /\ st.consistancy = [q \in Nodes |-> st.consistancy[q]]
    BY <1>1
  <2>2. /\ st.nettics \in [Nodes -> Nat] /\ st.resendto \in [Nodes -> Int] /\ st.resendcount \in [Nodes -> Int]
        /\ st.remoteresend \in [Nodes -> BOOLEAN] /\ st.nodeingame \in [Nodes -> BOOLEAN]
    BY <1>1
  <2> QED BY <1>1, <2>1, <2>2 DEF Shaped
<1>6. Behind(p, st)
  BY <1>1, <1>2 DEF Behind
<1>7. Filled(zero, st)
  BY <1>1, <1>4 DEF Filled
<1>8. Asked(st, BACKUPTICS - 1)
  BY <1>1, <1>2 DEF Asked
<1> QED BY <1>1, <1>5, <1>6, <1>7, <1>8 DEF Settled, Sane, st, zero

LEMMA StartAgrees == NetInit => IInv
<1> SUFFICES ASSUME NetInit PROVE IInv
  OBVIOUS
<1>1. PICK game \in Games, settings \in Settings :
        node = [p \in Nodes |-> Fresh(IF p = 0 \/ game.from > 0 THEN settings ELSE [skill |-> 0, episode |-> 0, map |-> 0],
                                      game.from, game.extratics)]
  BY DEF NetInit
<1>2. game.from \in Nat /\ game.extratics \in {0, 1} /\ 0 \in Nodes /\ net = {}
  BY NetAssumption DEF NetInit
<1> DEFINE zero == game.from = 0
           chosen(p) == IF p = 0 \/ game.from > 0 THEN settings ELSE [skill |-> 0, episode |-> 0, map |-> 0]
<1>3. \A p \in Nodes : node[p] = Fresh(chosen(p), game.from, game.extratics)
  BY <1>1
<1>4. node = [p \in Nodes |-> node[p]]
  BY <1>1
<1>5. chosen(0) = settings /\ (game.from # 0 => \A p \in Nodes : chosen(p) = settings)
  BY <1>2
<1> HIDE DEF chosen
<1>6. ASSUME NEW p \in Nodes
      PROVE /\ Settled(zero, p, node[p]) /\ node[p].settings = chosen(p) /\ node[p].maketic = game.from
            /\ \A q \in Nodes : node[p].nodeingame[q] /\ node[p].nettics[q] = game.from
            /\ node[p].phase = IF game.from = 0 THEN "arbitrate" ELSE "play"
  BY <1>2, <1>3, FreshIsSettled
<1>7. Apart
  BY <1>2, <1>6 DEF Apart
<1>8. SameGame
  BY <1>2, <1>5, <1>6 DEF SameGame, At
<1>9. node[0].settings \in Settings
  BY <1>2, <1>5, <1>6
<1>10. zero \in BOOLEAN
  OBVIOUS
<1> HIDE DEF zero
<1>11. NInv(zero)
  BY <1>2, <1>4, <1>6, <1>7, <1>8, <1>9 DEF NInv
<1> QED BY <1>10, <1>11 DEF IInv

\* What the invariant is for.
LEMMA InvariantTells == IInv => GamesAgree
<1> SUFFICES ASSUME NEW zero \in BOOLEAN, NInv(zero) PROVE GamesAgree
  BY DEF IInv
<1>1. \A p \in Nodes : Sane(zero, p, node[p])
  BY DEF NInv, Settled
<1>2. EveryoneRunsTheSame /\ NeverHalts
  BY <1>1 DEF EveryoneRunsTheSame, NeverHalts, Sane
<1>3. LackedCommandsAreKept
  <2> SUFFICES ASSUME NEW p \in Nodes, NEW q \in Nodes, At(p, "play"), node[p].nodeingame[q],
                      NEW t \in node[q].nettics[p]..(node[p].maketic - 1)
               PROVE node[p].localcmds[Slot(t)].tic = t
    BY DEF LackedCommandsAreKept
  <2>1. ~At(p, "gone")
    BY DEF At
  <2>2. t \in Nat /\ t \in (node[p].maketic - BACKUPTICS)..(node[p].maketic - 1)
    BY <2>1, Chain, Numbers
  <2>3. Commands(zero, node[p].localcmds, node[p].maketic)
    BY <1>1 DEF Sane, Filled
  <2>4. node[p].localcmds[Slot(t)] = Cmd(zero, t)
    BY <2>2, <2>3 DEF Commands
  <2>5. Cmd(zero, t).tic = Was(zero, t)
    BY DEF Cmd
  <2>6. Was(zero, t) = t
    BY <2>2 DEF Was
  <2> QED BY <2>4, <2>5, <2>6
<1>4. NobodyRunsAhead
  <2> SUFFICES ASSUME NEW p \in Nodes, NEW q \in Nodes, At(p, "play"), node[p].nodeingame[q]
               PROVE node[p].gametic - node[q].gametic < BACKUPTICS \div 2
    BY DEF NobodyRunsAhead
  <2>1. ~At(p, "gone")
    BY DEF At
  <2>2. /\ node[p].gametic \in Nat /\ node[q].gametic \in Nat /\ node[p].nettics[q] \in Nat /\ node[q].maketic \in Nat
        /\ node[p].gametic <= node[p].nettics[q] /\ node[p].nettics[q] <= node[q].maketic
        /\ node[q].maketic <= node[q].gametic + LIMIT
    BY <2>1, Chain
  <2>3. node[p].gametic - node[q].gametic <= LIMIT
    BY <2>2, Numbers
  <2>4. LIMIT < BACKUPTICS \div 2 /\ LIMIT \in Int /\ BACKUPTICS \div 2 \in Int
    BY Numbers
  <2> QED BY <2>2, <2>3, <2>4
<1> QED BY <1>2, <1>3, <1>4 DEF GamesAgree, NInv

\* All who play play one game: the same settings, the same commands in the same
\* tics, none of them forgotten while another lacks it, nobody ahead of what the
\* others have made, and none of the errors of d_net.c and g_game.c: for any number of
\* nodes, lost and doubled packets, and tics beyond the wrap of their low byte.
THEOREM NetGamesAgree == NetSpec => []GamesAgree
<1>1. IInv /\ [NetNext]_net_vars => IInv'
  BY StepKeeps DEF IInv
<1> QED BY StartAgrees, <1>1, InvariantTells, PTL DEF NetSpec

=============================================================================
