------------------------------- MODULE DoomZone -------------------------------
(* The zone (z_zone.c), the lumps read into it (w_wad.c) and those who use it: *)
(* the status bar, the intermission, the level, the textures. Every address is *)
(* a block's; a pointer is the address of the block it points into.            *)
(*                                                                             *)
(* What a user does is a list of calls that are made one after the other. A    *)
(* call is one step, but for Z_Malloc's search, of which a step is one turn of *)
(* its loop, and Z_FreeTags, of which a step frees one block.                  *)
EXTENDS Integers, Sequences

CONSTANTS
  SIZE,          \* of the zone behind its header
  HEADER,        \* sizeof (memblock_t)
  MINFRAGMENT,
  Files,         \* sequence of files, each a sequence of [name |-> , size |-> ]
  Composite,     \* the patches of the one texture that is composed
  COMPOSITESIZE,
  THINKERSIZE, LEVELSIZE

\* What of the lumps that are held lies where, and under which tag. The
\* intermission's star is one of the status bar's faces.
STBAR == <<"face">>
WISTAR == <<"face">>
WINAMES == <<"percent">>
Names == {"face", "percent", "reject", "vertexes", "picture"}

\* The game's own file, the first, has all that is asked for by name; a wall is
\* not made of what the status bar shows.
ASSUME ZoneAssumption ==
  /\ SIZE \in Nat \ {0} /\ HEADER \in Nat \ {0} /\ MINFRAGMENT \in Nat
  /\ {COMPOSITESIZE, THINKERSIZE, LEVELSIZE} \subseteq Nat
  /\ Files \in Seq(Seq([name : STRING, size : Nat])) /\ Files # <<>>
  /\ Composite \in Seq(STRING \ {"face", "reject"})
  /\ \A name \in Names \cup {Composite[i] : i \in DOMAIN Composite} :
       \E l \in DOMAIN Files[1] : Files[1][l].name = name

VARIABLES
  blocks,        \* address -> [size, user, tag, next, prev]
  rover,
  ptr,           \* owner -> the address it was given, or NULL
  lumpinfo,      \* the lumps there are: [name |-> , size |-> ] each
  phase,         \* "adding", "starting", "level", "tally", "leaving"
  files,         \* those still to add
  halted,        \* NONE, or the size of the request that failed
  todo,          \* the calls still to be made; the first is under way
  search         \* the variables of Z_Malloc's loop

zone_vars == <<blocks, rover, ptr, lumpinfo, phase, files, halted, todo, search>>

NULL == -1
NONE == -1
ZONE == 0        \* &mainzone->blocklist
NOBODY == -1     \* user == NULL
ANYONE == -2     \* user == (void *)2
PU_STATIC == 1
PU_LEVEL == 50
PU_LEVSPEC == 51
PU_PURGELEVEL == 100
PU_CACHE == 101

\* Owners: a lump is one under its number (lumpcache); of texturecomposite there
\* is one. The zone knows the address of these. Others keep what they are given.
COMPOSITE == 0
LUMPINFO == -3
OLDINFO == -4
DIRBUF == -5
LUMPCACHE == -6
LNAMES == -7
Keepers == {LUMPINFO, OLDINFO, DIRBUF, LUMPCACHE, LNAMES}
User(o) == IF o >= COMPOSITE THEN o ELSE ANYONE

FreeBlock(b) == b.user = NOBODY
Zone(b, r, p) == [blocks |-> b, rover |-> r, ptr |-> p]
Z == Zone(blocks, rover, ptr)
Becomes(z) == blocks' = z.blocks /\ rover' = z.rover /\ ptr' = z.ptr

(* ----------------------------------------------------------------------- *)
(* z_zone.c: the zone and the pointers into it                              *)
(* ----------------------------------------------------------------------- *)

Z_Init ==
  /\ blocks = [a \in {ZONE, 1} |->
       IF a = ZONE THEN [size |-> 0, user |-> ANYONE, tag |-> PU_STATIC, next |-> 1, prev |-> 1]
                   ELSE [size |-> SIZE, user |-> NOBODY, tag |-> 0, next |-> ZONE, prev |-> ZONE]]
  /\ rover = 1
  /\ halted = NONE

Unlist(f, a) == [x \in DOMAIN f \ {a} |-> f[x]]

\* A block takes the one behind it.
Joined(b, a, other) ==
  Unlist([b EXCEPT ![a].size = @ + b[other].size, ![a].next = b[other].next, ![b[other].next].prev = a], other)
Absorb(z, a, other) ==
  Zone(Joined(z.blocks, a, other), IF z.rover = other THEN a ELSE z.rover, z.ptr)

MergePrev(z, a) ==
  IF FreeBlock(z.blocks[z.blocks[a].prev]) THEN Absorb(z, z.blocks[a].prev, a) ELSE z
MergeNext(z, a) ==
  IF FreeBlock(z.blocks[z.blocks[a].next]) THEN Absorb(z, a, z.blocks[a].next) ELSE z

\* The address a block merges to.
MergedAt(z, a) == IF FreeBlock(z.blocks[z.blocks[a].prev]) THEN z.blocks[a].prev ELSE a

\* A block's user and tag, and what its user is told: *user = a.
Owned(b, a, user, tag) == [b EXCEPT ![a] = [@ EXCEPT !.user = user, !.tag = tag]]
Tell(p, user, a) == IF user \in DOMAIN p THEN [p EXCEPT ![user] = a] ELSE p

Disown(z, a) ==
  Zone(Owned(z.blocks, a, NOBODY, 0), z.rover, Tell(z.ptr, z.blocks[a].user, NULL))

Freed(z, a) == MergeNext(MergePrev(Disown(z, a), a), MergedAt(z, a))

\* The part of the block that is not needed is a block again when it is big enough.
Rest(b, size, base) ==
  [size |-> b[base].size - size, user |-> NOBODY, tag |-> 0, next |-> b[base].next, prev |-> base]
Split(b, size, base) ==
  [x \in DOMAIN b \cup {base + size} |->
     IF x = base + size THEN Rest(b, size, base)
     ELSE [b EXCEPT ![b[base].next].prev = base + size, ![base].next = base + size, ![base].size = size][x]]
Fragment(z, size, base) ==
  IF z.blocks[base].size - size <= MINFRAGMENT THEN z
  ELSE Zone(Split(z.blocks, size, base), z.rover, z.ptr)

Give(z, tag, owner, base) ==
  Zone(Owned(z.blocks, base, User(owner), tag), z.blocks[base].next, Tell(z.ptr, owner, base))

(* ----------------------------------------------------------------------- *)
(* The calls                                                                *)
(* ----------------------------------------------------------------------- *)

Call(function, owner, bytes, tag) ==
  [call |-> function, owner |-> owner, bytes |-> bytes, tag |-> tag]
Mallocs(bytes, tag, owner) == Call("Z_Malloc", owner, bytes, tag)
Frees(owner) == Call("Z_Free", owner, 0, 0)
FreesTags(lowtag) == Call("Z_FreeTags", ANYONE, 0, lowtag)
ChangesTag(owner, tag) == Call("Z_ChangeTag", owner, 0, tag)
Caches(lump, tag) == Call("W_CacheLumpNum", lump, 0, tag)

NOSEARCH == [base |-> NULL, rover |-> NULL, start |-> NULL]
Making(function) == halted = NONE /\ todo # <<>> /\ Head(todo).call = function
Request == Head(todo).bytes + HEADER
Returns == todo' = Tail(todo)
Users == <<lumpinfo, phase, files>>

\* The search begins at the rover, or at the free block before it, and ends where
\* it would come to the block before that.
Z_Malloc ==
  /\ Making("Z_Malloc") /\ search = NOSEARCH
  /\ LET base == MergedAt(Z, rover)
     IN search' = [base |-> base, rover |-> base, start |-> blocks[base].prev]
  /\ UNCHANGED <<blocks, rover, ptr, halted, todo, Users>>

\* The end of a turn: the block at `base' does, or the search goes on at `rv'.
Suits(z, base) == FreeBlock(z.blocks[base]) /\ z.blocks[base].size >= Request
NextTurn(z, base, rv) ==
  /\ UNCHANGED <<halted, Users>>
  /\ IF Suits(z, base)
     THEN /\ Becomes(Give(Fragment(z, Request, base), Head(todo).tag, Head(todo).owner, base))
          /\ search' = NOSEARCH /\ Returns
     ELSE /\ Becomes(z) /\ search' = [search EXCEPT !.base = base, !.rover = rv]
          /\ UNCHANGED todo

Searching == halted = NONE /\ search # NOSEARCH
LooksAt == blocks[search.rover]
Fails ==
  /\ Searching /\ search.rover = search.start
  /\ halted' = Request
  /\ UNCHANGED <<blocks, rover, ptr, todo, search, Users>>
SkipsFree ==
  /\ Searching /\ search.rover # search.start /\ FreeBlock(LooksAt)
  /\ NextTurn(Z, search.base, LooksAt.next)
SkipsOwned ==
  /\ Searching /\ search.rover # search.start /\ ~FreeBlock(LooksAt)
  /\ LooksAt.tag < PU_PURGELEVEL
  /\ NextTurn(Z, LooksAt.next, LooksAt.next)
Purged(z, before) == NextTurn(z, z.blocks[before].next, z.blocks[z.blocks[before].next].next)
Purges ==
  /\ Searching /\ search.rover # search.start /\ ~FreeBlock(LooksAt)
  /\ LooksAt.tag >= PU_PURGELEVEL
  /\ Purged(Freed(Z, search.rover), blocks[search.base].prev)

\* What the variable of a keeper holds is not looked at again.
Z_Free ==
  /\ Making("Z_Free") /\ Returns
  /\ LET z == Freed(Z, ptr[Head(todo).owner])
     IN Becomes(Zone(z.blocks, z.rover, [z.ptr EXCEPT ![Head(todo).owner] = NULL]))
  /\ UNCHANGED <<halted, search, Users>>

\* The loop goes up the zone, and holds the block after the one it frees: one that
\* is free when it gets there was merged away, and is passed over by its cleared user.
Tagged(lowtag, hightag) ==
  {a \in DOMAIN blocks \ {ZONE} : ~FreeBlock(blocks[a]) /\ blocks[a].tag \in lowtag .. hightag}
Z_FreeTags ==
  /\ Making("Z_FreeTags")
  /\ LET tagged == Tagged(Head(todo).tag, PU_PURGELEVEL - 1) IN
     IF tagged = {}
     THEN Returns /\ UNCHANGED <<blocks, rover, ptr>>
     ELSE /\ \E a \in tagged : (\A b \in tagged : a <= b) /\ Becomes(Freed(Z, a))
          /\ UNCHANGED todo
  /\ UNCHANGED <<halted, search, Users>>

SetsTag(a, tag) == blocks' = Owned(blocks, a, blocks[a].user, tag)
Z_ChangeTag ==
  /\ Making("Z_ChangeTag") /\ Returns
  /\ SetsTag(ptr[Head(todo).owner], Head(todo).tag)
  /\ UNCHANGED <<rover, ptr, halted, search, Users>>

W_CacheLumpNum ==
  /\ Making("W_CacheLumpNum")
  /\ LET lump == Head(todo).owner
         tag == Head(todo).tag
     IN IF ptr[lump] # NULL
        THEN SetsTag(ptr[lump], tag) /\ Returns
        ELSE todo' = <<Mallocs(lumpinfo[lump].size, tag, lump)>> \o Tail(todo) /\ UNCHANGED blocks
  /\ UNCHANGED <<rover, ptr, halted, search, Users>>

Calls ==
  \/ Z_Malloc \/ Fails \/ SkipsFree \/ SkipsOwned \/ Purges
  \/ Z_Free \/ Z_FreeTags \/ Z_ChangeTag \/ W_CacheLumpNum

(* ----------------------------------------------------------------------- *)
(* w_wad.c                                                                  *)
(* ----------------------------------------------------------------------- *)

TABLESIZE == 1   \* of lumpinfo, lumpcache, lnames and a file's directory, abstractly

Idle == halted = NONE /\ todo = <<>>
Does(calls) == todo' = calls /\ UNCHANGED <<blocks, rover, halted, search>>

\* The last lump of a name is the one that counts.
W_CheckNumForName(name) ==
  CHOOSE l \in DOMAIN lumpinfo :
    lumpinfo[l].name = name /\ \A k \in DOMAIN lumpinfo : lumpinfo[k].name = name => k <= l
W_CacheLumpName(name, tag) == Caches(W_CheckNumForName(name), tag)

\* A file that cannot be opened is passed over (the first was looked for, by
\* IdentifyVersion). The table of the lumps moves to a larger block.
W_AddFile ==
  /\ phase = "adding" /\ files # <<>> /\ Idle
  /\ files' = Tail(files)
  /\ \/ /\ lumpinfo' = lumpinfo \o Head(files)
        /\ ptr' = [ptr EXCEPT ![OLDINFO] = ptr[LUMPINFO], ![LUMPINFO] = NULL]
        /\ Does(<<Mallocs(TABLESIZE, PU_STATIC, DIRBUF), Mallocs(TABLESIZE, PU_STATIC, LUMPINFO)>>
                \o (IF ptr[LUMPINFO] = NULL THEN <<>> ELSE <<Frees(OLDINFO)>>)
                \o <<Frees(DIRBUF)>>)
     \/ lumpinfo # <<>> /\ Does(<<>>) /\ UNCHANGED <<ptr, lumpinfo>>
  /\ UNCHANGED phase

W_InitMultipleFiles ==
  /\ phase = "adding" /\ files = <<>> /\ lumpinfo # <<>> /\ Idle
  /\ Does(<<Mallocs(TABLESIZE, PU_STATIC, LUMPCACHE)>>)
  /\ ptr' = [o \in DOMAIN ptr \cup DOMAIN lumpinfo |-> IF o \in DOMAIN ptr THEN ptr[o] ELSE NULL]
  /\ phase' = "starting"
  /\ UNCHANGED <<lumpinfo, files>>

(* ----------------------------------------------------------------------- *)
(* Those who use it                                                         *)
(* ----------------------------------------------------------------------- *)

Playing == phase \in {"level", "tally", "leaving"} /\ Idle
Goes(calls, next) == Does(calls) /\ phase' = next /\ UNCHANGED <<ptr, lumpinfo, files>>

Loads(names, tag) == [i \in 1 .. Len(names) |-> W_CacheLumpName(names[i], tag)]
LetsStar(names) == \* mutant
  [i \in 1 .. Len(names \o STBAR) |-> ChangesTag(W_CheckNumForName((names \o STBAR)[i]), PU_CACHE)]
Lets(names) == [i \in 1 .. Len(names) |-> ChangesTag(W_CheckNumForName(names[i]), PU_CACHE)]

\* The map's lumps are read, turned into the level's own blocks and freed; the
\* reject table is used as it lies.
P_LoadVertexes ==
  <<Mallocs(LEVELSIZE, PU_LEVEL, ANYONE), W_CacheLumpName("vertexes", PU_STATIC),
    Frees(W_CheckNumForName("vertexes"))>>
P_SetupLevel == <<FreesTags(PU_LEVEL)>> \o P_LoadVertexes \o <<W_CacheLumpName("reject", PU_LEVEL)>>

ST_loadGraphics == Loads(STBAR, PU_STATIC)

SetsUpLevel ==
  /\ phase \in {"starting", "level", "leaving"} /\ Idle
  /\ Goes((IF phase = "starting" THEN ST_loadGraphics ELSE <<>>) \o P_SetupLevel, "level")

WI_loadData ==
  /\ phase = "level" /\ Idle
  /\ Goes(<<Mallocs(TABLESIZE, PU_STATIC, LNAMES)>> \o Loads(WINAMES \o WISTAR, PU_STATIC), "tally")

WI_unloadData ==
  /\ phase = "tally" /\ Idle
  /\ Goes(<<Frees(LNAMES)>> \o Lets(WINAMES), "leaving")

\* A picture is drawn at once and not held: its block may be purged the next
\* time someone asks for memory.
DrawsPicture ==
  /\ Playing
  /\ Goes(<<W_CacheLumpName("picture", PU_CACHE)>>, phase)

\* The block of a composed texture is held while its patches are read.
R_GenerateComposite ==
  /\ phase = "level" /\ Idle /\ ptr[COMPOSITE] = NULL
  /\ Goes(<<Mallocs(COMPOSITESIZE, PU_STATIC, COMPOSITE)>> \o Loads(Composite, PU_CACHE)
          \o <<ChangesTag(COMPOSITE, PU_CACHE)>>, phase)

\* A thinker's block.
AddsThinker ==
  /\ phase = "level" /\ Idle
  /\ Goes(<<Mallocs(THINKERSIZE, PU_LEVSPEC, ANYONE)>>, phase)

P_RunThinkers ==
  /\ phase = "level" /\ Idle
  /\ \E a \in DOMAIN blocks :
       blocks[a].user = ANYONE /\ blocks[a].tag = PU_LEVSPEC /\ Becomes(Freed(Z, a))
  /\ UNCHANGED <<halted, todo, search, Users>>

ZoneInit ==
  /\ Z_Init
  /\ ptr = [o \in Keepers \cup {COMPOSITE} |-> NULL]
  /\ lumpinfo = <<>> /\ phase = "adding" /\ files = Files
  /\ todo = <<>> /\ search = NOSEARCH

ZoneNext ==
  \/ Calls
  \/ W_AddFile \/ W_InitMultipleFiles
  \/ SetsUpLevel \/ WI_loadData \/ WI_unloadData
  \/ DrawsPicture \/ R_GenerateComposite \/ AddsThinker \/ P_RunThinkers

ZoneSpec == ZoneInit /\ [][ZoneNext]_zone_vars

(* ----------------------------------------------------------------------- *)
(* Properties                                                               *)
(* ----------------------------------------------------------------------- *)

\* The zone is whole: its blocks follow each other without a gap and without
\* overlapping, are linked both ways, fill the zone, no two free ones touch, and
\* the rover is one of them (what Z_CheckHeap tests, after every call).
ZoneIsWhole ==
  /\ \A a \in DOMAIN blocks :
       LET b == blocks[a] IN
       /\ {b.next, b.prev} \subseteq DOMAIN blocks
       /\ blocks[b.next].prev = a /\ blocks[b.prev].next = a
       /\ a # ZONE => b.next = (IF a + b.size = SIZE + 1 THEN ZONE ELSE a + b.size)
       /\ ~(FreeBlock(b) /\ FreeBlock(blocks[b.next]))
  /\ rover \in DOMAIN blocks

\* Every pointer the zone was given leads to the block it is kept in, large
\* enough, and every such block is led to by its owner: a lump is never in two
\* places, and what is purged is forgotten (lumpcache, texturecomposite).
Bytes(o) == IF o \in Keepers THEN TABLESIZE ELSE IF o = COMPOSITE THEN COMPOSITESIZE ELSE lumpinfo[o].size
PointersAreTrue ==
  /\ \A o \in DOMAIN ptr : ptr[o] # NULL =>
       /\ ptr[o] \in DOMAIN blocks \ {ZONE}
       /\ blocks[ptr[o]].user = User(o) /\ blocks[ptr[o]].size >= Bytes(o) + HEADER
  /\ \A a \in DOMAIN blocks : blocks[a].user >= COMPOSITE => ptr[blocks[a].user] = a

\* What is held without a further look is there and cannot be purged when no call
\* is under way: the status bar's patches since ST_Init, the intermission's until
\* WI_unloadData, the reject table until the next P_SetupLevel.
Held ==
  (IF phase \in {"level", "tally", "leaving"} THEN {"face", "reject"} ELSE {})
  \cup (IF phase = "tally" THEN {"face", "percent"} ELSE {})
HeldIsThere ==
  Idle => \A name \in Held :
    LET at == ptr[W_CheckNumForName(name)] IN at # NULL /\ blocks[at].tag < PU_PURGELEVEL

\* A request fails only when nothing the search may purge would make room: then
\* every block that is free is too small.
FailsOnlyWhenFull ==
  halted # NONE => \A a \in DOMAIN blocks : FreeBlock(blocks[a]) => blocks[a].size < halted

\* The zone, its owners' pointers and what they rely on agree after every step.
ZoneIsSound == ZoneIsWhole /\ PointersAreTrue /\ HeldIsThere /\ FailsOnlyWhenFull
=============================================================================
