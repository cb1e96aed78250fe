------------------------------- MODULE DoomChat -------------------------------
(* Talk between players (hu_stuff.c, hu_lib.c). What one of them types is put *)
(* key by key into a ring, one key of it goes out with each command, and the  *)
(* others put the line together again. Every message there is has to share    *)
(* one line of the screen.                                                    *)
EXTENDS Integers, Sequences, SequencesExt, FiniteSetsExt

CONSTANTS
  Players,
  Speaker,     \* who types
  Told,        \* whom the game tells something
  QUEUESIZE, MAXLINELENGTH, \* 128 and 80
  MSGTIMEOUT,  \* 4 * TICRATE
  Macro,       \* one of chat_macros
  MAXKEYS      \* how many keys are pressed and messages given

VARIABLES
  chat,        \* the speaker's: whether the line is open, the line, the ring
  line,        \* what each player has put together of the speaker's line
  dest,        \* chat_dest of the speaker at each player
  hud,         \* the message line of each player
  level,       \* whether a level is played
  keys,        \* how many keys and messages there were
  odd,         \* whether gametic is odd
  said, heard, \* the lines that were ended, and those that each player was shown
  spoilt       \* the lines that were left, did not fit or met another level

chat_vars == <<chat, line, dest, hud, level, keys, odd, said, heard, spoilt>>

Others == Players \ {Speaker}
BROADCAST == "all"
NOKEY == "none"
ENTER == "enter"
BACKSPACE == "backspace"
ESCAPE == "escape"

(* ----------------------------------------------------------------------- *)
(* A line of text                                                           *)
(* ----------------------------------------------------------------------- *)

HUlib_addCharToTextLine(l, c) == IF Len(l) = MAXLINELENGTH THEN l ELSE Append(l, c)
HUlib_delCharFromIText(l) == IF l = <<>> THEN l ELSE Front(l)
HUlib_keyInIText(l, c) ==
  CASE c = BACKSPACE -> HUlib_delCharFromIText(l)
    [] c \in {ENTER, ESCAPE} -> l
    [] OTHER -> HUlib_addCharToTextLine(l, c)

(* ----------------------------------------------------------------------- *)
(* The ring                                                                 *)
(* ----------------------------------------------------------------------- *)

Full(c) == (c.head + 1) % QUEUESIZE = c.tail

\* What does not fit is dropped, and the player told.
HU_queueChatChar(c, key) ==
  IF Full(c) THEN [c EXCEPT !.dropped = TRUE]
  ELSE [c EXCEPT !.chatchars[c.head] = key, !.head = (@ + 1) % QUEUESIZE]

HU_dequeueChatChar(c) ==
  IF c.head = c.tail THEN [key |-> NOKEY, chat |-> c]
  ELSE [key |-> c.chatchars[c.tail], chat |-> [c EXCEPT !.tail = (@ + 1) % QUEUESIZE]]

(* ----------------------------------------------------------------------- *)
(* The message line                                                         *)
(* ----------------------------------------------------------------------- *)

Shows(h, text, kind) == [h EXCEPT !.shown = text, !.kind = kind, !.on = TRUE, !.counter = MSGTIMEOUT]

\* The message's time; then the player's own message, unless a line of talk is
\* on or messages are off, which an important one overrules.
KeepsForbidden(h) == \* mutant
  LET timed == IF h.counter = 0 THEN h ELSE [h EXCEPT !.counter = @ - 1, !.on = @ /\ h.counter # 1]
  IN IF (h.showMessages \/ h.important) /\ h.message /\ (~timed.forbidden \/ h.important)
     THEN [Shows(timed, <<"own">>, "own") EXCEPT !.message = FALSE, !.forbidden = h.important, !.important = FALSE] ELSE timed
SpeaksOver(h) == \* mutant
  LET over == h.counter = 1
      timed == IF h.counter = 0 THEN h ELSE [h EXCEPT !.counter = @ - 1, !.on = @ /\ ~over, !.forbidden = @ /\ ~over]
  IN IF (h.showMessages \/ h.important) /\ h.message
     THEN [Shows(timed, <<"own">>, "own") EXCEPT !.message = FALSE, !.forbidden = h.important, !.important = FALSE] ELSE timed
OwnMessage(h) ==
  LET over == h.counter = 1
      timed == IF h.counter = 0 THEN h ELSE [h EXCEPT !.counter = @ - 1, !.on = @ /\ ~over, !.forbidden = @ /\ ~over]
  IN IF (h.showMessages \/ h.important) /\ h.message /\ (~timed.forbidden \/ h.important)
     THEN [Shows(timed, <<"own">>, "own") EXCEPT !.message = FALSE, !.forbidden = h.important, !.important = FALSE] ELSE timed

Speaks(h, text) == [Shows(h, text, "talk") EXCEPT !.forbidden = TRUE]

(* ----------------------------------------------------------------------- *)
(* A tic                                                                    *)
(* ----------------------------------------------------------------------- *)

\* The speaker's key at another player. Whose line it is not throws it away.
IsFor(p, d) == d \in {p, BROADCAST}
ResetsOwn(p, l, d, h, key) == \* mutant
  CASE key = NOKEY -> [line |-> l, dest |-> d, hud |-> h]
    [] key \in Players \cup {BROADCAST} -> [line |-> l, dest |-> key, hud |-> h]
    [] key = ENTER -> [line |-> IF IsFor(p, d) THEN <<>> ELSE l, dest |-> d, hud |-> IF l # <<>> /\ IsFor(p, d) THEN Speaks(h, l) ELSE h]
    [] OTHER -> [line |-> HUlib_keyInIText(l, key), dest |-> d, hud |-> h]
Hears(p, l, d, h, key) ==
  CASE key = NOKEY -> [line |-> l, dest |-> d, hud |-> h]
    [] key \in Players \cup {BROADCAST} -> [line |-> l, dest |-> key, hud |-> h]
    [] key = ENTER -> [line |-> <<>>, dest |-> d, hud |-> IF l # <<>> /\ IsFor(p, d) THEN Speaks(h, l) ELSE h]
    [] OTHER -> [line |-> HUlib_keyInIText(l, key), dest |-> d, hud |-> h]

\* HU_Ticker at all, with the key of this tic's command. Lines are numbered by
\* their ENTERs; a key that comes while no level is played spoils its line.
ChatTic ==
  LET next == HU_dequeueChatChar(chat)
      key == next.key
      ends == key = ENTER
      got == [p \in Others |-> Hears(p, line[p], dest[p], OwnMessage(hud[p]), key)]
      n == chat.sent + 1
  IN /\ chat' = IF ends THEN [next.chat EXCEPT !.sent = n] ELSE next.chat
     /\ odd' = ~odd
     /\ IF level
        THEN /\ line' = [p \in Others |-> got[p].line]
             /\ dest' = [p \in Others |-> got[p].dest]
             /\ hud' = [p \in Players |-> IF p = Speaker THEN OwnMessage(hud[p]) ELSE got[p].hud]
             /\ heard' = [p \in Others |-> IF ends /\ line[p] # <<>> /\ IsFor(p, dest[p])
                                            THEN heard[p] \cup {[n |-> n, text |-> line[p]]} ELSE heard[p]]
             /\ UNCHANGED spoilt
        ELSE /\ spoilt' = IF key = NOKEY THEN spoilt ELSE spoilt \cup {n}
             /\ UNCHANGED <<line, dest, hud, heard>>
     /\ UNCHANGED <<level, keys, said>>

(* ----------------------------------------------------------------------- *)
(* HU_Responder                                                             *)
(* ----------------------------------------------------------------------- *)

\* The keys go into the ring one after the other; what is dropped spoils its line
\* and, as it may have been whom it is for, the next.
Queue(c, out) == FoldLeft(LAMBDA d, key : IF key = ENTER /\ ~Full(d) THEN [HU_queueChatChar(d, key) EXCEPT !.entered = @ + 1]
                                          ELSE HU_queueChatChar(d, key), [c EXCEPT !.dropped = FALSE], out)

Type(c, out, ended, own) ==
  LET d == Queue(c, out) IN
  /\ level /\ keys < MAXKEYS /\ keys' = keys + 1
  /\ chat' = d
  /\ said' = said \cup ended
  /\ spoilt' = IF d.dropped THEN spoilt \cup (chat.entered + 1)..(d.entered + 2) ELSE spoilt
  /\ hud' = [hud EXCEPT ![Speaker].message = @ \/ own \/ d.dropped]
  /\ UNCHANGED <<line, dest, level, odd, heard>>

Line(n, text) == [n |-> n, to |-> chat.to, text |-> text]

\* To all, or, if they are more than two, to one of the others.
Open(to) ==
  /\ ~chat.on /\ (to \in Others => Cardinality(Players) > 2)
  /\ Type([chat EXCEPT !.on = TRUE, !.l = <<>>, !.to = to], <<to>>, {}, FALSE)

TypesOn(key) ==
  /\ chat.on
  /\ Type([chat EXCEPT !.l = HUlib_keyInIText(@, key)], <<key>>, {}, FALSE)

Enter ==
  /\ chat.on
  /\ Type([chat EXCEPT !.on = FALSE], <<ENTER>>, IF chat.l = <<>> THEN {} ELSE {Line(chat.entered + 1, chat.l)}, chat.l # <<>>)

\* What was typed stays with the others.
Escape ==
  /\ chat.on /\ level /\ keys < MAXKEYS /\ keys' = keys + 1
  /\ chat' = [chat EXCEPT !.on = FALSE]
  /\ spoilt' = spoilt \cup {chat.entered + 1}
  /\ UNCHANGED <<line, dest, hud, level, odd, said, heard>>

\* With alt: what was typed goes first, as a line of its own.
TellsMacro ==
  /\ chat.on
  /\ LET typed == IF chat.l = <<>> THEN {} ELSE {Line(chat.entered + 1, chat.l)}
     IN Type([chat EXCEPT !.on = FALSE], <<ENTER>> \o Macro \o <<ENTER>>, typed \cup {Line(chat.entered + 2, Macro)}, TRUE)

\* The last message once more.
Refresh ==
  /\ ~chat.on /\ level /\ keys < MAXKEYS /\ keys' = keys + 1
  /\ hud' = [hud EXCEPT ![Speaker] = [@ EXCEPT !.on = TRUE, !.counter = MSGTIMEOUT, !.kind = "again"]]
  /\ UNCHANGED <<chat, line, dest, level, odd, said, heard, spoilt>>

(* ----------------------------------------------------------------------- *)
(* What else happens                                                        *)
(* ----------------------------------------------------------------------- *)

\* The game has something to say to a player; the menu's word about messages is
\* important.
Message(p) ==
  /\ level /\ keys < MAXKEYS /\ keys' = keys + 1
  /\ hud' = [hud EXCEPT ![p].message = TRUE]
  /\ UNCHANGED <<chat, line, dest, level, odd, said, heard, spoilt>>
M_ChangeMessages(p) ==
  /\ level /\ keys < MAXKEYS /\ keys' = keys + 1
  /\ hud' = [hud EXCEPT ![p] = [@ EXCEPT !.message = TRUE, !.showMessages = ~@, !.important = TRUE]]
  /\ UNCHANGED <<chat, line, dest, level, odd, said, heard, spoilt>>

EndLevel ==
  /\ level /\ keys < MAXKEYS /\ keys' = keys + 1 /\ level' = FALSE
  /\ UNCHANGED <<chat, line, dest, hud, odd, said, heard, spoilt>>

\* The ring, chat_dest and the counter are kept.
HU_Start ==
  /\ ~level /\ level' = TRUE
  /\ chat' = [chat EXCEPT !.on = FALSE, !.l = <<>>]
  /\ line' = [p \in Others |-> <<>>]
  /\ hud' = [p \in Players |-> [hud[p] EXCEPT !.on = FALSE, !.important = FALSE, !.forbidden = FALSE, !.kind = "none"]]
  /\ spoilt' = spoilt \cup (chat.sent + 1)..(chat.entered + 1)
  /\ UNCHANGED <<dest, keys, odd, said, heard>>

Quiet == [message |-> FALSE, shown |-> <<>>, kind |-> "none", on |-> FALSE, counter |-> 0, forbidden |-> FALSE, important |-> FALSE,
          showMessages |-> TRUE]

ChatInit ==
  /\ chat = [on |-> FALSE, l |-> <<>>, to |-> BROADCAST, chatchars |-> [i \in 0..(QUEUESIZE - 1) |-> NOKEY], head |-> 0, tail |-> 0,
             dropped |-> FALSE, entered |-> 0, sent |-> 0]
  /\ line = [p \in Others |-> <<>>] /\ dest = [p \in Others |-> NOKEY] /\ hud = [p \in Players |-> Quiet]
  /\ level = TRUE /\ keys = 0 /\ odd = FALSE /\ said = {} /\ heard = [p \in Others |-> {}] /\ spoilt = {}

ChatNext ==
  \/ ChatTic \/ Enter \/ Escape \/ TellsMacro \/ Refresh \/ EndLevel \/ HU_Start
  \/ \E to \in Others \cup {BROADCAST} : Open(to)
  \/ \E key \in {"a", BACKSPACE} : TypesOn(key)
  \/ \E p \in Told : Message(p) \/ M_ChangeMessages(p)

\* Tics go on.
ChatFairness == []<>odd /\ []<>~odd
ChatSpec == ChatInit /\ [][ChatNext]_chat_vars /\ ChatFairness

(* ----------------------------------------------------------------------- *)
(* Properties                                                               *)
(* ----------------------------------------------------------------------- *)

\* A line is shown to those it is for, to nobody else, and as it stood on the
\* speaker's screen, whatever was corrected and whoever was spoken to before.
LinesAreHeard ==
  \A p \in Others :
    /\ \A h \in heard[p] : h.n \in spoilt \/ \E s \in said : s.n = h.n /\ s.text = h.text /\ IsFor(p, s.to)
    /\ \A s \in said : (s.n <= chat.sent /\ s.n \notin spoilt /\ IsFor(p, s.to)) => [n |-> s.n, text |-> s.text] \in heard[p]

\* What was said stays readable: no other message than an important one takes
\* its place before its time.
TalkStays ==
  [][\A p \in Players : (hud[p].kind = "talk" /\ hud[p].counter > 1 /\ level /\ ~hud[p].important)
        => hud'[p].kind \in {"talk", "again"} /\ hud'[p].on]_chat_vars

\* A message of one's own is shown in the end, however much is said.
OwnMessagesCome == \A p \in Players : []<>(~hud[p].message \/ ~hud[p].showMessages \/ ~level)

\* Talk reaches those it is for and stays long enough, and leaves room for the
\* game's own messages.
TalkIsHeard == []LinesAreHeard /\ TalkStays /\ OwnMessagesCome
=============================================================================
