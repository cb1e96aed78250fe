--------------------------- MODULE VgaFrameProofs ---------------------------
(* PixelsAreInPlace for every size of screen, any number of processes and  *)
(* any number of rectangles.                                               *)
EXTENDS VgaFrame, TLAPS

-----------------------------------------------------------------------------
(* Places on the screen *)

\* The quotient and the remainder of a place are its row and its column.
LEMMA RowAndColumn ==
  ASSUME NEW p \in Nat, NEW w \in Nat \ {0}
  PROVE  p \div w \in Nat /\ p % w \in 0 .. w - 1 /\ p = (p \div w) * w + (p % w)
OBVIOUS

\* A row ends before the next one begins.
LEMMA RowsFollow ==
  ASSUME NEW y \in Nat, NEW h \in Nat, NEW w \in Nat, y < h
  PROVE  y * w + w <= h * w
OBVIOUS

\* A place has one row and one column.
LEMMA OnePlace ==
  ASSUME NEW a \in Nat, NEW b \in Nat, NEW w \in Nat \ {0}, NEW x \in 0 .. w - 1, NEW z \in 0 .. w - 1,
         a * w + x = b * w + z
  PROVE  a = b /\ x = z
<1>1. a * w + w <= b * w => a * w + x < b * w + z OBVIOUS
<1>2. b * w + w <= a * w => b * w + z < a * w + x OBVIOUS
<1>3. ~(a < b) BY RowsFollow, <1>1
<1>4. ~(b < a) BY RowsFollow, <1>2
<1> QED BY <1>3, <1>4

\* The screen has pixels, in whole words of four.
LEMMA ScreenSize == FB_SIZE \in Nat \ {0} /\ FB_SIZE = 4 * (FB_SIZE \div 4) /\ FB_SIZE \div 4 \in Nat
<1>1. VGA_WIDTH * VGA_HEIGHT \in Nat \ {0} BY VgaAssumption
<1>2. PICK n \in Nat \ {0} : n = VGA_WIDTH * VGA_HEIGHT BY <1>1
<1>3. n % 4 = 0 BY <1>2, VgaAssumption
<1>4. n = 4 * (n \div 4) /\ n \div 4 \in Nat BY <1>3
<1> QED BY <1>2, <1>4 DEF FB_SIZE

-----------------------------------------------------------------------------
(* The invariant *)

User == Writers \union {NOBODY}
Places == {"user", "lock", "copy", "address", "data"}
Inside(p) == writing[p] \in {"copy", "address", "data"}

Shapes ==
  /\ screen = [q \in Pixel |-> screen[q]] /\ frame = [q \in Pixel |-> frame[q]]
  /\ fb_wr_addr \in Nat /\ i \in Nat
  /\ writing \in [Writers -> Places] /\ frame_lock \in User

\* The lock is held by whom is between taking and returning it.
Locked == \A p \in Writers : Inside(p) <=> frame_lock = p

\* What is sent is the sender's own, and so is all that has been sent.
Sending ==
  \A p \in Writers :
    /\ writing[p] \in {"address", "data"} => \A q \in Pixel : frame[q] = p
    /\ writing[p] = "data" =>
         /\ i <= FB_SIZE \div 4
         /\ \A q \in Pixel : q < 4 * i => screen[q] = p
         /\ i < FB_SIZE \div 4 => fb_wr_addr = 4 * i

Uniform ==
  drawing.at = "nothing" /\ (\A p \in Writers : writing[p] # "data") => \A p, q \in Pixel : screen[p] = screen[q]

Apart == drawing.at # "nothing" => \A p \in Writers : writing[p] = "user"

\* The bounds of the loops of a drawing routine.
Bounded(d) ==
  \/ d.length = Least(d.r.w, VGA_WIDTH - d.r.x0) /\ d.end = Least(d.r.y0 + d.r.h, VGA_HEIGHT)
  \/ d.r = Whole /\ d.length = FB_SIZE /\ d.end = 1
Looping(d) ==
  /\ d \in [at : {"nothing", "address", "data", "done"}, r : Rectangle, color : User,
            length : Nat, end : Nat, y : Nat, x : Nat]
  /\ d.at # "nothing" => Bounded(d)
  /\ d.r.y0 <= d.y /\ d.y <= d.end
  /\ d.at = "data" => d.y < d.end /\ d.x <= d.length
  /\ d.at = "done" => d.y = d.end

\* The pixels of a row, up to its k-th.
RowStart(d, n) == n * VGA_WIDTH + d.r.x0
InRow(d, n, k, p) == RowStart(d, n) <= p /\ p < RowStart(d, n) + k
Reached(d, p) ==
  \/ \E n \in d.r.y0 .. d.y - 1 : InRow(d, n, d.length, p)
  \/ d.at = "data" /\ InRow(d, d.y, d.x, p)

Painted ==
  /\ Looping(drawing)
  /\ drawing.at # "nothing" =>
       \A p \in Pixel : screen[p] = IF Reached(drawing, p) THEN drawing.color ELSE before[p]
  /\ drawing.at = "data" /\ drawing.x < drawing.length => fb_wr_addr = RowStart(drawing, drawing.y) + drawing.x

VInv == Shapes /\ Locked /\ Sending /\ Uniform /\ Apart /\ Painted

-----------------------------------------------------------------------------
(* Whole frames *)

\* Four pixels go to the word at the address, the others stay.
LEMMA FourPixels ==
  ASSUME NEW c, NEW k \in Nat, NEW n \in Nat, k < n, FB_SIZE = 4 * n, NEW f, NEW s, \A q \in Pixel : f[q] = c
  PROVE  LET fb == FbData4([screen |-> s, fb_wr_addr |-> 4 * k], [b \in 0 .. 3 |-> f[4 * k + b]])
         IN /\ fb.screen = [q \in Pixel |-> IF q \div 4 = k THEN c ELSE s[q]]
            /\ k + 1 < n => fb.fb_wr_addr = 4 * (k + 1)
            /\ fb.fb_wr_addr \in Nat
<1>1. (4 * k) \div 4 = k OBVIOUS
<1>2. \A q \in Pixel : q \div 4 = k => q % 4 \in 0 .. 3 /\ 4 * k + (q % 4) = q
  BY ScreenSize DEF Pixel
<1>3. \A q \in Pixel : q \div 4 = k => [b \in 0 .. 3 |-> f[4 * k + b]][q % 4] = c
  BY <1>2
<1>4. k + 1 < n => 4 * k < FB_SIZE - 4 OBVIOUS
<1> QED BY <1>1, <1>3, <1>4 DEF FbData4

LEMMA VgaStart == VgaInit => VInv
<1> SUFFICES ASSUME VgaInit PROVE VInv OBVIOUS
<1> USE VgaAssumption, ScreenSize
<1>1. PICK c \in User : screen = [p \in Pixel |-> c] BY DEF VgaInit, User
<1>2. Shapes BY <1>1 DEF VgaInit, Shapes, Blank, Pixel, User, Places
<1>3. Locked BY DEF VgaInit, Locked, Inside
<1>4. Sending BY DEF VgaInit, Sending
<1>5. Uniform BY <1>1 DEF Uniform
<1>6. Apart BY DEF VgaInit, Apart, Nothing
<1>7. Painted
  <2>1. Nothing \in [at : {"nothing", "address", "data", "done"}, r : Rectangle, color : User,
                     length : Nat, end : Nat, y : Nat, x : Nat]
    BY DEF Nothing, Rectangle, User
  <2> QED BY <2>1 DEF VgaInit, Painted, Looping, Nothing
<1> QED BY <1>2, <1>3, <1>4, <1>5, <1>6, <1>7 DEF VInv

\* A step of a process, while nothing has been drawn.
LEMMA WriterStep ==
  ASSUME VInv, NEW p \in Writers, WriteFrame(p)
  PROVE  VInv'
<1> USE VgaAssumption
<1>1. drawing.at = "nothing"
  BY DEF VInv, Apart, WriteFrame, EnterWrite, Lock, Interrupted, Copy, CopyFaults, FrameAddress, FrameData, Unlock, WriterAt
<1>2. UNCHANGED drawing_vars
  BY DEF WriteFrame, EnterWrite, Lock, Interrupted, Copy, CopyFaults, FrameAddress, FrameData, Unlock
<1>3. Painted' /\ Apart'
  BY <1>1, <1>2 DEF VInv, Painted, Apart, drawing_vars
<1>4. writing \in [Writers -> Places] /\ frame_lock \in User /\ i \in Nat /\ fb_wr_addr \in Nat
  BY DEF VInv, Shapes
<1>5. CASE EnterWrite(p) \/ Lock(p) \/ Interrupted(p)
  <2>1. UNCHANGED <<screen, fb_wr_addr, frame, i>> BY <1>5 DEF EnterWrite, Lock, Interrupted
  <2>2. /\ writing' \in [Writers -> Places] /\ frame_lock' \in User
        /\ \A q \in Writers : q # p => writing'[q] = writing[q]
        /\ writing'[p] \in {"user", "lock", "copy"} /\ writing[p] \in {"user", "lock"}
    BY <1>4, <1>5 DEF EnterWrite, Lock, Interrupted, WriterAt, Moves, Places, User
  <2>3. Shapes' BY <2>1, <2>2 DEF VInv, Shapes
  <2>4. Locked'
    <3>1. CASE Lock(p)
      BY <3>1, <2>2, <1>4 DEF VInv, Locked, Inside, Lock, Moves, WriterAt, LockIsFree
    <3>2. CASE EnterWrite(p) \/ Interrupted(p)
      BY <3>2, <2>2, <1>4 DEF VInv, Locked, Inside, EnterWrite, Interrupted, Moves, WriterAt, Places
    <3> QED BY <1>5, <3>1, <3>2
  <2>5. Sending' BY <2>1, <2>2 DEF VInv, Sending, Pixel, FB_SIZE
  <2>6. Uniform' BY <2>1, <2>2, <1>2 DEF VInv, Uniform, drawing_vars
  <2> QED BY <1>3, <2>3, <2>4, <2>5, <2>6 DEF VInv
<1>6. Inside(p) => frame_lock = p /\ \A q \in Writers : q # p => writing[q] \in {"user", "lock"}
  BY <1>4 DEF VInv, Locked, Inside, Places
<1>7. CASE Copy(p) \/ CopyFaults(p)
  <2>1. writing[p] = "copy" /\ UNCHANGED <<screen, fb_wr_addr, i>> BY <1>7 DEF Copy, CopyFaults, WriterAt
  <2>2. /\ writing' \in [Writers -> Places] /\ frame_lock' \in User
        /\ \A q \in Writers : q # p => writing'[q] = writing[q]
    BY <1>4, <1>7 DEF Copy, CopyFaults, Moves, Places, User
  <2>3. \/ writing'[p] = "address" /\ frame_lock' = p /\ frame' = [q \in Pixel |-> p]
        \/ writing'[p] = "user" /\ frame_lock' = NOBODY
    BY <1>4, <1>6, <1>7, <2>1 DEF Copy, CopyFaults, Moves, Inside
  <2>4. Shapes'
    <3>1. frame' = [q \in Pixel |-> frame'[q]] BY <1>7 DEF Copy, CopyFaults
    <3> QED BY <3>1, <2>1, <2>2 DEF VInv, Shapes, Pixel, FB_SIZE
  <2>5. Locked' BY <1>6, <2>1, <2>2, <2>3 DEF Locked, Inside
  <2>6. Sending' BY <1>6, <2>1, <2>2, <2>3 DEF Sending, Inside, Pixel, FB_SIZE
  <2>7. Uniform' BY <1>2, <1>6, <2>1 DEF VInv, Uniform, drawing_vars, Inside
  <2> QED BY <1>3, <2>4, <2>5, <2>6, <2>7 DEF VInv
<1>8. CASE FrameAddress(p)
  <2>1. /\ writing[p] = "address" /\ UNCHANGED <<screen, frame, frame_lock>> /\ fb_wr_addr' = 0 /\ i' = 0
        /\ writing' = [writing EXCEPT ![p] = "data"]
    BY <1>8 DEF FrameAddress, WriterAt, FromTheStart, FbAddr, Fb, Becomes, Moves
  <2>2. Shapes' BY <1>4, <2>1 DEF VInv, Shapes, Places, Pixel, FB_SIZE
  <2>3. Locked' BY <1>4, <2>1 DEF VInv, Locked, Inside
  <2>4. Sending'
    <3>1. \A q \in Pixel : frame'[q] = p BY <2>1 DEF VInv, Sending
    <3>2. \A q \in Writers : q # p => writing'[q] \in {"user", "lock"} BY <1>4, <1>6, <2>1 DEF Inside
    <3> QED BY <3>1, <3>2, <2>1, ScreenSize DEF Sending, Pixel
  <2>5. Uniform' BY <1>4, <2>1 DEF Uniform
  <2> QED BY <1>3, <2>2, <2>3, <2>4, <2>5 DEF VInv
<1>9. CASE FrameData(p)
  <2>1. /\ writing[p] = "data" /\ UNCHANGED <<frame, frame_lock, writing>> /\ i' = i + 1 /\ i < FB_SIZE \div 4
        /\ Becomes(FbData4(Fb, [b \in 0 .. 3 |-> frame[4 * i + b]]))
    BY <1>9 DEF FrameData, WriterAt
  <2>2. (\A q \in Pixel : frame[q] = p) /\ fb_wr_addr = 4 * i /\ \A q \in Pixel : q < 4 * i => screen[q] = p
    BY <2>1 DEF VInv, Sending
  <2>3. /\ screen' = [q \in Pixel |-> IF q \div 4 = i THEN p ELSE screen[q]]
        /\ i + 1 < FB_SIZE \div 4 => fb_wr_addr' = 4 * (i + 1)
        /\ fb_wr_addr' \in Nat
    BY <1>4, <2>1, <2>2, FourPixels, ScreenSize DEF Becomes, Fb
  <2>4. Shapes'
    <3>1. screen' = [q \in Pixel |-> screen'[q]] BY <2>3
    <3>2. frame' = [q \in Pixel |-> frame'[q]] BY <2>1 DEF VInv, Shapes
    <3>3. fb_wr_addr' \in Nat /\ i' \in Nat BY <1>4, <2>1, <2>3
    <3> QED BY <1>4, <2>1, <3>1, <3>2, <3>3 DEF Shapes, Pixel, FB_SIZE
  <2>5. Locked' BY <2>1 DEF VInv, Locked, Inside
  <2>6. Sending'
    <3>1. \A q \in Pixel : q < 4 * (i + 1) => screen'[q] = p
      <4>1. \A q \in Pixel : q < 4 * (i + 1) /\ ~(q < 4 * i) => q \div 4 = i BY <1>4, ScreenSize DEF Pixel
      <4> QED BY <4>1, <2>2, <2>3
    <3>2. \A q \in Writers : q # p => writing'[q] \in {"user", "lock"} BY <1>4, <1>6, <2>1 DEF Inside
    <3>3. i + 1 <= FB_SIZE \div 4 BY <1>4, <2>1, ScreenSize
    <3> QED BY <2>1, <2>2, <2>3, <3>1, <3>2, <3>3 DEF Sending, Pixel, FB_SIZE
  <2>7. Uniform' BY <2>1 DEF Uniform
  <2> QED BY <1>3, <2>4, <2>5, <2>6, <2>7 DEF VInv
<1>10. CASE Unlock(p)
  <2>1. /\ writing[p] = "data" /\ i = FB_SIZE \div 4 /\ UNCHANGED <<screen, fb_wr_addr, frame>> /\ i' = 0
        /\ frame_lock' = NOBODY /\ writing' = [writing EXCEPT ![p] = "user"]
    BY <1>10 DEF Unlock, WriterAt, Moves
  <2>2. Shapes' BY <1>4, <2>1 DEF VInv, Shapes, Places, Pixel, FB_SIZE, User
  <2>3. \A q \in Writers : writing'[q] \in {"user", "lock"} BY <1>4, <1>6, <2>1 DEF Inside
  <2>4. Locked' BY <2>1, <2>3 DEF Locked, Inside
  <2>5. Sending' BY <2>3 DEF Sending
  <2>6. Uniform'
    <3>1. \A q \in Pixel : q < 4 * i BY <2>1, ScreenSize DEF Pixel
    <3>2. \A q \in Pixel : screen[q] = p BY <2>1, <3>1 DEF VInv, Sending
    <3> QED BY <3>2, <2>1 DEF Uniform, Pixel, FB_SIZE
  <2> QED BY <1>3, <2>2, <2>4, <2>5, <2>6 DEF VInv
<1> QED BY <1>5, <1>7, <1>8, <1>9, <1>10 DEF WriteFrame

-----------------------------------------------------------------------------
(* Rectangles *)

\* A row that is drawn lies on the screen.
LEMMA RowIsOnScreen ==
  ASSUME NEW d, Looping(d), d.at # "nothing", d.y < d.end
  PROVE  RowStart(d, d.y) \in Nat /\ RowStart(d, d.y) + d.length <= FB_SIZE
<1> USE VgaAssumption
<1>1. d.r \in Rectangle /\ d.y \in Nat /\ d.length \in Nat /\ d.r.x0 \in 0 .. VGA_WIDTH /\ d.r.y0 \in 0 .. VGA_HEIGHT
      /\ d.r.h \in Nat /\ d.r.w \in Nat
  BY DEF Looping, Rectangle
<1>2. PICK s \in Nat : s = d.y * VGA_WIDTH BY <1>1
<1>3. CASE d.length = Least(d.r.w, VGA_WIDTH - d.r.x0) /\ d.end = Least(d.r.y0 + d.r.h, VGA_HEIGHT)
  <2>1. d.length <= VGA_WIDTH - d.r.x0 BY <1>1, <1>3 DEF Least
  <2>2. d.y < VGA_HEIGHT BY <1>1, <1>3 DEF Least
  <2>3. s + VGA_WIDTH <= FB_SIZE BY <2>2, <1>1, <1>2, RowsFollow DEF FB_SIZE
  <2> QED BY <1>1, <1>2, <2>1, <2>3, ScreenSize DEF RowStart
<1>4. CASE d.r = Whole /\ d.length = FB_SIZE /\ d.end = 1
  <2>1. d.y = 0 /\ d.r.x0 = 0 BY <1>1, <1>4 DEF Whole
  <2> QED BY <2>1, <1>4, ScreenSize DEF RowStart
<1> QED BY <1>3, <1>4 DEF Looping, Bounded

\* The routines begin within these bounds, and have painted nothing.
LEMMA RoutineBegins ==
  ASSUME NEW c \in User, NEW d,
         \/ \E r \in Rectangle : d = vga_fill_rect(r, c)
         \/ \E xx \in 0 .. VGA_WIDTH - 1, yy \in 0 .. VGA_HEIGHT - 1 : d = vga_set_pixel(xx, yy, c)
         \/ d = vga_fill(c)
  PROVE  Looping(d) /\ d.at = "address" /\ \A p \in Pixel : ~Reached(d, p)
<1> USE VgaAssumption, ScreenSize
<1>1. ASSUME NEW r \in Rectangle, NEW k \in Nat, NEW e \in Nat, d = Routine(r, c, k, e), r.y0 <= e,
             \/ k = Least(r.w, VGA_WIDTH - r.x0) /\ e = Least(r.y0 + r.h, VGA_HEIGHT)
             \/ r = Whole /\ k = FB_SIZE /\ e = 1
      PROVE  Looping(d) /\ d.at = "address" /\ \A p \in Pixel : ~Reached(d, p)
  <2>1. d = [at |-> "address", r |-> r, color |-> c, length |-> k, end |-> e, y |-> r.y0, x |-> 0]
    BY <1>1 DEF Routine
  <2>2. r.y0 \in Nat BY DEF Rectangle
  <2>3. Looping(d) BY <1>1, <2>1, <2>2 DEF Looping, Bounded
  <2>4. \A p \in Pixel : ~Reached(d, p) BY <2>1, <2>2 DEF Reached
  <2> QED BY <2>1, <2>3, <2>4
<1>2. ASSUME NEW r \in Rectangle, d = vga_fill_rect(r, c)
      PROVE  Looping(d) /\ d.at = "address" /\ \A p \in Pixel : ~Reached(d, p)
  <2>1. r.x0 \in 0 .. VGA_WIDTH /\ r.y0 \in 0 .. VGA_HEIGHT /\ r.w \in Nat /\ r.h \in Nat BY DEF Rectangle
  <2>2. RowLength(r) = Least(r.w, VGA_WIDTH - r.x0) /\ RowLength(r) \in Nat /\ Least(r.y0 + r.h, VGA_HEIGHT) \in Nat
        /\ r.y0 <= Least(r.y0 + r.h, VGA_HEIGHT)
    BY <2>1 DEF RowLength, Least
  <2> QED BY <1>1, <1>2, <2>2 DEF vga_fill_rect
<1>3. ASSUME NEW xx \in 0 .. VGA_WIDTH - 1, NEW yy \in 0 .. VGA_HEIGHT - 1, d = vga_set_pixel(xx, yy, c)
      PROVE  Looping(d) /\ d.at = "address" /\ \A p \in Pixel : ~Reached(d, p)
  <2>1. PICK r \in Rectangle : r = [x0 |-> xx, y0 |-> yy, w |-> 1, h |-> 1]
    <3>1. xx \in 0 .. VGA_WIDTH /\ yy \in 0 .. VGA_HEIGHT /\ 1 \in 0 .. VGA_WIDTH + 1 /\ 1 \in 0 .. VGA_HEIGHT + 1
      OBVIOUS
    <3>2. [x0 |-> xx, y0 |-> yy, w |-> 1, h |-> 1] \in Rectangle BY <3>1 DEF Rectangle
    <3> QED BY <3>2
  <2>2. Least(r.w, VGA_WIDTH - r.x0) = 1 /\ Least(r.y0 + r.h, VGA_HEIGHT) = yy + 1 /\ r.y0 = yy BY <2>1 DEF Least
  <2>3. d = Routine(r, c, 1, yy + 1) BY <1>3, <2>1 DEF vga_set_pixel
  <2> QED BY <1>1, <2>2, <2>3
<1>4. ASSUME d = vga_fill(c)
      PROVE  Looping(d) /\ d.at = "address" /\ \A p \in Pixel : ~Reached(d, p)
  <2>1. Whole \in Rectangle /\ Whole.y0 = 0 BY DEF Whole, Rectangle
  <2> QED BY <1>1, <1>4, <2>1 DEF vga_fill
<1> QED BY <1>2, <1>3, <1>4

\* A drawing routine begins: nothing of it is on the screen yet.
LEMMA DrawStep ==
  ASSUME VInv, NEW c \in Writers, Draw(c)
  PROVE  VInv'
<1>1. PICK d : /\ Draws(d)
               /\ \/ \E r \in Rectangle : d = vga_fill_rect(r, c)
                  \/ \E xx \in 0 .. VGA_WIDTH - 1, yy \in 0 .. VGA_HEIGHT - 1 : d = vga_set_pixel(xx, yy, c)
                  \/ d = vga_fill(c)
  BY DEF Draw
<1>2. Looping(d) /\ d.at = "address" /\ \A p \in Pixel : ~Reached(d, p) BY <1>1, RoutineBegins DEF User
<1>3. /\ UNCHANGED <<screen, fb_wr_addr, frame, frame_lock, writing, i>> /\ drawing' = d /\ before' = screen
      /\ \A p \in Writers : writing[p] = "user"
  BY <1>1 DEF Draws, driver_vars, WriterAt
<1>4. Shapes' BY <1>3 DEF VInv, Shapes, Pixel, FB_SIZE
<1>5. Locked' /\ Sending' BY <1>3 DEF VInv, Locked, Sending, Inside
<1>6. Uniform' /\ Apart' BY <1>2, <1>3 DEF Uniform, Apart
<1>7. Painted' BY <1>2, <1>3 DEF Painted, Pixel, FB_SIZE
<1> QED BY <1>4, <1>5, <1>6, <1>7 DEF VInv

\* What a row or a pixel adds to what has been reached.
LEMMA ReachedNext ==
  ASSUME NEW d, Looping(d), d.at # "nothing", NEW e, NEW p \in Pixel
  PROVE  /\ d.at = "address" /\ e = [d EXCEPT !.at = "data", !.x = 0] => (Reached(e, p) <=> Reached(d, p))
         /\ d.at = "data" /\ e = [d EXCEPT !.x = d.x + 1] =>
              (Reached(e, p) <=> Reached(d, p) \/ p = RowStart(d, d.y) + d.x)
         /\ d.at = "data" /\ d.x = d.length /\ e = [d EXCEPT !.at = "address", !.y = d.y + 1] =>
              (Reached(e, p) <=> Reached(d, p))
         /\ d.at = "address" /\ e = [d EXCEPT !.at = "done"] => (Reached(e, p) <=> Reached(d, p))
<1>1. d \in [at : {"nothing", "address", "data", "done"}, r : Rectangle, color : User,
             length : Nat, end : Nat, y : Nat, x : Nat] /\ d.r.y0 \in Nat /\ d.r.y0 <= d.y /\ d.r.x0 \in Nat
  BY VgaAssumption DEF Looping, Rectangle
<1>2. p \in Nat BY ScreenSize DEF Pixel
<1>3. \A n \in Nat : RowStart(d, n) \in Nat BY <1>1, VgaAssumption DEF RowStart
<1>4. ASSUME e.r = d.r
      PROVE  \A n, k : InRow(e, n, k, p) <=> InRow(d, n, k, p)
  BY <1>4 DEF InRow, RowStart
<1>5. ASSUME d.at = "address", e = [d EXCEPT !.at = "data", !.x = 0] PROVE Reached(e, p) <=> Reached(d, p)
  <2>1. e.r = d.r /\ e.at = "data" /\ e.x = 0 /\ e.y = d.y /\ e.length = d.length BY <1>1, <1>5
  <2>2. ~InRow(d, d.y, 0, p) BY <1>1, <1>2, <1>3 DEF InRow
  <2> QED BY <1>4, <1>5, <2>1, <2>2 DEF Reached
<1>6. ASSUME d.at = "data", e = [d EXCEPT !.x = d.x + 1]
      PROVE  Reached(e, p) <=> Reached(d, p) \/ p = RowStart(d, d.y) + d.x
  <2>1. e.r = d.r /\ e.at = "data" /\ e.x = d.x + 1 /\ e.y = d.y /\ e.length = d.length BY <1>1, <1>6
  <2>2. InRow(d, d.y, d.x + 1, p) <=> InRow(d, d.y, d.x, p) \/ p = RowStart(d, d.y) + d.x
    BY <1>1, <1>2, <1>3 DEF InRow
  <2> QED BY <1>4, <1>6, <2>1, <2>2 DEF Reached
<1>7. ASSUME d.at = "data", d.x = d.length, e = [d EXCEPT !.at = "address", !.y = d.y + 1]
      PROVE  Reached(e, p) <=> Reached(d, p)
  <2>1. e.r = d.r /\ e.at = "address" /\ e.y = d.y + 1 /\ e.length = d.length BY <1>1, <1>7
  <2>2. \A n : n \in d.r.y0 .. (d.y + 1) - 1 <=> n \in d.r.y0 .. d.y - 1 \/ n = d.y BY <1>1
  <2> QED BY <1>4, <1>7, <2>1, <2>2 DEF Reached
<1>8. ASSUME d.at = "address", e = [d EXCEPT !.at = "done"] PROVE Reached(e, p) <=> Reached(d, p)
  <2>1. e.r = d.r /\ e.at = "done" /\ e.y = d.y /\ e.length = d.length BY <1>1, <1>8
  <2> QED BY <1>4, <1>8, <2>1 DEF Reached
<1> QED BY <1>5, <1>6, <1>7, <1>8

\* An access of a drawing routine, or the end of a row.
LEMMA RoutineStep ==
  ASSUME VInv, RowAddress \/ PixelData \/ RowEnds \/ Returns
  PROVE  VInv'
<1>1. drawing.at \in {"address", "data"} /\ UNCHANGED <<before, frame, frame_lock, writing, i>>
  BY DEF RowAddress, PixelData, RowEnds, Returns, driver_vars
<1>2. Looping(drawing) /\ \A p \in Pixel : screen[p] = IF Reached(drawing, p) THEN drawing.color ELSE before[p]
  BY <1>1 DEF VInv, Painted
<1>3. \A p \in Writers : writing[p] = "user" BY <1>1 DEF VInv, Apart
<1>4. Locked' /\ Sending' BY <1>1, <1>3 DEF VInv, Locked, Sending, Inside
<1>5. drawing \in [at : {"nothing", "address", "data", "done"}, r : Rectangle, color : User,
                   length : Nat, end : Nat, y : Nat, x : Nat]
  BY <1>2 DEF Looping
<1>6. drawing.at' # "nothing" => Uniform' /\ Apart' BY <1>1, <1>3 DEF Uniform, Apart
<1>7. PICK d : d = drawing OBVIOUS
<1>8. CASE RowAddress
  <2>1. /\ d.at = "address" /\ d.y < d.end /\ screen' = screen /\ fb_wr_addr' = d.y * VGA_WIDTH + d.r.x0
        /\ drawing' = [d EXCEPT !.at = "data", !.x = 0]
    BY <1>7, <1>8 DEF RowAddress, Becomes, FbAddr, Fb
  <2>2. fb_wr_addr' = RowStart(d, d.y) /\ RowStart(d, d.y) \in Nat BY <1>2, <1>7, <2>1, RowIsOnScreen DEF RowStart
  <2>3. Looping(drawing')
    <3>1. PICK e : e = [d EXCEPT !.at = "data", !.x = 0] OBVIOUS
    <3>2. /\ e \in [at : {"nothing", "address", "data", "done"}, r : Rectangle, color : User,
                     length : Nat, end : Nat, y : Nat, x : Nat]
          /\ e.r = d.r /\ e.at = "data" /\ e.x = 0 /\ e.y = d.y /\ e.length = d.length /\ e.end = d.end
      BY <1>5, <1>7, <3>1
    <3>3. Bounded(d) /\ d.r.y0 <= d.y /\ d.y < d.end /\ d.length \in Nat
      BY <1>2, <1>5, <1>7, <2>1 DEF Looping
    <3>4. Looping(e) BY <3>2, <3>3 DEF Looping, Bounded
    <3> QED BY <2>1, <3>1, <3>4
  <2>4. \A p \in Pixel : Reached(drawing', p) <=> Reached(d, p) BY <1>2, <1>7, <2>1, ReachedNext
  <2>5. drawing'.color = d.color /\ drawing'.x = 0 /\ drawing'.at = "data" /\ RowStart(drawing', drawing'.y) = RowStart(d, d.y)
    BY <1>5, <1>7, <2>1 DEF RowStart
  <2>6. Painted'
    <3>1. \A p \in Pixel : screen'[p] = IF Reached(drawing', p) THEN drawing'.color ELSE before'[p]
      BY <1>1, <1>2, <1>7, <2>1, <2>4, <2>5
    <3> QED BY <2>2, <2>3, <2>5, <3>1 DEF Painted, Pixel, FB_SIZE
  <2>7. Shapes' BY <1>1, <2>1, <2>2 DEF VInv, Shapes, Pixel, FB_SIZE
  <2> QED BY <1>4, <1>6, <2>5, <2>6, <2>7 DEF VInv
<1>9. CASE PixelData
  <2>1. d.at = "data" /\ d.x < d.length /\ Becomes(FbData(Fb, d.color)) /\ drawing' = [d EXCEPT !.x = d.x + 1]
    BY <1>7, <1>9 DEF PixelData
  <2>2. PICK s \in Nat : s = RowStart(d, d.y) BY <1>2, <1>7, <2>1, RowIsOnScreen DEF Looping
  <2>3. s + d.length <= FB_SIZE /\ fb_wr_addr = s + d.x
    BY <1>2, <1>7, <2>1, <2>2, RowIsOnScreen DEF Looping, VInv, Painted
  <2>4. d.x \in Nat /\ d.length \in Nat BY <1>5, <1>7
  <2>5. /\ screen' = [screen EXCEPT ![s + d.x] = d.color]
        /\ fb_wr_addr' = IF s + d.x < FB_SIZE - 1 THEN s + d.x + 1 ELSE 0
    BY <2>1, <2>3 DEF Becomes, FbData, Fb
  <2>6. Looping(drawing') BY <1>2, <1>5, <1>7, <2>1 DEF Looping, Bounded
  <2>7. \A p \in Pixel : Reached(drawing', p) <=> Reached(d, p) \/ p = s + d.x
    BY <1>2, <1>7, <2>1, <2>2, ReachedNext
  <2>8. drawing'.color = d.color /\ drawing'.x = d.x + 1 /\ drawing'.at = "data"
        /\ RowStart(drawing', drawing'.y) = s /\ drawing'.length = d.length
    BY <1>5, <1>7, <2>1, <2>2 DEF RowStart
  <2>9. Painted'
    <3>1. \A p \in Pixel : screen'[p] = IF p = s + d.x THEN d.color ELSE screen[p]
      BY <2>5 DEF VInv, Shapes
    <3>2. \A p \in Pixel : screen'[p] = IF Reached(drawing', p) THEN drawing'.color ELSE before'[p]
      BY <1>1, <1>2, <1>7, <2>7, <2>8, <3>1
    <3>3. drawing'.x < drawing'.length => fb_wr_addr' = RowStart(drawing', drawing'.y) + drawing'.x
      BY <2>3, <2>4, <2>5, <2>8, ScreenSize
    <3> QED BY <2>6, <3>2, <3>3 DEF Painted, Pixel, FB_SIZE
  <2>10. Shapes'
    <3>1. fb_wr_addr' \in Nat BY <2>4, <2>5
    <3>2. screen' = [q \in Pixel |-> screen'[q]] BY <2>5 DEF VInv, Shapes
    <3> QED BY <1>1, <3>1, <3>2 DEF VInv, Shapes, Pixel, FB_SIZE
  <2> QED BY <1>4, <1>6, <2>8, <2>9, <2>10 DEF VInv
<1>10. CASE RowEnds
  <2>1. /\ d.at = "data" /\ d.x = d.length /\ UNCHANGED <<screen, fb_wr_addr>>
        /\ drawing' = [d EXCEPT !.at = "address", !.y = d.y + 1]
    BY <1>7, <1>10 DEF RowEnds
  <2>2. Looping(drawing') 
    <3>1. d.y \in Nat /\ d.end \in Nat /\ d.r.y0 \in Nat BY <1>5, <1>7, VgaAssumption DEF Rectangle
    <3>2. PICK e : e = [d EXCEPT !.at = "address", !.y = d.y + 1] OBVIOUS
    <3>3. /\ e \in [at : {"nothing", "address", "data", "done"}, r : Rectangle, color : User,
                     length : Nat, end : Nat, y : Nat, x : Nat]
          /\ e.r = d.r /\ e.at = "address" /\ e.y = d.y + 1 /\ e.length = d.length /\ e.end = d.end
      <4>1. d.y + 1 \in Nat BY <3>1
      <4>2. d \in [at : {"nothing", "address", "data", "done"}, r : Rectangle, color : User,
                   length : Nat, end : Nat, y : Nat, x : Nat] BY <1>5, <1>7
      <4> QED BY ONLY <3>2, <4>1, <4>2
    <3>4. Bounded(d) /\ d.r.y0 <= d.y /\ d.y < d.end BY <1>2, <1>7, <2>1 DEF Looping
    <3>5. Looping(e) BY <3>1, <3>3, <3>4 DEF Looping, Bounded
    <3> QED BY <2>1, <3>2, <3>5
  <2>3. \A p \in Pixel : Reached(drawing', p) <=> Reached(d, p) BY <1>2, <1>7, <2>1, ReachedNext
  <2>4. drawing'.color = d.color /\ drawing'.at = "address" BY <1>5, <1>7, <2>1
  <2>5. \A p \in Pixel : screen'[p] = IF Reached(drawing', p) THEN drawing'.color ELSE before'[p]
    BY <1>1, <1>2, <1>7, <2>1, <2>3, <2>4
  <2>6. Painted' BY <2>2, <2>4, <2>5 DEF Painted, Pixel, FB_SIZE
  <2>7. Shapes' BY <1>1, <2>1 DEF VInv, Shapes, Pixel, FB_SIZE
  <2> QED BY <1>4, <1>6, <2>4, <2>6, <2>7 DEF VInv
<1>11. CASE Returns
  <2>1. /\ d.at = "address" /\ d.y = d.end /\ UNCHANGED <<screen, fb_wr_addr>>
        /\ drawing' = [d EXCEPT !.at = "done"]
    BY <1>7, <1>11 DEF Returns
  <2>2. Looping(drawing') BY <1>2, <1>5, <1>7, <2>1 DEF Looping, Bounded
  <2>3. \A p \in Pixel : Reached(drawing', p) <=> Reached(d, p) BY <1>2, <1>7, <2>1, ReachedNext
  <2>4. drawing'.color = d.color /\ drawing'.at = "done" BY <1>5, <1>7, <2>1
  <2>5. \A p \in Pixel : screen'[p] = IF Reached(drawing', p) THEN drawing'.color ELSE before'[p]
    BY <1>1, <1>2, <1>7, <2>1, <2>3, <2>4
  <2>6. Painted' BY <2>2, <2>4, <2>5 DEF Painted, Pixel, FB_SIZE
  <2>7. Shapes' BY <1>1, <2>1 DEF VInv, Shapes, Pixel, FB_SIZE
  <2> QED BY <1>4, <1>6, <2>4, <2>6, <2>7 DEF VInv
<1> QED BY <1>8, <1>9, <1>10, <1>11

LEMMA VgaStep == VInv /\ [VgaNext]_vga_vars => VInv'
<1> SUFFICES ASSUME VInv, [VgaNext]_vga_vars PROVE VInv' OBVIOUS
<1>1. CASE UNCHANGED vga_vars
  BY <1>1 DEF vga_vars, driver_vars, drawing_vars, VInv, Shapes, Locked, Sending, Uniform, Apart, Painted, Inside,
              Pixel, FB_SIZE
<1> QED BY <1>1, WriterStep, DrawStep, RoutineStep DEF VgaNext

\* At the end the rows that were drawn are the part of the rectangle on the screen.
LEMMA RowsAreTheRectangle ==
  ASSUME NEW d, Looping(d), d.at = "done", NEW p \in Pixel
  PROVE  Reached(d, p) <=> /\ p % VGA_WIDTH \in d.r.x0 .. d.r.x0 + d.r.w - 1
                           /\ p \div VGA_WIDTH \in d.r.y0 .. d.r.y0 + d.r.h - 1
<1> USE VgaAssumption
<1>1. d.r \in Rectangle /\ d.y \in Nat /\ d.length \in Nat /\ d.r.x0 \in 0 .. VGA_WIDTH /\ d.r.y0 \in 0 .. VGA_HEIGHT
      /\ d.r.h \in Nat /\ d.r.w \in Nat /\ d.y = d.end
  BY DEF Looping, Rectangle
<1>2. p \in Nat /\ p < FB_SIZE BY ScreenSize DEF Pixel
<1>3. PICK row \in Nat, column \in 0 .. VGA_WIDTH - 1 :
        row = p \div VGA_WIDTH /\ column = p % VGA_WIDTH /\ p = row * VGA_WIDTH + column
  <2>1. /\ p \div VGA_WIDTH \in Nat /\ p % VGA_WIDTH \in 0 .. VGA_WIDTH - 1
        /\ p = (p \div VGA_WIDTH) * VGA_WIDTH + (p % VGA_WIDTH)
    BY <1>2, RowAndColumn
  <2> QED BY <2>1
<1>4. row < VGA_HEIGHT
  <2>1. CASE VGA_HEIGHT <= row
    <3>1. PICK k \in Nat : row = VGA_HEIGHT + k BY <2>1, <1>3
    <3>2. row * VGA_WIDTH = VGA_HEIGHT * VGA_WIDTH + k * VGA_WIDTH /\ k * VGA_WIDTH \in Nat BY <3>1
    <3>3. VGA_HEIGHT * VGA_WIDTH = FB_SIZE BY DEF FB_SIZE
    <3>4. PICK t \in Nat : row * VGA_WIDTH = FB_SIZE + t BY <3>2, <3>3
    <3> QED BY <1>2, <1>3, <3>4, ScreenSize
  <2> QED BY <2>1
<1>5. CASE d.length = Least(d.r.w, VGA_WIDTH - d.r.x0) /\ d.end = Least(d.r.y0 + d.r.h, VGA_HEIGHT)
  <2>1. \A n \in Nat : InRow(d, n, d.length, p) => n = row /\ column \in d.r.x0 .. d.r.x0 + d.r.w - 1
    <3> SUFFICES ASSUME NEW n \in Nat, InRow(d, n, d.length, p)
                 PROVE  n = row /\ column \in d.r.x0 .. d.r.x0 + d.r.w - 1
      OBVIOUS
    <3>1. PICK s \in Nat : s = n * VGA_WIDTH OBVIOUS
    <3>2. s + d.r.x0 <= p /\ p < s + d.r.x0 + d.length BY <3>1 DEF InRow, RowStart
    <3>3. PICK x \in 0 .. VGA_WIDTH - 1 : p = s + x /\ x \in d.r.x0 .. d.r.x0 + d.r.w - 1
      BY <1>1, <1>2, <1>5, <3>2 DEF Least
    <3>4. row * VGA_WIDTH + column = n * VGA_WIDTH + x BY <1>3, <3>1, <3>3
    <3>5. row = n /\ column = x BY <3>4, OnePlace
    <3> QED BY <3>3, <3>5
  <2>2. column \in d.r.x0 .. d.r.x0 + d.r.w - 1 => InRow(d, row, d.length, p)
    <3>1. PICK s \in Nat : s = row * VGA_WIDTH OBVIOUS
    <3> QED BY <1>1, <1>3, <1>5, <3>1 DEF InRow, RowStart, Least
  <2>3. \A n : n \in d.r.y0 .. d.y - 1 => n \in Nat BY <1>1
  <2>4. row \in d.r.y0 .. d.y - 1 <=> row \in d.r.y0 .. d.r.y0 + d.r.h - 1 BY <1>1, <1>3, <1>4, <1>5 DEF Least
  <2> QED BY <1>3, <2>1, <2>2, <2>3, <2>4 DEF Reached
<1>6. CASE d.r = Whole /\ d.length = FB_SIZE /\ d.end = 1
  <2>1. d.r.x0 = 0 /\ d.r.y0 = 0 /\ d.r.w = VGA_WIDTH /\ d.r.h = VGA_HEIGHT BY <1>6 DEF Whole
  <2>2. InRow(d, 0, d.length, p) /\ 0 \in d.r.y0 .. d.y - 1
    BY <1>1, <1>2, <1>6, <2>1 DEF InRow, RowStart
  <2> QED BY <1>3, <1>4, <2>1, <2>2 DEF Reached
<1> QED BY <1>5, <1>6 DEF Looping, Bounded

\* Whatever processes write and wherever they are interrupted, and whatever
\* rectangles a bare metal program draws over one another, each pixel is where it
\* belongs, on a screen of any size.
THEOREM PixelsStayInPlace == VgaSpec => []PixelsAreInPlace
<1>1. VInv => PixelsAreInPlace
  <2> SUFFICES ASSUME VInv PROVE PixelsAreInPlace OBVIOUS
  <2>1. ScreenIsOneFrame
    <3>1. ASSUME frame_lock = NOBODY, NEW p \in Writers, writing[p] = "data" PROVE FALSE
      BY <3>1, VgaAssumption DEF VInv, Locked, Inside
    <3> QED BY <3>1 DEF VInv, Uniform, ScreenIsOneFrame
  <2>2. RectangleIsPainted
    <3> SUFFICES ASSUME drawing.at = "done", NEW p \in Pixel
                 PROVE  screen[p] = IF /\ p % VGA_WIDTH \in drawing.r.x0 .. drawing.r.x0 + drawing.r.w - 1
                                       /\ p \div VGA_WIDTH \in drawing.r.y0 .. drawing.r.y0 + drawing.r.h - 1
                                    THEN drawing.color ELSE before[p]
      BY DEF RectangleIsPainted
    <3>1. Looping(drawing) /\ screen[p] = IF Reached(drawing, p) THEN drawing.color ELSE before[p]
      BY DEF VInv, Painted
    <3> QED BY <3>1, RowsAreTheRectangle
  <2> QED BY <2>1, <2>2 DEF PixelsAreInPlace
<1> QED BY <1>1, VgaStart, VgaStep, PTL DEF VgaSpec
=============================================================================
