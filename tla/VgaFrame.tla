------------------------------ MODULE VgaFrame ------------------------------
(***************************************************************************)
(* The frame buffer with its self-incrementing address (rtl/axil_vga.v),   *)
(* the Linux driver through which processes write whole frames             *)
(* (software/linux/drivers/vga-zcore.c) and the drawing routines of bare   *)
(* metal programs (software/libs/vga.h).  One or the other runs, and each  *)
(* step is one access to the device.                                       *)
(***************************************************************************)
EXTENDS Integers

CONSTANTS VGA_WIDTH, VGA_HEIGHT,
          Writers, NOBODY, \* processes with the device open; programs that draw
          MAXDRAWINGS      \* how often a bare metal program draws

ASSUME VgaAssumption ==
  /\ VGA_WIDTH \in Nat \ {0} /\ VGA_HEIGHT \in Nat \ {0}
  /\ (VGA_WIDTH * VGA_HEIGHT) % 4 = 0 /\ NOBODY \notin Writers /\ MAXDRAWINGS \in Nat

VARIABLES
  screen,                 \* whose pixel is where
  fb_wr_addr,
  frame,                  \* the driver's static buffer
  frame_lock,
  writing,                \* where each process is in write_frame
  i,                      \* words written so far
  drawing,                \* the drawing routine that runs, or ran last
  drawings,               \* how many have begun
  before                  \* the screen before it

driver_vars == <<frame, frame_lock, writing, i>>
drawing_vars == <<drawing, drawings, before>>
vga_vars == <<screen, fb_wr_addr, driver_vars, drawing_vars>>

FB_SIZE == VGA_WIDTH * VGA_HEIGHT
Pixel == 0 .. FB_SIZE - 1
Blank == [p \in Pixel |-> NOBODY]

-----------------------------------------------------------------------------
(* The device: an access to its registers, on [screen, fb_wr_addr] *)

FbAddr(fb, a) == [fb EXCEPT !.fb_wr_addr = a]
FbData(fb, c) ==
  [screen |-> [fb.screen EXCEPT ![fb.fb_wr_addr] = c],
   fb_wr_addr |-> IF fb.fb_wr_addr < FB_SIZE - 1 THEN fb.fb_wr_addr + 1 ELSE 0]
FbData4(fb, cs) ==
  [screen |-> [p \in Pixel |-> IF p \div 4 = fb.fb_wr_addr \div 4 THEN cs[p % 4] ELSE fb.screen[p]],
   fb_wr_addr |-> IF fb.fb_wr_addr < FB_SIZE - 4 THEN fb.fb_wr_addr + 4 ELSE 0]

Fb == [screen |-> screen, fb_wr_addr |-> fb_wr_addr]
Becomes(fb) == screen' = fb.screen /\ fb_wr_addr' = fb.fb_wr_addr

-----------------------------------------------------------------------------
(* write_frame *)

WriterAt(p, where) == writing[p] = where
Moves(p, where) == writing' = [writing EXCEPT ![p] = where]

EnterWrite(p) ==
  /\ WriterAt(p, "user") /\ drawing.at = "nothing" /\ Moves(p, "lock")
  /\ UNCHANGED <<screen, fb_wr_addr, frame, frame_lock, i, drawing_vars>>

LockAnyway == TRUE \* mutant
LockIsFree == frame_lock = NOBODY

Lock(p) ==
  /\ WriterAt(p, "lock") /\ LockIsFree
  /\ frame_lock' = p /\ Moves(p, "copy")
  /\ UNCHANGED <<screen, fb_wr_addr, frame, i, drawing_vars>>

\* -ERESTARTSYS: a signal ends the wait for the lock.
Interrupted(p) ==
  /\ WriterAt(p, "lock") /\ ~LockIsFree /\ Moves(p, "user")
  /\ UNCHANGED <<screen, fb_wr_addr, frame, frame_lock, i, drawing_vars>>

\* copy_from_user copies everything, or faults part of the way through.
Copy(p) ==
  /\ WriterAt(p, "copy")
  /\ frame' = [q \in Pixel |-> p] /\ Moves(p, "address")
  /\ UNCHANGED <<screen, fb_wr_addr, frame_lock, i, drawing_vars>>
CopyFaults(p) ==
  /\ WriterAt(p, "copy")
  /\ frame' = [q \in Pixel |-> IF q < FB_SIZE \div 2 THEN p ELSE frame[q]]
  /\ frame_lock' = NOBODY /\ Moves(p, "user")
  /\ UNCHANGED <<screen, fb_wr_addr, i, drawing_vars>>

FromTheStart == FbAddr(Fb, 0)

FrameAddress(p) ==
  /\ WriterAt(p, "address") /\ Becomes(FromTheStart) /\ i' = 0 /\ Moves(p, "data")
  /\ UNCHANGED <<frame, frame_lock, drawing_vars>>
FrameData(p) ==
  /\ WriterAt(p, "data") /\ i < FB_SIZE \div 4
  /\ Becomes(FbData4(Fb, [b \in 0 .. 3 |-> frame[4 * i + b]])) /\ i' = i + 1
  /\ UNCHANGED <<frame, frame_lock, writing, drawing_vars>>
Unlock(p) ==
  /\ WriterAt(p, "data") /\ i = FB_SIZE \div 4
  /\ frame_lock' = NOBODY /\ i' = 0 /\ Moves(p, "user")
  /\ UNCHANGED <<screen, fb_wr_addr, frame, drawing_vars>>

WriteFrame(p) ==
  EnterWrite(p) \/ Lock(p) \/ Interrupted(p) \/ Copy(p) \/ CopyFaults(p) \/ FrameAddress(p) \/ FrameData(p) \/ Unlock(p)

-----------------------------------------------------------------------------
(* Bare metal drawing: what is drawn, in which colour, in rows of which     *)
(* length up to which row, and which pixel of which row comes next *)

Rectangle == [x0 : 0 .. VGA_WIDTH, y0 : 0 .. VGA_HEIGHT, w : 0 .. VGA_WIDTH + 1, h : 0 .. VGA_HEIGHT + 1]
Nothing == [at |-> "nothing", r |-> [x0 |-> 0, y0 |-> 0, w |-> 0, h |-> 0], color |-> NOBODY,
            length |-> 0, end |-> 0, y |-> 0, x |-> 0]
Routine(rect, c, rowlength, lastrow) ==
  [at |-> "address", r |-> rect, color |-> c, length |-> rowlength, end |-> lastrow, y |-> rect.y0, x |-> 0]

\* vga_fill_rect: every row starts at an address of its own, and is cut at the
\* right edge; rows below the bottom edge are not drawn.
Least(a, b) == IF a < b THEN a ELSE b
Uncut(r) == r.w \* mutant
RowLength(r) == Least(r.w, VGA_WIDTH - r.x0)
vga_fill_rect(r, c) == Routine(r, c, RowLength(r), Least(r.y0 + r.h, VGA_HEIGHT))

vga_set_pixel(xx, yy, c) == Routine([x0 |-> xx, y0 |-> yy, w |-> 1, h |-> 1], c, 1, yy + 1)

\* The whole screen is one row.
Whole == [x0 |-> 0, y0 |-> 0, w |-> VGA_WIDTH, h |-> VGA_HEIGHT]
vga_fill(c) == Routine(Whole, c, FB_SIZE, 1)

Draws(routine) ==
  /\ drawing.at \in {"nothing", "done"} /\ frame = Blank /\ \A p \in Writers : WriterAt(p, "user")
  /\ drawings < MAXDRAWINGS /\ drawings' = drawings + 1
  /\ drawing' = routine /\ before' = screen
  /\ UNCHANGED <<screen, fb_wr_addr, driver_vars>>

RowAddress ==
  /\ drawing.at = "address" /\ drawing.y < drawing.end
  /\ Becomes(FbAddr(Fb, drawing.y * VGA_WIDTH + drawing.r.x0))
  /\ drawing' = [drawing EXCEPT !.at = "data", !.x = 0]
  /\ UNCHANGED <<drawings, before, driver_vars>>
PixelData ==
  /\ drawing.at = "data" /\ drawing.x < drawing.length
  /\ Becomes(FbData(Fb, drawing.color))
  /\ drawing' = [drawing EXCEPT !.x = drawing.x + 1]
  /\ UNCHANGED <<drawings, before, driver_vars>>
RowEnds ==
  /\ drawing.at = "data" /\ drawing.x = drawing.length
  /\ drawing' = [drawing EXCEPT !.at = "address", !.y = drawing.y + 1]
  /\ UNCHANGED <<screen, fb_wr_addr, drawings, before, driver_vars>>
Returns ==
  /\ drawing.at = "address" /\ drawing.y = drawing.end
  /\ drawing' = [drawing EXCEPT !.at = "done"]
  /\ UNCHANGED <<screen, fb_wr_addr, drawings, before, driver_vars>>

Draw(c) ==
  \/ \E r \in Rectangle : Draws(vga_fill_rect(r, c))
  \/ \E xx \in 0 .. VGA_WIDTH - 1, yy \in 0 .. VGA_HEIGHT - 1 : Draws(vga_set_pixel(xx, yy, c))
  \/ Draws(vga_fill(c))

-----------------------------------------------------------------------------
\* The screen shows what it was left with, and so is the address.
VgaInit ==
  /\ \E c \in Writers \union {NOBODY} : screen = [p \in Pixel |-> c]
  /\ fb_wr_addr \in Pixel /\ frame = Blank
  /\ frame_lock = NOBODY /\ writing = [p \in Writers |-> "user"] /\ i = 0
  /\ drawing = Nothing /\ drawings = 0 /\ before = screen

VgaNext == (\E p \in Writers : WriteFrame(p) \/ Draw(p)) \/ RowAddress \/ PixelData \/ RowEnds \/ Returns

VgaSpec == VgaInit /\ [][VgaNext]_vga_vars

-----------------------------------------------------------------------------
(* Properties *)

\* write_frame: once nobody writes, the screen holds the whole frame of one
\* process, whatever was interrupted or faulted in between.
ScreenIsOneFrame ==
  frame_lock = NOBODY /\ drawing.at = "nothing" => \A p, q \in Pixel : screen[p] = screen[q]

\* vga_fill_rect: it paints the part of the rectangle that is on the screen and
\* leaves every other pixel as it was, for rectangles that start on the screen.
RectangleIsPainted ==
  drawing.at = "done" =>
    \A p \in Pixel :
      LET x == p % VGA_WIDTH  y == p \div VGA_WIDTH  r == drawing.r
      IN screen[p] = IF x \in r.x0 .. r.x0 + r.w - 1 /\ y \in r.y0 .. r.y0 + r.h - 1
                     THEN drawing.color ELSE before[p]

\* The one address register of the frame buffer serves whole frames and cut
\* rectangles: nobody's pixels end up at another's place.
PixelsAreInPlace == ScreenIsOneFrame /\ RectangleIsPainted
=============================================================================
