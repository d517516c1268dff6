------------------------------- MODULE Screen -------------------------------
(***************************************************************************)
(* Draw::ScreenBuffer, render_to_buffer(), diff_and_emit() and full_emit() *)
(* of btop_draw.cpp, with the part of Runner::_runner that makes one frame *)
(* of them, and the terminal the frame is written to.                      *)
(*                                                                         *)
(* A frame copies the previous buffer over the current one, renders the    *)
(* boxes' output into it, and writes to the terminal either the cells that *)
(* differ or, after clearing it, all of them.  One step is one character,  *)
(* one cursor movement or one cell of the emit loop.  A cell is addressed  *)
(* by y * width + x, as in the code.                                       *)
(***************************************************************************)
EXTENDS Integers

CONSTANTS
  Shapes,      \* sizes of the terminal, [w |-> width, h |-> height]
  Glyphs,      \* what one cell can hold
  Blank,       \* the space of a default Cell
  Pens,        \* [fg, bg, attrs] an SGR sequence can leave behind
  Drawn,       \* [ch, pen] the boxes draw
  ResetPen,    \* reset_fg, reset_bg: what Fx::reset stands for
  Plain,       \* the pen of a default Cell
  Colors,      \* colours, the default one included
  NoColor,     \* UINT32_MAX: no colour emitted yet
  Attrs,       \* the attribute bits
  Erases       \* TRUE: the terminal clears to its current background

ASSUME ShapesAssumption ==
  Shapes # {} /\ \A s \in Shapes : s.w \in Nat \ {0} /\ s.h \in Nat \ {0}
ASSUME PensAssumption ==
  /\ Plain \in Pens /\ ResetPen \in Pens /\ Blank \in Glyphs
  /\ Pens \subseteq [fg : Colors, bg : Colors, attrs : SUBSET Attrs]
  /\ NoColor \notin Colors
  /\ Drawn \subseteq [ch : Glyphs, pen : Pens]
ASSUME ErasesAssumption == Erases \in BOOLEAN

VARIABLES
  shape,       \* w, h
  current,     \* the buffer drawn into
  previous,    \* the frame before
  forceFull,   \* force_full
  phase,       \* "idle" between frames, "draw" and "emit" within one
  cursor,      \* cx, cy of render_to_buffer()
  pen,         \* fg, bg, attrs of render_to_buffer()
  scan,        \* the cell the emit loop is at
  emitFull,    \* do_full
  last,        \* last_x, last_y
  lastPen,     \* last_fg, last_bg, last_attrs
  display,     \* what the terminal shows
  displayPen,  \* its colours and attributes
  displayAt    \* its cursor

screenVars == <<shape, current, previous, forceFull, phase, cursor, pen, scan,
                emitFull, last, lastPen, display, displayPen, displayAt>>
buffers == <<shape, current, previous, forceFull>>
drawing == <<cursor, pen>>
emitting == <<scan, emitFull, last, lastPen>>
terminal == <<display, displayPen, displayAt>>

CellAt(s) == 0 .. s.w * s.h - 1
Row(i) == i \div shape.w
Col(i) == i % shape.w
Cell(g, p) == [ch |-> g, pen |-> p]
DefaultCell == Cell(Blank, Plain)
Cells == [ch : Glyphs, pen : Pens]

\* What a terminal can be left with by someone else: every cell the same.
Fills == {DefaultCell} \cup Drawn

Start == -1
NoPen == [fg |-> NoColor, bg |-> NoColor, attrs |-> Attrs]

ScreenTypeOK ==
  /\ shape \in Shapes
  /\ current \in [CellAt(shape) -> Cells] /\ previous \in [CellAt(shape) -> Cells]
  /\ forceFull \in BOOLEAN /\ emitFull \in BOOLEAN
  /\ phase \in {"idle", "draw", "emit"}
  /\ cursor \in [x : Int, y : Int] /\ pen \in Pens
  /\ scan \in Nat /\ last \in Int
  /\ DOMAIN display = CellAt(shape)

ScreenInit ==
  /\ shape \in Shapes
  /\ current = [i \in CellAt(shape) |-> DefaultCell]
  /\ previous = current
  /\ forceFull = TRUE
  /\ phase = "idle"
  /\ cursor = [x |-> 0, y |-> 0] /\ pen = ResetPen
  /\ scan = 0 /\ emitFull = FALSE /\ last = Start /\ lastPen = NoPen
  /\ \E c \in Fills : display = [i \in CellAt(shape) |-> c]
  /\ displayPen = Plain /\ displayAt = 0

---------------------------------------------------------------------------
(* resize(), which Draw::calcSizes() calls between frames.  The terminal   *)
(* has another size by then, and shows what it likes.                      *)

BothCleared(s) == /\ current' = [i \in CellAt(s) |-> DefaultCell]
                  /\ previous' = current'

Resize ==
  /\ phase = "idle"
  /\ \E s \in Shapes, c \in Fills :
       /\ shape' = s
       /\ BothCleared(s)
       /\ display' = [i \in CellAt(s) |-> c]
  /\ forceFull' = TRUE
  /\ displayAt' = 0
  /\ UNCHANGED <<phase, drawing, emitting, displayPen>>

---------------------------------------------------------------------------
(* A frame begins: set_force_full() for a forced redraw, clear_current(),  *)
(* and render_to_buffer() with its cursor at the origin.  The locals of    *)
(* render_to_buffer() and of the emit loop have their initial values while *)
(* neither runs.                                                           *)

FrameStart ==
  /\ phase = "idle"
  /\ \E force \in BOOLEAN : forceFull' = (forceFull \/ force)
  /\ current' = previous
  /\ phase' = "draw"
  /\ UNCHANGED <<shape, previous, drawing, emitting, terminal>>

\* CSI row;col f or H, 1-based in the text.
MoveTo(x, y) == cursor' = [x |-> x, y |-> y]

\* CSI A, B, C, D: nothing keeps the cursor inside the buffer.
MoveBy(dx, dy) == cursor' = [x |-> cursor.x + dx, y |-> cursor.y + dy]

NewLine == cursor' = [x |-> 0, y |-> cursor.y + 1]

\* The cursor stays within one cell of the buffer here; further out, a
\* character is dropped all the same.
Near(c) == c.x \in -1 .. shape.w /\ c.y \in -1 .. shape.h

Move ==
  /\ phase = "draw"
  /\ \/ \E x \in 0 .. shape.w - 1, y \in 0 .. shape.h - 1 : MoveTo(x, y)
     \/ \E d \in {<<0, -1>>, <<0, 1>>, <<1, 0>>, <<-1, 0>>} : MoveBy(d[1], d[2])
     \/ NewLine
  /\ Near(cursor')
  /\ UNCHANGED <<buffers, phase, pen, emitting, terminal>>

\* SGR: which codes lead to which pen is left out.
SetPen ==
  /\ phase = "draw"
  /\ pen' \in {c.pen : c \in Drawn} \ {pen}
  /\ UNCHANGED <<buffers, phase, cursor, emitting, terminal>>

InBuffer(c) == c.x \in 0 .. shape.w - 1 /\ c.y \in 0 .. shape.h - 1

\* A printable character; one outside the buffer only moves the cursor.
Put ==
  /\ phase = "draw"
  /\ Near([cursor EXCEPT !.x = @ + 1])
  /\ \E g \in {c.ch : c \in {d \in Drawn : d.pen = pen}} :
       current' = IF InBuffer(cursor)
                  THEN [current EXCEPT ![cursor.y * shape.w + cursor.x] = Cell(g, pen)]
                  ELSE current
  /\ cursor' = [cursor EXCEPT !.x = @ + 1]
  /\ UNCHANGED <<shape, previous, forceFull, phase, pen, emitting, terminal>>

---------------------------------------------------------------------------
(* Emitting.  The frame's output is one string that is written at the end; *)
(* here the terminal follows it cell by cell.                              *)

\* Term::clear and the cursor at the origin.
Cleared == [i \in CellAt(shape) |->
              IF Erases THEN Cell(Blank, [Plain EXCEPT !.bg = displayPen.bg])
                        ELSE DefaultCell]

EmitStart ==
  /\ phase = "draw"
  /\ phase' = "emit"
  /\ emitFull' = forceFull
  /\ forceFull' = FALSE
  /\ cursor' = [x |-> 0, y |-> 0] /\ pen' = ResetPen
  /\ display' = IF forceFull THEN Cleared ELSE display
  /\ displayAt' = IF forceFull THEN 0 ELSE displayAt
  /\ UNCHANGED <<shape, current, previous, scan, last, lastPen, displayPen>>

\* diff_and_emit() skips what has not changed, full_emit() what is blank.
Skipped(i) == current[i] = (IF emitFull THEN DefaultCell ELSE previous[i])

\* No cursor movement is written for the right neighbour of the last cell.
AdjacentColumn(i) == Col(i) = Col(last) + 1    \* slip: in any row
Adjacent(i) == Row(i) = Row(last) /\ Col(i) = Col(last) + 1

\* emit_attrs(): one code per bit that changed, in bit order; 22 ends bold
\* and dim together.
Ends(a) == IF a \in {"bold", "dim"} THEN {"bold", "dim"} ELSE {a}
Switch(on, a, wanted) == IF a \in wanted THEN on \cup {a} ELSE on \ Ends(a)
ItalicOn(on, wanted, changed) ==
  IF "italic" \in changed THEN Switch(on, "italic", wanted) ELSE on
DimOn(on, wanted, changed) ==
  IF "dim" \in changed THEN Switch(on, "dim", wanted) ELSE on
BoldOn(on, wanted, changed) ==
  IF "bold" \in changed THEN Switch(on, "bold", wanted) ELSE on
EmitAttrs(on, new, old) ==
  LET changed == (new \ old) \cup (old \ new)
  IN  ItalicOn(DimOn(BoldOn(on, new, changed), new, changed), new, changed)

\* Attributes and colours are written when they differ from the last ones
\* this frame wrote.
PenAfter(p) ==
  [fg    |-> IF p.fg # lastPen.fg THEN p.fg ELSE displayPen.fg,
   bg    |-> IF p.bg # lastPen.bg THEN p.bg ELSE displayPen.bg,
   attrs |-> EmitAttrs(displayPen.attrs, p.attrs, lastPen.attrs)]

EmitSkip ==
  /\ phase = "emit" /\ scan \in CellAt(shape)
  /\ Skipped(scan)
  /\ scan' = scan + 1
  /\ UNCHANGED <<buffers, phase, drawing, emitFull, last, lastPen, terminal>>

\* The terminal prints where its cursor is and moves right; behind the end
\* of a row the cursor stands before the next one.
EmitCell ==
  /\ phase = "emit" /\ scan \in CellAt(shape)
  /\ ~ Skipped(scan)
  /\ LET c == current[scan]
         at == IF Adjacent(scan) THEN displayAt ELSE scan
     IN  /\ displayPen' = PenAfter(c.pen)
         /\ display' = [display EXCEPT ![at] = Cell(c.ch, displayPen')]
         /\ displayAt' = at + 1
         /\ lastPen' = c.pen
  /\ last' = scan
  /\ scan' = scan + 1
  /\ UNCHANGED <<buffers, phase, drawing, emitFull>>

\* swap()
Swap ==
  /\ phase = "emit" /\ scan \notin CellAt(shape)
  /\ current' = previous /\ previous' = current
  /\ phase' = "idle"
  /\ scan' = 0 /\ emitFull' = FALSE /\ last' = Start /\ lastPen' = NoPen
  /\ UNCHANGED <<shape, forceFull, drawing, terminal>>

ScreenNext == \/ Resize \/ FrameStart \/ Move \/ SetPen \/ Put
              \/ EmitStart \/ EmitSkip \/ EmitCell \/ Swap

ScreenSpec == ScreenInit /\ [][ScreenNext]_screenVars

---------------------------------------------------------------------------
(* Properties.                                                             *)

\* Two cells look alike, up to their attributes: the same glyph and, where
\* the terminal clears to its default background, the same colours.
Alike(a, b) == /\ a.ch = b.ch
               /\ ~ Erases => a.pen.fg = b.pen.fg /\ a.pen.bg = b.pen.bg

\* Between frames the terminal shows the frame that was drawn last, through
\* differential frames, skipped blanks, omitted cursor movements and colours,
\* and resizes.  (diff_and_emit, full_emit, ScreenBuffer::swap)
DisplayShowsFrame ==
  phase = "idle" /\ ~ forceFull =>
    \A i \in CellAt(shape) : Alike(display[i], previous[i])
=============================================================================
