---------------------------- MODULE Draw_proofs ----------------------------
(***************************************************************************)
(* Proofs about what is drawn: the screen buffer (Screen), for terminals   *)
(* of every size and every set of glyphs and pens, the view of the process *)
(* list (ProcView), for every box and however the list changes, and the    *)
(* line editor (TextEdit), for every set of characters and text; and that  *)
(* each of the three keeps to its types.                                   *)
(***************************************************************************)
EXTENDS Screen, ProcView, TextEdit, ModArith, SequenceTheorems

---------------------------------------------------------------------------
(* Screen                                                                  *)

Count(s) == s.w * s.h

\* While cells are emitted the display is the new frame up to the scan and,
\* from there on, the old frame or a cleared screen; and once a cell was
\* written, the terminal's cursor and colours are where the loop thinks.
EmitInv ==
  /\ ~ forceFull
  /\ scan \in 0 .. Count(shape)
  /\ last \in -1 .. scan - 1
  /\ \A i \in CellAt(shape) : i < scan => Alike(display[i], current[i])
  /\ \A i \in CellAt(shape) : i >= scan =>
       Alike(display[i], IF emitFull THEN DefaultCell ELSE previous[i])
  /\ last = -1 => lastPen = NoPen
  /\ last # -1 => /\ displayAt = last + 1
                  /\ displayPen.fg = lastPen.fg
                  /\ displayPen.bg = lastPen.bg

\* The inductive invariant.
ScreenInv ==
  /\ ScreenTypeOK
  /\ phase # "emit" /\ ~ forceFull =>
       \A i \in CellAt(shape) : Alike(display[i], previous[i])
  /\ phase # "emit" => scan = 0 /\ last = Start /\ lastPen = NoPen
  /\ phase = "emit" => EmitInv

LEMMA TimesInt == \A a, b \in Int : a * b \in Int
OBVIOUS

LEMMA TimesNat == \A a, b \in Nat : a * b \in Nat
OBVIOUS

LEMMA CountNat == \A s \in Shapes : Count(s) \in Nat /\ CellAt(s) = 0 .. Count(s) - 1
BY ShapesAssumption, TimesNat DEF Count, CellAt

\* A character printed without a cursor movement lands on its cell.
LEMMA AdjacentIsNext ==
  ASSUME shape \in Shapes, NEW i \in CellAt(shape), last \in -1 .. i - 1, Adjacent(i)
  PROVE  last # -1 /\ i = last + 1
<1> DEFINE w == shape.w
<1>1. w \in Nat \ {0}
  BY ShapesAssumption
<1>2. i \in Nat /\ i \in Int /\ last \in Int
  BY CountNat
<1>3. /\ i \div w \in Int /\ i % w \in 0 .. w - 1 /\ i = w * (i \div w) + (i % w)
      /\ last \div w \in Int /\ last % w \in 0 .. w - 1
      /\ last = w * (last \div w) + (last % w)
  BY <1>1, <1>2, DivMod
<1>4. i \div w = last \div w /\ i % w = (last % w) + 1
  BY DEF Adjacent, Row, Col
<1> HIDE DEF w
<1>5. i = last + 1
  <2> DEFINE p == w * (last \div w)
  <2>1. p \in Int
    BY <1>1, <1>3, TimesInt
  <2>2. i = p + (i % w) /\ last = p + (last % w)
    BY <1>3, <1>4
  <2> DEFINE r == i % w
             s == last % w
  <2>3. r \in Int /\ s \in Int /\ r = s + 1
    BY <1>1, <1>3, <1>4
  <2> HIDE DEF p, r, s
  <2>4. i = p + r /\ last = p + s
    BY <2>2 DEF r, s
  <2> QED  BY <2>1, <2>3, <2>4
<1>6. last # -1
  <2> SUFFICES ASSUME last = -1 PROVE FALSE
    OBVIOUS
  <2>1. i = 0
    BY <1>5
  <2>2. i % w = 0 \/ i % w >= 1
    BY <1>1, <1>3
  <2>3. i % w >= 1
    BY <1>1, <1>3, <1>4
  <2>4. 0 % w = 0
    BY <1>1, Z3
  <2> QED  BY <2>1, <2>3, <2>4
<1> QED  BY <1>5, <1>6

LEMMA AlikeRefl == \A c : Alike(c, c)
BY DEF Alike

LEMMA ScreenInvInit == ScreenInit => ScreenInv
<1> SUFFICES ASSUME ScreenInit PROVE ScreenInv
  OBVIOUS
<1>1. DefaultCell \in Cells /\ ResetPen \in Pens
  BY PensAssumption DEF DefaultCell, Cell, Cells
<1>2. current \in [CellAt(shape) -> Cells] /\ previous \in [CellAt(shape) -> Cells]
  BY <1>1 DEF ScreenInit
<1>3. DOMAIN display = CellAt(shape)
  BY DEF ScreenInit
<1>4. forceFull \in BOOLEAN /\ emitFull \in BOOLEAN
  BY DEF ScreenInit
<1>5. cursor \in [x : Int, y : Int] /\ pen \in Pens /\ scan \in Nat /\ last \in Int
  BY <1>1 DEF ScreenInit, Start
<1>6. shape \in Shapes /\ phase \in {"idle", "draw", "emit"}
  BY DEF ScreenInit
<1>7. ScreenTypeOK
  BY <1>1, <1>2, <1>3, <1>4, <1>5, <1>6, Zenon DEF ScreenTypeOK
<1> QED  BY <1>7 DEF ScreenInit, ScreenInv

LEMMA ScreenInvStep == ScreenInv /\ [ScreenNext]_screenVars => ScreenInv'
<1> SUFFICES ASSUME ScreenInv, [ScreenNext]_screenVars PROVE ScreenInv'
  OBVIOUS
<1> USE DEF ScreenInv, ScreenTypeOK
<1>0. DefaultCell \in Cells /\ ResetPen \in Pens
  BY PensAssumption DEF DefaultCell, Cell, Cells
<1>1. CASE Resize
  <2>1. PICK s \in Shapes, c \in Fills :
          shape' = s /\ BothCleared(s) /\ display' = [i \in CellAt(s) |-> c]
    BY <1>1 DEF Resize
  <2>2. /\ current' \in [CellAt(shape') -> Cells]
        /\ previous' \in [CellAt(shape') -> Cells]
    BY <1>0, <2>1 DEF BothCleared
  <2>3. /\ shape' \in Shapes /\ DOMAIN display' = CellAt(shape')
        /\ forceFull' = TRUE /\ phase = "idle"
        /\ UNCHANGED <<phase, cursor, pen, scan, emitFull, last, lastPen>>
    BY <1>1, <2>1 DEF Resize, drawing, emitting
  <2>4. forceFull' \in BOOLEAN
    BY <2>3
  <2>5. ScreenTypeOK'
    BY <2>2, <2>3, <2>4, Zenon DEF CellAt
  <2> QED  BY <2>3, <2>5
<1>2. CASE FrameStart
  BY <1>2 DEF FrameStart, drawing, emitting, terminal
<1>3. CASE Move
  <2>1. cursor' \in [x : Int, y : Int]
    BY <1>3, ShapesAssumption DEF Move, MoveTo, MoveBy, NewLine
  <2> QED  BY <1>3, <2>1 DEF Move, buffers, emitting, terminal
<1>4. CASE SetPen
  <2>1. pen' \in Pens
    BY <1>4, PensAssumption DEF SetPen
  <2> QED  BY <1>4, <2>1 DEF SetPen, buffers, emitting, terminal
<1>5. CASE Put
  <2>1. cursor' \in [x : Int, y : Int]
    BY <1>5 DEF Put
  <2>2. current' \in [CellAt(shape) -> Cells]
    <3>1. \A d \in Drawn : Cell(d.ch, pen) \in Cells
      BY PensAssumption DEF Cell, Cells
    <3>2. PICK g \in {c.ch : c \in {d \in Drawn : d.pen = pen}} :
            current' = IF InBuffer(cursor)
                  THEN [current EXCEPT ![cursor.y * shape.w + cursor.x] = Cell(g, pen)]
                  ELSE current
      BY <1>5 DEF Put
    <3>3. Cell(g, pen) \in Cells
      BY <3>1
    <3> DEFINE k == cursor.y * shape.w + cursor.x
    <3> HIDE DEF k
    <3>4. current' = current \/ current' = [current EXCEPT ![k] = Cell(g, pen)]
      BY <3>2 DEF k
    <3> QED  BY <3>3, <3>4
  <2>3. UNCHANGED <<shape, previous, forceFull, phase, pen, scan, emitFull, last,
                    lastPen, display, displayPen, displayAt>>
    BY <1>5 DEF Put, emitting, terminal
  <2> QED  BY <1>5, <2>1, <2>2, <2>3 DEF Put
<1>6. CASE EmitStart
  <2>1. DOMAIN display' = CellAt(shape')
    BY <1>6 DEF EmitStart, Cleared
  <2>0. /\ phase' = "emit" /\ emitFull' = forceFull /\ forceFull' = FALSE
        /\ cursor' = [x |-> 0, y |-> 0] /\ pen' = ResetPen
        /\ shape' = shape /\ current' = current /\ previous' = previous
        /\ scan' = scan /\ last' = last
    BY <1>6 DEF EmitStart
  <2>10. /\ forceFull' \in BOOLEAN /\ emitFull' \in BOOLEAN /\ pen' \in Pens
         /\ cursor' \in [x : Int, y : Int]
    <3>1. forceFull' \in BOOLEAN /\ emitFull' \in BOOLEAN
      BY <2>0, Zenon
    <3>2. pen' \in Pens /\ cursor' \in [x : Int, y : Int]
      BY <2>0, <1>0
    <3> QED  BY <3>1, <3>2
  <2>11. /\ current' \in [CellAt(shape') -> Cells]
         /\ previous' \in [CellAt(shape') -> Cells]
         /\ shape' \in Shapes /\ phase' \in {"idle", "draw", "emit"}
         /\ scan' \in Nat /\ last' \in Int
    BY <2>0
  <2>2. ScreenTypeOK'
    BY <2>10, <2>11, <2>1, Zenon
  <2>3. ASSUME NEW i \in CellAt(shape)
        PROVE  Alike(display'[i], IF emitFull' THEN DefaultCell ELSE previous'[i])
    BY <1>6, PensAssumption DEF EmitStart, Cleared, Alike, DefaultCell, Cell
  <2>4. \A i \in CellAt(shape) : ~ (i < 0)
    BY CountNat
  <2>5. EmitInv'
    BY <1>6, <2>3, <2>4, CountNat DEF EmitStart, EmitInv, Start
  <2> QED  BY <1>6, <2>2, <2>5 DEF EmitStart
<1>7. CASE EmitSkip
  <2>1. /\ EmitInv /\ scan \in CellAt(shape) /\ Skipped(scan) /\ scan' = scan + 1
        /\ UNCHANGED <<shape, current, previous, forceFull, phase, cursor, pen,
                       emitFull, last, lastPen, display, displayPen, displayAt>>
    BY <1>7 DEF EmitSkip, buffers, drawing, terminal
  <2>2. Alike(display[scan], current[scan])
    BY <2>1 DEF EmitInv, Skipped
  <2>3. scan' \in 0 .. Count(shape) /\ scan' \in Nat
    BY <2>1, CountNat
  <2>4. last \in -1 .. scan' - 1
    BY <2>1 DEF EmitInv
  <2>5. \A i \in CellAt(shape) : i < scan' => Alike(display[i], current[i])
    <3> SUFFICES ASSUME NEW i \in CellAt(shape), i < scan'
                 PROVE  Alike(display[i], current[i])
      OBVIOUS
    <3>1. i < scan \/ i = scan
      BY <2>1, CountNat
    <3> QED  BY <3>1, <2>1, <2>2 DEF EmitInv
  <2>6. \A i \in CellAt(shape) : i >= scan' =>
          Alike(display[i], IF emitFull THEN DefaultCell ELSE previous[i])
    <3> SUFFICES ASSUME NEW i \in CellAt(shape), i >= scan'
                 PROVE  i >= scan
      BY <2>1 DEF EmitInv
    <3> QED  BY <2>1, CountNat
  <2>7. ScreenTypeOK'
    BY <2>1, <2>3
  <2>8. EmitInv'
    BY <2>1, <2>3, <2>4, <2>5, <2>6 DEF EmitInv, Alike, DefaultCell
  <2> QED  BY <2>1, <2>7, <2>8, <1>7 DEF EmitSkip
<1>8. CASE EmitCell
  <2> DEFINE c == current[scan]
             at == IF Adjacent(scan) THEN displayAt ELSE scan
  <2>1. /\ EmitInv /\ scan \in CellAt(shape) /\ scan' = scan + 1 /\ last' = scan
        /\ phase = "emit" /\ lastPen' = c.pen /\ displayPen' = PenAfter(c.pen)
        /\ display' = [display EXCEPT ![at] = Cell(c.ch, displayPen')]
        /\ displayAt' = at + 1
        /\ UNCHANGED <<shape, current, previous, forceFull, phase, cursor, pen,
                       emitFull>>
    BY <1>8 DEF EmitCell, buffers, drawing
  <2>2. at = scan
    <3>1. CASE Adjacent(scan)
      BY <3>1, <2>1, AdjacentIsNext DEF EmitInv
    <3> QED  BY <3>1
  <2>3. c \in Cells /\ c.pen \in Pens /\ c.pen.fg \in Colors /\ c.pen.bg \in Colors
    BY <2>1, PensAssumption DEF Cells
  <2>4. displayPen'.fg = c.pen.fg /\ displayPen'.bg = c.pen.bg
    <3>1. lastPen.fg # c.pen.fg \/ displayPen.fg = lastPen.fg
      BY <2>1, <2>3, PensAssumption DEF EmitInv, NoPen
    <3>2. lastPen.bg # c.pen.bg \/ displayPen.bg = lastPen.bg
      BY <2>1, <2>3, PensAssumption DEF EmitInv, NoPen
    <3> QED  BY <2>1, <3>1, <3>2 DEF PenAfter
  <2>5. /\ Alike(display'[scan], current[scan])
        /\ \A i \in CellAt(shape) : i # scan => display'[i] = display[i]
        /\ DOMAIN display' = CellAt(shape)
    BY <2>1, <2>2, <2>4 DEF Alike, Cell
  <2> HIDE DEF c, at
  <2>6. scan' \in 0 .. Count(shape) /\ scan' \in Nat /\ last' \in -1 .. scan' - 1
        /\ last' \in Int /\ last' # -1
    <3>1. scan \in 0 .. Count(shape) - 1 /\ Count(shape) \in Nat
      BY <2>1, CountNat
    <3>2. scan' = scan + 1 /\ last' = scan
      BY <2>1
    <3> QED  BY <3>1, <3>2
  <2>7. \A i \in CellAt(shape) : i < scan' => Alike(display'[i], current[i])
    <3> SUFFICES ASSUME NEW i \in CellAt(shape), i < scan'
                 PROVE  Alike(display'[i], current[i])
      OBVIOUS
    <3>1. (i < scan /\ i # scan) \/ i = scan
      BY <2>1, CountNat
    <3> QED  BY <3>1, <2>1, <2>5 DEF EmitInv
  <2>8. \A i \in CellAt(shape) : i >= scan' =>
          Alike(display'[i], IF emitFull THEN DefaultCell ELSE previous[i])
    <3> SUFFICES ASSUME NEW i \in CellAt(shape), i >= scan'
                 PROVE  i >= scan /\ i # scan
      BY <2>1, <2>5, Zenon DEF EmitInv
    <3>0. i \in Int /\ scan \in Int
      BY CountNat
    <3> QED  BY <2>1, CountNat, <3>0
  <2>9. displayAt' = last' + 1 /\ displayPen'.fg = lastPen'.fg
        /\ displayPen'.bg = lastPen'.bg
    BY <2>1, <2>2, <2>4
  <2>10. ScreenTypeOK'
    BY <2>1, <2>5, <2>6
  <2>11. EmitInv'
    BY <2>1, <2>6, <2>7, <2>8, <2>9 DEF EmitInv, Alike, DefaultCell
  <2> QED  BY <2>1, <2>10, <2>11
<1>9. CASE Swap
  <2>1. /\ EmitInv /\ scan \notin CellAt(shape) /\ current' = previous
        /\ previous' = current /\ phase' = "idle" /\ scan' = 0 /\ last' = Start
        /\ lastPen' = NoPen /\ emitFull' = FALSE
        /\ UNCHANGED <<shape, forceFull, cursor, pen, display, displayPen, displayAt>>
    BY <1>9 DEF Swap, drawing, terminal
  <2>2. \A i \in CellAt(shape) : i < scan
    BY <2>1, CountNat DEF EmitInv
  <2>3. \A i \in CellAt(shape) : Alike(display[i], current[i])
    BY <2>1, <2>2 DEF EmitInv
  <2>4. emitFull' \in BOOLEAN /\ scan' \in Nat /\ last' \in Int
    <3>1. emitFull' \in BOOLEAN
      BY <2>1, Zenon
    <3>2. scan' \in Nat /\ last' \in Int
      BY <2>1 DEF Start
    <3> QED  BY <3>1, <3>2
  <2>6. /\ current' \in [CellAt(shape') -> Cells]
        /\ previous' \in [CellAt(shape') -> Cells]
        /\ shape' \in Shapes /\ phase' \in {"idle", "draw", "emit"}
        /\ cursor' \in [x : Int, y : Int] /\ pen' \in Pens
        /\ DOMAIN display' = CellAt(shape')
    BY <2>1
  <2>8. forceFull' = forceFull
    BY <2>1
  <2>7. forceFull' \in BOOLEAN
    BY <2>8, Zenon
  <2>5. ScreenTypeOK'
    BY <2>4, <2>6, <2>7, Zenon
  <2> QED  BY <2>1, <2>3, <2>5
<1>10. CASE UNCHANGED screenVars
  BY <1>10 DEF screenVars, EmitInv, Alike, DefaultCell
<1> QED
  BY <1>1, <1>2, <1>3, <1>4, <1>5, <1>6, <1>7, <1>8, <1>9, <1>10 DEF ScreenNext

\* Between frames the terminal shows the frame that was drawn last: the same
\* glyph in every cell and, where the terminal clears to its default
\* background, the same colours.  (diff_and_emit, full_emit, swap)
THEOREM DisplayIsFrame == ScreenSpec => []DisplayShowsFrame
<1>1. ScreenInv => DisplayShowsFrame
  BY DEF ScreenInv, DisplayShowsFrame
<1> QED
  BY <1>1, ScreenInvInit, ScreenInvStep, PTL DEF ScreenSpec

---------------------------------------------------------------------------
(* ProcView                                                                *)

Views == [start : Nat, row : Nat]

ViewTypes ==
  /\ rows \in Seq(Nat \ {0})
  /\ start \in Nat /\ selected \in Nat /\ lastSelected \in Nat
  /\ followed \in Nat /\ followedPid \in Nat
  /\ selectedPid \in Nat /\ detailedPid \in Nat /\ restorePid \in Nat
  /\ follow \in BOOLEAN /\ pauseList \in BOOLEAN /\ bannerShown \in BOOLEAN
  /\ previousBanner \in BOOLEAN

\* What a draw leaves, and the key that pauses does not touch.
RowsShown ==
  /\ start = 0 \/ start + SelectMax(Detailed, TRUE) <= Len(rows)
  /\ selected <= SelectMax(Detailed, bannerShown)
  /\ IF selected = 0 THEN selectedPid = 0
     ELSE start + selected <= Len(rows) /\ rows[start + selected] = selectedPid
  /\ previousBanner = bannerShown /\ restorePid = 0

\* The inductive invariant: the banner is there while the list is paused,
\* and still when the key that ends the pause was pressed.
ViewInv ==
  /\ ViewTypes
  /\ pressed = "none" => RowsShown /\ (pauseList => bannerShown)
  /\ pressed = "u" => RowsShown /\ (~ pauseList => bannerShown)

LEMMA SelectMaxTypes ==
  ASSUME NEW d \in BOOLEAN, NEW b \in BOOLEAN
  PROVE  /\ SelectMax(d, b) \in Nat \ {0}
         /\ SelectMax(d, FALSE) = SelectMax(d, TRUE) + 1
BY ProcViewAssumption DEF SelectMax

\* What draw() keeps is in bounds, wherever it came from.
LEMMA InViewFacts ==
  ASSUME NEW at \in Views, NEW n \in Nat, NEW max \in Nat \ {0}
  PROVE  /\ InView(at, n, max) \in Views
         /\ InView(at, n, max).start = 0 \/ InView(at, n, max).start + max <= n
         /\ InView(at, n, max).row <= max /\ InView(at, n, max).row <= n
         /\ InView(at, n, max).row > 0
              => InView(at, n, max).start + InView(at, n, max).row <= n
BY DEF InView, AtMost, AtLeast0, Views

LEMMA LocatedTypes ==
  ASSUME NEW n \in Nat, NEW loc \in 1 .. n, NEW max \in Nat \ {0}
  PROVE  Located(loc, n, max) \in Views
BY DEF Located, MiddleOf, AtLeast0, Views

\* In a list that fills the box the process is on the row that was found
\* for it, in the middle or, at both ends, off it.
LEMMA LocatedFacts ==
  ASSUME NEW n \in Nat, NEW loc \in 1 .. n, NEW max \in Nat \ {0}, n >= max,
         NEW at \in Views, at.start = Located(loc, n, max).start
  PROVE  /\ InView(at, n, max).start + Located(loc, n, max).row = loc
         /\ at.row = Located(loc, n, max).row
              => InView(at, n, max).row = Located(loc, n, max).row
BY DEF Located, InView, MiddleOf, AtMost, AtLeast0, Views

LEMMA EdgeTypes ==
  ASSUME NEW at \in Views, NEW went \in BOOLEAN, NEW n \in Nat, NEW max \in Nat
  PROVE  EdgeMoved(at, went, n, max) \in Views
BY DEF EdgeMoved, Views

LEMMA PlaceFacts ==
  ASSUME NEW list \in Seq(Nat \ {0}), NEW pid, Contains(list, pid)
  PROVE  PlaceOf(pid, list) \in 1 .. Len(list) /\ list[PlaceOf(pid, list)] = pid
BY DEF PlaceOf, Contains

\* Every command of selection() leads to a row and a view that are numbers.
LEMMA MovedTypes ==
  ASSUME NEW cmd \in Commands, NEW at \in Nat, NEW max \in Nat \ {0}, ViewTypes,
         NEW to \in Destination(cmd, at, max)
  PROVE  to.start \in Nat /\ to.selected \in Nat /\ to.last \in Nat
<1> DEFINE top == AtLeast0(Len(rows) - max)
           To(s, row, mark) == {[start |-> s, selected |-> row, last |-> mark]}
<1>1. top \in Nat /\ Len(rows) \in Nat
  BY DEF AtLeast0, ViewTypes
<1>2. start \in Nat /\ lastSelected \in Nat
  BY DEF ViewTypes
<1>3. CASE cmd = "up"
  BY <1>2, <1>3 DEF Destination
<1>4. CASE cmd = "down"
  BY <1>2, <1>4 DEF Destination
<1>5. CASE cmd = "page_up"
  BY <1>2, <1>5 DEF Destination, AtLeast0
<1>6. CASE cmd = "page_down"
  <2>1. AtMost(start + max, top) \in Nat
    BY <1>1, <1>2 DEF AtMost
  <2> QED
    BY <1>2, <1>6, <2>1 DEF Destination
<1>7. CASE cmd = "home"
  BY <1>2, <1>7 DEF Destination, AtMost
<1>8. CASE cmd = "end"
  BY <1>1, <1>2, <1>8 DEF Destination
<1>9. CASE cmd = "scroll"
  <2>1. PICK s \in 0 .. top : to \in To(s, at, lastSelected)
    BY <1>9 DEF Destination
  <2> QED
    BY <1>1, <1>2, <2>1
<1> QED
  BY <1>3, <1>4, <1>5, <1>6, <1>7, <1>8, <1>9 DEF Commands

\* The view before its bounds are checked, and after.
LEMMA KeptFacts ==
  ASSUME ViewTypes, NEW list \in Seq(Nat \ {0})
  PROVE  /\ DrawMax \in Nat \ {0}
         /\ Found(list) => LocatedIn(list) \in Views
         /\ MovedTo(list) \in Views
         /\ Kept(list) \in Views
         /\ Kept(list).start = 0 \/ Kept(list).start + DrawMax <= Len(list)
         /\ Kept(list).row <= DrawMax /\ Kept(list).row <= Len(list)
         /\ Kept(list).row > 0 => Kept(list).start + Kept(list).row <= Len(list)
<1> DEFINE went == previousBanner /\ ~ Banner(list)
           max == IF Lost(list) /\ ~ Banner(list) THEN DrawMax + 1 ELSE DrawMax
           edge == EdgeMoved(MovedTo(list), went, Len(list), max)
<1>1. DrawMax \in Nat \ {0} /\ Len(list) \in Nat
  BY ProcViewAssumption DEF DrawMax, SelectMax, ViewTypes
<1>2. ASSUME Found(list) PROVE LocatedIn(list) \in Views
  BY <1>1, <1>2, PlaceFacts, LocatedTypes DEF Found, LocatedIn
<1>3. MovedTo(list) \in Views
  BY <1>2 DEF MovedTo, Views, ViewTypes
<1>4. went \in BOOLEAN /\ max \in Nat
  BY <1>1 DEF ViewTypes
<1>5. edge \in Views
  <2> HIDE DEF went, max
  <2> QED
    BY <1>1, <1>3, <1>4, EdgeTypes
<1>6. Kept(list) = InView(edge, Len(list), DrawMax)
  BY DEF Kept
<1> HIDE DEF edge
<1> QED
  BY <1>1, <1>2, <1>3, <1>5, <1>6, InViewFacts

\* A draw shows what it selects.
LEMMA DrawShows ==
  ASSUME ViewTypes, Draw
  PROVE  ViewTypes' /\ RowsShown' /\ (pauseList => bannerShown')
<1>1. PICK list \in Listings :
        LET at == Kept(list) IN
        /\ rows' = list /\ start' = at.start /\ selected' = at.row
        /\ selectedPid' = IF at.row = 0 THEN 0
                          ELSE IF at.start + at.row > Len(list) THEN selectedPid
                          ELSE list[at.start + at.row]
        /\ IF Lost(list) THEN Stopped
           ELSE /\ followed' = IF Found(list) /\ restorePid = 0 THEN LocatedIn(list).row
                               ELSE followed
                /\ UNCHANGED <<follow, followedPid>>
        /\ bannerShown' = Banner(list) /\ previousBanner' = Banner(list)
  BY DEF Draw
<1>2. restorePid' = 0 /\ UNCHANGED <<lastSelected, detailedPid, pauseList>>
  BY DEF Draw
<1>3. list \in Seq(Nat \ {0})
  BY ProcViewAssumption
<1> DEFINE at == Kept(list)
<1>4. /\ DrawMax \in Nat \ {0} /\ Len(list) \in Nat
      /\ Found(list) => LocatedIn(list).row \in Nat
      /\ at.start \in Nat /\ at.row \in Nat
      /\ at.start = 0 \/ at.start + DrawMax <= Len(list)
      /\ at.row <= DrawMax /\ at.row <= Len(list)
      /\ at.row > 0 => at.start + at.row <= Len(list)
  BY <1>3, KeptFacts DEF Views
<1> HIDE DEF at
<1>5. Banner(list) \in BOOLEAN /\ (Banner(list) => pauseList \/ follow)
      /\ (pauseList => Banner(list))
  BY DEF Banner, ViewTypes
<1>6. /\ SelectMax(Detailed, TRUE) <= DrawMax
      /\ DrawMax <= SelectMax(Detailed, Banner(list))
  BY <1>5, ProcViewAssumption DEF DrawMax, SelectMax, ViewTypes
<1>7. /\ SelectMax(Detailed, TRUE)' = SelectMax(Detailed, TRUE)
      /\ SelectMax(Detailed, bannerShown)' = SelectMax(Detailed, Banner(list))
  BY <1>1, <1>2 DEF SelectMax, Detailed
<1>0. SelectMax(Detailed, TRUE) \in Nat /\ SelectMax(Detailed, Banner(list)) \in Nat
  BY ProcViewAssumption DEF SelectMax
<1>8. start' = at.start /\ selected' = at.row /\ rows' = list
  BY <1>1 DEF at
<1>9. selectedPid' = IF at.row = 0 THEN 0 ELSE list[at.start + at.row]
  BY <1>1, <1>4 DEF at
<1>10. selectedPid' \in Nat
  BY <1>3, <1>4, <1>9
<1>11. ViewTypes'
  <2>1. follow' \in BOOLEAN /\ followed' \in Nat /\ followedPid' \in Nat
    <3>1. CASE Lost(list)
      <4>1. follow' = FALSE /\ followed' = 0 /\ followedPid' = 0
        BY <1>1, <3>1 DEF Stopped
      <4> QED
        BY <4>1
    <3>2. CASE ~ Lost(list)
      BY <1>1, <1>4, <3>2 DEF ViewTypes
    <3> QED
      BY <3>1, <3>2
  <2> QED
    BY <1>1, <1>2, <1>3, <1>4, <1>5, <1>8, <1>10, <2>1 DEF ViewTypes
<1>12. RowsShown'
  <2>1. start' = 0 \/ start' + SelectMax(Detailed, TRUE)' <= Len(rows')
    <3>1. at.start = 0 \/ at.start + SelectMax(Detailed, TRUE) <= Len(list)
      <4> DEFINE s == at.start
                 m == SelectMax(Detailed, TRUE)
                 n == Len(list)
      <4>1. s \in Nat /\ m \in Nat /\ n \in Nat /\ DrawMax \in Nat /\ m <= DrawMax
        BY <1>0, <1>4, <1>6
      <4>2. s = 0 \/ s + DrawMax <= n
        BY <1>4
      <4> HIDE DEF s, m, n
      <4>3. s = 0 \/ s + m <= n
        BY <4>1, <4>2
      <4> QED
        BY <4>3 DEF s, m, n
    <3> QED
      BY <1>7, <1>8, <3>1, Zenon
  <2>2. selected' <= SelectMax(Detailed, bannerShown)'
    BY <1>0, <1>4, <1>6, <1>7, <1>8
  <2>3. IF selected' = 0 THEN selectedPid' = 0
        ELSE start' + selected' <= Len(rows') /\ rows'[start' + selected'] = selectedPid'
    BY <1>4, <1>8, <1>9
  <2> QED
    BY <1>1, <1>2, <2>1, <2>2, <2>3 DEF RowsShown
<1> QED
  BY <1>1, <1>5, <1>11, <1>12

LEMMA FollowTypes ==
  ASSUME ViewTypes, Stopped \/ UNCHANGED following
  PROVE  follow' \in BOOLEAN /\ followed' \in Nat /\ followedPid' \in Nat
<1>1. CASE Stopped
  <2>1. follow' = FALSE /\ followed' = 0 /\ followedPid' = 0
    BY <1>1 DEF Stopped
  <2> QED
    BY <2>1
<1>2. CASE UNCHANGED following
  BY <1>2 DEF following, ViewTypes
<1> QED
  BY <1>1, <1>2

LEMMA ViewInvInit == ProcViewInit => ViewInv
<1> SUFFICES ASSUME ProcViewInit PROVE ViewInv
  OBVIOUS
<1>1. ViewTypes
  <2>1. rows \in Seq(Nat \ {0})
    BY DEF ProcViewInit
  <2>2. /\ start = 0 /\ selected = 0 /\ lastSelected = 0 /\ selectedPid = 0
        /\ followed = 0 /\ followedPid = 0 /\ detailedPid = 0 /\ restorePid = 0
        /\ follow = FALSE /\ pauseList = FALSE /\ bannerShown = FALSE
        /\ previousBanner = FALSE
    BY DEF ProcViewInit
  <2> QED
    BY <2>1, <2>2 DEF ViewTypes
<1>2. pressed = "first"
  BY DEF ProcViewInit
<1> QED
  BY <1>1, <1>2 DEF ViewInv

\* No key moves what RowsShown is about and leaves the list as if drawn.
LEMMA ViewInvStep == ViewInv /\ [ProcViewNext]_procViewVars => ViewInv'
<1> SUFFICES ASSUME ViewInv, [ProcViewNext]_procViewVars PROVE ViewInv'
  OBVIOUS
<1>1. ViewTypes
  BY DEF ViewInv
<1>2. CASE Selection
  <2> DEFINE back == follow /\ Detailed /\ selected = 0 /\ returns /\ detailedPid = followedPid
             at == IF back THEN followed ELSE selected
             max == SelectMax(Detailed, bannerShown) + (IF follow /\ ~ pauseList THEN 1 ELSE 0)
  <2>1. PICK cmd \in Commands : \E to \in Destination(cmd, at, max) :
          /\ start' = to.start /\ selected' = to.selected /\ lastSelected' = to.last
          /\ pressed' = IF back \/ position' # position THEN "move" ELSE "none"
    BY <1>2 DEF Selection
  <2>2. at \in Nat /\ max \in Nat \ {0}
    BY <1>1, ProcViewAssumption DEF ViewTypes, SelectMax
  <2>3. start' \in Nat /\ selected' \in Nat /\ lastSelected' \in Nat
    <3> HIDE DEF at, max
    <3> QED
      BY <1>1, <2>1, <2>2, MovedTypes
  <2>4. /\ pressed = "none"
        /\ UNCHANGED <<detailedPid, restorePid, pauseList, rows, selectedPid, bannerShown,
                       previousBanner>>
    BY <1>2 DEF Selection, Quiet, drawn
  <2>5. follow' \in BOOLEAN /\ followed' \in Nat /\ followedPid' \in Nat
    BY <1>1, <1>2, FollowTypes DEF Selection
  <2>6. ViewTypes'
    BY <1>1, <2>3, <2>4, <2>5 DEF ViewTypes
  <2>7. pressed' # "u"
    BY <2>1
  <2>8. ASSUME pressed' = "none" PROVE RowsShown' /\ (pauseList => bannerShown)'
    <3>1. start' = start /\ selected' = selected
      BY <2>1, <2>8 DEF position
    <3> QED
      BY <2>4, <3>1 DEF ViewInv, RowsShown, SelectMax, Detailed
  <2> QED
    BY <2>6, <2>7, <2>8 DEF ViewInv
<1>3. ASSUME EnterDone PROVE ViewInv'
  <2>1. ViewTypes'
    <3>1. CASE OpenDetails
      BY <1>1, <1>3, <3>1 DEF EnterDone, OpenDetails, ViewTypes, drawn
    <3>2. CASE CloseDetails
      <4>1. /\ UNCHANGED <<start, rows, selectedPid, bannerShown, previousBanner, pauseList>>
            /\ lastSelected' = 0 /\ detailedPid' = 0
        BY <1>3, <3>2 DEF EnterDone, CloseDetails, drawn
      <4>2. selected' \in Nat /\ restorePid' \in Nat
        BY <1>1, <3>2 DEF CloseDetails, ViewTypes
      <4>3. follow' \in BOOLEAN /\ followed' \in Nat /\ followedPid' \in Nat
        BY <1>1, <3>2, FollowTypes DEF CloseDetails
      <4> QED
        BY <1>1, <4>1, <4>2, <4>3 DEF ViewTypes
    <3> QED
      BY <1>3, <3>1, <3>2 DEF EnterDone
  <2> QED
    BY <1>3, <2>1 DEF EnterDone, ViewInv
<1>4. CASE Enter
  BY <1>3, <1>4 DEF Enter
<1>5. CASE Click
  <2>1. PICK line \in 0 .. SelectMax(Detailed, FALSE) :
          \/ line = selected /\ EnterDone
          \/ /\ selected' = line
             /\ IF follow /\ ~ pauseList THEN Stopped ELSE UNCHANGED following
             /\ pressed' = "click"
             /\ UNCHANGED <<start, lastSelected, returns, updateFollowing, detailedPid,
                            restorePid, pauseList, drawn>>
    BY <1>5 DEF Click
  <2>2. CASE EnterDone
    BY <1>3, <2>2
  <2>3. CASE ~ EnterDone
    <3>1. follow' \in BOOLEAN /\ followed' \in Nat /\ followedPid' \in Nat
      BY <1>1, <2>1, <2>3, FollowTypes
    <3>2. line \in Nat
      BY ProcViewAssumption DEF SelectMax
    <3>3. ViewTypes'
      BY <1>1, <2>1, <2>3, <3>1, <3>2 DEF ViewTypes, drawn
    <3> QED
      BY <2>1, <2>3, <3>3 DEF ViewInv
  <2> QED
    BY <2>2, <2>3
<1>6. CASE FollowKey
  <2>1. /\ UNCHANGED <<start, lastSelected, detailedPid, pauseList, drawn>>
        /\ pressed' = "F"
    BY <1>6 DEF FollowKey
  <2> DEFINE pid == IF selected # 0 THEN selectedPid ELSE detailedPid
  <2>2. /\ follow' \in BOOLEAN /\ followed' \in Nat /\ followedPid' \in Nat
        /\ selected' \in Nat /\ restorePid' \in Nat
    <3>1. CASE followedPid # pid /\ (selected # 0 \/ Detailed)
      <4>1. /\ follow' = TRUE /\ followedPid' = pid
            /\ UNCHANGED <<selected, followed, restorePid>>
        BY <1>6, <3>1 DEF FollowKey
      <4>2. pid \in Nat
        BY <1>1 DEF ViewTypes
      <4> QED
        BY <1>1, <4>1, <4>2 DEF ViewTypes
    <3>2. CASE ~ (followedPid # pid /\ (selected # 0 \/ Detailed))
      <4>1. /\ Stopped
            /\ selected' = IF returns THEN followed ELSE selected
            /\ restorePid' = IF ~ returns /\ Detailed /\ followedPid = detailedPid
                             THEN detailedPid ELSE restorePid
        BY <1>6, <3>2 DEF FollowKey
      <4>2. selected' \in Nat /\ restorePid' \in Nat
        BY <1>1, <4>1 DEF ViewTypes
      <4> QED
        BY <1>1, <4>1, <4>2, FollowTypes
    <3> QED
      BY <3>1, <3>2
  <2>3. ViewTypes'
    BY <1>1, <2>1, <2>2 DEF ViewTypes, drawn
  <2> QED
    BY <2>1, <2>3 DEF ViewInv
<1>7. CASE PauseKey
  <2>1. pressed = "none" /\ pressed' = "u" /\ pauseList' = ~ pauseList
    BY <1>7 DEF PauseKey, Quiet
  <2>2. ViewTypes'
    BY <1>1, <1>7 DEF PauseKey, ViewTypes, position, following, drawn
  <2>3. RowsShown /\ (pauseList => bannerShown)
    BY <2>1 DEF ViewInv
  <2>4. RowsShown' /\ bannerShown' = bannerShown
    BY <1>7, <2>3 DEF PauseKey, RowsShown, SelectMax, Detailed, position, drawn
  <2> QED
    BY <2>1, <2>2, <2>3, <2>4 DEF ViewInv
<1>8. CASE SortKey
  <2>1. ViewTypes'
    BY <1>1, <1>8 DEF SortKey, ViewTypes, position, following, drawn
  <2> QED
    BY <1>8, <2>1 DEF SortKey, ViewInv
<1>9. CASE Draw
  <2>1. pressed' = "none" /\ pauseList' = pauseList
    BY <1>9 DEF Draw
  <2> QED
    BY <1>1, <1>9, <2>1, DrawShows DEF ViewInv
<1>10. CASE UNCHANGED procViewVars
  <2>1. UNCHANGED <<pressed, pauseList, bannerShown>>
    BY <1>10 DEF procViewVars, drawn
  <2>2. ViewTypes'
    BY <1>1, <1>10 DEF procViewVars, position, following, drawn, ViewTypes
  <2>3. RowsShown => RowsShown'
    BY <1>10 DEF procViewVars, position, drawn, RowsShown, SelectMax, Detailed
  <2> QED
    BY <2>1, <2>2, <2>3 DEF ViewInv
<1> QED
  BY <1>2, <1>4, <1>5, <1>6, <1>7, <1>8, <1>9, <1>10 DEF ProcViewNext

LEMMA ViewInvariant == ProcViewSpec => []ViewInv
BY ViewInvInit, ViewInvStep, PTL DEF ProcViewSpec

\* What is selected is a row in view, and selected_pid is what is there: no
\* key sends a signal to a process other than the one on that row.
THEOREM SelectionStands == ProcViewSpec => []SelectedIsShown
<1>1. ViewInv => SelectedIsShown
  BY DEF ViewInv, SelectedIsShown, RowsShown, Quiet
<1> QED
  BY <1>1, ViewInvariant, PTL

\* A draw that looks for the process that is followed puts it on its row.
LEMMA DrawFollows ==
  ASSUME ViewTypes, Draw, restorePid = 0, follow', ~ pauseList',
         Contains(rows', followedPid'), Len(rows') >= SelectMax(detailedPid' # 0, FALSE)
  PROVE  rows'[start' + (IF followedPid' = detailedPid' THEN followed' ELSE selected')]
           = followedPid'
<1>1. PICK list \in Listings :
        LET at == Kept(list) IN
        /\ rows' = list /\ start' = at.start /\ selected' = at.row
        /\ IF Lost(list) THEN Stopped
           ELSE /\ followed' = IF Found(list) /\ restorePid = 0 THEN LocatedIn(list).row
                               ELSE followed
                /\ UNCHANGED <<follow, followedPid>>
  BY DEF Draw
<1>2. list \in Seq(Nat \ {0}) /\ Len(list) \in Nat
  BY ProcViewAssumption
<1>3. detailedPid' = detailedPid /\ pauseList' = pauseList
  BY DEF Draw
<1>4. ~ Lost(list) /\ follow /\ followedPid' = followedPid
  BY <1>1 DEF Stopped
<1>5. Found(list) /\ Target = followedPid /\ ~ pauseList
  BY <1>1, <1>3, <1>4 DEF Found, Looks, Target, ViewTypes
<1> DEFINE n == Len(list)
           place == PlaceOf(followedPid, list)
           located == Located(place, n, DrawMax)
           moved == MovedTo(list)
<1>6. place \in 1 .. n /\ list[place] = followedPid
  BY <1>1, <1>2, <1>4, PlaceFacts
<1>7. DrawMax \in Nat \ {0} /\ n >= DrawMax
  BY <1>1, <1>2, <1>3, <1>4, ProcViewAssumption DEF DrawMax, SelectMax, Detailed
<1>8. LocatedIn(list) = located
  BY <1>5 DEF LocatedIn
<1>9. /\ moved \in Views /\ moved.start = located.start
      /\ moved.row = IF followedPid = detailedPid THEN 0 ELSE located.row
  <2>1. located \in Views
    BY <1>2, <1>6, <1>7, LocatedTypes
  <2> HIDE DEF located, place
  <2> QED
    BY <1>5, <1>8, <2>1 DEF MovedTo, Views
<1>10. Kept(list) = InView(moved, n, DrawMax)
  <2>1. Banner(list)
    BY <1>4 DEF Banner
  <2>2. EdgeMoved(moved, FALSE, n, DrawMax) = moved
    BY <1>5 DEF EdgeMoved
  <2> QED
    BY <1>4, <2>1, <2>2 DEF Kept
<1> HIDE DEF moved, located, place, n
<1>11. /\ Kept(list).start + located.row = place
       /\ followedPid # detailedPid => Kept(list).row = located.row
  BY <1>2, <1>6, <1>7, <1>9, <1>10, LocatedFacts DEF located, n
<1>12. CASE followedPid = detailedPid
  BY <1>1, <1>3, <1>4, <1>5, <1>6, <1>8, <1>11, <1>12
<1>13. CASE followedPid # detailedPid
  BY <1>1, <1>3, <1>4, <1>6, <1>11, <1>13
<1> QED
  BY <1>12, <1>13

FollowedStep ==
  (/\ pressed' = "none" /\ restorePid = 0
   /\ follow' /\ ~ pauseList'
   /\ Contains(rows', followedPid') /\ Len(rows') >= SelectMax(detailedPid' # 0, FALSE))
  => rows'[start' + (IF followedPid' = detailedPid' THEN followed' ELSE selected')]
       = followedPid'

\* The keys that leave nothing to draw end following, unless the list is
\* paused.
LEMMA FollowedStepHolds == ViewInv /\ [ProcViewNext]_procViewVars => [FollowedStep]_procViewVars
<1> SUFFICES ASSUME ViewInv, ProcViewNext, pressed' = "none", restorePid = 0,
                    follow', ~ pauseList', Contains(rows', followedPid'),
                    Len(rows') >= SelectMax(detailedPid' # 0, FALSE)
             PROVE  rows'[start' + (IF followedPid' = detailedPid' THEN followed' ELSE selected')]
                      = followedPid'
  BY DEF FollowedStep
<1>1. ASSUME Selection PROVE FALSE
  <2>1. IF follow /\ ~ pauseList THEN Stopped ELSE UNCHANGED following
    BY <1>1 DEF Selection
  <2>2. pauseList' = pauseList
    BY <1>1 DEF Selection
  <2>3. follow
    BY <2>1 DEF Stopped, following
  <2> QED
    BY <2>1, <2>2, <2>3 DEF Stopped
<1>2. ~ Enter /\ ~ Click /\ ~ FollowKey /\ ~ PauseKey /\ ~ SortKey
  BY DEF Enter, EnterDone, Click, FollowKey, PauseKey, SortKey
<1> QED
  BY <1>1, <1>2, DrawFollows DEF ProcViewNext, ViewInv

\* The process that is followed is found on its row after a draw.
THEOREM FollowStands == ProcViewSpec => FollowedIsSelected
BY ViewInvariant, FollowedStepHolds, PTL DEF ProcViewSpec, FollowedIsSelected, FollowedStep

---------------------------------------------------------------------------
(* The row that the banner takes.                                          *)

\* The list was just paused: the banner comes.
LEMMA BannerComes ==
  ASSUME NEW at \in Views, NEW n \in Nat, NEW max \in Nat \ {0}, pauseList,
         n >= max, at.row > 0, at.row <= max + 1, at.start = 0 \/ at.start + max <= n,
         at.start + at.row <= n
  PROVE  LET k == InView(EdgeMoved(at, FALSE, n, max), n, max) IN
         k.start + k.row = at.start + at.row /\ k.row > 0
BY DEF InView, EdgeMoved, AtMost, AtLeast0, Views

\* It was paused: the banner goes, and there is one row more.
LEMMA BannerGoes ==
  ASSUME NEW at \in Views, NEW n \in Nat, NEW max \in Nat \ {0}, ~ pauseList,
         n >= max, at.row > 0, at.row <= max - 1, at.start = 0 \/ at.start + max - 1 <= n,
         at.start + at.row <= n
  PROVE  LET k == InView(EdgeMoved(at, TRUE, n, max), n, max) IN
         k.start + k.row = at.start + at.row /\ k.row > 0
BY DEF InView, EdgeMoved, AtMost, AtLeast0, Views

PauseStep ==
  (/\ pressed = "u" /\ rows' = rows /\ ~ follow /\ selected > 0
   /\ Len(rows) >= SelectMax(Detailed, FALSE))
  => selectedPid' = selectedPid

LEMMA PauseStepHolds == ViewInv /\ [ProcViewNext]_procViewVars => [PauseStep]_procViewVars
<1> SUFFICES ASSUME ViewInv, ProcViewNext, pressed = "u", rows' = rows, ~ follow,
                    selected > 0, Len(rows) >= SelectMax(Detailed, FALSE)
             PROVE  selectedPid' = selectedPid
  BY DEF PauseStep
<1>1. ViewTypes /\ RowsShown /\ (~ pauseList => bannerShown)
  BY DEF ViewInv
<1>2. PICK list \in Listings :
        /\ rows' = list
        /\ selectedPid' = IF Kept(list).row = 0 THEN 0
                          ELSE IF Kept(list).start + Kept(list).row > Len(list)
                               THEN selectedPid
                          ELSE list[Kept(list).start + Kept(list).row]
  <2>1. Draw
    BY DEF ProcViewNext, Selection, Enter, Click, FollowKey, PauseKey, SortKey, Quiet
  <2> QED
    BY <2>1 DEF Draw
<1> DEFINE at == [start |-> start, row |-> selected]
           n == Len(rows)
<1>3. at \in Views /\ n \in Nat /\ at.start = start /\ at.row = selected
  BY <1>1 DEF ViewTypes, Views
<1>4. ~ Looks /\ ~ Lost(list) /\ ~ Found(list) /\ MovedTo(list) = at
  BY <1>1 DEF Looks, Lost, Found, MovedTo, RowsShown
<1>5. DrawMax = SelectMax(Detailed, pauseList) /\ (Banner(list) <=> pauseList)
  BY DEF DrawMax, Banner, SelectMax
<1>6. list = rows /\ Kept(list) = InView(EdgeMoved(at, previousBanner /\ ~ pauseList, n,
                                                    DrawMax), n, DrawMax)
  BY <1>2, <1>4, <1>5 DEF Kept
<1>7. /\ start = 0 \/ start + SelectMax(Detailed, TRUE) <= n
      /\ selected <= SelectMax(Detailed, bannerShown)
      /\ start + selected <= n /\ rows[start + selected] = selectedPid
      /\ previousBanner = bannerShown
  <2>1. selected # 0
    BY <1>1 DEF ViewTypes
  <2> QED
    BY <1>1, <2>1 DEF RowsShown
<1>8. Kept(list).start + Kept(list).row = start + selected /\ Kept(list).row > 0
  <2>1. CASE pauseList
    <3>1. DrawMax \in Nat \ {0} /\ DrawMax = SelectMax(Detailed, TRUE)
          /\ selected <= DrawMax + 1 /\ n >= DrawMax
      BY <1>1, <1>3, <1>5, <1>7, <2>1, ProcViewAssumption DEF SelectMax, ViewTypes
    <3>2. Kept(list) = InView(EdgeMoved(at, FALSE, n, DrawMax), n, DrawMax)
      BY <1>6, <2>1
    <3>3. /\ at.start = 0 \/ at.start + DrawMax <= n
          /\ at.row > 0 /\ at.row <= DrawMax + 1 /\ at.start + at.row <= n
      BY <1>1, <1>3, <1>7, <3>1 DEF ViewTypes
    <3> HIDE DEF at, n
    <3> QED
      <4>1. LET k == InView(EdgeMoved(at, FALSE, n, DrawMax), n, DrawMax) IN
            k.start + k.row = at.start + at.row /\ k.row > 0
        BY <1>3, <2>1, <3>1, <3>3, BannerComes
      <4> QED
        BY <1>3, <3>2, <4>1
  <2>2. CASE ~ pauseList
    <3>1. DrawMax \in Nat \ {0} /\ DrawMax - 1 = SelectMax(Detailed, TRUE)
          /\ selected <= DrawMax - 1 /\ n >= DrawMax
      BY <1>1, <1>3, <1>5, <1>7, <2>2, ProcViewAssumption DEF SelectMax
    <3>2. Kept(list) = InView(EdgeMoved(at, TRUE, n, DrawMax), n, DrawMax)
      BY <1>1, <1>6, <1>7, <2>2
    <3>3. /\ at.start = 0 \/ at.start + DrawMax - 1 <= n
          /\ at.row > 0 /\ at.row <= DrawMax - 1 /\ at.start + at.row <= n
      BY <1>1, <1>3, <1>7, <3>1 DEF ViewTypes
    <3> HIDE DEF at, n
    <3> QED
      <4>1. LET k == InView(EdgeMoved(at, TRUE, n, DrawMax), n, DrawMax) IN
            k.start + k.row = at.start + at.row /\ k.row > 0
        BY <1>3, <2>2, <3>1, <3>3, BannerGoes
      <4> QED
        BY <1>3, <3>2, <4>1
  <2> QED
    BY <2>1, <2>2
<1> QED
  BY <1>2, <1>6, <1>7, <1>8

\* Pausing and going on keep the process that is selected.
THEOREM PauseStands == ProcViewSpec => PauseKeepsSelection
BY ViewInvariant, PauseStepHolds, PTL DEF ProcViewSpec, PauseKeepsSelection, PauseStep

---------------------------------------------------------------------------
(* TextEdit: the bytes of a line, for all characters of one to four bytes. *)

Byte == Characters \X (1 .. 4)

\* t has the characters of s, and o their places: character i follows byte
\* o[i - 1] and ends with byte o[i].
Spells(s, o, t) ==
  /\ s \in Seq(Characters) /\ t \in Seq(Byte)
  /\ o \in [0 .. Len(s) -> Nat] /\ o[0] = 0 /\ o[Len(s)] = Len(t)
  /\ \A i \in 1 .. Len(s) :
       /\ o[i] = o[i - 1] + Width[s[i]]
       /\ \A k \in 1 .. Width[s[i]] : t[o[i - 1] + k] = <<s[i], k>>

LEMMA WidthIs == \A c \in Characters : Width[c] \in 1 .. 4
BY TextEditAssumption

LEMMA SpellsTypes ==
  ASSUME NEW s, NEW o, NEW t, Spells(s, o, t)
  PROVE  /\ Len(s) \in Nat /\ Len(t) \in Nat /\ DOMAIN t = 1 .. Len(t)
         /\ o[0] = 0 /\ o[Len(s)] = Len(t)
         /\ \A k \in 0 .. Len(s) : o[k] \in Nat
         /\ \A i \in 1 .. Len(s) : s[i] \in Characters /\ Width[s[i]] \in 1 .. 4
<1>1. s \in Seq(Characters) /\ t \in Seq(Byte) /\ o \in [0 .. Len(s) -> Nat]
  BY DEF Spells
<1>2. o[0] = 0 /\ o[Len(s)] = Len(t)
  BY DEF Spells
<1>3. \A i \in 1 .. Len(s) : s[i] \in Characters
  BY <1>1
<1> QED  BY <1>1, <1>2, <1>3, WidthIs

\* The bytes of a character are behind those before it.
LEMMA ByteIn ==
  ASSUME NEW a \in Nat, NEW b \in Nat, NEW c \in Nat, NEW w \in 1 .. 4, NEW k \in 1 .. w,
         b = a + w, b <= c
  PROVE  a + k \in 1 .. c
OBVIOUS

\* The places rise.
LEMMA Rising ==
  ASSUME NEW s, NEW o, NEW t, Spells(s, o, t),
         NEW i \in 0 .. Len(s), NEW j \in 0 .. Len(s), i < j
  PROVE  o[i] < o[j]
<1> DEFINE Fails == {k \in 0 .. Len(s) : i < k /\ ~ o[i] < o[k]}
<1>1. Len(s) \in Nat /\ \A k \in 0 .. Len(s) : o[k] \in Nat
  BY SpellsTypes
<1>2. Fails = {}
  <2> SUFFICES ASSUME Fails # {} PROVE FALSE
    OBVIOUS
  <2>1. Fails \subseteq Nat
    BY <1>1
  <2>2. PICK k \in Fails : \A l \in Fails : k <= l
    <3> HIDE DEF Fails
    <3> QED  BY <2>1, LeastNatural
  <2>3. k \in 1 .. Len(s) /\ i < k /\ ~ o[i] < o[k] /\ k - 1 \in 0 .. Len(s) /\ ~ k <= k - 1
    BY <1>1
  <2>4. k - 1 \notin Fails
    <3> HIDE DEF Fails
    <3> QED  BY <2>2, <2>3
  <2>5. i = k - 1 \/ o[i] < o[k - 1]
    BY <2>3, <2>4
  <2>6. o[k] = o[k - 1] + Width[s[k]] /\ Width[s[k]] \in 1 .. 4
    BY <2>3, SpellsTypes DEF Spells
  <2>7. o[k - 1] \in Nat /\ o[k - 1] < o[k] /\ o[i] \in Nat
    <3>1. o[k - 1] \in Nat /\ o[i] \in Nat
      BY <1>1, <2>3
    <3>2. \A a, b \in Nat, w \in 1 .. 4 : b = a + w => a < b
      OBVIOUS
    <3>3. o[k] \in Nat
      BY <1>1, <2>3
    <3> QED  BY <2>6, <3>1, <3>2, <3>3
  <2> QED  BY <1>1, <2>3, <2>5, <2>7
<1> QED  BY <1>2

\* Every byte belongs to a character.
LEMMA BlockOf ==
  ASSUME NEW s, NEW o, NEW t, Spells(s, o, t), NEW n \in 1 .. Len(t)
  PROVE  \E i \in 1 .. Len(s) : \E k \in 1 .. Width[s[i]] : n = o[i - 1] + k
<1> DEFINE Far == {i \in 0 .. Len(s) : n <= o[i]}
<1>1. /\ Len(s) \in Nat /\ Len(t) \in Nat /\ o[0] = 0 /\ o[Len(s)] = Len(t)
      /\ \A k \in 0 .. Len(s) : o[k] \in Nat
  BY SpellsTypes
<1>2. Far \subseteq Nat /\ Len(s) \in Far
  BY <1>1
<1>3. PICK i \in Far : \A l \in Far : i <= l
  <2> HIDE DEF Far
  <2> QED  BY <1>2, LeastNatural
<1>4. i \in 1 .. Len(s) /\ n <= o[i] /\ i - 1 \in 0 .. Len(s) /\ ~ i <= i - 1
  BY <1>1
<1>5. o[i - 1] < n
  <2>1. i - 1 \notin Far
    <3> HIDE DEF Far
    <3> QED  BY <1>3, <1>4
  <2> QED  BY <1>1, <1>4, <2>1
<1>6. o[i] = o[i - 1] + Width[s[i]] /\ s[i] \in Characters
  BY <1>4 DEF Spells
<1>7. Width[s[i]] \in Nat
  BY <1>6, WidthIs
<1>8. n - o[i - 1] \in 1 .. Width[s[i]] /\ n = o[i - 1] + (n - o[i - 1])
  <2>1. o[i - 1] \in Nat /\ o[i] \in Nat
    BY <1>1, <1>4
  <2>2. \A a, b, c, w \in Nat : a < c /\ c <= b /\ b = a + w => c - a \in 1 .. w /\ c = a + (c - a)
    OBVIOUS
  <2>3. n \in Nat
    BY <1>1
  <2> QED  BY <1>4, <1>5, <1>6, <1>7, <2>1, <2>2, <2>3
<1> QED  BY <1>4, <1>8

\* The first bytes are those behind a place.
LEMMA LeadsAre ==
  ASSUME NEW s, NEW o, NEW t, Spells(s, o, t)
  PROVE  /\ Leads(t) = {o[i - 1] + 1 : i \in 1 .. Len(s)}
         /\ \A i \in 1 .. Len(s) : o[i - 1] + 1 \in 1 .. Len(t) /\ t[o[i - 1] + 1] = <<s[i], 1>>
<1>1. /\ Len(s) \in Nat /\ Len(t) \in Nat /\ o[Len(s)] = Len(t) /\ DOMAIN t = 1 .. Len(t)
      /\ \A k \in 0 .. Len(s) : o[k] \in Nat
  BY SpellsTypes
<1>2. ASSUME NEW i \in 1 .. Len(s)
      PROVE  o[i - 1] + 1 \in 1 .. Len(t) /\ t[o[i - 1] + 1] = <<s[i], 1>>
  <2>1. i - 1 \in 0 .. Len(s) /\ Len(s) \in 0 .. Len(s) /\ i - 1 < Len(s) /\ s[i] \in Characters
    BY <1>1 DEF Spells
  <2>2. o[i - 1] < o[Len(s)]
    BY <2>1, Rising
  <2>3. 1 \in 1 .. Width[s[i]]
    BY <2>1, WidthIs
  <2> QED  BY <1>1, <2>1, <2>2, <2>3 DEF Spells
<1>3. ASSUME NEW n \in Leads(t) PROVE \E i \in 1 .. Len(s) : n = o[i - 1] + 1
  <2>1. n \in 1 .. Len(t) /\ t[n][2] = 1
    BY <1>1 DEF Leads
  <2>2. PICK i \in 1 .. Len(s) : \E k \in 1 .. Width[s[i]] : n = o[i - 1] + k
    BY <2>1, BlockOf
  <2>3. PICK k \in 1 .. Width[s[i]] : n = o[i - 1] + k
    BY <2>2
  <2>4. t[n] = <<s[i], k>>
    BY <2>3 DEF Spells
  <2> QED  BY <2>1, <2>3, <2>4
<1>4. ASSUME NEW i \in 1 .. Len(s) PROVE o[i - 1] + 1 \in Leads(t)
  BY <1>1, <1>2 DEF Leads
<1> QED  BY <1>2, <1>3, <1>4

\* The first i of them.
LEMMA CountLeads ==
  ASSUME NEW s, NEW o, NEW t, Spells(s, o, t), NEW i \in 0 .. Len(s)
  PROVE  Cardinality({o[j - 1] + 1 : j \in 1 .. i}) = i
<1> DEFINE S == {o[j - 1] + 1 : j \in 1 .. i}
           f == [j \in 1 .. i |-> o[j - 1] + 1]
<1>1. Len(s) \in Nat /\ i \in Nat /\ \A k \in 0 .. Len(s) : o[k] \in Nat
  BY SpellsTypes
<1>2. ASSUME NEW a \in 1 .. i, NEW b \in 1 .. i, o[a - 1] + 1 = o[b - 1] + 1 PROVE a = b
  <2>1. a - 1 \in 0 .. Len(s) /\ b - 1 \in 0 .. Len(s)
    BY <1>1
  <2>3. o[a - 1] = o[b - 1]
    <3>1. o[a - 1] \in Nat /\ o[b - 1] \in Nat
      BY <1>1, <2>1
    <3>2. \A x, y \in Nat : x + 1 = y + 1 => x = y
      OBVIOUS
    <3> QED  BY <1>2, <3>1, <3>2
  <2>4. ASSUME a - 1 < b - 1 PROVE FALSE
    <3>1. o[a - 1] < o[b - 1]
      BY <2>1, <2>4, Rising
    <3> QED  BY <1>1, <2>1, <2>3, <3>1
  <2>5. ASSUME b - 1 < a - 1 PROVE FALSE
    <3>1. o[b - 1] < o[a - 1]
      BY <2>1, <2>5, Rising
    <3> QED  BY <1>1, <2>1, <2>3, <3>1
  <2>2. ~ a - 1 < b - 1 /\ ~ b - 1 < a - 1
    BY <2>4, <2>5
  <2> QED  BY <2>1, <2>2
<1>3. f \in Bijection(1 .. i, S)
  BY <1>2 DEF Bijection, Injection, Surjection, IsInjective
<1>4. IsFiniteSet(1 .. i) /\ Cardinality(1 .. i) = i
  <2>1. Cardinality(1 .. i) = IF 1 > i THEN 0 ELSE i - 1 + 1
    BY <1>1, FS_Interval
  <2> QED  BY <1>1, <2>1, FS_Interval
<1> HIDE DEF f, S
<1>5. Cardinality(S) = Cardinality(1 .. i)
  BY <1>3, <1>4, FS_Bijection DEF ExistsBijection
<1> QED  BY <1>4, <1>5 DEF S

---------------------------------------------------------------------------
(* Parts of a text that is spelled.                                        *)

\* ulen(), and how many characters begin up to the first byte of one.
LEMMA ULenIs ==
  ASSUME NEW s, NEW o, NEW t, Spells(s, o, t)
  PROVE  /\ ULen(t) = Len(s)
         /\ \A i \in 1 .. Len(s) : ULen(SubSeq(t, 1, o[i - 1] + 1)) = i
<1>1. /\ Len(s) \in Nat /\ Len(t) \in Nat /\ DOMAIN t = 1 .. Len(t) /\ t \in Seq(Byte)
      /\ \A k \in 0 .. Len(s) : o[k] \in Nat
  BY SpellsTypes DEF Spells
<1>2. /\ Leads(t) = {o[j - 1] + 1 : j \in 1 .. Len(s)}
      /\ \A j \in 1 .. Len(s) : o[j - 1] + 1 \in 1 .. Len(t)
  BY LeadsAre
<1>3. ULen(t) = Len(s)
  <2>1. Len(s) \in 0 .. Len(s)
    BY <1>1
  <2>2. Cardinality({o[j - 1] + 1 : j \in 1 .. Len(s)}) = Len(s)
    BY <2>1, CountLeads
  <2> QED  BY <1>2, <2>2 DEF ULen
<1>4. ASSUME NEW i \in 1 .. Len(s) PROVE ULen(SubSeq(t, 1, o[i - 1] + 1)) = i
  <2> DEFINE n == o[i - 1] + 1
             q == SubSeq(t, 1, n)
  <2>1. n \in 1 .. Len(t)
    BY <1>2
  <2>2. DOMAIN q = 1 .. n /\ \A m \in 1 .. n : q[m] = t[m]
    BY <1>1, <2>1
  <2>3. Leads(q) = {m \in Leads(t) : m <= n}
    <3> HIDE DEF q, n
    <3> QED  BY <1>1, <2>1, <2>2 DEF Leads
  <2>4. {m \in Leads(t) : m <= n} = {o[j - 1] + 1 : j \in 1 .. i}
    <3>1. ASSUME NEW j \in 1 .. Len(s) PROVE o[j - 1] + 1 <= n <=> j <= i
      <4>1. j - 1 \in 0 .. Len(s) /\ i - 1 \in 0 .. Len(s) /\ o[j - 1] \in Nat /\ o[i - 1] \in Nat
        BY <1>1
      <4>2. CASE j - 1 < i - 1
        <5>1. o[j - 1] < o[i - 1]
          BY <4>1, <4>2, Rising
        <5> QED  BY <4>1, <4>2, <5>1
      <4>3. CASE i - 1 < j - 1
        <5>1. o[i - 1] < o[j - 1]
          BY <4>1, <4>3, Rising
        <5> QED  BY <4>1, <4>3, <5>1
      <4>4. CASE i = j
        BY <4>1, <4>4
      <4> QED  BY <1>1, <4>2, <4>3, <4>4
    <3> HIDE DEF n
    <3>2. \A j \in 1 .. i : j \in 1 .. Len(s) /\ j <= i
      BY <1>1
    <3>3. \A j \in 1 .. Len(s) : j <= i => j \in 1 .. i
      BY <1>1
    <3> QED  BY <1>2, <3>1, <3>2, <3>3
  <2>5. i \in 0 .. Len(s)
    BY <1>1
  <2> QED  BY <2>3, <2>4, <2>5, CountLeads DEF ULen
<1> QED  BY <1>3, <1>4

\* Up to a place, from one on, and a text behind another.
LEMMA SpellsPrefix ==
  ASSUME NEW s, NEW o, NEW t, Spells(s, o, t), NEW i \in 0 .. Len(s)
  PROVE  Spells(SubSeq(s, 1, i), [j \in 0 .. i |-> o[j]], SubSeq(t, 1, o[i]))
<1>1. /\ Len(s) \in Nat /\ Len(t) \in Nat /\ t \in Seq(Byte) /\ s \in Seq(Characters)
      /\ o[0] = 0 /\ o[Len(s)] = Len(t)
      /\ \A k \in 0 .. Len(s) : o[k] \in Nat
  BY SpellsTypes DEF Spells
<1> DEFINE p == SubSeq(s, 1, i)
           h == [j \in 0 .. i |-> o[j]]
           q == SubSeq(t, 1, o[i])
<1>2. o[i] \in 0 .. Len(t)
  <2>1. CASE i = Len(s)
    BY <1>1, <2>1
  <2>2. CASE i < Len(s)
    <3>1. Len(s) \in 0 .. Len(s)
      BY <1>1
    <3>2. o[i] < o[Len(s)]
      BY <2>2, <3>1, Rising
    <3> QED  BY <1>1, <3>2
  <2> QED  BY <1>1, <2>1, <2>2
<1>3. p \in Seq(Characters) /\ Len(p) = i /\ \A j \in 1 .. i : p[j] = s[j]
  BY <1>1
<1>4. q \in Seq(Byte) /\ Len(q) = o[i] /\ \A n \in 1 .. o[i] : q[n] = t[n]
  BY <1>1, <1>2
<1>5. h \in [0 .. i -> Nat] /\ h[0] = 0 /\ h[i] = o[i]
  BY <1>1
<1>6. ASSUME NEW j \in 1 .. i
      PROVE  /\ h[j] = h[j - 1] + Width[p[j]]
             /\ \A k \in 1 .. Width[p[j]] : q[h[j - 1] + k] = <<p[j], k>>
  <2>1. /\ j \in 1 .. Len(s) /\ j - 1 \in 0 .. i /\ j \in 0 .. i
        /\ j - 1 \in 0 .. Len(s) /\ j \in 0 .. Len(s)
    BY <1>1
  <2>2. h[j] = o[j] /\ h[j - 1] = o[j - 1] /\ p[j] = s[j]
    BY <1>3, <2>1
  <2>3. o[j] = o[j - 1] + Width[s[j]] /\ Width[s[j]] \in 1 .. 4 /\ o[j] \in Nat /\ o[j - 1] \in Nat
    BY <1>1, <2>1, SpellsTypes DEF Spells
  <2>4. o[j] <= o[i] /\ o[i] \in Nat
    <3>1. CASE j = i
      BY <1>1, <2>1, <3>1
    <3>2. CASE j < i
      BY <1>1, <2>1, <3>2, Rising
    <3> QED  BY <1>1, <3>1, <3>2
  <2>5. ASSUME NEW k \in 1 .. Width[s[j]] PROVE q[o[j - 1] + k] = <<s[j], k>>
    <3>1. o[j - 1] + k \in 1 .. o[i]
      BY <2>3, <2>4, ByteIn
    <3>2. t[o[j - 1] + k] = <<s[j], k>>
      BY <2>1 DEF Spells
    <3> QED  BY <1>4, <3>1, <3>2
  <2> HIDE DEF h, p, q
  <2> QED  BY <2>2, <2>3, <2>5
<1> HIDE DEF h, p, q
<1>7. Spells(p, h, q)
  BY <1>3, <1>4, <1>5, <1>6 DEF Spells
<1> QED  BY <1>7 DEF h, p, q

LEMMA SpellsSuffix ==
  ASSUME NEW s, NEW o, NEW t, Spells(s, o, t), NEW i \in 0 .. Len(s)
  PROVE  Spells(SubSeq(s, i + 1, Len(s)), [j \in 0 .. Len(s) - i |-> o[i + j] - o[i]],
                SubSeq(t, o[i] + 1, Len(t)))
<1>1. /\ Len(s) \in Nat /\ Len(t) \in Nat /\ t \in Seq(Byte) /\ s \in Seq(Characters)
      /\ o[0] = 0 /\ o[Len(s)] = Len(t)
      /\ \A k \in 0 .. Len(s) : o[k] \in Nat
  BY SpellsTypes DEF Spells
<1> DEFINE m == Len(s) - i
           d == o[i]
           p == SubSeq(s, i + 1, Len(s))
           h == [j \in 0 .. m |-> o[i + j] - o[i]]
           q == SubSeq(t, d + 1, Len(t))
<1>2. m \in Nat /\ d \in Nat /\ \A j \in 0 .. m : i + j \in 0 .. Len(s)
  BY <1>1
<1>9. \A k \in 0 .. Len(s) : i <= k => d <= o[k]
  <2>1. ASSUME NEW k \in 0 .. Len(s), i <= k PROVE d <= o[k]
    <3>1. CASE i = k
      BY <1>1, <3>1
    <3>2. CASE i < k
      <4>1. o[i] < o[k]
        BY <3>2, Rising
      <4> QED  BY <1>1, <4>1
    <3> QED  BY <1>1, <2>1, <3>1, <3>2
  <2> QED  BY <2>1
<1>10. d <= Len(t) /\ i + m = Len(s)
  BY <1>1, <1>9
<1>3. p \in Seq(Characters) /\ Len(p) = m /\ \A j \in 1 .. m : p[j] = s[i + j]
  BY <1>1
<1>4. q \in Seq(Byte) /\ Len(q) = Len(t) - d /\ \A n \in 1 .. Len(t) - d : q[n] = t[d + n]
  <2> HIDE DEF d
  <2> QED  BY <1>1, <1>2, <1>10
<1>5. h \in [0 .. m -> Nat] /\ h[0] = 0 /\ h[m] = Len(t) - d
  <2>1. ASSUME NEW j \in 0 .. m PROVE o[i + j] - d \in Nat
    <3>1. i + j \in 0 .. Len(s) /\ i <= i + j
      BY <1>1
    <3>2. o[i + j] \in Nat /\ d <= o[i + j]
      BY <1>1, <1>9, <3>1
    <3> QED  BY <1>2, <3>2
  <2>2. h[0] = 0
    <3>1. 0 \in 0 .. m /\ i + 0 = i
      BY <1>1, <1>2
    <3>2. h[0] = o[i] - o[i]
      BY <3>1
    <3> QED  BY <1>1, <3>2
  <2>3. h[m] = Len(t) - d
    <3>1. m \in 0 .. m
      BY <1>2
    <3> QED  BY <1>1, <1>10, <3>1
  <2> QED  BY <2>1, <2>2, <2>3
<1>6. ASSUME NEW j \in 1 .. m
      PROVE  /\ h[j] = h[j - 1] + Width[p[j]]
             /\ \A k \in 1 .. Width[p[j]] : q[h[j - 1] + k] = <<p[j], k>>
  <2>1. /\ i + j \in 1 .. Len(s) /\ (i + j) - 1 \in 0 .. Len(s) /\ i + (j - 1) = (i + j) - 1
        /\ j \in 0 .. m /\ j - 1 \in 0 .. m /\ i <= (i + j) - 1
    BY <1>1, <1>2
  <2>2. h[j] = o[i + j] - d /\ h[j - 1] = o[(i + j) - 1] - d /\ p[j] = s[i + j]
    BY <1>3, <2>1
  <2> HIDE DEF h, p, q, d, m
  <2> DEFINE a == o[(i + j) - 1]
             b == o[i + j]
             w == Width[s[i + j]]
  <2>3. b = a + w /\ w \in 1 .. 4 /\ a \in Nat /\ b \in Nat /\ d <= a /\ b <= Len(t)
    <3>5. i + j \in 0 .. Len(s) /\ b = a + w
      <4>1. b = a + w
        BY <2>1 DEF Spells
      <4> HIDE DEF a, b, w
      <4> QED  BY <1>1, <2>1, <4>1
    <3>6. w \in 1 .. 4
      BY <2>1, SpellsTypes
    <3>7. a \in Nat /\ d <= a
      BY <1>1, <1>9, <2>1
    <3>1. b = a + w /\ w \in 1 .. 4 /\ a \in Nat /\ d <= a /\ i + j \in 0 .. Len(s)
      BY <3>5, <3>6, <3>7
    <3>2. b \in Nat
      BY <1>1, <3>1
    <3>3. CASE i + j = Len(s)
      <4>1. b = Len(t)
        BY <1>1, <3>3
      <4> HIDE DEF a, b, w
      <4> QED  BY <1>1, <3>1, <3>2, <4>1
    <3>4. CASE i + j < Len(s)
      <4>1. Len(s) \in 0 .. Len(s)
        BY <1>1
      <4>2. o[i + j] < o[Len(s)]
        BY <3>1, <3>4, <4>1, Rising
      <4> QED  BY <1>1, <3>1, <3>2, <4>2
    <3> QED  BY <1>1, <2>1, <3>3, <3>4
  <2>5. ASSUME NEW k \in 1 .. w PROVE q[(a - d) + k] = <<s[i + j], k>>
    <3>1. t[a + k] = <<s[i + j], k>>
      BY <2>1 DEF Spells
    <3> HIDE DEF a, b, w
    <3>2. (a - d) + k \in 1 .. Len(t) - d /\ d + ((a - d) + k) = a + k
      BY <1>1, <1>2, <2>3
    <3> QED  BY <1>4, <3>1, <3>2
  <2>6. b - d = (a - d) + w
    <3> HIDE DEF a, b, w
    <3> QED  BY <1>2, <2>3
  <2> QED  BY <2>2, <2>5, <2>6
<1> HIDE DEF h, p, q
<1>7. Spells(p, h, q)
  BY <1>3, <1>4, <1>5, <1>6 DEF Spells
<1> QED  BY <1>7 DEF h, p, q

LEMMA SpellsConcat ==
  ASSUME NEW s1, NEW o1, NEW t1, Spells(s1, o1, t1), NEW s2, NEW o2, NEW t2, Spells(s2, o2, t2)
  PROVE  Spells(s1 \o s2,
                [j \in 0 .. Len(s1) + Len(s2) |->
                   IF j <= Len(s1) THEN o1[j] ELSE Len(t1) + o2[j - Len(s1)]],
                t1 \o t2)
<1>1. /\ Len(s1) \in Nat /\ Len(t1) \in Nat /\ t1 \in Seq(Byte) /\ s1 \in Seq(Characters)
      /\ o1[0] = 0 /\ o1[Len(s1)] = Len(t1) /\ \A k \in 0 .. Len(s1) : o1[k] \in Nat
  BY SpellsTypes DEF Spells
<1>2. /\ Len(s2) \in Nat /\ Len(t2) \in Nat /\ t2 \in Seq(Byte) /\ s2 \in Seq(Characters)
      /\ o2[0] = 0 /\ o2[Len(s2)] = Len(t2) /\ \A k \in 0 .. Len(s2) : o2[k] \in Nat
  BY SpellsTypes DEF Spells
<1> DEFINE a == Len(s1)
           b == Len(s2)
           m == Len(t1)
           p == s1 \o s2
           q == t1 \o t2
           h == [j \in 0 .. a + b |-> IF j <= a THEN o1[j] ELSE m + o2[j - a]]
<1>3. /\ p \in Seq(Characters) /\ Len(p) = a + b
      /\ \A j \in 1 .. a : p[j] = s1[j]
      /\ \A j \in 1 .. b : p[a + j] = s2[j]
  BY <1>1, <1>2
<1>4. /\ q \in Seq(Byte) /\ Len(q) = m + Len(t2)
      /\ \A n \in 1 .. m : q[n] = t1[n]
      /\ \A n \in 1 .. Len(t2) : q[m + n] = t2[n]
  BY <1>1, <1>2
<1>5. \A j \in 0 .. a : j \in 0 .. a + b /\ h[j] = o1[j]
  BY <1>1, <1>2
<1>6. \A j \in 0 .. b : a + j \in 0 .. a + b /\ h[a + j] = m + o2[j]
  <2>1. ASSUME NEW j \in 0 .. b PROVE a + j \in 0 .. a + b /\ h[a + j] = m + o2[j]
    <3>1. a + j \in 0 .. a + b /\ (a + j) - a = j
      BY <1>1, <1>2
    <3>2. CASE j = 0
      BY <1>1, <1>2, <3>1, <3>2
    <3>3. CASE j # 0
      <4>1. ~ a + j <= a
        BY <1>1, <1>2, <3>3
      <4> QED  BY <3>1, <4>1
    <3> QED  BY <3>2, <3>3
  <2> QED  BY <2>1
<1>7. h \in [0 .. a + b -> Nat]
  <2>1. ASSUME NEW j \in 0 .. a + b PROVE h[j] \in Nat
    <3>1. CASE j <= a
      BY <1>1, <1>2, <3>1
    <3>2. CASE ~ j <= a
      <4>1. j - a \in 0 .. b /\ a + (j - a) = j
        BY <1>1, <1>2, <3>2
      <4>2. h[j] = m + o2[j - a]
        BY <3>2
      <4>3. o2[j - a] \in Nat /\ m \in Nat
        BY <1>1, <1>2, <4>1
      <4> HIDE DEF h, m, a
      <4> QED  BY <4>2, <4>3
    <3> QED  BY <3>1, <3>2
  <2> QED  BY <2>1
<1>8. h[0] = 0 /\ h[a + b] = m + Len(t2)
  <2>1. 0 \in 0 .. a /\ b \in 0 .. b
    BY <1>1, <1>2
  <2> HIDE DEF h
  <2> QED  BY <1>1, <1>2, <1>5, <1>6, <2>1
<1>9. ASSUME NEW j \in 1 .. a
      PROVE  /\ h[j] = h[j - 1] + Width[p[j]]
             /\ \A k \in 1 .. Width[p[j]] : q[h[j - 1] + k] = <<p[j], k>>
  <2>1. j \in 0 .. a /\ j - 1 \in 0 .. a
    BY <1>1
  <2>2. /\ o1[j] = o1[j - 1] + Width[s1[j]]
        /\ \A k \in 1 .. Width[s1[j]] : t1[o1[j - 1] + k] = <<s1[j], k>>
        /\ Width[s1[j]] \in 1 .. 4
    BY SpellsTypes DEF Spells
  <2>3. \A k \in 1 .. Width[s1[j]] : o1[j - 1] + k \in 1 .. m
    <3>1. o1[j] <= m
      <4>1. CASE j = a
        BY <1>1, <4>1
      <4>2. CASE j < a
        <5>1. a \in 0 .. a
          BY <1>1
        <5>2. o1[j] < o1[a]
          BY <2>1, <4>2, <5>1, Rising
        <5> QED  BY <1>1, <2>1, <5>2
      <4> QED  BY <1>1, <4>1, <4>2
    <3>2. o1[j - 1] \in Nat /\ o1[j] \in Nat
      BY <1>1, <2>1
    <3> QED  BY <1>1, <2>2, <3>1, <3>2, ByteIn
  <2>4. h[j] = o1[j] /\ h[j - 1] = o1[j - 1] /\ p[j] = s1[j]
    BY <1>3, <1>5, <2>1
  <2>5. \A k \in 1 .. Width[s1[j]] : q[o1[j - 1] + k] = t1[o1[j - 1] + k]
    BY <1>4, <2>3
  <2> HIDE DEF h, p, q
  <2> QED  BY <2>2, <2>4, <2>5
<1>10. ASSUME NEW j \in 1 .. b
       PROVE  /\ h[a + j] = h[(a + j) - 1] + Width[p[a + j]]
              /\ \A k \in 1 .. Width[p[a + j]] : q[h[(a + j) - 1] + k] = <<p[a + j], k>>
  <2>1. j \in 0 .. b /\ j - 1 \in 0 .. b /\ a + (j - 1) = (a + j) - 1
    BY <1>1, <1>2
  <2>2. /\ o2[j] = o2[j - 1] + Width[s2[j]]
        /\ \A k \in 1 .. Width[s2[j]] : t2[o2[j - 1] + k] = <<s2[j], k>>
        /\ Width[s2[j]] \in 1 .. 4
    BY SpellsTypes DEF Spells
  <2>3. \A k \in 1 .. Width[s2[j]] : o2[j - 1] + k \in 1 .. Len(t2)
    <3>1. o2[j] <= Len(t2)
      <4>1. CASE j = b
        BY <1>2, <4>1
      <4>2. CASE j < b
        <5>1. b \in 0 .. b
          BY <1>2
        <5>2. o2[j] < o2[b]
          BY <2>1, <4>2, <5>1, Rising
        <5> QED  BY <1>2, <2>1, <5>2
      <4> QED  BY <1>2, <4>1, <4>2
    <3>2. o2[j - 1] \in Nat /\ o2[j] \in Nat
      BY <1>2, <2>1
    <3> QED  BY <1>2, <2>2, <3>1, <3>2, ByteIn
  <2>4. h[a + j] = m + o2[j] /\ h[(a + j) - 1] = m + o2[j - 1] /\ p[a + j] = s2[j]
    <3> HIDE DEF h, p
    <3>1. h[a + (j - 1)] = m + o2[j - 1]
      BY <1>6, <2>1
    <3> QED  BY <1>3, <1>6, <2>1, <3>1
  <2>5. o2[j - 1] \in Nat /\ m \in Nat
    BY <1>1, <1>2, <2>1
  <2> HIDE DEF h, p, q, m
  <2>6. m + o2[j] = (m + o2[j - 1]) + Width[s2[j]]
    BY <2>2, <2>5
  <2>7. \A k \in 1 .. Width[s2[j]] : (m + o2[j - 1]) + k = m + (o2[j - 1] + k)
    BY <2>2, <2>5
  <2>8. \A k \in 1 .. Width[s2[j]] : q[m + (o2[j - 1] + k)] = t2[o2[j - 1] + k]
    BY <1>4, <2>3
  <2>9. \A k \in 1 .. Width[s2[j]] : q[(m + o2[j - 1]) + k] = <<s2[j], k>>
    BY <2>2, <2>7, <2>8
  <2>10. h[a + j] = h[(a + j) - 1] + Width[p[a + j]]
    BY <2>2, <2>4, <2>6
  <2> QED  BY <2>4, <2>9, <2>10
<1>11. ASSUME NEW j \in 1 .. a + b
       PROVE  /\ h[j] = h[j - 1] + Width[p[j]]
              /\ \A k \in 1 .. Width[p[j]] : q[h[j - 1] + k] = <<p[j], k>>
  <2> HIDE DEF h, p, q
  <2>1. CASE j <= a
    <3>1. j \in 1 .. a
      BY <1>1, <2>1
    <3> QED  BY <1>9, <3>1
  <2>2. CASE ~ j <= a
    <3>1. j - a \in 1 .. b /\ a + (j - a) = j
      BY <1>1, <1>2, <2>2
    <3>2. /\ h[a + (j - a)] = h[(a + (j - a)) - 1] + Width[p[a + (j - a)]]
          /\ \A k \in 1 .. Width[p[a + (j - a)]] : q[h[(a + (j - a)) - 1] + k] = <<p[a + (j - a)], k>>
      BY <1>10, <3>1
    <3> QED  BY <3>1, <3>2
  <2> QED  BY <2>1, <2>2
<1>12. Spells(p, h, q)
  <2> HIDE DEF h, p, q
  <2> QED  BY <1>3, <1>4, <1>7, <1>8, <1>11 DEF Spells
<1> QED  BY <1>12

LEMMA SpellsOne ==
  ASSUME NEW c \in Characters
  PROVE  /\ Spells(<<c>>, [j \in 0 .. 1 |-> IF j = 0 THEN 0 ELSE Width[c]], Encode(c))
         /\ Len(Encode(c)) = Width[c]
<1> DEFINE o == [j \in 0 .. 1 |-> IF j = 0 THEN 0 ELSE Width[c]]
           t == Encode(c)
<1>1. Width[c] \in 1 .. 4
  BY WidthIs
<1>2. t \in Seq(Byte) /\ Len(t) = Width[c] /\ \A k \in 1 .. Width[c] : t[k] = <<c, k>>
  BY <1>1 DEF Encode, Byte
<1>3. <<c>> \in Seq(Characters) /\ Len(<<c>>) = 1 /\ <<c>>[1] = c
  OBVIOUS
<1>4. o \in [0 .. 1 -> Nat] /\ o[0] = 0 /\ o[1] = Width[c]
  BY <1>1
<1> HIDE DEF o, t
<1>5. ASSUME NEW i \in 1 .. 1
      PROVE  /\ o[i] = o[i - 1] + Width[<<c>>[i]]
             /\ \A k \in 1 .. Width[<<c>>[i]] : t[o[i - 1] + k] = <<<<c>>[i], k>>
  <2>1. i = 1 /\ i - 1 = 0 /\ <<c>>[i] = c
    BY <1>3
  <2>2. \A k \in 1 .. Width[c] : 0 + k = k
    BY <1>1
  <2> QED  BY <1>1, <1>2, <1>4, <2>1, <2>2
<1>6. Spells(<<c>>, o, t)
  BY <1>2, <1>3, <1>4, <1>5 DEF Spells
<1> QED  BY <1>2, <1>6 DEF o, t

\* What is spelled is what the characters are encoded to.
LEMMA EncodedIs ==
  ASSUME NEW s, NEW o, NEW t, Spells(s, o, t)
  PROVE  Encoded(s) = t
<1>1. /\ Len(s) \in Nat /\ Len(t) \in Nat /\ t \in Seq(Byte) /\ s \in Seq(Characters)
      /\ o[0] = 0 /\ o[Len(s)] = Len(t)
      /\ \A k \in 0 .. Len(s) : o[k] \in Nat
  BY SpellsTypes DEF Spells
<1> DEFINE Body(g) == [n \in 0 .. Len(s) |-> IF n = 0 THEN <<>> ELSE g[n - 1] \o Encode(s[n])]
           f == [n \in 0 .. Len(s) |-> SubSeq(t, 1, o[n])]
           up == CHOOSE g : g = Body(g)
<1>2. \A n \in 0 .. Len(s) : o[n] <= Len(t)
  <2>1. ASSUME NEW n \in 0 .. Len(s) PROVE o[n] <= Len(t)
    <3>1. CASE n = Len(s)
      BY <1>1, <3>1
    <3>2. CASE n < Len(s)
      <4>1. Len(s) \in 0 .. Len(s)
        BY <1>1
      <4>2. o[n] < o[Len(s)]
        BY <3>2, <4>1, Rising
      <4> QED  BY <1>1, <4>2
    <3> QED  BY <1>1, <3>1, <3>2
  <2> QED  BY <2>1
<1>3. f = Body(f)
  <2>1. ASSUME NEW n \in 1 .. Len(s)
        PROVE  SubSeq(t, 1, o[n]) = SubSeq(t, 1, o[n - 1]) \o Encode(s[n])
    <3>1. n - 1 \in 0 .. Len(s) /\ n \in 0 .. Len(s)
      BY <1>1
    <3> DEFINE x == o[n - 1]
               y == o[n]
               w == Width[s[n]]
               e == Encode(s[n])
    <3>2. y = x + w /\ w \in 1 .. 4 /\ x \in Nat /\ y \in Nat /\ y <= Len(t)
      <4>1. y = x + w
        BY DEF Spells
      <4>2. w \in 1 .. 4
        BY SpellsTypes
      <4> QED  BY <1>1, <1>2, <3>1, <4>1, <4>2
    <3>3. \A k \in 1 .. w : t[x + k] = <<s[n], k>>
      BY DEF Spells
    <3>4. e \in Seq(Byte) /\ Len(e) = w /\ \A k \in 1 .. w : e[k] = <<s[n], k>>
      <4>1. s[n] \in Characters
        BY SpellsTypes
      <4>2. e \in Seq(Byte)
        BY <4>1, SpellsOne DEF Spells
      <4>3. Len(e) = w
        BY <4>1, SpellsOne
      <4>4. \A k \in 1 .. w : e[k] = <<s[n], k>>
        BY DEF Encode
      <4> QED  BY <4>2, <4>3, <4>4
    <3> HIDE DEF x, y, w, e
    <3>5. /\ SubSeq(t, 1, y) \in Seq(Byte) /\ Len(SubSeq(t, 1, y)) = y
          /\ \A k \in 1 .. y : SubSeq(t, 1, y)[k] = t[k]
      BY <1>1, <3>2
    <3>6. /\ SubSeq(t, 1, x) \in Seq(Byte) /\ Len(SubSeq(t, 1, x)) = x
          /\ \A k \in 1 .. x : SubSeq(t, 1, x)[k] = t[k]
      BY <1>1, <3>2
    <3> DEFINE q == SubSeq(t, 1, x) \o e
    <3>7. /\ q \in Seq(Byte) /\ Len(q) = x + w
          /\ \A k \in 1 .. x : q[k] = t[k]
          /\ \A k \in 1 .. w : q[x + k] = e[k]
      <4> DEFINE q1 == SubSeq(t, 1, x)
      <4>1. q1 \in Seq(Byte) /\ Len(q1) = x /\ \A k \in 1 .. x : q1[k] = t[k]
        BY <3>6
      <4> HIDE DEF q1
      <4>2. /\ q1 \o e \in Seq(Byte) /\ Len(q1 \o e) = x + w
            /\ \A k \in 1 .. x : (q1 \o e)[k] = t[k]
            /\ \A k \in 1 .. w : (q1 \o e)[x + k] = e[k]
        BY <3>2, <3>4, <4>1
      <4> QED  BY <4>2 DEF q1
    <3> HIDE DEF q
    <3>8. \A k \in 1 .. y : q[k] = t[k]
      <4>1. ASSUME NEW k \in 1 .. y PROVE q[k] = t[k]
        <5>1. CASE k <= x
          BY <3>2, <3>7, <5>1
        <5>2. CASE ~ k <= x
          <6>1. k - x \in 1 .. w /\ x + (k - x) = k
            BY <3>2, <5>2
          <6>2. q[x + (k - x)] = <<s[n], k - x>> /\ t[x + (k - x)] = <<s[n], k - x>>
            BY <3>3, <3>4, <3>7, <6>1
          <6> QED  BY <6>1, <6>2
        <5> QED  BY <5>1, <5>2
      <4> QED  BY <4>1
    <3>9. SubSeq(t, 1, y) = q
      <4> DEFINE q2 == SubSeq(t, 1, y)
      <4>1. q2 \in Seq(Byte) /\ Len(q2) = y /\ \A k \in 1 .. y : q2[k] = t[k]
        BY <3>5
      <4> HIDE DEF q2
      <4>2. Len(q2) = Len(q) /\ \A k \in 1 .. Len(q2) : q2[k] = q[k]
        BY <3>2, <3>7, <3>8, <4>1
      <4>3. q2 = q
        BY <3>7, <4>1, <4>2, SeqEqual
      <4> QED  BY <4>3 DEF q2
    <3> QED  BY <3>9 DEF q, x, y, e
  <2>2. SubSeq(t, 1, o[0]) = <<>>
    BY <1>1
  <2>3. ASSUME NEW n \in 0 .. Len(s)
        PROVE  f[n] = IF n = 0 THEN <<>> ELSE f[n - 1] \o Encode(s[n])
    <3>1. CASE n = 0
      BY <2>2, <3>1
    <3>2. CASE n # 0
      <4>1. n \in 1 .. Len(s) /\ n - 1 \in 0 .. Len(s)
        BY <1>1, <3>2
      <4>2. f[n] = SubSeq(t, 1, o[n]) /\ f[n - 1] = SubSeq(t, 1, o[n - 1])
        BY <4>1
      <4> HIDE DEF f
      <4> QED  BY <2>1, <3>2, <4>1, <4>2
    <3> QED  BY <3>1, <3>2
  <2> QED  BY <2>3
<1>4. up = Body(up)
  <2> HIDE DEF f, Body
  <2> QED  BY <1>3
<1>5. up[Len(s)] = f[Len(s)]
  <2>1. \A n \in 0 .. Len(s) : up[n] = IF n = 0 THEN <<>> ELSE up[n - 1] \o Encode(s[n])
    <3> HIDE DEF up
    <3> QED  BY <1>4
  <2>2. \A n \in 0 .. Len(s) : f[n] = IF n = 0 THEN <<>> ELSE f[n - 1] \o Encode(s[n])
    <3> HIDE DEF f
    <3> QED  BY <1>3
  <2> DEFINE Differ == {n \in 0 .. Len(s) : up[n] # f[n]}
  <2> HIDE DEF up, f
  <2> SUFFICES ASSUME Differ # {} PROVE FALSE
    BY <1>1
  <2>3. Differ \subseteq Nat
    BY <1>1
  <2>4. PICK n \in Differ : \A l \in Differ : n <= l
    <3> HIDE DEF Differ
    <3> QED  BY <2>3, LeastNatural
  <2>5. n # 0
    BY <2>1, <2>2
  <2>6. n \in 1 .. Len(s) /\ n - 1 \in 0 .. Len(s) /\ ~ n <= n - 1
    BY <1>1, <2>5
  <2>7. up[n - 1] = f[n - 1]
    BY <2>4, <2>6
  <2> QED  BY <2>1, <2>2, <2>5, <2>7
<1>6. f[Len(s)] = t
  <2>1. Len(s) \in 0 .. Len(s) /\ SubSeq(t, 1, Len(t)) = t
    BY <1>1
  <2> QED  BY <1>1, <2>1
<1>7. Encoded(s) = up[Len(s)]
  BY DEF Encoded
<1> HIDE DEF up, f
<1> QED  BY <1>5, <1>6, <1>7

\* What Spelled reads in the bytes t.
SpelledBy(t) ==
  [n \in 1 .. ULen(t) |-> t[CHOOSE i \in Leads(t) : ULen(SubSeq(t, 1, i)) = n][1]]

\* The characters read back from the bytes are those that were spelled.
LEMMA SpelledIs ==
  ASSUME NEW s, NEW o, NEW t, Spells(s, o, t)
  PROVE  SpelledBy(t) = s
<1>1. ULen(t) = Len(s) /\ s \in Seq(Characters)
  BY ULenIs DEF Spells
<1>2. ASSUME NEW n \in 1 .. Len(s)
      PROVE  t[CHOOSE i \in Leads(t) : ULen(SubSeq(t, 1, i)) = n][1] = s[n]
  <2> DEFINE L == CHOOSE i \in Leads(t) : ULen(SubSeq(t, 1, i)) = n
  <2>1. o[n - 1] + 1 \in Leads(t) /\ ULen(SubSeq(t, 1, o[n - 1] + 1)) = n
    BY LeadsAre, ULenIs
  <2>2. L \in Leads(t) /\ ULen(SubSeq(t, 1, L)) = n
    BY <2>1
  <2> HIDE DEF L
  <2>3. PICK j \in 1 .. Len(s) : L = o[j - 1] + 1
    BY <2>2, LeadsAre
  <2>4. ULen(SubSeq(t, 1, o[j - 1] + 1)) = j
    BY ULenIs
  <2>5. L = o[n - 1] + 1
    BY <2>2, <2>3, <2>4
  <2>6. t[o[n - 1] + 1] = <<s[n], 1>>
    BY LeadsAre
  <2>7. t[L][1] = s[n]
    BY <2>5, <2>6
  <2> QED  BY <2>7 DEF L
<1>3. s = [n \in 1 .. Len(s) |-> s[n]]
  BY <1>1
<1> QED  BY <1>1, <1>2, <1>3 DEF SpelledBy

\* uresize() keeps the first len characters.
LEMMA UResizeIs ==
  ASSUME NEW s, NEW o, NEW t, Spells(s, o, t), NEW len \in 0 .. Len(s)
  PROVE  UResize(t, len) = SubSeq(t, 1, o[len])
<1>1. /\ Len(s) \in Nat /\ Len(t) \in Nat /\ t \in Seq(Byte)
      /\ o[0] = 0 /\ o[Len(s)] = Len(t) /\ \A k \in 0 .. Len(s) : o[k] \in Nat
  BY SpellsTypes DEF Spells
<1> DEFINE past == {n \in Leads(t) : ULen(SubSeq(t, 1, n)) > len}
<1>2. past = {o[i - 1] + 1 : i \in {i \in 1 .. Len(s) : i > len}}
  <2>1. Leads(t) = {o[i - 1] + 1 : i \in 1 .. Len(s)}
    BY LeadsAre
  <2>2. \A i \in 1 .. Len(s) : ULen(SubSeq(t, 1, o[i - 1] + 1)) = i
    BY ULenIs
  <2> QED  BY <2>1, <2>2
<1>3. CASE len = 0
  <2>1. UResize(t, len) = <<>>
    BY <1>3 DEF UResize
  <2>2. SubSeq(t, 1, 0) = <<>>
    BY <1>1
  <2> QED  BY <1>1, <1>3, <2>1, <2>2
<1>4. CASE len # 0 /\ len = Len(s)
  <2>1. past = {}
    BY <1>1, <1>2, <1>4
  <2>2. ~ len < 1
    BY <1>1, <1>4
  <2>3. UResize(t, len) = t
    BY <2>1, <2>2 DEF UResize
  <2>4. SubSeq(t, 1, Len(t)) = t
    BY <1>1
  <2> QED  BY <1>1, <1>4, <2>3, <2>4
<1>5. CASE len # 0 /\ len # Len(s)
  <2>1. len + 1 \in 1 .. Len(s) /\ len + 1 > len /\ (len + 1) - 1 = len /\ ~ len < 1 /\ o[len] \in Nat
    BY <1>1, <1>5
  <2>2. o[len] + 1 \in past
    BY <1>2, <2>1
  <2>3. ASSUME NEW n \in past PROVE n \in Int /\ o[len] + 1 <= n
    <3>1. PICK i \in 1 .. Len(s) : i > len /\ n = o[i - 1] + 1
      BY <1>2
    <3>2. i - 1 \in 0 .. Len(s) /\ (i - 1 = len \/ len < i - 1) /\ o[i - 1] \in Nat
      BY <1>1, <3>1
    <3>3. o[len] <= o[i - 1]
      BY <2>1, <3>2, Rising
    <3> QED  BY <2>1, <3>1, <3>2, <3>3
  <2> HIDE DEF past
  <2>4. Min(past) = o[len] + 1
    <3>1. \E x \in past : \A y \in past : x <= y
      BY <2>2, <2>3
    <3> DEFINE z == CHOOSE x \in past : \A y \in past : x <= y
    <3>2. z \in past /\ \A y \in past : z <= y
      BY <3>1
    <3>3. Min(past) = z
      BY DEF Min
    <3> HIDE DEF z
    <3> QED  BY <2>1, <2>2, <2>3, <3>2, <3>3
  <2>5. Min(past) - 1 = o[len] /\ past # {}
    BY <2>1, <2>2, <2>4
  <2> QED  BY <2>1, <2>5 DEF UResize, past
<1> QED  BY <1>3, <1>4, <1>5

\* luresize() keeps the last len characters, where there are more.
LEMMA LUResizeIs ==
  ASSUME NEW s, NEW o, NEW t, Spells(s, o, t), NEW len \in 1 .. Len(s) - 1
  PROVE  LUResize(t, len) = SubSeq(t, o[Len(s) - len] + 1, Len(t))
<1>1. /\ Len(s) \in Nat /\ Len(t) \in Nat /\ t \in Seq(Byte) /\ s \in Seq(Characters)
      /\ o[0] = 0 /\ o[Len(s)] = Len(t) /\ \A k \in 0 .. Len(s) : o[k] \in Nat
  BY SpellsTypes DEF Spells
<1> DEFINE from == {n \in Leads(t) \ {1} : ULen(SubSeq(t, n, Len(t))) >= len}
           d == Len(s) - len
<1>2. d \in 1 .. Len(s) - 1 /\ len \in Nat
  BY <1>1
<1>3. ASSUME NEW i \in 1 .. Len(s)
      PROVE  ULen(SubSeq(t, o[i - 1] + 1, Len(t))) = Len(s) - (i - 1)
  <2>1. i - 1 \in 0 .. Len(s)
    BY <1>1
  <2> DEFINE p == SubSeq(s, (i - 1) + 1, Len(s))
             h == [j \in 0 .. Len(s) - (i - 1) |-> o[(i - 1) + j] - o[i - 1]]
             q == SubSeq(t, o[i - 1] + 1, Len(t))
  <2>2. Spells(p, h, q)
    BY <2>1, SpellsSuffix
  <2>3. Len(p) = Len(s) - (i - 1)
    BY <1>1
  <2> HIDE DEF p, h, q
  <2>4. ULen(q) = Len(p)
    BY <2>2, ULenIs
  <2> QED  BY <2>3, <2>4 DEF q
<1>4. from = {o[i - 1] + 1 : i \in {i \in 1 .. Len(s) : i # 1 /\ i <= d + 1}}
  <2>1. Leads(t) = {o[i - 1] + 1 : i \in 1 .. Len(s)}
    BY LeadsAre
  <2>2. ASSUME NEW i \in 1 .. Len(s) PROVE o[i - 1] + 1 # 1 <=> i # 1
    <3>1. CASE i = 1
      BY <1>1, <3>1
    <3>2. CASE i # 1
      <4>1. 0 \in 0 .. Len(s) /\ i - 1 \in 0 .. Len(s) /\ 0 < i - 1
        BY <1>1, <3>2
      <4>2. o[0] < o[i - 1]
        BY <4>1, Rising
      <4> QED  BY <1>1, <3>2, <4>1, <4>2
    <3> QED  BY <3>1, <3>2
  <2>3. ASSUME NEW i \in 1 .. Len(s)
        PROVE  ULen(SubSeq(t, o[i - 1] + 1, Len(t))) >= len <=> i <= d + 1
    BY <1>1, <1>2, <1>3
  <2> HIDE DEF d
  <2> QED  BY <2>1, <2>2, <2>3
<1>5. /\ d + 1 \in 1 .. Len(s) /\ d + 1 # 1 /\ d + 1 <= d + 1 /\ (d + 1) - 1 = d
      /\ o[d] \in Nat /\ d \in 0 .. Len(s)
  BY <1>1, <1>2
<1>6. o[d] + 1 \in from
  <2> HIDE DEF d, from
  <2> QED  BY <1>4, <1>5
<1>7. ASSUME NEW n \in from PROVE n \in Int /\ n <= o[d] + 1
  <2> HIDE DEF from
  <2>1. PICK i \in 1 .. Len(s) : i <= d + 1 /\ n = o[i - 1] + 1
    BY <1>4
  <2> HIDE DEF d
  <2>2. i - 1 \in 0 .. Len(s) /\ (i - 1 = d \/ i - 1 < d) /\ o[i - 1] \in Nat
    BY <1>1, <1>5, <2>1
  <2>3. o[i - 1] <= o[d]
    BY <1>5, <2>2, Rising
  <2> QED  BY <1>5, <2>1, <2>2, <2>3
<1> HIDE DEF from
<1>8. Max(from) = o[d] + 1
  <2> HIDE DEF d
  <2>1. \E x \in from : \A y \in from : x >= y
    BY <1>5, <1>6, <1>7
  <2> DEFINE z == CHOOSE x \in from : \A y \in from : x >= y
  <2>2. z \in from /\ \A y \in from : z >= y
    BY <2>1
  <2>3. Max(from) = z
    BY DEF Max
  <2> HIDE DEF z
  <2> QED  BY <1>5, <1>6, <1>7, <2>2, <2>3
<1>9. ~ len < 1 /\ from # {}
  BY <1>2, <1>6
<1> QED  BY <1>8, <1>9 DEF LUResize, from

LEMMA PlacesIn ==
  ASSUME NEW s, NEW o, NEW t, Spells(s, o, t)
  PROVE  \A i \in 0 .. Len(s) :
           /\ o[i] \in 0 .. Len(t)
           /\ Len(SubSeq(t, 1, o[i])) = o[i]
           /\ i > 0 <=> o[i] > 0
           /\ i < Len(s) <=> o[i] < Len(t)
<1>1. /\ Len(s) \in Nat /\ Len(t) \in Nat /\ t \in Seq(Byte)
      /\ o[0] = 0 /\ o[Len(s)] = Len(t) /\ \A k \in 0 .. Len(s) : o[k] \in Nat
  BY SpellsTypes DEF Spells
<1>2. 0 \in 0 .. Len(s) /\ Len(s) \in 0 .. Len(s)
  BY <1>1
<1>3. ASSUME NEW i \in 0 .. Len(s)
      PROVE  o[i] \in 0 .. Len(t) /\ (i > 0 <=> o[i] > 0) /\ (i < Len(s) <=> o[i] < Len(t))
  <2>1. i > 0 => o[0] < o[i]
    BY <1>1, <1>2, Rising
  <2>2. i < Len(s) => o[i] < o[Len(s)]
    BY <1>1, <1>2, Rising
  <2>3. (i > 0 \/ i = 0) /\ (i < Len(s) \/ i = Len(s)) /\ o[i] \in Nat
    BY <1>1
  <2> QED  BY <1>1, <2>1, <2>2, <2>3
<1>4. \A n \in 0 .. Len(t) : Len(SubSeq(t, 1, n)) = n
  BY <1>1
<1> QED  BY <1>3, <1>4

\* Without the characters between two places.
LEMMA SpellsCut ==
  ASSUME NEW s, NEW o, NEW t, Spells(s, o, t), NEW i \in 0 .. Len(s), NEW j \in 0 .. Len(s)
  PROVE  \E o2 :
           /\ Spells(SubSeq(s, 1, i) \o SubSeq(s, j + 1, Len(s)), o2,
                     SubSeq(t, 1, o[i]) \o SubSeq(t, o[j] + 1, Len(t)))
           /\ o2[i] = o[i]
<1> DEFINE s1 == SubSeq(s, 1, i)
           o1 == [k \in 0 .. i |-> o[k]]
           t1 == SubSeq(t, 1, o[i])
           s2 == SubSeq(s, j + 1, Len(s))
           h2 == [k \in 0 .. Len(s) - j |-> o[j + k] - o[j]]
           t2 == SubSeq(t, o[j] + 1, Len(t))
           o2 == [k \in 0 .. Len(s1) + Len(s2) |->
                    IF k <= Len(s1) THEN o1[k] ELSE Len(t1) + h2[k - Len(s1)]]
<1>1. Spells(s1, o1, t1)
  BY SpellsPrefix
<1>2. Spells(s2, h2, t2)
  BY SpellsSuffix
<1>3. Len(s1) = i /\ i \in Nat /\ o1[i] = o[i] /\ Len(s2) \in Nat
  <2>1. s \in Seq(Characters) /\ Len(s) \in Nat
    BY SpellsTypes DEF Spells
  <2>2. Len(s1) = i /\ i \in Nat /\ i \in 0 .. i
    BY <2>1
  <2>3. Len(s2) \in Nat
    BY <1>2, SpellsTypes
  <2> QED  BY <2>2, <2>3
<1> HIDE DEF s1, o1, t1, s2, h2, t2
<1>4. Spells(s1 \o s2, o2, t1 \o t2)
  BY <1>1, <1>2, SpellsConcat
<1>5. o2[i] = o[i]
  BY <1>3
<1> HIDE DEF o2
<1>6. \E p : Spells(s1 \o s2, p, t1 \o t2) /\ p[i] = o[i]
  BY <1>4, <1>5
<1> QED  BY <1>6 DEF s1, t1, s2, t2

\* With a character put in at a place.
LEMMA SpellsPut ==
  ASSUME NEW s, NEW o, NEW t, Spells(s, o, t), NEW i \in 0 .. Len(s), NEW c \in Characters
  PROVE  \E o2 :
           /\ Spells((SubSeq(s, 1, i) \o <<c>>) \o SubSeq(s, i + 1, Len(s)), o2,
                     (SubSeq(t, 1, o[i]) \o Encode(c)) \o SubSeq(t, o[i] + 1, Len(t)))
           /\ o2[i + 1] = o[i] + Width[c]
<1> DEFINE s1 == SubSeq(s, 1, i)
           o1 == [k \in 0 .. i |-> o[k]]
           t1 == SubSeq(t, 1, o[i])
           oc == [k \in 0 .. 1 |-> IF k = 0 THEN 0 ELSE Width[c]]
           s2 == SubSeq(s, i + 1, Len(s))
           h2 == [k \in 0 .. Len(s) - i |-> o[i + k] - o[i]]
           t2 == SubSeq(t, o[i] + 1, Len(t))
           sc == s1 \o <<c>>
           tc == t1 \o Encode(c)
           ob == [k \in 0 .. Len(s1) + Len(<<c>>) |->
                    IF k <= Len(s1) THEN o1[k] ELSE Len(t1) + oc[k - Len(s1)]]
           o2 == [k \in 0 .. Len(sc) + Len(s2) |->
                    IF k <= Len(sc) THEN ob[k] ELSE Len(tc) + h2[k - Len(sc)]]
<1>1. Spells(s1, o1, t1)
  BY SpellsPrefix
<1>2. Spells(s2, h2, t2)
  BY SpellsSuffix
<1>3. Spells(<<c>>, oc, Encode(c))
  BY SpellsOne
<1>4. s \in Seq(Characters) /\ Len(s) \in Nat
  BY SpellsTypes DEF Spells
<1>5. s1 \in Seq(Characters) /\ Len(s1) = i /\ i \in Nat
  BY <1>4
<1>6. Len(t1) = o[i] /\ Len(s2) \in Nat
  BY <1>2, PlacesIn, SpellsTypes
<1> HIDE DEF s1, o1, t1, s2, h2, t2, oc
<1>7. Spells(sc, ob, tc)
  BY <1>1, <1>3, SpellsConcat
<1>8. Len(sc) = i + 1 /\ Len(<<c>>) = 1
  BY <1>5
<1>9. ob[i + 1] = o[i] + Width[c]
  <2>1. i + 1 \in 0 .. Len(s1) + Len(<<c>>) /\ ~ i + 1 <= Len(s1) /\ (i + 1) - Len(s1) = 1
    BY <1>5, <1>8
  <2>2. ob[i + 1] = Len(t1) + oc[(i + 1) - Len(s1)]
    BY <2>1
  <2>3. oc[1] = Width[c]
    BY DEF oc
  <2> QED  BY <1>6, <2>1, <2>2, <2>3
<1> HIDE DEF sc, tc, ob
<1>10. Spells(sc \o s2, o2, tc \o t2)
  BY <1>2, <1>7, SpellsConcat
<1>11. o2[i + 1] = o[i] + Width[c]
  <2>1. i + 1 \in 0 .. Len(sc) + Len(s2) /\ i + 1 <= Len(sc)
    BY <1>5, <1>6, <1>8
  <2> QED  BY <1>9, <2>1
<1> HIDE DEF o2
<1>12. \E p : Spells(sc \o s2, p, tc \o t2) /\ p[i + 1] = o[i] + Width[c]
  BY <1>10, <1>11
<1> QED  BY <1>12 DEF s1, t1, s2, t2, sc, tc

---------------------------------------------------------------------------
(* The keys.                                                               *)

\* The line holds the characters s, and the cursor is between the same two
\* of them in bytes and in characters.
Holds(s, o, t, p, u) == Spells(s, o, t) /\ u \in 0 .. Len(s) /\ p = o[u]

\* A key: what LineNext says, about values.
Key(l, c, l2, c2) ==
  \/ c2 \in {c - 1, c + 1, 0, Len(l)} \cap (0 .. Len(l)) /\ l2 = l
  \/ /\ \E ch \in Characters : l2 = Append(SubSeq(l, 1, c), ch) \o SubSeq(l, c + 1, Len(l))
     /\ c2 = c + 1
  \/ c > 0 /\ l2 = SubSeq(l, 1, c - 1) \o SubSeq(l, c + 1, Len(l)) /\ c2 = c - 1
  \/ c < Len(l) /\ l2 = SubSeq(l, 1, c) \o Tail(SubSeq(l, c + 1, Len(l))) /\ c2 = c

\* The line after a key from s holds what the key makes of s.
Keyed(s) == \E s2, o2 : Holds(s2, o2, text', pos', upos') /\ Key(s, upos, s2, upos')

LEMMA HoldsTypes ==
  ASSUME NEW s, NEW o, NEW p, NEW u, NEW t, Holds(s, o, t, p, u)
  PROVE  /\ Spells(s, o, t) /\ Len(s) \in Nat /\ Len(t) \in Nat /\ u \in 0 .. Len(s) /\ p = o[u]
         /\ s \in Seq(Characters) /\ t \in Seq(Byte)
         /\ p > 0 <=> u > 0
         /\ p < Len(t) <=> u < Len(s)
         /\ p \in 0 .. Len(t)
<1>1. Spells(s, o, t) /\ u \in 0 .. Len(s) /\ p = o[u]
  BY DEF Holds
<1>2. Len(s) \in Nat /\ Len(t) \in Nat
  BY <1>1, SpellsTypes
<1>3. /\ o[u] \in 0 .. Len(t)
      /\ u > 0 <=> o[u] > 0
      /\ u < Len(s) <=> o[u] < Len(t)
  BY <1>1, PlacesIn
<1>4. s \in Seq(Characters) /\ t \in Seq(Byte)
  BY <1>1 DEF Spells
<1> QED  BY <1>1, <1>2, <1>3, <1>4

LEMMA LeftIsAKey ==
  ASSUME NEW s, NEW o, Holds(s, o, text, pos, upos), Left
  PROVE  Keyed(s)
<1>1. /\ Spells(s, o, text) /\ Len(s) \in Nat /\ upos \in 0 .. Len(s)
  BY HoldsTypes
<1>2. upos > 0 /\ text' = text /\ pos' = Len(UResize(text, upos - 1)) /\ upos' = upos - 1
  BY DEF Left, Text
<1>3. upos - 1 \in 0 .. Len(s)
  BY <1>1, <1>2
<1>4. UResize(text, upos - 1) = SubSeq(text, 1, o[upos - 1])
  BY <1>1, <1>3, UResizeIs
<1>5. Len(SubSeq(text, 1, o[upos - 1])) = o[upos - 1]
  BY <1>1, <1>3, PlacesIn
<1>6. Holds(s, o, text', pos', upos')
  BY <1>1, <1>2, <1>3, <1>4, <1>5 DEF Holds
<1>7. Key(s, upos, s, upos')
  BY <1>2, <1>3 DEF Key
<1> QED  BY <1>6, <1>7 DEF Keyed

LEMMA RightIsAKey ==
  ASSUME NEW s, NEW o, Holds(s, o, text, pos, upos), Right
  PROVE  Keyed(s)
<1>1. /\ Spells(s, o, text) /\ Len(s) \in Nat /\ upos \in 0 .. Len(s)
      /\ pos < Len(text) <=> upos < Len(s)
  BY HoldsTypes
<1>2. pos < Len(text) /\ text' = text /\ pos' = Len(UResize(text, upos + 1)) /\ upos' = upos + 1
  BY DEF Right, Text
<1>3. upos + 1 \in 0 .. Len(s)
  BY <1>1, <1>2
<1>4. UResize(text, upos + 1) = SubSeq(text, 1, o[upos + 1])
  BY <1>1, <1>3, UResizeIs
<1>5. Len(SubSeq(text, 1, o[upos + 1])) = o[upos + 1]
  BY <1>1, <1>3, PlacesIn
<1>6. Holds(s, o, text', pos', upos')
  BY <1>1, <1>2, <1>3, <1>4, <1>5 DEF Holds
<1>7. Key(s, upos, s, upos')
  BY <1>2, <1>3 DEF Key
<1> QED  BY <1>6, <1>7 DEF Keyed

LEMMA HomeIsAKey ==
  ASSUME NEW s, NEW o, Holds(s, o, text, pos, upos), Home
  PROVE  Keyed(s)
<1>1. Spells(s, o, text) /\ Len(s) \in Nat /\ o[0] = 0
  BY HoldsTypes, SpellsTypes
<1>2. text' = text /\ pos' = 0 /\ upos' = 0
  BY DEF Home, Text
<1>3. 0 \in 0 .. Len(s)
  BY <1>1
<1>4. Holds(s, o, text', pos', upos')
  BY <1>1, <1>2, <1>3 DEF Holds
<1>5. Key(s, upos, s, upos')
  BY <1>2, <1>3 DEF Key
<1> QED  BY <1>4, <1>5 DEF Keyed

LEMMA EndIsAKey ==
  ASSUME NEW s, NEW o, Holds(s, o, text, pos, upos), End
  PROVE  Keyed(s)
<1>1. Spells(s, o, text) /\ Len(s) \in Nat /\ o[Len(s)] = Len(text)
  BY HoldsTypes, SpellsTypes
<1>2. text' = text /\ pos' = Len(text) /\ upos' = ULen(text)
  BY DEF End, Text
<1>3. ULen(text) = Len(s) /\ Len(s) \in 0 .. Len(s)
  BY <1>1, ULenIs
<1>4. Holds(s, o, text', pos', upos')
  BY <1>1, <1>2, <1>3 DEF Holds
<1>5. Key(s, upos, s, upos')
  BY <1>2, <1>3 DEF Key
<1> QED  BY <1>4, <1>5 DEF Keyed

LEMMA SuffixOfSuffix ==
  ASSUME NEW S, NEW t \in Seq(S), NEW a \in 0 .. Len(t), NEW b \in a .. Len(t)
  PROVE  SubSeq(SubSeq(t, a + 1, Len(t)), (b - a) + 1, Len(SubSeq(t, a + 1, Len(t))))
           = SubSeq(t, b + 1, Len(t))
<1> DEFINE q == SubSeq(t, a + 1, Len(t))
           r == SubSeq(t, b + 1, Len(t))
           x == SubSeq(q, (b - a) + 1, Len(q))
<1>1. Len(t) \in Nat /\ a \in Nat /\ b \in Nat /\ a <= b /\ b <= Len(t)
  OBVIOUS
<1>2. q \in Seq(S) /\ Len(q) = Len(t) - a /\ \A n \in 1 .. Len(t) - a : q[n] = t[a + n]
  BY <1>1
<1>3. r \in Seq(S) /\ Len(r) = Len(t) - b /\ \A n \in 1 .. Len(t) - b : r[n] = t[b + n]
  BY <1>1
<1> HIDE DEF q, r
<1>4. x \in Seq(S) /\ Len(x) = Len(t) - b /\ \A n \in 1 .. Len(t) - b : x[n] = q[(b - a) + n]
  <2> DEFINE k == (b - a) + 1
             l == Len(q)
  <2>1. /\ k \in 1 .. l + 1 /\ l \in k - 1 .. l /\ l - k + 1 = Len(t) - b
        /\ \A n \in 1 .. Len(t) - b : k + n - 1 = (b - a) + n
    BY <1>1, <1>2
  <2>2. q \in Seq(S) /\ l = Len(q) /\ k \in Int /\ l \in Int /\ k >= 1
    BY <1>1, <1>2
  <2> HIDE DEF k, l
  <2>3. /\ SubSeq(q, k, l) \in Seq(S) /\ Len(SubSeq(q, k, l)) = l - k + 1
        /\ \A n \in 1 .. l - k + 1 : SubSeq(q, k, l)[n] = q[k + n - 1]
    BY <2>1, <2>2, SubSeqProperties
  <2> QED  BY <2>1, <2>3 DEF k, l
<1> HIDE DEF x
<1>5. \A n \in 1 .. Len(t) - b : (b - a) + n \in 1 .. Len(t) - a /\ a + ((b - a) + n) = b + n
  BY <1>1
<1>6. \A n \in 1 .. Len(t) - b : x[n] = r[n]
  BY <1>2, <1>3, <1>4, <1>5
<1>8. x = [n \in 1 .. Len(t) - b |-> x[n]] /\ r = [n \in 1 .. Len(t) - b |-> r[n]]
  BY <1>3, <1>4
<1>7. x = r
  BY <1>6, <1>8
<1> QED  BY <1>7 DEF x, q, r

LEMMA PrefixOfPrefix ==
  ASSUME NEW S, NEW t \in Seq(S), NEW b \in 0 .. Len(t), NEW a \in 0 .. b
  PROVE  SubSeq(SubSeq(t, 1, b), 1, a) = SubSeq(t, 1, a)
<1> DEFINE q == SubSeq(t, 1, b)
           r == SubSeq(t, 1, a)
           x == SubSeq(q, 1, a)
<1>1. Len(t) \in Nat /\ a \in Nat /\ b \in Nat /\ a <= b /\ b <= Len(t)
  OBVIOUS
<1>2. q \in Seq(S) /\ Len(q) = b /\ \A n \in 1 .. b : q[n] = t[n]
  BY <1>1
<1>3. r \in Seq(S) /\ Len(r) = a /\ \A n \in 1 .. a : r[n] = t[n]
  BY <1>1
<1> HIDE DEF q, r
<1>4. x \in Seq(S) /\ Len(x) = a /\ \A n \in 1 .. a : x[n] = q[n]
  BY <1>1, <1>2
<1> HIDE DEF x
<1>5. \A n \in 1 .. a : n \in 1 .. b
  BY <1>1
<1>6. x = r
  BY <1>2, <1>3, <1>4, <1>5
<1> QED  BY <1>6 DEF x, q, r

LEMMA Pieces ==
  ASSUME NEW S, NEW t \in Seq(S), NEW i \in 0 .. Len(t), NEW j \in 0 .. Len(t)
  PROVE  /\ SubSeq(t, 1, i) \in Seq(S) /\ Len(SubSeq(t, 1, i)) = i
         /\ SubSeq(t, j + 1, Len(t)) \in Seq(S) /\ Len(SubSeq(t, j + 1, Len(t))) = Len(t) - j
         /\ Len(SubSeq(t, 1, i) \o SubSeq(t, j + 1, Len(t))) = i + (Len(t) - j)
<1> DEFINE p == SubSeq(t, 1, i)
           q == SubSeq(t, j + 1, Len(t))
<1>1. p \in Seq(S) /\ Len(p) = i
  OBVIOUS
<1>2. q \in Seq(S) /\ Len(q) = Len(t) - j
  OBVIOUS
<1> HIDE DEF p, q
<1>3. Len(p \o q) = i + (Len(t) - j)
  BY <1>1, <1>2
<1> QED  BY <1>1, <1>2, <1>3 DEF p, q

LEMMA NothingBehind ==
  ASSUME NEW S, NEW t \in Seq(S)
  PROVE  t \o <<>> = t
OBVIOUS

LEMMA TailIs ==
  ASSUME NEW S, NEW t \in Seq(S), NEW i \in 0 .. Len(t), i < Len(t)
  PROVE  Tail(SubSeq(t, i + 1, Len(t))) = SubSeq(t, (i + 1) + 1, Len(t))
<1>1. i + 1 \in 1 .. Len(t) /\ Len(t) \in i + 1 .. Len(t)
  OBVIOUS
<1> QED  BY <1>1, HeadTailOfSubSeq

LEMMA BackspaceIsAKey ==
  ASSUME NEW s, NEW o, Holds(s, o, text, pos, upos), Backspace
  PROVE  Keyed(s)
<1>1. /\ Spells(s, o, text) /\ Len(s) \in Nat /\ Len(text) \in Nat
      /\ upos \in 0 .. Len(s) /\ pos = o[upos]
      /\ s \in Seq(Characters) /\ text \in Seq(Byte)
      /\ pos > 0 <=> upos > 0
      /\ pos < Len(text) <=> upos < Len(s)
      /\ pos \in 0 .. Len(text)
  BY HoldsTypes
<1> DEFINE u == upos - 1
           first == UResize(text, u)
           rest == SubSeq(text, o[u] + 1, Len(text))
<1>2. /\ pos > 0 /\ pos' = Len(first) /\ upos' = u
      /\ text' = IF pos = Len(text) THEN first
                 ELSE first \o LUResize(From(Len(first)), ULen(text) - upos)
  BY DEF Backspace, Text
<1>3. u \in 0 .. Len(s) /\ upos = u + 1 /\ upos > 0 /\ upos \in 1 .. Len(s)
  BY <1>1, <1>2
<1>4. first = SubSeq(text, 1, o[u]) /\ Len(SubSeq(text, 1, o[u])) = o[u]
  BY <1>1, <1>3, UResizeIs, PlacesIn
<1>5. pos' = o[u] /\ u \in 0 .. u
  <2>1. u \in 0 .. u
    BY <1>1, <1>3
  <2>2. pos' = o[u]
    BY <1>2, <1>4
  <2> QED  BY <2>1, <2>2
<1> DEFINE s2 == SubSeq(s, 1, u) \o SubSeq(s, upos + 1, Len(s))
<1>6. Len(s2) = u + (Len(s) - upos)
  <2> HIDE DEF u
  <2> QED  BY <1>1, <1>3, Pieces
<1>7. u \in 0 .. Len(s2)
  <2> HIDE DEF s2
  <2> QED  BY <1>1, <1>3, <1>6
<1>8. Key(s, upos, s2, u)
  BY <1>3 DEF Key
<1>9. CASE pos = Len(text)
  <2>1. upos = Len(s)
    BY <1>1, <1>9
  <2>2. s2 = SubSeq(s, 1, u)
    <3>1. SubSeq(s, upos + 1, Len(s)) = <<>>
      BY <1>1, <2>1
    <3>2. SubSeq(s, 1, u) \in Seq(Characters)
      BY <1>1, <1>3
    <3> HIDE DEF u
    <3>3. SubSeq(s, 1, u) \o <<>> = SubSeq(s, 1, u)
      BY <3>2, NothingBehind
    <3> QED  BY <3>1, <3>3
  <2> DEFINE o2 == [j \in 0 .. u |-> o[j]]
  <2>3. Spells(SubSeq(s, 1, u), o2, SubSeq(text, 1, o[u]))
    BY <1>1, <1>3, SpellsPrefix
  <2>4. o2[u] = o[u]
    BY <1>5
  <2> HIDE DEF o2, s2
  <2>5. Holds(s2, o2, text', pos', u)
    BY <1>2, <1>4, <1>5, <1>7, <1>9, <2>2, <2>3, <2>4 DEF Holds
  <2> QED  BY <1>2, <1>8, <2>5 DEF Keyed
<1>10. CASE pos # Len(text)
  <2>1. upos < Len(s)
    BY <1>1, <1>10
  <2>2. From(Len(first)) = rest
    BY <1>4 DEF From
  <2>3. ULen(text) - upos = Len(s) - upos
    BY <1>1, ULenIs
  <2> DEFINE p == SubSeq(s, u + 1, Len(s))
             h == [j \in 0 .. Len(s) - u |-> o[u + j] - o[u]]
             len == Len(s) - upos
  <2>4. Spells(p, h, rest)
    BY <1>1, <1>3, SpellsSuffix
  <2>5. Len(p) = Len(s) - u /\ len \in 1 .. Len(p) - 1 /\ Len(p) - len = 1
    BY <1>1, <1>3, <2>1
  <2>6. h[1] = o[upos] - o[u]
    BY <1>1, <1>3
  <2> HIDE DEF p, h, rest
  <2>7. LUResize(rest, len) = SubSeq(rest, h[Len(p) - len] + 1, Len(rest))
    <3> HIDE DEF len
    <3> QED  BY <2>4, <2>5, LUResizeIs
  <2>8. LUResize(rest, len) = SubSeq(rest, (o[upos] - o[u]) + 1, Len(rest))
    BY <2>5, <2>6, <2>7
  <2>9. o[u] \in 0 .. Len(text) /\ o[upos] \in 0 .. Len(text) /\ o[u] < o[upos]
    <3>1. u < upos
      BY <1>1, <1>3
    <3> QED  BY <1>1, <1>3, <3>1, PlacesIn, Rising
  <2>10. LUResize(rest, len) = SubSeq(text, o[upos] + 1, Len(text))
    <3>1. o[upos] \in o[u] .. Len(text)
      BY <1>1, <2>9
    <3>2. SubSeq(SubSeq(text, o[u] + 1, Len(text)), (o[upos] - o[u]) + 1,
                 Len(SubSeq(text, o[u] + 1, Len(text)))) = SubSeq(text, o[upos] + 1, Len(text))
      BY <1>1, <2>9, <3>1, SuffixOfSuffix
    <3> QED  BY <2>8, <3>2 DEF rest
  <2>11. text' = SubSeq(text, 1, o[u]) \o SubSeq(text, o[upos] + 1, Len(text))
    BY <1>2, <1>4, <1>10, <2>2, <2>3, <2>10
  <2>12. PICK o2 : /\ Spells(SubSeq(s, 1, u) \o SubSeq(s, upos + 1, Len(s)), o2,
                             SubSeq(text, 1, o[u]) \o SubSeq(text, o[upos] + 1, Len(text)))
                   /\ o2[u] = o[u]
    <3> HIDE DEF u
    <3> QED  BY <1>1, <1>3, SpellsCut
  <2>13. Holds(s2, o2, text', pos', u)
    BY <1>5, <1>7, <2>11, <2>12 DEF Holds
  <2> HIDE DEF s2
  <2> QED  BY <1>2, <1>8, <2>13 DEF Keyed
<1> QED  BY <1>9, <1>10

LEMMA DeleteIsAKey ==
  ASSUME NEW s, NEW o, Holds(s, o, text, pos, upos), Delete
  PROVE  Keyed(s)
<1>1. /\ Spells(s, o, text) /\ Len(s) \in Nat /\ Len(text) \in Nat
      /\ upos \in 0 .. Len(s) /\ pos = o[upos]
      /\ s \in Seq(Characters) /\ text \in Seq(Byte)
      /\ pos < Len(text) <=> upos < Len(s)
  BY HoldsTypes
<1> DEFINE u == upos + 1
           first == UResize(text, u)
<1>2. /\ pos < Len(text) /\ pos' = pos /\ upos' = upos
      /\ text' = UResize(first, ULen(first) - 1) \o From(Len(first))
  BY DEF Delete, Text
<1>3. u \in 0 .. Len(s) /\ upos < Len(s) /\ upos \in 0 .. u /\ u - 1 = upos /\ u \in Nat /\ upos < u
  BY <1>1, <1>2
<1>4. first = SubSeq(text, 1, o[u]) /\ Len(SubSeq(text, 1, o[u])) = o[u]
  BY <1>1, <1>3, UResizeIs, PlacesIn
<1> DEFINE p == SubSeq(s, 1, u)
           h == [j \in 0 .. u |-> o[j]]
<1>5. Spells(p, h, first)
  BY <1>1, <1>3, <1>4, SpellsPrefix
<1>6. Len(p) = u /\ h[upos] = o[upos]
  BY <1>1, <1>3
<1>7. UResize(first, ULen(first) - 1) = SubSeq(text, 1, o[upos])
  <2> HIDE DEF first, p, h, u
  <2>1. ULen(first) - 1 = upos
    BY <1>3, <1>5, <1>6, ULenIs
  <2>2. UResize(first, upos) = SubSeq(first, 1, h[upos])
    BY <1>3, <1>5, <1>6, UResizeIs
  <2>3. o[u] \in 0 .. Len(text) /\ o[upos] \in 0 .. o[u]
    <3>1. o[u] \in 0 .. Len(text) /\ o[upos] \in 0 .. Len(text)
      BY <1>1, <1>3, PlacesIn
    <3>2. o[upos] < o[u]
      BY <1>1, <1>3, Rising
    <3> QED  BY <1>1, <3>1, <3>2
  <2>4. SubSeq(SubSeq(text, 1, o[u]), 1, o[upos]) = SubSeq(text, 1, o[upos])
    BY <1>1, <2>3, PrefixOfPrefix
  <2> QED  BY <1>4, <1>6, <2>1, <2>2, <2>4
<1>8. text' = SubSeq(text, 1, o[upos]) \o SubSeq(text, o[u] + 1, Len(text))
  <2> HIDE DEF u
  <2> QED  BY <1>2, <1>4, <1>7 DEF From
<1> DEFINE s2 == SubSeq(s, 1, upos) \o SubSeq(s, u + 1, Len(s))
<1>9. PICK o2 : /\ Spells(SubSeq(s, 1, upos) \o SubSeq(s, u + 1, Len(s)), o2,
                          SubSeq(text, 1, o[upos]) \o SubSeq(text, o[u] + 1, Len(text)))
                /\ o2[upos] = o[upos]
  <2> HIDE DEF u
  <2> QED  BY <1>1, <1>3, SpellsCut
<1>10. Len(s2) = upos + (Len(s) - u)
  <2> HIDE DEF u
  <2> QED  BY <1>1, <1>3, Pieces
<1>11. upos \in 0 .. Len(s2)
  <2> HIDE DEF s2
  <2> QED  BY <1>1, <1>3, <1>10
<1>12. Holds(s2, o2, text', pos', upos')
  BY <1>1, <1>2, <1>8, <1>9, <1>11 DEF Holds
<1>13. Tail(SubSeq(s, upos + 1, Len(s))) = SubSeq(s, u + 1, Len(s))
  BY <1>1, <1>3, TailIs
<1>14. Key(s, upos, s2, upos')
  BY <1>2, <1>3, <1>13 DEF Key
<1> HIDE DEF s2
<1> QED  BY <1>12, <1>14 DEF Keyed

\* A character of any width put in at the cursor.
LEMMA PutIsAKey ==
  ASSUME NEW s, NEW o, Holds(s, o, text, pos, upos), NEW c \in Characters,
         text' = (SubSeq(text, 1, pos) \o Encode(c)) \o SubSeq(text, pos + 1, Len(text)),
         pos' = pos + Width[c], upos' = upos + 1
  PROVE  Keyed(s)
<1>1. /\ Spells(s, o, text) /\ Len(s) \in Nat
      /\ upos \in 0 .. Len(s) /\ pos = o[upos] /\ s \in Seq(Characters)
  BY HoldsTypes
<1>2. PICK o2 : /\ Spells((SubSeq(s, 1, upos) \o <<c>>) \o SubSeq(s, upos + 1, Len(s)), o2,
                          (SubSeq(text, 1, o[upos]) \o Encode(c))
                            \o SubSeq(text, o[upos] + 1, Len(text)))
                /\ o2[upos + 1] = o[upos] + Width[c]
  BY <1>1, SpellsPut
<1> DEFINE b == SubSeq(s, 1, upos)
           a == SubSeq(s, upos + 1, Len(s))
           s2 == (b \o <<c>>) \o a
<1>3. b \in Seq(Characters) /\ Len(b) = upos /\ a \in Seq(Characters) /\ Len(a) = Len(s) - upos
  BY <1>1, Pieces
<1>4. b \o <<c>> = Append(b, c)
  <2> HIDE DEF b
  <2> QED  BY <1>3
<1>5. Len(s2) = (upos + 1) + (Len(s) - upos)
  <2> HIDE DEF b, a
  <2>1. b \o <<c>> \in Seq(Characters) /\ Len(b \o <<c>>) = upos + 1
    <3>1. <<c>> \in Seq(Characters) /\ Len(<<c>>) = 1
      OBVIOUS
    <3> QED  BY <1>3, <3>1, ConcatProperties
  <2> DEFINE d == b \o <<c>>
  <2>2. d \in Seq(Characters) /\ Len(d) = upos + 1
    BY <2>1
  <2> HIDE DEF d
  <2>3. a \in Seq(Characters) /\ Len(a) = Len(s) - upos
    BY <1>3
  <2> HIDE DEF s2
  <2>4. Len(d \o a) = Len(d) + Len(a)
    BY <2>2, <2>3, ConcatProperties
  <2> QED  BY <2>2, <2>3, <2>4 DEF d, s2
<1>6. upos + 1 \in 0 .. Len(s2)
  <2> HIDE DEF s2
  <2> QED  BY <1>1, <1>5
<1>7. Holds(s2, o2, text', pos', upos')
  BY <1>1, <1>2, <1>6 DEF Holds
<1>8. Key(s, upos, s2, upos')
  BY <1>4 DEF Key
<1> HIDE DEF s2
<1> QED  BY <1>7, <1>8 DEF Keyed

LEMMA InsertByteIsAKey ==
  ASSUME NEW s, NEW o, Holds(s, o, text, pos, upos), InsertByte
  PROVE  Keyed(s)
<1>1. Len(text) \in Nat /\ pos \in 0 .. Len(text)
  BY HoldsTypes
<1>2. PICK c \in Characters :
        Width[c] = 1 /\ Text(InsertAt(text, pos + 1, <<c, 1>>), pos + 1, upos + 1)
  BY DEF InsertByte
<1>3. /\ text' = InsertAt(text, pos + 1, <<c, 1>>)
      /\ pos' = pos + 1 /\ upos' = upos + 1
  BY <1>2 DEF Text
<1>4. Encode(c) = <<<<c, 1>>>>
  <2>1. Encode(c) = [k \in 1 .. 1 |-> <<c, k>>]
    BY <1>2 DEF Encode
  <2> QED  BY <2>1
<1>5. (pos + 1) - 1 = pos
  BY <1>1
<1>6. text' = (SubSeq(text, 1, pos) \o Encode(c)) \o SubSeq(text, pos + 1, Len(text))
  BY <1>3, <1>4, <1>5 DEF InsertAt
<1>7. pos' = pos + Width[c]
  BY <1>2, <1>3
<1> QED  BY <1>3, <1>6, <1>7, PutIsAKey

LEMMA InsertWideIsAKey ==
  ASSUME NEW s, NEW o, Holds(s, o, text, pos, upos), InsertWide
  PROVE  Keyed(s)
<1>1. /\ Spells(s, o, text) /\ upos \in 0 .. Len(s) /\ pos = o[upos]
      /\ text \in Seq(Byte) /\ Len(text) \in Nat /\ pos \in 0 .. Len(text)
  BY HoldsTypes
<1>2. PICK c \in Characters :
        Text((UResize(text, upos) \o Encode(c)) \o From(pos),
             Len(UResize(text, upos) \o Encode(c)), upos + 1)
  BY DEF InsertWide
<1>3. UResize(text, upos) = SubSeq(text, 1, pos) /\ Len(SubSeq(text, 1, pos)) = pos
  BY <1>1, UResizeIs, PlacesIn
<1>4. Encode(c) \in Seq(Byte) /\ Len(Encode(c)) = Width[c]
  BY SpellsOne DEF Spells
<1>5. SubSeq(text, 1, pos) \in Seq(Byte)
  BY <1>1
<1>6. Len(SubSeq(text, 1, pos) \o Encode(c)) = pos + Width[c]
  <2> DEFINE q == SubSeq(text, 1, pos)
             e == Encode(c)
  <2> HIDE DEF q, e
  <2>1. q \in Seq(Byte) /\ e \in Seq(Byte) /\ Len(q) = pos /\ Len(e) = Width[c]
    BY <1>3, <1>4, <1>5 DEF q, e
  <2>2. Len(q \o e) = Len(q) + Len(e)
    BY <2>1
  <2> QED  BY <2>1, <2>2 DEF q, e
<1>7. text' = (SubSeq(text, 1, pos) \o Encode(c)) \o SubSeq(text, pos + 1, Len(text))
  BY <1>2, <1>3 DEF Text, From
<1>8. pos' = pos + Width[c] /\ upos' = upos + 1
  BY <1>2, <1>3, <1>6 DEF Text
<1> QED  BY <1>7, <1>8, PutIsAKey

LEMMA KeysAreKeys ==
  ASSUME NEW s, NEW o, Holds(s, o, text, pos, upos), TextEditNext
  PROVE  Keyed(s)
BY LeftIsAKey, RightIsAKey, HomeIsAKey, EndIsAKey, BackspaceIsAKey, DeleteIsAKey,
   InsertByteIsAKey, InsertWideIsAKey DEF TextEditNext

\* The line as the refinement reads it.
LineOf == IF Broken THEN <<"broken">> ELSE Spelled

\* What the line holds is what is read, before a step and after it.
LEMMA HoldsReads ==
  ASSUME NEW s, NEW o, NEW t, NEW p, NEW u, Holds(s, o, t, p, u)
  PROVE  /\ SpelledBy(t) = s
         /\ Encoded(s) = t
         /\ p = Len(Encoded(SubSeq(s, 1, u)))
<1>1. Spells(s, o, t) /\ u \in 0 .. Len(s) /\ p = o[u]
  BY DEF Holds
<1>2. Spells(SubSeq(s, 1, u), [j \in 0 .. u |-> o[j]], SubSeq(t, 1, o[u]))
  BY <1>1, SpellsPrefix
<1>3. Encoded(SubSeq(s, 1, u)) = SubSeq(t, 1, o[u])
  BY <1>2, EncodedIs
<1>4. Len(SubSeq(t, 1, o[u])) = o[u]
  BY <1>1, PlacesIn
<1>5. Encoded(s) = t
  BY <1>1, EncodedIs
<1>6. SpelledBy(t) = s
  BY <1>1, SpelledIs
<1>7. p = Len(Encoded(SubSeq(s, 1, u)))
  BY <1>1, <1>3, <1>4
<1> QED  BY <1>5, <1>6, <1>7

\* No bytes are no characters.
LEMMA NoneSpelled ==
  ASSUME NEW s, NEW o, Spells(s, o, <<>>)
  PROVE  s = <<>>
<1>1. ULen(<<>>) = Len(s) /\ s \in Seq(Characters)
  BY ULenIs DEF Spells
<1>2. Leads(<<>>) = {}
  BY DEF Leads
<1>3. ULen(<<>>) = 0
  BY <1>2, FS_EmptySet DEF ULen
<1> QED  BY <1>1, <1>3

LEMMA LineIs ==
  ASSUME NEW s, NEW o, Holds(s, o, text, pos, upos)
  PROVE  LineOf = s
<1>1. SpelledBy(text) = s
  BY HoldsReads
<1>2. Encoded(s) = text /\ pos = Len(Encoded(SubSeq(s, 1, upos)))
  BY HoldsReads
<1>3. text = <<>> => s = <<>>
  BY NoneSpelled DEF Holds
<1>4. Spelled = s
  BY <1>1, <1>3 DEF Spelled, Lead, SpelledBy
<1> QED  BY <1>2, <1>4 DEF LineOf, Broken

LEMMA LineIsThen ==
  ASSUME NEW s, NEW o, Holds(s, o, text', pos', upos')
  PROVE  LineOf' = s
<1>1. SpelledBy(text') = s
  BY HoldsReads
<1>2. Encoded(s) = text' /\ pos' = Len(Encoded(SubSeq(s, 1, upos')))
  BY HoldsReads
<1>3. text' = <<>> => s = <<>>
  BY NoneSpelled DEF Holds
<1>4. Spelled' = s
  BY <1>1, <1>3 DEF Spelled, Lead, SpelledBy
<1> QED  BY <1>2, <1>4 DEF LineOf, Broken

\* The inductive invariant.
LineInv == \E s, o : Holds(s, o, text, pos, upos)

\* A new line holds what the setting held, with the cursor at its end.
LEMMA StartsHeld ==
  ASSUME TextEditInit
  PROVE  \E s, o : Holds(s, o, text, pos, upos) /\ upos = Len(s)
<1>1. pos = Len(text) /\ upos = ULen(text)
  BY DEF TextEditInit
<1>2. PICK s : text = Encoded(s) /\ (s = <<>> \/ \E c \in Characters : s = <<c, Space>>)
  BY DEF TextEditInit
<1>3. \E o, t : Spells(s, o, t)
  <2>1. CASE s = <<>>
    <3> DEFINE o == [j \in 0 .. 0 |-> 0]
    <3>1. Spells(<<>>, o, <<>>)
      <4>1. <<>> \in Seq(Characters) /\ <<>> \in Seq(Byte) /\ Len(<<>>) = 0
        OBVIOUS
      <4>2. o \in [0 .. 0 -> Nat] /\ o[0] = 0
        OBVIOUS
      <4>3. 1 .. 0 = {}
        OBVIOUS
      <4> HIDE DEF o
      <4> QED  BY <4>1, <4>2, <4>3 DEF Spells
    <3> HIDE DEF o
    <3> QED  BY <2>1, <3>1
  <2>2. CASE \E c \in Characters : s = <<c, Space>>
    <3>1. PICK c \in Characters : s = <<c, Space>>
      BY <2>2
    <3>2. Space \in Characters
      BY TextEditAssumption
    <3>3. s = <<c>> \o <<Space>>
      BY <3>1, <3>2
    <3>4. \E o : Spells(<<c>>, o, Encode(c))
      BY SpellsOne
    <3>5. \E o : Spells(<<Space>>, o, Encode(Space))
      BY <3>2, SpellsOne
    <3> QED  BY <3>3, <3>4, <3>5, SpellsConcat
  <2> QED  BY <1>2, <2>1, <2>2
<1>4. PICK o, t : Spells(s, o, t)
  BY <1>3
<1>5. text = t
  BY <1>2, <1>4, EncodedIs
<1>6. ULen(text) = Len(s) /\ o[Len(s)] = Len(text) /\ Len(s) \in 0 .. Len(s)
  BY <1>4, <1>5, ULenIs, SpellsTypes
<1>7. Holds(s, o, text, pos, upos)
  BY <1>1, <1>4, <1>5, <1>6 DEF Holds
<1> QED  BY <1>1, <1>6, <1>7

LEMMA LineInvInit == TextEditInit => LineInv /\ Line!LineInit
<1> SUFFICES ASSUME TextEditInit PROVE LineInv /\ Line!LineInit
  OBVIOUS
<1>1. PICK s, o : Holds(s, o, text, pos, upos) /\ upos = Len(s)
  BY StartsHeld
<1>2. LineOf = s
  BY <1>1, LineIs
<1>3. Line!LineInit
  BY <1>1, <1>2 DEF Line!LineInit, LineOf
<1> QED  BY <1>1, <1>3 DEF LineInv

\* A key, as a step of the line.
LEMMA LineStep ==
  LineInv /\ [TextEditNext]_textEditVars => LineInv' /\ [Line!LineNext]_<<LineOf, upos>>
<1> SUFFICES ASSUME LineInv, [TextEditNext]_textEditVars
             PROVE  LineInv' /\ [Line!LineNext]_<<LineOf, upos>>
  OBVIOUS
<1>1. PICK s, o : Holds(s, o, text, pos, upos)
  BY DEF LineInv
<1>2. LineOf = s
  BY <1>1, LineIs
<1>3. CASE TextEditNext
  <2>1. PICK s2, o2 : Holds(s2, o2, text', pos', upos') /\ Key(s, upos, s2, upos')
    BY <1>1, <1>3, KeysAreKeys DEF Keyed
  <2>2. LineOf' = s2
    BY <2>1, LineIsThen
  <2>3. Key(LineOf, upos, LineOf', upos')
    BY <1>2, <2>1, <2>2
  <2>4. Line!LineNext
    BY <2>3
    DEF Key, LineOf, Line!LineNext, Line!MoveCursor, Line!Insert, Line!RemoveBefore,
        Line!RemoveAfter, Line!Before, Line!After
  <2> QED  BY <2>1, <2>4 DEF LineInv
<1>4. CASE UNCHANGED textEditVars
  <2>1. Holds(s, o, text', pos', upos')
    BY <1>1, <1>4 DEF textEditVars
  <2>2. LineOf' = LineOf /\ upos' = upos
    BY <1>2, <1>4, <2>1, LineIsThen DEF textEditVars
  <2> QED  BY <2>1, <2>2 DEF LineInv
<1> QED  BY <1>3, <1>4

\* Every key does to the characters what its name says, with the cursor
\* between the same two of them in bytes and in characters, and never takes
\* one apart, whatever is typed and however long each character is.
\* (TextEdit::command)
THEOREM EditsLines == TextEditSpec => EditsALine
BY LineInvInit, LineStep, PTL DEF TextEditSpec, EditsALine, Line!LineSpec, LineOf

---------------------------------------------------------------------------
(* The types of what is drawn.                                             *)

\* Whatever is drawn, in whatever size, and wherever diff_and_emit() is: the
\* buffers have the terminal's size, and the pen and the cursor are of their
\* kinds.  (Screen)
THEOREM ScreenTypesCorrect == ScreenSpec => []ScreenTypeOK
<1>1. ScreenInv => ScreenTypeOK
  BY DEF ScreenInv
<1> QED
  BY <1>1, ScreenInvInit, ScreenInvStep, PTL DEF ScreenSpec

\* The rest of ProcViewTypeOK.
ViewRest ==
  /\ rows \in Listings \cup {<<>>}
  /\ updateFollowing \in BOOLEAN /\ returns \in BOOLEAN /\ followDetailed \in BOOLEAN

\* Whatever is selected, followed, paused and detailed: rows and places are
\* numbers from zero on, though draw() and selection() subtract throughout.
\* (Proc::draw, Proc::selection)
THEOREM ProcViewTypesCorrect == ProcViewSpec => []ProcViewTypeOK
<1>1. ProcViewInit => ViewRest
  <2> SUFFICES ASSUME ProcViewInit PROVE ViewRest
    OBVIOUS
  <2>1. rows \in Listings \cup {<<>>}
    BY DEF ProcViewInit
  <2>2. updateFollowing \in BOOLEAN
    BY DEF ProcViewInit
  <2>3. returns \in BOOLEAN
    BY DEF ProcViewInit
  <2>4. followDetailed \in BOOLEAN
    BY DEF ProcViewInit
  <2> QED  BY <2>1, <2>2, <2>3, <2>4 DEF ViewRest
<1>2. ViewRest /\ [ProcViewNext]_procViewVars => ViewRest'
  <2> SUFFICES ASSUME ViewRest, [ProcViewNext]_procViewVars PROVE ViewRest'
    OBVIOUS
  <2>1. rows' \in Listings \cup {<<>>} /\ followDetailed' \in BOOLEAN
    <3>1. CASE Draw
      BY <3>1 DEF Draw, ViewRest
    <3>2. CASE ~ Draw
      <4>1. UNCHANGED <<rows, followDetailed>>
        BY <3>2 DEF ProcViewNext, procViewVars, drawn, Selection, Enter, EnterDone, Click,
                    FollowKey, PauseKey, SortKey
      <4> QED  BY <4>1 DEF ViewRest
    <3> QED  BY <3>1, <3>2
  <2>2. updateFollowing' \in BOOLEAN
    BY DEF ViewRest, ProcViewNext, procViewVars, Selection, Enter, EnterDone, Click, FollowKey,
           PauseKey, SortKey, Draw
  <2>3. returns' \in BOOLEAN
    BY DEF ViewRest, ProcViewNext, procViewVars, Selection, Enter, EnterDone, Click, FollowKey,
           PauseKey, SortKey, Draw
  <2> QED  BY <2>1, <2>2, <2>3 DEF ViewRest
<1>3. ViewInv /\ ViewRest => ProcViewTypeOK
  BY DEF ViewInv, ViewTypes, ViewRest, ProcViewTypeOK
<1> QED
  BY <1>1, <1>2, <1>3, ViewInvariant, PTL DEF ProcViewSpec

\* What is spelled consists of the bytes of characters.
LEMMA SpellsBytes ==
  ASSUME NEW s, NEW o, NEW t, Spells(s, o, t)
  PROVE  t \in Seq(Bytes)
<1>1. ASSUME NEW n \in 1 .. Len(t) PROVE t[n] \in Bytes
  <2>1. PICK i \in 1 .. Len(s) : \E k \in 1 .. Width[s[i]] : n = o[i - 1] + k
    <3> SUFFICES ASSUME \A i \in 1 .. Len(s) : \A k \in 1 .. Width[s[i]] : n # o[i - 1] + k
                 PROVE  FALSE
      OBVIOUS
    <3> QED  BY <1>1, BlockOf
  <2>2. PICK k \in 1 .. Width[s[i]] : n = o[i - 1] + k
    BY <2>1
  <2>3. t[n] = <<s[i], k>> /\ s[i] \in Characters
    BY <2>2, SpellsTypes DEF Spells
  <2>4. <<s[i], k>> \in ToSet(Encode(s[i]))
    BY <2>2 DEF Encode, ToSet
  <2> QED  BY <2>3, <2>4 DEF Bytes
<1>2. Len(t) \in Nat /\ t = [n \in 1 .. Len(t) |-> t[n]]
  BY SpellsTypes DEF Spells
<1> QED  BY <1>1, <1>2

\* Whatever is typed and taken away: the text is bytes of characters, with
\* the cursor inside, however few it is left with.  (TextEdit::command)
THEOREM TextEditTypesCorrect == TextEditSpec => []TextEditTypeOK
<1> DEFINE Flag == numeric \in BOOLEAN
<1>1. TextEditInit => Flag
  BY DEF TextEditInit
<1>2. Flag /\ [TextEditNext]_textEditVars => Flag'
  BY DEF textEditVars, TextEditNext, Left, Right, Home, End, Backspace, Delete, InsertByte,
         InsertWide, Text
<1>3. LineInv /\ Flag => TextEditTypeOK
  <2> SUFFICES ASSUME LineInv, Flag PROVE TextEditTypeOK
    OBVIOUS
  <2>1. PICK s, o : Holds(s, o, text, pos, upos)
    BY DEF LineInv
  <2>2. Spells(s, o, text) /\ pos \in 0 .. Len(text) /\ upos \in 0 .. Len(s)
    BY <2>1, HoldsTypes
  <2>3. text \in Seq(Bytes)
    BY <2>2, SpellsBytes
  <2> QED  BY <2>2, <2>3, SpellsTypes DEF TextEditTypeOK
<1> HIDE DEF Flag
<1> QED
  BY <1>1, <1>2, <1>3, LineInvInit, LineStep, PTL DEF TextEditSpec
===========================================================================
