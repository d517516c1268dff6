------------------------------ MODULE History ------------------------------
(***************************************************************************)
(* One time series: the RingBuffer of btop_shared.hpp a collector fills,   *)
(* and the Draw::Graph (btop_draw.cpp) that shows it.                      *)
(*                                                                         *)
(* A character of a graph stands for two samples.  So that the graph can   *)
(* move by one sample, it is kept twice, with the samples paired both      *)
(* ways, and the two take turns.  A character is the pair of samples it    *)
(* stands for; which symbol and colour that is, and the scaling to         *)
(* max_value, are left out.                                                *)
(***************************************************************************)
EXTENDS Integers, Sequences

CONSTANTS
  Samples,     \* the values a collector takes
  Rooms,       \* the capacities a collector asks for: width * 2
  GraphWidths  \* the widths of the graph

ASSUME SamplesAssumption == Samples \subseteq Nat /\ 0 \in Samples
ASSUME RoomsAssumption == Rooms \subseteq Nat
\* The graphs of a fixed width have 4 to 6 columns, the others most of a box.
\* (One column would not do: a tty graph that begins there shows a blank for
\* the sample before its newest, for _create() takes one round only.)
ASSUME GraphWidthsAssumption == GraphWidths \subseteq {w \in Nat : w > 1}

VARIABLES
  ring,        \* the RingBuffer: data_, capacity_, head_, size_
  want,        \* the capacity the box's width asks for
  redraw,      \* the box is to be drawn anew
  graph,       \* the Graph
  plotted      \* the samples the graph was given (no state of the program)

historyVars == <<ring, want, redraw, graph, plotted>>

Ring(data, capacity, head, size) ==
  [data |-> data, capacity |-> capacity, head |-> head, size |-> size]
EmptyRing == Ring([i \in {} |-> 0], 0, 0, 0)

\* operator[]; every use of it stays below size().
Slot(r, i) == r.data[(r.head + i) % r.capacity]
Held(r) == [k \in 1 .. r.size |-> Slot(r, k - 1)]

\* push_back(): a ring without room drops the value, a full one its oldest.
Stored(r, i, v, head, size) ==
  Ring([r.data EXCEPT ![i] = v], r.capacity, head, size)
PushBackStuck(r, v) ==                        \* slip: head_ stays
  IF r.capacity = 0 THEN r
  ELSE IF r.size < r.capacity
       THEN Stored(r, (r.head + r.size) % r.capacity, v, r.head, r.size + 1)
       ELSE Stored(r, r.head, v, r.head, r.size)
PushBack(r, v) ==
  IF r.capacity = 0 THEN r
  ELSE IF r.size < r.capacity
       THEN Stored(r, (r.head + r.size) % r.capacity, v, r.head, r.size + 1)
       ELSE Stored(r, r.head, v, (r.head + 1) % r.capacity, r.size)

\* resize(): the newest values move to the front of fresh storage.
Smaller(a, b) == IF a < b THEN a ELSE b
Moved(r, keep, i) == IF i < keep THEN Slot(r, r.size - keep + i) ELSE 0
Resized(r, n) ==
  IF n = r.capacity THEN r
  ELSE IF n = 0 THEN EmptyRing
  ELSE LET keep == Smaller(r.size, n)
       IN  Ring([i \in 0 .. n - 1 |-> Moved(r, keep, i)], n, 0, keep)

---------------------------------------------------------------------------
(* The graph.                                                              *)

BlankPair == <<0, 0>>                            \* a space, or Mv::r(1)

\* A graph with its members as they start, before any sample.
Unplotted(tty, width, cols) ==
  [tty |-> tty, width |-> width, current |-> TRUE, last |-> 0,
   cols |-> cols, newest |-> -1, out |-> <<>>]
NoGraph == Unplotted(FALSE, 0, [b \in BOOLEAN |-> <<>>])

\* One round of _create(): the value left of it and its own make a character.
Plot(g, s, i, mult) ==
  LET left == IF i < 0 THEN 0 ELSE g.last
      value == IF i < 0 THEN 0 ELSE s[i + 1]
      side == IF ~ g.tty /\ mult THEN ~ g.current ELSE g.current
  IN  [g EXCEPT !.current = side,
                !.cols[side] = Append(@, <<left, value>>),
                !.last = IF mult /\ i >= 0 THEN value ELSE left]

\* _create(): data_offset may be -1.
Rounds(g, s, offset, mult) ==
  LET after[k \in 0 .. Len(s) - offset] ==
        IF k = 0 THEN g ELSE Plot(after[k - 1], s, offset + k - 1, mult)
  IN  after
Create(g, s, offset) ==
  LET mult == Len(s) - offset > 1
      before == IF mult /\ offset > 0 THEN [g EXCEPT !.last = s[offset]] ELSE g
      after == Rounds(before, s, offset, mult)[Len(s) - offset]
  IN  [after EXCEPT !.last = IF s = <<>> THEN 0 ELSE s[Len(s)],
                    !.out = after.cols[after.current]]

\* The constructor: as many of the newest values as fit, blanks before them.
PairsFor(n, tty) == IF tty THEN n ELSE (n + 1) \div 2
FirstShownUnpaired(n, w, tty) ==                  \* slip: the pairs are not made even
  IF PairsFor(n, tty) > w THEN n - w * (IF tty THEN 1 ELSE 2) ELSE 0
FirstShown(n, w, tty) ==
  LET first == IF PairsFor(n, tty) > w THEN n - w * (IF tty THEN 1 ELSE 2) ELSE 0
  IN  IF ~ tty /\ (n - first) % 2 # 0 THEN first - 1 ELSE first

NewGraph(s, w, tty) ==
  LET blanks == [k \in 1 .. w - PairsFor(Len(s), tty) |-> BlankPair]
      empty == Unplotted(tty, w, [b \in BOOLEAN |-> IF tty /\ ~ b THEN <<>> ELSE blanks])
  IN  IF s = <<>> THEN empty
      ELSE [Create(empty, s, FirstShown(Len(s), w, tty)) EXCEPT !.newest = s[Len(s)]]

\* operator(): nothing moves when the newest value is the one before.
Same(g, s) == s # <<>> /\ s[Len(s)] = g.newest /\ g.out # <<>>
MovedOn(g, s) ==
  LET side == IF g.tty THEN g.current ELSE ~ g.current
      shifted == [g EXCEPT !.current = side, !.cols[side] = Tail(@),
                           !.newest = IF s = <<>> THEN @ ELSE s[Len(s)]]
  IN  Create(shifted, s, Len(s) - 1)

---------------------------------------------------------------------------
HistoryTypeOK ==
  /\ ring.capacity \in Rooms \cup {0} /\ ring.size \in 0 .. ring.capacity
  /\ ring.data \in [0 .. ring.capacity - 1 -> Samples]
  /\ ring.head \in Nat /\ ring.head <= ring.capacity
  /\ want \in Rooms
  /\ redraw \in BOOLEAN

HistoryInit ==
  /\ ring = EmptyRing
  /\ want \in Rooms
  /\ redraw = TRUE
  /\ graph = NoGraph
  /\ plotted = <<>>

\* cpu, mem, net, the disks: the sample, then the capacity the width asks
\* for.  The sample a fresh ring has no room for is lost.
PushThenResize ==
  /\ \E v \in Samples : ring' = Resized(PushBack(ring, v), want)
  /\ UNCHANGED <<want, redraw, graph, plotted>>

\* gpu: the other way round.
ResizeThenPush ==
  /\ \E v \in Samples : ring' = PushBack(Resized(ring, want), v)
  /\ UNCHANGED <<want, redraw, graph, plotted>>

\* Draw::calcSizes()
Layout ==
  /\ want' \in Rooms
  /\ redraw' = TRUE
  /\ UNCHANGED <<ring, graph, plotted>>

\* The part of the series that can be on display.
Visible(s, w) == SubSeq(s, IF Len(s) > 2 * w THEN Len(s) - 2 * w + 1 ELSE 1, Len(s))

\* A box draws: anew, or moved on by the newest sample.
DrawAnew ==
  /\ redraw
  /\ redraw' = FALSE
  /\ \E w \in GraphWidths, tty \in BOOLEAN :
       /\ graph' = NewGraph(Held(ring), w, tty)
       /\ plotted' = Visible(Held(ring), w)
  /\ UNCHANGED <<ring, want>>

DrawMoved ==
  /\ ~ redraw
  /\ ~ Same(graph, Held(ring))
  /\ graph' = MovedOn(graph, Held(ring))
  /\ plotted' = Visible(Append(plotted, IF ring.size = 0 THEN 0
                                        ELSE Held(ring)[ring.size]), graph.width)
  /\ UNCHANGED <<ring, want, redraw>>

HistoryNext == PushThenResize \/ ResizeThenPush \/ Layout \/ DrawAnew \/ DrawMoved

HistorySpec == HistoryInit /\ [][HistoryNext]_historyVars

---------------------------------------------------------------------------
(* Properties.                                                             *)

\* Through every wrap of head_ and every change of the capacity, the ring
\* holds the newest samples in their order.  (RingBuffer)
W == INSTANCE Window WITH room <- ring.capacity, recent <- Held(ring)
ImplementsWindow == W!WindowSpec

\* What the graph shows, read from right to left, is what it was given: the
\* two sides never get out of step, with an odd or even number of samples,
\* fewer or more than fit, in either mode.  (Graph::Graph, operator(), _create)
Given(k) == IF k > 0 THEN plotted[k] ELSE 0
GraphShowsPlotted ==
  LET n == Len(plotted)
      Pair(j) == IF graph.tty THEN <<Given(n - j), Given(n - j + 1)>>
                 ELSE <<Given(n - 2 * j + 1), Given(n - 2 * j + 2)>>
  IN  graph.out # <<>> =>
        /\ Len(graph.out) = graph.width
        /\ \A j \in 1 .. graph.width : graph.out[graph.width - j + 1] = Pair(j)
=============================================================================
