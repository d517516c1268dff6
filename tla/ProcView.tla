------------------------------ MODULE ProcView ------------------------------
(***************************************************************************)
(* Which rows of the list of processes are in view, which one is selected  *)
(* and which one is followed: Proc::selection(), draw_proc_follow_logic()  *)
(* and the bounds of Proc::draw() in btop_draw.cpp, and the keys of the    *)
(* box in Input::process().                                                *)
(*                                                                         *)
(* Rows are numbered from 1, as selected is, with 0 for none.  Every key   *)
(* that does anything starts a cycle, which may find another list, and     *)
(* the settings are as unlock() leaves them; a key in the middle of a      *)
(* cycle is Settings' matter.  Collapsing, and where that moves the        *)
(* selection, is left out, as is a detailed process that was not read.     *)
(***************************************************************************)
EXTENDS Integers, Sequences, SequencesExt

CONSTANTS
  Listings,    \* the lists of pids that may be in the box
  BoxRows,     \* Proc::select_max: height - 3
  DetailRows   \* 8, what the details take

ASSUME ProcViewAssumption ==
  /\ Listings \subseteq Seq(Nat \ {0}) /\ \A l \in Listings : IsInjective(l)
  /\ DetailRows \in Nat \ {0} /\ BoxRows \in Nat /\ BoxRows > DetailRows + 1

VARIABLES
  rows,            \* the list, without what is filtered or collapsed
  start, selected, lastSelected,         \* proc_start, proc_selected, proc_last_selected
  selectedPid,                           \* selected_pid
  follow, followedPid, followed,         \* follow_process, followed_pid, proc_followed
  returns,                               \* should_selection_return_to_followed
  updateFollowing,                       \* update_following
  detailedPid, restorePid,               \* detailed_pid, 0 without show_detailed, restore_detailed_pid
  followDetailed,                        \* proc_follow_detailed
  pauseList,                             \* pause_proc_list
  bannerShown, previousBanner,           \* proc_banner_shown, previous_proc_banner_state
  pressed                                \* the key since the last draw

position == <<start, selected>>
following == <<follow, followedPid, followed>>
drawn == <<rows, selectedPid, bannerShown, previousBanner, followDetailed>>
procViewVars == <<position, lastSelected, following, returns, updateFollowing,
                  detailedPid, restorePid, pauseList, drawn, pressed>>

AtLeast0(n) == IF n > 0 THEN n ELSE 0
AtMost(n, m) == IF n > m THEN m ELSE n

\* select_max as selection() and draw() make it.
SelectMax(detailed, banner) ==
  BoxRows - (IF detailed THEN DetailRows ELSE 0) - (IF banner THEN 1 ELSE 0)
Detailed == detailedPid # 0

ProcViewTypeOK ==
  /\ rows \in Listings \cup {<<>>}
  /\ {start, lastSelected, followed, selectedPid, followedPid, detailedPid, restorePid} \subseteq Nat
  /\ selected \in Nat
  /\ {follow, returns, updateFollowing, pauseList, bannerShown, previousBanner,
      followDetailed} \subseteq BOOLEAN

Stopped == follow' = FALSE /\ followedPid' = 0 /\ followed' = 0
Quiet == pressed = "none"

---------------------------------------------------------------------------
(* Keys.                                                                   *)

\* selection(): where a command moves from row at, with max rows in view.
Commands == {"up", "down", "page_up", "page_down", "home", "end", "scroll"}
Destination(cmd, at, max) ==
  LET top == AtLeast0(Len(rows) - max)
      To(s, row, last) == {[start |-> s, selected |-> row, last |-> last]}
  IN  CASE cmd = "up" ->
             IF at = 0 THEN To(start, at, lastSelected)
             ELSE IF start > 0 /\ at = 1 THEN To(start - 1, at, 0)
             ELSE To(start, at - 1, 0)
        [] cmd = "down" ->
             IF start < Len(rows) - max /\ at = max THEN To(start + 1, at, lastSelected)
             ELSE IF at = 0 /\ lastSelected > 0 THEN To(start, lastSelected, 0)
             ELSE To(start, at + 1, lastSelected)
        [] cmd = "page_up" ->
             IF at > 0 /\ start = 0 THEN To(start, 0, lastSelected)
             ELSE To(AtLeast0(start - max), at, lastSelected)
        [] cmd = "page_down" ->
             IF at > 0 /\ start >= Len(rows) - max THEN To(start, max, lastSelected)
             ELSE To(AtMost(start + max, top), at, lastSelected)
        [] cmd = "home" -> To(0, AtMost(at, 1), lastSelected)
        [] cmd = "end" -> To(top, IF at > 0 THEN max ELSE 0, lastSelected)
        \* the wheel, and the scroll bar, which leads anywhere
        [] cmd = "scroll" -> UNION {To(s, at, lastSelected) : s \in 0 .. top}

\* The first move ends following, unless the list is paused, and takes the
\* selection back from the details to the row that was followed.
Selection ==
  /\ Quiet
  /\ LET back == follow /\ Detailed /\ selected = 0 /\ returns /\ detailedPid = followedPid
         ends == follow /\ ~ pauseList
         at == IF back THEN followed ELSE selected
         max == SelectMax(Detailed, bannerShown) + (IF ends THEN 1 ELSE 0)
     IN  /\ \E cmd \in Commands : \E to \in Destination(cmd, at, max) :
              /\ start' = to.start /\ selected' = to.selected /\ lastSelected' = to.last
              /\ pressed' = IF back \/ position' # position THEN "move" ELSE "none"
         /\ returns' = (returns /\ ~ back)
         /\ IF ends THEN Stopped ELSE UNCHANGED following
  /\ UNCHANGED <<updateFollowing, detailedPid, restorePid, pauseList, drawn>>

\* enter: opens the details of what is selected, or closes those there are.
OpenDetails ==
  /\ selected > 0 /\ detailedPid # selectedPid
  /\ detailedPid' = selectedPid
  /\ lastSelected' = selected /\ selected' = 0
  /\ IF followDetailed THEN follow' = TRUE /\ followedPid' = selectedPid
     ELSE UNCHANGED <<follow, followedPid>>
  /\ UNCHANGED <<followed, restorePid>>

CloseDetails ==
  /\ Detailed /\ (selected = 0 \/ detailedPid = selectedPid)
  /\ IF followDetailed
     THEN /\ restorePid' = detailedPid
          /\ IF follow /\ followedPid = detailedPid THEN Stopped ELSE UNCHANGED following
          /\ UNCHANGED selected
     ELSE /\ selected' = IF lastSelected > 0 THEN lastSelected ELSE selected
          /\ UNCHANGED <<following, restorePid>>
  /\ lastSelected' = 0 /\ detailedPid' = 0

EnterDone ==
  /\ OpenDetails \/ CloseDetails
  /\ updateFollowing' = TRUE
  /\ pressed' = "enter"
  /\ UNCHANGED <<start, returns, pauseList, drawn>>

Enter == Quiet /\ EnterDone

\* A click on a line of the box, the header being line 0, or outside it.
Click ==
  /\ Quiet
  /\ \E line \in 0 .. SelectMax(Detailed, FALSE) :
       \/ line = selected /\ EnterDone
       \/ /\ line # selected /\ ~ (bannerShown /\ line = SelectMax(Detailed, FALSE))
          /\ selected' = line
          /\ IF follow /\ ~ pauseList THEN Stopped ELSE UNCHANGED following
          /\ pressed' = "click"
          /\ UNCHANGED <<start, lastSelected, returns, updateFollowing, detailedPid,
                         restorePid, pauseList, drawn>>

\* F: what is selected, or detailed, is followed, or no longer.
FollowKey ==
  /\ Quiet
  /\ LET pid == IF selected # 0 THEN selectedPid ELSE detailedPid
     IN  IF followedPid # pid /\ (selected # 0 \/ Detailed)
         THEN /\ follow' = TRUE /\ followedPid' = pid
              /\ updateFollowing' = TRUE
              /\ UNCHANGED <<selected, followed, restorePid>>
         ELSE /\ follow /\ Stopped
              /\ selected' = IF returns THEN followed ELSE selected
              /\ restorePid' = IF ~ returns /\ Detailed /\ followedPid = detailedPid
                               THEN detailedPid ELSE restorePid
              /\ UNCHANGED updateFollowing
  /\ pressed' = "F"
  /\ UNCHANGED <<start, lastSelected, returns, detailedPid, pauseList, drawn>>

\* u
PauseKey ==
  /\ Quiet
  /\ pauseList' = ~ pauseList
  /\ pressed' = "u"
  /\ UNCHANGED <<position, lastSelected, following, returns, updateFollowing,
                 detailedPid, restorePid, drawn>>

\* The keys that sort the list anew.
SortKey ==
  /\ Quiet
  /\ updateFollowing' = TRUE
  /\ pressed' = "sort"
  /\ UNCHANGED <<position, lastSelected, following, returns, detailedPid, restorePid,
                 pauseList, drawn>>

---------------------------------------------------------------------------
(* draw()                                                                  *)

\* Where draw_proc_follow_logic() finds the view and the row for place loc
\* of n.
PlaceOf(pid, list) == CHOOSE n \in DOMAIN list : list[n] = pid
MiddleOf(max) == (max + 1) \div 2
LocatedInMiddle(loc, n, max) ==                  \* slip: at the end of the list too
  [start |-> AtLeast0(loc - MiddleOf(max)), row |-> AtMost(loc, MiddleOf(max))]
Located(loc, n, max) ==
  LET s == AtLeast0(loc - MiddleOf(max))
  IN  [start |-> s, row |-> IF loc < MiddleOf(max) THEN loc
                            ELSE IF s > n - max THEN max - n + loc ELSE MiddleOf(max)]

\* When the banner comes or goes at the end of the list.
EdgeMovedUnpaused(at, went, n, max) ==           \* slip: not when it comes
  IF went /\ at.start + max - 1 = n THEN [at EXCEPT !.row = @ + 1] ELSE at
EdgeMoved(at, went, n, max) ==
  IF went /\ at.start + max - 1 = n THEN [at EXCEPT !.row = @ + 1]
  ELSE IF pauseList /\ at.row > max THEN [at EXCEPT !.start = @ + 1]
  ELSE at

\* draw() itself keeps both in bounds.
InViewOfRows(at, n, max) ==                       \* slip: by the rows alone
  [start |-> AtMost(at.start, AtLeast0(n - max)), row |-> AtMost(at.row, max)]
InView(at, n, max) ==
  [start |-> AtMost(at.start, AtLeast0(n - max)), row |-> AtMost(AtMost(at.row, max), n)]

\* The process that the view has to be moved to, if there is one.
Target == IF restorePid > 0 THEN restorePid ELSE followedPid
Looks == (follow /\ (~ pauseList \/ updateFollowing)) \/ restorePid > 0
Found(list) == Looks /\ Contains(list, Target)
Lost(list) == Looks /\ restorePid = 0 /\ ~ Contains(list, Target)

DrawMax == SelectMax(Detailed, pauseList \/ follow)
LocatedIn(list) == Located(PlaceOf(Target, list), Len(list), DrawMax)
Banner(list) == pauseList \/ (follow /\ ~ Lost(list))

MovedTo(list) ==
  IF ~ Found(list) THEN [start |-> start, row |-> selected]
  ELSE [LocatedIn(list) EXCEPT !.row = IF followedPid = detailedPid /\ restorePid = 0
                                       THEN 0 ELSE @]
Kept(list) ==
  InView(EdgeMoved(MovedTo(list), previousBanner /\ ~ Banner(list), Len(list),
                    IF Lost(list) /\ ~ Banner(list) THEN DrawMax + 1 ELSE DrawMax),
          Len(list), DrawMax)

Draw ==
  /\ \E list \in Listings :
       LET at == Kept(list) IN
       /\ rows' = list /\ start' = at.start /\ selected' = at.row
       /\ selectedPid' = IF at.row = 0 THEN 0
                         ELSE IF at.start + at.row > Len(list) THEN selectedPid
                         ELSE list[at.start + at.row]
       /\ IF Lost(list) THEN Stopped
          ELSE /\ followed' = IF Found(list) /\ restorePid = 0 THEN LocatedIn(list).row
                             ELSE followed
               /\ UNCHANGED <<follow, followedPid>>
       /\ returns' = (returns \/ (Found(list) /\ restorePid = 0))
       /\ bannerShown' = Banner(list) /\ previousBanner' = Banner(list)
  /\ updateFollowing' = (updateFollowing /\ ~ Looks)
  /\ restorePid' = 0
  /\ pressed' = "none"
  /\ UNCHANGED <<lastSelected, detailedPid, followDetailed, pauseList>>

ProcViewInit ==
  /\ rows = <<>> /\ start = 0 /\ selected = 0 /\ lastSelected = 0 /\ selectedPid = 0
  /\ follow = FALSE /\ followedPid = 0 /\ followed = 0 /\ returns = FALSE
  /\ updateFollowing = FALSE
  /\ detailedPid = 0 /\ restorePid = 0 /\ followDetailed \in BOOLEAN
  /\ pauseList = FALSE /\ bannerShown = FALSE /\ previousBanner = FALSE
  /\ pressed = "first"

ProcViewNext == Selection \/ Enter \/ Click \/ FollowKey \/ PauseKey \/ SortKey \/ Draw

ProcViewSpec == ProcViewInit /\ [][ProcViewNext]_procViewVars

---------------------------------------------------------------------------
(* Properties.                                                             *)

\* Between a draw and the next key what is selected is a row in view, and
\* selected_pid, which signals go to, is the process that is there, however
\* the list, the details, the banner and the selection changed before; at
\* most the row of a banner stays empty.  (draw, selection)
SelectedIsShown ==
  Quiet =>
    /\ start = 0 \/ start + SelectMax(Detailed, TRUE) <= Len(rows)
    /\ selected <= SelectMax(Detailed, bannerShown)
    /\ IF selected = 0 THEN selectedPid = 0
       ELSE start + selected <= Len(rows) /\ rows[start + selected] = selectedPid

\* After a draw the process that is followed is on the row that is selected
\* or, with its details on top, on the one the selection returns to; as long
\* as the list fills the box, and but for the draw that closes the details
\* of another.  (draw_proc_follow_logic)
FollowedIsSelected ==
  [][(/\ pressed' = "none" /\ restorePid = 0
      /\ follow' /\ ~ pauseList'
      /\ Contains(rows', followedPid') /\ Len(rows') >= SelectMax(detailedPid' # 0, FALSE))
     => rows'[start' + (IF followedPid' = detailedPid' THEN followed' ELSE selected')]
          = followedPid']_procViewVars

\* Pausing a list that fills the box, and going on, keeps the process that
\* is selected, although the banner takes the last row and gives it back.
\* (draw_proc_follow_logic, draw)
PauseKeepsSelection ==
  [][(/\ pressed = "u" /\ rows' = rows /\ ~ follow /\ selected > 0
      /\ Len(rows) >= SelectMax(Detailed, FALSE))
     => selectedPid' = selectedPid]_procViewVars
=============================================================================
