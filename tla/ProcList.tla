------------------------------ MODULE ProcList ------------------------------
(***************************************************************************)
(* Proc::collect() of linux/btop_collect.cpp and the tree of               *)
(* btop_shared.cpp: which processes are listed, which of them the filter   *)
(* and collapsed branches hide, and how many that leaves.                  *)
(*                                                                         *)
(* proc_map keeps what was read of a process as long as its pid is there;  *)
(* current_procs is built anew from it at every update, then sorted,       *)
(* filtered and made a tree in place.  Between two calls the system        *)
(* changes in any way, and one key may be pressed.  A process is its pid   *)
(* and its parent: usage, names, details and the order of the list are     *)
(* left out, kernel threads are not filtered, and there are fewer          *)
(* processes than SOA_THRESHOLD.                                           *)
(***************************************************************************)
EXTENDS Integers, FiniteSets

CONSTANTS
  Pids,      \* process ids; 1 is init
  Systems,   \* what an update may find: who runs, and whose child
  Filters,   \* what can be typed: the processes that match it
  NoFilter,  \* the empty filter
  FoldKeys   \* +, -, space and C: "expand", "collapse", "flip", "children"

ASSUME ProcListAssumption ==
  /\ IsFiniteSet(Pids) /\ Pids \subseteq Nat \ {0} /\ 1 \in Pids
  /\ \A f \in Systems : /\ 1 \in DOMAIN f /\ DOMAIN f \subseteq Pids
                        /\ \A p \in DOMAIN f : IF p = 1 THEN f[p] = 0 ELSE f[p] \in DOMAIN f
  /\ Filters \subseteq SUBSET Pids /\ NoFilter \notin Filters
  /\ FoldKeys \subseteq {"expand", "collapse", "flip", "children"}

VARIABLES
  procMap,       \* proc_map: the parent that was last read
  alivePids,     \* alive_pids
  deadProcs,     \* dead_procs
  entries,       \* current_procs
  filterFound, numpids,
  procFilter, procTree, paused,  \* proc_filter, proc_tree, pause_proc_list: as the
                 \* last call found them, current_filter and is_tree_mode with them
  muddled        \* since the last update of a list that was not paused, one was
                 \* stopped, or the tree was made again with branches collapsed
                 \* (no state of btop)

procListVars == <<procMap, alivePids, deadProcs, entries, filterFound, numpids,
                  procFilter, procTree, paused, muddled>>

Entry(ppid) == [ppid |-> ppid, collapsed |-> FALSE, filtered |-> FALSE]
Hidden(list) == {p \in DOMAIN list : list[p].filtered}
Rows == DOMAIN entries \ Hidden(entries)  \* what draw_proc_list() does not skip

ProcListTypeOK ==
  /\ DOMAIN procMap \subseteq Pids /\ DOMAIN entries \subseteq DOMAIN procMap
  /\ alivePids \subseteq Pids /\ deadProcs \subseteq DOMAIN procMap
  /\ \A p \in DOMAIN entries : entries[p].ppid \in Pids \cup {0}
  /\ filterFound \in Nat /\ numpids \in Int
  /\ procFilter \in Filters \cup {NoFilter}
  /\ procTree \in BOOLEAN /\ paused \in BOOLEAN /\ muddled \in BOOLEAN

---------------------------------------------------------------------------
(* The tree of a list.                                                     *)

Children(list, q) == {p \in DOMAIN list : list[p].ppid = q}
Roots(list) == {p \in DOMAIN list : \A q \in DOMAIN list : list[p].ppid <= list[q].ppid}

\* p and the processes above it, up to a root: what every set has that has
\* p and, with a process that is no root, its parent.
Closed(list, roots, S) ==
  \A q \in S \ roots : list[q].ppid \in DOMAIN list => list[q].ppid \in S
UpFrom(list, roots, p) ==
  {q \in DOMAIN list : \A S \in SUBSET DOMAIN list : p \in S /\ Closed(list, roots, S) => q \in S}
Reached(list) == {p \in DOMAIN list : UpFrom(list, Roots(list), p) \cap Roots(list) # {}}

\* _tree_gen() from each of the roots: the list and what is added to
\* filter_found.  matching is what the filter lets through, with all that
\* is below it; asks: it is looked at, since there is one or the flags were
\* just reset; update: usage is added up.
TreeGen(list, matching, asks, update) ==
  LET roots == Roots(list)
      up == [p \in DOMAIN list |-> UpFrom(list, roots, p)]
      reached == {p \in DOMAIN list : up[p] \cap roots # {}}
      found == {p \in reached : asks /\ (up[p] \ {p}) \cap matching # {}}
      filtering == {p \in reached \ (found \cup matching) : asks}
      collapsed == {p \in reached : \E q \in up[p] \ {p} : list[q].collapsed}
      swallowed == {p \in collapsed \ roots : update /\ list[p].ppid \notin filtering}
      cleared == {p \in reached \ filtering : ~ asks \/ p \in found}
      above == {p \in collapsed \ filtering : Children(list, p) # {}}
  IN  [list |-> [p \in DOMAIN list |-> [list[p] EXCEPT !.filtered =
                   \/ p \in filtering \cup above \cup swallowed
                   \/ @ /\ p \notin cleared]],
       hidden |-> Cardinality(filtering) + Cardinality(swallowed)]

---------------------------------------------------------------------------
(* collect()                                                               *)

\* What one key did since the last call: a change of the settings, or a fold,
\* asked for on a row of the tree.
AsNoted == [filter |-> procFilter, tree |-> procTree, paused |-> paused]
Settings == {AsNoted, [AsNoted EXCEPT !.tree = ~ @], [AsNoted EXCEPT !.paused = ~ @]}
            \cup {[AsNoted EXCEPT !.filter = f] : f \in Filters \cup {NoFilter}}
Folds(s) == {[key |-> "none", pid |-> 0]}
            \cup IF s = AsNoted /\ procTree THEN [key : FoldKeys, pid : Rows] ELSE {}
Matching(s) == IF s.filter = NoFilter THEN Pids ELSE s.filter

TakeNote(s) == procFilter' = s.filter /\ procTree' = s.tree /\ paused' = s.paused

\* The filter outside the tree, if it is new or the list is.
FilterPassOnce(list, s, should) ==               \* slip: the tree keeps the flags
  [p \in DOMAIN list |-> IF should /\ ~ s.tree
     THEN [list[p] EXCEPT !.filtered = p \notin Matching(s)] ELSE list[p]]
FilterPass(list, s, should) ==
  [p \in DOMAIN list |->
     IF should THEN [list[p] EXCEPT !.filtered = ~ s.tree /\ p \notin Matching(s)] ELSE list[p]]

\* collapse, expand, toggle_children.
Folded(list, fold) ==
  [p \in DOMAIN list |-> [list[p] EXCEPT !.collapsed =
     IF fold.key = "children" /\ fold.pid \in DOMAIN list /\ list[p].ppid = fold.pid THEN ~ @
     ELSE IF p # fold.pid THEN @
     ELSE IF fold.key = "flip" THEN ~ @
     ELSE (fold.key = "collapse") \/ (@ /\ fold.key # "expand")]]

\* A parent that is gone is none, unless the list is paused.
Adopted(list, s, alive) ==
  [p \in DOMAIN list |-> [list[p] EXCEPT !.ppid = IF ~ s.paused /\ @ \notin alive THEN 0 ELSE @]]

\* Filter, sort and tree, with or without an update before.
Arrange(list, s, alive, update, resorted, fold) ==
  LET should == update \/ s.filter # procFilter
      passed == FilterPass(list, s, should)
      counted == IF should THEN Cardinality(Hidden(passed)) ELSE filterFound
      grows == s.tree /\ (should \/ resorted)
      tree == Adopted(Folded(passed, fold), s, alive)
      asks == should \/ s.filter # NoFilter
      grown == TreeGen(tree, Matching(s), asks, update)
      found == IF grows THEN (IF asks THEN 0 ELSE counted) + grown.hidden ELSE counted
  IN  /\ entries' = IF grows THEN grown.list ELSE passed
      /\ filterFound' = found
      /\ numpids' = Cardinality(DOMAIN list) - found
      /\ muddled' = IF update THEN muddled /\ s.paused
                    ELSE \/ muddled
                         \/ grows /\ \E p \in DOMAIN tree : tree[p].collapsed \/ list[p].collapsed

\* What is read: no process joins a paused list, and the dead ones of it
\* have their pid to themselves.
MapJoined(system, s) ==                          \* slip: some do
  [p \in DOMAIN procMap \cup DOMAIN system |->
     IF p \in DOMAIN system \ deadProcs THEN system[p] ELSE procMap[p]]
MapAfterRead(system, s) ==
  [p \in DOMAIN procMap \cup (IF s.paused THEN {} ELSE DOMAIN system) |->
     IF p \in DOMAIN system \ deadProcs THEN system[p] ELSE procMap[p]]

CollectAll ==
  \E s \in Settings, system \in Systems : \E fold \in Folds(s) :
    LET alive == DOMAIN system
        known == MapAfterRead(system, s)
        kept == IF s.paused THEN known ELSE [p \in alive |-> known[p]]
    IN  /\ alivePids' = alive /\ procMap' = kept
        /\ deadProcs' = IF s.paused THEN deadProcs \cup (DOMAIN procMap \ alive) ELSE {}
        /\ Arrange([p \in DOMAIN kept |-> Entry(kept[p])], s, alive, TRUE, FALSE, fold)
        /\ TakeNote(s)

\* no_update: the list there is.
CollectAgain ==
  /\ DOMAIN entries # {}
  /\ \E s \in Settings, resorted \in BOOLEAN : \E fold \in Folds(s) :
       Arrange(entries, s, alivePids, FALSE, resorted, fold) /\ TakeNote(s)
  /\ UNCHANGED <<procMap, alivePids, deadProcs>>

\* is_stopping() in the middle of the directory, which is in the order of
\* pids: what is new of the settings is noted and nothing done about it.
CollectStopped ==
  /\ \E s \in Settings, S \in {{p \in DOMAIN f : p <= upTo} : f \in Systems, upTo \in Pids} :
       /\ alivePids' = S
       /\ procMap' = [p \in DOMAIN procMap \cup (IF s.paused THEN {} ELSE S) |->
                        IF p \in DOMAIN procMap THEN procMap[p] ELSE 0]
       /\ TakeNote(s)
  /\ muddled' = TRUE
  /\ UNCHANGED <<deadProcs, entries, filterFound, numpids>>

ProcListInit ==
  /\ procMap = [p \in {} |-> 0] /\ entries = [p \in {} |-> Entry(0)]
  /\ alivePids = {} /\ deadProcs = {}
  /\ filterFound = 0 /\ numpids = 0
  /\ procFilter = NoFilter /\ procTree = FALSE /\ paused = FALSE
  /\ muddled = FALSE

ProcListNext == CollectAll \/ CollectAgain \/ CollectStopped

ProcListSpec == ProcListInit /\ [][ProcListNext]_procListVars

---------------------------------------------------------------------------
(* Properties.                                                             *)

\* The number of processes below the box is the number of its rows, with a
\* filter, with collapsed branches and whatever came and went, until the
\* tree is made again without an update, an update is stopped, a process is
\* collapsed that is itself hidden, or, in a paused list, one has a parent
\* that may not join.  (_tree_gen, collect)
ShownCounted ==
  (/\ ~ muddled
   /\ \A p \in Hidden(entries) : ~ entries[p].collapsed
   /\ Reached(entries) = DOMAIN entries)
    => numpids = Cardinality(Rows)

\* A paused list keeps its processes, dead ones too, and none joins it but
\* those that an update which was stopped had found.  (collect)
PausedListKept ==
  [][paused /\ paused' => /\ DOMAIN entries \subseteq DOMAIN entries'
                         /\ DOMAIN entries' \subseteq DOMAIN procMap]_procListVars
=============================================================================
