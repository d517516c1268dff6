------------------------------ MODULE Settings ------------------------------
(***************************************************************************)
(* The settings of btop_config.cpp and the layout that follows from them.  *)
(*                                                                         *)
(* While the runner may be reading them the settings are locked: a setter  *)
(* writes to a second set of arrays, which unlock() moves over.  The boxes *)
(* are kept twice more, as current_boxes, which the runner collects and    *)
(* draws, and as what Draw::calcSizes() laid out.  Keys, the options menu, *)
(* presets, a terminal that is too small, SIGUSR2 and a restart change     *)
(* them.  A list of boxes is a sequence; of the many settings one of each  *)
(* role is kept, and the graph symbols of presets are left out.  That      *)
(* unlock() has waited for the runner is Runner's matter and taken as      *)
(* given: the runner is only seen as a cycle that reads.                   *)
(***************************************************************************)
EXTENDS Integers, Sequences, FiniteSets, SequencesExt

CONSTANTS
  Boxes,        \* the valid_boxes
  Present,      \* those that set_boxes() accepts: gpuN is not one without a GPU
  DefaultBoxes, \* "cpu mem net proc"
  FullPreset,   \* preset_list[0]: all boxes, as they are by default
  PresetLists,  \* what the setting presets can hold
  BoxLists,     \* what shown_boxes is edited to, in the menu or the file
  Switches,     \* the values of disable_presets
  Positions,    \* values of proc_selected
  RoomSizes     \* sizes of the terminal, as the number of boxes that fit

ASSUME SettingsAssumption ==
  /\ IsFiniteSet(Boxes) /\ Present \subseteq Boxes
  /\ DefaultBoxes \in Seq(Present)
  /\ FullPreset \in Seq([box : Boxes, flag : BOOLEAN])
  /\ PresetLists \subseteq Seq(Seq([box : Boxes, flag : BOOLEAN]))
  /\ BoxLists \subseteq Seq(Boxes)
  /\ Switches \subseteq {"Off", "Default", "Custom", "All"} /\ "Off" \in Switches
  /\ RoomSizes \subseteq Nat /\ Positions \subseteq Nat

VARIABLES
  mode,         \* "small" the terminal is, "run", "quit", "crashed"
  locked,       \* locked
  values,       \* bools, ints, strings: what getters return
  cache,        \* boolsTmp, intsTmp, stringsTmp: those that have a value
  writeNew,     \* write_new
  file,         \* btop.conf
  currentBoxes, \* current_boxes
  presetList,   \* preset_list
  currentPreset,\* current_preset, NoPreset without a value
  laidOut,      \* the boxes calcSizes() found in shown_boxes
  procSelected, \* Proc::selected, the runner's
  cycle,        \* the runner is in a cycle
  roomFor,      \* the size of the terminal
  wanted,       \* the value each setting was last given (no state of btop)
  reloaded      \* SIGUSR2 was answered since the start (no state of btop)

settingsVars == <<mode, locked, values, cache, writeNew, file, currentBoxes,
                  presetList, currentPreset, laidOut, procSelected, cycle,
                  roomFor, wanted, reloaded>>
stores == <<values, cache, writeNew, wanted>>
layout == <<currentBoxes, presetList, currentPreset, laidOut>>
outside == <<file, roomFor, reloaded>>

NoPreset == -1
FileKeys == {"shown_boxes", "cpu_bottom", "disable_presets", "presets"}
Keys == FileKeys \cup {"proc_selected"}
Empty == [k \in {} |-> 0]

Only(k, v) == [j \in {k} |-> v]
Merged(upd, f) == [k \in DOMAIN upd \cup DOMAIN f |->
                     IF k \in DOMAIN upd THEN upd[k] ELSE f[k]]

\* get_min_size() against the terminal.
Fits(boxes) == Len(boxes) <= roomFor
Ready == mode = "run" /\ ~ cycle

---------------------------------------------------------------------------
(* set(), flip(), unlock()                                                 *)

PutValuesAlways(upd) == Merged(upd, values)    \* slip: does not ask for locked
PutValues(upd) == IF locked THEN values ELSE Merged(upd, values)
PutCache(upd) == IF locked THEN Merged(upd, cache) ELSE cache

\* _locked() notes that the file is out of date.
NotedUnlocked(upd) ==                          \* slip: only when it is not locked
  writeNew \/ (~ locked /\ DOMAIN upd \cap FileKeys # {})
Noted(upd) == writeNew \/ DOMAIN upd \cap FileKeys # {}

\* unlock() moves the cache over, after the fields the runner owns while
\* its box is shown.
Owned == locked /\ "proc" \in ToSet(laidOut)
FlushedOwned(v, c) ==                          \* slip: the runner's fields last
  [k \in Keys |-> IF k = "proc_selected" /\ Owned THEN procSelected
                  ELSE IF k \in DOMAIN c THEN c[k] ELSE v[k]]
Flushed(v, c) ==
  [k \in Keys |-> IF k \in DOMAIN c THEN c[k]
                  ELSE IF k = "proc_selected" /\ Owned THEN procSelected ELSE v[k]]
Unlocked(v, c) == IF locked THEN Flushed(v, c) ELSE v

\* What the user and the runner are owed by then.
WantedUnlocked ==
  IF Owned /\ "proc_selected" \notin DOMAIN cache
  THEN Merged(Only("proc_selected", procSelected), wanted) ELSE wanted

Store(upd) ==
  /\ values' = PutValues(upd) /\ cache' = PutCache(upd)
  /\ writeNew' = Noted(upd)
  /\ wanted' = Merged(upd, wanted)

StoreAndUnlock(upd) ==
  /\ values' = Unlocked(PutValues(upd), PutCache(upd))
  /\ cache' = Empty
  /\ writeNew' = Noted(upd)
  /\ wanted' = Merged(upd, WantedUnlocked)

\* The end of a handler that changes the layout: its setters, calcSizes(),
\* which unlocks, and run(), which locks for the next cycle.
StoreAndLayout(upd) ==
  /\ StoreAndUnlock(upd)
  /\ laidOut' = values'["shown_boxes"]
  /\ locked' = TRUE /\ cycle' = TRUE

---------------------------------------------------------------------------
(* The runner.                                                             *)

\* run(): unlock(), lock() and a cycle with a copy of current_boxes.
RunCycle ==
  /\ Ready
  /\ StoreAndUnlock(Empty)
  /\ locked' = TRUE /\ cycle' = TRUE
  /\ UNCHANGED <<mode, layout, procSelected, outside>>

\* The main loop unlocks before it reads a key, when the runner is idle.
UnlockIdle ==
  /\ Ready /\ locked
  /\ StoreAndUnlock(Empty)
  /\ locked' = FALSE
  /\ UNCHANGED <<mode, layout, procSelected, cycle, outside>>

\* Proc::draw() keeps the selection in bounds, and calls setters itself.
CycleMoves ==
  /\ cycle
  /\ \/ procSelected' \in Positions /\ UNCHANGED stores
     \/ /\ \E n \in Positions : Store(Only("proc_selected", n))
        /\ UNCHANGED procSelected
  /\ UNCHANGED <<mode, locked, layout, cycle, outside>>

CycleEnds ==
  /\ cycle
  /\ cycle' = FALSE
  /\ UNCHANGED <<mode, locked, stores, layout, procSelected, outside>>

---------------------------------------------------------------------------
(* Keys and the options menu.  Handlers that change the layout wait for    *)
(* the runner first; the others may run beside it.                         *)

\* The up and down keys, and the like.
SetSelected ==
  /\ mode = "run"
  /\ \E n \in Positions : Store(Only("proc_selected", n))
  /\ UNCHANGED <<mode, locked, layout, procSelected, cycle, outside>>

\* toggle_box(): the box leaves or joins the end; a list that does not fit
\* is taken back.
Toggled(b) == IF b \in ToSet(currentBoxes)
              THEN SelectSeq(currentBoxes, LAMBDA c : c # b)
              ELSE Append(currentBoxes, b)

\* Keys 1 to 4: a box that does not fit brings up the size error.
ToggleBoxKept ==                               \* slip: current_boxes not taken back
  /\ Ready
  /\ \E b \in Present :
       /\ currentBoxes' = Toggled(b)
       /\ IF Fits(Toggled(b)) THEN StoreAndLayout(Only("shown_boxes", Toggled(b)))
          ELSE UNCHANGED <<locked, stores, laidOut, cycle>>
  /\ currentPreset' = NoPreset
  /\ UNCHANGED <<mode, presetList, procSelected, outside>>

ToggleBox ==
  /\ Ready
  /\ \E b \in Present :
       /\ Fits(Toggled(b))
       /\ currentBoxes' = Toggled(b)
       /\ StoreAndLayout(Only("shown_boxes", Toggled(b)))
  /\ currentPreset' = NoPreset
  /\ UNCHANGED <<mode, presetList, procSelected, outside>>

\* set_boxes()
Settable(boxes) == ToSet(boxes) \subseteq Present

BoxesOf(preset) == [n \in DOMAIN preset |-> preset[n].box]

\* apply_preset() sets the position of each of the boxes, cpu_bottom here,
\* and then, if set_boxes() knows them all, the boxes.
Flags(preset) ==
  LET cpu == {n \in DOMAIN preset : preset[n].box = "cpu"}
  IN  IF cpu = {} THEN Empty
      ELSE Only("cpu_bottom", preset[CHOOSE n \in cpu : \A m \in cpu : m <= n].flag)

\* p and P.
FirstPreset == IF values["disable_presets"] = "Default" THEN 1 ELSE 0
LastPreset == Len(presetList) - 1
NextPresetLate ==                              \* slip: wraps one too late
  IF values["disable_presets"] = "Custom" THEN 0
  ELSE IF currentPreset = NoPreset \/ currentPreset > LastPreset THEN FirstPreset
  ELSE currentPreset + 1
NextPreset ==
  IF values["disable_presets"] = "Custom" THEN 0
  ELSE IF currentPreset = NoPreset \/ currentPreset + 1 > LastPreset THEN FirstPreset
  ELSE currentPreset + 1
PreviousPreset ==
  IF values["disable_presets"] = "Custom" THEN 0
  ELSE IF currentPreset = NoPreset \/ currentPreset - 1 < FirstPreset THEN LastPreset
  ELSE currentPreset - 1

PresetAllowed ==
  /\ values["disable_presets"] # "All"
  /\ values["disable_presets"] = "Default" => Len(presetList) > 1

PresetApplied(n) ==
  LET boxes == BoxesOf(presetList[n + 1])
  IN  /\ Fits(boxes) /\ Settable(boxes)
      /\ currentBoxes' = boxes
      /\ StoreAndLayout(Merged(Only("shown_boxes", boxes), Flags(presetList[n + 1])))
      /\ currentPreset' = n
      /\ UNCHANGED <<mode, presetList, procSelected, outside>>

\* A box of it is not there: the size error, with the positions changed.
PresetRefused(n) ==
  LET boxes == BoxesOf(presetList[n + 1])
  IN  /\ Fits(boxes) /\ ~ Settable(boxes)
      /\ Store(Flags(presetList[n + 1]))
      /\ UNCHANGED <<mode, locked, layout, procSelected, cycle, outside>>

\* preset_list.at() throws, and nothing catches it.
PresetMissing ==
  /\ mode' = "crashed"
  /\ UNCHANGED <<locked, stores, layout, procSelected, cycle, outside>>

PresetKey ==
  /\ Ready /\ PresetAllowed
  /\ \E n \in {NextPreset, PreviousPreset} \ {currentPreset} :
       IF n + 1 \in DOMAIN presetList THEN PresetApplied(n) \/ PresetRefused(n)
       ELSE PresetMissing

\* The menu looks at the terminal and at set_boxes() before it sets
\* shown_boxes.
EditBoxes ==
  /\ Ready
  /\ \E boxes \in BoxLists \ {<<>>} :
       /\ Fits(boxes) /\ Settable(boxes)
       /\ currentBoxes' = boxes
       /\ StoreAndLayout(Only("shown_boxes", boxes))
  /\ currentPreset' = NoPreset
  /\ UNCHANGED <<mode, presetList, procSelected, outside>>

\* presetsValid()
ListOf(custom) == <<FullPreset>> \o custom

EditPresets ==
  /\ Ready
  /\ \E custom \in PresetLists :
       /\ presetList' = ListOf(custom)
       /\ StoreAndLayout(Only("presets", custom))
  /\ currentPreset' = NoPreset
  /\ UNCHANGED <<mode, currentBoxes, procSelected, outside>>

EditDisable ==
  /\ mode = "run"
  /\ \E s \in Switches :
       /\ Store(Only("disable_presets", s))
       /\ currentPreset' = IF s = "Off" THEN currentPreset ELSE NoPreset
  /\ UNCHANGED <<mode, locked, currentBoxes, presetList, laidOut, procSelected,
                 cycle, outside>>

---------------------------------------------------------------------------
(* The terminal, SIGUSR2, leaving and starting.                            *)

\* term_resize(): unlock(), and calcSizes() once the boxes fit.
TermResize ==
  /\ Ready
  /\ roomFor' \in RoomSizes
  /\ StoreAndUnlock(Empty)
  /\ locked' = FALSE
  /\ mode' = "small"
  /\ UNCHANGED <<layout, procSelected, cycle, file, reloaded>>

Grow ==
  /\ mode = "small" /\ ~ Fits(values["shown_boxes"])
  /\ roomFor' \in RoomSizes
  /\ UNCHANGED <<mode, locked, stores, layout, procSelected, cycle, file, reloaded>>

\* The keys 1 to 4 of that loop.
ToggleSmall ==
  /\ mode = "small" /\ ~ Fits(values["shown_boxes"])
  /\ currentPreset' = NoPreset
  /\ \E b \in Present :
       IF Fits(Toggled(b))
       THEN currentBoxes' = Toggled(b) /\ Store(Only("shown_boxes", Toggled(b)))
       ELSE UNCHANGED <<currentBoxes, stores>>
  /\ UNCHANGED <<mode, locked, presetList, laidOut, procSelected, cycle, outside>>

LargeEnough ==
  /\ mode = "small" /\ Fits(values["shown_boxes"])
  /\ StoreAndLayout(Empty)
  /\ mode' = "run"
  /\ UNCHANGED <<currentBoxes, presetList, currentPreset, procSelected, outside>>

\* What the user may have written to the file.
FileContents ==
  [shown_boxes : BoxLists, cpu_bottom : {FALSE}, disable_presets : {"Off"},
   presets : PresetLists]

\* init_config() reads the file into the arrays.  Until it is done,
\* stringValid() takes shown_boxes as it comes.
Load(f) ==
  /\ values' = Merged(f, Unlocked(values, cache))
  /\ wanted' = Merged(f, WantedUnlocked)
  /\ cache' = Empty
  /\ presetList' = ListOf(f.presets)

\* Reloading, with the Resizing that follows: current_boxes and
\* current_preset are not looked at.
Reload ==
  /\ Ready
  /\ \E f \in FileContents : Load(f) /\ file' = f
  /\ locked' = FALSE
  /\ mode' = "small"
  /\ reloaded' = TRUE
  /\ UNCHANGED <<writeNew, currentBoxes, currentPreset, laidOut, procSelected,
                 cycle, roomFor>>

\* clean_quit() has joined the runner; write() writes what getters return.
Quit ==
  /\ mode \in {"small", "run"} /\ ~ cycle
  /\ file' = IF writeNew THEN [k \in FileKeys |-> values[k]] ELSE file
  /\ mode' = "quit"
  /\ UNCHANGED <<locked, stores, layout, procSelected, cycle, roomFor, reloaded>>

\* A start: load(), set_boxes() or the default boxes, and the preset of the
\* command line, whose fitting is not asked for.
StartBoxes(f) == IF Settable(f.shown_boxes) THEN f.shown_boxes ELSE DefaultBoxes

StartUp ==
  /\ mode \in {"quit", "crashed"}
  /\ locked' = FALSE /\ cache' = Empty /\ cycle' = FALSE
  /\ presetList' = ListOf(file.presets)
  /\ \E n \in {NoPreset} \cup DOMAIN presetList' :
       LET asked == IF n = NoPreset THEN <<>> ELSE presetList'[n]
           boxes == BoxesOf(asked)
           shown == IF n # NoPreset /\ Fits(boxes) /\ Settable(boxes)
                    THEN boxes ELSE StartBoxes(file)
           flags == IF n # NoPreset /\ Fits(boxes) THEN Flags(asked) ELSE Empty
       IN  /\ values' = Merged(flags, Merged(Only("shown_boxes", shown),
                          Merged(file, Only("proc_selected", 0))))
           /\ wanted' = values'
           /\ currentBoxes' = shown
           /\ currentPreset' = IF n = NoPreset THEN NoPreset ELSE n - 1
           /\ writeNew' = (values' # Merged(file, Only("proc_selected", 0)))
  /\ mode' = "small"
  /\ laidOut' = <<>> /\ procSelected' = 0
  /\ reloaded' = FALSE
  /\ UNCHANGED <<file, roomFor>>

SettingsInit ==
  /\ mode = "quit"
  /\ locked = FALSE /\ cycle = FALSE
  /\ file = [shown_boxes |-> DefaultBoxes, cpu_bottom |-> FALSE,
             disable_presets |-> "Off", presets |-> <<>>]
  /\ values = Merged(file, Only("proc_selected", 0))
  /\ cache = Empty /\ wanted = values /\ writeNew = FALSE
  /\ currentBoxes = <<>> /\ laidOut = <<>>
  /\ presetList = ListOf(<<>>) /\ currentPreset = NoPreset
  /\ procSelected = 0
  /\ roomFor \in RoomSizes
  /\ reloaded = FALSE

SettingsNext ==
  \/ RunCycle \/ UnlockIdle \/ CycleMoves \/ CycleEnds
  \/ SetSelected \/ ToggleBox \/ PresetKey \/ EditBoxes \/ EditPresets \/ EditDisable
  \/ TermResize \/ Grow \/ ToggleSmall \/ LargeEnough \/ Reload \/ Quit \/ StartUp

SettingsSpec == SettingsInit /\ [][SettingsNext]_settingsVars

---------------------------------------------------------------------------
(* Properties.                                                             *)

SettingsTypeOK ==
  /\ mode \in {"small", "run", "quit", "crashed"}
  /\ DOMAIN values = Keys /\ DOMAIN wanted = Keys /\ DOMAIN cache \subseteq Keys
  /\ locked \in BOOLEAN /\ cycle \in BOOLEAN /\ writeNew \in BOOLEAN
  /\ currentPreset \in Nat \cup {NoPreset}

\* No value that was set is lost between lock() and unlock(), whoever set it,
\* and none is left behind in the cache.  (set, flip, unlock)
LastSetWins ==
  /\ \A k \in Keys : wanted[k] = IF k \in DOMAIN cache THEN cache[k] ELSE values[k]
  /\ cache # Empty => locked

\* What a cycle reads does not change under it.  (lock, _locked)
StableInCycle == [][cycle /\ cycle' => values' = values]_settingsVars

\* The boxes the runner collects and draws are the boxes that were laid out,
\* whatever became of a toggle, a preset or an edit; until a reload, which
\* does not look at current_boxes.  (toggle_box, set_boxes, apply_preset)
DrawsWhatIsLaidOut == cycle /\ ~ reloaded => currentBoxes = laidOut

\* Until a reload shortens the list, the preset that is shown is one of it,
\* and the keys find the next.  (Input::process, presetsValid)
PresetExists ==
  ~ reloaded => /\ currentPreset = NoPreset \/ currentPreset + 1 \in DOMAIN presetList
                /\ mode # "crashed"

\* After leaving, the file has every setting, but for those that were still
\* in the cache.  (_locked, write)
SavedUnlessCached ==
  mode = "quit" => \A k \in FileKeys \ DOMAIN cache : file[k] = wanted[k]
=============================================================================
