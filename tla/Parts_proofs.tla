--------------------------- MODULE Parts_proofs ---------------------------
(***************************************************************************)
(* Proofs about Settings, for all boxes, presets, sizes and whatever is in *)
(* the configuration file; and, at the end, about the parts side by side   *)
(* as MCParts has them: what is proved of one by itself holds there, and   *)
(* all of them keep to their types.                                        *)
(***************************************************************************)
EXTENDS MCParts, EventQueue_proofs, Collect_proofs, Draw_proofs

\* A setting has one value of its own, in the cache if it is there, and the
\* cache is in use while the settings are locked, as they are in a cycle.
StoreInv ==
  /\ DOMAIN values = Keys /\ DOMAIN wanted = Keys /\ DOMAIN cache \subseteq Keys
  /\ DOMAIN file = FileKeys
  /\ LastSetWins
  /\ cycle => locked /\ mode = "run"

\* write_new is set from the first change that the file does not have.
SavedInv ==
  /\ ~ writeNew => \A k \in FileKeys : k \notin DOMAIN cache /\ file[k] = wanted[k]
  /\ SavedUnlessCached

\* Until a reload current_boxes is shown_boxes as it was last set, which is
\* laid out when the screen of boxes is up.
BoxesInv ==
  ~ reloaded => /\ mode \in {"small", "run"} => wanted["shown_boxes"] = currentBoxes
                /\ mode = "run" => laidOut = currentBoxes

LEMMA KeySets ==
  /\ FileKeys \subseteq Keys /\ "shown_boxes" \in FileKeys
  /\ "proc_selected" \in Keys /\ "proc_selected" \notin FileKeys
  /\ DOMAIN Empty = {}
BY DEF Keys, FileKeys, Empty

LEMMA MergedFacts ==
  ASSUME NEW f, NEW g
  PROVE  /\ DOMAIN Merged(f, g) = DOMAIN f \cup DOMAIN g
         /\ \A k \in DOMAIN f : Merged(f, g)[k] = f[k]
         /\ \A k \in DOMAIN g \ DOMAIN f : Merged(f, g)[k] = g[k]
BY DEF Merged

LEMMA GivenFacts ==
  ASSUME NEW k, NEW v
  PROVE  DOMAIN Only(k, v) = {k} /\ Only(k, v)[k] = v
BY DEF Only

LEMMA FlagsFacts ==
  ASSUME NEW p
  PROVE  DOMAIN Flags(p) \subseteq FileKeys \ {"shown_boxes"}
<1> DEFINE cpu == {n \in DOMAIN p : p[n].box = "cpu"}
           placed == p[CHOOSE n \in cpu : \A m \in cpu : m <= n].flag
<1>1. Flags(p) = Empty \/ Flags(p) = Only("cpu_bottom", placed)
  BY DEF Flags
<1> QED  BY <1>1, KeySets DEF FileKeys, Only

\* set() and flip(), whether the settings are locked or not.
LEMMA StoreFacts ==
  ASSUME StoreInv, NEW upd, DOMAIN upd \subseteq Keys, Store(upd)
  PROVE  /\ DOMAIN values' = Keys /\ DOMAIN wanted' = Keys /\ DOMAIN cache' \subseteq Keys
         /\ \A k \in Keys : wanted'[k] = IF k \in DOMAIN upd THEN upd[k] ELSE wanted[k]
         /\ \A k \in Keys : wanted'[k] = IF k \in DOMAIN cache' THEN cache'[k]
                                         ELSE values'[k]
         /\ cache' # Empty => locked
         /\ locked => values' = values
         /\ ~ writeNew' => /\ ~ writeNew
                           /\ DOMAIN upd \cap FileKeys = {}
                           /\ DOMAIN cache' \subseteq DOMAIN cache \cup DOMAIN upd
<1> USE KeySets
<1>1. /\ DOMAIN values = Keys /\ DOMAIN wanted = Keys /\ DOMAIN cache \subseteq Keys
      /\ \A k \in Keys : wanted[k] = IF k \in DOMAIN cache THEN cache[k] ELSE values[k]
      /\ cache # Empty => locked
  BY DEF StoreInv, LastSetWins
<1>2. /\ values' = PutValues(upd) /\ cache' = PutCache(upd)
      /\ writeNew' = Noted(upd) /\ wanted' = Merged(upd, wanted)
  BY DEF Store
<1>3. /\ DOMAIN wanted' = Keys
      /\ \A k \in Keys : wanted'[k] = IF k \in DOMAIN upd THEN upd[k] ELSE wanted[k]
  BY <1>1, <1>2 DEF Merged
<1>4. ~ writeNew' => ~ writeNew /\ DOMAIN upd \cap FileKeys = {}
  BY <1>2 DEF Noted
<1>5. CASE locked
  <2>1. values' = values /\ cache' = Merged(upd, cache)
    BY <1>2, <1>5 DEF PutValues, PutCache
  <2>2. DOMAIN cache' = DOMAIN upd \cup DOMAIN cache
    BY <2>1, MergedFacts
  <2>3. \A k \in Keys : wanted'[k] = IF k \in DOMAIN cache' THEN cache'[k] ELSE values'[k]
    BY <1>1, <1>3, <2>1, <2>2 DEF Merged
  <2> QED  BY <1>1, <1>3, <1>4, <1>5, <2>1, <2>2, <2>3
<1>6. CASE ~ locked
  <2>1. values' = Merged(upd, values) /\ cache' = cache /\ cache = Empty
    BY <1>1, <1>2, <1>6 DEF PutValues, PutCache
  <2>2. DOMAIN values' = Keys
    <3>1. DOMAIN Merged(upd, values) = DOMAIN upd \cup DOMAIN values
      BY MergedFacts
    <3> QED  BY <1>1, <2>1, <3>1
  <2>3. \A k \in Keys : wanted'[k] = values'[k]
    BY <1>1, <1>3, <2>1 DEF Merged
  <2> QED  BY <1>1, <1>3, <1>4, <1>6, <2>1, <2>2, <2>3
<1> QED  BY <1>5, <1>6

\* What was set and what the runner wrote is in the arrays after unlock().
LEMMA FlushFacts ==
  ASSUME StoreInv, NEW upd, DOMAIN upd \subseteq FileKeys, StoreAndUnlock(upd)
  PROVE  /\ DOMAIN values' = Keys /\ DOMAIN wanted' = Keys /\ cache' = Empty
         /\ \A k \in Keys : wanted'[k] = values'[k]
         /\ \A k \in FileKeys : wanted'[k] = IF k \in DOMAIN upd THEN upd[k] ELSE wanted[k]
         /\ ~ writeNew' => ~ writeNew /\ DOMAIN upd = {}
<1> USE KeySets
<1> DEFINE v == PutValues(upd)
           c == PutCache(upd)
           owed == Owned /\ "proc_selected" \notin DOMAIN cache
<1>1. /\ DOMAIN values = Keys /\ DOMAIN wanted = Keys /\ DOMAIN cache \subseteq Keys
      /\ \A k \in Keys : wanted[k] = IF k \in DOMAIN cache THEN cache[k] ELSE values[k]
      /\ cache # Empty => locked
  BY DEF StoreInv, LastSetWins
<1>2. /\ values' = Unlocked(v, c) /\ cache' = Empty
      /\ writeNew' = Noted(upd) /\ wanted' = Merged(upd, WantedUnlocked)
  BY DEF StoreAndUnlock
<1>3. /\ DOMAIN WantedUnlocked = Keys
      /\ \A k \in Keys : WantedUnlocked[k] =
           IF k = "proc_selected" /\ owed THEN procSelected ELSE wanted[k]
  BY <1>1 DEF WantedUnlocked, Merged, Only
<1>4. /\ DOMAIN wanted' = Keys
      /\ \A k \in Keys : wanted'[k] = IF k \in DOMAIN upd THEN upd[k] ELSE WantedUnlocked[k]
  BY <1>2, <1>3 DEF Merged
<1>5. ~ writeNew' => ~ writeNew /\ DOMAIN upd = {}
  BY <1>2 DEF Noted
<1>6. DOMAIN values' = Keys /\ \A k \in Keys : wanted'[k] = values'[k]
  <2>1. CASE locked
    <3>1. v = values /\ c = Merged(upd, cache)
      BY <2>1 DEF PutValues, PutCache
    <3>2. values' = Flushed(values, c)
      BY <1>2, <2>1, <3>1 DEF Unlocked
    <3>3. /\ DOMAIN values' = Keys
          /\ \A k \in Keys : values'[k] =
               IF k \in DOMAIN c THEN c[k]
               ELSE IF k = "proc_selected" /\ Owned THEN procSelected ELSE values[k]
      BY <3>2 DEF Flushed
    <3>4. /\ DOMAIN c = DOMAIN upd \cup DOMAIN cache
          /\ \A k \in DOMAIN upd : c[k] = upd[k]
          /\ \A k \in DOMAIN cache \ DOMAIN upd : c[k] = cache[k]
      BY <3>1 DEF Merged
    <3> HIDE DEF c
    <3> QED  BY <1>1, <1>3, <1>4, <3>3, <3>4
  <2>2. CASE ~ locked
    <3>1. v = Merged(upd, values) /\ cache = Empty /\ ~ Owned
      BY <1>1, <2>2 DEF PutValues, Owned
    <3>2. values' = Merged(upd, values)
      BY <1>2, <2>2, <3>1 DEF Unlocked
    <3> QED  BY <1>1, <1>3, <1>4, <3>1, <3>2 DEF Merged
  <2> QED  BY <2>1, <2>2
<1> QED  BY <1>2, <1>3, <1>4, <1>5, <1>6

\* The inductive invariant.
SettingsInv == StoreInv /\ SavedInv /\ BoxesInv

\* A setter that does not touch the boxes.
LEMMA StoreKeepsInv ==
  ASSUME SettingsInv, NEW upd, DOMAIN upd \subseteq Keys \ {"shown_boxes"}, Store(upd),
         mode \in {"small", "run"},
         UNCHANGED <<mode, locked, laidOut, currentBoxes, cycle, file, reloaded>>
  PROVE  SettingsInv'
<1> USE KeySets
<1>1. StoreInv /\ SavedInv /\ BoxesInv
  BY DEF SettingsInv
<1>2. StoreInv'
  BY <1>1, StoreFacts DEF StoreInv, LastSetWins
<1>3. SavedInv'
  BY <1>1, StoreFacts DEF SavedInv, SavedUnlessCached
<1>4. wanted'["shown_boxes"] = wanted["shown_boxes"]
  BY <1>1, StoreFacts
<1>5. BoxesInv'
  BY <1>1, <1>4 DEF BoxesInv
<1> QED  BY <1>2, <1>3, <1>5 DEF SettingsInv

\* unlock(), with or without a cycle to follow.
LEMMA UnlockKeepsInv ==
  ASSUME SettingsInv, StoreAndUnlock(Empty),
         mode = "run", mode' \in {"small", "run"}, cycle' => locked' /\ mode' = "run",
         UNCHANGED <<laidOut, currentBoxes, file, reloaded>>
  PROVE  SettingsInv'
<1> USE KeySets
<1>1. StoreInv /\ SavedInv /\ BoxesInv
  BY DEF SettingsInv
<1>2. /\ DOMAIN values' = Keys /\ DOMAIN wanted' = Keys /\ cache' = Empty
      /\ \A k \in Keys : wanted'[k] = values'[k]
      /\ \A k \in FileKeys : wanted'[k] = wanted[k]
      /\ ~ writeNew' => ~ writeNew
  BY <1>1, FlushFacts
<1>3. StoreInv'
  BY <1>1, <1>2 DEF StoreInv, LastSetWins
<1>4. SavedInv'
  BY <1>1, <1>2 DEF SavedInv, SavedUnlessCached
<1>5. BoxesInv'
  BY <1>1, <1>2 DEF BoxesInv
<1> QED  BY <1>3, <1>4, <1>5 DEF SettingsInv

\* What ends in calcSizes() and run().
LEMMA LayoutKeepsInv ==
  ASSUME SettingsInv, NEW upd, DOMAIN upd \subseteq FileKeys, StoreAndLayout(upd),
         mode \in {"small", "run"}, mode' = "run",
         IF "shown_boxes" \in DOMAIN upd THEN currentBoxes' = upd["shown_boxes"]
         ELSE currentBoxes' = currentBoxes,
         UNCHANGED <<file, reloaded>>
  PROVE  SettingsInv'
<1> USE KeySets
<1>1. StoreInv /\ SavedInv /\ BoxesInv
  BY DEF SettingsInv
<1>2. /\ StoreAndUnlock(upd) /\ locked' = TRUE /\ cycle' = TRUE
      /\ laidOut' = values'["shown_boxes"]
  BY DEF StoreAndLayout
<1>3. /\ DOMAIN values' = Keys /\ DOMAIN wanted' = Keys /\ cache' = Empty
      /\ \A k \in Keys : wanted'[k] = values'[k]
      /\ \A k \in FileKeys : wanted'[k] = IF k \in DOMAIN upd THEN upd[k] ELSE wanted[k]
      /\ ~ writeNew' => ~ writeNew /\ DOMAIN upd = {}
  BY <1>1, <1>2, FlushFacts
<1>4. StoreInv'
  BY <1>1, <1>2, <1>3 DEF StoreInv, LastSetWins
<1>5. SavedInv'
  BY <1>1, <1>3 DEF SavedInv, SavedUnlessCached
<1>6. BoxesInv'
  BY <1>1, <1>2, <1>3 DEF BoxesInv
<1> QED  BY <1>4, <1>5, <1>6 DEF SettingsInv

LEMMA SettingsInvInit == SettingsInit => SettingsInv
<1> SUFFICES ASSUME SettingsInit PROVE SettingsInv
  OBVIOUS
<1>1. /\ DOMAIN file = FileKeys /\ cache = Empty /\ wanted = values
      /\ values = Merged(file, Only("proc_selected", 0))
      /\ mode = "quit" /\ cycle = FALSE
  BY DEF SettingsInit, FileKeys
<1>2. DOMAIN values = Keys /\ \A k \in FileKeys : file[k] = values[k]
  BY <1>1 DEF Merged, Only, Keys
<1> QED  BY <1>1, <1>2, KeySets
         DEF SettingsInv, StoreInv, LastSetWins, SavedInv, SavedUnlessCached, BoxesInv

\* The boxes of a preset and the positions of them.
LEMMA PresetUpdate ==
  ASSUME NEW boxes, NEW p
  PROVE  LET upd == Merged(Only("shown_boxes", boxes), Flags(p)) IN
         /\ DOMAIN upd \subseteq FileKeys /\ "shown_boxes" \in DOMAIN upd
         /\ upd["shown_boxes"] = boxes
BY FlagsFacts, KeySets DEF Merged, Only

LEMMA PresetKeeps == SettingsInv /\ PresetKey => SettingsInv'
<1> SUFFICES ASSUME SettingsInv, PresetKey PROVE SettingsInv'
  OBVIOUS
<1>1. PICK n \in {NextPreset, PreviousPreset} :
        PresetApplied(n) \/ PresetRefused(n) \/ PresetMissing
  BY DEF PresetKey
<1>2. mode = "run" /\ ~ cycle
  BY DEF PresetKey, Ready
<1>3. CASE PresetApplied(n)
  <2> DEFINE boxes == BoxesOf(presetList[n + 1])
             upd == Merged(Only("shown_boxes", boxes), Flags(presetList[n + 1]))
  <2>1. /\ StoreAndLayout(upd) /\ currentBoxes' = boxes
        /\ UNCHANGED <<mode, file, reloaded>>
    BY <1>3 DEF PresetApplied, outside
  <2>2. DOMAIN upd \subseteq FileKeys /\ "shown_boxes" \in DOMAIN upd
        /\ upd["shown_boxes"] = boxes
    BY PresetUpdate
  <2> HIDE DEF upd, boxes
  <2> QED  BY <1>2, <2>1, <2>2, LayoutKeepsInv
<1>4. CASE PresetRefused(n)
  <2>1. /\ Store(Flags(presetList[n + 1]))
        /\ UNCHANGED <<mode, locked, laidOut, currentBoxes, cycle, file, reloaded>>
    BY <1>4 DEF PresetRefused, outside, layout
  <2>2. DOMAIN Flags(presetList[n + 1]) \subseteq Keys \ {"shown_boxes"}
    BY FlagsFacts, KeySets
  <2> QED  BY <1>2, <2>1, <2>2, StoreKeepsInv
<1>5. CASE PresetMissing
  BY <1>2, <1>5 DEF PresetMissing, stores, layout, outside, SettingsInv, StoreInv,
    LastSetWins, SavedInv, SavedUnlessCached, BoxesInv
<1> QED  BY <1>1, <1>3, <1>4, <1>5

\* A toggle below the size error: shown_boxes and current_boxes, or neither.
LEMMA ToggleSmallKeeps == SettingsInv /\ ToggleSmall => SettingsInv'
<1> SUFFICES ASSUME SettingsInv, ToggleSmall PROVE SettingsInv'
  OBVIOUS
<1> USE KeySets
<1>1. PICK b \in Present :
        IF Fits(Toggled(b))
        THEN currentBoxes' = Toggled(b) /\ Store(Only("shown_boxes", Toggled(b)))
        ELSE UNCHANGED <<currentBoxes, stores>>
  BY DEF ToggleSmall
<1>2. mode = "small" /\ UNCHANGED <<mode, locked, laidOut, cycle, file, reloaded>>
  BY DEF ToggleSmall, outside
<1>3. CASE Fits(Toggled(b))
  <2> DEFINE boxes == Toggled(b)
             upd == Only("shown_boxes", boxes)
  <2>1. DOMAIN upd = {"shown_boxes"} /\ upd["shown_boxes"] = boxes
    BY GivenFacts
  <2>2. StoreInv /\ DOMAIN upd \subseteq Keys /\ Store(upd) /\ currentBoxes' = boxes
    BY <1>1, <1>3, <2>1 DEF SettingsInv
  <2> HIDE DEF upd, boxes
  <2>3. StoreInv'
    BY <1>2, <2>2, StoreFacts DEF StoreInv, LastSetWins
  <2>4. writeNew' /\ wanted'["shown_boxes"] = boxes
    BY <2>1, <2>2, StoreFacts DEF Store, Noted
  <2> QED  BY <1>2, <2>2, <2>3, <2>4 DEF SettingsInv, SavedInv, SavedUnlessCached, BoxesInv
<1>4. CASE ~ Fits(Toggled(b))
  BY <1>1, <1>2, <1>4 DEF stores, SettingsInv, StoreInv, LastSetWins, SavedInv,
    SavedUnlessCached, BoxesInv
<1> QED  BY <1>3, <1>4

\* init_config() puts what the file has in place of what was set.
LEMMA ReloadKeeps == SettingsInv /\ Reload => SettingsInv'
<1> SUFFICES ASSUME SettingsInv, Reload PROVE SettingsInv'
  OBVIOUS
<1> USE KeySets
<1>1. PICK f \in FileContents : Load(f) /\ file' = f
  BY DEF Reload
<1>2. DOMAIN f = FileKeys
  BY DEF FileContents, FileKeys
<1>3. /\ DOMAIN values = Keys /\ DOMAIN wanted = Keys /\ DOMAIN cache \subseteq Keys
      /\ \A k \in Keys : wanted[k] = IF k \in DOMAIN cache THEN cache[k] ELSE values[k]
      /\ cache # Empty => locked
  BY DEF SettingsInv, StoreInv, LastSetWins
<1>4. /\ DOMAIN WantedUnlocked = Keys
      /\ \A k \in Keys : WantedUnlocked[k] =
           IF k = "proc_selected" /\ Owned /\ k \notin DOMAIN cache THEN procSelected
           ELSE wanted[k]
  BY <1>3 DEF WantedUnlocked, Merged, Only
<1>5. /\ DOMAIN Unlocked(values, cache) = Keys
      /\ \A k \in Keys : Unlocked(values, cache)[k] = WantedUnlocked[k]
  <2>1. CASE locked
    BY <1>3, <1>4, <2>1 DEF Unlocked, Flushed
  <2>2. CASE ~ locked
    BY <1>3, <1>4, <2>2 DEF Unlocked, Owned
  <2> QED  BY <2>1, <2>2
<1>6. /\ values' = Merged(f, Unlocked(values, cache)) /\ cache' = Empty
      /\ wanted' = Merged(f, WantedUnlocked)
  BY <1>1 DEF Load
<1>7. /\ DOMAIN values' = Keys /\ DOMAIN wanted' = Keys
      /\ \A k \in Keys : wanted'[k] = values'[k]
      /\ \A k \in FileKeys : wanted'[k] = f[k]
  BY <1>2, <1>4, <1>5, <1>6 DEF Merged
<1>8. ~ cycle' /\ mode' = "small" /\ reloaded' = TRUE
  BY DEF Reload, Ready
<1> QED  BY <1>1, <1>2, <1>6, <1>7, <1>8
         DEF SettingsInv, StoreInv, LastSetWins, SavedInv, SavedUnlessCached, BoxesInv

\* What write() saved is what load() finds.
LEMMA QuitKeeps == SettingsInv /\ Quit => SettingsInv'
<1> SUFFICES ASSUME SettingsInv, Quit PROVE SettingsInv'
  OBVIOUS
<1>1. /\ mode' = "quit" /\ ~ cycle'
      /\ file' = IF writeNew THEN [k \in FileKeys |-> values[k]] ELSE file
      /\ UNCHANGED <<locked, values, cache, writeNew, wanted>>
  BY DEF Quit, stores
<1> QED  BY <1>1, KeySets
         DEF SettingsInv, StoreInv, LastSetWins, SavedInv, SavedUnlessCached, BoxesInv

LEMMA StartKeeps == SettingsInv /\ StartUp => SettingsInv'
<1> SUFFICES ASSUME SettingsInv, StartUp PROVE SettingsInv'
  OBVIOUS
<1> USE KeySets
<1> DEFINE saved == Merged(file, Only("proc_selected", 0))
<1>1. PICK flags, shown :
        /\ DOMAIN flags \subseteq FileKeys \ {"shown_boxes"}
        /\ values' = Merged(flags, Merged(Only("shown_boxes", shown), saved))
        /\ wanted' = values' /\ currentBoxes' = shown
        /\ writeNew' = (values' # saved)
  BY FlagsFacts DEF StartUp
<1>2. /\ DOMAIN file = FileKeys /\ DOMAIN saved = Keys
      /\ \A k \in FileKeys : saved[k] = file[k]
  BY DEF SettingsInv, StoreInv, Merged, Only, Keys
<1>3. DOMAIN values' = Keys /\ values'["shown_boxes"] = shown
  BY <1>1, <1>2 DEF Merged, Only
<1>4. /\ ~ cycle' /\ mode' = "small" /\ cache' = Empty /\ file' = file
  BY DEF StartUp
<1> HIDE DEF saved
<1>5. ~ writeNew' => \A k \in FileKeys : file'[k] = wanted'[k]
  BY <1>1, <1>2, <1>4
<1> QED  BY <1>1, <1>2, <1>3, <1>4, <1>5
         DEF SettingsInv, StoreInv, LastSetWins, SavedInv, SavedUnlessCached, BoxesInv

LEMMA SettingsInvStep == SettingsInv /\ [SettingsNext]_settingsVars => SettingsInv'
<1> SUFFICES ASSUME SettingsInv, [SettingsNext]_settingsVars PROVE SettingsInv'
  OBVIOUS
<1> USE KeySets
<1>1. CASE RunCycle
  BY <1>1, UnlockKeepsInv DEF RunCycle, Ready, layout, outside
<1>2. CASE UnlockIdle
  BY <1>2, UnlockKeepsInv DEF UnlockIdle, Ready, layout, outside
<1>3. CASE CycleMoves
  <2>1. UNCHANGED <<mode, locked, laidOut, currentBoxes, cycle, file, reloaded>>
    BY <1>3 DEF CycleMoves, layout, outside
  <2>2. mode = "run"
    BY <1>3 DEF CycleMoves, SettingsInv, StoreInv
  <2>3. CASE UNCHANGED stores
    BY <2>1, <2>3 DEF stores, SettingsInv, StoreInv, LastSetWins, SavedInv,
      SavedUnlessCached, BoxesInv
  <2>4. CASE \E n \in Positions : Store(Only("proc_selected", n))
    <3>1. PICK n \in Positions : Store(Only("proc_selected", n))
      BY <2>4
    <3> QED  BY <2>1, <2>2, <3>1, GivenFacts, StoreKeepsInv
  <2> QED  BY <1>3, <2>3, <2>4 DEF CycleMoves
<1>4. CASE CycleEnds
  BY <1>4 DEF CycleEnds, stores, layout, outside, SettingsInv, StoreInv, LastSetWins,
    SavedInv, SavedUnlessCached, BoxesInv
<1>5. CASE SetSelected
  <2>1. PICK n \in Positions : Store(Only("proc_selected", n))
    BY <1>5 DEF SetSelected
  <2> QED  BY <1>5, <2>1, GivenFacts, StoreKeepsInv DEF SetSelected, layout, outside
<1>6. CASE ToggleBox
  <2>1. PICK b \in Present : /\ currentBoxes' = Toggled(b)
                             /\ StoreAndLayout(Only("shown_boxes", Toggled(b)))
    BY <1>6 DEF ToggleBox
  <2>2. DOMAIN Only("shown_boxes", Toggled(b)) = {"shown_boxes"}
        /\ Only("shown_boxes", Toggled(b))["shown_boxes"] = Toggled(b)
    BY GivenFacts
  <2> QED  BY <1>6, <2>1, <2>2, LayoutKeepsInv DEF ToggleBox, Ready, outside
<1>7. CASE PresetKey
  BY <1>7, PresetKeeps
<1>8. CASE EditBoxes
  <2>1. PICK boxes \in BoxLists : /\ currentBoxes' = boxes
                                  /\ StoreAndLayout(Only("shown_boxes", boxes))
    BY <1>8 DEF EditBoxes
  <2>2. DOMAIN Only("shown_boxes", boxes) = {"shown_boxes"}
        /\ Only("shown_boxes", boxes)["shown_boxes"] = boxes
    BY GivenFacts
  <2> QED  BY <1>8, <2>1, <2>2, LayoutKeepsInv DEF EditBoxes, Ready, outside
<1>9. CASE EditPresets
  <2>1. PICK custom \in PresetLists : StoreAndLayout(Only("presets", custom))
    BY <1>9 DEF EditPresets
  <2>2. DOMAIN Only("presets", custom) = {"presets"}
    BY GivenFacts
  <2> QED  BY <1>9, <2>1, <2>2, LayoutKeepsInv DEF EditPresets, Ready, outside, FileKeys
<1>10. CASE EditDisable
  <2>1. PICK s \in Switches : Store(Only("disable_presets", s))
    BY <1>10 DEF EditDisable
  <2>2. DOMAIN Only("disable_presets", s) = {"disable_presets"}
    BY GivenFacts
  <2>3. {"disable_presets"} \subseteq Keys \ {"shown_boxes"}
    BY DEF Keys, FileKeys
  <2> QED  BY <1>10, <2>1, <2>2, <2>3, StoreKeepsInv DEF EditDisable, outside
<1>11. CASE TermResize
  BY <1>11, UnlockKeepsInv DEF TermResize, Ready, layout
<1>12. CASE Grow
  BY <1>12 DEF Grow, stores, layout, SettingsInv, StoreInv, LastSetWins, SavedInv,
    SavedUnlessCached, BoxesInv
<1>13. CASE ToggleSmall
  BY <1>13, ToggleSmallKeeps
<1>14. CASE LargeEnough
  BY <1>14, LayoutKeepsInv DEF LargeEnough, outside
<1>15. CASE Reload
  BY <1>15, ReloadKeeps
<1>16. CASE Quit
  BY <1>16, QuitKeeps
<1>17. CASE StartUp
  BY <1>17, StartKeeps
<1>18. CASE UNCHANGED settingsVars
  BY <1>18 DEF settingsVars, SettingsInv, StoreInv, LastSetWins, SavedInv,
    SavedUnlessCached, BoxesInv
<1> QED  BY <1>1, <1>2, <1>3, <1>4, <1>5, <1>6, <1>7, <1>8, <1>9, <1>10, <1>11, <1>12,
  <1>13, <1>14, <1>15, <1>16, <1>17, <1>18 DEF SettingsNext

\* No value that was set is lost in the cache, or left behind there, by any
\* order of setters, cycles, resizes and reloads.
THEOREM SetterWins == SettingsSpec => []LastSetWins
<1>1. SettingsInv => LastSetWins
  BY DEF SettingsInv, StoreInv
<1> QED  BY <1>1, SettingsInvInit, SettingsInvStep, PTL DEF SettingsSpec

\* The settings stand still while the runner reads them.
THEOREM SettingsStand == SettingsSpec => StableInCycle
<1>1. SettingsInv /\ [SettingsNext]_settingsVars
        => [cycle /\ cycle' => values' = values]_settingsVars
  <2> SUFFICES ASSUME SettingsInv, SettingsNext, cycle, cycle'
               PROVE  values' = values
    BY DEF settingsVars
  <2>1. locked /\ mode = "run"
    BY DEF SettingsInv, StoreInv
  <2>2. \A upd : Store(upd) => values' = values
    BY <2>1 DEF Store, PutValues
  <2> QED  BY <2>1, <2>2 DEF SettingsNext, RunCycle, UnlockIdle, CycleMoves, CycleEnds,
    SetSelected, ToggleBox, PresetKey, EditBoxes, EditPresets, EditDisable, TermResize, Grow,
    ToggleSmall, LargeEnough, Reload, Quit, StartUp, Ready, stores
<1> QED  BY <1>1, SettingsInvInit, SettingsInvStep, PTL DEF SettingsSpec, StableInCycle

\* Whatever becomes of a toggle, a preset or an edit, the runner collects
\* and draws the boxes that were laid out, until a reload.
THEOREM BoxesAgree == SettingsSpec => []DrawsWhatIsLaidOut
<1>1. SettingsInv => DrawsWhatIsLaidOut
  BY DEF SettingsInv, StoreInv, BoxesInv, DrawsWhatIsLaidOut
<1> QED  BY <1>1, SettingsInvInit, SettingsInvStep, PTL DEF SettingsSpec

\* Leaving saves every change but those in the cache.
THEOREM ChangesSaved == SettingsSpec => []SavedUnlessCached
<1>1. SettingsInv => SavedUnlessCached
  BY DEF SettingsInv, SavedInv
<1> QED  BY <1>1, SettingsInvInit, SettingsInvStep, PTL DEF SettingsSpec

---------------------------------------------------------------------------
(* The list of presets and the preset that is shown.                       *)

Lists == Seq(Seq([box : Boxes, flag : BOOLEAN]))

PresetInv ==
  /\ values["presets"] \in Lists /\ wanted["presets"] \in Lists /\ file["presets"] \in Lists
  /\ presetList \in Lists /\ presetList # <<>>
  /\ currentPreset \in Nat \cup {NoPreset}
  /\ PresetExists

LEMMA ListOfFacts ==
  ASSUME NEW custom \in Lists
  PROVE  ListOf(custom) \in Lists /\ ListOf(custom) # <<>>
BY SettingsAssumption DEF ListOf, Lists

LEMMA OtherUpdates ==
  ASSUME SettingsInv, PresetInv, NEW upd, DOMAIN upd \subseteq Keys \ {"presets"},
         Store(upd) \/ (StoreAndUnlock(upd) /\ DOMAIN upd \subseteq FileKeys)
  PROVE  values'["presets"] \in Lists /\ wanted'["presets"] \in Lists
<1>1. StoreInv /\ "presets" \in FileKeys /\ "presets" \in Keys
  BY DEF SettingsInv, Keys, FileKeys
<1>2. CASE Store(upd)
  <2>1. wanted'["presets"] = wanted["presets"]
    BY <1>1, <1>2, StoreFacts
  <2>2. CASE locked
    BY <1>1, <1>2, <2>1, <2>2, StoreFacts DEF PresetInv
  <2>3. CASE ~ locked
    BY <1>1, <1>2, <2>1, <2>3, StoreFacts, KeySets DEF PresetInv
  <2> QED  BY <2>2, <2>3
<1>3. CASE StoreAndUnlock(upd) /\ DOMAIN upd \subseteq FileKeys
  BY <1>1, <1>3, FlushFacts DEF PresetInv
<1> QED  BY <1>2, <1>3

\* As long as the shown preset is of the list, so are the next and the
\* previous one.
LEMMA KeysStayInList ==
  ASSUME presetList \in Lists, presetList # <<>>, PresetAllowed,
         currentPreset = NoPreset \/ currentPreset + 1 \in DOMAIN presetList,
         currentPreset \in Nat \cup {NoPreset},
         NEW n \in {NextPreset, PreviousPreset}
  PROVE  n \in Nat /\ n + 1 \in DOMAIN presetList
<1> DEFINE len == Len(presetList)
<1>1. len \in Nat /\ len > 0 /\ DOMAIN presetList = 1 .. len
  BY DEF Lists
<1>2. FirstPreset \in {0, 1} /\ FirstPreset < len
  BY <1>1 DEF FirstPreset, PresetAllowed
<1>3. LastPreset = len - 1
  BY DEF LastPreset
<1> HIDE DEF len
<1>4. NextPreset \in 0 .. len - 1
  BY <1>1, <1>2, <1>3 DEF NextPreset, NoPreset
<1>5. PreviousPreset \in 0 .. len - 1
  BY <1>1, <1>2, <1>3 DEF PreviousPreset, NoPreset
<1> QED  BY <1>1, <1>4, <1>5

LEMMA PresetInvInit == SettingsInit => PresetInv
<1> SUFFICES ASSUME SettingsInit PROVE PresetInv
  OBVIOUS
<1>1. file["presets"] = <<>> /\ values["presets"] = <<>> /\ wanted = values
  BY DEF SettingsInit, Merged, Only, FileKeys
<1>2. <<>> \in Lists
  BY DEF Lists
<1>3. presetList = ListOf(<<>>) /\ currentPreset = NoPreset /\ mode = "quit"
  BY DEF SettingsInit
<1> QED  BY <1>1, <1>2, <1>3, ListOfFacts DEF PresetInv, PresetExists

\* A step that leaves the list alone, and the preset or takes it away.
LEMMA PresetsKept ==
  ASSUME PresetInv, values'["presets"] \in Lists, wanted'["presets"] \in Lists,
         file'["presets"] \in Lists, presetList' = presetList,
         currentPreset' \in {currentPreset, NoPreset},
         reloaded' = reloaded, mode' = mode \/ mode' # "crashed"
  PROVE  PresetInv'
BY DEF PresetInv, PresetExists

LEMMA PresetKeyInList == SettingsInv /\ PresetInv /\ PresetKey => PresetInv'
<1> SUFFICES ASSUME SettingsInv, PresetInv, PresetKey PROVE PresetInv'
  OBVIOUS
<1>1. PICK n \in {NextPreset, PreviousPreset} :
        IF n + 1 \in DOMAIN presetList THEN PresetApplied(n) \/ PresetRefused(n)
        ELSE PresetMissing
  BY DEF PresetKey
<1>2. PresetAllowed /\ presetList \in Lists /\ presetList # <<>>
      /\ currentPreset \in Nat \cup {NoPreset}
  BY DEF PresetKey, PresetInv
<1>3. CASE PresetApplied(n)
  <2> DEFINE boxes == BoxesOf(presetList[n + 1])
             upd == Merged(Only("shown_boxes", boxes), Flags(presetList[n + 1]))
  <2>1. StoreAndUnlock(upd)
    BY <1>3 DEF PresetApplied, StoreAndLayout
  <2>2. DOMAIN upd \subseteq {"shown_boxes", "cpu_bottom"}
    BY DEF Merged, Only, Flags, Empty
  <2>3. {"shown_boxes", "cpu_bottom"} \subseteq (Keys \ {"presets"}) \cap FileKeys
    BY DEF Keys, FileKeys
  <2> HIDE DEF upd, boxes
  <2>4. values'["presets"] \in Lists /\ wanted'["presets"] \in Lists
    BY <2>1, <2>2, <2>3, OtherUpdates
  <2>5. /\ currentPreset' = n
        /\ UNCHANGED <<mode, presetList, file, reloaded>>
    BY <1>3 DEF PresetApplied, outside
  <2>6. n \in Nat \cup {NoPreset}
    <3>1. LastPreset \in Nat /\ FirstPreset \in Nat
      BY <1>2 DEF LastPreset, FirstPreset, Lists
    <3> QED  BY <1>2, <3>1 DEF NextPreset, PreviousPreset, NoPreset
  <2>7. ~ reloaded => n + 1 \in DOMAIN presetList
    BY <1>2, KeysStayInList DEF PresetInv, PresetExists
  <2> QED  BY <2>4, <2>5, <2>6, <2>7 DEF PresetInv, PresetExists
<1>4. CASE PresetRefused(n)
  <2> DEFINE upd == Flags(presetList[n + 1])
  <2>1. Store(upd) /\ UNCHANGED <<mode, presetList, currentPreset, file, reloaded>>
    BY <1>4 DEF PresetRefused, layout, outside
  <2>2. DOMAIN upd \subseteq {"cpu_bottom"}
    BY DEF Only, Flags, Empty
  <2>3. {"cpu_bottom"} \subseteq Keys \ {"presets"}
    BY DEF Keys, FileKeys
  <2> HIDE DEF upd
  <2>4. values'["presets"] \in Lists /\ wanted'["presets"] \in Lists
    BY <2>1, <2>2, <2>3, OtherUpdates
  <2> QED  BY <2>1, <2>4, PresetsKept DEF PresetInv
<1>5. CASE ~ (n + 1 \in DOMAIN presetList) /\ PresetMissing
  <2>1. reloaded
    BY <1>2, <1>5, KeysStayInList DEF PresetInv, PresetExists
  <2> QED  BY <1>5, <2>1 DEF PresetMissing, stores, layout, outside, PresetInv, PresetExists
<1> QED  BY <1>1, <1>3, <1>4, <1>5

LEMMA PresetInvStep ==
  SettingsInv /\ PresetInv /\ [SettingsNext]_settingsVars => PresetInv'
<1> SUFFICES ASSUME SettingsInv, PresetInv, [SettingsNext]_settingsVars PROVE PresetInv'
  OBVIOUS
<1> DEFINE InLists == values'["presets"] \in Lists /\ wanted'["presets"] \in Lists
<1>k. "presets" \in FileKeys /\ FileKeys \subseteq Keys /\ DOMAIN Empty = {}
      /\ file["presets"] \in Lists
  BY KeySets DEF FileKeys, PresetInv
<1>o. ASSUME NEW k \in Keys \ {"presets"}, NEW v,
             Store(Only(k, v)) \/ (StoreAndUnlock(Only(k, v)) /\ k \in FileKeys)
      PROVE  InLists
  <2>1. DOMAIN Only(k, v) = {k}
    BY GivenFacts
  <2> QED  BY <1>o, <2>1, OtherUpdates
<1>e. StoreAndUnlock(Empty) => InLists
  BY <1>k, OtherUpdates
<1>s. UNCHANGED stores => InLists
  BY DEF stores, PresetInv
<1>n. /\ "proc_selected" \in Keys \ {"presets"}
      /\ "disable_presets" \in Keys \ {"presets"}
      /\ "shown_boxes" \in Keys \ {"presets"} /\ "shown_boxes" \in FileKeys
  BY DEF Keys, FileKeys
<1> HIDE DEF InLists
<1>h. ASSUME InLists, UNCHANGED <<mode, presetList, file, reloaded>>,
             currentPreset' \in {currentPreset, NoPreset}
      PROVE  PresetInv'
  BY <1>h, <1>k, PresetsKept DEF InLists
<1>1. CASE RunCycle
  BY <1>1, <1>e, <1>h DEF RunCycle, layout, outside
<1>2. CASE UnlockIdle
  BY <1>2, <1>e, <1>h DEF UnlockIdle, layout, outside
<1>3. CASE CycleMoves
  <2>1. InLists
    BY <1>3, <1>o, <1>s, <1>n DEF CycleMoves
  <2> QED  BY <1>3, <2>1, <1>h DEF CycleMoves, layout, outside
<1>4. CASE CycleEnds
  BY <1>4, <1>s, <1>h DEF CycleEnds, layout, outside
<1>5. CASE SetSelected
  BY <1>5, <1>o, <1>n, <1>h DEF SetSelected, layout, outside
<1>6. CASE ToggleBox
  <2>1. InLists
    BY <1>6, <1>o, <1>n DEF ToggleBox, StoreAndLayout
  <2> QED  BY <1>6, <2>1, <1>h DEF ToggleBox, outside
<1>7. CASE PresetKey
  BY <1>7, PresetKeyInList
<1>8. CASE EditBoxes
  <2>1. InLists
    BY <1>8, <1>o, <1>n DEF EditBoxes, StoreAndLayout
  <2> QED  BY <1>8, <2>1, <1>h DEF EditBoxes, outside
<1>9. CASE EditPresets
  <2>1. PICK custom \in PresetLists : /\ presetList' = ListOf(custom)
                                      /\ StoreAndUnlock(Only("presets", custom))
    BY <1>9 DEF EditPresets, StoreAndLayout
  <2>2. custom \in Lists
    BY SettingsAssumption DEF Lists
  <2>3. DOMAIN Only("presets", custom) = {"presets"}
        /\ Only("presets", custom)["presets"] = custom
    BY GivenFacts
  <2>4. wanted'["presets"] = custom /\ values'["presets"] = custom
    BY <2>1, <2>3, <1>k, FlushFacts DEF SettingsInv
  <2>5. /\ currentPreset' = NoPreset /\ file' = file
        /\ mode' = "run"
    BY <1>9 DEF EditPresets, Ready, outside
  <2> QED  BY <1>k, <2>1, <2>2, <2>4, <2>5, ListOfFacts DEF PresetInv, PresetExists
<1>10. CASE EditDisable
  BY <1>10, <1>o, <1>n, <1>h DEF EditDisable, outside
<1>11. CASE TermResize
  BY <1>11, <1>e, <1>k, PresetsKept DEF TermResize, layout, InLists
<1>12. CASE Grow
  BY <1>12, <1>s, <1>h DEF Grow, layout
<1>13. CASE ToggleSmall
  <2>1. InLists
    BY <1>13, <1>o, <1>n, <1>s DEF ToggleSmall, stores
  <2> QED  BY <1>13, <2>1, <1>h DEF ToggleSmall, outside
<1>14. CASE LargeEnough
  BY <1>14, <1>e, <1>k, PresetsKept DEF LargeEnough, StoreAndLayout, outside, InLists
<1>15. CASE Reload
  <2>1. PICK f \in FileContents : Load(f) /\ file' = f
    BY <1>15 DEF Reload
  <2>2. f.presets \in Lists /\ DOMAIN f = FileKeys
    BY SettingsAssumption DEF FileContents, Lists, FileKeys
  <2>3. values'["presets"] = f.presets /\ wanted'["presets"] = f.presets
    BY <1>k, <2>1, <2>2 DEF Load, Merged
  <2>4. presetList' = ListOf(f.presets) /\ currentPreset' = currentPreset /\ reloaded' = TRUE
    BY <1>15, <2>1 DEF Reload, Load
  <2> QED  BY <2>1, <2>2, <2>3, <2>4, ListOfFacts DEF PresetInv, PresetExists
<1>16. CASE Quit
  <2>1. InLists
    BY <1>16, <1>s DEF Quit
  <2>2. file'["presets"] \in Lists
    BY <1>16, <1>k DEF Quit, PresetInv
  <2> QED  BY <1>16, <2>1, <2>2, PresetsKept DEF Quit, layout, InLists
<1>17. CASE StartUp
  <2>1. PICK n, flags, shown :
          /\ n \in {NoPreset} \cup DOMAIN presetList'
          /\ DOMAIN flags \subseteq {"cpu_bottom"}
          /\ values' = Merged(flags, Merged(Only("shown_boxes", shown),
                                Merged(file, Only("proc_selected", 0))))
          /\ wanted' = values'
          /\ currentPreset' = IF n = NoPreset THEN NoPreset ELSE n - 1
    <3>1. \A p : DOMAIN Flags(p) \subseteq {"cpu_bottom"} /\ DOMAIN Empty = {}
      BY DEF Flags, Only, Empty
    <3> QED  BY <1>17, <3>1 DEF StartUp
  <2>2. /\ presetList' = ListOf(file.presets) /\ file' = file /\ mode' = "small"
    BY <1>17 DEF StartUp
  <2>3. DOMAIN file = FileKeys
    BY DEF SettingsInv, StoreInv
  <2>4. values'["presets"] = file["presets"]
    BY <1>k, <2>1, <2>3 DEF Merged, Only
  <2>5. presetList' \in Lists /\ presetList' # <<>>
    BY <1>k, <2>2, ListOfFacts
  <2>6. currentPreset' \in Nat \cup {NoPreset}
        /\ (currentPreset' = NoPreset \/ currentPreset' + 1 \in DOMAIN presetList')
    BY <2>1, <2>5 DEF Lists, NoPreset
  <2> QED  BY <1>k, <2>1, <2>2, <2>4, <2>5, <2>6 DEF PresetInv, PresetExists
<1>18. CASE UNCHANGED settingsVars
  BY <1>18, <1>h, <1>s DEF settingsVars, stores
<1> QED  BY <1>1, <1>2, <1>3, <1>4, <1>5, <1>6, <1>7, <1>8, <1>9, <1>10, <1>11, <1>12,
  <1>13, <1>14, <1>15, <1>16, <1>17, <1>18 DEF SettingsNext

\* The preset that is shown is one of the list and the keys find the next
\* one, however the list is edited, until a reload.
THEOREM PresetFound == SettingsSpec => []PresetExists
<1>1. PresetInv => PresetExists
  BY DEF PresetInv
<1> QED  BY <1>1, SettingsInvInit, SettingsInvStep, PresetInvInit, PresetInvStep, PTL
         DEF SettingsSpec

---------------------------------------------------------------------------
(* Types.                                                                  *)

\* What else the type invariant says.
SettingsRest ==
  /\ mode \in {"small", "run", "quit", "crashed"}
  /\ locked \in BOOLEAN /\ cycle \in BOOLEAN /\ writeNew \in BOOLEAN

LEMMA SettingsRestStep ==
  SettingsRest /\ [SettingsNext]_settingsVars => SettingsRest'
<1> SUFFICES ASSUME SettingsRest, [SettingsNext]_settingsVars PROVE SettingsRest'
  OBVIOUS
<1>1. mode' \in {"small", "run", "quit", "crashed"}
  BY DEF SettingsRest, settingsVars, SettingsNext, RunCycle, UnlockIdle, CycleMoves, CycleEnds,
    SetSelected, ToggleBox, PresetKey, PresetApplied, PresetRefused, PresetMissing, EditBoxes,
    EditPresets, EditDisable, TermResize, Grow, ToggleSmall, LargeEnough, Reload, Quit, StartUp
<1>2. locked' \in BOOLEAN
  BY DEF SettingsRest, settingsVars, SettingsNext, RunCycle, UnlockIdle, CycleMoves, CycleEnds,
    SetSelected, ToggleBox, PresetKey, PresetApplied, PresetRefused, PresetMissing, EditBoxes,
    EditPresets, EditDisable, TermResize, Grow, ToggleSmall, LargeEnough, Reload, Quit, StartUp,
    StoreAndLayout
<1>3. cycle' \in BOOLEAN
  BY DEF SettingsRest, settingsVars, SettingsNext, RunCycle, UnlockIdle, CycleMoves, CycleEnds,
    SetSelected, ToggleBox, PresetKey, PresetApplied, PresetRefused, PresetMissing, EditBoxes,
    EditPresets, EditDisable, TermResize, Grow, ToggleSmall, LargeEnough, Reload, Quit, StartUp,
    StoreAndLayout
<1>4. writeNew' \in BOOLEAN
  <2>1. \A upd : Noted(upd) \in BOOLEAN
    BY DEF SettingsRest, Noted
  <2>2. writeNew' = writeNew \/ writeNew' \in BOOLEAN
    BY <2>1 DEF settingsVars, SettingsNext, RunCycle, UnlockIdle, CycleMoves, CycleEnds,
      SetSelected, ToggleBox, PresetKey, PresetApplied, PresetRefused, PresetMissing, EditBoxes,
      EditPresets, EditDisable, TermResize, Grow, ToggleSmall, LargeEnough, Reload, Quit,
      StartUp, StoreAndLayout, StoreAndUnlock, Store, stores
  <2> QED  BY <2>2 DEF SettingsRest
<1> QED  BY <1>1, <1>2, <1>3, <1>4 DEF SettingsRest

\* Every setting has a value and the cache has no others, whatever is in the
\* file; the preset that is shown is a number or none.  (btop_config.cpp)
THEOREM SettingsTypesCorrect == SettingsSpec => []SettingsTypeOK
<1>1. SettingsInit => SettingsRest
  BY DEF SettingsInit, SettingsRest
<1>2. SettingsInv /\ PresetInv /\ SettingsRest => SettingsTypeOK
  BY DEF SettingsInv, StoreInv, PresetInv, SettingsRest, SettingsTypeOK
<1> QED
  BY <1>1, <1>2, SettingsInvInit, SettingsInvStep, PresetInvInit, PresetInvStep,
     SettingsRestStep, PTL DEF SettingsSpec
---------------------------------------------------------------------------
(* The parts side by side.                                                 *)

\* Whatever part is chosen, each of them starts and moves by its own rules:
\* what is proved of a part holds of the parts side by side.
THEOREM PartsKeepApart ==
  PartsSpec => /\ Spec /\ ScreenSpec /\ NetSpec /\ HistorySpec
               /\ SettingsSpec /\ ProcListSpec /\ ProcViewSpec /\ TextEditSpec
<1>1. PartsInit => /\ Init /\ ScreenInit /\ NetInit /\ HistoryInit
                   /\ SettingsInit /\ ProcListInit /\ ProcViewInit /\ TextEditInit
  BY DEF PartsInit
<1>2. [PartsNext]_partsVars =>
        /\ [Next]_vars /\ [ScreenNext]_screenVars /\ [NetNext]_netVars
        /\ [HistoryNext]_historyVars /\ [SettingsNext]_settingsVars
        /\ [ProcListNext]_procListVars /\ [ProcViewNext]_procViewVars
        /\ [TextEditNext]_textEditVars
  BY DEF PartsNext, partsVars
<1> QED
  BY <1>1, <1>2, PTL DEF PartsSpec, Spec, ScreenSpec, NetSpec, HistorySpec, SettingsSpec,
    ProcListSpec, ProcViewSpec, TextEditSpec

\* Every part keeps to its types.
THEOREM PartsTypesCorrect == PartsSpec => []PartsTypeOK
<1>1. /\ TypeOK /\ ScreenTypeOK /\ NetTypeOK /\ HistoryTypeOK /\ SettingsTypeOK
      /\ ProcListTypeOK /\ ProcViewTypeOK /\ TextEditTypeOK
      => PartsTypeOK
  BY DEF PartsTypeOK
<1> QED
  BY <1>1, PartsKeepApart, TypeCorrect, ScreenTypesCorrect, NetTypesCorrect,
     HistoryTypesCorrect, SettingsTypesCorrect, ProcListTypesCorrect, ProcViewTypesCorrect,
     TextEditTypesCorrect, PTL
=============================================================================
