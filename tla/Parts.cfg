SPECIFICATION PartsSpec
CONSTANTS
  handler = handler
  e1 = e1
  e2 = e2
  Producers <- MCProducers
  Items <- MCItems
  NoItem = NoItem
  Torn = Torn
  Capacity = 2
  Wrap = 8
  Shapes <- MCShapes
  Glyphs = {"blank", "a"}
  Blank = "blank"
  Pens <- MCPens
  Drawn <- MCDrawn
  ResetPen <- MCPlain
  Plain <- MCPlain
  Colors = {"none", "dark", "red"}
  NoColor = "nocolor"
  Attrs = {"bold", "dim", "italic"}
  Erases = FALSE
  IfaceOrder <- MCOrder
  Permanent = {"lo"}
  ConfigIface = "none"
  NoIface = "none"
  Busy <- MCBusy
  MaxSent = 2
  MaxAgain = 2
  Samples = {0, 1}
  Rooms = {1, 4}
  GraphWidths = {2}
  Boxes = {"cpu", "proc", "gpu0"}
  Present = {"cpu", "proc"}
  DefaultBoxes <- MCDefault
  FullPreset <- MCFull
  PresetLists <- MCLists
  BoxLists <- MCBoxLists
  Switches = {"Off"}
  Positions = {1}
  RoomSizes = {1, 2}
  Pids = {1, 2, 3}
  Systems <- MCSystems
  Filters = {{2}}
  NoFilter = NoFilter
  FoldKeys = {"collapse"}
  Listings <- MCListings
  BoxRows = 4
  DetailRows = 2
  Characters = {" ", "7", "wide", "wider"}
  Width <- MCWidth
  Space = " "
  Digits = {"7"}
  Limit = 4
INVARIANTS
  PartsTypeOK
  Bounded NoSlotRace
  DisplayShowsFrame
  NeverOvercounts SelectedKnown
  GraphShowsPlotted
  LastSetWins DrawsWhatIsLaidOut SavedUnlessCached PresetExists
  ShownCounted
  SelectedIsShown
PROPERTIES
  ImplementsFifo
  TotalOnlyGrows
  ImplementsWindow
  StableInCycle
  PausedListKept
  FollowedIsSelected PauseKeepsSelection
  EditsALine
