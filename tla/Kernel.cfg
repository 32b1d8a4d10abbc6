SPECIFICATION Spec
CONSTANTS
  Machines <- MC_Machines
  MaxKeys = 2
  Glyphs = 1
  Letters = 2
INVARIANTS TypeOK InterruptsMatchBytes LossBounded CodeNamesPhase PreferredTaken
PROPERTIES KeyAnswered BootEnds
CHECK_DEADLOCK FALSE
