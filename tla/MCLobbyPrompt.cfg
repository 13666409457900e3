\* The deadline protects every race when goroutines called off are gone before
\* the next countdown starts.
SPECIFICATION PromptSpec
CONSTANTS
  PlayerIDs = {ann, bob, cat}
  MaxPlayers = 3
  CountdownFrom = 2
  PassageLen = 1
  Aborts = {c1, c2}
  NoAbort = NoAbort
INVARIANTS
  RaceHasDeadline
PROPERTIES
  RaceOpensOnItsCountdown
  DeadlineCallsItsOwnRace
  RaceEnds
CHECK_DEADLOCK FALSE
