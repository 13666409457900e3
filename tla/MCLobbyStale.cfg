\* A goroutine called off may still open the next race, which then has no
\* deadline and may last for ever.
SPECIFICATION Spec
CONSTANTS
  PlayerIDs = {ann, bob}
  MaxPlayers = 2
  CountdownFrom = 1
  PassageLen = 1
  Aborts = {c1, c2}
  NoAbort = NoAbort
PROPERTIES
  RaceEnds
CHECK_DEADLOCK FALSE
