\* Four sessions around a lobby of at most three, every interleaving of handlers
\* and goroutines, leftover goroutines included: the invariants, the race cycle
\* it implements and the end of its goroutines.
SPECIFICATION Spec
CONSTANTS
  PlayerIDs = {ann, bob, cat, dan}
  MaxPlayers = 3
  CountdownFrom = 2
  PassageLen = 2
  Aborts = {c1, c2}
  NoAbort = NoAbort
INVARIANTS
  TypeOK
  RosterAgrees
  RacersAreReady
  PhaseHasReason
  PlacesAreThePodium
  StandingsFollowTheRace
  AbortIsTheOpenChannel
  CountdownIsCounting
PROPERTIES
  ImplementsRaceCycle
  GoroutinesExit
CHECK_DEADLOCK FALSE
