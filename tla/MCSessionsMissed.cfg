\* A RaceStarted that found the buffer full: the snapshots that follow do not
\* bring the session to the race, nor to its results.
SPECIFICATION DrainedSpec
CONSTANTS
  Players = {p1, p2}
  Lobbies = {l1}
  Codes = {k1}
  Channels = {c1, c2}
  Buffer = 1
  MaxNavs = 1
  None = None
CHECK_DEADLOCK FALSE
PROPERTIES SnapshotMakesUp
