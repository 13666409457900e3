\* Keys pressed before a navigation arrives leave a player nobody can remove.
SPECIFICATION SessionsSpec
CONSTANTS
  Players = {p1, p2}
  Lobbies = {l1, l2}
  Codes = {k1, k2}
  Channels = {c1, c2, c3}
  Buffer = 1
  MaxNavs = 2
  None = None
CHECK_DEADLOCK FALSE
INVARIANTS Released
