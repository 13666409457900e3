\* Two sessions, two lobbies after each other under one code: nobody outruns a
\* navigation, and what is broadcast finds room.
SPECIFICATION SteadySpec
CONSTANTS
  Players = {p1, p2}
  Lobbies = {l1, l2}
  Codes = {k1}
  Channels = {c1, c2}
  Buffer = 1
  MaxNavs = 1
  None = None
\* Everyone may have left, with every lobby there may be closed.
CHECK_DEADLOCK FALSE
INVARIANTS SessionsTypeOK RegistryAgrees ChannelsAgree KnowsItsLobby Released InStep
PROPERTIES CatchesUp PumpsExit
