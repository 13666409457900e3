\* A session in a hurry: the link screen is left before the redeem's answer,
\* which then finds no screen that takes it.
SPECIFICATION PlaySpec
CONSTANTS
  Length = 2
  Own = Own
  Other = Other
  None = None
  bar = bar
  dots = dots
  Cosmetics = {bar, dots}
  SlotOf <- MCSlotOf
  Price <- MCPrice
  Saved <- MCSaved
  QueueSize = 1
  Draws = {2, 8}
  WPMs = {75}
  MaxRacers = 1
  MaxKeystrokes = 3
  MaxAttempts = 2
  MaxCommands = 3
\* The bounds may be reached.
CHECK_DEADLOCK FALSE
INVARIANTS PlaysForALiveAccount
