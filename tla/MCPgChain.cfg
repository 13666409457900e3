\* One account is folded into another while that one is folded into a third:
\* what arrives after the rows moved goes with the account.
SPECIFICATION PopulatedPg
CONSTANTS
  Accounts = {a, b, d}
  Live = {a, b, d}
  Keys = {ka, kb, kd}
  Runs = {ra, rb, rd}
  Cosmetics = {c}
  SlotOf <- OneSlot
  Codes = {xa, xb, xd}
  Calls = {p, q}
  None = None
CHECK_DEADLOCK FALSE
PROPERTIES NothingLost
