\* Two accounts and an id to give out, any two calls at once whose merges do not
\* meet: the transactions keep the repository's contract, nobody overspends and
\* every call returns.
SPECIFICATION PopulatedApart
CONSTANTS
  Accounts = {a, b, n}
  Live = {a, b}
  Keys = {ka, kb, ku}
  Runs = {ra, rb, rn}
  Cosmetics = {c, d}
  SlotOf <- OneSlot
  Codes = {xa, xb, xn}
  Calls = {p, q}
  None = None
\* Every call may have been made and answered.
CHECK_DEADLOCK FALSE
INVARIANTS PgTypeOK NoOverdraft
PROPERTIES ImplementsRepository CallsReturn
