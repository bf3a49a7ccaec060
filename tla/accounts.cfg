SPECIFICATION Spec
CONSTANTS
  First = {u1}
  Social = {g1}
  Requests = {r1, r2, r3, r4, r5}
  Addresses = {a1}
  Budget <- EachFault
  None = None
SYMMETRY Symmetry
CHECK_DEADLOCK FALSE
INVARIANTS
  ExchangedTokensAreDead
  ResetEndsAccess
  CalmResetEndsSessions
  OneAccountPerAddress
  SessionsNeedAReachedAddress
  AccountsKeepApart
  PurgeIsComplete
