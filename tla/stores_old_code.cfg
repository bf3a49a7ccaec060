SPECIFICATION Spec
CONSTANTS
  Providers = {u1}
  Phones = {f1, f2}
  Requests = {1, 2, 3}
  MaxEvents = 1
  Budget <- NoFault
  None = None
VIEW Live
CHECK_DEADLOCK FALSE
INVARIANTS
  ValidatedPhoneGotTheCode
