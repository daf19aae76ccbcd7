SPECIFICATION RegFairSpec
CONSTANTS
  Procs = {p1, p2}
  Validators = {v1, v2}
  PayAddrs = {a1, a2}
  ValidAddrs = {a1}
  Challenges = {c1}
  MaxConns = 2
  None = None
INVARIANTS RegInv RegistrationProved
PROPERTIES NoReplay RequestsEnd
