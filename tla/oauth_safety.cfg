SPECIFICATION Spec
CONSTANTS
  Clients = {c1, c2}
  Codes = {k1, k2}
  Tokens = {t1, t2}
  Requests = {r1, r2}
  Verifiers = {v1}
  None = none
  CodeTTL = 1
  TokenTTL = 1
  DefaultTTL = 2
  CleanupEvery = 2
  MaxTime = 2
SYMMETRY Symmetry
INVARIANTS TypeOK OneTokenPerCode TokensEarned NoLateGrant
PROPERTIES NoEarlyRevocation
