SPECIFICATION Spec
CONSTANTS
  Clients = {c1}
  Codes = {k1}
  Tokens = {t1, t2}
  Requests = {r1, r2}
  Verifiers = {v1}
  None = none
  CodeTTL = 1
  TokenTTL = 1
  DefaultTTL = 2
  CleanupEvery = 2
  MaxTime = 5
PROPERTIES ExpiredEntriesGo ImplementsGrant
