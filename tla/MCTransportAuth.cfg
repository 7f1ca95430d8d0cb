CONSTANTS
  User = {alice, bob}
  Key = {k1, k2}
  Challenge = {c1, c2}
  Token = {t1, t2}
  NoAccount = NoAccount
  TokenRequired = TRUE
  ChallengeTtl = 1
  SessionTtl = 2
  Window = 1
  MaxAttempts = 1
  MaxTime = 3
  MaxRestarts = 1
SPECIFICATION StoreSpec
SYMMETRY Interchangeable
INVARIANTS TypeOK AcceptedUnderCurrentKey OneLoginPerChallenge
PROPERTIES RefusedForGood ImplementsService
