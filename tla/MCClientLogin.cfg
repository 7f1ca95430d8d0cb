CONSTANTS
  Me = alice
  User = {alice}
  Key = {k1, k2}
  MyKey = k1
  Challenge <- Ids
  Token <- Ids
  NoAccount = NoAccount
  NoToken = 0
  TokenRequired = TRUE
  Provisioned = TRUE
  ChallengeTtl = 1
  SessionTtl = 2
  Window = 1
  MaxAttempts = 2
  Margin = 1
  Skew <- ClockSkew
  Calm = 2
  MaxFaults = 2
  MaxTime = 6
  MaxRestarts = 1
SPECIFICATION FairLoginSpec
INVARIANTS LoginTypeOK AnswersMatch
PROPERTIES RefusalHasCause Recovers
