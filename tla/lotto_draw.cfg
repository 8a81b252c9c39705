\* Draws: two depositors, tickets of two binary digits, pages of one or two
\* keys, an interval of two, late executions, prize claims, pauses, past draws
\* forgotten.
SPECIFICATION Spec
CONSTANTS
  u1 = u1  u2 = u2  u3 = u3  admin = admin  oracle = oracle  None = None
  One = 10
  TaxRate = 1
  TaxCap = 100
  Base = 2
  TicketLength = 2
  RAND_GENESIS = 0
  RAND_PERIOD = 1
  Users = {u1, u2}
  Addresses = {u1, u2, admin, oracle}
  MAX_CLAIMS = 1
  RoundUpLimit = 3
  TicketPriceSlack = 1
  MAX_HOLDERS_FLOOR = 1
  MAX_HOLDERS_CAP = 3
  MinEpochInterval = 1
  InitialDeposit = 44
  Uint32Max = 20
  Uint256Max = 100000
  SpendLimit = 1000
  MaxLottery = 2
  MaxTime = 5
  Purse = 44
  InitConfig <- MCConfigNoGlow
  InitOperatorRate = 0
  InitSponsorRate = 0
  InitTime = 1
  InitLotteryTime = 2
  MaxEmissionRate = 25
  MaxBoost = 10
  InitRate = 10
  DepositAmounts = {22}
  TicketRequests <- NoRequest
  OperatorChoices = {None}
  GiftAmounts = {}
  ClaimRequests = {}
  WithdrawAmounts = {None}
  InstantChoices = {TRUE}
  SponsorAmounts = {}
  AwardChoices = {}
  AwardDistributions = {}
  Limits = {1, 2}
  VotingBalances <- NoVotes
  ConfigUpdates <- MCPauseUpdates
  LotteryConfigUpdates = {}
  TimeSteps = {1}
  RateSteps = {3}
  ConfigSenders = {admin}
  Registrars = {}
  RewardClaimers = {}
SYMMETRY Symmetry
CHECK_DEADLOCK FALSE
PROPERTIES DrawIsFrozen SequenceUnknownAtStart AwardIsComplete AwardIsFinal NextLotteryOnSchedule
