\* The money: deposits, sponsorships, draws, prizes, unbonding, an epoch,
\* GLOW rewards of sponsors and operators, rate and boost raised.
SPECIFICATION Spec
CONSTANTS
  u1 = u1  u2 = u2  u3 = u3  admin = admin  oracle = oracle  None = None
  One = 10
  TaxRate = 1
  TaxCap = 100
  Base = 2
  TicketLength = 1
  RAND_GENESIS = 0
  RAND_PERIOD = 1
  Users = {u1, u2}
  Addresses = {u1, u2, admin, oracle}
  MAX_CLAIMS = 1
  RoundUpLimit = 3
  TicketPriceSlack = 1
  MAX_HOLDERS_FLOOR = 1
  MAX_HOLDERS_CAP = 3
  MinEpochInterval = 1
  InitialDeposit = 44
  Uint32Max = 20
  Uint256Max = 100000
  SpendLimit = 1000
  MaxLottery = 1
  MaxTime = 4
  Purse = 44
  InitConfig <- MCConfig
  InitOperatorRate = 7
  InitSponsorRate = 15
  InitTime = 1
  InitLotteryTime = 2
  MaxEmissionRate = 25
  MaxBoost = 12
  InitRate = 10
  DepositAmounts = {22}
  TicketRequests <- NoRequest
  OperatorChoices = {u1, u2}
  GiftAmounts = {}
  ClaimRequests = {}
  WithdrawAmounts = {None}
  InstantChoices = {FALSE}
  SponsorAmounts = {22}
  AwardChoices = {FALSE, TRUE}
  AwardDistributions = {}
  Limits = {2}
  VotingBalances <- MCVotes
  ConfigUpdates <- MCRateUpdates
  LotteryConfigUpdates = {}
  TimeSteps = {1}
  RateSteps = {3}
  ConfigSenders = {admin}
  Registrars = {admin}
  RewardClaimers = {u1, u2}
SYMMETRY Symmetry
CHECK_DEADLOCK FALSE
INVARIANTS AustSolvency UstSolvency PoolTotalsAreSums GlowWithinBudget
PROPERTIES SharePriceNeverDiluted
