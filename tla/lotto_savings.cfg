\* Deposits, gifts, ticket claims and withdrawals, with and without operator.
SPECIFICATION Spec
CONSTANTS
  u1 = u1  u2 = u2  u3 = u3  admin = admin  oracle = oracle  None = None
  One = 10
  TaxRate = 1
  TaxCap = 100
  Base = 2
  TicketLength = 1
  RAND_GENESIS = 0
  RAND_PERIOD = 1
  Users = {u1, u2}
  Addresses = {u1, u2, admin, oracle}
  MAX_CLAIMS = 1
  RoundUpLimit = 3
  TicketPriceSlack = 1
  MAX_HOLDERS_FLOOR = 1
  MAX_HOLDERS_CAP = 3
  MinEpochInterval = 1
  InitialDeposit = 44
  Uint32Max = 20
  Uint256Max = 100000
  SpendLimit = 1000
  MaxLottery = 1
  MaxTime = 2
  Purse = 55
  InitConfig <- MCConfig
  InitOperatorRate = 0
  InitSponsorRate = 0
  InitTime = 1
  InitLotteryTime = 9
  MaxEmissionRate = 25
  MaxBoost = 10
  InitRate = 10
  DepositAmounts = {22}
  TicketRequests <- NoRequest
  OperatorChoices = {None, u1}
  GiftAmounts = {33}
  ClaimRequests <- NoRequest
  WithdrawAmounts = {None, 7}
  InstantChoices = {TRUE}
  SponsorAmounts = {}
  AwardChoices = {}
  AwardDistributions = {}
  Limits = {}
  VotingBalances <- NoVotes
  ConfigUpdates <- MCHolderUpdates
  LotteryConfigUpdates <- MCPriceUpdates
  TimeSteps = {1}
  RateSteps = {3}
  ConfigSenders = {admin}
  Registrars = {}
  RewardClaimers = {}
CHECK_DEADLOCK FALSE
INVARIANTS TypeOK TicketRegistryConsistent OperatorSharesMatch
