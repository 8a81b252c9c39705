----------------------------- MODULE LottoState -----------------------------
(***************************************************************************)
(* The storage of the lotto contract (contracts/lotto/src/state.rs), the   *)
(* chain it runs on and the accounts it holds at other contracts.          *)
(*                                                                         *)
(* Every message is one transaction: it runs to its end or, on an error or *)
(* a panic (release builds check overflow, underflow and division by       *)
(* zero), leaves no trace.  So a failing message is no step at all, and    *)
(* every error return and every subtraction below zero is a guard.         *)
(***************************************************************************)
EXTENDS LottoMath, Sequences

CONSTANTS
    Users,               \* depositors, sponsors and operators
    Addresses,           \* every address a message may name, Users among them
    None,                \* an absent value: Option::None, an empty string,
                         \* the empty address
    MAX_CLAIMS,          \* unbonding claims of one depositor (15)
    RoundUpLimit,        \* tickets one deposit may add by itself (100)
    TicketPriceSlack,    \* 10 uusd of the ticket price, against rounding
    MAX_HOLDERS_FLOOR, MAX_HOLDERS_CAP,
    MinEpochInterval,    \* THIRTY_MINUTE_TIME
    InitialDeposit,      \* INITIAL_DEPOSIT_AMOUNT
    Uint32Max, Uint256Max,
    SpendLimit,          \* the distributor's limit on one payment
    MaxLottery,          \* bound: draws are numbered 0..MaxLottery
    MaxTime,             \* bound: the last block time
    Purse                \* bound: UST that users may still bring in, at first

ASSUME AddressAssumption ==
    Users \subseteq Addresses /\ None \notin Addresses /\ IsFiniteSet(Users)
ASSUME NoneAssumption == None \notin Nat
ASSUME LimitsAssumption ==
    {MAX_CLAIMS, RoundUpLimit, TicketPriceSlack, MAX_HOLDERS_FLOOR, MAX_HOLDERS_CAP,
     MinEpochInterval, InitialDeposit, Uint32Max, Uint256Max, SpendLimit,
     MaxLottery, MaxTime, Purse} \subseteq Nat

VARIABLES
    config,      \* CONFIG
    state,       \* STATE
    pool,        \* POOL
    depositors,  \* DEPOSITOR_DATA and the current value of DEPOSITOR_STATS
    checkpoint,  \* shares in DEPOSITOR_STATS at the beginning of this block
    tickets,     \* TICKETS: for every stored key, how often a user holds it
    sponsors,    \* the sponsor bucket
    operators,   \* the operator bucket
    lotteries,   \* LOTTERIES, the default record where nothing is stored
    snapshots,   \* DEPOSITOR_STATS at each lottery's block_height: shares
    prizes,      \* PRIZES; a record without matches stands for no entry
    block,       \* env.block
    rate,        \* Anchor's aUST exchange rate, a Decimal256
    bank,        \* the contract's UST and aUST
    paid_glow,   \* GLOW the distributor paid to sponsors and winners
    purse        \* UST that users may still bring in

storage == <<config, state, pool, depositors, tickets, sponsors, operators,
             lotteries, snapshots, prizes>>
chain == <<checkpoint, block, rate, bank, paid_glow, purse>>
vars == <<storage, chain>>

-----------------------------------------------------------------------------
(* Types.                                                                  *)

\* None is Expiration::Never.
Expiration == Nat \cup {None}

BoostConfig == [base_multiplier : Nat, max_multiplier : Nat,
                total_voting_power_weight : Nat]

Config ==
    [owner : Addresses, oracle_contract : Addresses,
     registered : BOOLEAN,  \* gov, community, distributor, ve contracts set
     lottery_interval : Nat, epoch_interval : Nat, block_time : Nat,
     round_delta : Nat, ticket_price : Nat, max_holders : Nat,
     prize_distribution : [Buckets -> Nat], reserve_factor : Nat,
     split_factor : Nat, instant_withdrawal_fee : Nat,
     unbonding_period : Nat, max_tickets_per_depositor : Nat,
     glow_prize_buckets : [Buckets -> Nat], paused : BOOLEAN,
     lotto_winner_boost_config : BoostConfig]

RewardEmissionsIndex ==
    [last_reward_updated : Nat, global_reward_index : Nat,
     glow_emission_rate : Nat]

State ==
    [total_tickets : Nat, total_reserve : Nat,
     prize_buckets : [Buckets -> Nat], current_lottery : 0..MaxLottery,
     next_lottery_time : Nat, next_lottery_exec_time : Expiration,
     next_epoch : Nat,
     operator_reward_emission_index : RewardEmissionsIndex,
     sponsor_reward_emission_index : RewardEmissionsIndex,
     last_lottery_execution_aust_exchange_rate : Nat]

Pool ==
    [total_user_aust : Nat, total_user_shares : Nat,
     total_sponsor_lottery_deposits : Nat, total_operator_shares : Nat]

\* A Vec<Claim> of at most MAX_CLAIMS elements whose order never matters:
\* each claim keeps a slot of its own.
Claim == [slot : 1..MAX_CLAIMS, amount : Nat, release_at : Nat]

DepositorInfo ==
    [shares : Nat, tickets : Seq(Tickets), unbonding_info : SUBSET Claim,
     operator_addr : Users \cup {None}]

SponsorInfo ==
    [lottery_deposit : Nat, pending_rewards : Nat, reward_index : Nat]

OperatorInfo == [shares : Nat, pending_rewards : Nat, reward_index : Nat]

LotteryInfo ==
    [rand_round : Nat, sequence : Tickets \cup {None}, awarded : BOOLEAN,
     timestamp : Nat, block_height : Nat, prize_buckets : [Buckets -> Nat],
     number_winners : [Buckets -> 0..Uint32Max],
     page : Tickets \cup {None}, glow_prize_buckets : [Buckets -> Nat],
     total_user_shares : Nat]

PrizeInfo == [claimed : BOOLEAN, matches : [Buckets -> 0..Uint32Max]]

TypeOK ==
    /\ config \in Config
    /\ state \in State
    /\ pool \in Pool
    /\ depositors \in [Users -> DepositorInfo]
    /\ checkpoint \in [Users -> Nat]
    /\ DOMAIN tickets \subseteq Tickets
    /\ tickets \in [DOMAIN tickets -> [Users -> Nat]]
    /\ sponsors \in [Users -> SponsorInfo]
    /\ operators \in [Users -> OperatorInfo]
    /\ lotteries \in [0..MaxLottery -> LotteryInfo]
    /\ snapshots \in [0..MaxLottery -> [Users -> Nat]]
    /\ prizes \in [0..MaxLottery -> [Users -> PrizeInfo]]
    /\ block \in [height : Nat, time : Nat]
    /\ rate \in Nat \ {0}
    /\ bank \in [ust : Nat, aust : Nat]
    /\ paid_glow \in Nat
    /\ purse \in Nat

-----------------------------------------------------------------------------
(* What is read where nothing is stored.                                   *)

ZeroBuckets == [i \in Buckets |-> 0]

DefaultDepositor ==
    [shares |-> 0, tickets |-> <<>>, unbonding_info |-> {},
     operator_addr |-> None]

DefaultSponsor == [lottery_deposit |-> 0, pending_rewards |-> 0, reward_index |-> 0]

DefaultOperator == [shares |-> 0, pending_rewards |-> 0, reward_index |-> 0]

DefaultLottery ==
    [rand_round |-> 0, sequence |-> None, awarded |-> FALSE,
     timestamp |-> 0, block_height |-> 0, prize_buckets |-> ZeroBuckets,
     number_winners |-> ZeroBuckets, page |-> None,
     glow_prize_buckets |-> ZeroBuckets, total_user_shares |-> 0]

NoPrize == [claimed |-> FALSE, matches |-> ZeroBuckets]

HasPrize(prize) == \E i \in Buckets : prize.matches[i] # 0

\* The holders stored under a ticket's key.
Holders(t) == IF t \in DOMAIN tickets THEN tickets[t] ELSE [u \in Users |-> 0]

-----------------------------------------------------------------------------
(* Conditions that several messages share.                                 *)

current_lottery == lotteries[state.current_lottery]

\* From execute_lottery until the draw is awarded.
LotteryStarted == current_lottery.rand_round # 0

\* What most messages check before anything else.  The first is a faulty
\* variant: it closes the registry only once the sequence is known.
LotteryNotStarted_UntilSequence == current_lottery.sequence = None
LotteryNotStarted == ~LotteryStarted

is_expired(expiration) == expiration # None /\ block.time >= expiration

Running == ~config.paused

operator_registered(info) == info.operator_addr # None

\* The four addresses are set by one message.
contracts_registered == config.registered

\* Distributor spend: the payment is within its limit (0 sends no message).
DistributorPays(amount) ==
    amount # 0 => contracts_registered /\ amount <= SpendLimit

\* The sum of f on S.
SumOver(S, f(_)) == SumFunction([x \in S |-> f(x)])

ReservedForPrizes == SumOver(Buckets, LAMBDA i : state.prize_buckets[i])

=============================================================================
