------------------------------- MODULE Lotto -------------------------------
(***************************************************************************)
(* The lotto contract: its configuration messages, its instantiation, the  *)
(* chain's clock and the whole specification                               *)
(* (contracts/lotto/src/contract.rs).                                      *)
(***************************************************************************)
EXTENDS LottoDraw

CONSTANTS
    \* The instantiation.
    InitConfig,        \* the Config it stores, not yet registered or paused
    InitOperatorRate,  \* initial_operator_glow_emission_rate
    InitSponsorRate,   \* initial_sponsor_glow_emission_rate
    InitTime,          \* block time of the instantiation
    InitLotteryTime,   \* initial_lottery_execution
    MaxEmissionRate,   \* what the owner ever sets a sponsors' emission rate
    MaxBoost,          \* and a largest multiplier to, at most
    InitRate,          \* Anchor's exchange rate then
    \* The inputs of the messages and of the clock.
    DepositAmounts, TicketRequests, OperatorChoices, GiftAmounts, ClaimRequests,
    WithdrawAmounts, InstantChoices, SponsorAmounts, AwardChoices,
    AwardDistributions, Limits, VotingBalances, ConfigUpdates,
    LotteryConfigUpdates, TimeSteps, RateSteps,
    ConfigSenders,     \* addresses that send configuration updates
    Registrars,        \* addresses that register the other contracts
    RewardClaimers     \* users that claim rewards

Option(S) == S \cup {None}

\* The randomness beacon is older than the contract.
ASSUME InstantiationAssumption ==
    /\ InitConfig \in Config
    /\ {InitOperatorRate, InitSponsorRate, InitTime, InitLotteryTime} \subseteq Nat
    /\ InitRate \in Nat \ {0}
    /\ InitTime >= RAND_GENESIS + RAND_PERIOD

ASSUME InputAssumption ==
    /\ TicketRequests \subseteq Seq(Tickets)
    /\ ClaimRequests \subseteq Seq(Tickets)
    /\ OperatorChoices \subseteq Option(Users)
    /\ WithdrawAmounts \subseteq Option(Nat)
    /\ InstantChoices \subseteq BOOLEAN /\ AwardChoices \subseteq BOOLEAN
    /\ AwardDistributions \subseteq [Buckets -> Nat]
    /\ RewardClaimers \subseteq Users
    /\ VotingBalances \subseteq [user : Nat, total : Nat]
    /\ Limits \subseteq Nat
    /\ TimeSteps \subseteq Nat
    /\ RateSteps \subseteq Nat

-----------------------------------------------------------------------------
(* Configuration.                                                          *)

Given(option, default) == IF option = None THEN default ELSE option

ConfigUpdate ==
    [owner : Option(Addresses), oracle_addr : Option(Addresses),
     reserve_factor : Option(Nat), instant_withdrawal_fee : Option(Nat),
     unbonding_period : Option(Nat), epoch_interval : Option(Nat),
     max_holders : Option(Nat), max_tickets_per_depositor : Option(Nat),
     paused : Option(BOOLEAN), lotto_winner_boost_config : Option(BoostConfig),
     operator_glow_emission_rate : Option(Nat),
     sponsor_glow_emission_rate : Option(Nat)]

LotteryConfigUpdate ==
    [lottery_interval : Option(Nat), block_time : Option(Nat),
     ticket_price : Option(Nat), prize_distribution : Option([Buckets -> Nat]),
     round_delta : Option(Nat)]

ASSUME UpdateAssumption ==
    /\ ConfigUpdates \subseteq ConfigUpdate
    /\ LotteryConfigUpdates \subseteq LotteryConfigUpdate

\* Only names: a finite number of updates has a largest rate and boost.
ASSUME LargestAssumption ==
    /\ MaxEmissionRate \in Nat /\ InitSponsorRate <= MaxEmissionRate
    /\ MaxBoost \in Nat
    /\ InitConfig.lotto_winner_boost_config.max_multiplier <= MaxBoost
    /\ \A msg \in ConfigUpdates :
         /\ msg.sponsor_glow_emission_rate # None =>
              msg.sponsor_glow_emission_rate <= MaxEmissionRate
         /\ msg.lotto_winner_boost_config # None =>
              msg.lotto_winner_boost_config.max_multiplier <= MaxBoost

ValidHolders(n) == n \in MAX_HOLDERS_FLOOR..MAX_HOLDERS_CAP

\* Tickets with more holders may exist already.  The first is a faulty
\* variant without the check.
HoldersNotDecreased_Unchecked(n) == TRUE
HoldersNotDecreased(n) == n >= config.max_holders

ValidBoost(boost) == boost.base_multiplier <= boost.max_multiplier

\* No depositor of an older version is left (LottoMigration has those), so
\* the owner may unpause as well as pause.
execute_update_config(sender, msg) ==
    /\ sender = config.owner
    /\ msg.reserve_factor # None => msg.reserve_factor <= One
    /\ msg.instant_withdrawal_fee # None => msg.instant_withdrawal_fee <= One
    /\ msg.epoch_interval # None => msg.epoch_interval >= MinEpochInterval
    /\ msg.max_holders # None =>
         ValidHolders(msg.max_holders) /\ HoldersNotDecreased(msg.max_holders)
    /\ msg.lotto_winner_boost_config # None => ValidBoost(msg.lotto_winner_boost_config)
    /\ config' = [config EXCEPT
          !.owner = Given(msg.oracle_addr, Given(msg.owner, @)),
          !.reserve_factor = Given(msg.reserve_factor, @),
          !.instant_withdrawal_fee = Given(msg.instant_withdrawal_fee, @),
          !.unbonding_period = Given(msg.unbonding_period, @),
          !.epoch_interval = Given(msg.epoch_interval, @),
          !.max_holders = Given(msg.max_holders, @),
          !.max_tickets_per_depositor = Given(msg.max_tickets_per_depositor, @),
          !.paused = Given(msg.paused, @),
          !.lotto_winner_boost_config = Given(msg.lotto_winner_boost_config, @)]
    /\ state' = [state EXCEPT
          !.operator_reward_emission_index.glow_emission_rate =
              Given(msg.operator_glow_emission_rate, @),
          !.sponsor_reward_emission_index.glow_emission_rate =
              Given(msg.sponsor_glow_emission_rate, @)]
    /\ UNCHANGED <<pool, depositors, tickets, sponsors, operators, lotteries,
                   snapshots, prizes, chain>>

execute_update_lottery_config(sender, msg) ==
    /\ Running
    /\ sender = config.owner
    /\ msg.prize_distribution # None => ValidDistribution(msg.prize_distribution)
    /\ config' = [config EXCEPT
          !.lottery_interval = Given(msg.lottery_interval, @),
          !.block_time = Given(msg.block_time, @),
          !.round_delta = Given(msg.round_delta, @),
          !.ticket_price = Given(msg.ticket_price, @),
          !.prize_distribution = Given(msg.prize_distribution, @)]
    /\ UNCHANGED <<state, pool, depositors, tickets, sponsors, operators, lotteries,
                   snapshots, prizes, chain>>

execute_register_contracts(sender) ==
    /\ Running
    /\ sender = config.owner
    /\ ~contracts_registered
    /\ config' = [config EXCEPT !.registered = TRUE]
    /\ UNCHANGED <<state, pool, depositors, tickets, sponsors, operators, lotteries,
                   snapshots, prizes, chain>>

-----------------------------------------------------------------------------
(* MigrateOldDepositors, which anybody may send at any time, paused or not.*)

\* What an empty old storage says of a draw, in the new format.
ForgottenLottery == [DefaultLottery EXCEPT !.total_user_shares = pool.total_user_shares]

\* With no old depositors the first batch is the last one: the old records of
\* the past draws, which do not exist, replace the new ones.
migrate_old_depositors ==
    /\ lotteries' = [i \in 0..MaxLottery |->
          IF i < state.current_lottery THEN ForgottenLottery ELSE lotteries[i]]
    /\ config' = [config EXCEPT !.paused = FALSE]
    /\ UNCHANGED <<state, pool, depositors, tickets, sponsors, operators, snapshots,
                   prizes, chain>>

-----------------------------------------------------------------------------
(* Instantiation.                                                          *)

NewIndex(emission_rate) ==
    [last_reward_updated |-> 0, global_reward_index |-> 0,
     glow_emission_rate |-> emission_rate]

ValidInstantiation ==
    /\ ValidDistribution(InitConfig.prize_distribution)
    /\ InitConfig.reserve_factor <= One
    /\ InitConfig.split_factor <= One
    /\ InitConfig.instant_withdrawal_fee <= One
    /\ InitConfig.ticket_price >= TicketPriceSlack
    /\ InitConfig.epoch_interval >= MinEpochInterval
    /\ ValidHolders(InitConfig.max_holders)
    /\ ValidBoost(InitConfig.lotto_winner_boost_config)
    /\ ~InitConfig.registered /\ ~InitConfig.paused
    /\ InitLotteryTime > InitTime

\* The initial deposit goes to Anchor and belongs to nobody.
Init ==
    /\ ValidInstantiation
    /\ config = InitConfig
    /\ state = [total_tickets |-> 0, total_reserve |-> 0,
                prize_buckets |-> ZeroBuckets, current_lottery |-> 0,
                next_lottery_time |-> InitLotteryTime,
                next_lottery_exec_time |-> None,
                next_epoch |-> InitTime + InitConfig.epoch_interval,
                operator_reward_emission_index |-> NewIndex(InitOperatorRate),
                sponsor_reward_emission_index |-> NewIndex(InitSponsorRate),
                last_lottery_execution_aust_exchange_rate |-> InitRate]
    /\ pool = [total_user_aust |-> 0, total_user_shares |-> 0,
               total_sponsor_lottery_deposits |-> 0, total_operator_shares |-> 0]
    /\ depositors = [u \in Users |-> DefaultDepositor]
    /\ checkpoint = [u \in Users |-> 0]
    /\ tickets = [t \in {} |-> [u \in Users |-> 0]]
    /\ sponsors = [u \in Users |-> DefaultSponsor]
    /\ operators = [u \in Users |-> DefaultOperator]
    /\ lotteries = [i \in 0..MaxLottery |-> DefaultLottery]
    /\ snapshots = [i \in 0..MaxLottery |-> [u \in Users |-> 0]]
    /\ prizes = [i \in 0..MaxLottery |-> [u \in Users |-> NoPrize]]
    /\ block = [height |-> 0, time |-> InitTime]
    /\ rate = InitRate
    /\ bank = [ust |-> InitialDeposit - Charge(deduct_tax(InitialDeposit)),
               aust |-> DecDiv(deduct_tax(InitialDeposit), InitRate)]
    /\ paid_glow = 0
    /\ purse = Purse

-----------------------------------------------------------------------------
(* The chain: a new block, with Anchor's rate at its height.               *)

NextBlock(seconds, accrued) ==
    /\ block.time + seconds <= MaxTime
    /\ block' = [height |-> block.height + 1, time |-> block.time + seconds]
    /\ rate' = rate + accrued
    /\ checkpoint' = [u \in Users |-> depositors[u].shares]
    /\ UNCHANGED <<storage, bank, paid_glow, purse>>

-----------------------------------------------------------------------------

Deposits ==
    \E u \in Users, amount \in DepositAmounts, o \in OperatorChoices,
       requested \in TicketRequests : execute_deposit(u, amount, o, requested)

Gifts ==
    \E u, to \in Users, amount \in GiftAmounts, o \in OperatorChoices,
       requested \in TicketRequests : execute_gift(u, to, amount, o, requested)

TicketClaims ==
    \E u \in Users, requested \in ClaimRequests : execute_claim_tickets(u, requested)

Withdrawals ==
    \E u \in Users, amount \in WithdrawAmounts, instant \in InstantChoices :
        execute_withdraw(u, amount, instant)

UnbondedClaims == \E u \in Users : execute_claim_unbonded(u)

Sponsorships ==
    \E u \in Users, amount \in SponsorAmounts, award \in AwardChoices :
        execute_sponsor(u, amount, award, AwardDistributions)

SponsorWithdrawals == \E u \in Users : execute_sponsor_withdraw(u)

RewardClaims == \E u \in RewardClaimers : execute_claim_rewards(u)

PrizeExecutions == \E limit \in Limits : execute_prize(limit)

PrizeClaims ==
    \E u \in Users, ids \in SUBSET (0..MaxLottery), votes \in VotingBalances :
        execute_claim_lottery(u, ids, votes)

Configurations ==
    \/ \E a \in ConfigSenders, msg \in ConfigUpdates : execute_update_config(a, msg)
    \/ \E a \in ConfigSenders, msg \in LotteryConfigUpdates :
           execute_update_lottery_config(a, msg)
    \/ \E a \in Registrars : execute_register_contracts(a)

Clock == \E seconds \in TimeSteps, accrued \in RateSteps : NextBlock(seconds, accrued)

Next ==
    \/ Deposits \/ Gifts \/ TicketClaims \/ Withdrawals \/ UnbondedClaims
    \/ Sponsorships \/ SponsorWithdrawals \/ RewardClaims \/ execute_epoch_ops
    \/ execute_lottery \/ PrizeExecutions \/ PrizeClaims
    \/ Configurations \/ migrate_old_depositors \/ Clock

Spec == Init /\ [][Next]_vars

(***************************************************************************)
(* Anybody may send execute_prize and somebody keeps doing so; a depositor *)
(* with a mature claim keeps trying to collect it although draws lock the  *)
(* contract now and then; blocks keep coming until the horizon MaxTime.    *)
(***************************************************************************)
Keeper == \E limit \in Limits \ {0} : execute_prize(limit)

FairSpec ==
    /\ Spec
    /\ WF_vars(Clock)
    /\ WF_vars(Keeper)
    /\ \A u \in Users : SF_vars(execute_claim_unbonded(u))

=============================================================================
