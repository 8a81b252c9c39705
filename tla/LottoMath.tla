----------------------------- MODULE LottoMath -----------------------------
(***************************************************************************)
(* The pure computations of the lotto contract (contracts/lotto/src/       *)
(* helpers.rs, oracle.rs) and of the tax helper it shares with the other   *)
(* contracts (packages/glow_protocol/src/querier.rs).                      *)
(*                                                                         *)
(* A Decimal256 is a natural number of One-ths: One stands for 10^18.      *)
(* Every operation rounds where cosmwasm_bignumber rounds.                 *)
(*                                                                         *)
(* A ticket is a string of TicketLength hexadecimal digits.  It is         *)
(* represented by the number it denotes in base Base, so that the          *)
(* lexicographic order of the storage keys is the order of the numbers     *)
(* and the first m digits of t are t \div Power[TicketLength - m].         *)
(***************************************************************************)
EXTENDS Integers, FiniteSets, FiniteSetsExt, Functions

CONSTANTS
    One,            \* the Decimal256 one
    TaxRate,        \* Terra's tax rate, a Decimal256
    TaxCap,         \* Terra's cap on the tax of one transfer, in uusd
    Base,           \* number of digits of a ticket's alphabet (16)
    TicketLength,   \* TICKET_LENGTH (6)
    RAND_GENESIS,   \* time of the oracle's first round
    RAND_PERIOD     \* seconds between two rounds

ASSUME OneAssumption == One \in Nat \ {0}
ASSUME TaxAssumption == TaxRate \in Nat /\ TaxCap \in Nat
ASSUME TicketAssumption == Base \in Nat \ {0, 1} /\ TicketLength \in Nat \ {0}
ASSUME RandAssumption == RAND_GENESIS \in Nat /\ RAND_PERIOD \in Nat \ {0}

-----------------------------------------------------------------------------
(* Fixed-point arithmetic.                                                 *)

\* Uint256 * Decimal256
DecMul(a, d) == (a * d) \div One

\* Uint256 / Decimal256
DecDiv(a, d) == (a * One) \div d

\* Decimal256::from_ratio
from_ratio(a, b) == (a * One) \div b

\* Uint256::multiply_ratio
multiply_ratio(a, n, d) == (a * n) \div d

\* The first is a faulty variant that rounds up.
decimal_from_ratio_or_one_Ceil(a, b) ==
    IF a = 0 /\ b = 0 THEN One ELSE (a * One + b - 1) \div b
decimal_from_ratio_or_one(a, b) ==
    IF a = 0 /\ b = 0 THEN One ELSE from_ratio(a, b)

\* from_ratio panics on a zero denominator.
RatioDefined(a, b) == a # 0 => b # 0

Smaller(a, b) == IF a <= b THEN a ELSE b

-----------------------------------------------------------------------------
(* Taxes.  deduct_tax is what a sender subtracts beforehand; TransferTax   *)
(* is what the chain then charges on top of the amount sent.               *)

compute_tax(amount) == Smaller(amount - DecDiv(amount, One + TaxRate), TaxCap)

deduct_tax(amount) == amount - compute_tax(amount)

TransferTax(amount) == Smaller(DecMul(amount, TaxRate), TaxCap)

\* What a transfer of net costs its sender.
Charge(net) == net + TransferTax(net)

-----------------------------------------------------------------------------
(* Tickets.                                                                *)

\* How many strings of n digits there are.
Power[n \in Nat] == IF n = 0 THEN 1 ELSE Base * Power[n - 1]

Tickets == 0 .. Power[TicketLength] - 1

\* One prize bucket for each possible number of matches.
Buckets == 0 .. TicketLength

\* First ticket with the first m digits of t.
FirstOfPrefix(t, m) ==
    (t \div Power[TicketLength - m]) * Power[TicketLength - m]

\* The first m digits of min_bound, padded with the largest digit.
calculate_max_bound(min_bound, m) ==
    FirstOfPrefix(min_bound, m) + Power[TicketLength - m] - 1

\* Length of the longest common prefix.
count_seq_matches(a, b) ==
    Max({m \in Buckets : FirstOfPrefix(a, m) = FirstOfPrefix(b, m)})

\* The code returns an error when every fraction is zero.
HasWinningTier(prize_distribution) == \E m \in Buckets : prize_distribution[m] # 0

get_minimum_matches_for_winning_ticket(prize_distribution) ==
    Min({m \in Buckets : prize_distribution[m] # 0})

\* Faulty variant: the current round.
calculate_lottery_rand_round_current(time, round_delta) ==
    (time - RAND_GENESIS) \div RAND_PERIOD + 1
calculate_lottery_rand_round(time, round_delta) ==
    (time - RAND_GENESIS) \div RAND_PERIOD + round_delta

-----------------------------------------------------------------------------
(* The redemption that funds a draw, and the prizes.                       *)

\* Faulty variant: the sponsors' deposits are not set aside.  sponsored is
\* pool.total_sponsor_lottery_deposits, balance contract_a_balance.
RedeemSponsorDeposits(last_rate, user_aust, sponsored, split, balance, rate) ==
    LET user_value == DecMul(DecMul(user_aust, rate - last_rate), split)
    IN [user_aust_to_redeem    |-> DecDiv(user_value, rate),
        sponsor_aust_to_redeem |-> balance - user_aust]

calculate_value_of_aust_to_be_redeemed_for_lottery(last_rate, user_aust, sponsored, split, balance, rate) ==
    LET user_value    == DecMul(DecMul(user_aust, rate - last_rate), split)
        sponsor_value == DecMul(balance - user_aust, rate) - sponsored
    IN [user_aust_to_redeem    |-> DecDiv(user_value, rate),
        sponsor_aust_to_redeem |-> DecDiv(sponsor_value, rate)]

\* boost: [base_multiplier, max_multiplier, total_voting_power_weight].
calculate_boost_multiplier(boost, user_shares, total_user_shares, user_voting, total_voting) ==
    LET deposits == decimal_from_ratio_or_one(total_user_shares, user_shares)
        votes    == from_ratio(user_voting,
                        DecMul(total_voting, boost.total_voting_power_weight))
        slope    == boost.max_multiplier - boost.base_multiplier
        voting_boost == IF total_voting > 0 /\ user_shares > 0
                        THEN DecMul(DecMul(deposits, votes), slope)
                        ELSE 0
    IN Smaller(boost.base_multiplier + voting_boost, boost.max_multiplier)

BoostDefined(boost, user_shares, total_voting) ==
    total_voting > 0 /\ user_shares > 0
        => DecMul(total_voting, boost.total_voting_power_weight) # 0

\* A winner's part of one bucket.
PrizeShare(bucket, matches, winners) ==
    IF winners = 0 THEN 0 ELSE multiply_ratio(bucket, matches, winners)

\* UST and GLOW of all the buckets (calculate_winner_prize).
WinnerUst(lottery, matches) ==
    SumFunction([i \in Buckets |->
        PrizeShare(lottery.prize_buckets[i], matches[i], lottery.number_winners[i])])

WinnerGlow(lottery, matches, multiplier) ==
    SumFunction([i \in Buckets |->
        DecMul(PrizeShare(lottery.glow_prize_buckets[i], matches[i],
                          lottery.number_winners[i]), multiplier)])

\* Faulty variant: counted from now, which drifts off the grid.
NextLotteryTime_FromNow(next_lottery_time, lottery_interval, now) ==
    now + lottery_interval

\* The smallest next_lottery_time + x * lottery_interval after now, x >= 1.
NextLotteryTime(next_lottery_time, lottery_interval, now) ==
    next_lottery_time
      + lottery_interval * (1 + (now - next_lottery_time) \div lottery_interval)

-----------------------------------------------------------------------------
(* GLOW rewards.  index: [last_reward_updated, global_reward_index,        *)
(* glow_emission_rate].                                                    *)

compute_global_reward(index, spread, block_height) ==
    LET reward_accrued == (block_height - index.last_reward_updated)
                            * index.glow_emission_rate
    IN IF index.last_reward_updated >= block_height THEN index
       ELSE [index EXCEPT
               !.global_reward_index = @ + IF reward_accrued # 0 /\ spread # 0
                                           THEN reward_accrued \div spread
                                           ELSE 0,
               !.last_reward_updated = block_height]

\* compute_operator_reward and compute_sponsor_reward.  info:
\* [pending_rewards, reward_index], stake: its shares or its lottery deposit.
\* The first is a faulty variant: the index is not recorded.
compute_reward_NoIndex(index, info, stake) ==
    [info EXCEPT
       !.pending_rewards = @ + stake * (index.global_reward_index - info.reward_index)]
compute_reward(index, info, stake) ==
    [info EXCEPT
       !.pending_rewards = @ + stake * (index.global_reward_index - info.reward_index),
       !.reward_index = index.global_reward_index]

=============================================================================
