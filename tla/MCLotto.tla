------------------------------ MODULE MCLotto ------------------------------
(***************************************************************************)
(* Small instances of the lotto contract.                                  *)
(***************************************************************************)
EXTENDS LottoProperties, TLC

CONSTANTS u1, u2, u3, admin, oracle

\* All matches win 60%, one less wins 40%.
MCDistribution ==
    [i \in Buckets |-> CASE i = TicketLength -> 6
                         [] i = TicketLength - 1 -> 4
                         [] OTHER -> 0]

MCConfig ==
    [owner |-> admin, oracle_contract |-> oracle, registered |-> FALSE,
     lottery_interval |-> 2, epoch_interval |-> 3, block_time |-> 1,
     round_delta |-> 2, ticket_price |-> 21, max_holders |-> 2,
     prize_distribution |-> MCDistribution, reserve_factor |-> 2,
     split_factor |-> 5, instant_withdrawal_fee |-> 1, unbonding_period |-> 1,
     max_tickets_per_depositor |-> 3, glow_prize_buckets |-> [i \in Buckets |-> 10 * i],
     paused |-> FALSE,
     lotto_winner_boost_config |->
        [base_multiplier |-> 4, max_multiplier |-> 10, total_voting_power_weight |-> 15]]

MCConfigNoGlow == [MCConfig EXCEPT !.glow_prize_buckets = [i \in Buckets |-> 0]]

NoConfigUpdate ==
    [owner |-> None, oracle_addr |-> None, reserve_factor |-> None,
     instant_withdrawal_fee |-> None, unbonding_period |-> None,
     epoch_interval |-> None, max_holders |-> None,
     max_tickets_per_depositor |-> None, paused |-> None,
     lotto_winner_boost_config |-> None, operator_glow_emission_rate |-> None,
     sponsor_glow_emission_rate |-> None]

NoLotteryConfigUpdate ==
    [lottery_interval |-> None, block_time |-> None, ticket_price |-> None,
     prize_distribution |-> None, round_delta |-> None]

MCHolderUpdates == {[NoConfigUpdate EXCEPT !.max_holders = n] : n \in {1, 3}}

MCPriceUpdates == {[NoLotteryConfigUpdate EXCEPT !.ticket_price = 11]}

MCPauseUpdates == {[NoConfigUpdate EXCEPT !.paused = b] : b \in BOOLEAN}

\* Sponsors earn more than at first, winners too.
MCRateUpdates ==
    {[NoConfigUpdate EXCEPT !.sponsor_glow_emission_rate = 25,
                            !.lotto_winner_boost_config =
        [base_multiplier |-> 10, max_multiplier |-> 12, total_voting_power_weight |-> 15]]}

NoRequest == {<<>>}
NoVotes == {[user |-> 0, total |-> 0]}
MCVotes == {[user |-> 10, total |-> 10]}
Symmetry == Permutations(Users)

=============================================================================
