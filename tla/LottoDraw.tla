------------------------------ MODULE LottoDraw ------------------------------
(***************************************************************************)
(* The draws of the lotto contract: execute_lottery closes the ticket      *)
(* registry and redeems the prize money, execute_prize pages through the   *)
(* winning tickets once the randomness is out, execute_claim_lottery pays  *)
(* (contracts/lotto/src/prize_strategy.rs, contract.rs, helpers.rs).       *)
(***************************************************************************)
EXTENDS LottoSavings

-----------------------------------------------------------------------------
(* Starting a draw.                                                        *)

\* The oracle cannot answer for a round before it happens.
OracleAnswers(round) == block.time >= RAND_GENESIS + (round - 1) * RAND_PERIOD

RedeemedAust ==
    calculate_value_of_aust_to_be_redeemed_for_lottery(
        state.last_lottery_execution_aust_exchange_rate, pool.total_user_aust,
        pool.total_sponsor_lottery_deposits, config.split_factor, bank.aust, rate)

execute_lottery ==
    LET user_aust_to_redeem == RedeemedAust.user_aust_to_redeem
        aust_to_redeem == user_aust_to_redeem + RedeemedAust.sponsor_aust_to_redeem
        net_amount == AnchorReturns(aust_to_redeem)
    IN /\ Running
       /\ is_expired(state.next_lottery_time)
       /\ state.total_tickets # 0
       /\ LotteryNotStarted
       /\ block.time >= RAND_GENESIS
       /\ rate >= state.last_lottery_execution_aust_exchange_rate
       /\ net_amount # 0
       /\ lotteries' = [lotteries EXCEPT ![state.current_lottery] =
             [DefaultLottery EXCEPT
                !.rand_round = calculate_lottery_rand_round(block.time, config.round_delta),
                !.block_height = block.height,
                !.timestamp = block.time,
                !.total_user_shares = pool.total_user_shares]]
       /\ snapshots' = [snapshots EXCEPT ![state.current_lottery] = checkpoint]
       /\ state' = [state EXCEPT
             !.next_lottery_exec_time = block.time + config.block_time,
             !.prize_buckets = Distribute(@, net_amount, config.prize_distribution),
             !.last_lottery_execution_aust_exchange_rate = rate]
       /\ pool' = [pool EXCEPT !.total_user_aust = @ - user_aust_to_redeem]
       /\ bank' = [bank EXCEPT !.ust = @ + net_amount, !.aust = @ - aust_to_redeem]
       /\ UNCHANGED <<config, depositors, checkpoint, tickets, sponsors, operators,
                      prizes, block, rate, paid_glow, purse>>

-----------------------------------------------------------------------------
(* Awarding it, one page of tickets at a time.                             *)

\* The keys of TICKETS from min_bound to the end of its prefix.
WinningKeys(min_bound, min_matches) ==
    {t \in DOMAIN tickets :
        t \in min_bound .. calculate_max_bound(min_bound, min_matches)}

\* The first limit of them.
Page(keys, limit) ==
    {t \in keys : Cardinality({s \in keys : s < t}) < limit}

\* How many tickets of the page with m matches u holds.
NewMatches(page, sequence, u, m) ==
    SumOver({t \in page : count_seq_matches(sequence, t) = m},
            LAMBDA t : tickets[t][u])

WinnersAfter(lottery, page, sequence) ==
    [m \in Buckets |-> lottery.number_winners[m]
        + SumOver(Users, LAMBDA u : NewMatches(page, sequence, u, m))]

PrizesAfter(entries, page, sequence) ==
    [u \in Users |-> [entries[u] EXCEPT !.matches =
        [m \in Buckets |-> @[m] + NewMatches(page, sequence, u, m)]]]

\* Buckets with winners are paid out, the others stay for the next draw.
ReserveFee(i) == DecMul(state.prize_buckets[i], config.reserve_factor)

ReserveFees(number_winners) ==
    SumOver({j \in Buckets : number_winners[j] # 0}, ReserveFee)

AwardedLottery(lottery, number_winners) ==
    [lottery EXCEPT
        !.awarded = TRUE,
        !.prize_buckets = [i \in Buckets |->
            IF number_winners[i] # 0 THEN state.prize_buckets[i] - ReserveFee(i) ELSE @[i]],
        !.glow_prize_buckets = [i \in Buckets |->
            IF number_winners[i] # 0 THEN config.glow_prize_buckets[i] ELSE @[i]]]

\* Faulty variant: the buckets that are paid out are not emptied.
StateAfterAward_BucketsKept(number_winners) ==
    [state EXCEPT
        !.total_reserve = @ + ReserveFees(number_winners),
        !.current_lottery = @ + 1,
        !.next_lottery_time = NextLotteryTime(@, config.lottery_interval, block.time),
        !.next_lottery_exec_time = None]
StateAfterAward(number_winners) ==
    [state EXCEPT
        !.total_reserve = @ + ReserveFees(number_winners),
        !.prize_buckets = [i \in Buckets |-> IF number_winners[i] # 0 THEN 0 ELSE @[i]],
        !.current_lottery = @ + 1,
        !.next_lottery_time = NextLotteryTime(@, config.lottery_interval, block.time),
        !.next_lottery_exec_time = None]

\* sequence: the stored one, or what the oracle answers at the first call.
SequencesToDraw ==
    IF current_lottery.sequence # None THEN {current_lottery.sequence}
    ELSE IF OracleAnswers(current_lottery.rand_round) THEN Tickets ELSE {}

\* The batch that a call with this sequence and limit handles.
\* Faulty variant: starts from the first winning key in every call.
MinBound_Restart(sequence) ==
    FirstOfPrefix(sequence,
        get_minimum_matches_for_winning_ticket(config.prize_distribution))
MinBound(sequence) ==
    IF current_lottery.page # None THEN current_lottery.page
    ELSE FirstOfPrefix(sequence,
             get_minimum_matches_for_winning_ticket(config.prize_distribution))

KeysToVisit(sequence) ==
    WinningKeys(MinBound(sequence),
                get_minimum_matches_for_winning_ticket(config.prize_distribution))

\* Keys that remain after a page.  An empty page ends the draw.
\* Faulty variant: skips the ticket right after the page.
KeysLeft_Skip(keys, page) ==
    IF page = {} THEN {} ELSE {t \in keys : \A s \in page : s + 1 < t}
KeysLeft(keys, page) ==
    IF page = {} THEN {} ELSE {t \in keys : \A s \in page : s < t}

execute_prize(limit) ==
    /\ Running
    /\ LotteryStarted
    /\ is_expired(state.next_lottery_exec_time)
    /\ HasWinningTier(config.prize_distribution)
    /\ \E sequence \in SequencesToDraw :
         LET keys    == KeysToVisit(sequence)
             page    == Page(keys, limit)
             left    == KeysLeft(keys, page)
             winners == WinnersAfter(current_lottery, page, sequence)
             entries == PrizesAfter(prizes[state.current_lottery], page, sequence)
             lottery == [current_lottery EXCEPT !.sequence = sequence,
                                                !.number_winners = winners]
         IN /\ winners \in [Buckets -> 0..Uint32Max]
            /\ entries \in [Users -> PrizeInfo]
            /\ prizes' = [prizes EXCEPT ![state.current_lottery] = entries]
            /\ \/ /\ \E first \in left :
                       /\ \A t \in left : first <= t
                       /\ lotteries' = [lotteries EXCEPT ![state.current_lottery] =
                             [lottery EXCEPT !.page = first]]
                  /\ UNCHANGED state
               \/ /\ left = {}
                  /\ config.lottery_interval > 0
                  /\ state.current_lottery < MaxLottery
                  /\ lotteries' = [lotteries EXCEPT ![state.current_lottery] =
                        AwardedLottery(lottery, winners)]
                  /\ state' = StateAfterAward(winners)
                  /\ state'.total_reserve \in 0..Uint256Max
    /\ UNCHANGED <<config, pool, depositors, tickets, sponsors, operators, snapshots,
                   chain>>

-----------------------------------------------------------------------------
(* Claiming prizes.                                                        *)

\* Faulty variant: the entry stays open, and may be claimed again.
ClaimedEntry_Open(prize) == prize
ClaimedEntry(prize) == [prize EXCEPT !.claimed = TRUE]

\* votes: the voting balances that the ve-token contract reports.
WinnerMultiplier(u, id, votes) ==
    calculate_boost_multiplier(config.lotto_winner_boost_config, snapshots[id][u],
                               lotteries[id].total_user_shares, votes.user, votes.total)

UstWon(u, ids) ==
    SumOver(ids, LAMBDA id : WinnerUst(lotteries[id], prizes[id][u].matches))

GlowWon(u, ids, votes) ==
    SumOver(ids, LAMBDA id : WinnerGlow(lotteries[id], prizes[id][u].matches,
                                        WinnerMultiplier(u, id, votes)))

\* lottery_ids without duplicates: claiming the same one twice is an error.
execute_claim_lottery(u, lottery_ids, votes) ==
    LET won == {id \in lottery_ids : HasPrize(prizes[id][u])}
        ust_to_send  == UstWon(u, won)
        glow_to_send == GlowWon(u, won, votes)
    IN /\ Running
       /\ LotteryNotStarted
       /\ \A id \in lottery_ids : lotteries[id].awarded
       /\ \A id \in won :
            /\ ~prizes[id][u].claimed
            /\ BoostDefined(config.lotto_winner_boost_config, snapshots[id][u], votes.total)
       /\ ust_to_send \in 1..bank.ust
       /\ CanPay(bank.ust, deduct_tax(ust_to_send))
       /\ glow_to_send \in 0..Uint256Max
       /\ DistributorPays(glow_to_send)
       /\ prizes' = [id \in DOMAIN prizes |->
             IF id \in won THEN [prizes[id] EXCEPT ![u] = ClaimedEntry(@)] ELSE prizes[id]]
       /\ bank' = [bank EXCEPT !.ust = @ - Charge(deduct_tax(ust_to_send))]
       /\ paid_glow' = paid_glow + glow_to_send
       /\ UNCHANGED <<config, state, pool, depositors, checkpoint, tickets, sponsors,
                      operators, lotteries, snapshots, block, rate, purse>>

=============================================================================
