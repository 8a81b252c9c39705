-------------------------- MODULE LottoProperties --------------------------
(***************************************************************************)
(* What the lotto contract must keep true.                                 *)
(***************************************************************************)
EXTENDS Lotto

-----------------------------------------------------------------------------
(* Money.                                                                  *)

\* The contract's aUST covers the depositors' aUST, and what is left covers
\* at the current rate what sponsors may take back.  execute_lottery
\* subtracts both without a check of its own
\* (calculate_value_of_aust_to_be_redeemed_for_lottery).
AustSolvency ==
    /\ pool.total_user_aust <= bank.aust
    /\ pool.total_sponsor_lottery_deposits * One
         <= (bank.aust - pool.total_user_aust) * rate

\* There is aUST behind the shares whenever there are shares, so the ratios
\* that deposit and execute_withdraw divide by never have a zero below.
PoolNonDegenerate ==
    pool.total_user_shares = 0 <=> pool.total_user_aust = 0

UnbondingClaims ==
    SumOver(Users, LAMBDA u :
        SumOver(depositors[u].unbonding_info, LAMBDA c : c.amount))

UnclaimedPrizes ==
    SumOver(0..MaxLottery, LAMBDA i :
        SumOver({u \in Users : ~prizes[i][u].claimed}, LAMBDA u :
            IF lotteries[i].awarded THEN WinnerUst(lotteries[i], prizes[i][u].matches)
            ELSE 0))

\* The contract's UST covers at all times everything it owes in UST: the
\* reserve, the prize buckets, the unbonding claims and the prizes that
\* winners have not claimed.  So execute_claim_unbonded and
\* execute_claim_lottery never fail for want of funds.
UstSolvency ==
    bank.ust >= state.total_reserve + ReservedForPrizes + UnbondingClaims
                  + UnclaimedPrizes

\* The totals of the pool are the sums of what depositors and sponsors own.
PoolTotalsAreSums ==
    /\ pool.total_user_shares = SumOver(Users, LAMBDA u : depositors[u].shares)
    /\ pool.total_sponsor_lottery_deposits
         = SumOver(Users, LAMBDA u : sponsors[u].lottery_deposit)

\* No deposit, gift or withdrawal makes a share of the others worth less
\* aUST: rounding always favours those who stay.
SharePriceNeverDiluted ==
    [][/\ lotteries' = lotteries
       /\ pool.total_user_shares # 0
       /\ pool'.total_user_shares # 0
       => pool.total_user_aust * pool'.total_user_shares
            <= pool'.total_user_aust * pool.total_user_shares]_vars

\* Every operator has the shares of the depositors that named it.
OperatorSharesMatch ==
    \A o \in Users : operators[o].shares =
        SumOver({u \in Users : depositors[u].operator_addr = o},
                LAMBDA u : depositors[u].shares)

\* The GLOW that sponsors have pending or would get at the current index, as
\* a Decimal256.
Accrued(u) ==
    sponsors[u].pending_rewards + sponsors[u].lottery_deposit
        * (state.sponsor_reward_emission_index.global_reward_index - sponsors[u].reward_index)

\* A past draw whose record is gone, and with it who won how much of what.
Forgotten(i) == i < state.current_lottery /\ ~lotteries[i].awarded

\* The GLOW a draw has for its winners; for a forgotten one, what it had at most.
GrantedGlow(i) ==
    IF Forgotten(i) THEN config.glow_prize_buckets ELSE lotteries[i].glow_prize_buckets

\* The GLOW buckets of the draws so far at the largest multiplier.
BoostedBuckets ==
    SumOver(0..MaxLottery, LAMBDA id :
        SumOver(Buckets, LAMBDA i : DecMul(GrantedGlow(id)[i], MaxBoost)))

\* However sponsors enter, leave and claim, whenever the owner changes the
\* emission rate or the boost, and although every winner's prize is boosted on
\* its own (calculate_winner_prize), the GLOW paid to sponsors and winners and
\* what sponsors are still owed never exceed what the largest rate would have
\* emitted since the instantiation and the buckets of the draws at the largest
\* boost.  Without it the distributor could be emptied.  At the largest rate,
\* because execute_update_config stores a new one without bringing the index
\* up to date, so it applies to past blocks.  What operators get is not
\* counted: their index grows by shares that operators may have without
\* total_operator_shares knowing (handle_depositor_operator_updates), so it
\* has no such bound.
GlowWithinBudget ==
    paid_glow * One + SumOver(Users, Accrued)
        <= MaxEmissionRate * state.sponsor_reward_emission_index.last_reward_updated
             + BoostedBuckets * One

-----------------------------------------------------------------------------
(* Tickets.                                                                *)

HeldTickets == SumOver(Users, LAMBDA u : Len(depositors[u].tickets))

\* TICKETS and the depositors' own lists record the same tickets, no ticket
\* has more holders than allowed, and total_tickets never counts a ticket
\* nobody holds, so a draw that execute_lottery lets start has a ticket in it.
TicketRegistryConsistent ==
    /\ \A t \in Tickets :
          /\ \A u \in Users : Holders(t)[u] = Count(depositors[u].tickets, t)
          /\ NumberOfHolders(t) <= config.max_holders
    /\ state.total_tickets <= HeldTickets

-----------------------------------------------------------------------------
(* Draws.                                                                  *)

\* The record of a past draw: it has been awarded or forgotten.
PastDraw(lottery) ==
    \/ lottery.awarded /\ lottery.rand_round # 0
    \/ [lottery EXCEPT !.total_user_shares = 0] = DefaultLottery

\* Past draws are awarded or forgotten, future ones are untouched, and the time
\* of the next execute_prize is set exactly while the current one is running.
LotteryLifecycle ==
    /\ \A i \in 0..MaxLottery :
         /\ i < state.current_lottery => PastDraw(lotteries[i])
         /\ i = state.current_lottery => ~lotteries[i].awarded
         /\ i > state.current_lottery => lotteries[i] = DefaultLottery
         /\ i > state.current_lottery \/ (i = state.current_lottery /\ ~LotteryStarted) =>
              \A u \in Users : prizes[i][u] = NoPrize
    /\ LotteryStarted <=> state.next_lottery_exec_time # None

\* Once a draw has started, neither the tickets nor the shares that decide it
\* change before it is awarded.
DrawIsFrozen ==
    [][LotteryStarted => /\ tickets' = tickets
                         /\ depositors' = depositors
                         /\ pool'.total_user_shares = pool.total_user_shares]_vars

\* The round that decides a draw lies in the future when its tickets freeze.
SequenceUnknownAtStart ==
    [][~LotteryStarted /\ LotteryStarted' => ~OracleAnswers(current_lottery'.rand_round)]_vars

\* The winners of tier m among the tickets in the registry.
TicketWinners(sequence, u, m) ==
    SumOver({t \in DOMAIN tickets : count_seq_matches(sequence, t) = m},
            LAMBDA t : tickets[t][u])

CompletelyAwarded(i) ==
    LET lottery == lotteries'[i]
        minimum == get_minimum_matches_for_winning_ticket(config.prize_distribution)
    IN \A m \in Buckets :
         /\ lottery.number_winners[m] = SumOver(Users, LAMBDA u : prizes'[i][u].matches[m])
         /\ \A u \in Users : prizes'[i][u].matches[m] =
                IF m >= minimum THEN TicketWinners(lottery.sequence, u, m) ELSE 0

\* When execute_prize declares a draw awarded, every winning ticket has been
\* counted exactly once, whatever the pages were.
AwardIsComplete ==
    [][\A i \in 0..MaxLottery :
          ~lotteries[i].awarded /\ lotteries'[i].awarded => CompletelyAwarded(i)]_vars

\* UST that leaves the contract for nothing else than prizes: neither a
\* reserve, nor an unbonding claim, nor a sponsorship is paid by the step.
PrizesSettled ==
    UNCHANGED <<state, depositors, sponsors>> =>
        bank.ust - bank'.ust <= UnclaimedPrizes - UnclaimedPrizes'

\* The award of a draw is final and its prizes are paid once.  Nothing changes
\* the record of a past draw, except that MigrateOldDepositors, which anybody
\* may send, forgets all of them; a forgotten draw is never awarded again.  A
\* prize entry only ever goes from unclaimed to claimed, and
\* execute_claim_lottery takes what it pays from the prizes still unclaimed,
\* however claims, draws and forgetting follow one another.
AwardIsFinal ==
    [][/\ \A i \in 0..state.current_lottery - 1 :
            /\ lotteries'[i] = lotteries[i] \/ migrate_old_depositors
            /\ \A u \in Users : prizes'[i][u] \in
                  {prizes[i][u], [prizes[i][u] EXCEPT !.claimed = TRUE]}
       /\ PrizesSettled]_vars

\* The draws stay on the grid of the lottery interval: after an award the
\* next one is in the future, by at most one interval.
NextLotteryOnSchedule ==
    [][state'.next_lottery_time # state.next_lottery_time =>
          /\ state'.next_lottery_time > block.time
          /\ state'.next_lottery_time <= block.time + config.lottery_interval
          /\ (state'.next_lottery_time - InitLotteryTime) % config.lottery_interval = 0]_vars

-----------------------------------------------------------------------------
(* Progress, up to the horizon MaxTime of the clock.                       *)

\* The draw can be decided before the clock stops.
WithinHorizon ==
    /\ state.next_lottery_exec_time <= MaxTime
    /\ RAND_GENESIS + (current_lottery.rand_round - 1) * RAND_PERIOD <= MaxTime

\* A draw that has started is eventually awarded.
DrawEventuallyAwarded ==
    \A i \in 0..MaxLottery - 1 :
        state.current_lottery = i /\ LotteryStarted /\ WithinHorizon
            ~> lotteries[i].awarded

PaymentDue(u) ==
    \E c \in depositors[u].unbonding_info : is_expired(c.release_at) /\ c.amount > 0

\* A mature unbonding claim is eventually paid, unless the clock stops during
\* a draw.
UnbondingEventuallyPaid ==
    \A u \in Users : PaymentDue(u)
        ~> ~PaymentDue(u) \/ (LotteryStarted /\ ~WithinHorizon)

-----------------------------------------------------------------------------
(* What makes the invariants above inductive.                              *)

FractionsValid ==
    /\ config.reserve_factor <= One
    /\ config.split_factor <= One
    /\ config.instant_withdrawal_fee <= One

\* No reward index is ahead of the global one it is subtracted from.
IndexesBehind ==
    \A u \in Users :
        /\ operators[u].reward_index
             <= state.operator_reward_emission_index.global_reward_index
        /\ sponsors[u].reward_index
             <= state.sponsor_reward_emission_index.global_reward_index

\* Anchor's rate never falls, and a draw starts only when it is due.
ScheduleSound ==
    /\ InitTime <= block.time
    /\ state.last_lottery_execution_aust_exchange_rate \in 1..rate
    /\ LotteryStarted => state.next_lottery_time <= block.time

\* The inductive invariant of the proofs.
IInv ==
    /\ TypeOK
    /\ FractionsValid
    /\ IndexesBehind
    /\ ScheduleSound
    /\ LotteryLifecycle
    /\ AustSolvency
    /\ PoolNonDegenerate

=============================================================================
