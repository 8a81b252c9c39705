---------------------------- MODULE LottoSavings ----------------------------
(***************************************************************************)
(* The savings side of the lotto contract: deposits, gifts, tickets,       *)
(* withdrawals, unbonding, sponsorships, GLOW rewards and epochs           *)
(* (contracts/lotto/src/contract.rs, helpers.rs).                          *)
(***************************************************************************)
EXTENDS LottoState

-----------------------------------------------------------------------------
(* Anchor and the bank, as the contract uses them.                         *)

\* aUST that Anchor mints for a deposit of net.
AnchorMints(net) == DecDiv(net, rate)

\* UST that Anchor returns for redeemed aUST, after tax.
AnchorReturns(aust) == deduct_tax(DecMul(aust, rate))

\* The bank refuses a transfer that its sender cannot pay.
CanPay(ust, net) == Charge(net) <= ust

-----------------------------------------------------------------------------
(* Tickets.                                                                *)

Count(s, t) == Cardinality({i \in DOMAIN s : s[i] = t})

NumberOfHolders(t) == SumOver(Users, LAMBDA u : Holders(t)[u])

AddTickets(u, combinations) ==
    [t \in DOMAIN tickets \cup Range(combinations) |->
        [Holders(t) EXCEPT ![u] = @ + Count(combinations, t)]]

\* An entry keeps its key when its last holder leaves.
RemoveTickets(u, drained) ==
    [t \in DOMAIN tickets |->
        [tickets[t] EXCEPT ![u] = @ - Count(drained, t)]]

\* Value of u's part of the pool after minting.
PostDepositBalance(u, minted_shares, minted_aust) ==
    DecMul(DecMul(pool.total_user_aust + minted_aust,
                  from_ratio(depositors[u].shares + minted_shares,
                             pool.total_user_shares + minted_shares)),
           rate)

MaxDepositorTickets(u, minted_shares, minted_aust) ==
    PostDepositBalance(u, minted_shares, minted_aust)
        \div (config.ticket_price - TicketPriceSlack)

\* How many pseudo-random tickets are added to the n requested ones.
RoundUp(max_tickets, n) ==
    IF max_tickets <= n THEN 0 ELSE Smaller(max_tickets - n, RoundUpLimit)

\* The ticket lists that handle_depositor_ticket_updates may add for u: the
\* requested ones followed by pseudo-random ones, unless it fails.
handle_depositor_ticket_updates(u, requested, minted_shares, minted_aust) ==
    LET held        == Len(depositors[u].tickets)
        max_tickets == MaxDepositorTickets(u, minted_shares, minted_aust)
        round_up    == RoundUp(max_tickets, held + Len(requested))
        total       == held + Len(requested) + round_up
    IN IF /\ config.ticket_price > TicketPriceSlack
          /\ pool.total_user_shares + minted_shares > 0
          /\ total <= max_tickets
          /\ total <= config.max_tickets_per_depositor
       THEN {combinations \in {requested \o extra : extra \in [1..round_up -> Tickets]} :
                \A t \in Range(combinations) :
                    NumberOfHolders(t) + Count(combinations, t) <= config.max_holders}
       ELSE {}

-----------------------------------------------------------------------------
(* Deposits.                                                               *)

UpdatedOperatorIndex ==
    compute_global_reward(state.operator_reward_emission_index,
                          pool.total_operator_shares, block.height)

UpdatedSponsorIndex ==
    compute_global_reward(state.sponsor_reward_emission_index,
                          pool.total_sponsor_lottery_deposits, block.height)

\* An operator's record once index is applied to it.
RewardedOperator(index, o) == compute_reward(index, operators[o], operators[o].shares)

\* The same with other shares.
OperatorWithShares(o, shares) ==
    [RewardedOperator(UpdatedOperatorIndex, o) EXCEPT !.shares = shares]

RewardedSponsor(index, s) ==
    compute_reward(index, sponsors[s], sponsors[s].lottery_deposit)

\* A sponsor's record with its rewards up to date and another deposit.
SponsorWithDeposit(s, lottery_deposit) ==
    [RewardedSponsor(UpdatedSponsorIndex, s) EXCEPT !.lottery_deposit = lottery_deposit]

\* The operator of u after a deposit that names new_operator.
OperatorAfterDeposit(u, new_operator) ==
    IF operator_registered(depositors[u]) THEN depositors[u].operator_addr
    ELSE new_operator

\* Faulty variant: a new operator gets only the minted shares.
OperatorsAfterDeposit_MintedOnly(u, operator, minted_shares) ==
    IF operator = None THEN operators
    ELSE [operators EXCEPT ![operator] =
             OperatorWithShares(operator, @.shares + minted_shares)]

\* The operator gets the minted shares, and all of the depositor's shares
\* when it is new.
OperatorsAfterDeposit(u, operator, minted_shares) ==
    LET gained == IF operator_registered(depositors[u]) THEN minted_shares
                  ELSE depositors[u].shares + minted_shares
    IN IF operator = None THEN operators
       ELSE [operators EXCEPT ![operator] =
                OperatorWithShares(operator, @.shares + gained)]

\* The pool counts only the minted shares.
OperatorSharesMinted(operator, minted_shares) ==
    IF operator = None THEN 0 ELSE minted_shares

deposit(u, amount, new_operator, requested) ==
    LET net           == deduct_tax(amount)
        minted_aust   == AnchorMints(net)
        minted_shares == DecMul(minted_aust,
                            decimal_from_ratio_or_one(pool.total_user_shares,
                                                      pool.total_user_aust))
        operator      == OperatorAfterDeposit(u, new_operator)
    IN /\ Running
       /\ LotteryNotStarted
       /\ amount \in 1..purse
       /\ operator_registered(depositors[u]) \/ new_operator # u
       /\ \E combinations \in handle_depositor_ticket_updates(
                                  u, requested, minted_shares, minted_aust) :
            /\ tickets' = AddTickets(u, combinations)
            /\ depositors' = [depositors EXCEPT
                  ![u].tickets = @ \o combinations,
                  ![u].operator_addr = operator,
                  ![u].shares = @ + minted_shares]
            /\ state' = [state EXCEPT
                  !.operator_reward_emission_index = UpdatedOperatorIndex,
                  !.total_tickets = @ + Len(combinations)]
       /\ operators' = OperatorsAfterDeposit(u, operator, minted_shares)
       /\ pool' = [pool EXCEPT
             !.total_operator_shares = @ + OperatorSharesMinted(operator, minted_shares),
             !.total_user_shares = @ + minted_shares,
             !.total_user_aust = @ + minted_aust]
       /\ bank' = [bank EXCEPT !.ust = @ + amount - Charge(net),
                               !.aust = @ + minted_aust]
       /\ purse' = purse - amount
       /\ UNCHANGED <<config, checkpoint, sponsors, lotteries, snapshots, prizes,
                      block, rate, paid_glow>>

execute_deposit(u, amount, new_operator, requested) ==
    deposit(u, amount, new_operator, requested)

\* The sender only pays; the tickets and the shares are the recipient's.
execute_gift(sender, to, amount, new_operator, requested) ==
    /\ to # sender
    /\ deposit(to, amount, new_operator, requested)

\* Tickets that the appreciation of u's shares has paid for.
execute_claim_tickets(u, requested) ==
    /\ Running
    /\ LotteryNotStarted
    /\ \E combinations \in handle_depositor_ticket_updates(u, requested, 0, 0) :
         /\ tickets' = AddTickets(u, combinations)
         /\ depositors' = [depositors EXCEPT ![u].tickets = @ \o combinations]
    /\ UNCHANGED <<config, state, pool, sponsors, operators, lotteries, snapshots,
                   prizes, chain>>

-----------------------------------------------------------------------------
(* Withdrawals.                                                            *)

Larger(a, b) == IF a >= b THEN a ELSE b

WithdrawnShares(u, amount) ==
    IF amount = None THEN depositors[u].shares
    ELSE Larger(multiply_ratio(DecDiv(amount, rate), pool.total_user_shares,
                               pool.total_user_aust), 1)

WithdrawnAust(withdrawn_shares) ==
    multiply_ratio(withdrawn_shares, pool.total_user_aust, pool.total_user_shares)

DepositorBalance(u) ==
    DecMul(DecMul(pool.total_user_aust,
                  from_ratio(depositors[u].shares, pool.total_user_shares)),
           rate)

PostWithdrawBalance(u, withdrawn_shares, withdrawn_aust) ==
    DecMul(DecMul(pool.total_user_aust - withdrawn_aust,
                  decimal_from_ratio_or_one(depositors[u].shares - withdrawn_shares,
                                            pool.total_user_shares - withdrawn_shares)),
           rate)

\* The oldest tickets that the balance after the withdrawal cannot pay for.
DrainedTickets(u, withdrawn_shares, withdrawn_aust) ==
    LET held == Len(depositors[u].tickets)
        max_tickets == PostWithdrawBalance(u, withdrawn_shares, withdrawn_aust)
                           \div config.ticket_price
    IN SubSeq(depositors[u].tickets, 1,
              IF held > max_tickets THEN held - max_tickets ELSE 0)

TotalTicketsAfterWithdraw(drained) == state.total_tickets - Len(drained)

\* Slots of u that hold no unbonding claim; none is left at MAX_CLAIMS.
FreeSlots(u) ==
    {n \in 1..MAX_CLAIMS : \A c \in depositors[u].unbonding_info : c.slot # n}

\* Where a registered operator loses the withdrawn shares.
OperatorsAfterWithdraw(u, withdrawn_shares) ==
    LET operator == depositors[u].operator_addr
    IN IF ~operator_registered(depositors[u]) THEN operators
       ELSE [operators EXCEPT ![operator] =
                OperatorWithShares(operator, @.shares - withdrawn_shares)]

\* Faulty variant: the subtractions wrap instead of failing.
OperatorCanWithdraw_Unchecked(u, withdrawn_shares) == TRUE
OperatorCanWithdraw(u, withdrawn_shares) ==
    operator_registered(depositors[u]) =>
        /\ withdrawn_shares <= operators[depositors[u].operator_addr].shares
        /\ withdrawn_shares <= pool.total_operator_shares

\* An instant withdrawal pays a fee into the reserve and is sent at once;
\* any other becomes an unbonding claim.
WithdrawalFee(return_amount, instant) ==
    IF instant THEN DecMul(return_amount, config.instant_withdrawal_fee) ELSE 0

WithdrawalPayment(return_amount, instant) ==
    IF instant
    THEN Charge(deduct_tax(return_amount - WithdrawalFee(return_amount, instant)))
    ELSE 0

WithdrawalClaim(u, return_amount, instant) ==
    IF instant THEN {}
    ELSE {[slot |-> CHOOSE n \in FreeSlots(u) : TRUE,
           amount |-> return_amount,
           release_at |-> block.time + config.unbonding_period]}

execute_withdraw(u, amount, instant) ==
    LET withdrawn_shares == WithdrawnShares(u, amount)
        withdrawn_aust   == WithdrawnAust(withdrawn_shares)
        drained          == DrainedTickets(u, withdrawn_shares, withdrawn_aust)
        return_amount    == AnchorReturns(withdrawn_aust)
        payment          == WithdrawalPayment(return_amount, instant)
    IN /\ Running
       /\ depositors[u].shares # 0
       /\ amount # 0
       /\ LotteryNotStarted
       /\ pool.total_user_shares # 0
       /\ DecMul(withdrawn_aust, rate) <= DepositorBalance(u)
       /\ withdrawn_shares <= depositors[u].shares
       /\ withdrawn_shares <= pool.total_user_shares
       /\ RatioDefined(depositors[u].shares - withdrawn_shares,
                       pool.total_user_shares - withdrawn_shares)
       /\ config.ticket_price > 0
       /\ \A t \in Range(drained) : Count(drained, t) <= Holders(t)[u]
       /\ OperatorCanWithdraw(u, withdrawn_shares)
       /\ Len(drained) <= state.total_tickets
       /\ instant \/ FreeSlots(u) # {}
       /\ payment <= bank.ust + return_amount
       /\ tickets' = RemoveTickets(u, drained)
       /\ operators' = OperatorsAfterWithdraw(u, withdrawn_shares)
       /\ depositors' = [depositors EXCEPT
             ![u].tickets = SubSeq(@, Len(drained) + 1, Len(@)),
             ![u].shares = @ - withdrawn_shares,
             ![u].unbonding_info = @ \cup WithdrawalClaim(u, return_amount, instant)]
       /\ pool' = [pool EXCEPT
             !.total_operator_shares =
                 IF operator_registered(depositors[u]) THEN @ - withdrawn_shares ELSE @,
             !.total_user_shares = @ - withdrawn_shares,
             !.total_user_aust = @ - withdrawn_aust]
       /\ state' = [state EXCEPT
             !.operator_reward_emission_index =
                 IF operator_registered(depositors[u]) THEN UpdatedOperatorIndex ELSE @,
             !.total_tickets = TotalTicketsAfterWithdraw(drained),
             !.total_reserve = @ + WithdrawalFee(return_amount, instant)]
       /\ bank' = [bank EXCEPT !.ust = @ + return_amount - payment,
                               !.aust = @ - withdrawn_aust]
       /\ UNCHANGED <<config, checkpoint, sponsors, lotteries, snapshots, prizes,
                      block, rate, paid_glow, purse>>

\* Faulty variant: the two halves of the partition swapped.
MatureClaims_Swapped(u) ==
    {c \in depositors[u].unbonding_info : ~is_expired(c.release_at)}
MatureClaims(u) ==
    {c \in depositors[u].unbonding_info : is_expired(c.release_at)}

MatureAmount(u) == SumOver(MatureClaims(u), LAMBDA c : c.amount)

\* All of the mature claims at once (claim_unbonded_withdrawals without cap).
execute_claim_unbonded(u) ==
    LET to_send == MatureAmount(u)
    IN /\ Running
       /\ LotteryNotStarted
       /\ ReservedForPrizes <= bank.ust
       /\ to_send \in 1..(bank.ust - ReservedForPrizes)
       /\ CanPay(bank.ust, deduct_tax(to_send))
       /\ depositors' = [depositors EXCEPT ![u].unbonding_info = @ \ MatureClaims(u)]
       /\ bank' = [bank EXCEPT !.ust = @ - Charge(deduct_tax(to_send))]
       /\ UNCHANGED <<config, state, pool, checkpoint, tickets, sponsors, operators,
                      lotteries, snapshots, prizes, block, rate, paid_glow, purse>>

-----------------------------------------------------------------------------
(* Sponsors.                                                               *)

ValidDistribution(d) == SumOver(Buckets, LAMBDA i : d[i]) = One

\* Add amount to the buckets according to a distribution.
Distribute(buckets, amount, d) ==
    [i \in Buckets |-> buckets[i] + DecMul(amount, d[i])]

\* Faulty variant: the new deposit replaces the old one.
DepositAfterSponsoring_Replaced(u, value) == value
DepositAfterSponsoring(u, value) == sponsors[u].lottery_deposit + value

\* award absent or false: the amount is deposited and only its interest is
\* given to the lottery.
SponsorDeposit(u, amount) ==
    LET net         == deduct_tax(amount)
        minted_aust == AnchorMints(net)
        value       == DecMul(minted_aust, rate)
    IN /\ Running
       /\ amount \in 1..purse
       /\ state' = [state EXCEPT !.sponsor_reward_emission_index = UpdatedSponsorIndex]
       /\ sponsors' = [sponsors EXCEPT ![u] =
             SponsorWithDeposit(u, DepositAfterSponsoring(u, value))]
       /\ pool' = [pool EXCEPT !.total_sponsor_lottery_deposits = @ + value]
       /\ bank' = [bank EXCEPT !.ust = @ + amount - Charge(net),
                               !.aust = @ + minted_aust]
       /\ purse' = purse - amount
       /\ UNCHANGED <<config, depositors, checkpoint, tickets, operators, lotteries,
                      snapshots, prizes, block, rate, paid_glow>>

\* award true: the amount goes to the prize buckets at once.
SponsorAward(u, amount, prize_distribution) ==
    /\ Running
    /\ amount \in 1..purse
    /\ ValidDistribution(prize_distribution)
    /\ state' = [state EXCEPT
          !.sponsor_reward_emission_index = UpdatedSponsorIndex,
          !.prize_buckets = Distribute(@, amount, prize_distribution)]
    /\ bank' = [bank EXCEPT !.ust = @ + amount]
    /\ purse' = purse - amount
    /\ UNCHANGED <<config, pool, depositors, checkpoint, tickets, sponsors, operators,
                   lotteries, snapshots, prizes, block, rate, paid_glow>>

\* Without a distribution of its own an award uses the configured one.
execute_sponsor(u, amount, award, distributions) ==
    \/ ~award /\ SponsorDeposit(u, amount)
    \/ award /\ \E d \in distributions \cup {config.prize_distribution} :
                    SponsorAward(u, amount, d)

execute_sponsor_withdraw(u) ==
    LET lottery_deposit == sponsors[u].lottery_deposit
        aust_to_redeem  == DecDiv(lottery_deposit, rate)
        received        == AnchorReturns(aust_to_redeem)
        net             == deduct_tax(received)
    IN /\ Running
       /\ lottery_deposit # 0
       /\ LotteryNotStarted
       /\ lottery_deposit <= pool.total_sponsor_lottery_deposits
       /\ aust_to_redeem <= bank.aust
       /\ CanPay(bank.ust + received, net)
       /\ state' = [state EXCEPT !.sponsor_reward_emission_index = UpdatedSponsorIndex]
       /\ sponsors' = [sponsors EXCEPT ![u] = SponsorWithDeposit(u, 0)]
       /\ pool' = [pool EXCEPT !.total_sponsor_lottery_deposits = @ - lottery_deposit]
       /\ bank' = [bank EXCEPT !.ust = @ + received - Charge(net),
                               !.aust = @ - aust_to_redeem]
       /\ UNCHANGED <<config, depositors, checkpoint, tickets, operators, lotteries,
                      snapshots, prizes, block, rate, paid_glow, purse>>

-----------------------------------------------------------------------------
(* GLOW rewards and epochs.                                                *)

UpdatedIndexes ==
    [state EXCEPT !.operator_reward_emission_index = UpdatedOperatorIndex,
                  !.sponsor_reward_emission_index = UpdatedSponsorIndex]

\* One payment for both roles; paid_glow records the sponsor's part of it.
execute_claim_rewards(u) ==
    LET operator == RewardedOperator(UpdatedOperatorIndex, u)
        sponsor  == RewardedSponsor(UpdatedSponsorIndex, u)
        claim_amount == (operator.pending_rewards + sponsor.pending_rewards) \div One
    IN /\ Running
       /\ contracts_registered
       /\ DistributorPays(claim_amount)
       /\ state' = UpdatedIndexes
       /\ operators' = [operators EXCEPT ![u] = [operator EXCEPT !.pending_rewards = 0]]
       /\ sponsors' = [sponsors EXCEPT ![u] = [sponsor EXCEPT !.pending_rewards = 0]]
       /\ paid_glow' = paid_glow + sponsor.pending_rewards \div One
       /\ UNCHANGED <<config, pool, depositors, checkpoint, tickets, lotteries,
                      snapshots, prizes, block, rate, bank, purse>>

\* The reserve goes to the community contract.
execute_epoch_ops ==
    LET payment == IF state.total_reserve = 0 THEN 0
                   ELSE Charge(deduct_tax(state.total_reserve))
    IN /\ Running
       /\ contracts_registered
       /\ is_expired(state.next_epoch)
       /\ LotteryNotStarted
       /\ payment <= bank.ust
       /\ state' = [UpdatedIndexes EXCEPT
             !.next_epoch = block.time + config.epoch_interval,
             !.total_reserve = 0]
       /\ bank' = [bank EXCEPT !.ust = @ - payment]
       /\ UNCHANGED <<config, pool, depositors, checkpoint, tickets, sponsors,
                      operators, lotteries, snapshots, prizes, block, rate,
                      paid_glow, purse>>

=============================================================================
