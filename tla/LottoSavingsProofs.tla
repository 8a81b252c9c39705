------------------------- MODULE LottoSavingsProofs -------------------------
(***************************************************************************)
(* The lotto contract's arithmetic and its savings messages, for every     *)
(* value of the constants: where each computation rounds and in whose      *)
(* favour, and that each message keeps the parts of the invariant that it  *)
(* can disturb.                                                            *)
(***************************************************************************)
EXTENDS LottoProperties, ArithmeticTheorems, SequenceTheorems

-----------------------------------------------------------------------------
(* Fixed-point arithmetic.                                                 *)

\* Uint256 * Decimal256 rounds down.
LEMMA DecMulBounds ==
    ASSUME NEW a \in Nat, NEW d \in Nat
    PROVE  DecMul(a, d) \in Nat /\ DecMul(a, d) * One <= a * d
<1>1. a * d \in Nat
  OBVIOUS
<1> QED
  BY <1>1, OneAssumption, DivBounds DEF DecMul

\* One is neutral.
LEMMA DecMulOne ==
    ASSUME NEW a \in Nat
    PROVE  DecMul(a, One) = a
<1> DEFINE q == (a * One) \div One
<1>1. a * One \in Nat
  BY OneAssumption
<1>2. q \in Nat /\ One * q <= a * One /\ a * One < One * q + One
  BY <1>1, OneAssumption, DivBounds
<1> HIDE DEF q
<1>3. q <= a
  BY <1>2, OneAssumption, MulCancel
<1>4. ~(q + 1 <= a)
  <2>1. ASSUME q + 1 <= a PROVE FALSE
    <3>1. (q + 1) * One <= a * One
      BY <1>2, <2>1, OneAssumption, MulMono
    <3> QED
      BY <1>1, <1>2, <3>1, OneAssumption, MulNat
  <2> QED
    BY <2>1
<1>5. q = a
  BY <1>2, <1>3, <1>4
<1> QED
  BY <1>5 DEF q, DecMul

\* A fraction of an amount is not more than the amount.
LEMMA FractionBound ==
    ASSUME NEW a \in Nat, NEW d \in Nat, d <= One
    PROVE  DecMul(a, d) <= a
<1>1. DecMul(a, d) \in Nat /\ DecMul(a, d) * One <= a * d
  BY DecMulBounds
<1>2. a * d <= a * One
  BY MulMono, OneAssumption
<1>3. DecMul(a, d) * One <= a * One
  BY <1>1, <1>2, OneAssumption
<1> QED
  BY <1>1, <1>3, OneAssumption, MulCancel

\* Uint256 / Decimal256 rounds down.
LEMMA DecDivBounds ==
    ASSUME NEW a \in Nat, NEW d \in Nat \ {0}
    PROVE  DecDiv(a, d) \in Nat /\ DecDiv(a, d) * d <= a * One
<1>1. a * One \in Nat
  BY OneAssumption
<1> QED
  BY <1>1, DivBounds DEF DecDiv

-----------------------------------------------------------------------------
(* Taxes.                                                                  *)

\* The tax is part of the amount.
LEMMA DeductTaxBounds ==
    ASSUME NEW amount \in Nat
    PROVE  deduct_tax(amount) \in Nat /\ deduct_tax(amount) <= amount
<1> DEFINE net == DecDiv(amount, One + TaxRate)
<1>1. net \in Nat /\ net * (One + TaxRate) <= amount * One
  BY DecDivBounds, OneAssumption, TaxAssumption
<1>2. amount * One <= amount * (One + TaxRate)
  BY MulMono, OneAssumption, TaxAssumption
<1>3. net <= amount
  BY <1>1, <1>2, OneAssumption, TaxAssumption, MulCancel
<1>4. compute_tax(amount) \in 0..amount
  BY <1>1, <1>3, TaxAssumption DEF compute_tax, Smaller
<1> QED
  BY <1>4 DEF deduct_tax

\* The sender of a transfer who deducts the tax beforehand never pays more
\* than the amount, although both taxes are rounded and capped separately.
THEOREM TaxDeductionCoversTransfer ==
    ASSUME NEW amount \in Nat
    PROVE  Charge(deduct_tax(amount)) \in Nat /\ Charge(deduct_tax(amount)) <= amount
<1> DEFINE net == DecDiv(amount, One + TaxRate)
           due == DecMul(deduct_tax(amount), TaxRate)
<1>1. net \in Nat /\ net * (One + TaxRate) <= amount * One
  BY DecDivBounds, OneAssumption, TaxAssumption
<1>2. deduct_tax(amount) \in Nat
  BY DeductTaxBounds
<1>3. due \in Nat /\ due * One <= deduct_tax(amount) * TaxRate
  BY <1>2, TaxAssumption, DecMulBounds
<1>4. TransferTax(deduct_tax(amount)) \in Nat
  BY <1>3, TaxAssumption DEF TransferTax, Smaller
<1>5. CASE compute_tax(amount) = TaxCap
  <2>1. TransferTax(deduct_tax(amount)) <= TaxCap
    BY <1>3, TaxAssumption DEF TransferTax, Smaller
  <2> QED
    BY <1>2, <1>4, <1>5, <2>1, TaxAssumption DEF Charge, deduct_tax
<1>6. CASE compute_tax(amount) = amount - net
  <2>1. deduct_tax(amount) = net
    BY <1>1, <1>6 DEF deduct_tax
  <2>2. (net + due) * One <= amount * One
    <3> HIDE DEF net, due
    <3>1. net * (One + TaxRate) = net * One + net * TaxRate
      BY <1>1, OneAssumption, TaxAssumption
    <3>2. (net + due) * One = net * One + due * One
      BY <1>1, <1>3, OneAssumption
    <3>3. /\ net * One \in Nat /\ net * TaxRate \in Nat
          /\ due * One \in Nat /\ amount * One \in Nat
      BY <1>1, <1>3, OneAssumption, TaxAssumption, MulNat
    <3> QED
      BY <1>1, <1>3, <2>1, <3>1, <3>2, <3>3
  <2>3. net + due <= amount
    BY <1>1, <1>3, <2>2, OneAssumption, MulCancel
  <2>4. TransferTax(deduct_tax(amount)) <= due
    BY <1>3, TaxAssumption DEF TransferTax, Smaller
  <2> QED
    BY <1>1, <1>3, <1>4, <2>1, <2>3, <2>4 DEF Charge
<1> QED
  BY <1>5, <1>6 DEF compute_tax, Smaller

-----------------------------------------------------------------------------
(* Shares.                                                                 *)

\* Minting at the pool's ratio never gives more shares than the new aUST pays
\* for (deposit).
LEMMA MintBounds ==
    ASSUME NEW shares \in Nat \ {0}, NEW aust \in Nat \ {0}, NEW minted_aust \in Nat
    PROVE  LET minted == DecMul(minted_aust, decimal_from_ratio_or_one(shares, aust))
           IN  minted \in Nat /\ aust * minted <= minted_aust * shares
<1> DEFINE ratio  == from_ratio(shares, aust)
           minted == DecMul(minted_aust, ratio)
<1>1. decimal_from_ratio_or_one(shares, aust) = ratio
  BY DEF decimal_from_ratio_or_one
<1>2. ratio \in Nat /\ aust * ratio <= shares * One
  <2>1. shares * One \in Nat
    BY OneAssumption
  <2> QED
    BY <2>1, DivBounds DEF from_ratio
<1>3. minted \in Nat /\ minted * One <= minted_aust * ratio
  BY <1>2, DecMulBounds
<1> HIDE DEF ratio, minted
<1>4. (minted * One) * aust <= (minted_aust * ratio) * aust
  BY <1>2, <1>3, OneAssumption, MulMono, MulNat
<1>5. (aust * ratio) * minted_aust <= (shares * One) * minted_aust
  BY <1>2, OneAssumption, MulMono, MulNat
<1>6. (aust * minted) * One <= (minted_aust * shares) * One
  <2>1. (minted * One) * aust = (aust * minted) * One
    BY <1>3, OneAssumption
  <2>2. (minted_aust * ratio) * aust = (aust * ratio) * minted_aust
    BY <1>2
  <2>3. (shares * One) * minted_aust = (minted_aust * shares) * One
    BY OneAssumption
  <2>4. /\ (aust * minted) * One \in Nat /\ (aust * ratio) * minted_aust \in Nat
        /\ (minted_aust * shares) * One \in Nat
    BY <1>2, <1>3, OneAssumption, MulNat
  <2> QED
    BY <1>4, <1>5, <2>1, <2>2, <2>3, <2>4
<1>7. aust * minted <= minted_aust * shares
  BY <1>3, <1>6, OneAssumption, MulCancel, MulNat
<1> QED
  BY <1>1, <1>3, <1>7 DEF minted

\* Burning pays at most the burnt shares' part, all of it to the last
\* shareholder and never all of it to another one (execute_withdraw).
LEMMA BurnBounds ==
    ASSUME NEW total_shares \in Nat \ {0}, NEW aust \in Nat,
           NEW shares \in Nat, shares <= total_shares
    PROVE  LET paid == multiply_ratio(shares, aust, total_shares)
           IN  /\ paid \in Nat
               /\ paid <= aust
               /\ paid * total_shares <= shares * aust
               /\ shares = total_shares => paid = aust
               /\ shares < total_shares /\ aust # 0 => paid < aust
<1> DEFINE paid == multiply_ratio(shares, aust, total_shares)
<1>1. shares * aust \in Nat
  BY MulNat
<1>2. /\ paid \in Nat
      /\ total_shares * paid <= shares * aust
      /\ shares * aust < total_shares * paid + total_shares
  BY <1>1, DivBounds DEF multiply_ratio
<1> HIDE DEF paid
<1>3. shares * aust <= total_shares * aust
  BY MulMono
<1>4. paid * total_shares <= aust * total_shares
  BY <1>1, <1>2, <1>3, MulNat
<1>5. paid <= aust
  BY <1>2, <1>4, MulCancel
<1>6. ASSUME shares = total_shares PROVE paid = aust
  <2>1. (aust - paid) * total_shares < total_shares
    BY <1>1, <1>2, <1>5, <1>6
  <2>2. ASSUME aust - paid # 0 PROVE FALSE
    BY <1>2, <1>5, <2>1, <2>2
  <2> QED
    BY <1>2, <2>2
<1>7. ASSUME shares < total_shares, aust # 0 PROVE paid < aust
  <2>1. ASSUME paid = aust PROVE FALSE
    <3>1. total_shares * aust <= shares * aust
      BY <1>2, <2>1
    <3>2. total_shares <= shares
      BY <1>7, <3>1, MulCancel
    <3> QED
      BY <1>7, <3>2
  <2> QED
    BY <1>2, <1>5, <2>1
<1> QED
  BY <1>2, <1>5, <1>6, <1>7 DEF paid

\* What execute_lottery redeems: from the depositors at most the
\* appreciation, from the rest at most what the sponsors' deposits leave.
LEMMA RedemptionBounds ==
    ASSUME NEW last_rate \in Nat \ {0}, NEW new_rate \in Nat, last_rate <= new_rate,
           NEW user_aust \in Nat, NEW deposits \in Nat,
           NEW split \in Nat, split <= One,
           NEW balance \in Nat, user_aust <= balance,
           deposits * One <= (balance - user_aust) * new_rate
    PROVE  LET redeemed == calculate_value_of_aust_to_be_redeemed_for_lottery(
                               last_rate, user_aust, deposits, split, balance, new_rate)
           IN  /\ redeemed.user_aust_to_redeem \in Nat
               /\ redeemed.user_aust_to_redeem <= user_aust
               /\ user_aust # 0 => redeemed.user_aust_to_redeem < user_aust
               /\ redeemed.sponsor_aust_to_redeem \in Nat
               /\ redeemed.sponsor_aust_to_redeem <= balance - user_aust
               /\ deposits * One
                    <= (balance - user_aust - redeemed.sponsor_aust_to_redeem) * new_rate
<1> DEFINE gain  == DecMul(user_aust, new_rate - last_rate)
           value == DecMul(gain, split)
           user  == DecDiv(value, new_rate)
           rest  == balance - user_aust
           worth == DecMul(rest, new_rate)
           spon  == DecDiv(worth - deposits, new_rate)
<1>1. gain \in Nat /\ gain * One <= user_aust * (new_rate - last_rate)
  <2>1. new_rate - last_rate \in Nat
    OBVIOUS
  <2> QED
    BY <2>1, DecMulBounds
<1>2. value \in Nat /\ value <= gain
  BY <1>1, DecMulBounds, FractionBound
<1>3. user \in Nat /\ user * new_rate <= value * One
  BY <1>2, DecDivBounds
<1>4. user * new_rate <= user_aust * (new_rate - last_rate)
  <2> HIDE DEF gain, value, user
  <2>1. value * One <= gain * One
    BY <1>1, <1>2, OneAssumption, MulMono
  <2> QED
    BY <1>1, <1>2, <1>3, <2>1, OneAssumption, MulNat
<1>5. user <= user_aust /\ (user_aust # 0 => user < user_aust)
  <2> HIDE DEF user
  <2>1. user_aust * (new_rate - last_rate) <= user_aust * new_rate
    BY MulMono
  <2>2. user * new_rate <= user_aust * new_rate
    BY <1>3, <1>4, <2>1, MulNat
  <2>3. user <= user_aust
    BY <1>3, <2>2, MulCancel
  <2>4. ASSUME user = user_aust, user_aust # 0 PROVE FALSE
    <3>1. new_rate * user_aust <= (new_rate - last_rate) * user_aust
      BY <1>4, <2>4
    <3>2. new_rate <= new_rate - last_rate
      BY <2>4, <3>1, MulCancel
    <3> QED
      BY <3>2
  <2> QED
    BY <1>3, <2>3, <2>4
<1>6. worth \in Nat /\ deposits <= worth
  <2>1. rest * new_rate \in Nat
    BY MulNat
  <2>2. /\ worth \in Nat /\ One * worth <= rest * new_rate
        /\ rest * new_rate < One * worth + One
    BY <2>1, OneAssumption, DivBounds DEF DecMul
  <2> HIDE DEF worth
  <2>3. deposits * One < (worth + 1) * One
    BY <2>1, <2>2, OneAssumption, MulNat
  <2>4. deposits < worth + 1
    <3>1. ASSUME worth + 1 <= deposits PROVE FALSE
      BY <2>2, <2>3, <3>1, OneAssumption, MulMono, MulNat
    <3> QED
      BY <2>2, <3>1
  <2> QED
    BY <2>2, <2>4
<1>7. worth * One <= rest * new_rate
  BY DecMulBounds
<1>8. spon \in Nat /\ spon * new_rate <= (worth - deposits) * One
  BY <1>6, DecDivBounds
<1>9. deposits * One + spon * new_rate <= rest * new_rate
  <2> HIDE DEF worth, spon
  <2>1. (worth - deposits) * One = worth * One - deposits * One
    BY <1>6, OneAssumption
  <2> QED
    BY <1>6, <1>7, <1>8, <2>1, OneAssumption, MulNat
<1>10. spon <= rest
  <2> HIDE DEF spon
  <2>1. spon * new_rate <= rest * new_rate
    BY <1>8, <1>9, OneAssumption, MulNat
  <2> QED
    BY <1>8, <2>1, MulCancel
<1>11. deposits * One <= (rest - spon) * new_rate
  <2> HIDE DEF spon
  <2>1. (rest - spon) * new_rate = rest * new_rate - spon * new_rate
    BY <1>8
  <2> QED
    BY <1>8, <1>9, <2>1, OneAssumption, MulNat
<1>12. calculate_value_of_aust_to_be_redeemed_for_lottery(
           last_rate, user_aust, deposits, split, balance, new_rate)
         = [user_aust_to_redeem |-> user, sponsor_aust_to_redeem |-> spon]
  BY DEF calculate_value_of_aust_to_be_redeemed_for_lottery
<1> HIDE DEF user, spon
<1> QED
  BY <1>3, <1>5, <1>8, <1>10, <1>11, <1>12

-----------------------------------------------------------------------------
(* The initial state.                                                      *)

LEMMA InitType == Init => TypeOK
<1> SUFFICES ASSUME Init PROVE TypeOK
  OBVIOUS
<1>1. ZeroBuckets \in [Buckets -> Nat] /\ ZeroBuckets \in [Buckets -> 0..Uint32Max]
  BY LimitsAssumption DEF ZeroBuckets
<1>2. config \in Config /\ rate \in Nat \ {0}
  BY InstantiationAssumption DEF Init
<1>3. state \in State
  <2>1. /\ 0 \in 0..MaxLottery
        /\ InitTime + InitConfig.epoch_interval \in Nat
        /\ InitLotteryTime \in Nat /\ InitRate \in Nat
    BY InstantiationAssumption, LimitsAssumption DEF Config
  <2>2. NewIndex(InitOperatorRate) \in RewardEmissionsIndex
    BY InstantiationAssumption DEF NewIndex, RewardEmissionsIndex
  <2>3. NewIndex(InitSponsorRate) \in RewardEmissionsIndex
    BY InstantiationAssumption DEF NewIndex, RewardEmissionsIndex
  <2> QED
    BY <1>1, <2>1, <2>2, <2>3 DEF Init, State, Expiration
<1>4. pool \in Pool
  BY DEF Init, Pool
<1>5. depositors \in [Users -> DepositorInfo]
  BY EmptySeq DEF Init, DepositorInfo, DefaultDepositor
<1>6. checkpoint \in [Users -> Nat]
  BY DEF Init
<1>7. DOMAIN tickets \subseteq Tickets /\ tickets \in [DOMAIN tickets -> [Users -> Nat]]
  BY DEF Init
<1>8. sponsors \in [Users -> SponsorInfo] /\ operators \in [Users -> OperatorInfo]
  BY DEF Init, SponsorInfo, OperatorInfo, DefaultSponsor, DefaultOperator
<1>9. lotteries \in [0..MaxLottery -> LotteryInfo]
  BY <1>1 DEF Init, LotteryInfo, DefaultLottery
<1>10. snapshots \in [0..MaxLottery -> [Users -> Nat]]
  BY DEF Init
<1>11. prizes \in [0..MaxLottery -> [Users -> PrizeInfo]]
  BY <1>1 DEF Init, PrizeInfo, NoPrize
<1>12. block \in [height : Nat, time : Nat]
  BY InstantiationAssumption DEF Init
<1>13. bank \in [ust : Nat, aust : Nat]
  <2>1. deduct_tax(InitialDeposit) \in Nat
    BY LimitsAssumption, DeductTaxBounds
  <2>2. InitialDeposit - Charge(deduct_tax(InitialDeposit)) \in Nat
    BY LimitsAssumption, TaxDeductionCoversTransfer
  <2>3. DecDiv(deduct_tax(InitialDeposit), InitRate) \in Nat
    BY <2>1, InstantiationAssumption, DecDivBounds
  <2> QED
    BY <2>2, <2>3 DEF Init
<1>14. paid_glow \in Nat /\ purse \in Nat
  BY LimitsAssumption DEF Init
<1> QED
  BY <1>2, <1>3, <1>4, <1>5, <1>6, <1>7, <1>8, <1>9, <1>10, <1>11, <1>12, <1>13, <1>14
     DEF TypeOK

LEMMA InitIInv == Init => IInv
<1> SUFFICES ASSUME Init PROVE IInv
  OBVIOUS
<1>1. TypeOK
  BY InitType
<1>2. FractionsValid
  BY DEF Init, ValidInstantiation, FractionsValid
<1>3. IndexesBehind
  BY DEF Init, IndexesBehind, DefaultOperator, DefaultSponsor, NewIndex
<1>4. ~LotteryStarted /\ state.current_lottery = 0
  BY LimitsAssumption DEF Init, LotteryStarted, current_lottery, DefaultLottery
<1>5. ScheduleSound
  BY <1>4, InstantiationAssumption DEF Init, ScheduleSound
<1>6. LotteryLifecycle
  <2>1. \A i \in 0..MaxLottery : lotteries[i] = DefaultLottery /\ ~lotteries[i].awarded
    BY DEF Init, DefaultLottery
  <2>2. \A i \in 0..MaxLottery : \A u \in Users : prizes[i][u] = NoPrize
    BY DEF Init
  <2>3. state.next_lottery_exec_time = None
    BY DEF Init
  <2> QED
    BY <1>4, <2>1, <2>2, <2>3, LimitsAssumption DEF LotteryLifecycle
<1>7. AustSolvency
  <2>1. bank.aust \in Nat /\ rate \in Nat
    BY <1>1 DEF TypeOK
  <2>2. pool.total_user_aust = 0 /\ pool.total_sponsor_lottery_deposits = 0
    BY DEF Init
  <2>3. 0 * One = 0 /\ (bank.aust - 0) * rate \in Nat
    BY <2>1, OneAssumption
  <2> QED
    BY <2>1, <2>2, <2>3 DEF AustSolvency
<1>8. PoolNonDegenerate
  BY DEF Init, PoolNonDegenerate
<1> QED
  BY <1>1, <1>2, <1>3, <1>5, <1>6, <1>7, <1>8 DEF IInv

-----------------------------------------------------------------------------
(* Facts that several steps use.                                           *)

\* The types of the fields that the steps compute with.
MoneyTyped ==
    /\ pool.total_user_aust \in Nat
    /\ pool.total_user_shares \in Nat
    /\ pool.total_sponsor_lottery_deposits \in Nat
    /\ pool.total_operator_shares \in Nat
    /\ bank.ust \in Nat
    /\ bank.aust \in Nat
    /\ rate \in Nat /\ rate # 0
    /\ purse \in Nat

ScheduleTyped ==
    /\ state.total_tickets \in Nat
    /\ state.total_reserve \in Nat
    /\ state.next_lottery_time \in Nat
    /\ state.last_lottery_execution_aust_exchange_rate \in Nat
    /\ block.height \in Nat
    /\ block.time \in Nat

ConfigTyped ==
    /\ config.lottery_interval \in Nat
    /\ config.epoch_interval \in Nat
    /\ config.block_time \in Nat
    /\ config.round_delta \in Nat
    /\ config.ticket_price \in Nat
    /\ config.reserve_factor \in Nat
    /\ config.split_factor \in Nat
    /\ config.instant_withdrawal_fee \in Nat
    /\ config.unbonding_period \in Nat

LEMMA FieldTypes == TypeOK => MoneyTyped /\ ScheduleTyped /\ ConfigTyped
<1> SUFFICES ASSUME TypeOK PROVE MoneyTyped /\ ScheduleTyped /\ ConfigTyped
  OBVIOUS
<1>1. /\ pool \in Pool /\ bank \in [ust : Nat, aust : Nat] /\ rate \in Nat \ {0}
      /\ purse \in Nat
  BY DEF TypeOK
<1>2. state \in State /\ block \in [height : Nat, time : Nat]
  BY DEF TypeOK
<1>3. config \in Config
  BY DEF TypeOK
<1>4. MoneyTyped
  BY <1>1 DEF MoneyTyped, Pool
<1>5. ScheduleTyped
  BY <1>2 DEF ScheduleTyped, State
<1>6. ConfigTyped
  BY <1>3 DEF ConfigTyped, Config
<1> QED
  BY <1>4, <1>5, <1>6

LEMMA DepositorFields ==
    ASSUME TypeOK, NEW u \in Users
    PROVE  /\ depositors[u] \in DepositorInfo
           /\ depositors[u].shares \in Nat
           /\ depositors[u].tickets \in Seq(Tickets)
           /\ depositors[u].unbonding_info \in SUBSET Claim
           /\ depositors[u].operator_addr \in Users \cup {None}
<1>1. depositors[u] \in DepositorInfo
  BY DEF TypeOK
<1> QED
  BY <1>1 DEF DepositorInfo

\* A message that leaves draws, prizes, clock and rate alone keeps the
\* invariants about them.
LEMMA DrawFrame ==
    ASSUME ScheduleSound, LotteryLifecycle,
           lotteries' = lotteries, prizes' = prizes, block' = block, rate' = rate,
           state'.current_lottery = state.current_lottery,
           state'.next_lottery_time = state.next_lottery_time,
           state'.next_lottery_exec_time = state.next_lottery_exec_time,
           state'.last_lottery_execution_aust_exchange_rate
             = state.last_lottery_execution_aust_exchange_rate
    PROVE  ScheduleSound' /\ LotteryLifecycle'
<1>1. LotteryStarted' <=> LotteryStarted
  BY DEF LotteryStarted, current_lottery
<1>2. ScheduleSound'
  BY <1>1 DEF ScheduleSound
<1>3. LotteryLifecycle'
  BY <1>1 DEF LotteryLifecycle
<1> QED
  BY <1>2, <1>3

\* The global reward index only grows.
LEMMA GlobalRewardGrows ==
    ASSUME NEW index \in RewardEmissionsIndex, NEW spread \in Nat, NEW height \in Nat
    PROVE  /\ compute_global_reward(index, spread, height) \in RewardEmissionsIndex
           /\ index.global_reward_index
                <= compute_global_reward(index, spread, height).global_reward_index
<1> DEFINE accrued == (height - index.last_reward_updated) * index.glow_emission_rate
           gain == IF accrued # 0 /\ spread # 0 THEN accrued \div spread ELSE 0
<1>1. CASE index.last_reward_updated >= height
  <2>1. compute_global_reward(index, spread, height) = index
    BY <1>1 DEF compute_global_reward
  <2> QED
    BY <2>1 DEF RewardEmissionsIndex
<1>2. CASE ~(index.last_reward_updated >= height)
  <2>1. accrued \in Nat
    <3>1. height - index.last_reward_updated \in Nat
      BY <1>2 DEF RewardEmissionsIndex
    <3>2. index.glow_emission_rate \in Nat
      BY DEF RewardEmissionsIndex
    <3> QED
      BY <3>1, <3>2, MulNat
  <2>2. gain \in Nat
    <3> HIDE DEF accrued
    <3> QED
      BY <2>1, DivBounds
  <2>3. compute_global_reward(index, spread, height)
          = [index EXCEPT !.global_reward_index = @ + gain,
                          !.last_reward_updated = height]
    BY <1>2 DEF compute_global_reward
  <2> HIDE DEF gain
  <2>4. /\ index.global_reward_index + gain \in Nat
        /\ index.global_reward_index <= index.global_reward_index + gain
    BY <2>2 DEF RewardEmissionsIndex
  <2> QED
    BY <2>3, <2>4, Zenon DEF RewardEmissionsIndex
<1> QED
  BY <1>1, <1>2

LEMMA UpdatedIndexTypes ==
    ASSUME TypeOK
    PROVE  /\ UpdatedOperatorIndex \in RewardEmissionsIndex
           /\ state.operator_reward_emission_index.global_reward_index
                <= UpdatedOperatorIndex.global_reward_index
           /\ UpdatedSponsorIndex \in RewardEmissionsIndex
           /\ state.sponsor_reward_emission_index.global_reward_index
                <= UpdatedSponsorIndex.global_reward_index
<1>1. /\ state.operator_reward_emission_index \in RewardEmissionsIndex
      /\ state.sponsor_reward_emission_index \in RewardEmissionsIndex
      /\ pool.total_operator_shares \in Nat
      /\ pool.total_sponsor_lottery_deposits \in Nat
      /\ block.height \in Nat
  BY DEF TypeOK, State, Pool
<1> QED
  BY <1>1, GlobalRewardGrows DEF UpdatedOperatorIndex, UpdatedSponsorIndex

\* Applying an index that is not behind accrues a natural amount and records
\* the index; nothing else changes.
LEMMA RewardedOperatorType ==
    ASSUME TypeOK, NEW index \in RewardEmissionsIndex, NEW o \in Users,
           operators[o].reward_index <= index.global_reward_index
    PROVE  /\ RewardedOperator(index, o) \in OperatorInfo
           /\ RewardedOperator(index, o).reward_index = index.global_reward_index
           /\ RewardedOperator(index, o).shares = operators[o].shares
<1> DEFINE gain == operators[o].shares
                     * (index.global_reward_index - operators[o].reward_index)
<1>1. operators[o] \in OperatorInfo
  BY DEF TypeOK
<1>2. /\ operators[o].shares \in Nat
      /\ index.global_reward_index - operators[o].reward_index \in Nat
  BY <1>1 DEF OperatorInfo, RewardEmissionsIndex
<1>3. gain \in Nat
  BY <1>2, MulNat
<1>4. RewardedOperator(index, o)
        = [operators[o] EXCEPT !.pending_rewards = @ + gain,
                               !.reward_index = index.global_reward_index]
  BY DEF RewardedOperator, compute_reward
<1> HIDE DEF gain
<1>5. operators[o].pending_rewards + gain \in Nat
  BY <1>1, <1>3 DEF OperatorInfo
<1> QED
  BY <1>1, <1>4, <1>5, Zenon DEF OperatorInfo, RewardEmissionsIndex

LEMMA RewardedSponsorType ==
    ASSUME TypeOK, NEW index \in RewardEmissionsIndex, NEW s \in Users,
           sponsors[s].reward_index <= index.global_reward_index
    PROVE  /\ RewardedSponsor(index, s) \in SponsorInfo
           /\ RewardedSponsor(index, s).reward_index = index.global_reward_index
           /\ RewardedSponsor(index, s).lottery_deposit = sponsors[s].lottery_deposit
<1> DEFINE gain == sponsors[s].lottery_deposit
                     * (index.global_reward_index - sponsors[s].reward_index)
<1>1. sponsors[s] \in SponsorInfo
  BY DEF TypeOK
<1>2. /\ sponsors[s].lottery_deposit \in Nat
      /\ index.global_reward_index - sponsors[s].reward_index \in Nat
  BY <1>1 DEF SponsorInfo, RewardEmissionsIndex
<1>3. gain \in Nat
  BY <1>2, MulNat
<1>4. RewardedSponsor(index, s)
        = [sponsors[s] EXCEPT !.pending_rewards = @ + gain,
                              !.reward_index = index.global_reward_index]
  BY DEF RewardedSponsor, compute_reward
<1> HIDE DEF gain
<1>5. sponsors[s].pending_rewards + gain \in Nat
  BY <1>1, <1>3 DEF SponsorInfo
<1> QED
  BY <1>1, <1>4, <1>5, Zenon DEF SponsorInfo, RewardEmissionsIndex

\* The updated indexes are not behind anybody's either.
LEMMA IndexesStayBehind ==
    ASSUME TypeOK, IndexesBehind, NEW p \in Users
    PROVE  /\ operators[p].reward_index <= UpdatedOperatorIndex.global_reward_index
           /\ sponsors[p].reward_index <= UpdatedSponsorIndex.global_reward_index
<1>1. operators[p].reward_index \in Nat /\ sponsors[p].reward_index \in Nat
  BY DEF TypeOK, OperatorInfo, SponsorInfo
<1>2. /\ state.operator_reward_emission_index.global_reward_index \in Nat
      /\ state.sponsor_reward_emission_index.global_reward_index \in Nat
  BY DEF TypeOK, State, RewardEmissionsIndex
<1>3. /\ UpdatedOperatorIndex.global_reward_index \in Nat
      /\ UpdatedSponsorIndex.global_reward_index \in Nat
  BY UpdatedIndexTypes DEF RewardEmissionsIndex
<1> QED
  BY <1>1, <1>2, <1>3, UpdatedIndexTypes DEF IndexesBehind

\* Setting the shares of an operator whose rewards are up to date.
LEMMA OperatorUpdate ==
    ASSUME TypeOK, IndexesBehind, NEW o \in Users, NEW shares \in Nat, NEW ops,
           ops = [operators EXCEPT ![o] = OperatorWithShares(o, shares)]
    PROVE  /\ ops \in [Users -> OperatorInfo]
           /\ \A p \in Users : ops[p].reward_index
                                 <= UpdatedOperatorIndex.global_reward_index
<1>1. operators[o].reward_index <= UpdatedOperatorIndex.global_reward_index
  BY IndexesStayBehind
<1> DEFINE info == OperatorWithShares(o, shares)
<1>2. /\ info \in OperatorInfo
      /\ info.reward_index = UpdatedOperatorIndex.global_reward_index
  <2>1. /\ RewardedOperator(UpdatedOperatorIndex, o) \in OperatorInfo
        /\ RewardedOperator(UpdatedOperatorIndex, o).reward_index
             = UpdatedOperatorIndex.global_reward_index
    BY <1>1, UpdatedIndexTypes, RewardedOperatorType
  <2> QED
    BY <2>1, Zenon DEF OperatorInfo, OperatorWithShares
<1> HIDE DEF info
<1>3. ops = [operators EXCEPT ![o] = info]
  BY DEF info
<1>4. operators \in [Users -> OperatorInfo]
  BY DEF TypeOK
<1>5. ops \in [Users -> OperatorInfo]
  BY <1>2, <1>3, <1>4
<1>6. ASSUME NEW p \in Users
      PROVE  ops[p].reward_index <= UpdatedOperatorIndex.global_reward_index
  <2>1. UpdatedOperatorIndex.global_reward_index \in Nat
    BY UpdatedIndexTypes DEF RewardEmissionsIndex
  <2>2. CASE p = o
    BY <1>2, <1>3, <1>4, <2>1, <2>2
  <2>3. CASE p # o
    <3>1. ops[p] = operators[p]
      BY <1>3, <1>4, <2>3
    <3> QED
      BY <3>1, IndexesStayBehind
  <2> QED
    BY <2>2, <2>3
<1> QED
  BY <1>5, <1>6

LEMMA CountType ==
    ASSUME NEW s \in Seq(Tickets), NEW t
    PROVE  /\ Count(s, t) \in Nat
           /\ t \notin Range(s) => Count(s, t) = 0
<1> DEFINE places == {i \in DOMAIN s : s[i] = t}
<1>1. IsFiniteSet(1..Len(s))
  BY LenProperties, FS_Interval
<1>2. places \subseteq 1..Len(s)
  BY LenProperties
<1>3. IsFiniteSet(places)
  BY <1>1, <1>2, FS_Subset
<1>4. Cardinality(places) \in Nat
  BY <1>3, FS_CardinalityType
<1>5. ASSUME t \notin Range(s) PROVE Cardinality(places) = 0
  <2>1. places = {}
    BY <1>5 DEF Range
  <2> QED
    BY <2>1, FS_EmptySet
<1> QED
  BY <1>4, <1>5 DEF Count

LEMMA HoldersType ==
    ASSUME TypeOK, NEW t
    PROVE  Holders(t) \in [Users -> Nat]
BY DEF TypeOK, Holders

\* Every list that handle_depositor_ticket_updates may add is a list of
\* tickets.
LEMMA TicketLists ==
    ASSUME TypeOK, NEW u \in Users, NEW requested \in Seq(Tickets),
           NEW minted_shares \in Nat, NEW minted_aust \in Nat,
           NEW combinations \in handle_depositor_ticket_updates(
                                    u, requested, minted_shares, minted_aust)
    PROVE  combinations \in Seq(Tickets)
<1> DEFINE held  == Len(depositors[u].tickets)
           most  == MaxDepositorTickets(u, minted_shares, minted_aust)
           extra == RoundUp(most, held + Len(requested))
<1>1. /\ config.ticket_price > TicketPriceSlack
      /\ pool.total_user_shares + minted_shares > 0
  BY Zenon DEF handle_depositor_ticket_updates
<1>7. \E e \in [1..extra -> Tickets] : combinations = requested \o e
  BY Zenon DEF handle_depositor_ticket_updates
<1>2. held \in Nat /\ Len(requested) \in Nat
  BY LenProperties DEF TypeOK, DepositorInfo
<1>3. most \in Nat
  <2> DEFINE ratio == from_ratio(depositors[u].shares + minted_shares,
                                 pool.total_user_shares + minted_shares)
  <2>1. /\ depositors[u].shares + minted_shares \in Nat
        /\ pool.total_user_shares + minted_shares \in Nat \ {0}
        /\ pool.total_user_aust + minted_aust \in Nat
        /\ rate \in Nat
        /\ config.ticket_price - TicketPriceSlack \in Nat \ {0}
    <3>1. /\ depositors[u].shares \in Nat /\ pool.total_user_shares \in Nat
          /\ pool.total_user_aust \in Nat /\ rate \in Nat
          /\ config.ticket_price \in Nat /\ TicketPriceSlack \in Nat
      BY LimitsAssumption, FieldTypes, DepositorFields DEF MoneyTyped, ConfigTyped
    <3>2. depositors[u].shares + minted_shares \in Nat
      BY <3>1
    <3>3. pool.total_user_shares + minted_shares \in Nat \ {0}
      BY <1>1, <3>1
    <3>4. pool.total_user_aust + minted_aust \in Nat
      BY <3>1
    <3>5. config.ticket_price - TicketPriceSlack \in Nat \ {0}
      BY <1>1, <3>1
    <3> QED
      BY <3>1, <3>2, <3>3, <3>4, <3>5
  <2>2. ratio \in Nat
    <3>1. (depositors[u].shares + minted_shares) * One \in Nat
      BY <2>1, OneAssumption, MulNat
    <3> QED
      BY <2>1, <3>1, DivBounds DEF from_ratio
  <2> HIDE DEF ratio
  <2>3. PostDepositBalance(u, minted_shares, minted_aust) \in Nat
    <3>1. PostDepositBalance(u, minted_shares, minted_aust)
            = DecMul(DecMul(pool.total_user_aust + minted_aust, ratio), rate)
      BY DEF PostDepositBalance, ratio
    <3>2. DecMul(pool.total_user_aust + minted_aust, ratio) \in Nat
      BY <2>1, <2>2, DecMulBounds
    <3> QED
      BY <2>1, <3>1, <3>2, DecMulBounds
  <2> QED
    BY <2>1, <2>3, DivBounds DEF MaxDepositorTickets
<1> HIDE DEF held, most
<1>4. extra \in Nat
  <2>1. RoundUpLimit \in Nat
    BY LimitsAssumption
  <2>2. held + Len(requested) \in Nat
    BY <1>2
  <2> QED
    BY <1>3, <2>1, <2>2 DEF RoundUp, Smaller
<1> HIDE DEF extra
<1>5. PICK e \in [1..extra -> Tickets] : combinations = requested \o e
  BY <1>7
<1>6. e \in Seq(Tickets)
  BY <1>4, <1>5
<1> QED
  BY <1>5, <1>6, ConcatProperties

\* Adding tickets of one depositor.
LEMMA AddTicketsType ==
    ASSUME TypeOK, NEW u \in Users, NEW combinations \in Seq(Tickets)
    PROVE  /\ DOMAIN AddTickets(u, combinations) \subseteq Tickets
           /\ AddTickets(u, combinations)
                \in [DOMAIN AddTickets(u, combinations) -> [Users -> Nat]]
<1>1. Range(combinations) \subseteq Tickets
  BY LenProperties DEF Range
<1>2. DOMAIN AddTickets(u, combinations) = DOMAIN tickets \cup Range(combinations)
  BY DEF AddTickets
<1>3. ASSUME NEW t \in DOMAIN AddTickets(u, combinations)
      PROVE  AddTickets(u, combinations)[t] \in [Users -> Nat]
  <2>1. Holders(t) \in [Users -> Nat] /\ Count(combinations, t) \in Nat
    BY HoldersType, CountType
  <2>2. AddTickets(u, combinations)[t]
          = [Holders(t) EXCEPT ![u] = @ + Count(combinations, t)]
    BY <1>2, <1>3 DEF AddTickets
  <2> QED
    BY <2>1, <2>2
<1>4. AddTickets(u, combinations)
        = [t \in DOMAIN AddTickets(u, combinations) |-> AddTickets(u, combinations)[t]]
  BY DEF AddTickets
<1> QED
  BY <1>1, <1>2, <1>3, <1>4 DEF TypeOK

\* The shares that a deposit mints: as many as the aUST in an empty pool,
\* never more than the aUST pays for in another.
LEMMA MintedShares ==
    ASSUME TypeOK, PoolNonDegenerate, NEW minted_aust \in Nat
    PROVE  LET minted == DecMul(minted_aust,
                            decimal_from_ratio_or_one(pool.total_user_shares,
                                                      pool.total_user_aust))
           IN  /\ minted \in Nat
               /\ pool.total_user_shares = 0 => minted = minted_aust
               /\ pool.total_user_aust * minted <= minted_aust * pool.total_user_shares
<1>1. pool.total_user_shares \in Nat /\ pool.total_user_aust \in Nat
  BY FieldTypes DEF MoneyTyped
<1>2. CASE pool.total_user_shares = 0
  <2>1. pool.total_user_aust = 0
    BY <1>2 DEF PoolNonDegenerate
  <2>2. decimal_from_ratio_or_one(pool.total_user_shares, pool.total_user_aust) = One
    BY <1>2, <2>1 DEF decimal_from_ratio_or_one
  <2>3. 0 * minted_aust <= minted_aust * 0
    OBVIOUS
  <2> QED
    BY <1>2, <2>1, <2>2, <2>3, DecMulOne
<1>3. CASE pool.total_user_shares # 0
  <2>1. pool.total_user_aust # 0
    BY <1>3 DEF PoolNonDegenerate
  <2> QED
    BY <1>1, <1>3, <2>1, MintBounds
<1> QED
  BY <1>2, <1>3

-----------------------------------------------------------------------------
(* Deposits and gifts.                                                     *)

LEMMA DepositStep ==
    ASSUME IInv, NEW u \in Users, NEW amount, NEW new_operator \in Users \cup {None},
           NEW requested \in Seq(Tickets), deposit(u, amount, new_operator, requested)
    PROVE  IInv'
<1> DEFINE net           == deduct_tax(amount)
           minted_aust   == AnchorMints(net)
           minted_shares == DecMul(minted_aust,
                               decimal_from_ratio_or_one(pool.total_user_shares,
                                                         pool.total_user_aust))
           operator      == OperatorAfterDeposit(u, new_operator)
           registered    == OperatorSharesMinted(operator, minted_shares)
<1>1. TypeOK /\ FractionsValid /\ IndexesBehind /\ ScheduleSound
  BY DEF IInv
<1>2. LotteryLifecycle /\ AustSolvency /\ PoolNonDegenerate
  BY DEF IInv
<1>27. MoneyTyped /\ ScheduleTyped
  BY <1>1, FieldTypes
<1>3. UNCHANGED <<config, checkpoint, sponsors, lotteries, snapshots, prizes, block,
                  rate, paid_glow>>
  BY Zenon DEF deposit
<1>4. PICK combinations \in handle_depositor_ticket_updates(
                                u, requested, minted_shares, minted_aust) :
         /\ tickets' = AddTickets(u, combinations)
         /\ depositors' = [depositors EXCEPT
               ![u].tickets = @ \o combinations,
               ![u].operator_addr = operator,
               ![u].shares = @ + minted_shares]
         /\ state' = [state EXCEPT
               !.operator_reward_emission_index = UpdatedOperatorIndex,
               !.total_tickets = @ + Len(combinations)]
  BY Zenon DEF deposit
<1>5. operators' = OperatorsAfterDeposit(u, operator, minted_shares)
  BY Zenon DEF deposit
<1>6. pool' = [pool EXCEPT
                 !.total_operator_shares = @ + registered,
                 !.total_user_shares = @ + minted_shares,
                 !.total_user_aust = @ + minted_aust]
  BY Zenon DEF deposit
<1>7. bank' = [bank EXCEPT !.ust = @ + amount - Charge(net), !.aust = @ + minted_aust]
  BY Zenon DEF deposit
<1>28. amount \in 1..purse /\ purse' = purse - amount
  BY Zenon DEF deposit
<1>8. amount \in Nat /\ purse' \in Nat
  BY <1>27, <1>28 DEF MoneyTyped
<1>9. net \in Nat /\ Charge(net) \in Nat /\ Charge(net) <= amount
  BY <1>8, DeductTaxBounds, TaxDeductionCoversTransfer
<1>10. minted_aust \in Nat
  BY <1>9, DecDivBounds, <1>27 DEF MoneyTyped, AnchorMints
<1> HIDE DEF net, minted_aust
<1>11. /\ minted_shares \in Nat
       /\ pool.total_user_shares = 0 => minted_shares = minted_aust
  BY <1>1, <1>2, <1>10, MintedShares
<1> HIDE DEF minted_shares
<1>12. operator \in Users \cup {None}
  BY <1>1, DepositorFields DEF OperatorAfterDeposit
<1>13. registered \in Nat
  BY <1>11 DEF OperatorSharesMinted
<1> HIDE DEF operator, registered
<1>14. combinations \in Seq(Tickets) /\ Len(combinations) \in Nat
  BY <1>1, <1>4, <1>10, <1>11, TicketLists, LenProperties
<1>15. /\ state' \in State
       /\ state'.operator_reward_emission_index = UpdatedOperatorIndex
       /\ state'.sponsor_reward_emission_index = state.sponsor_reward_emission_index
       /\ state'.current_lottery = state.current_lottery
       /\ state'.next_lottery_time = state.next_lottery_time
       /\ state'.next_lottery_exec_time = state.next_lottery_exec_time
       /\ state'.last_lottery_execution_aust_exchange_rate
            = state.last_lottery_execution_aust_exchange_rate
  <2>1. state \in State /\ UpdatedOperatorIndex \in RewardEmissionsIndex
    BY <1>1, UpdatedIndexTypes DEF TypeOK
  <2>2. state.total_tickets + Len(combinations) \in Nat
    BY <1>14, <1>27 DEF ScheduleTyped
  <2> QED
    BY <1>4, <2>1, <2>2, Zenon DEF State
<1>16. depositors' \in [Users -> DepositorInfo]
  <2>1. depositors[u] \in DepositorInfo /\ depositors \in [Users -> DepositorInfo]
    BY <1>1, DepositorFields DEF TypeOK
  <2>2. depositors[u].shares + minted_shares \in Nat
    BY <1>1, <1>11, DepositorFields
  <2>3. depositors[u].tickets \o combinations \in Seq(Tickets)
    BY <1>1, <1>14, DepositorFields, ConcatProperties
  <2>4. depositors' = [depositors EXCEPT ![u] =
                         [@ EXCEPT !.tickets = depositors[u].tickets \o combinations,
                                   !.operator_addr = operator,
                                   !.shares = depositors[u].shares + minted_shares]]
    BY <1>4, <2>1, Zenon
  <2> DEFINE info == [depositors[u] EXCEPT !.tickets = depositors[u].tickets \o combinations,
                         !.operator_addr = operator,
                         !.shares = depositors[u].shares + minted_shares]
  <2>5. info \in DepositorInfo
    BY <1>12, <2>1, <2>2, <2>3, Zenon DEF DepositorInfo
  <2> QED
    BY <2>1, <2>4, <2>5, Zenon
<1>17. /\ DOMAIN tickets' \subseteq Tickets
       /\ tickets' \in [DOMAIN tickets' -> [Users -> Nat]]
  <2>1. tickets' = AddTickets(u, combinations)
    BY <1>4
  <2> QED
    BY <1>1, <1>14, <2>1, AddTicketsType
<1>18. /\ operators' \in [Users -> OperatorInfo]
       /\ \A p \in Users : operators'[p].reward_index
                             <= UpdatedOperatorIndex.global_reward_index
  <2>1. CASE operator = None
    <3>1. operators' = operators
      BY <1>5, <2>1 DEF OperatorsAfterDeposit
    <3>2. operators \in [Users -> OperatorInfo]
      BY <1>1 DEF TypeOK
    <3> QED
      BY <1>1, <3>1, <3>2, IndexesStayBehind
  <2>2. CASE operator # None
    <3> DEFINE gained == IF operator_registered(depositors[u]) THEN minted_shares
                         ELSE depositors[u].shares + minted_shares
    <3>1. operator \in Users
      BY <1>12, <2>2
    <3>2. gained \in Nat
      BY <1>1, <1>11, DepositorFields
    <3>3. operators[operator].shares \in Nat
      BY <1>1, <3>1 DEF TypeOK, OperatorInfo
    <3>4. operators' = [operators EXCEPT ![operator] =
                          OperatorWithShares(operator, operators[operator].shares + gained)]
      BY <1>5, <2>2 DEF OperatorsAfterDeposit
    <3> HIDE DEF gained
    <3>5. operators[operator].shares + gained \in Nat
      BY <3>2, <3>3
    <3> QED
      BY <1>1, <3>1, <3>4, <3>5, OperatorUpdate
  <2> QED
    BY <2>1, <2>2
<1>19. /\ pool' \in Pool
       /\ pool'.total_user_shares = pool.total_user_shares + minted_shares
       /\ pool'.total_user_aust = pool.total_user_aust + minted_aust
       /\ pool'.total_sponsor_lottery_deposits = pool.total_sponsor_lottery_deposits
  <2>1. /\ pool \in Pool
        /\ pool.total_operator_shares + registered \in Nat
        /\ pool.total_user_shares + minted_shares \in Nat
        /\ pool.total_user_aust + minted_aust \in Nat
    <3>1. pool \in Pool
      BY <1>1 DEF TypeOK
    <3>2. pool.total_operator_shares + registered \in Nat
      BY <1>13, <1>27 DEF MoneyTyped
    <3>3. pool.total_user_shares + minted_shares \in Nat
      BY <1>11, <1>27 DEF MoneyTyped
    <3>4. pool.total_user_aust + minted_aust \in Nat
      BY <1>10, <1>27 DEF MoneyTyped
    <3> QED
      BY <3>1, <3>2, <3>3, <3>4
  <2> QED
    BY <1>6, <2>1, Zenon DEF Pool
<1>20. /\ bank' \in [ust : Nat, aust : Nat]
       /\ bank'.aust = bank.aust + minted_aust
  <2>3. bank.ust \in Nat /\ bank.aust \in Nat
    BY <1>27, Zenon DEF MoneyTyped
  <2>1. bank.ust + amount - Charge(net) \in Nat /\ bank.aust + minted_aust \in Nat
    BY <1>8, <1>9, <1>10, <2>3, SMTT(30)
  <2>2. bank \in [ust : Nat, aust : Nat]
    BY <1>1 DEF TypeOK
  <2> QED
    BY <1>7, <2>1, <2>2, Zenon
<1>21. TypeOK'
  BY <1>1, <1>3, <1>8, <1>15, <1>16, <1>17, <1>18, <1>19, <1>20 DEF TypeOK
<1>22. FractionsValid'
  BY <1>1, <1>3 DEF FractionsValid
<1>23. IndexesBehind'
  BY <1>1, <1>3, <1>15, <1>18 DEF IndexesBehind
<1>24. ScheduleSound' /\ LotteryLifecycle'
  BY <1>1, <1>2, <1>3, <1>15, DrawFrame
<1>25. AustSolvency'
  <2>1. bank'.aust - pool'.total_user_aust = bank.aust - pool.total_user_aust
    BY <1>10, <1>19, <1>20, <1>27, SMTT(30) DEF MoneyTyped
  <2>2. pool'.total_user_aust <= bank'.aust
    BY <1>2, <1>10, <1>19, <1>20, <1>27 DEF MoneyTyped, AustSolvency
  <2> QED
    BY <1>2, <1>3, <1>19, <2>1, <2>2 DEF AustSolvency
<1>26. PoolNonDegenerate'
  BY <1>2, <1>10, <1>11, <1>19, <1>27 DEF MoneyTyped, PoolNonDegenerate
<1> QED
  BY <1>21, <1>22, <1>23, <1>24, <1>25, <1>26 DEF IInv

\* The invariants about money do not depend on anything else.
LEMMA MoneyFrame ==
    ASSUME AustSolvency, PoolNonDegenerate,
           pool' = pool, bank'.aust = bank.aust, rate' = rate
    PROVE  AustSolvency' /\ PoolNonDegenerate'
BY DEF AustSolvency, PoolNonDegenerate

LEMMA ClaimTicketsStep ==
    ASSUME IInv, NEW u \in Users, NEW requested \in Seq(Tickets),
           execute_claim_tickets(u, requested)
    PROVE  IInv'
<1>1. TypeOK /\ FractionsValid /\ IndexesBehind /\ ScheduleSound
  BY DEF IInv
<1>2. LotteryLifecycle /\ AustSolvency /\ PoolNonDegenerate
  BY DEF IInv
<1>3. UNCHANGED <<config, state, pool, sponsors, operators, lotteries, snapshots, prizes,
                  checkpoint, block, rate, bank, paid_glow, purse>>
  BY Zenon DEF execute_claim_tickets, chain
<1>4. PICK combinations \in handle_depositor_ticket_updates(u, requested, 0, 0) :
         /\ tickets' = AddTickets(u, combinations)
         /\ depositors' = [depositors EXCEPT ![u].tickets = @ \o combinations]
  BY Zenon DEF execute_claim_tickets
<1>5. combinations \in Seq(Tickets)
  BY <1>1, <1>4, TicketLists
<1>6. /\ DOMAIN tickets' \subseteq Tickets
      /\ tickets' \in [DOMAIN tickets' -> [Users -> Nat]]
  <2>1. tickets' = AddTickets(u, combinations)
    BY <1>4
  <2> QED
    BY <1>1, <1>5, <2>1, AddTicketsType
<1>7. depositors' \in [Users -> DepositorInfo]
  <2>1. depositors[u] \in DepositorInfo /\ depositors \in [Users -> DepositorInfo]
    BY <1>1, DepositorFields DEF TypeOK
  <2>2. depositors[u].tickets \o combinations \in Seq(Tickets)
    BY <1>1, <1>5, DepositorFields, ConcatProperties
  <2>3. [depositors[u] EXCEPT !.tickets = depositors[u].tickets \o combinations]
          \in DepositorInfo
    BY <2>1, <2>2, Zenon DEF DepositorInfo
  <2> QED
    BY <1>4, <2>1, <2>3, Zenon
<1>8. TypeOK'
  BY <1>1, <1>3, <1>6, <1>7 DEF TypeOK
<1>9. FractionsValid' /\ IndexesBehind'
  BY <1>1, <1>3 DEF FractionsValid, IndexesBehind
<1>10. ScheduleSound' /\ LotteryLifecycle'
  BY <1>1, <1>2, <1>3, DrawFrame
<1>11. AustSolvency' /\ PoolNonDegenerate'
  BY <1>2, <1>3, MoneyFrame
<1> QED
  BY <1>8, <1>9, <1>10, <1>11 DEF IInv

-----------------------------------------------------------------------------
(* Withdrawals.                                                            *)

LEMMA RemoveTicketsType ==
    ASSUME TypeOK, NEW u \in Users, NEW drained \in Seq(Tickets),
           \A t \in Range(drained) : Count(drained, t) <= Holders(t)[u]
    PROVE  /\ DOMAIN RemoveTickets(u, drained) \subseteq Tickets
           /\ RemoveTickets(u, drained)
                \in [DOMAIN RemoveTickets(u, drained) -> [Users -> Nat]]
<1>1. DOMAIN RemoveTickets(u, drained) = DOMAIN tickets
  BY DEF RemoveTickets
<1>2. ASSUME NEW t \in DOMAIN tickets
      PROVE  RemoveTickets(u, drained)[t] \in [Users -> Nat]
  <2>1. tickets[t] \in [Users -> Nat] /\ Count(drained, t) \in Nat
    BY CountType DEF TypeOK
  <2>2. tickets[t][u] \in Nat
    BY <2>1
  <2>3. Count(drained, t) <= tickets[t][u]
    <3>1. CASE t \in Range(drained)
      BY <3>1 DEF Holders
    <3>2. CASE t \notin Range(drained)
      <4>1. Count(drained, t) = 0
        BY <3>2, CountType
      <4> QED
        BY <2>2, <4>1
    <3> QED
      BY <3>1, <3>2
  <2>4. tickets[t][u] - Count(drained, t) \in Nat
    BY <2>1, <2>2, <2>3
  <2>5. RemoveTickets(u, drained)[t]
          = [tickets[t] EXCEPT ![u] = tickets[t][u] - Count(drained, t)]
    BY DEF RemoveTickets
  <2> QED
    BY <2>1, <2>4, <2>5
<1>3. RemoveTickets(u, drained)
        = [t \in DOMAIN RemoveTickets(u, drained) |-> RemoveTickets(u, drained)[t]]
  BY DEF RemoveTickets
<1> QED
  BY <1>1, <1>2, <1>3 DEF TypeOK

LEMMA WithdrawnSharesType ==
    ASSUME TypeOK, PoolNonDegenerate, pool.total_user_shares # 0,
           NEW u \in Users, NEW amount \in Nat \cup {None}
    PROVE  WithdrawnShares(u, amount) \in Nat
<1>1. CASE amount = None
  BY <1>1, DepositorFields DEF WithdrawnShares
<1>2. CASE amount # None
  <2> DEFINE x == multiply_ratio(DecDiv(amount, rate), pool.total_user_shares,
                                 pool.total_user_aust)
  <2>1. amount \in Nat /\ rate \in Nat \ {0}
    BY <1>2 DEF TypeOK
  <2>2. DecDiv(amount, rate) \in Nat
    BY <2>1, DecDivBounds
  <2>3. pool.total_user_shares \in Nat /\ pool.total_user_aust \in Nat \ {0}
    BY FieldTypes DEF MoneyTyped, PoolNonDegenerate
  <2>4. DecDiv(amount, rate) * pool.total_user_shares \in Nat
    BY <2>2, <2>3, MulNat
  <2>5. x \in Nat
    BY <2>3, <2>4, DivBounds DEF multiply_ratio
  <2>6. WithdrawnShares(u, amount) = Larger(x, 1)
    BY <1>2 DEF WithdrawnShares
  <2> HIDE DEF x
  <2> QED
    BY <2>5, <2>6 DEF Larger
<1> QED
  BY <1>1, <1>2

\* What is left of a depositor's balance is a natural number, and the drained
\* tickets are the first of the depositor's list.
LEMMA DrainedTicketsType ==
    ASSUME TypeOK, NEW u \in Users, NEW shares \in Nat, NEW aust \in Nat,
           shares <= depositors[u].shares, shares <= pool.total_user_shares,
           aust <= pool.total_user_aust,
           RatioDefined(depositors[u].shares - shares, pool.total_user_shares - shares),
           config.ticket_price > 0
    PROVE  /\ DrainedTickets(u, shares, aust) \in Seq(Tickets)
           /\ Len(DrainedTickets(u, shares, aust)) \in Nat
           /\ \E n \in 0..Len(depositors[u].tickets) :
                 /\ DrainedTickets(u, shares, aust) = SubSeq(depositors[u].tickets, 1, n)
                 /\ Len(DrainedTickets(u, shares, aust)) = n
<1> DEFINE own   == depositors[u].shares - shares
           all   == pool.total_user_shares - shares
           ratio == decimal_from_ratio_or_one(own, all)
           left  == PostWithdrawBalance(u, shares, aust)
           held  == Len(depositors[u].tickets)
           most  == left \div config.ticket_price
           n     == IF held > most THEN held - most ELSE 0
<1>1. MoneyTyped /\ ConfigTyped /\ depositors[u].shares \in Nat
  BY FieldTypes, DepositorFields
<1>2. own \in Nat /\ all \in Nat
  BY <1>1 DEF MoneyTyped
<1>3. ratio \in Nat
  <2>1. CASE own = 0 /\ all = 0
    BY <2>1, OneAssumption DEF decimal_from_ratio_or_one
  <2>2. CASE ~(own = 0 /\ all = 0)
    <3>1. all # 0
      BY <2>2 DEF RatioDefined
    <3>2. own * One \in Nat
      BY <1>2, OneAssumption, MulNat
    <3> QED
      BY <1>2, <2>2, <3>1, <3>2, DivBounds DEF decimal_from_ratio_or_one, from_ratio
  <2> QED
    BY <2>1, <2>2
<1>4. left \in Nat
  <2>1. pool.total_user_aust - aust \in Nat /\ rate \in Nat
    BY <1>1 DEF MoneyTyped
  <2>2. DecMul(pool.total_user_aust - aust, ratio) \in Nat
    BY <1>3, <2>1, DecMulBounds
  <2>3. left = DecMul(DecMul(pool.total_user_aust - aust, ratio), rate)
    BY DEF PostWithdrawBalance
  <2> QED
    BY <2>1, <2>2, <2>3, DecMulBounds
<1>5. DrainedTickets(u, shares, aust) = SubSeq(depositors[u].tickets, 1, n)
  BY DEF DrainedTickets
<1> HIDE DEF left
<1>6. most \in Nat
  <2>1. config.ticket_price \in Nat \ {0}
    BY <1>1 DEF ConfigTyped
  <2> QED
    BY <1>4, <2>1, DivBounds
<1> HIDE DEF most
<1>7. /\ depositors[u].tickets \in Seq(Tickets) /\ held \in Nat
      /\ \A i \in 1..held : depositors[u].tickets[i] \in Tickets
  BY DepositorFields, LenProperties, ElementOfSeq
<1>8. n \in 0..held
  BY <1>6, <1>7
<1> HIDE DEF n, held
<1>9. \A i \in 1..n : depositors[u].tickets[i] \in Tickets
  BY <1>7, <1>8
<1>10. /\ SubSeq(depositors[u].tickets, 1, n) \in Seq(Tickets)
       /\ Len(SubSeq(depositors[u].tickets, 1, n)) = IF 1 <= n THEN n - 1 + 1 ELSE 0
  <2>1. 1 \in Int /\ n \in Int
    BY <1>7, <1>8
  <2> QED
    BY <1>9, <2>1, SubSeqProperties
<1>11. Len(SubSeq(depositors[u].tickets, 1, n)) = n
  BY <1>7, <1>8, <1>10
<1> QED
  BY <1>5, <1>8, <1>10, <1>11, LenProperties DEF held

\* UST that Anchor returns for redeemed aUST.
LEMMA AnchorReturnsType ==
    ASSUME TypeOK, NEW aust \in Nat
    PROVE  AnchorReturns(aust) \in Nat
<1>1. DecMul(aust, rate) \in Nat
  BY DecMulBounds DEF TypeOK
<1> QED
  BY <1>1, DeductTaxBounds DEF AnchorReturns

LEMMA WithdrawStep ==
    ASSUME IInv, NEW u \in Users, NEW amount \in Nat \cup {None}, NEW instant \in BOOLEAN,
           execute_withdraw(u, amount, instant)
    PROVE  IInv'
<1> DEFINE shares   == WithdrawnShares(u, amount)
           aust     == WithdrawnAust(shares)
           drained  == DrainedTickets(u, shares, aust)
           returned == AnchorReturns(aust)
           payment  == WithdrawalPayment(returned, instant)
           fee      == WithdrawalFee(returned, instant)
           claim    == WithdrawalClaim(u, returned, instant)
           named    == operator_registered(depositors[u])
<1>1. TypeOK /\ FractionsValid /\ IndexesBehind /\ ScheduleSound
  BY DEF IInv
<1>2. LotteryLifecycle /\ AustSolvency /\ PoolNonDegenerate
  BY DEF IInv
<1>3. MoneyTyped /\ ScheduleTyped /\ ConfigTyped
  BY <1>1, FieldTypes
<1>4. UNCHANGED <<config, checkpoint, sponsors, lotteries, snapshots, prizes, block,
                  rate, paid_glow, purse>>
  BY Zenon DEF execute_withdraw
<1>5. /\ pool.total_user_shares # 0
      /\ shares <= depositors[u].shares
      /\ shares <= pool.total_user_shares
      /\ RatioDefined(depositors[u].shares - shares, pool.total_user_shares - shares)
      /\ config.ticket_price > 0
  BY Zenon DEF execute_withdraw
<1>6. /\ \A t \in Range(drained) : Count(drained, t) <= Holders(t)[u]
      /\ Len(drained) <= state.total_tickets
      /\ OperatorCanWithdraw(u, shares)
      /\ instant \/ FreeSlots(u) # {}
      /\ payment <= bank.ust + returned
  BY Zenon DEF execute_withdraw
<1>7. tickets' = RemoveTickets(u, drained) /\ operators' = OperatorsAfterWithdraw(u, shares)
  BY Zenon DEF execute_withdraw
<1>8. depositors' = [depositors EXCEPT
                       ![u].tickets = SubSeq(@, Len(drained) + 1, Len(@)),
                       ![u].shares = @ - shares,
                       ![u].unbonding_info = @ \cup claim]
  BY Zenon DEF execute_withdraw
<1>9. pool' = [pool EXCEPT
                 !.total_operator_shares = IF named THEN @ - shares ELSE @,
                 !.total_user_shares = @ - shares,
                 !.total_user_aust = @ - aust]
  BY Zenon DEF execute_withdraw
<1>10. state' = [state EXCEPT
                   !.operator_reward_emission_index =
                       IF named THEN UpdatedOperatorIndex ELSE @,
                   !.total_tickets = TotalTicketsAfterWithdraw(drained),
                   !.total_reserve = @ + fee]
  BY Zenon DEF execute_withdraw
<1>11. bank' = [bank EXCEPT !.ust = @ + returned - payment, !.aust = @ - aust]
  BY Zenon DEF execute_withdraw
<1>12. shares \in Nat
  BY <1>1, <1>2, <1>5, WithdrawnSharesType
<1>13. /\ aust \in Nat
       /\ aust <= pool.total_user_aust
       /\ shares = pool.total_user_shares => aust = pool.total_user_aust
       /\ shares < pool.total_user_shares /\ pool.total_user_aust # 0
            => aust < pool.total_user_aust
  <2>1. pool.total_user_shares \in Nat \ {0} /\ pool.total_user_aust \in Nat
    BY <1>3, <1>5 DEF MoneyTyped
  <2> QED
    BY <1>5, <1>12, <2>1, BurnBounds DEF WithdrawnAust
<1> HIDE DEF shares, aust
<1>14. drained \in Seq(Tickets) /\ Len(drained) \in Nat
  BY <1>1, <1>5, <1>12, <1>13, DrainedTicketsType
<1>15. returned \in Nat
  BY <1>1, <1>13, AnchorReturnsType
<1> HIDE DEF drained, returned
<1>16. fee \in Nat /\ fee <= returned
  <2>1. config.instant_withdrawal_fee \in Nat /\ config.instant_withdrawal_fee <= One
    BY <1>1, <1>3 DEF ConfigTyped, FractionsValid
  <2>2. /\ DecMul(returned, config.instant_withdrawal_fee) \in Nat
        /\ DecMul(returned, config.instant_withdrawal_fee) <= returned
    BY <1>15, <2>1, DecMulBounds, FractionBound
  <2> QED
    BY <1>15, <2>2 DEF WithdrawalFee
<1>17. payment \in Nat
  <2>1. CASE instant
    <3>1. returned - fee \in Nat
      BY <1>15, <1>16
    <3>2. payment = Charge(deduct_tax(returned - fee))
      BY <2>1 DEF WithdrawalPayment
    <3> QED
      BY <3>1, <3>2, TaxDeductionCoversTransfer
  <2>2. CASE ~instant
    BY <2>2 DEF WithdrawalPayment
  <2> QED
    BY <2>1, <2>2
<1>18. claim \in SUBSET Claim
  <2>1. CASE instant
    BY <2>1 DEF WithdrawalClaim
  <2>2. CASE ~instant
    <3> DEFINE slot == CHOOSE n \in FreeSlots(u) : TRUE
    <3>1. slot \in 1..MAX_CLAIMS
      BY <1>6, <2>2 DEF FreeSlots
    <3>2. block.time + config.unbonding_period \in Nat
      BY <1>3 DEF ScheduleTyped, ConfigTyped
    <3>3. claim = {[slot |-> slot, amount |-> returned,
                    release_at |-> block.time + config.unbonding_period]}
      BY <2>2, Zenon DEF WithdrawalClaim
    <3> HIDE DEF slot, claim
    <3> QED
      BY <1>15, <3>1, <3>2, <3>3 DEF Claim
  <2> QED
    BY <2>1, <2>2
<1> HIDE DEF fee, payment, claim
<1>19. /\ state' \in State
       /\ state'.operator_reward_emission_index
            = IF named THEN UpdatedOperatorIndex ELSE state.operator_reward_emission_index
       /\ state'.sponsor_reward_emission_index = state.sponsor_reward_emission_index
       /\ state'.current_lottery = state.current_lottery
       /\ state'.next_lottery_time = state.next_lottery_time
       /\ state'.next_lottery_exec_time = state.next_lottery_exec_time
       /\ state'.last_lottery_execution_aust_exchange_rate
            = state.last_lottery_execution_aust_exchange_rate
  <2>1. state \in State /\ UpdatedOperatorIndex \in RewardEmissionsIndex
    BY <1>1, UpdatedIndexTypes DEF TypeOK
  <2>2. (IF named THEN UpdatedOperatorIndex ELSE state.operator_reward_emission_index)
          \in RewardEmissionsIndex
    BY <2>1, Zenon DEF State
  <2>3. TotalTicketsAfterWithdraw(drained) \in Nat
    BY <1>3, <1>6, <1>14 DEF ScheduleTyped, TotalTicketsAfterWithdraw
  <2>4. state.total_reserve + fee \in Nat
    BY <1>3, <1>16 DEF ScheduleTyped
  <2> HIDE DEF named
  <2> QED
    BY <1>10, <2>1, <2>2, <2>3, <2>4, Zenon DEF State
<1>20. depositors' \in [Users -> DepositorInfo]
  <2> DEFINE rest == SubSeq(depositors[u].tickets, Len(drained) + 1,
                            Len(depositors[u].tickets))
             info == [depositors[u] EXCEPT
                        !.tickets = rest,
                        !.shares = depositors[u].shares - shares,
                        !.unbonding_info = depositors[u].unbonding_info \cup claim]
  <2>1. depositors[u] \in DepositorInfo /\ depositors \in [Users -> DepositorInfo]
    BY <1>1, DepositorFields DEF TypeOK
  <2>2. depositors[u].shares - shares \in Nat
    BY <1>1, <1>5, <1>12, DepositorFields
  <2>3. rest \in Seq(Tickets)
    <3>1. /\ depositors[u].tickets \in Seq(Tickets) /\ Len(depositors[u].tickets) \in Nat
          /\ \A i \in 1..Len(depositors[u].tickets) : depositors[u].tickets[i] \in Tickets
      BY <1>1, DepositorFields, LenProperties, ElementOfSeq
    <3>2. \A i \in (Len(drained) + 1)..Len(depositors[u].tickets) :
             depositors[u].tickets[i] \in Tickets
      BY <1>14, <3>1
    <3>3. Len(drained) + 1 \in Int /\ Len(depositors[u].tickets) \in Int
      BY <1>14, <3>1
    <3> QED
      BY <3>2, <3>3, SubSeqProperties
  <2>4. depositors[u].unbonding_info \cup claim \in SUBSET Claim
    BY <1>1, <1>18, DepositorFields
  <2>5. depositors' = [depositors EXCEPT ![u] = info]
    BY <1>8, <2>1, Zenon
  <2> HIDE DEF rest
  <2>6. info \in DepositorInfo
    BY <2>1, <2>2, <2>3, <2>4, Zenon DEF DepositorInfo
  <2> QED
    BY <2>1, <2>5, <2>6, Zenon
<1>21. /\ DOMAIN tickets' \subseteq Tickets
       /\ tickets' \in [DOMAIN tickets' -> [Users -> Nat]]
  BY <1>1, <1>6, <1>7, <1>14, RemoveTicketsType
<1>22. /\ operators' \in [Users -> OperatorInfo]
       /\ \A p \in Users : operators'[p].reward_index
                             <= state'.operator_reward_emission_index.global_reward_index
  <2>1. CASE ~named
    <3>1. operators' = operators
      BY <1>7, <2>1 DEF OperatorsAfterWithdraw
    <3>2. state'.operator_reward_emission_index = state.operator_reward_emission_index
      BY <1>19, <2>1
    <3>3. operators \in [Users -> OperatorInfo]
      BY <1>1 DEF TypeOK
    <3> QED
      BY <1>1, <3>1, <3>2, <3>3 DEF IndexesBehind
  <2>2. CASE named
    <3> DEFINE o == depositors[u].operator_addr
    <3>1. o \in Users
      BY <1>1, <2>2, DepositorFields DEF operator_registered
    <3>2. operators[o].shares \in Nat
      BY <1>1, <3>1 DEF TypeOK, OperatorInfo
    <3>3. shares <= operators[o].shares
      BY <1>6, <2>2 DEF OperatorCanWithdraw
    <3>4. operators' = [operators EXCEPT ![o] =
                          OperatorWithShares(o, operators[o].shares - shares)]
      BY <1>7, <2>2 DEF OperatorsAfterWithdraw
    <3>5. state'.operator_reward_emission_index = UpdatedOperatorIndex
      BY <1>19, <2>2
    <3> HIDE DEF o
    <3>6. operators[o].shares - shares \in Nat
      BY <1>12, <3>2, <3>3
    <3> QED
      BY <1>1, <3>1, <3>4, <3>5, <3>6, OperatorUpdate
  <2> QED
    BY <2>1, <2>2
<1>23. /\ pool' \in Pool
       /\ pool'.total_user_shares = pool.total_user_shares - shares
       /\ pool'.total_user_aust = pool.total_user_aust - aust
       /\ pool'.total_sponsor_lottery_deposits = pool.total_sponsor_lottery_deposits
  <2>1. pool \in Pool
    BY <1>1 DEF TypeOK
  <2>2. pool.total_user_shares - shares \in Nat
    BY <1>3, <1>5, <1>12 DEF MoneyTyped
  <2>3. pool.total_user_aust - aust \in Nat
    BY <1>3, <1>13 DEF MoneyTyped
  <2>4. (IF named THEN pool.total_operator_shares - shares ELSE pool.total_operator_shares)
          \in Nat
    <3>1. named => shares <= pool.total_operator_shares
      BY <1>6 DEF OperatorCanWithdraw
    <3> HIDE DEF named
    <3> QED
      BY <1>3, <1>12, <3>1 DEF MoneyTyped
  <2> HIDE DEF named
  <2> QED
    BY <1>9, <2>1, <2>2, <2>3, <2>4, Zenon DEF Pool
<1>24. /\ bank' \in [ust : Nat, aust : Nat]
       /\ bank'.aust = bank.aust - aust
  <2>1. bank.ust + returned - payment \in Nat
    BY <1>3, <1>6, <1>15, <1>17 DEF MoneyTyped
  <2>2. bank.aust - aust \in Nat
    BY <1>2, <1>3, <1>13 DEF MoneyTyped, AustSolvency
  <2>3. bank \in [ust : Nat, aust : Nat]
    BY <1>1 DEF TypeOK
  <2> QED
    BY <1>11, <2>1, <2>2, <2>3, Zenon
<1>25. TypeOK'
  BY <1>1, <1>4, <1>19, <1>20, <1>21, <1>22, <1>23, <1>24 DEF TypeOK
<1>26. FractionsValid'
  BY <1>1, <1>4 DEF FractionsValid
<1>27. IndexesBehind'
  BY <1>1, <1>4, <1>19, <1>22 DEF IndexesBehind
<1>28. ScheduleSound' /\ LotteryLifecycle'
  BY <1>1, <1>2, <1>4, <1>19, DrawFrame
<1>29. AustSolvency'
  <2>1. bank'.aust - pool'.total_user_aust = bank.aust - pool.total_user_aust
    BY <1>3, <1>13, <1>23, <1>24 DEF MoneyTyped
  <2>2. pool'.total_user_aust <= bank'.aust
    BY <1>2, <1>3, <1>13, <1>23, <1>24 DEF MoneyTyped, AustSolvency
  <2> QED
    BY <1>2, <1>4, <1>23, <2>1, <2>2 DEF AustSolvency
<1>30. PoolNonDegenerate'
  <2>1. pool.total_user_aust # 0
    BY <1>2, <1>5 DEF PoolNonDegenerate
  <2>2. CASE shares = pool.total_user_shares
    BY <1>3, <1>13, <1>23, <2>2 DEF MoneyTyped, PoolNonDegenerate
  <2>3. CASE shares # pool.total_user_shares
    <3>1. shares < pool.total_user_shares
      BY <1>3, <1>5, <1>12, <2>3 DEF MoneyTyped
    <3>2. aust < pool.total_user_aust
      BY <1>13, <2>1, <3>1
    <3>3. pool'.total_user_shares # 0
      BY <1>3, <1>12, <1>23, <3>1 DEF MoneyTyped
    <3>4. pool'.total_user_aust # 0
      BY <1>3, <1>13, <1>23, <3>2 DEF MoneyTyped
    <3> QED
      BY <3>3, <3>4 DEF PoolNonDegenerate
  <2> QED
    BY <2>2, <2>3
<1> QED
  BY <1>25, <1>26, <1>27, <1>28, <1>29, <1>30 DEF IInv

LEMMA ClaimUnbondedStep ==
    ASSUME IInv, NEW u \in Users, execute_claim_unbonded(u)
    PROVE  IInv'
<1> DEFINE to_send == MatureAmount(u)
           paid    == Charge(deduct_tax(to_send))
<1>1. TypeOK /\ FractionsValid /\ IndexesBehind /\ ScheduleSound
  BY DEF IInv
<1>2. LotteryLifecycle /\ AustSolvency /\ PoolNonDegenerate
  BY DEF IInv
<1>3. MoneyTyped
  BY <1>1, FieldTypes
<1>4. UNCHANGED <<config, state, pool, checkpoint, tickets, sponsors, operators,
                  lotteries, snapshots, prizes, block, rate, paid_glow, purse>>
  BY Zenon DEF execute_claim_unbonded
<1>5. to_send \in 1..(bank.ust - ReservedForPrizes) /\ CanPay(bank.ust, deduct_tax(to_send))
  BY Zenon DEF execute_claim_unbonded
<1>6. depositors' = [depositors EXCEPT ![u].unbonding_info = @ \ MatureClaims(u)]
  BY Zenon DEF execute_claim_unbonded
<1>7. bank' = [bank EXCEPT !.ust = @ - paid]
  BY Zenon DEF execute_claim_unbonded
<1> HIDE DEF to_send
<1>8. to_send \in Nat
  BY <1>5
<1>9. paid \in Nat /\ paid <= bank.ust
  BY <1>5, <1>8, TaxDeductionCoversTransfer DEF CanPay
<1> HIDE DEF paid
<1>10. bank' \in [ust : Nat, aust : Nat] /\ bank'.aust = bank.aust
  <2>1. bank.ust - paid \in Nat
    BY <1>3, <1>9 DEF MoneyTyped
  <2>2. bank \in [ust : Nat, aust : Nat]
    BY <1>1 DEF TypeOK
  <2> QED
    BY <1>7, <2>1, <2>2, Zenon
<1>11. depositors' \in [Users -> DepositorInfo]
  <2> DEFINE info == [depositors[u] EXCEPT
                        !.unbonding_info = depositors[u].unbonding_info \ MatureClaims(u)]
  <2>1. depositors[u] \in DepositorInfo /\ depositors \in [Users -> DepositorInfo]
    BY <1>1, DepositorFields DEF TypeOK
  <2>2. depositors[u].unbonding_info \ MatureClaims(u) \in SUBSET Claim
    BY <1>1, DepositorFields
  <2>3. depositors' = [depositors EXCEPT ![u] = info]
    BY <1>6, <2>1, Zenon
  <2>4. info \in DepositorInfo
    BY <2>1, <2>2, Zenon DEF DepositorInfo
  <2> QED
    BY <2>1, <2>3, <2>4, Zenon
<1>12. TypeOK'
  BY <1>1, <1>4, <1>10, <1>11 DEF TypeOK
<1>13. FractionsValid' /\ IndexesBehind'
  BY <1>1, <1>4 DEF FractionsValid, IndexesBehind
<1>14. ScheduleSound' /\ LotteryLifecycle'
  BY <1>1, <1>2, <1>4, DrawFrame
<1>15. AustSolvency' /\ PoolNonDegenerate'
  BY <1>2, <1>4, <1>10, MoneyFrame
<1> QED
  BY <1>12, <1>13, <1>14, <1>15 DEF IInv

-----------------------------------------------------------------------------
(* Sponsors.                                                               *)

\* Setting the deposit of a sponsor whose rewards are up to date.
LEMMA SponsorUpdate ==
    ASSUME TypeOK, IndexesBehind, NEW s \in Users, NEW deposited \in Nat, NEW spons,
           spons = [sponsors EXCEPT ![s] = SponsorWithDeposit(s, deposited)]
    PROVE  /\ spons \in [Users -> SponsorInfo]
           /\ \A p \in Users : spons[p].reward_index
                                 <= UpdatedSponsorIndex.global_reward_index
<1>1. sponsors[s].reward_index <= UpdatedSponsorIndex.global_reward_index
  BY IndexesStayBehind
<1> DEFINE info == SponsorWithDeposit(s, deposited)
<1>2. /\ info \in SponsorInfo
      /\ info.reward_index = UpdatedSponsorIndex.global_reward_index
  <2>1. /\ RewardedSponsor(UpdatedSponsorIndex, s) \in SponsorInfo
        /\ RewardedSponsor(UpdatedSponsorIndex, s).reward_index
             = UpdatedSponsorIndex.global_reward_index
    BY <1>1, UpdatedIndexTypes, RewardedSponsorType
  <2> QED
    BY <2>1, Zenon DEF SponsorInfo, SponsorWithDeposit
<1> HIDE DEF info
<1>3. spons = [sponsors EXCEPT ![s] = info]
  BY DEF info
<1>4. sponsors \in [Users -> SponsorInfo]
  BY DEF TypeOK
<1>5. spons \in [Users -> SponsorInfo]
  BY <1>2, <1>3, <1>4
<1>6. ASSUME NEW p \in Users
      PROVE  spons[p].reward_index <= UpdatedSponsorIndex.global_reward_index
  <2>1. UpdatedSponsorIndex.global_reward_index \in Nat
    BY UpdatedIndexTypes DEF RewardEmissionsIndex
  <2>2. CASE p = s
    BY <1>2, <1>3, <1>4, <2>1, <2>2
  <2>3. CASE p # s
    <3>1. spons[p] = sponsors[p]
      BY <1>3, <1>4, <2>3
    <3> QED
      BY <3>1, IndexesStayBehind
  <2> QED
    BY <2>2, <2>3
<1> QED
  BY <1>5, <1>6

\* A message that updates the sponsors' index and nothing else that the
\* invariants about draws and rewards are about.
LEMMA SponsorIndexUpdate ==
    ASSUME TypeOK, NEW st,
           st = [state EXCEPT !.sponsor_reward_emission_index = UpdatedSponsorIndex]
    PROVE  /\ st \in State
           /\ st.operator_reward_emission_index = state.operator_reward_emission_index
           /\ st.sponsor_reward_emission_index = UpdatedSponsorIndex
           /\ st.current_lottery = state.current_lottery
           /\ st.next_lottery_time = state.next_lottery_time
           /\ st.next_lottery_exec_time = state.next_lottery_exec_time
           /\ st.last_lottery_execution_aust_exchange_rate
                = state.last_lottery_execution_aust_exchange_rate
<1>1. state \in State /\ UpdatedSponsorIndex \in RewardEmissionsIndex
  BY UpdatedIndexTypes, Zenon DEF TypeOK
<1> QED
  BY <1>1, Zenon DEF State

LEMMA SponsorDepositStep ==
    ASSUME IInv, NEW u \in Users, NEW amount, SponsorDeposit(u, amount)
    PROVE  IInv'
<1> DEFINE net         == deduct_tax(amount)
           minted_aust == AnchorMints(net)
           value       == DecMul(minted_aust, rate)
<1>1. TypeOK /\ FractionsValid /\ IndexesBehind /\ ScheduleSound
  BY DEF IInv
<1>2. LotteryLifecycle /\ AustSolvency /\ PoolNonDegenerate
  BY DEF IInv
<1>3. MoneyTyped
  BY <1>1, FieldTypes
<1>4. UNCHANGED <<config, depositors, checkpoint, tickets, operators, lotteries,
                  snapshots, prizes, block, rate, paid_glow>>
  BY Zenon DEF SponsorDeposit
<1>5. amount \in 1..purse /\ purse' = purse - amount
  BY Zenon DEF SponsorDeposit
<1>6. state' = [state EXCEPT !.sponsor_reward_emission_index = UpdatedSponsorIndex]
  BY Zenon DEF SponsorDeposit
<1>7. sponsors' = [sponsors EXCEPT ![u] =
                     SponsorWithDeposit(u, DepositAfterSponsoring(u, value))]
  BY Zenon DEF SponsorDeposit
<1>8. pool' = [pool EXCEPT !.total_sponsor_lottery_deposits = @ + value]
  BY Zenon DEF SponsorDeposit
<1>9. bank' = [bank EXCEPT !.ust = @ + amount - Charge(net), !.aust = @ + minted_aust]
  BY Zenon DEF SponsorDeposit
<1>10. amount \in Nat /\ purse' \in Nat
  BY <1>3, <1>5 DEF MoneyTyped
<1>11. net \in Nat /\ Charge(net) \in Nat /\ Charge(net) <= amount
  BY <1>10, DeductTaxBounds, TaxDeductionCoversTransfer
<1>12. minted_aust \in Nat
  BY <1>3, <1>11, DecDivBounds DEF MoneyTyped, AnchorMints
<1> HIDE DEF net, minted_aust
<1>13. value \in Nat /\ value * One <= minted_aust * rate
  BY <1>3, <1>12, DecMulBounds DEF MoneyTyped
<1> HIDE DEF value
<1>14. /\ state' \in State
       /\ state'.operator_reward_emission_index = state.operator_reward_emission_index
       /\ state'.sponsor_reward_emission_index = UpdatedSponsorIndex
       /\ state'.current_lottery = state.current_lottery
       /\ state'.next_lottery_time = state.next_lottery_time
       /\ state'.next_lottery_exec_time = state.next_lottery_exec_time
       /\ state'.last_lottery_execution_aust_exchange_rate
            = state.last_lottery_execution_aust_exchange_rate
  BY <1>1, <1>6, SponsorIndexUpdate, Zenon
<1>15. /\ sponsors' \in [Users -> SponsorInfo]
       /\ \A p \in Users : sponsors'[p].reward_index
                             <= UpdatedSponsorIndex.global_reward_index
  <2>1. sponsors[u].lottery_deposit \in Nat
    BY <1>1 DEF TypeOK, SponsorInfo
  <2>2. DepositAfterSponsoring(u, value) \in Nat
    BY <1>13, <2>1 DEF DepositAfterSponsoring
  <2> QED
    BY <1>1, <1>7, <2>2, SponsorUpdate
<1>16. /\ pool' \in Pool
       /\ pool'.total_user_shares = pool.total_user_shares
       /\ pool'.total_user_aust = pool.total_user_aust
       /\ pool'.total_sponsor_lottery_deposits
            = pool.total_sponsor_lottery_deposits + value
  <2>1. pool.total_sponsor_lottery_deposits + value \in Nat
    BY <1>3, <1>13 DEF MoneyTyped
  <2>2. pool \in Pool
    BY <1>1 DEF TypeOK
  <2> QED
    BY <1>8, <2>1, <2>2, Zenon DEF Pool
<1>17. /\ bank' \in [ust : Nat, aust : Nat]
       /\ bank'.aust = bank.aust + minted_aust
  <2>1. bank.ust + amount - Charge(net) \in Nat /\ bank.aust + minted_aust \in Nat
    BY <1>3, <1>10, <1>11, <1>12 DEF MoneyTyped
  <2>2. bank \in [ust : Nat, aust : Nat]
    BY <1>1 DEF TypeOK
  <2> QED
    BY <1>9, <2>1, <2>2, Zenon
<1>18. TypeOK'
  BY <1>1, <1>4, <1>10, <1>14, <1>15, <1>16, <1>17 DEF TypeOK
<1>19. FractionsValid'
  BY <1>1, <1>4 DEF FractionsValid
<1>20. IndexesBehind'
  BY <1>1, <1>4, <1>14, <1>15 DEF IndexesBehind
<1>21. ScheduleSound' /\ LotteryLifecycle'
  BY <1>1, <1>2, <1>4, <1>14, DrawFrame
<1>22. AustSolvency'
  <2> DEFINE deposits == pool.total_sponsor_lottery_deposits
             free     == bank.aust - pool.total_user_aust
  <2>1. deposits \in Nat /\ free \in Nat /\ deposits * One <= free * rate
    BY <1>2, <1>3 DEF AustSolvency, MoneyTyped
  <2>2. bank'.aust - pool'.total_user_aust = free + minted_aust
    BY <1>3, <1>12, <1>16, <1>17 DEF MoneyTyped
  <2>3. pool'.total_user_aust <= bank'.aust
    BY <1>2, <1>3, <1>12, <1>16, <1>17 DEF MoneyTyped, AustSolvency
  <2>4. pool'.total_sponsor_lottery_deposits = deposits + value
    BY <1>16
  <2> HIDE DEF deposits, free
  <2>5. (deposits + value) * One = deposits * One + value * One
    BY <1>13, <2>1, OneAssumption
  <2>6. (free + minted_aust) * rate = free * rate + minted_aust * rate
    BY <1>3, <1>12, <2>1 DEF MoneyTyped
  <2>7. /\ deposits * One \in Nat /\ value * One \in Nat
        /\ free * rate \in Nat /\ minted_aust * rate \in Nat
    BY <1>3, <1>12, <1>13, <2>1, OneAssumption, MulNat DEF MoneyTyped
  <2>8. (deposits + value) * One <= (free + minted_aust) * rate
    BY <1>13, <2>1, <2>5, <2>6, <2>7
  <2> QED
    BY <1>4, <2>2, <2>3, <2>4, <2>8 DEF AustSolvency
<1>23. PoolNonDegenerate'
  BY <1>2, <1>16 DEF PoolNonDegenerate
<1> QED
  BY <1>18, <1>19, <1>20, <1>21, <1>22, <1>23 DEF IInv

LEMMA DistributeType ==
    ASSUME NEW buckets \in [Buckets -> Nat], NEW amount \in Nat,
           NEW d \in [Buckets -> Nat]
    PROVE  Distribute(buckets, amount, d) \in [Buckets -> Nat]
<1>1. ASSUME NEW i \in Buckets PROVE buckets[i] + DecMul(amount, d[i]) \in Nat
  <2>1. DecMul(amount, d[i]) \in Nat
    BY DecMulBounds
  <2> QED
    BY <2>1
<1> QED
  BY <1>1 DEF Distribute

LEMMA SponsorAwardStep ==
    ASSUME IInv, NEW u \in Users, NEW amount, NEW d \in [Buckets -> Nat],
           SponsorAward(u, amount, d)
    PROVE  IInv'
<1>1. TypeOK /\ FractionsValid /\ IndexesBehind /\ ScheduleSound
  BY DEF IInv
<1>2. LotteryLifecycle /\ AustSolvency /\ PoolNonDegenerate
  BY DEF IInv
<1>3. MoneyTyped
  BY <1>1, FieldTypes
<1>4. UNCHANGED <<config, pool, depositors, checkpoint, tickets, sponsors, operators,
                  lotteries, snapshots, prizes, block, rate, paid_glow>>
  BY Zenon DEF SponsorAward
<1>5. amount \in 1..purse /\ purse' = purse - amount
  BY Zenon DEF SponsorAward
<1>6. state' = [state EXCEPT !.sponsor_reward_emission_index = UpdatedSponsorIndex,
                             !.prize_buckets = Distribute(@, amount, d)]
  BY Zenon DEF SponsorAward
<1>7. bank' = [bank EXCEPT !.ust = @ + amount]
  BY Zenon DEF SponsorAward
<1>8. amount \in Nat /\ purse' \in Nat
  BY <1>3, <1>5 DEF MoneyTyped
<1>9. /\ state' \in State
      /\ state'.operator_reward_emission_index = state.operator_reward_emission_index
      /\ state'.sponsor_reward_emission_index = UpdatedSponsorIndex
      /\ state'.current_lottery = state.current_lottery
      /\ state'.next_lottery_time = state.next_lottery_time
      /\ state'.next_lottery_exec_time = state.next_lottery_exec_time
      /\ state'.last_lottery_execution_aust_exchange_rate
           = state.last_lottery_execution_aust_exchange_rate
  <2>1. state \in State /\ UpdatedSponsorIndex \in RewardEmissionsIndex
    BY <1>1, UpdatedIndexTypes DEF TypeOK
  <2>2. state.prize_buckets \in [Buckets -> Nat]
    BY <2>1 DEF State
  <2>3. Distribute(state.prize_buckets, amount, d) \in [Buckets -> Nat]
    BY <1>8, <2>2, DistributeType
  <2> QED
    BY <1>6, <2>1, <2>3, Zenon DEF State
<1>10. bank' \in [ust : Nat, aust : Nat] /\ bank'.aust = bank.aust
  <2>1. bank.ust + amount \in Nat
    BY <1>3, <1>8 DEF MoneyTyped
  <2>2. bank \in [ust : Nat, aust : Nat]
    BY <1>1 DEF TypeOK
  <2> QED
    BY <1>7, <2>1, <2>2, Zenon
<1>11. TypeOK'
  BY <1>1, <1>4, <1>8, <1>9, <1>10 DEF TypeOK
<1>12. FractionsValid'
  BY <1>1, <1>4 DEF FractionsValid
<1>13. IndexesBehind'
  <2>1. \A p \in Users : sponsors'[p].reward_index
                           <= state'.sponsor_reward_emission_index.global_reward_index
    BY <1>1, <1>4, <1>9, IndexesStayBehind
  <2> QED
    BY <1>1, <1>4, <1>9, <2>1 DEF IndexesBehind
<1>14. ScheduleSound' /\ LotteryLifecycle'
  BY <1>1, <1>2, <1>4, <1>9, DrawFrame
<1>15. AustSolvency' /\ PoolNonDegenerate'
  BY <1>2, <1>4, <1>10, MoneyFrame
<1> QED
  BY <1>11, <1>12, <1>13, <1>14, <1>15 DEF IInv

LEMMA SponsorStep ==
    ASSUME IInv, NEW u \in Users, NEW amount, NEW award \in BOOLEAN,
           execute_sponsor(u, amount, award, AwardDistributions)
    PROVE  IInv'
<1>1. CASE SponsorDeposit(u, amount)
  BY <1>1, SponsorDepositStep
<1>2. ASSUME NEW d \in AwardDistributions \cup {config.prize_distribution},
             SponsorAward(u, amount, d)
      PROVE  IInv'
  <2>1. d \in [Buckets -> Nat]
    BY InputAssumption DEF IInv, TypeOK, Config
  <2> QED
    BY <1>2, <2>1, SponsorAwardStep
<1> QED
  BY <1>1, <1>2, Zenon DEF execute_sponsor

LEMMA SponsorWithdrawStep ==
    ASSUME IInv, NEW u \in Users, execute_sponsor_withdraw(u)
    PROVE  IInv'
<1> DEFINE lottery_deposit == sponsors[u].lottery_deposit
           aust_to_redeem  == DecDiv(lottery_deposit, rate)
           received        == AnchorReturns(aust_to_redeem)
           paid            == Charge(deduct_tax(received))
<1>1. TypeOK /\ FractionsValid /\ IndexesBehind /\ ScheduleSound
  BY DEF IInv
<1>2. LotteryLifecycle /\ AustSolvency /\ PoolNonDegenerate
  BY DEF IInv
<1>3. MoneyTyped
  BY <1>1, FieldTypes
<1>4. UNCHANGED <<config, depositors, checkpoint, tickets, operators, lotteries,
                  snapshots, prizes, block, rate, paid_glow, purse>>
  BY Zenon DEF execute_sponsor_withdraw
<1>5. /\ lottery_deposit <= pool.total_sponsor_lottery_deposits
      /\ aust_to_redeem <= bank.aust
      /\ CanPay(bank.ust + received, deduct_tax(received))
  BY Zenon DEF execute_sponsor_withdraw
<1>6. state' = [state EXCEPT !.sponsor_reward_emission_index = UpdatedSponsorIndex]
  BY Zenon DEF execute_sponsor_withdraw
<1>7. sponsors' = [sponsors EXCEPT ![u] = SponsorWithDeposit(u, 0)]
  BY Zenon DEF execute_sponsor_withdraw
<1>8. pool' = [pool EXCEPT !.total_sponsor_lottery_deposits = @ - lottery_deposit]
  BY Zenon DEF execute_sponsor_withdraw
<1>9. bank' = [bank EXCEPT !.ust = @ + received - paid, !.aust = @ - aust_to_redeem]
  BY Zenon DEF execute_sponsor_withdraw
<1>10. lottery_deposit \in Nat
  BY <1>1 DEF TypeOK, SponsorInfo
<1>11. aust_to_redeem \in Nat /\ aust_to_redeem * rate <= lottery_deposit * One
  BY <1>3, <1>10, DecDivBounds DEF MoneyTyped
<1> HIDE DEF lottery_deposit, aust_to_redeem
<1>12. received \in Nat
  BY <1>1, <1>11, AnchorReturnsType
<1>13. paid \in Nat /\ paid <= received
  BY <1>12, TaxDeductionCoversTransfer
<1> HIDE DEF received, paid
<1>14. /\ state' \in State
       /\ state'.operator_reward_emission_index = state.operator_reward_emission_index
       /\ state'.sponsor_reward_emission_index = UpdatedSponsorIndex
       /\ state'.current_lottery = state.current_lottery
       /\ state'.next_lottery_time = state.next_lottery_time
       /\ state'.next_lottery_exec_time = state.next_lottery_exec_time
       /\ state'.last_lottery_execution_aust_exchange_rate
            = state.last_lottery_execution_aust_exchange_rate
  BY <1>1, <1>6, SponsorIndexUpdate, Zenon
<1>15. /\ sponsors' \in [Users -> SponsorInfo]
       /\ \A p \in Users : sponsors'[p].reward_index
                             <= UpdatedSponsorIndex.global_reward_index
  BY <1>1, <1>7, SponsorUpdate
<1>16. /\ pool' \in Pool
       /\ pool'.total_user_shares = pool.total_user_shares
       /\ pool'.total_user_aust = pool.total_user_aust
       /\ pool'.total_sponsor_lottery_deposits
            = pool.total_sponsor_lottery_deposits - lottery_deposit
  <2>1. pool.total_sponsor_lottery_deposits - lottery_deposit \in Nat
    BY <1>3, <1>5, <1>10 DEF MoneyTyped
  <2>2. pool \in Pool
    BY <1>1 DEF TypeOK
  <2> QED
    BY <1>8, <2>1, <2>2, Zenon DEF Pool
<1>17. /\ bank' \in [ust : Nat, aust : Nat]
       /\ bank'.aust = bank.aust - aust_to_redeem
  <2>1. bank.ust + received - paid \in Nat /\ bank.aust - aust_to_redeem \in Nat
    BY <1>3, <1>5, <1>11, <1>12, <1>13 DEF MoneyTyped
  <2>2. bank \in [ust : Nat, aust : Nat]
    BY <1>1 DEF TypeOK
  <2> QED
    BY <1>9, <2>1, <2>2, Zenon
<1>18. TypeOK'
  BY <1>1, <1>4, <1>14, <1>15, <1>16, <1>17 DEF TypeOK
<1>19. FractionsValid'
  BY <1>1, <1>4 DEF FractionsValid
<1>20. IndexesBehind'
  BY <1>1, <1>4, <1>14, <1>15 DEF IndexesBehind
<1>21. ScheduleSound' /\ LotteryLifecycle'
  BY <1>1, <1>2, <1>4, <1>14, DrawFrame
<1>22. AustSolvency'
  <2> DEFINE deposits == pool.total_sponsor_lottery_deposits
             free     == bank.aust - pool.total_user_aust
  <2>1. deposits \in Nat /\ free \in Nat /\ deposits * One <= free * rate
    BY <1>2, <1>3 DEF AustSolvency, MoneyTyped
  <2>2. bank'.aust - pool'.total_user_aust = free - aust_to_redeem
    BY <1>3, <1>11, <1>16, <1>17 DEF MoneyTyped
  <2>3. pool'.total_sponsor_lottery_deposits = deposits - lottery_deposit
    BY <1>16
  <2>4. lottery_deposit <= deposits
    BY <1>5
  <2> HIDE DEF deposits, free
  <2>5. (deposits - lottery_deposit) * One = deposits * One - lottery_deposit * One
    BY <1>10, <2>1, OneAssumption
  <2>6. (free - aust_to_redeem) * rate = free * rate - aust_to_redeem * rate
    BY <1>3, <1>11, <2>1 DEF MoneyTyped
  <2>7. /\ deposits * One \in Nat /\ lottery_deposit * One \in Nat
        /\ free * rate \in Nat /\ aust_to_redeem * rate \in Nat
    BY <1>3, <1>10, <1>11, <2>1, OneAssumption, MulNat DEF MoneyTyped
  <2>8. (deposits - lottery_deposit) * One <= (free - aust_to_redeem) * rate
    BY <1>11, <2>1, <2>5, <2>6, <2>7
  <2>9. aust_to_redeem <= free
    <3>1. lottery_deposit * One <= deposits * One
      BY <1>10, <2>1, <2>4, OneAssumption, MulMono
    <3>2. aust_to_redeem * rate <= free * rate
      BY <1>11, <2>1, <2>7, <3>1
    <3> QED
      BY <1>3, <1>11, <2>1, <3>2, MulCancel DEF MoneyTyped
  <2>10. pool'.total_user_aust <= bank'.aust
    <3>1. pool'.total_user_aust \in Nat /\ bank'.aust \in Nat
      BY <1>16, <1>17 DEF Pool
    <3> QED
      BY <1>11, <2>1, <2>2, <2>9, <3>1
  <2> QED
    BY <1>4, <2>2, <2>3, <2>8, <2>10 DEF AustSolvency
<1>23. PoolNonDegenerate'
  BY <1>2, <1>16 DEF PoolNonDegenerate
<1> QED
  BY <1>18, <1>19, <1>20, <1>21, <1>22, <1>23 DEF IInv

-----------------------------------------------------------------------------
(* Rewards and epochs.                                                     *)

LEMMA UpdatedIndexesType ==
    ASSUME TypeOK
    PROVE  /\ UpdatedIndexes \in State
           /\ UpdatedIndexes.operator_reward_emission_index = UpdatedOperatorIndex
           /\ UpdatedIndexes.sponsor_reward_emission_index = UpdatedSponsorIndex
           /\ UpdatedIndexes.current_lottery = state.current_lottery
           /\ UpdatedIndexes.next_lottery_time = state.next_lottery_time
           /\ UpdatedIndexes.next_lottery_exec_time = state.next_lottery_exec_time
           /\ UpdatedIndexes.last_lottery_execution_aust_exchange_rate
                = state.last_lottery_execution_aust_exchange_rate
<1>1. /\ state \in State
      /\ UpdatedOperatorIndex \in RewardEmissionsIndex
      /\ UpdatedSponsorIndex \in RewardEmissionsIndex
  BY UpdatedIndexTypes DEF TypeOK
<1> QED
  BY <1>1, Zenon DEF State, UpdatedIndexes

LEMMA ClaimRewardsStep ==
    ASSUME IInv, NEW u \in Users, execute_claim_rewards(u)
    PROVE  IInv'
<1> DEFINE operator == RewardedOperator(UpdatedOperatorIndex, u)
           sponsor  == RewardedSponsor(UpdatedSponsorIndex, u)
           settled_operator == [operator EXCEPT !.pending_rewards = 0]
           settled_sponsor  == [sponsor EXCEPT !.pending_rewards = 0]
<1>1. TypeOK /\ FractionsValid /\ IndexesBehind /\ ScheduleSound
  BY DEF IInv
<1>2. LotteryLifecycle /\ AustSolvency /\ PoolNonDegenerate
  BY DEF IInv
<1>3. UNCHANGED <<config, pool, depositors, checkpoint, tickets, lotteries,
                  snapshots, prizes, block, rate, bank, purse>>
  BY Zenon DEF execute_claim_rewards
<1>4. state' = UpdatedIndexes /\ paid_glow' = paid_glow + sponsor.pending_rewards \div One
  BY Zenon DEF execute_claim_rewards
<1>5. /\ operators' = [operators EXCEPT ![u] = settled_operator]
      /\ sponsors' = [sponsors EXCEPT ![u] = settled_sponsor]
  BY Zenon DEF execute_claim_rewards
<1>6. /\ operator \in OperatorInfo
      /\ operator.reward_index = UpdatedOperatorIndex.global_reward_index
      /\ sponsor \in SponsorInfo
      /\ sponsor.reward_index = UpdatedSponsorIndex.global_reward_index
  <2>1. /\ operators[u].reward_index <= UpdatedOperatorIndex.global_reward_index
        /\ sponsors[u].reward_index <= UpdatedSponsorIndex.global_reward_index
    BY <1>1, IndexesStayBehind
  <2>2. /\ UpdatedOperatorIndex \in RewardEmissionsIndex
        /\ UpdatedSponsorIndex \in RewardEmissionsIndex
    BY <1>1, UpdatedIndexTypes
  <2> QED
    BY <1>1, <2>1, <2>2, RewardedOperatorType, RewardedSponsorType
<1> HIDE DEF operator, sponsor
<1>7. paid_glow' \in Nat
  <2>1. sponsor.pending_rewards \in Nat
    BY <1>6 DEF SponsorInfo
  <2>2. sponsor.pending_rewards \div One \in Nat
    BY <2>1, OneAssumption, DivBounds
  <2>3. paid_glow \in Nat
    BY <1>1 DEF TypeOK
  <2> QED
    BY <1>4, <2>2, <2>3
<1>8. /\ settled_operator \in OperatorInfo
      /\ settled_operator.reward_index = UpdatedOperatorIndex.global_reward_index
      /\ settled_sponsor \in SponsorInfo
      /\ settled_sponsor.reward_index = UpdatedSponsorIndex.global_reward_index
  <2>1. 0 \in Nat
    OBVIOUS
  <2> QED
    BY <1>6, <2>1, Zenon DEF OperatorInfo, SponsorInfo
<1> HIDE DEF settled_operator, settled_sponsor
<1>9. operators \in [Users -> OperatorInfo] /\ sponsors \in [Users -> SponsorInfo]
  BY <1>1 DEF TypeOK
<1>10. operators' \in [Users -> OperatorInfo] /\ sponsors' \in [Users -> SponsorInfo]
  BY <1>5, <1>8, <1>9
<1>11. /\ state' \in State
       /\ state'.operator_reward_emission_index = UpdatedOperatorIndex
       /\ state'.sponsor_reward_emission_index = UpdatedSponsorIndex
       /\ state'.current_lottery = state.current_lottery
       /\ state'.next_lottery_time = state.next_lottery_time
       /\ state'.next_lottery_exec_time = state.next_lottery_exec_time
       /\ state'.last_lottery_execution_aust_exchange_rate
            = state.last_lottery_execution_aust_exchange_rate
  BY <1>1, <1>4, UpdatedIndexesType
<1>12. TypeOK'
  BY <1>1, <1>3, <1>7, <1>10, <1>11 DEF TypeOK
<1>13. FractionsValid'
  BY <1>1, <1>3 DEF FractionsValid
<1>14. IndexesBehind'
  <2>1. ASSUME NEW p \in Users
        PROVE  /\ operators'[p].reward_index <= UpdatedOperatorIndex.global_reward_index
               /\ sponsors'[p].reward_index <= UpdatedSponsorIndex.global_reward_index
    <3>1. /\ UpdatedOperatorIndex.global_reward_index \in Nat
          /\ UpdatedSponsorIndex.global_reward_index \in Nat
      BY <1>1, UpdatedIndexTypes DEF RewardEmissionsIndex
    <3>2. CASE p = u
      BY <1>5, <1>8, <1>9, <3>1, <3>2
    <3>3. CASE p # u
      <4>1. operators'[p] = operators[p] /\ sponsors'[p] = sponsors[p]
        BY <1>5, <1>9, <3>3
      <4> QED
        BY <1>1, <4>1, IndexesStayBehind
    <3> QED
      BY <3>2, <3>3
  <2> QED
    BY <1>11, <2>1 DEF IndexesBehind
<1>15. ScheduleSound' /\ LotteryLifecycle'
  BY <1>1, <1>2, <1>3, <1>11, DrawFrame
<1>16. AustSolvency' /\ PoolNonDegenerate'
  BY <1>2, <1>3, MoneyFrame
<1> QED
  BY <1>12, <1>13, <1>14, <1>15, <1>16 DEF IInv

LEMMA EpochOpsStep ==
    ASSUME IInv, execute_epoch_ops
    PROVE  IInv'
<1> DEFINE payment == IF state.total_reserve = 0 THEN 0
                      ELSE Charge(deduct_tax(state.total_reserve))
<1>1. TypeOK /\ FractionsValid /\ IndexesBehind /\ ScheduleSound
  BY DEF IInv
<1>2. LotteryLifecycle /\ AustSolvency /\ PoolNonDegenerate
  BY DEF IInv
<1>3. MoneyTyped /\ ScheduleTyped /\ ConfigTyped
  BY <1>1, FieldTypes
<1>4. UNCHANGED <<config, pool, depositors, checkpoint, tickets, sponsors, operators,
                  lotteries, snapshots, prizes, block, rate, paid_glow, purse>>
  BY Zenon DEF execute_epoch_ops
<1>5. payment <= bank.ust
  BY Zenon DEF execute_epoch_ops
<1>6. state' = [UpdatedIndexes EXCEPT
                  !.next_epoch = block.time + config.epoch_interval,
                  !.total_reserve = 0]
  BY Zenon DEF execute_epoch_ops
<1>7. bank' = [bank EXCEPT !.ust = @ - payment]
  BY Zenon DEF execute_epoch_ops
<1>8. payment \in Nat
  <2>1. Charge(deduct_tax(state.total_reserve)) \in Nat
    BY <1>3, TaxDeductionCoversTransfer DEF ScheduleTyped
  <2> QED
    BY <2>1
<1> HIDE DEF payment
<1>9. /\ state' \in State
      /\ state'.operator_reward_emission_index = UpdatedOperatorIndex
      /\ state'.sponsor_reward_emission_index = UpdatedSponsorIndex
      /\ state'.current_lottery = state.current_lottery
      /\ state'.next_lottery_time = state.next_lottery_time
      /\ state'.next_lottery_exec_time = state.next_lottery_exec_time
      /\ state'.last_lottery_execution_aust_exchange_rate
           = state.last_lottery_execution_aust_exchange_rate
  <2>1. block.time + config.epoch_interval \in Nat /\ 0 \in Nat
    BY <1>3 DEF ScheduleTyped, ConfigTyped
  <2> QED
    BY <1>1, <1>6, <2>1, UpdatedIndexesType, Zenon DEF State
<1>10. bank' \in [ust : Nat, aust : Nat] /\ bank'.aust = bank.aust
  <2>1. bank.ust - payment \in Nat
    BY <1>3, <1>5, <1>8 DEF MoneyTyped
  <2>2. bank \in [ust : Nat, aust : Nat]
    BY <1>1 DEF TypeOK
  <2> QED
    BY <1>7, <2>1, <2>2, Zenon
<1>11. TypeOK'
  BY <1>1, <1>4, <1>9, <1>10 DEF TypeOK
<1>12. FractionsValid'
  BY <1>1, <1>4 DEF FractionsValid
<1>13. IndexesBehind'
  BY <1>1, <1>4, <1>9, IndexesStayBehind DEF IndexesBehind
<1>14. ScheduleSound' /\ LotteryLifecycle'
  BY <1>1, <1>2, <1>4, <1>9, DrawFrame
<1>15. AustSolvency' /\ PoolNonDegenerate'
  BY <1>2, <1>4, <1>10, MoneyFrame
<1> QED
  BY <1>11, <1>12, <1>13, <1>14, <1>15 DEF IInv

-----------------------------------------------------------------------------
(* Tickets: the storage keys with the same first digits form an interval,  *)
(* and more equal digits make a smaller one.                               *)

\* A quotient is what DivBounds says of it.
LEMMA QuotientUnique ==
    ASSUME NEW a \in Nat, NEW b \in Nat \ {0}, NEW q \in Nat, q * b <= a, a < q * b + b
    PROVE  a \div b = q
<1> DEFINE r == a \div b
<1>1. r \in Nat /\ b * r <= a /\ a < b * r + b
  BY DivBounds
<1> HIDE DEF r
<1>2. b * r = r * b
  BY <1>1
<1>3. /\ (r + 1) * b = r * b + b /\ (q + 1) * b = q * b + b
      /\ q * b \in Nat /\ r * b \in Nat
  BY <1>1
<1>4. q <= r
  <2>1. CASE r + 1 <= q
    <3>1. (r + 1) * b <= q * b
      BY <1>1, <2>1, MulMono
    <3> QED
      BY <1>1, <1>2, <1>3, <3>1
  <2> QED
    BY <1>1, <2>1
<1>5. r <= q
  <2>1. CASE q + 1 <= r
    <3>1. (q + 1) * b <= r * b
      BY <1>1, <2>1, MulMono
    <3> QED
      BY <1>1, <1>2, <1>3, <3>1
  <2> QED
    BY <1>1, <2>1
<1> QED
  BY <1>1, <1>4, <1>5 DEF r

LEMMA PowerUnfolds ==
    ASSUME NEW n \in Nat
    PROVE  Power[n] = IF n = 0 THEN 1 ELSE Base * Power[n - 1]
<1>1. Base \in Nat
  BY TicketAssumption
<1>2. \E f : f = [k \in Nat |-> IF k = 0 THEN 1 ELSE Base * f[k - 1]]
  BY <1>1, PowersExist
<1>3. Power = [k \in Nat |-> IF k = 0 THEN 1 ELSE Base * Power[k - 1]]
  BY <1>2 DEF Power
<1> QED
  BY <1>3

LEMMA PowerType ==
    ASSUME NEW n \in Nat
    PROVE  Power[n] \in Nat \ {0}
<1> DEFINE Bad == {k \in Nat : Power[k] \notin Nat \ {0}}
<1>1. SUFFICES ASSUME Bad # {} PROVE FALSE
  OBVIOUS
<1>2. PICK k \in Bad : \A l \in Bad : k <= l
  <2>1. Bad \in SUBSET Nat
    OBVIOUS
  <2> HIDE DEF Bad
  <2> QED
    BY <1>1, <2>1, LeastNatural
<1>3. k \in Nat /\ k # 0
  <2>1. Power[0] = 1
    BY PowerUnfolds
  <2> QED
    BY <2>1
<1>4. k - 1 \in Nat /\ k - 1 \notin Bad
  BY <1>2, <1>3
<1> DEFINE p == Power[k - 1]
<1>5. p \in Nat \ {0}
  BY <1>4
<1>6. Power[k] = Base * p
  BY <1>3, PowerUnfolds
<1> HIDE DEF p
<1>7. Base * p \in Nat \ {0}
  BY <1>5, TicketAssumption
<1> QED
  BY <1>6, <1>7

\* A higher power is a multiple of a lower one.
LEMMA PowerMultiple ==
    ASSUME NEW n \in Nat, NEW k \in Nat, n <= k
    PROVE  \E c \in Nat \ {0} : Power[k] = c * Power[n]
<1> DEFINE Bad == {i \in Nat : n <= i /\ ~ \E c \in Nat \ {0} : Power[i] = c * Power[n]}
<1>1. SUFFICES ASSUME Bad # {} PROVE FALSE
  OBVIOUS
<1>2. PICK i \in Bad : \A l \in Bad : i <= l
  <2>1. Bad \in SUBSET Nat
    OBVIOUS
  <2> HIDE DEF Bad
  <2> QED
    BY <1>1, <2>1, LeastNatural
<1> DEFINE p == Power[n]
<1>3. p \in Nat \ {0}
  BY PowerType
<1>4. i # n
  <2>1. p = 1 * p
    BY <1>3
  <2> QED
    BY <2>1
<1>5. i - 1 \in Nat /\ n <= i - 1 /\ i # 0
  BY <1>4
<1>6. i - 1 \notin Bad
  BY <1>2, <1>5
<1>7. PICK c \in Nat \ {0} : Power[i - 1] = c * p
  BY <1>5, <1>6
<1>8. Power[i] = Base * (c * p)
  BY <1>5, <1>7, PowerUnfolds
<1> HIDE DEF p
<1>9. Base * (c * p) = (Base * c) * p
  BY <1>3, TicketAssumption
<1>10. Base * c \in Nat \ {0}
  BY TicketAssumption
<1> QED
  BY <1>8, <1>9, <1>10 DEF p

\* The number of tickets with given first m digits.
SizeOfPrefix(m) == Power[TicketLength - m]

LEMMA SizeType ==
    ASSUME NEW m \in Buckets
    PROVE  SizeOfPrefix(m) \in Nat \ {0}
<1>1. TicketLength - m \in Nat
  BY TicketAssumption DEF Buckets
<1> QED
  BY <1>1, PowerType DEF SizeOfPrefix

LEMMA PrefixBounds ==
    ASSUME NEW t \in Nat, NEW m \in Buckets
    PROVE  /\ FirstOfPrefix(t, m) \in Nat
           /\ FirstOfPrefix(t, m) <= t
           /\ t < FirstOfPrefix(t, m) + SizeOfPrefix(m)
<1> DEFINE p == SizeOfPrefix(m)
           q == t \div p
<1>1. p \in Nat \ {0}
  BY SizeType
<1>2. FirstOfPrefix(t, m) = q * p
  BY DEF FirstOfPrefix, SizeOfPrefix
<1> HIDE DEF p
<1>3. q \in Nat /\ p * q <= t /\ t < p * q + p
  BY <1>1, DivBounds
<1> HIDE DEF q
<1>4. q * p \in Nat /\ p * q = q * p
  BY <1>1, <1>3
<1> QED
  BY <1>2, <1>3, <1>4 DEF p

\* The tickets of a prefix are an interval.
LEMMA PrefixInterval ==
    ASSUME NEW s \in Nat, NEW t \in Nat, NEW m \in Buckets,
           FirstOfPrefix(s, m) <= t, t < FirstOfPrefix(s, m) + SizeOfPrefix(m)
    PROVE  FirstOfPrefix(t, m) = FirstOfPrefix(s, m)
<1> DEFINE p == SizeOfPrefix(m)
           q == s \div p
<1>1. p \in Nat \ {0}
  BY SizeType
<1>2. FirstOfPrefix(s, m) = q * p /\ FirstOfPrefix(t, m) = (t \div p) * p
  BY DEF FirstOfPrefix, SizeOfPrefix
<1>3. q * p <= t /\ t < q * p + p
  BY <1>2
<1> HIDE DEF p
<1>4. q \in Nat
  BY <1>1, DivBounds
<1> HIDE DEF q
<1>5. t \div p = q
  BY <1>1, <1>3, <1>4, QuotientUnique
<1> QED
  BY <1>2, <1>5

LEMMA MaxBoundIs ==
    ASSUME NEW s \in Nat, NEW m \in Buckets
    PROVE  \A t \in Nat : t <= calculate_max_bound(s, m)
                            <=> t < FirstOfPrefix(s, m) + SizeOfPrefix(m)
<1> DEFINE p == SizeOfPrefix(m)
           f == FirstOfPrefix(s, m)
<1>1. p \in Nat /\ f \in Nat
  BY SizeType, PrefixBounds
<1>2. calculate_max_bound(s, m) = f + p - 1
  BY DEF calculate_max_bound, SizeOfPrefix
<1> HIDE DEF p, f
<1>3. \A t \in Nat : t <= f + p - 1 <=> t < f + p
  BY <1>1
<1> QED
  BY <1>2, <1>3 DEF p, f

\* Whoever has the first k digits in common has the first m <= k.
LEMMA CoarserPrefix ==
    ASSUME NEW t \in Nat, NEW k \in Buckets, NEW m \in Buckets, m <= k
    PROVE  FirstOfPrefix(FirstOfPrefix(t, k), m) = FirstOfPrefix(t, m)
<1> DEFINE p == SizeOfPrefix(k)
           f == FirstOfPrefix(t, k)
           g == FirstOfPrefix(t, m)
           q == t \div p
           r == t \div SizeOfPrefix(m)
<1>1. p \in Nat \ {0} /\ SizeOfPrefix(m) \in Nat \ {0}
  BY SizeType
<1>2. /\ f \in Nat /\ f <= t
      /\ g \in Nat /\ g <= t /\ t < g + SizeOfPrefix(m)
  BY PrefixBounds
<1>3. PICK c \in Nat \ {0} : SizeOfPrefix(m) = c * p
  <2>1. TicketLength - k \in Nat /\ TicketLength - m \in Nat
        /\ TicketLength - k <= TicketLength - m
    BY TicketAssumption DEF Buckets
  <2> QED
    BY <2>1, PowerMultiple DEF SizeOfPrefix
<1>4. f = q * p /\ g = r * SizeOfPrefix(m)
  BY DEF FirstOfPrefix, SizeOfPrefix
<1>5. q \in Nat /\ r \in Nat /\ t < p * q + p
  BY <1>1, DivBounds
<1> HIDE DEF f, g, q, r
<1>6. g = (r * c) * p /\ r * c \in Nat
  <2> HIDE DEF p
  <2> QED
    BY <1>1, <1>3, <1>4, <1>5
<1>7. r * c <= q
  <2> DEFINE x == r * c
  <2>1. CASE q + 1 <= x
    <3> HIDE DEF p, x
    <3>1. x \in Nat
      BY <1>6 DEF x
    <3>2. (q + 1) * p <= x * p
      BY <1>1, <1>5, <2>1, <3>1, MulMono
    <3>3. (q + 1) * p = p * q + p
      BY <1>1, <1>5
    <3>4. x * p = g
      BY <1>6 DEF x
    <3>5. p * q + p \in Nat
      BY <1>1, <1>5
    <3> QED
      BY <1>2, <1>5, <3>2, <3>3, <3>4, <3>5
  <2> HIDE DEF x
  <2>2. x \in Nat
    BY <1>6 DEF x
  <2> QED
    BY <1>5, <2>1, <2>2 DEF x
<1>8. g <= f
  <2> HIDE DEF p
  <2> QED
    BY <1>1, <1>4, <1>5, <1>6, <1>7, MulMono
<1>9. f < g + SizeOfPrefix(m)
  BY <1>1, <1>2
<1>10. FirstOfPrefix(f, m) = g
  BY <1>2, <1>8, <1>9, PrefixInterval DEF g
<1> QED
  BY <1>10 DEF f, g

LEMMA TicketsAreNat == Tickets \subseteq Nat
<1>1. Power[TicketLength] \in Nat
  BY TicketAssumption, PowerType
<1> QED
  BY <1>1 DEF Tickets

\* No digits are always in common.
LEMMA EmptyPrefix ==
    ASSUME NEW t \in Tickets
    PROVE  FirstOfPrefix(t, 0) = 0
<1> DEFINE p == Power[TicketLength]
<1>1. p \in Nat \ {0} /\ t \in Nat /\ t < p
  BY TicketAssumption, PowerType DEF Tickets
<1>2. TicketLength - 0 = TicketLength
  BY TicketAssumption
<1>3. FirstOfPrefix(t, 0) = (t \div p) * p
  BY <1>2 DEF FirstOfPrefix
<1> HIDE DEF p
<1>4. t \div p = 0
  BY <1>1, QuotientUnique
<1> QED
  BY <1>1, <1>3, <1>4

\* count_seq_matches counts at least m digits exactly for the tickets with
\* the first m digits of the sequence.
LEMMA MatchesAtLeast ==
    ASSUME NEW a \in Tickets, NEW b \in Tickets, NEW m \in Buckets
    PROVE  /\ count_seq_matches(a, b) \in Buckets
           /\ count_seq_matches(a, b) >= m <=> FirstOfPrefix(b, m) = FirstOfPrefix(a, m)
<1> DEFINE S == {i \in Buckets : FirstOfPrefix(a, i) = FirstOfPrefix(b, i)}
           k == count_seq_matches(a, b)
<1>1. 0 \in S
  BY EmptyPrefix, TicketAssumption DEF Buckets
<1>2. S \in SUBSET (0..TicketLength) /\ TicketLength \in Nat
  BY TicketAssumption DEF Buckets
<1>3. \E i \in S : \A l \in S : i >= l
  <2> HIDE DEF S
  <2> QED
    BY <1>1, <1>2, GreatestNatural
<1>4. k = CHOOSE i \in S : \A l \in S : i >= l
  BY DEF count_seq_matches, Max
<1>5. k \in S /\ \A l \in S : k >= l
  BY <1>3, <1>4
<1>6. a \in Nat /\ b \in Nat
  BY TicketsAreNat
<1>7. k \in Buckets /\ FirstOfPrefix(a, k) = FirstOfPrefix(b, k)
  BY <1>5
<1>8. ASSUME FirstOfPrefix(b, m) = FirstOfPrefix(a, m) PROVE k >= m
  BY <1>5, <1>8
<1>9. ASSUME k >= m PROVE FirstOfPrefix(b, m) = FirstOfPrefix(a, m)
  <2> HIDE DEF k
  <2>1. m <= k
    BY <1>7, <1>9 DEF Buckets
  <2>2. /\ FirstOfPrefix(FirstOfPrefix(a, k), m) = FirstOfPrefix(a, m)
        /\ FirstOfPrefix(FirstOfPrefix(b, k), m) = FirstOfPrefix(b, m)
    BY <1>6, <1>7, <2>1, CoarserPrefix
  <2> QED
    BY <1>7, <2>2
<1> QED
  BY <1>7, <1>8, <1>9

\* The lowest tier with prizes is a tier.
LEMMA MinimumIsTier ==
    ASSUME NEW prize_distribution, HasWinningTier(prize_distribution)
    PROVE  get_minimum_matches_for_winning_ticket(prize_distribution) \in Buckets
<1> DEFINE S == {m \in Buckets : prize_distribution[m] # 0}
<1>1. S \in SUBSET Nat /\ S # {}
  BY TicketAssumption DEF HasWinningTier, Buckets
<1>2. \E i \in S : \A l \in S : i <= l
  <2> HIDE DEF S
  <2> QED
    BY <1>1, LeastNatural
<1>3. get_minimum_matches_for_winning_ticket(prize_distribution)
        = CHOOSE i \in S : \A l \in S : i <= l
  BY DEF get_minimum_matches_for_winning_ticket, Min
<1> QED
  BY <1>2, <1>3

-----------------------------------------------------------------------------
(* Rounded products, and the boost of a winner.                            *)

\* A number whose multiple is below a is below the quotient of a.
LEMMA DivLower ==
    ASSUME NEW a \in Nat, NEW b \in Nat \ {0}, NEW s \in Nat, s * b <= a
    PROVE  s <= a \div b
<1> DEFINE q == a \div b
<1>1. q \in Nat /\ a < b * q + b
  BY DivBounds
<1> HIDE DEF q
<1>2. ASSUME q + 1 <= s PROVE FALSE
  <2>1. q + 1 \in Nat
    BY <1>1
  <2>2. (q + 1) * b <= s * b
    BY <1>2, <2>1, MulMono
  <2>3. (q + 1) * b = b * q + b
    BY <1>1
  <2>4. b * q \in Nat /\ s * b \in Nat
    BY <1>1, MulNat
  <2> QED
    BY <1>1, <2>2, <2>3, <2>4
<1>3. s <= q
  BY <1>1, <1>2
<1> QED
  BY <1>3 DEF q

LEMMA DecMulMono ==
    ASSUME NEW a \in Nat, NEW b \in Nat, a <= b, NEW d \in Nat, NEW e \in Nat, d <= e
    PROVE  DecMul(a, d) <= DecMul(b, e)
<1>1. DecMul(a, d) \in Nat /\ DecMul(a, d) * One <= a * d
  BY DecMulBounds
<1>2. d * a <= e * a /\ a * d = d * a /\ a * e = e * a /\ a * e <= b * e
  BY MulMono
<1>3. a * d \in Nat /\ a * e \in Nat /\ b * e \in Nat /\ DecMul(a, d) * One \in Nat
  BY <1>1, MulNat, OneAssumption
<1> DEFINE s == DecMul(a, d)
           x == a * d
           y == a * e
           p == b * e
<1>4. s * One <= x /\ x <= y /\ y <= p
  BY <1>1, <1>2
<1>5. s \in Nat /\ p \in Nat /\ x \in Nat /\ y \in Nat /\ s * One \in Nat
  BY <1>1, <1>3
<1> HIDE DEF s, x, y, p
<1>6. s * One <= p
  BY <1>4, <1>5
<1>7. s <= p \div One
  BY <1>5, <1>6, OneAssumption, DivLower
<1> QED
  BY <1>7 DEF s, p, DecMul

\* The boost of a winner never exceeds the largest one.
LEMMA BoostBounds ==
    ASSUME NEW boost \in BoostConfig, ValidBoost(boost), NEW shares \in Nat, NEW total \in Nat,
           NEW voting \in Nat, NEW total_voting \in Nat,
           BoostDefined(boost, shares, total_voting)
    PROVE  /\ calculate_boost_multiplier(boost, shares, total, voting, total_voting) \in Nat
           /\ calculate_boost_multiplier(boost, shares, total, voting, total_voting)
                <= boost.max_multiplier
<1> DEFINE weighed  == DecMul(total_voting, boost.total_voting_power_weight)
           deposits == decimal_from_ratio_or_one(total, shares)
           votes    == from_ratio(voting, weighed)
           slope    == boost.max_multiplier - boost.base_multiplier
           gain     == IF total_voting > 0 /\ shares > 0
                       THEN DecMul(DecMul(deposits, votes), slope) ELSE 0
<1>1. /\ boost.max_multiplier \in Nat /\ boost.base_multiplier \in Nat
      /\ boost.total_voting_power_weight \in Nat
  BY DEF BoostConfig
<1>2. slope \in Nat
  BY <1>1 DEF ValidBoost
<1>3. weighed \in Nat
  BY <1>1, DecMulBounds
<1>4. gain \in Nat
  <2>1. CASE total_voting > 0 /\ shares > 0
    <3>1. deposits \in Nat
      <4>1. deposits = (total * One) \div shares
        BY <2>1 DEF decimal_from_ratio_or_one, from_ratio
      <4>2. total * One \in Nat /\ shares \in Nat \ {0}
        BY <2>1, OneAssumption, MulNat
      <4> QED
        BY <4>1, <4>2, DivBounds
    <3>2. votes \in Nat
      <4>1. weighed \in Nat \ {0}
        BY <1>3, <2>1 DEF BoostDefined
      <4>2. voting * One \in Nat
        BY OneAssumption, MulNat
      <4> HIDE DEF weighed
      <4> QED
        BY <4>1, <4>2, DivBounds DEF from_ratio
    <3> HIDE DEF deposits, votes, slope
    <3>3. DecMul(deposits, votes) \in Nat
      BY <3>1, <3>2, DecMulBounds
    <3>4. DecMul(DecMul(deposits, votes), slope) \in Nat
      BY <1>2, <3>3, DecMulBounds
    <3> QED
      BY <2>1, <3>4
  <2>2. CASE ~(total_voting > 0 /\ shares > 0)
    BY <2>2
  <2> QED
    BY <2>1, <2>2
<1>5. calculate_boost_multiplier(boost, shares, total, voting, total_voting)
        = Smaller(boost.base_multiplier + gain, boost.max_multiplier)
  BY DEF calculate_boost_multiplier
<1> HIDE DEF gain
<1> QED
  BY <1>1, <1>4, <1>5 DEF Smaller

=============================================================================
