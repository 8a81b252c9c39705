----------------------------- MODULE LottoProofs -----------------------------
(***************************************************************************)
(* The lotto contract's invariants, proved for every value of the          *)
(* constants: the steps of a draw, of the configuration and of the clock,  *)
(* and the theorems about the specification.                               *)
(***************************************************************************)
EXTENDS LottoSavingsProofs

-----------------------------------------------------------------------------
(* Starting a draw.                                                        *)

\* The oracle's round of a draw is never 0, which would mean no draw.
LEMMA RandRoundPositive ==
    ASSUME TypeOK, ScheduleSound
    PROVE  calculate_lottery_rand_round(block.time, config.round_delta) \in Nat \ {0}
<1> DEFINE age   == block.time - RAND_GENESIS
           round == age \div RAND_PERIOD
<1>1. block.time \in Nat /\ config.round_delta \in Nat /\ InitTime <= block.time
  BY FieldTypes DEF ScheduleTyped, ConfigTyped, ScheduleSound
<1>2. age \in Nat /\ age >= RAND_PERIOD
  BY <1>1, InstantiationAssumption, RandAssumption
<1> HIDE DEF age
<1>3. round \in Nat /\ age < RAND_PERIOD * round + RAND_PERIOD
  BY <1>2, RandAssumption, DivBounds
<1> HIDE DEF round
<1>4. round # 0
  BY <1>2, <1>3, RandAssumption
<1>5. calculate_lottery_rand_round(block.time, config.round_delta)
        = round + config.round_delta
  BY DEF calculate_lottery_rand_round, round, age
<1> QED
  BY <1>1, <1>3, <1>4, <1>5

LEMMA RedeemedAustBounds ==
    ASSUME TypeOK, FractionsValid, ScheduleSound, AustSolvency
    PROVE  /\ RedeemedAust.user_aust_to_redeem \in Nat
           /\ RedeemedAust.user_aust_to_redeem <= pool.total_user_aust
           /\ pool.total_user_aust # 0
                => RedeemedAust.user_aust_to_redeem < pool.total_user_aust
           /\ RedeemedAust.sponsor_aust_to_redeem \in Nat
           /\ RedeemedAust.sponsor_aust_to_redeem <= bank.aust - pool.total_user_aust
           /\ pool.total_sponsor_lottery_deposits * One
                <= (bank.aust - pool.total_user_aust - RedeemedAust.sponsor_aust_to_redeem)
                     * rate
<1>1. MoneyTyped /\ ScheduleTyped /\ ConfigTyped
  BY FieldTypes
<1>2. /\ rate \in Nat
      /\ state.last_lottery_execution_aust_exchange_rate \in Nat \ {0}
      /\ state.last_lottery_execution_aust_exchange_rate <= rate
  BY <1>1 DEF MoneyTyped, ScheduleSound
<1>3. /\ pool.total_user_aust \in Nat /\ pool.total_sponsor_lottery_deposits \in Nat
      /\ bank.aust \in Nat
      /\ config.split_factor \in Nat /\ config.split_factor <= One
  BY <1>1 DEF MoneyTyped, ConfigTyped, FractionsValid
<1> QED
  BY <1>2, <1>3, RedemptionBounds DEF RedeemedAust, AustSolvency

\* A draw that starts keeps its number, and the others are left alone.
LEMMA LotteryStep ==
    ASSUME IInv, execute_lottery
    PROVE  IInv'
<1> DEFINE cur  == state.current_lottery
           user == RedeemedAust.user_aust_to_redeem
           spon == RedeemedAust.sponsor_aust_to_redeem
           net_amount == AnchorReturns(user + spon)
           round == calculate_lottery_rand_round(block.time, config.round_delta)
           new  == [DefaultLottery EXCEPT !.rand_round = round,
                                          !.block_height = block.height,
                                          !.timestamp = block.time,
                                          !.total_user_shares = pool.total_user_shares]
<1>1. TypeOK /\ FractionsValid /\ IndexesBehind /\ ScheduleSound
  BY DEF IInv
<1>2. LotteryLifecycle /\ AustSolvency /\ PoolNonDegenerate
  BY DEF IInv
<1>3. MoneyTyped /\ ScheduleTyped /\ ConfigTyped
  BY <1>1, FieldTypes
<1>4. UNCHANGED <<config, depositors, checkpoint, tickets, sponsors, operators,
                  prizes, block, rate, paid_glow, purse>>
  BY Zenon DEF execute_lottery
<1>5. is_expired(state.next_lottery_time) /\ ~LotteryStarted
  BY Zenon DEF execute_lottery, LotteryNotStarted
<1>6. lotteries' = [lotteries EXCEPT ![cur] = new]
  BY Zenon DEF execute_lottery
<1>7. snapshots' = [snapshots EXCEPT ![cur] = checkpoint]
  BY Zenon DEF execute_lottery
<1>8. state' = [state EXCEPT
                  !.next_lottery_exec_time = block.time + config.block_time,
                  !.prize_buckets = Distribute(@, net_amount, config.prize_distribution),
                  !.last_lottery_execution_aust_exchange_rate = rate]
  BY Zenon DEF execute_lottery
<1>9. pool' = [pool EXCEPT !.total_user_aust = @ - user]
  BY Zenon DEF execute_lottery
<1>10. bank' = [bank EXCEPT !.ust = @ + net_amount, !.aust = @ - (user + spon)]
  BY Zenon DEF execute_lottery
<1>11. /\ user \in Nat /\ user <= pool.total_user_aust
       /\ pool.total_user_aust # 0 => user < pool.total_user_aust
       /\ spon \in Nat /\ spon <= bank.aust - pool.total_user_aust
       /\ pool.total_sponsor_lottery_deposits * One
            <= (bank.aust - pool.total_user_aust - spon) * rate
  BY <1>1, <1>2, RedeemedAustBounds
<1> HIDE DEF user, spon
<1>12. user + spon \in Nat
  BY <1>11
<1>13. net_amount \in Nat
  BY <1>1, <1>12, AnchorReturnsType
<1>14. round \in Nat \ {0}
  BY <1>1, RandRoundPositive
<1> HIDE DEF net_amount, round
<1>15. new \in LotteryInfo /\ new.rand_round = round /\ ~new.awarded
  <2>1. ZeroBuckets \in [Buckets -> Nat] /\ ZeroBuckets \in [Buckets -> 0..Uint32Max]
    BY LimitsAssumption DEF ZeroBuckets
  <2>2. DefaultLottery \in LotteryInfo /\ ~DefaultLottery.awarded
    BY <2>1 DEF DefaultLottery, LotteryInfo
  <2>3. round \in Nat
    BY <1>14
  <2>4. block.height \in Nat /\ block.time \in Nat /\ pool.total_user_shares \in Nat
    BY <1>3 DEF MoneyTyped, ScheduleTyped
  <2> QED
    BY <2>2, <2>3, <2>4, Zenon DEF LotteryInfo
<1> HIDE DEF new
<1>16. /\ cur \in 0..MaxLottery
       /\ lotteries \in [0..MaxLottery -> LotteryInfo]
       /\ snapshots \in [0..MaxLottery -> [Users -> Nat]]
       /\ checkpoint \in [Users -> Nat]
  BY <1>1 DEF TypeOK, State
<1> HIDE DEF cur
<1>17. /\ lotteries' \in [0..MaxLottery -> LotteryInfo]
       /\ snapshots' \in [0..MaxLottery -> [Users -> Nat]]
       /\ lotteries'[cur] = new
       /\ \A i \in 0..MaxLottery : i # cur => lotteries'[i] = lotteries[i]
  BY <1>6, <1>7, <1>15, <1>16, Zenon
<1>18. /\ state' \in State
       /\ state'.operator_reward_emission_index = state.operator_reward_emission_index
       /\ state'.sponsor_reward_emission_index = state.sponsor_reward_emission_index
       /\ state'.current_lottery = cur
       /\ state'.next_lottery_time = state.next_lottery_time
       /\ state'.next_lottery_exec_time = block.time + config.block_time
       /\ state'.last_lottery_execution_aust_exchange_rate = rate
  <2>1. block.time + config.block_time \in Expiration
    BY <1>3 DEF ScheduleTyped, ConfigTyped, Expiration
  <2>2. state \in State /\ rate \in Nat
    BY <1>1, <1>3 DEF TypeOK, MoneyTyped
  <2>3. state.prize_buckets \in [Buckets -> Nat]
    BY <2>2 DEF State
  <2>4. config.prize_distribution \in [Buckets -> Nat]
    BY <1>1 DEF TypeOK, Config
  <2>5. Distribute(state.prize_buckets, net_amount, config.prize_distribution)
          \in [Buckets -> Nat]
    BY <1>13, <2>3, <2>4, DistributeType
  <2> QED
    BY <1>8, <2>1, <2>2, <2>5, Zenon DEF State, cur
<1>19. /\ pool' \in Pool
       /\ pool'.total_user_shares = pool.total_user_shares
       /\ pool'.total_user_aust = pool.total_user_aust - user
       /\ pool'.total_sponsor_lottery_deposits = pool.total_sponsor_lottery_deposits
  <2>1. pool.total_user_aust - user \in Nat
    BY <1>3, <1>11 DEF MoneyTyped
  <2>2. pool \in Pool
    BY <1>1 DEF TypeOK
  <2> QED
    BY <1>9, <2>1, <2>2, Zenon DEF Pool
<1>4a. bank' \in [ust : Nat, aust : Nat] /\ bank'.aust = bank.aust - (user + spon)
  <2>1. bank.ust + net_amount \in Nat
    BY <1>3, <1>13 DEF MoneyTyped
  <2>2. bank.aust - (user + spon) \in Nat
    BY <1>3, <1>11 DEF MoneyTyped
  <2>3. bank \in [ust : Nat, aust : Nat]
    BY <1>1 DEF TypeOK
  <2> QED
    BY <1>10, <2>1, <2>2, <2>3, Zenon
<1>21. TypeOK'
  BY <1>1, <1>4, <1>17, <1>18, <1>19, <1>4a DEF TypeOK
<1>22. FractionsValid' /\ IndexesBehind'
  BY <1>1, <1>4, <1>18 DEF FractionsValid, IndexesBehind
<1>23. LotteryStarted'
  BY <1>14, <1>15, <1>17, <1>18 DEF LotteryStarted, current_lottery
<1>24. ScheduleSound'
  <2>1. state.next_lottery_time <= block.time
    BY <1>3, <1>5 DEF is_expired, ScheduleTyped
  <2>2. rate \in 1..rate
    BY <1>3 DEF MoneyTyped
  <2> QED
    BY <1>1, <1>4, <1>18, <2>1, <2>2 DEF ScheduleSound
<1>25. LotteryLifecycle'
  <2>1. state'.next_lottery_exec_time # None
    BY <1>3, <1>18, NoneAssumption DEF ScheduleTyped, ConfigTyped
  <2>2. ASSUME NEW i \in 0..MaxLottery, i < cur
        PROVE  PastDraw(lotteries'[i])
    <3>1. lotteries'[i] = lotteries[i]
      BY <1>16, <1>17, <2>2
    <3> QED
      BY <1>2, <2>2, <3>1 DEF LotteryLifecycle, cur
  <2>3. ASSUME NEW i \in 0..MaxLottery, i > cur
        PROVE  lotteries'[i] = DefaultLottery /\ \A u \in Users : prizes'[i][u] = NoPrize
    <3>1. lotteries'[i] = lotteries[i]
      BY <1>16, <1>17, <2>3
    <3> QED
      BY <1>2, <1>4, <2>3, <3>1 DEF LotteryLifecycle, cur
  <2>4. ~lotteries'[cur].awarded
    BY <1>15, <1>17
  <2> QED
    BY <1>18, <1>23, <2>1, <2>2, <2>3, <2>4 DEF LotteryLifecycle
<1>26. AustSolvency'
  <2>1. bank'.aust - pool'.total_user_aust = bank.aust - pool.total_user_aust - spon
    BY <1>3, <1>11, <1>19, <1>4a DEF MoneyTyped
  <2>2. pool'.total_user_aust <= bank'.aust
    BY <1>3, <1>11, <1>19, <1>4a DEF MoneyTyped
  <2> QED
    BY <1>4, <1>11, <1>19, <2>1, <2>2 DEF AustSolvency
<1>27. PoolNonDegenerate'
  BY <1>2, <1>3, <1>11, <1>19 DEF PoolNonDegenerate, MoneyTyped
<1> QED
  BY <1>21, <1>22, <1>24, <1>25, <1>26, <1>27 DEF IInv

-----------------------------------------------------------------------------
(* Awarding a draw.                                                        *)

LEMMA SequenceType ==
    ASSUME TypeOK, NEW sequence \in SequencesToDraw
    PROVE  sequence \in Tickets
<1>1. current_lottery \in LotteryInfo
  BY DEF TypeOK, State, current_lottery
<1>2. current_lottery.sequence \in Tickets \cup {None}
  BY <1>1 DEF LotteryInfo
<1> QED
  BY <1>2 DEF SequencesToDraw

LEMMA KeysLeftType ==
    ASSUME TypeOK, NEW sequence, NEW page
    PROVE  KeysLeft(KeysToVisit(sequence), page) \subseteq Tickets
<1>1. KeysToVisit(sequence) \subseteq DOMAIN tickets
  BY DEF KeysToVisit, WinningKeys
<1>2. KeysLeft(KeysToVisit(sequence), page) \subseteq KeysToVisit(sequence)
  BY DEF KeysLeft
<1> QED
  BY <1>1, <1>2 DEF TypeOK

\* The reserve's part of a bucket is at most the bucket.
LEMMA AwardedBuckets ==
    ASSUME TypeOK, FractionsValid, NEW i \in Buckets
    PROVE  state.prize_buckets[i] - ReserveFee(i) \in Nat
<1>1. state.prize_buckets[i] \in Nat
  BY DEF TypeOK, State
<1>2. config.reserve_factor \in Nat /\ config.reserve_factor <= One
  BY FieldTypes DEF ConfigTyped, FractionsValid
<1>3. ReserveFee(i) \in Nat /\ ReserveFee(i) <= state.prize_buckets[i]
  BY <1>1, <1>2, DecMulBounds, FractionBound DEF ReserveFee
<1> QED
  BY <1>1, <1>3

LEMMA AwardedLotteryType ==
    ASSUME TypeOK, FractionsValid, NEW lottery \in LotteryInfo, NEW winners
    PROVE  /\ AwardedLottery(lottery, winners) \in LotteryInfo
           /\ AwardedLottery(lottery, winners).awarded
           /\ AwardedLottery(lottery, winners).rand_round = lottery.rand_round
<1> DEFINE ust  == [i \in Buckets |-> IF winners[i] # 0
                       THEN state.prize_buckets[i] - ReserveFee(i)
                       ELSE lottery.prize_buckets[i]]
           glow == [i \in Buckets |-> IF winners[i] # 0
                       THEN config.glow_prize_buckets[i]
                       ELSE lottery.glow_prize_buckets[i]]
<1>1. ust \in [Buckets -> Nat]
  <2>1. \A i \in Buckets : lottery.prize_buckets[i] \in Nat
    BY DEF LotteryInfo
  <2>2. \A i \in Buckets : state.prize_buckets[i] - ReserveFee(i) \in Nat
    BY AwardedBuckets
  <2> QED
    BY <2>1, <2>2
<1>2. glow \in [Buckets -> Nat]
  <2>1. config.glow_prize_buckets \in [Buckets -> Nat]
    BY DEF TypeOK, Config
  <2>2. lottery.glow_prize_buckets \in [Buckets -> Nat]
    BY DEF LotteryInfo
  <2> QED
    BY <2>1, <2>2
<1>3. AwardedLottery(lottery, winners)
        = [lottery EXCEPT !.awarded = TRUE, !.prize_buckets = ust,
                          !.glow_prize_buckets = glow]
  BY Zenon DEF AwardedLottery
<1> HIDE DEF ust, glow
<1> QED
  BY <1>1, <1>2, <1>3, Zenon DEF LotteryInfo

LEMMA NextLotteryTimeType ==
    ASSUME NEW t \in Nat, NEW interval \in Nat \ {0}, NEW now \in Nat, t <= now
    PROVE  NextLotteryTime(t, interval, now) \in Nat
<1> DEFINE periods == (now - t) \div interval
<1>1. now - t \in Nat
  OBVIOUS
<1>2. periods \in Nat
  BY <1>1, DivBounds
<1> HIDE DEF periods
<1>3. interval * (1 + periods) \in Nat
  BY <1>2, MulNat
<1>4. NextLotteryTime(t, interval, now) = t + interval * (1 + periods)
  BY DEF NextLotteryTime, periods
<1> QED
  BY <1>3, <1>4

LEMMA StateAfterAwardType ==
    ASSUME TypeOK, ScheduleSound, LotteryStarted, NEW winners, NEW st,
           st = StateAfterAward(winners),
           config.lottery_interval > 0, state.current_lottery < MaxLottery,
           st.total_reserve \in Nat
    PROVE  /\ st \in State
           /\ st.operator_reward_emission_index = state.operator_reward_emission_index
           /\ st.sponsor_reward_emission_index = state.sponsor_reward_emission_index
           /\ st.current_lottery = state.current_lottery + 1
           /\ st.next_lottery_exec_time = None
           /\ st.last_lottery_execution_aust_exchange_rate
                = state.last_lottery_execution_aust_exchange_rate
<1> DEFINE total   == state.total_reserve + ReserveFees(winners)
           buckets == [i \in Buckets |-> IF winners[i] # 0 THEN 0 ELSE state.prize_buckets[i]]
           time    == NextLotteryTime(state.next_lottery_time, config.lottery_interval,
                                      block.time)
<1>1. ScheduleTyped /\ ConfigTyped /\ state \in State
  BY FieldTypes DEF TypeOK
<1>2. st = [state EXCEPT !.total_reserve = total,
                         !.prize_buckets = buckets,
                         !.current_lottery = state.current_lottery + 1,
                         !.next_lottery_time = time,
                         !.next_lottery_exec_time = None]
  BY Zenon DEF StateAfterAward
<1>3. time \in Nat
  <2>1. state.next_lottery_time <= block.time
    BY DEF ScheduleSound
  <2>2. config.lottery_interval \in Nat \ {0}
    BY <1>1 DEF ConfigTyped
  <2>3. state.next_lottery_time \in Nat /\ block.time \in Nat
    BY <1>1 DEF ScheduleTyped
  <2> QED
    BY <2>1, <2>2, <2>3, NextLotteryTimeType
<1>4. state.current_lottery + 1 \in 0..MaxLottery
  <2>1. state.current_lottery \in 0..MaxLottery
    BY <1>1 DEF State
  <2> QED
    BY <2>1, LimitsAssumption
<1>5. buckets \in [Buckets -> Nat]
  <2>1. state.prize_buckets \in [Buckets -> Nat]
    BY <1>1 DEF State
  <2> QED
    BY <2>1
<1> HIDE DEF total, buckets, time
<1>6. total \in Nat
  BY <1>1, <1>2, Zenon DEF State
<1>7. None \in Expiration
  BY DEF Expiration
<1> QED
  BY <1>1, <1>2, <1>3, <1>4, <1>5, <1>6, <1>7, ZenonT(30) DEF State

\* A draw whose record changes without losing its round stays in order.
LEMMA PageKeepsLifecycle ==
    ASSUME TypeOK, ScheduleSound, LotteryLifecycle, LotteryStarted, NEW new,
           lotteries' = [lotteries EXCEPT ![state.current_lottery] = new],
           new.rand_round = current_lottery.rand_round,
           new.awarded = current_lottery.awarded,
           \A i \in 0..MaxLottery : i # state.current_lottery => prizes'[i] = prizes[i],
           UNCHANGED <<state, block, rate>>
    PROVE  ScheduleSound' /\ LotteryLifecycle'
<1> DEFINE cur == state.current_lottery
<1>1. cur \in 0..MaxLottery /\ lotteries \in [0..MaxLottery -> LotteryInfo]
  BY DEF TypeOK, State
<1>2. /\ lotteries'[cur] = new
      /\ \A i \in 0..MaxLottery : i # cur => lotteries'[i] = lotteries[i]
  BY <1>1, Zenon
<1>3. LotteryStarted'
  BY <1>2 DEF LotteryStarted, current_lottery
<1>4. ScheduleSound'
  BY DEF ScheduleSound
<1>5. ASSUME NEW i \in 0..MaxLottery, i < cur
      PROVE  PastDraw(lotteries'[i])
  <2>1. lotteries'[i] = lotteries[i]
    BY <1>1, <1>2, <1>5
  <2> QED
    BY <1>5, <2>1 DEF LotteryLifecycle
<1>6. ASSUME NEW i \in 0..MaxLottery, i > cur
      PROVE  lotteries'[i] = DefaultLottery /\ \A u \in Users : prizes'[i][u] = NoPrize
  <2>1. lotteries'[i] = lotteries[i] /\ prizes'[i] = prizes[i]
    BY <1>1, <1>2, <1>6
  <2> QED
    BY <1>6, <2>1 DEF LotteryLifecycle
<1>7. ~lotteries'[cur].awarded
  <2>1. ~lotteries[cur].awarded
    BY <1>1 DEF LotteryLifecycle
  <2> QED
    BY <1>2, <2>1 DEF current_lottery
<1> QED
  BY <1>3, <1>4, <1>5, <1>6, <1>7 DEF LotteryLifecycle

\* Awarding a draw makes the next one, still untouched, the current one.
LEMMA AwardKeepsLifecycle ==
    ASSUME TypeOK, ScheduleSound, LotteryLifecycle, LotteryStarted, NEW new,
           lotteries' = [lotteries EXCEPT ![state.current_lottery] = new],
           new.rand_round = current_lottery.rand_round,
           new.awarded,
           \A i \in 0..MaxLottery : i # state.current_lottery => prizes'[i] = prizes[i],
           state.current_lottery + 1 \in 0..MaxLottery,
           state'.current_lottery = state.current_lottery + 1,
           state'.next_lottery_exec_time = None,
           state'.last_lottery_execution_aust_exchange_rate
             = state.last_lottery_execution_aust_exchange_rate,
           UNCHANGED <<block, rate>>
    PROVE  ScheduleSound' /\ LotteryLifecycle'
<1> DEFINE cur == state.current_lottery
<1>1. cur \in 0..MaxLottery /\ lotteries \in [0..MaxLottery -> LotteryInfo]
  BY DEF TypeOK, State
<1>2. /\ lotteries'[cur] = new
      /\ \A i \in 0..MaxLottery : i # cur => lotteries'[i] = lotteries[i]
  BY <1>1, Zenon
<1>3. ASSUME NEW i \in 0..MaxLottery, i < cur + 1
      PROVE  PastDraw(lotteries'[i])
  <2>1. CASE i = cur
    BY <1>2, <2>1 DEF LotteryStarted, PastDraw
  <2>2. CASE i # cur
    <3>1. i < cur
      BY <1>1, <1>3, <2>2
    <3> QED
      BY <1>2, <2>2, <3>1 DEF LotteryLifecycle
  <2> QED
    BY <2>1, <2>2
<1>4. ASSUME NEW i \in 0..MaxLottery, i >= cur + 1
      PROVE  lotteries'[i] = DefaultLottery /\ \A u \in Users : prizes'[i][u] = NoPrize
  <2>1. i > cur /\ i # cur
    BY <1>1, <1>4
  <2>2. lotteries'[i] = lotteries[i] /\ prizes'[i] = prizes[i]
    BY <1>2, <2>1
  <2> QED
    BY <2>1, <2>2 DEF LotteryLifecycle
<1>5. lotteries'[cur + 1] = DefaultLottery
  BY <1>1, <1>4
<1>6. ~LotteryStarted' /\ ~lotteries'[cur + 1].awarded
  BY <1>5 DEF LotteryStarted, current_lottery, DefaultLottery
<1>7. ScheduleSound'
  BY <1>6 DEF ScheduleSound
<1>8. ASSUME NEW i \in 0..MaxLottery
      PROVE  /\ i < cur + 1 => PastDraw(lotteries'[i])
             /\ i = cur + 1 => ~lotteries'[i].awarded
             /\ i > cur + 1 => lotteries'[i] = DefaultLottery
             /\ i >= cur + 1 => \A u \in Users : prizes'[i][u] = NoPrize
             /\ i > cur + 1 \/ i = cur + 1 => i >= cur + 1
  <2>1. i > cur + 1 \/ i = cur + 1 => i >= cur + 1
    BY <1>1
  <2> QED
    BY <1>3, <1>4, <1>6, <2>1
<1>9. LotteryLifecycle'
  BY <1>6, <1>8 DEF LotteryLifecycle
<1> QED
  BY <1>7, <1>9

LEMMA PrizeStep ==
    ASSUME IInv, NEW limit, execute_prize(limit)
    PROVE  IInv'
<1> DEFINE cur == state.current_lottery
<1>1. TypeOK /\ FractionsValid /\ IndexesBehind /\ ScheduleSound
  BY DEF IInv
<1>2. LotteryLifecycle /\ AustSolvency /\ PoolNonDegenerate
  BY DEF IInv
<1>3. UNCHANGED <<config, pool, depositors, tickets, sponsors, operators, snapshots,
                  checkpoint, block, rate, bank, paid_glow, purse>>
  BY Zenon DEF execute_prize, chain
<1>4. LotteryStarted
  BY Zenon DEF execute_prize
<1>4a. PICK sequence \in SequencesToDraw :
         LET keys    == KeysToVisit(sequence)
             page    == Page(keys, limit)
             left    == KeysLeft(keys, page)
             winners == WinnersAfter(current_lottery, page, sequence)
             entries == PrizesAfter(prizes[cur], page, sequence)
             lottery == [current_lottery EXCEPT !.sequence = sequence,
                                                !.number_winners = winners]
         IN /\ winners \in [Buckets -> 0..Uint32Max]
            /\ entries \in [Users -> PrizeInfo]
            /\ prizes' = [prizes EXCEPT ![cur] = entries]
            /\ \/ /\ \E first \in left :
                       /\ \A t \in left : first <= t
                       /\ lotteries' = [lotteries EXCEPT ![cur] =
                                          [lottery EXCEPT !.page = first]]
                  /\ UNCHANGED state
               \/ /\ left = {}
                  /\ config.lottery_interval > 0
                  /\ cur < MaxLottery
                  /\ lotteries' = [lotteries EXCEPT ![cur] =
                                     AwardedLottery(lottery, winners)]
                  /\ state' = StateAfterAward(winners)
                  /\ state'.total_reserve \in 0..Uint256Max
  BY Zenon DEF execute_prize
<1> DEFINE page    == Page(KeysToVisit(sequence), limit)
           left    == KeysLeft(KeysToVisit(sequence), page)
           winners == WinnersAfter(current_lottery, page, sequence)
           entries == PrizesAfter(prizes[cur], page, sequence)
           lottery == [current_lottery EXCEPT !.sequence = sequence,
                                              !.number_winners = winners]
<1>5. /\ winners \in [Buckets -> 0..Uint32Max]
      /\ entries \in [Users -> PrizeInfo]
      /\ prizes' = [prizes EXCEPT ![cur] = entries]
      /\ \/ /\ \E first \in left :
                 lotteries' = [lotteries EXCEPT ![cur] = [lottery EXCEPT !.page = first]]
            /\ UNCHANGED state
         \/ /\ config.lottery_interval > 0
            /\ cur < MaxLottery
            /\ lotteries' = [lotteries EXCEPT ![cur] = AwardedLottery(lottery, winners)]
            /\ state' = StateAfterAward(winners)
            /\ state'.total_reserve \in 0..Uint256Max
  BY <1>4a, Zenon
<1> HIDE DEF winners, entries
<1>6. /\ cur \in 0..MaxLottery
      /\ lotteries \in [0..MaxLottery -> LotteryInfo]
      /\ prizes \in [0..MaxLottery -> [Users -> PrizeInfo]]
      /\ current_lottery \in LotteryInfo
  BY <1>1 DEF TypeOK, State, current_lottery
<1>7. /\ lottery \in LotteryInfo
      /\ lottery.rand_round = current_lottery.rand_round
      /\ lottery.awarded = current_lottery.awarded
  <2>1. sequence \in Tickets \cup {None}
    BY <1>1, SequenceType
  <2> QED
    BY <1>5, <1>6, <2>1, Zenon DEF LotteryInfo
<1> HIDE DEF lottery
<1>8. /\ prizes' \in [0..MaxLottery -> [Users -> PrizeInfo]]
      /\ \A i \in 0..MaxLottery : i # cur => prizes'[i] = prizes[i]
  BY <1>5, <1>6, Zenon
<1>9. AustSolvency' /\ PoolNonDegenerate' /\ FractionsValid'
  <2>1. FractionsValid'
    BY <1>1, <1>3 DEF FractionsValid
  <2> QED
    BY <1>2, <1>3, <2>1, MoneyFrame
<1>10. ASSUME NEW first \in left, UNCHANGED state,
              lotteries' = [lotteries EXCEPT ![cur] = [lottery EXCEPT !.page = first]]
       PROVE  IInv'
  <2> DEFINE new == [lottery EXCEPT !.page = first]
  <2>1. first \in Tickets \cup {None}
    BY <1>1, KeysLeftType, Zenon
  <2>2. /\ new \in LotteryInfo
        /\ new.rand_round = current_lottery.rand_round
        /\ new.awarded = current_lottery.awarded
    BY <1>7, <2>1, Zenon DEF LotteryInfo
  <2>3. lotteries' = [lotteries EXCEPT ![cur] = new]
    BY <1>10, Zenon
  <2> HIDE DEF new
  <2>4. lotteries' \in [0..MaxLottery -> LotteryInfo]
    BY <1>6, <2>2, <2>3, Zenon
  <2>5. TypeOK'
    BY <1>1, <1>3, <1>8, <1>10, <2>4, Zenon DEF TypeOK
  <2>6. IndexesBehind'
    BY <1>1, <1>3, <1>10, Zenon DEF IndexesBehind
  <2>7. ScheduleSound' /\ LotteryLifecycle'
    BY <1>1, <1>2, <1>3, <1>4, <1>8, <1>10, <2>2, <2>3, PageKeepsLifecycle, Zenon
  <2> QED
    BY <1>9, <2>5, <2>6, <2>7, Zenon DEF IInv
<1>11. ASSUME config.lottery_interval > 0, cur < MaxLottery,
              lotteries' = [lotteries EXCEPT ![cur] = AwardedLottery(lottery, winners)],
              state' = StateAfterAward(winners),
              state'.total_reserve \in 0..Uint256Max
       PROVE  IInv'
  <2> DEFINE new == AwardedLottery(lottery, winners)
  <2>1. /\ new \in LotteryInfo /\ new.awarded
        /\ new.rand_round = current_lottery.rand_round
    BY <1>1, <1>7, AwardedLotteryType, Zenon
  <2>2. lotteries' = [lotteries EXCEPT ![cur] = new]
    BY <1>11, Zenon
  <2> HIDE DEF new
  <2>3. lotteries' \in [0..MaxLottery -> LotteryInfo]
    BY <1>6, <2>1, <2>2, Zenon
  <2>4. state'.total_reserve \in Nat
    BY <1>11, LimitsAssumption
  <2>5. /\ state' \in State
        /\ state'.operator_reward_emission_index = state.operator_reward_emission_index
        /\ state'.sponsor_reward_emission_index = state.sponsor_reward_emission_index
        /\ state'.current_lottery = cur + 1
        /\ state'.next_lottery_exec_time = None
        /\ state'.last_lottery_execution_aust_exchange_rate
             = state.last_lottery_execution_aust_exchange_rate
    BY <1>1, <1>4, <1>11, <2>4, StateAfterAwardType, Zenon
  <2>6. TypeOK'
    BY <1>1, <1>3, <1>8, <2>3, <2>5, Zenon DEF TypeOK
  <2>7. IndexesBehind'
    BY <1>1, <1>3, <2>5, Zenon DEF IndexesBehind
  <2>8. cur + 1 \in 0..MaxLottery
    <3>1. state'.current_lottery \in 0..MaxLottery
      BY <2>5, Zenon DEF State
    <3> QED
      BY <2>5, <3>1, Zenon
  <2>9. ScheduleSound' /\ LotteryLifecycle'
    BY <1>1, <1>2, <1>3, <1>4, <1>8, <2>1, <2>2, <2>5, <2>8, AwardKeepsLifecycle, Zenon
  <2> QED
    BY <1>9, <2>6, <2>7, <2>9, Zenon DEF IInv
<1> QED
  BY <1>5, <1>10, <1>11, Zenon

-----------------------------------------------------------------------------
(* Claiming prizes.                                                        *)

\* Only entries of awarded draws change.
LEMMA ClaimLotteryStep ==
    ASSUME IInv, NEW u \in Users, NEW ids \in SUBSET (0..MaxLottery), NEW votes,
           execute_claim_lottery(u, ids, votes)
    PROVE  IInv'
<1> DEFINE won  == {id \in ids : HasPrize(prizes[id][u])}
           ust  == UstWon(u, won)
           glow == GlowWon(u, won, votes)
           paid == Charge(deduct_tax(ust))
           after(id) == [prizes[id] EXCEPT ![u] = ClaimedEntry(@)]
<1>1. TypeOK /\ FractionsValid /\ IndexesBehind /\ ScheduleSound
  BY DEF IInv
<1>2. LotteryLifecycle /\ AustSolvency /\ PoolNonDegenerate
  BY DEF IInv
<1>3. MoneyTyped
  BY <1>1, FieldTypes
<1>4. UNCHANGED <<config, state, pool, depositors, checkpoint, tickets, sponsors,
                  operators, lotteries, snapshots, block, rate, purse>>
  BY Zenon DEF execute_claim_lottery
<1>5. \A id \in ids : lotteries[id].awarded
  BY Zenon DEF execute_claim_lottery
<1>6. /\ ust \in 1..bank.ust
      /\ CanPay(bank.ust, deduct_tax(ust))
      /\ glow \in 0..Uint256Max
  BY Zenon DEF execute_claim_lottery
<1>7. prizes' = [id \in DOMAIN prizes |-> IF id \in won THEN after(id) ELSE prizes[id]]
  BY Zenon DEF execute_claim_lottery
<1>8. bank' = [bank EXCEPT !.ust = @ - paid] /\ paid_glow' = paid_glow + glow
  BY Zenon DEF execute_claim_lottery
<1> HIDE DEF ust, glow
<1>9. ust \in Nat /\ glow \in Nat
  BY <1>3, <1>6, LimitsAssumption DEF MoneyTyped
<1>10. paid \in Nat /\ paid <= bank.ust
  BY <1>6, <1>9, TaxDeductionCoversTransfer DEF CanPay
<1> HIDE DEF paid
<1>11. bank' \in [ust : Nat, aust : Nat] /\ bank'.aust = bank.aust
  <2>1. bank.ust - paid \in Nat
    BY <1>3, <1>10 DEF MoneyTyped
  <2>2. bank \in [ust : Nat, aust : Nat]
    BY <1>1 DEF TypeOK
  <2> QED
    BY <1>8, <2>1, <2>2, Zenon
<1>12. paid_glow' \in Nat
  <2>1. paid_glow \in Nat
    BY <1>1 DEF TypeOK
  <2>2. paid_glow' = paid_glow + glow
    BY <1>8, Zenon
  <2> QED
    BY <1>9, <2>1, <2>2
<1>13. prizes \in [0..MaxLottery -> [Users -> PrizeInfo]]
  BY <1>1 DEF TypeOK
<1>14. \A id \in 0..MaxLottery : after(id) \in [Users -> PrizeInfo]
  <2> SUFFICES ASSUME NEW id \in 0..MaxLottery PROVE after(id) \in [Users -> PrizeInfo]
    OBVIOUS
  <2>1. prizes[id] \in [Users -> PrizeInfo] /\ prizes[id][u] \in PrizeInfo
    BY <1>13
  <2>2. ClaimedEntry(prizes[id][u]) \in PrizeInfo
    BY <2>1, Zenon DEF ClaimedEntry, PrizeInfo
  <2> QED
    BY <2>1, <2>2, Zenon
<1> HIDE DEF after, won
<1>15. prizes' \in [0..MaxLottery -> [Users -> PrizeInfo]]
  BY <1>7, <1>13, <1>14, Zenon
<1>16. TypeOK'
  BY <1>1, <1>4, <1>11, <1>12, <1>15 DEF TypeOK
<1>17. FractionsValid' /\ IndexesBehind'
  BY <1>1, <1>4 DEF FractionsValid, IndexesBehind
<1>18. LotteryStarted' <=> LotteryStarted
  BY <1>4 DEF LotteryStarted, current_lottery
<1>19. ScheduleSound'
  BY <1>1, <1>4, <1>18 DEF ScheduleSound
<1>20. ASSUME NEW i \in 0..MaxLottery, ~lotteries[i].awarded
       PROVE  prizes'[i] = prizes[i]
  <2>1. i \notin won
    BY <1>5, <1>20 DEF won
  <2> QED
    BY <1>7, <1>13, <2>1, Zenon
<1>21. LotteryLifecycle'
  <2>1. ~DefaultLottery.awarded
    BY DEF DefaultLottery
  <2>2. ASSUME NEW i \in 0..MaxLottery,
               i > state.current_lottery \/ (i = state.current_lottery /\ ~LotteryStarted)
        PROVE  \A v \in Users : prizes'[i][v] = NoPrize
    <3>1. ~lotteries[i].awarded
      BY <1>2, <2>1, <2>2 DEF LotteryLifecycle
    <3> QED
      BY <1>2, <1>20, <2>2, <3>1 DEF LotteryLifecycle
  <2> QED
    BY <1>2, <1>4, <1>18, <2>2 DEF LotteryLifecycle
<1>22. AustSolvency' /\ PoolNonDegenerate'
  BY <1>2, <1>4, <1>11, MoneyFrame
<1> QED
  BY <1>16, <1>17, <1>19, <1>21, <1>22 DEF IInv

-----------------------------------------------------------------------------
(* Configuration.                                                          *)

LEMMA GivenType ==
    ASSUME NEW S, NEW option \in Option(S), NEW default \in S
    PROVE  Given(option, default) \in S
BY DEF Given, Option

\* A new emission rate leaves the index alone.
LEMMA EmissionRateUpdate ==
    ASSUME NEW index \in RewardEmissionsIndex, NEW emission \in Nat
    PROVE  /\ [index EXCEPT !.glow_emission_rate = emission] \in RewardEmissionsIndex
           /\ [index EXCEPT !.glow_emission_rate = emission].global_reward_index
                = index.global_reward_index
BY Zenon DEF RewardEmissionsIndex

LEMMA UpdateConfigStep ==
    ASSUME IInv, NEW sender, NEW msg \in ConfigUpdate, execute_update_config(sender, msg)
    PROVE  IInv'
<1> DEFINE operator == state.operator_reward_emission_index
           sponsor  == state.sponsor_reward_emission_index
           operator_rate == Given(msg.operator_glow_emission_rate,
                                  operator.glow_emission_rate)
           sponsor_rate  == Given(msg.sponsor_glow_emission_rate,
                                  sponsor.glow_emission_rate)
           new_operator == [operator EXCEPT !.glow_emission_rate = operator_rate]
           new_sponsor  == [sponsor EXCEPT !.glow_emission_rate = sponsor_rate]
<1>1. TypeOK /\ FractionsValid /\ IndexesBehind /\ ScheduleSound
  BY DEF IInv
<1>2. LotteryLifecycle /\ AustSolvency /\ PoolNonDegenerate
  BY DEF IInv
<1>3. UNCHANGED <<pool, depositors, tickets, sponsors, operators, lotteries, snapshots,
                  prizes, checkpoint, block, rate, bank, paid_glow, purse>>
  BY Zenon DEF execute_update_config, chain
<1>4. /\ msg.reserve_factor # None => msg.reserve_factor <= One
      /\ msg.instant_withdrawal_fee # None => msg.instant_withdrawal_fee <= One
  BY Zenon DEF execute_update_config
<1>5. config' = [config EXCEPT
          !.owner = Given(msg.oracle_addr, Given(msg.owner, @)),
          !.reserve_factor = Given(msg.reserve_factor, @),
          !.instant_withdrawal_fee = Given(msg.instant_withdrawal_fee, @),
          !.unbonding_period = Given(msg.unbonding_period, @),
          !.epoch_interval = Given(msg.epoch_interval, @),
          !.max_holders = Given(msg.max_holders, @),
          !.max_tickets_per_depositor = Given(msg.max_tickets_per_depositor, @),
          !.paused = Given(msg.paused, @),
          !.lotto_winner_boost_config = Given(msg.lotto_winner_boost_config, @)]
  BY Zenon DEF execute_update_config
<1>6. state' = [state EXCEPT !.operator_reward_emission_index = new_operator,
                             !.sponsor_reward_emission_index = new_sponsor]
  <2>1. state' = [state EXCEPT
          !.operator_reward_emission_index.glow_emission_rate =
              Given(msg.operator_glow_emission_rate, @),
          !.sponsor_reward_emission_index.glow_emission_rate =
              Given(msg.sponsor_glow_emission_rate, @)]
    BY Zenon DEF execute_update_config
  <2>2. state \in State
    BY <1>1 DEF TypeOK
  <2> QED
    BY <2>1, <2>2, Zenon DEF State
<1>7. config \in Config /\ state \in State
  BY <1>1 DEF TypeOK
<1>8. /\ Given(msg.oracle_addr, Given(msg.owner, config.owner)) \in Addresses
      /\ Given(msg.reserve_factor, config.reserve_factor) \in Nat
      /\ Given(msg.instant_withdrawal_fee, config.instant_withdrawal_fee) \in Nat
      /\ Given(msg.unbonding_period, config.unbonding_period) \in Nat
      /\ Given(msg.epoch_interval, config.epoch_interval) \in Nat
      /\ Given(msg.max_holders, config.max_holders) \in Nat
      /\ Given(msg.max_tickets_per_depositor, config.max_tickets_per_depositor) \in Nat
      /\ Given(msg.paused, config.paused) \in BOOLEAN
      /\ Given(msg.lotto_winner_boost_config, config.lotto_winner_boost_config)
           \in BoostConfig
  BY <1>7, GivenType, Zenon DEF Config, ConfigUpdate
<1>9. /\ config' \in Config
      /\ config'.reserve_factor = Given(msg.reserve_factor, config.reserve_factor)
      /\ config'.split_factor = config.split_factor
      /\ config'.instant_withdrawal_fee
           = Given(msg.instant_withdrawal_fee, config.instant_withdrawal_fee)
  BY <1>5, <1>7, <1>8, ZenonT(30) DEF Config
<1>10. /\ operator \in RewardEmissionsIndex /\ sponsor \in RewardEmissionsIndex
       /\ operator_rate \in Nat /\ sponsor_rate \in Nat
  BY <1>7, GivenType, Zenon DEF State, RewardEmissionsIndex, ConfigUpdate
<1> HIDE DEF operator_rate, sponsor_rate
<1>11. /\ new_operator \in RewardEmissionsIndex
       /\ new_operator.global_reward_index = operator.global_reward_index
       /\ new_sponsor \in RewardEmissionsIndex
       /\ new_sponsor.global_reward_index = sponsor.global_reward_index
  BY <1>10, EmissionRateUpdate, Zenon
<1> HIDE DEF new_operator, new_sponsor
<1>12. /\ state' \in State
       /\ state'.operator_reward_emission_index = new_operator
       /\ state'.sponsor_reward_emission_index = new_sponsor
       /\ state'.current_lottery = state.current_lottery
       /\ state'.next_lottery_time = state.next_lottery_time
       /\ state'.next_lottery_exec_time = state.next_lottery_exec_time
       /\ state'.last_lottery_execution_aust_exchange_rate
            = state.last_lottery_execution_aust_exchange_rate
  BY <1>6, <1>7, <1>11, Zenon DEF State
<1>13. TypeOK'
  BY <1>1, <1>3, <1>9, <1>12, Zenon DEF TypeOK
<1>14. FractionsValid'
  BY <1>1, <1>4, <1>9, Zenon DEF FractionsValid, Given
<1>15. IndexesBehind'
  BY <1>1, <1>3, <1>11, <1>12, Zenon DEF IndexesBehind
<1>16. ScheduleSound' /\ LotteryLifecycle'
  BY <1>1, <1>2, <1>3, <1>12, DrawFrame, Zenon
<1>17. AustSolvency' /\ PoolNonDegenerate'
  BY <1>2, <1>3, MoneyFrame, Zenon
<1> QED
  BY <1>13, <1>14, <1>15, <1>16, <1>17, Zenon DEF IInv

\* A message that changes nothing but the configuration, within its types.
LEMMA ConfigFrame ==
    ASSUME IInv, config' \in Config,
           config'.reserve_factor = config.reserve_factor,
           config'.split_factor = config.split_factor,
           config'.instant_withdrawal_fee = config.instant_withdrawal_fee,
           UNCHANGED <<state, pool, depositors, tickets, sponsors, operators, lotteries,
                       snapshots, prizes, checkpoint, block, rate, bank, paid_glow, purse>>
    PROVE  IInv'
<1>1. TypeOK /\ FractionsValid /\ IndexesBehind /\ ScheduleSound
  BY DEF IInv
<1>2. LotteryLifecycle /\ AustSolvency /\ PoolNonDegenerate
  BY DEF IInv
<1>3. TypeOK'
  BY <1>1 DEF TypeOK
<1>4. FractionsValid' /\ IndexesBehind'
  BY <1>1 DEF FractionsValid, IndexesBehind
<1>5. ScheduleSound' /\ LotteryLifecycle'
  BY <1>1, <1>2, DrawFrame
<1>6. AustSolvency' /\ PoolNonDegenerate'
  BY <1>2, MoneyFrame
<1> QED
  BY <1>3, <1>4, <1>5, <1>6 DEF IInv

LEMMA UpdateLotteryConfigStep ==
    ASSUME IInv, NEW sender, NEW msg \in LotteryConfigUpdate,
           execute_update_lottery_config(sender, msg)
    PROVE  IInv'
<1>1. config \in Config
  BY DEF IInv, TypeOK
<1>2. config' = [config EXCEPT
          !.lottery_interval = Given(msg.lottery_interval, @),
          !.block_time = Given(msg.block_time, @),
          !.round_delta = Given(msg.round_delta, @),
          !.ticket_price = Given(msg.ticket_price, @),
          !.prize_distribution = Given(msg.prize_distribution, @)]
  BY Zenon DEF execute_update_lottery_config
<1>3. UNCHANGED <<state, pool, depositors, tickets, sponsors, operators, lotteries,
                  snapshots, prizes, checkpoint, block, rate, bank, paid_glow, purse>>
  BY Zenon DEF execute_update_lottery_config, chain
<1>4. /\ Given(msg.lottery_interval, config.lottery_interval) \in Nat
      /\ Given(msg.block_time, config.block_time) \in Nat
      /\ Given(msg.round_delta, config.round_delta) \in Nat
      /\ Given(msg.ticket_price, config.ticket_price) \in Nat
      /\ Given(msg.prize_distribution, config.prize_distribution) \in [Buckets -> Nat]
  BY <1>1, GivenType, Zenon DEF Config, LotteryConfigUpdate
<1>5. /\ config' \in Config
      /\ config'.reserve_factor = config.reserve_factor
      /\ config'.split_factor = config.split_factor
      /\ config'.instant_withdrawal_fee = config.instant_withdrawal_fee
  BY <1>1, <1>2, <1>4, Zenon DEF Config
<1> QED
  BY <1>3, <1>5, ConfigFrame, Zenon

LEMMA RegisterContractsStep ==
    ASSUME IInv, NEW sender, execute_register_contracts(sender)
    PROVE  IInv'
<1>1. config \in Config
  BY DEF IInv, TypeOK
<1>2. config' = [config EXCEPT !.registered = TRUE]
  BY Zenon DEF execute_register_contracts
<1>3. UNCHANGED <<state, pool, depositors, tickets, sponsors, operators, lotteries,
                  snapshots, prizes, checkpoint, block, rate, bank, paid_glow, purse>>
  BY Zenon DEF execute_register_contracts, chain
<1>4. /\ config' \in Config
      /\ config'.reserve_factor = config.reserve_factor
      /\ config'.split_factor = config.split_factor
      /\ config'.instant_withdrawal_fee = config.instant_withdrawal_fee
  BY <1>1, <1>2, Zenon DEF Config
<1> QED
  BY <1>3, <1>4, ConfigFrame, Zenon

-----------------------------------------------------------------------------
(* Forgetting the past draws.                                              *)

\* What MigrateOldDepositors does to draws and configuration.
LEMMA Forgetting ==
    ASSUME TypeOK, LotteryLifecycle, migrate_old_depositors
    PROVE  /\ ForgottenLottery \in LotteryInfo /\ PastDraw(ForgottenLottery)
           /\ ~ForgottenLottery.awarded
           /\ ForgottenLottery.glow_prize_buckets = ZeroBuckets
           /\ lotteries' \in [0..MaxLottery -> LotteryInfo]
           /\ \A i \in 0..MaxLottery :
                lotteries'[i] = IF i < state.current_lottery THEN ForgottenLottery
                                ELSE lotteries[i]
           /\ current_lottery' = current_lottery
           /\ (LotteryStarted' <=> LotteryStarted)
<1>1. /\ lotteries \in [0..MaxLottery -> LotteryInfo] /\ state.current_lottery \in 0..MaxLottery
      /\ pool.total_user_shares \in Nat
  BY DEF TypeOK, State, Pool
<1>2. DefaultLottery \in LotteryInfo
  <2>1. ZeroBuckets \in [Buckets -> Nat] /\ ZeroBuckets \in [Buckets -> 0..Uint32Max]
    BY LimitsAssumption DEF ZeroBuckets
  <2> QED
    BY <2>1 DEF DefaultLottery, LotteryInfo
<1>3. ForgottenLottery \in LotteryInfo
  BY <1>1, <1>2, Zenon DEF ForgottenLottery, LotteryInfo
<1>4. /\ ForgottenLottery.awarded = FALSE
      /\ ForgottenLottery.glow_prize_buckets = ZeroBuckets
  BY DEF ForgottenLottery, DefaultLottery
<1>5. [ForgottenLottery EXCEPT !.total_user_shares = 0] = DefaultLottery
  <2> DEFINE default == DefaultLottery
             shares == pool.total_user_shares
  <2>1. default.total_user_shares = 0
    BY DEF DefaultLottery
  <2>2. ForgottenLottery = [default EXCEPT !.total_user_shares = shares]
    BY Zenon DEF ForgottenLottery
  <2>3. default \in LotteryInfo
    BY <1>2
  <2> HIDE DEF default, shares
  <2>4. [[default EXCEPT !.total_user_shares = shares]
            EXCEPT !.total_user_shares = default.total_user_shares] = default
    BY <2>3, Zenon DEF LotteryInfo
  <2> QED
    BY <2>1, <2>2, <2>4 DEF default
<1>6. \A i \in 0..MaxLottery :
         lotteries'[i] = IF i < state.current_lottery THEN ForgottenLottery ELSE lotteries[i]
  BY Zenon DEF migrate_old_depositors
<1>7. lotteries' \in [0..MaxLottery -> LotteryInfo]
  BY <1>1, <1>3, Zenon DEF migrate_old_depositors
<1>8. state' = state
  BY Zenon DEF migrate_old_depositors
<1>9. current_lottery' = current_lottery
  BY <1>1, <1>6, <1>8 DEF current_lottery
<1> QED
  BY <1>3, <1>4, <1>5, <1>6, <1>7, <1>9 DEF PastDraw, LotteryStarted

\* It keeps every setting but the pause.
LEMMA ForgettingKeepsSettings ==
    ASSUME TypeOK, migrate_old_depositors
    PROVE  /\ config' \in Config
           /\ config'.lottery_interval = config.lottery_interval
           /\ config'.round_delta = config.round_delta
           /\ config'.prize_distribution = config.prize_distribution
           /\ config'.reserve_factor = config.reserve_factor
           /\ config'.split_factor = config.split_factor
           /\ config'.instant_withdrawal_fee = config.instant_withdrawal_fee
           /\ config'.max_holders = config.max_holders
           /\ config'.glow_prize_buckets = config.glow_prize_buckets
           /\ config'.lotto_winner_boost_config = config.lotto_winner_boost_config
<1>1. config \in Config
  BY DEF TypeOK
<1>2. config' = [config EXCEPT !.paused = FALSE]
  BY Zenon DEF migrate_old_depositors
<1> QED
  BY <1>1, <1>2, ZenonT(30) DEF Config

LEMMA MigrateStep ==
    ASSUME IInv, migrate_old_depositors
    PROVE  IInv'
<1>1. TypeOK /\ FractionsValid /\ IndexesBehind /\ ScheduleSound
  BY DEF IInv
<1>2. LotteryLifecycle /\ AustSolvency /\ PoolNonDegenerate
  BY DEF IInv
<1>3. UNCHANGED <<state, pool, depositors, tickets, sponsors, operators, snapshots,
                  prizes, checkpoint, block, rate, bank, paid_glow, purse>>
  BY Zenon DEF migrate_old_depositors, chain
<1>4. /\ config' \in Config
      /\ config'.reserve_factor = config.reserve_factor
      /\ config'.split_factor = config.split_factor
      /\ config'.instant_withdrawal_fee = config.instant_withdrawal_fee
  BY <1>1, ForgettingKeepsSettings
<1>5. TypeOK'
  BY <1>1, <1>2, <1>3, <1>4, Forgetting DEF TypeOK
<1>6. FractionsValid' /\ IndexesBehind'
  BY <1>1, <1>3, <1>4 DEF FractionsValid, IndexesBehind
<1>7. ScheduleSound'
  BY <1>1, <1>2, <1>3, Forgetting DEF ScheduleSound
<1>8. LotteryLifecycle'
  <2>1. state.current_lottery \in 0..MaxLottery
    BY <1>1 DEF TypeOK, State
  <2>2. ASSUME NEW i \in 0..MaxLottery
        PROVE  /\ i < state.current_lottery => PastDraw(lotteries'[i])
               /\ i >= state.current_lottery => lotteries'[i] = lotteries[i]
    BY <1>1, <1>2, <2>1, Forgetting
  <2>3. \A i \in 0..MaxLottery : i = state.current_lottery \/ i > state.current_lottery
                                   => i >= state.current_lottery
    BY <2>1
  <2> QED
    BY <1>1, <1>2, <1>3, <2>2, <2>3, Forgetting DEF LotteryLifecycle
<1>9. AustSolvency' /\ PoolNonDegenerate'
  BY <1>2, <1>3, MoneyFrame
<1> QED
  BY <1>5, <1>6, <1>7, <1>8, <1>9 DEF IInv

-----------------------------------------------------------------------------
(* The clock.                                                              *)

LEMMA NextBlockStep ==
    ASSUME IInv, NEW seconds \in Nat, NEW accrued \in Nat, NextBlock(seconds, accrued)
    PROVE  IInv'
<1>1. TypeOK /\ FractionsValid /\ IndexesBehind /\ ScheduleSound
  BY DEF IInv
<1>2. LotteryLifecycle /\ AustSolvency /\ PoolNonDegenerate
  BY DEF IInv
<1>3. MoneyTyped /\ ScheduleTyped
  BY <1>1, FieldTypes
<1>4. UNCHANGED <<config, state, pool, depositors, tickets, sponsors, operators,
                  lotteries, snapshots, prizes, bank, paid_glow, purse>>
  BY Zenon DEF NextBlock, storage
<1>5. /\ block' = [height |-> block.height + 1, time |-> block.time + seconds]
      /\ rate' = rate + accrued
      /\ checkpoint' = [u \in Users |-> depositors[u].shares]
  BY Zenon DEF NextBlock
<1>6. /\ block' \in [height : Nat, time : Nat]
      /\ block'.time \in Nat /\ block.time <= block'.time
  <2>1. block.height + 1 \in Nat /\ block.time + seconds \in Nat
    BY <1>3 DEF ScheduleTyped
  <2> QED
    BY <1>3, <1>5, <2>1 DEF ScheduleTyped
<1>7. rate' \in Nat \ {0} /\ rate <= rate'
  BY <1>3, <1>5 DEF MoneyTyped
<1>8. checkpoint' \in [Users -> Nat]
  BY <1>1, <1>5, DepositorFields
<1>9. TypeOK'
  BY <1>1, <1>4, <1>6, <1>7, <1>8 DEF TypeOK
<1>10. FractionsValid' /\ IndexesBehind'
  BY <1>1, <1>4 DEF FractionsValid, IndexesBehind
<1>11. LotteryStarted' <=> LotteryStarted
  BY <1>4 DEF LotteryStarted, current_lottery
<1>12. ScheduleSound'
  <2>1. InitTime <= block'.time
    BY <1>1, <1>3, <1>6, InstantiationAssumption DEF ScheduleSound, ScheduleTyped
  <2>2. state.last_lottery_execution_aust_exchange_rate \in 1..rate'
    BY <1>1, <1>3, <1>7 DEF ScheduleSound, MoneyTyped
  <2>3. LotteryStarted => state.next_lottery_time <= block'.time
    BY <1>1, <1>3, <1>6 DEF ScheduleSound, ScheduleTyped
  <2> QED
    BY <1>4, <1>11, <2>1, <2>2, <2>3 DEF ScheduleSound
<1>13. LotteryLifecycle'
  BY <1>2, <1>4, <1>11 DEF LotteryLifecycle
<1>14. AustSolvency'
  <2> DEFINE deposits == pool.total_sponsor_lottery_deposits
             free     == bank.aust - pool.total_user_aust
  <2>1. /\ pool.total_user_aust <= bank.aust
        /\ deposits \in Nat /\ free \in Nat /\ deposits * One <= free * rate
    BY <1>2, <1>3 DEF AustSolvency, MoneyTyped
  <2> HIDE DEF deposits, free
  <2>2. rate * free <= rate' * free
    BY <1>3, <1>7, <2>1, MulMono DEF MoneyTyped
  <2>3. deposits * One <= free * rate'
    <3> DEFINE later == rate'
    <3>1. later \in Nat /\ rate * free <= later * free
      BY <1>7, <2>2
    <3> HIDE DEF later
    <3>2. rate * free = free * rate /\ later * free = free * later
      BY <1>3, <2>1, <3>1 DEF MoneyTyped
    <3>3. free * rate \in Nat /\ free * later \in Nat /\ deposits * One \in Nat
      BY <1>3, <2>1, <3>1, OneAssumption, MulNat DEF MoneyTyped
    <3>4. deposits * One <= free * later
      BY <2>1, <3>1, <3>2, <3>3
    <3> QED
      BY <3>4 DEF later
  <2> QED
    BY <1>4, <2>1, <2>3 DEF AustSolvency, deposits, free
<1>15. PoolNonDegenerate'
  BY <1>2, <1>4 DEF PoolNonDegenerate
<1> QED
  BY <1>9, <1>10, <1>12, <1>13, <1>14, <1>15 DEF IInv

-----------------------------------------------------------------------------
(* All the steps.                                                          *)

LEMMA StutterStep ==
    ASSUME IInv, UNCHANGED vars
    PROVE  IInv'
<1>1. UNCHANGED <<config, state, pool, depositors, tickets, sponsors, operators,
                  lotteries, snapshots, prizes, checkpoint, block, rate, bank,
                  paid_glow, purse>>
  BY Zenon DEF vars, storage, chain
<1>2. config \in Config
  BY DEF IInv, TypeOK
<1> QED
  BY <1>1, <1>2, ConfigFrame

LEMMA NextStep ==
    ASSUME IInv, Next
    PROVE  IInv'
<1>1. CASE Deposits
  <2>1. PICK u \in Users, amount \in DepositAmounts, o \in OperatorChoices,
             requested \in TicketRequests : deposit(u, amount, o, requested)
    BY <1>1, Zenon DEF Deposits, execute_deposit
  <2>2. o \in Users \cup {None} /\ requested \in Seq(Tickets)
    BY InputAssumption DEF Option
  <2> QED
    BY <2>1, <2>2, DepositStep
<1>2. CASE Gifts
  <2>1. PICK u \in Users, amount \in GiftAmounts, o \in OperatorChoices,
             requested \in TicketRequests : deposit(u, amount, o, requested)
    BY <1>2, Zenon DEF Gifts, execute_gift
  <2>2. o \in Users \cup {None} /\ requested \in Seq(Tickets)
    BY InputAssumption DEF Option
  <2> QED
    BY <2>1, <2>2, DepositStep
<1>3. CASE TicketClaims
  <2>1. PICK u \in Users, requested \in ClaimRequests : execute_claim_tickets(u, requested)
    BY <1>3, Zenon DEF TicketClaims
  <2>2. requested \in Seq(Tickets)
    BY InputAssumption
  <2> QED
    BY <2>1, <2>2, ClaimTicketsStep
<1>4. CASE Withdrawals
  <2>1. PICK u \in Users, amount \in WithdrawAmounts, instant \in InstantChoices :
               execute_withdraw(u, amount, instant)
    BY <1>4, Zenon DEF Withdrawals
  <2>2. amount \in Nat \cup {None} /\ instant \in BOOLEAN
    BY InputAssumption DEF Option
  <2> QED
    BY <2>1, <2>2, WithdrawStep
<1>5. CASE UnbondedClaims
  BY <1>5, ClaimUnbondedStep, Zenon DEF UnbondedClaims
<1>6. CASE Sponsorships
  <2>1. PICK u \in Users, amount \in SponsorAmounts, award \in AwardChoices :
               execute_sponsor(u, amount, award, AwardDistributions)
    BY <1>6, Zenon DEF Sponsorships
  <2>2. award \in BOOLEAN
    BY InputAssumption
  <2> QED
    BY <2>1, <2>2, SponsorStep
<1>7. CASE SponsorWithdrawals
  BY <1>7, SponsorWithdrawStep, Zenon DEF SponsorWithdrawals
<1>8. CASE RewardClaims
  <2>1. PICK u \in RewardClaimers : execute_claim_rewards(u)
    BY <1>8, Zenon DEF RewardClaims
  <2>2. u \in Users
    BY InputAssumption
  <2> QED
    BY <2>1, <2>2, ClaimRewardsStep
<1>9. CASE execute_epoch_ops
  BY <1>9, EpochOpsStep
<1>10. CASE execute_lottery
  BY <1>10, LotteryStep
<1>11. CASE PrizeExecutions
  BY <1>11, PrizeStep, Zenon DEF PrizeExecutions
<1>12. CASE PrizeClaims
  BY <1>12, ClaimLotteryStep, Zenon DEF PrizeClaims
<1>13. CASE Configurations
  <2>1. ASSUME NEW a \in ConfigSenders, NEW msg \in ConfigUpdates,
               execute_update_config(a, msg)
        PROVE  IInv'
    BY <2>1, UpdateAssumption, UpdateConfigStep
  <2>2. ASSUME NEW a \in ConfigSenders, NEW msg \in LotteryConfigUpdates,
               execute_update_lottery_config(a, msg)
        PROVE  IInv'
    BY <2>2, UpdateAssumption, UpdateLotteryConfigStep
  <2>3. ASSUME NEW a \in Registrars, execute_register_contracts(a)
        PROVE  IInv'
    BY <2>3, RegisterContractsStep
  <2> QED
    BY <1>13, <2>1, <2>2, <2>3, Zenon DEF Configurations
<1>14. CASE Clock
  <2>1. PICK seconds \in TimeSteps, accrued \in RateSteps : NextBlock(seconds, accrued)
    BY <1>14, Zenon DEF Clock
  <2>2. seconds \in Nat /\ accrued \in Nat
    BY InputAssumption
  <2> QED
    BY <2>1, <2>2, NextBlockStep
<1>15. CASE migrate_old_depositors
  BY <1>15, MigrateStep
<1> QED
  BY <1>1, <1>2, <1>3, <1>4, <1>5, <1>6, <1>7, <1>8, <1>9, <1>10, <1>11, <1>12, <1>13,
     <1>14, <1>15, Zenon DEF Next

\* The inductive invariant holds in every reachable state.
THEOREM LottoInvariant == Spec => []IInv
<1>1. Init => IInv
  BY InitIInv
<1>2. IInv /\ [Next]_vars => IInv'
  BY NextStep, StutterStep
<1> QED
  BY <1>1, <1>2, PTL DEF Spec

-----------------------------------------------------------------------------
(* What it means for the contract.                                         *)

\* Every stored record has its type in every reachable state; in particular
\* no unsigned number of the contract goes below zero.
THEOREM TypeCorrect == Spec => []TypeOK
<1>1. IInv => TypeOK
  BY DEF IInv
<1> QED
  BY <1>1, LottoInvariant, PTL

\* The contract's aUST covers the depositors' aUST and, at the current rate,
\* the sponsors' deposits: what execute_lottery redeems is never somebody's.
THEOREM AustAlwaysSolvent == Spec => []AustSolvency
<1>1. IInv => AustSolvency
  BY DEF IInv
<1> QED
  BY <1>1, LottoInvariant, PTL

\* Shares and the aUST behind them vanish only together, so deposit and
\* execute_withdraw never divide by zero.
THEOREM PoolNeverDegenerate == Spec => []PoolNonDegenerate
<1>1. IInv => PoolNonDegenerate
  BY DEF IInv
<1> QED
  BY <1>1, LottoInvariant, PTL

\* The draws are started and awarded one after the other.
THEOREM LotteriesInOrder == Spec => []LotteryLifecycle
<1>1. IInv => LotteryLifecycle
  BY DEF IInv
<1> QED
  BY <1>1, LottoInvariant, PTL

-----------------------------------------------------------------------------
(* What no step ever does.                                                 *)

\* What a running draw depends on does not move: the messages that change it
\* are refused from execute_lottery to the award.
LEMMA FrozenStep ==
    ASSUME TypeOK, Next, LotteryStarted
    PROVE  /\ tickets' = tickets
           /\ depositors' = depositors
           /\ pool'.total_user_shares = pool.total_user_shares
<1>0. ~LotteryNotStarted
  BY DEF LotteryNotStarted
<1>1. ~Deposits /\ ~Gifts
  <2>1. ASSUME NEW u, NEW amount, NEW o, NEW requested, deposit(u, amount, o, requested)
        PROVE  LotteryNotStarted
    BY <2>1, Zenon DEF deposit
  <2> QED
    BY <1>0, <2>1, Zenon DEF Deposits, Gifts, execute_deposit, execute_gift
<1>2. ~TicketClaims /\ ~Withdrawals
  <2>1. \A u, requested : execute_claim_tickets(u, requested) => LotteryNotStarted
    BY Zenon DEF execute_claim_tickets
  <2>2. ASSUME NEW u, NEW amount, NEW instant, execute_withdraw(u, amount, instant)
        PROVE  LotteryNotStarted
    BY <2>2, Zenon DEF execute_withdraw
  <2> QED
    BY <1>0, <2>1, <2>2, Zenon DEF TicketClaims, Withdrawals
<1>3. ~UnbondedClaims /\ ~SponsorWithdrawals
  <2>1. \A u : execute_claim_unbonded(u) => LotteryNotStarted
    BY Zenon DEF execute_claim_unbonded
  <2>2. \A u : execute_sponsor_withdraw(u) => LotteryNotStarted
    BY Zenon DEF execute_sponsor_withdraw
  <2> QED
    BY <1>0, <2>1, <2>2, Zenon DEF UnbondedClaims, SponsorWithdrawals
<1>4. ~execute_epoch_ops /\ ~execute_lottery /\ ~PrizeClaims
  <2>1. execute_epoch_ops => LotteryNotStarted
    BY Zenon DEF execute_epoch_ops
  <2>2. execute_lottery => LotteryNotStarted
    BY Zenon DEF execute_lottery
  <2>3. \A u, ids, votes : execute_claim_lottery(u, ids, votes) => LotteryNotStarted
    BY ZenonT(30) DEF execute_claim_lottery
  <2> QED
    BY <1>0, <2>1, <2>2, <2>3, Zenon DEF PrizeClaims
<1>5. CASE Sponsorships
  <2>1. ASSUME NEW u, NEW amount, SponsorDeposit(u, amount)
        PROVE  /\ tickets' = tickets /\ depositors' = depositors
               /\ pool' = [pool EXCEPT !.total_sponsor_lottery_deposits =
                             pool.total_sponsor_lottery_deposits
                               + DecMul(AnchorMints(deduct_tax(amount)), rate)]
    BY <2>1, Zenon DEF SponsorDeposit
  <2>2. ASSUME NEW u, NEW amount, SponsorDeposit(u, amount)
        PROVE  pool'.total_user_shares = pool.total_user_shares
    <3>1. pool \in Pool
      BY DEF TypeOK
    <3> QED
      BY <2>1, <2>2, <3>1, Zenon DEF Pool
  <2>3. ASSUME NEW u, NEW amount, NEW d, SponsorAward(u, amount, d)
        PROVE  tickets' = tickets /\ depositors' = depositors /\ pool' = pool
    BY <2>3, Zenon DEF SponsorAward
  <2> QED
    BY <1>5, <2>1, <2>2, <2>3, Zenon DEF Sponsorships, execute_sponsor
<1>6. CASE RewardClaims
  BY <1>6, Zenon DEF RewardClaims, execute_claim_rewards
<1>7. CASE PrizeExecutions
  BY <1>7, Zenon DEF PrizeExecutions, execute_prize
<1>8. CASE Configurations
  BY <1>8, Zenon DEF Configurations, execute_update_config,
                     execute_update_lottery_config, execute_register_contracts
<1>9. CASE Clock
  BY <1>9, Zenon DEF Clock, NextBlock, storage
<1>10. CASE migrate_old_depositors
  BY <1>10, Zenon DEF migrate_old_depositors
<1> QED
  BY <1>1, <1>2, <1>3, <1>4, <1>5, <1>6, <1>7, <1>8, <1>9, <1>10, Zenon DEF Next

\* Nobody changes the tickets or the shares of a draw once it has started.
THEOREM DrawsAreFrozen == Spec => DrawIsFrozen
<1>1. TypeOK /\ [Next]_vars
        => [LotteryStarted => /\ tickets' = tickets
                              /\ depositors' = depositors
                              /\ pool'.total_user_shares = pool.total_user_shares]_vars
  BY FrozenStep, Zenon
<1> QED
  BY <1>1, TypeCorrect, PTL DEF Spec, DrawIsFrozen

\* Only draws, prize claims and the forgetting of draws write LOTTERIES and
\* PRIZES.
LEMMA OthersKeepDraws ==
    ASSUME Next, ~execute_lottery, ~PrizeExecutions, ~PrizeClaims, ~migrate_old_depositors
    PROVE  lotteries' = lotteries /\ prizes' = prizes
<1> DEFINE kept == lotteries' = lotteries /\ prizes' = prizes
<1>1. CASE Deposits \/ Gifts
  <2>1. ASSUME NEW u, NEW amount, NEW o, NEW requested, deposit(u, amount, o, requested)
        PROVE  kept
    BY <2>1, Zenon DEF deposit
  <2> QED
    BY <1>1, <2>1, Zenon DEF Deposits, Gifts, execute_deposit, execute_gift
<1>2. CASE TicketClaims
  BY <1>2, Zenon DEF TicketClaims, execute_claim_tickets
<1>3. CASE Withdrawals
  <2>1. ASSUME NEW u, NEW amount, NEW instant, execute_withdraw(u, amount, instant)
        PROVE  kept
    BY <2>1, Zenon DEF execute_withdraw
  <2> QED
    BY <1>3, <2>1, Zenon DEF Withdrawals
<1>4. CASE UnbondedClaims
  BY <1>4, Zenon DEF UnbondedClaims, execute_claim_unbonded
<1>5. CASE Sponsorships
  <2>1. ASSUME NEW u, NEW amount, SponsorDeposit(u, amount) PROVE kept
    BY <2>1, Zenon DEF SponsorDeposit
  <2>2. ASSUME NEW u, NEW amount, NEW d, SponsorAward(u, amount, d) PROVE kept
    BY <2>2, Zenon DEF SponsorAward
  <2> QED
    BY <1>5, <2>1, <2>2, Zenon DEF Sponsorships, execute_sponsor
<1>6. CASE SponsorWithdrawals
  BY <1>6, Zenon DEF SponsorWithdrawals, execute_sponsor_withdraw
<1>7. CASE RewardClaims
  BY <1>7, Zenon DEF RewardClaims, execute_claim_rewards
<1>8. CASE execute_epoch_ops
  BY <1>8, Zenon DEF execute_epoch_ops
<1>9. CASE Configurations
  BY <1>9, Zenon DEF Configurations, execute_update_config,
                     execute_update_lottery_config, execute_register_contracts
<1>10. CASE Clock
  BY <1>10, Zenon DEF Clock, NextBlock, storage
<1> QED
  BY <1>1, <1>2, <1>3, <1>4, <1>5, <1>6, <1>7, <1>8, <1>9, <1>10, Zenon DEF Next

\* What may become of an entry of a past draw.
FinalEntry(i) ==
    \A u \in Users : prizes'[i][u] \in {prizes[i][u], [prizes[i][u] EXCEPT !.claimed = TRUE]}

LEMMA FinalStep ==
    ASSUME TypeOK, Next, NEW i \in 0..state.current_lottery - 1
    PROVE  (lotteries'[i] = lotteries[i] \/ migrate_old_depositors) /\ FinalEntry(i)
<1> DEFINE cur == state.current_lottery
<1>1. i \in 0..MaxLottery /\ i # cur
  <2>1. cur \in 0..MaxLottery /\ i \in 0..cur - 1 /\ MaxLottery \in Nat
    BY LimitsAssumption DEF TypeOK, State
  <2> HIDE DEF cur
  <2> QED
    BY <2>1
<1>2. /\ lotteries \in [0..MaxLottery -> LotteryInfo]
      /\ prizes \in [0..MaxLottery -> [Users -> PrizeInfo]]
      /\ cur \in 0..MaxLottery
  BY DEF TypeOK, State
<1>3. CASE prizes'[i] = prizes[i] /\ lotteries'[i] = lotteries[i]
  BY <1>3, Zenon DEF FinalEntry
<1>4. CASE execute_lottery
  <2>1. PICK new : lotteries' = [lotteries EXCEPT ![cur] = new]
    BY <1>4, Zenon DEF execute_lottery
  <2>2. prizes' = prizes
    BY <1>4, Zenon DEF execute_lottery
  <2> QED
    BY <1>1, <1>2, <1>3, <2>1, <2>2, Zenon
<1>5. CASE PrizeExecutions
  <2>1. PICK entries : prizes' = [prizes EXCEPT ![cur] = entries]
    BY <1>5, Zenon DEF PrizeExecutions, execute_prize
  <2>2. PICK new : lotteries' = [lotteries EXCEPT ![cur] = new]
    BY <1>5, Zenon DEF PrizeExecutions, execute_prize
  <2> QED
    BY <1>1, <1>2, <1>3, <2>1, <2>2, Zenon
<1>6. CASE PrizeClaims
  <2>1. PICK u \in Users, ids \in SUBSET (0..MaxLottery), votes \in VotingBalances :
           execute_claim_lottery(u, ids, votes)
    BY <1>6, Zenon DEF PrizeClaims
  <2> DEFINE won == {id \in ids : HasPrize(prizes[id][u])}
  <2>2. prizes' = [id \in DOMAIN prizes |->
             IF id \in won THEN [prizes[id] EXCEPT ![u] = ClaimedEntry(@)] ELSE prizes[id]]
    BY <2>1, Zenon DEF execute_claim_lottery
  <2>3. lotteries' = lotteries
    BY <2>1, Zenon DEF execute_claim_lottery
  <2> HIDE DEF won
  <2>4. CASE i \notin won
    BY <1>1, <1>2, <1>3, <2>2, <2>3, <2>4, Zenon
  <2>5. CASE i \in won
    <3>1. prizes'[i] = [prizes[i] EXCEPT ![u] = ClaimedEntry(prizes[i][u])]
      BY <1>1, <1>2, <2>2, <2>5, Zenon
    <3>2. prizes[i] \in [Users -> PrizeInfo]
      BY <1>1, <1>2
    <3>3. FinalEntry(i)
      BY <3>1, <3>2, Zenon DEF FinalEntry, ClaimedEntry
    <3> QED
      BY <2>3, <3>3
  <2> QED
    BY <2>4, <2>5
<1>7. CASE migrate_old_depositors
  BY <1>7, Zenon DEF migrate_old_depositors, FinalEntry
<1> QED
  BY <1>3, <1>4, <1>5, <1>6, <1>7, OthersKeepDraws, Zenon

-----------------------------------------------------------------------------
(* The price of a share.                                                   *)

\* A share buys at least as much aUST after the step as before.
PriceKept == pool.total_user_aust * pool'.total_user_shares
               <= pool'.total_user_aust * pool.total_user_shares

LEMMA PriceUnmoved ==
    ASSUME TypeOK, pool'.total_user_aust = pool.total_user_aust,
           pool'.total_user_shares = pool.total_user_shares
    PROVE  PriceKept
<1>1. pool.total_user_aust \in Nat /\ pool.total_user_shares \in Nat
  BY FieldTypes DEF MoneyTyped
<1>2. pool.total_user_aust * pool.total_user_shares \in Nat
  BY <1>1, MulNat
<1> QED
  BY <1>2 DEF PriceKept

LEMMA DepositKeepsPrice ==
    ASSUME IInv, NEW u, NEW amount, NEW o, NEW requested,
           deposit(u, amount, o, requested)
    PROVE  PriceKept
<1> DEFINE net    == deduct_tax(amount)
           minted_aust == AnchorMints(net)
           minted == DecMul(minted_aust, decimal_from_ratio_or_one(pool.total_user_shares,
                                                                   pool.total_user_aust))
           operator == OperatorSharesMinted(OperatorAfterDeposit(u, o), minted)
           aust   == pool.total_user_aust
           shares == pool.total_user_shares
<1>1. TypeOK /\ PoolNonDegenerate
  BY DEF IInv
<1>2. MoneyTyped
  BY <1>1, FieldTypes
<1>3. amount \in 1..purse
  BY Zenon DEF deposit
<1>4. net \in Nat
  BY <1>2, <1>3, DeductTaxBounds DEF MoneyTyped
<1>5. minted_aust \in Nat
  BY <1>2, <1>4, DecDivBounds DEF MoneyTyped, AnchorMints
<1>6. pool' = [pool EXCEPT !.total_operator_shares = @ + operator,
                           !.total_user_shares = @ + minted,
                           !.total_user_aust = @ + minted_aust]
  BY Zenon DEF deposit
<1> HIDE DEF net, minted_aust, operator
<1>7. minted \in Nat /\ aust * minted <= minted_aust * shares
  BY <1>1, <1>5, MintedShares
<1> HIDE DEF minted
<1>8. pool'.total_user_shares = shares + minted /\ pool'.total_user_aust = aust + minted_aust
  <2>1. pool \in Pool
    BY <1>1 DEF TypeOK
  <2> QED
    BY <1>6, <2>1, Zenon DEF Pool
<1>9. aust \in Nat /\ shares \in Nat
  BY <1>2 DEF MoneyTyped
<1>10. aust * (shares + minted) <= (aust + minted_aust) * shares
  <2> HIDE DEF aust, shares
  <2>1. /\ aust * (shares + minted) = aust * shares + aust * minted
        /\ (aust + minted_aust) * shares = aust * shares + minted_aust * shares
    BY <1>5, <1>7, <1>9
  <2>2. aust * shares \in Nat /\ aust * minted \in Nat /\ minted_aust * shares \in Nat
    BY <1>5, <1>7, <1>9, MulNat
  <2> QED
    BY <1>7, <2>1, <2>2
<1> QED
  BY <1>8, <1>10 DEF PriceKept

LEMMA WithdrawKeepsPrice ==
    ASSUME IInv, NEW u \in Users, NEW amount \in Nat \cup {None}, NEW instant,
           execute_withdraw(u, amount, instant)
    PROVE  PriceKept
<1> DEFINE burned == WithdrawnShares(u, amount)
           paid   == WithdrawnAust(burned)
           named  == operator_registered(depositors[u])
           aust   == pool.total_user_aust
           shares == pool.total_user_shares
<1>1. TypeOK /\ PoolNonDegenerate
  BY DEF IInv
<1>2. MoneyTyped
  BY <1>1, FieldTypes
<1>3. pool.total_user_shares # 0 /\ burned <= pool.total_user_shares
  BY Zenon DEF execute_withdraw
<1>4. pool' = [pool EXCEPT
                 !.total_operator_shares = IF named THEN @ - burned ELSE @,
                 !.total_user_shares = @ - burned,
                 !.total_user_aust = @ - paid]
  BY Zenon DEF execute_withdraw
<1>5. burned \in Nat
  BY <1>1, <1>3, WithdrawnSharesType
<1>6. aust \in Nat /\ shares \in Nat \ {0}
  BY <1>2, <1>3 DEF MoneyTyped
<1> HIDE DEF burned
<1>7. paid \in Nat /\ paid <= aust /\ paid * shares <= burned * aust
  BY <1>3, <1>5, <1>6, BurnBounds DEF WithdrawnAust
<1> HIDE DEF paid, named
<1>8. pool'.total_user_shares = shares - burned /\ pool'.total_user_aust = aust - paid
  <2>1. pool \in Pool
    BY <1>1 DEF TypeOK
  <2> QED
    BY <1>4, <2>1, Zenon DEF Pool
<1>9. aust * (shares - burned) <= (aust - paid) * shares
  <2> HIDE DEF aust, shares
  <2>1. /\ aust * (shares - burned) = aust * shares - aust * burned
        /\ (aust - paid) * shares = aust * shares - paid * shares
        /\ aust * burned = burned * aust
    BY <1>5, <1>6, <1>7
  <2>2. aust * shares \in Nat /\ burned * aust \in Nat /\ paid * shares \in Nat
    BY <1>5, <1>6, <1>7, MulNat
  <2> QED
    BY <1>7, <2>1, <2>2
<1> QED
  BY <1>8, <1>9 DEF PriceKept

LEMMA SponsorKeepsPrice ==
    ASSUME TypeOK, Sponsorships \/ SponsorWithdrawals
    PROVE  PriceKept
<1>1. pool \in Pool
  BY DEF TypeOK
<1>2. ASSUME NEW u, NEW amount, SponsorDeposit(u, amount)
      PROVE  \E x : pool' = [pool EXCEPT !.total_sponsor_lottery_deposits = x]
  BY <1>2, Zenon DEF SponsorDeposit
<1>3. ASSUME NEW u, execute_sponsor_withdraw(u)
      PROVE  \E x : pool' = [pool EXCEPT !.total_sponsor_lottery_deposits = x]
  BY <1>3, Zenon DEF execute_sponsor_withdraw
<1>4. ASSUME NEW u, NEW amount, NEW d, SponsorAward(u, amount, d)
      PROVE  pool' = pool
  BY <1>4, Zenon DEF SponsorAward
<1>5. \/ pool' = pool
      \/ \E x : pool' = [pool EXCEPT !.total_sponsor_lottery_deposits = x]
  BY <1>2, <1>3, <1>4, Zenon DEF Sponsorships, SponsorWithdrawals, execute_sponsor
<1>6. /\ pool'.total_user_aust = pool.total_user_aust
      /\ pool'.total_user_shares = pool.total_user_shares
  BY <1>1, <1>5, Zenon DEF Pool
<1> QED
  BY <1>6, PriceUnmoved

LEMMA PriceStep ==
    ASSUME IInv, Next, lotteries' = lotteries
    PROVE  PriceKept
<1>1. TypeOK /\ ScheduleSound
  BY DEF IInv
<1>2. CASE pool' = pool
  BY <1>1, <1>2, PriceUnmoved
<1>3. CASE Deposits \/ Gifts
  BY <1>3, DepositKeepsPrice, Zenon DEF Deposits, Gifts, execute_deposit, execute_gift
<1>4. CASE Withdrawals
  <2>1. PICK u \in Users, amount \in WithdrawAmounts, instant \in InstantChoices :
               execute_withdraw(u, amount, instant)
    BY <1>4, Zenon DEF Withdrawals
  <2>2. amount \in Nat \cup {None}
    BY InputAssumption DEF Option
  <2> QED
    BY <2>1, <2>2, WithdrawKeepsPrice
<1>5. CASE Sponsorships \/ SponsorWithdrawals
  BY <1>1, <1>5, SponsorKeepsPrice
<1>6. ~execute_lottery
  <2> SUFFICES ASSUME execute_lottery PROVE FALSE
    OBVIOUS
  <2>1. IInv'
    BY LotteryStep
  <2>2. state'.next_lottery_exec_time = block.time + config.block_time
    <3>1. state \in State
      BY <1>1 DEF TypeOK
    <3>2. PICK buckets : state' = [state EXCEPT
             !.next_lottery_exec_time = block.time + config.block_time,
             !.prize_buckets = buckets,
             !.last_lottery_execution_aust_exchange_rate = rate]
      BY Zenon DEF execute_lottery
    <3> QED
      BY <3>1, <3>2, Zenon DEF State
  <2>3. state'.current_lottery = state.current_lottery
    <3>1. state \in State
      BY <1>1 DEF TypeOK
    <3>2. PICK time, buckets, r : state' = [state EXCEPT
             !.next_lottery_exec_time = time,
             !.prize_buckets = buckets,
             !.last_lottery_execution_aust_exchange_rate = r]
      BY Zenon DEF execute_lottery
    <3> QED
      BY <3>1, <3>2, Zenon DEF State
  <2>4. ~LotteryStarted
    BY Zenon DEF execute_lottery, LotteryNotStarted
  <2>5. LotteryStarted'
    <3>1. state'.next_lottery_exec_time # None
      BY <1>1, <2>2, FieldTypes, NoneAssumption DEF ScheduleTyped, ConfigTyped
    <3> QED
      BY <2>1, <3>1 DEF IInv, LotteryLifecycle
  <2> QED
    BY <2>3, <2>4, <2>5 DEF LotteryStarted, current_lottery
<1>7. CASE TicketClaims \/ UnbondedClaims \/ RewardClaims
  <2>1. pool' = pool
    BY <1>7, Zenon DEF TicketClaims, UnbondedClaims, RewardClaims, execute_claim_tickets,
                       execute_claim_unbonded, execute_claim_rewards
  <2> QED
    BY <1>2, <2>1
<1>8. CASE execute_epoch_ops \/ PrizeExecutions \/ PrizeClaims
  <2>1. pool' = pool
    BY <1>8, ZenonT(30) DEF execute_epoch_ops, PrizeExecutions, PrizeClaims, execute_prize,
                            execute_claim_lottery
  <2> QED
    BY <1>2, <2>1
<1>9. CASE Configurations \/ Clock
  <2>1. pool' = pool
    BY <1>9, Zenon DEF Configurations, execute_update_config, Clock, NextBlock, storage,
                       execute_update_lottery_config, execute_register_contracts
  <2> QED
    BY <1>2, <2>1
<1>10. CASE migrate_old_depositors
  BY <1>2, <1>10, Zenon DEF migrate_old_depositors
<1> QED
  BY <1>3, <1>4, <1>5, <1>6, <1>7, <1>8, <1>9, <1>10, Zenon DEF Next

\* Deposits, gifts and withdrawals never dilute the depositors who stay.
THEOREM SharesNeverDiluted == Spec => SharePriceNeverDiluted
<1>1. IInv /\ [Next]_vars => [lotteries' = lotteries => PriceKept]_vars
  BY PriceStep, Zenon
<1>2. [lotteries' = lotteries => PriceKept]_vars =>
        [/\ lotteries' = lotteries
         /\ pool.total_user_shares # 0
         /\ pool'.total_user_shares # 0
         => pool.total_user_aust * pool'.total_user_shares
              <= pool'.total_user_aust * pool.total_user_shares]_vars
  BY Zenon DEF PriceKept
<1> QED
  BY <1>1, <1>2, LottoInvariant, PTL DEF Spec, SharePriceNeverDiluted

-----------------------------------------------------------------------------
(* How often a ticket is in a list.                                        *)

Places(s, t) == {i \in DOMAIN s : s[i] = t}

LEMMA PlacesFinite ==
    ASSUME NEW s \in Seq(Tickets), NEW t
    PROVE  /\ Places(s, t) \subseteq 1..Len(s) /\ IsFiniteSet(Places(s, t))
           /\ Count(s, t) = Cardinality(Places(s, t)) /\ Count(s, t) \in Nat
<1>1. IsFiniteSet(1..Len(s)) /\ DOMAIN s = 1..Len(s)
  BY LenProperties, FS_Interval
<1>2. Places(s, t) \subseteq 1..Len(s)
  BY <1>1 DEF Places
<1>3. Count(s, t) = Cardinality(Places(s, t))
  BY DEF Count, Places
<1> QED
  BY <1>1, <1>2, <1>3, FS_Subset, FS_CardinalityType

LEMMA CountConcat ==
    ASSUME NEW s \in Seq(Tickets), NEW c \in Seq(Tickets), NEW t
    PROVE  Count(s \o c, t) = Count(s, t) + Count(c, t)
<1> DEFINE A == Places(s, t)
           B == Places(c, t)
           n == Len(s)
           D == {n + i : i \in B}
           shift == [i \in B |-> n + i]
<1>1. /\ n \in Nat /\ Len(c) \in Nat /\ s \o c \in Seq(Tickets)
      /\ DOMAIN s = 1..n /\ DOMAIN c = 1..Len(c) /\ DOMAIN (s \o c) = 1..(n + Len(c))
      /\ \A i \in 1..(n + Len(c)) : (s \o c)[i] = IF i <= n THEN s[i] ELSE c[i - n]
  BY LenProperties, ConcatProperties
<1>2. A \subseteq 1..n /\ B \subseteq 1..Len(c) /\ IsFiniteSet(A) /\ IsFiniteSet(B)
  BY PlacesFinite
<1>3. Places(s \o c, t) = A \cup D
  <2>1. ASSUME NEW i \in Places(s \o c, t) PROVE i \in A \cup D
    <3>1. i \in 1..(n + Len(c)) /\ (s \o c)[i] = t
      BY <1>1 DEF Places
    <3>2. CASE i <= n
      BY <1>1, <3>1, <3>2 DEF Places
    <3>3. CASE i > n
      <4>1. i - n \in 1..Len(c) /\ c[i - n] = t /\ i = n + (i - n)
        BY <1>1, <3>1, <3>3
      <4> QED
        BY <1>1, <4>1 DEF Places
    <3> QED
      BY <1>1, <3>1, <3>2, <3>3
  <2>2. ASSUME NEW i \in A PROVE i \in Places(s \o c, t)
    <3>1. i \in 1..n /\ s[i] = t
      BY <1>1 DEF Places
    <3>2. i \in 1..(n + Len(c)) /\ (s \o c)[i] = s[i]
      BY <1>1, <3>1
    <3> QED
      BY <1>1, <3>1, <3>2 DEF Places
  <2>3. ASSUME NEW i \in B PROVE n + i \in Places(s \o c, t)
    <3>1. i \in 1..Len(c) /\ c[i] = t
      BY <1>1 DEF Places
    <3>2. n + i \in 1..(n + Len(c)) /\ (s \o c)[n + i] = c[i]
      BY <1>1, <3>1
    <3> QED
      BY <1>1, <3>1, <3>2 DEF Places
  <2> QED
    BY <2>1, <2>2, <2>3
<1>4. IsFiniteSet(D) /\ Cardinality(D) = Cardinality(B)
  <2>1. shift \in [B -> D]
    OBVIOUS
  <2>2. \A i, j \in B : shift[i] = shift[j] => i = j
    BY <1>1, <1>2
  <2>3. \A d \in D : \E i \in B : shift[i] = d
    OBVIOUS
  <2> HIDE DEF shift
  <2>4. shift \in Bijection(B, D)
    BY <2>1, <2>2, <2>3 DEF Bijection, Injection, Surjection, IsInjective
  <2>5. ExistsBijection(B, D)
    BY <2>4 DEF ExistsBijection
  <2> HIDE DEF B, D
  <2> QED
    BY <1>2, <2>5, FS_Bijection
<1>5. A \cap D = {}
  BY <1>1, <1>2
<1> HIDE DEF A, B, D
<1>6. Cardinality(A \cup D) = Cardinality(A) + Cardinality(D) - Cardinality(A \cap D)
  BY <1>2, <1>4, FS_Union
<1>7. Cardinality(A \cap D) = 0 /\ Cardinality(A) \in Nat /\ Cardinality(D) \in Nat
  BY <1>2, <1>4, <1>5, FS_EmptySet, FS_CardinalityType
<1>8. Count(s \o c, t) = Cardinality(A \cup D) /\ Count(s, t) = Cardinality(A)
         /\ Count(c, t) = Cardinality(B)
  BY <1>1, <1>3, PlacesFinite DEF A, B
<1> QED
  BY <1>4, <1>6, <1>7, <1>8

\* Taking the first tickets off a list.
LEMMA CountSplit ==
    ASSUME NEW s \in Seq(Tickets), NEW n \in 0..Len(s), NEW t
    PROVE  LET a == SubSeq(s, 1, n)
               b == SubSeq(s, n + 1, Len(s))
           IN /\ a \in Seq(Tickets) /\ b \in Seq(Tickets)
              /\ Len(a) = n /\ Len(b) = Len(s) - n
              /\ Count(s, t) = Count(a, t) + Count(b, t)
<1> DEFINE a == SubSeq(s, 1, n)
           b == SubSeq(s, n + 1, Len(s))
<1>1. Len(s) \in Nat /\ n \in Nat /\ n <= Len(s) /\ \A i \in 1..Len(s) : s[i] \in Tickets
  BY LenProperties, ElementOfSeq
<1>2. a \in Seq(Tickets) /\ Len(a) = n
  <2>1. \A i \in 1..n : s[i] \in Tickets
    BY <1>1
  <2>2. 1 \in Int /\ n \in Int
    BY <1>1
  <2>3. a \in Seq(Tickets) /\ Len(a) = IF 1 <= n THEN n - 1 + 1 ELSE 0
    BY <2>1, <2>2, SubSeqProperties
  <2> QED
    BY <1>1, <2>3
<1>3. b \in Seq(Tickets) /\ Len(b) = Len(s) - n
  <2>1. \A i \in (n + 1)..Len(s) : s[i] \in Tickets
    BY <1>1
  <2>2. n + 1 \in Int /\ Len(s) \in Int
    BY <1>1
  <2>3. b \in Seq(Tickets) /\ Len(b) = IF n + 1 <= Len(s) THEN Len(s) - (n + 1) + 1 ELSE 0
    BY <2>1, <2>2, SubSeqProperties
  <2> QED
    BY <1>1, <2>3
<1>4. a \o b = s
  <2>1. 1 \in 1..(Len(s) + 1) /\ n \in (1 - 1)..Len(s) /\ Len(s) \in n..Len(s)
    BY <1>1
  <2>2. a \o b = SubSeq(s, 1, Len(s))
    BY <2>1, ConcatAdjacentSubSeq
  <2> QED
    BY <2>2, SubSeqFull
<1> HIDE DEF a, b
<1>5. Count(a \o b, t) = Count(a, t) + Count(b, t)
  BY <1>2, <1>3, CountConcat
<1> QED
  BY <1>2, <1>3, <1>4, <1>5 DEF a, b

-----------------------------------------------------------------------------
(* The sums of the books, of any table of depositors or sponsors.          *)

SharesIn(ds) == [u \in Users |-> ds[u].shares]
LengthsIn(ds) == [u \in Users |-> Len(ds[u].tickets)]
NamingIn(ds, o) == [u \in Users |-> IF ds[u].operator_addr = o THEN ds[u].shares ELSE 0]
DepositsIn(ss) == [u \in Users |-> ss[u].lottery_deposit]

SharesTotal(ds) == SumFunctionOnSet(SharesIn(ds), Users)
LengthsTotal(ds) == SumFunctionOnSet(LengthsIn(ds), Users)
NamingTotal(ds, o) == SumFunctionOnSet(NamingIn(ds, o), Users)
DepositsTotal(ss) == SumFunctionOnSet(DepositsIn(ss), Users)

DepositorsTyped(ds) == \A u \in Users : ds[u].shares \in Nat /\ ds[u].tickets \in Seq(Tickets)

HoldersIn(ts, t) == IF t \in DOMAIN ts THEN ts[t] ELSE [u \in Users |-> 0]
HoldersTotal(ts, t) == SumFunctionOnSet(HoldersIn(ts, t), Users)

\* The registry of tickets agrees with the depositors' lists, and no ticket
\* has more than max holders.
Registered(ts, ds) ==
    \A t \in Tickets : \A u \in Users : HoldersIn(ts, t)[u] = Count(ds[u].tickets, t)
Limited(ts, max) == \A t \in Tickets : HoldersTotal(ts, t) <= max

Books ==
    /\ pool.total_user_shares = SharesTotal(depositors)
    /\ pool.total_sponsor_lottery_deposits = DepositsTotal(sponsors)
    /\ \A o \in Users : operators[o].shares = NamingTotal(depositors, o)
    /\ Registered(tickets, depositors)
    /\ Limited(tickets, config.max_holders)
    /\ state.total_tickets <= LengthsTotal(depositors)

LEMMA UsersFinite == IsFiniteSet(Users)
BY AddressAssumption

LEMMA DepositorsAreTyped == TypeOK => DepositorsTyped(depositors)
BY DepositorFields DEF DepositorsTyped

LEMMA DepositorsStayTyped == TypeOK' => DepositorsTyped(depositors')
<1> SUFFICES ASSUME TypeOK', NEW u \in Users
             PROVE  depositors'[u].shares \in Nat /\ depositors'[u].tickets \in Seq(Tickets)
  BY DEF DepositorsTyped
<1>1. depositors'[u] \in DepositorInfo
  BY DEF TypeOK
<1> QED
  BY <1>1 DEF DepositorInfo

LEMMA TotalsTyped ==
    ASSUME NEW ds, DepositorsTyped(ds)
    PROVE  /\ SharesTotal(ds) \in Nat /\ LengthsTotal(ds) \in Nat
           /\ \A o \in Users : NamingTotal(ds, o) \in Nat
<1>1. \A u \in Users : SharesIn(ds)[u] \in Nat
  BY DEF SharesIn, DepositorsTyped
<1>2. \A u \in Users : LengthsIn(ds)[u] \in Nat
  BY LenProperties DEF LengthsIn, DepositorsTyped
<1>3. \A o \in Users : \A u \in Users : NamingIn(ds, o)[u] \in Nat
  BY DEF NamingIn, DepositorsTyped
<1> QED
  BY <1>1, <1>2, <1>3, UsersFinite, SumNat DEF SharesTotal, LengthsTotal, NamingTotal

\* What the change of one depositor does to the sums.
LEMMA OneDepositor ==
    ASSUME NEW ds, NEW es, DepositorsTyped(ds), DepositorsTyped(es), NEW u \in Users,
           \A v \in Users \ {u} : /\ es[v].shares = ds[v].shares
                                  /\ es[v].tickets = ds[v].tickets
                                  /\ es[v].operator_addr = ds[v].operator_addr
    PROVE  /\ SharesTotal(es) = SharesTotal(ds) - ds[u].shares + es[u].shares
           /\ LengthsTotal(es) = LengthsTotal(ds) - Len(ds[u].tickets) + Len(es[u].tickets)
           /\ \A o \in Users : NamingTotal(es, o) = NamingTotal(ds, o)
                 - (IF ds[u].operator_addr = o THEN ds[u].shares ELSE 0)
                 + (IF es[u].operator_addr = o THEN es[u].shares ELSE 0)
<1>1. SharesTotal(es) = SharesTotal(ds) - ds[u].shares + es[u].shares
  <2> DEFINE f == SharesIn(ds)
             g == SharesIn(es)
  <2>1. /\ \A s \in Users : f[s] \in Int
        /\ \A s \in Users : g[s] \in Int
        /\ \A s \in Users \ {u} : g[s] = f[s]
        /\ f[u] = ds[u].shares /\ g[u] = es[u].shares
    BY DEF SharesIn, DepositorsTyped
  <2> HIDE DEF f, g
  <2>2. SumFunctionOnSet(g, Users) = SumFunctionOnSet(f, Users) - f[u] + g[u]
    BY <2>1, UsersFinite, SumUpdate
  <2> QED
    BY <2>1, <2>2 DEF SharesTotal, f, g
<1>2. LengthsTotal(es) = LengthsTotal(ds) - Len(ds[u].tickets) + Len(es[u].tickets)
  <2> DEFINE f == LengthsIn(ds)
             g == LengthsIn(es)
  <2>1. /\ \A s \in Users : f[s] \in Int
        /\ \A s \in Users : g[s] \in Int
        /\ \A s \in Users \ {u} : g[s] = f[s]
        /\ f[u] = Len(ds[u].tickets) /\ g[u] = Len(es[u].tickets)
    BY LenProperties DEF LengthsIn, DepositorsTyped
  <2> HIDE DEF f, g
  <2>2. SumFunctionOnSet(g, Users) = SumFunctionOnSet(f, Users) - f[u] + g[u]
    BY <2>1, UsersFinite, SumUpdate
  <2> QED
    BY <2>1, <2>2 DEF LengthsTotal, f, g
<1>3. ASSUME NEW o \in Users
      PROVE  NamingTotal(es, o) = NamingTotal(ds, o)
                 - (IF ds[u].operator_addr = o THEN ds[u].shares ELSE 0)
                 + (IF es[u].operator_addr = o THEN es[u].shares ELSE 0)
  <2> DEFINE f == NamingIn(ds, o)
             g == NamingIn(es, o)
  <2>1. /\ \A s \in Users : f[s] \in Int
        /\ \A s \in Users : g[s] \in Int
        /\ \A s \in Users \ {u} : g[s] = f[s]
        /\ f[u] = IF ds[u].operator_addr = o THEN ds[u].shares ELSE 0
        /\ g[u] = IF es[u].operator_addr = o THEN es[u].shares ELSE 0
    BY DEF NamingIn, DepositorsTyped
  <2> HIDE DEF f, g
  <2>2. SumFunctionOnSet(g, Users) = SumFunctionOnSet(f, Users) - f[u] + g[u]
    BY <2>1, UsersFinite, SumUpdate
  <2>3. NamingTotal(es, o) = NamingTotal(ds, o) - f[u] + g[u]
    BY <2>2 DEF NamingTotal, f, g
  <2> QED
    BY <2>1, <2>3
<1> QED
  BY <1>1, <1>2, <1>3

\* The same, of a step of the contract.
LEMMA DepositorStep ==
    ASSUME TypeOK, TypeOK', NEW u \in Users,
           \A v \in Users \ {u} : depositors'[v] = depositors[v]
    PROVE  /\ SharesTotal(depositors')
                = SharesTotal(depositors) - depositors[u].shares + depositors'[u].shares
           /\ LengthsTotal(depositors')
                = LengthsTotal(depositors) - Len(depositors[u].tickets) + Len(depositors'[u].tickets)
           /\ \A o \in Users : NamingTotal(depositors', o) = NamingTotal(depositors, o)
                 - (IF depositors[u].operator_addr = o THEN depositors[u].shares ELSE 0)
                 + (IF depositors'[u].operator_addr = o THEN depositors'[u].shares ELSE 0)
           /\ SharesTotal(depositors) \in Nat /\ LengthsTotal(depositors) \in Nat
           /\ \A o \in Users : NamingTotal(depositors, o) \in Nat
<1>1. DepositorsTyped(depositors) /\ DepositorsTyped(depositors')
  BY DepositorsAreTyped, DepositorsStayTyped
<1>2. \A v \in Users \ {u} : /\ depositors'[v].shares = depositors[v].shares
                              /\ depositors'[v].tickets = depositors[v].tickets
                              /\ depositors'[v].operator_addr = depositors[v].operator_addr
  OBVIOUS
<1>3. \A ds, es : DepositorsTyped(ds) /\ DepositorsTyped(es)
          /\ (\A v \in Users \ {u} : /\ es[v].shares = ds[v].shares
                                      /\ es[v].tickets = ds[v].tickets
                                      /\ es[v].operator_addr = ds[v].operator_addr)
        => /\ SharesTotal(es) = SharesTotal(ds) - ds[u].shares + es[u].shares
           /\ LengthsTotal(es) = LengthsTotal(ds) - Len(ds[u].tickets) + Len(es[u].tickets)
           /\ \A o \in Users : NamingTotal(es, o) = NamingTotal(ds, o)
                 - (IF ds[u].operator_addr = o THEN ds[u].shares ELSE 0)
                 + (IF es[u].operator_addr = o THEN es[u].shares ELSE 0)
  BY OneDepositor
<1>4. /\ SharesTotal(depositors) \in Nat /\ LengthsTotal(depositors) \in Nat
      /\ \A o \in Users : NamingTotal(depositors, o) \in Nat
  BY <1>1, TotalsTyped
<1>5. /\ SharesTotal(depositors')
           = SharesTotal(depositors) - depositors[u].shares + depositors'[u].shares
      /\ LengthsTotal(depositors')
           = LengthsTotal(depositors) - Len(depositors[u].tickets) + Len(depositors'[u].tickets)
  BY <1>1, <1>2, <1>3, ZenonT(30)
<1>6. \A o \in Users : NamingTotal(depositors', o) = NamingTotal(depositors, o)
         - (IF depositors[u].operator_addr = o THEN depositors[u].shares ELSE 0)
         + (IF depositors'[u].operator_addr = o THEN depositors'[u].shares ELSE 0)
  BY <1>1, <1>2, <1>3, ZenonT(30)
<1> QED
  BY <1>4, <1>5, <1>6, Zenon

\* The same of one sponsor.
LEMMA OneSponsor ==
    ASSUME NEW ss, NEW rs, NEW u \in Users,
           \A v \in Users : ss[v].lottery_deposit \in Nat,
           \A v \in Users : rs[v].lottery_deposit \in Nat,
           \A v \in Users \ {u} : rs[v].lottery_deposit = ss[v].lottery_deposit
    PROVE  DepositsTotal(rs) = DepositsTotal(ss) - ss[u].lottery_deposit + rs[u].lottery_deposit
<1> DEFINE f == DepositsIn(ss)
           g == DepositsIn(rs)
<1>1. /\ \A s \in Users : f[s] \in Int
      /\ \A s \in Users : g[s] \in Int
      /\ \A s \in Users \ {u} : g[s] = f[s]
      /\ f[u] = ss[u].lottery_deposit /\ g[u] = rs[u].lottery_deposit
  BY DEF DepositsIn
<1> HIDE DEF f, g
<1>2. SumFunctionOnSet(g, Users) = SumFunctionOnSet(f, Users) - f[u] + g[u]
  BY <1>1, UsersFinite, SumUpdate
<1> QED
  BY <1>1, <1>2 DEF DepositsTotal, f, g

-----------------------------------------------------------------------------
(* Tickets come and go in the registry as in the lists.                    *)

TicketsTyped(ts) == DOMAIN ts \subseteq Tickets /\ \A t \in DOMAIN ts : ts[t] \in [Users -> Nat]

LEMMA HoldersTyped ==
    ASSUME NEW ts, TicketsTyped(ts), NEW t
    PROVE  HoldersIn(ts, t) \in [Users -> Nat] /\ HoldersTotal(ts, t) \in Nat
<1>1. HoldersIn(ts, t) \in [Users -> Nat]
  BY DEF HoldersIn, TicketsTyped
<1>2. \A u \in Users : HoldersIn(ts, t)[u] \in Nat
  BY <1>1
<1> QED
  BY <1>1, <1>2, UsersFinite, SumNat DEF HoldersTotal

LEMMA OneHolder ==
    ASSUME NEW ts, NEW rs, TicketsTyped(ts), TicketsTyped(rs), NEW t, NEW u \in Users,
           \A v \in Users \ {u} : HoldersIn(rs, t)[v] = HoldersIn(ts, t)[v]
    PROVE  HoldersTotal(rs, t) = HoldersTotal(ts, t) - HoldersIn(ts, t)[u] + HoldersIn(rs, t)[u]
<1> DEFINE f == HoldersIn(ts, t)
           g == HoldersIn(rs, t)
<1>0. f \in [Users -> Nat] /\ g \in [Users -> Nat]
  BY HoldersTyped
<1>1. /\ \A s \in Users : f[s] \in Int
      /\ \A s \in Users : g[s] \in Int
      /\ \A s \in Users \ {u} : g[s] = f[s]
  BY <1>0
<1> HIDE DEF f, g
<1>2. SumFunctionOnSet(g, Users) = SumFunctionOnSet(f, Users) - f[u] + g[u]
  BY <1>1, UsersFinite, SumUpdate
<1> QED
  BY <1>2 DEF HoldersTotal, f, g

LEMMA TicketsAreTyped == TypeOK => TicketsTyped(tickets) /\ \A t : HoldersIn(tickets, t) = Holders(t)
BY DEF TypeOK, TicketsTyped, HoldersIn, Holders

LEMMA TicketsStayTyped == TypeOK' => TicketsTyped(tickets')
BY DEF TypeOK, TicketsTyped

LEMMA NumberOfHoldersIs ==
    ASSUME TypeOK, NEW t
    PROVE  NumberOfHolders(t) = HoldersTotal(tickets, t)
<1> DEFINE f == [u \in Users |-> Holders(t)[u]]
<1>1. f = HoldersIn(tickets, t)
  BY TicketsAreTyped, HoldersType
<1>2. NumberOfHolders(t) = SumFunction(f)
  BY DEF NumberOfHolders, SumOver
<1>3. DOMAIN f = Users
  OBVIOUS
<1> HIDE DEF f
<1> QED
  BY <1>1, <1>2, <1>3, SumOnDomain DEF HoldersTotal

\* Adding tickets to u's list and to the registry.
LEMMA AddingRegisters ==
    ASSUME TypeOK, Registered(tickets, depositors), Limited(tickets, config.max_holders),
           NEW u \in Users, NEW c \in Seq(Tickets),
           \A t \in Range(c) : NumberOfHolders(t) + Count(c, t) <= config.max_holders,
           NEW es, es[u].tickets = depositors[u].tickets \o c,
           \A v \in Users \ {u} : es[v].tickets = depositors[v].tickets
    PROVE  /\ Registered(AddTickets(u, c), es)
           /\ Limited(AddTickets(u, c), config.max_holders)
<1> DEFINE rs == AddTickets(u, c)
<1>1. TicketsTyped(rs) /\ TicketsTyped(tickets)
  <2>1. /\ DOMAIN rs \subseteq Tickets
        /\ rs \in [DOMAIN rs -> [Users -> Nat]]
    BY AddTicketsType
  <2> HIDE DEF rs
  <2> QED
    BY <2>1, TicketsAreTyped DEF TicketsTyped
<1>2. ASSUME NEW t \in Tickets
      PROVE  /\ HoldersIn(rs, t)[u] = HoldersIn(tickets, t)[u] + Count(c, t)
             /\ \A v \in Users \ {u} : HoldersIn(rs, t)[v] = HoldersIn(tickets, t)[v]
  <2>1. HoldersIn(tickets, t) \in [Users -> Nat] /\ HoldersIn(tickets, t) = Holders(t)
    BY <1>1, HoldersTyped, TicketsAreTyped
  <2>2. DOMAIN rs = DOMAIN tickets \cup Range(c)
    BY DEF AddTickets
  <2>3. CASE t \in DOMAIN rs
    <3>1. rs[t] = [Holders(t) EXCEPT ![u] = @ + Count(c, t)]
      BY <2>2, <2>3 DEF AddTickets
    <3>2. HoldersIn(rs, t) = rs[t]
      BY <2>3 DEF HoldersIn
    <3> HIDE DEF rs
    <3> QED
      BY <2>1, <3>1, <3>2
  <2>4. CASE t \notin DOMAIN rs
    <3>1. Count(c, t) = 0
      BY <2>2, <2>4, CountType
    <3>2. HoldersIn(rs, t) = HoldersIn(tickets, t)
      BY <2>2, <2>4 DEF HoldersIn
    <3>3. HoldersIn(tickets, t)[u] \in Nat
      BY <2>1
    <3> QED
      BY <3>1, <3>2, <3>3
  <2> QED
    BY <2>3, <2>4
<1> HIDE DEF rs
<1>3. Registered(rs, es)
  <2> SUFFICES ASSUME NEW t \in Tickets, NEW v \in Users
               PROVE  HoldersIn(rs, t)[v] = Count(es[v].tickets, t)
    BY DEF Registered
  <2>1. HoldersIn(tickets, t)[v] = Count(depositors[v].tickets, t)
    BY DEF Registered
  <2>2. CASE v = u
    <3>1. Count(es[u].tickets, t) = Count(depositors[u].tickets, t) + Count(c, t)
      BY DepositorFields, CountConcat
    <3> QED
      BY <1>2, <2>1, <2>2, <3>1
  <2>3. CASE v # u
    BY <1>2, <2>1, <2>3
  <2> QED
    BY <2>2, <2>3
<1>4. ASSUME NEW t \in Tickets
      PROVE  HoldersTotal(rs, t) <= config.max_holders
  <2>1. HoldersTotal(rs, t)
          = HoldersTotal(tickets, t) - HoldersIn(tickets, t)[u] + HoldersIn(rs, t)[u]
    BY <1>1, <1>2, OneHolder
  <2>2. /\ HoldersTotal(tickets, t) \in Nat /\ HoldersIn(tickets, t)[u] \in Nat
        /\ Count(c, t) \in Nat
    BY <1>1, HoldersTyped, CountType
  <2>3. HoldersTotal(rs, t) = HoldersTotal(tickets, t) + Count(c, t)
    BY <1>2, <2>1, <2>2
  <2>4. CASE t \in Range(c)
    BY <2>3, <2>4, NumberOfHoldersIs
  <2>5. CASE t \notin Range(c)
    <3>1. Count(c, t) = 0
      BY <2>5, CountType
    <3>2. HoldersTotal(tickets, t) <= config.max_holders
      BY DEF Limited
    <3> QED
      BY <2>2, <2>3, <3>1, <3>2
  <2> QED
    BY <2>4, <2>5
<1> QED
  BY <1>3, <1>4 DEF Limited, rs

\* Taking the first n tickets of u's list off both.
LEMMA RemovingRegisters ==
    ASSUME TypeOK, Registered(tickets, depositors), Limited(tickets, config.max_holders),
           NEW u \in Users, NEW n \in 0..Len(depositors[u].tickets),
           NEW c, c = SubSeq(depositors[u].tickets, 1, n),
           \A t \in Range(c) : Count(c, t) <= Holders(t)[u],
           NEW es, es[u].tickets = SubSeq(depositors[u].tickets, n + 1, Len(depositors[u].tickets)),
           \A v \in Users \ {u} : es[v].tickets = depositors[v].tickets
    PROVE  /\ Registered(RemoveTickets(u, c), es)
           /\ Limited(RemoveTickets(u, c), config.max_holders)
<1> DEFINE rs == RemoveTickets(u, c)
<1>0. /\ c \in Seq(Tickets) /\ es[u].tickets \in Seq(Tickets)
      /\ \A t : Count(depositors[u].tickets, t) = Count(c, t) + Count(es[u].tickets, t)
      /\ \A t : Count(c, t) \in Nat /\ Count(es[u].tickets, t) \in Nat
  <2>1. depositors[u].tickets \in Seq(Tickets)
    BY DepositorFields
  <2>2. /\ c \in Seq(Tickets) /\ es[u].tickets \in Seq(Tickets)
        /\ \A t : Count(depositors[u].tickets, t) = Count(c, t) + Count(es[u].tickets, t)
    BY <2>1, CountSplit
  <2> QED
    BY <2>2, CountType
<1>1. TicketsTyped(rs) /\ TicketsTyped(tickets)
  <2>1. /\ DOMAIN rs \subseteq Tickets
        /\ rs \in [DOMAIN rs -> [Users -> Nat]]
    BY <1>0, RemoveTicketsType
  <2> HIDE DEF rs
  <2> QED
    BY <2>1, TicketsAreTyped DEF TicketsTyped
<1>2. ASSUME NEW t \in Tickets
      PROVE  /\ HoldersIn(rs, t)[u] = HoldersIn(tickets, t)[u] - Count(c, t)
             /\ \A v \in Users \ {u} : HoldersIn(rs, t)[v] = HoldersIn(tickets, t)[v]
  <2>1. HoldersIn(tickets, t) \in [Users -> Nat] /\ HoldersIn(tickets, t) = Holders(t)
    BY <1>1, HoldersTyped, TicketsAreTyped
  <2>2. DOMAIN rs = DOMAIN tickets
    BY DEF RemoveTickets
  <2>3. CASE t \in DOMAIN tickets
    <3>1. rs[t] = [tickets[t] EXCEPT ![u] = @ - Count(c, t)]
      BY <2>3 DEF RemoveTickets
    <3>2. HoldersIn(rs, t) = rs[t] /\ HoldersIn(tickets, t) = tickets[t]
      BY <2>2, <2>3 DEF HoldersIn
    <3> HIDE DEF rs
    <3> QED
      BY <2>1, <3>1, <3>2
  <2>4. CASE t \notin DOMAIN tickets
    <3>1. HoldersIn(tickets, t) = [v \in Users |-> 0]
      BY <2>4 DEF HoldersIn
    <3>2. Count(depositors[u].tickets, t) = 0
      BY <3>1 DEF Registered
    <3>3. Count(c, t) = 0
      BY <1>0, <3>2
    <3>4. HoldersIn(rs, t) = HoldersIn(tickets, t)
      BY <2>2, <2>4 DEF HoldersIn
    <3> QED
      BY <3>1, <3>3, <3>4
  <2> QED
    BY <2>3, <2>4
<1> HIDE DEF rs
<1>3. Registered(rs, es)
  <2> SUFFICES ASSUME NEW t \in Tickets, NEW v \in Users
               PROVE  HoldersIn(rs, t)[v] = Count(es[v].tickets, t)
    BY DEF Registered
  <2>1. HoldersIn(tickets, t)[v] = Count(depositors[v].tickets, t)
    BY DEF Registered
  <2>2. CASE v = u
    <3>1. /\ Count(depositors[u].tickets, t) = Count(c, t) + Count(es[u].tickets, t)
          /\ Count(c, t) \in Nat /\ Count(es[u].tickets, t) \in Nat
      BY <1>0
    <3>2. HoldersIn(rs, t)[u] = Count(depositors[u].tickets, t) - Count(c, t)
      BY <1>2, <2>1, <2>2
    <3>3. HoldersIn(rs, t)[u] = Count(es[u].tickets, t)
      BY <3>1, <3>2
    <3> QED
      BY <2>2, <3>3
  <2>3. CASE v # u
    BY <1>2, <2>1, <2>3
  <2> QED
    BY <2>2, <2>3
<1>4. ASSUME NEW t \in Tickets
      PROVE  HoldersTotal(rs, t) <= config.max_holders
  <2>1. HoldersTotal(rs, t)
          = HoldersTotal(tickets, t) - HoldersIn(tickets, t)[u] + HoldersIn(rs, t)[u]
    BY <1>1, <1>2, OneHolder
  <2>2. /\ HoldersTotal(tickets, t) \in Nat /\ HoldersIn(tickets, t)[u] \in Nat
        /\ Count(c, t) \in Nat /\ config.max_holders \in Nat
    <3>1. config \in Config
      BY DEF TypeOK
    <3> QED
      BY <1>0, <1>1, <3>1, HoldersTyped DEF Config
  <2>3. HoldersTotal(tickets, t) <= config.max_holders
    BY DEF Limited
  <2>4. HoldersIn(rs, t)[u] = HoldersIn(tickets, t)[u] - Count(c, t)
    BY <1>2
  <2> QED
    BY <2>1, <2>2, <2>3, <2>4
<1> QED
  BY <1>3, <1>4 DEF Limited, rs

-----------------------------------------------------------------------------
(* What the messages do to the books.                                      *)

LEMMA OperatorShares ==
    ASSUME TypeOK, IndexesBehind, NEW o \in Users, NEW shares \in Nat, NEW ops,
           ops = [operators EXCEPT ![o] = OperatorWithShares(o, shares)]
    PROVE  \A p \in Users : ops[p].shares = IF p = o THEN shares ELSE operators[p].shares
<1> DEFINE info == OperatorWithShares(o, shares)
<1>1. info.shares = shares
  <2>1. operators[o].reward_index <= UpdatedOperatorIndex.global_reward_index
    BY IndexesStayBehind
  <2>2. RewardedOperator(UpdatedOperatorIndex, o) \in OperatorInfo
    BY <2>1, UpdatedIndexTypes, RewardedOperatorType
  <2> QED
    BY <2>2, Zenon DEF OperatorInfo, OperatorWithShares
<1> HIDE DEF info
<1>2. operators \in [Users -> OperatorInfo] /\ ops = [operators EXCEPT ![o] = info]
  BY DEF TypeOK, info
<1> QED
  BY <1>1, <1>2

\* A deposit: the depositor's record, the operators, the totals, the tickets.
LEMMA DepositEffect ==
    ASSUME IInv, NEW u \in Users, NEW amount, NEW new_operator \in Users \cup {None},
           NEW requested \in Seq(Tickets), deposit(u, amount, new_operator, requested)
    PROVE  \E minted \in Nat, c \in Seq(Tickets), operator \in Users \cup {None} :
             /\ \A v \in Users \ {u} : depositors'[v] = depositors[v]
             /\ depositors'[u].shares = depositors[u].shares + minted
             /\ depositors'[u].tickets = depositors[u].tickets \o c
             /\ depositors'[u].operator_addr = operator
             /\ depositors'[u].unbonding_info = depositors[u].unbonding_info
             /\ depositors[u].operator_addr # None => operator = depositors[u].operator_addr
             /\ \A p \in Users : operators'[p].shares = operators[p].shares +
                   IF p # operator THEN 0
                   ELSE IF depositors[u].operator_addr # None THEN minted
                   ELSE depositors[u].shares + minted
             /\ pool'.total_user_shares = pool.total_user_shares + minted
             /\ pool'.total_sponsor_lottery_deposits = pool.total_sponsor_lottery_deposits
             /\ tickets' = AddTickets(u, c)
             /\ \A t \in Range(c) : NumberOfHolders(t) + Count(c, t) <= config.max_holders
             /\ state'.total_tickets = state.total_tickets + Len(c)
             /\ sponsors' = sponsors /\ config' = config
<1> DEFINE minted_aust   == AnchorMints(deduct_tax(amount))
           minted_shares == DecMul(minted_aust,
                               decimal_from_ratio_or_one(pool.total_user_shares,
                                                         pool.total_user_aust))
           operator      == OperatorAfterDeposit(u, new_operator)
           registered    == OperatorSharesMinted(operator, minted_shares)
<1>1. TypeOK /\ IndexesBehind /\ PoolNonDegenerate /\ MoneyTyped
  BY FieldTypes DEF IInv
<1>2. PICK c \in handle_depositor_ticket_updates(u, requested, minted_shares, minted_aust) :
         /\ tickets' = AddTickets(u, c)
         /\ depositors' = [depositors EXCEPT
               ![u].tickets = @ \o c,
               ![u].operator_addr = operator,
               ![u].shares = @ + minted_shares]
         /\ state' = [state EXCEPT
               !.operator_reward_emission_index = UpdatedOperatorIndex,
               !.total_tickets = @ + Len(c)]
  BY Zenon DEF deposit
<1>3. /\ operators' = OperatorsAfterDeposit(u, operator, minted_shares)
      /\ pool' = [pool EXCEPT
                 !.total_operator_shares = @ + registered,
                 !.total_user_shares = @ + minted_shares,
                 !.total_user_aust = @ + minted_aust]
      /\ amount \in 1..purse /\ sponsors' = sponsors /\ config' = config
  BY Zenon DEF deposit
<1>4. minted_aust \in Nat
  <2>1. amount \in Nat
    BY <1>1, <1>3 DEF MoneyTyped
  <2>2. deduct_tax(amount) \in Nat
    BY <2>1, DeductTaxBounds
  <2> QED
    BY <1>1, <2>2, DecDivBounds DEF MoneyTyped, AnchorMints
<1> HIDE DEF minted_aust
<1>5. minted_shares \in Nat
  BY <1>1, <1>4, MintedShares
<1> HIDE DEF minted_shares
<1>6. c \in Seq(Tickets)
  BY <1>1, <1>2, <1>4, <1>5, TicketLists
<1>7. \A t \in Range(c) : NumberOfHolders(t) + Count(c, t) <= config.max_holders
  BY <1>2, Zenon DEF handle_depositor_ticket_updates
<1>8. /\ operator \in Users \cup {None}
      /\ depositors[u].operator_addr # None => operator = depositors[u].operator_addr
  BY <1>1, DepositorFields DEF OperatorAfterDeposit, operator_registered
<1>9. \A p \in Users : operators'[p].shares = operators[p].shares +
                   IF p # operator THEN 0
                   ELSE IF depositors[u].operator_addr # None THEN minted_shares
                   ELSE depositors[u].shares + minted_shares
  <2> HIDE DEF operator
  <2>1. \A p \in Users : operators[p].shares \in Nat
    BY <1>1 DEF TypeOK, OperatorInfo
  <2>2. CASE operator = None
    <3>1. operators' = operators
      BY <1>3, <2>2 DEF OperatorsAfterDeposit
    <3>2. \A p \in Users : p # operator
      BY <2>2, AddressAssumption
    <3> QED
      BY <2>1, <3>1, <3>2
  <2>3. CASE operator # None
    <3> DEFINE gained == IF depositors[u].operator_addr # None THEN minted_shares
                         ELSE depositors[u].shares + minted_shares
    <3>1. operator \in Users
      BY <1>8, <2>3
    <3>2. gained \in Nat
      BY <1>1, <1>5, DepositorFields
    <3>3. operators' = [operators EXCEPT ![operator] =
                          OperatorWithShares(operator, operators[operator].shares + gained)]
      BY <1>3, <2>3 DEF OperatorsAfterDeposit, operator_registered
    <3> HIDE DEF gained
    <3>4. operators[operator].shares + gained \in Nat
      BY <2>1, <3>1, <3>2
    <3>5. \A p \in Users : operators'[p].shares =
             IF p = operator THEN operators[operator].shares + gained ELSE operators[p].shares
      BY <1>1, <3>1, <3>3, <3>4, OperatorShares
    <3>6. \A p \in Users : operators'[p].shares =
             operators[p].shares + IF p # operator THEN 0 ELSE gained
      BY <2>1, <3>2, <3>5
    <3> QED
      BY <3>6 DEF gained
  <2> QED
    BY <2>2, <2>3
<1> HIDE DEF operator, registered
<1>10. /\ pool'.total_user_shares = pool.total_user_shares + minted_shares
       /\ pool'.total_sponsor_lottery_deposits = pool.total_sponsor_lottery_deposits
  <2>1. pool \in Pool
    BY <1>1 DEF TypeOK
  <2> QED
    BY <1>3, <2>1, Zenon DEF Pool
<1>11. state'.total_tickets = state.total_tickets + Len(c)
  <2>1. state \in State
    BY <1>1 DEF TypeOK
  <2> QED
    BY <1>2, <2>1, Zenon DEF State
<1>12. /\ \A v \in Users \ {u} : depositors'[v] = depositors[v]
       /\ depositors'[u].shares = depositors[u].shares + minted_shares
       /\ depositors'[u].tickets = depositors[u].tickets \o c
       /\ depositors'[u].operator_addr = operator
       /\ depositors'[u].unbonding_info = depositors[u].unbonding_info
  <2>1. depositors \in [Users -> DepositorInfo] /\ depositors[u] \in DepositorInfo
    BY <1>1 DEF TypeOK
  <2> DEFINE more == depositors[u].tickets \o c
             sum == depositors[u].shares + minted_shares
  <2>2. depositors' = [depositors EXCEPT ![u] =
                         [@ EXCEPT !.tickets = more, !.operator_addr = operator,
                                   !.shares = sum]]
    BY <1>2, <2>1, Zenon
  <2> HIDE DEF more, sum
  <2>3. /\ \A v \in Users \ {u} : depositors'[v] = depositors[v]
        /\ depositors'[u].shares = sum /\ depositors'[u].tickets = more
        /\ depositors'[u].operator_addr = operator
        /\ depositors'[u].unbonding_info = depositors[u].unbonding_info
    BY <2>1, <2>2 DEF DepositorInfo
  <2> QED
    BY <2>3 DEF more, sum
<1> QED
  BY <1>2, <1>3, <1>5, <1>6, <1>7, <1>8, <1>9, <1>10, <1>11, <1>12

LEMMA DepositBooks ==
    ASSUME IInv, TypeOK', Books, NEW u \in Users, NEW amount,
           NEW new_operator \in Users \cup {None}, NEW requested \in Seq(Tickets),
           deposit(u, amount, new_operator, requested)
    PROVE  Books'
<1>0. PICK minted \in Nat, c \in Seq(Tickets), operator \in Users \cup {None} :
             /\ \A v \in Users \ {u} : depositors'[v] = depositors[v]
             /\ depositors'[u].shares = depositors[u].shares + minted
             /\ depositors'[u].tickets = depositors[u].tickets \o c
             /\ depositors'[u].operator_addr = operator
             /\ depositors'[u].unbonding_info = depositors[u].unbonding_info
             /\ depositors[u].operator_addr # None => operator = depositors[u].operator_addr
             /\ \A p \in Users : operators'[p].shares = operators[p].shares +
                   IF p # operator THEN 0
                   ELSE IF depositors[u].operator_addr # None THEN minted
                   ELSE depositors[u].shares + minted
             /\ pool'.total_user_shares = pool.total_user_shares + minted
             /\ pool'.total_sponsor_lottery_deposits = pool.total_sponsor_lottery_deposits
             /\ tickets' = AddTickets(u, c)
             /\ \A t \in Range(c) : NumberOfHolders(t) + Count(c, t) <= config.max_holders
             /\ state'.total_tickets = state.total_tickets + Len(c)
             /\ sponsors' = sponsors /\ config' = config
  BY DepositEffect
<1>1. TypeOK /\ DepositorsTyped(depositors) /\ DepositorsTyped(depositors')
  BY DepositorsAreTyped, DepositorsStayTyped DEF IInv
<1>2. /\ SharesTotal(depositors') = SharesTotal(depositors) - depositors[u].shares + depositors'[u].shares
      /\ LengthsTotal(depositors') = LengthsTotal(depositors) - Len(depositors[u].tickets)
                                       + Len(depositors'[u].tickets)
      /\ \A o \in Users : NamingTotal(depositors', o) = NamingTotal(depositors, o)
            - (IF depositors[u].operator_addr = o THEN depositors[u].shares ELSE 0)
            + (IF depositors'[u].operator_addr = o THEN depositors'[u].shares ELSE 0)
  BY <1>0, <1>1, DepositorStep
<1>3. /\ SharesTotal(depositors) \in Nat /\ LengthsTotal(depositors) \in Nat
      /\ \A o \in Users : NamingTotal(depositors, o) \in Nat
      /\ depositors[u].shares \in Nat /\ Len(depositors[u].tickets) \in Nat /\ Len(c) \in Nat
      /\ depositors[u].tickets \in Seq(Tickets) /\ state.total_tickets \in Nat
  BY <1>1, TotalsTyped, DepositorFields, LenProperties, FieldTypes DEF ScheduleTyped
<1>4. pool'.total_user_shares = SharesTotal(depositors')
  <2> DEFINE total == SharesTotal(depositors)
             shares == depositors[u].shares
  <2>1. /\ SharesTotal(depositors') = total - shares + (shares + minted)
        /\ total \in Nat /\ shares \in Nat
    BY <1>0, <1>2, <1>3
  <2>2. pool'.total_user_shares = total + minted
    BY <1>0 DEF Books
  <2> HIDE DEF total, shares
  <2>3. total + minted = total - shares + (shares + minted)
    BY <2>1
  <2> QED
    BY <2>1, <2>2, <2>3
<1>5. pool'.total_sponsor_lottery_deposits = DepositsTotal(sponsors')
  BY <1>0 DEF Books
<1>6. ASSUME NEW o \in Users
      PROVE  operators'[o].shares = NamingTotal(depositors', o)
  <2>1. operators[o].shares = NamingTotal(depositors, o) /\ NamingTotal(depositors, o) \in Nat
    BY <1>3 DEF Books
  <2>2. None # o
    BY AddressAssumption
  <2>3. operators'[o].shares = NamingTotal(depositors, o) +
                   IF o # operator THEN 0
                   ELSE IF depositors[u].operator_addr # None THEN minted
                   ELSE depositors[u].shares + minted
    BY <1>0, <2>1
  <2>4. NamingTotal(depositors', o) = NamingTotal(depositors, o)
            - (IF depositors[u].operator_addr = o THEN depositors[u].shares ELSE 0)
            + (IF operator = o THEN depositors[u].shares + minted ELSE 0)
    BY <1>0, <1>2
  <2>5. depositors[u].operator_addr # None => operator = depositors[u].operator_addr
    BY <1>0
  <2>6. CASE o = operator
    <3> DEFINE total  == NamingTotal(depositors, o)
               shares == depositors[u].shares
    <3>1. total \in Nat /\ shares \in Nat /\ minted \in Nat
      BY <1>3, <2>1
    <3>2. CASE depositors[u].operator_addr = None
      <4>1. operators'[o].shares = total + (shares + minted)
        BY <2>3, <2>6, <3>2
      <4>2. NamingTotal(depositors', o) = total - 0 + (shares + minted)
        BY <2>2, <2>4, <2>6, <3>2
      <4> HIDE DEF total, shares
      <4> QED
        BY <3>1, <4>1, <4>2
    <3>3. CASE depositors[u].operator_addr # None
      <4>1. operators'[o].shares = total + minted
        BY <2>3, <2>6, <3>3
      <4>2. NamingTotal(depositors', o) = total - shares + (shares + minted)
        BY <2>4, <2>5, <2>6, <3>3
      <4> HIDE DEF total, shares
      <4> QED
        BY <3>1, <4>1, <4>2
    <3> QED
      BY <3>2, <3>3
  <2>7. CASE o # operator
    <3>1. depositors[u].operator_addr # o
      BY <2>2, <2>5, <2>7
    <3> QED
      BY <2>1, <2>3, <2>4, <2>7, <3>1
  <2> QED
    BY <2>6, <2>7
<1>7. state'.total_tickets <= LengthsTotal(depositors')
  <2>1. Len(depositors'[u].tickets) = Len(depositors[u].tickets) + Len(c)
    BY <1>0, <1>3, ConcatProperties
  <2>2. state.total_tickets <= LengthsTotal(depositors)
    BY DEF Books
  <2>3. /\ state'.total_tickets = state.total_tickets + Len(c)
        /\ LengthsTotal(depositors') = LengthsTotal(depositors) - Len(depositors[u].tickets)
                                       + Len(depositors'[u].tickets)
    BY <1>0, <1>2
  <2> QED
    BY <1>3, <2>1, <2>2, <2>3, SMTT(20)
<1>8. Registered(tickets', depositors') /\ Limited(tickets', config'.max_holders)
  <2>1. Registered(tickets, depositors) /\ Limited(tickets, config.max_holders)
    BY DEF Books
  <2>2. /\ Registered(AddTickets(u, c), depositors')
        /\ Limited(AddTickets(u, c), config.max_holders)
    BY <1>0, <1>1, <2>1, AddingRegisters
  <2> QED
    BY <1>0, <2>2
<1> QED
  BY <1>4, <1>5, <1>6, <1>7, <1>8 DEF Books

LEMMA ClaimTicketsBooks ==
    ASSUME IInv, TypeOK', Books, NEW u \in Users, NEW requested \in Seq(Tickets),
           execute_claim_tickets(u, requested)
    PROVE  Books'
<1>1. TypeOK /\ DepositorsTyped(depositors) /\ DepositorsTyped(depositors')
  BY DepositorsAreTyped, DepositorsStayTyped DEF IInv
<1>2. PICK c \in handle_depositor_ticket_updates(u, requested, 0, 0) :
         /\ tickets' = AddTickets(u, c)
         /\ depositors' = [depositors EXCEPT ![u].tickets = @ \o c]
  BY Zenon DEF execute_claim_tickets
<1>3. UNCHANGED <<config, state, pool, sponsors, operators>>
  BY Zenon DEF execute_claim_tickets
<1>4. c \in Seq(Tickets)
  BY <1>1, <1>2, TicketLists
<1>5. \A t \in Range(c) : NumberOfHolders(t) + Count(c, t) <= config.max_holders
  BY <1>2, Zenon DEF handle_depositor_ticket_updates
<1>6. /\ \A v \in Users \ {u} : depositors'[v] = depositors[v]
      /\ depositors'[u].shares = depositors[u].shares
      /\ depositors'[u].tickets = depositors[u].tickets \o c
      /\ depositors'[u].operator_addr = depositors[u].operator_addr
  <2>1. depositors \in [Users -> DepositorInfo] /\ depositors[u] \in DepositorInfo
    BY <1>1 DEF TypeOK
  <2> DEFINE more == depositors[u].tickets \o c
  <2>2. depositors' = [depositors EXCEPT ![u] = [@ EXCEPT !.tickets = more]]
    BY <1>2, <2>1, Zenon
  <2> HIDE DEF more
  <2>3. /\ \A v \in Users \ {u} : depositors'[v] = depositors[v]
        /\ depositors'[u].shares = depositors[u].shares /\ depositors'[u].tickets = more
        /\ depositors'[u].operator_addr = depositors[u].operator_addr
    BY <2>1, <2>2 DEF DepositorInfo
  <2> QED
    BY <2>3 DEF more
<1>7. /\ SharesTotal(depositors') = SharesTotal(depositors) - depositors[u].shares + depositors'[u].shares
      /\ LengthsTotal(depositors') = LengthsTotal(depositors) - Len(depositors[u].tickets)
                                       + Len(depositors'[u].tickets)
      /\ \A o \in Users : NamingTotal(depositors', o) = NamingTotal(depositors, o)
            - (IF depositors[u].operator_addr = o THEN depositors[u].shares ELSE 0)
            + (IF depositors'[u].operator_addr = o THEN depositors'[u].shares ELSE 0)
  BY <1>1, <1>6, DepositorStep
<1>8. /\ SharesTotal(depositors) \in Nat /\ LengthsTotal(depositors) \in Nat
      /\ \A o \in Users : NamingTotal(depositors, o) \in Nat
      /\ depositors[u].shares \in Nat /\ Len(depositors[u].tickets) \in Nat /\ Len(c) \in Nat
      /\ depositors[u].tickets \in Seq(Tickets) /\ state.total_tickets \in Nat
  BY <1>1, <1>4, TotalsTyped, DepositorFields, LenProperties, FieldTypes DEF ScheduleTyped
<1>9. /\ SharesTotal(depositors') = SharesTotal(depositors)
      /\ \A o \in Users : NamingTotal(depositors', o) = NamingTotal(depositors, o)
  <2>1. ASSUME NEW o \in Users
        PROVE  NamingTotal(depositors', o) = NamingTotal(depositors, o)
    <3>1. NamingTotal(depositors, o) \in Nat
      BY <1>8
    <3>2. NamingTotal(depositors', o) = NamingTotal(depositors, o)
            - (IF depositors[u].operator_addr = o THEN depositors[u].shares ELSE 0)
            + (IF depositors[u].operator_addr = o THEN depositors[u].shares ELSE 0)
      BY <1>6, <1>7
    <3> QED
      BY <1>8, <3>1, <3>2
  <2>2. SharesTotal(depositors') = SharesTotal(depositors) - depositors[u].shares
                                     + depositors[u].shares
    BY <1>6, <1>7
  <2> QED
    BY <1>8, <2>1, <2>2
<1>10. state'.total_tickets <= LengthsTotal(depositors')
  <2>1. Len(depositors'[u].tickets) = Len(depositors[u].tickets) + Len(c)
    BY <1>4, <1>6, <1>8, ConcatProperties
  <2>2. state.total_tickets <= LengthsTotal(depositors)
    BY DEF Books
  <2> DEFINE total == LengthsTotal(depositors)
             held  == Len(depositors[u].tickets)
             more  == Len(c)
  <2>3. /\ LengthsTotal(depositors') = total - held + (held + more)
        /\ state'.total_tickets = state.total_tickets
    BY <1>3, <1>7, <2>1
  <2>4. /\ total \in Nat /\ held \in Nat /\ more \in Nat /\ state.total_tickets \in Nat
        /\ state.total_tickets <= total
    BY <1>8, <2>2
  <2> HIDE DEF total, held, more
  <2>5. state.total_tickets <= total - held + (held + more)
    BY <2>4
  <2> QED
    BY <2>3, <2>5
<1>11. Registered(tickets', depositors') /\ Limited(tickets', config'.max_holders)
  <2>1. Registered(tickets, depositors) /\ Limited(tickets, config.max_holders)
    BY DEF Books
  <2>2. /\ Registered(AddTickets(u, c), depositors')
        /\ Limited(AddTickets(u, c), config.max_holders)
    BY <1>1, <1>4, <1>5, <1>6, <2>1, AddingRegisters
  <2> QED
    BY <1>2, <1>3, <2>2
<1> QED
  BY <1>3, <1>9, <1>10, <1>11 DEF Books

\* A withdrawal: the depositor's record, the operators, the totals, the
\* tickets and the unbonding claim.
LEMMA WithdrawEffect ==
    ASSUME IInv, NEW u \in Users, NEW amount \in Nat \cup {None}, NEW instant,
           execute_withdraw(u, amount, instant)
    PROVE  \E burned \in 0..depositors[u].shares, n \in 0..Len(depositors[u].tickets),
             c \in Seq(Tickets) :
             /\ \A v \in Users \ {u} : depositors'[v] = depositors[v]
             /\ depositors'[u].shares = depositors[u].shares - burned
             /\ c = SubSeq(depositors[u].tickets, 1, n)
             /\ depositors'[u].tickets
                  = SubSeq(depositors[u].tickets, n + 1, Len(depositors[u].tickets))
             /\ depositors'[u].operator_addr = depositors[u].operator_addr
             /\ \A t \in Range(c) : Count(c, t) <= Holders(t)[u]
             /\ \A p \in Users : operators'[p].shares = operators[p].shares -
                   IF p = depositors[u].operator_addr THEN burned ELSE 0
             /\ pool'.total_user_shares = pool.total_user_shares - burned
             /\ pool'.total_sponsor_lottery_deposits = pool.total_sponsor_lottery_deposits
             /\ tickets' = RemoveTickets(u, c)
             /\ state'.total_tickets = state.total_tickets - n
             /\ sponsors' = sponsors /\ config' = config
<1> DEFINE shares  == WithdrawnShares(u, amount)
           aust    == WithdrawnAust(shares)
           drained == DrainedTickets(u, shares, aust)
           claim   == WithdrawalClaim(u, AnchorReturns(aust), instant)
           fee     == WithdrawalFee(AnchorReturns(aust), instant)
           named   == operator_registered(depositors[u])
<1>1. TypeOK /\ IndexesBehind /\ PoolNonDegenerate /\ MoneyTyped
  BY FieldTypes DEF IInv
<1>2. /\ pool.total_user_shares # 0
      /\ shares <= depositors[u].shares
      /\ shares <= pool.total_user_shares
      /\ RatioDefined(depositors[u].shares - shares, pool.total_user_shares - shares)
      /\ config.ticket_price > 0
      /\ \A t \in Range(drained) : Count(drained, t) <= Holders(t)[u]
      /\ OperatorCanWithdraw(u, shares)
  BY Zenon DEF execute_withdraw
<1>3. /\ tickets' = RemoveTickets(u, drained)
      /\ operators' = OperatorsAfterWithdraw(u, shares)
      /\ sponsors' = sponsors /\ config' = config
  BY Zenon DEF execute_withdraw
<1>4. depositors' = [depositors EXCEPT
                       ![u].tickets = SubSeq(@, Len(drained) + 1, Len(@)),
                       ![u].shares = @ - shares,
                       ![u].unbonding_info = @ \cup claim]
  BY Zenon DEF execute_withdraw
<1>5. pool' = [pool EXCEPT
                 !.total_operator_shares = IF named THEN @ - shares ELSE @,
                 !.total_user_shares = @ - shares,
                 !.total_user_aust = @ - aust]
  BY Zenon DEF execute_withdraw
<1>6. state' = [state EXCEPT
                   !.operator_reward_emission_index =
                       IF named THEN UpdatedOperatorIndex ELSE @,
                   !.total_tickets = TotalTicketsAfterWithdraw(drained),
                   !.total_reserve = @ + fee]
  BY Zenon DEF execute_withdraw
<1>7. shares \in Nat
  BY <1>1, <1>2, WithdrawnSharesType
<1>8. aust \in Nat /\ aust <= pool.total_user_aust
  <2>1. pool.total_user_shares \in Nat \ {0} /\ pool.total_user_aust \in Nat
    BY <1>1, <1>2 DEF MoneyTyped
  <2> QED
    BY <1>2, <1>7, <2>1, BurnBounds DEF WithdrawnAust
<1> HIDE DEF shares, aust
<1>9. PICK n \in 0..Len(depositors[u].tickets) :
         drained = SubSeq(depositors[u].tickets, 1, n) /\ Len(drained) = n
  BY <1>1, <1>2, <1>7, <1>8, DrainedTicketsType
<1> HIDE DEF drained, claim, fee
<1>10. shares \in 0..depositors[u].shares
  BY <1>1, <1>2, <1>7, DepositorFields
<1>11. /\ \A v \in Users \ {u} : depositors'[v] = depositors[v]
       /\ depositors'[u].shares = depositors[u].shares - shares
       /\ depositors'[u].tickets
            = SubSeq(depositors[u].tickets, n + 1, Len(depositors[u].tickets))
       /\ depositors'[u].operator_addr = depositors[u].operator_addr
  <2>1. depositors \in [Users -> DepositorInfo] /\ depositors[u] \in DepositorInfo
    BY <1>1 DEF TypeOK
  <2> DEFINE rest == SubSeq(depositors[u].tickets, Len(drained) + 1, Len(depositors[u].tickets))
             left == depositors[u].shares - shares
             claims == depositors[u].unbonding_info \cup claim
  <2>2. depositors' = [depositors EXCEPT ![u] =
                         [@ EXCEPT !.tickets = rest, !.shares = left, !.unbonding_info = claims]]
    BY <1>4, <2>1, Zenon
  <2> HIDE DEF rest, left, claims
  <2>3. /\ \A v \in Users \ {u} : depositors'[v] = depositors[v]
        /\ depositors'[u].shares = left /\ depositors'[u].tickets = rest
        /\ depositors'[u].operator_addr = depositors[u].operator_addr
    BY <2>1, <2>2 DEF DepositorInfo
  <2> QED
    BY <1>9, <2>3 DEF rest, left
<1>12. /\ pool'.total_user_shares = pool.total_user_shares - shares
       /\ pool'.total_sponsor_lottery_deposits = pool.total_sponsor_lottery_deposits
  <2>1. pool \in Pool
    BY <1>1 DEF TypeOK
  <2> QED
    BY <1>5, <2>1, Zenon DEF Pool
<1>13. state'.total_tickets = state.total_tickets - n
  <2>1. state \in State
    BY <1>1 DEF TypeOK
  <2>2. state'.total_tickets = TotalTicketsAfterWithdraw(drained)
    BY <1>6, <2>1, Zenon DEF State
  <2> QED
    BY <1>9, <2>2 DEF TotalTicketsAfterWithdraw
<1>14. \A p \in Users : operators'[p].shares = operators[p].shares -
                   IF p = depositors[u].operator_addr THEN shares ELSE 0
  <2>1. \A p \in Users : operators[p].shares \in Nat
    BY <1>1 DEF TypeOK, OperatorInfo
  <2>2. CASE depositors[u].operator_addr = None
    <3>1. operators' = operators
      BY <1>3, <2>2 DEF OperatorsAfterWithdraw, operator_registered
    <3>2. \A p \in Users : p # depositors[u].operator_addr
      BY <2>2, AddressAssumption
    <3> QED
      BY <2>1, <3>1, <3>2
  <2>3. CASE depositors[u].operator_addr # None
    <3> DEFINE o == depositors[u].operator_addr
    <3>1. o \in Users
      BY <1>1, <2>3, DepositorFields
    <3>2. operators' = [operators EXCEPT ![o] =
                          OperatorWithShares(o, operators[o].shares - shares)]
      BY <1>3, <2>3 DEF OperatorsAfterWithdraw, operator_registered
    <3>3. shares <= operators[o].shares
      BY <1>2, <2>3 DEF OperatorCanWithdraw, operator_registered
    <3> HIDE DEF o
    <3>4. operators[o].shares - shares \in Nat
      BY <1>7, <2>1, <3>1, <3>3
    <3>5. \A p \in Users : operators'[p].shares =
             IF p = o THEN operators[o].shares - shares ELSE operators[p].shares
      BY <1>1, <3>1, <3>2, <3>4, OperatorShares
    <3>6. \A p \in Users : operators'[p].shares =
             operators[p].shares - IF p = o THEN shares ELSE 0
      BY <1>7, <2>1, <3>5
    <3> QED
      BY <3>6 DEF o
  <2> QED
    BY <2>2, <2>3
<1>15. drained \in Seq(Tickets)
  BY <1>1, <1>9, DepositorFields, CountSplit
<1> QED
  BY <1>2, <1>3, <1>9, <1>10, <1>11, <1>12, <1>13, <1>14, <1>15

LEMMA WithdrawBooks ==
    ASSUME IInv, TypeOK', Books, NEW u \in Users, NEW amount \in Nat \cup {None}, NEW instant,
           execute_withdraw(u, amount, instant)
    PROVE  Books'
<1>0. PICK burned \in 0..depositors[u].shares, n \in 0..Len(depositors[u].tickets),
             c \in Seq(Tickets) :
             /\ \A v \in Users \ {u} : depositors'[v] = depositors[v]
             /\ depositors'[u].shares = depositors[u].shares - burned
             /\ c = SubSeq(depositors[u].tickets, 1, n)
             /\ depositors'[u].tickets
                  = SubSeq(depositors[u].tickets, n + 1, Len(depositors[u].tickets))
             /\ depositors'[u].operator_addr = depositors[u].operator_addr
             /\ \A t \in Range(c) : Count(c, t) <= Holders(t)[u]
             /\ \A p \in Users : operators'[p].shares = operators[p].shares -
                   IF p = depositors[u].operator_addr THEN burned ELSE 0
             /\ pool'.total_user_shares = pool.total_user_shares - burned
             /\ pool'.total_sponsor_lottery_deposits = pool.total_sponsor_lottery_deposits
             /\ tickets' = RemoveTickets(u, c)
             /\ state'.total_tickets = state.total_tickets - n
             /\ sponsors' = sponsors /\ config' = config
  BY WithdrawEffect
<1>1. TypeOK
  BY DEF IInv
<1>2. /\ SharesTotal(depositors') = SharesTotal(depositors) - depositors[u].shares + depositors'[u].shares
      /\ LengthsTotal(depositors') = LengthsTotal(depositors) - Len(depositors[u].tickets)
                                       + Len(depositors'[u].tickets)
      /\ \A o \in Users : NamingTotal(depositors', o) = NamingTotal(depositors, o)
            - (IF depositors[u].operator_addr = o THEN depositors[u].shares ELSE 0)
            + (IF depositors'[u].operator_addr = o THEN depositors'[u].shares ELSE 0)
      /\ SharesTotal(depositors) \in Nat /\ LengthsTotal(depositors) \in Nat
      /\ \A o \in Users : NamingTotal(depositors, o) \in Nat
  BY <1>0, <1>1, DepositorStep
<1>3. /\ depositors[u].shares \in Nat /\ Len(depositors[u].tickets) \in Nat
      /\ depositors[u].tickets \in Seq(Tickets) /\ state.total_tickets \in Nat
      /\ burned \in Nat /\ n \in Nat
  BY <1>1, DepositorFields, LenProperties, FieldTypes DEF ScheduleTyped
<1>4. pool'.total_user_shares = SharesTotal(depositors')
  <2>1. /\ pool'.total_user_shares = pool.total_user_shares - burned
        /\ depositors'[u].shares = depositors[u].shares - burned
    BY <1>0
  <2>2. pool.total_user_shares = SharesTotal(depositors)
    BY DEF Books
  <2> QED
    BY <1>2, <1>3, <2>1, <2>2
<1>5. pool'.total_sponsor_lottery_deposits = DepositsTotal(sponsors')
  BY <1>0 DEF Books
<1>6. ASSUME NEW o \in Users
      PROVE  operators'[o].shares = NamingTotal(depositors', o)
  <2>1. operators[o].shares = NamingTotal(depositors, o) /\ NamingTotal(depositors, o) \in Nat
    BY <1>2 DEF Books
  <2>2. operators'[o].shares = NamingTotal(depositors, o)
                   - IF o = depositors[u].operator_addr THEN burned ELSE 0
    BY <1>0, <2>1
  <2>3. NamingTotal(depositors', o) = NamingTotal(depositors, o)
            - (IF depositors[u].operator_addr = o THEN depositors[u].shares ELSE 0)
            + (IF depositors[u].operator_addr = o THEN depositors[u].shares - burned ELSE 0)
    BY <1>0, <1>2
  <2> QED
    BY <1>3, <2>1, <2>2, <2>3
<1>7. state'.total_tickets <= LengthsTotal(depositors')
  <2>1. Len(depositors'[u].tickets) = Len(depositors[u].tickets) - n
    BY <1>0, <1>3, CountSplit
  <2>2. state.total_tickets <= LengthsTotal(depositors)
    BY DEF Books
  <2>3. /\ state'.total_tickets = state.total_tickets - n
        /\ LengthsTotal(depositors') = LengthsTotal(depositors) - Len(depositors[u].tickets)
                                       + Len(depositors'[u].tickets)
    BY <1>0, <1>2
  <2> DEFINE total == LengthsTotal(depositors)
             held  == Len(depositors[u].tickets)
  <2>4. LengthsTotal(depositors') = total - held + (held - n)
    BY <2>1, <2>3
  <2>5. /\ total \in Nat /\ held \in Nat /\ n \in Nat /\ state.total_tickets \in Nat
        /\ state.total_tickets <= total
    BY <1>2, <1>3, <2>2
  <2> HIDE DEF total, held
  <2>6. state.total_tickets - n <= total - held + (held - n)
    BY <2>5
  <2> QED
    BY <2>3, <2>4, <2>6
<1>8. Registered(tickets', depositors') /\ Limited(tickets', config'.max_holders)
  <2>1. Registered(tickets, depositors) /\ Limited(tickets, config.max_holders)
    BY DEF Books
  <2>2. \A v \in Users \ {u} : depositors'[v].tickets = depositors[v].tickets
    BY <1>0
  <2>3. /\ c = SubSeq(depositors[u].tickets, 1, n)
        /\ \A t \in Range(c) : Count(c, t) <= Holders(t)[u]
        /\ depositors'[u].tickets
             = SubSeq(depositors[u].tickets, n + 1, Len(depositors[u].tickets))
    BY <1>0
  <2>4. /\ Registered(RemoveTickets(u, c), depositors')
        /\ Limited(RemoveTickets(u, c), config.max_holders)
    BY <1>1, <2>1, <2>2, <2>3, RemovingRegisters, Zenon
  <2> QED
    BY <1>0, <2>4
<1> QED
  BY <1>4, <1>5, <1>6, <1>7, <1>8 DEF Books

\* The entries of the books, all but the sponsors'.
DepositsKept ==
    /\ \A u \in Users : /\ depositors'[u].shares = depositors[u].shares
                        /\ depositors'[u].tickets = depositors[u].tickets
                        /\ depositors'[u].operator_addr = depositors[u].operator_addr
                        /\ operators'[u].shares = operators[u].shares
    /\ tickets' = tickets
    /\ pool'.total_user_shares = pool.total_user_shares
    /\ state'.total_tickets = state.total_tickets
    /\ config'.max_holders >= config.max_holders

SponsorsKept ==
    /\ \A u \in Users : sponsors'[u].lottery_deposit = sponsors[u].lottery_deposit
    /\ pool'.total_sponsor_lottery_deposits = pool.total_sponsor_lottery_deposits

\* Books without the sponsors' part.
DepositBooksKept ==
    /\ pool.total_user_shares = SharesTotal(depositors)
    /\ \A o \in Users : operators[o].shares = NamingTotal(depositors, o)
    /\ Registered(tickets, depositors)
    /\ Limited(tickets, config.max_holders)
    /\ state.total_tickets <= LengthsTotal(depositors)

LEMMA DepositsFrame ==
    ASSUME TypeOK, TypeOK', Books, DepositsKept
    PROVE  DepositBooksKept'
<1>1. /\ SharesIn(depositors') = SharesIn(depositors)
      /\ LengthsIn(depositors') = LengthsIn(depositors)
      /\ \A o \in Users : NamingIn(depositors', o) = NamingIn(depositors, o)
  BY DEF SharesIn, LengthsIn, NamingIn, DepositsKept
<1>2. /\ SharesTotal(depositors') = SharesTotal(depositors)
      /\ LengthsTotal(depositors') = LengthsTotal(depositors)
      /\ \A o \in Users : NamingTotal(depositors', o) = NamingTotal(depositors, o)
  BY <1>1 DEF SharesTotal, LengthsTotal, NamingTotal
<1>3. Registered(tickets', depositors')
  <2>1. Registered(tickets, depositors) /\ tickets' = tickets
    BY DEF Books, DepositsKept
  <2>2. ASSUME NEW t \in Tickets, NEW u \in Users
        PROVE  HoldersIn(tickets', t)[u] = Count(depositors'[u].tickets, t)
    <3>1. HoldersIn(tickets, t)[u] = Count(depositors[u].tickets, t)
      BY <2>1 DEF Registered
    <3>2. depositors'[u].tickets = depositors[u].tickets
      BY DEF DepositsKept
    <3> QED
      BY <2>1, <3>1, <3>2
  <2> QED
    BY <2>2 DEF Registered
<1>4. Limited(tickets', config'.max_holders)
  <2>1. tickets' = tickets /\ config'.max_holders >= config.max_holders
    BY DEF DepositsKept
  <2>2. config.max_holders \in Nat /\ config'.max_holders \in Nat
    BY DEF TypeOK, Config
  <2>3. ASSUME NEW t \in Tickets PROVE HoldersTotal(tickets, t) <= config'.max_holders
    <3>1. HoldersTotal(tickets, t) \in Nat
      BY TicketsAreTyped, HoldersTyped
    <3>2. HoldersTotal(tickets, t) <= config.max_holders
      BY DEF Books, Limited
    <3> QED
      BY <2>1, <2>2, <3>1, <3>2
  <2> QED
    BY <2>1, <2>3 DEF Limited
<1>5. pool'.total_user_shares = SharesTotal(depositors')
  BY <1>2 DEF DepositsKept, Books
<1>6. \A o \in Users : operators'[o].shares = NamingTotal(depositors', o)
  BY <1>2 DEF DepositsKept, Books
<1>7. state'.total_tickets <= LengthsTotal(depositors')
  BY <1>2 DEF DepositsKept, Books
<1> QED
  BY <1>3, <1>4, <1>5, <1>6, <1>7 DEF DepositBooksKept

LEMMA BooksFrame ==
    ASSUME TypeOK, TypeOK', Books, DepositsKept, SponsorsKept
    PROVE  Books'
<1>1. DepositBooksKept'
  BY DepositsFrame
<1>2. DepositsIn(sponsors') = DepositsIn(sponsors)
  BY DEF DepositsIn, SponsorsKept
<1>3. pool'.total_sponsor_lottery_deposits = DepositsTotal(sponsors')
  BY <1>2 DEF DepositsTotal, SponsorsKept, Books
<1> QED
  BY <1>1, <1>3 DEF Books, DepositBooksKept

\* Messages that touch none of them.
LEMMA UntouchedBooks ==
    ASSUME TypeOK, TypeOK', Books,
           UNCHANGED <<depositors, operators, tickets, sponsors>>,
           pool'.total_user_shares = pool.total_user_shares,
           pool'.total_sponsor_lottery_deposits = pool.total_sponsor_lottery_deposits,
           state'.total_tickets = state.total_tickets,
           config'.max_holders >= config.max_holders
    PROVE  Books'
<1>1. DepositsKept /\ SponsorsKept
  BY DEF DepositsKept, SponsorsKept
<1> QED
  BY <1>1, BooksFrame

LEMMA ClaimUnbondedBooks ==
    ASSUME TypeOK, TypeOK', Books, NEW u \in Users, execute_claim_unbonded(u)
    PROVE  Books'
<1> DEFINE rest == depositors[u].unbonding_info \ MatureClaims(u)
<1>1. /\ depositors' = [depositors EXCEPT ![u].unbonding_info = @ \ MatureClaims(u)]
      /\ UNCHANGED <<config, state, pool, tickets, sponsors, operators>>
  BY Zenon DEF execute_claim_unbonded
<1>2. depositors \in [Users -> DepositorInfo] /\ depositors[u] \in DepositorInfo
  BY DEF TypeOK
<1>3. depositors' = [depositors EXCEPT ![u] = [@ EXCEPT !.unbonding_info = rest]]
  BY <1>1, <1>2, Zenon
<1> HIDE DEF rest
<1>4. \A v \in Users : /\ depositors'[v].shares = depositors[v].shares
                       /\ depositors'[v].tickets = depositors[v].tickets
                       /\ depositors'[v].operator_addr = depositors[v].operator_addr
  BY <1>2, <1>3 DEF DepositorInfo
<1>5. config.max_holders \in Nat
  BY DEF TypeOK, Config
<1>6. DepositsKept /\ SponsorsKept
  BY <1>1, <1>4, <1>5 DEF DepositsKept, SponsorsKept
<1> QED
  BY <1>6, BooksFrame

\* What becomes of the deposits when one sponsor's is set.
LEMMA SponsorDeposits ==
    ASSUME IInv, NEW s \in Users, NEW deposited \in Nat, NEW spons,
           spons = [sponsors EXCEPT ![s] = SponsorWithDeposit(s, deposited)]
    PROVE  /\ DepositsTotal(spons) = DepositsTotal(sponsors) - sponsors[s].lottery_deposit + deposited
           /\ DepositsTotal(sponsors) \in Nat /\ sponsors[s].lottery_deposit \in Nat
<1> DEFINE info == SponsorWithDeposit(s, deposited)
<1>1. TypeOK /\ IndexesBehind
  BY DEF IInv
<1>2. info.lottery_deposit = deposited
  <2>1. sponsors[s].reward_index <= UpdatedSponsorIndex.global_reward_index
    BY <1>1, IndexesStayBehind
  <2>2. RewardedSponsor(UpdatedSponsorIndex, s) \in SponsorInfo
    BY <1>1, <2>1, UpdatedIndexTypes, RewardedSponsorType
  <2> QED
    BY <2>2, Zenon DEF SponsorInfo, SponsorWithDeposit
<1> HIDE DEF info
<1>3. sponsors \in [Users -> SponsorInfo] /\ spons = [sponsors EXCEPT ![s] = info]
  BY <1>1 DEF TypeOK, info
<1>4. \A v \in Users : sponsors[v].lottery_deposit \in Nat
  BY <1>3 DEF SponsorInfo
<1>5. /\ \A v \in Users \ {s} : spons[v].lottery_deposit = sponsors[v].lottery_deposit
      /\ spons[s].lottery_deposit = deposited
  BY <1>2, <1>3
<1>6. \A v \in Users : spons[v].lottery_deposit \in Nat
  BY <1>4, <1>5
<1>7. DepositsTotal(spons) = DepositsTotal(sponsors) - sponsors[s].lottery_deposit
                               + spons[s].lottery_deposit
  <2>1. \A ss, rs : /\ \A v \in Users : ss[v].lottery_deposit \in Nat
                    /\ \A v \in Users : rs[v].lottery_deposit \in Nat
                    /\ \A v \in Users \ {s} : rs[v].lottery_deposit = ss[v].lottery_deposit
          => DepositsTotal(rs) = DepositsTotal(ss) - ss[s].lottery_deposit + rs[s].lottery_deposit
    BY OneSponsor
  <2> QED
    BY <1>4, <1>5, <1>6, <2>1, Zenon
<1>8. DepositsTotal(sponsors) \in Nat
  <2>1. \A v \in Users : DepositsIn(sponsors)[v] \in Nat
    BY <1>4 DEF DepositsIn
  <2> QED
    BY <2>1, UsersFinite, SumNat DEF DepositsTotal
<1> QED
  BY <1>4, <1>5, <1>7, <1>8

LEMMA SponsorDepositBooks ==
    ASSUME IInv, TypeOK', Books, NEW u \in Users, NEW amount, SponsorDeposit(u, amount)
    PROVE  Books'
<1> DEFINE net         == deduct_tax(amount)
           minted_aust == AnchorMints(net)
           value       == DecMul(minted_aust, rate)
<1>1. TypeOK /\ MoneyTyped
  BY FieldTypes DEF IInv
<1>2. UNCHANGED <<config, depositors, tickets, operators>> /\ amount \in 1..purse
  BY Zenon DEF SponsorDeposit
<1>3. /\ state' = [state EXCEPT !.sponsor_reward_emission_index = UpdatedSponsorIndex]
      /\ sponsors' = [sponsors EXCEPT ![u] =
                        SponsorWithDeposit(u, DepositAfterSponsoring(u, value))]
      /\ pool' = [pool EXCEPT !.total_sponsor_lottery_deposits = @ + value]
  BY Zenon DEF SponsorDeposit
<1>4. amount \in Nat
  BY <1>1, <1>2 DEF MoneyTyped
<1>5. net \in Nat
  BY <1>4, DeductTaxBounds
<1>6. minted_aust \in Nat
  BY <1>1, <1>5, DecDivBounds DEF MoneyTyped, AnchorMints
<1> HIDE DEF net, minted_aust
<1>7. value \in Nat
  BY <1>1, <1>6, DecMulBounds DEF MoneyTyped
<1> HIDE DEF value
<1>8. pool \in Pool /\ state \in State /\ config.max_holders \in Nat
  BY <1>1 DEF TypeOK, Config
<1>9. /\ pool'.total_user_shares = pool.total_user_shares
      /\ pool'.total_sponsor_lottery_deposits = pool.total_sponsor_lottery_deposits + value
      /\ state'.total_tickets = state.total_tickets
  BY <1>3, <1>8, Zenon DEF Pool, State
<1>10. DepositBooksKept'
  <2>1. DepositsKept
    BY <1>2, <1>8, <1>9 DEF DepositsKept
  <2> QED
    BY <1>1, <2>1, DepositsFrame
<1>11. pool'.total_sponsor_lottery_deposits = DepositsTotal(sponsors')
  <2> DEFINE deposited == DepositAfterSponsoring(u, value)
  <2>1. sponsors[u].lottery_deposit \in Nat
    BY <1>1 DEF TypeOK, SponsorInfo
  <2>2. deposited = sponsors[u].lottery_deposit + value /\ deposited \in Nat
    BY <1>7, <2>1 DEF DepositAfterSponsoring
  <2>3. sponsors' = [sponsors EXCEPT ![u] = SponsorWithDeposit(u, deposited)]
    BY <1>3
  <2> HIDE DEF deposited
  <2>4. /\ DepositsTotal(sponsors') = DepositsTotal(sponsors) - sponsors[u].lottery_deposit + deposited
        /\ DepositsTotal(sponsors) \in Nat
    BY <2>2, <2>3, SponsorDeposits
  <2>5. pool.total_sponsor_lottery_deposits = DepositsTotal(sponsors)
    BY DEF Books
  <2> QED
    BY <1>7, <1>9, <2>1, <2>2, <2>4, <2>5
<1> QED
  BY <1>10, <1>11 DEF Books, DepositBooksKept

LEMMA SponsorWithdrawBooks ==
    ASSUME IInv, TypeOK', Books, NEW u \in Users, execute_sponsor_withdraw(u)
    PROVE  Books'
<1>1. TypeOK
  BY DEF IInv
<1>2. UNCHANGED <<config, depositors, tickets, operators>>
  BY Zenon DEF execute_sponsor_withdraw
<1>3. /\ state' = [state EXCEPT !.sponsor_reward_emission_index = UpdatedSponsorIndex]
      /\ sponsors' = [sponsors EXCEPT ![u] = SponsorWithDeposit(u, 0)]
      /\ pool' = [pool EXCEPT !.total_sponsor_lottery_deposits = @ - sponsors[u].lottery_deposit]
  BY Zenon DEF execute_sponsor_withdraw
<1>4. pool \in Pool /\ state \in State /\ config.max_holders \in Nat
  BY <1>1 DEF TypeOK, Config
<1>5. /\ pool'.total_user_shares = pool.total_user_shares
      /\ pool'.total_sponsor_lottery_deposits
           = pool.total_sponsor_lottery_deposits - sponsors[u].lottery_deposit
      /\ state'.total_tickets = state.total_tickets
  BY <1>3, <1>4, Zenon DEF Pool, State
<1>6. DepositBooksKept'
  <2>1. DepositsKept
    BY <1>2, <1>4, <1>5 DEF DepositsKept
  <2> QED
    BY <1>1, <2>1, DepositsFrame
<1>7. pool'.total_sponsor_lottery_deposits = DepositsTotal(sponsors')
  <2>1. /\ DepositsTotal(sponsors') = DepositsTotal(sponsors) - sponsors[u].lottery_deposit + 0
        /\ DepositsTotal(sponsors) \in Nat /\ sponsors[u].lottery_deposit \in Nat
    BY <1>3, SponsorDeposits
  <2>2. pool.total_sponsor_lottery_deposits = DepositsTotal(sponsors)
    BY DEF Books
  <2> QED
    BY <1>5, <2>1, <2>2
<1> QED
  BY <1>6, <1>7 DEF Books, DepositBooksKept

LEMMA ClaimRewardsBooks ==
    ASSUME IInv, TypeOK', Books, NEW u \in Users, execute_claim_rewards(u)
    PROVE  Books'
<1> DEFINE operator == RewardedOperator(UpdatedOperatorIndex, u)
           sponsor  == RewardedSponsor(UpdatedSponsorIndex, u)
           settled_operator == [operator EXCEPT !.pending_rewards = 0]
           settled_sponsor  == [sponsor EXCEPT !.pending_rewards = 0]
<1>1. TypeOK /\ IndexesBehind
  BY DEF IInv
<1>2. UNCHANGED <<config, pool, depositors, tickets>> /\ state' = UpdatedIndexes
  BY Zenon DEF execute_claim_rewards
<1>3. /\ operators' = [operators EXCEPT ![u] = settled_operator]
      /\ sponsors' = [sponsors EXCEPT ![u] = settled_sponsor]
  BY Zenon DEF execute_claim_rewards
<1>4. /\ operator \in OperatorInfo /\ operator.shares = operators[u].shares
      /\ sponsor \in SponsorInfo /\ sponsor.lottery_deposit = sponsors[u].lottery_deposit
  <2>1. /\ operators[u].reward_index <= UpdatedOperatorIndex.global_reward_index
        /\ sponsors[u].reward_index <= UpdatedSponsorIndex.global_reward_index
    BY <1>1, IndexesStayBehind
  <2>2. /\ UpdatedOperatorIndex \in RewardEmissionsIndex
        /\ UpdatedSponsorIndex \in RewardEmissionsIndex
    BY <1>1, UpdatedIndexTypes
  <2> QED
    BY <1>1, <2>1, <2>2, RewardedOperatorType, RewardedSponsorType
<1> HIDE DEF operator, sponsor
<1>5. /\ settled_operator.shares = operators[u].shares
      /\ settled_sponsor.lottery_deposit = sponsors[u].lottery_deposit
  BY <1>4, Zenon DEF OperatorInfo, SponsorInfo
<1> HIDE DEF settled_operator, settled_sponsor
<1>6. operators \in [Users -> OperatorInfo] /\ sponsors \in [Users -> SponsorInfo]
  BY <1>1 DEF TypeOK
<1>7. \A v \in Users : /\ operators'[v].shares = operators[v].shares
                       /\ sponsors'[v].lottery_deposit = sponsors[v].lottery_deposit
  BY <1>3, <1>5, <1>6
<1>8. state'.total_tickets = state.total_tickets /\ config.max_holders \in Nat
  <2>1. state \in State
    BY <1>1 DEF TypeOK
  <2>2. state'.total_tickets = state.total_tickets
    BY <1>2, <2>1, Zenon DEF State, UpdatedIndexes
  <2> QED
    BY <1>1, <2>2 DEF TypeOK, Config
<1>9. DepositsKept /\ SponsorsKept
  BY <1>2, <1>7, <1>8 DEF DepositsKept, SponsorsKept
<1> QED
  BY <1>1, <1>9, BooksFrame

\* A draw is started, paged and awarded without touching the books.
LEMMA DrawBooks ==
    ASSUME TypeOK, TypeOK', Books, execute_lottery \/ PrizeExecutions \/ PrizeClaims
    PROVE  Books'
<1>0. pool \in Pool /\ state \in State /\ config.max_holders \in Nat
  BY DEF TypeOK, Config
<1>1. CASE execute_lottery
  <2>1. UNCHANGED <<config, depositors, operators, tickets, sponsors>>
    BY <1>1, Zenon DEF execute_lottery
  <2>2. \E a, b, c, d : /\ state' = [state EXCEPT !.next_lottery_exec_time = a,
                             !.prize_buckets = b, !.last_lottery_execution_aust_exchange_rate = c]
                        /\ pool' = [pool EXCEPT !.total_user_aust = d]
    BY <1>1, Zenon DEF execute_lottery
  <2>3. /\ pool'.total_user_shares = pool.total_user_shares
        /\ pool'.total_sponsor_lottery_deposits = pool.total_sponsor_lottery_deposits
        /\ state'.total_tickets = state.total_tickets
    BY <1>0, <2>2, Zenon DEF Pool, State
  <2> QED
    BY <1>0, <2>1, <2>3, UntouchedBooks
<1>2. CASE PrizeExecutions
  <2>1. UNCHANGED <<config, depositors, operators, tickets, sponsors, pool>>
    BY <1>2, ZenonT(30) DEF PrizeExecutions, execute_prize
  <2>2. \/ state' = state
        \/ \E number_winners : state' = StateAfterAward(number_winners)
    BY <1>2, ZenonT(30) DEF PrizeExecutions, execute_prize
  <2>3. state'.total_tickets = state.total_tickets
    BY <1>0, <2>2, Zenon DEF State, StateAfterAward
  <2> QED
    BY <1>0, <2>1, <2>3, UntouchedBooks
<1>3. CASE PrizeClaims
  <2>1. UNCHANGED <<config, depositors, operators, tickets, sponsors, pool, state>>
    BY <1>3, ZenonT(30) DEF PrizeClaims, execute_claim_lottery
  <2> QED
    BY <1>0, <2>1, UntouchedBooks
<1> QED
  BY <1>1, <1>2, <1>3

LEMMA ConfigurationBooks ==
    ASSUME TypeOK, TypeOK', Books, Configurations
    PROVE  Books'
<1>0. config \in Config /\ config.max_holders \in Nat /\ state \in State
  BY DEF TypeOK, Config
<1>1. ASSUME NEW a, NEW msg, execute_update_config(a, msg)
      PROVE  Books'
  <2>1. UNCHANGED <<pool, depositors, tickets, sponsors, operators>>
    BY <1>1, Zenon DEF execute_update_config
  <2>2. \E x, y : state' = [state EXCEPT !.operator_reward_emission_index = x,
                                         !.sponsor_reward_emission_index = y]
    <3>1. state' = [state EXCEPT
            !.operator_reward_emission_index.glow_emission_rate =
                Given(msg.operator_glow_emission_rate, @),
            !.sponsor_reward_emission_index.glow_emission_rate =
                Given(msg.sponsor_glow_emission_rate, @)]
      BY <1>1, Zenon DEF execute_update_config
    <3> QED
      BY <1>0, <3>1, Zenon DEF State
  <2>3. state'.total_tickets = state.total_tickets
    BY <1>0, <2>2, Zenon DEF State
  <2>4. \E a1, a2, a3, a4, a5, a6, a7, a8 : config' = [config EXCEPT
          !.owner = a1, !.reserve_factor = a2, !.instant_withdrawal_fee = a3,
          !.unbonding_period = a4, !.epoch_interval = a5,
          !.max_holders = Given(msg.max_holders, @),
          !.max_tickets_per_depositor = a6, !.paused = a7, !.lotto_winner_boost_config = a8]
    BY <1>1, ZenonT(60) DEF execute_update_config
  <2>5. config'.max_holders = Given(msg.max_holders, config.max_holders)
    BY <1>0, <2>4, ZenonT(30) DEF Config
  <2>6. msg.max_holders # None => msg.max_holders >= config.max_holders
    BY <1>1, Zenon DEF execute_update_config, HoldersNotDecreased
  <2>7. config'.max_holders >= config.max_holders
    BY <1>0, <2>5, <2>6 DEF Given
  <2> QED
    BY <2>1, <2>3, <2>7, UntouchedBooks
<1>2. ASSUME NEW a, NEW msg, execute_update_lottery_config(a, msg)
      PROVE  Books'
  <2>1. UNCHANGED <<state, pool, depositors, tickets, sponsors, operators>>
    BY <1>2, Zenon DEF execute_update_lottery_config
  <2>2. \E a1, a2, a3, a4, a5 : config' = [config EXCEPT !.lottery_interval = a1,
          !.block_time = a2, !.round_delta = a3, !.ticket_price = a4, !.prize_distribution = a5]
    BY <1>2, Zenon DEF execute_update_lottery_config
  <2>3. config'.max_holders = config.max_holders
    BY <1>0, <2>2, Zenon DEF Config
  <2> QED
    BY <1>0, <2>1, <2>3, UntouchedBooks
<1>3. ASSUME NEW a, execute_register_contracts(a)
      PROVE  Books'
  <2>1. UNCHANGED <<state, pool, depositors, tickets, sponsors, operators>>
    BY <1>3, Zenon DEF execute_register_contracts
  <2>2. config' = [config EXCEPT !.registered = TRUE]
    BY <1>3, Zenon DEF execute_register_contracts
  <2>3. config'.max_holders = config.max_holders
    BY <1>0, <2>2, Zenon DEF Config
  <2> QED
    BY <1>0, <2>1, <2>3, UntouchedBooks
<1> QED
  BY <1>1, <1>2, <1>3, Zenon DEF Configurations

LEMMA OtherBooks ==
    ASSUME TypeOK, TypeOK', Books,
           \/ \E u \in Users : \E amount, d : SponsorAward(u, amount, d)
           \/ execute_epoch_ops \/ Clock \/ UNCHANGED vars
    PROVE  Books'
<1>0. pool \in Pool /\ state \in State /\ config.max_holders \in Nat
  BY DEF TypeOK, Config
<1>1. UNCHANGED <<config, pool, depositors, operators, tickets, sponsors>>
  BY Zenon DEF SponsorAward, execute_epoch_ops, Clock, NextBlock, vars, storage
<1>2. state'.total_tickets = state.total_tickets
  <2>1. CASE \E u \in Users : \E amount, d : SponsorAward(u, amount, d)
    <3>1. \E a, b : state' = [state EXCEPT !.sponsor_reward_emission_index = a,
                                           !.prize_buckets = b]
      BY <2>1, Zenon DEF SponsorAward
    <3> QED
      BY <1>0, <3>1, Zenon DEF State
  <2>2. CASE execute_epoch_ops
    <3>1. \E a : state' = [UpdatedIndexes EXCEPT !.next_epoch = a, !.total_reserve = 0]
      BY <2>2, Zenon DEF execute_epoch_ops
    <3> QED
      BY <1>0, <3>1, Zenon DEF State, UpdatedIndexes
  <2>3. CASE Clock \/ UNCHANGED vars
    BY <2>3, Zenon DEF Clock, NextBlock, vars, storage
  <2> QED
    BY <2>1, <2>2, <2>3
<1> QED
  BY <1>0, <1>1, <1>2, UntouchedBooks

LEMMA BooksStep ==
    ASSUME IInv, IInv', Books, [Next]_vars
    PROVE  Books'
<1>0. TypeOK /\ TypeOK'
  BY DEF IInv
<1>1. CASE Deposits \/ Gifts
  <2>1. PICK u \in Users, amount \in DepositAmounts \cup GiftAmounts, o \in OperatorChoices,
             requested \in TicketRequests : deposit(u, amount, o, requested)
    BY <1>1, Zenon DEF Deposits, execute_deposit, Gifts, execute_gift
  <2>2. o \in Users \cup {None} /\ requested \in Seq(Tickets)
    BY InputAssumption DEF Option
  <2> QED
    BY <1>0, <2>1, <2>2, DepositBooks
<1>2. CASE TicketClaims
  <2>1. PICK u \in Users, requested \in ClaimRequests : execute_claim_tickets(u, requested)
    BY <1>2, Zenon DEF TicketClaims
  <2>2. requested \in Seq(Tickets)
    BY InputAssumption
  <2> QED
    BY <1>0, <2>1, <2>2, ClaimTicketsBooks
<1>3. CASE Withdrawals
  <2>1. PICK u \in Users, amount \in WithdrawAmounts, instant \in InstantChoices :
               execute_withdraw(u, amount, instant)
    BY <1>3, Zenon DEF Withdrawals
  <2>2. amount \in Nat \cup {None}
    BY InputAssumption DEF Option
  <2> QED
    BY <1>0, <2>1, <2>2, WithdrawBooks
<1>4. CASE UnbondedClaims
  BY <1>0, <1>4, ClaimUnbondedBooks, Zenon DEF UnbondedClaims
<1>5. CASE Sponsorships
  <2>1. \/ \E u \in Users, amount \in SponsorAmounts : SponsorDeposit(u, amount)
        \/ \E u \in Users : \E amount, d : SponsorAward(u, amount, d)
    BY <1>5, Zenon DEF Sponsorships, execute_sponsor
  <2> QED
    BY <1>0, <2>1, SponsorDepositBooks, OtherBooks, Zenon
<1>6. CASE SponsorWithdrawals
  BY <1>0, <1>6, SponsorWithdrawBooks, Zenon DEF SponsorWithdrawals
<1>7. CASE RewardClaims
  <2>1. PICK u \in RewardClaimers : execute_claim_rewards(u)
    BY <1>7, Zenon DEF RewardClaims
  <2>2. u \in Users
    BY InputAssumption
  <2> QED
    BY <1>0, <2>1, <2>2, ClaimRewardsBooks
<1>8. CASE execute_lottery \/ PrizeExecutions \/ PrizeClaims
  BY <1>0, <1>8, DrawBooks
<1>9. CASE Configurations
  BY <1>0, <1>9, ConfigurationBooks
<1>10. CASE execute_epoch_ops \/ Clock \/ UNCHANGED vars
  BY <1>0, <1>10, OtherBooks, Zenon
<1>11. CASE migrate_old_depositors
  <2>1. UNCHANGED <<state, pool, depositors, tickets, sponsors, operators>>
    BY <1>11, Zenon DEF migrate_old_depositors
  <2>2. config'.max_holders = config.max_holders /\ config.max_holders \in Nat
    BY <1>0, <1>11, ForgettingKeepsSettings DEF TypeOK, Config
  <2> QED
    BY <1>0, <2>1, <2>2, UntouchedBooks
<1> QED
  BY <1>1, <1>2, <1>3, <1>4, <1>5, <1>6, <1>7, <1>8, <1>9, <1>10, <1>11, Zenon DEF Next

LEMMA InitBooks == Init => Books
<1> SUFFICES ASSUME Init PROVE Books
  OBVIOUS
<1>0. TypeOK
  BY InitType
<1>1. /\ pool.total_user_shares = 0 /\ pool.total_sponsor_lottery_deposits = 0
      /\ state.total_tickets = 0
      /\ depositors = [u \in Users |-> DefaultDepositor]
      /\ sponsors = [u \in Users |-> DefaultSponsor]
      /\ operators = [u \in Users |-> DefaultOperator]
      /\ tickets = [t \in {} |-> [u \in Users |-> 0]]
  BY DEF Init
<1>2. \A u \in Users : /\ depositors[u].shares = 0 /\ depositors[u].tickets = <<>>
                       /\ sponsors[u].lottery_deposit = 0 /\ operators[u].shares = 0
  BY <1>1 DEF DefaultDepositor, DefaultSponsor, DefaultOperator
<1>3. /\ \A u \in Users : SharesIn(depositors)[u] = 0
      /\ \A u \in Users : LengthsIn(depositors)[u] = 0
      /\ \A u \in Users : DepositsIn(sponsors)[u] = 0
      /\ \A o \in Users : \A u \in Users : NamingIn(depositors, o)[u] = 0
      /\ \A t : \A u \in Users : HoldersIn(tickets, t)[u] = 0
  BY <1>1, <1>2 DEF SharesIn, LengthsIn, DepositsIn, NamingIn, HoldersIn
<1>4. /\ SharesTotal(depositors) = 0 /\ LengthsTotal(depositors) = 0
      /\ DepositsTotal(sponsors) = 0
      /\ \A o \in Users : NamingTotal(depositors, o) = 0
      /\ \A t : HoldersTotal(tickets, t) = 0
  BY <1>3, UsersFinite, SumZero DEF SharesTotal, LengthsTotal, DepositsTotal, NamingTotal,
                                    HoldersTotal
<1>5. Registered(tickets, depositors)
  <2>1. ASSUME NEW t PROVE Count(<<>>, t) = 0
    <3>1. {i \in DOMAIN <<>> : <<>>[i] = t} = {}
      OBVIOUS
    <3> QED
      BY <3>1, FS_EmptySet DEF Count
  <2> QED
    BY <1>2, <1>3, <2>1 DEF Registered
<1>6. Limited(tickets, config.max_holders)
  <2>1. config.max_holders \in Nat
    BY <1>0 DEF TypeOK, Config
  <2> QED
    BY <1>4, <2>1 DEF Limited
<1> QED
  BY <1>1, <1>2, <1>4, <1>5, <1>6 DEF Books

\* The books agree with what they are about in every reachable state.
THEOREM BooksKept == Spec => [](IInv /\ Books)
<1>1. Init => Books
  BY InitBooks
<1>2. IInv /\ IInv' /\ Books /\ [Next]_vars => Books'
  BY BooksStep
<1> QED
  BY <1>1, <1>2, LottoInvariant, PTL DEF Spec

\* The totals of POOL, from which share prices and redemptions are computed,
\* are the sums over the depositors and the sponsors, whatever sequence of
\* deposits, gifts, withdrawals and sponsorships led there.
THEOREM TotalsOfPoolAreSums == Spec => []PoolTotalsAreSums
<1>1. TypeOK /\ Books => PoolTotalsAreSums
  <2> SUFFICES ASSUME TypeOK, Books PROVE PoolTotalsAreSums
    OBVIOUS
  <2>1. SumOver(Users, LAMBDA u : depositors[u].shares) = SharesTotal(depositors)
    <3>1. SumOver(Users, LAMBDA u : depositors[u].shares) = SumFunction(SharesIn(depositors))
      BY DEF SumOver, SharesIn
    <3>2. DOMAIN SharesIn(depositors) = Users
      BY DEF SharesIn
    <3> QED
      BY <3>1, <3>2, SumOnDomain DEF SharesTotal
  <2>2. SumOver(Users, LAMBDA u : sponsors[u].lottery_deposit) = DepositsTotal(sponsors)
    <3>1. SumOver(Users, LAMBDA u : sponsors[u].lottery_deposit) = SumFunction(DepositsIn(sponsors))
      BY DEF SumOver, DepositsIn
    <3>2. DOMAIN DepositsIn(sponsors) = Users
      BY DEF DepositsIn
    <3> QED
      BY <3>1, <3>2, SumOnDomain DEF DepositsTotal
  <2> QED
    BY <2>1, <2>2 DEF Books, PoolTotalsAreSums
<1> QED
  BY <1>1, BooksKept, PTL DEF IInv

\* Every operator earns on exactly the shares of the depositors that named
\* it, although deposit and execute_withdraw only ever add and subtract.
THEOREM OperatorsHaveTheirShares == Spec => []OperatorSharesMatch
<1>1. TypeOK /\ Books => OperatorSharesMatch
  <2> SUFFICES ASSUME TypeOK, Books, NEW o \in Users
               PROVE  operators[o].shares =
                        SumOver({u \in Users : depositors[u].operator_addr = o},
                                LAMBDA u : depositors[u].shares)
    BY DEF OperatorSharesMatch
  <2> DEFINE T == {u \in Users : depositors[u].operator_addr = o}
             f == [u \in T |-> depositors[u].shares]
             g == NamingIn(depositors, o)
  <2>1. SumOver(T, LAMBDA u : depositors[u].shares) = SumFunction(f)
    BY DEF SumOver
  <2>2. DOMAIN f = T /\ T \subseteq Users
    OBVIOUS
  <2>3. /\ \A u \in T : f[u] \in Int /\ g[u] = f[u]
        /\ \A u \in Users \ T : g[u] = 0
    BY DepositorsAreTyped DEF NamingIn, DepositorsTyped
  <2> HIDE DEF T, f, g
  <2>4. SumFunction(f) = SumFunctionOnSet(f, T)
    BY <2>2, SumOnDomain
  <2>5. SumFunctionOnSet(f, T) = SumFunctionOnSet(g, Users)
    BY <2>2, <2>3, UsersFinite, SumOnSubset
  <2>6. SumOver(T, LAMBDA u : depositors[u].shares) = NamingTotal(depositors, o)
    BY <2>1, <2>4, <2>5 DEF NamingTotal, g
  <2> QED
    BY <2>6 DEF Books, T
<1> QED
  BY <1>1, BooksKept, PTL DEF IInv

\* TICKETS agrees with the depositors' lists, no ticket has too many holders
\* and no draw starts without a ticket in it.
THEOREM TicketsStayRegistered == Spec => []TicketRegistryConsistent
<1>1. TypeOK /\ Books => TicketRegistryConsistent
  <2> SUFFICES ASSUME TypeOK, Books PROVE TicketRegistryConsistent
    OBVIOUS
  <2>1. \A t \in Tickets : \A u \in Users : Holders(t)[u] = Count(depositors[u].tickets, t)
    BY TicketsAreTyped DEF Books, Registered
  <2>2. \A t \in Tickets : NumberOfHolders(t) <= config.max_holders
    BY NumberOfHoldersIs DEF Books, Limited
  <2>3. HeldTickets = LengthsTotal(depositors)
    <3>1. HeldTickets = SumFunction(LengthsIn(depositors))
      BY DEF HeldTickets, SumOver, LengthsIn
    <3>2. DOMAIN LengthsIn(depositors) = Users
      BY DEF LengthsIn
    <3> QED
      BY <3>1, <3>2, SumOnDomain DEF LengthsTotal
  <2> QED
    BY <2>1, <2>2, <2>3 DEF Books, TicketRegistryConsistent
<1> QED
  BY <1>1, BooksKept, PTL DEF IInv

-----------------------------------------------------------------------------
(* The schedule of the draws.                                              *)

\* Only the configuration messages change the configuration.
LEMMA ConfigKept ==
    ASSUME [Next]_vars, ~Configurations, ~migrate_old_depositors
    PROVE  config' = config
<1>1. CASE Deposits \/ Gifts
  <2>1. ASSUME NEW u, NEW amount, NEW o, NEW requested, deposit(u, amount, o, requested)
        PROVE  config' = config
    BY <2>1, Zenon DEF deposit
  <2> QED
    BY <1>1, <2>1, Zenon DEF Deposits, Gifts, execute_deposit, execute_gift
<1>2. CASE Withdrawals
  <2>1. ASSUME NEW u, NEW amount, NEW instant, execute_withdraw(u, amount, instant)
        PROVE  config' = config
    BY <2>1, Zenon DEF execute_withdraw
  <2> QED
    BY <1>2, <2>1, Zenon DEF Withdrawals
<1>3. CASE Sponsorships
  <2>1. ASSUME NEW u, NEW amount, SponsorDeposit(u, amount) PROVE config' = config
    BY <2>1, Zenon DEF SponsorDeposit
  <2>2. ASSUME NEW u, NEW amount, NEW d, SponsorAward(u, amount, d) PROVE config' = config
    BY <2>2, Zenon DEF SponsorAward
  <2> QED
    BY <1>3, <2>1, <2>2, Zenon DEF Sponsorships, execute_sponsor
<1>4. CASE TicketClaims \/ UnbondedClaims \/ SponsorWithdrawals \/ RewardClaims
  BY <1>4, Zenon DEF TicketClaims, execute_claim_tickets, UnbondedClaims,
     execute_claim_unbonded, SponsorWithdrawals, execute_sponsor_withdraw, RewardClaims,
     execute_claim_rewards
<1>5. CASE execute_epoch_ops \/ execute_lottery \/ PrizeExecutions
  BY <1>5, ZenonT(30) DEF execute_epoch_ops, execute_lottery, PrizeExecutions, execute_prize
<1>6. CASE PrizeClaims
  BY <1>6, ZenonT(30) DEF PrizeClaims, execute_claim_lottery
<1>7. CASE Clock \/ UNCHANGED vars
  BY <1>7, Zenon DEF Clock, NextBlock, vars, storage
<1> QED
  BY <1>1, <1>2, <1>3, <1>4, <1>5, <1>6, <1>7, Zenon DEF Next

\* What a step may do to the settings of the draws.
LEMMA LotterySettings ==
    ASSUME TypeOK, [Next]_vars
    PROVE  \/ /\ config'.lottery_interval = config.lottery_interval
              /\ config'.round_delta = config.round_delta
              /\ config'.prize_distribution = config.prize_distribution
           \/ \E msg \in LotteryConfigUpdates :
                 /\ config'.lottery_interval = Given(msg.lottery_interval, config.lottery_interval)
                 /\ config'.round_delta = Given(msg.round_delta, config.round_delta)
                 /\ config'.prize_distribution
                      = Given(msg.prize_distribution, config.prize_distribution)
                 /\ msg.prize_distribution # None => ValidDistribution(msg.prize_distribution)
<1> DEFINE kept == /\ config'.lottery_interval = config.lottery_interval
                   /\ config'.round_delta = config.round_delta
                   /\ config'.prize_distribution = config.prize_distribution
<1>0. config \in Config
  BY DEF TypeOK
<1>1. CASE config' = config
  BY <1>1
<1>2. ASSUME NEW a, NEW msg, execute_update_config(a, msg)
      PROVE  kept
  <2>1. \E a1, a2, a3, a4, a5, a6, a7, a8, a9 : config' = [config EXCEPT
          !.owner = a1, !.reserve_factor = a2, !.instant_withdrawal_fee = a3,
          !.unbonding_period = a4, !.epoch_interval = a5, !.max_holders = a9,
          !.max_tickets_per_depositor = a6, !.paused = a7, !.lotto_winner_boost_config = a8]
    BY <1>2, ZenonT(60) DEF execute_update_config
  <2> QED
    BY <1>0, <2>1, ZenonT(60) DEF Config
<1>3. ASSUME NEW a, execute_register_contracts(a)
      PROVE  kept
  <2>1. config' = [config EXCEPT !.registered = TRUE]
    BY <1>3, Zenon DEF execute_register_contracts
  <2> QED
    BY <1>0, <2>1, Zenon DEF Config
<1>4. ASSUME NEW a, NEW msg \in LotteryConfigUpdates, execute_update_lottery_config(a, msg)
      PROVE  /\ config'.lottery_interval = Given(msg.lottery_interval, config.lottery_interval)
             /\ config'.round_delta = Given(msg.round_delta, config.round_delta)
             /\ config'.prize_distribution
                  = Given(msg.prize_distribution, config.prize_distribution)
             /\ msg.prize_distribution # None => ValidDistribution(msg.prize_distribution)
  <2>1. config' = [config EXCEPT
          !.lottery_interval = Given(msg.lottery_interval, @),
          !.block_time = Given(msg.block_time, @),
          !.round_delta = Given(msg.round_delta, @),
          !.ticket_price = Given(msg.ticket_price, @),
          !.prize_distribution = Given(msg.prize_distribution, @)]
    BY <1>4, Zenon DEF execute_update_lottery_config
  <2>2. msg.prize_distribution # None => ValidDistribution(msg.prize_distribution)
    BY <1>4, Zenon DEF execute_update_lottery_config
  <2>3. /\ config'.lottery_interval = Given(msg.lottery_interval, config.lottery_interval)
        /\ config'.round_delta = Given(msg.round_delta, config.round_delta)
        /\ config'.prize_distribution = Given(msg.prize_distribution, config.prize_distribution)
    BY <1>0, <2>1, ZenonT(30) DEF Config
  <2> QED
    BY <2>2, <2>3
<1>5. CASE Configurations
  BY <1>2, <1>3, <1>4, <1>5, Zenon DEF Configurations
<1>6. CASE migrate_old_depositors
  BY <1>6, ForgettingKeepsSettings
<1>7. ASSUME ~Configurations, ~migrate_old_depositors PROVE config' = config
  BY <1>7, ConfigKept
<1> QED
  BY <1>1, <1>5, <1>6, <1>7, Zenon

\* A draw starts with execute_lottery and with nothing else.
LEMMA StartsWithLottery ==
    ASSUME IInv, IInv', Next, ~LotteryStarted, LotteryStarted'
    PROVE  execute_lottery
<1> SUFFICES ASSUME ~execute_lottery PROVE FALSE
  OBVIOUS
<1>0. ~migrate_old_depositors
  BY Forgetting DEF IInv
<1>1. ~PrizeExecutions
  BY Zenon DEF PrizeExecutions, execute_prize
<1>2. lotteries' = lotteries
  <2>1. CASE PrizeClaims
    BY <2>1, ZenonT(30) DEF PrizeClaims, execute_claim_lottery
  <2> QED
    BY <1>0, <1>1, <2>1, OthersKeepDraws
<1>3. TypeOK /\ TypeOK' /\ LotteryLifecycle /\ LotteryLifecycle'
  BY DEF IInv
<1>4. /\ state.current_lottery \in 0..MaxLottery /\ state'.current_lottery \in 0..MaxLottery
      /\ state.current_lottery \in Nat /\ state'.current_lottery \in Nat
  BY <1>3 DEF TypeOK, State
<1>5. lotteries[state.current_lottery].rand_round = 0
  BY DEF LotteryStarted, current_lottery
<1>6. lotteries[state'.current_lottery].rand_round # 0
  BY <1>2 DEF LotteryStarted, current_lottery
<1>7. ~(state'.current_lottery > state.current_lottery)
  BY <1>3, <1>4, <1>6 DEF LotteryLifecycle, DefaultLottery
<1>8. ~(state'.current_lottery < state.current_lottery)
  <2> SUFFICES ASSUME state'.current_lottery < state.current_lottery PROVE FALSE
    OBVIOUS
  <2> DEFINE l == lotteries[state'.current_lottery]
  <2>1. PastDraw(l)
    BY <1>3, <1>4 DEF LotteryLifecycle
  <2>2. ~l.awarded
    BY <1>2, <1>3, <1>4 DEF LotteryLifecycle
  <2>3. l \in LotteryInfo
    BY <1>3, <1>4 DEF TypeOK
  <2> HIDE DEF l
  <2>4. l.rand_round = 0
    <3>1. [l EXCEPT !.total_user_shares = 0] = DefaultLottery
      BY <2>1, <2>2 DEF PastDraw
    <3>2. [l EXCEPT !.total_user_shares = 0].rand_round = l.rand_round
      BY <2>3 DEF LotteryInfo
    <3> QED
      BY <3>1, <3>2 DEF DefaultLottery
  <2> QED
    BY <1>6, <2>4 DEF l
<1>9. state'.current_lottery = state.current_lottery
  BY <1>4, <1>7, <1>8
<1> QED
  BY <1>5, <1>6, <1>9

\* Its round lies in the future.
LEMMA RoundInFuture ==
    ASSUME IInv, config.round_delta >= 2, execute_lottery
    PROVE  ~(OracleAnswers(current_lottery.rand_round)')
<1> DEFINE cur == state.current_lottery
           round == calculate_lottery_rand_round(block.time, config.round_delta)
           passed == (block.time - RAND_GENESIS) \div RAND_PERIOD
<1>1. TypeOK /\ ScheduleSound
  BY DEF IInv
<1>2. block' = block
  BY Zenon DEF execute_lottery
<1>3. current_lottery'.rand_round = round
  <2>1. PICK a, b, c : lotteries' = [lotteries EXCEPT ![cur] =
          [DefaultLottery EXCEPT !.rand_round = round, !.block_height = a, !.timestamp = b,
                                 !.total_user_shares = c]]
    BY Zenon DEF execute_lottery
  <2>2. PICK time, buckets, r : state' = [state EXCEPT
             !.next_lottery_exec_time = time,
             !.prize_buckets = buckets,
             !.last_lottery_execution_aust_exchange_rate = r]
    BY Zenon DEF execute_lottery
  <2>3. /\ state \in State /\ cur \in 0..MaxLottery
        /\ lotteries \in [0..MaxLottery -> LotteryInfo]
    BY <1>1 DEF TypeOK, State
  <2>4. state'.current_lottery = cur
    BY <2>2, <2>3, Zenon DEF State
  <2> HIDE DEF round
  <2>5. lotteries'[cur].rand_round = round
    BY <2>1, <2>3, Zenon DEF DefaultLottery
  <2> QED
    BY <2>4, <2>5 DEF current_lottery
<1>4. block.time \in Nat /\ config.round_delta \in Nat /\ InitTime <= block.time
  BY <1>1, FieldTypes DEF ScheduleTyped, ConfigTyped, ScheduleSound
<1>5. block.time - RAND_GENESIS \in Nat
  BY <1>4, InstantiationAssumption, RandAssumption
<1>6. /\ passed \in Nat
      /\ block.time - RAND_GENESIS < RAND_PERIOD * passed + RAND_PERIOD
  BY <1>5, RandAssumption, DivBounds
<1>7. round = passed + config.round_delta
  BY DEF calculate_lottery_rand_round
<1> HIDE DEF round, passed
<1>8. (passed + 1) * RAND_PERIOD <= (round - 1) * RAND_PERIOD
  <2>1. passed + 1 \in Nat /\ round - 1 \in Nat /\ passed + 1 <= round - 1
    BY <1>4, <1>6, <1>7
  <2> QED
    BY <2>1, RandAssumption, MulMono
<1>9. block.time < RAND_GENESIS + (round - 1) * RAND_PERIOD
  <2>1. (passed + 1) * RAND_PERIOD = RAND_PERIOD * passed + RAND_PERIOD
    BY <1>6, RandAssumption
  <2>2. (round - 1) * RAND_PERIOD \in Int
    BY <1>4, <1>6, <1>7, RandAssumption
  <2>3. RAND_PERIOD * passed \in Nat /\ RAND_GENESIS \in Nat /\ RAND_PERIOD \in Nat
    BY <1>6, RandAssumption, MulNat
  <2> QED
    BY <1>4, <1>6, <1>8, <2>1, <2>2, <2>3
<1>10. ~(block.time >= RAND_GENESIS + (round - 1) * RAND_PERIOD)
  <2>1. (round - 1) * RAND_PERIOD \in Int
    BY <1>4, <1>6, <1>7, RandAssumption
  <2> QED
    BY <1>4, <1>9, <2>1, RandAssumption
<1> QED
  BY <1>2, <1>3, <1>10 DEF OracleAnswers

RoundsAhead == config.round_delta >= 2

\* Nobody can know the winning sequence when the registry freezes, provided
\* the configured round_delta is at least 2 (no message checks that it is): a
\* draw waits for a round of the oracle that is still to come.
THEOREM SequencesUnknown ==
    ASSUME InitConfig.round_delta >= 2,
           \A msg \in LotteryConfigUpdates : msg.round_delta # None => msg.round_delta >= 2
    PROVE  Spec => SequenceUnknownAtStart
<1>1. Init => RoundsAhead
  BY Zenon DEF Init, RoundsAhead
<1>2. IInv /\ RoundsAhead /\ [Next]_vars => RoundsAhead'
  <2> SUFFICES ASSUME IInv, RoundsAhead, [Next]_vars PROVE RoundsAhead'
    OBVIOUS
  <2>1. TypeOK
    BY DEF IInv
  <2> QED
    BY <2>1, LotterySettings, Zenon DEF RoundsAhead, Given
<1>3. IInv /\ IInv' /\ RoundsAhead /\ [Next]_vars
        => [~LotteryStarted /\ LotteryStarted' => ~OracleAnswers(current_lottery'.rand_round)]_vars
  <2>1. ASSUME IInv, IInv', RoundsAhead, Next, ~LotteryStarted, LotteryStarted'
        PROVE  ~OracleAnswers(current_lottery'.rand_round)
    <3>1. execute_lottery
      BY <2>1, StartsWithLottery
    <3>2. ~(OracleAnswers(current_lottery.rand_round)') /\ block' = block
      BY <2>1, <3>1, RoundInFuture, Zenon DEF RoundsAhead, execute_lottery
    <3> QED
      BY <3>2 DEF OracleAnswers
  <2> QED
    BY <2>1, Zenon
<1> QED
  BY <1>1, <1>2, <1>3, LottoInvariant, PTL DEF Spec, SequenceUnknownAtStart

\* A multiple leaves no rest.
LEMMA ModMultiple ==
    ASSUME NEW k \in Nat, NEW n \in Nat \ {0}
    PROVE  (k * n) % n = 0
OBVIOUS

\* The award sets the time of the next draw, and nothing else does.
LEMMA TimeOfNextLottery ==
    ASSUME TypeOK, [Next]_vars
    PROVE  \/ state'.next_lottery_time = state.next_lottery_time
           \/ /\ LotteryStarted /\ config.lottery_interval > 0
              /\ state'.next_lottery_time
                   = NextLotteryTime(state.next_lottery_time, config.lottery_interval, block.time)
<1>0. state \in State
  BY DEF TypeOK
<1> DEFINE kept == state'.next_lottery_time = state.next_lottery_time
<1>1. ASSUME NEW u, NEW amount, NEW o, NEW requested, deposit(u, amount, o, requested)
      PROVE  kept
  <2>1. \E a, b : state' = [state EXCEPT !.operator_reward_emission_index = a,
                                         !.total_tickets = b]
    BY <1>1, Zenon DEF deposit
  <2> QED
    BY <1>0, <2>1, Zenon DEF State
<1>2. ASSUME NEW u, NEW amount, NEW instant, execute_withdraw(u, amount, instant)
      PROVE  kept
  <2>1. \E a, b, c : state' = [state EXCEPT !.operator_reward_emission_index = a,
                                            !.total_tickets = b, !.total_reserve = c]
    BY <1>2, Zenon DEF execute_withdraw
  <2> QED
    BY <1>0, <2>1, Zenon DEF State
<1>3. ASSUME NEW u, NEW amount, SponsorDeposit(u, amount)
      PROVE  kept
  <2>1. \E a : state' = [state EXCEPT !.sponsor_reward_emission_index = a]
    BY <1>3, Zenon DEF SponsorDeposit
  <2> QED
    BY <1>0, <2>1, Zenon DEF State
<1>4. ASSUME NEW u, NEW amount, NEW d, SponsorAward(u, amount, d)
      PROVE  kept
  <2>1. \E a, b : state' = [state EXCEPT !.sponsor_reward_emission_index = a,
                                         !.prize_buckets = b]
    BY <1>4, Zenon DEF SponsorAward
  <2> QED
    BY <1>0, <2>1, Zenon DEF State
<1>5. ASSUME NEW u, execute_sponsor_withdraw(u)
      PROVE  kept
  <2>1. \E a : state' = [state EXCEPT !.sponsor_reward_emission_index = a]
    BY <1>5, Zenon DEF execute_sponsor_withdraw
  <2> QED
    BY <1>0, <2>1, Zenon DEF State
<1>6. ASSUME NEW u, execute_claim_rewards(u)
      PROVE  kept
  <2>1. state' = UpdatedIndexes
    BY <1>6, Zenon DEF execute_claim_rewards
  <2> QED
    BY <1>0, <2>1, Zenon DEF State, UpdatedIndexes
<1>7. CASE execute_epoch_ops
  <2>1. \E a : state' = [UpdatedIndexes EXCEPT !.next_epoch = a, !.total_reserve = 0]
    BY <1>7, Zenon DEF execute_epoch_ops
  <2> QED
    BY <1>0, <2>1, Zenon DEF State, UpdatedIndexes
<1>8. CASE execute_lottery
  <2>1. \E a, b, c : state' = [state EXCEPT !.next_lottery_exec_time = a,
                !.prize_buckets = b, !.last_lottery_execution_aust_exchange_rate = c]
    BY <1>8, Zenon DEF execute_lottery
  <2> QED
    BY <1>0, <2>1, Zenon DEF State
<1>9. ASSUME NEW limit, execute_prize(limit)
      PROVE  \/ kept
             \/ /\ LotteryStarted /\ config.lottery_interval > 0
                /\ state'.next_lottery_time
                     = NextLotteryTime(state.next_lottery_time, config.lottery_interval, block.time)
  <2>1. LotteryStarted
    BY <1>9, Zenon DEF execute_prize
  <2>2. \/ state' = state
        \/ config.lottery_interval > 0 /\ \E winners : state' = StateAfterAward(winners)
    BY <1>9, ZenonT(30) DEF execute_prize
  <2>3. ASSUME NEW winners, state' = StateAfterAward(winners)
        PROVE  state'.next_lottery_time
                 = NextLotteryTime(state.next_lottery_time, config.lottery_interval, block.time)
    <3>1. \E a, b, c, d : state' = [state EXCEPT !.total_reserve = a, !.prize_buckets = b,
             !.current_lottery = c,
             !.next_lottery_time = NextLotteryTime(@, config.lottery_interval, block.time),
             !.next_lottery_exec_time = d]
      BY <2>3, Zenon DEF StateAfterAward
    <3> QED
      BY <1>0, <3>1, Zenon DEF State
  <2> QED
    BY <2>1, <2>2, <2>3
<1>10. ASSUME NEW a, NEW msg, execute_update_config(a, msg)
       PROVE  kept
  <2>1. state' = [state EXCEPT
          !.operator_reward_emission_index.glow_emission_rate =
              Given(msg.operator_glow_emission_rate, @),
          !.sponsor_reward_emission_index.glow_emission_rate =
              Given(msg.sponsor_glow_emission_rate, @)]
    BY <1>10, Zenon DEF execute_update_config
  <2> QED
    BY <1>0, <2>1, Zenon DEF State
<1>11. CASE TicketClaims \/ UnbondedClaims
  BY <1>11, Zenon DEF TicketClaims, execute_claim_tickets, UnbondedClaims, execute_claim_unbonded
<1>12. CASE PrizeClaims
  BY <1>12, ZenonT(30) DEF PrizeClaims, execute_claim_lottery
<1>13. CASE Configurations
  BY <1>10, <1>13, Zenon DEF Configurations, execute_update_lottery_config,
                             execute_register_contracts
<1>14. CASE Clock \/ migrate_old_depositors \/ UNCHANGED vars
  BY <1>14, Zenon DEF Clock, NextBlock, migrate_old_depositors, vars, storage
<1>15. CASE Deposits \/ Gifts \/ Withdrawals
  BY <1>1, <1>2, <1>15, Zenon DEF Deposits, Gifts, Withdrawals, execute_deposit, execute_gift
<1>16. CASE Sponsorships \/ SponsorWithdrawals \/ RewardClaims
  BY <1>3, <1>4, <1>5, <1>6, <1>16, Zenon DEF Sponsorships, SponsorWithdrawals, RewardClaims,
                                              execute_sponsor
<1>17. CASE PrizeExecutions
  BY <1>9, <1>17, Zenon DEF PrizeExecutions
<1> QED
  BY <1>7, <1>8, <1>11, <1>12, <1>13, <1>14, <1>15, <1>16, <1>17, Zenon DEF Next

\* The next draw is a whole number of intervals after the first one.
OnGrid ==
    /\ config.lottery_interval = InitConfig.lottery_interval
    /\ \E k \in Nat : state.next_lottery_time = InitLotteryTime + k * InitConfig.lottery_interval

\* Where an award puts the next draw.
LEMMA NextOnGrid ==
    ASSUME NEW t \in Nat, NEW n \in Nat \ {0}, NEW now \in Nat, t <= now
    PROVE  /\ NextLotteryTime(t, n, now) > now
           /\ NextLotteryTime(t, n, now) <= now + n
           /\ \E j \in Nat : NextLotteryTime(t, n, now) = t + n * j
<1> DEFINE passed == (now - t) \div n
           next == NextLotteryTime(t, n, now)
<1>1. now - t \in Nat
  OBVIOUS
<1>2. passed \in Nat /\ n * passed <= now - t /\ now - t < n * passed + n
  BY <1>1, DivBounds
<1>3. next = t + n * (1 + passed)
  BY DEF NextLotteryTime
<1> HIDE DEF passed, next
<1>4. n * (1 + passed) = n + n * passed /\ n * passed \in Nat
  BY <1>2, MulNat
<1>5. next > now /\ next <= now + n
  BY <1>1, <1>2, <1>3, <1>4
<1>6. 1 + passed \in Nat
  BY <1>2
<1> QED
  BY <1>3, <1>5, <1>6 DEF next

LEMMA GridStep ==
    ASSUME IInv, OnGrid, [Next]_vars,
           \A msg \in LotteryConfigUpdates : msg.lottery_interval = None
    PROVE  /\ OnGrid'
           /\ state'.next_lottery_time # state.next_lottery_time =>
                /\ state'.next_lottery_time > block.time
                /\ state'.next_lottery_time <= block.time + config.lottery_interval
                /\ (state'.next_lottery_time - InitLotteryTime) % config.lottery_interval = 0
<1> DEFINE n == InitConfig.lottery_interval
<1>1. TypeOK /\ ScheduleSound
  BY DEF IInv
<1>2. config.lottery_interval = n /\ config'.lottery_interval = n
  BY <1>1, LotterySettings, Zenon DEF OnGrid, Given
<1>3. n \in Nat /\ InitLotteryTime \in Nat /\ block.time \in Nat /\ state.next_lottery_time \in Nat
  BY <1>1, FieldTypes, InstantiationAssumption DEF ScheduleTyped, Config
<1>4. PICK k \in Nat : state.next_lottery_time = InitLotteryTime + k * n
  BY DEF OnGrid
<1>5. CASE state'.next_lottery_time = state.next_lottery_time
  BY <1>2, <1>4, <1>5 DEF OnGrid
<1>6. CASE /\ LotteryStarted /\ config.lottery_interval > 0
           /\ state'.next_lottery_time
                = NextLotteryTime(state.next_lottery_time, config.lottery_interval, block.time)
  <2>1. n \in Nat \ {0} /\ state.next_lottery_time <= block.time
    BY <1>1, <1>2, <1>3, <1>6 DEF ScheduleSound
  <2>2. state'.next_lottery_time = NextLotteryTime(state.next_lottery_time, n, block.time)
    BY <1>2, <1>6
  <2>3. /\ state'.next_lottery_time > block.time
        /\ state'.next_lottery_time <= block.time + n
        /\ \E j \in Nat : state'.next_lottery_time = InitLotteryTime + j * n
    <3> HIDE DEF n
    <3>1. /\ state'.next_lottery_time > block.time
          /\ state'.next_lottery_time <= block.time + n
          /\ \E j \in Nat : state'.next_lottery_time = state.next_lottery_time + n * j
      <4>1. \A t \in Nat : \A m \in Nat \ {0} : \A now \in Nat : t <= now =>
               /\ NextLotteryTime(t, m, now) > now
               /\ NextLotteryTime(t, m, now) <= now + m
               /\ \E j \in Nat : NextLotteryTime(t, m, now) = t + m * j
        BY NextOnGrid
      <4> DEFINE t == state.next_lottery_time
                 now == block.time
      <4>2. t \in Nat /\ now \in Nat /\ n \in Nat \ {0} /\ t <= now
        BY <1>3, <2>1
      <4> HIDE DEF t, now
      <4>3. /\ NextLotteryTime(t, n, now) > now
            /\ NextLotteryTime(t, n, now) <= now + n
            /\ \E j \in Nat : NextLotteryTime(t, n, now) = t + n * j
        BY <4>1, <4>2
      <4> QED
        BY <2>2, <4>3 DEF t, now
    <3>2. PICK j \in Nat : state'.next_lottery_time = state.next_lottery_time + n * j
      BY <3>1
    <3>3. k + j \in Nat /\ (k + j) * n = k * n + n * j /\ k * n \in Nat /\ n * j \in Nat
      BY <2>1, MulNat
    <3>4. state'.next_lottery_time = InitLotteryTime + (k + j) * n
      BY <1>3, <1>4, <3>2, <3>3
    <3> QED
      BY <3>1, <3>3, <3>4
  <2>4. PICK j \in Nat : state'.next_lottery_time = InitLotteryTime + j * n
    BY <2>3
  <2>5. state'.next_lottery_time - InitLotteryTime = j * n
    <3>1. j * n \in Nat
      BY <2>1, MulNat
    <3>2. \A x \in Nat : (InitLotteryTime + x) - InitLotteryTime = x
      BY <1>3
    <3> QED
      BY <2>4, <3>1, <3>2
  <2>6. (state'.next_lottery_time - InitLotteryTime) % n = 0
    BY <2>1, <2>5, ModMultiple
  <2> HIDE DEF n
  <2>7. OnGrid'
    BY <1>2, <2>3 DEF OnGrid, n
  <2> QED
    BY <1>2, <2>3, <2>6, <2>7
<1> QED
  BY <1>1, <1>5, <1>6, TimeOfNextLottery

\* However late execute_lottery and execute_prize are called, the draws stay
\* on the grid of the interval as long as the owner keeps the interval.
THEOREM DrawsStayOnSchedule ==
    ASSUME \A msg \in LotteryConfigUpdates : msg.lottery_interval = None
    PROVE  Spec => NextLotteryOnSchedule
<1>1. Init => OnGrid
  <2> SUFFICES ASSUME Init PROVE OnGrid
    OBVIOUS
  <2>1. config = InitConfig /\ state.next_lottery_time = InitLotteryTime
    BY DEF Init
  <2>2. 0 * InitConfig.lottery_interval = 0 /\ InitLotteryTime \in Nat
    BY InstantiationAssumption DEF Config
  <2>3. state.next_lottery_time = InitLotteryTime + 0 * InitConfig.lottery_interval
    BY <2>1, <2>2
  <2> QED
    BY <2>1, <2>3 DEF OnGrid
<1>2. IInv /\ OnGrid /\ [Next]_vars => OnGrid'
  BY GridStep
<1>3. IInv /\ OnGrid /\ [Next]_vars =>
        [state'.next_lottery_time # state.next_lottery_time =>
          /\ state'.next_lottery_time > block.time
          /\ state'.next_lottery_time <= block.time + config.lottery_interval
          /\ (state'.next_lottery_time - InitLotteryTime) % config.lottery_interval = 0]_vars
  BY GridStep
<1> QED
  BY <1>1, <1>2, <1>3, LottoInvariant, PTL DEF Spec, NextLotteryOnSchedule

-----------------------------------------------------------------------------
(* What the contract owes in UST.                                          *)

\* The numbers of the draws.
Draws == 0..MaxLottery

LEMMA FiniteSets ==
    /\ IsFiniteSet(Buckets) /\ IsFiniteSet(Draws)
    /\ IsFiniteSet(Users) /\ IsFiniteSet(Tickets)
<1>1. IsFiniteSet(Tickets)
  <2>1. Power[TicketLength] - 1 \in Int
    BY TicketAssumption, PowerType
  <2> QED
    BY <2>1, FS_Interval DEF Tickets
<1>2. IsFiniteSet(Buckets)
  BY TicketAssumption, FS_Interval DEF Buckets
<1>3. IsFiniteSet(Draws)
  <2>1. MaxLottery \in Int /\ 0 \in Int
    BY LimitsAssumption
  <2>2. IsFiniteSet(0..MaxLottery)
    BY <2>1, FS_Interval, Zenon
  <2> QED
    BY <2>2 DEF Draws
<1> QED
  BY <1>1, <1>2, <1>3, UsersFinite

\* The sums of the debts, of any tables.
BucketsTotal(bs) == SumFunctionOnSet(bs, Buckets)

ClaimAmounts(info) == [c \in info |-> c.amount]
ClaimsOf(info) == SumFunctionOnSet(ClaimAmounts(info), info)
ClaimsIn(ds) == [u \in Users |-> ClaimsOf(ds[u].unbonding_info)]
ClaimsTotal(ds) == SumFunctionOnSet(ClaimsIn(ds), Users)

OwedIn(l, ps) ==
    [u \in Users |-> IF l.awarded /\ ~ps[u].claimed THEN WinnerUst(l, ps[u].matches) ELSE 0]
OwedOf(l, ps) == SumFunctionOnSet(OwedIn(l, ps), Users)
OwedBy(ls, ps) == [i \in Draws |-> OwedOf(ls[i], ps[i])]
OwedTotal(ls, ps) == SumFunctionOnSet(OwedBy(ls, ps), Draws)

MatchesIn(ps, m) == [u \in Users |-> ps[u].matches[m]]

\* The winners of a draw are those whose matches were counted.
MatchesCounted(l, ps) ==
    \A m \in Buckets : l.number_winners[m] = SumFunctionOnSet(MatchesIn(ps, m), Users)

\* The same for a draw whose record has not been forgotten.
DrawCounted(l, ps) == l.awarded \/ l.rand_round # 0 => MatchesCounted(l, ps)

\* The inductive invariant for the UST.
UstBooks ==
    /\ \A i \in Draws : DrawCounted(lotteries[i], prizes[i])
    /\ BucketsTotal(config.prize_distribution) = One
    /\ \A u \in Users : IsFiniteSet(depositors[u].unbonding_info)
    /\ state.total_reserve + BucketsTotal(state.prize_buckets) + ClaimsTotal(depositors)
         + OwedTotal(lotteries, prizes) <= bank.ust

LEMMA BucketsTyped ==
    ASSUME NEW bs \in [Buckets -> Nat]
    PROVE  BucketsTotal(bs) \in Nat
<1>1. \A i \in Buckets : bs[i] \in Nat
  OBVIOUS
<1> QED
  BY <1>1, FiniteSets, SumNat DEF BucketsTotal

LEMMA ClaimsTyped ==
    ASSUME NEW info, IsFiniteSet(info), \A c \in info : c.amount \in Nat
    PROVE  ClaimsOf(info) \in Nat
<1>1. \A c \in info : ClaimAmounts(info)[c] \in Nat
  BY DEF ClaimAmounts
<1> QED
  BY <1>1, SumNat DEF ClaimsOf

\* The claims of every depositor are amounts.
ClaimsGood(ds) ==
    \A u \in Users : /\ IsFiniteSet(ds[u].unbonding_info)
                     /\ \A c \in ds[u].unbonding_info : c.amount \in Nat

LEMMA ClaimsTotalTyped ==
    ASSUME NEW ds, ClaimsGood(ds)
    PROVE  ClaimsTotal(ds) \in Nat /\ \A u \in Users : ClaimsOf(ds[u].unbonding_info) \in Nat
<1>1. \A u \in Users : ClaimsOf(ds[u].unbonding_info) \in Nat
  BY ClaimsTyped DEF ClaimsGood
<1>2. \A u \in Users : ClaimsIn(ds)[u] \in Nat
  BY <1>1 DEF ClaimsIn
<1> QED
  BY <1>1, <1>2, FiniteSets, SumNat DEF ClaimsTotal

\* When the claims of one depositor change.
LEMMA OneDepositorsClaims ==
    ASSUME NEW ds, NEW es, ClaimsGood(ds), ClaimsGood(es), NEW u \in Users,
           \A v \in Users \ {u} : es[v].unbonding_info = ds[v].unbonding_info
    PROVE  ClaimsTotal(es) = ClaimsTotal(ds) - ClaimsOf(ds[u].unbonding_info)
                               + ClaimsOf(es[u].unbonding_info)
<1> DEFINE f == ClaimsIn(ds)
           g == ClaimsIn(es)
<1>0. /\ \A v \in Users : ClaimsOf(ds[v].unbonding_info) \in Nat
      /\ \A v \in Users : ClaimsOf(es[v].unbonding_info) \in Nat
  BY ClaimsTotalTyped
<1>1. /\ \A s \in Users : f[s] \in Int
      /\ \A s \in Users : g[s] \in Int
      /\ \A s \in Users \ {u} : g[s] = f[s]
      /\ f[u] = ClaimsOf(ds[u].unbonding_info) /\ g[u] = ClaimsOf(es[u].unbonding_info)
  BY <1>0 DEF ClaimsIn
<1> HIDE DEF f, g
<1>2. SumFunctionOnSet(g, Users) = SumFunctionOnSet(f, Users) - f[u] + g[u]
  BY <1>1, FiniteSets, SumUpdate
<1> QED
  BY <1>1, <1>2 DEF ClaimsTotal, f, g

\* Adding a claim, and taking some away.
LEMMA ClaimAdded ==
    ASSUME NEW info, IsFiniteSet(info), \A c \in info : c.amount \in Nat,
           NEW new, new \notin info, new.amount \in Nat
    PROVE  /\ IsFiniteSet(info \cup {new})
           /\ ClaimsOf(info \cup {new}) = ClaimsOf(info) + new.amount
<1> DEFINE all == info \cup {new}
           f == ClaimAmounts(all)
           g == ClaimAmounts(info)
<1>1. IsFiniteSet(all)
  BY FS_AddElement
<1>2. /\ \A c \in all : f[c] \in Int
      /\ f[new] = new.amount /\ new \in all /\ all \ {new} = info
      /\ \A c \in info : f[c] = g[c]
  BY DEF ClaimAmounts
<1> HIDE DEF f, g, all
<1>3. SumFunctionOnSet(f, all) = f[new] + SumFunctionOnSet(f, all \ {new})
  BY <1>1, <1>2, SumSplit
<1>4. SumFunctionOnSet(f, info) = SumFunctionOnSet(g, info)
  BY <1>2, SumSame
<1>5. ClaimsOf(info) \in Nat
  BY ClaimsTyped
<1>6. ClaimsOf(all) = new.amount + ClaimsOf(info)
  BY <1>2, <1>3, <1>4 DEF ClaimsOf, f, g
<1> QED
  BY <1>1, <1>5, <1>6 DEF all

LEMMA ClaimsTaken ==
    ASSUME NEW info, IsFiniteSet(info), \A c \in info : c.amount \in Nat,
           NEW taken \in SUBSET info
    PROVE  /\ IsFiniteSet(info \ taken) /\ IsFiniteSet(taken)
           /\ ClaimsOf(info) = ClaimsOf(taken) + ClaimsOf(info \ taken)
           /\ ClaimsOf(taken) \in Nat /\ ClaimsOf(info \ taken) \in Nat
<1> DEFINE rest == info \ taken
           f == ClaimAmounts(info)
           g == ClaimAmounts(taken)
           h == ClaimAmounts(rest)
<1>1. IsFiniteSet(rest) /\ IsFiniteSet(taken) /\ taken \cap rest = {} /\ taken \cup rest = info
  BY FS_Subset, FS_Difference
<1>2. ClaimsOf(taken) \in Nat /\ ClaimsOf(rest) \in Nat
  BY <1>1, ClaimsTyped
<1>3. /\ \A c \in taken \cup rest : f[c] \in Int
      /\ \A c \in taken : f[c] = g[c]
      /\ \A c \in rest : f[c] = h[c]
  BY DEF ClaimAmounts
<1> HIDE DEF f, g, h, rest
<1>4. SumFunctionOnSet(f, taken \cup rest) = SumFunctionOnSet(f, taken) + SumFunctionOnSet(f, rest)
  BY <1>1, <1>3, SumUnion
<1>5. /\ SumFunctionOnSet(f, taken) = SumFunctionOnSet(g, taken)
      /\ SumFunctionOnSet(f, rest) = SumFunctionOnSet(h, rest)
  BY <1>1, <1>3, SumSame
<1>6. ClaimsOf(info) = ClaimsOf(taken) + ClaimsOf(rest)
  BY <1>1, <1>4, <1>5 DEF ClaimsOf, f, g, h
<1> QED
  BY <1>1, <1>2, <1>6 DEF rest

\* A distribution that adds up to one gives away no more than there is.
LEMMA DistributeTotal ==
    ASSUME NEW bs \in [Buckets -> Nat], NEW amount \in Nat, NEW d \in [Buckets -> Nat],
           BucketsTotal(d) = One
    PROVE  /\ Distribute(bs, amount, d) \in [Buckets -> Nat]
           /\ BucketsTotal(Distribute(bs, amount, d)) <= BucketsTotal(bs) + amount
<1> DEFINE part   == [i \in Buckets |-> DecMul(amount, d[i])]
           scaled == [i \in Buckets |-> One * part[i]]
           whole  == [i \in Buckets |-> amount * d[i]]
           new    == Distribute(bs, amount, d)
<1>1. One \in Nat \ {0} /\ One \in Int /\ IsFiniteSet(Buckets)
  BY OneAssumption, FiniteSets
<1>2. ASSUME NEW i \in Buckets
      PROVE  part[i] \in Nat /\ scaled[i] \in Int /\ whole[i] \in Int /\ scaled[i] <= whole[i]
  <2>1. d[i] \in Nat
    OBVIOUS
  <2>2. /\ DecMul(amount, d[i]) \in Nat
        /\ DecMul(amount, d[i]) * One <= amount * d[i]
    BY <2>1, DecMulBounds
  <2>3. amount * d[i] \in Nat
    BY <2>1, MulNat
  <2>4. part[i] = DecMul(amount, d[i]) /\ scaled[i] = One * part[i] /\ whole[i] = amount * d[i]
    OBVIOUS
  <2> HIDE DEF part, scaled, whole
  <2> QED
    BY <1>1, <2>2, <2>3, <2>4
<1>3. /\ \A i \in Buckets : scaled[i] = One * part[i]
      /\ \A i \in Buckets : whole[i] = amount * d[i]
      /\ \A i \in Buckets : new[i] = bs[i] + part[i]
      /\ new = [i \in Buckets |-> bs[i] + part[i]]
  BY DEF Distribute
<1>4. \A i \in Buckets : bs[i] \in Int /\ d[i] \in Int /\ part[i] \in Int
  BY <1>2
<1> HIDE DEF part, scaled, whole, new
<1>5. SumFunctionOnSet(scaled, Buckets) = One * SumFunctionOnSet(part, Buckets)
  BY <1>1, <1>3, <1>4, SumScale
<1>6. SumFunctionOnSet(whole, Buckets) = amount * SumFunctionOnSet(d, Buckets)
  BY <1>1, <1>3, <1>4, SumScale
<1>7. SumFunctionOnSet(scaled, Buckets) <= SumFunctionOnSet(whole, Buckets)
  BY <1>1, <1>2, SumBelow
<1>8. SumFunctionOnSet(part, Buckets) \in Nat
  BY <1>1, <1>2, SumNat
<1>9. SumFunctionOnSet(part, Buckets) <= amount
  <2>1. SumFunctionOnSet(part, Buckets) * One <= amount * One
    BY <1>1, <1>5, <1>6, <1>7, <1>8 DEF BucketsTotal
  <2> QED
    BY <1>1, <1>8, <2>1, MulCancel
<1>10. SumFunctionOnSet(new, Buckets)
         = SumFunctionOnSet(bs, Buckets) + SumFunctionOnSet(part, Buckets)
  BY <1>1, <1>3, <1>4, SumPlus
<1>11. new \in [Buckets -> Nat]
  <2>1. \A i \in Buckets : bs[i] + part[i] \in Nat
    BY <1>2
  <2> QED
    BY <1>3, <2>1
<1>12. BucketsTotal(bs) \in Nat
  BY BucketsTyped
<1>13. BucketsTotal(new) = BucketsTotal(bs) + SumFunctionOnSet(part, Buckets)
  BY <1>10 DEF BucketsTotal
<1>14. BucketsTotal(new) <= BucketsTotal(bs) + amount
  BY <1>8, <1>9, <1>12, <1>13
<1> QED
  BY <1>11, <1>14 DEF new

LEMMA ValidIsOne ==
    ASSUME NEW d \in [Buckets -> Nat], ValidDistribution(d)
    PROVE  BucketsTotal(d) = One
<1> DEFINE f == [i \in Buckets |-> d[i]]
<1>1. f = d /\ DOMAIN f = Buckets
  OBVIOUS
<1>2. SumFunction(f) = One
  BY DEF ValidDistribution, SumOver
<1> HIDE DEF f
<1>3. SumFunctionOnSet(f, Buckets) = One
  BY <1>1, <1>2, SumOnDomain
<1> QED
  BY <1>1, <1>3 DEF BucketsTotal

-----------------------------------------------------------------------------
(* Prizes that winners have not claimed.                                   *)

\* The parts of one prize, bucket by bucket.
ShareIn(l, matches) ==
    [i \in Buckets |-> PrizeShare(l.prize_buckets[i], matches[i], l.number_winners[i])]

LEMMA ShareTyped ==
    ASSUME NEW b \in Nat, NEW m \in Nat, NEW w \in Nat
    PROVE  PrizeShare(b, m, w) \in Nat /\ w * PrizeShare(b, m, w) <= b * m
<1>1. b * m \in Nat
  BY MulNat
<1>2. CASE w = 0
  BY <1>1, <1>2 DEF PrizeShare
<1>3. CASE w # 0
  <2>1. w \in Nat \ {0}
    BY <1>3
  <2>2. (b * m) \div w \in Nat /\ w * ((b * m) \div w) <= b * m
    BY <1>1, <2>1, DivBounds
  <2>3. PrizeShare(b, m, w) = (b * m) \div w
    BY <1>3 DEF PrizeShare, multiply_ratio
  <2> QED
    BY <2>2, <2>3
<1> QED
  BY <1>2, <1>3

LEMMA CountsAreNat ==
    ASSUME NEW f \in [Buckets -> 0..Uint32Max], NEW m \in Buckets
    PROVE  f[m] \in Nat
<1>1. f[m] \in 0..Uint32Max
  OBVIOUS
<1> QED
  BY <1>1, LimitsAssumption

LEMMA LotteryFields ==
    ASSUME NEW l \in LotteryInfo, NEW m \in Buckets
    PROVE  l.prize_buckets[m] \in Nat /\ l.number_winners[m] \in Nat
<1>1. l.prize_buckets \in [Buckets -> Nat] /\ l.number_winners \in [Buckets -> 0..Uint32Max]
  BY DEF LotteryInfo
<1> QED
  BY <1>1, CountsAreNat

LEMMA SharesTyped ==
    ASSUME NEW l \in LotteryInfo, NEW matches \in [Buckets -> 0..Uint32Max]
    PROVE  /\ \A m \in Buckets : ShareIn(l, matches)[m] \in Nat
           /\ WinnerUst(l, matches) = SumFunctionOnSet(ShareIn(l, matches), Buckets)
           /\ WinnerUst(l, matches) \in Nat
<1> DEFINE f == ShareIn(l, matches)
<1>1. \A m \in Buckets : f[m] \in Nat
  BY LotteryFields, CountsAreNat, ShareTyped DEF ShareIn
<1>2. WinnerUst(l, matches) = SumFunction(f) /\ DOMAIN f = Buckets
  BY DEF WinnerUst, ShareIn
<1> HIDE DEF f
<1>3. SumFunction(f) = SumFunctionOnSet(f, Buckets)
  BY <1>2, SumOnDomain
<1>4. SumFunctionOnSet(f, Buckets) \in Nat
  BY <1>1, FiniteSets, SumNat
<1> QED
  BY <1>1, <1>2, <1>3, <1>4 DEF f

LEMMA PrizeFields ==
    ASSUME NEW ps \in [Users -> PrizeInfo], NEW u \in Users
    PROVE  ps[u].claimed \in BOOLEAN /\ ps[u].matches \in [Buckets -> 0..Uint32Max]
<1>1. ps[u] \in PrizeInfo
  OBVIOUS
<1> QED
  BY <1>1 DEF PrizeInfo

LEMMA OwedTyped ==
    ASSUME NEW l \in LotteryInfo, NEW ps \in [Users -> PrizeInfo]
    PROVE  /\ \A u \in Users : OwedIn(l, ps)[u] \in Nat
           /\ OwedOf(l, ps) \in Nat
<1>1. \A u \in Users : WinnerUst(l, ps[u].matches) \in Nat
  BY PrizeFields, SharesTyped
<1>2. \A u \in Users : OwedIn(l, ps)[u] \in Nat
  BY <1>1 DEF OwedIn
<1> QED
  BY <1>2, FiniteSets, SumNat DEF OwedOf

LEMMA OwedTotalTyped ==
    ASSUME NEW ls \in [Draws -> LotteryInfo],
           NEW ps \in [Draws -> [Users -> PrizeInfo]]
    PROVE  /\ \A i \in Draws : OwedBy(ls, ps)[i] \in Nat
           /\ OwedTotal(ls, ps) \in Nat
<1>1. \A i \in Draws : ls[i] \in LotteryInfo /\ ps[i] \in [Users -> PrizeInfo]
  OBVIOUS
<1>2. \A i \in Draws : OwedOf(ls[i], ps[i]) \in Nat
  BY <1>1, OwedTyped
<1>3. \A i \in Draws : OwedBy(ls, ps)[i] \in Nat
  BY <1>2 DEF OwedBy
<1> QED
  BY <1>3, FiniteSets, SumNat DEF OwedTotal

\* However a bucket is divided among its winners, no more than the bucket is
\* paid: the shares are rounded down one by one.
LEMMA SharesOfBucket ==
    ASSUME NEW b \in Nat, NEW w \in Nat, NEW f, \A u \in Users : f[u] \in Nat,
           w = SumFunctionOnSet(f, Users), NEW g,
           \A u \in Users : g[u] = PrizeShare(b, f[u], w)
    PROVE  SumFunctionOnSet(g, Users) <= IF w # 0 THEN b ELSE 0
<1> DEFINE scaled == [u \in Users |-> w * g[u]]
           whole  == [u \in Users |-> b * f[u]]
<1>1. ASSUME NEW u \in Users
      PROVE  g[u] \in Nat /\ w * g[u] <= b * f[u]
  <2>1. f[u] \in Nat /\ g[u] = PrizeShare(b, f[u], w)
    OBVIOUS
  <2>2. PrizeShare(b, f[u], w) \in Nat /\ w * PrizeShare(b, f[u], w) <= b * f[u]
    BY <2>1, ShareTyped, Zenon
  <2> QED
    BY <2>1, <2>2
<1>2. \A u \in Users : w * g[u] \in Nat /\ b * f[u] \in Nat
  BY <1>1, MulNat
<1>3. /\ \A u \in Users : scaled[u] = w * g[u]
      /\ \A u \in Users : whole[u] = b * f[u]
      /\ \A u \in Users : scaled[u] \in Int
      /\ \A u \in Users : whole[u] \in Int
      /\ \A u \in Users : scaled[u] <= whole[u]
  BY <1>1, <1>2
<1>4. \A u \in Users : g[u] \in Int /\ f[u] \in Int
  BY <1>1
<1> HIDE DEF scaled, whole
<1>5. CASE w = 0
  <2>1. \A u \in Users : g[u] = 0
    BY <1>5 DEF PrizeShare
  <2>2. SumFunctionOnSet(g, Users) = 0
    BY <2>1, FiniteSets, SumZero
  <2> QED
    BY <1>5, <2>2
<1>6. CASE w # 0
  <2>1. SumFunctionOnSet(scaled, Users) = w * SumFunctionOnSet(g, Users)
    BY <1>3, <1>4, FiniteSets, SumScale
  <2>2. SumFunctionOnSet(whole, Users) = b * SumFunctionOnSet(f, Users)
    BY <1>3, <1>4, FiniteSets, SumScale
  <2>3. SumFunctionOnSet(scaled, Users) <= SumFunctionOnSet(whole, Users)
    BY <1>3, FiniteSets, SumBelow
  <2>4. SumFunctionOnSet(g, Users) \in Nat
    BY <1>1, FiniteSets, SumNat
  <2>5. SumFunctionOnSet(g, Users) * w <= b * w
    BY <2>1, <2>2, <2>3, <2>4
  <2>6. SumFunctionOnSet(g, Users) <= b
    BY <1>6, <2>4, <2>5, MulCancel
  <2> QED
    BY <1>6, <2>6
<1> QED
  BY <1>5, <1>6

\* A draw owes no more than the buckets that have winners.
WonBuckets(l) == [m \in Buckets |-> IF l.number_winners[m] # 0 THEN l.prize_buckets[m] ELSE 0]

LEMMA PrizesOfDraw ==
    ASSUME NEW l \in LotteryInfo, NEW ps \in [Users -> PrizeInfo], MatchesCounted(l, ps)
    PROVE  OwedOf(l, ps) <= SumFunctionOnSet(WonBuckets(l), Buckets)
<1> DEFINE f       == [u \in Users |-> ShareIn(l, ps[u].matches)]
           rows    == [u \in Users |-> SumFunctionOnSet(f[u], Buckets)]
           columns == [m \in Buckets |-> SumFunctionOnSet(Column(f, Users, m), Users)]
           won     == WonBuckets(l)
           owed    == OwedIn(l, ps)
<1>1. \A u \in Users : /\ f[u] = ShareIn(l, ps[u].matches)
                       /\ rows[u] = SumFunctionOnSet(f[u], Buckets)
  OBVIOUS
<1>2. \A u \in Users : \A m \in Buckets : f[u][m] \in Nat
  BY PrizeFields, SharesTyped
<1>3. \A u \in Users : WinnerUst(l, ps[u].matches) = rows[u]
  BY PrizeFields, SharesTyped
<1>4. \A m \in Buckets : columns[m] = SumFunctionOnSet(Column(f, Users, m), Users)
  OBVIOUS
<1>5. \A u \in Users : \A m \in Buckets :
         f[u][m] = PrizeShare(l.prize_buckets[m], ps[u].matches[m], l.number_winners[m])
  BY DEF ShareIn
<1> HIDE DEF f, rows, columns
<1>6. \A u \in Users : rows[u] \in Nat
  <2> SUFFICES ASSUME NEW u \in Users PROVE rows[u] \in Nat
    OBVIOUS
  <2> DEFINE row == f[u]
  <2>1. \A m \in Buckets : row[m] \in Nat
    BY <1>2
  <2>2. rows[u] = SumFunctionOnSet(row, Buckets)
    BY <1>1
  <2> HIDE DEF row
  <2> QED
    BY <2>1, <2>2, FiniteSets, SumNat
<1>7. SumFunctionOnSet(rows, Users) = SumFunctionOnSet(columns, Buckets)
  <2>1. \A u \in Users : rows[u] = SumFunctionOnSet(f[u], Buckets)
    BY <1>1
  <2>2. \A u \in Users : \A m \in Buckets : f[u][m] \in Int
    BY <1>2
  <2>3. IsFiniteSet(Users) /\ IsFiniteSet(Buckets)
    BY FiniteSets
  <2>4. \A b \in Buckets : columns[b] = SumFunctionOnSet(Column(f, Users, b), Users)
    BY <1>4
  <2> HIDE DEF Column
  <2> QED
    BY <2>1, <2>2, <2>3, <2>4, SumSwap
<1>8. ASSUME NEW m \in Buckets
      PROVE  columns[m] \in Nat /\ won[m] \in Nat /\ columns[m] <= won[m]
  <2> DEFINE counts == MatchesIn(ps, m)
             shares == Column(f, Users, m)
             b == l.prize_buckets[m]
             w == l.number_winners[m]
  <2>1. b \in Nat /\ w \in Nat
    BY LotteryFields
  <2>2. w = SumFunctionOnSet(counts, Users)
    BY DEF MatchesCounted
  <2>3. \A u \in Users : counts[u] = ps[u].matches[m] /\ counts[u] \in Nat
    BY PrizeFields, CountsAreNat DEF MatchesIn
  <2>4. \A u \in Users : shares[u] = f[u][m] /\ shares[u] \in Nat
    BY <1>2 DEF Column
  <2>5. \A u \in Users : shares[u] = PrizeShare(b, counts[u], w)
    BY <1>5, <2>3, <2>4
  <2>6. won[m] = IF w # 0 THEN b ELSE 0
    BY DEF WonBuckets
  <2>7. columns[m] = SumFunctionOnSet(shares, Users)
    BY <1>4
  <2> HIDE DEF counts, shares, b, w, won
  <2>8. SumFunctionOnSet(shares, Users) \in Nat
    BY <2>4, FiniteSets, SumNat
  <2>9. SumFunctionOnSet(shares, Users) <= IF w # 0 THEN b ELSE 0
    BY <2>1, <2>2, <2>3, <2>5, SharesOfBucket
  <2> QED
    BY <2>1, <2>6, <2>7, <2>8, <2>9
<1> HIDE DEF won, owed
<1>9. SumFunctionOnSet(columns, Buckets) <= SumFunctionOnSet(won, Buckets)
  BY <1>8, FiniteSets, SumBelow
<1>10. ASSUME NEW u \in Users PROVE owed[u] \in Nat /\ owed[u] <= rows[u]
  BY <1>3, <1>6, OwedTyped DEF owed, OwedIn
<1>11. SumFunctionOnSet(owed, Users) <= SumFunctionOnSet(rows, Users)
  BY <1>6, <1>10, FiniteSets, SumBelow
<1>12. /\ SumFunctionOnSet(owed, Users) \in Nat
       /\ SumFunctionOnSet(columns, Buckets) \in Nat
       /\ SumFunctionOnSet(won, Buckets) \in Nat
  BY <1>8, <1>10, FiniteSets, SumNat
<1>13. SumFunctionOnSet(owed, Users) <= SumFunctionOnSet(won, Buckets)
  BY <1>7, <1>9, <1>11, <1>12
<1> QED
  BY <1>13 DEF OwedOf, owed, won

\* What a page adds to the matches of a depositor.
LEMMA NewMatchesTyped ==
    ASSUME TypeOK, NEW page \in SUBSET (DOMAIN tickets), NEW sequence, NEW u \in Users, NEW m
    PROVE  NewMatches(page, sequence, u, m) \in Nat
<1> DEFINE hits == {t \in page : count_seq_matches(sequence, t) = m}
           f    == [t \in hits |-> tickets[t][u]]
<1>1. hits \subseteq DOMAIN tickets /\ hits \subseteq Tickets
  BY DEF TypeOK
<1>2. IsFiniteSet(hits)
  BY <1>1, FiniteSets, FS_Subset
<1>3. \A t \in hits : f[t] \in Nat
  BY <1>1 DEF TypeOK
<1>4. NewMatches(page, sequence, u, m) = SumFunction(f) /\ DOMAIN f = hits
  BY DEF NewMatches, SumOver
<1> HIDE DEF f, hits
<1>5. SumFunction(f) = SumFunctionOnSet(f, hits)
  BY <1>4, SumOnDomain
<1> QED
  BY <1>2, <1>3, <1>4, <1>5, SumNat

\* A page adds the same to the number of winners as to the entries.
LEMMA PageCounted ==
    ASSUME TypeOK, NEW page \in SUBSET (DOMAIN tickets), NEW sequence,
           NEW l \in LotteryInfo, NEW ps \in [Users -> PrizeInfo], MatchesCounted(l, ps),
           NEW m \in Buckets
    PROVE  WinnersAfter(l, page, sequence)[m]
             = SumFunctionOnSet(MatchesIn(PrizesAfter(ps, page, sequence), m), Users)
<1> DEFINE f == MatchesIn(ps, m)
           g == [u \in Users |-> NewMatches(page, sequence, u, m)]
           after == PrizesAfter(ps, page, sequence)
           h == MatchesIn(after, m)
<1>1. \A u \in Users : f[u] = ps[u].matches[m] /\ f[u] \in Int
  BY PrizeFields, CountsAreNat DEF MatchesIn
<1>2. \A u \in Users : g[u] = NewMatches(page, sequence, u, m) /\ g[u] \in Int
  BY NewMatchesTyped
<1>3. ASSUME NEW u \in Users PROVE after[u].matches[m] = ps[u].matches[m] + g[u]
  <2> DEFINE new == [k \in Buckets |-> ps[u].matches[k] + NewMatches(page, sequence, u, k)]
  <2>1. after[u] = [ps[u] EXCEPT !.matches = new]
    BY DEF PrizesAfter
  <2>2. new[m] = ps[u].matches[m] + g[u]
    OBVIOUS
  <2>3. ps[u] \in PrizeInfo
    OBVIOUS
  <2> HIDE DEF new, g, after
  <2>4. after[u].matches = new
    BY <2>1, <2>3, Zenon DEF PrizeInfo
  <2> QED
    BY <2>2, <2>4
<1>4. SumOver(Users, LAMBDA u : NewMatches(page, sequence, u, m)) = SumFunction(g)
  BY DEF SumOver
<1>5. DOMAIN g = Users
  OBVIOUS
<1> HIDE DEF g, after
<1>6. \A u \in Users : h[u] = f[u] + g[u]
  BY <1>1, <1>3 DEF MatchesIn
<1>7. l.number_winners[m] = SumFunctionOnSet(f, Users)
  BY DEF MatchesCounted
<1>8. WinnersAfter(l, page, sequence)[m] = l.number_winners[m] + SumFunction(g)
  BY <1>4 DEF WinnersAfter
<1> HIDE DEF f, h
<1>9. SumFunctionOnSet(h, Users) = SumFunctionOnSet(f, Users) + SumFunctionOnSet(g, Users)
  BY <1>1, <1>2, <1>6, FiniteSets, SumPlus
<1>10. SumFunction(g) = SumFunctionOnSet(g, Users)
  BY <1>5, SumOnDomain
<1> QED
  BY <1>7, <1>8, <1>9, <1>10 DEF h, after

\* Where a bucket goes at the award: what stays, what the winners get and
\* what the reserve gets add up to the bucket.
FeeIn(winners) == [i \in Buckets |-> IF winners[i] # 0 THEN ReserveFee(i) ELSE 0]
KeptIn(winners) == [i \in Buckets |-> IF winners[i] # 0 THEN 0 ELSE state.prize_buckets[i]]

LEMMA FeesAre ==
    ASSUME TypeOK, FractionsValid, NEW winners
    PROVE  /\ ReserveFees(winners) = SumFunctionOnSet(FeeIn(winners), Buckets)
           /\ ReserveFees(winners) \in Nat
           /\ \A i \in Buckets : FeeIn(winners)[i] \in Nat
           /\ \A i \in Buckets : FeeIn(winners)[i] <= state.prize_buckets[i]
<1> DEFINE hit == {j \in Buckets : winners[j] # 0}
           f == [j \in hit |-> ReserveFee(j)]
           g == FeeIn(winners)
<1>1. \A i \in Buckets : ReserveFee(i) \in Nat /\ ReserveFee(i) <= state.prize_buckets[i]
  <2> SUFFICES ASSUME NEW i \in Buckets
               PROVE  ReserveFee(i) \in Nat /\ ReserveFee(i) <= state.prize_buckets[i]
    OBVIOUS
  <2>1. state.prize_buckets[i] \in Nat
    BY DEF TypeOK, State
  <2>2. config.reserve_factor \in Nat /\ config.reserve_factor <= One
    BY FieldTypes DEF ConfigTyped, FractionsValid
  <2> QED
    BY <2>1, <2>2, DecMulBounds, FractionBound DEF ReserveFee
<1>2. ReserveFees(winners) = SumFunction(f) /\ DOMAIN f = hit
  BY DEF ReserveFees, SumOver
<1>3. /\ hit \in SUBSET Buckets
      /\ \A s \in hit : f[s] \in Int
      /\ \A s \in hit : g[s] = f[s]
      /\ \A s \in Buckets \ hit : g[s] = 0
  BY <1>1 DEF FeeIn
<1>4. \A i \in Buckets : state.prize_buckets[i] \in Nat
  BY DEF TypeOK, State
<1>5. /\ \A i \in Buckets : g[i] \in Nat
      /\ \A i \in Buckets : g[i] <= state.prize_buckets[i]
  BY <1>1, <1>4 DEF FeeIn
<1> HIDE DEF hit, f, g
<1>6. SumFunction(f) = SumFunctionOnSet(f, hit)
  BY <1>2, SumOnDomain
<1>7. SumFunctionOnSet(f, hit) = SumFunctionOnSet(g, Buckets)
  BY <1>3, FiniteSets, SumOnSubset
<1>8. SumFunctionOnSet(g, Buckets) \in Nat
  BY <1>5, FiniteSets, SumNat
<1> QED
  BY <1>2, <1>5, <1>6, <1>7, <1>8 DEF g

LEMMA AwardTotals ==
    ASSUME TypeOK, FractionsValid, NEW winners, NEW won,
           \A i \in Buckets : won[i] = IF winners[i] # 0
                                       THEN state.prize_buckets[i] - ReserveFee(i) ELSE 0
    PROVE  /\ KeptIn(winners) \in [Buckets -> Nat]
           /\ SumFunctionOnSet(won, Buckets) \in Nat
           /\ BucketsTotal(state.prize_buckets)
                = BucketsTotal(KeptIn(winners)) + SumFunctionOnSet(won, Buckets)
                    + ReserveFees(winners)
<1> DEFINE b == state.prize_buckets
           fee == FeeIn(winners)
           kept == KeptIn(winners)
           paid == [i \in Buckets |-> won[i] + fee[i]]
<1>1. \A i \in Buckets : b[i] \in Nat
  BY DEF TypeOK, State
<1>2. \A i \in Buckets : fee[i] \in Nat /\ fee[i] <= b[i]
  BY FeesAre
<1>3. ASSUME NEW i \in Buckets
      PROVE  /\ won[i] \in Nat /\ kept[i] \in Nat /\ paid[i] \in Nat
             /\ paid[i] = won[i] + fee[i]
             /\ b[i] = kept[i] + paid[i]
  <2>1. won[i] = IF winners[i] # 0 THEN b[i] - fee[i] ELSE 0
    BY DEF FeeIn
  <2>2. kept[i] = IF winners[i] # 0 THEN 0 ELSE b[i]
    BY DEF KeptIn
  <2>3. winners[i] = 0 => fee[i] = 0
    BY DEF FeeIn
  <2>4. paid[i] = won[i] + fee[i]
    OBVIOUS
  <2> HIDE DEF paid, kept, fee
  <2> QED
    BY <1>1, <1>2, <2>1, <2>2, <2>3, <2>4
<1>4. kept = [i \in Buckets |-> kept[i]]
  BY DEF KeptIn
<1> HIDE DEF b, fee, kept, paid
<1>5. SumFunctionOnSet(paid, Buckets)
        = SumFunctionOnSet(won, Buckets) + SumFunctionOnSet(fee, Buckets)
  BY <1>2, <1>3, FiniteSets, SumPlus
<1>6. SumFunctionOnSet(b, Buckets)
        = SumFunctionOnSet(kept, Buckets) + SumFunctionOnSet(paid, Buckets)
  BY <1>3, FiniteSets, SumPlus
<1>7. /\ SumFunctionOnSet(kept, Buckets) \in Nat
      /\ SumFunctionOnSet(won, Buckets) \in Nat
      /\ SumFunctionOnSet(fee, Buckets) \in Nat
  BY <1>2, <1>3, FiniteSets, SumNat
<1>8. ReserveFees(winners) = SumFunctionOnSet(fee, Buckets)
  BY FeesAre DEF fee
<1>9. SumFunctionOnSet(b, Buckets)
        = SumFunctionOnSet(kept, Buckets) + SumFunctionOnSet(won, Buckets) + ReserveFees(winners)
  BY <1>5, <1>6, <1>7, <1>8
<1>10. kept \in [Buckets -> Nat]
  BY <1>3, <1>4
<1> QED
  BY <1>7, <1>9, <1>10 DEF BucketsTotal, b, kept

-----------------------------------------------------------------------------
(* Every message keeps the contract's UST above its debts.                 *)

LEMMA ClaimsAreGood ==
    ASSUME TypeOK, UstBooks
    PROVE  ClaimsGood(depositors)
<1>1. ASSUME NEW u \in Users, NEW c \in depositors[u].unbonding_info
      PROVE  c.amount \in Nat
  <2>1. c \in Claim
    BY DepositorFields
  <2> QED
    BY <2>1 DEF Claim
<1> QED
  BY <1>1 DEF UstBooks, ClaimsGood

LEMMA UstTyped ==
    ASSUME TypeOK, ClaimsGood(depositors)
    PROVE  /\ state.total_reserve \in Nat /\ BucketsTotal(state.prize_buckets) \in Nat
           /\ state.prize_buckets \in [Buckets -> Nat]
           /\ ClaimsTotal(depositors) \in Nat /\ OwedTotal(lotteries, prizes) \in Nat
           /\ bank.ust \in Nat
<1>1. /\ state.total_reserve \in Nat /\ state.prize_buckets \in [Buckets -> Nat]
      /\ bank.ust \in Nat
  BY DEF TypeOK, State
<1>2. /\ lotteries \in [Draws -> LotteryInfo]
      /\ prizes \in [Draws -> [Users -> PrizeInfo]]
  BY DEF TypeOK, Draws
<1> QED
  BY <1>1, <1>2, BucketsTyped, ClaimsTotalTyped, OwedTotalTyped

LEMMA UstTypedNext ==
    ASSUME TypeOK', ClaimsGood(depositors')
    PROVE  /\ state'.total_reserve \in Nat /\ BucketsTotal(state'.prize_buckets) \in Nat
           /\ ClaimsTotal(depositors') \in Nat /\ OwedTotal(lotteries', prizes') \in Nat
           /\ bank'.ust \in Nat
<1>1. /\ state'.total_reserve \in Nat /\ state'.prize_buckets \in [Buckets -> Nat]
      /\ bank'.ust \in Nat
  BY DEF TypeOK, State
<1>2. /\ lotteries' \in [Draws -> LotteryInfo]
      /\ prizes' \in [Draws -> [Users -> PrizeInfo]]
  BY DEF TypeOK, Draws
<1> QED
  BY <1>1, <1>2, BucketsTyped, ClaimsTotalTyped, OwedTotalTyped

\* What is owed falls by no less than the UST that leaves the contract.
UstFlow ==
    state'.total_reserve + BucketsTotal(state'.prize_buckets) + ClaimsTotal(depositors')
        + OwedTotal(lotteries', prizes') + bank.ust
      <= state.total_reserve + BucketsTotal(state.prize_buckets) + ClaimsTotal(depositors)
           + OwedTotal(lotteries, prizes) + bank'.ust

\* A step that leaves the draws alone.
LEMMA UstFrame ==
    ASSUME TypeOK, TypeOK', UstBooks, lotteries' = lotteries, prizes' = prizes,
           BucketsTotal(config'.prize_distribution) = One, ClaimsGood(depositors'),
           state'.total_reserve + BucketsTotal(state'.prize_buckets) + ClaimsTotal(depositors')
               + bank.ust
             <= state.total_reserve + BucketsTotal(state.prize_buckets)
                  + ClaimsTotal(depositors) + bank'.ust
    PROVE  UstBooks' /\ UstFlow
<1>1. ClaimsGood(depositors)
  BY ClaimsAreGood
<1> DEFINE r == state.total_reserve
           b == BucketsTotal(state.prize_buckets)
           c == ClaimsTotal(depositors)
           o == OwedTotal(lotteries, prizes)
           m == bank.ust
           r1 == state'.total_reserve
           b1 == BucketsTotal(state'.prize_buckets)
           c1 == ClaimsTotal(depositors')
           m1 == bank'.ust
<1>2. r \in Nat /\ b \in Nat /\ c \in Nat /\ o \in Nat /\ m \in Nat
  BY <1>1, UstTyped
<1>3. r1 \in Nat /\ b1 \in Nat /\ c1 \in Nat /\ m1 \in Nat
  BY UstTypedNext
<1>4. r + b + c + o <= m
  BY DEF UstBooks
<1>5. r1 + b1 + c1 + m <= r + b + c + m1
  OBVIOUS
<1>6. OwedTotal(lotteries', prizes') = o
  OBVIOUS
<1> HIDE DEF r, b, c, o, m, r1, b1, c1, m1
<1>7. r1 + b1 + c1 + o <= m1
  BY <1>2, <1>3, <1>4, <1>5
<1>8. /\ r1 + b1 + c1 + OwedTotal(lotteries', prizes') <= m1
      /\ r1 + b1 + c1 + OwedTotal(lotteries', prizes') + m <= r + b + c + o + m1
  BY <1>2, <1>3, <1>5, <1>6, <1>7
<1>9. \A u \in Users : IsFiniteSet(depositors'[u].unbonding_info)
  BY DEF ClaimsGood
<1>10. \A i \in Draws : DrawCounted(lotteries'[i], prizes'[i])
  BY DEF UstBooks
<1> QED
  BY <1>8, <1>9, <1>10 DEF UstBooks, UstFlow, r, b, c, o, m, r1, b1, c1, m1

\* The usual case: the claims, the buckets and the reserve stay as they are.
LEMMA UstGrows ==
    ASSUME TypeOK, TypeOK', UstBooks, lotteries' = lotteries, prizes' = prizes,
           BucketsTotal(config'.prize_distribution) = One,
           \A u \in Users : depositors'[u].unbonding_info = depositors[u].unbonding_info,
           state'.total_reserve = state.total_reserve,
           state'.prize_buckets = state.prize_buckets,
           bank.ust <= bank'.ust
    PROVE  UstBooks' /\ UstFlow
<1>1. ClaimsGood(depositors)
  BY ClaimsAreGood
<1>2. ClaimsGood(depositors')
  BY <1>1 DEF ClaimsGood
<1>3. ClaimsIn(depositors') = ClaimsIn(depositors)
  BY DEF ClaimsIn
<1>4. ClaimsTotal(depositors') = ClaimsTotal(depositors)
  BY <1>3 DEF ClaimsTotal
<1>5. BucketsTotal(state'.prize_buckets) = BucketsTotal(state.prize_buckets)
  OBVIOUS
<1>6. /\ state.total_reserve \in Nat /\ BucketsTotal(state.prize_buckets) \in Nat
      /\ ClaimsTotal(depositors) \in Nat /\ bank.ust \in Nat
  BY <1>1, UstTyped
<1>7. bank'.ust \in Nat
  BY <1>2, UstTypedNext
<1>8. state'.total_reserve + BucketsTotal(state'.prize_buckets) + ClaimsTotal(depositors')
          + bank.ust
        <= state.total_reserve + BucketsTotal(state.prize_buckets)
             + ClaimsTotal(depositors) + bank'.ust
  BY <1>4, <1>5, <1>6, <1>7
<1> QED
  BY <1>2, <1>8, UstFrame

\* Deposits and gifts.
LEMMA DepositUst ==
    ASSUME IInv, IInv', UstBooks, NEW u \in Users, NEW amount,
           NEW new_operator \in Users \cup {None}, NEW requested \in Seq(Tickets),
           deposit(u, amount, new_operator, requested)
    PROVE  UstBooks' /\ UstFlow
<1> DEFINE paid == Charge(deduct_tax(amount))
<1>1. TypeOK /\ TypeOK' /\ MoneyTyped /\ state \in State /\ bank \in [ust : Nat, aust : Nat]
  BY FieldTypes DEF IInv, TypeOK
<1>2. \A v \in Users : depositors'[v].unbonding_info = depositors[v].unbonding_info
  BY DepositEffect
<1>3. /\ UNCHANGED <<config, lotteries, prizes>>
      /\ amount \in 1..purse
      /\ \E a, b : state' = [state EXCEPT !.operator_reward_emission_index = a,
                                          !.total_tickets = b]
      /\ \E a : bank' = [bank EXCEPT !.ust = @ + amount - paid, !.aust = a]
  BY Zenon DEF deposit
<1>4. state'.total_reserve = state.total_reserve /\ state'.prize_buckets = state.prize_buckets
  BY <1>1, <1>3, Zenon DEF State
<1>5. amount \in Nat
  BY <1>1, <1>3 DEF MoneyTyped
<1>6. paid \in Nat /\ paid <= amount
  BY <1>5, TaxDeductionCoversTransfer
<1> HIDE DEF paid
<1>7. bank'.ust = bank.ust + amount - paid
  BY <1>1, <1>3, Zenon
<1>8. bank.ust <= bank'.ust
  BY <1>1, <1>5, <1>6, <1>7 DEF MoneyTyped
<1>9. BucketsTotal(config'.prize_distribution) = One
  BY <1>3 DEF UstBooks
<1> QED
  BY <1>1, <1>2, <1>3, <1>4, <1>8, <1>9, UstGrows

LEMMA ClaimTicketsUst ==
    ASSUME IInv, IInv', UstBooks, NEW u \in Users, NEW requested,
           execute_claim_tickets(u, requested)
    PROVE  UstBooks' /\ UstFlow
<1>1. TypeOK /\ TypeOK' /\ MoneyTyped
  BY FieldTypes DEF IInv
<1>2. /\ UNCHANGED <<config, state, lotteries, prizes, bank>>
      /\ \E c : depositors' = [depositors EXCEPT ![u].tickets = @ \o c]
  BY Zenon DEF execute_claim_tickets, chain
<1>3. \A v \in Users : depositors'[v].unbonding_info = depositors[v].unbonding_info
  <2>1. depositors \in [Users -> DepositorInfo] /\ depositors[u] \in DepositorInfo
    BY <1>1 DEF TypeOK
  <2>2. PICK c : depositors' = [depositors EXCEPT ![u].tickets = @ \o c]
    BY <1>2
  <2> DEFINE more == depositors[u].tickets \o c
  <2>3. depositors' = [depositors EXCEPT ![u] = [@ EXCEPT !.tickets = more]]
    BY <2>1, <2>2, Zenon
  <2> HIDE DEF more
  <2> QED
    BY <2>1, <2>3 DEF DepositorInfo
<1>4. bank.ust <= bank'.ust
  BY <1>1, <1>2 DEF MoneyTyped
<1>5. BucketsTotal(config'.prize_distribution) = One
  BY <1>2 DEF UstBooks
<1> QED
  BY <1>1, <1>2, <1>3, <1>4, <1>5, UstGrows

\* Sponsors who deposit, and who take their deposit back.
LEMMA SponsorUst ==
    ASSUME IInv, IInv', UstBooks, NEW u \in Users,
           (\E amount : SponsorDeposit(u, amount)) \/ execute_sponsor_withdraw(u)
    PROVE  UstBooks' /\ UstFlow
<1>1. TypeOK /\ TypeOK' /\ MoneyTyped /\ state \in State /\ bank \in [ust : Nat, aust : Nat]
  BY FieldTypes DEF IInv, TypeOK
<1>2. /\ UNCHANGED <<config, lotteries, prizes, depositors>>
      /\ \E a : state' = [state EXCEPT !.sponsor_reward_emission_index = a]
  BY Zenon DEF SponsorDeposit, execute_sponsor_withdraw
<1>3. state'.total_reserve = state.total_reserve /\ state'.prize_buckets = state.prize_buckets
  BY <1>1, <1>2, Zenon DEF State
<1>4. \E x \in Nat : \E a : bank' = [bank EXCEPT !.ust = @ + x - Charge(deduct_tax(x)), !.aust = a]
  <2>1. CASE \E amount : SponsorDeposit(u, amount)
    <3>1. PICK amount : SponsorDeposit(u, amount)
      BY <2>1
    <3>2. /\ amount \in 1..purse
          /\ \E a : bank' = [bank EXCEPT !.ust = @ + amount - Charge(deduct_tax(amount)),
                                         !.aust = a]
      BY <3>1, Zenon DEF SponsorDeposit
    <3>3. amount \in Nat
      BY <1>1, <3>2 DEF MoneyTyped
    <3> QED
      BY <3>2, <3>3
  <2>2. CASE execute_sponsor_withdraw(u)
    <3> DEFINE redeemed == DecDiv(sponsors[u].lottery_deposit, rate)
               received == AnchorReturns(redeemed)
    <3>1. \E a : bank' = [bank EXCEPT !.ust = @ + received - Charge(deduct_tax(received)),
                                      !.aust = a]
      BY <2>2, Zenon DEF execute_sponsor_withdraw
    <3>2. sponsors[u].lottery_deposit \in Nat
      BY <1>1 DEF TypeOK, SponsorInfo
    <3>3. redeemed \in Nat
      BY <1>1, <3>2, DecDivBounds DEF MoneyTyped
    <3>4. received \in Nat
      BY <1>1, <3>3, AnchorReturnsType
    <3> HIDE DEF received
    <3> QED
      BY <3>1, <3>4
  <2> QED
    BY <2>1, <2>2
<1>5. bank.ust <= bank'.ust
  <2>1. PICK x \in Nat : \E a : bank' = [bank EXCEPT !.ust = @ + x - Charge(deduct_tax(x)),
                                                    !.aust = a]
    BY <1>4
  <2> DEFINE paid == Charge(deduct_tax(x))
  <2>2. paid \in Nat /\ paid <= x
    BY TaxDeductionCoversTransfer
  <2>3. \E a : bank' = [bank EXCEPT !.ust = @ + x - paid, !.aust = a]
    BY <2>1
  <2> HIDE DEF paid
  <2>4. bank'.ust = bank.ust + x - paid
    BY <1>1, <2>3, Zenon
  <2> QED
    BY <1>1, <2>2, <2>4 DEF MoneyTyped
<1>6. BucketsTotal(config'.prize_distribution) = One
  BY <1>2 DEF UstBooks
<1> QED
  BY <1>1, <1>2, <1>3, <1>5, <1>6, UstGrows

\* Adding an amount to the buckets, as an award of a sponsor and the start of
\* a draw do.
LEMMA BucketsFilled ==
    ASSUME TypeOK, TypeOK', UstBooks,
           OwedTotal(lotteries', prizes') = OwedTotal(lotteries, prizes),
           \A i \in Draws : DrawCounted(lotteries'[i], prizes'[i]),
           config' = config, depositors' = depositors,
           NEW x \in Nat, NEW d \in [Buckets -> Nat], BucketsTotal(d) = One,
           state'.total_reserve = state.total_reserve,
           state'.prize_buckets = Distribute(state.prize_buckets, x, d),
           bank'.ust = bank.ust + x
    PROVE  UstBooks' /\ UstFlow
<1>1. ClaimsGood(depositors) /\ ClaimsGood(depositors')
  BY ClaimsAreGood
<1> DEFINE r == state.total_reserve
           bs == state.prize_buckets
           b == BucketsTotal(bs)
           c == ClaimsTotal(depositors)
           o == OwedTotal(lotteries, prizes)
           m == bank.ust
           b1 == BucketsTotal(Distribute(bs, x, d))
<1>2. r \in Nat /\ b \in Nat /\ c \in Nat /\ o \in Nat /\ m \in Nat /\ bs \in [Buckets -> Nat]
  BY <1>1, UstTyped
<1>3. r + b + c + o <= m
  BY DEF UstBooks
<1>4. ClaimsTotal(depositors') = c
  OBVIOUS
<1> HIDE DEF bs
<1>5. Distribute(bs, x, d) \in [Buckets -> Nat] /\ b1 <= b + x
  BY <1>2, DistributeTotal
<1>6. b1 \in Nat
  BY <1>5, BucketsTyped
<1>7. BucketsTotal(state'.prize_buckets) = b1
  BY DEF bs
<1> HIDE DEF r, b, c, o, m, b1
<1>8. r + b1 + c + o <= m + x /\ r + b1 + c + o + m <= r + b + c + o + (m + x)
  BY <1>2, <1>3, <1>5, <1>6
<1>9. /\ state'.total_reserve + BucketsTotal(state'.prize_buckets) + ClaimsTotal(depositors')
           + OwedTotal(lotteries', prizes') <= bank'.ust
      /\ UstFlow
  BY <1>4, <1>7, <1>8 DEF r, b, bs, c, o, m, UstFlow
<1>10. /\ BucketsTotal(config'.prize_distribution) = One
       /\ \A u \in Users : IsFiniteSet(depositors'[u].unbonding_info)
  BY DEF UstBooks
<1> QED
  BY <1>9, <1>10 DEF UstBooks

LEMMA SponsorAwardUst ==
    ASSUME IInv, IInv', UstBooks, NEW u, NEW amount, NEW d \in [Buckets -> Nat],
           SponsorAward(u, amount, d)
    PROVE  UstBooks' /\ UstFlow
<1>1. TypeOK /\ TypeOK' /\ MoneyTyped /\ state \in State /\ bank \in [ust : Nat, aust : Nat]
  BY FieldTypes DEF IInv, TypeOK
<1>2. /\ UNCHANGED <<config, lotteries, prizes, depositors>>
      /\ amount \in 1..purse
      /\ ValidDistribution(d)
      /\ bank' = [bank EXCEPT !.ust = @ + amount]
  BY Zenon DEF SponsorAward
<1> DEFINE new == Distribute(state.prize_buckets, amount, d)
<1>3. \E a : state' = [state EXCEPT !.sponsor_reward_emission_index = a, !.prize_buckets = new]
  BY Zenon DEF SponsorAward
<1> HIDE DEF new
<1>4. state'.total_reserve = state.total_reserve /\ state'.prize_buckets = new
  BY <1>1, <1>3, Zenon DEF State
<1>5. bank'.ust = bank.ust + amount
  BY <1>1, <1>2, Zenon
<1>6. amount \in Nat /\ BucketsTotal(d) = One
  BY <1>1, <1>2, ValidIsOne DEF MoneyTyped
<1>7. \A i \in Draws : DrawCounted(lotteries'[i], prizes'[i])
  BY <1>2 DEF UstBooks
<1>8. OwedTotal(lotteries', prizes') = OwedTotal(lotteries, prizes)
  BY <1>2
<1> QED
  BY <1>1, <1>2, <1>4, <1>5, <1>6, <1>7, <1>8, BucketsFilled DEF new

\* A withdrawal: paid at once, less the fee for the reserve, or claimed later.
LEMMA WithdrawUst ==
    ASSUME IInv, IInv', UstBooks, NEW u \in Users, NEW amount \in Nat \cup {None},
           NEW instant \in BOOLEAN, execute_withdraw(u, amount, instant)
    PROVE  UstBooks' /\ UstFlow
<1> DEFINE shares   == WithdrawnShares(u, amount)
           aust     == WithdrawnAust(shares)
           drained  == DrainedTickets(u, shares, aust)
           returned == AnchorReturns(aust)
           payment  == WithdrawalPayment(returned, instant)
           fee      == WithdrawalFee(returned, instant)
           claim    == WithdrawalClaim(u, returned, instant)
           info     == depositors[u].unbonding_info
<1>1. /\ TypeOK /\ TypeOK' /\ MoneyTyped /\ ScheduleTyped /\ ConfigTyped
      /\ state \in State /\ bank \in [ust : Nat, aust : Nat]
      /\ FractionsValid /\ PoolNonDegenerate
  BY FieldTypes DEF IInv, TypeOK
<1>2. /\ UNCHANGED <<config, lotteries, prizes>>
      /\ pool.total_user_shares # 0
      /\ shares <= pool.total_user_shares
      /\ instant \/ FreeSlots(u) # {}
  BY Zenon DEF execute_withdraw
<1>3. depositors' = [depositors EXCEPT
                       ![u].tickets = SubSeq(@, Len(drained) + 1, Len(@)),
                       ![u].shares = @ - shares,
                       ![u].unbonding_info = @ \cup claim]
  BY Zenon DEF execute_withdraw
<1>4. \E a, b : state' = [state EXCEPT !.operator_reward_emission_index = a,
                                       !.total_tickets = b,
                                       !.total_reserve = @ + fee]
  BY Zenon DEF execute_withdraw
<1>5. \E a : bank' = [bank EXCEPT !.ust = @ + returned - payment, !.aust = a]
  BY Zenon DEF execute_withdraw
<1>6. shares \in Nat
  BY <1>1, <1>2, WithdrawnSharesType
<1>7. aust \in Nat
  <2>1. pool.total_user_shares \in Nat \ {0} /\ pool.total_user_aust \in Nat
    BY <1>1, <1>2 DEF MoneyTyped
  <2> QED
    BY <1>2, <1>6, <2>1, BurnBounds DEF WithdrawnAust
<1> HIDE DEF shares, aust
<1>8. returned \in Nat
  BY <1>1, <1>7, AnchorReturnsType
<1> HIDE DEF drained, returned
<1>9. ClaimsGood(depositors)
  BY <1>1, ClaimsAreGood
<1>10. IsFiniteSet(info) /\ \A c \in info : c.amount \in Nat
  BY <1>9 DEF ClaimsGood
<1>11. /\ IsFiniteSet(info \cup claim) /\ \A c \in info \cup claim : c.amount \in Nat
       /\ fee \in Nat /\ payment \in Nat
       /\ fee + ClaimsOf(info \cup claim) + payment <= ClaimsOf(info) + returned
  <2>0. ClaimsOf(info) \in Nat
    BY <1>10, ClaimsTyped
  <2>1. CASE instant
    <3>1. claim = {} /\ info \cup claim = info
      BY <2>1 DEF WithdrawalClaim
    <3>2. fee = DecMul(returned, config.instant_withdrawal_fee)
      BY <2>1 DEF WithdrawalFee
    <3>3. fee \in Nat /\ fee <= returned
      <4>1. config.instant_withdrawal_fee \in Nat /\ config.instant_withdrawal_fee <= One
        BY <1>1 DEF ConfigTyped, FractionsValid
      <4> QED
        BY <1>8, <3>2, <4>1, DecMulBounds, FractionBound
    <3>4. payment = Charge(deduct_tax(returned - fee))
      BY <2>1 DEF WithdrawalPayment
    <3> HIDE DEF fee, payment, claim, info
    <3>5. returned - fee \in Nat
      BY <1>8, <3>3
    <3>6. payment \in Nat /\ payment <= returned - fee
      BY <3>4, <3>5, TaxDeductionCoversTransfer
    <3>7. fee + ClaimsOf(info) + payment <= ClaimsOf(info) + returned
      BY <1>8, <2>0, <3>3, <3>6
    <3> QED
      BY <1>10, <3>1, <3>3, <3>6, <3>7
  <2>2. CASE ~instant
    <3> DEFINE n == CHOOSE k \in FreeSlots(u) : TRUE
               new == [slot |-> n, amount |-> returned,
                       release_at |-> block.time + config.unbonding_period]
    <3>1. claim = {new}
      BY <2>2 DEF WithdrawalClaim
    <3>2. n \in FreeSlots(u)
      BY <1>2, <2>2
    <3>3. \A c \in info : c.slot # n
      BY <3>2 DEF FreeSlots
    <3>4. new.slot = n /\ new.amount = returned
      OBVIOUS
    <3> HIDE DEF n, new
    <3>5. new \notin info
      BY <3>3, <3>4
    <3>6. fee = 0 /\ payment = 0
      BY <2>2 DEF WithdrawalFee, WithdrawalPayment
    <3> HIDE DEF claim, fee, payment, info
    <3>7. /\ IsFiniteSet(info \cup {new})
          /\ ClaimsOf(info \cup {new}) = ClaimsOf(info) + returned
      BY <1>8, <1>10, <3>4, <3>5, ClaimAdded
    <3>8. \A c \in info \cup {new} : c.amount \in Nat
      BY <1>8, <1>10, <3>4
    <3> QED
      BY <1>8, <2>0, <3>1, <3>6, <3>7, <3>8
  <2> QED
    BY <2>1, <2>2
<1>12. /\ \A v \in Users \ {u} : depositors'[v].unbonding_info = depositors[v].unbonding_info
       /\ depositors'[u].unbonding_info = info \cup claim
  <2>1. depositors \in [Users -> DepositorInfo] /\ depositors[u] \in DepositorInfo
    BY <1>1 DEF TypeOK
  <2> DEFINE rest == SubSeq(depositors[u].tickets, Len(drained) + 1, Len(depositors[u].tickets))
             left == depositors[u].shares - shares
             claims == depositors[u].unbonding_info \cup claim
  <2>2. depositors' = [depositors EXCEPT ![u] =
                         [@ EXCEPT !.tickets = rest, !.shares = left, !.unbonding_info = claims]]
    BY <1>3, <2>1, Zenon
  <2> HIDE DEF rest, left, claims
  <2>3. /\ \A v \in Users \ {u} : depositors'[v] = depositors[v]
        /\ depositors'[u].unbonding_info = claims
    BY <2>1, <2>2 DEF DepositorInfo
  <2> QED
    BY <2>3 DEF claims
<1>13. state'.total_reserve = state.total_reserve + fee
  <2> HIDE DEF fee
  <2> QED
    BY <1>1, <1>4, Zenon DEF State
<1>14. state'.prize_buckets = state.prize_buckets
  BY <1>1, <1>4, Zenon DEF State
<1>15. bank'.ust = bank.ust + returned - payment
  <2> HIDE DEF payment
  <2> QED
    BY <1>1, <1>5, Zenon
<1> HIDE DEF fee, payment, claim
<1>16. ClaimsGood(depositors')
  BY <1>9, <1>11, <1>12 DEF ClaimsGood
<1>17. ClaimsTotal(depositors') = ClaimsTotal(depositors) - ClaimsOf(info)
                                    + ClaimsOf(info \cup claim)
  <2>1. \A ds, es : ClaimsGood(ds) /\ ClaimsGood(es)
           /\ (\A v \in Users \ {u} : es[v].unbonding_info = ds[v].unbonding_info)
           => ClaimsTotal(es) = ClaimsTotal(ds) - ClaimsOf(ds[u].unbonding_info)
                                  + ClaimsOf(es[u].unbonding_info)
    BY OneDepositorsClaims
  <2>2. ClaimsTotal(depositors') = ClaimsTotal(depositors)
           - ClaimsOf(depositors[u].unbonding_info) + ClaimsOf(depositors'[u].unbonding_info)
    BY <1>9, <1>12, <1>16, <2>1
  <2> QED
    BY <1>12, <2>2
<1>18. /\ state.total_reserve \in Nat /\ BucketsTotal(state.prize_buckets) \in Nat
       /\ ClaimsTotal(depositors) \in Nat /\ bank.ust \in Nat
       /\ ClaimsOf(info) \in Nat /\ ClaimsOf(info \cup claim) \in Nat
  BY <1>1, <1>9, <1>10, <1>11, UstTyped, ClaimsTyped
<1> DEFINE before == ClaimsOf(info)
           after == ClaimsOf(info \cup claim)
<1>19. fee + after + payment <= before + returned /\ before \in Nat /\ after \in Nat
  BY <1>11, <1>18
<1>20. ClaimsTotal(depositors') = ClaimsTotal(depositors) - before + after
  BY <1>17
<1> HIDE DEF before, after, info
<1>21. state'.total_reserve + BucketsTotal(state'.prize_buckets) + ClaimsTotal(depositors')
            + bank.ust
          <= state.total_reserve + BucketsTotal(state.prize_buckets)
               + ClaimsTotal(depositors) + bank'.ust
  BY <1>8, <1>11, <1>13, <1>14, <1>15, <1>18, <1>19, <1>20
<1>22. BucketsTotal(config'.prize_distribution) = One
  BY <1>2 DEF UstBooks
<1> QED
  BY <1>1, <1>2, <1>16, <1>21, <1>22, UstFrame

\* Paying the claims that are mature.
LEMMA ClaimUnbondedUst ==
    ASSUME IInv, IInv', UstBooks, NEW u \in Users, execute_claim_unbonded(u)
    PROVE  UstBooks' /\ UstFlow
<1> DEFINE info  == depositors[u].unbonding_info
           taken == MatureClaims(u)
           due   == ClaimsOf(taken)
           paid  == Charge(deduct_tax(due))
<1>1. TypeOK /\ TypeOK' /\ MoneyTyped /\ bank \in [ust : Nat, aust : Nat]
  BY FieldTypes DEF IInv, TypeOK
<1>2. UNCHANGED <<config, state, lotteries, prizes>>
  BY Zenon DEF execute_claim_unbonded
<1>3. depositors' = [depositors EXCEPT ![u].unbonding_info = @ \ taken]
  BY Zenon DEF execute_claim_unbonded
<1>4. MatureAmount(u) = due
  <2> DEFINE f == [c \in taken |-> c.amount]
  <2>1. MatureAmount(u) = SumFunction(f) /\ DOMAIN f = taken
    BY DEF MatureAmount, SumOver
  <2>2. due = SumFunctionOnSet(f, taken)
    BY DEF ClaimsOf, ClaimAmounts
  <2> HIDE DEF f, due, taken
  <2> QED
    BY <2>1, <2>2, SumOnDomain
<1>5. bank' = [bank EXCEPT !.ust = @ - paid]
  <2>1. bank' = [bank EXCEPT !.ust = @ - Charge(deduct_tax(MatureAmount(u)))]
    BY Zenon DEF execute_claim_unbonded
  <2> QED
    BY <1>4, <2>1
<1>6. ClaimsGood(depositors)
  BY <1>1, ClaimsAreGood
<1>7. IsFiniteSet(info) /\ \A c \in info : c.amount \in Nat
  BY <1>6 DEF ClaimsGood
<1>8. taken \in SUBSET info
  BY DEF MatureClaims
<1> HIDE DEF info, taken
<1>9. /\ IsFiniteSet(info \ taken)
      /\ ClaimsOf(info) = due + ClaimsOf(info \ taken)
      /\ due \in Nat /\ ClaimsOf(info \ taken) \in Nat
  BY <1>7, <1>8, ClaimsTaken
<1>10. /\ \A v \in Users \ {u} : depositors'[v].unbonding_info = depositors[v].unbonding_info
       /\ depositors'[u].unbonding_info = info \ taken
  <2>1. depositors \in [Users -> DepositorInfo] /\ depositors[u] \in DepositorInfo
    BY <1>1 DEF TypeOK
  <2> DEFINE rest == depositors[u].unbonding_info \ taken
  <2>2. depositors' = [depositors EXCEPT ![u] = [@ EXCEPT !.unbonding_info = rest]]
    BY <1>3, <2>1, Zenon
  <2> HIDE DEF rest
  <2>3. /\ \A v \in Users \ {u} : depositors'[v] = depositors[v]
        /\ depositors'[u].unbonding_info = rest
    BY <2>1, <2>2 DEF DepositorInfo
  <2> QED
    BY <2>3 DEF rest, info
<1>11. ClaimsGood(depositors')
  BY <1>6, <1>7, <1>9, <1>10 DEF ClaimsGood
<1> HIDE DEF due
<1>12. paid \in Nat /\ paid <= due
  BY <1>9, TaxDeductionCoversTransfer
<1> HIDE DEF paid
<1>13. bank'.ust = bank.ust - paid
  BY <1>1, <1>5, Zenon
<1>14. ClaimsTotal(depositors') = ClaimsTotal(depositors) - ClaimsOf(info)
                                    + ClaimsOf(info \ taken)
  <2>1. \A ds, es : ClaimsGood(ds) /\ ClaimsGood(es)
           /\ (\A v \in Users \ {u} : es[v].unbonding_info = ds[v].unbonding_info)
           => ClaimsTotal(es) = ClaimsTotal(ds) - ClaimsOf(ds[u].unbonding_info)
                                  + ClaimsOf(es[u].unbonding_info)
    BY OneDepositorsClaims
  <2>2. ClaimsTotal(depositors') = ClaimsTotal(depositors)
           - ClaimsOf(depositors[u].unbonding_info) + ClaimsOf(depositors'[u].unbonding_info)
    BY <1>6, <1>10, <1>11, <2>1
  <2> QED
    BY <1>10, <2>2 DEF info
<1>15. /\ state.total_reserve \in Nat /\ BucketsTotal(state.prize_buckets) \in Nat
       /\ ClaimsTotal(depositors) \in Nat /\ bank.ust \in Nat
  BY <1>1, <1>6, UstTyped
<1>16. ClaimsTotal(depositors') = ClaimsTotal(depositors) - due
  BY <1>9, <1>14, <1>15
<1>17. state'.total_reserve + BucketsTotal(state'.prize_buckets) + ClaimsTotal(depositors')
            + bank.ust
          <= state.total_reserve + BucketsTotal(state.prize_buckets)
               + ClaimsTotal(depositors) + bank'.ust
  BY <1>2, <1>9, <1>12, <1>13, <1>15, <1>16
<1>18. BucketsTotal(config'.prize_distribution) = One
  BY <1>2 DEF UstBooks
<1> QED
  BY <1>1, <1>2, <1>11, <1>17, <1>18, UstFrame

\* Messages that move no UST, and the payment of the reserve.
LEMMA OtherUst ==
    ASSUME IInv, IInv', UstBooks, [Next]_vars,
           RewardClaims \/ Configurations \/ Clock \/ UNCHANGED vars
    PROVE  UstBooks' /\ UstFlow
<1>1. TypeOK /\ TypeOK' /\ MoneyTyped /\ state \in State /\ config \in Config
  BY FieldTypes DEF IInv, TypeOK
<1>2. UNCHANGED <<lotteries, prizes, depositors, bank>>
  BY Zenon DEF RewardClaims, execute_claim_rewards, Configurations, execute_update_config,
     execute_update_lottery_config, execute_register_contracts, Clock, NextBlock, vars,
     storage, chain
<1>3. state'.total_reserve = state.total_reserve /\ state'.prize_buckets = state.prize_buckets
  <2>1. \/ state' = state
        \/ state' = UpdatedIndexes
        \/ \E msg : state' = [state EXCEPT
            !.operator_reward_emission_index.glow_emission_rate =
                Given(msg.operator_glow_emission_rate, @),
            !.sponsor_reward_emission_index.glow_emission_rate =
                Given(msg.sponsor_glow_emission_rate, @)]
    BY Zenon DEF RewardClaims, execute_claim_rewards, Configurations, execute_update_config,
       execute_update_lottery_config, execute_register_contracts, Clock, NextBlock, vars, storage
  <2>2. CASE state' = UpdatedIndexes
    BY <1>1, <2>2, Zenon DEF UpdatedIndexes, State
  <2>3. ASSUME NEW msg, state' = [state EXCEPT
            !.operator_reward_emission_index.glow_emission_rate =
                Given(msg.operator_glow_emission_rate, @),
            !.sponsor_reward_emission_index.glow_emission_rate =
                Given(msg.sponsor_glow_emission_rate, @)]
        PROVE  state'.total_reserve = state.total_reserve
                 /\ state'.prize_buckets = state.prize_buckets
    BY <1>1, <2>3, Zenon DEF State
  <2> QED
    BY <2>1, <2>2, <2>3
<1>4. BucketsTotal(config'.prize_distribution) = One
  <2>1. CASE config'.prize_distribution = config.prize_distribution
    BY <2>1 DEF UstBooks
  <2>2. ASSUME NEW d, d = config'.prize_distribution, ValidDistribution(d)
        PROVE  BucketsTotal(config'.prize_distribution) = One
    <3>1. d \in [Buckets -> Nat]
      BY <1>1, <2>2 DEF TypeOK, Config
    <3> QED
      BY <2>2, <3>1, ValidIsOne
  <2> QED
    BY <1>1, <2>1, <2>2, LotterySettings, Zenon DEF Given
<1>5. bank.ust <= bank'.ust
  BY <1>1, <1>2 DEF MoneyTyped
<1> QED
  BY <1>1, <1>2, <1>3, <1>4, <1>5, UstGrows

LEMMA EpochOpsUst ==
    ASSUME IInv, IInv', UstBooks, execute_epoch_ops
    PROVE  UstBooks' /\ UstFlow
<1> DEFINE payment == IF state.total_reserve = 0 THEN 0
                      ELSE Charge(deduct_tax(state.total_reserve))
<1>1. /\ TypeOK /\ TypeOK' /\ MoneyTyped /\ ScheduleTyped
      /\ state \in State /\ bank \in [ust : Nat, aust : Nat]
  BY FieldTypes DEF IInv, TypeOK
<1>2. /\ UNCHANGED <<config, lotteries, prizes, depositors>>
      /\ \E a : state' = [UpdatedIndexes EXCEPT !.next_epoch = a, !.total_reserve = 0]
      /\ bank' = [bank EXCEPT !.ust = @ - payment]
  BY Zenon DEF execute_epoch_ops
<1>3. payment \in Nat /\ payment <= state.total_reserve
  BY <1>1, TaxDeductionCoversTransfer DEF ScheduleTyped
<1> HIDE DEF payment
<1>4. state'.total_reserve = 0 /\ state'.prize_buckets = state.prize_buckets
  BY <1>1, <1>2, Zenon DEF State, UpdatedIndexes
<1>5. bank'.ust = bank.ust - payment
  BY <1>1, <1>2, Zenon
<1>6. ClaimsGood(depositors) /\ ClaimsGood(depositors')
  BY <1>1, <1>2, ClaimsAreGood
<1>7. /\ state.total_reserve \in Nat /\ BucketsTotal(state.prize_buckets) \in Nat
      /\ ClaimsTotal(depositors) \in Nat /\ bank.ust \in Nat
  BY <1>1, <1>6, UstTyped
<1>8. state'.total_reserve + BucketsTotal(state'.prize_buckets) + ClaimsTotal(depositors')
            + bank.ust
          <= state.total_reserve + BucketsTotal(state.prize_buckets)
               + ClaimsTotal(depositors) + bank'.ust
  BY <1>2, <1>3, <1>4, <1>5, <1>7
<1>9. BucketsTotal(config'.prize_distribution) = One
  BY <1>2 DEF UstBooks
<1> QED
  BY <1>1, <1>2, <1>6, <1>8, <1>9, UstFrame

LEMMA DrawUpdated ==
    ASSUME NEW f, NEW g, NEW i \in Draws,
           \A j \in Draws : f[j] \in Int,
           \A j \in Draws : g[j] \in Int,
           \A j \in Draws \ {i} : g[j] = f[j],
           f[i] = 0
    PROVE  SumFunctionOnSet(g, Draws) = SumFunctionOnSet(f, Draws) + g[i]
<1>1. IsFiniteSet(Draws)
  BY FiniteSets
<1>2. SumFunctionOnSet(g, Draws) = SumFunctionOnSet(f, Draws) - f[i] + g[i]
  BY <1>1, SumUpdate
<1>3. SumFunctionOnSet(f, Draws) \in Int
  BY <1>1, SumInt
<1> QED
  BY <1>2, <1>3

\* A change of one draw that is not awarded before it changes what is owed by
\* what that draw then owes.
DrawsTyped(ls, ps) ==
    ls \in [Draws -> LotteryInfo] /\ ps \in [Draws -> [Users -> PrizeInfo]]

OneDrawChanges(ls, ps, ms, qs, i) ==
    ~ls[i].awarded /\ \A j \in Draws \ {i} : ms[j] = ls[j] /\ qs[j] = ps[j]

LEMMA OneDrawOwed ==
    ASSUME NEW ls, NEW ps, NEW ms, NEW qs, NEW i \in Draws,
           DrawsTyped(ls, ps), DrawsTyped(ms, qs), OneDrawChanges(ls, ps, ms, qs, i)
    PROVE  /\ OwedTotal(ms, qs) = OwedTotal(ls, ps) + OwedOf(ms[i], qs[i])
           /\ OwedTotal(ls, ps) \in Nat
<1> DEFINE f == OwedBy(ls, ps)
           g == OwedBy(ms, qs)
           row == OwedIn(ls[i], ps[i])
<1>1. \A u \in Users : row[u] = 0
  BY DEF OwedIn, OneDrawChanges
<1>2. f[i] = SumFunctionOnSet(row, Users)
  BY DEF OwedBy, OwedOf
<1>3. /\ \A j \in Draws : f[j] \in Int
      /\ \A j \in Draws : g[j] \in Int
  <2>1. \A j \in Draws : f[j] \in Nat
    BY OwedTotalTyped, Zenon DEF DrawsTyped
  <2>2. \A j \in Draws : g[j] \in Nat
    BY OwedTotalTyped, Zenon DEF DrawsTyped
  <2> HIDE DEF f, g
  <2> QED
    BY <2>1, <2>2
<1>4. /\ \A j \in Draws \ {i} : g[j] = f[j]
      /\ g[i] = OwedOf(ms[i], qs[i])
  BY DEF OwedBy, OneDrawChanges
<1> HIDE DEF f, g, row
<1>5. f[i] = 0
  BY <1>1, <1>2, FiniteSets, SumZero
<1>6. SumFunctionOnSet(g, Draws) = SumFunctionOnSet(f, Draws) + g[i]
  BY <1>3, <1>4, <1>5, DrawUpdated, Zenon
<1>7. OwedTotal(ls, ps) \in Nat
  BY OwedTotalTyped, Zenon DEF DrawsTyped
<1> QED
  BY <1>4, <1>6, <1>7 DEF OwedTotal, f, g

\* A draw that is not awarded owes nothing.
LEMMA NothingOwed ==
    ASSUME NEW l, ~l.awarded, NEW ps
    PROVE  OwedOf(l, ps) = 0
<1> DEFINE row == OwedIn(l, ps)
<1>1. \A u \in Users : row[u] = 0
  BY DEF OwedIn
<1> HIDE DEF row
<1> QED
  BY <1>1, FiniteSets, SumZero DEF OwedOf, row

\* A draw with no winners, and no entries.
LEMMA NoMatches ==
    ASSUME NEW l, l.number_winners = ZeroBuckets, NEW ps, \A u \in Users : ps[u] = NoPrize
    PROVE  MatchesCounted(l, ps)
<1> SUFFICES ASSUME NEW m \in Buckets
             PROVE  l.number_winners[m] = SumFunctionOnSet(MatchesIn(ps, m), Users)
  BY DEF MatchesCounted
<1> DEFINE f == MatchesIn(ps, m)
<1>1. \A u \in Users : f[u] = 0
  BY DEF MatchesIn, NoPrize, ZeroBuckets
<1> HIDE DEF f
<1>2. SumFunctionOnSet(f, Users) = 0
  BY <1>1, FiniteSets, SumZero
<1> QED
  BY <1>2 DEF f, ZeroBuckets

\* The start of a draw fills the buckets with what Anchor returns.
LEMMA LotteryUst ==
    ASSUME IInv, IInv', UstBooks, execute_lottery
    PROVE  UstBooks' /\ UstFlow
<1> DEFINE cur == state.current_lottery
           redeemed == RedeemedAust.user_aust_to_redeem + RedeemedAust.sponsor_aust_to_redeem
           net == AnchorReturns(redeemed)
           new == Distribute(state.prize_buckets, net, config.prize_distribution)
<1>1. /\ TypeOK /\ TypeOK' /\ MoneyTyped /\ ScheduleTyped /\ LotteryLifecycle
      /\ state \in State /\ bank \in [ust : Nat, aust : Nat]
  BY FieldTypes DEF IInv, TypeOK
<1>2. /\ UNCHANGED <<config, prizes, depositors>>
      /\ ~LotteryStarted
      /\ rate >= state.last_lottery_execution_aust_exchange_rate
  BY Zenon DEF execute_lottery, LotteryNotStarted
<1>3. \E a, b, c, d : lotteries' = [lotteries EXCEPT ![cur] =
         [DefaultLottery EXCEPT !.rand_round = a, !.block_height = b, !.timestamp = c,
                                !.total_user_shares = d]]
  BY Zenon DEF execute_lottery
<1>4. \E a, b : state' = [state EXCEPT !.next_lottery_exec_time = a, !.prize_buckets = new,
                             !.last_lottery_execution_aust_exchange_rate = b]
  BY Zenon DEF execute_lottery
<1>5. \E a : bank' = [bank EXCEPT !.ust = @ + net, !.aust = a]
  BY Zenon DEF execute_lottery
<1>6. redeemed \in Nat
  <2>1. /\ RedeemedAust.user_aust_to_redeem \in Nat
        /\ RedeemedAust.sponsor_aust_to_redeem \in Nat
    BY RedeemedAustBounds DEF IInv
  <2> QED
    BY <2>1
<1> HIDE DEF redeemed
<1>7. net \in Nat
  BY <1>1, <1>6, AnchorReturnsType
<1> HIDE DEF net, new
<1>8. state'.total_reserve = state.total_reserve /\ state'.prize_buckets = new
  BY <1>1, <1>4, Zenon DEF State
<1>9. bank'.ust = bank.ust + net
  BY <1>1, <1>5, Zenon
<1>10. cur \in Draws /\ lotteries \in [Draws -> LotteryInfo]
  BY <1>1 DEF TypeOK, State, Draws
<1>11. /\ \A j \in Draws \ {cur} : lotteries'[j] = lotteries[j]
       /\ ~lotteries'[cur].awarded
       /\ lotteries'[cur].number_winners = ZeroBuckets
  BY <1>3, <1>10, Zenon DEF DefaultLottery
<1>12. \A i \in Draws : DrawCounted(lotteries'[i], prizes'[i])
  <2>1. \A u \in Users : prizes[cur][u] = NoPrize
    BY <1>1, <1>2, <1>10 DEF LotteryLifecycle, Draws
  <2>2. MatchesCounted(lotteries'[cur], prizes[cur])
    BY <1>11, <2>1, NoMatches
  <2> QED
    BY <1>2, <1>11, <2>2 DEF UstBooks, DrawCounted
<1>13. OwedTotal(lotteries', prizes') = OwedTotal(lotteries, prizes)
  <2>1. DrawsTyped(lotteries, prizes) /\ DrawsTyped(lotteries', prizes')
    BY <1>1 DEF TypeOK, DrawsTyped, Draws
  <2>2. OneDrawChanges(lotteries, prizes, lotteries', prizes', cur)
    <3>1. ~lotteries[cur].awarded
      BY <1>1, <1>10 DEF LotteryLifecycle, Draws
    <3> QED
      BY <1>2, <1>11, <3>1 DEF OneDrawChanges
  <2>3. OwedOf(lotteries'[cur], prizes'[cur]) = 0
    BY <1>11, NothingOwed
  <2>4. /\ OwedTotal(lotteries', prizes')
             = OwedTotal(lotteries, prizes) + OwedOf(lotteries'[cur], prizes'[cur])
        /\ OwedTotal(lotteries, prizes) \in Nat
    BY <1>10, <2>1, <2>2, OneDrawOwed
  <2> QED
    BY <2>3, <2>4
<1>14. config.prize_distribution \in [Buckets -> Nat] /\ BucketsTotal(config.prize_distribution) = One
  BY <1>1 DEF TypeOK, Config, UstBooks
<1> QED
  BY <1>1, <1>2, <1>7, <1>8, <1>9, <1>12, <1>13, <1>14, BucketsFilled DEF new

\* What a call of execute_prize does to the draw it works on.
LEMMA PageEffect ==
    ASSUME TypeOK, UstBooks, LotteryStarted, NEW sequence, NEW limit, NEW new,
           new.number_winners = WinnersAfter(current_lottery,
                                  Page(KeysToVisit(sequence), limit), sequence)
    PROVE  MatchesCounted(new, PrizesAfter(prizes[state.current_lottery],
                                 Page(KeysToVisit(sequence), limit), sequence))
<1> DEFINE cur == state.current_lottery
           page == Page(KeysToVisit(sequence), limit)
           l == current_lottery
           ps == prizes[cur]
<1>1. cur \in Draws /\ l \in LotteryInfo /\ ps \in [Users -> PrizeInfo]
  BY DEF TypeOK, State, Draws, current_lottery
<1>2. page \in SUBSET (DOMAIN tickets)
  BY DEF Page, KeysToVisit, WinningKeys
<1>3. MatchesCounted(l, ps)
  BY <1>1 DEF UstBooks, DrawCounted, LotteryStarted, current_lottery
<1> HIDE DEF cur, page, l, ps
<1>4. \A m \in Buckets : WinnersAfter(l, page, sequence)[m]
             = SumFunctionOnSet(MatchesIn(PrizesAfter(ps, page, sequence), m), Users)
  BY <1>1, <1>2, <1>3, PageCounted
<1> QED
  BY <1>4 DEF MatchesCounted, cur, page, l, ps

LEMMA OthersCounted ==
    ASSUME UstBooks, NEW i \in Draws, MatchesCounted(lotteries'[i], prizes'[i]),
           OneDrawChanges(lotteries, prizes, lotteries', prizes', i)
    PROVE  \A j \in Draws : DrawCounted(lotteries'[j], prizes'[j])
BY DEF UstBooks, OneDrawChanges, DrawCounted

LEMMA PrizeUst ==
    ASSUME IInv, IInv', UstBooks, NEW limit, execute_prize(limit)
    PROVE  UstBooks' /\ UstFlow
<1> DEFINE cur == state.current_lottery
<1>1. TypeOK /\ TypeOK' /\ FractionsValid /\ LotteryLifecycle /\ state \in State
  BY DEF IInv, TypeOK
<1>2. UNCHANGED <<config, depositors, bank>>
  BY Zenon DEF execute_prize, chain
<1>3. PICK sequence \in SequencesToDraw :
         LET keys    == KeysToVisit(sequence)
             page    == Page(keys, limit)
             left    == KeysLeft(keys, page)
             winners == WinnersAfter(current_lottery, page, sequence)
             entries == PrizesAfter(prizes[cur], page, sequence)
             lottery == [current_lottery EXCEPT !.sequence = sequence,
                                                !.number_winners = winners]
         IN /\ prizes' = [prizes EXCEPT ![cur] = entries]
            /\ \/ /\ \E first : lotteries' = [lotteries EXCEPT ![cur] =
                                                [lottery EXCEPT !.page = first]]
                  /\ UNCHANGED state
               \/ /\ lotteries' = [lotteries EXCEPT ![cur] = AwardedLottery(lottery, winners)]
                  /\ state' = StateAfterAward(winners)
  BY Zenon DEF execute_prize
<1> DEFINE page    == Page(KeysToVisit(sequence), limit)
           winners == WinnersAfter(current_lottery, page, sequence)
           entries == PrizesAfter(prizes[cur], page, sequence)
           lottery == [current_lottery EXCEPT !.sequence = sequence,
                                              !.number_winners = winners]
<1>4. /\ prizes' = [prizes EXCEPT ![cur] = entries]
      /\ \/ /\ \E first : lotteries' = [lotteries EXCEPT ![cur] = [lottery EXCEPT !.page = first]]
            /\ UNCHANGED state
         \/ /\ lotteries' = [lotteries EXCEPT ![cur] = AwardedLottery(lottery, winners)]
            /\ state' = StateAfterAward(winners)
  BY <1>3, Zenon
<1>5. /\ cur \in Draws
      /\ lotteries \in [Draws -> LotteryInfo]
      /\ prizes \in [Draws -> [Users -> PrizeInfo]]
      /\ current_lottery \in LotteryInfo
      /\ ~current_lottery.awarded /\ ~lotteries[cur].awarded
  BY <1>1 DEF TypeOK, State, Draws, current_lottery, LotteryLifecycle
<1>6. DrawsTyped(lotteries, prizes) /\ DrawsTyped(lotteries', prizes')
  BY <1>1 DEF TypeOK, DrawsTyped, Draws
<1>7. \A new : new.number_winners = winners => MatchesCounted(new, entries)
  <2>1. LotteryStarted
    BY Zenon DEF execute_prize
  <2> QED
    BY <1>1, <2>1, PageEffect
<1> HIDE DEF winners, entries
<1>8. /\ lottery.number_winners = winners
      /\ lottery.awarded = current_lottery.awarded
  BY <1>5, Zenon DEF LotteryInfo
<1> HIDE DEF lottery
<1>10. /\ prizes'[cur] = entries
       /\ \A j \in Draws \ {cur} : prizes'[j] = prizes[j]
  BY <1>4, <1>5, Zenon
<1>11. ClaimsGood(depositors) /\ ClaimsGood(depositors')
  BY <1>1, <1>2, ClaimsAreGood
<1> DEFINE r == state.total_reserve
           b == BucketsTotal(state.prize_buckets)
           c == ClaimsTotal(depositors)
           o == OwedTotal(lotteries, prizes)
           m == bank.ust
<1>12. r \in Nat /\ b \in Nat /\ c \in Nat /\ o \in Nat /\ m \in Nat
  BY <1>1, <1>11, UstTyped
<1>13. r + b + c + o <= m
  BY DEF UstBooks
<1>14. ASSUME NEW new, lotteries' = [lotteries EXCEPT ![cur] = new],
              new.number_winners = winners,
              state'.total_reserve + BucketsTotal(state'.prize_buckets) + OwedOf(new, entries)
                <= r + b,
              state'.total_reserve \in Nat, BucketsTotal(state'.prize_buckets) \in Nat,
              OwedOf(new, entries) \in Nat
       PROVE  UstBooks' /\ UstFlow
  <2>1. lotteries'[cur] = new /\ \A j \in Draws \ {cur} : lotteries'[j] = lotteries[j]
    BY <1>5, <1>14, Zenon
  <2>2. OneDrawChanges(lotteries, prizes, lotteries', prizes', cur)
    BY <1>5, <1>10, <2>1 DEF OneDrawChanges
  <2>3. MatchesCounted(lotteries'[cur], prizes'[cur])
    BY <1>7, <1>10, <1>14, <2>1
  <2>4. \A j \in Draws : DrawCounted(lotteries'[j], prizes'[j])
    BY <1>5, <2>2, <2>3, OthersCounted
  <2>5. OwedTotal(lotteries', prizes') = o + OwedOf(lotteries'[cur], prizes'[cur])
    BY <1>5, <1>6, <2>2, OneDrawOwed
  <2>6. OwedTotal(lotteries', prizes') = o + OwedOf(new, entries)
    BY <1>10, <2>1, <2>5
  <2>7. ClaimsTotal(depositors') = c /\ bank'.ust = m
    BY <1>2
  <2> DEFINE r1 == state'.total_reserve
             b1 == BucketsTotal(state'.prize_buckets)
             w == OwedOf(new, entries)
  <2>8. r1 \in Nat /\ b1 \in Nat /\ w \in Nat /\ r1 + b1 + w <= r + b
    BY <1>14
  <2>9. OwedTotal(lotteries', prizes') = o + w
    BY <2>6
  <2> HIDE DEF r, b, c, o, m, r1, b1, w
  <2>10. r1 + b1 + c + (o + w) <= m /\ r1 + b1 + c + (o + w) + m <= r + b + c + o + m
    BY <1>12, <1>13, <2>8
  <2>11. /\ r1 + b1 + ClaimsTotal(depositors') + OwedTotal(lotteries', prizes') <= bank'.ust
         /\ r1 + b1 + ClaimsTotal(depositors') + OwedTotal(lotteries', prizes') + m
              <= r + b + c + o + bank'.ust
    BY <2>7, <2>9, <2>10
  <2>12. /\ BucketsTotal(config'.prize_distribution) = One
         /\ \A u \in Users : IsFiniteSet(depositors'[u].unbonding_info)
    BY <1>2 DEF UstBooks
  <2> QED
    BY <2>4, <2>11, <2>12 DEF UstBooks, UstFlow, r, b, c, o, m, r1, b1
<1>15. ASSUME NEW first, UNCHANGED state,
              lotteries' = [lotteries EXCEPT ![cur] = [lottery EXCEPT !.page = first]]
       PROVE  UstBooks' /\ UstFlow
  <2> DEFINE new == [lottery EXCEPT !.page = first]
  <2>2. new.number_winners = winners /\ ~new.awarded
    <3>1. new.number_winners = lottery.number_winners /\ new.awarded = lottery.awarded
      BY <1>5, Zenon DEF lottery, LotteryInfo
    <3> QED
      BY <1>5, <1>8, <3>1
  <2>3. lotteries' = [lotteries EXCEPT ![cur] = new]
    BY <1>15
  <2> HIDE DEF new
  <2>4. OwedOf(new, entries) = 0
    BY <2>2, NothingOwed
  <2>5. state'.total_reserve = r /\ BucketsTotal(state'.prize_buckets) = b
    BY <1>15
  <2> HIDE DEF r, b
  <2>6. /\ state'.total_reserve + BucketsTotal(state'.prize_buckets) + OwedOf(new, entries)
             <= r + b
        /\ state'.total_reserve \in Nat /\ BucketsTotal(state'.prize_buckets) \in Nat
        /\ OwedOf(new, entries) \in Nat
    BY <1>12, <2>4, <2>5
  <2> QED
    BY <1>14, <2>2, <2>3, <2>6
<1>16. ASSUME lotteries' = [lotteries EXCEPT ![cur] = AwardedLottery(lottery, winners)],
              state' = StateAfterAward(winners)
       PROVE  UstBooks' /\ UstFlow
  <2> DEFINE new == AwardedLottery(lottery, winners)
             won == WonBuckets(new)
  <2>1. lotteries' = [lotteries EXCEPT ![cur] = new]
    BY <1>16
  <2>2. /\ new.number_winners = winners
        /\ \A i \in Buckets : winners[i] # 0 =>
              new.prize_buckets[i] = state.prize_buckets[i] - ReserveFee(i)
    <3> DEFINE ust  == [i \in Buckets |-> IF winners[i] # 0
                          THEN state.prize_buckets[i] - ReserveFee(i)
                          ELSE lottery.prize_buckets[i]]
    <3>1. \E glow : new = [lottery EXCEPT !.awarded = TRUE, !.prize_buckets = ust,
                                          !.glow_prize_buckets = glow]
      BY Zenon DEF AwardedLottery
    <3>2. \A i \in Buckets : winners[i] # 0 => ust[i] = state.prize_buckets[i] - ReserveFee(i)
      OBVIOUS
    <3> HIDE DEF ust, new
    <3>3. new.number_winners = winners /\ new.prize_buckets = ust
      BY <1>5, <1>8, <3>1, Zenon DEF lottery, LotteryInfo
    <3> QED
      BY <3>2, <3>3
  <2>3. \A i \in Buckets : won[i] = IF winners[i] # 0
                                    THEN state.prize_buckets[i] - ReserveFee(i) ELSE 0
    BY <2>2 DEF WonBuckets
  <2> HIDE DEF new
  <2>4. new \in LotteryInfo /\ entries \in [Users -> PrizeInfo]
    <3>1. lotteries'[cur] = new /\ prizes'[cur] = entries
      BY <1>5, <1>10, <2>1, Zenon
    <3> QED
      BY <1>5, <1>6, <3>1 DEF DrawsTyped
  <2>5. OwedOf(new, entries) \in Nat /\ OwedOf(new, entries) <= SumFunctionOnSet(won, Buckets)
    BY <1>7, <2>2, <2>4, OwedTyped, PrizesOfDraw
  <2> HIDE DEF won
  <2>6. /\ KeptIn(winners) \in [Buckets -> Nat]
        /\ SumFunctionOnSet(won, Buckets) \in Nat
        /\ b = BucketsTotal(KeptIn(winners)) + SumFunctionOnSet(won, Buckets)
                 + ReserveFees(winners)
    BY <1>1, <2>3, AwardTotals
  <2>7. ReserveFees(winners) \in Nat
    BY <1>1, FeesAre
  <2>8. state'.total_reserve = r + ReserveFees(winners) /\ state'.prize_buckets = KeptIn(winners)
    <3> DEFINE total == state.total_reserve + ReserveFees(winners)
               kept == KeptIn(winners)
    <3>1. \E x, y, z : state' = [state EXCEPT !.total_reserve = total, !.prize_buckets = kept,
                 !.current_lottery = x, !.next_lottery_time = y, !.next_lottery_exec_time = z]
      BY <1>16, Zenon DEF StateAfterAward, KeptIn
    <3> HIDE DEF total, kept
    <3>2. state'.total_reserve = total /\ state'.prize_buckets = kept
      BY <1>1, <3>1, Zenon DEF State
    <3> QED
      BY <3>2 DEF total, kept
  <2>9. BucketsTotal(state'.prize_buckets) \in Nat
    BY <2>6, <2>8, BucketsTyped
  <2> DEFINE w == OwedOf(new, entries)
             k == BucketsTotal(state'.prize_buckets)
             paid == SumFunctionOnSet(won, Buckets)
             fees == ReserveFees(winners)
             r1 == state'.total_reserve
  <2>10. /\ w \in Nat /\ w <= paid /\ paid \in Nat /\ k \in Nat /\ fees \in Nat
         /\ b = k + paid + fees /\ r1 = r + fees
    BY <2>5, <2>6, <2>7, <2>8, <2>9
  <2> HIDE DEF w, k, paid, fees, r, b, r1
  <2>11. r1 + k + w <= r + b /\ r1 \in Nat
    BY <1>12, <2>10
  <2> QED
    BY <1>14, <2>1, <2>2, <2>10, <2>11 DEF w, k, r1
<1> QED
  BY <1>4, <1>15, <1>16, Zenon

\* A sum over the users of which one is changed.
LEMMA UserUpdated ==
    ASSUME NEW f, NEW g, NEW u \in Users,
           \A v \in Users : f[v] \in Int, \A v \in Users : g[v] \in Int,
           \A v \in Users \ {u} : g[v] = f[v]
    PROVE  SumFunctionOnSet(g, Users) = SumFunctionOnSet(f, Users) - f[u] + g[u]
BY FiniteSets, SumUpdate

\* A prize that is claimed is no longer owed.
LEMMA OnePrizeClaimed ==
    ASSUME NEW l \in LotteryInfo, NEW ps \in [Users -> PrizeInfo], NEW u \in Users,
           l.awarded, ~ps[u].claimed,
           NEW qs \in [Users -> PrizeInfo],
           \A v \in Users \ {u} : qs[v] = ps[v], qs[u].claimed
    PROVE  OwedOf(l, ps) = OwedOf(l, qs) + WinnerUst(l, ps[u].matches)
<1> DEFINE f == OwedIn(l, ps)
           g == OwedIn(l, qs)
<1>1. /\ \A v \in Users : f[v] \in Nat
      /\ \A v \in Users : g[v] \in Nat
  BY OwedTyped
<1>2. \A v \in Users \ {u} : g[v] = f[v]
  BY DEF OwedIn
<1>3. f[u] = WinnerUst(l, ps[u].matches) /\ g[u] = 0
  BY DEF OwedIn
<1> HIDE DEF f, g
<1>4. /\ \A v \in Users : f[v] \in Int
      /\ \A v \in Users : g[v] \in Int
  BY <1>1
<1>5. SumFunctionOnSet(g, Users) = SumFunctionOnSet(f, Users) - f[u] + g[u]
  BY <1>2, <1>4, UserUpdated, Zenon
<1>6. SumFunctionOnSet(f, Users) \in Nat
  BY <1>1, FiniteSets, SumNat
<1>7. f[u] \in Nat
  BY <1>1
<1>8. SumFunctionOnSet(f, Users) = SumFunctionOnSet(g, Users) + f[u]
  BY <1>3, <1>5, <1>6, <1>7
<1> QED
  BY <1>3, <1>8 DEF OwedOf, f, g

\* The claims of one winner, draw by draw.
WonIn(u, won) ==
    [i \in Draws |-> IF i \in won THEN WinnerUst(lotteries[i], prizes[i][u].matches) ELSE 0]

LEMMA WonTotal ==
    ASSUME TypeOK, NEW u \in Users, NEW won \in SUBSET Draws
    PROVE  /\ \A i \in Draws : WonIn(u, won)[i] \in Nat
           /\ UstWon(u, won) = SumFunctionOnSet(WonIn(u, won), Draws)
           /\ UstWon(u, won) \in Nat
<1> DEFINE f == [i \in won |-> WinnerUst(lotteries[i], prizes[i][u].matches)]
           g == WonIn(u, won)
<1>1. ASSUME NEW i \in Draws PROVE WinnerUst(lotteries[i], prizes[i][u].matches) \in Nat
  <2>1. lotteries[i] \in LotteryInfo /\ prizes[i] \in [Users -> PrizeInfo]
    BY DEF TypeOK, Draws
  <2>2. prizes[i][u].matches \in [Buckets -> 0..Uint32Max]
    BY <2>1, PrizeFields
  <2> QED
    BY <2>1, <2>2, SharesTyped
<1>2. \A i \in Draws : g[i] \in Nat
  BY <1>1 DEF WonIn
<1>3. /\ \A s \in won : f[s] \in Int
      /\ \A s \in won : g[s] = f[s]
      /\ \A s \in Draws \ won : g[s] = 0
  BY <1>1 DEF WonIn
<1>4. UstWon(u, won) = SumFunction(f) /\ DOMAIN f = won
  BY DEF UstWon, SumOver
<1> HIDE DEF f, g
<1>5. SumFunction(f) = SumFunctionOnSet(f, won)
  BY <1>4, SumOnDomain
<1>6. SumFunctionOnSet(f, won) = SumFunctionOnSet(g, Draws)
  BY <1>3, FiniteSets, SumOnSubset
<1>7. SumFunctionOnSet(g, Draws) \in Nat
  BY <1>2, FiniteSets, SumNat
<1> QED
  BY <1>2, <1>4, <1>5, <1>6, <1>7 DEF g

\* What a claim does to the entries of the draws it names.
LEMMA EntriesClaimed ==
    ASSUME TypeOK, TypeOK', NEW u \in Users, NEW won \in SUBSET Draws,
           prizes' = [id \in DOMAIN prizes |->
                        IF id \in won THEN [prizes[id] EXCEPT ![u] = ClaimedEntry(@)]
                        ELSE prizes[id]],
           NEW i \in Draws
    PROVE  /\ i \notin won => prizes'[i] = prizes[i]
           /\ i \in won => /\ \A v \in Users \ {u} : prizes'[i][v] = prizes[i][v]
                           /\ prizes'[i][u].claimed
           /\ \A v \in Users : prizes'[i][v].matches = prizes[i][v].matches
<1>1. /\ prizes \in [Draws -> [Users -> PrizeInfo]]
      /\ prizes[i] \in [Users -> PrizeInfo] /\ prizes[i][u] \in PrizeInfo
  <2>1. prizes \in [Draws -> [Users -> PrizeInfo]]
    BY Zenon DEF TypeOK, Draws
  <2> QED
    BY <2>1, Zenon
<1>2. i \notin won => prizes'[i] = prizes[i]
  BY <1>1, Zenon
<1>3. CASE i \in won
  <2> DEFINE entry == ClaimedEntry(prizes[i][u])
  <2>1. prizes'[i] = [prizes[i] EXCEPT ![u] = entry]
    BY <1>1, <1>3, Zenon
  <2>2. entry.claimed /\ entry.matches = prizes[i][u].matches
    BY <1>1, Zenon DEF ClaimedEntry, PrizeInfo
  <2> HIDE DEF entry
  <2> QED
    BY <1>1, <1>3, <2>1, <2>2
<1> QED
  BY <1>2, <1>3

LEMMA ClaimLotteryUst ==
    ASSUME IInv, IInv', UstBooks, NEW u \in Users, NEW ids \in SUBSET Draws, NEW votes,
           execute_claim_lottery(u, ids, votes)
    PROVE  UstBooks' /\ UstFlow
<1> DEFINE won  == {id \in ids : HasPrize(prizes[id][u])}
           ust  == UstWon(u, won)
           paid == Charge(deduct_tax(ust))
<1>1. TypeOK /\ TypeOK' /\ bank \in [ust : Nat, aust : Nat]
  BY DEF IInv, TypeOK
<1>2. UNCHANGED <<config, state, depositors, lotteries>>
  BY Zenon DEF execute_claim_lottery
<1>3. /\ \A id \in ids : lotteries[id].awarded
      /\ \A id \in won : ~prizes[id][u].claimed
  BY Zenon DEF execute_claim_lottery
<1>4. prizes' = [id \in DOMAIN prizes |->
                   IF id \in won THEN [prizes[id] EXCEPT ![u] = ClaimedEntry(@)] ELSE prizes[id]]
  BY Zenon DEF execute_claim_lottery
<1>5. bank' = [bank EXCEPT !.ust = @ - paid]
  BY Zenon DEF execute_claim_lottery
<1>6. won \in SUBSET Draws /\ won \subseteq ids
  OBVIOUS
<1> HIDE DEF won
<1>7. ust \in Nat
  BY <1>1, <1>6, WonTotal
<1>8. paid \in Nat /\ paid <= ust
  BY <1>7, TaxDeductionCoversTransfer
<1> HIDE DEF paid, ust
<1>9. bank'.ust = bank.ust - paid
  BY <1>1, <1>5, Zenon
<1>10. /\ lotteries \in [Draws -> LotteryInfo]
       /\ prizes \in [Draws -> [Users -> PrizeInfo]]
       /\ prizes' \in [Draws -> [Users -> PrizeInfo]]
  BY <1>1 DEF TypeOK, Draws
<1>11. ASSUME NEW i \in Draws
       PROVE  /\ i \notin won => prizes'[i] = prizes[i]
              /\ i \in won => /\ \A v \in Users \ {u} : prizes'[i][v] = prizes[i][v]
                              /\ prizes'[i][u].claimed
              /\ \A v \in Users : prizes'[i][v].matches = prizes[i][v].matches
  BY <1>1, <1>4, <1>6, EntriesClaimed
<1>12. \A i \in Draws : DrawCounted(lotteries'[i], prizes'[i])
  <2> SUFFICES ASSUME NEW i \in Draws PROVE DrawCounted(lotteries[i], prizes'[i])
    BY <1>2
  <2>1. \A k : MatchesIn(prizes'[i], k) = MatchesIn(prizes[i], k)
    BY <1>11 DEF MatchesIn
  <2>2. DrawCounted(lotteries[i], prizes[i])
    BY DEF UstBooks
  <2> QED
    BY <2>1, <2>2 DEF DrawCounted, MatchesCounted
<1> DEFINE f == OwedBy(lotteries, prizes')
           g == WonIn(u, won)
           h == OwedBy(lotteries, prizes)
<1>13. ASSUME NEW i \in Draws PROVE h[i] = f[i] + g[i] /\ f[i] \in Nat /\ g[i] \in Nat
  <2>1. /\ lotteries[i] \in LotteryInfo /\ prizes[i] \in [Users -> PrizeInfo]
        /\ prizes'[i] \in [Users -> PrizeInfo]
    BY <1>10
  <2>2. f[i] \in Nat /\ g[i] \in Nat
    BY <1>1, <1>6, <1>10, OwedTotalTyped, WonTotal
  <2>3. h[i] = OwedOf(lotteries[i], prizes[i]) /\ f[i] = OwedOf(lotteries[i], prizes'[i])
    BY DEF OwedBy
  <2>4. g[i] = IF i \in won THEN WinnerUst(lotteries[i], prizes[i][u].matches) ELSE 0
    BY DEF WonIn
  <2> HIDE DEF f, g, h
  <2>5. CASE i \notin won
    BY <1>11, <2>2, <2>3, <2>4, <2>5
  <2>6. CASE i \in won
    <3>1. /\ lotteries[i].awarded /\ ~prizes[i][u].claimed /\ prizes'[i][u].claimed
          /\ \A v \in Users \ {u} : prizes'[i][v] = prizes[i][v]
      BY <1>3, <1>6, <1>11, <2>6
    <3> DEFINE l == lotteries[i]
               ps == prizes[i]
               qs == prizes'[i]
    <3>2. /\ l \in LotteryInfo /\ ps \in [Users -> PrizeInfo] /\ qs \in [Users -> PrizeInfo]
          /\ l.awarded /\ ~ps[u].claimed /\ qs[u].claimed
          /\ \A v \in Users \ {u} : qs[v] = ps[v]
      BY <2>1, <3>1
    <3> HIDE DEF l, ps, qs
    <3>3. OwedOf(l, ps) = OwedOf(l, qs) + WinnerUst(l, ps[u].matches)
      BY <3>2, OnePrizeClaimed
    <3> QED
      BY <2>2, <2>3, <2>4, <2>6, <3>3 DEF l, ps, qs
  <2> QED
    BY <2>5, <2>6
<1>14. /\ UstWon(u, won) = SumFunctionOnSet(g, Draws)
       /\ OwedTotal(lotteries, prizes) = SumFunctionOnSet(h, Draws)
       /\ OwedTotal(lotteries, prizes') = SumFunctionOnSet(f, Draws)
  BY <1>1, <1>6, WonTotal DEF OwedTotal
<1> HIDE DEF f, g, h
<1>15. SumFunctionOnSet(h, Draws) = SumFunctionOnSet(f, Draws) + SumFunctionOnSet(g, Draws)
  BY <1>13, FiniteSets, SumPlus
<1>16. OwedTotal(lotteries, prizes) = OwedTotal(lotteries, prizes') + ust
  BY <1>14, <1>15 DEF ust
<1>17. ClaimsGood(depositors) /\ ClaimsGood(depositors')
  BY <1>1, <1>2, ClaimsAreGood
<1> DEFINE r == state.total_reserve
           b == BucketsTotal(state.prize_buckets)
           c == ClaimsTotal(depositors)
           o == OwedTotal(lotteries, prizes)
           o1 == OwedTotal(lotteries, prizes')
           m == bank.ust
<1>18. /\ r \in Nat /\ b \in Nat /\ c \in Nat /\ o \in Nat /\ m \in Nat /\ o1 \in Nat
       /\ r + b + c + o <= m /\ o = o1 + ust
  BY <1>1, <1>10, <1>16, <1>17, UstTyped, OwedTotalTyped DEF UstBooks
<1> HIDE DEF r, b, c, o, o1, m
<1>19. r + b + c + o1 <= m - paid /\ r + b + c + o1 + m <= r + b + c + o + (m - paid)
  BY <1>7, <1>8, <1>18
<1>20. /\ state'.total_reserve + BucketsTotal(state'.prize_buckets) + ClaimsTotal(depositors')
            + OwedTotal(lotteries', prizes') <= bank'.ust
       /\ UstFlow
  BY <1>2, <1>9, <1>19 DEF r, b, c, o, o1, m, UstFlow
<1>21. /\ BucketsTotal(config'.prize_distribution) = One
       /\ \A v \in Users : IsFiniteSet(depositors'[v].unbonding_info)
  BY <1>2 DEF UstBooks
<1> QED
  BY <1>12, <1>20, <1>21 DEF UstBooks

\* A forgotten draw owes nothing any more.
LEMMA OwedForgotten ==
    ASSUME IInv, IInv', migrate_old_depositors
    PROVE  OwedTotal(lotteries', prizes') <= OwedTotal(lotteries, prizes)
<1> DEFINE f == OwedBy(lotteries', prizes')
           g == OwedBy(lotteries, prizes)
<1>1. TypeOK /\ TypeOK' /\ LotteryLifecycle
  BY DEF IInv
<1>2. prizes' = prizes
  BY Zenon DEF migrate_old_depositors
<1>3. DrawsTyped(lotteries, prizes) /\ DrawsTyped(lotteries', prizes')
  BY <1>1 DEF TypeOK, DrawsTyped, Draws
<1>4. /\ \A i \in Draws : f[i] \in Nat
      /\ \A i \in Draws : g[i] \in Nat
  BY <1>3, OwedTotalTyped, Zenon DEF DrawsTyped
<1>5. ASSUME NEW i \in Draws PROVE f[i] <= g[i]
  <2>1. f[i] = OwedOf(lotteries'[i], prizes[i]) /\ g[i] = OwedOf(lotteries[i], prizes[i])
    BY <1>2 DEF OwedBy
  <2>2. \/ lotteries'[i] = lotteries[i]
        \/ ~lotteries'[i].awarded
    BY <1>1, Forgetting DEF Draws
  <2>3. CASE lotteries'[i] = lotteries[i]
    BY <1>4, <2>1, <2>3
  <2>4. CASE ~lotteries'[i].awarded
    BY <1>4, <2>1, <2>4, NothingOwed
  <2> QED
    BY <2>2, <2>3, <2>4
<1> HIDE DEF f, g
<1>6. SumFunctionOnSet(f, Draws) <= SumFunctionOnSet(g, Draws)
  <2>1. /\ \A i \in Draws : f[i] \in Int
        /\ \A i \in Draws : g[i] \in Int
    BY <1>4
  <2> QED
    BY <1>5, <2>1, FiniteSets, SumBelow
<1> QED
  BY <1>6 DEF OwedTotal, f, g

LEMMA MigrateUst ==
    ASSUME IInv, IInv', UstBooks, migrate_old_depositors
    PROVE  UstBooks' /\ UstFlow
<1>1. TypeOK /\ TypeOK' /\ LotteryLifecycle
  BY DEF IInv
<1>2. UNCHANGED <<state, depositors, prizes, bank>>
  BY Zenon DEF migrate_old_depositors, chain
<1>3. BucketsTotal(config'.prize_distribution) = One
  BY <1>1, ForgettingKeepsSettings DEF UstBooks
<1>4. ASSUME NEW i \in Draws PROVE DrawCounted(lotteries'[i], prizes'[i])
  <2>1. lotteries'[i] = lotteries[i] \/ lotteries'[i] = ForgottenLottery
    BY <1>1, Forgetting DEF Draws
  <2>2. ForgottenLottery.rand_round = 0 /\ ~ForgottenLottery.awarded
    BY DEF ForgottenLottery, DefaultLottery
  <2> QED
    BY <1>2, <2>1, <2>2 DEF UstBooks, DrawCounted
<1>5. OwedTotal(lotteries', prizes') <= OwedTotal(lotteries, prizes)
  BY OwedForgotten
<1>6. ClaimsGood(depositors) /\ ClaimsGood(depositors')
  BY <1>1, <1>2, ClaimsAreGood
<1> DEFINE r == state.total_reserve
           b == BucketsTotal(state.prize_buckets)
           c == ClaimsTotal(depositors)
           o == OwedTotal(lotteries, prizes)
           o1 == OwedTotal(lotteries', prizes')
           m == bank.ust
<1>7. /\ r \in Nat /\ b \in Nat /\ c \in Nat /\ o \in Nat /\ m \in Nat /\ o1 \in Nat
      /\ r + b + c + o <= m /\ o1 <= o
  BY <1>1, <1>5, <1>6, UstTyped, UstTypedNext DEF UstBooks
<1> HIDE DEF r, b, c, o, o1, m
<1>8. r + b + c + o1 <= m /\ r + b + c + o1 + m <= r + b + c + o + m
  BY <1>7
<1>9. /\ state'.total_reserve + BucketsTotal(state'.prize_buckets) + ClaimsTotal(depositors')
           + OwedTotal(lotteries', prizes') <= bank'.ust
      /\ UstFlow
  BY <1>2, <1>8 DEF r, b, c, o, o1, m, UstFlow
<1>10. \A u \in Users : IsFiniteSet(depositors'[u].unbonding_info)
  BY <1>6 DEF ClaimsGood
<1> QED
  BY <1>3, <1>4, <1>9, <1>10 DEF UstBooks

LEMMA UstStep ==
    ASSUME IInv, IInv', UstBooks, [Next]_vars
    PROVE  UstBooks' /\ UstFlow
<1>0. TypeOK /\ TypeOK'
  BY DEF IInv
<1>1. CASE Deposits \/ Gifts
  <2>1. PICK u \in Users, amount \in DepositAmounts \cup GiftAmounts, o \in OperatorChoices,
             requested \in TicketRequests : deposit(u, amount, o, requested)
    BY <1>1, Zenon DEF Deposits, execute_deposit, Gifts, execute_gift
  <2>2. o \in Users \cup {None} /\ requested \in Seq(Tickets)
    BY InputAssumption DEF Option
  <2> QED
    BY <2>1, <2>2, DepositUst
<1>2. CASE TicketClaims
  <2>1. PICK u \in Users, requested \in ClaimRequests : execute_claim_tickets(u, requested)
    BY <1>2, Zenon DEF TicketClaims
  <2> QED
    BY <2>1, ClaimTicketsUst
<1>3. CASE Withdrawals
  <2>1. PICK u \in Users, amount \in WithdrawAmounts, instant \in InstantChoices :
               execute_withdraw(u, amount, instant)
    BY <1>3, Zenon DEF Withdrawals
  <2>2. amount \in Nat \cup {None} /\ instant \in BOOLEAN
    BY InputAssumption DEF Option
  <2> QED
    BY <2>1, <2>2, WithdrawUst
<1>4. CASE UnbondedClaims
  BY <1>4, ClaimUnbondedUst, Zenon DEF UnbondedClaims
<1>5. CASE Sponsorships
  <2>1. \/ \E u \in Users : \E amount : SponsorDeposit(u, amount)
        \/ \E u \in Users : \E amount :
              \E d \in AwardDistributions \cup {config.prize_distribution} :
                  SponsorAward(u, amount, d)
    BY <1>5, Zenon DEF Sponsorships, execute_sponsor
  <2>2. AwardDistributions \cup {config.prize_distribution} \subseteq [Buckets -> Nat]
    BY <1>0, InputAssumption DEF TypeOK, Config
  <2>3. CASE \E u \in Users : \E amount : SponsorDeposit(u, amount)
    BY <2>3, SponsorUst, Zenon
  <2>4. CASE \E u \in Users : \E amount :
               \E d \in AwardDistributions \cup {config.prize_distribution} :
                   SponsorAward(u, amount, d)
    BY <2>2, <2>4, SponsorAwardUst, Zenon
  <2> QED
    BY <2>1, <2>3, <2>4, Zenon
<1>6. CASE SponsorWithdrawals
  BY <1>6, SponsorUst, Zenon DEF SponsorWithdrawals
<1>7. CASE execute_epoch_ops
  BY <1>7, EpochOpsUst
<1>8. CASE execute_lottery
  BY <1>8, LotteryUst
<1>9. CASE PrizeExecutions
  BY <1>9, PrizeUst, Zenon DEF PrizeExecutions
<1>10. CASE PrizeClaims
  <2>1. \E u \in Users : \E ids \in SUBSET Draws : \E votes :
           execute_claim_lottery(u, ids, votes)
    BY <1>10, Zenon DEF PrizeClaims, Draws
  <2> QED
    BY <2>1, ClaimLotteryUst, Zenon
<1>11. CASE RewardClaims \/ Configurations \/ Clock \/ UNCHANGED vars
  BY <1>11, OtherUst
<1>12. CASE migrate_old_depositors
  BY <1>12, MigrateUst
<1> QED
  BY <1>1, <1>2, <1>3, <1>4, <1>5, <1>6, <1>7, <1>8, <1>9, <1>10, <1>11, <1>12, Zenon DEF Next

LEMMA InitUst == Init => UstBooks
<1> SUFFICES ASSUME Init PROVE UstBooks
  OBVIOUS
<1>0. TypeOK
  BY InitType
<1>1. /\ state.total_reserve = 0 /\ state.prize_buckets = ZeroBuckets
      /\ config = InitConfig /\ ValidInstantiation
      /\ depositors = [u \in Users |-> DefaultDepositor]
      /\ lotteries = [i \in Draws |-> DefaultLottery]
      /\ prizes = [i \in Draws |-> [u \in Users |-> NoPrize]]
  BY DEF Init, Draws
<1>2. \A i \in Draws : DrawCounted(lotteries[i], prizes[i])
  BY <1>1 DEF DefaultLottery, DrawCounted
<1>3. BucketsTotal(config.prize_distribution) = One
  <2>1. config.prize_distribution \in [Buckets -> Nat]
    BY <1>0 DEF TypeOK, Config
  <2>2. ValidDistribution(config.prize_distribution)
    BY <1>1 DEF ValidInstantiation
  <2> QED
    BY <2>1, <2>2, ValidIsOne
<1>4. \A u \in Users : depositors[u].unbonding_info = {}
  BY <1>1 DEF DefaultDepositor
<1>5. \A u \in Users : IsFiniteSet(depositors[u].unbonding_info)
  BY <1>4, FS_EmptySet
<1>6. ClaimsTotal(depositors) = 0
  <2> DEFINE f == ClaimsIn(depositors)
  <2>1. ASSUME NEW u \in Users PROVE f[u] = 0
    <3>1. ClaimsOf({}) = 0
      BY SumEmpty DEF ClaimsOf
    <3> QED
      BY <1>4, <3>1 DEF ClaimsIn
  <2> HIDE DEF f
  <2> QED
    BY <2>1, FiniteSets, SumZero DEF ClaimsTotal, f
<1>7. OwedTotal(lotteries, prizes) = 0
  <2> DEFINE f == OwedBy(lotteries, prizes)
  <2>1. ASSUME NEW i \in Draws PROVE f[i] = 0
    <3>1. ~lotteries[i].awarded
      BY <1>1 DEF DefaultLottery
    <3> QED
      BY <3>1, NothingOwed DEF OwedBy
  <2> HIDE DEF f
  <2> QED
    BY <2>1, FiniteSets, SumZero DEF OwedTotal, f
<1>8. BucketsTotal(state.prize_buckets) = 0
  <2>1. \A i \in Buckets : state.prize_buckets[i] = 0
    BY <1>1 DEF ZeroBuckets
  <2> QED
    BY <2>1, FiniteSets, SumZero DEF BucketsTotal
<1>9. bank.ust \in Nat
  BY <1>0 DEF TypeOK
<1> QED
  BY <1>1, <1>2, <1>3, <1>5, <1>6, <1>7, <1>8, <1>9 DEF UstBooks

\* The contract's UST covers what it owes, along every sequence of deposits,
\* withdrawals, sponsorships, draws and claims.
LEMMA UstBooksKept == Spec => [](IInv /\ UstBooks)
<1>1. Init => UstBooks
  BY InitUst
<1>2. IInv /\ IInv' /\ UstBooks /\ [Next]_vars => UstBooks'
  BY UstStep
<1> QED
  BY <1>1, <1>2, LottoInvariant, PTL DEF Spec

LEMMA ReservedIs ==
    ASSUME TypeOK
    PROVE  ReservedForPrizes = BucketsTotal(state.prize_buckets)
<1> DEFINE f == [i \in Buckets |-> state.prize_buckets[i]]
<1>1. f = state.prize_buckets /\ DOMAIN f = Buckets
  BY DEF TypeOK, State
<1>2. ReservedForPrizes = SumFunction(f)
  BY DEF ReservedForPrizes, SumOver
<1> HIDE DEF f
<1> QED
  BY <1>1, <1>2, SumOnDomain DEF BucketsTotal

LEMMA UnbondingIs == UnbondingClaims = ClaimsTotal(depositors)
<1>1. ASSUME NEW info PROVE SumOver(info, LAMBDA c : c.amount) = ClaimsOf(info)
  <2>1. SumOver(info, LAMBDA c : c.amount) = SumFunction(ClaimAmounts(info))
    BY DEF SumOver, ClaimAmounts
  <2>2. DOMAIN ClaimAmounts(info) = info
    BY DEF ClaimAmounts
  <2> QED
    BY <2>1, <2>2, SumOnDomain DEF ClaimsOf
<1>2. [u \in Users |-> SumOver(depositors[u].unbonding_info, LAMBDA c : c.amount)]
        = ClaimsIn(depositors)
  BY <1>1 DEF ClaimsIn
<1>3. UnbondingClaims = SumFunction(ClaimsIn(depositors))
  BY <1>2 DEF UnbondingClaims, SumOver
<1>4. DOMAIN ClaimsIn(depositors) = Users
  BY DEF ClaimsIn
<1> QED
  BY <1>3, <1>4, SumOnDomain DEF ClaimsTotal

\* What UnclaimedPrizes counts of one draw.
UnclaimedIn(l, ps) ==
    SumOver({u \in Users : ~ps[u].claimed},
            LAMBDA u : IF l.awarded THEN WinnerUst(l, ps[u].matches) ELSE 0)

LEMMA UnclaimedOfDraw ==
    ASSUME NEW l \in LotteryInfo, NEW ps \in [Users -> PrizeInfo]
    PROVE  UnclaimedIn(l, ps) = OwedOf(l, ps)
<1> DEFINE T == {u \in Users : ~ps[u].claimed}
           f == [u \in T |-> IF l.awarded THEN WinnerUst(l, ps[u].matches) ELSE 0]
           g == OwedIn(l, ps)
<1>1. UnclaimedIn(l, ps) = SumFunction(f)
  BY DEF SumOver, UnclaimedIn
<1>2. DOMAIN f = T /\ T \subseteq Users
  OBVIOUS
<1>3. \A u \in Users : g[u] \in Nat
  BY OwedTyped
<1>4. /\ \A u \in T : g[u] = f[u]
      /\ \A u \in Users \ T : g[u] = 0
  BY DEF OwedIn
<1> HIDE DEF T, f, g
<1>5. \A u \in T : f[u] \in Int
  BY <1>2, <1>3, <1>4
<1>6. SumFunction(f) = SumFunctionOnSet(f, T)
  BY <1>2, SumOnDomain
<1>7. SumFunctionOnSet(f, T) = SumFunctionOnSet(g, Users)
  BY <1>2, <1>4, <1>5, FiniteSets, SumOnSubset
<1> QED
  BY <1>1, <1>6, <1>7 DEF OwedOf, g

LEMMA UnclaimedIs ==
    ASSUME TypeOK
    PROVE  UnclaimedPrizes = OwedTotal(lotteries, prizes)
<1> DEFINE f == [i \in Draws |-> UnclaimedIn(lotteries[i], prizes[i])]
<1>1. UnclaimedPrizes = SumFunction(f)
  BY DEF UnclaimedPrizes, UnclaimedIn, SumOver, Draws
<1>2. /\ lotteries \in [Draws -> LotteryInfo]
      /\ prizes \in [Draws -> [Users -> PrizeInfo]]
  BY DEF TypeOK, Draws
<1>3. \A i \in Draws : UnclaimedIn(lotteries[i], prizes[i]) = OwedOf(lotteries[i], prizes[i])
  BY <1>2, UnclaimedOfDraw
<1>4. f = OwedBy(lotteries, prizes) /\ DOMAIN f = Draws
  BY <1>3 DEF OwedBy
<1> HIDE DEF f
<1> QED
  BY <1>1, <1>4, SumOnDomain DEF OwedTotal

\* The contract can pay the reserve, the prize buckets, the unbonding claims
\* and the unclaimed prizes at any time: although winners' prizes are divided
\* and rounded one by one, and the buckets are refilled before the old prizes
\* are claimed, the four never add up to more than its UST.
THEOREM UstAlwaysSolvent == Spec => []UstSolvency
<1>1. TypeOK /\ UstBooks => UstSolvency
  <2> SUFFICES ASSUME TypeOK, UstBooks PROVE UstSolvency
    OBVIOUS
  <2> DEFINE r == state.total_reserve
             b == BucketsTotal(state.prize_buckets)
             c == ClaimsTotal(depositors)
             o == OwedTotal(lotteries, prizes)
             m == bank.ust
  <2>1. r \in Nat /\ b \in Nat /\ c \in Nat /\ o \in Nat /\ m \in Nat
    BY ClaimsAreGood, UstTyped
  <2>2. r + b + c + o <= m
    BY DEF UstBooks
  <2>3. UstSolvency <=> (m >= r + b + c + o)
    BY ReservedIs, UnbondingIs, UnclaimedIs DEF UstSolvency
  <2> HIDE DEF r, b, c, o, m
  <2>4. m >= r + b + c + o
    BY <2>1, <2>2
  <2> QED
    BY <2>3, <2>4
<1> QED
  BY <1>1, UstBooksKept, PTL DEF IInv

LEMMA SettledStep ==
    ASSUME IInv, IInv', UstBooks, [Next]_vars
    PROVE  PrizesSettled
<1> SUFFICES ASSUME UNCHANGED <<state, depositors, sponsors>>
             PROVE  bank.ust - bank'.ust <= UnclaimedPrizes - UnclaimedPrizes'
  BY DEF PrizesSettled
<1>1. TypeOK /\ TypeOK'
  BY DEF IInv
<1>2. UstBooks' /\ UstFlow
  BY UstStep
<1>3. ClaimsGood(depositors) /\ ClaimsGood(depositors')
  BY <1>1, ClaimsAreGood
<1>4. UnclaimedPrizes = OwedTotal(lotteries, prizes)
  BY <1>1, UnclaimedIs
<1>5. (TypeOK => UnclaimedPrizes = OwedTotal(lotteries, prizes))'
  BY UnclaimedIs, PTL
<1> DEFINE r == state.total_reserve
           b == BucketsTotal(state.prize_buckets)
           c == ClaimsTotal(depositors)
           o == OwedTotal(lotteries, prizes)
           o1 == OwedTotal(lotteries', prizes')
           m == bank.ust
           m1 == bank'.ust
<1>6. /\ r \in Nat /\ b \in Nat /\ c \in Nat /\ o \in Nat /\ m \in Nat
      /\ o1 \in Nat /\ m1 \in Nat
  BY <1>1, <1>3, UstTyped, UstTypedNext
<1>7. r + b + c + o1 + m <= r + b + c + o + m1
  BY <1>2 DEF UstFlow
<1>8. UnclaimedPrizes = o /\ UnclaimedPrizes' = o1
  BY <1>1, <1>4, <1>5
<1> HIDE DEF r, b, c, o, o1, m, m1
<1>9. m - m1 <= o - o1
  BY <1>6, <1>7
<1> QED
  BY <1>8, <1>9 DEF m, m1

\* The record of a past draw changes only when MigrateOldDepositors forgets it,
\* its entries only by being claimed, and whatever is paid for them is no longer
\* owed: no prize is paid twice and no claim pays what was not won.
THEOREM AwardsAreFinal == Spec => AwardIsFinal
<1>1. IInv /\ IInv' /\ UstBooks /\ [Next]_vars
        => [/\ \A i \in 0..state.current_lottery - 1 :
                 /\ lotteries'[i] = lotteries[i] \/ migrate_old_depositors
                 /\ \A u \in Users : prizes'[i][u] \in
                       {prizes[i][u], [prizes[i][u] EXCEPT !.claimed = TRUE]}
            /\ PrizesSettled]_vars
  BY FinalStep, SettledStep DEF IInv, FinalEntry
<1> QED
  BY <1>1, UstBooksKept, PTL DEF Spec, AwardIsFinal

-----------------------------------------------------------------------------
(* The GLOW budget.                                                        *)

LEMMA MaxBoostType == MaxBoost \in Nat
BY LargestAssumption

\* The GLOW of one prize, bucket by bucket.
GlowShareIn(l, matches, x) ==
    [i \in Buckets |-> DecMul(PrizeShare(l.glow_prize_buckets[i], matches[i],
                                         l.number_winners[i]), x)]

\* What the draws still owe in GLOW when every winner has the largest boost.
GlowIn(l, ps) ==
    [u \in Users |-> IF l.awarded /\ ~ps[u].claimed
                     THEN WinnerGlow(l, ps[u].matches, MaxBoost) ELSE 0]
GlowOf(l, ps) == SumFunctionOnSet(GlowIn(l, ps), Users)
GlowBy(ls, ps) == [i \in Draws |-> GlowOf(ls[i], ps[i])]
GlowTotal(ls, ps) == SumFunctionOnSet(GlowBy(ls, ps), Draws)

\* The GLOW buckets at the largest boost.
BoostIn(l) == [m \in Buckets |-> DecMul(l.glow_prize_buckets[m], MaxBoost)]
BoostOf(l) == SumFunctionOnSet(BoostIn(l), Buckets)
BoostBy(ls) == [i \in Draws |-> BoostOf(ls[i])]
BoostTotal(ls) == SumFunctionOnSet(BoostBy(ls), Draws)

LEMMA GlowFields ==
    ASSUME NEW l \in LotteryInfo, NEW m \in Buckets
    PROVE  l.glow_prize_buckets[m] \in Nat /\ l.number_winners[m] \in Nat
<1>1. l.glow_prize_buckets \in [Buckets -> Nat] /\ l.number_winners \in [Buckets -> 0..Uint32Max]
  BY DEF LotteryInfo
<1> QED
  BY <1>1, CountsAreNat

LEMMA GlowSharesTyped ==
    ASSUME NEW l \in LotteryInfo, NEW matches \in [Buckets -> 0..Uint32Max], NEW x \in Nat
    PROVE  /\ \A m \in Buckets : GlowShareIn(l, matches, x)[m] \in Nat
           /\ WinnerGlow(l, matches, x) = SumFunctionOnSet(GlowShareIn(l, matches, x), Buckets)
           /\ WinnerGlow(l, matches, x) \in Nat
<1> DEFINE f == GlowShareIn(l, matches, x)
<1>1. ASSUME NEW m \in Buckets PROVE f[m] \in Nat
  <2> DEFINE share == PrizeShare(l.glow_prize_buckets[m], matches[m], l.number_winners[m])
  <2>1. l.glow_prize_buckets[m] \in Nat /\ matches[m] \in Nat /\ l.number_winners[m] \in Nat
    BY GlowFields, CountsAreNat
  <2>2. share \in Nat
    BY <2>1, ShareTyped
  <2>3. f[m] = DecMul(share, x)
    BY DEF GlowShareIn
  <2> HIDE DEF share
  <2> QED
    BY <2>2, <2>3, DecMulBounds
<1>2. WinnerGlow(l, matches, x) = SumFunction(f) /\ DOMAIN f = Buckets
  BY DEF WinnerGlow, GlowShareIn
<1> HIDE DEF f
<1>3. SumFunction(f) = SumFunctionOnSet(f, Buckets)
  BY <1>2, SumOnDomain
<1>4. SumFunctionOnSet(f, Buckets) \in Nat
  BY <1>1, FiniteSets, SumNat
<1> QED
  BY <1>1, <1>2, <1>3, <1>4 DEF f

\* A smaller boost pays no more.
LEMMA SmallerBoost ==
    ASSUME NEW l \in LotteryInfo, NEW matches \in [Buckets -> 0..Uint32Max],
           NEW x \in Nat, NEW y \in Nat, x <= y
    PROVE  WinnerGlow(l, matches, x) <= WinnerGlow(l, matches, y)
<1> DEFINE f == GlowShareIn(l, matches, x)
           g == GlowShareIn(l, matches, y)
<1>1. ASSUME NEW m \in Buckets PROVE f[m] <= g[m]
  <2> DEFINE share == PrizeShare(l.glow_prize_buckets[m], matches[m], l.number_winners[m])
  <2>1. l.glow_prize_buckets[m] \in Nat /\ matches[m] \in Nat /\ l.number_winners[m] \in Nat
    BY GlowFields, CountsAreNat
  <2>2. share \in Nat
    BY <2>1, ShareTyped
  <2>3. f[m] = DecMul(share, x) /\ g[m] = DecMul(share, y)
    BY DEF GlowShareIn
  <2> HIDE DEF share, f, g
  <2>4. share <= share
    BY <2>2
  <2> QED
    BY <2>2, <2>3, <2>4, DecMulMono
<1>2. /\ \A m \in Buckets : f[m] \in Nat
      /\ \A m \in Buckets : g[m] \in Nat
      /\ WinnerGlow(l, matches, x) = SumFunctionOnSet(f, Buckets)
      /\ WinnerGlow(l, matches, y) = SumFunctionOnSet(g, Buckets)
  BY GlowSharesTyped
<1> HIDE DEF f, g
<1>3. /\ \A m \in Buckets : f[m] \in Int
      /\ \A m \in Buckets : g[m] \in Int
      /\ \A m \in Buckets : f[m] <= g[m]
  BY <1>1, <1>2
<1>4. SumFunctionOnSet(f, Buckets) <= SumFunctionOnSet(g, Buckets)
  BY <1>3, FiniteSets, SumBelow
<1> QED
  BY <1>2, <1>4

\* However a bucket is divided and boosted, no more is paid than the whole
\* bucket boosted at once: both roundings are downwards.
LEMMA GlowOfBucket ==
    ASSUME NEW b \in Nat, NEW w \in Nat, NEW f, \A u \in Users : f[u] \in Nat,
           w = SumFunctionOnSet(f, Users), NEW x \in Nat, NEW g,
           \A u \in Users : g[u] = DecMul(PrizeShare(b, f[u], w), x)
    PROVE  SumFunctionOnSet(g, Users) <= DecMul(b, x)
<1> DEFINE h      == [u \in Users |-> PrizeShare(b, f[u], w)]
           scaled == [u \in Users |-> One * g[u]]
           whole  == [u \in Users |-> x * h[u]]
<1>1. \A u \in Users : h[u] = PrizeShare(b, f[u], w) /\ h[u] \in Nat
  BY ShareTyped
<1>2. \A u \in Users : scaled[u] = One * g[u] /\ whole[u] = x * h[u]
  OBVIOUS
<1> HIDE DEF h, scaled, whole
<1>3. SumFunctionOnSet(h, Users) <= b /\ SumFunctionOnSet(h, Users) \in Nat
  <2>1. SumFunctionOnSet(h, Users) <= IF w # 0 THEN b ELSE 0
    BY <1>1, SharesOfBucket
  <2>2. SumFunctionOnSet(h, Users) \in Nat
    BY <1>1, FiniteSets, SumNat
  <2> QED
    BY <2>1, <2>2
<1>4. ASSUME NEW u \in Users
      PROVE  /\ g[u] \in Nat /\ scaled[u] \in Nat /\ whole[u] \in Nat
             /\ scaled[u] <= whole[u]
  <2>1. h[u] \in Nat /\ g[u] = DecMul(h[u], x)
    BY <1>1
  <2>2. g[u] \in Nat /\ g[u] * One <= h[u] * x
    BY <2>1, DecMulBounds
  <2>3. g[u] * One = One * g[u] /\ h[u] * x = x * h[u]
    BY <2>1, <2>2, OneAssumption
  <2>4. One * g[u] \in Nat /\ x * h[u] \in Nat
    BY <2>1, <2>2, OneAssumption, MulNat
  <2> QED
    BY <1>2, <2>2, <2>3, <2>4
<1>5. /\ \A u \in Users : g[u] \in Int
      /\ \A u \in Users : h[u] \in Int
      /\ \A u \in Users : scaled[u] \in Int
      /\ \A u \in Users : whole[u] \in Int
      /\ \A u \in Users : scaled[u] <= whole[u]
      /\ One \in Int /\ x \in Int
  BY <1>1, <1>4, OneAssumption
<1>6. SumFunctionOnSet(scaled, Users) = One * SumFunctionOnSet(g, Users)
  BY <1>2, <1>5, FiniteSets, SumScale
<1>7. SumFunctionOnSet(whole, Users) = x * SumFunctionOnSet(h, Users)
  BY <1>2, <1>5, FiniteSets, SumScale
<1>8. SumFunctionOnSet(scaled, Users) <= SumFunctionOnSet(whole, Users)
  BY <1>5, FiniteSets, SumBelow
<1>9. SumFunctionOnSet(g, Users) \in Nat
  BY <1>4, FiniteSets, SumNat
<1> DEFINE s == SumFunctionOnSet(g, Users)
           t == SumFunctionOnSet(h, Users)
<1>10. s \in Nat /\ t \in Nat /\ t <= b /\ One * s <= x * t
  BY <1>3, <1>6, <1>7, <1>8, <1>9
<1> HIDE DEF s, t
<1>11. t * x <= b * x /\ t * x \in Nat /\ b * x \in Nat /\ x * t = t * x
  BY <1>10, MulMono, MulNat
<1>12. s * One <= b * x
  BY <1>10, <1>11, OneAssumption
<1> DEFINE p == b * x
<1>13. p \in Nat /\ s * One <= p
  BY <1>11, <1>12
<1> HIDE DEF p
<1>14. s <= p \div One
  BY <1>10, <1>13, OneAssumption, DivLower
<1> QED
  BY <1>14 DEF s, p, DecMul

LEMMA GlowTyped ==
    ASSUME NEW l \in LotteryInfo, NEW ps \in [Users -> PrizeInfo]
    PROVE  /\ \A u \in Users : WinnerGlow(l, ps[u].matches, MaxBoost) \in Nat
           /\ \A u \in Users : GlowIn(l, ps)[u] \in Nat
           /\ GlowOf(l, ps) \in Nat
<1>1. \A u \in Users : WinnerGlow(l, ps[u].matches, MaxBoost) \in Nat
  BY PrizeFields, GlowSharesTyped, MaxBoostType
<1>2. \A u \in Users : GlowIn(l, ps)[u] \in Nat
  BY <1>1 DEF GlowIn
<1> QED
  BY <1>1, <1>2, FiniteSets, SumNat DEF GlowOf

LEMMA BoostTyped ==
    ASSUME NEW l \in LotteryInfo
    PROVE  /\ \A m \in Buckets : BoostIn(l)[m] \in Nat
           /\ BoostOf(l) \in Nat
<1>1. \A m \in Buckets : BoostIn(l)[m] \in Nat
  BY GlowFields, DecMulBounds, MaxBoostType DEF BoostIn
<1> QED
  BY <1>1, FiniteSets, SumNat DEF BoostOf

LEMMA GlowTotalTyped ==
    ASSUME NEW ls, NEW ps, DrawsTyped(ls, ps)
    PROVE  /\ \A i \in Draws : GlowBy(ls, ps)[i] \in Nat
           /\ \A i \in Draws : BoostBy(ls)[i] \in Nat
           /\ GlowTotal(ls, ps) \in Nat
           /\ BoostTotal(ls) \in Nat
<1>1. \A i \in Draws : ls[i] \in LotteryInfo /\ ps[i] \in [Users -> PrizeInfo]
  BY DEF DrawsTyped
<1>2. \A i \in Draws : GlowOf(ls[i], ps[i]) \in Nat /\ BoostOf(ls[i]) \in Nat
  BY <1>1, GlowTyped, BoostTyped
<1>3. /\ \A i \in Draws : GlowBy(ls, ps)[i] \in Nat
      /\ \A i \in Draws : BoostBy(ls)[i] \in Nat
  BY <1>2 DEF GlowBy, BoostBy
<1> QED
  BY <1>3, FiniteSets, SumNat DEF GlowTotal, BoostTotal

\* A draw owes no more GLOW than its boosted buckets.
LEMMA GlowOfDraw ==
    ASSUME NEW l \in LotteryInfo, NEW ps \in [Users -> PrizeInfo], MatchesCounted(l, ps)
    PROVE  GlowOf(l, ps) <= BoostOf(l)
<1> DEFINE f       == [u \in Users |-> GlowShareIn(l, ps[u].matches, MaxBoost)]
           rows    == [u \in Users |-> SumFunctionOnSet(f[u], Buckets)]
           columns == [m \in Buckets |-> SumFunctionOnSet(Column(f, Users, m), Users)]
           boosted == BoostIn(l)
           owed    == GlowIn(l, ps)
<1>0. MaxBoost \in Nat
  BY MaxBoostType
<1>1. \A u \in Users : /\ f[u] = GlowShareIn(l, ps[u].matches, MaxBoost)
                       /\ rows[u] = SumFunctionOnSet(f[u], Buckets)
  OBVIOUS
<1>2. \A u \in Users : \A m \in Buckets : f[u][m] \in Nat
  BY <1>0, PrizeFields, GlowSharesTyped
<1>3. \A u \in Users : WinnerGlow(l, ps[u].matches, MaxBoost) = rows[u]
  BY <1>0, PrizeFields, GlowSharesTyped
<1>4. \A m \in Buckets : columns[m] = SumFunctionOnSet(Column(f, Users, m), Users)
  OBVIOUS
<1>5. \A u \in Users : \A m \in Buckets :
         f[u][m] = DecMul(PrizeShare(l.glow_prize_buckets[m], ps[u].matches[m],
                                     l.number_winners[m]), MaxBoost)
  BY DEF GlowShareIn
<1> HIDE DEF f, rows, columns
<1>6. \A u \in Users : rows[u] \in Nat
  BY <1>3, GlowTyped
<1>7. SumFunctionOnSet(rows, Users) = SumFunctionOnSet(columns, Buckets)
  <2>1. \A u \in Users : rows[u] = SumFunctionOnSet(f[u], Buckets)
    BY <1>1
  <2>2. \A u \in Users : \A m \in Buckets : f[u][m] \in Int
    BY <1>2
  <2>3. IsFiniteSet(Users) /\ IsFiniteSet(Buckets)
    BY FiniteSets
  <2>4. \A b \in Buckets : columns[b] = SumFunctionOnSet(Column(f, Users, b), Users)
    BY <1>4
  <2> HIDE DEF Column
  <2> QED
    BY <2>1, <2>2, <2>3, <2>4, SumSwap
<1>8. ASSUME NEW m \in Buckets
      PROVE  columns[m] \in Nat /\ boosted[m] \in Nat /\ columns[m] <= boosted[m]
  <2> DEFINE counts == MatchesIn(ps, m)
             shares == Column(f, Users, m)
             b == l.glow_prize_buckets[m]
             w == l.number_winners[m]
  <2>1. b \in Nat /\ w \in Nat
    BY GlowFields
  <2>2. w = SumFunctionOnSet(counts, Users)
    BY DEF MatchesCounted
  <2>3. \A u \in Users : counts[u] = ps[u].matches[m] /\ counts[u] \in Nat
    BY PrizeFields, CountsAreNat DEF MatchesIn
  <2>4. \A u \in Users : shares[u] = f[u][m] /\ shares[u] \in Nat
    BY <1>2 DEF Column
  <2>5. \A u \in Users : shares[u] = DecMul(PrizeShare(b, counts[u], w), MaxBoost)
    BY <1>5, <2>3, <2>4
  <2>6. boosted[m] = DecMul(b, MaxBoost) /\ boosted[m] \in Nat
    BY BoostTyped DEF BoostIn
  <2>7. columns[m] = SumFunctionOnSet(shares, Users)
    BY <1>4
  <2> HIDE DEF counts, shares, b, w, boosted
  <2>8. SumFunctionOnSet(shares, Users) \in Nat
    BY <2>4, FiniteSets, SumNat
  <2>9. SumFunctionOnSet(shares, Users) <= DecMul(b, MaxBoost)
    BY <1>0, <2>1, <2>2, <2>3, <2>5, GlowOfBucket
  <2> QED
    BY <2>6, <2>7, <2>8, <2>9
<1> HIDE DEF boosted, owed
<1>9. SumFunctionOnSet(columns, Buckets) <= SumFunctionOnSet(boosted, Buckets)
  BY <1>8, FiniteSets, SumBelow
<1>10. ASSUME NEW u \in Users PROVE owed[u] \in Nat /\ owed[u] <= rows[u]
  BY <1>3, <1>6, GlowTyped DEF owed, GlowIn
<1>11. SumFunctionOnSet(owed, Users) <= SumFunctionOnSet(rows, Users)
  BY <1>6, <1>10, FiniteSets, SumBelow
<1>12. /\ SumFunctionOnSet(owed, Users) \in Nat
       /\ SumFunctionOnSet(columns, Buckets) \in Nat
       /\ SumFunctionOnSet(boosted, Buckets) \in Nat
  BY <1>8, <1>10, FiniteSets, SumNat
<1>13. SumFunctionOnSet(owed, Users) <= SumFunctionOnSet(boosted, Buckets)
  BY <1>7, <1>9, <1>11, <1>12
<1> QED
  BY <1>13 DEF GlowOf, BoostOf, owed, boosted

\* A change of one draw that was not awarded, whose GLOW buckets were empty.
LEMMA OneDrawBoosted ==
    ASSUME NEW ls, NEW ps, NEW ms, NEW qs, NEW i \in Draws,
           DrawsTyped(ls, ps), DrawsTyped(ms, qs), OneDrawChanges(ls, ps, ms, qs, i),
           ls[i].glow_prize_buckets = ZeroBuckets
    PROVE  /\ GlowTotal(ms, qs) = GlowTotal(ls, ps) + GlowOf(ms[i], qs[i])
           /\ BoostTotal(ms) = BoostTotal(ls) + BoostOf(ms[i])
<1> DEFINE f == GlowBy(ls, ps)
           g == GlowBy(ms, qs)
           b == BoostBy(ls)
           c == BoostBy(ms)
           row == GlowIn(ls[i], ps[i])
           old == BoostIn(ls[i])
<1>1. \A u \in Users : row[u] = 0
  BY DEF GlowIn, OneDrawChanges
<1>2. \A m \in Buckets : old[m] = 0
  <2>1. DecMul(0, MaxBoost) = 0
    <3>1. DecMul(0, MaxBoost) \in Nat /\ DecMul(0, MaxBoost) * One <= 0 * MaxBoost
      BY DecMulBounds, MaxBoostType
    <3>2. 0 * MaxBoost = 0 * One
      BY MaxBoostType, OneAssumption
    <3> DEFINE d == DecMul(0, MaxBoost)
    <3>3. d \in Nat /\ d * One <= 0 * One
      BY <3>1, <3>2
    <3> HIDE DEF d
    <3>4. d <= 0
      BY <3>3, OneAssumption, MulCancel
    <3> QED
      BY <3>3, <3>4 DEF d
  <2> QED
    BY <2>1 DEF BoostIn, ZeroBuckets
<1>3. f[i] = SumFunctionOnSet(row, Users) /\ b[i] = SumFunctionOnSet(old, Buckets)
  BY DEF GlowBy, GlowOf, BoostBy, BoostOf
<1>4. /\ \A j \in Draws : f[j] \in Nat
      /\ \A j \in Draws : g[j] \in Nat
      /\ \A j \in Draws : b[j] \in Nat
      /\ \A j \in Draws : c[j] \in Nat
  BY GlowTotalTyped, Zenon
<1>5. /\ \A j \in Draws \ {i} : g[j] = f[j]
      /\ \A j \in Draws \ {i} : c[j] = b[j]
      /\ g[i] = GlowOf(ms[i], qs[i])
      /\ c[i] = BoostOf(ms[i])
  BY DEF GlowBy, BoostBy, OneDrawChanges
<1> HIDE DEF f, g, b, c, row, old
<1>6. f[i] = 0 /\ b[i] = 0
  BY <1>1, <1>2, <1>3, FiniteSets, SumZero
<1>7. /\ \A j \in Draws : f[j] \in Int
      /\ \A j \in Draws : g[j] \in Int
      /\ \A j \in Draws : b[j] \in Int
      /\ \A j \in Draws : c[j] \in Int
  BY <1>4
<1>8. SumFunctionOnSet(g, Draws) = SumFunctionOnSet(f, Draws) + g[i]
  BY <1>5, <1>6, <1>7, DrawUpdated, Zenon
<1>9. SumFunctionOnSet(c, Draws) = SumFunctionOnSet(b, Draws) + c[i]
  BY <1>5, <1>6, <1>7, DrawUpdated, Zenon
<1> QED
  BY <1>5, <1>8, <1>9 DEF GlowTotal, BoostTotal, f, g, b, c

\* A draw that is not awarded owes no GLOW.
LEMMA NoGlowOwed ==
    ASSUME NEW l, ~l.awarded, NEW ps
    PROVE  GlowOf(l, ps) = 0
<1> DEFINE row == GlowIn(l, ps)
<1>1. \A u \in Users : row[u] = 0
  BY DEF GlowIn
<1> HIDE DEF row
<1> QED
  BY <1>1, FiniteSets, SumZero DEF GlowOf, row

\* A prize that is claimed is no longer owed in GLOW either.
LEMMA OneGlowClaimed ==
    ASSUME NEW l \in LotteryInfo, NEW ps \in [Users -> PrizeInfo], NEW u \in Users,
           l.awarded, ~ps[u].claimed,
           NEW qs \in [Users -> PrizeInfo],
           \A v \in Users \ {u} : qs[v] = ps[v], qs[u].claimed
    PROVE  GlowOf(l, ps) = GlowOf(l, qs) + WinnerGlow(l, ps[u].matches, MaxBoost)
<1> DEFINE f == GlowIn(l, ps)
           g == GlowIn(l, qs)
<1>1. /\ \A v \in Users : f[v] \in Nat
      /\ \A v \in Users : g[v] \in Nat
  BY GlowTyped
<1>2. \A v \in Users \ {u} : g[v] = f[v]
  BY DEF GlowIn
<1>3. f[u] = WinnerGlow(l, ps[u].matches, MaxBoost) /\ g[u] = 0
  BY DEF GlowIn
<1> HIDE DEF f, g
<1>4. /\ \A v \in Users : f[v] \in Int
      /\ \A v \in Users : g[v] \in Int
  BY <1>1
<1>5. SumFunctionOnSet(g, Users) = SumFunctionOnSet(f, Users) - f[u] + g[u]
  BY <1>2, <1>4, UserUpdated, Zenon
<1>6. SumFunctionOnSet(f, Users) \in Nat
  BY <1>1, FiniteSets, SumNat
<1>7. f[u] \in Nat
  BY <1>1
<1>8. SumFunctionOnSet(f, Users) = SumFunctionOnSet(g, Users) + f[u]
  BY <1>3, <1>5, <1>6, <1>7
<1> QED
  BY <1>3, <1>8 DEF GlowOf, f, g

\* What a winner gets in GLOW is no more than what the draws owed.
GlowWonIn(u, won) ==
    [i \in Draws |-> IF i \in won THEN WinnerGlow(lotteries[i], prizes[i][u].matches, MaxBoost)
                     ELSE 0]

LEMMA GlowWonBounds ==
    ASSUME TypeOK, config.lotto_winner_boost_config.max_multiplier <= MaxBoost,
           ValidBoost(config.lotto_winner_boost_config),
           NEW u \in Users, NEW won \in SUBSET Draws, NEW votes \in [user : Nat, total : Nat],
           \A id \in won : BoostDefined(config.lotto_winner_boost_config, snapshots[id][u],
                                        votes.total)
    PROVE  /\ GlowWon(u, won, votes) \in Nat
           /\ GlowWon(u, won, votes) <= SumFunctionOnSet(GlowWonIn(u, won), Draws)
           /\ \A i \in Draws : GlowWonIn(u, won)[i] \in Nat
<1> DEFINE f == [i \in won |-> WinnerGlow(lotteries[i], prizes[i][u].matches,
                                          WinnerMultiplier(u, i, votes))]
           h == [i \in Draws |-> IF i \in won THEN f[i] ELSE 0]
           g == GlowWonIn(u, won)
<1>1. ASSUME NEW i \in Draws
      PROVE  WinnerGlow(lotteries[i], prizes[i][u].matches, MaxBoost) \in Nat
  <2>1. lotteries[i] \in LotteryInfo /\ prizes[i] \in [Users -> PrizeInfo]
    BY DEF TypeOK, Draws
  <2> QED
    BY <2>1, GlowTyped
<1>2. ASSUME NEW i \in won
      PROVE  /\ f[i] \in Nat
             /\ f[i] <= WinnerGlow(lotteries[i], prizes[i][u].matches, MaxBoost)
  <2> DEFINE boost == config.lotto_winner_boost_config
             x == WinnerMultiplier(u, i, votes)
             l == lotteries[i]
             ms == prizes[i][u].matches
  <2>0. i \in Draws
    OBVIOUS
  <2>1. /\ l \in LotteryInfo /\ prizes[i] \in [Users -> PrizeInfo]
        /\ snapshots[i] \in [Users -> Nat]
    BY <2>0 DEF TypeOK, Draws
  <2>2. ms \in [Buckets -> 0..Uint32Max]
    BY <2>1, PrizeFields
  <2>3. snapshots[i][u] \in Nat /\ l.total_user_shares \in Nat
    BY <2>1 DEF LotteryInfo
  <2>4. votes.user \in Nat /\ votes.total \in Nat
    OBVIOUS
  <2>5. /\ boost \in BoostConfig /\ ValidBoost(boost)
        /\ boost.max_multiplier \in Nat /\ boost.max_multiplier <= MaxBoost
    BY DEF TypeOK, Config, BoostConfig
  <2>6. BoostDefined(boost, snapshots[i][u], votes.total)
    OBVIOUS
  <2>7. x = calculate_boost_multiplier(boost, snapshots[i][u], l.total_user_shares,
                                       votes.user, votes.total)
    BY DEF WinnerMultiplier
  <2> HIDE DEF boost, x, l
  <2>8. x \in Nat /\ x <= MaxBoost
    <3> DEFINE voting == votes.user
               total_voting == votes.total
               shares == snapshots[i][u]
               total == l.total_user_shares
    <3>1. /\ voting \in Nat /\ total_voting \in Nat /\ shares \in Nat /\ total \in Nat
          /\ BoostDefined(boost, shares, total_voting)
          /\ x = calculate_boost_multiplier(boost, shares, total, voting, total_voting)
      BY <2>3, <2>4, <2>6, <2>7
    <3> HIDE DEF voting, total_voting, shares, total
    <3>2. x \in Nat /\ x <= boost.max_multiplier
      BY <2>5, <3>1, BoostBounds
    <3> QED
      BY <2>5, <3>2, MaxBoostType
  <2>9. f[i] = WinnerGlow(l, ms, x)
    BY DEF x, l
  <2> HIDE DEF f, ms
  <2>10. WinnerGlow(l, ms, x) \in Nat
    BY <2>1, <2>2, <2>8, GlowSharesTyped
  <2>11. WinnerGlow(l, ms, x) <= WinnerGlow(l, ms, MaxBoost)
    BY <2>1, <2>2, <2>8, SmallerBoost, MaxBoostType
  <2>12. f[i] \in Nat /\ f[i] <= WinnerGlow(l, ms, MaxBoost)
    BY <2>9, <2>10, <2>11
  <2> QED
    BY <2>12 DEF l, ms
<1>3. GlowWon(u, won, votes) = SumFunction(f) /\ DOMAIN f = won
  BY DEF GlowWon, SumOver
<1> HIDE DEF f
<1>4. /\ \A i \in Draws : g[i] \in Nat
      /\ \A i \in Draws : h[i] \in Nat
      /\ \A i \in Draws : h[i] <= g[i]
      /\ \A i \in won : h[i] = f[i]
      /\ \A i \in won : f[i] \in Int
      /\ \A i \in Draws \ won : h[i] = 0
  BY <1>1, <1>2 DEF GlowWonIn
<1> HIDE DEF g, h
<1>5. SumFunction(f) = SumFunctionOnSet(f, won)
  BY <1>3, SumOnDomain
<1>6. SumFunctionOnSet(f, won) = SumFunctionOnSet(h, Draws)
  BY <1>4, FiniteSets, SumOnSubset
<1>7. /\ \A i \in Draws : g[i] \in Int
      /\ \A i \in Draws : h[i] \in Int
  BY <1>4
<1>8. SumFunctionOnSet(h, Draws) <= SumFunctionOnSet(g, Draws)
  BY <1>4, <1>7, FiniteSets, SumBelow
<1>9. SumFunctionOnSet(h, Draws) \in Nat
  BY <1>4, FiniteSets, SumNat
<1> QED
  BY <1>3, <1>4, <1>5, <1>6, <1>8, <1>9 DEF g

-----------------------------------------------------------------------------
(* Rewards of the sponsors.                                                *)

AccruedIn(ss, g) ==
    [u \in Users |-> ss[u].pending_rewards + ss[u].lottery_deposit * (g - ss[u].reward_index)]
AccruedTotal(ss, g) == SumFunctionOnSet(AccruedIn(ss, g), Users)

\* Sponsors whose rewards can be computed at an index.
SponsorsAt(ss, g) ==
    g \in Nat /\ ss \in [Users -> SponsorInfo] /\ \A u \in Users : ss[u].reward_index <= g

LEMMA SponsorFields ==
    ASSUME NEW ss, NEW g, SponsorsAt(ss, g), NEW u \in Users
    PROVE  /\ ss[u].pending_rewards \in Nat /\ ss[u].lottery_deposit \in Nat
           /\ ss[u].reward_index \in Nat /\ g - ss[u].reward_index \in Nat /\ g \in Nat
<1>1. ss[u] \in SponsorInfo /\ g \in Nat /\ ss[u].reward_index <= g
  BY DEF SponsorsAt
<1>2. /\ ss[u].pending_rewards \in Nat /\ ss[u].lottery_deposit \in Nat
      /\ ss[u].reward_index \in Nat
  BY <1>1 DEF SponsorInfo
<1> QED
  BY <1>1, <1>2

LEMMA AccruedTyped ==
    ASSUME NEW ss, NEW g, SponsorsAt(ss, g)
    PROVE  /\ \A u \in Users : AccruedIn(ss, g)[u] \in Nat
           /\ AccruedTotal(ss, g) \in Nat
<1>1. ASSUME NEW u \in Users PROVE AccruedIn(ss, g)[u] \in Nat
  <2>1. /\ ss[u].pending_rewards \in Nat /\ ss[u].lottery_deposit \in Nat
        /\ g - ss[u].reward_index \in Nat
    BY SponsorFields
  <2>2. ss[u].lottery_deposit * (g - ss[u].reward_index) \in Nat
    BY <2>1, MulNat
  <2> QED
    BY <2>1, <2>2 DEF AccruedIn
<1> QED
  BY <1>1, FiniteSets, SumNat DEF AccruedTotal

\* The index pays every deposit for what it grows.
LEMMA AccruedGrows ==
    ASSUME NEW ss, NEW g, NEW d \in Nat, SponsorsAt(ss, g)
    PROVE  /\ AccruedTotal(ss, g + d) = AccruedTotal(ss, g) + d * DepositsTotal(ss)
           /\ SponsorsAt(ss, g + d)
           /\ DepositsTotal(ss) \in Nat
<1> DEFINE f == AccruedIn(ss, g)
           h == AccruedIn(ss, g + d)
           p == DepositsIn(ss)
           q == [u \in Users |-> d * p[u]]
<1>0. SponsorsAt(ss, g + d)
  <2>1. ASSUME NEW u \in Users PROVE ss[u].reward_index <= g + d
    <3>1. ss[u].reward_index \in Nat /\ g \in Nat /\ g - ss[u].reward_index \in Nat
      BY SponsorFields
    <3> QED
      BY <3>1
  <2> QED
    BY <2>1 DEF SponsorsAt
<1>1. \A u \in Users : f[u] \in Nat
  BY AccruedTyped
<1>2. ASSUME NEW u \in Users
      PROVE  p[u] \in Nat /\ q[u] = d * p[u] /\ q[u] \in Nat /\ h[u] = f[u] + q[u]
  <2> DEFINE x == ss[u].pending_rewards
             y == ss[u].lottery_deposit
             z == ss[u].reward_index
  <2>1. x \in Nat /\ y \in Nat /\ z \in Nat /\ g \in Nat /\ g - z \in Nat
    BY SponsorFields
  <2>2. /\ p[u] = y /\ q[u] = d * p[u] /\ f[u] = x + y * (g - z)
        /\ h[u] = x + y * ((g + d) - z)
    <3>1. p[u] = y /\ q[u] = d * p[u]
      BY DEF DepositsIn
    <3>2. f[u] = x + y * (g - z)
      BY Zenon DEF AccruedIn
    <3>3. h[u] = x + y * ((g + d) - z)
      BY Zenon DEF AccruedIn
    <3> QED
      BY <3>1, <3>2, <3>3
  <2> HIDE DEF x, y, z, p, q, f, h
  <2>3. d * y \in Nat
    BY <2>1, MulNat
  <2>4. y * ((g + d) - z) = y * (g - z) + d * y
    BY <2>1
  <2>5. y * (g - z) \in Nat
    BY <2>1, MulNat
  <2> QED
    BY <2>1, <2>2, <2>3, <2>4, <2>5
<1> HIDE DEF f, h, p, q
<1>3. /\ \A u \in Users : f[u] \in Int
      /\ \A u \in Users : p[u] \in Int
      /\ \A u \in Users : q[u] \in Int
      /\ \A u \in Users : q[u] = d * p[u]
      /\ \A u \in Users : h[u] = f[u] + q[u]
      /\ d \in Int
  BY <1>1, <1>2
<1>4. SumFunctionOnSet(h, Users) = SumFunctionOnSet(f, Users) + SumFunctionOnSet(q, Users)
  BY <1>3, FiniteSets, SumPlus
<1>5. SumFunctionOnSet(q, Users) = d * SumFunctionOnSet(p, Users)
  BY <1>3, FiniteSets, SumScale
<1>6. SumFunctionOnSet(p, Users) \in Nat
  BY <1>2, FiniteSets, SumNat
<1> QED
  BY <1>0, <1>4, <1>5, <1>6 DEF AccruedTotal, DepositsTotal, f, h, p

\* An update of the index gives out no more than was emitted since the last
\* one: the part of a unit of deposit is rounded down.
LEMMA IndexGain ==
    ASSUME NEW index \in RewardEmissionsIndex, NEW spread \in Nat, NEW height \in Nat
    PROVE  LET new == compute_global_reward(index, spread, height)
           IN  /\ new.glow_emission_rate = index.glow_emission_rate
               /\ index.last_reward_updated <= new.last_reward_updated
               /\ index.glow_emission_rate = 0 =>
                    new.global_reward_index = index.global_reward_index
               /\ \E d \in Nat :
                    /\ new.global_reward_index = index.global_reward_index + d
                    /\ d * spread + index.glow_emission_rate * index.last_reward_updated
                         <= index.glow_emission_rate * new.last_reward_updated
<1> DEFINE new == compute_global_reward(index, spread, height)
           r == index.glow_emission_rate
           last == index.last_reward_updated
           accrued == (height - last) * r
           gain == IF accrued # 0 /\ spread # 0 THEN accrued \div spread ELSE 0
           total == index.global_reward_index + gain
<1>1. r \in Nat /\ last \in Nat /\ index.global_reward_index \in Nat
  BY DEF RewardEmissionsIndex
<1>2. CASE last >= height
  <2>1. new = index
    BY <1>2 DEF compute_global_reward
  <2>3. last <= last
    BY <1>1
  <2>2. 0 * spread + r * last <= r * last /\ index.global_reward_index = index.global_reward_index + 0
    BY <1>1, MulNat
  <2> QED
    BY <2>1, <2>2, <2>3
<1>3. CASE ~(last >= height)
  <2>1. new = [index EXCEPT !.global_reward_index = @ + gain, !.last_reward_updated = height]
    BY <1>3 DEF compute_global_reward
  <2>2. new = [index EXCEPT !.global_reward_index = total, !.last_reward_updated = height]
    BY <2>1
  <2>3. accrued \in Nat /\ accrued = r * height - r * last
    <3>1. height - last \in Nat
      BY <1>1, <1>3
    <3>2. (height - last) * r \in Nat
      BY <1>1, <3>1, MulNat
    <3> QED
      BY <1>1, <3>2
  <2>4. r = 0 => accrued = 0
    BY <1>1
  <2> HIDE DEF accrued
  <2>5. gain \in Nat /\ gain * spread <= accrued /\ (accrued = 0 => gain = 0)
    <3>1. CASE accrued # 0 /\ spread # 0
      <4>1. accrued \div spread \in Nat /\ spread * (accrued \div spread) <= accrued
        BY <2>3, <3>1, DivBounds
      <4>2. gain = accrued \div spread
        BY <3>1
      <4> HIDE DEF gain
      <4> QED
        BY <3>1, <4>1, <4>2
    <3>2. CASE ~(accrued # 0 /\ spread # 0)
      BY <2>3, <3>2
    <3> QED
      BY <3>1, <3>2
  <2> HIDE DEF total, new, gain
  <2>6. /\ new.global_reward_index = total /\ new.last_reward_updated = height
        /\ new.glow_emission_rate = r
    BY <2>2, Zenon DEF RewardEmissionsIndex
  <2>7. total = index.global_reward_index + gain
    BY DEF total
  <2> DEFINE e == r * last
             k == r * height
             p == gain * spread
  <2>8. e \in Nat /\ k \in Nat /\ p \in Nat /\ p <= accrued /\ accrued = k - e
    BY <1>1, <2>3, <2>5, MulNat
  <2> HIDE DEF e, k, p
  <2>9. p + e <= k
    BY <2>3, <2>8
  <2>10. gain * spread + r * last <= r * new.last_reward_updated
    BY <2>6, <2>9 DEF p, e, k
  <2>11. r = 0 => new.global_reward_index = index.global_reward_index
    BY <1>1, <2>4, <2>5, <2>6, <2>7
  <2>12. last <= new.last_reward_updated
    BY <1>1, <1>3, <2>6
  <2> QED
    BY <2>5, <2>6, <2>7, <2>10, <2>11, <2>12 DEF new
<1> QED
  BY <1>2, <1>3

-----------------------------------------------------------------------------
(* The inductive invariant for the GLOW.                                   *)

RatesKept ==
    /\ state.sponsor_reward_emission_index.glow_emission_rate <= MaxEmissionRate
    /\ config.lotto_winner_boost_config.max_multiplier <= MaxBoost
    /\ ValidBoost(config.lotto_winner_boost_config)

\* A draw has GLOW once it is awarded, and what the configuration grants.
GlowIsGranted ==
    \A i \in Draws :
        /\ ~lotteries[i].awarded => lotteries[i].glow_prize_buckets = ZeroBuckets
        /\ \A m \in Buckets :
              lotteries[i].glow_prize_buckets[m] <= config.glow_prize_buckets[m]

\* The draws as BoostedBuckets counts them.
GrantedDraws == [i \in Draws |-> [lotteries[i] EXCEPT !.glow_prize_buckets = GrantedGlow(i)]]

\* owed and boosted: the GLOW of the draws that is owed, and granted.
BudgetAt(paid, ss, g, last, owed, boosted) ==
    paid * One + AccruedTotal(ss, g) + One * owed <= MaxEmissionRate * last + One * boosted

GlowBudget ==
    BudgetAt(paid_glow, sponsors, state.sponsor_reward_emission_index.global_reward_index,
             state.sponsor_reward_emission_index.last_reward_updated,
             GlowTotal(lotteries, prizes), BoostTotal(GrantedDraws))

GlowBooks == RatesKept /\ GlowIsGranted /\ GlowBudget

\* What a step may do to the sponsors' index and to the number of the draw.
NewRates(index, rate_given) == [index EXCEPT !.glow_emission_rate = Given(rate_given, @)]

LEMMA IndexSteps ==
    ASSUME TypeOK, [Next]_vars
    PROVE  /\ PrizeExecutions \/ state'.current_lottery = state.current_lottery
           /\ \/ state'.sponsor_reward_emission_index = state.sponsor_reward_emission_index
              \/ state'.sponsor_reward_emission_index = UpdatedSponsorIndex
              \/ \E msg \in ConfigUpdates : state'.sponsor_reward_emission_index =
                    NewRates(state.sponsor_reward_emission_index, msg.sponsor_glow_emission_rate)
<1> DEFINE Goal ==
           /\ PrizeExecutions \/ state'.current_lottery = state.current_lottery
           /\ \/ state'.sponsor_reward_emission_index = state.sponsor_reward_emission_index
              \/ state'.sponsor_reward_emission_index = UpdatedSponsorIndex
              \/ \E msg \in ConfigUpdates : state'.sponsor_reward_emission_index =
                    NewRates(state.sponsor_reward_emission_index, msg.sponsor_glow_emission_rate)
<1> SUFFICES Goal
  OBVIOUS
<1>0. state \in State
  BY DEF TypeOK
<1>1. ASSUME state' = state PROVE Goal
  BY <1>1, Zenon
<1>2. ASSUME NEW u, NEW amount, NEW o, NEW requested, deposit(u, amount, o, requested)
      PROVE  Goal
  <2>1. \E a : state' = [state EXCEPT !.operator_reward_emission_index = UpdatedOperatorIndex,
                                      !.total_tickets = a]
    BY <1>2, Zenon DEF deposit
  <2> QED
    BY <1>0, <2>1, Zenon DEF State
<1>3. ASSUME NEW u, NEW amount, NEW instant, execute_withdraw(u, amount, instant)
      PROVE  Goal
  <2>1. \E a, b : state' = [state EXCEPT !.operator_reward_emission_index =
                 IF operator_registered(depositors[u]) THEN UpdatedOperatorIndex ELSE @,
                               !.total_tickets = a, !.total_reserve = b]
    BY <1>3, Zenon DEF execute_withdraw
  <2> DEFINE index == IF operator_registered(depositors[u]) THEN UpdatedOperatorIndex
                      ELSE state.operator_reward_emission_index
  <2>2. \E a, b : state' = [state EXCEPT !.operator_reward_emission_index = index,
                               !.total_tickets = a, !.total_reserve = b]
    BY <2>1, Zenon
  <2> HIDE DEF index
  <2>3. /\ state'.sponsor_reward_emission_index = state.sponsor_reward_emission_index
        /\ state'.current_lottery = state.current_lottery
    BY <1>0, <2>2, Zenon DEF State
  <2> QED
    BY <2>3, Zenon
<1>4. ASSUME NEW a, state' = [state EXCEPT !.sponsor_reward_emission_index = UpdatedSponsorIndex,
                                           !.prize_buckets = a]
      PROVE  Goal
  BY <1>0, <1>4, Zenon DEF State
<1>5. ASSUME state' = [state EXCEPT !.sponsor_reward_emission_index = UpdatedSponsorIndex]
      PROVE  Goal
  BY <1>0, <1>5, Zenon DEF State
<1>6. ASSUME state' = UpdatedIndexes PROVE Goal
  BY <1>0, <1>6, Zenon DEF State, UpdatedIndexes
<1>7. ASSUME execute_epoch_ops PROVE Goal
  <2>1. \E a : state' = [UpdatedIndexes EXCEPT !.next_epoch = a, !.total_reserve = 0]
    BY <1>7, Zenon DEF execute_epoch_ops
  <2> QED
    BY <1>0, <2>1, Zenon DEF State, UpdatedIndexes
<1>8. ASSUME execute_lottery PROVE Goal
  <2>1. \E a, b, c : state' = [state EXCEPT !.next_lottery_exec_time = a, !.prize_buckets = b,
                                  !.last_lottery_execution_aust_exchange_rate = c]
    BY <1>8, Zenon DEF execute_lottery
  <2> QED
    BY <1>0, <2>1, Zenon DEF State
<1>9. ASSUME PrizeExecutions PROVE Goal
  <2>1. \/ state' = state
        \/ \E number_winners : state' = StateAfterAward(number_winners)
    BY <1>9, ZenonT(30) DEF PrizeExecutions, execute_prize
  <2>2. ASSUME NEW number_winners, state' = StateAfterAward(number_winners) PROVE Goal
    <3>1. \E a, b, c, d, e : state' = [state EXCEPT !.total_reserve = a, !.prize_buckets = b,
              !.current_lottery = c, !.next_lottery_time = d, !.next_lottery_exec_time = e]
      BY <2>2, Zenon DEF StateAfterAward
    <3> QED
      BY <1>0, <1>9, <3>1, Zenon DEF State
  <2> QED
    BY <1>1, <2>1, <2>2, Zenon
<1>10. ASSUME NEW a, NEW msg \in ConfigUpdates, execute_update_config(a, msg) PROVE Goal
  <2>1. state' = [state EXCEPT
            !.operator_reward_emission_index.glow_emission_rate =
                Given(msg.operator_glow_emission_rate, @),
            !.sponsor_reward_emission_index.glow_emission_rate =
                Given(msg.sponsor_glow_emission_rate, @)]
    BY <1>10, Zenon DEF execute_update_config
  <2>2. /\ state'.sponsor_reward_emission_index =
             NewRates(state.sponsor_reward_emission_index, msg.sponsor_glow_emission_rate)
        /\ state'.current_lottery = state.current_lottery
    BY <1>0, <2>1, Zenon DEF State, NewRates
  <2> QED
    BY <2>2, Zenon
<1>11. CASE Deposits \/ Gifts
  BY <1>2, <1>11, Zenon DEF Deposits, Gifts, execute_deposit, execute_gift
<1>12. CASE Withdrawals
  BY <1>3, <1>12, Zenon DEF Withdrawals
<1>13. CASE Sponsorships
  <2>1. \/ \E u, amount : SponsorDeposit(u, amount)
        \/ \E u, amount, d : SponsorAward(u, amount, d)
    BY <1>13, Zenon DEF Sponsorships, execute_sponsor
  <2>2. \/ state' = [state EXCEPT !.sponsor_reward_emission_index = UpdatedSponsorIndex]
        \/ \E a : state' = [state EXCEPT !.sponsor_reward_emission_index = UpdatedSponsorIndex,
                                         !.prize_buckets = a]
    BY <2>1, Zenon DEF SponsorDeposit, SponsorAward
  <2> QED
    BY <1>4, <1>5, <2>2, Zenon
<1>14. CASE SponsorWithdrawals
  BY <1>5, <1>14, Zenon DEF SponsorWithdrawals, execute_sponsor_withdraw
<1>15. CASE RewardClaims
  BY <1>6, <1>15, Zenon DEF RewardClaims, execute_claim_rewards
<1>16. CASE Configurations
  <2>1. \/ \E a : \E msg \in ConfigUpdates : execute_update_config(a, msg)
        \/ state' = state
    BY <1>16, Zenon DEF Configurations, execute_update_lottery_config, execute_register_contracts
  <2> QED
    BY <1>1, <1>10, <2>1, Zenon
<1>17. CASE TicketClaims \/ UnbondedClaims \/ PrizeClaims \/ migrate_old_depositors
              \/ Clock \/ UNCHANGED vars
  <2>1. state' = state
    <3>1. CASE TicketClaims \/ UnbondedClaims \/ migrate_old_depositors \/ Clock \/ UNCHANGED vars
      BY <3>1, Zenon DEF TicketClaims, execute_claim_tickets, UnbondedClaims,
         execute_claim_unbonded, migrate_old_depositors, Clock, NextBlock, vars, storage
    <3>2. CASE PrizeClaims
      BY <3>2, ZenonT(30) DEF PrizeClaims, execute_claim_lottery
    <3> QED
      BY <1>17, <3>1, <3>2
  <2> QED
    BY <1>1, <2>1
<1> HIDE DEF Goal
<1> QED
  BY <1>7, <1>8, <1>9, <1>11, <1>12, <1>13, <1>14, <1>15, <1>16, <1>17, Zenon DEF Next

\* The boost changes only with execute_update_config, and the granted GLOW never.
LEMMA BoostSteps ==
    ASSUME TypeOK, [Next]_vars
    PROVE  /\ \/ config'.lotto_winner_boost_config = config.lotto_winner_boost_config
              \/ \E msg \in ConfigUpdates :
                   /\ msg.lotto_winner_boost_config # None
                   /\ config'.lotto_winner_boost_config = msg.lotto_winner_boost_config
                   /\ ValidBoost(config'.lotto_winner_boost_config)
           /\ config'.glow_prize_buckets = config.glow_prize_buckets
<1>0. config \in Config
  BY DEF TypeOK
<1>1. CASE config' = config
  BY <1>1
<1>2. ASSUME NEW a, NEW msg \in ConfigUpdates, execute_update_config(a, msg)
      PROVE  /\ \/ config'.lotto_winner_boost_config = config.lotto_winner_boost_config
                \/ /\ msg.lotto_winner_boost_config # None
                   /\ config'.lotto_winner_boost_config = msg.lotto_winner_boost_config
                   /\ ValidBoost(config'.lotto_winner_boost_config)
             /\ config'.glow_prize_buckets = config.glow_prize_buckets
  <2>1. \E a1, a2, a3, a4, a5, a6, a7, a8 : config' = [config EXCEPT
          !.owner = a1, !.reserve_factor = a2, !.instant_withdrawal_fee = a3,
          !.unbonding_period = a4, !.epoch_interval = a5, !.max_holders = a8,
          !.max_tickets_per_depositor = a6, !.paused = a7,
          !.lotto_winner_boost_config = Given(msg.lotto_winner_boost_config, @)]
    BY <1>2, Zenon DEF execute_update_config
  <2>2. /\ config'.lotto_winner_boost_config
               = Given(msg.lotto_winner_boost_config, config.lotto_winner_boost_config)
        /\ config'.glow_prize_buckets = config.glow_prize_buckets
    BY <1>0, <2>1, ZenonT(60) DEF Config
  <2>3. msg.lotto_winner_boost_config # None => ValidBoost(msg.lotto_winner_boost_config)
    BY <1>2, Zenon DEF execute_update_config
  <2> QED
    BY <2>2, <2>3, Zenon DEF Given
<1>3. ASSUME NEW a, execute_register_contracts(a)
      PROVE  /\ config'.lotto_winner_boost_config = config.lotto_winner_boost_config
             /\ config'.glow_prize_buckets = config.glow_prize_buckets
  <2>1. config' = [config EXCEPT !.registered = TRUE]
    BY <1>3, Zenon DEF execute_register_contracts
  <2> QED
    BY <1>0, <2>1, Zenon DEF Config
<1>4. ASSUME NEW a, NEW msg, execute_update_lottery_config(a, msg)
      PROVE  /\ config'.lotto_winner_boost_config = config.lotto_winner_boost_config
             /\ config'.glow_prize_buckets = config.glow_prize_buckets
  <2>1. \E a1, a2, a3, a4, a5 : config' = [config EXCEPT !.lottery_interval = a1,
          !.block_time = a2, !.round_delta = a3, !.ticket_price = a4, !.prize_distribution = a5]
    BY <1>4, Zenon DEF execute_update_lottery_config
  <2> QED
    BY <1>0, <2>1, Zenon DEF Config
<1>5. CASE Configurations
  <2>1. \/ \E a : \E msg \in ConfigUpdates : execute_update_config(a, msg)
        \/ \E a : execute_register_contracts(a)
        \/ \E a, msg : execute_update_lottery_config(a, msg)
    BY <1>5, Zenon DEF Configurations
  <2> QED
    BY <1>2, <1>3, <1>4, <2>1, Zenon
<1>6. CASE migrate_old_depositors
  BY <1>6, ForgettingKeepsSettings
<1>7. ASSUME ~Configurations, ~migrate_old_depositors PROVE config' = config
  BY <1>7, ConfigKept
<1> QED
  BY <1>1, <1>5, <1>6, <1>7, Zenon

\* The rates that a step stores.
LEMMA RatesStep ==
    ASSUME TypeOK, RatesKept, [Next]_vars
    PROVE  RatesKept'
<1>1. state.sponsor_reward_emission_index \in RewardEmissionsIndex
  BY DEF TypeOK, State
<1>2. state'.sponsor_reward_emission_index.glow_emission_rate <= MaxEmissionRate
  <2>1. CASE state'.sponsor_reward_emission_index = state.sponsor_reward_emission_index
    BY <2>1 DEF RatesKept
  <2>2. CASE state'.sponsor_reward_emission_index = UpdatedSponsorIndex
    <3>1. pool.total_sponsor_lottery_deposits \in Nat /\ block.height \in Nat
      BY FieldTypes DEF MoneyTyped, ScheduleTyped
    <3>2. UpdatedSponsorIndex.glow_emission_rate
            = state.sponsor_reward_emission_index.glow_emission_rate
      BY <1>1, <3>1, IndexGain DEF UpdatedSponsorIndex
    <3> QED
      BY <2>2, <3>2 DEF RatesKept
  <2>3. ASSUME NEW msg \in ConfigUpdates, state'.sponsor_reward_emission_index =
                  NewRates(state.sponsor_reward_emission_index, msg.sponsor_glow_emission_rate)
        PROVE  state'.sponsor_reward_emission_index.glow_emission_rate <= MaxEmissionRate
    <3>1. msg.sponsor_glow_emission_rate # None
             => msg.sponsor_glow_emission_rate <= MaxEmissionRate
      BY LargestAssumption
    <3>2. Given(msg.sponsor_glow_emission_rate,
                state.sponsor_reward_emission_index.glow_emission_rate) <= MaxEmissionRate
      BY <3>1 DEF Given, RatesKept
    <3>3. NewRates(state.sponsor_reward_emission_index,
                   msg.sponsor_glow_emission_rate).glow_emission_rate
            = Given(msg.sponsor_glow_emission_rate,
                    state.sponsor_reward_emission_index.glow_emission_rate)
      BY <1>1, Zenon DEF NewRates, RewardEmissionsIndex
    <3> QED
      BY <2>3, <3>2, <3>3
  <2> QED
    BY <2>1, <2>2, <2>3, IndexSteps, Zenon
<1>3. /\ config'.lotto_winner_boost_config.max_multiplier <= MaxBoost
      /\ ValidBoost(config'.lotto_winner_boost_config)
  <2>1. CASE config'.lotto_winner_boost_config = config.lotto_winner_boost_config
    BY <2>1 DEF RatesKept
  <2>2. CASE \E msg \in ConfigUpdates :
                /\ msg.lotto_winner_boost_config # None
                /\ config'.lotto_winner_boost_config = msg.lotto_winner_boost_config
                /\ ValidBoost(config'.lotto_winner_boost_config)
    BY <2>2, LargestAssumption, Zenon
  <2> QED
    BY <2>1, <2>2, BoostSteps, Zenon
<1> QED
  BY <1>2, <1>3 DEF RatesKept

-----------------------------------------------------------------------------
(* The budget along the steps of sponsors.                                 *)

LEMMA LargestRate == MaxEmissionRate \in Nat
BY LargestAssumption

\* What is emitted at a rate is no more than at a higher one.
LEMMA RateBound ==
    ASSUME NEW r \in Nat, NEW s \in Nat, r <= s, NEW first \in Nat, NEW last \in Nat,
           first <= last, NEW x \in Nat, x + r * first <= r * last
    PROVE  x + s * first <= s * last
<1> DEFINE k == last - first
<1>1. k \in Nat /\ last = first + k
  OBVIOUS
<1> HIDE DEF k
<1>2. r * last = r * first + r * k /\ s * last = s * first + s * k
  BY <1>1
<1>3. r * k <= s * k
  BY <1>1, MulMono
<1>4. r * first \in Nat /\ s * first \in Nat /\ r * k \in Nat /\ s * k \in Nat
  BY <1>1, MulNat
<1> DEFINE a == r * first
           b == s * first
           c == r * k
           d == s * k
<1>5. /\ a \in Nat /\ b \in Nat /\ c \in Nat /\ d \in Nat /\ c <= d
      /\ x + a <= a + c
  BY <1>2, <1>3, <1>4
<1> HIDE DEF a, b, c, d
<1>6. x + b <= b + d
  BY <1>5
<1> QED
  BY <1>2, <1>6 DEF b, d

LEMMA BudgetTyped ==
    ASSUME IInv
    PROVE  /\ SponsorsAt(sponsors, state.sponsor_reward_emission_index.global_reward_index)
           /\ state.sponsor_reward_emission_index \in RewardEmissionsIndex
           /\ DrawsTyped(lotteries, prizes)
           /\ paid_glow \in Nat
<1>1. TypeOK /\ IndexesBehind
  BY DEF IInv
<1>2. state.sponsor_reward_emission_index \in RewardEmissionsIndex
  BY <1>1 DEF TypeOK, State
<1>3. SponsorsAt(sponsors, state.sponsor_reward_emission_index.global_reward_index)
  BY <1>1, <1>2 DEF TypeOK, IndexesBehind, SponsorsAt, RewardEmissionsIndex
<1> QED
  BY <1>1, <1>2, <1>3 DEF TypeOK, DrawsTyped, Draws

\* What the draws are granted is what they have, unless they are forgotten.
LEMMA GrantedTyped ==
    ASSUME TypeOK
    PROVE  /\ DrawsTyped(GrantedDraws, prizes)
           /\ \A i \in Draws : GrantedDraws[i].glow_prize_buckets = GrantedGlow(i)
           /\ \A i \in Draws : GrantedDraws[i].awarded = lotteries[i].awarded
           /\ \A i \in Draws : ~Forgotten(i) => GrantedDraws[i] = lotteries[i]
<1>1. /\ lotteries \in [Draws -> LotteryInfo] /\ prizes \in [Draws -> [Users -> PrizeInfo]]
      /\ config.glow_prize_buckets \in [Buckets -> Nat]
  BY DEF TypeOK, Draws, Config
<1>2. ASSUME NEW i \in Draws
      PROVE  /\ GrantedDraws[i] \in LotteryInfo
             /\ GrantedDraws[i].glow_prize_buckets = GrantedGlow(i)
             /\ GrantedDraws[i].awarded = lotteries[i].awarded
             /\ ~Forgotten(i) => GrantedDraws[i] = lotteries[i]
  <2> DEFINE l == lotteries[i]
             glow == GrantedGlow(i)
  <2>1. GrantedDraws[i] = [l EXCEPT !.glow_prize_buckets = glow]
    BY Zenon DEF GrantedDraws
  <2>2. l \in LotteryInfo
    BY <1>1
  <2>3. l.glow_prize_buckets \in [Buckets -> Nat]
    BY <2>2 DEF LotteryInfo
  <2>4. glow \in [Buckets -> Nat] /\ (~Forgotten(i) => glow = l.glow_prize_buckets)
    BY <1>1, <2>3 DEF GrantedGlow
  <2> HIDE DEF l, glow
  <2>5. /\ [l EXCEPT !.glow_prize_buckets = glow] \in LotteryInfo
        /\ [l EXCEPT !.glow_prize_buckets = glow].glow_prize_buckets = glow
        /\ [l EXCEPT !.glow_prize_buckets = glow].awarded = l.awarded
        /\ [l EXCEPT !.glow_prize_buckets = l.glow_prize_buckets] = l
    BY <2>2, <2>4, Zenon DEF LotteryInfo
  <2> QED
    BY <2>1, <2>4, <2>5 DEF l, glow
<1>3. DOMAIN GrantedDraws = Draws /\ GrantedDraws = [i \in Draws |-> GrantedDraws[i]]
  BY Zenon DEF GrantedDraws
<1>4. GrantedDraws \in [Draws -> LotteryInfo]
  BY <1>2, <1>3
<1> QED
  BY <1>1, <1>2, <1>4 DEF DrawsTyped

LEMMA GrantedTypedNext ==
    ASSUME TypeOK'
    PROVE  /\ DrawsTyped(GrantedDraws', prizes')
           /\ \A i \in Draws : GrantedDraws'[i].glow_prize_buckets = GrantedGlow(i)'
           /\ \A i \in Draws : GrantedDraws'[i].awarded = lotteries'[i].awarded
           /\ \A i \in Draws : ~Forgotten(i)' => GrantedDraws'[i] = lotteries'[i]
<1>1. (TypeOK => /\ DrawsTyped(GrantedDraws, prizes)
                 /\ \A i \in Draws : GrantedDraws[i].glow_prize_buckets = GrantedGlow(i)
                 /\ \A i \in Draws : GrantedDraws[i].awarded = lotteries[i].awarded
                 /\ \A i \in Draws : ~Forgotten(i) => GrantedDraws[i] = lotteries[i])'
  BY GrantedTyped, PTL
<1> QED
  BY <1>1

\* They change with the draws, and with the number of the current one.
LEMMA GrantedFrame ==
    ASSUME lotteries' = lotteries, state'.current_lottery = state.current_lottery,
           config'.glow_prize_buckets = config.glow_prize_buckets
    PROVE  GrantedDraws' = GrantedDraws /\ (GlowIsGranted => GlowIsGranted')
BY Zenon DEF GrantedDraws, GrantedGlow, Forgotten, GlowIsGranted

LEMMA GlowTotalsTyped ==
    ASSUME TypeOK
    PROVE  GlowTotal(lotteries, prizes) \in Nat /\ BoostTotal(GrantedDraws) \in Nat
<1>1. DrawsTyped(lotteries, prizes)
  BY DEF TypeOK, DrawsTyped, Draws
<1> QED
  BY <1>1, GrantedTyped, GlowTotalTyped

\* Bringing the index up to date keeps the budget: the sponsors get no more
\* than was emitted since the last update.
LEMMA UpdatedBudget ==
    ASSUME IInv, Books, RatesKept, GlowBudget
    PROVE  /\ BudgetAt(paid_glow, sponsors, UpdatedSponsorIndex.global_reward_index,
                       UpdatedSponsorIndex.last_reward_updated,
                       GlowTotal(lotteries, prizes), BoostTotal(GrantedDraws))
           /\ SponsorsAt(sponsors, UpdatedSponsorIndex.global_reward_index)
<1> DEFINE index == state.sponsor_reward_emission_index
           g == index.global_reward_index
           spread == pool.total_sponsor_lottery_deposits
           new == UpdatedSponsorIndex
<1>1. /\ SponsorsAt(sponsors, g) /\ index \in RewardEmissionsIndex
      /\ DrawsTyped(lotteries, prizes) /\ paid_glow \in Nat
  BY BudgetTyped
<1>2. spread \in Nat /\ block.height \in Nat
  BY FieldTypes DEF IInv, MoneyTyped, ScheduleTyped
<1>3. spread = DepositsTotal(sponsors)
  BY DEF Books
<1>4. new = compute_global_reward(index, spread, block.height)
  BY DEF UpdatedSponsorIndex
<1>5. index.glow_emission_rate <= MaxEmissionRate
  BY DEF RatesKept
<1> HIDE DEF index, spread, new
<1>6. PICK d \in Nat :
        /\ new.global_reward_index = g + d
        /\ d * spread + MaxEmissionRate * index.last_reward_updated
             <= MaxEmissionRate * new.last_reward_updated
  <2>1. PICK d \in Nat :
          /\ new.global_reward_index = g + d
          /\ d * spread + index.glow_emission_rate * index.last_reward_updated
               <= index.glow_emission_rate * new.last_reward_updated
    BY <1>1, <1>2, <1>4, IndexGain
  <2>2. index.last_reward_updated <= new.last_reward_updated
    BY <1>1, <1>2, <1>4, IndexGain
  <2>3. new \in RewardEmissionsIndex
    BY UpdatedIndexTypes DEF IInv, new
  <2>4. /\ index.last_reward_updated \in Nat /\ new.last_reward_updated \in Nat
        /\ index.glow_emission_rate \in Nat /\ d * spread \in Nat
    BY <1>1, <1>2, <2>3, MulNat DEF RewardEmissionsIndex
  <2>5. d * spread + MaxEmissionRate * index.last_reward_updated
          <= MaxEmissionRate * new.last_reward_updated
    BY <1>5, <2>1, <2>4, <2>2, RateBound, LargestRate
  <2> QED
    BY <2>1, <2>5
<1>7. g \in Nat
  BY <1>1 DEF RewardEmissionsIndex
<1> HIDE DEF g
<1>8. /\ AccruedTotal(sponsors, g + d) = AccruedTotal(sponsors, g) + d * DepositsTotal(sponsors)
      /\ SponsorsAt(sponsors, g + d)
  BY <1>1, AccruedGrows
<1> DEFINE p == paid_glow * One
           a == AccruedTotal(sponsors, g)
           o == One * GlowTotal(lotteries, prizes)
           b == One * BoostTotal(GrantedDraws)
           e == MaxEmissionRate * index.last_reward_updated
           k == MaxEmissionRate * new.last_reward_updated
           x == d * spread
<1>9. p + a + o <= e + b
  BY DEF GlowBudget, BudgetAt, g, index
<1>10. p \in Nat /\ a \in Nat /\ o \in Nat /\ b \in Nat /\ x \in Nat
  <2>1. GlowTotal(lotteries, prizes) \in Nat /\ BoostTotal(GrantedDraws) \in Nat
    BY GlowTotalsTyped DEF IInv
  <2>2. a \in Nat
    BY <1>1, AccruedTyped
  <2> QED
    BY <1>1, <1>2, <2>1, <2>2, MulNat, OneAssumption
<1>11. e \in Nat /\ k \in Nat
  <2>1. index.last_reward_updated \in Nat /\ MaxEmissionRate \in Nat
    BY <1>1, LargestRate DEF RewardEmissionsIndex
  <2>2. new \in RewardEmissionsIndex
    BY UpdatedIndexTypes DEF IInv, new
  <2>3. new.last_reward_updated \in Nat
    BY <2>2 DEF RewardEmissionsIndex
  <2> QED
    BY <2>1, <2>3, MulNat
<1>12. x + e <= k
  BY <1>6
<1>13. AccruedTotal(sponsors, g + d) = a + x
  BY <1>3, <1>8
<1> HIDE DEF p, a, o, b, e, k, x
<1>14. p + (a + x) + o <= k + b
  BY <1>9, <1>10, <1>11, <1>12
<1>15. BudgetAt(paid_glow, sponsors, new.global_reward_index, new.last_reward_updated,
                GlowTotal(lotteries, prizes), BoostTotal(GrantedDraws))
  BY <1>6, <1>13, <1>14 DEF BudgetAt, p, o, b, k
<1> QED
  BY <1>6, <1>8, <1>15 DEF new

\* A step that changes the record of one sponsor.
LEMMA OneSponsorAccrued ==
    ASSUME NEW ss, NEW rs, NEW g, NEW u \in Users, SponsorsAt(ss, g), SponsorsAt(rs, g),
           \A v \in Users \ {u} : rs[v] = ss[v]
    PROVE  AccruedTotal(ss, g) + AccruedIn(rs, g)[u] = AccruedTotal(rs, g) + AccruedIn(ss, g)[u]
<1> DEFINE f == AccruedIn(ss, g)
           h == AccruedIn(rs, g)
<1>1. /\ \A v \in Users : f[v] \in Nat
      /\ \A v \in Users : h[v] \in Nat
      /\ SumFunctionOnSet(f, Users) \in Nat
  BY AccruedTyped DEF AccruedTotal
<1>2. \A v \in Users \ {u} : h[v] = f[v]
  BY Zenon DEF AccruedIn
<1> HIDE DEF f, h
<1>3. /\ \A v \in Users : f[v] \in Int
      /\ \A v \in Users : h[v] \in Int
  BY <1>1
<1>4. SumFunctionOnSet(h, Users) = SumFunctionOnSet(f, Users) - f[u] + h[u]
  BY <1>2, <1>3, UserUpdated, Zenon
<1>5. SumFunctionOnSet(f, Users) + h[u] = SumFunctionOnSet(h, Users) + f[u]
  BY <1>1, <1>4
<1> QED
  BY <1>5 DEF AccruedTotal, f, h

\* A sponsor's record once the index is applied to it holds what was accrued.
LEMMA RewardsApplied ==
    ASSUME IInv, NEW u \in Users
    PROVE  /\ RewardedSponsor(UpdatedSponsorIndex, u) \in SponsorInfo
           /\ RewardedSponsor(UpdatedSponsorIndex, u).pending_rewards
                = AccruedIn(sponsors, UpdatedSponsorIndex.global_reward_index)[u]
           /\ RewardedSponsor(UpdatedSponsorIndex, u).reward_index
                = UpdatedSponsorIndex.global_reward_index
           /\ RewardedSponsor(UpdatedSponsorIndex, u).lottery_deposit
                = sponsors[u].lottery_deposit
<1> DEFINE g == UpdatedSponsorIndex.global_reward_index
           new == RewardedSponsor(UpdatedSponsorIndex, u)
           pending == AccruedIn(sponsors, g)[u]
<1>1. TypeOK /\ IndexesBehind
  BY DEF IInv
<1>2. new \in SponsorInfo
  <2>1. sponsors[u].reward_index <= UpdatedSponsorIndex.global_reward_index
    BY <1>1, IndexesStayBehind
  <2> QED
    BY <1>1, <2>1, UpdatedIndexTypes, RewardedSponsorType
<1>3. pending = sponsors[u].pending_rewards
                  + sponsors[u].lottery_deposit * (g - sponsors[u].reward_index)
  BY Zenon DEF AccruedIn
<1>4. new = [sponsors[u] EXCEPT
               !.pending_rewards = @ + sponsors[u].lottery_deposit * (g - sponsors[u].reward_index),
               !.reward_index = g]
  BY Zenon DEF RewardedSponsor, compute_reward
<1>5. new = [sponsors[u] EXCEPT !.pending_rewards = pending, !.reward_index = g]
  BY <1>3, <1>4
<1>6. sponsors[u] \in SponsorInfo
  BY <1>1 DEF TypeOK
<1> HIDE DEF g, new, pending
<1>7. new.pending_rewards = pending /\ new.reward_index = g
        /\ new.lottery_deposit = sponsors[u].lottery_deposit
  BY <1>5, <1>6, Zenon DEF SponsorInfo
<1> QED
  BY <1>2, <1>7 DEF g, new, pending

LEMMA BudgetNat ==
    ASSUME IInv
    PROVE  /\ paid_glow * One + AccruedTotal(sponsors,
                state.sponsor_reward_emission_index.global_reward_index) \in Nat
           /\ MaxEmissionRate * state.sponsor_reward_emission_index.last_reward_updated \in Nat
<1>1. /\ SponsorsAt(sponsors, state.sponsor_reward_emission_index.global_reward_index)
      /\ state.sponsor_reward_emission_index \in RewardEmissionsIndex /\ paid_glow \in Nat
  BY BudgetTyped
<1>2. AccruedTotal(sponsors, state.sponsor_reward_emission_index.global_reward_index) \in Nat
  BY <1>1, AccruedTyped
<1>3. paid_glow * One \in Nat
  BY <1>1, MulNat, OneAssumption
<1>4. /\ MaxEmissionRate \in Nat
      /\ state.sponsor_reward_emission_index.last_reward_updated \in Nat
  BY <1>1, LargestRate DEF RewardEmissionsIndex
<1> QED
  BY <1>2, <1>3, <1>4, MulNat

LEMMA BudgetTypedNext ==
    ASSUME IInv'
    PROVE  /\ SponsorsAt(sponsors', state'.sponsor_reward_emission_index.global_reward_index)
           /\ state'.sponsor_reward_emission_index \in RewardEmissionsIndex
           /\ DrawsTyped(lotteries', prizes')
           /\ paid_glow' \in Nat
<1>1. TypeOK' /\ IndexesBehind'
  BY DEF IInv
<1>2. state'.sponsor_reward_emission_index \in RewardEmissionsIndex
  BY <1>1 DEF TypeOK, State
<1>3. SponsorsAt(sponsors', state'.sponsor_reward_emission_index.global_reward_index)
  BY <1>1, <1>2 DEF TypeOK, IndexesBehind, SponsorsAt, RewardEmissionsIndex
<1> QED
  BY <1>1, <1>2, <1>3 DEF TypeOK, DrawsTyped, Draws

\* What is paid to a sponsor is taken from what the sponsor accrued.
LEMMA SponsorBudget ==
    ASSUME IInv, IInv', Books, RatesKept, GlowBudget, NEW u \in Users,
           state'.sponsor_reward_emission_index = UpdatedSponsorIndex,
           UNCHANGED <<lotteries, prizes, GrantedDraws>>,
           \A v \in Users \ {u} : sponsors'[v] = sponsors[v],
           paid_glow' * One + AccruedIn(sponsors', UpdatedSponsorIndex.global_reward_index)[u]
             <= paid_glow * One + AccruedIn(sponsors, UpdatedSponsorIndex.global_reward_index)[u]
    PROVE  GlowBudget'
<1> DEFINE g == UpdatedSponsorIndex.global_reward_index
           ss == sponsors
           rs == sponsors'
           p == paid_glow * One
           q == paid_glow' * One
           x == AccruedIn(ss, g)[u]
           y == AccruedIn(rs, g)[u]
           a == AccruedTotal(ss, g)
           b == AccruedTotal(rs, g)
           o == One * GlowTotal(lotteries, prizes)
           k == MaxEmissionRate * UpdatedSponsorIndex.last_reward_updated
                  + One * BoostTotal(GrantedDraws)
<1>1. SponsorsAt(ss, g) /\ SponsorsAt(rs, g) /\ paid_glow \in Nat /\ paid_glow' \in Nat
  BY UpdatedBudget, BudgetTyped, BudgetTypedNext
<1>2. p + a + o <= k
  BY UpdatedBudget DEF BudgetAt
<1>3. \A v \in Users \ {u} : rs[v] = ss[v]
  OBVIOUS
<1>4. q + y <= p + x
  OBVIOUS
<1>5. o \in Nat /\ k \in Nat
  <2>1. GlowTotal(lotteries, prizes) \in Nat /\ BoostTotal(GrantedDraws) \in Nat
    BY GlowTotalsTyped DEF IInv
  <2>2. UpdatedSponsorIndex \in RewardEmissionsIndex
    BY UpdatedIndexTypes DEF IInv
  <2>3. UpdatedSponsorIndex.last_reward_updated \in Nat /\ MaxEmissionRate \in Nat
    BY <2>2, LargestRate DEF RewardEmissionsIndex
  <2>4. MaxEmissionRate * UpdatedSponsorIndex.last_reward_updated \in Nat
    BY <2>3, MulNat
  <2> QED
    BY <2>1, <2>4, MulNat, OneAssumption
<1>6. p \in Nat /\ q \in Nat
  BY <1>1, MulNat, OneAssumption
<1> HIDE DEF g, ss, rs, p, q, x, y, a, b, o, k
<1>7. a + y = b + x
  BY <1>1, <1>3, OneSponsorAccrued DEF a, b, x, y
<1>8. a \in Nat /\ b \in Nat /\ x \in Nat /\ y \in Nat
  BY <1>1, AccruedTyped DEF a, b, x, y
<1>9. q + b + o <= k
  BY <1>2, <1>4, <1>5, <1>6, <1>7, <1>8
<1> QED
  BY <1>9 DEF GlowBudget, BudgetAt, q, b, o, k, g, rs

\* A sponsor's deposit changes once its rewards are up to date.
LEMMA SponsorChangesBudget ==
    ASSUME IInv, IInv', Books, RatesKept, GlowBudget, NEW u \in Users, NEW deposited,
           state'.sponsor_reward_emission_index = UpdatedSponsorIndex,
           UNCHANGED <<lotteries, prizes, paid_glow, GrantedDraws>>,
           sponsors' = [sponsors EXCEPT ![u] = SponsorWithDeposit(u, deposited)]
    PROVE  GlowBudget'
<1> DEFINE g == UpdatedSponsorIndex.global_reward_index
           new == SponsorWithDeposit(u, deposited)
           info == RewardedSponsor(UpdatedSponsorIndex, u)
           x == AccruedIn(sponsors, g)[u]
<1>1. /\ info \in SponsorInfo /\ info.pending_rewards = x /\ info.reward_index = g
  BY RewardsApplied
<1>2. new = [info EXCEPT !.lottery_deposit = deposited]
  BY DEF SponsorWithDeposit
<1>3. sponsors \in [Users -> SponsorInfo] /\ sponsors' \in [Users -> SponsorInfo]
  BY DEF IInv, TypeOK
<1>4. SponsorsAt(sponsors, g) /\ SponsorsAt(sponsors', g) /\ paid_glow \in Nat
  BY UpdatedBudget, BudgetTyped, BudgetTypedNext
<1> HIDE DEF info
<1>5. new.pending_rewards = x /\ new.reward_index = g /\ new.lottery_deposit = deposited
  BY <1>1, <1>2, Zenon DEF SponsorInfo
<1> HIDE DEF new
<1>6. sponsors'[u] = new /\ \A v \in Users \ {u} : sponsors'[v] = sponsors[v]
  BY <1>3, Zenon DEF new
<1>7. AccruedIn(sponsors', g)[u] = sponsors'[u].pending_rewards
              + sponsors'[u].lottery_deposit * (g - sponsors'[u].reward_index)
  BY Zenon DEF AccruedIn
<1>8. x \in Nat
  BY <1>4, AccruedTyped
<1>9. sponsors'[u].lottery_deposit \in Nat /\ g \in Nat
  BY <1>3, <1>4 DEF SponsorInfo, SponsorsAt
<1> HIDE DEF x
<1>10. AccruedIn(sponsors', g)[u] = x
  <2>1. sponsors'[u].lottery_deposit * 0 = 0
    BY <1>9
  <2>2. g - sponsors'[u].reward_index = 0
    BY <1>5, <1>6, <1>9
  <2> QED
    BY <1>5, <1>6, <1>7, <1>8, <2>1, <2>2
<1>11. paid_glow' * One + AccruedIn(sponsors', g)[u] <= paid_glow * One + x
  <2>1. paid_glow * One \in Nat /\ paid_glow' = paid_glow
    BY <1>4, MulNat, OneAssumption
  <2> QED
    BY <1>8, <1>10, <2>1
<1> QED
  BY <1>6, <1>11, SponsorBudget DEF x

\* Steps that leave the sponsors and the draws alone.
BudgetKept == UNCHANGED <<lotteries, prizes, sponsors, paid_glow>>

LEMMA BudgetFrame ==
    ASSUME IInv, Books, RatesKept, GlowBudget, BudgetKept, GrantedDraws' = GrantedDraws,
           [Next]_vars
    PROVE  GlowBudget'
<1> DEFINE index == state.sponsor_reward_emission_index
           new == state'.sponsor_reward_emission_index
           owed == GlowTotal(lotteries, prizes)
           boosted == BoostTotal(GrantedDraws)
<1>1. BudgetAt(paid_glow, sponsors, index.global_reward_index, index.last_reward_updated,
               owed, boosted)
  BY DEF GlowBudget
<1>2. BudgetAt(paid_glow, sponsors, new.global_reward_index, new.last_reward_updated,
               owed, boosted)
  <2>1. CASE new = index
    BY <1>1, <2>1
  <2>2. CASE new = UpdatedSponsorIndex
    BY <2>2, UpdatedBudget
  <2>3. ASSUME NEW msg \in ConfigUpdates, new = NewRates(index, msg.sponsor_glow_emission_rate)
        PROVE  /\ new.global_reward_index = index.global_reward_index
               /\ new.last_reward_updated = index.last_reward_updated
    <3>1. index \in RewardEmissionsIndex
      BY BudgetTyped
    <3> HIDE DEF index, new
    <3> QED
      BY <2>3, <3>1, Zenon DEF NewRates, RewardEmissionsIndex
  <2>4. \/ new = index
        \/ new = UpdatedSponsorIndex
        \/ \E msg \in ConfigUpdates : new = NewRates(index, msg.sponsor_glow_emission_rate)
    BY IndexSteps DEF IInv
  <2> QED
    BY <1>1, <2>1, <2>2, <2>3, <2>4, Zenon
<1> QED
  BY <1>2 DEF GlowBudget, BudgetKept

\* A claim pays whole GLOW, rounded down, and forgets the rest.
LEMMA ClaimRewardsBudget ==
    ASSUME IInv, IInv', Books, RatesKept, GlowBudget, NEW u \in Users,
           execute_claim_rewards(u), GrantedDraws' = GrantedDraws
    PROVE  GlowBudget'
<1> DEFINE g == UpdatedSponsorIndex.global_reward_index
           info == RewardedSponsor(UpdatedSponsorIndex, u)
           claim_amount == info.pending_rewards \div One
           new == [info EXCEPT !.pending_rewards = 0]
           x == AccruedIn(sponsors, g)[u]
<1>1. /\ state' = UpdatedIndexes /\ UNCHANGED <<lotteries, prizes>>
      /\ sponsors' = [sponsors EXCEPT ![u] = new]
      /\ paid_glow' = paid_glow + claim_amount
  BY Zenon DEF execute_claim_rewards
<1>2. info \in SponsorInfo /\ info.pending_rewards = x /\ info.reward_index = g
  BY RewardsApplied
<1>4. sponsors \in [Users -> SponsorInfo] /\ sponsors' \in [Users -> SponsorInfo]
      /\ state \in State
  BY DEF IInv, TypeOK
<1>5. state'.sponsor_reward_emission_index = UpdatedSponsorIndex
  BY <1>1, <1>4, Zenon DEF State, UpdatedIndexes
<1>6. SponsorsAt(sponsors, g) /\ SponsorsAt(sponsors', g) /\ paid_glow \in Nat
  BY <1>5, UpdatedBudget, BudgetTyped, BudgetTypedNext
<1>7. x \in Nat
  BY <1>6, AccruedTyped
<1> HIDE DEF info, x
<1>8. claim_amount = x \div One
  BY <1>2
<1> HIDE DEF claim_amount
<1>9. claim_amount \in Nat /\ claim_amount * One <= x
  <2>1. x \div One \in Nat /\ One * (x \div One) <= x
    BY <1>7, OneAssumption, DivBounds
  <2> QED
    BY <1>8, <2>1, OneAssumption
<1>10. new.pending_rewards = 0 /\ new.reward_index = g
  BY <1>2, Zenon DEF SponsorInfo
<1> HIDE DEF new
<1>11. sponsors'[u] = new /\ \A v \in Users \ {u} : sponsors'[v] = sponsors[v]
  BY <1>1, <1>4, Zenon
<1>12. AccruedIn(sponsors', g)[u] = sponsors'[u].pending_rewards
              + sponsors'[u].lottery_deposit * (g - sponsors'[u].reward_index)
  BY Zenon DEF AccruedIn
<1>13. AccruedIn(sponsors', g)[u] = 0
  <2>1. sponsors'[u].lottery_deposit \in Nat /\ g \in Nat
    BY <1>4, <1>6 DEF SponsorInfo, SponsorsAt
  <2>2. g - sponsors'[u].reward_index = 0 /\ sponsors'[u].lottery_deposit * 0 = 0
    BY <1>10, <1>11, <2>1
  <2> QED
    BY <1>10, <1>11, <1>12, <2>2
<1>14. paid_glow' * One + AccruedIn(sponsors', g)[u] <= paid_glow * One + x
  <2> DEFINE p == paid_glow * One
             c == claim_amount * One
  <2>1. paid_glow' * One = p + c
    BY <1>1, <1>6, <1>9, OneAssumption
  <2>2. p \in Nat /\ c \in Nat /\ c <= x
    BY <1>6, <1>9, MulNat, OneAssumption
  <2> HIDE DEF p, c
  <2>3. (p + c) + 0 <= p + x
    BY <1>7, <2>2
  <2> QED
    BY <1>13, <2>1, <2>3 DEF p
<1> QED
  BY <1>1, <1>5, <1>11, <1>14, SponsorBudget DEF x

-----------------------------------------------------------------------------
(* The budget along a draw.                                                *)

\* What a draw has from the configuration, when it is awarded, stays granted.
LEMMA GrantedOneDraw ==
    ASSUME IInv, IInv', NEW i \in Draws, i = state.current_lottery,
           OneDrawChanges(lotteries, prizes, lotteries', prizes', i),
           config'.glow_prize_buckets = config.glow_prize_buckets,
           \/ state'.current_lottery = i
           \/ state'.current_lottery = i + 1 /\ lotteries'[i].awarded
    PROVE  /\ OneDrawChanges(GrantedDraws, prizes, GrantedDraws', prizes', i)
           /\ GrantedDraws[i] = lotteries[i] /\ GrantedDraws'[i] = lotteries'[i]
<1>1. TypeOK /\ TypeOK'
  BY DEF IInv
<1>2. GrantedDraws[i] = lotteries[i] /\ GrantedDraws'[i] = lotteries'[i]
  <2>1. ~Forgotten(i)
    BY DEF Forgotten, Draws
  <2>2. ~Forgotten(i)'
    BY DEF Forgotten, Draws
  <2> QED
    BY <1>1, <2>1, <2>2, GrantedTyped, GrantedTypedNext
<1>3. ASSUME NEW j \in Draws \ {i} PROVE GrantedDraws'[j] = GrantedDraws[j]
  <2>1. lotteries'[j] = lotteries[j]
    BY DEF OneDrawChanges
  <2>2. Forgotten(j)' <=> Forgotten(j)
    <3>1. i \in Nat /\ j \in Nat /\ j # i
      BY LimitsAssumption DEF Draws
    <3>2. j < state'.current_lottery <=> j < state.current_lottery
      BY <3>1
    <3> QED
      BY <2>1, <3>2 DEF Forgotten
  <2>3. GrantedGlow(j)' = GrantedGlow(j)
    BY <2>1, <2>2 DEF GrantedGlow
  <2> QED
    BY <2>1, <2>3 DEF GrantedDraws
<1> QED
  BY <1>2, <1>3 DEF OneDrawChanges

\* A draw that has not been awarded has no GLOW in its buckets; one that is
\* awarded owes no more than is put into them.
LEMMA DrawBudget ==
    ASSUME IInv, IInv', UstBooks', GlowIsGranted, GlowBudget, NEW i \in Draws,
           OneDrawChanges(lotteries, prizes, lotteries', prizes', i),
           OneDrawChanges(GrantedDraws, prizes, GrantedDraws', prizes', i),
           GrantedDraws[i] = lotteries[i], GrantedDraws'[i] = lotteries'[i],
           UNCHANGED <<sponsors, paid_glow>>,
           state'.sponsor_reward_emission_index = state.sponsor_reward_emission_index
    PROVE  GlowBudget'
<1> DEFINE index == state.sponsor_reward_emission_index
           l == lotteries'[i]
           ps == prizes'[i]
           p == paid_glow * One + AccruedTotal(sponsors, index.global_reward_index)
           e == MaxEmissionRate * index.last_reward_updated
           o == GlowTotal(lotteries, prizes)
           b == BoostTotal(GrantedDraws)
           x == GlowOf(l, ps)
           y == BoostOf(l)
           o1 == GlowTotal(lotteries', prizes')
           b1 == BoostTotal(GrantedDraws')
<1>1. /\ DrawsTyped(lotteries, prizes) /\ DrawsTyped(lotteries', prizes')
      /\ DrawsTyped(GrantedDraws, prizes) /\ DrawsTyped(GrantedDraws', prizes')
  BY BudgetTyped, BudgetTypedNext, GrantedTyped, GrantedTypedNext DEF IInv
<1>2. /\ lotteries[i].glow_prize_buckets = ZeroBuckets
      /\ GrantedDraws[i].glow_prize_buckets = ZeroBuckets
  BY DEF GlowIsGranted, OneDrawChanges
<1>3. o1 = o + x /\ b1 = b + y
  <2>1. o1 = o + x
    BY <1>1, <1>2, OneDrawBoosted
  <2>2. b1 = b + BoostOf(GrantedDraws'[i])
    BY <1>1, <1>2, OneDrawBoosted
  <2> QED
    BY <2>1, <2>2
<1>4. /\ l \in LotteryInfo /\ ps \in [Users -> PrizeInfo]
      /\ l.awarded => MatchesCounted(l, ps)
  BY <1>1 DEF DrawsTyped, UstBooks, DrawCounted
<1>5. o \in Nat /\ b \in Nat
  BY <1>1, GlowTotalTyped
<1> HIDE DEF l, ps
<1>6. x \in Nat /\ y \in Nat /\ x <= y
  <2>1. x \in Nat /\ y \in Nat
    BY <1>4, GlowTyped, BoostTyped
  <2>2. l.awarded => x <= y
    BY <1>4, GlowOfDraw
  <2>3. ~l.awarded => x = 0
    BY NoGlowOwed
  <2> QED
    BY <2>1, <2>2, <2>3
<1>7. p + One * o <= e + One * b
  BY DEF GlowBudget, BudgetAt
<1>8. p \in Nat /\ e \in Nat
  BY BudgetNat
<1> HIDE DEF p, e, o, b, x, y, o1, b1
<1>9. One * x <= One * y /\ One * x \in Nat /\ One * y \in Nat /\ One * o \in Nat /\ One * b \in Nat
  <2>1. One \in Nat
    BY OneAssumption
  <2>2. One * x \in Nat /\ One * y \in Nat /\ One * o \in Nat /\ One * b \in Nat
    BY <1>5, <1>6, <2>1, MulNat
  <2>3. x * One <= y * One
    BY <1>6, <2>1, MulMono
  <2> QED
    BY <1>6, <2>1, <2>2, <2>3
<1>10. One * o1 = One * o + One * x /\ One * b1 = One * b + One * y
  BY <1>3, <1>5, <1>6, OneAssumption
<1>11. p + One * o1 <= e + One * b1
  BY <1>7, <1>8, <1>9, <1>10
<1> QED
  BY <1>11 DEF GlowBudget, BudgetAt, p, e, o1, b1

\* A draw that changes has no GLOW or, once awarded, no more than the
\* configuration grants.
LEMMA BucketsGranted ==
    ASSUME IInv, GlowIsGranted, NEW i \in Draws,
           \A j \in Draws \ {i} : lotteries'[j] = lotteries[j],
           config'.glow_prize_buckets = config.glow_prize_buckets,
           \/ lotteries'[i].glow_prize_buckets = ZeroBuckets
           \/ /\ lotteries'[i].awarded
              /\ \A m \in Buckets :
                    lotteries'[i].glow_prize_buckets[m] <= config.glow_prize_buckets[m]
    PROVE  GlowIsGranted'
<1>1. ASSUME NEW m \in Buckets PROVE ZeroBuckets[m] <= config.glow_prize_buckets[m]
  <2>1. config.glow_prize_buckets[m] \in Nat
    BY DEF IInv, TypeOK, Config
  <2> QED
    BY <2>1 DEF ZeroBuckets
<1>2. ASSUME NEW j \in Draws
      PROVE  /\ ~lotteries'[j].awarded => lotteries'[j].glow_prize_buckets = ZeroBuckets
             /\ \A m \in Buckets :
                   lotteries'[j].glow_prize_buckets[m] <= config'.glow_prize_buckets[m]
  <2>1. CASE j = i
    BY <1>1, <2>1
  <2>2. CASE j # i
    BY <2>2 DEF GlowIsGranted
  <2> QED
    BY <2>1, <2>2
<1> QED
  BY <1>2 DEF GlowIsGranted

LEMMA LotteryBudget ==
    ASSUME IInv, IInv', UstBooks', GlowIsGranted, GlowBudget, execute_lottery
    PROVE  GlowIsGranted' /\ GlowBudget'
<1> DEFINE cur == state.current_lottery
<1>1. TypeOK /\ LotteryLifecycle /\ state \in State
  BY DEF IInv, TypeOK
<1>2. UNCHANGED <<config, prizes, sponsors, paid_glow>> /\ ~LotteryStarted
  BY Zenon DEF execute_lottery, LotteryNotStarted, chain
<1>3. \E a, b, c, d : lotteries' = [lotteries EXCEPT ![cur] =
         [DefaultLottery EXCEPT !.rand_round = a, !.block_height = b, !.timestamp = c,
                                !.total_user_shares = d]]
  BY Zenon DEF execute_lottery
<1>4. \E a, b, c : state' = [state EXCEPT !.next_lottery_exec_time = a, !.prize_buckets = b,
                                !.last_lottery_execution_aust_exchange_rate = c]
  BY Zenon DEF execute_lottery
<1>5. /\ state'.sponsor_reward_emission_index = state.sponsor_reward_emission_index
      /\ state'.current_lottery = cur
  BY <1>1, <1>4, Zenon DEF State
<1>6. cur \in Draws /\ lotteries \in [Draws -> LotteryInfo]
  BY <1>1 DEF TypeOK, State, Draws
<1>7. /\ \A j \in Draws \ {cur} : lotteries'[j] = lotteries[j]
      /\ lotteries'[cur].glow_prize_buckets = ZeroBuckets
  BY <1>3, <1>6, Zenon DEF DefaultLottery
<1>8. OneDrawChanges(lotteries, prizes, lotteries', prizes', cur)
  <2>1. ~lotteries[cur].awarded
    BY <1>1, <1>6 DEF LotteryLifecycle, Draws
  <2> QED
    BY <1>2, <1>7, <2>1 DEF OneDrawChanges
<1>9. GlowIsGranted'
  BY <1>2, <1>6, <1>7, BucketsGranted
<1>10. /\ OneDrawChanges(GrantedDraws, prizes, GrantedDraws', prizes', cur)
       /\ GrantedDraws[cur] = lotteries[cur] /\ GrantedDraws'[cur] = lotteries'[cur]
  BY <1>2, <1>5, <1>6, <1>8, GrantedOneDraw
<1> QED
  BY <1>2, <1>5, <1>6, <1>8, <1>9, <1>10, DrawBudget

LEMMA PrizeBudget ==
    ASSUME IInv, IInv', UstBooks', GlowIsGranted, GlowBudget, NEW limit,
           execute_prize(limit)
    PROVE  GlowIsGranted' /\ GlowBudget'
<1> DEFINE cur == state.current_lottery
<1>1. TypeOK /\ LotteryLifecycle /\ state \in State
  BY DEF IInv, TypeOK
<1>2. UNCHANGED <<config, sponsors, paid_glow>>
  BY Zenon DEF execute_prize, chain
<1>3. PICK sequence \in SequencesToDraw :
         LET keys    == KeysToVisit(sequence)
             page    == Page(keys, limit)
             winners == WinnersAfter(current_lottery, page, sequence)
             entries == PrizesAfter(prizes[cur], page, sequence)
             lottery == [current_lottery EXCEPT !.sequence = sequence,
                                                !.number_winners = winners]
         IN /\ prizes' = [prizes EXCEPT ![cur] = entries]
            /\ \/ /\ \E first : lotteries' = [lotteries EXCEPT ![cur] =
                                                [lottery EXCEPT !.page = first]]
                  /\ UNCHANGED state
               \/ /\ lotteries' = [lotteries EXCEPT ![cur] = AwardedLottery(lottery, winners)]
                  /\ state' = StateAfterAward(winners)
  BY Zenon DEF execute_prize
<1> DEFINE page    == Page(KeysToVisit(sequence), limit)
           winners == WinnersAfter(current_lottery, page, sequence)
           entries == PrizesAfter(prizes[cur], page, sequence)
           lottery == [current_lottery EXCEPT !.sequence = sequence,
                                              !.number_winners = winners]
<1>4. /\ prizes' = [prizes EXCEPT ![cur] = entries]
      /\ \/ /\ \E first : lotteries' = [lotteries EXCEPT ![cur] = [lottery EXCEPT !.page = first]]
            /\ UNCHANGED state
         \/ /\ lotteries' = [lotteries EXCEPT ![cur] = AwardedLottery(lottery, winners)]
            /\ state' = StateAfterAward(winners)
  BY <1>3, Zenon
<1> HIDE DEF winners, entries
<1>5. /\ cur \in Draws
      /\ lotteries \in [Draws -> LotteryInfo]
      /\ prizes \in [Draws -> [Users -> PrizeInfo]]
      /\ current_lottery \in LotteryInfo /\ current_lottery = lotteries[cur]
      /\ ~lotteries[cur].awarded
  BY <1>1 DEF TypeOK, State, Draws, current_lottery, LotteryLifecycle
<1> DEFINE Empty(new) == new.glow_prize_buckets = ZeroBuckets
           Filled(new) == /\ new.awarded
                          /\ \A m \in Buckets :
                                new.glow_prize_buckets[m] <= config.glow_prize_buckets[m]
<1>6. \E new : /\ lotteries' = [lotteries EXCEPT ![cur] = new]
               /\ \/ Empty(new) /\ state' = state
                  \/ Filled(new) /\ state' = StateAfterAward(winners)
  <2>0. /\ lottery.glow_prize_buckets = ZeroBuckets
        /\ lottery = [current_lottery EXCEPT !.sequence = sequence, !.number_winners = winners]
    <3>1. current_lottery.glow_prize_buckets = ZeroBuckets
      BY <1>5 DEF GlowIsGranted
    <3> QED
      BY <1>5, <3>1, Zenon DEF LotteryInfo
  <2>1. ASSUME NEW first PROVE Empty([lottery EXCEPT !.page = first])
    BY <2>0
  <2>2. Filled(AwardedLottery(lottery, winners))
    <3> DEFINE new == AwardedLottery(lottery, winners)
    <3>1. /\ new.awarded = TRUE
          /\ new.glow_prize_buckets = [m \in Buckets |->
                IF winners[m] # 0 THEN config.glow_prize_buckets[m]
                ELSE lottery.glow_prize_buckets[m]]
      BY <1>5, Zenon DEF AwardedLottery, LotteryInfo
    <3> HIDE DEF new, lottery
    <3>2. ASSUME NEW m \in Buckets
          PROVE  new.glow_prize_buckets[m] <= config.glow_prize_buckets[m]
      <4>1. config.glow_prize_buckets[m] \in Nat
        BY <1>1 DEF TypeOK, Config
      <4>2. new.glow_prize_buckets[m] = IF winners[m] # 0 THEN config.glow_prize_buckets[m]
                                        ELSE 0
        BY <2>0, <3>1 DEF ZeroBuckets
      <4> QED
        BY <4>1, <4>2
    <3> QED
      BY <3>1, <3>2 DEF new
  <2> HIDE DEF lottery, Empty, Filled
  <2>3. CASE /\ \E first : lotteries' = [lotteries EXCEPT ![cur] = [lottery EXCEPT !.page = first]]
             /\ UNCHANGED state
    BY <2>1, <2>3, Zenon
  <2>4. CASE /\ lotteries' = [lotteries EXCEPT ![cur] = AwardedLottery(lottery, winners)]
             /\ state' = StateAfterAward(winners)
    BY <2>2, <2>4, Zenon
  <2> QED
    BY <1>4, <2>3, <2>4, Zenon
<1> HIDE DEF lottery
<1>7. PICK new : /\ lotteries' = [lotteries EXCEPT ![cur] = new]
                 /\ \/ Empty(new) /\ state' = state
                    \/ Filled(new) /\ state' = StateAfterAward(winners)
  BY <1>6, Zenon
<1>8. lotteries'[cur] = new /\ \A j \in Draws \ {cur} : lotteries'[j] = lotteries[j]
  BY <1>5, <1>7, Zenon
<1>9. \A j \in Draws \ {cur} : prizes'[j] = prizes[j]
  BY <1>4, <1>5, Zenon
<1>10. OneDrawChanges(lotteries, prizes, lotteries', prizes', cur)
  BY <1>5, <1>8, <1>9 DEF OneDrawChanges
<1>11. /\ state'.sponsor_reward_emission_index = state.sponsor_reward_emission_index
       /\ \/ state'.current_lottery = cur
          \/ state'.current_lottery = cur + 1 /\ new.awarded
  <2>1. ASSUME state' = StateAfterAward(winners)
        PROVE  /\ state'.sponsor_reward_emission_index = state.sponsor_reward_emission_index
               /\ state'.current_lottery = cur + 1
    <3>1. \E a, b, c, d : state' = [state EXCEPT !.total_reserve = a, !.prize_buckets = b,
              !.current_lottery = @ + 1, !.next_lottery_time = c, !.next_lottery_exec_time = d]
      BY <2>1, Zenon DEF StateAfterAward
    <3> QED
      BY <1>1, <3>1, Zenon DEF State
  <2> QED
    BY <1>7, <2>1, Zenon
<1>12. GlowIsGranted'
  BY <1>2, <1>5, <1>7, <1>8, BucketsGranted
<1>13. /\ OneDrawChanges(GrantedDraws, prizes, GrantedDraws', prizes', cur)
       /\ GrantedDraws[cur] = lotteries[cur] /\ GrantedDraws'[cur] = lotteries'[cur]
  BY <1>2, <1>5, <1>8, <1>10, <1>11, GrantedOneDraw
<1> QED
  BY <1>2, <1>5, <1>10, <1>11, <1>12, <1>13, DrawBudget

\* A prize is paid at no more than the largest boost, which the draw set aside.
LEMMA ClaimLotteryBudget ==
    ASSUME IInv, IInv', RatesKept, GlowBudget, NEW u \in Users, NEW ids \in SUBSET Draws,
           NEW votes \in [user : Nat, total : Nat], execute_claim_lottery(u, ids, votes),
           GrantedDraws' = GrantedDraws
    PROVE  GlowBudget'
<1> DEFINE won  == {id \in ids : HasPrize(prizes[id][u])}
           glow == GlowWon(u, won, votes)
<1>1. TypeOK /\ TypeOK'
  BY DEF IInv
<1>2. UNCHANGED <<config, state, sponsors, lotteries>> /\ paid_glow' = paid_glow + glow
  BY Zenon DEF execute_claim_lottery
<1>3. /\ \A id \in ids : lotteries[id].awarded
      /\ \A id \in won : ~prizes[id][u].claimed
      /\ \A id \in won : BoostDefined(config.lotto_winner_boost_config, snapshots[id][u],
                                      votes.total)
  BY Zenon DEF execute_claim_lottery
<1>4. prizes' = [id \in DOMAIN prizes |->
                   IF id \in won THEN [prizes[id] EXCEPT ![u] = ClaimedEntry(@)] ELSE prizes[id]]
  BY Zenon DEF execute_claim_lottery
<1>5. won \in SUBSET Draws /\ won \subseteq ids
  OBVIOUS
<1> HIDE DEF won
<1> DEFINE f == GlowBy(lotteries, prizes')
           g == GlowWonIn(u, won)
           h == GlowBy(lotteries, prizes)
<1>6. /\ glow \in Nat /\ glow <= SumFunctionOnSet(g, Draws)
      /\ \A i \in Draws : g[i] \in Nat
  BY <1>1, <1>3, <1>5, GlowWonBounds DEF RatesKept
<1>7. DrawsTyped(lotteries, prizes) /\ DrawsTyped(lotteries, prizes') /\ paid_glow \in Nat
  BY <1>2, BudgetTyped, BudgetTypedNext
<1>8. ASSUME NEW i \in Draws PROVE h[i] = f[i] + g[i] /\ f[i] \in Nat /\ g[i] \in Nat
  <2>1. /\ lotteries[i] \in LotteryInfo /\ prizes[i] \in [Users -> PrizeInfo]
        /\ prizes'[i] \in [Users -> PrizeInfo]
    BY <1>7 DEF DrawsTyped
  <2>2. f[i] \in Nat /\ g[i] \in Nat
    BY <1>6, <1>7, GlowTotalTyped
  <2>3. h[i] = GlowOf(lotteries[i], prizes[i]) /\ f[i] = GlowOf(lotteries[i], prizes'[i])
    BY DEF GlowBy
  <2>4. g[i] = IF i \in won THEN WinnerGlow(lotteries[i], prizes[i][u].matches, MaxBoost) ELSE 0
    BY DEF GlowWonIn
  <2> HIDE DEF f, g, h
  <2>5. CASE i \notin won
    <3>1. prizes'[i] = prizes[i]
      BY <1>4, <1>7, <2>5, Zenon DEF DrawsTyped
    <3> QED
      BY <2>2, <2>3, <2>4, <2>5, <3>1
  <2>6. CASE i \in won
    <3> DEFINE l == lotteries[i]
               ps == prizes[i]
               qs == prizes'[i]
    <3>1. /\ l.awarded /\ ~ps[u].claimed /\ qs[u].claimed
          /\ \A v \in Users \ {u} : qs[v] = ps[v]
      BY <1>1, <1>3, <1>4, <1>5, <2>6, EntriesClaimed
    <3>2. l \in LotteryInfo /\ ps \in [Users -> PrizeInfo] /\ qs \in [Users -> PrizeInfo]
      BY <2>1
    <3> HIDE DEF l, ps, qs
    <3>3. GlowOf(l, ps) = GlowOf(l, qs) + WinnerGlow(l, ps[u].matches, MaxBoost)
      BY <3>1, <3>2, OneGlowClaimed
    <3> QED
      BY <2>2, <2>3, <2>4, <2>6, <3>3 DEF l, ps, qs
  <2> QED
    BY <2>5, <2>6
<1>9. /\ GlowTotal(lotteries, prizes) = SumFunctionOnSet(h, Draws)
      /\ GlowTotal(lotteries, prizes') = SumFunctionOnSet(f, Draws)
  BY DEF GlowTotal
<1> HIDE DEF f, g, h, glow
<1>10. SumFunctionOnSet(h, Draws) = SumFunctionOnSet(f, Draws) + SumFunctionOnSet(g, Draws)
  <2>1. /\ \A i \in Draws : f[i] \in Int
        /\ \A i \in Draws : g[i] \in Int
        /\ \A i \in Draws : h[i] = f[i] + g[i]
    BY <1>8
  <2> QED
    BY <2>1, FiniteSets, SumPlus
<1>11. SumFunctionOnSet(g, Draws) \in Nat
  BY <1>6, FiniteSets, SumNat
<1> DEFINE a == AccruedTotal(sponsors, state.sponsor_reward_emission_index.global_reward_index)
           e == MaxEmissionRate * state.sponsor_reward_emission_index.last_reward_updated
           k == BoostTotal(GrantedDraws)
           o == GlowTotal(lotteries, prizes)
           o1 == GlowTotal(lotteries, prizes')
           p == paid_glow * One
<1>12. paid_glow * One + a + One * o <= e + One * k
  BY DEF GlowBudget, BudgetAt
<1>13. k \in Nat /\ o1 \in Nat /\ o \in Nat
  BY <1>1, <1>7, GlowTotalTyped, GlowTotalsTyped
<1>14. a \in Nat
  BY BudgetTyped, AccruedTyped
<1>15. e \in Nat /\ p \in Nat
  BY <1>7, BudgetNat, MulNat, OneAssumption
<1>16. glow + o1 <= o
  BY <1>6, <1>9, <1>10, <1>11, <1>13
<1> HIDE DEF a, e, k, o, o1
<1>17. /\ (glow + o1) * One <= o * One
       /\ (glow + o1) * One = glow * One + One * o1 /\ o * One = One * o
       /\ paid_glow' * One = p + glow * One
       /\ glow * One \in Nat /\ One * o1 \in Nat /\ One * o \in Nat /\ One * k \in Nat
  <2>1. One \in Nat /\ glow + o1 \in Nat
    BY <1>6, <1>13, OneAssumption
  <2>2. (glow + o1) * One <= o * One
    BY <1>13, <1>16, <2>1, MulMono
  <2>3. paid_glow' * One = p + glow * One
    BY <1>2, <1>6, <1>7, <2>1
  <2>4. glow * One \in Nat /\ One * o1 \in Nat /\ One * o \in Nat /\ One * k \in Nat
    BY <1>6, <1>13, <2>1, MulNat
  <2>5. (glow + o1) * One = glow * One + One * o1 /\ o * One = One * o
    BY <1>6, <1>13, <2>1
  <2> QED
    BY <2>2, <2>3, <2>4, <2>5
<1> DEFINE x == glow * One
           y == One * o1
           z == One * o
           w == One * k
<1>18. p + a + z <= e + w /\ x + y <= z /\ x \in Nat /\ y \in Nat /\ z \in Nat /\ w \in Nat
  BY <1>12, <1>17
<1>19. paid_glow' * One = p + x
  BY <1>17
<1> HIDE DEF p, x, y, z, w
<1>20. (p + x) + a + y <= e + w
  BY <1>14, <1>15, <1>18
<1> QED
  BY <1>2, <1>19, <1>20 DEF GlowBudget, BudgetAt, a, e, k, o1, y, w

-----------------------------------------------------------------------------
(* The budget when the past draws are forgotten.                           *)

\* Nothing is owed for a forgotten draw any more.
LEMMA GlowForgotten ==
    ASSUME IInv, IInv', migrate_old_depositors
    PROVE  GlowTotal(lotteries', prizes') <= GlowTotal(lotteries, prizes)
<1> DEFINE f == GlowBy(lotteries', prizes')
           g == GlowBy(lotteries, prizes)
<1>1. TypeOK /\ LotteryLifecycle
  BY DEF IInv
<1>2. prizes' = prizes
  BY Zenon DEF migrate_old_depositors
<1>3. /\ \A i \in Draws : f[i] \in Nat
      /\ \A i \in Draws : g[i] \in Nat
  BY BudgetTyped, BudgetTypedNext, GlowTotalTyped, Zenon
<1>4. ASSUME NEW i \in Draws PROVE f[i] <= g[i]
  <2>1. f[i] = GlowOf(lotteries'[i], prizes[i]) /\ g[i] = GlowOf(lotteries[i], prizes[i])
    BY <1>2 DEF GlowBy
  <2>2. lotteries'[i] = lotteries[i] \/ ~lotteries'[i].awarded
    BY <1>1, Forgetting DEF Draws
  <2>3. CASE lotteries'[i] = lotteries[i]
    BY <1>3, <2>1, <2>3
  <2>4. CASE ~lotteries'[i].awarded
    BY <1>3, <2>1, <2>4, NoGlowOwed
  <2> QED
    BY <2>2, <2>3, <2>4
<1> HIDE DEF f, g
<1>5. SumFunctionOnSet(f, Draws) <= SumFunctionOnSet(g, Draws)
  <2>1. /\ \A i \in Draws : f[i] \in Int
        /\ \A i \in Draws : g[i] \in Int
    BY <1>3
  <2> QED
    BY <1>4, <2>1, FiniteSets, SumBelow
<1> QED
  BY <1>5 DEF GlowTotal, f, g

\* Once it is forgotten a draw counts for all that the configuration grants.
LEMMA GrantedForgotten ==
    ASSUME IInv, IInv', GlowIsGranted, migrate_old_depositors
    PROVE  /\ BoostTotal(GrantedDraws) <= BoostTotal(GrantedDraws')
           /\ GlowIsGranted'
<1>1. TypeOK /\ TypeOK' /\ LotteryLifecycle
  BY DEF IInv
<1>2. config'.glow_prize_buckets = config.glow_prize_buckets /\ state' = state
  BY <1>1, ForgettingKeepsSettings, Zenon DEF migrate_old_depositors
<1>3. ASSUME NEW i \in Draws
      PROVE  lotteries'[i] = IF i < state.current_lottery THEN ForgottenLottery ELSE lotteries[i]
  BY <1>1, Forgetting DEF Draws
<1>4. /\ ~ForgottenLottery.awarded /\ ForgottenLottery.glow_prize_buckets = ZeroBuckets
      /\ config.glow_prize_buckets \in [Buckets -> Nat]
  BY <1>1, Forgetting DEF TypeOK, Config
<1>5. /\ DrawsTyped(GrantedDraws, prizes) /\ DrawsTyped(GrantedDraws', prizes')
      /\ \A i \in Draws : GrantedDraws[i].glow_prize_buckets = GrantedGlow(i)
      /\ \A i \in Draws : GrantedDraws'[i].glow_prize_buckets = GrantedGlow(i)'
  BY <1>1, GrantedTyped, GrantedTypedNext
<1>6. GlowIsGranted'
  <2>1. ASSUME NEW m \in Buckets PROVE ZeroBuckets[m] <= config.glow_prize_buckets[m]
    BY <1>4 DEF ZeroBuckets
  <2> QED
    BY <1>2, <1>3, <1>4, <2>1 DEF GlowIsGranted
<1>7. ASSUME NEW i \in Draws
      PROVE  BoostOf(GrantedDraws[i]) <= BoostOf(GrantedDraws'[i])
  <2> DEFINE f == BoostIn(GrantedDraws[i])
             g == BoostIn(GrantedDraws'[i])
  <2>1. GrantedDraws[i] \in LotteryInfo /\ GrantedDraws'[i] \in LotteryInfo
    BY <1>5 DEF DrawsTyped
  <2>2. ASSUME NEW m \in Buckets PROVE f[m] <= g[m]
    <3> DEFINE a == GrantedDraws[i].glow_prize_buckets[m]
               b == GrantedDraws'[i].glow_prize_buckets[m]
    <3>1. a = GrantedGlow(i)[m] /\ b = GrantedGlow(i)'[m] /\ a \in Nat /\ b \in Nat
      BY <1>5, <2>1, GlowFields
    <3>2. f[m] = DecMul(a, MaxBoost) /\ g[m] = DecMul(b, MaxBoost)
      BY DEF BoostIn
    <3>3. GrantedGlow(i)[m] <= GrantedGlow(i)'[m]
      <4>1. CASE i < state.current_lottery
        <5>1. GrantedGlow(i)' = config.glow_prize_buckets
          BY <1>2, <1>3, <1>4, <4>1 DEF GrantedGlow, Forgotten
        <5>2. config.glow_prize_buckets[m] \in Nat
          BY <1>4
        <5>3. lotteries[i].glow_prize_buckets[m] <= config.glow_prize_buckets[m]
          BY DEF GlowIsGranted
        <5> QED
          BY <5>1, <5>2, <5>3 DEF GrantedGlow
      <4>2. CASE ~(i < state.current_lottery)
        <5>1. GrantedGlow(i)' = GrantedGlow(i)
          BY <1>2, <1>3, <4>2 DEF GrantedGlow, Forgotten
        <5> HIDE DEF a, b
        <5> QED
          BY <3>1, <5>1
      <4> QED
        BY <4>1, <4>2
    <3> HIDE DEF a, b, f, g
    <3>4. MaxBoost <= MaxBoost /\ a <= b
      BY <3>1, <3>3, MaxBoostType
    <3> QED
      BY <3>1, <3>2, <3>4, MaxBoostType, DecMulMono
  <2>3. /\ \A m \in Buckets : f[m] \in Int
        /\ \A m \in Buckets : g[m] \in Int
    BY <2>1, BoostTyped
  <2> HIDE DEF f, g
  <2>4. SumFunctionOnSet(f, Buckets) <= SumFunctionOnSet(g, Buckets)
    BY <2>2, <2>3, FiniteSets, SumBelow
  <2> QED
    BY <2>4 DEF BoostOf, f, g
<1> DEFINE f == BoostBy(GrantedDraws)
           g == BoostBy(GrantedDraws')
<1>8. /\ \A i \in Draws : f[i] \in Nat
      /\ \A i \in Draws : g[i] \in Nat
  BY <1>5, GlowTotalTyped, Zenon
<1>9. \A i \in Draws : f[i] <= g[i]
  BY <1>7 DEF BoostBy
<1> HIDE DEF f, g
<1>10. SumFunctionOnSet(f, Draws) <= SumFunctionOnSet(g, Draws)
  <2>1. /\ \A i \in Draws : f[i] \in Int
        /\ \A i \in Draws : g[i] \in Int
    BY <1>8
  <2> QED
    BY <1>9, <2>1, FiniteSets, SumBelow
<1> QED
  BY <1>6, <1>10 DEF BoostTotal, f, g

LEMMA MigrateBudget ==
    ASSUME IInv, IInv', GlowIsGranted, GlowBudget, migrate_old_depositors
    PROVE  GlowIsGranted' /\ GlowBudget'
<1> DEFINE index == state.sponsor_reward_emission_index
           p == paid_glow * One + AccruedTotal(sponsors, index.global_reward_index)
           e == MaxEmissionRate * index.last_reward_updated
           o == GlowTotal(lotteries, prizes)
           b == BoostTotal(GrantedDraws)
           o1 == GlowTotal(lotteries', prizes')
           b1 == BoostTotal(GrantedDraws')
<1>1. UNCHANGED <<state, sponsors, paid_glow>>
  BY Zenon DEF migrate_old_depositors, chain
<1>2. /\ DrawsTyped(lotteries, prizes) /\ DrawsTyped(lotteries', prizes')
      /\ DrawsTyped(GrantedDraws, prizes) /\ DrawsTyped(GrantedDraws', prizes')
  BY BudgetTyped, BudgetTypedNext, GrantedTyped, GrantedTypedNext DEF IInv
<1>3. o \in Nat /\ b \in Nat /\ o1 \in Nat /\ b1 \in Nat /\ o1 <= o /\ b <= b1
  BY <1>2, GlowTotalTyped, GlowForgotten, GrantedForgotten
<1>4. p + One * o <= e + One * b /\ p \in Nat /\ e \in Nat
  BY BudgetNat DEF GlowBudget, BudgetAt
<1> HIDE DEF p, e, o, b, o1, b1
<1>5. One * o1 <= One * o /\ One * b <= One * b1
  BY <1>3, OneAssumption, MulMono
<1>6. One * o \in Nat /\ One * b \in Nat /\ One * o1 \in Nat /\ One * b1 \in Nat
  BY <1>3, OneAssumption, MulNat
<1> DEFINE w == One * o
           x == One * b
           y == One * o1
           z == One * b1
<1>7. /\ p + w <= e + x /\ y <= w /\ x <= z
      /\ w \in Nat /\ x \in Nat /\ y \in Nat /\ z \in Nat
  BY <1>4, <1>5, <1>6
<1> HIDE DEF w, x, y, z
<1>8. p + y <= e + z
  BY <1>4, <1>7
<1>9. GlowBudget'
  BY <1>1, <1>8 DEF GlowBudget, BudgetAt, p, e, o1, b1, y, z
<1> QED
  BY <1>9, GrantedForgotten

-----------------------------------------------------------------------------
(* The budget is kept.                                                     *)

LEMMA GlowStep ==
    ASSUME IInv, IInv', Books, UstBooks', GlowBooks, [Next]_vars
    PROVE  GlowBooks'
<1>0. RatesKept /\ GlowIsGranted /\ GlowBudget /\ TypeOK
  BY DEF GlowBooks, IInv
<1>1. RatesKept'
  BY <1>0, RatesStep
<1> SUFFICES GlowIsGranted' /\ GlowBudget'
  BY <1>1 DEF GlowBooks
<1>12. CASE PrizeExecutions
  <2>1. PICK limit : execute_prize(limit)
    BY <1>12, Zenon DEF PrizeExecutions
  <2> QED
    BY <1>0, <2>1, PrizeBudget
<1>14. CASE migrate_old_depositors
  BY <1>0, <1>14, MigrateBudget
<1> SUFFICES ASSUME ~PrizeExecutions, ~migrate_old_depositors
             PROVE  GlowIsGranted' /\ GlowBudget'
  BY <1>12, <1>14
<1>2. lotteries' = lotteries => GlowIsGranted' /\ GrantedDraws' = GrantedDraws
  BY <1>0, IndexSteps, BoostSteps, GrantedFrame
<1>3. BudgetKept => GlowIsGranted' /\ GlowBudget'
  BY <1>0, <1>2, BudgetFrame DEF BudgetKept
<1>4. CASE Deposits \/ Gifts
  <2>1. ASSUME NEW u, NEW amount, NEW o, NEW requested, deposit(u, amount, o, requested)
        PROVE  BudgetKept
    BY <2>1, Zenon DEF deposit, BudgetKept
  <2> QED
    BY <1>3, <1>4, <2>1, Zenon DEF Deposits, Gifts, execute_deposit, execute_gift
<1>5. CASE Withdrawals
  <2>1. ASSUME NEW u, NEW amount, NEW instant, execute_withdraw(u, amount, instant)
        PROVE  BudgetKept
    BY <2>1, Zenon DEF execute_withdraw, BudgetKept
  <2> QED
    BY <1>3, <1>5, <2>1, Zenon DEF Withdrawals
<1>6. CASE TicketClaims \/ UnbondedClaims
  <2>1. UNCHANGED <<lotteries, prizes, sponsors, paid_glow>>
    <3>1. CASE TicketClaims
      BY <3>1, Zenon DEF TicketClaims, execute_claim_tickets, chain
    <3>2. CASE UnbondedClaims
      BY <3>2, Zenon DEF UnbondedClaims, execute_claim_unbonded
    <3> QED
      BY <1>6, <3>1, <3>2
  <2> QED
    BY <1>3, <2>1 DEF BudgetKept
<1>7. CASE Sponsorships
  <2>1. ASSUME NEW u \in Users, NEW amount, SponsorDeposit(u, amount)
        PROVE  GlowIsGranted' /\ GlowBudget'
    <3>1. /\ UNCHANGED <<lotteries, prizes, paid_glow>>
          /\ state' = [state EXCEPT !.sponsor_reward_emission_index = UpdatedSponsorIndex]
          /\ \E deposited : sponsors' = [sponsors EXCEPT ![u] = SponsorWithDeposit(u, deposited)]
      BY <2>1, Zenon DEF SponsorDeposit
    <3>2. state'.sponsor_reward_emission_index = UpdatedSponsorIndex
      BY <1>0, <3>1, Zenon DEF TypeOK, State
    <3> QED
      BY <1>0, <1>2, <3>1, <3>2, SponsorChangesBudget
  <2>2. ASSUME NEW u, NEW amount, NEW d, SponsorAward(u, amount, d) PROVE BudgetKept
    BY <2>2, Zenon DEF SponsorAward, BudgetKept
  <2> QED
    BY <1>3, <1>7, <2>1, <2>2, Zenon DEF Sponsorships, execute_sponsor
<1>8. CASE SponsorWithdrawals
  <2>1. PICK u \in Users : execute_sponsor_withdraw(u)
    BY <1>8, Zenon DEF SponsorWithdrawals
  <2>2. /\ UNCHANGED <<lotteries, prizes, paid_glow>>
        /\ state' = [state EXCEPT !.sponsor_reward_emission_index = UpdatedSponsorIndex]
        /\ sponsors' = [sponsors EXCEPT ![u] = SponsorWithDeposit(u, 0)]
    BY <2>1, Zenon DEF execute_sponsor_withdraw
  <2>3. state'.sponsor_reward_emission_index = UpdatedSponsorIndex
    BY <1>0, <2>2, Zenon DEF TypeOK, State
  <2> QED
    BY <1>0, <1>2, <2>2, <2>3, SponsorChangesBudget
<1>9. CASE RewardClaims
  <2>1. PICK u \in Users : execute_claim_rewards(u)
    BY <1>9, InputAssumption, Zenon DEF RewardClaims
  <2>2. lotteries' = lotteries
    BY <2>1, Zenon DEF execute_claim_rewards
  <2> QED
    BY <1>0, <1>2, <2>1, <2>2, ClaimRewardsBudget
<1>10. CASE execute_epoch_ops
  <2>1. BudgetKept
    BY <1>10, Zenon DEF execute_epoch_ops, BudgetKept
  <2> QED
    BY <1>3, <2>1
<1>11. CASE execute_lottery
  BY <1>0, <1>11, LotteryBudget
<1>13. CASE PrizeClaims
  <2>1. PICK u \in Users, ids \in SUBSET Draws, votes \in VotingBalances :
               execute_claim_lottery(u, ids, votes)
    BY <1>13, Zenon DEF PrizeClaims, Draws
  <2>2. votes \in [user : Nat, total : Nat]
    BY InputAssumption
  <2>3. lotteries' = lotteries
    BY <2>1, Zenon DEF execute_claim_lottery
  <2> QED
    BY <1>0, <1>2, <2>1, <2>2, <2>3, ClaimLotteryBudget
<1>15. CASE Configurations \/ Clock \/ UNCHANGED vars
  <2>1. BudgetKept
    BY <1>15, Zenon DEF Configurations, execute_update_config, execute_update_lottery_config,
       execute_register_contracts, Clock, NextBlock, vars, storage, chain, BudgetKept
  <2> QED
    BY <1>3, <2>1
<1> QED
  BY <1>4, <1>5, <1>6, <1>7, <1>8, <1>9, <1>10, <1>11, <1>13, <1>15, Zenon DEF Next

LEMMA InitGlow ==
    ASSUME Init
    PROVE  GlowBooks
<1>0. TypeOK
  BY InitType
<1>1. /\ config = InitConfig /\ ValidInstantiation /\ paid_glow = 0
      /\ state.sponsor_reward_emission_index = NewIndex(InitSponsorRate)
      /\ sponsors = [u \in Users |-> DefaultSponsor]
      /\ lotteries = [i \in Draws |-> DefaultLottery]
      /\ prizes = [i \in Draws |-> [u \in Users |-> NoPrize]]
  BY DEF Init, Draws
<1>3. RatesKept
  BY <1>1, LargestAssumption DEF RatesKept, NewIndex, ValidInstantiation
<1>4. GlowIsGranted
  <2>1. config.glow_prize_buckets \in [Buckets -> Nat]
    BY <1>0 DEF TypeOK, Config
  <2> QED
    BY <1>1, <2>1 DEF GlowIsGranted, DefaultLottery, ZeroBuckets
<1>5. GlowTotal(lotteries, prizes) = 0
  <2> DEFINE f == GlowBy(lotteries, prizes)
  <2>1. ASSUME NEW i \in Draws PROVE f[i] = 0
    <3>1. ~lotteries[i].awarded
      BY <1>1 DEF DefaultLottery
    <3> QED
      BY <3>1, NoGlowOwed DEF GlowBy
  <2> HIDE DEF f
  <2> QED
    BY <2>1, FiniteSets, SumZero DEF GlowTotal, f
<1>6. AccruedTotal(sponsors, 0) = 0
  <2> DEFINE f == AccruedIn(sponsors, 0)
  <2>1. ASSUME NEW u \in Users PROVE f[u] = 0
    <3>1. sponsors[u].pending_rewards = 0 /\ sponsors[u].lottery_deposit = 0
            /\ sponsors[u].reward_index = 0
      BY <1>1 DEF DefaultSponsor
    <3>2. f[u] = 0 + 0 * (0 - 0)
      BY <3>1 DEF AccruedIn
    <3> QED
      BY <3>2
  <2> HIDE DEF f
  <2> QED
    BY <2>1, FiniteSets, SumZero DEF AccruedTotal, f
<1>7. BoostTotal(GrantedDraws) \in Nat /\ MaxEmissionRate \in Nat
  BY <1>0, GlowTotalsTyped, LargestRate
<1>8. One * BoostTotal(GrantedDraws) \in Nat
  BY <1>7, MulNat, OneAssumption
<1>9. BudgetAt(0, sponsors, 0, 0, GlowTotal(lotteries, prizes), BoostTotal(GrantedDraws))
  <2>1. 0 * One + 0 + One * 0 = 0 /\ MaxEmissionRate * 0 = 0
    BY <1>7, OneAssumption
  <2>2. 0 <= 0 + One * BoostTotal(GrantedDraws)
    BY <1>8
  <2> QED
    BY <1>5, <1>6, <2>1, <2>2 DEF BudgetAt
<1>10. GlowBudget
  BY <1>1, <1>9 DEF GlowBudget, NewIndex
<1> QED
  BY <1>3, <1>4, <1>10 DEF GlowBooks

LEMMA BoostedIs ==
    ASSUME TypeOK
    PROVE  BoostedBuckets = BoostTotal(GrantedDraws)
<1> DEFINE f == [id \in Draws |-> SumOver(Buckets, LAMBDA i :
                   DecMul(GrantedGlow(id)[i], MaxBoost))]
<1>1. BoostedBuckets = SumFunction(f)
  BY DEF BoostedBuckets, SumOver, Draws
<1>2. ASSUME NEW id \in Draws PROVE f[id] = BoostOf(GrantedDraws[id])
  <2> DEFINE h == BoostIn(GrantedDraws[id])
  <2>1. GrantedDraws[id].glow_prize_buckets = GrantedGlow(id)
    BY GrantedTyped
  <2>2. f[id] = SumFunction(h) /\ DOMAIN h = Buckets
    BY <2>1 DEF SumOver, BoostIn
  <2> HIDE DEF h
  <2>3. SumFunction(h) = SumFunctionOnSet(h, Buckets)
    BY <2>2, SumOnDomain
  <2> QED
    BY <2>2, <2>3 DEF BoostOf, h
<1>3. f = BoostBy(GrantedDraws) /\ DOMAIN f = Draws
  BY <1>2 DEF BoostBy
<1> HIDE DEF f
<1> QED
  BY <1>1, <1>3, SumOnDomain DEF BoostTotal

LEMMA AccruedIs ==
    SumOver(Users, Accrued)
      = AccruedTotal(sponsors, state.sponsor_reward_emission_index.global_reward_index)
<1> DEFINE f == [u \in Users |-> Accrued(u)]
<1>1. SumOver(Users, Accrued) = SumFunction(f)
  BY DEF SumOver
<1>2. f = AccruedIn(sponsors, state.sponsor_reward_emission_index.global_reward_index)
  BY Zenon DEF Accrued, AccruedIn
<1>3. DOMAIN f = Users
  OBVIOUS
<1> HIDE DEF f
<1> QED
  BY <1>1, <1>2, <1>3, SumOnDomain DEF AccruedTotal

\* The GLOW that the distributor pays to sponsors and winners, with what the
\* sponsors still have coming, never exceeds what the largest emission rate
\* would have given out since the instantiation plus the GLOW buckets of the
\* draws at the largest boost: the index is brought up to date before every
\* change of a deposit, each prize is boosted and rounded on its own, and
\* nothing is paid twice, whatever rate or boost the owner sets when and
\* although anybody may have the past draws forgotten.  It says nothing of
\* what operators get.
THEOREM GlowStaysWithinBudget == Spec => []GlowWithinBudget
<1>1. Init => GlowBooks
  BY InitGlow
<1>2. IInv /\ IInv' /\ Books /\ UstBooks' /\ GlowBooks /\ [Next]_vars => GlowBooks'
  BY GlowStep
<1>3. IInv /\ GlowBooks => GlowWithinBudget
  <2> SUFFICES ASSUME IInv, GlowBooks PROVE GlowWithinBudget
    OBVIOUS
  <2> DEFINE index == state.sponsor_reward_emission_index
             p == paid_glow * One
             a == AccruedTotal(sponsors, index.global_reward_index)
             o == One * GlowTotal(lotteries, prizes)
             e == MaxEmissionRate * index.last_reward_updated
             b == BoostTotal(GrantedDraws)
  <2>1. RatesKept /\ p + a + o <= e + One * b
    BY DEF GlowBooks, GlowBudget, BudgetAt
  <2>2. p \in Nat /\ a \in Nat /\ o \in Nat /\ e \in Nat /\ b \in Nat
    <3>1. GlowTotal(lotteries, prizes) \in Nat /\ b \in Nat
      BY GlowTotalsTyped DEF IInv
    <3>2. a \in Nat
      BY BudgetTyped, AccruedTyped
    <3> QED
      BY <2>1, <3>1, <3>2, BudgetTyped, BudgetNat, MulNat, OneAssumption
  <2>3. GlowWithinBudget <=> (p + a <= e + b * One)
    BY BoostedIs, AccruedIs DEF GlowWithinBudget, IInv
  <2> HIDE DEF p, a, o, e, b
  <2>4. b * One = One * b /\ One * b \in Nat
    BY <2>2, MulNat, OneAssumption
  <2>5. p + a <= e + b * One
    BY <2>1, <2>2, <2>4
  <2> QED
    BY <2>3, <2>5
<1> QED
  BY <1>1, <1>2, <1>3, BooksKept, UstBooksKept, PTL DEF Spec

-----------------------------------------------------------------------------
(* Complete awards.  A page is the beginning of the keys that are left.    *)

LEMMA PageIsBeginning ==
    ASSUME NEW keys \in SUBSET Tickets, NEW limit \in Nat
    PROVE  \A s \in keys, t \in Page(keys, limit) : s < t => s \in Page(keys, limit)
<1> SUFFICES ASSUME NEW s \in keys, NEW t \in Page(keys, limit), s < t
             PROVE  s \in Page(keys, limit)
  OBVIOUS
<1> DEFINE A == {r \in keys : r < s}
           B == {r \in keys : r < t}
<1>1. \A r \in keys : r \in Nat
  BY TicketsAreNat
<1>2. t \in keys /\ Cardinality(B) < limit
  BY DEF Page
<1>3. A \subseteq B /\ B \subseteq Tickets
  BY <1>1, <1>2
<1>4. IsFiniteSet(B)
  BY <1>3, FiniteSets, FS_Subset
<1> HIDE DEF A, B
<1>5. IsFiniteSet(A) /\ Cardinality(A) <= Cardinality(B)
  BY <1>3, <1>4, FS_Subset
<1>6. Cardinality(A) \in Nat /\ Cardinality(B) \in Nat
  BY <1>4, <1>5, FS_CardinalityType
<1>7. Cardinality(A) < limit
  BY <1>2, <1>5, <1>6
<1> QED
  BY <1>7 DEF Page, A

LEMMA PageNotEmpty ==
    ASSUME NEW keys \in SUBSET Tickets, keys # {}, NEW limit \in Nat \ {0}
    PROVE  Page(keys, limit) # {}
<1>1. keys \in SUBSET Nat
  BY TicketsAreNat
<1>2. PICK k \in keys : \A l \in keys : k <= l
  BY <1>1, LeastNatural
<1>3. \A r \in keys : ~(r < k)
  <2>1. \A r \in keys : r \in Nat
    BY <1>1
  <2>2. k \in Nat /\ \A r \in keys : k <= r
    BY <1>2, <2>1
  <2> QED
    BY <2>1, <2>2
<1> DEFINE before == {r \in keys : r < k}
<1>4. Cardinality(before) < limit
  <2>1. Cardinality({}) = 0
    BY FS_EmptySet
  <2>2. before = {}
    BY <1>3
  <2> HIDE DEF before
  <2> QED
    BY <2>1, <2>2
<1> QED
  BY <1>4 DEF Page

\* No key is skipped between two pages.
LEMMA LeftIsRest ==
    ASSUME NEW keys \in SUBSET Tickets, NEW limit \in Nat \ {0}
    PROVE  /\ KeysLeft(keys, Page(keys, limit)) = keys \ Page(keys, limit)
           /\ \A s \in Page(keys, limit), t \in keys \ Page(keys, limit) : s < t
<1> DEFINE page == Page(keys, limit)
<1>1. \A t \in keys : t \in Nat
  BY TicketsAreNat
<1>2. page \subseteq keys /\ (keys # {} => page # {})
  BY PageNotEmpty DEF Page
<1>3. \A s \in keys, t \in page : s < t => s \in page
  BY PageIsBeginning
<1> HIDE DEF page
<1>4. \A s \in page, t \in keys \ page : s < t
  BY <1>1, <1>2, <1>3
<1>5. \A s \in page : ~(s < s)
  BY <1>1, <1>2
<1>6. KeysLeft(keys, page) = keys \ page
  <2>1. CASE page = {}
    BY <1>2, <2>1 DEF KeysLeft
  <2>2. CASE page # {}
    BY <1>4, <1>5, <2>2 DEF KeysLeft
  <2> QED
    BY <2>1, <2>2
<1> QED
  BY <1>4, <1>6 DEF page

-----------------------------------------------------------------------------
(* The matches counted so far are those of the winning keys before the     *)
(* stored page.                                                            *)

WinningTickets(ts, sequence, min) ==
    {t \in DOMAIN ts : FirstOfPrefix(t, min) = FirstOfPrefix(sequence, min)}

VisitedKeys(ts, l, min) ==
    IF l.page = None THEN {}
    ELSE {t \in WinningTickets(ts, l.sequence, min) : t < l.page}

\* How many of the keys with m matches u holds.
Hits(keys, sequence, m) == {t \in keys : count_seq_matches(sequence, t) = m}
MatchesAmong(ts, keys, sequence, u, m) ==
    SumFunctionOnSet([t \in Hits(keys, sequence, m) |-> ts[t][u]], Hits(keys, sequence, m))

\* The entries have exactly the matches among keys.
EntriesCount(ts, ps, keys, sequence) ==
    \A u \in Users, m \in Buckets :
        ps[u].matches[m] = MatchesAmong(ts, keys, sequence, u, m)

PagesCounted(ts, l, ps, min) ==
    /\ l.page # None =>
         /\ l.sequence # None
         /\ FirstOfPrefix(l.page, min) = FirstOfPrefix(l.sequence, min)
    /\ EntriesCount(ts, ps, VisitedKeys(ts, l, min), l.sequence)

MinimumMatches == get_minimum_matches_for_winning_ticket(config.prize_distribution)

\* The inductive invariant of the pages.
PagesInv ==
    /\ current_lottery.page # None => LotteryStarted
    /\ PagesCounted(tickets, current_lottery, prizes[state.current_lottery], MinimumMatches)

LEMMA NewMatchesAre ==
    ASSUME NEW page, NEW sequence, NEW u, NEW m
    PROVE  NewMatches(page, sequence, u, m) = MatchesAmong(tickets, page, sequence, u, m)
<1> DEFINE f == [t \in Hits(page, sequence, m) |-> tickets[t][u]]
<1>1. NewMatches(page, sequence, u, m) = SumFunction(f) /\ DOMAIN f = Hits(page, sequence, m)
  BY DEF NewMatches, SumOver, Hits
<1> HIDE DEF f
<1>2. SumFunction(f) = SumFunctionOnSet(f, Hits(page, sequence, m))
  BY <1>1, SumOnDomain
<1> QED
  BY <1>1, <1>2 DEF MatchesAmong, f

\* Two disjoint sets of keys are counted separately.
LEMMA MatchesOfUnion ==
    ASSUME NEW K \in SUBSET Tickets, NEW L \in SUBSET Tickets, K \cap L = {}, NEW sequence,
           NEW u, NEW m, NEW ts, \A t \in K \cup L : ts[t][u] \in Nat
    PROVE  MatchesAmong(ts, K \cup L, sequence, u, m)
             = MatchesAmong(ts, K, sequence, u, m) + MatchesAmong(ts, L, sequence, u, m)
<1> DEFINE S == Hits(K, sequence, m)
           T == Hits(L, sequence, m)
           f == [t \in S |-> ts[t][u]]
           g == [t \in T |-> ts[t][u]]
           h == [t \in S \cup T |-> ts[t][u]]
<1>1. Hits(K \cup L, sequence, m) = S \cup T
  BY DEF Hits
<1>2. S \cap T = {} /\ S \subseteq K /\ T \subseteq L
  BY DEF Hits
<1>3. IsFiniteSet(S) /\ IsFiniteSet(T)
  BY <1>2, FiniteSets, FS_Subset
<1> HIDE DEF S, T
<1>4. /\ \A t \in S \cup T : h[t] \in Int
      /\ \A t \in S : h[t] = f[t]
      /\ \A t \in T : h[t] = g[t]
  BY <1>2
<1> HIDE DEF f, g, h
<1>5. SumFunctionOnSet(h, S \cup T) = SumFunctionOnSet(h, S) + SumFunctionOnSet(h, T)
  BY <1>2, <1>3, <1>4, SumUnion
<1>6. SumFunctionOnSet(h, S) = SumFunctionOnSet(f, S)
  BY <1>3, <1>4, SumSame
<1>7. SumFunctionOnSet(h, T) = SumFunctionOnSet(g, T)
  BY <1>3, <1>4, SumSame
<1>8. MatchesAmong(ts, K \cup L, sequence, u, m) = SumFunctionOnSet(h, S \cup T)
  BY <1>1 DEF MatchesAmong, h
<1>9. /\ MatchesAmong(ts, K, sequence, u, m) = SumFunctionOnSet(f, S)
      /\ MatchesAmong(ts, L, sequence, u, m) = SumFunctionOnSet(g, T)
  BY DEF MatchesAmong, f, g, S, T
<1> QED
  BY <1>5, <1>6, <1>7, <1>8, <1>9

LEMMA NothingHit ==
    ASSUME NEW K, NEW sequence, NEW u, NEW m, NEW ts, Hits(K, sequence, m) = {}
    PROVE  MatchesAmong(ts, K, sequence, u, m) = 0
  BY SumEmpty DEF MatchesAmong

\* Before the first page nothing is counted.
LEMMA NothingCounted ==
    ASSUME NEW l, l.page = None, NEW ps,
           \A u \in Users : ps[u] = NoPrize, NEW ts, NEW min
    PROVE  PagesCounted(ts, l, ps, min)
<1> SUFFICES ASSUME NEW u \in Users, NEW m \in Buckets
             PROVE  ps[u].matches[m] = MatchesAmong(ts, VisitedKeys(ts, l, min), l.sequence, u, m)
  BY DEF PagesCounted, EntriesCount
<1>1. VisitedKeys(ts, l, min) = {}
  BY DEF VisitedKeys
<1>2. Hits(VisitedKeys(ts, l, min), l.sequence, m) = {}
  BY <1>1 DEF Hits
<1>3. MatchesAmong(ts, VisitedKeys(ts, l, min), l.sequence, u, m) = 0
  BY <1>2, NothingHit
<1>4. ps[u].matches[m] = 0
  BY DEF NoPrize, ZeroBuckets
<1> QED
  BY <1>3, <1>4

-----------------------------------------------------------------------------
(* One call of execute_prize.                                              *)

\* It visits the winning keys that have not been visited.
LEMMA KeysAreUnvisited ==
    ASSUME TypeOK, PagesInv, NEW sequence \in SequencesToDraw,
           HasWinningTier(config.prize_distribution)
    PROVE  LET visited == VisitedKeys(tickets, current_lottery, MinimumMatches)
               winning == WinningTickets(tickets, sequence, MinimumMatches)
           IN /\ visited \subseteq winning
              /\ KeysToVisit(sequence) = winning \ visited
              /\ \A s \in visited, t \in winning \ visited : s < t
              /\ current_lottery.page # None => sequence = current_lottery.sequence
<1> DEFINE l == current_lottery
           min == MinimumMatches
           visited == VisitedKeys(tickets, l, min)
           winning == WinningTickets(tickets, sequence, min)
           keys == KeysToVisit(sequence)
           first == MinBound(sequence)
<1>1. min \in Buckets
  BY MinimumIsTier DEF MinimumMatches
<1>2. sequence \in Nat
  BY SequenceType, TicketsAreNat
<1>3. l \in LotteryInfo
  BY DEF TypeOK, State, current_lottery
<1>4. l.page \in Nat \cup {None} /\ None \notin Nat
  BY <1>3, TicketsAreNat, NoneAssumption DEF LotteryInfo
<1>5. DOMAIN tickets \subseteq Nat
  BY TicketsAreNat DEF TypeOK
<1>6. keys = {t \in DOMAIN tickets : t \in first .. calculate_max_bound(first, min)}
  BY DEF KeysToVisit, WinningKeys, MinimumMatches
<1>7. /\ l.page = None => first = FirstOfPrefix(sequence, min)
      /\ l.page # None => first = l.page
  BY DEF MinBound, MinimumMatches
<1>8. l.page # None => /\ sequence = l.sequence
                       /\ FirstOfPrefix(l.page, min) = FirstOfPrefix(sequence, min)
  BY DEF PagesInv, PagesCounted, SequencesToDraw
<1> DEFINE f == FirstOfPrefix(sequence, min)
<1>9. f \in Nat
  BY <1>1, <1>2, PrefixBounds
<1> HIDE DEF first, l, min, keys
<1>10. first \in Nat /\ FirstOfPrefix(first, min) = f /\ f <= first
  <2>1. CASE l.page = None
    <3>1. min <= min
      BY <1>1, TicketAssumption DEF Buckets
    <3>2. FirstOfPrefix(f, min) = f
      BY <1>1, <1>2, <3>1, CoarserPrefix
    <3> HIDE DEF f
    <3> QED
      BY <1>7, <1>9, <2>1, <3>2 DEF f
  <2>2. CASE l.page # None
    <3>1. first \in Nat /\ FirstOfPrefix(first, min) = f
      BY <1>4, <1>7, <1>8, <2>2
    <3> QED
      BY <1>1, <3>1, PrefixBounds
  <2> QED
    BY <2>1, <2>2
<1>11. ASSUME NEW t \in DOMAIN tickets
       PROVE  t \in keys <=> t \in winning /\ first <= t
  <2>1. t \in Nat
    BY <1>5
  <2>2. t <= calculate_max_bound(first, min) <=> t < f + SizeOfPrefix(min)
    BY <1>1, <1>10, <2>1, MaxBoundIs
  <2>3. calculate_max_bound(first, min) \in Int
    <3>1. SizeOfPrefix(min) \in Nat
      BY <1>1, SizeType
    <3>2. calculate_max_bound(first, min) = f + SizeOfPrefix(min) - 1
      BY <1>10 DEF calculate_max_bound, SizeOfPrefix
    <3> HIDE DEF f
    <3> QED
      BY <1>9, <3>1, <3>2
  <2>4. t \in keys <=> first <= t /\ t <= calculate_max_bound(first, min)
    BY <1>6, <1>10, <2>1, <2>3
  <2>5. ASSUME first <= t, t < f + SizeOfPrefix(min)
        PROVE  FirstOfPrefix(t, min) = f
    <3>1. f <= t
      BY <1>9, <1>10, <2>1, <2>5
    <3> QED
      BY <1>1, <1>2, <2>1, <2>5, <3>1, PrefixInterval
  <2>6. ASSUME FirstOfPrefix(t, min) = f
        PROVE  f <= t /\ t < f + SizeOfPrefix(min)
    BY <1>1, <2>1, <2>6, PrefixBounds
  <2>7. t \in winning <=> FirstOfPrefix(t, min) = f
    BY DEF WinningTickets
  <2> QED
    BY <2>2, <2>4, <2>5, <2>6, <2>7
<1>12. \A t \in winning : f <= t /\ t \in Nat /\ t \in DOMAIN tickets
  <2>1. ASSUME NEW t \in winning PROVE f <= t
    <3>1. t \in Nat /\ FirstOfPrefix(t, min) = f
      BY <1>5 DEF WinningTickets
    <3> QED
      BY <1>1, <3>1, PrefixBounds
  <2> QED
    BY <1>5, <2>1 DEF WinningTickets
<1>13. visited = {t \in winning : t < first}
  <2>1. CASE l.page = None
    BY <1>7, <1>9, <1>12, <2>1 DEF VisitedKeys
  <2>2. CASE l.page # None
    BY <1>7, <1>8, <2>2 DEF VisitedKeys
  <2> QED
    BY <2>1, <2>2
<1>14. keys \subseteq DOMAIN tickets
  BY <1>6
<1> HIDE DEF visited, winning, f
<1>15. keys = winning \ visited
  BY <1>10, <1>11, <1>12, <1>13, <1>14
<1>16. visited \subseteq winning /\ \A s \in visited, t \in winning \ visited : s < t
  BY <1>10, <1>12, <1>13
<1> QED
  BY <1>8, <1>15, <1>16 DEF visited, winning, keys, l, min

\* What it adds to the entries.
LEMMA EntriesAfter ==
    ASSUME TypeOK, NEW ps \in [Users -> PrizeInfo], NEW visited \in SUBSET (DOMAIN tickets),
           NEW page \in SUBSET (DOMAIN tickets), visited \cap page = {}, NEW sequence,
           EntriesCount(tickets, ps, visited, sequence)
    PROVE  EntriesCount(tickets, PrizesAfter(ps, page, sequence), visited \cup page, sequence)
<1> SUFFICES ASSUME NEW u \in Users, NEW m \in Buckets
             PROVE  PrizesAfter(ps, page, sequence)[u].matches[m]
                      = MatchesAmong(tickets, visited \cup page, sequence, u, m)
  BY DEF EntriesCount
<1> DEFINE new == [k \in Buckets |-> ps[u].matches[k] + NewMatches(page, sequence, u, k)]
           after == PrizesAfter(ps, page, sequence)
<1>1. after[u] = [ps[u] EXCEPT !.matches = new]
  BY DEF PrizesAfter
<1>2. new[m] = ps[u].matches[m] + NewMatches(page, sequence, u, m)
  OBVIOUS
<1>3. ps[u] \in PrizeInfo
  OBVIOUS
<1> HIDE DEF new, after
<1>4. after[u].matches = new
  BY <1>1, <1>3, Zenon DEF PrizeInfo
<1>5. visited \in SUBSET Tickets /\ page \in SUBSET Tickets
  BY DEF TypeOK
<1>6. \A t \in visited \cup page : tickets[t][u] \in Nat
  <2>1. tickets \in [DOMAIN tickets -> [Users -> Nat]]
    BY DEF TypeOK
  <2>2. \A t \in visited \cup page : t \in DOMAIN tickets
    OBVIOUS
  <2> QED
    BY <2>1, <2>2
<1>7. MatchesAmong(tickets, visited \cup page, sequence, u, m)
        = MatchesAmong(tickets, visited, sequence, u, m)
            + MatchesAmong(tickets, page, sequence, u, m)
  BY <1>5, <1>6, MatchesOfUnion
<1>8. ps[u].matches[m] = MatchesAmong(tickets, visited, sequence, u, m)
  BY DEF EntriesCount
<1> QED
  BY <1>2, <1>4, <1>7, <1>8, NewMatchesAre DEF after
\* The page extends what has been visited without a gap, until nothing is left.
LEMMA PageCovers ==
    ASSUME TypeOK, PagesInv, NEW sequence \in SequencesToDraw,
           HasWinningTier(config.prize_distribution), NEW limit \in Nat \ {0}
    PROVE  LET page    == Page(KeysToVisit(sequence), limit)
               left    == KeysLeft(KeysToVisit(sequence), page)
               winning == WinningTickets(tickets, sequence, MinimumMatches)
           IN \E covered \in SUBSET winning :
                /\ left = winning \ covered
                /\ \A first \in left : (\A t \in left : first <= t)
                     => covered = {t \in winning : t < first}
                /\ EntriesCount(tickets,
                        PrizesAfter(prizes[state.current_lottery], page, sequence),
                        covered, sequence)
<1> DEFINE l == current_lottery
           ps == prizes[state.current_lottery]
           min == MinimumMatches
           keys == KeysToVisit(sequence)
           page == Page(keys, limit)
           left == KeysLeft(keys, page)
           visited == VisitedKeys(tickets, l, min)
           winning == WinningTickets(tickets, sequence, min)
           covered == visited \cup page
<1>1. /\ visited \subseteq winning /\ keys = winning \ visited
      /\ \A s \in visited, t \in winning \ visited : s < t
      /\ l.page # None => sequence = l.sequence
  BY KeysAreUnvisited
<1>2. winning \subseteq DOMAIN tickets /\ DOMAIN tickets \subseteq Tickets
  BY DEF WinningTickets, TypeOK
<1>3. keys \in SUBSET Tickets
  BY <1>1, <1>2
<1>4. /\ left = keys \ page /\ page \subseteq keys
      /\ \A s \in page, t \in keys \ page : s < t
  <2> HIDE DEF keys
  <2> QED
    BY <1>3, LeftIsRest DEF Page
<1>5. ps \in [Users -> PrizeInfo]
  BY DEF TypeOK, State
<1>6. EntriesCount(tickets, ps, visited, sequence)
  <2> SUFFICES ASSUME NEW u \in Users, NEW m \in Buckets
               PROVE  ps[u].matches[m] = MatchesAmong(tickets, visited, sequence, u, m)
    BY DEF EntriesCount
  <2>1. ps[u].matches[m] = MatchesAmong(tickets, visited, l.sequence, u, m)
    BY DEF PagesInv, PagesCounted, EntriesCount
  <2>2. CASE l.page # None
    BY <1>1, <2>1, <2>2
  <2>3. CASE l.page = None
    <3>1. visited = {}
      BY <2>3 DEF VisitedKeys
    <3> HIDE DEF visited
    <3>2. Hits(visited, l.sequence, m) = {} /\ Hits(visited, sequence, m) = {}
      BY <3>1 DEF Hits
    <3>3. /\ MatchesAmong(tickets, visited, l.sequence, u, m) = 0
          /\ MatchesAmong(tickets, visited, sequence, u, m) = 0
      BY <3>2, NothingHit
    <3> QED
      BY <2>1, <3>3 DEF visited
  <2> QED
    BY <2>2, <2>3
<1> HIDE DEF l, ps, min, keys, page, left, visited, winning
<1>7. visited \cap page = {} /\ page \subseteq winning
  BY <1>1, <1>4
<1>8. visited \in SUBSET (DOMAIN tickets) /\ page \in SUBSET (DOMAIN tickets)
  BY <1>1, <1>2, <1>7
<1>9. EntriesCount(tickets, PrizesAfter(ps, page, sequence), covered, sequence)
  BY <1>5, <1>6, <1>7, <1>8, EntriesAfter
<1>10. covered \in SUBSET winning /\ left = winning \ covered
  BY <1>1, <1>4, <1>7
<1>11. ASSUME NEW first \in left, \A t \in left : first <= t
       PROVE  covered = {t \in winning : t < first}
  <2>1. \A t \in winning : t \in Nat
    BY <1>2, TicketsAreNat
  <2>2. first \in winning /\ first \in keys /\ first \in Nat
    BY <1>4, <1>10, <2>1
  <2>3. ASSUME NEW t \in covered PROVE t < first
    BY <1>1, <1>4, <1>11, <2>2, <2>3
  <2>4. ASSUME NEW t \in winning, t < first PROVE t \in covered
    <3>1. t \notin left
      BY <1>11, <2>1, <2>2, <2>4
    <3> QED
      BY <1>10, <3>1
  <2> HIDE DEF covered
  <2> QED
    BY <1>10, <2>3, <2>4
<1> HIDE DEF covered
<1> QED
  BY <1>9, <1>10, <1>11 DEF l, ps, min, keys, page, left, winning

\* The winning tickets are those with at least the minimum of matches.
LEMMA WinnersAreWinning ==
    ASSUME TypeOK, NEW sequence \in Tickets, NEW min \in Buckets, NEW u, NEW m \in Buckets
    PROVE  MatchesAmong(tickets, WinningTickets(tickets, sequence, min), sequence, u, m)
             = IF m >= min THEN TicketWinners(sequence, u, m) ELSE 0
<1> DEFINE winning == WinningTickets(tickets, sequence, min)
<1>1. DOMAIN tickets \subseteq Tickets
  BY DEF TypeOK
<1>2. \A t \in DOMAIN tickets : t \in winning <=> count_seq_matches(sequence, t) >= min
  BY <1>1, MatchesAtLeast DEF WinningTickets
<1>3. winning \subseteq DOMAIN tickets
  BY DEF WinningTickets
<1> HIDE DEF winning
<1>4. CASE m >= min
  <2>1. Hits(winning, sequence, m) = Hits(DOMAIN tickets, sequence, m)
    BY <1>2, <1>3, <1>4 DEF Hits
  <2>2. MatchesAmong(tickets, winning, sequence, u, m)
          = MatchesAmong(tickets, DOMAIN tickets, sequence, u, m)
    BY <2>1 DEF MatchesAmong
  <2> DEFINE f == [t \in Hits(DOMAIN tickets, sequence, m) |-> tickets[t][u]]
  <2>3. /\ TicketWinners(sequence, u, m) = SumFunction(f)
        /\ DOMAIN f = Hits(DOMAIN tickets, sequence, m)
    BY DEF TicketWinners, SumOver, Hits
  <2> HIDE DEF f
  <2>4. SumFunction(f) = SumFunctionOnSet(f, Hits(DOMAIN tickets, sequence, m))
    BY <2>3, SumOnDomain
  <2>5. TicketWinners(sequence, u, m) = MatchesAmong(tickets, DOMAIN tickets, sequence, u, m)
    BY <2>3, <2>4 DEF MatchesAmong, f
  <2> QED
    BY <1>4, <2>2, <2>5 DEF winning
<1>5. CASE ~(m >= min)
  <2>1. Hits(winning, sequence, m) = {}
    BY <1>2, <1>3, <1>5 DEF Hits
  <2>2. MatchesAmong(tickets, winning, sequence, u, m) = 0
    BY <2>1, NothingHit
  <2> QED
    BY <1>5, <2>2 DEF winning
<1> QED
  BY <1>4, <1>5

\* The award has counted every winning ticket, and every winner.
LEMMA AwardCounted ==
    ASSUME TypeOK, NEW i \in Draws, NEW sequence \in Tickets,
           HasWinningTier(config.prize_distribution),
           lotteries'[i].sequence = sequence,
           MatchesCounted(lotteries'[i], prizes'[i]),
           EntriesCount(tickets, prizes'[i],
                        WinningTickets(tickets, sequence, MinimumMatches), sequence)
    PROVE  CompletelyAwarded(i)
<1> DEFINE min == MinimumMatches
           l == lotteries'[i]
           ps == prizes'[i]
<1>1. min \in Buckets
  BY MinimumIsTier DEF MinimumMatches
<1>2. \A u \in Users, m \in Buckets :
         ps[u].matches[m] = IF m >= min THEN TicketWinners(sequence, u, m) ELSE 0
  <2> HIDE DEF min
  <2>1. \A u \in Users, m \in Buckets : ps[u].matches[m]
             = MatchesAmong(tickets, WinningTickets(tickets, sequence, min), sequence, u, m)
    BY DEF min, EntriesCount
  <2> QED
    BY <1>1, <2>1, WinnersAreWinning
<1>3. ASSUME NEW m \in Buckets
      PROVE  l.number_winners[m] = SumOver(Users, LAMBDA u : ps[u].matches[m])
  <2> DEFINE f == MatchesIn(ps, m)
  <2>1. SumOver(Users, LAMBDA u : ps[u].matches[m]) = SumFunction(f) /\ DOMAIN f = Users
    BY DEF SumOver, MatchesIn
  <2>2. l.number_winners[m] = SumFunctionOnSet(f, Users)
    BY DEF MatchesCounted
  <2> HIDE DEF f
  <2>3. SumFunction(f) = SumFunctionOnSet(f, Users)
    BY <2>1, SumOnDomain
  <2> QED
    BY <2>1, <2>2, <2>3
<1> QED
  BY <1>2, <1>3 DEF CompletelyAwarded, MinimumMatches

LEMMA PrizePages ==
    ASSUME IInv, IInv', UstBooks', PagesInv, NEW limit \in Nat \ {0}, execute_prize(limit)
    PROVE  /\ PagesInv'
           /\ \A i \in Draws : ~lotteries[i].awarded /\ lotteries'[i].awarded
                                 => CompletelyAwarded(i)
<1> DEFINE cur == state.current_lottery
<1>1. TypeOK /\ TypeOK' /\ LotteryLifecycle /\ LotteryLifecycle'
  BY DEF IInv
<1>2. UNCHANGED <<config, tickets>>
  BY Zenon DEF execute_prize
<1>3. LotteryStarted /\ HasWinningTier(config.prize_distribution)
  BY Zenon DEF execute_prize
<1>4. PICK sequence \in SequencesToDraw :
         LET keys    == KeysToVisit(sequence)
             page    == Page(keys, limit)
             left    == KeysLeft(keys, page)
             winners == WinnersAfter(current_lottery, page, sequence)
             entries == PrizesAfter(prizes[cur], page, sequence)
             lottery == [current_lottery EXCEPT !.sequence = sequence,
                                                !.number_winners = winners]
         IN /\ prizes' = [prizes EXCEPT ![cur] = entries]
            /\ \/ /\ \E first \in left :
                       /\ \A t \in left : first <= t
                       /\ lotteries' = [lotteries EXCEPT ![cur] =
                                          [lottery EXCEPT !.page = first]]
                  /\ UNCHANGED state
               \/ /\ left = {}
                  /\ lotteries' = [lotteries EXCEPT ![cur] =
                                     AwardedLottery(lottery, winners)]
                  /\ state' = StateAfterAward(winners)
  BY Zenon DEF execute_prize
<1> DEFINE page    == Page(KeysToVisit(sequence), limit)
           left    == KeysLeft(KeysToVisit(sequence), page)
           winners == WinnersAfter(current_lottery, page, sequence)
           entries == PrizesAfter(prizes[cur], page, sequence)
           lottery == [current_lottery EXCEPT !.sequence = sequence,
                                              !.number_winners = winners]
           min     == MinimumMatches
           winning == WinningTickets(tickets, sequence, min)
<1>5. /\ prizes' = [prizes EXCEPT ![cur] = entries]
      /\ \/ /\ \E first \in left :
                 /\ \A t \in left : first <= t
                 /\ lotteries' = [lotteries EXCEPT ![cur] = [lottery EXCEPT !.page = first]]
            /\ UNCHANGED state
         \/ /\ left = {}
            /\ lotteries' = [lotteries EXCEPT ![cur] = AwardedLottery(lottery, winners)]
            /\ state' = StateAfterAward(winners)
  BY <1>4, Zenon
<1>6. sequence \in Tickets /\ sequence # None
  BY <1>1, SequenceType, TicketsAreNat, NoneAssumption
<1>7. PICK covered \in SUBSET winning :
        /\ left = winning \ covered
        /\ \A first \in left : (\A t \in left : first <= t)
             => covered = {t \in winning : t < first}
        /\ EntriesCount(tickets, entries, covered, sequence)
  BY <1>1, <1>3, PageCovers
<1>8. /\ cur \in Draws
      /\ lotteries \in [Draws -> LotteryInfo]
      /\ prizes \in [Draws -> [Users -> PrizeInfo]]
      /\ current_lottery \in LotteryInfo
      /\ ~current_lottery.awarded
  BY <1>1 DEF TypeOK, State, Draws, current_lottery, LotteryLifecycle
<1> HIDE DEF page, left, winners, entries, min
<1>9. /\ lottery \in [rand_round : {current_lottery.rand_round}, sequence : {sequence},
              awarded : {current_lottery.awarded},
              timestamp : Nat, block_height : Nat, prize_buckets : [Buckets -> Nat],
              number_winners : {winners},
              page : Tickets \cup {None}, glow_prize_buckets : [Buckets -> Nat],
              total_user_shares : Nat]
  BY <1>8, Zenon DEF LotteryInfo
<1> HIDE DEF lottery
<1>10. /\ prizes'[cur] = entries
       /\ \A j \in Draws \ {cur} : prizes'[j] = prizes[j]
  BY <1>5, <1>8, Zenon
<1>11. ASSUME NEW first \in left, \A t \in left : first <= t, UNCHANGED state,
              lotteries' = [lotteries EXCEPT ![cur] = [lottery EXCEPT !.page = first]]
       PROVE  /\ PagesInv'
              /\ \A i \in Draws : ~lotteries[i].awarded => ~lotteries'[i].awarded
  <2> DEFINE new == [lottery EXCEPT !.page = first]
  <2>1. /\ new.page = first /\ new.sequence = sequence
        /\ new.awarded = current_lottery.awarded
        /\ new.rand_round = current_lottery.rand_round
    BY <1>9, Zenon
  <2> HIDE DEF new
  <2>2. lotteries'[cur] = new /\ \A j \in Draws \ {cur} : lotteries'[j] = lotteries[j]
    BY <1>8, <1>11, Zenon DEF new
  <2>3. first \in winning
    BY <1>7
  <2>4. FirstOfPrefix(first, min) = FirstOfPrefix(sequence, min)
    BY <2>3 DEF WinningTickets
  <2>5. covered = {t \in winning : t < first}
    BY <1>7, <1>11
  <2>6. first # None
    <3>1. first \in Nat
      BY <1>1, <2>3, TicketsAreNat DEF WinningTickets, TypeOK
    <3> QED
      BY <3>1, NoneAssumption
  <2>7. VisitedKeys(tickets, new, min) = covered
    BY <2>1, <2>5, <2>6 DEF VisitedKeys
  <2>8. PagesCounted(tickets, new, entries, min)
    BY <1>6, <1>7, <2>1, <2>4, <2>7 DEF PagesCounted
  <2>9. current_lottery' = new /\ prizes'[state'.current_lottery] = entries
    BY <1>10, <1>11, <2>2 DEF current_lottery
  <2>10. LotteryStarted'
    BY <1>3, <2>1, <2>9 DEF LotteryStarted
  <2>11. MinimumMatches' = min
    BY <1>2 DEF MinimumMatches, min
  <2>12. PagesInv'
    BY <1>2, <2>8, <2>9, <2>10, <2>11 DEF PagesInv
  <2> QED
    BY <1>8, <2>1, <2>2, <2>12
<1>12. ASSUME left = {},
              lotteries' = [lotteries EXCEPT ![cur] = AwardedLottery(lottery, winners)],
              state' = StateAfterAward(winners)
       PROVE  /\ PagesInv'
              /\ \A i \in Draws : ~lotteries[i].awarded /\ lotteries'[i].awarded
                                    => CompletelyAwarded(i)
  <2> DEFINE new == AwardedLottery(lottery, winners)
  <2>1. new.sequence = sequence /\ new.awarded
    <3>1. \E a, b : new = [lottery EXCEPT !.awarded = TRUE, !.prize_buckets = a,
                                          !.glow_prize_buckets = b]
      BY Zenon DEF AwardedLottery
    <3> HIDE DEF new
    <3> QED
      BY <1>9, <3>1, Zenon
  <2> HIDE DEF new
  <2>2. lotteries'[cur] = new /\ \A j \in Draws \ {cur} : lotteries'[j] = lotteries[j]
    BY <1>8, <1>12, Zenon DEF new
  <2>3. covered = winning
    BY <1>7, <1>12
  <2>4. MatchesCounted(lotteries'[cur], prizes'[cur])
    BY <1>8, <2>1, <2>2 DEF UstBooks, DrawCounted
  <2>5. EntriesCount(tickets, prizes'[cur],
                     WinningTickets(tickets, sequence, MinimumMatches), sequence)
    BY <1>7, <1>10, <2>3 DEF min
  <2>6. CompletelyAwarded(cur)
    <3>1. lotteries'[cur].sequence = sequence
      BY <2>1, <2>2
    <3> HIDE DEF cur, winning
    <3> QED
      BY <1>1, <1>3, <1>6, <1>8, <2>4, <2>5, <3>1, AwardCounted
  <2>7. ASSUME NEW i \in Draws, ~lotteries[i].awarded, lotteries'[i].awarded
        PROVE  CompletelyAwarded(i)
    <3>1. i = cur
      BY <2>2, <2>7
    <3> QED
      BY <2>6, <3>1
  <2> DEFINE next == state'.current_lottery
  <2>8. next = cur + 1
    <3> DEFINE number == state.current_lottery + 1
    <3>1. \E a, b, c : state' = [state EXCEPT !.total_reserve = a, !.prize_buckets = b,
                                   !.current_lottery = number,
                                   !.next_lottery_time = c, !.next_lottery_exec_time = None]
      BY <1>12, Zenon DEF StateAfterAward
    <3>2. state \in State
      BY <1>1 DEF TypeOK
    <3> HIDE DEF number
    <3>3. state'.current_lottery = number
      BY <3>1, <3>2, Zenon DEF State
    <3> QED
      BY <3>3 DEF number
  <2>9. next \in Draws /\ next > cur /\ next # cur /\ cur \in Nat
    <3>1. next \in Draws
      BY <1>1 DEF TypeOK, State, Draws
    <3> HIDE DEF next, cur
    <3>2. cur \in Nat
      BY <1>8 DEF Draws
    <3> QED
      BY <2>8, <3>1, <3>2
  <2>10. lotteries'[next] = DefaultLottery /\ prizes'[next] = prizes[next]
         /\ \A u \in Users : prizes[next][u] = NoPrize
    BY <1>1, <1>10, <2>2, <2>9 DEF LotteryLifecycle, Draws
  <2>11. current_lottery'.page = None
    BY <2>10 DEF current_lottery, DefaultLottery
  <2> HIDE DEF next
  <2>12. \A u \in Users : prizes'[next][u] = NoPrize
    BY <2>10
  <2>13. PagesCounted(tickets', current_lottery', prizes'[next], MinimumMatches')
    BY <2>11, <2>12, NothingCounted
  <2>14. PagesInv'
    BY <2>11, <2>13 DEF PagesInv, next
  <2> QED
    BY <2>7, <2>14
<1> QED
  BY <1>5, <1>11, <1>12, Zenon

-----------------------------------------------------------------------------
(* The other steps, and the theorem.                                       *)

\* Nothing is counted of a draw that has not started.
LEMMA NotStartedPages ==
    ASSUME LotteryLifecycle, state.current_lottery \in Draws, ~LotteryStarted,
           current_lottery.page = None
    PROVE  PagesInv
<1>1. \A u \in Users : prizes[state.current_lottery][u] = NoPrize
  BY DEF LotteryLifecycle, Draws
<1>2. PagesCounted(tickets, current_lottery, prizes[state.current_lottery], MinimumMatches)
  BY <1>1, NothingCounted
<1> QED
  BY <1>2 DEF PagesInv

\* Whoever changes the distribution while a draw is running changes the
\* minimum number of matches between two pages.
DistributionKept == LotteryStarted => config'.prize_distribution = config.prize_distribution

LEMMA PagesStep ==
    ASSUME IInv, IInv', UstBooks', PagesInv, 0 \notin Limits, Next, DistributionKept
    PROVE  /\ PagesInv'
           /\ \A i \in Draws : ~lotteries[i].awarded /\ lotteries'[i].awarded
                                 => CompletelyAwarded(i)
<1> DEFINE cur == state.current_lottery
<1>1. TypeOK /\ TypeOK' /\ LotteryLifecycle /\ LotteryLifecycle'
  BY DEF IInv
<1>2. /\ cur \in Draws /\ state'.current_lottery \in Draws
      /\ lotteries \in [Draws -> LotteryInfo]
  BY <1>1 DEF TypeOK, State, Draws
<1>3. CASE PrizeExecutions
  <2>1. PICK limit \in Limits : execute_prize(limit)
    BY <1>3, Zenon DEF PrizeExecutions
  <2>2. limit \in Nat \ {0}
    BY InputAssumption
  <2> QED
    BY <2>1, <2>2, PrizePages
<1>4. ASSUME execute_lottery
      PROVE  PagesInv' /\ \A i \in Draws : ~lotteries[i].awarded => ~lotteries'[i].awarded
  <2>1. PICK round, height, time, shares : lotteries' = [lotteries EXCEPT ![cur] =
          [DefaultLottery EXCEPT !.rand_round = round, !.block_height = height,
                                 !.timestamp = time, !.total_user_shares = shares]]
    BY <1>4, Zenon DEF execute_lottery
  <2>2. PICK when, buckets, r : state' = [state EXCEPT
             !.next_lottery_exec_time = when,
             !.prize_buckets = buckets,
             !.last_lottery_execution_aust_exchange_rate = r]
    BY <1>4, Zenon DEF execute_lottery
  <2>3. ~LotteryStarted /\ prizes' = prizes
    BY <1>4, Zenon DEF execute_lottery, LotteryNotStarted
  <2>4. state \in State
    BY <1>1 DEF TypeOK
  <2>5. state'.current_lottery = cur
    BY <2>2, <2>4, Zenon DEF State
  <2>6. lotteries'[cur].page = None /\ lotteries'[cur].awarded = FALSE
    BY <1>2, <2>1, Zenon DEF DefaultLottery
  <2>7. \A j \in Draws \ {cur} : lotteries'[j] = lotteries[j]
    BY <1>2, <2>1, Zenon
  <2>8. \A u \in Users : prizes'[state'.current_lottery][u] = NoPrize
    BY <1>1, <1>2, <2>3, <2>5 DEF LotteryLifecycle, Draws
  <2>9. current_lottery'.page = None
    BY <2>5, <2>6 DEF current_lottery
  <2>10. PagesCounted(tickets', current_lottery', prizes'[state'.current_lottery],
                      MinimumMatches')
    BY <2>8, <2>9, NothingCounted
  <2>11. PagesInv'
    BY <2>9, <2>10 DEF PagesInv
  <2> QED
    BY <2>6, <2>7, <2>11
<1>5. ASSUME ~PrizeExecutions, ~execute_lottery
      PROVE  PagesInv' /\ \A i \in Draws : ~lotteries[i].awarded => ~lotteries'[i].awarded
  <2>1. /\ current_lottery' = current_lottery
        /\ \A i \in Draws : ~lotteries[i].awarded => ~lotteries'[i].awarded
    <3>1. state'.current_lottery = cur
      BY <1>1, <1>5, IndexSteps
    <3>2. CASE migrate_old_depositors
      BY <1>1, <3>2, Forgetting DEF Draws
    <3>3. CASE ~migrate_old_depositors
      <4>1. ASSUME PrizeClaims PROVE lotteries' = lotteries
        BY <4>1, ZenonT(30) DEF PrizeClaims, execute_claim_lottery
      <4>2. lotteries' = lotteries
        BY <1>5, <3>3, <4>1, OthersKeepDraws
      <4> QED
        BY <3>1, <4>2 DEF current_lottery
    <3> QED
      BY <3>2, <3>3
  <2>2. state'.current_lottery = cur
    BY <1>1, <1>5, IndexSteps
  <2>3. current_lottery' = current_lottery
    BY <2>1
  <2>4. LotteryStarted' = LotteryStarted
    BY <2>3 DEF LotteryStarted
  <2>5. CASE ~LotteryStarted
    <3>1. ~LotteryStarted' /\ current_lottery'.page = None
      BY <2>3, <2>4, <2>5 DEF PagesInv
    <3>2. \A u \in Users : prizes'[state'.current_lottery][u] = NoPrize
      BY <1>1, <1>2, <3>1 DEF LotteryLifecycle, Draws
    <3>3. PagesCounted(tickets', current_lottery', prizes'[state'.current_lottery],
                       MinimumMatches')
      BY <3>1, <3>2, NothingCounted
    <3> QED
      BY <2>1, <3>1, <3>3 DEF PagesInv
  <2>6. CASE LotteryStarted
    <3>1. tickets' = tickets
      BY <1>1, <2>6, FrozenStep
    <3>2. MinimumMatches' = MinimumMatches
      BY <2>6 DEF DistributionKept, MinimumMatches
    <3>3. ~PrizeClaims
      <4>1. \A u, ids, votes : execute_claim_lottery(u, ids, votes) => LotteryNotStarted
        BY ZenonT(30) DEF execute_claim_lottery
      <4> QED
        BY <2>6, <4>1, Zenon DEF PrizeClaims, LotteryNotStarted
    <3>4. prizes' = prizes
      <4>1. CASE migrate_old_depositors
        BY <4>1, Zenon DEF migrate_old_depositors
      <4> QED
        BY <1>5, <3>3, <4>1, OthersKeepDraws
    <3>5. PagesCounted(tickets', current_lottery', prizes'[state'.current_lottery],
                       MinimumMatches')
      BY <2>2, <2>3, <3>1, <3>2, <3>4 DEF PagesInv
    <3> QED
      BY <2>1, <2>4, <2>6, <3>5 DEF PagesInv
  <2> QED
    BY <2>5, <2>6
<1> QED
  BY <1>3, <1>4, <1>5, Zenon

\* However execute_prize pages through the tickets, a draw that it declares
\* awarded has counted every winning ticket exactly once.  Two hypotheses are
\* needed.  A call with limit 0 finds an empty page and ends the draw without
\* winners (prize_strategy.rs:298), so no call has it; and the owner, who may
\* change the distribution at any time, does not while a draw is running.
THEOREM AwardsAreComplete ==
    ASSUME 0 \notin Limits
    PROVE  Spec /\ [][DistributionKept]_vars => AwardIsComplete
<1>1. Init => PagesInv
  <2> SUFFICES ASSUME Init PROVE PagesInv
    OBVIOUS
  <2>1. IInv
    BY InitIInv
  <2>2. LotteryLifecycle /\ state.current_lottery \in Draws
    BY <2>1 DEF IInv, TypeOK, State, Draws
  <2>3. lotteries = [i \in Draws |-> DefaultLottery]
    BY Zenon DEF Init, Draws
  <2>4. current_lottery = DefaultLottery
    BY <2>2, <2>3, Zenon DEF current_lottery
  <2>5. ~LotteryStarted /\ current_lottery.page = None
    BY <2>4 DEF LotteryStarted, DefaultLottery
  <2> QED
    BY <2>2, <2>5, NotStartedPages
<1>2. ASSUME IInv, IInv', UstBooks, UstBooks', PagesInv, [Next]_vars, [DistributionKept]_vars
      PROVE  PagesInv'
  <2>1. CASE UNCHANGED vars
    <3>1. UNCHANGED <<config, state, tickets, lotteries, prizes>>
      BY <2>1, Zenon DEF vars, storage
    <3>2. current_lottery' = current_lottery
      BY <3>1, Zenon DEF current_lottery
    <3>3. MinimumMatches' = MinimumMatches /\ (LotteryStarted' <=> LotteryStarted)
      BY <3>1, <3>2, Zenon DEF MinimumMatches, LotteryStarted
    <3>4. PagesCounted(tickets', current_lottery', prizes'[state'.current_lottery],
                       MinimumMatches')
      BY <1>2, <3>1, <3>2, <3>3, Zenon DEF PagesInv
    <3> QED
      BY <1>2, <3>2, <3>3, <3>4, Zenon DEF PagesInv
  <2>2. CASE Next /\ DistributionKept
    BY <1>2, <2>2, PagesStep, Zenon
  <2> QED
    BY <1>2, <2>1, <2>2, Zenon
<1> DEFINE Complete == \A i \in 0..MaxLottery :
              ~lotteries[i].awarded /\ lotteries'[i].awarded => CompletelyAwarded(i)
<1>3. ASSUME IInv, IInv', UstBooks, UstBooks', PagesInv, [Next]_vars, [DistributionKept]_vars
      PROVE  [Complete]_vars
  <2>1. CASE Next /\ DistributionKept
    <3>1. \A i \in Draws : ~lotteries[i].awarded /\ lotteries'[i].awarded
                             => CompletelyAwarded(i)
      BY <1>3, <2>1, PagesStep, Zenon
    <3> QED
      BY <3>1, Zenon DEF Draws
  <2> QED
    BY <1>3, <2>1, Zenon
<1> HIDE DEF Complete
<1>4. Spec /\ [][DistributionKept]_vars => [][Complete]_vars
  BY <1>1, <1>2, <1>3, UstBooksKept, PTL DEF Spec
<1> QED
  BY <1>4 DEF AwardIsComplete, Complete

=============================================================================
