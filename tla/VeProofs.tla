------------------------------ MODULE VeProofs ------------------------------
(***************************************************************************)
(* The ve-token contract's locks and deposits, for any users, amounts, end *)
(* times and length of the weeks.  The argument: a lock is only ever made  *)
(* by Lock, which starts it now, or emptied; the history gets the lock     *)
(* that is replaced, at the current height.  What the contract holds is    *)
(* compared with total_deposit only, so the coefficients, which are sums,  *)
(* need no type.                                                           *)
(***************************************************************************)
EXTENDS FeeProperties, ArithmeticTheorems

-----------------------------------------------------------------------------
(* Arithmetic.                                                             *)

LEMMA WeekDiv ==
    ASSUME NEW a \in Nat, NEW b \in Nat \ {0}
    PROVE  /\ a \div b \in Nat
           /\ b * (a \div b) <= a
           /\ a < b * (a \div b) + b
OBVIOUS

LEMMA WeekProduct ==
    ASSUME NEW k \in Nat, NEW b \in Nat \ {0}
    PROVE  k * b \in Nat /\ (k * b) % b = 0
OBVIOUS

\* The start of a week is a multiple of it, not after the time, and does not
\* go back as time goes on.
LEMMA FloorWeekFacts ==
    ASSUME NEW t \in Nat
    PROVE  /\ FloorWeek(t) \in Nat /\ FloorWeek(t) <= t
           /\ t < FloorWeek(t) + SECONDS_PER_WEEK
           /\ FloorWeek(t) % SECONDS_PER_WEEK = 0
<1>1. SECONDS_PER_WEEK \in Nat \ {0}
  BY VeAssumption
<1> DEFINE q == t \div SECONDS_PER_WEEK
<1>2. q \in Nat /\ SECONDS_PER_WEEK * q <= t /\ t < SECONDS_PER_WEEK * q + SECONDS_PER_WEEK
  BY <1>1, WeekDiv
<1>3. FloorWeek(t) = q * SECONDS_PER_WEEK
  BY DEF FloorWeek
<1> HIDE DEF q
<1>4. q * SECONDS_PER_WEEK \in Nat /\ (q * SECONDS_PER_WEEK) % SECONDS_PER_WEEK = 0
  BY <1>1, <1>2, WeekProduct
<1>5. q * SECONDS_PER_WEEK = SECONDS_PER_WEEK * q
  BY <1>1, <1>2
<1> QED
  BY <1>1, <1>2, <1>3, <1>4, <1>5

LEMMA FloorWeekMono ==
    ASSUME NEW a \in Nat, NEW b \in Nat, a <= b
    PROVE  FloorWeek(a) <= FloorWeek(b)
<1>1. SECONDS_PER_WEEK \in Nat \ {0}
  BY VeAssumption
<1> DEFINE q == a \div SECONDS_PER_WEEK
           r == b \div SECONDS_PER_WEEK
<1>2. /\ q \in Nat /\ r \in Nat /\ SECONDS_PER_WEEK * q <= a
      /\ b < SECONDS_PER_WEEK * r + SECONDS_PER_WEEK
  BY <1>1, WeekDiv
<1>3. FloorWeek(a) = q * SECONDS_PER_WEEK /\ FloorWeek(b) = r * SECONDS_PER_WEEK
  BY DEF FloorWeek
<1> HIDE DEF q, r
<1>4. SECONDS_PER_WEEK * q < SECONDS_PER_WEEK * (r + 1)
  BY <1>1, <1>2
<1>5. q <= r
  BY <1>1, <1>2, <1>4
<1> QED
  BY <1>1, <1>2, <1>3, <1>5

\* A fraction of an amount, both rounded down, is at most the amount.
LEMMA FractionOfAmount ==
    ASSUME NEW amount \in Nat, NEW n \in Nat, NEW d \in Nat \ {0}, n <= d
    PROVE  Times256(amount, from_ratio(n, d)) \in 0..amount
<1>1. One \in Nat \ {0} /\ n * One \in Nat
  BY VeAssumption
<1> DEFINE ratio == (n * One) \div d
<1>2. ratio \in Nat /\ d * ratio <= n * One
  BY <1>1, WeekDiv
<1>3. from_ratio(n, d) = ratio
  BY DEF from_ratio
<1> HIDE DEF ratio
<1>4. n * One <= d * One
  BY <1>1
<1>5. ratio <= One
  BY <1>1, <1>2, <1>4
<1>6. amount * ratio \in Nat /\ amount * ratio <= amount * One
  BY <1>1, <1>2, <1>5
<1> DEFINE part == (amount * ratio) \div One
<1>7. part \in Nat /\ One * part <= amount * ratio
  BY <1>1, <1>6, WeekDiv
<1>8. Times256(amount, ratio) = part
  BY DEF Times256
<1> HIDE DEF part
<1>9. One * part <= One * amount
  BY <1>1, <1>6, <1>7
<1>10. part <= amount
  BY <1>1, <1>7, <1>9
<1> QED
  BY <1>3, <1>7, <1>8, <1>10

\* Every set of heights has an earliest one.
LEMMA EarliestExists ==
    ASSUME NEW heights \in SUBSET Nat, heights # {}
    PROVE  Earliest(heights) # {}
<1>1. \E k \in heights : \A l \in heights : k <= l
  BY LeastNatural
<1> QED
  BY <1>1 DEF Earliest

-----------------------------------------------------------------------------
(* The inductive invariant.                                                *)

TotalRecord(st) == [coefs : {st.coefs}, total_deposit : Nat, timestamp : {st.timestamp}]

LockTypes ==
    /\ now \in Nat \ {0}
    /\ locks \in [Users -> UserLockedBalance]
    /\ DOMAIN lock_log = Users
    /\ \A u \in Users : DOMAIN lock_log[u] \subseteq Nat

VeInv ==
    /\ LockTypes
    /\ LocksWellFormed
    /\ ve_glow \in Nat /\ state \in TotalRecord(state)
    /\ DepositsHeld

LEMMA VeInitEstablishes == VeInit => VeInv
<1> SUFFICES ASSUME VeInit PROVE VeInv
  OBVIOUS
<1>1. DefaultLock \in UserLockedBalance /\ WellFormed(DefaultLock) /\ DefaultLock.timestamp = 0
  BY DEF DefaultLock, void_lock_with_timestamp, UserLockedBalance, WellFormed
<1>2. now \in Nat \ {0}
  BY VeAssumption DEF VeInit
<1>3. LockTypes
  BY <1>1, <1>2 DEF VeInit, LockTypes
<1>4. LocksWellFormed
  BY <1>1, <1>2 DEF VeInit, LocksWellFormed
<1>5. ve_glow \in Nat /\ state \in TotalRecord(state) /\ DepositsHeld
  BY DEF VeInit, DefaultState, TotalRecord, DepositsHeld
<1> QED
  BY <1>3, <1>4, <1>5 DEF VeInv

-----------------------------------------------------------------------------
(* update_user_lock.                                                       *)

\* A catch-up changes no deposit.
LEMMA CatchUpKeepsDeposit ==
    ASSUME NEW st, st \in TotalRecord(st), NEW S
    PROVE  LET c == CaughtUp(st, S)
           IN c \in TotalRecord(c) /\ c.total_deposit = st.total_deposit
<1> DEFINE w == Max(S)
           T == {v \in S : v <= w}
           r == [st EXCEPT !.coefs = Minus(st.coefs, SumOf(changes, T))]
           c == [r EXCEPT !.timestamp = w]
<1>1. r \in TotalRecord(r) /\ r.total_deposit = st.total_deposit
  <2> HIDE DEF T
  <2> DEFINE m == Minus(st.coefs, SumOf(changes, T))
  <2> HIDE DEF m
  <2>1. r = [st EXCEPT !.coefs = m]
    BY DEF m
  <2> QED
    BY <2>1 DEF TotalRecord
<1>2. c \in TotalRecord(c) /\ c.total_deposit = r.total_deposit
  <2> HIDE DEF r, w
  <2> QED
    BY <1>1 DEF TotalRecord
<1>3. CaughtUp(st, S) = IF S = {} THEN st ELSE c
  BY DEF CaughtUp, SavedAt, Reduced
<1> HIDE DEF c, r
<1> QED
  BY <1>1, <1>2, <1>3

LEMMA UpdateTotals ==
    ASSUME VeInv, NEW u \in Users, NEW new \in UserLockedBalance, update_user_lock(u, new)
    PROVE  /\ state' \in TotalRecord(state')
           /\ state.total_deposit >= locks[u].deposited_amount
           /\ state'.total_deposit
                = state.total_deposit - locks[u].deposited_amount + new.deposited_amount
<1> DEFINE c == CaughtUp(state, WeeksToApply(state, new.timestamp))
<1>1. state \in TotalRecord(state) /\ locks[u] \in UserLockedBalance
  BY DEF VeInv, LockTypes
<1>2. c \in TotalRecord(c) /\ c.total_deposit = state.total_deposit
  BY <1>1, CatchUpKeepsDeposit
<1>3. c.total_deposit >= locks[u].deposited_amount
  BY DEF update_user_lock, RemovalCovered
<1>4. state' = StateWithLock(c, locks[u], new)
  BY DEF update_user_lock
<1> HIDE DEF c
<1>5. /\ state.total_deposit \in Nat
      /\ locks[u].deposited_amount \in Nat /\ new.deposited_amount \in Nat
  BY <1>1 DEF TotalRecord, UserLockedBalance
<1>6. /\ state'.total_deposit = c.total_deposit - locks[u].deposited_amount + new.deposited_amount
      /\ state' = [coefs |-> state'.coefs, total_deposit |-> state'.total_deposit,
                   timestamp |-> state'.timestamp]
  BY <1>4 DEF StateWithLock
<1>7. state'.total_deposit \in Nat
  BY <1>2, <1>3, <1>5, <1>6
<1> QED
  BY <1>2, <1>3, <1>6, <1>7 DEF TotalRecord

LEMMA UpdateLocks ==
    ASSUME LockTypes, LocksWellFormed, UNCHANGED now,
           NEW u \in Users, NEW new \in UserLockedBalance, new.timestamp = now,
           WellFormed(new), update_user_lock(u, new)
    PROVE  LockTypes' /\ LocksWellFormed'
<1>1. /\ locks' = [locks EXCEPT ![u] = new]
      /\ lock_log' = [lock_log EXCEPT ![u] = Logged(lock_log[u], now, locks[u])]
  BY DEF update_user_lock, LockLogWith
<1> DEFINE log == Logged(lock_log[u], now, locks[u])
<1>2. /\ DOMAIN log = DOMAIN lock_log[u] \cup {now}
      /\ \A h \in DOMAIN log : log[h] = IF h \in DOMAIN lock_log[u] THEN lock_log[u][h] ELSE locks[u]
  BY DEF Logged
<1> HIDE DEF log
<1>3. DOMAIN log \subseteq Nat /\ \A h \in DOMAIN log : WellFormed(log[h]) /\ h <= now
  BY <1>2 DEF LockTypes, LocksWellFormed
<1>4. /\ DOMAIN lock_log' = Users
      /\ \A v \in Users : lock_log'[v] = IF v = u THEN log ELSE lock_log[v]
  BY <1>1 DEF LockTypes, log
<1>5. /\ locks' \in [Users -> UserLockedBalance]
      /\ \A v \in Users : locks'[v] = IF v = u THEN new ELSE locks[v]
  BY <1>1 DEF LockTypes
<1>6. LockTypes'
  BY <1>3, <1>4, <1>5 DEF LockTypes
<1>7. ASSUME NEW v \in Users
      PROVE  /\ WellFormed(locks'[v]) /\ locks'[v].timestamp <= now
             /\ \A h \in DOMAIN lock_log'[v] : WellFormed(lock_log'[v][h]) /\ h <= now
  <2>1. CASE v = u
    <3>1. locks'[v] = new /\ lock_log'[v] = log
      BY <1>4, <1>5, <2>1
    <3> QED
      BY <1>3, <3>1 DEF LockTypes
  <2>2. CASE v # u
    <3>1. locks'[v] = locks[v] /\ lock_log'[v] = lock_log[v]
      BY <1>4, <1>5, <2>2
    <3> QED
      BY <3>1 DEF LocksWellFormed
  <2> QED
    BY <2>1, <2>2
<1>8. (\A v \in Users :
         /\ WellFormed(locks[v]) /\ locks[v].timestamp <= now
         /\ \A h \in DOMAIN lock_log[v] : WellFormed(lock_log[v][h]) /\ h <= now)'
  BY <1>7 DEF WellFormed
<1> QED
  BY <1>6, <1>8 DEF LocksWellFormed

-----------------------------------------------------------------------------
(* The locks that the messages make.                                       *)

LEMMA LockFacts ==
    ASSUME now \in Nat \ {0}, NEW amount \in Nat \ {0}, NEW end \in Nat,
           now < end, end <= now + MAX_SECONDS, end % SECONDS_PER_WEEK = 0
    PROVE  /\ Lock(amount, end) \in UserLockedBalance /\ WellFormed(Lock(amount, end))
           /\ Lock(amount, end).timestamp = now /\ Lock(amount, end).deposited_amount = amount
<1>1. MAX_SECONDS \in Nat
  BY VeAssumption DEF MAX_SECONDS
<1>2. end - now <= MAX_SECONDS
  BY <1>1
<1> QED
  BY <1>2 DEF Lock, UserLockedBalance, WellFormed

LEMMA VoidFacts ==
    ASSUME now \in Nat
    PROVE  LET void == void_lock_with_timestamp(now)
           IN /\ void \in UserLockedBalance /\ WellFormed(void)
              /\ void.timestamp = now /\ void.deposited_amount = 0
BY DEF void_lock_with_timestamp, UserLockedBalance, WellFormed

\* A lock that exists, with its types.
LEMMA LockOf ==
    ASSUME LockTypes, LocksWellFormed, NEW u \in Users, exists(locks[u])
    PROVE  /\ locks[u].deposited_amount \in Nat \ {0}
           /\ locks[u].end_lock_time \in Nat /\ locks[u].start_lock_time \in Nat
           /\ locks[u].start_lock_time < locks[u].end_lock_time
           /\ locks[u].start_lock_time <= now
           /\ locks[u].end_lock_time <= now + MAX_SECONDS
           /\ locks[u].end_lock_time % SECONDS_PER_WEEK = 0
<1>1. locks[u] \in UserLockedBalance /\ now \in Nat
  BY DEF LockTypes
<1>2. WellFormed(locks[u]) /\ locks[u].timestamp <= now
  BY DEF LocksWellFormed
<1>3. MAX_SECONDS \in Nat
  BY VeAssumption DEF MAX_SECONDS
<1> QED
  BY <1>1, <1>2, <1>3 DEF UserLockedBalance, WellFormed, exists

\* What is still locked is a part of the deposit, and nothing once the lock
\* has expired.
LEMMA LockedPart ==
    ASSUME LockTypes, LocksWellFormed, NEW u \in Users, exists(locks[u])
    PROVE  LET rest == locked_amount_at_timestamp(locks[u], now)
           IN rest \in 0..locks[u].deposited_amount /\ (rest # 0 => now < locks[u].end_lock_time)
<1> DEFINE lock == locks[u]
           n == now - lock.start_lock_time
           d == lock.end_lock_time - lock.start_lock_time
<1>1. /\ lock.deposited_amount \in Nat \ {0}
      /\ lock.end_lock_time \in Nat /\ lock.start_lock_time \in Nat
      /\ lock.start_lock_time < lock.end_lock_time /\ lock.start_lock_time <= now
      /\ now \in Nat
  BY LockOf DEF LockTypes
<1>2. CASE lock.end_lock_time <= now
  BY <1>1, <1>2 DEF locked_amount_at_timestamp, expired_at_timestamp
<1>3. CASE now < lock.end_lock_time
  <2>1. n \in Nat /\ d \in Nat \ {0} /\ n <= d
    BY <1>1, <1>3
  <2>2. Times256(lock.deposited_amount, from_ratio(n, d)) \in 0..lock.deposited_amount
    BY <1>1, <2>1, FractionOfAmount
  <2>3. ~ (lock.end_lock_time <= now)
    BY <1>1, <1>3
  <2>4. locked_amount_at_timestamp(lock, now)
          = lock.deposited_amount - Times256(lock.deposited_amount, from_ratio(n, d))
    BY <2>3 DEF locked_amount_at_timestamp, expired_at_timestamp, initial_lock_duration
  <2> HIDE DEF n, d
  <2> QED
    BY <1>1, <1>3, <2>2, <2>4
<1> QED
  BY <1>1, <1>2, <1>3

LEMMA WithdrawalLeaves ==
    ASSUME LockTypes, LocksWellFormed, NEW u \in Users, exists(locks[u])
    PROVE  LET new == AfterWithdrawal(locks[u])
           IN /\ new \in UserLockedBalance /\ WellFormed(new) /\ new.timestamp = now
              /\ new.deposited_amount \in 0..locks[u].deposited_amount
<1> DEFINE rest == locked_amount_at_timestamp(locks[u], now)
<1>1. /\ rest \in 0..locks[u].deposited_amount
      /\ rest # 0 => now < locks[u].end_lock_time
  BY LockedPart
<1>2. /\ locks[u].deposited_amount \in Nat \ {0} /\ locks[u].end_lock_time \in Nat
      /\ locks[u].end_lock_time <= now + MAX_SECONDS
      /\ locks[u].end_lock_time % SECONDS_PER_WEEK = 0
  BY LockOf
<1>3. AfterWithdrawal(locks[u])
        = IF rest = 0 THEN void_lock_with_timestamp(now) ELSE Lock(rest, locks[u].end_lock_time)
  BY DEF AfterWithdrawal
<1>4. now \in Nat \ {0}
  BY DEF LockTypes
<1> HIDE DEF rest
<1>5. CASE rest = 0
  BY <1>2, <1>3, <1>4, <1>5, VoidFacts
<1>6. CASE rest # 0
  <2>1. rest \in Nat \ {0}
    BY <1>1, <1>2, <1>6
  <2>2. /\ Lock(rest, locks[u].end_lock_time) \in UserLockedBalance
        /\ WellFormed(Lock(rest, locks[u].end_lock_time))
        /\ Lock(rest, locks[u].end_lock_time).timestamp = now
        /\ Lock(rest, locks[u].end_lock_time).deposited_amount = rest
    BY <1>1, <1>2, <1>4, <1>6, <2>1, LockFacts
  <2> QED
    BY <1>1, <1>3, <1>6, <2>2
<1> QED
  BY <1>5, <1>6

-----------------------------------------------------------------------------
(* Steps.                                                                  *)

\* An update of u's lock that brings in `got` and pays out `sent`.
LEMMA UpdatePreserves ==
    ASSUME VeInv, UNCHANGED now,
           NEW u \in Users, NEW new \in UserLockedBalance, new.timestamp = now,
           WellFormed(new), update_user_lock(u, new),
           NEW got \in Nat, NEW sent \in Nat, sent <= ve_glow,
           new.deposited_amount = (locks[u].deposited_amount + got) - sent,
           ve_glow' = (ve_glow + got) - sent
    PROVE  VeInv'
<1>1. LockTypes' /\ LocksWellFormed'
  BY UpdateLocks DEF VeInv
<1>2. /\ state' \in TotalRecord(state')
      /\ state'.total_deposit
           = state.total_deposit - locks[u].deposited_amount + new.deposited_amount
  BY UpdateTotals
<1>3. /\ locks[u].deposited_amount \in Nat /\ new.deposited_amount \in Nat
      /\ ve_glow \in Nat /\ ve_glow = state.total_deposit
  BY DEF VeInv, LockTypes, UserLockedBalance, DepositsHeld
<1>4. ve_glow' \in Nat /\ ve_glow' = state'.total_deposit
  BY <1>2, <1>3
<1> QED
  BY <1>1, <1>2, <1>4 DEF VeInv, DepositsHeld

LEMMA CreatePreserves ==
    ASSUME VeInv, NEW u \in Users, NEW amount \in LockAmounts, NEW requested \in EndTimes,
           execute_create_lock(u, amount, requested)
    PROVE  VeInv'
<1> DEFINE end == FloorWeek(requested)
<1>1. /\ amount # 0 /\ ve_glow' = ve_glow + amount
      /\ ~exists(locks[u]) /\ end > now /\ end <= now + MAX_SECONDS
      /\ update_user_lock(u, Lock(amount, end)) /\ UNCHANGED now
  BY Zenon DEF execute_create_lock, receive_cw20
<1>2. amount \in Nat \ {0} /\ requested \in Nat
  BY <1>1, VeAssumption
<1>3. end \in Nat /\ end % SECONDS_PER_WEEK = 0
  BY <1>2, FloorWeekFacts
<1>4. now \in Nat \ {0} /\ locks[u].deposited_amount = 0 /\ ve_glow \in Nat
  BY <1>1 DEF VeInv, LockTypes, exists
<1> HIDE DEF end
<1>5. now < end
  BY <1>1, <1>3, <1>4
<1>6. /\ Lock(amount, end) \in UserLockedBalance /\ WellFormed(Lock(amount, end))
      /\ Lock(amount, end).timestamp = now /\ Lock(amount, end).deposited_amount = amount
  BY <1>1, <1>2, <1>3, <1>4, <1>5, LockFacts
<1>7. /\ amount = (locks[u].deposited_amount + amount) - 0
      /\ ve_glow' = (ve_glow + amount) - 0 /\ 0 <= ve_glow
  BY <1>1, <1>2, <1>4
<1> QED
  BY <1>1, <1>2, <1>6, <1>7, UpdatePreserves

LEMMA IncreaseEndPreserves ==
    ASSUME VeInv, NEW u \in Users, NEW requested \in EndTimes,
           execute_increase_end_lock_time(u, requested)
    PROVE  VeInv'
<1> DEFINE end == FloorWeek(requested)
           amount == locks[u].deposited_amount
<1>1. /\ exists(locks[u]) /\ ~expired_at_timestamp(locks[u], now)
      /\ end > locks[u].end_lock_time /\ end <= now + MAX_SECONDS
      /\ update_user_lock(u, Lock(amount, end)) /\ UNCHANGED <<now, ve_glow>>
  BY DEF execute_increase_end_lock_time
<1>2. requested \in Nat
  BY VeAssumption
<1>3. end \in Nat /\ end % SECONDS_PER_WEEK = 0
  BY <1>2, FloorWeekFacts
<1>4. /\ amount \in Nat \ {0} /\ locks[u].end_lock_time \in Nat
      /\ now \in Nat \ {0} /\ ve_glow \in Nat
  BY <1>1, LockOf DEF VeInv, LockTypes
<1> HIDE DEF end, amount
<1>5. now < end
  BY <1>1, <1>3, <1>4 DEF expired_at_timestamp
<1>6. /\ Lock(amount, end) \in UserLockedBalance /\ WellFormed(Lock(amount, end))
      /\ Lock(amount, end).timestamp = now /\ Lock(amount, end).deposited_amount = amount
  BY <1>1, <1>3, <1>4, <1>5, LockFacts
<1>7. /\ amount = (locks[u].deposited_amount + 0) - 0
      /\ ve_glow' = (ve_glow + 0) - 0 /\ 0 <= ve_glow
  BY <1>1, <1>4 DEF amount
<1> QED
  BY <1>1, <1>6, <1>7, UpdatePreserves

LEMMA IncreaseAmountPreserves ==
    ASSUME VeInv, NEW u \in Users, NEW amount \in IncreaseAmounts,
           execute_increase_lock_amount(u, amount)
    PROVE  VeInv'
<1> DEFINE end == locks[u].end_lock_time
           total == locks[u].deposited_amount + amount
<1>1. /\ amount # 0 /\ ve_glow' = ve_glow + amount
      /\ exists(locks[u]) /\ ~expired_at_timestamp(locks[u], now)
      /\ update_user_lock(u, Lock(total, end)) /\ UNCHANGED now
  BY Zenon DEF execute_increase_lock_amount, receive_cw20
<1>2. amount \in Nat \ {0}
  BY <1>1, VeAssumption
<1>3. /\ locks[u].deposited_amount \in Nat /\ end \in Nat
      /\ end % SECONDS_PER_WEEK = 0 /\ end <= now + MAX_SECONDS
      /\ now \in Nat \ {0} /\ ve_glow \in Nat
  BY <1>1, LockOf DEF VeInv, LockTypes
<1>4. now < end
  BY <1>1, <1>3 DEF expired_at_timestamp
<1>5. total \in Nat \ {0} /\ total = (locks[u].deposited_amount + amount) - 0
      /\ ve_glow' = (ve_glow + amount) - 0 /\ 0 <= ve_glow
  BY <1>1, <1>2, <1>3
<1> HIDE DEF end, total
<1>6. /\ Lock(total, end) \in UserLockedBalance /\ WellFormed(Lock(total, end))
      /\ Lock(total, end).timestamp = now /\ Lock(total, end).deposited_amount = total
  BY <1>3, <1>4, <1>5, LockFacts
<1> QED
  BY <1>1, <1>2, <1>5, <1>6, UpdatePreserves

LEMMA WithdrawPreserves ==
    ASSUME VeInv, NEW u \in Users, execute_withdraw(u)
    PROVE  VeInv'
<1> DEFINE new == AfterWithdrawal(locks[u])
           sent == locks[u].deposited_amount - new.deposited_amount
<1>1. /\ exists(locks[u]) /\ update_user_lock(u, new) /\ UNCHANGED now
      /\ sent <= ve_glow /\ ve_glow' = ve_glow - sent
  BY DEF execute_withdraw
<1>2. /\ new \in UserLockedBalance /\ WellFormed(new) /\ new.timestamp = now
      /\ new.deposited_amount \in 0..locks[u].deposited_amount
  BY <1>1, WithdrawalLeaves DEF VeInv
<1>3. locks[u].deposited_amount \in Nat /\ ve_glow \in Nat
  BY <1>1, LockOf DEF VeInv
<1> HIDE DEF new
<1>4. /\ sent \in Nat
      /\ new.deposited_amount = (locks[u].deposited_amount + 0) - sent
      /\ ve_glow' = (ve_glow + 0) - sent
  BY <1>1, <1>2, <1>3
<1> HIDE DEF sent
<1> QED
  BY <1>1, <1>2, <1>4, UpdatePreserves

LEMMA CheckpointPreserves ==
    ASSUME VeInv, execute_global_checkpoint
    PROVE  VeInv'
<1>1. /\ state' = CaughtUp(state, WeeksToApply(state, now))
      /\ UNCHANGED <<locks, lock_log, now, ve_glow>>
  BY DEF execute_global_checkpoint
<1>2. state' \in TotalRecord(state') /\ state'.total_deposit = state.total_deposit
  BY <1>1, CatchUpKeepsDeposit DEF VeInv
<1> QED
  BY <1>1, <1>2 DEF VeInv, LockTypes, LocksWellFormed, WellFormed, DepositsHeld

LEMMA TimePreserves ==
    ASSUME VeInv, now' \in Nat, now <= now', UNCHANGED <<state, locks, lock_log, ve_glow>>
    PROVE  VeInv'
<1>1. now \in Nat \ {0} /\ now' \in Nat \ {0}
  BY DEF VeInv, LockTypes
<1>2. LockTypes'
  BY <1>1 DEF VeInv, LockTypes
<1>3. ASSUME NEW u \in Users
      PROVE  /\ locks[u].timestamp <= now'
             /\ \A h \in DOMAIN lock_log[u] : h <= now'
  <2>1. locks[u].timestamp \in Nat /\ DOMAIN lock_log[u] \subseteq Nat
    BY DEF VeInv, LockTypes, UserLockedBalance
  <2>2. locks[u].timestamp <= now /\ \A h \in DOMAIN lock_log[u] : h <= now
    BY DEF VeInv, LocksWellFormed
  <2> QED
    BY <1>1, <2>1, <2>2
<1>4. LocksWellFormed'
  BY <1>3 DEF VeInv, LocksWellFormed, WellFormed
<1> QED
  BY <1>2, <1>4 DEF VeInv, DepositsHeld, TotalRecord

LEMMA VeNextPreserves ==
    ASSUME VeInv, [VeNext]_veVars
    PROVE  VeInv'
<1>a. now \in Nat /\ now <= now
  BY DEF VeInv, LockTypes
<1>1. CASE execute_register_contracts
  BY <1>1, <1>a, TimePreserves DEF execute_register_contracts
<1>2. CASE \E u \in Users, amount \in LockAmounts, end \in EndTimes :
              execute_create_lock(u, amount, end)
  BY <1>2, CreatePreserves
<1>3. CASE \E u \in Users, end \in EndTimes : execute_increase_end_lock_time(u, end)
  BY <1>3, IncreaseEndPreserves
<1>4. CASE \E u \in Users, amount \in IncreaseAmounts : execute_increase_lock_amount(u, amount)
  BY <1>4, IncreaseAmountPreserves
<1>5. CASE \E u \in Users : execute_withdraw(u)
  BY <1>5, WithdrawPreserves
<1>6. CASE execute_global_checkpoint
  BY <1>6, CheckpointPreserves
<1>7. CASE Tick
  <2>1. now' = now + 1 /\ UNCHANGED <<state, locks, lock_log, ve_glow>>
    BY <1>7 DEF Tick, veStorage
  <2> QED
    BY <1>a, <2>1, TimePreserves
<1>8. CASE UNCHANGED veVars
  BY <1>8, <1>a, TimePreserves DEF veVars, veStorage
<1> QED
  BY <1>1, <1>2, <1>3, <1>4, <1>5, <1>6, <1>7, <1>8 DEF VeNext, VeAction

LEMMA VeInvariant == VeSpec => []VeInv
<1>1. VeInit => VeInv
  BY VeInitEstablishes
<1>2. VeInv /\ [VeNext]_veVars => VeInv'
  BY VeNextPreserves
<1> QED
  BY <1>1, <1>2, PTL DEF VeSpec

-----------------------------------------------------------------------------
(* History.                                                                *)

\* A save at the latest height changes no answer up to that height.
LEMMA SaveKeepsAnswers ==
    ASSUME NEW log, DOMAIN log \subseteq Nat, NEW n \in Nat, \A h \in DOMAIN log : h <= n,
           NEW old, NEW new, NEW t \in 0..n
    PROVE  may_load_at_height(Logged(log, n, old), new, t) = may_load_at_height(log, old, t)
<1> DEFINE saved == Logged(log, n, old)
           later == {k \in DOMAIN log : k >= t}
           laterSaved == {k \in DOMAIN saved : k >= t}
<1>1. /\ DOMAIN saved = DOMAIN log \cup {n}
      /\ \A k \in DOMAIN saved : saved[k] = IF k \in DOMAIN log THEN log[k] ELSE old
  BY DEF Logged
<1>2. may_load_at_height(log, old, t)
        = IF later = {} THEN old ELSE log[CHOOSE k \in Earliest(later) : TRUE]
  BY Zenon DEF may_load_at_height
<1>3. may_load_at_height(saved, new, t)
        = IF laterSaved = {} THEN new ELSE saved[CHOOSE k \in Earliest(laterSaved) : TRUE]
  BY Zenon DEF may_load_at_height
<1> HIDE DEF saved
<1>4. laterSaved = later \cup {n} /\ later \subseteq DOMAIN log /\ later \subseteq Nat
  BY <1>1
<1>5. \A k \in later : k <= n
  BY <1>4
<1>6. n \notin DOMAIN log => saved[n] = old
  BY <1>1
<1>7. n \in DOMAIN log => n \in later
  OBVIOUS
<1> HIDE DEF later, laterSaved
<1>8. CASE later = {}
  <2>1. laterSaved = {n} /\ saved[n] = old
    BY <1>4, <1>6, <1>7, <1>8
  <2>2. Earliest({n}) = {n}
    BY DEF Earliest
  <2>3. (CHOOSE k \in {n} : TRUE) = n
    OBVIOUS
  <2>4. (CHOOSE k \in Earliest(laterSaved) : TRUE) = n
    BY <2>1, <2>2, <2>3, Zenon
  <2>5. laterSaved # {}
    BY <2>1
  <2>6. may_load_at_height(saved, new, t) = saved[n]
    BY <1>3, <2>4, <2>5, Zenon
  <2>7. may_load_at_height(log, old, t) = old
    BY <1>2, <1>8, Zenon
  <2> QED
    BY <2>1, <2>6, <2>7 DEF saved
<1>9. CASE later # {}
  <2>1. Earliest(laterSaved) = Earliest(later)
    BY <1>4, <1>5, <1>9 DEF Earliest
  <2>2. Earliest(later) # {} /\ Earliest(later) \subseteq later
    BY <1>4, <1>9, EarliestExists DEF Earliest
  <2> DEFINE first == CHOOSE k \in Earliest(later) : TRUE
  <2>3. first \in later
    BY <2>2
  <2>4. (CHOOSE k \in Earliest(laterSaved) : TRUE) = first
    BY <2>1, Zenon
  <2> HIDE DEF first
  <2>5. saved[first] = log[first]
    BY <1>1, <1>4, <2>3
  <2>6. laterSaved # {}
    BY <1>4
  <2>7. may_load_at_height(saved, new, t) = saved[first]
    BY <1>3, <2>4, <2>6, Zenon
  <2>8. may_load_at_height(log, old, t) = log[first]
    BY <1>2, <1>9, Zenon DEF first
  <2> QED
    BY <2>5, <2>7, <2>8 DEF saved
<1> QED
  BY <1>8, <1>9 DEF saved

LEMMA UpdateKeepsHistory ==
    ASSUME VeInv, NEW u \in Users, NEW new, new.timestamp = now, update_user_lock(u, new),
           NEW v \in Users, NEW t \in 0..now
    PROVE  LockRead(v, t)' = LockRead(v, t)
<1>1. /\ locks' = [locks EXCEPT ![u] = new]
      /\ lock_log' = [lock_log EXCEPT ![u] = Logged(lock_log[u], now, locks[u])]
  BY DEF update_user_lock, LockLogWith
<1>2. LockTypes /\ LocksWellFormed
  BY DEF VeInv
<1>3. LockRead(v, t)' = may_load_at_height(lock_log'[v], locks'[v], t)
  BY DEF LockRead, may_load_at_height, Earliest
<1>4. CASE v = u
  <2>1. lock_log'[v] = Logged(lock_log[v], now, locks[v]) /\ locks'[v] = new
    BY <1>1, <1>2, <1>4 DEF LockTypes
  <2>2. DOMAIN lock_log[v] \subseteq Nat /\ now \in Nat /\ \A h \in DOMAIN lock_log[v] : h <= now
    BY <1>2 DEF LockTypes, LocksWellFormed
  <2>3. may_load_at_height(Logged(lock_log[v], now, locks[v]), new, t)
          = may_load_at_height(lock_log[v], locks[v], t)
    BY <2>2, SaveKeepsAnswers
  <2> QED
    BY <1>3, <2>1, <2>3 DEF LockRead
<1>5. CASE v # u
  <2>1. lock_log'[v] = lock_log[v] /\ locks'[v] = locks[v]
    BY <1>1, <1>2, <1>5 DEF LockTypes
  <2> QED
    BY <1>3, <2>1 DEF LockRead
<1> QED
  BY <1>4, <1>5

LEMMA VeNextKeepsHistory ==
    ASSUME VeInv, [VeNext]_veVars, NEW v \in Users, NEW t \in 0..now
    PROVE  LockRead(v, t)' = LockRead(v, t)
<1>a. ASSUME UNCHANGED <<locks, lock_log>> PROVE LockRead(v, t)' = LockRead(v, t)
  BY <1>a DEF LockRead, may_load_at_height, Earliest
<1>b. ASSUME NEW amount, NEW end PROVE Lock(amount, end).timestamp = now
  BY DEF Lock
<1>1. CASE execute_register_contracts
  BY <1>1, <1>a DEF execute_register_contracts
<1>2. ASSUME NEW u \in Users, NEW amount \in LockAmounts, NEW end \in EndTimes,
             execute_create_lock(u, amount, end)
      PROVE  LockRead(v, t)' = LockRead(v, t)
  <2>1. update_user_lock(u, Lock(amount, FloorWeek(end)))
    BY <1>2, Zenon DEF execute_create_lock
  <2> QED
    BY <1>b, <2>1, UpdateKeepsHistory
<1>3. ASSUME NEW u \in Users, NEW end \in EndTimes, execute_increase_end_lock_time(u, end)
      PROVE  LockRead(v, t)' = LockRead(v, t)
  <2>1. update_user_lock(u, Lock(locks[u].deposited_amount, FloorWeek(end)))
    BY <1>3, Zenon DEF execute_increase_end_lock_time
  <2> QED
    BY <1>b, <2>1, UpdateKeepsHistory
<1>4. ASSUME NEW u \in Users, NEW amount \in IncreaseAmounts,
             execute_increase_lock_amount(u, amount)
      PROVE  LockRead(v, t)' = LockRead(v, t)
  <2>1. update_user_lock(u, Lock(locks[u].deposited_amount + amount, locks[u].end_lock_time))
    BY <1>4, Zenon DEF execute_increase_lock_amount
  <2> QED
    BY <1>b, <2>1, UpdateKeepsHistory
<1>5. ASSUME NEW u \in Users, execute_withdraw(u)
      PROVE  LockRead(v, t)' = LockRead(v, t)
  <2>1. update_user_lock(u, AfterWithdrawal(locks[u])) /\ exists(locks[u])
    BY <1>5, Zenon DEF execute_withdraw
  <2>2. AfterWithdrawal(locks[u]).timestamp = now
    BY <2>1, WithdrawalLeaves DEF VeInv
  <2> QED
    BY <2>1, <2>2, UpdateKeepsHistory
<1>6. CASE execute_global_checkpoint
  BY <1>6, <1>a DEF execute_global_checkpoint
<1>7. CASE Tick
  BY <1>7, <1>a DEF Tick, veStorage
<1>8. CASE UNCHANGED veVars
  BY <1>8, <1>a DEF veVars, veStorage
<1> QED
  BY <1>1, <1>2, <1>3, <1>4, <1>5, <1>6, <1>7, <1>8 DEF VeNext, VeAction

-----------------------------------------------------------------------------
(* The theorems.                                                           *)

\* No message leaves a lock, now or in the history, that a query or a later
\* message would panic on: state.rs asserts it and nothing else checks it.
THEOREM LocksStayWellFormed == VeSpec => []LocksWellFormed
<1>1. VeInv => LocksWellFormed
  BY DEF VeInv
<1> QED
  BY <1>1, VeInvariant, PTL

\* total_deposit is the GLOW held, whatever expires between two messages and
\* however many weeks a catch-up applies.
THEOREM DepositsAreHeld == VeSpec => []DepositsHeld
<1>1. VeInv => DepositsHeld
  BY DEF VeInv
<1> QED
  BY <1>1, VeInvariant, PTL

\* The answers of query_staker for a time that has come are final.
THEOREM LockHistoryStaysFixed == VeSpec => LockHistoryIsFixed
<1>1. VeInv /\ [VeNext]_veVars
         => [\A u \in Users, t \in 0..now : LockRead(u, t)' = LockRead(u, t)]_veVars
  BY VeNextKeepsHistory
<1> QED
  BY <1>1, VeInvariant, PTL DEF VeSpec, LockHistoryIsFixed

-----------------------------------------------------------------------------
(* The contract implements VePower.  The argument: STATE holds the sum of  *)
(* the locks that end after the week of its timestamp, and the scheduled   *)
(* changes of a week are the sum of the locks that end in it.  A lock ends *)
(* at most MAX_WEEKS after the last update of STATE, so one catch-up       *)
(* reaches every end that has passed.                                      *)

Component == {"quad", "linear", "constant"}
Differences == [quad : Int, linear : Int, constant : Int]

\* The locks' ends and one coefficient of each, what ends at w, and what
\* ends after t.
EndsOf(ls) == [u \in Users |-> ls[u].end_lock_time]
CoefficientOf(ls, c) == [u \in Users |-> voting_power_coefficients(ls[u])[c]]
EndingAt(ls, c, w) == KeySum(CoefficientOf(ls, c), EndsOf(ls), Users, w)
EndsLater(ls, c, t) ==
    [u \in Users |-> IF ls[u].end_lock_time > t THEN voting_power_coefficients(ls[u])[c] ELSE 0]
LiveAfter(ls, c, t) == SumFunctionOnSet(EndsLater(ls, c, t), Users)

PowerInv ==
    /\ now <= MaxTime
    /\ state.timestamp \in Nat /\ state.timestamp <= now
    /\ \A u \in Users : locks[u].start_lock_time <= state.timestamp
    /\ changes \in [LockEnds -> Coefficients]
    /\ \A w \in LockEnds, c \in Component : changes[w][c] = EndingAt(locks, c, w)
    /\ state.coefs \in Coefficients
    /\ \A c \in Component : state.coefs[c] = LiveAfter(locks, c, FloorWeek(state.timestamp))

\* Sums and differences are taken coefficient by coefficient.
LEMMA Coefficientwise ==
    ASSUME NEW a \in Differences, NEW b \in Differences
    PROVE  /\ Plus(a, b) \in Differences /\ Minus(a, b) \in Differences
           /\ \A c \in Component : /\ Plus(a, b)[c] = a[c] + b[c]
                                   /\ Minus(a, b)[c] = a[c] - b[c]
                                   /\ a[c] \in Int
           /\ (\A c \in Component : a[c] = b[c]) => a = b
           /\ (\A c \in Component : a[c] \in Nat) => a \in Coefficients
BY DEF Plus, Minus, Differences, Component, Coefficients

LEMMA CoefficientsParts ==
    ASSUME NEW a \in Coefficients
    PROVE  a \in Differences /\ \A c \in Component : a[c] \in Nat
BY DEF Differences, Component, Coefficients

LEMMA SumOfParts ==
    ASSUME NEW f, NEW S
    PROVE  \A c \in Component : SumOf(f, S)[c] = SumOfOne(f, S, c)
BY DEF SumOf, Component

LEMMA RatioNat ==
    ASSUME NEW a \in Nat, NEW d \in Nat \ {0}
    PROVE  from_ratio(a, d) \in Nat
<1>1. One \in Nat /\ a * One \in Nat
  BY VeAssumption, MulNat
<1> QED
  BY <1>1, DivBounds DEF from_ratio

LEMMA PowerOfLock ==
    ASSUME NEW lock \in UserLockedBalance, WellFormed(lock)
    PROVE  /\ voting_power_coefficients(lock) \in Coefficients
           /\ lock.deposited_amount = 0
                 => \A c \in Component : voting_power_coefficients(lock)[c] = 0
<1>1. CASE ~exists(lock)
  BY <1>1 DEF voting_power_coefficients, NoCoefficients, Coefficients, Component
<1>2. CASE exists(lock)
  <2> DEFINE end == lock.end_lock_time
             amount == lock.deposited_amount
             duration == initial_lock_duration(lock)
  <2>1. end \in Nat /\ amount \in Nat \ {0} /\ duration \in Nat \ {0}
    BY <1>2 DEF exists, WellFormed, UserLockedBalance, initial_lock_duration
  <2>2. /\ voting_power_coefficients(lock)
             = [quad |-> from_ratio(amount, duration),
                linear |-> from_ratio(2 * end * amount, duration),
                constant |-> from_ratio(end * end * amount, duration)]
    BY <1>2 DEF voting_power_coefficients
  <2>3. 2 * end * amount \in Nat /\ end * end * amount \in Nat
    <3>1. 2 * end \in Nat /\ end * end \in Nat
      BY <2>1, MulNat
    <3> QED
      BY <2>1, <3>1, MulNat
  <2>4. /\ from_ratio(amount, duration) \in Nat
        /\ from_ratio(2 * end * amount, duration) \in Nat
        /\ from_ratio(end * end * amount, duration) \in Nat
    BY <2>1, <2>3, RatioNat
  <2> QED
    BY <1>2, <2>2, <2>4 DEF exists, Coefficients
<1> QED
  BY <1>1, <1>2

-----------------------------------------------------------------------------
(* Weeks.                                                                  *)

\* Between a time and the start of its week no lock ends.
LEMMA WeekGap ==
    ASSUME NEW end \in Nat, end % SECONDS_PER_WEEK = 0, NEW t \in Nat
    PROVE  end > FloorWeek(t) <=> end > t
<1> DEFINE W == SECONDS_PER_WEEK
           k == end \div W
           q == t \div W
<1>1. W \in Nat \ {0}
  BY VeAssumption
<1>2. k \in Nat /\ q \in Nat /\ end = W * k
  BY <1>1, WeekDiv
<1>3. FloorWeek(t) = q * W /\ FloorWeek(t) <= t /\ t < q * W + W
  BY FloorWeekFacts DEF FloorWeek
<1> HIDE DEF W, k, q
<1>4. FloorWeek(t) \in Nat /\ q * W \in Nat
  BY <1>1, <1>2, <1>3, MulNat
<1>5. ASSUME end > FloorWeek(t) PROVE end > t
  <2>1. SUFFICES ASSUME end <= t PROVE FALSE
    OBVIOUS
  <2>2. k * W > q * W
    BY <1>1, <1>2, <1>3, <1>5
  <2>3. k > q
    BY <1>1, <1>2, <2>2, MulMono
  <2>4. (q + 1) * W <= k * W
    BY <1>1, <1>2, <2>3, MulMono
  <2>5. (q + 1) * W = q * W + W /\ k * W = W * k
    BY <1>1, <1>2
  <2> QED
    BY <1>1, <1>2, <1>3, <1>4, <2>1, <2>4, <2>5
<1> QED
  BY <1>3, <1>4, <1>5

\* The weeks of a catch-up lie between the two times, and every week within
\* reach is one of them.
LEMMA WeeksOfCatchUp ==
    ASSUME NEW st, st.timestamp \in Nat, NEW t \in Nat
    PROVE  /\ \A w \in WeeksToApply(st, t) :
                 /\ w \in Nat /\ w > FloorWeek(st.timestamp) /\ w <= t
                 /\ w % SECONDS_PER_WEEK = 0
           /\ \A w \in Nat :
                 /\ w % SECONDS_PER_WEEK = 0 /\ w > FloorWeek(st.timestamp) /\ w <= t
                 /\ w <= st.timestamp + MAX_SECONDS
                 => w \in WeeksToApply(st, t)
<1> DEFINE W == SECONDS_PER_WEEK
           q == st.timestamp \div W
<1>1. W \in Nat \ {0} /\ CatchUpLimit \in Nat /\ MAX_WEEKS \in Nat /\ MAX_WEEKS <= CatchUpLimit
         /\ MAX_SECONDS = MAX_WEEKS * W
  BY VeAssumption DEF MAX_SECONDS
<1>2. q \in Nat /\ FloorWeek(st.timestamp) = q * W /\ st.timestamp < q * W + W
  BY <1>1, WeekDiv, FloorWeekFacts DEF FloorWeek
<1>3. WeeksToApply(st, t) = {w \in {q * W + i * W : i \in 1..CatchUpLimit} : w <= t}
  BY <1>2 DEF WeeksToApply
<1> HIDE DEF W, q
<1>4. ASSUME NEW w \in WeeksToApply(st, t)
      PROVE  w \in Nat /\ w > FloorWeek(st.timestamp) /\ w <= t /\ w % SECONDS_PER_WEEK = 0
  <2>1. PICK i \in 1..CatchUpLimit : w = q * W + i * W
    BY <1>3
  <2>2. w = (q + i) * W /\ i * W \in Nat /\ q * W \in Nat /\ i * W >= W
    <3>1. i \in Nat /\ 1 <= i
      BY <1>1
    <3>2. 1 * W <= i * W
      BY <1>1, <3>1, MulMono
    <3> QED
      BY <1>1, <1>2, <2>1, <3>1, <3>2, MulNat
  <2>3. w % W = 0
    <3>1. q + i \in Nat
      BY <1>1, <1>2
    <3>2. ((q + i) * W) % W = 0
      BY <1>1, <3>1, WeekProduct
    <3> QED
      BY <2>2, <3>2
  <2> QED
    BY <1>1, <1>2, <1>3, <2>1, <2>2, <2>3 DEF W
<1>5. ASSUME NEW w \in Nat, w % W = 0, w > FloorWeek(st.timestamp), w <= t,
             w <= st.timestamp + MAX_SECONDS
      PROVE  w \in WeeksToApply(st, t)
  <2> DEFINE k == w \div W
  <2>1. k \in Nat /\ w = k * W
    BY <1>1, <1>5, WeekDiv
  <2> HIDE DEF k
  <2>2. q < k
    <3>1. SUFFICES ASSUME k <= q PROVE FALSE
      BY <1>2, <2>1
    <3>2. k * W <= q * W
      BY <1>1, <1>2, <2>1, <3>1, MulMono
    <3> QED
      BY <1>1, <1>2, <1>5, <2>1, <3>2, MulNat
  <2>3. k <= q + MAX_WEEKS
    <3>1. SUFFICES ASSUME q + MAX_WEEKS + 1 <= k PROVE FALSE
      BY <1>1, <1>2, <2>1
    <3>2. (q + MAX_WEEKS + 1) * W <= k * W
      BY <1>1, <1>2, <2>1, <3>1, MulMono
    <3>3. (q + MAX_WEEKS + 1) * W = q * W + MAX_WEEKS * W + W
      BY <1>1, <1>2
    <3>4. q * W \in Nat /\ MAX_WEEKS * W \in Nat
      BY <1>1, <1>2, MulNat
    <3> QED
      BY <1>1, <1>2, <1>5, <2>1, <3>2, <3>3, <3>4
  <2>4. k - q \in 1..CatchUpLimit /\ w = q * W + (k - q) * W
    BY <1>1, <1>2, <2>1, <2>2, <2>3
  <2> QED
    BY <1>3, <1>5, <2>4
<1> QED
  BY <1>4, <1>5 DEF W

\* The last week of a catch-up.
LEMMA LastWeek ==
    ASSUME NEW S \in SUBSET Nat, NEW t \in Nat, \A w \in S : w <= t, S # {}
    PROVE  Max(S) \in S /\ \A w \in S : w <= Max(S)
<1>1. \A w \in S : w \in Nat /\ w <= t
  OBVIOUS
<1>2. S \in SUBSET (0..t)
  BY <1>1
<1>3. \E m \in S : \A w \in S : m >= w
  BY <1>2, GreatestNatural
<1>4. Max(S) = CHOOSE x \in S : \A y \in S : x >= y
  BY DEF Max
<1>5. Max(S) \in S /\ \A w \in S : Max(S) >= w
  BY <1>3, <1>4
<1> QED
  BY <1>1, <1>5

-----------------------------------------------------------------------------
(* Catching up.                                                            *)

\* The locks as VeInv describes them, for the locks before and after a step.
GoodLocks(ls) ==
    /\ ls \in [Users -> UserLockedBalance]
    /\ \A u \in Users : WellFormed(ls[u])

LEMMA LocksAreGood == VeInv => GoodLocks(locks)
BY DEF VeInv, LockTypes, LocksWellFormed, GoodLocks

LEMMA LocksStayGood == VeInv' => GoodLocks(locks')
BY DEF VeInv, LockTypes, LocksWellFormed, GoodLocks, WellFormed

LEMMA LockEnd ==
    ASSUME NEW ls, GoodLocks(ls), NEW u \in Users
    PROVE  /\ ls[u].end_lock_time \in Nat /\ ls[u].start_lock_time \in Nat
           /\ ls[u].end_lock_time % SECONDS_PER_WEEK = 0
           /\ ls[u].end_lock_time <= ls[u].start_lock_time + MAX_SECONDS
           /\ \A c \in Component : voting_power_coefficients(ls[u])[c] \in Nat
<1>1. ls[u] \in UserLockedBalance /\ WellFormed(ls[u])
  BY DEF GoodLocks
<1>2. MAX_SECONDS \in Nat /\ SECONDS_PER_WEEK \in Nat \ {0}
  BY VeAssumption, MulNat DEF MAX_SECONDS
<1>3. 0 % SECONDS_PER_WEEK = 0
  BY <1>2
<1>4. voting_power_coefficients(ls[u]) \in Coefficients
  BY <1>1, PowerOfLock
<1>5. \A c \in Component : voting_power_coefficients(ls[u])[c] \in Nat
  BY <1>4, CoefficientsParts
<1> QED
  BY <1>1, <1>2, <1>3, <1>5 DEF UserLockedBalance, WellFormed

LEMMA LiveAfterNat ==
    ASSUME NEW ls, GoodLocks(ls), NEW c \in Component, NEW t \in Nat
    PROVE  /\ \A u \in Users : EndsLater(ls, c, t)[u] \in Nat
           /\ LiveAfter(ls, c, t) \in Nat
<1>1. \A u \in Users : EndsLater(ls, c, t)[u] \in Nat
  BY LockEnd DEF EndsLater
<1> QED
  BY <1>1, SumNat, VeAssumption DEF LiveAfter

\* What a catch-up subtracts is what has ended since: all of it, because
\* every lock's end is within its reach.
LEMMA CatchUpSubtracts ==
    ASSUME NEW ls, GoodLocks(ls), NEW st, st.timestamp \in Nat, NEW t \in Nat, t <= MaxTime,
           st.timestamp <= t,
           \A u \in Users : ls[u].start_lock_time <= st.timestamp,
           NEW ch, \A w \in LockEnds, c \in Component : ch[w][c] = EndingAt(ls, c, w),
           NEW c \in Component
    PROVE  SumOfOne(ch, WeeksToApply(st, t), c)
              = LiveAfter(ls, c, FloorWeek(st.timestamp)) - LiveAfter(ls, c, t)
<1> DEFINE S == WeeksToApply(st, t)
           s == FloorWeek(st.timestamp)
           f == CoefficientOf(ls, c)
           key == EndsOf(ls)
           g == [w \in S |-> ch[w][c]]
           ended == WithKeys(f, key, Users, S)
           before == EndsLater(ls, c, s)
           after == EndsLater(ls, c, t)
<1>1. /\ \A w \in S : w \in Nat /\ w > s /\ w <= t /\ w % SECONDS_PER_WEEK = 0
      /\ \A w \in Nat : /\ w % SECONDS_PER_WEEK = 0 /\ w > s /\ w <= t
                        /\ w <= st.timestamp + MAX_SECONDS
                        => w \in S
  BY WeeksOfCatchUp
<1>2. s \in Nat /\ MaxTime \in Nat /\ MAX_SECONDS \in Nat /\ IsFiniteSet(Users)
  BY FloorWeekFacts, VeAssumption, MulNat DEF MAX_SECONDS
<1>3. IsFiniteSet(S)
  <2>1. S \subseteq 0..t /\ IsFiniteSet(0..t)
    BY <1>1, FS_Interval
  <2> QED
    BY <2>1, FS_Subset
<1>4. \A w \in S : w \in LockEnds
  BY <1>1, <1>2 DEF LockEnds
<1> HIDE DEF S, s
<1>5. \A w \in S : g[w] = KeySum(f, key, Users, w)
  BY <1>4 DEF EndingAt
<1>6. \A u \in Users : f[u] \in Int
  BY LockEnd DEF CoefficientOf
<1>7. SumFunctionOnSet(g, S) = SumFunctionOnSet(ended, Users)
  <2> HIDE DEF f, key, g
  <2>1. SumFunctionOnSet(g, S) = KeysSum(f, key, Users, S)
    BY <1>2, <1>3, <1>5, <1>6, SumOfGroups
  <2> QED
    BY <2>1 DEF KeysSum
<1>8. ASSUME NEW u \in Users PROVE before[u] = ended[u] + after[u] /\ ended[u] \in Int
  <2> DEFINE e == ls[u].end_lock_time
             v == voting_power_coefficients(ls[u])[c]
  <2>1. e \in Nat /\ e % SECONDS_PER_WEEK = 0 /\ v \in Nat
           /\ e <= st.timestamp + MAX_SECONDS
    <3>1. ls[u].start_lock_time <= st.timestamp /\ ls[u].start_lock_time \in Nat
             /\ e <= ls[u].start_lock_time + MAX_SECONDS
      BY LockEnd
    <3> QED
      BY <1>2, <3>1, LockEnd
  <2>2. /\ before[u] = IF e > s THEN v ELSE 0
        /\ after[u] = IF e > t THEN v ELSE 0
        /\ ended[u] = IF e \in S THEN v ELSE 0
    BY DEF EndsLater, WithKeys, CoefficientOf, EndsOf
  <2>3. s <= t
    <3>1. s <= st.timestamp
      BY FloorWeekFacts DEF s
    <3> QED
      BY <1>2, <3>1
  <2>4. e \in S <=> e > s /\ e <= t
    BY <1>1, <2>1
  <2> HIDE DEF e, v, before, after, ended
  <2> QED
    BY <1>2, <2>1, <2>2, <2>3, <2>4
<1>9. SumFunctionOnSet(before, Users) = SumFunctionOnSet(ended, Users) + SumFunctionOnSet(after, Users)
  <2>1. /\ \A u \in Users : ended[u] \in Int
        /\ \A u \in Users : after[u] \in Int
        /\ \A u \in Users : before[u] = ended[u] + after[u]
    BY <1>8, LiveAfterNat
  <2> HIDE DEF before, ended, after
  <2> QED
    BY <1>2, <2>1, SumPlus
<1>10. SumFunctionOnSet(ended, Users) \in Int /\ SumFunctionOnSet(after, Users) \in Int
  <2>1. \A u \in Users : after[u] \in Int
    BY LiveAfterNat
  <2> HIDE DEF ended, after
  <2> QED
    BY <1>2, <1>8, <2>1, SumInt
<1>11. /\ SumOfOne(ch, WeeksToApply(st, t), c) = SumFunctionOnSet(g, S)
       /\ LiveAfter(ls, c, FloorWeek(st.timestamp)) = SumFunctionOnSet(before, Users)
       /\ LiveAfter(ls, c, t) = SumFunctionOnSet(after, Users)
  BY DEF SumOfOne, LiveAfter, S, s
<1> HIDE DEF g, before, ended, after
<1> QED
  BY <1>7, <1>9, <1>10, <1>11

\* STATE with the changes that are due: the sum of the locks that are live.
LEMMA DueSum ==
    ASSUME VeInv, PowerInv
    PROVE  LET due == Minus(state.coefs, SumOf(changes, WeeksToApply(state, now)))
           IN due \in Coefficients /\ \A c \in Component : due[c] = LiveAfter(locks, c, now)
<1> DEFINE S == WeeksToApply(state, now)
           sum == SumOf(changes, S)
           due == Minus(state.coefs, sum)
<1>1. GoodLocks(locks) /\ now \in Nat
  BY LocksAreGood DEF VeInv, LockTypes
<1>2. state.timestamp \in Nat /\ state.coefs \in Coefficients /\ now <= MaxTime
  BY DEF PowerInv
<1>3. ASSUME NEW c \in Component
      PROVE  /\ sum[c] = LiveAfter(locks, c, FloorWeek(state.timestamp)) - LiveAfter(locks, c, now)
             /\ LiveAfter(locks, c, FloorWeek(state.timestamp)) \in Nat
             /\ LiveAfter(locks, c, now) \in Nat
  <2>1. sum[c] = SumOfOne(changes, S, c)
    BY SumOfParts
  <2>2. SumOfOne(changes, S, c)
           = LiveAfter(locks, c, FloorWeek(state.timestamp)) - LiveAfter(locks, c, now)
    <3>1. /\ state.timestamp <= now
          /\ \A u \in Users : locks[u].start_lock_time <= state.timestamp
          /\ \A w \in LockEnds, d \in Component : changes[w][d] = EndingAt(locks, d, w)
      BY DEF PowerInv
    <3> QED
      BY <1>1, <1>2, <3>1, CatchUpSubtracts
  <2> QED
    BY <1>1, <1>2, <2>1, <2>2, LiveAfterNat, FloorWeekFacts
<1>4. sum \in Differences
  <2>1. \A c \in Component : SumOfOne(changes, S, c) \in Int
    BY <1>3, SumOfParts
  <2> QED
    BY <2>1 DEF SumOf, Differences, Component
<1>5. state.coefs \in Differences
  BY <1>2, CoefficientsParts
<1> HIDE DEF sum
<1>6. ASSUME NEW c \in Component PROVE due[c] = LiveAfter(locks, c, now)
  <2>1. due[c] = state.coefs[c] - sum[c]
    BY <1>4, <1>5, Coefficientwise
  <2>2. state.coefs[c] = LiveAfter(locks, c, FloorWeek(state.timestamp))
    BY DEF PowerInv
  <2> QED
    BY <1>3, <2>1, <2>2
<1>7. due \in Differences
  BY <1>4, <1>5, Coefficientwise
<1>8. due \in Coefficients
  BY <1>3, <1>6, <1>7, Coefficientwise
<1> QED
  BY <1>6, <1>8 DEF sum

\* What a catch-up saves.
LEMMA CatchUpSaves ==
    ASSUME VeInv, PowerInv
    PROVE  LET S == WeeksToApply(state, now)
               saved == CaughtUp(state, S)
           IN /\ saved.coefs \in Coefficients
              /\ \A c \in Component : saved.coefs[c] = LiveAfter(locks, c, now)
              /\ S # {} => saved.timestamp = Max(S)
<1> DEFINE S == WeeksToApply(state, now)
           due == Minus(state.coefs, SumOf(changes, S))
           w == Max(S)
           r == [state EXCEPT !.coefs = due]
<1>1. due \in Coefficients /\ \A c \in Component : due[c] = LiveAfter(locks, c, now)
  BY DueSum
<1>2. CASE S = {}
  <2>1. \A c \in Component : SumOfOne(changes, S, c) = 0
    BY <1>2, SumEmpty DEF SumOfOne
  <2>2. state.coefs \in Coefficients
    BY DEF PowerInv
  <2>3. SumOf(changes, S) \in Differences /\ \A c \in Component : SumOf(changes, S)[c] = 0
    BY <2>1 DEF SumOf, Differences, Component
  <2>4. \A c \in Component : due[c] = state.coefs[c]
    <3> DEFINE sum == SumOf(changes, S)
    <3>1. state.coefs \in Differences /\ sum \in Differences /\ \A c \in Component : sum[c] = 0
      BY <2>2, <2>3, CoefficientsParts
    <3> HIDE DEF sum
    <3>2. \A c \in Component : Minus(state.coefs, sum)[c] = state.coefs[c]
      BY <3>1, Coefficientwise
    <3> QED
      BY <3>2 DEF sum
  <2>5. CaughtUp(state, S) = state
    BY <1>2 DEF CaughtUp
  <2> HIDE DEF S, due
  <2> QED
    BY <1>1, <1>2, <2>2, <2>4, <2>5 DEF S
<1>3. CASE S # {}
  <2>1. S \in SUBSET Nat /\ now \in Nat /\ \A v \in S : v <= now
    BY WeeksOfCatchUp DEF PowerInv, VeInv, LockTypes
  <2>2. {v \in S : v <= w} = S
    <3> HIDE DEF S
    <3> QED
      BY <1>3, <2>1, LastWeek
  <2>3. CaughtUp(state, S) = [r EXCEPT !.timestamp = w]
    BY <1>3, <2>2 DEF CaughtUp, SavedAt, Reduced
  <2> HIDE DEF due, w, S
  <2>4. r.coefs = due /\ r.total_deposit = state.total_deposit
           /\ r = [coefs |-> due, total_deposit |-> state.total_deposit,
                   timestamp |-> state.timestamp]
    BY DEF VeInv, TotalRecord
  <2>5. [r EXCEPT !.timestamp = w].coefs = due /\ [r EXCEPT !.timestamp = w].timestamp = w
    BY <2>4
  <2> QED
    BY <1>1, <1>3, <2>3, <2>5 DEF S, w
<1> QED
  BY <1>2, <1>3

-----------------------------------------------------------------------------
(* The steps preserve PowerInv.                                            *)

LEMMA PowerInitially == VeInit => PowerInv
<1> SUFFICES ASSUME VeInit PROVE PowerInv
  OBVIOUS
<1>1. \A u \in Users : locks[u] = DefaultLock
  BY DEF VeInit
<1>2. /\ DefaultLock.end_lock_time = 0 /\ DefaultLock.start_lock_time = 0
      /\ voting_power_coefficients(DefaultLock) = NoCoefficients
  BY DEF DefaultLock, void_lock_with_timestamp, voting_power_coefficients, exists
<1>3. NoCoefficients \in Coefficients /\ \A c \in Component : NoCoefficients[c] = 0
  BY DEF NoCoefficients, Coefficients, Component
<1>4. ASSUME NEW c \in Component
      PROVE  /\ \A w \in LockEnds : EndingAt(locks, c, w) = 0
             /\ \A t \in Nat : LiveAfter(locks, c, t) = 0
  <2>1. IsFiniteSet(Users)
    BY VeAssumption
  <2>2. \A w : \A u \in Users : WithKey(CoefficientOf(locks, c), EndsOf(locks), Users, w)[u] = 0
    BY <1>1, <1>2, <1>3 DEF WithKey, CoefficientOf
  <2>3. \A t \in Nat : \A u \in Users : EndsLater(locks, c, t)[u] = 0
    BY <1>1, <1>2, <1>3 DEF EndsLater
  <2> QED
    BY <2>1, <2>2, <2>3, SumZero DEF EndingAt, KeySum, LiveAfter
<1>5. state.coefs = NoCoefficients /\ state.timestamp = 0 /\ now \in Nat /\ now <= MaxTime
  BY VeAssumption DEF VeInit, DefaultState
<1>6. FloorWeek(0) \in Nat
  BY FloorWeekFacts
<1>7. changes = [w \in LockEnds |-> NoCoefficients]
  BY DEF VeInit
<1> HIDE DEF VeInit
<1> QED
  BY <1>1, <1>2, <1>3, <1>4, <1>5, <1>6, <1>7 DEF PowerInv

LEMMA CheckpointKeepsPower ==
    ASSUME VeInv, PowerInv, execute_global_checkpoint
    PROVE  PowerInv'
<1> DEFINE S == WeeksToApply(state, now)
           m == Max(S)
<1>1. /\ S # {} /\ state' = CaughtUp(state, S) /\ UNCHANGED <<changes, locks, now>>
  BY DEF execute_global_checkpoint
<1>2. /\ state'.coefs \in Coefficients
      /\ \A c \in Component : state'.coefs[c] = LiveAfter(locks, c, now)
      /\ state'.timestamp = m
  BY <1>1, CatchUpSaves
<1>3. /\ now \in Nat /\ state.timestamp \in Nat /\ state.timestamp <= now
      /\ \A u \in Users : locks[u].start_lock_time <= state.timestamp
      /\ GoodLocks(locks)
  BY LocksAreGood DEF VeInv, LockTypes, PowerInv
<1>4. /\ \A w \in S : w \in Nat /\ w > FloorWeek(state.timestamp) /\ w <= now
                        /\ w % SECONDS_PER_WEEK = 0
      /\ \A w \in Nat : /\ w % SECONDS_PER_WEEK = 0 /\ w > FloorWeek(state.timestamp) /\ w <= now
                        /\ w <= state.timestamp + MAX_SECONDS
                        => w \in S
  BY <1>3, WeeksOfCatchUp
<1>5. m \in S /\ \A w \in S : w <= m
  <2>1. S \in SUBSET Nat /\ \A w \in S : w <= now
    BY <1>4
  <2> HIDE DEF S
  <2> QED
    BY <1>1, <1>3, <2>1, LastWeek
<1> HIDE DEF S, m
<1>6. m \in Nat /\ m <= now /\ m > FloorWeek(state.timestamp)
  BY <1>4, <1>5
<1>7. state.timestamp <= m
  <2>1. /\ FloorWeek(state.timestamp) \in Nat
        /\ m % SECONDS_PER_WEEK = 0
    BY <1>3, <1>4, <1>5, FloorWeekFacts
  <2> QED
    BY <1>3, <1>6, <2>1, WeekGap
<1>8. ASSUME NEW u \in Users
      PROVE  locks[u].end_lock_time > FloorWeek(m) <=> locks[u].end_lock_time > now
  <2> DEFINE e == locks[u].end_lock_time
  <2>1. e \in Nat /\ e % SECONDS_PER_WEEK = 0 /\ e <= state.timestamp + MAX_SECONDS
    <3>1. locks[u].start_lock_time \in Nat /\ e <= locks[u].start_lock_time + MAX_SECONDS
             /\ e \in Nat /\ e % SECONDS_PER_WEEK = 0
      BY <1>3, LockEnd
    <3>2. MAX_SECONDS \in Nat
      BY VeAssumption, MulNat DEF MAX_SECONDS
    <3> QED
      BY <1>3, <3>1, <3>2
  <2>2. e > FloorWeek(m) <=> e > m
    BY <1>6, <2>1, WeekGap
  <2>3. FloorWeek(state.timestamp) \in Nat
    BY <1>3, FloorWeekFacts
  <2> HIDE DEF e
  <2>4. e > m /\ e <= now => e \in S
    BY <1>4, <1>6, <2>1, <2>3
  <2>5. e > m => e > now
    BY <1>3, <1>5, <1>6, <2>1, <2>4
  <2> QED
    BY <1>3, <1>6, <2>1, <2>2, <2>5 DEF e
<1>9. ASSUME NEW c \in Component
      PROVE  LiveAfter(locks, c, FloorWeek(m)) = LiveAfter(locks, c, now)
  <2>1. EndsLater(locks, c, FloorWeek(m)) = EndsLater(locks, c, now)
    BY <1>8 DEF EndsLater
  <2> QED
    BY <2>1 DEF LiveAfter
<1>10. \A u \in Users : locks[u].start_lock_time <= m
  BY <1>3, <1>6, <1>7, LockEnd
<1> QED
  BY <1>1, <1>2, <1>6, <1>9, <1>10 DEF PowerInv

\* Replacing one lock changes the sums of what is live and of what ends in
\* each week by as much.
LEMMA SumsOfReplaced ==
    ASSUME NEW ls, GoodLocks(ls), NEW mt, GoodLocks(mt), NEW u \in Users,
           \A v \in Users \ {u} : mt[v] = ls[v], NEW c \in Component
    PROVE  /\ \A t \in Nat :
                 LiveAfter(mt, c, t) = LiveAfter(ls, c, t)
                    - (IF ls[u].end_lock_time > t THEN voting_power_coefficients(ls[u])[c] ELSE 0)
                    + (IF mt[u].end_lock_time > t THEN voting_power_coefficients(mt[u])[c] ELSE 0)
           /\ \A w \in Nat :
                 /\ EndingAt(mt, c, w) \in Nat
                 /\ EndingAt(mt, c, w) = EndingAt(ls, c, w)
                      - (IF ls[u].end_lock_time = w THEN voting_power_coefficients(ls[u])[c] ELSE 0)
                      + (IF mt[u].end_lock_time = w THEN voting_power_coefficients(mt[u])[c] ELSE 0)
<1>1. IsFiniteSet(Users)
  BY VeAssumption
<1>2. \A v \in Users : /\ voting_power_coefficients(ls[v])[c] \in Nat
                       /\ voting_power_coefficients(mt[v])[c] \in Nat
  BY LockEnd
<1>3. ASSUME NEW t \in Nat
      PROVE  LiveAfter(mt, c, t) = LiveAfter(ls, c, t)
                - (IF ls[u].end_lock_time > t THEN voting_power_coefficients(ls[u])[c] ELSE 0)
                + (IF mt[u].end_lock_time > t THEN voting_power_coefficients(mt[u])[c] ELSE 0)
  <2> DEFINE f == EndsLater(ls, c, t)
             g == EndsLater(mt, c, t)
  <2>1. /\ \A v \in Users : f[v] \in Int
        /\ \A v \in Users : g[v] \in Int
        /\ \A v \in Users \ {u} : g[v] = f[v]
    BY <1>2 DEF EndsLater
  <2>2. /\ f[u] = IF ls[u].end_lock_time > t THEN voting_power_coefficients(ls[u])[c] ELSE 0
        /\ g[u] = IF mt[u].end_lock_time > t THEN voting_power_coefficients(mt[u])[c] ELSE 0
    BY DEF EndsLater
  <2> HIDE DEF f, g
  <2>3. SumFunctionOnSet(g, Users) = SumFunctionOnSet(f, Users) - f[u] + g[u]
    BY <1>1, <2>1, SumUpdate
  <2> QED
    BY <2>2, <2>3 DEF LiveAfter, f, g
<1>4. ASSUME NEW w \in Nat
      PROVE  /\ EndingAt(mt, c, w) \in Nat
             /\ EndingAt(mt, c, w) = EndingAt(ls, c, w)
                  - (IF ls[u].end_lock_time = w THEN voting_power_coefficients(ls[u])[c] ELSE 0)
                  + (IF mt[u].end_lock_time = w THEN voting_power_coefficients(mt[u])[c] ELSE 0)
  <2> DEFINE f == WithKey(CoefficientOf(ls, c), EndsOf(ls), Users, w)
             g == WithKey(CoefficientOf(mt, c), EndsOf(mt), Users, w)
  <2>1. \A v \in Users :
           /\ f[v] = IF ls[v].end_lock_time = w THEN voting_power_coefficients(ls[v])[c] ELSE 0
           /\ g[v] = IF mt[v].end_lock_time = w THEN voting_power_coefficients(mt[v])[c] ELSE 0
    BY DEF WithKey, CoefficientOf, EndsOf
  <2> HIDE DEF f, g
  <2>2. /\ \A v \in Users : f[v] \in Int
        /\ \A v \in Users : g[v] \in Nat
        /\ \A v \in Users : g[v] \in Int
        /\ \A v \in Users \ {u} : g[v] = f[v]
    BY <1>2, <2>1
  <2>3. SumFunctionOnSet(g, Users) = SumFunctionOnSet(f, Users) - f[u] + g[u]
    BY <1>1, <2>2, SumUpdate
  <2>4. SumFunctionOnSet(g, Users) \in Nat
    BY <1>1, <2>2, SumNat
  <2> QED
    BY <2>1, <2>3, <2>4 DEF EndingAt, KeySum, f, g
<1> QED
  BY <1>3, <1>4

LEMMA UpdateKeepsPower ==
    ASSUME VeInv, PowerInv, VeInv', UNCHANGED now, NEW u \in Users,
           NEW new \in UserLockedBalance, new.timestamp = now, WellFormed(new),
           update_user_lock(u, new)
    PROVE  PowerInv'
<1> DEFINE prev == locks[u]
           saved == CaughtUp(state, WeeksToApply(state, now))
           p == voting_power_coefficients(prev)
           n == voting_power_coefficients(new)
           rest == IF expired_at_timestamp(prev, now) THEN saved.coefs ELSE Minus(saved.coefs, p)
           total == saved.total_deposit - prev.deposited_amount + new.deposited_amount
<1>1. /\ state' = StateWithLock(saved, prev, new)
      /\ changes' = ChangesWithLock(prev, new)
      /\ locks' = [locks EXCEPT ![u] = new]
  BY DEF update_user_lock
<1>2. /\ saved.coefs \in Coefficients
      /\ \A c \in Component : saved.coefs[c] = LiveAfter(locks, c, now)
  BY CatchUpSaves
<1>3. state' = [coefs |-> Plus(rest, n), total_deposit |-> total, timestamp |-> now]
  BY <1>1 DEF StateWithLock
<1>4. GoodLocks(locks) /\ GoodLocks(locks') /\ now \in Nat /\ now <= MaxTime
  BY LocksAreGood, LocksStayGood DEF VeInv, LockTypes, PowerInv
<1>5. locks'[u] = new /\ \A v \in Users \ {u} : locks'[v] = locks[v]
  BY <1>1, <1>4 DEF GoodLocks
<1>6. p \in Coefficients /\ n \in Coefficients
  BY <1>4, PowerOfLock DEF GoodLocks
<1>7. /\ new.end_lock_time \in Nat /\ prev.end_lock_time \in Nat
      /\ new.end_lock_time % SECONDS_PER_WEEK = 0 /\ prev.end_lock_time % SECONDS_PER_WEEK = 0
      /\ new.start_lock_time <= now
      /\ new.end_lock_time <= new.start_lock_time + MAX_SECONDS
      /\ new.start_lock_time \in Nat
      /\ \A c \in Component : ~(new.end_lock_time > now) => n[c] = 0
  <2>1. /\ locks'[u].end_lock_time \in Nat /\ locks'[u].start_lock_time \in Nat
        /\ locks'[u].end_lock_time % SECONDS_PER_WEEK = 0
        /\ locks'[u].end_lock_time <= locks'[u].start_lock_time + MAX_SECONDS
    BY <1>4, LockEnd
  <2>2. prev.end_lock_time \in Nat /\ prev.end_lock_time % SECONDS_PER_WEEK = 0
    BY <1>4, LockEnd
  <2>3. new.deposited_amount = 0 => \A c \in Component : n[c] = 0
    BY PowerOfLock
  <2>4. new.start_lock_time <= now /\ (new.deposited_amount # 0 => new.end_lock_time > now)
    BY <1>4, <1>5, <2>1 DEF WellFormed
  <2> HIDE DEF n, prev
  <2> QED
    BY <1>5, <2>1, <2>2, <2>3, <2>4
<1>8. MaxTime \in Nat /\ MAX_SECONDS \in Nat
  BY VeAssumption, MulNat DEF MAX_SECONDS
<1>9. state'.coefs = Plus(rest, n) /\ state'.timestamp = now
  <2> HIDE DEF rest, n, total
  <2> QED
    BY <1>3
<1>10. rest \in Differences /\ n \in Differences
       /\ \A c \in Component : rest[c] = saved.coefs[c] - IF prev.end_lock_time > now THEN p[c] ELSE 0
  <2>1. saved.coefs \in Differences /\ p \in Differences /\ n \in Differences
    BY <1>2, <1>6, CoefficientsParts
  <2> HIDE DEF saved, p, n, prev
  <2>2. /\ Minus(saved.coefs, p) \in Differences
        /\ \A c \in Component : /\ Minus(saved.coefs, p)[c] = saved.coefs[c] - p[c]
                                /\ saved.coefs[c] \in Int
    BY <2>1, Coefficientwise
  <2>3. expired_at_timestamp(prev, now) <=> ~(prev.end_lock_time > now)
    BY <1>4, <1>7 DEF expired_at_timestamp
  <2> QED
    BY <2>1, <2>2, <2>3
<1> HIDE DEF rest, saved, total
<1>11. ASSUME NEW c \in Component
       PROVE  state'.coefs[c] = LiveAfter(locks', c, FloorWeek(now))
  <2>1. state'.coefs[c] = rest[c] + n[c]
    <3> HIDE DEF n
    <3> QED
      BY <1>9, <1>10, Coefficientwise
  <2>2. LiveAfter(locks', c, now) = LiveAfter(locks, c, now)
           - (IF prev.end_lock_time > now THEN p[c] ELSE 0)
           + (IF new.end_lock_time > now THEN n[c] ELSE 0)
    BY <1>4, <1>5, SumsOfReplaced
  <2>3. LiveAfter(locks', c, FloorWeek(now)) = LiveAfter(locks', c, now)
    <3>1. \A v \in Users : locks'[v].end_lock_time > FloorWeek(now) <=> locks'[v].end_lock_time > now
      BY <1>4, LockEnd, WeekGap
    <3>2. EndsLater(locks', c, FloorWeek(now)) = EndsLater(locks', c, now)
      BY <3>1 DEF EndsLater
    <3> QED
      BY <3>2 DEF LiveAfter
  <2>4. (IF new.end_lock_time > now THEN n[c] ELSE 0) = n[c]
    BY <1>7
  <2>5. rest[c] = LiveAfter(locks, c, now) - IF prev.end_lock_time > now THEN p[c] ELSE 0
    BY <1>2, <1>10
  <2> HIDE DEF n, p, prev
  <2> QED
    BY <2>1, <2>2, <2>3, <2>4, <2>5
<1>12. state'.coefs \in Coefficients
  <2>1. \A c \in Component : LiveAfter(locks', c, FloorWeek(now)) \in Nat
    BY <1>4, LiveAfterNat, FloorWeekFacts
  <2>2. state'.coefs \in Differences
    <3> HIDE DEF n
    <3> QED
      BY <1>9, <1>10, Coefficientwise
  <2>3. \A c \in Component : state'.coefs[c] \in Nat
    BY <1>11, <2>1
  <2> QED
    BY <2>2, <2>3, Coefficientwise
<1>13. prev.end_lock_time \in LockEnds /\ new.end_lock_time \in LockEnds
  <2>1. prev.end_lock_time <= now + MAX_SECONDS
    <3>1. /\ prev.end_lock_time <= prev.start_lock_time + MAX_SECONDS
          /\ prev.start_lock_time \in Nat
      BY <1>4, LockEnd
    <3>2. prev.start_lock_time <= state.timestamp /\ state.timestamp <= now
             /\ state.timestamp \in Nat
      BY DEF PowerInv
    <3> HIDE DEF prev
    <3> QED
      BY <1>4, <1>7, <1>8, <3>1, <3>2
  <2> HIDE DEF prev
  <2> QED
    BY <1>4, <1>7, <1>8, <2>1 DEF LockEnds
<1>14. /\ changes' \in [LockEnds -> Differences]
       /\ \A w \in LockEnds, c \in Component :
             changes'[w][c] = EndingAt(locks, c, w)
                - (IF prev.end_lock_time = w THEN p[c] ELSE 0)
                + (IF new.end_lock_time = w THEN n[c] ELSE 0)
  <2>1. changes \in [LockEnds -> Coefficients]
           /\ \A w \in LockEnds, c \in Component : changes[w][c] = EndingAt(locks, c, w)
    BY DEF PowerInv
  <2> DEFINE a == prev.end_lock_time
             b == new.end_lock_time
             without == [changes EXCEPT ![a] = Minus(changes[a], p)]
  <2>2. changes' = [without EXCEPT ![b] = Plus(without[b], n)]
    BY <1>1 DEF ChangesWithLock
  <2>3. p \in Differences /\ n \in Differences /\ \A w \in LockEnds : changes[w] \in Differences
    BY <1>6, <2>1, CoefficientsParts
  <2>4. Minus(changes[a], p) \in Differences
           /\ \A c \in Component : Minus(changes[a], p)[c] = changes[a][c] - p[c]
    <3> HIDE DEF p, a
    <3> QED
      BY <1>13, <2>3, Coefficientwise DEF a
  <2>5. \A w \in LockEnds :
           /\ without[w] \in Differences
           /\ \A c \in Component :
                 without[w][c] = changes[w][c] - IF a = w THEN p[c] ELSE 0
    <3>1. \A w \in LockEnds : without[w] = IF a = w THEN Minus(changes[a], p) ELSE changes[w]
      BY <2>1
    <3>2. \A w \in LockEnds : \A c \in Component : changes[w][c] \in Int
      BY <2>3, Coefficientwise
    <3> HIDE DEF without, a, p
    <3> QED
      BY <2>3, <2>4, <3>1, <3>2
  <2>6. DOMAIN without = LockEnds
    BY <2>1
  <2> HIDE DEF without
  <2>7. Plus(without[b], n) \in Differences
           /\ \A c \in Component : Plus(without[b], n)[c] = without[b][c] + n[c]
    <3>1. without[b] \in Differences
      BY <1>13, <2>5
    <3> HIDE DEF n, b
    <3> QED
      BY <2>3, <3>1, Coefficientwise
  <2>8. DOMAIN changes' = LockEnds
           /\ \A w \in LockEnds : changes'[w] = IF b = w THEN Plus(without[b], n) ELSE without[w]
    BY <2>2, <2>6
  <2>9. changes' = [w \in LockEnds |-> changes'[w]]
    <3> HIDE DEF b, n
    <3> QED
      BY <2>2, <2>6
  <2>10. \A w \in LockEnds : \A c \in Component : without[w][c] \in Int /\ n[c] \in Int
    BY <2>3, <2>5, Coefficientwise
  <2> HIDE DEF a, b, p, n
  <2>11. \A w \in LockEnds :
           /\ changes'[w] \in Differences
           /\ \A c \in Component :
                 changes'[w][c] = without[w][c] + IF b = w THEN n[c] ELSE 0
    BY <2>5, <2>7, <2>8, <2>10
  <2>12. changes' \in [LockEnds -> Differences]
    BY <2>9, <2>11
  <2>13. \A w \in LockEnds, c \in Component :
             changes'[w][c] = EndingAt(locks, c, w)
                - (IF a = w THEN p[c] ELSE 0) + (IF b = w THEN n[c] ELSE 0)
    BY <2>1, <2>5, <2>11
  <2> QED
    BY <2>12, <2>13 DEF a, b
<1>15. ASSUME NEW w \in LockEnds, NEW c \in Component
       PROVE  changes'[w][c] = EndingAt(locks', c, w) /\ changes'[w][c] \in Nat
  <2>1. w \in Nat
    BY <1>8 DEF LockEnds
  <2>2. /\ EndingAt(locks', c, w) \in Nat
        /\ EndingAt(locks', c, w) = EndingAt(locks, c, w)
             - (IF prev.end_lock_time = w THEN p[c] ELSE 0)
             + (IF new.end_lock_time = w THEN n[c] ELSE 0)
    BY <1>4, <1>5, <2>1, SumsOfReplaced
  <2> HIDE DEF p, n, prev
  <2> QED
    BY <1>14, <2>2
<1>16. changes' \in [LockEnds -> Coefficients]
  <2>1. ASSUME NEW w \in LockEnds PROVE changes'[w] \in Coefficients
    BY <1>14, <1>15, Coefficientwise
  <2> QED
    BY <1>14, <2>1
<1>17. \A v \in Users : locks'[v].start_lock_time <= now
  <2>1. ASSUME NEW v \in Users \ {u} PROVE locks'[v].start_lock_time <= now
    <3>1. locks[v].start_lock_time <= state.timestamp /\ state.timestamp <= now
             /\ state.timestamp \in Nat
      BY DEF PowerInv
    <3>2. locks[v].start_lock_time \in Nat
      BY <1>4, LockEnd
    <3> QED
      BY <1>4, <1>5, <3>1, <3>2
  <2> QED
    BY <1>5, <1>7, <2>1
<1> HIDE DEF prev, p, n
<1> QED
  BY <1>4, <1>9, <1>11, <1>12, <1>15, <1>16, <1>17 DEF PowerInv

\* Each message on a lock is an update of one lock.
LEMMA LockMessages ==
    ASSUME VeInv,
           \/ \E u \in Users, amount \in LockAmounts, end \in EndTimes :
                 execute_create_lock(u, amount, end)
           \/ \E u \in Users, end \in EndTimes : execute_increase_end_lock_time(u, end)
           \/ \E u \in Users, amount \in IncreaseAmounts : execute_increase_lock_amount(u, amount)
           \/ \E u \in Users : execute_withdraw(u)
    PROVE  \E u \in Users : \E new : update_user_lock(u, new) /\ new.timestamp = now /\ UNCHANGED now
<1>1. ASSUME NEW u \in Users, exists(locks[u])
      PROVE  AfterWithdrawal(locks[u]).timestamp = now
  BY <1>1, WithdrawalLeaves DEF VeInv
<1>2. \A amount, end : Lock(amount, end).timestamp = now
  BY DEF Lock
<1> QED
  BY <1>1, <1>2, Zenon DEF execute_create_lock, execute_increase_end_lock_time,
     execute_increase_lock_amount, execute_withdraw

LEMMA PowerNext ==
    ASSUME VeInv, VeInv', PowerInv, [VeNext]_veVars
    PROVE  PowerInv'
<1>1. ASSUME NEW u \in Users, NEW new, update_user_lock(u, new), new.timestamp = now, UNCHANGED now
      PROVE  PowerInv'
  <2>1. locks' = [locks EXCEPT ![u] = new] /\ GoodLocks(locks) /\ GoodLocks(locks')
    BY <1>1, LocksAreGood, LocksStayGood DEF update_user_lock
  <2>2. new \in UserLockedBalance /\ WellFormed(new)
    <3>1. locks'[u] = new
      BY <2>1 DEF GoodLocks
    <3> QED
      BY <2>1, <3>1 DEF GoodLocks
  <2> QED
    BY <1>1, <2>2, UpdateKeepsPower
<1>2. ASSUME UNCHANGED <<state, changes, locks>>, now' \in Nat, now <= now', now' <= MaxTime
      PROVE  PowerInv'
  BY <1>2 DEF PowerInv, VeInv, LockTypes
<1>3. now \in Nat /\ now <= now /\ now <= MaxTime /\ MaxTime \in Nat
  BY VeAssumption DEF VeInv, LockTypes, PowerInv
<1>4. CASE execute_register_contracts
  BY <1>2, <1>3, <1>4 DEF execute_register_contracts
<1>5. CASE Tick
  <2>1. now < MaxTime /\ now' = now + 1 /\ UNCHANGED <<state, changes, locks>>
    BY <1>5 DEF Tick, veStorage
  <2> QED
    BY <1>2, <1>3, <2>1
<1>6. CASE UNCHANGED veVars
  BY <1>2, <1>3, <1>6 DEF veVars, veStorage
<1>7. CASE execute_global_checkpoint
  BY <1>7, CheckpointKeepsPower
<1> QED
  BY <1>1, <1>4, <1>5, <1>6, <1>7, LockMessages DEF VeNext, VeAction

LEMMA PowerInvariant == VeSpec => [](VeInv /\ PowerInv)
<1>1. VeInit => PowerInv
  BY PowerInitially
<1>2. VeInv /\ VeInv' /\ PowerInv /\ [VeNext]_veVars => PowerInv'
  BY PowerNext
<1> QED
  BY <1>1, <1>2, VeInvariant, PTL DEF VeSpec

-----------------------------------------------------------------------------
(* The refinement.                                                         *)

\* VePower takes its sums from the same library module.
LEMMA PowerSums ==
    ASSUME NEW f
    PROVE  Power!SumFunction(f) = SumFunction(f)
BY DEF Power!SumFunction, Power!SumFunctionOnSet, Power!FoldFunctionOnSet,
   SumFunction, SumFunctionOnSet, FoldFunctionOnSet, Power!MapThenFoldSet, MapThenFoldSet

\* The abstract total is always the sum that VePower prescribes.
LEMMA TotalIsSum ==
    ASSUME VeInv, PowerInv
    PROVE  CoefficientsNow = Power!Sum(locks, now)
<1> DEFINE due == Minus(state.coefs, SumOf(changes, WeeksToApply(state, now)))
           sum == Power!Sum(locks, now)
<1>1. due \in Coefficients /\ \A c \in Component : due[c] = LiveAfter(locks, c, now)
  BY DueSum
<1>2. CoefficientsNow = due
  <2> HIDE DEF due
  <2>1. [state EXCEPT !.coefs = due].coefs = due
    BY DEF VeInv, TotalRecord
  <2> QED
    BY <2>1, Zenon DEF CoefficientsNow, Reduced, due
<1>3. \A c \in Component :
         /\ Power!LiveContribution(locks, now, c) = EndsLater(locks, c, now)
         /\ DOMAIN EndsLater(locks, c, now) = Users
  BY DEF Power!LiveContribution, Power!Live, EndsLater
<1>4. \A c \in Component : SumFunction(Power!LiveContribution(locks, now, c)) = LiveAfter(locks, c, now)
  BY <1>3, SumOnDomain DEF LiveAfter
<1>5. sum = [quad |-> LiveAfter(locks, "quad", now), linear |-> LiveAfter(locks, "linear", now),
             constant |-> LiveAfter(locks, "constant", now)]
  BY <1>4, PowerSums DEF Power!Sum, Component
<1>6. sum \in Differences /\ \A c \in Component : sum[c] = LiveAfter(locks, c, now)
  <2>1. \A c \in Component : LiveAfter(locks, c, now) \in Nat
    BY LiveAfterNat, LocksAreGood DEF VeInv, LockTypes
  <2> QED
    BY <1>5, <2>1 DEF Differences, Component
<1> HIDE DEF due, sum
<1>7. due \in Differences
  BY <1>1, CoefficientsParts
<1>8. due = sum
  <2>1. \A c \in Component : due[c] = sum[c]
    BY <1>1, <1>6
  <2> QED
    BY <1>6, <1>7, <2>1, Coefficientwise
<1> QED
  BY <1>2, <1>8 DEF sum

\* What has been unlocked of a live lock is less than the deposit and at
\* most the part of it that has passed in time: both roundings of
\* locked_amount_at_timestamp are in favour of the lock.
LEMMA UnlocksLinearly ==
    ASSUME NEW amount \in Nat \ {0}, NEW n \in Nat, NEW d \in Nat \ {0}, n < d
    PROVE  LET rest == amount - Times256(amount, from_ratio(n, d))
           IN rest \in Nat \ {0} /\ rest * d >= amount * (d - n)
<1> DEFINE ratio == (n * One) \div d
           part == (amount * ratio) \div One
<1>1. One \in Nat \ {0} /\ n * One \in Nat
  BY VeAssumption, MulNat
<1>2. ratio \in Nat /\ d * ratio <= n * One
  BY <1>1, WeekDiv
<1>3. amount * ratio \in Nat
  BY <1>2, MulNat
<1>4. part \in Nat /\ One * part <= amount * ratio
  BY <1>1, <1>3, WeekDiv
<1>5. Times256(amount, from_ratio(n, d)) = part
  BY DEF Times256, from_ratio
<1> HIDE DEF ratio, part
<1>6. part * d <= amount * n
  <2>1. (One * part) * d <= (amount * ratio) * d
    BY <1>1, <1>3, <1>4, MulNat, MulMono
  <2>2. (d * ratio) * amount <= (n * One) * amount
    BY <1>1, <1>2, MulNat, MulMono
  <2>3. /\ (One * part) * d = (part * d) * One
        /\ (amount * ratio) * d = (d * ratio) * amount
        /\ (n * One) * amount = (amount * n) * One
    BY <1>1, <1>2, <1>4
  <2>4. part * d \in Nat /\ amount * n \in Nat
    BY <1>4, MulNat
  <2>5. (part * d) * One \in Nat /\ (d * ratio) * amount \in Nat /\ (amount * n) * One \in Nat
    BY <1>1, <1>2, <2>4, MulNat
  <2>6. (part * d) * One <= (amount * n) * One
    BY <2>1, <2>2, <2>3, <2>5
  <2> QED
    BY <1>1, <2>4, <2>6, MulCancel
<1>7. part < amount
  <2>1. SUFFICES ASSUME amount <= part PROVE FALSE
    BY <1>4
  <2>2. amount * d <= part * d
    BY <1>4, <2>1, MulMono
  <2>3. amount * d = amount * n + amount * (d - n) /\ amount * n \in Nat /\ amount * (d - n) \in Nat
    <3>1. d - n \in Nat
      OBVIOUS
    <3> QED
      BY <3>1, MulNat
  <2>4. amount * (d - n) >= 1
    <3>1. d - n \in Nat /\ 1 <= d - n
      OBVIOUS
    <3>2. 1 * amount <= (d - n) * amount
      BY <3>1, MulMono
    <3> QED
      BY <3>1, <3>2
  <2>5. part * d \in Nat
    BY <1>4, MulNat
  <2> QED
    BY <1>6, <2>2, <2>3, <2>4, <2>5
<1>8. (amount - part) * d >= amount * (d - n)
  <2>1. (amount - part) * d = amount * d - part * d /\ amount * (d - n) = amount * d - amount * n
    BY <1>4
  <2>2. amount * d \in Nat /\ part * d \in Nat /\ amount * n \in Nat
    BY <1>4, MulNat
  <2> QED
    BY <1>6, <2>1, <2>2
<1> QED
  BY <1>4, <1>5, <1>7, <1>8

\* Steps that change no lock, pay nothing and take no time are invisible.
LEMMA Invisible ==
    ASSUME VeInv, PowerInv, VeInv', PowerInv', UNCHANGED <<locks, ve_glow, now>>,
           CoefficientsNow' = Power!Sum(locks', now')
    PROVE  UNCHANGED Power!vars
<1>1. CoefficientsNow = Power!Sum(locks, now)
  BY TotalIsSum
<1>2. CoefficientsNow' = CoefficientsNow
  BY <1>1
<1> QED
  BY <1>2 DEF Power!vars

\* A lock made by Lock is one that VePower may put in place.
LEMMA ReplacesLock ==
    ASSUME VeInv, NEW u \in Users, NEW amount \in Nat \ {0}, NEW end \in Nat,
           now < end, end <= now + MAX_SECONDS, UNCHANGED now,
           locks' = [locks EXCEPT ![u] = Lock(amount, end)],
           ve_glow' = ve_glow + amount - locks[u].deposited_amount,
           CoefficientsNow' = Power!Sum(locks', now')
    PROVE  /\ Power!Replace(u, locks'[u].deposited_amount, locks'[u].end_lock_time)
           /\ locks'[u].deposited_amount = amount /\ locks'[u].end_lock_time = end
<1>1. locks \in [Users -> UserLockedBalance]
  BY DEF VeInv, LockTypes
<1>2. locks'[u] = Lock(amount, end)
  BY <1>1
<1>3. locks'[u].deposited_amount = amount /\ locks'[u].end_lock_time = end
  BY <1>2 DEF Lock
<1>4. Power!Replace(u, amount, end)
  BY DEF Power!Replace, Lock
<1> QED
  BY <1>3, <1>4

TotalMatches == CoefficientsNow = Power!Sum(locks, now)

\* Creating a lock, extending one and adding to one commit GLOW.
LEMMA MessagesCommit ==
    ASSUME VeInv, TotalMatches', NEW u \in Users,
           \/ \E amount \in LockAmounts, end \in EndTimes : execute_create_lock(u, amount, end)
           \/ \E end \in EndTimes : execute_increase_end_lock_time(u, end)
           \/ \E amount \in IncreaseAmounts : execute_increase_lock_amount(u, amount)
    PROVE  Power!Commit(u)
<1> DEFINE old == locks[u]
<1>1. /\ old \in UserLockedBalance
      /\ old.deposited_amount \in Nat /\ old.end_lock_time \in Nat
      /\ now \in Nat /\ ve_glow \in Nat /\ MAX_SECONDS \in Nat
  BY VeAssumption DEF VeInv, LockTypes, UserLockedBalance, MAX_SECONDS
<1>2. exists(old) => old.end_lock_time <= now + MAX_SECONDS
  BY LockOf DEF VeInv
<1>3. ASSUME NEW amount \in Nat \ {0}, NEW end \in Nat, now < end, end <= now + MAX_SECONDS,
             exists(old) => /\ ~expired_at_timestamp(old, now)
                            /\ amount >= old.deposited_amount /\ end >= old.end_lock_time,
             UNCHANGED now, locks' = [locks EXCEPT ![u] = Lock(amount, end)],
             ve_glow' = ve_glow + amount - old.deposited_amount
      PROVE  Power!Commit(u)
  <2>1. /\ Power!Replace(u, locks'[u].deposited_amount, locks'[u].end_lock_time)
        /\ locks'[u].deposited_amount = amount /\ locks'[u].end_lock_time = end
    BY <1>3, ReplacesLock DEF TotalMatches
  <2>2. Power!HasLock(u) => /\ Power!Live(old, now)
                            /\ amount >= old.deposited_amount /\ end >= old.end_lock_time
    BY <1>1, <1>3 DEF Power!HasLock, Power!Live, exists, expired_at_timestamp
  <2> QED
    BY <2>1, <2>2 DEF Power!Commit
<1>4. ASSUME NEW amount \in LockAmounts, NEW end \in EndTimes, execute_create_lock(u, amount, end)
      PROVE  Power!Commit(u)
  <2>1. /\ amount # 0 /\ ve_glow' = ve_glow + amount /\ ~exists(old)
        /\ FloorWeek(end) > now /\ FloorWeek(end) <= now + MAX_SECONDS
        /\ locks' = [locks EXCEPT ![u] = Lock(amount, FloorWeek(end))] /\ UNCHANGED now
    BY <1>4, Zenon DEF execute_create_lock, receive_cw20, update_user_lock
  <2>2. amount \in Nat /\ FloorWeek(end) \in Nat
    BY VeAssumption, FloorWeekFacts
  <2>3. ve_glow' = ve_glow + amount - old.deposited_amount
    BY <1>1, <2>1, <2>2 DEF exists
  <2> HIDE DEF old
  <2> QED
    BY <1>1, <1>3, <2>1, <2>2, <2>3
<1>5. ASSUME NEW end \in EndTimes, execute_increase_end_lock_time(u, end)
      PROVE  Power!Commit(u)
  <2>1. /\ exists(old) /\ ~expired_at_timestamp(old, now)
        /\ FloorWeek(end) > old.end_lock_time /\ FloorWeek(end) <= now + MAX_SECONDS
        /\ locks' = [locks EXCEPT ![u] = Lock(old.deposited_amount, FloorWeek(end))]
        /\ UNCHANGED now /\ ve_glow' = ve_glow
    BY <1>5, Zenon DEF execute_increase_end_lock_time, update_user_lock
  <2>2. FloorWeek(end) \in Nat
    BY VeAssumption, FloorWeekFacts
  <2>3. old.deposited_amount \in Nat \ {0} /\ now < old.end_lock_time
    BY <1>1, <2>1 DEF exists, expired_at_timestamp
  <2>4. ve_glow' = ve_glow + old.deposited_amount - old.deposited_amount
    BY <1>1, <2>1
  <2> HIDE DEF old
  <2>5. /\ now < FloorWeek(end) /\ FloorWeek(end) >= old.end_lock_time
        /\ old.deposited_amount >= old.deposited_amount
    BY <1>1, <2>1, <2>2, <2>3
  <2> QED
    BY <1>3, <2>1, <2>2, <2>3, <2>4, <2>5
<1>6. ASSUME NEW amount \in IncreaseAmounts, execute_increase_lock_amount(u, amount)
      PROVE  Power!Commit(u)
  <2>1. /\ exists(old) /\ ~expired_at_timestamp(old, now)
        /\ amount # 0 /\ ve_glow' = ve_glow + amount
        /\ locks' = [locks EXCEPT ![u] = Lock(old.deposited_amount + amount, old.end_lock_time)]
        /\ UNCHANGED now
    BY <1>6, Zenon DEF execute_increase_lock_amount, receive_cw20, update_user_lock
  <2>2. amount \in Nat /\ old.deposited_amount + amount \in Nat \ {0} /\ old.end_lock_time > now
    BY <1>1, <2>1, VeAssumption DEF exists, expired_at_timestamp
  <2>3. ve_glow' = ve_glow + (old.deposited_amount + amount) - old.deposited_amount
    BY <1>1, <2>1, <2>2
  <2> HIDE DEF old
  <2>4. /\ now < old.end_lock_time /\ old.end_lock_time >= old.end_lock_time
        /\ old.deposited_amount + amount >= old.deposited_amount
        /\ old.end_lock_time <= now + MAX_SECONDS
    BY <1>1, <1>2, <2>1, <2>2
  <2> QED
    BY <1>1, <1>3, <2>1, <2>2, <2>3, <2>4
<1> QED
  BY <1>4, <1>5, <1>6

\* A withdrawal closes an expired lock and releases a part of a live one.
LEMMA WithdrawalReleases ==
    ASSUME VeInv, TotalMatches', NEW u \in Users, execute_withdraw(u)
    PROVE  Power!Release(u) \/ Power!Close(u)
<1> DEFINE old == locks[u]
           rest == locked_amount_at_timestamp(old, now)
<1>1. /\ old.deposited_amount \in Nat /\ old.end_lock_time \in Nat /\ old.start_lock_time \in Nat
      /\ now \in Nat /\ ve_glow \in Nat /\ locks \in [Users -> UserLockedBalance]
  BY DEF VeInv, LockTypes, UserLockedBalance
<1>2. /\ exists(old) /\ UNCHANGED now
      /\ locks' = [locks EXCEPT ![u] = AfterWithdrawal(old)]
      /\ old.deposited_amount - AfterWithdrawal(old).deposited_amount # 0
      /\ ve_glow' = ve_glow - (old.deposited_amount - AfterWithdrawal(old).deposited_amount)
  BY Zenon DEF execute_withdraw, update_user_lock
<1>3. /\ old.deposited_amount \in Nat \ {0} /\ old.end_lock_time <= now + MAX_SECONDS
      /\ old.start_lock_time <= now /\ old.start_lock_time < old.end_lock_time
  <2>1. WellFormed(old) /\ old.timestamp <= now
    BY DEF VeInv, LocksWellFormed
  <2>2. old.end_lock_time <= now + MAX_SECONDS
    BY <1>2, LockOf DEF VeInv
  <2> QED
    BY <1>1, <1>2, <2>1, <2>2 DEF WellFormed, exists
<1>4. CASE expired_at_timestamp(old, now)
  <2>1. rest = 0
    BY <1>4 DEF locked_amount_at_timestamp
  <2>2. AfterWithdrawal(old) = void_lock_with_timestamp(now)
    BY <2>1, Zenon DEF AfterWithdrawal
  <2>3. AfterWithdrawal(old) = Power!Unlocked(now) /\ AfterWithdrawal(old).deposited_amount = 0
    BY <2>2 DEF void_lock_with_timestamp, Power!Unlocked
  <2>4. ve_glow' = ve_glow - old.deposited_amount
    BY <1>1, <1>2, <2>3
  <2>5. Power!HasLock(u) /\ ~Power!Live(old, now)
    BY <1>1, <1>2, <1>4 DEF Power!HasLock, Power!Live, exists, expired_at_timestamp
  <2>6. locks' = [locks EXCEPT ![u] = Power!Unlocked(now)]
    BY <1>2, <2>3
  <2> HIDE DEF old
  <2>7. Power!Close(u)
    BY <1>2, <2>4, <2>5, <2>6 DEF Power!Close, TotalMatches, old
  <2> QED
    BY <2>7
<1>5. CASE ~expired_at_timestamp(old, now)
  <2>1. now < old.end_lock_time
    BY <1>1, <1>5 DEF expired_at_timestamp
  <2> DEFINE n == now - old.start_lock_time
             d == old.end_lock_time - old.start_lock_time
  <2>2. n \in Nat /\ d \in Nat \ {0} /\ n < d /\ d - n = old.end_lock_time - now
    BY <1>1, <1>3, <2>1
  <2>3. rest = old.deposited_amount - Times256(old.deposited_amount, from_ratio(n, d))
    BY <1>2, <1>5 DEF locked_amount_at_timestamp, initial_lock_duration
  <2> HIDE DEF n, d, rest, old
  <2>4. rest \in Nat \ {0} /\ rest * d >= old.deposited_amount * (old.end_lock_time - now)
    BY <1>3, <2>2, <2>3, UnlocksLinearly
  <2>5. AfterWithdrawal(old) = Lock(rest, old.end_lock_time)
    BY <2>4, Zenon DEF AfterWithdrawal, rest
  <2>6. AfterWithdrawal(old).deposited_amount = rest
    BY <2>5 DEF Lock
  <2>7. ve_glow' = ve_glow + rest - old.deposited_amount
    BY <1>1, <1>2, <2>4, <2>6
  <2>8. locks' = [locks EXCEPT ![u] = Lock(rest, old.end_lock_time)]
    BY <1>2, <2>5
  <2>9. /\ Power!Replace(u, locks'[u].deposited_amount, locks'[u].end_lock_time)
        /\ locks'[u].deposited_amount = rest /\ locks'[u].end_lock_time = old.end_lock_time
    <3>1. ve_glow' = ve_glow + rest - locks[u].deposited_amount
      BY <2>7 DEF old
    <3>2. CoefficientsNow' = Power!Sum(locks', now')
      BY DEF TotalMatches
    <3> QED
      <4>1. now < old.end_lock_time /\ old.end_lock_time <= now + MAX_SECONDS /\ UNCHANGED now
        BY <1>2, <1>3, <2>1
      <4>2. old.end_lock_time \in Nat /\ rest \in Nat \ {0}
        BY <1>1, <2>4
      <4> QED
        BY <2>8, <3>1, <3>2, <4>1, <4>2, ReplacesLock
  <2>10. rest < old.deposited_amount
    <3>1. rest \in 0..old.deposited_amount
      BY <1>2, LockedPart DEF VeInv, rest, old
    <3> QED
      BY <1>1, <1>2, <2>6, <3>1
  <2>11. Power!HasLock(u) /\ Power!Live(old, now)
    BY <1>2, <2>1 DEF Power!HasLock, Power!Live, exists, old
  <2>12. Power!Release(u)
    BY <2>4, <2>9, <2>10, <2>11 DEF Power!Release, old, d
  <2> QED
    BY <2>12
<1> QED
  BY <1>4, <1>5

\* Every step of the contract is a step of VePower or is invisible in it.
LEMMA StepImplementsPower ==
    ASSUME VeInv, PowerInv, VeInv', PowerInv', TotalMatches', [VeNext]_veVars
    PROVE  [Power!Next]_(Power!vars)
<1>1. ASSUME UNCHANGED <<locks, ve_glow, now>> PROVE UNCHANGED Power!vars
  BY <1>1, Invisible DEF TotalMatches
<1>2. CASE execute_register_contracts
  BY <1>1, <1>2 DEF execute_register_contracts
<1>3. CASE execute_global_checkpoint
  BY <1>1, <1>3 DEF execute_global_checkpoint
<1>4. CASE UNCHANGED veVars
  BY <1>1, <1>4 DEF veVars, veStorage
<1>5. CASE Tick
  <2>1. now' = now + 1 /\ locks' = locks /\ ve_glow' = ve_glow
    BY <1>5 DEF Tick, veStorage
  <2>2. Power!Pass
    BY <2>1 DEF Power!Pass, TotalMatches
  <2> QED
    BY <2>2 DEF Power!Next
<1>6. ASSUME NEW u \in Users,
             \/ \E amount \in LockAmounts, end \in EndTimes : execute_create_lock(u, amount, end)
             \/ \E end \in EndTimes : execute_increase_end_lock_time(u, end)
             \/ \E amount \in IncreaseAmounts : execute_increase_lock_amount(u, amount)
      PROVE  Power!Next
  BY <1>6, MessagesCommit, Zenon DEF Power!Next
<1>7. ASSUME NEW u \in Users, execute_withdraw(u) PROVE Power!Next
  BY <1>7, WithdrawalReleases, Zenon DEF Power!Next
<1> QED
  BY <1>1, <1>2, <1>3, <1>4, <1>5, <1>6, <1>7, Zenon DEF VeNext, VeAction

LEMMA InitImplementsPower ==
    ASSUME VeInit
    PROVE  Power!Init
<1>1. TotalMatches
  BY VeInitEstablishes, PowerInitially, TotalIsSum DEF TotalMatches
<1>2. locks = [u \in Users |-> Power!Unlocked(0)]
  BY DEF VeInit, DefaultLock, void_lock_with_timestamp, Power!Unlocked
<1>3. now \in Nat /\ ve_glow = 0
  BY VeAssumption DEF VeInit
<1> QED
  BY <1>1, <1>2, <1>3 DEF Power!Init, TotalMatches

\* The ve-token contract implements VePower, for any users, weeks, lock
\* amounts and end times: however long nobody calls it and whichever weeks a
\* catch-up has to make good, the total that update_user_lock and
\* execute_global_checkpoint keep incrementally is, with the changes that
\* are due, exactly the sum of what the unexpired locks contribute; a
\* withdrawal before the end never takes more than the linear share.
THEOREM VeImplementsPower == VeSpec => ImplementsVePower
<1>1. VeInv /\ PowerInv => TotalMatches
  BY TotalIsSum DEF TotalMatches
<1>2. VeInit => Power!Init
  BY InitImplementsPower
<1>3. /\ VeInv /\ PowerInv /\ VeInv' /\ PowerInv' /\ TotalMatches'
      /\ [VeNext]_veVars
      => [Power!Next]_(Power!vars)
  BY StepImplementsPower
<1> QED
  BY <1>1, <1>2, <1>3, PowerInvariant, PTL DEF VeSpec, ImplementsVePower, Power!Spec

-----------------------------------------------------------------------------
(* The fee distributor's books, for any users, weeks, fees and limits and  *)
(* whatever the ve-token contract answers.  The argument: the last week a  *)
(* user claimed is before the current week, which is the only one that a   *)
(* distribution changes, and nothing was paid for the weeks after it.      *)

FeeInv ==
    /\ now \in Nat /\ now >= SECONDS_PER_WEEK
    /\ unclaimed \in Nat /\ fee_glow \in Nat
    /\ FeesReserved
    /\ last_claimed \in [Users -> Nat]
    /\ DOMAIN weekly = Weeks
    /\ DOMAIN paid = Users /\ \A u \in Users : DOMAIN paid[u] = Weeks
    /\ \A u \in Users : last_claimed[u] < FloorWeek(now)
    /\ \A u \in Users, w \in Weeks : last_claimed[u] < w => paid[u][w] = 0

FeeStep == \A u \in Users, w \in Weeks : WeekStep(u, w)

LEMMA WeeksAreNat == Weeks \subseteq Nat
BY VeAssumption DEF Weeks, Times

\* From the second week on, the current week does not start at zero.
LEMMA WeekIsPositive ==
    ASSUME NEW t \in Nat, t >= SECONDS_PER_WEEK
    PROVE  FloorWeek(t) \in Nat \ {0}
<1>1. SECONDS_PER_WEEK \in Nat
  BY VeAssumption
<1>2. FloorWeek(t) \in Nat /\ t < FloorWeek(t) + SECONDS_PER_WEEK
  BY FloorWeekFacts
<1> QED
  BY <1>1, <1>2

LEMMA FeeInitEstablishes == FeeInit => FeeInv
<1> SUFFICES ASSUME FeeInit PROVE FeeInv
  OBVIOUS
<1>1. now \in Nat /\ now >= SECONDS_PER_WEEK
  BY VeAssumption, FeeAssumption DEF FeeInit, VeInit
<1>2. FloorWeek(now) \in Nat \ {0}
  BY <1>1, WeekIsPositive
<1>3. /\ unclaimed = 0 /\ fee_glow = 0
      /\ last_claimed = [u \in Users |-> 0]
      /\ weekly = [w \in Weeks |-> 0]
      /\ paid = [u \in Users |-> [w \in Weeks |-> 0]]
  BY DEF FeeInit
<1> QED
  BY <1>1, <1>2, <1>3 DEF FeeInv, FeesReserved

\* The ve-token contract's steps leave the books alone and time goes on.
LEMMA VeStepKeepsFees ==
    ASSUME FeeInv, VeNext \/ UNCHANGED veVars, UNCHANGED feeVars
    PROVE  FeeInv' /\ FeeStep
<1>1. UNCHANGED <<weekly, last_claimed, unclaimed, fee_glow, paid>>
  BY DEF feeVars
<1>2. UNCHANGED now \/ now' = now + 1
  <2>1. CASE VeAction
    BY <2>1, Zenon
       DEF VeAction, execute_register_contracts, execute_create_lock,
           execute_increase_end_lock_time, execute_increase_lock_amount, execute_withdraw,
           execute_global_checkpoint
  <2>2. CASE Tick
    BY <2>2 DEF Tick
  <2>3. CASE UNCHANGED veVars
    BY <2>3 DEF veVars
  <2> QED
    BY <2>1, <2>2, <2>3 DEF VeNext
<1>3. now \in Nat /\ now' \in Nat /\ now <= now' /\ now >= SECONDS_PER_WEEK
  BY <1>2 DEF FeeInv
<1>4. now' >= SECONDS_PER_WEEK /\ FloorWeek(now) <= FloorWeek(now')
      /\ FloorWeek(now) \in Nat /\ FloorWeek(now') \in Nat
  <2>1. SECONDS_PER_WEEK \in Nat
    BY VeAssumption
  <2>2. now' >= SECONDS_PER_WEEK
    BY <1>3, <2>1
  <2>3. FloorWeek(now) <= FloorWeek(now')
    BY <1>3, FloorWeekMono
  <2>4. FloorWeek(now) \in Nat /\ FloorWeek(now') \in Nat
    BY <1>3, FloorWeekFacts
  <2> QED
    BY <2>2, <2>3, <2>4
<1>5. \A u \in Users : last_claimed[u] < FloorWeek(now')
  BY <1>4 DEF FeeInv
<1>6. FloorWeek(now)' = FloorWeek(now')
  BY DEF FloorWeek
<1>7. FeeInv'
  BY <1>1, <1>3, <1>4, <1>5, <1>6 DEF FeeInv, FeesReserved
<1>8. FeeStep
  BY <1>1 DEF FeeStep, WeekStep
<1> QED
  BY <1>7, <1>8

\* A step that only changes the reserved GLOW and the configuration.
LEMMA ReservesKeepFees ==
    ASSUME FeeInv, UNCHANGED <<now, weekly, last_claimed, paid>>,
           unclaimed' \in Nat, fee_glow' \in Nat, unclaimed' <= fee_glow'
    PROVE  FeeInv' /\ FeeStep
<1>1. FloorWeek(now)' = FloorWeek(now)
  BY DEF FloorWeek
<1> QED
  BY <1>1 DEF FeeInv, FeeStep, WeekStep, FeesReserved

LEMMA DistributeKeepsFees ==
    ASSUME FeeInv, distribute_glow
    PROVE  FeeInv' /\ FeeStep
<1> DEFINE week == FloorWeek(now)
           amount == fee_glow - unclaimed
<1>1. /\ amount > 0
      /\ weekly' = [weekly EXCEPT ![week] = weekly[week] + amount]
      /\ unclaimed' = unclaimed + amount
      /\ UNCHANGED <<veVars, last_claimed, fee_glow, paid>>
  BY Zenon DEF distribute_glow
<1>2. UNCHANGED now
  BY <1>1 DEF veVars
<1>3. unclaimed \in Nat /\ fee_glow \in Nat
  BY DEF FeeInv
<1>4. unclaimed' \in Nat /\ unclaimed' <= fee_glow'
  BY <1>1, <1>3
<1>5. DOMAIN weekly' = Weeks /\ \A w \in Weeks \ {week} : weekly'[w] = weekly[w]
  BY <1>1 DEF FeeInv
<1>6. FloorWeek(now)' = FloorWeek(now)
  BY <1>2 DEF FloorWeek
<1>7. FeeInv'
  BY <1>1, <1>2, <1>3, <1>4, <1>5, <1>6 DEF FeeInv, FeesReserved
<1>8. ASSUME NEW u \in Users, NEW w \in Weeks, w <= last_claimed[u]
      PROVE  weekly'[w] = weekly[w]
  <2>1. last_claimed[u] < week /\ last_claimed[u] \in Nat
    BY DEF FeeInv
  <2>2. week \in Nat /\ w \in Nat
    BY FloorWeekFacts, WeeksAreNat DEF FeeInv
  <2>3. w # week
    BY <1>8, <2>1, <2>2
  <2> QED
    BY <1>5, <2>3
<1> QED
  BY <1>1, <1>7, <1>8 DEF FeeStep, WeekStep

LEMMA ClaimKeepsFees ==
    ASSUME FeeInv, NEW u \in Users, NEW limit, claim(u, limit)
    PROVE  FeeInv' /\ FeeStep
<1> DEFINE weeks == ClaimedWeeks(u, limit)
           amount == MapThenSumSet(LAMBDA w : Share(u, w), weeks)
<1>1. /\ amount \in 1..unclaimed /\ amount <= fee_glow
      /\ \E last \in weeks : /\ \A w \in weeks : w <= last
                             /\ last_claimed' = [last_claimed EXCEPT ![u] = last]
      /\ unclaimed' = unclaimed - amount
      /\ fee_glow' = fee_glow - amount
      /\ paid' = PaidAfter(u, weeks)
      /\ UNCHANGED <<veVars, weekly>>
  BY Zenon DEF claim
<1> HIDE DEF amount
<1>2. UNCHANGED now
  BY <1>1 DEF veVars
<1>3. PICK last \in weeks : /\ \A w \in weeks : w <= last
                            /\ last_claimed' = [last_claimed EXCEPT ![u] = last]
  BY <1>1
<1>4. SECONDS_PER_WEEK \in Nat \ {0} /\ FloorWeek(now) \in Nat
  BY VeAssumption, FloorWeekFacts DEF FeeInv
<1>5. \A w \in weeks : /\ w \in Weeks /\ w \in Nat
                       /\ last_claimed[u] < w /\ w < FloorWeek(now)
  <2>1. \A w \in weeks : /\ w \in Weeks
                         /\ last_claimed[u] + SECONDS_PER_WEEK <= w
                         /\ w <= FloorWeek(now) - SECONDS_PER_WEEK
    BY DEF ClaimedWeeks, Claimable
  <2>2. last_claimed[u] \in Nat
    BY DEF FeeInv
  <2> HIDE DEF weeks
  <2> SUFFICES ASSUME NEW w \in weeks
               PROVE  /\ w \in Weeks /\ w \in Nat
                      /\ last_claimed[u] < w /\ w < FloorWeek(now)
    OBVIOUS
  <2>3. w \in Weeks /\ w \in Nat
    BY <2>1, WeeksAreNat
  <2>4. last_claimed[u] + SECONDS_PER_WEEK <= w /\ w <= FloorWeek(now) - SECONDS_PER_WEEK
    BY <2>1
  <2> QED
    BY <1>4, <2>2, <2>3, <2>4
<1> HIDE DEF weeks
<1>6. unclaimed' \in Nat /\ fee_glow' \in Nat /\ unclaimed' <= fee_glow'
  BY <1>1 DEF FeeInv, FeesReserved
<1>7. /\ last_claimed' \in [Users -> Nat]
      /\ \A v \in Users : last_claimed'[v] = IF v = u THEN last ELSE last_claimed[v]
  BY <1>3, <1>5 DEF FeeInv
<1> DEFINE row == [w \in Weeks |-> IF w \in weeks THEN paid[u][w] + Share(u, w) ELSE paid[u][w]]
<1>8. paid' = [paid EXCEPT ![u] = row]
  BY <1>1, Zenon DEF PaidAfter
<1>9. DOMAIN row = Weeks /\ \A w \in Weeks : w \notin weeks => row[w] = paid[u][w]
  OBVIOUS
<1> HIDE DEF row
<1>10. /\ DOMAIN paid' = Users
       /\ \A v \in Users : paid'[v] = IF v = u THEN row ELSE paid[v]
  BY <1>8 DEF FeeInv
<1>11. \A v \in Users : DOMAIN paid'[v] = Weeks
  BY <1>9, <1>10 DEF FeeInv
<1>12. ASSUME NEW v \in Users, NEW w \in Weeks, last_claimed'[v] < w
       PROVE  paid'[v][w] = 0
  <2>1. CASE v = u
    <3>1. last < w /\ w \in Nat
      BY <1>7, <1>12, <2>1, WeeksAreNat
    <3>2. last \in Nat /\ last_claimed[u] < last /\ last_claimed[u] \in Nat
      BY <1>5 DEF FeeInv
    <3>3. w \notin weeks /\ last_claimed[u] < w
      BY <1>3, <1>5, <3>1, <3>2
    <3> QED
      BY <1>9, <1>10, <2>1, <3>3 DEF FeeInv
  <2>2. CASE v # u
    BY <1>7, <1>10, <1>12, <2>2 DEF FeeInv
  <2> QED
    BY <2>1, <2>2
<1>13. \A v \in Users : last_claimed'[v] < FloorWeek(now)
  BY <1>5, <1>7 DEF FeeInv
<1>14. FloorWeek(now)' = FloorWeek(now)
  BY <1>2 DEF FloorWeek
<1>15. FeeInv'
  BY <1>1, <1>2, <1>6, <1>7, <1>10, <1>11, <1>12, <1>13, <1>14 DEF FeeInv, FeesReserved
<1>16. ASSUME NEW v \in Users, NEW w \in Weeks, paid'[v][w] # paid[v][w]
       PROVE  last_claimed[v] < w /\ w <= last_claimed'[v] /\ paid[v][w] = 0
  <2>1. v = u /\ w \in weeks
    BY <1>9, <1>10, <1>16
  <2> QED
    BY <1>3, <1>5, <1>7, <2>1 DEF FeeInv
<1> QED
  BY <1>1, <1>15, <1>16 DEF FeeStep, WeekStep

LEMMA FeeNextPreserves ==
    ASSUME FeeInv, [FeeNext]_vars
    PROVE  FeeInv' /\ FeeStep
<1>a. unclaimed \in Nat /\ fee_glow \in Nat /\ unclaimed <= fee_glow
  BY DEF FeeInv, FeesReserved
<1>1. CASE VeNext /\ UNCHANGED feeVars
  BY <1>1, VeStepKeepsFees
<1>2. CASE register_contracts
  BY <1>2, <1>a, ReservesKeepFees DEF register_contracts, veVars
<1>3. ASSUME NEW amount \in Fees, sweep(amount) PROVE FeeInv' /\ FeeStep
  <2>1. amount \in Nat
    BY FeeAssumption
  <2>2. fee_glow' = fee_glow + amount /\ UNCHANGED <<now, weekly, last_claimed, paid, unclaimed>>
    BY <1>3 DEF sweep, veVars
  <2>3. unclaimed' \in Nat /\ fee_glow' \in Nat /\ unclaimed' <= fee_glow'
    BY <1>a, <2>1, <2>2
  <2> QED
    BY <2>2, <2>3, ReservesKeepFees
<1>4. ASSUME NEW sender \in Owners, NEW owner \in Owners, update_config(sender, owner)
      PROVE  FeeInv' /\ FeeStep
  BY <1>4, <1>a, ReservesKeepFees DEF update_config, veVars
<1>5. CASE distribute_glow
  BY <1>5, DistributeKeepsFees
<1>6. ASSUME NEW u \in Users, NEW limit \in Limits, claim(u, limit)
      PROVE  FeeInv' /\ FeeStep
  BY <1>6, ClaimKeepsFees
<1>7. CASE UNCHANGED vars
  BY <1>7, VeStepKeepsFees DEF vars
<1> QED
  BY <1>1, <1>2, <1>3, <1>4, <1>5, <1>6, <1>7 DEF FeeNext, FeeAction

LEMMA FeeInvariant == FeeSpec => []FeeInv
<1>1. FeeInit => FeeInv
  BY FeeInitEstablishes
<1>2. FeeInv /\ [FeeNext]_vars => FeeInv'
  BY FeeNextPreserves
<1> QED
  BY <1>1, <1>2, PTL DEF FeeSpec

\* The GLOW that distribute_glow reserved and no claim has paid is held.
THEOREM FeesStayReserved == FeeSpec => []FeesReserved
<1>1. FeeInv => FeesReserved
  BY DEF FeeInv
<1> QED
  BY <1>1, FeeInvariant, PTL

\* compute_claimable never visits a week twice for a user, whatever the
\* limits of the claims, and distribute_glow adds to no week that a claim has
\* visited, even in the second in which the week changes.
THEOREM WeeksAreSettledOnce == FeeSpec => WeeksSettleOnce
<1>1. FeeInv /\ [FeeNext]_vars => [\A u \in Users, w \in Weeks : WeekStep(u, w)]_vars
  BY FeeNextPreserves DEF FeeStep
<1> QED
  BY <1>1, FeeInvariant, PTL DEF FeeSpec, WeeksSettleOnce

=============================================================================
