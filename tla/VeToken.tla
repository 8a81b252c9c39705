------------------------------ MODULE VeToken ------------------------------
(***************************************************************************)
(* The ve-token contract (contracts/ve-token): GLOW is locked until the    *)
(* end of a week, unlocks linearly, and gives a voting power that decays   *)
(* quadratically to zero.  The contract keeps the sum of the users' power  *)
(* as the coefficients of one quadratic function of time; what a lock      *)
(* contributes is scheduled to be subtracted at the lock's end.  Totals    *)
(* and locks are kept with their history, so both can be queried at any    *)
(* earlier time.                                                           *)
(*                                                                         *)
(* A message that fails, or whose token transfer fails, is no step; an     *)
(* arithmetic underflow is such a failure.                                 *)
(***************************************************************************)
EXTENDS Integers, FiniteSets, FiniteSetsExt, Functions

CONSTANTS
    Users,
    One,                  \* the value 1 of a Decimal256
    SECONDS_PER_WEEK, MAX_WEEKS,
    CatchUpLimit,         \* the weeks one catch-up may process (255)
    Genesis,              \* block time of instantiate
    LockAmounts, IncreaseAmounts,
    EndTimes,             \* requested end_lock_times
    MaxTime,              \* bound: the last block time
    Purse                 \* bound: GLOW the users can bring in

VARIABLES
    registered,           \* config.cw20_address is set
    state,                \* STATE
    state_log,            \* its changelog: height -> value before that height
    changes,              \* COEFFICIENT_CHANGES, zero where absent
    locks, lock_log,      \* USER_LOCKED_BALANCES and its changelog
    now,                  \* env.block.time.seconds()
    ve_glow,              \* GLOW the contract holds
    purse

veStorage == <<registered, state, state_log, changes, locks, lock_log>>
veVars == <<veStorage, now, ve_glow, purse>>

MAX_SECONDS == MAX_WEEKS * SECONDS_PER_WEEK
VOTING_POWER_CONSTANT_DIVISOR == MAX_SECONDS

ASSUME VeAssumption ==
    /\ IsFiniteSet(Users)
    /\ One \in Nat \ {0}
    /\ SECONDS_PER_WEEK \in Nat \ {0} /\ MAX_WEEKS \in Nat \ {0}
    /\ CatchUpLimit \in Nat /\ CatchUpLimit >= MAX_WEEKS
    /\ Genesis \in 1..MaxTime
    /\ LockAmounts \cup IncreaseAmounts \cup EndTimes \subseteq Nat
    /\ MaxTime \in Nat /\ Purse \in Nat

\* The block times of a run and the weeks in which its locks may end.
Times == 0..MaxTime
LockEnds == {w \in 0..MaxTime + MAX_SECONDS : w % SECONDS_PER_WEEK = 0}

Coefficients == [quad : Nat, linear : Nat, constant : Nat]
NoCoefficients == [quad |-> 0, linear |-> 0, constant |-> 0]

State == [coefs : Coefficients, total_deposit : Nat, timestamp : Nat]
DefaultState == [coefs |-> NoCoefficients, total_deposit |-> 0, timestamp |-> 0]

UserLockedBalance ==
    [deposited_amount : Nat, end_lock_time : Nat, start_lock_time : Nat, timestamp : Nat]

void_lock_with_timestamp(t) ==
    [deposited_amount |-> 0, end_lock_time |-> 0, start_lock_time |-> 0, timestamp |-> t]
DefaultLock == void_lock_with_timestamp(0)

VeTypeOK ==
    /\ registered \in BOOLEAN
    /\ state \in State
    /\ DOMAIN state_log \subseteq Times
    /\ \A h \in DOMAIN state_log : state_log[h] \in State
    /\ changes \in [LockEnds -> Coefficients]
    /\ locks \in [Users -> UserLockedBalance]
    /\ \A u \in Users : /\ DOMAIN lock_log[u] \subseteq Times
                        /\ \A h \in DOMAIN lock_log[u] : lock_log[u][h] \in UserLockedBalance
    /\ now \in Nat /\ ve_glow \in Nat /\ purse \in Nat

-----------------------------------------------------------------------------
(* Coefficients of voting power.                                           *)

Plus(a, b) ==
    [quad |-> a.quad + b.quad, linear |-> a.linear + b.linear,
     constant |-> a.constant + b.constant]

Minus(a, b) ==
    [quad |-> a.quad - b.quad, linear |-> a.linear - b.linear,
     constant |-> a.constant - b.constant]

\* Otherwise the subtraction of b from a underflows and the message fails.
Covers(a, b) == a.quad >= b.quad /\ a.linear >= b.linear /\ a.constant >= b.constant

\* The sum of one coefficient of f on S, and of all three.
SumOfOne(f, S, c) == SumFunctionOnSet([x \in S |-> f[x][c]], S)
SumOf(f, S) ==
    [quad |-> SumOfOne(f, S, "quad"), linear |-> SumOfOne(f, S, "linear"),
     constant |-> SumOfOne(f, S, "constant")]

from_ratio(a, b) == (a * One) \div b

\* An integer times a Decimal256.
Times256(n, d) == (n * d) \div One

Saturating(n) == IF n < 0 THEN 0 ELSE n

evaluate_voting_power_at_timestamp(c, t) ==
    Saturating(Times256(1, c.constant) + Times256(t * t, c.quad) - Times256(t, c.linear))
        \div VOTING_POWER_CONSTANT_DIVISOR

-----------------------------------------------------------------------------
(* One lock.                                                               *)

exists(lock) == lock.deposited_amount # 0

expired_at_timestamp(lock, t) == lock.end_lock_time <= t

initial_lock_duration(lock) == lock.end_lock_time - lock.start_lock_time

locked_amount_at_timestamp(lock, t) ==
    IF ~exists(lock) \/ expired_at_timestamp(lock, t) THEN 0
    ELSE lock.deposited_amount
            - Times256(lock.deposited_amount,
                       from_ratio(t - lock.start_lock_time, initial_lock_duration(lock)))

voting_power_coefficients(lock) ==
    IF ~exists(lock) THEN NoCoefficients
    ELSE LET end == lock.end_lock_time
             amount == lock.deposited_amount
             duration == initial_lock_duration(lock)
         IN [quad |-> from_ratio(amount, duration),
             linear |-> from_ratio(2 * end * amount, duration),
             constant |-> from_ratio(end * end * amount, duration)]

voting_power_at_timestamp(lock, t) ==
    IF ~exists(lock) \/ expired_at_timestamp(lock, t) THEN 0
    ELSE evaluate_voting_power_at_timestamp(voting_power_coefficients(lock), t)

-----------------------------------------------------------------------------
(* cw-storage-plus snapshots: the first save at a height remembers the     *)
(* value before it, and a load at a height returns what was stored before  *)
(* that height.                                                            *)

Logged(log, h, old) ==
    [k \in DOMAIN log \cup {h} |-> IF k \in DOMAIN log THEN log[k] ELSE old]

Earliest(heights) == {k \in heights : \A l \in heights : k <= l}

may_load_at_height(log, current, h) ==
    LET later == {k \in DOMAIN log : k >= h}
    IN IF later = {} THEN current ELSE log[CHOOSE k \in Earliest(later) : TRUE]

-----------------------------------------------------------------------------
(* Catching up with the scheduled changes.                                 *)

FloorWeek(t) == (t \div SECONDS_PER_WEEK) * SECONDS_PER_WEEK

\* The weeks after st.timestamp that one catch-up to t processes.
\* Faulty variant: a catch-up is a single week.
WeeksToApply_OneWeek(st, t) ==
    {w \in {FloorWeek(st.timestamp) + SECONDS_PER_WEEK} : w <= t}
WeeksToApply(st, t) ==
    {w \in {FloorWeek(st.timestamp) + i * SECONDS_PER_WEEK : i \in 1..CatchUpLimit} : w <= t}

\* st after the weeks of S.
Reduced(st, S) == [st EXCEPT !.coefs = Minus(@, SumOf(changes, S))]

\* st as it is saved for week w of S.
SavedAt(st, S, w) == [Reduced(st, {v \in S : v <= w}) EXCEPT !.timestamp = w]

CatchUpCovered(st, S) ==
    \A w \in S : Covers(st.coefs, SumOf(changes, {v \in S : v <= w}))

CaughtUp(st, S) == IF S = {} THEN st ELSE SavedAt(st, S, Max(S))

\* The changelog after a save for each week of S.
LogOfWeeks(log, st, S) ==
    [h \in DOMAIN log \cup S |->
        IF h \in DOMAIN log THEN log[h]
        ELSE CaughtUp(st, {v \in S : v < h})]

-----------------------------------------------------------------------------
(* update_user_lock.                                                       *)

\* Faulty variant: the deposit of an expired lock stays in the total.
StateWithLock_KeepsExpired(st, prev, new) ==
    LET expired == expired_at_timestamp(prev, new.timestamp)
    IN [coefs |-> Plus(IF expired THEN st.coefs
                       ELSE Minus(st.coefs, voting_power_coefficients(prev)),
                       voting_power_coefficients(new)),
        total_deposit |-> st.total_deposit + new.deposited_amount
                            - (IF expired THEN 0 ELSE prev.deposited_amount),
        timestamp |-> new.timestamp]
StateWithLock(st, prev, new) ==
    [coefs |-> Plus(IF expired_at_timestamp(prev, new.timestamp) THEN st.coefs
                    ELSE Minus(st.coefs, voting_power_coefficients(prev)),
                    voting_power_coefficients(new)),
     total_deposit |-> st.total_deposit - prev.deposited_amount + new.deposited_amount,
     timestamp |-> new.timestamp]

ChangesWithLock(prev, new) ==
    LET without == [changes EXCEPT ![prev.end_lock_time] =
                       Minus(@, voting_power_coefficients(prev))]
    IN [without EXCEPT ![new.end_lock_time] = Plus(@, voting_power_coefficients(new))]

\* Otherwise a subtraction of the previous lock underflows.
RemovalCovered(st, prev, t) ==
    /\ expired_at_timestamp(prev, t) \/ Covers(st.coefs, voting_power_coefficients(prev))
    /\ st.total_deposit >= prev.deposited_amount
    /\ Covers(changes[prev.end_lock_time], voting_power_coefficients(prev))

\* The history of the locks when u's is saved.
\* Faulty variant: the history of a lock goes with its last withdrawal.
LockLogWith_Forgets(u, new) ==
    [lock_log EXCEPT ![u] =
        IF exists(new) THEN Logged(@, new.timestamp, locks[u]) ELSE [h \in {} |-> DefaultLock]]
LockLogWith(u, new) == [lock_log EXCEPT ![u] = Logged(@, new.timestamp, locks[u])]

update_user_lock(u, new) ==
    LET prev == locks[u]
        weeks == WeeksToApply(state, new.timestamp)
        caughtUp == CaughtUp(state, weeks)
    IN /\ CatchUpCovered(state, weeks)
       /\ RemovalCovered(caughtUp, prev, new.timestamp)
       /\ state' = StateWithLock(caughtUp, prev, new)
       /\ state_log' = Logged(LogOfWeeks(state_log, state, weeks), new.timestamp, caughtUp)
       /\ changes' = ChangesWithLock(prev, new)
       /\ locks' = [locks EXCEPT ![u] = new]
       /\ lock_log' = LockLogWith(u, new)

-----------------------------------------------------------------------------
(* Messages.                                                               *)

VeInit ==
    /\ registered = FALSE
    /\ state = DefaultState
    /\ state_log = [h \in {Genesis} |-> DefaultState]
    /\ changes = [w \in LockEnds |-> NoCoefficients]
    /\ locks = [u \in Users |-> DefaultLock]
    /\ lock_log = [u \in Users |-> [h \in {} |-> DefaultLock]]
    /\ now = Genesis
    /\ ve_glow = 0
    /\ purse = Purse

execute_register_contracts ==
    /\ ~registered
    /\ registered' = TRUE
    /\ UNCHANGED <<state, state_log, changes, locks, lock_log, now, ve_glow, purse>>

\* GLOW arriving with a Receive hook; the token sends no zero amounts.
receive_cw20(amount) ==
    /\ registered
    /\ amount # 0 /\ amount <= purse
    /\ ve_glow' = ve_glow + amount
    /\ purse' = purse - amount

Lock(amount, end) ==
    [deposited_amount |-> amount, end_lock_time |-> end,
     start_lock_time |-> now, timestamp |-> now]

execute_create_lock(u, amount, requested) ==
    LET end == FloorWeek(requested)
    IN /\ receive_cw20(amount)
       /\ ~exists(locks[u])
       /\ end > now
       /\ end <= now + MAX_SECONDS
       /\ update_user_lock(u, Lock(amount, end))
       /\ UNCHANGED <<registered, now>>

execute_increase_end_lock_time(u, requested) ==
    LET end == FloorWeek(requested)
    IN /\ exists(locks[u])
       /\ ~expired_at_timestamp(locks[u], now)
       /\ end > locks[u].end_lock_time
       /\ end <= now + MAX_SECONDS
       /\ update_user_lock(u, Lock(locks[u].deposited_amount, end))
       /\ UNCHANGED <<registered, now, ve_glow, purse>>

execute_increase_lock_amount(u, amount) ==
    /\ receive_cw20(amount)
    /\ exists(locks[u])
    /\ ~expired_at_timestamp(locks[u], now)
    /\ update_user_lock(u, Lock(locks[u].deposited_amount + amount, locks[u].end_lock_time))
    /\ UNCHANGED <<registered, now>>

\* The lock that a withdrawal leaves: nothing, or what is still locked,
\* started again.
\* Faulty variant: the rest keeps its start.
AfterWithdrawal_OldStart(lock) ==
    LET rest == locked_amount_at_timestamp(lock, now)
    IN IF rest = 0 THEN void_lock_with_timestamp(now)
       ELSE [lock EXCEPT !.deposited_amount = rest, !.timestamp = now]
AfterWithdrawal(lock) ==
    LET rest == locked_amount_at_timestamp(lock, now)
    IN IF rest = 0 THEN void_lock_with_timestamp(now) ELSE Lock(rest, lock.end_lock_time)

execute_withdraw(u) ==
    LET new == AfterWithdrawal(locks[u])
        withdrawn_amount == locks[u].deposited_amount - new.deposited_amount
    IN /\ exists(locks[u])
       /\ update_user_lock(u, new)
       /\ registered
       /\ withdrawn_amount # 0 /\ withdrawn_amount <= ve_glow
       /\ ve_glow' = ve_glow - withdrawn_amount
       /\ UNCHANGED <<registered, now, purse>>

execute_global_checkpoint ==
    LET weeks == WeeksToApply(state, now)
    IN /\ CatchUpCovered(state, weeks)
       /\ weeks # {}
       /\ state' = CaughtUp(state, weeks)
       /\ state_log' = LogOfWeeks(state_log, state, weeks)
       /\ UNCHANGED <<registered, changes, locks, lock_log, now, ve_glow, purse>>

\* The next second with a block.
Tick ==
    /\ now < MaxTime
    /\ now' = now + 1
    /\ UNCHANGED <<veStorage, ve_glow, purse>>

-----------------------------------------------------------------------------
(* Queries.  None is the answer of a query that fails.                     *)

\* The state a query at time t reads, with the changes applied up to now.
StateRead(t) == may_load_at_height(state_log, state, t)
QueryCovered(t) == CatchUpCovered(StateRead(t), WeeksToApply(StateRead(t), now))
CoefficientsRead(t) == Reduced(StateRead(t), WeeksToApply(StateRead(t), now)).coefs

\* query_state's total_balance, read as zero when the query fails.
TotalBalanceAt(t) ==
    IF QueryCovered(t) THEN evaluate_voting_power_at_timestamp(CoefficientsRead(t), t) ELSE 0

LockRead(u, t) == may_load_at_height(lock_log[u], locks[u], t)

\* query_staker's balance.
BalanceAt(u, t) == voting_power_at_timestamp(LockRead(u, t), t)

-----------------------------------------------------------------------------
VeAction ==
    \/ execute_register_contracts
    \/ \E u \in Users, amount \in LockAmounts, end \in EndTimes :
          execute_create_lock(u, amount, end)
    \/ \E u \in Users, end \in EndTimes : execute_increase_end_lock_time(u, end)
    \/ \E u \in Users, amount \in IncreaseAmounts : execute_increase_lock_amount(u, amount)
    \/ \E u \in Users : execute_withdraw(u)
    \/ execute_global_checkpoint

VeNext == VeAction \/ Tick

VeSpec == VeInit /\ [][VeNext]_veVars

=============================================================================
