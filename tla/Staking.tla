------------------------------ MODULE Staking ------------------------------
(***************************************************************************)
(* LP token staking (contracts/staking): GLOW is distributed to the bonded *)
(* LP tokens along a schedule of slots, each <<start, end, amount>>, by a  *)
(* global reward index that is brought up to date when somebody calls.     *)
(*                                                                         *)
(* A message that fails, or whose token transfer fails, is no step.        *)
(***************************************************************************)
EXTENDS Integers, Sequences, FiniteSets, Functions

CONSTANTS
    Stakers, Owners,              \* addresses
    None,                         \* an absent value
    One,                          \* the value 1 of a Decimal
    TOTAL_DISTRIBUTION_AMOUNT,    \* GLOW the contract is funded with
    InitSchedules, NewSchedules,  \* schedules of instantiate and migrate, and
                                  \* of update_config
    BondAmounts,
    MaxTime,                      \* bound
    Purse                         \* bound: LP tokens that may be bonded

VARIABLES
    config,     \* [owner, distribution_schedule]; without an owner it is an
                \* OldConfig, which only migrate reads
    state,      \* [last_distributed, total_bond_amount, global_reward_index]
    reward,     \* the bucket of StakerInfos
    now,        \* env.block.time.seconds()
    lp, glow,   \* LP tokens and GLOW the contract holds
    paid,       \* for each staker the GLOW withdrawn so far
    changed,    \* how often a bond was changed
    purse

storage == <<config, state, reward>>
vars == <<storage, now, lp, glow, paid, changed, purse>>

Slot == {s \in Nat \X Nat \X Nat : s[1] < s[2]}

ASSUME StakingAssumption ==
    /\ One \in Nat \ {0}
    /\ IsFiniteSet(Stakers)
    /\ None \notin Owners
    /\ TOTAL_DISTRIBUTION_AMOUNT \in Nat
    /\ InitSchedules \cup NewSchedules \subseteq Seq(Nat \X Nat \X Nat)
    /\ \A schedule \in InitSchedules : schedule \in Seq(Slot)
    /\ BondAmounts \subseteq Nat
    /\ MaxTime \in Nat /\ Purse \in Nat

StakerInfo == [reward_index : Nat, bond_amount : Nat, pending_reward : Nat]
NoStaker == [reward_index |-> 0, bond_amount |-> 0, pending_reward |-> 0]

StakingTypeOK ==
    /\ config \in [owner : Owners \cup {None}, distribution_schedule : Seq(Nat \X Nat \X Nat)]
    /\ state \in [last_distributed : Nat, total_bond_amount : Nat, global_reward_index : Nat]
    /\ reward \in [Stakers -> StakerInfo]
    /\ now \in Nat /\ lp \in Nat /\ glow \in Nat /\ purse \in Nat
    /\ paid \in [Stakers -> Nat]
    /\ changed \in Nat

from_ratio(a, b) == (a * One) \div b
DecMul(d, n) == (d * n) \div One

Smaller(a, b) == IF a <= b THEN a ELSE b
Larger(a, b) == IF a >= b THEN a ELSE b

-----------------------------------------------------------------------------
(* Rewards.                                                                *)

\* What slot s distributes between two times.
Distributed(s, from, to) ==
    IF s[1] > to \/ s[2] < from THEN 0
    ELSE DecMul(from_ratio(s[3], s[2] - s[1]), Smaller(s[2], to) - Larger(s[1], from))

\* Otherwise the rate of a slot is a division by zero or its length
\* underflows.
SlotsUsable(schedule, from, to) ==
    \A i \in DOMAIN schedule :
        schedule[i][1] > to \/ schedule[i][2] < from \/ schedule[i][1] < schedule[i][2]

ScheduledBetween(schedule, from, to) ==
    SumFunction([i \in DOMAIN schedule |-> Distributed(schedule[i], from, to)])

\* Without bonds only the time moves on.
compute_reward(schedule, st, t) ==
    IF st.total_bond_amount = 0 THEN [st EXCEPT !.last_distributed = t]
    ELSE [st EXCEPT !.last_distributed = t,
                    !.global_reward_index = @ + from_ratio(
                        ScheduledBetween(schedule, st.last_distributed, t), st.total_bond_amount)]

RewardComputable(st, t) ==
    st.total_bond_amount = 0 \/ SlotsUsable(config.distribution_schedule, st.last_distributed, t)

compute_staker_reward(st, info) ==
    [info EXCEPT !.reward_index = st.global_reward_index,
                 !.pending_reward = @ + DecMul(st.global_reward_index, info.bond_amount)
                                      - DecMul(info.reward_index, info.bond_amount)]

StateNow == compute_reward(config.distribution_schedule, state, now)
InfoNow(u) == compute_staker_reward(StateNow, reward[u])

\* remove_staker_info or store_staker_info.
\* Faulty variant: an entry without a bond is removed.
Stored_WithoutBond(info) == IF info.bond_amount = 0 THEN NoStaker ELSE info
Stored(info) ==
    IF info.pending_reward = 0 /\ info.bond_amount = 0 THEN NoStaker ELSE info

\* What every message of a staker begins with.
Settles == config.owner # None /\ RewardComputable(state, now)

-----------------------------------------------------------------------------
(* Messages.                                                               *)

StakingInit ==
    /\ config \in [owner : Owners \cup {None}, distribution_schedule : InitSchedules]
    /\ state = [last_distributed |-> 0, total_bond_amount |-> 0, global_reward_index |-> 0]
    /\ reward = [u \in Stakers |-> NoStaker]
    /\ now = 0
    /\ lp = 0
    /\ glow = TOTAL_DISTRIBUTION_AMOUNT
    /\ paid = [u \in Stakers |-> 0]
    /\ changed = 0
    /\ purse = Purse

\* Faulty variant: the staker's reward is not settled before the bond grows.
bond_Unsettled(u, amount) ==
    /\ Settles
    /\ amount # 0 /\ amount <= purse
    /\ state' = [StateNow EXCEPT !.total_bond_amount = @ + amount]
    /\ reward' = [reward EXCEPT ![u].bond_amount = @ + amount]
    /\ lp' = lp + amount
    /\ purse' = purse - amount
    /\ changed' = changed + 1
    /\ UNCHANGED <<config, now, glow, paid>>
bond(u, amount) ==
    /\ Settles
    /\ amount # 0 /\ amount <= purse
    /\ state' = [StateNow EXCEPT !.total_bond_amount = @ + amount]
    /\ reward' = [reward EXCEPT ![u] = [InfoNow(u) EXCEPT !.bond_amount = @ + amount]]
    /\ lp' = lp + amount
    /\ purse' = purse - amount
    /\ changed' = changed + 1
    /\ UNCHANGED <<config, now, glow, paid>>

unbond(u, amount) ==
    /\ Settles
    /\ reward[u].bond_amount >= amount
    /\ state.total_bond_amount >= amount
    /\ amount # 0 /\ amount <= lp
    /\ state' = [StateNow EXCEPT !.total_bond_amount = @ - amount]
    /\ reward' = [reward EXCEPT ![u] = Stored([InfoNow(u) EXCEPT !.bond_amount = @ - amount])]
    /\ lp' = lp - amount
    /\ changed' = changed + 1
    /\ UNCHANGED <<config, now, glow, paid, purse>>

withdraw(u) ==
    LET amount == InfoNow(u).pending_reward
    IN /\ Settles
       /\ amount # 0 /\ amount <= glow
       /\ state' = StateNow
       /\ reward' = [reward EXCEPT ![u] = Stored([InfoNow(u) EXCEPT !.pending_reward = 0])]
       /\ glow' = glow - amount
       /\ paid' = [paid EXCEPT ![u] = @ + amount]
       /\ UNCHANGED <<config, now, lp, changed, purse>>

Count(schedule, s) == Cardinality({i \in DOMAIN schedule : schedule[i] = s})
Slots(schedule) == {schedule[i] : i \in DOMAIN schedule}

\* Slots that had begun when rewards were last computed stay, and none is
\* added.
assert_new_schedules(new) ==
    LET old == config.distribution_schedule
    IN /\ Len(new) >= Len(old)
       /\ \A s \in Slots(old) :
             s[1] <= state.last_distributed => Count(old, s) <= Count(new, s)
       /\ \A s \in Slots(new) :
             s[1] <= state.last_distributed => Count(new, s) <= Count(old, s)

update_config(sender, owner, schedule) ==
    /\ config.owner = sender
    /\ schedule # None => assert_new_schedules(schedule)
    /\ config' = [owner |-> owner,
                  distribution_schedule |->
                      IF schedule = None THEN config.distribution_schedule ELSE schedule]
    /\ UNCHANGED <<state, reward, now, lp, glow, paid, changed, purse>>

\* A slot as migrate_staking leaves it: what lies before t.
Truncated(s, t) ==
    IF s[2] < t THEN s
    ELSE <<s[1], t, DecMul(from_ratio(s[3], s[2] - s[1]), t - s[1])>>

\* The slots that have begun, in their order: the n-th has n of them up to it.
BegunSlots ==
    LET schedule == config.distribution_schedule
        begun == {i \in DOMAIN schedule : schedule[i][1] < now}
    IN [n \in 1..Cardinality(begun) |->
           schedule[CHOOSE i \in begun : Cardinality({j \in begun : j <= i}) = n]]

migrate_staking(sender) ==
    LET stopped == [i \in DOMAIN BegunSlots |-> Truncated(BegunSlots[i], now)]
        remaining == TOTAL_DISTRIBUTION_AMOUNT
                        - SumFunction([i \in DOMAIN stopped |-> stopped[i][3]])
    IN /\ config.owner = sender
       /\ RewardComputable(state, now)
       /\ \A i \in DOMAIN BegunSlots : BegunSlots[i][2] >= now => BegunSlots[i] \in Slot
       /\ remaining > 0 /\ remaining <= glow
       /\ config' = [config EXCEPT !.distribution_schedule = stopped]
       /\ state' = StateNow
       /\ glow' = glow - remaining
       /\ UNCHANGED <<reward, now, lp, paid, changed, purse>>

\* The upgrade of a contract whose stored configuration has no owner.  The
\* new configuration can be read as an old one too and the schedules are not
\* compared: it is left to the chain's administrator to migrate only once.
migrate(owner, schedule) ==
    /\ config' = [owner |-> owner, distribution_schedule |-> schedule]
    /\ UNCHANGED <<state, reward, now, lp, glow, paid, changed, purse>>

Tick ==
    /\ now < MaxTime
    /\ now' = now + 1
    /\ UNCHANGED <<storage, lp, glow, paid, changed, purse>>

-----------------------------------------------------------------------------
StakingNext ==
    \/ \E u \in Stakers, amount \in BondAmounts : bond(u, amount) \/ unbond(u, amount)
    \/ \E u \in Stakers : withdraw(u)
    \/ \E sender, owner \in Owners, schedule \in NewSchedules \cup {None} :
          update_config(sender, owner, schedule)
    \/ \E sender \in Owners : migrate_staking(sender)
    \/ \E owner \in Owners, schedule \in InitSchedules : config.owner = None /\ migrate(owner, schedule)
    \/ Tick

StakingSpec == StakingInit /\ [][StakingNext]_vars

=============================================================================
