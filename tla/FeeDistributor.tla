--------------------------- MODULE FeeDistributor ---------------------------
(***************************************************************************)
(* The fee distributor (contracts/fee-distributor) next to the ve-token    *)
(* contract it queries: GLOW is distributed week by week and claimed by    *)
(* the users in proportion to the veGLOW they held at the week's start.    *)
(* Both contracts run on the same chain and see the same block time.       *)
(***************************************************************************)
EXTENDS VeProperties

CONSTANTS
    Fees,                 \* GLOW that a sweep or a transfer brings in
    Limits,               \* limits that a claim may give (None is the default)
    Owners,               \* addresses that may own the fee distributor
    FeePurse              \* bound: GLOW that may still arrive

VARIABLES
    fee_config,           \* CONFIG: the owner, and are contracts registered?
    weekly,               \* WEEKLY_TOKEN_DISTRIBUTION, zero where absent
    last_claimed,         \* USER_LAST_CLAIMED_FEE_TIMESTAMP
    unclaimed,            \* STATE.total_distributed_unclaimed_fees
    fee_glow,             \* GLOW the fee distributor holds
    fee_purse,
    paid                  \* for each user and week, what claims paid: the
                          \* history that the properties speak of

feeVars == <<fee_config, weekly, last_claimed, unclaimed, fee_glow, fee_purse, paid>>
vars == <<veVars, feeVars>>

ASSUME FeeAssumption ==
    /\ Fees \subseteq Nat \ {0} /\ Limits \subseteq Nat
    /\ Owners # {} /\ FeePurse \in Nat
    /\ Genesis >= SECONDS_PER_WEEK    \* seconds since 1970

Weeks == {w \in Times : w % SECONDS_PER_WEEK = 0}

FeeTypeOK ==
    /\ VeTypeOK
    /\ fee_config \in [owner : Owners, registered : BOOLEAN]
    /\ weekly \in [Weeks -> Nat]
    /\ last_claimed \in [Users -> Weeks]
    /\ unclaimed \in Nat /\ fee_glow \in Nat /\ fee_purse \in Nat
    /\ paid \in [Users -> [Weeks -> Nat]]

multiply_ratio(a, n, d) == (a * n) \div d

FeeInit ==
    /\ VeInit
    /\ fee_config \in [owner : Owners, registered : {FALSE}]
    /\ weekly = [w \in Weeks |-> 0]
    /\ last_claimed = [u \in Users |-> 0]
    /\ unclaimed = 0
    /\ fee_glow = 0
    /\ fee_purse = FeePurse
    /\ paid = [u \in Users |-> [w \in Weeks |-> 0]]

-----------------------------------------------------------------------------
register_contracts ==
    /\ ~fee_config.registered
    /\ fee_config' = [fee_config EXCEPT !.registered = TRUE]
    /\ UNCHANGED <<veVars, weekly, last_claimed, unclaimed, fee_glow, fee_purse, paid>>

\* The swap of the native coins for GLOW returns some amount.
sweep(amount) ==
    /\ fee_config.registered
    /\ amount <= fee_purse
    /\ fee_glow' = fee_glow + amount
    /\ fee_purse' = fee_purse - amount
    /\ UNCHANGED <<veVars, fee_config, weekly, last_claimed, unclaimed, paid>>

update_config(sender, owner) ==
    /\ fee_config.owner = sender
    /\ fee_config' = [fee_config EXCEPT !.owner = owner]
    /\ UNCHANGED <<veVars, weekly, last_claimed, unclaimed, fee_glow, fee_purse, paid>>

\* The GLOW that is not reserved for claims yet is added to this week.
\* Faulty variant: the whole balance is distributed.
distribute_glow_Balance ==
    LET week == FloorWeek(now)
    IN /\ fee_config.registered
       /\ TotalBalanceAt(week) # 0
       /\ fee_glow # 0
       /\ weekly' = [weekly EXCEPT ![week] = @ + fee_glow]
       /\ unclaimed' = unclaimed + fee_glow
       /\ UNCHANGED <<veVars, fee_config, last_claimed, fee_glow, fee_purse, paid>>
\* Faulty variant: the GLOW goes to the week before.
distribute_glow_WeekBefore ==
    LET week == FloorWeek(now) - SECONDS_PER_WEEK
        amount == fee_glow - unclaimed
    IN /\ fee_config.registered
       /\ TotalBalanceAt(week) # 0
       /\ amount > 0
       /\ weekly' = [weekly EXCEPT ![week] = @ + amount]
       /\ unclaimed' = unclaimed + amount
       /\ UNCHANGED <<veVars, fee_config, last_claimed, fee_glow, fee_purse, paid>>
distribute_glow ==
    LET week == FloorWeek(now)
        amount == fee_glow - unclaimed
    IN /\ fee_config.registered
       /\ TotalBalanceAt(week) # 0
       /\ amount > 0
       /\ weekly' = [weekly EXCEPT ![week] = @ + amount]
       /\ unclaimed' = unclaimed + amount
       /\ UNCHANGED <<veVars, fee_config, last_claimed, fee_glow, fee_purse, paid>>

\* The weeks that a claim of u visits: the first `limit` weeks with a
\* distribution after the last one visited, up to the week before this one.
Claimable(u) ==
    {w \in Weeks : /\ weekly[w] # 0
                   /\ last_claimed[u] + SECONDS_PER_WEEK <= w
                   /\ w <= FloorWeek(now) - SECONDS_PER_WEEK}

ClaimedWeeks(u, limit) ==
    {w \in Claimable(u) : Cardinality({v \in Claimable(u) : v < w}) < limit}

\* The part of week w's distribution that is u's.
Share(u, w) == multiply_ratio(weekly[w], BalanceAt(u, w), TotalBalanceAt(w))

PaidAfter(u, weeks) ==
    [paid EXCEPT ![u] = [w \in Weeks |-> IF w \in weeks THEN @[w] + Share(u, w) ELSE @[w]]]

\* A total of zero stops the claim, and so does an amount of zero, which the
\* token refuses to transfer.
claim(u, limit) ==
    LET weeks == ClaimedWeeks(u, limit)
        amount == MapThenSumSet(LAMBDA w : Share(u, w), weeks)
    IN /\ fee_config.registered
       /\ \A w \in weeks : TotalBalanceAt(w) # 0
       /\ amount \in 1..unclaimed /\ amount <= fee_glow
       /\ \E last \in weeks : /\ \A w \in weeks : w <= last
                              /\ last_claimed' = [last_claimed EXCEPT ![u] = last]
       /\ unclaimed' = unclaimed - amount
       /\ fee_glow' = fee_glow - amount
       /\ paid' = PaidAfter(u, weeks)
       /\ UNCHANGED <<veVars, fee_config, weekly, fee_purse>>

-----------------------------------------------------------------------------
FeeAction ==
    \/ register_contracts
    \/ \E amount \in Fees : sweep(amount)
    \/ \E sender, owner \in Owners : update_config(sender, owner)
    \/ distribute_glow
    \/ \E u \in Users, limit \in Limits : claim(u, limit)

FeeNext == (VeNext /\ UNCHANGED feeVars) \/ FeeAction

FeeSpec == FeeInit /\ [][FeeNext]_vars

=============================================================================
