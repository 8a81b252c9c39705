--------------------------- MODULE LottoMigration ---------------------------
(***************************************************************************)
(* The migration of the lotto contract from its first version: migrate     *)
(* pauses the contract and moves what is small; migrate_old_depositors,    *)
(* which anybody may send, moves the depositors batch by batch and, after  *)
(* the last one, the lotteries.  Of the running contract only what shares  *)
(* the migrated storage is kept: deposits and draws.                       *)
(***************************************************************************)
EXTENDS Integers, FiniteSets, Functions

CONSTANTS
    Depositors,         \* addresses, numbered in the order of their keys
    None,               \* an absent value
    One,                \* the value 1 of a Decimal256
    OldDepositors,      \* the old records at first, by address
    OldWinners,         \* for each old lottery, the winners it has
    OldSponsors,        \* total_sponsor_lottery_deposits
    InitAust,           \* aUST the contract holds
    InitRate,           \* Anchor's exchange rate at first
    Limits,             \* limits of a batch, None among them
    DEFAULT_LIMIT,
    DepositAmounts,     \* aUST that a deposit may mint
    MaxRate, MaxLottery, Purse    \* bounds

VARIABLES
    version,            \* of the code
    paused,             \* CONFIG.paused
    current_lottery,    \* STATE.current_lottery
    pool,               \* POOL
    old_depositors,     \* the old bucket of depositors
    depositors,         \* DEPOSITOR_DATA and DEPOSITOR_STATS
    old_lotteries,      \* the old bucket of lotteries: winners by lottery
    lotteries,          \* LOTTERIES, defaults where nothing is stored
    old_prizes, prizes, \* OLD_PRIZES and PRIZES: the lotteries with prizes
    rate, aust, purse

migrationVars == <<version, paused, current_lottery, pool, old_depositors, depositors,
                   old_lotteries, lotteries, old_prizes, prizes, rate, aust, purse>>

OldDepositorInfo == [lottery_deposit : Nat, savings_aust : Nat, tickets : Nat]
DepositorInfo == [shares : Nat, tickets : Nat]

LotteryIds == 0..MaxLottery
LotteryInfo == [awarded : BOOLEAN, number_winners : Nat, total_user_shares : Nat]
DefaultLottery == [awarded |-> FALSE, number_winners |-> 0, total_user_shares |-> 0]

DecDiv(a, d) == (a * One) \div d

\* What an old record is worth in aUST: the savings, and the lottery deposit
\* at today's rate.
depositor_aust_balance(info, r) == info.savings_aust + DecDiv(info.lottery_deposit, r)

OwedInAust(infos, r) ==
    SumFunction([u \in DOMAIN infos |-> depositor_aust_balance(infos[u], r)])

\* The old contract has depositors and finished lotteries, is solvent, and no
\* draw is in progress.
ASSUME MigrationAssumption ==
    /\ Depositors \subseteq Nat
    /\ One \in Nat \ {0} /\ InitRate \in Nat \ {0}
    /\ DOMAIN OldDepositors \subseteq Depositors /\ DOMAIN OldDepositors # {}
    /\ IsFiniteSet(DOMAIN OldDepositors)
    /\ \A u \in DOMAIN OldDepositors : OldDepositors[u] \in OldDepositorInfo
    /\ \E n \in 1..MaxLottery : OldWinners \in [0..n - 1 -> Nat]
    /\ None \notin Nat /\ Limits \subseteq Nat \cup {None}
    /\ {OldSponsors, InitAust, DEFAULT_LIMIT, MaxRate, MaxLottery, Purse} \cup DepositAmounts \subseteq Nat
    /\ OwedInAust(OldDepositors, InitRate) + DecDiv(OldSponsors, InitRate) <= InitAust

MigrationTypeOK ==
    /\ version \in {"old", "new"} /\ paused \in BOOLEAN
    /\ current_lottery \in LotteryIds
    /\ pool \in [total_user_aust : Nat, total_user_shares : Nat, total_sponsor_lottery_deposits : Nat]
    /\ DOMAIN old_depositors \subseteq Depositors
    /\ \A u \in DOMAIN old_depositors : old_depositors[u] \in OldDepositorInfo
    /\ DOMAIN depositors \subseteq Depositors
    /\ \A u \in DOMAIN depositors : depositors[u] \in DepositorInfo
    /\ DOMAIN old_lotteries \subseteq LotteryIds
    /\ \A i \in DOMAIN old_lotteries : old_lotteries[i] \in Nat
    /\ lotteries \in [LotteryIds -> LotteryInfo]
    /\ old_prizes \subseteq LotteryIds /\ prizes \subseteq LotteryIds
    /\ rate \in Nat \ {0} /\ aust \in Nat /\ purse \in Nat

MigrationInit ==
    /\ version = "old" /\ paused = FALSE
    /\ current_lottery = Cardinality(DOMAIN OldWinners)
    /\ pool = [total_user_aust |-> 0, total_user_shares |-> 0,
               total_sponsor_lottery_deposits |-> OldSponsors]
    /\ old_depositors = OldDepositors
    /\ depositors = [u \in {} |-> 0]
    /\ old_lotteries = OldWinners
    /\ lotteries = [i \in LotteryIds |-> DefaultLottery]
    /\ old_prizes = DOMAIN OldWinners /\ prizes = {}
    /\ rate = InitRate /\ aust = InitAust /\ purse = Purse

-----------------------------------------------------------------------------
\* A second migrate fails: the new STATE cannot be read as an OldState.
migrate ==
    /\ version = "old"
    /\ version' = "new"
    /\ paused' = TRUE
    /\ pool' = [pool EXCEPT !.total_user_aust = 0, !.total_user_shares = 0]
    /\ old_prizes' = {} /\ prizes' = prizes \cup old_prizes
    /\ UNCHANGED <<current_lottery, old_depositors, depositors, old_lotteries, lotteries,
                   rate, aust, purse>>

\* The first entries in the order of their keys.  The first operator is a
\* faulty variant that starts after the first key.
old_read_depositors_After(limit) ==
    LET remaining == DOMAIN old_depositors
    IN {u \in remaining : Cardinality({v \in remaining : v < u})
                             \in 1..IF limit = None THEN DEFAULT_LIMIT ELSE limit}
old_read_depositors(limit) ==
    LET remaining == DOMAIN old_depositors
    IN {u \in remaining : Cardinality({v \in remaining : v < u})
                             < IF limit = None THEN DEFAULT_LIMIT ELSE limit}

\* A lottery that is not in the old bucket reads as the default.
old_read_lottery_info(i) ==
    IF i \in DOMAIN old_lotteries THEN [awarded |-> TRUE, number_winners |-> old_lotteries[i]]
    ELSE [awarded |-> FALSE, number_winners |-> 0]

\* The old bucket without the records of the batch.  The first is a faulty
\* variant that leaves them there.
Remaining_Kept(batch) == old_depositors
Remaining(batch) == [u \in DOMAIN old_depositors \ batch |-> old_depositors[u]]

\* The first is a faulty variant that takes lottery deposits, which are UST,
\* for aUST.
MigratedInfo_Unconverted(info) ==
    [shares |-> info.savings_aust + info.lottery_deposit, tickets |-> info.tickets]
MigratedInfo(info) ==
    [shares |-> depositor_aust_balance(info, rate), tickets |-> info.tickets]

PoolWith(minted) ==
    [pool EXCEPT !.total_user_shares = @ + minted, !.total_user_aust = @ + minted]

Finished(batch) == DOMAIN Remaining(batch) = {}

migrate_old_depositors(limit) ==
    LET batch == old_read_depositors(limit)
        migrated == [u \in batch |-> MigratedInfo(old_depositors[u])]
        minted == SumFunction([u \in batch |-> migrated[u].shares])
        NewLottery(i) ==
            [awarded |-> old_read_lottery_info(i).awarded,
             number_winners |-> old_read_lottery_info(i).number_winners,
             total_user_shares |-> pool.total_user_shares + minted]
    IN /\ version = "new"
       /\ old_depositors' = Remaining(batch)
       /\ depositors' = [u \in DOMAIN depositors \cup batch |->
                            IF u \in batch THEN migrated[u] ELSE depositors[u]]
       /\ pool' = PoolWith(minted)
       /\ \/ /\ Finished(batch)
             /\ lotteries' = [i \in LotteryIds |->
                                 IF i < current_lottery THEN NewLottery(i) ELSE lotteries[i]]
             /\ old_lotteries' = [i \in DOMAIN old_lotteries \ (0..current_lottery - 1)
                                     |-> old_lotteries[i]]
             /\ paused' = FALSE
          \/ /\ ~Finished(batch)
             /\ UNCHANGED <<lotteries, old_lotteries, paused>>
       /\ UNCHANGED <<version, current_lottery, old_prizes, prizes, rate, aust, purse>>

\* The owner pauses, or unpauses when no old depositors are left.  The first
\* is a faulty variant without that condition.
MayUnpause_Always == TRUE
MayUnpause == DOMAIN old_depositors = {}

execute_update_config(pause) ==
    /\ version = "new"
    /\ ~pause => MayUnpause
    /\ paused' = pause
    /\ UNCHANGED <<version, current_lottery, pool, old_depositors, depositors, old_lotteries,
                   lotteries, old_prizes, prizes, rate, aust, purse>>

-----------------------------------------------------------------------------
(* The running contract.                                                   *)

Running == version = "new" /\ ~paused

\* A share is worth one aUST until a draw redeems some, which is left out.
execute_deposit(u, minted) ==
    LET before == IF u \in DOMAIN depositors THEN depositors[u] ELSE [shares |-> 0, tickets |-> 0]
    IN /\ Running
       /\ minted <= purse
       /\ depositors' = [v \in DOMAIN depositors \cup {u} |->
                            IF v = u THEN [shares |-> before.shares + minted,
                                           tickets |-> before.tickets + 1]
                            ELSE depositors[v]]
       /\ pool' = [pool EXCEPT !.total_user_shares = @ + minted, !.total_user_aust = @ + minted]
       /\ aust' = aust + minted
       /\ purse' = purse - minted
       /\ UNCHANGED <<version, paused, current_lottery, old_depositors, old_lotteries, lotteries,
                      old_prizes, prizes, rate>>

\* A draw, from its start to its award.
Draw(winners) ==
    /\ Running
    /\ current_lottery < MaxLottery
    /\ lotteries' = [lotteries EXCEPT ![current_lottery] =
                        [awarded |-> TRUE, number_winners |-> winners,
                         total_user_shares |-> pool.total_user_shares]]
    /\ prizes' = IF winners = 0 THEN prizes ELSE prizes \cup {current_lottery}
    /\ current_lottery' = current_lottery + 1
    /\ UNCHANGED <<version, paused, pool, old_depositors, depositors, old_lotteries, old_prizes,
                   rate, aust, purse>>

Accrue ==
    /\ rate < MaxRate
    /\ rate' = rate + 1
    /\ UNCHANGED <<version, paused, current_lottery, pool, old_depositors, depositors,
                   old_lotteries, lotteries, old_prizes, prizes, aust, purse>>

MigrationNext ==
    \/ migrate
    \/ \E limit \in Limits : migrate_old_depositors(limit)
    \/ \E pause \in BOOLEAN : execute_update_config(pause)
    \/ \E u \in Depositors, minted \in DepositAmounts : execute_deposit(u, minted)
    \/ \E winners \in {0, 1} : Draw(winners)
    \/ Accrue

MigrationSpec == MigrationInit /\ [][MigrationNext]_migrationVars

\* Anybody may send migrate_old_depositors, and somebody does, with a limit
\* that is not zero.
FairMigrationSpec ==
    /\ MigrationSpec
    /\ WF_migrationVars(\E limit \in Limits \ {0} : migrate_old_depositors(limit))

-----------------------------------------------------------------------------
\* Every depositor has one record, old or new, at any time between two
\* batches, whoever deposits in between: none is lost, none is counted twice.
OneRecordEach ==
    /\ DOMAIN old_depositors \cap DOMAIN depositors = {}
    /\ DOMAIN OldDepositors \subseteq DOMAIN old_depositors \cup DOMAIN depositors

\* After each batch the pool's totals are the sums of the new records, and
\* the aUST covers the users already migrated, those still to come at today's
\* rate, and the sponsors, although the rate rises between batches.
MigrationStaysBacked ==
    LET shares == SumFunction([u \in DOMAIN depositors |-> depositors[u].shares])
    IN /\ pool.total_user_shares = shares /\ pool.total_user_aust = shares
       /\ shares + OwedInAust(old_depositors, rate)
             + DecDiv(pool.total_sponsor_lottery_deposits, rate) <= aust

\* While depositors or lotteries are in the old storage, users stay out: a
\* deposit would be overwritten by its user's old record, and a draw would
\* be run without the others.
NobodyRunsHalfMigrated ==
    Running => DOMAIN old_depositors = {} /\ DOMAIN old_lotteries = {}

\* However small the batches, the contract reopens.
MigrationEnds == (version = "new") ~> Running

=============================================================================
