\* Three old depositors in batches of none, one, two or ten, while the rate
\* rises, the owner pauses and unpauses, and users come back.
SPECIFICATION FairMigrationSpec
CONSTANTS
    None = None
    Depositors = {1, 2, 3, 4}
    One = 10
    OldDepositors <- MCOldDepositors
    OldWinners <- MCOldWinners
    OldSponsors = 10
    InitAust = 76
    InitRate = 11
    Limits = {0, 1, 2, None}
    DEFAULT_LIMIT = 10
    DepositAmounts = {5}
    MaxRate = 14
    MaxLottery = 3
    Purse = 10
INVARIANTS OneRecordEach MigrationStaysBacked NobodyRunsHalfMigrated
PROPERTIES MigrationEnds
CHECK_DEADLOCK FALSE
