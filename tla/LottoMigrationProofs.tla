------------------------ MODULE LottoMigrationProofs ------------------------
(***************************************************************************)
(* The migration of the lotto contract keeps one record for each depositor *)
(* and keeps users out until the last record has been moved, whatever old  *)
(* records there are, however the batches are cut and whatever the owner   *)
(* and the users send in between.                                          *)
(***************************************************************************)
EXTENDS LottoMigration, ArithmeticTheorems, FiniteSetTheorems, TLAPS

\* The old lotteries are those before the current one, and they are moved
\* with the last depositors.
StorageMovesTogether ==
    /\ current_lottery \in Nat
    /\ DOMAIN old_lotteries \subseteq 0..current_lottery - 1
    /\ DOMAIN old_depositors = {} => DOMAIN old_lotteries = {}
    /\ DOMAIN old_depositors = {} => version = "new"

\* The inductive invariant.
MigrationInv ==
    /\ StorageMovesTogether
    /\ OneRecordEach
    /\ NobodyRunsHalfMigrated

LEMMA MigrationInitEstablishes == MigrationInit => MigrationInv
<1> SUFFICES ASSUME MigrationInit PROVE MigrationInv
  OBVIOUS
<1>1. PICK n \in 1..MaxLottery : OldWinners \in [0..n - 1 -> Nat]
  BY MigrationAssumption
<1>2. n \in Nat /\ Cardinality(0..n - 1) = n
  BY <1>1, FS_Interval, MigrationAssumption
<1>3. current_lottery = n /\ DOMAIN old_lotteries = 0..n - 1
  BY <1>1, <1>2 DEF MigrationInit
<1>4. DOMAIN old_depositors # {} /\ DOMAIN depositors = {}
  BY MigrationAssumption DEF MigrationInit
<1> QED
  BY <1>2, <1>3, <1>4
     DEF MigrationInit, MigrationInv, StorageMovesTogether, OneRecordEach,
         NobodyRunsHalfMigrated, Running

\* A batch comes from the old records.
LEMMA BatchIsOld ==
    ASSUME NEW limit
    PROVE  old_read_depositors(limit) \subseteq DOMAIN old_depositors
BY DEF old_read_depositors

LEMMA MigrateOldDepositorsPreserves ==
    ASSUME MigrationInv, NEW limit, migrate_old_depositors(limit)
    PROVE  MigrationInv'
<1> DEFINE batch == old_read_depositors(limit)
<1>1. batch \subseteq DOMAIN old_depositors
  BY BatchIsOld
<1>2. DOMAIN old_depositors' = DOMAIN old_depositors \ batch
  BY DEF migrate_old_depositors, Remaining
<1>3. DOMAIN depositors' = DOMAIN depositors \cup batch
  BY DEF migrate_old_depositors
<1>4. version = "new" /\ version' = "new" /\ current_lottery' = current_lottery
  BY DEF migrate_old_depositors
<1>5. OneRecordEach'
  BY <1>1, <1>2, <1>3 DEF MigrationInv, OneRecordEach
<1>6. CASE Finished(batch)
  <2>1. DOMAIN old_depositors' = {}
    BY <1>6, <1>2 DEF Finished, Remaining
  <2>2. DOMAIN old_lotteries' = DOMAIN old_lotteries \ (0..current_lottery - 1)
    BY <1>6 DEF migrate_old_depositors
  <2>3. DOMAIN old_lotteries' = {}
    BY <2>2 DEF MigrationInv, StorageMovesTogether
  <2> QED
    BY <1>4, <1>5, <2>1, <2>3
       DEF MigrationInv, StorageMovesTogether, NobodyRunsHalfMigrated, Running
<1>7. CASE ~Finished(batch)
  <2>1. DOMAIN old_depositors' # {}
    BY <1>7, <1>2 DEF Finished, Remaining
  <2>2. UNCHANGED <<old_lotteries, paused>>
    BY <1>7 DEF migrate_old_depositors
  <2>3. DOMAIN old_depositors # {}
    BY <2>1, <1>2
  <2>4. paused'
    BY <2>2, <2>3, <1>4 DEF MigrationInv, NobodyRunsHalfMigrated, Running
  <2> QED
    BY <1>4, <1>5, <2>1, <2>2, <2>4
       DEF MigrationInv, StorageMovesTogether, NobodyRunsHalfMigrated, Running
<1> QED
  BY <1>6, <1>7

LEMMA MigrationNextPreserves ==
    ASSUME MigrationInv, [MigrationNext]_migrationVars
    PROVE  MigrationInv'
<1> USE DEF MigrationInv, StorageMovesTogether, NobodyRunsHalfMigrated, Running
<1>1. ASSUME migrate PROVE MigrationInv'
  BY <1>1 DEF migrate, OneRecordEach
<1>2. ASSUME NEW limit \in Limits, migrate_old_depositors(limit) PROVE MigrationInv'
  BY <1>2, MigrateOldDepositorsPreserves
<1>3. ASSUME NEW pause \in BOOLEAN, execute_update_config(pause) PROVE MigrationInv'
  <2>1. OneRecordEach'
    BY <1>3 DEF execute_update_config, OneRecordEach
  <2> QED
    BY <1>3, <2>1 DEF execute_update_config, MayUnpause
<1>4. ASSUME NEW u \in Depositors, NEW minted \in DepositAmounts, execute_deposit(u, minted)
      PROVE  MigrationInv'
  <2>1. DOMAIN depositors' = DOMAIN depositors \cup {u}
    BY <1>4 DEF execute_deposit
  <2>2. UNCHANGED <<version, paused, current_lottery, old_depositors, old_lotteries>>
    BY <1>4 DEF execute_deposit
  <2>3. DOMAIN old_depositors = {}
    BY <1>4 DEF execute_deposit
  <2>4. OneRecordEach'
    BY <2>1, <2>2, <2>3 DEF OneRecordEach
  <2> QED
    BY <2>2, <2>4
<1>5. ASSUME NEW winners \in {0, 1}, Draw(winners) PROVE MigrationInv'
  <2>1. UNCHANGED <<version, paused, old_depositors, depositors, old_lotteries>>
        /\ current_lottery' = current_lottery + 1 /\ Running
    BY <1>5 DEF Draw
  <2>2. OneRecordEach'
    BY <2>1 DEF OneRecordEach
  <2> QED
    BY <2>1, <2>2
<1>6. ASSUME Accrue PROVE MigrationInv'
  BY <1>6 DEF Accrue, OneRecordEach
<1>7. ASSUME UNCHANGED migrationVars PROVE MigrationInv'
  BY <1>7 DEF migrationVars, OneRecordEach
<1> QED
  BY <1>1, <1>2, <1>3, <1>4, <1>5, <1>6, <1>7 DEF MigrationNext

LEMMA MigrationInvariant == MigrationSpec => []MigrationInv
<1>1. MigrationInit => MigrationInv
  BY MigrationInitEstablishes
<1>2. MigrationInv /\ [MigrationNext]_migrationVars => MigrationInv'
  BY MigrationNextPreserves
<1> QED
  BY <1>1, <1>2, PTL DEF MigrationSpec

\* No depositor is lost or kept twice by migrate_old_depositors, whatever the
\* limits of its batches, or overwritten by a deposit in between.
THEOREM MigrationLosesNobody == MigrationSpec => []OneRecordEach
<1>1. MigrationInv => OneRecordEach
  BY DEF MigrationInv
<1> QED
  BY <1>1, MigrationInvariant, PTL

\* Neither the owner, with update_config, nor the last batch opens the
\* contract before all old depositors and old lotteries are moved.
THEOREM MigrationKeepsUsersOut == MigrationSpec => []NobodyRunsHalfMigrated
<1>1. MigrationInv => NobodyRunsHalfMigrated
  BY DEF MigrationInv
<1> QED
  BY <1>1, MigrationInvariant, PTL

-----------------------------------------------------------------------------
(* The books of the migration.                                             *)

OwedIn(infos, r) == [u \in DOMAIN infos |-> depositor_aust_balance(infos[u], r)]
SharesIn(records) == [u \in DOMAIN records |-> records[u].shares]
TotalShares(records) == SumFunctionOnSet(SharesIn(records), DOMAIN records)

OldTyped(infos) ==
    IsFiniteSet(DOMAIN infos) /\ \A u \in DOMAIN infos : infos[u] \in OldDepositorInfo
NewTyped(records) ==
    IsFiniteSet(DOMAIN records) /\ \A u \in DOMAIN records : records[u] \in DepositorInfo

LEMMA DecDivBounds ==
    ASSUME NEW a \in Nat, NEW r \in Nat \ {0}
    PROVE  /\ DecDiv(a, r) \in Nat
           /\ DecDiv(a, r + 1) <= DecDiv(a, r)
<1> DEFINE x == a * One
           q == x \div r
           p == x \div (r + 1)
<1>1. x \in Nat /\ r + 1 \in Nat \ {0}
  BY MulNat, MigrationAssumption
<1>2. q \in Nat /\ x < r * q + r
  BY <1>1, DivBounds
<1>3. p \in Nat /\ (r + 1) * p <= x
  BY <1>1, DivBounds
<1> HIDE DEF x, q, p
<1>4. (r + 1) * p = r * p + p /\ r * p \in Nat /\ r * q \in Nat
  BY <1>2, <1>3, MulNat
<1>5. SUFFICES ASSUME p >= q + 1 PROVE FALSE
  BY <1>2, <1>3 DEF x, q, p, DecDiv
<1>6. (q + 1) * r <= p * r
  BY <1>2, <1>3, <1>5, MulMono
<1> QED
  BY <1>1, <1>2, <1>3, <1>4, <1>6

LEMMA BalanceBounds ==
    ASSUME NEW info \in OldDepositorInfo, NEW r \in Nat \ {0}
    PROVE  /\ depositor_aust_balance(info, r) \in Nat
           /\ depositor_aust_balance(info, r + 1) <= depositor_aust_balance(info, r)
<1> DEFINE a == info.lottery_deposit
           s == info.savings_aust
           x == DecDiv(a, r)
           y == DecDiv(a, r + 1)
<1>1. a \in Nat /\ s \in Nat /\ r + 1 \in Nat \ {0}
  BY DEF OldDepositorInfo
<1>2. x \in Nat /\ y \in Nat /\ y <= x
  BY <1>1, DecDivBounds
<1> HIDE DEF a, s, x, y
<1>3. s + x \in Nat /\ s + y <= s + x
  BY <1>1, <1>2
<1> QED
  BY <1>3 DEF a, s, x, y, depositor_aust_balance

LEMMA OwedIsSum ==
    ASSUME NEW infos, NEW r
    PROVE  OwedInAust(infos, r) = SumFunctionOnSet(OwedIn(infos, r), DOMAIN infos)
<1> DEFINE f == OwedIn(infos, r)
<1>1. DOMAIN f = DOMAIN infos /\ OwedInAust(infos, r) = SumFunction(f)
  BY DEF OwedIn, OwedInAust
<1> HIDE DEF f
<1> QED
  BY <1>1, SumOnDomain DEF f

LEMMA SharesAreSum ==
    ASSUME NEW records
    PROVE  SumFunction([u \in DOMAIN records |-> records[u].shares]) = TotalShares(records)
<1> DEFINE f == SharesIn(records)
<1>1. DOMAIN f = DOMAIN records /\ f = [u \in DOMAIN records |-> records[u].shares]
  BY DEF SharesIn
<1> HIDE DEF f
<1> QED
  BY <1>1, SumOnDomain DEF f, TotalShares

\* What is owed falls as the rate rises.
LEMMA OwedFalls ==
    ASSUME NEW infos, OldTyped(infos), NEW r \in Nat \ {0}
    PROVE  /\ OwedInAust(infos, r) \in Nat
           /\ OwedInAust(infos, r + 1) \in Nat
           /\ OwedInAust(infos, r + 1) <= OwedInAust(infos, r)
<1> DEFINE D == DOMAIN infos
           f == OwedIn(infos, r)
           g == OwedIn(infos, r + 1)
<1>1. r + 1 \in Nat \ {0} /\ IsFiniteSet(D)
  BY DEF OldTyped
<1>2. ASSUME NEW u \in D PROVE f[u] \in Nat /\ g[u] \in Nat /\ g[u] <= f[u]
  <2>1. infos[u] \in OldDepositorInfo
    BY DEF OldTyped
  <2>2. /\ depositor_aust_balance(infos[u], r) \in Nat
        /\ depositor_aust_balance(infos[u], r + 1) \in Nat
        /\ depositor_aust_balance(infos[u], r + 1) <= depositor_aust_balance(infos[u], r)
    BY <1>1, <2>1, BalanceBounds
  <2> QED
    BY <2>2 DEF OwedIn
<1> HIDE DEF D, f, g
<1>3. SumFunctionOnSet(f, D) \in Nat /\ SumFunctionOnSet(g, D) \in Nat
  BY <1>1, <1>2, SumNat
<1>4. SumFunctionOnSet(g, D) <= SumFunctionOnSet(f, D)
  <2>1. /\ \A u \in D : f[u] \in Int
        /\ \A u \in D : g[u] \in Int
        /\ \A u \in D : g[u] <= f[u]
    BY <1>2
  <2> QED
    BY <1>1, <2>1, SumBelow
<1> QED
  BY <1>3, <1>4, OwedIsSum DEF D, f, g

\* What migrate_old_depositors does to the records.
Moves(old, records, r, batch, migrated, left, merged, minted) ==
    /\ DOMAIN old \cap DOMAIN records = {}
    /\ batch \subseteq DOMAIN old
    /\ DOMAIN migrated = batch
    /\ \A u \in batch : migrated[u] = [shares |-> depositor_aust_balance(old[u], r),
                                      tickets |-> old[u].tickets]
    /\ left = [u \in DOMAIN old \ batch |-> old[u]]
    /\ merged = [u \in DOMAIN records \cup batch |->
                    IF u \in batch THEN migrated[u] ELSE records[u]]
    /\ minted = SumFunction([u \in batch |-> migrated[u].shares])

\* Moving a batch takes from the old records what it adds to the new ones.
LEMMA BatchMoves ==
    ASSUME NEW old, NEW records, OldTyped(old), NewTyped(records), NEW r \in Nat \ {0},
           NEW batch, NEW migrated, NEW left, NEW now, NEW minted,
           Moves(old, records, r, batch, migrated, left, now, minted)
    PROVE  /\ minted \in Nat /\ OldTyped(left) /\ NewTyped(now)
           /\ TotalShares(now) = TotalShares(records) + minted
           /\ OwedInAust(left, r) + minted = OwedInAust(old, r)
<1> DEFINE f == OwedIn(old, r)
           g == OwedIn(left, r)
           m == [u \in batch |-> migrated[u].shares]
           s == SharesIn(records)
           t == SharesIn(now)
           D == DOMAIN old
           N == DOMAIN records
           L == D \ batch
<1> USE DEF Moves
<1>1. /\ IsFiniteSet(D) /\ IsFiniteSet(N) /\ IsFiniteSet(batch) /\ IsFiniteSet(L)
      /\ IsFiniteSet(N \cup batch)
  <2>1. IsFiniteSet(D) /\ IsFiniteSet(N)
    BY DEF OldTyped, NewTyped
  <2>2. IsFiniteSet(batch) /\ IsFiniteSet(L)
    BY <2>1, FS_Subset
  <2> QED
    BY <2>1, <2>2, FS_Union
<1>2. ASSUME NEW u \in D
      PROVE  /\ f[u] = depositor_aust_balance(old[u], r) /\ f[u] \in Nat
             /\ old[u] \in OldDepositorInfo /\ old[u].tickets \in Nat
  <2>1. old[u] \in OldDepositorInfo
    BY DEF OldTyped
  <2>2. depositor_aust_balance(old[u], r) \in Nat
    BY <2>1, BalanceBounds
  <2> QED
    BY <2>1, <2>2 DEF OwedIn, OldDepositorInfo
<1>3. ASSUME NEW u \in batch PROVE m[u] = f[u] /\ migrated[u] \in DepositorInfo
  <2>1. u \in D /\ migrated[u] = [shares |-> f[u], tickets |-> old[u].tickets]
    BY <1>2
  <2>2. f[u] \in Nat /\ old[u].tickets \in Nat
    BY <1>2, <2>1
  <2> HIDE DEF f
  <2> QED
    BY <2>1, <2>2 DEF DepositorInfo
<1>4. DOMAIN left = L /\ \A u \in L : left[u] = old[u]
  OBVIOUS
<1>5. OldTyped(left)
  BY <1>1, <1>2, <1>4 DEF OldTyped
<1>6. ASSUME NEW u \in L PROVE g[u] = f[u]
  BY <1>4 DEF OwedIn
<1>7. /\ DOMAIN now = N \cup batch
      /\ \A u \in batch : now[u] = migrated[u]
      /\ \A u \in N : now[u] = records[u]
      /\ N \cap batch = {}
  OBVIOUS
<1>8. NewTyped(now)
  <2>1. \A u \in N : records[u] \in DepositorInfo
    BY DEF NewTyped
  <2>2. \A u \in N \cup batch : now[u] \in DepositorInfo
    BY <1>3, <1>7, <2>1
  <2> QED
    BY <1>1, <1>7, <2>2 DEF NewTyped
<1>9. ASSUME NEW u \in N PROVE t[u] = s[u] /\ s[u] \in Nat
  <2>1. records[u] \in DepositorInfo
    BY DEF NewTyped
  <2>2. u \in DOMAIN now /\ now[u] = records[u]
    BY <1>7
  <2> QED
    BY <2>1, <2>2 DEF SharesIn, DepositorInfo
<1>10. ASSUME NEW u \in batch PROVE t[u] = f[u]
  <2>1. u \in DOMAIN now /\ now[u] = migrated[u] /\ m[u] = f[u] /\ m[u] = migrated[u].shares
    BY <1>3, <1>7
  <2> HIDE DEF f, m
  <2>2. t[u] = now[u].shares
    BY <2>1 DEF SharesIn
  <2> QED
    BY <2>1, <2>2
<1>11. DOMAIN m = batch /\ minted = SumFunction(m)
  OBVIOUS
<1>12. L \cup batch = D /\ L \cap batch = {}
  OBVIOUS
<1> HIDE DEF f, g, m, s, t, D, N, L, Moves
<1>13. minted = SumFunctionOnSet(m, batch)
  BY <1>11, SumOnDomain
<1>14. minted = SumFunctionOnSet(f, batch) /\ minted \in Nat
  <2>1. \A u \in batch : u \in D
    BY <1>12
  <2>2. /\ \A u \in batch : f[u] \in Nat
        /\ \A u \in batch : m[u] = f[u]
    BY <1>2, <1>3, <2>1
  <2>3. /\ \A u \in batch : f[u] \in Int
        /\ \A u \in batch : m[u] \in Int
    BY <2>2
  <2>4. SumFunctionOnSet(m, batch) = SumFunctionOnSet(f, batch)
    BY <1>1, <2>2, <2>3, SumSame
  <2>5. SumFunctionOnSet(f, batch) \in Nat
    BY <1>1, <2>2, SumNat
  <2> QED
    BY <1>13, <2>4, <2>5
<1>15. OwedInAust(left, r) + minted = OwedInAust(old, r)
  <2>1. \A u \in L \cup batch : f[u] \in Int
    BY <1>2, <1>12
  <2>2. SumFunctionOnSet(f, L \cup batch) = SumFunctionOnSet(f, L) + SumFunctionOnSet(f, batch)
    BY <1>1, <1>12, <2>1, SumUnion
  <2>3. SumFunctionOnSet(g, L) = SumFunctionOnSet(f, L)
    <3>1. /\ \A u \in L : f[u] \in Int
          /\ \A u \in L : g[u] \in Int
          /\ \A u \in L : g[u] = f[u]
      BY <1>6, <2>1
    <3> QED
      BY <1>1, <3>1, SumSame
  <2>4. OwedInAust(old, r) = SumFunctionOnSet(f, D) /\ OwedInAust(left, r) = SumFunctionOnSet(g, L)
    BY <1>4, OwedIsSum DEF f, g, D
  <2> QED
    BY <1>12, <1>14, <2>2, <2>3, <2>4
<1>16. TotalShares(now) = TotalShares(records) + minted
  <2>1. /\ \A u \in N : t[u] \in Int
        /\ \A u \in N : s[u] \in Int
        /\ \A u \in N : t[u] = s[u]
        /\ \A u \in batch : t[u] \in Int
        /\ \A u \in batch : f[u] \in Int
        /\ \A u \in batch : t[u] = f[u]
        /\ \A u \in N \cup batch : t[u] \in Int
    BY <1>2, <1>9, <1>10, <1>12
  <2>2. SumFunctionOnSet(t, N \cup batch) = SumFunctionOnSet(t, N) + SumFunctionOnSet(t, batch)
    BY <1>1, <1>7, <2>1, SumUnion
  <2>3. /\ SumFunctionOnSet(t, N) = SumFunctionOnSet(s, N)
        /\ SumFunctionOnSet(t, batch) = SumFunctionOnSet(f, batch)
    BY <1>1, <2>1, SumSame
  <2>4. /\ TotalShares(now) = SumFunctionOnSet(t, N \cup batch)
        /\ TotalShares(records) = SumFunctionOnSet(s, N)
    BY <1>7 DEF TotalShares, t, s, N
  <2> QED
    BY <1>14, <2>2, <2>3, <2>4
<1> QED
  BY <1>5, <1>8, <1>14, <1>15, <1>16

\* A deposit adds its shares.
LEMMA DepositAdds ==
    ASSUME NEW records, NewTyped(records), NEW u, NEW minted \in Nat, NEW before,
           before = (IF u \in DOMAIN records THEN records[u] ELSE [shares |-> 0, tickets |-> 0]),
           NEW now, now = [v \in DOMAIN records \cup {u} |->
                             IF v = u THEN [shares |-> before.shares + minted,
                                            tickets |-> before.tickets + 1]
                             ELSE records[v]]
    PROVE  /\ NewTyped(now)
           /\ TotalShares(records) \in Nat
           /\ TotalShares(now) = TotalShares(records) + minted
<1> DEFINE N == DOMAIN records
           M == N \cup {u}
           s == SharesIn(records)
           t == SharesIn(now)
           k == before.shares
<1>1. IsFiniteSet(N) /\ IsFiniteSet(M) /\ IsFiniteSet(N \ {u})
  <2>1. IsFiniteSet(N)
    BY DEF NewTyped
  <2> QED
    BY <2>1, FS_AddElement, FS_RemoveElement
<1>2. before \in DepositorInfo
  BY DEF NewTyped, DepositorInfo
<1>3. k \in Nat /\ before.tickets \in Nat
  BY <1>2 DEF DepositorInfo
<1> DEFINE x == k + minted
           y == before.tickets + 1
<1>4. x \in Nat /\ y \in Nat
  BY <1>3
<1>5. /\ DOMAIN now = M /\ now[u] = [shares |-> x, tickets |-> y]
      /\ \A v \in N \ {u} : now[v] = records[v]
  OBVIOUS
<1> HIDE DEF x, y
<1>6. now[u] \in DepositorInfo /\ now[u].shares = x
  BY <1>4, <1>5 DEF DepositorInfo
<1>7. \A v \in N : records[v] \in DepositorInfo
  BY DEF NewTyped
<1>8. NewTyped(now)
  <2>1. \A v \in M : now[v] \in DepositorInfo
    BY <1>5, <1>6, <1>7
  <2> QED
    BY <1>1, <1>5, <2>1 DEF NewTyped
<1>9. t[u] = x
  BY <1>5, <1>6 DEF SharesIn
<1>10. \A v \in N : s[v] \in Nat
  BY <1>7 DEF SharesIn, DepositorInfo
<1>11. \A v \in N \ {u} : t[v] = s[v]
  BY <1>5 DEF SharesIn
<1>12. u \in N => s[u] = k
  BY DEF SharesIn
<1>13. u \notin N => k = 0
  OBVIOUS
<1>14. M \ {u} = N \ {u} /\ u \in M
  OBVIOUS
<1> HIDE DEF N, M, s, t, k
<1>15. SumFunctionOnSet(t, M) = x + SumFunctionOnSet(s, N \ {u})
  <2>1. \A v \in M : t[v] \in Int
    BY <1>4, <1>9, <1>10, <1>11, <1>14
  <2>2. SumFunctionOnSet(t, M) = t[u] + SumFunctionOnSet(t, M \ {u})
    BY <1>1, <1>14, <2>1, SumSplit
  <2>3. SumFunctionOnSet(t, N \ {u}) = SumFunctionOnSet(s, N \ {u})
    <3>1. /\ \A v \in N \ {u} : t[v] \in Int
          /\ \A v \in N \ {u} : s[v] \in Int
          /\ \A v \in N \ {u} : t[v] = s[v]
      BY <1>10, <1>11
    <3> QED
      BY <1>1, <3>1, SumSame
  <2> QED
    BY <1>9, <1>14, <2>2, <2>3
<1>16. SumFunctionOnSet(s, N) \in Nat /\ SumFunctionOnSet(s, N \ {u}) \in Nat
  <2>1. \A v \in N \ {u} : s[v] \in Nat
    BY <1>10
  <2> QED
    BY <1>1, <1>10, <2>1, SumNat
<1>17. SumFunctionOnSet(s, N) = k + SumFunctionOnSet(s, N \ {u})
  <2>1. CASE u \in N
    <3>1. \A v \in N : s[v] \in Int
      BY <1>10
    <3>2. SumFunctionOnSet(s, N) = s[u] + SumFunctionOnSet(s, N \ {u})
      BY <1>1, <2>1, <3>1, SumSplit
    <3> QED
      BY <1>12, <2>1, <3>2
  <2>2. CASE u \notin N
    <3>1. N \ {u} = N
      BY <2>2
    <3>2. SumFunctionOnSet(s, N \ {u}) = SumFunctionOnSet(s, N)
      BY <3>1, Zenon
    <3>3. k = 0
      BY <1>13, <2>2
    <3> QED
      BY <1>16, <3>2, <3>3
  <2> QED
    BY <2>1, <2>2
<1>18. /\ TotalShares(now) = SumFunctionOnSet(t, M)
       /\ TotalShares(records) = SumFunctionOnSet(s, N)
  BY <1>5 DEF TotalShares, t, s, N
<1>19. SumFunctionOnSet(t, M) = SumFunctionOnSet(s, N) + minted
  BY <1>3, <1>15, <1>16, <1>17 DEF x
<1> QED
  BY <1>8, <1>16, <1>18, <1>19

\* The inductive invariant of the books.
MigrationBooks ==
    /\ MigrationTypeOK
    /\ OldTyped(old_depositors) /\ NewTyped(depositors)
    /\ version = "old" => DOMAIN depositors = {}
    /\ MigrationStaysBacked

BooksAre(old, records, p, r, a) ==
    /\ p.total_user_shares = TotalShares(records) /\ p.total_user_aust = TotalShares(records)
    /\ TotalShares(records) + OwedInAust(old, r) + DecDiv(p.total_sponsor_lottery_deposits, r) <= a

LEMMA BackedMeans == MigrationStaysBacked <=> BooksAre(old_depositors, depositors, pool, rate, aust)
BY SharesAreSum DEF MigrationStaysBacked, BooksAre

LEMMA BackedNextMeans ==
    MigrationStaysBacked' <=> BooksAre(old_depositors', depositors', pool', rate', aust')
<1>1. SumFunction([u \in DOMAIN depositors' |-> depositors'[u].shares]) = TotalShares(depositors')
  BY SharesAreSum
<1> QED
  BY <1>1 DEF MigrationStaysBacked, BooksAre

Pool == [total_user_aust : Nat, total_user_shares : Nat, total_sponsor_lottery_deposits : Nat]

LEMMA BooksInitially == MigrationInit => MigrationBooks
<1> SUFFICES ASSUME MigrationInit PROVE MigrationBooks
  OBVIOUS
<1>1. PICK n \in 1..MaxLottery : OldWinners \in [0..n - 1 -> Nat]
  BY MigrationAssumption
<1>2. n \in Nat /\ MaxLottery \in Nat /\ n <= MaxLottery
  BY <1>1, MigrationAssumption
<1>3. Cardinality(0..n - 1) = n
  BY <1>2, FS_Interval
<1>4. /\ current_lottery = n /\ old_lotteries = OldWinners /\ old_prizes = DOMAIN OldWinners
      /\ DOMAIN OldWinners = 0..n - 1 /\ DOMAIN OldWinners \subseteq LotteryIds
  BY <1>1, <1>2, <1>3 DEF MigrationInit, LotteryIds
<1>5. OldTyped(old_depositors) /\ DOMAIN old_depositors \subseteq Depositors
  BY MigrationAssumption DEF MigrationInit, OldTyped
<1>6. NewTyped(depositors) /\ DOMAIN depositors = {}
  BY FS_EmptySet DEF MigrationInit, NewTyped
<1>7. /\ OldSponsors \in Nat /\ InitAust \in Nat /\ Purse \in Nat /\ InitRate \in Nat \ {0}
  BY MigrationAssumption
<1>8. lotteries \in [LotteryIds -> LotteryInfo]
  BY DEF MigrationInit, DefaultLottery, LotteryInfo
<1>9. pool \in Pool /\ pool.total_user_aust = 0 /\ pool.total_user_shares = 0
      /\ pool.total_sponsor_lottery_deposits = OldSponsors
  BY <1>7 DEF MigrationInit, Pool
<1>10. MigrationTypeOK
  <2>1. current_lottery \in LotteryIds
    BY <1>2, <1>4 DEF LotteryIds
  <2>2. \A i \in DOMAIN old_lotteries : old_lotteries[i] \in Nat
    BY <1>1, <1>4
  <2>3. /\ version \in {"old", "new"} /\ paused \in BOOLEAN
        /\ prizes \subseteq LotteryIds
        /\ rate \in Nat \ {0} /\ aust \in Nat /\ purse \in Nat
    BY <1>7 DEF MigrationInit
  <2> QED
    BY <1>4, <1>5, <1>6, <1>8, <1>9, <2>1, <2>2, <2>3 DEF MigrationTypeOK, OldTyped, Pool
<1>11. TotalShares(depositors) = 0
  <2>1. SumFunctionOnSet(SharesIn(depositors), {}) = 0
    BY SumEmpty
  <2> QED
    BY <1>6, <2>1 DEF TotalShares
<1>12. BooksAre(old_depositors, depositors, pool, rate, aust)
  <2> DEFINE x == OwedInAust(OldDepositors, InitRate)
             y == DecDiv(OldSponsors, InitRate)
  <2>1. x + y <= InitAust
    BY MigrationAssumption
  <2>2. x \in Nat /\ y \in Nat
    BY <1>5, <1>7, OwedFalls, DecDivBounds DEF MigrationInit
  <2>3. old_depositors = OldDepositors /\ rate = InitRate /\ aust = InitAust
    BY DEF MigrationInit
  <2> HIDE DEF x, y
  <2>4. 0 + x + y <= InitAust
    BY <2>1, <2>2
  <2> QED
    BY <1>9, <1>11, <2>3, <2>4 DEF BooksAre, x, y
<1> QED
  BY <1>5, <1>6, <1>10, <1>12, BackedMeans DEF MigrationBooks

LEMMA BooksFacts ==
    ASSUME MigrationBooks
    PROVE  /\ pool \in Pool /\ pool.total_user_shares \in Nat /\ pool.total_user_aust \in Nat
           /\ pool.total_sponsor_lottery_deposits \in Nat
           /\ rate \in Nat \ {0} /\ aust \in Nat /\ purse \in Nat
           /\ OwedInAust(old_depositors, rate) \in Nat
           /\ DecDiv(pool.total_sponsor_lottery_deposits, rate) \in Nat
           /\ BooksAre(old_depositors, depositors, pool, rate, aust)
<1>1. pool \in Pool /\ rate \in Nat \ {0} /\ aust \in Nat /\ purse \in Nat
  BY DEF MigrationBooks, MigrationTypeOK, Pool
<1>2. /\ pool.total_user_shares \in Nat /\ pool.total_user_aust \in Nat
      /\ pool.total_sponsor_lottery_deposits \in Nat
  BY <1>1 DEF Pool
<1>3. OwedInAust(old_depositors, rate) \in Nat
  BY <1>1, OwedFalls DEF MigrationBooks
<1>4. DecDiv(pool.total_sponsor_lottery_deposits, rate) \in Nat
  BY <1>1, <1>2, DecDivBounds
<1>5. BooksAre(old_depositors, depositors, pool, rate, aust)
  BY BackedMeans DEF MigrationBooks
<1> QED
  BY <1>1, <1>2, <1>3, <1>4, <1>5

\* The pool when shares are minted for aUST.
LEMMA PoolGrows ==
    ASSUME NEW p \in Pool, NEW minted \in Nat, NEW q,
           q = [p EXCEPT !.total_user_shares = @ + minted, !.total_user_aust = @ + minted]
    PROVE  /\ q \in Pool
           /\ q.total_user_shares = p.total_user_shares + minted
           /\ q.total_user_aust = p.total_user_aust + minted
           /\ q.total_sponsor_lottery_deposits = p.total_sponsor_lottery_deposits
<1> DEFINE x == p.total_user_shares + minted
           y == p.total_user_aust + minted
<1>1. q = [p EXCEPT !.total_user_shares = x, !.total_user_aust = y]
  BY DEF Pool
<1>2. x \in Nat /\ y \in Nat
  BY DEF Pool
<1> HIDE DEF x, y
<1>3. /\ q \in Pool /\ q.total_user_shares = x /\ q.total_user_aust = y
      /\ q.total_sponsor_lottery_deposits = p.total_sponsor_lottery_deposits
  BY <1>1, <1>2 DEF Pool
<1> QED
  BY <1>3 DEF x, y

LEMMA BatchKeepsBooks ==
    ASSUME MigrationBooks, MigrationInv, NEW limit, migrate_old_depositors(limit)
    PROVE  MigrationBooks'
<1> DEFINE batch == old_read_depositors(limit)
           migrated == [u \in batch |-> MigratedInfo(old_depositors[u])]
           minted == SumFunction([u \in batch |-> migrated[u].shares])
           total == pool.total_user_shares + minted
           NewLottery(i) == [awarded |-> old_read_lottery_info(i).awarded,
                             number_winners |-> old_read_lottery_info(i).number_winners,
                             total_user_shares |-> total]
<1>1. /\ version = "new" /\ version' = version
      /\ old_depositors' = Remaining(batch)
      /\ depositors' = [u \in DOMAIN depositors \cup batch |->
                            IF u \in batch THEN migrated[u] ELSE depositors[u]]
      /\ pool' = PoolWith(minted)
      /\ \/ /\ lotteries' = [i \in LotteryIds |->
                                 IF i < current_lottery THEN NewLottery(i) ELSE lotteries[i]]
            /\ old_lotteries' = [i \in DOMAIN old_lotteries \ (0..current_lottery - 1)
                                     |-> old_lotteries[i]]
            /\ paused' = FALSE
         \/ UNCHANGED <<lotteries, old_lotteries, paused>>
      /\ UNCHANGED <<current_lottery, old_prizes, prizes, rate, aust, purse>>
  BY Zenon DEF migrate_old_depositors
<1>2. batch \in SUBSET DOMAIN old_depositors
  BY BatchIsOld
<1>3. DOMAIN old_depositors \cap DOMAIN depositors = {}
  BY DEF MigrationInv, OneRecordEach
<1>4. /\ DOMAIN migrated = batch
      /\ \A u \in batch : migrated[u] = [shares |-> depositor_aust_balance(old_depositors[u], rate),
                                         tickets |-> old_depositors[u].tickets]
  BY DEF MigratedInfo
<1>5. old_depositors' = [u \in DOMAIN old_depositors \ batch |-> old_depositors[u]]
  BY <1>1 DEF Remaining
<1>6. minted = SumFunction([u \in batch |-> migrated[u].shares])
  OBVIOUS
<1>7. OldTyped(old_depositors) /\ NewTyped(depositors) /\ rate \in Nat \ {0}
  BY BooksFacts DEF MigrationBooks
<1>8. depositors' = [u \in DOMAIN depositors \cup batch |->
                        IF u \in batch THEN migrated[u] ELSE depositors[u]]
  BY <1>1
<1>9. /\ DOMAIN old_depositors' = DOMAIN old_depositors \ batch
      /\ DOMAIN depositors' = DOMAIN depositors \cup batch
  BY <1>5, <1>8
<1> HIDE DEF batch, migrated, minted
<1>10. /\ minted \in Nat /\ OldTyped(old_depositors') /\ NewTyped(depositors')
       /\ TotalShares(depositors') = TotalShares(depositors) + minted
       /\ OwedInAust(old_depositors', rate) + minted = OwedInAust(old_depositors, rate)
  <2> DEFINE left == old_depositors'
             merged == depositors'
  <2>1. /\ left = [u \in DOMAIN old_depositors \ batch |-> old_depositors[u]]
        /\ merged = [u \in DOMAIN depositors \cup batch |->
                        IF u \in batch THEN migrated[u] ELSE depositors[u]]
    BY <1>5, <1>8
  <2> HIDE DEF left, merged
  <2>2. /\ minted \in Nat /\ OldTyped(left) /\ NewTyped(merged)
        /\ TotalShares(merged) = TotalShares(depositors) + minted
        /\ OwedInAust(left, rate) + minted = OwedInAust(old_depositors, rate)
    <3>1. Moves(old_depositors, depositors, rate, batch, migrated, left, merged, minted)
      BY <1>2, <1>3, <1>4, <1>6, <2>1, Zenon DEF Moves
    <3> QED
      BY <1>7, <3>1, BatchMoves
  <2> QED
    BY <2>2 DEF left, merged
<1>11. /\ pool \in Pool /\ pool.total_user_shares \in Nat /\ pool.total_user_aust \in Nat
       /\ pool.total_sponsor_lottery_deposits \in Nat /\ aust \in Nat
       /\ OwedInAust(old_depositors, rate) \in Nat
       /\ DecDiv(pool.total_sponsor_lottery_deposits, rate) \in Nat
       /\ BooksAre(old_depositors, depositors, pool, rate, aust)
  BY BooksFacts
<1>12. pool' = [pool EXCEPT !.total_user_shares = @ + minted, !.total_user_aust = @ + minted]
  BY <1>1 DEF PoolWith
<1>13. /\ pool' \in Pool
       /\ pool'.total_user_shares = pool.total_user_shares + minted
       /\ pool'.total_user_aust = pool.total_user_aust + minted
       /\ pool'.total_sponsor_lottery_deposits = pool.total_sponsor_lottery_deposits
  <2>1. minted \in Nat /\ pool \in Pool
    BY <1>10, <1>11
  <2> HIDE DEF minted
  <2> QED
    BY <1>12, <2>1, PoolGrows, Zenon
<1>14. MigrationStaysBacked'
  <2> DEFINE s == TotalShares(depositors)
             s1 == TotalShares(depositors')
             o == OwedInAust(old_depositors, rate)
             o1 == OwedInAust(old_depositors', rate)
             d == DecDiv(pool.total_sponsor_lottery_deposits, rate)
  <2>1. /\ pool.total_user_shares = s /\ pool.total_user_aust = s /\ s + o + d <= aust
    BY <1>11 DEF BooksAre
  <2>2. o1 \in Nat
    BY <1>7, <1>10, OwedFalls
  <2>3. s1 = s + minted /\ o1 + minted = o /\ s \in Nat /\ d \in Nat /\ o \in Nat
    BY <1>10, <1>11, <2>1
  <2> HIDE DEF s, s1, o, o1, d
  <2>4. s1 + o1 + d <= aust /\ pool'.total_user_shares = s1 /\ pool'.total_user_aust = s1
    BY <1>10, <1>11, <1>13, <2>1, <2>2, <2>3
  <2>5. BooksAre(old_depositors', depositors', pool', rate', aust')
    <3>1. rate' = rate /\ aust' = aust
      BY <1>1
    <3> QED
      BY <1>13, <2>4, <3>1 DEF BooksAre, s, s1, o, o1, d
  <2> QED
    BY <2>5, BackedNextMeans
<1>15. lotteries' \in [LotteryIds -> LotteryInfo]
  <2>1. lotteries \in [LotteryIds -> LotteryInfo]
    BY DEF MigrationBooks, MigrationTypeOK
  <2>2. total \in Nat
    BY <1>10, <1>11
  <2> HIDE DEF total
  <2>3. ASSUME NEW i \in LotteryIds PROVE NewLottery(i) \in LotteryInfo
    <3>1. i \in DOMAIN old_lotteries => old_lotteries[i] \in Nat
      BY DEF MigrationBooks, MigrationTypeOK
    <3> QED
      BY <2>2, <3>1 DEF old_read_lottery_info, LotteryInfo
  <2> HIDE DEF NewLottery
  <2> QED
    BY <1>1, <2>1, <2>3
<1>16. /\ DOMAIN old_lotteries' \subseteq LotteryIds
       /\ \A i \in DOMAIN old_lotteries' : old_lotteries'[i] \in Nat
       /\ paused' \in BOOLEAN
  <2>1. /\ DOMAIN old_lotteries \subseteq LotteryIds /\ paused \in BOOLEAN
        /\ \A i \in DOMAIN old_lotteries : old_lotteries[i] \in Nat
    BY DEF MigrationBooks, MigrationTypeOK
  <2>2. \/ old_lotteries' = [i \in DOMAIN old_lotteries \ (0..current_lottery - 1)
                                     |-> old_lotteries[i]] /\ paused' = FALSE
        \/ old_lotteries' = old_lotteries /\ paused' = paused
    BY <1>1
  <2> QED
    BY <2>1, <2>2
<1>17. /\ DOMAIN old_depositors' \subseteq Depositors /\ DOMAIN depositors' \subseteq Depositors
  BY <1>2, <1>9 DEF MigrationBooks, MigrationTypeOK
<1>18. MigrationTypeOK'
  BY <1>1, <1>10, <1>13, <1>15, <1>16, <1>17
     DEF MigrationBooks, MigrationTypeOK, OldTyped, NewTyped, Pool
<1> QED
  BY <1>1, <1>10, <1>14, <1>18 DEF MigrationBooks

LEMMA DepositKeepsBooks ==
    ASSUME MigrationBooks, NEW u \in Depositors, NEW minted \in DepositAmounts,
           execute_deposit(u, minted)
    PROVE  MigrationBooks'
<1> DEFINE before == IF u \in DOMAIN depositors THEN depositors[u] ELSE [shares |-> 0, tickets |-> 0]
<1>1. /\ Running /\ minted <= purse
      /\ depositors' = [v \in DOMAIN depositors \cup {u} |->
                            IF v = u THEN [shares |-> before.shares + minted,
                                           tickets |-> before.tickets + 1]
                            ELSE depositors[v]]
      /\ pool' = [pool EXCEPT !.total_user_shares = @ + minted, !.total_user_aust = @ + minted]
      /\ aust' = aust + minted /\ purse' = purse - minted
      /\ UNCHANGED <<version, paused, current_lottery, old_depositors, old_lotteries, lotteries,
                     old_prizes, prizes, rate>>
  BY Zenon DEF execute_deposit
<1>2. minted \in Nat /\ NewTyped(depositors) /\ OldTyped(old_depositors) /\ purse \in Nat
  BY MigrationAssumption, BooksFacts DEF MigrationBooks
<1>3. DOMAIN depositors' = DOMAIN depositors \cup {u}
  BY <1>1
<1>4. before = IF u \in DOMAIN depositors THEN depositors[u] ELSE [shares |-> 0, tickets |-> 0]
  OBVIOUS
<1> HIDE DEF before
<1>5. /\ NewTyped(depositors') /\ TotalShares(depositors) \in Nat
      /\ TotalShares(depositors') = TotalShares(depositors) + minted
  BY <1>1, <1>2, <1>4, DepositAdds
<1>6. /\ pool \in Pool /\ pool.total_user_shares \in Nat /\ pool.total_user_aust \in Nat
      /\ pool.total_sponsor_lottery_deposits \in Nat /\ aust \in Nat /\ rate \in Nat \ {0}
      /\ OwedInAust(old_depositors, rate) \in Nat
      /\ DecDiv(pool.total_sponsor_lottery_deposits, rate) \in Nat
      /\ BooksAre(old_depositors, depositors, pool, rate, aust)
  BY BooksFacts
<1>7. /\ pool' \in Pool
      /\ pool'.total_user_shares = pool.total_user_shares + minted
      /\ pool'.total_user_aust = pool.total_user_aust + minted
      /\ pool'.total_sponsor_lottery_deposits = pool.total_sponsor_lottery_deposits
  BY <1>1, <1>2, <1>6, PoolGrows
<1>8. MigrationStaysBacked'
  <2> DEFINE s == TotalShares(depositors)
             s1 == TotalShares(depositors')
             o == OwedInAust(old_depositors, rate)
             d == DecDiv(pool.total_sponsor_lottery_deposits, rate)
  <2>1. /\ pool.total_user_shares = s /\ pool.total_user_aust = s /\ s + o + d <= aust
    BY <1>6 DEF BooksAre
  <2>2. s1 = s + minted /\ s \in Nat /\ d \in Nat /\ o \in Nat
    BY <1>5, <1>6
  <2> HIDE DEF s, s1, o, d
  <2>3. s1 + o + d <= aust + minted /\ pool'.total_user_shares = s1 /\ pool'.total_user_aust = s1
    BY <1>2, <1>6, <1>7, <2>1, <2>2
  <2>4. BooksAre(old_depositors', depositors', pool', rate', aust')
    <3>1. rate' = rate /\ aust' = aust + minted /\ old_depositors' = old_depositors
      BY <1>1
    <3> QED
      BY <1>7, <2>3, <3>1 DEF BooksAre, s, s1, o, d
  <2> QED
    BY <2>4, BackedNextMeans
<1>9. aust' \in Nat /\ purse' \in Nat
  BY <1>1, <1>2, <1>6
<1>10. DOMAIN depositors' \subseteq Depositors
  BY <1>3 DEF MigrationBooks, MigrationTypeOK
<1>11. MigrationTypeOK'
  BY <1>1, <1>5, <1>7, <1>9, <1>10 DEF MigrationBooks, MigrationTypeOK, NewTyped, Pool
<1> QED
  BY <1>1, <1>2, <1>5, <1>8, <1>11 DEF MigrationBooks, Running

LEMMA NextKeepsBooks ==
    ASSUME MigrationBooks, MigrationInv, [MigrationNext]_migrationVars
    PROVE  MigrationBooks'
<1>1. ASSUME migrate PROVE MigrationBooks'
  <2>1. /\ version = "old" /\ version' = "new" /\ paused' = TRUE
        /\ pool' = [pool EXCEPT !.total_user_aust = 0, !.total_user_shares = 0]
        /\ old_prizes' = {} /\ prizes' = prizes \cup old_prizes
        /\ UNCHANGED <<current_lottery, old_depositors, depositors, old_lotteries, lotteries,
                       rate, aust, purse>>
    BY <1>1, Zenon DEF migrate
  <2>2. pool \in Pool /\ BooksAre(old_depositors, depositors, pool, rate, aust)
    BY BooksFacts
  <2>3. /\ pool' \in Pool /\ pool'.total_user_aust = 0 /\ pool'.total_user_shares = 0
        /\ pool'.total_sponsor_lottery_deposits = pool.total_sponsor_lottery_deposits
    BY <2>1, <2>2 DEF Pool
  <2>4. TotalShares(depositors) = 0
    <3>1. DOMAIN depositors = {}
      BY <2>1 DEF MigrationBooks
    <3>2. SumFunctionOnSet(SharesIn(depositors), {}) = 0
      BY SumEmpty
    <3> QED
      BY <3>1, <3>2 DEF TotalShares
  <2>5. BooksAre(old_depositors', depositors', pool', rate', aust')
    BY <2>1, <2>2, <2>3, <2>4 DEF BooksAre
  <2>6. MigrationTypeOK'
    BY <2>1, <2>3 DEF MigrationBooks, MigrationTypeOK, Pool
  <2> QED
    BY <2>1, <2>5, <2>6, BackedNextMeans DEF MigrationBooks
<1>2. ASSUME NEW limit \in Limits, migrate_old_depositors(limit) PROVE MigrationBooks'
  BY <1>2, BatchKeepsBooks
<1>3. ASSUME NEW pause \in BOOLEAN, execute_update_config(pause) PROVE MigrationBooks'
  <2>1. /\ paused' = pause
        /\ UNCHANGED <<version, current_lottery, pool, old_depositors, depositors, old_lotteries,
                       lotteries, old_prizes, prizes, rate, aust, purse>>
    BY <1>3, Zenon DEF execute_update_config
  <2> QED
    BY <2>1 DEF MigrationBooks, MigrationTypeOK, MigrationStaysBacked
<1>4. ASSUME NEW u \in Depositors, NEW minted \in DepositAmounts, execute_deposit(u, minted)
      PROVE  MigrationBooks'
  BY <1>4, DepositKeepsBooks
<1>5. ASSUME NEW winners \in {0, 1}, Draw(winners) PROVE MigrationBooks'
  <2> DEFINE drawn == [awarded |-> TRUE, number_winners |-> winners,
                       total_user_shares |-> pool.total_user_shares]
  <2>1. /\ current_lottery < MaxLottery
        /\ lotteries' = [lotteries EXCEPT ![current_lottery] = drawn]
        /\ prizes' = (IF winners = 0 THEN prizes ELSE prizes \cup {current_lottery})
        /\ current_lottery' = current_lottery + 1
        /\ UNCHANGED <<version, paused, pool, old_depositors, depositors, old_lotteries, old_prizes,
                       rate, aust, purse>>
    BY <1>5, Zenon DEF Draw
  <2>2. drawn \in LotteryInfo
    BY BooksFacts DEF LotteryInfo
  <2> HIDE DEF drawn
  <2>3. current_lottery' \in LotteryIds /\ current_lottery \in LotteryIds
    <3>1. current_lottery \in LotteryIds /\ MaxLottery \in Nat
      BY MigrationAssumption DEF MigrationBooks, MigrationTypeOK
    <3>2. current_lottery < MaxLottery /\ current_lottery' = current_lottery + 1
      BY <2>1
    <3> QED
      BY <3>1, <3>2 DEF LotteryIds
  <2>4. lotteries' \in [LotteryIds -> LotteryInfo] /\ prizes' \subseteq LotteryIds
    BY <2>1, <2>2, <2>3 DEF MigrationBooks, MigrationTypeOK
  <2> QED
    BY <2>1, <2>3, <2>4 DEF MigrationBooks, MigrationTypeOK, MigrationStaysBacked
<1>6. ASSUME Accrue PROVE MigrationBooks'
  <2>1. /\ rate' = rate + 1
        /\ UNCHANGED <<version, paused, current_lottery, pool, old_depositors, depositors,
                       old_lotteries, lotteries, old_prizes, prizes, aust, purse>>
    BY <1>6, Zenon DEF Accrue
  <2>2. /\ rate \in Nat \ {0} /\ rate + 1 \in Nat \ {0} /\ aust \in Nat
        /\ pool.total_user_shares \in Nat /\ pool.total_sponsor_lottery_deposits \in Nat
        /\ OldTyped(old_depositors)
        /\ BooksAre(old_depositors, depositors, pool, rate, aust)
    BY BooksFacts DEF MigrationBooks
  <2> DEFINE s == TotalShares(depositors)
             o == OwedInAust(old_depositors, rate)
             o1 == OwedInAust(old_depositors, rate + 1)
             d == DecDiv(pool.total_sponsor_lottery_deposits, rate)
             d1 == DecDiv(pool.total_sponsor_lottery_deposits, rate + 1)
  <2>3. /\ pool.total_user_shares = s /\ pool.total_user_aust = s /\ s + o + d <= aust
    BY <2>2 DEF BooksAre
  <2>4. o \in Nat /\ o1 \in Nat /\ o1 <= o
    BY <2>2, OwedFalls
  <2>5. d \in Nat /\ d1 \in Nat /\ d1 <= d
    BY <2>2, DecDivBounds
  <2> HIDE DEF s, o, o1, d, d1
  <2>6. s + o1 + d1 <= aust
    BY <2>2, <2>3, <2>4, <2>5
  <2>7. BooksAre(old_depositors', depositors', pool', rate', aust')
    BY <2>1, <2>3, <2>6 DEF BooksAre, s, o1, d1
  <2>8. MigrationTypeOK'
    BY <2>1, <2>2 DEF MigrationBooks, MigrationTypeOK
  <2> QED
    BY <2>1, <2>7, <2>8, BackedNextMeans DEF MigrationBooks
<1>7. ASSUME UNCHANGED migrationVars PROVE MigrationBooks'
  BY <1>7 DEF migrationVars, MigrationBooks, MigrationTypeOK, MigrationStaysBacked
<1> QED
  BY <1>1, <1>2, <1>3, <1>4, <1>5, <1>6, <1>7, Zenon DEF MigrationNext

\* After every batch of migrate_old_depositors, of whatever size, and whatever
\* the rate has become in between, the pool's totals are the sums of the new
\* records and the aUST covers the migrated users, those still to come and
\* the sponsors.
THEOREM MigrationBacked == MigrationSpec => [](MigrationTypeOK /\ MigrationStaysBacked)
<1>1. MigrationInit => MigrationBooks
  BY BooksInitially
<1>2. MigrationBooks /\ MigrationInv /\ [MigrationNext]_migrationVars => MigrationBooks'
  BY NextKeepsBooks
<1>3. MigrationBooks => MigrationTypeOK /\ MigrationStaysBacked
  BY DEF MigrationBooks
<1> QED
  BY <1>1, <1>2, <1>3, MigrationInvariant, PTL DEF MigrationSpec

=============================================================================
