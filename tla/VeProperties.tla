---------------------------- MODULE VeProperties ----------------------------
(***************************************************************************)
(* What the ve-token contract promises.                                    *)
(***************************************************************************)
EXTENDS VeToken

\* The abstract contract that this one implements: its total is STATE with
\* the changes that are due but not yet applied.
CoefficientsNow == Reduced(state, WeeksToApply(state, now)).coefs

Power == INSTANCE VePower WITH
    Contribution <- voting_power_coefficients, total <- CoefficientsNow, held <- ve_glow

\* The contract implements VePower: whatever is locked, extended, added to,
\* withdrawn or checkpointed and however many weeks nobody called it, the
\* incrementally kept total is the sum of the unexpired locks, and the
\* deposits are all there.
ImplementsVePower == Power!Spec

\* "All or nothing. This should never happen.": a lock has an amount, an end
\* and a start, or none of them; it starts before it ends, so no lock
\* duration is zero, and it ends at a week that is at most MAX_WEEKS away.
WellFormed(lock) ==
    /\ lock.deposited_amount = 0 => lock.end_lock_time = 0 /\ lock.start_lock_time = 0
    /\ lock.deposited_amount # 0 =>
          /\ 0 < lock.start_lock_time /\ lock.start_lock_time < lock.end_lock_time
          /\ lock.end_lock_time - lock.start_lock_time <= MAX_SECONDS
          /\ lock.end_lock_time % SECONDS_PER_WEEK = 0
          /\ lock.timestamp = lock.start_lock_time

\* Each lock, and each lock of the history, is well-formed and was made no
\* later than now: the history can be queried without a panic.
LocksWellFormed ==
    \A u \in Users :
        /\ WellFormed(locks[u]) /\ locks[u].timestamp <= now
        /\ \A h \in DOMAIN lock_log[u] : WellFormed(lock_log[u][h]) /\ h <= now

\* total_deposit is the GLOW the contract holds: a withdrawal pays what the
\* lock has lost, whether it had expired or not.
DepositsHeld == ve_glow = state.total_deposit

\* What a lock reports for a time that has come is never changed by a later
\* message: a week's fees and a poll's votes can be computed afterwards.
LockHistoryIsFixed ==
    [][\A u \in Users, t \in 0..now : LockRead(u, t)' = LockRead(u, t)]_veVars

=============================================================================
