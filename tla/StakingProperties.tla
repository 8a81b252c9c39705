------------------------- MODULE StakingProperties -------------------------
(***************************************************************************)
(* What LP staking promises.                                               *)
(***************************************************************************)
EXTENDS Staking

TotalOver(f) == SumFunctionOnSet(f, Stakers)

\* The reward of a staker if it were settled now (query_staker_info).
Earned(u) == InfoNow(u).pending_reward

\* The GLOW that was put into the contract and not sent to a new one.
Funds == glow + TotalOver(paid)

\* The bonds add up to total_bond_amount, by which each reward is divided,
\* and are all held in LP tokens.  A schedule within the funds can be paid:
\* the contract holds everything that has been earned so far, whoever bonds,
\* unbonds or withdraws in between, although rewards are computed late and
\* rounded.  A change of a bond may round one unit up.  (Where a slot stops
\* the computation of rewards nobody can settle, and nothing is paid.)
StakersCovered ==
    LET schedule == config.distribution_schedule
    IN /\ state.total_bond_amount = TotalOver([u \in Stakers |-> reward[u].bond_amount])
       /\ state.total_bond_amount = lp
       /\ RewardComputable(state, now)
          /\ SumFunction([i \in DOMAIN schedule |-> schedule[i][3]]) <= Funds
             => TotalOver([u \in Stakers |-> Earned(u)]) <= glow + changed

\* What a staker has earned is lost by nothing but the staker's own
\* withdrawal: not by other stakers' messages, by the end of the distribution
\* or its migration, nor by a schedule that keeps the slots that have begun.
\* (assert_new_schedules accepts others: a slot that began after the rewards
\* were last computed may be dropped, and what it has given so far with it.)
EarnedNeverLost ==
    [][\A u \in Stakers : Earned(u)' + paid'[u] >= Earned(u) + paid[u]]_vars

=============================================================================
