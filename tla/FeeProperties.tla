--------------------------- MODULE FeeProperties ---------------------------
(***************************************************************************)
(* What the fee distributor promises.                                      *)
(***************************************************************************)
EXTENDS FeeDistributor

\* What total_distributed_unclaimed_fees reserves is in the contract: a sweep
\* and a distribution never count GLOW again that claims have yet to take.  It
\* says nothing of whether the claims of a week ask for more than is reserved
\* for it (see WeekNotOverpaid).
FeesReserved == unclaimed <= fee_glow

\* A claim visits each of a user's weeks once, in order.  What was paid for a
\* week and what was distributed in it do not change after that visit, even
\* when claims, distributions and the change of the week fall into the same
\* second.
WeekStep(u, w) ==
    /\ paid'[u][w] # paid[u][w] => /\ last_claimed[u] < w /\ w <= last_claimed'[u]
                                   /\ paid[u][w] = 0
    /\ w <= last_claimed[u] => weekly'[w] = weekly[w]

WeeksSettleOnce == [][\A u \in Users, w \in Weeks : WeekStep(u, w)]_vars

\* The users are paid no more for a week than was distributed in it.
WeekNotOverpaid ==
    \A w \in Weeks : MapThenSumSet(LAMBDA u : paid[u][w], Users) <= weekly[w]

=============================================================================
