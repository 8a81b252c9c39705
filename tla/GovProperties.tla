--------------------------- MODULE GovProperties ---------------------------
(***************************************************************************)
(* What the governance contract promises.                                  *)
(***************************************************************************)
EXTENDS Gov

\* The GLOW that is the stakers': below zero when a deposit is not covered.
StakedGlow == glow - state.total_deposit

\* The GLOW that stands behind a staker's share.
StakeValue(u) ==
    IF state.total_share = 0 \/ StakedGlow <= 0 THEN 0
    ELSE multiply_ratio(bank[u], StakedGlow, state.total_share)

\* What one share is worth, rounded up.
ShareWorth ==
    IF state.total_share = 0 \/ StakedGlow <= 0 THEN 0
    ELSE (StakedGlow + state.total_share - 1) \div state.total_share

\* A withdrawal that names an amount burns shares rounded down.
NamedWithdrawal ==
    \E u \in Users, amount \in WithdrawAmounts \ {None} : withdraw_voting_tokens(u, amount)

\* The voters decided to spend GLOW of the contract.
SpendingPoll == \E p \in PollIds : execute_poll(p) /\ glow' < glow

\* What each user has voted on poll p for one side.
CountedFor(p, vote) ==
    [u \in Users |->
        IF poll_voter[p][u] # None /\ poll_voter[p][u].vote = vote
        THEN poll_voter[p][u].balance ELSE 0]

\* The tally of a poll is the sum of the votes stored for it: cast_vote
\* keeps the two in step although they live in different buckets.
TallyIsSumOfVotes ==
    \A p \in PollIds :
        /\ polls[p].yes_votes = Total(CountedFor(p, "yes"))
        /\ polls[p].no_votes = Total(CountedFor(p, "no"))

\* No more veGLOW is counted on a poll than its users had when it was created,
\* however locks change until the votes are cast, and whichever queries to the
\* ve contract fail.  So the quorum that end_poll computes is a fraction of the
\* whole, unless the query for the whole failed and left a zero.
VotesWithinStake ==
    \A p \in PollIds :
        /\ Tallied(p) <= Total(ve_at_start[p])
        /\ polls[p].staked_amount # 0 => Tallied(p) <= polls[p].staked_amount

OpenDeposits ==
    [p \in PollIds |->
        IF polls[p].status = "in_progress" THEN polls[p].deposit_amount ELSE 0]

\* The deposits of the polls that are still open, and only those, are in
\* total_deposit; all shares are in total_share.
TotalsAreSums ==
    /\ state.total_deposit = SumFunction(OpenDeposits)
    /\ state.total_share = Total(bank)

\* The contract goes on holding the deposit of every open poll, so end_poll can
\* pay it back.  Only two things ever take from the deposits: a poll that
\* spends more than is staked, and the rounding of a withdrawal that names an
\* amount (withdraw_voting_tokens), which takes less than one share is worth.
DepositsCovered ==
    [][\/ StakedGlow' >= 0
       \/ StakedGlow' >= StakedGlow
       \/ SpendingPoll
       \/ NamedWithdrawal /\ -StakedGlow' * state.total_share < StakedGlow]_vars

\* Unless a poll spends it, what a staker has is worth no less after a step of
\* anybody else: neither a stake nor a withdrawal of everything lowers it, nor
\* a poll's deposit coming or going.  A withdrawal that names an amount costs
\* each of the others at most the worth of one share.
StakesNeverDiluted ==
    [][\A u \in Users : bank'[u] = bank[u] /\ ~SpendingPoll =>
          StakeValue(u)' >= StakeValue(u) - IF NamedWithdrawal THEN ShareWorth ELSE 0]_vars

\* Each poll is in the index of its status and in no other, which is what
\* the query for polls of one status lists.
IndexMatchesStatus ==
    \A s \in PollStatus : poll_indexer[s] = {p \in PollIds : polls[p].status = s}

\* The outcomes that may follow each status.
Following(s) ==
    CASE s = "in_progress" -> {"passed", "rejected"}
      [] s = "passed" -> {"executed", "expired"}
      [] OTHER -> {}

\* A poll is decided once and executed at most once; when it has ended,
\* nothing that the decision rests on changes any more.
DecisionsAreFinal ==
    [][\A p \in PollIds :
          /\ polls'[p].status # polls[p].status
                => polls'[p].status \in Following(polls[p].status)
          /\ polls[p].status # "in_progress"
                => /\ [polls'[p] EXCEPT !.status = polls[p].status] = polls[p]
                   /\ poll_voter'[p] = poll_voter[p]]_vars

\* Once the voting period of a poll is over, the poll is decided: its
\* deposit can be paid back and the totals can be updated, unless the
\* contract does not hold the deposits (see DepositsCovered).
PollEventuallyEnds ==
    \A p \in 1..MaxPolls :
        (p \in PollIds /\ polls[p].status = "in_progress" /\ polls[p].end_height <= MaxHeight)
            ~> (p \in PollIds /\ polls[p].status # "in_progress") \/ StakedGlow < 0

\* A poll that passed with messages does not stay open for ever, even when
\* its messages can never succeed.
PassedEventuallySettled ==
    \A p \in 1..MaxPolls :
        (p \in PollIds /\ polls[p].status = "passed" /\ polls[p].execute_data # None
            /\ polls[p].end_height + config.expiration_period <= MaxHeight)
            ~> (p \in PollIds /\ polls[p].status \in {"executed", "expired"})

=============================================================================
