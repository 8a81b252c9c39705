# Formal specifications of the Glow contracts

Glow is a lottery on top of the Anchor savings protocol on Terra: depositors'
UST earns interest as aUST, the interest is the prize, and the deposits can be
taken back. The system is a set of CosmWasm contracts. This directory holds
TLA+ modules for all of them, TLC configurations that check the modules on
small instances, and TLAPS proofs for all instances.

- [Inventory](#inventory) · [Modules](#modules-and-code) · [Runs](#runs) ·
  [Fairness](#fairness) · [Proofs](#proofs) · [Finding](#finding) ·
  [Other observations](#other-observations) · [Limits](#what-is-not-modelled) ·
  [Plan](#plan)

## Inventory

| Component | State | Operations | Talks to |
|---|---|---|---|
| **lotto** | config, state, pool, depositors, tickets, sponsors, operators, lotteries, prizes, history of the depositors' shares | deposit, gift, claim tickets, withdraw, claim unbonded, sponsor, withdraw sponsorship, claim rewards, epoch, start a draw, award it page by page, claim prizes, configuration, migration (open to anybody, also afterwards) | Anchor (deposit, redeem, rate), oracle (random rounds), distributor (pays GLOW, sets emission), ve-token (boost), gov and community (receive funds) |
| **gov** | config, state, polls, index of polls by status, votes, staked shares | stake, withdraw, create, vote, end, execute and expire polls, sweep, configuration | ve-token (voting power), GLOW token, terraswap, any contract named in a poll |
| **ve-token** | locks with start and end, voting power coefficients, weekly slope changes, snapshots | create, increase, extend a lock, withdraw, checkpoint | GLOW token; queried by gov, lotto and fee-distributor |
| **fee-distributor** | distribution per week, last claimed week per user, unclaimed total | distribute, claim, sweep, configuration | ve-token (balances of past weeks), terraswap, GLOW token |
| **staking** | bond, reward index, distribution schedule | bond, unbond, withdraw, new schedule, move to a new contract, migrate | LP token, GLOW token |
| **distributor** | whitelist, spend limit, emission bounds | spend, add and remove a distributor, configuration, advice on the emission rate | GLOW token |
| **community** | owner, addresses, spend limit | spend, transfer stable, sponsor, withdraw sponsorship, swap, burn, migrate | lotto, terraswap, GLOW token |
| **airdrop** | Merkle roots, expiries, claims | register a stage, claim, withdraw expired tokens | GLOW token |
| **vesting** | schedules, last claim time | register accounts, claim | GLOW token |

**What is hard.** A message runs alone and is atomic, together with the
messages it sends; release builds check arithmetic, so overflow, underflow and
division by zero abort the message and leave no trace. The difficulty is
between messages: any number of users and keepers send them in any order. A
draw takes several transactions over several blocks (start, wait for a random
round, count winners page by page) while others deposit, withdraw, claim and
configure. Amounts are rounded at every conversion between UST, aUST, shares,
tickets and GLOW, and Terra taxes every transfer. The same fact is stored
several times (a ticket in the registry and in its holder's list, shares at
the depositor, its operator and the pool, a poll in its bucket and its status
index, a deposit in a lock and in the state's total). Voting power decays
while nobody calls the contract: the total is brought up to date lazily, week
by week, and read as of past times from snapshots. An upgrade of the lotto
moves its depositors in batches that anybody may send. Polls are voted on with
a balance of the past and pay their deposit back in the same transaction that
decides them.

**What makes each component correct.**
- lotto: it can always pay what it owes; a draw is decided by tickets fixed
  before its random number exists, counts each winner once, is awarded
  eventually, and pays each prize once; no depositor gains from another's
  rounding; stored totals are the sums they stand for.
- gov: each vote counts once, with the power of the poll's start; a poll is
  decided and executed at most once, and does not hang; stakes are not diluted
  and deposits stay covered.
- ve-token: the total power is the sum of the users', deposits are held, and
  the past does not change.
- fee-distributor: each week is paid once to each user, gets nothing after
  claims of it have begun, and what is reserved is there.
- staking: what has been earned is held and not lost; bonds add up.
- airdrop: one payment per user and stage, and nothing but claims takes GLOW
  while a stage is open.
  vesting: instalments follow the schedule. distributor: the advice stays in
  its band. distributor and community: spending is limited.
- the lotto's upgrade: nobody is lost or counted twice, the books stay backed,
  users stay out until it is complete, and it completes.

## Modules and code

### Lotto

| Module | Models |
|---|---|
| `LottoMath` | arithmetic without state: decimals, tax, tickets and prefixes, prize and boost formulas, reward indexes, the schedule (`helpers.rs`, `oracle.rs`, `querier.rs`) |
| `LottoState` | the storage (`state.rs`), its types, `TypeOK`, the guards all messages share |
| `LottoSavings` | deposit, gift, ticket claim, withdrawal, unbonding, sponsorship, rewards, epoch |
| `LottoDraw` | `execute_lottery`, `execute_prize` (`prize_strategy.rs`), `execute_claim_lottery` |
| `Lotto` | configuration, `migrate_old_depositors` on a contract without old depositors, `Init`, the clock, `Next`, `Spec`, `FairSpec` |
| `LottoProperties` | the properties and the inductive invariant |
| `MCLotto` | constants for TLC |
| `LottoSavingsProofs`, `LottoProofs` | theorems |
| `LottoMigration`, `MCLottoMigration`, `LottoMigrationProofs` | the upgrade: `migrate` and the batches of `migrate_old_depositors`, next to the deposits and draws that share the migrated storage |

One variable stands for one storage item, with the item's name; one action for
one message, with the handler's name. `checkpoint` and `snapshots` stand for
the snapshot map `DEPOSITOR_STATS`: a height's snapshot is the value at the
*beginning* of that block. `block` and `rate` are the chain's height and time
and Anchor's exchange rate, `bank` the contract's UST and aUST, `paid_glow`
the GLOW the distributor paid. Anchor, the oracle, the bank module with its
tax and the ve contract are external; they are modelled as the contract uses
them: Anchor's rate never falls, the oracle answers for a round once its time
has come, with any sequence.

`MigrateOldDepositors` is dispatched before the pause check and to any sender
(`lotto/src/contract.rs:240`), so it is a disjunct of `Lotto!Next` like any
other message: with no old depositors left it replaces the record of every
past draw by what the empty old storage says of it (`ForgottenLottery`: not
awarded, empty buckets) and unpauses the contract. A draw so overwritten is
called *forgotten* below; its unclaimed prizes can no longer be claimed.

`MaxEmissionRate` and `MaxBoost` name the largest rate for sponsors and the
largest multiplier for winners that the owner ever sets (`LargestAssumption`);
they bound the inputs of `execute_update_config`, not its code.

Decimals are natural numbers scaled by `One` (10^18 in the code, 10 in the
runs) and every operation rounds as the library does. A ticket is a sequence
of `TicketLength` digits below `Base`, in the code's key order, which is what
pagination depends on.

`LottoMigration` is a specification of its own: it has the old buckets and
the new maps, and of the running contract only what writes to them (a deposit,
a whole draw, the owner's pause). Depositors are numbers because a batch is
the first `limit` keys in order; `limit` is the caller's and may be zero or
absent.

### Gov

| Module | Models |
|---|---|
| `Gov` | `contract.rs`, `staking.rs`, `state.rs`, `querier.rs`: every execute message |
| `GovProperties` | the properties |
| `MCGov` | constants for TLC |
| `GovProofs` | theorems |

`ve` is what the ve contract reports for the current block and `ve_at_start`
the users' power at each poll's start. The only assumption on the ve contract
(`VeAssumption`) is that its total covers its users. A query to it may fail
(`VeAnswers`), which the code reads as zero. A poll's messages are sorted by
their order and run in `execute_poll`'s transaction: an `UpdateConfig` to the
contract itself, a transfer of its GLOW, or a call elsewhere.

### veGLOW and fees

| Module | Models |
|---|---|
| `VeToken` | ve-token's `contract.rs`, `staking.rs`, `state.rs`: every message, the weekly catch-up, the scheduled slope changes, the snapshots and the queries that read them |
| `VePower` | the abstract contract: locks, and a total that is by definition the sum of the live ones |
| `VeProperties` | the properties and the refinement |
| `FeeDistributor` | fee-distributor's messages next to `VeToken` on the same clock; its claims call the ve-token queries |
| `FeeProperties` | the properties |
| `MCVeToken`, `MCFee`, `VeProofs` | constants for TLC, theorems (of the fees too) |

Voting power is a quadratic in time, kept as three decimal coefficients.
`state` holds their sum as of `state.timestamp`; `changes[w]` is what must be
subtracted at week `w`. The catch-up loop of `staking.rs:125` is
`WeeksToApply` (at most `CatchUpLimit` weeks, 255 in the code), `Reduced` and
`SavedAt`, with one snapshot per week applied (`LogOfWeeks`). A snapshot
changelog is a function from heights, which this contract sets to block times,
to the value *before* the first change at that height, as `cw-storage-plus`
keeps it. Coefficients are subtracted with checked arithmetic, so
`CatchUpCovered` and `RemovalCovered` are guards: a message that would
underflow fails.

The refinement mapping of `ImplementsVePower` takes the locks as they are,
`held` from the contract's GLOW, `Contribution` from
`voting_power_coefficients`, and `total` from `state` with the changes applied
that are due but not yet applied. Creating, increasing and extending a lock
are `Commit`; a withdrawal is `Release` or, of an expired lock, `Close`; the
clock is `Pass`, which takes the locks that end out of the total at that
second; a checkpoint stutters.

### Staking and the other contracts that hold GLOW

| Module | Models |
|---|---|
| `Staking`, `StakingProperties`, `MCStaking`, `StakingProofs` | staking's `contract.rs` and `state.rs`, constants for TLC, theorems |
| `GlowChain` | the GLOW ledger and the clock that the next four share |
| `Airdrop`, `Vesting`, `Distributor`, `Community` | one contract each, every message and, for community, `migrate` |
| `GlowFunds`, `MCGlowFunds`, `GlowFundsProofs` | their composition, the properties, constants for TLC, theorems |

In `Staking` a slot of the schedule is (start, end, amount); `paid` and
`changed` (rewards paid, number of bond changes) record history for the
properties. The administrator migrates the code once, from a version without
an owner, and every message needs the new configuration. In `Airdrop` a
Merkle root is the set of its leaves and a proof is membership. In
`Distributor`, `FollowAdvice` is a keeper that sets its rate to what the query
advises. In `Community` the lotto is reduced to the sponsorship it owes back
and the pair to what it returns; UST transfers pay the tax of `LottoMath`.
`deployed` is the set of these contracts that a behaviour has: they do not
call each other, so the runs take them one at a time over the shared ledger
while the theorems hold for any set of them.

`ArithmeticTheorems` holds the lemmas on products, division and sums that the
proof modules of all components share.

Several definitions have a *faulty variant* just before them (`..._Ceil`,
`..._Unchecked`, ...). A variant is used by no specification: it records a
plausible mistake in that code with which TLC finds the property violated.

## Runs

`tlc -config <run>.cfg <module>`, with the module that `PROJECT.json` names
(`MCLotto`, `MCGov`, `MCVeToken`, ...). Each takes a few minutes at most.
`CHECK_DEADLOCK FALSE` everywhere: clock, purse and number of draws, polls or
stages are bounded, so the model stops when they are used up; the bounds are
`MaxLottery`, `MaxTime`, `Purse`, `MaxPolls`, `MaxHeight`, `MaxRate`,
`MaxStage` and `FeePurse`.

| Run | Checks | Bounds, and why they suffice |
|---|---|---|
| `lotto_draw` | `DrawIsFrozen`, `SequenceUnknownAtStart`, `AwardIsComplete`, `AwardIsFinal`, `NextLotteryOnSchedule` | two users, four tickets of two digits, two prize tiers, pages of 1 and 2 keys, two draws, an interval of two seconds with draws due and executed one or more seconds late, prize claims, pauses, and past draws forgotten at any time: pages end inside and between tiers, a late draw could leave the grid, and a second draw starts from what the first left |
| `lotto_savings` | `TypeOK`, `TicketRegistryConsistent`, `OperatorSharesMatch` | two tickets, at most 2 to 3 holders, gifts, partial withdrawals, an operator named early, late or never, price and holder limit changed |
| `lotto_funding` | `AustSolvency`, `UstSolvency`, `PoolTotalsAreSums`, `GlowWithinBudget`, `SharePriceNeverDiluted` | tickets of one digit, two prize tiers, one draw with everything that moves money: sponsors and their rewards, tax, unbonding, an epoch, boosted prizes, operators and their rewards, the sponsors' rate and the boost raised at any time, the draw forgotten before or after its prizes are claimed; amounts that leave a remainder in the divisions |
| `lotto_progress` | `DrawEventuallyAwarded`, `UnbondingEventuallyPaid` | fair; pages of one and two keys, a claim maturing around a draw |
| `gov_polls` | `TallyIsSumOfVotes`, `IndexMatchesStatus`, `DecisionsAreFinal` | two overlapping polls, one may update the configuration and spend GLOW; voting power changes every block |
| `gov_stakes` | `TotalsAreSums`, `VotesWithinStake`, `DepositsCovered`, `StakesNeverDiluted`, `PollEventuallyEnds`, `PassedEventuallySettled` | fair; two stakers, two amounts, sweeps, withdrawals of everything and of amounts that do not divide evenly into shares, one poll that spends GLOW or whose message always fails, voting power that changes every block, ve queries that may fail |
| `lotto_migration` | `OneRecordEach`, `MigrationStaysBacked`, `NobodyRunsHalfMigrated`, `MigrationEnds` | fair; three old depositors and two old lotteries, batches of 0, 1, 2 and the default, four exchange rates, a deposit by an old or a new user and a draw afterwards, repeated calls |
| `ve_locks` | `LocksWellFormed`, `DepositsHeld`, `LockHistoryIsFixed`, `ImplementsVePower` | two users, weeks of two seconds, locks of up to two weeks with two possible ends, increases, extensions, partial and full withdrawals; messages in the middle of a week, at its boundary and after weeks without any; the chain is older than one catch-up reaches |
| `fee_claims` | `FeesReserved`, `WeeksSettleOnce` | two lockers, two distributions, claims of one or two weeks at a time, distributions and claims in the second where the week changes |
| `fee_overpaid` | `WeekNotOverpaid` (violated) | as `fee_claims`, with two different ends of locks |
| `staking_rewards` | `StakersCovered`, `EarnedNeverLost` | two stakers, two bond amounts, two overlapping slots whose rates leave remainders, one extension, a move to a new contract at any time |
| `glow_funds` | `AirdropPaidOnce`, `OpenStagesUntouched`, `VestingOnSchedule`, `AdviceWithinBand` | two stages with three durations and a user with two leaves in one; overlapping schedules with uneven rates, claimed at any times; a whitelist that names an address twice, floor and cap changed one at a time; limits changed, two lottos. `SpendLimited` is proved only |

`lotto_draw`, `lotto_funding`, `ve_locks`, the fee runs and `staking_rewards`,
which check no liveness, use the symmetry of the users; `Users` occurs
in no operator that orders it. `lotto_draw`, `lotto_savings`, `lotto_funding`
and the others divide the message inputs among them because the product of all
inputs is out of reach; each has all messages its properties depend on, and
the theorems below hold for all inputs together.

What the passing runs leave out on purpose, because the code does not keep the
property there (see [other observations](#other-observations)): limit 0 in
`execute_prize` and a prize distribution that changes during a draw, both for
`AwardIsComplete`; an interval that changes, for `NextLotteryOnSchedule`; and
schedules that drop a slot which has begun, for `EarnedNeverLost`.

Some properties name what they except. `AwardIsFinal` excepts
`MigrateOldDepositors`, which forgets past draws, from what may happen to a
draw's record, but not from what may happen to its prizes. `GlowWithinBudget`
measures with the largest rate and the largest boost, because the code applies
a new rate to past blocks and a new boost to past draws, and does not count
what operators get: their index grows by a division by
`total_operator_shares`, which falls behind the shares it is paid for, so that
no such bound exists. `DepositsCovered` and `StakesNeverDiluted` except polls
that spend GLOW and allow a withdrawal that names an amount less than, or at
most, the worth of one share. `VotesWithinStake` compares with the veGLOW
there was, and with the stored `staked_amount` unless that is zero because the
query failed. `PollEventuallyEnds` excepts a contract that no longer holds the
deposits. `FeesReserved` says that reserved GLOW is there, not that each
week's claims stay within what was reserved for it: `fee_overpaid` shows that
they may not. `OpenStagesUntouched` says that GLOW leaves the airdrop only by
claims while a stage is open, not that the balance covers what is still
unclaimed, which is up to whoever funds it. `TicketRegistryConsistent` bounds
`total_tickets` on one side, and `OperatorSharesMatch` says nothing of the
pool's `total_operator_shares`. `PassedEventuallySettled` speaks of the
expiration period in force. `StakersCovered` is stated for schedules within
the funds, while rewards can be computed (`RewardComputable`: a slot without
duration stops every message that settles), and allows one unit of rounding
for each change of a bond; `VestingOnSchedule` counts from an account's last
registration, and its lower bound says little of amounts as small as the
number of claims; `ImplementsVePower` is exact, because it compares
coefficients, and covers partial withdrawals: what is released is at most what
has been unlocked linearly. `MigrationStaysBacked` starts from an old contract
that is solvent.

A module's type invariant states what its storage may hold. That of `Lotto` is
checked and proved, those of `Gov`, `Staking` and `LottoMigration` are proved, as
are `LotteryLifecycle`, `PoolNonDegenerate` and `SpendLimited`; the others
(`VeTypeOK`, `FeeTypeOK`, `FundsTypeOK`) document the state and can be added to
their configurations as `INVARIANT`s.

## Fairness

- Lotto (`FairSpec`): weak fairness of the clock up to its horizon; weak
  fairness of `execute_prize` with a positive limit, which anybody may send
  and the operators' keeper sends; strong fairness of each depositor's
  `execute_claim_unbonded`: draws disable it again and again, and a depositor
  who keeps trying meets the gap between them. No fairness of deposits, of
  `execute_lottery` or of the owner.
- Gov (`FairSpec`): weak fairness of new blocks up to the horizon, of
  `end_poll` and of `expire_poll`, both open to anybody. No fairness of voting
  or of `execute_poll`.
- Migration (`FairMigrationSpec`): weak fairness of `migrate_old_depositors`
  with a limit that is not zero, which anybody may send. No fairness of
  `migrate`, of the owner or of the users.

## Proofs

The theorems hold for every value of the constants that satisfies the named
assumptions: any finite number of users, any number of tickets, polls and
blocks, any amounts, rates and configuration, all messages together. Where a
theorem needs more than the code checks, its `ASSUME` says so, and the text
below says why.

**Sums.** Most of what the contracts promise equates a stored total with a sum
over users, polls or draws, or bounds one by another. `ArithmeticTheorems`
proves what is needed of the community modules' `SumFunctionOnSet`: its value
after adding or removing an element, after one entry changes, of sums,
multiples, constants and pointwise bounds, under a change of index, and of a
double sum by counts. The library's induction theorems take an operator, which
the provers cannot instantiate; these lemmas use instead that strict inclusion
of finite sets is well-founded, and look at a minimal counterexample. Least
elements of sets of natural numbers, and what the proofs use of the recursive
function `Power` that numbers the tickets, come in the same way from the
well-foundedness of `<`. That the sets summed over are finite is an assumption
of the modules (`IsFiniteSet` of `Users`, `Stakers` and of the old depositors).

**Lotto.** `LottoProofs!LottoInvariant` proves `Spec => []IInv`, where `IInv`
is the conjunction of

- `TypeOK`, which includes that no amount is negative;
- `FractionsValid`: the configured fractions are at most one, without which
  fees and reserve could exceed what they are taken from;
- `IndexesBehind`: no reward index is ahead of the global one, so the
  difference in `compute_reward` is a natural number;
- `ScheduleSound`: the rate of the last draw is positive and at most the
  current one, which is what makes the interest of a draw non-negative, and a
  running draw was due;
- `LotteryLifecycle`: past draws are awarded or forgotten, the current one is
  neither, future ones are untouched;
- `AustSolvency`, `PoolNonDegenerate`, which need each other: the aUST
  redeemed for a draw is bounded by the interest only if the pool is solvent,
  and the rounded aUST of a withdrawal empties the pool exactly with its last
  share.

From it follow `TypeCorrect`, `AustAlwaysSolvent`, `PoolNeverDegenerate`,
`LotteriesInOrder`, and the action properties `DrawsAreFrozen` and
`SharesNeverDiluted`. `LottoSavingsProofs` holds the
arithmetic (the rounding of each conversion, and `TaxDeductionCoversTransfer`:
an amount after `deduct_tax` plus its tax never exceeds the amount before) and
shows for each savings message that it preserves the parts of `IInv` it can
disturb; `LottoProofs` does so for draws, configuration and the clock, and
combines them.

Four more invariants are inductive relative to `IInv`.
- `Books`: the pool's totals are the sums over depositors and sponsors, an
  operator's shares the sum over those who name it, and registry and lists hold
  the same tickets. Hence `TotalsOfPoolAreSums`, `OperatorsHaveTheirShares` and
  `TicketsStayRegistered`. The operators' part needs the case of a depositor
  who is its own operator, or replaces none by one, told apart.
- `UstBooks`: reserve, buckets, unbonding claims and what unclaimed prizes can
  still take fit into the UST held; while a draw runs and once it is awarded
  (`DrawCounted`) the winners counted for a tier are the sum of the users'
  matches, so that the rounded shares of a bucket never exceed it; and the
  prize distribution adds up to one, so that a draw puts no more into the
  buckets than it redeemed. A forgotten draw owes nothing. Hence
  `UstAlwaysSolvent`; and since each step is shown to keep the sum of what is
  owed and held in balance (`UstFlow`), what leaves for prizes is taken from the
  unclaimed ones: `AwardsAreFinal`.
- `GlowBooks`: the GLOW paid to sponsors and winners, what sponsors have accrued
  and pending, and what the draws' unclaimed prizes can still take at the
  largest boost fit into what the largest rate for sponsors would have emitted
  by the last update of their index plus the GLOW buckets of the draws at the
  largest boost. An update of the index gives out the emission divided by the
  sponsored amount, rounded down; a prize pays its share of a bucket times a
  multiplier, each rounded down, and the shares of a tier are those of its
  counted winners, which `UstBooks` keeps. A draw that is forgotten loses its
  buckets, but what it paid before stays paid, so it goes on counting with what
  it was granted (`GrantedGlow`), which is what the configuration grants to
  every draw (`GlowIsGranted`). Hence `GlowStaysWithinBudget`, with rates, boosts
  and operators as they come. What operators are paid is no part of it: they
  share their emission by `total_operator_shares`, which can fall behind the
  shares they are paid for (`lotto/src/helpers.rs:243`).
- `PagesInv`: the matches counted so far are exactly those of the winning
  tickets up to the stored page, and the stored page lies among the tickets that
  begin with the winning digits. Those tickets form an interval, from
  `min_bound` to `calculate_max_bound`, and a ticket has the minimum number of
  matches exactly if it is in it. A page is a beginning of what remains of the
  interval, so no winner is skipped, and with a positive limit it is empty only
  when nothing remains. Hence `AwardsAreComplete`, under two hypotheses: no call
  has limit 0 (`lotto/src/prize_strategy.rs:298`), and the owner keeps the prize
  distribution while a draw runs (`lotto/src/contract.rs:1505`); the code
  checks neither.

`SequencesUnknown` (nobody can know the sequence when the registry freezes) is
proved for configurations and updates with a `round_delta` of at least two:
with less, the round computed from the block time may already be out, and no
message checks the value. `DrawsStayOnSchedule` is proved for an interval that
the owner does not change: a change starts another grid.

**Gov.** `GovInvariant` proves `Spec => []GovInv`, `GovInv == TypeOK /\
IndexMatchesStatus`; the index is needed because each change of status removes
the poll from the index of the status it is assumed to have. From it follow
`GovTypeCorrect`, `PollsIndexed` and `DecisionsFinal`. Relative to it:
`TalliesAreSums`, where a vote must be new to its voter; `VotesBacked` (each
recorded vote is at most its voter's power at the poll's start, and the poll's
`staked_amount` covers all of those powers or is zero after a failed query),
which with the former gives `VotesStayWithinStake`, whichever queries fail; and
`TotalsStaySums`.

`DepositsStayCovered` and `StakesNotDiluted` are about the rounding between
shares and GLOW and hold for all inputs. A stake mints shares rounded down and
a withdrawal of everything pays GLOW rounded down, so the rest stays with the
others. A withdrawal that names an amount pays that amount and burns the
shares for it rounded down (`gov/src/staking.rs:88`), so the others pay for at
most one share, and deposits are touched only when nothing else is left, for
less than that. Both properties state this bound (see
[other observations](#other-observations) for what it means when few shares
stand for much GLOW); polls that spend GLOW are the stakers' own decision and
excepted.

**ve-token.** `VeInvariant` proves `VeSpec => []VeInv`: the types of the locks
and of their history, `LocksWellFormed`, and `DepositsHeld`. Well-formedness
is needed for types: the coefficients divide by the duration of a lock. From
it follow `LocksStayWellFormed`, `DepositsAreHeld` and
`LockHistoryStaysFixed`. The last rests on what a snapshot read returns: the
value before the earliest change at or after the time. That there is an
earliest one in a non-empty set of natural numbers comes from well-foundedness
of `<` on them (`NatLessThanWellFounded`, `WFMin`), not from induction on an
operator.

`VeImplementsPower` is the whole refinement: initial states map to initial
states and each step to a `VePower` step or a stutter. It rests on `PowerInv`:
in each coefficient, `state` is the sum over the locks that end after the last
week applied, and `changes[w]` the sum over the locks that end at week `w`. A
message's catch-up then takes out of `state` exactly the locks that ended in
between; since no lock is longer than the catch-up reaches (`MAX_WEEKS` against
255), none is missed however long nobody called the contract.

**Fees.** `FeeInvariant`: `FeesReserved`, every `last_claimed` lies before the
current week, and nothing is paid for weeks after it. The second part is what
makes a distribution to the current week safe, and needs that the clock never
runs backwards, in `VeToken`'s steps too. From it follow `FeesStayReserved`
and `WeeksAreSettledOnce`.

**Staking.** `StakingInvariant`: types, the bonds add up and are held, no
staker's index is ahead of the global one, and `ReleasedBacks`: what has been
released of the schedule up to the last computation covers the rewards paid,
pending and accrued, with one unit for each change of a bond. What counts as
released is the difficulty. A slot in progress counts in proportion, and the
rewards computed from it are rounded down; `migrate_staking` cuts the slots at
the present, so that what was rounded away of them is gone and they count in
full, while the rest of the funds leaves; sent a second time it takes GLOW that
is still owed, and the schedule exceeds the funds from then on. These are the
three cases of `ReleasedBacks`, and `StakersStayCovered` follows for the first
two, the third being outside its premise. `update_config` may replace slots
that have not begun, which the released part does not contain.

`EarnedIsNeverLost` needs no further invariant but that the stored slots begin
before they end. Each step either leaves the stakers' entries alone and does
not lower the index as of now (time passes, slots are replaced or cut), or
settles one staker's entry at that index and leaves the index where it is. It
has two hypotheses, which the code leaves to the owner: `update_config` stores
no slot that ends before it begins (`UpdatesOrdered`; `instantiate` refuses
them), and every new schedule keeps the slots that have begun by now
(`BegunSlotsKept`, an action of the behaviour; `assert_new_schedules` asks for
those that had begun when rewards were last computed). Both hold in the run
`staking_rewards`, where an extension adds a slot that may have begun.

**Funds.** `FundsInvariant`: balances of the four contracts are natural
numbers, claims are within the registered stages, `AirdropPaidOnce`, floor at
most cap and multipliers on their sides of one, and the fund's limit is a
number. From it follow `AirdropPaysOnce`, `AirdropKeepsOpenStages`,
`SpendingIsLimited` and `AdviceStaysWithinBand`; the band needs that every
update checks floor against cap with the values it leaves unchanged.

`VestingInvariant` compares what an account was paid with two exact amounts:
it is at most what its schedules have released up to the last claim, and less
than what the rounded rates earn by at most one unit for each claim and
schedule. A claim pays for the seconds since the last one, none twice, because
a last claim in the future is a genesis time before which no schedule starts.
`VestingNeverEarly` is the first half, for any schedules. The second half gives
`VestingStaysOnSchedule` for schedules of at most 10^18 seconds, where a rate
rounded to 18 digits loses at most one unit over the whole schedule; a `u64`
allows longer ones, no calendar does.

**Migration.** `MigrationInvariant`: the old depositors and the old lotteries
are gone together or not at all after the upgrade, `OneRecordEach`,
`NobodyRunsHalfMigrated`. The first two need the third: a user let in early
would get a second record. From it follow `MigrationLosesNobody` and
`MigrationKeepsUsersOut`, for any batches. `MigrationBacked` adds the books:
converting a batch at the current rate, rounding each record down, takes at
least as much off what is owed to the old depositors as it adds for the new
ones, and a rising rate only lowers what is owed in aUST.

**Only model-checked.** Liveness (`DrawEventuallyAwarded`,
`UnbondingEventuallyPaid`, `PollEventuallyEnds`, `PassedEventuallySettled`,
`MigrationEnds`): fairness and `ENABLED` are outside the prover. Every other
property of a passing run is stated by a theorem.

## Finding

`fee_overpaid`: ve-token's `query_state` loads the state as of the timestamp
asked for and then applies the slope changes up to *now*
(`ve-token/src/contract.rs:431`), so a total read for a past week lacks the
locks that have ended since, while `query_staker` still reports them. The
README of ve-token says the query reads the balance "at a given timestamp"
(`:61`) and that of fee-distributor divides by the total "at the time of the
start of the corresponding weekly distribution" (`:28`). TLC shows a week
whose users are together paid more than was distributed in it, out of the GLOW
of other weeks.

## Other observations

What the code does otherwise than its comments or a reader would expect. The
actions reproduce all of it.

- `lotto/src/helpers.rs:243`: naming an operator with a later deposit gives it
  all the depositor's shares but adds only the new ones to
  `total_operator_shares`. `lotto/src/contract.rs:596`: tickets claimed out of
  appreciation are not added to `total_tickets`.
- `lotto/src/prize_strategy.rs:298`: `execute_prize` with limit 0 reads an
  empty page and awards the draw without its winners.
- `lotto/src/contract.rs:894`: after rounding, the aUST of a full withdrawal
  can be worth more than the depositor's balance, and it is refused.
- `lotto/src/contract.rs:1372` stores a new oracle address as the *owner*;
  `:1447` stores a new emission rate without updating the index, so it applies
  to past blocks; `:1505` lets the prize distribution change during a draw.
- The migration: `migrate_old_depositors` is not limited to a paused contract
  (it is dispatched at `lotto/src/contract.rs:240`, so the refusal "Cannot call
  MigrateLoop when unpaused." at `:369` is never reached). Sent again after the
  migration it writes lotteries `0..current_lottery-1` again from the now empty
  old bucket, as defaults, and unpauses (`:2093`-`:2124`): winners who have not
  claimed lose their prizes, and the UST set aside for them stays, owed to
  nobody. A draw in progress at the upgrade is not carried over (`:2099`).
- `gov/src/staking.rs:88`: a withdrawal that names an amount burns the shares
  rounded down, at the cost of the other stakers and, when it takes all that is
  staked, of the proposal deposits: up to one share's worth each time, which
  grows with every sweep. `gov/src/contract.rs:256`:
  quorum and threshold are validated by `instantiate` but not by
  `update_config`. `:473`: the quorum is measured against the veGLOW of the
  poll's creation and reached by equality, while the comment below speaks of
  the tokens staked at the end.
- `ve-token/src/staking.rs:125`: the loop ends after 255 weeks without an
  error, which is harmless as long as `MAX_WEEKS` is 52 (`VeAssumption`).
- `fee-distributor/src/helpers.rs:100`: a total of zero, or a page whose shares
  round to zero, makes a claim fail, and the user stays at that week.
- `staking/src/contract.rs:251`: `migrate_staking` sent twice sends again what
  remains; `update_config` accepts slots that `instantiate` would refuse; time
  without bonds counts as distributed; a slot counts as begun only once
  rewards have been computed after its start, so one that runs already may
  still be removed, with what it has distributed since (`:480`); a change of a
  bond can credit one unit too much.
- `vesting/src/contract.rs:124`: registering an account again resets
  `last_claim_time`, and its schedules are paid again.
- `community/src/contract.rs:352`: migrating to another lotto leaves a
  sponsorship at the first; `:254`: a swap of the whole UST balance cannot pay
  its tax. `distributor/src/contract.rs:297`: no contract calls the emission
  query; it is advice.

## What is not modelled

- Queries, except where a handler or another contract uses their answers (the
  ve-token's state and staker, the distributor's advice, Anchor's rate).
- lotto: addresses, names and the layout of keys beyond their order.
- gov: `migrate`, which only rewrites the stored configuration; the locked
  balances of older versions, to which this version never adds; titles, links
  and their length checks; messages of a poll that call the contract itself
  other than with `UpdateConfig`.
- `Lotto` and `Gov` take the ve-token's answers as inputs bounded by an
  assumption rather than from `VeToken`; the state of the three together is out
  of TLC's reach, and `VeToken` is composed with `FeeDistributor` instead, where
  past balances matter most. The empty `migrate` of the remaining contracts.
- The Merkle proof's hashing, the mock queriers of the tests and the generated
  schemas.

## Plan

Runs of `Lotto` with a prize distribution that changes during a draw, and a
bound on what operators earn, once the code says what should then hold.
