-------------------------------- MODULE Gov --------------------------------
(***************************************************************************)
(* The governance contract (contracts/gov): GLOW staking, polls that are   *)
(* voted on with veGLOW, and the execution of the polls that pass.         *)
(*                                                                         *)
(* Every message is one transaction.  A message that fails, or whose       *)
(* outgoing messages fail, leaves no trace and is no step.                 *)
(*                                                                         *)
(* TokenManager::locked_balance is left out: no code of this version adds  *)
(* to it, so compute_locked_balance is 0 in every state after instantiate. *)
(***************************************************************************)
EXTENDS Integers, Sequences, FiniteSets, FiniteSetsExt

CONSTANTS
    Users, Creator, GovContract,  \* addresses: the stakers and voters, the
                                  \* sender of instantiate, the contract
    None,                         \* an absent value
    One,                          \* the value 1 of a Decimal
    InitConfig,                   \* InstantiateMsg, with owner and registered
    StakeAmounts, WithdrawAmounts, DepositAmounts,
    Sweeps,                       \* GLOW that one swap may return
    PollMessages,                 \* execute_msgs: None or a sequence
    ConfigUpdates,                \* UpdateConfig messages sent directly
    VotingBalances,               \* what the ve contract may report
    VeAnswers,                    \* may a query to the ve contract fail?
    MaxPolls, MaxHeight,          \* bounds
    Purse                         \* bound: GLOW that may still be brought in

VARIABLES
    config, state,   \* the singletons
    polls,           \* the poll bucket, keys 1..state.poll_count
    poll_indexer,    \* for each status the ids stored under it
    poll_voter,      \* for each poll the users' votes
    bank,            \* for each user the staked share
    height,          \* env.block.height
    ve,              \* veGLOW at the beginning of this block: [user, total]
    ve_at_start,     \* for each poll, veGLOW of the users at its start_time
    glow,            \* GLOW the contract holds
    purse            \* GLOW that may still be brought in

storage == <<config, state, polls, poll_indexer, poll_voter, bank>>
vars == <<storage, height, ve, ve_at_start, glow, purse>>

Addresses == Users \cup {Creator, GovContract}
PollStatus == {"in_progress", "passed", "rejected", "executed", "expired"}
VoteOption == {"yes", "no"}

Config ==
    [owner : Addresses, registered : BOOLEAN, quorum : Nat, threshold : Nat,
     voting_period : Nat, timelock_period : Nat, expiration_period : Nat,
     proposal_deposit : Nat, snapshot_period : Nat]

State == [poll_count : Nat, total_share : Nat, total_deposit : Nat]

VoterInfo == [vote : VoteOption, balance : Nat]

\* UpdateConfig: every field may be left out.
ConfigUpdate ==
    [owner : Addresses \cup {None}, quorum : Nat \cup {None},
     threshold : Nat \cup {None}, voting_period : Nat \cup {None},
     timelock_period : Nat \cup {None}, expiration_period : Nat \cup {None},
     proposal_deposit : Nat \cup {None}, snapshot_period : Nat \cup {None}]

\* A message of a poll: to the contract itself, an UpdateConfig; to the
\* GLOW token, a transfer of the contract's GLOW (spend); to any other
\* contract, update = None and spend = 0.
PollExecuteMsg == [order : Nat, update : ConfigUpdate \cup {None}, spend : Nat]

Poll ==
    [creator : Users, status : PollStatus, yes_votes : Nat, no_votes : Nat,
     end_height : Nat, execute_data : PollMessages, deposit_amount : Nat,
     total_balance_at_end_poll : Nat \cup {None}, staked_amount : Nat]

\* The sum of a function on the users.
Total(f) == SumFunctionOnSet(f, Users)

ASSUME ConstantsAssumption ==
    /\ IsFiniteSet(Users)
    /\ One \in Nat \ {0}
    /\ None \notin Nat \cup Addresses \cup VoterInfo
    /\ InitConfig \in Config
    /\ InitConfig.owner = Creator /\ ~InitConfig.registered
    /\ InitConfig.quorum <= One        \* validate_quorum
    /\ InitConfig.threshold <= One     \* validate_threshold
    /\ StakeAmounts \cup DepositAmounts \cup Sweeps \subseteq Nat
    /\ WithdrawAmounts \subseteq Nat \cup {None}
    /\ PollMessages \subseteq Seq(PollExecuteMsg) \cup {None}
    /\ ConfigUpdates \subseteq ConfigUpdate
    /\ VeAnswers \subseteq BOOLEAN
    /\ MaxPolls \in Nat /\ MaxHeight \in Nat /\ Purse \in Nat

\* The ve contract reports a total that covers the users' balances.
ASSUME VeAssumption ==
    /\ VotingBalances \subseteq [user : [Users -> Nat], total : Nat]
    /\ VotingBalances # {}
    /\ \A balances \in VotingBalances : Total(balances.user) <= balances.total

TypeOK ==
    /\ config \in Config
    /\ state \in State
    /\ polls \in [1..state.poll_count -> Poll]
    /\ poll_indexer \in [PollStatus -> SUBSET (1..state.poll_count)]
    /\ poll_voter \in [1..state.poll_count -> [Users -> VoterInfo \cup {None}]]
    /\ bank \in [Users -> Nat]
    /\ height \in Nat
    /\ ve \in [user : [Users -> Nat], total : Nat]
    /\ ve_at_start \in [1..state.poll_count -> [Users -> Nat]]
    /\ glow \in Nat
    /\ purse \in Nat

-----------------------------------------------------------------------------
(* Arithmetic and the accounts.                                            *)

from_ratio(a, b) == (a * One) \div b

multiply_ratio(a, n, d) == (a * n) \div d

\* The staked GLOW: what the contract holds without the proposal deposits.
\* Faulty variant: the deposits count as staked.
TotalBalance_WithDeposits == glow
TotalBalance == glow - state.total_deposit

\* [1..n -> S] extended by one entry.
Added(f, x) == [i \in 1..state.poll_count + 1 |-> IF i = state.poll_count + 1 THEN x ELSE f[i]]

\* GLOW that arrives with a Receive message; the token moves no zero amounts.
GlowReceived(amount) ==
    /\ config.registered
    /\ amount # 0 /\ amount <= purse
    /\ glow' = glow + amount
    /\ purse' = purse - amount

\* GLOW that the contract sends.
GlowSent(amount) ==
    /\ amount # 0 /\ amount <= glow
    /\ glow' = glow - amount

-----------------------------------------------------------------------------
(* Staking.                                                                *)

\* Faulty variant: one share for each GLOW, whatever a share is worth.
SharesFor_OneToOne(amount) == amount
SharesFor(amount) ==
    IF TotalBalance = 0 \/ state.total_share = 0 THEN amount
    ELSE multiply_ratio(amount, state.total_share, TotalBalance)

stake_voting_tokens(u, amount) ==
    /\ GlowReceived(amount)
    /\ glow >= state.total_deposit
    /\ bank' = [bank EXCEPT ![u] = @ + SharesFor(amount)]
    /\ state' = [state EXCEPT !.total_share = @ + SharesFor(amount)]
    /\ UNCHANGED <<config, polls, poll_indexer, poll_voter, height, ve, ve_at_start>>

\* amount = None withdraws everything; at least one share goes otherwise.
WithdrawnShare(u, amount) ==
    IF amount = None THEN bank[u]
    ELSE LET share == multiply_ratio(amount, state.total_share, TotalBalance)
         IN IF share = 0 THEN 1 ELSE share

withdraw_voting_tokens(u, amount) ==
    LET share == WithdrawnShare(u, amount)
    IN /\ glow > state.total_deposit
       /\ state.total_share # 0
       /\ share <= bank[u] /\ share <= state.total_share
       /\ bank' = [bank EXCEPT ![u] = @ - share]
       /\ state' = [state EXCEPT !.total_share = @ - share]
       /\ GlowSent(IF amount = None
                   THEN multiply_ratio(share, TotalBalance, state.total_share)
                   ELSE amount)
       /\ UNCHANGED <<config, polls, poll_indexer, poll_voter, height, ve,
                      ve_at_start, purse>>

-----------------------------------------------------------------------------
(* Polls.                                                                  *)

\* The users' veGLOW at the poll's start_time, 0 if the query fails.
\* Faulty variant: veGLOW at the time of the vote.
VotingBalance_Now(p, u, answered) == IF answered THEN ve.user[u] ELSE 0
VotingBalance(p, u, answered) == IF answered THEN ve_at_start[p][u] ELSE 0

create_poll(u, deposit_amount, execute_msgs, answered) ==
    LET id == state.poll_count + 1
    IN /\ id <= MaxPolls
       /\ GlowReceived(deposit_amount)
       /\ deposit_amount >= config.proposal_deposit
       /\ state' = [state EXCEPT !.poll_count = id,
                                 !.total_deposit = @ + deposit_amount]
       /\ polls' = Added(polls,
             [creator |-> u, status |-> "in_progress", yes_votes |-> 0, no_votes |-> 0,
              end_height |-> height + config.voting_period,
              execute_data |-> execute_msgs, deposit_amount |-> deposit_amount,
              total_balance_at_end_poll |-> None,
              staked_amount |-> IF answered THEN ve.total ELSE 0])
       /\ poll_indexer' = [poll_indexer EXCEPT !["in_progress"] = @ \cup {id}]
       /\ poll_voter' = Added(poll_voter, [v \in Users |-> None])
       /\ ve_at_start' = Added(ve_at_start, ve.user)
       /\ UNCHANGED <<config, bank, height, ve>>

\* Faulty variants: accept a second vote, or a vote on a poll that has ended.
VoteAccepted_Again(p, u) ==
    polls[p].status = "in_progress" /\ height <= polls[p].end_height
VoteAccepted_Ended(p, u) ==
    height <= polls[p].end_height /\ poll_voter[p][u] = None
VoteAccepted(p, u) ==
    /\ polls[p].status = "in_progress" /\ height <= polls[p].end_height
    /\ poll_voter[p][u] = None

cast_vote(u, p, vote, answered) ==
    LET amount == VotingBalance(p, u, answered)
    IN /\ VoteAccepted(p, u)
       /\ polls' = IF vote = "yes" THEN [polls EXCEPT ![p].yes_votes = @ + amount]
                                   ELSE [polls EXCEPT ![p].no_votes = @ + amount]
       /\ poll_voter' = [poll_voter EXCEPT ![p][u] = [vote |-> vote, balance |-> amount]]
       /\ UNCHANGED <<config, state, poll_indexer, bank, height, ve, ve_at_start, glow, purse>>

\* The ids move from one status to another.
Reindexed(p, from, to) ==
    [poll_indexer EXCEPT ![from] = @ \ {p}, ![to] = @ \cup {p}]

Tallied(p) == polls[p].yes_votes + polls[p].no_votes

QuorumReached(p) ==
    /\ Tallied(p) # 0
    /\ config.quorum <= IF polls[p].staked_amount = 0 THEN 0
                        ELSE from_ratio(Tallied(p), polls[p].staked_amount)

ThresholdReached(p) == from_ratio(polls[p].yes_votes, Tallied(p)) > config.threshold

\* The deposit stops being one, whether it is paid back or stays as stake.
\* Faulty variant: it stops being one only when it is paid back.
DepositsAfter_RefundedOnly(p) ==
    IF QuorumReached(p) THEN state.total_deposit - polls[p].deposit_amount
    ELSE state.total_deposit
DepositsAfter(p) == state.total_deposit - polls[p].deposit_amount

\* A poll may be ended from its end height on, whatever was voted.
\* Faulty variant: only when there is something to count.
MayEnd_WithVotes(p) ==
    polls[p].status = "in_progress" /\ polls[p].end_height <= height /\ Tallied(p) # 0
MayEnd(p) == polls[p].status = "in_progress" /\ polls[p].end_height <= height

end_poll(p) ==
    LET status == IF QuorumReached(p) /\ ThresholdReached(p) THEN "passed" ELSE "rejected"
    IN /\ MayEnd(p)
       /\ IF QuorumReached(p) /\ polls[p].deposit_amount # 0
          THEN GlowSent(polls[p].deposit_amount)
          ELSE UNCHANGED glow
       /\ polls[p].deposit_amount <= state.total_deposit
       /\ state' = [state EXCEPT !.total_deposit = DepositsAfter(p)]
       /\ poll_indexer' = Reindexed(p, "in_progress", status)
       /\ polls' = [polls EXCEPT ![p].status = status,
                                 ![p].total_balance_at_end_poll = polls[p].staked_amount]
       /\ UNCHANGED <<config, poll_voter, bank, height, ve, ve_at_start, purse>>

-----------------------------------------------------------------------------
(* Configuration and execution.                                            *)

\* c with the fields that the message gives.
Updated(c, msg) ==
    [f \in DOMAIN c |-> IF f \in DOMAIN msg /\ msg[f] # None THEN msg[f] ELSE c[f]]

update_config(sender, msg) ==
    /\ config.owner = sender
    /\ config' = Updated(config, msg)
    /\ UNCHANGED <<state, polls, poll_indexer, poll_voter, bank, height, ve,
                   ve_at_start, glow, purse>>

\* The messages of a poll run in sequence, sorted by their order; the sort
\* is stable.
RunsAfter(msgs, i, j) ==
    \/ msgs[j].order < msgs[i].order
    \/ msgs[j].order = msgs[i].order /\ j < i

Gives(msg, f) == msg.update # None /\ f \in DOMAIN msg.update /\ msg.update[f] # None

\* The configuration when the messages in ran have run: each field is what
\* the last message that gives it says.
ConfigAfter(msgs, ran) ==
    [f \in DOMAIN config |->
        LET last == {k \in ran : /\ Gives(msgs[k], f)
                                 /\ \A j \in ran \ {k} :
                                       Gives(msgs[j], f) => RunsAfter(msgs, k, j)}
        IN IF last = {} THEN config[f] ELSE msgs[CHOOSE k \in last : TRUE].update[f]]

\* Messages to the contract itself need it to be its own owner by then;
\* those to other contracts change no storage here.
AllSucceed(msgs) ==
    \A k \in DOMAIN msgs :
        msgs[k].update # None =>
            ConfigAfter(msgs, {j \in DOMAIN msgs : RunsAfter(msgs, k, j)}).owner = GovContract

\* The GLOW that the messages transfer.
Spent(msgs) == SumFunction([k \in DOMAIN msgs |-> msgs[k].spend])

execute_poll(p) ==
    LET msgs == polls[p].execute_data
    IN /\ polls[p].status = "passed"
       /\ polls[p].end_height + config.timelock_period <= height
       /\ polls[p].execute_data # None
       /\ AllSucceed(msgs) /\ Spent(msgs) \in 0..glow
       /\ config' = ConfigAfter(msgs, DOMAIN msgs)
       /\ poll_indexer' = Reindexed(p, "passed", "executed")
       /\ polls' = [polls EXCEPT ![p].status = "executed"]
       /\ glow' = glow - Spent(msgs)
       /\ UNCHANGED <<state, poll_voter, bank, height, ve, ve_at_start, purse>>

\* Faulty variants: the poll keeps its place in the index of passed polls;
\* the polls without messages expire instead of those with messages.
IndexAfterExpiry_Kept(p) == [poll_indexer EXCEPT !["expired"] = @ \cup {p}]
IndexAfterExpiry(p) == Reindexed(p, "passed", "expired")
MayExpire_Text(p) == polls[p].status = "passed" /\ polls[p].execute_data = None
MayExpire(p) == polls[p].status = "passed" /\ polls[p].execute_data # None

expire_poll(p) ==
    /\ MayExpire(p)
    /\ polls[p].end_height + config.expiration_period <= height
    /\ poll_indexer' = IndexAfterExpiry(p)
    /\ polls' = [polls EXCEPT ![p].status = "expired"]
    /\ UNCHANGED <<config, state, poll_voter, bank, height, ve, ve_at_start, glow, purse>>

\* Anybody may register the contracts, once.
register_contracts ==
    /\ ~config.registered
    /\ config' = [config EXCEPT !.registered = TRUE]
    /\ UNCHANGED <<state, polls, poll_indexer, poll_voter, bank, height, ve,
                   ve_at_start, glow, purse>>

\* The contract's UST is swapped; what matters here is the GLOW it returns.
sweep(bought) ==
    /\ GlowReceived(bought)
    /\ UNCHANGED <<storage, height, ve, ve_at_start>>

-----------------------------------------------------------------------------

Init ==
    /\ config = InitConfig
    /\ state = [poll_count |-> 0, total_share |-> 0, total_deposit |-> 0]
    /\ polls = <<>> /\ poll_voter = <<>> /\ ve_at_start = <<>>
    /\ poll_indexer = [s \in PollStatus |-> {}]
    /\ bank = [u \in Users |-> 0]
    /\ height = 0
    /\ ve \in VotingBalances
    /\ glow = 0
    /\ purse = Purse

\* A new block; locks are made, extended and decay in the ve contract.
NextBlock ==
    /\ height < MaxHeight
    /\ height' = height + 1
    /\ ve' \in VotingBalances
    /\ UNCHANGED <<storage, ve_at_start, glow, purse>>

PollIds == 1..state.poll_count

Next ==
    \/ \E u \in Users, amount \in StakeAmounts : stake_voting_tokens(u, amount)
    \/ \E u \in Users, amount \in WithdrawAmounts : withdraw_voting_tokens(u, amount)
    \/ \E u \in Users, amount \in DepositAmounts, msgs \in PollMessages,
          answered \in VeAnswers : create_poll(u, amount, msgs, answered)
    \/ \E u \in Users, p \in PollIds, vote \in VoteOption,
          answered \in VeAnswers : cast_vote(u, p, vote, answered)
    \/ \E p \in PollIds : end_poll(p) \/ execute_poll(p) \/ expire_poll(p)
    \/ \E a \in Users \cup {Creator}, msg \in ConfigUpdates : update_config(a, msg)
    \/ register_contracts
    \/ \E bought \in Sweeps : sweep(bought)
    \/ NextBlock

Spec == Init /\ [][Next]_vars

\* Blocks keep coming until the horizon MaxHeight, and somebody ends the
\* polls that are due and expires those that nobody executes: all three
\* messages are open to anybody.
FairSpec ==
    /\ Spec
    /\ WF_vars(NextBlock)
    /\ \A p \in 1..MaxPolls : WF_vars(p \in PollIds /\ end_poll(p))
    /\ \A p \in 1..MaxPolls : WF_vars(p \in PollIds /\ expire_poll(p))

=============================================================================
