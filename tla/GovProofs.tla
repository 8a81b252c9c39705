----------------------------- MODULE GovProofs -----------------------------
(***************************************************************************)
(* Proofs about the governance contract, for any number of users, polls    *)
(* and blocks.                                                             *)
(***************************************************************************)
EXTENDS GovProperties, ArithmeticTheorems

\* A part n/d of a, n at most d, is at most a.
LEMMA PartOfWhole ==
    ASSUME NEW a \in Nat, NEW n \in Nat, NEW d \in Nat \ {0}, n <= d
    PROVE  multiply_ratio(n, a, d) \in Nat /\ multiply_ratio(n, a, d) <= a
<1> DEFINE q == (n * a) \div d
<1>1. n * a \in Nat /\ n * a <= d * a
  OBVIOUS
<1>2. q \in Nat /\ d * q <= n * a
  BY <1>1, DivBounds
<1> HIDE DEF q
<1>3. d * q <= d * a
  BY <1>1, <1>2
<1>4. q <= a
  <2>1. SUFFICES ASSUME q >= a + 1 PROVE FALSE
    BY <1>2
  <2>2. d * q >= d * (a + 1)
    BY <1>2, <2>1
  <2>3. d * (a + 1) = d * a + d
    OBVIOUS
  <2> QED
    BY <1>2, <1>3, <2>2, <2>3
<1> QED
  BY <1>2, <1>4 DEF q, multiply_ratio

LEMMA RatioType ==
    ASSUME NEW a \in Nat, NEW n \in Nat, NEW d \in Nat \ {0}
    PROVE  multiply_ratio(a, n, d) \in Nat
<1>1. a * n \in Nat
  OBVIOUS
<1> QED
  BY <1>1, DivBounds DEF multiply_ratio

-----------------------------------------------------------------------------
(* The configuration keeps its type.                                       *)

LEMMA UpdatedType ==
    ASSUME NEW c \in Config, NEW msg \in ConfigUpdate
    PROVE  Updated(c, msg) \in Config
<1>1. DOMAIN c = {"owner", "registered", "quorum", "threshold", "voting_period",
                  "timelock_period", "expiration_period", "proposal_deposit",
                  "snapshot_period"}
  BY DEF Config
<1>2. DOMAIN msg = {"owner", "quorum", "threshold", "voting_period",
                    "timelock_period", "expiration_period", "proposal_deposit",
                    "snapshot_period"}
  BY DEF ConfigUpdate
<1> QED
  BY <1>1, <1>2 DEF Config, ConfigUpdate, Updated

LEMMA ConfigAfterType ==
    ASSUME config \in Config, NEW msgs \in Seq(PollExecuteMsg),
           NEW ran \in SUBSET (DOMAIN msgs)
    PROVE  ConfigAfter(msgs, ran) \in Config
<1> DEFINE last(f) == {k \in ran : /\ Gives(msgs[k], f)
                                   /\ \A j \in ran \ {k} :
                                         Gives(msgs[j], f) => RunsAfter(msgs, k, j)}
           value(f) == IF last(f) = {} THEN config[f]
                       ELSE msgs[CHOOSE k \in last(f) : TRUE].update[f]
<1>1. \A f \in DOMAIN config :
         \/ value(f) = config[f]
         \/ \E update \in ConfigUpdate :
               f \in DOMAIN update /\ update[f] # None /\ value(f) = update[f]
  <2>1. SUFFICES ASSUME NEW f \in DOMAIN config, last(f) # {}
                 PROVE  \E update \in ConfigUpdate :
                           f \in DOMAIN update /\ update[f] # None /\ value(f) = update[f]
    OBVIOUS
  <2>2. PICK k \in ran : k = (CHOOSE i \in last(f) : TRUE) /\ Gives(msgs[k], f)
    BY <2>1
  <2>3. msgs[k] \in PollExecuteMsg
    BY SMTT(30)
  <2>4. msgs[k].update \in ConfigUpdate /\ f \in DOMAIN msgs[k].update
           /\ msgs[k].update[f] # None
    BY <2>2, <2>3, ZenonT(30) DEF Gives, PollExecuteMsg
  <2> QED
    BY <2>1, <2>2, <2>4
<1>2. ConfigAfter(msgs, ran) = [f \in DOMAIN config |-> value(f)]
  BY DEF ConfigAfter
<1> HIDE DEF value
<1>3. DOMAIN config = {"owner", "registered", "quorum", "threshold", "voting_period",
                       "timelock_period", "expiration_period", "proposal_deposit",
                       "snapshot_period"}
  BY DEF Config
<1>4. \A update \in ConfigUpdate :
         DOMAIN update = {"owner", "quorum", "threshold", "voting_period",
                          "timelock_period", "expiration_period", "proposal_deposit",
                          "snapshot_period"}
  BY DEF ConfigUpdate
<1>5. value("owner") \in Addresses /\ value("registered") \in BOOLEAN
  <2>1. value("owner") \in Addresses
    BY <1>1, <1>3, <1>4 DEF Config, ConfigUpdate
  <2>2. \A update \in ConfigUpdate : "registered" \notin DOMAIN update
    BY <1>4
  <2>3. value("registered") = config["registered"]
    BY <1>1, <1>3, <2>2
  <2>4. config["registered"] \in BOOLEAN
    BY DEF Config
  <2> QED
    BY <2>1, <2>3, <2>4
<1>6. /\ value("quorum") \in Nat /\ value("threshold") \in Nat
      /\ value("voting_period") \in Nat /\ value("timelock_period") \in Nat
  BY <1>1, <1>3, <1>4 DEF Config, ConfigUpdate
<1>7. /\ value("expiration_period") \in Nat /\ value("proposal_deposit") \in Nat
      /\ value("snapshot_period") \in Nat
  BY <1>1, <1>3, <1>4 DEF Config, ConfigUpdate
<1> QED
  BY <1>2, <1>3, <1>5, <1>6, <1>7 DEF Config

-----------------------------------------------------------------------------
(* The inductive invariant: the types, and the index of the polls.         *)

GovInv == TypeOK /\ IndexMatchesStatus

LEMMA AddedEntry ==
    ASSUME NEW n \in Nat, NEW S, NEW f \in [1..n -> S], NEW x \in S,
           NEW g, g = [i \in 1..n + 1 |-> IF i = n + 1 THEN x ELSE f[i]]
    PROVE  g \in [1..n + 1 -> S] /\ g[n + 1] = x /\ \A i \in 1..n : g[i] = f[i]
  OBVIOUS

LEMMA InitGov == Init => GovInv
<1> SUFFICES ASSUME Init PROVE GovInv
  OBVIOUS
<1>1. state.poll_count = 0 /\ 1..0 = {}
  BY DEF Init
<1>2. polls = <<>> /\ poll_voter = <<>> /\ ve_at_start = <<>>
  BY DEF Init
<1>3. TypeOK
  BY <1>1, <1>2, ConstantsAssumption, VeAssumption DEF Init, TypeOK, State
<1>4. IndexMatchesStatus
  BY <1>1 DEF Init, IndexMatchesStatus, PollIds
<1> QED
  BY <1>3, <1>4 DEF GovInv

\* Steps that leave the polls and their index alone.
LEMMA PollsUntouched ==
    ASSUME GovInv, UNCHANGED <<polls, poll_indexer, poll_voter, ve_at_start>>,
           state'.poll_count = state.poll_count,
           config' \in Config, state' \in State, bank' \in [Users -> Nat],
           height' \in Nat, ve' \in [user : [Users -> Nat], total : Nat],
           glow' \in Nat, purse' \in Nat
    PROVE  GovInv'
<1>1. TypeOK'
  BY DEF GovInv, TypeOK
<1>2. IndexMatchesStatus'
  BY DEF GovInv, IndexMatchesStatus, PollIds
<1> QED
  BY <1>1, <1>2 DEF GovInv

LEMMA StakeStep ==
    ASSUME GovInv, NEW u \in Users, NEW amount \in StakeAmounts,
           stake_voting_tokens(u, amount)
    PROVE  GovInv'
<1>1. amount \in Nat
  BY ConstantsAssumption
<1>2. TypeOK
  BY DEF GovInv
<1>3. SharesFor(amount) \in Nat
  <2>1. TotalBalance \in Nat
    BY <1>2 DEF stake_voting_tokens, TotalBalance, TypeOK, State
  <2>2. state.total_share \in Nat
    BY <1>2 DEF TypeOK, State
  <2> QED
    BY <1>1, <2>1, <2>2, RatioType DEF SharesFor
<1>4. state' \in State /\ state'.poll_count = state.poll_count
  BY <1>2, <1>3, SMTT(30) DEF stake_voting_tokens, TypeOK, State
<1>5. bank' \in [Users -> Nat]
  BY <1>2, <1>3 DEF stake_voting_tokens, TypeOK
<1>6. glow' \in Nat /\ purse' \in Nat
  BY <1>1, <1>2 DEF stake_voting_tokens, GlowReceived, TypeOK
<1>7. UNCHANGED <<config, polls, poll_indexer, poll_voter, height, ve, ve_at_start>>
  BY DEF stake_voting_tokens
<1> QED
  BY <1>2, <1>4, <1>5, <1>6, <1>7, PollsUntouched DEF TypeOK

LEMMA WithdrawStep ==
    ASSUME GovInv, NEW u \in Users, NEW amount \in WithdrawAmounts,
           withdraw_voting_tokens(u, amount)
    PROVE  GovInv'
<1> DEFINE share == WithdrawnShare(u, amount)
<1>1. amount \in Nat \cup {None}
  BY ConstantsAssumption
<1>2. TypeOK
  BY DEF GovInv
<1>3. /\ share <= bank[u] /\ share <= state.total_share
      /\ state.total_share # 0 /\ glow > state.total_deposit
      /\ bank' = [bank EXCEPT ![u] = @ - share]
      /\ state' = [state EXCEPT !.total_share = @ - share]
      /\ UNCHANGED <<config, polls, poll_indexer, poll_voter, height, ve, ve_at_start, purse>>
  BY Zenon DEF withdraw_voting_tokens
<1>4. TotalBalance \in Nat \ {0} /\ state.total_share \in Nat /\ bank[u] \in Nat
  BY <1>2, <1>3 DEF TotalBalance, TypeOK, State
<1>5. share \in Nat
  BY <1>1, <1>4, RatioType DEF WithdrawnShare
<1> HIDE DEF share
<1>6. state' \in State /\ state'.poll_count = state.poll_count
  <2>1. state.total_share - share \in Nat
    BY <1>3, <1>4, <1>5
  <2> QED
    BY <1>2, <1>3, <2>1 DEF TypeOK, State
<1>7. bank' \in [Users -> Nat]
  BY <1>2, <1>3, <1>4, <1>5 DEF TypeOK
<1>8. glow' \in Nat
  <2>1. PICK sent : GlowSent(sent) /\ sent \in Nat
    <3>1. multiply_ratio(share, TotalBalance, state.total_share) \in Nat
      BY <1>3, <1>4, <1>5, RatioType
    <3>2. GlowSent(IF amount = None
                   THEN multiply_ratio(share, TotalBalance, state.total_share)
                   ELSE amount)
      BY Zenon DEF withdraw_voting_tokens, share
    <3> QED
      BY <1>1, <3>1, <3>2
  <2> QED
    BY <1>2, <2>1 DEF GlowSent, TypeOK
<1> QED
  BY <1>2, <1>3, <1>6, <1>7, <1>8, PollsUntouched DEF TypeOK

LEMMA CreateStep ==
    ASSUME GovInv, NEW u \in Users, NEW amount \in DepositAmounts,
           NEW msgs \in PollMessages, NEW answered \in VeAnswers,
           create_poll(u, amount, msgs, answered)
    PROVE  GovInv'
<1> DEFINE id == state.poll_count + 1
           staked == IF answered THEN ve.total ELSE 0
           new == [creator |-> u, status |-> "in_progress", yes_votes |-> 0, no_votes |-> 0,
                   end_height |-> height + config.voting_period,
                   execute_data |-> msgs, deposit_amount |-> amount,
                   total_balance_at_end_poll |-> None, staked_amount |-> staked]
           novotes == [v \in Users |-> None]
<1>1. amount \in Nat
  BY ConstantsAssumption
<1>2. TypeOK /\ IndexMatchesStatus
  BY DEF GovInv
<1>3. /\ polls' = Added(polls, new)
      /\ poll_indexer' = [poll_indexer EXCEPT !["in_progress"] = @ \cup {id}]
      /\ poll_voter' = Added(poll_voter, novotes)
      /\ ve_at_start' = Added(ve_at_start, ve.user)
      /\ UNCHANGED <<config, bank, height, ve>>
  BY Zenon DEF create_poll
<1>4. state.poll_count \in Nat /\ state.total_deposit \in Nat
  BY <1>2 DEF TypeOK, State
<1>5. state' \in State /\ state'.poll_count = id
  <2> DEFINE deposits == state.total_deposit + amount
  <2>1. state' = [state EXCEPT !.poll_count = id, !.total_deposit = deposits]
    BY Zenon DEF create_poll
  <2>2. id \in Nat /\ deposits \in Nat /\ state \in State
    BY <1>1, <1>2, <1>4 DEF TypeOK
  <2> HIDE DEF id, deposits
  <2> QED
    BY <2>1, <2>2 DEF State
<1>6. glow' \in Nat /\ purse' \in Nat
  BY <1>1, <1>2 DEF create_poll, GlowReceived, TypeOK
<1>7. new \in Poll
  <2>1. staked \in Nat
    BY <1>2 DEF TypeOK
  <2>2. height + config.voting_period \in Nat
    BY <1>2 DEF TypeOK, Config
  <2> QED
    BY <1>1, <2>1, <2>2 DEF Poll, PollStatus
<1> HIDE DEF new
<1>8. /\ polls' \in [1..id -> Poll] /\ polls'[id] = new
      /\ \A i \in 1..state.poll_count : polls'[i] = polls[i]
  <2>1. polls \in [1..state.poll_count -> Poll]
    BY <1>2 DEF TypeOK
  <2> QED
    BY <1>3, <1>4, <1>7, <2>1, AddedEntry DEF Added
<1>9. poll_voter' \in [1..id -> [Users -> VoterInfo \cup {None}]]
  <2>1. novotes \in [Users -> VoterInfo \cup {None}]
    OBVIOUS
  <2>2. poll_voter \in [1..state.poll_count -> [Users -> VoterInfo \cup {None}]]
    BY <1>2 DEF TypeOK
  <2> HIDE DEF novotes
  <2> QED
    BY <1>3, <1>4, <2>1, <2>2, AddedEntry DEF Added
<1>10. ve_at_start' \in [1..id -> [Users -> Nat]]
  <2>1. ve.user \in [Users -> Nat]
    BY <1>2 DEF TypeOK
  <2>2. ve_at_start \in [1..state.poll_count -> [Users -> Nat]]
    BY <1>2 DEF TypeOK
  <2> QED
    BY <1>3, <1>4, <2>1, <2>2, AddedEntry DEF Added
<1>11. poll_indexer' \in [PollStatus -> SUBSET (1..id)]
  <2>1. \A s \in PollStatus : poll_indexer[s] \subseteq 1..id
    BY <1>2, <1>4 DEF TypeOK
  <2>2. poll_indexer \in [PollStatus -> SUBSET (1..id)] /\ id \in 1..id
    BY <1>2, <1>4, <2>1 DEF TypeOK
  <2> QED
    BY <1>3, <2>2
<1>12. TypeOK'
  BY <1>2, <1>3, <1>5, <1>6, <1>8, <1>9, <1>10, <1>11 DEF TypeOK
<1>13. ASSUME NEW s \in PollStatus
       PROVE  poll_indexer'[s] = {p \in 1..id : polls'[p].status = s}
  <2>1. poll_indexer[s] = {p \in 1..state.poll_count : polls[p].status = s}
    BY <1>2 DEF IndexMatchesStatus, PollIds
  <2>2. new.status = "in_progress"
    BY DEF new
  <2>3. 1..id = 1..state.poll_count \cup {id} /\ id \notin 1..state.poll_count
    BY <1>4
  <2>4. poll_indexer'[s] = IF s = "in_progress" THEN poll_indexer[s] \cup {id}
                           ELSE poll_indexer[s]
    BY <1>2, <1>3 DEF TypeOK
  <2> HIDE DEF id
  <2> QED
    BY <1>8, <2>1, <2>2, <2>3, <2>4
<1>14. IndexMatchesStatus'
  BY <1>5, <1>13 DEF IndexMatchesStatus, PollIds
<1> QED
  BY <1>12, <1>14 DEF GovInv

\* A step that changes one poll, and moves it in the index when it changes
\* its status.
LEMMA PollChanged ==
    ASSUME GovInv, NEW p \in PollIds, polls'[p] \in Poll,
           polls' = [polls EXCEPT ![p] = polls'[p]],
           poll_indexer' = IF polls'[p].status = polls[p].status THEN poll_indexer
                           ELSE Reindexed(p, polls[p].status, polls'[p].status),
           UNCHANGED <<bank, height, ve, ve_at_start, purse>>,
           config' \in Config, state' \in State, state'.poll_count = state.poll_count,
           poll_voter' \in [PollIds -> [Users -> VoterInfo \cup {None}]], glow' \in Nat
    PROVE  GovInv'
<1> DEFINE new == polls'[p]
<1>1. TypeOK /\ IndexMatchesStatus
  BY DEF GovInv
<1>2. polls' \in [PollIds -> Poll] /\ PollIds' = PollIds
  BY <1>1 DEF TypeOK, PollIds
<1>3. polls[p].status \in PollStatus /\ new.status \in PollStatus
  BY <1>1 DEF TypeOK, PollIds, Poll
<1>4. poll_indexer \in [PollStatus -> SUBSET PollIds]
  BY <1>1 DEF TypeOK, PollIds
<1>5. poll_indexer' \in [PollStatus -> SUBSET PollIds]
  BY <1>3, <1>4 DEF Reindexed
<1>6. TypeOK'
  BY <1>1, <1>2, <1>5 DEF TypeOK, PollIds
<1>7. ASSUME NEW s \in PollStatus
      PROVE  poll_indexer'[s] = {q \in PollIds : polls'[q].status = s}
  <2>1. poll_indexer[s] = {q \in PollIds : polls[q].status = s}
    BY <1>1 DEF IndexMatchesStatus
  <2>2. \A q \in PollIds : polls'[q] = IF q = p THEN new ELSE polls[q]
    BY <1>1 DEF TypeOK, PollIds
  <2>3. CASE new.status = polls[p].status
    BY <2>1, <2>2, <2>3
  <2>4. CASE new.status # polls[p].status
    <3>1. poll_indexer'[s] = IF s = new.status THEN poll_indexer[s] \cup {p}
                             ELSE poll_indexer[s] \ {p}
      BY <1>3, <1>4, <2>1, <2>4 DEF Reindexed
    <3> QED
      BY <2>1, <2>2, <2>4, <3>1
  <2> QED
    BY <2>3, <2>4
<1>8. IndexMatchesStatus'
  BY <1>2, <1>7 DEF IndexMatchesStatus
<1> QED
  BY <1>6, <1>8 DEF GovInv

LEMMA VoteStep ==
    ASSUME GovInv, NEW u \in Users, NEW p \in PollIds, NEW vote \in VoteOption,
           NEW answered \in VeAnswers, cast_vote(u, p, vote, answered)
    PROVE  GovInv'
<1> DEFINE amount == VotingBalance(p, u, answered)
<1>1. TypeOK
  BY DEF GovInv
<1>2. /\ polls' = IF vote = "yes" THEN [polls EXCEPT ![p].yes_votes = @ + amount]
                                  ELSE [polls EXCEPT ![p].no_votes = @ + amount]
      /\ poll_voter' = [poll_voter EXCEPT ![p][u] = [vote |-> vote, balance |-> amount]]
      /\ UNCHANGED <<config, state, poll_indexer, bank, height, ve, ve_at_start, glow, purse>>
  BY ZenonT(30) DEF cast_vote
<1>3. amount \in Nat
  BY <1>1 DEF VotingBalance, TypeOK, PollIds
<1> HIDE DEF amount
<1>4. polls \in [PollIds -> Poll] /\ polls[p] \in Poll
  BY <1>1 DEF TypeOK, PollIds
<1>5. polls[p].yes_votes + amount \in Nat /\ polls[p].no_votes + amount \in Nat
  BY <1>3, <1>4 DEF Poll
<1>6. polls'[p] \in Poll /\ polls'[p].status = polls[p].status
  BY <1>2, <1>4, <1>5 DEF Poll
<1>7. polls' = [polls EXCEPT ![p] = polls'[p]]
  BY <1>2, <1>4
<1>8. poll_voter' \in [PollIds -> [Users -> VoterInfo \cup {None}]]
  <2>1. [vote |-> vote, balance |-> amount] \in VoterInfo
    BY <1>3 DEF VoterInfo
  <2>2. poll_voter \in [PollIds -> [Users -> VoterInfo \cup {None}]]
    BY <1>1 DEF TypeOK, PollIds
  <2> QED
    BY <1>2, <2>1, <2>2
<1>9. config' \in Config /\ state' \in State /\ glow' \in Nat
         /\ state'.poll_count = state.poll_count
  BY <1>1, <1>2 DEF TypeOK
<1> QED
  BY <1>2, <1>6, <1>7, <1>8, <1>9, PollChanged

LEMMA EndStep ==
    ASSUME GovInv, NEW p \in PollIds, end_poll(p)
    PROVE  GovInv'
<1> DEFINE status == IF QuorumReached(p) /\ ThresholdReached(p) THEN "passed" ELSE "rejected"
<1>1. TypeOK
  BY DEF GovInv
<1>2. /\ polls[p].status = "in_progress"
      /\ polls[p].deposit_amount <= state.total_deposit
      /\ state' = [state EXCEPT !.total_deposit = DepositsAfter(p)]
      /\ poll_indexer' = Reindexed(p, "in_progress", status)
      /\ polls' = [polls EXCEPT ![p].status = status,
                                ![p].total_balance_at_end_poll = polls[p].staked_amount]
      /\ UNCHANGED <<config, poll_voter, bank, height, ve, ve_at_start, purse>>
  BY Zenon DEF end_poll, MayEnd
<1>3. status \in {"passed", "rejected"}
  OBVIOUS
<1> HIDE DEF status
<1>4. polls \in [PollIds -> Poll] /\ polls[p] \in Poll
  BY <1>1 DEF TypeOK, PollIds
<1>5. polls[p].deposit_amount \in Nat /\ polls[p].staked_amount \in Nat
  BY <1>4 DEF Poll
<1>6. state' \in State /\ state'.poll_count = state.poll_count
  <2>1. DepositsAfter(p) \in Nat
    BY <1>1, <1>2, <1>5, SMTT(30) DEF DepositsAfter, TypeOK, State
  <2> QED
    BY <1>1, <1>2, <2>1 DEF TypeOK, State
<1>7. glow' \in Nat
  <2>1. glow' = glow \/ GlowSent(polls[p].deposit_amount)
    BY Zenon DEF end_poll, MayEnd
  <2> QED
    BY <1>1, <1>5, <2>1 DEF GlowSent, TypeOK
<1>8. polls'[p] \in Poll /\ polls'[p].status = status
  BY <1>2, <1>3, <1>4, <1>5 DEF Poll, PollStatus
<1>9. polls' = [polls EXCEPT ![p] = polls'[p]]
  BY <1>2, <1>4
<1>10. poll_indexer' = IF polls'[p].status = polls[p].status THEN poll_indexer
                       ELSE Reindexed(p, polls[p].status, polls'[p].status)
  BY <1>2, <1>3, <1>8
<1>11. poll_voter' \in [PollIds -> [Users -> VoterInfo \cup {None}]] /\ config' \in Config
  BY <1>1, <1>2 DEF TypeOK, PollIds
<1> QED
  BY <1>2, <1>6, <1>7, <1>8, <1>9, <1>10, <1>11, PollChanged

LEMMA ExecuteStep ==
    ASSUME GovInv, NEW p \in PollIds, execute_poll(p)
    PROVE  GovInv'
<1> DEFINE msgs == polls[p].execute_data
<1>1. TypeOK
  BY DEF GovInv
<1>2. /\ polls[p].status = "passed" /\ msgs # None
      /\ config' = ConfigAfter(msgs, DOMAIN msgs)
      /\ poll_indexer' = Reindexed(p, "passed", "executed")
      /\ polls' = [polls EXCEPT ![p].status = "executed"]
      /\ Spent(msgs) \in 0..glow /\ glow' = glow - Spent(msgs)
      /\ UNCHANGED <<state, poll_voter, bank, height, ve, ve_at_start, purse>>
  BY Zenon DEF execute_poll
<1>3. polls \in [PollIds -> Poll] /\ polls[p] \in Poll
  BY <1>1 DEF TypeOK, PollIds
<1>4. config' \in Config
  <2>1. msgs \in Seq(PollExecuteMsg)
    BY <1>2, <1>3, ConstantsAssumption DEF Poll
  <2> QED
    BY <1>1, <1>2, <2>1, ConfigAfterType DEF TypeOK
<1>5. polls'[p] \in Poll /\ polls'[p].status = "executed"
  BY <1>2, <1>3 DEF Poll, PollStatus
<1>6. polls' = [polls EXCEPT ![p] = polls'[p]]
  BY <1>2, <1>3
<1>7. poll_indexer' = IF polls'[p].status = polls[p].status THEN poll_indexer
                      ELSE Reindexed(p, polls[p].status, polls'[p].status)
  BY <1>2, <1>5
<1>8. /\ poll_voter' \in [PollIds -> [Users -> VoterInfo \cup {None}]]
      /\ state' \in State /\ state'.poll_count = state.poll_count /\ glow' \in Nat
  BY <1>1, <1>2 DEF TypeOK, PollIds
<1> QED
  BY <1>2, <1>4, <1>5, <1>6, <1>7, <1>8, PollChanged

LEMMA ExpireStep ==
    ASSUME GovInv, NEW p \in PollIds, expire_poll(p)
    PROVE  GovInv'
<1>1. TypeOK
  BY DEF GovInv
<1>2. /\ polls[p].status = "passed"
      /\ poll_indexer' = Reindexed(p, "passed", "expired")
      /\ polls' = [polls EXCEPT ![p].status = "expired"]
      /\ UNCHANGED <<config, state, poll_voter, bank, height, ve, ve_at_start, glow, purse>>
  BY Zenon DEF expire_poll, MayExpire, IndexAfterExpiry
<1>3. polls \in [PollIds -> Poll] /\ polls[p] \in Poll
  BY <1>1 DEF TypeOK, PollIds
<1>4. polls'[p] \in Poll /\ polls'[p].status = "expired"
  BY <1>2, <1>3 DEF Poll, PollStatus
<1>5. polls' = [polls EXCEPT ![p] = polls'[p]]
  BY <1>2, <1>3
<1>6. poll_indexer' = IF polls'[p].status = polls[p].status THEN poll_indexer
                      ELSE Reindexed(p, polls[p].status, polls'[p].status)
  BY <1>2, <1>4
<1>7. /\ poll_voter' \in [PollIds -> [Users -> VoterInfo \cup {None}]] /\ config' \in Config
      /\ state' \in State /\ state'.poll_count = state.poll_count /\ glow' \in Nat
  BY <1>1, <1>2 DEF TypeOK, PollIds
<1> QED
  BY <1>2, <1>4, <1>5, <1>6, <1>7, PollChanged

LEMMA NextStep == GovInv /\ [Next]_vars => GovInv'
<1> SUFFICES ASSUME GovInv, [Next]_vars PROVE GovInv'
  OBVIOUS
<1>1. TypeOK
  BY DEF GovInv
<1>2. ASSUME NEW a \in Users \cup {Creator}, NEW msg \in ConfigUpdates, update_config(a, msg)
      PROVE  GovInv'
  <2>1. config' \in Config
    BY <1>1, <1>2, UpdatedType, ConstantsAssumption DEF update_config, TypeOK
  <2> QED
    BY <1>1, <1>2, <2>1, PollsUntouched DEF update_config, TypeOK
<1>3. CASE register_contracts
  <2>1. config' \in Config
    BY <1>1, <1>3 DEF register_contracts, TypeOK, Config
  <2> QED
    BY <1>1, <1>3, <2>1, PollsUntouched DEF register_contracts, TypeOK
<1>4. ASSUME NEW bought \in Sweeps, sweep(bought)
      PROVE  GovInv'
  <2>1. bought \in Nat
    BY ConstantsAssumption
  <2>2. glow' \in Nat /\ purse' \in Nat
    BY <1>1, <1>4, <2>1 DEF sweep, GlowReceived, TypeOK
  <2> QED
    BY <1>1, <1>4, <2>2, PollsUntouched DEF sweep, storage, TypeOK
<1>5. CASE NextBlock
  <2>1. ve' \in [user : [Users -> Nat], total : Nat] /\ height' \in Nat
    BY <1>1, <1>5, VeAssumption DEF NextBlock, TypeOK
  <2> QED
    BY <1>1, <1>5, <2>1, PollsUntouched DEF NextBlock, storage, TypeOK
<1>6. CASE UNCHANGED vars
  BY <1>1, <1>6, PollsUntouched DEF vars, storage, TypeOK
<1> QED
  BY <1>2, <1>3, <1>4, <1>5, <1>6, StakeStep, WithdrawStep, CreateStep, VoteStep,
     EndStep, ExecuteStep, ExpireStep DEF Next

-----------------------------------------------------------------------------
(* The theorems.                                                           *)

\* In every reachable state the types hold and the index of the polls is
\* exact.
THEOREM GovInvariant == Spec => []GovInv
  BY InitGov, NextStep, PTL DEF Spec

\* Every field of the contract's storage keeps its type: no transaction of
\* instantiate or execute makes a balance, share, deposit or tally negative
\* or writes a poll that is not one.
THEOREM GovTypeCorrect == Spec => []TypeOK
<1>1. GovInv => TypeOK
  BY DEF GovInv
<1> QED
  BY <1>1, GovInvariant, PTL

\* A poll is always listed under its own status and nowhere else, whatever
\* create_poll, end_poll, execute_poll and expire_poll do to other polls.
THEOREM PollsIndexed == Spec => []IndexMatchesStatus
<1>1. GovInv => IndexMatchesStatus
  BY DEF GovInv
<1> QED
  BY <1>1, GovInvariant, PTL

DecisionKept(p) ==
    /\ polls'[p].status # polls[p].status
          => polls'[p].status \in Following(polls[p].status)
    /\ polls[p].status # "in_progress"
          => /\ [polls'[p] EXCEPT !.status = polls[p].status] = polls[p]
             /\ poll_voter'[p] = poll_voter[p]

LEMMA SamePoll ==
    ASSUME GovInv, NEW p \in PollIds, polls'[p] = polls[p], poll_voter'[p] = poll_voter[p]
    PROVE  DecisionKept(p)
<1>1. polls[p] \in Poll
  BY DEF GovInv, TypeOK, PollIds
<1>2. [polls[p] EXCEPT !.status = polls[p].status] = polls[p]
  BY <1>1 DEF Poll
<1> QED
  BY <1>2 DEF DecisionKept

LEMMA DecisionStep ==
    ASSUME GovInv, [Next]_vars, NEW p \in PollIds
    PROVE  DecisionKept(p)
<1>1. polls \in [PollIds -> Poll] /\ polls[p] \in Poll
  BY DEF GovInv, TypeOK, PollIds
<1>2. CASE UNCHANGED <<polls, poll_voter>>
  BY <1>2, SamePoll
<1>3. ASSUME NEW u, NEW amount, NEW msgs, NEW answered, create_poll(u, amount, msgs, answered)
      PROVE  DecisionKept(p)
  <2>1. state.poll_count \in Nat
    BY DEF GovInv, TypeOK, State
  <2>2. p \in 1..state.poll_count /\ p \in 1..state.poll_count + 1 /\ p # state.poll_count + 1
    BY <2>1 DEF PollIds
  <2>3. polls'[p] = polls[p]
    BY <1>3, <2>2 DEF create_poll, Added
  <2>4. poll_voter'[p] = poll_voter[p]
    BY <1>3, <2>2 DEF create_poll, Added
  <2> QED
    BY <2>3, <2>4, SamePoll
<1>4. ASSUME NEW u \in Users, NEW q \in PollIds, NEW vote, NEW answered,
             cast_vote(u, q, vote, answered)
      PROVE  DecisionKept(p)
  <2> DEFINE amount == VotingBalance(q, u, answered)
  <2>1. /\ polls[q].status = "in_progress"
        /\ polls' = IF vote = "yes" THEN [polls EXCEPT ![q].yes_votes = @ + amount]
                                    ELSE [polls EXCEPT ![q].no_votes = @ + amount]
        /\ poll_voter' = [poll_voter EXCEPT ![q][u] = [vote |-> vote, balance |-> amount]]
    BY <1>4, Zenon DEF cast_vote, VoteAccepted
  <2> HIDE DEF amount
  <2>2. CASE p = q
    <3>1. polls'[p].status = polls[p].status
      BY <1>1, <2>1, <2>2 DEF Poll
    <3> QED
      BY <2>1, <2>2, <3>1 DEF DecisionKept
  <2>3. CASE p # q
    <3>1. poll_voter'[p] = poll_voter[p]
      BY <2>1, <2>3 DEF GovInv, TypeOK, PollIds
    <3> QED
      BY <1>1, <2>1, <2>3, <3>1, SamePoll
  <2> QED
    BY <2>2, <2>3
<1>5. ASSUME NEW q \in PollIds, end_poll(q)
      PROVE  DecisionKept(p)
  <2> DEFINE status == IF QuorumReached(q) /\ ThresholdReached(q) THEN "passed" ELSE "rejected"
  <2>1. /\ polls[q].status = "in_progress" /\ UNCHANGED poll_voter
        /\ polls' = [polls EXCEPT ![q].status = status,
                                  ![q].total_balance_at_end_poll = polls[q].staked_amount]
    BY <1>5, Zenon DEF end_poll, MayEnd
  <2>2. status \in {"passed", "rejected"}
    OBVIOUS
  <2> HIDE DEF status
  <2>3. CASE p = q
    <3>1. polls'[p].status = status
      BY <1>1, <2>1, <2>3 DEF Poll
    <3> QED
      BY <2>1, <2>2, <2>3, <3>1 DEF DecisionKept, Following
  <2>4. CASE p # q
    BY <1>1, <2>1, <2>4, SamePoll
  <2> QED
    BY <2>3, <2>4
<1>6. ASSUME NEW q \in PollIds, execute_poll(q) \/ expire_poll(q)
      PROVE  DecisionKept(p)
  <2>1. PICK status \in {"executed", "expired"} :
           /\ polls[q].status = "passed" /\ UNCHANGED poll_voter
           /\ polls' = [polls EXCEPT ![q].status = status]
    BY <1>6, Zenon DEF execute_poll, expire_poll, MayExpire
  <2>2. CASE p = q
    <3>1. polls'[p] = [polls[p] EXCEPT !.status = status]
      BY <1>1, <2>1, <2>2
    <3>2. polls'[p].status = status /\ [polls'[p] EXCEPT !.status = polls[p].status] = polls[p]
      BY <1>1, <3>1 DEF Poll
    <3> QED
      BY <2>1, <2>2, <3>2 DEF DecisionKept, Following
  <2>3. CASE p # q
    BY <1>1, <2>1, <2>3, SamePoll
  <2> QED
    BY <2>2, <2>3
<1>7. CASE UNCHANGED vars
  BY <1>2, <1>7 DEF vars, storage
<1>8. ASSUME \/ \E u \in Users, amount \in StakeAmounts : stake_voting_tokens(u, amount)
             \/ \E u \in Users, amount \in WithdrawAmounts : withdraw_voting_tokens(u, amount)
             \/ \E a \in Users \cup {Creator}, msg \in ConfigUpdates : update_config(a, msg)
             \/ register_contracts
             \/ \E bought \in Sweeps : sweep(bought)
             \/ NextBlock
      PROVE  DecisionKept(p)
  <2>1. UNCHANGED <<polls, poll_voter>>
    BY <1>8, Zenon DEF stake_voting_tokens, withdraw_voting_tokens, update_config,
       register_contracts, sweep, NextBlock, storage
  <2> QED
    BY <1>2, <2>1
<1> QED
  BY <1>3, <1>4, <1>5, <1>6, <1>7, <1>8 DEF Next

\* A poll is decided once, by end_poll, and settled at most once, by
\* execute_poll or expire_poll; after end_poll neither its tally nor its
\* votes change, although cast_vote is still open at the height end_height.
THEOREM DecisionsFinal == Spec => DecisionsAreFinal
<1>1. GovInv /\ [Next]_vars
         => [\A p \in PollIds :
                /\ polls'[p].status # polls[p].status
                      => polls'[p].status \in Following(polls[p].status)
                /\ polls[p].status # "in_progress"
                      => /\ [polls'[p] EXCEPT !.status = polls[p].status] = polls[p]
                         /\ poll_voter'[p] = poll_voter[p]]_vars
  <2>1. GovInv /\ [Next]_vars => \A p \in PollIds : DecisionKept(p)
    BY DecisionStep
  <2> QED
    BY <2>1, Zenon DEF DecisionKept
<1> QED
  BY <1>1, GovInvariant, PTL DEF Spec, DecisionsAreFinal

-----------------------------------------------------------------------------

\* A withdrawal that names an amount leaves the others' part of the stakes but
\* for one share: the shares it burns are rounded down.
LEMMA NamedTakesOneShare ==
    ASSUME NEW a \in Nat, NEW B \in Nat \ {0}, NEW S \in Nat \ {0}, NEW share \in Nat,
           share = LET m == multiply_ratio(a, S, B) IN IF m = 0 THEN 1 ELSE m
    PROVE  B * (S - share - 1) < (B - a) * S
<1> DEFINE m == (a * S) \div B
<1>1. m \in Nat /\ a * S < B * m + B
  BY MulNat, DivBounds
<1>2. share = IF m = 0 THEN 1 ELSE m
  BY DEF multiply_ratio
<1> HIDE DEF m
<1>3. /\ B * m \in Nat /\ B * S \in Nat /\ a * S \in Nat
      /\ B * (S - m - 1) = B * S - B * m - B
      /\ (B - a) * S = B * S - a * S
  BY <1>1, MulNat
<1>4. B * (S - m - 1) < (B - a) * S
  BY <1>1, <1>3
<1>5. CASE share = m
  BY <1>4, <1>5
<1>6. CASE m = 0 /\ share = 1
  <2>1. B * (S - share - 1) = B * S - B - B /\ B * m = 0
    BY <1>6
  <2> QED
    BY <1>3, <1>4, <2>1
<1> QED
  BY <1>2, <1>5, <1>6

\* The amounts of a withdrawal that names one.
LEMMA NamedStep ==
    ASSUME GovInv, NEW u \in Users, NEW amount \in WithdrawAmounts \ {None},
           withdraw_voting_tokens(u, amount)
    PROVE  /\ amount \in Nat /\ StakedGlow \in Nat \ {0} /\ state.total_share \in Nat \ {0}
           /\ StakedGlow' = StakedGlow - amount
           /\ state'.total_share \in Nat
           /\ StakedGlow * (state'.total_share - 1) < StakedGlow' * state.total_share
<1> DEFINE share == WithdrawnShare(u, amount)
           left == state.total_share - share
<1>1. /\ glow \in Nat /\ state \in State /\ state.total_deposit \in Nat
      /\ state.total_share \in Nat /\ bank \in [Users -> Nat]
  BY DEF GovInv, TypeOK, State
<1>2. amount \in Nat /\ amount # None
  BY ConstantsAssumption
<1>3. /\ share <= bank[u] /\ share <= state.total_share /\ state.total_share # 0
      /\ glow > state.total_deposit
      /\ state' = [state EXCEPT !.total_share = left]
      /\ glow' = glow - amount
  BY <1>2, Zenon DEF withdraw_voting_tokens, GlowSent
<1>4. StakedGlow \in Nat \ {0} /\ TotalBalance = StakedGlow
  BY <1>1, <1>3 DEF StakedGlow, TotalBalance
<1>5. share = LET m == multiply_ratio(amount, state.total_share, StakedGlow)
              IN IF m = 0 THEN 1 ELSE m
  BY <1>2, <1>4 DEF WithdrawnShare
<1>6. multiply_ratio(amount, state.total_share, StakedGlow) \in Nat
  BY <1>1, <1>2, <1>4, RatioType
<1> HIDE DEF share
<1>7. share \in Nat
  BY <1>5, <1>6
<1>8. state'.total_share = state.total_share - share /\ state'.total_deposit = state.total_deposit
  <2> HIDE DEF left
  <2>1. state'.total_share = left /\ state'.total_deposit = state.total_deposit
    BY <1>1, <1>3 DEF State
  <2> QED
    BY <2>1 DEF left
<1>9. StakedGlow' = StakedGlow - amount
  BY <1>1, <1>2, <1>3, <1>8 DEF StakedGlow
<1>10. StakedGlow * (state.total_share - share - 1)
          < (StakedGlow - amount) * state.total_share
  BY <1>1, <1>2, <1>3, <1>4, <1>5, <1>7, NamedTakesOneShare
<1> QED
  BY <1>1, <1>2, <1>3, <1>4, <1>7, <1>8, <1>9, <1>10

\* What a step may do to the deposits.
DepositsSafe ==
    \/ StakedGlow' >= 0
    \/ StakedGlow' >= StakedGlow
    \/ SpendingPoll
    \/ NamedWithdrawal /\ -StakedGlow' * state.total_share < StakedGlow

LEMMA DepositsStep ==
    ASSUME GovInv, [Next]_vars
    PROVE  DepositsSafe
<1>1. /\ glow \in Nat /\ state \in State /\ state.total_deposit \in Nat
      /\ state.total_share \in Nat /\ bank \in [Users -> Nat]
  BY DEF GovInv, TypeOK, State
<1>2. ASSUME NEW u \in Users, NEW amount \in StakeAmounts, stake_voting_tokens(u, amount)
      PROVE  DepositsSafe
  <2> DEFINE shares == state.total_share + SharesFor(amount)
  <2>1. state' = [state EXCEPT !.total_share = shares] /\ GlowReceived(amount)
    BY <1>2, Zenon DEF stake_voting_tokens
  <2> HIDE DEF shares
  <2>2. state'.total_deposit = state.total_deposit
    BY <1>1, <2>1 DEF State
  <2>3. StakedGlow' >= StakedGlow
    BY <1>1, <2>1, <2>2, ConstantsAssumption DEF GlowReceived, StakedGlow
  <2> QED
    BY <2>3 DEF DepositsSafe
<1>3. ASSUME NEW u \in Users, withdraw_voting_tokens(u, None)
      PROVE  DepositsSafe
  <2> DEFINE left == state.total_share - bank[u]
             sent == multiply_ratio(bank[u], TotalBalance, state.total_share)
  <2>1. WithdrawnShare(u, None) = bank[u]
    BY DEF WithdrawnShare
  <2>2. /\ bank[u] <= state.total_share /\ state.total_share # 0
        /\ glow > state.total_deposit
        /\ state' = [state EXCEPT !.total_share = left]
        /\ GlowSent(sent)
    BY <1>3, <2>1, Zenon DEF withdraw_voting_tokens
  <2>3. sent \in Nat /\ sent <= glow - state.total_deposit
    <3>1. TotalBalance \in Nat /\ bank[u] \in Nat /\ state.total_share \in Nat \ {0}
      BY <1>1, <2>2 DEF TotalBalance
    <3> QED
      BY <2>2, <3>1, PartOfWhole DEF TotalBalance
  <2> HIDE DEF left, sent
  <2>4. state'.total_deposit = state.total_deposit
    BY <1>1, <2>2 DEF State
  <2>5. StakedGlow' >= 0
    BY <1>1, <2>2, <2>3, <2>4 DEF GlowSent, StakedGlow
  <2> QED
    BY <2>5 DEF DepositsSafe
<1>4. ASSUME NEW u \in Users, NEW amount \in WithdrawAmounts \ {None},
             withdraw_voting_tokens(u, amount)
      PROVE  DepositsSafe
  <2> DEFINE B == StakedGlow
             C == StakedGlow'
             S == state.total_share
             T == state'.total_share
  <2>1. /\ amount \in Nat /\ B \in Nat \ {0} /\ S \in Nat \ {0} /\ C = B - amount
        /\ T \in Nat /\ B * (T - 1) < C * S
    BY <1>4, NamedStep
  <2> HIDE DEF B, C, S, T
  <2>2. -C * S < B
    <3>1. B * T \in Nat /\ B * (T - 1) = B * T - B
      BY <2>1, MulNat
    <3>2. C * S \in Int /\ -C * S = -(C * S)
      BY <2>1
    <3> QED
      BY <2>1, <3>1, <3>2
  <2>3. NamedWithdrawal
    BY <1>4 DEF NamedWithdrawal
  <2> QED
    BY <2>2, <2>3 DEF DepositsSafe, B, C, S
<1>5. ASSUME NEW u \in Users, NEW amount \in DepositAmounts, NEW msgs, NEW answered,
             create_poll(u, amount, msgs, answered)
      PROVE  DepositsSafe
  <2> DEFINE id == state.poll_count + 1
             deposits == state.total_deposit + amount
  <2>1. state' = [state EXCEPT !.poll_count = id, !.total_deposit = deposits]
           /\ GlowReceived(amount)
    BY <1>5, Zenon DEF create_poll
  <2>2. amount \in Nat
    BY ConstantsAssumption
  <2>3. state'.total_deposit = state.total_deposit + amount
    <3> HIDE DEF id, deposits
    <3>1. state'.total_deposit = deposits
      BY <1>1, <2>1 DEF State
    <3> QED
      BY <3>1 DEF deposits
  <2>4. StakedGlow' >= StakedGlow
    BY <1>1, <2>1, <2>2, <2>3 DEF GlowReceived, StakedGlow
  <2> QED
    BY <2>4 DEF DepositsSafe
<1>6. ASSUME NEW p \in PollIds, end_poll(p)
      PROVE  DepositsSafe
  <2> DEFINE deposit == polls[p].deposit_amount
  <2>1. state' = [state EXCEPT !.total_deposit = DepositsAfter(p)]
           /\ (glow' = glow \/ GlowSent(deposit))
    BY <1>6, Zenon DEF end_poll, MayEnd
  <2>2. deposit \in Nat
    BY DEF GovInv, TypeOK, PollIds, Poll
  <2>3. state'.total_deposit = DepositsAfter(p)
    BY <1>1, <2>1 DEF State
  <2>4. StakedGlow' >= StakedGlow
    BY <1>1, <2>1, <2>2, <2>3 DEF GlowSent, StakedGlow, DepositsAfter
  <2> QED
    BY <2>4 DEF DepositsSafe
<1>7. ASSUME NEW bought \in Sweeps, sweep(bought)
      PROVE  DepositsSafe
  <2>1. StakedGlow' >= StakedGlow
    BY <1>1, <1>7, ConstantsAssumption DEF sweep, GlowReceived, storage, StakedGlow
  <2> QED
    BY <2>1 DEF DepositsSafe
<1>8. ASSUME UNCHANGED <<state, glow>> PROVE DepositsSafe
  <2>1. StakedGlow' >= StakedGlow
    BY <1>1, <1>8 DEF StakedGlow
  <2> QED
    BY <2>1 DEF DepositsSafe
<1>9. ASSUME \/ \E u \in Users, p \in PollIds, vote \in VoteOption,
                   answered \in VeAnswers : cast_vote(u, p, vote, answered)
             \/ \E p \in PollIds : expire_poll(p)
             \/ \E a \in Users \cup {Creator}, msg \in ConfigUpdates : update_config(a, msg)
             \/ register_contracts
             \/ NextBlock
             \/ UNCHANGED vars
      PROVE  DepositsSafe
  <2>1. UNCHANGED <<state, glow>>
    BY <1>9, Zenon DEF cast_vote, expire_poll, update_config,
       register_contracts, NextBlock, storage, vars
  <2> QED
    BY <1>8, <2>1
<1>10. ASSUME NEW p \in PollIds, execute_poll(p)
       PROVE  DepositsSafe
  <2>1. /\ UNCHANGED state
        /\ glow' = glow - Spent(polls[p].execute_data)
        /\ Spent(polls[p].execute_data) \in 0..glow
    BY <1>10, Zenon DEF execute_poll
  <2>2. glow' = glow \/ glow' < glow
    BY <1>1, <2>1
  <2>3. glow' < glow => SpendingPoll
    BY <1>10 DEF SpendingPoll
  <2> QED
    BY <1>8, <2>1, <2>2, <2>3 DEF DepositsSafe
<1>11. ASSUME NEW u \in Users, NEW amount \in WithdrawAmounts, withdraw_voting_tokens(u, amount)
       PROVE  DepositsSafe
  BY <1>3, <1>4, <1>11
<1> QED
  BY <1>2, <1>5, <1>6, <1>7, <1>9, <1>10, <1>11 DEF Next

\* Whatever stakers and polls do, end_poll finds the deposits it pays back:
\* nothing takes from them but a poll that spends more than is staked, and a
\* withdrawal of an explicit amount, whose rounding in withdraw_voting_tokens
\* takes less than the worth of one share.
THEOREM DepositsStayCovered == Spec => DepositsCovered
<1>1. GovInv /\ [Next]_vars
      => [\/ StakedGlow' >= 0
          \/ StakedGlow' >= StakedGlow
          \/ SpendingPoll
          \/ NamedWithdrawal /\ -StakedGlow' * state.total_share < StakedGlow]_vars
  BY DepositsStep, Zenon DEF DepositsSafe
<1> QED
  BY <1>1, GovInvariant, PTL DEF Spec, DepositsCovered

-----------------------------------------------------------------------------
(* The books: tallies, deposits and shares are sums.                       *)

\* The votes of poll p, and what they are measured against, stay as they
\* are.
VotesKept(p) ==
    /\ poll_voter'[p] = poll_voter[p]
    /\ ve_at_start'[p] = ve_at_start[p]
    /\ polls'[p].yes_votes = polls[p].yes_votes
    /\ polls'[p].no_votes = polls[p].no_votes
    /\ polls'[p].staked_amount = polls[p].staked_amount

\* Poll p is new: nobody has voted, and it is measured against the veGLOW
\* of this block, or against 0 if the query failed.
Opened(p) ==
    /\ p \notin PollIds
    /\ poll_voter'[p] = [v \in Users |-> None]
    /\ ve_at_start'[p] = ve.user
    /\ polls'[p].yes_votes = 0
    /\ polls'[p].no_votes = 0
    /\ \E answered \in VeAnswers :
          polls'[p].staked_amount = IF answered THEN ve.total ELSE 0

\* Only cast_vote changes the votes of a poll that exists.
LEMMA VotesChange ==
    ASSUME GovInv, [Next]_vars, NEW p \in PollIds'
    PROVE  \/ p \in PollIds /\ VotesKept(p)
           \/ Opened(p)
           \/ p \in PollIds /\ \E u \in Users, vote \in VoteOption, answered \in VeAnswers :
                                    cast_vote(u, p, vote, answered)
<1>1. /\ polls \in [PollIds -> Poll] /\ state.poll_count \in Nat
      /\ poll_voter \in [PollIds -> [Users -> VoterInfo \cup {None}]]
      /\ state \in State
  BY DEF GovInv, TypeOK, PollIds, State
<1>2. ASSUME UNCHANGED <<state, poll_voter, ve_at_start, polls>>
      PROVE  p \in PollIds /\ VotesKept(p)
  BY <1>2 DEF PollIds, VotesKept
<1>3. ASSUME NEW u \in Users, NEW amount \in StakeAmounts, stake_voting_tokens(u, amount)
      PROVE  p \in PollIds /\ VotesKept(p)
  <2> DEFINE shares == state.total_share + SharesFor(amount)
  <2>1. state' = [state EXCEPT !.total_share = shares]
           /\ UNCHANGED <<poll_voter, ve_at_start, polls>>
    BY <1>3, Zenon DEF stake_voting_tokens
  <2> HIDE DEF shares
  <2>2. state'.poll_count = state.poll_count
    BY <1>1, <2>1 DEF State
  <2> QED
    BY <2>1, <2>2 DEF PollIds, VotesKept
<1>4. ASSUME NEW u \in Users, NEW amount \in WithdrawAmounts, withdraw_voting_tokens(u, amount)
      PROVE  p \in PollIds /\ VotesKept(p)
  <2> DEFINE left == state.total_share - WithdrawnShare(u, amount)
  <2>1. state' = [state EXCEPT !.total_share = left]
           /\ UNCHANGED <<poll_voter, ve_at_start, polls>>
    BY <1>4, Zenon DEF withdraw_voting_tokens
  <2> HIDE DEF left
  <2>2. state'.poll_count = state.poll_count
    BY <1>1, <2>1 DEF State
  <2> QED
    BY <2>1, <2>2 DEF PollIds, VotesKept
<1>5. ASSUME NEW u \in Users, NEW amount \in DepositAmounts, NEW msgs \in PollMessages,
             NEW answered \in VeAnswers, create_poll(u, amount, msgs, answered)
      PROVE  (p \in PollIds /\ VotesKept(p)) \/ Opened(p)
  <2> DEFINE id == state.poll_count + 1
             deposits == state.total_deposit + amount
             staked == IF answered THEN ve.total ELSE 0
             new == [creator |-> u, status |-> "in_progress", yes_votes |-> 0, no_votes |-> 0,
                     end_height |-> height + config.voting_period,
                     execute_data |-> msgs, deposit_amount |-> amount,
                     total_balance_at_end_poll |-> None, staked_amount |-> staked]
             novotes == [v \in Users |-> None]
  <2>1. /\ state' = [state EXCEPT !.poll_count = id, !.total_deposit = deposits]
        /\ polls' = Added(polls, new)
        /\ poll_voter' = Added(poll_voter, novotes)
        /\ ve_at_start' = Added(ve_at_start, ve.user)
    BY <1>5, Zenon DEF create_poll
  <2>2. state'.poll_count = id
    <3> HIDE DEF id, deposits
    <3> QED
      BY <1>1, <2>1 DEF State
  <2>3. p \in 1..state.poll_count + 1
    BY <2>2 DEF PollIds
  <2>4. new.yes_votes = 0 /\ new.no_votes = 0 /\ new.staked_amount = staked
    OBVIOUS
  <2> HIDE DEF new, novotes
  <2>5. CASE p = id
    <3>1. polls'[p] = new /\ poll_voter'[p] = novotes /\ ve_at_start'[p] = ve.user
      BY <1>1, <2>1, <2>3, <2>5 DEF Added
    <3>2. p \notin PollIds
      BY <1>1, <2>5 DEF PollIds
    <3>3. poll_voter'[p] = [v \in Users |-> None]
      BY <3>1 DEF novotes
    <3> QED
      BY <2>4, <3>1, <3>2, <3>3 DEF Opened
  <2>6. CASE p # id
    <3>1. polls'[p] = polls[p] /\ poll_voter'[p] = poll_voter[p]
             /\ ve_at_start'[p] = ve_at_start[p]
      BY <1>1, <2>1, <2>3, <2>6 DEF Added
    <3>2. p \in PollIds
      BY <1>1, <2>3, <2>6 DEF PollIds
    <3> QED
      BY <3>1, <3>2 DEF VotesKept
  <2> QED
    BY <2>5, <2>6
<1>6. ASSUME NEW u \in Users, NEW q \in PollIds, NEW vote \in VoteOption,
             NEW answered \in VeAnswers, cast_vote(u, q, vote, answered)
      PROVE  p \in PollIds /\ (p = q \/ VotesKept(p))
  <2> DEFINE amount == VotingBalance(q, u, answered)
  <2>1. /\ polls' = IF vote = "yes" THEN [polls EXCEPT ![q].yes_votes = @ + amount]
                                    ELSE [polls EXCEPT ![q].no_votes = @ + amount]
        /\ poll_voter' = [poll_voter EXCEPT ![q][u] = [vote |-> vote, balance |-> amount]]
        /\ UNCHANGED <<state, ve_at_start>>
    BY <1>6, Zenon DEF cast_vote
  <2>2. p \in PollIds
    BY <2>1 DEF PollIds
  <2> HIDE DEF amount
  <2> QED
    BY <1>1, <2>1, <2>2 DEF VotesKept
<1>7. ASSUME NEW q \in PollIds, end_poll(q)
      PROVE  p \in PollIds /\ VotesKept(p)
  <2> DEFINE status == IF QuorumReached(q) /\ ThresholdReached(q) THEN "passed" ELSE "rejected"
             deposits == DepositsAfter(q)
  <2>1. /\ polls' = [polls EXCEPT ![q].status = status,
                                  ![q].total_balance_at_end_poll = polls[q].staked_amount]
        /\ state' = [state EXCEPT !.total_deposit = deposits]
        /\ UNCHANGED <<poll_voter, ve_at_start>>
    BY <1>7, Zenon DEF end_poll
  <2> HIDE DEF status, deposits
  <2>2. state'.poll_count = state.poll_count
    BY <1>1, <2>1 DEF State
  <2>3. p \in PollIds
    BY <2>2 DEF PollIds
  <2> QED
    BY <1>1, <2>1, <2>3 DEF VotesKept, Poll
<1>8. ASSUME NEW q \in PollIds, execute_poll(q) \/ expire_poll(q)
      PROVE  p \in PollIds /\ VotesKept(p)
  <2>1. PICK status \in {"executed", "expired"} :
           /\ polls' = [polls EXCEPT ![q].status = status]
           /\ UNCHANGED <<state, poll_voter, ve_at_start>>
    BY <1>8, Zenon DEF execute_poll, expire_poll
  <2>2. p \in PollIds
    BY <2>1 DEF PollIds
  <2> QED
    BY <1>1, <2>1, <2>2 DEF VotesKept, Poll
<1>9. ASSUME \/ \E a \in Users \cup {Creator}, msg \in ConfigUpdates : update_config(a, msg)
             \/ register_contracts
             \/ \E bought \in Sweeps : sweep(bought)
             \/ NextBlock
             \/ UNCHANGED vars
      PROVE  p \in PollIds /\ VotesKept(p)
  <2>1. UNCHANGED <<state, poll_voter, ve_at_start, polls>>
    BY <1>9, Zenon DEF update_config, register_contracts, sweep, NextBlock, storage, vars
  <2> QED
    BY <1>2, <2>1
<1> QED
  BY <1>3, <1>4, <1>5, <1>6, <1>7, <1>8, <1>9 DEF Next

LEMMA CountedForType ==
    ASSUME GovInv, NEW p \in PollIds, NEW vote
    PROVE  CountedFor(p, vote) \in [Users -> Nat]
<1>1. poll_voter[p] \in [Users -> VoterInfo \cup {None}]
  BY DEF GovInv, TypeOK, PollIds
<1> QED
  BY <1>1 DEF CountedFor, VoterInfo

\* A vote enters the sum of its side, and only that one.
LEMMA VoteCounted ==
    ASSUME GovInv, GovInv', NEW u \in Users, NEW p \in PollIds, NEW vote \in VoteOption,
           NEW answered \in VeAnswers, cast_vote(u, p, vote, answered),
           NEW side \in VoteOption
    PROVE  Total(CountedFor(p, side))' =
             Total(CountedFor(p, side)) + IF side = vote THEN VotingBalance(p, u, answered)
                                          ELSE 0
<1> DEFINE amount == VotingBalance(p, u, answered)
           entry == [vote |-> vote, balance |-> amount]
           f == CountedFor(p, side)
           g == CountedFor(p, side)'
<1>1. /\ poll_voter' = [poll_voter EXCEPT ![p][u] = entry]
      /\ poll_voter[p][u] = None /\ UNCHANGED state
  BY Zenon DEF cast_vote, VoteAccepted
<1>2. amount \in Nat
  <2>1. TypeOK
    BY DEF GovInv
  <2> QED
    BY <2>1 DEF VotingBalance, TypeOK, PollIds
<1>3. entry # None /\ entry.vote = vote /\ entry.balance = amount
  BY <1>2, ConstantsAssumption DEF VoterInfo
<1>4. /\ poll_voter'[p][u] = entry
      /\ \A v \in Users \ {u} : poll_voter'[p][v] = poll_voter[p][v]
  BY <1>1 DEF GovInv, TypeOK, PollIds
<1> HIDE DEF entry
<1>5. /\ g[u] = IF side = vote THEN amount ELSE 0
      /\ f[u] = 0
      /\ \A v \in Users \ {u} : g[v] = f[v]
  BY <1>1, <1>3, <1>4 DEF CountedFor
<1>6. f \in [Users -> Nat]
  BY CountedForType
<1>7. g \in [Users -> Nat]
  <2>1. \A v \in Users : g[v] \in Nat
    BY <1>2, <1>5, <1>6
  <2> QED
    BY <2>1, Zenon DEF CountedFor
<1> HIDE DEF f, g, amount
<1>8. Total(g) = Total(f) - f[u] + g[u]
  BY <1>5, <1>6, <1>7, SumUpdate, ConstantsAssumption DEF Total
<1>9. Total(f) \in Int
  BY <1>6, SumInt, ConstantsAssumption DEF Total
<1>10. Total(CountedFor(p, side))' = Total(g)
  BY DEF Total, g
<1> QED
  BY <1>2, <1>5, <1>8, <1>9, <1>10 DEF f, amount

LEMMA TallyStep ==
    ASSUME GovInv, GovInv', TallyIsSumOfVotes, [Next]_vars
    PROVE  TallyIsSumOfVotes'
<1> DEFINE Right(p) == /\ polls[p].yes_votes = Total(CountedFor(p, "yes"))
                       /\ polls[p].no_votes = Total(CountedFor(p, "no"))
<1> SUFFICES ASSUME NEW p \in PollIds' PROVE Right(p)'
  BY DEF TallyIsSumOfVotes
<1>1. p \in PollIds => Right(p)
  BY DEF TallyIsSumOfVotes
<1>2. ASSUME p \in PollIds, VotesKept(p)
      PROVE  Right(p)'
  <2>1. CountedFor(p, "yes")' = CountedFor(p, "yes") /\ CountedFor(p, "no")' = CountedFor(p, "no")
    BY <1>2 DEF VotesKept, CountedFor
  <2>2. /\ Total(CountedFor(p, "yes"))' = Total(CountedFor(p, "yes"))
        /\ Total(CountedFor(p, "no"))' = Total(CountedFor(p, "no"))
    BY <2>1 DEF Total
  <2> QED
    BY <1>1, <1>2, <2>2 DEF VotesKept
<1>3. ASSUME Opened(p)
      PROVE  Right(p)'
  <2>1. \A side \in VoteOption : \A v \in Users : (CountedFor(p, side)')[v] = 0
    BY <1>3 DEF Opened, CountedFor
  <2>2. \A side \in VoteOption : Total(CountedFor(p, side))' = 0
    BY <2>1, SumZero, ConstantsAssumption DEF Total
  <2> QED
    BY <1>3, <2>2 DEF Opened, VoteOption
<1>4. ASSUME p \in PollIds, NEW u \in Users, NEW vote \in VoteOption,
             NEW answered \in VeAnswers, cast_vote(u, p, vote, answered)
      PROVE  Right(p)'
  <2> DEFINE amount == VotingBalance(p, u, answered)
  <2>1. polls' = IF vote = "yes" THEN [polls EXCEPT ![p].yes_votes = @ + amount]
                                 ELSE [polls EXCEPT ![p].no_votes = @ + amount]
    BY <1>4, Zenon DEF cast_vote
  <2>2. /\ Total(CountedFor(p, "yes"))' = Total(CountedFor(p, "yes")) + IF "yes" = vote THEN amount ELSE 0
        /\ Total(CountedFor(p, "no"))' = Total(CountedFor(p, "no")) + IF "no" = vote THEN amount ELSE 0
    BY <1>4, VoteCounted DEF VoteOption
  <2>3. polls \in [PollIds -> Poll] /\ polls[p] \in Poll
    BY <1>4 DEF GovInv, TypeOK, PollIds
  <2>4. polls[p].yes_votes \in Nat /\ polls[p].no_votes \in Nat
    BY <2>3 DEF Poll
  <2> HIDE DEF amount
  <2>5. CASE vote = "yes"
    <3>1. polls'[p].yes_votes = polls[p].yes_votes + amount
             /\ polls'[p].no_votes = polls[p].no_votes
      BY <1>4, <2>1, <2>3, <2>5 DEF Poll
    <3> QED
      BY <1>1, <1>4, <2>2, <2>4, <2>5, <3>1
  <2>6. CASE vote = "no"
    <3>1. polls'[p].no_votes = polls[p].no_votes + amount
             /\ polls'[p].yes_votes = polls[p].yes_votes
      BY <1>4, <2>1, <2>3, <2>6 DEF Poll
    <3> QED
      BY <1>1, <1>4, <2>2, <2>4, <2>6, <3>1
  <2> QED
    BY <2>5, <2>6 DEF VoteOption
<1> QED
  BY <1>2, <1>3, <1>4, VotesChange

\* The tally that end_poll decides on is exactly what the voters are on
\* record with, for every number of polls and voters: no vote is lost,
\* counted twice or counted on the wrong side.
THEOREM TalliesAreSums == Spec => []TallyIsSumOfVotes
<1>1. Init => TallyIsSumOfVotes
  BY DEF Init, TallyIsSumOfVotes, PollIds
<1>2. GovInv /\ GovInv' /\ TallyIsSumOfVotes /\ [Next]_vars => TallyIsSumOfVotes'
  BY TallyStep
<1> QED
  BY <1>1, <1>2, GovInvariant, PTL DEF Spec

-----------------------------------------------------------------------------

\* What a poll is measured against covers what its voters may cast: nobody
\* votes with more veGLOW than at the start of the poll, and together the
\* users had no more than staked_amount then (which is 0 when the query
\* for it failed).
VotesBacked ==
    \A p \in PollIds :
        /\ \A u \in Users : poll_voter[p][u] # None
                               => poll_voter[p][u].balance <= ve_at_start[p][u]
        /\ \/ Total(ve_at_start[p]) <= polls[p].staked_amount
           \/ FALSE \in VeAnswers /\ polls[p].staked_amount = 0

\* The users' veGLOW of this block is within the total of this block.
VeCovers == Total(ve.user) <= ve.total

LEMMA BackedStep ==
    ASSUME GovInv, VotesBacked, VeCovers, [Next]_vars
    PROVE  VotesBacked' /\ VeCovers'
<1>1. VeCovers'
  <2>1. ve' = ve \/ ve' \in VotingBalances
    BY Zenon DEF Next, vars, storage, stake_voting_tokens, withdraw_voting_tokens, create_poll,
       cast_vote, end_poll, execute_poll, expire_poll, update_config, register_contracts,
       sweep, NextBlock
  <2> QED
    BY <2>1, VeAssumption DEF VeCovers, Total
<1> DEFINE Within(p) == \A u \in Users : poll_voter[p][u] # None
                                            => poll_voter[p][u].balance <= ve_at_start[p][u]
           Covered(p) == \/ Total(ve_at_start[p]) <= polls[p].staked_amount
                         \/ FALSE \in VeAnswers /\ polls[p].staked_amount = 0
<1>2. ASSUME NEW p \in PollIds'
      PROVE  Within(p)' /\ Covered(p)'
  <2>1. p \in PollIds => Within(p) /\ Covered(p)
    BY DEF VotesBacked
  <2>2. ASSUME p \in PollIds, VotesKept(p)
        PROVE  Within(p)' /\ Covered(p)'
    BY <2>1, <2>2 DEF VotesKept, Total
  <2>3. ASSUME Opened(p)
        PROVE  Within(p)' /\ Covered(p)'
    <3>1. PICK answered \in VeAnswers :
             polls'[p].staked_amount = IF answered THEN ve.total ELSE 0
      BY <2>3 DEF Opened
    <3>2. Within(p)'
      BY <2>3 DEF Opened
    <3>3. Covered(p)'
      BY <2>3, <3>1, ConstantsAssumption DEF Opened, VeCovers, Total
    <3> QED
      BY <3>2, <3>3
  <2>4. ASSUME p \in PollIds, NEW u \in Users, NEW vote \in VoteOption,
               NEW answered \in VeAnswers, cast_vote(u, p, vote, answered)
        PROVE  Within(p)' /\ Covered(p)'
    <3> DEFINE amount == VotingBalance(p, u, answered)
               entry == [vote |-> vote, balance |-> amount]
    <3>1. /\ polls' = IF vote = "yes" THEN [polls EXCEPT ![p].yes_votes = @ + amount]
                                      ELSE [polls EXCEPT ![p].no_votes = @ + amount]
          /\ poll_voter' = [poll_voter EXCEPT ![p][u] = entry]
          /\ UNCHANGED ve_at_start
      BY <2>4, Zenon DEF cast_vote
    <3>2. polls \in [PollIds -> Poll] /\ ve_at_start[p] \in [Users -> Nat]
             /\ poll_voter \in [PollIds -> [Users -> VoterInfo \cup {None}]]
      BY <2>4 DEF GovInv, TypeOK, PollIds
    <3>3. amount <= ve_at_start[p][u] /\ entry.balance = amount
      BY <3>2 DEF VotingBalance
    <3> HIDE DEF amount, entry
    <3>4. Within(p)'
      BY <2>1, <2>4, <3>1, <3>2, <3>3
    <3>5. polls'[p].staked_amount = polls[p].staked_amount
      BY <2>4, <3>1, <3>2 DEF Poll
    <3> QED
      BY <2>1, <2>4, <3>1, <3>4, <3>5 DEF Total
  <2> QED
    BY <2>2, <2>3, <2>4, VotesChange
<1> QED
  BY <1>1, <1>2 DEF VotesBacked

\* Every user stands on one side at most, so both sides together stay
\* within the users' veGLOW at the start of the poll.
LEMMA TalliedWithinVe ==
    ASSUME GovInv, TallyIsSumOfVotes, VotesBacked, NEW p \in PollIds
    PROVE  Tallied(p) <= Total(ve_at_start[p])
<1> DEFINE yes == CountedFor(p, "yes")
           no == CountedFor(p, "no")
           both == [u \in Users |-> yes[u] + no[u]]
<1>1. yes \in [Users -> Nat] /\ no \in [Users -> Nat] /\ ve_at_start[p] \in [Users -> Nat]
  BY CountedForType DEF GovInv, TypeOK, PollIds
<1>2. \A u \in Users : both[u] <= ve_at_start[p][u]
  <2>1. SUFFICES ASSUME NEW u \in Users PROVE yes[u] + no[u] <= ve_at_start[p][u]
    OBVIOUS
  <2>2. yes[u] = 0 \/ no[u] = 0
    BY DEF CountedFor
  <2>3. yes[u] <= ve_at_start[p][u] /\ no[u] <= ve_at_start[p][u]
    <3>1. poll_voter[p][u] # None => poll_voter[p][u].balance <= ve_at_start[p][u]
      BY DEF VotesBacked
    <3>2. ve_at_start[p][u] \in Nat
      BY <1>1
    <3> QED
      BY <3>1, <3>2 DEF CountedFor
  <2> HIDE DEF yes, no
  <2> QED
    BY <1>1, <2>2, <2>3
<1>3. polls[p].yes_votes = Total(yes) /\ polls[p].no_votes = Total(no)
  BY DEF TallyIsSumOfVotes
<1> HIDE DEF yes, no
<1>4. \A u \in Users : both[u] = yes[u] + no[u] /\ both[u] \in Nat
  BY <1>1
<1>5. Total(both) = Total(yes) + Total(no)
  <2> HIDE DEF both
  <2>1. /\ IsFiniteSet(Users)
        /\ \A u \in Users : yes[u] \in Int
        /\ \A u \in Users : no[u] \in Int
        /\ \A u \in Users : both[u] = yes[u] + no[u]
    BY <1>1, <1>4, ConstantsAssumption
  <2> QED
    BY <2>1, SumPlus DEF Total
<1>6. Total(both) <= Total(ve_at_start[p])
  <2> HIDE DEF both
  <2> QED
    BY <1>1, <1>2, <1>4, SumBelow, ConstantsAssumption DEF Total
<1> QED
  BY <1>3, <1>5, <1>6 DEF Tallied

\* In every reachable state the votes are on record, backed by veGLOW, and
\* the ve contract's answers for this block add up.
LEMMA VotesBackedAlways == Spec => [](VotesBacked /\ VeCovers)
<1>1. Init => VotesBacked /\ VeCovers
  BY VeAssumption DEF Init, VotesBacked, VeCovers, PollIds
<1>2. GovInv /\ VotesBacked /\ VeCovers /\ [Next]_vars => VotesBacked' /\ VeCovers'
  BY BackedStep
<1> QED
  BY <1>1, <1>2, GovInvariant, PTL DEF Spec

\* However locks change until the votes are cast, and whichever queries to the
\* ve contract fail, no poll counts more veGLOW than its users had when it was
\* created, nor more than it is measured against, unless that is zero because
\* the query of create_poll failed: for every number of polls and voters.
THEOREM VotesStayWithinStake == Spec => []VotesWithinStake
<1>1. ASSUME GovInv, TallyIsSumOfVotes, VotesBacked
      PROVE  VotesWithinStake
  <2> SUFFICES ASSUME NEW p \in PollIds
               PROVE  /\ Tallied(p) <= Total(ve_at_start[p])
                      /\ polls[p].staked_amount # 0 => Tallied(p) <= polls[p].staked_amount
    BY DEF VotesWithinStake
  <2>1. ve_at_start[p] \in [Users -> Nat] /\ polls[p] \in Poll
    BY <1>1 DEF GovInv, TypeOK, PollIds
  <2>2. Total(ve_at_start[p]) \in Nat
    BY <2>1, SumNat, ConstantsAssumption DEF Total
  <2>3. polls[p].staked_amount \in Nat /\ Tallied(p) \in Nat
    BY <2>1 DEF Poll, Tallied
  <2>4. polls[p].staked_amount # 0 => Total(ve_at_start[p]) <= polls[p].staked_amount
    BY <1>1 DEF VotesBacked
  <2> QED
    BY <1>1, <2>2, <2>3, <2>4, TalliedWithinVe
<1>2. GovInv /\ TallyIsSumOfVotes /\ VotesBacked => VotesWithinStake
  BY <1>1
<1> QED
  BY <1>2, GovInvariant, TalliesAreSums, VotesBackedAlways, PTL

-----------------------------------------------------------------------------
(* Deposits and shares.                                                    *)

\* The sum that TotalsAreSums speaks of, as a sum on the poll ids.
LEMMA DepositsSum ==
    SumFunction(OpenDeposits) = SumFunctionOnSet(OpenDeposits, PollIds)
<1>1. DOMAIN OpenDeposits = PollIds
  BY DEF OpenDeposits
<1> QED
  BY <1>1, SumOnDomain

LEMMA DepositsSumNext ==
    SumFunction(OpenDeposits)' = SumFunctionOnSet(OpenDeposits', PollIds')
<1>1. DOMAIN (OpenDeposits') = PollIds'
  BY DEF OpenDeposits
<1> QED
  BY <1>1, SumOnDomain

LEMMA PollIdsFinite ==
    ASSUME GovInv
    PROVE  IsFiniteSet(PollIds) /\ OpenDeposits \in [PollIds -> Nat]
<1>1. state.poll_count \in Nat /\ polls \in [PollIds -> Poll]
  BY DEF GovInv, TypeOK, State, PollIds
<1> QED
  BY <1>1, FS_Interval DEF PollIds, OpenDeposits, Poll

LEMMA PollIdsFiniteNext ==
    ASSUME GovInv'
    PROVE  IsFiniteSet(PollIds') /\ OpenDeposits' \in [PollIds' -> Nat]
<1>1. state'.poll_count \in Nat /\ polls' \in [PollIds' -> Poll]
  BY DEF GovInv, TypeOK, State, PollIds
<1> QED
  BY <1>1, FS_Interval DEF PollIds, OpenDeposits, Poll

\* Steps that change neither the deposits, nor which polls are open.
LEMMA DepositsKept ==
    ASSUME GovInv, PollIds' = PollIds, state'.total_deposit = state.total_deposit,
           \A p \in PollIds :
               /\ polls'[p].deposit_amount = polls[p].deposit_amount
               /\ polls'[p].status = "in_progress" <=> polls[p].status = "in_progress",
           state.total_deposit = SumFunction(OpenDeposits)
    PROVE  (state.total_deposit = SumFunction(OpenDeposits))'
<1>1. OpenDeposits' = OpenDeposits
  BY DEF OpenDeposits
<1>2. SumFunction(OpenDeposits)' = SumFunction(OpenDeposits)
  BY <1>1
<1> QED
  BY <1>2

LEMMA DepositMade ==
    ASSUME GovInv, GovInv', state.total_deposit = SumFunction(OpenDeposits),
           NEW u \in Users, NEW amount \in DepositAmounts, NEW msgs \in PollMessages,
           NEW answered \in VeAnswers, create_poll(u, amount, msgs, answered)
    PROVE  (state.total_deposit = SumFunction(OpenDeposits))'
<1> DEFINE id == state.poll_count + 1
           deposits == state.total_deposit + amount
           staked == IF answered THEN ve.total ELSE 0
           new == [creator |-> u, status |-> "in_progress", yes_votes |-> 0, no_votes |-> 0,
                   end_height |-> height + config.voting_period,
                   execute_data |-> msgs, deposit_amount |-> amount,
                   total_balance_at_end_poll |-> None, staked_amount |-> staked]
           f == OpenDeposits
           g == OpenDeposits'
<1>1. /\ state' = [state EXCEPT !.poll_count = id, !.total_deposit = deposits]
      /\ polls' = Added(polls, new)
  BY Zenon DEF create_poll
<1>2. new.status = "in_progress" /\ new.deposit_amount = amount
  OBVIOUS
<1>3. state \in State /\ state.poll_count \in Nat /\ state.total_deposit \in Nat
  BY DEF GovInv, TypeOK, State
<1>4. state'.poll_count = id /\ state'.total_deposit = deposits
  <2> HIDE DEF id, deposits
  <2> QED
    BY <1>1, <1>3 DEF State
<1>5. PollIds' = PollIds \cup {id} /\ id \notin PollIds /\ id \in PollIds'
         /\ PollIds' \ {id} = PollIds
  BY <1>3, <1>4 DEF PollIds
<1>6. polls'[id] = new /\ \A p \in PollIds : polls'[p] = polls[p]
  <2> HIDE DEF new
  <2> QED
    BY <1>1, <1>3 DEF Added, PollIds
<1> HIDE DEF new
<1>7. g[id] = amount /\ \A p \in PollIds : g[p] = f[p]
  BY <1>2, <1>5, <1>6 DEF OpenDeposits
<1>8. IsFiniteSet(PollIds) /\ f \in [PollIds -> Nat]
  BY PollIdsFinite
<1>9. IsFiniteSet(PollIds') /\ g \in [PollIds' -> Nat]
  BY PollIdsFiniteNext
<1>10. SumFunctionOnSet(g, PollIds') = g[id] + SumFunctionOnSet(g, PollIds)
  <2> HIDE DEF g, id
  <2>1. SumFunctionOnSet(g, PollIds') = g[id] + SumFunctionOnSet(g, PollIds' \ {id})
    BY <1>5, <1>9, SumSplit
  <2> QED
    BY <1>5, <2>1
<1>11. SumFunctionOnSet(g, PollIds) = SumFunctionOnSet(f, PollIds)
  <2> HIDE DEF f, g, id
  <2> QED
    BY <1>7, <1>8, SumSame
<1>12. SumFunction(OpenDeposits)' = SumFunctionOnSet(g, PollIds')
  BY DepositsSumNext
<1>13. SumFunctionOnSet(f, PollIds) = state.total_deposit
  BY DepositsSum
<1> HIDE DEF f, g, id
<1>14. SumFunction(OpenDeposits)' = amount + state.total_deposit
  BY <1>7, <1>10, <1>11, <1>12, <1>13
<1>15. state'.total_deposit = state.total_deposit + amount /\ amount \in Nat
  BY <1>4, ConstantsAssumption
<1> QED
  BY <1>3, <1>14, <1>15

LEMMA DepositReleased ==
    ASSUME GovInv, GovInv', state.total_deposit = SumFunction(OpenDeposits),
           NEW q \in PollIds, end_poll(q)
    PROVE  (state.total_deposit = SumFunction(OpenDeposits))'
<1> DEFINE status == IF QuorumReached(q) /\ ThresholdReached(q) THEN "passed" ELSE "rejected"
           deposits == DepositsAfter(q)
           f == OpenDeposits
           g == OpenDeposits'
<1>1. /\ polls[q].status = "in_progress"
      /\ polls' = [polls EXCEPT ![q].status = status,
                                ![q].total_balance_at_end_poll = polls[q].staked_amount]
      /\ state' = [state EXCEPT !.total_deposit = deposits]
  BY Zenon DEF end_poll, MayEnd
<1>2. status # "in_progress"
  OBVIOUS
<1> HIDE DEF status, deposits
<1>3. state \in State /\ polls \in [PollIds -> Poll]
  BY DEF GovInv, TypeOK, PollIds
<1>4. state'.poll_count = state.poll_count /\ state'.total_deposit = deposits
  BY <1>1, <1>3 DEF State
<1>5. PollIds' = PollIds
  BY <1>4 DEF PollIds
<1>6. polls'[q].status = status /\ \A p \in PollIds \ {q} : polls'[p] = polls[p]
  BY <1>1, <1>3 DEF Poll
<1>7. f[q] = polls[q].deposit_amount /\ g[q] = 0 /\ \A p \in PollIds \ {q} : g[p] = f[p]
  <2>1. f[q] = polls[q].deposit_amount
    BY <1>1 DEF OpenDeposits
  <2>2. g[q] = 0
    BY <1>2, <1>5, <1>6 DEF OpenDeposits
  <2>3. ASSUME NEW p \in PollIds \ {q} PROVE g[p] = f[p]
    BY <1>5, <1>6 DEF OpenDeposits
  <2> QED
    BY <2>1, <2>2, <2>3
<1>8. IsFiniteSet(PollIds) /\ f \in [PollIds -> Nat]
  BY PollIdsFinite
<1>9. g \in [PollIds -> Nat]
  BY <1>5, PollIdsFiniteNext
<1>10. SumFunctionOnSet(g, PollIds) = SumFunctionOnSet(f, PollIds) - f[q] + g[q]
  <2> HIDE DEF f, g
  <2> QED
    BY <1>7, <1>8, <1>9, SumUpdate
<1>11. SumFunction(OpenDeposits)' = SumFunctionOnSet(g, PollIds)
  BY <1>5, DepositsSumNext
<1>12. SumFunctionOnSet(f, PollIds) = state.total_deposit
  BY DepositsSum
<1>13. state'.total_deposit = state.total_deposit - polls[q].deposit_amount
  BY <1>4 DEF deposits, DepositsAfter
<1>14. state.total_deposit \in Nat /\ polls[q].deposit_amount \in Nat
  BY <1>3 DEF State, Poll
<1> HIDE DEF f, g
<1> QED
  BY <1>7, <1>10, <1>11, <1>12, <1>13, <1>14

LEMMA SharesSumStep ==
    ASSUME GovInv, GovInv', state.total_share = Total(bank), [Next]_vars
    PROVE  (state.total_share = Total(bank))'
<1>1. /\ state \in State /\ state.total_share \in Nat
      /\ glow \in Nat /\ state.total_deposit \in Nat
      /\ bank \in [Users -> Nat] /\ bank' \in [Users -> Nat]
  BY DEF GovInv, TypeOK, State
<1>2. ASSUME NEW u \in Users, NEW d \in Int, bank' = [bank EXCEPT ![u] = @ + d],
             state'.total_share = state.total_share + d
      PROVE  (state.total_share = Total(bank))'
  <2>1. bank'[u] = bank[u] + d /\ \A v \in Users \ {u} : bank'[v] = bank[v]
    BY <1>1, <1>2
  <2>2. SumFunctionOnSet(bank', Users) = SumFunctionOnSet(bank, Users) - bank[u] + bank'[u]
    BY <1>1, <2>1, SumUpdate, ConstantsAssumption
  <2>3. Total(bank)' = Total(bank) - bank[u] + bank'[u]
    BY <2>2 DEF Total
  <2> QED
    BY <1>1, <1>2, <2>1, <2>3
<1>3. ASSUME UNCHANGED bank, state'.total_share = state.total_share
      PROVE  (state.total_share = Total(bank))'
  BY <1>3 DEF Total
<1>4. ASSUME NEW u \in Users, NEW amount \in StakeAmounts, stake_voting_tokens(u, amount)
      PROVE  (state.total_share = Total(bank))'
  <2> DEFINE s == SharesFor(amount)
             shares == state.total_share + s
  <2>1. state' = [state EXCEPT !.total_share = shares] /\ bank' = [bank EXCEPT ![u] = @ + s]
    BY <1>4, Zenon DEF stake_voting_tokens
  <2>2. s \in Int
    <3>1. glow - state.total_deposit \in Nat /\ amount \in Nat
      <4>1. glow >= state.total_deposit
        BY <1>4, Zenon DEF stake_voting_tokens
      <4> QED
        BY <1>1, <4>1, ConstantsAssumption
    <3> QED
      BY <1>1, <3>1, RatioType DEF SharesFor, TotalBalance
  <2> HIDE DEF s
  <2>3. state'.total_share = state.total_share + s
    <3> HIDE DEF shares
    <3>1. state'.total_share = shares
      BY <1>1, <2>1 DEF State
    <3> QED
      BY <3>1 DEF shares
  <2> QED
    BY <1>2, <2>1, <2>2, <2>3
<1>5. ASSUME NEW u \in Users, NEW amount \in WithdrawAmounts, withdraw_voting_tokens(u, amount)
      PROVE  (state.total_share = Total(bank))'
  <2> DEFINE s == WithdrawnShare(u, amount)
             left == state.total_share - s
  <2>1. /\ state' = [state EXCEPT !.total_share = left] /\ bank' = [bank EXCEPT ![u] = @ - s]
        /\ glow > state.total_deposit
    BY <1>5, Zenon DEF withdraw_voting_tokens
  <2>2. s \in Int
    <3>1. glow - state.total_deposit \in Nat \ {0} /\ amount \in Nat \cup {None}
      BY <1>1, <2>1, ConstantsAssumption
    <3> QED
      BY <1>1, <3>1, RatioType DEF WithdrawnShare, TotalBalance
  <2> HIDE DEF s
  <2>3. state'.total_share = state.total_share + (-s)
    <3> HIDE DEF left
    <3>1. state'.total_share = left
      BY <1>1, <2>1 DEF State
    <3> QED
      BY <1>1, <2>2, <3>1 DEF left
  <2>4. bank' = [bank EXCEPT ![u] = @ + (-s)] /\ -s \in Int
    <3>1. bank[u] - s = bank[u] + (-s) /\ -s \in Int
      BY <1>1, <2>2
    <3> QED
      BY <2>1, <3>1
  <2> QED
    BY <1>2, <2>3, <2>4
<1>6. ASSUME NEW u \in Users, NEW amount \in DepositAmounts, NEW msgs \in PollMessages,
             NEW answered \in VeAnswers, create_poll(u, amount, msgs, answered)
      PROVE  (state.total_share = Total(bank))'
  <2> DEFINE id == state.poll_count + 1
             deposits == state.total_deposit + amount
  <2>1. state' = [state EXCEPT !.poll_count = id, !.total_deposit = deposits] /\ UNCHANGED bank
    BY <1>6, Zenon DEF create_poll
  <2> HIDE DEF id, deposits
  <2>2. state'.total_share = state.total_share
    BY <1>1, <2>1 DEF State
  <2> QED
    BY <1>3, <2>1, <2>2
<1>7. ASSUME NEW q \in PollIds, end_poll(q)
      PROVE  (state.total_share = Total(bank))'
  <2>1. state' = [state EXCEPT !.total_deposit = DepositsAfter(q)] /\ UNCHANGED bank
    BY <1>7, Zenon DEF end_poll
  <2>2. state'.total_share = state.total_share
    BY <1>1, <2>1 DEF State
  <2> QED
    BY <1>3, <2>1, <2>2
<1>8. ASSUME \/ \E u \in Users, p \in PollIds, vote \in VoteOption,
                   answered \in VeAnswers : cast_vote(u, p, vote, answered)
             \/ \E p \in PollIds : execute_poll(p) \/ expire_poll(p)
             \/ \E a \in Users \cup {Creator}, msg \in ConfigUpdates : update_config(a, msg)
             \/ register_contracts
             \/ \E bought \in Sweeps : sweep(bought)
             \/ NextBlock
             \/ UNCHANGED vars
      PROVE  (state.total_share = Total(bank))'
  <2>1. UNCHANGED <<state, bank>>
    BY <1>8, Zenon DEF cast_vote, execute_poll, expire_poll, update_config,
       register_contracts, sweep, NextBlock, storage, vars
  <2> QED
    BY <1>3, <2>1
<1> QED
  BY <1>4, <1>5, <1>6, <1>7, <1>8 DEF Next

LEMMA DepositsSumStep ==
    ASSUME GovInv, GovInv', state.total_deposit = SumFunction(OpenDeposits), [Next]_vars
    PROVE  (state.total_deposit = SumFunction(OpenDeposits))'
<1>1. state \in State /\ polls \in [PollIds -> Poll]
  BY DEF GovInv, TypeOK, PollIds
<1>2. ASSUME \/ \E u \in Users, amount \in StakeAmounts : stake_voting_tokens(u, amount)
             \/ \E u \in Users, amount \in WithdrawAmounts : withdraw_voting_tokens(u, amount)
             \/ \E a \in Users \cup {Creator}, msg \in ConfigUpdates : update_config(a, msg)
             \/ register_contracts
             \/ \E bought \in Sweeps : sweep(bought)
             \/ NextBlock
             \/ UNCHANGED vars
      PROVE  (state.total_deposit = SumFunction(OpenDeposits))'
  <2>1. /\ UNCHANGED polls
        /\ state' = state \/ \E s : state' = [state EXCEPT !.total_share = s]
    BY <1>2, Zenon DEF stake_voting_tokens, withdraw_voting_tokens, update_config,
       register_contracts, sweep, NextBlock, storage, vars
  <2>2. state'.poll_count = state.poll_count /\ state'.total_deposit = state.total_deposit
    BY <1>1, <2>1 DEF State
  <2>3. PollIds' = PollIds
    BY <2>2 DEF PollIds
  <2> QED
    BY <2>1, <2>2, <2>3, DepositsKept
<1>3. ASSUME NEW u \in Users, NEW p \in PollIds, NEW vote \in VoteOption,
             NEW answered \in VeAnswers, cast_vote(u, p, vote, answered)
      PROVE  (state.total_deposit = SumFunction(OpenDeposits))'
  <2>1. /\ UNCHANGED state
        /\ \E n : \/ polls' = [polls EXCEPT ![p].yes_votes = n]
                  \/ polls' = [polls EXCEPT ![p].no_votes = n]
    BY <1>3, Zenon DEF cast_vote
  <2>2. \A q \in PollIds : polls'[q].deposit_amount = polls[q].deposit_amount
                              /\ polls'[q].status = polls[q].status
    BY <1>1, <2>1 DEF Poll
  <2>3. PollIds' = PollIds
    BY <2>1 DEF PollIds
  <2> QED
    BY <2>1, <2>2, <2>3, DepositsKept
<1>4. ASSUME NEW p \in PollIds, execute_poll(p) \/ expire_poll(p)
      PROVE  (state.total_deposit = SumFunction(OpenDeposits))'
  <2>1. PICK status \in {"executed", "expired"} :
           /\ polls' = [polls EXCEPT ![p].status = status]
           /\ polls[p].status = "passed" /\ UNCHANGED state
    BY <1>4, Zenon DEF execute_poll, expire_poll, MayExpire
  <2>2. \A q \in PollIds : /\ polls'[q].deposit_amount = polls[q].deposit_amount
                           /\ polls'[q].status = "in_progress" <=> polls[q].status = "in_progress"
    BY <1>1, <2>1 DEF Poll
  <2>3. PollIds' = PollIds
    BY <2>1 DEF PollIds
  <2> QED
    BY <2>1, <2>2, <2>3, DepositsKept
<1> QED
  BY <1>2, <1>3, <1>4, DepositMade, DepositReleased DEF Next

\* total_deposit is the sum of the deposits of the open polls and
\* total_share the sum of the stakers' shares, in every reachable state:
\* create_poll, end_poll, stake_voting_tokens and withdraw_voting_tokens
\* keep the totals in step with the buckets.
THEOREM TotalsStaySums == Spec => []TotalsAreSums
<1>1. Init => TotalsAreSums
  <2> SUFFICES ASSUME Init PROVE TotalsAreSums
    OBVIOUS
  <2>1. PollIds = {}
    BY DEF Init, PollIds
  <2>2. SumFunction(OpenDeposits) = 0
    BY <2>1, DepositsSum, SumEmpty
  <2>3. \A u \in Users : bank[u] = 0
    BY DEF Init
  <2>4. Total(bank) = 0
    BY <2>3, SumZero, ConstantsAssumption DEF Total
  <2> QED
    BY <2>2, <2>4 DEF Init, TotalsAreSums
<1>2. GovInv /\ GovInv' /\ TotalsAreSums /\ [Next]_vars => TotalsAreSums'
  BY DepositsSumStep, SharesSumStep DEF TotalsAreSums
<1> QED
  BY <1>1, <1>2, GovInvariant, PTL DEF Spec

-----------------------------------------------------------------------------
(* The value of a share.                                                   *)

\* The value of b shares does not fall when the worth of a share does not:
\* rounding down cannot turn the two around.
LEMMA ValueMonotonic ==
    ASSUME NEW b \in Nat, NEW B \in Nat, NEW S \in Nat \ {0},
           NEW C \in Nat, NEW T \in Nat \ {0}, B * T <= C * S
    PROVE  multiply_ratio(b, B, S) <= multiply_ratio(b, C, T)
<1> DEFINE q == (b * B) \div S
           r == (b * C) \div T
<1>1. b * B \in Nat /\ b * C \in Nat
  BY MulNat
<1>2. /\ q \in Nat /\ S * q <= b * B
      /\ r \in Nat /\ b * C < T * r + T
  BY <1>1, DivBounds
<1> HIDE DEF q, r
<1>3. (T * q) * S <= (b * C) * S
  <2>1. (S * q) * T <= (b * B) * T
    BY <1>1, <1>2, MulNat, MulMono
  <2>2. (B * T) * b <= (C * S) * b
    BY MulNat, MulMono
  <2>3. (S * q) * T = (T * q) * S /\ (b * B) * T = (B * T) * b /\ (b * C) * S = (C * S) * b
    BY <1>2
  <2>4. (S * q) * T \in Nat /\ (b * B) * T \in Nat /\ (C * S) * b \in Nat
    BY <1>1, <1>2, MulNat
  <2> QED
    BY <2>1, <2>2, <2>3, <2>4
<1>4. T * q <= b * C
  <2>1. T * q \in Nat
    BY <1>2, MulNat
  <2> QED
    BY <1>1, <1>3, <2>1, MulCancel
<1>5. q <= r
  <2>1. SUFFICES ASSUME q >= r + 1 PROVE FALSE
    BY <1>2
  <2>2. (r + 1) * T <= q * T
    BY <1>2, <2>1, MulMono
  <2>3. (r + 1) * T = T * r + T /\ q * T = T * q /\ T * q \in Nat /\ T * r \in Nat
    BY <1>2
  <2> QED
    BY <1>1, <1>2, <1>4, <2>2, <2>3
<1> QED
  BY <1>5 DEF multiply_ratio, q, r

\* A stake leaves the worth of a share at least what it was.
LEMMA StakeKeepsWorth ==
    ASSUME NEW a \in Nat, NEW B \in Nat \ {0}, NEW S \in Nat \ {0}
    PROVE  B * (S + multiply_ratio(a, S, B)) <= (B + a) * S
<1> DEFINE s == (a * S) \div B
<1>1. s \in Nat /\ B * s <= a * S
  BY MulNat, DivBounds
<1> HIDE DEF s
<1>2. B * (S + s) = B * S + B * s /\ (B + a) * S = B * S + a * S
  BY <1>1
<1>3. B * s \in Nat /\ a * S \in Nat /\ B * S \in Nat
  BY <1>1, MulNat
<1>4. B * (S + s) <= (B + a) * S
  BY <1>1, <1>2, <1>3
<1> QED
  BY <1>4 DEF multiply_ratio, s

\* A full withdrawal too.
LEMMA WithdrawalKeepsWorth ==
    ASSUME NEW b \in Nat, NEW B \in Nat, NEW S \in Nat \ {0}, b <= S
    PROVE  B * (S - b) <= (B - multiply_ratio(b, B, S)) * S
<1> DEFINE s == (b * B) \div S
<1>1. s \in Nat /\ S * s <= b * B
  BY MulNat, DivBounds
<1> HIDE DEF s
<1>2. B * (S - b) = B * S - b * B /\ (B - s) * S = B * S - S * s
  BY <1>1
<1>3. S * s \in Nat /\ b * B \in Nat /\ B * S \in Nat
  BY <1>1, MulNat
<1>4. B * (S - b) <= (B - s) * S
  BY <1>1, <1>2, <1>3
<1> QED
  BY <1>4 DEF multiply_ratio, s

\* A loss of at most one share's part of the stakes lowers the value of b
\* shares by at most the worth of a share, rounded up.
LEMMA ValueLosesShare ==
    ASSUME NEW b \in Nat, NEW B \in Nat \ {0}, NEW S \in Nat \ {0},
           NEW C \in Int, NEW T \in Nat \ {0}, b <= T, B * (T - 1) < C * S
    PROVE  /\ C > 0
           /\ multiply_ratio(b, B, S) <= multiply_ratio(b, C, T) + (B + S - 1) \div S
<1>1. B * (T - 1) \in Nat /\ B * (T - 1) = T * B - B /\ T * B \in Nat
  BY MulNat
<1>2. C > 0
  <2>1. SUFFICES ASSUME C <= 0 PROVE FALSE
    OBVIOUS
  <2>2. (-C) * S \in Nat /\ C * S = -((-C) * S)
    BY <2>1, MulNat
  <2> QED
    BY <1>1, <2>2
<1> DEFINE q == (b * B) \div S
           r == (b * C) \div T
           w == (B + S - 1) \div S
<1>3. /\ b * B \in Nat /\ b * C \in Nat /\ C * S \in Nat
      /\ B + S - 1 \in Nat
  BY <1>2, MulNat
<1>4. /\ q \in Nat /\ S * q <= b * B
      /\ r \in Nat /\ b * C < T * r + T
      /\ w \in Nat /\ B + S - 1 < S * w + S
  BY <1>3, DivBounds
<1> HIDE DEF q, r, w
<1>5. q <= r + w
  <2>1. SUFFICES ASSUME q >= r + 1 + w PROVE FALSE
    BY <1>4
  <2>2. S * (r + 1 + w) <= S * q
    <3>1. (r + 1 + w) * S <= q * S
      BY <1>4, <2>1, MulMono
    <3> QED
      BY <1>4, <3>1
  <2>3. S * (r + 1 + w) = S * (r + 1) + S * w /\ S * (r + 1) \in Nat /\ S * w \in Nat
    BY <1>4
  <2>4. S * (r + 1) <= b * B - B
    BY <1>3, <1>4, <2>2, <2>3
  <2>5. (b * C + 1) * S <= (T * (r + 1)) * S
    <3>1. T * (r + 1) = T * r + T /\ T * (r + 1) \in Nat /\ T * r \in Nat
      BY <1>4, MulNat
    <3> QED
      BY <1>3, <1>4, <3>1, MulMono
  <2>6. (T * (r + 1)) * S <= (b * B - B) * T
    <3>1. (S * (r + 1)) * T <= (b * B - B) * T
      BY <1>3, <2>3, <2>4, MulMono
    <3>2. (S * (r + 1)) * T = (T * (r + 1)) * S
      BY <1>4
    <3> QED
      BY <3>1, <3>2
  <2>7. b * (T * B - B + 1) <= b * (C * S)
    <3>1. T * B - B + 1 <= C * S
      BY <1>1, <1>3
    <3>2. (T * B - B + 1) * b <= (C * S) * b
      BY <1>1, <1>3, <3>1, MulMono
    <3>3. (T * B - B + 1) * b = b * (T * B - B + 1) /\ (C * S) * b = b * (C * S)
      BY <1>1, <1>3
    <3> QED
      BY <3>2, <3>3
  <2>8. /\ (b * C + 1) * S = b * (C * S) + S
        /\ (b * B - B) * T = b * (T * B) - T * B
        /\ b * (T * B - B + 1) = b * (T * B) - b * B + b
        /\ b * (T * B) \in Nat /\ b * (C * S) \in Nat
    BY <1>1, <1>3, MulNat
  <2>9. T * B + b + S <= b * B
    <3> DEFINE bTB == b * (T * B)
               bCS == b * (C * S)
               TrS == (T * (r + 1)) * S
               TB == T * B
               bB == b * B
    <3>1. bCS + S <= TrS /\ TrS <= bTB - TB /\ bTB - bB + b <= bCS
      BY <2>5, <2>6, <2>7, <2>8
    <3>2. bTB \in Nat /\ bCS \in Nat /\ TB \in Nat /\ bB \in Nat /\ TrS \in Int
      BY <1>1, <1>3, <1>4, <2>8
    <3> HIDE DEF bTB, bCS, TrS, TB, bB
    <3>3. TB + b + S <= bB
      BY <3>1, <3>2
    <3> QED
      BY <3>3 DEF TB, bB
  <2>10. b * B <= T * B
    BY MulMono
  <2> QED
    BY <1>1, <1>3, <2>9, <2>10
<1> QED
  BY <1>2, <1>5 DEF multiply_ratio, q, r, w

\* A stake is worth something between nothing and the whole; no stake, nothing.
LEMMA StakeValueOf ==
    ASSUME NEW u \in Users, bank[u] \in Nat, state.total_share \in Nat, StakedGlow \in Int
    PROVE  /\ StakeValue(u) \in Nat /\ ShareWorth \in Nat
           /\ StakedGlow >= 0 /\ state.total_share # 0
                => StakeValue(u) = multiply_ratio(bank[u], StakedGlow, state.total_share)
           /\ bank[u] = 0 => StakeValue(u) = 0
<1> DEFINE b == bank[u]
           B == StakedGlow
           S == state.total_share
<1>1. b \in Nat /\ B \in Int /\ S \in Nat
  OBVIOUS
<1>2. StakeValue(u) = IF S = 0 \/ B <= 0 THEN 0 ELSE multiply_ratio(b, B, S)
  BY DEF StakeValue
<1>3. ShareWorth = IF S = 0 \/ B <= 0 THEN 0 ELSE (B + S - 1) \div S
  BY DEF ShareWorth
<1> HIDE DEF b, B, S
<1>4. CASE S = 0 \/ B < 0
  BY <1>1, <1>2, <1>3, <1>4 DEF b, B, S
<1>5. CASE S # 0 /\ B >= 0
  <2>1. multiply_ratio(b, B, S) \in Nat
    BY <1>1, <1>5, RatioType
  <2>2. b * B \in Nat /\ (b = 0 \/ B = 0 => b * B = 0) /\ B + S - 1 \in Nat
    BY <1>1, <1>5, MulNat
  <2>3. (B + S - 1) \div S \in Nat
    BY <1>1, <1>5, <2>2, DivBounds
  <2>4. b = 0 \/ B = 0 => multiply_ratio(b, B, S) = 0
    BY <1>1, <1>5, <2>2 DEF multiply_ratio
  <2> QED
    BY <1>1, <1>2, <1>3, <1>5, <2>1, <2>3, <2>4 DEF b, B, S
<1> QED
  BY <1>1, <1>4, <1>5

LEMMA ValueKept ==
    ASSUME NEW u \in Users, bank'[u] = bank[u], bank[u] \in Nat,
           StakedGlow \in Nat, StakedGlow' \in Nat,
           state.total_share \in Nat, state'.total_share \in Nat,
           bank[u] <= state'.total_share,
           state.total_share # 0 /\ state'.total_share # 0
              => StakedGlow * state'.total_share <= StakedGlow' * state.total_share
    PROVE  StakeValue(u)' >= StakeValue(u)
<1> DEFINE b == bank[u]
           B == StakedGlow
           C == StakedGlow'
           S == state.total_share
           T == state'.total_share
<1>1. /\ StakeValue(u) \in Nat
      /\ S # 0 => StakeValue(u) = multiply_ratio(b, B, S)
      /\ b = 0 => StakeValue(u) = 0
  BY StakeValueOf
<1>2. StakeValue(u)' = IF T = 0 \/ C <= 0 THEN 0 ELSE multiply_ratio(b, C, T)
  BY DEF StakeValue, multiply_ratio
<1>3. S = 0 => StakeValue(u) = 0
  BY DEF StakeValue
<1>4. b \in Nat /\ B \in Nat /\ C \in Nat /\ S \in Nat /\ T \in Nat /\ b <= T
         /\ (S # 0 /\ T # 0 => B * T <= C * S)
  OBVIOUS
<1> HIDE DEF b, B, C, S, T
<1>5. StakeValue(u)' \in Nat
  BY <1>2, <1>4, RatioType
<1>6. CASE S = 0 \/ T = 0
  BY <1>1, <1>3, <1>4, <1>5, <1>6
<1>7. CASE S # 0 /\ T # 0
  <2>1. multiply_ratio(b, B, S) <= multiply_ratio(b, C, T)
    BY <1>4, <1>7, ValueMonotonic
  <2>2. C = 0 => multiply_ratio(b, C, T) = 0
    <3>1. ASSUME C = 0 PROVE b * C = 0
      BY <1>4, <3>1
    <3> QED
      BY <1>4, <1>7, <3>1 DEF multiply_ratio
  <2> QED
    BY <1>1, <1>2, <1>4, <1>5, <1>7, <2>1, <2>2
<1> QED
  BY <1>6, <1>7

LEMMA DilutionStep ==
    ASSUME GovInv, GovInv', TotalsAreSums, TotalsAreSums', [Next]_vars,
           NEW u \in Users, bank'[u] = bank[u], ~SpendingPoll
    PROVE  StakeValue(u)' >= StakeValue(u) - IF NamedWithdrawal THEN ShareWorth ELSE 0
<1>1. /\ bank[u] \in Nat /\ state \in State /\ glow \in Nat /\ bank \in [Users -> Nat]
      /\ state.total_share \in Nat /\ state.total_deposit \in Nat
  BY DEF GovInv, TypeOK, State
<1>2. /\ bank' \in [Users -> Nat] /\ state' \in State /\ glow' \in Nat
      /\ state'.total_share \in Nat /\ state'.total_deposit \in Nat
  BY DEF GovInv, TypeOK, State
<1>3. StakedGlow \in Int /\ StakedGlow = glow - state.total_deposit
  BY <1>1 DEF StakedGlow
<1>4. StakedGlow' \in Int /\ StakedGlow' = glow' - state'.total_deposit
  BY <1>2 DEF StakedGlow
<1>5. bank[u] <= state'.total_share
  <2>1. bank'[u] <= SumFunctionOnSet(bank', Users)
    BY <1>2, SumNat, ConstantsAssumption
  <2>2. state'.total_share = SumFunctionOnSet(bank', Users)
    BY DEF TotalsAreSums, Total
  <2> QED
    BY <2>1, <2>2
<1>6. /\ StakeValue(u) \in Nat /\ ShareWorth \in Nat
      /\ bank[u] = 0 => StakeValue(u) = 0
  BY <1>1, <1>3, StakeValueOf
<1>7. StakeValue(u)' \in Nat
  <2> DEFINE b == bank[u]
             C == StakedGlow'
             T == state'.total_share
  <2>1. StakeValue(u)' = IF T = 0 \/ C <= 0 THEN 0 ELSE multiply_ratio(b, C, T)
    BY DEF StakeValue, multiply_ratio
  <2>2. b \in Nat /\ C \in Int /\ T \in Nat
    BY <1>1, <1>2, <1>4
  <2> HIDE DEF b, C, T
  <2> QED
    BY <2>1, <2>2, RatioType
<1>8. SUFFICES ASSUME StakedGlow > 0, state.total_share # 0
               PROVE  StakeValue(u)' >= StakeValue(u) - IF NamedWithdrawal THEN ShareWorth ELSE 0
  BY <1>1, <1>3, <1>6, <1>7 DEF StakeValue
<1>9. SUFFICES ASSUME \A v \in Users, amount \in WithdrawAmounts \ {None} :
                         ~withdraw_voting_tokens(v, amount)
               PROVE  StakeValue(u)' >= StakeValue(u)
  <2>1. ASSUME StakeValue(u)' >= StakeValue(u)
        PROVE  StakeValue(u)' >= StakeValue(u) - IF NamedWithdrawal THEN ShareWorth ELSE 0
    BY <1>6, <1>7, <2>1
  <2>2. ASSUME NEW v \in Users, NEW amount \in WithdrawAmounts \ {None},
               withdraw_voting_tokens(v, amount)
        PROVE  StakeValue(u)' >= StakeValue(u) - IF NamedWithdrawal THEN ShareWorth ELSE 0
    <3> DEFINE b == bank[u]
               B == StakedGlow
               C == StakedGlow'
               S == state.total_share
               T == state'.total_share
    <3>1. /\ b \in Nat /\ B \in Nat \ {0} /\ S \in Nat \ {0} /\ C \in Int
          /\ T \in Nat /\ b <= T /\ B * (T - 1) < C * S
      BY <1>1, <1>4, <1>5, <2>2, NamedStep
    <3>2. /\ StakeValue(u) = multiply_ratio(b, B, S)
          /\ ShareWorth = (B + S - 1) \div S
      BY <1>8, <3>1 DEF StakeValue, ShareWorth
    <3>3. StakeValue(u)' = IF T = 0 \/ C <= 0 THEN 0 ELSE multiply_ratio(b, C, T)
      BY DEF StakeValue, multiply_ratio
    <3>4. NamedWithdrawal
      BY <2>2 DEF NamedWithdrawal
    <3>5. b = 0 => StakeValue(u) = 0
      BY <1>6
    <3> HIDE DEF b, B, C, S, T
    <3>6. CASE T = 0
      BY <1>6, <1>7, <3>1, <3>5, <3>6
    <3>7. CASE T # 0
      <4>1. C > 0 /\ multiply_ratio(b, B, S) <= multiply_ratio(b, C, T) + (B + S - 1) \div S
        BY <3>1, <3>7, ValueLosesShare
      <4>2. StakeValue(u)' = multiply_ratio(b, C, T)
        BY <3>1, <3>3, <3>7, <4>1
      <4>3. StakeValue(u) <= StakeValue(u)' + ShareWorth
        BY <3>2, <4>1, <4>2
      <4> QED
        BY <1>6, <1>7, <3>4, <4>3
    <3> QED
      BY <3>6, <3>7
  <2> QED
    BY <2>1, <2>2
<1>10. StakedGlow \in Nat /\ TotalBalance = StakedGlow
  BY <1>3, <1>8 DEF TotalBalance, StakedGlow
<1>11. ASSUME state'.total_share = state.total_share, StakedGlow' >= StakedGlow
      PROVE  StakeValue(u)' >= StakeValue(u)
  <2>1. StakedGlow' \in Nat
    BY <1>4, <1>10, <1>11
  <2>2. StakedGlow * state.total_share <= StakedGlow' * state.total_share
    BY <1>1, <1>10, <1>11, <2>1, MulMono
  <2> QED
    BY <1>1, <1>2, <1>5, <1>10, <1>11, <2>1, <2>2, ValueKept
<1>12. ASSUME NEW v \in Users, NEW amount \in StakeAmounts, stake_voting_tokens(v, amount)
      PROVE  StakeValue(u)' >= StakeValue(u)
  <2> DEFINE shares == state.total_share + SharesFor(amount)
  <2>1. state' = [state EXCEPT !.total_share = shares] /\ glow' = glow + amount
           /\ amount \in Nat
    BY <1>12, ConstantsAssumption, Zenon DEF stake_voting_tokens, GlowReceived
  <2>2. state'.total_share = state.total_share + SharesFor(amount)
           /\ state'.total_deposit = state.total_deposit
    <3> HIDE DEF shares
    <3>1. state'.total_share = shares /\ state'.total_deposit = state.total_deposit
      BY <1>1, <2>1 DEF State
    <3> QED
      BY <3>1 DEF shares
  <2>3. StakedGlow' = StakedGlow + amount
    BY <1>1, <1>4, <2>1, <2>2 DEF StakedGlow
  <2>4. SharesFor(amount) = multiply_ratio(amount, state.total_share, StakedGlow)
    BY <1>8, <1>10 DEF SharesFor
  <2>5. StakedGlow * state'.total_share <= StakedGlow' * state.total_share
    BY <1>1, <1>8, <1>10, <2>1, <2>2, <2>3, <2>4, StakeKeepsWorth
  <2>6. StakedGlow' \in Nat
    BY <1>10, <2>1, <2>3
  <2> QED
    BY <1>1, <1>2, <1>5, <1>10, <2>5, <2>6, ValueKept
<1>13. ASSUME NEW v \in Users, NEW amount \in WithdrawAmounts, withdraw_voting_tokens(v, amount)
      PROVE  StakeValue(u)' >= StakeValue(u)
  <2> DEFINE left == state.total_share - bank[v]
             sent == multiply_ratio(bank[v], StakedGlow, state.total_share)
  <2>1. amount = None /\ WithdrawnShare(v, amount) = bank[v]
    BY <1>9, <1>13 DEF WithdrawnShare
  <2>2. /\ bank[v] <= state.total_share /\ state.total_share # 0
        /\ state' = [state EXCEPT !.total_share = left]
        /\ glow' = glow - sent
    BY <1>10, <1>13, <2>1, Zenon DEF withdraw_voting_tokens, GlowSent
  <2>3. state'.total_share = state.total_share - bank[v]
           /\ state'.total_deposit = state.total_deposit
    <3> HIDE DEF left
    <3>1. state'.total_share = left /\ state'.total_deposit = state.total_deposit
      BY <1>1, <2>2 DEF State
    <3> QED
      BY <3>1 DEF left
  <2>4. sent \in Nat /\ sent <= StakedGlow /\ bank[v] \in Nat
    BY <1>1, <1>10, <2>2, PartOfWhole
  <2>5. StakedGlow' = StakedGlow - sent
    <3> HIDE DEF sent
    <3> QED
      BY <1>1, <1>4, <2>2, <2>3, <2>4 DEF StakedGlow
  <2>6. StakedGlow * state'.total_share <= StakedGlow' * state.total_share
    BY <1>1, <1>10, <2>2, <2>3, <2>4, <2>5, WithdrawalKeepsWorth
  <2>7. StakedGlow' \in Nat
    <3> HIDE DEF sent
    <3> QED
      BY <1>10, <2>4, <2>5
  <2> QED
    BY <1>1, <1>2, <1>5, <1>10, <2>6, <2>7, ValueKept
<1>14. ASSUME NEW v \in Users, NEW amount \in DepositAmounts, NEW msgs, NEW answered,
             create_poll(v, amount, msgs, answered)
      PROVE  StakeValue(u)' >= StakeValue(u)
  <2> DEFINE id == state.poll_count + 1
             deposits == state.total_deposit + amount
  <2>1. state' = [state EXCEPT !.poll_count = id, !.total_deposit = deposits]
           /\ glow' = glow + amount /\ amount \in Nat
    BY <1>14, ConstantsAssumption, Zenon DEF create_poll, GlowReceived
  <2>2. state'.total_deposit = state.total_deposit + amount
           /\ state'.total_share = state.total_share
    <3> HIDE DEF id, deposits
    <3>1. state'.total_deposit = deposits /\ state'.total_share = state.total_share
      BY <1>1, <2>1 DEF State
    <3> QED
      BY <3>1 DEF deposits
  <2>3. StakedGlow' = StakedGlow
    BY <1>1, <1>4, <2>1, <2>2 DEF StakedGlow
  <2> QED
    BY <1>10, <1>11, <2>2, <2>3
<1>15. ASSUME NEW p \in PollIds, end_poll(p)
       PROVE  StakeValue(u)' >= StakeValue(u)
  <2> DEFINE deposit == polls[p].deposit_amount
  <2>1. state' = [state EXCEPT !.total_deposit = DepositsAfter(p)]
           /\ (glow' = glow \/ glow' = glow - deposit)
    BY <1>15, Zenon DEF end_poll, MayEnd, GlowSent
  <2>2. deposit \in Nat
    BY DEF GovInv, TypeOK, PollIds, Poll
  <2>3. state'.total_deposit = state.total_deposit - deposit
           /\ state'.total_share = state.total_share
    <3>1. state'.total_deposit = DepositsAfter(p) /\ state'.total_share = state.total_share
      BY <1>1, <2>1 DEF State
    <3> QED
      BY <3>1 DEF DepositsAfter
  <2>4. StakedGlow' >= StakedGlow
    <3> HIDE DEF deposit
    <3> QED
      BY <1>1, <1>4, <2>1, <2>2, <2>3 DEF StakedGlow
  <2> QED
    BY <1>11, <2>3, <2>4
<1>16. ASSUME NEW p \in PollIds, execute_poll(p)
       PROVE  StakeValue(u)' >= StakeValue(u)
  <2> DEFINE msgs == polls[p].execute_data
  <2>1. UNCHANGED state /\ glow' = glow - Spent(msgs) /\ Spent(msgs) \in 0..glow
    BY <1>16, Zenon DEF execute_poll
  <2>2. ~(glow' < glow)
    BY <1>16 DEF SpendingPoll
  <2>3. glow' = glow
    BY <1>1, <2>1, <2>2
  <2>4. StakedGlow' = StakedGlow
    BY <2>1, <2>3 DEF StakedGlow
  <2> QED
    BY <1>10, <1>11, <2>1, <2>4
<1>17. ASSUME NEW bought \in Sweeps, sweep(bought)
       PROVE  StakeValue(u)' >= StakeValue(u)
  <2>1. UNCHANGED state /\ glow' = glow + bought /\ bought \in Nat
    BY <1>17, ConstantsAssumption, Zenon DEF sweep, GlowReceived, storage
  <2>2. StakedGlow' >= StakedGlow
    BY <1>1, <1>4, <2>1 DEF StakedGlow
  <2> QED
    BY <1>11, <2>1, <2>2
<1>18. ASSUME \/ \E v \in Users, p \in PollIds, vote \in VoteOption,
                   answered \in VeAnswers : cast_vote(v, p, vote, answered)
              \/ \E p \in PollIds : expire_poll(p)
              \/ \E a \in Users \cup {Creator}, msg \in ConfigUpdates : update_config(a, msg)
              \/ register_contracts
              \/ NextBlock
              \/ UNCHANGED vars
       PROVE  StakeValue(u)' >= StakeValue(u)
  <2>1. UNCHANGED <<state, glow>>
    BY <1>18, Zenon DEF cast_vote, expire_poll, update_config,
       register_contracts, NextBlock, storage, vars
  <2>2. StakedGlow' = StakedGlow
    BY <2>1 DEF StakedGlow
  <2> QED
    BY <1>10, <1>11, <2>1, <2>2
<1> QED
  BY <1>12, <1>13, <1>14, <1>15, <1>16, <1>17, <1>18 DEF Next

\* What a staker has keeps its worth through everything that the others do,
\* unless a poll spends it: the roundings of stake_voting_tokens and of a full
\* withdrawal leave their rest to the other stakers, and the rounding of a
\* withdrawal that names an amount takes at most one share's worth from each.
THEOREM StakesNotDiluted == Spec => StakesNeverDiluted
<1>1. /\ GovInv /\ GovInv' /\ TotalsAreSums /\ TotalsAreSums' /\ [Next]_vars
      => [\A u \in Users : bank'[u] = bank[u] /\ ~SpendingPoll =>
             StakeValue(u)' >= StakeValue(u) - IF NamedWithdrawal THEN ShareWorth ELSE 0]_vars
  BY DilutionStep
<1> QED
  BY <1>1, GovInvariant, TotalsStaySums, PTL DEF Spec, StakesNeverDiluted

=============================================================================
