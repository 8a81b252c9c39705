-------------------------- MODULE GlowFundsProofs --------------------------
(***************************************************************************)
(* What the contracts that hold GLOW promise, for any users, owners,       *)
(* snapshots, configurations and amounts, and whichever of them are        *)
(* deployed together.                                                      *)
(***************************************************************************)
EXTENDS GlowFunds, ArithmeticTheorems

\* The accounts that other contracts' messages cannot take from.
Treasuries == {"airdrop", "distributor", "community", "pair"}

BalancesInv ==
    /\ DOMAIN glow = Holders
    /\ \A h \in Treasuries : glow[h] \in Nat

\* A stage that was claimed has been registered.
ClaimsInv ==
    /\ latest_stage \in 0..MaxStage
    /\ merkle_root \in Seq(SUBSET Leaf) /\ Len(merkle_root) = latest_stage
    /\ claimed \subseteq Users \X (1..latest_stage)
    /\ airdropped \in [Users -> [1..MaxStage -> Nat]]

\* The distributor's configuration passes the checks of instantiate at all
\* times.
EmissionInv ==
    /\ distributor_config \in
          [owner : Owners, whitelist : {distributor_config.whitelist}, spend_limit : Nat,
           emission_cap : Nat, emission_floor : Nat,
           increment_multiplier : Nat, decrement_multiplier : Nat]
    /\ ValidEmission(distributor_config)
    /\ emission_rate \in Option(Nat)

FundConfig == [owner : Owners, spend_limit : Nat, lotto_contract : Option(Lottos)]

\* The inductive invariant.
FundsInv ==
    /\ BalancesInv
    /\ ClaimsInv
    /\ AirdropPaidOnce
    /\ EmissionInv
    /\ community_config \in FundConfig

-----------------------------------------------------------------------------
(* Decimals.                                                               *)

\* Uint256 * Decimal256 rounds down.
LEMMA DecMulBounds ==
    ASSUME NEW a \in Nat, NEW d \in Nat
    PROVE  DecMul(a, d) \in Nat /\ DecMul(a, d) * One <= a * d
<1>1. a * d \in Nat
  OBVIOUS
<1> QED
  BY <1>1, OneAssumption, DivBounds DEF DecMul

\* A fraction of an amount is not more than the amount.
LEMMA FractionBound ==
    ASSUME NEW a \in Nat, NEW d \in Nat, d <= One
    PROVE  DecMul(a, d) <= a
<1>1. DecMul(a, d) \in Nat /\ DecMul(a, d) * One <= a * d
  BY DecMulBounds
<1>2. a * d <= a * One
  BY MulMono, OneAssumption
<1>3. DecMul(a, d) * One <= a * One
  BY <1>1, <1>2, OneAssumption
<1> QED
  BY <1>1, <1>3, OneAssumption, MulCancel

-----------------------------------------------------------------------------
(* The token.                                                              *)

LEMMA TreasuriesHold == Treasuries \subseteq Holders
BY DEF Treasuries, Holders, Contracts

\* What a transfer between two accounts does.
LEMMA TransferFacts ==
    ASSUME DOMAIN glow = Holders, NEW from \in Holders, NEW to \in Holders, NEW amount,
           glow' = Transferred(from, to, amount)
    PROVE  /\ DOMAIN glow' = Holders
           /\ \A h \in Holders : h # from /\ h # to => glow'[h] = glow[h]
           /\ from # to => glow'[from] = glow[from] - amount
           /\ from # to => glow'[to] = glow[to] + amount
           /\ from = to => glow'[from] = (glow[from] - amount) + amount
<1> DEFINE paid == [glow EXCEPT ![from] = glow[from] - amount]
<1>1. DOMAIN paid = Holders
  OBVIOUS
<1>2. \A h \in Holders : paid[h] = IF h = from THEN glow[from] - amount ELSE glow[h]
  OBVIOUS
<1>3. glow' = [paid EXCEPT ![to] = paid[to] + amount]
  BY DEF Transferred
<1> HIDE DEF paid
<1>4. DOMAIN glow' = Holders
  BY <1>1, <1>3
<1>5. \A h \in Holders : glow'[h] = IF h = to THEN paid[to] + amount ELSE paid[h]
  BY <1>1, <1>3
<1> QED
  BY <1>2, <1>4, <1>5

\* A transfer out of a treasury that has the amount.
LEMMA TreasuryPays ==
    ASSUME BalancesInv, NEW from \in Treasuries, NEW to \in Holders, NEW amount \in Nat,
           CanTransfer(from, amount), glow' = Transferred(from, to, amount)
    PROVE  /\ BalancesInv'
           /\ \A h \in Treasuries \ {from} : glow'[h] >= glow[h]
           /\ glow'[from] >= glow[from] - amount
<1>1. from \in Holders /\ glow[from] \in Nat /\ amount <= glow[from]
  BY TreasuriesHold DEF BalancesInv, CanTransfer
<1>2. /\ DOMAIN glow' = Holders
      /\ \A h \in Holders : h # from /\ h # to => glow'[h] = glow[h]
      /\ from # to => glow'[from] = glow[from] - amount
      /\ from # to => glow'[to] = glow[to] + amount
      /\ from = to => glow'[from] = (glow[from] - amount) + amount
  BY <1>1, TransferFacts DEF BalancesInv
<1>3. ASSUME NEW h \in Treasuries \ {from}
      PROVE  glow'[h] \in Nat /\ glow'[h] >= glow[h]
  <2>1. h \in Holders /\ glow[h] \in Nat
    BY TreasuriesHold DEF BalancesInv
  <2>2. CASE h = to
    BY <1>2, <2>1, <2>2
  <2>3. CASE h # to
    <3>1. glow'[h] = glow[h]
      BY <1>2, <2>1, <2>3
    <3> QED
      BY <2>1, <3>1
  <2> QED
    BY <2>2, <2>3
<1>4. glow'[from] \in Nat /\ glow'[from] >= glow[from] - amount
  <2>1. CASE from = to
    <3>1. glow'[from] = (glow[from] - amount) + amount
      BY <1>2, <2>1
    <3> QED
      BY <1>1, <3>1
  <2>2. CASE from # to
    <3>1. glow'[from] = glow[from] - amount
      BY <1>2, <2>2
    <3> QED
      BY <1>1, <3>1
  <2> QED
    BY <2>1, <2>2
<1> QED
  BY <1>2, <1>3, <1>4 DEF BalancesInv

\* A transfer from the vesting contract to a user touches no treasury.
LEMMA OthersPay ==
    ASSUME BalancesInv, NEW to \in Users, NEW amount,
           glow' = Transferred("vesting", to, amount)
    PROVE  BalancesInv' /\ \A h \in Treasuries : glow'[h] = glow[h]
<1>1. "vesting" \in Holders /\ to \in Holders
  BY DEF Holders, Contracts
<1>2. /\ DOMAIN glow' = Holders
      /\ \A h \in Holders : h # "vesting" /\ h # to => glow'[h] = glow[h]
  BY <1>1, TransferFacts DEF BalancesInv
<1>3. \A h \in Treasuries : h \in Holders /\ h # "vesting" /\ h # to
  BY TreasuriesHold, ChainAssumption DEF Treasuries, Contracts
<1> QED
  BY <1>2, <1>3 DEF BalancesInv

-----------------------------------------------------------------------------
(* The initial states.                                                     *)

LEMMA FundsInitEstablishes == FundsInit => FundsInv
<1> SUFFICES ASSUME FundsInit PROVE FundsInv
  OBVIOUS
<1>1. BalancesInv
  <2>1. glow = [h \in Holders |-> IF h \in deployed \cup {"pair"} THEN Endowment[h] ELSE 0]
        /\ deployed \subseteq Contracts
    BY ChainAssumption DEF FundsInit, ChainInit
  <2>2. ASSUME NEW h \in Treasuries PROVE glow[h] \in Nat
    <3>1. h \in Holders /\ h \in Contracts \cup {"pair"}
      BY TreasuriesHold DEF Treasuries, Contracts
    <3> QED
      BY <2>1, <3>1, ChainAssumption
  <2> QED
    BY <2>1, <2>2 DEF BalancesInv
<1>2. ClaimsInv
  <2>1. airdropped \in [Users -> [1..MaxStage -> Nat]]
    BY DEF FundsInit, AirdropInit
  <2>2. latest_stage = 0 /\ merkle_root = <<>> /\ claimed = {}
    BY DEF FundsInit, AirdropInit
  <2> QED
    BY <2>1, <2>2, AirdropAssumption DEF ClaimsInv
<1>3. AirdropPaidOnce
  BY DEF FundsInit, AirdropInit, AirdropPaidOnce
<1>4. EmissionInv
  BY DistributorAssumption DEF FundsInit, DistributorInit, EmissionInv, DistributorConfig, Option
<1>5. community_config \in FundConfig
  BY ChainAssumption, CommunityAssumption DEF FundsInit, CommunityInit, FundConfig
<1> QED
  BY <1>1, <1>2, <1>3, <1>4, <1>5 DEF FundsInv

-----------------------------------------------------------------------------
(* The airdrop.                                                            *)

\* What the messages of the airdrop do to the claims.
LEMMA RegisterKeepsClaims ==
    ASSUME ClaimsInv, AirdropPaidOnce,
           NEW sender, NEW leaves \in SUBSET Leaf, NEW expiry,
           register_merkle_root(sender, leaves, expiry)
    PROVE  ClaimsInv' /\ AirdropPaidOnce'
<1>1. /\ latest_stage < MaxStage /\ latest_stage' = latest_stage + 1
      /\ merkle_root' = Append(merkle_root, leaves)
      /\ UNCHANGED <<claimed, airdropped>>
  BY DEF register_merkle_root
<1>2. latest_stage \in Nat /\ latest_stage' \in 0..MaxStage
  BY <1>1, AirdropAssumption DEF ClaimsInv
<1>3. /\ merkle_root' \in Seq(SUBSET Leaf) /\ Len(merkle_root') = latest_stage'
      /\ \A stage \in 1..latest_stage : merkle_root'[stage] = merkle_root[stage]
  BY <1>1, <1>2 DEF ClaimsInv
<1>4. claimed' \subseteq Users \X (1..latest_stage')
  BY <1>1, <1>2 DEF ClaimsInv
<1>5. ASSUME NEW u \in Users, NEW stage \in 1..MaxStage, airdropped'[u][stage] # 0
      PROVE  <<u, stage>> \in claimed' /\ <<u, airdropped'[u][stage]>> \in merkle_root'[stage]
  <2>1. <<u, stage>> \in claimed /\ <<u, airdropped[u][stage]>> \in merkle_root[stage]
    BY <1>1, <1>5 DEF AirdropPaidOnce
  <2>2. stage \in 1..latest_stage
    BY <2>1 DEF ClaimsInv
  <2> QED
    BY <1>1, <1>3, <2>1, <2>2
<1> QED
  BY <1>1, <1>2, <1>3, <1>4, <1>5 DEF ClaimsInv, AirdropPaidOnce

LEMMA ClaimKeepsClaims ==
    ASSUME ClaimsInv, AirdropPaidOnce,
           NEW u \in Users, NEW stage, NEW amount \in Nat, airdrop_claim(u, stage, amount)
    PROVE  ClaimsInv' /\ AirdropPaidOnce' /\ claimed' # claimed
<1>1. /\ stage \in 1..latest_stage /\ <<u, stage>> \notin claimed
      /\ <<u, amount>> \in merkle_root[stage]
      /\ claimed' = claimed \cup {<<u, stage>>}
      /\ airdropped' = [airdropped EXCEPT ![u][stage] = @ + amount]
      /\ UNCHANGED <<latest_stage, merkle_root>>
  BY DEF airdrop_claim, ClaimedAfter, Stages
<1>2. stage \in 1..MaxStage
  BY <1>1, AirdropAssumption DEF ClaimsInv
<1>3. airdropped[u][stage] = 0
  BY <1>1, <1>2 DEF AirdropPaidOnce
<1>4. /\ airdropped' \in [Users -> [1..MaxStage -> Nat]]
      /\ \A v \in Users, s \in 1..MaxStage :
            airdropped'[v][s] = IF v = u /\ s = stage THEN amount ELSE airdropped[v][s]
  <2> DEFINE row == [airdropped[u] EXCEPT ![stage] = airdropped[u][stage] + amount]
  <2>1. airdropped \in [Users -> [1..MaxStage -> Nat]] /\ airdropped[u] \in [1..MaxStage -> Nat]
    BY DEF ClaimsInv
  <2>2. airdropped' = [airdropped EXCEPT ![u] = row]
    BY <1>1, Zenon
  <2>3. /\ row \in [1..MaxStage -> Nat]
        /\ \A s \in 1..MaxStage : row[s] = IF s = stage THEN amount ELSE airdropped[u][s]
    BY <1>2, <1>3, <2>1
  <2> HIDE DEF row
  <2>4. /\ airdropped' \in [Users -> [1..MaxStage -> Nat]]
        /\ \A v \in Users : airdropped'[v] = IF v = u THEN row ELSE airdropped[v]
    BY <2>1, <2>2, <2>3
  <2> QED
    BY <2>3, <2>4
<1>5. ClaimsInv'
  BY <1>1, <1>4 DEF ClaimsInv
<1>6. AirdropPaidOnce'
  BY <1>1, <1>4 DEF AirdropPaidOnce
<1> QED
  BY <1>1, <1>5, <1>6

\* What a step of the airdrop does to the balances: only a claim, or a
\* withdrawal after all stages, takes from the airdrop, and nothing takes
\* from the other treasuries.
LEMMA AirdropStepFacts ==
    ASSUME FundsInv, AirdropStep
    PROVE  /\ BalancesInv' /\ ClaimsInv' /\ AirdropPaidOnce'
           /\ \A h \in Treasuries \ {"airdrop"} : glow'[h] >= glow[h]
           /\ (\E stage \in Stages : Open(stage)) /\ glow' # glow => claimed' # claimed
<1> USE DEF FundsInv
<1> DEFINE Goal == /\ BalancesInv' /\ ClaimsInv' /\ AirdropPaidOnce'
                   /\ \A h \in Treasuries \ {"airdrop"} : glow'[h] >= glow[h]
                   /\ (\E stage \in Stages : Open(stage)) /\ glow' # glow => claimed' # claimed
<1>0. \A h \in Treasuries : glow[h] >= glow[h]
  BY DEF BalancesInv
<1>1. ASSUME NEW sender \in Owners, NEW owner \in Option(Owners),
             airdrop_update_config(sender, owner)
      PROVE  Goal
  BY <1>0, <1>1 DEF airdrop_update_config, chainVars, BalancesInv, ClaimsInv, AirdropPaidOnce
<1>2. ASSUME NEW sender \in Owners, NEW leaves \in Snapshots, NEW d \in Durations,
             register_merkle_root(sender, leaves, now + d)
      PROVE  Goal
  <2>1. ClaimsInv' /\ AirdropPaidOnce'
    BY <1>2, RegisterKeepsClaims, AirdropAssumption
  <2>2. UNCHANGED glow
    BY <1>2 DEF register_merkle_root, chainVars
  <2> QED
    BY <1>0, <2>1, <2>2 DEF BalancesInv
<1>3. ASSUME NEW sender \in Owners, NEW recipient \in AirdropRecipients,
             execute_withdraw_expired_tokens(sender, recipient)
      PROVE  Goal
  <2>1. /\ AllExpired /\ CanTransfer("airdrop", glow["airdrop"])
        /\ glow' = Transferred("airdrop", recipient, glow["airdrop"])
        /\ UNCHANGED <<latest_stage, merkle_root, claimed, airdropped>>
    BY <1>3 DEF execute_withdraw_expired_tokens, airdropVars
  <2>2. BalancesInv' /\ \A h \in Treasuries \ {"airdrop"} : glow'[h] >= glow[h]
    <3>1. "airdrop" \in Treasuries /\ glow["airdrop"] \in Nat /\ recipient \in Holders
      BY AirdropAssumption DEF Treasuries, BalancesInv
    <3> QED
      BY <2>1, <3>1, TreasuryPays
  <2>3. ClaimsInv' /\ AirdropPaidOnce'
    BY <2>1 DEF ClaimsInv, AirdropPaidOnce
  <2>4. ~ \E stage \in Stages : Open(stage)
    BY <2>1 DEF AllExpired
  <2> QED
    BY <2>2, <2>3, <2>4
<1>4. ASSUME NEW u \in Users, NEW stage \in Stages, NEW leaf \in merkle_root[stage],
             airdrop_claim(u, stage, leaf[2])
      PROVE  Goal
  <2>1. leaf[2] \in Nat
    <3>1. stage \in 1..Len(merkle_root)
      BY DEF ClaimsInv, Stages
    <3>2. merkle_root[stage] \in SUBSET Leaf
      BY <3>1 DEF ClaimsInv
    <3> QED
      BY <3>2 DEF Leaf
  <2>2. CanTransfer("airdrop", leaf[2]) /\ glow' = Transferred("airdrop", u, leaf[2])
    BY <1>4 DEF airdrop_claim
  <2>3. BalancesInv' /\ \A h \in Treasuries \ {"airdrop"} : glow'[h] >= glow[h]
    <3>1. "airdrop" \in Treasuries /\ u \in Holders
      BY DEF Treasuries, Holders
    <3> QED
      BY <2>1, <2>2, <3>1, TreasuryPays
  <2>4. ClaimsInv' /\ AirdropPaidOnce' /\ claimed' # claimed
    BY <1>4, <2>1, ClaimKeepsClaims
  <2> QED
    BY <2>3, <2>4
<1> QED
  BY <1>1, <1>2, <1>3, <1>4 DEF AirdropStep

-----------------------------------------------------------------------------
(* Vesting.                                                                *)

LEMMA VestingStepFacts ==
    ASSUME FundsInv, VestingStep
    PROVE  BalancesInv' /\ \A h \in Treasuries : glow'[h] = glow[h]
<1> USE DEF FundsInv
<1>1. ASSUME NEW sender \in Owners, NEW owner \in Option(Owners), NEW genesis \in Option(GenesisTimes),
             vesting_update_config(sender, owner, genesis)
      PROVE  UNCHANGED glow
  BY <1>1 DEF vesting_update_config, chainVars
<1>2. ASSUME NEW sender \in Owners, NEW accounts \in VestingBatches,
             register_vesting_accounts(sender, accounts)
      PROVE  UNCHANGED glow
  BY <1>2, Zenon DEF register_vesting_accounts, chainVars
<1>3. ASSUME NEW u \in Users, vesting_claim(u)
      PROVE  BalancesInv' /\ \A h \in Treasuries : glow'[h] = glow[h]
  <2>1. glow' = Transferred("vesting", u, compute_claim_amount(now, vesting_info[u]))
    BY <1>3, Zenon DEF vesting_claim
  <2> QED
    BY <2>1, OthersPay
<1>4. ASSUME UNCHANGED glow
      PROVE  BalancesInv' /\ \A h \in Treasuries : glow'[h] = glow[h]
  BY <1>4 DEF BalancesInv
<1> QED
  BY <1>1, <1>2, <1>3, <1>4 DEF VestingStep

-----------------------------------------------------------------------------
(* The distributor.                                                        *)

\* A multiplier of at least one does not lower a rate.
LEMMA MultiplierGrows ==
    ASSUME NEW a \in Nat, NEW d \in Nat, d >= One
    PROVE  DecMul(a, d) \in Nat /\ a <= DecMul(a, d)
<1> DEFINE q == (a * d) \div One
<1>1. One \in Nat /\ One # 0 /\ a * d \in Nat
  BY OneAssumption
<1>2. q \in Nat /\ a * d < One * q + One
  BY <1>1, DivBounds
<1>3. One * a <= a * d
  BY <1>1, MulMono
<1> HIDE DEF q
<1>4. One * a < One * (q + 1)
  BY <1>1, <1>2, <1>3
<1>5. a <= q
  BY <1>1, <1>2, <1>4
<1> QED
  BY <1>2, <1>5 DEF q, DecMul

LEMMA GivenNat ==
    ASSUME NEW option \in Option(Nat), NEW default \in Nat
    PROVE  Given(option, default) \in Nat
BY DEF Option, Given

\* What the advice is, for a rate.
LEMMA AdviceBounds ==
    ASSUME EmissionInv, NEW current \in Nat, NEW target \in Nat, NEW r \in Nat
    PROVE  LET answer == query_glow_emission_rate(current, target, r)
           IN /\ answer \in Nat
              /\ distributor_config.emission_floor <= answer
              /\ answer <= distributor_config.emission_cap
              /\ current < target => Smaller(r, distributor_config.emission_cap) <= answer
              /\ current > target => answer <= Later(r, distributor_config.emission_floor)
<1> DEFINE cap == distributor_config.emission_cap
           low == distributor_config.emission_floor
           adjusted == Adjusted(current, target, r)
<1>1. /\ cap \in Nat /\ low \in Nat /\ low <= cap
      /\ distributor_config.increment_multiplier \in Nat
      /\ distributor_config.increment_multiplier >= One
      /\ distributor_config.decrement_multiplier \in Nat
      /\ distributor_config.decrement_multiplier <= One
  BY DEF EmissionInv, ValidEmission
<1>2. /\ adjusted \in Nat
      /\ current < target => r <= adjusted
      /\ current > target => adjusted <= r
  <2>1. CASE current < target
    BY <1>1, <2>1, MultiplierGrows DEF Adjusted
  <2>2. CASE current > target
    BY <1>1, <2>2, FractionBound, DecMulBounds DEF Adjusted
  <2>3. CASE current = target
    BY <2>3 DEF Adjusted
  <2> QED
    BY <2>1, <2>2, <2>3
<1>3. query_glow_emission_rate(current, target, r)
        = IF adjusted > cap THEN cap ELSE IF adjusted < low THEN low ELSE adjusted
  <2> HIDE DEF adjusted
  <2>1. Clamped(adjusted) = IF adjusted > cap THEN cap ELSE IF adjusted < low THEN low ELSE adjusted
    BY <1>1, <1>2 DEF Clamped
  <2> QED
    BY <2>1 DEF query_glow_emission_rate, adjusted
<1> HIDE DEF adjusted, cap, low
<1> QED
  BY <1>1, <1>2, <1>3 DEF Smaller, Later, cap, low

\* An update of the configuration that is accepted leaves one that
\* instantiate would accept.
LEMMA UpdateKeepsEmission ==
    ASSUME EmissionInv, NEW sender, NEW owner \in Option(Owners), NEW msg \in DistributorUpdate,
           distributor_update_config(sender, owner, msg)
    PROVE  EmissionInv'
<1> DEFINE c == distributor_config
<1>1. /\ ValidUpdate(c, msg) /\ c' = UpdatedConfig(c, owner, msg)
      /\ UNCHANGED emission_rate
  BY DEF distributor_update_config
<1>2. /\ c \in [owner : Owners, whitelist : {c.whitelist}, spend_limit : Nat,
                emission_cap : Nat, emission_floor : Nat,
                increment_multiplier : Nat, decrement_multiplier : Nat]
      /\ ValidEmission(c)
  BY DEF EmissionInv
<1>3. /\ Given(owner, c.owner) \in Owners
      /\ Given(msg.spend_limit, c.spend_limit) \in Nat
      /\ Given(msg.emission_cap, c.emission_cap) \in Nat
      /\ Given(msg.emission_floor, c.emission_floor) \in Nat
      /\ Given(msg.increment_multiplier, c.increment_multiplier) \in Nat
      /\ Given(msg.decrement_multiplier, c.decrement_multiplier) \in Nat
  BY <1>2, GivenNat DEF DistributorUpdate, Option, Given
<1>4. /\ c'.owner = Given(owner, c.owner)
      /\ c'.whitelist = c.whitelist
      /\ c'.spend_limit = Given(msg.spend_limit, c.spend_limit)
      /\ c'.emission_cap = Given(msg.emission_cap, c.emission_cap)
      /\ c'.emission_floor = Given(msg.emission_floor, c.emission_floor)
      /\ c'.increment_multiplier = Given(msg.increment_multiplier, c.increment_multiplier)
      /\ c'.decrement_multiplier = Given(msg.decrement_multiplier, c.decrement_multiplier)
      /\ c' \in [owner : Owners, whitelist : {c.whitelist}, spend_limit : Nat,
                 emission_cap : Nat, emission_floor : Nat,
                 increment_multiplier : Nat, decrement_multiplier : Nat]
  BY <1>1, <1>2, <1>3 DEF UpdatedConfig
<1>5. ValidEmission(c')
  <2>1. Given(msg.increment_multiplier, c.increment_multiplier) >= One
    BY <1>1, <1>2 DEF ValidUpdate, ValidEmission, Given
  <2>2. Given(msg.decrement_multiplier, c.decrement_multiplier) <= One
    BY <1>1, <1>2 DEF ValidUpdate, ValidEmission, Given
  <2>3. Given(msg.emission_floor, c.emission_floor) <= Given(msg.emission_cap, c.emission_cap)
    BY <1>1 DEF ValidUpdate
  <2> QED
    BY <1>4, <2>1, <2>2, <2>3 DEF ValidEmission
<1> QED
  BY <1>1, <1>4, <1>5 DEF EmissionInv

\* Changing the whitelist leaves the rest of the configuration alone.
LEMMA WhitelistKeepsEmission ==
    ASSUME EmissionInv, NEW list, UNCHANGED emission_rate,
           distributor_config' = [distributor_config EXCEPT !.whitelist = list]
    PROVE  EmissionInv'
<1> DEFINE c == distributor_config
<1>1. /\ c \in [owner : Owners, whitelist : {c.whitelist}, spend_limit : Nat,
                emission_cap : Nat, emission_floor : Nat,
                increment_multiplier : Nat, decrement_multiplier : Nat]
      /\ ValidEmission(c)
  BY DEF EmissionInv
<1>2. /\ c' \in [owner : Owners, whitelist : {c'.whitelist}, spend_limit : Nat,
                 emission_cap : Nat, emission_floor : Nat,
                 increment_multiplier : Nat, decrement_multiplier : Nat]
      /\ c'.emission_cap = c.emission_cap /\ c'.emission_floor = c.emission_floor
      /\ c'.increment_multiplier = c.increment_multiplier
      /\ c'.decrement_multiplier = c.decrement_multiplier
  BY <1>1
<1> QED
  BY <1>1, <1>2 DEF EmissionInv, ValidEmission

LEMMA FollowedAdvice ==
    ASSUME EmissionInv, NEW current \in Awards, NEW target \in Awards,
           FollowAdvice(current, target)
    PROVE  /\ emission_rate' \in Nat
           /\ distributor_config.emission_floor <= emission_rate'
           /\ emission_rate' <= distributor_config.emission_cap
           /\ current < target =>
                 Smaller(Given(emission_rate, 0), distributor_config.emission_cap) <= emission_rate'
           /\ current > target =>
                 emission_rate' <= Later(Given(emission_rate, 0), distributor_config.emission_floor)
<1>1. current \in Nat /\ target \in Nat /\ Given(emission_rate, 0) \in Nat
  BY DistributorAssumption, GivenNat DEF EmissionInv
<1>2. emission_rate' = query_glow_emission_rate(current, target, Given(emission_rate, 0))
  BY DEF FollowAdvice
<1> QED
  BY <1>1, <1>2, AdviceBounds

LEMMA DistributorStepFacts ==
    ASSUME FundsInv, DistributorStep
    PROVE  /\ BalancesInv' /\ EmissionInv'
           /\ \A h \in Treasuries \ {"distributor"} : glow'[h] >= glow[h]
           /\ glow'["distributor"] >= glow["distributor"] - distributor_config.spend_limit
<1> USE DEF FundsInv
<1> DEFINE Goal == /\ BalancesInv' /\ EmissionInv'
                   /\ \A h \in Treasuries \ {"distributor"} : glow'[h] >= glow[h]
                   /\ glow'["distributor"] >= glow["distributor"] - distributor_config.spend_limit
<1>0. ASSUME UNCHANGED glow, EmissionInv' PROVE Goal
  <2>1. distributor_config.spend_limit \in Nat /\ "distributor" \in Treasuries
    BY DEF EmissionInv, Treasuries
  <2> QED
    BY <1>0, <2>1 DEF BalancesInv
<1>1. ASSUME NEW sender \in Owners, NEW owner \in Option(Owners), NEW msg \in DistributorUpdates,
             distributor_update_config(sender, owner, msg)
      PROVE  Goal
  <2>1. EmissionInv'
    BY <1>1, UpdateKeepsEmission, DistributorAssumption
  <2> QED
    BY <1>0, <1>1, <2>1 DEF distributor_update_config, chainVars
<1>2. ASSUME NEW sender \in Owners, NEW a \in Spenders, add_distributor(sender, a)
      PROVE  Goal
  <2>1. EmissionInv'
    BY <1>2, WhitelistKeepsEmission DEF add_distributor
  <2> QED
    BY <1>0, <1>2, <2>1 DEF add_distributor, chainVars
<1>3. ASSUME NEW sender \in Owners, NEW a \in Spenders, remove_distributor(sender, a)
      PROVE  Goal
  <2>1. EmissionInv'
    BY <1>3, WhitelistKeepsEmission DEF remove_distributor
  <2> QED
    BY <1>0, <1>3, <2>1 DEF remove_distributor, chainVars
<1>4. ASSUME NEW sender \in Spenders, NEW recipient \in Users, NEW amount \in SpendAmounts,
             distributor_spend(sender, recipient, amount)
      PROVE  Goal
  <2>1. /\ amount <= distributor_config.spend_limit /\ CanTransfer("distributor", amount)
        /\ glow' = Transferred("distributor", recipient, amount)
        /\ UNCHANGED <<distributor_config, emission_rate>>
    BY <1>4 DEF distributor_spend, distributorVars
  <2>2. /\ "distributor" \in Treasuries /\ recipient \in Holders /\ amount \in Nat
        /\ glow["distributor"] \in Nat /\ distributor_config.spend_limit \in Nat
    BY DistributorAssumption DEF Treasuries, Holders, BalancesInv, EmissionInv
  <2>3. /\ BalancesInv' /\ \A h \in Treasuries \ {"distributor"} : glow'[h] >= glow[h]
        /\ glow'["distributor"] >= glow["distributor"] - amount
    BY <2>1, <2>2, TreasuryPays
  <2>4. glow'["distributor"] >= glow["distributor"] - distributor_config.spend_limit
    BY <2>1, <2>2, <2>3 DEF BalancesInv
  <2> QED
    BY <2>1, <2>3, <2>4 DEF EmissionInv
<1>5. ASSUME NEW current \in Awards, NEW target \in Awards, FollowAdvice(current, target)
      PROVE  Goal
  <2>1. emission_rate' \in Nat
    BY <1>5, FollowedAdvice
  <2>2. UNCHANGED <<glow, distributor_config>>
    BY <1>5 DEF FollowAdvice, chainVars
  <2> QED
    BY <1>0, <2>1, <2>2 DEF EmissionInv, Option
<1> QED
  BY <1>1, <1>2, <1>3, <1>4, <1>5 DEF DistributorStep

-----------------------------------------------------------------------------
(* The community fund.                                                     *)

LEMMA CommunityStepFacts ==
    ASSUME FundsInv, CommunityStep
    PROVE  /\ BalancesInv' /\ community_config' \in FundConfig
           /\ \A h \in {"airdrop", "distributor"} : glow'[h] >= glow[h]
           /\ glow'["community"] >= glow["community"] - community_config.spend_limit
<1> USE DEF FundsInv
<1> DEFINE Goal == /\ BalancesInv' /\ community_config' \in FundConfig
                   /\ \A h \in {"airdrop", "distributor"} : glow'[h] >= glow[h]
                   /\ glow'["community"] >= glow["community"] - community_config.spend_limit
<1>a. /\ community_config.spend_limit \in Nat
      /\ {"airdrop", "distributor", "community", "pair"} = Treasuries
      /\ \A h \in Treasuries : glow[h] \in Nat /\ h \in Holders
  BY TreasuriesHold DEF FundConfig, Treasuries, BalancesInv
<1>0. ASSUME UNCHANGED glow, community_config' \in FundConfig PROVE Goal
  BY <1>0, <1>a DEF BalancesInv
<1>1. ASSUME NEW sender \in Owners, NEW limit \in Option(FundLimits), NEW owner \in Option(Owners),
             community_update_config(sender, limit, owner)
      PROVE  Goal
  <2>1. Given(limit, community_config.spend_limit) \in Nat
        /\ Given(owner, community_config.owner) \in Owners
    BY <1>a, CommunityAssumption DEF Given, Option, FundConfig
  <2>2. community_config' \in FundConfig
    BY <1>1, <2>1 DEF community_update_config, FundConfig
  <2> QED
    BY <1>0, <1>1, <2>2 DEF community_update_config, chainVars
<1>2. ASSUME NEW sender \in Owners, NEW recipient \in Users, NEW amount \in FundAmounts,
             community_spend(sender, recipient, amount)
      PROVE  Goal
  <2>1. /\ amount <= community_config.spend_limit /\ CanTransfer("community", amount)
        /\ glow' = Transferred("community", recipient, amount) /\ UNCHANGED community_config
    BY <1>2 DEF community_spend, WithinLimit, communityVars
  <2>2. amount \in Nat /\ recipient \in Holders
    BY CommunityAssumption DEF Holders
  <2>3. /\ BalancesInv' /\ \A h \in Treasuries \ {"community"} : glow'[h] >= glow[h]
        /\ glow'["community"] >= glow["community"] - amount
    BY <1>a, <2>1, <2>2, TreasuryPays
  <2>4. glow'["community"] >= glow["community"] - community_config.spend_limit
    BY <1>a, <2>1, <2>2, <2>3 DEF BalancesInv
  <2> QED
    BY <1>a, <2>1, <2>3, <2>4
<1>3. ASSUME NEW sender \in Owners, NEW amount \in FundAmounts, transfer_stable(sender, amount)
      PROVE  Goal
  BY <1>0, <1>3 DEF transfer_stable, chainVars
<1>4. ASSUME NEW sender \in Owners, NEW amount \in FundAmounts, NEW award \in BOOLEAN,
             sponsor_lotto(sender, amount, award)
      PROVE  Goal
  BY <1>0, <1>4 DEF sponsor_lotto, chainVars
<1>5. ASSUME NEW sender \in Owners, withdraw_sponsor(sender)
      PROVE  Goal
  BY <1>0, <1>5 DEF withdraw_sponsor, chainVars
<1>6. ASSUME NEW sender \in Owners, NEW amount \in FundAmounts, NEW returned \in SwapReturns,
             execute_swap(sender, amount, returned)
      PROVE  Goal
  <2>1. /\ CanTransfer("pair", returned) /\ glow' = Transferred("pair", "community", returned)
        /\ UNCHANGED community_config
    BY <1>6 DEF execute_swap
  <2>2. returned \in Nat
    BY CommunityAssumption
  <2>3. BalancesInv' /\ \A h \in Treasuries \ {"pair"} : glow'[h] >= glow[h]
    BY <1>a, <2>1, <2>2, TreasuryPays
  <2>4. glow'["community"] >= glow["community"]
    BY <1>a, <2>3
  <2>5. glow'["community"] >= glow["community"] - community_config.spend_limit
    BY <1>a, <2>3, <2>4 DEF BalancesInv
  <2> QED
    BY <1>a, <2>1, <2>3, <2>5
<1>7. ASSUME NEW sender \in Owners, NEW amount \in FundAmounts, execute_burn(sender, amount)
      PROVE  Goal
  <2>1. /\ amount <= community_config.spend_limit /\ amount <= glow["community"]
        /\ glow' = [glow EXCEPT !["community"] = glow["community"] - amount]
        /\ UNCHANGED community_config
    BY <1>7 DEF execute_burn, WithinLimit, CanTransfer, communityVars
  <2>2. amount \in Nat
    BY CommunityAssumption
  <2>3. /\ DOMAIN glow' = Holders /\ glow'["community"] = glow["community"] - amount
        /\ \A h \in Treasuries \ {"community"} : glow'[h] = glow[h]
    BY <1>a, <2>1 DEF BalancesInv
  <2>4. BalancesInv'
    BY <1>a, <2>1, <2>2, <2>3 DEF BalancesInv
  <2>5. glow'["community"] >= glow["community"] - community_config.spend_limit
    BY <1>a, <2>1, <2>2, <2>3
  <2> QED
    BY <1>a, <2>1, <2>3, <2>4, <2>5
<1>8. ASSUME NEW lotto \in Lottos, community_migrate(lotto)
      PROVE  Goal
  <2>1. community_config' \in FundConfig
    BY <1>8 DEF community_migrate, FundConfig, Option
  <2> QED
    BY <1>0, <1>8, <2>1 DEF community_migrate, chainVars
<1> QED
  BY <1>1, <1>2, <1>3, <1>4, <1>5, <1>6, <1>7, <1>8 DEF CommunityStep

-----------------------------------------------------------------------------
(* All contracts together.                                                 *)

\* What any step does to the four treasuries.
StepBounds ==
    /\ (\E stage \in Stages : Open(stage)) /\ glow'["airdrop"] < glow["airdrop"]
          => claimed' # claimed
    /\ glow["distributor"] - glow'["distributor"] <= distributor_config.spend_limit
    /\ glow["community"] - glow'["community"] <= community_config.spend_limit

LEMMA StepBoundsFromBalances ==
    ASSUME FundsInv, BalancesInv',
           (\E stage \in Stages : Open(stage)) /\ claimed' = claimed
              => glow'["airdrop"] >= glow["airdrop"],
           glow'["distributor"] >= glow["distributor"] - distributor_config.spend_limit,
           glow'["community"] >= glow["community"] - community_config.spend_limit
    PROVE  StepBounds
<1>1. \A h \in {"airdrop", "distributor", "community"} : glow[h] \in Nat /\ glow'[h] \in Nat
  BY DEF FundsInv, BalancesInv, Treasuries
<1>2. distributor_config.spend_limit \in Nat /\ community_config.spend_limit \in Nat
  BY DEF FundsInv, EmissionInv, FundConfig
<1> QED
  BY <1>1, <1>2 DEF StepBounds

LEMMA FundsNextPreserves ==
    ASSUME FundsInv, [FundsNext]_fundVars
    PROVE  FundsInv' /\ StepBounds
<1>a. /\ distributor_config.spend_limit \in Nat /\ community_config.spend_limit \in Nat
      /\ \A h \in {"airdrop", "distributor", "community"} : h \in Treasuries /\ glow[h] \in Nat
  BY DEF FundsInv, EmissionInv, FundConfig, BalancesInv, Treasuries
<1>b. ASSUME BalancesInv', NEW h \in {"airdrop", "distributor", "community"},
             NEW limit \in Nat, glow'[h] >= glow[h]
      PROVE  glow'[h] >= glow[h] - limit
  BY <1>a, <1>b DEF BalancesInv
<1>1. ASSUME AirdropStep, UNCHANGED <<vestingVars, distributorVars, communityVars>>
      PROVE  FundsInv' /\ StepBounds
  <2>1. UNCHANGED <<distributor_config, emission_rate, community_config>>
    BY <1>1 DEF distributorVars, communityVars
  <2>2. /\ BalancesInv' /\ ClaimsInv' /\ AirdropPaidOnce'
        /\ \A h \in Treasuries \ {"airdrop"} : glow'[h] >= glow[h]
        /\ (\E stage \in Stages : Open(stage)) /\ glow' # glow => claimed' # claimed
    BY <1>1, AirdropStepFacts
  <2>3. FundsInv'
    BY <2>1, <2>2 DEF FundsInv, EmissionInv
  <2>4. /\ glow'["distributor"] >= glow["distributor"] - distributor_config.spend_limit
        /\ glow'["community"] >= glow["community"] - community_config.spend_limit
    BY <1>a, <1>b, <2>2
  <2>5. (\E stage \in Stages : Open(stage)) /\ claimed' = claimed
           => glow'["airdrop"] >= glow["airdrop"]
    BY <1>a, <2>2
  <2> QED
    BY <2>2, <2>3, <2>4, <2>5, StepBoundsFromBalances
<1>2. ASSUME VestingStep, UNCHANGED <<airdropVars, distributorVars, communityVars>>
      PROVE  FundsInv' /\ StepBounds
  <2>1. UNCHANGED <<latest_stage, merkle_root, claimed, airdropped,
                    distributor_config, emission_rate, community_config>>
    BY <1>2 DEF airdropVars, distributorVars, communityVars
  <2>2. BalancesInv' /\ \A h \in Treasuries : glow'[h] = glow[h]
    BY <1>2, VestingStepFacts
  <2>3. FundsInv'
    BY <2>1, <2>2 DEF FundsInv, EmissionInv, ClaimsInv, AirdropPaidOnce
  <2>4. \A h \in {"airdrop", "distributor", "community"} : glow'[h] >= glow[h]
    BY <1>a, <2>2
  <2>5. /\ glow'["distributor"] >= glow["distributor"] - distributor_config.spend_limit
        /\ glow'["community"] >= glow["community"] - community_config.spend_limit
    BY <1>a, <1>b, <2>2, <2>4
  <2> QED
    BY <2>2, <2>3, <2>4, <2>5, StepBoundsFromBalances
<1>3. ASSUME DistributorStep, UNCHANGED <<airdropVars, vestingVars, communityVars>>
      PROVE  FundsInv' /\ StepBounds
  <2>1. UNCHANGED <<latest_stage, merkle_root, claimed, airdropped, community_config>>
    BY <1>3 DEF airdropVars, communityVars
  <2>2. /\ BalancesInv' /\ EmissionInv'
        /\ \A h \in Treasuries \ {"distributor"} : glow'[h] >= glow[h]
        /\ glow'["distributor"] >= glow["distributor"] - distributor_config.spend_limit
    BY <1>3, DistributorStepFacts
  <2>3. FundsInv'
    BY <2>1, <2>2 DEF FundsInv, ClaimsInv, AirdropPaidOnce
  <2>4. glow'["airdrop"] >= glow["airdrop"] /\ glow'["community"] >= glow["community"]
    BY <1>a, <2>2
  <2>5. glow'["community"] >= glow["community"] - community_config.spend_limit
    BY <1>a, <1>b, <2>2, <2>4
  <2> QED
    BY <2>2, <2>3, <2>4, <2>5, StepBoundsFromBalances
<1>4. ASSUME CommunityStep, UNCHANGED <<airdropVars, vestingVars, distributorVars>>
      PROVE  FundsInv' /\ StepBounds
  <2>1. UNCHANGED <<latest_stage, merkle_root, claimed, airdropped,
                    distributor_config, emission_rate>>
    BY <1>4 DEF airdropVars, distributorVars
  <2>2. /\ BalancesInv' /\ community_config' \in FundConfig
        /\ \A h \in {"airdrop", "distributor"} : glow'[h] >= glow[h]
        /\ glow'["community"] >= glow["community"] - community_config.spend_limit
    BY <1>4, CommunityStepFacts
  <2>3. FundsInv'
    BY <2>1, <2>2 DEF FundsInv, EmissionInv, ClaimsInv, AirdropPaidOnce
  <2>4. glow'["distributor"] >= glow["distributor"] - distributor_config.spend_limit
    BY <1>a, <1>b, <2>2
  <2> QED
    BY <2>2, <2>3, <2>4, StepBoundsFromBalances
<1>5. ASSUME UNCHANGED <<glow, airdropVars, distributorVars, communityVars>>
      PROVE  FundsInv' /\ StepBounds
  <2>1. UNCHANGED <<latest_stage, merkle_root, claimed, airdropped,
                    distributor_config, emission_rate, community_config, glow>>
    BY <1>5 DEF airdropVars, distributorVars, communityVars
  <2>2. FundsInv'
    BY <2>1 DEF FundsInv, BalancesInv, EmissionInv, ClaimsInv, AirdropPaidOnce
  <2>3. StepBounds
    BY <1>a, <2>1 DEF StepBounds
  <2> QED
    BY <2>2, <2>3
<1>6. CASE Tick /\ UNCHANGED <<airdropVars, vestingVars, distributorVars, communityVars>>
  BY <1>5, <1>6 DEF Tick
<1>7. CASE UNCHANGED fundVars
  BY <1>5, <1>7 DEF fundVars, chainVars
<1> QED
  BY <1>1, <1>2, <1>3, <1>4, <1>6, <1>7 DEF FundsNext

LEMMA FundsInvariant == FundsSpec => []FundsInv
<1>1. FundsInit => FundsInv
  BY FundsInitEstablishes
<1>2. FundsInv /\ [FundsNext]_fundVars => FundsInv'
  BY FundsNextPreserves
<1> QED
  BY <1>1, <1>2, PTL DEF FundsSpec

\* claim pays a user one leaf of a stage's snapshot, once, for any number of
\* stages and any snapshots.
THEOREM AirdropPaysOnce == FundsSpec => []AirdropPaidOnce
<1>1. FundsInv => AirdropPaidOnce
  BY DEF FundsInv
<1> QED
  BY <1>1, FundsInvariant, PTL

\* Neither withdraw_expired_tokens nor any message of another contract takes
\* from the airdrop's GLOW while a stage is open; only claims do.
THEOREM AirdropKeepsOpenStages == FundsSpec => OpenStagesUntouched
<1>1. FundsInv /\ [FundsNext]_fundVars
         => [(\E stage \in Stages : Open(stage)) /\ glow'["airdrop"] < glow["airdrop"]
                => claimed' # claimed]_fundVars
  BY FundsNextPreserves DEF StepBounds
<1> QED
  BY <1>1, FundsInvariant, PTL DEF FundsSpec, OpenStagesUntouched

\* The distributor's spend and the community fund's spend and burn stay
\* within the limits, and no other message takes their GLOW.
THEOREM SpendingIsLimited == FundsSpec => SpendLimited
<1>1. FundsInv /\ [FundsNext]_fundVars
         => [/\ glow["distributor"] - glow'["distributor"] <= distributor_config.spend_limit
             /\ glow["community"] - glow'["community"] <= community_config.spend_limit]_fundVars
  BY FundsNextPreserves DEF StepBounds
<1> QED
  BY <1>1, FundsInvariant, PTL DEF FundsSpec, SpendLimited

\* query_glow_emission_rate answers within the floor and the cap, and in the
\* direction of the award, after any sequence of updates of the distributor.
THEOREM AdviceStaysWithinBand == FundsSpec => AdviceWithinBand
<1> DEFINE Advice == \A current, target \in Awards :
          FollowAdvice(current, target) =>
              /\ distributor_config.emission_floor <= emission_rate'
              /\ emission_rate' <= distributor_config.emission_cap
              /\ current < target =>
                    Smaller(Given(emission_rate, 0), distributor_config.emission_cap) <= emission_rate'
              /\ current > target =>
                    emission_rate' <= Later(Given(emission_rate, 0), distributor_config.emission_floor)
<1>1. FundsInv => [Advice]_fundVars
  BY FollowedAdvice DEF FundsInv
<1> QED
  BY <1>1, FundsInvariant, PTL DEF AdviceWithinBand

-----------------------------------------------------------------------------
(* Vesting schedules.                                                      *)

ScheduleOK(s) == s[1] \in Nat /\ s[2] \in Nat /\ s[3] \in Nat /\ s[1] < s[2]

\* GLOW per second.
RateOf(s) == from_ratio(s[3], s[2] - s[1])

\* How much of a schedule has passed at time t.
Elapsed(s, t) == IF t <= s[1] THEN 0 ELSE Smaller(s[2], t) - s[1]

LEMMA RateBounds ==
    ASSUME NEW s, ScheduleOK(s)
    PROVE  /\ RateOf(s) \in Nat /\ s[2] - s[1] \in Nat \ {0} /\ s[3] \in Nat
           /\ (s[2] - s[1]) * RateOf(s) <= s[3] * One
           /\ s[3] * One < (s[2] - s[1]) * RateOf(s) + (s[2] - s[1])
<1> DEFINE len == s[2] - s[1]
           x == s[3] * One
<1>1. len \in Nat \ {0} /\ x \in Nat /\ s[3] \in Nat
  BY OneAssumption, MulNat DEF ScheduleOK
<1>2. RateOf(s) = x \div len
  BY DEF RateOf, from_ratio
<1> HIDE DEF len, x
<1>3. /\ x \div len \in Nat /\ len * (x \div len) <= x
      /\ x < len * (x \div len) + len
  BY <1>1, DivBounds
<1> QED
  BY <1>1, <1>2, <1>3 DEF len, x

LEMMA ElapsedTyped ==
    ASSUME NEW s, ScheduleOK(s), NEW t \in Nat
    PROVE  Elapsed(s, t) \in Nat /\ Elapsed(s, t) <= s[2] - s[1]
BY DEF Elapsed, Smaller, ScheduleOK

\* A claim pays for the time that has passed since the last one.
LEMMA ClaimedTime ==
    ASSUME NEW s, ScheduleOK(s), NEW a \in Nat, NEW b \in Nat, a <= b \/ s[1] >= a
    PROVE  \E x \in Nat : /\ Elapsed(s, a) + x = Elapsed(s, b)
                          /\ Released(s, a, b) = DecMul(x, RateOf(s))
<1>0. s[1] \in Nat /\ s[2] \in Nat /\ s[3] \in Nat /\ s[1] < s[2]
  BY DEF ScheduleOK
<1>1. CASE s[1] > b \/ s[2] < a
  <2>1. Released(s, a, b) = 0
    BY <1>1 DEF Released
  <2>2. Elapsed(s, a) + 0 = Elapsed(s, b)
    BY <1>0, <1>1 DEF Elapsed, Smaller
  <2>3. DecMul(0, RateOf(s)) = 0
    BY RateBounds, OneAssumption DEF DecMul
  <2> QED
    BY <2>1, <2>2, <2>3
<1>2. CASE ~(s[1] > b \/ s[2] < a)
  <2> DEFINE x == Smaller(s[2], b) - Later(s[1], a)
  <2>1. Released(s, a, b) = DecMul(x, RateOf(s))
    BY <1>2 DEF Released, RateOf
  <2>2. x \in Nat
    BY <1>0, <1>2 DEF Smaller, Later
  <2>3. Elapsed(s, a) + x = Elapsed(s, b)
    BY <1>0, <1>2 DEF Elapsed, Smaller, Later
  <2> QED
    BY <2>1, <2>2, <2>3
<1> QED
  BY <1>1, <1>2

LEMMA VestedIs ==
    ASSUME NEW s, ScheduleOK(s), NEW t \in Nat
    PROVE  /\ Vested(s, t) \in Nat
           /\ (s[2] - s[1]) * Vested(s, t) <= s[3] * Elapsed(s, t)
           /\ s[3] * Elapsed(s, t) < (s[2] - s[1]) * Vested(s, t) + (s[2] - s[1])
<1> DEFINE len == s[2] - s[1]
           e == Elapsed(s, t)
           x == s[3] * e
<1>1. len \in Nat \ {0} /\ s[3] \in Nat /\ e \in Nat
  BY ElapsedTyped DEF ScheduleOK
<1>2. Vested(s, t) = x \div len
  <2>1. CASE t <= s[1]
    <3>1. x = 0 /\ Vested(s, t) = 0
      BY <1>1, <2>1 DEF Elapsed, Vested
    <3>2. 0 \div len = 0
      BY <1>1
    <3> QED
      BY <3>1, <3>2
  <2>2. CASE ~(t <= s[1])
    BY <2>2 DEF Elapsed, Vested
  <2> QED
    BY <2>1, <2>2
<1>3. x \in Nat
  BY <1>1, MulNat
<1> HIDE DEF len, x
<1>4. /\ x \div len \in Nat /\ len * (x \div len) <= x
      /\ x < len * (x \div len) + len
  BY <1>1, <1>3, DivBounds
<1> QED
  BY <1>2, <1>4 DEF len, x

LEMMA PaidBounds ==
    ASSUME NEW x \in Nat, NEW rate \in Nat
    PROVE  /\ DecMul(x, rate) \in Nat /\ One * DecMul(x, rate) <= x * rate
           /\ x * rate < One * DecMul(x, rate) + One
<1>1. x * rate \in Nat
  BY MulNat
<1> QED
  BY <1>1, OneAssumption, DivBounds DEF DecMul

\* Rounding the rate and the payment down pays no more than has vested.
LEMMA RoundedDown ==
    ASSUME NEW len \in Nat \ {0}, NEW amount \in Nat, NEW rate \in Nat, NEW x \in Nat,
           NEW p \in Nat, len * rate <= amount * One, One * p <= x * rate
    PROVE  p * len <= amount * x
<1>0. One \in Nat \ {0}
  BY OneAssumption
<1> DEFINE pl == p * len
           ax == amount * x
           lr == len * rate
           xr == x * rate
           ao == amount * One
<1>1. /\ pl \in Nat /\ ax \in Nat /\ lr \in Nat /\ xr \in Nat /\ ao \in Nat /\ One * p \in Nat
  BY <1>0, MulNat
<1>2. (One * p) * len <= xr * len
  BY <1>1, MulMono
<1>3. lr * x <= ao * x
  BY <1>1, MulMono
<1>4. /\ (One * p) * len = pl * One /\ xr * len = lr * x /\ ao * x = ax * One
  BY <1>0
<1>5. pl * One <= ax * One
  <2>1. xr * len \in Nat /\ pl * One \in Nat /\ ax * One \in Nat
    BY <1>0, <1>1, MulNat
  <2> HIDE DEF pl, ax, lr, xr, ao
  <2> QED
    BY <1>2, <1>3, <1>4, <2>1
<1> HIDE DEF pl, ax
<1>6. pl <= ax
  BY <1>0, <1>1, <1>5, MulCancel
<1> QED
  BY <1>6 DEF pl, ax

\* What a claim takes from one schedule.
LEMMA SchedulePays ==
    ASSUME NEW s, ScheduleOK(s), NEW a \in Nat, NEW b \in Nat, a <= b \/ s[1] >= a
    PROVE  /\ Released(s, a, b) \in Nat
           /\ Released(s, a, b) + Vested(s, a) <= Vested(s, b)
           /\ RateOf(s) * Elapsed(s, b)
                <= One * Released(s, a, b) + One + RateOf(s) * Elapsed(s, a)
           /\ a = b => Released(s, a, b) = 0
<1> DEFINE len == s[2] - s[1]
           amount == s[3]
           rate == RateOf(s)
           ea == Elapsed(s, a)
           eb == Elapsed(s, b)
           va == Vested(s, a)
           vb == Vested(s, b)
           p == Released(s, a, b)
<1>1. PICK x \in Nat : ea + x = eb /\ p = DecMul(x, rate)
  BY ClaimedTime
<1>2. /\ rate \in Nat /\ len \in Nat \ {0} /\ amount \in Nat /\ len * rate <= amount * One
  BY RateBounds
<1>3. ea \in Nat /\ eb \in Nat
  BY ElapsedTyped
<1>4. /\ va \in Nat /\ len * va <= amount * ea
      /\ vb \in Nat /\ amount * eb < len * vb + len
  BY VestedIs
<1>5. p \in Nat /\ One * p <= x * rate /\ x * rate < One * p + One
  BY <1>1, <1>2, PaidBounds
<1>6. a = b => x = 0
  <2>1. a = b => ea = eb
    OBVIOUS
  <2> HIDE DEF ea, eb
  <2> QED
    BY <1>1, <1>3, <2>1
<1>7. DecMul(0, rate) = 0
  BY <1>2, OneAssumption DEF DecMul
<1>8. a = b => p = 0
  BY <1>1, <1>6, <1>7
<1> HIDE DEF len, amount, rate, ea, eb, va, vb, p
<1>9. p * len <= amount * x
  BY <1>2, <1>5, RoundedDown
<1>10. /\ amount * eb = amount * ea + amount * x /\ rate * eb = rate * ea + x * rate
       /\ amount * ea \in Nat /\ amount * x \in Nat /\ rate * ea \in Nat /\ x * rate \in Nat
       /\ len * va \in Nat /\ len * vb \in Nat /\ p * len \in Nat
  <2>1. eb = ea + x
    BY <1>1
  <2>2. amount * (ea + x) = amount * ea + amount * x /\ rate * (ea + x) = rate * ea + x * rate
    BY <1>2, <1>3
  <2> QED
    BY <1>2, <1>3, <1>4, <1>5, <2>1, <2>2, MulNat
<1>11. p + va <= vb
  <2>1. SUFFICES ASSUME p + va >= vb + 1 PROVE FALSE
    BY <1>4, <1>5
  <2>2. (vb + 1) * len <= (p + va) * len
    BY <1>2, <1>4, <1>5, <2>1, MulMono
  <2>3. (vb + 1) * len = len * vb + len /\ (p + va) * len = p * len + len * va
    BY <1>2, <1>4, <1>5
  <2> QED
    BY <1>2, <1>4, <1>9, <1>10, <2>2, <2>3
<1>12. rate * eb <= One * p + One + rate * ea
  <2>1. One * p \in Nat /\ One \in Nat
    BY <1>5, OneAssumption, MulNat
  <2> QED
    BY <1>5, <1>10, <2>1
<1> QED
  BY <1>5, <1>8, <1>11, <1>12 DEF rate, ea, eb, va, vb, p

\* The rounded rate loses at most one unit over a schedule.
LEMMA RateLoss ==
    ASSUME NEW s, ScheduleOK(s), NEW t \in Nat, s[2] - s[1] <= One
    PROVE  One * Vested(s, t) <= RateOf(s) * Elapsed(s, t) + One
<1> DEFINE len == s[2] - s[1]
           amount == s[3]
           rate == RateOf(s)
           e == Elapsed(s, t)
           v == Vested(s, t)
<1>1. /\ rate \in Nat /\ len \in Nat \ {0} /\ amount \in Nat
      /\ amount * One < len * rate + len
  BY RateBounds
<1>2. e \in Nat /\ e <= len /\ len <= One
  BY ElapsedTyped
<1>3. v \in Nat /\ len * v <= amount * e
  BY VestedIs
<1>4. One \in Nat \ {0}
  BY OneAssumption
<1> HIDE DEF len, amount, rate, e, v
<1> DEFINE ov == One * v
           k == (rate + 1) * e
<1>5. ov \in Nat /\ k \in Nat /\ rate * e \in Nat /\ k = rate * e + e
  <2>1. rate + 1 \in Nat /\ (rate + 1) * e = rate * e + e
    BY <1>1, <1>2
  <2> QED
    BY <1>1, <1>2, <1>3, <1>4, <2>1, MulNat
<1>6. ov * len <= k * len
  <2>1. len * v \in Nat /\ amount * e \in Nat /\ amount * One \in Nat /\ len * rate + len \in Nat
    BY <1>1, <1>2, <1>3, <1>4, MulNat
  <2>2. (len * v) * One <= (amount * e) * One
    BY <1>3, <1>4, <2>1, MulMono
  <2>3. (amount * One) * e <= (len * rate + len) * e
    <3>1. amount * One <= len * rate + len
      BY <1>1, <2>1
    <3> QED
      BY <1>2, <2>1, <3>1, MulMono
  <2>4. /\ (len * v) * One = ov * len /\ (amount * e) * One = (amount * One) * e
        /\ (len * rate + len) * e = k * len
    BY <1>1, <1>2, <1>3, <1>4
  <2>5. (amount * One) * e \in Nat /\ ov * len \in Nat /\ k * len \in Nat
    BY <1>1, <1>2, <1>5, <2>1, MulNat
  <2> HIDE DEF ov, k
  <2> QED
    BY <2>2, <2>3, <2>4, <2>5
<1> HIDE DEF ov, k
<1>7. ov <= k
  BY <1>1, <1>5, <1>6, MulCancel
<1>8. ov <= rate * e + One
  BY <1>1, <1>2, <1>4, <1>5, <1>7
<1> QED
  BY <1>8 DEF ov, rate, e, v

\* An account's schedules together.
VestedIn(schedules, t) == [i \in DOMAIN schedules |-> Vested(schedules[i], t)]
EarnedIn(schedules, t) == [i \in DOMAIN schedules |-> RateOf(schedules[i]) * Elapsed(schedules[i], t)]
TotalVested(schedules, t) == SumFunctionOnSet(VestedIn(schedules, t), DOMAIN schedules)
TotalEarned(schedules, t) == SumFunctionOnSet(EarnedIn(schedules, t), DOMAIN schedules)

SchedulesOK(schedules) ==
    /\ IsFiniteSet(DOMAIN schedules) /\ Cardinality(DOMAIN schedules) = Len(schedules)
    /\ Len(schedules) \in Nat
    /\ \A i \in DOMAIN schedules : ScheduleOK(schedules[i])

\* A time that a claim may be paid from at time t: the past, or a genesis
\* time that nothing starts before.
ClaimableFrom(schedules, last, t) == last <= t \/ \A i \in DOMAIN schedules : schedules[i][1] >= last

\* What an account with these schedules was paid by c claims up to time last
\* is not more than has vested, and less by at most one unit for each claim
\* and schedule than the rounded rates earn.
PaidInFull(schedules, last, p, c) ==
    /\ p <= TotalVested(schedules, last)
    /\ TotalEarned(schedules, last) <= One * (p + c * Len(schedules))

AccountOK(info, p, c, t) ==
    /\ SchedulesOK(info.schedules) /\ info.last_claim_time \in Nat
    /\ info \in [last_claim_time : {info.last_claim_time}, schedules : {info.schedules}]
    /\ ClaimableFrom(info.schedules, info.last_claim_time, t)
    /\ p \in Nat /\ c \in Nat
    /\ PaidInFull(info.schedules, info.last_claim_time, p, c)

LEMMA TotalsTyped ==
    ASSUME NEW schedules, SchedulesOK(schedules), NEW t \in Nat
    PROVE  TotalVested(schedules, t) \in Nat /\ TotalEarned(schedules, t) \in Nat
<1> DEFINE D == DOMAIN schedules
           f == VestedIn(schedules, t)
           g == EarnedIn(schedules, t)
<1>1. ASSUME NEW i \in D PROVE f[i] \in Nat /\ g[i] \in Nat
  <2>1. ScheduleOK(schedules[i])
    BY DEF SchedulesOK
  <2>2. Vested(schedules[i], t) \in Nat /\ RateOf(schedules[i]) \in Nat
        /\ Elapsed(schedules[i], t) \in Nat
    BY <2>1, VestedIs, RateBounds, ElapsedTyped
  <2>3. RateOf(schedules[i]) * Elapsed(schedules[i], t) \in Nat
    BY <2>2, MulNat
  <2> QED
    BY <2>2, <2>3 DEF VestedIn, EarnedIn
<1>2. IsFiniteSet(D)
  BY DEF SchedulesOK
<1> HIDE DEF D, f, g
<1>3. SumFunctionOnSet(f, D) \in Nat /\ SumFunctionOnSet(g, D) \in Nat
  BY <1>1, <1>2, SumNat
<1> QED
  BY <1>3 DEF TotalVested, TotalEarned, D, f, g

\* Nothing has vested when nothing has started.
LEMMA NothingVested ==
    ASSUME NEW schedules, SchedulesOK(schedules), NEW t \in Nat,
           \A i \in DOMAIN schedules : t <= schedules[i][1]
    PROVE  PaidInFull(schedules, t, 0, 0)
<1> DEFINE D == DOMAIN schedules
           f == VestedIn(schedules, t)
           g == EarnedIn(schedules, t)
<1>1. ASSUME NEW i \in D PROVE f[i] = 0 /\ g[i] = 0
  <2>1. ScheduleOK(schedules[i])
    BY DEF SchedulesOK
  <2>2. Vested(schedules[i], t) = 0 /\ Elapsed(schedules[i], t) = 0
    BY DEF Vested, Elapsed
  <2>3. RateOf(schedules[i]) * 0 = 0
    BY <2>1, RateBounds
  <2> QED
    BY <2>2, <2>3 DEF VestedIn, EarnedIn
<1>2. IsFiniteSet(D)
  BY DEF SchedulesOK
<1> HIDE DEF D, f, g
<1>3. SumFunctionOnSet(f, D) = 0 /\ SumFunctionOnSet(g, D) = 0
  BY <1>1, <1>2, SumZero
<1>4. 0 <= One * (0 + 0 * Len(schedules))
  <2>1. Len(schedules) \in Nat /\ One \in Nat
    BY OneAssumption DEF SchedulesOK
  <2> QED
    BY <2>1
<1> QED
  BY <1>3, <1>4 DEF PaidInFull, TotalVested, TotalEarned, D, f, g

\* A claim keeps the account paid in full.
LEMMA ClaimPays ==
    ASSUME NEW schedules, SchedulesOK(schedules), NEW a \in Nat, NEW b \in Nat,
           ClaimableFrom(schedules, a, b), NEW p \in Nat, NEW c \in Nat,
           PaidInFull(schedules, a, p, c), NEW pay, NEW d,
           pay = SumFunction([i \in DOMAIN schedules |-> Released(schedules[i], a, b)]),
           d = IF a = b THEN c ELSE c + 1
    PROVE  pay \in Nat /\ PaidInFull(schedules, b, p + pay, d)
<1> DEFINE D == DOMAIN schedules
           n == Len(schedules)
           r == [i \in D |-> Released(schedules[i], a, b)]
           v == VestedIn(schedules, a)
           w == VestedIn(schedules, b)
           e == EarnedIn(schedules, a)
           h == EarnedIn(schedules, b)
           rv == [i \in D |-> r[i] + v[i]]
           k == [i \in D |-> One]
           er == [i \in D |-> One * r[i]]
           ek == [i \in D |-> er[i] + k[i]]
           all == [i \in D |-> ek[i] + e[i]]
<1>0. IsFiniteSet(D) /\ Cardinality(D) = n /\ n \in Nat /\ One \in Nat \ {0}
  BY OneAssumption DEF SchedulesOK
<1>1. ASSUME NEW i \in D
      PROVE  /\ r[i] \in Nat /\ v[i] \in Nat /\ w[i] \in Nat /\ e[i] \in Nat /\ h[i] \in Nat
             /\ r[i] + v[i] <= w[i] /\ h[i] <= One * r[i] + One + e[i]
             /\ a = b => r[i] = 0
  <2> DEFINE s == schedules[i]
  <2>1. ScheduleOK(s) /\ (a <= b \/ s[1] >= a)
    BY DEF SchedulesOK, ClaimableFrom
  <2>2. r[i] = Released(s, a, b) /\ v[i] = Vested(s, a) /\ w[i] = Vested(s, b)
        /\ e[i] = RateOf(s) * Elapsed(s, a) /\ h[i] = RateOf(s) * Elapsed(s, b)
    BY DEF VestedIn, EarnedIn
  <2> HIDE DEF s, r, v, w, e, h
  <2>3. /\ Released(s, a, b) \in Nat
        /\ Released(s, a, b) + Vested(s, a) <= Vested(s, b)
        /\ RateOf(s) * Elapsed(s, b) <= One * Released(s, a, b) + One + RateOf(s) * Elapsed(s, a)
        /\ a = b => Released(s, a, b) = 0
    BY <2>1, SchedulePays
  <2>4. Vested(s, a) \in Nat /\ Vested(s, b) \in Nat /\ RateOf(s) \in Nat
        /\ Elapsed(s, a) \in Nat /\ Elapsed(s, b) \in Nat
    BY <2>1, VestedIs, RateBounds, ElapsedTyped
  <2>5. RateOf(s) * Elapsed(s, a) \in Nat /\ RateOf(s) * Elapsed(s, b) \in Nat
    BY <2>4, MulNat
  <2> QED
    BY <2>2, <2>3, <2>4, <2>5
<1>2. /\ \A i \in D : rv[i] = r[i] + v[i]
      /\ \A i \in D : k[i] = One
      /\ \A i \in D : er[i] = One * r[i]
      /\ \A i \in D : ek[i] = er[i] + k[i]
      /\ \A i \in D : all[i] = ek[i] + e[i]
  OBVIOUS
<1>3. DOMAIN r = D /\ pay = SumFunction(r)
  OBVIOUS
<1> HIDE DEF D, n, r, v, w, e, h, rv, k, er, ek, all
<1>4. pay = SumFunctionOnSet(r, D)
  BY <1>3, SumOnDomain
<1>5. /\ \A i \in D : r[i] \in Nat
      /\ \A i \in D : r[i] \in Int
      /\ \A i \in D : v[i] \in Int
      /\ \A i \in D : w[i] \in Int
      /\ \A i \in D : e[i] \in Int
      /\ \A i \in D : h[i] \in Int
  BY <1>1
<1>6. /\ \A i \in D : rv[i] \in Int
      /\ \A i \in D : k[i] \in Int
      /\ \A i \in D : er[i] \in Int
  BY <1>0, <1>1, <1>2
<1>7. \A i \in D : ek[i] \in Int
  BY <1>2, <1>6
<1>8. \A i \in D : all[i] \in Int
  BY <1>2, <1>5, <1>7
<1>9. pay \in Nat
  BY <1>0, <1>4, <1>5, SumNat
<1>10. /\ SumFunctionOnSet(v, D) \in Int /\ SumFunctionOnSet(w, D) \in Int
       /\ SumFunctionOnSet(e, D) \in Int /\ SumFunctionOnSet(h, D) \in Int
  BY <1>0, <1>5, SumInt
<1>11. pay + SumFunctionOnSet(v, D) <= SumFunctionOnSet(w, D)
  <2>1. SumFunctionOnSet(rv, D) = SumFunctionOnSet(r, D) + SumFunctionOnSet(v, D)
    BY <1>0, <1>2, <1>5, SumPlus
  <2>2. \A i \in D : rv[i] <= w[i]
    BY <1>1, <1>2
  <2>3. SumFunctionOnSet(rv, D) <= SumFunctionOnSet(w, D)
    BY <1>0, <1>5, <1>6, <2>2, SumBelow
  <2> QED
    BY <1>4, <2>1, <2>3
<1>12. /\ p <= SumFunctionOnSet(v, D)
       /\ SumFunctionOnSet(e, D) <= One * (p + c * n)
  BY DEF PaidInFull, TotalVested, TotalEarned, D, v, e, n
<1>13. SumFunctionOnSet(h, D) <= One * ((p + pay) + d * n)
  <2>1. CASE a = b
    <3>1. h = e /\ d = c
      BY <2>1 DEF h, e
    <3>2. \A i \in D : r[i] = 0
      BY <1>1, <2>1
    <3>3. pay = 0
      BY <1>0, <1>4, <3>2, SumZero
    <3> DEFINE m == c * n
    <3>4. m \in Nat
      BY <1>0, MulNat
    <3> HIDE DEF m
    <3>5. (p + pay) + m = p + m
      BY <3>3, <3>4
    <3> QED
      BY <1>12, <3>1, <3>5 DEF m
  <2>2. CASE a # b
    <3>1. d = c + 1
      BY <2>2
    <3>2. SumFunctionOnSet(k, D) = One * n
      <4>1. One \in Int
        BY <1>0
      <4> QED
        BY <1>0, <1>2, <4>1, SumConstant
    <3>3. SumFunctionOnSet(er, D) = One * pay
      <4>1. One \in Int
        BY <1>0
      <4> QED
        BY <1>0, <1>2, <1>4, <1>5, <4>1, SumScale
    <3>4. SumFunctionOnSet(ek, D) = One * pay + One * n
      <4>1. SumFunctionOnSet(ek, D) = SumFunctionOnSet(er, D) + SumFunctionOnSet(k, D)
        BY <1>0, <1>2, <1>6, SumPlus
      <4> QED
        BY <3>2, <3>3, <4>1
    <3>5. SumFunctionOnSet(all, D) = SumFunctionOnSet(ek, D) + SumFunctionOnSet(e, D)
      BY <1>0, <1>2, <1>5, <1>7, SumPlus
    <3>6. \A i \in D : h[i] <= all[i]
      <4>1. ASSUME NEW i \in D PROVE h[i] <= all[i]
        <5>1. all[i] = One * r[i] + One + e[i]
          BY <1>2
        <5> QED
          BY <1>1, <5>1
      <4> QED
        BY <4>1
    <3>7. SumFunctionOnSet(h, D) <= SumFunctionOnSet(all, D)
      BY <1>0, <1>5, <1>8, <3>6, SumBelow
    <3> DEFINE H == SumFunctionOnSet(h, D)
               E == SumFunctionOnSet(e, D)
               m == c * n
               op == One * p
               om == One * m
               on == One * n
               oy == One * pay
    <3>8. H <= (oy + on) + E
      BY <3>4, <3>5, <3>7
    <3>9. /\ m \in Nat /\ op \in Nat /\ om \in Nat /\ on \in Nat /\ oy \in Nat
      BY <1>0, <1>9, MulNat
    <3>10. One * (p + m) = op + om
      <4>1. m \in Nat
        BY <3>9
      <4> HIDE DEF m
      <4> QED
        BY <1>0, <4>1
    <3>11. E <= op + om /\ E \in Int /\ H \in Int
      BY <1>10, <1>12, <3>10
    <3>12. One * ((p + pay) + (c + 1) * n) = op + oy + om + on
      <4>1. (c + 1) * n = m + n
        BY <1>0
      <4>2. m \in Nat
        BY <3>9
      <4> HIDE DEF m
      <4>3. One * ((p + pay) + (m + n)) = One * p + One * pay + One * m + One * n
        BY <1>0, <1>9, <4>2
      <4> QED
        BY <4>1, <4>3
    <3> HIDE DEF H, E, m, op, om, on, oy
    <3>13. H <= op + oy + om + on
      BY <3>8, <3>9, <3>11
    <3> QED
      BY <3>1, <3>12, <3>13 DEF H
  <2> QED
    BY <2>1, <2>2
<1>14. p + pay <= SumFunctionOnSet(w, D)
  BY <1>9, <1>10, <1>11, <1>12
<1> QED
  BY <1>9, <1>13, <1>14 DEF PaidInFull, TotalVested, TotalEarned, D, w, h, n

\* In schedules no longer than One seconds the rounded rates lose at most one
\* unit each.
LEMMA RatesLoseLittle ==
    ASSUME NEW schedules, SchedulesOK(schedules), NEW t \in Nat, NEW p \in Nat, NEW c \in Nat,
           PaidInFull(schedules, t, p, c),
           \A i \in DOMAIN schedules : schedules[i][2] - schedules[i][1] <= One
    PROVE  TotalVested(schedules, t) <= p + (c + 1) * Len(schedules)
<1> DEFINE D == DOMAIN schedules
           n == Len(schedules)
           v == VestedIn(schedules, t)
           e == EarnedIn(schedules, t)
           k == [i \in D |-> One]
           ov == [i \in D |-> One * v[i]]
           ek == [i \in D |-> e[i] + k[i]]
<1>0. IsFiniteSet(D) /\ Cardinality(D) = n /\ n \in Nat /\ One \in Nat \ {0}
  BY OneAssumption DEF SchedulesOK
<1>1. ASSUME NEW i \in D PROVE v[i] \in Nat /\ e[i] \in Nat /\ One * v[i] <= e[i] + One
  <2> DEFINE s == schedules[i]
  <2>1. ScheduleOK(s) /\ s[2] - s[1] <= One
    BY DEF SchedulesOK
  <2>2. v[i] = Vested(s, t) /\ e[i] = RateOf(s) * Elapsed(s, t)
    BY DEF VestedIn, EarnedIn
  <2> HIDE DEF s, v, e
  <2>3. /\ Vested(s, t) \in Nat /\ RateOf(s) \in Nat /\ Elapsed(s, t) \in Nat
        /\ One * Vested(s, t) <= RateOf(s) * Elapsed(s, t) + One
    BY <2>1, VestedIs, RateBounds, ElapsedTyped, RateLoss
  <2>4. RateOf(s) * Elapsed(s, t) \in Nat
    BY <2>3, MulNat
  <2> QED
    BY <2>2, <2>3, <2>4
<1>2. /\ \A i \in D : k[i] = One
      /\ \A i \in D : ov[i] = One * v[i]
      /\ \A i \in D : ek[i] = e[i] + k[i]
  OBVIOUS
<1>3. SumFunctionOnSet(e, D) <= One * (p + c * n)
  BY DEF PaidInFull, TotalEarned
<1> HIDE DEF D, n, v, e, k, ov, ek
<1>4. /\ \A i \in D : v[i] \in Int
      /\ \A i \in D : e[i] \in Int
      /\ \A i \in D : k[i] \in Int
      /\ \A i \in D : ov[i] \in Int
  BY <1>0, <1>1, <1>2
<1>5. /\ \A i \in D : ek[i] \in Int
      /\ \A i \in D : ov[i] <= ek[i]
  BY <1>0, <1>1, <1>2, <1>4
<1> DEFINE V == SumFunctionOnSet(v, D)
           E == SumFunctionOnSet(e, D)
<1>6. V \in Int /\ E \in Int
  BY <1>0, <1>4, SumInt
<1>7. One \in Int
  BY <1>0
<1>8. SumFunctionOnSet(ov, D) = One * V
  BY <1>0, <1>2, <1>4, <1>7, SumScale
<1>9. SumFunctionOnSet(k, D) = One * n
  BY <1>0, <1>2, <1>7, SumConstant
<1>10. SumFunctionOnSet(ek, D) = E + One * n
  <2>1. SumFunctionOnSet(ek, D) = SumFunctionOnSet(e, D) + SumFunctionOnSet(k, D)
    BY <1>0, <1>2, <1>4, SumPlus
  <2> QED
    BY <1>9, <2>1
<1>11. SumFunctionOnSet(ov, D) <= SumFunctionOnSet(ek, D)
  BY <1>0, <1>4, <1>5, SumBelow
<1>12. One * V <= E + One * n
  BY <1>8, <1>10, <1>11
<1> DEFINE m == c * n
           X == p + m + n
<1>13. m \in Nat /\ X \in Nat
  <2>1. m \in Nat
    BY <1>0, MulNat
  <2> HIDE DEF m
  <2> QED
    BY <1>0, <2>1
<1>14. E <= One * (p + m)
  BY <1>3
<1>15. X = p + (c + 1) * n
  BY <1>0
<1>16. One * X = One * (p + m) + One * n
  <2> HIDE DEF m
  <2> QED
    BY <1>0, <1>13
<1> HIDE DEF V, E, m
<1>17. One * V <= One * X
  <2>1. One * (p + m) \in Int /\ One * n \in Int /\ One * V \in Int
    BY <1>0, <1>6, <1>13
  <2> HIDE DEF X
  <2> QED
    BY <1>6, <1>12, <1>14, <1>16, <2>1
<1>18. V <= X
  <2> HIDE DEF X
  <2>1. SUFFICES ASSUME V >= X + 1 PROVE FALSE
    BY <1>6, <1>13
  <2>2. V - X - 1 \in Nat
    BY <1>6, <1>13, <2>1
  <2>3. One * (V - X - 1) \in Nat
    BY <1>0, <2>2, MulNat
  <2>4. One * (V - X - 1) = One * V - One * X - One /\ One * V \in Int /\ One * X \in Int
    BY <1>0, <1>6, <1>13
  <2> QED
    BY <1>0, <1>17, <2>3, <2>4
<1> QED
  BY <1>15, <1>18 DEF TotalVested, V, D, v, n

-----------------------------------------------------------------------------
(* The vesting ledger.                                                     *)

\* The schedules of an account are those of a registration.
IsRegistered(u, schedules) ==
    \E batch \in VestingBatches : u \in DOMAIN batch /\ schedules = batch[u]

\* The inductive invariant of vesting.
VestingInv ==
    /\ now \in Nat /\ vesting_config.genesis_time \in Nat
    /\ DOMAIN vesting_info = Users /\ DOMAIN vesting_paid = Users /\ DOMAIN vesting_claims = Users
    /\ \A u \in Users :
          vesting_info[u] # None =>
              /\ AccountOK(vesting_info[u], vesting_paid[u], vesting_claims[u], now)
              /\ IsRegistered(u, vesting_info[u].schedules)

LEMMA VestingInitEstablishes == FundsInit => VestingInv
<1> SUFFICES ASSUME FundsInit PROVE VestingInv
  OBVIOUS
<1>1. /\ now = 0 /\ vesting_config = [owner |-> Creator, genesis_time |-> InitGenesis]
      /\ vesting_info = [u \in Users |-> None]
      /\ vesting_paid = [u \in Users |-> 0] /\ vesting_claims = [u \in Users |-> 0]
  BY DEF FundsInit, ChainInit, VestingInit
<1>2. InitGenesis \in Nat
  BY VestingAssumption
<1> QED
  BY <1>1, <1>2 DEF VestingInv

\* A schedule of a registration that passes assert_vesting_schedules.
LEMMA RegisteredSchedules ==
    ASSUME NEW batch \in VestingBatches, NEW u \in DOMAIN batch, NEW genesis \in Nat,
           assert_vesting_schedules(batch[u], genesis)
    PROVE  SchedulesOK(batch[u]) /\ \A i \in DOMAIN batch[u] : genesis <= batch[u][i][1]
<1> DEFINE s == batch[u]
<1>1. s \in Schedules
  <2>1. PICK A \in SUBSET Users : batch \in [A -> Schedules]
    BY VestingAssumption
  <2> QED
    BY <2>1
<1>2. \A i \in DOMAIN s : s[i][1] < s[i][2] /\ genesis <= s[i][1]
  BY DEF assert_vesting_schedules
<1> HIDE DEF s
<1>3. Len(s) \in Nat /\ DOMAIN s = 1..Len(s)
  BY <1>1 DEF Schedules
<1>4. IsFiniteSet(DOMAIN s) /\ Cardinality(DOMAIN s) = Len(s)
  <2> DEFINE n == Len(s)
  <2>1. n \in Nat /\ n \in Int /\ 1 \in Int
    BY <1>3
  <2> HIDE DEF n
  <2>2. /\ IsFiniteSet(1..n)
        /\ Cardinality(1..n) = IF 1 > n THEN 0 ELSE n - 1 + 1
    BY <2>1, FS_Interval
  <2>3. Cardinality(1..n) = n
    BY <2>1, <2>2
  <2> QED
    BY <1>3, <2>2, <2>3 DEF n
<1>5. ASSUME NEW i \in DOMAIN s PROVE ScheduleOK(s[i])
  <2>1. s[i] \in Nat \X Nat \X Nat
    BY <1>1, <1>3 DEF Schedules
  <2> QED
    BY <1>2, <2>1 DEF ScheduleOK
<1>6. SchedulesOK(s)
  BY <1>3, <1>4, <1>5 DEF SchedulesOK
<1> QED
  BY <1>2, <1>6 DEF s

\* A new account has vested nothing and was paid nothing.
LEMMA RegisterKeepsLedger ==
    ASSUME VestingInv, NEW sender, NEW accounts \in VestingBatches,
           register_vesting_accounts(sender, accounts)
    PROVE  VestingInv'
<1> DEFINE genesis == vesting_config.genesis_time
           New(u) == [last_claim_time |-> genesis, schedules |-> accounts[u]]
<1>1. /\ \A u \in DOMAIN accounts : assert_vesting_schedules(accounts[u], genesis)
      /\ vesting_info' = [u \in Users |-> IF u \in DOMAIN accounts THEN New(u) ELSE vesting_info[u]]
      /\ vesting_paid' = [u \in Users |-> IF u \in DOMAIN accounts THEN 0 ELSE vesting_paid[u]]
      /\ vesting_claims' = [u \in Users |-> IF u \in DOMAIN accounts THEN 0 ELSE vesting_claims[u]]
      /\ now' = now /\ vesting_config' = vesting_config
  BY Zenon DEF register_vesting_accounts, chainVars
<1>2. genesis \in Nat /\ now \in Nat
  BY DEF VestingInv
<1>3. ASSUME NEW u \in DOMAIN accounts
      PROVE  AccountOK(New(u), 0, 0, now) /\ IsRegistered(u, New(u).schedules)
  <2> DEFINE s == accounts[u]
             info == New(u)
  <2>1. SchedulesOK(s) /\ \A i \in DOMAIN s : genesis <= s[i][1]
    BY <1>1, <1>2, RegisteredSchedules
  <2>2. /\ info.schedules = s /\ info.last_claim_time = genesis
        /\ info \in [last_claim_time : {genesis}, schedules : {s}]
    OBVIOUS
  <2>3. IsRegistered(u, s)
    BY DEF IsRegistered
  <2> HIDE DEF s, info, genesis
  <2>4. PaidInFull(s, genesis, 0, 0)
    BY <1>2, <2>1, NothingVested
  <2>5. ClaimableFrom(s, genesis, now)
    <3>1. \A i \in DOMAIN s : s[i][1] >= genesis
      <4>1. ASSUME NEW i \in DOMAIN s PROVE s[i][1] >= genesis
        <5>1. s[i][1] \in Nat /\ genesis <= s[i][1]
          BY <2>1 DEF SchedulesOK, ScheduleOK
        <5> QED
          BY <1>2, <5>1
      <4> QED
        BY <4>1
    <3> QED
      BY <3>1 DEF ClaimableFrom
  <2>6. AccountOK(info, 0, 0, now)
    BY <1>2, <2>1, <2>2, <2>4, <2>5 DEF AccountOK
  <2> QED
    BY <2>2, <2>3, <2>6 DEF info
<1>4. /\ DOMAIN vesting_info' = Users /\ DOMAIN vesting_paid' = Users
      /\ DOMAIN vesting_claims' = Users
  BY <1>1
<1>5. ASSUME NEW u \in Users, vesting_info'[u] # None
      PROVE  /\ AccountOK(vesting_info'[u], vesting_paid'[u], vesting_claims'[u], now')
             /\ IsRegistered(u, vesting_info'[u].schedules)
  <2>1. CASE u \in DOMAIN accounts
    <3>1. vesting_info'[u] = New(u) /\ vesting_paid'[u] = 0 /\ vesting_claims'[u] = 0
      BY <1>1, <2>1
    <3> HIDE DEF New
    <3> QED
      BY <1>1, <1>3, <2>1, <3>1
  <2>2. CASE u \notin DOMAIN accounts
    <3>1. /\ vesting_info'[u] = vesting_info[u] /\ vesting_paid'[u] = vesting_paid[u]
          /\ vesting_claims'[u] = vesting_claims[u]
      BY <1>1, <2>2
    <3> QED
      BY <1>1, <1>5, <3>1 DEF VestingInv
  <2> QED
    BY <2>1, <2>2
<1> QED
  BY <1>1, <1>2, <1>4, <1>5 DEF VestingInv

\* A claim pays what has vested since the last one, and moves the time of the
\* last claim to now.
LEMMA ClaimKeepsLedger ==
    ASSUME VestingInv, NEW u \in Users, vesting_claim(u)
    PROVE  VestingInv'
<1> DEFINE info == vesting_info[u]
           s == info.schedules
           a == info.last_claim_time
           pay == compute_claim_amount(now, info)
           p == vesting_paid[u]
           c == vesting_claims[u]
           d == IF a = now THEN c ELSE c + 1
           new == [info EXCEPT !.last_claim_time = now]
           q == p + pay
<1>1. /\ info # None
      /\ vesting_info' = [vesting_info EXCEPT ![u] = new]
      /\ vesting_paid' = [vesting_paid EXCEPT ![u] = q]
      /\ vesting_claims' = [vesting_claims EXCEPT ![u] = d]
      /\ now' = now /\ vesting_config' = vesting_config
  BY Zenon DEF vesting_claim
<1>2. AccountOK(info, p, c, now) /\ IsRegistered(u, s) /\ now \in Nat
  BY <1>1 DEF VestingInv
<1>3. pay = SumFunction([i \in DOMAIN s |-> Released(s[i], a, now)])
  BY DEF compute_claim_amount
<1>4. /\ info \in [last_claim_time : {a}, schedules : {s}]
      /\ SchedulesOK(s) /\ a \in Nat /\ ClaimableFrom(s, a, now)
      /\ p \in Nat /\ c \in Nat /\ PaidInFull(s, a, p, c)
  BY <1>2 DEF AccountOK
<1> HIDE DEF s, a, pay, p, c
<1>5. /\ new \in [last_claim_time : {now}, schedules : {s}]
      /\ new.last_claim_time = now /\ new.schedules = s
  BY <1>4
<1> HIDE DEF info, new
<1>6. pay \in Nat /\ PaidInFull(s, now, q, d)
  BY <1>2, <1>3, <1>4, ClaimPays
<1>7. q \in Nat /\ d \in Nat
  BY <1>4, <1>6
<1> HIDE DEF q, d
<1>8. AccountOK(new, q, d, now)
  <2>1. ClaimableFrom(s, now, now)
    BY <1>2 DEF ClaimableFrom
  <2> QED
    BY <1>2, <1>4, <1>5, <1>6, <1>7, <2>1 DEF AccountOK
<1>9. /\ DOMAIN vesting_info' = Users /\ DOMAIN vesting_paid' = Users
      /\ DOMAIN vesting_claims' = Users
  BY <1>1 DEF VestingInv
<1>10. ASSUME NEW v \in Users, vesting_info'[v] # None
       PROVE  /\ AccountOK(vesting_info'[v], vesting_paid'[v], vesting_claims'[v], now')
              /\ IsRegistered(v, vesting_info'[v].schedules)
  <2>1. CASE v = u
    <3>1. vesting_info'[u] = new /\ vesting_paid'[u] = q /\ vesting_claims'[u] = d
      BY <1>1 DEF VestingInv
    <3> QED
      BY <1>1, <1>2, <1>5, <1>8, <2>1, <3>1
  <2>2. CASE v # u
    <3>1. /\ vesting_info'[v] = vesting_info[v] /\ vesting_paid'[v] = vesting_paid[v]
          /\ vesting_claims'[v] = vesting_claims[v]
      BY <1>1, <2>2 DEF VestingInv
    <3> QED
      BY <1>1, <1>10, <3>1 DEF VestingInv
  <2> QED
    BY <2>1, <2>2
<1> QED
  BY <1>1, <1>2, <1>9, <1>10 DEF VestingInv

\* Time passes, and a time that a claim may be paid from stays one.
LEMMA TickKeepsLedger ==
    ASSUME VestingInv, Tick, UNCHANGED vestingVars
    PROVE  VestingInv'
<1>1. now \in Nat /\ now' = now + 1
      /\ UNCHANGED <<vesting_config, vesting_info, vesting_paid, vesting_claims>>
  BY DEF VestingInv, Tick, vestingVars
<1>2. ASSUME NEW u \in Users, vesting_info[u] # None
      PROVE  AccountOK(vesting_info[u], vesting_paid[u], vesting_claims[u], now + 1)
  <2> DEFINE info == vesting_info[u]
  <2>1. AccountOK(info, vesting_paid[u], vesting_claims[u], now)
    BY <1>2 DEF VestingInv
  <2> HIDE DEF info
  <2>2. ClaimableFrom(info.schedules, info.last_claim_time, now + 1)
    BY <1>1, <2>1 DEF AccountOK, ClaimableFrom
  <2> QED
    BY <2>1, <2>2 DEF AccountOK, info
<1>3. now + 1 \in Nat
  BY <1>1
<1> QED
  BY <1>1, <1>2, <1>3 DEF VestingInv

\* No message changes the time.
LEMMA MessagesTakeNoTime ==
    ASSUME AirdropStep \/ DistributorStep \/ CommunityStep
    PROVE  now' = now
<1>1. CASE AirdropStep
  BY <1>1, Zenon DEF AirdropStep, airdrop_update_config, register_merkle_root, airdrop_claim,
     execute_withdraw_expired_tokens, chainVars
<1>2. CASE DistributorStep
  BY <1>2, Zenon DEF DistributorStep, distributor_update_config, add_distributor,
     remove_distributor, distributor_spend, FollowAdvice, chainVars
<1>3. CASE CommunityStep
  BY <1>3, Zenon DEF CommunityStep, community_update_config, community_spend, transfer_stable,
     sponsor_lotto, withdraw_sponsor, execute_swap, execute_burn, community_migrate, chainVars
<1> QED
  BY <1>1, <1>2, <1>3

LEMMA VestingNextPreserves == VestingInv /\ [FundsNext]_fundVars => VestingInv'
<1> SUFFICES ASSUME VestingInv, [FundsNext]_fundVars PROVE VestingInv'
  OBVIOUS
<1>1. ASSUME now' = now, UNCHANGED vestingVars
      PROVE  VestingInv'
  BY <1>1 DEF VestingInv, vestingVars
<1>2. ASSUME NEW sender \in Owners, NEW owner \in Option(Owners), NEW genesis \in Option(GenesisTimes),
             vesting_update_config(sender, owner, genesis)
      PROVE  VestingInv'
  <2>1. /\ vesting_config' = [owner |-> Given(owner, vesting_config.owner),
                              genesis_time |-> Given(genesis, vesting_config.genesis_time)]
        /\ now' = now /\ UNCHANGED <<vesting_info, vesting_paid, vesting_claims>>
    BY <1>2 DEF vesting_update_config, chainVars
  <2>2. Given(genesis, vesting_config.genesis_time) \in Nat
    BY VestingAssumption DEF Given, Option, VestingInv
  <2> QED
    BY <2>1, <2>2 DEF VestingInv
<1>3. CASE VestingStep
  BY <1>2, <1>3, RegisterKeepsLedger, ClaimKeepsLedger, Zenon DEF VestingStep
<1>4. CASE UNCHANGED fundVars
  BY <1>1, <1>4 DEF fundVars, chainVars
<1>5. CASE Tick /\ UNCHANGED vestingVars
  BY <1>5, TickKeepsLedger
<1>6. CASE (AirdropStep \/ DistributorStep \/ CommunityStep) /\ UNCHANGED vestingVars
  BY <1>1, <1>6, MessagesTakeNoTime
<1> QED
  BY <1>3, <1>4, <1>5, <1>6 DEF FundsNext

LEMMA VestingInvariant == FundsSpec => []VestingInv
BY VestingInitEstablishes, VestingNextPreserves, PTL DEF FundsSpec

\* No account is ever paid more than its schedules have released up to its
\* last claim, however it splits its claims and however it is registered
\* again: compute_claim_amount rounds down twice, and never counts a second
\* twice.
THEOREM VestingNeverEarly ==
    FundsSpec => [](\A u \in Users :
        vesting_info[u] # None =>
            vesting_paid[u] <= TotalVested(vesting_info[u].schedules,
                                           vesting_info[u].last_claim_time))
<1> DEFINE Covered == \A u \in Users :
        vesting_info[u] # None =>
            vesting_paid[u] <= TotalVested(vesting_info[u].schedules,
                                           vesting_info[u].last_claim_time)
<1>1. VestingInv => Covered
  BY DEF VestingInv, AccountOK, PaidInFull
<1> QED
  BY <1>1, VestingInvariant, PTL

\* No schedule lasts more seconds than a Decimal256 has units in a one (10^18,
\* longer than the age of the universe).
ShortSchedules ==
    \A batch \in VestingBatches : \A u \in DOMAIN batch : \A i \in DOMAIN batch[u] :
        batch[u][i][2] - batch[u][i][1] <= One

\* What an account was paid stays within one unit for each claim and schedule,
\* and one for the rounded rate, of what its schedules have released.
THEOREM VestingStaysOnSchedule ==
    ASSUME ShortSchedules
    PROVE  FundsSpec => []VestingOnSchedule
<1>1. ASSUME VestingInv, NEW u \in Users, vesting_info[u] # None
      PROVE  LET info == vesting_info[u]
                 vested == SumFunction([i \in DOMAIN info.schedules |->
                                          Vested(info.schedules[i], info.last_claim_time)])
                 lost == (vesting_claims[u] + 1) * Len(info.schedules)
             IN vesting_paid[u] \in vested - lost .. vested
  <2> DEFINE s == vesting_info[u].schedules
             t == vesting_info[u].last_claim_time
             p == vesting_paid[u]
             c == vesting_claims[u]
             V == SumFunction([i \in DOMAIN s |-> Vested(s[i], t)])
             lost == (c + 1) * Len(s)
  <2>1. SchedulesOK(s) /\ t \in Nat /\ p \in Nat /\ c \in Nat /\ PaidInFull(s, t, p, c)
    BY <1>1 DEF VestingInv, AccountOK
  <2>2. \A i \in DOMAIN s : s[i][2] - s[i][1] <= One
    BY <1>1, ShortSchedules DEF VestingInv, IsRegistered, ShortSchedules
  <2> HIDE DEF s, t, p, c
  <2>3. V = TotalVested(s, t)
    <3> DEFINE f == VestedIn(s, t)
    <3>1. V = SumFunction(f) /\ DOMAIN f = DOMAIN s
      BY DEF VestedIn
    <3> HIDE DEF f, V
    <3> QED
      BY <3>1, SumOnDomain DEF TotalVested, f
  <2>4. TotalVested(s, t) \in Nat
    BY <2>1, TotalsTyped
  <2>5. p <= TotalVested(s, t)
    BY <2>1 DEF PaidInFull
  <2>6. TotalVested(s, t) <= p + lost
    BY <2>1, <2>2, RatesLoseLittle
  <2>7. lost \in Nat
    <3>1. c + 1 \in Nat /\ Len(s) \in Nat
      BY <2>1 DEF SchedulesOK
    <3> QED
      BY <3>1, MulNat
  <2> HIDE DEF V, lost
  <2>8. p \in V - lost .. V
    BY <2>1, <2>3, <2>4, <2>5, <2>6, <2>7
  <2> QED
    BY <2>8 DEF V, lost, s, t, p, c
<1>2. VestingInv => VestingOnSchedule
  BY <1>1 DEF VestingOnSchedule
<1> QED
  BY <1>2, VestingInvariant, PTL

=============================================================================
