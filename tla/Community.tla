----------------------------- MODULE Community -----------------------------
(***************************************************************************)
(* The community fund (contracts/community): governance spends, transfers, *)
(* swaps and burns from it, and sponsors the lottery with it.              *)
(*                                                                         *)
(* Of the lotto contract only the fund's own sponsorship is kept; what the *)
(* lotto does with it is in LottoSavings.                                  *)
(***************************************************************************)
EXTENDS GlowChain

CONSTANTS
    Lottos,                \* lotto contracts that the fund may be pointed at
    InitLotto,             \* the lotto contract at first, or None: a contract
                           \* of the version before
    InitLimit,             \* spend_limit of instantiate
    FundLimits,            \* spend_limit of update_config
    FundAmounts,           \* amounts in messages
    SwapReturns,           \* GLOW the Terraswap pair may return for a swap
    InitUst                \* UST the fund has at first

VARIABLES
    community_config,      \* [owner, spend_limit, lotto_contract]; without a
                           \* lotto contract it is an OldConfig
    ust,                   \* the fund's UST
    sponsored              \* SponsorInfo.lottery_deposit of the fund, by lotto

communityVars == <<community_config, ust, sponsored>>

ASSUME CommunityAssumption ==
    /\ None \notin Lottos /\ InitLotto \in Option(Lottos)
    /\ InitLimit \in Nat
    /\ FundLimits \subseteq Nat /\ FundAmounts \subseteq Nat /\ SwapReturns \subseteq Nat
    /\ InitUst \in Nat

CommunityTypeOK ==
    /\ community_config \in [owner : Owners, spend_limit : Nat, lotto_contract : Option(Lottos)]
    /\ ust \in Nat
    /\ sponsored \in [Lottos -> Nat]

CommunityInit ==
    /\ community_config = [owner |-> Creator, spend_limit |-> InitLimit, lotto_contract |-> InitLotto]
    /\ ust = InitUst
    /\ sponsored = [l \in Lottos |-> 0]

-----------------------------------------------------------------------------
\* read_config fails on an OldConfig.
Governs(sender) == community_config.lotto_contract # None /\ sender = community_config.owner

community_update_config(sender, spend_limit, owner) ==
    /\ Governs(sender)
    /\ community_config' = [community_config EXCEPT !.spend_limit = Given(spend_limit, @),
                                                    !.owner = Given(owner, @)]
    /\ UNCHANGED <<chainVars, ust, sponsored>>

WithinLimit(amount) == amount <= community_config.spend_limit

community_spend(sender, recipient, amount) ==
    /\ Governs(sender)
    /\ WithinLimit(amount)
    /\ CanTransfer("community", amount)
    /\ glow' = Transferred("community", recipient, amount)
    /\ UNCHANGED <<deployed, now, communityVars>>

\* The chain charges its tax on top of what is sent.
CanSend(amount) == amount # 0 /\ Charge(amount) <= ust

transfer_stable(sender, amount) ==
    /\ Governs(sender)
    /\ WithinLimit(amount)
    /\ CanSend(amount)
    /\ ust' = ust - Charge(amount)
    /\ UNCHANGED <<chainVars, community_config, sponsored>>

\* An award stays with the lottery; other sponsorship can be withdrawn.
sponsor_lotto(sender, amount, award) ==
    /\ Governs(sender)
    /\ CanSend(amount)
    /\ ust' = ust - Charge(amount)
    /\ sponsored' = [sponsored EXCEPT
          ![community_config.lotto_contract] = IF award THEN @ ELSE @ + deduct_tax(amount)]
    /\ UNCHANGED <<chainVars, community_config>>

withdraw_sponsor(sender) ==
    LET deposit == sponsored[community_config.lotto_contract]
    IN /\ Governs(sender)
       /\ deposit # 0
       /\ ust' = ust + deduct_tax(deduct_tax(deposit))
       /\ sponsored' = [sponsored EXCEPT ![community_config.lotto_contract] = 0]
       /\ UNCHANGED <<chainVars, community_config>>

\* The pair pays the fund itself.
execute_swap(sender, amount, return_amount) ==
    /\ Governs(sender)
    /\ amount <= ust
    /\ CanSend(amount)
    /\ CanTransfer("pair", return_amount)
    /\ ust' = ust - Charge(amount)
    /\ glow' = Transferred("pair", "community", return_amount)
    /\ UNCHANGED <<deployed, now, community_config, sponsored>>

execute_burn(sender, amount) ==
    /\ Governs(sender)
    /\ WithinLimit(amount)
    /\ CanTransfer("community", amount)
    /\ glow' = [glow EXCEPT !["community"] = @ - amount]
    /\ UNCHANGED <<deployed, now, communityVars>>

\* The new configuration can be read as an OldConfig too, so the chain's
\* administrator may migrate again; owner and limit stay.
community_migrate(lotto) ==
    /\ community_config' = [community_config EXCEPT !.lotto_contract = lotto]
    /\ UNCHANGED <<chainVars, ust, sponsored>>

CommunityStep ==
    /\ "community" \in deployed
    /\ \/ \E sender \in Owners, limit \in Option(FundLimits), owner \in Option(Owners) :
              community_update_config(sender, limit, owner)
       \/ \E sender \in Owners, recipient \in Users, amount \in FundAmounts :
              community_spend(sender, recipient, amount)
       \/ \E sender \in Owners, amount \in FundAmounts : transfer_stable(sender, amount)
       \/ \E sender \in Owners, amount \in FundAmounts, award \in BOOLEAN :
              sponsor_lotto(sender, amount, award)
       \/ \E sender \in Owners : withdraw_sponsor(sender)
       \/ \E sender \in Owners, amount \in FundAmounts, returned \in SwapReturns :
              execute_swap(sender, amount, returned)
       \/ \E sender \in Owners, amount \in FundAmounts : execute_burn(sender, amount)
       \/ \E lotto \in Lottos : community_migrate(lotto)

=============================================================================
