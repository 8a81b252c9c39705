----------------------------- MODULE GlowFunds -----------------------------
(***************************************************************************)
(* The contracts that hold GLOW for others, on one chain: the airdrop,     *)
(* vesting, the distributor and the community fund, or those of them that  *)
(* are deployed; and what they promise.                                    *)
(***************************************************************************)
EXTENDS Airdrop, Vesting, Distributor, Community

fundVars == <<chainVars, airdropVars, vestingVars, distributorVars, communityVars>>

FundsInit ==
    /\ ChainInit /\ AirdropInit /\ VestingInit /\ DistributorInit /\ CommunityInit

FundsNext ==
    \/ AirdropStep /\ UNCHANGED <<vestingVars, distributorVars, communityVars>>
    \/ VestingStep /\ UNCHANGED <<airdropVars, distributorVars, communityVars>>
    \/ DistributorStep /\ UNCHANGED <<airdropVars, vestingVars, communityVars>>
    \/ CommunityStep /\ UNCHANGED <<airdropVars, vestingVars, distributorVars>>
    \/ Tick /\ UNCHANGED <<airdropVars, vestingVars, distributorVars, communityVars>>

FundsSpec == FundsInit /\ [][FundsNext]_fundVars

FundsTypeOK ==
    ChainTypeOK /\ AirdropTypeOK /\ VestingTypeOK /\ DistributorTypeOK /\ CommunityTypeOK

-----------------------------------------------------------------------------
\* A user gets one leaf of a stage's snapshot, once, however many leaves it
\* has and whatever other stages it claims, and only with a claim index that
\* says so.
AirdropPaidOnce ==
    \A u \in Users, stage \in 1..MaxStage :
        airdropped[u][stage] # 0 =>
            /\ <<u, stage>> \in claimed
            /\ <<u, airdropped[u][stage]>> \in merkle_root[stage]

\* While any stage is open, nothing but claims takes GLOW out of the airdrop:
\* expired tokens wait for the stage that expires last, whichever that is.
\* Whether the balance covers the leaves of the open stages is up to whoever
\* funds them; no message asks.
OpenStagesUntouched ==
    [][(\E stage \in Stages : Open(stage)) /\ glow'["airdrop"] < glow["airdrop"]
          => claimed' # claimed]_fundVars

\* What a schedule has released up to time t, exactly.
Vested(s, t) ==
    IF t <= s[1] THEN 0 ELSE (s[3] * (Smaller(s[2], t) - s[1])) \div (s[2] - s[1])

\* However often an account claims, before, during and after its schedules,
\* it gets no more than they have released since it was registered, and
\* loses less than one unit for each claim and schedule, and one for the
\* rounded rate.
VestingOnSchedule ==
    \A u \in Users :
        vesting_info[u] # None =>
            LET info == vesting_info[u]
                vested == SumFunction([i \in DOMAIN info.schedules |->
                                          Vested(info.schedules[i], info.last_claim_time)])
                lost == (vesting_claims[u] + 1) * Len(info.schedules)
            IN vesting_paid[u] \in vested - lost .. vested

\* Whoever follows the distributor's advice is, at the next advice, within
\* the floor and the cap, whatever the owner did to either in between; and
\* the advice never goes against the award.
AdviceWithinBand ==
    [][\A current, target \in Awards :
          FollowAdvice(current, target) =>
              /\ distributor_config.emission_floor <= emission_rate'
              /\ emission_rate' <= distributor_config.emission_cap
              /\ current < target =>
                    Smaller(Given(emission_rate, 0), distributor_config.emission_cap) <= emission_rate'
              /\ current > target =>
                    emission_rate' <= Later(Given(emission_rate, 0), distributor_config.emission_floor)]_fundVars

\* No message, of these contracts or of the others, takes more GLOW out of
\* the distributor or the community fund than the limit in force.
SpendLimited ==
    [][/\ glow["distributor"] - glow'["distributor"] <= distributor_config.spend_limit
       /\ glow["community"] - glow'["community"] <= community_config.spend_limit]_fundVars

=============================================================================
