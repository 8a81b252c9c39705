---------------------------- MODULE Distributor ----------------------------
(***************************************************************************)
(* The distributor (contracts/distributor): it pays GLOW on request of     *)
(* whitelisted contracts, up to a limit for each request, and advises on   *)
(* the emission rate.                                                      *)
(***************************************************************************)
EXTENDS GlowChain

CONSTANTS
    Spenders,              \* addresses that may be on the whitelist
    InitDistributor,       \* what instantiate stores
    DistributorUpdates,    \* the fields of update_config, but for the owner
    SpendAmounts,
    Awards                 \* current and target awards of the query

VARIABLES
    distributor_config,    \* CONFIG
    emission_rate          \* the rate of a caller who follows the advice

distributorVars == <<distributor_config, emission_rate>>

DistributorConfig ==
    [owner : Owners, whitelist : Seq(Spenders), spend_limit : Nat,
     emission_cap : Nat, emission_floor : Nat,
     increment_multiplier : Nat, decrement_multiplier : Nat]

DistributorUpdate ==
    [spend_limit : Option(Nat), emission_cap : Option(Nat), emission_floor : Option(Nat),
     increment_multiplier : Option(Nat), decrement_multiplier : Option(Nat)]

ASSUME DistributorAssumption ==
    /\ InitDistributor \in DistributorConfig
    /\ DistributorUpdates \subseteq DistributorUpdate
    /\ SpendAmounts \subseteq Nat /\ Awards \subseteq Nat

DistributorTypeOK ==
    /\ distributor_config \in DistributorConfig
    /\ emission_rate \in Option(Nat)

ValidEmission(c) ==
    /\ c.increment_multiplier >= One
    /\ c.decrement_multiplier <= One
    /\ c.emission_floor <= c.emission_cap

\* A configuration that instantiate refuses is no contract.
DistributorInit ==
    /\ ValidEmission(InitDistributor)
    /\ distributor_config = InitDistributor
    /\ emission_rate = None

-----------------------------------------------------------------------------
UpdatedConfig(c, owner, msg) ==
    [c EXCEPT !.owner = Given(owner, @),
              !.spend_limit = Given(msg.spend_limit, @),
              !.emission_cap = Given(msg.emission_cap, @),
              !.emission_floor = Given(msg.emission_floor, @),
              !.increment_multiplier = Given(msg.increment_multiplier, @),
              !.decrement_multiplier = Given(msg.decrement_multiplier, @)]

\* The new multipliers are checked, and the cap and the floor that result.
\* The first is a faulty variant that checks the two only when both are new.
ValidUpdate_BothGiven(c, msg) ==
    /\ msg.increment_multiplier # None => msg.increment_multiplier >= One
    /\ msg.decrement_multiplier # None => msg.decrement_multiplier <= One
    /\ msg.emission_floor # None /\ msg.emission_cap # None =>
          msg.emission_floor <= msg.emission_cap
ValidUpdate(c, msg) ==
    /\ msg.increment_multiplier # None => msg.increment_multiplier >= One
    /\ msg.decrement_multiplier # None => msg.decrement_multiplier <= One
    /\ Given(msg.emission_floor, c.emission_floor) <= Given(msg.emission_cap, c.emission_cap)

distributor_update_config(sender, owner, msg) ==
    /\ sender = distributor_config.owner
    /\ ValidUpdate(distributor_config, msg)
    /\ distributor_config' = UpdatedConfig(distributor_config, owner, msg)
    /\ UNCHANGED <<chainVars, emission_rate>>

Listed(a) == \E i \in DOMAIN distributor_config.whitelist : distributor_config.whitelist[i] = a

add_distributor(sender, a) ==
    /\ sender = distributor_config.owner
    /\ ~Listed(a)
    /\ distributor_config' = [distributor_config EXCEPT !.whitelist = Append(@, a)]
    /\ UNCHANGED <<chainVars, emission_rate>>

\* Every occurrence is removed: instantiate does not look for duplicates.
Without(list, a) == SelectSeq(list, LAMBDA w : w # a)

remove_distributor(sender, a) ==
    /\ sender = distributor_config.owner
    /\ Listed(a)
    /\ distributor_config' = [distributor_config EXCEPT !.whitelist = Without(@, a)]
    /\ UNCHANGED <<chainVars, emission_rate>>

distributor_spend(sender, recipient, amount) ==
    /\ Listed(sender)
    /\ amount <= distributor_config.spend_limit
    /\ CanTransfer("distributor", amount)
    /\ glow' = Transferred("distributor", recipient, amount)
    /\ UNCHANGED <<deployed, now, distributorVars>>

-----------------------------------------------------------------------------
(* The advice: more emission while the award is too small, less while it   *)
(* is too large, within the floor and the cap.                             *)

Adjusted(current_award, target_award, current_rate) ==
    CASE current_award < target_award ->
            DecMul(current_rate, distributor_config.increment_multiplier)
      [] current_award > target_award ->
            DecMul(current_rate, distributor_config.decrement_multiplier)
      [] OTHER -> current_rate

Clamped(r) ==
    CASE r > distributor_config.emission_cap -> distributor_config.emission_cap
      [] r < distributor_config.emission_floor -> distributor_config.emission_floor
      [] OTHER -> r

query_glow_emission_rate(current_award, target_award, current_rate) ==
    Clamped(Adjusted(current_award, target_award, current_rate))

\* A caller asks, and takes the answer for its current rate.
FollowAdvice(current_award, target_award) ==
    /\ emission_rate' = query_glow_emission_rate(current_award, target_award, Given(emission_rate, 0))
    /\ UNCHANGED <<chainVars, distributor_config>>

DistributorStep ==
    /\ "distributor" \in deployed
    /\ \/ \E sender \in Owners, owner \in Option(Owners), msg \in DistributorUpdates :
              distributor_update_config(sender, owner, msg)
       \/ \E sender \in Owners, a \in Spenders : add_distributor(sender, a)
       \/ \E sender \in Owners, a \in Spenders : remove_distributor(sender, a)
       \/ \E sender \in Spenders, recipient \in Users, amount \in SpendAmounts :
              distributor_spend(sender, recipient, amount)
       \/ \E current, target \in Awards : FollowAdvice(current, target)

=============================================================================
