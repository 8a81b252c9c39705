------------------------------ MODULE Airdrop ------------------------------
(***************************************************************************)
(* The airdrop (contracts/airdrop): each stage is a snapshot of stakers,   *)
(* stored as a Merkle root.                                                *)
(*                                                                         *)
(* A root stands for the set of <<address, amount>> leaves it was built    *)
(* from.  Keccak256 is taken to be free of collisions, so that a proof for *)
(* a leaf exists just when the leaf is in the tree.                        *)
(***************************************************************************)
EXTENDS GlowChain

CONSTANTS
    Snapshots,             \* sets of leaves that may be registered
    Durations,             \* how long a stage may be open
    AirdropRecipients,     \* addresses that expired tokens may be sent to
    MaxStage               \* 255, the largest u8

VARIABLES
    airdrop_owner,         \* config.owner
    latest_stage,
    merkle_root,           \* by stage
    expiry_at_seconds,     \* by stage
    claimed,               \* the claim index: <<user, stage>> pairs
    airdropped             \* by user and stage, what was paid: history

airdropVars == <<airdrop_owner, latest_stage, merkle_root, expiry_at_seconds, claimed, airdropped>>

Leaf == Users \X Nat
Stages == 1..latest_stage

ASSUME AirdropAssumption ==
    /\ Snapshots \subseteq SUBSET Leaf
    /\ Durations \subseteq Nat
    /\ AirdropRecipients \subseteq Holders
    /\ MaxStage \in Nat

AirdropTypeOK ==
    /\ airdrop_owner \in Owners
    /\ latest_stage \in 0..MaxStage
    /\ merkle_root \in [Stages -> SUBSET Leaf]
    /\ expiry_at_seconds \in [Stages -> Nat]
    /\ claimed \in SUBSET (Users \X Stages)
    /\ airdropped \in [Users -> [1..MaxStage -> Nat]]

AirdropInit ==
    /\ airdrop_owner = Creator
    /\ latest_stage = 0
    /\ merkle_root = <<>>
    /\ expiry_at_seconds = <<>>
    /\ claimed = {}
    /\ airdropped = [u \in Users |-> [s \in 1..MaxStage |-> 0]]

-----------------------------------------------------------------------------
airdrop_update_config(sender, owner) ==
    /\ sender = airdrop_owner
    /\ airdrop_owner' = Given(owner, airdrop_owner)
    /\ UNCHANGED <<chainVars, latest_stage, merkle_root, expiry_at_seconds, claimed, airdropped>>

\* A stage number that does not fit in a u8 panics.
register_merkle_root(sender, leaves, expiry) ==
    /\ sender = airdrop_owner
    /\ expiry > now
    /\ latest_stage < MaxStage
    /\ latest_stage' = latest_stage + 1
    /\ merkle_root' = Append(merkle_root, leaves)
    /\ expiry_at_seconds' = Append(expiry_at_seconds, expiry)
    /\ UNCHANGED <<chainVars, airdrop_owner, claimed, airdropped>>

Open(stage) == expiry_at_seconds[stage] > now

\* The first is a faulty variant that looks at the latest stage only.
AllExpired_Latest == ~Open(latest_stage)
AllExpired == \A stage \in Stages : ~Open(stage)

execute_withdraw_expired_tokens(sender, recipient) ==
    /\ sender = airdrop_owner
    /\ latest_stage # 0
    /\ AllExpired
    /\ CanTransfer("airdrop", glow["airdrop"])
    /\ glow' = Transferred("airdrop", recipient, glow["airdrop"])
    /\ UNCHANGED <<deployed, now, airdropVars>>

\* The first is a faulty variant that remembers the user only for the latest
\* stage.
ClaimedAfter_Latest(u, stage) == claimed \cup {<<u, latest_stage>>}
ClaimedAfter(u, stage) == claimed \cup {<<u, stage>>}

airdrop_claim(u, stage, amount) ==
    /\ stage \in Stages
    /\ <<u, stage>> \notin claimed
    /\ Open(stage)
    /\ <<u, amount>> \in merkle_root[stage]
    /\ CanTransfer("airdrop", amount)
    /\ claimed' = ClaimedAfter(u, stage)
    /\ glow' = Transferred("airdrop", u, amount)
    /\ airdropped' = [airdropped EXCEPT ![u][stage] = @ + amount]
    /\ UNCHANGED <<deployed, now, airdrop_owner, latest_stage, merkle_root, expiry_at_seconds>>

AirdropStep ==
    /\ "airdrop" \in deployed
    /\ \/ \E sender \in Owners, owner \in Option(Owners) : airdrop_update_config(sender, owner)
       \/ \E sender \in Owners, leaves \in Snapshots, d \in Durations :
              register_merkle_root(sender, leaves, now + d)
       \/ \E sender \in Owners, recipient \in AirdropRecipients :
              execute_withdraw_expired_tokens(sender, recipient)
       \/ \E u \in Users, stage \in Stages : \E leaf \in merkle_root[stage] :
              airdrop_claim(u, stage, leaf[2])

=============================================================================
