----------------------------- MODULE GlowChain -----------------------------
(***************************************************************************)
(* What the contracts that hold the initial supply of GLOW share: the      *)
(* block time and the GLOW token, a cw20 that refuses to transfer nothing  *)
(* or more than the sender has.  A message that fails, or one of whose own *)
(* messages fails, is no step.                                             *)
(***************************************************************************)
EXTENDS LottoMath, Sequences

CONSTANTS
    Users, Owners,     \* people, and addresses that may own a contract
    Creator,           \* who owns a contract at first
    None,              \* an absent value
    Endowment,         \* GLOW that a contract, or the Terraswap pair, has at first
    Deployments,       \* the sets of contracts that may be deployed together
    MaxTime            \* bound

VARIABLES
    deployed,          \* the contracts that exist
    now,               \* env.block.time.seconds()
    glow               \* the token's balances

chainVars == <<deployed, now, glow>>

Contracts == {"airdrop", "vesting", "distributor", "community"}
Holders == Contracts \cup {"pair"} \cup Users \cup Owners

\* People are not contracts.
ASSUME ChainAssumption ==
    /\ (Contracts \cup {"pair"}) \cap (Users \cup Owners) = {}
    /\ None \notin Users \cup Owners \cup Nat
    /\ Creator \in Owners
    /\ Endowment \in [Contracts \cup {"pair"} -> Nat]
    /\ Deployments \subseteq SUBSET Contracts
    /\ MaxTime \in Nat

ChainTypeOK ==
    /\ deployed \in SUBSET Contracts
    /\ now \in Nat
    /\ glow \in [Holders -> Nat]

\* The optional fields of a message.
Option(S) == S \cup {None}
Given(option, default) == IF option = None THEN default ELSE option

CanTransfer(from, amount) == amount # 0 /\ amount <= glow[from]
Transferred(from, to, amount) ==
    LET paid == [glow EXCEPT ![from] = @ - amount] IN [paid EXCEPT ![to] = @ + amount]

ChainInit ==
    /\ deployed \in Deployments
    /\ now = 0
    /\ glow = [h \in Holders |-> IF h \in deployed \cup {"pair"} THEN Endowment[h] ELSE 0]

Tick ==
    /\ now < MaxTime
    /\ now' = now + 1
    /\ UNCHANGED <<deployed, glow>>

=============================================================================
