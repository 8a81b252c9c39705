------------------------------ MODULE Vesting ------------------------------
(***************************************************************************)
(* Vesting (contracts/vesting): accounts claim GLOW released linearly over *)
(* schedules, each <<start, end, amount>>.                                 *)
(***************************************************************************)
EXTENDS GlowChain

CONSTANTS
    VestingBatches,        \* accounts registered together: schedules by address
    InitGenesis,           \* genesis_time of instantiate
    GenesisTimes           \* genesis_time of update_config

VARIABLES
    vesting_config,        \* [owner, genesis_time]
    vesting_info,          \* VestingInfo by address, or None
    vesting_paid,          \* GLOW claimed since the account's registration, and
    vesting_claims         \* at how many different times: history

vestingVars == <<vesting_config, vesting_info, vesting_paid, vesting_claims>>

Schedules == Seq(Nat \X Nat \X Nat)
VestingInfo == [last_claim_time : Nat, schedules : Schedules]

ASSUME VestingAssumption ==
    /\ \A batch \in VestingBatches : \E A \in SUBSET Users : batch \in [A -> Schedules]
    /\ GenesisTimes \subseteq Nat /\ InitGenesis \in Nat

VestingTypeOK ==
    /\ vesting_config \in [owner : Owners, genesis_time : Nat]
    /\ \A u \in Users : vesting_info[u] \in Option(VestingInfo)
    /\ vesting_paid \in [Users -> Nat] /\ vesting_claims \in [Users -> Nat]

VestingInit ==
    /\ vesting_config = [owner |-> Creator, genesis_time |-> InitGenesis]
    /\ vesting_info = [u \in Users |-> None]
    /\ vesting_paid = [u \in Users |-> 0]
    /\ vesting_claims = [u \in Users |-> 0]

-----------------------------------------------------------------------------
\* update_config, which may also name another token: the token is part of the
\* environment here, so that field is left out.
vesting_update_config(sender, owner, genesis_time) ==
    /\ sender = vesting_config.owner
    /\ vesting_config' = [owner |-> Given(owner, vesting_config.owner),
                          genesis_time |-> Given(genesis_time, vesting_config.genesis_time)]
    /\ UNCHANGED <<chainVars, vesting_info, vesting_paid, vesting_claims>>

assert_vesting_schedules(schedules, genesis_time) ==
    \A i \in DOMAIN schedules :
        schedules[i][1] < schedules[i][2] /\ genesis_time <= schedules[i][1]

\* An account that is registered again starts from the genesis time.
register_vesting_accounts(sender, accounts) ==
    LET registered == DOMAIN accounts
        Registered(u) == [last_claim_time |-> vesting_config.genesis_time,
                          schedules |-> accounts[u]]
    IN /\ sender = vesting_config.owner
       /\ \A u \in registered :
              assert_vesting_schedules(accounts[u], vesting_config.genesis_time)
       /\ vesting_info' =
              [u \in Users |-> IF u \in registered THEN Registered(u) ELSE vesting_info[u]]
       /\ vesting_paid' = [u \in Users |-> IF u \in registered THEN 0 ELSE vesting_paid[u]]
       /\ vesting_claims' = [u \in Users |-> IF u \in registered THEN 0 ELSE vesting_claims[u]]
       /\ UNCHANGED <<chainVars, vesting_config>>

Later(a, b) == IF a <= b THEN b ELSE a

\* What schedule s releases after last_claim_time, up to current_time.
Released(s, last_claim_time, current_time) ==
    IF s[1] > current_time \/ s[2] < last_claim_time THEN 0
    ELSE DecMul(Smaller(s[2], current_time) - Later(s[1], last_claim_time),
                from_ratio(s[3], s[2] - s[1]))

\* The first is a faulty variant that pays from the start of each schedule.
compute_claim_amount_FromStart(current_time, info) ==
    SumFunction([i \in DOMAIN info.schedules |->
                    Released(info.schedules[i], 0, current_time)])
compute_claim_amount(current_time, info) ==
    SumFunction([i \in DOMAIN info.schedules |->
                    Released(info.schedules[i], info.last_claim_time, current_time)])

\* The time is saved even when nothing is paid.
vesting_claim(u) ==
    LET amount == compute_claim_amount(now, vesting_info[u])
    IN /\ vesting_info[u] # None
       /\ amount # 0 => CanTransfer("vesting", amount)
       /\ vesting_info' = [vesting_info EXCEPT ![u].last_claim_time = now]
       /\ glow' = Transferred("vesting", u, amount)
       /\ vesting_paid' = [vesting_paid EXCEPT ![u] = @ + amount]
       /\ vesting_claims' = [vesting_claims EXCEPT ![u] = IF vesting_info[u].last_claim_time = now THEN @ ELSE @ + 1]
       /\ UNCHANGED <<deployed, now, vesting_config>>

VestingStep ==
    /\ "vesting" \in deployed
    /\ \/ \E sender \in Owners, owner \in Option(Owners), genesis \in Option(GenesisTimes) :
              vesting_update_config(sender, owner, genesis)
       \/ \E sender \in Owners, accounts \in VestingBatches :
              register_vesting_accounts(sender, accounts)
       \/ \E u \in Users : vesting_claim(u)

=============================================================================
