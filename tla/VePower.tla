------------------------------ MODULE VePower ------------------------------
(***************************************************************************)
(* What the ve-token contract promises, without weeks to catch up with,    *)
(* scheduled changes or snapshots: each user has at most one lock, GLOW    *)
(* leaves a lock no faster than linearly until its end, the contract holds *)
(* exactly the deposits, and at every moment the total voting power is the *)
(* sum of what the unexpired locks contribute.                             *)
(***************************************************************************)
EXTENDS Integers, Functions

CONSTANTS
    Users,
    MAX_SECONDS,
    Contribution(_)   \* the power of a lock, as coefficients

VARIABLES locks, total, held, now

vars == <<locks, total, held, now>>

Unlocked(t) ==
    [deposited_amount |-> 0, end_lock_time |-> 0, start_lock_time |-> 0, timestamp |-> t]

HasLock(u) == locks[u].deposited_amount # 0
Live(lock, t) == lock.end_lock_time > t

\* The sum of the contributions of the locks of ls that are live at time t:
\* of one coefficient, and of all three.
LiveContribution(ls, t, c) ==
    [u \in Users |-> IF Live(ls[u], t) THEN Contribution(ls[u])[c] ELSE 0]
Sum(ls, t) ==
    [quad |-> SumFunction(LiveContribution(ls, t, "quad")),
     linear |-> SumFunction(LiveContribution(ls, t, "linear")),
     constant |-> SumFunction(LiveContribution(ls, t, "constant"))]

Init ==
    /\ locks = [u \in Users |-> Unlocked(0)]
    /\ total = Sum(locks, now)
    /\ held = 0
    /\ now \in Nat

\* The lock of u becomes one of `amount` until `end`, started now.
Replace(u, amount, end) ==
    /\ amount > 0 /\ now < end /\ end <= now + MAX_SECONDS
    /\ locks' = [locks EXCEPT ![u] =
          [deposited_amount |-> amount, end_lock_time |-> end,
           start_lock_time |-> now, timestamp |-> now]]
    /\ held' = held + amount - locks[u].deposited_amount
    /\ total' = Sum(locks', now)
    /\ now' = now

\* The owner of an empty or live lock adds to it or moves its end away.
Commit(u) ==
    LET new == locks'[u]
    IN /\ HasLock(u) => /\ Live(locks[u], now)
                        /\ new.deposited_amount >= locks[u].deposited_amount
                        /\ new.end_lock_time >= locks[u].end_lock_time
       /\ Replace(u, new.deposited_amount, new.end_lock_time)

\* The owner of a live lock takes out at most what has been unlocked
\* linearly; the rest is locked until the same end.
Release(u) ==
    LET old == locks[u]
        rest == locks'[u].deposited_amount
    IN /\ HasLock(u) /\ Live(old, now)
       /\ rest < old.deposited_amount
       /\ rest * (old.end_lock_time - old.start_lock_time)
             >= old.deposited_amount * (old.end_lock_time - now)
       /\ Replace(u, rest, old.end_lock_time)

\* The owner of an expired lock takes out everything.
Close(u) ==
    /\ HasLock(u) /\ ~Live(locks[u], now)
    /\ locks' = [locks EXCEPT ![u] = Unlocked(now)]
    /\ held' = held - locks[u].deposited_amount
    /\ total' = Sum(locks', now)
    /\ now' = now

\* Time passes and locks expire.
Pass ==
    /\ now' = now + 1
    /\ total' = Sum(locks, now')
    /\ UNCHANGED <<locks, held>>

Next == (\E u \in Users : Commit(u) \/ Release(u) \/ Close(u)) \/ Pass

Spec == Init /\ [][Next]_vars

=============================================================================
