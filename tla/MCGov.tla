------------------------------- MODULE MCGov -------------------------------
(***************************************************************************)
(* Small instances of the governance contract.                             *)
(***************************************************************************)
EXTENDS GovProperties

CONSTANTS u1, u2, creator, gov

\* Quorum 30%, threshold 50%.
MCConfig ==
    [owner |-> creator, registered |-> FALSE, quorum |-> 3, threshold |-> 5,
     voting_period |-> 1, timelock_period |-> 1, expiration_period |-> 2,
     proposal_deposit |-> 2, snapshot_period |-> 1]

NoUpdate ==
    [owner |-> None, quorum |-> None, threshold |-> None, voting_period |-> None,
     timelock_period |-> None, expiration_period |-> None,
     proposal_deposit |-> None, snapshot_period |-> None]

\* Without updates; the contract becomes its own owner.
MCNoUpdates == {}
MCHandOver == {[NoUpdate EXCEPT !.owner = gov]}

SetTimelock(n) == [NoUpdate EXCEPT !.timelock_period = n]

\* A text poll, or one that spends GLOW and sends two messages to the
\* contract itself, not in their order.
MCMessages ==
    {None,
     <<[order |-> 2, update |-> SetTimelock(0), spend |-> 0],
       [order |-> 3, update |-> None, spend |-> 1],
       [order |-> 1, update |-> [NoUpdate EXCEPT !.quorum = 0, !.timelock_period = 2], spend |-> 0]>>}
\* A poll that spends, and one whose message always fails.
MCSpending ==
    {<<[order |-> 1, update |-> None, spend |-> 1]>>,
     <<[order |-> 1, update |-> SetTimelock(0), spend |-> 0]>>}

\* veGLOW: shared, or all one user's.
Reported(user) == [user |-> user, total |-> Total(user)]
MCBalances == {Reported([u \in Users |-> IF u = u1 THEN 4 ELSE 1]),
               Reported([u \in Users |-> 2])}

=============================================================================
