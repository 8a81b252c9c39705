-------------------------- MODULE MCLottoMigration --------------------------
(***************************************************************************)
(* A small instance of the lotto contract's migration.                     *)
(***************************************************************************)
EXTENDS LottoMigration

\* Three depositors of the old version; 4 is new.
MCOldDepositors ==
    [u \in 1..3 |-> [lottery_deposit |-> 10 * u + 3, savings_aust |-> 4 - u, tickets |-> u]]

MCOldWinners == [i \in 0..1 |-> i]

=============================================================================
