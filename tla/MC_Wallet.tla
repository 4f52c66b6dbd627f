------------------------------ MODULE MC_Wallet ------------------------------
(***************************************************************************)
(* Small worlds for TLC.                                                   *)
(***************************************************************************)
EXTENDS Wallet

(* Two tranches, the second due later than the first. *)
MCLockedAfter == [k \in 0 .. 2 |-> 2 - k]
MCReleaseAt == [k \in 1 .. 2 |-> k]

Losses == {-2, 2}
===============================================================================
