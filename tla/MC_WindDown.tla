----------------------------- MODULE MC_WindDown -----------------------------
(* A position with an order that may enlarge it, one that only shrinks, and a  *)
(* balance to sell; the diary refuses a record only while one target is in play. *)
EXTENDS WindDown

MCAccounts == {[resting |-> 1, perp |-> 1, spot |-> 0], [resting |-> 0, perp |-> 4, spot |-> 0],
               [resting |-> 0, perp |-> 0, spot |-> 2]}

InScope == refusals > 0 => account.resting = 0 /\ Cardinality({OpOf(id) : id \in requested}) <= 1
==============================================================================
