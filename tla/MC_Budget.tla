------------------------------ MODULE MC_Budget ------------------------------
(***************************************************************************)
(* Small populations for TLC: two founders, with or without a child.       *)
(***************************************************************************)
EXTENDS Budget

CONSTANTS a, b, c       \* model values: seat ids

MCSeats == {a, b, c}
MCGenesis == <<a, b>>
MCLockedAfter == [k \in 0 .. 1 |-> 2 - 2 * k]
MCReleaseAt == [k \in 1 .. 1 |-> 0]

(* Two scopes in one run.  Calls: two holds, overruns and refunds of the two *)
(* founders, the pool moved by nothing else.  Families: a child, income and  *)
(* financing, a tranche, transfers and retirements, one call.                *)
PoolUnmoved ==
    Unallocated + commons
        = Initial - LockedAfter[0] - GenesisShare * Cardinality(GenesisSeats)
Calls == known = GenesisSeats /\ retired = {} /\ settlements = 0 /\ released = 0 /\ PoolUnmoved
Families == ~exhausted /\ nextReservation <= 1 /\ windowStart = None
InScope == Calls \/ Families
===============================================================================
