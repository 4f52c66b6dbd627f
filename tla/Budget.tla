-------------------------------- MODULE Budget --------------------------------
(***************************************************************************)
(* The budget book of kernel/budget.py over the conserved wallet: which    *)
(* seat may commit which part of the unlocked money.  The book never holds *)
(* money; every movement of a seat's call is one step of the wallet and    *)
(* one of the book (SeatWallet, budget.py 622-682), made by one synchronous *)
(* method, so the two are one action here.                                 *)
(*                                                                         *)
(* Seats are placed in lineages in registration order; a tranche is shared *)
(* equally between live lineages and paid to the head of each.             *)
(***************************************************************************)
EXTENDS Wallet, Sequences, FiniteSetsExt

CONSTANTS
    Seats,          \* every seat id that may ever be registered
    Genesis,        \* the seeded seats, as a sequence in id order
    BaseNum, BaseDen,   \* base_share, the part of a release that is granted
    Trials          \* amounts a registration or a proposal moves

ASSUME BudgetAssumption ==
    /\ IsFiniteSet(Seats) /\ Seats # {} /\ Genesis \in Seq(Seats)
    /\ \A i, j \in 1 .. Len(Genesis) : Genesis[i] = Genesis[j] => i = j
    /\ BaseNum \in Nat /\ BaseDen \in Nat \ {0} /\ BaseNum <= BaseDen
    /\ Trials \subseteq Nat

VARIABLES
    known,          \* the seats the book has an entitlement entry for
    gross,          \* seat |-> entitlement, its open holds included
    retired,
    order,          \* the placed seats, in registration order
    lineage,        \* seat |-> the root of its lineage
    holds, payer,   \* reservations a seat pays for, and that seat
    uncertain, own, \* bills a seat paid at their ceiling, and what it paid
    \* History variables.
    commons,        \* what no seat paid of the debits that still stand
    drawn           \* id |-> what the hold took beyond the seat's entitlement

bookVars == <<known, gross, retired, order, lineage>>
seatHoldVars == <<holds, payer, uncertain, own>>
bvars == <<vars, known, gross, retired, order, lineage, holds, payer, uncertain, own,
           commons, drawn>>

-------------------------------------------------------------------------------
(* What the book answers. *)

GrossTotal == MapThenSumSet(LAMBDA s : gross[s], Seats)
Unallocated == Unlocked - GrossTotal

HoldsOf(s) == {id \in holds : payer[id] = s}
HeldBy(s) == MapThenSumSet(LAMBDA id : amount[id], HoldsOf(s))
Entitlement(s) == gross[s] - HeldBy(s)
Cover(s, protected) == IF s \in retired THEN 0 ELSE Larger(0, Entitlement(s) + protected)

LiveSeats == known \ retired
Placed == {order[i] : i \in 1 .. Len(order)}
Members(root) == {s \in LiveSeats : lineage[s] = root}
LiveLineages == {lineage[s] : s \in LiveSeats}

(* The oldest live member, in registration order. *)
Oldest(root) ==
    LET first == CHOOSE i \in 1 .. Len(order) :
                    /\ order[i] \in Members(root)
                    /\ \A j \in 1 .. i - 1 : order[j] \notin Members(root)
    IN  order[first]
EverySeat == LiveSeats          \* mutant: members are paid, not lineages
Heads == {Oldest(root) : root \in LiveLineages}

-------------------------------------------------------------------------------
(* The book is endowed once, before the first event (bootstrap.py 663). *)
GenesisSeats == {Genesis[i] : i \in 1 .. Len(Genesis)}
GenesisShare ==
    IF GenesisSeats = {} THEN 0
    ELSE ((Larger(0, Initial - LockedAfter[0]) * BaseNum) \div BaseDen)
            \div Cardinality(GenesisSeats)

BudgetInit ==
    /\ Init
    /\ known = GenesisSeats
    /\ gross = [s \in Seats |-> IF s \in GenesisSeats THEN GenesisShare ELSE 0]
    /\ retired = {}
    /\ order = Genesis /\ lineage = [s \in Seats |-> s]
    /\ holds = {} /\ payer = [id \in Ids |-> CHOOSE s \in Seats : TRUE]
    /\ uncertain = {} /\ own = [id \in Ids |-> 0]
    /\ commons = 0 /\ drawn = [id \in Ids |-> 0]

-------------------------------------------------------------------------------
(* Movements of entitlement: no money moves, the wallet is untouched. *)

(* Place a seat in its proposer's lineage; a placed seat keeps its own. *)
Adopt(s, root) ==
    IF s \in Placed THEN UNCHANGED <<order, lineage>>
    ELSE order' = Append(order, s) /\ lineage' = [lineage EXCEPT ![s] = root]

(* A registration moves its trial from the proposer to the child; the child *)
(* may be a retired seat's next version, which revives it.                  *)
RegisterChild(p, c, a) ==
    /\ ~Final /\ p \in known /\ p # c /\ a <= Entitlement(p)
    /\ Adopt(c, lineage[p])
    /\ gross' = [gross EXCEPT ![p] = @ - a, ![c] = @ + a]
    /\ known' = known \cup {c} /\ retired' = retired \ {c}
    /\ UNCHANGED <<vars, seatHoldVars, commons, drawn>>

(* A child nobody founded is endowed from the pool, when the pool covers it; *)
(* otherwise it is placed and stays without an entitlement.                  *)
RegisterFromPool(c, a) ==
    /\ ~Final
    /\ Adopt(c, c)
    /\ IF a <= Unallocated
       THEN /\ gross' = [gross EXCEPT ![c] = @ + a]
            /\ known' = known \cup {c} /\ retired' = retired \ {c}
       ELSE UNCHANGED <<gross, known, retired>>
    /\ UNCHANGED <<vars, seatHoldVars, commons, drawn>>

(* A proposal that registers no seat pays its trial to the pool. *)
Debit(p, a) ==
    /\ ~Final /\ p \in known /\ a <= Entitlement(p)
    /\ gross' = [gross EXCEPT ![p] = @ - a]
    /\ UNCHANGED <<vars, known, retired, order, lineage, seatHoldVars, commons, drawn>>

(* Retirement: refused with open holds; the entitlement returns to the pool. *)
Retire(s) ==
    /\ ~Final /\ s \in LiveSeats /\ HeldBy(s) = 0
    /\ gross' = [gross EXCEPT ![s] = 0] /\ retired' = retired \cup {s}
    /\ UNCHANGED <<vars, known, order, lineage, seatHoldVars, commons, drawn>>

(* Every head receives the same whole number of micro-dollars. *)
PayHeadsRoundedUp(total) ==     \* mutant: the remainder is minted
    LET share == IF Heads = {} THEN 0 ELSE (total + 1) \div Cardinality(Heads)
    IN  gross' = [s \in Seats |-> IF s \in Heads THEN gross[s] + share ELSE gross[s]]
PayHeads(total) ==
    LET share == IF Heads = {} THEN 0 ELSE total \div Cardinality(Heads)
    IN  gross' = [s \in Seats |-> IF s \in Heads THEN gross[s] + share ELSE gross[s]]

(* At a window boundary where nobody can act the whole pool is released. *)
CommonsRelease ==
    /\ ~Final /\ Heads # {} /\ Unallocated \div Cardinality(Heads) > 0
    /\ PayHeads(Unallocated)
    /\ UNCHANGED <<vars, known, retired, order, lineage, seatHoldVars, commons, drawn>>

-------------------------------------------------------------------------------
(* Movements that follow money the wallet has just moved. *)

(* What the pool really holds of released tranches: a hole that shared *)
(* spending left in it is refilled before any seat is endowed.         *)
Backed(tranches) == Larger(0, Smaller(tranches, Unallocated + tranches))

(* Due tranches are released, then classified: base_share of what the pool *)
(* holds of them, equally between the live lineages.                       *)
ReleaseAndSplit ==
    /\ ReleaseDue
    /\ LET tranches == Locked - LockedAfter[released']
       IN  PayHeads((Backed(tranches) * BaseNum) \div BaseDen)
    /\ UNCHANGED <<known, retired, order, lineage, seatHoldVars, commons, drawn>>

(* Paid income is settled into the wallet and earned by the service's owner; *)
(* a retired owner's income stays with the pool.                             *)
Income(s, a) ==
    /\ s \in Placed /\ a > 0 /\ SettleBatch(a, 0)
    /\ IF s \in retired THEN UNCHANGED <<gross, known>>
       ELSE gross' = [gross EXCEPT ![s] = @ + a] /\ known' = known \cup {s}
    /\ UNCHANGED <<retired, order, lineage, seatHoldVars, commons, drawn>>

(* Converted capital: the wallet is credited, then up to the seat's own      *)
(* venue profit is classified as its own, as far as the pool backs it.       *)
Financing(s, a, profit) ==
    /\ s \in Placed /\ a > 0 /\ SettleBatch(a, 0)
    /\ IF s \in retired THEN UNCHANGED <<gross, known>>
       ELSE /\ gross' = [gross EXCEPT ![s] =
                           @ + Larger(0, Smaller(Smaller(a, profit), Unallocated + a))]
            /\ known' = known \cup {s}
    /\ UNCHANGED <<retired, order, lineage, seatHoldVars, commons, drawn>>

-------------------------------------------------------------------------------
(* A seat's calls, through SeatWallet. *)

(* What a call may draw beyond its entitlement: a protected share for an    *)
(* unhistoried call (its trial may use the pool, its niche only the novelty *)
(* reserve), the pool's bridge for a seat whose ceiling was under-estimated. *)
Extras(s, kind) ==
    IF kind = "unhistoried"
    THEN {Larger(0, Larger(Unallocated, Remaining)), Remaining}
    ELSE IF Entitlement(s) > 0 THEN {0, Larger(0, Unallocated)} ELSE {0}

SeatReserve(s, a, kind, extra) ==
    /\ s \in known /\ a <= Cover(s, extra)
    /\ Reserve(a, kind)
    /\ holds' = holds \cup {nextReservation}
    /\ payer' = [payer EXCEPT ![nextReservation] = s]
    /\ drawn' = [drawn EXCEPT ![nextReservation] = Larger(0, a - Larger(0, Entitlement(s)))]
    /\ UNCHANGED <<bookVars, uncertain, own, commons>>

(* The seat pays out of this hold and what it has free, never out of its   *)
(* other open holds; the rest is the commons'.                             *)
OwnPartOfAll(id, actual) ==         \* mutant: takes what other holds keep
    Smaller(actual, gross[payer[id]])
OwnPart(id, actual) ==
    LET s == payer[id]
        free == gross[s] - (HeldBy(s) - amount[id])
    IN  Larger(0, Smaller(actual, free))

SettleHold(id, actual) ==
    /\ gross' = [gross EXCEPT ![payer[id]] = @ - OwnPart(id, actual)]
    /\ holds' = holds \ {id}
    /\ commons' = commons + (actual - OwnPart(id, actual))
    /\ UNCHANGED <<known, retired, order, lineage, payer, drawn>>

SeatCommit(id, actual) ==
    /\ id \in holds /\ Commit(id, actual) /\ SettleHold(id, actual)
    /\ UNCHANGED <<uncertain, own>>

SeatCommitReported(id, claim) ==
    /\ id \in holds /\ CommitReported(id, claim) /\ SettleHold(id, Booked(id, claim))
    /\ UNCHANGED <<uncertain, own>>

SeatCommitUncertain(id) ==
    /\ id \in holds /\ CommitUncertain(id) /\ SettleHold(id, amount[id])
    /\ uncertain' = uncertain \cup {id}
    /\ own' = [own EXCEPT ![id] = OwnPart(id, amount[id])]

(* The over-charged part of a ceiling returns to the seat as far as it paid, *)
(* as far as the pool now backs it, and only to a seat that is not retired.  *)
RefundBeyondPool(id, back) ==       \* mutant: the pool's own hole is ignored
    IF payer[id] \in retired THEN 0 ELSE Smaller(back, own[id])
RefundRetired(id, back) ==          \* mutant: a retired seat is refunded
    Larger(0, Smaller(Smaller(back, own[id]), Unallocated + back))
Refund(id, back) ==
    IF payer[id] \in retired THEN 0
    ELSE Larger(0, Smaller(Smaller(back, own[id]), Unallocated + back))

SeatSettleUncertain(id, actual) ==
    LET back == amount[id] - actual
    IN  /\ id \in uncertain /\ SettleUncertain(id, actual)
        /\ uncertain' = uncertain \ {id}
        /\ gross' = [gross EXCEPT ![payer[id]] = @ + Refund(id, back)]
        /\ commons' = commons - Larger(0, back - own[id])
        /\ UNCHANGED <<known, retired, order, lineage, holds, payer, own, drawn>>

SeatRelease(id) ==
    /\ id \in holds /\ ReleaseHold(id)
    /\ holds' = holds \ {id}
    /\ UNCHANGED <<bookVars, payer, uncertain, own, commons, drawn>>

(* The shared meter (treasury fees): no seat pays, the pool bears it. *)
SharedReserve(a) ==
    /\ Reserve(a, "fees")
    /\ UNCHANGED <<bookVars, seatHoldVars, commons, drawn>>

SharedCommit(id, claim) ==
    /\ id \notin holds /\ CommitReported(id, claim)
    /\ commons' = commons + Booked(id, claim)
    /\ UNCHANGED <<bookVars, seatHoldVars, drawn>>

SharedRelease(id) ==
    /\ id \notin holds /\ ReleaseHold(id)
    /\ UNCHANGED <<bookVars, seatHoldVars, commons, drawn>>

(* The wallet's own clock, window and end.  A kill for another reason only *)
(* disables every action, as EndIfDead does, and is left to Wallet.         *)
WorldStep ==
    /\ \/ Tick \/ Launch \/ EndIfDead
       \/ \E accrued \in 0 .. AccrualDen : OpenWindow(accrued)
    /\ UNCHANGED <<bookVars, seatHoldVars, commons, drawn>>

-------------------------------------------------------------------------------
BudgetNext ==
    \/ \E p, c \in Seats, a \in Trials : RegisterChild(p, c, a)
    \/ \E c \in Seats, a \in Trials : RegisterFromPool(c, a)
    \/ \E p \in Seats, a \in Trials : Debit(p, a)
    \/ \E s \in Seats : Retire(s)
    \/ CommonsRelease
    \/ ReleaseAndSplit
    \/ \E s \in Seats, a \in Deltas : Income(s, a)
    \/ \E s \in Seats, a \in Deltas, profit \in Trials : Financing(s, a, profit)
    \/ \E s \in Seats, a \in Amounts, kind \in {"historied", "unhistoried"} :
          \E extra \in Extras(s, kind) : SeatReserve(s, a, kind, extra)
    \/ \E id \in reservations :
          \/ \E actual \in 0 .. amount[id] : SeatCommit(id, actual)
          \/ \E claim \in 0 .. MaxReport :
                SeatCommitReported(id, claim) \/ SharedCommit(id, claim)
          \/ SeatCommitUncertain(id)
          \/ SeatRelease(id) \/ SharedRelease(id)
    \/ \E id \in bills : \E actual \in 0 .. amount[id] : SeatSettleUncertain(id, actual)
    \/ \E a \in Amounts : SharedReserve(a)
    \/ WorldStep

BudgetSpec == BudgetInit /\ [][BudgetNext]_bvars

-------------------------------------------------------------------------------
(* Properties. *)

(* The books have their types, and every entry the book keeps is one of the *)
(* wallet's: check_invariant (budget.py 173-180) for holds, and an uncertain *)
(* entry for every bill a seat can still be refunded for.                    *)
BudgetTypeOK ==
    /\ TypeOK
    /\ known \subseteq Placed /\ retired \subseteq known
    /\ gross \in [Seats -> Int] /\ \A s \in Seats \ known : gross[s] = 0
    /\ lineage \in [Seats -> Seats]
    /\ holds \subseteq reservations /\ payer \in [Ids -> Seats]
    /\ uncertain \subseteq bills /\ own \in [Ids -> Nat]
    /\ commons \in Int /\ drawn \in [Ids -> Nat]

(* No seat is ever driven below what its open holds were admitted to draw   *)
(* beyond its entitlement: not by an overrun, a release, a transfer or the  *)
(* order its calls finish in (budget.py 507-533, "no entitlement is driven  *)
(* negative").  In particular a seat without holds never owes anything.     *)
SeatNeverOverdrawn ==
    /\ BudgetTypeOK
    /\ \A s \in Seats :
        /\ gross[s] >= 0
        /\ Entitlement(s) >= -MapThenSumSet(LAMBDA id : drawn[id], HoldsOf(s))

(* Entitlements are never minted: they exceed the unlocked money only by    *)
(* what standing debits took from the pool because no seat paid it (budget.py *)
(* 151-159).                                                                *)
NothingMinted == Unallocated + commons >= 0

(* A pool in debt is refilled first: no release, registration or refund gives *)
(* a seat anything while entitlements overstate the wallet (budget.py 399-427, *)
(* 541-565); only income that arrived for the seat is never bounded.          *)
PoolRefilledFirst ==
    [][GrossTotal' > GrossTotal /\ settlements' = settlements => Unallocated' >= 0]_bvars

(* Retirement is final at this layer: a retired seat holds no entitlement   *)
(* and no money of an open call, and no late consequence gives it any; only *)
(* a registration under its id revives it.                                  *)
RetiredStaysEmpty ==
    /\ \A s \in retired : gross[s] = 0 /\ HeldBy(s) = 0
    /\ Heads \cap retired = {}

(* Replication buys no larger share: whatever families have grown, a tranche *)
(* or a commons release raises every live lineage by the same amount.        *)
LineageTotal(root) == MapThenSumSet(LAMBDA s : gross[s], Members(root))
EqualLineageShares ==
    [][ReleaseAndSplit \/ CommonsRelease =>
          \A r1, r2 \in LiveLineages :
             LineageTotal(r1)' - LineageTotal(r1) = LineageTotal(r2)' - LineageTotal(r2)]_bvars
===============================================================================
