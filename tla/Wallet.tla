-------------------------------- MODULE Wallet --------------------------------
(***************************************************************************)
(* The conserved wallet of kernel/wallet.py, the novelty reserve bound to  *)
(* it (kernel/reserve.py) and the termination rule that reads it           *)
(* (kernel/termination.py).  Money is an integer count of micro-dollars.   *)
(*                                                                         *)
(* Every method appends its evidence to the ledger and then changes the    *)
(* books; the world runs on one thread, so a method is one step.  A method *)
(* that refuses (it raises Infeasible) changes no book and has no action.  *)
(* Once the ledger is final every append raises, so every action that      *)
(* appends is disabled.                                                    *)
(*                                                                         *)
(* A Reservation is an immutable object with a fresh id.  The model keeps  *)
(* the amount it was issued for in `amount` and represents membership of   *)
(* the wallet's dictionaries by sets of ids: `reservations` (open holds),  *)
(* `bills` (booked at their ceiling, true cost unknown), `noveltyHolds`    *)
(* (holds with an allocation of the protected share).  The sums the code   *)
(* recomputes on demand are carried in `held` and `provisional`.           *)
(***************************************************************************)
EXTENDS Integers, FiniteSetsExt

CONSTANTS
    Initial,        \* the endowment, micro-dollars
    Floor,          \* balance_floor_micro, the death threshold
    Multiple,       \* reported_cost_multiple: a larger claim is disputed
    NTranches,      \* scheduled releases of locked backing
    LockedAfter,    \* k |-> backing still locked after k releases
    ReleaseAt,      \* k |-> offset of tranche k from the Launch
    DripAmount, DripStart, DripEnd, DripPeriod,   \* DripSchedule
    ShareNum, ShareDen,     \* the novelty share, a fraction in (0, 1]
    AccrualDen,     \* ticks of one flow period of the novelty share
    Cheapest,       \* cheapest_seat_micro, what the dormancy rule asks for
    Amounts,        \* ceilings a caller may ask to hold
    Deltas,         \* signed external effects a settlement may carry
    MaxHolds,       \* bound: reservations ever issued
    MaxTime,        \* bound: the clock
    MaxMoney,       \* bound: how far settlements carry the balance from zero
    MaxLoss,        \* bound: what overruns and settlements lose before no more settle
    MaxReport       \* bound: the largest cost a vendor reports

Ids == 0 .. MaxHolds - 1
None == -1          \* Python's None, where the value is a time

ASSUME MoneyAssumption ==
    /\ Initial \in Nat /\ Floor \in Nat
    /\ Multiple \in Nat \ {0}
    /\ Amounts \subseteq Nat /\ Deltas \subseteq Int
    /\ Cheapest \in Nat
    /\ MaxHolds \in Nat /\ MaxTime \in Nat
    /\ MaxMoney \in Nat /\ MaxLoss \in Nat /\ MaxReport \in Nat

ASSUME ScheduleAssumption ==
    /\ NTranches \in Nat
    /\ LockedAfter \in [0 .. NTranches -> Nat]
    /\ LockedAfter[0] <= Initial /\ LockedAfter[NTranches] = 0
    /\ \A j, k \in 0 .. NTranches : j < k => LockedAfter[k] < LockedAfter[j]
    /\ ReleaseAt \in [1 .. NTranches -> Nat]
    /\ \A j, k \in 1 .. NTranches : j < k => ReleaseAt[j] <= ReleaseAt[k]
    /\ DripAmount \in Nat /\ DripStart \in Nat /\ DripEnd \in Nat
    /\ DripStart <= DripEnd /\ DripPeriod \in Nat \ {0}

ASSUME ShareAssumption ==
    /\ ShareNum \in Nat \ {0} /\ ShareDen \in Nat \ {0} /\ ShareNum <= ShareDen
    /\ AccrualDen \in Nat \ {0}

VARIABLES
    now,             \* the world clock
    balance,         \* booked money, holds and locked backing included
    exhausted,       \* the latch of death
    launchNs,        \* the Launch the release offsets count from, or None
    released,        \* tranches already moved from locked to unlocked
    dripCount, drips, settlements, commits,        \* the totals of each source
    nextReservation, amount,   \* ids issued so far and their immutable amounts
    reservations, held,        \* open holds and the sum of their amounts
    bills, provisional,        \* uncertain bills and the sum of their ceilings
    noveltyHolds,    \* ids whose hold drew on the protected share
    alloc,           \* id |-> [window, amount] of that allocation
    windowStart,     \* when the novelty window opened, or None
    remaining,       \* unallocated entitlement of the novelty window
    reason,          \* the termination reason; "none" while the world lives
    \* History variables: read by properties, never by an action's guard.
    excess,          \* booked beyond a ceiling, or lost by a settlement
    granted, used    \* what the novelty window opened with and what was used

moneyVars == <<balance, exhausted, drips, settlements, commits>>
holdVars == <<nextReservation, amount, reservations, held>>
billVars == <<bills, provisional>>
noveltyVars == <<noveltyHolds, alloc, windowStart, remaining, granted, used>>
scheduleVars == <<launchNs, released, dripCount>>
vars == <<now, balance, exhausted, launchNs, released, dripCount, drips, settlements,
          commits, nextReservation, amount, reservations, held, bills, provisional,
          noveltyHolds, alloc, windowStart, remaining, reason, excess,
          granted, used>>

-------------------------------------------------------------------------------
(* What the wallet answers. *)

Larger(a, b) == IF a >= b THEN a ELSE b
Smaller(a, b) == IF a <= b THEN a ELSE b

Final == reason # "none"
Locked == LockedAfter[released]
Unlocked == balance - Locked

(* reserve.py: a window is active from its opening until the ledger is final. *)
Active == windowStart # None /\ ~Final
Remaining == IF Active THEN remaining ELSE 0

SpendsLocked == balance - held      \* mutant: locked backing is spendable
UnhistoriedAvailable == Unlocked - held
Available == UnhistoriedAvailable - Remaining

(* What a caller is: ordinary work, work whose contract has no settled    *)
(* history (only it may draw on the protected share), or a treasury fee.  *)
Kinds == {"historied", "unhistoried", "fees"}
AvailableFor(kind) == IF kind = "unhistoried" THEN UnhistoriedAvailable ELSE Available

(* At the floor even if every outstanding bill settled at zero. *)
FloorReached(bal, prov) == bal + prov <= Floor

(* exhausted |= condition: the latch of death is set and never cleared. *)
DieIf(condition) == exhausted' = (exhausted \/ condition)

Dead == exhausted \/ FloorReached(balance, provisional)
Live == ~Dead /\ ~Final

NextRelease == IF launchNs = None \/ released = NTranches
               THEN None ELSE launchNs + ReleaseAt[released + 1]

(* termination.py: the pause that is not a death. *)
Dormant == /\ ~Final /\ ~Dead
           /\ Locked > 0 /\ NextRelease # None
           /\ UnhistoriedAvailable < Larger(1, Cheapest)

-------------------------------------------------------------------------------
Init ==
    /\ now = 0
    /\ balance = Initial /\ exhausted = (Initial <= Floor)
    /\ launchNs = None /\ released = 0
    /\ dripCount = 0 /\ drips = 0 /\ settlements = 0 /\ commits = 0
    /\ nextReservation = 0 /\ amount = [i \in Ids |-> 0]
    /\ reservations = {} /\ held = 0
    /\ bills = {} /\ provisional = 0
    /\ noveltyHolds = {} /\ alloc = [i \in Ids |-> [window |-> None, amount |-> 0]]
    /\ windowStart = None /\ remaining = 0
    /\ reason = "none"
    /\ excess = 0 /\ granted = 0 /\ used = 0

-------------------------------------------------------------------------------
(* Clock, Launch and the release of locked backing. *)

(* The loop's clock moves between events while the world lives. *)
Tick ==
    /\ ~Final /\ now < MaxTime
    /\ now' = now + 1
    /\ UNCHANGED <<moneyVars, holdVars, billVars, noveltyVars, scheduleVars, reason, excess>>

(* Anchored once; the loop calls it when it ledgers the Launch, before the *)
(* first event moves its clock.                                            *)
Launch ==
    /\ ~Final /\ launchNs = None /\ now = 0
    /\ launchNs' = now
    /\ UNCHANGED <<now, moneyVars, holdVars, billVars, noveltyVars, released, dripCount,
                   reason, excess>>

(* Every tranche that is due, in order, in one call; offsets ascend. *)
AllButTheLast ==                    \* mutant: off by one
    IF launchNs = None THEN {}
    ELSE {k \in released + 1 .. NTranches - 1 : launchNs + ReleaseAt[k] <= now}
DueTranches ==
    IF launchNs = None THEN {}
    ELSE {k \in released + 1 .. NTranches : launchNs + ReleaseAt[k] <= now}

ReleaseDue ==
    /\ ~Final /\ DueTranches # {}
    /\ released' \in DueTranches
    /\ \A k \in DueTranches : k <= released'
    /\ UNCHANGED <<now, moneyVars, holdVars, billVars, noveltyVars, launchNs, dripCount,
                   reason, excess>>

(* Each scheduled deposit once, in [start, end); never revives a dead wallet. *)
DripsDue ==
    IF now < DripStart \/ DripEnd = DripStart THEN 0
    ELSE (Smaller(now, DripEnd - 1) - DripStart) \div DripPeriod + 1

DripUncounted ==                    \* mutant: the total of the source is forgotten
    /\ Live /\ DripsDue > dripCount
    /\ balance' = balance + DripAmount * (DripsDue - dripCount)
    /\ dripCount' = DripsDue
    /\ UNCHANGED <<now, launchNs, released, exhausted, drips, settlements, commits, holdVars,
                   billVars, noveltyVars, reason, excess>>
Drip ==
    /\ Live /\ DripsDue > dripCount
    /\ LET deposited == DripAmount * (DripsDue - dripCount)
       IN  balance' = balance + deposited /\ drips' = drips + deposited
    /\ dripCount' = DripsDue
    /\ UNCHANGED <<now, launchNs, released, exhausted, settlements, commits, holdVars,
                   billVars, noveltyVars, reason, excess>>

-------------------------------------------------------------------------------
(* The novelty reserve. *)

(* The runtime opens a window on the spendable balance, for the part of one *)
(* flow period it covers; the entitlement is capped at one period's share.  *)
OpenWindow(accrued) ==
    LET cap == (Larger(0, Unlocked) * ShareNum) \div ShareDen
        entitlement == Smaller(cap, Remaining + (cap * accrued) \div AccrualDen)
    IN  /\ ~Final /\ now > windowStart
        /\ windowStart' = now
        /\ remaining' = entitlement /\ granted' = entitlement /\ used' = 0
        /\ UNCHANGED <<now, moneyVars, holdVars, billVars, noveltyHolds, alloc,
                       scheduleVars, reason, excess>>

(* A contract is registered against the share: reserve_for, register, consume. *)
(* A refused registration gives its receipt back and changes nothing.          *)
RegisterWithTrial(a) ==
    /\ Active /\ a > 0 /\ a <= remaining
    /\ remaining' = remaining - a /\ used' = used + a
    /\ UNCHANGED <<now, moneyVars, holdVars, billVars, noveltyHolds, alloc, windowStart,
                   granted, scheduleVars, reason, excess>>

(* _allocate_compute, inside reserve: what the share protects of a new hold. *)
Protection(a) == Smaller(a, Remaining)

AllocateNovelty(id, a, kind) ==
    IF kind = "unhistoried"
    THEN LET protected == Protection(a) IN
         /\ noveltyHolds' = noveltyHolds \cup {id}
         /\ alloc' = [alloc EXCEPT ![id] = [window |-> windowStart, amount |-> protected]]
         /\ remaining' = remaining - protected
    ELSE UNCHANGED <<noveltyHolds, alloc, remaining>>

(* _refund_compute, inside commit and release: unspent protection returns, *)
(* but only to the window it came from.                                    *)
AnyWindow(id) == id \in noveltyHolds /\ Active      \* mutant: an earlier window refunds
SameWindow(id) == id \in noveltyHolds /\ Active /\ alloc[id].window = windowStart

RefundNovelty(id, spent) ==
    LET own == alloc[id].amount
    IN  /\ noveltyHolds' = noveltyHolds \ {id}
        /\ remaining' = IF SameWindow(id) THEN remaining + Larger(0, own - spent) ELSE remaining
        /\ used' = IF SameWindow(id) THEN used + Smaller(own, spent) ELSE used
        /\ UNCHANGED <<alloc, windowStart, granted>>

-------------------------------------------------------------------------------
(* Holds. *)

Reserve(a, kind) ==
    LET id == nextReservation
        reconcileOnly == a = 0 /\ kind = "fees"
    IN  /\ Live /\ id < MaxHolds
        /\ a <= AvailableFor(kind) \/ reconcileOnly
        /\ nextReservation' = id + 1
        /\ amount' = [amount EXCEPT ![id] = a]
        /\ reservations' = reservations \cup {id}
        /\ held' = held + a
        /\ AllocateNovelty(id, a, kind)
        /\ UNCHANGED <<now, moneyVars, billVars, windowStart, granted, used, scheduleVars,
                       reason, excess>>

(* _commit: the books of one debit; the remainder of the hold is released. *)
Book(id, actual) ==
    /\ balance' = balance - actual
    /\ commits' = commits + actual
    /\ reservations' = reservations \ {id}
    /\ held' = held - amount[id]
    /\ excess' = excess + Larger(0, actual - amount[id])
    /\ RefundNovelty(id, actual)
    /\ UNCHANGED <<now, drips, settlements, nextReservation, amount, scheduleVars, reason>>

Commit(id, actual) ==
    /\ Live /\ id \in reservations /\ actual <= amount[id]
    /\ Book(id, actual)
    /\ DieIf(FloorReached(balance - actual, provisional))
    /\ UNCHANGED billVars

(* A vendor's claim: above the ceiling it is an overrun and is paid, above *)
(* the ceiling times the multiple it is disputed and the ceiling is paid.  *)
Booked(id, claim) == IF claim > amount[id] * Multiple THEN amount[id] ELSE claim

CommitReported(id, claim) ==
    /\ Live /\ id \in reservations
    /\ Book(id, Booked(id, claim))
    /\ DieIf(FloorReached(balance - Booked(id, claim), provisional))
    /\ UNCHANGED billVars

(* No live check: a call that outlived the wallet still books its ceiling. *)
(* The ceiling being booked is itself provisional and cannot latch death.  *)
CommitCeilingAsSettled(id) ==       \* mutant: its own ceiling is read as settled
    /\ ~Final /\ id \in reservations
    /\ Book(id, amount[id])
    /\ DieIf(FloorReached(balance - amount[id], provisional))
    /\ bills' = bills \cup {id}
    /\ provisional' = provisional + amount[id]
CommitUncertain(id) ==
    /\ ~Final /\ id \in reservations
    /\ Book(id, amount[id])
    /\ DieIf(FloorReached(balance - amount[id], provisional + amount[id]))
    /\ bills' = bills \cup {id}
    /\ provisional' = provisional + amount[id]

SettleUncertain(id, actual) ==
    /\ Live /\ id \in bills /\ actual <= amount[id]
    /\ balance' = balance + (amount[id] - actual)
    /\ commits' = commits - (amount[id] - actual)
    /\ bills' = bills \ {id}
    /\ provisional' = provisional - amount[id]
    /\ DieIf(FloorReached(balance + (amount[id] - actual), provisional - amount[id]))
    /\ UNCHANGED <<now, drips, settlements, holdVars, noveltyVars, scheduleVars, reason,
                   excess>>

ReleaseHold(id) ==
    /\ ~Final /\ id \in reservations
    /\ reservations' = reservations \ {id}
    /\ held' = held - amount[id]
    /\ RefundNovelty(id, 0)
    /\ UNCHANGED <<now, moneyVars, nextReservation, amount, billVars, scheduleVars, reason,
                   excess>>

-------------------------------------------------------------------------------
(* Settlements, restart and the end. *)

(* A batch of two effects: death is latched if the floor is reached after *)
(* either of them, even when the second recovers.                         *)
SettleBatch(d1, d2) ==
    /\ Live /\ balance + d1 + d2 \in -MaxMoney .. MaxMoney /\ excess <= MaxLoss
    /\ balance' = balance + d1 + d2
    /\ settlements' = settlements + d1 + d2
    /\ DieIf(\/ FloorReached(balance + d1, provisional)
             \/ FloorReached(balance + d1 + d2, provisional))
    /\ excess' = excess + Larger(0, -(d1 + d2))
    /\ UNCHANGED <<now, drips, commits, holdVars, billVars, noveltyVars, scheduleVars, reason>>

(* A restart rebuilds the wallet from its checkpoint: every book is restored *)
(* as saved, conservation is checked, and the latch is saved-or-recomputed.  *)
RestoreForgetsLatch ==              \* mutant: recomputed only
    /\ ~Final /\ Initial > Floor /\ balance = Initial + drips + settlements - commits
    /\ exhausted' = FloorReached(balance, provisional)
    /\ UNCHANGED <<now, balance, drips, settlements, commits, holdVars, billVars,
                   noveltyVars, scheduleVars, reason, excess>>
Restore ==
    /\ ~Final /\ Initial > Floor /\ balance = Initial + drips + settlements - commits
    /\ DieIf(FloorReached(balance, provisional))
    /\ UNCHANGED <<now, balance, drips, settlements, commits, holdVars, billVars,
                   noveltyVars, scheduleVars, reason, excess>>

BudgetReason == IF Floor > 0 THEN "balance_floor" ELSE "balance_zero"

(* The loop ends every event by asking termination.check and killing the *)
(* world on a terminal answer; dormancy is not one.                      *)
EndIfNothingLocked ==               \* mutant: death waits for the last tranche
    /\ ~Final /\ Dead /\ Locked = 0
    /\ reason' = BudgetReason
    /\ UNCHANGED <<now, moneyVars, holdVars, billVars, noveltyVars, scheduleVars, excess>>
EndIfDead ==
    /\ ~Final /\ Dead
    /\ reason' = BudgetReason
    /\ UNCHANGED <<now, moneyVars, holdVars, billVars, noveltyVars, scheduleVars, excess>>

(* The reasons that do not come from the wallet: the first one is kept. *)
OtherReasons == {"explicit_kill", "insolvency"}

Kill(r) ==
    /\ ~Final
    /\ reason' = r
    /\ UNCHANGED <<now, moneyVars, holdVars, billVars, noveltyVars, scheduleVars, excess>>

-------------------------------------------------------------------------------
HoldNext ==
    \/ \E a \in Amounts, kind \in Kinds : Reserve(a, kind)
    \/ \E id \in reservations :
          \/ \E actual \in 0 .. amount[id] : Commit(id, actual)
          \/ \E claim \in 0 .. MaxReport : CommitReported(id, claim)
          \/ CommitUncertain(id)
          \/ ReleaseHold(id)
    \/ \E id \in bills : \E actual \in 0 .. amount[id] : SettleUncertain(id, actual)

Next ==
    \/ Tick \/ Launch \/ ReleaseDue \/ Drip
    \/ \E accrued \in 0 .. AccrualDen : OpenWindow(accrued)
    \/ \E a \in Amounts : RegisterWithTrial(a)
    \/ HoldNext
    \/ \E d1, d2 \in Deltas : SettleBatch(d1, d2)
    \/ Restore \/ EndIfDead
    \/ \E r \in OtherReasons : Kill(r)

Spec == Init /\ [][Next]_vars

(* The clock keeps ticking, every event releases what is due and every event *)
(* ends with the termination check, whatever the seats do in between.        *)
Fairness == WF_vars(Tick) /\ WF_vars(ReleaseDue) /\ WF_vars(EndIfDead)
FairSpec == Spec /\ Fairness

-------------------------------------------------------------------------------
(* Properties. *)

(* Every book has its type: counts and totals of holds are never negative,  *)
(* an open hold or an uncertain bill has an id that was issued.             *)
TypeOK ==
    /\ now \in Nat /\ balance \in Int /\ exhausted \in BOOLEAN
    /\ launchNs \in Nat \cup {None} /\ released \in 0 .. NTranches
    /\ dripCount \in Nat /\ drips \in Nat /\ settlements \in Int /\ commits \in Int
    /\ nextReservation \in 0 .. MaxHolds /\ amount \in [Ids -> Nat]
    /\ reservations \subseteq 0 .. nextReservation - 1 /\ held \in Int
    /\ bills \subseteq 0 .. nextReservation - 1 /\ provisional \in Int
    /\ noveltyHolds \subseteq Ids
    /\ alloc \in [Ids -> [window : Nat \cup {None}, amount : Nat]]
    /\ windowStart \in Nat \cup {None} /\ remaining \in Nat
    /\ reason \in {"none", BudgetReason} \cup OtherReasons
    /\ excess \in Nat /\ granted \in Nat /\ used \in Nat

(* check_conservation: whatever order holds, bills, drips and settlements     *)
(* come in, the balance is what came in less what was booked.                 *)
Conservation == balance = Initial + drips + settlements - commits

(* Escrow and open holds are backed: money is only missing from under them    *)
(* by as much as vendors over-reported or settlements lost (wallet.py 140-158,*)
(* 325-350: a reservation may use unlocked money that no hold keeps).         *)
EscrowBacked == Locked + held <= balance + excess

(* A bill booked at its ceiling is no longer a hold: no reservation can be    *)
(* debited a second time through the other path.                              *)
BilledOnce == bills \cap reservations = {}

(* The totals the wallet answers from are the sums of what is open, and the  *)
(* novelty window is conserved: what it was granted is unallocated, protects *)
(* an open hold of this window, or was used (reserve.py 161-190: protection  *)
(* returns once, unspent, and only to the window it came from).              *)
Protected == [id \in Ids |-> alloc[id].amount]
CurrentHolds == {id \in noveltyHolds : alloc[id].window = windowStart}
BooksReconcile ==
    /\ TypeOK
    /\ held = MapThenSumSet(LAMBDA id : amount[id], reservations)
    /\ provisional = MapThenSumSet(LAMBDA id : amount[id], bills)
    /\ Active =>
         granted = remaining + used + MapThenSumSet(LAMBDA id : Protected[id], CurrentHolds)

(* Death is never missed: whenever the floor is reached on settled money the  *)
(* latch is already set, so `dead` never depends on when it is asked.         *)
DeathLatched == FloorReached(balance, provisional) => exhausted

(* Death is final: no settlement, drip, release or restart revives a wallet,  *)
(* and a termination reason is never overwritten (termination.py 99-127).     *)
DeathIsFinal == [][(Dead => Dead') /\ (Final => reason' = reason)]_vars

(* Death is decided on settled reality: booking a bill whose true cost is     *)
(* unknown never kills, however large its ceiling.                            *)
NoDeathByCeiling == [][~(bills' \subseteq bills) /\ ~Dead => ~Dead']_vars

(* Death is decided once, on settled reality, and never taken back: neither   *)
(* an unknown bill's ceiling nor a restart decides it again (wallet.py        *)
(* 288-306, 599-640).                                                         *)
DeathDecidedOnce == DeathIsFinal /\ NoDeathByCeiling

(* A dead wallet ends the world: the check at the end of an event kills it.   *)
DeathEndsWorld == Dead ~> Final

(* Dormancy is a pause: a launched world waiting for its next tranche gets it *)
(* (and stops waiting) or ends.                                               *)
DormancyEnds == Dormant ~> ~Dormant

===============================================================================
