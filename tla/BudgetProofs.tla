---------------------------- MODULE BudgetProofs ----------------------------
(***************************************************************************)
(* What holds of the wallet for every endowment, schedule, set of ceilings *)
(* and sequence of calls; then of the budget book that moves with it, for  *)
(* every population of seats, every ceiling and every order of calls.      *)
(*                                                                         *)
(* The inductive invariant BudgetInv adds to the wallet's, IInv, what      *)
(* makes each property of the book survive a step: a hold drew no more     *)
(* than its amount, a bill was paid by its seat for no more than its       *)
(* ceiling, and the commons still bears everything that the seats did not  *)
(* pay of the open bills, so that settling them can never leave it         *)
(* negative.                                                               *)
(***************************************************************************)
EXTENDS Budget, Sums

-----------------------------------------------------------------------------
(* The wallet.                                                                *)

(* The inductive invariant.  DeathLatched needs no history of the balance:  *)
(* every method that can lower `balance + provisional` re-reads the floor   *)
(* on the books it leaves.  EscrowBacked is inductive by itself.            *)
IInv == TypeOK /\ Conservation /\ EscrowBacked /\ BilledOnce /\ DeathLatched

USE DEF Ids, None

(* A share of a nonnegative amount is a nonnegative amount. *)
LEMMA ShareIsNat ==
    ASSUME NEW a \in Nat, NEW b \in Nat, NEW c \in Nat \ {0}
    PROVE  (a * b) \div c \in Nat
<1>1. a * b \in Nat
  OBVIOUS
<1>2. \A x \in Nat : x \div c \in Nat
  OBVIOUS
<1> QED
  BY <1>1, <1>2

(* The larger and the smaller of two integers are integers between them. *)
LEMMA LargerSmaller ==
    ASSUME NEW a \in Int, NEW b \in Int
    PROVE  /\ Larger(a, b) \in Int /\ Larger(a, b) >= a /\ Larger(a, b) >= b
           /\ Larger(a, b) \in {a, b}
           /\ Smaller(a, b) \in Int /\ Smaller(a, b) <= a /\ Smaller(a, b) <= b
           /\ Smaller(a, b) \in {a, b}
  BY DEF Larger, Smaller

(* The initial books satisfy the invariant. *)
LEMMA InitIInv == Init => IInv
<1> SUFFICES ASSUME Init PROVE IInv
  OBVIOUS
<1>1. exhausted \in BOOLEAN /\ (Initial <= Floor => exhausted)
  <2>1. exhausted = (Initial <= Floor)
    BY DEF Init
  <2>2. (Initial <= Floor) \in BOOLEAN
    OBVIOUS
  <2> QED
    BY <2>1, <2>2, Zenon
<1>2. TypeOK
  BY <1>1, MoneyAssumption, ScheduleAssumption DEF Init, TypeOK
<1>3. Conservation
  BY MoneyAssumption DEF Init, Conservation
<1>4. EscrowBacked
  BY MoneyAssumption, ScheduleAssumption DEF Init, EscrowBacked, Locked
<1>5. BilledOnce
  BY DEF Init, BilledOnce
<1>6. DeathLatched
  <2>1. balance + provisional = Initial
    BY MoneyAssumption DEF Init
  <2> QED
    BY <1>1, <2>1 DEF DeathLatched, FloorReached
<1> QED
  BY <1>2, <1>3, <1>4, <1>5, <1>6 DEF IInv

(* A refund leaves the novelty books typed: only unspent protection comes back. *)
LEMMA RefundStep ==
    ASSUME TypeOK, NEW id \in Ids, NEW spent \in Nat, RefundNovelty(id, spent)
    PROVE  /\ noveltyHolds' \subseteq Ids /\ remaining' \in Nat /\ used' \in Nat
           /\ alloc' = alloc /\ windowStart' = windowStart /\ granted' = granted
<1>1. alloc[id].amount \in Nat
  BY DEF TypeOK
<1>2. Larger(0, alloc[id].amount - spent) \in Nat /\ Smaller(alloc[id].amount, spent) \in Nat
  BY <1>1 DEF Larger, Smaller
<1> QED
  BY <1>2 DEF TypeOK, RefundNovelty, SameWindow

(* An open hold has an issued id, and its ceiling is a nonnegative amount. *)
LEMMA HoldTyped ==
    ASSUME TypeOK, NEW id \in reservations \cup bills
    PROVE  id \in Ids /\ amount[id] \in Nat
<1>1. id \in Ids
  BY MoneyAssumption DEF TypeOK
<1> QED
  BY <1>1 DEF TypeOK

(* What every debit does to the books, whichever method makes it: the hold  *)
(* it closes was backing the part of the cost that its ceiling covers.      *)
LEMMA BookStep ==
    ASSUME IInv, NEW id \in reservations, NEW actual \in Nat, Book(id, actual)
    PROVE  /\ balance' = balance - actual /\ balance' \in Int
           /\ commits' \in Int /\ held' \in Int /\ excess' \in Nat
           /\ reservations' = reservations \ {id} /\ nextReservation' = nextReservation
           /\ noveltyHolds' \subseteq Ids /\ remaining' \in Nat /\ used' \in Nat
           /\ UNCHANGED <<now, launchNs, released, dripCount, drips, settlements, amount,
                          alloc, windowStart, granted, reason>>
           /\ Conservation' /\ EscrowBacked'
<1>1. id \in Ids /\ amount[id] \in Nat
  BY HoldTyped DEF IInv
<1>2. /\ Larger(0, actual - amount[id]) \in Nat
      /\ Larger(0, actual - amount[id]) >= actual - amount[id]
  BY <1>1 DEF Larger
<1>3. RefundNovelty(id, actual)
  BY DEF Book
<1>4. /\ noveltyHolds' \subseteq Ids /\ remaining' \in Nat /\ used' \in Nat
      /\ alloc' = alloc /\ windowStart' = windowStart /\ granted' = granted
  BY <1>1, <1>3, RefundStep DEF IInv
<1>5. /\ balance' = balance - actual /\ commits' = commits + actual
      /\ held' = held - amount[id] /\ excess' = excess + Larger(0, actual - amount[id])
      /\ reservations' = reservations \ {id} /\ nextReservation' = nextReservation
      /\ UNCHANGED <<now, launchNs, released, dripCount, drips, settlements, amount, reason>>
  BY DEF Book, scheduleVars
<1>6. balance' \in Int /\ commits' \in Int /\ held' \in Int /\ excess' \in Nat
  BY <1>1, <1>2, <1>5 DEF IInv, TypeOK
<1>7. Conservation'
  BY <1>5, MoneyAssumption DEF IInv, TypeOK, Conservation
<1>8. EscrowBacked'
  <2>1. Locked \in Int /\ Locked' = Locked
    BY <1>5, ScheduleAssumption DEF IInv, TypeOK, Locked
  <2>2. Locked + held <= balance + excess
    BY DEF IInv, EscrowBacked
  <2>3. /\ balance \in Int /\ held \in Int /\ excess \in Int
        /\ held' = held - amount[id] /\ balance' = balance - actual
        /\ excess' >= excess + actual - amount[id] /\ excess' \in Int
    BY <1>1, <1>2, <1>5 DEF IInv, TypeOK
  <2>4. Locked + held' <= balance' + excess'
    BY <1>1, <2>1, <2>2, <2>3
  <2> QED
    BY <2>1, <2>4 DEF EscrowBacked
<1> QED
  BY <1>4, <1>5, <1>6, <1>7, <1>8

(* A debit keeps the type invariant once its action says what it does to    *)
(* the latch and to the uncertain bills.                                    *)
LEMMA BookTypes ==
    ASSUME IInv, NEW id \in reservations, NEW actual \in Nat, Book(id, actual),
           exhausted' \in BOOLEAN, bills' \subseteq bills \cup {id}, provisional' \in Int
    PROVE  TypeOK'
<1>1. bills' \subseteq 0 .. nextReservation - 1
  BY DEF IInv, TypeOK
<1>2. reservations' \subseteq 0 .. nextReservation - 1
  BY BookStep DEF IInv, TypeOK
<1> QED
  BY <1>1, <1>2, BookStep DEF IInv, TypeOK

(* A step that leaves money, holds, bills and the tranche count alone keeps  *)
(* every part of the invariant but the types.                                *)
LEMMA QuietStep ==
    ASSUME IInv, UNCHANGED <<moneyVars, holdVars, billVars, released, excess>>
    PROVE  Conservation' /\ EscrowBacked' /\ BilledOnce' /\ DeathLatched'
<1>1. /\ UNCHANGED <<balance, exhausted, drips, settlements, commits>>
      /\ UNCHANGED <<reservations, held, bills, provisional, released, excess>>
  BY DEF moneyVars, holdVars, billVars
<1> QED
  BY <1>1 DEF IInv, Conservation, EscrowBacked, BilledOnce, DeathLatched, Locked, FloorReached

(* Setting the latch on the books a step leaves keeps DeathLatched.          *)
LEMMA LatchStep ==
    ASSUME exhausted \in BOOLEAN, NEW bal \in Int, NEW prov \in Int,
           DieIf(FloorReached(bal, prov)), balance' = bal, provisional' = prov
    PROVE  exhausted' \in BOOLEAN /\ (exhausted => exhausted') /\ DeathLatched'
<1>1. exhausted' = (exhausted \/ FloorReached(bal, prov))
  BY DEF DieIf
<1>2. FloorReached(balance', provisional') = FloorReached(bal, prov)
  OBVIOUS
<1>3. FloorReached(bal, prov) \in BOOLEAN
  BY DEF FloorReached
<1>4. exhausted' \in BOOLEAN /\ (exhausted => exhausted') /\ (FloorReached(bal, prov) => exhausted')
  BY <1>1, <1>3, Zenon
<1> QED
  BY <1>2, <1>4 DEF DeathLatched

(* The clock, the Launch, the end: no book moves.                            *)
LEMMA ClockStep ==
    ASSUME IInv, Tick \/ Launch \/ EndIfDead \/ (\E r \in OtherReasons : Kill(r))
    PROVE  IInv'
<1>1. CASE Tick
  <2>1. TypeOK'
    BY <1>1 DEF IInv, TypeOK, Tick, moneyVars, holdVars, billVars, noveltyVars, scheduleVars
  <2> QED
    BY <1>1, <2>1, QuietStep DEF IInv, Tick, scheduleVars
<1>2. CASE Launch
  <2>1. TypeOK'
    BY <1>2 DEF IInv, TypeOK, Launch, moneyVars, holdVars, billVars, noveltyVars
  <2> QED
    BY <1>2, <2>1, QuietStep DEF IInv, Launch
<1>3. CASE EndIfDead
  <2>1. TypeOK'
    BY <1>3 DEF IInv, TypeOK, EndIfDead, moneyVars, holdVars, billVars, noveltyVars,
                scheduleVars
  <2> QED
    BY <1>3, <2>1, QuietStep DEF IInv, EndIfDead, scheduleVars
<1>4. CASE \E r \in OtherReasons : Kill(r)
  <2>1. TypeOK'
    BY <1>4 DEF IInv, TypeOK, Kill, moneyVars, holdVars, billVars, noveltyVars, scheduleVars
  <2> QED
    BY <1>4, <2>1, QuietStep DEF IInv, Kill, scheduleVars
<1> QED
  BY <1>1, <1>2, <1>3, <1>4

(* The novelty reserve moves entitlement, never money.                       *)
LEMMA NoveltyStep ==
    ASSUME IInv,
           \/ \E accrued \in 0 .. AccrualDen : OpenWindow(accrued)
           \/ \E a \in Amounts : RegisterWithTrial(a)
    PROVE  IInv'
<1>1. ASSUME NEW accrued \in 0 .. AccrualDen, OpenWindow(accrued) PROVE IInv'
  <2> DEFINE cap == (Larger(0, Unlocked) * ShareNum) \div ShareDen
             entitlement == Smaller(cap, Remaining + (cap * accrued) \div AccrualDen)
  <2>1. Larger(0, Unlocked) \in Nat
    BY ScheduleAssumption DEF IInv, TypeOK, Unlocked, Locked, Larger
  <2>2. cap \in Nat
    BY <2>1, ShareAssumption, ShareIsNat
  <2>3. (cap * accrued) \div AccrualDen \in Nat
    BY <2>2, ShareAssumption, ShareIsNat
  <2>4. Remaining \in Nat
    BY DEF IInv, TypeOK, Remaining
  <2>5. entitlement \in Nat
    <3> HIDE DEF cap
    <3> QED
      BY <2>2, <2>3, <2>4 DEF Smaller
  <2>6. windowStart' = now /\ remaining' = entitlement /\ granted' = entitlement /\ used' = 0
    BY <1>1 DEF OpenWindow
  <2>7. UNCHANGED <<now, moneyVars, holdVars, billVars, noveltyHolds, alloc, scheduleVars,
                    reason, excess>>
    BY <1>1 DEF OpenWindow
  <2> HIDE DEF entitlement
  <2>8. TypeOK'
    BY <2>5, <2>6, <2>7 DEF IInv, TypeOK, moneyVars, holdVars, billVars, scheduleVars
  <2> QED
    BY <2>7, <2>8, QuietStep DEF IInv, scheduleVars
<1>2. ASSUME NEW a \in Amounts, RegisterWithTrial(a) PROVE IInv'
  <2>1. TypeOK'
    BY <1>2, MoneyAssumption DEF IInv, TypeOK, RegisterWithTrial, moneyVars, holdVars,
                                 billVars, scheduleVars
  <2> QED
    BY <1>2, <2>1, QuietStep DEF IInv, RegisterWithTrial, scheduleVars
<1> QED
  BY <1>1, <1>2

(* A released tranche lowers what is locked and moves no money.              *)
LEMMA ReleaseStep ==
    ASSUME IInv, ReleaseDue
    PROVE  IInv'
<1>1. /\ released' \in released + 1 .. NTranches
      /\ UNCHANGED <<now, moneyVars, holdVars, billVars, noveltyVars, launchNs, dripCount,
                     reason, excess>>
  BY DEF ReleaseDue, DueTranches
<1>2. TypeOK'
  BY <1>1, ScheduleAssumption DEF IInv, TypeOK, moneyVars, holdVars, billVars, noveltyVars
<1>3. UNCHANGED <<balance, exhausted, drips, settlements, commits, reservations, held,
                  bills, provisional, excess>>
  BY <1>1 DEF moneyVars, holdVars, billVars
<1>4. EscrowBacked'
  <2> DEFINE before == LockedAfter[released]
             after == LockedAfter[released']
  <2>1. before \in Int /\ after \in Int /\ after <= before
    BY <1>1, ScheduleAssumption DEF IInv, TypeOK
  <2>2. before + held <= balance + excess
    BY DEF IInv, EscrowBacked, Locked
  <2>3. held \in Int /\ balance \in Int /\ excess \in Int
    BY DEF IInv, TypeOK
  <2> HIDE DEF before, after
  <2>4. after + held <= balance + excess
    BY <2>1, <2>2, <2>3
  <2> QED
    BY <1>3, <2>4 DEF EscrowBacked, Locked, after
<1> QED
  BY <1>2, <1>3, <1>4
  DEF IInv, Conservation, BilledOnce, DeathLatched, FloorReached

(* A drip deposits a nonnegative amount: it cannot reach the floor.          *)
LEMMA DripStep ==
    ASSUME IInv, Drip
    PROVE  IInv'
<1> DEFINE deposited == DripAmount * (DripsDue - dripCount)
<1>1. DripsDue \in Nat /\ DripsDue > dripCount
  <2>1. DripsDue \in Int
    BY ScheduleAssumption DEF IInv, TypeOK, DripsDue, Smaller
  <2> QED
    BY <2>1 DEF Drip, IInv, TypeOK
<1>2. deposited \in Nat
  <2>1. DripsDue - dripCount \in Nat
    BY <1>1 DEF IInv, TypeOK
  <2> QED
    BY <2>1, ScheduleAssumption
<1>3. /\ balance' = balance + deposited /\ drips' = drips + deposited
      /\ dripCount' = DripsDue
      /\ UNCHANGED <<now, launchNs, released, exhausted, settlements, commits, holdVars,
                     billVars, noveltyVars, reason, excess>>
  BY DEF Drip
<1> HIDE DEF deposited
<1>4. TypeOK'
  BY <1>1, <1>2, <1>3 DEF IInv, TypeOK, holdVars, billVars, noveltyVars
<1>5. UNCHANGED <<released, exhausted, settlements, commits, reservations, held, bills,
                  provisional, excess>>
  BY <1>3 DEF holdVars, billVars
<1>6. Conservation'
  BY <1>2, <1>3, <1>5, MoneyAssumption DEF IInv, TypeOK, Conservation
<1>7. EscrowBacked'
  <2>1. Locked \in Int /\ Locked' = Locked
    BY <1>5, ScheduleAssumption DEF IInv, TypeOK, Locked
  <2> QED
    BY <1>2, <1>3, <1>5, <2>1 DEF IInv, TypeOK, EscrowBacked
<1>8. DeathLatched'
  BY <1>2, <1>3, <1>5, MoneyAssumption DEF IInv, TypeOK, DeathLatched, FloorReached
<1> QED
  BY <1>4, <1>5, <1>6, <1>7, <1>8 DEF IInv, BilledOnce

(* A hold is granted only out of unlocked money that no other hold keeps.    *)
LEMMA ReserveStep ==
    ASSUME IInv, NEW a \in Amounts, NEW kind \in Kinds, Reserve(a, kind)
    PROVE  IInv'
<1>1. a \in Nat
  BY MoneyAssumption
<1>2. /\ nextReservation < MaxHolds /\ nextReservation' = nextReservation + 1
      /\ amount' = [amount EXCEPT ![nextReservation] = a]
      /\ reservations' = reservations \cup {nextReservation} /\ held' = held + a
      /\ AllocateNovelty(nextReservation, a, kind)
      /\ UNCHANGED <<now, moneyVars, billVars, windowStart, granted, used, scheduleVars,
                     reason, excess>>
  BY DEF Reserve
<1>3. nextReservation \in Ids
  BY <1>2, MoneyAssumption DEF IInv, TypeOK
<1>4. UNCHANGED <<balance, exhausted, drips, settlements, commits, bills, provisional,
                  launchNs, released, dripCount>>
  BY <1>2 DEF moneyVars, billVars, scheduleVars
<1>5. Remaining \in Nat
  BY DEF IInv, TypeOK, Remaining
<1>6. /\ noveltyHolds' \subseteq Ids /\ remaining' \in Nat
      /\ alloc' \in [Ids -> [window : Nat \cup {None}, amount : Nat]]
  <2>1. CASE kind # "unhistoried"
    BY <1>2, <2>1 DEF AllocateNovelty, IInv, TypeOK
  <2>2. CASE kind = "unhistoried"
    <3> DEFINE protected == Smaller(a, Remaining)
    <3>1. protected \in Nat /\ protected <= Remaining
      BY <1>1, <1>5 DEF Smaller
    <3>2. /\ noveltyHolds' = noveltyHolds \cup {nextReservation}
          /\ alloc' = [alloc EXCEPT ![nextReservation] =
                                      [window |-> windowStart, amount |-> protected]]
          /\ remaining' = remaining - protected
      BY <1>2, <2>2 DEF AllocateNovelty, Protection
    <3>3. Remaining <= remaining
      BY DEF IInv, TypeOK, Remaining
    <3> HIDE DEF protected
    <3>4. remaining' \in Nat
      BY <1>5, <3>1, <3>2, <3>3 DEF IInv, TypeOK
    <3> QED
      BY <1>3, <3>1, <3>2, <3>4 DEF IInv, TypeOK
  <2> QED
    BY <2>1, <2>2
<1>7. TypeOK'
  BY <1>1, <1>2, <1>3, <1>4, <1>6, MoneyAssumption DEF IInv, TypeOK
<1>8. EscrowBacked'
  <2>1. Locked \in Int /\ Locked' = Locked
    BY <1>4, ScheduleAssumption DEF IInv, TypeOK, Locked
  <2>2. a = 0 \/ a <= balance - Locked - held
    BY <1>1, <1>5, <2>1 DEF Reserve, AvailableFor, Available, UnhistoriedAvailable, Unlocked,
                            IInv, TypeOK
  <2> QED
    BY <1>1, <1>2, <1>4, <2>1, <2>2 DEF IInv, TypeOK, EscrowBacked
<1>9. BilledOnce'
  <2>1. nextReservation \notin bills
    BY DEF IInv, TypeOK
  <2> QED
    BY <1>2, <1>4, <2>1 DEF IInv, BilledOnce
<1> QED
  BY <1>4, <1>7, <1>8, <1>9 DEF IInv, Conservation, DeathLatched, FloorReached

(* A cancelled hold moves no money and frees what it kept.                   *)
LEMMA ReleaseHoldStep ==
    ASSUME IInv, NEW id \in reservations, ReleaseHold(id)
    PROVE  IInv'
<1>1. id \in Ids /\ amount[id] \in Nat
  BY HoldTyped DEF IInv
<1>2. /\ reservations' = reservations \ {id} /\ held' = held - amount[id]
      /\ RefundNovelty(id, 0)
      /\ UNCHANGED <<now, moneyVars, nextReservation, amount, billVars, scheduleVars, reason,
                     excess>>
  BY DEF ReleaseHold
<1>3. /\ noveltyHolds' \subseteq Ids /\ remaining' \in Nat /\ used' \in Nat
      /\ alloc' = alloc /\ windowStart' = windowStart /\ granted' = granted
  BY <1>1, <1>2, RefundStep DEF IInv
<1>4. UNCHANGED <<balance, exhausted, drips, settlements, commits, bills, provisional,
                  launchNs, released, dripCount>>
  BY <1>2 DEF moneyVars, billVars, scheduleVars
<1>5. TypeOK'
  BY <1>1, <1>2, <1>3, <1>4 DEF IInv, TypeOK
<1>6. EscrowBacked'
  <2>1. Locked \in Int /\ Locked' = Locked
    BY <1>4, ScheduleAssumption DEF IInv, TypeOK, Locked
  <2> QED
    BY <1>1, <1>2, <1>4, <2>1 DEF IInv, TypeOK, EscrowBacked
<1> QED
  BY <1>2, <1>4, <1>5, <1>6 DEF IInv, Conservation, BilledOnce, DeathLatched, FloorReached

(* A debit settled at a known cost: the latch is read on the books it leaves. *)
LEMMA CommitStep ==
    ASSUME IInv, NEW id \in reservations, NEW actual \in Nat, Book(id, actual),
           DieIf(FloorReached(balance - actual, provisional)), UNCHANGED billVars
    PROVE  IInv'
<1>1. bills' = bills /\ provisional' = provisional
  BY DEF billVars
<1>2. /\ balance' = balance - actual /\ balance - actual \in Int
      /\ reservations' = reservations \ {id} /\ Conservation' /\ EscrowBacked'
  BY BookStep DEF IInv, TypeOK
<1>3. exhausted \in BOOLEAN /\ provisional \in Int
  BY DEF IInv, TypeOK
<1>4. exhausted' \in BOOLEAN /\ DeathLatched'
  BY <1>1, <1>2, <1>3, LatchStep
<1>5. TypeOK'
  BY <1>1, <1>3, <1>4, BookTypes
<1>6. BilledOnce'
  BY <1>1, <1>2 DEF IInv, BilledOnce
<1> QED
  BY <1>2, <1>4, <1>5, <1>6 DEF IInv

(* A bill booked at its ceiling moves from the holds to the uncertain bills. *)
LEMMA UncertainStep ==
    ASSUME IInv, NEW id \in reservations, CommitUncertain(id)
    PROVE  IInv'
<1>1. id \in Ids /\ amount[id] \in Nat
  BY HoldTyped DEF IInv
<1>2. /\ Book(id, amount[id])
      /\ DieIf(FloorReached(balance - amount[id], provisional + amount[id]))
      /\ bills' = bills \cup {id} /\ provisional' = provisional + amount[id]
  BY DEF CommitUncertain
<1>3. /\ balance' = balance - amount[id] /\ balance - amount[id] \in Int
      /\ reservations' = reservations \ {id} /\ Conservation' /\ EscrowBacked'
  BY <1>1, <1>2, BookStep DEF IInv, TypeOK
<1>4. exhausted \in BOOLEAN /\ provisional + amount[id] \in Int
  BY <1>1 DEF IInv, TypeOK
<1>5. exhausted' \in BOOLEAN /\ DeathLatched'
  BY <1>2, <1>3, <1>4, LatchStep
<1>6. TypeOK'
  BY <1>1, <1>2, <1>4, <1>5, BookTypes
<1>7. BilledOnce'
  BY <1>2, <1>3 DEF IInv, BilledOnce
<1> QED
  BY <1>3, <1>5, <1>6, <1>7 DEF IInv

(* A bill settled at its true cost gives back what the ceiling over-charged. *)
LEMMA SettleUncertainStep ==
    ASSUME IInv, NEW id \in bills, NEW actual \in 0 .. amount[id], SettleUncertain(id, actual)
    PROVE  IInv'
<1>1. id \in Ids /\ amount[id] \in Nat
  BY HoldTyped DEF IInv
<1> DEFINE back == amount[id] - actual
<1>2. back \in Nat
  BY <1>1
<1>3. /\ balance' = balance + back /\ commits' = commits - back
      /\ bills' = bills \ {id} /\ provisional' = provisional - amount[id]
      /\ DieIf(FloorReached(balance + back, provisional - amount[id]))
      /\ UNCHANGED <<now, drips, settlements, holdVars, noveltyVars, scheduleVars, reason,
                     excess>>
  BY DEF SettleUncertain
<1> HIDE DEF back
<1>4. /\ balance \in Int /\ commits \in Int /\ exhausted \in BOOLEAN /\ provisional \in Int
      /\ held \in Int /\ excess \in Nat /\ drips \in Nat /\ settlements \in Int
  BY DEF IInv, TypeOK
<1>5. exhausted' \in BOOLEAN /\ DeathLatched'
  <2>1. balance + back \in Int /\ provisional - amount[id] \in Int
    BY <1>1, <1>2, <1>4
  <2> QED
    BY <1>3, <1>4, <2>1, LatchStep
<1>6. UNCHANGED <<nextReservation, amount, reservations, held, launchNs, released, dripCount>>
  BY <1>3 DEF holdVars, scheduleVars
<1>7. TypeOK'
  <2>1. balance' \in Int /\ commits' \in Int /\ provisional' \in Int
    BY <1>1, <1>2, <1>3, <1>4
  <2> QED
    BY <1>3, <1>5, <1>6, <2>1 DEF IInv, TypeOK, noveltyVars
<1>8. Conservation'
  BY <1>2, <1>3, <1>4, MoneyAssumption DEF IInv, Conservation
<1>9. EscrowBacked'
  <2>1. Locked \in Int /\ Locked' = Locked
    BY <1>6, ScheduleAssumption DEF IInv, TypeOK, Locked
  <2>2. Locked + held <= balance + excess
    BY DEF IInv, EscrowBacked
  <2>3. Locked + held <= balance + back + excess
    BY <1>2, <1>4, <2>1, <2>2
  <2> QED
    BY <1>3, <1>6, <2>1, <2>3 DEF EscrowBacked
<1> QED
  BY <1>3, <1>5, <1>6, <1>7, <1>8, <1>9 DEF IInv, BilledOnce

(* Settlements: a loss is accounted in `excess`, the floor on every prefix.  *)
LEMMA SettleStep ==
    ASSUME IInv, NEW d1 \in Int, NEW d2 \in Int, SettleBatch(d1, d2)
    PROVE  IInv'
<1>1. d1 \in Int /\ d2 \in Int
  OBVIOUS
<1> DEFINE lost == Larger(0, -(d1 + d2))
<1>2. lost \in Nat /\ lost >= -(d1 + d2)
  BY <1>1 DEF Larger
<1>3. /\ balance' = balance + d1 + d2 /\ settlements' = settlements + d1 + d2
      /\ DieIf(FloorReached(balance + d1, provisional)
                 \/ FloorReached(balance + d1 + d2, provisional))
      /\ excess' = excess + lost
      /\ UNCHANGED <<now, drips, commits, holdVars, billVars, noveltyVars, scheduleVars, reason>>
  BY DEF SettleBatch
<1> HIDE DEF lost
<1>4. /\ balance \in Int /\ commits \in Int /\ exhausted \in BOOLEAN /\ provisional \in Int
      /\ held \in Int /\ excess \in Nat /\ drips \in Nat /\ settlements \in Int
  BY DEF IInv, TypeOK
<1>5. exhausted' \in BOOLEAN /\ (FloorReached(balance + d1 + d2, provisional) => exhausted')
  <2>1. exhausted' = (exhausted \/ (FloorReached(balance + d1, provisional)
                                      \/ FloorReached(balance + d1 + d2, provisional)))
    BY <1>3 DEF DieIf
  <2>2. /\ FloorReached(balance + d1, provisional) \in BOOLEAN
        /\ FloorReached(balance + d1 + d2, provisional) \in BOOLEAN
    BY DEF FloorReached
  <2> QED
    BY <1>4, <2>1, <2>2, Zenon
<1>6. UNCHANGED <<nextReservation, amount, reservations, held, bills, provisional, launchNs,
                  released, dripCount>>
  BY <1>3 DEF holdVars, billVars, scheduleVars
<1>7. DeathLatched'
  BY <1>3, <1>5, <1>6 DEF DeathLatched
<1>8. TypeOK'
  <2>1. balance' \in Int /\ settlements' \in Int /\ excess' \in Nat
    BY <1>1, <1>2, <1>3, <1>4
  <2> QED
    BY <1>3, <1>5, <1>6, <2>1 DEF IInv, TypeOK, noveltyVars
<1>9. Conservation'
  BY <1>1, <1>3, <1>4, MoneyAssumption DEF IInv, Conservation
<1>10. EscrowBacked'
  <2>1. Locked \in Int /\ Locked' = Locked
    BY <1>6, ScheduleAssumption DEF IInv, TypeOK, Locked
  <2>2. Locked + held <= balance + excess
    BY DEF IInv, EscrowBacked
  <2>3. Locked + held <= (balance + d1 + d2) + (excess + lost)
    BY <1>1, <1>2, <1>4, <2>1, <2>2
  <2> QED
    BY <1>3, <1>6, <2>1, <2>3 DEF EscrowBacked
<1> QED
  BY <1>6, <1>7, <1>8, <1>9, <1>10 DEF IInv, BilledOnce

(* A restart restores the books and recomputes the latch.                    *)
LEMMA RestoreStep ==
    ASSUME IInv, Restore
    PROVE  IInv'
<1>1. /\ DieIf(FloorReached(balance, provisional))
      /\ UNCHANGED <<now, balance, drips, settlements, commits, holdVars, billVars,
                     noveltyVars, scheduleVars, reason, excess>>
  BY DEF Restore
<1>2. exhausted \in BOOLEAN /\ balance \in Int /\ provisional \in Int
  BY DEF IInv, TypeOK
<1>3. exhausted' \in BOOLEAN /\ DeathLatched'
  BY <1>1, <1>2, LatchStep DEF billVars
<1>4. UNCHANGED <<reservations, held, bills, provisional, released>>
  BY <1>1 DEF holdVars, billVars, scheduleVars
<1>5. TypeOK'
  BY <1>1, <1>3 DEF IInv, TypeOK, holdVars, billVars, noveltyVars, scheduleVars
<1> QED
  BY <1>1, <1>3, <1>4, <1>5 DEF IInv, Conservation, EscrowBacked, BilledOnce, Locked

-------------------------------------------------------------------------------
(* Every step of the wallet keeps the invariant. *)
LEMMA NextIInv == IInv /\ [Next]_vars => IInv'
<1> SUFFICES ASSUME IInv, [Next]_vars PROVE IInv'
  OBVIOUS
<1>1. CASE Tick \/ Launch \/ EndIfDead \/ (\E r \in OtherReasons : Kill(r))
  BY <1>1, ClockStep
<1>2. CASE ReleaseDue
  BY <1>2, ReleaseStep
<1>3. CASE Drip
  BY <1>3, DripStep
<1>4. CASE \/ \E accrued \in 0 .. AccrualDen : OpenWindow(accrued)
           \/ \E a \in Amounts : RegisterWithTrial(a)
  BY <1>4, NoveltyStep
<1>5. ASSUME NEW a \in Amounts, NEW kind \in Kinds, Reserve(a, kind) PROVE IInv'
  BY <1>5, ReserveStep
<1>6. ASSUME NEW id \in reservations, NEW actual \in 0 .. amount[id], Commit(id, actual)
      PROVE  IInv'
  <2>1. actual \in Nat
    BY HoldTyped DEF IInv
  <2> QED
    BY <1>6, <2>1, CommitStep DEF Commit
<1>7. ASSUME NEW id \in reservations, NEW claim \in 0 .. MaxReport, CommitReported(id, claim)
      PROVE  IInv'
  <2>1. Booked(id, claim) \in Nat
    BY HoldTyped, MoneyAssumption DEF IInv, Booked
  <2> QED
    BY <1>7, <2>1, CommitStep DEF CommitReported
<1>8. ASSUME NEW id \in reservations, CommitUncertain(id) PROVE IInv'
  BY <1>8, UncertainStep
<1>9. ASSUME NEW id \in reservations, ReleaseHold(id) PROVE IInv'
  BY <1>9, ReleaseHoldStep
<1>10. ASSUME NEW id \in bills, NEW actual \in 0 .. amount[id], SettleUncertain(id, actual)
       PROVE  IInv'
  BY <1>10, SettleUncertainStep
<1>11. ASSUME NEW d1 \in Deltas, NEW d2 \in Deltas, SettleBatch(d1, d2) PROVE IInv'
  BY <1>11, SettleStep, MoneyAssumption
<1>12. CASE Restore
  BY <1>12, RestoreStep
<1>13. CASE UNCHANGED vars
  BY <1>13 DEF vars, IInv, TypeOK, Conservation, EscrowBacked, BilledOnce, DeathLatched,
               Locked, FloorReached
<1> QED
  BY <1>1, <1>2, <1>3, <1>4, <1>5, <1>6, <1>7, <1>8, <1>9, <1>10, <1>11, <1>12, <1>13
  DEF Next, HoldNext

(* The invariant holds in every reachable state.                             *)
LEMMA IInvHolds == Spec => []IInv
  BY InitIInv, NextIInv, PTL DEF Spec

(* The books keep their types whatever the endowment, the schedules and the  *)
(* callers are (wallet.py 79-127 and every method).                          *)
THEOREM TypeCorrect == Spec => []TypeOK
<1>1. IInv => TypeOK
  BY DEF IInv
<1> QED
  BY <1>1, IInvHolds, PTL

(* check_conservation (wallet.py 550) is true after every method.            *)
THEOREM MoneyConserved == Spec => []Conservation
<1>1. IInv => Conservation
  BY DEF IInv
<1> QED
  BY <1>1, IInvHolds, PTL

(* Locked backing and open holds are never spent by anyone else: only an     *)
(* over-reported cost or a settled loss can eat into them.                   *)
THEOREM EscrowIsBacked == Spec => []EscrowBacked
<1>1. IInv => EscrowBacked
  BY DEF IInv
<1> QED
  BY <1>1, IInvHolds, PTL

(* `dead` is the latch: the floor is never reached on settled money without  *)
(* the latch being set by the very step that reached it.                     *)
THEOREM DeathIsLatched == Spec => []DeathLatched
<1>1. IInv => DeathLatched
  BY DEF IInv
<1> QED
  BY <1>1, IInvHolds, PTL

(* A reservation is never both an open hold and a booked bill.               *)
THEOREM NeverBilledTwice == Spec => []BilledOnce
<1>1. IInv => BilledOnce
  BY DEF IInv
<1> QED
  BY <1>1, IInvHolds, PTL

-------------------------------------------------------------------------------
(* Nothing moves once the ledger is final, and no step clears the latch.     *)
LEMMA LatchKept ==
    ASSUME IInv, Next
    PROVE  ~Final /\ (exhausted => exhausted')
<1>1. ASSUME NEW condition \in BOOLEAN, DieIf(condition) PROVE exhausted => exhausted'
  BY <1>1, Zenon DEF DieIf
<1>2. CASE Tick \/ Launch \/ ReleaseDue \/ EndIfDead \/ (\E r \in OtherReasons : Kill(r))
  BY <1>2 DEF Tick, Launch, ReleaseDue, EndIfDead, Kill, moneyVars
<1>3. CASE Drip
  BY <1>3 DEF Drip, Live
<1>4. CASE \/ \E accrued \in 0 .. AccrualDen : OpenWindow(accrued)
           \/ \E a \in Amounts : RegisterWithTrial(a)
  BY <1>4 DEF OpenWindow, RegisterWithTrial, Active, moneyVars
<1>5. CASE \/ \E a \in Amounts, kind \in Kinds : Reserve(a, kind)
           \/ \E id \in reservations : ReleaseHold(id)
  BY <1>5 DEF Reserve, ReleaseHold, Live, moneyVars
<1>6. ASSUME NEW id \in reservations,
             \/ \E actual \in 0 .. amount[id] : Commit(id, actual)
             \/ \E claim \in 0 .. MaxReport : CommitReported(id, claim)
             \/ CommitUncertain(id)
      PROVE  ~Final /\ (exhausted => exhausted')
  BY <1>1, <1>6, Zenon DEF Commit, CommitReported, CommitUncertain, Live, DieIf
<1>7. ASSUME NEW id \in bills, NEW actual \in 0 .. amount[id], SettleUncertain(id, actual)
      PROVE  ~Final /\ (exhausted => exhausted')
  BY <1>7, Zenon DEF SettleUncertain, Live, DieIf
<1>8. ASSUME NEW d1 \in Deltas, NEW d2 \in Deltas, SettleBatch(d1, d2)
      PROVE  ~Final /\ (exhausted => exhausted')
  BY <1>8, Zenon DEF SettleBatch, Live, DieIf
<1>9. CASE Restore
  BY <1>9, Zenon DEF Restore, DieIf
<1> QED
  BY <1>2, <1>3, <1>4, <1>5, <1>6, <1>7, <1>8, <1>9 DEF Next, HoldNext

(* Only booking an uncertain bill adds one.                                  *)
LEMMA OnlyUncertainBills ==
    ASSUME Next, ~(bills' \subseteq bills)
    PROVE  \E id \in reservations : CommitUncertain(id)
<1>1. CASE Tick \/ Launch \/ ReleaseDue \/ Drip \/ EndIfDead \/ Restore
           \/ (\E r \in OtherReasons : Kill(r))
  BY <1>1 DEF Tick, Launch, ReleaseDue, Drip, EndIfDead, Restore, Kill, billVars
<1>2. CASE \/ \E accrued \in 0 .. AccrualDen : OpenWindow(accrued)
           \/ \E a \in Amounts : RegisterWithTrial(a)
           \/ \E d1, d2 \in Deltas : SettleBatch(d1, d2)
  BY <1>2 DEF OpenWindow, RegisterWithTrial, SettleBatch, billVars
<1>3. CASE HoldNext
  BY <1>3 DEF HoldNext, Reserve, Commit, CommitReported, ReleaseHold, SettleUncertain, billVars
<1> QED
  BY <1>1, <1>2, <1>3 DEF Next

(* Death is final: once dead, every later state is dead, and the reason the  *)
(* world ended for is never replaced (termination.py 99-127).                *)
THEOREM DeathNeverUndone == Spec => DeathIsFinal
<1>1. ASSUME IInv, [Next]_vars
      PROVE  [(Dead => Dead') /\ (Final => reason' = reason)]_vars
  <2>1. CASE UNCHANGED vars
    BY <2>1
  <2>2. CASE Next
    <3>1. Dead => exhausted
      BY <1>1 DEF IInv, DeathLatched, Dead
    <3>2. ~Final /\ (exhausted => exhausted')
      BY <1>1, <2>2, LatchKept
    <3>3. exhausted' => Dead'
      BY DEF Dead
    <3> QED
      BY <3>1, <3>2, <3>3
  <2> QED
    BY <1>1, <2>1, <2>2
<1> QED
  BY <1>1, IInvHolds, PTL DEF Spec, DeathIsFinal

(* An uncertain bill never kills: the step that books one, whatever its      *)
(* ceiling, leaves a living wallet living.                                   *)
THEOREM CeilingNeverKills == Spec => NoDeathByCeiling
<1>1. ASSUME IInv, [Next]_vars
      PROVE  [~(bills' \subseteq bills) /\ ~Dead => ~Dead']_vars
  <2> SUFFICES ASSUME Next, ~(bills' \subseteq bills), ~Dead PROVE ~Dead'
    BY <1>1
  <2>1. PICK id \in reservations : CommitUncertain(id)
    BY OnlyUncertainBills
  <2>2. amount[id] \in Nat /\ balance \in Int /\ provisional \in Int
    BY HoldTyped, <1>1 DEF IInv, TypeOK
  <2>3. /\ balance' = balance - amount[id] /\ provisional' = provisional + amount[id]
        /\ DieIf(FloorReached(balance - amount[id], provisional + amount[id]))
    BY <2>1 DEF CommitUncertain, Book
  <2>4. ~exhausted /\ ~(balance + provisional <= Floor)
    BY DEF Dead, FloorReached
  <2>5. ~FloorReached(balance - amount[id], provisional + amount[id])
    BY <2>2, <2>4, MoneyAssumption DEF FloorReached
  <2>6. ~exhausted'
    BY <2>3, <2>4, <2>5, Zenon DEF DieIf
  <2> QED
    BY <2>3, <2>5, <2>6 DEF Dead
<1> QED
  BY <1>1, IInvHolds, PTL DEF Spec, NoDeathByCeiling

(* Death is decided once: the two facts above are what a run checks together. *)
COROLLARY DeathDecided == Spec => DeathDecidedOnce
  BY DeathNeverUndone, CeilingNeverKills DEF DeathDecidedOnce
-------------------------------------------------------------------------------
(* The totals are the sums.  Beside them: an allocation belongs to an open   *)
(* hold, and never to a window that has not opened yet, so that a new window *)
(* starts with nothing allocated.                                            *)
Totals == held = SumOver(amount, reservations) /\ provisional = SumOver(amount, bills)
Allocated ==
    /\ noveltyHolds \subseteq reservations
    /\ \A id \in noveltyHolds : alloc[id].window <= windowStart
Window == Active => granted = remaining + used + SumOver(Protected, CurrentHolds)
Books == Totals /\ Allocated /\ Window

LEMMA Issued ==
    ASSUME TypeOK
    PROVE  /\ IsFiniteSet(Ids) /\ reservations \subseteq Ids /\ bills \subseteq Ids
           /\ IsFiniteSet(reservations) /\ IsFiniteSet(bills)
           /\ \A id \in Ids : amount[id] \in Nat /\ Protected[id] \in Nat
           /\ CurrentHolds \subseteq Ids /\ IsFiniteSet(CurrentHolds)
<1>1. IsFiniteSet(Ids)
  BY FS_Interval, MoneyAssumption
<1>2. reservations \subseteq Ids /\ bills \subseteq Ids
  BY MoneyAssumption DEF TypeOK
<1>3. CurrentHolds \subseteq Ids
  BY DEF TypeOK, CurrentHolds
<1>4. \A id \in Ids : amount[id] \in Nat /\ Protected[id] \in Nat
  BY DEF TypeOK, Protected
<1> HIDE DEF Ids
<1> QED
  BY <1>1, <1>2, <1>3, <1>4, FS_Subset

(* A step that leaves holds, bills and the novelty window alone.             *)
LEMMA BooksRest ==
    ASSUME Books, UNCHANGED <<holdVars, billVars, noveltyVars>>, Active' => Active
    PROVE  Books'
<1>1. /\ UNCHANGED <<amount, reservations, held, bills, provisional>>
      /\ UNCHANGED <<noveltyHolds, alloc, windowStart, remaining, granted, used>>
  BY DEF holdVars, billVars, noveltyVars
<1>2. Protected' = Protected /\ CurrentHolds' = CurrentHolds
  BY <1>1 DEF Protected, CurrentHolds
<1> QED
  BY <1>1, <1>2 DEF Books, Totals, Allocated, Window

(* A hold that is closed, with a refund of what it did not spend.            *)
LEMMA BooksClose ==
    ASSUME TypeOK, Books, NEW id \in reservations, NEW spent \in Nat,
           reservations' = reservations \ {id}, held' = held - amount[id],
           UNCHANGED <<amount, reason>>, RefundNovelty(id, spent)
    PROVE  held' = SumOver(amount', reservations') /\ Allocated' /\ Window'
<1>1. held' = SumOver(amount', reservations')
  <2>1. SumOver(amount, reservations \ {id}) = SumOver(amount, reservations) - amount[id]
    BY Issued, SumRemove
  <2> QED
    BY <2>1 DEF Books, Totals
<1>2. /\ noveltyHolds' = noveltyHolds \ {id} /\ UNCHANGED <<alloc, windowStart, granted>>
      /\ remaining' = IF SameWindow(id) THEN remaining + Larger(0, alloc[id].amount - spent)
                      ELSE remaining
      /\ used' = IF SameWindow(id) THEN used + Smaller(alloc[id].amount, spent) ELSE used
  BY DEF RefundNovelty
<1>3. Allocated'
  BY <1>2 DEF Books, Allocated
<1>4. Window'
  <2> SUFFICES ASSUME Active' PROVE granted' = remaining' + used' + SumOver(Protected', CurrentHolds')
    BY DEF Window
  <2>1. Active /\ Protected' = Protected /\ CurrentHolds' = CurrentHolds \ {id}
    BY <1>2 DEF Active, Final, Protected, CurrentHolds
  <2>2. granted = remaining + used + SumOver(Protected, CurrentHolds)
    BY <2>1 DEF Books, Window
  <2>3. SumOver(Protected, CurrentHolds) \in Int /\ remaining \in Nat /\ used \in Nat
        /\ id \in Ids
    BY Issued, SumIsInt, SMTT(20) DEF TypeOK
  <2>4. CASE id \in CurrentHolds
    <3>1. SumOver(Protected, CurrentHolds \ {id}) = SumOver(Protected, CurrentHolds) - Protected[id]
      <4>1. IsFiniteSet(CurrentHolds) /\ \A x \in CurrentHolds : Protected[x] \in Int
        BY Issued
      <4> QED
        BY <2>4, <4>1, SumRemove
    <3>2. Protected[id] = alloc[id].amount /\ alloc[id].amount \in Nat
      BY <2>3 DEF Protected, TypeOK
    <3>3. SameWindow(id)
      BY <2>1, <2>4 DEF SameWindow, CurrentHolds
    <3>4. Larger(0, alloc[id].amount - spent) + Smaller(alloc[id].amount, spent) = alloc[id].amount
          /\ Larger(0, alloc[id].amount - spent) \in Int /\ Smaller(alloc[id].amount, spent) \in Int
      BY <3>2 DEF Larger, Smaller
    <3>5. remaining' + used' = remaining + used + alloc[id].amount
          /\ remaining' \in Int /\ used' \in Int
      BY <1>2, <2>3, <3>3, <3>4
    <3> QED
      BY <1>2, <2>1, <2>2, <2>3, <3>1, <3>2, <3>5
  <2>5. CASE id \notin CurrentHolds
    <3>1. CurrentHolds' = CurrentHolds /\ ~SameWindow(id)
      BY <2>1, <2>5 DEF SameWindow, CurrentHolds
    <3> QED
      BY <1>2, <2>1, <2>2, <3>1
  <2> QED
    BY <2>4, <2>5
<1> QED
  BY <1>1, <1>3, <1>4

LEMMA BooksReserve ==
    ASSUME IInv, Books, NEW a \in Amounts, NEW kind \in Kinds, Reserve(a, kind)
    PROVE  Books'
<1>1. a \in Nat
  BY MoneyAssumption
<1> DEFINE new == nextReservation
<1>2. /\ new < MaxHolds
      /\ amount' = [amount EXCEPT ![new] = a]
      /\ reservations' = reservations \cup {new} /\ held' = held + a
      /\ AllocateNovelty(new, a, kind)
      /\ UNCHANGED <<bills, provisional, windowStart, granted, used, reason>>
  BY DEF Reserve, billVars
<1>3. /\ new \in Ids /\ new \notin reservations /\ new \notin bills
      /\ \A id \in Ids : id # new => amount'[id] = amount[id]
      /\ amount'[new] = a
  BY <1>2, MoneyAssumption DEF IInv, TypeOK
<1> HIDE DEF new
<1>4. Totals'
  <2>1. \A id \in Ids : amount'[id] \in Nat
    BY <1>1, <1>3, Issued DEF IInv
  <2>2. SumOver(amount', reservations) = SumOver(amount, reservations)
        /\ SumOver(amount', bills) = SumOver(amount, bills)
    BY <1>3, Issued, SumSame DEF IInv
  <2>3. SumOver(amount', reservations \cup {new}) = SumOver(amount', reservations) + amount'[new]
    <3>1. IsFiniteSet(Ids) /\ reservations \in SUBSET Ids /\ \A x \in Ids : amount'[x] \in Int
      BY <2>1, Issued DEF IInv
    <3> QED
      BY <1>3, <3>1, SumAdd
  <2> QED
    BY <1>2, <1>3, <2>2, <2>3 DEF Books, Totals
<1>5. CASE kind # "unhistoried"
  <2>1. UNCHANGED <<noveltyHolds, alloc, remaining>>
    BY <1>2, <1>5 DEF AllocateNovelty
  <2>2. Protected' = Protected /\ CurrentHolds' = CurrentHolds
    BY <1>2, <2>1 DEF Protected, CurrentHolds
  <2> QED
    BY <1>2, <1>4, <2>1, <2>2 DEF Books, Allocated, Window, Active, Final
<1>6. CASE kind = "unhistoried"
  <2>1. PICK protected : protected = Smaller(a, Remaining)
    OBVIOUS
  <2>2. /\ noveltyHolds' = noveltyHolds \cup {new}
        /\ alloc' = [alloc EXCEPT ![new] = [window |-> windowStart, amount |-> protected]]
        /\ remaining' = remaining - protected
    BY <1>2, <1>6, <2>1 DEF AllocateNovelty, Protection
  <2>3. remaining \in Nat /\ Remaining \in Nat /\ windowStart \in Int
    BY DEF IInv, TypeOK, Remaining
  <2>4. protected \in Nat
    BY <1>1, <2>1, <2>3 DEF Smaller
  <2>5. /\ alloc'[new] = [window |-> windowStart, amount |-> protected]
        /\ \A id \in Ids : id # new => alloc'[id] = alloc[id]
    BY <1>3, <2>2 DEF IInv, TypeOK
  <2>6. Allocated'
    <3>1. noveltyHolds \subseteq reservations /\ new \notin noveltyHolds
          /\ noveltyHolds \subseteq Ids
      BY <1>3, Issued DEF Books, Allocated, IInv
    <3>2. \A id \in noveltyHolds : alloc'[id].window <= windowStart
      BY <2>5, <3>1 DEF Books, Allocated
    <3>3. alloc'[new].window <= windowStart
      BY <2>3, <2>5
    <3>4. noveltyHolds' \subseteq reservations'
      BY <1>2, <2>2, <3>1
    <3>5. \A id \in noveltyHolds' : alloc'[id].window <= windowStart'
      BY <1>2, <2>2, <3>2, <3>3
    <3> QED
      BY <3>4, <3>5 DEF Allocated
  <2>7. Window'
    <3> SUFFICES ASSUME Active'
                 PROVE  granted' = remaining' + used' + SumOver(Protected', CurrentHolds')
      BY DEF Window
    <3>1. Active /\ new \notin CurrentHolds
      BY <1>2, <1>3 DEF Active, Final, CurrentHolds, Books, Allocated
    <3>2. CurrentHolds' = CurrentHolds \cup {new}
      BY <1>2, <1>3, <2>2, <2>5, Issued DEF CurrentHolds, IInv, TypeOK
    <3>3. /\ \A id \in Ids : Protected'[id] \in Nat
          /\ \A id \in CurrentHolds : Protected'[id] = Protected[id]
          /\ Protected'[new] = protected
      BY <1>3, <2>4, <2>5, <3>1, Issued DEF Protected, IInv
    <3>4. SumOver(Protected', CurrentHolds) = SumOver(Protected, CurrentHolds)
      BY <3>3, Issued, SumSame DEF IInv
    <3>5. SumOver(Protected', CurrentHolds \cup {new})
            = SumOver(Protected', CurrentHolds) + Protected'[new]
      <4>1. IsFiniteSet(Ids) /\ CurrentHolds \in SUBSET Ids /\ \A x \in Ids : Protected'[x] \in Int
        BY <3>3, Issued DEF IInv
      <4> QED
        BY <1>3, <3>1, <4>1, SumAdd
    <3>6. granted = remaining + used + SumOver(Protected, CurrentHolds)
      BY <3>1 DEF Books, Window
    <3>7. SumOver(Protected, CurrentHolds) \in Int /\ used \in Nat
      BY Issued, SumIsInt DEF IInv, TypeOK
    <3> QED
      BY <1>2, <2>2, <2>3, <2>4, <3>2, <3>3, <3>4, <3>5, <3>6, <3>7
  <2> QED
    BY <1>4, <2>6, <2>7 DEF Books
<1> QED
  BY <1>5, <1>6

(* A new window starts with nothing allocated: every open hold drew on an     *)
(* earlier one.                                                               *)
LEMMA BooksNovelty ==
    ASSUME IInv, Books,
           \/ \E accrued \in 0 .. AccrualDen : OpenWindow(accrued)
           \/ \E a \in Amounts : RegisterWithTrial(a)
    PROVE  Books'
<1>0. UNCHANGED <<amount, reservations, held, bills, provisional, noveltyHolds, alloc, reason>>
  BY DEF OpenWindow, RegisterWithTrial, holdVars, billVars
<1>1. Totals'
  BY <1>0 DEF Books, Totals
<1>2. windowStart \in Int /\ now \in Nat /\ \A id \in noveltyHolds : alloc[id].window \in Int
  BY DEF IInv, TypeOK
<1>3. ASSUME NEW accrued \in 0 .. AccrualDen, OpenWindow(accrued) PROVE Books'
  <2>1. windowStart' = now /\ now > windowStart /\ granted' = remaining' /\ used' = 0
        /\ remaining' \in Nat
    BY <1>3, NextIInv DEF OpenWindow, Next, IInv, TypeOK
  <2>2. \A id \in noveltyHolds : alloc[id].window < now /\ alloc[id].window <= now
    BY <1>2, <2>1 DEF Books, Allocated
  <2>3. CurrentHolds' = {}
    BY <1>0, <1>2, <2>1, <2>2 DEF CurrentHolds
  <2>4. Allocated'
    BY <1>0, <2>1, <2>2 DEF Books, Allocated
  <2>5. Window'
    <3>1. SumOver(Protected', {}) = 0
      BY SumEmpty
    <3> QED
      BY <2>1, <2>3, <3>1 DEF Window
  <2> QED
    BY <1>1, <2>4, <2>5 DEF Books
<1>4. ASSUME NEW a \in Amounts, RegisterWithTrial(a) PROVE Books'
  <2>1. /\ remaining' = remaining - a /\ used' = used + a /\ UNCHANGED <<windowStart, granted>>
        /\ a \in Nat /\ Active
    BY <1>4, MoneyAssumption DEF RegisterWithTrial
  <2>2. Protected' = Protected /\ CurrentHolds' = CurrentHolds
    BY <1>0, <2>1 DEF Protected, CurrentHolds
  <2>3. remaining \in Nat /\ used \in Nat /\ SumOver(Protected, CurrentHolds) \in Int
    BY Issued, SumIsInt DEF IInv, TypeOK
  <2>4. Window'
    BY <2>1, <2>2, <2>3 DEF Books, Window
  <2> QED
    BY <1>0, <1>1, <2>1, <2>4 DEF Books, Allocated
<1> QED
  BY <1>3, <1>4

LEMMA BooksSettle ==
    ASSUME IInv, Books, NEW id \in bills, NEW actual \in 0 .. amount[id],
           SettleUncertain(id, actual)
    PROVE  Books'
<1>1. /\ bills' = bills \ {id} /\ provisional' = provisional - amount[id]
      /\ UNCHANGED <<holdVars, noveltyVars, reason>>
  BY DEF SettleUncertain
<1>2. UNCHANGED <<amount, reservations, held, noveltyHolds, alloc, windowStart, remaining,
                  granted, used, reason>>
  BY <1>1 DEF holdVars, noveltyVars
<1>3. SumOver(amount, bills \ {id}) = SumOver(amount, bills) - amount[id]
  <2>1. IsFiniteSet(bills) /\ \A x \in bills : amount[x] \in Int
    BY Issued DEF IInv
  <2> QED
    BY <2>1, SumRemove
<1>4. Protected' = Protected /\ CurrentHolds' = CurrentHolds
  BY <1>2 DEF Protected, CurrentHolds
<1> QED
  BY <1>1, <1>2, <1>3, <1>4 DEF Books, Totals, Allocated, Window, Active, Final

LEMMA BooksCommit ==
    ASSUME IInv, Books, NEW id \in reservations,
           \/ \E actual \in 0 .. amount[id] : Commit(id, actual)
           \/ \E claim \in 0 .. MaxReport : CommitReported(id, claim)
           \/ CommitUncertain(id)
           \/ ReleaseHold(id)
    PROVE  Books'
<1>1. id \in Ids /\ amount[id] \in Nat
  BY HoldTyped DEF IInv
<1>2. \E spent \in Nat : RefundNovelty(id, spent)
  <2>1. \A claim \in 0 .. MaxReport : Booked(id, claim) \in Nat
    BY <1>1, MoneyAssumption DEF Booked
  <2>2. \A actual \in 0 .. amount[id] : actual \in Nat
    BY <1>1
  <2> QED
    BY <1>1, <2>1, <2>2 DEF Commit, CommitReported, CommitUncertain, ReleaseHold, Book
<1>3. /\ reservations' = reservations \ {id} /\ held' = held - amount[id]
      /\ UNCHANGED <<amount, reason>>
  BY DEF Commit, CommitReported, CommitUncertain, ReleaseHold, Book
<1>4. held' = SumOver(amount', reservations') /\ Allocated' /\ Window'
  BY <1>2, <1>3, BooksClose DEF IInv
<1>5. provisional' = SumOver(amount', bills')
  <2>1. CASE bills' = bills /\ provisional' = provisional
    BY <1>3, <2>1 DEF Books, Totals
  <2>2. CASE bills' = bills \cup {id} /\ provisional' = provisional + amount[id]
    <3>1. id \notin bills
      BY DEF IInv, BilledOnce
    <3>2. IsFiniteSet(Ids) /\ bills \in SUBSET Ids /\ \A x \in Ids : amount[x] \in Int
      BY Issued DEF IInv
    <3>3. SumOver(amount, bills \cup {id}) = SumOver(amount, bills) + amount[id]
      BY <1>1, <3>1, <3>2, SumAdd
    <3> QED
      BY <1>3, <2>2, <3>3 DEF Books, Totals
  <2> QED
    BY <2>1, <2>2 DEF Commit, CommitReported, CommitUncertain, ReleaseHold, billVars
<1> QED
  BY <1>4, <1>5 DEF Books, Totals

(* What is held, what is provisional and what the novelty window protects are *)
(* at every moment the sums of the open holds and bills (wallet.py 140-158,   *)
(* reserve.py 161-190), for any number of holds, windows and refunds.         *)
THEOREM TotalsReconcile == Spec => []BooksReconcile
<1>1. Init => Books
  <2> SUFFICES ASSUME Init PROVE Books
    OBVIOUS
  <2>1. SumOver(amount, {}) = 0
    BY SumEmpty
  <2> QED
    BY <2>1 DEF Init, Books, Totals, Allocated, Window, Active
<1>2. IInv /\ Books /\ [Next]_vars => Books'
  <2> SUFFICES ASSUME IInv, Books, [Next]_vars PROVE Books'
    OBVIOUS
  <2>1. CASE UNCHANGED vars
    BY <2>1, BooksRest DEF vars, holdVars, billVars, noveltyVars, Active, Final
  <2>2. CASE \/ Tick \/ Launch \/ ReleaseDue \/ Drip \/ Restore \/ EndIfDead
             \/ \E d1, d2 \in Deltas : SettleBatch(d1, d2)
             \/ \E r \in OtherReasons : Kill(r)
    <3>1. UNCHANGED <<holdVars, billVars, noveltyVars>> /\ ~Final
      BY <2>2 DEF Tick, Launch, ReleaseDue, Drip, Restore, EndIfDead, SettleBatch, Kill, Live
    <3>2. Active' => Active
      BY <3>1 DEF Active, noveltyVars
    <3> QED
      BY <3>1, <3>2, BooksRest
  <2>3. CASE \E a \in Amounts, kind \in Kinds : Reserve(a, kind)
    BY <2>3, BooksReserve
  <2>4. CASE \/ \E accrued \in 0 .. AccrualDen : OpenWindow(accrued)
             \/ \E a \in Amounts : RegisterWithTrial(a)
    BY <2>4, BooksNovelty
  <2>5. CASE \E id \in bills : \E actual \in 0 .. amount[id] : SettleUncertain(id, actual)
    BY <2>5, BooksSettle
  <2>6. CASE \E id \in reservations :
                \/ \E actual \in 0 .. amount[id] : Commit(id, actual)
                \/ \E claim \in 0 .. MaxReport : CommitReported(id, claim)
                \/ CommitUncertain(id)
                \/ ReleaseHold(id)
    BY <2>6, BooksCommit
  <2> QED
    BY <2>1, <2>2, <2>3, <2>4, <2>5, <2>6 DEF Next, HoldNext
<1>3. IInv /\ Books => BooksReconcile
  BY DEF IInv, Books, Totals, Window, BooksReconcile, SumOver, MapThenSumSet, MapThenFoldSet
<1> QED
  BY <1>1, <1>2, <1>3, IInvHolds, PTL DEF Spec

-----------------------------------------------------------------------------
(* The budget book.                                                           *)

HIDE DEF Ids, None

(* The sums the book recomputes. *)
Drawn(s) == SumOver(drawn, HoldsOf(s))
Unpaid == [id \in Ids |-> amount[id] - own[id]]

Sound(s) == gross[s] >= 0 /\ Entitlement(s) >= -Drawn(s)
Emptied(s) == gross[s] = 0 /\ HeldBy(s) = 0

Calling ==
    /\ \A id \in holds \cup uncertain : payer[id] \in known
    /\ \A id \in holds : drawn[id] <= amount[id]
    /\ \A id \in uncertain : own[id] <= amount[id]
    /\ commons >= SumOver(Unpaid, uncertain)

BudgetInv ==
    /\ IInv /\ BudgetTypeOK /\ order \in Seq(Seats)
    /\ Calling
    /\ \A s \in Seats : Sound(s)
    /\ NothingMinted
    /\ \A s \in retired : Emptied(s)

-------------------------------------------------------------------------------
(* The sums, as sums. *)

LEMMA BookSums ==
    /\ GrossTotal = SumOver(gross, Seats) /\ GrossTotal' = SumOver(gross', Seats)
    /\ \A s : HeldBy(s) = SumOver(amount, HoldsOf(s)) /\ HeldBy(s)' = SumOver(amount', HoldsOf(s)')
    /\ \A s : Drawn(s) = SumOver(drawn, HoldsOf(s)) /\ Drawn(s)' = SumOver(drawn', HoldsOf(s)')
  BY DEF GrossTotal, HeldBy, Drawn, SumOver, MapThenSumSet, MapThenFoldSet

(* What every sum of a well-typed book is made of. *)
LEMMA BookTyped ==
    ASSUME IInv, BudgetTypeOK
    PROVE  /\ IsFiniteSet(Ids) /\ holds \subseteq Ids /\ uncertain \subseteq Ids
           /\ IsFiniteSet(uncertain) /\ holds \cap uncertain = {}
           /\ \A id \in Ids : amount[id] \in Nat /\ drawn[id] \in Nat /\ own[id] \in Nat
           /\ \A id \in Ids : Unpaid[id] = amount[id] - own[id] /\ Unpaid[id] \in Int
           /\ \A s : IsFiniteSet(HoldsOf(s)) /\ HoldsOf(s) \subseteq holds
           /\ \A s : HeldBy(s) \in Nat /\ Drawn(s) \in Nat
           /\ \A s : \A id \in HoldsOf(s) : amount[id] <= HeldBy(s) /\ drawn[id] <= Drawn(s)
           /\ \A s \in Seats : gross[s] \in Int /\ Entitlement(s) \in Int
           /\ GrossTotal \in Int /\ Locked \in Nat /\ Unlocked \in Int /\ Unallocated \in Int
<1>1. /\ IsFiniteSet(Ids) /\ holds \subseteq Ids /\ uncertain \subseteq Ids
      /\ holds \cap uncertain = {}
  BY Issued DEF IInv, BudgetTypeOK, BilledOnce
<1>2. /\ \A id \in Ids : amount[id] \in Nat /\ drawn[id] \in Nat /\ own[id] \in Nat
      /\ \A s \in Seats : gross[s] \in Int
  BY DEF BudgetTypeOK, TypeOK
<1>3. \A id \in Ids : Unpaid[id] = amount[id] - own[id] /\ Unpaid[id] \in Int
  BY <1>2 DEF Unpaid
<1>4. \A s : HoldsOf(s) \subseteq holds /\ HoldsOf(s) \subseteq Ids
  BY <1>1 DEF HoldsOf
<1>5. IsFiniteSet(uncertain) /\ \A s : IsFiniteSet(HoldsOf(s))
  BY <1>1, <1>4, FS_Subset
<1>6. ASSUME NEW s
      PROVE  /\ HeldBy(s) \in Nat /\ Drawn(s) \in Nat
             /\ \A id \in HoldsOf(s) : amount[id] <= HeldBy(s) /\ drawn[id] <= Drawn(s)
  <2>1. \A id \in HoldsOf(s) : amount[id] \in Nat /\ drawn[id] \in Nat
    BY <1>2, <1>4
  <2> QED
    BY <1>5, <2>1, SumPositive, BookSums
<1>7. GrossTotal \in Int
  BY <1>2, SumIsInt, BookSums, BudgetAssumption
<1>8. Locked \in Nat /\ balance \in Int
  BY ScheduleAssumption DEF BudgetTypeOK, TypeOK, Locked
<1>9. Unlocked \in Int /\ Unallocated \in Int
  BY <1>7, <1>8 DEF Unlocked, Unallocated
<1>10. \A s \in Seats : Entitlement(s) \in Int
  BY <1>2, <1>6 DEF Entitlement
<1> QED
  BY <1>1, <1>2, <1>3, <1>4, <1>5, <1>6, <1>7, <1>8, <1>9, <1>10

LEMMA SeatsKnown ==
    ASSUME BudgetInv
    PROVE  Placed \subseteq Seats /\ known \subseteq Seats /\ retired \subseteq known
<1>1. \A i \in 1 .. Len(order) : order[i] \in Seats
  BY DEF BudgetInv
<1> QED
  BY <1>1 DEF BudgetInv, BudgetTypeOK, Placed

(* What the commons still bears of open bills is never negative. *)
LEMMA CommonsBears ==
    ASSUME BudgetInv
    PROVE  commons >= 0 /\ commons \in Int
<1>1. \A id \in uncertain : Unpaid[id] \in Nat
  BY BookTyped DEF BudgetInv, Calling
<1>2. SumOver(Unpaid, uncertain) \in Nat
  BY <1>1, SumPositive, BookTyped DEF BudgetInv
<1> QED
  BY <1>2 DEF BudgetInv, Calling, BudgetTypeOK

-------------------------------------------------------------------------------
(* Steps that move entitlement and leave the calls alone.                    *)

(* Nothing a seat's call is made of has changed.                             *)
CallsRest ==
    /\ UNCHANGED <<holds, payer, drawn, uncertain, own>>
    /\ \A id \in holds \cup uncertain : amount'[id] = amount[id]

SeatTypes ==
    /\ known \subseteq known' /\ known' \subseteq Placed' /\ retired' \subseteq known'
    /\ gross' \in [Seats -> Int] /\ \A s \in Seats \ known' : gross'[s] = 0
    /\ order' \in Seq(Seats) /\ lineage' \in [Seats -> Seats]
    /\ holds \subseteq reservations' /\ uncertain \subseteq bills'
    /\ commons' \in Int

LEMMA CallsKept ==
    ASSUME BudgetInv, CallsRest, IInv'
    PROVE  /\ \A s : HoldsOf(s)' = HoldsOf(s) /\ HeldBy(s)' = HeldBy(s) /\ Drawn(s)' = Drawn(s)
           /\ SumOver(Unpaid', uncertain') = SumOver(Unpaid, uncertain)
<1>1. \A s : HoldsOf(s)' = HoldsOf(s)
  BY DEF CallsRest, HoldsOf
<1>2. ASSUME NEW s PROVE HeldBy(s)' = HeldBy(s) /\ Drawn(s)' = Drawn(s)
  <2>1. IsFiniteSet(HoldsOf(s)) /\ \A id \in HoldsOf(s) : amount[id] \in Int /\ amount'[id] = amount[id]
    BY BookTyped DEF BudgetInv, CallsRest
  <2>2. SumOver(amount', HoldsOf(s)) = SumOver(amount, HoldsOf(s))
    BY <2>1, SumSame
  <2> QED
    BY <1>1, <2>2, BookSums DEF CallsRest
<1>3. SumOver(Unpaid', uncertain') = SumOver(Unpaid, uncertain)
  <2>1. IsFiniteSet(uncertain) /\ \A id \in uncertain : Unpaid[id] \in Int /\ Unpaid'[id] = Unpaid[id]
    BY BookTyped DEF BudgetInv, CallsRest, Unpaid
  <2> QED
    BY <2>1, SumSame DEF CallsRest
<1> QED
  BY <1>1, <1>2, <1>3

LEMMA BookMove ==
    ASSUME BudgetInv, CallsRest, IInv', SeatTypes,
           commons' >= commons, Unallocated' + commons' >= 0,
           \A s \in Seats : gross'[s] >= gross[s] \/ gross'[s] >= HeldBy(s),
           \A s \in retired' : gross'[s] = 0 /\ HeldBy(s) = 0
    PROVE  BudgetInv'
<1>1. BudgetTypeOK'
  BY DEF BudgetInv, BudgetTypeOK, SeatTypes, CallsRest, IInv
<1>2. Calling'
  <2>1. commons' >= SumOver(Unpaid', uncertain')
    <3>1. SumOver(Unpaid, uncertain) \in Int
      BY SumIsInt, BookTyped DEF BudgetInv
    <3> QED
      BY <3>1, CallsKept DEF BudgetInv, Calling, BudgetTypeOK, SeatTypes
  <2> QED
    BY <2>1 DEF BudgetInv, Calling, CallsRest, SeatTypes
<1>3. ASSUME NEW s \in Seats PROVE Sound(s)'
  <2>1. /\ gross[s] \in Int /\ gross'[s] \in Int /\ HeldBy(s) \in Nat /\ Drawn(s) \in Nat
        /\ gross[s] >= 0 /\ gross[s] - HeldBy(s) >= -Drawn(s)
    BY BookTyped DEF BudgetInv, Sound, Entitlement, SeatTypes
  <2>2. gross'[s] >= 0 /\ gross'[s] - HeldBy(s) >= -Drawn(s)
    BY <2>1
  <2> QED
    BY <2>2, CallsKept DEF Sound, Entitlement
<1>4. \A s \in retired' : Emptied(s)'
  BY CallsKept DEF Emptied
<1> QED
  BY <1>1, <1>2, <1>3, <1>4 DEF BudgetInv, NothingMinted, SeatTypes

(* One entitlement changes.                                                  *)
LEMMA GrossChange ==
    ASSUME BudgetInv, NEW s \in Seats, NEW d \in Int, gross' = [gross EXCEPT ![s] = gross[s] + d]
    PROVE  /\ gross' \in [Seats -> Int] /\ gross'[s] = gross[s] + d
           /\ \A t \in Seats : t # s => gross'[t] = gross[t]
           /\ GrossTotal' = GrossTotal + d
<1>1. gross \in [Seats -> Int] /\ gross[s] \in Int
  BY DEF BudgetInv, BudgetTypeOK
<1>2. /\ gross' \in [Seats -> Int] /\ gross'[s] = gross[s] + d
      /\ \A t \in Seats : t # s => gross'[t] = gross[t]
  BY <1>1
<1>3. \A t \in Seats : gross[t] \in Int /\ gross'[t] \in Int
  BY <1>1, <1>2
<1>4. SumOver(gross', Seats) = SumOver(gross, Seats) - gross[s] + gross'[s]
  <2>1. PICK paid : paid = gross'
    OBVIOUS
  <2>2. /\ IsFiniteSet(Seats) /\ \A t \in Seats : gross[t] \in Int /\ paid[t] \in Int
        /\ \A t \in Seats : t # s => paid[t] = gross[t]
    BY <1>2, <1>3, <2>1, BudgetAssumption
  <2>3. SumOver(paid, Seats) = SumOver(gross, Seats) - gross[s] + paid[s]
    BY <2>2, SumChange
  <2> QED
    BY <2>1, <2>3
<1>5. GrossTotal \in Int
  BY BookTyped DEF BudgetInv
<1> QED
  BY <1>1, <1>2, <1>4, <1>5, BookSums

(* A seat is placed.                                                         *)
LEMMA AdoptStep ==
    ASSUME BudgetInv, NEW s \in Seats, NEW root \in Seats, Adopt(s, root)
    PROVE  order' \in Seq(Seats) /\ lineage' \in [Seats -> Seats] /\ Placed \cup {s} \subseteq Placed'
<1>1. order \in Seq(Seats) /\ lineage \in [Seats -> Seats]
  BY DEF BudgetInv, BudgetTypeOK
<1>2. CASE s \in Placed
  BY <1>1, <1>2 DEF Adopt, Placed
<1>3. CASE s \notin Placed
  <2>1. order' = Append(order, s) /\ lineage' = [lineage EXCEPT ![s] = root]
    BY <1>3 DEF Adopt
  <2>2. /\ order' \in Seq(Seats) /\ Len(order') = Len(order) + 1 /\ Len(order) \in Nat
        /\ \A i \in 1 .. Len(order) : order'[i] = order[i]
        /\ order'[Len(order) + 1] = s
    BY <1>1, <2>1
  <2>3. \A i \in 1 .. Len(order) : i \in 1 .. Len(order')
    BY <2>2
  <2>4. Len(order) + 1 \in 1 .. Len(order')
    BY <2>2
  <2> QED
    BY <1>1, <2>1, <2>2, <2>3, <2>4 DEF Placed
<1> QED
  BY <1>2, <1>3

(* What a step does to a pool in debt. *)
Refilled == GrossTotal' > GrossTotal /\ settlements' = settlements => Unallocated' >= 0

(* The wallet does not move.                                                 *)
LEMMA WalletRests ==
    ASSUME BudgetInv, UNCHANGED vars
    PROVE  /\ IInv' /\ Unlocked' = Unlocked
           /\ UNCHANGED <<amount, reservations, bills, settlements>>
<1>1. IInv'
  BY NextIInv DEF BudgetInv
<1>2. UNCHANGED <<amount, reservations, bills, balance, released, settlements>>
  BY DEF vars
<1> QED
  BY <1>1, <1>2 DEF Unlocked, Locked

LEMMA RegisterChildStep ==
    ASSUME BudgetInv, NEW p \in Seats, NEW c \in Seats, NEW a \in Trials, RegisterChild(p, c, a)
    PROVE  BudgetInv' /\ Refilled
<1>1. /\ p \in known /\ p # c /\ a <= Entitlement(p) /\ a \in Nat
      /\ gross' = [gross EXCEPT ![p] = gross[p] - a, ![c] = gross[c] + a]
      /\ known' = known \cup {c} /\ retired' = retired \ {c}
      /\ UNCHANGED <<vars, holds, payer, uncertain, own, commons, drawn>>
      /\ Adopt(c, lineage[p])
  <2>1. gross \in [Seats -> Int]
    BY DEF BudgetInv, BudgetTypeOK
  <2> QED
    BY <2>1, BudgetAssumption DEF RegisterChild, seatHoldVars
<1>2. CallsRest /\ IInv' /\ Unlocked' = Unlocked /\ UNCHANGED <<amount, reservations, bills>>
  BY <1>1, WalletRests DEF CallsRest
<1>3. /\ order' \in Seq(Seats) /\ lineage' \in [Seats -> Seats] /\ Placed \cup {c} \subseteq Placed'
  <2>1. lineage[p] \in Seats
    BY DEF BudgetInv, BudgetTypeOK
  <2> QED
    BY <1>1, <2>1, AdoptStep
<1>4. /\ gross' \in [Seats -> Int] /\ gross'[p] = gross[p] - a /\ gross'[c] = gross[c] + a
      /\ \A s \in Seats : s # p /\ s # c => gross'[s] = gross[s]
      /\ \A s \in Seats : gross[s] \in Int /\ gross'[s] \in Int
  <2>1. gross \in [Seats -> Int]
    BY DEF BudgetInv, BudgetTypeOK
  <2> QED
    BY <1>1, <2>1
<1>5. GrossTotal' = GrossTotal
  <2> DEFINE paid == [gross EXCEPT ![p] = gross[p] - a]
  <2>1. /\ \A s \in Seats : paid[s] \in Int /\ (s # p => paid[s] = gross[s])
        /\ paid[p] = gross[p] - a
    BY <1>1, <1>4 DEF BudgetInv, BudgetTypeOK
  <2>2. \A s \in Seats : s # c => gross'[s] = paid[s]
    BY <1>4, <2>1
  <2> HIDE DEF paid
  <2>3. SumOver(paid, Seats) = SumOver(gross, Seats) - gross[p] + paid[p]
    BY <1>4, <2>1, SumChange, BudgetAssumption
  <2>4. SumOver(gross', Seats) = SumOver(paid, Seats) - paid[c] + gross'[c]
    <3>1. \A t \in Seats : paid[t] \in Int /\ gross'[t] \in Int
      BY <1>4, <2>1
    <3> QED
      BY <2>2, <3>1, SumChange, BudgetAssumption
  <2>5. SumOver(gross, Seats) \in Int /\ SumOver(paid, Seats) \in Int /\ paid[c] = gross[c]
    BY <1>1, <1>4, <2>1, SumIsInt, BudgetAssumption
  <2> QED
    BY <1>1, <1>4, <2>1, <2>3, <2>4, <2>5, BookSums
<1>6. SeatTypes
  <2>1. \A s \in Seats \ known' : gross'[s] = 0
    BY <1>1, <1>4 DEF BudgetInv, BudgetTypeOK
  <2> QED
    BY <1>1, <1>2, <1>3, <1>4, <2>1 DEF BudgetInv, BudgetTypeOK, SeatTypes
<1>7. gross'[p] >= HeldBy(p) /\ gross'[c] >= gross[c]
  <2>1. HeldBy(p) \in Nat
    BY BookTyped DEF BudgetInv
  <2>2. a <= gross[p] - HeldBy(p)
    BY <1>1 DEF Entitlement
  <2> QED
    BY <1>1, <1>4, <2>1, <2>2
<1>8. \A s \in Seats : gross'[s] >= gross[s] \/ gross'[s] >= HeldBy(s)
  BY <1>4, <1>7
<1>9. ASSUME NEW s \in retired' PROVE gross'[s] = 0 /\ HeldBy(s) = 0
  <2>1. s \in retired /\ s # c /\ s \in Seats
    BY <1>1, SeatsKnown
  <2>2. gross[s] = 0 /\ HeldBy(s) = 0
    BY <2>1 DEF BudgetInv, Emptied
  <2>3. CASE s = p
    <3>1. a = 0
      BY <1>1, <2>2, <2>3 DEF Entitlement
    <3> QED
      BY <1>4, <2>2, <2>3, <3>1
  <2>4. CASE s # p
    BY <1>4, <2>1, <2>2, <2>4
  <2> QED
    BY <2>3, <2>4
<1>10. commons' >= commons /\ Unallocated' + commons' >= 0
  <2>1. commons \in Int
    BY CommonsBears
  <2> QED
    BY <1>1, <1>2, <1>5, <2>1 DEF BudgetInv, NothingMinted, Unallocated
<1>11. Refilled
  BY <1>5, BookTyped DEF BudgetInv, Refilled
<1> QED
  BY <1>2, <1>6, <1>8, <1>9, <1>10, <1>11, BookMove

LEMMA RegisterFromPoolStep ==
    ASSUME BudgetInv, NEW c \in Seats, NEW a \in Trials, RegisterFromPool(c, a)
    PROVE  BudgetInv' /\ Refilled
<1>1. /\ a \in Nat /\ a \in Int /\ Adopt(c, c)
      /\ UNCHANGED <<vars, holds, payer, uncertain, own, commons, drawn>>
  BY BudgetAssumption DEF RegisterFromPool, seatHoldVars
<1>2. CallsRest /\ IInv' /\ Unlocked' = Unlocked /\ UNCHANGED <<amount, reservations, bills>>
  BY <1>1, WalletRests DEF CallsRest
<1>3. /\ order' \in Seq(Seats) /\ lineage' \in [Seats -> Seats] /\ Placed \cup {c} \subseteq Placed'
  BY <1>1, AdoptStep
<1>4. /\ commons \in Int /\ commons >= 0 /\ Unlocked \in Int /\ GrossTotal \in Int
      /\ Unallocated \in Int /\ \A s \in Seats : gross[s] \in Int
  BY CommonsBears, BookTyped DEF BudgetInv
<1>5. CASE a <= Unallocated
  <2>1. /\ gross' = [gross EXCEPT ![c] = gross[c] + a]
        /\ known' = known \cup {c} /\ retired' = retired \ {c}
    BY <1>5 DEF RegisterFromPool
  <2>2. /\ gross' \in [Seats -> Int] /\ gross'[c] = gross[c] + a /\ GrossTotal' = GrossTotal + a
        /\ \A t \in Seats : t # c => gross'[t] = gross[t]
    BY <1>1, <2>1, GrossChange
  <2>3. SeatTypes
    <3>1. \A s \in Seats \ known' : gross'[s] = 0
      BY <2>1, <2>2 DEF BudgetInv, BudgetTypeOK
    <3> QED
      BY <1>1, <1>2, <1>3, <2>1, <2>2, <3>1 DEF BudgetInv, BudgetTypeOK, SeatTypes
  <2>4. Unallocated' >= 0 /\ Unallocated' \in Int
    BY <1>1, <1>2, <1>4, <1>5, <2>2 DEF Unallocated
  <2>5. commons' >= commons /\ Unallocated' + commons' >= 0
    <3>1. commons' = commons
      BY <1>1
    <3>2. commons' >= commons
      BY <1>4, <3>1
    <3>3. \A u, v \in Int : u >= 0 /\ v >= 0 => u + v >= 0
      OBVIOUS
    <3>4. Unallocated' + commons' >= 0
      BY <1>4, <2>4, <3>1, <3>3
    <3> QED
      BY <3>2, <3>4
  <2>6. \A s \in Seats : gross'[s] >= gross[s]
    BY <1>1, <1>4, <2>2
  <2>7. \A s \in retired' : gross'[s] = 0 /\ HeldBy(s) = 0
    BY <2>1, <2>2, SeatsKnown DEF BudgetInv, Emptied
  <2> QED
    BY <1>2, <2>3, <2>4, <2>5, <2>6, <2>7, BookMove DEF Refilled
<1>6. CASE ~(a <= Unallocated)
  <2>1. UNCHANGED <<gross, known, retired>>
    BY <1>6 DEF RegisterFromPool
  <2>2. GrossTotal' = GrossTotal
    BY <2>1, BookSums
  <2>3. SeatTypes
    BY <1>1, <1>2, <1>3, <2>1 DEF BudgetInv, BudgetTypeOK, SeatTypes
  <2>4. commons' >= commons /\ Unallocated' + commons' >= 0
    BY <1>1, <1>2, <1>4, <2>2 DEF BudgetInv, NothingMinted, Unallocated
  <2>5. \A s \in Seats : gross'[s] >= gross[s]
    BY <2>1, BookTyped DEF BudgetInv
  <2>6. \A s \in retired' : gross'[s] = 0 /\ HeldBy(s) = 0
    BY <2>1 DEF BudgetInv, Emptied
  <2>7. Refilled
    BY <1>4, <2>2 DEF Refilled
  <2> QED
    BY <1>2, <2>3, <2>4, <2>5, <2>6, <2>7, BookMove
<1> QED
  BY <1>5, <1>6

LEMMA DebitStep ==
    ASSUME BudgetInv, NEW p \in Seats, NEW a \in Trials, Debit(p, a)
    PROVE  BudgetInv' /\ Refilled
<1>1. /\ p \in known /\ a <= Entitlement(p) /\ a \in Nat /\ -a \in Int
      /\ gross' = [gross EXCEPT ![p] = gross[p] - a]
      /\ UNCHANGED <<vars, known, retired, order, lineage, holds, payer, uncertain, own, commons,
                     drawn>>
  BY BudgetAssumption DEF Debit, seatHoldVars
<1>2. CallsRest /\ IInv' /\ Unlocked' = Unlocked /\ UNCHANGED <<amount, reservations, bills>>
  BY <1>1, WalletRests DEF CallsRest
<1>3. /\ commons \in Int /\ Unlocked \in Int /\ GrossTotal \in Int
      /\ \A s \in Seats : gross[s] \in Int /\ HeldBy(s) \in Nat
  BY CommonsBears, BookTyped DEF BudgetInv
<1>4. /\ gross' \in [Seats -> Int] /\ gross'[p] = gross[p] - a /\ GrossTotal' = GrossTotal - a
      /\ \A t \in Seats : t # p => gross'[t] = gross[t]
  <2>1. gross[p] - a = gross[p] + (-a)
    BY <1>1, <1>3
  <2>2. gross' = [gross EXCEPT ![p] = gross[p] + (-a)]
    BY <1>1, <2>1
  <2>3. /\ gross' \in [Seats -> Int] /\ gross'[p] = gross[p] + (-a) /\ GrossTotal' = GrossTotal + (-a)
        /\ \A t \in Seats : t # p => gross'[t] = gross[t]
    BY <1>1, <2>2, GrossChange
  <2> QED
    BY <1>1, <1>3, <2>1, <2>3
<1>5. SeatTypes
  <2>1. \A s \in Seats \ known' : gross'[s] = 0
    BY <1>1, <1>4 DEF BudgetInv, BudgetTypeOK
  <2>2. Placed' = Placed
    BY <1>1 DEF Placed
  <2> QED
    BY <1>1, <1>2, <1>4, <2>1, <2>2 DEF BudgetInv, BudgetTypeOK, SeatTypes
<1>6. commons' >= commons /\ Unallocated' + commons' >= 0
  BY <1>1, <1>2, <1>3, <1>4 DEF BudgetInv, NothingMinted, Unallocated
<1>7. \A s \in Seats : gross'[s] >= gross[s] \/ gross'[s] >= HeldBy(s)
  <2>1. gross'[p] >= HeldBy(p)
    BY <1>1, <1>3, <1>4 DEF Entitlement
  <2> QED
    BY <1>3, <1>4, <2>1
<1>8. ASSUME NEW s \in retired' PROVE gross'[s] = 0 /\ HeldBy(s) = 0
  <2>1. s \in Seats /\ gross[s] = 0 /\ HeldBy(s) = 0
    BY <1>1, SeatsKnown DEF BudgetInv, Emptied
  <2>2. s = p => a = 0
    BY <1>1, <2>1 DEF Entitlement
  <2> QED
    BY <1>4, <2>1, <2>2
<1>9. Refilled
  BY <1>1, <1>3, <1>4 DEF Refilled
<1> QED
  BY <1>2, <1>5, <1>6, <1>7, <1>8, <1>9, BookMove

LEMMA RetireStep ==
    ASSUME BudgetInv, NEW s \in Seats, Retire(s)
    PROVE  BudgetInv' /\ Refilled
<1>1. /\ s \in known /\ HeldBy(s) = 0 /\ gross' = [gross EXCEPT ![s] = 0]
      /\ retired' = retired \cup {s}
      /\ UNCHANGED <<vars, known, order, lineage, holds, payer, uncertain, own, commons, drawn>>
  BY DEF Retire, seatHoldVars, LiveSeats
<1>2. CallsRest /\ IInv' /\ Unlocked' = Unlocked /\ UNCHANGED <<amount, reservations, bills>>
  BY <1>1, WalletRests DEF CallsRest
<1>3. /\ commons \in Int /\ Unlocked \in Int /\ GrossTotal \in Int /\ gross[s] >= 0
      /\ \A t \in Seats : gross[t] \in Int /\ HeldBy(t) \in Nat
  BY CommonsBears, BookTyped DEF BudgetInv, Sound
<1>4. /\ gross' \in [Seats -> Int] /\ gross'[s] = 0 /\ GrossTotal' = GrossTotal - gross[s]
      /\ \A t \in Seats : t # s => gross'[t] = gross[t]
  <2>1. PICK d \in Int : d = -gross[s] /\ gross[s] + d = 0
    BY <1>3
  <2>2. gross' = [gross EXCEPT ![s] = gross[s] + d]
    BY <1>1, <2>1
  <2>3. /\ gross' \in [Seats -> Int] /\ gross'[s] = gross[s] + d /\ GrossTotal' = GrossTotal + d
        /\ \A t \in Seats : t # s => gross'[t] = gross[t]
    BY <2>2, GrossChange
  <2> QED
    BY <1>3, <2>1, <2>3
<1>5. SeatTypes
  <2>1. \A t \in Seats \ known' : gross'[t] = 0
    BY <1>1, <1>4 DEF BudgetInv, BudgetTypeOK
  <2>2. Placed' = Placed
    BY <1>1 DEF Placed
  <2> QED
    BY <1>1, <1>2, <1>4, <2>1, <2>2 DEF BudgetInv, BudgetTypeOK, SeatTypes
<1>6. commons' >= commons /\ Unallocated' + commons' >= 0
  BY <1>1, <1>2, <1>3, <1>4 DEF BudgetInv, NothingMinted, Unallocated
<1>7. \A t \in Seats : gross'[t] >= gross[t] \/ gross'[t] >= HeldBy(t)
  BY <1>1, <1>3, <1>4
<1>8. \A t \in retired' : gross'[t] = 0 /\ HeldBy(t) = 0
  BY <1>1, <1>4, SeatsKnown DEF BudgetInv, Emptied
<1>9. Refilled
  BY <1>3, <1>4 DEF Refilled
<1> QED
  BY <1>2, <1>5, <1>6, <1>7, <1>8, <1>9, BookMove

(* Money arrives for a seat; none of it is given to a retired one.           *)
LEMMA EarnStep ==
    ASSUME BudgetInv, NEW s \in Placed, NEW a \in Deltas, a > 0, NEW d \in Nat, d <= a,
           SettleBatch(a, 0),
           UNCHANGED <<retired, order, lineage, holds, payer, uncertain, own, commons, drawn>>,
           IF s \in retired THEN UNCHANGED <<gross, known>>
           ELSE gross' = [gross EXCEPT ![s] = gross[s] + d] /\ known' = known \cup {s}
    PROVE  BudgetInv' /\ Refilled
<1>1. a \in Int /\ s \in Seats
  BY SeatsKnown, MoneyAssumption
<1>0. d \in Int
  OBVIOUS
<1>2. IInv'
  BY <1>1, SettleStep DEF BudgetInv
<1>3. /\ balance' = balance + a /\ settlements' = settlements + a /\ settlements \in Int
      /\ balance \in Int
      /\ UNCHANGED <<amount, reservations, bills, released>>
  BY <1>1 DEF SettleBatch, holdVars, billVars, scheduleVars, BudgetInv, IInv, TypeOK
<1>4. Unlocked' = Unlocked + a /\ settlements' # settlements /\ Unlocked \in Int
  BY <1>1, <1>3, BookTyped, SMTT(20) DEF Unlocked, Locked, BudgetInv
<1>5. /\ commons \in Int /\ GrossTotal \in Int /\ \A t \in Seats : gross[t] \in Int
  BY CommonsBears, BookTyped DEF BudgetInv
<1>6. CallsRest /\ Placed' = Placed
  BY <1>3 DEF CallsRest, Placed
<1>7. Refilled
  BY <1>4 DEF Refilled
<1>8. CASE s \in retired
  <2>1. UNCHANGED <<gross, known>>
    BY <1>8
  <2>2. GrossTotal' = GrossTotal
    BY <2>1, BookSums
  <2>3. SeatTypes
    BY <1>3, <1>6, <2>1 DEF BudgetInv, BudgetTypeOK, SeatTypes
  <2>4. commons' >= commons /\ Unallocated' + commons' >= 0
    BY <1>1, <1>4, <1>5, <2>2 DEF BudgetInv, NothingMinted, Unallocated
  <2>5. \A t \in Seats : gross'[t] >= gross[t]
    BY <1>5, <2>1
  <2>6. \A t \in retired' : gross'[t] = 0 /\ HeldBy(t) = 0
    BY <2>1 DEF BudgetInv, Emptied
  <2> QED
    BY <1>2, <1>6, <1>7, <2>3, <2>4, <2>5, <2>6, BookMove
<1>9. CASE s \notin retired
  <2>1. gross' = [gross EXCEPT ![s] = gross[s] + d] /\ known' = known \cup {s}
    BY <1>9
  <2>2. /\ gross' \in [Seats -> Int] /\ gross'[s] = gross[s] + d /\ GrossTotal' = GrossTotal + d
        /\ \A t \in Seats : t # s => gross'[t] = gross[t]
    BY <1>0, <1>1, <2>1, GrossChange
  <2>3. SeatTypes
    <3>1. \A t \in Seats \ known' : gross'[t] = 0
      BY <2>1, <2>2 DEF BudgetInv, BudgetTypeOK
    <3> QED
      BY <1>3, <1>6, <2>1, <2>2, <3>1 DEF BudgetInv, BudgetTypeOK, SeatTypes
  <2>4. commons' >= commons /\ Unallocated' + commons' >= 0
    BY <1>1, <1>4, <1>5, <2>2 DEF BudgetInv, NothingMinted, Unallocated
  <2>5. \A t \in Seats : gross'[t] >= gross[t]
    BY <1>1, <1>5, <2>2
  <2>6. \A t \in retired' : gross'[t] = 0 /\ HeldBy(t) = 0
    BY <1>9, <2>2, SeatsKnown DEF BudgetInv, Emptied
  <2> QED
    BY <1>2, <1>6, <1>7, <2>3, <2>4, <2>5, <2>6, BookMove
<1> QED
  BY <1>8, <1>9

LEMMA IncomeStep ==
    ASSUME BudgetInv, NEW s \in Seats, NEW a \in Deltas,
           Income(s, a) \/ \E profit \in Trials : Financing(s, a, profit)
    PROVE  BudgetInv' /\ Refilled
<1>1. /\ s \in Placed /\ a > 0 /\ a \in Int /\ SettleBatch(a, 0)
      /\ UNCHANGED <<retired, order, lineage, holds, payer, uncertain, own, commons, drawn>>
  BY MoneyAssumption DEF Income, Financing, seatHoldVars
<1>2. CASE Income(s, a)
  BY <1>1, <1>2, EarnStep DEF Income
<1>3. ASSUME NEW profit \in Trials, Financing(s, a, profit) PROVE BudgetInv' /\ Refilled
  <2>1. PICK d : d = Larger(0, Smaller(Smaller(a, profit), Unallocated + a))
    OBVIOUS
  <2>2. Unallocated \in Int /\ profit \in Int
    BY BookTyped, BudgetAssumption DEF BudgetInv
  <2>3. d \in Nat /\ d <= a
    BY <1>1, <2>1, <2>2 DEF Larger, Smaller
  <2>4. IF s \in retired THEN UNCHANGED <<gross, known>>
        ELSE gross' = [gross EXCEPT ![s] = gross[s] + d] /\ known' = known \cup {s}
    BY <1>3, <2>1 DEF Financing
  <2> QED
    BY <1>1, <2>3, <2>4, EarnStep
<1> QED
  BY <1>2, <1>3

-------------------------------------------------------------------------------
(* Tranches and commons releases: the head of each live lineage is paid.     *)

LEMMA Divide ==
    ASSUME NEW n \in Nat, NEW c \in Nat \ {0}
    PROVE  n \div c \in Nat /\ (n \div c) * c <= n /\ c * (n \div c) <= n
  OBVIOUS

LEMMA HeadsAre ==
    ASSUME BudgetInv
    PROVE  /\ \A root \in LiveLineages : Oldest(root) \in Members(root)
           /\ Heads \subseteq LiveSeats /\ LiveSeats \subseteq Seats
           /\ IsFiniteSet(Heads) /\ Cardinality(Heads) \in Nat
           /\ Heads # {} => Cardinality(Heads) > 0
<1>1. ASSUME NEW root \in LiveLineages PROVE Oldest(root) \in Members(root)
  <2> DEFINE T == {i \in 1 .. Len(order) : order[i] \in Members(root)}
  <2>1. T \in SUBSET Nat /\ Len(order) \in Nat
    BY DEF BudgetInv
  <2>2. T # {}
    <3>1. PICK s \in LiveSeats : lineage[s] = root
      BY DEF LiveLineages
    <3>2. s \in Members(root) /\ s \in Placed
      BY <3>1 DEF Members, LiveSeats, BudgetInv, BudgetTypeOK
    <3> QED
      BY <3>2 DEF Placed
  <2>3. PICK n \in T : \A m \in T : n <= m
    <3> HIDE DEF T
    <3> QED
      BY <2>1, <2>2, LeastElement
  <2>4. n \in 1 .. Len(order) /\ order[n] \in Members(root)
    OBVIOUS
  <2>5. \A j \in 1 .. n - 1 : j \in 1 .. Len(order) /\ j < n
    BY <2>1, <2>4
  <2>6. \A j \in 1 .. n - 1 : order[j] \notin Members(root)
    BY <2>1, <2>3, <2>4, <2>5
  <2>7. \E i \in 1 .. Len(order) : /\ order[i] \in Members(root)
                                   /\ \A j \in 1 .. i - 1 : order[j] \notin Members(root)
    BY <2>4, <2>6
  <2> QED
    BY <2>7, Zenon DEF Oldest
<1>2. Heads \subseteq LiveSeats
  BY <1>1 DEF Heads, Members
<1>3. LiveSeats \subseteq Seats
  BY SeatsKnown DEF LiveSeats
<1>4. IsFiniteSet(Heads)
  BY <1>2, <1>3, FS_Subset, BudgetAssumption
<1> QED
  BY <1>1, <1>2, <1>3, <1>4, FS_CardinalityType, FS_EmptySet

LEMMA PoolIs == Unallocated = Unlocked - GrossTotal /\ Unallocated' = Unlocked' - GrossTotal'
  BY DEF Unallocated

(* What a pool of u - p holds after t more are unlocked and p becomes q. *)
LEMMA PoolAfter ==
    ASSUME NEW u \in Int, NEW p \in Int, NEW q \in Int, NEW t \in Nat, NEW backed \in Nat,
           NEW c \in Int, c >= 0, (u - p) + c >= 0,
           p <= q, q <= p + backed, backed <= t, backed > 0 => backed <= (u - p) + t
    PROVE  /\ ((u + t) - q) + c >= 0 /\ (u + t) - q \in Int
           /\ q > p => (u + t) - q >= 0
  OBVIOUS

LEMMA PayHeadsStep ==
    ASSUME BudgetInv, NEW total \in Nat, PayHeads(total)
    PROVE  /\ gross' \in [Seats -> Int] /\ GrossTotal' \in Int
           /\ \A s \in Seats : gross'[s] >= gross[s] /\ (s \notin Heads => gross'[s] = gross[s])
           /\ GrossTotal <= GrossTotal' /\ GrossTotal' <= GrossTotal + total
           /\ \E share \in Nat : \A s \in Seats :
                 gross'[s] = IF s \in Heads THEN gross[s] + share ELSE gross[s]
<1>1. PICK share : share = IF Heads = {} THEN 0 ELSE total \div Cardinality(Heads)
  OBVIOUS
<1>2. gross' = [s \in Seats |-> IF s \in Heads THEN gross[s] + share ELSE gross[s]]
  BY <1>1 DEF PayHeads
<1>3. share \in Nat /\ share * Cardinality(Heads) \in Nat /\ share * Cardinality(Heads) <= total
  <2>1. CASE Heads = {}
    BY <1>1, <2>1, FS_EmptySet
  <2>2. CASE Heads # {}
    <3>1. PICK c \in Nat \ {0} : c = Cardinality(Heads)
      BY <2>2, HeadsAre
    <3>2. share = total \div c
      BY <1>1, <2>2, <3>1
    <3>3. share \in Nat /\ share * c <= total
      BY <3>2, Divide
    <3>4. share * c \in Nat
      BY <3>3
    <3> QED
      BY <3>1, <3>3, <3>4
  <2> QED
    BY <2>1, <2>2
<1>4. /\ \A s \in Seats : gross[s] \in Int
      /\ \A s \in Seats : gross'[s] = IF s \in Heads THEN gross[s] + share ELSE gross[s]
      /\ GrossTotal \in Int /\ Heads \in SUBSET Seats /\ IsFiniteSet(Seats) /\ share \in Int
  BY <1>2, <1>3, BookTyped, HeadsAre, BudgetAssumption DEF BudgetInv
<1>5. gross' \in [Seats -> Int] /\ \A s \in Seats : gross'[s] >= gross[s]
  BY <1>2, <1>3, <1>4
<1>6. SumOver(gross', Seats) = SumOver(gross, Seats) + share * Cardinality(Heads)
  <2>1. PICK paid : paid = gross'
    OBVIOUS
  <2>2. \A s \in Seats : gross[s] \in Int /\ paid[s] = IF s \in Heads THEN gross[s] + share ELSE gross[s]
    BY <1>4, <2>1
  <2>3. SumOver(paid, Seats) = SumOver(gross, Seats) + share * Cardinality(Heads)
    BY <1>4, <2>2, SumRaise
  <2> QED
    BY <2>1, <2>3
<1>7. GrossTotal' = GrossTotal + share * Cardinality(Heads)
  BY <1>6, BookSums
<1>8. \E k \in Nat : \A s \in Seats : gross'[s] = IF s \in Heads THEN gross[s] + k ELSE gross[s]
  BY <1>3, <1>4
<1>9. GrossTotal' \in Int /\ GrossTotal <= GrossTotal' /\ GrossTotal' <= GrossTotal + total
  <2>1. PICK k \in Nat : k = share * Cardinality(Heads)
    BY <1>3
  <2>2. GrossTotal' = GrossTotal + k /\ k <= total
    BY <1>3, <1>7, <2>1
  <2> QED
    BY <1>4, <2>1, <2>2
<1>10. \A s \in Seats : s \notin Heads => gross'[s] = gross[s]
  BY <1>4
<1> QED
  BY <1>5, <1>8, <1>9, <1>10

(* Paying heads leaves every other part of the book alone.                   *)
LEMMA HeadsPaid ==
    ASSUME BudgetInv, NEW total \in Nat, PayHeads(total), IInv',
           UNCHANGED <<known, retired, order, lineage, holds, payer, uncertain, own, commons, drawn>>,
           UNCHANGED <<amount, reservations, bills>>,
           Unallocated' + commons >= 0
    PROVE  BudgetInv'
<1>1. CallsRest /\ Placed' = Placed
  BY DEF CallsRest, Placed
<1>2. SeatTypes
  <2>1. \A s \in Seats \ known' : s \notin Heads
    BY HeadsAre DEF LiveSeats
  <2>2. \A s \in Seats \ known' : gross'[s] = 0
    BY <2>1, PayHeadsStep DEF BudgetInv, BudgetTypeOK
  <2> QED
    BY <1>1, <2>2, PayHeadsStep DEF BudgetInv, BudgetTypeOK, SeatTypes
<1>3. commons' >= commons /\ Unallocated' + commons' >= 0
  BY CommonsBears
<1>4. \A s \in Seats : gross'[s] >= gross[s]
  BY PayHeadsStep
<1>5. ASSUME NEW s \in retired' PROVE gross'[s] = 0 /\ HeldBy(s) = 0
  <2>1. s \in retired /\ s \in Seats /\ s \notin Heads
    BY SeatsKnown, HeadsAre DEF LiveSeats
  <2> QED
    BY <2>1, PayHeadsStep DEF BudgetInv, Emptied
<1> QED
  BY <1>1, <1>2, <1>3, <1>4, <1>5, BookMove

LEMMA CommonsTotal ==
    ASSUME BudgetInv, CommonsRelease
    PROVE  Unallocated \in Nat
<1>1. PICK c \in Nat \ {0} : c = Cardinality(Heads)
  BY HeadsAre DEF CommonsRelease
<1>2. PICK u \in Int : u = Unallocated
  BY BookTyped DEF BudgetInv
<1>3. u \div c > 0
  BY <1>1, <1>2 DEF CommonsRelease
<1>4. u >= 0
  BY <1>3
<1> QED
  BY <1>2, <1>4

LEMMA CommonsReleaseStep ==
    ASSUME BudgetInv, CommonsRelease
    PROVE  BudgetInv' /\ Refilled
<1>1. /\ Heads # {} /\ Unallocated \div Cardinality(Heads) > 0 /\ PayHeads(Unallocated)
      /\ UNCHANGED <<vars, known, retired, order, lineage, holds, payer, uncertain, own, commons,
                     drawn>>
  BY DEF CommonsRelease, seatHoldVars
<1>2. IInv' /\ Unlocked' = Unlocked /\ UNCHANGED <<amount, reservations, bills>>
  BY <1>1, WalletRests
<1>3. Unallocated \in Nat
  BY CommonsTotal
<1>4. GrossTotal' \in Int /\ GrossTotal' <= GrossTotal + Unallocated
  BY <1>1, <1>3, PayHeadsStep
<1>5. Unallocated' >= 0 /\ Unallocated' \in Int
  <2>1. Unlocked \in Int /\ GrossTotal \in Int
    BY BookTyped DEF BudgetInv
  <2>2. \A u, p, q \in Int : q <= p + (u - p) => u - q >= 0 /\ u - q \in Int
    OBVIOUS
  <2>3. GrossTotal' <= GrossTotal + (Unlocked - GrossTotal)
    BY <1>4, PoolIs
  <2>4. Unlocked - GrossTotal' >= 0 /\ Unlocked - GrossTotal' \in Int
    BY <1>4, <2>1, <2>2, <2>3
  <2> QED
    BY <1>2, <2>4, PoolIs
<1>6. Unallocated' + commons >= 0
  <2>1. \A u, c \in Int : u >= 0 /\ c >= 0 => u + c >= 0
    OBVIOUS
  <2> QED
    BY <1>5, <2>1, CommonsBears
<1> QED
  BY <1>1, <1>2, <1>3, <1>5, <1>6, HeadsPaid DEF Refilled

(* base_share of an amount is never more than it. *)
LEMMA PartOf ==
    ASSUME NEW n \in Nat
    PROVE  (n * BaseNum) \div BaseDen \in Nat /\ (n * BaseNum) \div BaseDen <= n
<1>1. BaseNum \in Nat /\ BaseDen \in Nat \ {0} /\ BaseNum <= BaseDen
  BY BudgetAssumption
<1>2. PICK q \in Nat : q = (n * BaseNum) \div BaseDen
  BY <1>1, Divide
<1>3. q * BaseDen <= n * BaseNum
  <2>1. n * BaseNum \in Nat
    BY <1>1
  <2> QED
    BY <1>1, <1>2, <2>1, Divide
<1>4. n * BaseNum <= n * BaseDen
  BY <1>1
<1>5. q <= n
  <2> SUFFICES ASSUME q >= n + 1 PROVE FALSE
    OBVIOUS
  <2>1. q * BaseDen >= (n + 1) * BaseDen
    BY <1>1
  <2>2. (n + 1) * BaseDen = n * BaseDen + BaseDen
    BY <1>1
  <2> QED
    BY <1>1, <1>3, <1>4, <2>1, <2>2
<1> QED
  BY <1>2, <1>5

(* What is released of locked backing, what the pool backs of it and what is *)
(* granted of that.                                                          *)
Split(tranches, backed, total) ==
    /\ tranches = Locked - LockedAfter[released']
    /\ backed <= tranches /\ (backed > 0 => backed <= Unallocated + tranches)
    /\ total <= backed /\ PayHeads(total)

LEMMA SplitTotal ==
    ASSUME BudgetInv, ReleaseAndSplit
    PROVE  \E tranches, backed, total \in Nat : Split(tranches, backed, total)
<1>1. PICK tranches : tranches = Locked - LockedAfter[released']
  OBVIOUS
<1>2. PICK backed : backed = Backed(tranches)
  OBVIOUS
<1>3. PICK total : total = (backed * BaseNum) \div BaseDen
  OBVIOUS
<1>4. ReleaseDue /\ PayHeads(total)
  BY <1>1, <1>2, <1>3 DEF ReleaseAndSplit
<1>6. released' \in released + 1 .. NTranches /\ released \in 0 .. NTranches
  BY <1>4 DEF ReleaseDue, DueTranches, BudgetInv, BudgetTypeOK, TypeOK
<1>7. tranches \in Nat
  <2>1. /\ released' \in 0 .. NTranches /\ released < released'
        /\ \A k \in 0 .. NTranches : LockedAfter[k] \in Nat
    BY <1>6, ScheduleAssumption
  <2>2. LockedAfter[released'] < LockedAfter[released]
    BY <1>6, <2>1, ScheduleAssumption
  <2> QED
    BY <1>1, <1>6, <2>1, <2>2 DEF Locked
<1>9. Unallocated \in Int
  BY BookTyped DEF BudgetInv
<1>10. /\ backed \in Nat /\ backed <= tranches
       /\ backed > 0 => backed <= Unallocated + tranches
  BY <1>2, <1>7, <1>9 DEF Backed, Larger, Smaller
<1>11. total \in Nat /\ total <= backed
  BY <1>3, <1>10, PartOf
<1> QED
  BY <1>1, <1>4, <1>7, <1>10, <1>11 DEF Split

LEMMA ReleaseAndSplitStep ==
    ASSUME BudgetInv, ReleaseAndSplit
    PROVE  BudgetInv' /\ Refilled
<1>1. PICK tranches, backed, total \in Nat : Split(tranches, backed, total)
  BY SplitTotal
<1>2. /\ tranches = Locked - LockedAfter[released'] /\ PayHeads(total)
      /\ backed <= tranches /\ (backed > 0 => backed <= Unallocated + tranches)
      /\ total <= backed
  BY <1>1 DEF Split
<1>4. /\ ReleaseDue
      /\ UNCHANGED <<known, retired, order, lineage, holds, payer, uncertain, own, commons, drawn>>
  BY DEF ReleaseAndSplit, seatHoldVars
<1>5. IInv'
  BY <1>4, ReleaseStep DEF BudgetInv
<1>6. /\ UNCHANGED <<amount, reservations, bills, balance, settlements>>
      /\ released' \in released + 1 .. NTranches /\ released \in 0 .. NTranches
  BY <1>4 DEF ReleaseDue, DueTranches, moneyVars, holdVars, billVars, BudgetInv, BudgetTypeOK, TypeOK
<1>8. Unlocked' = Unlocked + tranches
  <2>1. released' \in 0 .. NTranches /\ Locked \in Nat
    BY <1>6, BookTyped, ScheduleAssumption DEF BudgetInv
  <2>2. PICK l \in Nat : l = LockedAfter[released']
    BY <2>1, ScheduleAssumption
  <2>3. PICK k \in Nat : k = Locked
    BY <2>1
  <2>4. balance \in Int
    BY DEF BudgetInv, BudgetTypeOK, TypeOK
  <2>5. tranches = k - l /\ Unlocked = balance - k /\ Unlocked' = balance - l
    BY <1>2, <1>6, <2>2, <2>3 DEF Unlocked, Locked
  <2> QED
    BY <2>4, <2>5
<1>9. /\ Unlocked \in Int /\ GrossTotal \in Int /\ commons \in Int /\ commons >= 0
      /\ Unallocated = Unlocked - GrossTotal /\ Unallocated + commons >= 0
  BY BookTyped, CommonsBears DEF BudgetInv, NothingMinted, Unallocated
<1>12. GrossTotal' \in Int /\ GrossTotal <= GrossTotal' /\ GrossTotal' <= GrossTotal + total
  BY <1>2, PayHeadsStep
<1>13. GrossTotal' <= GrossTotal + backed
  <2>1. \A g, p, n, m \in Int : g <= p + n /\ n <= m => g <= p + m
    OBVIOUS
  <2> QED
    BY <1>2, <1>9, <1>12, <2>1
<1>14. /\ ((Unlocked + tranches) - GrossTotal') + commons >= 0
       /\ GrossTotal' > GrossTotal => (Unlocked + tranches) - GrossTotal' >= 0
  BY <1>2, <1>9, <1>12, <1>13, PoolAfter
<1>15. Unallocated' = (Unlocked + tranches) - GrossTotal'
  BY <1>8, PoolIs
<1>16. Refilled
  BY <1>14, <1>15 DEF Refilled
<1>17. Unallocated' + commons >= 0
  BY <1>14, <1>15
<1> QED
  BY <1>2, <1>4, <1>5, <1>6, <1>16, <1>17, HeadsPaid

-------------------------------------------------------------------------------
(* The calls of a seat. *)

LEMMA HoldLeaves ==
    ASSUME BudgetInv, NEW id \in holds, holds' = holds \ {id}, UNCHANGED <<payer, drawn, amount>>
    PROVE  /\ payer[id] \in known /\ payer[id] \in Seats /\ id \in Ids
           /\ \A s : s = payer[id] => HeldBy(s)' = HeldBy(s) - amount[id]
                                     /\ Drawn(s)' = Drawn(s) - drawn[id]
           /\ \A s : s # payer[id] => HeldBy(s)' = HeldBy(s) /\ Drawn(s)' = Drawn(s)
<1>1. payer[id] \in known /\ payer[id] \in Seats /\ id \in Ids
  BY SeatsKnown, BookTyped DEF BudgetInv, Calling
<1>2. ASSUME NEW s, s = payer[id]
      PROVE  HeldBy(s)' = HeldBy(s) - amount[id] /\ Drawn(s)' = Drawn(s) - drawn[id]
  <2>1. HoldsOf(s)' = HoldsOf(s) \ {id} /\ id \in HoldsOf(s)
    BY <1>2 DEF HoldsOf
  <2>2. IsFiniteSet(HoldsOf(s)) /\ \A x \in HoldsOf(s) : amount[x] \in Int /\ drawn[x] \in Int
    BY BookTyped DEF BudgetInv
  <2>3. SumOver(amount, HoldsOf(s) \ {id}) = SumOver(amount, HoldsOf(s)) - amount[id]
    BY <2>1, <2>2, SumRemove
  <2>4. SumOver(drawn, HoldsOf(s) \ {id}) = SumOver(drawn, HoldsOf(s)) - drawn[id]
    BY <2>1, <2>2, SumRemove
  <2>5. SumOver(amount', HoldsOf(s)') = SumOver(amount, HoldsOf(s) \ {id})
        /\ SumOver(drawn', HoldsOf(s)') = SumOver(drawn, HoldsOf(s) \ {id})
    BY <2>1
  <2> QED
    BY <2>3, <2>4, <2>5, BookSums
<1>3. ASSUME NEW s, s # payer[id] PROVE HeldBy(s)' = HeldBy(s) /\ Drawn(s)' = Drawn(s)
  <2>1. HoldsOf(s)' = HoldsOf(s)
    BY <1>3 DEF HoldsOf
  <2>2. SumOver(amount', HoldsOf(s)') = SumOver(amount, HoldsOf(s))
        /\ SumOver(drawn', HoldsOf(s)') = SumOver(drawn, HoldsOf(s))
    BY <2>1
  <2> QED
    BY <2>2, BookSums
<1> QED
  BY <1>1, <1>2, <1>3

LEMMA PaidPart ==
    ASSUME NEW g \in Nat, NEW h \in Nat, NEW d \in Nat, NEW m \in Nat, NEW k \in Nat, NEW a \in Nat,
           m <= h, k <= m, k <= d, g - h >= -d,
           NEW o, o = Larger(0, Smaller(a, g - (h - m)))
    PROVE  o \in Nat /\ o <= a /\ g - o >= 0 /\ (g - o) - (h - m) >= -(d - k)
<1> DEFINE free == g - (h - m)
<1>1. free \in Int /\ free >= k - d /\ free <= g
  OBVIOUS
<1>2. /\ o = 0 \/ o <= free
      /\ o \in Nat /\ o <= a
  BY <1>1 DEF Larger, Smaller
<1>3. (g - o) - (h - m) = free - o
  BY <1>2
<1> HIDE DEF free
<1>4. g - o >= 0
  BY <1>1, <1>2
<1>5. free - o >= -(d - k)
  <2>1. CASE o = 0
    BY <1>1, <2>1
  <2>2. CASE o <= free
    BY <1>1, <1>2, <2>2
  <2> QED
    BY <1>2, <2>1, <2>2
<1> QED
  BY <1>2, <1>3, <1>4, <1>5

(* What the seat pays of a call leaves its other holds what they were        *)
(* admitted to draw.                                                         *)
LEMMA OwnLimits ==
    ASSUME BudgetInv, NEW id \in holds, NEW actual \in Nat, NEW s, s = payer[id],
           NEW o, o = OwnPart(id, actual)
    PROVE  /\ o \in Nat /\ o <= actual
           /\ gross[s] \in Int /\ gross[s] - o >= 0
           /\ (gross[s] - o) - (HeldBy(s) - amount[id]) >= -(Drawn(s) - drawn[id])
           /\ s \in retired => o = 0 /\ amount[id] = 0
<1>1. id \in Ids /\ s \in Seats /\ id \in HoldsOf(s)
  BY BookTyped, SeatsKnown DEF BudgetInv, Calling, HoldsOf
<1>2. /\ gross[s] \in Int /\ HeldBy(s) \in Nat /\ Drawn(s) \in Nat
      /\ amount[id] \in Nat /\ drawn[id] \in Nat
      /\ amount[id] <= HeldBy(s) /\ drawn[id] <= Drawn(s)
  BY <1>1, BookTyped DEF BudgetInv
<1>3. gross[s] >= 0 /\ gross[s] - HeldBy(s) >= -Drawn(s) /\ drawn[id] <= amount[id]
  BY <1>1 DEF BudgetInv, Sound, Entitlement, Calling
<1>4. o = Larger(0, Smaller(actual, gross[s] - (HeldBy(s) - amount[id])))
  BY DEF OwnPart
<1>5. /\ o \in Nat /\ o <= actual /\ gross[s] - o >= 0
      /\ (gross[s] - o) - (HeldBy(s) - amount[id]) >= -(Drawn(s) - drawn[id])
  <2>1. gross[s] \in Nat
    BY <1>2, <1>3
  <2> QED
    BY <1>2, <1>3, <1>4, <2>1, PaidPart
<1>6. ASSUME s \in retired PROVE o = 0 /\ amount[id] = 0
  <2>1. gross[s] = 0 /\ HeldBy(s) = 0
    BY <1>6 DEF BudgetInv, Emptied
  <2> QED
    BY <1>2, <1>4, <2>1 DEF Larger, Smaller
<1> QED
  BY <1>2, <1>5, <1>6

(* Closing a hold, whatever becomes of its bill: the seats. *)
LEMMA SettleSeats ==
    ASSUME BudgetInv, NEW id \in holds, NEW actual \in Nat, SettleHold(id, actual), UNCHANGED amount,
           NEW o, o = OwnPart(id, actual)
    PROVE  /\ o \in Nat /\ o <= actual /\ commons' = commons + (actual - o) /\ holds' = holds \ {id}
           /\ UNCHANGED <<known, retired, order, lineage, payer, drawn>>
           /\ gross' \in [Seats -> Int] /\ \A s \in Seats \ known : gross'[s] = 0
           /\ GrossTotal' = GrossTotal - o
           /\ \A s \in Seats : Sound(s)'
           /\ \A s \in retired : Emptied(s)'
<1>1. PICK p : p = payer[id]
  OBVIOUS
<1>2. /\ gross' = [gross EXCEPT ![p] = gross[p] - o]
      /\ holds' = holds \ {id} /\ commons' = commons + (actual - o)
      /\ UNCHANGED <<known, retired, order, lineage, payer, drawn>>
  BY <1>1, BookTyped DEF SettleHold
<1>3. /\ p \in known /\ p \in Seats
      /\ HeldBy(p)' = HeldBy(p) - amount[id] /\ Drawn(p)' = Drawn(p) - drawn[id]
      /\ \A s : s # p => HeldBy(s)' = HeldBy(s) /\ Drawn(s)' = Drawn(s)
  BY <1>1, <1>2, HoldLeaves
<1>4. /\ o \in Nat /\ o <= actual /\ gross[p] \in Int /\ gross[p] - o >= 0
      /\ (gross[p] - o) - (HeldBy(p) - amount[id]) >= -(Drawn(p) - drawn[id])
      /\ p \in retired => o = 0 /\ amount[id] = 0
  BY <1>1, OwnLimits
<1>5. /\ gross' \in [Seats -> Int] /\ gross'[p] = gross[p] - o /\ GrossTotal' = GrossTotal - o
      /\ \A s \in Seats : s # p => gross'[s] = gross[s]
  <2>1. PICK d \in Int : d = -o /\ gross[p] + d = gross[p] - o
    BY <1>4
  <2>2. gross' = [gross EXCEPT ![p] = gross[p] + d]
    BY <1>2, <2>1
  <2>3. /\ gross' \in [Seats -> Int] /\ gross'[p] = gross[p] + d /\ GrossTotal' = GrossTotal + d
        /\ \A s \in Seats : s # p => gross'[s] = gross[s]
    BY <1>3, <2>2, GrossChange
  <2>4. GrossTotal \in Int
    BY BookTyped DEF BudgetInv
  <2>5. GrossTotal + d = GrossTotal - o
    BY <1>4, <2>1, <2>4
  <2> QED
    BY <2>1, <2>3, <2>5
<1>6. \A s \in Seats \ known : gross'[s] = 0
  BY <1>3, <1>5 DEF BudgetInv, BudgetTypeOK
<1>7. ASSUME NEW s \in Seats PROVE Sound(s)'
  <2>1. CASE s = p
    <3>1. gross'[p] >= 0 /\ gross'[p] - HeldBy(p)' >= -(Drawn(p)')
      BY <1>3, <1>4, <1>5
    <3> QED
      BY <2>1, <3>1 DEF Sound, Entitlement
  <2>2. CASE s # p
    <3>1. gross'[s] = gross[s] /\ HeldBy(s)' = HeldBy(s) /\ Drawn(s)' = Drawn(s)
      BY <1>3, <1>5, <2>2
    <3> QED
      BY <3>1 DEF BudgetInv, Sound, Entitlement
  <2> QED
    BY <2>1, <2>2
<1>8. ASSUME NEW s \in retired PROVE Emptied(s)'
  <2>1. gross[s] = 0 /\ HeldBy(s) = 0 /\ s \in Seats
    BY SeatsKnown DEF BudgetInv, Emptied
  <2>2. CASE s = p
    BY <1>3, <1>4, <1>5, <2>1, <2>2 DEF Emptied
  <2>3. CASE s # p
    BY <1>3, <1>5, <2>1, <2>3 DEF Emptied
  <2> QED
    BY <2>2, <2>3
<1> QED
  BY <1>2, <1>4, <1>5, <1>6, <1>7, <1>8

(* Closing a hold, whatever becomes of its bill: the book. *)
LEMMA Closed ==
    ASSUME BudgetInv, NEW id \in holds, NEW actual \in Nat,
           SettleHold(id, actual), Book(id, actual), IInv',
           uncertain' \subseteq bills', own' \in [Ids -> Nat],
           \A x \in uncertain' : payer[x] \in known /\ own'[x] <= amount[x],
           commons' >= SumOver(Unpaid', uncertain')
    PROVE  BudgetInv' /\ Refilled
<1>1. PICK o : o = OwnPart(id, actual)
  OBVIOUS
<1>2. id \in reservations
  BY DEF BudgetInv, BudgetTypeOK
<1>3. /\ balance' = balance - actual /\ reservations' = reservations \ {id}
      /\ UNCHANGED <<amount, released>>
  BY <1>2, BookStep DEF BudgetInv
<1>4. /\ o \in Nat /\ o <= actual /\ commons' = commons + (actual - o) /\ holds' = holds \ {id}
      /\ UNCHANGED <<known, retired, order, lineage, payer, drawn>>
      /\ gross' \in [Seats -> Int] /\ \A s \in Seats \ known : gross'[s] = 0
      /\ GrossTotal' = GrossTotal - o
      /\ \A s \in Seats : Sound(s)'
      /\ \A s \in retired : Emptied(s)'
  BY <1>1, <1>3, SettleSeats
<1>5. balance \in Int /\ Locked \in Nat /\ GrossTotal \in Int /\ commons \in Int
  BY BookTyped DEF BudgetInv, BudgetTypeOK, TypeOK
<1>6. BudgetTypeOK'
  <2>1. commons' \in Int /\ holds' \subseteq reservations' /\ Placed' = Placed
    BY <1>3, <1>4, <1>5 DEF BudgetInv, BudgetTypeOK, Placed
  <2> QED
    BY <1>4, <2>1 DEF BudgetInv, BudgetTypeOK, IInv
<1>7. Calling'
  <2>1. \A x \in holds : payer[x] \in known /\ drawn[x] <= amount[x]
    BY DEF BudgetInv, Calling
  <2> QED
    BY <1>3, <1>4, <2>1 DEF Calling
<1>8. NothingMinted'
  <2>1. Unlocked' = Unlocked - actual /\ Unlocked \in Int
    BY <1>3, <1>5 DEF Unlocked, Locked
  <2>2. (Unlocked - GrossTotal) + commons >= 0
    BY PoolIs DEF BudgetInv, NothingMinted
  <2>3. \A u, p, c \in Int : (u - p) + c >= 0 => ((u - actual) - (p - o)) + (c + (actual - o)) >= 0
    BY <1>4
  <2>4. ((Unlocked - actual) - (GrossTotal - o)) + (commons + (actual - o)) >= 0
    BY <1>5, <2>1, <2>2, <2>3
  <2> QED
    BY <1>4, <2>1, <2>4, PoolIs DEF NothingMinted
<1>9. Refilled
  BY <1>4, <1>5 DEF Refilled
<1> QED
  BY <1>4, <1>6, <1>7, <1>8, <1>9 DEF BudgetInv

LEMMA SeatCommitStep ==
    ASSUME BudgetInv, NEW id \in holds,
           \/ \E actual \in 0 .. amount[id] : SeatCommit(id, actual)
           \/ \E claim \in 0 .. MaxReport : SeatCommitReported(id, claim)
    PROVE  BudgetInv' /\ Refilled
<1>1. id \in Ids /\ amount[id] \in Nat /\ id \in reservations
  BY BookTyped DEF BudgetInv, BudgetTypeOK
<1>2. PICK actual \in Nat :
         /\ SettleHold(id, actual) /\ Book(id, actual) /\ UNCHANGED <<uncertain, own, billVars>>
         /\ DieIf(FloorReached(balance - actual, provisional))
  <2>1. CASE \E actual \in 0 .. amount[id] : SeatCommit(id, actual)
    BY <1>1, <2>1 DEF SeatCommit, Commit
  <2>2. CASE \E claim \in 0 .. MaxReport : SeatCommitReported(id, claim)
    <3>1. \A claim \in 0 .. MaxReport : Booked(id, claim) \in Nat
      BY <1>1, MoneyAssumption DEF Booked
    <3> QED
      BY <2>2, <3>1 DEF SeatCommitReported, CommitReported
  <2> QED
    BY <2>1, <2>2
<1>3. IInv'
  BY <1>1, <1>2, CommitStep DEF BudgetInv
<1>4. UNCHANGED <<uncertain, own, bills, amount>>
  BY <1>1, <1>2, BookStep DEF BudgetInv, billVars
<1>5. uncertain' \subseteq bills' /\ own' \in [Ids -> Nat]
  BY <1>4 DEF BudgetInv, BudgetTypeOK
<1>6. \A x \in uncertain' : payer[x] \in known /\ own'[x] <= amount[x]
  BY <1>4 DEF BudgetInv, Calling
<1>7. commons' >= SumOver(Unpaid', uncertain')
  <2>1. Unpaid' = Unpaid
    BY <1>4 DEF Unpaid
  <2>2. PICK o : o = OwnPart(id, actual)
    OBVIOUS
  <2>3. o \in Nat /\ o <= actual /\ commons' = commons + (actual - o)
    BY <1>2, <1>4, <2>2, SettleSeats
  <2>4. SumOver(Unpaid, uncertain) \in Int /\ commons \in Int
    BY SumIsInt, BookTyped, CommonsBears DEF BudgetInv
  <2>5. commons >= SumOver(Unpaid, uncertain)
    BY DEF BudgetInv, Calling
  <2>6. \A c, t \in Int : c >= t => c + (actual - o) >= t
    BY <2>3
  <2> QED
    BY <1>4, <2>1, <2>3, <2>4, <2>5, <2>6
<1> QED
  BY <1>2, <1>3, <1>5, <1>6, <1>7, Closed

LEMMA SeatCommitUncertainStep ==
    ASSUME BudgetInv, NEW id \in holds, SeatCommitUncertain(id)
    PROVE  BudgetInv' /\ Refilled
<1>1. PICK o : o = OwnPart(id, amount[id])
  OBVIOUS
<1>2. /\ id \in Ids /\ amount[id] \in Nat /\ id \in reservations /\ payer[id] \in known
      /\ id \notin uncertain /\ id \notin bills
  BY BookTyped DEF BudgetInv, BudgetTypeOK, Calling, IInv, BilledOnce
<1>3. /\ CommitUncertain(id) /\ SettleHold(id, amount[id])
      /\ uncertain' = uncertain \cup {id} /\ own' = [own EXCEPT ![id] = o]
  BY <1>1 DEF SeatCommitUncertain
<1>4. IInv' /\ Book(id, amount[id]) /\ bills' = bills \cup {id}
  BY <1>2, <1>3, UncertainStep DEF BudgetInv, CommitUncertain
<1>5. UNCHANGED amount
  BY <1>2, <1>4, BookStep DEF BudgetInv
<1>6. o \in Nat /\ o <= amount[id] /\ commons' = commons + (amount[id] - o)
  BY <1>1, <1>2, <1>3, <1>5, SettleSeats
<1>7. /\ own' \in [Ids -> Nat] /\ own'[id] = o /\ \A x \in Ids : x # id => own'[x] = own[x]
      /\ uncertain' \subseteq bills'
  BY <1>2, <1>3, <1>4, <1>6 DEF BudgetInv, BudgetTypeOK
<1>8. \A x \in uncertain' : payer[x] \in known /\ own'[x] <= amount[x]
  <2>1. \A x \in uncertain : x \in Ids /\ x # id /\ payer[x] \in known /\ own[x] <= amount[x]
    BY <1>2, BookTyped DEF BudgetInv, Calling
  <2> QED
    BY <1>2, <1>3, <1>6, <1>7, <2>1
<1>9. commons' >= SumOver(Unpaid', uncertain')
  <2>1. /\ \A x \in Ids : amount[x] \in Int /\ own[x] \in Int /\ own'[x] \in Int
        /\ IsFiniteSet(Ids) /\ uncertain \in SUBSET Ids /\ IsFiniteSet(uncertain)
    BY <1>7, BookTyped DEF BudgetInv
  <2>2. PICK bill : bill = Unpaid'
    OBVIOUS
  <2>3. /\ \A x \in Ids : bill[x] \in Int
        /\ bill[id] = amount[id] - o
        /\ \A x \in uncertain : Unpaid[x] \in Int /\ bill[x] = Unpaid[x]
    BY <1>2, <1>5, <1>7, <2>1, <2>2 DEF Unpaid
  <2>4. SumOver(bill, uncertain) = SumOver(Unpaid, uncertain)
    BY <2>1, <2>3, SumSame
  <2>5. SumOver(bill, uncertain \cup {id}) = SumOver(bill, uncertain) + bill[id]
    BY <1>2, <2>1, <2>3, SumAdd
  <2>6. SumOver(Unpaid, uncertain) \in Int /\ commons \in Int
    BY <2>1, <2>3, SumIsInt, CommonsBears
  <2>7. commons >= SumOver(Unpaid, uncertain)
    BY DEF BudgetInv, Calling
  <2>8. \A c, t \in Int : c >= t => c + (amount[id] - o) >= t + (amount[id] - o)
    BY <1>2, <1>6
  <2>9. SumOver(Unpaid', uncertain') = SumOver(Unpaid, uncertain) + (amount[id] - o)
    BY <1>3, <2>2, <2>3, <2>4, <2>5
  <2> QED
    BY <1>6, <2>6, <2>7, <2>8, <2>9
<1> QED
  BY <1>2, <1>3, <1>4, <1>7, <1>8, <1>9, Closed

(* What is given back of a ceiling, to its seat and to the commons. *)
LEMMA GivenBack ==
    ASSUME NEW back \in Nat, NEW paid \in Nat, NEW m \in Nat, NEW u \in Int, NEW c \in Int,
           NEW t \in Int, back <= m, paid <= m, u + c >= 0, c >= t,
           NEW r \in Nat, r <= back, r <= paid, r > 0 => r <= u + back
    PROVE  /\ (u + back - r) + (c - Larger(0, back - paid)) >= 0
           /\ c - Larger(0, back - paid) >= t - (m - paid)
           /\ c - Larger(0, back - paid) \in Int
           /\ r > 0 => u + back - r >= 0
  BY DEF Larger

LEMMA SettleUncertainBook ==
    ASSUME BudgetInv, NEW id \in uncertain, NEW actual \in 0 .. amount[id],
           SeatSettleUncertain(id, actual)
    PROVE  BudgetInv' /\ Refilled
<1> DEFINE back == amount[id] - actual
<1>1. PICK p : p = payer[id]
  OBVIOUS
<1>2. PICK r : r = Refund(id, back)
  OBVIOUS
<1>3. /\ id \in Ids /\ amount[id] \in Nat /\ own[id] \in Nat /\ own[id] <= amount[id]
      /\ p \in known /\ p \in Seats /\ id \in bills
  BY <1>1, BookTyped, SeatsKnown DEF BudgetInv, BudgetTypeOK, Calling
<1>4. back \in Nat /\ back <= amount[id]
  BY <1>3
<1>5. /\ SettleUncertain(id, actual) /\ uncertain' = uncertain \ {id}
      /\ gross' = [gross EXCEPT ![p] = gross[p] + r]
      /\ commons' = commons - Larger(0, back - own[id])
      /\ UNCHANGED <<known, retired, order, lineage, holds, payer, own, drawn>>
  BY <1>1, <1>2 DEF SeatSettleUncertain
<1>6. /\ IInv' /\ bills' = bills \ {id} /\ balance' = balance + back
      /\ UNCHANGED <<amount, reservations, released, settlements>>
  <2>1. IInv'
    BY <1>3, <1>5, SettleUncertainStep DEF BudgetInv
  <2> QED
    BY <1>5, <2>1 DEF SettleUncertain, holdVars, scheduleVars
<1> HIDE DEF back
<1>7. /\ Unlocked \in Int /\ GrossTotal \in Int /\ commons \in Int /\ Unallocated \in Int
      /\ balance \in Int /\ Locked \in Nat /\ \A s \in Seats : gross[s] \in Int
  BY BookTyped, CommonsBears DEF BudgetInv, BudgetTypeOK, TypeOK
<1>8. /\ r \in Nat /\ r \in Int /\ r <= back /\ r <= own[id] /\ (r > 0 => r <= Unallocated + back)
      /\ p \in retired => r = 0
  BY <1>1, <1>2, <1>3, <1>4, <1>7 DEF Refund, Larger, Smaller
<1>9. /\ gross' \in [Seats -> Int] /\ gross'[p] = gross[p] + r /\ GrossTotal' = GrossTotal + r
      /\ \A s \in Seats : s # p => gross'[s] = gross[s]
  BY <1>3, <1>5, <1>8, GrossChange
<1>10. Unallocated' = Unallocated + back - r
  <2>1. Unlocked' = Unlocked + back
    BY <1>4, <1>6, <1>7 DEF Unlocked, Locked
  <2>2. \A u, g \in Int : (u + back) - (g + r) = (u - g) + back - r
    BY <1>4, <1>8
  <2> QED
    BY <1>7, <1>9, <2>1, <2>2, PoolIs
<1>11. PICK open : open = SumOver(Unpaid, uncertain)
  OBVIOUS
<1>12. open \in Int /\ commons >= open /\ Unallocated + commons >= 0
  BY <1>11, SumIsInt, BookTyped DEF BudgetInv, Calling, NothingMinted
<1>13. /\ (Unallocated + back - r) + commons' >= 0
       /\ commons' >= open - (amount[id] - own[id]) /\ commons' \in Int
       /\ r > 0 => Unallocated + back - r >= 0
  BY <1>3, <1>4, <1>5, <1>7, <1>8, <1>12, GivenBack
<1>14. /\ \A s : HoldsOf(s)' = HoldsOf(s) /\ HeldBy(s)' = HeldBy(s) /\ Drawn(s)' = Drawn(s)
       /\ Unpaid' = Unpaid
  <2>1. \A s : HoldsOf(s)' = HoldsOf(s)
    BY <1>5 DEF HoldsOf
  <2> QED
    BY <1>5, <1>6, <2>1, BookSums DEF Unpaid
<1>15. BudgetTypeOK'
  <2>1. \A s \in Seats \ known' : gross'[s] = 0
    BY <1>3, <1>5, <1>9 DEF BudgetInv, BudgetTypeOK
  <2>2. Placed' = Placed /\ uncertain' \subseteq bills'
    BY <1>5, <1>6 DEF Placed, BudgetInv, BudgetTypeOK
  <2> QED
    BY <1>5, <1>6, <1>9, <1>13, <2>1, <2>2 DEF BudgetInv, BudgetTypeOK, IInv
<1>16. Calling'
  <2>1. SumOver(Unpaid, uncertain \ {id}) = open - (amount[id] - own[id])
    <3>1. IsFiniteSet(uncertain) /\ \A x \in uncertain : Unpaid[x] \in Int
      BY BookTyped DEF BudgetInv
    <3> QED
      BY <1>3, <1>11, <3>1, SumRemove DEF Unpaid
  <2> QED
    BY <1>5, <1>6, <1>13, <1>14, <2>1 DEF BudgetInv, Calling
<1>17. ASSUME NEW s \in Seats PROVE Sound(s)'
  <2>1. gross[s] \in Int /\ gross'[s] >= gross[s] /\ gross'[s] \in Int
    BY <1>7, <1>8, <1>9
  <2>2. /\ HeldBy(s) \in Nat /\ Drawn(s) \in Nat
        /\ gross[s] >= 0 /\ gross[s] - HeldBy(s) >= -Drawn(s)
    BY BookTyped DEF BudgetInv, Sound, Entitlement
  <2>3. gross'[s] >= 0 /\ gross'[s] - HeldBy(s) >= -Drawn(s)
    BY <2>1, <2>2
  <2> QED
    BY <1>14, <2>3 DEF Sound, Entitlement
<1>18. ASSUME NEW s \in retired' PROVE Emptied(s)'
  <2>1. gross[s] = 0 /\ HeldBy(s) = 0 /\ s \in Seats /\ s \in retired
    BY <1>5, SeatsKnown DEF BudgetInv, Emptied
  <2> QED
    BY <1>8, <1>9, <1>14, <2>1 DEF Emptied
<1>19. NothingMinted' /\ Refilled
  BY <1>7, <1>8, <1>9, <1>10, <1>13 DEF NothingMinted, Refilled
<1> QED
  BY <1>5, <1>6, <1>15, <1>16, <1>17, <1>18, <1>19 DEF BudgetInv

LEMMA SeatReleaseStep ==
    ASSUME BudgetInv, NEW id \in holds, SeatRelease(id)
    PROVE  BudgetInv' /\ Refilled
<1>1. PICK p : p = payer[id]
  OBVIOUS
<1>2. id \in reservations /\ id \in Ids
  BY BookTyped DEF BudgetInv, BudgetTypeOK
<1>3. /\ ReleaseHold(id) /\ holds' = holds \ {id}
      /\ UNCHANGED <<known, gross, retired, order, lineage, payer, uncertain, own, commons, drawn>>
  BY DEF SeatRelease, bookVars
<1>4. /\ IInv' /\ reservations' = reservations \ {id}
      /\ UNCHANGED <<amount, bills, balance, released, settlements>>
  <2>1. IInv'
    BY <1>2, <1>3, ReleaseHoldStep DEF BudgetInv
  <2> QED
    BY <1>3, <2>1 DEF ReleaseHold, moneyVars, billVars, scheduleVars
<1>5. /\ HeldBy(p)' = HeldBy(p) - amount[id] /\ Drawn(p)' = Drawn(p) - drawn[id]
      /\ \A s : s # p => HeldBy(s)' = HeldBy(s) /\ Drawn(s)' = Drawn(s)
  BY <1>1, <1>3, <1>4, HoldLeaves
<1>6. /\ amount[id] \in Nat /\ drawn[id] \in Nat /\ drawn[id] <= amount[id] /\ id \in HoldsOf(p)
      /\ amount[id] <= HeldBy(p)
  BY <1>1, <1>2, BookTyped DEF BudgetInv, Calling, HoldsOf
<1>7. Unpaid' = Unpaid /\ GrossTotal' = GrossTotal /\ Unlocked' = Unlocked
  BY <1>3, <1>4, BookSums DEF Unpaid, Unlocked, Locked
<1>8. BudgetTypeOK' /\ Calling'
  <2>1. Placed' = Placed /\ holds' \subseteq reservations'
    BY <1>3, <1>4 DEF Placed, BudgetInv, BudgetTypeOK
  <2> QED
    BY <1>3, <1>4, <1>7, <2>1 DEF BudgetInv, BudgetTypeOK, IInv, Calling
<1>9. ASSUME NEW s \in Seats PROVE Sound(s)'
  <2>1. /\ HeldBy(s) \in Nat /\ Drawn(s) \in Nat /\ gross[s] \in Int
        /\ gross[s] >= 0 /\ gross[s] - HeldBy(s) >= -Drawn(s)
    BY BookTyped DEF BudgetInv, Sound, Entitlement
  <2>2. CASE s = p
    <3>1. gross[s] - (HeldBy(s) - amount[id]) >= -(Drawn(s) - drawn[id])
      BY <1>6, <2>1
    <3> QED
      BY <1>3, <1>5, <2>1, <2>2, <3>1 DEF Sound, Entitlement
  <2>3. CASE s # p
    BY <1>3, <1>5, <2>1, <2>3 DEF Sound, Entitlement
  <2> QED
    BY <2>2, <2>3
<1>10. ASSUME NEW s \in retired' PROVE Emptied(s)'
  <2>1. gross[s] = 0 /\ HeldBy(s) = 0
    BY <1>3 DEF BudgetInv, Emptied
  <2>2. s = p => amount[id] = 0
    BY <1>6, <2>1
  <2> QED
    BY <1>3, <1>5, <2>1, <2>2 DEF Emptied
<1>11. NothingMinted' /\ Refilled
  <2>1. GrossTotal \in Int
    BY BookTyped DEF BudgetInv
  <2> QED
    BY <1>3, <1>7, <2>1, PoolIs DEF BudgetInv, NothingMinted, Refilled
<1> QED
  BY <1>3, <1>4, <1>8, <1>9, <1>10, <1>11 DEF BudgetInv

(* A reservation is a fresh id of the wallet. *)
LEMMA Fresh ==
    ASSUME BudgetInv, NEW a \in Amounts, NEW kind \in Kinds, Reserve(a, kind)
    PROVE  /\ IInv' /\ a \in Nat /\ nextReservation \in Ids
           /\ nextReservation \notin holds /\ nextReservation \notin uncertain
           /\ amount'[nextReservation] = a
           /\ \A id \in Ids : id # nextReservation => amount'[id] = amount[id]
           /\ reservations' = reservations \cup {nextReservation}
           /\ UNCHANGED <<bills, balance, released, settlements>>
<1>1. IInv'
  BY ReserveStep DEF BudgetInv
<1>2. /\ nextReservation < MaxHolds /\ amount' = [amount EXCEPT ![nextReservation] = a]
      /\ reservations' = reservations \cup {nextReservation}
      /\ UNCHANGED <<bills, balance, released, settlements>>
  BY DEF Reserve, moneyVars, billVars, scheduleVars
<1>3. a \in Nat /\ nextReservation \in Ids /\ amount \in [Ids -> Nat]
  BY <1>2, MoneyAssumption DEF BudgetInv, BudgetTypeOK, TypeOK, Ids
<1>4. nextReservation \notin reservations /\ nextReservation \notin bills
  BY MoneyAssumption DEF BudgetInv, BudgetTypeOK, TypeOK
<1> QED
  BY <1>1, <1>2, <1>3, <1>4 DEF BudgetInv, BudgetTypeOK

(* A hold drew what its amount exceeds the seat's entitlement by. *)
LEMMA DrawnBy ==
    ASSUME NEW e \in Int, NEW d \in Nat, NEW a \in Nat, e >= -d,
           NEW x, x = Larger(0, a - Larger(0, e))
    PROVE  x \in Nat /\ x <= a /\ e - a >= -(d + x)
<1>1. CASE e >= 0
  BY <1>1 DEF Larger
<1>2. CASE ~(e >= 0)
  BY <1>2 DEF Larger
<1> QED
  BY <1>1, <1>2

LEMMA SeatReserveStep ==
    ASSUME BudgetInv, NEW s \in Seats, NEW a \in Amounts, NEW kind \in {"historied", "unhistoried"},
           NEW extra, SeatReserve(s, a, kind, extra)
    PROVE  BudgetInv' /\ Refilled
<1>1. PICK new : new = nextReservation
  OBVIOUS
<1>2. PICK x : x = Larger(0, a - Larger(0, Entitlement(s)))
  OBVIOUS
<1>3. /\ s \in known /\ a <= Cover(s, extra) /\ Reserve(a, kind) /\ kind \in Kinds
      /\ holds' = holds \cup {new} /\ payer' = [payer EXCEPT ![new] = s]
      /\ drawn' = [drawn EXCEPT ![new] = x]
      /\ UNCHANGED <<known, gross, retired, order, lineage, uncertain, own, commons>>
  BY <1>1, <1>2 DEF SeatReserve, bookVars, Kinds
<1>4. /\ IInv' /\ a \in Nat /\ new \in Ids /\ new \notin holds /\ new \notin uncertain
      /\ amount'[new] = a /\ \A id \in Ids : id # new => amount'[id] = amount[id]
      /\ reservations' = reservations \cup {new}
      /\ UNCHANGED <<bills, balance, released, settlements>>
  BY <1>1, <1>3, Fresh
<1>5. /\ Entitlement(s) \in Int /\ Drawn(s) \in Nat /\ Entitlement(s) >= -Drawn(s)
  BY BookTyped DEF BudgetInv, Sound
<1>6. x \in Nat /\ x <= a /\ Entitlement(s) - a >= -(Drawn(s) + x)
  BY <1>2, <1>4, <1>5, DrawnBy
<1>7. /\ payer' \in [Ids -> Seats] /\ payer'[new] = s /\ \A id \in Ids : id # new => payer'[id] = payer[id]
      /\ drawn' \in [Ids -> Nat] /\ drawn'[new] = x
      /\ \A id \in Ids : id # new => drawn'[id] = drawn[id]
  BY <1>3, <1>4, <1>6 DEF BudgetInv, BudgetTypeOK
<1>8. /\ holds \subseteq Ids /\ uncertain \subseteq Ids /\ IsFiniteSet(Ids)
      /\ \A id \in Ids : amount[id] \in Int /\ drawn[id] \in Int
      /\ \A id \in Ids : amount'[id] \in Int /\ drawn'[id] \in Int
  <2>1. /\ holds \subseteq Ids /\ uncertain \subseteq Ids /\ IsFiniteSet(Ids)
        /\ \A id \in Ids : amount[id] \in Nat /\ drawn[id] \in Nat
    BY BookTyped DEF BudgetInv
  <2> QED
    BY <1>4, <1>7, <2>1
<1>9. PICK m : m = amount'
  OBVIOUS
<1>10. PICK d : d = drawn'
  OBVIOUS
<1>11. ASSUME NEW t PROVE SumOver(m, HoldsOf(t)) = HeldBy(t) /\ SumOver(d, HoldsOf(t)) = Drawn(t)
  <2>1. IsFiniteSet(HoldsOf(t)) /\ HoldsOf(t) \subseteq holds
    BY BookTyped DEF BudgetInv
  <2>2. \A id \in HoldsOf(t) : /\ amount[id] \in Int /\ m[id] = amount[id]
                               /\ drawn[id] \in Int /\ d[id] = drawn[id]
    BY <1>4, <1>7, <1>8, <1>9, <1>10, <2>1
  <2>3. SumOver(m, HoldsOf(t)) = SumOver(amount, HoldsOf(t))
    BY <2>1, <2>2, SumSame
  <2>4. SumOver(d, HoldsOf(t)) = SumOver(drawn, HoldsOf(t))
    BY <2>1, <2>2, SumSame
  <2> QED
    BY <2>3, <2>4, BookSums
<1>12. HeldBy(s)' = HeldBy(s) + a /\ Drawn(s)' = Drawn(s) + x
  <2>1. HoldsOf(s)' = HoldsOf(s) \cup {new} /\ HoldsOf(s) \in SUBSET Ids /\ new \notin HoldsOf(s)
    BY <1>3, <1>4, <1>7, <1>8 DEF HoldsOf
  <2>2. SumOver(m, HoldsOf(s) \cup {new}) = SumOver(m, HoldsOf(s)) + m[new]
    <3>1. \A id \in Ids : m[id] \in Int
      BY <1>8, <1>9
    <3> QED
      BY <1>4, <1>8, <2>1, <3>1, SumAdd
  <2>3. SumOver(d, HoldsOf(s) \cup {new}) = SumOver(d, HoldsOf(s)) + d[new]
    <3>1. \A id \in Ids : d[id] \in Int
      BY <1>8, <1>10
    <3> QED
      BY <1>4, <1>8, <2>1, <3>1, SumAdd
  <2>4. SumOver(amount', HoldsOf(s)') = SumOver(m, HoldsOf(s) \cup {new})
        /\ SumOver(drawn', HoldsOf(s)') = SumOver(d, HoldsOf(s) \cup {new})
    BY <1>9, <1>10, <2>1
  <2> QED
    BY <1>4, <1>7, <1>9, <1>10, <1>11, <2>2, <2>3, <2>4, BookSums
<1>13. ASSUME NEW t, t # s PROVE HeldBy(t)' = HeldBy(t) /\ Drawn(t)' = Drawn(t)
  <2>1. HoldsOf(t)' = HoldsOf(t)
    BY <1>3, <1>4, <1>7, <1>8, <1>13 DEF HoldsOf
  <2>2. SumOver(amount', HoldsOf(t)') = SumOver(m, HoldsOf(t))
        /\ SumOver(drawn', HoldsOf(t)') = SumOver(d, HoldsOf(t))
    BY <1>9, <1>10, <2>1
  <2> QED
    BY <1>11, <2>2, BookSums
<1>14. BudgetTypeOK'
  <2>1. Placed' = Placed /\ holds' \subseteq reservations'
    BY <1>3, <1>4 DEF Placed, BudgetInv, BudgetTypeOK
  <2> QED
    BY <1>3, <1>4, <1>7, <2>1 DEF BudgetInv, BudgetTypeOK, IInv
<1>15. Calling'
  <2>1. SumOver(Unpaid', uncertain') = SumOver(Unpaid, uncertain)
    <3>1. PICK bill : bill = Unpaid'
      OBVIOUS
    <3>2. IsFiniteSet(uncertain) /\ \A id \in uncertain : Unpaid[id] \in Int /\ bill[id] = Unpaid[id]
      BY <1>3, <1>4, <1>8, <3>1, BookTyped DEF BudgetInv, Unpaid
    <3>3. SumOver(bill, uncertain) = SumOver(Unpaid, uncertain)
      BY <3>2, SumSame
    <3> QED
      BY <1>3, <3>1, <3>3
  <2>2. \A id \in holds' \cup uncertain' : payer'[id] \in known'
    BY <1>3, <1>4, <1>7, <1>8 DEF BudgetInv, Calling
  <2>3. \A id \in holds' : drawn'[id] <= amount'[id]
    BY <1>3, <1>4, <1>6, <1>7, <1>8 DEF BudgetInv, Calling
  <2>4. \A id \in uncertain' : own'[id] <= amount'[id]
    BY <1>3, <1>4, <1>8 DEF BudgetInv, Calling
  <2> QED
    BY <1>3, <2>1, <2>2, <2>3, <2>4 DEF BudgetInv, Calling
<1>16. ASSUME NEW t \in Seats PROVE Sound(t)'
  <2>1. CASE t = s
    <3>1. gross[s] \in Int /\ HeldBy(s) \in Nat /\ gross[s] >= 0 /\ Entitlement(s) = gross[s] - HeldBy(s)
      BY BookTyped DEF BudgetInv, Sound, Entitlement
    <3>2. gross[s] - (HeldBy(s) + a) >= -(Drawn(s) + x)
      BY <1>4, <1>5, <1>6, <3>1
    <3> QED
      BY <1>3, <1>12, <2>1, <3>1, <3>2 DEF Sound, Entitlement
  <2>2. CASE t # s
    BY <1>3, <1>13, <2>2 DEF BudgetInv, Sound, Entitlement
  <2> QED
    BY <2>1, <2>2
<1>17. ASSUME NEW t \in retired' PROVE Emptied(t)'
  <2>1. t \in retired /\ gross[t] = 0 /\ HeldBy(t) = 0
    BY <1>3 DEF BudgetInv, Emptied
  <2>2. t = s => a = 0
    BY <1>3, <1>4, <2>1 DEF Cover
  <2> QED
    BY <1>3, <1>12, <1>13, <2>1, <2>2 DEF Emptied
<1>18. NothingMinted' /\ Refilled
  <2>1. GrossTotal' = GrossTotal /\ Unlocked' = Unlocked /\ GrossTotal \in Int
    BY <1>3, <1>4, BookSums, BookTyped DEF BudgetInv, Unlocked, Locked
  <2> QED
    BY <1>3, <2>1, PoolIs DEF BudgetInv, NothingMinted, Refilled
<1> QED
  BY <1>3, <1>4, <1>14, <1>15, <1>16, <1>17, <1>18 DEF BudgetInv

-------------------------------------------------------------------------------
(* The shared meter and the wallet's own steps. *)

LEMMA BookRests ==
    ASSUME BudgetInv, IInv',
           UNCHANGED <<known, gross, retired, order, lineage, holds, payer, uncertain, own, drawn>>,
           \A id \in holds \cup uncertain : amount'[id] = amount[id],
           holds \subseteq reservations', uncertain \subseteq bills', UNCHANGED released,
           NEW d \in Nat, balance' = balance - d, commons' = commons + d
    PROVE  BudgetInv' /\ Refilled
<1>1. CallsRest /\ Placed' = Placed /\ GrossTotal' = GrossTotal
  BY BookSums DEF CallsRest, Placed
<1>2. /\ balance \in Int /\ Locked \in Nat /\ GrossTotal \in Int /\ commons \in Int
      /\ \A s \in Seats : gross[s] \in Int
  BY BookTyped, CommonsBears DEF BudgetInv, BudgetTypeOK, TypeOK
<1>3. SeatTypes
  BY <1>1, <1>2 DEF BudgetInv, BudgetTypeOK, SeatTypes
<1>4. Unallocated' + commons' >= 0 /\ commons' >= commons
  <2>1. ((balance - Locked) - GrossTotal) + commons >= 0
    BY PoolIs DEF BudgetInv, NothingMinted, Unlocked
  <2>2. \A b, l, g, c \in Int : ((b - l) - g) + c >= 0 => (((b - d) - l) - g) + (c + d) >= 0
    OBVIOUS
  <2>3. (((balance - d) - Locked) - GrossTotal) + (commons + d) >= 0
    BY <1>2, <2>1, <2>2
  <2>4. Unallocated' = ((balance - d) - Locked) - GrossTotal
    BY <1>1, PoolIs DEF Unlocked, Locked
  <2> QED
    BY <1>2, <2>3, <2>4
<1>5. \A s \in Seats : gross'[s] >= gross[s]
  BY <1>2
<1>6. \A s \in retired' : gross'[s] = 0 /\ HeldBy(s) = 0
  BY DEF BudgetInv, Emptied
<1>7. Refilled
  BY <1>1, <1>2 DEF Refilled
<1> QED
  BY <1>1, <1>3, <1>4, <1>5, <1>6, <1>7, BookMove

LEMMA SharedStep ==
    ASSUME BudgetInv,
           \/ \E a \in Amounts : SharedReserve(a)
           \/ \E id \in reservations : \/ \E claim \in 0 .. MaxReport : SharedCommit(id, claim)
                                       \/ SharedRelease(id)
    PROVE  BudgetInv' /\ Refilled
<1>0. /\ UNCHANGED <<known, gross, retired, order, lineage, holds, payer, uncertain, own, drawn>>
      /\ balance - 0 = balance /\ commons + 0 = commons
      /\ holds \subseteq Ids /\ uncertain \subseteq Ids
      /\ holds \subseteq reservations /\ uncertain \subseteq bills
  <2>1. UNCHANGED <<known, gross, retired, order, lineage, holds, payer, uncertain, own, drawn>>
    BY DEF SharedReserve, SharedCommit, SharedRelease, bookVars, seatHoldVars
  <2>2. balance \in Int /\ commons \in Int /\ holds \subseteq reservations /\ uncertain \subseteq bills
    BY DEF BudgetInv, BudgetTypeOK, TypeOK
  <2>3. holds \subseteq Ids /\ uncertain \subseteq Ids
    BY BookTyped DEF BudgetInv
  <2> QED
    BY <2>1, <2>2, <2>3
<1>1. ASSUME NEW a \in Amounts, SharedReserve(a) PROVE BudgetInv' /\ Refilled
  <2>1. Reserve(a, "fees") /\ "fees" \in Kinds /\ UNCHANGED commons
    BY <1>1 DEF SharedReserve, Kinds
  <2>2. /\ IInv' /\ UNCHANGED <<bills, balance, released>>
        /\ reservations \subseteq reservations'
        /\ \A id \in holds \cup uncertain : amount'[id] = amount[id]
    BY <1>0, <2>1, Fresh
  <2>3. balance' = balance - 0 /\ commons' = commons + 0
    BY <1>0, <2>1, <2>2
  <2>4. holds \subseteq reservations' /\ uncertain \subseteq bills'
    BY <1>0, <2>2
  <2> QED
    BY <1>0, <2>2, <2>3, <2>4, BookRests
<1>2. ASSUME NEW id \in reservations, NEW claim \in 0 .. MaxReport, SharedCommit(id, claim)
      PROVE  BudgetInv' /\ Refilled
  <2>1. id \in Ids /\ amount[id] \in Nat
    BY HoldTyped DEF BudgetInv, IInv
  <2>2. PICK d \in Nat : d = Booked(id, claim)
    BY <2>1, MoneyAssumption DEF Booked
  <2>3. /\ id \notin holds /\ Book(id, d) /\ DieIf(FloorReached(balance - d, provisional))
        /\ UNCHANGED <<bills, provisional>> /\ commons' = commons + d
    BY <1>2, <2>2 DEF SharedCommit, CommitReported, billVars
  <2>4. IInv'
    BY <2>3, CommitStep DEF BudgetInv, billVars
  <2>5. /\ balance' = balance - d /\ reservations' = reservations \ {id}
        /\ UNCHANGED <<amount, released>>
    BY <2>3, BookStep DEF BudgetInv
  <2>6. holds \subseteq reservations' /\ uncertain \subseteq bills'
    BY <1>0, <2>3, <2>5
  <2>7. \A x \in holds \cup uncertain : amount'[x] = amount[x]
    BY <2>5
  <2> QED
    BY <1>0, <2>3, <2>4, <2>5, <2>6, <2>7, BookRests
<1>3. ASSUME NEW id \in reservations, SharedRelease(id) PROVE BudgetInv' /\ Refilled
  <2>1. id \notin holds /\ ReleaseHold(id) /\ UNCHANGED commons
    BY <1>3 DEF SharedRelease
  <2>2. IInv'
    BY <2>1, ReleaseHoldStep DEF BudgetInv
  <2>3. reservations' = reservations \ {id} /\ UNCHANGED <<amount, bills, balance, released>>
    BY <2>1 DEF ReleaseHold, moneyVars, billVars, scheduleVars
  <2>4. balance' = balance - 0 /\ commons' = commons + 0
    BY <1>0, <2>1, <2>3
  <2>5. holds \subseteq reservations' /\ uncertain \subseteq bills'
    BY <1>0, <2>1, <2>3
  <2>6. \A x \in holds \cup uncertain : amount'[x] = amount[x]
    BY <2>3
  <2> QED
    BY <1>0, <2>2, <2>3, <2>4, <2>5, <2>6, BookRests
<1> QED
  BY <1>1, <1>2, <1>3

LEMMA RestStep ==
    ASSUME BudgetInv, WorldStep \/ UNCHANGED bvars
    PROVE  BudgetInv' /\ Refilled
<1>1. IInv'
  <2>1. CASE WorldStep
    <3>1. Tick \/ Launch \/ EndIfDead \/ \E accrued \in 0 .. AccrualDen : OpenWindow(accrued)
      BY <2>1 DEF WorldStep
    <3> QED
      BY <3>1, ClockStep, NoveltyStep DEF BudgetInv
  <2>2. CASE UNCHANGED bvars
    BY <2>2, NextIInv DEF BudgetInv, bvars
  <2> QED
    BY <2>1, <2>2
<1>2. /\ UNCHANGED <<known, gross, retired, order, lineage, holds, payer, uncertain, own, drawn>>
      /\ UNCHANGED <<amount, reservations, bills, balance, released, commons>>
  <2>1. CASE WorldStep
    BY <2>1 DEF WorldStep, Tick, Launch, EndIfDead, OpenWindow, moneyVars, holdVars, billVars,
                scheduleVars, bookVars, seatHoldVars
  <2>2. CASE UNCHANGED bvars
    BY <2>2 DEF bvars, vars
  <2> QED
    BY <2>1, <2>2
<1>3. /\ balance \in Int /\ commons \in Int
      /\ holds \subseteq reservations /\ uncertain \subseteq bills
  BY DEF BudgetInv, BudgetTypeOK, TypeOK
<1>4. balance' = balance - 0 /\ commons' = commons + 0
  BY <1>2, <1>3
<1>5. \A x \in holds \cup uncertain : amount'[x] = amount[x]
  BY <1>2
<1> QED
  BY <1>1, <1>2, <1>3, <1>4, <1>5, BookRests

-------------------------------------------------------------------------------
LEMMA BudgetStarts == BudgetInit => BudgetInv
<1> SUFFICES ASSUME BudgetInit PROVE BudgetInv
  OBVIOUS
<1>1. IInv
  BY InitIInv DEF BudgetInit
<1>2. \A i \in 1 .. Len(Genesis) : Genesis[i] \in Seats
  BY BudgetAssumption
<1>3. /\ GenesisSeats \subseteq Seats /\ IsFiniteSet(GenesisSeats)
      /\ Cardinality(GenesisSeats) \in Nat
      /\ GenesisSeats # {} => Cardinality(GenesisSeats) > 0
  <2>1. GenesisSeats \subseteq Seats
    BY <1>2 DEF GenesisSeats
  <2> QED
    BY <2>1, FS_Subset, FS_CardinalityType, FS_EmptySet, BudgetAssumption
<1>4. PICK endowment : endowment = Larger(0, Initial - LockedAfter[0])
  OBVIOUS
<1>5. endowment \in Nat /\ endowment = Unlocked
  <2>1. LockedAfter[0] \in Nat /\ LockedAfter[0] <= Initial /\ Initial \in Nat
    BY ScheduleAssumption, MoneyAssumption
  <2>2. Unlocked = Initial - LockedAfter[0]
    BY DEF BudgetInit, Init, Unlocked, Locked
  <2> QED
    BY <1>4, <2>1, <2>2 DEF Larger
<1>6. GenesisShare \in Nat /\ GenesisShare * Cardinality(GenesisSeats) <= endowment
  <2>1. CASE GenesisSeats = {}
    BY <1>5, <2>1, FS_EmptySet DEF GenesisShare
  <2>2. CASE GenesisSeats # {}
    <3>1. PICK part : part = (endowment * BaseNum) \div BaseDen
      OBVIOUS
    <3>2. part \in Nat /\ part <= endowment
      BY <1>5, <3>1, PartOf
    <3>3. Cardinality(GenesisSeats) \in Nat \ {0}
      BY <1>3, <2>2
    <3>4. GenesisShare = part \div Cardinality(GenesisSeats)
      BY <1>4, <2>2, <3>1 DEF GenesisShare
    <3>5. GenesisShare \in Nat /\ GenesisShare * Cardinality(GenesisSeats) <= part
      BY <3>2, <3>3, <3>4, Divide
    <3> QED
      BY <1>5, <3>2, <3>3, <3>5
  <2> QED
    BY <2>1, <2>2
<1>7. /\ gross = [s \in Seats |-> IF s \in GenesisSeats THEN GenesisShare ELSE 0]
      /\ gross \in [Seats -> Int] /\ \A s \in Seats : gross[s] >= 0
  BY <1>6 DEF BudgetInit
<1>8. GrossTotal = GenesisShare * Cardinality(GenesisSeats)
  <2>1. PICK zero : zero = [s \in Seats |-> 0]
    OBVIOUS
  <2>2. SumOver(zero, Seats) = 0
    BY <2>1, SumZero, BudgetAssumption
  <2>3. \A s \in Seats : zero[s] \in Int
                         /\ gross[s] = IF s \in GenesisSeats THEN zero[s] + GenesisShare ELSE zero[s]
    BY <1>6, <1>7, <2>1
  <2>4. SumOver(gross, Seats) = SumOver(zero, Seats) + GenesisShare * Cardinality(GenesisSeats)
    <3>1. GenesisShare \in Int /\ IsFiniteSet(Seats) /\ GenesisSeats \in SUBSET Seats
      BY <1>3, <1>6, BudgetAssumption
    <3> QED
      BY <2>3, <3>1, SumRaise
  <2>5. GenesisShare * Cardinality(GenesisSeats) \in Int
    BY <1>3, <1>6
  <2> QED
    BY <2>2, <2>4, <2>5, BookSums
<1>9. NothingMinted
  <2>1. commons = 0 /\ GenesisShare * Cardinality(GenesisSeats) \in Nat
    BY <1>3, <1>6 DEF BudgetInit
  <2> QED
    BY <1>5, <1>6, <1>8, <2>1, PoolIs DEF NothingMinted
<1>10. BudgetTypeOK
  <2>1. payer \in [Ids -> Seats] /\ own \in [Ids -> Nat] /\ drawn \in [Ids -> Nat]
        /\ lineage \in [Seats -> Seats]
    <3>1. (CHOOSE s \in Seats : TRUE) \in Seats
      BY BudgetAssumption
    <3> QED
      BY <3>1 DEF BudgetInit
  <2>2. known \subseteq Placed /\ retired = {} /\ holds = {} /\ uncertain = {} /\ commons \in Int
    BY DEF BudgetInit, Placed, GenesisSeats
  <2>3. \A s \in Seats \ known : gross[s] = 0
    BY <1>7 DEF BudgetInit
  <2> QED
    BY <1>1, <1>7, <2>1, <2>2, <2>3 DEF BudgetTypeOK, IInv
<1>11. \A s : HoldsOf(s) = {} /\ HeldBy(s) = 0 /\ Drawn(s) = 0
  <2>1. \A s : HoldsOf(s) = {}
    BY DEF BudgetInit, HoldsOf
  <2> QED
    BY <2>1, SumEmpty, BookSums
<1>12. \A s \in Seats : Sound(s)
  BY <1>7, <1>11 DEF Sound, Entitlement
<1>13. Calling
  <2>1. holds = {} /\ uncertain = {} /\ commons = 0
    BY DEF BudgetInit
  <2> QED
    BY <2>1, SumEmpty DEF Calling
<1>14. order \in Seq(Seats) /\ retired = {}
  BY BudgetAssumption DEF BudgetInit
<1> QED
  BY <1>1, <1>9, <1>10, <1>12, <1>13, <1>14 DEF BudgetInv

LEMMA BudgetStep == BudgetInv /\ [BudgetNext]_bvars => BudgetInv' /\ Refilled
<1> SUFFICES ASSUME BudgetInv, [BudgetNext]_bvars PROVE BudgetInv' /\ Refilled
  OBVIOUS
<1>1. CASE \E p, c \in Seats, a \in Trials : RegisterChild(p, c, a)
  BY <1>1, RegisterChildStep
<1>2. CASE \E c \in Seats, a \in Trials : RegisterFromPool(c, a)
  BY <1>2, RegisterFromPoolStep
<1>3. CASE \E p \in Seats, a \in Trials : Debit(p, a)
  BY <1>3, DebitStep
<1>4. CASE \E s \in Seats : Retire(s)
  BY <1>4, RetireStep
<1>5. CASE CommonsRelease
  BY <1>5, CommonsReleaseStep
<1>6. CASE ReleaseAndSplit
  BY <1>6, ReleaseAndSplitStep
<1>7. CASE \/ \E s \in Seats, a \in Deltas : Income(s, a)
           \/ \E s \in Seats, a \in Deltas, profit \in Trials : Financing(s, a, profit)
  BY <1>7, IncomeStep
<1>8. CASE \E s \in Seats, a \in Amounts, kind \in {"historied", "unhistoried"} :
              \E extra \in Extras(s, kind) : SeatReserve(s, a, kind, extra)
  BY <1>8, SeatReserveStep
<1>9. CASE \E id \in reservations :
              \/ \E actual \in 0 .. amount[id] : SeatCommit(id, actual)
              \/ \E claim \in 0 .. MaxReport : SeatCommitReported(id, claim)
              \/ SeatCommitUncertain(id)
              \/ SeatRelease(id)
  BY <1>9, SeatCommitStep, SeatCommitUncertainStep, SeatReleaseStep
     DEF SeatCommit, SeatCommitReported, SeatCommitUncertain, SeatRelease
<1>10. CASE \E id \in bills : \E actual \in 0 .. amount[id] : SeatSettleUncertain(id, actual)
  BY <1>10, SettleUncertainBook DEF SeatSettleUncertain
<1>11. CASE \/ \E a \in Amounts : SharedReserve(a)
            \/ \E id \in reservations : \/ \E claim \in 0 .. MaxReport : SharedCommit(id, claim)
                                        \/ SharedRelease(id)
  BY <1>11, SharedStep
<1>12. CASE WorldStep \/ UNCHANGED bvars
  BY <1>12, RestStep
<1> QED
  BY <1>1, <1>2, <1>3, <1>4, <1>5, <1>6, <1>7, <1>8, <1>9, <1>10, <1>11, <1>12 DEF BudgetNext

LEMMA BudgetInvHolds == BudgetSpec => []BudgetInv
<1>1. BudgetInv /\ [BudgetNext]_bvars => BudgetInv'
  BY BudgetStep
<1> QED
  BY <1>1, BudgetStarts, PTL DEF BudgetSpec

(* No seat is ever driven below what its open holds were admitted to draw:   *)
(* whatever its calls cost, whatever order they finish in and whatever is    *)
(* transferred, released or retired meanwhile (budget.py 507-533).           *)
THEOREM NoSeatOverdrawn == BudgetSpec => []SeatNeverOverdrawn
<1>1. BudgetInv => SeatNeverOverdrawn
  <2> SUFFICES ASSUME BudgetInv PROVE SeatNeverOverdrawn
    OBVIOUS
  <2>1. \A s \in Seats : /\ gross[s] >= 0
                         /\ Entitlement(s) >= -MapThenSumSet(LAMBDA id : drawn[id], HoldsOf(s))
    BY DEF BudgetInv, Sound, Drawn, SumOver, MapThenSumSet, MapThenFoldSet
  <2> QED
    BY <2>1 DEF BudgetInv, SeatNeverOverdrawn
<1> QED
  BY <1>1, BudgetInvHolds, PTL

(* The entitlements exceed the unlocked money only by what standing debits   *)
(* took that no seat paid (budget.py 151-159).                               *)
THEOREM NothingIsMinted == BudgetSpec => []NothingMinted
<1>1. BudgetInv => NothingMinted
  BY DEF BudgetInv
<1> QED
  BY <1>1, BudgetInvHolds, PTL

(* A retired seat holds no entitlement and no money of an open call, and no  *)
(* tranche or commons release reaches it.                                    *)
THEOREM RetiredIsEmpty == BudgetSpec => []RetiredStaysEmpty
<1>1. BudgetInv => RetiredStaysEmpty
  <2> SUFFICES ASSUME BudgetInv PROVE RetiredStaysEmpty
    OBVIOUS
  <2>1. Heads \cap retired = {}
    BY HeadsAre DEF LiveSeats
  <2> QED
    BY <2>1 DEF BudgetInv, Emptied, RetiredStaysEmpty
<1> QED
  BY <1>1, BudgetInvHolds, PTL

(* While entitlements overstate the wallet, no release, registration or      *)
(* refund gives a seat anything (budget.py 399-427, 541-565).                *)
THEOREM DebtRefilledFirst == BudgetSpec => PoolRefilledFirst
<1>1. BudgetInv /\ [BudgetNext]_bvars =>
        [GrossTotal' > GrossTotal /\ settlements' = settlements => Unallocated' >= 0]_bvars
  BY BudgetStep DEF Refilled
<1> QED
  BY <1>1, BudgetInvHolds, PTL DEF BudgetSpec, PoolRefilledFirst

(* Both kinds of release pay the heads a whole amount.                       *)
LEMMA PaidTotal ==
    ASSUME BudgetInv, ReleaseAndSplit \/ CommonsRelease
    PROVE  \E total \in Nat : PayHeads(total)
<1>1. CASE ReleaseAndSplit
  BY <1>1, SplitTotal DEF Split
<1>2. CASE CommonsRelease
  BY <1>2, CommonsTotal DEF CommonsRelease
<1> QED
  BY <1>1, <1>2

(* Each live lineage has exactly one head.                                   *)
LEMMA OneHead ==
    ASSUME BudgetInv, NEW root \in LiveLineages
    PROVE  Members(root) \cap Heads = {Oldest(root)}
<1>1. \A r \in LiveLineages : Oldest(r) \in Members(r)
  BY HeadsAre
<1>2. \A r \in LiveLineages : lineage[Oldest(r)] = r
  BY <1>1 DEF Members
<1>3. Oldest(root) \in Members(root) \cap Heads
  BY <1>1 DEF Heads
<1>4. ASSUME NEW s \in Members(root) \cap Heads PROVE s = Oldest(root)
  <2>1. PICK r \in LiveLineages : s = Oldest(r)
    BY DEF Heads
  <2>2. lineage[s] = root
    BY DEF Members
  <2> QED
    BY <1>2, <2>1, <2>2
<1> QED
  BY <1>3, <1>4

(* A tranche or a commons release raises every live lineage by the same,     *)
(* however many members it has grown.                                        *)
THEOREM LineagesShareEqually == BudgetSpec => EqualLineageShares
<1>1. ASSUME BudgetInv, ReleaseAndSplit \/ CommonsRelease,
             NEW r1 \in LiveLineages, NEW r2 \in LiveLineages
      PROVE  LineageTotal(r1)' - LineageTotal(r1) = LineageTotal(r2)' - LineageTotal(r2)
  <2>1. UNCHANGED <<known, retired, lineage>>
    BY <1>1 DEF ReleaseAndSplit, CommonsRelease
  <2>2. PICK share \in Nat : \A s \in Seats :
           gross'[s] = IF s \in Heads THEN gross[s] + share ELSE gross[s]
    <3>1. \E total \in Nat : PayHeads(total)
      BY <1>1, PaidTotal
    <3> QED
      BY <1>1, <3>1, PayHeadsStep
  <2>3. ASSUME NEW r \in LiveLineages
        PROVE  LineageTotal(r)' - LineageTotal(r) = share
    <3>1. /\ Members(r)' = Members(r) /\ Members(r) \subseteq Seats /\ IsFiniteSet(Members(r))
          /\ \A s \in Members(r) : gross[s] \in Int
      <4>1. Members(r)' = Members(r)
        BY <2>1 DEF Members, LiveSeats
      <4>2. Members(r) \subseteq Seats
        BY <1>1, HeadsAre DEF Members
      <4> QED
        BY <1>1, <4>1, <4>2, FS_Subset, BudgetAssumption, BookTyped DEF BudgetInv
    <3>2. PICK H : H = Members(r) \cap Heads
      OBVIOUS
    <3>3. H \in SUBSET Members(r) /\ Cardinality(H) = 1
      BY <1>1, <3>2, OneHead, FS_Singleton
    <3>4. PICK paid : paid = gross'
      OBVIOUS
    <3>5. \A s \in Members(r) :
             gross[s] \in Int /\ paid[s] = IF s \in H THEN gross[s] + share ELSE gross[s]
      BY <2>2, <3>1, <3>2, <3>4
    <3>6. SumOver(paid, Members(r)) = SumOver(gross, Members(r)) + share * 1
      <4>1. share \in Int
        OBVIOUS
      <4> QED
        BY <3>1, <3>3, <3>5, <4>1, SumRaise
    <3>7. LineageTotal(r) = SumOver(gross, Members(r)) /\ LineageTotal(r)' = SumOver(gross', Members(r)')
      BY DEF LineageTotal, SumOver, MapThenSumSet, MapThenFoldSet
    <3>8. SumOver(gross, Members(r)) \in Int
      BY <3>1, SumIsInt
    <3>9. SumOver(gross', Members(r)') = SumOver(gross, Members(r)) + share
      BY <3>1, <3>4, <3>6
    <3> QED
      BY <3>7, <3>8, <3>9
  <2> QED
    BY <2>3
<1>2. BudgetInv /\ [BudgetNext]_bvars =>
        [ReleaseAndSplit \/ CommonsRelease =>
            \A r1, r2 \in LiveLineages :
               LineageTotal(r1)' - LineageTotal(r1) = LineageTotal(r2)' - LineageTotal(r2)]_bvars
  BY <1>1
<1> QED
  BY <1>2, BudgetInvHolds, PTL DEF BudgetSpec, EqualLineageShares

===============================================================================
