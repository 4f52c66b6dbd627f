# FactoryLab: a TLA+ model

A verification development for FactoryLab: the books that hold a world's money, the
queue that holds its decisions, the diary that makes both survive, the round of a
decision through the runtime, the transfers and orders that leave the process, and
what is left to do when a world dies. Every module is a translation of the code it
names (`PROJECT.json`, `map`); TLC checks each on small instances, and TLAPS proves for
every value of the constants the central properties of the wallet, the budget book, the
queue, the learners' rounds over it, the diary, the recovery journal, the wind-down and
the treasury.

## 1. The system

A *world* is one Python process on one thread around a sealed, hash-chained,
append-only *diary*. An event arrives; a router samples an assembly (a *seat*);
its calls are metered against a wallet; its return is scored, possibly much later;
scores flow back to the handle of the decision that earned them. Orders go to venues
whose answers may be lost; money moves between a venue and two chains by transfers
whose outcome the process learns by polling. A world ends once, and then its
positions are wound down.

### 1.1 Components

| Component | State it keeps | Operations | Correct when |
| --- | --- | --- | --- |
| `kernel/wallet.py` | balance, open reservations, bills booked at their ceiling, released tranches, drips, a death latch | reserve, commit, commit_reported, commit_uncertain, settle_uncertain, release_hold, settle_batch, launch, release_due, drip, restore | money is conserved and backs every hold and the locked tranches; no reservation is billed twice; death is decided on settled money, never missed, never undone |
| `kernel/reserve.py` | the novelty window: start, remaining entitlement, protected part of each hold | open_window, reserve_for, release, allocate/refund inside the wallet | protection returns once, unspent, to the window it came from |
| `kernel/termination.py` | the reason, once | check, dormant, kill | a dead world ends; a dormant one waits for a tranche that comes |
| `kernel/budget.py` | entitlement per seat, lineage, open holds and uncertain bills with their payer | genesis, grant, transfer, debit, earn, credit, retire, releases, `SeatWallet` | entitlements never exceed the money they divide; a seat pays only what is its own; replication buys nothing; a retired seat has nothing |
| `kernel/queue.py` | decisions, returns, deliveries per actor, history per contract, tombstones, derived counters | open, record_propensity, record_actions, settle, time_out, retire_actor, register_successor, release_delivered, release, compact_released, drain_finalized, restore | one penalty and one outcome at most; outcomes reach the living; cursors keep their meaning; nothing owed is released |
| `kernel/ledger.py` | lines, a cached head, the acknowledged boundary | append, checkpoint, reopen (and repair), terminate | a failed write never makes the diary unreadable and never loses a line |
| `runtime/sidecar.py` | sealed checkpoint files, recorded answers | write, name, retire others, verify_restorable | the checkpoint the diary names exists; a recorded answer has its bytes |
| `runtime/witness.py` | kill lines outside the diary | record_kill, record_production_kill, killed | a kill survives a copy of the diary |
| `runtime/resume.py` | recovery journal, restored runtime | call, replay, settle the interrupted call | replay ends where the diary ends, tells the program what the world did, repeats no external write |
| `runtime/loop.py` | the clock, the event in hand | launch, process event, snapshot, termination and commons checks | the books are driven in the order they assume |
| `runtime/routing.py`, `feedback.py`, `pricing.py` | open calls, pending verdicts, deferred scores, price origins, frozen draws, seats' rounds | route, draw, settle now or at the window's close, expire, credit, price, prune | router and seat learn one outcome at one price, once, and before the deadline |
| `runtime/settled.py` | eligibility tally, side tables per handle | drain, expire, release pass | nothing is folded after it is gone; no book names a released decision |
| `runtime/venue.py` | order intents, the fill cursor | submit, reconcile, give up, read fills, confirm, kill | an order's answer may be lost, its executions may not |
| `settlement/` | lots, consequence accounts | fills, marks, horizons, late money, release | every execution credited once; an outcome is what the facts say |
| `runtime/winddown.py` | operations of a dead world | cancel, close, sell, reconcile | flat means flat; nothing is sent twice |
| `world/treasury.py` over its rails | one transfer in the slot, strands, parked venue actions, caps | transfer, tick, open_window | held money covers what can still move; no authorization lives beside another |
| `learners/` | weights, delayed feedback | sample, update, close or discard a round | the round bookkeeping is in `Rounds`; the weights are floating point |
| `runtime/compute.py`, `governance.py`, ... | tables of composition, subscriptions, measurement | many | only their calls into the modelled books |
| `charter/` | cards, prices, amendments, committees | motions, votes, the PID price | not modelled |
| `world/polymarket*`, `runtime/polymarket.py` | a second venue | orders, prediction accounts | not modelled |
| `versioning/`, `cortex/` | statistics; prompts and admission | estimation; parsing, the jail | not modelled |
| `kernel/events.py`, `registry.py`, `artifacts.py`, `money.py` | bus, contract versions, text store, decimals | publish, register, put, parse | not modelled (see 5) |

### 1.2 How they interact

* Every method that changes money, a decision or a contract first appends its
  evidence to the ledger, then changes its own books. There are no threads in
  this layer, so a method is one step; what interleaves is *calls that stay open
  between events*: a hold is reserved in one event and booked, billed late or
  released in another; a decision is opened in one and settled in another.
* `SeatWallet` puts the wallet and the budget book side by side: a reservation or
  a debit is one synchronous call that changes both. `Budget` extends `Wallet` and
  each of its actions is a wallet step and a book step together.
* The wallet asks the novelty reserve inside `reserve`, `commit` and `release_hold`
  (callbacks), so the reserve is part of the `Wallet` module.
* The loop works an event off in a fixed order: close the price window, route and
  invoke, settle, expire, deliver, learn; at a window's boundary it also drains and
  releases. `Rounds` extends `DecisionQueue` and drives it in that order.
* A venue write has a durable intent before it is submitted. The runtime reads fills
  through a cursor and hands them to the consequence book, which keeps them back
  while an order's answer is unknown. `Orders` composes the venue, the intents, the
  cursor and the book (`Consequences` over `Lots`).
* The runtime snapshots itself into a sidecar file and names that file in the diary; a
  resume reads the file the last snapshot item names and replays the items after it,
  answering each recorded external call from the diary.
* A kill writes to the diary and to the witness files, which are stored elsewhere, and
  then winds the positions down while the diary still takes records.

### 1.3 What is hard

Open calls of one seat that overlap; bills whose true cost arrives after the window,
the seat or the pool has changed; scores that arrive late, twice, after the learner
retired, or before the price they are charged is known; readers with their own pace;
derived counters over restarts; orders whose answers are lost and whose fills are read
in another order than they happened; signed authorizations that execute unseen after
they were thought expired; writes that fail after some of their bytes; crashes between a
write and the item that names it, around an external call, or between a kill's mark and
its seal; a backup put back. `PROJECT.json` lists each at the line where it bites.

## 2. The modules

| Composes | Of |
| --- | --- |
| `Budget` | `Wallet` |
| `Rounds` | `DecisionQueue` (which implements `Outcome`) |
| `Orders` | `Consequences`, which is over `Lots` |
| `Recovery` | implements `Submission` |

`MC_*` modules give constants that are sets, functions or sequences their values and
state the scope of a run. Properties are in the module whose code they are about.
History variables exist only for properties and are named as such where declared.

### 2.1 `Wallet` (+ `MC_Wallet`; proofs in `BudgetProofs`)

`kernel/wallet.py`, `kernel/reserve.py`, `kernel/termination.py`. A variable per field
of `Wallet`; the dictionary of reservations is a set of ids with the immutable `amount`
beside it. `held` and `provisional`, which the code recomputes, are carried and checked
against the sums (`BooksReconcile`). `excess`, `granted` and `used` are history
variables. A call that raises `Infeasible` changes nothing and has no action. Locked
backing is a constant function `LockedAfter` of the number of released tranches, so a
whole release schedule is one constant. `_commit` is `Book`; the three ways to reach it
(`Commit`, `CommitReported`, `CommitUncertain`) differ in their guard and in what they
latch, as in the code.

### 2.2 `Budget` (+ `MC_Budget`, `BudgetProofs`)

`kernel/budget.py` over the wallet. `gross` is the code's entitlement (open holds
included), `Entitlement` what the seat has free. `SeatReserve`, `SeatCommit`,
`SeatCommitReported`, `SeatCommitUncertain`, `SeatSettleUncertain` and `SeatRelease` are
`SeatWallet`'s methods; `SharedReserve/Commit/Release` are the shared meter of treasury
fees, which no seat pays. Lineages are kept as the code keeps them, by registration
order, because the head of a lineage is its oldest live member. `commons` and `drawn`
are history: what the pool paid, and what a hold was admitted for beyond its seat's
entitlement (`bridge` and novelty protection, a bounded choice in `Extras`).

### 2.3 `Outcome`, `DecisionQueue` (+ `MC_DecisionQueue`; proofs in `RoundsProofs`)

`Outcome` is the promise of the class docstring: opened once, penalised at most once,
settled exactly once, released only after. `DecisionQueue` is `kernel/queue.py`, one
action per method. `PromiseKept` is `Outcome!Spec` under the mapping `PhaseOf`.
`Route` follows successors until a living actor; `Historicize` is `_history`; `Restore`
recounts the two derived counters, as `_restore_state` does. `took` and `trailed` are
history variables: what was ever recorded, to compare with what the contract remembers
after the decisions are gone.

### 2.4 `Diary` (+ `DiaryProofs`)

`kernel/ledger.py`, `runtime/sidecar.py`, `runtime/witness.py` and the two kill paths.
`pc` is what the process that holds `LedgerLock` does next, so that a crash can fall
between any two writes. A line is what one append wrote: an item with its position and
the identity of the one before it (the hash chain), or garbage when a torn line was
extended. Each write (`Write`, `Witness`) succeeds, or raises after none, part or all of
its bytes. The process remembers what it wrote (`mem`); `Healthy` compares that with
the disk. `HeadAgrees` and `Opens` are the tests of `reopen`, `Repair` the cut of a torn
line. `TakeBackup` and `PutBack` are the operator's; the witness is not in the copy.

### 2.5 `Submission`, `Recovery` (+ `MC_Recovery`, `RecoveryProofs`)

`runtime/resume.py` (`RecoveryJournal`) over `sidecar.py`'s recorded answers. The diary
is a durable sequence (that a reopened one is what was acknowledged is what `Diary`
shows); all else is lost in a crash. An event is an input and a plan of external calls;
the names in a plan stand for the branches of `call`. A live call goes through its
phases one write at a time (`Ask`, `Evidences`, `Dispatch`, `Reply`, `Keep`, `Record`),
the world performs what is in flight when it likes (`Performs`), a crash may fall
anywhere. Replay answers from the diary; the one call a crash interrupted is settled by
its name (`SettleOrphan`): looked up, resent under its nonce, told unknown, or refused.
`Submission` is what the program may rely on: each call is told one answer, and what it
is told was not done is not done and not in flight. `AgreesWithWorld` is the refinement.

### 2.6 `Rounds` (+ `MC_Rounds`, `RoundsProofs`)

One event of the loop over the queue, from `loop.py`, `routing.py`, `feedback.py`,
`pricing.py`, `settled.py` and `learners/delayed.py`. `phase` is what the loop does next:

| Phase | Actions | Code |
| --- | --- | --- |
| idle | `BeginEvent`: a tick or another event; a price window may close | `_process_event` |
| close | `SettleDeferred`, `PruneEvidence` | scores that waited for the window; `_prune_price_evidence` |
| route | `Draw`, `Abstain`, `RequestSelf`, `CallExpired`, `ReturnCall`, `RefuseJudging`, `ReplaceRouter` | routing and invocation |
| settle | `Verdict`, `SettleEvaluation`, `CensorStale` | judges' scores |
| expire | `ExpireDue` | cutoffs |
| deliver | `CloseSeatRounds` | a seat's learner trains on its decision |
| learn | `ReadNext`, one return at a time, and `CreditDue` | a router's learner trains |
| drain | `DrainRouter`; at a boundary `ReadDeliveries`, `DrainTally`, `ReleaseSettled`, `EndBoundary` | the drain of replaced routers and the release pass |

Scores, penalties and weights are abstracted to what a round was trained on: a score or
the neutral imputation, with its window's card penalty or without. `measured`, `routed`
and `seated` are history: the window a decision was first measured in, and what trained
its router and its seat.

### 2.7 `Lots`, `Consequences`, `Orders` (+ `MC_Orders`, `OrdersProofs`)

`Lots` is `settlement/lots.py`: the FIFO of open lots, the split of a closed lot's money,
marks, `resolve`. `Consequences` is `settlement/consequence.py`: which fills may be
applied, deferral, refusal, late money, release. `Orders` puts the venue before it: writes
whose answer is lost (`loses`), reconciliation by polling until an intent is given up, the
fill cursor that reads late and withholds, the tick's order of steps, and a kill that
closes the position and books it. Money is in twelfths of a unit so that every split of
the instances is exact; the code keeps it in fractions. A fee is a rate of what the fill
traded (`exchange.py`, `_fill`), without the venue's rounding to a micro-USD, so the part of
it that falls on a part of the fill is a whole number at any price. A write is named by its
decision and its place in it, and so is its order.

### 2.8 `WindDown` (+ `MC_WindDown`, `WindDownProofs`)

`runtime/winddown.py` over the adapter's submit, cancel, close and lookup. The venue
holds a resting order (which may still fill), a perp position and a spot balance.
A process plans, records, sends, reads and reconciles each target over `Rounds` rounds,
may die between any two steps, and is followed by another kill that reads what was
recorded. The diary may refuse a record. An operation's id is its target and attempt.

### 2.9 `Treasury` (+ `TreasuryProofs`)

`world/treasury.py` over `world/treasury_rails.py`: a transfer from its reservation to
its confirmation, strand, recovery, lapse or failure. Two directions are modelled, the
two with two legs: `to_venice` (`shadow_send`, then `venice_top_up`) and `to_reserve`
(`withdraw_burn`, then `mint_base`). The venue and the chains are the environment: an
action executes hidden and is shown later, an authorization is settled, shown or expires,
and (`LateDebits`) may still be debited after its expiry was proven. A tick is
one of the ways `tick` may go: take a parked action back (`Unpark`), complete a strand
(`Recover`), prepare the next leg, advance it, prove an authorization expired, park an
action whose nonce window passed, or send a lost transaction again (`Retry`).

### 2.10 `Sums`

Models no code: the lemmas about sums over finite sets that the proofs of the wallet, the
budget book and the treasury share, and the induction over numbers that the proofs of the
queue use too, see 4.

## 3. The runs

Deadlock is not checked: a killed world, and a model whose bounded supplies are used
up, really stop.

| Run | Instance | Shows |
| --- | --- | --- |
| `wallet` | endowment 3, two tranches, two holds, losses of 2, reports up to 3, a drip (366k states) | conservation, backing, sums and the novelty window's entitlement; death decided once and never by a ceiling; a dead wallet ends the world, a dormant one gets its tranche |
| `budget` | two founders and a child, one tranche; calls of two holds, or growing families (156k) | overlapping calls, overruns, ceilings, refunds; registration, retirement, revival, releases |
| `queue` | two learners; two plain decisions, three related ones, or two contracts with an action key; a clock for one (250k) | one outcome, nothing owed released, derived books exact over restarts and compaction, outcomes reach the living, `Outcome` implemented |
| `diary` | six writes, two failed writes, one backup (1.1M) | recovery, and the dead stay dead |
| `recovery` | two events, two crashes, every pair of plans | nothing submitted twice, what stops a resume, agreement with the world (`Submission`), every call answered |
| `rounds` | two routers, two decisions, three windows, four ticks (512k) | router and seat learn alike, rounds close by their deadline, the release takes nothing still named, every decision closes |
| `orders` | two returns, lost answers, late reads, a kill (644k) | executions credited once and none lost unannounced, marked outcomes from facts, owners paid once, a released return is over |
| `winddown` | a resting order, a perp, a balance; one crash, two refused records (3.3M) | flat means flat, nothing sent twice, what was refused is tried again |
| `treasury` | two transfers, three authorizations, two windows (caps and fees per window) | holds accounted, moving money held, real spend backed, caps, no second authorization, the slot frees unless what no wait bound covers holds it |
| `rounds_unpriced` | as `rounds` | **violation**, see 6 |
| `orders_graded` | three returns, two of which close lots of the first | **violation**, see 6 |
| `orders_winddown` | as `orders` | **violation**, see 6 |

Each module's type invariant is a conjunct of one of its safety invariants, so that it
is checked with it: `BooksReconcile`, `SeatNeverOverdrawn`, `NothingOwedReleased`,
`Recoverable`, `SubmittedOnce`, `CreditedOnce`, `SentOnce`, `HoldsAccounted`. In the same way
`DeathDecidedOnce` is `DeathIsFinal` and `NoDeathByCeiling`, `DecisionsWhole` is
`OneOutcome` and `NoOrphans`, and `DerivedExact` is `CountersExact` and `HistoryExact`.

### 3.1 Why the bounds suffice

* Scopes. Four runs use a `CONSTRAINT` to keep apart cases that do not meet: in `budget`
  calls of two holds and families of three seats; in `queue` plain decisions, chains,
  historied contracts, and a chain under a clock; in `winddown` refused records are
  looked at while one target is in play; in `rounds` a request with its child, or an
  abstention and a decision of the same router, and two decisions only on ticks
  (an `ACTION_CONSTRAINT`). The next-state relation is the module's in each.
* Wallet: two holds are the least at which holds compete and one is billed late
  while another is open. Amounts of 1 and 2 with a multiple of 2 reach exact, refunded,
  overrun and disputed claims; losses of 2 against an endowment of 3 reach the floor
  with a hold open, with a bill open and with both. `MaxMoney` and `MaxLoss` only stop
  settlements from repeating for ever; they bound how far the balance goes, not which
  guard it meets. `MaxTime` reaches each tranche and each drip.
* Budget: two seats are the least with somebody else's money, three with a lineage of
  two beside another. Reports of 2 over holds of 1 carry a seat into debt that a later
  release or refund pays back first.
* Queue: three handles make a chain with a middle; two actors one succession. Two
  instants are enough for expiry and compaction.
* Diary: six writes are a checkpoint and its item, two items, a mark and a terminal
  event, with two failed writes anywhere among them or in the witness. `DeadStayDead` is
  claimed through one lapse of a witness file, see 5.
* Recovery: two events are the least at which a checkpoint falls between, two crashes the
  least at which a replay is interrupted or the resend of a crash is lost in another.
  The plans in `MC_Recovery` reach each branch of `call`, alone and after another.
* Rounds: a request and its child are a chain of delivery; an abstention and a decision
  of one router are two rounds that expire and credit apart. `Counted = {0}` prices the
  first window and not the next, so that a wrong window is seen; `CloseBy = 4`, a
  span of one tick, patience of one and a horizon of one let every deadline fall on
  either side of the window's close; `MaxWindow = 2` leaves an open window after it.
* Orders: two returns share a position, which is the least at which one's fill closes the
  other's lot; a horizon of one tick (`Horizon = 10`, a tick is `Grain = 10`) falls between
  reads; `MaxPolls = 3` stands for `UNCERTAIN_ORDER_POLLS` (5): an order is given up after,
  and may be answered at, each poll before. `Rounds = 1` of the code's three reads of the
  wind-down's fills (`venue.py` 221) lets that read succeed or the bound be spent.
* WindDown: `Rounds = 2` of the code's three (`ROUNDS_PER_KILL`, `winddown.py` 84): a first
  round and one that retries it; a third multiplies the states beyond what TLC can visit and
  only retries again. The theorems hold for any number of rounds. One crash at each step gives
  a second kill with its own rounds, so `MaxAttempts = 4` attempts on a target. `Dust = 1` and
  `Minimum = 2` leave amounts that are dust, too small to sell, and neither.
* Treasury: two transfers put one in the slot beside a strand or a parked action; three
  authorizations are a first, a superseding one, and another transfer's. The caps of 4
  admit two tranches of 2 and refuse a third; `Initial = 5` funds one with its fee and
  not two at once until one is returned.

### 3.2 Fairness

* `FairSpec` (wallet): weak fairness of `Tick`, `ReleaseDue` and `EndIfDead`. `_process_event`
  moves the clock, calls `release_due` while it processes every event and asks
  `termination.check` at the end of it (`loop.py` 382-502, 1041-1087). No fairness of any
  seat's, vendor's or venue's action is assumed. `Launch` needs none: a world is dormant
  only once launched, since a wallet without a launch has no next release.
* `RoundsFairSpec`: weak fairness of `LoopStep` (an event in hand is worked off: the steps
  are synchronous calls of one thread) and strong fairness of `BeginEvent(TRUE)` (the clock
  goes on delivering ticks, whatever other events come between). Seats, judges and
  replacements owe nothing.
* `FairSpec` (recovery): weak fairness of the process's own steps and of `Resume` (a
  supervisor restarts the world; a call returns or raises). Crashes are bounded. The
  world owes no performance of what was sent.
* `FairSpec` (treasury): weak fairness of what a tick does unconditionally and of what the
  world does in the end. While a step cannot be prepared its ticks are counted (`Stalls`,
  which leaves out those that find the fee short), and the rail may fail every preparation; a
  source that can be read is read in the end, so a shown shadow row is booked, a dead
  authorization expires and a lapsed action is parked; a nonce window passes, an
  authorization settles or expires, a debit, a row or a mined transaction is shown in the
  end, a lost broadcast is repeated until it is out. Nothing is assumed of Circle's
  forwarder, of the venue executing what it did not acknowledge, of a fee or a credit being
  found in order, or of money arriving in the wallet. `SlotFrees` therefore says that the slot
  frees again and again through the code's own exits (recovery, expiry, parking), or is held
  for ever by one of three things no wait bound looks at (`Unbounded`):
  * `FeeShort`: a mint's fee is above its hold and the wallet cannot make up for it.
    `_prepare_next` writes `fee_unfunded` and returns before `_stall` (`treasury.py`
    959-964), so `forward_wait_ticks` is never consulted (section 6).
  * `OwnMint`: an exit that is not forwarded is the reserve's to mint, and is not
    `_recoverable`.
  * `Refusable`: the evidence is there and is refused at every tick, for a fee beyond the
    reservation (`treasury.py` 819-827) or a credit that falls short (`CREDIT_SHORT`,
    `treasury_rails.py` 1541-1547). A shadow leg's evidence has no fee and cannot be.

  The property is violated if any of the three is left out.

## 4. What is proved

All for every value of the constants that satisfies the assumption its module names
(`MoneyAssumption`, `ScheduleAssumption`, `ShareAssumption`, `BudgetAssumption`,
`QueueAssumption`, `RoundsAssumption`, `DiaryAssumption`, `RecoveryAssumption`, `WindDownAssumption`,
`TreasuryAssumption`, `LotsAssumption`, `ConsequencesAssumption`, `OrdersAssumption`). They say only what the constructors check or the bounds are:
nonnegative amounts, a release schedule that ends at zero and never grows, a share in
(0, 1], finite populations (the learners nonempty, as are the contracts and channels), plans
made of the names of calls, judges and the arm that wakes nobody among the contracts, a
verdict's patience shorter than a decision's life, orders and prices above zero, an unheard
write polled at least twice (`UNCERTAIN_ORDER_POLLS` is 5), bounds that are naturals.
So the bounds of the runs are no part of what is proved: the theorems hold for any number
of holds, seats, writes, orders, crashes, attempts, transfers and windows. Each module of proofs
starts with its inductive invariant; the theorems are at its end.

`Sums`. The totals of the books are sums over sets of holds, seats and transfers, and
what is proved of a sum over any finite set is an induction. `Induction` and
`SetInduction` are that principle stated over a set of numbers or a family of subsets in
place of a predicate, derived from the well-foundedness of `<`. Over it: `SumAdd`,
`SumRemove`, `SumChange`, `SumMonotone`, `SumZero`, `SumRaise` (raising the terms of a
subset by `k` each) and the rest.

`BudgetProofs`, the wallet

| Theorem | Argument |
| --- | --- |
| `TypeCorrect` | the inductive invariant is `IInv`, the conjunction of the five; one lemma per action or group of actions keeps it |
| `MoneyConserved` | inductive with the types alone: every debit and deposit counts itself in one total |
| `EscrowIsBacked` | inductive with the types: a hold is granted out of `Unlocked - held`, a debit lowers `held` by its own hold's amount and puts what exceeds it into `excess`, the locked part only shrinks. That `held` is the sum over the open holds is `TotalsReconcile` |
| `NeverBilledTwice` | a booked id leaves `reservations` in the step in which it enters `bills`; ids are issued once |
| `DeathIsLatched` | the latch is set from the same sum in each step that lowers it |
| `DeathNeverUndone`, `CeilingNeverKills`, corollary `DeathDecided` | step properties, from the invariants above |
| `TotalsReconcile` | each method adds or removes the term of one id in the sum its total stands for; for the window, what is protected now and what is left of the entitlement make up what was granted less what was used |

`BudgetProofs`, the book that moves with it

| Theorem | Argument |
| --- | --- |
| `NoSeatOverdrawn` | the invariant is `BudgetInv`. A hold drew no more than its amount and is paid by one seat, so closing it gives back at least what lets the seat bear its cost |
| `NothingIsMinted` | alone it is not inductive: settling a bill below its ceiling gives the seat back what it paid. Strengthened with "the commons still bears all that the seats did not pay of the open bills" (`commons >= SumOver(Unpaid, uncertain)`) |
| `RetiredIsEmpty` | what a seat without entitlement and holds can still receive goes to the pool; a lineage's head is its oldest live member |
| `DebtRefilledFirst` | from `BudgetInv`: every step that raises the total of the entitlements, except income, is bounded by what is unallocated |
| `LineagesShareEqually` | a release raises the heads, one per live lineage and in no other (`SumRaise` over the members) |

`RoundsProofs`, the queue

| Theorem | Argument |
| --- | --- |
| `StatusAlways`, `OutcomeOnce` | `StatusInv` (an issued handle has a status, a dropped one its outcome), then `ReturnsInv` over it: the returns of a retained handle determine its status |
| `QueueImplementsOutcome` | initial states map to initial states; each action maps to a step of `Outcome` or a stutter, `TimeOut` to the abstract step of the same set |
| `AncestryWhole`, corollary `RetainedWhole` | strengthened (`FamilyInv`) with "the counter of a handle is the number of retained decisions that name it": `NoOrphans` alone is not inductive, since `Owed` asks the counter and not the decisions. The part of `CountersExact` about children is proved with it |
| `ReleasedOwesNothing` | `NothingOwedReleased`, from `BooksInv` (types, and each issued handle in exactly one of retained, tombstones, compacted) and `ReadInv`: the counter `unread` of a handle is the number of places (reader, position) at which one of its returns waits. Appending adds places (`ReadGrows`), `time_out` one for each late handle with a reader (`Ranking`: the n-th of a finite set of handles), reading drops the first places of one reader and moves the others (`ReleaseReads`, a bijection) |
| `DerivedBooksExact` | `DerivedExact`, from `FamilyInv`, `ReadInv` and `HistoryInv`. `HistoryExact` alone is not inductive: that an action recorded before its trail is historied later needs "what an awaiting decision took is still on its record, and it has a trail iff it has a propensity or a return" (`EvidenceInv`) |
| `FeedbackReachesLiving` | `RoutedToLiving`, a step property from the whole `QueueInv`. `SuccessionInv`: no nonempty set of actors is closed under succession. `register_successor` keeps it because the walk it refuses by is long enough to meet any cycle (`WalkIs`, the pigeonhole in `NoLongWalk`), so a route ends within as many hops as there are actors (`RouteLives`) |

The proof speaks of `Calls`, the queue's methods with free parameters, of which
`QueueNext` is the part a run bounds. So it holds of any program that moves the queue by
those methods, and `Rounds` is shown to be one.

`RoundsProofs`, the loop over it

| Theorem | Argument |
| --- | --- |
| `LoopUsesQueue`, `LoopKeepsBooks`, `LoopKeepsPromise`, `LoopReachesLiving` | every step of the loop is one of `Calls` or leaves the queue alone (`RoundsCalls`), so the queue's guarantees hold of the loop: `DecisionsWhole`, `NothingOwedReleased`, `DerivedExact`, the promise of `Outcome`, `RoutedToLiving` |
| `LearnsAlike` | `LearnedAlike`, from `RoundsInv`. That both learn the same needs to know what a return still unread will teach: it says what its decision's books say (`NotesInv`), its price is the window's it was measured in for as long as a score or a credit may ask (`PriceInv`), a seat learns first and on the outcome its router is about to read (`SeatInv`), and of two returns of one open round the penalty is read first (`KeysInv`, `Preceded`) |
| `RoundsClose` | `ClosedByDeadline`: an open round whose decision was answered has a return its router has not read (`Awaited`), so once a router has read everything its rounds are pending, within their deadline, or wait for their credit; replaced routers are drained until they owe nothing (`ReadersInv`) |
| `ReleaseKeepsBooks` | `ReleaseLosesNothing`: whatever a book names is retained (`NamedInv`), and the tally counts each evaluation once, when it leaves the list of outcomes (`TallyInv`) |

`RoundsInv` is the conjunction of ten parts, each of them checked by TLC on the `rounds`
instance before it was proved. Steps that do the same to the books are proved once: what
answers decisions (`AnswerStep`), what opens one (`OpeningStep`), what trains or credits
(`BookStep`), what a boundary drops (`BoundaryStep`).

`OrdersProofs`

| Theorem | Argument |
| --- | --- |
| `OrdersLoseNothingSilently` | `NothingLostSilently`, from `FoundOK`: what was read is applied, held back while a write is unanswered, or refused, and then its order was given up. A write given up was never answered, so its order was never bound (`IntentOK`, `OrderOK`), and it was unanswered until then, so its return's outcome was fixed after it and as censored (`HoldOK`, `AccountOK`). That nothing is refused of an order whose answer is known is the longer half: it is bound before its fills are read, since a fill without a name waits (`OrderOK`), and for at least what it can execute, since the book has applied or holds back each of its executions at most once (`KeptOK`, `BoundOK`, lemma `NotRefused`) |
| `ReleasedAreOver` | `ReleasedIsOver`, from `OverOK`: the venue's confirmed total is what it executed, the book executed as much, and each execution is in the book once, so all of them are |
| `OrdersCreditOnce` | `CreditedOnce`, from `MoneyOK`: what the returns realised less what their open lots cost is what the applied fills paid. A fill that meets the lots one by one keeps it at each (`MeetKeeps`: `Worth` is what is credited, less what the lots left cost and what the rest of the fill will pay), whatever is closed and however a closed lot's P&L is split. The wind-down opens no lot, so its fill keeps it only if nothing of it is left when the lots are spent: the closing order is for exactly what the applied fills leave open (`EndsFlat`), the lots are of one side (`OneSided`) and of that size, nothing executes after it (`QuietOK`: once flat nothing rests), and, as the property asks, everything before it was applied (`ClosesLast`). `ShapeOK` has the bounds of the counters, for the types |
| `OwnersPaidOnce` | `PaidOnce`, from `PaidOK`: what an owner was booked is what its account says is booked (`late`), until an outcome is fixed with a mark and books nothing; a release, and the two passes at the death, ask that nothing more is owed |

`CreditedOnce` is exact for any prices although `Lots` counts in twelfths: a fee's and a
charge's parts are whole because a fee is a rate of notional, and a closer's share that is
rounded is taken from the opener's by the same amount. Only how the two share a P&L, of which
it says nothing, needs the instance's prices.

The invariant, `FullOK`, relates four accounts of the same orders: what the venue executed,
what the intents say, what the cursor returned, what the book did with it. It is stated of
its arguments and not of the variables, so that each operation has one lemma, whatever step
uses it: an answer comes to a write being placed or to a poll, a read to a tick or to the
wind-down, a settlement to a tick or to the kill. The folds (the lots a return owns, those a
fill meets, the fills a read observes) are taken one element at a time: `OwnRuns`, `MetRuns`
and `EachRuns` give the sequence of their values.

`DiaryProofs`

| Theorem | Argument |
| --- | --- |
| `DiaryTypeCorrect` | a conjunct of `DiaryInv` |
| `DiaryRecoverable` | `Recoverable` asks only where the process stands; the invariant asks it of the lines at every moment between two writes (`ChainInv`): one authentic chain from the header on, of which the head file is a prefix, until the kill is sealed; the file of the last checkpoint exists, also between the file and the item that names it; and every copy of the directory has the same, because it can become the directory |
| `DiaryDeadStayDead` | a mark is never followed by a checkpoint, so a resume that replays the tail finds it (`MarksLast`); one failed witness write spoils one file at most, and the other holds the kill line (`WitnessInv`) |

`RecoveryProofs`

| Theorem | Argument |
| --- | --- |
| `RecoveryTypeCorrect` | a conjunct of `RecoveryInv` |
| `RecoverySubmitsOnce`, `RecoveryRefusals` | the invariant says that the diary *is* a run of the program: there is an `f` that gives the frame of the replay after each item (`Replays`). The process is at the frame of the items it has replayed, or past the end of the diary inside the one call that is not recorded yet (`Follows`, `Ahead`). Relative to the last frame every call is past, current or still to come (`OfCall`), and only the current one may be submitted unrecorded |
| `RecoveryNeverDiverges` | a replay never meets an item the program does not ask for next. It holds because the model's program is a function of what it is told, as `resume.py` requires of the code's |
| `RecoveryRefinement` | `AgreesWithWorld`: initial states map to initial states; each action is a step of `Submission` or a stutter. That "done" is done and "not done" neither done nor in flight is `Agrees`, kept from the answer in hand to the recorded one |

`WindDownProofs`

| Theorem | Argument |
| --- | --- |
| `WindDownTypeCorrect` | a conjunct of `SentInv` |
| `WindDownSendsOnce` | attempts on a target are begun in order; the process remembers all that is recorded; what is on the wire has no definitive answer and no successor (`OnTheWire`), unless a record of it was refused |
| `WindDownRetriesOwed` | `RetryInv`: a pass has one task for a target it read, wants and was shown enough of; when the task is done its attempt is settled or the target is owed (`RetryProceed`), and a round that is not the last ends with nothing owed. It is judged by what the attempt asked for: the process holds the request of each attempt whose record was kept (`Held`) |
| `WindDownFlat` | a dead world's order is never enlarged after it was read (`FlatInv`), and the wire is empty of what could fill |

`TreasuryProofs`

| Theorem | Argument |
| --- | --- |
| `TreasuryInvariant`, `TreasuryTypeCorrect` | `TreasuryInv` relates the books (the slot, the strands, the parked actions and the money they hold) to what the outside knows of each transfer. The outside is a record `V`, so that what a call does is shown with the facts about the state before, inside and after it: `Hand` is the state with a transfer in the hands of a call, `Bare` with none, `Books` the state between two calls |
| `HoldsAlwaysAccounted` | `avail + Tranche + fee + Held = book` inside a call, `SumAdd` and `SumRemove` when a transfer goes on the shelf or comes back |
| `MoneyMovesOnlyHeld` | every transfer without an outcome is in hand or on the shelf (`Covered`), under one id each (`Distinct`, `Beside`); a failed one was void at the venue |
| `RealSpendIsBacked` | the authorizations of a transfer are the superseded ones, none of which can still debit in time, and the one it refers to (`Sane`), so at most one is alive |
| `VeniceStaysBounded` | at most one open transfer is a conversion, so at most one first authorization is owed |
| `NeverSignsAgain` | a step property, from `Sane` and `AtRest`: a transfer that waits to be prepared has no earlier authorization |

Only model-checked:

* Liveness (`DeathEndsWorld`, `DormancyEnds`, `EveryCallAnswered`, `EveryDecisionCloses`,
  `SlotFrees`): fairness and ENABLED are outside the prover.
* `MarkedByFacts`: it compares two runs of the FIFO over the same fills in different orders.
  What they have in common is an induction over data.

## 5. What is not modelled

* Wallet: `pots` (labels). A ledger append that raises in the middle of a method: it is
  the ledger's failure, and ends the world at its next termination check.
* Budget: venue claims, `charge` (no caller), `last_holds`, restart of the book, and the
  wallet's drips and paid registrations under it (checked in `Wallet`). A kill for
  another reason disables everything and is left to `Wallet`.
* Queue: scores, propensity vectors, definition versions, a tombstone's author, merging of
  compacted ordinals into ranges, legacy checkpoints. `register_successor` has no caller
  in the runtime and is modelled as the kernel's API.
* Diary: encryption, memory-only ledgers, the `Lineage` object, the remote receiver,
  edits in the middle of the file (`healthy`'s periodic walk). Data of files that were
  not synced. `DeadStayDead` stops at one lapse. `_append` of the witness neither looks at
  the end of the file nor reports a failure, and `_local_lines` skips a line it cannot read
  (`witness.py` 177-207): once both files end in part of a line, the next kill line of
  each joins that part and is skipped, though both writes succeeded. The remote receiver
  is the code's answer to a lost local file.
* Recovery: the items of `resume.begin`, kill items in the tail (in `Diary`), deterministic
  fakes, connector redaction, `finish_budget`, restoring the runtime's own tables.
* Rounds: drawn child requests and tool holds, exposures, counters and forecasts,
  decisions without a niche, thrash charges, the cascade, a restart between events, the
  exact penalties; the mean latency is a choice of delay; consequence accounts and
  judged-subject references, which only keep a decision longer (a decision may simply
  stay); a failed call is treated as a return. Seen in the code and not in a run: a
  decision on the verdict channel that `_call_expired` times out (`loop.py` 546-561) is
  asked for only while it is pending, so no verdict settles it later, though the
  docstring speaks of "a return that settles it later".
* Orders: funding, liquidation, spot inventory, event contracts, voided returns, service
  income, the cost threshold, patience for a missing mark, the exit fee,
  `forget_released_orders`, the budget's reconciliation. An order that was given up and is
  executed later has its fill refused (section 6): `NothingLostSilently` says what is true of
  it. `_finish_budget` (`venue.py` 470-495), which asks the venue once more for every
  unanswered write before a kill for an exhausted budget, is not modelled: an order it finds
  is bound for the fills read after it; one refused before stays refused.
* WindDown: vaults, an instruments read that fails, a failing reader, Polymarket's
  wind-down; prices are constant. Three limits of the code that the model shares and no run
  checks: `_owed` is emptied when a round starts, so a read that fails in the retry round
  drops the owed target though a round remains; a cancel whose answer is unclear is
  never sent again, because `lookup` cannot answer for a cancel; a target whose attempt is
  known complete is not closed again when a resting order refills the position, which is
  then reported pending.
* Treasury: stalls of a poll are not kept in the state, gas, receipts and income claims,
  pots, class moves, snapshot and restore; the other directions, which have one leg.
* Single-threaded delivery (`events.py`), the contract table (`registry.py`), the text
  store (`artifacts.py`) and decimal parsing (`money.py`): no hard behaviour of their own.
* Charter (amendments, committees, the price law), Polymarket, the cascade, forecasts and
  exposures, the vault, the seller and subscriptions: protocols that belong in the project
  and are not in it yet, see 7.
* `versioning/`, `cortex/`, the public wake and reports: estimation, parsing, rendering.
  `scripts/` drive worlds and audit diaries; they have no state of the system's own.

## 6. Disagreements between the text and the code

* `rounds_unpriced`. The docstring of `_close_assembly_round` (`feedback.py` 2683-2688) says
  a decision with no observed score "is credited exactly as its router credits it: ...
  less the card penalty of its role". A seat's round of a censored or declined decision
  waits for its window (`feedback.py` 2664-2666), but at the close
  `_prune_price_evidence` (`pricing.py` 523-528) drops the price origin of every final
  decision that is neither pending nor owed a router's credit. A self-request owes no
  router anything: censored in the first window, its seat is credited with no penalty.
* `orders_graded`. The docstring of `resolve` (`lots.py` 755-757) says "an outcome never
  depends on how the venue's facts were batched or when this runs". The code waits for the
  horizon only while a lot or an order is open (`lots.py` 797): a flat return is fixed at
  once, and an older fill of another order, read later, would have changed its outcome.
* `orders_winddown`. The docstring of `settle_wind_down` (`venue.py` 251) says the money the
  wind-down's closes realised on a return whose outcome was fixed "is booked to that
  return's owner, once, before the seal". `observe` (`consequence.py` 334-421) keeps every
  fill back while an answer is unknown, and `kill` (`venue.py` 384-468) lifts no hold: after
  a kill with a write unanswered the closing fill is never applied.
* Without a run: `termination.py` 75-76 says "Terminal death by budget requires
  `locked == 0`". `check` answers whenever `wallet.dead`, which compares the whole balance
  with the floor. A vendor's overrun beyond its hold can carry the balance to the floor
  with a tranche locked on paper; ending the world then is sound, and the sentence is not
  true of it. `DeathDecidedOnce` and `DeathEndsWorld` check what the code does.

* Without a run: `_give_up_on_order` (`venue.py` 1679-1681) says of a given-up order that "the
  kill wind-down still reads the venue for it, and a fill the venue eventually admits still
  belongs to this return", and `release_unresolved` (`consequence.py` 112-114) that the money
  such a fill realises "reaches the owner late rather than never". In the code a given-up
  intent is not asked about again by any tick (`venue.py` 1708-1712), nor by `kill` (384-468)
  unless `_finish_budget` called it, so the order stays unbound and `observe` refuses its
  fill (`consequence.py` 374-379). The cursor returns an execution once: a fill refused is
  never read again, also when `_finish_budget` finds the order. TLC reaches such states in
  the `orders` run. `NothingLostSilently` checks what the code does keep: nothing else is
  refused, no part of such an order is in the book, and its return's outcome is censored.
* Without a run: the docstring of `Treasury` (`treasury.py` 132-135) and `docs/manifest.md`
  ("The wait is bounded: a forwarded mint still unobserved once `treasury.forward_wait_ticks`
  ... is stranded ... so new transfers are admitted") give a forwarded exit a bounded time in
  the slot. Once the forwarder has delivered, a mint fee above the fee hold is `fee_unfunded`
  at every tick (`treasury.py` 959-964), without a stall: while the wallet cannot pay, the
  transfer neither completes nor strands and no other is admitted. `SlotFrees` has it as the
  exception `FeeShort`, and fails without it.

## 7. The plan

Done: `Wallet`, `Budget`, `DecisionQueue` over `Outcome`, `Diary`, `Recovery` over
`Submission`, `Rounds`, `Lots`, `Consequences` and `Orders`, `WindDown`, `Treasury`, and the
proofs of section 4. Next, in this order:

1. Over `Rounds`: a retirement whose seat has an open hold (`routing.py` 1784), the cascade,
   forecasts and exposures.
2. `Wallet` over `Diary`: a failed append in the middle of `_commit` (`wallet.py` 412).
3. Polymarket's orders and prediction accounts, beside `Orders`.
4. The charter: motions, committees and votes over windows.
