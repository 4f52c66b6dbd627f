------------------------------- MODULE Orders -------------------------------
(***************************************************************************)
(* runtime/venue.py over settlement/consequence.py and lots.py: a live     *)
(* venue, the runtime's order intents, the fill cursor, and the            *)
(* consequence book.  A tick reconciles the uncertain intents, reads the   *)
(* fills and the mid, settles; between ticks a decision is routed, and     *)
(* each of its writes has a durable intent before it is submitted.  A      *)
(* write's answer can be lost, a read can fail or miss a fill that is      *)
(* published later.  A kill winds the position down and books it.          *)
(*                                                                         *)
(* A plan is the sequence of decisions the world routes, a decision the    *)
(* sequence of its writes; a write that `loses` may lose its answer.  Path *)
(* is the price at each tick.  A write is named <<decision, index>>; so is *)
(* the order it places.                                                    *)
(***************************************************************************)
EXTENDS Consequences, FiniteSets

CONSTANTS Plans, Path, Fee, MaxTime, MaxPolls, Rounds

Closing == <<0, 1>>                \* the wind-down's closing order
Writes == OrderIds \ {Closing}

Requests == [op : {"place"}, buy : BOOLEAN, size : Nat \ {0}, loses : BOOLEAN]
              \cup [op : {"cancel"}, target : OrderIds, loses : BOOLEAN]
ASSUME OrdersAssumption ==
    /\ Closing \in OrderIds /\ Writes \subseteq Returns \X (Nat \ {0})
    /\ \A p \in Plans : /\ p \in Seq(Seq(Requests))
                        /\ \A h \in DOMAIN p : h \in Returns /\ \A k \in DOMAIN p[h] : <<h, k>> \in Writes
    /\ MaxTime \in Nat /\ MaxPolls \in Nat \ {0, 1} /\ Rounds \in Nat /\ Fee \in Int
    /\ \A t \in 0 .. MaxTime : Path[t] \in Nat \ {0}

VARIABLES
    plan, next,     \* the world's decisions, and which is routed or to be routed next
    step,           \* its next write; 0 while none is being routed
    now, phase,
    asked,          \* intents reconciled this tick
    reads,          \* reads of the fills the wind-down made
    intents,        \* [Writes -> [status, polls, gaveUp]]
    venue,          \* [Writes -> [state, buy, left, done]]: the orders at the venue
    execs,          \* executions, in the world's order
    seen, waiting,  \* FillCursor: executions returned once; read and withheld
    through,        \* ... and the fill stream's watermark
    book, claims    \* the consequence book; what each return's owner was booked

vars == <<plan, next, step, now, phase, asked, reads, intents, venue, execs, seen, waiting,
          through, book, claims>>
world == <<venue, execs>>
cursor == <<seen, waiting, through>>

Grain == 10
NoIntent == [status |-> "none", polls |-> 0, gaveUp |-> FALSE]
NotPlaced == [state |-> "none", buy |-> TRUE, left |-> 0, done |-> 0]
Write(c) == plan[c[1]][c[2]]
Routed == step > 0
Uncertain(c) == intents[c].status = "uncertain"
Placed(c) == intents[c].status # "none" /\ Write(c).op = "place"
Named(c) == \* the runtime knows the order's venue identity
    c \in Writes /\ Placed(c) /\ intents[c].status \in {"filled", "resting", "cancelled"}

(* Executions of one tick follow each other at instants of their own; a fee   *)
(* is a rate of what the execution traded.                                    *)
Clock == Grain * now
Instant == IF execs = <<>> \/ execs[Len(execs)].at < Clock THEN Clock ELSE execs[Len(execs)].at + 1
Execution(c, buy, size) ==
    [order |-> c, at |-> Instant, buy |-> buy, size |-> size, px |-> Path[now],
     fee |-> Fee * Path[now] * size]

-----------------------------------------------------------------------------
(* The venue.  A resting order executes when the venue matches it.            *)
Execute ==
    /\ phase # "dead"
    /\ \E c \in Writes : \E size \in 1 .. venue[c].left :
        /\ venue[c].state = "resting"
        /\ venue' = [venue EXCEPT ![c].left = @ - size, ![c].done = @ + size,
                                  ![c].state = IF size = venue[c].left THEN "filled" ELSE @]
        /\ execs' = Append(execs, Execution(c, venue[c].buy, size))
    /\ UNCHANGED <<plan, next, step, now, phase, asked, reads, intents, cursor, book, claims>>

(* `_record_order_result` of a certain answer: it binds the order, and lifts  *)
(* the hold.                                                                  *)
Bound(b, c, status) ==
    IF Write(c).op = "cancel"
    THEN IF status = "cancelled" THEN [b EXCEPT !.table = CancelOrder(@, Write(c).target)] ELSE b
    ELSE IF (status = "cancelled" => venue'[c].done > 0) /\ status # "rejected"
         THEN OrderResult(b, c, IF status = "resting" THEN venue'[c].left + venue'[c].done
                                ELSE venue'[c].done)
         ELSE b

Answered(b, c, status) == Acknowledged(Bound(b, c, status), c)

Certain(c, status) ==
    /\ intents' = [intents EXCEPT ![c].status = status]
    /\ book' = Answered(IF intents[c].status = "none" THEN Intent(book, c) ELSE book, c, status)

Unanswered(c, polls) ==
    /\ intents' = [intents EXCEPT ![c].status = "uncertain", ![c].polls = @ + polls]
    /\ book' = IF intents[c].status = "none" THEN Intent(book, c) ELSE book

-----------------------------------------------------------------------------
(* Routing.  `start` admits the return before its writes, `finish` fixes its  *)
(* cost after them.                                                           *)
Route ==
    /\ phase = "idle" /\ ~Routed /\ next \in DOMAIN plan
    /\ step' = 1
    /\ book' = [book EXCEPT !.table = Start(@, next, Clock)]
    /\ UNCHANGED <<plan, next, now, phase, asked, reads, intents, world, cursor, claims>>

(* A placed order executes at once, in part, or rests; its answer is heard    *)
(* (first or by the recovery's lookup) or not, and then the intent is         *)
(* uncertain after two polls.  One that never reached the venue may be        *)
(* refused, or lost.                                                          *)
Place ==
    /\ Routed /\ step \in DOMAIN plan[next] /\ plan[next][step].op = "place"
    /\ LET c == <<next, step>> IN
       \/ /\ \E size \in 0 .. Write(c).size :
               /\ venue' = [venue EXCEPT ![c] =
                      [state |-> IF size = Write(c).size THEN "filled" ELSE "resting",
                       buy |-> Write(c).buy, left |-> Write(c).size - size, done |-> size]]
               /\ execs' = IF size = 0 THEN execs
                           ELSE Append(execs, Execution(c, Write(c).buy, size))
          /\ Certain(c, venue'[c].state) \/ (Write(c).loses /\ Unanswered(c, 2))
       \/ /\ UNCHANGED world
          /\ Certain(c, "rejected") \/ (Write(c).loses /\ Unanswered(c, 2))
    /\ step' = step + 1
    /\ UNCHANGED <<plan, next, now, phase, asked, reads, cursor, claims>>

(* A cancel of an order that is over is a rejection; one whose answer is lost *)
(* is read back by the target's status.                                       *)
Cancels(c) ==
    LET target == Write(c).target IN
    /\ venue' = [venue EXCEPT ![target].state = IF @ = "resting" THEN "cancelled" ELSE @,
                              ![target].left = 0]
    /\ UNCHANGED execs
    /\ \/ Certain(c, IF venue[target].state = "resting" THEN "cancelled" ELSE "rejected")
       \/ Write(c).loses /\ Unanswered(c, 2)

Cancel ==
    /\ Routed /\ step \in DOMAIN plan[next] /\ plan[next][step].op = "cancel"
    /\ LET c == <<next, step>> IN
       IF Named(Write(c).target)
       THEN Cancels(c) \/ (UNCHANGED world /\ Write(c).loses /\ Unanswered(c, 2))
       ELSE UNCHANGED <<world, intents, book>>
    /\ step' = step + 1
    /\ UNCHANGED <<plan, next, now, phase, asked, reads, cursor, claims>>

EndRouting ==
    /\ Routed /\ step \notin DOMAIN plan[next]
    /\ book' = [book EXCEPT !.table = Finish(@, next)]
    /\ next' = next + 1 /\ step' = 0 /\ phase' = "settle"
    /\ UNCHANGED <<plan, now, asked, reads, intents, world, cursor, claims>>

-----------------------------------------------------------------------------
(* A tick.                                                                    *)
Tick ==
    /\ phase = "idle" /\ ~Routed
    /\ now' = IF now < MaxTime THEN now + 1 ELSE now
    /\ phase' = "reconcile" /\ asked' = {}
    /\ UNCHANGED <<plan, next, step, reads, intents, world, cursor, book, claims>>

(* `_reconcile_orders`: each uncertain intent once, in their order; past its  *)
(* bound it is given up, and polled no more.                                  *)
Due == {c \in Writes : Uncertain(c) /\ ~intents[c].gaveUp /\ c \notin asked}
First(c) == \A d \in Due \ {c} : c[1] < d[1] \/ (c[1] = d[1] /\ c[2] < d[2])

(* What the venue's lookup says of a write, if anything it says is an answer. *)
Lookup(c) ==
    IF Write(c).op = "place" THEN venue[c].state
    ELSE LET state == venue[Write(c).target].state
         IN IF state = "cancelled" THEN "cancelled"
            ELSE IF state = "filled" THEN "rejected" ELSE "none"

GiveUp(c) ==
    /\ intents' = [intents EXCEPT ![c].gaveUp = TRUE]
    /\ book' = ReleaseUnresolved(book, c)

Reconcile ==
    /\ phase = "reconcile"
    /\ \E c \in Due :
        /\ First(c) /\ asked' = asked \cup {c}
        /\ UNCHANGED world
        /\ IF intents[c].polls >= MaxPolls THEN GiveUp(c)
           ELSE \/ Lookup(c) # "none" /\ Certain(c, Lookup(c))
                \/ Unanswered(c, 1)
    /\ UNCHANGED <<plan, next, step, now, phase, reads, cursor, claims>>

(* `_confirm_terminal_orders`: every order with no unfilled liability is read *)
(* back; any of the reads may fail.                                           *)
Terminal(c) == venue[c].state \in {"filled", "cancelled"}
ConfirmTerminal ==
    /\ phase = "reconcile" /\ Due = {}
    /\ LET over == {c \in Writes : /\ book.table.orders[c].owner # Nobody
                                   /\ book.table.orders[c].remaining = 0
                                   /\ book.table.orders[c].confirmed = Unconfirmed
                                   /\ Terminal(c)}
       IN \E read \in {{}, over} : book' = [book EXCEPT !.table = ConfirmAll(@, read, venue)]
    /\ phase' = "poll"
    /\ UNCHANGED <<plan, next, step, now, asked, reads, intents, world, cursor, claims>>

-----------------------------------------------------------------------------
(* FillCursor.poll.  An execution of an order not yet named is withheld while *)
(* some submission awaits its identity.                                       *)
Unnamed == {c \in Writes : Placed(c) /\ Uncertain(c) /\ ~intents[c].gaveUp}
AwaitsIdentity(i) == ~Named(execs[i].order) /\ Unnamed # {}

Sizes == [i \in DOMAIN execs |-> execs[i].size]
Done(c, read) == Total(Sizes, {i \in read : execs[i].order = c})

(* `_reconcile`: the read is complete when every named order's size and the   *)
(* account's position agree with what was delivered, and none is withheld.    *)
Position(read) == Total([i \in DOMAIN execs |-> Sign(execs[i].buy) * execs[i].size], read)
Complete(read, held) ==
    /\ Unnamed = {} /\ held = {}
    /\ \A c \in Writes : Named(c) => venue[c].done = Done(c, read)
    /\ Position(DOMAIN execs) = Position(read)

(* The read returns some of the executions not yet returned.                  *)
Read(returned) ==
    LET held == {i \in returned : AwaitsIdentity(i)}
        new  == returned \ held
    IN /\ seen' = seen \cup new
       /\ waiting' = (waiting \cup held) \ new
       /\ \/ through' = IF Complete(seen', waiting') THEN Clock - 1 ELSE Never
          \/ through' = Never                \* the account or a status was not read
       /\ book' = ObserveEach(IF phase = "poll" THEN ObserveMid(book, Clock, Path[now]) ELSE book,
                              execs, new)

Poll ==
    /\ phase = "poll"
    /\ \E returned \in SUBSET (DOMAIN execs \ seen) : Read(returned)
    /\ phase' = "settle"
    /\ UNCHANGED <<plan, next, step, now, asked, reads, intents, world, claims>>

-----------------------------------------------------------------------------
(* `_settle_due_forecasts`: late money first, then every outcome that is      *)
(* ready; an unmarked outcome's money is its owner's.                         *)
Late(b, fixed) == {h \in Owing(b.table, fixed) : Owed(b.table, h) # 0}
SettleLate(b, fixed) == [b EXCEPT !.table = Booked(@, Late(b, fixed))]
LateOf(b, h, fixed) == IF h \in Late(b, fixed) THEN Owed(b.table, h) ELSE 0

SettleDue(b) == Resolve(SettleLate(b, TRUE), through, Clock)
Credited(b, h) ==
    LET before == b.table.accounts[h].payoff
        after  == SettleDue(b).table.accounts[h].payoff
    IN LateOf(b, h, TRUE)
         + IF ~before.fixed /\ after.fixed /\ ~after.marked THEN after.net ELSE 0

Settle ==
    /\ phase = "settle"
    /\ book' = SettleDue(book)
    /\ claims' = [h \in Returns |-> claims[h] + Credited(book, h)]
    /\ phase' = "idle"
    /\ UNCHANGED <<plan, next, step, now, asked, reads, intents, world, cursor>>

(* The release pass, at a window's end.                                       *)
ReleaseSettled ==
    /\ phase = "idle" /\ ~Routed
    /\ \E h \in Returns :
        /\ Releasable(book, h) /\ Clock > HorizonOf(book, h)
        /\ book' = [book EXCEPT !.table = Release(@, h)]
    /\ UNCHANGED <<plan, next, step, now, phase, asked, reads, intents, world, cursor, claims>>

-----------------------------------------------------------------------------
(* `kill`: everything ready is fixed, the wind-down cancels what rests and    *)
(* flattens the position, its closing order is bound to the kernel's account, *)
(* its fills are read, and what they realised is booked.                      *)
Abs(x) == IF x < 0 THEN 0 - x ELSE x
Kill ==
    /\ phase = "idle" /\ ~Routed
    /\ LET net     == Position(DOMAIN execs)
           settled == SettleDue(book)
       IN /\ venue' = [c \in Writes |->
                 IF venue[c].state = "resting"
                 THEN [venue[c] EXCEPT !.state = "cancelled", !.left = 0] ELSE venue[c]]
          /\ execs' = IF net = 0 THEN execs
                      ELSE Append(execs, Execution(Closing, net < 0, Abs(net)))
          /\ book' = IF net = 0 THEN settled
                     ELSE [settled EXCEPT !.table = Bind(@, Closing, WindDown, Abs(net))]
          /\ claims' = [h \in Returns |-> claims[h] + Credited(book, h)]
    /\ phase' = "flat"
    /\ UNCHANGED <<plan, next, step, now, asked, reads, intents, cursor>>

(* `read_wind_down_fills`: until the closing order is observed, or the bound  *)
(* on reads is spent; a read may fail.                                        *)
Observed == reads > 0 /\ \A i \in DOMAIN execs : execs[i].order = Closing => i \in seen
ReadWindDown ==
    /\ phase = "flat" /\ ~Observed /\ reads < Rounds
    /\ reads' = reads + 1
    /\ \/ \E returned \in SUBSET (DOMAIN execs \ seen) : Read(returned)
       \/ UNCHANGED <<cursor, book>>
    /\ UNCHANGED <<plan, next, step, now, phase, asked, intents, world, claims>>

(* `settle_wind_down`: what fixed outcomes are owed late, then what returns   *)
(* never graded realised.                                                     *)
SettleWindDown ==
    /\ phase = "flat" /\ (Observed \/ reads = Rounds)
    /\ LET late == SettleLate(book, TRUE)
       IN /\ book' = SettleLate(late, FALSE)
          /\ claims' = [h \in Returns |-> claims[h] + LateOf(book, h, TRUE) + LateOf(late, h, FALSE)]
    /\ phase' = "dead"
    /\ UNCHANGED <<plan, next, step, now, asked, reads, intents, world, cursor>>

-----------------------------------------------------------------------------
Init ==
    /\ plan \in Plans /\ next = 1 /\ step = 0
    /\ now = 0 /\ phase = "idle" /\ asked = {} /\ reads = 0
    /\ intents = [c \in Writes |-> NoIntent]
    /\ venue = [c \in Writes |-> NotPlaced]
    /\ execs = <<>>
    /\ seen = {} /\ waiting = {} /\ through = Never
    /\ book = EmptyBook
    /\ claims = [h \in Returns |-> 0]

Next ==
    \/ Execute \/ Route \/ Place \/ Cancel \/ EndRouting
    \/ Tick \/ Reconcile \/ ConfirmTerminal \/ Poll \/ Settle \/ ReleaseSettled
    \/ Kill \/ ReadWindDown \/ SettleWindDown

Spec == Init /\ [][Next]_vars

-----------------------------------------------------------------------------
(* The state is well formed: an intent is uncertain only after it is durable, *)
(* and the book's table holds lots of one side only, none of them empty.      *)
Statuses == {"none", "uncertain", "filled", "resting", "cancelled", "rejected"}
OrdersTypeOK ==
    /\ phase \in {"idle", "reconcile", "poll", "settle", "flat", "dead"}
    /\ now \in 0 .. MaxTime /\ next \in 1 .. Len(plan) + 1 /\ reads \in 0 .. Rounds
    /\ intents \in [Writes -> [status : Statuses, polls : 0 .. MaxPolls, gaveUp : BOOLEAN]]
    /\ seen \subseteq DOMAIN execs /\ waiting \subseteq DOMAIN execs \ seen
    /\ book.pending = {c \in Writes : Uncertain(c) /\ ~intents[c].gaveUp}
    /\ \A i, j \in DOMAIN book.table.lots :
        /\ book.table.lots[i].size > 0 /\ book.table.lots[i].owner \in Returns
        /\ book.table.lots[i].buy = book.table.lots[j].buy

(* Every micro-USD of P&L is credited once: what the returns realised and     *)
(* what the open lots cost add up to what the applied fills moved, however    *)
(* the P&L of a closed lot was split between opener, closer and wind-down     *)
(* (lots.py, `fill`); of the wind-down's fill, when every execution before it *)
(* was applied and it has lots to close.                                      *)
Basis(lot) == Sign(lot.buy) * lot.size * lot.px * Scale + lot.charges
Paid(f) == (Sign(f.buy) * f.size * f.px + f.fee) * Scale
Flattens == \A i \in DOMAIN book.filled :
    book.filled[i].order = Closing => i = Len(execs)
CreditedOnce ==
    /\ OrdersTypeOK
    /\ Flattens =>
         Total([h \in Returns |-> book.table.accounts[h].realized], Returns)
           = Total([i \in DOMAIN book.table.lots |-> Basis(book.table.lots[i])],
                   DOMAIN book.table.lots)
             - Total([i \in DOMAIN book.filled |-> Paid(book.filled[i])], DOMAIN book.filled)

(* No execution the cursor returned is lost unannounced: it is applied, held  *)
(* back while an answer is unknown, or refused, and then for good, because    *)
(* its order was given up: no part of that order is in the book, and its      *)
(* return's outcome is fixed only as censored (FillCursor.poll,               *)
(* ReturnConsequences.observe, `_release` and `resolve`).                     *)
IsIn(f, fills) == \E i \in DOMAIN fills : fills[i] = f
Abandoned(c) ==
    LET payoff == book.table.accounts[c[1]].payoff
    IN  intents[c].gaveUp /\ book.table.orders[c].owner = Nobody /\ (payoff.fixed => payoff.censored)
NothingLostSilently ==
    \A i \in seen :
        \/ IsIn(execs[i], book.filled)
        \/ IsIn(execs[i], book.deferred) /\ book.pending # {}
        \/ execs[i] \in book.refused /\ Abandoned(execs[i].order)

(* The reference: the FIFO applied to the executions themselves, in the       *)
(* world's order, all of them up to the return's horizon.                     *)
AllBound == [EmptyTable EXCEPT !.orders =
    [c \in OrderIds |-> [NoOrder EXCEPT !.owner = c[1]]]]
ByHorizon(h) ==
    FoldLeft(Fill, AllBound, SelectSeq(execs, LAMBDA e :
        e.at <= HorizonOf(book, h) /\ e.order # Closing /\ ~intents[e.order].gaveUp))
Reference(h) ==
    LET t == ByHorizon(h)
    IN Floor(t.accounts[h].realized
             + MarkedAt(LotsOf(t, h), Path[HorizonOf(book, h) \div Grain]))
Certified(h) == LET p == book.table.accounts[h].payoff IN p.fixed /\ ~p.censored

(* A marked outcome that is not censored is what the world did by its         *)
(* horizon: its lots, its realised money and its mark do not depend on how    *)
(* the fills were batched, held back or when the tick ran (`resolve`).        *)
MarkedByFacts ==
    \A h \in Returns :
        Certified(h) /\ book.table.accounts[h].payoff.marked
            => book.table.accounts[h].payoff.net = Reference(h)

(* The same of every outcome.  The code fixes a flat return before its        *)
(* horizon, and before the fills are delivered through the instant it became  *)
(* flat: an older fill read later changes the world's answer, not the         *)
(* outcome.                                                                   *)
GradedByFacts ==
    \A h \in Returns : Certified(h) => book.table.accounts[h].payoff.net = Reference(h)

(* A return's owner is booked what the return realised, once: when the return *)
(* leaves the book, and when the world is dead, whatever part was booked with *)
(* its outcome, late, or at the termination (feedback.py,                     *)
(* `_credit_consequence`, `_settle_late`, `_settle_realized_at_termination`). *)
PaidOnce ==
    \A h \in Returns :
        phase = "dead" \/ book.table.accounts[h].state = "released"
            => claims[h] = Floor(book.table.accounts[h].realized)

(* A released return is over: each execution of its orders, also one not yet  *)
(* read, is in the book already (`closed`, `releasable`).                     *)
ReleasedIsOver ==
    \A h \in Returns : book.table.accounts[h].state = "released" =>
        \A i \in DOMAIN execs : execs[i].order[1] = h => IsIn(execs[i], book.filled)

(* What `settle_wind_down` says of itself: what the wind-down's closes        *)
(* realised on a return whose outcome was already fixed is booked before the  *)
(* seal.  A write still unanswered at the kill keeps the wind-down's fills    *)
(* back, and nothing lifts that hold: such a return is left with lots that an *)
(* observed fill, never applied, has closed.                                  *)
FixedHolding(h) == book.table.accounts[h].payoff.fixed /\ LotsOf(book.table, h) # <<>>
WindDownBooked ==
    phase = "dead" /\ Observed /\ (\E h \in Returns : FixedHolding(h)) =>
        \A i \in DOMAIN execs : execs[i].order = Closing => IsIn(execs[i], book.filled)
=============================================================================
