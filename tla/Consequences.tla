---------------------------- MODULE Consequences ----------------------------
(***************************************************************************)
(* settlement/consequence.py, ReturnConsequences: the consequence book.    *)
(* It holds back every fill while some order's answer is unknown, keeps    *)
(* what each fill did to each open return at the fill's own time, and      *)
(* fixes each return's outcome from its state at its horizon H, the        *)
(* instant it opened plus Horizon.                                         *)
(*                                                                         *)
(* A fill is [order, at, buy, size, px, fee].  An order is named by the    *)
(* write that placed it, <<handle, index>>.                                *)
(***************************************************************************)
EXTENDS Lots

CONSTANT Horizon
ASSUME ConsequencesAssumption == Horizon \in Nat \ {0}

Never == 0 - 1          \* no fill seen yet; a stream delivered through nothing
NoMark == [at |-> Never, px |-> 0]

EmptyBook == [table |-> EmptyTable,
              pending |-> {},       \* writes whose answer is unknown: the hold
              unresolved |-> {},    \* writes given up
              deferred |-> <<>>,    \* fills the hold keeps back, in their order
              history |-> [h \in Returns |-> <<>>],
              filled |-> <<>>,      \* the diary's consequence.fill rows
              refused |-> {},       \* ... and its refused and quarantined fills
              latest |-> Never,     \* fill_ns
              tainted |-> 0,
              reordered |-> {},
              marks |-> [h \in Returns |-> NoMark]]

AccountOpen(b, h) == Open(b.table, h)
HorizonOf(b, h) == b.table.accounts[h].opened + Horizon

-----------------------------------------------------------------------------
(* `_record_effects`: what one fact did to each open return, at its time.      *)
Effect(b, at, after, h) ==
    LET now == LotsOf(after, h)
    IN [at |-> at, lots |-> now, changed |-> LotsOf(b.table, h) # now,
        realized |-> after.accounts[h].realized - b.table.accounts[h].realized]

RecordEffects(b, at, after) ==
    [h \in Returns |->
        LET entry == Effect(b, at, after, h)
        IN IF AccountOpen(b, h) /\ (entry.changed \/ entry.realized # 0)
           THEN Append(b.history[h], entry) ELSE b.history[h]]

(* `_check_fill_order`: a fill older than one already applied taints the lots  *)
(* it leaves, and censors every open return that held or traded them; while    *)
(* tainted lots remain, so does a fill that closes into them.                  *)
Touched(b, after, owner, late) ==
    IF late THEN {owner} \cup {h \in Returns : \/ LotsOf(b.table, h) # <<>>
                                                \/ LotsOf(after, h) # <<>>
                                                \/ b.history[h] # <<>>}
    ELSE {owner}

UncheckedFillOrder(b, f, after) == b   \* mutant: late fills censor nobody

CheckFillOrder(b, f, after) ==
    LET before    == b.table.lots
        held      == after.lots
        owner     == after.orders[f.order].owner
        late      == b.latest # Never /\ f.at < b.latest
        closes    == before # <<>> /\ f.buy # before[1].buy
        survivors == IF closes
                     THEN Cardinality({i \in DOMAIN held : held[i].buy = before[1].buy})
                     ELSE Len(before)
        left      == b.tainted - (Len(before) - survivors)
        touched   == IF late \/ closes THEN Touched(b, after, owner, late) ELSE {}
        checked   == [b EXCEPT !.latest = IF @ > f.at THEN @ ELSE f.at]
    IN IF ~late /\ b.tainted = 0 THEN checked
       ELSE [checked EXCEPT !.reordered = @ \cup {h \in touched \ {WindDown} : AccountOpen(b, h)},
                            !.tainted = IF late THEN Len(held) ELSE IF left > 0 THEN left ELSE 0]

(* A fill of an order nobody owns never enters the shared FIFO; one beyond     *)
(* what its order ordered is quarantined.                                      *)
Refused(b, f) ==
    LET o == b.table.orders[f.order]
    IN o.owner = Nobody \/ o.executed + f.size > o.ordered

ApplyFill(b, f) ==
    IF Refused(b, f) THEN [b EXCEPT !.refused = @ \cup {f}]
    ELSE LET after == Fill(b.table, f)
         IN [CheckFillOrder(b, f, after) EXCEPT !.table = after,
                                                !.history = RecordEffects(b, f.at, after),
                                                !.filled = Append(@, f)]

Observe(b, f) ==
    IF b.pending # {} THEN [b EXCEPT !.deferred = Append(@, f)] ELSE ApplyFill(b, f)

(* The chosen ones of the fills, in their order.                               *)
ObserveEach(b, fills, chosen) ==
    FoldLeftDomain(LAMBDA seen, i : IF i \in chosen THEN Observe(seen, fills[i]) ELSE seen, b, fills)

(* A mid marks every open return whose horizon it reaches and has no mark yet. *)
ObserveMid(b, at, px) ==
    [b EXCEPT !.marks = [h \in Returns |->
        IF AccountOpen(b, h) /\ at >= HorizonOf(b, h) /\ b.marks[h] = NoMark
        THEN [at |-> at, px |-> px] ELSE b.marks[h]]]

-----------------------------------------------------------------------------
(* The hold: lifted by an answer or by giving up; the last one lifted replays  *)
(* what was kept back.                                                         *)
Intent(b, c) == [b EXCEPT !.pending = @ \cup {c}]

Lift(b, c) ==
    LET lifted == [b EXCEPT !.pending = @ \ {c}]
    IN IF lifted.pending # {} THEN lifted
       ELSE ObserveEach([lifted EXCEPT !.deferred = <<>>], b.deferred, DOMAIN b.deferred)

Acknowledged(b, c) == Lift([b EXCEPT !.unresolved = @ \ {c}], c)

GivenUpSilently(b, c) ==   \* mutant: what the hold kept back is not replayed
    [b EXCEPT !.pending = @ \ {c}, !.unresolved = @ \cup {c}]
ReleaseUnresolved(b, c) ==
    IF c \in b.pending THEN Lift([b EXCEPT !.unresolved = @ \cup {c}], c) ELSE b

(* An accepted order is bound to the return that placed it, before its fills.  *)
OrderResult(b, c, size) ==
    IF b.table.orders[c].owner = Nobody
         /\ (AccountOpen(b, c[1]) \/ \E u \in b.unresolved : u[1] = c[1])
    THEN [b EXCEPT !.table = Bind(@, c, c[1], size)] ELSE b

-----------------------------------------------------------------------------
(* The state of a return at its horizon, from its history.                     *)
Before(b, h) == {i \in DOMAIN b.history[h] : b.history[h][i].at <= HorizonOf(b, h)}
Changes(b, h) == {i \in DOMAIN b.history[h] : b.history[h][i].changed}
ChangesBefore(b, h) == Changes(b, h) \cap Before(b, h)

StateAtHorizon(b, h) ==
    LET entries == b.history[h]
    IN [lots |-> IF ChangesBefore(b, h) = {} THEN <<>> ELSE entries[Max(ChangesBefore(b, h))].lots,
        realized |-> Total([i \in DOMAIN entries |-> entries[i].realized], Before(b, h))]

(* `_through_for`: how far every fact the return reads has been delivered.     *)
(* fills is the fill stream's watermark; every other stream, read each tick,   *)
(* is delivered through the instant before now.  A return flat at its horizon  *)
(* needs the fills only through the instant it became flat, one that held      *)
(* nothing before its horizon needs none of them (`_flat_at_horizon`).         *)
Holds(b, h) ==
    LotsOf(b.table, h) # <<>> \/ \E i \in DOMAIN b.history[h] : b.history[h][i].lots # <<>>

LastChange(entries, changes) ==
    entries[CHOOSE i \in changes : \A j \in changes \ {i} :
                entries[j].at < entries[i].at \/ (entries[j].at = entries[i].at /\ j < i)]

NeedsFills(b, h, fills) ==
    \/ Waits(b.table, h)
    \/ /\ Holds(b, h)
       /\ Changes(b, h) # {} => ChangesBefore(b, h) # {}
       /\ ChangesBefore(b, h) # {} =>
            LET last == LastChange(b.history[h], ChangesBefore(b, h))
            IN last.lots # <<>> \/ fills < last.at

ThroughFor(b, h, fills, now) ==
    IF NeedsFills(b, h, fills) THEN Least(fills, now - 1) ELSE now - 1

-----------------------------------------------------------------------------
(* `resolve`: nothing is fixed while an order's answer is unknown.  A return   *)
(* that holds a lot or waits on an order is not fixed before its horizon has   *)
(* passed, nor one held open at it before its mark is final.                   *)
Ready(b, h, fills, now) ==
    LET through == ThroughFor(b, h, fills, now)
        young   == through < HorizonOf(b, h)
    IN /\ b.pending = {}
       /\ AccountOpen(b, h) /\ b.table.accounts[h].finished
       /\ ~((LotsOf(b.table, h) # <<>> \/ Waits(b.table, h)) /\ young)
       /\ StateAtHorizon(b, h).lots # <<>> =>
            b.marks[h] # NoMark /\ b.marks[h].at <= through

Censored(b, h) == h \in b.reordered \/ \E c \in b.unresolved : c[1] = h

Outcome(b, h) ==
    LET state == StateAtHorizon(b, h)
    IN Fix(b.table, h, state.realized + MarkedAt(state.lots, b.marks[h].px),
           state.lots # <<>>, Censored(b, h)).accounts[h]

(* What only an open return reads is dropped with its outcome.                 *)
Resolve(b, fills, now) ==
    LET ready == {h \in Returns : Ready(b, h, fills, now)}
    IN [b EXCEPT !.table.accounts = [h \in Returns |->
                       IF h \in ready THEN Outcome(b, h) ELSE b.table.accounts[h]],
                 !.marks = [h \in Returns |-> IF h \in ready THEN NoMark ELSE b.marks[h]],
                 !.history = [h \in Returns |-> IF h \in ready THEN <<>> ELSE b.history[h]],
                 !.reordered = @ \ ready]

(* `releasable`.                                                               *)
Releasable(b, h) ==
    /\ b.deferred = <<>>
    /\ \A c \in b.pending \cup b.unresolved : c[1] # h
    /\ Closed(b.table, h)
=============================================================================
