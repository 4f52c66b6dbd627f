--------------------------------- MODULE Rounds ---------------------------------
(***************************************************************************)
(* A decision's round in the runtime: one event of the loop from the close   *)
(* of a price window to the release of settled decisions, over the kernel's  *)
(* queue (DecisionQueue).  A router draws a seat or abstains; the seat may    *)
(* request itself; judges' scores settle decisions, now or when their price   *)
(* window closes; cutoffs expire; routers and seats learn; and at a window's  *)
(* boundary what nobody is owed is released.                                 *)
(*                                                                         *)
(* Clock ticks are the world's (`now` is ticks_consumed).  Scores, penalties  *)
(* and weights are abstracted to what a round was trained on: a score or the *)
(* neutral imputation, with its window's card penalty or without.            *)
(***************************************************************************)
EXTENDS DecisionQueue, SequencesExt

CONSTANTS
    Noop,           \* the arm that wakes nobody
    Judges,         \* seats whose decisions are evaluations
    Counted,        \* windows with a card whose share is a count of decisions
    Span,           \* ticks from a decision's opening to its cutoff
    VerdictTimeout, \* ticks a producer's return waits for a judge
    Patience,       \* ticks by which an evaluation's two signals have closed
    MinRatio,       \* the ratio of an outer loop to its inner one
    Horizon,        \* ticks a tombstone is kept
    OpenBy,         \* bound: the last tick at which decisions are opened
    CloseBy,        \* bound: the tick by which the first window closes
    MaxWindow       \* bound: the last price window

Windows == 0 .. MaxWindow

ASSUME RoundsAssumption ==
    /\ Noop \in Contracts /\ Judges \subseteq Contracts \ {Noop}
    /\ Declaring = Contracts \ {Noop}
    /\ {"settled", "censored", "inapplicable"} \subseteq Submitted
    /\ Counted \subseteq Windows \ {MaxWindow} /\ None \notin Int /\ None \notin BOOLEAN
    /\ Span \in Nat \ {0} /\ MinRatio \in Nat /\ Patience \in Nat /\ VerdictTimeout \in 0 .. Span - 1
    /\ Horizon \in Nat

VARIABLES
    phase,          \* what the loop does next with the event in hand
    crossed,        \* this event closed a price window
    window,         \* the open price window; the ones before it are closed
    router,         \* the router that draws
    replaced,       \* replaced routers not drained yet, in order (retired_routers)
    calls,          \* decisions whose seat is being invoked
    pending,        \* returns awaiting a judgement, evaluations their signals
    refused,        \* pending returns whose seat answered `cannot`
    deferred,       \* scores waiting for their window's close
    origin,         \* handle |-> the window that prices it, or None
    filed,          \* <<handle, window>>: the rows of the windows' decisions
    raw,            \* handle |-> its score's penalty at settlement, or None
    keys,           \* decisions whose draw is frozen under a key (snapshot_keys)
    rounds,         \* keys open in the routers' learners
    credit,         \* handle |-> when its neutral credit is due, or None
    seatRounds,     \* decisions whose seat's own learner has an open round
    seen,           \* router |-> returns it has read (delivered_seen)
    clocked,        \* decisions with a tick record (decision_ticks)
    tally, evidence,    \* committee eligibility: per seat, and what was counted
    \* History variables: what trained the router and the seat of a decision,
    \* and the window it was first measured in.
    routed, seated, measured

windowVars == <<window, origin, filed, raw, measured>>
scoreVars == <<calls, pending, refused, deferred>>
routerVars == <<router, replaced>>
learnVars == <<keys, rounds, credit, seatRounds, seen, clocked, routed, seated>>
tallyVars == <<tally, evidence>>
rvars == <<qvars, phase, crossed, windowVars, scoreVars, routerVars, learnVars, tallyVars>>

-------------------------------------------------------------------------------
Issued == 0 .. opened - 1
OpenedAt(h) == decision[h].deadline - Span
Age(h) == now - OpenedAt(h)
Open(h) == status[h] \in Awaiting
Priced == {h \in Handles : origin[h] # None}
Credited == {h \in Handles : credit[h] # None}
Scored == {h \in Handles : raw[h] # None}

(* A self-request is held by its parent's router, which never drew it. *)
Sampled(h) == decision[h].parent = None

(* The count a penalty is a share of is known once its window has closed. *)
AwaitsForever(h) == origin[h] # None /\ origin[h] \in Counted    \* mutant: the close is not seen
AwaitsClose(h) == origin[h] = window /\ window \in Counted
Charged(h) == origin[h] # None /\ origin[h] \in Counted

Contribution(h) ==
    /\ origin' = [origin EXCEPT ![h] = IF @ = None THEN window ELSE @]
    /\ measured' = [measured EXCEPT ![h] = window]
    /\ filed' = filed \cup {<<h, window>>}

RoundsInit ==
    /\ QueueInit
    /\ phase = "idle" /\ crossed = FALSE /\ window = 0
    /\ router = CHOOSE a \in Actors : TRUE
    /\ replaced = <<>>
    /\ calls = {} /\ pending = {} /\ refused = {} /\ deferred = {}
    /\ origin = [h \in Handles |-> None] /\ filed = {}
    /\ raw = [h \in Handles |-> None]
    /\ keys = {} /\ rounds = {} /\ credit = [h \in Handles |-> None]
    /\ seatRounds = {} /\ seen = [a \in Actors |-> 0] /\ clocked = {}
    /\ tally = [k \in Contracts |-> 0] /\ evidence = {}
    /\ measured = [h \in Handles |-> None]
    /\ routed = [h \in Handles |-> <<>>] /\ seated = [h \in Handles |-> <<>>]

-------------------------------------------------------------------------------
(* An event arrives, a tick of the world or one the world made itself; the    *)
(* price window closes with it when its period has passed.                   *)
BeginEvent(ticked) ==
    /\ phase = "idle"
    /\ IF ticked THEN Tick ELSE UNCHANGED qvars
    /\ \E crosses \in BOOLEAN :
        /\ crosses => window < MaxWindow
        /\ ~crosses => window > 0 \/ now' < CloseBy
        /\ crossed' = crosses
        /\ window' = IF crosses THEN window + 1 ELSE window
        /\ phase' = IF crosses THEN "close" ELSE "route"
    /\ UNCHANGED <<origin, filed, raw, measured, scoreVars, routerVars, learnVars, tallyVars>>

(* _settle_priced: a score settles its decision, less its penalty, unless     *)
(* the penalty waits for its window's close.                                 *)
SettlePriced(h) ==
    IF AwaitsClose(h)
    THEN deferred' = deferred \cup {h} /\ UNCHANGED <<qvars, raw>>
    ELSE /\ Settle(h, "settled")
         /\ raw' = [raw EXCEPT ![h] = Charged(h)]
         /\ deferred' = deferred \ {h}

(* The scores that waited for the window that has just closed. *)
SettleDeferred(h) ==
    /\ phase = "close" /\ h \in deferred
    /\ IF Open(h) THEN SettlePriced(h)
       ELSE deferred' = deferred \ {h} /\ UNCHANGED <<qvars, raw>>
    /\ UNCHANGED <<phase, crossed, window, origin, filed, measured, calls, pending, refused,
                   routerVars, learnVars, tallyVars>>

(* _prune_price_evidence, and forget_ticks: what no learner will read again. *)
StillPriced(h) == Open(h) \/ h \in pending \/ h \in Credited
PruneEvidence ==
    /\ phase = "close" /\ deferred = {}
    /\ raw' = [h \in Handles |->
            IF h \in Scored /\ ~Open(h) /\ h \notin seatRounds /\ ~Owed(h) THEN None ELSE raw[h]]
    /\ origin' = [h \in Handles |-> IF h \in Priced /\ StillPriced(h) THEN origin[h] ELSE None]
    /\ LET kept == {window} \cup {origin'[h] : h \in {g \in Handles : origin'[g] # None}}
       IN  filed' = {row \in filed : row[2] \in kept}
    /\ clocked' = {h \in clocked : h \in Credited \/ (h \in retained /\ Owed(h))}
    /\ phase' = "route"
    /\ UNCHANGED <<qvars, crossed, window, measured, scoreVars, routerVars, keys, rounds, credit,
                   seatRounds, seen, routed, seated, tallyVars>>

-------------------------------------------------------------------------------
(* Routing.  A draw opens a decision under a frozen key; an abstention is     *)
(* settled at once; a seat is invoked.                                       *)
Abstaining == {h \in Pending : decision[h].contract = Noop}
Declining == {h \in refused : decision[h].contract \in Judges}
Routing == phase = "route" /\ Abstaining = {} /\ Declining = {}

Draw(k) ==
    LET h == opened IN
    /\ Routing /\ calls = {} /\ now <= OpenBy
    /\ OpenDecision(router, k, CHOOSE c \in Channels : TRUE, now + Span, None)
    /\ keys' = keys \cup {h} /\ rounds' = rounds \cup {h} /\ clocked' = clocked \cup {h}
    /\ IF k = Noop THEN Contribution(h) /\ UNCHANGED calls
                   ELSE calls' = {h} /\ UNCHANGED <<origin, filed, measured>>
    /\ UNCHANGED <<phase, crossed, window, raw, pending, refused, deferred, routerVars, credit,
                   seatRounds, seen, routed, seated, tallyVars>>

Abstain(h) ==
    /\ phase = "route" /\ h \in Abstaining
    /\ Settle(h, "inapplicable")
    /\ UNCHANGED <<phase, crossed, windowVars, scoreVars, routerVars, learnVars, tallyVars>>

(* A seat requests itself: a child under its parent's router and cutoff. *)
RequestSelf(h) ==
    LET child == opened IN
    /\ Routing /\ calls = {h} /\ status[h] = "pending" /\ decision[h].contract \notin Judges
    /\ OpenDecision(decision[h].actor, decision[h].contract, decision[h].channel,
                    decision[h].deadline, h)
    /\ calls' = calls \cup {child} /\ clocked' = clocked \cup {child}
    /\ UNCHANGED <<phase, crossed, windowVars, pending, refused, deferred, routerVars, keys,
                   rounds, credit, seatRounds, seen, routed, seated, tallyVars>>

(* The innermost call in progress. *)
Calling(h) == h \in calls /\ \A g \in calls : g <= h

(* A call that outlives its deadline times its decision out on the spot. *)
CallExpired(h) ==
    /\ Routing /\ Calling(h) /\ TimeOut({h})
    /\ UNCHANGED <<phase, crossed, windowVars, scoreVars, routerVars, learnVars, tallyVars>>

(* The seat returns: its own policy is recorded, and opens a round of its     *)
(* own learner when it declared one; the return waits to be judged.          *)
ReturnCall(h, declares, declines) ==
    /\ Routing /\ Calling(h) /\ RecordPropensity(h)
    /\ Contribution(h)
    /\ calls' = calls \ {h} /\ pending' = pending \cup {h}
    /\ refused' = IF declines THEN refused \cup {h} ELSE refused
    /\ seatRounds' = IF declares THEN seatRounds \cup {h} ELSE seatRounds
    /\ UNCHANGED <<phase, crossed, window, raw, deferred, routerVars, keys, rounds, credit, seen,
                   clocked, routed, seated, tallyVars>>

(* A judge's refusal settles when it is answered, a producer's when it was     *)
(* not graded in time (CensorStale).                                         *)
Leaves(h) == pending' = pending \ {h} /\ refused' = refused \ {h}
RefuseJudging(h) ==
    /\ phase = "route" /\ h \in Declining
    /\ Settle(h, "inapplicable") /\ Leaves(h)
    /\ UNCHANGED <<phase, crossed, windowVars, calls, deferred, routerVars, learnVars, tallyVars>>

(* _build_router, _retain_router: a fresh router draws; the one it replaces   *)
(* stays addressable while anything is outstanding, unread or owed.          *)
Outstanding(a) == \E h \in Pending : decision[h].actor = a
OwedAbstention(a) == \E h \in Credited : decision[h].actor = a
ReplaceRouter(b) ==
    /\ Routing /\ calls = {} /\ b \notin retired \cup {router}
    /\ \A n \in 1 .. Len(replaced) : replaced[n] # b
    /\ router' = b
    /\ IF Outstanding(router) \/ DeliveredCount(router) > seen[router] \/ OwedAbstention(router)
       THEN replaced' = Append(replaced, router) /\ UNCHANGED qvars
       ELSE RetireActor(router) /\ UNCHANGED replaced
    /\ UNCHANGED <<phase, crossed, windowVars, scoreVars, learnVars, tallyVars>>

EndRoute ==
    /\ Routing /\ calls = {} /\ phase' = "settle"
    /\ UNCHANGED <<qvars, crossed, windowVars, scoreVars, routerVars, learnVars, tallyVars>>

-------------------------------------------------------------------------------
(* Settlement, after the event was routed. *)
IsEvaluation(h) == decision[h].contract \in Judges

(* A producer's return settles on its judges' verdicts while it waits. *)
Verdict(h) ==
    /\ phase = "settle" /\ h \in pending /\ ~IsEvaluation(h) /\ status[h] = "pending"
    /\ SettlePriced(h) /\ Leaves(h)
    /\ UNCHANGED <<phase, crossed, window, origin, filed, measured, calls, routerVars, learnVars,
                   tallyVars>>

(* An evaluation settles once both its signals have closed, on time or late;  *)
(* with neither it is censored.                                              *)
SettleEvaluation(h, scored) ==
    /\ phase = "settle" /\ h \in pending /\ IsEvaluation(h) /\ Leaves(h)
    /\ IF ~Open(h) THEN UNCHANGED <<qvars, raw, deferred, filed>>
       ELSE IF scored THEN SettlePriced(h) /\ UNCHANGED filed
       ELSE /\ Settle(h, "censored") /\ filed' = filed \cup {<<h, window>>}
            /\ UNCHANGED <<raw, deferred>>
    /\ UNCHANGED <<phase, crossed, window, origin, measured, calls, routerVars, learnVars,
                   tallyVars>>

(* A return nobody judged in time: declined if its seat refused, or censored. *)
Stale == {h \in pending : ~IsEvaluation(h) /\ Age(h) > VerdictTimeout}
CensorStale(h) ==
    /\ phase = "settle" /\ h \in Stale /\ Leaves(h)
    /\ IF h \in refused /\ Open(h)
       THEN Settle(h, "inapplicable") /\ UNCHANGED filed
       ELSE IF h \notin refused /\ status[h] = "pending"
       THEN Settle(h, "censored") /\ filed' = filed \cup {<<h, window>>}
       ELSE UNCHANGED <<qvars, filed>>
    /\ UNCHANGED <<phase, crossed, window, origin, raw, measured, calls, deferred, routerVars,
                   learnVars, tallyVars>>

EndSettle ==
    /\ phase = "settle" /\ Stale = {}
    /\ \A h \in pending : IsEvaluation(h) => Age(h) <= Patience
    /\ phase' = "expire"
    /\ UNCHANGED <<qvars, crossed, windowVars, scoreVars, routerVars, learnVars, tallyVars>>

(* expire_due: a decision at its cutoff times out.  A score that waits for its *)
(* window's close is not late, and a refusal was declined before its cutoff.  *)
Due == {h \in Pending \ deferred : decision[h].deadline <= now}
ExpireDue ==
    /\ phase = "expire" /\ phase' = "deliver"
    /\ IF Due = {} THEN UNCHANGED qvars ELSE TimeOut(Due)
    /\ UNCHANGED <<crossed, windowVars, scoreVars, routerVars, learnVars, tallyVars>>

-------------------------------------------------------------------------------
(* Learning.  The routers' books as a record, so that a pass over the         *)
(* returns is a fold: b.keys, b.rounds, b.credit, b.routed.                  *)
TrainedOn(scored, charged) == [scored |-> scored, charged |-> charged]

DeliveryDeadline(h) == OpenedAt(h) + (1 + MinRatio) * Span
Late(h) == h \in clocked /\ now > DeliveryDeadline(h)

Discard(b, h) == [b EXCEPT !.rounds = @ \ {h}]
OrphanKept(b, h) == b                 \* mutant: its snapshot is left open
Orphan(b, h) == Discard(b, h)       \* a replaced router's round trains nothing
Train(b, h, on) ==
    IF h \in b.rounds
    THEN [Discard(b, h) EXCEPT !.routed[h] = Append(@, on)]
    ELSE b

(* _expire_learning: no round waits beyond its delivery deadline. *)
ExpireCredits(b) ==                 \* mutant: a round whose return never came is kept
    LET stale == {h \in Handles : Late(h) /\ b.credit[h] # None}
    IN  [b EXCEPT !.rounds = @ \ stale,
                  !.credit = [h \in Handles |-> IF h \in stale THEN None ELSE @[h]]]
ExpireLearning(b) ==
    LET stale == {h \in Handles : Late(h) /\ (h \in b.keys \/ b.credit[h] # None)}
    IN  [b EXCEPT !.rounds = @ \ stale, !.keys = @ \ stale,
                  !.credit = [h \in Handles |-> IF h \in stale THEN None ELSE @[h]]]

(* _credit_abstentions: the owed credits that are due, in the router that     *)
(* drew them; one whose router was replaced trains nothing.                  *)
CreditAbstentions(b) ==
    LET kept == ExpireLearning(b)
        due == {h \in Handles : kept.credit[h] # None /\ kept.credit[h] <= now
                                /\ ~AwaitsClose(h)}
        training == {h \in due : decision[h].actor = router /\ h \in kept.rounds}
    IN  [kept EXCEPT !.rounds = @ \ due,
            !.credit = [h \in Handles |-> IF h \in due THEN None ELSE @[h]],
            !.routed = [h \in Handles |-> IF h \in training
                            THEN Append(@[h], TrainedOn(FALSE, Charged(h))) ELSE @[h]]]

(* _learn_router_return: a router learns a decision it drew once, from the     *)
(* first return the decision received.                                       *)
LearnReturn(b, lr, delay) ==
    LET h == lr.handle
        popped == [b EXCEPT !.keys = @ \ {h}]
    IN  CASE h \notin b.keys -> b
          [] h \in b.keys /\ decision[h].contract = Noop ->
                CreditAbstentions([popped EXCEPT !.credit[h] = OpenedAt(h) + delay])
          [] h \in b.keys /\ decision[h].contract # Noop ->
                IF lr.status # "timed_out" /\ Len(returns[h]) > 1 THEN popped
                ELSE IF decision[h].actor # router THEN Orphan(popped, h)
                ELSE IF lr.status = "settled" THEN Train(popped, h, TrainedOn(TRUE, raw[h] = TRUE))
                ELSE IF AwaitsClose(h) THEN [popped EXCEPT !.credit[h] = now]
                ELSE Train(popped, h, TrainedOn(FALSE, Charged(h)))

(* _close_assembly_rounds: a seat's own round closes on its decision's first   *)
(* outcome, when what that outcome is charged is known.                      *)
LastOutcome(h) == Last(returns[h])      \* mutant: a late score trains the seat
FirstOutcome(h) == returns[h][1]
Closing == {h \in seatRounds : /\ status[h] # "pending"
                               /\ FirstOutcome(h) # "settled" => ~AwaitsClose(h)}
SeatLearns(h) == IF FirstOutcome(h) = "settled" THEN TrainedOn(TRUE, raw[h] = TRUE)
                                                ELSE TrainedOn(FALSE, Charged(h))

(* _deliver_returns: the seats first, then each router reads what was         *)
(* delivered to it since it last read, then the owed credits that are due.   *)
CloseSeatRounds ==
    /\ phase = "deliver" /\ phase' = "learn"
    /\ seatRounds' = seatRounds \ Closing
    /\ seated' = [h \in Handles |-> IF h \in Closing THEN Append(seated[h], SeatLearns(h))
                                                     ELSE seated[h]]
    /\ UNCHANGED <<qvars, crossed, windowVars, scoreVars, routerVars, keys, rounds, credit, seen,
                   clocked, routed, tallyVars>>

RouterBooks == [keys |-> keys, rounds |-> rounds, credit |-> credit, routed |-> routed]
Keep(b) == keys' = b.keys /\ rounds' = b.rounds /\ credit' = b.credit /\ routed' = b.routed

Readers == <<router>> \o replaced
Reading == {n \in 1 .. Len(Readers) : seen[Readers[n]] < DeliveredCount(Readers[n])}
ReadNext(delay) ==
    LET a == Readers[CHOOSE n \in Reading : \A m \in Reading : n <= m]
        next == deliveries[a][seen[a] - released[a] + 1]
    IN  /\ phase = "learn" /\ Reading # {}
        /\ Keep(LearnReturn(RouterBooks, next, delay))
        /\ seen' = [seen EXCEPT ![a] = @ + 1]
        /\ UNCHANGED <<qvars, phase, crossed, windowVars, scoreVars, routerVars, seatRounds, clocked,
                       seated, tallyVars>>
CreditDue ==
    /\ phase = "learn" /\ Reading = {} /\ phase' = "drain"
    /\ Keep(CreditAbstentions(RouterBooks))
    /\ UNCHANGED <<qvars, crossed, windowVars, scoreVars, routerVars, seatRounds, seen, clocked,
                   seated, tallyVars>>

(* A replaced router nothing is outstanding or owed for is forgotten. *)
Drained(a) == ~Outstanding(a) /\ ~OwedAbstention(a)
Draining == {n \in 1 .. Len(replaced) : Drained(replaced[n])}
DrainRouter ==
    LET n == CHOOSE n \in Draining : \A m \in Draining : n <= m IN
    /\ phase = "drain" /\ Draining # {}
    /\ RetireActor(replaced[n]) /\ replaced' = RemoveAt(replaced, n)
    /\ UNCHANGED <<phase, crossed, windowVars, scoreVars, router, learnVars, tallyVars>>
EndEvent ==
    /\ phase = "drain" /\ Draining = {}
    /\ phase' = IF crossed THEN "boundary" ELSE "idle"
    /\ UNCHANGED <<qvars, crossed, windowVars, scoreVars, routerVars, learnVars, tallyVars>>

-------------------------------------------------------------------------------
(* A window's boundary: what no reader can reach is dropped.  The deliveries   *)
(* a router has read, then the outcomes not counted yet, then decisions.     *)
Behind == {a \in Actors : seen[a] > released[a]}
ReadDeliveries(a) ==
    /\ phase = "boundary" /\ a \in Behind /\ ReleaseDelivered(a, seen[a])
    /\ UNCHANGED <<phase, crossed, windowVars, scoreVars, routerVars, learnVars, tallyVars>>

Tallied(h) == IsEvaluation(h) /\ status[h] = "settled"
DrainTally ==
    LET counted == {h \in ToSet(finalized) : Tallied(h)} IN
    /\ phase = "boundary" /\ Behind = {} /\ phase' = "release"
    /\ IF finalized = <<>> THEN UNCHANGED qvars ELSE DrainFinalized
    /\ evidence' = evidence \cup counted
    /\ tally' = [k \in Contracts |->
            tally[k] + Cardinality({h \in counted \ evidence : decision[h].contract = k})]
    /\ UNCHANGED <<crossed, windowVars, scoreVars, routerVars, learnVars>>

(* _live_references: the live books that name a decision. *)
NamedByBooks == pending \cup seatRounds \cup Credited \cup Priced \cup deferred \cup Scored
Named(h) == h \in NamedByBooks \/ \E row \in filed : row[1] = h

(* A decision may stay for its consequence account; no other one may go. *)
ReleaseSettled(h) ==
    /\ phase = "release" /\ ~Named(h) /\ ReleaseDecision(h)
    /\ UNCHANGED <<phase, crossed, windowVars, scoreVars, routerVars, learnVars, tallyVars>>

EndBoundary ==
    /\ phase = "release" /\ phase' = "idle"
    /\ keys' = keys \cap retained /\ clocked' = clocked \cap retained
    /\ evidence' = evidence \cap retained
    /\ IF \E h \in tombstones : closed[h] < now - Horizon THEN CompactReleased(now - Horizon)
                                                        ELSE UNCHANGED qvars
    /\ UNCHANGED <<crossed, windowVars, scoreVars, routerVars, rounds, credit, seatRounds, seen,
                   routed, seated, tally>>

-------------------------------------------------------------------------------
(* What the loop does by itself with the event in hand. *)
LoopStep ==
    \/ \E h \in Handles : \/ SettleDeferred(h) \/ Abstain(h) \/ RefuseJudging(h)
                          \/ \E declares, declines \in BOOLEAN : ReturnCall(h, declares, declines)
                          \/ \E scored \in BOOLEAN : SettleEvaluation(h, scored)
                          \/ CensorStale(h)
    \/ PruneEvidence \/ EndRoute \/ EndSettle \/ ExpireDue
    \/ CloseSeatRounds \/ CreditDue \/ \E delay \in 0 .. Span : ReadNext(delay)
    \/ DrainRouter \/ EndEvent \/ DrainTally \/ EndBoundary
    \/ \E a \in Actors : ReadDeliveries(a)

RoundsNext ==
    \/ LoopStep
    \/ \E ticked \in BOOLEAN : BeginEvent(ticked)
    \/ \E k \in Contracts : Draw(k)
    \/ \E h \in Handles : RequestSelf(h) \/ CallExpired(h) \/ Verdict(h) \/ ReleaseSettled(h)
    \/ \E b \in Actors : ReplaceRouter(b)

RoundsSpec == RoundsInit /\ [][RoundsNext]_rvars

(* An event is always worked off, and the world goes on ticking. *)
RoundsFairSpec == RoundsSpec /\ WF_rvars(LoopStep) /\ SF_rvars(BeginEvent(TRUE))

-------------------------------------------------------------------------------
(* Properties. *)
WasCharged(h) == measured[h] # None /\ measured[h] \in Counted

(* A decision trains its router at most once and its seat at most once, both   *)
(* on the same outcome, whatever settles late, times out or waits for its      *)
(* window; and the router is charged the price of the window the decision was  *)
(* taken in (feedback.py 2653-2662, 2761-2790; pricing.py 502-529).           *)
LearnedAlike ==
    \A h \in Handles :
        /\ Len(routed[h]) <= 1 /\ Len(seated[h]) <= 1
        /\ routed[h] # <<>> => routed[h][1].charged = WasCharged(h)
        /\ routed[h] # <<>> /\ seated[h] # <<>> => routed[h] = seated[h]

(* Between events no draw's frozen round is open that nobody will close: it    *)
(* waits under its key or for its credit, never past its delivery deadline     *)
(* (feedback.py 2955-2999, design 2.6).                                       *)
ClosedByDeadline ==
    phase = "idle" => \A h \in rounds : (h \in keys \/ h \in Credited) /\ now <= DeliveryDeadline(h)

(* Whatever the boundary releases, no book of the runtime and no learner's     *)
(* open round is left naming a decision that is gone, and the committee's      *)
(* tally is what a scan of the whole history would count (settled.py 310-340,  *)
(* 386-392, 491-505).                                                         *)
ReleaseLosesNothing ==
    /\ NamedByBooks \cup rounds \cup ToSet(finalized) \subseteq retained
    /\ \A k \in Contracts : tally[k] = Cardinality({h \in Issued :
            Tallied(h) /\ decision[h].contract = k /\ h \notin ToSet(finalized)})

(* A self-request is held by its seat alone, which no router charges in its    *)
(* place: whatever its outcome, the seat is charged the price of the window it *)
(* was taken in (feedback.py 2683-2688, "credited exactly as its router        *)
(* credits it: ... less the card penalty of its role").                       *)
SelfRequestPriced ==
    \A h \in Handles : seated[h] # <<>> /\ ~Sampled(h) => seated[h][1].charged = WasCharged(h)
===============================================================================
