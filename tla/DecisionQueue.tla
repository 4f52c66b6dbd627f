----------------------------- MODULE DecisionQueue -----------------------------
(***************************************************************************)
(* The decision queue of kernel/queue.py: every sampled action has a handle *)
(* a later score can be attached to, until nothing is owed to it.           *)
(*                                                                         *)
(* Handles are the ledger's ordinals, in opening order.  A method is one    *)
(* step of one thread; a refusal (ValueError, KeyError, Released) changes   *)
(* nothing and has no action.  Scores, definition versions and the sampled  *)
(* distributions are data no property tells apart and are left out, as is   *)
(* the author a tombstone names.                                           *)
(***************************************************************************)
EXTENDS Integers, Sequences, FiniteSets

CONSTANTS
    Actors,         \* the learners that sample, and may retire
    Contracts,      \* what a sampled action may choose
    Declaring,      \* the contracts whose deciding agent declares a propensity
    Channels,       \* score channels a decision may declare
    Keys,           \* action keys a decision may record
    Submitted,      \* the outcome statuses a settlement may submit
    None,           \* Python's None
    MaxHandles,     \* bound: decisions ever opened
    MaxTime         \* bound: the clock

Handles == 0 .. MaxHandles - 1
Outcomes == Submitted \cup {"historical"}
Awaiting == {"pending", "timed_out"}

ASSUME QueueAssumption ==
    /\ IsFiniteSet(Actors) /\ Actors # {} /\ Contracts # {} /\ Channels # {}
    /\ Declaring \subseteq Contracts
    /\ Submitted \subseteq {"settled", "censored", "inapplicable"}
    /\ MaxHandles \in Nat /\ MaxTime \in Nat
    /\ None \notin Handles /\ None \notin Actors /\ None \notin Channels
    /\ "timeout" \notin Channels

VARIABLES
    now,
    opened,         \* handles issued so far: 0 .. opened - 1
    retained,       \* the handles whose decision is still kept in full
    decision,       \* handle |-> the immutable fields of its decision
    status,         \* handle |-> status; survives as the tombstone's status
    closed,         \* handle |-> when its outcome was retained
    returns,        \* handle |-> statuses of the returns it received
    declared,       \* handles with the deciding agent's own propensity
    actions,        \* handle |-> recorded actions not yet folded
    retired, successor,     \* actors; actor |-> <<actor, channel map>> or None
    deliveries, released,   \* actor |-> unreleased feedback; how much was released
    settledContracts, settledActions,   \* per contract history
    tombstones, compacted,  \* released handles, before and after compaction
    finalized,      \* outcomes not yet drained, in order
    children, unread,       \* derived: retained children; unreleased deliveries
    \* History variables.
    took, trailed   \* actions a handle ever took; handles that ever had a trail

actorVars == <<retired, successor>>
deliveryVars == <<deliveries, released, unread>>
releaseVars == <<tombstones, compacted>>
evidenceVars == <<declared, actions, settledActions, took, trailed>>
qvars == <<now, opened, retained, decision, status, closed, returns, declared, actions,
           retired, successor, deliveries, released, settledContracts, settledActions,
           tombstones, compacted, finalized, children, unread, took, trailed>>

-------------------------------------------------------------------------------
Decisions == [actor : Actors, contract : Contracts, channel : Channels,
              deadline : Nat, parent : Handles \cup {None}]

NoDecision == [actor |-> CHOOSE a \in Actors : TRUE,
               contract |-> CHOOSE k \in Contracts : TRUE,
               channel |-> CHOOSE c \in Channels : TRUE,
               deadline |-> 0, parent |-> None]       \* a handle not yet issued

Pending == {h \in retained : status[h] = "pending"}
DeliveredCount(a) == released[a] + Len(deliveries[a])

(* The living actor a return reaches and the channel it arrives on: each     *)
(* retired actor hands over to its successor if the map knows the channel.   *)
HopToTheLast(at) ==                 \* mutant: a retired learner without a successor learns
    IF at[1] = None \/ at[1] \notin retired \/ successor[at[1]] = None THEN at
    ELSE <<successor[at[1]][1], at[2]>>
Hop(at) ==
    IF at[1] = None \/ at[1] \notin retired THEN at
    ELSE LET next == successor[at[1]] IN
         IF next = None \/ next[2][at[2]] = None THEN <<None, at[2]>>
         ELSE <<next[1], next[2][at[2]]>>
Route(a, c) ==
    LET hops[n \in 0 .. Cardinality(Actors)] == IF n = 0 THEN <<a, c>> ELSE Hop(hops[n - 1])
    IN  hops[Cardinality(Actors)]

(* Appending one return per routed handle, in order. *)
Deliver(a, items) ==
    IF a = None THEN UNCHANGED deliveries
    ELSE deliveries' = [deliveries EXCEPT ![a] = @ \o items]

(* _history: with a propensity or a return, the taken actions are historied. *)
Historicize(h, taken, hasTrail) ==
    settledActions' = IF hasTrail
                      THEN [settledActions EXCEPT ![decision[h].contract] = @ \cup taken]
                      ELSE settledActions

(* How many retained decisions name a handle as their parent. *)
AddChild(parent) ==
    children' = IF parent = None THEN children ELSE [children EXCEPT ![parent] = @ + 1]
DropsNoChild(parent) == UNCHANGED children      \* mutant: a released child still counts
DropChild(parent) ==
    children' = IF parent = None THEN children ELSE [children EXCEPT ![parent] = @ - 1]

-------------------------------------------------------------------------------
QueueInit ==
    /\ now = 0 /\ opened = 0 /\ retained = {}
    /\ decision = [h \in Handles |-> NoDecision]
    /\ status = [h \in Handles |-> "none"] /\ closed = [h \in Handles |-> 0]
    /\ returns = [h \in Handles |-> <<>>]
    /\ declared = {} /\ actions = [h \in Handles |-> {}]
    /\ retired = {} /\ successor = [a \in Actors |-> None]
    /\ deliveries = [a \in Actors |-> <<>>] /\ released = [a \in Actors |-> 0]
    /\ settledContracts = {} /\ settledActions = [k \in Contracts |-> {}]
    /\ tombstones = {} /\ compacted = {} /\ finalized = <<>>
    /\ children = [h \in Handles |-> 0] /\ unread = [h \in Handles |-> 0]
    /\ took = [h \in Handles |-> {}] /\ trailed = {}

Tick ==
    /\ now < MaxTime /\ now' = now + 1
    /\ UNCHANGED <<opened, retained, decision, status, closed, returns, evidenceVars,
                   actorVars, deliveryVars, settledContracts, releaseVars, finalized, children>>

(* A decision is opened by an active actor, under a retained parent or none. *)
OpenDecision(a, k, c, deadline, parent) ==
    LET h == opened IN
    /\ h < MaxHandles /\ a \notin retired /\ deadline >= now
    /\ parent \in retained \cup {None}
    /\ opened' = h + 1 /\ retained' = retained \cup {h}
    /\ decision' = [decision EXCEPT ![h] = [actor |-> a, contract |-> k, channel |-> c,
                                            deadline |-> deadline, parent |-> parent]]
    /\ status' = [status EXCEPT ![h] = "pending"]
    /\ AddChild(parent)
    /\ UNCHANGED <<now, closed, returns, evidenceVars, actorVars, deliveryVars,
                   settledContracts, releaseVars, finalized>>

(* The deciding agent's own propensity: a second record on an open handle. *)
RecordPropensity(h) ==
    /\ h \in retained /\ status[h] \in Awaiting /\ decision[h].contract \in Declaring
    /\ declared' = declared \cup {h} /\ trailed' = trailed \cup {h}
    /\ Historicize(h, actions[h], TRUE)
    /\ UNCHANGED <<now, opened, retained, decision, status, closed, returns, actions, took,
                   actorVars, deliveryVars, settledContracts, releaseVars, finalized, children>>

(* The actions an open decision took; historied as soon as it has a trail. *)
RecordActions(h, keys) ==
    /\ h \in retained /\ status[h] \in Awaiting
    /\ keys \ actions[h] # {}
    /\ actions' = [actions EXCEPT ![h] = @ \cup keys]
    /\ took' = [took EXCEPT ![h] = @ \cup keys]
    /\ Historicize(h, actions[h] \cup keys, h \in declared \/ returns[h] # <<>>)
    /\ UNCHANGED <<now, opened, retained, decision, status, closed, returns, declared, trailed,
                   actorVars, deliveryVars, settledContracts, releaseVars, finalized, children>>

RetireActor(a) ==
    /\ a \notin retired /\ retired' = retired \cup {a}
    /\ UNCHANGED <<now, opened, retained, decision, status, closed, returns, evidenceVars,
                   successor, deliveryVars, settledContracts, releaseVars, finalized, children>>

(* One immutable map per retired actor, and no cycle of successors. *)
Reaches(a, b) ==
    LET walk[n \in 0 .. Cardinality(Actors)] ==
            IF n = 0 THEN a
            ELSE IF walk[n - 1] = None \/ successor[walk[n - 1]] = None THEN None
            ELSE successor[walk[n - 1]][1]
    IN  \E n \in 0 .. Cardinality(Actors) : walk[n] = b

RegisterSuccessor(a, b, compat) ==
    /\ successor[a] = None /\ ~Reaches(b, a)
    /\ successor' = [successor EXCEPT ![a] = <<b, compat>>]
    /\ retired' = retired \cup {a}
    /\ UNCHANGED <<now, opened, retained, decision, status, closed, returns, evidenceVars,
                   deliveryVars, settledContracts, releaseVars, finalized, children>>

-------------------------------------------------------------------------------
(* The one outcome of a decision, on time or late: retained on its handle,  *)
(* delivered to the living actor its channel routes to.                     *)
SettleableOnceMore(h) == h \in retained    \* mutant: finality is not checked
Settleable(h) == h \in retained /\ status[h] \in Awaiting

Settle(h, outcome) ==
    LET to == Route(decision[h].actor, decision[h].channel)
        kept == IF to[1] = None THEN "historical" ELSE outcome
    IN  /\ Settleable(h)
        /\ status' = [status EXCEPT ![h] = kept]
        /\ returns' = [returns EXCEPT ![h] = Append(@, kept)]
        /\ closed' = [closed EXCEPT ![h] = now]
        /\ finalized' = Append(finalized, h)
        /\ settledContracts' = settledContracts \cup {decision[h].contract}
        /\ Historicize(h, actions[h], TRUE)
        /\ actions' = [actions EXCEPT ![h] = {}] /\ trailed' = trailed \cup {h}
        /\ Deliver(to[1], <<[handle |-> h, status |-> outcome, channel |-> to[2]]>>)
        /\ unread' = IF to[1] = None THEN unread ELSE [unread EXCEPT ![h] = @ + 1]
        /\ UNCHANGED <<now, opened, retained, decision, declared, took, actorVars, released,
                       releaseVars, children>>

(* time_out: each named decision that is still pending is penalised once.   *)
TimeOut(handles) ==
    LET late == handles \cap Pending
        recipient == [h \in late |-> Route(decision[h].actor, decision[h].channel)[1]]
        penalty(h) == [handle |-> h, status |-> "timed_out", channel |-> "timeout"]
        \* time_out visits its handles in opening order
        Sent(a) == {h \in late : recipient[h] = a}
        Nth(a, n) == CHOOSE h \in Sent(a) : Cardinality({g \in Sent(a) : g <= h}) = n
    IN  /\ late # {}
        /\ status' = [h \in Handles |-> IF h \in late THEN "timed_out" ELSE status[h]]
        /\ returns' = [h \in Handles |-> IF h \in late THEN Append(returns[h], "timed_out")
                                         ELSE returns[h]]
        /\ settledActions' = [k \in Contracts |-> settledActions[k] \cup
                UNION {actions[h] : h \in {g \in late : decision[g].contract = k}}]
        /\ trailed' = trailed \cup late
        /\ deliveries' = [a \in Actors |-> deliveries[a] \o
                [n \in 1 .. Cardinality(Sent(a)) |-> penalty(Nth(a, n))]]
        /\ unread' = [h \in Handles |-> IF h \in late /\ recipient[h] # None
                                        THEN unread[h] + 1 ELSE unread[h]]
        /\ UNCHANGED <<now, opened, retained, decision, closed, declared, actions, took,
                       actorVars, released, settledContracts, releaseVars, finalized, children>>

(* expire: every pending decision whose deadline has passed. *)
Expired == {h \in Pending : decision[h].deadline <= now}
Expire == TimeOut(Expired)

-------------------------------------------------------------------------------
(* A consumer has read its first `through` returns: its copies are dropped. *)
KeptAfter(a, through) ==
    SubSeq(deliveries[a], through - released[a] + 1, Len(deliveries[a]))

ReleaseDelivered(a, through) ==
    LET gone == 1 .. through - released[a]
    IN  /\ through > released[a] /\ through <= DeliveredCount(a)
        /\ unread' = [h \in Handles |->
                unread[h] - Cardinality({n \in gone : deliveries[a][n].handle = h})]
        /\ deliveries' = [deliveries EXCEPT ![a] = KeptAfter(a, through)]
        /\ released' = [released EXCEPT ![a] = through]
        /\ UNCHANGED <<now, opened, retained, decision, status, closed, returns, evidenceVars,
                       actorVars, settledContracts, releaseVars, finalized, children>>

(* The kernel's own debts. *)
OwedToReaders(h) == children[h] # 0 \/ unread[h] # 0      \* mutant: status is not asked
OwedInTheFamily(h) == status[h] \in Awaiting \/ children[h] # 0    \* mutant: no readers
Owed(h) == \/ status[h] \in Awaiting
           \/ children[h] # 0
           \/ unread[h] # 0

(* A decision nothing is owed to drops its bulk and leaves a tombstone. *)
ReleaseDecision(h) ==
    /\ h \in retained /\ ~Owed(h)
    /\ retained' = retained \ {h}
    /\ returns' = [returns EXCEPT ![h] = <<>>]
    /\ declared' = declared \ {h} /\ actions' = [actions EXCEPT ![h] = {}]
    /\ DropChild(decision[h].parent)
    /\ tombstones' = tombstones \cup {h}
    /\ UNCHANGED <<now, opened, decision, status, closed, settledActions, took, trailed,
                   actorVars, deliveryVars, settledContracts, compacted, finalized>>

(* Tombstones that settled before the horizon become counts and ordinals. *)
CompactReleased(before) ==
    LET due == {h \in tombstones : closed[h] < before}
    IN  /\ due # {}
        /\ tombstones' = tombstones \ due /\ compacted' = compacted \cup due
        /\ UNCHANGED <<now, opened, retained, decision, status, closed, returns, evidenceVars,
                       actorVars, deliveryVars, settledContracts, finalized, children>>

DrainFinalized ==
    /\ finalized # <<>> /\ finalized' = <<>>
    /\ UNCHANGED <<now, opened, retained, decision, status, closed, returns, evidenceVars,
                   actorVars, deliveryVars, settledContracts, releaseVars, children>>

(* A restart: the books come from the checkpoint, what is derived is recounted. *)
RecountChildren == [h \in Handles |-> Cardinality({c \in retained : decision[c].parent = h})]
RecountUnread ==
    LET held(h, a) == {n \in 1 .. Len(deliveries[a]) : deliveries[a][n].handle = h}
    IN  [h \in Handles |-> Cardinality(UNION {{a} \X held(h, a) : a \in Actors})]
Restore ==
    /\ children' = RecountChildren /\ unread' = RecountUnread
    /\ UNCHANGED <<now, opened, retained, decision, status, closed, returns, evidenceVars,
                   actorVars, deliveries, released, settledContracts, releaseVars, finalized>>

-------------------------------------------------------------------------------
ChannelMaps == [Channels -> Channels \cup {None}]

QueueNext ==
    \/ Tick \/ Expire \/ DrainFinalized \/ Restore
    \/ \E a \in Actors, k \in Contracts, c \in Channels, d \in 0 .. MaxTime,
          parent \in Handles \cup {None} : OpenDecision(a, k, c, d, parent)
    \/ \E h \in Handles : \/ RecordPropensity(h) \/ ReleaseDecision(h)
                          \/ \E keys \in SUBSET Keys : RecordActions(h, keys)
                          \/ \E outcome \in Submitted : Settle(h, outcome)
    \/ \E handles \in SUBSET Handles : TimeOut(handles)
    \/ \E a \in Actors : \/ RetireActor(a)
                         \/ \E b \in Actors, m \in ChannelMaps : RegisterSuccessor(a, b, m)
                         \/ \E n \in 1 .. 2 * MaxHandles : ReleaseDelivered(a, n)
    \/ \E before \in 1 .. MaxTime : CompactReleased(before)

QueueSpec == QueueInit /\ [][QueueNext]_qvars

-------------------------------------------------------------------------------
(* Properties. *)

(* The types of the books; every issued handle keeps answering: its decision *)
(* is retained, or it is a tombstone, or its ordinal was compacted.          *)
QueueTypeOK ==
    /\ now \in Nat /\ opened \in 0 .. MaxHandles
    /\ 0 .. opened - 1 = retained \cup tombstones \cup compacted
    /\ retained \cap (tombstones \cup compacted) = {} /\ tombstones \cap compacted = {}
    /\ decision \in [Handles -> Decisions]
    /\ status \in [Handles -> Awaiting \cup Outcomes \cup {"none"}]
    /\ closed \in [Handles -> Nat]
    /\ declared \subseteq retained /\ retired \subseteq Actors
    /\ \A a \in Actors : released[a] \in Nat
    /\ settledContracts \subseteq Contracts

(* Whatever times out, retires or settles first, a retained decision has     *)
(* received at most one penalty and at most one outcome, in that order, and  *)
(* its status is the last of them (queue.py 435-532).                        *)
OneOutcome ==
    \A h \in retained :
        CASE status[h] = "pending" -> returns[h] = <<>>
          [] status[h] = "timed_out" -> returns[h] = <<"timed_out">>
          [] OTHER -> /\ status[h] \in Outcomes
                      /\ returns[h] \in {<<status[h]>>, <<"timed_out", status[h]>>}

(* A decision leaves the queue only when nothing is owed to it any more: it   *)
(* has its outcome and no return delivered for it waits to be read (queue.py  *)
(* 607-663); a late settlement keeps its right however late it is, and what   *)
(* has left keeps answering as a tombstone or a compacted ordinal (691).      *)
NothingOwedReleased ==
    /\ QueueTypeOK
    /\ \A h \in 0 .. opened - 1 : h \notin retained => status[h] \in Outcomes
    /\ \A a \in Actors : \A n \in 1 .. Len(deliveries[a]) : deliveries[a][n].handle \in retained

(* Every ancestry walk from a retained decision is whole: whatever order a    *)
(* chain of requests settles and is released in, no retained decision names a *)
(* released one as its parent (queue.py 270-284, 621-623, 652-657).           *)
NoOrphans == \A h \in retained : decision[h].parent \in retained \cup {None}

(* A retained decision is whole: its returns, its status and its ancestry.    *)
DecisionsWhole == OneOutcome /\ NoOrphans

(* The counters kept step by step are what a restart would recount: a drift   *)
(* would pin a decision forever or release one that is still owed (762-792).  *)
CountersExact == children = RecountChildren /\ unread = RecountUnread

(* An action is historied for a contract exactly when a decision of it took   *)
(* the action and has a propensity or a return, in whichever order they came, *)
(* and a contract is historied exactly when a decision of it was settled,     *)
(* whatever was released or forgotten since (queue.py 324-354, 471-480).      *)
HistoryExact ==
    /\ settledContracts = {decision[h].contract : h \in {g \in Handles : status[g] \in Outcomes}}
    /\ \A k \in Contracts : settledActions[k] =
            UNION {took[h] : h \in {g \in trailed : decision[g].contract = k}}

(* What the queue keeps step by step is what its whole history says. *)
DerivedExact == CountersExact /\ HistoryExact

(* Feedback reaches only a living actor; when none of the chain lives, the    *)
(* outcome is kept as history and nobody learns from it (queue.py 425-433).   *)
RoutedToLiving ==
    [][/\ \A a \in retired : DeliveredCount(a)' = DeliveredCount(a)
       /\ \A h \in Handles : status'[h] = "historical" /\ status[h] # "historical"
                                  => decision[h].actor \in retired]_qvars

(* Every decision is eventually closed: settled, or penalised for lateness    *)
(* (checked of the loop that ticks and expires, in Rounds).                   *)
EveryDecisionCloses == \A h \in Handles : status[h] = "pending" ~> status[h] # "pending"

(* The queue implements what it promises of every handle. *)
PhaseOf(h) == IF h \notin 0 .. opened - 1 THEN "unopened"
              ELSE IF h \notin retained THEN "released"
              ELSE IF status[h] \in Outcomes THEN "final" ELSE status[h]
Promise == INSTANCE Outcome WITH
    NoOutcome <- "none",
    phase <- [h \in Handles |-> PhaseOf(h)],
    outcome <- [h \in Handles |-> IF status[h] \in Outcomes THEN status[h] ELSE "none"]
PromiseKept == Promise!Spec
===============================================================================
