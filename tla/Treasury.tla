------------------------------- MODULE Treasury -------------------------------
(***************************************************************************)
(* world/treasury.py over the rails of world/treasury_rails.py: one        *)
(* transfer at a time occupies the slot; a strand that can still be        *)
(* completed and a venue action whose nonce window passed leave the slot   *)
(* with their holds.  Two directions are modelled, those with two legs:    *)
(*   to_venice   shadow_send, then venice_top_up       (HybridRail)        *)
(*   to_reserve  withdraw_burn, then mint_base         (LiveRail)          *)
(*                                                                         *)
(* The venue and the two chains are the environment.  An action of the     *)
(* treasury is one call of the runtime (transfer, tick, open_window) and   *)
(* every call it makes; a crash inside a send is one of the send's         *)
(* outcomes, because the journal resends it (or, for a poll-only step,     *)
(* answers Pending) when the diary is replayed.                            *)
(***************************************************************************)
EXTENDS Integers, Sequences, FiniteSetsExt

CONSTANTS Tranche,       \* principal of every transfer (TOP_UP_MICRO)
          FeeCeil,       \* fee_ceiling_micro
          Initial,       \* the wallet's available money at the start
          WindowCap,     \* max_venice_per_window
          TotalCap,      \* max_venice_total_micro
          ForwardCap,    \* max_forward_fees_per_window
          ForwardFee,    \* the quoted forwarding fee of an exit
          Wait,          \* forward_wait_ticks
          NamesNonce,    \* does a venue row name the nonce it executed?
          LateDebits,    \* can a debit appear after its expiry was proven?
          MaxTransfers, MaxAuths, MaxWindow, MaxLoss     \* bounds

ASSUME TreasuryAssumption ==
    /\ Tranche \in Nat \ {0} /\ FeeCeil \in Nat /\ Initial \in Nat
    /\ WindowCap \in Nat /\ TotalCap \in Nat /\ ForwardCap \in Nat /\ ForwardFee \in Nat
    /\ Wait \in Nat \ {0} /\ NamesNonce \in BOOLEAN /\ LateDebits \in BOOLEAN
    /\ MaxTransfers \in Nat /\ MaxAuths \in Nat /\ MaxWindow \in Nat /\ MaxLoss \in Nat

Ids == 1 .. MaxTransfers
Auths == 1 .. MaxAuths

VARIABLES
    slot,        \* self.state while it occupies the slot, else Idle
    stranded,    \* recoverable strands, oldest first, each with its principal hold
    parked,      \* lapsed venue actions, oldest first, each with both holds
    nextId,      \* transfers submitted so far
    avail,       \* wallet.available
    authorized,  \* venice_authorized_micro: every authorization ever accepted
    spent,       \* venice_spent, this window
    forwardSpent,\* forward_spent, this window
    window,      \* venice_window
    \* the venue and the chains
    leg,         \* [Ids -> what became of the transfer's signed venue action]
    lapsed,      \* ids whose nonce window has passed
    rows,        \* [Ids -> the ids whose window was open when this leg executed]
    auth,        \* [Auths -> [owner, is, late]]: the Venice authorizations
    mint,        \* [Ids -> who minted the burned message; "open": nobody yet]
    selfTx,      \* [Ids -> the reserve's own mint transaction]
    \* what the properties compare with
    kind,        \* [Ids -> "none", or what was asked: "to_venice", "exit", "forwarded"]
    outcome,     \* [Ids -> "open", "confirmed" or "failed"]
    book         \* what the wallet holds in all: Initial, plus credits, less debits

treasury == <<slot, stranded, parked, nextId, avail, authorized, spent, forwardSpent, window>>
world == <<leg, lapsed, rows, auth, mint, selfTx>>
history == <<kind, outcome, book>>
vars == <<treasury, world, history>>

NoRef == [of |-> "none", n |-> 0]
Idle == [id |-> 0]
Direction == {"to_venice", "to_reserve"}

(* A transfer: its step (1 or 2), the reference it is submitted under, and   *)
(* whether its principal left the source.  stall counts the ticks of the     *)
(* current wait (-1: none), as far as the bound cares; first: not sent yet.  *)
Transfers == [id : Ids, dir : Direction, step : {1, 2}, ref : [of : {"none", "venue", "auth",
                 "forwarded", "self"}, n : 0 .. MaxAuths],
              first : BOOLEAN, moved : BOOLEAN, forward : BOOLEAN, fees : 0 .. FeeCeil,
              stall : -1 .. Wait, old : SUBSET Auths, auths : 0 .. MaxAuths, win : 0 .. MaxWindow,
              fee : 0 .. FeeCeil, stuck : BOOLEAN]

Least(x, y) == IF x <= y THEN x ELSE y
Submitted == slot # Idle /\ ~slot.stuck
Blocking == slot # Idle
Step(s) == IF s.dir = "to_venice" THEN (IF s.step = 1 THEN "shadow_send" ELSE "venice_top_up")
           ELSE (IF s.step = 1 THEN "withdraw_burn" ELSE "mint_base")

(* _recoverable: a forwarded burn is Circle's to deliver, a paid shadow leg   *)
(* is a fresh authorization away.                                            *)
Forwarded(s) == s.moved /\ s.forward
Shadowed(s) == s.moved /\ s.dir = "to_venice"
Recoverable(s) == Forwarded(s) \/ Shadowed(s)

-----------------------------------------------------------------------------
(* What the wallet is told.  Each operator below finishes a call: it fixes   *)
(* the slot, the strands and the wallet together.                            *)

Keep(s, a, q) == slot' = s /\ avail' = a /\ stranded' = q /\ UNCHANGED <<outcome>>

(* _fail: nothing left: both holds go back.  A recoverable strand keeps its  *)
(* principal and leaves the slot; any other strand keeps the slot.           *)
FailKeepsFee(s, a, q) ==    \* mutant: the fee hold of a strand is not given back
    IF ~s.moved
    THEN slot' = Idle /\ avail' = a + Tranche + s.fee /\ stranded' = q
         /\ outcome' = [outcome EXCEPT ![s.id] = "failed"]
    ELSE /\ avail' = a /\ UNCHANGED outcome
         /\ IF Recoverable(s)
            THEN slot' = Idle /\ stranded' = Append(q, [s EXCEPT !.fee = 0, !.stall = -1])
            ELSE slot' = [s EXCEPT !.fee = 0, !.stall = -1, !.stuck = TRUE] /\ stranded' = q

Fail(s, a, q) ==
    IF ~s.moved
    THEN /\ slot' = Idle /\ avail' = a + Tranche + s.fee /\ stranded' = q
         /\ outcome' = [outcome EXCEPT ![s.id] = "failed"]
    ELSE /\ avail' = a + s.fee
         /\ UNCHANGED outcome
         /\ IF Recoverable(s)
            THEN slot' = Idle /\ stranded' = Append(q, [s EXCEPT !.fee = 0, !.stall = -1])
            ELSE slot' = [s EXCEPT !.fee = 0, !.stall = -1, !.stuck = TRUE] /\ stranded' = q

(* _reserve_fees: as much of the remaining fee as the wallet can afford.      *)
FeesRemaining(s) == IF s.dir = "to_venice" THEN 0 ELSE FeeCeil - s.fees
Affordable(s, a) == Least(FeesRemaining(s), IF a > 0 THEN a ELSE 0)
ReservedFees(s, a) == [s EXCEPT !.fee = Affordable(s, a)]

-----------------------------------------------------------------------------
(* _send: the step's reference goes out.  A first refusal by the venue is    *)
(* definitive; everything else that is not an acknowledgement is pending.    *)
Sent(s) == [s EXCEPT !.first = FALSE]

SendLeg(s, a, q) ==
    /\ UNCHANGED <<auth, selfTx>>
    /\ \/ /\ leg[s.id] \in {"idle", "sent"} /\ s.id \notin lapsed          \* accepted
          /\ leg' = [leg EXCEPT ![s.id] = "hidden"]
          /\ rows' = [rows EXCEPT ![s.id] = (1 .. nextId') \ lapsed]
          /\ Keep(Sent(s), a, q)
       \/ /\ leg' = [leg EXCEPT ![s.id] = IF @ = "idle" THEN "sent" ELSE @]  \* answer unknown
          /\ UNCHANGED rows /\ Keep(Sent(s), a, q)
       \/ /\ s.first                                                    \* rejected outright
          /\ leg' = [leg EXCEPT ![s.id] = "void"]
          /\ UNCHANGED rows /\ Fail(s, a, q)

(* _guarded_top_up: signed once the write-ahead record exists, or not at all; *)
(* the step is poll-only, so this is the only send of this authorization.    *)
(* One never signed ("blank") can only expire.                               *)
SendTopUp(s, a, q, ledger) ==
    /\ \/ auth' = [ledger EXCEPT ![s.ref.n].is = "live"]
       \/ auth' = ledger
    /\ Keep(Sent(s), a, q)
    /\ UNCHANGED <<leg, rows, selfTx>>

(* A forwarded mint is Circle's transaction; the reserve's own is broadcast, *)
(* and a broadcast may be lost.                                              *)
SendMint(s, a, q) ==
    /\ \/ UNCHANGED selfTx
       \/ /\ s.ref.of = "self" /\ selfTx[s.id] = "none"
          /\ selfTx' = [selfTx EXCEPT ![s.id] = "sent"]
    /\ Keep(Sent(s), a, q)
    /\ UNCHANGED <<leg, rows, auth>>

-----------------------------------------------------------------------------
(* _prepare_next.  A failed preparation stalls the step, and a stall of a    *)
(* recoverable transfer that lasted Wait ticks strands it.                   *)
ChargesWindow(s) == s.auths > 0 \/ s.win # window
WindowOnly(s) == ChargesWindow(s) /\ spent + Tranche > WindowCap   \* mutant: no absolute bound
TopUpRefused(s) ==
    \/ authorized + Tranche > TotalCap
    \/ ChargesWindow(s) /\ spent + Tranche > WindowCap

Stalled(s) == [s EXCEPT !.stall = IF @ = -1 THEN 0 ELSE @]
Settled(s) == [s EXCEPT !.stall = -1]
NeverExceeded(s) == FALSE          \* mutant: a stall never strands
WaitExceeded(s) == Recoverable(s) /\ s.stall >= Wait

PrepareFails(s, a, q) ==     \* the rail cannot answer, or the bounds refuse
    /\ LET w == Stalled(s) IN IF WaitExceeded(w) THEN Fail(w, a, q) ELSE Keep(w, a, q)
    /\ UNCHANGED <<authorized, spent, auth, leg, rows, selfTx>>

(* _authorize_top_up counts the authorization before anything can sign it.   *)
FreshAuth == CHOOSE n \in Auths : auth[n].is = "none" /\ \A m \in 1 .. n - 1 : auth[m].is # "none"

PrepareTopUp(s, a, q) ==
    /\ ~TopUpRefused(s)
    /\ \E n \in Auths : auth[n].is = "none"
    /\ authorized' = authorized + Tranche
    /\ spent' = spent + (IF ChargesWindow(s) THEN Tranche ELSE 0)
    /\ SendTopUp([Settled(s) EXCEPT !.ref = [of |-> "auth", n |-> FreshAuth],
                                    !.auths = @ + 1, !.win = window], a, q,
                 [auth EXCEPT ![FreshAuth] = [owner |-> s.id, is |-> "blank", late |-> FALSE]])

(* prepare("mint_base"): the forwarder's finalized delivery if there is one;   *)
(* else the reserve mints the message itself while it is unclaimed; else wait *)
(* (PrepareFails).  The fee ceiling must fit the fee still held.             *)
PrepareMint(s, a, q) ==
    /\ \E of \in {"forwarded", "self"} :
        /\ of = "forwarded" => s.forward /\ mint[s.id] = "forwarder"
        /\ of = "self" => mint[s.id] = "open"
        /\ \E ceiling \in 0 .. FeeCeil - s.fees :
            IF ceiling > s.fee
            THEN Keep(s, a, q) /\ UNCHANGED <<leg, rows, auth, selfTx>>       \* fee_unfunded
            ELSE SendMint([Settled(s) EXCEPT !.ref = [of |-> of, n |-> 0]], a, q)
    /\ UNCHANGED <<authorized, spent>>

PrepareNext(s, a, q) ==
    \/ PrepareFails(s, a, q)
    \/ Step(s) = "venice_top_up" /\ PrepareTopUp(s, a, q)
    \/ Step(s) = "mint_base" /\ PrepareMint(s, a, q)

-----------------------------------------------------------------------------
(* rail.poll: what the source shows of the current step.  "unread" is a read *)
(* that raised (or a credit read that vetoes a top-up).  A venue row that    *)
(* names no nonce is matched on sender, sink, amount and the nonce window.   *)
AnyRow(s) == {i \in Ids : leg[i] = "shown" /\ kind[i] = "to_venice"}   \* mutant: no nonce window
Matches(s) == {i \in Ids : /\ leg[i] = "shown" /\ kind[i] = "to_venice" /\ s.id \in rows[i]
                           /\ NamesNonce => i = s.id}
Debited(s) == \E n \in s.old \cup ({s.ref.n} \ {0}) : auth[n].is = "shown"

Unread == [is |-> "unread"]
Nothing == [is |-> "nothing"]
Confirmed(fee, paid) == [is |-> "confirmed", fee |-> fee, paid |-> paid]
Refused(fee, paid) == [is |-> "failed", fee |-> fee, paid |-> paid]

Poll(s) == {Unread} \cup
    CASE Step(s) = "shadow_send" ->
            CASE Cardinality(Matches(s)) = 0 -> {Nothing}
              [] Cardinality(Matches(s)) = 1 -> {Confirmed(0, 0)}
              [] OTHER -> {}
      [] Step(s) = "venice_top_up" -> IF Debited(s) THEN {Confirmed(0, 0)} ELSE {Nothing}
      [] Step(s) = "withdraw_burn" ->
            IF leg[s.id] = "shown"
            THEN {Confirmed(fee, paid) : fee \in 0 .. FeeCeil + 1, paid \in 0 .. FeeCeil}
            ELSE {Nothing}
      [] OTHER ->
            IF s.ref.of = "forwarded" \/ (selfTx[s.id] = "reverted" /\ mint[s.id] = "forwarder")
            THEN {Confirmed(fee, fee) : fee \in 0 .. FeeCeil}
            ELSE CASE selfTx[s.id] = "mined" -> {Confirmed(fee, fee) : fee \in 0 .. FeeCeil}
                   [] selfTx[s.id] = "reverted" -> {Refused(fee, 0) : fee \in 0 .. FeeCeil}
                   [] OTHER -> {Nothing}

(* reconcile, given the outcome read: the fee is taken from the fee hold and  *)
(* the hold remade; then the step fails, ends the transfer, or makes room for *)
(* the next one, which is prepared and sent in the same call.                 *)
Unbookable(s, o) == o.fee > FeeCeil - s.fees \/ o.paid > o.fee

Booked(s, o, a) ==
    LET paid == [Settled(s) EXCEPT !.fees = @ + o.fee,
                                   !.moved = @ \/ (o.is = "confirmed" /\ s.step = 1)]
    IN  IF o.fee = 0 THEN paid ELSE ReservedFees(paid, a + s.fee - o.paid)
AvailAfter(s, o, a) ==
    IF o.fee = 0 THEN a ELSE a + s.fee - o.paid - Booked(s, o, a).fee

Confirm(s, a, q) ==
    LET credit == IF s.dir = "to_venice" THEN Tranche ELSE 0
    IN  /\ slot' = Idle /\ stranded' = q
        /\ avail' = a + credit + Tranche + s.fee
        /\ outcome' = [outcome EXCEPT ![s.id] = "confirmed"]

Credit(s, o) == IF o.is = "confirmed" /\ s.dir = "to_venice" /\ s.step = 2 THEN Tranche ELSE 0

Reconcile(s, o, a, q) ==
    LET b == Booked(s, o, a)
        rest == AvailAfter(s, o, a)
    IN  /\ ~Unbookable(s, o)
        /\ book' = book - o.paid + Credit(s, o)
        /\ \/ /\ o.is = "failed" /\ Fail(b, rest, q)
              /\ selfTx' = [selfTx EXCEPT ![s.id] = "none"]
              /\ UNCHANGED <<authorized, spent, auth, leg, rows>>
           \/ /\ o.is = "confirmed" /\ s.step = 2 /\ Confirm(b, rest, q)
              /\ UNCHANGED <<authorized, spent, auth, leg, rows, selfTx>>
           \/ /\ o.is = "confirmed" /\ s.step = 1
              /\ PrepareNext([b EXCEPT !.step = 2, !.ref = NoRef, !.first = TRUE], rest, q)

-----------------------------------------------------------------------------
(* transfer().  A venue action's first leg; refusals change nothing.          *)
Owed == Cardinality({i \in 1 .. Len(stranded) : stranded[i].dir = "to_venice"})
      + Cardinality({i \in 1 .. Len(parked) : parked[i].dir = "to_venice"})
      + (IF Submitted /\ slot.dir = "to_venice" THEN 1 ELSE 0)
TotalExhausted == authorized + Tranche * Owed + Tranche > TotalCap
StrandedConversion == \E i \in 1 .. Len(stranded) : Shadowed(stranded[i])
UnresolvedShadow == \E i \in 1 .. Len(parked) : parked[i].dir = "to_venice"

Fresh(id, dir, forward, fee) ==
    [id |-> id, dir |-> dir, step |-> 1, ref |-> [of |-> "venue", n |-> 0], first |-> TRUE,
     moved |-> FALSE, forward |-> forward, fees |-> 0, stall |-> -1, old |-> {}, auths |-> 0,
     win |-> window, fee |-> fee, stuck |-> FALSE]

ToVenice ==
    /\ spent + Tranche <= WindowCap
    /\ ~StrandedConversion /\ ~UnresolvedShadow /\ ~TotalExhausted
    /\ ~Blocking /\ Tranche <= avail /\ nextId < MaxTransfers
    /\ nextId' = nextId + 1 /\ spent' = spent + Tranche
    /\ kind' = [kind EXCEPT ![nextId'] = "to_venice"]
    /\ SendLeg(Fresh(nextId', "to_venice", FALSE, 0), avail - Tranche, stranded)
    /\ UNCHANGED <<parked, authorized, forwardSpent, window, lapsed, mint, book>>

ToReserve(forward) ==
    /\ ~Blocking /\ Tranche + FeeCeil <= avail /\ nextId < MaxTransfers
    /\ forward => forwardSpent + ForwardFee <= ForwardCap
    /\ nextId' = nextId + 1
    /\ forwardSpent' = forwardSpent + (IF forward THEN ForwardFee ELSE 0)
    /\ kind' = [kind EXCEPT ![nextId'] = IF forward THEN "forwarded" ELSE "exit"]
    /\ SendLeg(Fresh(nextId', "to_reserve", forward, FeeCeil), avail - Tranche - FeeCeil, stranded)
    /\ UNCHANGED <<parked, authorized, spent, window, lapsed, mint, book>>

OpenWindow ==
    /\ window < MaxWindow
    /\ window' = window + 1 /\ spent' = 0 /\ forwardSpent' = 0
    /\ UNCHANGED <<slot, stranded, parked, nextId, avail, authorized, world, history>>

-----------------------------------------------------------------------------
(* tick().  A tick ages the stall of the transfer that holds the slot.        *)
Aged(s) == [s EXCEPT !.stall = IF @ = -1 THEN @ ELSE Least(@ + 1, Wait)]
TickFrame == UNCHANGED <<nextId, forwardSpent, window, lapsed, rows, mint, kind>>

(* _unpark: the oldest parked action whose venue now shows evidence that can  *)
(* be booked; one whose evidence is refused goes back exactly as it was.      *)
Unpark ==
    /\ ~Blocking
    /\ \E i \in 1 .. Len(parked) : \E o \in Poll(parked[i]) \ {Unread, Nothing} :
        /\ Reconcile(parked[i], o, avail, stranded)
        /\ parked' = [j \in 1 .. Len(parked) - 1 |-> parked[IF j < i THEN j ELSE j + 1]]
    /\ TickFrame

(* _recover: the oldest strand.  Every earlier authorization is polled first; *)
(* a debit of one, however late, is booked and nothing new is signed.         *)
Superseded(s) == IF s.dir = "to_venice" /\ s.ref # NoRef
                 THEN [s EXCEPT !.old = @ \cup {s.ref.n}, !.ref = NoRef] ELSE [s EXCEPT !.ref = NoRef]

SignsAgain(s) == FALSE             \* mutant: superseded authorizations are not polled
Landed(s) == s.dir = "to_venice" /\ Debited(s)

Recover ==
    /\ ~Blocking /\ stranded # <<>>
    /\ LET s == [Superseded(Head(stranded)) EXCEPT !.first = TRUE]
           b == ReservedFees(s, avail)
       IN  \/ /\ Landed(s)
              /\ Keep([b EXCEPT !.ref = [of |-> "auth", n |-> CHOOSE n \in s.old :
                             \A m \in s.old : m <= n]], avail - b.fee, Tail(stranded))
              /\ UNCHANGED <<authorized, spent, auth, leg, rows, selfTx>>
           \/ /\ ~Landed(s) /\ Step(s) = "venice_top_up"
              /\ PrepareTopUp(b, avail - b.fee, Tail(stranded))
           \/ /\ ~Landed(s) /\ Step(s) = "mint_base"
              /\ PrepareMint(b, avail - b.fee, Tail(stranded))
    /\ UNCHANGED <<parked, book>> /\ TickFrame

(* The slot has no reference: make the fee hold as large as it can be, then   *)
(* prepare the step again.                                                    *)
Prepare ==
    /\ Submitted /\ slot.ref = NoRef
    /\ LET grows == avail > 0 /\ slot.fee < FeesRemaining(slot)
           s == IF grows THEN ReservedFees(slot, avail + slot.fee) ELSE slot
       IN  PrepareNext(Aged(s), avail + slot.fee - s.fee, stranded)
    /\ UNCHANGED <<parked, book>> /\ TickFrame

(* The slot has a reference: book what its poll shows, or, after a clean poll *)
(* that shows nothing, let go of what provably cannot execute any more.       *)
Polls == Submitted /\ slot.ref # NoRef

Advance ==
    /\ Polls
    /\ \E o \in Poll(slot) \ {Unread, Nothing} : Reconcile(slot, o, avail, stranded)
    /\ UNCHANGED parked /\ TickFrame

(* A poll that raised changes only the public stall record, which is over at  *)
(* the next step; but no expiry and no lapse is looked at in that tick.       *)
CleanPoll == Polls /\ Nothing \in Poll(slot)

(* expired: finalized Base proves the authorization dead and never debited.   *)
ExpireTopUp ==
    /\ CleanPoll /\ Step(slot) = "venice_top_up" /\ auth[slot.ref.n].is \in {"dead", "blank"}
    /\ Fail(Settled(slot), avail, stranded)
    /\ UNCHANGED <<parked, authorized, spent, book, auth, leg, selfTx>> /\ TickFrame

(* _park: the venue can no longer execute the action, but may have.           *)
VenueLeg(s) == s.step = 1
FailsOnAge ==                      \* mutant: an action past its window is taken for unsent
    /\ CleanPoll /\ VenueLeg(slot) /\ slot.id \in lapsed
    /\ Fail(slot, avail, stranded)
    /\ UNCHANGED <<parked, authorized, spent, book, auth, leg, selfTx>> /\ TickFrame
Park ==
    /\ CleanPoll /\ VenueLeg(slot) /\ slot.id \in lapsed
    /\ parked' = Append(parked, Settled(slot)) /\ slot' = Idle
    /\ UNCHANGED <<stranded, avail, authorized, spent, outcome, book, auth, leg, selfTx>>
    /\ TickFrame

(* A minute after the last send, a step that is not poll-only is sent again.  *)
Retry ==
    /\ Polls /\ Step(slot) # "venice_top_up"
    /\ UNCHANGED <<parked, authorized, spent, book, nextId, forwardSpent, window, lapsed, mint, kind>>
    /\ \/ VenueLeg(slot) /\ SendLeg(slot, avail, stranded)
       \/ ~VenueLeg(slot) /\ SendMint(slot, avail, stranded)

Tick == Unpark \/ Recover \/ Prepare \/ Advance \/ ExpireTopUp \/ Park \/ Retry

-----------------------------------------------------------------------------
(* The environment.  The venue executes a signed action inside its nonce      *)
(* window and shows the row when it likes; Circle's forwarder delivers or     *)
(* does not; an authorization settles, or finalized Base is past its expiry.  *)
Env == UNCHANGED <<treasury, history>>

Executes(i) ==
    /\ leg[i] = "sent" /\ i \notin lapsed
    /\ leg' = [leg EXCEPT ![i] = "hidden"]
    /\ rows' = [rows EXCEPT ![i] = (1 .. nextId) \ lapsed]
    /\ Env /\ UNCHANGED <<lapsed, auth, mint, selfTx>>
Shows(i) ==
    /\ leg[i] = "hidden" /\ leg' = [leg EXCEPT ![i] = "shown"]
    /\ Env /\ UNCHANGED <<lapsed, rows, auth, mint, selfTx>>
Lapses(i) ==       \* nonces are times, so they lapse in the order they were taken
    /\ i \in 1 .. nextId \ lapsed /\ outcome[i] = "open" /\ leg[i] # "shown"
    /\ \A j \in 1 .. i - 1 : j \in lapsed \/ outcome[j] # "open" \/ leg[j] = "shown"
    /\ lapsed' = lapsed \cup {i}
    /\ Env /\ UNCHANGED <<leg, rows, auth, mint, selfTx>>

Delivers(i) ==
    /\ kind[i] = "forwarded" /\ leg[i] \in {"hidden", "shown"} /\ mint[i] = "open"
    /\ mint' = [mint EXCEPT ![i] = "forwarder"]
    /\ Env /\ UNCHANGED <<leg, lapsed, rows, auth, selfTx>>
Mines(i) ==        \* the message mints once: a second mint of it reverts
    /\ selfTx[i] = "sent"
    /\ \/ /\ mint[i] = "open" /\ mint' = [mint EXCEPT ![i] = "self"]
          /\ selfTx' = [selfTx EXCEPT ![i] = "mined"]
       \/ selfTx' = [selfTx EXCEPT ![i] = "reverted"] /\ UNCHANGED mint
    /\ Env /\ UNCHANGED <<leg, lapsed, rows, auth>>

Becomes(n, is, late) ==
    /\ auth' = [auth EXCEPT ![n].is = is, ![n].late = late]
    /\ Env /\ UNCHANGED <<leg, lapsed, rows, mint, selfTx>>
Debits(n) == auth[n].is = "live" /\ Becomes(n, "settled", FALSE)
DebitsLate(n) == LateDebits /\ auth[n].is = "dead" /\ Becomes(n, "settled", TRUE)
Finalizes(n) == auth[n].is = "settled" /\ Becomes(n, "shown", auth[n].late)
Expires(n) == auth[n].is = "live" /\ Becomes(n, "dead", FALSE)

Loses ==           \* a trading loss takes money the treasury does not hold
    /\ Blocking /\ avail > 0 /\ book > Initial - MaxLoss
    /\ avail' = avail - 1 /\ book' = book - 1
    /\ UNCHANGED <<slot, stranded, parked, nextId, authorized, spent, forwardSpent, window>>
    /\ UNCHANGED <<world, kind, outcome>>

Environment ==
    \/ \E i \in Ids : \/ Executes(i) \/ Shows(i) \/ Lapses(i)
                      \/ Delivers(i) \/ Mines(i)
    \/ \E n \in Auths : Debits(n) \/ DebitsLate(n) \/ Finalizes(n) \/ Expires(n)
    \/ Loses

Init ==
    /\ slot = Idle /\ stranded = <<>> /\ parked = <<>> /\ nextId = 0
    /\ avail = Initial /\ book = Initial
    /\ authorized = 0 /\ spent = 0 /\ forwardSpent = 0 /\ window = 0
    /\ leg = [i \in Ids |-> "idle"] /\ lapsed = {} /\ rows = [i \in Ids |-> {}]
    /\ auth = [n \in Auths |-> [owner |-> 0, is |-> "none", late |-> FALSE]]
    /\ mint = [i \in Ids |-> "open"] /\ selfTx = [i \in Ids |-> "none"]
    /\ kind = [i \in Ids |-> "none"] /\ outcome = [i \in Ids |-> "open"]

Next == ToVenice \/ (\E f \in BOOLEAN : ToReserve(f)) \/ OpenWindow \/ Tick \/ Environment

Spec == Init /\ [][Next]_vars

(* What can hold the slot for ever, and no wait bound looks at it:            *)
(* the fee of a mint is more than its hold and the wallet together can pay    *)
(* (`fee_unfunded` returns before `_stall`); the burn was the reserve's own   *)
(* to mint (not `_recoverable`); the evidence is there and is refused at each *)
(* tick (a fee beyond the reservation; a top-up's credit that falls short).   *)
(* Only a shadow leg's evidence, which shows no fee, cannot be refused.       *)
FeeShort ==
    /\ Submitted /\ slot.ref = NoRef /\ Step(slot) = "mint_base"
    /\ slot.fee < FeesRemaining(slot) /\ slot.fee + avail < FeesRemaining(slot)
OwnMint == Submitted /\ Step(slot) = "mint_base" /\ ~Forwarded(slot)
Refusable == Polls /\ Step(slot) # "shadow_send" /\ Poll(slot) \ {Unread, Nothing} # {}
Unbounded == FeeShort \/ OwnMint \/ Refusable

(* The runtime ticks for ever: while a step cannot be prepared its ticks are  *)
(* counted (Stalls; not those that find its fee short), and the rail may fail *)
(* every preparation.  A source that can be read is read in the end, a nonce  *)
(* window passes, an authorization settles or expires, a debit, a row or a    *)
(* mined transaction is shown in the end, and a lost broadcast is repeated    *)
(* until it is out.  Nothing is assumed of Circle's forwarder, of the venue   *)
(* executing what it did not acknowledge, of fees and credits being found in  *)
(* order, or of money arriving in the wallet.                                 *)
Stalls == Prepare /\ ~FeeShort /\ (slot' = Idle \/ slot'.ref = NoRef)
BooksShadow == Advance /\ Step(slot) = "shadow_send"
Resends == Retry /\ selfTx' # selfTx
TimePasses == \E i \in Ids : Lapses(i)
Reveals == \E i \in Ids : Shows(i) \/ Mines(i)
Decides == \E n \in Auths : Debits(n) \/ Expires(n) \/ Finalizes(n)
Live ==
    /\ WF_vars(Stalls) /\ WF_vars(BooksShadow) /\ WF_vars(ExpireTopUp) /\ WF_vars(Park)
    /\ WF_vars(Resends) /\ WF_vars(TimePasses) /\ WF_vars(Reveals) /\ WF_vars(Decides)

FairSpec == Spec /\ Live

-----------------------------------------------------------------------------
Entries == ({slot} \ {Idle}) \cup {stranded[i] : i \in 1 .. Len(stranded)}
                            \cup {parked[i] : i \in 1 .. Len(parked)}

TreasuryTypeOK ==
    /\ slot \in Transfers \cup {Idle}
    /\ stranded \in Seq(Transfers) /\ parked \in Seq(Transfers)
    /\ nextId \in 0 .. MaxTransfers /\ lapsed \subseteq 1 .. nextId
    /\ avail \in Int /\ book \in Int
    /\ \A i \in Ids : leg[i] \in {"idle", "sent", "hidden", "shown", "void"}
    /\ \A e \in Entries : e.id \in 1 .. nextId

(* Every micro-dollar the treasury took out of the wallet's available money   *)
(* is in a hold of exactly one transfer: _fail, _park, _unpark, _recover and  *)
(* reconcile's last step pass holds on or give them back, and lose none.      *)
HeldBy == [e \in Entries |-> Tranche + e.fee]
HoldsAccounted ==
    TreasuryTypeOK /\ avail + MapThenSumSet(LAMBDA e : HeldBy[e], Entries) = book

(* The wallet moves only when money moves (the docstrings of _park and        *)
(* expired): a venue action that executed, or still can, has its transfer     *)
(* open with its principal held, or confirmed; one given up never executes.   *)
Executed(i) == leg[i] \in {"hidden", "shown"}
Executable(i) == leg[i] = "sent" /\ i \notin lapsed
MoneyMovesHeld ==
    \A i \in 1 .. nextId :
        Executed(i) \/ Executable(i) =>
            \/ outcome[i] = "confirmed"
            \/ outcome[i] = "open" /\ Cardinality({e \in Entries : e.id = i}) = 1

(* Real Base dollars are authorized only for a conversion whose own shadow    *)
(* leg left the venue, even when venue rows name no nonce; at most one of its *)
(* authorizations is ever debited unless the chain took back a finalized      *)
(* expiry; and a confirmed conversion has its debit.                          *)
RealSpendBacked ==
    /\ \A n \in Auths : auth[n].is # "none" => Executed(auth[n].owner)
    /\ \A i \in Ids : Cardinality({n \in Auths : auth[n].owner = i /\ ~auth[n].late
                                     /\ auth[n].is \in {"settled", "shown"}}) <= 1
    /\ \A i \in Ids : kind[i] = "to_venice" /\ outcome[i] = "confirmed" =>
            \E n \in Auths : auth[n].owner = i /\ auth[n].is = "shown"

(* The absolute and the window bound on Venice spend hold through strands and *)
(* recoveries, with a conversion whose first authorization is still owed      *)
(* counted as spent (_venice_total_exhausted's guarantee).                    *)
VeniceBounded ==
    /\ spent <= WindowCap /\ forwardSpent <= ForwardCap
    /\ authorized + Tranche * Cardinality({e \in Entries : e.dir = "to_venice" /\ e.auths = 0})
            <= TotalCap

(* Nothing new is signed for a conversion one of whose earlier authorizations *)
(* is already shown debited (_recover polls the superseded ones first).       *)
NoSecondAuthorization ==
    [][\A n \in Auths : auth[n].is = "none" /\ auth'[n].is # "none" =>
          ~\E m \in Auths : auth[m].owner = auth'[n].owner /\ auth[m].is = "shown"]_vars

(* A transfer leaves the slot in the end (confirmed, failed, stranded or      *)
(* parked), or it is held for ever by what no wait bound looks at: a mint fee *)
(* that cannot be funded, a mint that is the reserve's own, or evidence that  *)
(* is there and is refused.  So a conversion that cannot be signed, a burn    *)
(* nobody delivers while its fee hold is whole, an action past its window and *)
(* an authorization past its expiry never keep the slot (`_stall`,            *)
(* `_forward_wait_exceeded`, `_park`, `expired`).                             *)
SlotFrees == []<>~Submitted \/ <>[]Unbounded
===============================================================================
