-------------------------------- MODULE Lots --------------------------------
(***************************************************************************)
(* settlement/lots.py, LotTable: pure FIFO accounting of one instrument.   *)
(* A table is [lots, accounts, orders]; every operator returns the         *)
(* successor table.  Money is exact in the code (fractions) and exact here *)
(* in twelfths of a micro-USD: a fee is a rate of what the fill traded, so *)
(* its parts leave no remainder, and a closer's share leaves none at the   *)
(* instance's prices, at most 2.                                           *)
(*                                                                         *)
(* One perp instrument.  Liquidations, funding, event tokens, voided       *)
(* returns, service income and the cost threshold (`y`) are left out; a    *)
(* venue's terminal word is true, so nothing fills after a release         *)
(* (released_late stays empty).                                            *)
(***************************************************************************)
EXTENDS Integers, Sequences, SequencesExt

CONSTANTS Returns,      \* decision handles
          OrderIds      \* the venue's order ids, the wind-down's closing order included
ASSUME LotsAssumption == Returns \subseteq Nat \ {0} /\ IsFiniteSet(Returns)

Scale == 12
Nobody == 0             \* the owner of an order that is not bound
WindDown == 0 - 1       \* the kernel's account, the owner of the wind-down's order
Unconfirmed == 0 - 1

NoPayoff == [fixed |-> FALSE, net |-> 0, marked |-> FALSE, censored |-> FALSE]
NoAccount == [state |-> "none", opened |-> 0, finished |-> FALSE, realized |-> 0,
              late |-> 0, payoff |-> NoPayoff]
NoOrder == [owner |-> Nobody, remaining |-> 0, ordered |-> 0, executed |-> 0,
            confirmed |-> Unconfirmed]
EmptyTable == [lots |-> <<>>, accounts |-> [h \in Returns |-> NoAccount],
               orders |-> [o \in OrderIds |-> NoOrder]]

Total(f, S) == MapThenSumSet(LAMBDA x : f[x], S)

LotsOf(t, h) ==
    FoldLeft(LAMBDA own, lot : IF lot.owner = h THEN Append(own, lot) ELSE own, <<>>, t.lots)
Waits(t, h) == \E o \in OrderIds : t.orders[o].owner = h /\ t.orders[o].remaining > 0
Open(t, h) == t.accounts[h].state = "open" /\ ~t.accounts[h].payoff.fixed
Floor(x) == x \div Scale
Sign(buy) == IF buy THEN 1 ELSE 0 - 1
Least(a, b) == IF a < b THEN a ELSE b

-----------------------------------------------------------------------------
Start(t, h, now) ==
    [t EXCEPT !.accounts[h] = [NoAccount EXCEPT !.state = "open", !.opened = now]]

Finish(t, h) == [t EXCEPT !.accounts[h].finished = TRUE]

Bind(t, o, h, size) ==
    [t EXCEPT !.orders[o] = [NoOrder EXCEPT !.owner = h, !.remaining = size, !.ordered = size]]

CancelOrder(t, o) == [t EXCEPT !.orders[o].remaining = 0]

(* `confirm`, of every order in o.                                             *)
ConfirmAll(t, o, filled) ==
    [t EXCEPT !.orders = [i \in OrderIds |->
        IF i \in o THEN [t.orders[i] EXCEPT !.confirmed = filled[i].done] ELSE t.orders[i]]]

-----------------------------------------------------------------------------
FeeOfNobody(kernel, charges, fee) == charges   \* mutant: the wind-down's fee is not charged
CloseCost(kernel, charges, fee) == charges + (IF kernel THEN fee ELSE 0)

(* `fill`: opposite lots are closed from the front.  The P&L of a closed       *)
(* quantity is split with a distinct closer by the notional each contributed;  *)
(* a wind-down's fill (kernel) is no closer, and its fee is the opener's.      *)
Meet(f, owner, acc, lot) ==
    IF acc.left = 0 \/ lot.buy = f.buy THEN [acc EXCEPT !.lots = Append(@, lot)]
    ELSE LET kernel  == owner = WindDown
             closed  == Least(acc.left, lot.size)
             pnl     == (f.px - lot.px) * closed * Sign(lot.buy) * Scale
             closer  == IF owner = lot.owner \/ kernel THEN 0
                        ELSE (pnl * f.px) \div (lot.px + f.px)
             charges == (lot.charges * closed) \div lot.size
             fee     == (f.fee * Scale * closed) \div f.size
             net     == pnl - closer - CloseCost(kernel, charges, fee)
         IN [left   |-> acc.left - closed,
             lots   |-> IF closed = lot.size THEN acc.lots
                        ELSE Append(acc.lots, [lot EXCEPT !.size = @ - closed,
                                                          !.charges = @ - charges]),
             credit |-> [acc.credit EXCEPT ![lot.owner] = @ + net],
             closer |-> acc.closer + closer - fee]

Opposing(f) == [left |-> f.size, lots |-> <<>>, credit |-> [h \in Returns |-> 0], closer |-> 0]
Closes(t, f, owner) ==
    FoldLeft(LAMBDA acc, lot : Meet(f, owner, acc, lot), Opposing(f), t.lots)

(* The remainder opens a lot of the caller's, its opening fee a charge on it.  *)
Fill(t, f) ==
    LET owner  == t.orders[f.order].owner
        met    == Closes(t, f, owner)
        credit == IF owner = WindDown THEN met.credit
                  ELSE [met.credit EXCEPT ![owner] = @ + met.closer]
        opened == [owner |-> owner, buy |-> f.buy, size |-> met.left, px |-> f.px,
                   charges |-> (f.fee * Scale * met.left) \div f.size]
    IN [lots     |-> IF met.left = 0 \/ owner = WindDown THEN met.lots
                     ELSE Append(met.lots, opened),
        accounts |-> [h \in Returns |-> [t.accounts[h] EXCEPT !.realized = @ + credit[h]]],
        orders   |-> [t.orders EXCEPT ![f.order].remaining = IF @ > f.size THEN @ - f.size ELSE 0,
                                      ![f.order].executed = @ + f.size]]

(* What an open lot is worth at a price.                                       *)
MarkedAt(lots, px) ==
    Total([i \in DOMAIN lots |->
              (px - lots[i].px) * lots[i].size * Sign(lots[i].buy) * Scale - lots[i].charges],
          DOMAIN lots)

-----------------------------------------------------------------------------
FixOwingAll(t, h, net, marked, censored) ==   \* mutant: an outcome's money is booked again
    [t EXCEPT !.accounts[h].payoff = [fixed |-> TRUE, net |-> Floor(net), marked |-> marked,
                                      censored |-> censored],
              !.accounts[h].late = 0]

(* `resolve`, for one return: net is its exact result at its horizon, lots     *)
(* what it held there.  An unmarked outcome is booked when it is fixed; a      *)
(* marked one is an estimate, and books nothing.                               *)
Fix(t, h, net, marked, censored) ==
    [t EXCEPT !.accounts[h].payoff = [fixed |-> TRUE, net |-> Floor(net), marked |-> marked,
                                      censored |-> censored],
              !.accounts[h].late = IF marked THEN 0 ELSE Floor(net)]

(* `late_realizations` and `realized_at_termination`: what is owed and not yet *)
(* booked, to the returns whose outcome is fixed, or to those it never was.    *)
Owed(t, h) == Floor(t.accounts[h].realized) - t.accounts[h].late
Owing(t, fixed) ==
    {h \in Returns : t.accounts[h].state = "open" /\ t.accounts[h].payoff.fixed = fixed}
Booked(t, handles) ==
    [t EXCEPT !.accounts = [h \in Returns |->
        IF h \in handles THEN [t.accounts[h] EXCEPT !.late = Floor(t.accounts[h].realized)]
        ELSE t.accounts[h]]]

ClosedUnconfirmed(t, h) ==   \* mutant: the venue's own word is not awaited
    /\ t.accounts[h].state = "open" /\ t.accounts[h].payoff.fixed
    /\ Owed(t, h) = 0 /\ LotsOf(t, h) = <<>>
    /\ \A o \in OrderIds : t.orders[o].owner = h => t.orders[o].remaining = 0

(* `closed`: nothing is owed to the return, and by its venue's own word none   *)
(* of its orders can fill any more.                                            *)
Closed(t, h) ==
    /\ t.accounts[h].state = "open" /\ t.accounts[h].payoff.fixed
    /\ Owed(t, h) = 0 /\ LotsOf(t, h) = <<>>
    /\ \A o \in OrderIds : t.orders[o].owner = h =>
        /\ t.orders[o].remaining = 0 /\ t.orders[o].confirmed # Unconfirmed
        /\ t.orders[o].executed >= t.orders[o].confirmed

(* `release`: the account leaves the table; its orders keep their owner.       *)
Release(t, h) == [t EXCEPT !.accounts[h].state = "released"]
=============================================================================
