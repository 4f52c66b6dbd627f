------------------------------- MODULE MC_Rounds -------------------------------
(***************************************************************************)
(* Two routers in succession, a producer, a judge and the arm that wakes   *)
(* nobody; the first window prices by a count of its decisions.            *)
(***************************************************************************)
EXTENDS Rounds

CONSTANTS r1, r2, x, noop, p, j      \* model values

TwoRouters == {r1, r2}
OneChannel == {x}
Arms == {noop, p, j}
TheJudge == {j}
Woken == {p, j}

(* Scopes: one decision, events between ticks included; two, on ticks only:   *)
(* a request and its child, or an abstention and a decision drawn after it    *)
(* by the same router.                                                       *)
Family == decision[1].parent = 0
Company == decision[0].contract = noop /\ replaced = <<>> /\ retired = {}
InScope == opened = 2 => Family \/ Company
OnTicks == phase = "idle" /\ opened = 2 => now' > now
===============================================================================
