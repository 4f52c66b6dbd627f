---------------------------- MODULE MC_DecisionQueue ----------------------------
(***************************************************************************)
(* Few decisions, in four scopes explored by one run: two learners and    *)
(* two decisions of one contract; one learner and three related ones; one  *)
(* learner, two contracts (one declaring), inapplicable outcomes and       *)
(* action keys.                                                            *)
(***************************************************************************)
EXTENDS DecisionQueue

CONSTANTS r1, r2, x, k1, k2, t1      \* model values

TwoActors == {r1, r2}
OneActor == {r1}
OneChannel == {x}
TwoContracts == {k1, k2}
OneContract == {k1}
OneKey == {t1}

Issued == 0 .. opened - 1
Plain == /\ \A h \in Issued : decision[h].contract = k1 /\ took[h] = {}
         /\ \A h \in Issued : status[h] # "inapplicable"
Alone == /\ retired \subseteq {r1} /\ \A a \in Actors : successor[a] = None
         /\ \A h \in Issued : decision[h].actor = r1
Chain == Alone /\ Plain /\ (opened = 3 => \A h \in 1 .. 2 : decision[h].parent # None)
Historied == Alone /\ opened <= 2 /\ \A h \in Issued : decision[h].parent = None
Clocked == Chain /\ opened <= 1
Timeless == now = 0 /\ compacted = {} /\ \A h \in Issued : decision[h].deadline = 0
InScope == (Timeless /\ ((Plain /\ opened <= 2) \/ Chain \/ Historied)) \/ Clocked
===============================================================================
