----------------------------- MODULE MC_Orders -----------------------------
EXTENDS Orders

Buy(n) == [op |-> "place", buy |-> TRUE, size |-> n, loses |-> TRUE]
Sell(n) == [op |-> "place", buy |-> FALSE, size |-> n, loses |-> TRUE]
Undo(c) == [op |-> "cancel", target |-> c, loses |-> TRUE]
Heard(w) == [w EXCEPT !.loses = FALSE]

MCReturns == 1 .. 2
MCOrderIds == {<<0, 1>>} \cup (MCReturns \X {1})
MCPath == [t \in 0 .. 9 |-> 1 + (t % 2)]
MCPlans == {<< <<Buy(1)>>, <<Sell(1)>> >>,
            << <<Buy(2)>>, <<Undo(<<1, 1>>)>> >>,
            << <<Buy(1)>>, <<Heard(Sell(2))>> >>}

GradedReturns == 1 .. 3
GradedOrderIds == {<<0, 1>>} \cup (GradedReturns \X {1})
GradedPlans == {<< <<Buy(1)>>, <<Sell(1)>>, <<Sell(1)>> >>}
=============================================================================
