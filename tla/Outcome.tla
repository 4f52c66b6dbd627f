-------------------------------- MODULE Outcome --------------------------------
(***************************************************************************)
(* What the decision queue promises of every handle it issues (the class   *)
(* docstring, kernel/queue.py 188-194): it is opened once, is penalised for *)
(* lateness at most once, may still settle afterwards, receives exactly one *)
(* final outcome that is never rewritten, and is released only after it.    *)
(***************************************************************************)
CONSTANTS Handles, Outcomes, NoOutcome

VARIABLES phase, outcome

Phases == {"unopened", "pending", "timed_out", "final", "released"}

Init == /\ phase = [h \in Handles |-> "unopened"]
        /\ outcome = [h \in Handles |-> NoOutcome]

Open(h) == /\ phase[h] = "unopened"
           /\ phase' = [phase EXCEPT ![h] = "pending"]
           /\ UNCHANGED outcome

TimeOut(late) == /\ \A h \in late : phase[h] = "pending"
                 /\ phase' = [h \in Handles |-> IF h \in late THEN "timed_out" ELSE phase[h]]
                 /\ UNCHANGED outcome

Settle(h, o) == /\ phase[h] \in {"pending", "timed_out"}
                /\ phase' = [phase EXCEPT ![h] = "final"]
                /\ outcome' = [outcome EXCEPT ![h] = o]

Release(h) == /\ phase[h] = "final"
              /\ phase' = [phase EXCEPT ![h] = "released"]
              /\ UNCHANGED outcome

Next == \/ \E h \in Handles : Open(h) \/ Release(h)
        \/ \E h \in Handles, o \in Outcomes : Settle(h, o)
        \/ \E late \in SUBSET Handles : TimeOut(late)

Spec == Init /\ [][Next]_<<phase, outcome>>
===============================================================================
