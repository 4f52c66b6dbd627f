----------------------------- MODULE Submission -----------------------------
(* What the recovery journal promises of every external call, however often   *)
(* the process dies: what the world did and what the program was told about   *)
(* it agree, and the program is told one thing only.                          *)
CONSTANT Calls

VARIABLES effect,   \* [Calls -> did the world do it?]
          told      \* [Calls -> what the program was told, "nothing" before]

Answers == {"done", "unknown", "refused", "never", "high", "low"}   \* the last two: of a read
Undone == {"refused", "never"}     \* the caller may release what it held for the call

Init == effect = [c \in Calls |-> FALSE] /\ told = [c \in Calls |-> "nothing"]

(* The world does it once, also late, but not after it was reported undone.   *)
Perform(c) ==
    /\ ~effect[c] /\ told[c] \notin Undone
    /\ effect' = [effect EXCEPT ![c] = TRUE] /\ UNCHANGED told

Tell(c, a) ==
    /\ told[c] = "nothing"
    /\ a = "done" => effect[c]
    /\ a \in Undone => ~effect[c]
    /\ told' = [told EXCEPT ![c] = a] /\ UNCHANGED effect

Next == \E c \in Calls : Perform(c) \/ \E a \in Answers : Tell(c, a)

Spec == Init /\ [][Next]_<<effect, told>>
=============================================================================
