----------------------------- MODULE MC_Recovery -----------------------------
(* Every name as a call that a crash can interrupt, two events with a second   *)
(* call, so that one can lie past the diary's end, and an event without calls. *)
EXTENDS Recovery

MCPlans == {<<"venue", "provider">>, <<"read", "payment">>,
            <<"send">>, <<"topup">>, <<"other">>, <<>>}
==============================================================================
