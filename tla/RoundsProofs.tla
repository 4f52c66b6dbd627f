------------------------------ MODULE RoundsProofs ------------------------------
(***************************************************************************)
(* What holds of the decision queue for any number of learners, contracts, *)
(* channels and decisions: its types, one outcome per decision, ancestry,  *)
(* what waits to be read, whom feedback reaches, what is historied, and    *)
(* that it implements Outcome.                                             *)
(*                                                                         *)
(* And of the learners' rounds over it, for any number of routers, seats   *)
(* and windows: that a decision trains its router and its seat once and    *)
(* alike, that no round is left open past its deadline, that the boundary  *)
(* drops nothing a book still names, and that the loop moves the decision  *)
(* queue by the queue's methods, so that what is proved of any use of the  *)
(* queue holds of this one.                                                *)
(***************************************************************************)
EXTENDS Rounds, Sums, FiniteSetTheorems, SequenceTheorems, TLAPS

-------------------------------------------------------------------------------
(* The queue.                                                                  *)

Statuses == Awaiting \cup Outcomes \cup {"none"}

(* Any call of the queue's methods, with the parameters a run bounds left free: *)
(* the steps of every program that keeps decisions in this queue.               *)
Calls ==
    \/ Tick \/ Expire \/ DrainFinalized \/ Restore
    \/ \E a \in Actors, k \in Contracts, c \in Channels, d \in Nat,
          parent \in Handles \cup {None} : OpenDecision(a, k, c, d, parent)
    \/ \E h \in Handles : \/ RecordPropensity(h) \/ ReleaseDecision(h)
                          \/ \E ks \in SUBSET Keys : RecordActions(h, ks)
                          \/ \E outcome \in Submitted : Settle(h, outcome)
    \/ \E handles \in SUBSET Handles : TimeOut(handles)
    \/ \E a \in Actors : \/ RetireActor(a)
                         \/ \E b \in Actors, m \in ChannelMaps : RegisterSuccessor(a, b, m)
                         \/ \E n \in Nat : ReleaseDelivered(a, n)
    \/ \E before \in Int : CompactReleased(before)

(* The bounded calls are calls. *)
LEMMA BoundedCalls == [QueueNext]_qvars => [Calls]_qvars
<1> SUFFICES ASSUME QueueNext PROVE Calls
  OBVIOUS
<1>1. 0 .. MaxTime \subseteq Nat /\ 1 .. 2 * MaxHandles \subseteq Nat /\ 1 .. MaxTime \subseteq Int
  BY QueueAssumption
<1> QED
  BY <1>1 DEF QueueNext, Calls


(* A handle that was not issued has no status, one that was has one, and a *)
(* decision is only ever dropped with its outcome.                        *)
StatusInv ==
    /\ opened \in 0 .. MaxHandles /\ retained \subseteq 0 .. opened - 1
    /\ status \in [Handles -> Statuses]
    /\ \A h \in Handles : h >= opened => status[h] = "none"
    /\ \A h \in 0 .. opened - 1 : status[h] # "none"
    /\ \A h \in 0 .. opened - 1 : h \notin retained => status[h] \in Outcomes

(* The returns a retained decision has received say what its status is. *)
ReturnsInv ==
    /\ DOMAIN returns = Handles
    /\ \A h \in Handles : status[h] = "none" => returns[h] = <<>>
    /\ \A h \in retained :
          /\ status[h] = "pending" => returns[h] = <<>>
          /\ status[h] = "timed_out" => returns[h] = <<"timed_out">>
          /\ status[h] \in Outcomes =>
                returns[h] \in {<<status[h]>>, <<"timed_out", status[h]>>}

(* Awaited and final statuses are distinct, and no handle starts with either. *)
LEMMA StatusesApart ==
    /\ "none" \notin Awaiting \cup Outcomes /\ Awaiting \cap Outcomes = {}
    /\ Submitted \subseteq Outcomes /\ "historical" \in Outcomes
  BY QueueAssumption DEF Awaiting, Outcomes

(* The returns of one handle, written out. *)
LEMMA AppendWritten ==
    ASSUME NEW x PROVE /\ Append(<<>>, x) = <<x>>
                       /\ Append(<<"timed_out">>, x) = <<"timed_out", x>>
<1> DEFINE S == {x, "timed_out"}
           late == <<"timed_out">>
<1>1. <<>> \in Seq(S) /\ late \in Seq(S) /\ x \in S /\ Len(<<>>) = 0
      /\ Len(late) = 1 /\ late[1] = "timed_out"
  OBVIOUS
<1>2. <<x>> \in Seq(S) /\ Len(<<x>>) = 1 /\ <<x>>[1] = x
  OBVIOUS
<1>3. /\ <<"timed_out", x>> \in Seq(S) /\ Len(<<"timed_out", x>>) = 2
      /\ <<"timed_out", x>>[1] = "timed_out" /\ <<"timed_out", x>>[2] = x
  OBVIOUS
<1> HIDE DEF S, late
<1>4. /\ Append(<<>>, x) \in Seq(S) /\ Len(Append(<<>>, x)) = 1 /\ Append(<<>>, x)[1] = x
  BY <1>1, AppendProperties
<1>5. /\ Append(late, x) \in Seq(S) /\ Len(Append(late, x)) = 2
      /\ Append(late, x)[1] = "timed_out" /\ Append(late, x)[2] = x
  <2>1. /\ Append(late, x) \in Seq(S) /\ Len(Append(late, x)) = Len(late) + 1
        /\ \A i \in 1 .. Len(late) : Append(late, x)[i] = late[i]
        /\ Append(late, x)[Len(late) + 1] = x
    <3>1. \A s \in Seq(S), e \in S :
             /\ Append(s, e) \in Seq(S) /\ Len(Append(s, e)) = Len(s) + 1
             /\ \A i \in 1 .. Len(s) : Append(s, e)[i] = s[i]
             /\ Append(s, e)[Len(s) + 1] = e
      BY AppendProperties
    <3>2. late \in Seq(S) /\ x \in S
      BY <1>1
    <3> QED
      BY <3>1, <3>2, Zenon
  <2>2. 1 \in 1 .. Len(late) /\ Len(late) + 1 = 2
    BY <1>1
  <2> QED
    BY <1>1, <2>1, <2>2
<1>6. Append(<<>>, x) = <<x>>
  BY <1>2, <1>4, SeqEqual
<1>7. Append(late, x) = <<"timed_out", x>>
  <2> DEFINE both == <<"timed_out", x>>
  <2>1. both \in Seq(S) /\ Len(both) = 2 /\ both[1] = "timed_out" /\ both[2] = x
    BY <1>3
  <2> HIDE DEF both
  <2>2. \A i \in 1 .. Len(Append(late, x)) : Append(late, x)[i] = both[i]
    BY <2>1, <1>5
  <2>3. Append(late, x) = both
    BY <2>1, <2>2, <1>5, SeqEqual
  <2> QED
    BY <2>3 DEF both
<1> QED
  BY <1>6, <1>7 DEF late

(* Every issued handle is one the model can issue. *)
LEMMA HandlesIssued == ASSUME StatusInv PROVE 0 .. opened - 1 \subseteq Handles
  BY QueueAssumption DEF StatusInv, Handles

(* Steps that touch neither a status nor what is retained. *)
QuietStep == UNCHANGED <<opened, retained, status>>

-------------------------------------------------------------------------------
(* What each action does to the status books. *)
(* Opening issues the next handle as pending (queue.py 238-285). *)
LEMMA OpenStep ==
    ASSUME StatusInv, NEW a, NEW k, NEW c, NEW d, NEW parent,
           OpenDecision(a, k, c, d, parent)
    PROVE  /\ opened \in Handles /\ status[opened] = "none" /\ opened \notin retained
           /\ opened' = opened + 1 /\ retained' = retained \cup {opened}
           /\ status' = [status EXCEPT ![opened] = "pending"]
  BY QueueAssumption DEF StatusInv, OpenDecision, Handles

(* Settling retains one more return on an awaiting handle (435-492). *)
LEMMA SettleStep ==
    ASSUME StatusInv, NEW h \in Handles, NEW o \in Submitted, Settle(h, o)
    PROVE  \E kept \in Outcomes :
              /\ h \in retained /\ status[h] \in Awaiting
              /\ status' = [status EXCEPT ![h] = kept]
              /\ returns' = [returns EXCEPT ![h] = Append(@, kept)]
              /\ UNCHANGED <<opened, retained>>
<1> DEFINE kept == IF Route(decision[h].actor, decision[h].channel)[1] = None
                   THEN "historical" ELSE o
<1>1. kept \in Outcomes
  BY StatusesApart
<1> QED
  BY <1>1 DEF Settle, Settleable

(* Lateness penalises exactly the named handles that are pending (501-532). *)
LEMMA TimeOutStep ==
    ASSUME StatusInv, NEW handles, TimeOut(handles)
    PROVE  LET late == handles \cap Pending IN
           /\ late \subseteq retained /\ \A h \in late : status[h] = "pending"
           /\ status' = [h \in Handles |-> IF h \in late THEN "timed_out" ELSE status[h]]
           /\ returns' = [h \in Handles |-> IF h \in late THEN Append(returns[h], "timed_out")
                                            ELSE returns[h]]
           /\ UNCHANGED <<opened, retained>>
  BY DEF TimeOut, Pending

(* Releasing needs the outcome and drops the returns (628-663). *)
LEMMA ReleaseStep ==
    ASSUME StatusInv, NEW h \in Handles, ReleaseDecision(h)
    PROVE  /\ h \in retained /\ status[h] \in Outcomes /\ retained' = retained \ {h}
           /\ UNCHANGED <<opened, status>>
           /\ returns' = [returns EXCEPT ![h] = <<>>]
<1>1. h \in retained /\ status[h] \notin Awaiting
  BY DEF ReleaseDecision, Owed
<1>2. status[h] \in Statuses /\ status[h] # "none"
  BY <1>1 DEF StatusInv
<1> QED
  BY <1>1, <1>2 DEF ReleaseDecision, Statuses

(* No other method touches a status, a return or what is retained. *)
LEMMA OtherStep ==
    ASSUME \/ Tick \/ DrainFinalized \/ Restore
           \/ \E h \in Handles : RecordPropensity(h)
           \/ \E h \in Handles, ks \in SUBSET Keys : RecordActions(h, ks)
           \/ \E a \in Actors : RetireActor(a)
           \/ \E a, b \in Actors, m \in ChannelMaps : RegisterSuccessor(a, b, m)
           \/ \E a \in Actors, n \in Nat : ReleaseDelivered(a, n)
           \/ \E before \in Int : CompactReleased(before)
           \/ UNCHANGED qvars
    PROVE  QuietStep /\ UNCHANGED returns
  BY DEF QuietStep, Tick, DrainFinalized, Restore, RecordPropensity, RecordActions,
         RetireActor, RegisterSuccessor, ReleaseDelivered, CompactReleased, qvars

(* Every step is one of these five kinds. *)
LEMMA StepKinds ==
    ASSUME [Calls]_qvars
    PROVE  \/ \E a \in Actors, k \in Contracts, c \in Channels, d \in Nat,
                 parent \in Handles \cup {None} : OpenDecision(a, k, c, d, parent)
           \/ \E h \in Handles, o \in Submitted : Settle(h, o)
           \/ \E handles : TimeOut(handles)
           \/ \E h \in Handles : ReleaseDecision(h)
           \/ QuietStep /\ UNCHANGED returns
  BY OtherStep DEF Calls, Expire

-------------------------------------------------------------------------------

(* The status books hold initially. *)
LEMMA StatusInit == QueueInit => StatusInv
  BY QueueAssumption DEF QueueInit, StatusInv, Statuses, Handles

(* Every step of the queue keeps the status books. *)
LEMMA StatusInductive == StatusInv /\ [Calls]_qvars => StatusInv'
<1> SUFFICES ASSUME StatusInv, [Calls]_qvars PROVE StatusInv'
  OBVIOUS
<1> USE StatusesApart, HandlesIssued DEF StatusInv
<1>1. ASSUME NEW a, NEW k, NEW c, NEW d, NEW parent, OpenDecision(a, k, c, d, parent)
      PROVE StatusInv'
  <2>1. /\ opened \in Handles /\ opened' = opened + 1
        /\ retained' = retained \cup {opened}
        /\ status' = [status EXCEPT ![opened] = "pending"]
    BY <1>1, OpenStep
  <2>2. opened' \in 0 .. MaxHandles /\ 0 .. opened' - 1 = (0 .. opened - 1) \cup {opened}
    BY <2>1, QueueAssumption DEF Handles
  <2>3. "pending" \in Statuses /\ "pending" # "none"
    BY DEF Statuses, Awaiting
  <2> QED
    BY <2>1, <2>2, <2>3 DEF Handles
<1>2. ASSUME NEW h \in Handles, NEW o \in Submitted, Settle(h, o) PROVE StatusInv'
  <2>1. PICK kept \in Outcomes : /\ h \in retained
                                 /\ status' = [status EXCEPT ![h] = kept]
                                 /\ UNCHANGED <<opened, retained>>
    BY <1>2, SettleStep
  <2>2. kept \in Statuses /\ kept # "none"
    BY DEF Statuses
  <2> QED
    BY <2>1, <2>2 DEF Handles
<1>3. ASSUME NEW handles, TimeOut(handles) PROVE StatusInv'
  <2> DEFINE late == handles \cap Pending
  <2>1. /\ late \subseteq retained /\ UNCHANGED <<opened, retained>>
        /\ status' = [h \in Handles |-> IF h \in late THEN "timed_out" ELSE status[h]]
    BY <1>3, TimeOutStep
  <2>2. "timed_out" \in Statuses /\ "timed_out" # "none"
    BY DEF Statuses, Awaiting
  <2> HIDE DEF late
  <2>3. retained \subseteq 0 .. opened - 1
    OBVIOUS
  <2> QED
    BY <2>1, <2>2, <2>3 DEF Handles
<1>4. ASSUME NEW h \in Handles, ReleaseDecision(h) PROVE StatusInv'
  BY <1>4, ReleaseStep
<1>5. ASSUME QuietStep PROVE StatusInv'
  BY <1>5 DEF QuietStep
<1> QED
  BY <1>1, <1>2, <1>3, <1>4, <1>5, StepKinds

(* The queue's handles answer from sane books, whatever the calls. *)
THEOREM StatusAlways == QueueSpec => []StatusInv
  BY StatusInit, StatusInductive, BoundedCalls, PTL DEF QueueSpec

-------------------------------------------------------------------------------

(* No return is held initially. *)
LEMMA ReturnsInit == QueueInit => ReturnsInv
  BY DEF QueueInit, ReturnsInv

(* Every step keeps the returns of a handle in line with its status. *)
LEMMA ReturnsInductive ==
    StatusInv /\ ReturnsInv /\ [Calls]_qvars => ReturnsInv'
<1> SUFFICES ASSUME StatusInv, ReturnsInv, [Calls]_qvars PROVE ReturnsInv'
  OBVIOUS
<1> USE StatusesApart, HandlesIssued DEF ReturnsInv
<1>0. retained \subseteq Handles
  BY DEF StatusInv
<1>1. ASSUME NEW a, NEW k, NEW c, NEW d, NEW parent, OpenDecision(a, k, c, d, parent)
      PROVE ReturnsInv'
  <2>1. /\ opened \in Handles /\ status[opened] = "none" /\ opened \notin retained
        /\ retained' = retained \cup {opened}
        /\ status' = [status EXCEPT ![opened] = "pending"]
    BY <1>1, OpenStep
  <2>2. returns' = returns
    BY <1>1 DEF OpenDecision
  <2>3. status \in [Handles -> Statuses]
    BY DEF StatusInv
  <2>4. "pending" \notin Outcomes /\ "pending" # "none"
    BY DEF Awaiting
  <2> QED
    BY <2>1, <2>2, <2>3, <2>4, <1>0
<1>2. ASSUME NEW h \in Handles, NEW o \in Submitted, Settle(h, o) PROVE ReturnsInv'
  <2>1. PICK kept \in Outcomes :
           /\ h \in retained /\ status[h] \in Awaiting
           /\ status' = [status EXCEPT ![h] = kept]
           /\ returns' = [returns EXCEPT ![h] = Append(@, kept)]
           /\ UNCHANGED <<opened, retained>>
    BY <1>2, SettleStep
  <2>2. returns[h] = <<>> \/ returns[h] = <<"timed_out">>
    BY <2>1 DEF Awaiting
  <2>3. Append(returns[h], kept) \in {<<kept>>, <<"timed_out", kept>>}
    BY <2>2, AppendWritten
  <2>4. kept # "pending" /\ kept # "timed_out" /\ kept # "none"
    BY DEF Awaiting
  <2>5. status'[h] = kept /\ returns'[h] \in {<<kept>>, <<"timed_out", kept>>}
    BY <2>1, <2>3 DEF StatusInv
  <2>6. \A g \in Handles \ {h} : status'[g] = status[g] /\ returns'[g] = returns[g]
    BY <2>1 DEF StatusInv
  <2>7. DOMAIN returns' = Handles /\ retained' = retained
    BY <2>1
  <2> QED
    BY <2>4, <2>5, <2>6, <2>7, <1>0
<1>3. ASSUME NEW handles, TimeOut(handles) PROVE ReturnsInv'
  <2> DEFINE late == handles \cap Pending
  <2>1. /\ late \subseteq retained /\ \A h \in late : status[h] = "pending"
        /\ UNCHANGED <<opened, retained>>
        /\ status' = [h \in Handles |-> IF h \in late THEN "timed_out" ELSE status[h]]
        /\ returns' = [h \in Handles |-> IF h \in late THEN Append(returns[h], "timed_out")
                                         ELSE returns[h]]
    BY <1>3, TimeOutStep
  <2> HIDE DEF late
  <2>2. \A h \in late : returns[h] = <<>> /\ h \in Handles
    BY <2>1, <1>0
  <2>3. \A h \in late : status'[h] = "timed_out" /\ returns'[h] = <<"timed_out">>
    BY <2>1, <2>2, AppendWritten
  <2>4. \A h \in Handles \ late : status'[h] = status[h] /\ returns'[h] = returns[h]
    BY <2>1
  <2>5. "timed_out" \notin Outcomes /\ "timed_out" # "none" /\ "timed_out" # "pending"
    BY DEF Awaiting
  <2>6. DOMAIN returns' = Handles /\ retained' = retained
    BY <2>1
  <2> QED
    BY <2>3, <2>4, <2>5, <2>6, <1>0
<1>4. ASSUME NEW h \in Handles, ReleaseDecision(h) PROVE ReturnsInv'
  <2>1. /\ h \in retained /\ retained' = retained \ {h} /\ status' = status
        /\ returns' = [returns EXCEPT ![h] = <<>>]
    BY <1>4, ReleaseStep
  <2> QED
    BY <2>1, <1>0
<1>5. ASSUME QuietStep, UNCHANGED returns PROVE ReturnsInv'
  BY <1>5 DEF QuietStep
<1> QED
  BY <1>1, <1>2, <1>3, <1>4, <1>5, StepKinds

(* What the status of a handle says of its returns. *)
LEMMA OutcomeSays == StatusInv /\ ReturnsInv => OneOutcome
<1> SUFFICES ASSUME StatusInv, ReturnsInv, NEW h \in retained
             PROVE  CASE status[h] = "pending" -> returns[h] = <<>>
                      [] status[h] = "timed_out" -> returns[h] = <<"timed_out">>
                      [] OTHER -> /\ status[h] \in Outcomes
                                  /\ returns[h] \in {<<status[h]>>, <<"timed_out", status[h]>>}
  BY DEF OneOutcome
<1>1. h \in Handles /\ status[h] # "none" /\ status[h] \in Statuses
  BY HandlesIssued DEF StatusInv
<1>2. status[h] = "pending" \/ status[h] = "timed_out" \/ status[h] \in Outcomes
  BY <1>1 DEF Statuses, Awaiting
<1> QED
  BY <1>2, StatusesApart DEF ReturnsInv, Awaiting

(* OneOutcome: at most one penalty and one outcome per decision, in that    *)
(* order, whatever the number of learners, decisions and calls.             *)
THEOREM OutcomeOnce == QueueSpec => []OneOutcome
<1>1. StatusInv /\ ReturnsInv => OneOutcome
  BY OutcomeSays
<1> QED
  BY <1>1, StatusInit, StatusInductive, ReturnsInit, ReturnsInductive, BoundedCalls, PTL DEF QueueSpec

-------------------------------------------------------------------------------
(* Every step of the queue is a step of Outcome or a stutter. *)

OutcomeOf(h) == IF status[h] \in Outcomes THEN status[h] ELSE "none"
phaseMap == [h \in Handles |-> PhaseOf(h)]
outcomeMap == [h \in Handles |-> OutcomeOf(h)]

(* The queue starts where its promise starts. *)
LEMMA PromiseInit == QueueInit => Promise!Init
  BY StatusesApart DEF QueueInit, Promise!Init, PhaseOf

(* What the phase of a handle says of the queue's books. *)
LEMMA PhaseMeaning ==
    ASSUME StatusInv, NEW h \in Handles
    PROVE  /\ PhaseOf(h) = "unopened" <=> h >= opened
           /\ h \in retained => PhaseOf(h) = IF status[h] \in Outcomes THEN "final" ELSE status[h]
           /\ h < opened /\ h \notin retained => PhaseOf(h) = "released"
<1>1. h \in Nat /\ opened \in Nat
  BY QueueAssumption DEF Handles, StatusInv
<1>2. h \in retained => status[h] \in Awaiting \cup Outcomes
  BY HandlesIssued DEF StatusInv, Statuses
<1> QED
  BY <1>1, <1>2 DEF StatusInv, PhaseOf, Awaiting

(* Each action maps to the step of Outcome of the same name, or to a stutter. *)
LEMMA PromiseStep ==
    StatusInv /\ StatusInv' /\ [Calls]_qvars
        => [Promise!Next]_<<phaseMap, outcomeMap>>
<1> SUFFICES ASSUME StatusInv, StatusInv', [Calls]_qvars
             PROVE  [Promise!Next]_<<phaseMap, outcomeMap>>
  OBVIOUS
<1> USE StatusesApart
<1>0. /\ retained \subseteq Handles /\ opened \in Nat /\ Handles \subseteq Nat
      /\ status \in [Handles -> Statuses]
  BY HandlesIssued, QueueAssumption DEF StatusInv, Handles
<1>1. ASSUME NEW a, NEW k, NEW c, NEW d, NEW parent, OpenDecision(a, k, c, d, parent)
      PROVE Promise!Next
  <2>0. PICK h \in Handles : h = opened
    BY <1>1, OpenStep
  <2>1. /\ status[h] = "none" /\ h \notin retained
        /\ opened' = h + 1 /\ retained' = retained \cup {h}
        /\ status' = [status EXCEPT ![h] = "pending"]
    BY <1>1, <2>0, OpenStep
  <2>2. PhaseOf(h) = "unopened" /\ PhaseOf(h)' = "pending"
    BY <2>0, <2>1, <1>0 DEF PhaseOf, Awaiting
  <2>3. \A g \in Handles \ {h} : PhaseOf(g)' = PhaseOf(g) /\ OutcomeOf(g)' = OutcomeOf(g)
    BY <2>0, <2>1, <1>0 DEF PhaseOf, OutcomeOf
  <2>4. OutcomeOf(h)' = OutcomeOf(h)
    BY <2>1, <1>0 DEF OutcomeOf, Awaiting
  <2>5. Promise!Open(h)
    BY <2>2, <2>3, <2>4 DEF Promise!Open, OutcomeOf
  <2> QED
    BY <2>5 DEF Promise!Next
<1>2. ASSUME NEW h \in Handles, NEW o \in Submitted, Settle(h, o) PROVE Promise!Next
  <2>1. PICK kept \in Outcomes :
           /\ h \in retained /\ status[h] \in Awaiting
           /\ status' = [status EXCEPT ![h] = kept]
           /\ UNCHANGED <<opened, retained>>
    BY <1>2, SettleStep
  <2>2. h \in 0 .. opened - 1
    BY <2>1 DEF StatusInv
  <2>3. PhaseOf(h) \in {"pending", "timed_out"} /\ PhaseOf(h)' = "final" /\ OutcomeOf(h)' = kept
    BY <2>1, <2>2, <1>0 DEF PhaseOf, OutcomeOf, Awaiting
  <2>4. \A g \in Handles \ {h} : PhaseOf(g)' = PhaseOf(g) /\ OutcomeOf(g)' = OutcomeOf(g)
    BY <2>1, <1>0 DEF PhaseOf, OutcomeOf
  <2>5. Promise!Settle(h, kept)
    BY <2>3, <2>4 DEF Promise!Settle, OutcomeOf
  <2> QED
    BY <2>5 DEF Promise!Next
<1>3. ASSUME NEW handles, TimeOut(handles) PROVE Promise!Next
  <2> DEFINE late == handles \cap Pending
  <2>1. /\ late \subseteq retained /\ \A h \in late : status[h] = "pending"
        /\ UNCHANGED <<opened, retained>>
        /\ status' = [h \in Handles |-> IF h \in late THEN "timed_out" ELSE status[h]]
    BY <1>3, TimeOutStep
  <2> HIDE DEF late
  <2>2. late \in SUBSET Handles /\ late \subseteq 0 .. opened - 1
    BY <2>1, <1>0 DEF StatusInv
  <2>3. \A h \in late : PhaseOf(h) = "pending" /\ PhaseOf(h)' = "timed_out"
                        /\ OutcomeOf(h)' = OutcomeOf(h)
    BY <2>1, <2>2 DEF PhaseOf, OutcomeOf, Awaiting
  <2>4. \A g \in Handles \ late : PhaseOf(g)' = PhaseOf(g) /\ OutcomeOf(g)' = OutcomeOf(g)
    BY <2>1 DEF PhaseOf, OutcomeOf
  <2>5. Promise!TimeOut(late)
    BY <2>2, <2>3, <2>4 DEF Promise!TimeOut, OutcomeOf
  <2> QED
    BY <2>2, <2>5 DEF Promise!Next
<1>4. ASSUME NEW h \in Handles, ReleaseDecision(h) PROVE Promise!Next
  <2>1. /\ h \in retained /\ status[h] \in Outcomes /\ retained' = retained \ {h}
        /\ UNCHANGED <<opened, status>>
    BY <1>4, ReleaseStep
  <2>2. h \in 0 .. opened - 1
    BY <2>1 DEF StatusInv
  <2>3. PhaseOf(h) = "final" /\ PhaseOf(h)' = "released"
    BY <2>1, <2>2 DEF PhaseOf
  <2>4. \A g \in Handles \ {h} : PhaseOf(g)' = PhaseOf(g)
    BY <2>1 DEF PhaseOf
  <2>5. \A g \in Handles : OutcomeOf(g)' = OutcomeOf(g)
    BY <2>1 DEF OutcomeOf
  <2>6. Promise!Release(h)
    BY <2>3, <2>4, <2>5 DEF Promise!Release, OutcomeOf
  <2> QED
    BY <2>6 DEF Promise!Next
<1>5. ASSUME QuietStep PROVE UNCHANGED <<phaseMap, outcomeMap>>
  BY <1>5 DEF QuietStep, phaseMap, outcomeMap, PhaseOf, OutcomeOf
<1> QED
  BY <1>1, <1>2, <1>3, <1>4, <1>5, StepKinds

(* PromiseKept: the queue implements Outcome under the mapping of the module. *)
THEOREM QueueImplementsOutcome == QueueSpec => PromiseKept
<1>1. [Promise!Next]_<<phaseMap, outcomeMap>> =>
        [Promise!Next]_<<[h \in Handles |-> PhaseOf(h)],
                         [h \in Handles |-> IF status[h] \in Outcomes THEN status[h] ELSE "none"]>>
  BY DEF phaseMap, outcomeMap, OutcomeOf
<1> QED
  BY <1>1, PromiseInit, PromiseStep, StatusInit, StatusInductive, BoundedCalls, PTL
     DEF QueueSpec, PromiseKept, Promise!Spec

-------------------------------------------------------------------------------
(* Ancestry: the count of retained children is exact, so a parent is never *)
(* released before its children.                                          *)

ChildrenOf(p) == {c \in retained : decision[c].parent = p}

FamilyInv ==
    /\ DOMAIN decision = Handles /\ DOMAIN children = Handles
    /\ \A p \in Handles : children[p] = Cardinality(ChildrenOf(p))
    /\ NoOrphans

(* What is retained, and each family in it, is finite. *)
LEMMA RetainedFinite ==
    ASSUME StatusInv PROVE IsFiniteSet(retained) /\ \A p : IsFiniteSet(ChildrenOf(p))
<1>1. IsFiniteSet(0 .. opened - 1)
  BY FS_Interval DEF StatusInv
<1>2. IsFiniteSet(retained)
  BY <1>1, FS_Subset DEF StatusInv
<1>3. \A p : ChildrenOf(p) \subseteq retained
  BY DEF ChildrenOf
<1> QED
  BY <1>2, <1>3, FS_Subset

(* The counters of children are exact initially. *)
LEMMA FamilyInit == QueueInit => FamilyInv
<1> SUFFICES ASSUME QueueInit PROVE FamilyInv
  OBVIOUS
<1>1. \A p : ChildrenOf(p) = {}
  BY DEF QueueInit, ChildrenOf
<1>2. Cardinality({}) = 0
  BY FS_EmptySet
<1> QED
  BY <1>1, <1>2 DEF QueueInit, FamilyInv, NoOrphans

(* Steps that neither open nor release a decision keep the family. *)
LEMMA FamilyQuiet ==
    ASSUME FamilyInv, UNCHANGED <<retained, decision>>,
           children' = children \/ children' = RecountChildren
    PROVE  FamilyInv'
<1>1. \A p : ChildrenOf(p)' = ChildrenOf(p)
  BY DEF ChildrenOf
<1>2. \A p \in Handles : children'[p] = Cardinality(ChildrenOf(p)) /\ DOMAIN children' = Handles
  BY DEF FamilyInv, RecountChildren, ChildrenOf
<1>3. NoOrphans'
  BY DEF FamilyInv, NoOrphans
<1>4. DOMAIN children' = Handles
  BY DEF FamilyInv, RecountChildren
<1> QED
  BY <1>1, <1>2, <1>3, <1>4 DEF FamilyInv

(* Every step keeps the counters of children exact and the ancestry whole. *)
LEMMA FamilyInductive ==
    StatusInv /\ FamilyInv /\ [Calls]_qvars => FamilyInv'
<1> SUFFICES ASSUME StatusInv, FamilyInv, [Calls]_qvars PROVE FamilyInv'
  OBVIOUS
<1>0. retained \subseteq Handles /\ None \notin Handles
  BY HandlesIssued, QueueAssumption DEF StatusInv
<1>1. ASSUME NEW a, NEW k, NEW c, NEW d, NEW parent, OpenDecision(a, k, c, d, parent)
      PROVE FamilyInv'
  <2>0. PICK h \in Handles : h = opened
    BY <1>1, OpenStep
  <2>1. /\ h \notin retained /\ retained' = retained \cup {h}
        /\ parent \in retained \cup {None}
        /\ DOMAIN decision' = Handles /\ decision'[h].parent = parent
        /\ \A g \in Handles \ {h} : decision'[g] = decision[g]
        /\ AddChild(parent)
    BY <1>1, <2>0, OpenStep DEF OpenDecision, FamilyInv
  <2>2. \A p \in Handles : ChildrenOf(p)' = IF p = parent THEN ChildrenOf(p) \cup {h}
                                           ELSE ChildrenOf(p)
    BY <2>1, <1>0 DEF ChildrenOf
  <2>3. \A p \in Handles : h \notin ChildrenOf(p)
    BY <2>1 DEF ChildrenOf
  <2>4. \A p \in Handles : Cardinality(ChildrenOf(p) \cup {h}) = Cardinality(ChildrenOf(p)) + 1
    BY <2>3, RetainedFinite, FS_AddElement
  <2>5. DOMAIN children' = Handles
        /\ \A p \in Handles : children'[p] = IF p = parent THEN children[p] + 1 ELSE children[p]
    BY <2>1, <1>0 DEF AddChild, FamilyInv
  <2>6. \A p \in Handles : children'[p] = Cardinality(ChildrenOf(p)')
    BY <2>2, <2>4, <2>5 DEF FamilyInv
  <2>7. NoOrphans'
    BY <2>1, <1>0 DEF NoOrphans, FamilyInv
  <2> QED
    BY <2>1, <2>5, <2>6, <2>7 DEF FamilyInv
<1>2. ASSUME NEW h \in Handles, NEW o \in Submitted, Settle(h, o) PROVE FamilyInv'
  BY <1>2, FamilyQuiet DEF Settle
<1>3. ASSUME NEW handles, TimeOut(handles) PROVE FamilyInv'
  BY <1>3, FamilyQuiet DEF TimeOut
<1>4. ASSUME NEW h \in Handles, ReleaseDecision(h) PROVE FamilyInv'
  <2> DEFINE parent == decision[h].parent
  <2>1. /\ h \in retained /\ retained' = retained \ {h} /\ decision' = decision
        /\ children[h] = 0 /\ DropChild(parent)
    BY <1>4 DEF ReleaseDecision, Owed
  <2>2. ChildrenOf(h) = {}
    BY <2>1, RetainedFinite, FS_EmptySet DEF FamilyInv
  <2>3. \A p \in Handles : ChildrenOf(p)' = IF p = parent THEN ChildrenOf(p) \ {h}
                                           ELSE ChildrenOf(p)
    BY <2>1 DEF ChildrenOf
  <2>4. parent \in Handles => h \in ChildrenOf(parent)
    BY <2>1 DEF ChildrenOf
  <2>5. parent \in Handles =>
          Cardinality(ChildrenOf(parent) \ {h}) = Cardinality(ChildrenOf(parent)) - 1
    BY <2>4, RetainedFinite, FS_RemoveElement
  <2>6. parent \in Handles \cup {None}
    BY <2>1, <1>0 DEF FamilyInv, NoOrphans
  <2> HIDE DEF parent
  <2>7. DOMAIN children' = Handles
        /\ \A p \in Handles : children'[p] = IF p = parent THEN children[p] - 1 ELSE children[p]
    BY <2>1, <2>6, <1>0 DEF DropChild, FamilyInv
  <2>8. \A p \in Handles : children'[p] = Cardinality(ChildrenOf(p)')
    BY <2>3, <2>5, <2>7 DEF FamilyInv
  <2>9. NoOrphans'
    BY <2>1, <2>2, <1>0 DEF NoOrphans, FamilyInv, ChildrenOf
  <2> QED
    BY <2>1, <2>7, <2>8, <2>9 DEF FamilyInv
<1>5. ASSUME \/ Tick \/ DrainFinalized \/ Restore
             \/ \E h \in Handles : RecordPropensity(h)
             \/ \E h \in Handles, ks \in SUBSET Keys : RecordActions(h, ks)
             \/ \E a \in Actors : RetireActor(a)
             \/ \E a, b \in Actors, m \in ChannelMaps : RegisterSuccessor(a, b, m)
             \/ \E a \in Actors, n \in Nat : ReleaseDelivered(a, n)
             \/ \E before \in Int : CompactReleased(before)
             \/ UNCHANGED qvars
      PROVE FamilyInv'
  <2>1. UNCHANGED <<retained, decision>> /\ (children' = children \/ children' = RecountChildren)
    BY <1>5 DEF Tick, DrainFinalized, Restore, RecordPropensity, RecordActions, RetireActor,
       RegisterSuccessor, ReleaseDelivered, CompactReleased, qvars
  <2> QED
    BY <2>1, FamilyQuiet
<1> QED
  BY <1>1, <1>2, <1>3, <1>4, <1>5 DEF Calls, Expire

(* NoOrphans: the ancestry of every retained decision is retained, whatever *)
(* order chains of requests settle, time out and are released in.           *)
THEOREM AncestryWhole == QueueSpec => []NoOrphans
<1>1. FamilyInv => NoOrphans
  BY DEF FamilyInv
<1> QED
  BY <1>1, StatusInit, StatusInductive, FamilyInit, FamilyInductive, BoundedCalls, PTL DEF QueueSpec

(* The two facts of every retained decision that a run checks together. *)
COROLLARY RetainedWhole == QueueSpec => []DecisionsWhole
<1>1. OneOutcome /\ NoOrphans => DecisionsWhole
  BY DEF DecisionsWhole
<1> QED
  BY <1>1, OutcomeOnce, AncestryWhole, PTL

-------------------------------------------------------------------------------
(* Who learns: succession among actors has no cycle, so that following it ends *)
(* with a living actor or with nobody.                                         *)

Registered == Actors \X ChannelMaps

SuccessionInv ==
    /\ retired \subseteq Actors
    /\ successor \in [Actors -> {None} \cup Registered]
    /\ \A S \in SUBSET Actors :
          S # {} => \E a \in S : successor[a] = None \/ successor[a][1] \notin S

(* A function that is iterated from a point of its domain. *)
Iterated(g, X, x0, step, m) ==
    g \in [0 .. m -> X] /\ g[0] = x0 /\ \A n \in 1 .. m : g[n] = step[g[n - 1]]

(* A step that stays in X can be taken m times from a point of X.              *)
LEMMA Iteration ==
    ASSUME NEW X, NEW x0 \in X, NEW step \in [X -> X], NEW m \in Nat
    PROVE  \E g : Iterated(g, X, x0, step, m)
<1> DEFINE Iterates(k, g) == g[0] = x0 /\ \A n \in 1 .. k : g[n] = step[g[n - 1]]
           P == {k \in Nat : \E g \in [0 .. k -> X] : Iterates(k, g)}
<1>1. 0 \in P
  <2> DEFINE g == [n \in 0 .. 0 |-> x0]
  <2>1. g \in [0 .. 0 -> X] /\ Iterates(0, g)
    OBVIOUS
  <2> QED
    BY <2>1
<1>2. ASSUME NEW k \in P PROVE k + 1 \in P
  <2>1. PICK g \in [0 .. k -> X] : Iterates(k, g)
    OBVIOUS
  <2>2. k \in Nat
    OBVIOUS
  <2> DEFINE h == [n \in 0 .. k + 1 |-> IF n <= k THEN g[n] ELSE step[g[k]]]
  <2>3. g[k] \in X /\ step[g[k]] \in X
    BY <2>2
  <2>4. h \in [0 .. k + 1 -> X]
    BY <2>2, <2>3
  <2>5. \A n \in 0 .. k : h[n] = g[n]
    BY <2>2
  <2>6. h[k + 1] = step[g[k]]
    BY <2>2
  <2> HIDE DEF h, P
  <2>7. h[0] = x0
    BY <2>1, <2>2, <2>5
  <2>8. \A n \in 1 .. k + 1 : h[n] = step[h[n - 1]]
    <3> SUFFICES ASSUME NEW n \in 1 .. k + 1 PROVE h[n] = step[h[n - 1]]
      OBVIOUS
    <3>1. CASE n = k + 1
      <4>1. n - 1 = k /\ k \in 0 .. k
        BY <2>2, <3>1
      <4> QED
        BY <2>5, <2>6, <3>1, <4>1
    <3>2. CASE n # k + 1
      <4>1. n \in 1 .. k /\ n \in 0 .. k /\ n - 1 \in 0 .. k
        BY <2>2, <3>2
      <4> QED
        BY <2>1, <2>5, <4>1
    <3> QED
      BY <3>1, <3>2
  <2> QED
    BY <2>2, <2>4, <2>7, <2>8 DEF P
<1>3. P \in SUBSET Nat
  OBVIOUS
<1> HIDE DEF P
<1>4. m \in P
  BY <1>1, <1>2, <1>3, Induction
<1> QED
  BY <1>4 DEF P, Iterated

(* There are not as many successions as actors in a row. *)
LEMMA NoLongWalk ==
    ASSUME SuccessionInv, NEW m, m = Cardinality(Actors), NEW w \in [0 .. m -> Actors],
           \A n \in 1 .. m : successor[w[n - 1]] # None /\ w[n] = successor[w[n - 1]][1]
    PROVE  FALSE
<1>1. m \in Nat /\ IsFiniteSet(Actors)
  BY QueueAssumption, FS_CardinalityType
<1>2. IsFiniteSet(0 .. m) /\ Cardinality(Actors) < Cardinality(0 .. m)
  BY <1>1, FS_Interval
<1>3. \E x, y \in 0 .. m : x # y /\ w[x] = w[y]
  <2>1. PICK Steps : Steps = 0 .. m
    OBVIOUS
  <2>2. w \in [Steps -> Actors] /\ IsFiniteSet(Steps) /\ Cardinality(Actors) < Cardinality(Steps)
    BY <1>2, <2>1
  <2>3. \E x, y \in Steps : x # y /\ w[x] = w[y]
    BY <1>1, <2>2, FS_PigeonHole
  <2> QED
    BY <2>1, <2>3
<1>4. PICK x \in 0 .. m, y \in 0 .. m : x < y /\ w[x] = w[y]
  <2>1. PICK x \in 0 .. m, y \in 0 .. m : x # y /\ w[x] = w[y]
    BY <1>3
  <2>2. x < y \/ y < x
    BY <1>1, <2>1
  <2> QED
    BY <2>1, <2>2
<1>5. PICK S : S = {w[i] : i \in x .. y - 1}
  OBVIOUS
<1>6. S \in SUBSET Actors /\ S # {}
  BY <1>1, <1>4, <1>5
<1>7. PICK a \in S : successor[a] = None \/ successor[a][1] \notin S
  BY <1>6 DEF SuccessionInv
<1>8. PICK i \in x .. y - 1 : a = w[i]
  BY <1>5
<1>9. i + 1 \in 1 .. m /\ (i + 1) - 1 = i
  BY <1>1, <1>4, <1>8
<1>10. successor[a] # None /\ w[i + 1] = successor[a][1]
  BY <1>8, <1>9
<1>11. w[i + 1] \in S
  <2>1. CASE i + 1 = y
    <3>1. x \in x .. y - 1
      BY <1>1, <1>4
    <3> QED
      BY <1>4, <1>5, <2>1, <3>1
  <2>2. CASE i + 1 # y
    <3>1. i + 1 \in x .. y - 1
      BY <1>1, <1>4, <1>8, <2>2
    <3> QED
      BY <1>5, <3>1
  <2> QED
    BY <2>1, <2>2
<1> QED
  BY <1>7, <1>10, <1>11

(* One hop of a return, from an actor or nobody. *)
Places == (Actors \cup {None}) \X Channels

(* A hop stays among the places: at a living actor it ends, from a retired one *)
(* it goes to the successor or to nobody.                                      *)
LEMMA HopTyped ==
    ASSUME SuccessionInv, NEW at \in Places
    PROVE  /\ Hop(at) \in Places
           /\ at[1] = None \/ at[1] \notin retired => Hop(at) = at
           /\ at[1] \in retired /\ Hop(at)[1] # None =>
                 successor[at[1]] # None /\ Hop(at)[1] = successor[at[1]][1]
<1>1. at[1] \in Actors \cup {None} /\ at[2] \in Channels /\ None \notin Actors
  BY QueueAssumption DEF Places
<1>2. CASE at[1] = None \/ at[1] \notin retired
  BY <1>1, <1>2 DEF Hop, SuccessionInv
<1>3. CASE at[1] # None /\ at[1] \in retired
  <2>1. at[1] \in Actors
    BY <1>1, <1>3
  <2>2. PICK next : next = successor[at[1]]
    OBVIOUS
  <2>3. Hop(at) = IF next = None \/ next[2][at[2]] = None THEN <<None, at[2]>>
                  ELSE <<next[1], next[2][at[2]]>>
    BY <1>3, <2>2 DEF Hop
  <2>4. next # None => /\ next[1] \in Actors /\ next[2][at[2]] \in Channels \cup {None}
    BY <1>1, <2>1, <2>2 DEF SuccessionInv, Registered, ChannelMaps
  <2>5. CASE next = None \/ next[2][at[2]] = None
    <3>1. Hop(at) = <<None, at[2]>>
      BY <2>3, <2>5
    <3> QED
      BY <1>1, <1>3, <3>1 DEF Places
  <2>6. CASE ~(next = None \/ next[2][at[2]] = None)
    <3>1. Hop(at) = <<next[1], next[2][at[2]]>>
      BY <2>3, <2>6
    <3> QED
      BY <1>1, <1>3, <2>2, <2>4, <2>6, <3>1 DEF Places
  <2> QED
    BY <2>5, <2>6
<1> QED
  BY <1>2, <1>3

(* A route is as many hops as there are actors. *)
Hops(h, a, c, m) ==
    /\ h \in [0 .. m -> Places] /\ h[0] = <<a, c>> /\ Route(a, c) = h[m]
    /\ \A n \in 1 .. m : h[n] = Hop(h[n - 1])

(* The route of a return is the last of that many hops.                        *)
LEMMA RouteIs ==
    ASSUME SuccessionInv, NEW a \in Actors, NEW c \in Channels, NEW m, m = Cardinality(Actors)
    PROVE  \E h : Hops(h, a, c, m)
<1>1. m \in Nat
  BY QueueAssumption, FS_CardinalityType
<1>2. PICK start \in Places : start = <<a, c>>
  BY DEF Places
<1> DEFINE Recurs(h) == h = [n \in 0 .. m |-> IF n = 0 THEN <<a, c>> ELSE Hop(h[n - 1])]
           step == [at \in Places |-> Hop(at)]
<1>3. step \in [Places -> Places] /\ \A at \in Places : step[at] = Hop(at)
  BY HopTyped
<1> HIDE DEF step
<1>4. PICK g \in [0 .. m -> Places] : g[0] = start /\ \A n \in 1 .. m : g[n] = step[g[n - 1]]
  <2>1. \E g : Iterated(g, Places, start, step, m)
    BY <1>1, <1>2, <1>3, Iteration
  <2> QED
    BY <2>1 DEF Iterated
<1>5. \A n \in 1 .. m : n - 1 \in 0 .. m
  BY <1>1
<1>6. \A n \in 1 .. m : g[n] = Hop(g[n - 1])
  BY <1>3, <1>4, <1>5
<1>7. Recurs(g)
  <2>1. \A n \in 0 .. m : g[n] = IF n = 0 THEN start ELSE Hop(g[n - 1])
    <3> SUFFICES ASSUME NEW n \in 0 .. m PROVE g[n] = IF n = 0 THEN start ELSE Hop(g[n - 1])
      OBVIOUS
    <3>1. n = 0 \/ n \in 1 .. m
      BY <1>1
    <3> QED
      BY <1>4, <1>6, <3>1
  <2> QED
    BY <1>2, <2>1
<1>8. PICK h : h = CHOOSE k : Recurs(k)
  OBVIOUS
<1>9. Recurs(h)
  BY <1>7, <1>8
<1>10. Route(a, c) = h[m]
  BY <1>8 DEF Route
<1>11. h[0] = <<a, c>> /\ \A n \in 1 .. m : h[n] = Hop(h[n - 1])
  <2>1. 0 \in 0 .. m /\ \A n \in 1 .. m : n \in 0 .. m /\ n # 0
    BY <1>1
  <2>2. \A n \in 0 .. m : h[n] = IF n = 0 THEN <<a, c>> ELSE Hop(h[n - 1])
    BY <1>9
  <2> QED
    BY <2>1, <2>2
<1>12. \A n \in 0 .. m : h[n] \in Places
  <2> DEFINE P == {n \in Nat : n <= m => h[n] \in Places}
  <2>1. 0 \in P
    BY <1>2, <1>11
  <2>2. ASSUME NEW n \in P PROVE n + 1 \in P
    <3>1. n \in Nat /\ (n <= m => h[n] \in Places)
      OBVIOUS
    <3> HIDE DEF P
    <3>2. n + 1 <= m => h[n + 1] = Hop(h[n]) /\ n <= m
      <4> SUFFICES ASSUME n + 1 <= m PROVE h[n + 1] = Hop(h[n]) /\ n <= m
        OBVIOUS
      <4>1. n + 1 \in 1 .. m /\ (n + 1) - 1 = n /\ n <= m
        BY <1>1, <3>1
      <4> QED
        BY <1>11, <4>1
    <3> QED
      BY <3>1, <3>2, HopTyped DEF P
  <2>3. P \in SUBSET Nat
    OBVIOUS
  <2> HIDE DEF P
  <2>4. \A n \in Nat : n \in P
    BY <2>1, <2>2, <2>3, Induction
  <2> QED
    BY <1>1, <2>4 DEF P
<1>13. h \in [0 .. m -> Places]
  BY <1>9, <1>12
<1> QED
  BY <1>10, <1>11, <1>13 DEF Hops

(* A return reaches somebody who lives, or nobody because its actor retired. *)
LEMMA RouteLives ==
    ASSUME SuccessionInv, NEW a \in Actors, NEW c \in Channels
    PROVE  /\ Route(a, c) \in Places /\ Route(a, c)[1] \notin retired
           /\ Route(a, c)[1] = None => a \in retired
<1>1. PICK m : m = Cardinality(Actors)
  OBVIOUS
<1>2. m \in Nat
  BY <1>1, QueueAssumption, FS_CardinalityType
<1>3. PICK h \in [0 .. m -> Places] : /\ h[0] = <<a, c>> /\ Route(a, c) = h[m]
                                      /\ \A n \in 1 .. m : h[n] = Hop(h[n - 1])
  <2>1. \E h : Hops(h, a, c, m)
    BY <1>1, RouteIs
  <2> QED
    BY <2>1 DEF Hops
<1>4. ASSUME NEW n \in 0 .. m, h[n][1] \notin retired PROVE h[m] = h[n]
  <2> DEFINE P == {k \in Nat : n + k <= m => h[n + k] = h[n]}
  <2>1. 0 \in P
    BY <1>2
  <2>2. ASSUME NEW k \in P PROVE k + 1 \in P
    <3>1. k \in Nat /\ (n + k <= m => h[n + k] = h[n])
      OBVIOUS
    <3> HIDE DEF P
    <3> SUFFICES ASSUME n + (k + 1) <= m PROVE h[n + (k + 1)] = h[n]
      BY <3>1 DEF P
    <3>2. /\ n + (k + 1) \in 1 .. m /\ (n + (k + 1)) - 1 = n + k /\ n + k <= m
          /\ n \in 0 .. m
      BY <1>2, <3>1
    <3>3. h[n + (k + 1)] = Hop(h[n + k]) /\ h[n + k] = h[n] /\ h[n] \in Places
      BY <1>3, <3>1, <3>2
    <3> QED
      BY <1>4, <3>3, HopTyped
  <2>3. P \in SUBSET Nat
    OBVIOUS
  <2> HIDE DEF P
  <2>4. \A k \in Nat : k \in P
    BY <2>1, <2>2, <2>3, Induction
  <2>5. m - n \in Nat /\ n + (m - n) = m
    BY <1>2
  <2> QED
    BY <1>2, <2>4, <2>5 DEF P
<1>5. h[m][1] \notin retired
  <2> SUFFICES ASSUME h[m][1] \in retired PROVE FALSE
    OBVIOUS
  <2>1. \A n \in 0 .. m : h[n][1] \in retired /\ h[n] \in Places
    BY <1>4
  <2>2. PICK w : w = [n \in 0 .. m |-> h[n][1]]
    OBVIOUS
  <2>3. w \in [0 .. m -> Actors]
    BY <2>1, <2>2 DEF SuccessionInv
  <2>4. ASSUME NEW n \in 1 .. m PROVE successor[w[n - 1]] # None /\ w[n] = successor[w[n - 1]][1]
    <3>1. n - 1 \in 0 .. m /\ n \in 0 .. m
      BY <1>2
    <3>2. h[n] = Hop(h[n - 1]) /\ w[n] = h[n][1] /\ w[n - 1] = h[n - 1][1]
      BY <1>3, <2>2, <3>1
    <3>3. h[n - 1][1] \in retired /\ h[n - 1] \in Places /\ h[n][1] \in Actors /\ h[n][1] # None
      BY <2>1, <3>1, QueueAssumption DEF SuccessionInv
    <3> QED
      BY <3>2, <3>3, HopTyped
  <2> QED
    BY <1>1, <2>3, <2>4, NoLongWalk
<1>6. ASSUME a \notin retired PROVE h[m][1] # None
  <2>1. 0 \in 0 .. m /\ h[0][1] = a
    BY <1>2, <1>3
  <2>2. h[m] = h[0]
    BY <1>4, <1>6, <2>1
  <2> QED
    BY <2>1, <2>2, QueueAssumption
<1>7. m \in 0 .. m
  BY <1>2
<1> QED
  BY <1>3, <1>5, <1>6, <1>7

(* The walk that register_successor refuses a cycle by. *)
Next1(x) == IF x = None \/ successor[x] = None THEN None ELSE successor[x][1]
Walks(w, b, m) ==
    /\ w \in [0 .. m -> Actors \cup {None}] /\ w[0] = b
    /\ \A n \in 1 .. m : w[n] = Next1(w[n - 1])

(* A successor that is not refused starts a walk that never meets the actor.   *)
LEMMA WalkIs ==
    ASSUME SuccessionInv, NEW a \in Actors, NEW b \in Actors, ~Reaches(b, a),
           NEW m, m = Cardinality(Actors)
    PROVE  \E w : Walks(w, b, m) /\ \A n \in 0 .. m : w[n] # a
<1>1. m \in Nat
  BY QueueAssumption, FS_CardinalityType
<1> DEFINE People == Actors \cup {None}
           Recurs(w) == w = [n \in 0 .. m |-> IF n = 0 THEN b
                             ELSE IF w[n - 1] = None \/ successor[w[n - 1]] = None THEN None
                             ELSE successor[w[n - 1]][1]]
           step == [x \in People |-> Next1(x)]
<1>2. b \in People
  OBVIOUS
<1>3. \A x \in People : Next1(x) \in People
  BY DEF Next1, SuccessionInv, Registered
<1>4. step \in [People -> People] /\ \A x \in People : step[x] = Next1(x)
  BY <1>3
<1> HIDE DEF step, People
<1>5. PICK g \in [0 .. m -> People] : g[0] = b /\ \A n \in 1 .. m : g[n] = step[g[n - 1]]
  <2>1. \E g : Iterated(g, People, b, step, m)
    BY <1>1, <1>2, <1>4, Iteration
  <2> QED
    BY <2>1 DEF Iterated
<1>6. \A n \in 1 .. m : n - 1 \in 0 .. m
  BY <1>1
<1>7. \A n \in 1 .. m : g[n] = Next1(g[n - 1])
  BY <1>4, <1>5, <1>6
<1>8. Recurs(g)
  <2>1. \A n \in 0 .. m : g[n] = IF n = 0 THEN b ELSE Next1(g[n - 1])
    <3> SUFFICES ASSUME NEW n \in 0 .. m PROVE g[n] = IF n = 0 THEN b ELSE Next1(g[n - 1])
      OBVIOUS
    <3>1. n = 0 \/ n \in 1 .. m
      BY <1>1
    <3> QED
      BY <1>5, <1>7, <3>1
  <2> QED
    BY <2>1 DEF Next1
<1>9. PICK w : w = CHOOSE k : Recurs(k)
  OBVIOUS
<1>10. Recurs(w)
  BY <1>8, <1>9
<1>11. \A n \in 0 .. m : w[n] # a
  BY <1>9 DEF Reaches
<1>12. w[0] = b /\ \A n \in 1 .. m : w[n] = Next1(w[n - 1])
  <2>1. 0 \in 0 .. m /\ \A n \in 1 .. m : n \in 0 .. m /\ n # 0
    BY <1>1
  <2>2. \A n \in 0 .. m : w[n] = IF n = 0 THEN b ELSE Next1(w[n - 1])
    BY <1>10 DEF Next1
  <2> QED
    BY <2>1, <2>2
<1>13. \A n \in 0 .. m : w[n] \in People
  <2> DEFINE P == {n \in Nat : n <= m => w[n] \in People}
  <2>1. 0 \in P
    BY <1>2, <1>12
  <2>2. ASSUME NEW n \in P PROVE n + 1 \in P
    <3>1. n \in Nat /\ (n <= m => w[n] \in People)
      OBVIOUS
    <3> HIDE DEF P
    <3>2. n + 1 <= m => w[n + 1] = Next1(w[n]) /\ n <= m
      <4> SUFFICES ASSUME n + 1 <= m PROVE w[n + 1] = Next1(w[n]) /\ n <= m
        OBVIOUS
      <4>1. n + 1 \in 1 .. m /\ (n + 1) - 1 = n /\ n <= m
        BY <1>1, <3>1
      <4> QED
        BY <1>12, <4>1
    <3> QED
      BY <1>3, <3>1, <3>2 DEF P
  <2>3. P \in SUBSET Nat
    OBVIOUS
  <2> HIDE DEF P
  <2>4. \A n \in Nat : n \in P
    BY <2>1, <2>2, <2>3, Induction
  <2> QED
    BY <1>1, <2>4 DEF P
<1>14. w \in [0 .. m -> People]
  BY <1>10, <1>13
<1> QED
  BY <1>11, <1>12, <1>14 DEF Walks, People

(* A successor that does not reach the actor it succeeds makes no cycle. *)
LEMMA SuccessorStep ==
    ASSUME SuccessionInv, NEW a \in Actors, NEW b \in Actors, NEW compat \in ChannelMaps,
           RegisterSuccessor(a, b, compat)
    PROVE  SuccessionInv'
<1>1. /\ successor[a] = None /\ ~Reaches(b, a)
      /\ successor' = [successor EXCEPT ![a] = <<b, compat>>] /\ retired' = retired \cup {a}
  BY DEF RegisterSuccessor
<1>2. successor' \in [Actors -> {None} \cup Registered] /\ retired' \subseteq Actors
  BY <1>1 DEF SuccessionInv, Registered
<1>3. ASSUME NEW S \in SUBSET Actors, S # {},
             \A x \in S : successor'[x] # None /\ successor'[x][1] \in S
      PROVE FALSE
  <2>1. \A x \in Actors : x # a => successor'[x] = successor[x]
    BY <1>1 DEF SuccessionInv
  <2>2. a \in S
    <3>1. PICK x \in S : successor[x] = None \/ successor[x][1] \notin S
      BY <1>3 DEF SuccessionInv
    <3> QED
      BY <1>3, <2>1, <3>1
  <2>3. b \in S
    <3>1. successor'[a] = <<b, compat>>
      BY <1>1 DEF SuccessionInv
    <3> QED
      BY <1>3, <2>2, <3>1
  <2>4. PICK m : m = Cardinality(Actors)
    OBVIOUS
  <2>5. m \in Nat /\ None \notin S
    BY <2>4, QueueAssumption, FS_CardinalityType
  <2>6. PICK w : Walks(w, b, m) /\ \A n \in 0 .. m : w[n] # a
    BY <1>1, <2>4, WalkIs
  <2>7. ASSUME NEW x \in S, x # a
        PROVE  successor[x] # None /\ Next1(x) = successor[x][1] /\ Next1(x) \in S
    BY <1>3, <2>1, <2>5, <2>7 DEF Next1
  <2>8. \A n \in 0 .. m : w[n] \in S
    <3> DEFINE P == {n \in Nat : n <= m => w[n] \in S}
    <3>1. 0 \in P
      BY <2>3, <2>6 DEF Walks
    <3>2. ASSUME NEW n \in P PROVE n + 1 \in P
      <4>1. n \in Nat /\ (n <= m => w[n] \in S)
        OBVIOUS
      <4> HIDE DEF P
      <4> SUFFICES ASSUME n + 1 <= m PROVE w[n + 1] \in S
        BY <4>1 DEF P
      <4>2. n + 1 \in 1 .. m /\ (n + 1) - 1 = n /\ n <= m /\ n \in 0 .. m
        BY <2>5, <4>1
      <4>3. w[n + 1] = Next1(w[n]) /\ w[n] # a /\ w[n] \in S
        BY <2>6, <4>1, <4>2 DEF Walks
      <4> QED
        BY <2>7, <4>3
    <3>3. P \in SUBSET Nat
      OBVIOUS
    <3> HIDE DEF P
    <3>4. \A n \in Nat : n \in P
      BY <3>1, <3>2, <3>3, Induction
    <3> QED
      BY <2>5, <3>4 DEF P
  <2>9. w \in [0 .. m -> Actors]
    BY <2>6, <2>8 DEF Walks
  <2>10. ASSUME NEW n \in 1 .. m PROVE successor[w[n - 1]] # None /\ w[n] = successor[w[n - 1]][1]
    <3>1. n - 1 \in 0 .. m
      BY <2>5
    <3>2. w[n - 1] \in S /\ w[n - 1] # a /\ w[n] = Next1(w[n - 1])
      BY <2>6, <2>8, <3>1 DEF Walks
    <3> QED
      BY <2>7, <3>2
  <2> QED
    BY <2>4, <2>9, <2>10, NoLongWalk
<1>4. \A S \in SUBSET Actors :
          S # {} => \E x \in S : successor'[x] = None \/ successor'[x][1] \notin S
  BY <1>3
<1> QED
  BY <1>2, <1>4 DEF SuccessionInv

(* Nobody has retired initially.                                               *)
LEMMA SuccessionInit == QueueInit => SuccessionInv
  BY QueueAssumption DEF QueueInit, SuccessionInv

(* Every step keeps the succession free of cycles.                             *)
LEMMA SuccessionInductive == SuccessionInv /\ [Calls]_qvars => SuccessionInv'
<1> SUFFICES ASSUME SuccessionInv, [Calls]_qvars PROVE SuccessionInv'
  OBVIOUS
<1>1. ASSUME NEW a \in Actors, RetireActor(a) PROVE SuccessionInv'
  BY <1>1 DEF SuccessionInv, RetireActor
<1>2. ASSUME NEW a \in Actors, NEW b \in Actors, NEW m \in ChannelMaps, RegisterSuccessor(a, b, m)
      PROVE SuccessionInv'
  BY <1>2, SuccessorStep
<1>3. ASSUME UNCHANGED actorVars PROVE SuccessionInv'
  BY <1>3 DEF SuccessionInv, actorVars
<1>4. \/ UNCHANGED actorVars
      \/ \E a \in Actors : RetireActor(a)
      \/ \E a \in Actors, b \in Actors, m \in ChannelMaps : RegisterSuccessor(a, b, m)
  BY ZenonT(60) DEF Calls, qvars, actorVars, Tick, Expire, TimeOut, DrainFinalized, Restore,
     OpenDecision, RecordPropensity, ReleaseDecision, RecordActions, Settle, ReleaseDelivered,
     CompactReleased
<1> QED
  BY <1>1, <1>2, <1>3, <1>4

-------------------------------------------------------------------------------
(* What waits to be read: every return that is delivered and not released.    *)

Notes == [handle : Handles, status : Statuses, channel : Channels \cup {"timeout"}]

(* The places of the returns of one handle, of all readers.                    *)
Waiting(h) == {p \in Actors \X Nat : /\ p[2] \in 1 .. Len(deliveries[p[1]])
                                     /\ deliveries[p[1]][p[2]].handle = h}

BooksInv ==
    /\ QueueTypeOK
    /\ deliveries \in [Actors -> Seq(Notes)] /\ released \in [Actors -> Nat]

(* The count of a handle is how many of its returns wait, and a decision is    *)
(* kept as long as one does.                                                   *)
ReadInv ==
    /\ DOMAIN unread = Handles
    /\ \A h \in Handles : IsFiniteSet(Waiting(h)) /\ unread[h] = Cardinality(Waiting(h))
    /\ \A a \in Actors : \A n \in 1 .. Len(deliveries[a]) : deliveries[a][n].handle \in retained

(* What a restart recounts is the number of places. *)
LEMMA RecountIs == \A h \in Handles : RecountUnread[h] = Cardinality(Waiting(h))
<1> SUFFICES ASSUME NEW h \in Handles PROVE RecountUnread[h] = Cardinality(Waiting(h))
  OBVIOUS
<1> DEFINE held(a) == {n \in 1 .. Len(deliveries[a]) : deliveries[a][n].handle = h}
           All == UNION {{a} \X held(a) : a \in Actors}
<1>1. RecountUnread[h] = Cardinality(All)
  BY DEF RecountUnread
<1>2. All = Waiting(h)
  <2>1. All \subseteq Waiting(h)
    <3> SUFFICES ASSUME NEW p \in All PROVE p \in Waiting(h)
      OBVIOUS
    <3>1. PICK a \in Actors : p \in {a} \X held(a)
      OBVIOUS
    <3>2. /\ p = <<a, p[2]>> /\ p[1] = a /\ p[2] \in held(a)
      BY <3>1
    <3>3. p[2] \in 1 .. Len(deliveries[a]) /\ deliveries[a][p[2]].handle = h /\ p[2] \in Nat
      BY <3>2
    <3> QED
      BY <3>2, <3>3 DEF Waiting
  <2>2. Waiting(h) \subseteq All
    <3> SUFFICES ASSUME NEW p \in Waiting(h) PROVE p \in All
      OBVIOUS
    <3>1. /\ p \in Actors \X Nat /\ p[1] \in Actors /\ p = <<p[1], p[2]>>
          /\ p[2] \in held(p[1])
      BY DEF Waiting
    <3> HIDE DEF held
    <3>2. p \in {p[1]} \X held(p[1])
      BY <3>1
    <3> QED
      BY <3>1, <3>2
  <2> QED
    BY <2>1, <2>2
<1> QED
  BY <1>1, <1>2

(* Numbers of a finite set, in order: the n-th is the one with n up to it.     *)
UpTo(T, h) == {g \in T : g <= h}

(* Each member has a place of its own, from first to last.                     *)
LEMMA Ranking ==
    ASSUME NEW T \in SUBSET Nat, IsFiniteSet(T)
    PROVE  /\ \A h \in T : Cardinality(UpTo(T, h)) \in 1 .. Cardinality(T)
           /\ \A h, i \in T : Cardinality(UpTo(T, h)) = Cardinality(UpTo(T, i)) => h = i
           /\ \A n \in 1 .. Cardinality(T) : \E h \in T : Cardinality(UpTo(T, h)) = n
<1>1. \A h \in T : /\ UpTo(T, h) \in SUBSET T /\ IsFiniteSet(UpTo(T, h))
                   /\ Cardinality(UpTo(T, h)) \in Nat
                   /\ Cardinality(UpTo(T, h)) <= Cardinality(T) /\ UpTo(T, h) # {}
  <2> SUFFICES ASSUME NEW h \in T
               PROVE  /\ UpTo(T, h) \in SUBSET T /\ IsFiniteSet(UpTo(T, h))
                      /\ Cardinality(UpTo(T, h)) \in Nat
                      /\ Cardinality(UpTo(T, h)) <= Cardinality(T) /\ UpTo(T, h) # {}
    OBVIOUS
  <2>1. UpTo(T, h) \in SUBSET T /\ h \in UpTo(T, h)
    BY DEF UpTo
  <2> QED
    BY <2>1, FS_Subset, FS_CardinalityType
<1>2. Cardinality(T) \in Nat
  BY FS_CardinalityType
<1>3. \A h \in T : Cardinality(UpTo(T, h)) \in 1 .. Cardinality(T)
  BY <1>1, <1>2, FS_EmptySet
<1>4. ASSUME NEW h \in T, NEW i \in T, h < i
      PROVE  Cardinality(UpTo(T, h)) # Cardinality(UpTo(T, i))
  <2>0. h \in Nat /\ i \in Nat /\ \A g \in T : g \in Nat
    OBVIOUS
  <2>1. UpTo(T, h) \in SUBSET UpTo(T, i) /\ i \in UpTo(T, i) /\ i \notin UpTo(T, h)
    <3>1. \A g \in T : g <= h => g <= i
      BY <1>4, <2>0
    <3>2. i <= i /\ ~(i <= h)
      BY <1>4, <2>0
    <3> QED
      BY <3>1, <3>2 DEF UpTo
  <2> QED
    BY <1>1, <2>1, FS_Subset
<1>5. \A h, i \in T : Cardinality(UpTo(T, h)) = Cardinality(UpTo(T, i)) => h = i
  <2> SUFFICES ASSUME NEW h \in T, NEW i \in T, h # i
               PROVE  Cardinality(UpTo(T, h)) # Cardinality(UpTo(T, i))
    OBVIOUS
  <2>1. h < i \/ i < h
    OBVIOUS
  <2> QED
    BY <1>4, <2>1
<1> DEFINE f == [h \in T |-> Cardinality(UpTo(T, h))]
           N == 1 .. Cardinality(T)
<1>6. IsFiniteSet(N) /\ Cardinality(N) = Cardinality(T)
  BY <1>2, FS_Interval
<1>7. f \in Injection(T, N)
  BY <1>3, <1>5 DEF Injection, IsInjective
<1>8. f \in Surjection(T, N)
  <2> HIDE DEF f, N
  <2> QED
    BY <1>6, <1>7, FS_Injection
<1>9. \A n \in N : \E h \in T : f[h] = n
  <2> HIDE DEF f, N
  <2> QED
    BY <1>8 DEF Surjection
<1> QED
  BY <1>3, <1>5, <1>9

(* Returns are appended: what one handle gets are the new places.              *)
Longer(s, t) == /\ Len(s) <= Len(t) /\ \A n \in 1 .. Len(s) : t[n] = s[n]
Fresh(h) == {p \in Actors \X Nat : /\ p[2] \in Len(deliveries[p[1]]) + 1 .. Len(deliveries'[p[1]])
                                   /\ deliveries'[p[1]][p[2]].handle = h}

(* What waits after an append is what waited and the new places.               *)
LEMMA WaitingGrows ==
    ASSUME deliveries \in [Actors -> Seq(Notes)], deliveries' \in [Actors -> Seq(Notes)],
           \A a \in Actors : Longer(deliveries[a], deliveries'[a]), NEW h
    PROVE  Waiting(h)' = Waiting(h) \cup Fresh(h) /\ Waiting(h) \cap Fresh(h) = {}
<1>1. \A a \in Actors : Len(deliveries[a]) \in Nat /\ Len(deliveries'[a]) \in Nat
  OBVIOUS
<1>2. ASSUME NEW p \in Actors \X Nat
      PROVE  /\ p \in Waiting(h)' <=> p \in Waiting(h) \cup Fresh(h)
             /\ ~(p \in Waiting(h) /\ p \in Fresh(h))
  <2>1. PICK a \in Actors, n \in Nat : p[1] = a /\ p[2] = n
    OBVIOUS
  <2>2. PICK k \in Nat, l \in Nat : Len(deliveries[a]) = k /\ Len(deliveries'[a]) = l
    BY <1>1
  <2>3. k <= l /\ (n \in 1 .. k => deliveries'[a][n] = deliveries[a][n])
    BY <2>2 DEF Longer
  <2>4. n \in 1 .. l <=> n \in 1 .. k \/ n \in k + 1 .. l
    BY <2>3
  <2>5. ~(n \in 1 .. k /\ n \in k + 1 .. l)
    OBVIOUS
  <2>6. p \in Waiting(h) <=> n \in 1 .. k /\ deliveries[a][n].handle = h
    BY <2>1, <2>2 DEF Waiting
  <2>7. p \in Waiting(h)' <=> n \in 1 .. l /\ deliveries'[a][n].handle = h
    BY <2>1, <2>2 DEF Waiting
  <2>8. p \in Fresh(h) <=> n \in k + 1 .. l /\ deliveries'[a][n].handle = h
    BY <2>1, <2>2 DEF Fresh
  <2> QED
    BY <2>3, <2>4, <2>5, <2>6, <2>7, <2>8
<1>3. /\ \A p \in Waiting(h)' : p \in Actors \X Nat
      /\ \A p \in Waiting(h) : p \in Actors \X Nat
      /\ \A p \in Fresh(h) : p \in Actors \X Nat
  BY DEF Waiting, Fresh
<1> QED
  BY <1>2, <1>3

(* A step that appends keeps the counts if it counts what it appends, and      *)
(* appends for retained decisions, at most one return each.                    *)
LEMMA ReadGrows ==
    ASSUME ReadInv, deliveries \in [Actors -> Seq(Notes)], deliveries' \in [Actors -> Seq(Notes)],
           \A a \in Actors : Longer(deliveries[a], deliveries'[a]), DOMAIN unread' = Handles,
           \A h \in Handles : \/ Fresh(h) = {} /\ unread'[h] = unread[h]
                              \/ /\ h \in retained /\ unread'[h] = unread[h] + 1
                                 /\ \E p : Fresh(h) = {p},
           retained' = retained
    PROVE  ReadInv'
<1>1. ASSUME NEW h \in Handles
      PROVE  IsFiniteSet(Waiting(h)') /\ unread'[h] = Cardinality(Waiting(h)')
  <2>1. Waiting(h)' = Waiting(h) \cup Fresh(h) /\ Waiting(h) \cap Fresh(h) = {}
    BY WaitingGrows
  <2>2. IsFiniteSet(Waiting(h)) /\ unread[h] = Cardinality(Waiting(h))
    BY DEF ReadInv
  <2>3. CASE Fresh(h) = {} /\ unread'[h] = unread[h]
    BY <2>1, <2>2, <2>3
  <2>4. CASE unread'[h] = unread[h] + 1 /\ \E p : Fresh(h) = {p}
    <3>1. PICK p : Fresh(h) = {p}
      BY <2>4
    <3>2. Waiting(h)' = Waiting(h) \cup {p} /\ p \notin Waiting(h)
      BY <2>1, <3>1
    <3> QED
      BY <2>2, <2>4, <3>2, FS_AddElement
  <2> QED
    BY <2>3, <2>4
<1>2. ASSUME NEW a \in Actors, NEW n \in 1 .. Len(deliveries'[a])
      PROVE  deliveries'[a][n].handle \in retained
  <2>1. PICK k \in Nat, l \in Nat : Len(deliveries[a]) = k /\ Len(deliveries'[a]) = l
    OBVIOUS
  <2>2. CASE n \in 1 .. k
    BY <2>1, <2>2 DEF ReadInv, Longer
  <2>3. CASE n \notin 1 .. k
    <3>1. n \in k + 1 .. l /\ n \in Nat
      BY <2>1, <2>3
    <3>2. PICK h : h = deliveries'[a][n].handle
      OBVIOUS
    <3>3. <<a, n>> \in Fresh(h)
      BY <2>1, <3>1, <3>2 DEF Fresh
    <3>4. h \in Handles
      <4>1. deliveries'[a] \in Seq(Notes)
        OBVIOUS
      <4>2. deliveries'[a][n] \in Notes
        BY <4>1
      <4> QED
        BY <3>2, <4>2 DEF Notes
    <3> QED
      BY <3>2, <3>3, <3>4
  <2> QED
    BY <2>2, <2>3
<1> QED
  BY <1>1, <1>2 DEF ReadInv

(* Settling sends one return, to the living actor its route ends with.         *)
LEMMA SettleSends ==
    ASSUME StatusInv, SuccessionInv, BooksInv, ReadInv, NEW h \in Handles, NEW o \in Submitted,
           Settle(h, o)
    PROVE  /\ deliveries' \in [Actors -> Seq(Notes)]
           /\ \A a \in Actors : Longer(deliveries[a], deliveries'[a])
           /\ \A a \in retired : deliveries'[a] = deliveries[a]
           /\ ReadInv'
<1>1. PICK to \in Places : /\ to = Route(decision[h].actor, decision[h].channel)
                           /\ to[1] \notin retired
  <2>1. decision[h].actor \in Actors /\ decision[h].channel \in Channels
    BY DEF BooksInv, QueueTypeOK, Decisions
  <2> QED
    BY <2>1, RouteLives
<1>2. /\ h \in retained /\ UNCHANGED retained
      /\ Deliver(to[1], <<[handle |-> h, status |-> o, channel |-> to[2]]>>)
      /\ unread' = IF to[1] = None THEN unread ELSE [unread EXCEPT ![h] = @ + 1]
  BY <1>1 DEF Settle, Settleable
<1>3. \A a \in Actors : deliveries[a] \in Seq(Notes) /\ Len(deliveries[a]) \in Nat
  BY DEF BooksInv
<1>4. CASE to[1] = None
  <2>1. deliveries' = deliveries /\ unread' = unread
    BY <1>2, <1>4 DEF Deliver
  <2>2. \A a \in Actors : Longer(deliveries[a], deliveries'[a])
    BY <1>3, <2>1 DEF Longer
  <2>3. \A g : Waiting(g)' = Waiting(g)
    BY <2>1 DEF Waiting
  <2>4. ReadInv'
    BY <1>2, <2>1, <2>3 DEF ReadInv
  <2> QED
    BY <2>1, <2>2, <2>4 DEF BooksInv
<1>5. CASE to[1] # None
  <2>1. PICK a \in Actors : a = to[1] /\ a \notin retired
    BY <1>1, <1>5 DEF Places
  <2>2. PICK note \in Notes : note = [handle |-> h, status |-> o, channel |-> to[2]]
    <3>1. to[2] \in Channels /\ o \in Statuses
      BY StatusesApart DEF Places, Statuses
    <3> QED
      BY <3>1 DEF Notes
  <2>3. deliveries' = [deliveries EXCEPT ![a] = @ \o <<note>>]
    BY <1>2, <1>5, <2>1, <2>2 DEF Deliver
  <2>4. PICK k \in Nat : k = Len(deliveries[a])
    BY <1>3
  <2>5. /\ <<note>> \in Seq(Notes) /\ Len(<<note>>) = 1 /\ <<note>>[1] = note
    OBVIOUS
  <2>6. PICK longer : longer = deliveries[a] \o <<note>>
    OBVIOUS
  <2>7. /\ longer \in Seq(Notes) /\ Len(longer) = k + 1 /\ longer[k + 1] = note
        /\ \A n \in 1 .. k : longer[n] = deliveries[a][n]
    BY <1>3, <2>4, <2>5, <2>6, ConcatProperties
  <2>8. deliveries'[a] = longer /\ \A b \in Actors : b # a => deliveries'[b] = deliveries[b]
    BY <2>3, <2>6 DEF BooksInv
  <2>9. deliveries' \in [Actors -> Seq(Notes)]
    BY <2>3, <2>6, <2>7 DEF BooksInv
  <2>10. \A b \in Actors : Longer(deliveries[b], deliveries'[b])
    BY <1>3, <2>4, <2>7, <2>8 DEF Longer
  <2>11. note.handle = h
    BY <2>2
  <2>12. Fresh(h) = {<<a, k + 1>>} /\ \A g \in Handles : g # h => Fresh(g) = {}
    <3>1. ASSUME NEW g, NEW p \in Fresh(g) PROVE p = <<a, k + 1>> /\ g = h
      <4>1. /\ p \in Actors \X Nat /\ p = <<p[1], p[2]>> /\ p[1] \in Actors /\ p[2] \in Nat
            /\ p[2] \in Len(deliveries[p[1]]) + 1 .. Len(deliveries'[p[1]])
            /\ deliveries'[p[1]][p[2]].handle = g
        BY <3>1 DEF Fresh
      <4>2. p[1] = a
        <5> SUFFICES ASSUME p[1] # a PROVE FALSE
          OBVIOUS
        <5>1. PICK l \in Nat : l = Len(deliveries[p[1]])
          BY <1>3, <4>1
        <5>2. p[2] \in l + 1 .. l
          BY <2>8, <4>1, <5>1
        <5> QED
          BY <5>2
      <4>3. p[2] \in k + 1 .. k + 1
        BY <2>4, <2>7, <2>8, <4>1, <4>2
      <4>4. p[2] = k + 1
        BY <4>3
      <4> QED
        BY <2>7, <2>8, <2>11, <4>1, <4>2, <4>4
    <3>2. <<a, k + 1>> \in Fresh(h)
      <4>1. k + 1 \in Nat /\ k + 1 \in k + 1 .. k + 1
        OBVIOUS
      <4>2. Len(deliveries[a]) = k /\ Len(deliveries'[a]) = k + 1 /\ deliveries'[a][k + 1].handle = h
        BY <2>4, <2>7, <2>8, <2>11
      <4> QED
        BY <4>1, <4>2 DEF Fresh
    <3> QED
      BY <3>1, <3>2
  <2>13. /\ DOMAIN unread' = Handles /\ unread'[h] = unread[h] + 1
         /\ \A g \in Handles : g # h => unread'[g] = unread[g]
    BY <1>2, <1>5 DEF ReadInv
  <2>14. \A g \in Handles : \/ Fresh(g) = {} /\ unread'[g] = unread[g]
                            \/ g \in retained /\ unread'[g] = unread[g] + 1 /\ \E p : Fresh(g) = {p}
    BY <1>2, <2>12, <2>13
  <2>15. ReadInv'
    BY <1>2, <2>9, <2>10, <2>13, <2>14, ReadGrows DEF BooksInv
  <2>16. \A b \in retired : deliveries'[b] = deliveries[b]
    BY <2>1, <2>8 DEF SuccessionInv
  <2> QED
    BY <2>9, <2>10, <2>15, <2>16
<1> QED
  BY <1>4, <1>5

(* Lateness sends each late handle's penalty to the actor it routes to, once.  *)
Sent(late, a) == {h \in late : Route(decision[h].actor, decision[h].channel)[1] = a}
Nth(late, a, n) == CHOOSE h \in Sent(late, a) : Cardinality(UpTo(Sent(late, a), h)) = n
Penalty(h) == [handle |-> h, status |-> "timed_out", channel |-> "timeout"]
Penalties(late, a) == [n \in 1 .. Cardinality(Sent(late, a)) |-> Penalty(Nth(late, a, n))]
OnlyAt(late, a, h, n) ==
    \A j \in 1 .. Cardinality(Sent(late, a)) : Penalties(late, a)[j].handle = h <=> j = n

(* What a penalty does to the deliveries and their counts (queue.py 501-532).  *)
LEMMA TimeOutBooks ==
    ASSUME NEW handles, TimeOut(handles)
    PROVE  LET late == handles \cap Pending IN
           /\ deliveries' = [a \in Actors |-> deliveries[a] \o Penalties(late, a)]
           /\ unread' = [h \in Handles |->
                 IF h \in late /\ Route(decision[h].actor, decision[h].channel)[1] # None
                 THEN unread[h] + 1 ELSE unread[h]]
           /\ UNCHANGED retained
<1> DEFINE late == handles \cap Pending
           recipient == [h \in late |-> Route(decision[h].actor, decision[h].channel)[1]]
           SentTo(a) == {h \in late : recipient[h] = a}
           NthTo(a, n) == CHOOSE h \in SentTo(a) : Cardinality({g \in SentTo(a) : g <= h}) = n
<1>1. /\ deliveries' = [a \in Actors |-> deliveries[a] \o
                [n \in 1 .. Cardinality(SentTo(a)) |-> Penalty(NthTo(a, n))]]
      /\ unread' = [h \in Handles |-> IF h \in late /\ recipient[h] # None
                                      THEN unread[h] + 1 ELSE unread[h]]
      /\ UNCHANGED retained
  BY DEF TimeOut, Penalty
<1>2. \A a : SentTo(a) = Sent(late, a)
  BY DEF Sent
<1>3. \A a, n : NthTo(a, n) = Nth(late, a, n)
  <2> HIDE DEF SentTo
  <2> QED
    BY <1>2 DEF Nth, UpTo
<1>4. \A a : [n \in 1 .. Cardinality(SentTo(a)) |-> Penalty(NthTo(a, n))] = Penalties(late, a)
  <2> HIDE DEF SentTo, NthTo
  <2> QED
    BY <1>2, <1>3 DEF Penalties
<1>5. \A h \in late : recipient[h] = Route(decision[h].actor, decision[h].channel)[1]
  OBVIOUS
<1>6. deliveries' = [a \in Actors |-> deliveries[a] \o Penalties(late, a)]
  <2> HIDE DEF SentTo, NthTo
  <2> QED
    BY <1>1, <1>4
<1>7. unread' = [h \in Handles |->
                 IF h \in late /\ Route(decision[h].actor, decision[h].channel)[1] # None
                 THEN unread[h] + 1 ELSE unread[h]]
  <2> HIDE DEF late, recipient
  <2> QED
    BY <1>1, <1>5
<1> QED
  BY <1>1, <1>6, <1>7

(* The penalties of one actor are of the handles sent to it, each once.        *)
LEMMA PenaltiesAre ==
    ASSUME NEW late, late \in SUBSET Handles, NEW a
    PROVE  /\ Cardinality(Sent(late, a)) \in Nat
           /\ Penalties(late, a) \in Seq(Notes)
           /\ Len(Penalties(late, a)) = Cardinality(Sent(late, a))
           /\ \A n \in 1 .. Cardinality(Sent(late, a)) : Penalties(late, a)[n].handle \in Sent(late, a)
           /\ \A h \in Sent(late, a) :
                 \E n \in 1 .. Cardinality(Sent(late, a)) : OnlyAt(late, a, h, n)
<1>1. PICK T : T = Sent(late, a)
  OBVIOUS
<1>2. T \in SUBSET Handles /\ T \in SUBSET Nat /\ IsFiniteSet(T)
  <2>1. T \in SUBSET Handles
    BY <1>1 DEF Sent
  <2>2. IsFiniteSet(Handles) /\ Handles \in SUBSET Nat
    <3>1. MaxHandles - 1 \in Int
      BY QueueAssumption
    <3> QED
      BY <3>1, FS_Interval DEF Handles
  <2> QED
    BY <2>1, <2>2, FS_Subset
<1>3. PICK k \in Nat : k = Cardinality(T)
  BY <1>2, FS_CardinalityType
<1>4. PICK Rank : Rank = [h \in T |-> Cardinality(UpTo(T, h))]
  OBVIOUS
<1>5. /\ \A h \in T : Rank[h] \in 1 .. k
      /\ \A h, i \in T : Rank[h] = Rank[i] => h = i
      /\ \A n \in 1 .. k : \E h \in T : Rank[h] = n
  BY <1>2, <1>3, <1>4, Ranking
<1>6. ASSUME NEW n \in 1 .. k
      PROVE  Nth(late, a, n) \in T /\ Rank[Nth(late, a, n)] = n
  <2>1. Nth(late, a, n) = CHOOSE h \in T : Rank[h] = n
    <3>1. Nth(late, a, n) = CHOOSE h \in T : Cardinality(UpTo(T, h)) = n
      BY <1>1 DEF Nth
    <3>2. \A h \in T : Rank[h] = n <=> Cardinality(UpTo(T, h)) = n
      BY <1>4
    <3> QED
      BY <3>1, <3>2
  <2> QED
    BY <1>5, <2>1
<1>7. PICK s : s = Penalties(late, a)
  OBVIOUS
<1>8. s = [n \in 1 .. k |-> Penalty(Nth(late, a, n))]
  BY <1>1, <1>3, <1>7 DEF Penalties
<1>9. \A h \in Handles : Penalty(h) \in Notes /\ Penalty(h).handle = h
  BY DEF Penalty, Notes, Statuses, Awaiting
<1>10. \A n \in 1 .. k : s[n] \in Notes /\ s[n].handle = Nth(late, a, n)
  BY <1>2, <1>6, <1>8, <1>9
<1>11. s \in Seq(Notes) /\ Len(s) = k
  <2>1. s \in [1 .. k -> Notes]
    BY <1>8, <1>10
  <2> QED
    BY <2>1
<1>12. ASSUME NEW h \in T PROVE \E n \in 1 .. k : OnlyAt(late, a, h, n)
  <2>1. PICK n \in 1 .. k : Rank[h] = n
    BY <1>5
  <2>2. \A j \in 1 .. k : s[j].handle = h <=> j = n
    BY <1>5, <1>6, <1>10, <2>1
  <2> QED
    BY <1>1, <1>3, <1>7, <2>2 DEF OnlyAt
<1>13. \A n \in 1 .. k : s[n].handle \in T
  BY <1>6, <1>10
<1> QED
  BY <1>1, <1>3, <1>7, <1>11, <1>12, <1>13

(* A penalty is one more return of each late handle that still has a reader, to *)
(* an actor that lives.                                                        *)
LEMMA TimeOutSends ==
    ASSUME StatusInv, SuccessionInv, BooksInv, ReadInv, NEW handles, TimeOut(handles)
    PROVE  /\ deliveries' \in [Actors -> Seq(Notes)]
           /\ \A a \in Actors : Longer(deliveries[a], deliveries'[a])
           /\ \A a \in retired : deliveries'[a] = deliveries[a]
           /\ ReadInv'
<1>1. PICK late : late = handles \cap Pending
  OBVIOUS
<1>2. late \in SUBSET retained /\ late \in SUBSET Handles
  BY <1>1, HandlesIssued DEF Pending, StatusInv
<1>3. /\ deliveries' = [a \in Actors |-> deliveries[a] \o Penalties(late, a)]
      /\ UNCHANGED retained
      /\ unread' = [h \in Handles |->
            IF h \in late /\ Route(decision[h].actor, decision[h].channel)[1] # None
            THEN unread[h] + 1 ELSE unread[h]]
  BY <1>1, TimeOutBooks
<1>4. \A h \in late : /\ Route(decision[h].actor, decision[h].channel)[1] \in Actors \cup {None}
                      /\ Route(decision[h].actor, decision[h].channel)[1] \notin retired
  <2> SUFFICES ASSUME NEW h \in late
               PROVE  /\ Route(decision[h].actor, decision[h].channel)[1] \in Actors \cup {None}
                      /\ Route(decision[h].actor, decision[h].channel)[1] \notin retired
    OBVIOUS
  <2>1. decision[h].actor \in Actors /\ decision[h].channel \in Channels
    BY <1>2 DEF BooksInv, QueueTypeOK, Decisions
  <2>2. PICK a \in Actors, c \in Channels : a = decision[h].actor /\ c = decision[h].channel
    BY <2>1
  <2>3. Route(a, c) \in Places /\ Route(a, c)[1] \notin retired
    BY RouteLives
  <2> QED
    BY <2>2, <2>3 DEF Places
<1>5. ASSUME NEW a \in Actors, NEW k, k = Len(deliveries[a]), NEW m, m = Cardinality(Sent(late, a))
      PROVE  /\ k \in Nat /\ m \in Nat
             /\ deliveries'[a] \in Seq(Notes) /\ Len(deliveries'[a]) = k + m
             /\ \A n \in 1 .. k : deliveries'[a][n] = deliveries[a][n]
             /\ \A n \in k + 1 .. k + m : deliveries'[a][n] = Penalties(late, a)[n - k]
  <2>1. PICK s \in Seq(Notes) : s = deliveries[a]
    BY DEF BooksInv
  <2>2. PICK t \in Seq(Notes) : t = Penalties(late, a) /\ Len(t) = m
    BY <1>2, <1>5, PenaltiesAre
  <2>3. k \in Nat /\ m \in Nat /\ Len(s) = k
    BY <1>5, <2>1, <2>2
  <2>4. PICK u : u = s \o t
    OBVIOUS
  <2>5. /\ u \in Seq(Notes) /\ Len(u) = k + m
        /\ \A n \in 1 .. k + m : u[n] = IF n <= k THEN s[n] ELSE t[n - k]
    BY <2>2, <2>3, <2>4, ConcatProperties
  <2>6. deliveries'[a] = u
    BY <1>3, <2>1, <2>2, <2>4
  <2>7. \A n \in 1 .. k : n \in 1 .. k + m /\ n <= k
    BY <2>3
  <2>8. \A n \in k + 1 .. k + m : n \in 1 .. k + m /\ ~(n <= k)
    BY <2>3
  <2> QED
    BY <2>1, <2>2, <2>3, <2>5, <2>6, <2>7, <2>8
<1>6. deliveries' \in [Actors -> Seq(Notes)]
  <2>1. deliveries' = [a \in Actors |-> deliveries'[a]]
    BY <1>3
  <2>2. \A a \in Actors : deliveries'[a] \in Seq(Notes)
    BY <1>5
  <2> QED
    BY <2>1, <2>2
<1>7. \A a \in Actors : Longer(deliveries[a], deliveries'[a])
  <2> SUFFICES ASSUME NEW a \in Actors PROVE Longer(deliveries[a], deliveries'[a])
    OBVIOUS
  <2>1. PICK k, m : k = Len(deliveries[a]) /\ m = Cardinality(Sent(late, a))
    OBVIOUS
  <2>2. /\ k \in Nat /\ m \in Nat /\ Len(deliveries'[a]) = k + m
        /\ \A n \in 1 .. k : deliveries'[a][n] = deliveries[a][n]
    BY <1>5, <2>1
  <2>3. k <= k + m
    BY <2>2
  <2> QED
    BY <2>1, <2>2, <2>3 DEF Longer
<1>8. ASSUME NEW a \in retired PROVE deliveries'[a] = deliveries[a]
  <2>1. a \in Actors
    BY DEF SuccessionInv
  <2>2. Sent(late, a) = {}
    BY <1>4 DEF Sent
  <2>3. Cardinality(Sent(late, a)) = 0
    BY <2>2, FS_EmptySet
  <2>4. PICK k : k = Len(deliveries[a])
    OBVIOUS
  <2>5. /\ k \in Nat /\ Len(deliveries'[a]) = k + 0 /\ deliveries'[a] \in Seq(Notes)
        /\ \A n \in 1 .. k : deliveries'[a][n] = deliveries[a][n]
    BY <1>5, <2>1, <2>3, <2>4
  <2>6. PICK s, t : s = deliveries[a] /\ t = deliveries'[a]
    OBVIOUS
  <2>7. s \in Seq(Notes) /\ t \in Seq(Notes) /\ Len(s) = Len(t) /\ \A n \in 1 .. Len(s) : s[n] = t[n]
    BY <2>1, <2>4, <2>5, <2>6 DEF BooksInv
  <2> QED
    BY <2>6, <2>7, SeqEqual
<1>9. ASSUME NEW h \in Handles, NEW p \in Fresh(h)
      PROVE  /\ p \in Actors \X Nat
             /\ h \in Sent(late, p[1])
             /\ \E j \in 1 .. Cardinality(Sent(late, p[1])) :
                   /\ p[2] = Len(deliveries[p[1]]) + j
                   /\ Penalties(late, p[1])[j].handle = h
  <2>0. p[1] \in Actors /\ p[2] \in Nat
    BY DEF Fresh
  <2>1. PICK a \in Actors, n \in Nat : p[1] = a /\ p[2] = n
    BY <2>0
  <2>2. n \in Len(deliveries[a]) + 1 .. Len(deliveries'[a]) /\ deliveries'[a][n].handle = h
    BY <2>1 DEF Fresh
  <2>3. PICK k, m : k = Len(deliveries[a]) /\ m = Cardinality(Sent(late, a))
    OBVIOUS
  <2>4. /\ k \in Nat /\ m \in Nat /\ Len(deliveries'[a]) = k + m
        /\ \A i \in k + 1 .. k + m : deliveries'[a][i] = Penalties(late, a)[i - k]
    <3>1. a \in Actors
      BY <2>0, <2>1
    <3> QED
      BY <1>5, <2>3, <3>1, SMTT(40)
  <2>5. PICK j : j = n - k
    OBVIOUS
  <2>6. j \in 1 .. m /\ n = k + j /\ n \in k + 1 .. k + m
    BY <2>2, <2>3, <2>4, <2>5
  <2>7. Penalties(late, a)[j].handle = h
    BY <2>2, <2>4, <2>5, <2>6
  <2>8. Penalties(late, a)[j].handle \in Sent(late, a)
    BY <1>2, <2>3, <2>6, PenaltiesAre
  <2>9. p \in Actors \X Nat
    BY DEF Fresh
  <2> QED
    BY <2>1, <2>3, <2>6, <2>7, <2>8, <2>9
<1>10. ASSUME NEW h \in Handles
       PROVE  \/ Fresh(h) = {} /\ unread'[h] = unread[h]
              \/ h \in retained /\ unread'[h] = unread[h] + 1 /\ \E p : Fresh(h) = {p}
  <2>1. PICK r : r = Route(decision[h].actor, decision[h].channel)[1]
    OBVIOUS
  <2>2. unread'[h] = IF h \in late /\ r # None THEN unread[h] + 1 ELSE unread[h]
    BY <1>3, <2>1
  <2>3. \A p \in Fresh(h) : p[1] = r /\ h \in late
    BY <1>9, <2>1 DEF Sent
  <2>4. CASE ~(h \in late /\ r # None)
    <3>1. \A p \in Fresh(h) : p[1] \in Actors
      BY <1>9
    <3>2. Fresh(h) = {}
      BY <2>3, <2>4, <3>1, QueueAssumption
    <3> QED
      BY <2>2, <2>4, <3>2
  <2>5. CASE h \in late /\ r # None
    <3>1. r \in Actors
      BY <1>4, <2>1, <2>5
    <3>2. h \in Sent(late, r)
      BY <2>1, <2>5 DEF Sent
    <3>3. PICK k, m : k = Len(deliveries[r]) /\ m = Cardinality(Sent(late, r))
      OBVIOUS
    <3>4. /\ k \in Nat /\ m \in Nat /\ Len(deliveries'[r]) = k + m
          /\ \A i \in k + 1 .. k + m : deliveries'[r][i] = Penalties(late, r)[i - k]
      BY <1>5, <3>1, <3>3, SMTT(40)
    <3>5. PICK n \in 1 .. m : \A j \in 1 .. m : Penalties(late, r)[j].handle = h <=> j = n
      <4>1. \A g \in Sent(late, r) : \E n \in 1 .. Cardinality(Sent(late, r)) : OnlyAt(late, r, g, n)
        BY <1>2, PenaltiesAre
      <4>2. PICK n \in 1 .. m : OnlyAt(late, r, h, n)
        BY <3>2, <3>3, <4>1
      <4> QED
        BY <3>3, <4>2 DEF OnlyAt
    <3>6. \A p \in Fresh(h) : p = <<r, k + n>>
      <4> SUFFICES ASSUME NEW p \in Fresh(h) PROVE p = <<r, k + n>>
        OBVIOUS
      <4>1. p \in Actors \X Nat /\ p[1] = r
        BY <1>9, <2>3
      <4>2. PICK j \in 1 .. m : p[2] = k + j /\ Penalties(late, r)[j].handle = h
        BY <1>9, <3>3, <4>1
      <4>3. j = n
        BY <3>5, <4>2
      <4> QED
        BY <4>1, <4>2, <4>3
    <3>7. <<r, k + n>> \in Fresh(h)
      <4>1. PICK i : i = k + n
        OBVIOUS
      <4>2. i \in Nat /\ i \in k + 1 .. k + m /\ i - k = n
        BY <3>4, <3>5, <4>1
      <4>3. deliveries'[r][i].handle = h
        BY <3>4, <3>5, <4>2
      <4> QED
        BY <3>1, <3>3, <3>4, <4>1, <4>2, <4>3 DEF Fresh
    <3>8. Fresh(h) = {<<r, k + n>>}
      BY <3>6, <3>7
    <3>9. \E p : Fresh(h) = {p}
      BY <3>8
    <3> QED
      BY <1>2, <2>2, <2>5, <3>9
  <2> QED
    BY <2>4, <2>5
<1>11. DOMAIN unread' = Handles
  BY <1>3
<1>12. ReadInv'
  BY <1>3, <1>6, <1>7, <1>10, <1>11, ReadGrows DEF BooksInv
<1> QED
  BY <1>6, <1>7, <1>8, <1>12

(* Two finite sets whose members are matched one to one have the same size.    *)
LEMMA Matched ==
    ASSUME NEW S, NEW T, IsFiniteSet(S), NEW f \in [S -> T],
           \A x, y \in S : f[x] = f[y] => x = y, \A z \in T : \E x \in S : f[x] = z
    PROVE  IsFiniteSet(T) /\ Cardinality(T) = Cardinality(S)
<1>1. f \in Bijection(S, T)
  BY DEF Bijection, Injection, Surjection, IsInjective
<1> QED
  BY <1>1, FS_Bijection DEF ExistsBijection

(* Reading drops the first returns of one reader and uncounts them.            *)
LEMMA ReleaseReads ==
    ASSUME BooksInv, ReadInv, NEW a \in Actors, NEW through \in Nat, ReleaseDelivered(a, through)
    PROVE  /\ deliveries' \in [Actors -> Seq(Notes)] /\ released' \in [Actors -> Nat]
           /\ \A b \in Actors : DeliveredCount(b)' = DeliveredCount(b)
           /\ ReadInv'
<1>1. PICK s \in Seq(Notes), r \in Nat, l \in Nat :
         s = deliveries[a] /\ r = released[a] /\ l = Len(s)
  <2>1. deliveries[a] \in Seq(Notes) /\ released[a] \in Nat
    BY DEF BooksInv
  <2>2. Len(deliveries[a]) \in Nat
    BY <2>1
  <2> QED
    BY <2>1, <2>2
<1>2. through > r /\ through <= r + l
  BY <1>1 DEF ReleaseDelivered, DeliveredCount
<1>3. PICK k : k = through - r
  OBVIOUS
<1>4. k \in 1 .. l /\ k \in Nat /\ through = r + k /\ through - r + 1 = k + 1 /\ l - k \in Nat
  BY <1>2, <1>3
<1>5. PICK t : t = SubSeq(s, k + 1, l)
  OBVIOUS
<1>6. /\ deliveries' = [deliveries EXCEPT ![a] = t] /\ released' = [released EXCEPT ![a] = through]
      /\ unread' = [h \in Handles |->
            unread[h] - Cardinality({n \in 1 .. k : s[n].handle = h})]
      /\ retained' = retained
  BY <1>1, <1>3, <1>4, <1>5 DEF ReleaseDelivered, KeptAfter
<1>7. \A n \in 1 .. l : s[n] \in Notes
  BY <1>1
<1>8. /\ t \in Seq(Notes) /\ Len(t) = l - k
      /\ \A n \in 1 .. l - k : t[n] = s[k + n]
  <2>1. k + 1 \in Int /\ l \in Int /\ \A n \in k + 1 .. l : n \in 1 .. l
    BY <1>4
  <2>2. PICK m \in Int : m = k + 1
    BY <2>1
  <2>3. \A n \in m .. l : s[n] \in Notes
    BY <1>7, <2>1, <2>2
  <2>4. /\ t \in Seq(Notes) /\ Len(t) = IF m <= l THEN l - m + 1 ELSE 0
        /\ \A n \in 1 .. l - m + 1 : t[n] = s[m + n - 1]
    BY <1>5, <2>1, <2>2, <2>3, SubSeqProperties
  <2>5. l - m + 1 = l - k /\ (m <= l \/ l - k = 0)
    BY <1>4, <2>2
  <2>6. \A n \in Int : m + n - 1 = k + n
    BY <1>4, <2>2
  <2>7. Len(t) = l - k
    BY <1>4, <2>4, <2>5
  <2>8. \A n \in 1 .. l - k : t[n] = s[k + n]
    <3> SUFFICES ASSUME NEW n \in 1 .. l - k PROVE t[n] = s[k + n]
      OBVIOUS
    <3>1. n \in Int /\ n \in 1 .. l - m + 1
      BY <2>5
    <3> QED
      BY <2>4, <2>6, <3>1
  <2> QED
    BY <2>4, <2>7, <2>8
<1>9. deliveries' \in [Actors -> Seq(Notes)] /\ released' \in [Actors -> Nat]
  BY <1>6, <1>8 DEF BooksInv
<1>10. /\ deliveries'[a] = t /\ released'[a] = through
       /\ \A b \in Actors : b # a => deliveries'[b] = deliveries[b] /\ released'[b] = released[b]
  BY <1>6 DEF BooksInv
<1>11. \A b \in Actors : DeliveredCount(b)' = DeliveredCount(b)
  <2> SUFFICES ASSUME NEW b \in Actors PROVE DeliveredCount(b)' = DeliveredCount(b)
    OBVIOUS
  <2>1. CASE b = a
    <3>1. DeliveredCount(a) = r + l
      BY <1>1 DEF DeliveredCount
    <3>2. DeliveredCount(a)' = through + (l - k)
      BY <1>8, <1>10 DEF DeliveredCount
    <3>3. through + (l - k) = r + l
      BY <1>4
    <3> QED
      BY <2>1, <3>1, <3>2, <3>3
  <2>2. CASE b # a
    BY <1>10, <2>2 DEF DeliveredCount
  <2> QED
    BY <2>1, <2>2
<1>12. ASSUME NEW h \in Handles
       PROVE  IsFiniteSet(Waiting(h)') /\ unread'[h] = Cardinality(Waiting(h)')
  <2>1. PICK W, C, G : /\ W = Waiting(h) /\ C = {n \in 1 .. k : s[n].handle = h}
                       /\ G = {<<a, n>> : n \in C}
    OBVIOUS
  <2>2. IsFiniteSet(W) /\ unread[h] = Cardinality(W)
    BY <2>1 DEF ReadInv
  <2>3. IsFiniteSet(C)
    <3>1. IsFiniteSet(1 .. k)
      BY <1>4, FS_Interval
    <3> QED
      BY <2>1, <3>1, FS_Subset
  <2>4. Cardinality(G) = Cardinality(C)
    <3>1. PICK f : f = [n \in C |-> <<a, n>>]
      OBVIOUS
    <3>2. f \in [C -> G] /\ \A x, y \in C : f[x] = f[y] => x = y
      BY <2>1, <3>1
    <3>3. \A z \in G : \E x \in C : f[x] = z
      BY <2>1, <3>1
    <3> QED
      BY <2>3, <3>2, <3>3, Matched
  <2>5. ASSUME NEW p
        PROVE  p \in W <=> p \in Actors \X Nat /\ p[2] \in 1 .. Len(deliveries[p[1]])
                           /\ deliveries[p[1]][p[2]].handle = h
    BY <2>1 DEF Waiting
  <2>6. ASSUME NEW n \in Nat PROVE <<a, n>> \in W <=> n \in 1 .. l /\ s[n].handle = h
    BY <1>1, <2>5
  <2>7. G \in SUBSET W
    <3>1. ASSUME NEW n \in C PROVE <<a, n>> \in W
      <4>1. n \in Nat /\ n \in 1 .. l /\ s[n].handle = h
        BY <1>4, <2>1
      <4> QED
        BY <2>6, <4>1
    <3> QED
      BY <2>1, <3>1
  <2>8. IsFiniteSet(W \ G) /\ Cardinality(W \ G) = Cardinality(W) - Cardinality(C)
    <3>1. W \cap G = G
      BY <2>7
    <3>2. /\ IsFiniteSet(W \ G)
          /\ Cardinality(W \ G) = Cardinality(W) - Cardinality(W \cap G)
      BY <2>2, FS_Difference
    <3> QED
      BY <2>4, <3>1, <3>2
  <2>9. PICK V : V = Waiting(h)'
    OBVIOUS
  <2>10. ASSUME NEW p
         PROVE  p \in V <=> p \in Actors \X Nat /\ p[2] \in 1 .. Len(deliveries'[p[1]])
                            /\ deliveries'[p[1]][p[2]].handle = h
    BY <2>9 DEF Waiting
  <2>11. PICK f : f = [p \in W \ G |-> IF p[1] = a THEN <<a, p[2] - k>> ELSE p]
    OBVIOUS
  <2>12. ASSUME NEW p \in W \ G
         PROVE  /\ p = <<p[1], p[2]>> /\ p[1] \in Actors /\ p[2] \in Nat
                /\ p[1] = a => p[2] \in k + 1 .. l /\ s[p[2]].handle = h
    <3>1. p \in Actors \X Nat
      BY <2>5
    <3>2. ASSUME p[1] = a PROVE p[2] \in k + 1 .. l /\ s[p[2]].handle = h
      <4>1. PICK n \in Nat : p = <<a, n>>
        BY <3>1, <3>2
      <4>2. n \in 1 .. l /\ s[n].handle = h
        BY <2>6, <4>1
      <4>3. n \notin 1 .. k
        BY <2>1, <4>1, <4>2
      <4>4. n \in k + 1 .. l /\ p[2] = n
        BY <1>4, <4>1, <4>2, <4>3
      <4> QED
        BY <4>2, <4>4
    <3> QED
      BY <3>1, <3>2
  <2>13. f \in [W \ G -> V]
    <3>1. ASSUME NEW p \in W \ G PROVE f[p] \in V
      <4>1. CASE p[1] = a
        <5>1. PICK n : n = p[2] - k
          OBVIOUS
        <5>2. f[p] = <<a, n>>
          BY <2>11, <4>1, <5>1
        <5>3. n \in 1 .. l - k /\ k + n = p[2] /\ n \in Nat
          <6>1. PICK i \in k + 1 .. l : i = p[2]
            BY <2>12, <4>1
          <6>2. n = i - k
            BY <5>1, <6>1
          <6> QED
            BY <1>4, <6>1, <6>2, SMTT(40)
        <5>4. t[n].handle = h
          BY <1>8, <2>12, <4>1, <5>3
        <5> QED
          BY <1>8, <1>10, <2>10, <5>2, <5>3, <5>4
      <4>2. CASE p[1] # a
        <5>1. f[p] = p
          BY <2>11, <4>2
        <5> QED
          BY <1>10, <2>5, <2>10, <4>2, <5>1
      <4> QED
        BY <4>1, <4>2
    <3> QED
      BY <2>11, <3>1
  <2>14. ASSUME NEW x \in W \ G, NEW y \in W \ G, f[x] = f[y] PROVE x = y
    <3>1. \A p \in W \ G : f[p] = IF p[1] = a THEN <<a, p[2] - k>> ELSE p
      BY <2>11
    <3>2. x[1] = a <=> y[1] = a
      BY <2>14, <3>1
    <3>3. CASE x[1] = a
      <4>1. PICK i, j : i = x[2] - k /\ j = y[2] - k
        OBVIOUS
      <4>2. <<a, i>> = <<a, j>>
        BY <2>14, <3>1, <3>2, <3>3, <4>1
      <4>3. x[2] - k = y[2] - k
        BY <4>1, <4>2
      <4>4. x[2] \in Nat /\ y[2] \in Nat /\ x = <<a, x[2]>> /\ y = <<a, y[2]>>
        BY <2>12, <3>2, <3>3
      <4> QED
        BY <1>4, <4>3, <4>4
    <3>4. CASE x[1] # a
      BY <2>14, <3>1, <3>2, <3>4
    <3> QED
      BY <3>3, <3>4
  <2>15. ASSUME NEW z \in V PROVE \E x \in W \ G : f[x] = z
    <3>1. /\ z \in Actors \X Nat /\ z[2] \in 1 .. Len(deliveries'[z[1]])
          /\ deliveries'[z[1]][z[2]].handle = h
      BY <2>10
    <3>2. CASE z[1] = a
      <4>1. PICK n \in Nat : z = <<a, n>>
        BY <3>1, <3>2
      <4>2. n \in 1 .. l - k /\ t[n].handle = h
        BY <1>8, <1>10, <3>1, <4>1
      <4>3. PICK m : m = k + n
        OBVIOUS
      <4>4. m \in Nat /\ m \in 1 .. l /\ m \notin 1 .. k /\ m - k = n
        BY <1>4, <4>2, <4>3
      <4>5. s[m].handle = h
        BY <1>8, <4>2, <4>3
      <4>6. <<a, m>> \in W \ G
        BY <2>1, <2>6, <4>4, <4>5
      <4>7. f[<<a, m>>] = z
        BY <2>11, <4>1, <4>4, <4>6
      <4> QED
        BY <4>6, <4>7
    <3>3. CASE z[1] # a
      <4>1. z \in W \ G
        BY <1>10, <2>1, <2>5, <3>1, <3>3
      <4> QED
        BY <2>11, <3>3, <4>1
    <3> QED
      BY <3>2, <3>3
  <2>16. IsFiniteSet(V) /\ Cardinality(V) = Cardinality(W \ G)
    BY <2>8, <2>13, <2>14, <2>15, Matched
  <2>17. unread'[h] = unread[h] - Cardinality(C)
    BY <1>6, <2>1
  <2> QED
    BY <2>2, <2>8, <2>9, <2>16, <2>17
<1>13. ASSUME NEW b \in Actors, NEW n \in 1 .. Len(deliveries'[b])
       PROVE  deliveries'[b][n].handle \in retained
  <2>1. CASE b = a
    <3>1. n \in 1 .. l - k /\ deliveries'[b][n] = s[k + n]
      BY <1>8, <1>10, <2>1
    <3>2. PICK m : m = k + n
      OBVIOUS
    <3>3. m \in 1 .. l
      BY <1>4, <3>1, <3>2
    <3> QED
      BY <1>1, <3>1, <3>2, <3>3 DEF ReadInv
  <2>2. CASE b # a
    BY <1>10, <2>2 DEF ReadInv
  <2> QED
    BY <2>1, <2>2
<1>14. DOMAIN unread' = Handles
  BY <1>6
<1>15. ReadInv'
  BY <1>6, <1>12, <1>13, <1>14 DEF ReadInv
<1> QED
  BY <1>9, <1>11, <1>15

(* The other steps deliver and read nothing.                                   *)
Deaf == /\ UNCHANGED <<deliveries, released>>
        /\ unread' = unread \/ unread' = RecountUnread

(* Nothing waits for a decision that is released, and what waits for others    *)
(* stays.                                                                      *)
LEMMA ReadKept ==
    ASSUME BooksInv, ReadInv, Deaf,
           \A h \in retained : h \in retained' \/ unread[h] = 0
    PROVE  ReadInv'
<1>1. \A h : Waiting(h)' = Waiting(h)
  BY DEF Waiting, Deaf
<1>2. \A h \in Handles : /\ IsFiniteSet(Waiting(h)) /\ unread[h] = Cardinality(Waiting(h))
                         /\ RecountUnread[h] = Cardinality(Waiting(h))
  BY RecountIs DEF ReadInv
<1>3. DOMAIN unread' = Handles /\ \A h \in Handles : unread'[h] = Cardinality(Waiting(h))
  <2>1. DOMAIN RecountUnread = Handles
    BY DEF RecountUnread
  <2> QED
    BY <1>2, <2>1 DEF Deaf, ReadInv
<1>4. ASSUME NEW a \in Actors, NEW n \in 1 .. Len(deliveries[a])
      PROVE  deliveries[a][n].handle \in retained'
  <2>1. PICK h : h = deliveries[a][n].handle
    OBVIOUS
  <2>2. h \in retained
    BY <2>1 DEF ReadInv
  <2>3. h \in Handles /\ n \in Nat
    <3>1. deliveries[a] \in Seq(Notes)
      BY DEF BooksInv
    <3>2. deliveries[a][n] \in Notes
      BY <3>1
    <3> QED
      BY <2>1, <3>2 DEF Notes
  <2>4. <<a, n>> \in Waiting(h)
    BY <2>1, <2>3 DEF Waiting
  <2>5. unread[h] # 0
    BY <1>2, <2>3, <2>4, FS_EmptySet
  <2> QED
    BY <2>1, <2>2, <2>5
<1> QED
  BY <1>1, <1>2, <1>3, <1>4 DEF ReadInv, Deaf

(* Every step of the queue is a delivery, a reading, or neither.               *)
LEMMA DeliveryKinds ==
    ASSUME [Calls]_qvars
    PROVE  \/ \E h \in Handles, o \in Submitted : Settle(h, o)
           \/ \E handles : TimeOut(handles)
           \/ \E a \in Actors, n \in Nat : ReleaseDelivered(a, n)
           \/ \E h \in Handles : ReleaseDecision(h) /\ Deaf
           \/ /\ Deaf
              /\ \/ UNCHANGED retained
                 \/ retained' = retained \cup {opened}
<1>1. ASSUME \/ Tick \/ DrainFinalized \/ Restore
             \/ \E h \in Handles : RecordPropensity(h)
             \/ \E h \in Handles, ks \in SUBSET Keys : RecordActions(h, ks)
             \/ \E a \in Actors : RetireActor(a)
             \/ \E a, b \in Actors, m \in ChannelMaps : RegisterSuccessor(a, b, m)
             \/ \E before \in Int : CompactReleased(before)
             \/ UNCHANGED qvars
      PROVE Deaf /\ UNCHANGED retained
  BY <1>1 DEF Deaf, deliveryVars, qvars, Tick, DrainFinalized, Restore, RecordPropensity,
     RecordActions, RetireActor, RegisterSuccessor, CompactReleased
<1>2. ASSUME NEW a, NEW k, NEW c, NEW d, NEW parent, OpenDecision(a, k, c, d, parent)
      PROVE Deaf /\ retained' = retained \cup {opened}
  BY <1>2 DEF OpenDecision, Deaf, deliveryVars
<1>3. ASSUME NEW h, ReleaseDecision(h) PROVE Deaf
  BY <1>3 DEF ReleaseDecision, Deaf, deliveryVars
<1>4. ASSUME NEW a \in Actors, NEW n \in Nat, ReleaseDelivered(a, n)
      PROVE \E b \in Actors, i \in Nat : ReleaseDelivered(b, i)
  BY <1>4
<1> QED
  BY <1>1, <1>2, <1>3, <1>4 DEF Calls, Expire

(* What is delivered stays typed and counted, and nothing reaches who retired. *)
LEMMA DeliveryStep ==
    ASSUME StatusInv, SuccessionInv, BooksInv, ReadInv, [Calls]_qvars
    PROVE  /\ deliveries' \in [Actors -> Seq(Notes)] /\ released' \in [Actors -> Nat]
           /\ \A a \in retired : DeliveredCount(a)' = DeliveredCount(a)
           /\ ReadInv'
<1>0. deliveries \in [Actors -> Seq(Notes)] /\ released \in [Actors -> Nat] /\ retired \subseteq Actors
  BY DEF BooksInv, SuccessionInv
<1>1. ASSUME NEW h \in Handles, NEW o \in Submitted, Settle(h, o)
      PROVE  /\ deliveries' \in [Actors -> Seq(Notes)] /\ released' \in [Actors -> Nat]
             /\ \A a \in retired : DeliveredCount(a)' = DeliveredCount(a)
             /\ ReadInv'
  <2>1. released' = released
    BY <1>1 DEF Settle
  <2> QED
    BY <1>0, <1>1, <2>1, SettleSends DEF DeliveredCount
<1>2. ASSUME NEW handles, TimeOut(handles)
      PROVE  /\ deliveries' \in [Actors -> Seq(Notes)] /\ released' \in [Actors -> Nat]
             /\ \A a \in retired : DeliveredCount(a)' = DeliveredCount(a)
             /\ ReadInv'
  <2>1. released' = released
    BY <1>2 DEF TimeOut
  <2> QED
    BY <1>0, <1>2, <2>1, TimeOutSends DEF DeliveredCount
<1>3. ASSUME NEW a \in Actors, NEW n \in Nat, ReleaseDelivered(a, n)
      PROVE  /\ deliveries' \in [Actors -> Seq(Notes)] /\ released' \in [Actors -> Nat]
             /\ \A b \in retired : DeliveredCount(b)' = DeliveredCount(b)
             /\ ReadInv'
  BY <1>0, <1>3, ReleaseReads
<1>4. ASSUME Deaf PROVE /\ deliveries' \in [Actors -> Seq(Notes)] /\ released' \in [Actors -> Nat]
                        /\ \A a \in retired : DeliveredCount(a)' = DeliveredCount(a)
  BY <1>0, <1>4 DEF Deaf, DeliveredCount
<1>5. ASSUME NEW h \in Handles, ReleaseDecision(h), Deaf PROVE ReadInv'
  <2>1. retained' = retained \ {h} /\ unread[h] = 0
    BY <1>5 DEF ReleaseDecision, Owed
  <2> QED
    BY <1>5, <2>1, ReadKept
<1>6. ASSUME Deaf, retained' = retained \/ retained' = retained \cup {opened} PROVE ReadInv'
  BY <1>6, ReadKept
<1> QED
  BY <1>1, <1>2, <1>3, <1>4, <1>5, <1>6, DeliveryKinds

(* Nothing waits to be read initially.                                         *)
LEMMA ReadInit == QueueInit => ReadInv
<1> SUFFICES ASSUME QueueInit PROVE ReadInv
  OBVIOUS
<1>1. \A a \in Actors : Len(deliveries[a]) = 0
  BY DEF QueueInit
<1>2. \A h : Waiting(h) = {}
  BY <1>1 DEF Waiting
<1>3. IsFiniteSet({}) /\ Cardinality({}) = 0
  BY FS_EmptySet
<1>4. DOMAIN unread = Handles /\ \A h \in Handles : unread[h] = 0
  BY DEF QueueInit
<1>5. \A h \in Handles : IsFiniteSet(Waiting(h)) /\ unread[h] = Cardinality(Waiting(h))
  BY <1>2, <1>3, <1>4
<1>6. \A a \in Actors : 1 .. Len(deliveries[a]) = {}
  BY <1>1
<1> QED
  BY <1>4, <1>5, <1>6 DEF ReadInv

(* The books are typed initially.                                              *)
LEMMA BooksInit == QueueInit => BooksInv
<1> SUFFICES ASSUME QueueInit PROVE BooksInv
  OBVIOUS
<1>1. NoDecision \in Decisions
  BY QueueAssumption DEF NoDecision, Decisions
<1>2. 0 .. opened - 1 = {} /\ opened \in 0 .. MaxHandles
  BY QueueAssumption DEF QueueInit
<1>3. "none" \in Awaiting \cup Outcomes \cup {"none"}
  OBVIOUS
<1>4. QueueTypeOK
  BY <1>1, <1>2, <1>3 DEF QueueInit, QueueTypeOK
<1> QED
  BY <1>4 DEF QueueInit, BooksInv

(* The counted handles: who is kept, who is a tombstone, who was compacted.    *)
Partition == /\ 0 .. opened - 1 = retained \cup tombstones \cup compacted
             /\ retained \cap (tombstones \cup compacted) = {} /\ tombstones \cap compacted = {}

(* Every step keeps each issued handle in exactly one of the three sets.       *)
LEMMA PartitionStep == ASSUME StatusInv, Partition, [Calls]_qvars PROVE Partition'
<1>1. ASSUME NEW a, NEW k, NEW c, NEW d, NEW parent, OpenDecision(a, k, c, d, parent)
      PROVE Partition'
  <2>1. /\ opened' = opened + 1 /\ retained' = retained \cup {opened}
        /\ UNCHANGED <<tombstones, compacted>>
    BY <1>1 DEF OpenDecision, releaseVars
  <2>2. 0 .. opened' - 1 = (0 .. opened - 1) \cup {opened} /\ opened \notin 0 .. opened - 1
    BY <2>1, QueueAssumption DEF StatusInv
  <2> QED
    BY <2>1, <2>2 DEF Partition
<1>2. ASSUME NEW h, ReleaseDecision(h) PROVE Partition'
  BY <1>2 DEF ReleaseDecision, Partition
<1>3. ASSUME NEW before, CompactReleased(before) PROVE Partition'
  BY <1>3 DEF CompactReleased, Partition
<1>4. ASSUME UNCHANGED <<opened, retained, tombstones, compacted>> PROVE Partition'
  BY <1>4 DEF Partition
<1>5. ASSUME \/ Tick \/ DrainFinalized \/ Restore \/ Expire
             \/ \E h \in Handles : RecordPropensity(h)
             \/ \E h \in Handles, ks \in SUBSET Keys : RecordActions(h, ks)
             \/ \E h \in Handles, o \in Submitted : Settle(h, o)
             \/ \E handles : TimeOut(handles)
             \/ \E a \in Actors : RetireActor(a)
             \/ \E a, b \in Actors, m \in ChannelMaps : RegisterSuccessor(a, b, m)
             \/ \E a \in Actors, n \in Nat : ReleaseDelivered(a, n)
             \/ UNCHANGED qvars
      PROVE UNCHANGED <<opened, retained, tombstones, compacted>>
  BY <1>5 DEF qvars, releaseVars, Tick, DrainFinalized, Restore, Expire, RecordPropensity,
     RecordActions, Settle, TimeOut, RetireActor, RegisterSuccessor, ReleaseDelivered
<1> QED
  BY <1>1, <1>2, <1>3, <1>4, <1>5 DEF Calls

(* The fields of a decision, its closing time, its propensity, its contract.   *)
Fields == /\ now \in Nat /\ decision \in [Handles -> Decisions] /\ closed \in [Handles -> Nat]
          /\ declared \subseteq retained /\ settledContracts \subseteq Contracts

(* Every step keeps the fields typed.                                          *)
LEMMA FieldsStep == ASSUME StatusInv, Fields, [Calls]_qvars PROVE Fields'
<1>1. ASSUME NEW a \in Actors, NEW k \in Contracts, NEW c \in Channels, NEW d \in Nat,
             NEW parent \in Handles \cup {None}, OpenDecision(a, k, c, d, parent)
      PROVE Fields'
  <2>1. [actor |-> a, contract |-> k, channel |-> c, deadline |-> d, parent |-> parent]
           \in Decisions
    BY QueueAssumption DEF Decisions
  <2>2. UNCHANGED <<now, closed, declared, settledContracts>> /\ retained' = retained \cup {opened}
    BY <1>1 DEF OpenDecision, evidenceVars
  <2>3. decision' \in [Handles -> Decisions]
    BY <1>1, <2>1 DEF OpenDecision, Fields
  <2> QED
    BY <2>2, <2>3 DEF Fields
<1>2. ASSUME NEW h \in Handles, NEW o \in Submitted, Settle(h, o) PROVE Fields'
  <2>1. /\ UNCHANGED <<now, decision, declared, retained>>
        /\ closed' = [closed EXCEPT ![h] = now]
        /\ settledContracts' = settledContracts \cup {decision[h].contract}
    BY <1>2 DEF Settle
  <2>2. decision[h].contract \in Contracts
    BY DEF Fields, Decisions
  <2> QED
    BY <2>1, <2>2 DEF Fields
<1>3. ASSUME NEW h \in Handles, RecordPropensity(h) PROVE Fields'
  BY <1>3 DEF RecordPropensity, Fields
<1>4. ASSUME NEW h, ReleaseDecision(h) PROVE Fields'
  BY <1>4 DEF ReleaseDecision, Fields
<1>5. ASSUME now' \in Nat, UNCHANGED <<decision, closed, declared, retained, settledContracts>>
      PROVE Fields'
  BY <1>5 DEF Fields
<1>6. ASSUME \/ Tick \/ DrainFinalized \/ Restore
             \/ \E h \in Handles, ks \in SUBSET Keys : RecordActions(h, ks)
             \/ \E handles : TimeOut(handles)
             \/ \E a \in Actors : RetireActor(a)
             \/ \E a, b \in Actors, m \in ChannelMaps : RegisterSuccessor(a, b, m)
             \/ \E a \in Actors, n \in Nat : ReleaseDelivered(a, n)
             \/ \E before \in Int : CompactReleased(before)
             \/ UNCHANGED qvars
      PROVE /\ now' = now + 1 \/ now' = now
            /\ UNCHANGED <<decision, closed, declared, retained, settledContracts>>
  BY <1>6 DEF qvars, evidenceVars, Tick, DrainFinalized, Restore,
     RecordActions, TimeOut, RetireActor, RegisterSuccessor, ReleaseDelivered, CompactReleased
<1>7. now + 1 \in Nat /\ now \in Nat
  BY DEF Fields
<1> QED
  BY <1>1, <1>2, <1>3, <1>4, <1>5, <1>6, <1>7 DEF Calls, Expire

(* Every step keeps the books typed.                                           *)
LEMMA BooksParts ==
    StatusInv /\ SuccessionInv =>
        (BooksInv <=> /\ Partition /\ Fields
                      /\ deliveries \in [Actors -> Seq(Notes)] /\ released \in [Actors -> Nat])
  BY DEF BooksInv, QueueTypeOK, Partition, Fields, StatusInv, Statuses, SuccessionInv

(* Every step keeps the books typed and the counts of what waits exact.        *)
LEMMA BooksInductive ==
    StatusInv /\ SuccessionInv /\ BooksInv /\ ReadInv /\ [Calls]_qvars => BooksInv' /\ ReadInv'
<1> SUFFICES ASSUME StatusInv, SuccessionInv, BooksInv, ReadInv, [Calls]_qvars
             PROVE  BooksInv' /\ ReadInv'
  OBVIOUS
<1>1. StatusInv' /\ SuccessionInv'
  BY StatusInductive, SuccessionInductive
<1>2. Partition' /\ Fields'
  BY BooksParts, PartitionStep, FieldsStep
<1>3. /\ deliveries' \in [Actors -> Seq(Notes)] /\ released' \in [Actors -> Nat] /\ ReadInv'
  BY DeliveryStep
<1>4. QueueTypeOK'
  BY <1>1, <1>2, <1>3 DEF QueueTypeOK, Partition, Fields, StatusInv, Statuses, SuccessionInv
<1> QED
  BY <1>3, <1>4 DEF BooksInv

-------------------------------------------------------------------------------
(* The history of contracts and actions.                                       *)

SettledSet == {g \in Handles : status[g] \in Outcomes}
ContractsExact == settledContracts = {decision[h].contract : h \in SettledSet}

(* The actions of the handles that ever had a trail, of one contract.          *)
Of(k, T) == {g \in T : decision[g].contract = k}
Historied(k) == UNION {took[h] : h \in Of(k, trailed)}
ActionsExact == /\ DOMAIN settledActions = Contracts
                /\ \A k \in Contracts : settledActions[k] = Historied(k)

(* What an awaiting decision took is still on its record, and it has a trail   *)
(* when its record says so.                                                    *)
EvidenceInv ==
    /\ DOMAIN actions = Handles /\ DOMAIN took = Handles /\ trailed \subseteq 0 .. opened - 1
    /\ \A h \in Handles : h >= opened => actions[h] = {} /\ took[h] = {}
    /\ \A h \in retained : status[h] \in Awaiting =>
          /\ actions[h] = took[h]
          /\ h \in trailed <=> h \in declared \/ returns[h] # <<>>

HistoryInv == ContractsExact /\ ActionsExact /\ EvidenceInv

(* The history is empty initially.                                             *)
LEMMA HistoryInit == QueueInit => HistoryInv
<1> SUFFICES ASSUME QueueInit PROVE HistoryInv
  OBVIOUS
<1>1. SettledSet = {}
  BY StatusesApart DEF QueueInit, SettledSet
<1>2. ContractsExact
  BY <1>1 DEF ContractsExact, QueueInit
<1>3. trailed = {} /\ retained = {}
  BY DEF QueueInit
<1>4. \A k : Historied(k) = {}
  BY <1>3 DEF Historied, Of
<1>5. ActionsExact
  BY <1>4 DEF ActionsExact, QueueInit
<1>6. EvidenceInv
  BY <1>3 DEF EvidenceInv, QueueInit
<1> QED
  BY <1>2, <1>5, <1>6 DEF HistoryInv

(* A contract is historied exactly by the outcome of a decision of it.         *)
LEMMA ContractsStep ==
    ASSUME StatusInv, BooksInv, ContractsExact, [Calls]_qvars PROVE ContractsExact'
<1> USE StatusesApart
<1>0. /\ decision \in [Handles -> Decisions] /\ status \in [Handles -> Statuses]
      /\ retained \subseteq Handles
  BY HandlesIssued DEF StatusInv, BooksInv, QueueTypeOK
<1>1. ASSUME NEW a, NEW k, NEW c, NEW d, NEW parent, OpenDecision(a, k, c, d, parent)
      PROVE ContractsExact'
  <2>1. PICK h \in Handles : h = opened /\ status[h] = "none"
    BY <1>1, OpenStep
  <2>2. /\ status' = [status EXCEPT ![h] = "pending"] /\ settledContracts' = settledContracts
        /\ \A g \in Handles \ {h} : decision'[g] = decision[g]
    BY <1>0, <1>1, <2>1 DEF OpenDecision
  <2>3. SettledSet' = SettledSet /\ h \notin SettledSet
    BY <1>0, <2>1, <2>2 DEF SettledSet, Awaiting
  <2>4. \A g \in SettledSet : decision'[g].contract = decision[g].contract
    BY <2>2, <2>3 DEF SettledSet
  <2> QED
    BY <2>2, <2>3, <2>4 DEF ContractsExact
<1>2. ASSUME NEW h \in Handles, NEW o \in Submitted, Settle(h, o) PROVE ContractsExact'
  <2>1. PICK kept \in Outcomes : status' = [status EXCEPT ![h] = kept]
    BY <1>2, SettleStep
  <2>2. settledContracts' = settledContracts \cup {decision[h].contract} /\ decision' = decision
    BY <1>2 DEF Settle
  <2>3. SettledSet' = SettledSet \cup {h}
    BY <1>0, <2>1 DEF SettledSet
  <2> QED
    BY <2>2, <2>3 DEF ContractsExact
<1>3. ASSUME NEW handles, TimeOut(handles) PROVE ContractsExact'
  <2>1. PICK late : late = handles \cap Pending
    OBVIOUS
  <2>2. /\ \A h \in late : status[h] = "pending"
        /\ status' = [h \in Handles |-> IF h \in late THEN "timed_out" ELSE status[h]]
    BY <1>3, <2>1, TimeOutStep
  <2>3. UNCHANGED <<settledContracts, decision>>
    BY <1>3 DEF TimeOut
  <2>4. SettledSet' = SettledSet
    BY <1>0, <2>2 DEF SettledSet, Awaiting
  <2> QED
    BY <2>3, <2>4 DEF ContractsExact
<1>4. ASSUME UNCHANGED <<status, decision, settledContracts>> PROVE ContractsExact'
  BY <1>4 DEF ContractsExact, SettledSet
<1>5. ASSUME \/ Tick \/ DrainFinalized \/ Restore
             \/ \E h \in Handles : RecordPropensity(h) \/ ReleaseDecision(h)
             \/ \E h \in Handles, ks \in SUBSET Keys : RecordActions(h, ks)
             \/ \E a \in Actors : RetireActor(a)
             \/ \E a, b \in Actors, m \in ChannelMaps : RegisterSuccessor(a, b, m)
             \/ \E a \in Actors, n \in Nat : ReleaseDelivered(a, n)
             \/ \E before \in Int : CompactReleased(before)
             \/ UNCHANGED qvars
      PROVE UNCHANGED <<status, decision, settledContracts>>
  BY <1>5 DEF qvars, Tick, DrainFinalized, Restore, RecordPropensity, ReleaseDecision,
     RecordActions, RetireActor, RegisterSuccessor, ReleaseDelivered, CompactReleased
<1> QED
  BY <1>1, <1>2, <1>3, <1>4, <1>5 DEF Calls, Expire

(* A trail that is given to some handles adds what they took.                  *)
LEMMA TrailGrows ==
    ASSUME NEW T, trailed' = trailed \cup T, UNCHANGED <<decision, took>>, NEW k
    PROVE  Historied(k)' = Historied(k) \cup UNION {took[h] : h \in Of(k, T)}
<1>1. Of(k, trailed)' = Of(k, trailed) \cup Of(k, T)
  BY DEF Of
<1>2. Historied(k)' = UNION {took[h] : h \in Of(k, trailed) \cup Of(k, T)}
  BY <1>1 DEF Historied
<1> QED
  BY <1>2 DEF Historied

(* One handle that is given a trail, or that had one.                          *)
LEMMA OneHistoried ==
    ASSUME BooksInv, ActionsExact, NEW h \in Handles, trailed' = trailed \cup {h},
           UNCHANGED <<decision, took>>, Historicize(h, took[h], TRUE)
    PROVE  ActionsExact'
<1>1. PICK c \in Contracts : c = decision[h].contract
  BY DEF BooksInv, QueueTypeOK, Decisions
<1>2. settledActions' = [settledActions EXCEPT ![c] = @ \cup took[h]]
  BY <1>1 DEF Historicize
<1>3. \A k : UNION {took[g] : g \in Of(k, {h})} = IF k = c THEN took[h] ELSE {}
  BY <1>1 DEF Of
<1>4. \A k : Historied(k)' = Historied(k) \cup UNION {took[g] : g \in Of(k, {h})}
  BY TrailGrows
<1>5. /\ DOMAIN settledActions' = Contracts
      /\ \A k \in Contracts : settledActions'[k] = IF k = c THEN settledActions[k] \cup took[h]
                                                   ELSE settledActions[k]
  BY <1>2 DEF ActionsExact
<1>6. \A k \in Contracts : Historied(k)' = IF k = c THEN Historied(k) \cup took[h] ELSE Historied(k)
  BY <1>3, <1>4
<1> QED
  BY <1>5, <1>6 DEF ActionsExact

(* An action is historied exactly by a decision that took it and has a trail.  *)
LEMMA ActionsStep ==
    ASSUME StatusInv, ReturnsInv, BooksInv, ActionsExact, EvidenceInv, [Calls]_qvars
    PROVE  ActionsExact'
<1>0. /\ decision \in [Handles -> Decisions] /\ retained \subseteq Handles /\ trailed \subseteq Handles
      /\ opened \in Nat
  BY HandlesIssued DEF StatusInv, BooksInv, QueueTypeOK, EvidenceInv
<1>1. ASSUME NEW a, NEW k, NEW c, NEW d, NEW parent, OpenDecision(a, k, c, d, parent)
      PROVE ActionsExact'
  <2>1. UNCHANGED <<settledActions, took, trailed>>
    BY <1>1 DEF OpenDecision, evidenceVars
  <2>2. opened \notin trailed
    BY <1>0 DEF EvidenceInv
  <2>3. \A g \in trailed : decision'[g] = decision[g]
    BY <1>0, <1>1, <2>2 DEF OpenDecision
  <2>4. \A i : Of(i, trailed)' = Of(i, trailed)
    BY <2>1, <2>3 DEF Of
  <2>5. \A i : Historied(i)' = Historied(i)
    BY <2>1, <2>4 DEF Historied
  <2> QED
    BY <2>1, <2>5 DEF ActionsExact
<1>2. ASSUME NEW h \in Handles, NEW o \in Submitted, Settle(h, o) PROVE ActionsExact'
  <2>1. /\ actions[h] = took[h] /\ trailed' = trailed \cup {h} /\ UNCHANGED <<decision, took>>
        /\ Historicize(h, actions[h], TRUE)
    BY <1>2 DEF Settle, Settleable, EvidenceInv
  <2> QED
    BY <2>1, OneHistoried
<1>3. ASSUME NEW h \in Handles, RecordPropensity(h) PROVE ActionsExact'
  <2>1. /\ actions[h] = took[h] /\ trailed' = trailed \cup {h} /\ UNCHANGED <<decision, took>>
        /\ Historicize(h, actions[h], TRUE)
    BY <1>3 DEF RecordPropensity, EvidenceInv
  <2> QED
    BY <2>1, OneHistoried
<1>4. ASSUME NEW h \in Handles, NEW ks, RecordActions(h, ks) PROVE ActionsExact'
  <2>1. /\ actions[h] = took[h]
        /\ h \in trailed <=> h \in declared \/ returns[h] # <<>>
    BY <1>4 DEF RecordActions, EvidenceInv
  <2>2. /\ UNCHANGED <<decision, trailed>> /\ took' = [took EXCEPT ![h] = @ \cup ks]
        /\ Historicize(h, took[h] \cup ks, h \in declared \/ returns[h] # <<>>)
    BY <1>4, <2>1 DEF RecordActions
  <2>3. /\ took'[h] = took[h] \cup ks
        /\ \A g \in Handles : g # h => took'[g] = took[g]
    BY <2>2 DEF EvidenceInv
  <2>4. \A i : Of(i, trailed)' = Of(i, trailed) /\ Of(i, trailed) \subseteq Handles
    BY <1>0, <2>2 DEF Of
  <2>5. CASE h \in trailed
    <3>1. PICK c \in Contracts : c = decision[h].contract
      BY <1>0 DEF Decisions
    <3>2. settledActions' = [settledActions EXCEPT ![c] = @ \cup (took[h] \cup ks)]
      BY <2>1, <2>2, <2>5, <3>1 DEF Historicize
    <3>3. ASSUME NEW i PROVE Historied(i)' = IF i = c THEN Historied(i) \cup (took[h] \cup ks)
                                             ELSE Historied(i)
      <4>1. h \in Of(i, trailed) <=> i = c
        BY <2>5, <3>1 DEF Of
      <4>2. Historied(i)' = UNION {took'[g] : g \in Of(i, trailed)}
        BY <2>4 DEF Historied
      <4>3. CASE i = c
        <5>1. \A x : x \in Historied(i)' <=> x \in Historied(i) \cup (took[h] \cup ks)
          <6>1. \A x : x \in Historied(i)' <=> \E g \in Of(i, trailed) : x \in took'[g]
            BY <4>2
          <6>2. \A x : x \in Historied(i) <=> \E g \in Of(i, trailed) : x \in took[g]
            BY DEF Historied
          <6> QED
            BY <2>3, <2>4, <4>1, <4>3, <6>1, <6>2
        <5> QED
          BY <4>3, <5>1
      <4>4. CASE i # c
        <5>1. \A g \in Of(i, trailed) : took'[g] = took[g]
          BY <2>3, <2>4, <4>1, <4>4
        <5> QED
          BY <4>2, <4>4, <5>1 DEF Historied
      <4> QED
        BY <4>3, <4>4
    <3> QED
      BY <3>2, <3>3 DEF ActionsExact
  <2>6. CASE h \notin trailed
    <3>1. settledActions' = settledActions
      BY <2>1, <2>2, <2>6 DEF Historicize
    <3>2. \A i : \A g \in Of(i, trailed) : took'[g] = took[g]
      BY <1>0, <2>3, <2>6 DEF Of
    <3>3. \A i : Historied(i)' = Historied(i)
      BY <2>4, <3>2 DEF Historied
    <3> QED
      BY <3>1, <3>3 DEF ActionsExact
  <2> QED
    BY <2>5, <2>6
<1>5. ASSUME NEW handles, TimeOut(handles) PROVE ActionsExact'
  <2>1. PICK late : late = handles \cap Pending
    OBVIOUS
  <2>2. /\ settledActions' = [k \in Contracts |-> settledActions[k] \cup
                UNION {actions[h] : h \in {g \in late : decision[g].contract = k}}]
        /\ trailed' = trailed \cup late /\ UNCHANGED <<decision, took>>
    BY <1>5, <2>1 DEF TimeOut
  <2>3. \A h \in late : actions[h] = took[h]
    BY <2>1 DEF Pending, Awaiting, EvidenceInv
  <2>4. \A k : {g \in late : decision[g].contract = k} = Of(k, late) /\ Of(k, late) \subseteq late
    BY DEF Of
  <2>5. \A k : UNION {actions[h] : h \in Of(k, late)} = UNION {took[h] : h \in Of(k, late)}
    BY <2>3, <2>4
  <2>6. \A k : Historied(k)' = Historied(k) \cup UNION {took[h] : h \in Of(k, late)}
    BY <2>2, TrailGrows
  <2>7. \A k \in Contracts : settledActions'[k] = settledActions[k] \cup UNION {took[h] : h \in Of(k, late)}
    BY <2>2, <2>4, <2>5
  <2>8. DOMAIN settledActions' = Contracts
    BY <2>2
  <2> QED
    BY <2>6, <2>7, <2>8 DEF ActionsExact
<1>6. ASSUME UNCHANGED <<decision, settledActions, took, trailed>> PROVE ActionsExact'
  <2>1. \A k : Historied(k)' = Historied(k)
    BY <1>6 DEF Historied, Of
  <2> QED
    BY <1>6, <2>1 DEF ActionsExact
<1>7. ASSUME \/ Tick \/ DrainFinalized \/ Restore
             \/ \E h \in Handles : ReleaseDecision(h)
             \/ \E a \in Actors : RetireActor(a)
             \/ \E a, b \in Actors, m \in ChannelMaps : RegisterSuccessor(a, b, m)
             \/ \E a \in Actors, n \in Nat : ReleaseDelivered(a, n)
             \/ \E before \in Int : CompactReleased(before)
             \/ UNCHANGED qvars
      PROVE UNCHANGED <<decision, settledActions, took, trailed>>
  BY <1>7 DEF qvars, evidenceVars, Tick, DrainFinalized, Restore, ReleaseDecision, RetireActor,
     RegisterSuccessor, ReleaseDelivered, CompactReleased
<1> QED
  BY <1>1, <1>2, <1>3, <1>4, <1>5, <1>6, <1>7 DEF Calls, Expire

(* The records of an awaiting decision keep up with what it took.              *)
LEMMA EvidenceStep ==
    ASSUME StatusInv, ReturnsInv, BooksInv, EvidenceInv, [Calls]_qvars
    PROVE  EvidenceInv'
<1> USE StatusesApart
<1>0. /\ retained \subseteq Handles /\ trailed \subseteq Handles /\ declared \subseteq retained
      /\ opened \in Nat /\ Handles \subseteq Nat
      /\ retained \subseteq 0 .. opened - 1 /\ status \in [Handles -> Statuses]
  BY HandlesIssued, QueueAssumption DEF StatusInv, BooksInv, QueueTypeOK, EvidenceInv, Handles
<1>1. ASSUME NEW a, NEW k, NEW c, NEW d, NEW parent, OpenDecision(a, k, c, d, parent)
      PROVE EvidenceInv'
  <2>1. PICK h \in Handles : h = opened /\ status[h] = "none" /\ h \notin retained
    BY <1>1, OpenStep
  <2>2. /\ opened' = h + 1 /\ retained' = retained \cup {h}
        /\ status' = [status EXCEPT ![h] = "pending"]
        /\ UNCHANGED <<actions, took, trailed, declared, returns>>
    BY <1>1, <2>1 DEF OpenDecision, evidenceVars
  <2>3. actions[h] = {} /\ took[h] = {} /\ returns[h] = <<>> /\ h \notin declared /\ h \notin trailed
    BY <1>0, <2>1 DEF EvidenceInv, ReturnsInv
  <2>4. trailed' \subseteq 0 .. opened' - 1
    BY <1>0, <2>1, <2>2 DEF EvidenceInv
  <2>5. \A g \in Handles : g >= opened' => g >= opened
    BY <1>0, <2>1, <2>2
  <2>6. \A g \in retained : g # h /\ status'[g] = status[g]
    BY <1>0, <2>1, <2>2
  <2>7. ASSUME NEW g \in retained', status'[g] \in Awaiting
        PROVE  /\ actions'[g] = took'[g]
               /\ g \in trailed' <=> g \in declared' \/ returns'[g] # <<>>
    <3>1. CASE g = h
      BY <2>2, <2>3, <3>1
    <3>2. CASE g # h
      BY <2>2, <2>6, <2>7, <3>2 DEF EvidenceInv
    <3> QED
      BY <3>1, <3>2
  <2>8. \A g \in Handles : g >= opened' => actions'[g] = {} /\ took'[g] = {}
    BY <2>2, <2>5 DEF EvidenceInv
  <2> QED
    BY <2>2, <2>4, <2>7, <2>8 DEF EvidenceInv
<1>2. ASSUME NEW h \in Handles, NEW o \in Submitted, Settle(h, o) PROVE EvidenceInv'
  <2>1. PICK kept \in Outcomes :
           /\ h \in retained /\ status' = [status EXCEPT ![h] = kept]
           /\ returns' = [returns EXCEPT ![h] = Append(@, kept)]
           /\ UNCHANGED <<opened, retained>>
    BY <1>2, SettleStep
  <2>2. /\ actions' = [actions EXCEPT ![h] = {}] /\ trailed' = trailed \cup {h}
        /\ UNCHANGED <<declared, took>>
    BY <1>2 DEF Settle
  <2>3. status'[h] \notin Awaiting
    BY <1>0, <2>1
  <2>4. \A g \in Handles : g # h => /\ status'[g] = status[g] /\ returns'[g] = returns[g]
                                    /\ actions'[g] = actions[g]
    BY <1>0, <2>1, <2>2 DEF ReturnsInv, EvidenceInv
  <2>5. \A g \in retained : status'[g] \in Awaiting =>
           /\ actions'[g] = took'[g]
           /\ g \in trailed' <=> g \in declared' \/ returns'[g] # <<>>
    BY <1>0, <2>2, <2>3, <2>4 DEF EvidenceInv
  <2>6. trailed' \subseteq 0 .. opened' - 1
    BY <1>0, <2>1, <2>2 DEF EvidenceInv
  <2>7. \A g \in Handles : g >= opened' => actions'[g] = {} /\ took'[g] = {}
    BY <2>1, <2>2 DEF EvidenceInv
  <2>8. DOMAIN actions' = Handles
    BY <2>2 DEF EvidenceInv
  <2> QED
    BY <2>1, <2>2, <2>5, <2>6, <2>7, <2>8 DEF EvidenceInv
<1>3. ASSUME NEW h \in Handles, RecordPropensity(h) PROVE EvidenceInv'
  <2>1. /\ h \in retained /\ declared' = declared \cup {h} /\ trailed' = trailed \cup {h}
        /\ UNCHANGED <<opened, retained, status, returns, actions, took>>
    BY <1>3 DEF RecordPropensity
  <2> QED
    BY <1>0, <2>1 DEF EvidenceInv
<1>4. ASSUME NEW h \in Handles, NEW ks, RecordActions(h, ks) PROVE EvidenceInv'
  <2>1. /\ h \in retained
        /\ actions' = [actions EXCEPT ![h] = @ \cup ks]
        /\ took' = [took EXCEPT ![h] = @ \cup ks]
        /\ UNCHANGED <<opened, retained, status, returns, declared, trailed>>
    BY <1>4 DEF RecordActions
  <2>2. h < opened
    BY <1>0, <2>1
  <2>3. DOMAIN actions' = Handles /\ DOMAIN took' = Handles
    BY <2>1 DEF EvidenceInv
  <2>4. \A g \in Handles : \/ g # h /\ actions'[g] = actions[g] /\ took'[g] = took[g]
                           \/ g = h /\ actions'[g] = actions[g] \cup ks
                                    /\ took'[g] = took[g] \cup ks
    BY <2>1 DEF EvidenceInv
  <2>5. \A g \in Handles : g >= opened => g # h
    BY <1>0, <2>2
  <2> QED
    BY <1>0, <2>1, <2>3, <2>4, <2>5 DEF EvidenceInv
<1>5. ASSUME NEW handles, TimeOut(handles) PROVE EvidenceInv'
  <2>1. PICK late : late = handles \cap Pending
    OBVIOUS
  <2>2. /\ late \subseteq retained
        /\ status' = [h \in Handles |-> IF h \in late THEN "timed_out" ELSE status[h]]
        /\ returns' = [h \in Handles |-> IF h \in late THEN Append(returns[h], "timed_out")
                                         ELSE returns[h]]
        /\ UNCHANGED <<opened, retained>> /\ \A h \in late : status[h] = "pending"
    BY <1>5, <2>1, TimeOutStep
  <2>3. trailed' = trailed \cup late /\ UNCHANGED <<actions, took, declared>>
    BY <1>5, <2>1 DEF TimeOut
  <2>4. \A h \in late : status[h] \in Awaiting /\ returns'[h] # <<>> /\ h \in retained
    <3> SUFFICES ASSUME NEW h \in late PROVE status[h] \in Awaiting /\ returns'[h] # <<>> /\ h \in retained
      OBVIOUS
    <3>1. returns[h] = <<>> /\ h \in Handles /\ status[h] = "pending"
      BY <1>0, <2>2 DEF ReturnsInv
    <3>2. returns'[h] = <<"timed_out">>
      BY <2>2, <3>1, AppendWritten
    <3>3. <<"timed_out">> # <<>>
      <4>1. Len(<<"timed_out">>) = 1 /\ Len(<<>>) = 0
        OBVIOUS
      <4> QED
        BY <4>1
    <3> QED
      BY <2>2, <3>1, <3>2, <3>3 DEF Awaiting
  <2>5. \A h \in Handles \ late : status'[h] = status[h] /\ returns'[h] = returns[h]
    BY <2>2
  <2>6. \A h \in retained : status'[h] \in Awaiting =>
           /\ actions'[h] = took'[h]
           /\ h \in trailed' <=> h \in declared' \/ returns'[h] # <<>>
    <3> SUFFICES ASSUME NEW h \in retained, status'[h] \in Awaiting
                 PROVE  /\ actions'[h] = took'[h]
                        /\ h \in trailed' <=> h \in declared' \/ returns'[h] # <<>>
      OBVIOUS
    <3>1. CASE h \in late
      BY <2>3, <2>4, <3>1 DEF EvidenceInv
    <3>2. CASE h \notin late
      BY <1>0, <2>3, <2>5, <3>2 DEF EvidenceInv
    <3> QED
      BY <3>1, <3>2
  <2>7. trailed' \subseteq 0 .. opened' - 1
    BY <1>0, <2>2, <2>3 DEF EvidenceInv
  <2> QED
    BY <2>2, <2>3, <2>6, <2>7 DEF EvidenceInv
<1>6. ASSUME NEW h \in Handles, ReleaseDecision(h) PROVE EvidenceInv'
  <2>1. /\ status' = status /\ opened' = opened /\ retained' = retained \ {h}
        /\ actions' = [actions EXCEPT ![h] = {}] /\ declared' = declared \ {h}
        /\ UNCHANGED <<took, trailed>> /\ returns' = [returns EXCEPT ![h] = <<>>]
    BY <1>6 DEF ReleaseDecision
  <2>2. \A g \in Handles : g # h => /\ actions'[g] = actions[g] /\ returns'[g] = returns[g]
                                    /\ g \in declared' <=> g \in declared
    BY <2>1 DEF EvidenceInv, ReturnsInv
  <2>3. DOMAIN actions' = Handles /\ \A g \in Handles : actions'[g] \subseteq actions[g]
    BY <2>1, <2>2 DEF EvidenceInv
  <2>4. \A g \in retained' : g \in retained /\ g \in Handles /\ g # h
    BY <1>0, <2>1
  <2>5. \A g \in retained' : status'[g] \in Awaiting =>
           /\ actions'[g] = took'[g]
           /\ g \in trailed' <=> g \in declared' \/ returns'[g] # <<>>
    <3> SUFFICES ASSUME NEW g \in retained', status'[g] \in Awaiting
                 PROVE  /\ actions'[g] = took'[g]
                        /\ g \in trailed' <=> g \in declared' \/ returns'[g] # <<>>
      OBVIOUS
    <3>1. /\ actions[g] = took[g]
          /\ g \in trailed <=> g \in declared \/ returns[g] # <<>>
      BY <2>1, <2>4 DEF EvidenceInv
    <3> QED
      BY <2>1, <2>2, <2>4, <3>1
  <2>6. \A g \in Handles : g >= opened => actions'[g] = {} /\ took[g] = {}
    BY <2>3 DEF EvidenceInv
  <2>7. trailed \subseteq 0 .. opened - 1 /\ DOMAIN took = Handles
    BY DEF EvidenceInv
  <2> QED
    BY <2>1, <2>3, <2>5, <2>6, <2>7 DEF EvidenceInv
<1>7. ASSUME UNCHANGED <<opened, retained, status, returns, declared, actions, took, trailed>>
      PROVE EvidenceInv'
  BY <1>7 DEF EvidenceInv
<1>8. ASSUME \/ Tick \/ DrainFinalized \/ Restore
             \/ \E a \in Actors : RetireActor(a)
             \/ \E a, b \in Actors, m \in ChannelMaps : RegisterSuccessor(a, b, m)
             \/ \E a \in Actors, n \in Nat : ReleaseDelivered(a, n)
             \/ \E before \in Int : CompactReleased(before)
             \/ UNCHANGED qvars
      PROVE UNCHANGED <<opened, retained, status, returns, declared, actions, took, trailed>>
  BY <1>8 DEF qvars, evidenceVars, Tick, DrainFinalized, Restore, RetireActor, RegisterSuccessor,
     ReleaseDelivered, CompactReleased
<1> QED
  BY <1>1, <1>2, <1>3, <1>4, <1>5, <1>6, <1>7, <1>8 DEF Calls, Expire

-------------------------------------------------------------------------------
(* The counters count every handle, and nothing else.                          *)
Counting == /\ children = [h \in Handles |-> children[h]]
           /\ unread = [h \in Handles |-> unread[h]]

(* Every step keeps the counters functions of the handles.                     *)
LEMMA CountingInductive == Counting /\ [Calls]_qvars => Counting'
<1> SUFFICES ASSUME Counting, [Calls]_qvars PROVE Counting'
  OBVIOUS
<1>1. children' = [h \in Handles |-> children'[h]]
  <2>1. ASSUME NEW parent, AddChild(parent) PROVE children' = [h \in Handles |-> children'[h]]
    BY <2>1 DEF AddChild, Counting
  <2>2. ASSUME NEW parent, DropChild(parent) PROVE children' = [h \in Handles |-> children'[h]]
    BY <2>2 DEF DropChild, Counting
  <2>3. ASSUME children' = RecountChildren PROVE children' = [h \in Handles |-> children'[h]]
    BY <2>3 DEF RecountChildren
  <2>4. ASSUME children' = children PROVE children' = [h \in Handles |-> children'[h]]
    BY <2>4 DEF Counting
  <2>5. \/ \E parent : AddChild(parent) \/ DropChild(parent)
        \/ children' = RecountChildren \/ children' = children
    BY DEF Calls, qvars, Tick, Expire, TimeOut, DrainFinalized, Restore, OpenDecision,
       RecordPropensity, ReleaseDecision, RecordActions, Settle, ReleaseDelivered, CompactReleased,
       RetireActor, RegisterSuccessor
  <2> QED
    BY <2>1, <2>2, <2>3, <2>4, <2>5
<1>2. unread' = [h \in Handles |-> unread'[h]]
  <2>1. ASSUME NEW h \in Handles, NEW o \in Submitted, Settle(h, o)
        PROVE  unread' = [g \in Handles |-> unread'[g]]
    <3>1. unread' = unread \/ unread' = [unread EXCEPT ![h] = @ + 1]
      BY <2>1 DEF Settle
    <3> QED
      BY <3>1 DEF Counting
  <2>2. ASSUME NEW handles, TimeOut(handles) PROVE unread' = [g \in Handles |-> unread'[g]]
    <3>1. \E f : unread' = [h \in Handles |-> f[h]]
      BY <2>2, TimeOutBooks
    <3> QED
      BY <3>1
  <2>3. ASSUME NEW a, NEW n, ReleaseDelivered(a, n) PROVE unread' = [g \in Handles |-> unread'[g]]
    BY <2>3 DEF ReleaseDelivered
  <2>4. ASSUME Deaf PROVE unread' = [g \in Handles |-> unread'[g]]
    BY <2>4 DEF Deaf, RecountUnread, Counting
  <2> QED
    BY <2>1, <2>2, <2>3, <2>4, DeliveryKinds
<1> QED
  BY <1>1, <1>2 DEF Counting

(* All that is kept of the queue, together.                                    *)
QueueInv == /\ StatusInv /\ ReturnsInv /\ FamilyInv /\ SuccessionInv /\ BooksInv /\ ReadInv
            /\ HistoryInv /\ Counting

(* It all holds initially.                                                     *)
LEMMA QueueInvInit == QueueInit => QueueInv
<1>1. QueueInit => Counting
  BY DEF QueueInit, Counting
<1> QED
  BY <1>1, StatusInit, ReturnsInit, FamilyInit, SuccessionInit, BooksInit, ReadInit, HistoryInit
     DEF QueueInv

(* Every step keeps it all.                                                    *)
LEMMA QueueInvInductive == QueueInv /\ [Calls]_qvars => QueueInv'
<1> SUFFICES ASSUME QueueInv, [Calls]_qvars PROVE QueueInv'
  OBVIOUS
<1>1. /\ StatusInv /\ ReturnsInv /\ FamilyInv /\ SuccessionInv /\ BooksInv /\ ReadInv
      /\ ContractsExact /\ ActionsExact /\ EvidenceInv /\ Counting
  BY DEF QueueInv, HistoryInv
<1>2. StatusInv' /\ ReturnsInv' /\ FamilyInv'
  BY <1>1, StatusInductive, ReturnsInductive, FamilyInductive
<1>3. SuccessionInv' /\ BooksInv' /\ ReadInv'
  BY <1>1, SuccessionInductive, BooksInductive
<1>4. ContractsExact' /\ ActionsExact' /\ EvidenceInv' /\ Counting'
  BY <1>1, ContractsStep, ActionsStep, EvidenceStep, CountingInductive
<1> QED
  BY <1>2, <1>3, <1>4 DEF QueueInv, HistoryInv

(* What is not retained has its outcome, and no reader waits for it. *)
LEMMA ReleasedSays == QueueInv => NothingOwedReleased
<1> SUFFICES ASSUME QueueInv PROVE NothingOwedReleased
  OBVIOUS
<1>1. QueueTypeOK
  BY DEF QueueInv, BooksInv
<1>2. \A h \in 0 .. opened - 1 : h \notin retained => status[h] \in Outcomes
  BY DEF QueueInv, StatusInv
<1>3. \A a \in Actors : \A n \in 1 .. Len(deliveries[a]) : deliveries[a][n].handle \in retained
  BY DEF QueueInv, ReadInv
<1> QED
  BY <1>1, <1>2, <1>3 DEF NothingOwedReleased

(* NothingOwedReleased: the books are typed, every issued handle keeps         *)
(* answering, a decision is dropped only with its outcome and only when every  *)
(* return delivered for it has been read, for any number of readers.           *)
THEOREM ReleasedOwesNothing == QueueSpec => []NothingOwedReleased
<1>1. QueueInv => NothingOwedReleased
  BY ReleasedSays
<1> QED
  BY <1>1, QueueInvInit, QueueInvInductive, BoundedCalls, PTL DEF QueueSpec

(* What is counted as it goes is what a recount finds. *)
LEMMA DerivedSays == QueueInv => DerivedExact
<1> SUFFICES ASSUME QueueInv PROVE DerivedExact
  OBVIOUS
<1>1. children = RecountChildren
  <2>1. /\ children = [h \in Handles |-> children[h]]
        /\ \A p \in Handles : children[p] = Cardinality(ChildrenOf(p))
    BY DEF QueueInv, FamilyInv, Counting
  <2> QED
    BY <2>1 DEF RecountChildren, ChildrenOf
<1>2. unread = RecountUnread
  <2>1. /\ unread = [h \in Handles |-> unread[h]]
        /\ \A h \in Handles : unread[h] = RecountUnread[h]
    BY RecountIs DEF QueueInv, ReadInv, Counting
  <2>2. RecountUnread = [h \in Handles |-> RecountUnread[h]]
    BY DEF RecountUnread
  <2> QED
    BY <2>1, <2>2
<1>3. settledContracts = {decision[h].contract : h \in {g \in Handles : status[g] \in Outcomes}}
  BY DEF QueueInv, HistoryInv, ContractsExact, SettledSet
<1>4. \A k \in Contracts : settledActions[k] =
          UNION {took[h] : h \in {g \in trailed : decision[g].contract = k}}
  BY DEF QueueInv, HistoryInv, ActionsExact, Historied, Of
<1> QED
  BY <1>1, <1>2, <1>3, <1>4 DEF DerivedExact, CountersExact, HistoryExact

(* DerivedExact: the counters kept step by step are what a restart recounts,   *)
(* and the history of contracts and actions is what was settled and taken.     *)
THEOREM DerivedBooksExact == QueueSpec => []DerivedExact
<1>1. QueueInv => DerivedExact
  BY DerivedSays
<1> QED
  BY <1>1, QueueInvInit, QueueInvInductive, BoundedCalls, PTL DEF QueueSpec

(* What one step does to the deliveries of the retired and to the outcomes.    *)
LEMMA RoutedStep ==
    ASSUME QueueInv, [Calls]_qvars
    PROVE  /\ \A a \in retired : DeliveredCount(a)' = DeliveredCount(a)
           /\ \A h \in Handles : status'[h] = "historical" /\ status[h] # "historical"
                                      => decision[h].actor \in retired
<1> USE StatusesApart DEF QueueInv
<1>1. \A a \in retired : DeliveredCount(a)' = DeliveredCount(a)
  BY DeliveryStep
<1>2. ASSUME NEW h \in Handles, status'[h] = "historical", status[h] # "historical"
      PROVE  decision[h].actor \in retired
  <2>0. status \in [Handles -> Statuses]
    BY DEF StatusInv
  <2>1. ASSUME NEW a, NEW k, NEW c, NEW d, NEW parent, OpenDecision(a, k, c, d, parent) PROVE FALSE
    BY <1>2, <2>0, <2>1, OpenStep
  <2>2. ASSUME NEW g \in Handles, NEW o \in Submitted, Settle(g, o)
        PROVE  decision[h].actor \in retired
    <3>1. PICK a \in Actors, c \in Channels : a = decision[g].actor /\ c = decision[g].channel
      BY DEF BooksInv, QueueTypeOK, Decisions
    <3>2. status' = [status EXCEPT ![g] = IF Route(a, c)[1] = None THEN "historical" ELSE o]
      BY <2>2, <3>1 DEF Settle
    <3>3. g = h
      BY <1>2, <2>0, <3>2
    <3>4. o # "historical"
      BY QueueAssumption
    <3>5. Route(a, c)[1] = None
      BY <1>2, <2>0, <3>2, <3>3, <3>4
    <3> QED
      BY <3>1, <3>3, <3>5, RouteLives
  <2>3. ASSUME NEW handles, TimeOut(handles) PROVE FALSE
    BY <1>2, <2>0, <2>3, TimeOutStep
  <2>4. ASSUME NEW g \in Handles, ReleaseDecision(g) PROVE FALSE
    BY <1>2, <2>4, ReleaseStep
  <2>5. ASSUME QuietStep PROVE FALSE
    BY <1>2, <2>5 DEF QuietStep
  <2> QED
    BY <2>1, <2>2, <2>3, <2>4, <2>5, StepKinds
<1> QED
  BY <1>1, <1>2

(* RoutedToLiving: no step delivers to an actor that retired, however long the *)
(* chain of successors, and an outcome becomes history only when its actor has *)
(* retired and nobody of the chain lives (queue.py 425-433).                   *)
THEOREM FeedbackReachesLiving == QueueSpec => RoutedToLiving
<1>1. QueueInv /\ [Calls]_qvars =>
        [/\ \A a \in retired : DeliveredCount(a)' = DeliveredCount(a)
         /\ \A h \in Handles : status'[h] = "historical" /\ status[h] # "historical"
                                    => decision[h].actor \in retired]_qvars
  BY RoutedStep
<1> QED
  BY <1>1, QueueInvInit, QueueInvInductive, BoundedCalls, PTL DEF QueueSpec, RoutedToLiving

-------------------------------------------------------------------------------
(* The learners' rounds.                                                       *)

Phases == {"idle", "close", "route", "settle", "expire", "deliver", "learn", "drain",
           "boundary", "release"}
AllRead == {"idle", "drain", "boundary", "release"}
Trained == [scored : BOOLEAN, charged : BOOLEAN]

(* The places of a reader's returns, counted from its first one, and whom the  *)
(* loop reads for.                                                             *)
Unread(a) == seen[a] + 1 .. DeliveredCount(a)
Item(a, i) == deliveries[a][i - released[a]]
Reads(a) == a = router \/ \E n \in 1 .. Len(replaced) : replaced[n] = a

-------------------------------------------------------------------------------
(* What a settlement or a lateness does to the queue: the decisions of H get    *)
(* one more return each, which reaches their actor unless it retired.          *)
Reached(H, o) ==
    /\ H \subseteq retained
    /\ \A h \in H : status[h] \in Awaiting /\ (o = "timed_out" => status[h] = "pending")
    /\ \A h \in Handles :
          /\ status'[h] = IF h \in H
                          THEN IF decision[h].actor \in retired /\ o # "timed_out"
                               THEN "historical" ELSE o
                          ELSE status[h]
          /\ returns'[h] = IF h \in H THEN Append(returns[h], status'[h]) ELSE returns[h]
    /\ UNCHANGED <<now, opened, retained, decision, retired, successor, released>>
    /\ finalized' \in Seq(Handles)
    /\ ToSet(finalized') = ToSet(finalized) \cup (IF o = "timed_out" THEN {} ELSE H)

NewItems(a) == DeliveredCount(a) + 1 .. DeliveredCount(a)'
Arrived(H, o) ==
    \A a \in Actors :
        /\ DeliveredCount(a)' \in Nat /\ DeliveredCount(a) \in Nat
        /\ DeliveredCount(a) <= DeliveredCount(a)'
        /\ \A i \in released[a] + 1 .. DeliveredCount(a) : Item(a, i)' = Item(a, i)
        /\ \A i \in NewItems(a) : /\ Item(a, i)'.handle \in H /\ Item(a, i)'.status = o
                                  /\ decision[Item(a, i)'.handle].actor = a /\ a \notin retired
        /\ a \notin retired => \A h \in H : decision[h].actor = a =>
                                  \E i \in NewItems(a) : Item(a, i)'.handle = h
Answers(H, o) == Reached(H, o) /\ Arrived(H, o)

(* Nobody succeeds an actor here: a return reaches its own actor or nobody.    *)
NoSuccessor == \A a \in Actors : successor[a] = None

(* While no actor has a successor, a route ends at its own actor, or nowhere. *)
LEMMA RouteDirect ==
    ASSUME SuccessionInv, NoSuccessor, NEW a \in Actors, NEW c \in Channels
    PROVE  /\ a \notin retired => Route(a, c) = <<a, c>>
           /\ a \in retired => Route(a, c)[1] = None
<1>1. PICK m : m = Cardinality(Actors)
  OBVIOUS
<1>2. m \in Nat /\ m # 0
  BY <1>1, QueueAssumption, FS_CardinalityType, FS_EmptySet
<1>3. PICK h \in [0 .. m -> Places] : /\ h[0] = <<a, c>> /\ Route(a, c) = h[m]
                                      /\ \A n \in 1 .. m : h[n] = Hop(h[n - 1])
  <2>1. \E h : Hops(h, a, c, m)
    BY <1>1, RouteIs
  <2> QED
    BY <2>1 DEF Hops
<1>4. None \notin Actors
  BY QueueAssumption
<1>5. ASSUME a \notin retired PROVE Route(a, c) = <<a, c>>
  <2> DEFINE P == {n \in Nat : n <= m => h[n] = <<a, c>>}
  <2>1. 0 \in P
    BY <1>3
  <2>2. ASSUME NEW n \in P PROVE n + 1 \in P
    <3> SUFFICES ASSUME n + 1 <= m PROVE h[n + 1] = <<a, c>>
      OBVIOUS
    <3>1. n \in Nat /\ n + 1 \in 1 .. m /\ (n + 1) - 1 = n /\ n <= m
      BY <1>2
    <3>2. h[n + 1] = Hop(h[n]) /\ h[n] = <<a, c>>
      BY <1>3, <3>1
    <3> QED
      BY <1>5, <3>2 DEF Hop
  <2>3. P \in SUBSET Nat
    OBVIOUS
  <2> HIDE DEF P
  <2>4. m \in P
    BY <1>2, <2>1, <2>2, <2>3, Induction
  <2> QED
    BY <1>2, <1>3, <2>4 DEF P
<1>6. ASSUME a \in retired PROVE Route(a, c)[1] = None
  <2> DEFINE P == {n \in Nat : n + 1 <= m => h[n + 1][1] = None}
  <2>1. 0 \in P
    <3>1. 1 \in 1 .. m /\ 1 - 1 = 0
      BY <1>2
    <3>2. h[1] = Hop(h[0]) /\ h[0] = <<a, c>>
      BY <1>3, <3>1
    <3>3. Hop(<<a, c>>) = <<None, c>>
      BY <1>4, <1>6 DEF Hop, NoSuccessor
    <3> QED
      BY <3>2, <3>3
  <2>2. ASSUME NEW n \in P PROVE n + 1 \in P
    <3> SUFFICES ASSUME (n + 1) + 1 <= m PROVE h[(n + 1) + 1][1] = None
      OBVIOUS
    <3>1. n \in Nat /\ (n + 1) + 1 \in 1 .. m /\ ((n + 1) + 1) - 1 = n + 1 /\ n + 1 <= m
      BY <1>2
    <3>2. h[(n + 1) + 1] = Hop(h[n + 1]) /\ h[n + 1][1] = None
      BY <1>3, <3>1
    <3> QED
      BY <3>2 DEF Hop
  <2>3. P \in SUBSET Nat
    OBVIOUS
  <2> HIDE DEF P
  <2>4. m - 1 \in P /\ m - 1 \in Nat /\ (m - 1) + 1 = m
    BY <1>2, <2>1, <2>2, <2>3, Induction
  <2> QED
    BY <1>3, <2>4 DEF P
<1> QED
  BY <1>5, <1>6

(* The fields of a decision. *)
LEMMA DecisionTyped ==
    ASSUME QueueInv, NEW h \in Handles
    PROVE  /\ decision[h].actor \in Actors /\ decision[h].contract \in Contracts
           /\ decision[h].channel \in Channels /\ decision[h].deadline \in Nat
           /\ decision[h].parent \in Handles \cup {None}
  BY DEF QueueInv, BooksInv, QueueTypeOK, Decisions

(* Two sequences in a row. *)
Joins(S, u, s, k, t, j) ==
    /\ u \in Seq(S) /\ Len(u) = k + j
    /\ \A i \in 1 .. k + j : u[i] = IF i <= k THEN s[i] ELSE t[i - k]

(* What the concatenation of two sequences is. *)
LEMMA JoinIs ==
    ASSUME NEW S, NEW s \in Seq(S), NEW t \in Seq(S), NEW u, u = s \o t,
           NEW k, k = Len(s), NEW j, j = Len(t)
    PROVE  Joins(S, u, s, k, t, j)
BY ConcatProperties DEF Joins

(* What one more element adds. *)
LEMMA AppendSet ==
    ASSUME NEW S, NEW s \in Seq(S), NEW x \in S
    PROVE  Append(s, x) \in Seq(S) /\ ToSet(Append(s, x)) = ToSet(s) \cup {x}
<1>1. PICK n \in Nat : n = Len(s)
  OBVIOUS
<1>2. PICK t : t = Append(s, x)
  OBVIOUS
<1>3. /\ t \in Seq(S) /\ Len(t) = n + 1 /\ t[n + 1] = x
      /\ \A i \in 1 .. n : t[i] = s[i]
  BY <1>1, <1>2
<1>4. DOMAIN t = 1 .. n + 1 /\ DOMAIN s = 1 .. n
  BY <1>1, <1>3
<1>5. 1 .. n + 1 = (1 .. n) \cup {n + 1}
  OBVIOUS
<1>6. ToSet(t) = ToSet(s) \cup {x}
  BY <1>3, <1>4, <1>5 DEF ToSet
<1> QED
  BY <1>2, <1>3, <1>6

(* A settlement reaches the one decision it names. *)
LEMMA SettleReaches ==
    ASSUME QueueInv, NoSuccessor, finalized \in Seq(Handles), NEW h \in Handles, NEW o \in Submitted,
           Settle(h, o)
    PROVE  Reached({h}, o)
<1>1. PICK a \in Actors, c \in Channels : a = decision[h].actor /\ c = decision[h].channel
  BY DecisionTyped
<1>2. SuccessionInv /\ StatusInv /\ ReturnsInv
  BY DEF QueueInv
<1>3. o # "timed_out" /\ o # "historical"
  BY QueueAssumption
<1>4. None \notin Actors
  BY QueueAssumption
<1>5. Route(a, c)[1] = None <=> a \in retired
  BY <1>1, <1>2, <1>4, RouteDirect
<1>6. PICK kept : kept = IF a \in retired THEN "historical" ELSE o
  OBVIOUS
<1>7. /\ h \in retained /\ status[h] \in Awaiting
      /\ status' = [status EXCEPT ![h] = kept] /\ returns' = [returns EXCEPT ![h] = Append(@, kept)]
      /\ finalized' = Append(finalized, h)
      /\ UNCHANGED <<now, opened, retained, decision, retired, successor, released>>
  BY <1>1, <1>5, <1>6 DEF Settle, Settleable, actorVars
<1>8. DOMAIN status = Handles /\ DOMAIN returns = Handles
  BY <1>2 DEF StatusInv, ReturnsInv
<1>9. finalized' \in Seq(Handles) /\ ToSet(finalized') = ToSet(finalized) \cup {h}
  BY <1>7, AppendSet
<1> QED
  BY <1>1, <1>3, <1>6, <1>7, <1>8, <1>9 DEF Reached

(* The note a settlement leaves, and on which list. *)
LEMMA SettleArrives ==
    ASSUME QueueInv, NoSuccessor, NEW h \in Handles, NEW o \in Submitted, Settle(h, o)
    PROVE  Arrived({h}, o)
<1>1. PICK a \in Actors, c \in Channels : a = decision[h].actor /\ c = decision[h].channel
  BY DecisionTyped
<1>2. SuccessionInv /\ BooksInv
  BY DEF QueueInv
<1>3. None \notin Actors /\ None \notin Channels
  BY QueueAssumption
<1>4. released' = released /\ decision' = decision
  BY DEF Settle
<1>5. \A b \in Actors : /\ deliveries[b] \in Seq(Notes) /\ Len(deliveries[b]) \in Nat
                        /\ released[b] \in Nat
  BY <1>2 DEF BooksInv
<1>6. CASE a \in retired
  <2>1. deliveries' = deliveries
    BY <1>1, <1>2, <1>6, RouteDirect DEF Settle, Deliver
  <2>2. ASSUME NEW b \in Actors
        PROVE  /\ DeliveredCount(b)' \in Nat /\ DeliveredCount(b)' = DeliveredCount(b)
               /\ NewItems(b) = {}
               /\ \A i : Item(b, i)' = Item(b, i)
    BY <1>4, <1>5, <2>1 DEF DeliveredCount, NewItems, Item
  <2> QED
    BY <1>1, <1>6, <2>2 DEF Arrived
<1>7. CASE a \notin retired
  <2>1. Route(a, c) = <<a, c>>
    BY <1>2, <1>7, RouteDirect
  <2>2. PICK note \in Notes : note = [handle |-> h, status |-> o, channel |-> c]
    <3>1. o \in Statuses
      BY StatusesApart DEF Statuses
    <3> QED
      BY <3>1 DEF Notes
  <2>3. deliveries' = [deliveries EXCEPT ![a] = @ \o <<note>>]
    BY <1>1, <1>3, <2>1, <2>2 DEF Settle, Deliver
  <2>4. PICK k \in Nat, r \in Nat : k = Len(deliveries[a]) /\ r = released[a]
    BY <1>5
  <2>5. /\ <<note>> \in Seq(Notes) /\ Len(<<note>>) = 1 /\ <<note>>[1] = note
    OBVIOUS
  <2>6. PICK longer : longer = deliveries[a] \o <<note>>
    OBVIOUS
  <2>7. /\ longer \in Seq(Notes) /\ Len(longer) = k + 1 /\ longer[k + 1] = note
        /\ \A n \in 1 .. k : longer[n] = deliveries[a][n]
    BY <1>5, <2>4, <2>5, <2>6, ConcatProperties
  <2>8. deliveries'[a] = longer /\ \A b \in Actors : b # a => deliveries'[b] = deliveries[b]
    BY <1>2, <2>3, <2>6 DEF BooksInv
  <2>9. DeliveredCount(a) = r + k /\ DeliveredCount(a)' = r + k + 1
    BY <1>4, <2>4, <2>7, <2>8 DEF DeliveredCount
  <2>10. \A i \in r + 1 .. r + k : Item(a, i)' = Item(a, i)
    <3> TAKE i \in r + 1 .. r + k
    <3>1. i - r \in 1 .. k
      OBVIOUS
    <3> QED
      BY <1>4, <2>4, <2>7, <2>8, <3>1 DEF Item
  <2>11. Item(a, r + k + 1)' = note
    <3>1. (r + k + 1) - r = k + 1
      OBVIOUS
    <3> QED
      BY <1>4, <2>4, <2>7, <2>8, <3>1 DEF Item
  <2>12. NewItems(a) = {r + k + 1}
    BY <2>9 DEF NewItems
  <2>13. note.handle = h /\ note.status = o
    BY <2>2
  <2>14. ASSUME NEW b \in Actors, b # a
         PROVE  /\ DeliveredCount(b)' \in Nat /\ DeliveredCount(b)' = DeliveredCount(b)
                /\ NewItems(b) = {}
                /\ \A i : Item(b, i)' = Item(b, i)
    BY <1>4, <1>5, <2>8, <2>14 DEF DeliveredCount, NewItems, Item
  <2>15. /\ DeliveredCount(a)' \in Nat /\ DeliveredCount(a) \in Nat
         /\ DeliveredCount(a) <= DeliveredCount(a)'
         /\ \A i \in released[a] + 1 .. DeliveredCount(a) : Item(a, i)' = Item(a, i)
         /\ \A i \in NewItems(a) : /\ Item(a, i)'.handle \in {h} /\ Item(a, i)'.status = o
                                   /\ decision[Item(a, i)'.handle].actor = a /\ a \notin retired
         /\ \E i \in NewItems(a) : Item(a, i)'.handle = h
    <3>1. released[a] = r /\ \A i \in NewItems(a) : i = r + k + 1
      BY <2>4, <2>12
    <3>2. \A i \in NewItems(a) : Item(a, i)' = note
      BY <2>11, <3>1
    <3>3. decision[note.handle].actor = a
      BY <1>1, <2>13
    <3>4. \E i \in NewItems(a) : Item(a, i)'.handle = h
      BY <2>11, <2>12, <2>13
    <3>5. \A i \in NewItems(a) : /\ Item(a, i)'.handle \in {h} /\ Item(a, i)'.status = o
                                  /\ decision[Item(a, i)'.handle].actor = a /\ a \notin retired
      BY <1>7, <2>13, <3>2, <3>3
    <3>6. \A i \in released[a] + 1 .. DeliveredCount(a) : Item(a, i)' = Item(a, i)
      BY <2>9, <2>10, <3>1
    <3> QED
      BY <2>4, <2>9, <3>4, <3>5, <3>6
  <2>16. \A b \in Actors : b # a => decision[h].actor # b
    BY <1>1
  <2> QED
    BY <2>14, <2>15, <2>16 DEF Arrived
<1> QED
  BY <1>6, <1>7

(* A deadline reaches the pending decisions it finds. *)
LEMMA TimeOutReaches ==
    ASSUME QueueInv, finalized \in Seq(Handles), NEW handles, TimeOut(handles)
    PROVE  Reached(handles \cap Pending, "timed_out")
<1>1. PICK late : late = handles \cap Pending
  OBVIOUS
<1>2. StatusInv
  BY DEF QueueInv
<1>3. /\ late \subseteq retained /\ \A h \in late : status[h] = "pending"
      /\ status' = [h \in Handles |-> IF h \in late THEN "timed_out" ELSE status[h]]
      /\ returns' = [h \in Handles |-> IF h \in late THEN Append(returns[h], "timed_out")
                                       ELSE returns[h]]
      /\ UNCHANGED <<opened, retained>>
  BY <1>1, <1>2, TimeOutStep
<1>4. UNCHANGED <<now, decision, retired, successor, released, finalized>>
  BY DEF TimeOut, actorVars
<1> QED
  BY <1>1, <1>3, <1>4 DEF Reached, Awaiting

(* The notes of the decisions timed out, and on which lists. *)
LEMMA TimeOutArrives ==
    ASSUME QueueInv, NoSuccessor, NEW handles, TimeOut(handles)
    PROVE  Arrived(handles \cap Pending, "timed_out")
<1>1. PICK late : late = handles \cap Pending
  OBVIOUS
<1>2. SuccessionInv /\ BooksInv /\ StatusInv
  BY DEF QueueInv
<1>3. late \in SUBSET Handles
  BY <1>1, <1>2, HandlesIssued DEF Pending, StatusInv
<1>4. /\ deliveries' = [a \in Actors |-> deliveries[a] \o Penalties(late, a)]
      /\ released' = released /\ decision' = decision
  <2>1. deliveries' = [a \in Actors |-> deliveries[a] \o Penalties(late, a)]
    BY <1>1, TimeOutBooks
  <2>2. released' = released /\ decision' = decision
    BY DEF TimeOut
  <2> QED
    BY <2>1, <2>2
<1>5. None \notin Actors
  BY QueueAssumption
<1>6. \A h \in late : /\ decision[h].actor \notin retired =>
                            Route(decision[h].actor, decision[h].channel)[1] = decision[h].actor
                      /\ decision[h].actor \in retired =>
                            Route(decision[h].actor, decision[h].channel)[1] = None
  <2> TAKE h \in late
  <2>1. PICK a \in Actors, c \in Channels : a = decision[h].actor /\ c = decision[h].channel
    BY <1>3, DecisionTyped
  <2> QED
    BY <1>2, <2>1, RouteDirect
<1>7. \A a \in Actors : Sent(late, a) = {h \in late : decision[h].actor = a /\ a \notin retired}
  BY <1>5, <1>6 DEF Sent
<1>8. ASSUME NEW a \in Actors
      PROVE  /\ DeliveredCount(a)' \in Nat /\ DeliveredCount(a) \in Nat
             /\ DeliveredCount(a) <= DeliveredCount(a)'
             /\ \A i \in released[a] + 1 .. DeliveredCount(a) : Item(a, i)' = Item(a, i)
             /\ \A i \in NewItems(a) : /\ Item(a, i)'.handle \in late
                                       /\ Item(a, i)'.status = "timed_out"
                                       /\ decision[Item(a, i)'.handle].actor = a /\ a \notin retired
             /\ a \notin retired => \A h \in late : decision[h].actor = a =>
                                       \E i \in NewItems(a) : Item(a, i)'.handle = h
  <2>1. PICK s \in Seq(Notes), r \in Nat, k \in Nat :
           s = deliveries[a] /\ r = released[a] /\ k = Len(s)
    <3>1. deliveries[a] \in Seq(Notes) /\ released[a] \in Nat
      BY <1>2 DEF BooksInv
    <3> QED
      BY <3>1
  <2>2. PICK t \in Seq(Notes), m \in Nat : t = Penalties(late, a) /\ m = Cardinality(Sent(late, a))
    BY <1>3, PenaltiesAre
  <2>3. /\ Len(t) = m /\ \A n \in 1 .. m : t[n].handle \in Sent(late, a)
        /\ \A h \in Sent(late, a) : \E n \in 1 .. m : t[n].handle = h
    <3>1. /\ Len(t) = m /\ \A n \in 1 .. m : t[n].handle \in Sent(late, a)
          /\ \A h \in Sent(late, a) : \E n \in 1 .. m : OnlyAt(late, a, h, n)
      BY <1>3, <2>2, PenaltiesAre
    <3>2. ASSUME NEW h \in Sent(late, a), NEW n \in 1 .. m, OnlyAt(late, a, h, n)
          PROVE  t[n].handle = h
      BY <2>2, <3>2 DEF OnlyAt
    <3> QED
      BY <3>1, <3>2
  <2>4. \A n \in 1 .. m : t[n].status = "timed_out"
    BY <2>2 DEF Penalties, Penalty
  <2>5. PICK u : u = s \o t
    OBVIOUS
  <2>6. /\ u \in Seq(Notes) /\ Len(u) = k + m
        /\ \A n \in 1 .. k + m : u[n] = IF n <= k THEN s[n] ELSE t[n - k]
    <3>1. Len(s) = k /\ Len(t) = m
      BY <2>1, <2>3
    <3>2. Joins(Notes, u, s, k, t, m)
      BY <3>1, <2>5, JoinIs
    <3> QED
      BY <3>2 DEF Joins
  <2>7. deliveries'[a] = u /\ released'[a] = r
    BY <1>4, <2>1, <2>2, <2>5
  <2>8. DeliveredCount(a) = r + k /\ DeliveredCount(a)' = r + (k + m)
    BY <2>1, <2>6, <2>7 DEF DeliveredCount
  <2>9. \A i \in r + 1 .. r + k : Item(a, i)' = Item(a, i)
    <3> TAKE i \in r + 1 .. r + k
    <3>1. PICK n \in 1 .. k : n = i - r
      OBVIOUS
    <3>2. u[n] = s[n]
      BY <2>6, <3>1
    <3>3. Item(a, i) = s[n] /\ Item(a, i)' = u[n]
      BY <2>1, <2>7, <3>1 DEF Item
    <3> QED
      BY <3>2, <3>3
  <2>10. NewItems(a) = r + k + 1 .. r + (k + m)
    BY <2>8 DEF NewItems
  <2>11. \A i \in r + k + 1 .. r + (k + m) : i - (r + k) \in 1 .. m /\ Item(a, i)' = t[i - (r + k)]
    <3> TAKE i \in r + k + 1 .. r + (k + m)
    <3>1. PICK n : n = i - r
      OBVIOUS
    <3>2. n \in 1 .. k + m /\ ~(n <= k) /\ n - k = i - (r + k) /\ i - (r + k) \in 1 .. m
      BY <3>1
    <3> QED
      BY <2>6, <2>7, <3>1, <3>2 DEF Item
  <2>12. \A i \in NewItems(a) : /\ Item(a, i)'.handle \in Sent(late, a)
                                /\ Item(a, i)'.status = "timed_out"
    BY <2>3, <2>4, <2>10, <2>11
  <2>13. ASSUME NEW h \in Sent(late, a) PROVE \E i \in NewItems(a) : Item(a, i)'.handle = h
    <3>1. PICK n \in 1 .. m : t[n].handle = h
      BY <2>3
    <3>2. PICK i : i = r + k + n
      OBVIOUS
    <3>3. i \in r + k + 1 .. r + (k + m) /\ i - (r + k) = n
      BY <3>2
    <3>4. Item(a, i)' = t[n]
      BY <2>11, <3>3
    <3> QED
      BY <2>10, <3>1, <3>3, <3>4
  <2>14. DeliveredCount(a)' \in Nat /\ DeliveredCount(a) \in Nat /\ DeliveredCount(a) <= DeliveredCount(a)'
    BY <2>8
  <2> QED
    BY <1>7, <2>1, <2>8, <2>9, <2>12, <2>13, <2>14
<1> QED
  BY <1>1, <1>8 DEF Arrived

-------------------------------------------------------------------------------
(* What is kept of the rounds.                                                 *)

RoundTypes ==
    /\ phase \in Phases /\ window \in Nat /\ router \in Actors /\ replaced \in Seq(Actors)
    /\ seen \in [Actors -> Nat] /\ finalized \in Seq(Handles) /\ NoSuccessor
    /\ origin \in [Handles -> Nat \cup {None}] /\ measured \in [Handles -> Nat \cup {None}]
    /\ raw \in [Handles -> BOOLEAN \cup {None}] /\ credit \in [Handles -> Int \cup {None}]
    /\ routed \in [Handles -> Seq(Trained)] /\ seated \in [Handles -> Seq(Trained)]
    /\ tally \in [Contracts -> Nat]

(* The loop reads for every actor that drew something and did not retire.      *)
ReadersInv ==
    /\ router \notin retired
    /\ \A n \in 1 .. Len(replaced) : replaced[n] \notin retired /\ replaced[n] # router
    /\ \A n, m \in 1 .. Len(replaced) : replaced[n] = replaced[m] => n = m
    /\ \A h \in Issued : decision[h].actor \in retired \/ Reads(decision[h].actor)
    /\ \A h \in Pending : decision[h].actor \notin retired

(* A reader has read no more than was delivered to it, and when the routers     *)
(* have learned, all of it.                                                    *)
SeenInv ==
    \A a \in Actors :
        /\ released[a] <= seen[a] /\ seen[a] <= DeliveredCount(a)
        /\ ~Reads(a) \/ phase \in AllRead => seen[a] = DeliveredCount(a)

(* A return that waits for its reader says what its decision's books say: its   *)
(* own outcome or the penalty before it, the price of a score, and the window   *)
(* that prices what was not scored.                                            *)
NoteTrue(e, h) ==
    /\ returns[h] # <<>>
    /\ e.status = "timed_out" => returns[h][1] = "timed_out"
    /\ e.status # "timed_out" => e.status = status[h] /\ e.status \in Submitted
    /\ e.status = "settled" => raw[h] # None /\ decision[h].contract # Noop
    /\ e.status # "settled" => origin[h] = measured[h] /\ phase # "close"
NotesInv ==
    \A a \in Actors : \A i \in Unread(a) :
        /\ decision[Item(a, i).handle].actor = a
        /\ NoteTrue(Item(a, i), Item(a, i).handle)

(* A frozen round is open under its key until a return of it is read, the first *)
(* one first, and then until its neutral credit is due.                        *)
Awaited(a, h) == \E i \in Unread(a) : Item(a, i).handle = h
Preceded(a, i) == \E m \in Unread(a) : m < i /\ Item(a, m).handle = Item(a, i).handle
KeysInv ==
    /\ rounds = keys \cup Credited /\ keys \cap Credited = {}
    /\ \A h \in rounds : Sampled(h) /\ h \in clocked /\ routed[h] = <<>>
    /\ \A h \in keys : status[h] # "pending" => Awaited(decision[h].actor, h)
    /\ \A a \in Actors : \A i \in Unread(a) :
          /\ Item(a, i).handle \in keys /\ Item(a, i).status # "timed_out"
          /\ Len(returns[Item(a, i).handle]) > 1
          => Preceded(a, i)
    /\ \A h \in Credited : decision[h].contract # Noop =>
          returns[h] # <<>> /\ returns[h][1] # "settled" /\ credit[h] <= now
    /\ phase \in AllRead => \A h \in rounds : now <= DeliveryDeadline(h)

(* The window that prices a decision is the one it was measured in, as long as  *)
(* a score or a credit may still ask for it.                                   *)
PriceInv ==
    \A h \in Handles :
        /\ origin[h] = None \/ origin[h] = measured[h]
        /\ Open(h) \/ h \in Credited => origin[h] = measured[h]
        /\ raw[h] # None => raw[h] = WasCharged(h) /\ ~Open(h)

(* Calls are open while the event is routed, and not measured yet.             *)
CallsInv ==
    /\ calls # {} => phase = "route"
    /\ \A h \in calls : /\ decision[h].contract # Noop
                        /\ measured[h] = None /\ h \notin seatRounds
                        /\ seated[h] = <<>> /\ routed[h] = <<>>

(* A seat's round closes before its router learns, on the outcome the router    *)
(* is about to learn.                                                          *)
SeatInv ==
    /\ \A h \in seatRounds : seated[h] = <<>> /\ routed[h] = <<>>
    /\ \A h \in seatRounds \cup pending \cup deferred : decision[h].contract # Noop
    /\ phase = "learn" => Closing = {}
    /\ \A h \in Handles : seated[h] # <<>> =>
          /\ decision[h].contract # Noop /\ status[h] # "pending"
          /\ h \in rounds => /\ phase = "learn" /\ seated[h] = <<SeatLearns(h)>>
                             /\ FirstOutcome(h) # "settled" => ~AwaitsClose(h)

(* Nothing was learned of a handle that was not issued.                        *)
LearnInv ==
    /\ LearnedAlike
    /\ \A h \in Handles : h >= opened => routed[h] = <<>> /\ seated[h] = <<>> /\ measured[h] = None

(* What was counted was settled, and is not on the list of outcomes any more.   *)
Counted1(k) == {h \in Issued : Tallied(h) /\ decision[h].contract = k /\ h \notin ToSet(finalized)}
TallyInv ==
    /\ \A h \in ToSet(finalized) : status[h] \notin Awaiting /\ h \notin evidence
    /\ phase = "release" => finalized = <<>>
    /\ evidence \subseteq Issued /\ \A h \in evidence : status[h] \notin Awaiting
    /\ \A k \in Contracts : tally[k] = Cardinality(Counted1(k))

(* Whatever is named anywhere is kept.                                         *)
NamedInv == calls \cup NamedByBooks \cup rounds \cup ToSet(finalized) \subseteq retained

RoundsInv == /\ RoundTypes /\ ReadersInv /\ SeenInv /\ NotesInv /\ KeysInv /\ PriceInv /\ CallsInv
             /\ SeatInv /\ LearnInv /\ TallyInv /\ NamedInv

-------------------------------------------------------------------------------
(* The invariant says what the runs check.                                     *)
LEMMA RoundsInvSays ==
    ASSUME RoundsInv PROVE LearnedAlike /\ ClosedByDeadline /\ ReleaseLosesNothing
<1>1. LearnedAlike
  BY DEF RoundsInv, LearnInv
<1>2. ClosedByDeadline
  BY DEF RoundsInv, KeysInv, ClosedByDeadline, AllRead
<1>3. ReleaseLosesNothing
  BY DEF RoundsInv, NamedInv, TallyInv, Counted1, ReleaseLosesNothing
<1> QED
  BY <1>1, <1>2, <1>3

(* A handle that is kept was issued. *)
LEMMA Kept ==
    ASSUME QueueInv
    PROVE  /\ retained \subseteq Issued /\ Issued \subseteq Handles /\ opened \notin Issued
           /\ opened \in Nat /\ Pending \subseteq retained /\ now \in Nat
           /\ \A h \in Handles : h \in Issued <=> ~(h >= opened)
<1>1. opened \in 0 .. MaxHandles /\ retained \subseteq 0 .. opened - 1 /\ MaxHandles \in Nat
  BY QueueAssumption DEF QueueInv, StatusInv
<1>2. now \in Nat
  BY DEF QueueInv, BooksInv, QueueTypeOK
<1> QED
  BY <1>1, <1>2 DEF Issued, Handles, Pending

(* A return that waits for a reader is one of a kept decision, which is owed    *)
(* its reading.                                                                *)
LEMMA UnreadKept ==
    ASSUME QueueInv, NEW a \in Actors,
           released[a] <= seen[a], seen[a] \in Nat, NEW j \in Unread(a)
    PROVE  /\ Item(a, j) \in Notes /\ Item(a, j).handle \in retained
           /\ Item(a, j).handle \in Handles /\ unread[Item(a, j).handle] # 0
<1>1. /\ deliveries[a] \in Seq(Notes) /\ released[a] \in Nat /\ Len(deliveries[a]) \in Nat
      /\ \A n \in 1 .. Len(deliveries[a]) : deliveries[a][n].handle \in retained
  BY DEF QueueInv, BooksInv, ReadInv
<1>2. PICK r \in Nat, n \in Nat : r = released[a] /\ n = Len(deliveries[a])
  BY <1>1
<1>3. PICK k : k = j - r
  OBVIOUS
<1>4. k \in 1 .. n /\ k \in Nat
  BY <1>2, <1>3 DEF Unread, DeliveredCount
<1>5. Item(a, j) = deliveries[a][k]
  BY <1>2, <1>3 DEF Item
<1>6. PICK h : h = deliveries[a][k].handle
  OBVIOUS
<1>7. deliveries[a][k] \in Notes /\ h \in retained /\ h \in Handles
  <2>1. deliveries[a][k] \in Notes
    BY <1>1, <1>2, <1>4
  <2>2. h \in Handles
    BY <1>6, <2>1 DEF Notes
  <2> QED
    BY <1>1, <1>2, <1>4, <1>6, <2>1, <2>2
<1>8. <<a, k>> \in Waiting(h)
  BY <1>2, <1>4, <1>6 DEF Waiting
<1>9. IsFiniteSet(Waiting(h)) /\ unread[h] = Cardinality(Waiting(h))
  BY <1>7 DEF QueueInv, ReadInv
<1>10. unread[h] # 0
  BY <1>8, <1>9, FS_EmptySet
<1> QED
  BY <1>5, <1>6, <1>7, <1>10

(* The first of some numbers. *)
LEMMA FirstOf ==
    ASSUME NEW S, S \in SUBSET Nat, S # {}
    PROVE  LET n == CHOOSE k \in S : \A m \in S : k <= m
           IN  n \in S /\ \A m \in S : n <= m
<1>1. \E n \in S : \A m \in S : n <= m
  BY LeastElement
<1> QED
  BY <1>1

(* The steps that drop a replaced router drop one of them.                     *)
LEMMA FirstDraining ==
    ASSUME RoundTypes, Draining # {}
    PROVE  LET n == CHOOSE k \in Draining : \A m \in Draining : k <= m
           IN  n \in Draining /\ n \in 1 .. Len(replaced) /\ replaced[n] \in Actors
<1>1. replaced \in Seq(Actors) /\ Len(replaced) \in Nat
  BY DEF RoundTypes
<1>2. Draining \in SUBSET Nat /\ Draining \subseteq 1 .. Len(replaced)
  BY <1>1 DEF Draining
<1>3. PICK n : n = CHOOSE k \in Draining : \A m \in Draining : k <= m
  OBVIOUS
<1>4. n \in Draining
  BY <1>2, <1>3, FirstOf
<1>5. n \in 1 .. Len(replaced) /\ replaced[n] \in Actors
  BY <1>1, <1>2, <1>4
<1> QED
  BY <1>3, <1>4, <1>5

(* Every step of the rounds calls the queue's methods, or leaves it alone.     *)
LEMMA LoopCalls ==
    ASSUME QueueInv, RoundTypes, NamedInv, LoopStep
    PROVE  [Calls]_qvars
<1> USE RoundsAssumption
<1>1. Submitted \subseteq {"settled", "censored", "inapplicable"}
  BY QueueAssumption
<1>2. ASSUME NEW h \in Handles, NEW o, o \in {"settled", "censored", "inapplicable"}, Settle(h, o)
      PROVE  Calls
  BY <1>2 DEF Calls
<1>3. ASSUME NEW h \in Handles, SettlePriced(h) PROVE [Calls]_qvars
  BY <1>2, <1>3 DEF SettlePriced
<1>4. ASSUME NEW h \in Handles, \/ SettleDeferred(h) \/ Abstain(h) \/ RefuseJudging(h)
                                \/ \E declares, declines \in BOOLEAN : ReturnCall(h, declares, declines)
                                \/ \E scored \in BOOLEAN : SettleEvaluation(h, scored)
                                \/ CensorStale(h)
      PROVE  [Calls]_qvars
  <2>1. CASE SettleDeferred(h)
    BY <1>3, <2>1 DEF SettleDeferred
  <2>2. CASE Abstain(h)
    BY <1>2, <2>2 DEF Abstain
  <2>3. CASE RefuseJudging(h)
    BY <1>2, <2>3 DEF RefuseJudging
  <2>4. ASSUME NEW declares, NEW declines, ReturnCall(h, declares, declines) PROVE Calls
    BY <2>4 DEF ReturnCall, Calls
  <2>5. ASSUME NEW scored, SettleEvaluation(h, scored) PROVE [Calls]_qvars
    BY <1>2, <1>3, <2>5 DEF SettleEvaluation
  <2>6. CASE CensorStale(h)
    BY <1>2, <2>6 DEF CensorStale
  <2> QED
    BY <1>4, <2>1, <2>2, <2>3, <2>4, <2>5, <2>6
<1>5. ASSUME \/ PruneEvidence \/ EndRoute \/ EndSettle \/ CloseSeatRounds \/ CreditDue
             \/ (\E delay \in 0 .. Span : ReadNext(delay)) \/ EndEvent
      PROVE  UNCHANGED qvars
  BY <1>5 DEF PruneEvidence, EndRoute, EndSettle, CloseSeatRounds, CreditDue, ReadNext, EndEvent
<1>6. CASE ExpireDue
  <2>1. Due \in SUBSET Handles
    BY Kept DEF Due
  <2>2. UNCHANGED qvars \/ TimeOut(Due)
    BY <1>6 DEF ExpireDue
  <2> QED
    BY <2>1, <2>2 DEF Calls
<1>7. CASE DrainRouter
  <2>1. PICK n : n = CHOOSE k \in Draining : \A m \in Draining : k <= m
    OBVIOUS
  <2>2. RetireActor(replaced[n]) /\ Draining # {}
    BY <1>7, <2>1 DEF DrainRouter
  <2>3. replaced[n] \in Actors
    BY <2>1, <2>2, FirstDraining
  <2> QED
    BY <2>2, <2>3 DEF Calls
<1>8. CASE DrainTally
  BY <1>8 DEF DrainTally, Calls
<1>9. CASE EndBoundary
  <2>1. now - Horizon \in Int
    BY Kept DEF RoundsAssumption
  <2>2. PICK before \in Int : before = now - Horizon
    BY <2>1
  <2>3. CompactReleased(before) \/ UNCHANGED qvars
    BY <1>9, <2>2 DEF EndBoundary
  <2> QED
    BY <2>3 DEF Calls
<1>10. ASSUME NEW a \in Actors, ReadDeliveries(a) PROVE Calls
  <2>1. seen[a] \in Nat
    BY DEF RoundTypes
  <2>2. ReleaseDelivered(a, seen[a])
    BY <1>10 DEF ReadDeliveries
  <2> QED
    BY <2>1, <2>2 DEF Calls
<1> QED
  BY <1>4, <1>5, <1>6, <1>7, <1>8, <1>9, <1>10 DEF LoopStep

(* Every step of the loop is a call of the queue, or leaves it alone. *)
LEMMA RoundsCalls ==
    ASSUME QueueInv, RoundTypes, NamedInv, [RoundsNext]_rvars
    PROVE  [Calls]_qvars
<1>1. CASE UNCHANGED rvars
  BY <1>1 DEF rvars
<1>2. CASE LoopStep
  BY <1>2, LoopCalls
<1>3. ASSUME NEW ticked \in BOOLEAN, BeginEvent(ticked) PROVE [Calls]_qvars
  BY <1>3 DEF BeginEvent, Calls
<1>4. ASSUME NEW k \in Contracts, Draw(k) PROVE Calls
  <2>1. PICK c, d : c = (CHOOSE x \in Channels : TRUE) /\ d = now + Span
    OBVIOUS
  <2>2. c \in Channels /\ d \in Nat /\ router \in Actors
    BY <2>1, Kept, QueueAssumption, RoundsAssumption DEF RoundTypes
  <2>3. OpenDecision(router, k, c, d, None)
    BY <1>4, <2>1 DEF Draw
  <2> QED
    BY <2>2, <2>3 DEF Calls
<1>5. ASSUME NEW h \in Handles, RequestSelf(h) PROVE Calls
  <2>1. PICK a \in Actors, k \in Contracts, c \in Channels, d \in Nat :
           a = decision[h].actor /\ k = decision[h].contract /\ c = decision[h].channel
           /\ d = decision[h].deadline
    BY DecisionTyped
  <2>2. OpenDecision(a, k, c, d, h)
    BY <1>5, <2>1 DEF RequestSelf
  <2> QED
    BY <2>2 DEF Calls
<1>6. ASSUME NEW h \in Handles, CallExpired(h) PROVE Calls
  <2>1. TimeOut({h}) /\ {h} \in SUBSET Handles
    BY <1>6 DEF CallExpired
  <2> QED
    BY <2>1 DEF Calls
<1>7. ASSUME NEW h \in Handles, Verdict(h) PROVE [Calls]_qvars
  <2>1. Settle(h, "settled") \/ UNCHANGED qvars
    BY <1>7 DEF Verdict, SettlePriced
  <2>2. "settled" \in Submitted
    BY RoundsAssumption
  <2> QED
    BY <2>1, <2>2 DEF Calls
<1>8. ASSUME NEW h \in Handles, ReleaseSettled(h) PROVE Calls
  BY <1>8 DEF ReleaseSettled, Calls
<1>9. ASSUME NEW b \in Actors, ReplaceRouter(b) PROVE [Calls]_qvars
  <2>1. RetireActor(router) \/ UNCHANGED qvars
    BY <1>9 DEF ReplaceRouter
  <2>2. router \in Actors
    BY DEF RoundTypes
  <2> QED
    BY <2>1, <2>2 DEF Calls
<1> QED
  BY <1>1, <1>2, <1>3, <1>4, <1>5, <1>6, <1>7, <1>8, <1>9 DEF RoundsNext

(* The steps that answer decisions: H get the outcome o, or a penalty.         *)
AnswerStep(H, o) ==
    /\ Answers(H, o) /\ o \in Submitted \cup {"timed_out"}
    /\ raw' = [h \in Handles |-> IF h \in H /\ o = "settled" THEN Charged(h) ELSE raw[h]]
    /\ o = "settled" => H \subseteq pending \cup deferred
    /\ pending' \subseteq pending /\ deferred' \subseteq pending \cup deferred
    /\ phase \in {"close", "route", "settle", "expire"}
    /\ phase = "close" => o = "settled"
    /\ phase' = phase \/ (phase = "expire" /\ phase' = "deliver")
    /\ UNCHANGED <<window, origin, measured, calls, routerVars, learnVars, tallyVars>>

(* A step that leaves the queue alone answers no decision. *)
LEMMA AnswersNone ==
    ASSUME QueueInv, RoundTypes, UNCHANGED qvars, NEW o PROVE Answers({}, o)
<1>1. /\ UNCHANGED <<now, opened, retained, decision, retired, successor, released, status,
                     returns, finalized, deliveries>>
  BY DEF qvars
<1>2. finalized \in Seq(Handles)
  BY DEF RoundTypes
<1>3. Reached({}, o)
  BY <1>1, <1>2 DEF Reached
<1>4. ASSUME NEW a \in Actors
      PROVE  /\ DeliveredCount(a)' \in Nat /\ DeliveredCount(a)' = DeliveredCount(a)
             /\ NewItems(a) = {} /\ \A i : Item(a, i)' = Item(a, i)
  <2>1. released[a] \in Nat /\ Len(deliveries[a]) \in Nat
    BY DEF QueueInv, BooksInv
  <2> QED
    BY <1>1, <2>1 DEF DeliveredCount, NewItems, Item
<1>5. Arrived({}, o)
  BY <1>4 DEF Arrived
<1> QED
  BY <1>3, <1>5 DEF Answers

(* A settlement answers its decision. *)
LEMMA SettleAnswers ==
    ASSUME QueueInv, RoundTypes, NEW h \in Handles, NEW o \in Submitted, Settle(h, o)
    PROVE  Answers({h}, o)
BY SettleReaches, SettleArrives DEF Answers, RoundTypes

(* A deadline answers the pending decisions it finds. *)
LEMMA TimeOutAnswers ==
    ASSUME QueueInv, RoundTypes, NEW handles, TimeOut(handles)
    PROVE  Answers(handles \cap Pending, "timed_out")
BY TimeOutReaches, TimeOutArrives DEF Answers, RoundTypes

(* What settling at a price comes to. *)
LEMMA PricedAnswers ==
    ASSUME QueueInv, RoundTypes, NEW h \in Handles, h \in pending \cup deferred, SettlePriced(h)
    PROVE  \E H \in SUBSET {h} :
              /\ Answers(H, "settled")
              /\ raw' = [g \in Handles |-> IF g \in H THEN Charged(g) ELSE raw[g]]
              /\ deferred' \subseteq pending \cup deferred
<1>1. raw = [g \in Handles |-> raw[g]]
  BY DEF RoundTypes
<1>2. CASE AwaitsClose(h)
  <2>1. Answers({}, "settled")
    BY <1>2, AnswersNone DEF SettlePriced
  <2>2. raw' = [g \in Handles |-> IF g \in {} THEN Charged(g) ELSE raw[g]]
    BY <1>1, <1>2 DEF SettlePriced
  <2>3. deferred' \subseteq pending \cup deferred
    BY <1>2 DEF SettlePriced
  <2> QED
    BY <2>1, <2>2, <2>3
<1>3. CASE ~AwaitsClose(h)
  <2>1. Answers({h}, "settled")
    BY <1>3, SettleAnswers, RoundsAssumption DEF SettlePriced
  <2>2. raw' = [g \in Handles |-> IF g \in {h} THEN Charged(g) ELSE raw[g]]
    BY <1>1, <1>3 DEF SettlePriced
  <2>3. deferred' \subseteq pending \cup deferred
    BY <1>3 DEF SettlePriced
  <2> QED
    BY <2>1, <2>2, <2>3
<1> QED
  BY <1>2, <1>3

(* The steps of the loop that answer decisions are answering steps. *)
LEMMA AnswerSteps ==
    ASSUME QueueInv, RoundTypes, NEW h \in Handles,
           \/ SettleDeferred(h) \/ Abstain(h) \/ CallExpired(h) \/ RefuseJudging(h) \/ Verdict(h)
           \/ (\E scored \in BOOLEAN : SettleEvaluation(h, scored)) \/ CensorStale(h) \/ ExpireDue
    PROVE  \E H \in SUBSET Handles : \E o : AnswerStep(H, o)
<1> DEFINE Rest == UNCHANGED <<window, origin, measured, calls, routerVars, learnVars, tallyVars>>
<1>1. raw = [g \in Handles |-> raw[g]]
  BY DEF RoundTypes
<1>2. {"settled", "censored", "inapplicable"} \subseteq Submitted
  BY RoundsAssumption
<1>3. \A o \in {"censored", "inapplicable", "timed_out"} : o # "settled"
  OBVIOUS
<1>4. ASSUME NEW H \in SUBSET Handles, NEW o \in {"censored", "inapplicable", "timed_out"},
             Answers(H, o), raw' = raw, pending' \subseteq pending, deferred' = deferred,
             phase \in {"route", "settle", "expire"},
             phase' = phase \/ (phase = "expire" /\ phase' = "deliver"), Rest
      PROVE  AnswerStep(H, o)
  <2>1. raw' = [g \in Handles |-> IF g \in H /\ o = "settled" THEN Charged(g) ELSE raw[g]]
    BY <1>1, <1>3, <1>4
  <2>2. o \in Submitted \cup {"timed_out"} /\ phase # "close" /\ o # "settled"
    BY <1>2, <1>3, <1>4
  <2> QED
    BY <1>4, <2>1, <2>2 DEF AnswerStep
<1>5. ASSUME NEW H \in SUBSET Handles, Answers(H, "settled"),
             raw' = [g \in Handles |-> IF g \in H THEN Charged(g) ELSE raw[g]],
             H \subseteq pending \cup deferred, pending' \subseteq pending,
             deferred' \subseteq pending \cup deferred, phase \in {"close", "settle"},
             phase' = phase, Rest
      PROVE  AnswerStep(H, "settled")
  BY <1>2, <1>5 DEF AnswerStep
<1>6. ASSUME NEW o, UNCHANGED qvars PROVE Answers({}, o)
  BY <1>6, AnswersNone
<1>7. CASE SettleDeferred(h)
  <2>1. h \in deferred /\ phase = "close" /\ phase' = phase /\ pending' = pending /\ Rest
    BY <1>7 DEF SettleDeferred
  <2>2. CASE Open(h)
    <3>1. SettlePriced(h)
      BY <1>7, <2>2 DEF SettleDeferred
    <3>2. PICK H \in SUBSET {h} :
              /\ Answers(H, "settled")
              /\ raw' = [g \in Handles |-> IF g \in H THEN Charged(g) ELSE raw[g]]
              /\ deferred' \subseteq pending \cup deferred
      BY <2>1, <3>1, PricedAnswers
    <3>3. AnswerStep(H, "settled")
      BY <1>5, <2>1, <3>2
    <3> QED
      BY <3>3
  <2>3. CASE ~Open(h)
    <3>1. UNCHANGED <<qvars, raw>> /\ deferred' = deferred \ {h}
      BY <1>7, <2>3 DEF SettleDeferred
    <3>2. Answers({}, "settled")
      BY <1>6, <3>1
    <3>3. raw' = [g \in Handles |-> IF g \in {} THEN Charged(g) ELSE raw[g]]
      BY <1>1, <3>1
    <3>4. AnswerStep({}, "settled")
      BY <1>5, <2>1, <3>1, <3>2, <3>3
    <3> QED
      BY <3>4
  <2> QED
    BY <2>2, <2>3
<1>8. CASE Abstain(h)
  <2>1. Answers({h}, "inapplicable")
    BY <1>2, <1>8, SettleAnswers DEF Abstain
  <2>2. AnswerStep({h}, "inapplicable")
    BY <1>4, <1>8, <2>1 DEF Abstain, windowVars, scoreVars
  <2> QED
    BY <2>2
<1>9. CASE CallExpired(h)
  <2>1. Answers({h} \cap Pending, "timed_out")
    BY <1>9, TimeOutAnswers DEF CallExpired
  <2>2. AnswerStep({h} \cap Pending, "timed_out")
    BY <1>4, <1>9, <2>1 DEF CallExpired, Routing, windowVars, scoreVars
  <2> QED
    BY <2>2
<1>10. CASE RefuseJudging(h)
  <2>1. Answers({h}, "inapplicable")
    BY <1>2, <1>10, SettleAnswers DEF RefuseJudging
  <2>2. AnswerStep({h}, "inapplicable")
    BY <1>4, <1>10, <2>1 DEF RefuseJudging, Leaves, windowVars
  <2> QED
    BY <2>2
<1>11. CASE Verdict(h)
  <2>1. /\ SettlePriced(h) /\ h \in pending /\ phase = "settle" /\ phase' = phase
        /\ pending' \subseteq pending /\ Rest
    BY <1>11 DEF Verdict, Leaves
  <2>2. PICK H \in SUBSET {h} :
            /\ Answers(H, "settled")
            /\ raw' = [g \in Handles |-> IF g \in H THEN Charged(g) ELSE raw[g]]
            /\ deferred' \subseteq pending \cup deferred
    BY <2>1, PricedAnswers
  <2>3. AnswerStep(H, "settled")
    BY <1>5, <2>1, <2>2
  <2> QED
    BY <2>3
<1>12. ASSUME NEW scored \in BOOLEAN, SettleEvaluation(h, scored)
       PROVE  \E H \in SUBSET Handles : \E o : AnswerStep(H, o)
  <2>1. h \in pending /\ phase = "settle" /\ phase' = phase /\ pending' \subseteq pending /\ Rest
    BY <1>12 DEF SettleEvaluation, Leaves
  <2>2. CASE ~Open(h)
    <3>1. UNCHANGED <<qvars, raw, deferred>>
      BY <1>12, <2>2 DEF SettleEvaluation
    <3>2. AnswerStep({}, "censored")
      BY <1>4, <1>6, <2>1, <3>1
    <3> QED
      BY <3>2
  <2>3. CASE Open(h) /\ scored
    <3>1. SettlePriced(h)
      BY <1>12, <2>3 DEF SettleEvaluation
    <3>2. PICK H \in SUBSET {h} :
              /\ Answers(H, "settled")
              /\ raw' = [g \in Handles |-> IF g \in H THEN Charged(g) ELSE raw[g]]
              /\ deferred' \subseteq pending \cup deferred
      BY <2>1, <3>1, PricedAnswers
    <3>3. AnswerStep(H, "settled")
      BY <1>5, <2>1, <3>2
    <3> QED
      BY <3>3
  <2>4. CASE Open(h) /\ ~scored
    <3>1. Settle(h, "censored") /\ UNCHANGED <<raw, deferred>>
      BY <1>12, <2>4 DEF SettleEvaluation
    <3>2. Answers({h}, "censored")
      BY <1>2, <3>1, SettleAnswers
    <3>3. AnswerStep({h}, "censored")
      BY <1>4, <2>1, <3>1, <3>2
    <3> QED
      BY <3>3
  <2> QED
    BY <2>2, <2>3, <2>4
<1>13. CASE CensorStale(h)
  <2>1. /\ phase = "settle" /\ phase' = phase /\ pending' \subseteq pending /\ deferred' = deferred
        /\ raw' = raw /\ Rest
    BY <1>13 DEF CensorStale, Leaves
  <2>2. Settle(h, "inapplicable") \/ Settle(h, "censored") \/ UNCHANGED qvars
    BY <1>13 DEF CensorStale
  <2>3. ASSUME NEW o \in {"inapplicable", "censored"}, Settle(h, o) PROVE AnswerStep({h}, o)
    BY <1>2, <1>4, <2>1, <2>3, SettleAnswers
  <2>4. ASSUME UNCHANGED qvars PROVE AnswerStep({}, "censored")
    BY <1>4, <1>6, <2>1, <2>4
  <2> QED
    BY <2>2, <2>3, <2>4
<1>14. CASE ExpireDue
  <2>1. /\ phase = "expire" /\ phase' = "deliver" /\ pending' = pending /\ deferred' = deferred
        /\ raw' = raw /\ Rest
    BY <1>14 DEF ExpireDue, windowVars, scoreVars
  <2>2. CASE UNCHANGED qvars
    <3>1. AnswerStep({}, "timed_out")
      BY <1>4, <1>6, <2>1, <2>2
    <3> QED
      BY <3>1
  <2>3. CASE TimeOut(Due)
    <3>1. Answers(Due \cap Pending, "timed_out") /\ Due \cap Pending \in SUBSET Handles
      BY <2>3, TimeOutAnswers, Kept
    <3>2. AnswerStep(Due \cap Pending, "timed_out")
      BY <1>4, <2>1, <3>1
    <3> QED
      BY <3>1, <3>2
  <2> QED
    BY <1>14, <2>2, <2>3 DEF ExpireDue
<1> QED
  BY <1>7, <1>8, <1>9, <1>10, <1>11, <1>12, <1>13, <1>14

(* What an answering step says of one decision.                                *)
LEMMA AnswerOne ==
    ASSUME QueueInv, RoundsInv, NEW H \in SUBSET Handles, NEW o, AnswerStep(H, o), NEW h \in H
    PROVE  /\ h \in retained /\ h \in Handles /\ h \in Issued /\ Open(h)
           /\ returns'[h] = Append(returns[h], status'[h])
           /\ status[h] = "pending" => returns[h] = <<>> /\ decision[h].actor \notin retired
           /\ status[h] # "pending" => status[h] = "timed_out" /\ returns[h] = <<"timed_out">>
           /\ o = "timed_out" => status'[h] = "timed_out" /\ status[h] = "pending"
           /\ o # "timed_out" => status'[h] \notin Awaiting
           /\ decision[h].actor \notin retired => status'[h] = o
<1>1. /\ h \in retained /\ status[h] \in Awaiting /\ (o = "timed_out" => status[h] = "pending")
      /\ status'[h] = IF decision[h].actor \in retired /\ o # "timed_out" THEN "historical" ELSE o
      /\ returns'[h] = Append(returns[h], status'[h])
  BY DEF AnswerStep, Answers, Reached
<1>2. o \in Submitted \cup {"timed_out"}
  BY DEF AnswerStep
<1>3. h \in Issued
  BY <1>1, Kept
<1>4. /\ status[h] = "pending" => returns[h] = <<>>
      /\ status[h] = "timed_out" => returns[h] = <<"timed_out">>
  BY <1>1 DEF QueueInv, ReturnsInv
<1>5. status[h] = "pending" => decision[h].actor \notin retired
  BY <1>1 DEF RoundsInv, ReadersInv, Pending
<1>6. o # "timed_out" => status'[h] \notin Awaiting
  BY <1>1, <1>2, QueueAssumption DEF Awaiting
<1> QED
  BY <1>1, <1>2, <1>3, <1>4, <1>5, <1>6 DEF Awaiting, Open

(* An answering step leaves the other decisions alone. *)
LEMMA AnswerOther ==
    ASSUME QueueInv, RoundsInv, NEW H \in SUBSET Handles, NEW o, AnswerStep(H, o),
           NEW h \in Handles, h \notin H
    PROVE  status'[h] = status[h] /\ returns'[h] = returns[h] /\ raw'[h] = raw[h]
BY DEF AnswerStep, Answers, Reached

(* It keeps the types, *)
LEMMA AnswerTypes ==
    ASSUME QueueInv, RoundsInv, NEW H \in SUBSET Handles, NEW o, AnswerStep(H, o)
    PROVE  RoundTypes'
<1>1. raw' \in [Handles -> BOOLEAN \cup {None}]
  <2>1. \A h \in Handles : Charged(h) \in BOOLEAN
    BY DEF Charged
  <2> QED
    BY <2>1 DEF AnswerStep, RoundsInv, RoundTypes
<1>2. finalized' \in Seq(Handles) /\ successor' = successor
  BY DEF AnswerStep, Answers, Reached
<1>3. phase' \in Phases
  <2>1. phase \in {"close", "route", "settle", "expire"} /\ (phase' = phase \/ phase' = "deliver")
    BY DEF AnswerStep
  <2> QED
    BY <2>1 DEF Phases
<1> QED
  BY <1>1, <1>2, <1>3 DEF AnswerStep, RoundsInv, RoundTypes, NoSuccessor, routerVars, learnVars,
                          tallyVars

(* the routers the decisions are read by, *)
LEMMA AnswerReaders ==
    ASSUME QueueInv, RoundsInv, NEW H \in SUBSET Handles, NEW o, AnswerStep(H, o)
    PROVE  ReadersInv'
<1>1. UNCHANGED <<opened, retained, decision, retired, router, replaced>>
  BY DEF AnswerStep, Answers, Reached, routerVars
<1>2. ASSUME NEW h \in Pending' PROVE h \in Pending
  <2>1. h \in retained /\ status'[h] = "pending" /\ h \in Handles
    BY <1>1, Kept DEF Pending
  <2>2. h \notin H
    BY <2>1, AnswerOne, QueueAssumption DEF AnswerStep, Awaiting
  <2> QED
    BY <2>1, <2>2, AnswerOther DEF Pending
<1>3. ReadersInv
  BY DEF RoundsInv
<1> QED
  BY <1>1, <1>2, <1>3 DEF ReadersInv, Reads, Issued

(* The returns a step sends reach actors the loop reads for.                   *)
LEMMA NewItemsRead ==
    ASSUME QueueInv, RoundsInv, NEW H \in SUBSET Handles, NEW o, AnswerStep(H, o), NEW a \in Actors,
           NEW i \in NewItems(a)
    PROVE  /\ Item(a, i)'.handle \in H /\ Item(a, i)'.status = o /\ a \notin retired
           /\ decision[Item(a, i)'.handle].actor = a /\ Reads(a)
<1>1. /\ Item(a, i)'.handle \in H /\ Item(a, i)'.status = o /\ a \notin retired
      /\ decision[Item(a, i)'.handle].actor = a
  BY DEF AnswerStep, Answers, Arrived
<1>2. PICK h \in H : h = Item(a, i)'.handle
  BY <1>1
<1>3. h \in Issued
  BY AnswerOne
<1>4. decision[h].actor \in retired \/ Reads(decision[h].actor)
  BY <1>3 DEF RoundsInv, ReadersInv
<1> QED
  BY <1>1, <1>2, <1>4

(* and what was read of their lists. *)
LEMMA AnswerSeen ==
    ASSUME QueueInv, RoundsInv, NEW H \in SUBSET Handles, NEW o, AnswerStep(H, o)
    PROVE  SeenInv'
<1>1. UNCHANGED <<released, seen, router, replaced>> /\ phase' \notin AllRead
  <2>1. phase \in {"close", "route", "settle", "expire"} /\ (phase' = phase \/ phase' = "deliver")
    BY DEF AnswerStep
  <2>2. phase' \notin AllRead
    BY <2>1 DEF AllRead
  <2> QED
    BY <2>2 DEF AnswerStep, Answers, Reached, routerVars, learnVars
<1>2. ASSUME NEW a \in Actors
      PROVE  /\ released[a]' <= seen[a]' /\ seen[a]' <= DeliveredCount(a)'
             /\ ~Reads(a)' \/ phase' \in AllRead => seen[a]' = DeliveredCount(a)'
  <2>1. /\ DeliveredCount(a)' \in Nat /\ DeliveredCount(a) \in Nat
        /\ DeliveredCount(a) <= DeliveredCount(a)'
    BY DEF AnswerStep, Answers, Arrived
  <2>2. /\ released[a] <= seen[a] /\ seen[a] <= DeliveredCount(a)
        /\ ~Reads(a) => seen[a] = DeliveredCount(a)
    BY DEF RoundsInv, SeenInv
  <2>3. seen[a] \in Nat
    BY DEF RoundsInv, RoundTypes
  <2>4. Reads(a)' <=> Reads(a)
    BY <1>1 DEF Reads
  <2>5. ~Reads(a) => NewItems(a) = {}
    BY NewItemsRead
  <2>6. ~Reads(a) => DeliveredCount(a)' = DeliveredCount(a)
    <3>1. PICK m \in Nat, n \in Nat : m = DeliveredCount(a) /\ n = DeliveredCount(a)'
      BY <2>1
    <3>2. m <= n /\ NewItems(a) = m + 1 .. n
      BY <2>1, <3>1 DEF NewItems
    <3>3. NewItems(a) = {} => m = n
      BY <3>2
    <3> QED
      BY <2>5, <3>1, <3>3
  <2> QED
    BY <1>1, <2>1, <2>2, <2>3, <2>4, <2>6
<1> QED
  BY <1>2 DEF SeenInv

(* What waits for a reader after the step: what waited, and what was sent.     *)
LEMMA UnreadAfter ==
    ASSUME QueueInv, RoundsInv, NEW H \in SUBSET Handles, NEW o, AnswerStep(H, o), NEW a \in Actors
    PROVE  /\ Unread(a)' = Unread(a) \cup NewItems(a)
           /\ \A i \in Unread(a) : Item(a, i)' = Item(a, i)
           /\ \A i \in Unread(a) : \A j \in NewItems(a) : i < j
<1>1. PICK r \in Nat, s \in Nat, m \in Nat, n \in Nat :
         r = released[a] /\ s = seen[a] /\ m = DeliveredCount(a) /\ n = DeliveredCount(a)'
  <2>1. released[a] \in Nat /\ seen[a] \in Nat
    BY DEF QueueInv, BooksInv, RoundsInv, RoundTypes
  <2>2. DeliveredCount(a)' \in Nat /\ DeliveredCount(a) \in Nat
    BY DEF AnswerStep, Answers, Arrived
  <2> QED
    BY <2>1, <2>2
<1>2. r <= s /\ s <= m /\ m <= n
  <2>1. released[a] <= seen[a] /\ seen[a] <= DeliveredCount(a)
    BY DEF RoundsInv, SeenInv
  <2>2. DeliveredCount(a) <= DeliveredCount(a)'
    BY DEF AnswerStep, Answers, Arrived
  <2> QED
    BY <1>1, <2>1, <2>2
<1>3. seen'[a] = s
  BY <1>1 DEF AnswerStep, learnVars
<1>4. Unread(a) = s + 1 .. m /\ Unread(a)' = s + 1 .. n /\ NewItems(a) = m + 1 .. n
  BY <1>1, <1>3 DEF Unread, NewItems
<1>5. \A i \in r + 1 .. m : Item(a, i)' = Item(a, i)
  BY <1>1 DEF AnswerStep, Answers, Arrived
<1>6. s + 1 .. m \subseteq r + 1 .. m /\ s + 1 .. n = (s + 1 .. m) \cup (m + 1 .. n)
  BY <1>2
<1> QED
  BY <1>4, <1>5, <1>6

(* What an actor has read, been delivered and had released. *)
LEMMA ReadBounds ==
    ASSUME QueueInv, RoundsInv, NEW a \in Actors
    PROVE  /\ released[a] <= seen[a] /\ seen[a] \in Nat /\ released[a] \in Nat
           /\ seen[a] <= DeliveredCount(a) /\ DeliveredCount(a) \in Nat
           /\ \A j \in Unread(a) : j \in Nat /\ Item(a, j).handle \in retained
                                   /\ Item(a, j).handle \in Handles /\ unread[Item(a, j).handle] # 0
<1>1. released[a] <= seen[a] /\ seen[a] <= DeliveredCount(a) /\ seen[a] \in Nat
  BY DEF RoundsInv, SeenInv, RoundTypes
<1>2. released[a] \in Nat /\ Len(deliveries[a]) \in Nat
  BY DEF QueueInv, BooksInv
<1>3. DeliveredCount(a) \in Nat
  BY <1>2 DEF DeliveredCount
<1>4. \A j \in Unread(a) : j \in Nat
  BY <1>1, <1>3 DEF Unread
<1> QED
  BY <1>1, <1>2, <1>3, <1>4, UnreadKept

(* A decision that is answered again was answered late, and said so.           *)
LEMMA NoteOfAnswered ==
    ASSUME QueueInv, RoundsInv, NEW H \in SUBSET Handles, NEW o, AnswerStep(H, o),
           NEW a \in Actors, NEW i \in Unread(a), Item(a, i).handle \in H
    PROVE  Item(a, i).status = "timed_out"
<1>1. PICK h \in H : h = Item(a, i).handle
  OBVIOUS
<1>2. PICK e : e = Item(a, i)
  OBVIOUS
<1>3. NoteTrue(e, h)
  BY <1>1, <1>2 DEF RoundsInv, NotesInv
<1>4. status[h] \in Awaiting
  BY AnswerOne DEF Open
<1> QED
  BY <1>1, <1>2, <1>3, <1>4, QueueAssumption DEF NoteTrue, Awaiting

(* An answering step leaves notes that are true. *)
LEMMA AnswerNotes ==
    ASSUME QueueInv, RoundsInv, NEW H \in SUBSET Handles, NEW o, AnswerStep(H, o)
    PROVE  NotesInv'
<1>1. UNCHANGED <<decision, origin, measured>>
  BY DEF AnswerStep, Answers, Reached
<1>2. phase = "close" => o = "settled"
  BY DEF AnswerStep
<1>3. phase' = phase \/ phase' = "deliver"
  BY DEF AnswerStep
<1>4. o \in Submitted \cup {"timed_out"}
  BY DEF AnswerStep
<1>5. ASSUME NEW a \in Actors, NEW i \in Unread(a)
      PROVE  /\ decision[Item(a, i).handle]'.actor = a
             /\ NoteTrue(Item(a, i), Item(a, i).handle)'
  <2>0. PICK e : e = Item(a, i)
    OBVIOUS
  <2>1. PICK h \in Handles : e = Item(a, i) /\ h = e.handle
    BY <2>0, ReadBounds
  <2>2. Item(a, i)' = e
    BY <2>1, UnreadAfter
  <2>3. decision[h].actor = a /\ NoteTrue(e, h)
    BY <2>1 DEF RoundsInv, NotesInv
  <2>4. e.status # "settled" => origin[h]' = measured[h]' /\ phase' # "close"
    BY <1>1, <1>3, <2>3 DEF NoteTrue
  <2>5. CASE h \in H
    <3>1. e.status = "timed_out"
      BY <2>1, <2>5, NoteOfAnswered
    <3>2. returns'[h] = Append(returns[h], status'[h]) /\ returns[h] \in {<<>>, <<"timed_out">>}
      BY <2>5, AnswerOne
    <3>3. returns[h] # <<>> /\ returns[h][1] = "timed_out"
      BY <2>3, <3>1 DEF NoteTrue
    <3>4. returns'[h] = <<"timed_out", status'[h]>>
      BY <3>2, <3>3, AppendWritten
    <3>5. returns'[h] # <<>> /\ returns'[h][1] = "timed_out"
      BY <3>4
    <3> QED
      BY <1>1, <2>1, <2>2, <2>3, <2>4, <3>1, <3>5 DEF NoteTrue
  <2>6. CASE h \notin H
    <3>1. status'[h] = status[h] /\ returns'[h] = returns[h] /\ raw'[h] = raw[h]
      BY <2>6, AnswerOther
    <3> QED
      BY <1>1, <2>1, <2>2, <2>3, <2>4, <3>1 DEF NoteTrue
  <2> QED
    BY <2>5, <2>6
<1>6. ASSUME NEW a \in Actors, NEW i \in NewItems(a)
      PROVE  /\ decision[Item(a, i).handle]'.actor = a
             /\ NoteTrue(Item(a, i), Item(a, i).handle)'
  <2>0. PICK e : e = Item(a, i)'
    OBVIOUS
  <2>1. PICK h \in H : e = Item(a, i)' /\ h = e.handle
    BY <2>0, NewItemsRead
  <2>2. e.status = o /\ decision[h].actor = a /\ a \notin retired
    BY <2>1, NewItemsRead
  <2>3. status'[h] = o /\ returns'[h] = Append(returns[h], o) /\ Open(h) /\ h \in Handles
    <3>1. /\ returns'[h] = Append(returns[h], status'[h]) /\ Open(h) /\ h \in Handles
          /\ decision[h].actor \notin retired => status'[h] = o
      BY AnswerOne
    <3> QED
      BY <2>2, <3>1
  <2>4. returns[h] \in {<<>>, <<"timed_out">>} /\ (o = "timed_out" => returns[h] = <<>>)
    BY AnswerOne
  <2>5. returns'[h] # <<>> /\ (o = "timed_out" => returns'[h][1] = "timed_out")
    <3>1. CASE returns[h] = <<>>
      <4>1. returns'[h] = <<o>>
        BY <2>3, <3>1, AppendWritten
      <4> QED
        BY <4>1
    <3>2. CASE returns[h] = <<"timed_out">>
      <4>1. returns'[h] = <<"timed_out", o>>
        BY <2>3, <3>2, AppendWritten
      <4> QED
        BY <4>1
    <3> QED
      BY <2>4, <3>1, <3>2
  <2>6. o = "settled" => raw'[h] # None /\ decision[h].contract # Noop
    <3> SUFFICES ASSUME o = "settled" PROVE raw'[h] # None /\ decision[h].contract # Noop
      OBVIOUS
    <3>1. raw'[h] = Charged(h)
      BY <2>3 DEF AnswerStep
    <3>2. Charged(h) \in BOOLEAN /\ None \notin BOOLEAN
      BY RoundsAssumption DEF Charged
    <3>3. h \in pending \cup deferred
      BY DEF AnswerStep
    <3>4. decision[h].contract # Noop
      BY <3>3 DEF RoundsInv, SeatInv
    <3> QED
      BY <3>1, <3>2, <3>4
  <2>7. o # "settled" => origin[h]' = measured[h]' /\ phase' # "close"
    <3>1. origin[h] = measured[h]
      BY <2>3 DEF RoundsInv, PriceInv
    <3> QED
      BY <1>1, <1>2, <1>3, <3>1
  <2> QED
    BY <1>1, <1>4, <2>1, <2>2, <2>3, <2>5, <2>6, <2>7 DEF NoteTrue
<1> QED
  BY <1>5, <1>6, UnreadAfter DEF NotesInv

(* It keeps the price of what can still be charged. *)
LEMMA AnswerPrice ==
    ASSUME QueueInv, RoundsInv, NEW H \in SUBSET Handles, NEW o, AnswerStep(H, o)
    PROVE  PriceInv'
<1>1. UNCHANGED <<decision, origin, measured, credit>>
  BY DEF AnswerStep, Answers, Reached, learnVars
<1>2. ASSUME NEW h \in Handles
      PROVE  /\ origin'[h] = None \/ origin'[h] = measured'[h]
             /\ Open(h)' \/ h \in Credited' => origin'[h] = measured'[h]
             /\ raw'[h] # None => raw'[h] = WasCharged(h)' /\ ~Open(h)'
  <2>1. /\ origin[h] = None \/ origin[h] = measured[h]
        /\ Open(h) \/ h \in Credited => origin[h] = measured[h]
        /\ raw[h] # None => raw[h] = WasCharged(h) /\ ~Open(h)
    BY DEF RoundsInv, PriceInv
  <2>2. WasCharged(h)' = WasCharged(h) /\ (h \in Credited' <=> h \in Credited)
    BY <1>1 DEF WasCharged, Credited
  <2>3. CASE h \in H
    <3>1. Open(h) /\ (o # "timed_out" => ~Open(h)')
      BY <2>3, AnswerOne DEF Open
    <3>2. raw'[h] = IF o = "settled" THEN Charged(h) ELSE raw[h]
      BY <2>3 DEF AnswerStep
    <3>3. Charged(h) = WasCharged(h)
      BY <2>1, <3>1 DEF Charged, WasCharged
    <3>4. raw[h] = None
      BY <2>1, <3>1
    <3>5. raw'[h] # None => raw'[h] = WasCharged(h)' /\ ~Open(h)'
      BY <2>2, <3>1, <3>2, <3>3, <3>4
    <3> QED
      BY <1>1, <2>1, <3>1, <3>5
  <2>4. CASE h \notin H
    <3>1. status'[h] = status[h] /\ raw'[h] = raw[h]
      BY <2>4, AnswerOther
    <3>2. Open(h)' <=> Open(h)
      BY <3>1 DEF Open
    <3> QED
      BY <1>1, <2>1, <2>2, <3>1, <3>2
  <2> QED
    BY <2>3, <2>4
<1> QED
  BY <1>2 DEF PriceInv

(* No decision is answered where the routers have read everything. *)
LEMMA AnswerPhase ==
    ASSUME NEW H, NEW o, AnswerStep(H, o)
    PROVE  phase' \notin AllRead \cup {"learn", "close", "release"} \/ (phase' = "close" /\ phase = "close")
<1>1. phase \in {"close", "route", "settle", "expire"} /\ (phase' = phase \/ phase' = "deliver")
  BY DEF AnswerStep
<1> QED
  BY <1>1 DEF AllRead

(* It leaves a note for every round it answers. *)
LEMMA AnswerKeys ==
    ASSUME QueueInv, RoundsInv, NEW H \in SUBSET Handles, NEW o, AnswerStep(H, o)
    PROVE  KeysInv'
<1>1. UNCHANGED <<decision, now, keys, rounds, credit, clocked, routed>>
  BY DEF AnswerStep, Answers, Reached, learnVars
<1>2. KeysInv /\ NamedInv
  BY DEF RoundsInv
<1>3. rounds' = keys' \cup Credited' /\ keys' \cap Credited' = {}
  BY <1>1, <1>2 DEF KeysInv, Credited
<1>4. \A h \in rounds' : Sampled(h)' /\ h \in clocked' /\ routed'[h] = <<>>
  BY <1>1, <1>2 DEF KeysInv, Sampled
<1>5. ASSUME NEW h \in keys, status'[h] # "pending" PROVE Awaited(decision[h].actor, h)'
  <2>1. h \in retained /\ h \in Handles
    BY <1>2, Kept DEF KeysInv, NamedInv
  <2>2. PICK a \in Actors : a = decision[h].actor
    BY <2>1, DecisionTyped
  <2>3. CASE status[h] # "pending"
    <3>1. PICK i \in Unread(a) : Item(a, i).handle = h
      BY <1>2, <2>2, <2>3 DEF KeysInv, Awaited
    <3>2. i \in Unread(a)' /\ Item(a, i)' = Item(a, i)
      BY UnreadAfter
    <3> QED
      BY <1>1, <2>2, <3>1, <3>2 DEF Awaited
  <2>4. CASE status[h] = "pending"
    <3>1. h \in H
      BY <1>5, <2>1, <2>4, AnswerOther
    <3>2. a \notin retired
      BY <2>2, <2>4, <3>1, AnswerOne
    <3>3. PICK i \in NewItems(a) : Item(a, i)'.handle = h
      BY <2>2, <3>1, <3>2 DEF AnswerStep, Answers, Arrived
    <3>4. i \in Unread(a)'
      BY UnreadAfter
    <3> QED
      BY <1>1, <2>2, <3>3, <3>4 DEF Awaited
  <2> QED
    BY <2>3, <2>4
<1>6. ASSUME NEW a \in Actors, NEW i \in Unread(a)', Item(a, i)'.handle \in keys,
             Item(a, i)'.status # "timed_out", Len(returns'[Item(a, i)'.handle]) > 1
      PROVE  Preceded(a, i)'
  <2>1. CASE i \in Unread(a)
    <3>1. Item(a, i)' = Item(a, i)
      BY <2>1, UnreadAfter
    <3>2. Item(a, i).handle \notin H /\ Item(a, i).handle \in Handles
      BY <1>6, <2>1, <3>1, NoteOfAnswered, ReadBounds
    <3>3. returns'[Item(a, i).handle] = returns[Item(a, i).handle]
      BY <3>2, AnswerOther
    <3>4. Preceded(a, i)
      BY <1>2, <1>6, <2>1, <3>1, <3>3 DEF KeysInv
    <3>5. PICK m \in Unread(a) : m < i /\ Item(a, m).handle = Item(a, i).handle
      BY <3>4 DEF Preceded
    <3>6. m \in Unread(a)' /\ Item(a, m)' = Item(a, m)
      BY UnreadAfter
    <3> QED
      BY <3>1, <3>5, <3>6 DEF Preceded
  <2>2. CASE i \in NewItems(a)
    <3>0. PICK h : h = Item(a, i)'.handle
      OBVIOUS
    <3>1. h \in H /\ decision[h].actor = a /\ o # "timed_out"
      BY <1>6, <2>2, <3>0, NewItemsRead
    <3>2. status[h] # "pending"
      <4>1. status[h] = "pending" => returns[h] = <<>> /\ returns'[h] = Append(returns[h], status'[h])
        BY <3>1, AnswerOne
      <4>2. ASSUME status[h] = "pending" PROVE returns'[h] = <<status'[h]>>
        BY <4>1, <4>2, AppendWritten
      <4>3. ASSUME status[h] = "pending" PROVE Len(returns'[h]) = 1
        BY <4>2, <4>3
      <4>4. Len(returns'[h]) > 1
        BY <1>6, <3>0
      <4>5. ~(1 > 1)
        OBVIOUS
      <4> QED
        BY <4>3, <4>4, <4>5
    <3>3. PICK m \in Unread(a) : Item(a, m).handle = h
      BY <1>2, <1>6, <3>0, <3>1, <3>2 DEF KeysInv, Awaited
    <3>4. m \in Unread(a)' /\ Item(a, m)' = Item(a, m) /\ m < i
      BY <2>2, UnreadAfter
    <3> QED
      BY <3>0, <3>3, <3>4 DEF Preceded
  <2> QED
    BY <2>1, <2>2, UnreadAfter
<1>7. ASSUME NEW h \in Credited', decision[h].contract # Noop
      PROVE  returns'[h] # <<>> /\ returns'[h][1] # "settled" /\ credit'[h] <= now'
  <2>1. h \in Credited /\ h \in Handles
    BY <1>1 DEF Credited
  <2>2. returns[h] # <<>> /\ returns[h][1] # "settled" /\ credit[h] <= now
    BY <1>2, <1>7, <2>1 DEF KeysInv
  <2>3. returns'[h] # <<>> /\ returns'[h][1] # "settled"
    <3>1. CASE h \notin H
      BY <2>1, <2>2, <3>1, AnswerOther
    <3>2. CASE h \in H
      <4>1. returns'[h] = Append(returns[h], status'[h]) /\ returns[h] = <<"timed_out">>
        BY <2>2, <3>2, AnswerOne
      <4>2. returns'[h] = <<"timed_out", status'[h]>>
        BY <4>1, AppendWritten
      <4> QED
        BY <4>2
    <3> QED
      BY <3>1, <3>2
  <2> QED
    BY <1>1, <2>2, <2>3
<1>8. phase' \notin AllRead
  BY AnswerPhase DEF AllRead
<1> QED
  BY <1>1, <1>3, <1>4, <1>5, <1>6, <1>7, <1>8 DEF KeysInv

(* It keeps the rounds of the seats, *)
LEMMA AnswerSeat ==
    ASSUME QueueInv, RoundsInv, NEW H \in SUBSET Handles, NEW o, AnswerStep(H, o)
    PROVE  SeatInv'
<1>1. /\ UNCHANGED <<decision, rounds, seatRounds, routed, seated>>
      /\ pending' \subseteq pending /\ deferred' \subseteq pending \cup deferred
  BY DEF AnswerStep, Answers, Reached, learnVars
<1>2. SeatInv
  BY DEF RoundsInv
<1>3. phase' # "learn" /\ phase # "learn"
  <2>1. phase \in {"close", "route", "settle", "expire"} /\ (phase' = phase \/ phase' = "deliver")
    BY DEF AnswerStep
  <2> QED
    BY <2>1
<1>4. ASSUME NEW h \in Handles, seated[h] # <<>>
      PROVE  decision[h].contract # Noop /\ status'[h] # "pending" /\ h \notin rounds
  <2>1. decision[h].contract # Noop /\ status[h] # "pending" /\ h \notin rounds
    BY <1>2, <1>3, <1>4 DEF SeatInv
  <2>2. status'[h] # "pending"
    <3>1. CASE h \notin H
      BY <2>1, <3>1, AnswerOther
    <3>2. CASE h \in H
      BY <2>1, <3>2, AnswerOne DEF Awaiting
    <3> QED
      BY <3>1, <3>2
  <2> QED
    BY <2>1, <2>2
<1> QED
  BY <1>1, <1>2, <1>3, <1>4 DEF SeatInv

(* the tally, *)
LEMMA AnswerTally ==
    ASSUME QueueInv, RoundsInv, NEW H \in SUBSET Handles, NEW o, AnswerStep(H, o)
    PROVE  TallyInv'
<1>1. /\ UNCHANGED <<decision, opened, tally, evidence>>
      /\ ToSet(finalized') = ToSet(finalized) \cup (IF o = "timed_out" THEN {} ELSE H)
  BY DEF AnswerStep, Answers, Reached, tallyVars
<1>2. TallyInv /\ NamedInv
  BY DEF RoundsInv
<1>3. ASSUME NEW h \in H
      PROVE  /\ h \notin evidence /\ h \notin ToSet(finalized) /\ ~Tallied(h)
             /\ o = "timed_out" => ~Tallied(h)'
             /\ o # "timed_out" => status'[h] \notin Awaiting
  <2>1. o # "timed_out" => status'[h] \notin Awaiting
    BY AnswerOne
  <2>2. status[h] \in Awaiting /\ (o = "timed_out" => status'[h] = "timed_out")
    BY AnswerOne DEF Open
  <2> QED
    BY <1>2, <2>1, <2>2 DEF TallyInv, Tallied, Awaiting
<1>4. \A h \in Handles : h \notin H => status'[h] = status[h] /\ (Tallied(h)' <=> Tallied(h))
  BY <1>1, AnswerOther DEF Tallied, IsEvaluation
<1>5. Issued' = Issued /\ Issued \subseteq Handles
  BY <1>1, Kept DEF Issued
<1>6. ToSet(finalized) \subseteq Handles
  BY <1>2, <1>5, Kept DEF NamedInv
<1>7. \A h \in ToSet(finalized') : status'[h] \notin Awaiting /\ h \notin evidence
  BY <1>1, <1>2, <1>3, <1>4, <1>6 DEF TallyInv
<1>8. \A h \in evidence : status'[h] \notin Awaiting
  BY <1>2, <1>3, <1>4, <1>5 DEF TallyInv
<1>9. ASSUME NEW k \in Contracts PROVE Counted1(k)' = Counted1(k)
  <2>1. \A h \in Issued : (Tallied(h)' /\ h \notin ToSet(finalized')) <=> (Tallied(h) /\ h \notin ToSet(finalized))
    BY <1>1, <1>3, <1>4, <1>5
  <2> QED
    BY <1>1, <1>5, <2>1 DEF Counted1
<1>10. phase' # "release"
  BY AnswerPhase
<1> QED
  BY <1>1, <1>2, <1>5, <1>7, <1>8, <1>9, <1>10 DEF TallyInv

(* and the rest. *)
LEMMA AnswerRest ==
    ASSUME QueueInv, RoundsInv, NEW H \in SUBSET Handles, NEW o, AnswerStep(H, o)
    PROVE  CallsInv' /\ LearnInv' /\ NamedInv'
<1>1. /\ UNCHANGED <<decision, opened, retained, calls, origin, measured, seatRounds, routed, seated,
                     rounds, credit>>
      /\ pending' \subseteq pending /\ deferred' \subseteq pending \cup deferred
  BY DEF AnswerStep, Answers, Reached, learnVars
<1>2. phase = "route" => phase' = "route"
  BY DEF AnswerStep
<1>3. CallsInv'
  BY <1>1, <1>2 DEF RoundsInv, CallsInv
<1>4. LearnInv'
  BY <1>1 DEF RoundsInv, LearnInv, LearnedAlike, WasCharged
<1>5. ToSet(finalized') \subseteq retained
  <2>1. ToSet(finalized') \subseteq ToSet(finalized) \cup H
    BY DEF AnswerStep, Answers, Reached
  <2>2. H \subseteq retained
    BY AnswerOne
  <2> QED
    BY <2>1, <2>2 DEF RoundsInv, NamedInv
<1>6. Scored' \subseteq retained
  <2>1. \A h \in Handles : h \notin H => raw'[h] = raw[h]
    BY AnswerOther
  <2>2. H \subseteq retained
    BY AnswerOne
  <2>3. Scored \subseteq retained
    BY DEF RoundsInv, NamedInv, NamedByBooks
  <2> QED
    BY <2>1, <2>2, <2>3 DEF Scored
<1>7. Credited' = Credited /\ Priced' = Priced
  BY <1>1 DEF Credited, Priced
<1>8. NamedInv'
  BY <1>1, <1>5, <1>6, <1>7 DEF RoundsInv, NamedInv, NamedByBooks
<1> QED
  BY <1>3, <1>4, <1>8

(* An answering step keeps the invariant. *)
LEMMA AnswerKeeps ==
    ASSUME QueueInv, RoundsInv, NEW H \in SUBSET Handles, NEW o, AnswerStep(H, o)
    PROVE  RoundsInv'
BY AnswerTypes, AnswerReaders, AnswerSeen, AnswerNotes, AnswerKeys, AnswerPrice, AnswerSeat,
   AnswerTally, AnswerRest DEF RoundsInv

(* The steps that leave the books of the decisions alone: an event begins, the  *)
(* loop goes on to its next phase, a router is replaced or forgotten.          *)
BooksQuiet ==
    UNCHANGED <<opened, retained, decision, status, returns, deliveries, released, successor,
                finalized, origin, measured, raw, calls, pending, deferred, keys, rounds, credit,
                seatRounds, seen, clocked, routed, seated, tally, evidence>>

(* Lists nothing is added to and nothing is read of stay as they are. *)
LEMMA QuietUnread ==
    ASSUME UNCHANGED <<deliveries, released, seen>>, NEW a
    PROVE  /\ Unread(a)' = Unread(a) /\ DeliveredCount(a)' = DeliveredCount(a)
           /\ \A i : Item(a, i)' = Item(a, i)
BY DEF Unread, Item, DeliveredCount

(* When the routers have learned, nothing waits for a reader.                  *)
LEMMA NothingUnread ==
    ASSUME QueueInv, RoundsInv, phase \in AllRead, NEW a \in Actors PROVE Unread(a) = {}
<1>1. seen[a] = DeliveredCount(a) /\ seen[a] \in Nat
  BY DEF RoundsInv, SeenInv, RoundTypes
<1> QED
  BY <1>1 DEF Unread

(* The notes stay true while the queue and the prices they need stay. *)
LEMMA QuietNotes ==
    ASSUME QueueInv, RoundsInv, UNCHANGED <<deliveries, released, seen, decision, returns, status>>,
           \A g \in Handles : unread[g] # 0 => raw'[g] = raw[g],
           \A g \in Handles : phase # "close" /\ origin[g] = measured[g] => origin'[g] = measured'[g],
           phase \in AllRead \/ (phase' = "close" => phase = "close")
    PROVE  NotesInv'
<1>1. ASSUME NEW a \in Actors, NEW i \in Unread(a)'
      PROVE  decision'[Item(a, i).handle'].actor = a /\ NoteTrue(Item(a, i), Item(a, i).handle)'
  <2>1. i \in Unread(a) /\ Item(a, i)' = Item(a, i)
    BY <1>1, QuietUnread
  <2>2. PICK e : e = Item(a, i)
    OBVIOUS
  <2>3. PICK h \in Handles : h = e.handle /\ unread[h] # 0
    BY <2>1, <2>2, ReadBounds
  <2>4. decision[h].actor = a /\ NoteTrue(e, h)
    BY <2>1, <2>2, <2>3 DEF RoundsInv, NotesInv
  <2>5. phase' = "close" => phase = "close"
    BY <2>1, NothingUnread
  <2>6. raw'[h] = raw[h]
    BY <2>3
  <2>7. e.status # "settled" => origin'[h] = measured'[h] /\ phase' # "close"
    BY <2>3, <2>4, <2>5 DEF NoteTrue
  <2>8. NoteTrue(e, h)'
    BY <2>4, <2>6, <2>7 DEF NoteTrue
  <2> QED
    BY <2>1, <2>2, <2>3, <2>4, <2>8 DEF NoteTrue
<1> QED
  BY <1>1 DEF NotesInv

(* The rounds stay owed their notes while the lists stay. *)
LEMMA QuietKeys ==
    ASSUME QueueInv, RoundsInv,
           UNCHANGED <<decision, status, returns, deliveries, released, keys, rounds, credit, seen,
                       routed>>,
           rounds \subseteq clocked', now' \in Nat, now <= now',
           phase' \in AllRead => phase \in AllRead /\ now' = now
    PROVE  KeysInv'
<1>1. KeysInv /\ NamedInv
  BY DEF RoundsInv
<1>2. UNCHANGED <<decision, status, returns, deliveries, released, keys, rounds, credit, seen,
                  routed>>
  OBVIOUS
<1>3. \A a : Unread(a)' = Unread(a) /\ \A i : Item(a, i)' = Item(a, i)
  BY <1>2, QuietUnread
<1>4. \A a, h : Awaited(a, h)' <=> Awaited(a, h)
  BY <1>3 DEF Awaited
<1>5. \A a, i : Preceded(a, i)' <=> Preceded(a, i)
  BY <1>3 DEF Preceded
<1>6. rounds' = keys' \cup Credited' /\ keys' \cap Credited' = {}
  BY <1>1, <1>2 DEF KeysInv, Credited
<1>7. \A h \in rounds' : Sampled(h)' /\ h \in clocked' /\ routed'[h] = <<>>
  BY <1>1, <1>2 DEF KeysInv, Sampled
<1>8. \A h \in keys' : status'[h] # "pending" => Awaited(decision[h].actor, h)'
  BY <1>1, <1>2, <1>4 DEF KeysInv
<1>9. ASSUME NEW a \in Actors, NEW i \in Unread(a)', Item(a, i)'.handle \in keys',
             Item(a, i)'.status # "timed_out", Len(returns'[Item(a, i)'.handle]) > 1
      PROVE  Preceded(a, i)'
  BY <1>1, <1>2, <1>3, <1>5, <1>9 DEF KeysInv
<1>10. ASSUME NEW h \in Credited', decision'[h].contract # Noop
       PROVE  returns'[h] # <<>> /\ returns'[h][1] # "settled" /\ credit'[h] <= now'
  <2>1. h \in Credited /\ h \in Handles /\ credit[h] \in Int
    BY <1>2 DEF Credited, RoundsInv, RoundTypes
  <2>2. returns[h] # <<>> /\ returns[h][1] # "settled" /\ credit[h] <= now
    BY <1>1, <1>2, <1>10, <2>1 DEF KeysInv
  <2> QED
    BY <1>2, <2>1, <2>2, Kept
<1>11. phase' \in AllRead => \A h \in rounds' : now' <= DeliveryDeadline(h)'
  BY <1>1, <1>2 DEF KeysInv, DeliveryDeadline, OpenedAt
<1> QED
  BY <1>2, <1>6, <1>7, <1>8, <1>9, <1>10, <1>11 DEF KeysInv

(* Both, of a step that leaves the books alone. *)
LEMMA QuietReads ==
    ASSUME QueueInv, RoundsInv, BooksQuiet, now' \in Nat, now <= now',
           phase \in AllRead \/ (phase' = "close" => phase = "close"),
           phase' \in AllRead => phase \in AllRead /\ now' = now
    PROVE  NotesInv' /\ KeysInv'
<1>1. rounds \subseteq clocked'
  BY DEF BooksQuiet, RoundsInv, KeysInv
<1>2. UNCHANGED <<decision, status, returns, deliveries, released, keys, rounds, credit, seen, routed,
                  raw, origin, measured>>
  BY DEF BooksQuiet
<1> QED
  BY <1>1, <1>2, QuietNotes, QuietKeys

(* And the rest of the invariant. *)
LEMMA QuietRest ==
    ASSUME RoundsInv, BooksQuiet, phase # "learn", phase' # "learn",
           phase' = "release" => phase = "release"
    PROVE  PriceInv' /\ SeatInv' /\ LearnInv' /\ TallyInv' /\ NamedInv'
<1>1. PriceInv'
  BY DEF RoundsInv, BooksQuiet, PriceInv, Open, Credited, WasCharged
<1>2. SeatInv'
  BY DEF RoundsInv, BooksQuiet, SeatInv
<1>3. LearnInv'
  BY DEF RoundsInv, BooksQuiet, LearnInv, LearnedAlike, WasCharged
<1>4. \A k : Counted1(k)' = Counted1(k)
  BY DEF BooksQuiet, Counted1, Issued, Tallied, IsEvaluation
<1>5. TallyInv'
  BY <1>4 DEF RoundsInv, BooksQuiet, TallyInv, Issued
<1>6. NamedInv'
  BY DEF RoundsInv, BooksQuiet, NamedInv, NamedByBooks, Credited, Priced, Scored
<1> QED
  BY <1>1, <1>2, <1>3, <1>5, <1>6

(* The loop goes on to its next phase.                                         *)
LEMMA MoveKeeps ==
    ASSUME QueueInv, RoundsInv, EndRoute \/ EndSettle \/ EndEvent PROVE RoundsInv'
<1>1. BooksQuiet /\ UNCHANGED <<now, retired, window, router, replaced>>
  BY DEF EndRoute, EndSettle, EndEvent, BooksQuiet, qvars, windowVars, scoreVars, routerVars,
         learnVars, tallyVars
<1>2. /\ phase' \in {"settle", "expire", "boundary", "idle"} /\ phase # "learn" /\ calls' = {}
      /\ phase' \in AllRead => phase \in AllRead
  <2>1. \/ phase = "route" /\ calls = {} /\ phase' = "settle"
        \/ phase = "settle" /\ phase' = "expire"
        \/ phase = "drain" /\ phase' \in {"boundary", "idle"}
    BY DEF EndRoute, EndSettle, EndEvent, Routing
  <2>2. phase # "route" => calls = {}
    BY DEF RoundsInv, CallsInv
  <2>3. calls' = calls
    BY <1>1 DEF BooksQuiet
  <2> QED
    BY <2>1, <2>2, <2>3 DEF AllRead
<1>3. RoundTypes'
  BY <1>1, <1>2 DEF RoundsInv, RoundTypes, BooksQuiet, NoSuccessor, Phases
<1>4. ReadersInv'
  BY <1>1 DEF RoundsInv, ReadersInv, BooksQuiet, Reads, Issued, Pending
<1>5. SeenInv'
  BY <1>1, <1>2 DEF RoundsInv, SeenInv, BooksQuiet, Reads, DeliveredCount
<1>6. NotesInv' /\ KeysInv'
  BY <1>1, <1>2, QuietReads, Kept
<1>7. PriceInv' /\ SeatInv' /\ LearnInv' /\ TallyInv' /\ NamedInv'
  BY <1>1, <1>2, QuietRest
<1>8. CallsInv'
  BY <1>2 DEF CallsInv
<1> QED
  BY <1>3, <1>4, <1>5, <1>6, <1>7, <1>8 DEF RoundsInv

(* An event begins: nothing waits for a reader.                                *)
LEMMA BeginKeeps ==
    ASSUME QueueInv, RoundsInv, NEW ticked, BeginEvent(ticked) PROVE RoundsInv'
<1>1. BooksQuiet /\ UNCHANGED <<retired, router, replaced>>
  BY DEF BeginEvent, Tick, BooksQuiet, qvars, windowVars, scoreVars, routerVars, learnVars,
         tallyVars, evidenceVars, actorVars, deliveryVars
<1>2. now' \in Nat /\ now <= now'
  <2>1. now' = now \/ now' = now + 1
    BY DEF BeginEvent, Tick, qvars
  <2> QED
    BY <2>1, Kept
<1>3. /\ phase = "idle" /\ phase' \in {"close", "route"} /\ window' \in Nat
  BY DEF BeginEvent, RoundsInv, RoundTypes
<1>4. phase \in AllRead /\ phase' \notin AllRead
  BY <1>3 DEF AllRead
<1>5. calls' = {}
  BY <1>1, <1>3 DEF RoundsInv, CallsInv, BooksQuiet
<1>6. RoundTypes'
  BY <1>1, <1>3 DEF RoundsInv, RoundTypes, BooksQuiet, NoSuccessor, Phases
<1>7. ReadersInv'
  BY <1>1 DEF RoundsInv, ReadersInv, BooksQuiet, Reads, Issued, Pending
<1>8. SeenInv'
  BY <1>1, <1>4 DEF RoundsInv, SeenInv, BooksQuiet, Reads, DeliveredCount
<1>9. NotesInv' /\ KeysInv'
  BY <1>1, <1>2, <1>4, QuietReads
<1>10. PriceInv' /\ SeatInv' /\ LearnInv' /\ TallyInv' /\ NamedInv'
  BY <1>1, <1>3, QuietRest
<1>11. CallsInv'
  BY <1>5 DEF CallsInv
<1> QED
  BY <1>6, <1>7, <1>8, <1>9, <1>10, <1>11 DEF RoundsInv

(* What is left of a sequence without one of its elements. *)
LEMMA RemoveAtIs ==
    ASSUME NEW S, NEW s \in Seq(S), NEW n \in 1 .. Len(s)
    PROVE  /\ RemoveAt(s, n) \in Seq(S) /\ Len(RemoveAt(s, n)) = Len(s) - 1
           /\ \A i \in 1 .. Len(s) - 1 : RemoveAt(s, n)[i] = IF i < n THEN s[i] ELSE s[i + 1]
<1>1. PICK m \in Nat : m = Len(s)
  OBVIOUS
<1>2. n \in Nat /\ 1 <= n /\ n <= m
  BY <1>1
<1>3. PICK front, back : front = SubSeq(s, 1, n - 1) /\ back = SubSeq(s, n + 1, m)
  OBVIOUS
<1>4. \A i \in 1 .. m : s[i] \in S
  BY <1>1
<1>5. front \in Seq(S) /\ Len(front) = n - 1 /\ \A i \in 1 .. n - 1 : front[i] = s[i]
  <2>1. \A i \in 1 .. n - 1 : s[i] \in S
    BY <1>2, <1>4
  <2>2. n - 1 \in Int /\ 1 \in Int
    BY <1>2
  <2>3. /\ front \in Seq(S) /\ Len(front) = IF 1 <= n - 1 THEN (n - 1) - 1 + 1 ELSE 0
        /\ \A i \in 1 .. (n - 1) - 1 + 1 : front[i] = s[1 + i - 1]
    BY <1>3, <2>1, <2>2, SubSeqProperties
  <2>4. (n - 1) - 1 + 1 = n - 1 /\ \A i \in Int : 1 + i - 1 = i
    BY <1>2
  <2> QED
    BY <1>2, <2>3, <2>4
<1>6. back \in Seq(S) /\ Len(back) = m - n /\ \A i \in 1 .. m - n : back[i] = s[i + n]
  <2>1. \A i \in n + 1 .. m : s[i] \in S
    BY <1>2, <1>4
  <2>2. n + 1 \in Int /\ m \in Int
    BY <1>2
  <2>3. /\ back \in Seq(S) /\ Len(back) = IF n + 1 <= m THEN m - (n + 1) + 1 ELSE 0
        /\ \A i \in 1 .. m - (n + 1) + 1 : back[i] = s[(n + 1) + i - 1]
    BY <1>3, <2>1, <2>2, SubSeqProperties
  <2>4. m - (n + 1) + 1 = m - n /\ \A i \in Int : (n + 1) + i - 1 = i + n
    BY <1>2
  <2> QED
    BY <1>2, <2>3, <2>4
<1>7. PICK k \in Nat, j \in Nat : k = n - 1 /\ j = m - n
  BY <1>2
<1>8. PICK t : t = front \o back
  OBVIOUS
<1>9. /\ t \in Seq(S) /\ Len(t) = k + j
      /\ \A i \in 1 .. k + j : t[i] = IF i <= k THEN front[i] ELSE back[i - k]
  <2>1. Len(front) = k /\ Len(back) = j /\ front \in Seq(S) /\ back \in Seq(S)
    BY <1>5, <1>6, <1>7
  <2>2. Joins(S, t, front, k, back, j)
    BY <1>8, <2>1, JoinIs
  <2> QED
    BY <2>2 DEF Joins
<1>10. RemoveAt(s, n) = t
  BY <1>1, <1>3, <1>8 DEF RemoveAt
<1>11. k + j = m - 1
  BY <1>2, <1>7
<1>12. ASSUME NEW i \in 1 .. m - 1 PROVE t[i] = IF i < n THEN s[i] ELSE s[i + 1]
  <2>1. CASE i < n
    <3>1. i \in 1 .. k + j /\ i <= k /\ i \in 1 .. n - 1
      BY <1>2, <1>7, <2>1
    <3> QED
      BY <1>5, <1>9, <2>1, <3>1
  <2>2. CASE ~(i < n)
    <3>1. i \in 1 .. k + j /\ ~(i <= k)
      BY <1>2, <1>7, <2>2
    <3>2. i - k \in 1 .. m - n /\ (i - k) + n = i + 1
      BY <1>2, <1>7, <2>2
    <3>3. t[i] = back[i - k] /\ back[i - k] = s[(i - k) + n]
      BY <1>6, <1>9, <3>1, <3>2
    <3> QED
      BY <2>2, <3>2, <3>3
  <2> QED
    BY <2>1, <2>2
<1> QED
  BY <1>1, <1>9, <1>10, <1>11, <1>12

(* A fresh router draws; the one it replaces stays a reader, or retires with     *)
(* nothing left to read and nothing outstanding.                               *)
LEMMA ReplaceKeeps ==
    ASSUME QueueInv, RoundsInv, NEW b \in Actors, ReplaceRouter(b) PROVE RoundsInv'
<1>1. /\ BooksQuiet /\ UNCHANGED <<now, phase, window>> /\ router' = b /\ b \notin retired /\ b # router
      /\ \A n \in 1 .. Len(replaced) : replaced[n] # b
      /\ phase = "route" /\ calls = {}
  BY DEF ReplaceRouter, Routing, RetireActor, BooksQuiet, qvars, windowVars, scoreVars, learnVars,
         tallyVars, evidenceVars, deliveryVars, releaseVars
<1>2. \/ replaced' = Append(replaced, router) /\ retired' = retired
      \/ /\ replaced' = replaced /\ retired' = retired \cup {router} /\ ~Outstanding(router)
         /\ ~(DeliveredCount(router) > seen[router])
  BY DEF ReplaceRouter, RetireActor, qvars
<1>3. calls' = {} /\ phase \notin AllRead
  BY <1>1 DEF BooksQuiet, AllRead
<1>4. PICK m \in Nat : m = Len(replaced)
  BY DEF RoundsInv, RoundTypes
<1>5. router \in Actors /\ replaced \in Seq(Actors)
  BY DEF RoundsInv, RoundTypes
<1>6. ReadersInv /\ SeenInv
  BY DEF RoundsInv
<1>7. replaced' = Append(replaced, router) =>
         /\ replaced' \in Seq(Actors) /\ Len(replaced') = m + 1 /\ replaced'[m + 1] = router
         /\ \A n \in 1 .. m : replaced'[n] = replaced[n]
  BY <1>4, <1>5
<1>8. RoundTypes'
  BY <1>1, <1>2, <1>7 DEF RoundsInv, RoundTypes, BooksQuiet, NoSuccessor
<1>9. ReadersInv'
  <2>1. /\ \A h : decision'[h] = decision[h] /\ Issued' = Issued
        /\ Pending' = Pending
    BY <1>1 DEF BooksQuiet, Issued, Pending
  <2>2. CASE replaced' = Append(replaced, router) /\ retired' = retired
    <3>1. \A n \in 1 .. Len(replaced') : n \in 1 .. m \/ n = m + 1
      BY <1>7, <2>2
    <3>2. \A n \in 1 .. m : replaced[n] \notin retired /\ replaced[n] # router /\ replaced[n] # b
      BY <1>1, <1>4, <1>6 DEF ReadersInv
    <3>3. \A n \in 1 .. Len(replaced') : replaced'[n] \notin retired' /\ replaced'[n] # router'
      BY <1>1, <1>6, <1>7, <2>2, <3>1, <3>2 DEF ReadersInv
    <3>4. \A n, k \in 1 .. Len(replaced') : replaced'[n] = replaced'[k] => n = k
      BY <1>4, <1>6, <1>7, <2>2, <3>1, <3>2 DEF ReadersInv
    <3>5. ASSUME NEW a, Reads(a) PROVE Reads(a)'
      <4>1. CASE a = router
        <5>1. m + 1 \in 1 .. Len(replaced') /\ replaced'[m + 1] = a
          BY <1>7, <2>2, <4>1
        <5> QED
          BY <5>1 DEF Reads
      <4>2. CASE a # router
        <5>1. PICK n \in 1 .. m : replaced[n] = a
          BY <1>4, <3>5, <4>2 DEF Reads
        <5>2. n \in 1 .. Len(replaced') /\ replaced'[n] = a
          BY <1>7, <2>2, <5>1
        <5> QED
          BY <5>2 DEF Reads
      <4> QED
        BY <4>1, <4>2
    <3>6. \A h \in Issued : decision[h].actor \in retired \/ Reads(decision[h].actor)'
      BY <1>6, <2>1, <3>5 DEF ReadersInv
    <3> QED
      BY <1>1, <1>6, <2>1, <2>2, <3>3, <3>4, <3>6 DEF ReadersInv
  <2>3. CASE /\ replaced' = replaced /\ retired' = retired \cup {router} /\ ~Outstanding(router)
    <3>1. \A n \in 1 .. Len(replaced') : replaced'[n] \notin retired' /\ replaced'[n] # router'
      BY <1>1, <1>6, <2>3 DEF ReadersInv
    <3>2. \A h \in Issued : decision[h].actor \in retired' \/ Reads(decision[h].actor)'
      <4> TAKE h \in Issued
      <4>1. PICK a : a = decision[h].actor
        OBVIOUS
      <4>2. a \in retired \/ Reads(a)
        BY <1>6, <4>1 DEF ReadersInv
      <4>3. a \in retired' \/ Reads(a)'
        BY <2>3, <4>2 DEF Reads
      <4> QED
        BY <2>1, <4>1, <4>3
    <3>3. \A h \in Pending : decision[h].actor \notin retired'
      BY <1>6, <2>3 DEF ReadersInv, Outstanding
    <3> QED
      BY <1>1, <1>6, <2>1, <2>3, <3>1, <3>2, <3>3 DEF ReadersInv
  <2> QED
    BY <1>2, <2>2, <2>3
<1>10. SeenInv'
  <2> SUFFICES ASSUME NEW a \in Actors
               PROVE  /\ released'[a] <= seen'[a] /\ seen'[a] <= DeliveredCount(a)'
                      /\ ~Reads(a)' => seen'[a] = DeliveredCount(a)'
    BY <1>1, <1>3 DEF SeenInv
  <2>1. released' = released /\ seen' = seen /\ DeliveredCount(a)' = DeliveredCount(a)
    BY <1>1 DEF BooksQuiet, DeliveredCount
  <2>2. /\ released[a] <= seen[a] /\ seen[a] <= DeliveredCount(a)
        /\ ~Reads(a) => seen[a] = DeliveredCount(a)
    BY <1>6 DEF SeenInv
  <2>3. ASSUME ~Reads(a)' PROVE seen[a] = DeliveredCount(a)
    <3>1. CASE a = router
      <4>1. CASE replaced' = Append(replaced, router)
        <5>1. m + 1 \in 1 .. Len(replaced') /\ replaced'[m + 1] = a
          BY <1>7, <3>1, <4>1
        <5> QED
          BY <2>3, <5>1 DEF Reads
      <4>2. CASE ~(DeliveredCount(router) > seen[router])
        <5>1. seen[a] \in Nat /\ DeliveredCount(a) \in Nat
          BY ReadBounds
        <5> QED
          BY <2>2, <3>1, <4>2, <5>1
      <4> QED
        BY <1>2, <4>1, <4>2
    <3>2. CASE a # router
      <4>1. CASE replaced' = replaced
        BY <2>2, <2>3, <3>2, <4>1 DEF Reads
      <4>2. CASE replaced' = Append(replaced, router)
        <5>1. ASSUME NEW n \in 1 .. m, replaced[n] = a PROVE FALSE
          <6>1. n \in 1 .. Len(replaced') /\ replaced'[n] = a
            BY <1>7, <4>2, <5>1
          <6> QED
            BY <2>3, <6>1 DEF Reads
        <5> QED
          BY <1>4, <2>2, <3>2, <5>1 DEF Reads
      <4> QED
        BY <1>2, <4>1, <4>2
    <3> QED
      BY <3>1, <3>2
  <2> QED
    BY <2>1, <2>2, <2>3
<1>11. NotesInv' /\ KeysInv'
  BY <1>1, <1>3, QuietReads, Kept
<1>12. PriceInv' /\ SeatInv' /\ LearnInv' /\ TallyInv' /\ NamedInv'
  BY <1>1, QuietRest
<1>13. CallsInv'
  BY <1>3 DEF CallsInv
<1> QED
  BY <1>8, <1>9, <1>10, <1>11, <1>12, <1>13 DEF RoundsInv

(* A replaced router nothing is outstanding or owed for is forgotten.          *)
LEMMA DrainKeeps ==
    ASSUME QueueInv, RoundsInv, DrainRouter PROVE RoundsInv'
<1>1. PICK n : n = CHOOSE k \in Draining : \A m \in Draining : k <= m
  OBVIOUS
<1>2. /\ BooksQuiet /\ UNCHANGED <<now, phase, window, router>> /\ phase = "drain"
      /\ retired' = retired \cup {replaced[n]} /\ replaced' = RemoveAt(replaced, n)
      /\ Draining # {}
  BY <1>1 DEF DrainRouter, RetireActor, BooksQuiet, windowVars, scoreVars, learnVars, tallyVars,
              evidenceVars, deliveryVars, releaseVars
<1>3. n \in Draining /\ n \in 1 .. Len(replaced) /\ replaced[n] \in Actors
  BY <1>1, <1>2, FirstDraining DEF RoundsInv
<1>4. PICK a \in Actors : a = replaced[n]
  BY <1>3
<1>5. ~Outstanding(a)
  BY <1>3, <1>4 DEF Draining, Drained
<1>6. PICK m \in Nat : m = Len(replaced)
  BY DEF RoundsInv, RoundTypes
<1>7. /\ replaced' \in Seq(Actors) /\ Len(replaced') = m - 1
      /\ \A i \in 1 .. m - 1 : replaced'[i] = IF i < n THEN replaced[i] ELSE replaced[i + 1]
  BY <1>2, <1>3, <1>6, RemoveAtIs DEF RoundsInv, RoundTypes
<1>8. n \in Nat /\ 1 <= n /\ n <= m
  BY <1>3, <1>6
<1>9. ReadersInv /\ SeenInv
  BY DEF RoundsInv
<1>10. calls' = {} /\ phase \in AllRead
  BY <1>2 DEF BooksQuiet, AllRead, RoundsInv, CallsInv
<1>11. RoundTypes'
  BY <1>2, <1>7 DEF RoundsInv, RoundTypes, BooksQuiet, NoSuccessor
<1>12. \A i \in 1 .. m - 1 : \E j \in 1 .. m :
          j # n /\ replaced'[i] = replaced[j] /\ j = IF i < n THEN i ELSE i + 1
  <2> TAKE i \in 1 .. m - 1
  <2>1. PICK j : j = IF i < n THEN i ELSE i + 1
    OBVIOUS
  <2>2. j \in 1 .. m /\ j # n
    BY <1>8, <2>1
  <2>3. replaced'[i] = replaced[j]
    BY <1>7, <2>1
  <2> QED
    BY <2>1, <2>2, <2>3
<1>13. ReadersInv'
  <2>1. \A h : decision'[h] = decision[h] /\ Issued' = Issued /\ Pending' = Pending
    BY <1>2 DEF BooksQuiet, Issued, Pending
  <2>2. \A i \in 1 .. m - 1 : replaced'[i] \notin retired' /\ replaced'[i] # router
    BY <1>2, <1>3, <1>6, <1>9, <1>12 DEF ReadersInv
  <2>3. \A i, k \in 1 .. m - 1 : replaced'[i] = replaced'[k] => i = k
    <3> TAKE i, k \in 1 .. m - 1
    <3>1. PICK j \in 1 .. m : replaced'[i] = replaced[j] /\ j = IF i < n THEN i ELSE i + 1
      BY <1>12
    <3>2. PICK l \in 1 .. m : replaced'[k] = replaced[l] /\ l = IF k < n THEN k ELSE k + 1
      BY <1>12
    <3>3. replaced[j] = replaced[l] => j = l
      BY <1>6, <1>9 DEF ReadersInv
    <3>4. j = l => i = k
      BY <1>8, <3>1, <3>2
    <3> QED
      BY <3>1, <3>2, <3>3, <3>4
  <2>4. ASSUME NEW c, Reads(c), c # a PROVE Reads(c)'
    <3>1. CASE c = router
      BY <1>2, <3>1 DEF Reads
    <3>2. CASE c # router
      <4>1. PICK j \in 1 .. m : replaced[j] = c
        BY <1>6, <2>4, <3>2 DEF Reads
      <4>2. PICK i : i = IF j < n THEN j ELSE j - 1
        OBVIOUS
      <4>3. j # n
        BY <1>4, <2>4, <4>1
      <4>4. i \in 1 .. m - 1 /\ (IF i < n THEN i ELSE i + 1) = j
        BY <1>8, <4>2, <4>3
      <4>5. replaced'[i] = c
        BY <1>7, <4>1, <4>4
      <4> QED
        BY <1>7, <4>4, <4>5 DEF Reads
    <3> QED
      BY <3>1, <3>2
  <2>5. \A h \in Issued : decision[h].actor \in retired' \/ Reads(decision[h].actor)'
    BY <1>2, <1>4, <1>9, <2>1, <2>4 DEF ReadersInv
  <2>6. \A h \in Pending : decision[h].actor \notin retired'
    BY <1>2, <1>4, <1>5, <1>9 DEF ReadersInv, Outstanding
  <2>7. router \notin retired'
    BY <1>2, <1>3, <1>9 DEF ReadersInv
  <2> QED
    BY <1>2, <1>7, <2>1, <2>2, <2>3, <2>5, <2>6, <2>7 DEF ReadersInv
<1>14. SeenInv'
  BY <1>2, <1>9, <1>10 DEF SeenInv, BooksQuiet, DeliveredCount
<1>15. NotesInv' /\ KeysInv'
  BY <1>2, <1>10, QuietReads, Kept
<1>16. PriceInv' /\ SeatInv' /\ LearnInv' /\ TallyInv' /\ NamedInv'
  BY <1>2, QuietRest
<1>17. CallsInv'
  BY <1>10 DEF CallsInv
<1> QED
  BY <1>11, <1>13, <1>14, <1>15, <1>16, <1>17 DEF RoundsInv

(* A decision is opened: drawn by the router, or requested of its own router    *)
(* by a seat in a call.  D is the handle when it was drawn.                    *)
OpeningStep(h, D) ==
    /\ h = opened /\ h \in Handles /\ opened' = h + 1 /\ retained' = retained \cup {h}
    /\ \A g \in Handles : g # h => decision'[g] = decision[g] /\ status'[g] = status[g]
    /\ status'[h] = "pending" /\ decision'[h].actor \notin retired /\ Reads(decision'[h].actor)
    /\ D \subseteq {h} /\ keys' = keys \cup D /\ rounds' = rounds \cup D
    /\ clocked' = clocked \cup {h} /\ (D # {} => decision'[h].parent = None)
    /\ calls' \subseteq calls \cup {h} /\ (h \in calls' => decision'[h].contract # Noop)
    /\ \/ UNCHANGED <<origin, measured>>
       \/ /\ h \notin calls'
          /\ origin' = [origin EXCEPT ![h] = IF @ = None THEN window ELSE @]
          /\ measured' = [measured EXCEPT ![h] = window]
    /\ phase = "route"
    /\ UNCHANGED <<phase, window, now, returns, deliveries, released, retired, successor, finalized,
                   raw, pending, deferred, router, replaced, credit, seatRounds, seen, routed,
                   seated, tally, evidence>>

(* What an opening writes. *)
LEMMA OpensOne ==
    ASSUME QueueInv, NEW a \in Actors, NEW k, NEW c, NEW d, NEW parent, OpenDecision(a, k, c, d, parent),
           NEW h, h = opened
    PROVE  /\ h \in Handles /\ opened' = h + 1 /\ retained' = retained \cup {h}
           /\ \A g \in Handles : g # h => decision'[g] = decision[g] /\ status'[g] = status[g]
           /\ status'[h] = "pending" /\ a \notin retired
           /\ decision'[h] = [actor |-> a, contract |-> k, channel |-> c, deadline |-> d,
                              parent |-> parent]
           /\ UNCHANGED <<now, returns, deliveries, released, retired, successor, finalized>>
<1>1. h \in Handles
  BY OpenStep DEF QueueInv
<1>2. DOMAIN decision = Handles /\ DOMAIN status = Handles
  BY DEF QueueInv, FamilyInv, StatusInv
<1> QED
  BY <1>1, <1>2 DEF OpenDecision, actorVars, deliveryVars

(* A draw opens one decision, with a round of the router. *)
LEMMA DrawOpens ==
    ASSUME QueueInv, RoundsInv, NEW k \in Contracts, Draw(k) PROVE OpeningStep(opened, {opened})
<1>0. PICK c, d : c = (CHOOSE x \in Channels : TRUE) /\ d = now + Span
  OBVIOUS
<1>1. PICK h, none : h = opened /\ none = None
  OBVIOUS
<1>2. /\ OpenDecision(router, k, c, d, none)
      /\ keys' = keys \cup {h} /\ rounds' = rounds \cup {h} /\ clocked' = clocked \cup {h}
      /\ phase = "route" /\ calls = {}
      /\ UNCHANGED <<phase, window, raw, pending, deferred, router, replaced, credit, seatRounds,
                     seen, routed, seated, tally, evidence>>
  BY <1>0, <1>1 DEF Draw, Routing, routerVars, tallyVars
<1>3. \/ k = Noop /\ Contribution(h) /\ UNCHANGED calls
      \/ k # Noop /\ calls' = {h} /\ UNCHANGED <<origin, measured>>
  BY <1>1 DEF Draw
<1>4. router \in Actors
  BY DEF RoundsInv, RoundTypes
<1>5. /\ h \in Handles /\ opened' = h + 1 /\ retained' = retained \cup {h}
      /\ \A g \in Handles : g # h => decision'[g] = decision[g] /\ status'[g] = status[g]
      /\ status'[h] = "pending" /\ router \notin retired
      /\ decision'[h] = [actor |-> router, contract |-> k, channel |-> c, deadline |-> d,
                         parent |-> none]
      /\ UNCHANGED <<now, returns, deliveries, released, retired, successor, finalized>>
  BY <1>1, <1>2, <1>4, OpensOne
<1>6. decision'[h].actor = router /\ decision'[h].contract = k /\ decision'[h].parent = None
  BY <1>1, <1>5
<1>7. Reads(router)
  BY DEF Reads
<1>8. \/ UNCHANGED <<origin, measured>>
      \/ /\ h \notin calls'
         /\ origin' = [origin EXCEPT ![h] = IF @ = None THEN window ELSE @]
         /\ measured' = [measured EXCEPT ![h] = window]
  BY <1>2, <1>3 DEF Contribution
<1>9. calls' \subseteq calls \cup {h} /\ (h \in calls' => decision'[h].contract # Noop)
  BY <1>2, <1>3, <1>6
<1>10. OpeningStep(h, {h})
  BY <1>1, <1>2, <1>5, <1>6, <1>7, <1>8, <1>9 DEF OpeningStep
<1> QED
  BY <1>1, <1>10

(* A request opens one decision, without a round. *)
LEMMA RequestOpens ==
    ASSUME QueueInv, RoundsInv, NEW p \in Handles, RequestSelf(p) PROVE OpeningStep(opened, {})
<1>1. PICK a \in Actors, k \in Contracts, c \in Channels, d \in Nat :
         a = decision[p].actor /\ k = decision[p].contract /\ c = decision[p].channel
         /\ d = decision[p].deadline
  BY DecisionTyped
<1>2. PICK h : h = opened
  OBVIOUS
<1>3. /\ OpenDecision(a, k, c, d, p) /\ calls' = calls \cup {h} /\ clocked' = clocked \cup {h}
      /\ phase = "route" /\ p \in calls
      /\ UNCHANGED <<phase, window, origin, measured, raw, pending, deferred, router, replaced, keys,
                     rounds, credit, seatRounds, seen, routed, seated, tally, evidence>>
  BY <1>1, <1>2 DEF RequestSelf, Routing, routerVars, tallyVars, windowVars
<1>4. /\ h \in Handles /\ opened' = h + 1 /\ retained' = retained \cup {h}
      /\ \A g \in Handles : g # h => decision'[g] = decision[g] /\ status'[g] = status[g]
      /\ status'[h] = "pending" /\ a \notin retired
      /\ decision'[h] = [actor |-> a, contract |-> k, channel |-> c, deadline |-> d, parent |-> p]
      /\ UNCHANGED <<now, returns, deliveries, released, retired, successor, finalized>>
  BY <1>1, <1>2, <1>3, OpensOne
<1>5. decision'[h].actor = a /\ decision'[h].contract = k
  BY <1>4
<1>6. k # Noop /\ p \in Issued
  BY <1>1, <1>3, Kept DEF RoundsInv, CallsInv, NamedInv
<1>7. Reads(a)
  BY <1>1, <1>4, <1>6 DEF RoundsInv, ReadersInv
<1>8. OpeningStep(h, {})
  BY <1>2, <1>3, <1>4, <1>5, <1>6, <1>7 DEF OpeningStep
<1> QED
  BY <1>2, <1>8

(* A handle that is not issued is in nobody's books.                           *)
LEMMA FreshHandle ==
    ASSUME QueueInv, RoundsInv, opened \in Handles
    PROVE  /\ opened \notin retained /\ opened \notin rounds /\ opened \notin keys /\ opened \notin calls
           /\ opened \notin NamedByBooks /\ opened \notin ToSet(finalized) /\ opened \notin evidence
           /\ origin[opened] = None /\ measured[opened] = None /\ raw[opened] = None
           /\ credit[opened] = None /\ routed[opened] = <<>> /\ seated[opened] = <<>>
<1>1. opened \notin Issued /\ retained \subseteq Issued
  BY Kept
<1>2. NamedInv /\ KeysInv /\ TallyInv /\ LearnInv
  BY DEF RoundsInv
<1>3. /\ opened \notin retained /\ opened \notin rounds /\ opened \notin keys /\ opened \notin calls
      /\ opened \notin NamedByBooks /\ opened \notin ToSet(finalized) /\ opened \notin evidence
  BY <1>1, <1>2 DEF NamedInv, KeysInv, TallyInv
<1>4. origin[opened] = None /\ raw[opened] = None /\ credit[opened] = None
  BY <1>3 DEF NamedByBooks, Priced, Scored, Credited
<1>5. opened >= opened
  BY Kept
<1>6. measured[opened] = None /\ routed[opened] = <<>> /\ seated[opened] = <<>>
  BY <1>2, <1>5 DEF LearnInv
<1> QED
  BY <1>3, <1>4, <1>6

(* An opening keeps the types, the readers, the calls and what was learned, *)
LEMMA OpeningTypes ==
    ASSUME QueueInv, RoundsInv, NEW h, NEW D, OpeningStep(h, D)
    PROVE  RoundTypes' /\ ReadersInv' /\ SeenInv' /\ CallsInv' /\ LearnInv'
<1>1. h = opened /\ h \in Handles /\ h \notin retained /\ h \notin Issued
  BY FreshHandle, Kept DEF OpeningStep
<1>2. /\ h \notin seatRounds /\ routed[h] = <<>> /\ seated[h] = <<>>
  BY <1>1, FreshHandle DEF NamedByBooks
<1>3. measured[h] = None
  BY <1>1, FreshHandle
<1>4. /\ opened' = h + 1 /\ retained' = retained \cup {h}
      /\ \A g \in Handles : g # h => decision'[g] = decision[g] /\ status'[g] = status[g]
      /\ status'[h] = "pending" /\ decision'[h].actor \notin retired /\ Reads(decision'[h].actor)
      /\ calls' \subseteq calls \cup {h} /\ (h \in calls' => decision'[h].contract # Noop)
      /\ UNCHANGED <<phase, window, now, returns, deliveries, released, retired, successor, finalized,
                     raw, router, replaced, credit, seatRounds, seen, routed, seated, tally>>
  BY DEF OpeningStep
<1>5. \/ UNCHANGED <<origin, measured>>
      \/ /\ h \notin calls'
         /\ origin' = [origin EXCEPT ![h] = IF @ = None THEN window ELSE @]
         /\ measured' = [measured EXCEPT ![h] = window]
  BY DEF OpeningStep
<1>6. origin' \in [Handles -> Nat \cup {None}] /\ measured' \in [Handles -> Nat \cup {None}]
  <2>1. /\ origin \in [Handles -> Nat \cup {None}] /\ measured \in [Handles -> Nat \cup {None}]
        /\ window \in Nat
    BY DEF RoundsInv, RoundTypes
  <2> QED
    BY <1>1, <1>5, <2>1
<1>7. \A g \in Handles : g # h => measured'[g] = measured[g] /\ origin'[g] = origin[g]
  BY <1>1, <1>5 DEF RoundsInv, RoundTypes
<1>8. RoundTypes'
  BY <1>4, <1>6 DEF RoundsInv, RoundTypes, NoSuccessor
<1>9. Issued \subseteq Handles /\ Issued' = Issued \cup {h} /\ Pending \subseteq Handles
  <2>1. opened \in Nat
    BY Kept
  <2> QED
    BY <1>1, <1>4, <2>1, Kept DEF Issued
<1>10. ReadersInv'
  <2>1. ReadersInv
    BY DEF RoundsInv
  <2>2. \A a : Reads(a)' <=> Reads(a)
    BY <1>4 DEF Reads
  <2>3. ASSUME NEW g \in Issued' PROVE decision'[g].actor \in retired' \/ Reads(decision[g].actor)'
    <3>1. CASE g = h
      BY <1>4, <2>2, <3>1
    <3>2. CASE g # h
      <4>1. g \in Issued /\ g \in Handles
        BY <1>9, <3>2
      <4>2. decision'[g] = decision[g]
        BY <1>4, <3>2, <4>1
      <4>3. decision[g].actor \in retired \/ Reads(decision[g].actor)
        BY <2>1, <4>1 DEF ReadersInv
      <4> QED
        BY <1>4, <2>2, <4>2, <4>3
    <3> QED
      BY <3>1, <3>2
  <2>4. ASSUME NEW g \in Pending' PROVE decision'[g].actor \notin retired'
    <3>1. CASE g = h
      BY <1>4, <3>1
    <3>2. CASE g # h
      <4>1. g \in retained /\ g \in Handles /\ status'[g] = "pending"
        BY <1>4, <3>2, Kept DEF Pending
      <4>2. g \in Pending /\ decision'[g] = decision[g]
        BY <1>4, <3>2, <4>1 DEF Pending
      <4> QED
        BY <1>4, <2>1, <4>2 DEF ReadersInv
    <3> QED
      BY <3>1, <3>2
  <2> QED
    BY <1>4, <2>1, <2>3, <2>4 DEF ReadersInv
<1>11. SeenInv'
  BY <1>4 DEF RoundsInv, SeenInv, Reads, DeliveredCount
<1>12. calls \subseteq Handles /\ phase = "route"
  BY Kept DEF RoundsInv, NamedInv, OpeningStep
<1>13. CallsInv'
  <2>1. \A g \in calls : /\ decision[g].contract # Noop
                         /\ measured[g] = None /\ g \notin seatRounds
                         /\ seated[g] = <<>> /\ routed[g] = <<>>
    BY DEF RoundsInv, CallsInv
  <2>2. ASSUME NEW g \in calls'
        PROVE  /\ decision'[g].contract # Noop /\ measured'[g] = None /\ g \notin seatRounds'
               /\ seated'[g] = <<>> /\ routed'[g] = <<>>
    <3>1. CASE g = h
      BY <1>2, <1>3, <1>4, <1>5, <3>1
    <3>2. CASE g # h
      <4>1. g \in calls /\ g \in Handles
        BY <1>4, <1>12, <3>2
      <4> QED
        BY <1>4, <1>7, <2>1, <3>2, <4>1
    <3> QED
      BY <3>1, <3>2
  <2> QED
    BY <1>4, <1>12, <2>2 DEF CallsInv
<1>14. LearnInv'
  <2>1. LearnInv
    BY DEF RoundsInv
  <2>2. LearnedAlike'
    <3>1. \A g \in Handles : g # h => WasCharged(g)' = WasCharged(g)
      BY <1>7 DEF WasCharged
    <3> QED
      BY <1>2, <1>4, <2>1, <3>1 DEF LearnInv, LearnedAlike
  <2>3. opened \in Nat
    BY Kept
  <2>4. \A g \in Handles : g >= opened' => g >= opened /\ g # h
    BY <1>1, <1>4, <2>3 DEF Handles
  <2> QED
    BY <1>4, <1>7, <2>1, <2>2, <2>4 DEF LearnInv
<1> QED
  BY <1>8, <1>10, <1>11, <1>13, <1>14

(* the notes, *)
LEMMA OpeningNotes ==
    ASSUME QueueInv, RoundsInv, NEW h, NEW D, OpeningStep(h, D)
    PROVE  NotesInv' /\ KeysInv'
<1>1. h = opened /\ h \in Handles /\ h \notin retained
  BY FreshHandle DEF OpeningStep
<1>2. /\ \A g \in Handles : g # h => decision'[g] = decision[g] /\ status'[g] = status[g]
      /\ status'[h] = "pending" /\ D \subseteq {h} /\ keys' = keys \cup D /\ rounds' = rounds \cup D
      /\ clocked' = clocked \cup {h} /\ (D # {} => decision'[h].parent = None)
      /\ UNCHANGED <<phase, now, returns, deliveries, released, raw, credit, seen, routed>>
      /\ phase = "route"
  BY DEF OpeningStep
<1>3. \A g \in Handles : g # h => measured'[g] = measured[g] /\ origin'[g] = origin[g]
  BY <1>1 DEF OpeningStep, RoundsInv, RoundTypes
<1>4. \A a : Unread(a)' = Unread(a) /\ \A i : Item(a, i)' = Item(a, i)
  BY <1>2, QuietUnread
<1>5. ASSUME NEW a \in Actors, NEW i \in Unread(a)
      PROVE  Item(a, i).handle # h /\ Item(a, i).handle \in Handles
  BY <1>1, ReadBounds
<1>6. NotesInv'
  <2>1. ASSUME NEW a \in Actors, NEW i \in Unread(a)
        PROVE  decision'[Item(a, i).handle'].actor = a /\ NoteTrue(Item(a, i), Item(a, i).handle)'
    <3>1. PICK e : e = Item(a, i)
      OBVIOUS
    <3>2. PICK g \in Handles : g = e.handle /\ g # h
      BY <1>5, <3>1
    <3>3. decision[g].actor = a /\ NoteTrue(e, g)
      BY <3>1, <3>2 DEF RoundsInv, NotesInv
    <3>4. /\ decision'[g] = decision[g] /\ status'[g] = status[g] /\ returns'[g] = returns[g]
          /\ raw'[g] = raw[g] /\ origin'[g] = origin[g] /\ measured'[g] = measured[g] /\ phase' = phase
      BY <1>2, <1>3, <3>2
    <3>5. NoteTrue(e, g)'
      BY <3>3, <3>4 DEF NoteTrue
    <3>6. Item(a, i)' = e
      BY <1>4, <3>1
    <3> QED
      BY <3>2, <3>3, <3>4, <3>5, <3>6 DEF NoteTrue
  <2> QED
    BY <1>4, <2>1 DEF NotesInv
<1>7. KeysInv'
  <2>1. KeysInv /\ rounds \subseteq retained /\ keys \subseteq rounds /\ Credited \subseteq rounds
    BY DEF RoundsInv, NamedInv, KeysInv
  <2>2. Credited' = Credited /\ h \notin Credited /\ rounds \subseteq Handles /\ h \notin rounds
    BY <1>1, <1>2, <2>1, Kept DEF Credited
  <2>3. rounds' = keys' \cup Credited' /\ keys' \cap Credited' = {}
    BY <1>2, <2>1, <2>2 DEF KeysInv
  <2>4. ASSUME NEW g \in rounds' PROVE Sampled(g)' /\ g \in clocked' /\ routed'[g] = <<>>
    <3>1. CASE g \in rounds
      <4>1. g # h /\ g \in Handles
        BY <2>2, <3>1
      <4> QED
        BY <1>2, <2>1, <3>1, <4>1 DEF KeysInv, Sampled
    <3>2. CASE g = h /\ D # {}
      BY <1>1, <1>2, <3>2, FreshHandle DEF Sampled
    <3> QED
      BY <1>2, <3>1, <3>2
  <2>5. ASSUME NEW g \in keys', status'[g] # "pending" PROVE Awaited(decision[g].actor, g)'
    <3>1. g # h /\ g \in keys /\ g \in Handles
      BY <1>2, <2>1, <2>2, <2>5
    <3>2. decision'[g] = decision[g] /\ status'[g] = status[g]
      BY <1>2, <3>1
    <3>3. Awaited(decision[g].actor, g)
      BY <2>1, <2>5, <3>1, <3>2 DEF KeysInv
    <3> QED
      BY <1>4, <3>2, <3>3 DEF Awaited
  <2>6. ASSUME NEW a \in Actors, NEW i \in Unread(a)', Item(a, i)'.handle \in keys',
               Item(a, i)'.status # "timed_out", Len(returns'[Item(a, i)'.handle]) > 1
        PROVE  Preceded(a, i)'
    <3>1. i \in Unread(a) /\ Item(a, i)' = Item(a, i) /\ returns' = returns
      BY <1>2, <1>4
    <3>2. Item(a, i).handle \in keys
      BY <1>2, <1>5, <2>6, <3>1
    <3>3. Preceded(a, i)
      BY <2>1, <2>6, <3>1, <3>2 DEF KeysInv
    <3> QED
      BY <1>4, <3>3 DEF Preceded
  <2>7. ASSUME NEW g \in Credited', decision'[g].contract # Noop
        PROVE  returns'[g] # <<>> /\ returns'[g][1] # "settled" /\ credit'[g] <= now'
    <3>1. g \in Credited /\ g # h /\ g \in Handles
      BY <2>2 DEF Credited
    <3> QED
      BY <1>2, <2>1, <2>7, <3>1 DEF KeysInv
  <2>8. phase' \notin AllRead
    BY <1>2 DEF AllRead
  <2> QED
    BY <2>3, <2>4, <2>5, <2>6, <2>7, <2>8 DEF KeysInv
<1> QED
  BY <1>6, <1>7

(* the prices, the rounds of the seats and the tally. *)
LEMMA OpeningBooks ==
    ASSUME QueueInv, RoundsInv, NEW h, NEW D, OpeningStep(h, D)
    PROVE  PriceInv' /\ SeatInv' /\ TallyInv' /\ NamedInv'
<1>1. h = opened /\ h \in Handles /\ h \notin retained /\ h \notin Issued
  BY FreshHandle, Kept DEF OpeningStep
<1>2. /\ opened' = h + 1 /\ retained' = retained \cup {h}
      /\ \A g \in Handles : g # h => decision'[g] = decision[g] /\ status'[g] = status[g]
      /\ status'[h] = "pending" /\ rounds' \subseteq rounds \cup {h} /\ calls' \subseteq calls \cup {h}
      /\ UNCHANGED <<phase, window, returns, finalized, raw, pending, deferred, credit, seatRounds,
                     routed, seated, tally, evidence>>
      /\ phase = "route"
  BY DEF OpeningStep
<1>3. \A g \in Handles : g # h => measured'[g] = measured[g] /\ origin'[g] = origin[g]
  BY <1>1 DEF OpeningStep, RoundsInv, RoundTypes
<1>4. /\ h \notin NamedByBooks /\ h \notin ToSet(finalized) /\ h \notin evidence
      /\ origin[h] = None /\ measured[h] = None /\ raw[h] = None /\ seated[h] = <<>>
  BY <1>1, FreshHandle
<1>5. PriceInv'
  <2>1. origin'[h] = measured'[h]
    BY <1>1, <1>4 DEF OpeningStep, RoundsInv, RoundTypes
  <2>2. ASSUME NEW g \in Handles, g # h
        PROVE  /\ origin'[g] = None \/ origin'[g] = measured'[g]
               /\ Open(g)' \/ g \in Credited' => origin'[g] = measured'[g]
               /\ raw'[g] # None => raw'[g] = WasCharged(g)' /\ ~Open(g)'
    <3>1. (Open(g)' <=> Open(g)) /\ (g \in Credited' <=> g \in Credited) /\ WasCharged(g)' = WasCharged(g)
      BY <1>2, <1>3, <2>2 DEF Open, Credited, WasCharged
    <3> QED
      BY <1>2, <1>3, <2>2, <3>1 DEF RoundsInv, PriceInv
  <2>3. raw'[h] = None
    BY <1>2, <1>4
  <2> QED
    BY <2>1, <2>2, <2>3 DEF PriceInv
<1>6. SeatInv'
  <2>1. SeatInv
    BY DEF RoundsInv
  <2>2. seatRounds \cup pending \cup deferred \subseteq Handles \ {h}
    BY <1>1, <1>4, Kept DEF RoundsInv, NamedInv, NamedByBooks
  <2>3. \A g \in seatRounds \cup pending \cup deferred : decision'[g].contract # Noop
    BY <1>2, <2>1, <2>2 DEF SeatInv
  <2>4. ASSUME NEW g \in Handles, seated'[g] # <<>>
        PROVE  decision'[g].contract # Noop /\ status'[g] # "pending" /\ g \notin rounds'
    <3>1. g # h /\ seated[g] # <<>>
      BY <1>2, <1>4, <2>4
    <3> QED
      BY <1>2, <2>1, <3>1 DEF SeatInv
  <2> QED
    BY <1>2, <2>1, <2>3, <2>4 DEF SeatInv
<1>7. TallyInv'
  <2>1. TallyInv
    BY DEF RoundsInv
  <2>2. Issued' = Issued \cup {h} /\ Issued \subseteq Handles
    <3>1. opened \in Nat
      BY Kept
    <3> QED
      BY <1>1, <1>2, <3>1, Kept DEF Issued
  <2>3. ~Tallied(h)'
    BY <1>2 DEF Tallied
  <2>4. \A g \in Issued : (Tallied(g)' <=> Tallied(g)) /\ decision'[g] = decision[g] /\ status'[g] = status[g]
    BY <1>1, <1>2, <2>2 DEF Tallied, IsEvaluation
  <2>5. ASSUME NEW k PROVE Counted1(k)' = Counted1(k)
    BY <1>2, <2>2, <2>3, <2>4 DEF Counted1
  <2>6. ToSet(finalized) \subseteq Issued /\ evidence \subseteq Issued
    BY <2>1, Kept DEF TallyInv, RoundsInv, NamedInv
  <2> QED
    BY <1>2, <2>1, <2>2, <2>4, <2>5, <2>6 DEF TallyInv
<1>8. NamedInv'
  <2>1. Priced' \subseteq Priced \cup {h}
    BY <1>3 DEF Priced
  <2>2. Credited' = Credited /\ Scored' = Scored
    BY <1>2 DEF Credited, Scored
  <2> QED
    BY <1>2, <2>1, <2>2 DEF RoundsInv, NamedInv, NamedByBooks
<1> QED
  BY <1>5, <1>6, <1>7, <1>8

(* An opening keeps the invariant. *)
LEMMA OpeningKeeps ==
    ASSUME QueueInv, RoundsInv, NEW h, NEW D, OpeningStep(h, D) PROVE RoundsInv'
BY OpeningTypes, OpeningNotes, OpeningBooks DEF RoundsInv

(* A seat returns: its decision is measured, and waits to be judged.           *)
LEMMA ReturnKeeps ==
    ASSUME QueueInv, RoundsInv, NEW h \in Handles, NEW declares, NEW declines,
           ReturnCall(h, declares, declines)
    PROVE  RoundsInv'
<1>1. /\ h \in calls /\ phase = "route" /\ h \in retained /\ status[h] \in Awaiting
      /\ origin' = [origin EXCEPT ![h] = IF @ = None THEN window ELSE @]
      /\ measured' = [measured EXCEPT ![h] = window]
      /\ calls' = calls \ {h} /\ pending' = pending \cup {h} /\ seatRounds' \subseteq seatRounds \cup {h}
      /\ UNCHANGED <<phase, window, raw, deferred, router, replaced, keys, rounds, credit, seen,
                     clocked, routed, seated, tally, evidence>>
  BY DEF ReturnCall, Routing, Calling, RecordPropensity, Contribution, routerVars, tallyVars
<1>2. UNCHANGED <<now, opened, retained, decision, status, returns, retired, successor, deliveries,
                  released, finalized>>
  BY DEF ReturnCall, RecordPropensity, actorVars, deliveryVars
<1>3. /\ decision[h].contract # Noop /\ measured[h] = None /\ h \notin seatRounds
      /\ seated[h] = <<>> /\ routed[h] = <<>>
  BY <1>1 DEF RoundsInv, CallsInv
<1>4. /\ origin \in [Handles -> Nat \cup {None}] /\ measured \in [Handles -> Nat \cup {None}]
      /\ window \in Nat
  BY DEF RoundsInv, RoundTypes
<1>5. Open(h)
  BY <1>1 DEF Open
<1>6. origin[h] = None /\ raw[h] = None
  BY <1>3, <1>5 DEF RoundsInv, PriceInv
<1>7. /\ origin'[h] = window /\ measured'[h] = window
      /\ \A g \in Handles : g # h => origin'[g] = origin[g] /\ measured'[g] = measured[g]
  BY <1>1, <1>4, <1>6
<1>8. RoundTypes'
  <2>1. origin' \in [Handles -> Nat \cup {None}] /\ measured' \in [Handles -> Nat \cup {None}]
    BY <1>1, <1>4
  <2> QED
    BY <1>1, <1>2, <2>1 DEF RoundsInv, RoundTypes, NoSuccessor
<1>9. ReadersInv'
  BY <1>1, <1>2 DEF RoundsInv, ReadersInv, Reads, Issued, Pending
<1>10. SeenInv'
  BY <1>1, <1>2 DEF RoundsInv, SeenInv, Reads, DeliveredCount
<1>11. NotesInv'
  <2>1. \A g \in Handles : phase # "close" /\ origin[g] = measured[g] => origin'[g] = measured'[g]
    BY <1>7
  <2> QED
    BY <1>1, <1>2, <2>1, QuietNotes
<1>12. KeysInv'
  <2>1. phase' \notin AllRead /\ rounds \subseteq clocked'
    BY <1>1 DEF AllRead, RoundsInv, KeysInv
  <2> QED
    BY <1>1, <1>2, <2>1, QuietKeys, Kept
<1>13. PriceInv'
  <2> SUFFICES ASSUME NEW g \in Handles
               PROVE  /\ origin'[g] = None \/ origin'[g] = measured'[g]
                      /\ Open(g)' \/ g \in Credited' => origin'[g] = measured'[g]
                      /\ raw'[g] # None => raw'[g] = WasCharged(g)' /\ ~Open(g)'
    BY DEF PriceInv
  <2>1. CASE g = h
    BY <1>1, <1>6, <1>7, <2>1
  <2>2. CASE g # h
    <3>1. (Open(g)' <=> Open(g)) /\ (g \in Credited' <=> g \in Credited) /\ WasCharged(g)' = WasCharged(g)
      BY <1>1, <1>2, <1>7, <2>2 DEF Open, Credited, WasCharged
    <3> QED
      BY <1>1, <1>7, <2>2, <3>1 DEF RoundsInv, PriceInv
  <2> QED
    BY <2>1, <2>2
<1>14. CallsInv'
  <2>1. \A g \in calls' : g # h /\ g \in calls /\ g \in Handles
    BY <1>1, Kept DEF RoundsInv, NamedInv
  <2> QED
    BY <1>1, <1>2, <1>7, <2>1 DEF RoundsInv, CallsInv
<1>15. SeatInv'
  BY <1>1, <1>2, <1>3 DEF RoundsInv, SeatInv
<1>16. LearnInv'
  <2>1. LearnInv /\ h \in Issued
    BY <1>1, Kept DEF RoundsInv
  <2>2. \A g \in Handles : g # h => WasCharged(g)' = WasCharged(g)
    BY <1>7 DEF WasCharged
  <2>3. LearnedAlike'
    BY <1>1, <1>3, <2>1, <2>2 DEF LearnInv, LearnedAlike
  <2>4. \A g \in Handles : g >= opened => g # h
    BY <2>1, Kept
  <2> QED
    BY <1>1, <1>2, <1>7, <2>1, <2>3, <2>4 DEF LearnInv
<1>17. TallyInv'
  <2>1. \A k : Counted1(k)' = Counted1(k)
    BY <1>2 DEF Counted1, Issued, Tallied, IsEvaluation
  <2> QED
    BY <1>1, <1>2, <2>1 DEF RoundsInv, TallyInv, Issued
<1>18. NamedInv'
  <2>1. Priced' \subseteq Priced \cup {h}
    BY <1>7 DEF Priced
  <2>2. Credited' = Credited /\ Scored' = Scored
    BY <1>1 DEF Credited, Scored
  <2> QED
    BY <1>1, <1>2, <2>1, <2>2 DEF RoundsInv, NamedInv, NamedByBooks
<1> QED
  BY <1>8, <1>9, <1>10, <1>11, <1>12, <1>13, <1>14, <1>15, <1>16, <1>17, <1>18 DEF RoundsInv

(* Evidence is pruned: not the price of a score a reader will ask for, nor the   *)
(* tick record of an open round.                                               *)
LEMMA PruneKeeps ==
    ASSUME QueueInv, RoundsInv, PruneEvidence PROVE RoundsInv'
<1>1. /\ phase = "close" /\ phase' = "route"
      /\ raw' = [h \in Handles |->
            IF h \in Scored /\ ~Open(h) /\ h \notin seatRounds /\ ~Owed(h) THEN None ELSE raw[h]]
      /\ origin' = [h \in Handles |-> IF h \in Priced /\ StillPriced(h) THEN origin[h] ELSE None]
      /\ clocked' = {h \in clocked : h \in Credited \/ (h \in retained /\ Owed(h))}
      /\ UNCHANGED <<qvars, window, measured, calls, pending, deferred, router, replaced, keys, rounds,
                     credit, seatRounds, seen, routed, seated, tally, evidence>>
  BY DEF PruneEvidence, scoreVars, routerVars, tallyVars
<1>2. UNCHANGED <<now, opened, retained, decision, status, returns, retired, successor, deliveries,
                  released, finalized, unread>>
  BY <1>1 DEF qvars
<1>3. /\ \A h \in Handles : origin'[h] = None \/ origin'[h] = origin[h]
      /\ \A h \in Handles : raw'[h] = None \/ raw'[h] = raw[h]
      /\ \A h \in Handles : StillPriced(h) => origin'[h] = origin[h]
      /\ \A h \in Handles : unread[h] # 0 => raw'[h] = raw[h]
  BY <1>1 DEF Priced, Owed
<1>4. RoundTypes'
  <2>1. /\ origin \in [Handles -> Nat \cup {None}] /\ raw \in [Handles -> BOOLEAN \cup {None}]
    BY DEF RoundsInv, RoundTypes
  <2>2. origin' \in [Handles -> Nat \cup {None}] /\ raw' \in [Handles -> BOOLEAN \cup {None}]
    BY <1>1, <1>3, <2>1
  <2>3. phase' \in Phases
    BY <1>1 DEF Phases
  <2> QED
    BY <1>1, <1>2, <2>2, <2>3 DEF RoundsInv, RoundTypes, NoSuccessor
<1>5. ReadersInv'
  BY <1>1, <1>2 DEF RoundsInv, ReadersInv, Reads, Issued, Pending
<1>6. phase' \notin AllRead
  BY <1>1 DEF AllRead
<1>7. SeenInv'
  BY <1>1, <1>2, <1>6 DEF RoundsInv, SeenInv, Reads, DeliveredCount
<1>8. NotesInv'
  BY <1>1, <1>2, <1>3, QuietNotes
<1>9. KeysInv'
  <2>1. ASSUME NEW h \in rounds PROVE h \in clocked'
    <3>1. h \in clocked /\ h \in retained /\ h \in Handles /\ (h \in keys \/ h \in Credited)
      BY Kept DEF RoundsInv, KeysInv, NamedInv
    <3>2. CASE h \in keys /\ status[h] = "pending"
      BY <1>1, <3>1, <3>2 DEF Owed, Awaiting
    <3>3. CASE h \in keys /\ status[h] # "pending"
      <4>1. PICK a \in Actors : a = decision[h].actor
        BY <3>1, DecisionTyped
      <4>2. PICK i \in Unread(a) : Item(a, i).handle = h
        BY <3>3, <4>1 DEF RoundsInv, KeysInv, Awaited
      <4>3. unread[h] # 0
        BY <4>2, ReadBounds
      <4> QED
        BY <1>1, <3>1, <4>3 DEF Owed
    <3>4. CASE h \in Credited
      BY <1>1, <3>1, <3>4
    <3> QED
      BY <3>1, <3>2, <3>3, <3>4
  <2>2. rounds \subseteq clocked'
    BY <2>1
  <2> QED
    BY <1>1, <1>2, <1>6, <2>2, QuietKeys, Kept
<1>10. PriceInv'
  <2> SUFFICES ASSUME NEW g \in Handles
               PROVE  /\ origin'[g] = None \/ origin'[g] = measured'[g]
                      /\ Open(g)' \/ g \in Credited' => origin'[g] = measured'[g]
                      /\ raw'[g] # None => raw'[g] = WasCharged(g)' /\ ~Open(g)'
    BY DEF PriceInv
  <2>1. (Open(g)' <=> Open(g)) /\ (g \in Credited' <=> g \in Credited) /\ WasCharged(g)' = WasCharged(g)
    BY <1>1, <1>2 DEF Open, Credited, WasCharged
  <2>2. Open(g) \/ g \in Credited => StillPriced(g)
    BY DEF StillPriced
  <2> QED
    BY <1>1, <1>3, <2>1, <2>2 DEF RoundsInv, PriceInv
<1>11. CallsInv'
  BY <1>1, <1>2 DEF RoundsInv, CallsInv
<1>12. SeatInv'
  BY <1>1, <1>2 DEF RoundsInv, SeatInv
<1>13. LearnInv'
  BY <1>1, <1>2 DEF RoundsInv, LearnInv, LearnedAlike, WasCharged
<1>14. TallyInv'
  <2>1. \A k : Counted1(k)' = Counted1(k)
    BY <1>2 DEF Counted1, Issued, Tallied, IsEvaluation
  <2> QED
    BY <1>1, <1>2, <2>1 DEF RoundsInv, TallyInv, Issued
<1>15. NamedInv'
  <2>1. Priced' \subseteq Priced /\ Scored' \subseteq Scored /\ Credited' = Credited
    BY <1>1, <1>3 DEF Priced, Scored, Credited
  <2> QED
    BY <1>1, <1>2, <2>1 DEF RoundsInv, NamedInv, NamedByBooks
<1> QED
  BY <1>4, <1>5, <1>7, <1>8, <1>9, <1>10, <1>11, <1>12, <1>13, <1>14, <1>15 DEF RoundsInv

(* The seats learn first, each on its decision's first outcome.                *)
LEMMA CloseKeeps ==
    ASSUME QueueInv, RoundsInv, CloseSeatRounds PROVE RoundsInv'
<1>1. /\ phase = "deliver" /\ phase' = "learn" /\ seatRounds' = seatRounds \ Closing
      /\ seated' = [h \in Handles |-> IF h \in Closing THEN Append(seated[h], SeatLearns(h))
                                                       ELSE seated[h]]
      /\ UNCHANGED <<qvars, window, origin, measured, raw, calls, pending, deferred, router, replaced,
                     keys, rounds, credit, seen, clocked, routed, tally, evidence>>
  BY DEF CloseSeatRounds, windowVars, scoreVars, routerVars, tallyVars
<1>2. UNCHANGED <<now, opened, retained, decision, status, returns, retired, successor, deliveries,
                  released, finalized, unread>>
  BY <1>1 DEF qvars
<1>3. phase' \notin AllRead /\ calls = {}
  BY <1>1 DEF AllRead, RoundsInv, CallsInv
<1>4. \A h \in seatRounds : h \in Handles /\ h \in Issued /\ seated[h] = <<>> /\ routed[h] = <<>>
                            /\ decision[h].contract # Noop
  BY Kept DEF RoundsInv, SeatInv, NamedInv, NamedByBooks
<1>5. \A h \in Handles : SeatLearns(h) \in Trained
  <2>1. \A h \in Handles : (raw[h] = TRUE) \in BOOLEAN /\ Charged(h) \in BOOLEAN
    BY DEF Charged
  <2> QED
    BY <2>1 DEF SeatLearns, TrainedOn, Trained
<1>6. Closing \subseteq seatRounds
  BY DEF Closing
<1>7. /\ \A h \in Closing : seated'[h] = <<SeatLearns(h)>>
      /\ \A h \in Handles : h \notin Closing => seated'[h] = seated[h]
  <2>1. ASSUME NEW h \in Closing PROVE seated'[h] = <<SeatLearns(h)>>
    <3>1. seated'[h] = Append(<<>>, SeatLearns(h))
      BY <1>1, <1>4, <1>6
    <3> QED
      BY <3>1, AppendWritten
  <2> QED
    BY <1>1, <2>1
<1>8. RoundTypes'
  <2>1. seated \in [Handles -> Seq(Trained)]
    BY DEF RoundsInv, RoundTypes
  <2>2. ASSUME NEW h \in Handles PROVE seated'[h] \in Seq(Trained)
    <3>1. CASE h \in Closing
      <4>1. <<SeatLearns(h)>> \in Seq(Trained)
        BY <1>5
      <4> QED
        BY <1>7, <3>1, <4>1
    <3>2. CASE h \notin Closing
      BY <1>7, <2>1, <3>2
    <3> QED
      BY <3>1, <3>2
  <2>3. seated' \in [Handles -> Seq(Trained)]
    BY <1>1, <2>2
  <2>4. phase' \in Phases
    BY <1>1 DEF Phases
  <2> QED
    BY <1>1, <1>2, <2>3, <2>4 DEF RoundsInv, RoundTypes, NoSuccessor
<1>9. ReadersInv'
  BY <1>1, <1>2 DEF RoundsInv, ReadersInv, Reads, Issued, Pending
<1>10. SeenInv'
  BY <1>1, <1>2, <1>3 DEF RoundsInv, SeenInv, Reads, DeliveredCount
<1>11. NotesInv'
  BY <1>1, <1>2, QuietNotes
<1>12. KeysInv'
  <2>1. rounds \subseteq clocked'
    BY <1>1 DEF RoundsInv, KeysInv
  <2> QED
    BY <1>1, <1>2, <1>3, <2>1, QuietKeys, Kept
<1>13. PriceInv'
  BY <1>1, <1>2 DEF RoundsInv, PriceInv, Open, Credited, WasCharged
<1>14. CallsInv'
  BY <1>1, <1>3 DEF CallsInv
<1>15. SeatInv'
  <2>1. SeatInv
    BY DEF RoundsInv
  <2>2. \A h \in seatRounds' : seated'[h] = <<>> /\ routed'[h] = <<>>
    BY <1>1, <1>4, <1>7
  <2>3. \A h \in seatRounds' \cup pending' \cup deferred' : decision'[h].contract # Noop
    BY <1>1, <1>2, <2>1 DEF SeatInv
  <2>4. Closing' = {}
    <3>1. \A h : (FirstOutcome(h)' = FirstOutcome(h)) /\ (AwaitsClose(h)' <=> AwaitsClose(h))
      BY <1>1, <1>2 DEF FirstOutcome, AwaitsClose
    <3> QED
      BY <1>1, <1>2, <3>1 DEF Closing
  <2>5. ASSUME NEW h \in Handles, seated'[h] # <<>>
        PROVE  /\ decision'[h].contract # Noop /\ status'[h] # "pending"
               /\ h \in rounds' => /\ phase' = "learn" /\ seated'[h] = <<SeatLearns(h)>>'
                                   /\ FirstOutcome(h)' # "settled" => ~AwaitsClose(h)'
    <3>1. CASE h \in Closing
      <4>1. SeatLearns(h)' = SeatLearns(h)
        BY <1>1, <1>2 DEF SeatLearns, FirstOutcome, Charged
      <4>2. status[h] # "pending" /\ (FirstOutcome(h) # "settled" => ~AwaitsClose(h))
        BY <3>1 DEF Closing
      <4>3. (FirstOutcome(h)' = FirstOutcome(h)) /\ (AwaitsClose(h)' <=> AwaitsClose(h))
        BY <1>1, <1>2 DEF FirstOutcome, AwaitsClose
      <4> QED
        BY <1>1, <1>2, <1>4, <1>6, <1>7, <3>1, <4>1, <4>2, <4>3
    <3>2. CASE h \notin Closing
      <4>1. seated[h] # <<>>
        BY <1>7, <2>5, <3>2
      <4>2. decision[h].contract # Noop /\ status[h] # "pending" /\ (h \in rounds => phase = "learn")
        BY <2>1, <4>1 DEF SeatInv
      <4> QED
        BY <1>1, <1>2, <4>2
    <3> QED
      BY <3>1, <3>2
  <2> QED
    BY <2>2, <2>3, <2>4, <2>5 DEF SeatInv
<1>16. LearnInv'
  <2>1. LearnInv
    BY DEF RoundsInv
  <2>2. ASSUME NEW h \in Handles
        PROVE  /\ Len(routed'[h]) <= 1 /\ Len(seated'[h]) <= 1
               /\ routed'[h] # <<>> => routed'[h][1].charged = WasCharged(h)'
               /\ routed'[h] # <<>> /\ seated'[h] # <<>> => routed'[h] = seated'[h]
               /\ h >= opened' => routed'[h] = <<>> /\ seated'[h] = <<>> /\ measured'[h] = None
    <3>1. WasCharged(h)' = WasCharged(h)
      BY <1>1 DEF WasCharged
    <3>2. CASE h \in Closing
      <4>1. Len(seated'[h]) = 1 /\ routed'[h] = <<>> /\ ~(h >= opened')
        BY <1>1, <1>2, <1>4, <1>6, <1>7, <3>2, Kept
      <4> QED
        BY <1>1, <2>1, <3>1, <4>1 DEF LearnInv, LearnedAlike
    <3>3. CASE h \notin Closing
      BY <1>1, <1>2, <1>7, <2>1, <3>1, <3>3 DEF LearnInv, LearnedAlike
    <3> QED
      BY <3>2, <3>3
  <2>3. LearnedAlike'
    BY <2>2 DEF LearnedAlike
  <2> QED
    BY <2>2, <2>3 DEF LearnInv
<1>17. TallyInv'
  <2>1. \A k : Counted1(k)' = Counted1(k)
    BY <1>2 DEF Counted1, Issued, Tallied, IsEvaluation
  <2> QED
    BY <1>1, <1>2, <2>1 DEF RoundsInv, TallyInv, Issued
<1>18. NamedInv'
  BY <1>1, <1>2 DEF RoundsInv, NamedInv, NamedByBooks, Credited, Priced, Scored
<1> QED
  BY <1>8, <1>9, <1>10, <1>11, <1>12, <1>13, <1>14, <1>15, <1>16, <1>17, <1>18 DEF RoundsInv

-------------------------------------------------------------------------------
(* The routers' books while they learn.                                        *)
Books == [keys : SUBSET Handles, rounds : SUBSET retained, credit : [Handles -> Int \cup {None}],
          routed : [Handles -> Seq(Trained)]]
CreditedIn(b) == {h \in Handles : b.credit[h] # None}
BooksTrue(b) ==
    /\ b \in Books
    /\ b.rounds = b.keys \cup CreditedIn(b) /\ b.keys \cap CreditedIn(b) = {}
    /\ \A h \in b.rounds : /\ Sampled(h) /\ h \in clocked /\ b.routed[h] = <<>>
                           /\ seated[h] # <<>> => /\ seated[h] = <<SeatLearns(h)>>
                                                  /\ decision[h].contract # Noop
    /\ \A h \in CreditedIn(b) :
          /\ origin[h] = measured[h]
          /\ decision[h].contract # Noop =>
                returns[h] # <<>> /\ returns[h][1] # "settled" /\ b.credit[h] <= now
    /\ \A h \in seatRounds : b.routed[h] = <<>>
    /\ \A h \in Handles :
          /\ Len(b.routed[h]) <= 1
          /\ b.routed[h] # <<>> => b.routed[h][1].charged = WasCharged(h)
          /\ b.routed[h] # <<>> /\ seated[h] # <<>> => b.routed[h] = seated[h]
          /\ h >= opened => b.routed[h] = <<>>

(* They are true as long as the routers learn.                                 *)
LEMMA BooksAre ==
    ASSUME QueueInv, RoundsInv, phase = "learn" PROVE BooksTrue(RouterBooks)
<1>1. PICK b : b = RouterBooks
  OBVIOUS
<1>2. b.keys = keys /\ b.rounds = rounds /\ b.credit = credit /\ b.routed = routed
  BY <1>1 DEF RouterBooks
<1>3. rounds \subseteq retained /\ retained \subseteq Handles /\ keys \subseteq rounds
  BY Kept DEF RoundsInv, NamedInv, KeysInv
<1>4. b \in Books
  <2>1. keys \in SUBSET Handles /\ rounds \in SUBSET retained
    BY <1>3
  <2>2. credit \in [Handles -> Int \cup {None}] /\ routed \in [Handles -> Seq(Trained)]
    BY DEF RoundsInv, RoundTypes
  <2> QED
    BY <1>1, <2>1, <2>2 DEF RouterBooks, Books
<1>5. CreditedIn(b) = Credited
  BY <1>2 DEF CreditedIn, Credited
<1>6. \A h \in rounds : /\ Sampled(h) /\ h \in clocked /\ routed[h] = <<>>
                        /\ seated[h] # <<>> => /\ seated[h] = <<SeatLearns(h)>>
                                               /\ decision[h].contract # Noop
  BY <1>3 DEF RoundsInv, KeysInv, SeatInv
<1>7. \A h \in Credited : origin[h] = measured[h]
  BY DEF RoundsInv, PriceInv, Credited
<1>8. \A h \in Credited : decision[h].contract # Noop =>
                returns[h] # <<>> /\ returns[h][1] # "settled" /\ credit[h] <= now
  BY DEF RoundsInv, KeysInv
<1>9. rounds = keys \cup Credited /\ keys \cap Credited = {}
  BY DEF RoundsInv, KeysInv
<1>10. \A h \in seatRounds : routed[h] = <<>>
  BY DEF RoundsInv, SeatInv
<1>11. \A h \in Handles :
          /\ Len(routed[h]) <= 1
          /\ routed[h] # <<>> => routed[h][1].charged = WasCharged(h)
          /\ routed[h] # <<>> /\ seated[h] # <<>> => routed[h] = seated[h]
          /\ h >= opened => routed[h] = <<>>
  BY DEF RoundsInv, LearnInv, LearnedAlike
<1>12. BooksTrue(b)
  BY <1>2, <1>4, <1>5, <1>6, <1>7, <1>8, <1>9, <1>10, <1>11 DEF BooksTrue
<1> QED
  BY <1>1, <1>12

(* What an expired or credited round comes to in the books.                    *)
LateIn(b) == {h \in Handles : Late(h) /\ (h \in b.keys \/ b.credit[h] # None)}
DueIn(b) == {h \in CreditedIn(b) \ LateIn(b) : b.credit[h] <= now /\ ~AwaitsClose(h)}
TrainingIn(b) == {h \in DueIn(b) : decision[h].actor = router /\ h \in b.rounds}

Credits(b, c) ==
    /\ c \in [keys : SUBSET Handles, rounds : SUBSET retained,
              credit : [Handles -> Int \cup {None}], routed : [Handles -> Seq(Trained)]]
    /\ c.keys = b.keys \ LateIn(b) /\ c.rounds = (b.rounds \ LateIn(b)) \ DueIn(b)
    /\ \A h \in Handles :
          /\ c.credit[h] = IF h \in LateIn(b) \cup DueIn(b) THEN None ELSE b.credit[h]
          /\ c.routed[h] = IF h \in TrainingIn(b)
                           THEN Append(b.routed[h], TrainedOn(FALSE, Charged(h)))
                           ELSE b.routed[h]

(* What the pass of the abstentions makes of the books. *)
LEMMA CreditIs ==
    ASSUME NEW b \in Books, NEW c, c = CreditAbstentions(b) PROVE Credits(b, c)
<1>1. PICK L : L = LateIn(b)
  OBVIOUS
<1>2. PICK kept : kept = ExpireLearning(b)
  OBVIOUS
<1>3. kept = [b EXCEPT !.rounds = @ \ L, !.keys = @ \ L,
                  !.credit = [h \in Handles |-> IF h \in L THEN None ELSE @[h]]]
  BY <1>1, <1>2 DEF ExpireLearning, LateIn
<1>4. /\ b.keys \in SUBSET Handles /\ b.rounds \in SUBSET retained
      /\ b.credit \in [Handles -> Int \cup {None}] /\ b.routed \in [Handles -> Seq(Trained)]
  BY DEF Books
<1>5. /\ kept.keys = b.keys \ L /\ kept.rounds = b.rounds \ L /\ kept.routed = b.routed
      /\ kept.credit = [h \in Handles |-> IF h \in L THEN None ELSE b.credit[h]]
      /\ kept = [keys |-> kept.keys, rounds |-> kept.rounds, credit |-> kept.credit,
                 routed |-> kept.routed]
  BY <1>3 DEF Books
<1>6. PICK D : D = {h \in Handles : kept.credit[h] # None /\ kept.credit[h] <= now
                                    /\ ~AwaitsClose(h)}
  OBVIOUS
<1>7. PICK T : T = {h \in D : decision[h].actor = router /\ h \in kept.rounds}
  OBVIOUS
<1>8. c = [kept EXCEPT !.rounds = @ \ D,
              !.credit = [h \in Handles |-> IF h \in D THEN None ELSE @[h]],
              !.routed = [h \in Handles |-> IF h \in T
                              THEN Append(@[h], TrainedOn(FALSE, Charged(h))) ELSE @[h]]]
  BY <1>2, <1>6, <1>7 DEF CreditAbstentions
<1>9. /\ c.keys = kept.keys /\ c.rounds = kept.rounds \ D
      /\ c.credit = [h \in Handles |-> IF h \in D THEN None ELSE kept.credit[h]]
      /\ c.routed = [h \in Handles |-> IF h \in T
                              THEN Append(kept.routed[h], TrainedOn(FALSE, Charged(h)))
                              ELSE kept.routed[h]]
      /\ c = [keys |-> c.keys, rounds |-> c.rounds, credit |-> c.credit, routed |-> c.routed]
  BY <1>5, <1>8
<1>10. D = DueIn(b)
  BY <1>1, <1>5, <1>6 DEF DueIn, CreditedIn
<1>11. T = TrainingIn(b)
  BY <1>1, <1>5, <1>7, <1>10 DEF TrainingIn, DueIn
<1>12. \A h \in Handles : TrainedOn(FALSE, Charged(h)) \in Trained
  <2>1. \A h \in Handles : Charged(h) \in BOOLEAN
    BY DEF Charged
  <2> QED
    BY <2>1 DEF TrainedOn, Trained
<1>13. c.credit \in [Handles -> Int \cup {None}] /\ c.routed \in [Handles -> Seq(Trained)]
  <2>1. \A h \in Handles : c.credit[h] \in Int \cup {None}
    BY <1>4, <1>5, <1>9
  <2>2. ASSUME NEW h \in Handles PROVE c.routed[h] \in Seq(Trained)
    <3>1. b.routed[h] \in Seq(Trained) /\ kept.routed[h] = b.routed[h]
      BY <1>4, <1>5
    <3>2. PICK x : x = TrainedOn(FALSE, Charged(h))
      OBVIOUS
    <3>3. Append(b.routed[h], x) \in Seq(Trained)
      BY <1>12, <3>1, <3>2, AppendSet
    <3> QED
      BY <1>9, <3>1, <3>2, <3>3
  <2> QED
    BY <1>9, <2>1, <2>2
<1>14. c \in [keys : SUBSET Handles, rounds : SUBSET retained,
              credit : [Handles -> Int \cup {None}], routed : [Handles -> Seq(Trained)]]
  BY <1>4, <1>5, <1>9, <1>13
<1>15. ASSUME NEW h \in Handles
       PROVE  /\ c.credit[h] = IF h \in LateIn(b) \cup DueIn(b) THEN None ELSE b.credit[h]
              /\ c.routed[h] = IF h \in TrainingIn(b)
                               THEN Append(b.routed[h], TrainedOn(FALSE, Charged(h)))
                               ELSE b.routed[h]
  BY <1>1, <1>5, <1>9, <1>10, <1>11
<1> QED
  BY <1>1, <1>5, <1>9, <1>10, <1>14, <1>15 DEF Credits

(* The returns of a kept decision: none while it is pending, its outcome first  *)
(* unless a penalty came before it.                                            *)
LEMMA FirstReturn ==
    ASSUME QueueInv, NEW h \in retained
    PROVE  /\ returns[h] # <<>> <=> status[h] # "pending"
           /\ returns[h] # <<>> /\ ~(Len(returns[h]) > 1) => returns[h][1] = status[h]
<1>1. status[h] \in Statuses /\ status[h] # "none"
  BY Kept DEF QueueInv, StatusInv, Issued
<1>2. \/ status[h] = "pending" /\ returns[h] = <<>>
      \/ status[h] # "pending" /\ returns[h] = <<status[h]>>
      \/ status[h] # "pending" /\ returns[h] = <<"timed_out", status[h]>>
  BY <1>1, StatusesApart DEF QueueInv, ReturnsInv, Statuses, Awaiting
<1>3. returns[h] = <<status[h]>> => Len(returns[h]) = 1 /\ returns[h][1] = status[h]
  OBVIOUS
<1>4. returns[h] = <<"timed_out", status[h]>> => Len(returns[h]) = 2
  OBVIOUS
<1> QED
  BY <1>2, <1>3, <1>4

(* No seat's own round is open when its router learns what closed it.          *)
LEMMA SeatWasClosed ==
    ASSUME QueueInv, RoundsInv, phase = "learn", NEW h \in retained, returns[h] # <<>>,
           returns[h][1] # "settled" => ~AwaitsClose(h)
    PROVE  h \notin seatRounds
<1>1. Closing = {}
  BY DEF RoundsInv, SeatInv
<1>2. status[h] # "pending"
  BY FirstReturn
<1> QED
  BY <1>1, <1>2 DEF Closing, FirstOutcome

(* Expired and credited rounds leave true books.                               *)
LEMMA CreditKeeps ==
    ASSUME QueueInv, RoundsInv, phase = "learn", NEW b, BooksTrue(b),
           NEW c, c = CreditAbstentions(b)
    PROVE  BooksTrue(c) /\ c.rounds \subseteq b.rounds /\ c.keys \subseteq b.keys
<1>1. PICK L : L = LateIn(b)
  OBVIOUS
<1>2. PICK D : D = DueIn(b)
  OBVIOUS
<1>3. PICK T : T = TrainingIn(b)
  OBVIOUS
<1>4. b \in Books
  BY DEF BooksTrue
<1>5. /\ c \in Books
      /\ c.keys = b.keys \ L /\ c.rounds = (b.rounds \ L) \ D
      /\ \A h \in Handles :
            /\ c.credit[h] = IF h \in L \cup D THEN None ELSE b.credit[h]
            /\ c.routed[h] = IF h \in T THEN Append(b.routed[h], TrainedOn(FALSE, Charged(h)))
                             ELSE b.routed[h]
  <2>1. Credits(b, c)
    BY <1>4, CreditIs
  <2>2. c \in Books
    BY <2>1 DEF Books, Credits
  <2> QED
    BY <1>1, <1>2, <1>3, <2>1, <2>2 DEF Credits
<1>6. /\ b.keys \subseteq Handles /\ b.rounds \subseteq retained /\ retained \subseteq Handles
      /\ CreditedIn(b) \subseteq Handles
  BY <1>4, Kept DEF Books, CreditedIn
<1>7. /\ D \subseteq CreditedIn(b) /\ D \cap L = {} /\ T \subseteq D /\ T \subseteq b.rounds
      /\ \A h \in D : ~AwaitsClose(h)
  BY <1>1, <1>2, <1>3 DEF DueIn, TrainingIn
<1>8. CreditedIn(c) = (CreditedIn(b) \ L) \ D
  BY <1>5 DEF CreditedIn
<1>9. b.rounds = b.keys \cup CreditedIn(b) /\ b.keys \cap CreditedIn(b) = {}
  BY DEF BooksTrue
<1>10. c.rounds = c.keys \cup CreditedIn(c) /\ c.keys \cap CreditedIn(c) = {}
  BY <1>5, <1>7, <1>8, <1>9
<1>11. \A h \in Handles : h \notin T => c.routed[h] = b.routed[h]
  BY <1>5
<1>12. ASSUME NEW h \in T
       PROVE  /\ h \in Handles /\ h \in retained /\ h \in Issued /\ h \notin seatRounds
              /\ c.routed[h] = <<TrainedOn(FALSE, WasCharged(h))>>
              /\ seated[h] # <<>> => seated[h] = <<TrainedOn(FALSE, WasCharged(h))>>
  <2>1. h \in Handles /\ h \in retained /\ h \in Issued /\ h \in CreditedIn(b) /\ h \in b.rounds
    BY <1>6, <1>7, Kept
  <2>2. /\ b.routed[h] = <<>> /\ origin[h] = measured[h]
        /\ seated[h] # <<>> => seated[h] = <<SeatLearns(h)>> /\ decision[h].contract # Noop
        /\ decision[h].contract # Noop => returns[h] # <<>> /\ returns[h][1] # "settled"
    BY <2>1 DEF BooksTrue
  <2>3. Charged(h) = WasCharged(h)
    BY <2>2 DEF Charged, WasCharged
  <2>4. c.routed[h] = Append(<<>>, TrainedOn(FALSE, WasCharged(h)))
    BY <1>5, <2>1, <2>2, <2>3
  <2>5. c.routed[h] = <<TrainedOn(FALSE, WasCharged(h))>>
    BY <2>4, AppendWritten
  <2>6. seated[h] # <<>> => seated[h] = <<TrainedOn(FALSE, WasCharged(h))>>
    BY <2>2, <2>3 DEF SeatLearns, FirstOutcome
  <2>7. h \notin seatRounds
    <3>1. CASE decision[h].contract = Noop
      BY <3>1 DEF RoundsInv, SeatInv
    <3>2. CASE decision[h].contract # Noop
      BY <1>7, <2>1, <2>2, <3>2, SeatWasClosed
    <3> QED
      BY <3>1, <3>2
  <2> QED
    BY <2>1, <2>5, <2>6, <2>7
<1>13. ASSUME NEW h \in c.rounds
       PROVE  /\ Sampled(h) /\ h \in clocked /\ c.routed[h] = <<>>
              /\ seated[h] # <<>> => seated[h] = <<SeatLearns(h)>> /\ decision[h].contract # Noop
  <2>1. h \in b.rounds /\ h \in Handles /\ h \notin T
    BY <1>5, <1>6, <1>7
  <2> QED
    BY <1>11, <2>1 DEF BooksTrue
<1>14. ASSUME NEW h \in CreditedIn(c)
       PROVE  /\ origin[h] = measured[h]
              /\ decision[h].contract # Noop =>
                    returns[h] # <<>> /\ returns[h][1] # "settled" /\ c.credit[h] <= now
  <2>1. h \in CreditedIn(b) /\ c.credit[h] = b.credit[h]
    BY <1>5, <1>8 DEF CreditedIn
  <2> QED
    BY <2>1 DEF BooksTrue
<1>15. ASSUME NEW h \in seatRounds PROVE c.routed[h] = <<>>
  <2>1. h \in Handles
    BY Kept DEF RoundsInv, NamedInv, NamedByBooks
  <2> QED
    BY <1>11, <1>12, <2>1 DEF BooksTrue
<1>16. ASSUME NEW h \in Handles
       PROVE  /\ Len(c.routed[h]) <= 1
              /\ c.routed[h] # <<>> => c.routed[h][1].charged = WasCharged(h)
              /\ c.routed[h] # <<>> /\ seated[h] # <<>> => c.routed[h] = seated[h]
              /\ h >= opened => c.routed[h] = <<>>
  <2>1. CASE h \in T
    <3>1. PICK x : x = TrainedOn(FALSE, WasCharged(h))
      OBVIOUS
    <3>2. x.charged = WasCharged(h) /\ c.routed[h] = <<x>>
      BY <1>12, <2>1, <3>1 DEF TrainedOn
    <3>3. Len(c.routed[h]) = 1 /\ c.routed[h][1] = x
      BY <3>2
    <3>4. ~(h >= opened) /\ (seated[h] # <<>> => c.routed[h] = seated[h])
      BY <1>12, <2>1, <3>1, <3>2, Kept
    <3> QED
      BY <3>2, <3>3, <3>4
  <2>2. CASE h \notin T
    BY <1>11, <2>2 DEF BooksTrue
  <2> QED
    BY <2>1, <2>2
<1>17. BooksTrue(c)
  BY <1>5, <1>10, <1>13, <1>14, <1>15, <1>16 DEF BooksTrue
<1> QED
  BY <1>5, <1>17

(* A return takes its decision's key away. *)
Popped(b, h) == [b EXCEPT !.keys = @ \ {h}]

(* A round leaves the books without training.                                  *)
LEMMA OrphanKeeps ==
    ASSUME NEW b, BooksTrue(b), NEW h \in b.keys,
           NEW c, c = Orphan(Popped(b, h), h)
    PROVE  BooksTrue(c) /\ c.rounds \subseteq b.rounds /\ c.keys = b.keys \ {h}
<1>1. b \in Books /\ h \notin CreditedIn(b) /\ b.rounds = b.keys \cup CreditedIn(b)
  BY DEF BooksTrue
<1>2. /\ c.keys = b.keys \ {h} /\ c.rounds = b.rounds \ {h} /\ c.credit = b.credit
      /\ c.routed = b.routed /\ c \in Books
  BY <1>1 DEF Orphan, Discard, Books, Popped
<1>3. CreditedIn(c) = CreditedIn(b)
  BY <1>2 DEF CreditedIn
<1>4. c.rounds = c.keys \cup CreditedIn(c) /\ c.keys \cap CreditedIn(c) = {}
  BY <1>1, <1>2, <1>3 DEF BooksTrue
<1> QED
  BY <1>2, <1>3, <1>4 DEF BooksTrue

(* What training comes to in the book's fields. *)
LEMMA OneLong == ASSUME NEW x, NEW s, s = <<x>> PROVE Len(s) <= 1 /\ s[1] = x
OBVIOUS

IsTrained(rt, h, x, r) == r = [rt EXCEPT ![h] = Append(@, x)]

(* The books once a round was trained, field by field. *)
LEMMA TrainedBook ==
    ASSUME NEW ks, NEW rs, NEW cr, NEW rt, NEW h \in rs, NEW x, NEW r, IsTrained(rt, h, x, r)
    PROVE  Train([keys |-> ks, rounds |-> rs, credit |-> cr, routed |-> rt], h, x)
               = [keys |-> ks, rounds |-> rs \ {h}, credit |-> cr, routed |-> r]
BY DEF Train, Discard, IsTrained

TrainedTo(b, h, x, c) ==
    /\ c.keys = b.keys \ {h} /\ c.rounds = b.rounds \ {h} /\ c.credit = b.credit
    /\ IsTrained(b.routed, h, x, c.routed)
    /\ c = [keys |-> c.keys, rounds |-> c.rounds, credit |-> c.credit, routed |-> c.routed]

(* The books once a key was popped and its round trained. *)
LEMMA TrainedIs ==
    ASSUME NEW b \in Books, NEW h \in b.rounds, NEW x, NEW p, p = Popped(b, h),
           NEW c, c = Train(p, h, x)
    PROVE  TrainedTo(b, h, x, c)
<1>1. PICK ks, rs, cr, rt : ks = b.keys \ {h} /\ rs = b.rounds /\ cr = b.credit /\ rt = b.routed
  OBVIOUS
<1>2. PICK r : IsTrained(rt, h, x, r)
  BY DEF IsTrained
<1>3. p = [keys |-> ks, rounds |-> rs, credit |-> cr, routed |-> rt] /\ h \in rs
  BY <1>1 DEF Books, Popped
<1>4. c = [keys |-> ks, rounds |-> rs \ {h}, credit |-> cr, routed |-> r]
  BY <1>2, <1>3, TrainedBook
<1>5. c.keys = ks /\ c.rounds = rs \ {h} /\ c.credit = cr /\ c.routed = r
  BY <1>4
<1>6. c = [keys |-> c.keys, rounds |-> c.rounds, credit |-> c.credit, routed |-> c.routed]
  BY <1>4, <1>5
<1> QED
  BY <1>1, <1>2, <1>5, <1>6 DEF TrainedTo

(* A round trains its router once, on what its seat was trained on.            *)
LEMMA TrainKeeps ==
    ASSUME QueueInv, RoundsInv, NEW b, BooksTrue(b), NEW h \in b.keys, NEW x \in Trained,
           x.charged = WasCharged(h), h \notin seatRounds, seated[h] # <<>> => seated[h] = <<x>>,
           NEW p, p = Popped(b, h), NEW c, c = Train(p, h, x)
    PROVE  BooksTrue(c) /\ c.rounds \subseteq b.rounds /\ c.keys = b.keys \ {h}
<1>1. b \in Books /\ h \notin CreditedIn(b) /\ b.rounds = b.keys \cup CreditedIn(b)
      /\ h \in b.rounds /\ b.keys \cap CreditedIn(b) = {}
  BY DEF BooksTrue
<1>2. /\ b.keys \in SUBSET Handles /\ b.rounds \in SUBSET retained /\ h \in Handles
      /\ b.credit \in [Handles -> Int \cup {None}] /\ b.routed \in [Handles -> Seq(Trained)]
  BY <1>1 DEF Books
<1>3. b.routed[h] = <<>> /\ Append(<<>>, x) = <<x>> /\ <<x>> \in Seq(Trained)
  BY <1>1, AppendWritten DEF BooksTrue
<1>5. /\ c.keys = b.keys \ {h} /\ c.rounds = b.rounds \ {h} /\ c.credit = b.credit
      /\ c.routed = [b.routed EXCEPT ![h] = <<x>>]
      /\ c = [keys |-> c.keys, rounds |-> c.rounds, credit |-> c.credit, routed |-> c.routed]
  <2>1. TrainedTo(b, h, x, c)
    BY <1>1, TrainedIs
  <2>2. IsTrained(b.routed, h, x, c.routed)
    BY <2>1 DEF TrainedTo
  <2>3. c.routed = [b.routed EXCEPT ![h] = <<x>>]
    BY <1>2, <1>3, <2>2 DEF IsTrained
  <2> QED
    BY <2>1, <2>3 DEF TrainedTo
<1>6. c.routed[h] = <<x>> /\ \A g \in Handles : g # h => c.routed[g] = b.routed[g]
  BY <1>2, <1>5
<1>7. c \in Books
  <2>1. c.routed \in [Handles -> Seq(Trained)]
    BY <1>2, <1>3, <1>5
  <2> QED
    BY <1>2, <1>5, <2>1 DEF Books
<1>8. CreditedIn(c) = CreditedIn(b)
  BY <1>5 DEF CreditedIn
<1>9. c.rounds = c.keys \cup CreditedIn(c) /\ c.keys \cap CreditedIn(c) = {}
  <2>1. c.keys = b.keys \ {h} /\ c.rounds = b.rounds \ {h}
    BY <1>5
  <2> QED
    BY <1>1, <1>8, <2>1
<1>10. retained \subseteq Handles /\ retained \subseteq Issued
  BY Kept
<1>11. ASSUME NEW g \in c.rounds
       PROVE  /\ Sampled(g) /\ g \in clocked /\ c.routed[g] = <<>>
              /\ seated[g] # <<>> => seated[g] = <<SeatLearns(g)>> /\ decision[g].contract # Noop
  BY <1>2, <1>5, <1>6, <1>10 DEF BooksTrue
<1>12. ASSUME NEW g \in CreditedIn(c)
       PROVE  /\ origin[g] = measured[g]
              /\ decision[g].contract # Noop =>
                    returns[g] # <<>> /\ returns[g][1] # "settled" /\ c.credit[g] <= now
  BY <1>5, <1>8 DEF BooksTrue
<1>13. ASSUME NEW g \in seatRounds PROVE c.routed[g] = <<>>
  <2>1. g # h /\ b.routed[g] = <<>>
    BY DEF BooksTrue
  <2>2. g \in Handles
    BY Kept DEF RoundsInv, NamedInv, NamedByBooks
  <2> QED
    BY <1>6, <2>1, <2>2
<1>14. ASSUME NEW g \in Handles
       PROVE  /\ Len(c.routed[g]) <= 1
              /\ c.routed[g] # <<>> => c.routed[g][1].charged = WasCharged(g)
              /\ c.routed[g] # <<>> /\ seated[g] # <<>> => c.routed[g] = seated[g]
              /\ g >= opened => c.routed[g] = <<>>
  <2>1. CASE g = h
    <3>1. c.routed[g] = <<x>>
      BY <1>6, <2>1
    <3>2. ~(g >= opened)
      BY <1>1, <1>2, <1>10, <2>1, Kept
    <3>3. Len(c.routed[g]) <= 1 /\ c.routed[g][1] = x
      BY <3>1, OneLong
    <3>4. c.routed[g][1].charged = WasCharged(g) /\ (seated[g] # <<>> => c.routed[g] = seated[g])
      BY <2>1, <3>1, <3>3
    <3> QED
      BY <3>2, <3>3, <3>4
  <2>2. CASE g # h
    BY <1>6, <2>2 DEF BooksTrue
  <2> QED
    BY <2>1, <2>2
<1>15. BooksTrue(c)
  BY <1>7, <1>9, <1>11, <1>12, <1>13, <1>14 DEF BooksTrue
<1> QED
  BY <1>5, <1>15

(* A round waits for its neutral credit.                                       *)
Postponed(p, h, t) == [p EXCEPT !.credit[h] = t]

(* A round put off to its deadline keeps the books true. *)
LEMMA DeferKeeps ==
    ASSUME QueueInv, NEW b, BooksTrue(b), NEW h \in b.keys, NEW t \in Int, origin[h] = measured[h],
           decision[h].contract # Noop => returns[h] # <<>> /\ returns[h][1] # "settled" /\ t <= now,
           NEW p, p = Popped(b, h), NEW c, c = Postponed(p, h, t)
    PROVE  BooksTrue(c) /\ c.rounds = b.rounds /\ c.keys = b.keys \ {h}
<1>1. b \in Books /\ h \notin CreditedIn(b) /\ b.rounds = b.keys \cup CreditedIn(b)
      /\ h \in b.rounds /\ b.keys \cap CreditedIn(b) = {}
  BY DEF BooksTrue
<1>2. /\ b.keys \in SUBSET Handles /\ b.rounds \in SUBSET retained /\ h \in Handles
      /\ b.credit \in [Handles -> Int \cup {None}] /\ b.routed \in [Handles -> Seq(Trained)]
  BY <1>1 DEF Books
<1>3. /\ c.keys = b.keys \ {h} /\ c.rounds = b.rounds /\ c.routed = b.routed
      /\ c.credit = [b.credit EXCEPT ![h] = t]
      /\ c = [keys |-> c.keys, rounds |-> c.rounds, credit |-> c.credit, routed |-> c.routed]
  BY <1>1 DEF Books, Postponed, Popped
<1>4. c.credit[h] = t /\ \A g \in Handles : g # h => c.credit[g] = b.credit[g]
  BY <1>2, <1>3
<1>5. c \in Books
  <2>1. c.credit \in [Handles -> Int \cup {None}]
    BY <1>2, <1>3
  <2> QED
    BY <1>2, <1>3, <2>1 DEF Books
<1>6. CreditedIn(c) = CreditedIn(b) \cup {h}
  <2>1. t # None
    BY RoundsAssumption
  <2> QED
    BY <1>2, <1>4, <2>1 DEF CreditedIn
<1>7. c.rounds = c.keys \cup CreditedIn(c) /\ c.keys \cap CreditedIn(c) = {}
  <2>1. c.keys = b.keys \ {h} /\ c.rounds = b.rounds
    BY <1>3
  <2> QED
    BY <1>1, <1>6, <2>1
<1>8. ASSUME NEW g \in CreditedIn(c)
      PROVE  /\ origin[g] = measured[g]
             /\ decision[g].contract # Noop =>
                    returns[g] # <<>> /\ returns[g][1] # "settled" /\ c.credit[g] <= now
  <2>1. CASE g = h
    BY <1>4, <2>1
  <2>2. CASE g # h
    BY <1>4, <1>6, <2>2 DEF BooksTrue, CreditedIn
  <2> QED
    BY <2>1, <2>2
<1>9. BooksTrue(c)
  <2>1. c.rounds = b.rounds /\ c.routed = b.routed
    BY <1>3
  <2>2. \A g \in c.rounds : /\ Sampled(g) /\ g \in clocked /\ c.routed[g] = <<>>
                            /\ seated[g] # <<>> => /\ seated[g] = <<SeatLearns(g)>>
                                                   /\ decision[g].contract # Noop
    BY <2>1 DEF BooksTrue
  <2>3. /\ \A g \in seatRounds : c.routed[g] = <<>>
        /\ \A g \in Handles :
              /\ Len(c.routed[g]) <= 1
              /\ c.routed[g] # <<>> => c.routed[g][1].charged = WasCharged(g)
              /\ c.routed[g] # <<>> /\ seated[g] # <<>> => c.routed[g] = seated[g]
              /\ g >= opened => c.routed[g] = <<>>
    BY <2>1 DEF BooksTrue
  <2> QED
    BY <1>5, <1>7, <1>8, <2>2, <2>3 DEF BooksTrue
<1> QED
  BY <1>3, <1>9

(* A router learns a return: its book stays true, and the decision's key goes.  *)
LEMMA LearnKeeps ==
    ASSUME QueueInv, RoundsInv, phase = "learn", NEW b, BooksTrue(b), NEW e, NEW h \in retained,
           e.handle = h, NoteTrue(e, h), NEW delay \in Int,
           h \in b.keys /\ e.status # "timed_out" => ~(Len(returns[h]) > 1),
           NEW c, c = LearnReturn(b, e, delay)
    PROVE  BooksTrue(c) /\ c.rounds \subseteq b.rounds /\ c.keys \subseteq b.keys \ {h}
<1>1. PICK popped : popped = Popped(b, h)
  OBVIOUS
<1>2. CASE h \notin b.keys
  <2>1. c = b
    BY <1>2 DEF LearnReturn, Popped
  <2> QED
    BY <1>2, <2>1
<1>3. CASE h \in b.keys /\ decision[h].contract = Noop
  <2>1. PICK t \in Int : t = OpenedAt(h) + delay
    <3>1. decision[h].deadline \in Nat /\ Span \in Nat
      BY Kept, DecisionTyped, RoundsAssumption
    <3> QED
      BY <3>1 DEF OpenedAt
  <2>2. PICK d : d = Postponed(popped, h, t)
    OBVIOUS
  <2>3. c = CreditAbstentions(d)
    BY <1>1, <1>3, <2>1, <2>2 DEF LearnReturn, Popped, Postponed
  <2>4. e.status # "settled"
    BY <1>3 DEF NoteTrue
  <2>5. origin[h] = measured[h]
    BY <2>4 DEF NoteTrue
  <2>6. BooksTrue(d) /\ d.rounds = b.rounds /\ d.keys = b.keys \ {h}
    BY <1>1, <1>3, <2>2, <2>5, DeferKeeps
  <2>7. BooksTrue(c) /\ c.rounds \subseteq d.rounds /\ c.keys \subseteq d.keys
    BY <2>3, <2>6, CreditKeeps
  <2> QED
    BY <2>6, <2>7
<1>4. CASE h \in b.keys /\ decision[h].contract # Noop
  <2>1. /\ returns[h] # <<>>
        /\ e.status = "timed_out" => returns[h][1] = "timed_out"
        /\ e.status # "timed_out" => returns[h][1] = e.status
    BY <1>4, FirstReturn DEF NoteTrue
  <2>2. CASE decision[h].actor # router
    <3>1. c = Orphan(popped, h)
      BY <1>1, <1>4, <2>2 DEF LearnReturn, Popped
    <3> QED
      BY <1>1, <1>4, <3>1, OrphanKeeps
  <2>3. CASE decision[h].actor = router /\ e.status = "settled"
    <3>1. PICK x : x = TrainedOn(TRUE, raw[h] = TRUE)
      OBVIOUS
    <3>2. c = Train(popped, h, x)
      BY <1>1, <1>4, <2>3, <3>1 DEF LearnReturn, Popped
    <3>3. raw[h] # None /\ raw[h] = WasCharged(h) /\ WasCharged(h) \in BOOLEAN
      BY <2>3, Kept DEF NoteTrue, RoundsInv, PriceInv, WasCharged
    <3>4. (raw[h] = TRUE) = WasCharged(h)
      BY <3>3
    <3>5. x \in Trained /\ x.charged = WasCharged(h)
      BY <3>1, <3>3, <3>4 DEF TrainedOn, Trained
    <3>6. returns[h][1] = "settled"
      BY <2>1, <2>3
    <3>7. h \notin seatRounds
      BY <2>1, <3>6, SeatWasClosed
    <3>8. seated[h] # <<>> => seated[h] = <<x>>
      BY <1>4, <3>1, <3>6 DEF BooksTrue, SeatLearns, FirstOutcome
    <3> QED
      BY <1>1, <1>4, <3>2, <3>5, <3>7, <3>8, TrainKeeps
  <2>4. CASE decision[h].actor = router /\ e.status # "settled" /\ AwaitsClose(h)
    <3>1. PICK t : t = now
      OBVIOUS
    <3>2. c = Postponed(popped, h, t)
      BY <1>1, <1>4, <2>4, <3>1 DEF LearnReturn, Popped, Postponed
    <3>3. origin[h] = measured[h] /\ returns[h][1] # "settled" /\ t \in Int /\ t <= now
      BY <2>1, <2>4, <3>1, Kept DEF NoteTrue
    <3> QED
      BY <1>1, <1>4, <2>1, <3>2, <3>3, DeferKeeps
  <2>5. CASE decision[h].actor = router /\ e.status # "settled" /\ ~AwaitsClose(h)
    <3>1. PICK x : x = TrainedOn(FALSE, Charged(h))
      OBVIOUS
    <3>2. c = Train(popped, h, x)
      BY <1>1, <1>4, <2>5, <3>1 DEF LearnReturn, Popped
    <3>3. origin[h] = measured[h] /\ returns[h][1] # "settled"
      BY <2>1, <2>5 DEF NoteTrue
    <3>4. Charged(h) = WasCharged(h) /\ WasCharged(h) \in BOOLEAN
      BY <3>3 DEF Charged, WasCharged
    <3>5. x \in Trained /\ x.charged = WasCharged(h)
      BY <3>1, <3>4 DEF TrainedOn, Trained
    <3>6. h \notin seatRounds
      BY <2>1, <2>5, SeatWasClosed
    <3>7. seated[h] # <<>> => seated[h] = <<x>>
      BY <1>4, <3>1, <3>3 DEF BooksTrue, SeatLearns, FirstOutcome
    <3> QED
      BY <1>1, <1>4, <3>2, <3>5, <3>6, <3>7, TrainKeeps
  <2> QED
    BY <2>2, <2>3, <2>4, <2>5
<1> QED
  BY <1>2, <1>3, <1>4

(* The routers' books are replaced by true ones, and nothing else moves but     *)
(* what was read.                                                              *)
BookStep(c) ==
    /\ phase = "learn" /\ phase' \in {"learn", "drain"}
    /\ BooksTrue(c) /\ Keep(c) /\ c.rounds \subseteq rounds /\ seen' \in [Actors -> Nat]
    /\ phase' = "drain" => \A h \in c.rounds : seated[h] = <<>>
    /\ UNCHANGED <<qvars, window, origin, measured, raw, calls, pending, deferred, router, replaced,
                   seatRounds, clocked, seated, tally, evidence>>

(* What a step of the books alone writes. *)
LEMMA BookFields ==
    ASSUME NEW c, BookStep(c)
    PROVE  /\ keys' = c.keys /\ rounds' = c.rounds /\ credit' = c.credit /\ routed' = c.routed
           /\ Credited' = CreditedIn(c) /\ c \in Books
           /\ UNCHANGED <<now, opened, retained, decision, status, returns, retired, successor,
                          deliveries, released, finalized, unread>>
  BY DEF BookStep, Keep, Credited, CreditedIn, BooksTrue, qvars

(* It keeps what is not about the keys. *)
LEMMA BookRest ==
    ASSUME QueueInv, RoundsInv, NEW c, BookStep(c)
    PROVE  /\ RoundTypes' /\ ReadersInv' /\ PriceInv' /\ CallsInv' /\ SeatInv' /\ LearnInv'
           /\ TallyInv' /\ NamedInv'
<1>1. /\ keys' = c.keys /\ rounds' = c.rounds /\ credit' = c.credit /\ routed' = c.routed
      /\ Credited' = CreditedIn(c) /\ c \in Books
      /\ UNCHANGED <<now, opened, retained, decision, status, returns, retired, successor,
                     deliveries, released, finalized, unread>>
  BY BookFields
<1>2. /\ phase = "learn" /\ phase' \in {"learn", "drain"} /\ c.rounds \subseteq rounds
      /\ seen' \in [Actors -> Nat]
      /\ phase' = "drain" => \A h \in c.rounds : seated[h] = <<>>
      /\ UNCHANGED <<window, origin, measured, raw, calls, pending, deferred, router, replaced,
                     seatRounds, clocked, seated, tally, evidence>>
  BY DEF BookStep
<1>3. BooksTrue(c)
  BY DEF BookStep
<1>4. RoundTypes'
  <2>1. credit' \in [Handles -> Int \cup {None}] /\ routed' \in [Handles -> Seq(Trained)]
    BY <1>1 DEF Books
  <2>2. phase' \in Phases
    BY <1>2 DEF Phases
  <2> QED
    BY <1>1, <1>2, <2>1, <2>2 DEF RoundsInv, RoundTypes, NoSuccessor
<1>5. ReadersInv'
  BY <1>1, <1>2 DEF RoundsInv, ReadersInv, Reads, Issued, Pending
<1>6. PriceInv'
  <2>1. \A h \in CreditedIn(c) : origin[h] = measured[h]
    BY <1>3 DEF BooksTrue
  <2> QED
    BY <1>1, <1>2, <2>1 DEF RoundsInv, PriceInv, Open, WasCharged
<1>7. CallsInv'
  <2>1. calls = {}
    BY <1>2 DEF RoundsInv, CallsInv
  <2> QED
    BY <1>2, <2>1 DEF CallsInv
<1>8. SeatInv'
  <2>1. SeatInv
    BY DEF RoundsInv
  <2>2. \A h \in seatRounds' : seated'[h] = <<>> /\ routed'[h] = <<>>
    BY <1>1, <1>2, <1>3, <2>1 DEF BooksTrue, SeatInv
  <2>3. \A h \in seatRounds' \cup pending' \cup deferred' : decision'[h].contract # Noop
    BY <1>1, <1>2, <2>1 DEF SeatInv
  <2>4. \A h : /\ FirstOutcome(h)' = FirstOutcome(h) /\ (AwaitsClose(h)' <=> AwaitsClose(h))
               /\ SeatLearns(h)' = SeatLearns(h)
    BY <1>1, <1>2 DEF FirstOutcome, AwaitsClose, SeatLearns, Charged
  <2>5. Closing' = Closing
    BY <1>1, <1>2, <2>4 DEF Closing
  <2>6. ASSUME NEW h \in Handles, seated'[h] # <<>>
        PROVE  /\ decision'[h].contract # Noop /\ status'[h] # "pending"
               /\ h \in rounds' => /\ phase' = "learn" /\ seated'[h] = <<SeatLearns(h)>>'
                                   /\ FirstOutcome(h)' # "settled" => ~AwaitsClose(h)'
    <3>1. /\ decision[h].contract # Noop /\ status[h] # "pending"
          /\ h \in rounds => /\ seated[h] = <<SeatLearns(h)>>
                             /\ FirstOutcome(h) # "settled" => ~AwaitsClose(h)
      BY <1>2, <2>1, <2>6 DEF SeatInv
    <3>2. h \in rounds' => h \in rounds /\ phase' = "learn"
      BY <1>1, <1>2, <2>6
    <3> QED
      BY <1>1, <1>2, <2>4, <3>1, <3>2
  <2>7. phase' = "learn" => Closing' = {}
    BY <1>2, <2>1, <2>5 DEF SeatInv
  <2> QED
    BY <2>2, <2>3, <2>6, <2>7 DEF SeatInv
<1>9. LearnInv'
  <2>1. LearnInv
    BY DEF RoundsInv
  <2>2. ASSUME NEW h \in Handles
        PROVE  /\ Len(routed'[h]) <= 1 /\ Len(seated'[h]) <= 1
               /\ routed'[h] # <<>> => routed'[h][1].charged = WasCharged(h)'
               /\ routed'[h] # <<>> /\ seated'[h] # <<>> => routed'[h] = seated'[h]
               /\ h >= opened' => routed'[h] = <<>> /\ seated'[h] = <<>> /\ measured'[h] = None
    <3>1. WasCharged(h)' = WasCharged(h)
      BY <1>2 DEF WasCharged
    <3>2. /\ Len(c.routed[h]) <= 1
          /\ c.routed[h] # <<>> => c.routed[h][1].charged = WasCharged(h)
          /\ c.routed[h] # <<>> /\ seated[h] # <<>> => c.routed[h] = seated[h]
          /\ h >= opened => c.routed[h] = <<>>
      BY <1>3 DEF BooksTrue
    <3>3. Len(seated[h]) <= 1 /\ (h >= opened => seated[h] = <<>> /\ measured[h] = None)
      BY <2>1 DEF LearnInv, LearnedAlike
    <3> QED
      BY <1>1, <1>2, <3>1, <3>2, <3>3
  <2>3. LearnedAlike'
    BY <2>2 DEF LearnedAlike
  <2> QED
    BY <2>2, <2>3 DEF LearnInv
<1>10. TallyInv'
  <2>1. \A k : Counted1(k)' = Counted1(k)
    BY <1>1 DEF Counted1, Issued, Tallied, IsEvaluation
  <2>2. phase' # "release"
    BY <1>2
  <2> QED
    BY <1>1, <1>2, <2>1, <2>2 DEF RoundsInv, TallyInv, Issued
<1>11. NamedInv'
  <2>1. CreditedIn(c) \subseteq c.rounds
    BY <1>3 DEF BooksTrue
  <2>2. NamedByBooks' \subseteq NamedByBooks \cup rounds
    BY <1>1, <1>2, <2>1 DEF NamedByBooks, Priced, Scored
  <2> QED
    BY <1>1, <1>2, <2>2 DEF RoundsInv, NamedInv
<1> QED
  BY <1>4, <1>5, <1>6, <1>7, <1>8, <1>9, <1>10, <1>11

(* What the books say of the open rounds after the step. *)
LEMMA BookRounds ==
    ASSUME QueueInv, RoundsInv, NEW c, BookStep(c)
    PROVE  /\ rounds' = keys' \cup Credited' /\ keys' \cap Credited' = {}
           /\ \A h \in rounds' : Sampled(h)' /\ h \in clocked' /\ routed'[h] = <<>>
           /\ \A h \in Credited' : decision'[h].contract # Noop =>
                 returns'[h] # <<>> /\ returns'[h][1] # "settled" /\ credit'[h] <= now'
<1>1. /\ keys' = c.keys /\ rounds' = c.rounds /\ credit' = c.credit /\ routed' = c.routed
      /\ Credited' = CreditedIn(c) /\ clocked' = clocked
      /\ UNCHANGED <<now, decision, returns>>
  BY BookFields DEF BookStep
<1>2. BooksTrue(c)
  BY DEF BookStep
<1>3. c.rounds = c.keys \cup CreditedIn(c) /\ c.keys \cap CreditedIn(c) = {}
  BY <1>2 DEF BooksTrue
<1>4. \A h \in c.rounds : Sampled(h) /\ h \in clocked /\ c.routed[h] = <<>>
  BY <1>2 DEF BooksTrue
<1>5. \A h \in CreditedIn(c) : decision[h].contract # Noop =>
                 returns[h] # <<>> /\ returns[h][1] # "settled" /\ c.credit[h] <= now
  BY <1>2 DEF BooksTrue
<1>6. \A h : Sampled(h)' <=> Sampled(h)
  BY <1>1 DEF Sampled
<1> QED
  BY <1>1, <1>3, <1>4, <1>5, <1>6

-------------------------------------------------------------------------------
(* The routers the loop reads for: the one that draws, then the replaced ones.  *)
LEMMA ReadersAre ==
    ASSUME RoundTypes, NEW a
    PROVE  Reads(a) <=> \E k \in 1 .. Len(Readers) : Readers[k] = a
<1>1. router \in Actors /\ replaced \in Seq(Actors)
  BY DEF RoundTypes
<1>2. PICK s, t : s = <<router>> /\ t = replaced
  OBVIOUS
<1>3. s \in Seq(Actors) /\ t \in Seq(Actors) /\ Len(s) = 1 /\ s[1] = router
  BY <1>1, <1>2
<1>4. PICK l, m \in Nat : l = Len(s) /\ m = Len(t)
  BY <1>3
<1>5. /\ Len(s \o t) = l + m
      /\ \A k \in 1 .. l + m : (s \o t)[k] = IF k <= l THEN s[k] ELSE t[k - l]
  BY <1>3, <1>4, ConcatProperties
<1>6. l = 1 /\ Readers = s \o t
  BY <1>2, <1>3, <1>4 DEF Readers
<1>7. Len(Readers) = 1 + m /\ \A k \in 1 .. 1 + m : Readers[k] = IF k <= 1 THEN s[k] ELSE t[k - 1]
  BY <1>5, <1>6
<1>8. ASSUME NEW n \in 1 .. m, t[n] = a PROVE \E k \in 1 .. 1 + m : Readers[k] = a
  <2>1. n + 1 \in 1 .. 1 + m /\ ~(n + 1 <= 1) /\ n + 1 - 1 = n
    BY <1>4
  <2>2. Readers[n + 1] = t[n]
    BY <1>7, <2>1
  <2> QED
    BY <1>8, <2>1, <2>2
<1>9. ASSUME NEW k \in 1 .. 1 + m, Readers[k] = a, k # 1 PROVE \E n \in 1 .. m : t[n] = a
  <2>1. k - 1 \in 1 .. m /\ ~(k <= 1)
    BY <1>4, <1>9
  <2>2. Readers[k] = t[k - 1]
    BY <1>7, <2>1
  <2> QED
    BY <1>9, <2>1, <2>2
<1>10. Readers[1] = router /\ 1 \in 1 .. 1 + m
  BY <1>3, <1>4, <1>7
<1> QED
  BY <1>2, <1>4, <1>7, <1>8, <1>9, <1>10 DEF Reads

(* The reader in turn is one the loop reads for, with something to read.       *)
LEMMA ReaderIs ==
    ASSUME RoundTypes, Reading # {}, NEW a,
           a = Readers[CHOOSE n \in Reading : \A m \in Reading : n <= m]
    PROVE  a \in Actors /\ Reads(a) /\ seen[a] < DeliveredCount(a)
<1>1. PICK n : n = CHOOSE k \in Reading : \A m \in Reading : k <= m
  OBVIOUS
<1>2. Reading \in SUBSET Nat
  BY DEF Reading
<1>3. n \in Reading
  <2>1. LET k == CHOOSE k \in Reading : \A m \in Reading : k <= m
        IN  k \in Reading /\ \A m \in Reading : k <= m
    BY <1>2, FirstOf
  <2> QED
    BY <1>1, <2>1
<1>4. a = Readers[n] /\ n \in 1 .. Len(Readers) /\ seen[a] < DeliveredCount(a)
  BY <1>1, <1>3 DEF Reading
<1>5. Reads(a)
  BY <1>4, ReadersAre
<1>6. a \in Actors
  <2>1. router \in Actors /\ replaced \in Seq(Actors)
    BY DEF RoundTypes
  <2>2. \A k \in 1 .. Len(replaced) : replaced[k] \in Actors
    BY <2>1
  <2> QED
    BY <1>5, <2>1, <2>2 DEF Reads
<1> QED
  BY <1>4, <1>5, <1>6

(* It reads its first return that is not read. *)
LEMMA NextIs ==
    ASSUME QueueInv, RoundsInv, NEW a \in Actors, seen[a] < DeliveredCount(a), NEW i, i = seen[a] + 1
    PROVE  /\ i \in Unread(a) /\ Item(a, i) = deliveries[a][seen[a] - released[a] + 1]
           /\ \A m \in Unread(a) : ~(m < i)
<1>1. seen[a] \in Nat /\ released[a] \in Nat /\ DeliveredCount(a) \in Nat
  BY ReadBounds
<1>2. PICK s \in Nat, r \in Nat, d \in Nat : s = seen[a] /\ r = released[a] /\ d = DeliveredCount(a)
  BY <1>1
<1>3. i = s + 1 /\ s < d
  BY <1>2
<1>4. Unread(a) = s + 1 .. d
  BY <1>2 DEF Unread
<1>5. i - r = (s - r) + 1
  BY <1>2, <1>3
<1>6. Item(a, i) = deliveries[a][i - r]
  BY <1>2 DEF Item
<1> QED
  BY <1>2, <1>3, <1>4, <1>5, <1>6

(* A router reads its next return.                                             *)
LEMMA ReadKeeps ==
    ASSUME QueueInv, RoundsInv, NEW delay \in 0 .. Span, ReadNext(delay) PROVE RoundsInv'
<1>1. PICK a : a = Readers[CHOOSE n \in Reading : \A m \in Reading : n <= m]
  OBVIOUS
<1>2. PICK next : next = deliveries[a][seen[a] - released[a] + 1]
  OBVIOUS
<1>3. PICK c : c = LearnReturn(RouterBooks, next, delay)
  OBVIOUS
<1>4. /\ phase = "learn" /\ phase' = "learn" /\ Reading # {} /\ Keep(c)
      /\ seen' = [seen EXCEPT ![a] = @ + 1]
      /\ UNCHANGED <<qvars, window, origin, measured, raw, calls, pending, deferred, router, replaced,
                     seatRounds, clocked, seated, tally, evidence>>
  BY <1>1, <1>2, <1>3 DEF ReadNext, windowVars, scoreVars, routerVars, tallyVars
<1>5. a \in Actors /\ Reads(a) /\ seen[a] < DeliveredCount(a)
  BY <1>1, <1>4, ReaderIs DEF RoundsInv
<1>6. PICK i : i = seen[a] + 1
  OBVIOUS
<1>7. i \in Unread(a) /\ Item(a, i) = next /\ \A m \in Unread(a) : ~(m < i)
  BY <1>2, <1>5, <1>6, NextIs
<1>8. PICK h : h = next.handle
  OBVIOUS
<1>9. h \in retained /\ h \in Handles /\ seen[a] \in Nat /\ DeliveredCount(a) \in Nat
      /\ released[a] <= seen[a]
  BY <1>5, <1>7, <1>8, ReadBounds
<1>10. NoteTrue(next, h) /\ decision[h].actor = a
  BY <1>5, <1>7, <1>8 DEF RoundsInv, NotesInv
<1>11. h \in keys /\ next.status # "timed_out" => ~(Len(returns[h]) > 1)
  <2>1. ~Preceded(a, i)
    BY <1>7 DEF Preceded
  <2> QED
    BY <1>5, <1>7, <1>8, <2>1 DEF RoundsInv, KeysInv
<1>12. PICK b : b = RouterBooks
  OBVIOUS
<1>13. BooksTrue(b) /\ b.keys = keys /\ b.rounds = rounds
  BY <1>4, <1>12, BooksAre DEF RouterBooks
<1>14. delay \in Int
  BY RoundsAssumption
<1>15. BooksTrue(c) /\ c.rounds \subseteq rounds /\ c.keys \subseteq keys \ {h}
  BY <1>3, <1>4, <1>8, <1>9, <1>10, <1>11, <1>12, <1>13, <1>14, LearnKeeps
<1>16. seen \in [Actors -> Nat]
  BY DEF RoundsInv, RoundTypes
<1>17. /\ seen' \in [Actors -> Nat] /\ seen'[a] = i /\ i = seen[a] + 1
       /\ \A x \in Actors : x # a => seen'[x] = seen[x]
  BY <1>4, <1>5, <1>6, <1>9, <1>16
<1>18. BookStep(c)
  BY <1>4, <1>15, <1>17 DEF BookStep
<1>19. /\ keys' = c.keys
       /\ UNCHANGED <<now, opened, retained, decision, status, returns, retired, successor,
                      deliveries, released, finalized, unread>>
  BY <1>18, BookFields
<1>20. \A x : DeliveredCount(x)' = DeliveredCount(x) /\ \A j : Item(x, j)' = Item(x, j)
  BY <1>19 DEF DeliveredCount, Item
<1>21. \A x \in Actors : x # a => Unread(x)' = Unread(x)
  BY <1>17, <1>20 DEF Unread
<1>22. Unread(a)' = Unread(a) \ {i}
  <2>1. PICK s \in Nat, d \in Nat : s = seen[a] /\ d = DeliveredCount(a)
    BY <1>9
  <2>2. Unread(a) = s + 1 .. d /\ Unread(a)' = s + 1 + 1 .. d /\ i = s + 1
    BY <1>6, <1>17, <1>20, <2>1 DEF Unread
  <2> QED
    BY <2>2
<1>23. \A x \in Actors : Unread(x)' \subseteq Unread(x)
  BY <1>21, <1>22
<1>24. SeenInv'
  <2>1. phase' \notin AllRead
    BY <1>4 DEF AllRead
  <2>2. Reads(a)' /\ \A x : Reads(x)' <=> Reads(x)
    BY <1>4, <1>5 DEF Reads
  <2>3. ASSUME NEW x \in Actors
        PROVE  /\ released'[x] <= seen'[x] /\ seen'[x] <= DeliveredCount(x)'
               /\ ~Reads(x)' => seen'[x] = DeliveredCount(x)'
    <3>1. CASE x = a
      <4>0. released[a] \in Nat
        BY <1>5, ReadBounds
      <4>1. PICK s \in Nat, d \in Nat, r \in Nat :
                s = seen[a] /\ d = DeliveredCount(a) /\ r = released[a]
        BY <1>9, <4>0
      <4>2. r <= s /\ s < d /\ r \in Nat
        BY <1>5, <1>9, <4>1, ReadBounds
      <4>3. r <= s + 1 /\ s + 1 <= d
        BY <4>1, <4>2
      <4> QED
        BY <1>17, <1>19, <1>20, <2>2, <3>1, <4>1, <4>3
    <3>2. CASE x # a
      BY <1>17, <1>19, <1>20, <2>2, <3>2 DEF RoundsInv, SeenInv
    <3> QED
      BY <3>1, <3>2
  <2> QED
    BY <2>1, <2>3 DEF SeenInv
<1>25. NotesInv'
  <2>1. ASSUME NEW x \in Actors, NEW j \in Unread(x)'
        PROVE  decision'[Item(x, j)'.handle].actor = x /\ NoteTrue(Item(x, j), Item(x, j).handle)'
    <3>1. j \in Unread(x)
      BY <1>23
    <3>2. PICK e : e = Item(x, j)
      OBVIOUS
    <3>3. PICK g : g = e.handle
      OBVIOUS
    <3>4. decision[g].actor = x /\ NoteTrue(e, g)
      BY <3>1, <3>2, <3>3 DEF RoundsInv, NotesInv
    <3>5. Item(x, j)' = e
      BY <1>20, <3>2
    <3>6. decision'[g].actor = x /\ NoteTrue(e, g)'
      BY <1>4, <1>19, <3>4 DEF NoteTrue
    <3> QED
      BY <3>3, <3>5, <3>6 DEF NoteTrue
  <2> QED
    BY <2>1 DEF NotesInv
<1>26. KeysInv'
  <2>1. ASSUME NEW g \in keys', status'[g] # "pending" PROVE Awaited(decision[g].actor, g)'
    <3>1. g \in keys /\ g # h /\ status[g] # "pending" /\ decision'[g].actor = decision[g].actor
      BY <1>15, <1>19, <2>1
    <3>2. PICK x : x = decision[g].actor
      OBVIOUS
    <3>3. PICK j \in Unread(x) : Item(x, j).handle = g
      BY <3>1, <3>2 DEF RoundsInv, KeysInv, Awaited
    <3>4. x \in Actors
      <4>1. g \in Handles
        BY <3>1, Kept DEF RoundsInv, KeysInv, NamedInv
      <4> QED
        BY <3>2, <4>1, DecisionTyped
    <3>5. j \in Unread(x)'
      BY <1>7, <1>8, <1>21, <1>22, <3>1, <3>3, <3>4
    <3>6. Item(x, j)'.handle = g
      BY <1>20, <3>3
    <3>7. decision'[g].actor = x
      BY <3>1, <3>2
    <3> QED
      BY <3>5, <3>6, <3>7 DEF Awaited
  <2>2. ASSUME NEW x \in Actors, NEW j \in Unread(x)', Item(x, j)'.handle \in keys',
               Item(x, j)'.status # "timed_out", Len(returns'[Item(x, j)'.handle]) > 1
        PROVE  Preceded(x, j)'
    <3>1. j \in Unread(x) /\ Item(x, j)' = Item(x, j) /\ Item(x, j).handle \in keys
          /\ Item(x, j).handle # h
      BY <1>15, <1>19, <1>20, <1>23, <2>2
    <3>2. Preceded(x, j)
      BY <1>19, <2>2, <3>1 DEF RoundsInv, KeysInv
    <3>3. PICK m \in Unread(x) : m < j /\ Item(x, m).handle = Item(x, j).handle
      BY <3>2 DEF Preceded
    <3>4. m \in Unread(x)'
      BY <1>7, <1>8, <1>21, <1>22, <3>1, <3>3
    <3>5. Item(x, m)' = Item(x, m)
      BY <1>20
    <3> QED
      BY <3>1, <3>3, <3>4, <3>5 DEF Preceded
  <2>3. /\ rounds' = keys' \cup Credited' /\ keys' \cap Credited' = {}
        /\ \A g \in rounds' : Sampled(g)' /\ g \in clocked' /\ routed'[g] = <<>>
        /\ \A g \in Credited' : decision'[g].contract # Noop =>
              returns'[g] # <<>> /\ returns'[g][1] # "settled" /\ credit'[g] <= now'
    BY <1>18, BookRounds
  <2>4. phase' \notin AllRead
    BY <1>4 DEF AllRead
  <2> QED
    BY <2>1, <2>2, <2>3, <2>4 DEF KeysInv
<1> QED
  BY <1>18, <1>24, <1>25, <1>26, BookRest DEF RoundsInv

-------------------------------------------------------------------------------
(* When every reader has read everything, nothing waits for anybody. *)
LEMMA AllWasRead ==
    ASSUME QueueInv, RoundsInv, Reading = {}, NEW a \in Actors
    PROVE  seen[a] = DeliveredCount(a) /\ Unread(a) = {}
<1>1. /\ seen[a] \in Nat /\ DeliveredCount(a) \in Nat /\ seen[a] <= DeliveredCount(a)
  BY ReadBounds
<1>2. ~Reads(a) => seen[a] = DeliveredCount(a)
  BY DEF RoundsInv, SeenInv
<1>3. Reads(a) => seen[a] = DeliveredCount(a)
  <2>1. SUFFICES ASSUME Reads(a) PROVE ~(seen[a] < DeliveredCount(a))
    BY <1>1
  <2>2. PICK k \in 1 .. Len(Readers) : Readers[k] = a
    BY <2>1, ReadersAre DEF RoundsInv
  <2> QED
    BY <2>2 DEF Reading
<1>4. seen[a] = DeliveredCount(a)
  BY <1>2, <1>3
<1>5. Unread(a) = {}
  <2>1. PICK d \in Nat : d = DeliveredCount(a)
    BY <1>1
  <2>2. Unread(a) = d + 1 .. d
    BY <1>4, <2>1 DEF Unread
  <2> QED
    BY <2>2
<1> QED
  BY <1>4, <1>5

(* The owed credits that are due train; what is late is dropped.               *)
LEMMA CreditDueKeeps ==
    ASSUME QueueInv, RoundsInv, CreditDue PROVE RoundsInv'
<1>1. PICK b : b = RouterBooks
  OBVIOUS
<1>2. PICK c : c = CreditAbstentions(b)
  OBVIOUS
<1>3. /\ phase = "learn" /\ Reading = {} /\ phase' = "drain" /\ Keep(c)
      /\ UNCHANGED <<qvars, window, origin, measured, raw, calls, pending, deferred, router, replaced,
                     seatRounds, seen, clocked, seated, tally, evidence>>
  BY <1>1, <1>2 DEF CreditDue, windowVars, scoreVars, routerVars, tallyVars
<1>4. BooksTrue(b) /\ b.keys = keys /\ b.rounds = rounds /\ b.credit = credit
  BY <1>1, <1>3, BooksAre DEF RouterBooks
<1>5. BooksTrue(c) /\ c.rounds \subseteq rounds /\ c.keys \subseteq keys
  BY <1>2, <1>3, <1>4, CreditKeeps
<1>6. Credits(b, c)
  BY <1>2, <1>4, CreditIs DEF BooksTrue
<1>7. \A h \in keys : h \in Handles /\ h \in retained /\ decision[h].actor \in Actors
  <2>1. keys \subseteq retained /\ retained \subseteq Handles
    BY Kept DEF RoundsInv, KeysInv, NamedInv
  <2> QED
    BY <2>1, DecisionTyped
<1>8. \A h \in keys : status[h] = "pending"
  <2>1. ASSUME NEW h \in keys, status[h] # "pending" PROVE FALSE
    <3>1. PICK a : a = decision[h].actor
      OBVIOUS
    <3>2. Awaited(a, h) /\ a \in Actors
      BY <1>7, <2>1, <3>1 DEF RoundsInv, KeysInv
    <3>3. Unread(a) = {}
      BY <1>3, <3>2, AllWasRead
    <3> QED
      BY <3>2, <3>3 DEF Awaited
  <2> QED
    BY <2>1
<1>9. c.rounds = c.keys \cup CreditedIn(c) /\ b.rounds = b.keys \cup CreditedIn(b)
  BY <1>4, <1>5 DEF BooksTrue
<1>10. CreditedIn(c) = (CreditedIn(b) \ LateIn(b)) \ DueIn(b)
  BY <1>6 DEF Credits, CreditedIn
<1>11. \A h \in c.rounds : h \in Handles /\ h \in rounds /\ h \notin LateIn(b)
                           /\ (h \in b.keys \/ b.credit[h] # None)
  <2>1. rounds \subseteq Handles
    BY Kept DEF RoundsInv, NamedInv
  <2>2. c.rounds = (b.rounds \ LateIn(b)) \ DueIn(b)
    BY <1>6 DEF Credits
  <2> QED
    BY <1>4, <1>9, <2>1, <2>2 DEF CreditedIn
<1>12. ASSUME NEW h \in c.rounds PROVE now <= DeliveryDeadline(h)
  <2>1. ~Late(h) /\ h \in clocked
    BY <1>11 DEF LateIn, RoundsInv, KeysInv
  <2>2. PICK n \in Int, d \in Int : n = now /\ d = DeliveryDeadline(h)
    <3>1. decision[h].deadline \in Nat /\ Span \in Nat /\ MinRatio \in Nat
      BY <1>11, DecisionTyped, RoundsAssumption
    <3>2. PICK o \in Int : o = OpenedAt(h)
      BY <3>1 DEF OpenedAt
    <3>3. PICK w \in Nat : w = (1 + MinRatio) * Span
      BY <3>1
    <3>4. DeliveryDeadline(h) = o + w
      BY <3>2, <3>3 DEF DeliveryDeadline
    <3> QED
      BY <3>4, Kept
  <2>3. ~(n > d)
    BY <2>1, <2>2 DEF Late
  <2> QED
    BY <2>2, <2>3
<1>13. ASSUME NEW h \in c.rounds PROVE seated[h] = <<>>
  <2>1. SUFFICES ASSUME seated[h] # <<>> PROVE FALSE
    OBVIOUS
  <2>2. h \in Handles /\ h \in rounds
    BY <1>11
  <2>3. /\ decision[h].contract # Noop /\ status[h] # "pending"
        /\ FirstOutcome(h) # "settled" => ~AwaitsClose(h)
    BY <2>1, <2>2 DEF RoundsInv, SeatInv
  <2>4. h \notin keys
    BY <1>8, <2>3
  <2>5. h \in CreditedIn(c)
    BY <1>5, <1>9, <2>4
  <2>6. h \in CreditedIn(b) /\ h \notin LateIn(b) /\ h \notin DueIn(b)
    BY <1>10, <2>5
  <2>7. returns[h][1] # "settled" /\ b.credit[h] <= now
    BY <1>4, <2>3, <2>6 DEF BooksTrue
  <2>8. ~AwaitsClose(h)
    BY <2>3, <2>7 DEF FirstOutcome
  <2> QED
    BY <2>6, <2>7, <2>8 DEF DueIn
<1>14. seen \in [Actors -> Nat]
  BY DEF RoundsInv, RoundTypes
<1>15. BookStep(c)
  BY <1>3, <1>5, <1>13, <1>14 DEF BookStep
<1>16. /\ keys' = c.keys /\ rounds' = c.rounds
       /\ UNCHANGED <<now, opened, retained, decision, status, returns, retired, successor,
                      deliveries, released, finalized, unread>>
  BY <1>15, BookFields
<1>17. \A x : /\ DeliveredCount(x)' = DeliveredCount(x) /\ Unread(x)' = Unread(x)
              /\ \A j : Item(x, j)' = Item(x, j)
  BY <1>3, <1>16 DEF DeliveredCount, Item, Unread
<1>18. SeenInv'
  <2>1. \A x \in Actors : seen[x] = DeliveredCount(x) /\ released[x] <= seen[x]
                          /\ seen[x] <= DeliveredCount(x)
    BY <1>3, AllWasRead, ReadBounds
  <2> QED
    BY <1>3, <1>16, <1>17, <2>1 DEF SeenInv
<1>19. \A x \in Actors : Unread(x)' = {}
  BY <1>3, <1>17, AllWasRead
<1>20. NotesInv'
  BY <1>19 DEF NotesInv
<1>21. KeysInv'
  <2>1. \A h \in keys' : status'[h] = "pending"
    BY <1>5, <1>8, <1>16
  <2>2. \A h \in rounds' : now' <= DeliveryDeadline(h)'
    BY <1>12, <1>16 DEF DeliveryDeadline, OpenedAt
  <2>3. /\ rounds' = keys' \cup Credited' /\ keys' \cap Credited' = {}
        /\ \A g \in rounds' : Sampled(g)' /\ g \in clocked' /\ routed'[g] = <<>>
        /\ \A g \in Credited' : decision'[g].contract # Noop =>
              returns'[g] # <<>> /\ returns'[g][1] # "settled" /\ credit'[g] <= now'
    BY <1>15, BookRounds
  <2> QED
    BY <1>19, <2>1, <2>2, <2>3 DEF KeysInv
<1> QED
  BY <1>15, <1>18, <1>20, <1>21, BookRest DEF RoundsInv

(* A window's boundary: what was read, counted or is owed nothing is dropped;   *)
(* what a book names stays as it was.                                          *)
BoundaryStep ==
    /\ phase \in {"boundary", "release"} /\ phase' \in {"boundary", "release", "idle"}
    /\ retained' \subseteq retained /\ NamedByBooks \cup rounds \subseteq retained'
    /\ \A h \in retained' : returns'[h] = returns[h]
    /\ keys' = keys /\ rounds \subseteq clocked'
    /\ \A a \in Actors : DeliveredCount(a)' = DeliveredCount(a) /\ released'[a] <= seen[a]
    /\ finalized' \in Seq(Handles) /\ ToSet(finalized') \subseteq retained'
    /\ UNCHANGED <<now, opened, decision, status, retired, successor, window, origin, measured, raw,
                   calls, pending, deferred, router, replaced, rounds, credit, seatRounds, seen,
                   routed, seated>>

(* The keys that are left when the routers have learned are of decisions that   *)
(* still wait for their outcome.                                               *)
LEMMA KeysPending ==
    ASSUME QueueInv, RoundsInv, phase \in AllRead, NEW h \in keys PROVE status[h] = "pending"
<1>1. h \in Handles
  BY Kept DEF RoundsInv, KeysInv, NamedInv
<1>2. PICK a : a = decision[h].actor
  OBVIOUS
<1>3. a \in Actors
  BY <1>1, <1>2, DecisionTyped
<1>4. Unread(a) = {}
  BY <1>3, NothingUnread
<1>5. ~Awaited(a, h)
  BY <1>4 DEF Awaited
<1> QED
  BY <1>2, <1>5 DEF RoundsInv, KeysInv

(* What a step of the boundary keeps whatever it drops. *)
LEMMA BoundaryRest ==
    ASSUME QueueInv, RoundsInv, BoundaryStep, tally' \in [Contracts -> Nat], TallyInv'
    PROVE  RoundsInv'
<1>1. /\ phase \in {"boundary", "release"} /\ phase' \in {"boundary", "release", "idle"}
      /\ retained' \subseteq retained /\ NamedByBooks \cup rounds \subseteq retained'
      /\ \A h \in retained' : returns'[h] = returns[h]
      /\ keys' = keys /\ rounds \subseteq clocked'
      /\ \A a \in Actors : DeliveredCount(a)' = DeliveredCount(a) /\ released'[a] <= seen[a]
      /\ finalized' \in Seq(Handles) /\ ToSet(finalized') \subseteq retained'
      /\ UNCHANGED <<now, opened, decision, status, retired, successor, window, origin, measured,
                     raw, calls, pending, deferred, router, replaced, rounds, credit, seatRounds,
                     seen, routed, seated>>
  BY DEF BoundaryStep
<1>2. phase \in AllRead /\ phase' \in AllRead /\ phase # "learn" /\ phase' # "learn" /\ calls = {}
  BY <1>1 DEF AllRead, RoundsInv, CallsInv
<1>3. RoundTypes'
  <2>1. phase' \in Phases
    BY <1>1 DEF Phases
  <2> QED
    BY <1>1, <2>1 DEF RoundsInv, RoundTypes, NoSuccessor
<1>4. ReadersInv'
  <2>1. Pending' \subseteq Pending /\ Issued' = Issued /\ \A a : Reads(a)' <=> Reads(a)
    BY <1>1 DEF Pending, Issued, Reads
  <2> QED
    BY <1>1, <2>1 DEF RoundsInv, ReadersInv
<1>5. \A a \in Actors : seen[a] = DeliveredCount(a) /\ seen[a] \in Nat
  BY <1>2 DEF RoundsInv, SeenInv, RoundTypes
<1>6. SeenInv'
  BY <1>1, <1>5 DEF SeenInv
<1>7. \A a \in Actors : Unread(a)' = {}
  <2>1. ASSUME NEW a \in Actors PROVE Unread(a)' = {}
    <3>1. PICK d \in Nat : d = seen[a]
      BY <1>5
    <3>2. Unread(a)' = d + 1 .. d
      BY <1>1, <1>5, <3>1 DEF Unread
    <3> QED
      BY <3>2
  <2> QED
    BY <2>1
<1>8. NotesInv'
  BY <1>7 DEF NotesInv
<1>9. Credited' = Credited /\ Priced' = Priced /\ Scored' = Scored
  BY <1>1 DEF Credited, Priced, Scored
<1>10. Credited \subseteq retained'
  BY <1>1 DEF NamedByBooks
<1>11. KeysInv'
  <2>1. KeysInv
    BY DEF RoundsInv
  <2>2. \A h \in keys' : status'[h] = "pending"
    BY <1>1, <1>2, KeysPending
  <2>3. \A h \in rounds' : Sampled(h)' /\ h \in clocked' /\ routed'[h] = <<>>
    BY <1>1, <2>1 DEF KeysInv, Sampled
  <2>4. \A h \in Credited' : decision'[h].contract # Noop =>
            returns'[h] # <<>> /\ returns'[h][1] # "settled" /\ credit'[h] <= now'
    BY <1>1, <1>9, <1>10, <2>1 DEF KeysInv
  <2>5. \A h \in rounds' : now' <= DeliveryDeadline(h)'
    BY <1>1, <1>2, <2>1 DEF KeysInv, DeliveryDeadline, OpenedAt
  <2>6. rounds' = keys' \cup Credited' /\ keys' \cap Credited' = {}
    BY <1>1, <1>9, <2>1 DEF KeysInv
  <2> QED
    BY <1>7, <2>2, <2>3, <2>4, <2>5, <2>6 DEF KeysInv
<1>12. PriceInv'
  BY <1>1, <1>9 DEF RoundsInv, PriceInv, Open, WasCharged
<1>13. CallsInv'
  BY <1>1, <1>2 DEF CallsInv
<1>14. SeatInv'
  BY <1>1, <1>2 DEF RoundsInv, SeatInv
<1>15. LearnInv'
  BY <1>1 DEF RoundsInv, LearnInv, LearnedAlike, WasCharged
<1>16. NamedInv'
  <2>1. NamedByBooks' = NamedByBooks
    BY <1>1, <1>9 DEF NamedByBooks
  <2> QED
    BY <1>1, <1>2, <2>1 DEF NamedInv
<1> QED
  BY <1>3, <1>4, <1>6, <1>8, <1>11, <1>12, <1>13, <1>14, <1>15, <1>16 DEF RoundsInv

(* Nothing is counted or forgotten by the steps that keep the list of outcomes.  *)
LEMMA TallyStays ==
    ASSUME RoundsInv, UNCHANGED <<opened, status, decision, finalized, tally>>,
           evidence' \subseteq evidence, phase' = "release" => phase = "release"
    PROVE  TallyInv' /\ tally' \in [Contracts -> Nat]
<1>1. \A k : Counted1(k)' = Counted1(k)
  BY DEF Counted1, Issued, Tallied, IsEvaluation
<1> QED
  BY <1>1 DEF RoundsInv, RoundTypes, TallyInv, Issued

-------------------------------------------------------------------------------
(* The deliveries a reader has read are dropped.                               *)
LEMMA DeliveriesKeep ==
    ASSUME QueueInv, RoundsInv, NEW a \in Actors, ReadDeliveries(a) PROVE RoundsInv'
<1>1. PICK t : t = seen[a]
  OBVIOUS
<1>2. /\ phase = "boundary" /\ phase' = phase /\ ReleaseDelivered(a, t)
      /\ UNCHANGED <<window, origin, measured, raw, calls, pending, deferred, router, replaced,
                     keys, rounds, credit, seatRounds, seen, clocked, routed, seated, tally, evidence>>
  BY <1>1 DEF ReadDeliveries, windowVars, scoreVars, routerVars, learnVars, tallyVars
<1>3. /\ UNCHANGED <<now, opened, retained, decision, status, returns, retired, successor, finalized>>
      /\ released' = [released EXCEPT ![a] = t]
  BY <1>2 DEF ReleaseDelivered, actorVars
<1>4. t \in Nat /\ BooksInv /\ ReadInv
  BY <1>1 DEF RoundsInv, RoundTypes, QueueInv
<1>5. \A b \in Actors : DeliveredCount(b)' = DeliveredCount(b)
  BY <1>2, <1>4, ReleaseReads
<1>6. \A b \in Actors : released'[b] <= seen[b]
  <2>1. \A b \in Actors : released[b] <= seen[b]
    BY DEF RoundsInv, SeenInv
  <2>2. released \in [Actors -> Nat]
    BY <1>4 DEF BooksInv
  <2> QED
    BY <1>1, <1>3, <1>4, <2>1, <2>2
<1>7. BoundaryStep
  <2>1. /\ finalized \in Seq(Handles) /\ NamedByBooks \cup rounds \cup ToSet(finalized) \subseteq retained
        /\ rounds \subseteq clocked
    BY DEF RoundsInv, RoundTypes, NamedInv, KeysInv
  <2> QED
    BY <1>2, <1>3, <1>5, <1>6, <2>1 DEF BoundaryStep
<1>8. TallyInv' /\ tally' \in [Contracts -> Nat]
  BY <1>2, <1>3, TallyStays
<1> QED
  BY <1>7, <1>8, BoundaryRest

(* Two sets that share nothing are counted one after the other. *)
LEMMA CountsAdd ==
    ASSUME NEW S, NEW T, IsFiniteSet(S), IsFiniteSet(T), S \cap T = {}
    PROVE  /\ Cardinality(S) \in Nat /\ Cardinality(T) \in Nat
           /\ Cardinality(S \cup T) = Cardinality(S) + Cardinality(T)
<1>1. Cardinality(S \cap T) = 0
  BY FS_EmptySet
<1>2. Cardinality(S \cup T) = Cardinality(S) + Cardinality(T) - Cardinality(S \cap T)
  BY FS_Union
<1>3. PICK n \in Nat, m \in Nat : n = Cardinality(S) /\ m = Cardinality(T)
  BY FS_CardinalityType
<1> QED
  BY <1>1, <1>2, <1>3

(* The outcomes not counted yet are counted.                                   *)
LEMMA TallyKeeps ==
    ASSUME QueueInv, RoundsInv, DrainTally PROVE RoundsInv'
<1>1. PICK C : C = {h \in ToSet(finalized) : Tallied(h)}
  OBVIOUS
<1>2. /\ phase = "boundary" /\ phase' = "release"
      /\ IF finalized = <<>> THEN UNCHANGED qvars ELSE DrainFinalized
      /\ evidence' = evidence \cup C
      /\ tally' = [k \in Contracts |->
              tally[k] + Cardinality({h \in C \ evidence : decision[h].contract = k})]
      /\ UNCHANGED <<window, origin, measured, raw, calls, pending, deferred, router, replaced,
                     keys, rounds, credit, seatRounds, seen, clocked, routed, seated>>
  BY <1>1 DEF DrainTally, windowVars, scoreVars, routerVars, learnVars
<1>3. /\ UNCHANGED <<now, opened, retained, decision, status, returns, retired, successor,
                     deliveries, released>>
      /\ finalized' = <<>>
  BY <1>2 DEF DrainFinalized, actorVars, deliveryVars, qvars
<1>4. TallyInv /\ NamedInv /\ tally \in [Contracts -> Nat]
  BY DEF RoundsInv, RoundTypes
<1>5. ToSet(finalized') = {} /\ finalized' \in Seq(Handles)
  BY <1>3 DEF ToSet
<1>6. ToSet(finalized) \subseteq Issued
  BY <1>4, Kept DEF NamedInv
<1>7. C \cap evidence = {} /\ C \subseteq Issued /\ C \subseteq ToSet(finalized)
  BY <1>1, <1>4, <1>6 DEF TallyInv
<1>8. IsFiniteSet(Issued)
  <2>1. opened - 1 \in Int
    BY Kept
  <2> QED
    BY <2>1, FS_Interval DEF Issued
<1>9. ASSUME NEW k \in Contracts
      PROVE  tally'[k] \in Nat /\ tally'[k] = Cardinality(Counted1(k)')
  <2>1. PICK N : N = {h \in C : decision[h].contract = k}
    OBVIOUS
  <2>2. {h \in C \ evidence : decision[h].contract = k} = N
    BY <1>7, <2>1
  <2>3. PICK O : O = Counted1(k)
    OBVIOUS
  <2>4. O \cap N = {} /\ O \subseteq Issued /\ N \subseteq Issued
    BY <1>7, <2>1, <2>3 DEF Counted1
  <2>5. \A h : Tallied(h)' <=> Tallied(h)
    BY <1>3 DEF Tallied, IsEvaluation
  <2>6. Counted1(k)' = O \cup N
    BY <1>1, <1>3, <1>5, <1>6, <2>1, <2>3, <2>5 DEF Counted1, Issued
  <2>7. IsFiniteSet(O) /\ IsFiniteSet(N)
    BY <1>8, <2>4, FS_Subset
  <2>8. /\ Cardinality(O) \in Nat /\ Cardinality(N) \in Nat
        /\ Cardinality(O \cup N) = Cardinality(O) + Cardinality(N)
    BY <2>4, <2>7, CountsAdd
  <2>9. tally[k] = Cardinality(O)
    BY <1>4, <2>3 DEF TallyInv
  <2>10. tally'[k] = tally[k] + Cardinality(N)
    BY <1>2, <2>2
  <2> QED
    BY <2>6, <2>8, <2>9, <2>10
<1>10. tally' \in [Contracts -> Nat]
  BY <1>2, <1>9
<1>11. TallyInv'
  <2>1. evidence' \subseteq Issued'
    BY <1>2, <1>3, <1>4, <1>7 DEF TallyInv, Issued
  <2>2. \A h \in evidence' : status'[h] \notin Awaiting
    BY <1>2, <1>3, <1>4, <1>7 DEF TallyInv
  <2> QED
    BY <1>3, <1>5, <1>9, <2>1, <2>2 DEF TallyInv
<1>12. BoundaryStep
  <2>1. NamedByBooks \cup rounds \subseteq retained /\ rounds \subseteq clocked
    BY DEF RoundsInv, NamedInv, KeysInv
  <2>2. \A b \in Actors : DeliveredCount(b)' = DeliveredCount(b) /\ released'[b] <= seen[b]
    BY <1>3 DEF DeliveredCount, RoundsInv, SeenInv
  <2> QED
    BY <1>2, <1>3, <1>5, <2>1, <2>2 DEF BoundaryStep
<1> QED
  BY <1>10, <1>11, <1>12, BoundaryRest

(* A decision nothing names and nobody is owed is released.                    *)
LEMMA ReleaseKeeps ==
    ASSUME QueueInv, RoundsInv, NEW h \in Handles, ReleaseSettled(h) PROVE RoundsInv'
<1>1. /\ phase = "release" /\ phase' = phase /\ ~Named(h) /\ ReleaseDecision(h)
      /\ UNCHANGED <<window, origin, measured, raw, calls, pending, deferred, router, replaced,
                     keys, rounds, credit, seatRounds, seen, clocked, routed, seated, tally, evidence>>
  BY DEF ReleaseSettled, windowVars, scoreVars, routerVars, learnVars, tallyVars
<1>2. /\ UNCHANGED <<now, opened, decision, status, retired, successor, deliveries, released, finalized>>
      /\ retained' = retained \ {h} /\ returns' = [returns EXCEPT ![h] = <<>>] /\ ~Owed(h)
  BY <1>1 DEF ReleaseDecision, actorVars, deliveryVars
<1>3. DOMAIN returns = Handles /\ retained \subseteq Handles
  BY Kept DEF QueueInv, ReturnsInv
<1>4. h \notin keys
  <2>1. phase \in AllRead
    BY <1>1 DEF AllRead
  <2>2. status[h] \notin Awaiting
    BY <1>2 DEF Owed
  <2> QED
    BY <2>1, <2>2, KeysPending DEF Awaiting
<1>5. h \notin NamedByBooks /\ h \notin rounds
  <2>1. h \notin NamedByBooks
    BY <1>1 DEF Named
  <2> QED
    BY <1>4, <2>1 DEF NamedByBooks, RoundsInv, KeysInv
<1>6. finalized = <<>> /\ ToSet(finalized) = {}
  BY <1>1 DEF RoundsInv, TallyInv, ToSet
<1>7. BoundaryStep
  <2>1. /\ NamedByBooks \cup rounds \subseteq retained /\ rounds \subseteq clocked
        /\ finalized \in Seq(Handles)
    BY DEF RoundsInv, RoundTypes, NamedInv, KeysInv
  <2>2. \A b \in Actors : DeliveredCount(b)' = DeliveredCount(b) /\ released'[b] <= seen[b]
    BY <1>1, <1>2 DEF DeliveredCount, RoundsInv, SeenInv
  <2>3. \A g \in retained' : returns'[g] = returns[g]
    BY <1>2, <1>3
  <2>4. ToSet(finalized') = {}
    BY <1>2, <1>6
  <2> QED
    BY <1>1, <1>2, <1>5, <2>1, <2>2, <2>3, <2>4 DEF BoundaryStep
<1>8. TallyInv' /\ tally' \in [Contracts -> Nat]
  BY <1>1, <1>2, TallyStays
<1> QED
  BY <1>7, <1>8, BoundaryRest

(* The event is over: the keys, tick records and evidence of what is gone go.   *)
LEMMA EndKeeps ==
    ASSUME QueueInv, RoundsInv, EndBoundary PROVE RoundsInv'
<1>1. /\ phase = "release" /\ phase' = "idle" /\ keys' = keys \cap retained
      /\ clocked' = clocked \cap retained /\ evidence' = evidence \cap retained
      /\ \/ \E before : CompactReleased(before)
         \/ UNCHANGED qvars
      /\ UNCHANGED <<window, origin, measured, raw, calls, pending, deferred, router, replaced,
                     rounds, credit, seatRounds, seen, routed, seated, tally>>
  BY DEF EndBoundary, windowVars, scoreVars, routerVars
<1>2. UNCHANGED <<now, opened, retained, decision, status, returns, retired, successor, deliveries,
                  released, finalized>>
  BY <1>1 DEF CompactReleased, actorVars, deliveryVars, qvars
<1>3. /\ NamedByBooks \cup rounds \cup ToSet(finalized) \subseteq retained /\ rounds \subseteq clocked
      /\ finalized \in Seq(Handles) /\ keys \subseteq rounds
  BY DEF RoundsInv, RoundTypes, NamedInv, KeysInv
<1>4. BoundaryStep
  <2>1. keys' = keys /\ rounds \subseteq clocked'
    BY <1>1, <1>3
  <2>2. \A b \in Actors : DeliveredCount(b)' = DeliveredCount(b) /\ released'[b] <= seen[b]
    BY <1>1, <1>2 DEF DeliveredCount, RoundsInv, SeenInv
  <2> QED
    BY <1>1, <1>2, <1>3, <2>1, <2>2 DEF BoundaryStep
<1>5. TallyInv' /\ tally' \in [Contracts -> Nat]
  BY <1>1, <1>2, TallyStays
<1> QED
  BY <1>4, <1>5, BoundaryRest

-------------------------------------------------------------------------------
(* It all holds initially.                                                     *)
LEMMA RoundsInvInit == RoundsInit => QueueInv /\ RoundsInv
<1> SUFFICES ASSUME RoundsInit PROVE QueueInv /\ RoundsInv
  OBVIOUS
<1>1. QueueInit
  BY DEF RoundsInit
<1>2. QueueInv
  BY <1>1, QueueInvInit
<1>3. /\ phase = "idle" /\ window = 0 /\ router = (CHOOSE a \in Actors : TRUE) /\ replaced = <<>>
      /\ calls = {} /\ pending = {} /\ deferred = {} /\ keys = {} /\ rounds = {} /\ seatRounds = {}
      /\ clocked = {} /\ evidence = {}
      /\ origin = [h \in Handles |-> None] /\ raw = [h \in Handles |-> None]
      /\ credit = [h \in Handles |-> None] /\ measured = [h \in Handles |-> None]
      /\ routed = [h \in Handles |-> <<>>] /\ seated = [h \in Handles |-> <<>>]
      /\ seen = [a \in Actors |-> 0] /\ tally = [k \in Contracts |-> 0]
  BY DEF RoundsInit
<1>4. /\ opened = 0 /\ retained = {} /\ retired = {} /\ finalized = <<>>
      /\ released = [a \in Actors |-> 0] /\ deliveries = [a \in Actors |-> <<>>]
      /\ successor = [a \in Actors |-> None] /\ status = [h \in Handles |-> "none"]
  BY <1>1 DEF QueueInit
<1>5. Issued = {} /\ Pending = {} /\ ToSet(finalized) = {}
  BY <1>4 DEF Issued, Pending, ToSet
<1>6. router \in Actors
  BY <1>3, QueueAssumption
<1>7. Credited = {} /\ Priced = {} /\ Scored = {}
  BY <1>3 DEF Credited, Priced, Scored
<1>8. \A a \in Actors : seen[a] = 0 /\ released[a] = 0 /\ DeliveredCount(a) = 0 /\ Unread(a) = {}
  <2>1. ASSUME NEW a \in Actors PROVE seen[a] = 0 /\ released[a] = 0 /\ DeliveredCount(a) = 0
    BY <1>3, <1>4 DEF DeliveredCount
  <2>2. ASSUME NEW a \in Actors PROVE Unread(a) = {}
    BY <2>1 DEF Unread
  <2> QED
    BY <2>1, <2>2
<1>9. RoundTypes
  <2>1. phase \in Phases /\ window \in Nat /\ replaced \in Seq(Actors) /\ finalized \in Seq(Handles)
    BY <1>3, <1>4 DEF Phases
  <2>2. NoSuccessor
    BY <1>4 DEF NoSuccessor
  <2>3. \A S : <<>> \in Seq(S)
    OBVIOUS
  <2>4. routed \in [Handles -> Seq(Trained)] /\ seated \in [Handles -> Seq(Trained)]
    BY <1>3, <2>3
  <2> QED
    BY <1>3, <1>6, <2>1, <2>2, <2>4 DEF RoundTypes
<1>10. ReadersInv
  BY <1>3, <1>4, <1>5 DEF ReadersInv
<1>11. SeenInv
  BY <1>8 DEF SeenInv
<1>12. NotesInv
  BY <1>8 DEF NotesInv
<1>13. KeysInv
  BY <1>3, <1>7, <1>8 DEF KeysInv
<1>14. PriceInv
  BY <1>3, <1>4, <1>7 DEF PriceInv, Open, Awaiting
<1>15. CallsInv
  BY <1>3 DEF CallsInv
<1>16. SeatInv
  BY <1>3 DEF SeatInv
<1>17. LearnInv
  <2>1. \A h \in Handles : routed[h] = <<>> /\ seated[h] = <<>> /\ measured[h] = None
    BY <1>3
  <2>2. Len(<<>>) <= 1
    OBVIOUS
  <2> QED
    BY <2>1, <2>2 DEF LearnInv, LearnedAlike
<1>18. TallyInv
  <2>1. \A k : Counted1(k) = {}
    BY <1>5 DEF Counted1
  <2> QED
    BY <1>3, <1>4, <1>5, <2>1, FS_EmptySet DEF TallyInv
<1>19. NamedInv
  BY <1>3, <1>5, <1>7 DEF NamedInv, NamedByBooks
<1> QED
  BY <1>2, <1>9, <1>10, <1>11, <1>12, <1>13, <1>14, <1>15, <1>16, <1>17, <1>18, <1>19 DEF RoundsInv

(* A step that changes nothing keeps it. *)
LEMMA StutterKeeps == ASSUME RoundsInv, UNCHANGED rvars PROVE RoundsInv'
<1>1. UNCHANGED <<now, opened, retained, decision, status, returns, retired, successor, deliveries,
                  released, finalized, phase, window, origin, raw, measured, calls, pending,
                  deferred, router, replaced, keys, rounds, credit, seatRounds, seen, clocked,
                  routed, seated, tally, evidence>>
  BY DEF rvars, qvars, windowVars, scoreVars, routerVars, learnVars, tallyVars
<1>2. RoundTypes' /\ ReadersInv' /\ SeenInv'
  BY <1>1 DEF RoundsInv, RoundTypes, NoSuccessor, ReadersInv, Reads, Issued, Pending, SeenInv,
              DeliveredCount
<1>3. NotesInv'
  <2>1. \A a : Unread(a)' = Unread(a) /\ \A i : Item(a, i)' = Item(a, i)
    BY <1>1, QuietUnread
  <2>2. \A e, h : NoteTrue(e, h) => NoteTrue(e, h)'
    BY <1>1 DEF NoteTrue
  <2> QED
    BY <1>1, <2>1, <2>2 DEF RoundsInv, NotesInv, NoteTrue
<1>4. KeysInv'
  <2>1. \A a : Unread(a)' = Unread(a) /\ \A i : Item(a, i)' = Item(a, i)
    BY <1>1, QuietUnread
  <2>2. \A a, h : Awaited(a, h)' <=> Awaited(a, h)
    BY <2>1 DEF Awaited
  <2>3. \A a, i : Preceded(a, i)' <=> Preceded(a, i)
    BY <2>1 DEF Preceded
  <2>4. \A h : (Sampled(h)' <=> Sampled(h)) /\ DeliveryDeadline(h)' = DeliveryDeadline(h)
    BY <1>1 DEF Sampled, DeliveryDeadline, OpenedAt
  <2>5. Credited' = Credited
    BY <1>1 DEF Credited
  <2> QED
    BY <1>1, <2>1, <2>2, <2>3, <2>4, <2>5 DEF RoundsInv, KeysInv
<1>5. PriceInv' /\ CallsInv'
  BY <1>1 DEF RoundsInv, PriceInv, CallsInv, Open, Credited, WasCharged
<1>6. SeatInv'
  <2>1. \A h : /\ FirstOutcome(h)' = FirstOutcome(h) /\ (AwaitsClose(h)' <=> AwaitsClose(h))
               /\ SeatLearns(h)' = SeatLearns(h)
    BY <1>1 DEF FirstOutcome, AwaitsClose, SeatLearns, Charged
  <2>2. Closing' = Closing
    BY <1>1, <2>1 DEF Closing
  <2> QED
    BY <1>1, <2>1, <2>2 DEF RoundsInv, SeatInv
<1>7. LearnInv'
  BY <1>1 DEF RoundsInv, LearnInv, LearnedAlike, WasCharged
<1>8. TallyInv'
  <2>1. \A k : Counted1(k)' = Counted1(k)
    BY <1>1 DEF Counted1, Issued, Tallied, IsEvaluation
  <2> QED
    BY <1>1, <2>1 DEF RoundsInv, TallyInv, Issued
<1>9. NamedInv'
  BY <1>1 DEF RoundsInv, NamedInv, NamedByBooks, Credited, Priced, Scored
<1> QED
  BY <1>2, <1>3, <1>4, <1>5, <1>6, <1>7, <1>8, <1>9 DEF RoundsInv

(* A step that answers decisions and nothing else keeps it. *)
LEMMA AnsweredKeeps ==
    ASSUME QueueInv, RoundsInv, NEW h \in Handles,
           \/ SettleDeferred(h) \/ Abstain(h) \/ CallExpired(h) \/ RefuseJudging(h) \/ Verdict(h)
           \/ (\E scored \in BOOLEAN : SettleEvaluation(h, scored)) \/ CensorStale(h) \/ ExpireDue
    PROVE  RoundsInv'
<1>1. RoundTypes
  BY DEF RoundsInv
<1>2. PICK H \in SUBSET Handles : \E o : AnswerStep(H, o)
  BY <1>1, AnswerSteps
<1>3. PICK o : AnswerStep(H, o)
  BY <1>2
<1> QED
  BY <1>3, AnswerKeeps

(* Every step of the loop keeps it.                                            *)
LEMMA RoundsInductive ==
    QueueInv /\ RoundsInv /\ [RoundsNext]_rvars => QueueInv' /\ RoundsInv' /\ [Calls]_qvars
<1> SUFFICES ASSUME QueueInv, RoundsInv, [RoundsNext]_rvars
             PROVE  QueueInv' /\ RoundsInv' /\ [Calls]_qvars
  OBVIOUS
<1>1. [Calls]_qvars
  BY RoundsCalls DEF RoundsInv
<1>2. QueueInv'
  BY <1>1, QueueInvInductive
<1>3. CASE UNCHANGED rvars
  BY <1>1, <1>2, <1>3, StutterKeeps
<1>4. CASE LoopStep
  <2> SUFFICES RoundsInv'
    BY <1>1, <1>2
  <2>1. ASSUME NEW h \in Handles,
               SettleDeferred(h) \/ Abstain(h) \/ RefuseJudging(h) \/ CensorStale(h)
        PROVE  RoundsInv'
    BY <2>1, AnsweredKeeps
  <2>2. ASSUME NEW h \in Handles, NEW declares \in BOOLEAN, NEW declines \in BOOLEAN,
               ReturnCall(h, declares, declines)
        PROVE  RoundsInv'
    BY <2>2, ReturnKeeps
  <2>3. ASSUME NEW h \in Handles, NEW scored \in BOOLEAN, SettleEvaluation(h, scored)
        PROVE  RoundsInv'
    BY <2>3, AnsweredKeeps
  <2>4. CASE PruneEvidence
    BY <2>4, PruneKeeps
  <2>5. CASE EndRoute \/ EndSettle \/ EndEvent
    BY <2>5, MoveKeeps
  <2>6. CASE ExpireDue
    <3>1. CASE Handles = {}
      <4>1. Due = {}
        BY <3>1, Kept DEF Due
      <4>2. AnswerStep({}, "timed_out")
        BY <2>6, <4>1, AnswersNone DEF ExpireDue, AnswerStep, RoundsInv, RoundTypes, windowVars,
           scoreVars
      <4> QED
        BY <4>2, AnswerKeeps
    <3>2. CASE Handles # {}
      <4>1. PICK h \in Handles : TRUE
        BY <3>2
      <4> QED
        BY <2>6, <4>1, AnsweredKeeps
    <3> QED
      BY <3>1, <3>2
  <2>7. CASE CloseSeatRounds
    BY <2>7, CloseKeeps
  <2>8. CASE CreditDue
    BY <2>8, CreditDueKeeps
  <2>9. ASSUME NEW delay \in 0 .. Span, ReadNext(delay) PROVE RoundsInv'
    BY <2>9, ReadKeeps
  <2>10. CASE DrainRouter
    BY <2>10, DrainKeeps
  <2>11. CASE DrainTally
    BY <2>11, TallyKeeps
  <2>12. CASE EndBoundary
    BY <2>12, EndKeeps
  <2>13. ASSUME NEW a \in Actors, ReadDeliveries(a) PROVE RoundsInv'
    BY <2>13, DeliveriesKeep
  <2> QED
    BY <1>4, <2>1, <2>2, <2>3, <2>4, <2>5, <2>6, <2>7, <2>8, <2>9, <2>10, <2>11, <2>12, <2>13
       DEF LoopStep
<1>5. CASE RoundsNext /\ ~LoopStep
  <2>1. ASSUME NEW ticked \in BOOLEAN, BeginEvent(ticked) PROVE RoundsInv'
    BY <2>1, BeginKeeps
  <2>2. ASSUME NEW k \in Contracts, Draw(k) PROVE RoundsInv'
    BY <2>2, DrawOpens, OpeningKeeps
  <2>3. ASSUME NEW h \in Handles, RequestSelf(h) PROVE RoundsInv'
    BY <2>3, RequestOpens, OpeningKeeps
  <2>4. ASSUME NEW h \in Handles, CallExpired(h) \/ Verdict(h) PROVE RoundsInv'
    BY <2>4, AnsweredKeeps
  <2>5. ASSUME NEW h \in Handles, ReleaseSettled(h) PROVE RoundsInv'
    BY <2>5, ReleaseKeeps
  <2>6. ASSUME NEW b \in Actors, ReplaceRouter(b) PROVE RoundsInv'
    BY <2>6, ReplaceKeeps
  <2>7. RoundsInv'
    BY <1>5, <2>1, <2>2, <2>3, <2>4, <2>5, <2>6 DEF RoundsNext
  <2> QED
    BY <1>1, <1>2, <2>7
<1> QED
  BY <1>3, <1>4, <1>5

-------------------------------------------------------------------------------
(* LearnedAlike: whatever settles late, times out or waits for its window, and  *)
(* for any number of seats, routers, windows and decisions, a decision trains   *)
(* its router once and its seat once, on the same outcome at the same price.    *)
THEOREM LearnsAlike == RoundsSpec => []LearnedAlike
<1>1. QueueInv /\ RoundsInv => LearnedAlike
  BY RoundsInvSays
<1> QED
  BY <1>1, RoundsInvInit, RoundsInductive, PTL DEF RoundsSpec

(* ClosedByDeadline: between events every open round of a router waits under    *)
(* its key or for its credit, and is not past its delivery deadline.            *)
THEOREM RoundsClose == RoundsSpec => []ClosedByDeadline
<1>1. QueueInv /\ RoundsInv => ClosedByDeadline
  BY RoundsInvSays
<1> QED
  BY <1>1, RoundsInvInit, RoundsInductive, PTL DEF RoundsSpec

(* ReleaseLosesNothing: no book of the runtime and no open round names a         *)
(* decision that is gone, and the committee's tally is what a scan of every      *)
(* decision ever issued would count.                                            *)
THEOREM ReleaseKeepsBooks == RoundsSpec => []ReleaseLosesNothing
<1>1. QueueInv /\ RoundsInv => ReleaseLosesNothing
  BY RoundsInvSays
<1> QED
  BY <1>1, RoundsInvInit, RoundsInductive, PTL DEF RoundsSpec

(* The loop moves the queue by its methods alone (loop.py, feedback.py and      *)
(* settled.py reach it no other way), from a queue that is empty.              *)
THEOREM LoopUsesQueue == RoundsSpec => QueueInit /\ [][Calls]_qvars
<1>1. RoundsInit => QueueInit
  BY DEF RoundsInit
<1> QED
  BY <1>1, RoundsInvInit, RoundsInductive, PTL DEF RoundsSpec

(* So it gets what the queue promises: the books of every decision are whole,   *)
(* nothing is dropped that somebody still waits for, and the counts it keeps    *)
(* are what a recount finds.                                                   *)
THEOREM LoopKeepsBooks == RoundsSpec => [](DecisionsWhole /\ NothingOwedReleased /\ DerivedExact)
<1>1. QueueInv => DecisionsWhole /\ NothingOwedReleased /\ DerivedExact
  <2>1. QueueInv => OneOutcome
    BY OutcomeSays DEF QueueInv
  <2>2. QueueInv => NoOrphans
    BY DEF QueueInv, FamilyInv
  <2> QED
    BY <2>1, <2>2, ReleasedSays, DerivedSays DEF DecisionsWhole
<1> QED
  BY <1>1, RoundsInvInit, RoundsInductive, PTL DEF RoundsSpec

(* And under the loop the queue still keeps the promise of Outcome: a decision  *)
(* is answered at most once, after at most one penalty, and dropped only then. *)
THEOREM LoopKeepsPromise == RoundsSpec => PromiseKept
<1>1. [Promise!Next]_<<phaseMap, outcomeMap>> =>
        [Promise!Next]_<<[h \in Handles |-> PhaseOf(h)],
                         [h \in Handles |-> IF status[h] \in Outcomes THEN status[h] ELSE "none"]>>
  BY DEF phaseMap, outcomeMap, OutcomeOf
<1>2. QueueInv => StatusInv
  BY DEF QueueInv
<1>3. RoundsInit => Promise!Init
  BY PromiseInit DEF RoundsInit
<1> QED
  BY <1>1, <1>2, <1>3, PromiseStep, RoundsInvInit, RoundsInductive, PTL
     DEF RoundsSpec, PromiseKept, Promise!Spec

(* RoutedToLiving: no step of the loop delivers to a router that was replaced   *)
(* and drained, and an outcome becomes history only when its router is gone.   *)
THEOREM LoopReachesLiving == RoundsSpec => RoutedToLiving
<1>1. QueueInv /\ [Calls]_qvars =>
        [/\ \A a \in retired : DeliveredCount(a)' = DeliveredCount(a)
         /\ \A h \in Handles : status'[h] = "historical" /\ status[h] # "historical"
                                    => decision[h].actor \in retired]_qvars
  BY RoutedStep
<1> QED
  BY <1>1, RoundsInvInit, RoundsInductive, PTL DEF RoundsSpec, RoutedToLiving
=============================================================================
