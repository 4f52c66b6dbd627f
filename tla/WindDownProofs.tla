---------------------------- MODULE WindDownProofs ----------------------------
(***************************************************************************)
(* What holds of a wind-down for any accounts, rounds, crashes and refused *)
(* records: nothing the diary knows of is sent twice, flat means flat, and *)
(* what was refused is tried again.                                        *)
(***************************************************************************)
EXTENDS WindDown, WellFoundedInduction, TLAPS

(* Operations some kill began, recorded or not. *)
Begun == recorded \cup unrecorded
Last(id) == \A k \in 0 .. MaxAttempts - 1 : k > id[2] => <<id[1], k>> \notin Begun
Open(answer) == answer.says \in {"no answer", "unclear"}

(* What the diary, the process and the venue know is of operations that were   *)
(* begun, and attempts on a target are begun in order.                         *)
Ordered ==
    /\ sent \subseteq Begun /\ submitted \subseteq Begun
    /\ \A id \in Ids : known[id] # NoAnswer \/ results[id] # NoAnswer => id \in Begun
    /\ \A op \in Ops : \A k \in 0 .. MaxAttempts - 1 : \A j \in 0 .. k - 1 :
          <<op, k>> \in Begun => <<op, j>> \in Begun
    /\ \A id \in Ids : executed[id] # Unseen => id \in sent

(* The process remembers what is recorded, and the attempt it is about to send *)
(* was not sent before and is the last on its target, unless a record of it    *)
(* was refused.                                                                *)
Remembered ==
    /\ pc \notin {"down", "call"} => recorded \subseteq submitted
    /\ pc = "call" => /\ recorded \subseteq submitted \cup {Calling}
                      /\ Calling \in Begun
                      /\ Calling \notin unrecorded => /\ Calling \notin sent /\ Last(Calling)
                                                     /\ results[Calling] = NoAnswer

(* What is on its way to the venue has no definitive answer and no successor.  *)
Unanswered(id) == executed[id] = Unseen /\ Open(known[id]) /\ Open(results[id])
OnTheWire ==
    /\ \A m \in wire : /\ m.id \in sent
                       /\ m.id \notin unrecorded => Unanswered(m.id) /\ Last(m.id)
    /\ \A m1, m2 \in wire : m1.id = m2.id => m1 = m2 \/ m1.id \in unrecorded

SentInv == WindDownTypeOK /\ Ordered /\ Remembered /\ OnTheWire /\ again \subseteq unrecorded

(* An order of the dead world is never enlarged after it was read. *)
FlatInv == FlatIsFlat /\ (pc = "judge" => seen.resting = -1 \/ account.resting <= seen.resting)

-----------------------------------------------------------------------------
(* The first attempt of a target that is neither known nor submitted. *)
LEMMA LeastNat ==
  ASSUME NEW T \in SUBSET Nat, T # {}
  PROVE  \E n \in T : \A m \in T : ~(m < n)
<1>1. PICK n \in T : \A m \in T : ~(<<m, n>> \in OpToRel(<, Nat))
  BY NatLessThanWellFounded, WFMin
<1>2. \A m \in T : <<m, n>> \in OpToRel(<, Nat) <=> m < n
  BY DEF OpToRel
<1> QED
  BY <1>1, <1>2

LEMMA AttemptBound == MaxAttempts \in Nat /\ MaxAttempts > 0
<1>1. Rounds \in Nat /\ Rounds > 0 /\ MaxCrashes + 1 \in Nat /\ MaxCrashes + 1 > 0
  BY WindDownAssumption
<1>2. \A x, y \in Nat : x > 0 /\ y > 0 => x * y \in Nat /\ x * y > 0
  OBVIOUS
<1> QED
  BY <1>1, <1>2 DEF MaxAttempts

Free(id) == known[id] = NoAnswer /\ id \notin submitted

LEMMA FreshIs ==
  ASSUME NEW op \in Ops
  PROVE  /\ Fresh(op) \in 0 .. MaxAttempts
         /\ Fresh(op) < MaxAttempts => Free(<<op, Fresh(op)>>)
         /\ \A m \in Nat : m < Fresh(op) => ~Free(<<op, m>>) /\ <<op, m>> \in Ids
<1> DEFINE free(n) == known[<<op, n>>] = NoAnswer /\ <<op, n>> \notin submitted
           P(n) == /\ n = MaxAttempts \/ free(n)
                   /\ \A m \in 0 .. n - 1 : ~free(m)
           T == {n \in 0 .. MaxAttempts : n = MaxAttempts \/ free(n)}
<1>1. T \in SUBSET Nat /\ T # {}
  BY AttemptBound
<1>2. PICK n \in T : \A m \in T : ~(m < n)
  BY <1>1, LeastNat
<1>3. n \in 0 .. MaxAttempts /\ P(n)
  BY <1>2, AttemptBound
<1>4. Fresh(op) = CHOOSE k \in 0 .. MaxAttempts : P(k)
  BY DEF Fresh
<1>5. Fresh(op) \in 0 .. MaxAttempts /\ P(Fresh(op))
  <2> HIDE DEF P
  <2> QED
    BY <1>3, <1>4
<1>6. ASSUME NEW m \in Nat, m < Fresh(op) PROVE ~Free(<<op, m>>) /\ <<op, m>> \in Ids
  <2>1. m \in 0 .. Fresh(op) - 1 /\ m \in 0 .. MaxAttempts - 1
    BY <1>5, <1>6, AttemptBound
  <2> QED
    BY <1>5, <2>1 DEF Free, Ids
<1>7. Fresh(op) < MaxAttempts => Free(<<op, Fresh(op)>>)
  BY <1>5, AttemptBound DEF Free
<1> QED
  BY <1>5, <1>6, <1>7

LEMMA IdTypes ==
  /\ \A id \in Ids : id = <<id[1], id[2]>> /\ id[1] \in Ops /\ id[2] \in 0 .. MaxAttempts - 1 /\ id[2] \in Nat
  /\ \A op \in Ops, n \in Nat : n < MaxAttempts => <<op, n>> \in Ids
  BY AttemptBound DEF Ids

(* Of a target with earlier attempts, the latest was begun. *)
LEMMA LatestBegun ==
  ASSUME WindDownTypeOK, Ordered, NEW op \in Ops
  PROVE  /\ \A m \in Nat : m < Fresh(op) => <<op, m>> \in Begun
         /\ Fresh(op) > 0 => Latest(op) \in Ids /\ Latest(op) \in Begun /\ Latest(op)[1] = op
<1>1. ASSUME NEW m \in Nat, m < Fresh(op) PROVE <<op, m>> \in Begun /\ <<op, m>> \in Ids
  BY <1>1, FreshIs DEF Free, Ordered
<1>2. \A x \in Nat : x > 0 => x - 1 \in Nat /\ x - 1 < x
  OBVIOUS
<1>3. Fresh(op) \in Nat
  <2>1. Fresh(op) \in 0 .. MaxAttempts
    BY FreshIs
  <2>2. \A x \in 0 .. MaxAttempts : x \in Nat
    BY AttemptBound
  <2> QED
    BY <2>1, <2>2
<1>4. Fresh(op) > 0 => Fresh(op) - 1 \in Nat /\ Fresh(op) - 1 < Fresh(op)
  BY <1>2, <1>3
<1> QED
  BY <1>1, <1>4 DEF Latest

(* The same without the order, which the types need. *)
LEMMA LatestIs ==
  ASSUME NEW op \in Ops, Fresh(op) > 0
  PROVE  Latest(op) \in Ids /\ Latest(op)[1] = op /\ Fresh(op) - 1 \in 0 .. MaxAttempts - 1
<1>1. \A x \in 0 .. MaxAttempts : x > 0 => x - 1 \in 0 .. MaxAttempts - 1
  BY AttemptBound
<1>2. Fresh(op) - 1 \in 0 .. MaxAttempts - 1
  BY <1>1, FreshIs
<1> QED
  BY <1>2 DEF Latest, Ids

LEMMA Answering ==
  /\ NoAnswer \in AnswerSet /\ Unclear \in AnswerSet /\ Open(NoAnswer) /\ Open(Unclear)
  /\ \A n \in Nat : Done(n) \in AnswerSet /\ Refused(n) \in AnswerSet
  /\ Unclear # NoAnswer /\ \A n : Done(n) # NoAnswer /\ Refused(n) # NoAnswer
  BY DEF NoAnswer, Unclear, Done, Refused, AnswerSet, Open

-----------------------------------------------------------------------------
(* Types. *)

(* What a call may take is what there is. *)
Room(id) == IF OpOf(id) = "cancel" THEN account.resting ELSE Available(OpOf(id))

LEMMA WantedIsThere ==
  ASSUME WindDownTypeOK, NEW id \in Ids
  PROVE  Wanted(id) \in Nat /\ Room(id) \in Nat /\ Wanted(id) <= Room(id)
<1>1. OpOf(id) \in {"cancel", "close", "sell"} /\ asked[id] \in Nat /\ account \in Holdings
  BY DEF WindDownTypeOK, OpOf, Ids, Ops
<1>2. account.resting \in Nat /\ account.perp \in Nat /\ account.spot \in Nat
  BY <1>1 DEF Holdings
<1>3. CASE OpOf(id) = "cancel"
  BY <1>2, <1>3 DEF Wanted, Room
<1>4. CASE OpOf(id) = "close"
  BY <1>2, <1>4 DEF Wanted, Room, Available
<1>5. CASE OpOf(id) = "sell"
  BY <1>1, <1>2, <1>5 DEF Wanted, Room, Available, Smaller
<1> QED
  BY <1>1, <1>3, <1>4, <1>5

(* An execution takes from the account and leaves the rest alone. *)
Shrinks ==
    /\ account' \in Holdings
    /\ account'.resting <= account.resting /\ account'.perp <= account.perp
    /\ account'.spot <= account.spot

LEMMA ExecutesTyped ==
  ASSUME WindDownTypeOK, NEW id \in Ids, NEW want \in Nat, NEW n \in Nat, n <= Room(id),
         Executes(id, want, n)
  PROVE  /\ Shrinks
         /\ executed' \in [Ids -> [want : Nat, n : Nat]]
         /\ \A j \in Ids : j # id => executed'[j] = executed[j]
<1>1. OpOf(id) \in {"cancel", "close", "sell"} /\ account \in Holdings
  BY DEF WindDownTypeOK, OpOf, Ids, Ops
<1>2. account.resting \in Nat /\ account.perp \in Nat /\ account.spot \in Nat
  BY <1>1 DEF Holdings
<1>3. \A x \in Nat : n <= x => x - n \in Nat /\ x - n <= x
  OBVIOUS
<1>4. ASSUME OpOf(id) = "cancel" PROVE Shrinks
  <2>1. account.resting - n \in Nat /\ account.resting - n <= account.resting
    BY <1>2, <1>3, <1>4 DEF Room
  <2>2. account' = [resting |-> account.resting - n, perp |-> account.perp, spot |-> account.spot]
    <3>1. account' = [account EXCEPT !.resting = @ - n]
      BY <1>4 DEF Executes
    <3> QED
      BY <1>1, <3>1 DEF Holdings
  <2> QED
    BY <1>2, <2>1, <2>2 DEF Shrinks, Holdings
<1>5. ASSUME OpOf(id) = "close" PROVE Shrinks
  <2>1. account.perp - n \in Nat /\ account.perp - n <= account.perp
    BY <1>2, <1>3, <1>5 DEF Room, Available
  <2>2. account' = [resting |-> account.resting, perp |-> account.perp - n, spot |-> account.spot]
    <3>1. account' = [account EXCEPT !.perp = @ - n]
      BY <1>5 DEF Executes
    <3> QED
      BY <1>1, <3>1 DEF Holdings
  <2> QED
    BY <1>2, <2>1, <2>2 DEF Shrinks, Holdings
<1>6. ASSUME OpOf(id) = "sell" PROVE Shrinks
  <2>1. account.spot - n \in Nat /\ account.spot - n <= account.spot
    BY <1>2, <1>3, <1>6 DEF Room, Available
  <2>2. account' = [resting |-> account.resting, perp |-> account.perp, spot |-> account.spot - n]
    <3>1. account' = [account EXCEPT !.spot = @ - n]
      BY <1>6 DEF Executes
    <3> QED
      BY <1>1, <3>1 DEF Holdings
  <2> QED
    BY <1>2, <2>1, <2>2 DEF Shrinks, Holdings
<1>7. executed' \in [Ids -> [want : Nat, n : Nat]] /\ \A j \in Ids : j # id => executed'[j] = executed[j]
  BY DEF Executes, WindDownTypeOK
<1> QED
  BY <1>1, <1>4, <1>5, <1>6, <1>7

LEMMA ProceedTyped ==
  ASSUME todo \in Seq(TaskSet), todo # <<>>, Proceed
  PROVE  /\ todo' \in Seq(TaskSet)
         /\ pc' \in {"operate", "account", "round"}
         /\ pc' = "operate" => todo' # <<>>
  BY DEF Proceed

(* The task in hand. *)
LEMMA TaskTyped ==
  ASSUME WindDownTypeOK, pc \in {"operate", "call", "answer"}
  PROVE  /\ todo \in Seq(TaskSet) /\ todo # <<>> /\ Head(todo) \in TaskSet /\ Head(todo).op \in Ops
         /\ Head(todo).size \in Nat
<1>1. todo \in Seq(TaskSet) /\ todo # <<>>
  BY DEF WindDownTypeOK
<1>2. Head(todo) \in TaskSet
  BY <1>1
<1> QED
  BY <1>1, <1>2 DEF TaskSet

LEMMA OweTyped ==
  ASSUME WindDownTypeOK, NEW task \in TaskSet, NEW answer, NEW size, Owe(task, answer, size)
  PROVE  owed' \subseteq Ops
  BY DEF Owe, WindDownTypeOK, TaskSet

LEMMA LookupTyped ==
  ASSUME WindDownTypeOK, NEW id \in Ids, NEW answer \in Lookup(id)
  PROVE  answer \in AnswerSet
<1>1. executed[id].n \in Nat
  BY DEF WindDownTypeOK
<1> QED
  BY <1>1, Answering DEF Lookup, Looked

LEMMA HearsTyped ==
  ASSUME WindDownTypeOK, NEW answer \in AnswerSet, pc = "call", Hears(Calling, answer)
  PROVE  known' \in [Ids -> AnswerSet] /\ submitted' \subseteq Ids /\ Calling' = Calling
  BY DEF Hears, WindDownTypeOK, Calling, control


LEMMA RecordTyped ==
  ASSUME WindDownTypeOK, NEW id \in Ids, NEW answer \in AnswerSet,
         Records(results' = [results EXCEPT ![id] = answer], UNCHANGED results)
  PROVE  results' \in [Ids -> AnswerSet] /\ refusals' \in Nat
<1>1. results' \in {results, [results EXCEPT ![id] = answer]} /\ refusals' \in {refusals, refusals + 1}
  BY DEF Records
<1>2. refusals \in Nat /\ results \in [Ids -> AnswerSet]
  BY DEF WindDownTypeOK
<1> QED
  BY <1>1, <1>2

LEMMA InitTyped == Init => WindDownTypeOK
<1> SUFFICES ASSUME Init PROVE WindDownTypeOK
  OBVIOUS
<1>1. account \in Holdings
  BY WindDownAssumption DEF Init, Holdings
<1>2. executed \in [Ids -> [want : Nat, n : Nat]] /\ results \in [Ids -> AnswerSet]
      /\ known \in [Ids -> AnswerSet] /\ asked \in [Ids -> Nat]
  BY Answering DEF Init, Unseen
<1>3. todo \in Seq(TaskSet) /\ last \in Seq(Holdings)
  BY DEF Init
<1>4. seen \in [resting : Nat \cup {-1}, perp : Nat, spot : Nat]
  BY DEF Init, Unread
<1> QED
  BY <1>1, <1>2, <1>3, <1>4 DEF Init, WindDownTypeOK

LEMMA TypeBegin == WindDownTypeOK /\ Begin => WindDownTypeOK'
  BY DEF Begin, WindDownTypeOK, Calling, venue, diary, control, history

LEMMA TypeSeal == WindDownTypeOK /\ (Seal \/ Crash) => WindDownTypeOK'
<1> SUFFICES ASSUME WindDownTypeOK, Seal \/ Crash PROVE WindDownTypeOK'
  OBVIOUS
<1>1. CASE Seal
  BY <1>1 DEF Seal, WindDownTypeOK, Calling, venue, diary, memory, control, history
<1>2. CASE Crash
  <2>1. known' \in [Ids -> AnswerSet] /\ todo' \in Seq(TaskSet) /\ last' \in Seq(Holdings)
        /\ seen' \in [resting : Nat \cup {-1}, perp : Nat, spot : Nat]
    BY <1>2, Answering DEF Crash, Nothing, Unread
  <2> QED
    BY <1>2, <2>1 DEF Crash, Nothing, WindDownTypeOK, venue, diary, history
<1> QED
  BY <1>1, <1>2

LEMMA TypeReadOrders == WindDownTypeOK /\ ReadOrders => WindDownTypeOK'
<1> SUFFICES ASSUME WindDownTypeOK, ReadOrders PROVE WindDownTypeOK'
  OBVIOUS
<1> DEFINE task == [op |-> "cancel", size |-> 0, retry |-> TRUE, attempt |-> 0]
<1>1. PICK resting \in {0, account.resting} :
         /\ seen' = [seen EXCEPT !.resting = resting]
         /\ todo' = IF resting > 0 /\ "cancel" \in only THEN <<task>> ELSE <<>>
         /\ pc' = IF todo' = <<>> THEN "account" ELSE "operate"
  BY DEF ReadOrders
<1>2. resting \in Nat
  BY DEF WindDownTypeOK, Holdings
<1>3. task \in TaskSet
  BY DEF TaskSet, Ops
<1> HIDE DEF task
<1>4. todo' \in Seq(TaskSet) /\ pc' \in {"account", "operate"} /\ (pc' = "operate" => todo' # <<>>)
  BY <1>1, <1>3
<1>5. seen' \in [resting : Nat \cup {-1}, perp : Nat, spot : Nat]
  BY <1>1, <1>2 DEF WindDownTypeOK
<1> QED
  BY <1>4, <1>5 DEF ReadOrders, WindDownTypeOK, venue, diary, memory, history

LEMMA TypeReadAccount == WindDownTypeOK /\ ReadAccount => WindDownTypeOK'
<1> SUFFICES ASSUME WindDownTypeOK, ReadAccount PROVE WindDownTypeOK'
  OBVIOUS
<1>1. PICK view \in Views, priced \in BOOLEAN :
         /\ seen' = [view EXCEPT !.resting = seen.resting]
         /\ last' = IF view = account THEN <<account>> ELSE last
         /\ todo' = Tasks(view, priced)
         /\ pc' = IF todo' = <<>> THEN "round" ELSE "operate"
  BY DEF ReadAccount
<1>2. view \in Holdings
  <2>1. account \in Holdings /\ last \in Seq(Holdings)
    BY DEF WindDownTypeOK
  <2>2. Unread \in Holdings
    BY DEF Unread, Holdings
  <2>3. \A i \in DOMAIN last : last[i] \in Holdings
    BY <2>1
  <2> QED
    BY <2>1, <2>2, <2>3 DEF Views
<1>3. view.perp \in Nat /\ view.spot \in Nat /\ (~priced \/ view.perp >= Minimum) \in BOOLEAN
  BY <1>2 DEF Holdings
<1>4. /\ [op |-> "close", size |-> view.perp, retry |-> ~priced \/ view.perp >= Minimum,
          attempt |-> 0] \in TaskSet
      /\ [op |-> "sell", size |-> view.spot, retry |-> TRUE, attempt |-> 0] \in TaskSet
  BY <1>3 DEF TaskSet, Ops
<1>5. todo' \in Seq(TaskSet)
  BY <1>1, <1>4 DEF Tasks
<1>6. last' \in Seq(Holdings)
  BY <1>1 DEF WindDownTypeOK
<1>7. seen' \in [resting : Nat \cup {-1}, perp : Nat, spot : Nat]
  BY <1>1, <1>2 DEF WindDownTypeOK, Holdings
<1>8. pc' \in {"round", "operate"} /\ (pc' = "operate" => todo' # <<>>)
  BY <1>1
<1> QED
  BY <1>5, <1>6, <1>7, <1>8 DEF ReadAccount, WindDownTypeOK, venue, diary, memory, history

LEMMA TypeAttempt == WindDownTypeOK /\ Attempt => WindDownTypeOK'
<1> SUFFICES ASSUME WindDownTypeOK, Attempt PROVE WindDownTypeOK'
  OBVIOUS
<1> DEFINE n == Fresh(Head(todo).op)
           id == <<Head(todo).op, n>>
<1>1. /\ todo \in Seq(TaskSet) /\ todo # <<>> /\ Head(todo) \in TaskSet /\ Head(todo).op \in Ops
      /\ Head(todo).size \in Nat
  BY TaskTyped DEF Attempt
<1>2. n \in 0 .. MaxAttempts /\ n < MaxAttempts
  BY <1>1, FreshIs DEF Attempt
<1>3. n \in Nat
  <2>1. \A x \in 0 .. MaxAttempts : x \in Nat
    BY AttemptBound
  <2> QED
    BY <1>2, <2>1
<1>4. id \in Ids
  BY <1>1, <1>2, <1>3, IdTypes
<1>5. /\ todo' = [todo EXCEPT ![1].attempt = n]
      /\ asked' = [asked EXCEPT ![id] = Head(todo).size]
      /\ requested' = requested \cup {id} /\ tried' = tried \cup {id}
      /\ recorded' \subseteq recorded \cup {id} /\ unrecorded' \subseteq unrecorded \cup {id}
      /\ pc' = "call" /\ refusals' \in {refusals, refusals + 1}
  BY DEF Attempt, Records
<1> HIDE DEF n, id
<1>6. [todo[1] EXCEPT !.attempt = n] \in TaskSet
  BY <1>1, <1>3 DEF TaskSet
<1>7. todo' \in Seq(TaskSet) /\ todo' # <<>> /\ Head(todo') = [Head(todo) EXCEPT !.attempt = n]
  BY <1>1, <1>5, <1>6
<1>8. Calling' = id
  BY <1>1, <1>7 DEF Calling, id, TaskSet
<1>9. asked' \in [Ids -> Nat] /\ refusals' \in Nat
  <2>1. refusals \in Nat
    BY DEF WindDownTypeOK
  <2>2. refusals' \in Nat
    BY <1>5, <2>1
  <2> QED
    BY <1>1, <1>5, <2>2 DEF WindDownTypeOK
<1> QED
  BY <1>1, <1>4, <1>5, <1>7, <1>8, <1>9, ZenonT(40) DEF Attempt, WindDownTypeOK, venue

LEMMA TypeLeaveKnown == WindDownTypeOK /\ LeaveKnown => WindDownTypeOK'
<1> SUFFICES ASSUME WindDownTypeOK, LeaveKnown PROVE WindDownTypeOK'
  OBVIOUS
<1>1. todo \in Seq(TaskSet) /\ todo # <<>> /\ Head(todo) \in TaskSet /\ Head(todo).op \in Ops
  BY TaskTyped DEF LeaveKnown
<1>2. Latest(Head(todo).op) \in Ids
  BY <1>1, LatestIs DEF LeaveKnown
<1>3. results' \in [Ids -> AnswerSet] /\ refusals' \in Nat
  <2>1. known[Latest(Head(todo).op)] \in AnswerSet
    BY <1>2 DEF WindDownTypeOK
  <2> QED
    BY <1>2, <2>1, RecordTyped DEF LeaveKnown
<1>4. /\ todo' \in Seq(TaskSet) /\ pc' \in {"operate", "account", "round"}
      /\ pc' = "operate" => todo' # <<>>
  BY <1>1, ProceedTyped DEF LeaveKnown
<1>5. tried' \subseteq Ids
  BY <1>2 DEF LeaveKnown, WindDownTypeOK
<1> QED
  BY <1>3, <1>4, <1>5 DEF LeaveKnown, WindDownTypeOK, venue, memory, history

LEMMA TypeReread == WindDownTypeOK /\ Reread => WindDownTypeOK'
<1> SUFFICES ASSUME WindDownTypeOK, Reread PROVE WindDownTypeOK'
  OBVIOUS
<1>1. todo \in Seq(TaskSet) /\ todo # <<>> /\ Head(todo) \in TaskSet /\ Head(todo).op \in Ops
  BY TaskTyped DEF Reread
<1>2. Latest(Head(todo).op) \in Ids
  BY <1>1, LatestIs DEF Reread
<1>3. PICK answer \in Lookup(Latest(Head(todo).op)) :
         /\ known' = [known EXCEPT ![Latest(Head(todo).op)] = answer]
         /\ Records(results' = [results EXCEPT ![Latest(Head(todo).op)] = answer], UNCHANGED results)
         /\ Owe(Head(todo), answer, Asked(Latest(Head(todo).op), Head(todo).size))
  BY DEF Reread
<1>4. answer \in AnswerSet
  BY <1>2, LookupTyped
<1>5. known' \in [Ids -> AnswerSet] /\ results' \in [Ids -> AnswerSet] /\ refusals' \in Nat
  <2>1. known' \in [Ids -> AnswerSet]
    BY <1>2, <1>3, <1>4 DEF WindDownTypeOK
  <2> QED
    BY <1>2, <1>3, <1>4, <2>1, RecordTyped
<1>6. owed' \subseteq Ops
  BY <1>1, <1>3, OweTyped
<1>7. /\ todo' \in Seq(TaskSet) /\ pc' \in {"operate", "account", "round"}
      /\ pc' = "operate" => todo' # <<>>
  BY <1>1, ProceedTyped DEF Reread
<1>8. tried' \subseteq Ids
  BY <1>2 DEF Reread, WindDownTypeOK
<1> QED
  BY <1>5, <1>6, <1>7, <1>8 DEF Reread, WindDownTypeOK, venue, history

LEMMA TypeAnswer == WindDownTypeOK /\ Answer => WindDownTypeOK'
<1> SUFFICES ASSUME WindDownTypeOK, Answer PROVE WindDownTypeOK'
  OBVIOUS
<1>1. todo \in Seq(TaskSet) /\ todo # <<>> /\ Head(todo) \in TaskSet /\ Calling \in Ids
  BY TaskTyped DEF Answer, WindDownTypeOK
<1>2. results' \in [Ids -> AnswerSet] /\ refusals' \in Nat
  <2>1. known[Calling] \in AnswerSet
    BY <1>1 DEF WindDownTypeOK
  <2> QED
    BY <1>1, <2>1, RecordTyped DEF Answer
<1>3. owed' \subseteq Ops
  BY <1>1, OweTyped DEF Answer
<1>4. /\ todo' \in Seq(TaskSet) /\ pc' \in {"operate", "account", "round"}
      /\ pc' = "operate" => todo' # <<>>
  BY <1>1, ProceedTyped DEF Answer
<1> QED
  BY <1>2, <1>3, <1>4 DEF Answer, WindDownTypeOK, venue, history

LEMMA TypeNextRound == WindDownTypeOK /\ NextRound => WindDownTypeOK'
<1> SUFFICES ASSUME WindDownTypeOK, NextRound PROVE WindDownTypeOK'
  OBVIOUS
<1>1. /\ round' \in Nat /\ only' \subseteq Ops /\ owed' \subseteq Ops /\ tried' \subseteq Ids
      /\ pc' \in {"orders", "reconcile"}
  BY DEF NextRound, WindDownTypeOK
<1> QED
  BY <1>1 DEF NextRound, WindDownTypeOK, venue, diary, history

LEMMA TypeKillStep == WindDownTypeOK /\ KillStep => WindDownTypeOK'
<1> SUFFICES ASSUME WindDownTypeOK, KillStep PROVE WindDownTypeOK'
  OBVIOUS
<1>1. seen' \in [resting : Nat \cup {-1}, perp : Nat, spot : Nat]
  BY DEF KillStep, Reconcile, WindDownTypeOK, Holdings
<1>2. exposure' \in {"unknown", "pending", "dust", "flat"} /\ pc' \in {"judge", "over"}
  BY DEF KillStep, Reconcile, Judge, Exposure, WindDownTypeOK
<1> QED
  BY <1>1, <1>2 DEF KillStep, WindDownTypeOK, venue, diary, memory, history

LEMMA TypeArrive == WindDownTypeOK /\ Arrive => WindDownTypeOK' /\ Shrinks
<1> SUFFICES ASSUME WindDownTypeOK, Arrive PROVE WindDownTypeOK' /\ Shrinks
  OBVIOUS
<1>1. PICK m \in wire :
         /\ \E n \in IF OpOf(m.id) = "cancel" THEN {Room(m.id)} ELSE 0 .. Room(m.id) :
               Executes(m.id, IF OpOf(m.id) = "cancel" THEN Room(m.id) ELSE m.want, n)
         /\ wire' = wire \ {m}
         /\ UNCHANGED <<diary, asked, memory, control, pc, exposure, history, tried, crashes>>
  BY DEF Arrive, Room
<1>2. m.id \in Ids /\ m.want \in Nat
  BY DEF WindDownTypeOK
<1>3. Room(m.id) \in Nat
  BY <1>2, WantedIsThere
<1>4. PICK n \in Nat : /\ n <= Room(m.id)
                       /\ Executes(m.id, IF OpOf(m.id) = "cancel" THEN Room(m.id) ELSE m.want, n)
  BY <1>1, <1>3
<1>5. Shrinks /\ executed' \in [Ids -> [want : Nat, n : Nat]]
  BY <1>2, <1>3, <1>4, ExecutesTyped
<1> QED
  BY <1>1, <1>5 DEF WindDownTypeOK, Calling, Shrinks, diary, memory, control, history

LEMMA TypeFill == WindDownTypeOK /\ Fill => WindDownTypeOK'
<1> SUFFICES ASSUME WindDownTypeOK, Fill PROVE WindDownTypeOK'
  OBVIOUS
<1>1. account.resting \in Nat /\ account.perp \in Nat /\ account.resting - 1 \in Nat
  BY DEF WindDownTypeOK, Holdings, Fill
<1>2. account' \in Holdings
  <2>1. account' = [account EXCEPT !.resting = account.resting - 1, !.perp = account.perp + 1]
    BY DEF Fill
  <2>2. account' = [resting |-> account.resting - 1, perp |-> account.perp + 1, spot |-> account.spot]
    BY <2>1 DEF WindDownTypeOK, Holdings
  <2> QED
    BY <1>1, <2>2 DEF WindDownTypeOK, Holdings
<1> QED
  BY <1>2 DEF Fill, WindDownTypeOK, Calling, diary, memory, control, history

LEMMA TypeCall ==
  WindDownTypeOK /\ (CallRefused \/ CallExecuted \/ CallDelayed) =>
      WindDownTypeOK' /\ (Shrinks \/ UNCHANGED account)
<1> SUFFICES ASSUME WindDownTypeOK, CallRefused \/ CallExecuted \/ CallDelayed
             PROVE  WindDownTypeOK' /\ (Shrinks \/ UNCHANGED account)
  OBVIOUS
<1>1. Calling \in Ids /\ pc = "call" /\ Wanted(Calling) \in Nat /\ todo # <<>>
      /\ Wanted(Calling) <= Room(Calling) /\ Room(Calling) \in Nat
  <2>1. Calling \in Ids /\ pc = "call" /\ todo # <<>>
    BY DEF WindDownTypeOK, CallRefused, CallExecuted, CallDelayed
  <2> QED
    BY <2>1, WantedIsThere
<1>2. CASE CallRefused
  <2>1. Hears(Calling, Refused(0)) /\ Refused(0) \in AnswerSet
    BY <1>2, Answering DEF CallRefused
  <2>2. known' \in [Ids -> AnswerSet] /\ submitted' \subseteq Ids /\ Calling' = Calling
    BY <1>1, <2>1, HearsTyped
  <2> QED
    BY <1>1, <1>2, <2>1, <2>2 DEF CallRefused, Hears, WindDownTypeOK, venue, diary, control
<1>3. CASE CallDelayed
  <2>1. Hears(Calling, Unclear) /\ Unclear \in AnswerSet
    BY <1>3, Answering DEF CallDelayed
  <2>2. known' \in [Ids -> AnswerSet] /\ submitted' \subseteq Ids /\ Calling' = Calling
    BY <1>1, <2>1, HearsTyped
  <2>3. wire' \subseteq [id : Ids, want : Nat] /\ sent' \subseteq Ids /\ again' \subseteq Ids
    BY <1>1, <1>3 DEF CallDelayed, Sends, WindDownTypeOK
  <2> QED
    BY <1>1, <1>3, <2>1, <2>2, <2>3 DEF CallDelayed, Hears, WindDownTypeOK, diary, control
<1>4. CASE CallExecuted
  <2>1. PICK n \in Portions(Calling) : \E answer \in Answers(Calling, n) :
            Executes(Calling, Wanted(Calling), n) /\ Hears(Calling, answer)
    BY <1>4 DEF CallExecuted
  <2>2. n \in Nat /\ n <= Wanted(Calling)
    BY <1>1, <2>1 DEF Portions
  <2>3. PICK answer \in Answers(Calling, n) :
            Executes(Calling, Wanted(Calling), n) /\ Hears(Calling, answer)
    BY <2>1
  <2>4. answer \in AnswerSet
    BY <2>2, Answering DEF Answers
  <2>5. known' \in [Ids -> AnswerSet] /\ submitted' \subseteq Ids /\ Calling' = Calling
    BY <1>1, <2>3, <2>4, HearsTyped
  <2>6. n <= Room(Calling)
    BY <1>1, <2>2
  <2>7. Shrinks /\ executed' \in [Ids -> [want : Nat, n : Nat]]
    BY <1>1, <2>2, <2>3, <2>6, ExecutesTyped
  <2>8. sent' \subseteq Ids /\ again' \subseteq Ids /\ UNCHANGED wire
    BY <1>1, <1>4 DEF CallExecuted, Sends, WindDownTypeOK
  <2> QED
    BY <1>1, <2>3, <2>5, <2>7, <2>8 DEF Hears, WindDownTypeOK, diary, control, Shrinks
<1> QED
  BY <1>2, <1>3, <1>4

(* Whatever the venue, the process and the diary do, what they hold has its type. *)
THEOREM WindDownTypeCorrect == Spec => []WindDownTypeOK
<1>1. WindDownTypeOK /\ [Next]_vars => WindDownTypeOK'
  <2>1. WindDownTypeOK /\ UNCHANGED vars => WindDownTypeOK'
    BY DEF vars, venue, diary, memory, control, history, WindDownTypeOK, Calling
  <2> QED
    BY <2>1, TypeBegin, TypeSeal, TypeReadOrders, TypeReadAccount, TypeAttempt, TypeLeaveKnown,
       TypeReread, TypeAnswer, TypeNextRound, TypeKillStep, TypeArrive, TypeFill, TypeCall DEF Next
<1> QED
  BY <1>1, InitTyped, PTL DEF Spec

-----------------------------------------------------------------------------
(* Nothing the diary knows of is sent twice, or beside an attempt that may still *)
(* be carried out.                                                               *)

LEMMA BegunStays ==
  ASSUME UNCHANGED <<recorded, unrecorded>>
  PROVE  Begun' = Begun /\ \A id \in Ids : Last(id)' <=> Last(id)
  BY DEF Begun, Last

LEMMA OrderedStays ==
  ASSUME WindDownTypeOK, Ordered, UNCHANGED <<recorded, unrecorded>>, sent \subseteq sent',
         sent' \subseteq Begun, submitted' \subseteq Begun,
         \A id \in Ids : known'[id] # NoAnswer \/ results'[id] # NoAnswer => id \in Begun,
         \A id \in Ids : executed'[id] # Unseen => id \in sent
  PROVE  Ordered'
<1>1. Begun' = Begun
  BY BegunStays
<1>2. \A op \in Ops : \A k \in 0 .. MaxAttempts - 1 : \A j \in 0 .. k - 1 :
          <<op, k>> \in Begun' => <<op, j>> \in Begun'
  BY <1>1 DEF Ordered
<1>3. (\A id \in Ids : executed[id] # Unseen => id \in sent)'
  OBVIOUS
<1> QED
  BY <1>1, <1>2, <1>3 DEF Ordered

LEMMA OnTheWireStays ==
  ASSUME WindDownTypeOK, OnTheWire, UNCHANGED <<recorded, unrecorded>>, sent \subseteq sent',
         wire' \subseteq wire,
         \A m \in wire' : m.id \notin unrecorded => Unanswered(m.id)'
  PROVE  OnTheWire'
<1>1. \A m \in wire' : m \in wire /\ m.id \in Ids
  BY DEF WindDownTypeOK
<1>2. \A m \in wire' : m.id \in sent' /\ (m.id \notin unrecorded' => Last(m.id)')
  BY <1>1, BegunStays DEF OnTheWire
<1>3. \A m \in wire' : m.id \notin unrecorded' => Unanswered(m.id)'
  OBVIOUS
<1>4. \A m1, m2 \in wire' : m1.id = m2.id => m1 = m2 \/ m1.id \in unrecorded'
  BY <1>1 DEF OnTheWire
<1> QED
  BY <1>2, <1>3, <1>4 DEF OnTheWire

(* Steps that leave the diary's operations, the answers and the wire alone. *)
LEMMA SentQuiet ==
  ASSUME SentInv, WindDownTypeOK',
         UNCHANGED <<wire, executed, recorded, unrecorded, results, known, submitted, sent, again>>,
         \/ pc \notin {"down", "call"} /\ pc' # "call"
         \/ pc' = pc /\ todo' = todo
  PROVE  SentInv'
<1>1. Ordered'
  BY OrderedStays DEF SentInv, Ordered
<1>2. \A m \in wire' : m.id \notin unrecorded => Unanswered(m.id)'
  BY DEF SentInv, OnTheWire, Unanswered
<1>3. OnTheWire'
  BY <1>2, OnTheWireStays DEF SentInv
<1>4. Remembered'
  <2>1. CASE pc \notin {"down", "call"} /\ pc' # "call"
    BY <2>1 DEF SentInv, Remembered
  <2>2. CASE pc' = pc /\ todo' = todo
    <3>1. Calling' = Calling
      BY <2>2 DEF Calling
    <3>2. pc = "call" => Calling \in Ids
      BY DEF SentInv, WindDownTypeOK
    <3> QED
      BY <2>2, <3>1, <3>2, BegunStays DEF SentInv, Remembered
  <2> QED
    BY <2>1, <2>2
<1> QED
  BY <1>1, <1>3, <1>4 DEF SentInv

LEMMA SentBegin == SentInv /\ WindDownTypeOK' /\ (Begin \/ Crash) => SentInv'
<1> SUFFICES ASSUME SentInv, WindDownTypeOK', Begin \/ Crash PROVE SentInv'
  OBVIOUS
<1>1. /\ UNCHANGED <<wire, executed, recorded, unrecorded, results, sent, again>>
      /\ submitted' \subseteq recorded
      /\ pc' \notin {"down", "call"} => submitted' = recorded
      /\ pc' # "call"
      /\ \A id \in Ids : known'[id] = results[id] \/ known'[id] = NoAnswer
  BY DEF Begin, Crash, Nothing, venue, diary, history
<1>2. Ordered'
  BY <1>1, OrderedStays DEF SentInv, Ordered, Begun
<1>3. \A m \in wire' : m.id \notin unrecorded => Unanswered(m.id)'
  <2> SUFFICES ASSUME NEW m \in wire, m.id \notin unrecorded PROVE Unanswered(m.id)'
    BY <1>1
  <2>1. m.id \in Ids /\ Unanswered(m.id)
    BY DEF SentInv, OnTheWire, WindDownTypeOK
  <2> QED
    BY <1>1, <2>1, Answering DEF Unanswered
<1>4. OnTheWire'
  BY <1>1, <1>3, OnTheWireStays DEF SentInv
<1>5. Remembered'
  BY <1>1 DEF Remembered
<1> QED
  BY <1>1, <1>2, <1>4, <1>5 DEF SentInv

(* A new attempt: the one before it has a definitive answer, so nothing on its *)
(* way to the venue is of this target, unless a record was refused.            *)
LEMMA SentAttempt == SentInv /\ WindDownTypeOK' /\ Attempt => SentInv'
<1> SUFFICES ASSUME SentInv, WindDownTypeOK', Attempt PROVE SentInv'
  OBVIOUS
<1> DEFINE op == Head(todo).op
           n == Fresh(op)
           first == <<op, n>>
<1>1. todo \in Seq(TaskSet) /\ todo # <<>> /\ Head(todo) \in TaskSet /\ op \in Ops
  BY TaskTyped DEF Attempt, SentInv
<1>2. n \in Nat /\ n \in 0 .. MaxAttempts - 1 /\ n < MaxAttempts
  <2>1. \A x \in 0 .. MaxAttempts : x < MaxAttempts => x \in Nat /\ x \in 0 .. MaxAttempts - 1
    BY AttemptBound
  <2> QED
    BY <1>1, <2>1, FreshIs DEF Attempt
<1>3. first \in Ids
  BY <1>1, <1>2, IdTypes
<1>4. known[first] = NoAnswer /\ first \notin submitted
  BY <1>1, <1>2, FreshIs DEF Free
<1>5. first \notin recorded
  BY <1>4 DEF SentInv, Remembered, Attempt
<1>6. /\ \/ recorded' = recorded \cup {first} /\ unrecorded' = unrecorded
         \/ recorded' = recorded /\ unrecorded' = unrecorded \cup {first}
      /\ UNCHANGED <<wire, executed, results, known, submitted, sent, again>>
      /\ pc' = "call" /\ todo' = [todo EXCEPT ![1].attempt = n]
  BY DEF Attempt, Records, venue
<1>7. n > 0 => LET before == known[Latest(op)] IN Retryable(op, before)
  BY DEF Attempt
<1>8. /\ \A m \in Nat : m < n => <<op, m>> \in Begun
      /\ n > 0 => Latest(op) = <<op, n - 1>>
  BY <1>1, LatestBegun DEF SentInv, Latest
<1> HIDE DEF n, op
<1>0. PICK id : id = first
  OBVIOUS
<1>9. Calling' = id
  <2>1. Head(todo') = [Head(todo) EXCEPT !.attempt = n]
    BY <1>1, <1>6
  <2> QED
    BY <1>0, <1>1, <1>2, <2>1 DEF Calling, op, first, TaskSet
<1> HIDE DEF first
<1>10. Begun' = Begun \cup {id}
  BY <1>0, <1>6 DEF Begun
<1>11. Ordered'
  <2>1. ASSUME NEW o \in Ops, NEW k \in 0 .. MaxAttempts - 1, NEW j \in 0 .. k - 1, <<o, k>> \in Begun'
        PROVE  <<o, j>> \in Begun'
    <3>1. CASE <<o, k>> \in Begun
      BY <1>10, <3>1 DEF SentInv, Ordered
    <3>2. CASE <<o, k>> = id
      <4>1. o = op /\ k = n
        BY <1>0, <3>2 DEF first
      <4>2. j \in Nat /\ j < n
        BY <1>2, <4>1
      <4> QED
        BY <1>8, <1>10, <4>1, <4>2
    <3> QED
      BY <1>10, <2>1, <3>1, <3>2
  <2>2. sent' \subseteq Begun' /\ submitted' \subseteq Begun'
    BY <1>6, <1>10 DEF SentInv, Ordered
  <2>3. \A i \in Ids : known'[i] # NoAnswer \/ results'[i] # NoAnswer => i \in Begun'
    BY <1>6, <1>10 DEF SentInv, Ordered
  <2>4. \A i \in Ids : executed'[i] # Unseen => i \in sent'
    BY <1>6 DEF SentInv, Ordered
  <2> QED
    BY <2>1, <2>2, <2>3, <2>4 DEF Ordered
<1>12. Remembered'
  <2>1. recorded' \subseteq submitted' \cup {id} /\ id \in Begun'
    BY <1>0, <1>6, <1>10 DEF SentInv, Remembered, Attempt
  <2>2. ASSUME id \notin unrecorded' PROVE id \notin sent' /\ Last(id)' /\ results'[id] = NoAnswer
    <3>1. id \notin Begun
      BY <1>0, <1>5, <1>6, <2>2 DEF Begun
    <3>2. id \notin sent' /\ results'[id] = NoAnswer
      BY <1>0, <1>3, <1>6, <3>1 DEF SentInv, Ordered
    <3>3. ASSUME NEW k \in 0 .. MaxAttempts - 1, k > n PROVE <<op, k>> \notin Begun'
      <4>1. n \in 0 .. k - 1 /\ <<op, k>> # id
        BY <1>0, <1>2, <3>3, AttemptBound DEF first
      <4>2. <<op, k>> \notin Begun
        BY <1>0, <1>1, <3>1, <4>1 DEF SentInv, Ordered, first
      <4> QED
        BY <1>10, <4>1, <4>2
    <3>4. id[1] = op /\ id[2] = n
      BY <1>0 DEF first
    <3> QED
      BY <3>2, <3>3, <3>4 DEF Last
  <2> QED
    BY <1>6, <1>9, <2>1, <2>2 DEF Remembered
<1>13. OnTheWire'
  <2>1. ASSUME NEW m \in wire, m.id \notin unrecorded
        PROVE  Unanswered(m.id)' /\ Last(m.id)'
    <3>1. m.id \in Ids /\ m.id \in sent /\ Unanswered(m.id) /\ Last(m.id)
      BY <2>1 DEF SentInv, OnTheWire, WindDownTypeOK
    <3>2. Unanswered(m.id)'
      BY <1>6, <3>1 DEF Unanswered
    <3>3. m.id = <<m.id[1], m.id[2]>> /\ m.id[1] \in Ops /\ m.id[2] \in Nat
          /\ m.id[2] \in 0 .. MaxAttempts - 1
      BY <3>1, IdTypes
    <3>4. ASSUME m.id[1] = op, n > m.id[2] PROVE FALSE
      <4>1. n - 1 \in Nat /\ n - 1 \in 0 .. MaxAttempts - 1 /\ n > 0 /\ n - 1 < n
            /\ (m.id[2] = n - 1 \/ n - 1 > m.id[2])
        BY <1>2, <3>3, <3>4, AttemptBound
      <4>2. CASE m.id[2] = n - 1
        <5>1. known[m.id] = known[Latest(op)]
          BY <1>8, <3>3, <3>4, <4>1, <4>2
        <5> QED
          BY <1>7, <3>1, <4>1, <5>1 DEF Unanswered, Open, Retryable
      <4>3. CASE n - 1 > m.id[2]
        BY <1>8, <3>1, <3>4, <4>1, <4>3 DEF Last
      <4> QED
        BY <4>1, <4>2, <4>3
    <3>5. ASSUME NEW k \in 0 .. MaxAttempts - 1, k > m.id[2] PROVE <<m.id[1], k>> \notin Begun'
      <4>1. <<m.id[1], k>> \notin Begun
        BY <3>1, <3>5 DEF Last
      <4>2. <<m.id[1], k>> # id
        BY <1>0, <3>4, <3>5 DEF first
      <4> QED
        BY <1>10, <4>1, <4>2
    <3> QED
      BY <3>2, <3>5 DEF Last
  <2>2. unrecorded \subseteq unrecorded'
    BY <1>6
  <2> QED
    BY <1>6, <2>1, <2>2 DEF SentInv, OnTheWire
<1> QED
  BY <1>6, <1>11, <1>12, <1>13 DEF SentInv

(* What a step at the head of the pass learns of an attempt on the wire is open. *)
LEMMA SentLearns ==
  ASSUME SentInv, WindDownTypeOK',
         UNCHANGED <<wire, executed, recorded, unrecorded, submitted, sent, again>>,
         pc \notin {"down", "call"}, pc' # "call",
         \A id \in Ids : known'[id] # NoAnswer \/ results'[id] # NoAnswer => id \in Begun,
         \A m \in wire : m.id \notin unrecorded => Open(known'[m.id]) /\ Open(results'[m.id])
  PROVE  SentInv'
<1>1. Ordered'
  BY OrderedStays DEF SentInv, Ordered
<1>2. \A m \in wire' : m.id \notin unrecorded => Unanswered(m.id)'
  BY DEF SentInv, OnTheWire, Unanswered
<1>3. OnTheWire'
  BY <1>2, OnTheWireStays DEF SentInv
<1>4. Remembered'
  BY DEF SentInv, Remembered
<1> QED
  BY <1>1, <1>3, <1>4 DEF SentInv

LEMMA SentLeaveKnown == SentInv /\ WindDownTypeOK' /\ LeaveKnown => SentInv'
<1> SUFFICES ASSUME SentInv, WindDownTypeOK', LeaveKnown PROVE SentInv'
  OBVIOUS
<1> DEFINE id == Latest(Head(todo).op)
<1>1. todo \in Seq(TaskSet) /\ todo # <<>> /\ Head(todo).op \in Ops
  BY TaskTyped DEF LeaveKnown, SentInv
<1>2. id \in Ids
  BY <1>1, LatestIs DEF LeaveKnown
<1>3. /\ UNCHANGED <<wire, executed, recorded, unrecorded, known, submitted, sent, again>>
      /\ results' \in {results, [results EXCEPT ![id] = known[id]]}
      /\ pc = "operate" /\ pc' \in {"operate", "account", "round"}
  BY <1>1, ProceedTyped DEF LeaveKnown, Records, venue, memory, history
<1> HIDE DEF id
<1>4. \A i \in Ids : results'[i] \in {results[i], known[i]}
  BY <1>2, <1>3 DEF SentInv, WindDownTypeOK
<1>5. \A i \in Ids : known'[i] # NoAnswer \/ results'[i] # NoAnswer => i \in Begun
  BY <1>3, <1>4 DEF SentInv, Ordered
<1>6. \A m \in wire : m.id \notin unrecorded => Open(known'[m.id]) /\ Open(results'[m.id])
  BY <1>3, <1>4 DEF SentInv, OnTheWire, Unanswered, WindDownTypeOK
<1> QED
  BY <1>3, <1>5, <1>6, SentLearns

LEMMA SentAnswer == SentInv /\ WindDownTypeOK' /\ Answer => SentInv'
<1> SUFFICES ASSUME SentInv, WindDownTypeOK', Answer PROVE SentInv'
  OBVIOUS
<1>1. todo \in Seq(TaskSet) /\ todo # <<>> /\ Calling \in Ids
  BY TaskTyped DEF Answer, SentInv, WindDownTypeOK
<1>3. /\ UNCHANGED <<wire, executed, recorded, unrecorded, known, submitted, sent, again>>
      /\ results' \in {results, [results EXCEPT ![Calling] = known[Calling]]}
      /\ pc = "answer" /\ pc' \in {"operate", "account", "round"}
  BY <1>1, ProceedTyped DEF Answer, Records, venue, history
<1>4. \A i \in Ids : results'[i] \in {results[i], known[i]}
  BY <1>1, <1>3 DEF SentInv, WindDownTypeOK
<1>5. \A i \in Ids : known'[i] # NoAnswer \/ results'[i] # NoAnswer => i \in Begun
  BY <1>3, <1>4 DEF SentInv, Ordered
<1>6. \A m \in wire : m.id \notin unrecorded => Open(known'[m.id]) /\ Open(results'[m.id])
  BY <1>3, <1>4 DEF SentInv, OnTheWire, Unanswered, WindDownTypeOK
<1> QED
  BY <1>3, <1>5, <1>6, SentLearns

LEMMA SentReread == SentInv /\ WindDownTypeOK' /\ Reread => SentInv'
<1> SUFFICES ASSUME SentInv, WindDownTypeOK', Reread PROVE SentInv'
  OBVIOUS
<1> DEFINE id == Latest(Head(todo).op)
<1>1. todo \in Seq(TaskSet) /\ todo # <<>> /\ Head(todo).op \in Ops
  BY TaskTyped DEF Reread, SentInv
<1>2. id \in Ids /\ id \in Begun
  BY <1>1, LatestBegun DEF Reread, SentInv
<1>3. PICK answer \in Lookup(id) :
         /\ known' = [known EXCEPT ![id] = answer]
         /\ Records(results' = [results EXCEPT ![id] = answer], UNCHANGED results)
  BY DEF Reread
<1>4. /\ UNCHANGED <<wire, executed, recorded, unrecorded, submitted, sent, again>>
      /\ results' \in {results, [results EXCEPT ![id] = answer]}
      /\ pc = "operate" /\ pc' \in {"operate", "account", "round"}
  BY <1>1, <1>3, ProceedTyped DEF Reread, Records, venue, history
<1> HIDE DEF id
<1>5. /\ known'[id] = answer /\ results'[id] \in {results[id], answer}
      /\ \A i \in Ids : i # id => known'[i] = known[i] /\ results'[i] = results[i]
  BY <1>2, <1>3, <1>4 DEF SentInv, WindDownTypeOK
<1>6. \A i \in Ids : known'[i] # NoAnswer \/ results'[i] # NoAnswer => i \in Begun
  BY <1>2, <1>5 DEF SentInv, Ordered
<1>7. \A m \in wire : m.id \notin unrecorded => Open(known'[m.id]) /\ Open(results'[m.id])
  <2> SUFFICES ASSUME NEW m \in wire, m.id \notin unrecorded
               PROVE  Open(known'[m.id]) /\ Open(results'[m.id])
    OBVIOUS
  <2>1. m.id \in Ids /\ Unanswered(m.id)
    BY DEF SentInv, OnTheWire, WindDownTypeOK
  <2>2. m.id = id => answer = Unclear
    BY <1>3, <2>1 DEF Lookup, Unanswered
  <2> QED
    BY <1>5, <2>1, <2>2, Answering DEF Unanswered
<1> QED
  BY <1>4, <1>6, <1>7, SentLearns

(* A call: what is sent was not sent before, unless its record was refused. *)
LEMMA SentCall ==
  ASSUME SentInv, WindDownTypeOK', NEW id, id = Calling, pc = "call", pc' = "answer",
         UNCHANGED <<recorded, unrecorded, results>>,
         NEW answer, known' = [known EXCEPT ![id] = answer],
         submitted' = submitted \cup {id},
         \A i \in Ids : i # id => executed'[i] = executed[i],
         UNCHANGED <<sent, again, executed>> \/ Sends(id),
         \/ UNCHANGED wire
         \/ /\ Sends(id) /\ answer = Unclear /\ UNCHANGED executed
            /\ \E want \in Nat : wire' = wire \cup {[id |-> id, want |-> want]}
  PROVE  SentInv'
<1>1. id \in Ids /\ id \in Begun
      /\ (id \notin unrecorded => /\ id \notin sent /\ Last(id)
                                       /\ results[id] = NoAnswer)
  BY DEF SentInv, WindDownTypeOK, Remembered
<1>2. Begun' = Begun
  BY BegunStays
<1>3. /\ known'[id] = answer
      /\ \A i \in Ids : i # id => known'[i] = known[i]
  BY <1>1 DEF SentInv, WindDownTypeOK
<1>4. sent \subseteq sent' /\ sent' \subseteq sent \cup {id}
      /\ (sent' = sent => again' = again \/ id \in sent)
  BY DEF Sends
<1>5. again' \subseteq unrecorded'
  <2>1. again' = again \/ (id \in sent /\ again' = again \cup {id})
    BY DEF Sends
  <2> QED
    BY <1>1, <2>1 DEF SentInv
<1>6. Ordered'
  <2>1. sent' \subseteq Begun' /\ submitted' \subseteq Begun'
    BY <1>1, <1>2, <1>4 DEF SentInv, Ordered
  <2>2. \A i \in Ids : known'[i] # NoAnswer \/ results'[i] # NoAnswer => i \in Begun'
    BY <1>1, <1>2, <1>3 DEF SentInv, Ordered
  <2>3. \A i \in Ids : executed'[i] # Unseen => i \in sent'
    <3> SUFFICES ASSUME NEW i \in Ids, executed'[i] # Unseen PROVE i \in sent'
      OBVIOUS
    <3>1. CASE executed'[i] = executed[i]
      BY <1>4, <3>1 DEF SentInv, Ordered
    <3>2. CASE executed'[i] # executed[i]
      BY <3>2 DEF Sends
    <3> QED
      BY <3>1, <3>2
  <2>4. \A op \in Ops : \A k \in 0 .. MaxAttempts - 1 : \A j \in 0 .. k - 1 :
            <<op, k>> \in Begun' => <<op, j>> \in Begun'
    BY <1>2 DEF SentInv, Ordered
  <2> QED
    BY <2>1, <2>2, <2>3, <2>4 DEF Ordered
<1>7. Remembered'
  BY DEF SentInv, Remembered
<1>8. ASSUME NEW m \in wire
      PROVE  /\ m.id \in Ids /\ m.id \in sent
             /\ m.id \notin unrecorded => m.id # id /\ Unanswered(m.id)' /\ Last(m.id)'
  <2>1. m.id \in Ids /\ m.id \in sent /\ (m.id \notin unrecorded => Unanswered(m.id) /\ Last(m.id))
    BY DEF SentInv, OnTheWire, WindDownTypeOK
  <2>2. m.id \notin unrecorded => m.id # id
    BY <1>1, <2>1
  <2> QED
    BY <1>3, <2>1, <2>2, BegunStays DEF Unanswered
<1>9. CASE UNCHANGED wire
  <2>1. OnTheWire'
    BY <1>4, <1>8, <1>9 DEF SentInv, OnTheWire
  <2> QED
    BY <1>5, <1>6, <1>7, <2>1 DEF SentInv
<1>10. CASE /\ Sends(id) /\ answer = Unclear /\ UNCHANGED executed
            /\ \E want \in Nat : wire' = wire \cup {[id |-> id, want |-> want]}
  <2>1. PICK want \in Nat : wire' = wire \cup {[id |-> id, want |-> want]}
    BY <1>10
  <2> DEFINE mine == [id |-> id, want |-> want]
  <2>2. mine.id = id /\ wire' = wire \cup {mine}
    BY <2>1
  <2> HIDE DEF mine
  <2>3. id \in sent'
    BY <1>10 DEF Sends
  <2>4. ASSUME id \notin unrecorded PROVE Unanswered(id)' /\ Last(id)'
    <3>1. executed[id] = Unseen
      BY <1>1, <2>4 DEF SentInv, Ordered
    <3> QED
      BY <1>1, <1>3, <1>10, <2>4, <3>1, BegunStays, Answering DEF Unanswered
  <2>5. ASSUME NEW m \in wire'
        PROVE  m.id \in sent' /\ (m.id \notin unrecorded => Unanswered(m.id)' /\ Last(m.id)')
    BY <1>4, <1>8, <2>2, <2>3, <2>4
  <2>6. ASSUME NEW m1 \in wire', NEW m2 \in wire', m1.id = m2.id
        PROVE  m1 = m2 \/ m1.id \in unrecorded
    BY <1>8, <2>2, <2>6 DEF SentInv, OnTheWire
  <2>7. OnTheWire'
    BY <2>5, <2>6 DEF OnTheWire
  <2> QED
    BY <1>5, <1>6, <1>7, <2>7 DEF SentInv
<1> QED
  BY <1>9, <1>10

LEMMA SentCalls ==
  SentInv /\ WindDownTypeOK' /\ (CallRefused \/ CallExecuted \/ CallDelayed) => SentInv'
<1> SUFFICES ASSUME SentInv, WindDownTypeOK', CallRefused \/ CallExecuted \/ CallDelayed
             PROVE  SentInv'
  OBVIOUS
<1>1. pc = "call" /\ Calling \in Ids /\ Wanted(Calling) \in Nat /\ Wanted(Calling) <= Room(Calling)
      /\ Room(Calling) \in Nat
  <2>1. Calling \in Ids /\ pc = "call"
    BY DEF SentInv, WindDownTypeOK, CallRefused, CallExecuted, CallDelayed
  <2> QED
    BY <2>1, WantedIsThere DEF SentInv
<1>2. ASSUME NEW answer, Hears(Calling, answer)
      PROVE  /\ UNCHANGED <<recorded, unrecorded, results>> /\ pc' = "answer"
             /\ known' = [known EXCEPT ![Calling] = answer] /\ submitted' = submitted \cup {Calling}
  BY <1>2 DEF Hears, diary
<1>3. CASE CallRefused
  <2>1. Hears(Calling, Refused(0)) /\ UNCHANGED <<sent, again, executed, wire>>
    BY <1>3 DEF CallRefused, venue
  <2> QED
    BY <1>1, <1>2, <2>1, SentCall
<1>4. CASE CallDelayed
  <2>1. Hears(Calling, Unclear) /\ Sends(Calling) /\ UNCHANGED executed
        /\ wire' = wire \cup {[id |-> Calling, want |-> Wanted(Calling)]}
    BY <1>4 DEF CallDelayed
  <2>2. \E want \in Nat : wire' = wire \cup {[id |-> Calling, want |-> want]}
    BY <1>1, <2>1
  <2> QED
    BY <1>1, <1>2, <2>1, <2>2, SentCall
<1>5. CASE CallExecuted
  <2>1. PICK n \in Portions(Calling) : \E answer \in Answers(Calling, n) :
            Executes(Calling, Wanted(Calling), n) /\ Hears(Calling, answer)
    BY <1>5 DEF CallExecuted
  <2>2. PICK answer \in Answers(Calling, n) :
            Executes(Calling, Wanted(Calling), n) /\ Hears(Calling, answer)
    BY <2>1
  <2>3. \A i \in Ids : i # Calling => executed'[i] = executed[i]
    BY <2>2 DEF Executes, SentInv, WindDownTypeOK
  <2>4. Sends(Calling) /\ UNCHANGED wire
    BY <1>5 DEF CallExecuted
  <2> QED
    BY <1>1, <1>2, <2>2, <2>3, <2>4, SentCall
<1> QED
  BY <1>3, <1>4, <1>5

LEMMA SentArrive == SentInv /\ WindDownTypeOK' /\ Arrive => SentInv'
<1> SUFFICES ASSUME SentInv, WindDownTypeOK', Arrive PROVE SentInv'
  OBVIOUS
<1>1. PICK m \in wire :
         /\ \E n \in IF OpOf(m.id) = "cancel" THEN {Room(m.id)} ELSE 0 .. Room(m.id) :
               Executes(m.id, IF OpOf(m.id) = "cancel" THEN Room(m.id) ELSE m.want, n)
         /\ wire' = wire \ {m}
         /\ UNCHANGED <<diary, asked, memory, control, pc, exposure, history, tried, crashes>>
  BY DEF Arrive, Room
<1>2. /\ UNCHANGED <<recorded, unrecorded, results, known, submitted, sent, again>>
      /\ pc' = pc /\ todo' = todo
  BY <1>1 DEF diary, memory, control, history
<1>3. m.id \in Ids /\ m.id \in sent
  BY DEF SentInv, WindDownTypeOK, OnTheWire
<1>4. \A i \in Ids : i # m.id => executed'[i] = executed[i]
  BY <1>1 DEF Executes, SentInv, WindDownTypeOK
<1>5. Ordered'
  BY <1>2, <1>3, <1>4, OrderedStays DEF SentInv, Ordered
<1>6. \A w \in wire' : w.id \notin unrecorded => Unanswered(w.id)'
  <2> SUFFICES ASSUME NEW w \in wire, w # m, w.id \notin unrecorded PROVE Unanswered(w.id)'
    BY <1>1
  <2>1. w.id \in Ids /\ Unanswered(w.id) /\ w.id # m.id
    BY DEF SentInv, OnTheWire, WindDownTypeOK
  <2> QED
    BY <1>2, <1>4, <2>1 DEF Unanswered
<1>7. OnTheWire'
  BY <1>1, <1>2, <1>6, OnTheWireStays DEF SentInv
<1>8. Remembered'
  <2>1. Calling' = Calling /\ (pc = "call" => Calling \in Ids)
    BY <1>2 DEF Calling, SentInv, WindDownTypeOK
  <2> QED
    BY <1>2, <2>1, BegunStays DEF SentInv, Remembered
<1> QED
  BY <1>2, <1>5, <1>7, <1>8 DEF SentInv

LEMMA SentRests ==
  SentInv /\ WindDownTypeOK' /\ (ReadOrders \/ ReadAccount \/ NextRound \/ KillStep \/ Seal \/ Fill)
      => SentInv'
<1> SUFFICES ASSUME SentInv, WindDownTypeOK',
                    ReadOrders \/ ReadAccount \/ NextRound \/ KillStep \/ Seal \/ Fill
             PROVE  SentInv'
  OBVIOUS
<1>1. UNCHANGED <<wire, executed, recorded, unrecorded, results, known, submitted, sent, again>>
  BY DEF ReadOrders, ReadAccount, NextRound, KillStep, Seal, Fill, venue, diary, memory, history
<1>2. \/ pc \notin {"down", "call"} /\ pc' # "call"
      \/ pc' = pc /\ todo' = todo
  BY DEF ReadOrders, ReadAccount, NextRound, KillStep, Reconcile, Seal, Fill, control
<1> QED
  BY <1>1, <1>2, SentQuiet

(* The invariant of what was begun, sent and answered. *)
LEMMA WindDownSentInv == Spec => []SentInv
<1>1. Init => SentInv
  <2> SUFFICES ASSUME Init PROVE SentInv
    OBVIOUS
  <2>1. WindDownTypeOK
    BY InitTyped
  <2>2. Ordered
    BY DEF Init, Ordered, Begun
  <2>3. Remembered /\ OnTheWire
    BY DEF Init, Remembered, OnTheWire
  <2> QED
    BY <2>1, <2>2, <2>3 DEF Init, SentInv
<1>2. SentInv /\ [Next]_vars /\ WindDownTypeOK' => SentInv'
  <2>1. SentInv /\ UNCHANGED vars /\ WindDownTypeOK' => SentInv'
    <3> SUFFICES ASSUME SentInv, UNCHANGED vars, WindDownTypeOK' PROVE SentInv'
      OBVIOUS
    <3>1. /\ UNCHANGED <<wire, executed, recorded, unrecorded, results, known, submitted, sent, again>>
          /\ pc' = pc /\ todo' = todo
      BY DEF vars, venue, diary, memory, control, history
    <3> QED
      BY <3>1, SentQuiet
  <2> QED
    BY <2>1, SentBegin, SentAttempt, SentLeaveKnown, SentAnswer, SentReread, SentCalls, SentArrive,
       SentRests DEF Next
<1> QED
  BY <1>1, <1>2, WindDownTypeCorrect, PTL DEF Spec

(* No operation the diary knows of is sent twice, and none beside an attempt   *)
(* that may still be carried out, over every crash and repeated kill.          *)
THEOREM WindDownSendsOnce == Spec => []SentOnce
<1>1. SentInv => SentOnce
  <2> SUFFICES ASSUME SentInv, NEW m \in wire, NEW id \in sent, OpOf(id) = OpOf(m.id),
                      id[2] > m.id[2], m.id \notin unrecorded
               PROVE  FALSE
    BY DEF SentInv, SentOnce
  <2>1. id \in Ids /\ m.id \in Ids /\ id \in Begun /\ Last(m.id)
    BY DEF SentInv, WindDownTypeOK, Ordered, OnTheWire
  <2>2. id = <<m.id[1], id[2]>> /\ id[2] \in 0 .. MaxAttempts - 1
    BY <2>1, IdTypes DEF OpOf
  <2> QED
    BY <2>1, <2>2 DEF Last
<1> QED
  BY <1>1, WindDownSentInv, PTL

-----------------------------------------------------------------------------
(* Flat means flat. *)

(* What is executed, late or in time, only takes from an account that was read. *)
LEMMA FlatShrinks ==
  ASSUME WindDownTypeOK, FlatInv, Shrinks, UNCHANGED <<exposure, seen>>, pc' = "judge" => pc = "judge"
  PROVE  FlatInv'
<1>1. /\ account.resting \in Nat /\ account.perp \in Nat /\ account.spot \in Nat
      /\ account'.resting \in Nat /\ account'.perp \in Nat /\ account'.spot \in Nat
      /\ account'.resting <= account.resting /\ account'.perp <= account.perp
      /\ account'.spot <= account.spot
  BY DEF WindDownTypeOK, Shrinks, Holdings
<1>2. Dust \in Nat /\ Minimum \in Nat
  BY WindDownAssumption
<1>3. ASSUME exposure' = "flat" PROVE account' = Unread
  <2>1. account.resting = 0 /\ account.perp = 0 /\ account.spot = 0
    BY <1>3 DEF FlatInv, FlatIsFlat, Unread
  <2>2. account'.resting = 0 /\ account'.perp = 0 /\ account'.spot = 0
    BY <1>1, <2>1
  <2> QED
    BY <2>2 DEF Shrinks, Holdings, Unread
<1>4. ASSUME exposure' = "dust"
      PROVE  /\ account'.resting = 0 /\ IsDust(account'.spot)
             /\ account'.perp > 0 => account'.perp < Minimum
  <2>1. account.resting = 0 /\ IsDust(account.spot) /\ (account.perp > 0 => account.perp < Minimum)
    BY <1>4 DEF FlatInv, FlatIsFlat
  <2> QED
    BY <1>1, <1>2, <2>1 DEF IsDust
<1>5. pc' = "judge" => seen'.resting = -1 \/ account'.resting <= seen'.resting
  <2>1. seen.resting \in Nat \cup {-1}
    BY DEF WindDownTypeOK
  <2> QED
    BY <1>1, <2>1 DEF FlatInv
<1>6. FlatIsFlat'
  BY <1>3, <1>4 DEF FlatIsFlat, IsDust
<1> QED
  BY <1>5, <1>6 DEF FlatInv

LEMMA FlatFill == WindDownTypeOK /\ FlatInv /\ Fill => FlatInv'
<1> SUFFICES ASSUME WindDownTypeOK, FlatInv, Fill PROVE FlatInv'
  OBVIOUS
<1>1. account.resting \in Nat /\ account.resting > 0 /\ seen.resting \in Nat \cup {-1}
  BY DEF WindDownTypeOK, Holdings, Fill
<1>2. account'.resting = account.resting - 1 /\ UNCHANGED <<exposure, pc, seen>>
  BY DEF Fill, WindDownTypeOK, Holdings, control
<1>3. exposure \notin {"flat", "dust"}
  BY <1>1 DEF FlatInv, FlatIsFlat, Unread
<1>4. pc' = "judge" => seen'.resting = -1 \/ account'.resting <= seen'.resting
  BY <1>1, <1>2 DEF FlatInv
<1> QED
  BY <1>2, <1>3, <1>4 DEF FlatInv, FlatIsFlat

(* The orders are read before the account: between the two reads an order may *)
(* fill, and its position is then in the account.                             *)
LEMMA FlatKillStep == WindDownTypeOK /\ FlatInv /\ KillStep => FlatInv'
<1> SUFFICES ASSUME WindDownTypeOK, FlatInv, KillStep PROVE FlatInv'
  OBVIOUS
<1>1. /\ account.resting \in Nat /\ account.perp \in Nat /\ account.spot \in Nat
      /\ account \in Holdings /\ UNCHANGED account /\ seen.resting \in Nat \cup {-1}
  BY DEF KillStep, WindDownTypeOK, Holdings, venue
<1>2. Dust \in Nat /\ Minimum \in Nat
  BY WindDownAssumption
<1>3. CASE pc = "reconcile"
  <2>1. UNCHANGED exposure /\ seen'.resting \in {-1, account.resting}
    BY <1>3 DEF KillStep, Reconcile, WindDownTypeOK
  <2> QED
    BY <1>1, <2>1 DEF FlatInv, FlatIsFlat, IsDust
<1>4. CASE pc = "judge"
  <2>1. Judge /\ pc' = "over"
    BY <1>4 DEF KillStep, Reconcile
  <2>2. CASE exposure' = "unknown"
    BY <2>1, <2>2 DEF FlatInv, FlatIsFlat
  <2>3. CASE seen.resting # -1 /\ exposure' = Exposure(seen.resting, account)
    <3>1. account.resting <= seen.resting
      BY <1>4, <2>3 DEF FlatInv
    <3>2. exposure' # "pending" => /\ account.resting = 0 /\ IsDust(account.spot)
                                   /\ account.perp > 0 => account.perp < Minimum
      BY <1>1, <1>2, <2>3, <3>1 DEF Exposure
    <3>3. exposure' = "flat" => account.perp = 0 /\ account.spot = 0
      BY <1>1, <2>3 DEF Exposure
    <3>4. exposure' = "flat" => account = Unread
      BY <1>1, <3>2, <3>3 DEF Holdings, Unread
    <3> QED
      BY <1>1, <2>1, <3>2, <3>4 DEF FlatInv, FlatIsFlat, IsDust
  <2> QED
    BY <2>1, <2>2, <2>3 DEF Judge
<1> QED
  BY <1>3, <1>4 DEF KillStep, Reconcile

LEMMA FlatRests ==
  ASSUME WindDownTypeOK, FlatInv, UNCHANGED <<account, exposure>>, pc' # "judge" \/ UNCHANGED <<pc, seen>>
  PROVE  FlatInv'
  BY DEF FlatInv, FlatIsFlat, IsDust

(* An account reported flat is flat, and one reported as dust holds nothing the *)
(* venue would take, whatever was still on its way when it was read.            *)
THEOREM WindDownFlat == Spec => []FlatIsFlat
<1>1. Init => FlatInv
  BY DEF Init, FlatInv, FlatIsFlat
<1>2. WindDownTypeOK /\ FlatInv /\ [Next]_vars => FlatInv'
  <2> SUFFICES ASSUME WindDownTypeOK, FlatInv, [Next]_vars PROVE FlatInv'
    OBVIOUS
  <2>1. CASE UNCHANGED vars
    BY <2>1, FlatRests DEF vars, venue, control
  <2>2. CASE Begin \/ ReadOrders \/ ReadAccount \/ Attempt \/ NextRound \/ Seal
    BY <2>2, FlatRests
       DEF Begin, ReadOrders, ReadAccount, Attempt, NextRound, Seal, venue
  <2>3. CASE LeaveKnown \/ Reread \/ Answer
    <3>1. todo \in Seq(TaskSet) /\ todo # <<>>
      BY <2>3, TaskTyped DEF LeaveKnown, Reread, Answer
    <3>2. pc' \in {"operate", "account", "round"}
      BY <2>3, <3>1, ProceedTyped DEF LeaveKnown, Reread, Answer
    <3> QED
      BY <2>3, <3>2, FlatRests DEF LeaveKnown, Reread, Answer, venue
  <2>4. CASE CallRefused \/ CallExecuted \/ CallDelayed
    <3>1. pc' = "answer" /\ UNCHANGED <<exposure, seen>>
      BY <2>4 DEF CallRefused, CallExecuted, CallDelayed, Hears, control
    <3>2. Shrinks \/ UNCHANGED account
      BY <2>4, TypeCall
    <3> QED
      BY <3>1, <3>2, FlatShrinks, FlatRests
  <2>5. CASE Arrive
    <3>1. Shrinks
      BY <2>5, TypeArrive
    <3>2. UNCHANGED <<exposure, seen, pc>>
      BY <2>5 DEF Arrive, control
    <3> QED
      BY <3>1, <3>2, FlatShrinks
  <2>6. CASE Crash
    BY <2>6 DEF Crash, FlatInv, FlatIsFlat
  <2> QED
    BY <2>1, <2>2, <2>3, <2>4, <2>5, <2>6, FlatFill, FlatKillStep DEF Next
<1>3. FlatInv => FlatIsFlat
  BY DEF FlatInv
<1> QED
  BY <1>1, <1>2, <1>3, WindDownTypeCorrect, PTL DEF Spec

-----------------------------------------------------------------------------
(* What was refused is tried again. *)

(* The process knows the request of every attempt whose record was kept, *)
Held == \A id \in Ids : known[id] # NoAnswer \/ id \in submitted => id \in requested \cup unrecorded
(* and the attempt in hand asks for what its task says. *)
InHand == pc \in {"call", "answer"} =>
    asked[Calling] = Head(todo).size /\ Calling \in requested /\ Calling \in tried

(* A pass has one task for a target, and cancels before it reads the account;  *)
(* what the venue shows enough of may be retried.                              *)
Busy == pc \in {"operate", "call", "answer"}
Tasked == Busy =>
    /\ \A i, j \in DOMAIN todo : todo[i].op = todo[j].op => i = j
    /\ \A i \in DOMAIN todo : /\ Shows(todo[i].op) => todo[i].retry
                              /\ todo[i].op = "cancel" => Len(todo) = 1

(* What this pass has read of a target the round may touch and the venue shows: *)
(* its task waits, or it is owed, or its attempt is settled.                    *)
Looks(op) == IF op = "cancel" THEN Busy \/ pc \in {"account", "round", "reconcile"}
             ELSE pc \in {"round", "reconcile"} \/ (Busy /\ Head(todo).op # "cancel")
Waiting(op) == Busy /\ \E i \in DOMAIN todo : todo[i].op = op
Closed(op) == \E id \in tried : OpOf(id) = op /\ Settled(id)
Followed == \A op \in only : Looks(op) /\ Shows(op) => Waiting(op) \/ op \in owed \/ Closed(op)

RetryInv == /\ Held /\ InHand /\ Tasked /\ Followed
            /\ pc = "reconcile" /\ round + 1 < Rounds => owed = {}

(* Outside a pass there is nothing to follow. *)
LEMMA RetryOutside ==
  ASSUME pc' \in {"down", "orders", "judge", "over", "sealed"}, Held'
  PROVE  RetryInv'
  BY DEF RetryInv, InHand, Tasked, Busy, Followed, Looks

(* Steps of the venue. *)
LEMMA RetryQuiet ==
  ASSUME RetryInv,
         UNCHANGED <<known, submitted, requested, unrecorded, asked, todo, tried, owed, only, seen,
                     round, pc>>
  PROVE  RetryInv'
<1>1. Held' /\ InHand' /\ Tasked'
  BY DEF RetryInv, Held, InHand, Tasked, Busy, Shows, Calling
<1>2. Followed'
  <2> SUFFICES ASSUME NEW op \in only, Looks(op)', Shows(op)'
               PROVE  Waiting(op)' \/ op \in owed' \/ Closed(op)'
    BY DEF Followed
  <2>1. Waiting(op) \/ op \in owed \/ Closed(op)
    BY DEF RetryInv, Followed, Looks, Shows, Busy
  <2>2. Closed(op) => Closed(op)'
    BY DEF Closed, Settled
  <2> QED
    BY <2>1, <2>2 DEF Waiting, Busy
<1> QED
  BY <1>1, <1>2 DEF RetryInv

(* The task in hand is the first of its pass. *)
LEMMA FirstTask ==
  ASSUME WindDownTypeOK, Busy
  PROVE  /\ todo \in Seq(TaskSet) /\ Len(todo) \in Nat /\ Len(todo) > 0
         /\ 1 \in DOMAIN todo /\ todo[1] = Head(todo) /\ DOMAIN todo = 1 .. Len(todo)
         /\ Head(todo).op \in Ops /\ Head(todo) \in TaskSet
<1>1. todo \in Seq(TaskSet) /\ todo # <<>> /\ Head(todo) \in TaskSet
  BY TaskTyped DEF Busy
<1>2. Len(todo) \in Nat /\ Len(todo) > 0 /\ DOMAIN todo = 1 .. Len(todo)
  BY <1>1
<1> QED
  BY <1>1, <1>2 DEF TaskSet

(* What is settled stays so while the steps are of other targets. *)
LEMMA ClosedStays ==
  ASSUME WindDownTypeOK, NEW op, NEW head, op # head, Closed(op), tried \subseteq tried',
         unrecorded \subseteq unrecorded',
         \A id \in Ids : OpOf(id) # head => known'[id] = known[id] /\ asked'[id] = asked[id]
  PROVE  Closed(op)'
<1>1. PICK id \in tried : OpOf(id) = op /\ Settled(id)
  BY DEF Closed
<1>2. id \in Ids /\ OpOf(id) # head
  BY <1>1 DEF WindDownTypeOK
<1>3. Settled(id)'
  BY <1>1, <1>2 DEF Settled
<1> QED
  BY <1>1, <1>3 DEF Closed

(* A task is done: its target is owed, or its attempt is settled, or the venue *)
(* shows too little of it.                                                     *)
LEMMA RetryProceed ==
  ASSUME WindDownTypeOK, RetryInv, Held', pc \in {"operate", "answer"}, Proceed,
         UNCHANGED <<seen, only, asked, unrecorded>>, owed \subseteq owed', tried \subseteq tried',
         NEW head, head = Head(todo).op,
         \A id \in Ids : OpOf(id) # head => known'[id] = known[id],
         Shows(head) => head \in owed' \/ Closed(head)'
  PROVE  RetryInv'
<1> USE DEF Busy
<1>1. /\ todo \in Seq(TaskSet) /\ Len(todo) \in Nat /\ Len(todo) > 0 /\ todo # <<>>
      /\ 1 \in DOMAIN todo /\ todo[1] = Head(todo) /\ DOMAIN todo = 1 .. Len(todo)
  BY FirstTask
<1>2. /\ DOMAIN todo' = 1 .. Len(todo) - 1 /\ Len(todo') = Len(todo) - 1
      /\ \A i \in DOMAIN todo' : i + 1 \in DOMAIN todo /\ todo'[i] = todo[i + 1]
  BY <1>1 DEF Proceed
<1>3. Tasked
  BY DEF RetryInv
<1>4. /\ pc' \in {"operate", "account", "round"}
      /\ pc' = "operate" <=> Len(todo) > 1
      /\ pc' = "account" => head = "cancel"
      /\ pc' = "round" => head # "cancel"
  BY <1>1 DEF Proceed
<1>5. Tasked'
  <2>1. ASSUME NEW i \in DOMAIN todo', NEW j \in DOMAIN todo', todo'[i].op = todo'[j].op PROVE i = j
    <3>1. i + 1 = j + 1
      BY <1>2, <1>3, <2>1 DEF Tasked
    <3> QED
      BY <1>1, <1>2, <3>1
  <2>2. ASSUME NEW i \in DOMAIN todo'
        PROVE  (Shows(todo[i + 1].op) => todo'[i].retry) /\ todo'[i].op # "cancel"
    <3>1. Len(todo) > 1
      BY <1>1, <1>2, <2>2
    <3> QED
      BY <1>2, <1>3, <2>2, <3>1 DEF Tasked
  <2>3. \A op : Shows(op)' <=> Shows(op)
    BY DEF Shows
  <2> QED
    BY <1>2, <2>1, <2>2, <2>3 DEF Tasked
<1>6. Followed'
  <2> SUFFICES ASSUME NEW op \in only, Looks(op)', Shows(op)
               PROVE  Waiting(op)' \/ op \in owed' \/ Closed(op)'
    BY DEF Followed, Shows
  <2>1. CASE op = head
    BY <2>1
  <2>2. CASE op # head
    <3>1. Looks(op)
      <4>1. op # "cancel" => head # "cancel"
        BY <1>1, <1>3, <1>4, <2>2 DEF Looks, Tasked
      <4> QED
        BY <4>1 DEF Looks
    <3>2. Waiting(op) \/ op \in owed \/ Closed(op)
      BY <3>1 DEF RetryInv, Followed
    <3>3. ASSUME Waiting(op) PROVE Waiting(op)'
      <4>1. PICK i \in DOMAIN todo : todo[i].op = op
        BY <3>3 DEF Waiting
      <4>2. i # 1 /\ i \in Nat
        BY <1>1, <2>2, <4>1
      <4>3. i - 1 \in DOMAIN todo' /\ (i - 1) + 1 = i /\ Len(todo) > 1
        BY <1>1, <1>2, <4>1, <4>2
      <4> QED
        BY <1>2, <1>4, <4>1, <4>3 DEF Waiting
    <3>4. Closed(op) => Closed(op)'
      BY <2>2, ClosedStays
    <3> QED
      BY <3>2, <3>3, <3>4
  <2> QED
    BY <2>1, <2>2
<1> QED
  BY <1>4, <1>5, <1>6 DEF RetryInv, InHand

(* The request of an attempt that was kept is the one its answer is judged by. *)
LEMMA AskedKept ==
  ASSUME Held, NEW id \in Ids, known[id] # NoAnswer \/ id \in submitted, id \notin unrecorded,
         NEW size
  PROVE  Asked(id, size) = asked[id]
  BY DEF Held, Asked

LEMMA RetryLeaveKnown == WindDownTypeOK /\ RetryInv /\ LeaveKnown => RetryInv'
<1> SUFFICES ASSUME WindDownTypeOK, RetryInv, LeaveKnown PROVE RetryInv'
  OBVIOUS
<1>0. PICK task, id : task = Head(todo) /\ id = Latest(task.op)
  OBVIOUS
<1>1. /\ pc = "operate" /\ Fresh(task.op) > 0 /\ known[id] # NoAnswer
      /\ ~task.retry \/ Complete(task.op, known[id], Asked(id, task.size))
      /\ Proceed /\ tried' = tried \cup {id}
      /\ UNCHANGED <<seen, only, asked, unrecorded, owed, known, submitted, requested>>
  BY <1>0 DEF LeaveKnown, memory, history
<1>2. task.op \in Ops /\ 1 \in DOMAIN todo /\ todo[1] = task
  BY <1>0, <1>1, FirstTask DEF Busy
<1>3. id \in Ids /\ OpOf(id) = task.op
  BY <1>0, <1>1, <1>2, LatestIs DEF OpOf
<1>4. Held'
  BY <1>1 DEF RetryInv, Held
<1>5. ASSUME Shows(task.op) PROVE Closed(task.op)'
  <2>1. task.retry
    BY <1>1, <1>2, <1>5 DEF RetryInv, Tasked, Busy
  <2>2. id \in unrecorded \/ Complete(task.op, known[id], asked[id])
    BY <1>1, <1>3, <2>1, AskedKept DEF RetryInv
  <2>3. Settled(id)'
    BY <1>1, <1>3, <2>2 DEF Settled
  <2> QED
    BY <1>1, <1>3, <2>3 DEF Closed
<1> QED
  BY <1>0, <1>1, <1>4, <1>5, RetryProceed

LEMMA RetryReread == WindDownTypeOK /\ RetryInv /\ Reread => RetryInv'
<1> SUFFICES ASSUME WindDownTypeOK, RetryInv, Reread PROVE RetryInv'
  OBVIOUS
<1>0. PICK task, id : task = Head(todo) /\ id = Latest(task.op)
  OBVIOUS
<1>1. /\ pc = "operate" /\ Fresh(task.op) > 0
      /\ Proceed /\ tried' = tried \cup {id}
      /\ UNCHANGED <<seen, only, asked, unrecorded, submitted, requested>>
  BY <1>0 DEF Reread, history
<1>2. task.op \in Ops /\ 1 \in DOMAIN todo /\ todo[1] = task
  BY <1>0, <1>1, FirstTask DEF Busy
<1>3. id \in Ids /\ OpOf(id) = task.op /\ Fresh(task.op) - 1 \in Nat
      /\ Fresh(task.op) - 1 < Fresh(task.op)
  <2>1. Fresh(task.op) \in Nat
    <3>1. Fresh(task.op) \in 0 .. MaxAttempts
      BY <1>2, FreshIs
    <3> QED
      BY <3>1, AttemptBound
  <2>2. \A x \in Nat : x > 0 => x - 1 \in Nat /\ x - 1 < x
    OBVIOUS
  <2> QED
    BY <1>0, <1>1, <1>2, <2>1, <2>2, LatestIs DEF OpOf
<1>4. known[id] # NoAnswer \/ id \in submitted
  BY <1>0, <1>2, <1>3, FreshIs DEF Free, Latest
<1>5. PICK answer : /\ known' = [known EXCEPT ![id] = answer]
                    /\ Owe(task, answer, Asked(id, task.size))
  BY <1>0 DEF Reread
<1>6. /\ known'[id] = answer
      /\ \A i \in Ids : i # id => known'[i] = known[i]
  BY <1>3, <1>5 DEF WindDownTypeOK
<1>7. Held'
  BY <1>1, <1>4, <1>6 DEF RetryInv, Held
<1>8. ASSUME Shows(task.op) PROVE task.op \in owed' \/ Closed(task.op)'
  <2>1. task.retry
    BY <1>1, <1>2, <1>8 DEF RetryInv, Tasked, Busy
  <2>2. \/ id \in unrecorded \/ Complete(task.op, answer, asked[id]) \/ ~Retryable(task.op, answer)
        \/ task.op \in owed'
    BY <1>3, <1>4, <1>5, <2>1, AskedKept DEF RetryInv, Owe, Owes
  <2>3. task.op \in owed' \/ Settled(id)'
    BY <1>1, <1>3, <1>6, <2>2 DEF Settled
  <2> QED
    BY <1>1, <1>3, <2>3 DEF Closed
<1>9. owed \subseteq owed' /\ \A i \in Ids : OpOf(i) # task.op => known'[i] = known[i]
  BY <1>3, <1>5, <1>6 DEF Owe
<1> QED
  BY <1>0, <1>1, <1>7, <1>8, <1>9, RetryProceed

LEMMA RetryAnswer == WindDownTypeOK /\ RetryInv /\ Answer => RetryInv'
<1> SUFFICES ASSUME WindDownTypeOK, RetryInv, Answer PROVE RetryInv'
  OBVIOUS
<1>0. PICK task, id : task = Head(todo) /\ id = Calling
  OBVIOUS
<1>1. /\ pc = "answer" /\ Owe(task, known[id], task.size) /\ Proceed
      /\ UNCHANGED <<seen, only, asked, unrecorded, known, submitted, requested, tried>>
  BY <1>0 DEF Answer, history
<1>2. task.op \in Ops /\ 1 \in DOMAIN todo /\ todo[1] = task
  BY <1>0, <1>1, FirstTask DEF Busy
<1>3. id \in Ids /\ OpOf(id) = task.op /\ asked[id] = task.size /\ id \in tried
  BY <1>0, <1>1 DEF WindDownTypeOK, RetryInv, InHand, OpOf, Calling
<1>4. Held'
  BY <1>1 DEF RetryInv, Held
<1>5. ASSUME Shows(task.op) PROVE task.op \in owed' \/ Closed(task.op)'
  <2>1. task.retry
    BY <1>1, <1>2, <1>5 DEF RetryInv, Tasked, Busy
  <2>2. \/ Complete(task.op, known[id], asked[id]) \/ ~Retryable(task.op, known[id])
        \/ task.op \in owed'
    BY <1>1, <1>3, <2>1 DEF Owe, Owes
  <2>3. task.op \in owed' \/ Settled(id)'
    BY <1>1, <1>3, <2>2 DEF Settled
  <2> QED
    BY <1>1, <1>3, <2>3 DEF Closed
<1>6. owed \subseteq owed'
  BY <1>1 DEF Owe
<1> QED
  BY <1>0, <1>1, <1>4, <1>5, <1>6, RetryProceed

(* A step that changes what is known of the attempt in hand, and nothing of    *)
(* another target: the pass is where it was.                                   *)
LEMMA RetryInPass ==
  ASSUME WindDownTypeOK, RetryInv, Held', InHand', Busy, pc' \in {"call", "answer"},
         UNCHANGED <<seen, only, owed>>, tried \subseteq tried', unrecorded \subseteq unrecorded',
         DOMAIN todo' = DOMAIN todo, Len(todo') = Len(todo), Head(todo').op = Head(todo).op,
         \A i \in DOMAIN todo : todo'[i].op = todo[i].op /\ todo'[i].retry = todo[i].retry,
         NEW head, head = Head(todo).op,
         \A id \in Ids : OpOf(id) # head => known'[id] = known[id] /\ asked'[id] = asked[id]
  PROVE  RetryInv'
<1>1. Tasked'
  BY DEF RetryInv, Tasked, Busy, Shows
<1>2. ASSUME NEW op \in only, Looks(op)', Shows(op)'
      PROVE  Waiting(op)' \/ op \in owed' \/ Closed(op)'
  <2>1. Looks(op) /\ Shows(op)
    BY <1>2 DEF Looks, Shows, Busy
  <2>2. Waiting(op) \/ op \in owed \/ Closed(op)
    BY <2>1 DEF RetryInv, Followed
  <2>3. Waiting(op) => Waiting(op)'
    BY DEF Waiting, Busy
  <2>4. Closed(op) /\ op # head => Closed(op)'
    BY ClosedStays
  <2>5. Waiting(head)
    BY FirstTask DEF Waiting
  <2> QED
    BY <2>2, <2>3, <2>4, <2>5
<1> QED
  BY <1>1, <1>2 DEF RetryInv, Followed

LEMMA RetryCall ==
  WindDownTypeOK /\ RetryInv /\ (CallRefused \/ CallExecuted \/ CallDelayed) => RetryInv'
<1> SUFFICES ASSUME WindDownTypeOK, RetryInv, CallRefused \/ CallExecuted \/ CallDelayed
             PROVE  RetryInv'
  OBVIOUS
<1> DEFINE id == Calling
<1>1. pc = "call" /\ \E answer : Hears(id, answer)
  BY DEF CallRefused, CallExecuted, CallDelayed
<1>2. PICK answer : Hears(id, answer)
  BY <1>1
<1>3. /\ pc' = "answer" /\ known' = [known EXCEPT ![id] = answer] /\ submitted' = submitted \cup {id}
      /\ UNCHANGED <<asked, requested, owed, unrecorded, tried, only, todo, seen>>
  BY <1>2 DEF Hears, control
<1>4. id \in Ids /\ OpOf(id) = Head(todo).op /\ id \in requested
  BY <1>1 DEF WindDownTypeOK, RetryInv, InHand, OpOf, Calling
<1>5. \A i \in Ids : i # id => known'[i] = known[i]
  BY <1>3, <1>4 DEF WindDownTypeOK
<1>6. InHand'
  BY <1>1, <1>3 DEF RetryInv, InHand, Calling
<1> HIDE DEF id
<1>7. Held'
  BY <1>3, <1>4, <1>5 DEF RetryInv, Held
<1> QED
  BY <1>1, <1>3, <1>4, <1>5, <1>6, <1>7, RetryInPass DEF Busy

LEMMA RetryAttempt == WindDownTypeOK /\ RetryInv /\ Attempt => RetryInv'
<1> SUFFICES ASSUME WindDownTypeOK, RetryInv, Attempt PROVE RetryInv'
  OBVIOUS
<1> DEFINE n == Fresh(Head(todo).op)
           id == <<Head(todo).op, n>>
<1>1. /\ todo' = [todo EXCEPT ![1].attempt = n] /\ pc = "operate" /\ pc' = "call" /\ n < MaxAttempts
      /\ asked' = [asked EXCEPT ![id] = Head(todo).size]
      /\ requested' = requested \cup {id} /\ tried' = tried \cup {id}
      /\ unrecorded \subseteq unrecorded'
      /\ UNCHANGED <<known, submitted, owed, only, seen>>
  BY DEF Attempt, Records
<1>2. /\ todo \in Seq(TaskSet) /\ Len(todo) \in Nat /\ Len(todo) > 0
      /\ 1 \in DOMAIN todo /\ todo[1] = Head(todo) /\ DOMAIN todo = 1 .. Len(todo)
      /\ Head(todo).op \in Ops /\ Head(todo) \in TaskSet
  BY <1>1, FirstTask DEF Busy
<1>3. n \in Nat
  <2>1. n \in 0 .. MaxAttempts
    BY <1>2, FreshIs
  <2> QED
    BY <2>1, AttemptBound
<1>4. id \in Ids /\ OpOf(id) = Head(todo).op
  BY <1>1, <1>2, <1>3, IdTypes DEF OpOf
<1> HIDE DEF n
<1>5. /\ DOMAIN todo' = DOMAIN todo /\ Len(todo') = Len(todo)
      /\ Head(todo') = [Head(todo) EXCEPT !.attempt = n]
      /\ \A i \in DOMAIN todo : todo'[i].op = todo[i].op /\ todo'[i].retry = todo[i].retry
  <2>1. [todo[1] EXCEPT !.attempt = n] \in TaskSet
    BY <1>2, <1>3 DEF TaskSet
  <2>2. todo' \in Seq(TaskSet) /\ Len(todo') = Len(todo) /\ Head(todo') = todo'[1]
    BY <1>1, <1>2, <2>1
  <2>3. todo'[1] = [todo[1] EXCEPT !.attempt = n] /\ \A i \in DOMAIN todo : i # 1 => todo'[i] = todo[i]
    BY <1>1, <1>2
  <2>4. todo'[1].op = todo[1].op /\ todo'[1].retry = todo[1].retry
    BY <1>2, <2>3 DEF TaskSet
  <2>5. ASSUME NEW i \in DOMAIN todo PROVE todo'[i].op = todo[i].op /\ todo'[i].retry = todo[i].retry
    BY <2>3, <2>4
  <2>6. DOMAIN todo' = DOMAIN todo
    BY <1>2, <2>2
  <2> QED
    BY <1>2, <2>2, <2>3, <2>5, <2>6
<1>6. Calling' = id /\ Head(todo').size = Head(todo).size /\ Head(todo').op = Head(todo).op
  BY <1>2, <1>5 DEF Calling, TaskSet
<1> HIDE DEF id
<1>7. asked'[id] = Head(todo).size /\ \A i \in Ids : i # id => asked'[i] = asked[i]
  BY <1>1, <1>4 DEF WindDownTypeOK
<1>8. InHand'
  BY <1>1, <1>6, <1>7 DEF InHand
<1>9. Held'
  BY <1>1 DEF RetryInv, Held
<1> QED
  BY <1>1, <1>4, <1>5, <1>6, <1>7, <1>8, <1>9, RetryInPass DEF Busy

(* The resting orders are read: what is shown and wanted has a task. *)
LEMMA RetryReadOrders == WindDownTypeOK /\ RetryInv /\ ReadOrders => RetryInv'
<1> SUFFICES ASSUME WindDownTypeOK, RetryInv, ReadOrders PROVE RetryInv'
  OBVIOUS
<1> DEFINE task == [op |-> "cancel", size |-> 0, retry |-> TRUE, attempt |-> 0]
<1>1. PICK resting \in {0, account.resting} :
         /\ seen' = [seen EXCEPT !.resting = resting]
         /\ todo' = IF resting > 0 /\ "cancel" \in only THEN <<task>> ELSE <<>>
  BY DEF ReadOrders
<1>2. /\ pc' = IF todo' = <<>> THEN "account" ELSE "operate"
      /\ UNCHANGED <<known, submitted, requested, unrecorded, asked, tried, owed, only, round>>
  BY DEF ReadOrders, memory, history
<1>3. seen'.resting = resting
  BY <1>1 DEF WindDownTypeOK
<1>4. Held'
  BY <1>2 DEF RetryInv, Held
<1>5. <<task>> # <<>> /\ Len(<<task>>) = 1 /\ DOMAIN <<task>> = {1} /\ <<task>>[1] = task
      /\ Head(<<task>>) = task
  OBVIOUS
<1> HIDE DEF task
<1>6. Tasked'
  <2>1. task.op = "cancel" /\ task.retry
    BY DEF task
  <2> QED
    BY <1>1, <1>2, <1>5, <2>1 DEF Tasked, Busy
<1>7. Followed'
  <2> SUFFICES ASSUME NEW op \in only, Looks(op)', Shows(op)' PROVE Waiting(op)'
    BY <1>2 DEF Followed
  <2>1. op = "cancel"
    <3>1. task.op = "cancel"
      BY DEF task
    <3> QED
      BY <1>1, <1>2, <1>5, <3>1 DEF Looks, Busy
  <2>2. resting > 0
    BY <1>3, <2>1 DEF Shows
  <2>3. todo' = <<task>> /\ pc' = "operate" /\ task.op = "cancel"
    BY <1>1, <1>2, <1>5, <2>1, <2>2 DEF task
  <2> QED
    BY <1>5, <2>1, <2>3 DEF Waiting, Busy
<1> QED
  BY <1>2, <1>4, <1>6, <1>7 DEF RetryInv, InHand

(* The lists a pass can be. *)
LEMMA OneTask ==
  ASSUME NEW x
  PROVE  <<>> \o <<>> = <<>> /\ <<>> \o <<x>> = <<x>> /\ <<x>> \o <<>> = <<x>>
  OBVIOUS

LEMMA TwoTasks ==
  ASSUME NEW x, NEW y
  PROVE  <<x>> \o <<y>> = <<x, y>>
<1>1. <<x>> \o <<y>> = Append(<<x>>, y)
  OBVIOUS
<1>2. <<x, y>> = Append(<<x>>, y)
  OBVIOUS
<1> QED
  BY <1>1, <1>2, Zenon

(* The tasks of an account as it was shown. *)
LEMMA TasksAre ==
  ASSUME NEW view \in Holdings, NEW priced \in BOOLEAN, NEW tasks, tasks = Tasks(view, priced)
  PROVE  /\ \A i, j \in DOMAIN tasks : tasks[i].op = tasks[j].op => i = j
         /\ \A i \in DOMAIN tasks : /\ tasks[i].op \in {"close", "sell"}
                                    /\ tasks[i].op = "close" /\ view.perp >= Minimum => tasks[i].retry
                                    /\ tasks[i].op = "sell" => tasks[i].retry
         /\ "close" \in only /\ view.perp > 0 => \E i \in DOMAIN tasks : tasks[i].op = "close"
         /\ "sell" \in only /\ view.spot > 0 /\ ~IsDust(view.spot) =>
                \E i \in DOMAIN tasks : tasks[i].op = "sell"
         /\ tasks # <<>> => Head(tasks).op # "cancel"
         /\ tasks = <<>> => DOMAIN tasks = {}
<1> DEFINE close == [op |-> "close", size |-> view.perp, retry |-> ~priced \/ view.perp >= Minimum,
                     attempt |-> 0]
           sell == [op |-> "sell", size |-> view.spot, retry |-> TRUE, attempt |-> 0]
<1>1. /\ close.op = "close" /\ (view.perp >= Minimum => close.retry)
      /\ sell.op = "sell" /\ sell.retry
  OBVIOUS
<1> DEFINE sold == view.spot > 0 /\ ~(priced /\ IsDust(view.spot)) /\ "sell" \in only
<1>2. tasks = (IF view.perp > 0 /\ "close" \in only THEN <<close>> ELSE <<>>)
               \o (IF sold THEN <<sell>> ELSE <<>>)
  BY DEF Tasks
<1> HIDE DEF close, sell
<1>3. /\ <<>> \o <<>> = <<>> /\ <<>> \o <<sell>> = <<sell>> /\ <<close>> \o <<>> = <<close>>
      /\ <<close>> \o <<sell>> = <<close, sell>>
  BY OneTask, TwoTasks
<1>4. tasks \in {<<>>, <<close>>, <<sell>>, <<close, sell>>}
  BY <1>2, <1>3
<1>5. /\ "close" \in only /\ view.perp > 0 => tasks \in {<<close>>, <<close, sell>>}
      /\ "sell" \in only /\ view.spot > 0 /\ ~IsDust(view.spot) => tasks \in {<<sell>>, <<close, sell>>}
  BY <1>2, <1>3
<1>6. CASE tasks = <<>>
  BY <1>5, <1>6
<1>7. CASE tasks = <<close>>
  BY <1>1, <1>5, <1>7
<1>8. CASE tasks = <<sell>>
  BY <1>1, <1>5, <1>8
<1>9. CASE tasks = <<close, sell>>
  BY <1>1, <1>5, <1>9
<1> QED
  BY <1>4, <1>6, <1>7, <1>8, <1>9

(* The account is read: what is shown and wanted has a task, or is dust. *)
LEMMA RetryReadAccount == WindDownTypeOK /\ RetryInv /\ ReadAccount => RetryInv'
<1> SUFFICES ASSUME WindDownTypeOK, RetryInv, ReadAccount PROVE RetryInv'
  OBVIOUS
<1>1. PICK view \in Views, priced \in BOOLEAN :
         /\ seen' = [view EXCEPT !.resting = seen.resting]
         /\ todo' = Tasks(view, priced)
  BY DEF ReadAccount
<1>2. /\ pc = "account" /\ pc' = IF todo' = <<>> THEN "round" ELSE "operate"
      /\ UNCHANGED <<known, submitted, requested, unrecorded, asked, tried, owed, only, round>>
  BY DEF ReadAccount, memory, history
<1>3. view \in Holdings
  <2>1. account \in Holdings /\ last \in Seq(Holdings)
    BY DEF WindDownTypeOK
  <2>2. \A i \in DOMAIN last : last[i] \in Holdings
    BY <2>1
  <2> QED
    BY <2>1, <2>2 DEF Views, Unread, Holdings
<1>4. seen'.resting = seen.resting /\ seen'.perp = view.perp /\ seen'.spot = view.spot
  BY <1>1, <1>3 DEF Holdings
<1>5. Held'
  BY <1>2 DEF RetryInv, Held
<1>6. Minimum \in Nat /\ Dust \in Nat /\ view.perp \in Nat /\ view.spot \in Nat
  BY <1>3, WindDownAssumption DEF Holdings
<1>7. /\ Shows("close")' => view.perp > 0 /\ view.perp >= Minimum
      /\ Shows("sell")' => view.spot > 0 /\ ~IsDust(view.spot)
      /\ Shows("cancel")' <=> Shows("cancel")
  BY <1>4, <1>6 DEF Shows, IsDust
<1>8. /\ \A i, j \in DOMAIN todo' : todo'[i].op = todo'[j].op => i = j
      /\ \A i \in DOMAIN todo' : /\ todo'[i].op \in {"close", "sell"}
                                 /\ todo'[i].op = "close" /\ view.perp >= Minimum => todo'[i].retry
                                 /\ todo'[i].op = "sell" => todo'[i].retry
      /\ "close" \in only /\ view.perp > 0 => \E i \in DOMAIN todo' : todo'[i].op = "close"
      /\ "sell" \in only /\ view.spot > 0 /\ ~IsDust(view.spot) =>
             \E i \in DOMAIN todo' : todo'[i].op = "sell"
      /\ todo' # <<>> => Head(todo').op # "cancel"
      /\ todo' = <<>> => DOMAIN todo' = {}
  BY <1>1, <1>3, TasksAre
<1>9. Tasked'
  BY <1>2, <1>7, <1>8 DEF Tasked
<1>10. Followed'
  <2> SUFFICES ASSUME NEW op \in only, Looks(op)', Shows(op)'
               PROVE  Waiting(op)' \/ op \in owed' \/ Closed(op)'
    BY <1>2 DEF Followed
  <2>1. op \in Ops
    BY DEF WindDownTypeOK
  <2>2. CASE op = "cancel"
    <3>1. Closed(op) => Closed(op)'
      BY <1>2 DEF Closed, Settled
    <3>2. ~Waiting(op) /\ Looks(op) /\ Shows(op)
      BY <1>2, <1>7, <2>2 DEF Waiting, Looks, Busy
    <3> QED
      BY <1>2, <3>1, <3>2 DEF RetryInv, Followed
  <2>3. CASE op = "close"
    BY <1>2, <1>7, <1>8, <2>3 DEF Waiting, Busy
  <2>4. CASE op = "sell"
    BY <1>2, <1>7, <1>8, <2>4 DEF Waiting, Busy
  <2> QED
    BY <2>1, <2>2, <2>3, <2>4 DEF Ops
<1> QED
  BY <1>2, <1>5, <1>9, <1>10 DEF RetryInv, InHand

LEMMA RetryNextRound == WindDownTypeOK /\ RetryInv /\ NextRound => RetryInv'
<1> SUFFICES ASSUME WindDownTypeOK, RetryInv, NextRound PROVE RetryInv'
  OBVIOUS
<1>1. pc = "round" /\ UNCHANGED <<known, submitted, requested, unrecorded, asked, todo, seen>>
  BY DEF NextRound, history
<1>2. Held'
  BY <1>1 DEF RetryInv, Held
<1>3. CASE round + 1 < Rounds /\ owed # {}
  BY <1>2, <1>3, RetryOutside DEF NextRound
<1>4. CASE ~(round + 1 < Rounds /\ owed # {})
  <2>1. pc' = "reconcile" /\ UNCHANGED <<round, only, owed, tried>>
    BY <1>4 DEF NextRound
  <2>2. Followed'
    <3> SUFFICES ASSUME NEW op \in only, Shows(op)' PROVE op \in owed' \/ Closed(op)'
      BY <2>1 DEF Followed
    <3>1. Looks(op) /\ Shows(op) /\ ~Waiting(op)
      BY <1>1 DEF Looks, Shows, Waiting, Busy
    <3>2. Closed(op) => Closed(op)'
      BY <1>1, <2>1 DEF Closed, Settled
    <3> QED
      BY <2>1, <3>1, <3>2 DEF RetryInv, Followed
  <2> QED
    BY <1>2, <1>4, <2>1, <2>2 DEF RetryInv, InHand, Tasked, Busy
<1> QED
  BY <1>3, <1>4

LEMMA RetryBegin == WindDownTypeOK /\ Ordered /\ RetryInv /\ (Begin \/ Crash \/ KillStep \/ Seal) => RetryInv'
<1> SUFFICES ASSUME WindDownTypeOK, Ordered, RetryInv, Begin \/ Crash \/ KillStep \/ Seal
             PROVE  RetryInv'
  OBVIOUS
<1>1. pc' \in {"down", "orders", "judge", "over", "sealed"}
  BY DEF Begin, Crash, KillStep, Reconcile, Seal
<1>2. CASE Begin
  <2>1. known' = results /\ submitted' = recorded /\ requested' = recorded /\ UNCHANGED unrecorded
    BY <1>2 DEF Begin, history
  <2>2. Held'
    BY <2>1 DEF Held, Ordered, Begun
  <2> QED
    BY <1>1, <2>2, RetryOutside
<1>3. CASE Crash
  <2>1. Held'
    BY <1>3 DEF Crash, Nothing, Held
  <2> QED
    BY <1>1, <2>1, RetryOutside
<1>4. CASE KillStep \/ Seal
  <2>1. UNCHANGED <<known, submitted, requested, unrecorded>>
    BY <1>4 DEF KillStep, Seal, memory, history
  <2>2. Held'
    BY <2>1 DEF RetryInv, Held
  <2> QED
    BY <1>1, <2>2, RetryOutside
<1> QED
  BY <1>2, <1>3, <1>4

(* What a round may touch and the venue shows is not left while another round  *)
(* remains, for any number of rounds, crashes and refused records.             *)
THEOREM WindDownRetriesOwed == Spec => []OwedIsRetried
<1>1. Init => RetryInv
  BY DEF Init, RetryInv, Held, InHand, Tasked, Busy, Followed, Looks
<1>2. WindDownTypeOK /\ Ordered /\ RetryInv /\ [Next]_vars => RetryInv'
  <2>1. WindDownTypeOK /\ RetryInv /\ (Arrive \/ Fill \/ UNCHANGED vars) => RetryInv'
    <3> SUFFICES ASSUME WindDownTypeOK, RetryInv, Arrive \/ Fill \/ UNCHANGED vars PROVE RetryInv'
      OBVIOUS
    <3>1. UNCHANGED <<known, submitted, requested, unrecorded, asked, todo, tried, owed, only, seen,
                      round, pc>>
      BY DEF Arrive, Fill, vars, memory, control, history
    <3> QED
      BY <3>1, RetryQuiet
  <2> QED
    BY <2>1, RetryBegin, RetryAttempt, RetryLeaveKnown, RetryAnswer, RetryReread, RetryCall,
       RetryReadOrders, RetryReadAccount, RetryNextRound DEF Next
<1>3. SentInv => Ordered
  BY DEF SentInv
<1>4. RetryInv => OwedIsRetried
  BY DEF RetryInv, Followed, OwedIsRetried, Looks, Waiting, Busy, Closed
<1> QED
  BY <1>1, <1>2, <1>3, <1>4, WindDownTypeCorrect, WindDownSentInv, PTL DEF Spec
===============================================================================
