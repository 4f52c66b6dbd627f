------------------------------- MODULE WindDown -------------------------------
(***************************************************************************)
(* The wind-down of a dead world (runtime/winddown.py): cancel, close,     *)
(* sell, reconcile, against a venue that answers late, partly or not at    *)
(* all, over a diary that may refuse a record, in a process that may die   *)
(* between any two steps and be followed by another kill.                  *)
(*                                                                         *)
(* The venue holds one resting order (which may still fill), one perp      *)
(* position and one spot balance, in units of a constant price.            *)
(***************************************************************************)
EXTENDS Integers, Sequences, FiniteSets

CONSTANTS
    Accounts,       \* the accounts a world may die with
    Dust,           \* kill.dust_micro: a balance worth no more is left alone
    Minimum,        \* the venue's smallest order
    Rounds,         \* ROUNDS_PER_KILL
    MaxCrashes,     \* bound: processes that die inside the window
    MaxRefusals     \* bound: records the diary refuses

ASSUME WindDownAssumption ==
    /\ \A a \in Accounts : a \in [resting : Nat, perp : Nat, spot : Nat]
    /\ Dust \in Nat /\ Minimum \in Nat /\ Rounds \in Nat \ {0}
    /\ MaxCrashes \in Nat /\ MaxRefusals \in Nat

Ops == {"cancel", "close", "sell"}
MaxAttempts == Rounds * (MaxCrashes + 1)
Ids == Ops \X (0 .. MaxAttempts - 1)           \* operation_id: a target and an attempt
OpOf(id) == id[1]

(* What an operation's answer says: done, refused (what was cancelled after a *)
(* partial fill included), or nothing certain.                                *)
Done(n) == [says |-> "done", n |-> n]
Refused(n) == [says |-> "refused", n |-> n]
Unclear == [says |-> "unclear", n |-> 0]
NoAnswer == [says |-> "no answer", n |-> 0]
Unseen == [want |-> 0, n |-> 0]
Unread == [resting |-> 0, perp |-> 0, spot |-> 0]

VARIABLES
    account,        \* the venue: resting size, perp position, spot balance
    wire,           \* operations sent and not yet at the venue, with their size
    executed,       \* per operation what the venue did of what it wanted
    recorded,       \* the diary: operations with a winddown.op
    results,        \*            and the last winddown.op_result of each
    asked,          \* the size each attempt asked for
    known, submitted, requested,    \* _known, _submitted, _requested of this process
    owed,           \* _owed: targets that this round left a next attempt
    only,           \* the targets this round may touch
    round,          \* the round of this kill
    pc, todo,       \* what the process does next, and the operations of this pass, the
                    \* first with the attempt that is in hand
    seen,           \* what the reads of this pass showed
    last,           \* the adapter's last complete account, if any
    exposure,       \* exposure_state of the last reconciliation
    sent, again,    \* history: operations sent, and sent more than once
    unrecorded,     \* history: operations whose record the diary refused
    tried,          \* history: attempts begun, read again or left alone in this round
    crashes, refusals

venue == <<account, wire, executed>>
diary == <<recorded, results, refusals>>
memory == <<known, submitted, requested, owed>>
control == <<only, round, todo, seen, last>>
history == <<sent, again, unrecorded>>
vars == <<venue, diary, asked, memory, control, pc, exposure, history, tried, crashes>>

(* What a process that has not begun remembers. *)
Nothing ==
    /\ known' = [id \in Ids |-> NoAnswer] /\ submitted' = {} /\ requested' = {} /\ owed' = {}
    /\ only' = Ops /\ round' = 0 /\ todo' = <<>> /\ seen' = Unread /\ last' = <<>> /\ tried' = {}

Init ==
    /\ account \in Accounts /\ wire = {} /\ executed = [id \in Ids |-> Unseen]
    /\ recorded = {} /\ results = [id \in Ids |-> NoAnswer] /\ refusals = 0
    /\ asked = [id \in Ids |-> 0]
    /\ known = results /\ submitted = {} /\ requested = {} /\ owed = {}
    /\ only = Ops /\ round = 0 /\ todo = <<>> /\ seen = Unread /\ last = <<>>
    /\ pc = "down" /\ exposure = "unknown"
    /\ sent = {} /\ again = {} /\ unrecorded = {} /\ tried = {} /\ crashes = 0

-------------------------------------------------------------------------------
(* Operations and their answers. *)

(* The operation did all it names, judged by what the attempt asked for. *)
Complete(op, answer, size) == answer.says = "done" /\ (op = "cancel" \/ answer.n >= size)

(* A definitive answer that left the target in place. *)
RetriesUnclear(op, answer) ==       \* mutant: silence is taken for a refusal
    answer.says \in {"refused", "unclear"} \/ (answer.says = "done" /\ op # "cancel")
Retryable(op, answer) == answer.says = "refused" \/ (answer.says = "done" /\ op # "cancel")

(* _asked: the recorded request of an attempt, or the present one's size. *)
AskedNow(id, size) == size          \* mutant: judged by what is left now
Asked(id, size) == IF id \in requested THEN asked[id] ELSE size

Owes(task, answer, size) ==
    task.retry /\ Retryable(task.op, answer) /\ ~Complete(task.op, answer, size)
Owe(task, answer, size) ==
    owed' = IF Owes(task, answer, size) THEN owed \cup {task.op} ELSE owed

(* The first attempt of a target that this diary does not hold. *)
Fresh(op) ==
    LET free(n) == known[<<op, n>>] = NoAnswer /\ <<op, n>> \notin submitted
    IN  CHOOSE n \in 0 .. MaxAttempts : /\ n = MaxAttempts \/ free(n)
                                        /\ \A m \in 0 .. n - 1 : ~free(m)
Latest(op) == <<op, Fresh(op) - 1>>

(* A record reaches the diary or is refused, and the kill proceeds. *)
Records(keep, lose) ==
    \/ keep /\ UNCHANGED refusals
    \/ refusals < MaxRefusals /\ refusals' = refusals + 1 /\ lose

Proceed ==
    /\ todo' = Tail(todo)
    /\ pc' = IF Len(todo) > 1 THEN "operate" ELSE IF Head(todo).op = "cancel" THEN "account" ELSE "round"

(* _operate: a new attempt, when there is none or the latest one was refused  *)
(* or did only part of what it asked for.                                     *)
Attempt ==
    LET task == Head(todo)
        n == Fresh(task.op)
        id == <<task.op, n>>
        before == known[Latest(task.op)]
    IN  /\ pc = "operate" /\ n < MaxAttempts
        /\ n > 0 => /\ before # NoAnswer /\ task.retry /\ Retryable(task.op, before)
                    /\ ~Complete(task.op, before, Asked(Latest(task.op), task.size))
        /\ Records(/\ recorded' = recorded \cup {id} /\ UNCHANGED unrecorded,
                   /\ unrecorded' = unrecorded \cup {id} /\ UNCHANGED recorded)
        /\ todo' = [todo EXCEPT ![1].attempt = n]
        /\ asked' = [asked EXCEPT ![id] = task.size]
        /\ requested' = requested \cup {id}
        /\ tried' = tried \cup {id}
        /\ pc' = "call"
        /\ UNCHANGED <<venue, results, known, submitted, owed, only, round, seen, last, exposure,
                       sent, again, crashes>>

(* The attempt whose answer is known as complete, or may not be repeated: the  *)
(* answer is recorded once more, and nothing is sent.                          *)
LeaveKnown ==
    LET task == Head(todo)
        before == known[Latest(task.op)]
    IN  /\ pc = "operate" /\ Fresh(task.op) > 0 /\ before # NoAnswer
        /\ ~task.retry \/ Complete(task.op, before, Asked(Latest(task.op), task.size))
        /\ Records(results' = [results EXCEPT ![Latest(task.op)] = before], UNCHANGED results)
        /\ tried' = tried \cup {Latest(task.op)}
        /\ Proceed
        /\ UNCHANGED <<venue, recorded, asked, memory, only, round, seen, last, exposure,
                       history, crashes>>

(* What the venue says of an operation: nothing of a cancel, whose identity it *)
(* never saw, and nothing of what has not reached it (exchange.py, lookup).    *)
Looked(id) == IF executed[id].n = executed[id].want THEN Done(executed[id].n)
                                                    ELSE Refused(executed[id].n)
Lookup(id) ==
    {Unclear} \cup (IF OpOf(id) = "cancel" \/ executed[id] = Unseen THEN {} ELSE {Looked(id)})

(* Sent without an answer, or with an unclear one: read, never sent again. *)
Reread ==
    LET task == Head(todo)
        id == Latest(task.op)
    IN  /\ pc = "operate" /\ Fresh(task.op) > 0
        /\ \/ known[id] = NoAnswer
           \/ /\ task.retry /\ ~Complete(task.op, known[id], Asked(id, task.size))
              /\ ~Retryable(task.op, known[id])
        /\ \E answer \in Lookup(id) :
             /\ known' = [known EXCEPT ![id] = answer]
             /\ Records(results' = [results EXCEPT ![id] = answer], UNCHANGED results)
             /\ Owe(task, answer, Asked(id, task.size))
        /\ tried' = tried \cup {id}
        /\ Proceed
        /\ UNCHANGED <<venue, recorded, asked, submitted, requested, only, round, seen, last,
                       exposure, history, crashes>>

-------------------------------------------------------------------------------
(* The venue. *)

Available(op) == IF op = "close" THEN account.perp ELSE account.spot
Smaller(a, b) == IF a < b THEN a ELSE b

(* A cancel takes the order away, a reduce-only close or a sale executes n of *)
(* what it wants, never more than there is.                                   *)
Executes(id, want, n) ==
    /\ n <= want
    /\ CASE OpOf(id) = "cancel" -> account' = [account EXCEPT !.resting = @ - n]
         [] OpOf(id) = "close" -> account' = [account EXCEPT !.perp = @ - n]
         [] OpOf(id) = "sell" -> account' = [account EXCEPT !.spot = @ - n]
    /\ executed' = IF OpOf(id) = "cancel" THEN executed
                   ELSE [executed EXCEPT ![id] = [want |-> want, n |-> n]]

Sends(id) == sent' = sent \cup {id} /\ again' = IF id \in sent THEN again \cup {id} ELSE again

(* One call of the adapter: refused before it is sent, carried out wholly, in  *)
(* part or not at all and answered or not, or lost for a while on the way.     *)
(* An unclear answer was looked up once by the adapter itself.                 *)
Wanted(id) ==
    CASE OpOf(id) = "cancel" -> account.resting
      [] OpOf(id) = "close" -> account.perp
      [] OpOf(id) = "sell" -> Smaller(asked[id], account.spot)
Portions(id) == IF OpOf(id) = "cancel" THEN {0, Wanted(id)} ELSE 0 .. Wanted(id)
Answers(id, n) ==
    {Unclear, IF n = 0 THEN Refused(0) ELSE Done(n)}
      \cup IF OpOf(id) # "cancel" /\ n < Wanted(id) THEN {Refused(n)} ELSE {}

Hears(id, answer) ==
    /\ pc' = "answer"
    /\ known' = [known EXCEPT ![id] = answer] /\ submitted' = submitted \cup {id}
    /\ UNCHANGED <<diary, asked, requested, owed, control, exposure, unrecorded, tried, crashes>>

Calling == <<Head(todo).op, Head(todo).attempt>>
CallRefused ==
    /\ pc = "call" /\ OpOf(Calling) # "cancel"
    /\ Hears(Calling, Refused(0))
    /\ UNCHANGED <<venue, sent, again>>
CallExecuted ==
    /\ pc = "call"
    /\ OpOf(Calling) = "cancel" \/ Wanted(Calling) > 0
    /\ \E n \in Portions(Calling) : \E answer \in Answers(Calling, n) :
         Executes(Calling, Wanted(Calling), n) /\ Hears(Calling, answer)
    /\ Sends(Calling)
    /\ UNCHANGED wire
CallDelayed ==
    /\ pc = "call" /\ Wanted(Calling) > 0
    /\ wire' = wire \cup {[id |-> Calling, want |-> Wanted(Calling)]}
    /\ Hears(Calling, Unclear)
    /\ Sends(Calling)
    /\ UNCHANGED <<account, executed>>

(* What was delayed reaches the venue. *)
Arrive ==
    \E m \in wire :
        LET there == IF OpOf(m.id) = "cancel" THEN account.resting ELSE Available(OpOf(m.id))
        IN  /\ \E n \in IF OpOf(m.id) = "cancel" THEN {there} ELSE 0 .. there :
                  Executes(m.id, IF OpOf(m.id) = "cancel" THEN there ELSE m.want, n)
            /\ wire' = wire \ {m}
            /\ UNCHANGED <<diary, asked, memory, control, pc, exposure, history, tried, crashes>>

(* A resting order of the dead world fills. *)
Fill ==
    /\ account.resting > 0
    /\ account' = [account EXCEPT !.resting = @ - 1, !.perp = @ + 1]
    /\ UNCHANGED <<wire, executed, diary, asked, memory, control, pc, exposure, history,
                   tried, crashes>>

-------------------------------------------------------------------------------
(* One kill. *)

(* _replay: a kill knows what the diary kept of the earlier ones. *)
Begin ==
    /\ pc = "down" /\ pc' = "orders"
    /\ known' = results /\ submitted' = recorded /\ requested' = recorded
    /\ UNCHANGED <<venue, diary, asked, owed, control, exposure, history, tried, crashes>>

(* _pass: the resting orders that are wanted are cancelled first, *)
ReadOrders ==
    /\ pc = "orders"
    /\ \E resting \in {0, account.resting} :     \* 0: none, or the read failed
         /\ seen' = [seen EXCEPT !.resting = resting]
         /\ todo' = IF resting > 0 /\ "cancel" \in only
                    THEN <<[op |-> "cancel", size |-> 0, retry |-> TRUE, attempt |-> 0]>> ELSE <<>>
         /\ pc' = IF todo' = <<>> THEN "account" ELSE "operate"
    /\ UNCHANGED <<venue, diary, asked, memory, only, round, last, exposure, history, tried,
                   crashes>>

(* then positions are closed and balances sold, as the account read shows them: *)
(* now, in an older snapshot, or not at all; without mids nothing has a value.  *)
IsDust(size) == size <= Dust \/ size < Minimum
Tasks(view, priced) ==
    LET close == [op |-> "close", size |-> view.perp, retry |-> ~priced \/ view.perp >= Minimum,
                  attempt |-> 0]
        sell == [op |-> "sell", size |-> view.spot, retry |-> TRUE, attempt |-> 0]
    IN  (IF view.perp > 0 /\ "close" \in only THEN <<close>> ELSE <<>>)
        \o (IF view.spot > 0 /\ ~(priced /\ IsDust(view.spot)) /\ "sell" \in only
            THEN <<sell>> ELSE <<>>)
Views == {account, Unread} \cup {last[i] : i \in DOMAIN last}
ReadAccount ==
    /\ pc = "account"
    /\ \E view \in Views, priced \in BOOLEAN :
         /\ seen' = [view EXCEPT !.resting = seen.resting]
         /\ last' = IF view = account THEN <<account>> ELSE last
         /\ todo' = Tasks(view, priced)
         /\ pc' = IF todo' = <<>> THEN "round" ELSE "operate"
    /\ UNCHANGED <<venue, diary, asked, memory, only, round, exposure, history, tried, crashes>>

(* The answer is recorded, and a refusal or a part owes the target another attempt. *)
Answer ==
    LET task == Head(todo)
        id == Calling
    IN  /\ pc = "answer"
        /\ Records(results' = [results EXCEPT ![id] = known[id]], UNCHANGED results)
        /\ Owe(task, known[id], task.size)
        /\ Proceed
        /\ UNCHANGED <<venue, recorded, asked, known, submitted, requested, only, round, seen,
                       last, exposure, history, tried, crashes>>

(* run: another round for what is owed, or the reconciliation. *)
NextRound ==
    /\ pc = "round"
    /\ IF round + 1 < Rounds /\ owed # {}
       THEN round' = round + 1 /\ only' = owed /\ owed' = {} /\ tried' = {} /\ pc' = "orders"
       ELSE UNCHANGED <<round, only, owed, tried>> /\ pc' = "reconcile"
    /\ UNCHANGED <<venue, diary, asked, known, submitted, requested, todo, seen, last, exposure,
                   history, crashes>>

(* _reconcile reads the resting orders, then the account, then says what is  *)
(* left; a read that failed, or an older snapshot, leaves it unknown.        *)
Exposure(resting, view) ==
    IF resting > 0 \/ (view.perp > 0 /\ view.perp >= Minimum) \/ ~IsDust(view.spot) THEN "pending"
    ELSE IF view.perp > 0 \/ view.spot > 0 THEN "dust" ELSE "flat"
Judge ==
    \/ exposure' = "unknown"        \* a read failed or answered with an older snapshot
    \/ seen.resting # -1 /\ exposure' = Exposure(seen.resting, account)
AccountFirst ==                     \* mutant: the account is read before the orders
    \/ pc = "reconcile" /\ pc' = "judge" /\ seen' = account /\ UNCHANGED exposure
    \/ pc = "judge" /\ pc' = "over" /\ exposure' = Exposure(account.resting, seen) /\ UNCHANGED seen
Reconcile ==
    \/ /\ pc = "reconcile" /\ pc' = "judge" /\ UNCHANGED exposure
       /\ \E resting \in {-1, account.resting} : seen' = [seen EXCEPT !.resting = resting]
    \/ pc = "judge" /\ pc' = "over" /\ Judge /\ UNCHANGED seen
KillStep ==
    /\ Reconcile
    /\ UNCHANGED <<venue, diary, asked, memory, only, round, todo, last, history, tried, crashes>>

(* The seal, and a process that dies before it. *)
Seal ==
    /\ pc = "over" /\ pc' = "sealed"
    /\ UNCHANGED <<venue, diary, asked, memory, control, exposure, history, tried, crashes>>
Crash ==
    /\ pc \notin {"down", "sealed"} /\ crashes < MaxCrashes
    /\ crashes' = crashes + 1 /\ pc' = "down" /\ exposure' = "unknown" /\ Nothing
    /\ UNCHANGED <<venue, diary, asked, history>>

Next == \/ Begin \/ ReadOrders \/ ReadAccount \/ Attempt \/ LeaveKnown \/ Reread
        \/ CallRefused \/ CallExecuted \/ CallDelayed \/ Answer
        \/ NextRound \/ KillStep \/ Seal \/ Crash \/ Arrive \/ Fill
Spec == Init /\ [][Next]_vars

-------------------------------------------------------------------------------
(* Properties. *)

(* The types of what the venue, the diary and the process hold. *)
Holdings == [resting : Nat, perp : Nat, spot : Nat]
AnswerSet == [says : {"done", "refused", "unclear", "no answer"}, n : Nat]
TaskSet == [op : Ops, size : Nat, retry : BOOLEAN, attempt : Nat]
WindDownTypeOK ==
    /\ account \in Holdings /\ wire \subseteq [id : Ids, want : Nat]
    /\ executed \in [Ids -> [want : Nat, n : Nat]]
    /\ recorded \subseteq Ids /\ results \in [Ids -> AnswerSet] /\ asked \in [Ids -> Nat]
    /\ known \in [Ids -> AnswerSet] /\ submitted \subseteq Ids /\ requested \subseteq Ids
    /\ owed \subseteq Ops /\ only \subseteq Ops /\ tried \subseteq Ids
    /\ round \in Nat /\ refusals \in Nat /\ crashes \in Nat
    /\ pc \in {"down", "orders", "account", "operate", "call", "answer", "round", "reconcile",
               "judge", "over", "sealed"}
    /\ todo \in Seq(TaskSet) /\ (pc \in {"operate", "call", "answer"} => todo # <<>>)
    /\ pc \in {"call", "answer"} => Calling \in Ids
    /\ seen \in [resting : Nat \cup {-1}, perp : Nat, spot : Nat] /\ last \in Seq(Holdings)
    /\ exposure \in {"unknown", "pending", "dust", "flat"}
    /\ sent \subseteq Ids /\ again \subseteq Ids /\ unrecorded \subseteq Ids

(* An account reported flat is flat, and stays so whatever was still on its    *)
(* way to the venue; one reported as dust holds no order and nothing the venue *)
(* would take (winddown.py, header: "decided by a final account reconciliation *)
(* and never by an acknowledgement").                                          *)
FlatIsFlat ==
    /\ exposure = "flat" => account = Unread
    /\ exposure = "dust" => /\ account.resting = 0 /\ IsDust(account.spot)
                            /\ account.perp > 0 => account.perp < Minimum

(* Over every crash and repeated kill no operation is sent twice, and none is  *)
(* sent while an earlier attempt on its target may still be carried out,       *)
(* unless the diary refused the record of it (winddown.py 23-33).              *)
SentOnce ==
    /\ WindDownTypeOK
    /\ again \subseteq unrecorded
    /\ \A m \in wire : \A id \in sent :
          OpOf(id) = OpOf(m.id) /\ id[2] > m.id[2] => m.id \in unrecorded

(* What a round may touch and the venue still shows enough of to sell is not   *)
(* left while another round remains, unless the attempt made on it in this     *)
(* round did all it asked for or cannot be repeated, whether a call or a later *)
(* reading said so (`run`, `_owe`, `_asked`).  Of an attempt whose record the  *)
(* diary refused a later kill cannot know what it asked for.                   *)
Shows(op) == CASE op = "cancel" -> seen.resting > 0
               [] op = "close" -> seen.perp > 0 /\ seen.perp >= Minimum
               [] op = "sell" -> ~IsDust(seen.spot)
Settled(id) == \/ id \in unrecorded
               \/ Complete(OpOf(id), known[id], asked[id])
               \/ ~Retryable(OpOf(id), known[id])
OwedIsRetried ==
    pc = "reconcile" /\ round + 1 < Rounds =>
        \A op \in only : Shows(op) => \E id \in tried : OpOf(id) = op /\ Settled(id)
===============================================================================
