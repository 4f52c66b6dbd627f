------------------------------ MODULE Recovery ------------------------------
(***************************************************************************)
(* runtime/resume.py: RecoveryJournal over IoStore.  The diary is a        *)
(* durable sequence of items (Diary shows that a reopened one is exactly   *)
(* what was acknowledged); everything else the process knows is lost in a  *)
(* crash.  A resume replays the tail after the last checkpoint: a recorded *)
(* call is answered from the diary, and the one call the crash interrupted *)
(* is settled by its name.                                                 *)
(*                                                                         *)
(* An event is its input and the external calls its processing makes, a    *)
(* plan; Plans holds the plans of the instance.  The names stand for the   *)
(* branches of `call`:                                                     *)
(*   venue     exchange.place, close, cancel, vault_*, polymarket.place... *)
(*   payment   market.complete, connector.paid_fetch                       *)
(*   provider  provider.complete                                           *)
(*   send      treasury.rail.send; topup: the same for a poll-only step    *)
(*   read      what _read_only names                                       *)
(*   other     every other write (exchange.set_leverage, ...)              *)
(***************************************************************************)
EXTENDS Integers, Sequences, FiniteSets

CONSTANTS Plans,
          MaxCalls,                 \* bound: the calls of a plan
          MaxEvents, MaxCrashes     \* bounds

Names == {"venue", "payment", "provider", "send", "topup", "read", "other"}
ASSUME RecoveryAssumption ==
    /\ Plans \subseteq Seq(Names) /\ \A plan \in Plans : Len(plan) <= MaxCalls
    /\ MaxCalls \in Nat \ {0} /\ MaxEvents \in Nat /\ MaxCrashes \in Nat

VARIABLES
    diary,      \* the items, all durable
    base,       \* how many of them the last checkpoint covers
    bodies,     \* calls whose large answer is kept beside the diary (IoStore)
    crashes,    \* bound on crashes
    \* the process
    up,
    pos,        \* items replayed or written: below Len(diary) it is replaying
    recovering, \* journal.recovering
    frame,      \* [event, plan, i, phase, answer]: the event being processed
    failed,     \* journal.failure is latched: this resume is refused
    \* the world
    pending,    \* calls submitted and not decided by the world yet
    submitted,  \* [Calls -> how often it was submitted]
    effect,     \* [Calls -> did the world do it?]
    told        \* [Calls -> what the program was last told]

durable == <<diary, base, bodies>>
process == <<up, pos, recovering, frame, failed>>
world == <<pending, submitted, effect>>
vars == <<durable, crashes, process, world, told>>

Calls == (1 .. MaxEvents) \X (1 .. MaxCalls)
Idle(n) == [event |-> n, plan |-> <<>>, i |-> 1, phase |-> "idle", answer |-> "nothing"]
Started(n, plan) == IF plan = <<>> THEN Idle(n)         \* an event without a call
                    ELSE [Idle(n) EXCEPT !.plan = plan, !.phase = "ready"]
Call == <<frame.event, frame.i>>
Name == IF frame.i \in DOMAIN frame.plan THEN frame.plan[frame.i] ELSE "none"
Reads(name) == name = "read"
Replaying == pos < Len(diary)

Input(plan) == [kind |-> "runtime.input", plan |-> plan]
Asked(c, name) == [kind |-> "io.call", call |-> c, name |-> name]
Evidence(c) == [kind |-> "x402.submitted", call |-> c]
Result(c, a, named) == [kind |-> "io.result", call |-> c, answer |-> a, named |-> named]

Write(item) == diary' = Append(diary, item) /\ pos' = pos + 1
ToPhase(p) == frame' = [frame EXCEPT !.phase = p]

-----------------------------------------------------------------------------
(* An answer is told only after the item that records it is durable.  A large *)
(* one (a read's) is named by hash, its bytes written first (IoStore.put).    *)
Answered(f) == IF f.i = Len(f.plan) THEN Idle(f.event)
               ELSE [f EXCEPT !.i = @ + 1, !.phase = "ready", !.answer = "nothing"]
Return(c, a) ==
    /\ told' = [told EXCEPT ![c] = a]
    /\ frame' = Answered(frame)

Got(a) == frame' = [frame EXCEPT !.phase = "answered", !.answer = a]

Keep ==
    /\ up /\ frame.phase = "answered" /\ Reads(Name)
    /\ bodies' = bodies \cup {Call} /\ ToPhase("kept")
    /\ UNCHANGED <<diary, base, crashes, up, pos, recovering, failed, world, told>>

RecordFirst ==           \* mutant: the item that names the bytes is written before them
    /\ up /\ frame.phase \in {"answered", "kept"}
    /\ Write(Result(Call, frame.answer, Reads(Name)))
    /\ Return(Call, frame.answer)
    /\ UNCHANGED <<base, bodies, crashes, up, recovering, failed, world>>

Record ==
    /\ up /\ frame.phase = (IF Reads(Name) THEN "kept" ELSE "answered")
    /\ Write(Result(Call, frame.answer, Reads(Name)))
    /\ Return(Call, frame.answer)
    /\ UNCHANGED <<base, bodies, crashes, up, recovering, failed, world>>

-----------------------------------------------------------------------------
(* Live: the call is written ahead, dispatched, and answered.  In an event a  *)
(* crash interrupted, a write past the diary's end is refused undispatched.   *)
Begin ==
    /\ up /\ ~Replaying /\ ~recovering /\ frame.phase = "idle" /\ frame.event < MaxEvents
    /\ \E plan \in Plans :
        /\ Write(Input(plan))
        /\ frame' = Started(frame.event + 1, plan)
    /\ UNCHANGED <<base, bodies, crashes, up, recovering, failed, world, told>>

Ask ==
    /\ up /\ ~Replaying /\ frame.phase = "ready"
    /\ Write(Asked(Call, Name)) /\ ToPhase("asked")
    /\ UNCHANGED <<base, bodies, crashes, up, recovering, failed, world, told>>

Refuse ==
    /\ up /\ frame.phase = "asked" /\ recovering /\ ~Reads(Name) /\ Got("never")
    /\ UNCHANGED <<durable, crashes, up, pos, recovering, failed, world, told>>

Submit(c) ==
    /\ submitted' = [submitted EXCEPT ![c] = @ + 1]
    /\ pending' = pending \cup {c} /\ UNCHANGED effect

(* A payment writes its evidence before the signed request leaves.            *)
Dispatch ==
    /\ up /\ (recovering => Reads(Name))
    /\ \/ frame.phase = "asked" /\ Name # "payment"
       \/ frame.phase = "evidenced"
    /\ ToPhase("sent")
    /\ IF Reads(Name) THEN UNCHANGED world ELSE Submit(Call)
    /\ UNCHANGED <<durable, crashes, up, pos, recovering, failed, told>>

Evidences ==
    /\ up /\ frame.phase = "asked" /\ Name = "payment" /\ ~recovering
    /\ \/ Write(Evidence(Call)) /\ ToPhase("evidenced")
       \/ Got("refused") /\ UNCHANGED <<diary, pos>>        \* no quote within the cap
    /\ UNCHANGED <<base, bodies, crashes, up, recovering, failed, world, told>>

(* The answer arrives, or an exception does: that one proves nothing.         *)
Reply ==
    /\ up /\ frame.phase = "sent"
    /\ IF Reads(Name)
       THEN (\E a \in {"high", "low"} : Got(a)) /\ UNCHANGED world
       ELSE \/ effect[Call] /\ Got("done") /\ UNCHANGED world
            \/ Got("unknown") /\ UNCHANGED world
            \/ /\ Call \in pending /\ Got("refused")
               /\ pending' = pending \ {Call} /\ UNCHANGED <<submitted, effect>>
    /\ UNCHANGED <<durable, crashes, up, pos, recovering, failed, told>>

(* The world may do what was submitted at any later time; it knows a treasury *)
(* leg by its nonce, so a second submission of one is no second deed.         *)
Performs(c) ==
    /\ c \in pending
    /\ pending' = pending \ {c} /\ effect' = [effect EXCEPT ![c] = TRUE]
    /\ UNCHANGED <<durable, crashes, process, submitted, told>>

-----------------------------------------------------------------------------
(* A checkpoint between events: the tail starts after it.                     *)
Checkpoint ==
    /\ up /\ ~Replaying /\ ~recovering /\ frame.phase = "idle" /\ base < Len(diary)
    /\ base' = Len(diary)
    /\ UNCHANGED <<diary, bodies, crashes, process, world, told>>

Crash ==
    /\ up /\ ~failed /\ crashes < MaxCrashes
    /\ crashes' = crashes + 1 /\ up' = FALSE
    /\ frame' = Idle(0) /\ pos' = 0 /\ recovering' = FALSE
    /\ UNCHANGED <<durable, failed, world, told>>

Inputs(n) == Cardinality({k \in 1 .. n : diary[k].kind = "runtime.input"})

Resume ==
    /\ ~up /\ up' = TRUE
    /\ pos' = base /\ recovering' = TRUE /\ frame' = Idle(Inputs(base))
    /\ UNCHANGED <<durable, crashes, failed, world, told>>

(* Replay takes the tail's items in order.                                    *)
NextItem == diary[pos + 1]

ReplayInput ==
    /\ up /\ ~failed /\ Replaying /\ frame.phase = "idle"
    /\ frame' = Started(frame.event + 1, NextItem.plan)
    /\ pos' = pos + 1
    /\ UNCHANGED <<durable, crashes, up, recovering, failed, world, told>>

ReplayAsk ==
    /\ up /\ ~failed /\ Replaying /\ frame.phase = "ready"
    /\ NextItem = Asked(Call, Name)
    /\ pos' = pos + 1 /\ ToPhase("recorded")
    /\ UNCHANGED <<durable, crashes, up, recovering, failed, world, told>>

ReplayEvidence ==
    /\ up /\ ~failed /\ Replaying /\ frame.phase = "recorded" /\ NextItem = Evidence(Call)
    /\ pos' = pos + 1
    /\ frame' = [frame EXCEPT !.answer = "evidence"]
    /\ UNCHANGED <<durable, crashes, up, recovering, failed, world, told>>

Readable(item) == item.named => item.call \in bodies
FailReplay == failed' = TRUE /\ UNCHANGED <<diary, pos, frame, world, told>>

ReplayResult ==
    /\ up /\ ~failed /\ Replaying /\ frame.phase = "recorded" /\ NextItem.kind = "io.result"
    /\ \/ /\ Readable(NextItem)
          /\ pos' = pos + 1 /\ Return(Call, NextItem.answer)
          /\ UNCHANGED <<diary, failed, world>>
       \/ ~Readable(NextItem) /\ FailReplay                    \* io_result_missing
    /\ UNCHANGED <<base, bodies, crashes, up, recovering>>

(* The call whose answer died with the process.  Its result is written once,  *)
(* so the next replay takes it from the diary.                                *)
Orphan == up /\ ~failed /\ ~Replaying /\ frame.phase = "recorded"

WaitsForProvider(name) ==    \* mutant: a provider call waits for a result that died
    CASE name \in {"venue", "topup"} -> "unknown"
      [] name = "payment" -> IF frame.answer = "evidence" THEN "unknown" ELSE "never"
      [] OTHER -> "nothing"
Presumed(name) ==        \* what is said of it without asking the world again
    CASE name = "venue" -> "unknown"            \* OrderResult "uncertain"
      [] name = "payment" -> IF frame.answer = "evidence" THEN "unknown" ELSE "never"
      [] name = "provider" -> "unknown"         \* RuntimeError
      [] name = "topup" -> "unknown"            \* Pending: a poll-only step
      [] OTHER -> "nothing"

ResubmitsAll(name) == name \in {"send", "topup"}     \* mutant: the poll-only step too
Resubmits(name) == name = "send"
Stops(name) == name = "other"

SettleOrphan ==
    /\ Orphan
    /\ \/ /\ Presumed(Name) # "nothing" /\ Got(Presumed(Name))
          /\ UNCHANGED <<failed, world>>
       \/ Resubmits(Name) /\ Submit(Call) /\ ToPhase("resent") /\ UNCHANGED failed
       \/ Reads(Name) /\ ToPhase("sent") /\ UNCHANGED <<failed, world>>
       \/ Stops(Name) /\ failed' = TRUE /\ UNCHANGED <<frame, world>>
    /\ UNCHANGED <<durable, crashes, up, pos, recovering, told>>

(* A rejection of a resent nonce cannot prove that the first send failed.     *)
TrustsRejection(c) == {"unknown"} \cup {"refused"}    \* mutant: a used nonce is taken for a refusal
AfterResend(c) == {"unknown"} \cup (IF effect[c] THEN {"done"} ELSE {})

ReplyToResend ==
    /\ up /\ frame.phase = "resent"
    /\ \E a \in AfterResend(Call) : Got(a)
    /\ UNCHANGED <<durable, crashes, up, pos, recovering, failed, world, told>>

(* _replay ends with the event that outran the tail.                          *)
EndReplay ==
    /\ up /\ ~failed /\ recovering /\ ~Replaying /\ frame.phase = "idle"
    /\ recovering' = FALSE
    /\ UNCHANGED <<durable, crashes, up, pos, frame, failed, world, told>>

Init ==
    /\ diary = <<>> /\ base = 0 /\ bodies = {} /\ crashes = 0
    /\ up = TRUE /\ pos = 0 /\ recovering = FALSE /\ frame = Idle(0) /\ failed = FALSE
    /\ pending = {} /\ submitted = [c \in Calls |-> 0]
    /\ effect = [c \in Calls |-> FALSE] /\ told = [c \in Calls |-> "nothing"]

Live == Begin \/ Ask \/ Refuse \/ Evidences \/ Dispatch \/ Reply \/ Keep \/ Record \/ Checkpoint
Replay == ReplayInput \/ ReplayAsk \/ ReplayEvidence \/ ReplayResult
          \/ SettleOrphan \/ ReplyToResend \/ EndReplay

Next == Live \/ Crash \/ Resume \/ Replay \/ \E c \in Calls : Performs(c)

Spec == Init /\ [][Next]_vars

(* The supervisor restarts the world and the process runs; a call returns or  *)
(* raises.  Crashes are as many as the bound allows.                          *)
Handles == Ask \/ Refuse \/ Evidences \/ Dispatch \/ Reply \/ Keep \/ Record
FairSpec == Spec /\ WF_vars(Resume) /\ WF_vars(Handles) /\ WF_vars(Replay)

-----------------------------------------------------------------------------
RecoveryTypeOK ==
    /\ pos \in 0 .. Len(diary) /\ base \in 0 .. Len(diary) /\ bodies \subseteq Calls
    /\ frame.event \in 0 .. MaxEvents /\ frame.i \in 1 .. MaxCalls
    /\ frame.phase \in {"idle", "ready", "asked", "evidenced", "sent", "answered", "kept",
                        "recorded", "resent"}
    /\ \A c \in Calls : told[c] \in {"nothing", "done", "unknown", "refused", "never", "high", "low"}

(* No external write is submitted twice, whatever crashes and replays happen, *)
(* but a treasury leg that is safe to resend under its nonce.                 *)
SubmittedOnce ==
    /\ RecoveryTypeOK
    /\ \A k \in 1 .. Len(diary) : diary[k].kind = "io.call" /\ diary[k].name # "send" =>
        submitted[diary[k].call] <= 1

(* A resume is refused only for an unacknowledged write nothing can settle: a *)
(* crash never leaves a recorded answer without its bytes.                    *)
OnlyUnsettledStops == failed => ~Replaying /\ frame.phase = "recorded" /\ Stops(Name)

(* What the world did and what the program was told of it (Submission): told  *)
(* once, and what is told undone is not done, though it was in flight.        *)
Promised == INSTANCE Submission
AgreesWithWorld == Promised!Spec

(* Every call the diary holds is answered in the end, or the resume is        *)
(* refused.                                                                   *)
EveryCallAnswered ==
    \A c \in Calls : (\E k \in 1 .. Len(diary) : diary[k].kind = "io.call" /\ diary[k].call = c)
                        ~> (told[c] # "nothing" \/ failed)
=============================================================================
