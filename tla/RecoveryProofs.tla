----------------------------- MODULE RecoveryProofs -----------------------------
(***************************************************************************)
(* What holds of the recovery journal for any plans, events and crashes:   *)
(* a write is submitted once, a resume is refused only for what nothing    *)
(* can settle, and the journal implements Submission.                      *)
(***************************************************************************)
EXTENDS Recovery, FiniteSetTheorems, TLAPS

Writing == {"asked", "evidenced", "sent", "answered", "kept", "resent"}

CallOf(u) == <<u.event, u.i>>
NameOf(u) == u.plan[u.i]

(* A frame that a replay can come to: between events, or in one that has calls. *)
Frames ==
    {u \in [event : 0 .. MaxEvents, plan : Plans \cup {<<>>}, i : 1 .. MaxCalls,
            phase : {"idle", "ready", "recorded"}, answer : {"nothing", "evidence"}] :
        /\ u.phase = "idle" => u = Idle(u.event)
        /\ u.phase # "idle" => u.event # 0 /\ u.i \in 1 .. Len(u.plan)
        /\ u.phase = "ready" => u.answer = "nothing"
        /\ u.answer = "evidence" => NameOf(u) = "payment"}

(* What an item makes of the frame of the replay that takes it. *)
Takes(u, item, v) ==
    \/ /\ item.kind = "runtime.input" /\ u.phase = "idle"
       /\ item = Input(item.plan) /\ item.plan \in Plans /\ v = Started(u.event + 1, item.plan)
    \/ /\ item.kind = "io.call" /\ u.phase = "ready"
       /\ item = Asked(CallOf(u), NameOf(u)) /\ v = [u EXCEPT !.phase = "recorded"]
    \/ /\ item.kind = "x402.submitted" /\ u.phase = "recorded"
       /\ item = Evidence(CallOf(u)) /\ v = [u EXCEPT !.answer = "evidence"]
    \/ /\ item.kind = "io.result" /\ u.phase = "recorded"
       /\ item = Result(CallOf(u), item.answer, Reads(NameOf(u))) /\ v = Answered(u)

(* f is the replay of this diary: the frame after each number of its items. *)
Replays(f) ==
    /\ f \in [0 .. Len(diary) -> Frames] /\ f[0] = Idle(0)
    /\ \A n \in 1 .. Len(diary) : Takes(f[n - 1], diary[n], f[n])
    /\ \A n \in 0 .. Len(diary) : f[n].event = Inputs(n)

(* The call of a frame that is past the diary's end, by what it did so far. *)
Agrees(a, c) == /\ a = "done" => effect[c]
                /\ a \in Promised!Undone => ~effect[c] /\ c \notin pending
Ahead(u) ==
    /\ u.phase = "recorded" /\ frame.phase \in Writing
    /\ frame.event = u.event /\ frame.plan = u.plan /\ frame.i = u.i
    /\ frame.phase \in {"asked", "evidenced"} => submitted[Call] = 0
    /\ frame.phase = "asked" => u.answer = "nothing"
    /\ frame.phase = "evidenced" => u.answer = "evidence"
    /\ frame.phase = "sent" /\ ~Reads(Name) =>
          submitted[Call] = 1 /\ (Name = "payment" => u.answer = "evidence")
    /\ frame.phase \in {"answered", "kept"} =>
          frame.answer \in Promised!Answers /\ Agrees(frame.answer, Call)
    /\ frame.phase = "kept" => Call \in bodies
    /\ frame.phase = "resent" => Name = "send"

Follows(f) ==
    /\ f[base].phase = "idle"
    /\ frame = f[pos] \/ (pos = Len(diary) /\ Ahead(f[pos]))

(* A call is past, or is the one the last frame is at, or is still to come. *)
Past(c, u) == c[1] < u.event \/ (c[1] = u.event /\ (u.phase = "idle" \/ c[2] < u.i))
Current(c, u) == u.phase # "idle" /\ c = CallOf(u)
Untouched(c) == submitted[c] = 0 /\ told[c] = "nothing"
OfCall(c, u) ==
    /\ c \in pending \/ effect[c] => submitted[c] > 0
    /\ submitted[c] <= 1 /\ c \in pending => ~effect[c]
    /\ Agrees(told[c], c)
    /\ ~Past(c, u) => told[c] = "nothing"
    /\ ~Past(c, u) /\ ~(Current(c, u) /\ u.phase = "recorded") => Untouched(c)
    /\ Current(c, u) /\ u.phase = "recorded" =>
          /\ NameOf(u) # "send" => submitted[c] <= 1
          /\ NameOf(u) = "payment" /\ u.answer = "nothing" => submitted[c] = 0
Worldly(u) == \A c \in Calls : OfCall(c, u)

(* What an item of the diary says was done, said and kept. *)
OfItem(item, u) ==
    /\ item.kind = "io.call" =>
          /\ item.call \in Calls
          /\ Past(item.call, u) \/ (Current(item.call, u) /\ u.phase = "recorded" /\ item.name = NameOf(u))
          /\ item.name # "send" => submitted[item.call] <= 1
    /\ item.kind = "io.result" =>
          /\ item.call \in Calls /\ item.answer \in Promised!Answers
          /\ told[item.call] = item.answer
          /\ item.named => item.call \in bodies
Kept(u) == \A k \in 1 .. Len(diary) : OfItem(diary[k], u)

(* Types of the items and of any frame, a replay's or one past the diary's end. *)
Items == {Input(plan) : plan \in Plans} \cup {Asked(c, name) : c \in Calls, name \in Names}
         \cup {Evidence(c) : c \in Calls}
         \cup {Result(c, a, named) : c \in Calls, a \in Promised!Answers, named \in BOOLEAN}
AnyFrame == [event : 0 .. MaxEvents, plan : Plans \cup {<<>>}, i : 1 .. MaxCalls,
             phase : Writing \cup {"idle", "ready", "recorded"},
             answer : Promised!Answers \cup {"nothing", "evidence"}]

Typed ==
    /\ diary \in Seq(Items) /\ frame \in AnyFrame
    /\ up \in BOOLEAN /\ recovering \in BOOLEAN /\ failed \in BOOLEAN
    /\ pos \in 0 .. Len(diary) /\ base \in 0 .. Len(diary)
    /\ bodies \subseteq Calls /\ pending \subseteq Calls
    /\ submitted \in [Calls -> Nat] /\ effect \in [Calls -> BOOLEAN]
    /\ told \in [Calls -> Promised!Answers \cup {"nothing"}]

Consistent(f) == Replays(f) /\ Follows(f) /\ Worldly(f[Len(diary)]) /\ Kept(f[Len(diary)])

(* A refused resume stands where it was refused. *)
Refusal == OnlyUnsettledStops /\ (failed => up)

RecoveryInv == Typed /\ Refusal /\ \E f : Consistent(f)

-----------------------------------------------------------------------------
(* Frames. *)
LEMMA Bounds == MaxEvents \in Nat /\ MaxCalls \in Nat /\ MaxCalls >= 1 /\ Plans \subseteq Seq(Names)
                /\ \A plan \in Plans : Len(plan) <= MaxCalls
  BY RecoveryAssumption

LEMMA InCall ==
  ASSUME NEW u \in Frames, u.phase # "idle"
  PROVE  /\ CallOf(u) \in Calls /\ NameOf(u) \in Names /\ u.plan \in Plans
         /\ u.i \in DOMAIN u.plan /\ u.i <= Len(u.plan) /\ u.event \in 1 .. MaxEvents
<1>1. u.event \in 0 .. MaxEvents /\ u.event # 0 /\ u.i \in 1 .. MaxCalls
      /\ u.plan \in Plans \cup {<<>>} /\ u.i \in 1 .. Len(u.plan)
  BY DEF Frames
<1>2. u.plan \in Plans
  BY <1>1
<1>3. u.plan \in Seq(Names)
  BY <1>2, Bounds
<1>4. u.event \in 1 .. MaxEvents
  BY <1>1, Bounds
<1>5. u.i \in DOMAIN u.plan /\ u.plan[u.i] \in Names
  BY <1>1, <1>3
<1>6. u.i <= Len(u.plan)
  BY <1>1, <1>3
<1> QED
  BY <1>1, <1>2, <1>4, <1>5, <1>6 DEF CallOf, NameOf, Calls

LEMMA IdleFrames == \A n \in 0 .. MaxEvents : Idle(n) \in Frames /\ Idle(n) \in AnyFrame
  BY Bounds DEF Idle, Frames, AnyFrame

LEMMA StartedFrames ==
  ASSUME NEW n \in 1 .. MaxEvents, NEW plan \in Plans
  PROVE  Started(n, plan) \in Frames /\ Started(n, plan).event = n
<1>1. CASE plan = <<>>
  BY <1>1, Bounds, IdleFrames DEF Started, Idle
<1>2. CASE plan # <<>>
  <2>1. plan \in Seq(Names) /\ Len(plan) >= 1
    BY <1>2, Bounds
  <2>2. Started(n, plan) = [event |-> n, plan |-> plan, i |-> 1, phase |-> "ready",
                            answer |-> "nothing"]
    BY <1>2 DEF Started, Idle
  <2> QED
    BY <2>1, <2>2, Bounds DEF Frames
<1> QED
  BY <1>1, <1>2

LEMMA AnsweredFrames ==
  ASSUME NEW u \in Frames, u.phase # "idle"
  PROVE  Answered(u) \in Frames /\ Answered(u).event = u.event
<1>1. u.plan \in Plans /\ u.i <= Len(u.plan) /\ u.event \in 1 .. MaxEvents /\ u.i \in 1 .. MaxCalls
  BY InCall DEF Frames
<1>2. CASE u.i = Len(u.plan)
  BY <1>1, <1>2, Bounds, IdleFrames DEF Answered, Idle
<1>3. CASE u.i # Len(u.plan)
  <2>1. Answered(u) = [event |-> u.event, plan |-> u.plan, i |-> u.i + 1, phase |-> "ready",
                       answer |-> "nothing"]
    BY <1>3 DEF Answered, Frames
  <2>2. Len(u.plan) \in Nat /\ Len(u.plan) <= MaxCalls
    BY <1>1, Bounds
  <2> QED
    BY <1>1, <1>3, <2>1, <2>2, Bounds DEF Frames
<1> QED
  BY <1>2, <1>3

(* The program's frame, when it is the replay's or ahead of it, is in its call. *)
LEMMA SameCall ==
  ASSUME NEW u \in Frames, u.phase # "idle", frame = u \/ Ahead(u)
  PROVE  Call = CallOf(u) /\ Name = NameOf(u) /\ Call \in Calls /\ Name \in Names
<1>1. frame.event = u.event /\ frame.plan = u.plan /\ frame.i = u.i
  BY DEF Ahead
<1> QED
  BY <1>1, InCall DEF Call, Name, CallOf, NameOf

-----------------------------------------------------------------------------
(* One more item. *)
LEMMA OneMore ==
  ASSUME NEW S, NEW s \in Seq(S), NEW e \in S
  PROVE  /\ Append(s, e) \in Seq(S) /\ Len(Append(s, e)) = Len(s) + 1 /\ Len(s) \in Nat
         /\ \A k \in 1 .. Len(s) : Append(s, e)[k] = s[k]
         /\ Append(s, e)[Len(s) + 1] = e
  OBVIOUS

LEMMA InputsGrow ==
  ASSUME diary \in Seq(Items), NEW item \in Items, diary' = Append(diary, item)
  PROVE  /\ \A n \in 0 .. Len(diary) : Inputs(n)' = Inputs(n) /\ Inputs(n) \in Nat
         /\ Inputs(Len(diary))' = Inputs(Len(diary)) + (IF item.kind = "runtime.input" THEN 1 ELSE 0)
<1> DEFINE In(n) == {k \in 1 .. n : diary[k].kind = "runtime.input"}
<1>0. Len(diary) \in Nat
  OBVIOUS
<1>1. \A k \in 1 .. Len(diary) : diary'[k] = diary[k]
  BY OneMore
<1>2. diary'[Len(diary) + 1] = item
  BY OneMore
<1>3. ASSUME NEW n \in 0 .. Len(diary)
      PROVE  {k \in 1 .. n : diary'[k].kind = "runtime.input"} = In(n)
  BY <1>0, <1>1, <1>3
<1>4. ASSUME NEW n \in 0 .. Len(diary) PROVE IsFiniteSet(In(n)) /\ Cardinality(In(n)) \in Nat
  <2>1. IsFiniteSet(1 .. n)
    BY <1>0, FS_Interval
  <2>2. IsFiniteSet(In(n))
    BY <2>1, FS_Subset
  <2> QED
    BY <2>2, FS_CardinalityType
<1>5. ASSUME NEW n \in 0 .. Len(diary) PROVE Inputs(n)' = Inputs(n) /\ Inputs(n) \in Nat
  BY <1>3, <1>4 DEF Inputs
<1> DEFINE L == Len(diary)
           All == {k \in 1 .. L + 1 : diary'[k].kind = "runtime.input"}
<1>6. Inputs(Len(diary))' = Cardinality(All)
  BY OneMore DEF Inputs
<1>7. IsFiniteSet(In(L)) /\ Cardinality(In(L)) \in Nat /\ Inputs(Len(diary)) = Cardinality(In(L))
  BY <1>0, <1>4 DEF Inputs
<1>8. CASE item.kind = "runtime.input"
  <2>1. All = In(L) \cup {L + 1}
    BY <1>0, <1>1, <1>2, <1>8
  <2>2. L + 1 \notin In(L)
    BY <1>0
  <2>3. Cardinality(In(L) \cup {L + 1}) = Cardinality(In(L)) + 1
    <3> HIDE DEF In, L
    <3> QED
      BY <2>2, <1>7, FS_AddElement
  <2> QED
    BY <1>5, <1>6, <1>7, <1>8, <2>1, <2>3
<1>9. CASE item.kind # "runtime.input"
  <2>1. All = In(L)
    BY <1>0, <1>1, <1>2, <1>9
  <2>2. Inputs(Len(diary)) \in Nat /\ Inputs(Len(diary))' = Inputs(Len(diary))
    BY <1>6, <1>7, <2>1
  <2> HIDE DEF In, L, All
  <2> QED
    BY <1>5, <1>9, <2>2
<1> QED
  BY <1>8, <1>9

LEMMA Extend ==
  ASSUME NEW f, Replays(f), diary \in Seq(Items), NEW item \in Items, NEW v \in Frames,
         diary' = Append(diary, item), Takes(f[Len(diary)], item, v),
         v.event = f[Len(diary)].event + (IF item.kind = "runtime.input" THEN 1 ELSE 0)
  PROVE  \E g : /\ Replays(g)' /\ g[Len(diary) + 1] = v
                /\ \A n \in 0 .. Len(diary) : g[n] = f[n]
<1> DEFINE L == Len(diary)
<1>1. PICK g : g = [n \in 0 .. L + 1 |-> IF n <= L THEN f[n] ELSE v]
  OBVIOUS
<1>2. L \in Nat /\ Len(diary') = L + 1 /\ diary'[L + 1] = item
      /\ \A k \in 1 .. L : diary'[k] = diary[k]
  BY OneMore
<1>3. g[L + 1] = v /\ \A n \in 0 .. L : g[n] = f[n]
  BY <1>1, <1>2
<1>4. g \in [0 .. L + 1 -> Frames] /\ g[0] = Idle(0)
  BY <1>1, <1>2, <1>3 DEF Replays
<1>5. ASSUME NEW n \in 1 .. L + 1 PROVE Takes(g[n - 1], diary'[n], g[n])
  <2>1. CASE n = L + 1
    <3>1. n - 1 = L /\ L \in 0 .. L
      BY <1>2, <2>1
    <3> QED
      BY <1>2, <1>3, <2>1, <3>1
  <2>2. CASE n # L + 1
    <3>1. n \in 1 .. L /\ n - 1 \in 0 .. L /\ n \in 0 .. L
      BY <1>2, <1>5, <2>2
    <3> QED
      BY <1>2, <1>3, <3>1 DEF Replays
  <2> QED
    BY <2>1, <2>2
<1>6. ASSUME NEW n \in 0 .. L + 1 PROVE g[n].event = Inputs(n)'
  <2>1. CASE n = L + 1
    <3>1. Inputs(n)' = Inputs(Len(diary))'
      BY <1>2, <2>1 DEF Inputs
    <3>2. f[L].event = Inputs(L)
      BY <1>2 DEF Replays
    <3> QED
      BY <1>3, <2>1, <3>1, <3>2, InputsGrow
  <2>2. CASE n # L + 1
    <3>1. n \in 0 .. L
      BY <1>2, <1>6, <2>2
    <3> QED
      BY <1>3, <3>1, InputsGrow DEF Replays
  <2> QED
    BY <2>1, <2>2
<1>7. Replays(g)'
  <2>1. \A n \in 0 .. Len(diary') : g[n].event = Inputs(n)'
    BY <1>2, <1>6
  <2> QED
    BY <1>2, <1>4, <1>5, <2>1 DEF Replays, Takes
<1> QED
  BY <1>3, <1>7

LEMMA SameReplay ==
  ASSUME NEW f, Replays(f), diary' = diary
  PROVE  Replays(f)'
  BY DEF Replays, Inputs, Takes

(* Where the program is: replaying at a frame of the replay, or at its end. *)
LEMMA Where ==
  ASSUME Typed, NEW f, Consistent(f)
  PROVE  /\ Len(diary) \in Nat /\ f[Len(diary)] \in Frames /\ f[pos] \in Frames
         /\ Replaying => frame = f[pos] /\ pos + 1 \in 1 .. Len(diary)
                         /\ Takes(f[pos], NextItem, f[pos + 1]) /\ f[pos + 1] \in Frames
         /\ ~Replaying => pos = Len(diary) /\ (frame = f[Len(diary)] \/ Ahead(f[Len(diary)]))
<1>1. Len(diary) \in Nat /\ pos \in 0 .. Len(diary)
  BY DEF Typed
<1>2. f \in [0 .. Len(diary) -> Frames] /\ \A n \in 1 .. Len(diary) : Takes(f[n - 1], diary[n], f[n])
  BY DEF Consistent, Replays
<1>3. frame = f[pos] \/ (pos = Len(diary) /\ Ahead(f[pos]))
  BY DEF Consistent, Follows
<1>4. ASSUME Replaying
      PROVE  frame = f[pos] /\ pos + 1 \in 1 .. Len(diary)
             /\ Takes(f[pos], NextItem, f[pos + 1]) /\ f[pos + 1] \in Frames
  <2>1. pos + 1 \in 1 .. Len(diary) /\ (pos + 1) - 1 = pos /\ pos # Len(diary)
    BY <1>1, <1>4 DEF Replaying
  <2> QED
    BY <1>2, <1>3, <2>1 DEF NextItem
<1>5. ASSUME ~Replaying PROVE pos = Len(diary)
  BY <1>1, <1>5 DEF Replaying
<1> QED
  BY <1>1, <1>2, <1>3, <1>4, <1>5

LEMMA ItemTypes ==
  /\ \A plan \in Plans : Input(plan) \in Items
  /\ \A c \in Calls : Evidence(c) \in Items
  /\ \A c \in Calls, name \in Names : Asked(c, name) \in Items
  /\ \A c \in Calls, a \in Promised!Answers, named \in BOOLEAN : Result(c, a, named) \in Items
  BY DEF Items

LEMMA CallTypes == \A c \in Calls : c = <<c[1], c[2]>> /\ c[1] \in Nat /\ c[2] \in Nat /\ c[2] >= 1
  BY Bounds DEF Calls

LEMMA NotPast ==
  ASSUME NEW u \in Frames, u.phase # "idle"
  PROVE  CallOf(u) \in Calls /\ ~Past(CallOf(u), u) /\ Current(CallOf(u), u)
<1>1. u.event \in Nat /\ u.i \in Nat
  BY Bounds DEF Frames
<1> QED
  BY <1>1, InCall DEF Past, Current, CallOf

(* A new event is past every call of the ones before. *)
LEMMA NextEvent ==
  ASSUME NEW u, NEW v, u.phase = "idle", u.event \in Nat, v.event = u.event + 1
  PROVE  \A c \in Calls : (Past(c, u) => Past(c, v)) /\ ~Current(c, u)
  BY CallTypes DEF Past, Current

(* The replay moves on from u to v without the world or the program being told. *)
LEMMA WorldlyMoves ==
  ASSUME NEW u, NEW v, Worldly(u), UNCHANGED <<world, told>>,
         \A c \in Calls : Past(c, u) => Past(c, v),
         \A c \in Calls : ~Past(c, v) /\ ~(Current(c, v) /\ v.phase = "recorded") =>
                            ~Past(c, u) /\ ~(Current(c, u) /\ u.phase = "recorded"),
         \A c \in Calls : Current(c, v) /\ v.phase = "recorded" =>
             /\ NameOf(v) # "send" => submitted[c] <= 1
             /\ NameOf(v) = "payment" /\ v.answer = "nothing" => submitted[c] = 0
  PROVE  Worldly(v)'
<1>1. ASSUME NEW c \in Calls PROVE OfCall(c, v)'
  BY DEF Worldly, OfCall, Agrees, Untouched, world, Past, Current, NameOf
<1> QED
  BY <1>1 DEF Worldly, Calls

LEMMA KeptMoves ==
  ASSUME NEW u, NEW v, Kept(u), UNCHANGED <<submitted, told, bodies>>, diary \in Seq(Items),
         NEW item \in Items, diary' = Append(diary, item), OfItem(item, v),
         \A c \in Calls : Past(c, u) => Past(c, v),
         \A c \in Calls : Current(c, u) /\ u.phase = "recorded" =>
             Past(c, v) \/ (Current(c, v) /\ v.phase = "recorded" /\ NameOf(v) = NameOf(u))
  PROVE  Kept(v)'
<1>1. Len(diary') = Len(diary) + 1 /\ Len(diary) \in Nat /\ diary'[Len(diary) + 1] = item
      /\ \A k \in 1 .. Len(diary) : diary'[k] = diary[k]
  BY OneMore
<1>2. ASSUME NEW k \in 1 .. Len(diary') PROVE OfItem(diary[k], v)'
  <2>1. CASE k = Len(diary) + 1
    BY <1>1, <2>1 DEF OfItem, Past, Current
  <2>2. CASE k # Len(diary) + 1
    <3>1. k \in 1 .. Len(diary) /\ diary'[k] = diary[k]
      BY <1>1, <1>2, <2>2
    <3>2. OfItem(diary[k], u)
      BY <3>1 DEF Kept
    <3> QED
      BY <3>1, <3>2 DEF OfItem, Past, Current, NameOf
  <2> QED
    BY <2>1, <2>2
<1> QED
  BY <1>2 DEF Kept

(* The two ways of a step: it writes an item, or leaves the diary alone. *)
LEMMA Written ==
  ASSUME Typed, NEW f, Consistent(f), ~Replaying, base' = base,
         NEW item \in Items, Write(item), NEW v \in Frames, Takes(f[Len(diary)], item, v),
         v.event = f[Len(diary)].event + (IF item.kind = "runtime.input" THEN 1 ELSE 0),
         Typed', Refusal', Worldly(v)', Kept(v)', frame' = v \/ Ahead(v)'
  PROVE  RecoveryInv'
<1> DEFINE L == Len(diary)
<1>1. L \in Nat /\ pos = L /\ base \in 0 .. L /\ f[base].phase = "idle"
  BY Where DEF Typed, Consistent, Follows
<1>2. Len(diary') = L + 1 /\ pos' = L + 1
  BY <1>1, OneMore DEF Typed, Write
<1>3. PICK g : Replays(g)' /\ g[L + 1] = v /\ \A n \in 0 .. L : g[n] = f[n]
  BY Extend, ZenonT(40) DEF Typed, Consistent, Write
<1>4. Follows(g)'
  BY <1>1, <1>2, <1>3 DEF Follows
<1> QED
  BY <1>2, <1>3, <1>4 DEF RecoveryInv, Consistent

LEMMA Unwritten ==
  ASSUME NEW f, Consistent(f), diary' = diary, Typed', Refusal', Follows(f)',
         NEW u, u = f[Len(diary)], Worldly(u)', Kept(u)'
  PROVE  RecoveryInv'
  BY SameReplay DEF RecoveryInv, Consistent

LEMMA KeptStays ==
  ASSUME NEW u, Kept(u), UNCHANGED <<diary, submitted, told>>, bodies \subseteq bodies'
  PROVE  Kept(u)'
<1>1. ASSUME NEW k \in 1 .. Len(diary) PROVE OfItem(diary[k], u)'
  <2>1. OfItem(diary[k], u)
    BY DEF Kept
  <2> QED
    BY <2>1 DEF OfItem, Past, Current
<1> QED
  BY <1>1 DEF Kept

LEMMA WorldlyStays ==
  ASSUME NEW u, Worldly(u), UNCHANGED <<world, told>>
  PROVE  Worldly(u)'
  BY WorldlyMoves DEF Worldly, OfCall

(* An event begins. *)
LEMMA BeginStep == ASSUME Typed, Refusal, NEW f, Consistent(f), Begin PROVE RecoveryInv'
<1> DEFINE u == f[Len(diary)]
<1>1. /\ ~Replaying /\ up /\ frame.phase = "idle" /\ frame = u /\ u \in Frames
      /\ frame = Idle(frame.event) /\ frame.event \in Nat /\ frame.event + 1 \in 1 .. MaxEvents
  <2>1. frame = u \/ Ahead(u)
    BY Where DEF Begin
  <2>2. ~Ahead(u)
    BY DEF Begin, Ahead, Writing
  <2>3. frame.event \in 0 .. MaxEvents
    BY DEF Typed, AnyFrame
  <2> QED
    BY <2>1, <2>2, <2>3, Where, Bounds DEF Begin, Frames
<1>2. PICK plan \in Plans : Write(Input(plan)) /\ frame' = Started(frame.event + 1, plan)
  BY DEF Begin
<1>3. PICK v : v = Started(frame.event + 1, plan)
  OBVIOUS
<1>4. v \in Frames /\ v.event = frame.event + 1 /\ v.phase # "recorded"
  BY <1>1, <1>3, StartedFrames DEF Started, Idle
<1>5. Takes(u, Input(plan), v)
  BY <1>1, <1>3 DEF Takes, Input
<1>6. Typed'
  <2>1. v \in AnyFrame
    BY <1>4, Bounds DEF Frames, AnyFrame, Writing
  <2>2. diary' \in Seq(Items) /\ pos' \in 0 .. Len(diary') /\ base \in 0 .. Len(diary')
    BY <1>1, <1>2, Where, OneMore, ItemTypes DEF Typed, Write
  <2> QED
    BY <1>2, <1>3, <2>1, <2>2 DEF Typed, Begin, world
<1>7. Refusal'
  BY <1>1 DEF Refusal, OnlyUnsettledStops, Begin
<1>8. \A c \in Calls : (Past(c, u) => Past(c, v)) /\ ~Current(c, u)
  <2>1. u.phase = "idle" /\ u.event \in Nat /\ v.event = u.event + 1
    BY <1>1, <1>4
  <2> QED
    BY <2>1, NextEvent
<1>9. Worldly(v)'
  BY <1>4, <1>8, WorldlyMoves DEF Consistent, Begin
<1>10. Kept(v)'
  <2>1. OfItem(Input(plan), v)
    BY DEF OfItem, Input
  <2> QED
    BY <1>2, <1>8, <2>1, KeptMoves, ItemTypes DEF Consistent, Begin, Typed, Write, world
<1>11. Input(plan).kind = "runtime.input" /\ base' = base
  BY DEF Input, Begin
<1> QED
  BY <1>1, <1>2, <1>3, <1>4, <1>5, <1>6, <1>7, <1>9, <1>10, <1>11, Written, ItemTypes

(* A call is written ahead. *)
LEMMA AskStep == ASSUME Typed, Refusal, NEW f, Consistent(f), Ask PROVE RecoveryInv'
<1> DEFINE u == f[Len(diary)]
<1>1. ~Replaying /\ frame = u /\ u \in Frames /\ u.phase = "ready" /\ u.answer = "nothing"
  <2>1. frame = u \/ Ahead(u)
    BY Where DEF Ask
  <2>2. ~Ahead(u)
    BY DEF Ask, Ahead, Writing
  <2> QED
    BY <2>1, <2>2, Where DEF Ask, Frames
<1>2. Call = CallOf(u) /\ Name = NameOf(u) /\ Call \in Calls /\ Name \in Names
  BY <1>1, SameCall
<1>3. PICK v : v = [u EXCEPT !.phase = "recorded"]
  OBVIOUS
<1>4. v \in Frames /\ v.event = u.event /\ v.plan = u.plan /\ v.i = u.i /\ v.phase = "recorded"
      /\ v.answer = "nothing"
  BY <1>1, <1>3 DEF Frames
<1>5. Takes(u, Asked(Call, Name), v)
  BY <1>1, <1>2, <1>3 DEF Takes, Asked
<1>6. Write(Asked(Call, Name)) /\ frame' = [frame EXCEPT !.phase = "asked"]
      /\ UNCHANGED <<base, bodies, crashes, up, recovering, failed, world, told>>
  BY DEF Ask, ToPhase
<1>7. Asked(Call, Name) \in Items
  BY <1>2, ItemTypes
<1>8. Typed'
  <2>1. frame' \in AnyFrame
    BY <1>6 DEF Typed, AnyFrame, Writing
  <2>2. diary' \in Seq(Items) /\ pos' \in 0 .. Len(diary') /\ base \in 0 .. Len(diary')
    BY <1>1, <1>6, <1>7, Where, OneMore DEF Typed, Write
  <2> QED
    BY <1>6, <2>1, <2>2 DEF Typed, world
<1>9. Refusal'
  BY <1>1, <1>6 DEF Refusal, OnlyUnsettledStops
<1>10. submitted[Call] = 0
  <2>1. OfCall(Call, u) /\ ~Past(Call, u) /\ u.phase # "recorded"
    BY <1>1, <1>2, NotPast DEF Consistent, Worldly
  <2> QED
    BY <2>1 DEF OfCall, Untouched
<1>11. \A c \in Calls : (Past(c, u) <=> Past(c, v)) /\ (Current(c, u) <=> Current(c, v)) /\ (Current(c, v) => c = Call)
  BY <1>1, <1>2, <1>4 DEF Past, Current, CallOf
<1>12. Worldly(v)'
  BY <1>1, <1>6, <1>10, <1>11, WorldlyMoves DEF Consistent
<1>13. Kept(v)'
  <2>1. OfItem(Asked(Call, Name), v)
    BY <1>1, <1>2, <1>4, <1>10 DEF OfItem, Asked, Current, CallOf, NameOf
  <2> QED
    BY <1>1, <1>6, <1>7, <1>11, <2>1, KeptMoves DEF Consistent, Typed, Write, world
<1>14. Ahead(v)'
  <2>1. frame'.phase = "asked" /\ frame'.event = v.event /\ frame'.plan = v.plan /\ frame'.i = v.i
    BY <1>1, <1>4, <1>6 DEF Typed, AnyFrame
  <2>2. Call' = Call
    BY <1>1, <1>4, <2>1 DEF Call
  <2> QED
    BY <1>4, <1>6, <1>10, <2>1, <2>2 DEF Ahead, Writing, world
<1>15. Asked(Call, Name).kind = "io.call"
  BY DEF Asked
<1>16. v.event = u.event + 0
  BY <1>4 DEF Frames
<1> QED
  BY <1>1, <1>4, <1>5, <1>6, <1>7, <1>8, <1>9, <1>12, <1>13, <1>14, <1>15, <1>16, Written

(* A call past the diary's end is the one its last item wrote ahead. *)
LEMMA InFlight ==
  ASSUME Typed, Refusal, NEW f, Consistent(f), frame.phase \in Writing
  PROVE  /\ ~Replaying /\ pos = Len(diary) /\ ~failed
         /\ f[Len(diary)] \in Frames /\ Ahead(f[Len(diary)])
         /\ f[Len(diary)].phase = "recorded"
         /\ Call = CallOf(f[Len(diary)]) /\ Name = NameOf(f[Len(diary)])
         /\ Call \in Calls /\ Name \in Names
         /\ OfCall(Call, f[Len(diary)]) /\ told[Call] = "nothing"
         /\ submitted[Call] \in Nat /\ effect[Call] \in BOOLEAN
<1> DEFINE u == f[Len(diary)]
<1>1. u \in Frames /\ frame # f[pos]
  BY Where DEF Frames, Writing
<1>2. ~Replaying /\ pos = Len(diary) /\ Ahead(u)
  BY <1>1, Where
<1>3. u.phase = "recorded"
  BY <1>2 DEF Ahead
<1>4. Call = CallOf(u) /\ Name = NameOf(u) /\ Call \in Calls /\ Name \in Names
  BY <1>1, <1>2, <1>3, SameCall
<1>5. OfCall(Call, u) /\ ~Past(Call, u)
  BY <1>1, <1>3, <1>4, NotPast DEF Consistent, Worldly
<1>6. told[Call] = "nothing"
  BY <1>5 DEF OfCall
<1>7. ~failed
  BY DEF Refusal, OnlyUnsettledStops, Writing
<1>8. submitted[Call] \in Nat /\ effect[Call] \in BOOLEAN
  BY <1>4 DEF Typed
<1> QED
  BY <1>1, <1>2, <1>3, <1>4, <1>5, <1>6, <1>7, <1>8

LEMMA SamePlace ==
  ASSUME frame \in AnyFrame, NEW p, NEW a,
         frame' = [frame EXCEPT !.phase = p] \/ frame' = [frame EXCEPT !.phase = p, !.answer = a]
  PROVE  /\ Call' = Call /\ Name' = Name /\ frame'.phase = p
         /\ frame'.event = frame.event /\ frame'.plan = frame.plan /\ frame'.i = frame.i
  BY DEF AnyFrame, Call, Name

(* A step of a call past the diary's end that writes no item. *)
LEMMA StaysAhead ==
  ASSUME Typed, Refusal, NEW f, Consistent(f), frame.phase \in Writing, UNCHANGED <<durable, up, pos, recovering, failed>>,
         Typed', Ahead(f[Len(diary)])', Worldly(f[Len(diary)])', Kept(f[Len(diary)])'
  PROVE  RecoveryInv'
<1>1. PICK u : u = f[Len(diary)]
  OBVIOUS
<1>2. pos = Len(diary) /\ ~failed /\ diary' = diary /\ base' = base
  BY InFlight DEF durable
<1>3. Refusal'
  BY <1>2 DEF Refusal, OnlyUnsettledStops
<1>4. Follows(f)'
  BY <1>2 DEF Follows, Consistent
<1>5. Worldly(u)' /\ Kept(u)'
  BY <1>1, <1>2
<1> QED
  BY <1>1, <1>2, <1>3, <1>4, <1>5, Unwritten

(* The evidence of a payment. *)
LEMMA EvidencesStep == ASSUME Typed, Refusal, NEW f, Consistent(f), Evidences PROVE RecoveryInv'
<1> DEFINE u == f[Len(diary)]
<1>1. frame.phase = "asked" /\ Name = "payment"
      /\ UNCHANGED <<base, bodies, crashes, up, recovering, failed, world, told>>
  BY DEF Evidences
<1>2. /\ ~Replaying /\ pos = Len(diary) /\ ~failed /\ u \in Frames /\ Ahead(u)
      /\ u.phase = "recorded" /\ Call = CallOf(u) /\ Name = NameOf(u) /\ Call \in Calls
      /\ OfCall(Call, u)
  BY <1>1, InFlight DEF Writing
<1>3. submitted[Call] = 0 /\ u.answer = "nothing"
  BY <1>1, <1>2 DEF Ahead
<1>4. ~effect[Call] /\ Call \notin pending
  BY <1>2, <1>3 DEF OfCall
<1>5. Refusal'
  BY <1>1, <1>2 DEF Refusal, OnlyUnsettledStops
<1>6. CASE Write(Evidence(Call)) /\ ToPhase("evidenced")
  <2>1. PICK v : v = [u EXCEPT !.answer = "evidence"]
    OBVIOUS
  <2>2. v \in Frames /\ v.event = u.event /\ v.plan = u.plan /\ v.i = u.i
        /\ v.phase = "recorded" /\ v.answer = "evidence" /\ v.event = u.event + 0
    <3>1. NameOf(u) = "payment"
      BY <1>1, <1>2
    <3> QED
      BY <1>2, <2>1, <3>1 DEF Frames, NameOf
  <2>3. Takes(u, Evidence(Call), v)
    BY <1>2, <2>1 DEF Takes, Evidence
  <2>4. Evidence(Call) \in Items /\ Evidence(Call).kind = "x402.submitted"
    BY <1>2, ItemTypes DEF Evidence
  <2>5. Call' = Call /\ Name' = Name /\ frame'.phase = "evidenced"
        /\ frame'.event = frame.event /\ frame'.plan = frame.plan /\ frame'.i = frame.i
    BY <1>6, SamePlace DEF Typed, ToPhase
  <2>6. Typed'
    <3>1. frame' \in AnyFrame
      BY <1>6 DEF Typed, AnyFrame, Writing, ToPhase
    <3>2. diary' \in Seq(Items) /\ pos' \in 0 .. Len(diary') /\ base \in 0 .. Len(diary')
      BY <1>2, <1>6, <2>4, Where, OneMore DEF Typed, Write
    <3> QED
      BY <1>1, <3>1, <3>2 DEF Typed, world
  <2>7. \A c \in Calls : (Past(c, u) <=> Past(c, v)) /\ (Current(c, u) <=> Current(c, v)) /\ NameOf(v) = NameOf(u)
    BY <1>2, <2>2 DEF Past, Current, CallOf, NameOf
  <2>8. \A c \in Calls : Current(c, v) => submitted[c] = 0
    BY <1>2, <1>3, <2>7 DEF Current
  <2>9. Worldly(v)'
    BY <1>1, <1>2, <2>2, <2>7, <2>8, WorldlyMoves DEF Consistent
  <2>10. Kept(v)'
    <3>1. OfItem(Evidence(Call), v)
      BY DEF OfItem, Evidence
    <3> QED
      BY <1>1, <1>2, <1>6, <2>2, <2>4, <2>7, <3>1, KeptMoves DEF Consistent, Typed, Write, world
  <2>11. Ahead(v)'
    BY <1>1, <1>2, <1>3, <2>2, <2>5 DEF Ahead, Writing, world
  <2> QED
    BY <1>1, <1>2, <1>5, <1>6, <2>2, <2>3, <2>4, <2>6, <2>9, <2>10, <2>11, Written
<1>7. CASE Got("refused") /\ UNCHANGED <<diary, pos>>
  <2>1. Call' = Call /\ Name' = Name /\ frame'.phase = "answered"
        /\ frame'.event = frame.event /\ frame'.plan = frame.plan /\ frame'.i = frame.i
    BY <1>7, SamePlace DEF Typed, Got
  <2>2. frame'.answer = "refused" /\ frame' \in AnyFrame
    BY <1>7 DEF Typed, AnyFrame, Writing, Got, Promised!Answers
  <2>3. Typed'
    BY <1>1, <1>7, <2>2 DEF Typed, world
  <2>4. Ahead(u)'
    BY <1>1, <1>2, <1>4, <1>7, <2>1, <2>2 DEF Ahead, Writing, world, Agrees, Promised!Answers
  <2>5. Follows(f)'
    BY <1>1, <1>2, <1>7, <2>4 DEF Follows, Consistent
  <2>6. Worldly(u)' /\ Kept(u)'
    BY <1>1, <1>7, WorldlyStays, KeptStays DEF Consistent, world
  <2> QED
    BY <1>5, <1>7, <2>3, <2>5, <2>6, Unwritten
<1> QED
  BY <1>6, <1>7 DEF Evidences

(* The world answers, or the program decides without it. *)
LEMMA GotStep ==
  ASSUME Typed, Refusal, NEW f, Consistent(f), frame.phase \in Writing,
         NEW a \in Promised!Answers, Got(a), UNCHANGED <<durable, up, pos, recovering, failed, told>>,
         pending' \subseteq pending, UNCHANGED <<submitted, effect>>, Agrees(a, Call)'
  PROVE  RecoveryInv'
<1>1. PICK u : u = f[Len(diary)]
  OBVIOUS
<1>2. /\ u \in Frames /\ Ahead(u) /\ u.phase = "recorded"
  BY <1>1, InFlight
<1>3. Call' = Call /\ Name' = Name /\ frame'.phase = "answered"
      /\ frame'.event = frame.event /\ frame'.plan = frame.plan /\ frame'.i = frame.i
  BY SamePlace DEF Typed, Got
<1>4. frame'.answer = a /\ frame' \in AnyFrame
  BY DEF Typed, AnyFrame, Writing, Got
<1>5. Typed'
  BY <1>4 DEF Typed, durable
<1>6. Ahead(u)'
  BY <1>2, <1>3, <1>4 DEF Ahead, Writing
<1>7. Kept(u)'
  BY <1>1, KeptStays DEF Consistent, durable
<1>8. Worldly(u)'
  <2>1. ASSUME NEW c \in Calls PROVE OfCall(c, u)'
    <3>1. OfCall(c, u)
      BY <1>1 DEF Consistent, Worldly
    <3> QED
      BY <3>1 DEF OfCall, Agrees, Untouched, Past, Current
  <2> QED
    BY <2>1 DEF Worldly, Calls
<1> QED
  BY <1>1, <1>5, <1>6, <1>7, <1>8, StaysAhead DEF durable

LEMMA RefuseStep == ASSUME Typed, Refusal, NEW f, Consistent(f), Refuse PROVE RecoveryInv'
<1>1. frame.phase \in Writing /\ "never" \in Promised!Answers
  BY DEF Refuse, Writing, Promised!Answers
<1>2. submitted[Call] = 0 /\ Call \in Calls /\ OfCall(Call, f[Len(diary)])
  BY <1>1, InFlight DEF Ahead, Refuse
<1>3. ~effect[Call] /\ Call \notin pending
  BY <1>2 DEF OfCall
<1>4. Call' = Call
  BY SamePlace DEF Typed, Refuse, Got
<1>5. Agrees("never", Call)'
  BY <1>3, <1>4 DEF Agrees, Refuse, world
<1> QED
  BY <1>1, <1>5, GotStep DEF Refuse, world

LEMMA ReplyToResendStep == ASSUME Typed, Refusal, NEW f, Consistent(f), ReplyToResend PROVE RecoveryInv'
<1>1. PICK a \in AfterResend(Call) : Got(a)
  BY DEF ReplyToResend
<1>2. frame.phase \in Writing /\ a \in Promised!Answers /\ a \notin Promised!Undone
  BY <1>1 DEF ReplyToResend, Writing, AfterResend, Promised!Answers, Promised!Undone
<1>3. Call' = Call
  BY <1>1, SamePlace DEF Typed, Got
<1>4. a = "done" => effect[Call]
  BY <1>1 DEF AfterResend
<1>5. Agrees(a, Call)'
  BY <1>2, <1>3, <1>4 DEF Agrees, ReplyToResend, world
<1> QED
  BY <1>1, <1>2, <1>5, GotStep DEF ReplyToResend, world

LEMMA ReplyStep == ASSUME Typed, Refusal, NEW f, Consistent(f), Reply PROVE RecoveryInv'
<1>1. frame.phase = "sent" /\ frame.phase \in Writing
      /\ UNCHANGED <<durable, crashes, up, pos, recovering, failed, told>>
  BY DEF Reply, Writing
<1>2. ASSUME NEW a, Got(a) PROVE Call' = Call
  BY <1>2, SamePlace DEF Typed, Got
<1>3. CASE Reads(Name) /\ (\E a \in {"high", "low"} : Got(a)) /\ UNCHANGED world
  <2>1. PICK a \in {"high", "low"} : Got(a)
    BY <1>3
  <2>2. a \in Promised!Answers /\ Agrees(a, Call)'
    BY <2>1 DEF Promised!Answers, Promised!Undone, Agrees
  <2> QED
    BY <1>1, <1>3, <2>1, <2>2, GotStep DEF world
<1>4. CASE effect[Call] /\ Got("done") /\ UNCHANGED world
  <2>1. "done" \in Promised!Answers /\ Agrees("done", Call)'
    BY <1>2, <1>4 DEF Promised!Answers, Promised!Undone, Agrees, world
  <2> QED
    BY <1>1, <1>4, <2>1, GotStep DEF world
<1>5. CASE Got("unknown") /\ UNCHANGED world
  <2>1. "unknown" \in Promised!Answers /\ Agrees("unknown", Call)'
    BY <1>2, <1>5 DEF Promised!Answers, Promised!Undone, Agrees, world
  <2> QED
    BY <1>1, <1>5, <2>1, GotStep DEF world
<1>6. CASE /\ ~Reads(Name) /\ Call \in pending /\ Got("refused")
           /\ pending' = pending \ {Call} /\ UNCHANGED <<submitted, effect>>
  <2>1. submitted[Call] = 1 /\ OfCall(Call, f[Len(diary)])
    BY <1>1, <1>6, InFlight DEF Ahead
  <2>2. ~effect[Call]
    BY <1>6, <2>1 DEF OfCall
  <2>3. "refused" \in Promised!Answers /\ Agrees("refused", Call)'
    BY <1>2, <1>6, <2>2 DEF Promised!Answers, Promised!Undone, Agrees
  <2> QED
    BY <1>1, <1>6, <2>3, GotStep
<1> QED
  BY <1>3, <1>4, <1>5, <1>6 DEF Reply

(* The bytes of a large answer are kept before the item that names them. *)
LEMMA KeepStep == ASSUME Typed, Refusal, NEW f, Consistent(f), Keep PROVE RecoveryInv'
<1>1. PICK u : u = f[Len(diary)]
  OBVIOUS
<1>2. frame.phase = "answered" /\ bodies' = bodies \cup {Call} /\ ToPhase("kept")
      /\ UNCHANGED <<diary, base, crashes, up, pos, recovering, failed, world, told>>
  BY DEF Keep
<1>3. Ahead(u) /\ Call \in Calls /\ pos = Len(diary) /\ ~failed
  BY <1>1, <1>2, InFlight DEF Writing
<1>4. Call' = Call /\ Name' = Name /\ frame'.phase = "kept"
      /\ frame'.event = frame.event /\ frame'.plan = frame.plan /\ frame'.i = frame.i
  BY <1>2, SamePlace DEF Typed, ToPhase
<1>5. frame'.answer = frame.answer /\ frame' \in AnyFrame
  BY <1>2 DEF Typed, AnyFrame, Writing, ToPhase
<1>6. Typed'
  BY <1>2, <1>3, <1>5 DEF Typed, world
<1>7. Ahead(u)'
  BY <1>2, <1>3, <1>4, <1>5 DEF Ahead, Writing, Agrees, world
<1>8. Kept(u)' /\ Worldly(u)'
  BY <1>1, <1>2, KeptStays, WorldlyStays DEF Consistent, world
<1>9. Refusal' /\ Follows(f)'
  BY <1>1, <1>2, <1>3, <1>7 DEF Refusal, OnlyUnsettledStops, Follows, Consistent
<1> QED
  BY <1>1, <1>2, <1>6, <1>8, <1>9, Unwritten

(* The call of the last frame is submitted: once, unless it is a treasury leg. *)
LEMMA SubmitMoves ==
  ASSUME Typed, NEW u \in Frames, u.phase = "recorded", Worldly(u), Kept(u),
         Submit(CallOf(u)), UNCHANGED <<diary, told, bodies>>,
         submitted[CallOf(u)] = 0 \/ NameOf(u) = "send",
         NameOf(u) = "payment" => u.answer = "evidence"
  PROVE  Worldly(u)' /\ Kept(u)' /\ submitted' \in [Calls -> Nat] /\ pending' \subseteq Calls
<1> DEFINE c0 == CallOf(u)
<1>1. /\ c0 \in Calls /\ ~Past(c0, u) /\ Current(c0, u)
      /\ submitted \in [Calls -> Nat] /\ pending \subseteq Calls
  BY NotPast DEF Typed
<1>2. /\ submitted' = [submitted EXCEPT ![c0] = submitted[c0] + 1] /\ pending' = pending \cup {c0}
      /\ effect' = effect
  BY DEF Submit
<1>3. submitted' \in [Calls -> Nat] /\ submitted'[c0] = submitted[c0] + 1
      /\ \A c \in Calls \ {c0} : submitted'[c] = submitted[c]
  BY <1>1, <1>2
<1>4. ASSUME NEW c \in Calls PROVE OfCall(c, u)'
  <2>1. OfCall(c, u) /\ submitted[c] \in Nat
    BY <1>1 DEF Worldly
  <2>2. CASE c = c0
    <3>1. told[c] = "nothing"
      BY <1>1, <2>1, <2>2 DEF OfCall
    <3>2. submitted[c] = 0 => ~effect[c]
      BY <2>1 DEF OfCall
    <3>3. Agrees(told[c], c)'
      BY <3>1 DEF Agrees, Promised!Undone
    <3>4. submitted'[c] = submitted[c] + 1 /\ effect'[c] = effect[c] /\ told'[c] = "nothing"
      BY <1>2, <1>3, <2>2, <3>1
    <3>5. submitted'[c] > 0 /\ (submitted'[c] <= 1 => submitted[c] = 0)
      BY <2>1, <3>4
    <3>6. Current(c, u) /\ NameOf(u)' = NameOf(u)
      BY <1>1, <2>2 DEF NameOf
    <3>7. NameOf(u) # "send" => submitted'[c] <= 1
      BY <2>1, <2>2, <3>4
    <3>8. ~(NameOf(u) = "payment" /\ u.answer = "nothing")
      OBVIOUS
    <3> QED
      BY <3>2, <3>3, <3>4, <3>5, <3>6, <3>7, <3>8 DEF OfCall, Current
  <2>3. CASE c # c0
    <3>1. submitted'[c] = submitted[c] /\ (c \in pending' <=> c \in pending) /\ ~Current(c, u)
      BY <1>2, <1>3, <2>3 DEF Current
    <3> QED
      BY <1>2, <2>1, <3>1 DEF OfCall, Agrees, Untouched, Past, Current, NameOf
  <2> QED
    BY <2>2, <2>3
<1>5. Worldly(u)'
  BY <1>4 DEF Worldly, Calls
<1>6. ASSUME NEW k \in 1 .. Len(diary) PROVE OfItem(diary[k], u)'
  <2>1. OfItem(diary[k], u) /\ diary'[k] = diary[k]
    BY DEF Kept
  <2>2. ASSUME diary[k].kind = "io.call" PROVE diary[k].name # "send" => submitted'[diary[k].call] <= 1
    <3>1. CASE diary[k].call = c0
      <4>1. diary[k].name = NameOf(u)
        BY <1>1, <2>1, <2>2, <3>1 DEF OfItem
      <4> QED
        BY <1>3, <3>1, <4>1
    <3>2. CASE diary[k].call # c0
      BY <1>3, <2>1, <2>2, <3>2 DEF OfItem
    <3> QED
      BY <3>1, <3>2
  <2> QED
    BY <2>1, <2>2 DEF OfItem, Past, Current, NameOf
<1>7. Kept(u)'
  BY <1>6 DEF Kept
<1> QED
  BY <1>1, <1>2, <1>3, <1>5, <1>7

LEMMA DispatchStep == ASSUME Typed, Refusal, NEW f, Consistent(f), Dispatch PROVE RecoveryInv'
<1>1. PICK u : u = f[Len(diary)]
  OBVIOUS
<1>2. frame.phase \in Writing /\ frame.phase \in {"asked", "evidenced"} /\ (Name = "payment" => frame.phase = "evidenced")
      /\ ToPhase("sent") /\ UNCHANGED <<durable, crashes, up, pos, recovering, failed, told>>
  BY DEF Dispatch, Writing
<1>3. /\ u \in Frames /\ Ahead(u) /\ u.phase = "recorded" /\ Call = CallOf(u) /\ Name = NameOf(u)
      /\ Call \in Calls /\ submitted[Call] = 0 /\ (Name = "payment" => u.answer = "evidence")
  BY <1>1, <1>2, InFlight DEF Ahead
<1>4. Call' = Call /\ Name' = Name /\ frame'.phase = "sent"
      /\ frame'.event = frame.event /\ frame'.plan = frame.plan /\ frame'.i = frame.i
  BY <1>2, SamePlace DEF Typed, ToPhase
<1>5. frame' \in AnyFrame
  BY <1>2 DEF Typed, AnyFrame, Writing, ToPhase
<1>6. /\ Worldly(u)' /\ Kept(u)' /\ submitted' \in [Calls -> Nat] /\ pending' \subseteq Calls
      /\ effect' = effect /\ (~Reads(Name) => submitted'[Call] = 1)
  <2>1. CASE Reads(Name)
    BY <1>1, <1>2, <2>1, KeptStays, WorldlyStays DEF Dispatch, Consistent, durable, world, Typed
  <2>2. CASE ~Reads(Name)
    <3>1. Submit(Call)
      BY <2>2 DEF Dispatch
    <3>2. effect' = effect /\ submitted'[Call] = 1
      BY <1>3, <3>1 DEF Submit, Typed
    <3> QED
      BY <1>1, <1>2, <1>3, <3>1, <3>2, SubmitMoves DEF Consistent, durable
  <2> QED
    BY <2>1, <2>2
<1>7. Typed'
  BY <1>2, <1>5, <1>6 DEF Typed, durable
<1>8. Ahead(u)'
  BY <1>3, <1>4, <1>6 DEF Ahead, Writing
<1> QED
  BY <1>1, <1>2, <1>6, <1>7, <1>8, StaysAhead DEF durable

(* A call the crash interrupted is settled by its name. *)
LEMMA SettleOrphanStep == ASSUME Typed, Refusal, NEW f, Consistent(f), SettleOrphan PROVE RecoveryInv'
<1>1. PICK u : u = f[Len(diary)]
  OBVIOUS
<1>2. /\ up /\ ~failed /\ ~Replaying /\ pos = Len(diary) /\ frame = u /\ u \in Frames /\ u.phase = "recorded"
      /\ UNCHANGED <<durable, crashes, up, pos, recovering, told>>
  <2>1. frame = u \/ Ahead(u)
    BY <1>1, Where DEF SettleOrphan, Orphan
  <2>2. ~Ahead(u)
    BY DEF SettleOrphan, Orphan, Ahead, Writing
  <2> QED
    BY <1>1, <2>1, <2>2, Where DEF SettleOrphan, Orphan
<1>3. Call = CallOf(u) /\ Name = NameOf(u) /\ Call \in Calls /\ Name \in Names /\ OfCall(Call, u)
      /\ ~Past(Call, u) /\ Current(Call, u)
  BY <1>1, <1>2, SameCall, NotPast DEF Consistent, Worldly
<1>4. ASSUME NEW p \in Writing, NEW a, ~failed',
             frame' = [frame EXCEPT !.phase = p] \/ frame' = [frame EXCEPT !.phase = p, !.answer = a]
      PROVE  /\ Call' = Call /\ Name' = Name /\ frame'.phase = p /\ Refusal'
             /\ frame'.event = u.event /\ frame'.plan = u.plan /\ frame'.i = u.i
  BY <1>2, <1>4, SamePlace DEF Typed, Refusal, OnlyUnsettledStops
<1>5. CASE /\ Presumed(Name) # "nothing" /\ Got(Presumed(Name)) /\ UNCHANGED <<failed, world>>
  <2>1. PICK a : a = Presumed(Name)
    OBVIOUS
  <2>2. a \in {"unknown", "never"} /\ (a = "never" => Name = "payment" /\ frame.answer # "evidence")
    <3>1. Presumed(Name) \in {"unknown", "never", "nothing"}
          /\ (Presumed(Name) = "never" => Name = "payment" /\ frame.answer # "evidence")
      <4>1. CASE Name = "venue"
        BY <4>1 DEF Presumed
      <4>2. CASE Name = "payment"
        BY <4>2 DEF Presumed
      <4>3. CASE Name = "provider"
        BY <4>3 DEF Presumed
      <4>4. CASE Name = "topup"
        BY <4>4 DEF Presumed
      <4>5. CASE Name \in {"send", "read", "other"}
        BY <4>5 DEF Presumed
      <4> QED
        BY <1>3, <4>1, <4>2, <4>3, <4>4, <4>5 DEF Names
    <3> QED
      BY <1>5, <2>1, <3>1
  <2>3. a \in Promised!Answers /\ a # "done"
    BY <2>2 DEF Promised!Answers
  <2>4. a \in Promised!Undone => ~effect[Call] /\ Call \notin pending
    <3>1. ASSUME a \in Promised!Undone PROVE submitted[Call] = 0
      <4>1. a = "never"
        BY <2>2, <3>1 DEF Promised!Undone
      <4>2. u.answer = "nothing" /\ NameOf(u) = "payment"
        BY <1>2, <1>3, <2>2, <4>1 DEF Frames
      <4> QED
        BY <1>2, <1>3, <4>2 DEF OfCall
    <3> QED
      BY <1>3, <3>1 DEF OfCall
  <2>5. frame' = [frame EXCEPT !.phase = "answered", !.answer = a]
    BY <1>5, <2>1 DEF Got
  <2>6. frame' \in AnyFrame /\ frame'.answer = a
    BY <2>3, <2>5 DEF Typed, AnyFrame, Writing
  <2>7. /\ Call' = Call /\ Name' = Name /\ frame'.phase = "answered" /\ Refusal'
        /\ frame'.event = u.event /\ frame'.plan = u.plan /\ frame'.i = u.i
    BY <1>2, <1>4, <1>5, <2>5 DEF Writing
  <2>8. Ahead(u)'
    BY <1>2, <1>5, <2>3, <2>4, <2>6, <2>7 DEF Ahead, Agrees, Writing, world
  <2>9. Follows(f)'
    BY <1>1, <1>2, <2>8 DEF Follows, Consistent, durable
  <2>10. Typed'
    BY <1>2, <1>5, <2>6 DEF Typed, durable, world
  <2>11. Worldly(u)' /\ Kept(u)'
    BY <1>1, <1>2, <1>5, WorldlyStays, KeptStays DEF Consistent, durable, world
  <2> QED
    BY <1>1, <1>2, <2>7, <2>9, <2>10, <2>11, Unwritten DEF durable
<1>6. CASE Resubmits(Name) /\ Submit(Call) /\ ToPhase("resent") /\ UNCHANGED failed
  <2>1. NameOf(u) = "send" /\ NameOf(u) # "payment"
    BY <1>3, <1>6 DEF Resubmits
  <2>2. Worldly(u)' /\ Kept(u)' /\ submitted' \in [Calls -> Nat] /\ pending' \subseteq Calls
    BY <1>1, <1>2, <1>3, <1>6, <2>1, SubmitMoves DEF Consistent, durable
  <2>3. frame' \in AnyFrame /\ frame' = [frame EXCEPT !.phase = "resent"]
    BY <1>6 DEF Typed, AnyFrame, Writing, ToPhase
  <2>4. /\ Call' = Call /\ Name' = Name /\ frame'.phase = "resent" /\ Refusal'
        /\ frame'.event = u.event /\ frame'.plan = u.plan /\ frame'.i = u.i
    BY <1>2, <1>4, <1>6, <2>3 DEF Writing
  <2>5. Ahead(u)'
    BY <1>2, <1>3, <2>1, <2>4 DEF Ahead, Writing
  <2>6. Follows(f)'
    BY <1>1, <1>2, <2>5 DEF Follows, Consistent, durable
  <2>7. Typed'
    BY <1>2, <1>6, <2>2, <2>3 DEF Typed, durable, Submit
  <2> QED
    BY <1>1, <1>2, <2>2, <2>4, <2>6, <2>7, Unwritten DEF durable
<1>7. CASE Reads(Name) /\ ToPhase("sent") /\ UNCHANGED <<failed, world>>
  <2>1. frame' \in AnyFrame /\ frame' = [frame EXCEPT !.phase = "sent"]
    BY <1>7 DEF Typed, AnyFrame, Writing, ToPhase
  <2>2. /\ Call' = Call /\ Name' = Name /\ frame'.phase = "sent" /\ Refusal'
        /\ frame'.event = u.event /\ frame'.plan = u.plan /\ frame'.i = u.i
    BY <1>2, <1>4, <1>7, <2>1 DEF Writing
  <2>3. Ahead(u)'
    BY <1>2, <1>7, <2>2 DEF Ahead, Writing
  <2>4. Follows(f)'
    BY <1>1, <1>2, <2>3 DEF Follows, Consistent, durable
  <2>5. Typed'
    BY <1>2, <1>7, <2>1 DEF Typed, durable, world
  <2>6. Worldly(u)' /\ Kept(u)'
    BY <1>1, <1>2, <1>7, WorldlyStays, KeptStays DEF Consistent, durable, world
  <2> QED
    BY <1>1, <1>2, <2>2, <2>4, <2>5, <2>6, Unwritten DEF durable
<1>8. CASE Stops(Name) /\ failed' = TRUE /\ UNCHANGED <<frame, world>>
  <2>1. Refusal'
    BY <1>2, <1>8 DEF Refusal, OnlyUnsettledStops, Replaying, durable, Name
  <2>2. Follows(f)'
    BY <1>1, <1>2, <1>8 DEF Follows, Consistent, durable
  <2>3. Typed'
    BY <1>2, <1>8 DEF Typed, durable, world
  <2>4. Worldly(u)' /\ Kept(u)'
    BY <1>1, <1>2, <1>8, WorldlyStays, KeptStays DEF Consistent, durable, world
  <2> QED
    BY <1>1, <1>2, <2>1, <2>2, <2>3, <2>4, Unwritten DEF durable
<1> QED
  BY <1>5, <1>6, <1>7, <1>8 DEF SettleOrphan

(* An answer is recorded and told. *)
LEMMA CallOver ==
  ASSUME NEW u \in Frames, u.phase = "recorded", NEW v, v = Answered(u)
  PROVE  /\ v.phase # "recorded" /\ Past(CallOf(u), v)
         /\ \A c \in Calls : Past(c, u) => Past(c, v)
<1>1. u.event \in Nat /\ u.i \in Nat
  BY Bounds DEF Frames
<1>2. CASE u.i = Len(u.plan)
  <2>1. v.event = u.event /\ v.phase = "idle"
    BY <1>2 DEF Answered, Idle
  <2> QED
    BY <1>1, <2>1, CallTypes DEF Past, Current, CallOf
<1>3. CASE u.i # Len(u.plan)
  <2>1. v.event = u.event /\ v.phase = "ready" /\ v.i = u.i + 1
    BY <1>3 DEF Answered, Frames
  <2> QED
    BY <1>1, <2>1, CallTypes DEF Past, Current, CallOf
<1> QED
  BY <1>2, <1>3

LEMMA RecordStep == ASSUME Typed, Refusal, NEW f, Consistent(f), Record PROVE RecoveryInv'
<1> DEFINE u == f[Len(diary)]
<1>1. /\ frame.phase \in {"answered", "kept"} /\ frame.phase \in Writing
      /\ UNCHANGED <<base, bodies, crashes, up, recovering, failed, world>>
  BY DEF Record, Writing
<1>2. /\ ~Replaying /\ pos = Len(diary) /\ ~failed /\ u \in Frames /\ Ahead(u)
      /\ u.phase = "recorded" /\ Call = CallOf(u) /\ Name = NameOf(u) /\ Call \in Calls
      /\ OfCall(Call, u) /\ told[Call] = "nothing"
  BY <1>1, InFlight
<1>3. PICK a : a = frame.answer
  OBVIOUS
<1>4. a \in Promised!Answers /\ Agrees(a, Call) /\ a # "nothing"
  BY <1>1, <1>2, <1>3 DEF Ahead, Promised!Answers
<1>5. PICK item : item = Result(Call, a, Reads(Name))
  OBVIOUS
<1>6. Write(item) /\ told' = [told EXCEPT ![Call] = a] /\ frame' = Answered(frame)
  BY <1>3, <1>5 DEF Record, Return
<1>7. item \in Items /\ item.kind = "io.result" /\ item.call = Call /\ item.answer = a
      /\ item.named = Reads(Name)
  BY <1>2, <1>4, <1>5, ItemTypes DEF Result, Reads
<1>8. PICK v : v = Answered(u)
  OBVIOUS
<1>9. v \in Frames /\ v.event = u.event /\ v.event = u.event + 0 /\ v.phase # "recorded"
      /\ Past(Call, v) /\ \A c \in Calls : Past(c, u) => Past(c, v)
  BY <1>2, <1>8, AnsweredFrames, CallOver DEF Frames
<1>10. frame' = v
  BY <1>2, <1>6, <1>8 DEF Ahead, Answered, Frames, Typed, AnyFrame
<1>11. Takes(u, item, v)
  BY <1>2, <1>5, <1>7, <1>8 DEF Takes
<1>12. told' \in [Calls -> Promised!Answers \cup {"nothing"}] /\ told'[Call] = a
       /\ \A c \in Calls \ {Call} : told'[c] = told[c]
  BY <1>2, <1>4, <1>6 DEF Typed
<1>13. Typed'
  <2>1. frame' \in AnyFrame
    BY <1>9, <1>10 DEF Frames, AnyFrame, Writing
  <2>2. diary' \in Seq(Items) /\ pos' \in 0 .. Len(diary') /\ base \in 0 .. Len(diary')
    BY <1>2, <1>6, <1>7, Where, OneMore DEF Typed, Write
  <2> QED
    BY <1>1, <1>12, <2>1, <2>2 DEF Typed, world
<1>14. Refusal'
  BY <1>1, <1>2 DEF Refusal, OnlyUnsettledStops
<1>15. Worldly(v)'
  <2>1. ASSUME NEW c \in Calls PROVE OfCall(c, v)'
    <3>1. OfCall(c, u)
      BY DEF Consistent, Worldly
    <3>2. CASE c = Call
      BY <1>1, <1>4, <1>9, <1>12, <3>1, <3>2 DEF OfCall, Agrees, Untouched, Past, Current, world
    <3>3. CASE c # Call
      <4>1. ~Current(c, u) /\ told'[c] = told[c]
        BY <1>2, <1>12, <3>3 DEF Current
      <4> QED
        BY <1>1, <1>9, <3>1, <4>1 DEF OfCall, Agrees, Untouched, Past, Current, world
    <3> QED
      BY <3>2, <3>3
  <2> QED
    BY <2>1 DEF Worldly, Calls
<1>16. Kept(v)'
  <2>1. Len(diary') = Len(diary) + 1 /\ Len(diary) \in Nat /\ diary'[Len(diary) + 1] = item
        /\ \A k \in 1 .. Len(diary) : diary'[k] = diary[k]
    BY <1>6, <1>7, OneMore DEF Typed, Write
  <2>2. ASSUME NEW k \in 1 .. Len(diary') PROVE OfItem(diary[k], v)'
    <3>1. CASE k = Len(diary) + 1
      <4>1. item.named => Call \in bodies
        BY <1>2, <1>7 DEF Record, Ahead
      <4> QED
        BY <1>1, <1>2, <1>4, <1>7, <1>12, <2>1, <3>1, <4>1 DEF OfItem
    <3>2. CASE k # Len(diary) + 1
      <4>1. k \in 1 .. Len(diary) /\ diary'[k] = diary[k]
        BY <2>1, <2>2, <3>2
      <4>2. OfItem(diary[k], u)
        BY <4>1 DEF Consistent, Kept
      <4>3. ASSUME diary[k].kind = "io.call"
            PROVE  diary[k].call \in Calls /\ Past(diary[k].call, v)
        <5>1. CASE Past(diary[k].call, u)
          BY <1>9, <4>2, <4>3, <5>1 DEF OfItem
        <5>2. CASE ~Past(diary[k].call, u)
          BY <1>2, <1>9, <4>2, <4>3, <5>2 DEF OfItem, Current
        <5> QED
          BY <5>1, <5>2
      <4>4. ASSUME diary[k].kind = "io.result" PROVE told'[diary[k].call] = diary[k].answer
        <5>1. diary[k].call # Call
          BY <1>2, <4>2, <4>4 DEF OfItem, Promised!Answers
        <5> QED
          BY <1>12, <4>2, <4>4, <5>1 DEF OfItem
      <4> QED
        BY <1>1, <4>1, <4>2, <4>3, <4>4 DEF OfItem, Past, Current, world
    <3> QED
      BY <3>1, <3>2
  <2> QED
    BY <2>2 DEF Kept
<1> QED
  BY <1>1, <1>2, <1>6, <1>7, <1>9, <1>10, <1>11, <1>13, <1>14, <1>15, <1>16, Written

(* The world does what was submitted, sooner or later. *)
LEMMA PerformsStep == ASSUME Typed, Refusal, NEW f, Consistent(f), NEW c0 \in Calls, Performs(c0) PROVE RecoveryInv'
<1>1. PICK u : u = f[Len(diary)]
  OBVIOUS
<1>2. c0 \in pending /\ pending' = pending \ {c0} /\ effect' = [effect EXCEPT ![c0] = TRUE]
      /\ UNCHANGED <<durable, crashes, process, submitted, told>>
  BY DEF Performs
<1>3. effect' \in [Calls -> BOOLEAN] /\ effect'[c0] = TRUE /\ \A c \in Calls \ {c0} : effect'[c] = effect[c]
  BY <1>2 DEF Typed
<1>4. Typed'
  BY <1>2, <1>3 DEF Typed, durable, process
<1>5. Refusal'
  BY <1>2 DEF Refusal, OnlyUnsettledStops, Replaying, durable, process, Name
<1>6. Worldly(u)'
  <2>1. ASSUME NEW c \in Calls PROVE OfCall(c, u)'
    <3>1. OfCall(c, u)
      BY <1>1 DEF Consistent, Worldly
    <3>2. CASE c = c0
      BY <1>2, <1>3, <3>1, <3>2 DEF OfCall, Agrees, Untouched, Past, Current, Promised!Undone
    <3>3. CASE c # c0
      BY <1>2, <1>3, <3>1, <3>3 DEF OfCall, Agrees, Untouched, Past, Current
    <3> QED
      BY <3>2, <3>3
  <2> QED
    BY <2>1 DEF Worldly, Calls
<1>7. Kept(u)'
  BY <1>1, <1>2, KeptStays DEF Consistent, durable
<1>8. Follows(f)'
  <2>1. CASE frame = f[pos]
    BY <1>2, <2>1 DEF Follows, Consistent, durable, process
  <2>2. CASE pos = Len(diary) /\ Ahead(u)
    <3>1. Call \in Calls
      BY <1>1, <2>2, InFlight DEF Ahead
    <3>2. Agrees(frame.answer, Call) => Agrees(frame.answer, Call)'
      BY <1>2, <1>3, <3>1 DEF Agrees, Promised!Undone, process, Call
    <3>3. Call' = Call /\ Name' = Name
      BY <1>2 DEF process, Call, Name
    <3>4. Ahead(u)'
      BY <1>2, <2>2, <3>2, <3>3 DEF Ahead, process, durable
    <3> QED
      BY <1>1, <1>2, <2>2, <3>4 DEF Follows, Consistent, durable, process
  <2> QED
    BY <1>1, <2>1, <2>2 DEF Follows, Consistent
<1> QED
  BY <1>1, <1>2, <1>4, <1>5, <1>6, <1>7, <1>8, Unwritten DEF durable

(* Between events, and around a crash. *)
LEMMA CheckpointStep == ASSUME Typed, Refusal, NEW f, Consistent(f), Checkpoint PROVE RecoveryInv'
<1>1. PICK u : u = f[Len(diary)]
  OBVIOUS
<1>2. base' = Len(diary) /\ frame.phase = "idle" /\ UNCHANGED <<diary, bodies, crashes, process, world, told>>
  BY DEF Checkpoint
<1>3. frame = u /\ pos = Len(diary)
  <2>1. frame = u \/ Ahead(u)
    BY <1>1, Where DEF Checkpoint
  <2> QED
    BY <1>1, <1>2, <2>1, Where DEF Checkpoint, Ahead, Writing
<1>4. Typed' /\ Refusal'
  BY <1>2, Where DEF Typed, Refusal, OnlyUnsettledStops, process, world
<1>5. Follows(f)'
  BY <1>1, <1>2, <1>3 DEF Follows, process
<1>6. Worldly(u)' /\ Kept(u)'
  BY <1>1, <1>2, WorldlyStays, KeptStays DEF Consistent, world
<1> QED
  BY <1>1, <1>2, <1>4, <1>5, <1>6, Unwritten

LEMMA CrashStep == ASSUME Typed, Refusal, NEW f, Consistent(f), Crash PROVE RecoveryInv'
<1>1. PICK u : u = f[Len(diary)]
  OBVIOUS
<1>2. /\ ~failed /\ up' = FALSE /\ frame' = Idle(0) /\ pos' = 0 /\ recovering' = FALSE
      /\ UNCHANGED <<durable, failed, world, told>>
  BY DEF Crash
<1>3. f[0] = Idle(0)
  BY DEF Consistent, Replays
<1>4. Idle(0) \in AnyFrame /\ 0 \in 0 .. Len(diary)
  BY IdleFrames, Bounds, Where
<1>5. Typed'
  BY <1>2, <1>4 DEF Typed, durable, world
<1>6. Refusal' /\ Follows(f)'
  BY <1>2, <1>3 DEF Refusal, OnlyUnsettledStops, Follows, Consistent, durable
<1>7. Worldly(u)' /\ Kept(u)'
  BY <1>1, <1>2, WorldlyStays, KeptStays DEF Consistent, durable, world
<1> QED
  BY <1>1, <1>2, <1>5, <1>6, <1>7, Unwritten DEF durable

LEMMA ResumeStep == ASSUME Typed, Refusal, NEW f, Consistent(f), Resume PROVE RecoveryInv'
<1>1. PICK u : u = f[Len(diary)]
  OBVIOUS
<1>2. /\ ~failed /\ up' = TRUE /\ frame' = Idle(Inputs(base)) /\ pos' = base /\ recovering' = TRUE
      /\ UNCHANGED <<durable, failed, world, told>>
  BY DEF Resume, Refusal
<1>3. f[base] = Idle(Inputs(base)) /\ Inputs(base) \in 0 .. MaxEvents
  <2>1. base \in 0 .. Len(diary)
    BY DEF Typed
  <2>2. f[base] \in Frames /\ f[base].event = Inputs(base) /\ f[base].phase = "idle"
    BY <2>1 DEF Consistent, Replays, Follows
  <2> QED
    BY <2>2 DEF Frames
<1>4. Idle(Inputs(base)) \in AnyFrame
  BY <1>3, IdleFrames
<1>5. Typed'
  BY <1>2, <1>4 DEF Typed, durable, world
<1>6. Refusal' /\ Follows(f)'
  BY <1>2, <1>3 DEF Refusal, OnlyUnsettledStops, Follows, Consistent, durable
<1>7. Worldly(u)' /\ Kept(u)'
  BY <1>1, <1>2, WorldlyStays, KeptStays DEF Consistent, durable, world
<1> QED
  BY <1>1, <1>2, <1>5, <1>6, <1>7, Unwritten DEF durable

LEMMA EndReplayStep == ASSUME Typed, Refusal, NEW f, Consistent(f), EndReplay PROVE RecoveryInv'
<1>1. PICK u : u = f[Len(diary)]
  OBVIOUS
<1>2. recovering' = FALSE /\ UNCHANGED <<durable, crashes, up, pos, frame, failed, world, told>>
  BY DEF EndReplay
<1>3. Typed'
  BY <1>2 DEF Typed, durable, world
<1>4. Refusal'
  BY <1>2 DEF Refusal, OnlyUnsettledStops, Replaying, durable, Name
<1>5. Worldly(u)' /\ Kept(u)'
  BY <1>1, <1>2, WorldlyStays, KeptStays DEF Consistent, durable, world
<1>6. Follows(f)'
  <2>1. Ahead(u) => Ahead(u)'
    BY <1>2 DEF Ahead, Agrees, Call, Name, durable, world
  <2> QED
    BY <1>1, <1>2, <2>1 DEF Follows, Consistent, durable
<1> QED
  BY <1>1, <1>2, <1>3, <1>4, <1>5, <1>6, Unwritten DEF durable

(* Replay takes an item as it was written. *)
LEMMA ReplayTakes ==
  ASSUME Typed, Refusal, NEW f, Consistent(f), up, ~failed, Replaying,
         frame' = f[pos + 1], pos' = pos + 1,
         UNCHANGED <<durable, up, recovering, failed, world, told>>
  PROVE  RecoveryInv'
<1>1. PICK u : u = f[Len(diary)]
  OBVIOUS
<1>2. pos + 1 \in 1 .. Len(diary) /\ f[pos + 1] \in Frames
  BY Where
<1>3. pos + 1 \in 0 .. Len(diary) /\ f[pos + 1] \in AnyFrame
  BY <1>2, Where DEF Frames, AnyFrame, Writing
<1>4. Typed' /\ Refusal'
  BY <1>3 DEF Typed, Refusal, OnlyUnsettledStops, durable, world
<1>5. Follows(f)'
  BY DEF Follows, Consistent, durable
<1>6. Worldly(u)' /\ Kept(u)'
  BY <1>1, WorldlyStays, KeptStays DEF Consistent, durable, world
<1> QED
  BY <1>1, <1>4, <1>5, <1>6, Unwritten DEF durable

LEMMA ReplayInputStep == ASSUME Typed, Refusal, NEW f, Consistent(f), ReplayInput PROVE RecoveryInv'
<1>1. Takes(frame, NextItem, f[pos + 1]) /\ frame.phase = "idle"
  BY Where DEF ReplayInput
<1>2. frame' = f[pos + 1]
  BY <1>1 DEF Takes, ReplayInput
<1> QED
  BY <1>2, ReplayTakes DEF ReplayInput

LEMMA ReplayAskStep == ASSUME Typed, Refusal, NEW f, Consistent(f), ReplayAsk PROVE RecoveryInv'
<1>1. Takes(frame, NextItem, f[pos + 1]) /\ frame.phase = "ready"
  BY Where DEF ReplayAsk
<1>2. frame' = f[pos + 1]
  BY <1>1 DEF Takes, ReplayAsk, ToPhase
<1> QED
  BY <1>2, ReplayTakes DEF ReplayAsk

LEMMA ReplayEvidenceStep == ASSUME Typed, Refusal, NEW f, Consistent(f), ReplayEvidence PROVE RecoveryInv'
<1>1. Takes(frame, NextItem, f[pos + 1]) /\ frame.phase = "recorded" /\ NextItem.kind = "x402.submitted"
  BY Where DEF ReplayEvidence, Evidence
<1>2. frame' = f[pos + 1]
  BY <1>1 DEF Takes, ReplayEvidence
<1> QED
  BY <1>2, ReplayTakes DEF ReplayEvidence

(* A recorded answer is told again as it was told, and its bytes are there. *)
LEMMA ReplayResultFacts ==
  ASSUME Typed, Refusal, NEW f, Consistent(f), ReplayResult
  PROVE  frame' = f[pos + 1] /\ pos' = pos + 1
         /\ UNCHANGED <<durable, up, recovering, failed, world, told>>
<1>1. /\ Takes(frame, NextItem, f[pos + 1]) /\ frame.phase = "recorded" /\ NextItem.kind = "io.result"
      /\ pos + 1 \in 1 .. Len(diary)
  BY Where DEF ReplayResult
<1>2. NextItem.call = Call /\ f[pos + 1] = Answered(frame)
  BY <1>1 DEF Takes, Result, Call, CallOf
<1>3. OfItem(NextItem, f[Len(diary)])
  BY <1>1 DEF NextItem, Consistent, Kept
<1>4. Readable(NextItem) /\ Call \in Calls /\ told[Call] = NextItem.answer
  BY <1>1, <1>2, <1>3 DEF OfItem, Readable
<1>5. pos' = pos + 1 /\ Return(Call, NextItem.answer) /\ UNCHANGED <<diary, failed, world>>
      /\ UNCHANGED <<base, bodies, crashes, up, recovering>>
  BY <1>4 DEF ReplayResult
<1>6. told' = told
  BY <1>4, <1>5 DEF Return, Typed
<1> QED
  BY <1>2, <1>5, <1>6 DEF Return, durable

LEMMA ReplayResultStep == ASSUME Typed, Refusal, NEW f, Consistent(f), ReplayResult PROVE RecoveryInv'
  BY ReplayResultFacts, ReplayTakes DEF ReplayResult

-----------------------------------------------------------------------------
LEMMA RecoveryInit == Init => RecoveryInv
<1> SUFFICES ASSUME Init PROVE RecoveryInv
  OBVIOUS
<1> USE DEF Init
<1>1. Len(diary) = 0 /\ diary \in Seq(Items)
  OBVIOUS
<1>2. frame \in AnyFrame /\ Idle(0) \in Frames
  BY IdleFrames, Bounds
<1>3. Typed
  <2>1. told \in [Calls -> Promised!Answers \cup {"nothing"}]
    OBVIOUS
  <2>2. submitted \in [Calls -> Nat] /\ effect \in [Calls -> BOOLEAN]
    OBVIOUS
  <2>3. pos \in 0 .. Len(diary) /\ base \in 0 .. Len(diary)
    BY <1>1
  <2> QED
    BY <1>1, <1>2, <2>1, <2>2, <2>3 DEF Typed
<1>4. Refusal
  BY DEF Refusal, OnlyUnsettledStops
<1>5. PICK f : f = [n \in 0 .. 0 |-> Idle(0)]
  OBVIOUS
<1>6. Inputs(0) = 0
  <2>1. {k \in 1 .. 0 : diary[k].kind = "runtime.input"} = {}
    OBVIOUS
  <2> QED
    BY <2>1, FS_EmptySet DEF Inputs
<1>7. Replays(f)
  BY <1>1, <1>2, <1>5, <1>6 DEF Replays, Idle
<1>8. Follows(f)
  BY <1>5 DEF Follows, Idle
<1>9. Worldly(f[0]) /\ Kept(f[0])
  BY <1>1, <1>5 DEF Worldly, OfCall, Agrees, Untouched, Current, Idle, Promised!Undone, Kept
<1> QED
  BY <1>1, <1>3, <1>4, <1>7, <1>8, <1>9 DEF RecoveryInv, Consistent

LEMMA RecoveryStep == RecoveryInv /\ [Next]_vars => RecoveryInv'
<1> SUFFICES ASSUME RecoveryInv, [Next]_vars PROVE RecoveryInv'
  OBVIOUS
<1>1. Typed /\ Refusal
  BY DEF RecoveryInv
<1>2. PICK f : Consistent(f)
  BY DEF RecoveryInv
<1>3. CASE Live
  BY <1>1, <1>2, <1>3, BeginStep, AskStep, RefuseStep, EvidencesStep, DispatchStep, ReplyStep,
     KeepStep, RecordStep, CheckpointStep DEF Live
<1>4. CASE Replay
  BY <1>1, <1>2, <1>4, ReplayInputStep, ReplayAskStep, ReplayEvidenceStep, ReplayResultStep,
     SettleOrphanStep, ReplyToResendStep, EndReplayStep DEF Replay
<1>5. CASE Crash
  BY <1>1, <1>2, <1>5, CrashStep
<1>6. CASE Resume
  BY <1>1, <1>2, <1>6, ResumeStep
<1>7. CASE \E c \in Calls : Performs(c)
  BY <1>1, <1>2, <1>7, PerformsStep
<1>8. CASE UNCHANGED vars
  <2>1. UNCHANGED <<durable, crashes, up, pos, recovering, frame, failed, world, told>>
    BY <1>8 DEF vars, process
  <2>2. PICK u : u = f[Len(diary)]
    OBVIOUS
  <2>3. Typed' /\ Refusal'
    BY <1>1, <2>1 DEF Typed, Refusal, OnlyUnsettledStops, Replaying, Name, durable, world
  <2>4. Ahead(u) => Ahead(u)'
    BY <2>1 DEF Ahead, Agrees, Call, Name, durable, world
  <2>5. Follows(f)'
    BY <1>2, <2>1, <2>2, <2>4 DEF Follows, Consistent, durable
  <2>6. Worldly(u)' /\ Kept(u)'
    BY <1>2, <2>1, <2>2, WorldlyStays, KeptStays DEF Consistent, durable, world
  <2> QED
    BY <1>2, <2>1, <2>2, <2>3, <2>5, <2>6, Unwritten DEF durable
<1> QED
  BY <1>3, <1>4, <1>5, <1>6, <1>7, <1>8 DEF Next

-----------------------------------------------------------------------------
(* What the invariant says of the runs' properties. *)
LEMMA RecoveryInvTypes == RecoveryInv => RecoveryTypeOK
<1> SUFFICES ASSUME RecoveryInv PROVE RecoveryTypeOK
  OBVIOUS
<1>1. Typed
  BY DEF RecoveryInv
<1>2. frame.event \in 0 .. MaxEvents /\ frame.i \in 1 .. MaxCalls
      /\ frame.phase \in {"idle", "ready", "asked", "evidenced", "sent", "answered", "kept",
                          "recorded", "resent"}
  BY <1>1 DEF Typed, AnyFrame, Writing
<1>3. \A c \in Calls : told[c] \in {"nothing", "done", "unknown", "refused", "never", "high", "low"}
  BY <1>1 DEF Typed, Promised!Answers
<1> QED
  BY <1>1, <1>2, <1>3 DEF RecoveryTypeOK, Typed

LEMMA RecoveryInvSubmits == RecoveryInv => SubmittedOnce
<1> SUFFICES ASSUME RecoveryInv PROVE SubmittedOnce
  OBVIOUS
<1>1. PICK f : Kept(f[Len(diary)])
  BY DEF RecoveryInv, Consistent
<1>2. ASSUME NEW k \in 1 .. Len(diary), diary[k].kind = "io.call", diary[k].name # "send"
      PROVE  submitted[diary[k].call] <= 1
  BY <1>1, <1>2 DEF Kept, OfItem
<1> QED
  BY <1>2, RecoveryInvTypes DEF SubmittedOnce

(* Every step of the journal is a step of Submission, or none. *)
LEMMA RecordTells == ASSUME Typed, Refusal, NEW f, Consistent(f), Record PROVE Promised!Next
<1>1. frame.phase \in Writing /\ frame.phase \in {"answered", "kept"}
  BY DEF Record, Writing
<1>2. Call \in Calls /\ told[Call] = "nothing" /\ frame.answer \in Promised!Answers /\ Agrees(frame.answer, Call)
  BY <1>1, InFlight DEF Ahead
<1>3. told' = [told EXCEPT ![Call] = frame.answer] /\ effect' = effect
  BY DEF Record, Return, world
<1>4. Promised!Tell(Call, frame.answer)
  BY <1>2, <1>3 DEF Promised!Tell, Agrees
<1> QED
  BY <1>2, <1>4 DEF Promised!Next

LEMMA PerformsPerforms ==
  ASSUME Typed, NEW f, Consistent(f), NEW c \in Calls, Performs(c)
  PROVE  Promised!Next \/ UNCHANGED <<effect, told>>
<1>1. c \in pending /\ effect' = [effect EXCEPT ![c] = TRUE] /\ told' = told /\ effect \in [Calls -> BOOLEAN]
  BY DEF Performs, Typed
<1>2. CASE effect[c]
  <2>1. effect' = effect
    BY <1>1, <1>2
  <2> QED
    BY <1>1, <2>1
<1>3. CASE ~effect[c]
  <2>1. OfCall(c, f[Len(diary)])
    BY DEF Consistent, Worldly
  <2>2. told[c] \notin Promised!Undone
    BY <1>1, <2>1 DEF OfCall, Agrees
  <2>3. Promised!Perform(c)
    BY <1>1, <1>3, <2>2 DEF Promised!Perform
  <2> QED
    BY <2>3 DEF Promised!Next
<1> QED
  BY <1>2, <1>3

LEMMA RecoverySimulates == RecoveryInv /\ [Next]_vars => [Promised!Next]_<<effect, told>>
<1> SUFFICES ASSUME RecoveryInv, [Next]_vars PROVE Promised!Next \/ UNCHANGED <<effect, told>>
  OBVIOUS
<1>1. Typed /\ Refusal
  BY DEF RecoveryInv
<1>2. PICK f : Consistent(f)
  BY DEF RecoveryInv
<1>3. CASE Record
  BY <1>1, <1>2, <1>3, RecordTells
<1>4. CASE \E c \in Calls : Performs(c)
  BY <1>1, <1>2, <1>4, PerformsPerforms
<1>5. CASE ReplayResult
  BY <1>1, <1>2, <1>5, ReplayResultFacts DEF world
<1>6. CASE Begin \/ Ask \/ Refuse \/ Evidences \/ Keep \/ Checkpoint \/ Crash \/ Resume
  BY <1>6 DEF Begin, Ask, Refuse, Evidences, Keep, Checkpoint, Crash, Resume, world
<1>7. CASE Dispatch \/ Reply \/ SettleOrphan
  BY <1>7 DEF Dispatch, Reply, SettleOrphan, Submit, world
<1>8. CASE ReplayInput \/ ReplayAsk \/ ReplayEvidence \/ ReplyToResend \/ EndReplay
  BY <1>8 DEF ReplayInput, ReplayAsk, ReplayEvidence, ReplyToResend, EndReplay, world
<1>9. CASE UNCHANGED vars
  BY <1>9 DEF vars, world
<1> QED
  BY <1>3, <1>4, <1>5, <1>6, <1>7, <1>8, <1>9 DEF Next, Live, Replay

(* A resume never diverges: what the replayed program asks for next is what the *)
(* diary holds next (the check of RecoveryJournal.call and of _replay's inputs). *)
NeverDiverges ==
    up /\ Replaying =>
        \/ frame.phase = "idle" /\ NextItem.kind = "runtime.input"
        \/ frame.phase = "ready" /\ NextItem = Asked(Call, Name)
        \/ frame.phase = "recorded" /\ NextItem = Evidence(Call)
        \/ frame.phase = "recorded" /\ NextItem.kind = "io.result" /\ NextItem.call = Call

LEMMA RecoveryInvFollows == RecoveryInv => NeverDiverges
<1> SUFFICES ASSUME RecoveryInv, Replaying
             PROVE  \/ frame.phase = "idle" /\ NextItem.kind = "runtime.input"
                    \/ frame.phase = "ready" /\ NextItem = Asked(Call, Name)
                    \/ frame.phase = "recorded" /\ NextItem = Evidence(Call)
                    \/ frame.phase = "recorded" /\ NextItem.kind = "io.result" /\ NextItem.call = Call
  BY DEF NeverDiverges
<1>1. PICK f : Consistent(f)
  BY DEF RecoveryInv
<1>2. Takes(frame, NextItem, f[pos + 1]) /\ frame \in Frames
  BY <1>1, Where DEF RecoveryInv
<1>3. frame.phase # "idle" => Call = CallOf(frame) /\ Name = NameOf(frame)
  BY <1>2, SameCall
<1> QED
  BY <1>2, <1>3 DEF Takes, Result

(* The journal's types, for any plans and any number of events and crashes.  *)
THEOREM RecoveryTypeCorrect == Spec => []RecoveryTypeOK
  BY RecoveryInit, RecoveryStep, RecoveryInvTypes, PTL DEF Spec

(* No external write is submitted twice, whatever crashes and replays happen, *)
(* but a treasury leg that is safe to resend under its nonce.                 *)
THEOREM RecoverySubmitsOnce == Spec => []SubmittedOnce
  BY RecoveryInit, RecoveryStep, RecoveryInvSubmits, PTL DEF Spec

(* A resume is refused only for a write that nothing can settle: never for a  *)
(* recorded answer without its bytes, and never for a tail it cannot follow.  *)
THEOREM RecoveryRefusals == Spec => []OnlyUnsettledStops
<1>1. RecoveryInv => OnlyUnsettledStops
  BY DEF RecoveryInv, Refusal
<1> QED
  BY <1>1, RecoveryInit, RecoveryStep, PTL DEF Spec

(* The replay of a tail never meets an item that the program does not ask for. *)
THEOREM RecoveryNeverDiverges == Spec => []NeverDiverges
  BY RecoveryInit, RecoveryStep, RecoveryInvFollows, PTL DEF Spec

(* The journal implements Submission: the program is told one answer of each  *)
(* call, through every replay, and what it is told undone is never done.      *)
THEOREM RecoveryRefinement == Spec => AgreesWithWorld
<1>1. Init => Promised!Init
  BY DEF Init, Promised!Init
<1> QED
  BY <1>1, RecoveryInit, RecoveryStep, RecoverySimulates, PTL DEF Spec, AgreesWithWorld, Promised!Spec
================================================================================
