------------------------------ MODULE OrdersProofs ------------------------------
(***************************************************************************)
(* What holds of the venue orders and the consequence book for any plans,  *)
(* prices, fee and bounds: that no execution the fill cursor returned is   *)
(* lost, that a released return is over, that a return's owner is booked   *)
(* what it realised once, and that the market's P&L is credited once.      *)
(*                                                                         *)
(* The invariant, FullOK, relates four accounts of the same orders: what   *)
(* the venue executed, what the intents say of it, what the cursor read,   *)
(* and what the book applied, holds back or refused.  It is stated of its  *)
(* arguments, so that each operation has a lemma of its own (BookMoves,    *)
(* VenueMoves, AnswerIs, ReadIs, SettlesIs, ...) whatever step uses it.    *)
(*                                                                         *)
(* The money is an account of its own (MoneyOK): what the returns realised *)
(* less what their open lots cost is what the applied executions paid, but *)
(* for the wind-down's share.  A fill keeps it, whatever it closes, since  *)
(* a fee is a rate of what was traded and its shares are exact.            *)
(***************************************************************************)
EXTENDS Orders, Sums, FiniteSetTheorems, SequenceTheorems, TLAPS

(* The greatest of a set of naturals. *)
LEMMA MaxIs ==
  ASSUME NEW n \in Nat, NEW s \in SUBSET (0 .. n), s # {}
  PROVE  Max(s) \in s /\ \A y \in s : Max(s) >= y
<1> DEFINE T == {m \in Nat : \A y \in s : m >= y}
<1>1. T \in SUBSET Nat /\ n \in T
  OBVIOUS
<1>2. PICK m \in T : \A k \in T : m <= k
  BY <1>1, LeastElement
<1>3. m \in s
  <2> SUFFICES ASSUME m \notin s PROVE FALSE
    OBVIOUS
  <2>1. \A y \in s : y \in Nat /\ y # m /\ m >= y
    OBVIOUS
  <2>2. m # 0
    <3>1. PICK y \in s : y \in s
      OBVIOUS
    <3>2. y \in Nat /\ y # m /\ m >= y
      BY <2>1
    <3> QED
      BY <3>2
  <2>3. m - 1 \in Nat /\ \A y \in s : m - 1 >= y
    BY <2>1, <2>2
  <2>4. m <= m - 1
    BY <1>2, <2>3
  <2> QED
    BY <2>4
<1>4. \A y \in s : m >= y
  OBVIOUS
<1> QED
  BY <1>3, <1>4 DEF Max

(* The greatest of the first k + 1 and the others, which are among the first k. *)
LEMMA MaxRest ==
  ASSUME NEW k \in Nat, NEW s \in SUBSET (1 .. k + 1), s # {}
  PROVE  Max(s) \in s /\ s \ {Max(s)} \in SUBSET (1 .. k)
<1>1. s \in SUBSET (0 .. k + 1) /\ k + 1 \in Nat
  OBVIOUS
<1>2. PICK m : m = Max(s)
  OBVIOUS
<1>3. m \in s /\ \A y \in s : m >= y
  BY <1>1, <1>2, MaxIs
<1>4. \A y \in s \ {m} : y \in 1 .. k
  BY <1>3
<1> QED
  BY <1>2, <1>3, <1>4

(* The greatest of an interval from 1. *)
LEMMA MaxOfInterval ==
  ASSUME NEW k \in Nat, k > 0
  PROVE  Max(1 .. k) = k /\ (1 .. k) \ {k} = 1 .. k - 1
<1>1. 1 .. k \in SUBSET (0 .. k) /\ k \in 1 .. k
  OBVIOUS
<1>2. PICK m : m = Max(1 .. k)
  OBVIOUS
<1>3. m \in 1 .. k /\ m >= k
  BY <1>1, <1>2, MaxIs
<1> QED
  BY <1>2, <1>3

-----------------------------------------------------------------------------
(* The three recursions. *)

(* What a return owns of the lots is a recursion over the lots: it is defined up to any number of them, *)
OwnStep(t, h, g, s) ==
    IF s = {} THEN <<>>
    ELSE IF t.lots[Max(s)].owner = h THEN Append(g[s \ {Max(s)}], t.lots[Max(s)])
         ELSE g[s \ {Max(s)}]
OwnFold(t, h, n, g) == g = [s \in SUBSET (1 .. n) |-> OwnStep(t, h, g, s)]

(* LotsOf is the value of that recursion. *)
LEMMA OwnIs ==
  ASSUME NEW t, NEW h, NEW n, DOMAIN t.lots = 1 .. n
  PROVE  LotsOf(t, h) = (CHOOSE g : OwnFold(t, h, n, g))[1 .. n]
  BY DEF LotsOf, FoldLeft, MapThenFoldSet, OwnFold, OwnStep

(* Such a recursion exists. *)
LEMMA OwnUpTo ==
  ASSUME NEW t, NEW h, NEW n \in Nat
  PROVE  \E g : OwnFold(t, h, n, g)
<1> DEFINE N == {k \in Nat : \E g : OwnFold(t, h, k, g)}
<1>1. 0 \in N
  <2> DEFINE g == [s \in SUBSET (1 .. 0) |-> <<>>]
  <2>1. \A s \in SUBSET (1 .. 0) : s = {}
    OBVIOUS
  <2>2. OwnFold(t, h, 0, g)
    BY <2>1 DEF OwnStep, OwnFold
  <2> HIDE DEF g
  <2> QED
    BY <2>2
<1>2. ASSUME NEW k \in N PROVE k + 1 \in N
  <2>1. PICK g : OwnFold(t, h, k, g)
    OBVIOUS
  <2> DEFINE wider == [s \in SUBSET (1 .. k + 1) |-> OwnStep(t, h, g, s)]
  <2>2. k \in Nat
    OBVIOUS
  <2> HIDE DEF N
  <2>3. SUBSET (1 .. k) \subseteq SUBSET (1 .. k + 1)
    BY <2>2
  <2>4. \A s \in SUBSET (1 .. k) : wider[s] = g[s]
    BY <2>1, <2>3 DEF OwnFold
  <2>5. \A s \in SUBSET (1 .. k + 1) : s # {} => s \ {Max(s)} \in SUBSET (1 .. k)
    BY <2>2, MaxRest
  <2>6. \A s \in SUBSET (1 .. k + 1) : OwnStep(t, h, g, s) = OwnStep(t, h, wider, s)
    BY <2>4, <2>5 DEF OwnStep
  <2>7. OwnFold(t, h, k + 1, wider)
    BY <2>6 DEF OwnFold
  <2> HIDE DEF wider
  <2> QED
    BY <2>2, <2>7 DEF N
<1>3. N \in SUBSET Nat
  OBVIOUS
<1> HIDE DEF N
<1>4. n \in N
  BY <1>1, <1>2, <1>3, Induction
<1> QED
  BY <1>4 DEF N

(* and the first k of them give its k-th value. *)
OwnSteps(t, h, n, own) ==
    /\ own[0] = <<>>
    /\ \A k \in 1 .. n : own[k] = IF t.lots[k].owner = h THEN Append(own[k - 1], t.lots[k]) ELSE own[k - 1]

(* Its values step from one lot to the next. *)
LEMMA OwnRuns ==
  ASSUME NEW t, NEW h, NEW n \in Nat, DOMAIN t.lots = 1 .. n
  PROVE  \E own : OwnSteps(t, h, n, own) /\ own[n] = LotsOf(t, h)
<1>1. PICK g : g = CHOOSE x : OwnFold(t, h, n, x)
  OBVIOUS
<1>2. OwnFold(t, h, n, g)
  BY <1>1, OwnUpTo
<1>3. LotsOf(t, h) = g[1 .. n]
  BY <1>1, OwnIs
<1> DEFINE own == [k \in 0 .. n |-> g[1 .. k]]
<1>4. own[0] = <<>>
  <2>1. g[{}] = <<>>
    BY <1>2 DEF OwnFold, OwnStep
  <2>2. 1 .. 0 = {}
    OBVIOUS
  <2> QED
    BY <2>1, <2>2
<1>5. ASSUME NEW k \in 1 .. n PROVE own[k] = IF t.lots[k].owner = h THEN Append(own[k - 1], t.lots[k]) ELSE own[k - 1]
  <2>1. 1 .. k \in SUBSET (1 .. n) /\ 1 .. k # {} /\ k \in Nat /\ k \in 0 .. n /\ k - 1 \in 0 .. n
    OBVIOUS
  <2>2. Max(1 .. k) = k /\ (1 .. k) \ {k} = 1 .. k - 1
    BY <2>1, MaxOfInterval
  <2>3. g[1 .. k] = OwnStep(t, h, g, 1 .. k)
    BY <1>2, <2>1 DEF OwnFold
  <2>4. own[k] = g[1 .. k] /\ own[k - 1] = g[1 .. k - 1]
    BY <2>1
  <2> HIDE DEF own
  <2> QED
    BY <2>1, <2>2, <2>3, <2>4 DEF OwnStep
<1>6. own[n] = g[1 .. n]
  OBVIOUS
<1>7. OwnSteps(t, h, n, own)
  BY <1>4, <1>5 DEF OwnSteps
<1> HIDE DEF own
<1> QED
  BY <1>3, <1>6, <1>7

(* What a fill closes is a recursion over the lots: it is defined up to any number of them, *)
MetStep(t, f, owner, g, s) ==
    IF s = {} THEN Opposing(f)
    ELSE Meet(f, owner, g[s \ {Max(s)}], t.lots[Max(s)])
MetFold(t, f, owner, n, g) == g = [s \in SUBSET (1 .. n) |-> MetStep(t, f, owner, g, s)]

(* Closes is the value of that recursion. *)
LEMMA MetIs ==
  ASSUME NEW t, NEW f, NEW owner, NEW n, DOMAIN t.lots = 1 .. n
  PROVE  Closes(t, f, owner) = (CHOOSE g : MetFold(t, f, owner, n, g))[1 .. n]
  BY DEF Closes, FoldLeft, MapThenFoldSet, MetFold, MetStep

(* Such a recursion exists. *)
LEMMA MetUpTo ==
  ASSUME NEW t, NEW f, NEW owner, NEW n \in Nat
  PROVE  \E g : MetFold(t, f, owner, n, g)
<1> DEFINE N == {k \in Nat : \E g : MetFold(t, f, owner, k, g)}
<1>1. 0 \in N
  <2> DEFINE g == [s \in SUBSET (1 .. 0) |-> Opposing(f)]
  <2>1. \A s \in SUBSET (1 .. 0) : s = {}
    OBVIOUS
  <2>2. MetFold(t, f, owner, 0, g)
    BY <2>1 DEF MetStep, MetFold
  <2> HIDE DEF g
  <2> QED
    BY <2>2
<1>2. ASSUME NEW k \in N PROVE k + 1 \in N
  <2>1. PICK g : MetFold(t, f, owner, k, g)
    OBVIOUS
  <2> DEFINE wider == [s \in SUBSET (1 .. k + 1) |-> MetStep(t, f, owner, g, s)]
  <2>2. k \in Nat
    OBVIOUS
  <2> HIDE DEF N
  <2>3. SUBSET (1 .. k) \subseteq SUBSET (1 .. k + 1)
    BY <2>2
  <2>4. \A s \in SUBSET (1 .. k) : wider[s] = g[s]
    BY <2>1, <2>3 DEF MetFold
  <2>5. \A s \in SUBSET (1 .. k + 1) : s # {} => s \ {Max(s)} \in SUBSET (1 .. k)
    BY <2>2, MaxRest
  <2>6. \A s \in SUBSET (1 .. k + 1) : MetStep(t, f, owner, g, s) = MetStep(t, f, owner, wider, s)
    BY <2>4, <2>5 DEF MetStep
  <2>7. MetFold(t, f, owner, k + 1, wider)
    BY <2>6 DEF MetFold
  <2> HIDE DEF wider
  <2> QED
    BY <2>2, <2>7 DEF N
<1>3. N \in SUBSET Nat
  OBVIOUS
<1> HIDE DEF N
<1>4. n \in N
  BY <1>1, <1>2, <1>3, Induction
<1> QED
  BY <1>4 DEF N

(* and the first k of them give its k-th value. *)
MetSteps(t, f, owner, n, acc) ==
    /\ acc[0] = Opposing(f)
    /\ \A k \in 1 .. n : acc[k] = Meet(f, owner, acc[k - 1], t.lots[k])

(* Its values step from one lot to the next. *)
LEMMA MetRuns ==
  ASSUME NEW t, NEW f, NEW owner, NEW n \in Nat, DOMAIN t.lots = 1 .. n
  PROVE  \E acc : MetSteps(t, f, owner, n, acc) /\ acc[n] = Closes(t, f, owner)
<1>1. PICK g : g = CHOOSE x : MetFold(t, f, owner, n, x)
  OBVIOUS
<1>2. MetFold(t, f, owner, n, g)
  BY <1>1, MetUpTo
<1>3. Closes(t, f, owner) = g[1 .. n]
  BY <1>1, MetIs
<1> DEFINE acc == [k \in 0 .. n |-> g[1 .. k]]
<1>4. acc[0] = Opposing(f)
  <2>1. g[{}] = Opposing(f)
    BY <1>2 DEF MetFold, MetStep
  <2>2. 1 .. 0 = {}
    OBVIOUS
  <2> QED
    BY <2>1, <2>2
<1>5. ASSUME NEW k \in 1 .. n PROVE acc[k] = Meet(f, owner, acc[k - 1], t.lots[k])
  <2>1. 1 .. k \in SUBSET (1 .. n) /\ 1 .. k # {} /\ k \in Nat /\ k \in 0 .. n /\ k - 1 \in 0 .. n
    OBVIOUS
  <2>2. Max(1 .. k) = k /\ (1 .. k) \ {k} = 1 .. k - 1
    BY <2>1, MaxOfInterval
  <2>3. g[1 .. k] = MetStep(t, f, owner, g, 1 .. k)
    BY <1>2, <2>1 DEF MetFold
  <2>4. acc[k] = g[1 .. k] /\ acc[k - 1] = g[1 .. k - 1]
    BY <2>1
  <2> HIDE DEF acc
  <2> QED
    BY <2>1, <2>2, <2>3, <2>4 DEF MetStep
<1>6. acc[n] = g[1 .. n]
  OBVIOUS
<1>7. MetSteps(t, f, owner, n, acc)
  BY <1>4, <1>5 DEF MetSteps
<1> HIDE DEF acc
<1> QED
  BY <1>3, <1>6, <1>7

(* What a read or a replay does to the book is a recursion over the fills: it is defined up to any number of them, *)
IndexOf(fills, m) == [i \in DOMAIN fills |-> i][m]
EachOne(fills, chosen, before, i) ==
    IF i \in chosen THEN Observe(before, fills[i]) ELSE before
EachStep(b, fills, chosen, g, s) ==
    IF s = {} THEN b
    ELSE EachOne(fills, chosen, g[s \ {Max(s)}], IndexOf(fills, Max(s)))
EachFold(b, fills, chosen, n, g) == g = [s \in SUBSET (1 .. n) |-> EachStep(b, fills, chosen, g, s)]

(* ObserveEach is the value of that recursion. *)
LEMMA EachIs ==
  ASSUME NEW b, NEW fills, NEW chosen, NEW n, DOMAIN fills = 1 .. n
  PROVE  ObserveEach(b, fills, chosen) = (CHOOSE g : EachFold(b, fills, chosen, n, g))[1 .. n]
  BY DEF ObserveEach, FoldLeftDomain, FoldLeft, MapThenFoldSet, EachFold, EachStep, EachOne, IndexOf

(* Such a recursion exists. *)
LEMMA EachUpTo ==
  ASSUME NEW b, NEW fills, NEW chosen, NEW n \in Nat
  PROVE  \E g : EachFold(b, fills, chosen, n, g)
<1> DEFINE N == {k \in Nat : \E g : EachFold(b, fills, chosen, k, g)}
<1>1. 0 \in N
  <2> DEFINE g == [s \in SUBSET (1 .. 0) |-> b]
  <2>1. \A s \in SUBSET (1 .. 0) : s = {}
    OBVIOUS
  <2>2. EachFold(b, fills, chosen, 0, g)
    BY <2>1 DEF EachStep, EachFold
  <2> HIDE DEF g
  <2> QED
    BY <2>2
<1>2. ASSUME NEW k \in N PROVE k + 1 \in N
  <2>1. PICK g : EachFold(b, fills, chosen, k, g)
    OBVIOUS
  <2> DEFINE wider == [s \in SUBSET (1 .. k + 1) |-> EachStep(b, fills, chosen, g, s)]
  <2>2. k \in Nat
    OBVIOUS
  <2> HIDE DEF N
  <2>3. SUBSET (1 .. k) \subseteq SUBSET (1 .. k + 1)
    BY <2>2
  <2>4. \A s \in SUBSET (1 .. k) : wider[s] = g[s]
    BY <2>1, <2>3 DEF EachFold
  <2>5. \A s \in SUBSET (1 .. k + 1) : s # {} => s \ {Max(s)} \in SUBSET (1 .. k)
    BY <2>2, MaxRest
  <2>6. \A s \in SUBSET (1 .. k + 1) : EachStep(b, fills, chosen, g, s) = EachStep(b, fills, chosen, wider, s)
    BY <2>4, <2>5 DEF EachStep
  <2>7. EachFold(b, fills, chosen, k + 1, wider)
    BY <2>6 DEF EachFold
  <2> HIDE DEF wider
  <2> QED
    BY <2>2, <2>7 DEF N
<1>3. N \in SUBSET Nat
  OBVIOUS
<1> HIDE DEF N
<1>4. n \in N
  BY <1>1, <1>2, <1>3, Induction
<1> QED
  BY <1>4 DEF N

(* and the first k of them give its k-th value. *)
EachSteps(b, fills, chosen, n, after) ==
    /\ after[0] = b
    /\ \A k \in 1 .. n : after[k] = EachOne(fills, chosen, after[k - 1], k)

(* Its values step from one fill to the next. *)
LEMMA EachRuns ==
  ASSUME NEW b, NEW fills, NEW chosen, NEW n \in Nat, DOMAIN fills = 1 .. n
  PROVE  \E after : EachSteps(b, fills, chosen, n, after) /\ after[n] = ObserveEach(b, fills, chosen)
<1>1. PICK g : g = CHOOSE x : EachFold(b, fills, chosen, n, x)
  OBVIOUS
<1>2. EachFold(b, fills, chosen, n, g)
  BY <1>1, EachUpTo
<1>3. ObserveEach(b, fills, chosen) = g[1 .. n]
  BY <1>1, EachIs
<1> DEFINE after == [k \in 0 .. n |-> g[1 .. k]]
<1>4. after[0] = b
  <2>1. g[{}] = b
    BY <1>2 DEF EachFold, EachStep
  <2>2. 1 .. 0 = {}
    OBVIOUS
  <2> QED
    BY <2>1, <2>2
<1>5. ASSUME NEW k \in 1 .. n PROVE after[k] = EachOne(fills, chosen, after[k - 1], k)
  <2>1. 1 .. k \in SUBSET (1 .. n) /\ 1 .. k # {} /\ k \in Nat /\ k \in 0 .. n /\ k - 1 \in 0 .. n
    OBVIOUS
  <2>2. Max(1 .. k) = k /\ (1 .. k) \ {k} = 1 .. k - 1
    BY <2>1, MaxOfInterval
  <2>3. g[1 .. k] = EachStep(b, fills, chosen, g, 1 .. k)
    BY <1>2, <2>1 DEF EachFold
  <2>5. IndexOf(fills, k) = k
    BY DEF IndexOf
  <2>4. after[k] = g[1 .. k] /\ after[k - 1] = g[1 .. k - 1]
    BY <2>1
  <2> HIDE DEF after
  <2> QED
    BY <2>1, <2>2, <2>3, <2>4, <2>5 DEF EachStep
<1>6. after[n] = g[1 .. n]
  OBVIOUS
<1>7. EachSteps(b, fills, chosen, n, after)
  BY <1>4, <1>5 DEF EachSteps
<1> HIDE DEF after
<1> QED
  BY <1>3, <1>6, <1>7

-----------------------------------------------------------------------------
(* Totals, and sequences grown by one. *)
LEMMA TotalIs ==
  ASSUME NEW f, NEW S
  PROVE  Total(f, S) = SumOver(f, S)
  BY DEF Total, SumOver

(* A total of nothing. *)
LEMMA TotalNone ==
  ASSUME NEW f
  PROVE  Total(f, {}) = 0
  BY TotalIs, SumEmpty

(* A total of one more. *)
LEMMA TotalAdd ==
  ASSUME NEW f, NEW S, IsFiniteSet(S), \A x \in S : f[x] \in Int,
         NEW s \in SUBSET S, NEW x \in S, x \notin s
  PROVE  Total(f, s \cup {x}) = Total(f, s) + f[x] /\ Total(f, s) \in Int
<1>1. IsFiniteSet(s)
  BY FS_Subset
<1>2. SumOver(f, s) \in Int
  BY <1>1, SumIsInt
<1> QED
  BY <1>2, TotalIs, SumAdd

(* A total of whole numbers is one. *)
LEMMA TotalInt ==
  ASSUME NEW f, NEW S, IsFiniteSet(S), \A x \in S : f[x] \in Int
  PROVE  Total(f, S) \in Int
  BY TotalIs, SumIsInt

(* Only the values on the set count. *)
LEMMA TotalSame ==
  ASSUME NEW f, NEW g, NEW S, IsFiniteSet(S), \A x \in S : f[x] \in Int /\ g[x] = f[x]
  PROVE  Total(g, S) = Total(f, S)
  BY TotalIs, SumSame

(* Part of what is counted is less than all of it, and less by what is left out. *)
LEMMA TotalPart ==
  ASSUME NEW f, NEW S, IsFiniteSet(S), \A x \in S : f[x] \in Nat, NEW s \in SUBSET S
  PROVE  /\ Total(f, s) \in Nat /\ Total(f, S) \in Nat /\ Total(f, s) <= Total(f, S)
         /\ \A x \in S \ s : Total(f, s) + f[x] <= Total(f, S)
<1>1. ASSUME NEW r \in SUBSET S PROVE Total(f, r) \in Nat
  <2>1. IsFiniteSet(r) /\ \A x \in r : f[x] \in Nat
    BY FS_Subset
  <2> QED
    BY <2>1, TotalIs, SumPositive
<1>2. ASSUME NEW r \in SUBSET S PROVE Total(f, r) <= Total(f, S)
  <2> DEFINE P == {u \in SUBSET S : Total(f, r) <= Total(f, r \cup u)}
  <2>1. {} \in P
    <3>1. r \cup {} = r /\ Total(f, r) \in Nat
      BY <1>1
    <3> QED
      BY <3>1
  <2>2. ASSUME NEW u \in SUBSET S, u \in P, NEW x \in S \ u PROVE u \cup {x} \in P
    <3>1. Total(f, r) <= Total(f, r \cup u) /\ r \cup u \in SUBSET S /\ r \cup (u \cup {x}) \in SUBSET S
      BY <2>2
    <3>2. CASE x \in r
      <4>1. r \cup (u \cup {x}) = r \cup u
        BY <3>2
      <4> QED
        BY <3>1, <4>1
    <3>3. CASE x \notin r
      <4>0. \A y \in S : f[y] \in Int
        OBVIOUS
      <4>1. r \cup (u \cup {x}) = (r \cup u) \cup {x} /\ x \notin r \cup u
        BY <3>3
      <4>2. Total(f, (r \cup u) \cup {x}) = Total(f, r \cup u) + f[x]
        BY <3>1, <4>0, <4>1, TotalAdd
      <4>3. Total(f, r) \in Nat /\ Total(f, r \cup u) \in Nat /\ f[x] \in Nat
        BY <1>1, <3>1
      <4>5. Total(f, r) <= Total(f, (r \cup u) \cup {x})
        <5> HIDE DEF P
        <5> QED
          BY <3>1, <4>2, <4>3
      <4>4. Total(f, r) <= Total(f, r \cup (u \cup {x}))
        BY <4>1, <4>5
      <4> QED
        BY <4>4
    <3> QED
      BY <3>2, <3>3
  <2> HIDE DEF P
  <2>3. S \in P
    BY <2>1, <2>2, SetInduction
  <2>4. r \cup S = S
    OBVIOUS
  <2> QED
    BY <2>3, <2>4 DEF P
<1>3. ASSUME NEW x \in S \ s PROVE Total(f, s) + f[x] <= Total(f, S)
  <2>1. s \cup {x} \in SUBSET S /\ x \in S /\ x \notin s
    OBVIOUS
  <2>2. Total(f, s \cup {x}) = Total(f, s) + f[x]
    BY <2>1, TotalAdd
  <2> QED
    BY <1>2, <2>1, <2>2
<1> QED
  BY <1>1, <1>2, <1>3

(* A sequence grown by one has its elements, and the new one. *)
LEMMA AppendIs ==
  ASSUME NEW A, NEW s \in Seq(A), NEW f \in A
  PROVE  /\ Append(s, f) \in Seq(A) /\ DOMAIN s = 1 .. Len(s) /\ Len(s) \in Nat
         /\ DOMAIN Append(s, f) = 1 .. Len(s) + 1 /\ Append(s, f)[Len(s) + 1] = f
         /\ \A i \in DOMAIN s : Append(s, f)[i] = s[i] /\ i \in DOMAIN Append(s, f) /\ i # Len(s) + 1
         /\ \A i \in DOMAIN Append(s, f) : i \in DOMAIN s \/ i = Len(s) + 1
  OBVIOUS

(* What a sequence grown by one holds. *)
LEMMA AppendIn ==
  ASSUME NEW A, NEW s \in Seq(A), NEW f \in A, NEW g
  PROVE  IsIn(g, Append(s, f)) <=> IsIn(g, s) \/ g = f
<1>1. IsIn(g, s) \/ g = f => IsIn(g, Append(s, f))
  BY AppendIs DEF IsIn
<1>2. IsIn(g, Append(s, f)) => IsIn(g, s) \/ g = f
  <2> SUFFICES ASSUME NEW i \in DOMAIN Append(s, f), Append(s, f)[i] = g PROVE IsIn(g, s) \/ g = f
    BY DEF IsIn
  <2>1. i \in DOMAIN s \/ i = Len(s) + 1
    BY AppendIs
  <2> QED
    BY <2>1, AppendIs DEF IsIn
<1> QED
  BY <1>1, <1>2

(* Nothing is in the empty sequence. *)
LEMMA InNone ==
  ASSUME NEW g
  PROVE  ~IsIn(g, <<>>)
  BY DEF IsIn

(* The indices of a sequence. *)
LEMMA FiniteDomain ==
  ASSUME NEW A, NEW s \in Seq(A)
  PROVE  IsFiniteSet(DOMAIN s) /\ DOMAIN s = 1 .. Len(s) /\ Len(s) \in Nat /\ \A i \in DOMAIN s : s[i] \in A
  BY FS_Interval

-----------------------------------------------------------------------------
(* The book's types. *)

FillSet == [order : OrderIds, at : Int, buy : BOOLEAN, size : Nat \ {0}, px : Nat \ {0}, fee : Int]
LotSet == [owner : Returns, buy : BOOLEAN, size : Nat \ {0}, px : Nat \ {0}, charges : Int]
PayoffSet == [fixed : BOOLEAN, net : Int, marked : BOOLEAN, censored : BOOLEAN]
AccountSet == [state : {"none", "open", "released"}, opened : Int, finished : BOOLEAN, realized : Int,
               late : Int, payoff : PayoffSet]
OrderSet == [owner : Returns \cup {Nobody, WindDown}, remaining : Int, ordered : Int, executed : Int,
             confirmed : Int]
TableSet == [lots : Seq(LotSet), accounts : [Returns -> AccountSet], orders : [OrderIds -> OrderSet]]
EntrySet == [at : Int, lots : Seq(LotSet), changed : BOOLEAN, realized : Int]
MarkSet == [at : Int, px : Int]
BookSet == [table : TableSet, pending : SUBSET Writes, unresolved : SUBSET Writes,
            deferred : Seq(FillSet), history : [Returns -> Seq(EntrySet)], filled : Seq(FillSet),
            refused : SUBSET FillSet, latest : Int, tainted : Int, reordered : SUBSET Returns,
            marks : [Returns -> MarkSet]]

(* Nobody and the wind-down are no returns. *)
LEMMA Accounts ==
  /\ Nobody \notin Returns /\ WindDown \notin Returns /\ Nobody # WindDown /\ Returns \subseteq Nat
  /\ Nobody \in Int /\ WindDown \in Int
  BY LotsAssumption DEF Nobody, WindDown

(* What a return owns of the lots: lots, and none only if it owns none. *)
LEMMA OwnIsLots ==
  ASSUME NEW t, t.lots \in Seq(LotSet), NEW h
  PROVE  /\ LotsOf(t, h) \in Seq(LotSet)
         /\ LotsOf(t, h) = <<>> => \A i \in DOMAIN t.lots : t.lots[i].owner # h
<1> DEFINE n == Len(t.lots)
<1>1. n \in Nat /\ DOMAIN t.lots = 1 .. n /\ \A i \in DOMAIN t.lots : t.lots[i] \in LotSet
  OBVIOUS
<1> HIDE DEF n
<1>2. PICK own : OwnSteps(t, h, n, own) /\ own[n] = LotsOf(t, h)
  BY <1>1, OwnRuns
<1> DEFINE Good(k) == k <= n => /\ own[k] \in Seq(LotSet)
                                /\ own[k] = <<>> => \A i \in 1 .. k : t.lots[i].owner # h
           N == {k \in Nat : Good(k)}
<1>3. 0 \in N
  <2>1. own[0] = <<>> /\ <<>> \in Seq(LotSet)
    BY <1>2 DEF OwnSteps
  <2>2. \A i \in 1 .. 0 : t.lots[i].owner # h
    OBVIOUS
  <2> QED
    BY <2>1, <2>2
<1>4. ASSUME NEW k \in N PROVE k + 1 \in N
  <2> SUFFICES ASSUME k + 1 <= n PROVE Good(k + 1)
    OBVIOUS
  <2>1. k \in Nat /\ k <= n /\ Good(k) /\ k + 1 \in 1 .. n /\ (k + 1) - 1 = k
    BY <1>1
  <2>2. own[k + 1] = IF t.lots[k + 1].owner = h THEN Append(own[k], t.lots[k + 1]) ELSE own[k]
    BY <1>2, <2>1 DEF OwnSteps
  <2>3. t.lots[k + 1] \in LotSet /\ own[k] \in Seq(LotSet)
    BY <1>1, <2>1
  <2>4. CASE t.lots[k + 1].owner = h
    <3>1. own[k + 1] = Append(own[k], t.lots[k + 1])
      BY <2>2, <2>4
    <3>2. own[k + 1] \in Seq(LotSet) /\ own[k + 1] # <<>>
      <4>1. DOMAIN own[k + 1] = 1 .. Len(own[k]) + 1 /\ Len(own[k]) \in Nat /\ own[k + 1] \in Seq(LotSet)
        BY <2>3, <3>1, AppendIs
      <4>2. 1 \in DOMAIN own[k + 1]
        BY <4>1
      <4> QED
        BY <4>1, <4>2
    <3> QED
      BY <3>2
  <2>5. CASE t.lots[k + 1].owner # h
    <3>1. own[k + 1] = own[k]
      BY <2>2, <2>5
    <3>2. \A i \in 1 .. k + 1 : i \in 1 .. k \/ i = k + 1
      BY <2>1
    <3> QED
      BY <2>1, <2>3, <2>5, <3>1, <3>2
  <2> QED
    BY <2>4, <2>5
<1>5. N \in SUBSET Nat
  OBVIOUS
<1>6. n \in N
  <2> HIDE DEF N
  <2> QED
    BY <1>1, <1>3, <1>4, <1>5, Induction
<1> QED
  BY <1>1, <1>2, <1>6

-----------------------------------------------------------------------------
(* A fill: what it does to the lots and to what the returns realised. *)

Owners(lots) == {lots[i].owner : i \in DOMAIN lots}
AccSet == [left : Nat, lots : Seq(LotSet), credit : [Returns -> Int], closer : Int]

(* A quotient is a whole number. *)
LEMMA DivInt ==
  ASSUME NEW a \in Int, NEW d \in Nat \ {0}
  PROVE  a \div d \in Int
  OBVIOUS

(* A product is a whole number. *)
LEMMA TimesInt ==
  ASSUME NEW a \in Int, NEW d \in Int
  PROVE  a * d \in Int
  OBVIOUS

(* What is closed of a lot, and what is left of it and of the fill. *)
LEMMA LeastOf ==
  ASSUME NEW a \in Nat, NEW d \in Nat \ {0}
  PROVE  /\ Least(a, d) \in Nat /\ a - Least(a, d) \in Nat
         /\ Least(a, d) # d => d - Least(a, d) \in Nat \ {0}
  BY DEF Least

(* What a lot that is met changes, in one record.                     *)
NetOf(f, owner, acc, lot) ==
    LET kernel  == owner = WindDown
        closed  == Least(acc.left, lot.size)
        pnl     == (f.px - lot.px) * closed * Sign(lot.buy) * Scale
        closer  == IF owner = lot.owner \/ kernel THEN 0
                   ELSE (pnl * f.px) \div (lot.px + f.px)
        charges == (lot.charges * closed) \div lot.size
        fee     == (f.fee * Scale * closed) \div f.size
        net     == pnl - closer - CloseCost(kernel, charges, fee)
    IN [net |-> net, closer |-> closer - fee, charges |-> charges]

(* The shares of a closed quantity are whole numbers. *)
LEMMA NetIsInt ==
  ASSUME NEW f \in FillSet, NEW owner, NEW acc \in AccSet, NEW lot \in LotSet
  PROVE  /\ NetOf(f, owner, acc, lot).net \in Int
         /\ NetOf(f, owner, acc, lot).closer \in Int
         /\ NetOf(f, owner, acc, lot).charges \in Int
<1> DEFINE closed == Least(acc.left, lot.size)
           pnl == (f.px - lot.px) * closed * Sign(lot.buy) * Scale
           split == (pnl * f.px) \div (lot.px + f.px)
           closer == IF owner = lot.owner \/ owner = WindDown THEN 0 ELSE split
           charges == (lot.charges * closed) \div lot.size
           fee == (f.fee * Scale * closed) \div f.size
<1>1. f.px \in Nat \ {0} /\ f.size \in Nat \ {0} /\ f.fee \in Int
      /\ lot.px \in Nat \ {0} /\ lot.size \in Nat \ {0} /\ lot.charges \in Int /\ lot.buy \in BOOLEAN
      /\ acc.left \in Nat
  BY DEF FillSet, LotSet, AccSet
<1>2. closed \in Int
  BY <1>1, LeastOf
<1>3. Sign(lot.buy) \in Int /\ Scale \in Int
  BY <1>1 DEF Sign, Scale
<1> HIDE DEF closed
<1>4. pnl \in Int
  <2>1. f.px - lot.px \in Int
    BY <1>1
  <2>2. (f.px - lot.px) * closed \in Int
    BY <1>2, <2>1, TimesInt
  <2>3. (f.px - lot.px) * closed * Sign(lot.buy) \in Int
    BY <1>3, <2>2, TimesInt
  <2> QED
    BY <1>3, <2>3, TimesInt
<1>5. split \in Int
  <2>1. lot.px + f.px \in Nat \ {0} /\ f.px \in Int
    BY <1>1
  <2> HIDE DEF pnl
  <2>2. pnl * f.px \in Int
    BY <1>4, <2>1, TimesInt
  <2> QED
    BY <2>1, <2>2, DivInt
<1>6. charges \in Int
  BY <1>1, <1>2, TimesInt, DivInt
<1>7. fee \in Int
  <2>1. f.fee * Scale \in Int
    BY <1>1, <1>3, TimesInt
  <2>2. f.fee * Scale * closed \in Int
    BY <1>2, <2>1, TimesInt
  <2> QED
    BY <1>1, <2>2, DivInt
<1> HIDE DEF pnl, split, charges, fee
<1>8. closer \in Int
  BY <1>5
<1>9. CloseCost(owner = WindDown, charges, fee) \in Int
  BY <1>6, <1>7 DEF CloseCost
<1> HIDE DEF closer
<1>10. pnl - closer - CloseCost(owner = WindDown, charges, fee) \in Int /\ closer - fee \in Int
  BY <1>4, <1>7, <1>8, <1>9
<1> QED
  BY <1>6, <1>10 DEF NetOf, closed, pnl, split, charges, fee, closer
(* What is left of a lot that is partly closed.                       *)
LEMMA LotRest ==
  ASSUME NEW lot \in LotSet, NEW closed, NEW charges \in Int, lot.size - closed \in Nat \ {0}
  PROVE  /\ [lot EXCEPT !.size = @ - closed, !.charges = @ - charges] \in LotSet
         /\ [lot EXCEPT !.size = @ - closed, !.charges = @ - charges].owner = lot.owner
<1>1. PICK size : size = lot.size - closed
  OBVIOUS
<1>2. PICK left \in Int : left = lot.charges - charges
  BY DEF LotSet
<1>3. [lot EXCEPT !.size = size, !.charges = left] \in LotSet
      /\ [lot EXCEPT !.size = size, !.charges = left].owner = lot.owner
  BY <1>1, <1>2 DEF LotSet
<1> QED
  BY <1>1, <1>2, <1>3

(* Meeting a lot: the lots stay lots, and only its owner is credited.  *)
LEMMA MeetIs ==
  ASSUME NEW f \in FillSet, NEW owner, NEW acc \in AccSet, NEW lot \in LotSet
  PROVE  /\ Meet(f, owner, acc, lot) \in AccSet
         /\ \A h \in Returns : h # lot.owner => Meet(f, owner, acc, lot).credit[h] = acc.credit[h]
         /\ Owners(Meet(f, owner, acc, lot).lots) \subseteq Owners(acc.lots) \cup {lot.owner}
<1> DEFINE met == Meet(f, owner, acc, lot)
           closed == Least(acc.left, lot.size)
           some == NetOf(f, owner, acc, lot)
           rest == [lot EXCEPT !.size = @ - closed, !.charges = @ - some.charges]
<1>1. lot.owner \in Returns /\ lot.size \in Nat \ {0} /\ acc.left \in Nat /\ acc.lots \in Seq(LotSet)
      /\ acc.credit \in [Returns -> Int] /\ acc.closer \in Int /\ lot.charges \in Int
  BY DEF LotSet, AccSet
<1>2. acc.left - closed \in Nat /\ (closed # lot.size => lot.size - closed \in Nat \ {0})
  BY <1>1, LeastOf
<1>3. some.net \in Int /\ some.closer \in Int /\ some.charges \in Int
  BY NetIsInt
<1>4. ASSUME NEW x \in LotSet
      PROVE  Append(acc.lots, x) \in Seq(LotSet) /\ Owners(Append(acc.lots, x)) \subseteq Owners(acc.lots) \cup {x.owner}
  BY <1>1, AppendIs DEF Owners
<1>5. CASE acc.left = 0 \/ lot.buy = f.buy
  <2>1. met = [acc EXCEPT !.lots = Append(acc.lots, lot)]
    BY <1>5 DEF Meet
  <2>2. Append(acc.lots, lot) \in Seq(LotSet) /\ Owners(Append(acc.lots, lot)) \subseteq Owners(acc.lots) \cup {lot.owner}
    BY <1>4
  <2> HIDE DEF met
  <2>3. met \in AccSet /\ met.lots = Append(acc.lots, lot) /\ met.credit = acc.credit
    BY <2>1, <2>2 DEF AccSet
  <2> QED
    BY <2>2, <2>3 DEF met
<1>6. CASE ~(acc.left = 0 \/ lot.buy = f.buy)
  <2>1. met = [left   |-> acc.left - closed,
               lots   |-> IF closed = lot.size THEN acc.lots ELSE Append(acc.lots, rest),
               credit |-> [acc.credit EXCEPT ![lot.owner] = @ + some.net],
               closer |-> acc.closer + some.closer]
    BY <1>6 DEF Meet, NetOf
  <2> HIDE DEF met, some, closed
  <2>2. closed # lot.size => rest \in LotSet /\ rest.owner = lot.owner
    BY <1>2, <1>3, LotRest
  <2> HIDE DEF rest
  <2>3. met.lots = (IF closed = lot.size THEN acc.lots ELSE Append(acc.lots, rest))
        /\ met.credit = [acc.credit EXCEPT ![lot.owner] = @ + some.net]
    BY <2>1
  <2>4. met.lots \in Seq(LotSet) /\ Owners(met.lots) \subseteq Owners(acc.lots) \cup {lot.owner}
    BY <1>1, <1>4, <2>2, <2>3
  <2>5. met.credit \in [Returns -> Int] /\ \A h \in Returns : h # lot.owner => met.credit[h] = acc.credit[h]
    BY <1>1, <1>3, <2>3
  <2>6. met.left = acc.left - closed /\ met.closer = acc.closer + some.closer
    BY <2>1
  <2>7. acc.closer + some.closer \in Int
    BY <1>1, <1>3
  <2>8. met = [left |-> met.left, lots |-> met.lots, credit |-> met.credit, closer |-> met.closer]
    BY <2>1
  <2>9. met.left \in Nat /\ met.closer \in Int
    BY <1>2, <2>6, <2>7
  <2>10. met \in AccSet
    BY <2>4, <2>5, <2>8, <2>9 DEF AccSet
  <2> QED
    BY <2>4, <2>5, <2>10 DEF met
<1> QED
  BY <1>5, <1>6

(* Closing against the lots: they stay lots of the same owners, and only owners are credited. *)
LEMMA ClosesIs ==
  ASSUME NEW t, t.lots \in Seq(LotSet), NEW f \in FillSet, NEW owner
  PROVE  /\ Closes(t, f, owner) \in AccSet
         /\ \A h \in Returns : h \notin Owners(t.lots) => Closes(t, f, owner).credit[h] = 0
         /\ Owners(Closes(t, f, owner).lots) \subseteq Owners(t.lots)
<1> DEFINE n == Len(t.lots)
<1>1. n \in Nat /\ DOMAIN t.lots = 1 .. n /\ \A i \in DOMAIN t.lots : t.lots[i] \in LotSet
  OBVIOUS
<1> HIDE DEF n
<1>2. PICK acc : MetSteps(t, f, owner, n, acc) /\ acc[n] = Closes(t, f, owner)
  BY <1>1, MetRuns
<1> DEFINE Good(a) == /\ a \in AccSet
                      /\ \A h \in Returns : h \notin Owners(t.lots) => a.credit[h] = 0
                      /\ Owners(a.lots) \subseteq Owners(t.lots)
           N == {k \in Nat : k <= n => Good(acc[k])}
<1>3. 0 \in N
  <2>1. acc[0] = Opposing(f)
    BY <1>2 DEF MetSteps
  <2>2. Opposing(f) \in AccSet /\ Opposing(f).lots = <<>> /\ \A h \in Returns : Opposing(f).credit[h] = 0
    BY DEF Opposing, AccSet, FillSet
  <2>3. Owners(<<>>) = {}
    BY DEF Owners
  <2> QED
    BY <2>1, <2>2, <2>3
<1>4. ASSUME NEW k \in N PROVE k + 1 \in N
  <2> SUFFICES ASSUME k + 1 <= n PROVE Good(acc[k + 1])
    OBVIOUS
  <2>1. k \in Nat /\ k <= n /\ Good(acc[k]) /\ k + 1 \in 1 .. n /\ (k + 1) - 1 = k
    BY <1>1
  <2>2. acc[k + 1] = Meet(f, owner, acc[k], t.lots[k + 1])
    BY <1>2, <2>1 DEF MetSteps
  <2>3. PICK lot, before : lot = t.lots[k + 1] /\ before = acc[k]
    OBVIOUS
  <2>4. lot \in LotSet /\ before \in AccSet /\ lot.owner \in Owners(t.lots)
    BY <1>1, <2>1, <2>3 DEF Owners
  <2>5. /\ Meet(f, owner, before, lot) \in AccSet
        /\ \A h \in Returns : h # lot.owner => Meet(f, owner, before, lot).credit[h] = before.credit[h]
        /\ Owners(Meet(f, owner, before, lot).lots) \subseteq Owners(before.lots) \cup {lot.owner}
    BY <2>4, MeetIs
  <2>6. Good(before)
    BY <2>1, <2>3
  <2>7. Good(Meet(f, owner, before, lot))
    BY <2>4, <2>5, <2>6
  <2> QED
    BY <2>2, <2>3, <2>7
<1>5. N \in SUBSET Nat
  OBVIOUS
<1>6. n \in N
  <2> HIDE DEF N
  <2> QED
    BY <1>1, <1>3, <1>4, <1>5, Induction
<1> QED
  BY <1>1, <1>2, <1>6

(* What a fill leaves of an account and of an order. *)
SameStanding(a, b) ==
    /\ b.state = a.state /\ b.opened = a.opened /\ b.finished = a.finished
    /\ b.late = a.late /\ b.payoff = a.payoff
SameTerms(o, p) == p.owner = o.owner /\ p.ordered = o.ordered /\ p.confirmed = o.confirmed

(* The caller is paid for what it closes, the wind-down is not. *)
PaidTo(met, owner) == IF owner = WindDown THEN met.credit ELSE [met.credit EXCEPT ![owner] = @ + met.closer]

(* Only a lot's owner and the caller are credited. *)
LEMMA PaidIs ==
  ASSUME NEW met \in AccSet, NEW owner \in Returns \cup {WindDown}
  PROVE  /\ PaidTo(met, owner) \in [Returns -> Int]
         /\ \A h \in Returns : h # owner => PaidTo(met, owner)[h] = met.credit[h]
<1>1. met.credit \in [Returns -> Int] /\ met.closer \in Int
  BY DEF AccSet
<1>2. CASE owner = WindDown
  BY <1>1, <1>2, Accounts DEF PaidTo
<1>3. CASE owner # WindDown
  <2>1. owner \in Returns /\ PaidTo(met, owner) = [met.credit EXCEPT ![owner] = @ + met.closer]
    BY <1>3 DEF PaidTo
  <2>2. met.credit[owner] + met.closer \in Int
    BY <1>1, <2>1
  <2> QED
    BY <1>1, <2>1, <2>2
<1> QED
  BY <1>2, <1>3

FillLeaves(t, f, d) ==
    /\ d \in TableSet
    /\ Owners(d.lots) \subseteq Owners(t.lots) \cup ({t.orders[f.order].owner} \cap Returns)
    /\ \A h \in Returns :
         /\ SameStanding(t.accounts[h], d.accounts[h])
         /\ h \notin Owners(t.lots) \cup {t.orders[f.order].owner} => d.accounts[h].realized = t.accounts[h].realized
    /\ \A c \in OrderIds :
         /\ SameTerms(t.orders[c], d.orders[c])
         /\ c # f.order => d.orders[c] = t.orders[c]
    /\ d.orders[f.order].executed = t.orders[f.order].executed + f.size

(* A fill of a bound order changes lots, what their owners and its own realised, and its order. *)
LEMMA FillIs ==
  ASSUME NEW t \in TableSet, NEW f \in FillSet, t.orders[f.order].owner # Nobody
  PROVE  FillLeaves(t, f, Fill(t, f))
<1>1. PICK owner : owner = t.orders[f.order].owner
  OBVIOUS
<1>2. f.order \in OrderIds /\ f.buy \in BOOLEAN /\ f.size \in Nat \ {0} /\ f.px \in Nat \ {0} /\ f.fee \in Int
  BY DEF FillSet
<1>3. t.lots \in Seq(LotSet) /\ t.accounts \in [Returns -> AccountSet] /\ t.orders \in [OrderIds -> OrderSet]
  BY DEF TableSet
<1>4. owner \in Returns \cup {WindDown}
  BY <1>1, <1>2, <1>3 DEF OrderSet
<1>5. PICK met : met = Closes(t, f, owner)
  OBVIOUS
<1>6. met \in AccSet /\ (\A h \in Returns : h \notin Owners(t.lots) => met.credit[h] = 0)
      /\ Owners(met.lots) \subseteq Owners(t.lots)
  <2>1. /\ Closes(t, f, owner) \in AccSet
        /\ \A h \in Returns : h \notin Owners(t.lots) => Closes(t, f, owner).credit[h] = 0
        /\ Owners(Closes(t, f, owner).lots) \subseteq Owners(t.lots)
    BY <1>3, ClosesIs
  <2> QED
    BY <1>5, <2>1
<1>7. PICK credit : credit = PaidTo(met, owner)
  OBVIOUS
<1>8. credit \in [Returns -> Int] /\ \A h \in Returns : h # owner => credit[h] = met.credit[h]
  BY <1>4, <1>6, <1>7, PaidIs
<1>9. PICK charges : charges = (f.fee * Scale * met.left) \div f.size
  OBVIOUS
<1>10. charges \in Int
  <2>1. met.left \in Int /\ Scale \in Int
    BY <1>6 DEF AccSet, Scale
  <2>2. f.fee * Scale \in Int
    BY <1>2, <2>1, TimesInt
  <2>3. f.fee * Scale * met.left \in Int
    BY <2>1, <2>2, TimesInt
  <2> QED
    BY <1>2, <1>9, <2>3, DivInt
<1> DEFINE opened == [owner |-> owner, buy |-> f.buy, size |-> met.left, px |-> f.px, charges |-> charges]
           lots == IF met.left = 0 \/ owner = WindDown THEN met.lots ELSE Append(met.lots, opened)
           accounts == [h \in Returns |-> [t.accounts[h] EXCEPT !.realized = @ + credit[h]]]
           orders == [t.orders EXCEPT ![f.order].remaining = IF @ > f.size THEN @ - f.size ELSE 0,
                                      ![f.order].executed = @ + f.size]
<1>11. Fill(t, f) = [lots |-> lots, accounts |-> accounts, orders |-> orders]
  BY <1>1, <1>5, <1>7, <1>9 DEF Fill, PaidTo
<1>12. lots \in Seq(LotSet) /\ Owners(lots) \subseteq Owners(t.lots) \cup ({owner} \cap Returns)
  <2>1. met.lots \in Seq(LotSet) /\ met.left \in Nat
    BY <1>6 DEF AccSet
  <2>2. CASE met.left = 0 \/ owner = WindDown
    BY <1>6, <2>1, <2>2
  <2>3. CASE ~(met.left = 0 \/ owner = WindDown)
    <3>1. opened \in LotSet /\ opened.owner = owner /\ owner \in Returns
      BY <1>2, <1>4, <1>10, <2>1, <2>3 DEF LotSet
    <3> HIDE DEF opened
    <3>2. lots = Append(met.lots, opened)
      BY <2>3
    <3> HIDE DEF lots
    <3>3. Append(met.lots, opened) \in Seq(LotSet)
          /\ Owners(Append(met.lots, opened)) \subseteq Owners(met.lots) \cup {opened.owner}
      BY <2>1, <3>1, AppendIs DEF Owners
    <3> QED
      BY <1>6, <3>1, <3>2, <3>3
  <2> QED
    BY <2>2, <2>3
<1>13. accounts \in [Returns -> AccountSet]
       /\ \A h \in Returns : /\ SameStanding(t.accounts[h], accounts[h])
                             /\ accounts[h].realized = t.accounts[h].realized + credit[h]
  <2> SUFFICES ASSUME NEW h \in Returns
               PROVE  /\ accounts[h] \in AccountSet /\ SameStanding(t.accounts[h], accounts[h])
                      /\ accounts[h].realized = t.accounts[h].realized + credit[h]
    OBVIOUS
  <2>1. PICK a : a = t.accounts[h]
    OBVIOUS
  <2>2. a \in AccountSet /\ credit[h] \in Int
    BY <1>3, <1>8, <2>1
  <2>3. PICK r \in Int : r = a.realized + credit[h]
    BY <2>2 DEF AccountSet
  <2>4. accounts[h] = [a EXCEPT !.realized = r]
    BY <2>1, <2>3
  <2> HIDE DEF accounts
  <2> QED
    BY <2>1, <2>2, <2>3, <2>4 DEF AccountSet, SameStanding
<1>14. /\ orders \in [OrderIds -> OrderSet]
       /\ \A c \in OrderIds : SameTerms(t.orders[c], orders[c]) /\ (c # f.order => orders[c] = t.orders[c])
       /\ orders[f.order].executed = t.orders[f.order].executed + f.size
  <2>1. PICK o : o = t.orders[f.order]
    OBVIOUS
  <2>2. o \in OrderSet
    BY <1>2, <1>3, <2>1
  <2>3. PICK left \in Int : left = IF o.remaining > f.size THEN o.remaining - f.size ELSE 0
    BY <1>2, <2>2 DEF OrderSet
  <2>4. PICK done \in Int : done = o.executed + f.size
    BY <1>2, <2>2 DEF OrderSet
  <2>5. orders = [t.orders EXCEPT ![f.order] = [o EXCEPT !.remaining = left, !.executed = done]]
    BY <1>2, <1>3, <2>1, <2>2, <2>3, <2>4 DEF OrderSet
  <2> HIDE DEF orders
  <2>6. [o EXCEPT !.remaining = left, !.executed = done] \in OrderSet
        /\ SameTerms(o, [o EXCEPT !.remaining = left, !.executed = done])
        /\ [o EXCEPT !.remaining = left, !.executed = done].executed = done
    BY <2>2 DEF OrderSet, SameTerms
  <2>7. PICK p : p = [o EXCEPT !.remaining = left, !.executed = done]
    OBVIOUS
  <2>8. orders = [t.orders EXCEPT ![f.order] = p] /\ p \in OrderSet /\ SameTerms(o, p) /\ p.executed = done
    BY <2>5, <2>6, <2>7
  <2>9. \A c \in OrderIds : SameTerms(t.orders[c], t.orders[c])
    BY DEF SameTerms
  <2> QED
    BY <1>2, <1>3, <2>1, <2>4, <2>8, <2>9
<1> HIDE DEF lots, accounts, orders
<1>15. Fill(t, f).lots = lots /\ Fill(t, f).accounts = accounts /\ Fill(t, f).orders = orders
  BY <1>11
<1>16. Fill(t, f) \in TableSet
  BY <1>11, <1>12, <1>13, <1>14 DEF TableSet
<1>17. \A h \in Returns : h \notin Owners(t.lots) \cup {owner} => accounts[h].realized = t.accounts[h].realized
  <2> SUFFICES ASSUME NEW h \in Returns, h \notin Owners(t.lots) \cup {owner}
               PROVE  accounts[h].realized = t.accounts[h].realized
    OBVIOUS
  <2>1. credit[h] = 0 /\ t.accounts[h].realized \in Int
    BY <1>3, <1>6, <1>8 DEF AccountSet
  <2> QED
    BY <1>13, <2>1
<1> QED
  BY <1>1, <1>12, <1>13, <1>14, <1>15, <1>16, <1>17 DEF FillLeaves

-----------------------------------------------------------------------------
(* The money of lots and fills. *)

(* Money and size of lots, fills and accounts.                        *)
SignedIn(E) == [i \in DOMAIN E |-> Sign(E[i].buy) * E[i].size]
CostsIn(lots) == [i \in DOMAIN lots |-> Basis(lots[i])]
PaysIn(fills) == [i \in DOMAIN fills |-> Paid(fills[i])]
RealizedIn(a) == [h \in Returns |-> a[h].realized]
Net(lots) == Total(SignedIn(lots), DOMAIN lots)
Cost(lots) == Total(CostsIn(lots), DOMAIN lots)
Spent(fills) == Total(PaysIn(fills), DOMAIN fills)

(* A quotient that is exact.                                          *)
LEMMA DivExact ==
  ASSUME NEW n \in Int, NEW d \in Nat \ {0}
  PROVE  (d * n) \div d = n
  OBVIOUS

(* A sum of one more term.                                            *)
LEMMA OneMoreTerm ==
  ASSUME NEW n \in Nat, NEW f, NEW g, \A i \in 1 .. n : g[i] \in Int /\ f[i] = g[i], f[n + 1] \in Int
  PROVE  Total(f, 1 .. n + 1) = Total(g, 1 .. n) + f[n + 1] /\ Total(g, 1 .. n) \in Int
<1>1. IsFiniteSet(1 .. n + 1) /\ IsFiniteSet(1 .. n)
  BY FS_Interval
<1>2. 1 .. n \in SUBSET (1 .. n + 1) /\ n + 1 \in 1 .. n + 1 /\ n + 1 \notin 1 .. n
      /\ 1 .. n + 1 = (1 .. n) \cup {n + 1}
  OBVIOUS
<1>3. \A i \in 1 .. n + 1 : f[i] \in Int
  OBVIOUS
<1>4. Total(f, (1 .. n) \cup {n + 1}) = Total(f, 1 .. n) + f[n + 1] /\ Total(f, 1 .. n) \in Int
  BY <1>1, <1>2, <1>3, TotalAdd
<1>5. Total(f, 1 .. n) = Total(g, 1 .. n)
  BY <1>1, TotalSame
<1> QED
  BY <1>2, <1>4, <1>5

(* The sides are one and its opposite.                                *)
LEMMA Signs ==
  /\ \A b \in BOOLEAN : Sign(b) \in Int /\ (Sign(b) = 1 \/ Sign(b) = 0 - 1)
  /\ \A a, b \in BOOLEAN : a # b => Sign(a) = 0 - Sign(b)
  BY DEF Sign

(* What a lot or a fill counts for is a whole number.                 *)
LEMMA TermsAreInt ==
  /\ \A x \in LotSet : Sign(x.buy) * x.size \in Int /\ Basis(x) \in Int
  /\ \A f \in FillSet : Sign(f.buy) * f.size \in Int /\ Paid(f) \in Int
<1>1. \A x \in LotSet : Sign(x.buy) * x.size \in Int /\ Basis(x) \in Int
  <2> SUFFICES ASSUME NEW x \in LotSet PROVE Sign(x.buy) * x.size \in Int /\ Basis(x) \in Int
    OBVIOUS
  <2>1. x.size \in Int /\ x.px \in Int /\ x.charges \in Int /\ Sign(x.buy) \in Int /\ Scale \in Int
    BY Signs DEF LotSet, Scale
  <2>2. Sign(x.buy) * x.size \in Int
    BY <2>1, TimesInt
  <2>3. Sign(x.buy) * x.size * x.px \in Int
    BY <2>1, <2>2, TimesInt
  <2>4. Sign(x.buy) * x.size * x.px * Scale \in Int
    BY <2>1, <2>3, TimesInt
  <2> QED
    BY <2>1, <2>2, <2>4 DEF Basis
<1>2. \A f \in FillSet : Sign(f.buy) * f.size \in Int /\ Paid(f) \in Int
  <2> SUFFICES ASSUME NEW f \in FillSet PROVE Sign(f.buy) * f.size \in Int /\ Paid(f) \in Int
    OBVIOUS
  <2>1. f.size \in Int /\ f.px \in Int /\ f.fee \in Int /\ Sign(f.buy) \in Int /\ Scale \in Int
    BY Signs DEF FillSet, Scale
  <2>2. Sign(f.buy) * f.size \in Int
    BY <2>1, TimesInt
  <2>3. Sign(f.buy) * f.size * f.px \in Int
    BY <2>1, <2>2, TimesInt
  <2>4. Sign(f.buy) * f.size * f.px + f.fee \in Int
    BY <2>1, <2>3
  <2>5. (Sign(f.buy) * f.size * f.px + f.fee) * Scale \in Int
    BY <2>1, <2>4, TimesInt
  <2> QED
    BY <2>2, <2>5 DEF Paid
<1> QED
  BY <1>1, <1>2

(* One more lot.                                                      *)
LEMMA LotMore ==
  ASSUME NEW lots \in Seq(LotSet), NEW x \in LotSet
  PROVE  /\ Net(Append(lots, x)) = Net(lots) + Sign(x.buy) * x.size
         /\ Cost(Append(lots, x)) = Cost(lots) + Basis(x)
         /\ Net(lots) \in Int /\ Cost(lots) \in Int
<1> DEFINE more == Append(lots, x)
<1>1. /\ DOMAIN lots = 1 .. Len(lots) /\ Len(lots) \in Nat /\ \A i \in DOMAIN lots : lots[i] \in LotSet
      /\ DOMAIN more = 1 .. Len(lots) + 1 /\ more[Len(lots) + 1] = x /\ \A i \in DOMAIN lots : more[i] = lots[i]
  BY AppendIs, FiniteDomain
<1> HIDE DEF more
<1>2. PICK n \in Nat : n = Len(lots)
  BY <1>1
<1>3. \A i \in 1 .. n : SignedIn(lots)[i] \in Int /\ SignedIn(more)[i] = SignedIn(lots)[i]
                        /\ CostsIn(lots)[i] \in Int /\ CostsIn(more)[i] = CostsIn(lots)[i]
  <2> SUFFICES ASSUME NEW i \in 1 .. n
               PROVE  /\ SignedIn(lots)[i] \in Int /\ SignedIn(more)[i] = SignedIn(lots)[i]
                      /\ CostsIn(lots)[i] \in Int /\ CostsIn(more)[i] = CostsIn(lots)[i]
    OBVIOUS
  <2>1. i \in DOMAIN lots /\ i \in DOMAIN more /\ more[i] = lots[i] /\ lots[i] \in LotSet
    BY <1>1, <1>2
  <2>2. Sign(lots[i].buy) * lots[i].size \in Int /\ Basis(lots[i]) \in Int
    BY <2>1, TermsAreInt
  <2> QED
    BY <2>1, <2>2 DEF SignedIn, CostsIn
<1>4. SignedIn(more)[n + 1] = Sign(x.buy) * x.size /\ CostsIn(more)[n + 1] = Basis(x)
  BY <1>1, <1>2 DEF SignedIn, CostsIn
<1>5. Sign(x.buy) * x.size \in Int /\ Basis(x) \in Int
  BY TermsAreInt
<1>6. Total(SignedIn(more), 1 .. n + 1) = Total(SignedIn(lots), 1 .. n) + SignedIn(more)[n + 1]
      /\ Total(SignedIn(lots), 1 .. n) \in Int
  BY <1>3, <1>4, <1>5, OneMoreTerm
<1>7. Total(CostsIn(more), 1 .. n + 1) = Total(CostsIn(lots), 1 .. n) + CostsIn(more)[n + 1]
      /\ Total(CostsIn(lots), 1 .. n) \in Int
  BY <1>3, <1>4, <1>5, OneMoreTerm
<1> QED
  BY <1>1, <1>2, <1>4, <1>6, <1>7 DEF Net, Cost, more

(* One more fill.                                                     *)
LEMMA FillMore ==
  ASSUME NEW fills \in Seq(FillSet), NEW f \in FillSet
  PROVE  Spent(Append(fills, f)) = Spent(fills) + Paid(f) /\ Spent(fills) \in Int
<1> DEFINE more == Append(fills, f)
<1>1. /\ DOMAIN fills = 1 .. Len(fills) /\ Len(fills) \in Nat /\ \A i \in DOMAIN fills : fills[i] \in FillSet
      /\ DOMAIN more = 1 .. Len(fills) + 1 /\ more[Len(fills) + 1] = f /\ \A i \in DOMAIN fills : more[i] = fills[i]
  BY AppendIs, FiniteDomain
<1> HIDE DEF more
<1>2. PICK n \in Nat : n = Len(fills)
  BY <1>1
<1>3. \A i \in 1 .. n : PaysIn(fills)[i] \in Int /\ PaysIn(more)[i] = PaysIn(fills)[i]
  <2> SUFFICES ASSUME NEW i \in 1 .. n
               PROVE  PaysIn(fills)[i] \in Int /\ PaysIn(more)[i] = PaysIn(fills)[i]
    OBVIOUS
  <2>1. i \in DOMAIN fills /\ i \in DOMAIN more /\ more[i] = fills[i] /\ fills[i] \in FillSet
    BY <1>1, <1>2
  <2>2. Paid(fills[i]) \in Int
    BY <2>1, TermsAreInt
  <2> QED
    BY <2>1, <2>2 DEF PaysIn
<1>4. PaysIn(more)[n + 1] = Paid(f) /\ Paid(f) \in Int
  BY <1>1, <1>2, TermsAreInt DEF PaysIn
<1>5. Total(PaysIn(more), 1 .. n + 1) = Total(PaysIn(fills), 1 .. n) + PaysIn(more)[n + 1]
      /\ Total(PaysIn(fills), 1 .. n) \in Int
  BY <1>3, <1>4, OneMoreTerm
<1> QED
  BY <1>1, <1>2, <1>4, <1>5 DEF Spent, more

(* What a part of a fill pays, at u for each unit of its size.        *)
PayFor(f, u, n) == (Sign(f.buy) * n * f.px + u * n) * Scale

(* What is left to account for while a fill meets the lots: what was  *)
(* credited, less what the lots cost and what the rest of it will.    *)
CloserGets(acc, owner) == IF owner = WindDown THEN 0 ELSE acc.closer
Worth(f, u, owner, acc) ==
    Total(acc.credit, Returns) + CloserGets(acc, owner) - Cost(acc.lots) - PayFor(f, u, acc.left)
Reach(f, acc) == Net(acc.lots) + Sign(f.buy) * acc.left

(* The returns are finitely many.                                     *)
LEMMA FewReturns == IsFiniteSet(Returns)
  BY LotsAssumption

WithCredit(credit, h, n) == [credit EXCEPT ![h] = @ + n]

(* A credit adds to the total.                                        *)
LEMMA CreditMore ==
  ASSUME NEW credit \in [Returns -> Int], NEW h \in Returns, NEW n \in Int
  PROVE  /\ Total(WithCredit(credit, h, n), Returns) = Total(credit, Returns) + n
         /\ Total(credit, Returns) \in Int
         /\ WithCredit(credit, h, n) \in [Returns -> Int]
<1>1. PICK d : d = WithCredit(credit, h, n)
  OBVIOUS
<1>2. d \in [Returns -> Int] /\ d[h] = credit[h] + n /\ \A y \in Returns : y # h => d[y] = credit[y]
  BY <1>1 DEF WithCredit
<1>3. \A y \in Returns : credit[y] \in Int /\ d[y] \in Int
  BY <1>2
<1>4. SumOver(d, Returns) = SumOver(credit, Returns) - credit[h] + d[h] /\ SumOver(credit, Returns) \in Int
  BY <1>2, <1>3, FewReturns, SumChange, SumIsInt
<1> QED
  BY <1>1, <1>2, <1>3, <1>4, TotalIs

(* The money of a closed quantity c of a lot of side s, bought at q   *)
(* and closed at p, with charges k, a fee at u and the closer's share *)
(* w: what is credited is what the lot's cost falls by and the fill's *)
(* price rises by.                                                    *)
LEMMA MoneyOfClose ==
  ASSUME NEW s \in {1, 0 - 1}, NEW z \in Int, NEW c \in Int, NEW p \in Int, NEW q \in Int,
         NEW k \in Int, NEW m \in Int, NEW u \in Int, NEW w \in Int, NEW l \in Int, NEW fee \in Int, fee = u * c * 12,
         NEW pnl \in Int, pnl = (p - q) * c * s * 12,
         NEW a \in Int, a = (pnl - w - k) + (w - fee),
         NEW b \in Int, b = s * (z - c) * q * 12 + (m - k),
         NEW g \in Int, g = s * z * q * 12 + m,
         NEW d \in Int, d = ((0 - s) * (l - c) * p + u * (l - c)) * 12,
         NEW e \in Int, e = ((0 - s) * l * p + u * l) * 12
  PROVE  a - b - d = 0 - g - e
<1>1. CASE s = 1
  BY <1>1
<1>2. CASE s = 0 - 1
  BY <1>2
<1> QED
  BY <1>1, <1>2

(* The fee of a part of a fill that is charged by its size.           *)
LEMMA FeeOfPart ==
  ASSUME NEW f \in FillSet, NEW u \in Int, f.fee = u * f.size, NEW n \in Int
  PROVE  (f.fee * Scale * n) \div f.size = u * n * 12
<1>1. PICK z \in Nat \ {0} : z = f.size
  BY DEF FillSet
<1>2. u * n * 12 \in Int
  OBVIOUS
<1>3. f.fee * Scale * n = z * (u * n * 12)
  BY <1>1 DEF Scale
<1>4. PICK x \in Int : x = u * n * 12
  BY <1>2
<1>5. (z * x) \div z = x
  BY <1>1, DivExact
<1> QED
  BY <1>1, <1>3, <1>4, <1>5

(* The charges of a lot closed whole.                                 *)
LEMMA ChargesOfWhole ==
  ASSUME NEW lot \in LotSet
  PROVE  (lot.charges * lot.size) \div lot.size = lot.charges
<1>1. PICK z \in Nat \ {0} : z = lot.size
  BY DEF LotSet
<1>2. PICK x \in Int : x = lot.charges
  BY DEF LotSet
<1>3. (z * x) \div z = x
  BY <1>1, DivExact
<1>4. x * z = z * x
  OBVIOUS
<1> QED
  BY <1>1, <1>2, <1>3, <1>4

(* What remains of a lot that is met: nothing, or the rest of it.     *)
SizeLeft(lot, c) == Sign(lot.buy) * (lot.size - c)
CostLeft(lot, c, k) == Sign(lot.buy) * (lot.size - c) * lot.px * 12 + (lot.charges - k)

RestOfLot(lot, c, k) == [lot EXCEPT !.size = @ - c, !.charges = @ - k]
WithRest(lots, lot, c, k) == IF c = lot.size THEN lots ELSE Append(lots, RestOfLot(lot, c, k))

(* What remains counts for what is left of it.                        *)
LEMMA RestCounts ==
  ASSUME NEW lots \in Seq(LotSet), NEW lot \in LotSet, NEW c \in Nat, NEW k \in Int,
         c # lot.size => lot.size - c \in Nat \ {0}, c = lot.size => k = lot.charges,
         NEW more, more = WithRest(lots, lot, c, k)
  PROVE  /\ Net(more) = Net(lots) + SizeLeft(lot, c)
         /\ Cost(more) = Cost(lots) + CostLeft(lot, c, k)
         /\ Net(lots) \in Int /\ Cost(lots) \in Int
<1>1. PICK s \in {1, 0 - 1}, z \in Int, q \in Int, m \in Int :
        s = Sign(lot.buy) /\ z = lot.size /\ q = lot.px /\ m = lot.charges
  BY Signs DEF LotSet
<1>2. Net(lots) \in Int /\ Cost(lots) \in Int
  BY LotMore
<1>3. CASE c = lot.size
  <2>1. z - c = 0 /\ m - k = 0 /\ more = lots
    BY <1>1, <1>3 DEF WithRest
  <2>2. SizeLeft(lot, c) = 0 /\ CostLeft(lot, c, k) = 0
    <3>1. lot.size - c = 0 /\ lot.charges - k = 0
      BY <1>1, <2>1
    <3>2. s * 0 = 0 /\ s * 0 * q * 12 + 0 = 0
      BY <1>1
    <3> QED
      BY <1>1, <3>1, <3>2 DEF SizeLeft, CostLeft
  <2> QED
    BY <1>1, <1>2, <2>1, <2>2
<1>4. CASE c # lot.size
  <2>0. PICK rest : rest = RestOfLot(lot, c, k)
    OBVIOUS
  <2>1. rest \in LotSet /\ rest.buy = lot.buy /\ rest.size = z - c /\ rest.px = q /\ rest.charges = m - k
    <3>1. PICK y \in Nat \ {0}, v \in Int : y = z - c /\ v = m - k
      BY <1>1, <1>4
    <3>2. rest = [lot EXCEPT !.size = y, !.charges = v]
      BY <1>1, <2>0, <3>1 DEF LotSet, RestOfLot
    <3> QED
      BY <1>1, <3>1, <3>2 DEF LotSet
  <2>2. more = Append(lots, rest)
    BY <1>4, <2>0 DEF WithRest
  <2>3. Net(more) = Net(lots) + Sign(rest.buy) * rest.size /\ Cost(more) = Cost(lots) + Basis(rest)
    BY <2>1, <2>2, LotMore
  <2>4. Basis(rest) = CostLeft(lot, c, k) /\ Sign(rest.buy) * rest.size = SizeLeft(lot, c)
    BY <1>1, <2>1 DEF Basis, Scale, CostLeft, SizeLeft
  <2> QED
    BY <1>1, <1>2, <2>1, <2>3, <2>4
<1> QED
  BY <1>3, <1>4

(* A met lot keeps the account and the reach of the fill.             *)
LEMMA MeetKeeps ==
  ASSUME NEW f \in FillSet, NEW u \in Int, f.fee = u * f.size, NEW owner, NEW acc \in AccSet, NEW lot \in LotSet,
         NEW met, met = Meet(f, owner, acc, lot)
  PROVE  /\ Worth(f, u, owner, met) = Worth(f, u, owner, acc) - Basis(lot)
         /\ Reach(f, met) = Reach(f, acc) + Sign(lot.buy) * lot.size
         /\ Worth(f, u, owner, acc) \in Int /\ Reach(f, acc) \in Int
<1>1. /\ lot.owner \in Returns /\ acc.lots \in Seq(LotSet) /\ acc.credit \in [Returns -> Int] /\ acc.closer \in Int
      /\ f.buy \in BOOLEAN /\ lot.buy \in BOOLEAN
  BY DEF LotSet, AccSet, FillSet
<1>2. PICK s \in {1, 0 - 1}, z \in Nat \ {0}, q \in Int, m \in Int :
        s = Sign(lot.buy) /\ z = lot.size /\ q = lot.px /\ m = lot.charges
  BY Signs DEF LotSet
<1>3. PICK p \in Int, l \in Nat, t \in {1, 0 - 1} : p = f.px /\ l = acc.left /\ t = Sign(f.buy)
  BY Signs DEF FillSet, AccSet
<1>4. Net(acc.lots) \in Int /\ Cost(acc.lots) \in Int /\ Basis(lot) \in Int
  BY <1>1, LotMore, TermsAreInt
<1>5. Total(acc.credit, Returns) \in Int
  BY <1>1, CreditMore
<1>6. CloserGets(acc, owner) \in Int
  BY <1>1 DEF CloserGets
<1>7. PayFor(f, u, acc.left) = (t * l * p + u * l) * 12 /\ (t * l * p + u * l) * 12 \in Int
  BY <1>3 DEF PayFor, Scale
<1>8. Basis(lot) = s * z * q * 12 + m
  BY <1>2 DEF Basis, Scale
<1>9. Worth(f, u, owner, acc) = Total(acc.credit, Returns) + CloserGets(acc, owner) - Cost(acc.lots) - PayFor(f, u, acc.left)
      /\ Reach(f, acc) = Net(acc.lots) + t * l
  BY <1>3 DEF Worth, Reach
<1>10. Worth(f, u, owner, acc) \in Int /\ Reach(f, acc) \in Int
  BY <1>3, <1>4, <1>5, <1>6, <1>7, <1>9
<1>11. CASE acc.left = 0 \/ lot.buy = f.buy
  <2>1. met = [acc EXCEPT !.lots = Append(acc.lots, lot)]
    BY <1>11 DEF Meet
  <2>2. met.left = acc.left /\ met.lots = Append(acc.lots, lot) /\ met.credit = acc.credit /\ met.closer = acc.closer
    BY <2>1 DEF AccSet
  <2>3. Net(met.lots) = Net(acc.lots) + Sign(lot.buy) * lot.size /\ Cost(met.lots) = Cost(acc.lots) + Basis(lot)
    BY <1>1, <2>2, LotMore
  <2>4. Worth(f, u, owner, met) = Total(acc.credit, Returns) + CloserGets(acc, owner) - (Cost(acc.lots) + Basis(lot))
                                    - PayFor(f, u, acc.left)
    BY <2>2, <2>3 DEF Worth, CloserGets
  <2>5. Reach(f, met) = (Net(acc.lots) + Sign(lot.buy) * lot.size) + t * l
    BY <1>3, <2>2, <2>3 DEF Reach
  <2> QED
    BY <1>2, <1>3, <1>4, <1>5, <1>6, <1>7, <1>9, <1>10, <2>4, <2>5
<1>12. CASE ~(acc.left = 0 \/ lot.buy = f.buy)
  <2>1. PICK c \in Nat : c = Least(acc.left, lot.size) /\ acc.left - c \in Nat
                          /\ (c # lot.size => lot.size - c \in Nat \ {0})
    BY <1>2, <1>3, LeastOf
  <2>2. PICK pnl \in Int : pnl = (p - q) * c * s * 12
    OBVIOUS
  <2>3. PICK w \in Int : w = IF owner = lot.owner \/ owner = WindDown THEN 0 ELSE (pnl * p) \div (q + p)
    <3>1. q + p \in Nat \ {0} /\ pnl * p \in Int
      BY <1>2, <1>3 DEF LotSet, FillSet
    <3> QED
      BY <3>1, DivInt
  <2>4. PICK k : k = (lot.charges * c) \div lot.size
    OBVIOUS
  <2>5. k \in Int /\ (c = lot.size => k = lot.charges)
    BY <1>2, <2>1, <2>4, DivInt, TimesInt, ChargesOfWhole
  <2>6. PICK fee \in Int : fee = u * c * 12 /\ fee = (f.fee * Scale * c) \div f.size
    <3>1. u * c * 12 \in Int
      OBVIOUS
    <3> QED
      BY <3>1, FeeOfPart
  <2>7. PICK net \in Int : net = pnl - w - (IF owner = WindDown THEN k + fee ELSE k)
    <3>1. pnl - w - (k + fee) \in Int /\ pnl - w - k \in Int
      BY <2>5
    <3> QED
      BY <3>1
  <2>8. PICK more : more = WithRest(acc.lots, lot, c, k)
    OBVIOUS
  <2>9. met = [left   |-> acc.left - c,
               lots   |-> more,
               credit |-> WithCredit(acc.credit, lot.owner, net),
               closer |-> acc.closer + w - fee]
    <3>1. PICK some : some = NetOf(f, owner, acc, lot)
      OBVIOUS
    <3>2. met = [left   |-> acc.left - Least(acc.left, lot.size),
                 lots   |-> IF Least(acc.left, lot.size) = lot.size THEN acc.lots
                            ELSE Append(acc.lots, [lot EXCEPT !.size = @ - Least(acc.left, lot.size),
                                                              !.charges = @ - some.charges]),
                 credit |-> [acc.credit EXCEPT ![lot.owner] = @ + some.net],
                 closer |-> acc.closer + some.closer]
      BY <1>12, <3>1 DEF Meet, NetOf
    <3>3. (f.px - lot.px) * c * Sign(lot.buy) * Scale = pnl
      BY <1>2, <1>3, <2>2 DEF Scale
    <3>4. (IF owner = lot.owner \/ owner = WindDown THEN 0 ELSE (pnl * f.px) \div (lot.px + f.px)) = w
      BY <1>2, <1>3, <2>3
    <3>5. CloseCost(owner = WindDown, k, fee) = IF owner = WindDown THEN k + fee ELSE k
      BY <2>5 DEF CloseCost
    <3>6. some = [net |-> net, closer |-> w - fee, charges |-> k]
      <4>1. some = [net |-> pnl - w - CloseCost(owner = WindDown, k, fee), closer |-> w - fee, charges |-> k]
        BY <2>1, <2>4, <2>6, <3>1, <3>3, <3>4 DEF NetOf
      <4> QED
        BY <2>7, <3>5, <4>1
    <3>7. some.net = net /\ some.charges = k /\ acc.closer + some.closer = acc.closer + w - fee
      BY <1>1, <3>6
    <3> QED
      BY <2>1, <2>8, <3>2, <3>7 DEF WithCredit, WithRest, RestOfLot
  <2>10. met.left = l - c /\ met.lots = more
         /\ met.credit = WithCredit(acc.credit, lot.owner, net) /\ met.closer = acc.closer + w - fee
    BY <1>3, <2>9
  <2>11. Net(met.lots) = Net(acc.lots) + s * (z - c)
         /\ Cost(met.lots) = Cost(acc.lots) + (s * (z - c) * q * 12 + (m - k))
    <3>1. Net(more) = Net(acc.lots) + SizeLeft(lot, c) /\ Cost(more) = Cost(acc.lots) + CostLeft(lot, c, k)
      BY <1>1, <2>1, <2>5, <2>8, RestCounts
    <3> QED
      BY <1>2, <2>10, <3>1 DEF SizeLeft, CostLeft
  <2>12. Total(met.credit, Returns) = Total(acc.credit, Returns) + net
    <3>1. acc.credit \in [Returns -> Int] /\ lot.owner \in Returns
      BY <1>1
    <3>2. Total(WithCredit(acc.credit, lot.owner, net), Returns) = Total(acc.credit, Returns) + net
      BY <3>1, CreditMore
    <3> QED
      BY <2>10, <3>2
  <2>13. Total(met.credit, Returns) + CloserGets(met, owner)
           = Total(acc.credit, Returns) + CloserGets(acc, owner) + ((pnl - w - k) + (w - fee))
    <3>1. CASE owner = WindDown
      BY <1>5, <2>3, <2>5, <2>7, <2>12, <3>1 DEF CloserGets
    <3>2. CASE owner # WindDown
      BY <1>1, <1>5, <2>5, <2>7, <2>10, <2>12, <3>2 DEF CloserGets
    <3> QED
      BY <3>1, <3>2
  <2>14. t = 0 - s
    BY <1>1, <1>2, <1>3, <1>12, Signs
  <2>15. PayFor(f, u, met.left) = ((0 - s) * (l - c) * p + u * (l - c)) * 12
    BY <1>3, <2>10, <2>14 DEF PayFor, Scale
  <2>16. PICK a \in Int, b \in Int, d \in Int, e \in Int :
           a = (pnl - w - k) + (w - fee) /\ b = s * (z - c) * q * 12 + (m - k)
           /\ d = ((0 - s) * (l - c) * p + u * (l - c)) * 12 /\ e = ((0 - s) * l * p + u * l) * 12
    BY <2>5
  <2>17. PICK g \in Int : g = Basis(lot) /\ g = s * z * q * 12 + m
    BY <1>4, <1>8
  <2>18. a - b - d = 0 - g - e
    BY <2>2, <2>5, <2>6, <2>16, <2>17, MoneyOfClose
  <2>19. PayFor(f, u, acc.left) = e /\ PayFor(f, u, met.left) = d /\ Cost(met.lots) = Cost(acc.lots) + b
    BY <1>7, <2>11, <2>14, <2>15, <2>16
  <2>20. Worth(f, u, owner, met) = Worth(f, u, owner, acc) - Basis(lot)
    <3>1. Worth(f, u, owner, met) = Total(met.credit, Returns) + CloserGets(met, owner) - Cost(met.lots) - PayFor(f, u, met.left)
      BY DEF Worth
    <3>2. PICK tc \in Int, cg \in Int, co \in Int : tc = Total(acc.credit, Returns) /\ cg = CloserGets(acc, owner)
                                                     /\ co = Cost(acc.lots)
      BY <1>4, <1>5, <1>6
    <3>5. Total(met.credit, Returns) + CloserGets(met, owner) = tc + cg + a
      BY <2>13, <2>16, <3>2
    <3>3. Worth(f, u, owner, met) = (tc + cg + a) - (co + b) - d
      <4>1. PICK x \in Int : x = tc + cg + a
        BY <2>16, <3>2
      <4>2. PICK y \in Int : y = co + b
        BY <2>16, <3>2
      <4>3. Total(met.credit, Returns) + CloserGets(met, owner) = x
        BY <3>5, <4>1
      <4>4. Cost(met.lots) = y
        BY <2>19, <3>2, <4>2
      <4>6. Total(met.credit, Returns) \in Int
        BY <1>5, <2>7, <2>12
      <4>7. CloserGets(met, owner) \in Int
        BY <1>1, <2>3, <2>6, <2>10 DEF CloserGets
      <4>8. PayFor(f, u, met.left) = d /\ d \in Int
        BY <2>16, <2>19
      <4>5. Worth(f, u, owner, met) = x - y - d
        BY <3>1, <4>1, <4>2, <4>3, <4>4, <4>6, <4>7, <4>8
      <4> QED
        BY <4>1, <4>2, <4>5
    <3>4. Worth(f, u, owner, acc) = tc + cg - co - e
      BY <1>9, <2>19, <3>2
    <3> QED
      BY <2>17, <2>18, <3>3, <3>4
  <2>21. Reach(f, met) = Net(acc.lots) + s * (z - c) + t * (l - c)
    BY <1>3, <2>10, <2>11 DEF Reach
  <2>22. s * (z - c) + t * (l - c) = s * z + t * l
    BY <2>14
  <2>23. Reach(f, met) = Reach(f, acc) + Sign(lot.buy) * lot.size
    <3>1. s * (z - c) \in Int /\ t * (l - c) \in Int /\ s * z \in Int /\ t * l \in Int
      OBVIOUS
    <3> QED
      BY <1>2, <1>4, <1>9, <2>21, <2>22, <3>1
  <2> QED
    BY <1>10, <2>20, <2>23
<1> QED
  BY <1>11, <1>12

SidedBy(lots, side) == \A i \in DOMAIN lots : lots[i].buy = side
(* What is left of a fill of the other side has met every lot.        *)
Spends(f, side, acc) == SidedBy(acc.lots, side) /\ (side # f.buy /\ acc.left > 0 => acc.lots = <<>>)

(* One more lot of a side.                                            *)
LEMMA SidedMore ==
  ASSUME NEW lots \in Seq(LotSet), NEW side, SidedBy(lots, side), NEW x \in LotSet, x.buy = side
  PROVE  SidedBy(Append(lots, x), side)
  BY AppendIs DEF SidedBy

(* A met lot leaves lots of its side, and nothing of a fill it is     *)
(* larger than.                                                       *)
LEMMA MeetSided ==
  ASSUME NEW f \in FillSet, NEW owner, NEW acc \in AccSet, NEW lot \in LotSet, Spends(f, lot.buy, acc),
         NEW met, met = Meet(f, owner, acc, lot)
  PROVE  Spends(f, lot.buy, met)
<1>1. acc.lots \in Seq(LotSet) /\ acc.left \in Nat /\ lot.size \in Nat \ {0}
  BY DEF LotSet, AccSet
<1>2. CASE acc.left = 0 \/ lot.buy = f.buy
  <2>1. met = [acc EXCEPT !.lots = Append(acc.lots, lot)]
    BY <1>2 DEF Meet
  <2>2. met.left = acc.left /\ met.lots = Append(acc.lots, lot)
    BY <2>1 DEF AccSet
  <2>3. SidedBy(met.lots, lot.buy)
    BY <1>1, <2>2, SidedMore DEF Spends
  <2> QED
    BY <1>1, <1>2, <2>2, <2>3 DEF Spends
<1>3. CASE ~(acc.left = 0 \/ lot.buy = f.buy)
  <2>1. PICK c \in Nat : c = Least(acc.left, lot.size) /\ acc.left - c \in Nat
                          /\ (c # lot.size => lot.size - c \in Nat \ {0})
    BY <1>1, LeastOf
  <2>2. PICK k : k = NetOf(f, owner, acc, lot).charges
    OBVIOUS
  <2>3. k \in Int
    BY <2>2, NetIsInt
  <2>4. PICK rest : rest = [lot EXCEPT !.size = @ - c, !.charges = @ - k]
    OBVIOUS
  <2>5. met.left = acc.left - c /\ met.lots = IF c = lot.size THEN acc.lots ELSE Append(acc.lots, rest)
    BY <1>3, <2>1, <2>2, <2>4 DEF Meet, NetOf
  <2>6. acc.lots = <<>> /\ SidedBy(acc.lots, lot.buy)
    BY <1>1, <1>3 DEF Spends
  <2>7. CASE c = lot.size
    BY <2>5, <2>6, <2>7 DEF Spends
  <2>8. CASE c # lot.size
    <3>1. rest \in LotSet
      BY <2>1, <2>3, <2>4, <2>8, LotRest
    <3>2. rest.buy = lot.buy
      BY <2>4 DEF LotSet
    <3>3. SidedBy(met.lots, lot.buy)
      BY <1>1, <2>5, <2>6, <2>8, <3>1, <3>2, SidedMore
    <3>4. met.left = 0
      BY <1>1, <2>1, <2>5, <2>8 DEF Least
    <3> QED
      BY <3>3, <3>4 DEF Spends
  <2> QED
    BY <2>7, <2>8
<1> QED
  BY <1>2, <1>3

(* The terms up to one more.                                          *)
LEMMA TermsUpTo ==
  ASSUME NEW lots \in Seq(LotSet), NEW k \in Nat, k + 1 \in DOMAIN lots
  PROVE  /\ Total(CostsIn(lots), 1 .. k + 1) = Total(CostsIn(lots), 1 .. k) + Basis(lots[k + 1])
         /\ Total(SignedIn(lots), 1 .. k + 1) = Total(SignedIn(lots), 1 .. k) + Sign(lots[k + 1].buy) * lots[k + 1].size
         /\ Total(CostsIn(lots), 1 .. k) \in Int /\ Total(SignedIn(lots), 1 .. k) \in Int
         /\ Basis(lots[k + 1]) \in Int /\ Sign(lots[k + 1].buy) * lots[k + 1].size \in Int
<1>1. \A i \in 1 .. k + 1 : i \in DOMAIN lots /\ lots[i] \in LotSet
  BY FiniteDomain
<1>2. \A i \in 1 .. k + 1 : /\ CostsIn(lots)[i] = Basis(lots[i]) /\ CostsIn(lots)[i] \in Int
                            /\ SignedIn(lots)[i] = Sign(lots[i].buy) * lots[i].size /\ SignedIn(lots)[i] \in Int
  BY <1>1, TermsAreInt DEF CostsIn, SignedIn
<1>3. k + 1 \in 1 .. k + 1 /\ \A i \in 1 .. k : i \in 1 .. k + 1
  OBVIOUS
<1>4. Total(CostsIn(lots), 1 .. k + 1) = Total(CostsIn(lots), 1 .. k) + CostsIn(lots)[k + 1]
      /\ Total(CostsIn(lots), 1 .. k) \in Int
  BY <1>2, <1>3, OneMoreTerm
<1>5. Total(SignedIn(lots), 1 .. k + 1) = Total(SignedIn(lots), 1 .. k) + SignedIn(lots)[k + 1]
      /\ Total(SignedIn(lots), 1 .. k) \in Int
  BY <1>2, <1>3, OneMoreTerm
<1> QED
  BY <1>2, <1>3, <1>4, <1>5

(* Nothing costs nothing.                                             *)
LEMMA NoTerms ==
  ASSUME NEW f \in FillSet, NEW u \in Int, f.fee = u * f.size, NEW owner
  PROVE  /\ Worth(f, u, owner, Opposing(f)) = 0 - Paid(f) /\ Paid(f) \in Int
         /\ Reach(f, Opposing(f)) = Sign(f.buy) * f.size /\ Sign(f.buy) * f.size \in Int
         /\ Net(<<>>) = 0 /\ Cost(<<>>) = 0
<1>1. Net(<<>>) = 0 /\ Cost(<<>>) = 0
  BY TotalNone DEF Net, Cost
<1>2. Opposing(f).left = f.size /\ Opposing(f).lots = <<>> /\ Opposing(f).closer = 0
      /\ \A h \in Returns : Opposing(f).credit[h] = 0
  BY DEF Opposing
<1>3. Total(Opposing(f).credit, Returns) = 0
  BY <1>2, FewReturns, SumZero, TotalIs
<1>4. Paid(f) \in Int /\ Sign(f.buy) * f.size \in Int
  BY TermsAreInt
<1>5. PayFor(f, u, f.size) = Paid(f)
  BY DEF PayFor, Paid
<1>6. CloserGets(Opposing(f), owner) = 0
  BY <1>2 DEF CloserGets
<1>7. Worth(f, u, owner, Opposing(f)) = 0 + 0 - 0 - Paid(f)
  BY <1>1, <1>2, <1>3, <1>5, <1>6 DEF Worth
<1>8. Reach(f, Opposing(f)) = 0 + Sign(f.buy) * f.size
  BY <1>1, <1>2 DEF Reach
<1> QED
  BY <1>1, <1>4, <1>7, <1>8

(* Meeting all the lots.                                              *)
LEMMA ClosesKeep ==
  ASSUME NEW t, t.lots \in Seq(LotSet), NEW f \in FillSet, NEW u \in Int, f.fee = u * f.size, NEW owner,
         NEW side, SidedBy(t.lots, side),
         NEW met, met = Closes(t, f, owner)
  PROVE  /\ Worth(f, u, owner, met) = 0 - Paid(f) - Cost(t.lots)
         /\ Reach(f, met) = Sign(f.buy) * f.size + Net(t.lots)
         /\ Spends(f, side, met)
         /\ Cost(t.lots) \in Int /\ Net(t.lots) \in Int
<1> DEFINE n == Len(t.lots)
<1>1. n \in Nat /\ DOMAIN t.lots = 1 .. n /\ \A i \in DOMAIN t.lots : t.lots[i] \in LotSet
  OBVIOUS
<1> HIDE DEF n
<1>2. PICK acc : MetSteps(t, f, owner, n, acc) /\ acc[n] = Closes(t, f, owner)
  BY <1>1, MetRuns
<1> DEFINE costs == CostsIn(t.lots)
           sizes == SignedIn(t.lots)
           Good(a, k) == /\ a \in AccSet
                         /\ Worth(f, u, owner, a) = 0 - Paid(f) - Total(costs, 1 .. k)
                         /\ Reach(f, a) = Sign(f.buy) * f.size + Total(sizes, 1 .. k)
                         /\ Spends(f, side, a)
           N == {k \in Nat : k <= n => Good(acc[k], k)}
<1>3. 0 \in N
  <2>1. acc[0] = Opposing(f)
    BY <1>2 DEF MetSteps
  <2>2. Opposing(f) \in AccSet /\ Opposing(f).lots = <<>>
    BY DEF Opposing, AccSet, FillSet
  <2>3. 1 .. 0 = {} /\ Total(costs, {}) = 0 /\ Total(sizes, {}) = 0
    BY TotalNone
  <2>4. Worth(f, u, owner, Opposing(f)) = 0 - Paid(f) /\ Paid(f) \in Int
        /\ Reach(f, Opposing(f)) = Sign(f.buy) * f.size /\ Sign(f.buy) * f.size \in Int
    BY NoTerms
  <2>5. Spends(f, side, Opposing(f))
    BY <2>2 DEF Spends, SidedBy
  <2>6. Total(costs, 1 .. 0) = 0 /\ Total(sizes, 1 .. 0) = 0
    BY <2>3
  <2> HIDE DEF costs, sizes
  <2>7. 0 - Paid(f) - Total(costs, 1 .. 0) = 0 - Paid(f)
        /\ Sign(f.buy) * f.size + Total(sizes, 1 .. 0) = Sign(f.buy) * f.size
    BY <2>4, <2>6
  <2>8. Good(Opposing(f), 0)
    BY <2>2, <2>4, <2>5, <2>7
  <2> QED
    BY <2>1, <2>8
<1>4. ASSUME NEW k \in N PROVE k + 1 \in N
  <2> SUFFICES ASSUME k + 1 <= n PROVE Good(acc[k + 1], k + 1)
    OBVIOUS
  <2>1. k \in Nat /\ k <= n /\ Good(acc[k], k) /\ k + 1 \in 1 .. n /\ (k + 1) - 1 = k
    BY <1>1
  <2>2. acc[k + 1] = Meet(f, owner, acc[k], t.lots[k + 1])
    BY <1>2, <2>1 DEF MetSteps
  <2>3. PICK lot, before, met1 : lot = t.lots[k + 1] /\ before = acc[k] /\ met1 = acc[k + 1]
    OBVIOUS
  <2>4. lot \in LotSet /\ lot.buy = side /\ k + 1 \in DOMAIN t.lots
    BY <1>1, <2>1, <2>3 DEF SidedBy
  <2>5. Good(before, k)
    BY <2>1, <2>3
  <2>6. met1 = Meet(f, owner, before, lot)
    BY <2>2, <2>3
  <2>7. /\ Total(costs, 1 .. k + 1) = Total(costs, 1 .. k) + Basis(lot)
        /\ Total(sizes, 1 .. k + 1) = Total(sizes, 1 .. k) + Sign(lot.buy) * lot.size
        /\ Total(costs, 1 .. k) \in Int /\ Total(sizes, 1 .. k) \in Int
        /\ Basis(lot) \in Int /\ Sign(lot.buy) * lot.size \in Int
    BY <2>1, <2>3, <2>4, TermsUpTo
  <2> HIDE DEF costs, sizes
  <2>8. /\ Worth(f, u, owner, met1) = Worth(f, u, owner, before) - Basis(lot)
        /\ Reach(f, met1) = Reach(f, before) + Sign(lot.buy) * lot.size
        /\ Worth(f, u, owner, before) \in Int /\ Reach(f, before) \in Int
    BY <2>4, <2>5, <2>6, MeetKeeps
  <2>9. met1 \in AccSet /\ Spends(f, side, met1)
    BY <2>4, <2>5, <2>6, MeetIs, MeetSided
  <2>10. Paid(f) \in Int /\ Sign(f.buy) * f.size \in Int
    BY TermsAreInt
  <2>11. PICK tc \in Int, ts \in Int, ba \in Int, si \in Int, pd \in Int, ow \in Int :
           tc = Total(costs, 1 .. k) /\ ts = Total(sizes, 1 .. k) /\ ba = Basis(lot) /\ si = Sign(lot.buy) * lot.size
           /\ pd = Paid(f) /\ ow = Sign(f.buy) * f.size
    BY <2>7, <2>10
  <2>12. Worth(f, u, owner, met1) = 0 - pd - (tc + ba)
    <3>1. Worth(f, u, owner, before) = 0 - pd - tc
      BY <2>5, <2>11
    <3> QED
      BY <2>8, <2>11, <3>1
  <2>13. Reach(f, met1) = ow + (ts + si)
    <3>1. Reach(f, before) = ow + ts
      BY <2>5, <2>11
    <3> QED
      BY <2>8, <2>11, <3>1
  <2>14. Good(met1, k + 1)
    BY <2>7, <2>9, <2>11, <2>12, <2>13
  <2> QED
    BY <2>3, <2>14
<1>5. N \in SUBSET Nat
  OBVIOUS
<1>6. n \in N
  <2> HIDE DEF N
  <2> QED
    BY <1>1, <1>3, <1>4, <1>5, Induction
<1>7. Good(met, n)
  BY <1>1, <1>2, <1>6
<1>8. Cost(t.lots) = Total(costs, 1 .. n) /\ Net(t.lots) = Total(sizes, 1 .. n)
  BY <1>1 DEF Cost, Net
<1>9. Cost(t.lots) \in Int /\ Net(t.lots) \in Int
  <2>1. \A i \in DOMAIN t.lots : costs[i] \in Int /\ sizes[i] \in Int
    BY <1>1, TermsAreInt DEF CostsIn, SignedIn
  <2>2. IsFiniteSet(DOMAIN t.lots)
    BY FiniteDomain
  <2> HIDE DEF costs, sizes
  <2>3. Total(costs, DOMAIN t.lots) \in Int /\ Total(sizes, DOMAIN t.lots) \in Int
    BY <2>1, <2>2, TotalInt
  <2> QED
    BY <1>1, <1>8, <2>3
<1> HIDE DEF costs, sizes
<1> QED
  BY <1>7, <1>8, <1>9

Realized(a) == Total(RealizedIn(a), Returns)
OneSided(lots) == \A i, j \in DOMAIN lots : lots[i].buy = lots[j].buy

(* Two terms for each element.                                        *)
LEMMA TotalBoth ==
  ASSUME NEW f, NEW g, NEW h, NEW S, IsFiniteSet(S),
         \A x \in S : f[x] \in Int /\ g[x] \in Int /\ h[x] = f[x] + g[x]
  PROVE  Total(h, S) = Total(f, S) + Total(g, S)
<1> DEFINE P == {s \in SUBSET S : Total(h, s) = Total(f, s) + Total(g, s)}
<1>1. {} \in P
  BY TotalNone
<1>2. ASSUME NEW s \in SUBSET S, s \in P, NEW x \in S \ s PROVE s \cup {x} \in P
  <2>1. \A y \in S : h[y] \in Int
    OBVIOUS
  <2>2. /\ Total(h, s \cup {x}) = Total(h, s) + h[x] /\ Total(h, s) \in Int
        /\ Total(f, s \cup {x}) = Total(f, s) + f[x] /\ Total(f, s) \in Int
        /\ Total(g, s \cup {x}) = Total(g, s) + g[x] /\ Total(g, s) \in Int
    <3>1. x \in S /\ x \notin s
      OBVIOUS
    <3>2. Total(h, s \cup {x}) = Total(h, s) + h[x] /\ Total(h, s) \in Int
      BY <2>1, <3>1, TotalAdd
    <3>3. Total(f, s \cup {x}) = Total(f, s) + f[x] /\ Total(f, s) \in Int
      BY <3>1, TotalAdd
    <3>4. Total(g, s \cup {x}) = Total(g, s) + g[x] /\ Total(g, s) \in Int
      BY <3>1, TotalAdd
    <3> QED
      BY <3>2, <3>3, <3>4
  <2>3. Total(h, s) = Total(f, s) + Total(g, s) /\ h[x] = f[x] + g[x] /\ f[x] \in Int /\ g[x] \in Int
    BY <1>2
  <2>4. Total(h, s \cup {x}) = Total(f, s \cup {x}) + Total(g, s \cup {x})
    BY <2>2, <2>3
  <2>5. s \cup {x} \in SUBSET S
    OBVIOUS
  <2> QED
    BY <2>4, <2>5
<1> HIDE DEF P
<1>3. \A s \in SUBSET S : s \in P
  BY <1>1, <1>2, SetInduction
<1> QED
  BY <1>3 DEF P

(* Lots of one side count for their size.                             *)
LEMMA SidedNet ==
  ASSUME NEW lots \in Seq(LotSet), NEW side \in BOOLEAN, SidedBy(lots, side)
  PROVE  \E m \in Nat : Net(lots) = Sign(side) * m
<1> DEFINE sizes == [i \in DOMAIN lots |-> lots[i].size]
           signed == SignedIn(lots)
           none == [i \in DOMAIN lots |-> 0]
           S == DOMAIN lots
<1>1. IsFiniteSet(S)
  BY FiniteDomain
<1>2. \A i \in S : sizes[i] \in Nat /\ signed[i] = Sign(side) * sizes[i] /\ none[i] = 0
  <2> SUFFICES ASSUME NEW i \in S
               PROVE  sizes[i] \in Nat /\ signed[i] = Sign(side) * sizes[i] /\ none[i] = 0
    OBVIOUS
  <2>1. lots[i] \in LotSet /\ lots[i].buy = side
    BY FiniteDomain DEF SidedBy
  <2>2. lots[i].size \in Nat
    BY <2>1 DEF LotSet
  <2>3. signed[i] = Sign(lots[i].buy) * lots[i].size
    BY DEF SignedIn
  <2> QED
    BY <2>1, <2>2, <2>3
<1>3. Net(lots) = Total(signed, S)
  BY DEF Net
<1> HIDE DEF sizes, signed, none, S
<1>4. Total(sizes, S) \in Nat
  <2>1. S \in SUBSET S
    OBVIOUS
  <2> QED
    BY <1>1, <1>2, <2>1, TotalPart
<1>5. CASE side
  <2>1. \A i \in S : sizes[i] \in Int /\ signed[i] = sizes[i]
    BY <1>2, <1>5 DEF Sign
  <2>2. Total(signed, S) = Total(sizes, S)
    BY <1>1, <2>1, TotalSame
  <2> QED
    BY <1>3, <1>4, <1>5, <2>2 DEF Sign
<1>6. CASE ~side
  <2>1. \A i \in S : sizes[i] \in Int /\ signed[i] \in Int /\ none[i] = signed[i] + sizes[i]
    BY <1>2, <1>6 DEF Sign
  <2>2. Total(none, S) = Total(signed, S) + Total(sizes, S)
    BY <1>1, <2>1, TotalBoth
  <2>3. Total(none, S) = 0
    BY <1>1, <1>2, SumZero, TotalIs
  <2>4. Total(signed, S) \in Int
    BY <1>1, <2>1, TotalInt
  <2>5. Total(signed, S) = 0 - Total(sizes, S)
    BY <1>4, <2>2, <2>3, <2>4
  <2> QED
    BY <1>3, <1>4, <1>6, <2>5 DEF Sign
<1> QED
  BY <1>5, <1>6

(* Lots of one side are of some side.                                 *)
LEMMA SomeSide ==
  ASSUME NEW lots \in Seq(LotSet), OneSided(lots)
  PROVE  \E side \in BOOLEAN : SidedBy(lots, side)
<1>1. CASE lots = <<>>
  <2>1. SidedBy(lots, TRUE)
    BY <1>1 DEF SidedBy
  <2> QED
    BY <2>1
<1>2. CASE lots # <<>>
  <2>1. 1 \in DOMAIN lots /\ lots[1] \in LotSet
    BY <1>2, FiniteDomain
  <2>2. lots[1].buy \in BOOLEAN /\ SidedBy(lots, lots[1].buy)
    BY <2>1 DEF OneSided, SidedBy, LotSet
  <2> QED
    BY <2>2
<1> QED
  BY <1>1, <1>2

(* The lot that what is left of a fill opens.                         *)
OpenedBy(f, owner, left, charges) ==
    [owner |-> owner, buy |-> f.buy, size |-> left, px |-> f.px, charges |-> charges]
WithOpened(lots, f, owner, left, charges) ==
    IF left = 0 \/ owner = WindDown THEN lots ELSE Append(lots, OpenedBy(f, owner, left, charges))

(* The lots and the realised money a fill leaves.                     *)
LEMMA FillFields ==
  ASSUME NEW t \in TableSet, NEW f \in FillSet, NEW owner, owner = t.orders[f.order].owner,
         NEW met, met = Closes(t, f, owner)
  PROVE  /\ Fill(t, f).lots = WithOpened(met.lots, f, owner, met.left, (f.fee * Scale * met.left) \div f.size)
         /\ \A h \in Returns : Fill(t, f).accounts[h].realized = t.accounts[h].realized + PaidTo(met, owner)[h]
<1>1. PICK charges : charges = (f.fee * Scale * met.left) \div f.size
  OBVIOUS
<1>2. PICK credit : credit = PaidTo(met, owner)
  OBVIOUS
<1> DEFINE opened == [owner |-> owner, buy |-> f.buy, size |-> met.left, px |-> f.px, charges |-> charges]
           lots == IF met.left = 0 \/ owner = WindDown THEN met.lots ELSE Append(met.lots, opened)
           accounts == [h \in Returns |-> [t.accounts[h] EXCEPT !.realized = @ + credit[h]]]
           orders == [t.orders EXCEPT ![f.order].remaining = IF @ > f.size THEN @ - f.size ELSE 0,
                                      ![f.order].executed = @ + f.size]
<1>6. Fill(t, f) = [lots |-> lots, accounts |-> accounts, orders |-> orders]
  BY <1>1, <1>2 DEF Fill, PaidTo
<1>3. Fill(t, f).lots = lots /\ Fill(t, f).accounts = accounts
  <2> HIDE DEF lots, accounts, orders
  <2> QED
    BY <1>6
<1>4. \A h \in Returns : t.accounts[h] \in AccountSet
  BY DEF TableSet
<1>5. \A h \in Returns : Fill(t, f).accounts[h].realized = t.accounts[h].realized + credit[h]
  BY <1>3, <1>4 DEF AccountSet
<1> QED
  BY <1>1, <1>2, <1>3, <1>5 DEF WithOpened, OpenedBy

(* The money of the returns and of their lots.                        *)
Held(t) == Realized(t.accounts) - Cost(t.lots)

(* What the accounts realised is a whole number.                      *)
LEMMA RealizedIs ==
  ASSUME NEW a \in [Returns -> AccountSet]
  PROVE  Realized(a) \in Int /\ \A h \in Returns : RealizedIn(a)[h] = a[h].realized /\ a[h].realized \in Int
<1>1. \A h \in Returns : RealizedIn(a)[h] = a[h].realized /\ a[h].realized \in Int
  BY DEF RealizedIn, AccountSet
<1>2. Total(RealizedIn(a), Returns) \in Int
  BY <1>1, FewReturns, TotalInt
<1> QED
  BY <1>1, <1>2 DEF Realized

(* Lots count for whole numbers.                                      *)
LEMMA CountsAre ==
  ASSUME NEW lots \in Seq(LotSet)
  PROVE  Net(lots) \in Int /\ Cost(lots) \in Int
<1>1. IsFiniteSet(DOMAIN lots) /\ \A i \in DOMAIN lots : lots[i] \in LotSet
  BY FiniteDomain
<1>2. \A i \in DOMAIN lots : SignedIn(lots)[i] \in Int /\ CostsIn(lots)[i] \in Int
  BY <1>1, TermsAreInt DEF SignedIn, CostsIn
<1> QED
  BY <1>1, <1>2, TotalInt DEF Net, Cost

(* What a fill pays out is credited.                                  *)
LEMMA CreditsIs ==
  ASSUME NEW met \in AccSet, NEW owner \in Returns \cup {WindDown}
  PROVE  /\ Total(PaidTo(met, owner), Returns) = Total(met.credit, Returns) + CloserGets(met, owner)
         /\ Total(met.credit, Returns) \in Int /\ CloserGets(met, owner) \in Int
         /\ PaidTo(met, owner) \in [Returns -> Int]
<1>1. met.credit \in [Returns -> Int] /\ met.closer \in Int
  BY DEF AccSet
<1>2. Total(met.credit, Returns) \in Int
  BY <1>1, FewReturns, TotalInt
<1>3. CASE owner = WindDown
  BY <1>1, <1>2, <1>3 DEF PaidTo, CloserGets
<1>4. CASE owner # WindDown
  <2>1. owner \in Returns /\ PaidTo(met, owner) = WithCredit(met.credit, owner, met.closer)
        /\ CloserGets(met, owner) = met.closer
    BY <1>4 DEF PaidTo, WithCredit, CloserGets
  <2> QED
    BY <1>1, <1>2, <2>1, CreditMore
<1> QED
  BY <1>3, <1>4

(* Nothing is left of a fill that flattens.                           *)
LEMMA NothingLeft ==
  ASSUME NEW lots \in Seq(LotSet), NEW side \in BOOLEAN, SidedBy(lots, side),
         NEW f \in FillSet, Net(lots) = 0 - Sign(f.buy) * f.size,
         NEW met \in AccSet, Spends(f, side, met), Reach(f, met) = Sign(f.buy) * f.size + Net(lots)
  PROVE  met.left = 0
<1> SUFFICES ASSUME met.left # 0 PROVE FALSE
  OBVIOUS
<1>1. PICK s \in {1, 0 - 1}, n \in Nat \ {0}, l \in Nat \ {0} : s = Sign(f.buy) /\ n = f.size /\ l = met.left
  BY Signs DEF FillSet, AccSet
<1>2. CASE side # f.buy
  <2>1. met.lots = <<>>
    BY <1>1, <1>2 DEF Spends
  <2>2. Net(met.lots) = 0
    BY <2>1, TotalNone DEF Net
  <2>3. Reach(f, met) = 0 + s * l
    BY <1>1, <2>2 DEF Reach
  <2>4. Reach(f, met) = s * n + (0 - s * n)
    BY <1>1
  <2>5. CASE s = 1
    BY <2>3, <2>4, <2>5
  <2>6. CASE s = 0 - 1
    BY <2>3, <2>4, <2>6
  <2> QED
    BY <2>5, <2>6
<1>3. CASE side = f.buy
  <2>1. PICK m \in Nat : Net(lots) = s * m
    BY <1>1, <1>3, SidedNet
  <2>2. s * m = 0 - s * n
    BY <1>1, <2>1
  <2>5. CASE s = 1
    BY <2>2, <2>5
  <2>6. CASE s = 0 - 1
    BY <2>2, <2>6
  <2> QED
    BY <2>5, <2>6
<1> QED
  BY <1>2, <1>3

(* The lot a fill opens costs what the rest of the fill pays.         *)
LEMMA OpenedIs ==
  ASSUME NEW f \in FillSet, NEW u \in Int, f.fee = u * f.size, NEW owner \in Returns, NEW left \in Nat \ {0},
         NEW x, x = OpenedBy(f, owner, left, (f.fee * Scale * left) \div f.size)
  PROVE  /\ x \in LotSet /\ x.buy = f.buy
         /\ Basis(x) = PayFor(f, u, left) /\ Sign(x.buy) * x.size = Sign(f.buy) * left
<1>1. (f.fee * Scale * left) \div f.size = u * left * 12
  BY FeeOfPart
<1>2. PICK k \in Int : k = u * left * 12
  OBVIOUS
<1>3. x = [owner |-> owner, buy |-> f.buy, size |-> left, px |-> f.px, charges |-> k]
  BY <1>1, <1>2 DEF OpenedBy
<1>4. x \in LotSet /\ x.buy = f.buy /\ x.size = left /\ x.px = f.px /\ x.charges = k
  BY <1>2, <1>3 DEF LotSet, FillSet
<1>5. PICK s \in {1, 0 - 1}, p \in Int : s = Sign(f.buy) /\ p = f.px
  BY Signs DEF FillSet
<1>6. Basis(x) = s * left * p * 12 + k
  BY <1>4, <1>5 DEF Basis, Scale
<1>7. PayFor(f, u, left) = (s * left * p + u * left) * 12
  BY <1>5 DEF PayFor, Scale
<1>8. s * left * p * 12 + u * left * 12 = (s * left * p + u * left) * 12
  OBVIOUS
<1> QED
  BY <1>2, <1>4, <1>6, <1>7, <1>8

(* A fill leaves lots of one side; it moves their size by its own and *)
(* the money by what it pays, the wind-down's when it flattens.       *)
FillMoves(t, f, d) ==
    /\ OneSided(d.lots)
    /\ t.orders[f.order].owner # WindDown => Net(d.lots) = Net(t.lots) + Sign(f.buy) * f.size
    /\ t.orders[f.order].owner # WindDown \/ Net(t.lots) = 0 - Sign(f.buy) * f.size =>
         Held(d) = Held(t) - Paid(f)

(* So it does.                                                        *)
LEMMA FillKeeps ==
  ASSUME NEW t \in TableSet, NEW f \in FillSet, t.orders[f.order].owner # Nobody,
         NEW u \in Int, f.fee = u * f.size, OneSided(t.lots)
  PROVE  FillMoves(t, f, Fill(t, f))
<1>1. PICK owner, met, d : owner = t.orders[f.order].owner /\ met = Closes(t, f, owner) /\ d = Fill(t, f)
  OBVIOUS
<1>2. t.lots \in Seq(LotSet) /\ t.accounts \in [Returns -> AccountSet] /\ owner \in Returns \cup {WindDown}
  BY <1>1 DEF TableSet, OrderSet, FillSet
<1>3. PICK side \in BOOLEAN : SidedBy(t.lots, side)
  BY <1>2, SomeSide
<1>4. /\ Worth(f, u, owner, met) = 0 - Paid(f) - Cost(t.lots)
      /\ Reach(f, met) = Sign(f.buy) * f.size + Net(t.lots)
      /\ Spends(f, side, met)
      /\ Cost(t.lots) \in Int /\ Net(t.lots) \in Int
  BY <1>1, <1>2, <1>3, ClosesKeep
<1>5. met \in AccSet /\ met.lots \in Seq(LotSet) /\ met.left \in Nat
  <2>1. met \in AccSet
    BY <1>1, <1>2, ClosesIs
  <2> QED
    BY <2>1 DEF AccSet
<1>6. PICK charges : charges = (f.fee * Scale * met.left) \div f.size
  OBVIOUS
<1>7. /\ d.lots = WithOpened(met.lots, f, owner, met.left, charges)
      /\ \A h \in Returns : d.accounts[h].realized = t.accounts[h].realized + PaidTo(met, owner)[h]
  BY <1>1, <1>6, FillFields
<1>8. PICK credit \in [Returns -> Int], tc \in Int, cg \in Int :
        /\ credit = PaidTo(met, owner) /\ tc = Total(met.credit, Returns) /\ cg = CloserGets(met, owner)
        /\ Total(credit, Returns) = tc + cg
  BY <1>2, <1>5, CreditsIs
<1>9. PICK rt \in Int : rt = Realized(t.accounts)
  BY <1>2, RealizedIs
<1>10. Realized(d.accounts) = rt + (tc + cg)
  <2>1. \A h \in Returns : RealizedIn(t.accounts)[h] \in Int /\ credit[h] \in Int
                           /\ RealizedIn(d.accounts)[h] = RealizedIn(t.accounts)[h] + credit[h]
    BY <1>2, <1>7, <1>8, RealizedIs DEF RealizedIn
  <2>2. Total(RealizedIn(d.accounts), Returns) = Total(RealizedIn(t.accounts), Returns) + Total(credit, Returns)
    BY <2>1, FewReturns, TotalBoth
  <2> QED
    BY <1>8, <1>9, <2>2 DEF Realized
<1>11. PICK cm \in Int, nm \in Int, ct \in Int, nt \in Int, pd \in Int, ow \in Int :
         /\ cm = Cost(met.lots) /\ nm = Net(met.lots) /\ ct = Cost(t.lots) /\ nt = Net(t.lots)
         /\ pd = Paid(f) /\ ow = Sign(f.buy) * f.size
  BY <1>4, <1>5, TermsAreInt, CountsAre
<1>12. PICK s \in {1, 0 - 1}, n \in Nat \ {0}, l \in Nat : s = Sign(f.buy) /\ n = f.size /\ l = met.left /\ ow = s * n
  BY <1>5, <1>11, Signs DEF FillSet
<1>13. nm + s * l = ow + nt
  BY <1>4, <1>11, <1>12 DEF Reach
<1>14. PICK pf \in Int : pf = PayFor(f, u, met.left) /\ (l = 0 => pf = 0)
  <2>1. PICK p \in Int : p = f.px
    BY DEF FillSet
  <2>2. PayFor(f, u, met.left) = (s * l * p + u * l) * 12
    BY <1>12, <2>1 DEF PayFor, Scale
  <2>3. (s * l * p + u * l) * 12 \in Int
    OBVIOUS
  <2>4. l = 0 => s * l * p = 0 /\ u * l = 0
    OBVIOUS
  <2> QED
    BY <2>2, <2>3, <2>4
<1>15. tc + cg - cm - pf = 0 - pd - ct
  BY <1>4, <1>8, <1>11, <1>14 DEF Worth
<1>16. Held(t) = rt - ct
  BY <1>9, <1>11 DEF Held
<1>17. CASE l = 0 \/ owner = WindDown
  <2>1. d.lots = met.lots
    BY <1>7, <1>12, <1>17 DEF WithOpened
  <2>2. OneSided(d.lots)
    BY <1>4, <2>1 DEF Spends, SidedBy, OneSided
  <2>3. owner # WindDown => Net(d.lots) = nt + ow
    BY <1>11, <1>12, <1>13, <1>17, <2>1
  <2>4. owner # WindDown \/ nt = 0 - ow => l = 0
    <3>1. ASSUME nt = 0 - ow PROVE l = 0
      <4>1. Net(t.lots) = 0 - Sign(f.buy) * f.size
        BY <1>11, <3>1
      <4> QED
        BY <1>2, <1>3, <1>4, <1>5, <1>12, <4>1, NothingLeft
    <3> QED
      BY <1>17, <3>1
  <2>5. l = 0 => tc + cg - cm = 0 - pd - ct
    BY <1>14, <1>15
  <2>6. Held(d) = rt + (tc + cg) - cm
    BY <1>10, <1>11, <2>1 DEF Held
  <2>7. owner # WindDown \/ nt = 0 - ow => Held(d) = Held(t) - pd
    BY <1>16, <2>4, <2>5, <2>6
  <2> QED
    BY <1>1, <1>11, <2>2, <2>3, <2>7 DEF FillMoves
<1>18. CASE l # 0 /\ owner # WindDown
  <2>1. PICK x : x = OpenedBy(f, owner, met.left, charges)
    OBVIOUS
  <2>2. d.lots = Append(met.lots, x)
    BY <1>7, <1>12, <1>18, <2>1 DEF WithOpened
  <2>3. owner \in Returns /\ met.left \in Nat \ {0}
    BY <1>2, <1>12, <1>18
  <2>4. x \in LotSet /\ x.buy = f.buy /\ Basis(x) = pf /\ Sign(x.buy) * x.size = s * l
    BY <1>6, <1>12, <1>14, <2>1, <2>3, OpenedIs
  <2>5. Net(d.lots) = nm + s * l /\ Cost(d.lots) = cm + pf
    BY <1>5, <1>11, <2>2, <2>4, LotMore
  <2>6. OneSided(d.lots)
    <3>1. SidedBy(met.lots, f.buy)
      <4>1. CASE side = f.buy
        BY <1>4, <4>1 DEF Spends
      <4>2. CASE side # f.buy
        <5>1. met.lots = <<>>
          BY <1>4, <2>3, <4>2 DEF Spends
        <5> QED
          BY <5>1 DEF SidedBy
      <4> QED
        BY <4>1, <4>2
    <3>2. SidedBy(d.lots, f.buy)
      BY <1>5, <2>2, <2>4, <3>1, SidedMore
    <3> QED
      BY <3>2 DEF SidedBy, OneSided
  <2>7. Net(d.lots) = nt + ow
    BY <1>13, <2>5
  <2>8. Held(d) = rt + (tc + cg) - (cm + pf)
    BY <1>10, <2>5 DEF Held
  <2>9. Held(d) = Held(t) - pd
    BY <1>15, <1>16, <2>8
  <2> QED
    BY <1>1, <1>11, <2>6, <2>7, <2>9 DEF FillMoves
<1> QED
  BY <1>12, <1>17, <1>18

-----------------------------------------------------------------------------
(* What is applied to the book. *)

SizesIn(E) == [i \in DOMAIN E |-> E[i].size]
OrderIn(E, c) == {i \in DOMAIN E : E[i].order = c}
AppliedIn(E, b) == {i \in DOMAIN E : IsIn(E[i], b.filled)}

(* The book's money.  A fee is a rate of what was traded, and the closing order's      *)
(* execution flattens the position all the others left.  The lots are of one side, of  *)
(* the size the applied executions left, until the closing one is applied; the money   *)
(* is that of the fills if it is applied last.                                         *)
Priced(e) == \E u \in Int : e.fee = u * e.size
FeesOK(E) == \A i \in DOMAIN E : Priced(E[i])
EndsFlat(E) ==
    \A i \in DOMAIN E : E[i].order = Closing =>
        Total(SignedIn(E), DOMAIN E \ {i}) = 0 - Sign(E[i].buy) * E[i].size
ClosesLast(E, fills) == \A j \in DOMAIN fills : fills[j].order = Closing => j = Len(E)
MoneyOK(E, b) ==
    /\ FeesOK(E) /\ EndsFlat(E) /\ OneSided(b.table.lots)
    /\ Cardinality(AppliedIn(E, b)) = Len(b.filled)
    /\ (\A j \in DOMAIN b.filled : b.filled[j].order # Closing) =>
         Net(b.table.lots) = Total(SignedIn(E), AppliedIn(E, b))
    /\ ClosesLast(E, b.filled) => Held(b.table) = 0 - Spent(b.filled)

(* The book and the executions: the lots belong to returns still open, what is applied *)
(* was read, and each order executed what was applied of it.                           *)
BookOK(E, S, b) ==
    /\ MoneyOK(E, b)
    /\ b \in BookSet
    /\ \A h \in Owners(b.table.lots) : b.table.accounts[h].state = "open"
    /\ \A g : IsIn(g, b.filled) => \E i \in S : g = E[i]
    /\ \A c \in OrderIds : b.table.orders[c].executed = Total(SizesIn(E), OrderIn(E, c) \cap AppliedIn(E, b))
    /\ \A c \in OrderIds : b.table.orders[c].owner = Nobody => b.table.orders[c].executed = 0

(* A fill that was read is applied, unless its order was given up. *)
Fit(E, G, b, f) ==
    /\ f.order \in OrderIds
    /\ b.table.orders[f.order].owner = Nobody => f.order \in G
    /\ b.table.orders[f.order].owner = WindDown => f.order = Closing
    /\ b.table.orders[f.order].owner \in Returns => b.table.accounts[b.table.orders[f.order].owner].state = "open"
    /\ b.table.orders[f.order].owner # Nobody =>
         Total(SizesIn(E), OrderIn(E, f.order)) <= b.table.orders[f.order].ordered

(* What applying a fill leaves alone. *)
Same(b, a) ==
    /\ a.pending = b.pending /\ a.unresolved = b.unresolved
    /\ \A h \in Returns :
         /\ SameStanding(b.table.accounts[h], a.table.accounts[h])
         /\ b.table.accounts[h].state # "open" => a.table.accounts[h].realized = b.table.accounts[h].realized
    /\ \A c \in OrderIds : SameTerms(b.table.orders[c], a.table.orders[c])

(* Only returns are touched. *)
LEMMA TouchedIs ==
  ASSUME NEW b, NEW after, NEW owner \in Returns \cup {WindDown}, NEW late
  PROVE  Touched(b, after, owner, late) \ {WindDown} \subseteq Returns
  BY DEF Touched

(* The lots that survive are counted. *)
LEMMA SurvivorsIs ==
  ASSUME NEW held \in Seq(LotSet), NEW side
  PROVE  Cardinality({i \in DOMAIN held : held[i].buy = side}) \in Nat
<1>1. IsFiniteSet(DOMAIN held) /\ {i \in DOMAIN held : held[i].buy = side} \subseteq DOMAIN held
  BY FiniteDomain
<1> QED
  BY <1>1, FS_Subset, FS_CardinalityType

Checked(b, latest, reordered, tainted) ==
    [b EXCEPT !.latest = latest, !.reordered = reordered, !.tainted = tainted]

(* A fill out of order taints lots and censors returns, and nothing else. *)
LEMMA CheckIs ==
  ASSUME NEW b \in BookSet, NEW f \in FillSet, NEW after \in TableSet,
         after.orders[f.order].owner \in Returns \cup {WindDown}
  PROVE  \E latest \in Int, reordered \in SUBSET Returns, tainted \in Int :
            CheckFillOrder(b, f, after) = Checked(b, latest, reordered, tainted)
<1> DEFINE before == b.table.lots
           held == after.lots
           owner == after.orders[f.order].owner
           late == b.latest # Never /\ f.at < b.latest
           closes == before # <<>> /\ f.buy # before[1].buy
           survivors == IF closes
                        THEN Cardinality({i \in DOMAIN held : held[i].buy = before[1].buy})
                        ELSE Len(before)
           left == b.tainted - (Len(before) - survivors)
           touched == IF late \/ closes THEN Touched(b, after, owner, late) ELSE {}
           latest == IF b.latest > f.at THEN b.latest ELSE f.at
           reordered == b.reordered \cup {h \in touched \ {WindDown} : AccountOpen(b, h)}
           tainted == IF late THEN Len(held) ELSE IF left > 0 THEN left ELSE 0
<1>1. b.latest \in Int /\ b.tainted \in Int /\ b.reordered \in SUBSET Returns /\ f.at \in Int
      /\ before \in Seq(LotSet) /\ held \in Seq(LotSet)
  BY DEF BookSet, TableSet, FillSet
<1>2. survivors \in Nat /\ Len(before) \in Nat /\ Len(held) \in Nat
  <2>1. Len(before) \in Nat /\ Len(held) \in Nat
    BY <1>1
  <2> HIDE DEF before, held
  <2>2. Cardinality({i \in DOMAIN held : held[i].buy = before[1].buy}) \in Nat
    BY <1>1, SurvivorsIs
  <2> QED
    BY <2>1, <2>2
<1>3. latest \in Int
  BY <1>1
<1>4. tainted \in Int
  <2> HIDE DEF survivors, before, held, late
  <2> QED
    BY <1>1, <1>2
<1>5. reordered \in SUBSET Returns
  <2>1. touched \ {WindDown} \subseteq Returns
    BY TouchedIs
  <2> HIDE DEF touched
  <2> QED
    BY <1>1, <2>1
<1>6. CheckFillOrder(b, f, after) =
        IF ~late /\ b.tainted = 0 THEN [b EXCEPT !.latest = latest]
        ELSE [[b EXCEPT !.latest = latest] EXCEPT !.reordered = reordered, !.tainted = tainted]
  BY DEF CheckFillOrder
<1> HIDE DEF before, held, owner, late, closes, survivors, left, touched, latest, reordered, tainted
<1>7. [[b EXCEPT !.latest = latest] EXCEPT !.reordered = reordered, !.tainted = tainted]
        = Checked(b, latest, reordered, tainted)
  BY DEF BookSet, Checked
<1>8. [b EXCEPT !.latest = latest]
        = Checked(b, latest, b.reordered, b.tainted)
  BY DEF BookSet, Checked
<1>9. CASE ~late /\ b.tainted = 0
  BY <1>1, <1>3, <1>6, <1>8, <1>9
<1>10. CASE ~(~late /\ b.tainted = 0)
  BY <1>3, <1>4, <1>5, <1>6, <1>7, <1>10
<1> QED
  BY <1>9, <1>10

(* Every open return keeps what the fill did to it. *)
LEMMA EffectsAre ==
  ASSUME NEW b \in BookSet, NEW at \in Int, NEW after \in TableSet
  PROVE  RecordEffects(b, at, after) \in [Returns -> Seq(EntrySet)]
<1> SUFFICES ASSUME NEW h \in Returns
             PROVE  /\ Append(b.history[h], Effect(b, at, after, h)) \in Seq(EntrySet)
                    /\ b.history[h] \in Seq(EntrySet)
  BY DEF RecordEffects
<1>1. b.history[h] \in Seq(EntrySet)
  BY DEF BookSet
<1>2. b.table \in TableSet
  BY DEF BookSet
<1>3. b.table.accounts[h].realized \in Int /\ after.accounts[h].realized \in Int /\ after.lots \in Seq(LotSet)
  BY <1>2 DEF TableSet, AccountSet
<1>4. PICK lots : lots = LotsOf(after, h)
  OBVIOUS
<1>5. lots \in Seq(LotSet)
  BY <1>3, <1>4, OwnIsLots
<1>6. PICK changed \in BOOLEAN : changed = (LotsOf(b.table, h) # lots)
  OBVIOUS
<1>7. PICK realized \in Int : realized = after.accounts[h].realized - b.table.accounts[h].realized
  BY <1>3
<1>8. Effect(b, at, after, h) = [at |-> at, lots |-> lots, changed |-> changed, realized |-> realized]
  BY <1>4, <1>6, <1>7 DEF Effect
<1>9. Effect(b, at, after, h) \in EntrySet
  BY <1>5, <1>8 DEF EntrySet
<1> QED
  BY <1>1, <1>9, AppendIs

(* The book a fill leaves, field by field. *)
LEMMA ApplyFields ==
  ASSUME NEW b \in BookSet, NEW f \in FillSet, ~Refused(b, f), NEW a, a = ApplyFill(b, f)
  PROVE  /\ a \in BookSet /\ a.table = Fill(b.table, f) /\ a.filled = Append(b.filled, f)
         /\ a.pending = b.pending /\ a.unresolved = b.unresolved /\ a.deferred = b.deferred
         /\ a.refused = b.refused
<1>1. PICK after : after = Fill(b.table, f)
  OBVIOUS
<1>2. b.table \in TableSet /\ b.table.orders[f.order].owner # Nobody /\ f.order \in OrderIds /\ f.at \in Int
  BY DEF BookSet, FillSet, Refused
<1>3. after \in TableSet /\ after.orders[f.order].owner = b.table.orders[f.order].owner
  BY <1>1, <1>2, FillIs DEF FillLeaves, SameTerms
<1>4. b.table.orders[f.order].owner \in Returns \cup {WindDown}
  BY <1>2 DEF TableSet, OrderSet
<1>5. PICK latest \in Int, reordered \in SUBSET Returns, tainted \in Int :
        CheckFillOrder(b, f, after) = Checked(b, latest, reordered, tainted)
  BY <1>3, <1>4, CheckIs
<1>6. PICK history : history = RecordEffects(b, f.at, after)
  OBVIOUS
<1>7. history \in [Returns -> Seq(EntrySet)]
  BY <1>2, <1>3, <1>6, EffectsAre
<1>8. PICK filled : filled = Append(b.filled, f)
  OBVIOUS
<1>9. filled \in Seq(FillSet)
  BY <1>8, AppendIs DEF BookSet
<1>10. PICK c : c = CheckFillOrder(b, f, after)
  OBVIOUS
<1>11. c \in BookSet /\ c.filled = b.filled /\ c.pending = b.pending /\ c.unresolved = b.unresolved
       /\ c.deferred = b.deferred /\ c.refused = b.refused
  BY <1>5, <1>10 DEF BookSet, Checked
<1>12. a = [c EXCEPT !.table = after, !.history = history, !.filled = Append(@, f)]
  BY <1>1, <1>6, <1>10 DEF ApplyFill
<1>13. a = [c EXCEPT !.table = after, !.history = history, !.filled = filled]
  BY <1>8, <1>11, <1>12
<1>14. a \in BookSet /\ a.table = after /\ a.filled = filled /\ a.pending = c.pending
       /\ a.unresolved = c.unresolved /\ a.deferred = c.deferred /\ a.refused = c.refused
  BY <1>3, <1>7, <1>9, <1>11, <1>13 DEF BookSet
<1> QED
  BY <1>1, <1>8, <1>11, <1>14

Distinct(E) == \A i, j \in DOMAIN E : E[i] = E[j] => i = j

(* The executions of an order have sizes. *)
LEMMA SizesAre ==
  ASSUME NEW E \in Seq(FillSet), NEW c
  PROVE  /\ IsFiniteSet(DOMAIN E) /\ DOMAIN E = 1 .. Len(E) /\ Len(E) \in Nat
         /\ IsFiniteSet(OrderIn(E, c)) /\ OrderIn(E, c) \subseteq DOMAIN E
         /\ \A i \in DOMAIN E : SizesIn(E)[i] = E[i].size /\ SizesIn(E)[i] \in Nat \ {0} /\ E[i] \in FillSet
<1>1. IsFiniteSet(DOMAIN E) /\ DOMAIN E = 1 .. Len(E) /\ Len(E) \in Nat /\ \A i \in DOMAIN E : E[i] \in FillSet
  BY FiniteDomain
<1>2. OrderIn(E, c) \subseteq DOMAIN E
  BY DEF OrderIn
<1>3. \A i \in DOMAIN E : SizesIn(E)[i] = E[i].size /\ SizesIn(E)[i] \in Nat \ {0}
  BY <1>1 DEF SizesIn, FillSet
<1> QED
  BY <1>1, <1>2, <1>3, FS_Subset

(* What is not applied of a bound order still fits into what was ordered. *)
LEMMA NotRefused ==
  ASSUME NEW E \in Seq(FillSet), NEW S, NEW G, NEW b, BookOK(E, S, b),
         NEW i \in DOMAIN E, ~IsIn(E[i], b.filled), Fit(E, G, b, E[i]),
         b.table.orders[E[i].order].owner # Nobody
  PROVE  ~Refused(b, E[i])
<1>1. PICK c : c = E[i].order
  OBVIOUS
<1>2. c \in OrderIds /\ Total(SizesIn(E), OrderIn(E, c)) <= b.table.orders[c].ordered
  BY <1>1 DEF Fit
<1>3. PICK all : all = OrderIn(E, c)
  OBVIOUS
<1>4. PICK part : part = OrderIn(E, c) \cap AppliedIn(E, b)
  OBVIOUS
<1>5. IsFiniteSet(all) /\ part \in SUBSET all /\ (\A j \in all : SizesIn(E)[j] \in Nat) /\ i \in all \ part
  <2>1. i \in all \ part
    BY <1>1, <1>3, <1>4 DEF OrderIn, AppliedIn
  <2>2. IsFiniteSet(all) /\ all \subseteq DOMAIN E /\ \A j \in DOMAIN E : SizesIn(E)[j] \in Nat
    BY <1>3, SizesAre
  <2> QED
    BY <1>3, <1>4, <2>1, <2>2
<1>6. Total(SizesIn(E), part) + SizesIn(E)[i] <= Total(SizesIn(E), all)
      /\ Total(SizesIn(E), part) \in Nat /\ Total(SizesIn(E), all) \in Nat
  BY <1>5, TotalPart
<1>7. b.table.orders[c].executed = Total(SizesIn(E), part)
  BY <1>2, <1>4 DEF BookOK
<1>8. b.table.orders[c].ordered \in Int
  BY <1>2 DEF BookOK, BookSet, TableSet, OrderSet
<1>9. SizesIn(E)[i] = E[i].size /\ SizesIn(E)[i] \in Nat
  BY SizesAre
<1>10. PICK sum \in Nat, whole \in Nat : sum = Total(SizesIn(E), part) /\ whole = Total(SizesIn(E), all)
  BY <1>6
<1>13. PICK size \in Nat, ordered \in Int : size = E[i].size /\ ordered = b.table.orders[c].ordered
  BY <1>8, <1>9
<1>14. sum + size <= whole /\ whole <= ordered
  BY <1>2, <1>3, <1>6, <1>9, <1>10, <1>13
<1>11. ~(sum + size > ordered)
  BY <1>14
<1>12. b.table.orders[c].owner # Nobody /\ ~(b.table.orders[c].executed + E[i].size > b.table.orders[c].ordered)
  BY <1>1, <1>7, <1>10, <1>11, <1>13
<1> QED
  BY <1>1, <1>12 DEF Refused

(* The executions count for whole numbers, on any set of them. *)
LEMMA SignedAre ==
  ASSUME NEW E \in Seq(FillSet)
  PROVE  /\ IsFiniteSet(DOMAIN E) /\ DOMAIN E = 1 .. Len(E) /\ Len(E) \in Nat
         /\ Cardinality(DOMAIN E) = Len(E)
         /\ \A i \in DOMAIN E : /\ E[i] \in FillSet /\ SignedIn(E)[i] = Sign(E[i].buy) * E[i].size
                               /\ SignedIn(E)[i] \in Int
<1>1. IsFiniteSet(DOMAIN E) /\ DOMAIN E = 1 .. Len(E) /\ Len(E) \in Nat /\ \A i \in DOMAIN E : E[i] \in FillSet
  BY FiniteDomain
<1>2. \A i \in DOMAIN E : SignedIn(E)[i] = Sign(E[i].buy) * E[i].size
  BY DEF SignedIn
<1>3. Cardinality(1 .. Len(E)) = Len(E)
  <2>1. Cardinality(1 .. Len(E)) = IF 1 > Len(E) THEN 0 ELSE Len(E) - 1 + 1
    BY <1>1, FS_Interval
  <2> QED
    BY <1>1, <2>1
<1> QED
  BY <1>1, <1>2, <1>3, TermsAreInt

(* A book with the same lots, fills and realised money. *)
LEMMA MoneyStays ==
  ASSUME NEW E, NEW b \in BookSet, NEW a \in BookSet, MoneyOK(E, b), AppliedIn(E, a) = AppliedIn(E, b),
         a.filled = b.filled, a.table.lots = b.table.lots,
         \A h \in Returns : a.table.accounts[h].realized = b.table.accounts[h].realized
  PROVE  MoneyOK(E, a)
<1>1. /\ a.table.accounts \in [Returns -> AccountSet] /\ b.table.accounts \in [Returns -> AccountSet]
  BY DEF BookSet, TableSet
<1>2. \A h \in Returns : RealizedIn(b.table.accounts)[h] \in Int
                         /\ RealizedIn(a.table.accounts)[h] = RealizedIn(b.table.accounts)[h]
  <2> SUFFICES ASSUME NEW h \in Returns
               PROVE  RealizedIn(b.table.accounts)[h] \in Int
                        /\ RealizedIn(a.table.accounts)[h] = RealizedIn(b.table.accounts)[h]
    OBVIOUS
  <2>1. RealizedIn(b.table.accounts)[h] = b.table.accounts[h].realized /\ b.table.accounts[h].realized \in Int
    BY <1>1, RealizedIs
  <2>2. RealizedIn(a.table.accounts)[h] = a.table.accounts[h].realized
    BY <1>1, RealizedIs
  <2> QED
    BY <2>1, <2>2
<1>3. Total(RealizedIn(a.table.accounts), Returns) = Total(RealizedIn(b.table.accounts), Returns)
  BY <1>2, FewReturns, TotalSame
<1>4. Held(a.table) = Held(b.table)
  BY <1>3 DEF Held, Realized
<1> QED
  BY <1>4 DEF MoneyOK

(* A book with the same table and fills. *)
LEMMA MoneyKept ==
  ASSUME NEW E, NEW b \in BookSet, NEW a \in BookSet, MoneyOK(E, b), AppliedIn(E, a) = AppliedIn(E, b),
         a.filled = b.filled, a.table = b.table
  PROVE  MoneyOK(E, a)
  BY MoneyStays

(* Applying one more fill: the money is that of the fills. *)
LEMMA ApplyMoney ==
  ASSUME NEW E \in Seq(FillSet), NEW b \in BookSet, MoneyOK(E, b), NEW i \in DOMAIN E,
         NEW f, f = E[i], b.table.orders[f.order].owner # Nobody,
         b.table.orders[f.order].owner = WindDown => f.order = Closing,
         NEW a \in BookSet, a.table = Fill(b.table, f), a.filled = Append(b.filled, f),
         AppliedIn(E, a) = AppliedIn(E, b) \cup {i}, i \notin AppliedIn(E, b)
  PROVE  MoneyOK(E, a)
<1>1. PICK A : A = AppliedIn(E, b)
  OBVIOUS
<1>2. /\ IsFiniteSet(DOMAIN E) /\ DOMAIN E = 1 .. Len(E) /\ Len(E) \in Nat /\ Cardinality(DOMAIN E) = Len(E)
      /\ \A j \in DOMAIN E : SignedIn(E)[j] \in Int
      /\ f \in FillSet /\ SignedIn(E)[i] = Sign(f.buy) * f.size
  BY SignedAre
<1>3. A \in SUBSET DOMAIN E /\ IsFiniteSet(A) /\ i \notin A /\ AppliedIn(E, a) = A \cup {i}
  <2>1. A \in SUBSET DOMAIN E
    BY <1>1 DEF AppliedIn
  <2> QED
    BY <1>1, <1>2, <2>1, FS_Subset
<1>4. Cardinality(A \cup {i}) = Cardinality(A) + 1 /\ Cardinality(A) = Len(b.filled) /\ Cardinality(A) \in Nat
  <2>1. Cardinality(A \cup {i}) = Cardinality(A) + 1
    BY <1>3, FS_AddElement
  <2>2. Cardinality(A) \in Nat
    BY <1>3, FS_CardinalityType
  <2> QED
    BY <1>1, <2>1, <2>2 DEF MoneyOK
<1>5. PICK n \in Nat : n = Len(b.filled)
  BY <1>4
<1>6. /\ b.filled \in Seq(FillSet) /\ b.table \in TableSet /\ b.table.lots \in Seq(LotSet)
  BY DEF BookSet, TableSet
<1>7. /\ DOMAIN b.filled = 1 .. n /\ DOMAIN a.filled = 1 .. n + 1 /\ a.filled[n + 1] = f
      /\ \A j \in DOMAIN b.filled : a.filled[j] = b.filled[j] /\ j \in DOMAIN a.filled
      /\ Len(a.filled) = n + 1
  <2>1. Len(a.filled) = n + 1
    BY <1>2, <1>5, <1>6
  <2> QED
    BY <1>2, <1>5, <1>6, <2>1, AppendIs
<1>8. n + 1 <= Len(E)
  <2>1. A \cup {i} \in SUBSET DOMAIN E
    BY <1>3
  <2>2. Cardinality(A \cup {i}) <= Cardinality(DOMAIN E)
    BY <1>2, <2>1, FS_Subset
  <2> QED
    BY <1>2, <1>4, <1>5, <2>2
<1>9. PICK u \in Int : f.fee = u * f.size
  BY DEF MoneyOK, FeesOK, Priced
<1>10. FillMoves(b.table, f, a.table)
  BY <1>2, <1>6, <1>9, FillKeeps DEF MoneyOK
<1>11. Total(SignedIn(E), A \cup {i}) = Total(SignedIn(E), A) + Sign(f.buy) * f.size
  <2>1. \A j \in DOMAIN E : SignedIn(E)[j] \in Int
    BY <1>2
  <2>2. Total(SignedIn(E), A \cup {i}) = Total(SignedIn(E), A) + SignedIn(E)[i]
    <3>1. PICK g : g = SignedIn(E)
      OBVIOUS
    <3>2. IsFiniteSet(DOMAIN E) /\ \A j \in DOMAIN E : g[j] \in Int
      BY <1>2, <2>1, <3>1
    <3>3. A \in SUBSET DOMAIN E /\ i \notin A
      BY <1>3
    <3>4. Total(g, A \cup {i}) = Total(g, A) + g[i]
      <4>1. PICK D : D = DOMAIN E
        OBVIOUS
      <4>2. IsFiniteSet(D) /\ (\A j \in D : g[j] \in Int) /\ A \in SUBSET D /\ i \in D /\ i \notin A
        BY <3>2, <3>3, <4>1
      <4> QED
        BY <4>2, TotalAdd
    <3> QED
      BY <3>1, <3>4
  <2> QED
    BY <1>2, <2>2
<1>12. ASSUME \A j \in DOMAIN a.filled : a.filled[j].order # Closing
       PROVE  Net(a.table.lots) = Total(SignedIn(E), AppliedIn(E, a))
  <2>1. f.order # Closing
    BY <1>5, <1>7, <1>12
  <2>2. \A j \in DOMAIN b.filled : b.filled[j].order # Closing
    BY <1>7, <1>12
  <2>3. Net(b.table.lots) = Total(SignedIn(E), A)
    BY <1>1, <2>2 DEF MoneyOK
  <2>4. Net(a.table.lots) = Net(b.table.lots) + Sign(f.buy) * f.size
    BY <1>10, <2>1 DEF FillMoves
  <2> QED
    BY <1>3, <1>11, <2>3, <2>4
<1>13. ASSUME ClosesLast(E, a.filled) PROVE Held(a.table) = 0 - Spent(a.filled)
  <2>1. \A j \in DOMAIN b.filled : b.filled[j].order # Closing
    <3> SUFFICES ASSUME NEW j \in DOMAIN b.filled, b.filled[j].order = Closing PROVE FALSE
      OBVIOUS
    <3>1. j = Len(E)
      BY <1>7, <1>13 DEF ClosesLast
    <3>2. j \in 1 .. n
      BY <1>7
    <3> QED
      BY <1>2, <1>5, <1>8, <3>1, <3>2
  <2>2. Held(b.table) = 0 - Spent(b.filled) /\ Net(b.table.lots) = Total(SignedIn(E), A)
    BY <1>1, <2>1 DEF MoneyOK, ClosesLast
  <2>3. b.table.orders[f.order].owner # WindDown \/ Net(b.table.lots) = 0 - Sign(f.buy) * f.size
    <3> SUFFICES ASSUME f.order = Closing PROVE Net(b.table.lots) = 0 - Sign(f.buy) * f.size
      OBVIOUS
    <3>1. n + 1 = Len(E)
      BY <1>5, <1>7, <1>13 DEF ClosesLast
    <3>2. A = DOMAIN E \ {i}
      <4>1. A \in SUBSET (DOMAIN E \ {i}) /\ IsFiniteSet(DOMAIN E \ {i})
        BY <1>2, <1>3, FS_RemoveElement
      <4>2. Cardinality(DOMAIN E \ {i}) = Cardinality(DOMAIN E) - 1
        BY <1>2, FS_RemoveElement
      <4>3. Cardinality(A) = Cardinality(DOMAIN E \ {i})
        <5>1. PICK m \in Nat : m = Len(E)
          BY <1>2
        <5>2. Cardinality(DOMAIN E \ {i}) = m - 1
          BY <1>2, <4>2, <5>1
        <5>3. n = m - 1
          BY <3>1, <5>1
        <5>4. Cardinality(A) = n
          BY <1>4, <1>5
        <5> QED
          BY <5>2, <5>3, <5>4
      <4> QED
        BY <4>1, <4>3, FS_Subset
    <3>3. Total(SignedIn(E), DOMAIN E \ {i}) = 0 - Sign(f.buy) * f.size
      BY DEF MoneyOK, EndsFlat
    <3> QED
      BY <2>2, <3>2, <3>3
  <2>4. Held(a.table) = Held(b.table) - Paid(f)
    BY <1>10, <2>3 DEF FillMoves
  <2>5. Spent(a.filled) = Spent(b.filled) + Paid(f) /\ Spent(b.filled) \in Int /\ Paid(f) \in Int
    BY <1>2, <1>6, FillMore, TermsAreInt
  <2> QED
    BY <2>2, <2>4, <2>5
<1>14. Cardinality(AppliedIn(E, a)) = Len(a.filled)
  BY <1>3, <1>4, <1>5, <1>7
<1>15. FeesOK(E) /\ EndsFlat(E) /\ OneSided(a.table.lots)
  BY <1>10 DEF MoneyOK, FillMoves
<1> QED
  BY <1>12, <1>13, <1>14, <1>15 DEF MoneyOK

(* Applying one more fill: the book stays in order. *)
LEMMA ApplyBooked ==
  ASSUME NEW E \in Seq(FillSet), Distinct(E), NEW S \in SUBSET DOMAIN E, NEW G, NEW b, BookOK(E, S, b),
         NEW i \in S, ~IsIn(E[i], b.filled), Fit(E, G, b, E[i]), ~Refused(b, E[i]),
         NEW a, a = ApplyFill(b, E[i])
  PROVE  BookOK(E, S, a)
<1>1. PICK f : f = E[i]
  OBVIOUS
<1>2. f \in FillSet /\ b \in BookSet /\ b.table \in TableSet /\ ~Refused(b, f) /\ a = ApplyFill(b, f)
      /\ b.filled \in Seq(FillSet)
  BY <1>1, SizesAre DEF BookOK, BookSet
<1>3. a \in BookSet /\ a.table = Fill(b.table, f) /\ a.filled = Append(b.filled, f)
  BY <1>2, ApplyFields
<1>4. b.table.orders[f.order].owner # Nobody /\ f.order \in OrderIds
  BY <1>2 DEF Refused, FillSet
<1>5. PICK owner : owner = b.table.orders[f.order].owner
  OBVIOUS
<1>6. /\ Owners(a.table.lots) \subseteq Owners(b.table.lots) \cup ({owner} \cap Returns)
      /\ \A h \in Returns : SameStanding(b.table.accounts[h], a.table.accounts[h])
      /\ \A c \in OrderIds : /\ SameTerms(b.table.orders[c], a.table.orders[c])
                             /\ c # f.order => a.table.orders[c] = b.table.orders[c]
      /\ a.table.orders[f.order].executed = b.table.orders[f.order].executed + f.size
  <2>1. FillLeaves(b.table, f, a.table)
    BY <1>2, <1>3, <1>4, FillIs
  <2> QED
    BY <1>5, <2>1 DEF FillLeaves
<1>7. \A h \in Owners(a.table.lots) : a.table.accounts[h].state = "open"
  <2>1. owner \in Returns => b.table.accounts[owner].state = "open"
    BY <1>1, <1>5 DEF Fit
  <2>2. \A h \in Owners(b.table.lots) : b.table.accounts[h].state = "open" /\ h \in Returns
    <3>1. PICK lots : lots = b.table.lots
      OBVIOUS
    <3>2. lots \in Seq(LotSet)
      BY <1>2, <3>1 DEF TableSet
    <3>3. \A j \in DOMAIN lots : lots[j] \in LotSet
      BY <3>2
    <3>4. \A j \in DOMAIN lots : lots[j].owner \in Returns
      BY <3>3 DEF LotSet
    <3> QED
      BY <3>1, <3>4 DEF BookOK, Owners
  <2>3. \A h \in Returns : a.table.accounts[h].state = b.table.accounts[h].state
    BY <1>6 DEF SameStanding
  <2> QED
    BY <1>6, <2>1, <2>2, <2>3
<1>8. \A g : IsIn(g, a.filled) <=> IsIn(g, b.filled) \/ g = f
  BY <1>2, <1>3, AppendIn
<1>9. \A g : IsIn(g, a.filled) => \E j \in S : g = E[j]
  BY <1>1, <1>8 DEF BookOK
<1>10. AppliedIn(E, a) = AppliedIn(E, b) \cup {i} /\ i \notin AppliedIn(E, b)
  BY <1>1, <1>8 DEF AppliedIn, Distinct
<1>11. ASSUME NEW c \in OrderIds
       PROVE  a.table.orders[c].executed = Total(SizesIn(E), OrderIn(E, c) \cap AppliedIn(E, a))
  <2>1. b.table.orders[c].executed = Total(SizesIn(E), OrderIn(E, c) \cap AppliedIn(E, b))
    BY DEF BookOK
  <2>2. CASE c # f.order
    <3>1. OrderIn(E, c) \cap AppliedIn(E, a) = OrderIn(E, c) \cap AppliedIn(E, b)
      BY <1>1, <1>10, <2>2 DEF OrderIn
    <3> QED
      BY <1>6, <2>1, <2>2, <3>1
  <2>3. CASE c = f.order
    <3>1. PICK part : part = OrderIn(E, c) \cap AppliedIn(E, b)
      OBVIOUS
    <3>2. OrderIn(E, c) \cap AppliedIn(E, a) = part \cup {i} /\ i \notin part /\ part \in SUBSET DOMAIN E
      BY <1>1, <1>10, <2>3, <3>1 DEF OrderIn
    <3>3. IsFiniteSet(DOMAIN E) /\ (\A j \in DOMAIN E : SizesIn(E)[j] \in Int) /\ SizesIn(E)[i] = f.size
      <4>1. IsFiniteSet(DOMAIN E) /\ \A j \in DOMAIN E : SizesIn(E)[j] = E[j].size /\ SizesIn(E)[j] \in Nat \ {0}
        BY SizesAre
      <4> QED
        BY <1>1, <4>1
    <3>4. Total(SizesIn(E), part \cup {i}) = Total(SizesIn(E), part) + f.size
      BY <3>2, <3>3, TotalAdd
    <3> QED
      BY <1>6, <2>1, <2>3, <3>1, <3>2, <3>4
  <2> QED
    BY <2>2, <2>3
<1>12. ASSUME NEW c \in OrderIds, a.table.orders[c].owner = Nobody PROVE a.table.orders[c].executed = 0
  <2>1. b.table.orders[c].owner = Nobody /\ c # f.order
    BY <1>4, <1>6, <1>12 DEF SameTerms
  <2> QED
    BY <1>6, <2>1 DEF BookOK
<1>13. MoneyOK(E, a)
  <2>1. MoneyOK(E, b) /\ i \in DOMAIN E
    BY DEF BookOK
  <2>2. b.table.orders[f.order].owner = WindDown => f.order = Closing
    BY <1>1 DEF Fit
  <2> QED
    BY <1>1, <1>2, <1>3, <1>4, <1>10, <2>1, <2>2, ApplyMoney
<1> QED
  BY <1>3, <1>7, <1>9, <1>11, <1>12, <1>13 DEF BookOK

(* What stays as it was lets what fits fit. *)
LEMMA FitStays ==
  ASSUME NEW E, NEW G, NEW b, NEW a, Same(b, a), NEW f, Fit(E, G, b, f)
  PROVE  Fit(E, G, a, f)
  BY DEF Same, Fit, SameStanding, SameTerms

(* What two steps leave alone both leave alone. *)
LEMMA SameAgain ==
  ASSUME NEW b, NEW a, NEW d, Same(b, a), Same(a, d)
  PROVE  Same(b, d)
  BY DEF Same, SameStanding, SameTerms

(* No step leaves everything alone. *)
LEMMA SameItself ==
  ASSUME NEW b
  PROVE  Same(b, b)
  BY DEF Same, SameStanding, SameTerms

(* Applying one more fill. *)
Took(G, b, f, a) ==
    /\ Same(b, a) /\ a.deferred = b.deferred /\ b.refused \subseteq a.refused
    /\ IsIn(f, a.filled) \/ (f \in a.refused /\ f.order \in G)
    /\ \A g : IsIn(g, b.filled) => IsIn(g, a.filled)
    /\ \A g : IsIn(g, a.filled) => IsIn(g, b.filled) \/ g = f

(* A fill that fits is applied, or refused because its order was given up. *)
LEMMA ApplyIs ==
  ASSUME NEW E \in Seq(FillSet), Distinct(E), NEW S \in SUBSET DOMAIN E, NEW G, NEW b, BookOK(E, S, b),
         NEW i \in S, ~IsIn(E[i], b.filled), Fit(E, G, b, E[i]),
         NEW a, a = ApplyFill(b, E[i])
  PROVE  BookOK(E, S, a) /\ Took(G, b, E[i], a)
<1>1. PICK f : f = E[i]
  OBVIOUS
<1>2. f \in FillSet /\ b \in BookSet /\ b.table \in TableSet /\ a = ApplyFill(b, f) /\ b.filled \in Seq(FillSet)
  BY <1>1, SizesAre DEF BookOK, BookSet
<1>3. CASE Refused(b, f)
  <2>1. a = [b EXCEPT !.refused = @ \cup {f}]
    BY <1>2, <1>3 DEF ApplyFill
  <2>2. a \in BookSet /\ a.table = b.table /\ a.filled = b.filled /\ a.deferred = b.deferred
        /\ a.pending = b.pending /\ a.unresolved = b.unresolved /\ a.refused = b.refused \cup {f}
    <3>1. PICK refused : refused = b.refused \cup {f}
      OBVIOUS
    <3>2. refused \in SUBSET FillSet
      BY <1>2, <3>1 DEF BookSet
    <3>3. a = [b EXCEPT !.refused = refused]
      BY <1>2, <2>1, <3>1
    <3> QED
      BY <1>2, <3>1, <3>2, <3>3 DEF BookSet
  <2>3. f.order \in G
    <3>1. i \in DOMAIN E
      OBVIOUS
    <3>2. b.table.orders[f.order].owner = Nobody
      BY <1>1, <1>3, <3>1, NotRefused
    <3> QED
      BY <1>1, <3>2 DEF Fit
  <2>4. AppliedIn(E, a) = AppliedIn(E, b)
    BY <2>2 DEF AppliedIn
  <2>5. BookOK(E, S, a)
    <3>2. MoneyOK(E, a)
      BY <2>2, <2>4, MoneyKept DEF BookOK
    <3> QED
      BY <2>2, <2>4, <3>2 DEF BookOK
  <2>6. Same(b, a)
    BY <2>2, SameItself DEF Same
  <2> QED
    BY <1>1, <2>2, <2>3, <2>5, <2>6 DEF Took
<1>4. CASE ~Refused(b, f)
  <2>1. BookOK(E, S, a)
    BY <1>1, <1>4, ApplyBooked
  <2>2. a.table = Fill(b.table, f) /\ a.filled = Append(b.filled, f) /\ a.deferred = b.deferred
        /\ a.pending = b.pending /\ a.unresolved = b.unresolved /\ a.refused = b.refused
    BY <1>2, <1>4, ApplyFields
  <2>3. b.table.orders[f.order].owner # Nobody /\ f.order \in OrderIds
    BY <1>2, <1>4 DEF Refused, FillSet
  <2>4. PICK owner : owner = b.table.orders[f.order].owner
    OBVIOUS
  <2>5. /\ \A h \in Returns :
              /\ SameStanding(b.table.accounts[h], a.table.accounts[h])
              /\ h \notin Owners(b.table.lots) \cup {owner} =>
                   a.table.accounts[h].realized = b.table.accounts[h].realized
        /\ \A c \in OrderIds : SameTerms(b.table.orders[c], a.table.orders[c])
    <3>1. FillLeaves(b.table, f, a.table)
      BY <1>2, <2>2, <2>3, FillIs
    <3> QED
      BY <2>4, <3>1 DEF FillLeaves
  <2>6. \A h \in Returns : b.table.accounts[h].state # "open" => h \notin Owners(b.table.lots) \cup {owner}
    BY <1>1, <2>4 DEF BookOK, Fit
  <2>7. Same(b, a)
    BY <2>2, <2>5, <2>6 DEF Same
  <2>8. \A g : IsIn(g, a.filled) <=> IsIn(g, b.filled) \/ g = f
    BY <1>2, <2>2, AppendIn
  <2> QED
    BY <1>1, <2>1, <2>2, <2>7, <2>8 DEF Took
<1> QED
  BY <1>3, <1>4

(* A run of fills applied one after the other, the first k of them. *)
Picked(D, chosen, k) == {j \in DOMAIN D : j \in chosen /\ j <= k}
ReplayedTo(E, S, G, b, D, chosen, k, a) ==
    /\ BookOK(E, S, a) /\ Same(b, a) /\ a.deferred = b.deferred /\ b.refused \subseteq a.refused
    /\ \A g : IsIn(g, b.filled) => IsIn(g, a.filled)
    /\ \A j \in Picked(D, chosen, k) : IsIn(D[j], a.filled) \/ (D[j] \in a.refused /\ D[j].order \in G)
    /\ \A g : IsIn(g, a.filled) => IsIn(g, b.filled) \/ \E j \in Picked(D, chosen, k) : g = D[j]

(* They were read, none is applied, each fits, and no two are the same. *)
Replayable(E, S, G, b, D, chosen) ==
    /\ D \in Seq(FillSet)
    /\ \A k \in DOMAIN D : k \in chosen =>
         (\E i \in S : D[k] = E[i]) /\ ~IsIn(D[k], b.filled) /\ Fit(E, G, b, D[k])
    /\ \A j, k \in DOMAIN D : j \in chosen /\ k \in chosen /\ D[j] = D[k] => j = k

(* One more of the run. *)
LEMMA ReplayOne ==
  ASSUME NEW E \in Seq(FillSet), Distinct(E), NEW S \in SUBSET DOMAIN E, NEW G, NEW b, b.pending = {},
         NEW D, NEW chosen, Replayable(E, S, G, b, D, chosen),
         NEW k \in Nat, k + 1 \in DOMAIN D,
         NEW c, ReplayedTo(E, S, G, b, D, chosen, k, c),
         NEW a, a = EachOne(D, chosen, c, k + 1)
  PROVE  ReplayedTo(E, S, G, b, D, chosen, k + 1, a)
<1>1. \A j \in Picked(D, chosen, k + 1) : j \in Picked(D, chosen, k) \/ (j = k + 1 /\ k + 1 \in chosen)
  <2>1. DOMAIN D \subseteq Nat
    BY FiniteDomain DEF Replayable
  <2> QED
    BY <2>1 DEF Picked
<1>2. \A j \in Picked(D, chosen, k) : j \in Picked(D, chosen, k + 1) /\ j # k + 1 /\ j \in chosen /\ j \in DOMAIN D
  <2>1. DOMAIN D \subseteq Nat
    BY FiniteDomain DEF Replayable
  <2> QED
    BY <2>1 DEF Picked
<1>3. CASE k + 1 \notin chosen
  <2>1. a = c
    BY <1>3 DEF EachOne
  <2> QED
    BY <1>1, <1>2, <1>3, <2>1 DEF ReplayedTo
<1>4. CASE k + 1 \in chosen
  <2>1. k + 1 \in Picked(D, chosen, k + 1)
    BY <1>4 DEF Picked
  <2>2. c.pending = {} /\ Same(b, c) /\ BookOK(E, S, c)
    BY DEF ReplayedTo, Same
  <2>3. a = ApplyFill(c, D[k + 1])
    BY <1>4, <2>2 DEF EachOne, Observe
  <2>4. PICK i \in S : D[k + 1] = E[i]
    BY <1>4 DEF Replayable
  <2>5. ~IsIn(D[k + 1], b.filled) /\ Fit(E, G, b, D[k + 1])
    BY <1>4 DEF Replayable
  <2>6. ~IsIn(D[k + 1], c.filled)
    <3>1. \A j \in Picked(D, chosen, k) : D[j] # D[k + 1]
      BY <1>2, <1>4 DEF Replayable
    <3> QED
      BY <2>5, <3>1 DEF ReplayedTo
  <2>7. Fit(E, G, c, D[k + 1])
    BY <2>2, <2>5, FitStays
  <2>8. BookOK(E, S, a) /\ Took(G, c, D[k + 1], a)
    BY <2>2, <2>3, <2>4, <2>6, <2>7, ApplyIs
  <2>9. Same(b, a)
    BY <2>2, <2>8, SameAgain DEF Took
  <2>10. a.deferred = b.deferred /\ b.refused \subseteq a.refused /\ \A g : IsIn(g, b.filled) => IsIn(g, a.filled)
    BY <2>8 DEF Took, ReplayedTo
  <2>11. \A j \in Picked(D, chosen, k + 1) : IsIn(D[j], a.filled) \/ (D[j] \in a.refused /\ D[j].order \in G)
    BY <1>1, <2>8 DEF Took, ReplayedTo
  <2>12. \A g : IsIn(g, a.filled) => IsIn(g, b.filled) \/ \E j \in Picked(D, chosen, k + 1) : g = D[j]
    BY <1>2, <2>1, <2>8 DEF Took, ReplayedTo
  <2> QED
    BY <2>8, <2>9, <2>10, <2>11, <2>12 DEF ReplayedTo
<1> QED
  BY <1>3, <1>4

(* All of the run. *)
LEMMA ReplayIs ==
  ASSUME NEW E \in Seq(FillSet), Distinct(E), NEW S \in SUBSET DOMAIN E, NEW G, NEW b,
         BookOK(E, S, b), b.pending = {}, NEW D, NEW chosen, Replayable(E, S, G, b, D, chosen),
         NEW a, a = ObserveEach(b, D, chosen)
  PROVE  ReplayedTo(E, S, G, b, D, chosen, Len(D), a)
<1> DEFINE n == Len(D)
<1>1. n \in Nat /\ DOMAIN D = 1 .. n
  BY FiniteDomain DEF Replayable
<1> HIDE DEF n
<1>2. PICK after : EachSteps(b, D, chosen, n, after) /\ after[n] = ObserveEach(b, D, chosen)
  BY <1>1, EachRuns
<1> DEFINE N == {k \in Nat : k <= n => ReplayedTo(E, S, G, b, D, chosen, k, after[k])}
<1>3. 0 \in N
  <2>1. after[0] = b
    BY <1>2 DEF EachSteps
  <2>2. Picked(D, chosen, 0) = {}
    BY <1>1 DEF Picked
  <2>3. ReplayedTo(E, S, G, b, D, chosen, 0, b)
    BY <2>2, SameItself DEF ReplayedTo
  <2> QED
    BY <2>1, <2>3
<1>4. ASSUME NEW k \in N PROVE k + 1 \in N
  <2> SUFFICES ASSUME k + 1 <= n PROVE ReplayedTo(E, S, G, b, D, chosen, k + 1, after[k + 1])
    OBVIOUS
  <2>1. k \in Nat /\ ReplayedTo(E, S, G, b, D, chosen, k, after[k]) /\ k + 1 \in 1 .. n /\ (k + 1) - 1 = k
    BY <1>1
  <2>2. after[k + 1] = EachOne(D, chosen, after[k], k + 1)
    BY <1>2, <2>1 DEF EachSteps
  <2> HIDE DEF N
  <2> QED
    BY <1>1, <2>1, <2>2, ReplayOne
<1>5. N \in SUBSET Nat
  OBVIOUS
<1>6. n \in N
  <2> HIDE DEF N
  <2> QED
    BY <1>1, <1>3, <1>4, <1>5, Induction
<1> QED
  BY <1>1, <1>2, <1>6 DEF n

-----------------------------------------------------------------------------
(* A run of fills held back, the first k of them. *)
HeldTo(E, S, b, D, chosen, k, a) ==
    /\ BookOK(E, S, a) /\ Same(b, a) /\ a.filled = b.filled /\ a.refused = b.refused
    /\ \A g : IsIn(g, a.deferred) <=> (IsIn(g, b.deferred) \/ \E j \in Picked(D, chosen, k) : g = D[j])
    /\ Distinct(a.deferred)

Holdable(b, D, chosen) ==
    /\ D \in Seq(FillSet)
    /\ \A k \in DOMAIN D : k \in chosen => ~IsIn(D[k], b.deferred)
    /\ \A j, k \in DOMAIN D : j \in chosen /\ k \in chosen /\ D[j] = D[k] => j = k

(* A new element keeps a sequence distinct. *)
LEMMA DistinctMore ==
  ASSUME NEW A, NEW s \in Seq(A), Distinct(s), NEW f \in A, ~IsIn(f, s)
  PROVE  Distinct(Append(s, f))
<1>1. PICK n : n = Len(s) + 1
  OBVIOUS
<1>2. PICK d : d = Append(s, f)
  OBVIOUS
<1>3. d[n] = f /\ (\A i \in DOMAIN s : d[i] = s[i] /\ i # n) /\ \A i \in DOMAIN d : i \in DOMAIN s \/ i = n
  BY <1>1, <1>2, AppendIs
<1>4. \A i \in DOMAIN s : s[i] # f
  BY DEF IsIn
<1> QED
  BY <1>2, <1>3, <1>4 DEF Distinct

(* One more of the run is held back. *)
LEMMA HoldOne ==
  ASSUME NEW E, NEW S, NEW b, b.pending # {},
         NEW D, NEW chosen, Holdable(b, D, chosen),
         NEW k \in Nat, k + 1 \in DOMAIN D,
         NEW c, HeldTo(E, S, b, D, chosen, k, c),
         NEW a, a = EachOne(D, chosen, c, k + 1)
  PROVE  HeldTo(E, S, b, D, chosen, k + 1, a)
<1>0. DOMAIN D \subseteq Nat /\ D[k + 1] \in FillSet
  BY FiniteDomain DEF Holdable
<1>1. \A j \in Picked(D, chosen, k + 1) : j \in Picked(D, chosen, k) \/ (j = k + 1 /\ k + 1 \in chosen)
  BY <1>0 DEF Picked
<1>2. \A j \in Picked(D, chosen, k) : j \in Picked(D, chosen, k + 1) /\ j # k + 1 /\ j \in chosen /\ j \in DOMAIN D
  BY <1>0 DEF Picked
<1>3. CASE k + 1 \notin chosen
  <2>1. a = c
    BY <1>3 DEF EachOne
  <2>2. Picked(D, chosen, k + 1) = Picked(D, chosen, k)
    BY <1>1, <1>2, <1>3
  <2> QED
    BY <2>1, <2>2 DEF HeldTo
<1>4. CASE k + 1 \in chosen
  <2>1. k + 1 \in Picked(D, chosen, k + 1)
    BY <1>4 DEF Picked
  <2>2. c.pending # {} /\ Same(b, c) /\ BookOK(E, S, c) /\ c \in BookSet
    BY DEF HeldTo, Same, BookOK
  <2>3. PICK deferred : deferred = Append(c.deferred, D[k + 1])
    OBVIOUS
  <2>4. a = [c EXCEPT !.deferred = deferred]
    BY <1>4, <2>2, <2>3 DEF EachOne, Observe
  <2>5. c.deferred \in Seq(FillSet) /\ deferred \in Seq(FillSet)
    BY <1>0, <2>2, <2>3, AppendIs DEF BookSet
  <2>6. a \in BookSet /\ a.table = c.table /\ a.filled = c.filled /\ a.refused = c.refused
        /\ a.pending = c.pending /\ a.unresolved = c.unresolved /\ a.deferred = deferred
    BY <2>2, <2>4, <2>5 DEF BookSet
  <2>7. AppliedIn(E, a) = AppliedIn(E, c)
    BY <2>6 DEF AppliedIn
  <2>8. BookOK(E, S, a)
    <3>1. MoneyOK(E, a)
      BY <2>2, <2>6, <2>7, MoneyKept DEF BookOK
    <3> QED
      BY <2>2, <2>6, <2>7, <3>1 DEF BookOK
  <2>9. Same(b, a)
    BY <2>2, <2>6 DEF Same
  <2>10. \A g : IsIn(g, deferred) <=> IsIn(g, c.deferred) \/ g = D[k + 1]
    BY <1>0, <2>3, <2>5, AppendIn
  <2>11. ASSUME NEW g
         PROVE  IsIn(g, a.deferred) <=> (IsIn(g, b.deferred) \/ \E j \in Picked(D, chosen, k + 1) : g = D[j])
    <3>1. IsIn(g, c.deferred) <=> (IsIn(g, b.deferred) \/ \E j \in Picked(D, chosen, k) : g = D[j])
      BY DEF HeldTo
    <3> QED
      BY <1>1, <1>2, <2>1, <2>6, <2>10, <3>1
  <2>12. ~IsIn(D[k + 1], c.deferred)
    <3>1. \A j \in Picked(D, chosen, k) : D[j] # D[k + 1]
      BY <1>2, <1>4 DEF Holdable
    <3>2. ~IsIn(D[k + 1], b.deferred)
      BY <1>4 DEF Holdable
    <3> QED
      BY <3>1, <3>2 DEF HeldTo
  <2>13. Distinct(deferred)
    BY <1>0, <2>3, <2>5, <2>12, DistinctMore DEF HeldTo
  <2> QED
    BY <2>6, <2>8, <2>9, <2>11, <2>13 DEF HeldTo
<1> QED
  BY <1>3, <1>4

(* All of the run is held back. *)
LEMMA HoldIs ==
  ASSUME NEW E, NEW S, NEW b, BookOK(E, S, b), Distinct(b.deferred),
         b.pending # {}, NEW D, NEW chosen, Holdable(b, D, chosen),
         NEW a, a = ObserveEach(b, D, chosen)
  PROVE  HeldTo(E, S, b, D, chosen, Len(D), a)
<1> DEFINE n == Len(D)
<1>1. n \in Nat /\ DOMAIN D = 1 .. n
  BY FiniteDomain DEF Holdable
<1> HIDE DEF n
<1>2. PICK after : EachSteps(b, D, chosen, n, after) /\ after[n] = ObserveEach(b, D, chosen)
  BY <1>1, EachRuns
<1> DEFINE N == {k \in Nat : k <= n => HeldTo(E, S, b, D, chosen, k, after[k])}
<1>3. 0 \in N
  <2>1. after[0] = b
    BY <1>2 DEF EachSteps
  <2>2. Picked(D, chosen, 0) = {}
    BY <1>1 DEF Picked
  <2>3. HeldTo(E, S, b, D, chosen, 0, b)
    BY <2>2, SameItself DEF HeldTo
  <2> QED
    BY <2>1, <2>3
<1>4. ASSUME NEW k \in N PROVE k + 1 \in N
  <2> SUFFICES ASSUME k + 1 <= n PROVE HeldTo(E, S, b, D, chosen, k + 1, after[k + 1])
    OBVIOUS
  <2>1. k \in Nat /\ HeldTo(E, S, b, D, chosen, k, after[k]) /\ k + 1 \in 1 .. n /\ (k + 1) - 1 = k
    BY <1>1
  <2>2. after[k + 1] = EachOne(D, chosen, after[k], k + 1)
    BY <1>2, <2>1 DEF EachSteps
  <2> HIDE DEF N
  <2> QED
    BY <1>1, <2>1, <2>2, HoldOne
<1>5. N \in SUBSET Nat
  OBVIOUS
<1>6. n \in N
  <2> HIDE DEF N
  <2> QED
    BY <1>1, <1>3, <1>4, <1>5, Induction
<1> QED
  BY <1>1, <1>2, <1>6 DEF n

-----------------------------------------------------------------------------
(* The invariant, of a plan P, the next decision nx and write st, the intents I, the venue V, *)
(* the executions E, the ones read S, a book b, the claims C and a phase ph.                  *)
VenueSet == [Writes -> [state : {"none", "resting", "filled", "cancelled"}, buy : BOOLEAN,
                        left : Nat, done : Nat]]
IntentSet == [Writes -> [status : Statuses, polls : Nat, gaveUp : BOOLEAN]]

PlacedIn(P, I, c) == I[c].status # "none" /\ P[c[1]][c[2]].op = "place"
NamedIn(P, I, c) == PlacedIn(P, I, c) /\ I[c].status \in {"filled", "resting", "cancelled"}
GivenUp(I) == {c \in Writes : I[c].gaveUp}
Hung(I) == {c \in Writes : I[c].status = "uncertain" /\ ~I[c].gaveUp}
StartedBy(nx, st, c) == c[1] < nx \/ (c[1] = nx /\ c[2] < st)
Begun(nx, st, h) == h < nx \/ (h = nx /\ st > 0)

(* The venue executed what it says, in order. *)
VenueOK(V, E) ==
    /\ V \in VenueSet /\ E \in Seq(FillSet)
    /\ \A i, j \in DOMAIN E : i < j => E[i].at < E[j].at
    /\ \A c \in Writes : /\ V[c].done = Total(SizesIn(E), OrderIn(E, c))
                         /\ V[c].state # "resting" => V[c].left = 0
                         /\ V[c].state = "none" => V[c].done = 0

(* Every intent is one of a write begun, and what it says of an order is so. *)
IntentOK(P, nx, st, I, V, c) ==
    /\ I[c].status # "none" => StartedBy(nx, st, c) /\ P[c[1]][c[2]] \in Requests
    /\ I[c].gaveUp => I[c].status = "uncertain"
    /\ V[c].state # "none" => PlacedIn(P, I, c)
    /\ PlacedIn(P, I, c) =>
        /\ I[c].status = "filled" => V[c].state = "filled"
        /\ I[c].status = "resting" => V[c].state # "none"
        /\ I[c].status = "cancelled" => V[c].state = "cancelled"
        /\ I[c].status = "rejected" => V[c].state = "none"
FiledOK(P, nx, st, I, V) ==
    /\ nx \in Nat /\ st \in Nat /\ I \in IntentSet
    /\ \A c \in Writes : IntentOK(P, nx, st, I, V, c)

(* The hold is the unanswered writes, all of open returns. *)
HoldOK(I, b) ==
    /\ b.pending = Hung(I) /\ b.unresolved = GivenUp(I)
    /\ \A c \in b.pending : AccountOpen(b, c[1])

(* An order is bound to the return that placed it, for all it can execute; an order that *)
(* is named and not bound never executes.                                                *)
OrderOK(P, I, V, b, c) ==
    LET o == b.table.orders[c] IN
    /\ o.owner # Nobody => /\ o.owner = c[1] /\ PlacedIn(P, I, c) /\ I[c].status # "uncertain"
                           /\ V[c].done + V[c].left <= o.ordered
                           /\ V[c].state # "none"
    /\ NamedIn(P, I, c) /\ o.owner = Nobody => I[c].status = "cancelled" /\ V[c].done = 0
    /\ o.confirmed # Unconfirmed =>
         /\ o.owner # Nobody /\ V[c].state \in {"filled", "cancelled"} /\ o.confirmed = V[c].done
ClosingOK(E, b, ph) ==
    LET o == b.table.orders[Closing] IN
    /\ o.owner \in {Nobody, WindDown}
    /\ o.owner # Nobody => /\ ph \in {"flat", "dead"}
                           /\ Total(SizesIn(E), OrderIn(E, Closing)) <= o.ordered
    /\ OrderIn(E, Closing) # {} => o.owner # Nobody
BoundOK(P, I, V, E, b, ph) ==
    /\ \A c \in Writes : OrderOK(P, I, V, b, c)
    /\ ClosingOK(E, b, ph)

(* What a return's owner was booked is what its account says, and all of it at the end. *)
AccountOK(nx, st, I, V, C, ph, a, h) ==
    /\ a.state # "none" <=> Begun(nx, st, h)
    /\ a.finished => h < nx
    /\ a.payoff.fixed => a.finished
    /\ a.payoff.fixed /\ ~a.payoff.censored => \A c \in Writes : c[1] = h => ~I[c].gaveUp
    /\ C[h] = a.late
    /\ a.state = "none" => a.realized = 0 /\ a.late = 0
    /\ ~a.payoff.fixed /\ ph # "dead" => a.late = 0
    /\ ph = "dead" \/ a.state = "released" => a.late = Floor(a.realized)
    /\ a.state = "released" => a.payoff.fixed
    /\ a.state = "released" =>
         \A c \in Writes : c[1] = h => V[c].state # "resting" /\ I[c].status # "uncertain"
PaidOK(nx, st, I, V, b, C, ph) ==
    \A h \in Returns : AccountOK(nx, st, I, V, C, ph, b.table.accounts[h], h)

(* A released return's executions are all applied. *)
OverOK(E, b) ==
    \A h \in Returns : b.table.accounts[h].state = "released" =>
        \A i \in DOMAIN E : E[i].order[1] = h => IsIn(E[i], b.filled)

CoreOK(P, nx, st, I, V, E, S, b, C, ph) ==
    /\ VenueOK(V, E) /\ FiledOK(P, nx, st, I, V) /\ S \in SUBSET DOMAIN E
    /\ BookOK(E, S, b) /\ HoldOK(I, b) /\ BoundOK(P, I, V, E, b, ph)
    /\ PaidOK(nx, st, I, V, b, C, ph) /\ OverOK(E, b)

(* What the hold keeps back was read, once, and is not applied. *)
KeptOK(E, S, b) ==
    /\ \A k \in DOMAIN b.deferred : (\E i \in S : b.deferred[k] = E[i]) /\ ~IsIn(b.deferred[k], b.filled)
    /\ Distinct(b.deferred)
FoundOK(E, S, I, b) ==
    \A i \in S : \/ IsIn(E[i], b.filled) \/ IsIn(E[i], b.deferred)
                 \/ (E[i] \in b.refused /\ E[i].order \in GivenUp(I))
FullOK(P, nx, st, I, V, E, S, b, C, ph) ==
    /\ CoreOK(P, nx, st, I, V, E, S, b, C, ph)
    /\ KeptOK(E, S, b) /\ FoundOK(E, S, I, b)
    /\ b.pending = {} => b.deferred = <<>>

-----------------------------------------------------------------------------

(* The writes are the orders of returns; the closing order is the wind-down's. *)
LEMMA WritesAre ==
  /\ Writes \subseteq OrderIds /\ Closing \in OrderIds /\ Closing \notin Writes
  /\ \A c \in OrderIds : c \in Writes \/ c = Closing
  /\ \A c \in Writes : c[1] \in Returns /\ c[1] \in Nat \ {0} /\ c[2] \in Nat \ {0} /\ c = <<c[1], c[2]>>
  /\ Closing[1] = 0 /\ 0 \notin Returns
<1>1. Writes \subseteq Returns \X (Nat \ {0}) /\ Closing \in OrderIds /\ Returns \subseteq Nat \ {0}
  BY OrdersAssumption, LotsAssumption
<1>2. \A c \in Returns \X (Nat \ {0}) : c[1] \in Returns /\ c[2] \in Nat \ {0} /\ c = <<c[1], c[2]>>
  OBVIOUS
<1>3. Closing[1] = 0
  BY DEF Closing
<1> QED
  BY <1>1, <1>2, <1>3 DEF Writes

(* No two executions are the same: their instants differ. *)
LEMMA ExecutionsDiffer ==
  ASSUME NEW V, NEW E, VenueOK(V, E)
  PROVE  Distinct(E) /\ E \in Seq(FillSet)
<1>1. E \in Seq(FillSet) /\ DOMAIN E \subseteq Nat
  BY FiniteDomain DEF VenueOK
<1>2. \A i \in DOMAIN E : E[i].at \in Int
  <2>1. \A i \in DOMAIN E : E[i] \in FillSet
    BY <1>1, FiniteDomain
  <2> QED
    BY <2>1 DEF FillSet
<1>3. \A i, j \in DOMAIN E : i < j => E[i] # E[j]
  BY <1>2 DEF VenueOK
<1>4. \A i, j \in DOMAIN E : i < j \/ j < i \/ i = j
  BY <1>1
<1> QED
  BY <1>1, <1>3, <1>4 DEF Distinct

(* With every answer known, an execution not yet applied fits, or its order was given up. *)
LEMMA AllFit ==
  ASSUME NEW P, NEW nx, NEW st, NEW I, NEW V, NEW E, NEW S, NEW b, NEW C, NEW ph,
         CoreOK(P, nx, st, I, V, E, S, b, C, ph), b.pending = {},
         NEW i \in DOMAIN E, ~IsIn(E[i], b.filled)
  PROVE  Fit(E, GivenUp(I), b, E[i])
<1>1. PICK f : f = E[i]
  OBVIOUS
<1>2. PICK c : c = f.order
  OBVIOUS
<1>3. E \in Seq(FillSet) /\ f \in FillSet /\ c \in OrderIds
  <2>1. E \in Seq(FillSet)
    BY DEF CoreOK, VenueOK
  <2>2. f \in FillSet
    BY <1>1, <2>1, FiniteDomain
  <2> QED
    BY <1>2, <2>1, <2>2 DEF FillSet
<1>4. CASE c = Closing
  <2>1. ClosingOK(E, b, ph)
    BY DEF CoreOK, BoundOK
  <2>2. i \in OrderIn(E, Closing)
    BY <1>1, <1>2, <1>4 DEF OrderIn
  <2>3. b.table.orders[Closing].owner = WindDown
    BY <2>1, <2>2 DEF ClosingOK
  <2> QED
    BY <1>1, <1>2, <1>3, <1>4, <2>1, <2>3, Accounts DEF Fit, ClosingOK
<1>5. CASE c # Closing
  <2>1. c \in Writes /\ c[1] \in Returns /\ c[1] \in Nat /\ c[2] \in Nat
    BY <1>3, <1>5, WritesAre
  <2>2. V[c].done = Total(SizesIn(E), OrderIn(E, c)) /\ V[c].done # 0 /\ V[c].state # "none"
    <3>1. V[c].done = Total(SizesIn(E), OrderIn(E, c)) /\ (V[c].state = "none" => V[c].done = 0)
      BY <2>1 DEF CoreOK, VenueOK
    <3>2. IsFiniteSet(OrderIn(E, c)) /\ (\A j \in OrderIn(E, c) : SizesIn(E)[j] \in Nat) /\ SizesIn(E)[i] \in Nat \ {0}
          /\ i \in OrderIn(E, c)
      <4>1. /\ IsFiniteSet(OrderIn(E, c)) /\ OrderIn(E, c) \subseteq DOMAIN E
            /\ \A j \in DOMAIN E : SizesIn(E)[j] \in Nat \ {0}
        BY <1>3, SizesAre
      <4>2. i \in OrderIn(E, c)
        BY <1>1, <1>2 DEF OrderIn
      <4> QED
        BY <4>1, <4>2
    <3>3. Total(SizesIn(E), {}) + SizesIn(E)[i] <= Total(SizesIn(E), OrderIn(E, c))
          /\ Total(SizesIn(E), OrderIn(E, c)) \in Nat
      <4>1. {} \in SUBSET OrderIn(E, c) /\ i \in OrderIn(E, c) \ {}
        BY <3>2
      <4> QED
        BY <3>2, <4>1, TotalPart
    <3>4. Total(SizesIn(E), {}) = 0
      BY TotalNone
    <3> QED
      BY <3>1, <3>2, <3>3, <3>4
  <2>3. IntentOK(P, nx, st, I, V, c) /\ OrderOK(P, I, V, b, c) /\ nx \in Nat /\ st \in Nat /\ I \in IntentSet
    BY <2>1 DEF CoreOK, FiledOK, BoundOK
  <2>4. PlacedIn(P, I, c) /\ I[c].status # "rejected" /\ StartedBy(nx, st, c)
    BY <2>2, <2>3 DEF IntentOK, PlacedIn
  <2>5. CASE b.table.orders[c].owner # Nobody
    <3>1. b.table.orders[c].owner = c[1] /\ V[c].done + V[c].left <= b.table.orders[c].ordered
      BY <2>3, <2>5 DEF OrderOK
    <3>2. V[c].done \in Nat /\ V[c].left \in Nat /\ b.table.orders[c].ordered \in Int
      <4>1. V \in VenueSet /\ b \in BookSet
        BY DEF CoreOK, VenueOK, BookOK
      <4> QED
        BY <1>3, <2>1, <4>1 DEF VenueSet, BookSet, TableSet, OrderSet
    <3>3. V[c].done <= b.table.orders[c].ordered
      BY <3>1, <3>2
    <3>4. PICK h, a : h = c[1] /\ a = b.table.accounts[h]
      OBVIOUS
    <3>5. AccountOK(nx, st, I, V, C, ph, a, h) /\ b \in BookSet
      BY <2>1, <3>4 DEF CoreOK, PaidOK, BookOK
    <3>6. Begun(nx, st, h)
      BY <2>1, <2>3, <2>4, <3>4 DEF StartedBy, Begun
    <3>7. a.state # "none"
      BY <3>5, <3>6 DEF AccountOK
    <3>8. a.state # "released"
      <4>1. OverOK(E, b)
        BY DEF CoreOK
      <4> QED
        BY <1>1, <1>2, <2>1, <3>4, <4>1 DEF OverOK
    <3>9. a.state \in {"none", "open", "released"}
      BY <2>1, <3>4, <3>5 DEF BookSet, TableSet, AccountSet
    <3>10. b.table.accounts[b.table.orders[c].owner].state = "open"
      BY <3>1, <3>4, <3>7, <3>8, <3>9
    <3>11. Total(SizesIn(E), OrderIn(E, c)) <= b.table.orders[c].ordered
      BY <2>2, <3>3
    <3>12. b.table.orders[c].owner # WindDown
      BY <2>1, <3>1, Accounts
    <3> QED
      BY <1>1, <1>2, <1>3, <2>5, <3>10, <3>11, <3>12 DEF Fit
  <2>6. CASE b.table.orders[c].owner = Nobody
    <3>1. ~NamedIn(P, I, c)
      BY <2>2, <2>3, <2>6 DEF OrderOK
    <3>2. I[c].status \in Statuses
      BY <2>1, <2>3 DEF IntentSet
    <3>3. I[c].status = "uncertain"
      BY <2>4, <3>1, <3>2 DEF NamedIn, PlacedIn, Statuses
    <3>4. c \notin Hung(I)
      BY DEF CoreOK, HoldOK
    <3>5. c \in GivenUp(I)
      BY <2>1, <2>3, <3>3, <3>4 DEF Hung, GivenUp, IntentSet
    <3> QED
      BY <1>1, <1>2, <1>3, <2>6, <3>5, Accounts DEF Fit
  <2> QED
    BY <2>5, <2>6
<1> QED
  BY <1>4, <1>5
-----------------------------------------------------------------------------
(* A book in which fills were applied is as good as before. *)
LEMMA CoreStays ==
  ASSUME NEW P, NEW nx, NEW st, NEW I, NEW V, NEW E, NEW S, NEW b, NEW C, NEW ph,
         CoreOK(P, nx, st, I, V, E, S, b, C, ph), ph # "dead",
         NEW T \in SUBSET DOMAIN E, NEW a, BookOK(E, T, a), Same(b, a),
         \A g : IsIn(g, b.filled) => IsIn(g, a.filled)
  PROVE  CoreOK(P, nx, st, I, V, E, T, a, C, ph)
<1>1. \A h \in Returns : /\ SameStanding(b.table.accounts[h], a.table.accounts[h])
                         /\ b.table.accounts[h].state # "open" =>
                              a.table.accounts[h].realized = b.table.accounts[h].realized
  BY DEF Same
<1>2. HoldOK(I, a)
  <2>1. \A c \in b.pending : c[1] \in Returns
    BY WritesAre DEF CoreOK, HoldOK, Hung
  <2> QED
    BY <1>1, <2>1 DEF CoreOK, HoldOK, Same, SameStanding, AccountOpen, Open
<1>3. BoundOK(P, I, V, E, a, ph)
  <2>1. \A c \in OrderIds : SameTerms(b.table.orders[c], a.table.orders[c])
    BY DEF Same
  <2>2. ASSUME NEW c \in Writes PROVE OrderOK(P, I, V, a, c)
    <3>1. OrderOK(P, I, V, b, c) /\ SameTerms(b.table.orders[c], a.table.orders[c])
      BY <2>1, WritesAre DEF CoreOK, BoundOK
    <3> QED
      BY <3>1 DEF OrderOK, SameTerms
  <2>3. ClosingOK(E, a, ph)
    <3>1. ClosingOK(E, b, ph) /\ SameTerms(b.table.orders[Closing], a.table.orders[Closing])
      BY <2>1, WritesAre DEF CoreOK, BoundOK
    <3> QED
      BY <3>1 DEF ClosingOK, SameTerms
  <2> QED
    BY <2>2, <2>3 DEF BoundOK
<1>4. PaidOK(nx, st, I, V, a, C, ph)
  <2> SUFFICES ASSUME NEW h \in Returns PROVE AccountOK(nx, st, I, V, C, ph, a.table.accounts[h], h)
    BY DEF PaidOK
  <2>1. PICK old, new : old = b.table.accounts[h] /\ new = a.table.accounts[h]
    OBVIOUS
  <2>2. AccountOK(nx, st, I, V, C, ph, old, h) /\ SameStanding(old, new)
        /\ (old.state # "open" => new.realized = old.realized)
    BY <1>1, <2>1 DEF CoreOK, PaidOK
  <2>3. AccountOK(nx, st, I, V, C, ph, new, h)
    BY <2>2 DEF AccountOK, SameStanding
  <2> QED
    BY <2>1, <2>3
<1>5. OverOK(E, a)
  BY <1>1 DEF CoreOK, OverOK, SameStanding
<1> QED
  BY <1>2, <1>3, <1>4, <1>5 DEF CoreOK

(* More is read. *)
LEMMA ReadMore ==
  ASSUME NEW E, NEW S, NEW T, S \subseteq T, NEW b, BookOK(E, S, b)
  PROVE  BookOK(E, T, b)
  BY DEF BookOK

(* The last answer replays what was kept back. *)
LiftedTo(b) ==
    IF b.pending # {} THEN b ELSE ObserveEach([b EXCEPT !.deferred = <<>>], b.deferred, DOMAIN b.deferred)

(* Whether or not an answer was the last one, the book is as it must be. *)
LEMMA LiftIs ==
  ASSUME NEW P, NEW nx, NEW st, NEW I, NEW V, NEW E, NEW S, NEW b, NEW C, NEW ph,
         CoreOK(P, nx, st, I, V, E, S, b, C, ph), ph # "dead",
         KeptOK(E, S, b), FoundOK(E, S, I, b)
  PROVE  FullOK(P, nx, st, I, V, E, S, LiftedTo(b), C, ph)
<1>1. CASE b.pending # {}
  BY <1>1 DEF LiftedTo, FullOK
<1>2. CASE b.pending = {}
  <2> DEFINE D == b.deferred
             G == GivenUp(I)
  <2>1. PICK c : c = [b EXCEPT !.deferred = <<>>]
    OBVIOUS
  <2>2. b \in BookSet /\ BookOK(E, S, b) /\ S \in SUBSET DOMAIN E /\ VenueOK(V, E)
    BY DEF CoreOK, BookOK
  <2>3. c \in BookSet /\ c.table = b.table /\ c.filled = b.filled /\ c.refused = b.refused
        /\ c.pending = b.pending /\ c.unresolved = b.unresolved /\ c.deferred = <<>>
    <3>1. PICK none : none = <<>>
      OBVIOUS
    <3>2. none \in Seq(FillSet) /\ c = [b EXCEPT !.deferred = none]
      BY <2>1, <3>1
    <3> QED
      BY <2>2, <3>1, <3>2 DEF BookSet
  <2>4. BookOK(E, S, c)
    <3>1. AppliedIn(E, c) = AppliedIn(E, b)
      BY <2>3 DEF AppliedIn
    <3>2. MoneyOK(E, c)
      BY <2>2, <2>3, <3>1, MoneyKept DEF BookOK
    <3> QED
      BY <2>2, <2>3, <3>1, <3>2 DEF BookOK
  <2>5. Same(b, c)
    BY <2>3, SameItself DEF Same
  <2>6. CoreOK(P, nx, st, I, V, E, S, c, C, ph)
    BY <2>2, <2>3, <2>4, <2>5, CoreStays
  <2>7. Replayable(E, S, G, c, D, DOMAIN D)
    <3>1. D \in Seq(FillSet)
      BY <2>2 DEF BookSet
    <3>2. ASSUME NEW k \in DOMAIN D
          PROVE  (\E i \in S : D[k] = E[i]) /\ ~IsIn(D[k], c.filled) /\ Fit(E, G, c, D[k])
      <4>1. PICK i \in S : D[k] = E[i]
        BY DEF KeptOK
      <4>2. ~IsIn(E[i], c.filled) /\ i \in DOMAIN E /\ c.pending = {}
        BY <1>2, <2>2, <2>3, <4>1 DEF KeptOK
      <4>3. Fit(E, G, c, E[i])
        BY <2>6, <4>2, AllFit
      <4> QED
        BY <4>1, <4>2, <4>3
    <3>3. \A j, k \in DOMAIN D : D[j] = D[k] => j = k
      BY DEF KeptOK, Distinct
    <3> QED
      BY <3>1, <3>2, <3>3 DEF Replayable
  <2>8. PICK a : a = ObserveEach(c, D, DOMAIN D)
    OBVIOUS
  <2>9. ReplayedTo(E, S, G, c, D, DOMAIN D, Len(D), a)
    <3>1. E \in Seq(FillSet) /\ Distinct(E) /\ c.pending = {}
      BY <1>2, <2>2, <2>3, ExecutionsDiffer
    <3> HIDE DEF D, G
    <3> QED
      BY <2>2, <2>4, <2>7, <2>8, <3>1, ReplayIs
  <2>10. CoreOK(P, nx, st, I, V, E, S, a, C, ph)
    BY <2>2, <2>6, <2>9, CoreStays DEF ReplayedTo
  <2>11. a.deferred = <<>>
    BY <2>3, <2>9 DEF ReplayedTo
  <2>12. KeptOK(E, S, a)
    BY <2>11 DEF KeptOK, Distinct
  <2>13. FoundOK(E, S, I, a)
    <3> SUFFICES ASSUME NEW i \in S
                 PROVE  IsIn(E[i], a.filled) \/ (E[i] \in a.refused /\ E[i].order \in G)
      BY DEF FoundOK
    <3>1. CASE IsIn(E[i], b.filled)
      BY <2>3, <2>9, <3>1 DEF ReplayedTo
    <3>2. CASE E[i] \in b.refused /\ E[i].order \in G
      BY <2>3, <2>9, <3>2 DEF ReplayedTo
    <3>3. CASE IsIn(E[i], D)
      <4>1. PICK k \in DOMAIN D : D[k] = E[i]
        BY <3>3 DEF IsIn
      <4>2. k \in Picked(D, DOMAIN D, Len(D))
        <5>1. DOMAIN D = 1 .. Len(D)
          BY <2>2, FiniteDomain DEF BookSet
        <5> QED
          BY <5>1 DEF Picked
      <4> QED
        BY <2>9, <4>1, <4>2 DEF ReplayedTo
    <3> QED
      BY <3>1, <3>2, <3>3 DEF FoundOK
  <2>14. LiftedTo(b) = a
    BY <1>2, <2>1, <2>8 DEF LiftedTo
  <2> QED
    BY <2>10, <2>11, <2>12, <2>13, <2>14 DEF FullOK
<1> QED
  BY <1>1, <1>2

(* A read: what it returns is applied, or kept back. *)
LEMMA ReadIs ==
  ASSUME NEW P, NEW nx, NEW st, NEW I, NEW V, NEW E, NEW S, NEW b, NEW C, NEW ph,
         FullOK(P, nx, st, I, V, E, S, b, C, ph), ph # "dead",
         NEW new \in SUBSET DOMAIN E, new \cap S = {}
  PROVE  FullOK(P, nx, st, I, V, E, S \cup new, ObserveEach(b, E, new), C, ph)
<1> DEFINE G == GivenUp(I)
<1>1. PICK T : T = S \cup new
  OBVIOUS
<1>2. PICK a : a = ObserveEach(b, E, new)
  OBVIOUS
<1>3. CoreOK(P, nx, st, I, V, E, S, b, C, ph) /\ KeptOK(E, S, b) /\ FoundOK(E, S, I, b)
      /\ (b.pending = {} => b.deferred = <<>>)
  BY DEF FullOK
<1>4. VenueOK(V, E) /\ S \in SUBSET DOMAIN E /\ BookOK(E, S, b) /\ T \in SUBSET DOMAIN E
  BY <1>1, <1>3 DEF CoreOK
<1>5. E \in Seq(FillSet) /\ Distinct(E) /\ DOMAIN E = 1 .. Len(E)
  BY <1>4, ExecutionsDiffer, FiniteDomain
<1>6. BookOK(E, T, b)
  BY <1>1, <1>4, ReadMore
<1>7. \A i \in new : ~IsIn(E[i], b.filled) /\ ~IsIn(E[i], b.deferred)
  <2> SUFFICES ASSUME NEW i \in new, NEW j \in S, E[i] = E[j] PROVE FALSE
    BY <1>3, <1>4 DEF BookOK, KeptOK, IsIn
  <2> QED
    BY <1>4, <1>5 DEF Distinct
<1>8. \A j \in new : j \in Picked(E, new, Len(E))
  BY <1>5 DEF Picked
<1>9. \A j \in Picked(E, new, Len(E)) : j \in new /\ j \in T
  BY <1>1 DEF Picked
<1>10. CASE b.pending = {}
  <2>1. Replayable(E, T, G, b, E, new)
    <3>1. ASSUME NEW k \in new PROVE k \in T /\ ~IsIn(E[k], b.filled) /\ Fit(E, G, b, E[k])
      BY <1>1, <1>3, <1>7, <1>10, AllFit
    <3> QED
      BY <1>5, <3>1 DEF Replayable, Distinct
  <2>2. ReplayedTo(E, T, G, b, E, new, Len(E), a)
    <3> HIDE DEF G
    <3> QED
      BY <1>2, <1>4, <1>5, <1>6, <1>10, <2>1, ReplayIs
  <2>3. CoreOK(P, nx, st, I, V, E, T, a, C, ph)
    BY <1>3, <1>4, <2>2, CoreStays DEF ReplayedTo
  <2>4. a.deferred = <<>>
    BY <1>3, <1>10, <2>2 DEF ReplayedTo
  <2>5. KeptOK(E, T, a)
    BY <2>4 DEF KeptOK, Distinct
  <2>6. FoundOK(E, T, I, a)
    <3> SUFFICES ASSUME NEW i \in T
                 PROVE  IsIn(E[i], a.filled) \/ (E[i] \in a.refused /\ E[i].order \in G)
      BY DEF FoundOK
    <3>1. CASE i \in new
      BY <1>8, <2>2, <3>1 DEF ReplayedTo
    <3>2. CASE i \in S
      <4>1. ~IsIn(E[i], b.deferred)
        BY <1>3, <1>10, InNone
      <4> QED
        BY <1>3, <2>2, <3>2, <4>1 DEF FoundOK, ReplayedTo
    <3> QED
      BY <1>1, <3>1, <3>2
  <2> QED
    BY <1>1, <1>2, <2>3, <2>4, <2>5, <2>6 DEF FullOK
<1>11. CASE b.pending # {}
  <2>1. Holdable(b, E, new)
    BY <1>5, <1>7 DEF Holdable, Distinct
  <2>2. HeldTo(E, T, b, E, new, Len(E), a)
    BY <1>2, <1>3, <1>6, <1>11, <2>1, HoldIs DEF KeptOK
  <2>3. CoreOK(P, nx, st, I, V, E, T, a, C, ph)
    BY <1>3, <1>4, <2>2, CoreStays DEF HeldTo
  <2>4. KeptOK(E, T, a)
    <3> SUFFICES ASSUME NEW k \in DOMAIN a.deferred
                 PROVE  (\E i \in T : a.deferred[k] = E[i]) /\ ~IsIn(a.deferred[k], a.filled)
      BY <2>2 DEF KeptOK, HeldTo
    <3>1. IsIn(a.deferred[k], a.deferred)
      BY DEF IsIn
    <3>2. IsIn(a.deferred[k], b.deferred) \/ \E j \in Picked(E, new, Len(E)) : a.deferred[k] = E[j]
      BY <2>2, <3>1 DEF HeldTo
    <3>3. CASE IsIn(a.deferred[k], b.deferred)
      BY <1>1, <1>3, <2>2, <3>3 DEF IsIn, KeptOK, HeldTo
    <3>4. CASE \E j \in Picked(E, new, Len(E)) : a.deferred[k] = E[j]
      BY <1>7, <1>9, <2>2, <3>4 DEF HeldTo
    <3> QED
      BY <3>2, <3>3, <3>4
  <2>5. FoundOK(E, T, I, a)
    <3> SUFFICES ASSUME NEW i \in T
                 PROVE  \/ IsIn(E[i], a.filled) \/ IsIn(E[i], a.deferred)
                        \/ (E[i] \in a.refused /\ E[i].order \in G)
      BY DEF FoundOK
    <3>1. CASE i \in new
      BY <1>8, <2>2, <3>1 DEF HeldTo
    <3>2. CASE i \in S
      BY <1>3, <2>2, <3>2 DEF FoundOK, HeldTo
    <3> QED
      BY <1>1, <3>1, <3>2
  <2>6. a.pending # {}
    BY <1>11, <2>2 DEF HeldTo, Same
  <2> QED
    BY <1>1, <1>2, <2>3, <2>4, <2>5, <2>6 DEF FullOK
<1> QED
  BY <1>10, <1>11

-----------------------------------------------------------------------------
(* A book in which nothing was applied. *)
LooksAlike(b, a) ==
    /\ a \in BookSet /\ a.filled = b.filled /\ a.deferred = b.deferred /\ a.refused = b.refused
    /\ a.table.lots = b.table.lots
    /\ \A c \in OrderIds : /\ a.table.orders[c].executed = b.table.orders[c].executed
                           /\ a.table.orders[c].owner = Nobody => b.table.orders[c].owner = Nobody
    /\ \A h \in Owners(b.table.lots) : b.table.accounts[h].state = "open" => a.table.accounts[h].state = "open"
    /\ \A h \in Returns : a.table.accounts[h].realized = b.table.accounts[h].realized

(* Its orders and lots agree with the executions as before. *)
LEMMA BookStays ==
  ASSUME NEW E, NEW S, NEW b, NEW a, BookOK(E, S, b), LooksAlike(b, a)
  PROVE  BookOK(E, S, a) /\ AppliedIn(E, a) = AppliedIn(E, b)
<1>1. AppliedIn(E, a) = AppliedIn(E, b)
  BY DEF AppliedIn, LooksAlike
<1>2. MoneyOK(E, a)
  BY <1>1, MoneyStays DEF BookOK, LooksAlike
<1> QED
  BY <1>1, <1>2 DEF BookOK, LooksAlike

(* It holds back what it held back. *)
LEMMA KeptStays ==
  ASSUME NEW E, NEW S, NEW b, NEW a, LooksAlike(b, a), KeptOK(E, S, b)
  PROVE  KeptOK(E, S, a)
  BY DEF KeptOK, LooksAlike

(* What was read is where it was. *)
LEMMA FoundStays ==
  ASSUME NEW E, NEW S, NEW b, NEW a, LooksAlike(b, a), NEW I, NEW J,
         GivenUp(I) \subseteq GivenUp(J), FoundOK(E, S, I, b)
  PROVE  FoundOK(E, S, J, a)
  BY DEF FoundOK, LooksAlike

(* A released return is over as before. *)
LEMMA OverStays ==
  ASSUME NEW E, NEW b, NEW a, OverOK(E, b), a.filled = b.filled,
         \A h \in Returns : a.table.accounts[h].state = "released" => b.table.accounts[h].state = "released"
  PROVE  OverOK(E, a)
  BY DEF OverOK

(* Only the hold changes. *)
WithHold(b, p, u) == [b EXCEPT !.pending = p, !.unresolved = u]

(* Such a change touches neither fills nor table. *)
LEMMA HoldChanges ==
  ASSUME NEW b \in BookSet, NEW p \in SUBSET Writes, NEW u \in SUBSET Writes, NEW a,
         a = WithHold(b, p, u)
  PROVE  /\ LooksAlike(b, a) /\ a.table = b.table /\ a.pending = p /\ a.unresolved = u
         /\ a.deferred = b.deferred /\ a.filled = b.filled
<1>1. a \in BookSet /\ a.table = b.table /\ a.pending = p /\ a.unresolved = u
      /\ a.deferred = b.deferred /\ a.filled = b.filled /\ a.refused = b.refused
  BY DEF BookSet, WithHold
<1> QED
  BY <1>1 DEF LooksAlike

WithAnswer(I, c, s, n) == [I EXCEPT ![c].status = s, ![c].polls = n]
PollsSet == Nat

(* One intent changes its status. *)
LEMMA OneAnswer ==
  ASSUME NEW I \in IntentSet, NEW c \in Writes, NEW s \in Statuses, NEW n \in PollsSet,
         NEW J, J = WithAnswer(I, c, s, n)
  PROVE  /\ J \in IntentSet /\ J[c].status = s /\ J[c].gaveUp = I[c].gaveUp
         /\ \A d \in Writes : d # c => J[d] = I[d]
<1>1. PICK r : r = I[c]
  OBVIOUS
<1>2. r \in [status : Statuses, polls : Nat, gaveUp : BOOLEAN]
  BY <1>1 DEF IntentSet
<1>3. PICK x : x = [r EXCEPT !.status = s, !.polls = n]
  OBVIOUS
<1>4. x \in [status : Statuses, polls : Nat, gaveUp : BOOLEAN] /\ x.status = s /\ x.gaveUp = r.gaveUp
  BY <1>2, <1>3 DEF PollsSet
<1>5. J = [I EXCEPT ![c] = x]
  BY <1>1, <1>2, <1>3 DEF WithAnswer, IntentSet
<1> QED
  BY <1>1, <1>4, <1>5 DEF IntentSet

WithGivenUp(I, c) == [I EXCEPT ![c].gaveUp = TRUE]

(* One intent is given up. *)
LEMMA OneGivenUp ==
  ASSUME NEW I \in IntentSet, NEW c \in Writes, NEW J, J = WithGivenUp(I, c)
  PROVE  /\ J \in IntentSet /\ J[c].status = I[c].status /\ J[c].gaveUp
         /\ \A d \in Writes : d # c => J[d] = I[d]
<1>1. PICK r : r = I[c]
  OBVIOUS
<1>2. r \in [status : Statuses, polls : Nat, gaveUp : BOOLEAN]
  BY <1>1 DEF IntentSet
<1>3. PICK x : x = [r EXCEPT !.gaveUp = TRUE]
  OBVIOUS
<1>4. x \in [status : Statuses, polls : Nat, gaveUp : BOOLEAN] /\ x.status = r.status /\ x.gaveUp
  BY <1>2, <1>3
<1>5. J = [I EXCEPT ![c] = x]
  BY <1>1, <1>2, <1>3 DEF WithGivenUp, IntentSet
<1> QED
  BY <1>1, <1>4, <1>5 DEF IntentSet

(* What an intent says of others than c is not touched. *)
LEMMA OthersFiled ==
  ASSUME NEW P, NEW nx, NEW st, NEW mx, NEW mt, NEW I, NEW J, NEW V, NEW W, NEW d \in Writes,
         IntentOK(P, nx, st, I, V, d), J[d] = I[d], W[d] = V[d],
         StartedBy(nx, st, d) => StartedBy(mx, mt, d)
  PROVE  IntentOK(P, mx, mt, J, W, d)
<1>1. PlacedIn(P, J, d) <=> PlacedIn(P, I, d)
  BY DEF PlacedIn
<1> QED
  BY <1>1 DEF IntentOK

(* What is bound of other orders than c is not touched. *)
LEMMA OthersBound ==
  ASSUME NEW P, NEW I, NEW J, NEW V, NEW W, NEW b, NEW a, NEW d \in Writes,
         OrderOK(P, I, V, b, d), J[d] = I[d], W[d] = V[d],
         SameTerms(b.table.orders[d], a.table.orders[d])
  PROVE  OrderOK(P, J, W, a, d)
<1>1. (PlacedIn(P, J, d) <=> PlacedIn(P, I, d)) /\ (NamedIn(P, J, d) <=> NamedIn(P, I, d))
  BY DEF PlacedIn, NamedIn
<1> QED
  BY <1>1 DEF OrderOK, SameTerms

(* An order keeps its own terms. *)
LEMMA SameOrder ==
  ASSUME NEW o
  PROVE  SameTerms(o, o)
  BY DEF SameTerms

(* The account of the decision that is being routed is open. *)
LEMMA RoutedIsOpen ==
  ASSUME NEW nx \in Returns, NEW st \in Nat, st > 0, NEW I, NEW V, NEW b \in BookSet, NEW C, NEW ph,
         PaidOK(nx, st, I, V, b, C, ph)
  PROVE  AccountOpen(b, nx) /\ ~b.table.accounts[nx].finished
<1>1. PICK a : a = b.table.accounts[nx]
  OBVIOUS
<1>2. AccountOK(nx, st, I, V, C, ph, a, nx) /\ a \in AccountSet /\ nx \in Nat
  BY <1>1, Accounts DEF PaidOK, BookSet, TableSet
<1>3. ~a.finished /\ a.state # "none"
  BY <1>2 DEF AccountOK, Begun
<1>4. ~a.payoff.fixed /\ a.state # "released" /\ a.state \in {"none", "open", "released"}
  BY <1>2, <1>3 DEF AccountOK, AccountSet
<1> QED
  BY <1>1, <1>3, <1>4 DEF AccountOpen, Open

(* A write's durable intent. *)
LEMMA AskIs ==
  ASSUME NEW P, NEW nx, NEW st, NEW I, NEW V, NEW E, NEW S, NEW b, NEW C, NEW ph,
         FullOK(P, nx, st, I, V, E, S, b, C, ph),
         NEW c \in Writes, c = <<nx, st>>, P[nx][st] \in Requests, NEW n \in PollsSet,
         NEW J, J = WithAnswer(I, c, "uncertain", n),
         NEW a, a = Intent(b, c)
  PROVE  FullOK(P, nx, st + 1, J, V, E, S, a, C, ph) /\ I[c].status = "none" /\ ~I[c].gaveUp /\ V[c].state = "none"
<1>0. c[1] = nx /\ c[2] = st /\ nx \in Returns /\ nx \in Nat /\ st \in Nat \ {0}
  BY WritesAre
<1>1. /\ CoreOK(P, nx, st, I, V, E, S, b, C, ph) /\ KeptOK(E, S, b) /\ FoundOK(E, S, I, b)
      /\ b.pending = {} => b.deferred = <<>>
  BY DEF FullOK
<1>2. I \in IntentSet /\ \A d \in Writes : IntentOK(P, nx, st, I, V, d)
  BY <1>1 DEF CoreOK, FiledOK
<1>3. I[c].status = "none"
  BY <1>0, <1>2 DEF IntentOK, StartedBy
<1>4. ~I[c].gaveUp /\ V[c].state = "none"
  BY <1>2, <1>3 DEF IntentOK, PlacedIn, IntentSet
<1>5. J \in IntentSet /\ J[c].status = "uncertain" /\ ~J[c].gaveUp /\ \A d \in Writes : d # c => J[d] = I[d]
  <2>1. "uncertain" \in Statuses
    BY DEF Statuses
  <2>2. /\ J \in IntentSet /\ J[c].status = "uncertain" /\ J[c].gaveUp = I[c].gaveUp
        /\ \A d \in Writes : d # c => J[d] = I[d]
    <3>1. PICK s : s = "uncertain"
      OBVIOUS
    <3>2. s \in Statuses /\ J = WithAnswer(I, c, s, n)
      BY <2>1, <3>1
    <3>3. /\ J \in IntentSet /\ J[c].status = s /\ J[c].gaveUp = I[c].gaveUp
          /\ \A d \in Writes : d # c => J[d] = I[d]
      BY <1>2, <3>2, OneAnswer
    <3> QED
      BY <3>1, <3>3
  <2> QED
    BY <1>4, <2>2
<1>6. GivenUp(J) = GivenUp(I) /\ Hung(J) = Hung(I) \cup {c}
  BY <1>3, <1>4, <1>5 DEF GivenUp, Hung
<1>7. b \in BookSet /\ BookOK(E, S, b) /\ PaidOK(nx, st, I, V, b, C, ph) /\ HoldOK(I, b)
  BY <1>1 DEF CoreOK, BookOK
<1>8. PICK p, u : p = b.pending \cup {c} /\ u = b.unresolved
  OBVIOUS
<1>9. a = WithHold(b, p, u) /\ p \in SUBSET Writes /\ u \in SUBSET Writes
  BY <1>7, <1>8 DEF Intent, BookSet, WithHold
<1>10. LooksAlike(b, a) /\ a.table = b.table /\ a.pending = p /\ a.unresolved = u
       /\ a.deferred = b.deferred /\ a.filled = b.filled
  BY <1>7, <1>9, HoldChanges
<1>11. AccountOpen(b, nx)
  BY <1>0, <1>7, RoutedIsOpen
<1>12. HoldOK(J, a)
  BY <1>0, <1>6, <1>7, <1>8, <1>10, <1>11 DEF HoldOK, AccountOpen
<1>13. FiledOK(P, nx, st + 1, J, V)
  <2>1. ASSUME NEW d \in Writes PROVE IntentOK(P, nx, st + 1, J, V, d)
    <3>1. CASE d = c
      BY <1>0, <1>4, <1>5, <3>1 DEF IntentOK, StartedBy
    <3>2. CASE d # c
      <4>1. StartedBy(nx, st, d) => StartedBy(nx, st + 1, d)
        BY <1>0, WritesAre DEF StartedBy
      <4>2. IntentOK(P, nx, st, I, V, d) /\ J[d] = I[d]
        BY <1>2, <1>5, <3>2
      <4>3. PlacedIn(P, J, d) <=> PlacedIn(P, I, d)
        BY <4>2 DEF PlacedIn
      <4> QED
        BY <4>1, <4>2, <4>3 DEF IntentOK
    <3> QED
      BY <3>1, <3>2
  <2>2. nx \in Nat /\ st + 1 \in Nat
    BY <1>0
  <2> QED
    BY <1>5, <2>1, <2>2 DEF FiledOK
<1>14. BoundOK(P, J, V, E, a, ph)
  <2>1. ASSUME NEW d \in Writes PROVE OrderOK(P, J, V, a, d)
    <3>0. OrderOK(P, I, V, b, d)
      BY <1>1 DEF CoreOK, BoundOK
    <3>1. CASE d = c
      <4>1. b.table.orders[c].owner = Nobody /\ b.table.orders[c].confirmed = Unconfirmed
        BY <1>3, <3>0, <3>1 DEF OrderOK, PlacedIn
      <4> QED
        BY <1>5, <1>10, <3>1, <4>1 DEF OrderOK, NamedIn
    <3>2. CASE d # c
      BY <1>5, <1>10, <3>0, <3>2, SameOrder, OthersBound
    <3> QED
      BY <3>1, <3>2
  <2> QED
    BY <1>1, <1>10, <2>1 DEF CoreOK, BoundOK, ClosingOK
<1>15. PaidOK(nx, st + 1, J, V, a, C, ph)
  <2> SUFFICES ASSUME NEW h \in Returns PROVE AccountOK(nx, st + 1, J, V, C, ph, a.table.accounts[h], h)
    BY DEF PaidOK
  <2>1. PICK x : x = b.table.accounts[h]
    OBVIOUS
  <2>2. AccountOK(nx, st, I, V, C, ph, x, h)
    BY <1>7, <2>1 DEF PaidOK
  <2>3. Begun(nx, st + 1, h) <=> Begun(nx, st, h)
    BY <1>0 DEF Begun
  <2>4. x.state = "released" => h # nx
    BY <1>11, <2>1 DEF AccountOpen, Open
  <2>5. x.state = "released" => \A d \in Writes : d[1] = h => V[d].state # "resting" /\ J[d].status # "uncertain"
    BY <1>0, <1>5, <2>2, <2>4 DEF AccountOK
  <2>6. \A d \in Writes : J[d].gaveUp => I[d].gaveUp
    BY <1>5
  <2>7. AccountOK(nx, st + 1, J, V, C, ph, x, h)
    BY <2>2, <2>3, <2>5, <2>6 DEF AccountOK
  <2> QED
    BY <1>10, <2>1, <2>7
<1>16. BookOK(E, S, a) /\ KeptOK(E, S, a) /\ FoundOK(E, S, J, a)
  <2>1. BookOK(E, S, a)
    BY <1>7, <1>10, BookStays
  <2>2. KeptOK(E, S, a)
    BY <1>1, <1>10, KeptStays
  <2>3. FoundOK(E, S, J, a)
    BY <1>1, <1>6, <1>10, FoundStays
  <2> QED
    BY <2>1, <2>2, <2>3
<1>17. OverOK(E, a)
  BY <1>1, <1>10, OverStays DEF CoreOK
<1>18. a.pending # {}
  BY <1>8, <1>10
<1> QED
  BY <1>1, <1>3, <1>4, <1>12, <1>13, <1>14, <1>15, <1>16, <1>17, <1>18 DEF FullOK, CoreOK

-----------------------------------------------------------------------------
(* A certain answer: what it says of a write's order. *)
BoundTo(P, V, b, c, s) ==
    IF P[c[1]][c[2]].op = "cancel"
    THEN IF s = "cancelled" THEN [b EXCEPT !.table = CancelOrder(@, P[c[1]][c[2]].target)] ELSE b
    ELSE IF (s = "cancelled" => V[c].done > 0) /\ s # "rejected"
         THEN OrderResult(b, c, IF s = "resting" THEN V[c].left + V[c].done ELSE V[c].done)
         ELSE b

Answers == {"filled", "resting", "cancelled", "rejected"}
TrueOf(V, c, s) ==
    /\ s = "filled" => V[c].state = "filled"
    /\ s = "resting" => V[c].state # "none"
    /\ s = "cancelled" => V[c].state = "cancelled"
    /\ s = "rejected" => V[c].state = "none"

(* It binds the order, for all it can execute, or leaves every order's terms. *)
NewlyBound(b, c, size, a) ==
    /\ b.table.orders[c].owner = Nobody
    /\ a.table.orders[c].owner = c[1] /\ a.table.orders[c].ordered = size
    /\ a.table.orders[c].confirmed = Unconfirmed
BindLeaves(b, c, a) ==
    /\ LooksAlike(b, a) /\ a.pending = b.pending /\ a.unresolved = b.unresolved
    /\ a.table.accounts = b.table.accounts
    /\ \A d \in OrderIds : d # c => SameTerms(b.table.orders[d], a.table.orders[d])

WithOrders(b, o) == [b EXCEPT !.table = [b.table EXCEPT !.orders = o]]
OrdersSet == [OrderIds -> OrderSet]
OrdersChanged(b, o, a) ==
    /\ a \in BookSet /\ a.table.orders = o /\ a.table.lots = b.table.lots /\ a.table.accounts = b.table.accounts
    /\ a.filled = b.filled /\ a.deferred = b.deferred /\ a.refused = b.refused
    /\ a.pending = b.pending /\ a.unresolved = b.unresolved

(* Only the orders of the table change. *)
LEMMA TableChanges ==
  ASSUME NEW b \in BookSet, NEW o \in OrdersSet, NEW a,
         a = WithOrders(b, o)
  PROVE  OrdersChanged(b, o, a)
<1>1. PICK t : t = [b.table EXCEPT !.orders = o]
  OBVIOUS
<1>2. t \in TableSet /\ t.orders = o /\ t.lots = b.table.lots /\ t.accounts = b.table.accounts
  <2>1. b.table \in TableSet
    BY DEF BookSet
  <2> QED
    BY <1>1, <2>1 DEF TableSet, OrdersSet
<1>3. a = [b EXCEPT !.table = t]
  BY <1>1 DEF WithOrders
<1> QED
  BY <1>2, <1>3 DEF BookSet, OrdersChanged

(* Cancelling leaves every order's terms. *)
LEMMA CancelIs ==
  ASSUME NEW b \in BookSet, NEW c \in OrderIds, NEW d \in OrderIds, NEW a,
         a = [b EXCEPT !.table = CancelOrder(@, d)]
  PROVE  BindLeaves(b, c, a) /\ SameTerms(b.table.orders[c], a.table.orders[c])
<1>1. PICK o : o = [b.table.orders EXCEPT ![d].remaining = 0]
  OBVIOUS
<1>2. b.table.orders \in [OrderIds -> OrderSet] /\ b.table \in TableSet
  BY DEF BookSet, TableSet
<1>3. PICK x : x = [b.table.orders[d] EXCEPT !.remaining = 0]
  OBVIOUS
<1>4. b.table.orders[d] \in OrderSet
  BY <1>2
<1>5. x \in OrderSet /\ SameTerms(b.table.orders[d], x) /\ x.executed = b.table.orders[d].executed
  BY <1>3, <1>4 DEF OrderSet, SameTerms
<1>6. o = [b.table.orders EXCEPT ![d] = x]
  BY <1>1, <1>2, <1>3
<1>7. o \in [OrderIds -> OrderSet] /\ \A e \in OrderIds : SameTerms(b.table.orders[e], o[e]) /\ o[e].executed = b.table.orders[e].executed
  BY <1>2, <1>5, <1>6, SameOrder
<1>8. a = WithOrders(b, o)
  BY <1>1, <1>2 DEF CancelOrder, BookSet, TableSet, WithOrders
<1>9. /\ a \in BookSet /\ a.table.orders = o /\ a.table.lots = b.table.lots /\ a.table.accounts = b.table.accounts
      /\ a.filled = b.filled /\ a.deferred = b.deferred /\ a.refused = b.refused
      /\ a.pending = b.pending /\ a.unresolved = b.unresolved
  <2>1. o \in OrdersSet
    BY <1>7 DEF OrdersSet
  <2>2. OrdersChanged(b, o, a)
    BY <1>8, <2>1, TableChanges
  <2> QED
    BY <2>2 DEF OrdersChanged
<1> QED
  BY <1>7, <1>9 DEF BindLeaves, LooksAlike, SameTerms

WithBinding(b, c, h, size) == [b EXCEPT !.table = Bind(@, c, h, size)]
Binders == Returns \cup {WindDown}

(* Binding gives one order its terms. *)
LEMMA BindIs ==
  ASSUME NEW b \in BookSet, NEW c \in OrderIds, b.table.orders[c].owner = Nobody, b.table.orders[c].executed = 0,
         NEW size \in Int, NEW h \in Binders, NEW a, a = WithBinding(b, c, h, size)
  PROVE  /\ BindLeaves(b, c, a)
         /\ a.table.orders[c].owner = h /\ a.table.orders[c].ordered = size
         /\ a.table.orders[c].confirmed = Unconfirmed
<1>1. PICK x : x = [NoOrder EXCEPT !.owner = h, !.remaining = size, !.ordered = size]
  OBVIOUS
<1>2. x \in OrderSet /\ x.owner = h /\ x.ordered = size /\ x.confirmed = Unconfirmed /\ x.executed = 0
  <2>1. x = [owner |-> h, remaining |-> size, ordered |-> size, executed |-> 0, confirmed |-> Unconfirmed]
    BY <1>1 DEF NoOrder
  <2>2. Unconfirmed \in Int /\ h \in Returns \cup {Nobody, WindDown}
    BY DEF Unconfirmed, Binders
  <2> QED
    BY <2>1, <2>2 DEF OrderSet
<1>3. PICK o : o = [b.table.orders EXCEPT ![c] = x]
  OBVIOUS
<1>4. b.table.orders \in [OrderIds -> OrderSet] /\ b.table \in TableSet
  BY DEF BookSet, TableSet
<1>5. o \in [OrderIds -> OrderSet] /\ o[c] = x /\ \A e \in OrderIds : e # c => o[e] = b.table.orders[e]
  BY <1>2, <1>3, <1>4
<1>6. a = WithOrders(b, o)
  BY <1>1, <1>3, <1>4 DEF Bind, BookSet, TableSet, WithOrders, WithBinding
<1>7. /\ a \in BookSet /\ a.table.orders = o /\ a.table.lots = b.table.lots /\ a.table.accounts = b.table.accounts
      /\ a.filled = b.filled /\ a.deferred = b.deferred /\ a.refused = b.refused
      /\ a.pending = b.pending /\ a.unresolved = b.unresolved
  <2>1. o \in OrdersSet
    BY <1>5 DEF OrdersSet
  <2>2. OrdersChanged(b, o, a)
    BY <1>6, <2>1, TableChanges
  <2> QED
    BY <2>2 DEF OrdersChanged
<1>8. \A d \in OrderIds : d # c => SameTerms(b.table.orders[d], a.table.orders[d])
  BY <1>5, <1>7, SameOrder
<1>9. \A d \in OrderIds : /\ a.table.orders[d].executed = b.table.orders[d].executed
                          /\ a.table.orders[d].owner = Nobody => b.table.orders[d].owner = Nobody
  <2>1. h # Nobody
    BY Accounts DEF Binders
  <2> QED
    BY <1>2, <1>5, <1>7, <2>1
<1> QED
  BY <1>2, <1>5, <1>7, <1>8, <1>9 DEF BindLeaves, LooksAlike

(* Nothing bound leaves every order's terms. *)
LEMMA NothingBound ==
  ASSUME NEW b \in BookSet, NEW c
  PROVE  BindLeaves(b, c, b)
  BY SameOrder DEF BindLeaves, LooksAlike

(* What a certain answer binds, and when it binds nothing. *)
LEMMA BoundIs ==
  ASSUME NEW P, NEW V \in VenueSet, NEW b \in BookSet, NEW c \in Writes, NEW s \in Answers,
         P[c[1]][c[2]] \in Requests,
         b.table.orders[c].owner = Nobody, b.table.orders[c].executed = 0, AccountOpen(b, c[1]),
         NEW a, a = BoundTo(P, V, b, c, s)
  PROVE  /\ BindLeaves(b, c, a)
         /\ \/ SameTerms(b.table.orders[c], a.table.orders[c])
               /\ (P[c[1]][c[2]].op = "place" => s = "rejected" \/ (s = "cancelled" /\ V[c].done = 0))
            \/ NewlyBound(b, c, IF s = "resting" THEN V[c].left + V[c].done ELSE V[c].done, a)
               /\ P[c[1]][c[2]].op = "place" /\ s # "rejected"
<1>1. V[c].done \in Nat /\ V[c].left \in Nat /\ c \in OrderIds /\ c[1] \in Returns
  BY WritesAre DEF VenueSet
<1>2. PICK r : r = P[c[1]][c[2]]
  OBVIOUS
<1>3. r \in Requests
  BY <1>2
<1>4. CASE r.op = "cancel"
  <2>1. r.target \in OrderIds /\ r.op # "place"
    BY <1>3, <1>4 DEF Requests
  <2>2. CASE s = "cancelled"
    <3>1. a = [b EXCEPT !.table = CancelOrder(@, r.target)]
      BY <1>2, <1>4, <2>2 DEF BoundTo
    <3> QED
      BY <1>1, <1>2, <2>1, <3>1, CancelIs
  <2>3. CASE s # "cancelled"
    <3>1. a = b
      BY <1>2, <1>4, <2>3 DEF BoundTo
    <3> QED
      BY <1>2, <2>1, <3>1, NothingBound, SameOrder
  <2> QED
    BY <2>2, <2>3
<1>5. CASE r.op # "cancel"
  <2>1. r.op = "place"
    BY <1>3, <1>5 DEF Requests
  <2>2. CASE (s = "cancelled" => V[c].done > 0) /\ s # "rejected"
    <3>1. PICK size : size = IF s = "resting" THEN V[c].left + V[c].done ELSE V[c].done
      OBVIOUS
    <3>2. size \in Int
      BY <1>1, <3>1
    <3>3. a = OrderResult(b, c, size)
      BY <1>2, <1>5, <2>2, <3>1 DEF BoundTo
    <3>4. PICK h : h = c[1]
      OBVIOUS
    <3>7. h \in Binders
      BY <3>4, WritesAre DEF Binders
    <3>8. a = WithBinding(b, c, h, size)
      BY <1>1, <3>3, <3>4 DEF OrderResult, WithBinding
    <3>5. /\ BindLeaves(b, c, a)
          /\ a.table.orders[c].owner = c[1] /\ a.table.orders[c].ordered = size
          /\ a.table.orders[c].confirmed = Unconfirmed
      BY <1>1, <3>2, <3>4, <3>7, <3>8, BindIs
    <3>6. NewlyBound(b, c, size, a)
      BY <3>5 DEF NewlyBound
    <3> QED
      BY <1>2, <2>1, <2>2, <3>1, <3>5, <3>6
  <2>3. CASE ~((s = "cancelled" => V[c].done > 0) /\ s # "rejected")
    <3>1. a = b
      BY <1>2, <1>5, <2>3 DEF BoundTo
    <3>2. s = "rejected" \/ (s = "cancelled" /\ V[c].done = 0)
      BY <1>1, <2>3
    <3> QED
      BY <3>1, <3>2, NothingBound, SameOrder
  <2> QED
    BY <2>2, <2>3
<1> QED
  BY <1>4, <1>5

-----------------------------------------------------------------------------
(* An answer: it binds the order, and lifts the hold.                                         *)
LEMMA AcknowledgedIs ==
  ASSUME NEW b \in BookSet, NEW c \in Writes, NEW e, e = WithHold(b, b.pending \ {c}, b.unresolved \ {c})
  PROVE  Acknowledged(b, c) = LiftedTo(e)
<1>1. PICK d : d = [b EXCEPT !.unresolved = @ \ {c}]
  OBVIOUS
<1>2. d \in BookSet /\ d.deferred = b.deferred /\ d.pending = b.pending
  BY <1>1 DEF BookSet
<1>3. e = [d EXCEPT !.pending = @ \ {c}]
  BY <1>1, <1>2 DEF WithHold, BookSet
<1>4. e.deferred = b.deferred
  BY DEF WithHold, BookSet
<1>5. Acknowledged(b, c) = Lift(d, c)
  BY <1>1 DEF Acknowledged
<1>6. Lift(d, c) = LiftedTo(e)
  BY <1>2, <1>3, <1>4 DEF Lift, LiftedTo
<1> QED
  BY <1>5, <1>6

(* After the answer every order is bound as it must be. *)
LEMMA AnswerBinds ==
  ASSUME NEW P, NEW nx, NEW st, NEW I, NEW V, NEW E, NEW S, NEW b, NEW C, NEW ph,
         CoreOK(P, nx, st, I, V, E, S, b, C, ph), NEW c \in Writes, I[c].status = "uncertain", ~I[c].gaveUp,
         NEW s \in Answers, P[c[1]][c[2]].op = "place" => TrueOf(V, c, s),
         NEW a, a = BoundTo(P, V, b, c, s), NEW J, J[c].status = s, \A d \in Writes : d # c => J[d] = I[d]
  PROVE  BindLeaves(b, c, a) /\ BoundOK(P, J, V, E, a, ph)
<1>1. b \in BookSet /\ BookOK(E, S, b) /\ HoldOK(I, b) /\ BoundOK(P, I, V, E, b, ph) /\ V \in VenueSet
      /\ IntentOK(P, nx, st, I, V, c) /\ VenueOK(V, E)
  BY DEF CoreOK, BookOK, VenueOK, FiledOK
<1>2. c \in OrderIds /\ c[1] \in Returns
  BY WritesAre
<1>3. b.table.orders[c].owner = Nobody /\ b.table.orders[c].confirmed = Unconfirmed
  BY <1>1 DEF BoundOK, OrderOK
<1>4. b.table.orders[c].executed = 0
  BY <1>1, <1>2, <1>3 DEF BookOK
<1>5. AccountOpen(b, c[1])
  BY <1>1 DEF HoldOK, Hung
<1>6. P[c[1]][c[2]] \in Requests
  BY <1>1 DEF IntentOK
<1>7. PICK size : size = IF s = "resting" THEN V[c].left + V[c].done ELSE V[c].done
  OBVIOUS
<1>8. /\ BindLeaves(b, c, a)
      /\ \/ SameTerms(b.table.orders[c], a.table.orders[c])
            /\ (P[c[1]][c[2]].op = "place" => s = "rejected" \/ (s = "cancelled" /\ V[c].done = 0))
         \/ NewlyBound(b, c, size, a) /\ P[c[1]][c[2]].op = "place" /\ s # "rejected"
  BY <1>1, <1>3, <1>4, <1>5, <1>6, <1>7, BoundIs
<1>9. OrderOK(P, J, V, a, c)
  <2>1. CASE SameTerms(b.table.orders[c], a.table.orders[c])
             /\ (P[c[1]][c[2]].op = "place" => s = "rejected" \/ (s = "cancelled" /\ V[c].done = 0))
    BY <1>3, <2>1 DEF SameTerms, OrderOK, NamedIn, PlacedIn
  <2>2. CASE NewlyBound(b, c, size, a) /\ P[c[1]][c[2]].op = "place" /\ s # "rejected"
    <3>1. V[c].done \in Nat /\ V[c].left \in Nat /\ (V[c].state # "resting" => V[c].left = 0)
      BY <1>1 DEF VenueOK, VenueSet
    <3>2. V[c].done + V[c].left <= size
      BY <1>7, <2>2, <3>1 DEF TrueOf, Answers
    <3>3. V[c].state # "none" /\ PlacedIn(P, J, c) /\ J[c].status # "uncertain"
      BY <2>2 DEF TrueOf, Answers, PlacedIn
    <3>4. c[1] # Nobody
      BY <1>2, Accounts
    <3> QED
      BY <2>2, <3>2, <3>3, <3>4 DEF NewlyBound, OrderOK
  <2> QED
    BY <1>8, <2>1, <2>2
<1>10. ASSUME NEW d \in Writes, d # c PROVE OrderOK(P, J, V, a, d)
  <2>1. OrderOK(P, I, V, b, d) /\ SameTerms(b.table.orders[d], a.table.orders[d]) /\ J[d] = I[d]
    BY <1>1, <1>8, <1>10, WritesAre DEF BoundOK, BindLeaves
  <2> QED
    BY <2>1, OthersBound
<1>11. ClosingOK(E, a, ph)
  <2>1. ClosingOK(E, b, ph) /\ SameTerms(b.table.orders[Closing], a.table.orders[Closing])
    BY <1>1, <1>8, WritesAre DEF BoundOK, BindLeaves
  <2> QED
    BY <2>1 DEF ClosingOK, SameTerms
<1> QED
  BY <1>8, <1>9, <1>10, <1>11 DEF BoundOK

(* The invariant survives a certain answer. *)
LEMMA AnswerIs ==
  ASSUME NEW P, NEW nx, NEW st, NEW I, NEW V, NEW E, NEW S, NEW b, NEW C, NEW ph,
         FullOK(P, nx, st, I, V, E, S, b, C, ph), ph # "dead", NEW c \in Writes,
         I[c].status = "uncertain", ~I[c].gaveUp,
         NEW s \in Answers, P[c[1]][c[2]].op = "place" => TrueOf(V, c, s),
         NEW n \in PollsSet, NEW J, J = WithAnswer(I, c, s, n)
  PROVE  FullOK(P, nx, st, J, V, E, S, Acknowledged(BoundTo(P, V, b, c, s), c), C, ph)
<1>1. /\ CoreOK(P, nx, st, I, V, E, S, b, C, ph) /\ KeptOK(E, S, b) /\ FoundOK(E, S, I, b)
  BY DEF FullOK
<1>2. PICK d : d = BoundTo(P, V, b, c, s)
  OBVIOUS
<1>3. I \in IntentSet /\ s \in Statuses
  BY <1>1 DEF CoreOK, FiledOK, Answers, Statuses
<1>4. J \in IntentSet /\ J[c].status = s /\ J[c].gaveUp = I[c].gaveUp /\ \A x \in Writes : x # c => J[x] = I[x]
  BY <1>3, OneAnswer
<1>5. BindLeaves(b, c, d) /\ BoundOK(P, J, V, E, d, ph)
  BY <1>1, <1>2, <1>4, AnswerBinds
<1>6. PICK p, u : p = d.pending \ {c} /\ u = d.unresolved \ {c}
  OBVIOUS
<1>7. PICK e : e = WithHold(d, p, u)
  OBVIOUS
<1>8. d \in BookSet /\ p \in SUBSET Writes /\ u \in SUBSET Writes
  BY <1>5, <1>6 DEF BindLeaves, LooksAlike, BookSet
<1>9. LooksAlike(d, e) /\ e.table = d.table /\ e.pending = p /\ e.unresolved = u
  BY <1>7, <1>8, HoldChanges
<1>10. Acknowledged(d, c) = LiftedTo(e)
  BY <1>6, <1>7, <1>8, AcknowledgedIs
<1>11. LooksAlike(b, e)
  BY <1>5, <1>9 DEF BindLeaves, LooksAlike
<1>12. e.table.accounts = b.table.accounts
  BY <1>5, <1>9 DEF BindLeaves
<1>13. GivenUp(J) = GivenUp(I) /\ c \notin GivenUp(I)
  BY <1>4 DEF GivenUp
<1>14. HoldOK(J, e)
  <2>1. Hung(J) = Hung(I) \ {c}
    BY <1>4 DEF Hung, Answers
  <2>2. e.pending = Hung(J) /\ e.unresolved = GivenUp(J)
    BY <1>1, <1>5, <1>6, <1>9, <1>13, <2>1 DEF CoreOK, HoldOK, BindLeaves
  <2>3. ASSUME NEW x \in e.pending PROVE AccountOpen(e, x[1])
    <3>1. AccountOpen(b, x[1])
      BY <1>1, <2>1, <2>2 DEF CoreOK, HoldOK
    <3> QED
      BY <1>12, <3>1 DEF AccountOpen, Open
  <2> QED
    BY <2>2, <2>3 DEF HoldOK
<1>15. FiledOK(P, nx, st, J, V)
  <2>1. FiledOK(P, nx, st, I, V)
    BY <1>1 DEF CoreOK
  <2>2. IntentOK(P, nx, st, J, V, c)
    <3>1. IntentOK(P, nx, st, I, V, c)
      BY <2>1 DEF FiledOK
    <3>2. PlacedIn(P, J, c) <=> PlacedIn(P, I, c)
      BY <1>4 DEF PlacedIn, Answers
    <3> QED
      BY <1>4, <3>1, <3>2 DEF IntentOK, PlacedIn, TrueOf, Answers
  <2>3. ASSUME NEW x \in Writes, x # c PROVE IntentOK(P, nx, st, J, V, x)
    <3>1. IntentOK(P, nx, st, I, V, x) /\ J[x] = I[x]
      BY <1>4, <2>1, <2>3 DEF FiledOK
    <3> QED
      BY <3>1, OthersFiled
  <2> QED
    BY <1>4, <2>1, <2>2, <2>3 DEF FiledOK
<1>16. BoundOK(P, J, V, E, e, ph)
  BY <1>5, <1>9 DEF BoundOK, OrderOK, ClosingOK
<1>17. PaidOK(nx, st, J, V, e, C, ph)
  <2> SUFFICES ASSUME NEW h \in Returns PROVE AccountOK(nx, st, J, V, C, ph, e.table.accounts[h], h)
    BY DEF PaidOK
  <2>1. PICK x : x = b.table.accounts[h]
    OBVIOUS
  <2>2. AccountOK(nx, st, I, V, C, ph, x, h)
    BY <1>1, <2>1 DEF CoreOK, PaidOK
  <2>3. \A y \in Writes : /\ J[y].status = "uncertain" => I[y].status = "uncertain"
                          /\ J[y].gaveUp => I[y].gaveUp
    BY <1>4
  <2>4. AccountOK(nx, st, J, V, C, ph, x, h)
    BY <2>2, <2>3 DEF AccountOK
  <2> QED
    BY <1>12, <2>1, <2>4
<1>18. BookOK(E, S, e) /\ KeptOK(E, S, e) /\ FoundOK(E, S, J, e)
  <2>1. BookOK(E, S, e)
    BY <1>1, <1>11, BookStays DEF CoreOK
  <2>2. KeptOK(E, S, e)
    BY <1>1, <1>11, KeptStays
  <2>3. FoundOK(E, S, J, e)
    BY <1>1, <1>11, <1>13, FoundStays
  <2> QED
    BY <2>1, <2>2, <2>3
<1>19. OverOK(E, e)
  <2>1. OverOK(E, b)
    BY <1>1 DEF CoreOK
  <2>2. e.filled = b.filled
    BY <1>11 DEF LooksAlike
  <2> QED
    BY <1>12, <2>1, <2>2, OverStays
<1>20. CoreOK(P, nx, st, J, V, E, S, e, C, ph)
  BY <1>1, <1>14, <1>15, <1>16, <1>17, <1>18, <1>19 DEF CoreOK
<1>21. FullOK(P, nx, st, J, V, E, S, LiftedTo(e), C, ph)
  BY <1>18, <1>20, LiftIs
<1> QED
  BY <1>2, <1>10, <1>21

-----------------------------------------------------------------------------
(* One more execution at the venue: it counts for its order, and is not in the book. *)
Later(E, e) == \A i \in DOMAIN E : E[i].at < e.at

CountsMore(E, e, F) ==
    \A o : Total(SizesIn(F), OrderIn(F, o))
             = Total(SizesIn(E), OrderIn(E, o)) + (IF o = e.order THEN e.size ELSE 0)

(* An order's executions grow by the new one. *)
LEMMA GrowsBy ==
  ASSUME NEW E \in Seq(FillSet), NEW e \in FillSet, NEW F, F = Append(E, e)
  PROVE  CountsMore(E, e, F)
<1>1. /\ F \in Seq(FillSet) /\ DOMAIN E = 1 .. Len(E) /\ Len(E) \in Nat /\ F[Len(E) + 1] = e
      /\ DOMAIN F = 1 .. Len(E) + 1
      /\ \A i \in DOMAIN E : F[i] = E[i] /\ i \in DOMAIN F /\ i # Len(E) + 1
      /\ \A i \in DOMAIN F : i \in DOMAIN E \/ i = Len(E) + 1
  BY AppendIs
<1> SUFFICES ASSUME NEW o
             PROVE  Total(SizesIn(F), OrderIn(F, o))
                      = Total(SizesIn(E), OrderIn(E, o)) + (IF o = e.order THEN e.size ELSE 0)
  BY DEF CountsMore
<1>2. PICK n : n = Len(E) + 1
  OBVIOUS
<1>3. n \in DOMAIN F /\ n \notin DOMAIN E
  BY <1>1, <1>2
<1>4. /\ IsFiniteSet(OrderIn(E, o)) /\ OrderIn(E, o) \subseteq DOMAIN E /\ IsFiniteSet(OrderIn(F, o))
      /\ \A i \in DOMAIN E : SizesIn(E)[i] = E[i].size /\ SizesIn(E)[i] \in Nat \ {0}
      /\ \A i \in DOMAIN F : SizesIn(F)[i] = F[i].size /\ SizesIn(F)[i] \in Nat \ {0}
  BY <1>1, SizesAre
<1>5. \A i \in OrderIn(E, o) : SizesIn(E)[i] \in Int /\ SizesIn(F)[i] = SizesIn(E)[i]
  BY <1>1, <1>4
<1>6. Total(SizesIn(F), OrderIn(E, o)) = Total(SizesIn(E), OrderIn(E, o)) /\ Total(SizesIn(E), OrderIn(E, o)) \in Int
  <2>1. \A i \in OrderIn(E, o) : SizesIn(E)[i] \in Int
    BY <1>5
  <2>2. Total(SizesIn(F), OrderIn(E, o)) = Total(SizesIn(E), OrderIn(E, o))
    BY <1>4, <1>5, TotalSame
  <2>3. Total(SizesIn(E), OrderIn(E, o)) \in Int
    BY <1>4, <2>1, TotalInt
  <2> QED
    BY <2>2, <2>3
<1>7. CASE o = e.order
  <2>1. OrderIn(F, o) = OrderIn(E, o) \cup {n}
    BY <1>1, <1>2, <1>7 DEF OrderIn
  <2>2. n \in OrderIn(F, o) /\ n \notin OrderIn(E, o) /\ OrderIn(E, o) \in SUBSET OrderIn(F, o)
    BY <1>3, <1>4, <2>1
  <2>3. \A i \in OrderIn(F, o) : SizesIn(F)[i] \in Int
    BY <1>4 DEF OrderIn
  <2>4. Total(SizesIn(F), OrderIn(E, o) \cup {n}) = Total(SizesIn(F), OrderIn(E, o)) + SizesIn(F)[n]
    BY <1>4, <2>2, <2>3, TotalAdd
  <2>5. SizesIn(F)[n] = e.size
    BY <1>1, <1>2, <1>3, <1>4
  <2> QED
    BY <1>6, <1>7, <2>1, <2>4, <2>5
<1>8. CASE o # e.order
  <2>1. OrderIn(F, o) = OrderIn(E, o)
    BY <1>1, <1>2, <1>8 DEF OrderIn
  <2> QED
    BY <1>6, <1>8, <2>1
<1> QED
  BY <1>7, <1>8

(* The money is that of the fills as before. *)
LEMMA MoneyGrows ==
  ASSUME NEW E \in Seq(FillSet), NEW b \in BookSet, MoneyOK(E, b),
         NEW e \in FillSet, Priced(e), NEW F, F = Append(E, e), EndsFlat(F),
         AppliedIn(F, b) = AppliedIn(E, b)
  PROVE  MoneyOK(F, b)
<1>1. /\ F \in Seq(FillSet) /\ DOMAIN E = 1 .. Len(E) /\ Len(E) \in Nat /\ F[Len(E) + 1] = e
      /\ DOMAIN F = 1 .. Len(E) + 1
      /\ \A i \in DOMAIN E : F[i] = E[i] /\ i \in DOMAIN F /\ i # Len(E) + 1
      /\ \A i \in DOMAIN F : i \in DOMAIN E \/ i = Len(E) + 1
  BY AppendIs
<1>2. PICK A : A = AppliedIn(E, b)
  OBVIOUS
<1>3. /\ IsFiniteSet(DOMAIN E) /\ Cardinality(DOMAIN E) = Len(E)
      /\ \A i \in DOMAIN E : SignedIn(E)[i] = Sign(E[i].buy) * E[i].size /\ SignedIn(E)[i] \in Int
      /\ \A i \in DOMAIN F : SignedIn(F)[i] = Sign(F[i].buy) * F[i].size
  BY <1>1, SignedAre
<1>4. A \in SUBSET DOMAIN E /\ IsFiniteSet(A) /\ Cardinality(A) <= Len(E)
  <2>1. A \in SUBSET DOMAIN E
    BY <1>2 DEF AppliedIn
  <2> QED
    BY <1>3, <2>1, FS_Subset
<1>5. Total(SignedIn(F), A) = Total(SignedIn(E), A)
  <2>1. \A i \in A : SignedIn(E)[i] \in Int /\ SignedIn(F)[i] = SignedIn(E)[i]
    BY <1>1, <1>3, <1>4
  <2> QED
    BY <1>4, <2>1, TotalSame
<1>6. FeesOK(F)
  <2>1. FeesOK(E)
    BY DEF MoneyOK
  <2> SUFFICES ASSUME NEW i \in DOMAIN F PROVE Priced(F[i])
    BY DEF FeesOK
  <2>2. CASE i \in DOMAIN E
    BY <1>1, <2>1, <2>2 DEF FeesOK
  <2>3. CASE i = Len(E) + 1
    BY <1>1, <2>3
  <2> QED
    BY <1>1, <2>2, <2>3
<1>7. ASSUME ClosesLast(F, b.filled) PROVE Held(b.table) = 0 - Spent(b.filled)
  <2>1. \A j \in DOMAIN b.filled : j <= Len(E) /\ j \in Nat
    <3>1. Len(b.filled) = Cardinality(A)
      BY <1>2 DEF MoneyOK
    <3>2. DOMAIN b.filled = 1 .. Len(b.filled) /\ Len(b.filled) \in Nat
      BY FiniteDomain DEF BookSet
    <3> QED
      BY <1>1, <1>4, <3>1, <3>2
  <2>2. Len(F) = Len(E) + 1
    BY <1>1
  <2>3. \A j \in DOMAIN b.filled : b.filled[j].order # Closing
    BY <1>1, <1>7, <2>1, <2>2 DEF ClosesLast
  <2> QED
    BY <2>3 DEF MoneyOK, ClosesLast
<1> QED
  BY <1>2, <1>5, <1>6, <1>7 DEF MoneyOK

(* The closing execution flattens the position; before it there is none. *)
LEMMA ClosesFlat ==
  ASSUME NEW E \in Seq(FillSet), OrderIn(E, Closing) = {}, NEW e \in FillSet, NEW F, F = Append(E, e),
         e.order = Closing => Sign(e.buy) * e.size = 0 - Total(SignedIn(E), DOMAIN E)
  PROVE  EndsFlat(F)
<1>1. /\ F \in Seq(FillSet) /\ DOMAIN E = 1 .. Len(E) /\ Len(E) \in Nat /\ F[Len(E) + 1] = e
      /\ DOMAIN F = 1 .. Len(E) + 1
      /\ \A i \in DOMAIN E : F[i] = E[i] /\ i \in DOMAIN F /\ i # Len(E) + 1
      /\ \A i \in DOMAIN F : i \in DOMAIN E \/ i = Len(E) + 1
  BY AppendIs
<1>2. /\ IsFiniteSet(DOMAIN E)
      /\ \A i \in DOMAIN E : SignedIn(E)[i] = Sign(E[i].buy) * E[i].size /\ SignedIn(E)[i] \in Int
      /\ \A i \in DOMAIN F : SignedIn(F)[i] = Sign(F[i].buy) * F[i].size
  BY <1>1, SignedAre
<1> SUFFICES ASSUME NEW i \in DOMAIN F, F[i].order = Closing
             PROVE  Total(SignedIn(F), DOMAIN F \ {i}) = 0 - Sign(F[i].buy) * F[i].size
  BY DEF EndsFlat
<1>3. i = Len(E) + 1
  BY <1>1 DEF OrderIn
<1>4. DOMAIN F \ {i} = DOMAIN E
  BY <1>1, <1>3
<1>5. Total(SignedIn(F), DOMAIN E) = Total(SignedIn(E), DOMAIN E)
  <2>1. \A j \in DOMAIN E : SignedIn(E)[j] \in Int /\ SignedIn(F)[j] = SignedIn(E)[j]
    BY <1>1, <1>2
  <2> QED
    BY <1>2, <2>1, TotalSame
<1>6. PICK m \in Int : m = Total(SignedIn(E), DOMAIN E)
  BY <1>2, TotalInt
<1>7. PICK p : p = Sign(e.buy) * e.size
  OBVIOUS
<1>8. p = 0 - m /\ F[i] = e
  BY <1>1, <1>3, <1>6, <1>7
<1>9. m = 0 - p
  BY <1>6, <1>8
<1> QED
  BY <1>4, <1>5, <1>6, <1>7, <1>8, <1>9

(* The book agrees with the executions as before. *)
LEMMA BookGrows ==
  ASSUME NEW E \in Seq(FillSet), NEW S \in SUBSET DOMAIN E, NEW b, BookOK(E, S, b),
         NEW e \in FillSet, Later(E, e), Priced(e), NEW F, F = Append(E, e), EndsFlat(F)
  PROVE  BookOK(F, S, b)
<1>1. /\ F \in Seq(FillSet) /\ DOMAIN E = 1 .. Len(E) /\ Len(E) \in Nat /\ F[Len(E) + 1] = e
      /\ \A i \in DOMAIN E : F[i] = E[i] /\ i \in DOMAIN F /\ i # Len(E) + 1
      /\ \A i \in DOMAIN F : i \in DOMAIN E \/ i = Len(E) + 1
  BY AppendIs
<1>2. \A i \in DOMAIN E : E[i] # e
  <2> SUFFICES ASSUME NEW i \in DOMAIN E, E[i] = e PROVE FALSE
    OBVIOUS
  <2>1. e.at \in Int /\ e.at < e.at
    BY DEF Later, FillSet
  <2> QED
    BY <2>1
<1>3. ~IsIn(e, b.filled)
  BY <1>2 DEF BookOK
<1>4. AppliedIn(F, b) = AppliedIn(E, b)
  BY <1>1, <1>3 DEF AppliedIn
<1>5. \A o : OrderIn(F, o) \cap AppliedIn(F, b) = OrderIn(E, o) \cap AppliedIn(E, b)
  BY <1>1, <1>4 DEF OrderIn, AppliedIn
<1>6. ASSUME NEW o \in OrderIds
      PROVE  Total(SizesIn(F), OrderIn(F, o) \cap AppliedIn(F, b)) = Total(SizesIn(E), OrderIn(E, o) \cap AppliedIn(E, b))
  <2>1. PICK A : A = OrderIn(E, o) \cap AppliedIn(E, b)
    OBVIOUS
  <2>2. /\ IsFiniteSet(OrderIn(E, o)) /\ OrderIn(E, o) \subseteq DOMAIN E
        /\ \A i \in DOMAIN E : SizesIn(E)[i] = E[i].size /\ SizesIn(E)[i] \in Nat \ {0}
        /\ \A i \in DOMAIN F : SizesIn(F)[i] = F[i].size
    BY <1>1, SizesAre
  <2>3. IsFiniteSet(A) /\ A \subseteq DOMAIN E
    BY <2>1, <2>2, FS_Subset
  <2>4. \A i \in A : SizesIn(E)[i] \in Int /\ SizesIn(F)[i] = SizesIn(E)[i]
    BY <1>1, <2>2, <2>3
  <2>5. Total(SizesIn(F), A) = Total(SizesIn(E), A)
    BY <2>3, <2>4, TotalSame
  <2> QED
    BY <1>5, <2>1, <2>5
<1>7. \A g : IsIn(g, b.filled) => \E i \in S : g = F[i]
  BY <1>1 DEF BookOK
<1>8. MoneyOK(F, b)
  BY <1>4, MoneyGrows DEF BookOK
<1> QED
  BY <1>6, <1>7, <1>8 DEF BookOK

Grows(E, F, b) ==
    \/ F = E
    \/ \E e \in FillSet : /\ F = Append(E, e) /\ Later(E, e) /\ EndsFlat(F)
                          /\ Priced(e)
                          /\ e.order[1] \in Returns => b.table.accounts[e.order[1]].state # "released"

(* The venue moves: what was read is still there, and the book is as it was.              *)
LEMMA ReadGrows ==
  ASSUME NEW E \in Seq(FillSet), NEW S \in SUBSET DOMAIN E, NEW b, NEW I, NEW F, Grows(E, F, b),
         BookOK(E, S, b), KeptOK(E, S, b), FoundOK(E, S, I, b), OverOK(E, b)
  PROVE  S \in SUBSET DOMAIN F /\ BookOK(F, S, b) /\ KeptOK(F, S, b) /\ FoundOK(F, S, I, b) /\ OverOK(F, b)
<1>1. CASE F = E
  BY <1>1
<1>2. CASE F # E
  <2>1. PICK e \in FillSet : /\ F = Append(E, e) /\ Later(E, e) /\ EndsFlat(F)
                             /\ Priced(e)
                             /\ e.order[1] \in Returns => b.table.accounts[e.order[1]].state # "released"
    BY <1>2 DEF Grows
  <2>2. /\ DOMAIN E = 1 .. Len(E) /\ Len(E) \in Nat /\ F[Len(E) + 1] = e
        /\ \A i \in DOMAIN E : F[i] = E[i] /\ i \in DOMAIN F
        /\ \A i \in DOMAIN F : i \in DOMAIN E \/ i = Len(E) + 1
    BY <2>1, AppendIs
  <2>3. BookOK(F, S, b)
    BY <2>1, BookGrows
  <2>4. KeptOK(F, S, b)
    BY <2>2 DEF KeptOK
  <2>5. FoundOK(F, S, I, b)
    BY <2>2 DEF FoundOK
  <2>6. OverOK(F, b)
    <3> SUFFICES ASSUME NEW h \in Returns, b.table.accounts[h].state = "released",
                        NEW i \in DOMAIN F, F[i].order[1] = h
                 PROVE  IsIn(F[i], b.filled)
      BY DEF OverOK
    <3>1. i # Len(E) + 1
      BY <2>1, <2>2
    <3> QED
      BY <2>2, <3>1 DEF OverOK
  <2> QED
    BY <2>2, <2>3, <2>4, <2>5, <2>6
<1> QED
  BY <1>1, <1>2

(* The invariant survives what the venue does, if the venue and the intents agree after it. *)
LEMMA VenueMoves ==
  ASSUME NEW P, NEW nx, NEW st, NEW I, NEW V, NEW E, NEW S, NEW b, NEW C, NEW ph,
         FullOK(P, nx, st, I, V, E, S, b, C, ph),
         NEW W, NEW F, VenueOK(W, F), \A d \in Writes : IntentOK(P, nx, st, I, W, d),
         BoundOK(P, I, W, F, b, ph), Grows(E, F, b),
         \A d \in Writes : W[d].state = "resting" => V[d].state = "resting" \/ AccountOpen(b, d[1])
  PROVE  FullOK(P, nx, st, I, W, F, S, b, C, ph)
<1>1. /\ CoreOK(P, nx, st, I, V, E, S, b, C, ph) /\ KeptOK(E, S, b) /\ FoundOK(E, S, I, b)
      /\ b.pending = {} => b.deferred = <<>>
  BY DEF FullOK
<1>2. E \in Seq(FillSet) /\ S \in SUBSET DOMAIN E /\ BookOK(E, S, b) /\ OverOK(E, b)
  BY <1>1 DEF CoreOK, VenueOK
<1>3. S \in SUBSET DOMAIN F /\ BookOK(F, S, b) /\ KeptOK(F, S, b) /\ FoundOK(F, S, I, b) /\ OverOK(F, b)
  BY <1>1, <1>2, ReadGrows
<1>4. PaidOK(nx, st, I, W, b, C, ph)
  <2> SUFFICES ASSUME NEW h \in Returns PROVE AccountOK(nx, st, I, W, C, ph, b.table.accounts[h], h)
    BY DEF PaidOK
  <2>1. PICK x : x = b.table.accounts[h]
    OBVIOUS
  <2>2. AccountOK(nx, st, I, V, C, ph, x, h)
    BY <1>1, <2>1 DEF CoreOK, PaidOK
  <2>3. x.state = "released" => ~AccountOpen(b, h)
    BY <2>1 DEF AccountOpen, Open
  <2>4. AccountOK(nx, st, I, W, C, ph, x, h)
    BY <2>2, <2>3 DEF AccountOK
  <2> QED
    BY <2>1, <2>4
<1>5. FiledOK(P, nx, st, I, W)
  BY <1>1 DEF CoreOK, FiledOK
<1> QED
  BY <1>1, <1>3, <1>4, <1>5 DEF FullOK, CoreOK

-----------------------------------------------------------------------------
(* What the venue does: it executes a resting order, an order arrives, an order is cancelled. *)
VenueRec == [state : {"none", "resting", "filled", "cancelled"}, buy : BOOLEAN, left : Nat, done : Nat]
WithVenue(V, c, x) == [V EXCEPT ![c] = x]

(* One order of the venue changes. *)
LEMMA OneVenue ==
  ASSUME NEW V \in VenueSet, NEW c \in Writes, NEW x \in VenueRec, NEW W, W = WithVenue(V, c, x)
  PROVE  W \in VenueSet /\ W[c] = x /\ \A d \in Writes : d # c => W[d] = V[d]
  BY DEF VenueSet, VenueRec, WithVenue

(* The fields of an order at the venue. *)
LEMMA VenueTypes ==
  ASSUME NEW V \in VenueSet, NEW c \in Writes
  PROVE  /\ V[c] \in VenueRec /\ V[c].left \in Nat /\ V[c].done \in Nat
         /\ V[c].state \in {"none", "resting", "filled", "cancelled"}
  BY DEF VenueSet, VenueRec

(* A later execution keeps the executions in order. *)
LEMMA InOrderMore ==
  ASSUME NEW E \in Seq(FillSet), \A i, j \in DOMAIN E : i < j => E[i].at < E[j].at,
         NEW e \in FillSet, Later(E, e), NEW F, F = Append(E, e)
  PROVE  F \in Seq(FillSet) /\ \A i, j \in DOMAIN F : i < j => F[i].at < F[j].at
<1>1. /\ F \in Seq(FillSet) /\ DOMAIN E = 1 .. Len(E) /\ Len(E) \in Nat /\ F[Len(E) + 1] = e
      /\ DOMAIN F = 1 .. Len(E) + 1
      /\ \A i \in DOMAIN E : F[i] = E[i] /\ i \in DOMAIN F
      /\ \A i \in DOMAIN F : i \in DOMAIN E \/ i = Len(E) + 1
  BY AppendIs
<1> SUFFICES ASSUME NEW i \in DOMAIN F, NEW j \in DOMAIN F, i < j PROVE F[i].at < F[j].at
  BY <1>1
<1>2. i \in DOMAIN E
  BY <1>1
<1>3. CASE j \in DOMAIN E
  BY <1>1, <1>2, <1>3
<1>4. CASE j = Len(E) + 1
  BY <1>1, <1>2, <1>4 DEF Later
<1> QED
  BY <1>1, <1>3, <1>4

(* The venue says of an order what it executed of it. *)
LEMMA VenueExecutes ==
  ASSUME NEW V, NEW E, VenueOK(V, E), NEW c \in Writes, NEW e \in FillSet, e.order = c, Later(E, e),
         NEW x \in VenueRec, x.done = V[c].done + e.size, x.state # "none",
         x.state # "resting" => x.left = 0,
         NEW W, W = WithVenue(V, c, x), NEW F, F = Append(E, e)
  PROVE  VenueOK(W, F)
<1>1. V \in VenueSet /\ E \in Seq(FillSet) /\ \A i, j \in DOMAIN E : i < j => E[i].at < E[j].at
  BY DEF VenueOK
<1>2. W \in VenueSet /\ W[c] = x /\ \A d \in Writes : d # c => W[d] = V[d]
  BY <1>1, OneVenue
<1>3. F \in Seq(FillSet) /\ \A i, j \in DOMAIN F : i < j => F[i].at < F[j].at
  BY <1>1, InOrderMore
<1>4. \A o : Total(SizesIn(F), OrderIn(F, o))
               = Total(SizesIn(E), OrderIn(E, o)) + (IF o = e.order THEN e.size ELSE 0)
  <2>1. CountsMore(E, e, F)
    BY <1>1, GrowsBy
  <2> QED
    BY <2>1 DEF CountsMore
<1>5. ASSUME NEW d \in Writes
      PROVE  /\ W[d].done = Total(SizesIn(F), OrderIn(F, d))
             /\ W[d].state # "resting" => W[d].left = 0
             /\ W[d].state = "none" => W[d].done = 0
  <2>1. /\ V[d].done = Total(SizesIn(E), OrderIn(E, d))
        /\ V[d].state # "resting" => V[d].left = 0
        /\ V[d].state = "none" => V[d].done = 0
    BY DEF VenueOK
  <2>2. V[d].done \in Nat
    BY <1>1, VenueTypes
  <2>3. CASE d = c
    BY <1>2, <1>4, <2>1, <2>3
  <2>4. CASE d # c
    <3>1. Total(SizesIn(F), OrderIn(F, d)) = Total(SizesIn(E), OrderIn(E, d)) + 0
      BY <1>4, <2>4
    <3> QED
      BY <1>2, <2>1, <2>2, <2>4, <3>1
  <2> QED
    BY <2>3, <2>4
<1> QED
  BY <1>2, <1>3, <1>5 DEF VenueOK

(* A change of state says the same of what was executed. *)
LEMMA VenueSays ==
  ASSUME NEW V, NEW E, VenueOK(V, E), NEW W \in VenueSet,
         \A d \in Writes : /\ W[d].done = V[d].done
                           /\ W[d].state # "resting" => W[d].left = 0
                           /\ W[d].state = "none" => V[d].done = 0
  PROVE  VenueOK(W, E)
  BY DEF VenueOK

(* Nothing of the wind-down's. *)
LEMMA ClosingGrows ==
  ASSUME NEW E \in Seq(FillSet), NEW e \in FillSet, NEW F, F = Append(E, e), e.order # Closing,
         NEW b, NEW ph, ClosingOK(E, b, ph)
  PROVE  ClosingOK(F, b, ph)
<1>1. /\ DOMAIN E = 1 .. Len(E) /\ Len(E) \in Nat /\ F[Len(E) + 1] = e
      /\ \A i \in DOMAIN E : F[i] = E[i] /\ i \in DOMAIN F
      /\ \A i \in DOMAIN F : i \in DOMAIN E \/ i = Len(E) + 1
  BY AppendIs
<1>2. OrderIn(F, Closing) = OrderIn(E, Closing)
  BY <1>1 DEF OrderIn
<1>3. Total(SizesIn(F), OrderIn(F, Closing)) = Total(SizesIn(E), OrderIn(E, Closing)) + 0
  <2>1. CountsMore(E, e, F)
    BY GrowsBy
  <2> QED
    BY <2>1 DEF CountsMore
<1>4. Total(SizesIn(E), OrderIn(E, Closing)) \in Int
  <2>1. IsFiniteSet(OrderIn(E, Closing)) /\ \A i \in OrderIn(E, Closing) : SizesIn(E)[i] \in Int
    BY SizesAre
  <2> QED
    BY <2>1, TotalInt
<1> QED
  BY <1>2, <1>3, <1>4 DEF ClosingOK

(* The invariant survives an execution of a resting order. *)
LEMMA ExecutesIs ==
  ASSUME NEW P, NEW nx, NEW st, NEW I, NEW V, NEW E, NEW S, NEW b, NEW C, NEW ph,
         FullOK(P, nx, st, I, V, E, S, b, C, ph),
         OrderIn(E, Closing) = {},
         NEW c \in Writes, V[c].state = "resting", NEW e \in FillSet, e.order = c, Later(E, e),
         e.size <= V[c].left, Priced(e),
         NEW x \in VenueRec, x.done = V[c].done + e.size, x.left = V[c].left - e.size,
         x.state = IF x.left = 0 THEN "filled" ELSE "resting",
         NEW W, W = WithVenue(V, c, x), NEW F, F = Append(E, e)
  PROVE  FullOK(P, nx, st, I, W, F, S, b, C, ph)
<1>1. /\ VenueOK(V, E) /\ V \in VenueSet /\ E \in Seq(FillSet) /\ BoundOK(P, I, V, E, b, ph)
      /\ \A d \in Writes : IntentOK(P, nx, st, I, V, d)
  BY DEF FullOK, CoreOK, VenueOK, FiledOK
<1>2. W[c] = x /\ \A d \in Writes : d # c => W[d] = V[d]
  BY <1>1, OneVenue
<1>3. V[c].left \in Nat /\ V[c].done \in Nat /\ e.size \in Nat
  BY <1>1, VenueTypes DEF FillSet
<1>4. VenueOK(W, F)
  BY VenueExecutes, <1>1
<1>5. ASSUME NEW d \in Writes PROVE IntentOK(P, nx, st, I, W, d)
  BY <1>1, <1>2, OthersFiled DEF IntentOK
<1>6. BoundOK(P, I, W, F, b, ph)
  <2>1. ClosingOK(F, b, ph)
    BY <1>1, ClosingGrows, WritesAre DEF BoundOK
  <2>2. ASSUME NEW d \in Writes PROVE OrderOK(P, I, W, b, d)
    <3>1. OrderOK(P, I, V, b, d)
      BY <1>1 DEF BoundOK
    <3>2. CASE d = c
      <4>1. W[c].done + W[c].left = V[c].done + V[c].left
        BY <1>2, <1>3
      <4>2. ~(NamedIn(P, I, c) /\ b.table.orders[c].owner = Nobody) /\ b.table.orders[c].confirmed = Unconfirmed
        BY <1>1, <3>1, <3>2 DEF OrderOK, IntentOK, NamedIn
      <4> QED
        BY <1>2, <3>1, <3>2, <4>1, <4>2 DEF OrderOK
    <3>3. CASE d # c
      BY <1>2, <3>1, <3>3 DEF OrderOK
    <3> QED
      BY <3>2, <3>3
  <2> QED
    BY <2>1, <2>2 DEF BoundOK
<1>7. Grows(E, F, b)
  <2>1. c[1] \in Returns /\ b.table.accounts[c[1]].state # "released"
    BY WritesAre DEF FullOK, CoreOK, PaidOK, AccountOK
  <2>2. EndsFlat(F)
    BY <1>1, ClosesFlat, WritesAre
  <2> QED
    BY <2>1, <2>2 DEF Grows
<1>8. \A d \in Writes : W[d].state = "resting" => V[d].state = "resting" \/ AccountOpen(b, d[1])
  BY <1>2
<1> QED
  BY <1>4, <1>5, <1>6, <1>7, <1>8, VenueMoves

(* The invariant survives the arrival of an order, whatever it executes at once. *)
LEMMA ArrivesIs ==
  ASSUME NEW P, NEW nx, NEW st, NEW I, NEW V, NEW E, NEW S, NEW b, NEW C, NEW ph,
         FullOK(P, nx, st, I, V, E, S, b, C, ph),
         NEW c \in Writes, I[c].status = "uncertain", ~I[c].gaveUp, V[c].state = "none",
         P[c[1]][c[2]].op = "place", OrderIn(E, Closing) = {},
         NEW x \in VenueRec, x.state \in {"filled", "resting"}, x.state = "filled" => x.left = 0,
         NEW W, W = WithVenue(V, c, x), NEW F,
         \/ F = E /\ x.done = 0
         \/ \E e \in FillSet : /\ e.order = c /\ Later(E, e) /\ F = Append(E, e) /\ x.done = e.size
                              /\ Priced(e)
  PROVE  FullOK(P, nx, st, I, W, F, S, b, C, ph)
<1>1. /\ VenueOK(V, E) /\ V \in VenueSet /\ E \in Seq(FillSet) /\ BoundOK(P, I, V, E, b, ph)
      /\ \A d \in Writes : IntentOK(P, nx, st, I, V, d)
      /\ HoldOK(I, b)
  BY DEF FullOK, CoreOK, VenueOK, FiledOK
<1>2. W \in VenueSet /\ W[c] = x /\ \A d \in Writes : d # c => W[d] = V[d]
  BY <1>1, OneVenue
<1>3. V[c].done = 0
  BY <1>1 DEF VenueOK
<1>4. AccountOpen(b, c[1])
  BY <1>1 DEF HoldOK, Hung
<1>5. VenueOK(W, F) /\ Grows(E, F, b) /\ ClosingOK(F, b, ph)
  <2>1. CASE F = E /\ x.done = 0
    <3>1. \A d \in Writes : /\ W[d].done = V[d].done
                            /\ W[d].state # "resting" => W[d].left = 0
                            /\ W[d].state = "none" => V[d].done = 0
      BY <1>1, <1>2, <1>3, <2>1 DEF VenueOK
    <3>2. VenueOK(W, E)
      BY <1>1, <1>2, <3>1, VenueSays
    <3> QED
      BY <1>1, <2>1, <3>2 DEF Grows, BoundOK
  <2>2. CASE \E e \in FillSet : /\ e.order = c /\ Later(E, e) /\ F = Append(E, e) /\ x.done = e.size
                               /\ Priced(e)
    <3>1. PICK e \in FillSet : /\ e.order = c /\ Later(E, e) /\ F = Append(E, e) /\ x.done = e.size
                              /\ Priced(e)
      BY <2>2
    <3>2. x.done = V[c].done + e.size
      BY <1>3, <3>1 DEF FillSet
    <3>3. VenueOK(W, F)
      BY <1>1, <3>1, <3>2, VenueExecutes
    <3>4. b.table.accounts[e.order[1]].state # "released"
      BY <1>4, <3>1 DEF AccountOpen, Open
    <3>5. Grows(E, F, b)
      <4>1. EndsFlat(F)
        BY <1>1, <3>1, ClosesFlat, WritesAre
      <4> QED
        BY <3>1, <3>4, <4>1 DEF Grows
    <3>6. ClosingOK(F, b, ph)
      BY <1>1, <3>1, ClosingGrows, WritesAre DEF BoundOK
    <3> QED
      BY <3>3, <3>5, <3>6
  <2> QED
    BY <2>1, <2>2
<1>6. ASSUME NEW d \in Writes PROVE IntentOK(P, nx, st, I, W, d)
  BY <1>1, <1>2, OthersFiled DEF IntentOK, PlacedIn
<1>7. BoundOK(P, I, W, F, b, ph)
  <2>1. ASSUME NEW d \in Writes PROVE OrderOK(P, I, W, b, d)
    <3>1. OrderOK(P, I, V, b, d)
      BY <1>1 DEF BoundOK
    <3>2. CASE d = c
      BY <1>2, <3>1, <3>2 DEF OrderOK, NamedIn
    <3>3. CASE d # c
      BY <1>2, <3>1, <3>3 DEF OrderOK
    <3> QED
      BY <3>2, <3>3
  <2> QED
    BY <1>5, <2>1 DEF BoundOK
<1>8. \A d \in Writes : W[d].state = "resting" => V[d].state = "resting" \/ AccountOpen(b, d[1])
  BY <1>2, <1>4
<1> QED
  BY <1>5, <1>6, <1>7, <1>8, VenueMoves

CancelledFrom(v, w) ==
    w.done = v.done /\ w.left = 0 /\ w.state = IF v.state = "resting" THEN "cancelled" ELSE v.state

(* The invariant survives cancels at the venue. *)
LEMMA CancelsIs ==
  ASSUME NEW P, NEW nx, NEW st, NEW I, NEW V, NEW E, NEW S, NEW b, NEW C, NEW ph,
         FullOK(P, nx, st, I, V, E, S, b, C, ph),
         NEW W \in VenueSet, \A d \in Writes : W[d] = V[d] \/ CancelledFrom(V[d], W[d])
  PROVE  FullOK(P, nx, st, I, W, E, S, b, C, ph)
<1>1. /\ VenueOK(V, E) /\ V \in VenueSet /\ E \in Seq(FillSet) /\ BoundOK(P, I, V, E, b, ph)
      /\ \A d \in Writes : IntentOK(P, nx, st, I, V, d)
  BY DEF FullOK, CoreOK, VenueOK, FiledOK
<1>2. VenueOK(W, E)
  <2>1. \A d \in Writes : /\ W[d].done = V[d].done
                          /\ W[d].state # "resting" => W[d].left = 0
                          /\ W[d].state = "none" => V[d].done = 0
    BY <1>1 DEF VenueOK, CancelledFrom
  <2> QED
    BY <1>1, <2>1, VenueSays
<1>3. ASSUME NEW d \in Writes PROVE IntentOK(P, nx, st, I, W, d)
  <2>1. CASE W[d] = V[d]
    BY <1>1, <2>1 DEF IntentOK
  <2>2. CASE CancelledFrom(V[d], W[d])
    BY <1>1, <2>2 DEF IntentOK, CancelledFrom
  <2> QED
    BY <2>1, <2>2
<1>4. BoundOK(P, I, W, E, b, ph)
  <2>1. ASSUME NEW d \in Writes PROVE OrderOK(P, I, W, b, d)
    <3>1. OrderOK(P, I, V, b, d)
      BY <1>1 DEF BoundOK
    <3>2. CASE W[d] = V[d]
      BY <3>1, <3>2 DEF OrderOK
    <3>3. CASE CancelledFrom(V[d], W[d])
      <4>1. b.table.orders[d].owner # Nobody => W[d].done + W[d].left <= b.table.orders[d].ordered
        <5>1. V[d].left \in Nat /\ V[d].done \in Nat /\ W[d].done = V[d].done /\ W[d].left = 0
          BY <1>1, <3>3, VenueTypes DEF CancelledFrom
        <5>2. b.table.orders[d].ordered \in Int
          <6>1. b \in BookSet /\ d \in OrderIds
            BY WritesAre DEF FullOK, CoreOK, BookOK
          <6> QED
            BY <6>1 DEF BookSet, TableSet, OrderSet
        <5> QED
          BY <3>1, <5>1, <5>2 DEF OrderOK
      <4> QED
        BY <3>1, <3>3, <4>1 DEF OrderOK, CancelledFrom
    <3> QED
      BY <3>2, <3>3
  <2> QED
    BY <1>1, <2>1 DEF BoundOK
<1>5. Grows(E, E, b)
  BY DEF Grows
<1>6. \A d \in Writes : W[d].state = "resting" => V[d].state = "resting" \/ AccountOpen(b, d[1])
  BY DEF CancelledFrom
<1> QED
  BY <1>2, <1>3, <1>4, <1>5, <1>6, VenueMoves

-----------------------------------------------------------------------------
(* Intents that say the same, and more is begun.                                              *)
LEMMA IntentsAlike ==
  ASSUME NEW P, NEW nx, NEW st \in Nat, NEW I, NEW V, NEW E, NEW S, NEW b, NEW C, NEW ph,
         FullOK(P, nx, st, I, V, E, S, b, C, ph),
         NEW J \in IntentSet, \A d \in Writes : J[d].status = I[d].status /\ J[d].gaveUp = I[d].gaveUp,
         NEW mt, mt = st \/ (mt = st + 1 /\ st # 0)
  PROVE  FullOK(P, nx, mt, J, V, E, S, b, C, ph)
<1>1. CoreOK(P, nx, st, I, V, E, S, b, C, ph) /\ KeptOK(E, S, b) /\ FoundOK(E, S, I, b)
      /\ (b.pending = {} => b.deferred = <<>>)
  BY DEF FullOK
<1>2. GivenUp(J) = GivenUp(I) /\ Hung(J) = Hung(I)
  BY DEF GivenUp, Hung
<1>3. \A d \in Writes : (PlacedIn(P, J, d) <=> PlacedIn(P, I, d)) /\ (NamedIn(P, J, d) <=> NamedIn(P, I, d))
  BY DEF PlacedIn, NamedIn
<1>4. nx \in Nat /\ mt \in Nat
  BY <1>1 DEF CoreOK, FiledOK
<1>5. \A d \in Writes : StartedBy(nx, st, d) => StartedBy(nx, mt, d)
  BY <1>4, WritesAre DEF StartedBy
<1>6. FiledOK(P, nx, mt, J, V)
  <2>1. ASSUME NEW d \in Writes PROVE IntentOK(P, nx, mt, J, V, d)
    <3>1. IntentOK(P, nx, st, I, V, d)
      BY <1>1 DEF CoreOK, FiledOK
    <3> QED
      BY <1>3, <1>5, <3>1 DEF IntentOK
  <2> QED
    BY <1>4, <2>1 DEF FiledOK
<1>7. HoldOK(J, b)
  BY <1>1, <1>2 DEF CoreOK, HoldOK
<1>8. BoundOK(P, J, V, E, b, ph)
  <2>1. ASSUME NEW d \in Writes PROVE OrderOK(P, J, V, b, d)
    <3>1. OrderOK(P, I, V, b, d)
      BY <1>1 DEF CoreOK, BoundOK
    <3> QED
      BY <1>3, <3>1 DEF OrderOK
  <2> QED
    BY <1>1, <2>1 DEF CoreOK, BoundOK
<1>9. PaidOK(nx, mt, J, V, b, C, ph)
  <2> SUFFICES ASSUME NEW h \in Returns PROVE AccountOK(nx, mt, J, V, C, ph, b.table.accounts[h], h)
    BY DEF PaidOK
  <2>1. PICK x : x = b.table.accounts[h]
    OBVIOUS
  <2>2. AccountOK(nx, st, I, V, C, ph, x, h)
    BY <1>1, <2>1 DEF CoreOK, PaidOK
  <2>3. Begun(nx, mt, h) <=> Begun(nx, st, h)
    BY <1>4 DEF Begun
  <2>4. AccountOK(nx, mt, J, V, C, ph, x, h)
    BY <2>2, <2>3 DEF AccountOK
  <2> QED
    BY <2>1, <2>4
<1>10. FoundOK(E, S, J, b)
  BY <1>1, <1>2 DEF FoundOK
<1> QED
  BY <1>1, <1>6, <1>7, <1>8, <1>9, <1>10 DEF FullOK, CoreOK

(* The invariant survives one more unanswered poll. *)
LEMMA PollsAgain ==
  ASSUME NEW P, NEW nx, NEW st \in Nat, NEW I, NEW V, NEW E, NEW S, NEW b, NEW C, NEW ph,
         FullOK(P, nx, st, I, V, E, S, b, C, ph), NEW c \in Writes, I[c].status = "uncertain",
         NEW n \in PollsSet, NEW J, J = WithAnswer(I, c, "uncertain", n)
  PROVE  FullOK(P, nx, st, J, V, E, S, b, C, ph)
<1>1. PICK s : s = "uncertain"
  OBVIOUS
<1>2. s \in Statuses /\ I \in IntentSet /\ J = WithAnswer(I, c, s, n)
  BY <1>1 DEF FullOK, CoreOK, FiledOK, Statuses
<1>3. J \in IntentSet /\ J[c].status = s /\ J[c].gaveUp = I[c].gaveUp /\ \A d \in Writes : d # c => J[d] = I[d]
  BY <1>2, OneAnswer
<1>4. \A d \in Writes : J[d].status = I[d].status /\ J[d].gaveUp = I[d].gaveUp
  BY <1>1, <1>3
<1> QED
  BY <1>3, <1>4, IntentsAlike

(* The invariant survives a step to the next write. *)
LEMMA StepsOn ==
  ASSUME NEW P, NEW nx, NEW st \in Nat \ {0}, NEW I, NEW V, NEW E, NEW S, NEW b, NEW C, NEW ph,
         FullOK(P, nx, st, I, V, E, S, b, C, ph)
  PROVE  FullOK(P, nx, st + 1, I, V, E, S, b, C, ph)
<1>1. I \in IntentSet
  BY DEF FullOK, CoreOK, FiledOK
<1> QED
  BY <1>1, IntentsAlike

(* A write is given up: its hold is lifted.                                                   *)
LEMMA GivesUpIs ==
  ASSUME NEW P, NEW nx, NEW st, NEW I, NEW V, NEW E, NEW S, NEW b, NEW C, NEW ph,
         FullOK(P, nx, st, I, V, E, S, b, C, ph), ph # "dead", NEW c \in Writes,
         I[c].status = "uncertain", ~I[c].gaveUp, NEW J, J = WithGivenUp(I, c)
  PROVE  FullOK(P, nx, st, J, V, E, S, ReleaseUnresolved(b, c), C, ph)
<1>1. /\ CoreOK(P, nx, st, I, V, E, S, b, C, ph) /\ KeptOK(E, S, b) /\ FoundOK(E, S, I, b)
  BY DEF FullOK
<1>2. I \in IntentSet /\ b \in BookSet /\ HoldOK(I, b)
  BY <1>1 DEF CoreOK, FiledOK, BookOK
<1>3. J \in IntentSet /\ J[c].status = I[c].status /\ J[c].gaveUp /\ \A d \in Writes : d # c => J[d] = I[d]
  BY <1>2, OneGivenUp
<1>4. PICK p, u : p = b.pending \ {c} /\ u = b.unresolved \cup {c}
  OBVIOUS
<1>5. PICK e : e = WithHold(b, p, u)
  OBVIOUS
<1>6. p \in SUBSET Writes /\ u \in SUBSET Writes
  BY <1>2, <1>4 DEF BookSet
<1>7. LooksAlike(b, e) /\ e.table = b.table /\ e.pending = p /\ e.unresolved = u
  BY <1>2, <1>5, <1>6, HoldChanges
<1>8. ReleaseUnresolved(b, c) = LiftedTo(e)
  <2>1. PICK d : d = [b EXCEPT !.unresolved = @ \cup {c}]
    OBVIOUS
  <2>2. d.deferred = b.deferred /\ e = [d EXCEPT !.pending = @ \ {c}]
    BY <1>2, <1>4, <1>5, <2>1 DEF WithHold, BookSet
  <2>3. e.deferred = b.deferred
    BY <1>7 DEF LooksAlike
  <2>4. c \in b.pending
    BY <1>2 DEF HoldOK, Hung
  <2>5. ReleaseUnresolved(b, c) = Lift(d, c)
    BY <2>1, <2>4 DEF ReleaseUnresolved
  <2>6. Lift(d, c) = LiftedTo(e)
    BY <2>2, <2>3 DEF Lift, LiftedTo
  <2> QED
    BY <2>5, <2>6
<1>9. GivenUp(J) = GivenUp(I) \cup {c} /\ Hung(J) = Hung(I) \ {c}
  BY <1>3 DEF GivenUp, Hung
<1>10. \A d \in Writes : J[d].status = I[d].status
  BY <1>3
<1>11. \A d \in Writes : (PlacedIn(P, J, d) <=> PlacedIn(P, I, d)) /\ (NamedIn(P, J, d) <=> NamedIn(P, I, d))
  BY <1>10 DEF PlacedIn, NamedIn
<1>12. HoldOK(J, e)
  BY <1>2, <1>4, <1>7, <1>9 DEF HoldOK, AccountOpen
<1>13. FiledOK(P, nx, st, J, V)
  <2>1. ASSUME NEW d \in Writes PROVE IntentOK(P, nx, st, J, V, d)
    <3>1. IntentOK(P, nx, st, I, V, d) /\ J[d].status = I[d].status /\ (PlacedIn(P, J, d) <=> PlacedIn(P, I, d))
      BY <1>1, <1>10, <1>11 DEF CoreOK, FiledOK
    <3>2. J[d].gaveUp => J[d].status = "uncertain"
      BY <1>3, <3>1 DEF IntentOK
    <3> QED
      BY <3>1, <3>2 DEF IntentOK
  <2> QED
    BY <1>1, <1>3, <2>1 DEF CoreOK, FiledOK
<1>14. BoundOK(P, J, V, E, e, ph)
  <2>1. ASSUME NEW d \in Writes PROVE OrderOK(P, J, V, e, d)
    <3>1. OrderOK(P, I, V, b, d)
      BY <1>1 DEF CoreOK, BoundOK
    <3> QED
      BY <1>7, <1>10, <1>11, <3>1 DEF OrderOK
  <2> QED
    BY <1>1, <1>7, <2>1 DEF CoreOK, BoundOK, ClosingOK
<1>15. PaidOK(nx, st, J, V, e, C, ph)
  <2> SUFFICES ASSUME NEW h \in Returns PROVE AccountOK(nx, st, J, V, C, ph, b.table.accounts[h], h)
    BY <1>7 DEF PaidOK
  <2>1. PICK x : x = b.table.accounts[h]
    OBVIOUS
  <2>2. AccountOK(nx, st, I, V, C, ph, x, h)
    BY <1>1, <2>1 DEF CoreOK, PaidOK
  <2>3. x.payoff.fixed => h # c[1]
    <3>1. AccountOpen(b, c[1])
      BY <1>2 DEF HoldOK, Hung
    <3> QED
      BY <2>1, <3>1 DEF AccountOpen, Open
  <2>4. x.payoff.fixed => \A d \in Writes : d[1] = h => J[d] = I[d]
    BY <1>3, <2>3
  <2>5. AccountOK(nx, st, J, V, C, ph, x, h)
    BY <1>10, <2>2, <2>4 DEF AccountOK
  <2> QED
    BY <2>1, <2>5
<1>16. BookOK(E, S, e) /\ KeptOK(E, S, e) /\ FoundOK(E, S, J, e)
  <2>1. BookOK(E, S, e)
    BY <1>1, <1>7, BookStays DEF CoreOK
  <2>2. KeptOK(E, S, e)
    BY <1>1, <1>7, KeptStays
  <2>3. FoundOK(E, S, J, e)
    BY <1>1, <1>7, <1>9, FoundStays
  <2> QED
    BY <2>1, <2>2, <2>3
<1>17. OverOK(E, e)
  <2>1. OverOK(E, b) /\ e.filled = b.filled
    BY <1>1, <1>7 DEF CoreOK, LooksAlike
  <2> QED
    BY <1>7, <2>1, OverStays
<1>18. CoreOK(P, nx, st, J, V, E, S, e, C, ph)
  BY <1>1, <1>12, <1>13, <1>14, <1>15, <1>16, <1>17 DEF CoreOK
<1>19. FullOK(P, nx, st, J, V, E, S, LiftedTo(e), C, ph)
  BY <1>16, <1>18, LiftIs
<1> QED
  BY <1>8, <1>19

-----------------------------------------------------------------------------
(* The book's accounts and orders move, and nothing is applied.                               *)
HoldersOpen(b, a) == \A c \in b.pending : AccountOpen(b, c[1]) => AccountOpen(a, c[1])
OwnersKeep(b, y) ==
    /\ \A h \in Owners(b.table.lots) : b.table.accounts[h].state = "open" => y[h].state = "open"
    /\ \A h \in Returns : y[h].realized = b.table.accounts[h].realized

(* The invariant survives a change of accounts and orders under which they stay consistent. *)
LEMMA BookMoves ==
  ASSUME NEW P, NEW nx, NEW st, NEW I, NEW V, NEW E, NEW S, NEW b, NEW C, NEW ph,
         FullOK(P, nx, st, I, V, E, S, b, C, ph),
         NEW mx, NEW mt, NEW a, NEW D, NEW pf, LooksAlike(b, a), a.pending = b.pending, a.unresolved = b.unresolved,
         FiledOK(P, mx, mt, I, V), BoundOK(P, I, V, E, a, pf), PaidOK(mx, mt, I, V, a, D, pf), OverOK(E, a),
         HoldersOpen(b, a)
  PROVE  FullOK(P, mx, mt, I, V, E, S, a, D, pf)
<1>1. CoreOK(P, nx, st, I, V, E, S, b, C, ph) /\ KeptOK(E, S, b) /\ FoundOK(E, S, I, b)
      /\ (b.pending = {} => b.deferred = <<>>)
  BY DEF FullOK
<1>2. BookOK(E, S, a)
  BY <1>1, BookStays DEF CoreOK
<1>3. KeptOK(E, S, a)
  BY <1>1, KeptStays
<1>4. FoundOK(E, S, I, a)
  BY <1>1, FoundStays
<1>5. HoldOK(I, a)
  BY <1>1 DEF CoreOK, HoldOK, HoldersOpen
<1>6. a.pending = {} => a.deferred = <<>>
  BY <1>1 DEF LooksAlike
<1> QED
  BY <1>1, <1>2, <1>3, <1>4, <1>5, <1>6 DEF FullOK, CoreOK

(* The invariant survives a change of phase while the world lives. *)
LEMMA PhaseMoves ==
  ASSUME NEW P, NEW nx, NEW st, NEW I, NEW V, NEW E, NEW S, NEW b, NEW C, NEW ph,
         FullOK(P, nx, st, I, V, E, S, b, C, ph), ph # "dead",
         NEW pf, pf # "dead", ph = "flat" => pf = "flat"
  PROVE  FullOK(P, nx, st, I, V, E, S, b, C, pf)
<1>1. CoreOK(P, nx, st, I, V, E, S, b, C, ph)
  BY DEF FullOK
<1>2. BoundOK(P, I, V, E, b, pf)
  BY <1>1 DEF CoreOK, BoundOK, ClosingOK
<1>3. PaidOK(nx, st, I, V, b, C, pf)
  BY <1>1 DEF CoreOK, PaidOK, AccountOK
<1> QED
  BY <1>1, <1>2, <1>3 DEF CoreOK, FullOK

(* Only the accounts change.                                                                  *)
AccountsSet == [Returns -> AccountSet]
WithAccounts(b, y) == [b EXCEPT !.table = [b.table EXCEPT !.accounts = y]]
AccountsChanged(b, y, a) ==
    /\ a \in BookSet /\ a.table.accounts = y /\ a.table.lots = b.table.lots /\ a.table.orders = b.table.orders
    /\ a.filled = b.filled /\ a.deferred = b.deferred /\ a.refused = b.refused
    /\ a.pending = b.pending /\ a.unresolved = b.unresolved

(* Such a change touches nothing else. *)
LEMMA AccountsChange ==
  ASSUME NEW b \in BookSet, NEW y \in AccountsSet, NEW a, a = WithAccounts(b, y)
  PROVE  AccountsChanged(b, y, a)
<1>1. PICK t : t = [b.table EXCEPT !.accounts = y]
  OBVIOUS
<1>2. t \in TableSet /\ t.accounts = y /\ t.lots = b.table.lots /\ t.orders = b.table.orders
  <2>1. b.table \in TableSet
    BY DEF BookSet
  <2> QED
    BY <1>1, <2>1 DEF TableSet, AccountsSet
<1>3. a = [b EXCEPT !.table = t]
  BY <1>1 DEF WithAccounts
<1> QED
  BY <1>2, <1>3 DEF BookSet, AccountsChanged

PhaseOn(ph, pf) == (ph = "flat" => pf \in {"flat", "dead"}) /\ (ph = "dead" => pf = "dead")

(* The invariant survives a change of accounts alone under which they stay consistent. *)
LEMMA AccountsMove ==
  ASSUME NEW P, NEW nx, NEW st, NEW I, NEW V, NEW E, NEW S, NEW b, NEW C, NEW ph,
         FullOK(P, nx, st, I, V, E, S, b, C, ph),
         NEW mx, NEW mt, NEW y, NEW a, NEW D, NEW pf, AccountsChanged(b, y, a), PhaseOn(ph, pf),
         FiledOK(P, mx, mt, I, V), PaidOK(mx, mt, I, V, a, D, pf), OverOK(E, a),
         OwnersKeep(b, y),
         HoldersOpen(b, a)
  PROVE  FullOK(P, mx, mt, I, V, E, S, a, D, pf)
<1>1. LooksAlike(b, a) /\ a.pending = b.pending /\ a.unresolved = b.unresolved
  BY DEF LooksAlike, AccountsChanged, OwnersKeep
<1>2. BoundOK(P, I, V, E, a, pf)
  <2>1. BoundOK(P, I, V, E, b, ph) /\ a.table.orders = b.table.orders
    BY DEF FullOK, CoreOK, AccountsChanged
  <2>2. \A c \in Writes : OrderOK(P, I, V, a, c)
    BY <2>1 DEF BoundOK, OrderOK
  <2>3. ClosingOK(E, a, pf)
    BY <2>1 DEF BoundOK, ClosingOK, PhaseOn
  <2> QED
    BY <2>2, <2>3 DEF BoundOK
<1> QED
  BY <1>1, <1>2, BookMoves

(* Lots are owned by returns. *)
LEMMA OwnersAre ==
  ASSUME NEW b \in BookSet
  PROVE  Owners(b.table.lots) \subseteq Returns
<1>1. b.table.lots \in Seq(LotSet)
  BY DEF BookSet, TableSet
<1>2. \A i \in DOMAIN b.table.lots : b.table.lots[i] \in LotSet
  BY <1>1, FiniteDomain
<1> QED
  BY <1>2 DEF Owners, LotSet

-----------------------------------------------------------------------------
(* A return starts.                                                                           *)
LEMMA StartsIs ==
  ASSUME NEW P, NEW nx \in Returns, NEW I, NEW V, NEW E, NEW S, NEW b, NEW C,
         FullOK(P, nx, 0, I, V, E, S, b, C, "idle"), NEW at \in Int,
         NEW a, a = [b EXCEPT !.table = Start(@, nx, at)]
  PROVE  FullOK(P, nx, 1, I, V, E, S, a, C, "idle")
<1>1. PICK r : r = [NoAccount EXCEPT !.state = "open", !.opened = at]
  OBVIOUS
<1>2. r \in AccountSet /\ r.state = "open" /\ ~r.finished /\ r.late = 0 /\ ~r.payoff.fixed /\ r.realized = 0
  <2>1. r = [state |-> "open", opened |-> at, finished |-> FALSE, realized |-> 0, late |-> 0, payoff |-> NoPayoff]
    BY <1>1 DEF NoAccount
  <2>2. NoPayoff \in PayoffSet /\ ~NoPayoff.fixed
    BY DEF NoPayoff, PayoffSet
  <2> QED
    BY <2>1, <2>2 DEF AccountSet
<1>3. CoreOK(P, nx, 0, I, V, E, S, b, C, "idle") /\ b \in BookSet /\ FiledOK(P, nx, 0, I, V)
      /\ PaidOK(nx, 0, I, V, b, C, "idle") /\ OverOK(E, b) /\ BookOK(E, S, b) /\ nx \in Nat
  BY DEF FullOK, CoreOK, BookOK, FiledOK
<1>4. PICK y : y = [b.table.accounts EXCEPT ![nx] = r]
  OBVIOUS
<1>5. y \in AccountsSet /\ y[nx] = r /\ \A h \in Returns : h # nx => y[h] = b.table.accounts[h]
  BY <1>2, <1>3, <1>4 DEF BookSet, TableSet, AccountsSet
<1>6. a = WithAccounts(b, y)
  BY <1>1, <1>3, <1>4 DEF Start, WithAccounts, BookSet, TableSet
<1>7. AccountsChanged(b, y, a)
  BY <1>3, <1>5, <1>6, AccountsChange
<1>8. b.table.accounts[nx].state = "none" /\ C[nx] = 0 /\ b.table.accounts[nx].realized = 0
  <2>1. AccountOK(nx, 0, I, V, C, "idle", b.table.accounts[nx], nx) /\ ~Begun(nx, 0, nx)
    BY <1>3 DEF PaidOK, Begun
  <2> QED
    BY <2>1 DEF AccountOK
<1>9. PaidOK(nx, 1, I, V, a, C, "idle")
  <2> SUFFICES ASSUME NEW h \in Returns PROVE AccountOK(nx, 1, I, V, C, "idle", y[h], h)
    BY <1>7 DEF PaidOK, AccountsChanged
  <2>1. CASE h = nx
    BY <1>2, <1>3, <1>5, <1>8, <2>1 DEF AccountOK, Begun
  <2>2. CASE h # nx
    <3>1. AccountOK(nx, 0, I, V, C, "idle", y[h], h)
      BY <1>3, <1>5, <2>2 DEF PaidOK
    <3>2. Begun(nx, 1, h) <=> Begun(nx, 0, h)
      BY <1>3, <2>2 DEF Begun
    <3> QED
      BY <3>1, <3>2 DEF AccountOK
  <2> QED
    BY <2>1, <2>2
<1>10. FiledOK(P, nx, 1, I, V)
  <2>1. \A c \in Writes : StartedBy(nx, 0, c) => StartedBy(nx, 1, c)
    BY <1>3, WritesAre DEF StartedBy
  <2> QED
    BY <1>3, <2>1 DEF FiledOK, IntentOK
<1>11. OverOK(E, a)
  <2>1. a.filled = b.filled /\ a.table.accounts = y
    BY <1>7 DEF AccountsChanged
  <2>2. \A h \in Returns : a.table.accounts[h].state = "released" => b.table.accounts[h].state = "released"
    BY <1>2, <1>5, <2>1
  <2> QED
    BY <1>3, <2>1, <2>2 DEF OverOK
<1>12. Owners(b.table.lots) \subseteq Returns
  BY <1>3, OwnersAre
<1>13. OwnersKeep(b, y)
  BY <1>2, <1>5, <1>8, <1>12 DEF OwnersKeep
<1>14. HoldersOpen(b, a)
  <2>1. \A c \in b.pending : c[1] \in Returns
    BY <1>3, WritesAre DEF BookSet
  <2> QED
    BY <1>2, <1>5, <1>7, <2>1 DEF AccountOpen, Open, AccountsChanged, HoldersOpen
<1> QED
  BY <1>7, <1>9, <1>10, <1>11, <1>13, <1>14, AccountsMove DEF PhaseOn

(* A return finishes, and the next one is to be routed. *)
LEMMA FinishesIs ==
  ASSUME NEW P, NEW nx \in Returns, NEW st \in Nat \ {0}, NEW I, NEW V, NEW E, NEW S, NEW b, NEW C,
         FullOK(P, nx, st, I, V, E, S, b, C, "idle"),
         NEW a, a = [b EXCEPT !.table = Finish(@, nx)]
  PROVE  FullOK(P, nx + 1, 0, I, V, E, S, a, C, "settle")
<1>3. CoreOK(P, nx, st, I, V, E, S, b, C, "idle") /\ b \in BookSet /\ FiledOK(P, nx, st, I, V)
      /\ PaidOK(nx, st, I, V, b, C, "idle") /\ OverOK(E, b) /\ BookOK(E, S, b) /\ nx \in Nat
  BY DEF FullOK, CoreOK, BookOK, FiledOK
<1>0. b.table.accounts \in [Returns -> AccountSet] /\ b.table \in TableSet
  BY <1>3 DEF BookSet, TableSet
<1>1. PICK r : r = [b.table.accounts[nx] EXCEPT !.finished = TRUE]
  OBVIOUS
<1>2. /\ r \in AccountSet /\ r.finished /\ r.state = b.table.accounts[nx].state
      /\ r.late = b.table.accounts[nx].late /\ r.realized = b.table.accounts[nx].realized
      /\ r.payoff = b.table.accounts[nx].payoff
  <2>1. b.table.accounts[nx] \in AccountSet
    BY <1>0
  <2> QED
    BY <1>1, <2>1 DEF AccountSet
<1>4. PICK y : y = [b.table.accounts EXCEPT ![nx] = r]
  OBVIOUS
<1>5. y \in AccountsSet /\ y[nx] = r /\ \A h \in Returns : h # nx => y[h] = b.table.accounts[h]
  BY <1>0, <1>2, <1>4 DEF AccountsSet
<1>6. a = WithAccounts(b, y)
  BY <1>0, <1>1, <1>3, <1>4 DEF Finish, WithAccounts, BookSet, TableSet
<1>7. AccountsChanged(b, y, a)
  BY <1>3, <1>5, <1>6, AccountsChange
<1>9. PaidOK(nx + 1, 0, I, V, a, C, "settle")
  <2> SUFFICES ASSUME NEW h \in Returns PROVE AccountOK(nx + 1, 0, I, V, C, "settle", y[h], h)
    BY <1>7 DEF PaidOK, AccountsChanged
  <2>1. PICK x : x = b.table.accounts[h]
    OBVIOUS
  <2>2. AccountOK(nx, st, I, V, C, "idle", x, h) /\ h \in Nat
    BY <1>3, <2>1, LotsAssumption DEF PaidOK
  <2>3. Begun(nx + 1, 0, h) <=> Begun(nx, st, h)
    BY <1>3, <2>2 DEF Begun
  <2>4. h < nx => h < nx + 1
    BY <1>3, <2>2
  <2>5. CASE h = nx
    <3>1. h < nx + 1
      BY <1>3, <2>5
    <3> QED
      BY <1>2, <1>5, <2>1, <2>2, <2>3, <2>5, <3>1 DEF AccountOK
  <2>6. CASE h # nx
    BY <1>5, <2>1, <2>2, <2>3, <2>4, <2>6 DEF AccountOK
  <2> QED
    BY <2>5, <2>6
<1>10. FiledOK(P, nx + 1, 0, I, V)
  <2>1. \A c \in Writes : StartedBy(nx, st, c) => StartedBy(nx + 1, 0, c)
    BY <1>3, WritesAre DEF StartedBy
  <2>2. nx + 1 \in Nat /\ 0 \in Nat
    BY <1>3
  <2> QED
    BY <1>3, <2>1, <2>2 DEF FiledOK, IntentOK
<1>11. OverOK(E, a)
  <2>1. a.filled = b.filled /\ a.table.accounts = y
    BY <1>7 DEF AccountsChanged
  <2>2. \A h \in Returns : a.table.accounts[h].state = "released" => b.table.accounts[h].state = "released"
    BY <1>2, <1>5, <2>1
  <2> QED
    BY <1>3, <2>1, <2>2 DEF OverOK
<1>12. Owners(b.table.lots) \subseteq Returns
  BY <1>3, OwnersAre
<1>13. OwnersKeep(b, y)
  BY <1>2, <1>5, <1>12 DEF OwnersKeep
<1>14. HoldersOpen(b, a)
  <2>1. \A c \in b.pending : c[1] \in Returns
    BY <1>3, WritesAre DEF BookSet
  <2> QED
    BY <1>2, <1>5, <1>7, <2>1 DEF AccountOpen, Open, AccountsChanged, HoldersOpen
<1> QED
  BY <1>7, <1>9, <1>10, <1>11, <1>13, <1>14, AccountsMove DEF PhaseOn

-----------------------------------------------------------------------------
(* Orders that are over are confirmed.                                                        *)
WithConfirmed(b, read, V) == [b EXCEPT !.table = ConfirmAll(@, read, V)]

(* The invariant survives the reading back of orders that are over. *)
LEMMA ConfirmsIs ==
  ASSUME NEW P, NEW nx, NEW st, NEW I, NEW V, NEW E, NEW S, NEW b, NEW C, NEW ph,
         FullOK(P, nx, st, I, V, E, S, b, C, ph), NEW read \in SUBSET Writes,
         \A c \in read : b.table.orders[c].owner # Nobody /\ V[c].state \in {"filled", "cancelled"},
         NEW a, a = WithConfirmed(b, read, V)
  PROVE  FullOK(P, nx, st, I, V, E, S, a, C, ph)
<1>1. CoreOK(P, nx, st, I, V, E, S, b, C, ph) /\ b \in BookSet /\ V \in VenueSet /\ FiledOK(P, nx, st, I, V)
      /\ PaidOK(nx, st, I, V, b, C, ph) /\ OverOK(E, b) /\ BoundOK(P, I, V, E, b, ph)
  BY DEF FullOK, CoreOK, BookOK, VenueOK
<1>2. b.table \in TableSet /\ b.table.orders \in [OrderIds -> OrderSet]
  BY <1>1 DEF BookSet, TableSet
<1>3. PICK o : o = [i \in OrderIds |-> IF i \in read THEN [b.table.orders[i] EXCEPT !.confirmed = V[i].done]
                                       ELSE b.table.orders[i]]
  OBVIOUS
<1>4. ASSUME NEW i \in OrderIds
      PROVE  /\ o[i] \in OrderSet /\ o[i].owner = b.table.orders[i].owner /\ o[i].ordered = b.table.orders[i].ordered
             /\ o[i].executed = b.table.orders[i].executed
             /\ i \notin read => o[i] = b.table.orders[i]
             /\ i \in read => o[i].confirmed = V[i].done
  <2>1. b.table.orders[i] \in OrderSet
    BY <1>2
  <2>2. CASE i \in read
    <3>1. V[i].done \in Nat
      BY <1>1, <2>2, VenueTypes
    <3>2. PICK n : n = V[i].done
      OBVIOUS
    <3>3. PICK r : r = b.table.orders[i]
      OBVIOUS
    <3>4. o[i] = [r EXCEPT !.confirmed = n] /\ n \in Int /\ r \in OrderSet
      BY <1>3, <2>1, <2>2, <3>1, <3>2, <3>3
    <3>5. o[i] \in OrderSet /\ o[i].owner = r.owner /\ o[i].ordered = r.ordered /\ o[i].executed = r.executed
          /\ o[i].confirmed = n
      BY <3>4 DEF OrderSet
    <3> QED
      BY <2>2, <3>2, <3>3, <3>5
  <2>3. CASE i \notin read
    <3>1. o[i] = b.table.orders[i]
      BY <1>3, <2>3
    <3> QED
      BY <2>1, <2>3, <3>1
  <2> QED
    BY <2>2, <2>3
<1>5. o \in OrdersSet
  <2>1. o = [i \in OrderIds |-> o[i]]
    BY <1>3
  <2> QED
    BY <1>4, <2>1 DEF OrdersSet
<1>6. a = WithOrders(b, o)
  BY <1>1, <1>2, <1>3 DEF WithConfirmed, ConfirmAll, BookSet, TableSet, WithOrders
<1>7. OrdersChanged(b, o, a)
  BY <1>1, <1>5, <1>6, TableChanges
<1>8. LooksAlike(b, a) /\ a.pending = b.pending /\ a.unresolved = b.unresolved
  BY <1>4, <1>7 DEF OrdersChanged, LooksAlike
<1>9. BoundOK(P, I, V, E, a, ph)
  <2>1. ASSUME NEW c \in Writes PROVE OrderOK(P, I, V, a, c)
    <3>1. OrderOK(P, I, V, b, c) /\ a.table.orders[c] = o[c] /\ c \in OrderIds
      BY <1>1, <1>7, WritesAre DEF BoundOK, OrdersChanged
    <3>2. CASE c \in read
      BY <1>4, <3>1, <3>2 DEF OrderOK
    <3>3. CASE c \notin read
      <4>1. o[c] = b.table.orders[c]
        BY <1>4, <3>1, <3>3
      <4> QED
        BY <3>1, <4>1 DEF OrderOK
    <3> QED
      BY <3>2, <3>3
  <2>2. ClosingOK(E, a, ph)
    BY <1>1, <1>4, <1>7, WritesAre DEF BoundOK, ClosingOK, OrdersChanged
  <2> QED
    BY <2>1, <2>2 DEF BoundOK
<1>10. a.table.accounts = b.table.accounts /\ a.filled = b.filled
  BY <1>7 DEF OrdersChanged
<1>11. PaidOK(nx, st, I, V, a, C, ph) /\ OverOK(E, a) /\ HoldersOpen(b, a)
  BY <1>1, <1>10 DEF PaidOK, OverOK, AccountOpen, Open, HoldersOpen
<1> QED
  BY <1>1, <1>8, <1>9, <1>11, BookMoves

(* A mid marks.                                                                               *)
MarksSet == [Returns -> MarkSet]
WithMarks(b, m) == [b EXCEPT !.marks = m]

(* Only the marks change. *)
LEMMA MarksChange ==
  ASSUME NEW b \in BookSet, NEW m \in MarksSet, NEW a, a = WithMarks(b, m)
  PROVE  /\ a \in BookSet /\ a.table = b.table /\ a.filled = b.filled /\ a.deferred = b.deferred
         /\ a.refused = b.refused /\ a.pending = b.pending /\ a.unresolved = b.unresolved
  BY DEF BookSet, MarksSet, WithMarks

(* The invariant survives a mid. *)
LEMMA MarksIs ==
  ASSUME NEW P, NEW nx, NEW st, NEW I, NEW V, NEW E, NEW S, NEW b, NEW C, NEW ph,
         FullOK(P, nx, st, I, V, E, S, b, C, ph), NEW at \in Int, NEW px \in Int
  PROVE  FullOK(P, nx, st, I, V, E, S, ObserveMid(b, at, px), C, ph)
<1>1. PICK a : a = ObserveMid(b, at, px)
  OBVIOUS
<1>2. CoreOK(P, nx, st, I, V, E, S, b, C, ph) /\ b \in BookSet /\ FiledOK(P, nx, st, I, V)
      /\ PaidOK(nx, st, I, V, b, C, ph) /\ OverOK(E, b) /\ BoundOK(P, I, V, E, b, ph)
  BY DEF FullOK, CoreOK, BookOK
<1>3. PICK m : m = [h \in Returns |->
        IF AccountOpen(b, h) /\ at >= HorizonOf(b, h) /\ b.marks[h] = NoMark
        THEN [at |-> at, px |-> px] ELSE b.marks[h]]
  OBVIOUS
<1>4. m \in MarksSet
  <2>1. [at |-> at, px |-> px] \in MarkSet /\ \A h \in Returns : b.marks[h] \in MarkSet
    BY <1>2 DEF MarkSet, BookSet
  <2> QED
    BY <1>3, <2>1 DEF MarksSet
<1>5. a = WithMarks(b, m)
  BY <1>1, <1>3 DEF ObserveMid, WithMarks
<1>6. /\ a \in BookSet /\ a.table = b.table /\ a.filled = b.filled /\ a.deferred = b.deferred
      /\ a.refused = b.refused /\ a.pending = b.pending /\ a.unresolved = b.unresolved
  BY <1>2, <1>4, <1>5, MarksChange
<1>7. LooksAlike(b, a)
  BY <1>6 DEF LooksAlike
<1>8. BoundOK(P, I, V, E, a, ph) /\ PaidOK(nx, st, I, V, a, C, ph) /\ OverOK(E, a)
      /\ HoldersOpen(b, a)
  BY <1>2, <1>6 DEF BoundOK, OrderOK, ClosingOK, PaidOK, OverOK, AccountOpen, Open, HoldersOpen
<1> QED
  BY <1>1, <1>2, <1>6, <1>7, <1>8, BookMoves

-----------------------------------------------------------------------------
(* A closed return is over, and leaves.                                                       *)
LEMMA ReleasableIsOver ==
  ASSUME NEW P, NEW nx, NEW st, NEW I, NEW V, NEW E, NEW S, NEW b, NEW C, NEW ph,
         FullOK(P, nx, st, I, V, E, S, b, C, ph), NEW h \in Returns, Releasable(b, h)
  PROVE  /\ \A c \in Writes : c[1] = h => V[c].state # "resting" /\ I[c].status # "uncertain"
         /\ \A i \in DOMAIN E : E[i].order[1] = h => IsIn(E[i], b.filled)
<1>1. /\ VenueOK(V, E) /\ BookOK(E, S, b) /\ HoldOK(I, b) /\ BoundOK(P, I, V, E, b, ph)
      /\ FiledOK(P, nx, st, I, V)
  BY DEF FullOK, CoreOK
<1>2. Closed(b.table, h) /\ \A c \in b.pending \cup b.unresolved : c[1] # h
  BY DEF Releasable
<1>3. ASSUME NEW c \in Writes, c[1] = h PROVE I[c].status # "uncertain"
  BY <1>1, <1>2, <1>3 DEF HoldOK, Hung, GivenUp, FiledOK, IntentSet
<1>4. ASSUME NEW c \in Writes, c[1] = h, b.table.orders[c].owner # Nobody
      PROVE  /\ V[c].state \in {"filled", "cancelled"}
             /\ b.table.orders[c].executed >= V[c].done
  <2>1. OrderOK(P, I, V, b, c) /\ c \in OrderIds
    BY <1>1, WritesAre DEF BoundOK
  <2>2. b.table.orders[c].owner = h
    BY <1>4, <2>1 DEF OrderOK
  <2>3. b.table.orders[c].confirmed # Unconfirmed /\ b.table.orders[c].executed >= b.table.orders[c].confirmed
    BY <1>2, <2>1, <2>2 DEF Closed
  <2> QED
    BY <2>1, <2>3 DEF OrderOK
<1>5. ASSUME NEW c \in Writes, c[1] = h, V[c].state # "none", b.table.orders[c].owner = Nobody
      PROVE  V[c].done = 0 /\ V[c].state = "cancelled"
  <2>1. OrderOK(P, I, V, b, c) /\ IntentOK(P, nx, st, I, V, c) /\ I[c].status \in Statuses
    BY <1>1, WritesAre DEF BoundOK, FiledOK, IntentSet
  <2>2. PlacedIn(P, I, c) /\ I[c].status # "none" /\ I[c].status # "rejected" /\ I[c].status # "uncertain"
    BY <1>3, <1>5, <2>1 DEF IntentOK, PlacedIn
  <2>3. NamedIn(P, I, c)
    BY <2>1, <2>2 DEF NamedIn, Statuses
  <2> QED
    BY <1>5, <2>1, <2>2, <2>3 DEF OrderOK, IntentOK
<1>6. ASSUME NEW c \in Writes, c[1] = h PROVE V[c].state # "resting"
  BY <1>4, <1>5, <1>6
<1>7. ASSUME NEW i \in DOMAIN E, E[i].order[1] = h PROVE IsIn(E[i], b.filled)
  <2> SUFFICES ASSUME ~IsIn(E[i], b.filled) PROVE FALSE
    OBVIOUS
  <2>1. PICK c : c = E[i].order
    OBVIOUS
  <2>2. E \in Seq(FillSet)
    BY <1>1 DEF VenueOK
  <2>3. c \in Writes
    <3>1. E[i] \in FillSet
      BY <2>2, FiniteDomain
    <3> QED
      BY <1>7, <2>1, <3>1, WritesAre DEF FillSet
  <2>4. /\ IsFiniteSet(OrderIn(E, c)) /\ OrderIn(E, c) \subseteq DOMAIN E
        /\ \A j \in DOMAIN E : SizesIn(E)[j] \in Nat \ {0}
    BY <2>2, SizesAre
  <2>5. PICK s : s = OrderIn(E, c) \cap AppliedIn(E, b)
    OBVIOUS
  <2>6. i \in OrderIn(E, c) \ s /\ s \in SUBSET OrderIn(E, c)
    BY <2>1, <2>5 DEF OrderIn, AppliedIn
  <2>7. /\ Total(SizesIn(E), s) \in Nat /\ Total(SizesIn(E), OrderIn(E, c)) \in Nat
        /\ Total(SizesIn(E), s) + SizesIn(E)[i] <= Total(SizesIn(E), OrderIn(E, c))
    <3>1. \A j \in OrderIn(E, c) : SizesIn(E)[j] \in Nat
      BY <2>4
    <3> QED
      BY <2>4, <2>6, <3>1, TotalPart
  <2>8. V[c].done = Total(SizesIn(E), OrderIn(E, c)) /\ (V[c].state = "none" => V[c].done = 0)
    BY <1>1, <2>3 DEF VenueOK
  <2>9. b.table.orders[c].executed = Total(SizesIn(E), s)
    BY <1>1, <2>3, <2>5, WritesAre DEF BookOK
  <2>10. SizesIn(E)[i] \in Nat \ {0}
    BY <2>4
  <2>11. V[c].done # 0 /\ ~(b.table.orders[c].executed >= V[c].done)
    BY <2>7, <2>8, <2>9, <2>10
  <2> QED
    BY <1>4, <1>5, <1>7, <2>1, <2>3, <2>8, <2>11
<1> QED
  BY <1>3, <1>6, <1>7

(* The invariant survives a release. *)
LEMMA ReleasesIs ==
  ASSUME NEW P, NEW nx, NEW st, NEW I, NEW V, NEW E, NEW S, NEW b, NEW C, NEW ph,
         FullOK(P, nx, st, I, V, E, S, b, C, ph), ph # "dead", NEW x \in Returns, Releasable(b, x),
         NEW a, a = [b EXCEPT !.table = Release(@, x)]
  PROVE  FullOK(P, nx, st, I, V, E, S, a, C, ph)
<1>3. CoreOK(P, nx, st, I, V, E, S, b, C, ph) /\ b \in BookSet /\ FiledOK(P, nx, st, I, V)
      /\ PaidOK(nx, st, I, V, b, C, ph) /\ OverOK(E, b) /\ BookOK(E, S, b)
  BY DEF FullOK, CoreOK, BookOK
<1>0. b.table.accounts \in [Returns -> AccountSet] /\ b.table \in TableSet /\ b.table.lots \in Seq(LotSet)
  BY <1>3 DEF BookSet, TableSet
<1>1. PICK r : r = [b.table.accounts[x] EXCEPT !.state = "released"]
  OBVIOUS
<1>8. PICK z : z = b.table.accounts[x]
  OBVIOUS
<1>2. /\ r \in AccountSet /\ r.state = "released" /\ r.finished = z.finished
      /\ r.late = z.late /\ r.realized = z.realized /\ r.payoff = z.payoff
  <2>1. z \in AccountSet
    BY <1>0, <1>8
  <2> QED
    BY <1>1, <1>8, <2>1 DEF AccountSet
<1>4. PICK y : y = [b.table.accounts EXCEPT ![x] = r]
  OBVIOUS
<1>5. y \in AccountsSet /\ y[x] = r /\ \A h \in Returns : h # x => y[h] = b.table.accounts[h]
  BY <1>0, <1>2, <1>4 DEF AccountsSet
<1>6. a = WithAccounts(b, y)
  BY <1>0, <1>1, <1>3, <1>4 DEF Release, WithAccounts, BookSet, TableSet
<1>7. AccountsChanged(b, y, a)
  BY <1>3, <1>5, <1>6, AccountsChange
<1>9. z.state = "open" /\ z.payoff.fixed /\ z.late = Floor(z.realized) /\ LotsOf(b.table, x) = <<>>
  <2>1. Closed(b.table, x)
    BY DEF Releasable
  <2>2. z.state = "open" /\ z.payoff.fixed /\ LotsOf(b.table, x) = <<>> /\ Floor(z.realized) - z.late = 0
    BY <1>8, <2>1 DEF Closed, Owed
  <2>3. z.late \in Int /\ Floor(z.realized) \in Int
    <3>1. z \in AccountSet
      BY <1>0, <1>8
    <3>2. z.realized \in Int /\ z.late \in Int /\ Scale \in Nat \ {0}
      BY <3>1 DEF AccountSet, Scale
    <3> QED
      BY <3>2, DivInt DEF Floor
  <2> QED
    BY <2>2, <2>3
<1>10. /\ \A c \in Writes : c[1] = x => V[c].state # "resting" /\ I[c].status # "uncertain"
       /\ \A i \in DOMAIN E : E[i].order[1] = x => IsIn(E[i], b.filled)
  BY ReleasableIsOver
<1>11. PaidOK(nx, st, I, V, a, C, ph)
  <2> SUFFICES ASSUME NEW h \in Returns PROVE AccountOK(nx, st, I, V, C, ph, y[h], h)
    BY <1>7 DEF PaidOK, AccountsChanged
  <2>1. AccountOK(nx, st, I, V, C, ph, b.table.accounts[h], h)
    BY <1>3 DEF PaidOK
  <2>2. CASE h = x
    <3>1. AccountOK(nx, st, I, V, C, ph, z, x)
      BY <1>8, <2>1, <2>2
    <3>2. AccountOK(nx, st, I, V, C, ph, r, x)
      BY <1>2, <1>9, <1>10, <3>1 DEF AccountOK
    <3> QED
      BY <1>5, <2>2, <3>2
  <2>3. CASE h # x
    BY <1>5, <2>1, <2>3
  <2> QED
    BY <2>2, <2>3
<1>12. OverOK(E, a)
  <2>1. a.filled = b.filled /\ a.table.accounts = y
    BY <1>7 DEF AccountsChanged
  <2> SUFFICES ASSUME NEW h \in Returns, y[h].state = "released", NEW i \in DOMAIN E, E[i].order[1] = h
               PROVE  IsIn(E[i], b.filled)
    BY <2>1 DEF OverOK
  <2>2. CASE h = x
    BY <1>10, <2>2
  <2>3. CASE h # x
    BY <1>3, <1>5, <2>3 DEF OverOK
  <2> QED
    BY <2>2, <2>3
<1>13. OwnersKeep(b, y)
  <2>1. x \notin Owners(b.table.lots)
    BY <1>0, <1>9, OwnIsLots DEF Owners
  <2>2. Owners(b.table.lots) \subseteq Returns
    BY <1>3, OwnersAre
  <2> QED
    BY <1>2, <1>5, <1>8, <2>1, <2>2 DEF OwnersKeep
<1>14. HoldersOpen(b, a)
  <2>1. \A c \in b.pending : c[1] \in Returns
    BY <1>3, WritesAre DEF BookSet
  <2>2. \A c \in b.pending : c[1] # x
    BY DEF Releasable
  <2> QED
    BY <1>5, <1>7, <2>1, <2>2 DEF AccountOpen, Open, AccountsChanged, HoldersOpen
<1> QED
  BY <1>3, <1>7, <1>11, <1>12, <1>13, <1>14, AccountsMove DEF PhaseOn

-----------------------------------------------------------------------------
(* Late money is booked.                                                                      *)
BookedLate(b, fixed, h, x, z) ==
    /\ z \in AccountSet /\ z.state = x.state /\ z.finished = x.finished /\ z.realized = x.realized
    /\ z.payoff = x.payoff
    /\ z.late = x.late + LateOf(b, h, fixed) /\ LateOf(b, h, fixed) \in Int
    /\ x.state = "open" /\ x.payoff.fixed = fixed => z.late = Floor(z.realized)
    /\ ~(x.state = "open" /\ x.payoff.fixed = fixed) => z.late = x.late /\ LateOf(b, h, fixed) = 0

(* A floor is a whole number. *)
LEMMA FloorIs ==
  ASSUME NEW n \in Int
  PROVE  Floor(n) \in Int
<1>1. Scale \in Nat \ {0}
  BY DEF Scale
<1> QED
  BY <1>1, DivInt DEF Floor

(* What booking late money does to each account. *)
LEMMA LateIs ==
  ASSUME NEW b \in BookSet, NEW fixed, NEW y, y = SettleLate(b, fixed).table.accounts
  PROVE  /\ AccountsChanged(b, y, SettleLate(b, fixed))
         /\ \A h \in Returns : BookedLate(b, fixed, h, b.table.accounts[h], y[h])
<1>0. b.table.accounts \in [Returns -> AccountSet] /\ b.table \in TableSet
  BY DEF BookSet, TableSet
<1>1. PICK z : z = [h \in Returns |-> IF h \in Late(b, fixed)
                                      THEN [b.table.accounts[h] EXCEPT !.late = Floor(b.table.accounts[h].realized)]
                                      ELSE b.table.accounts[h]]
  OBVIOUS
<1>2. ASSUME NEW h \in Returns PROVE BookedLate(b, fixed, h, b.table.accounts[h], z[h])
  <2>1. PICK x : x = b.table.accounts[h]
    OBVIOUS
  <2>2. x \in AccountSet
    BY <1>0, <2>1
  <2>3. x.realized \in Int /\ x.late \in Int
    BY <2>2 DEF AccountSet
  <2>4. PICK n : n = Floor(x.realized)
    OBVIOUS
  <2>5. n \in Int
    BY <2>3, <2>4, FloorIs
  <2>6. Owed(b.table, h) = n - x.late
    BY <2>1, <2>4 DEF Owed
  <2>7. h \in Late(b, fixed) <=> x.state = "open" /\ x.payoff.fixed = fixed /\ n - x.late # 0
    BY <2>1, <2>6 DEF Late, Owing
  <2>8. CASE h \in Late(b, fixed)
    <3>1. z[h] = [x EXCEPT !.late = n]
      BY <1>1, <2>1, <2>4, <2>8
    <3>2. /\ z[h] \in AccountSet /\ z[h].state = x.state /\ z[h].finished = x.finished /\ z[h].realized = x.realized
          /\ z[h].payoff = x.payoff /\ z[h].late = n
      BY <2>2, <2>5, <3>1 DEF AccountSet
    <3>3. LateOf(b, h, fixed) = n - x.late
      BY <2>6, <2>8 DEF LateOf
    <3>4. n = x.late + LateOf(b, h, fixed)
      BY <2>3, <2>5, <3>3
    <3>5. LateOf(b, h, fixed) \in Int
      BY <2>3, <2>5, <3>3
    <3> QED
      BY <2>1, <2>4, <2>7, <2>8, <3>2, <3>4, <3>5 DEF BookedLate
  <2>9. CASE h \notin Late(b, fixed)
    <3>1. z[h] = x /\ LateOf(b, h, fixed) = 0
      BY <1>1, <2>1, <2>9 DEF LateOf
    <3>2. x.state = "open" /\ x.payoff.fixed = fixed => x.late = n
      BY <2>3, <2>5, <2>7, <2>9
    <3>3. x.late = x.late + LateOf(b, h, fixed)
      BY <2>3, <3>1
    <3> QED
      BY <2>1, <2>2, <2>4, <3>1, <3>2, <3>3 DEF BookedLate
  <2> QED
    BY <2>8, <2>9
<1>3. z \in AccountsSet
  <2>1. z = [h \in Returns |-> z[h]]
    BY <1>1
  <2> QED
    BY <1>2, <2>1 DEF AccountsSet, BookedLate
<1>4. SettleLate(b, fixed) = WithAccounts(b, z)
  BY <1>0, <1>1 DEF SettleLate, Booked, WithAccounts, BookSet, TableSet
<1>5. AccountsChanged(b, z, SettleLate(b, fixed))
  BY <1>3, <1>4, AccountsChange
<1>6. y = z
  BY <1>5 DEF AccountsChanged
<1> QED
  BY <1>2, <1>5, <1>6

(* What moves with accounts whose standing stays.                                             *)
StatesStay(b, y) ==
    \A h \in Returns : y[h].state = b.table.accounts[h].state /\ y[h].realized = b.table.accounts[h].realized

(* What is released stays so, and so does what is open. *)
LEMMA StandingStays ==
  ASSUME NEW P, NEW nx, NEW st, NEW I, NEW V, NEW E, NEW S, NEW b, NEW C, NEW ph,
         FullOK(P, nx, st, I, V, E, S, b, C, ph), NEW y, NEW a, AccountsChanged(b, y, a),
         StatesStay(b, y)
  PROVE  OverOK(E, a) /\ OwnersKeep(b, y)
<1>1. OverOK(E, b) /\ b \in BookSet
  BY DEF FullOK, CoreOK, BookOK
<1>2. OverOK(E, a)
  BY <1>1 DEF OverOK, AccountsChanged, StatesStay
<1>3. Owners(b.table.lots) \subseteq Returns
  BY <1>1, OwnersAre
<1> QED
  BY <1>2, <1>3 DEF StatesStay, OwnersKeep

LatePaid(b, C, D) == \A h \in Returns : D[h] = C[h] + LateOf(b, h, TRUE)

(* The invariant survives the booking of late money to the owners. *)
LEMMA LateBooksIs ==
  ASSUME NEW P, NEW nx, NEW st, NEW I, NEW V, NEW E, NEW S, NEW b, NEW C, NEW ph,
         FullOK(P, nx, st, I, V, E, S, b, C, ph), ph # "dead",
         NEW a, a = SettleLate(b, TRUE), NEW D, LatePaid(b, C, D)
  PROVE  FullOK(P, nx, st, I, V, E, S, a, D, ph)
<1>1. b \in BookSet /\ FiledOK(P, nx, st, I, V) /\ PaidOK(nx, st, I, V, b, C, ph)
  BY DEF FullOK, CoreOK, BookOK
<1>2. PICK y : y = SettleLate(b, TRUE).table.accounts
  OBVIOUS
<1>3. AccountsChanged(b, y, a) /\ \A h \in Returns : BookedLate(b, TRUE, h, b.table.accounts[h], y[h])
  BY <1>1, <1>2, LateIs
<1>4. PaidOK(nx, st, I, V, a, D, ph)
  <2> SUFFICES ASSUME NEW h \in Returns PROVE AccountOK(nx, st, I, V, D, ph, y[h], h)
    BY <1>3 DEF PaidOK, AccountsChanged
  <2>1. PICK x, z : x = b.table.accounts[h] /\ z = y[h]
    OBVIOUS
  <2>2. AccountOK(nx, st, I, V, C, ph, x, h) /\ BookedLate(b, TRUE, h, x, z)
    BY <1>1, <1>3, <2>1 DEF PaidOK
  <2>3. D[h] = z.late
    BY <2>2 DEF AccountOK, BookedLate, LatePaid
  <2>4. AccountOK(nx, st, I, V, D, ph, z, h)
    BY <2>2, <2>3 DEF AccountOK, BookedLate
  <2> QED
    BY <2>1, <2>4
<1>5. \A h \in Returns : /\ y[h].state = b.table.accounts[h].state /\ y[h].payoff = b.table.accounts[h].payoff
                         /\ y[h].realized = b.table.accounts[h].realized
  BY <1>3 DEF BookedLate
<1>6. OverOK(E, a) /\ OwnersKeep(b, y)
  <2>1. StatesStay(b, y)
    BY <1>5 DEF StatesStay
  <2> QED
    BY <1>3, <2>1, StandingStays
<1>7. HoldersOpen(b, a)
  <2>1. \A c \in b.pending : c[1] \in Returns
    BY <1>1, WritesAre DEF BookSet
  <2> QED
    BY <1>3, <1>5, <2>1 DEF AccountOpen, Open, AccountsChanged, HoldersOpen
<1>8. AccountsChanged(b, y, a)
  BY <1>3
<1>9. PhaseOn(ph, ph)
  BY DEF PhaseOn
<1> QED
  BY <1>1, <1>4, <1>6, <1>7, <1>8, <1>9, AccountsMove

(* The end: every account's money is booked.                                                  *)
LEMMA EndsIs ==
  ASSUME NEW P, NEW nx, NEW st, NEW I, NEW V, NEW E, NEW S, NEW b, NEW C,
         FullOK(P, nx, st, I, V, E, S, b, C, "flat"),
         NEW l, l = SettleLate(b, TRUE), NEW a, a = SettleLate(l, FALSE),
         NEW D, \A h \in Returns : D[h] = C[h] + LateOf(b, h, TRUE) + LateOf(l, h, FALSE)
  PROVE  FullOK(P, nx, st, I, V, E, S, a, D, "dead")
<1>1. b \in BookSet /\ FiledOK(P, nx, st, I, V) /\ PaidOK(nx, st, I, V, b, C, "flat")
  BY DEF FullOK, CoreOK, BookOK
<1>2. PICK M : M = [h \in Returns |-> C[h] + LateOf(b, h, TRUE)]
  OBVIOUS
<1>3. FullOK(P, nx, st, I, V, E, S, l, M, "flat")
  <2>1. LatePaid(b, C, M)
    BY <1>2 DEF LatePaid
  <2> QED
    BY <2>1, LateBooksIs
<1>4. l \in BookSet /\ PaidOK(nx, st, I, V, l, M, "flat")
  BY <1>3 DEF FullOK, CoreOK, BookOK
<1>5. PICK y : y = SettleLate(b, TRUE).table.accounts
  OBVIOUS
<1>6. AccountsChanged(b, y, l) /\ \A h \in Returns : BookedLate(b, TRUE, h, b.table.accounts[h], y[h])
  BY <1>1, <1>5, LateIs
<1>7. PICK w : w = SettleLate(l, FALSE).table.accounts
  OBVIOUS
<1>8. AccountsChanged(l, w, a) /\ \A h \in Returns : BookedLate(l, FALSE, h, l.table.accounts[h], w[h])
  BY <1>4, <1>7, LateIs
<1>9. PaidOK(nx, st, I, V, a, D, "dead")
  <2> SUFFICES ASSUME NEW h \in Returns PROVE AccountOK(nx, st, I, V, D, "dead", w[h], h)
    BY <1>8 DEF PaidOK, AccountsChanged
  <2>1. PICK x, z, u : x = b.table.accounts[h] /\ z = l.table.accounts[h] /\ u = w[h]
    OBVIOUS
  <2>2. /\ AccountOK(nx, st, I, V, M, "flat", z, h) /\ BookedLate(l, FALSE, h, z, u)
        /\ BookedLate(b, TRUE, h, x, z)
    BY <1>4, <1>6, <1>8, <2>1 DEF PaidOK, AccountsChanged
  <2>3. D[h] = u.late
    BY <1>2, <2>2 DEF AccountOK, BookedLate
  <2>4. u.state \in {"none", "open", "released"} /\ u.payoff.fixed \in BOOLEAN
    BY <2>2 DEF BookedLate, AccountSet, PayoffSet
  <2>5. u.late = Floor(u.realized)
    <3>1. CASE u.state = "none"
      <4>1. u.realized = 0 /\ u.late = 0
        BY <2>2, <3>1 DEF AccountOK, BookedLate
      <4>2. Floor(0) = 0
        BY DEF Floor, Scale
      <4> QED
        BY <4>1, <4>2
    <3>2. CASE u.state = "released"
      BY <2>2, <3>2 DEF AccountOK, BookedLate
    <3>3. CASE u.state = "open" /\ u.payoff.fixed
      BY <2>2, <2>4, <3>3 DEF BookedLate
    <3>4. CASE u.state = "open" /\ ~u.payoff.fixed
      BY <2>2, <2>4, <3>4 DEF BookedLate
    <3> QED
      BY <2>4, <3>1, <3>2, <3>3, <3>4
  <2>6. AccountOK(nx, st, I, V, D, "dead", u, h)
    BY <2>2, <2>3, <2>5 DEF AccountOK, BookedLate
  <2> QED
    BY <2>1, <2>6
<1>10. \A h \in Returns : /\ w[h].state = l.table.accounts[h].state /\ w[h].payoff = l.table.accounts[h].payoff
                          /\ w[h].realized = l.table.accounts[h].realized
  BY <1>8 DEF BookedLate
<1>11. OverOK(E, a) /\ OwnersKeep(l, w)
  <2>1. StatesStay(l, w)
    BY <1>10 DEF StatesStay
  <2> QED
    BY <1>3, <1>8, <2>1, StandingStays
<1>12. HoldersOpen(l, a)
  <2>1. \A c \in l.pending : c[1] \in Returns
    BY <1>4, WritesAre DEF BookSet
  <2> QED
    BY <1>8, <1>10, <2>1 DEF AccountOpen, Open, AccountsChanged, HoldersOpen
<1> QED
  BY <1>1, <1>3, <1>8, <1>9, <1>11, <1>12, AccountsMove DEF PhaseOn

-----------------------------------------------------------------------------
(* What an outcome is fixed from is a number.                                                 *)
LEMMA AtHorizonIs ==
  ASSUME NEW b \in BookSet, NEW h \in Returns
  PROVE  StateAtHorizon(b, h).lots \in Seq(LotSet) /\ StateAtHorizon(b, h).realized \in Int
<1>1. PICK entries : entries = b.history[h]
  OBVIOUS
<1>2. entries \in Seq(EntrySet)
  BY <1>1 DEF BookSet
<1>3. IsFiniteSet(DOMAIN entries) /\ DOMAIN entries = 1 .. Len(entries) /\ Len(entries) \in Nat
      /\ \A i \in DOMAIN entries : entries[i] \in EntrySet
  BY <1>2, FiniteDomain
<1>4. \A i \in DOMAIN entries : entries[i].lots \in Seq(LotSet) /\ entries[i].realized \in Int
  BY <1>3 DEF EntrySet
<1>5. PICK c : c = ChangesBefore(b, h)
  OBVIOUS
<1>6. c \subseteq DOMAIN entries /\ Before(b, h) \subseteq DOMAIN entries
  BY <1>1, <1>5 DEF ChangesBefore, Changes, Before
<1>7. c # {} => Max(c) \in DOMAIN entries
  <2>1. c \in SUBSET (0 .. Len(entries))
    BY <1>3, <1>6
  <2> QED
    BY <1>3, <1>6, <2>1, MaxIs
<1>8. PICK none : none = <<>>
  OBVIOUS
<1>9. none \in Seq(LotSet)
  BY <1>8
<1>10. StateAtHorizon(b, h).lots = IF c = {} THEN none ELSE entries[Max(c)].lots
  BY <1>1, <1>5, <1>8 DEF StateAtHorizon
<1>11. PICK r : r = [i \in DOMAIN entries |-> entries[i].realized]
  OBVIOUS
<1>12. StateAtHorizon(b, h).realized = Total(r, Before(b, h))
  BY <1>1, <1>11 DEF StateAtHorizon
<1>13. Total(r, Before(b, h)) \in Int
  <2>1. IsFiniteSet(Before(b, h))
    BY <1>3, <1>6, FS_Subset
  <2>2. \A i \in Before(b, h) : r[i] \in Int
    BY <1>4, <1>6, <1>11
  <2> QED
    BY <2>1, <2>2, TotalInt
<1> QED
  BY <1>4, <1>7, <1>9, <1>10, <1>12, <1>13

(* What lots are worth is a whole number. *)
LEMMA MarkedIs ==
  ASSUME NEW lots \in Seq(LotSet), NEW px \in Int
  PROVE  MarkedAt(lots, px) \in Int
<1>1. IsFiniteSet(DOMAIN lots) /\ \A i \in DOMAIN lots : lots[i] \in LotSet
  BY FiniteDomain
<1>2. PICK w : w = [i \in DOMAIN lots |->
              (px - lots[i].px) * lots[i].size * Sign(lots[i].buy) * Scale - lots[i].charges]
  OBVIOUS
<1>3. ASSUME NEW i \in DOMAIN lots PROVE w[i] \in Int
  <2>1. PICK l : l = lots[i]
    OBVIOUS
  <2>2. l.px \in Int /\ l.size \in Int /\ l.charges \in Int
    BY <1>1, <2>1 DEF LotSet
  <2>3. Sign(l.buy) \in Int /\ Scale \in Int
    BY DEF Sign, Scale
  <2>4. (px - l.px) * l.size \in Int
    BY <2>2, TimesInt
  <2>5. (px - l.px) * l.size * Sign(l.buy) \in Int
    BY <2>3, <2>4, TimesInt
  <2>6. (px - l.px) * l.size * Sign(l.buy) * Scale \in Int
    BY <2>3, <2>5, TimesInt
  <2>7. w[i] = (px - l.px) * l.size * Sign(l.buy) * Scale - l.charges
    BY <1>2, <2>1
  <2> QED
    BY <2>2, <2>6, <2>7
<1>4. Total(w, DOMAIN lots) \in Int
  BY <1>1, <1>3, TotalInt
<1> QED
  BY <1>2, <1>4 DEF MarkedAt

(* An outcome is fixed: of a return that is open and finished, while no answer is unknown.    *)
FixedFrom(x, z) ==
    /\ z \in AccountSet /\ z.state = x.state /\ z.finished = x.finished /\ z.realized = x.realized
    /\ z.payoff.fixed /\ z.late = IF z.payoff.marked THEN 0 ELSE z.payoff.net

(* What fixing does to an account. *)
LEMMA FixIs ==
  ASSUME NEW t \in TableSet, NEW h \in Returns, NEW net \in Int, NEW marked \in BOOLEAN, NEW censored \in BOOLEAN
  PROVE  /\ FixedFrom(t.accounts[h], Fix(t, h, net, marked, censored).accounts[h])
         /\ Fix(t, h, net, marked, censored).accounts[h].payoff.censored = censored
<1>1. PICK x : x = t.accounts[h]
  OBVIOUS
<1>2. x \in AccountSet /\ t.accounts \in [Returns -> AccountSet]
  BY <1>1 DEF TableSet
<1>3. PICK n : n = Floor(net)
  OBVIOUS
<1>4. n \in Int
  BY <1>3, FloorIs
<1>5. PICK p : p = [fixed |-> TRUE, net |-> n, marked |-> marked, censored |-> censored]
  OBVIOUS
<1>6. p \in PayoffSet /\ p.fixed /\ p.net = n /\ p.censored = censored
  BY <1>4, <1>5 DEF PayoffSet
<1>7. PICK m : m = IF marked THEN 0 ELSE n
  OBVIOUS
<1>8. m \in Int /\ m = IF p.marked THEN 0 ELSE p.net
  BY <1>4, <1>5, <1>7
<1>9. PICK z : z = [x EXCEPT !.payoff = p, !.late = m]
  OBVIOUS
<1>10. FixedFrom(x, z) /\ z.payoff.censored = censored
  <2>1. z \in AccountSet /\ z.state = x.state /\ z.finished = x.finished /\ z.realized = x.realized
        /\ z.payoff = p /\ z.late = m
    BY <1>2, <1>6, <1>8, <1>9 DEF AccountSet
  <2> QED
    BY <1>6, <1>8, <2>1 DEF FixedFrom
<1>11. Fix(t, h, net, marked, censored).accounts[h] = z
  <2>1. PICK d : d = [t EXCEPT !.accounts[h].payoff = p, !.accounts[h].late = m]
    OBVIOUS
  <2>2. d.accounts[h] = z
    BY <1>1, <1>2, <1>9, <2>1 DEF TableSet
  <2>3. Fix(t, h, net, marked, censored) = d
    BY <1>3, <1>5, <1>7, <2>1 DEF Fix
  <2> QED
    BY <2>2, <2>3
<1> QED
  BY <1>1, <1>10, <1>11

(* An outcome is such a fixing. *)
LEMMA OutcomeIs ==
  ASSUME NEW b \in BookSet, NEW h \in Returns
  PROVE  FixedFrom(b.table.accounts[h], Outcome(b, h)) /\ Outcome(b, h).payoff.censored = Censored(b, h)
<1>1. PICK s : s = StateAtHorizon(b, h)
  OBVIOUS
<1>2. s.lots \in Seq(LotSet) /\ s.realized \in Int
  BY <1>1, AtHorizonIs
<1>3. b.marks[h].px \in Int /\ b.table \in TableSet
  BY DEF BookSet, MarkSet
<1>4. MarkedAt(s.lots, b.marks[h].px) \in Int
  BY <1>2, <1>3, MarkedIs
<1>5. PICK net : net = s.realized + MarkedAt(s.lots, b.marks[h].px)
  OBVIOUS
<1>6. net \in Int
  BY <1>2, <1>4, <1>5
<1>7. PICK held, cut : held = (s.lots # <<>>) /\ cut = Censored(b, h)
  OBVIOUS
<1>8. held \in BOOLEAN /\ cut \in BOOLEAN
  BY <1>7 DEF Censored
<1>9. PICK z : z = Fix(b.table, h, net, held, cut).accounts[h]
  OBVIOUS
<1>10. FixedFrom(b.table.accounts[h], z) /\ z.payoff.censored = cut
  BY <1>3, <1>6, <1>8, <1>9, FixIs
<1>11. Outcome(b, h) = z
  BY <1>1, <1>5, <1>7, <1>9 DEF Outcome
<1> QED
  BY <1>7, <1>10, <1>11

-----------------------------------------------------------------------------
(* Everything ready is fixed.                                                                 *)
HistorySet == [Returns -> Seq(EntrySet)]
WithResolved(b, y, m, g, r) ==
    [b EXCEPT !.table = [b.table EXCEPT !.accounts = y], !.marks = m, !.history = g, !.reordered = r]

(* Resolving touches accounts, marks, histories and reorderings. *)
LEMMA ResolvedChange ==
  ASSUME NEW b \in BookSet, NEW y \in AccountsSet, NEW m \in MarksSet, NEW g \in HistorySet, NEW r \in SUBSET Returns,
         NEW a, a = WithResolved(b, y, m, g, r)
  PROVE  AccountsChanged(b, y, a)
<1>1. PICK t : t = [b.table EXCEPT !.accounts = y]
  OBVIOUS
<1>2. t \in TableSet /\ t.accounts = y /\ t.lots = b.table.lots /\ t.orders = b.table.orders
  <2>1. b.table \in TableSet
    BY DEF BookSet
  <2> QED
    BY <1>1, <2>1 DEF TableSet, AccountsSet
<1>3. a = [b EXCEPT !.table = t, !.marks = m, !.history = g, !.reordered = r]
  BY <1>1 DEF WithResolved
<1> QED
  BY <1>2, <1>3 DEF BookSet, AccountsChanged, MarksSet, HistorySet

ResolvedFrom(b, h, x, z) ==
    \/ z = x
    \/ /\ FixedFrom(x, z) /\ z.payoff.censored = Censored(b, h)
       /\ b.pending = {} /\ x.state = "open" /\ ~x.payoff.fixed /\ x.finished

(* What resolving does to each account. *)
LEMMA ResolveIs ==
  ASSUME NEW b \in BookSet, NEW f, NEW n, NEW a, a = Resolve(b, f, n), NEW y, y = a.table.accounts
  PROVE  /\ AccountsChanged(b, y, a)
         /\ \A h \in Returns : ResolvedFrom(b, h, b.table.accounts[h], y[h])
<1>1. PICK ready : ready = {h \in Returns : Ready(b, h, f, n)}
  OBVIOUS
<1>2. PICK z : z = [h \in Returns |-> IF h \in ready THEN Outcome(b, h) ELSE b.table.accounts[h]]
  OBVIOUS
<1>3. PICK m : m = [h \in Returns |-> IF h \in ready THEN NoMark ELSE b.marks[h]]
  OBVIOUS
<1>4. PICK none : none = <<>>
  OBVIOUS
<1>5. PICK g : g = [h \in Returns |-> IF h \in ready THEN none ELSE b.history[h]]
  OBVIOUS
<1>6. PICK r : r = b.reordered \ ready
  OBVIOUS
<1>7. b.table \in TableSet /\ b.table.accounts \in [Returns -> AccountSet]
  BY DEF BookSet, TableSet
<1>8. ASSUME NEW h \in Returns PROVE z[h] \in AccountSet /\ ResolvedFrom(b, h, b.table.accounts[h], z[h])
  <2>1. CASE h \in ready
    <3>1. Ready(b, h, f, n)
      BY <1>1, <2>1
    <3>2. /\ b.pending = {} /\ b.table.accounts[h].state = "open" /\ ~b.table.accounts[h].payoff.fixed
          /\ b.table.accounts[h].finished
      BY <3>1 DEF Ready, AccountOpen, Open
    <3>3. FixedFrom(b.table.accounts[h], z[h]) /\ z[h].payoff.censored = Censored(b, h)
      BY <1>2, <2>1, OutcomeIs
    <3> QED
      BY <3>2, <3>3 DEF ResolvedFrom, FixedFrom
  <2>2. CASE h \notin ready
    BY <1>2, <1>7, <2>2 DEF ResolvedFrom
  <2> QED
    BY <2>1, <2>2
<1>9. z \in AccountsSet
  <2>1. z = [h \in Returns |-> z[h]]
    BY <1>2
  <2> QED
    BY <1>8, <2>1 DEF AccountsSet
<1>10. m \in MarksSet
  <2>1. NoMark \in MarkSet /\ \A h \in Returns : b.marks[h] \in MarkSet
    BY DEF NoMark, Never, MarkSet, BookSet
  <2> QED
    BY <1>3, <2>1 DEF MarksSet
<1>11. g \in HistorySet
  <2>1. none \in Seq(EntrySet) /\ \A h \in Returns : b.history[h] \in Seq(EntrySet)
    BY <1>4 DEF BookSet
  <2> QED
    BY <1>5, <2>1 DEF HistorySet
<1>12. r \in SUBSET Returns
  BY <1>6 DEF BookSet
<1>13. a = WithResolved(b, z, m, g, r)
  BY <1>1, <1>2, <1>3, <1>4, <1>5, <1>6, <1>7 DEF Resolve, WithResolved, BookSet, TableSet
<1>14. AccountsChanged(b, z, a)
  BY <1>9, <1>10, <1>11, <1>12, <1>13, ResolvedChange
<1>15. y = z
  BY <1>14 DEF AccountsChanged
<1> QED
  BY <1>8, <1>14, <1>15

CreditPaid(b, C, D) == \A h \in Returns : D[h] = C[h] + Credited(b, h)

(* The invariant survives a settlement and what it credits to the owners. *)
LEMMA SettlesIs ==
  ASSUME NEW P, NEW nx, NEW st, NEW I, NEW V, NEW E, NEW S, NEW b, NEW C, NEW ph,
         FullOK(P, nx, st, I, V, E, S, b, C, ph), ph # "dead",
         NEW a, a = SettleDue(b), NEW D, CreditPaid(b, C, D)
  PROVE  FullOK(P, nx, st, I, V, E, S, a, D, ph)
<1>1. PICK l : l = SettleLate(b, TRUE)
  OBVIOUS
<1>2. PICK M : M = [h \in Returns |-> C[h] + LateOf(b, h, TRUE)]
  OBVIOUS
<1>3. FullOK(P, nx, st, I, V, E, S, l, M, ph)
  <2>1. LatePaid(b, C, M)
    BY <1>2 DEF LatePaid
  <2> QED
    BY <1>1, <2>1, LateBooksIs
<1>4. b \in BookSet /\ PaidOK(nx, st, I, V, b, C, ph)
  BY DEF FullOK, CoreOK, BookOK
<1>5. l \in BookSet /\ PaidOK(nx, st, I, V, l, M, ph) /\ FiledOK(P, nx, st, I, V)
  BY <1>3 DEF FullOK, CoreOK, BookOK
<1>6. PICK y : y = SettleLate(b, TRUE).table.accounts
  OBVIOUS
<1>7. AccountsChanged(b, y, l) /\ \A h \in Returns : BookedLate(b, TRUE, h, b.table.accounts[h], y[h])
  BY <1>1, <1>4, <1>6, LateIs
<1>8. PICK f, n : f = through /\ n = Clock
  OBVIOUS
<1>9. a = Resolve(l, f, n)
  BY <1>1, <1>8 DEF SettleDue
<1>10. PICK w : w = a.table.accounts
  OBVIOUS
<1>11. AccountsChanged(l, w, a) /\ \A h \in Returns : ResolvedFrom(l, h, l.table.accounts[h], w[h])
  BY <1>5, <1>9, <1>10, ResolveIs
<1>12. PaidOK(nx, st, I, V, a, D, ph)
  <2> SUFFICES ASSUME NEW h \in Returns PROVE AccountOK(nx, st, I, V, D, ph, w[h], h)
    BY <1>11 DEF PaidOK, AccountsChanged
  <2>1. PICK x, z, u : x = b.table.accounts[h] /\ z = l.table.accounts[h] /\ u = w[h]
    OBVIOUS
  <2>2. /\ AccountOK(nx, st, I, V, M, ph, z, h) /\ ResolvedFrom(l, h, z, u)
        /\ BookedLate(b, TRUE, h, x, z) /\ AccountOK(nx, st, I, V, C, ph, x, h)
    BY <1>4, <1>5, <1>7, <1>11, <2>1 DEF PaidOK, AccountsChanged
  <2>3. PICK L : L = LateOf(b, h, TRUE)
    OBVIOUS
  <2>4. x \in AccountSet /\ x.late \in Int /\ L \in Int /\ C[h] = x.late /\ M[h] = C[h] + L /\ M[h] = z.late
    BY <1>2, <1>4, <2>1, <2>2, <2>3 DEF BookSet, TableSet, AccountSet, AccountOK, BookedLate
  <2>5. PICK X : X = IF ~x.payoff.fixed /\ u.payoff.fixed /\ ~u.payoff.marked THEN u.payoff.net ELSE 0
    OBVIOUS
  <2>6. D[h] = C[h] + (L + X)
    BY <1>10, <2>1, <2>3, <2>5 DEF CreditPaid, Credited
  <2>7. CASE u = z
    <3>1. X = 0
      BY <2>2, <2>5, <2>7 DEF BookedLate
    <3>2. D[h] = M[h]
      BY <2>4, <2>6, <3>1
    <3> QED
      BY <2>1, <2>2, <2>7, <3>2 DEF AccountOK
  <2>8. CASE /\ FixedFrom(z, u) /\ u.payoff.censored = Censored(l, h)
             /\ z.state = "open" /\ ~z.payoff.fixed /\ z.finished
    <3>1. z.late = 0 /\ ~x.payoff.fixed
      BY <2>2, <2>8 DEF AccountOK, BookedLate
    <3>2. X = u.late /\ u.payoff.net \in Int
      BY <2>5, <2>8, <3>1 DEF FixedFrom, AccountSet, PayoffSet
    <3>3. D[h] = u.late
      <4>1. X \in Int
        BY <2>5, <3>2
      <4> QED
        BY <2>4, <2>6, <3>1, <3>2, <4>1
    <3>4. \A d \in Writes : d[1] = h /\ I[d].gaveUp => u.payoff.censored
      <4>1. l.unresolved = GivenUp(I)
        BY <1>3 DEF FullOK, CoreOK, HoldOK
      <4> QED
        BY <2>8, <4>1 DEF GivenUp, Censored
    <3>5. AccountOK(nx, st, I, V, D, ph, u, h)
      BY <2>2, <2>8, <3>3, <3>4 DEF AccountOK, FixedFrom
    <3> QED
      BY <2>1, <3>5
  <2> QED
    BY <2>2, <2>7, <2>8 DEF ResolvedFrom
<1>13. StatesStay(l, w)
  BY <1>11 DEF ResolvedFrom, FixedFrom, StatesStay
<1>14. OverOK(E, a) /\ OwnersKeep(l, w)
  BY <1>3, <1>11, <1>13, StandingStays
<1>15. HoldersOpen(l, a)
  <2> SUFFICES ASSUME NEW c \in l.pending, AccountOpen(l, c[1]) PROVE AccountOpen(a, c[1])
    BY DEF HoldersOpen
  <2>1. c[1] \in Returns
    BY <1>5, WritesAre DEF BookSet
  <2>2. w[c[1]] = l.table.accounts[c[1]]
    BY <1>11, <2>1 DEF ResolvedFrom
  <2> QED
    BY <1>10, <2>2 DEF AccountOpen, Open
<1>16. PhaseOn(ph, ph)
  BY DEF PhaseOn
<1>17. AccountsChanged(l, w, a)
  BY <1>11
<1> QED
  BY <1>3, <1>5, <1>12, <1>14, <1>15, <1>16, <1>17, AccountsMove

-----------------------------------------------------------------------------
(* The invariant of a state.                                                                  *)
QuietOK(ph, V) == ph \in {"flat", "dead"} => \A c \in Writes : V[c].state # "resting"
OrdersInv ==
    /\ plan \in Plans /\ now \in 0 .. MaxTime
    /\ phase \in {"idle", "reconcile", "poll", "settle", "flat", "dead"}
    /\ Routed => next \in DOMAIN plan /\ phase = "idle"
    /\ QuietOK(phase, venue)
    /\ FullOK(plan, next, step, intents, venue, execs, seen, book, claims, phase)

(* The writes of a plan's decisions are writes, and requests. *)
LEMMA PlanIs ==
  ASSUME NEW p \in Plans, NEW h \in DOMAIN p
  PROVE  h \in Returns /\ \A k \in DOMAIN p[h] : <<h, k>> \in Writes /\ p[h][k] \in Requests
<1>1. p \in Seq(Seq(Requests)) /\ h \in Returns /\ \A k \in DOMAIN p[h] : <<h, k>> \in Writes
  BY OrdersAssumption
<1>2. p[h] \in Seq(Requests)
  BY <1>1, FiniteDomain
<1>3. \A k \in DOMAIN p[h] : p[h][k] \in Requests
  BY <1>2, FiniteDomain
<1> QED
  BY <1>1, <1>3

(* An execution's instant is later than every one before it. *)
LEMMA InstantIs ==
  ASSUME now \in 0 .. MaxTime, execs \in Seq(FillSet),
         \A i, j \in DOMAIN execs : i < j => execs[i].at < execs[j].at
  PROVE  Instant \in Int /\ \A i \in DOMAIN execs : execs[i].at < Instant
<1>1. now \in Int /\ Clock \in Int
  <2>1. MaxTime \in Nat
    BY OrdersAssumption
  <2> QED
    BY <2>1 DEF Clock, Grain
<1>2. DOMAIN execs = 1 .. Len(execs) /\ Len(execs) \in Nat /\ \A i \in DOMAIN execs : execs[i] \in FillSet
  BY FiniteDomain
<1>3. CASE execs = <<>>
  BY <1>1, <1>3 DEF Instant
<1>4. CASE execs # <<>>
  <2>1. Len(execs) # 0
    BY <1>2, <1>4, EmptySeq
  <2>2. PICK n : n = Len(execs)
    OBVIOUS
  <2>3. n \in DOMAIN execs
    BY <1>2, <2>1, <2>2
  <2>4. \A i \in DOMAIN execs : execs[i].at \in Int
    BY <1>2 DEF FillSet
  <2>5. \A i \in DOMAIN execs : i < n \/ i = n
    BY <1>2, <2>2
  <2>6. \A i \in DOMAIN execs : execs[i].at <= execs[n].at
    BY <2>3, <2>4, <2>5
  <2>7. Instant = IF execs[n].at < Clock THEN Clock ELSE execs[n].at + 1
    BY <1>4, <2>2 DEF Instant
  <2> QED
    BY <1>1, <2>3, <2>4, <2>6, <2>7
<1> QED
  BY <1>3, <1>4

Sides == BOOLEAN
SizeSet == Nat \ {0}

(* An execution is a fill, later than every one before it. *)
LEMMA ExecutionIs ==
  ASSUME OrdersInv, NEW c \in OrderIds, NEW buy \in Sides, NEW size \in SizeSet,
         NEW e, e = Execution(c, buy, size)
  PROVE  /\ e \in FillSet /\ e.order = c /\ e.size = size /\ Later(execs, e)
         /\ e.buy = buy /\ Priced(e)
<1>1. now \in 0 .. MaxTime /\ VenueOK(venue, execs)
  BY DEF OrdersInv, FullOK, CoreOK
<1>2. Instant \in Int /\ \A i \in DOMAIN execs : execs[i].at < Instant
  BY <1>1, InstantIs DEF VenueOK
<1>3. Path[now] \in Nat \ {0} /\ Fee \in Int
  BY <1>1, OrdersAssumption
<1>4. PICK u \in Int : u = Fee * Path[now]
  BY <1>3, TimesInt
<1>5. PICK fee \in Int : fee = u * size
  BY TimesInt DEF SizeSet
<1>6. e = [order |-> c, at |-> Instant, buy |-> buy, size |-> size, px |-> Path[now], fee |-> fee]
  BY <1>4, <1>5 DEF Execution
<1>7. e \in FillSet /\ e.order = c /\ e.size = size /\ e.at = Instant /\ e.buy = buy /\ e.fee = u * e.size
  BY <1>2, <1>3, <1>5, <1>6 DEF FillSet, Sides, SizeSet
<1> QED
  BY <1>2, <1>7 DEF Later, Priced

(* Before the world is closed out nothing of the closing order was executed. *)
LEMMA BeforeClosing ==
  ASSUME OrdersInv, phase \notin {"flat", "dead"}
  PROVE  OrderIn(execs, Closing) = {}
  BY DEF OrdersInv, FullOK, CoreOK, BoundOK, ClosingOK

-----------------------------------------------------------------------------
(* A write: its intent, what the venue makes of it, and its answer.                           *)
Told(I, c, s) == [I EXCEPT ![c].status = s]

(* An intent that was unanswered and is told says what it would have been told first. *)
LEMMA ToldTwice ==
  ASSUME NEW I \in IntentSet, NEW c \in Writes, NEW t, NEW s, NEW n, n = I[c].polls
  PROVE  Told(I, c, s) = WithAnswer(WithAnswer(I, c, t, n), c, s, n)
<1>1. PICK r : r = I[c]
  OBVIOUS
<1>2. r \in [status : Statuses, polls : Nat, gaveUp : BOOLEAN]
  BY <1>1 DEF IntentSet
<1>3. PICK x : x = [r EXCEPT !.status = s]
  OBVIOUS
<1>4. PICK y : y = [r EXCEPT !.status = t, !.polls = n]
  OBVIOUS
<1>5. x = [y EXCEPT !.status = s, !.polls = n]
  BY <1>1, <1>2, <1>3, <1>4
<1>6. Told(I, c, s) = [I EXCEPT ![c] = x]
  BY <1>1, <1>3 DEF Told
<1>7. PICK J : J = WithAnswer(I, c, t, n)
  OBVIOUS
<1>8. J = [I EXCEPT ![c] = y]
  BY <1>1, <1>4, <1>7 DEF WithAnswer, IntentSet
<1>9. J[c] = y /\ WithAnswer(J, c, s, n) = [J EXCEPT ![c] = [y EXCEPT !.status = s, !.polls = n]]
  BY <1>8 DEF WithAnswer, IntentSet
<1>10. [J EXCEPT ![c] = x] = [I EXCEPT ![c] = x]
  BY <1>8 DEF IntentSet
<1> QED
  BY <1>5, <1>6, <1>7, <1>9, <1>10

(* The answer is heard, first or by the recovery's lookup. *)
LEMMA HeardIs ==
  ASSUME NEW P, NEW nx, NEW st, NEW I \in IntentSet, NEW W, NEW F, NEW S, NEW d, NEW C, NEW ph,
         NEW c \in Writes, NEW n \in PollsSet, n = I[c].polls, NEW J, J = WithAnswer(I, c, "uncertain", n),
         FullOK(P, nx, st, J, W, F, S, d, C, ph), ph # "dead", ~I[c].gaveUp,
         NEW s \in Answers, P[c[1]][c[2]].op = "place" => TrueOf(W, c, s)
  PROVE  FullOK(P, nx, st, Told(I, c, s), W, F, S, Acknowledged(BoundTo(P, W, d, c, s), c), C, ph)
<1>1. PICK t : t = "uncertain"
  OBVIOUS
<1>2. t \in Statuses /\ J = WithAnswer(I, c, t, n)
  BY <1>1 DEF Statuses
<1>3. J[c].status = t /\ J[c].gaveUp = I[c].gaveUp
  BY <1>2, OneAnswer
<1>4. PICK K : K = WithAnswer(J, c, s, n)
  OBVIOUS
<1>5. FullOK(P, nx, st, K, W, F, S, Acknowledged(BoundTo(P, W, d, c, s), c), C, ph)
  BY <1>1, <1>3, <1>4, AnswerIs
<1>6. Told(I, c, s) = K
  BY <1>2, <1>4, ToldTwice
<1> QED
  BY <1>5, <1>6

-----------------------------------------------------------------------------
(* A write is asked: its intent is durable, and the hold is its own.                          *)
LEMMA WriteIs ==
  ASSUME OrdersInv, Routed, step \in DOMAIN plan[next], NEW c, c = <<next, step>>
  PROVE  /\ c \in Writes /\ Write(c) = plan[next][step] /\ Write(c) \in Requests /\ Write(c) = plan[c[1]][c[2]]
         /\ intents \in IntentSet /\ intents[c].polls \in PollsSet /\ intents[c].polls + 2 \in PollsSet
         /\ intents[c].status = "none" /\ ~intents[c].gaveUp /\ venue[c].state = "none" /\ phase = "idle"
         /\ \A n \in PollsSet : FullOK(plan, next, step + 1, WithAnswer(intents, c, "uncertain", n), venue, execs,
                                       seen, Intent(book, c), claims, phase)
<1>1. plan \in Plans /\ next \in DOMAIN plan /\ phase = "idle"
      /\ FullOK(plan, next, step, intents, venue, execs, seen, book, claims, phase)
  BY DEF OrdersInv
<1>2. c \in Writes /\ plan[next][step] \in Requests
  BY <1>1, PlanIs
<1>3. c[1] = next /\ c[2] = step
  OBVIOUS
<1>4. Write(c) = plan[next][step] /\ Write(c) = plan[c[1]][c[2]]
  BY <1>3 DEF Write
<1>5. intents \in IntentSet
  BY <1>1 DEF FullOK, CoreOK, FiledOK
<1>6. intents[c].polls \in Nat
  BY <1>2, <1>5 DEF IntentSet
<1>7. ASSUME NEW n \in PollsSet
      PROVE  /\ FullOK(plan, next, step + 1, WithAnswer(intents, c, "uncertain", n), venue, execs,
                       seen, Intent(book, c), claims, phase)
             /\ intents[c].status = "none" /\ ~intents[c].gaveUp /\ venue[c].state = "none"
  <2>1. PICK J, a : J = WithAnswer(intents, c, "uncertain", n) /\ a = Intent(book, c)
    OBVIOUS
  <2>2. FullOK(plan, next, step + 1, J, venue, execs, seen, a, claims, phase)
        /\ intents[c].status = "none" /\ ~intents[c].gaveUp /\ venue[c].state = "none"
    BY <1>1, <1>2, <2>1, AskIs
  <2> QED
    BY <2>1, <2>2
<1>8. 0 \in PollsSet
  BY DEF PollsSet
<1> QED
  BY <1>1, <1>2, <1>4, <1>5, <1>6, <1>7, <1>8 DEF PollsSet

(* Its answer is heard, or not.                                                               *)
LEMMA AnsweredIs ==
  ASSUME OrdersInv, Routed, step \in DOMAIN plan[next], NEW c, c = <<next, step>>,
         NEW W, W = venue', NEW F, F = execs',
         \A n \in PollsSet : FullOK(plan, next, step + 1, WithAnswer(intents, c, "uncertain", n), W, F,
                                    seen, Intent(book, c), claims, phase),
         \/ Unanswered(c, 2)
         \/ \E s \in Answers : Certain(c, s) /\ (Write(c).op = "place" => TrueOf(W, c, s))
  PROVE  FullOK(plan, next, step + 1, intents', W, F, seen, book', claims, phase)
<1>1. /\ c \in Writes /\ Write(c) = plan[c[1]][c[2]]
      /\ intents \in IntentSet /\ intents[c].polls \in PollsSet /\ intents[c].polls + 2 \in PollsSet
      /\ intents[c].status = "none" /\ ~intents[c].gaveUp /\ phase = "idle"
  BY WriteIs
<1>2. CASE Unanswered(c, 2)
  <2>1. book' = Intent(book, c)
    BY <1>1, <1>2 DEF Unanswered
  <2>2. intents' = WithAnswer(intents, c, "uncertain", intents[c].polls + 2)
    BY <1>1, <1>2 DEF Unanswered, WithAnswer, IntentSet
  <2> QED
    BY <1>1, <2>1, <2>2
<1>3. CASE \E s \in Answers : Certain(c, s) /\ (Write(c).op = "place" => TrueOf(W, c, s))
  <2>1. PICK s \in Answers : Certain(c, s) /\ (Write(c).op = "place" => TrueOf(W, c, s))
    BY <1>3
  <2>2. PICK d : d = Intent(book, c)
    OBVIOUS
  <2>3. book' = Answered(d, c, s)
    BY <1>1, <2>1, <2>2 DEF Certain
  <2>4. Bound(d, c, s) = BoundTo(plan, W, d, c, s)
    BY DEF Bound, BoundTo, Write
  <2>5. book' = Acknowledged(BoundTo(plan, W, d, c, s), c)
    BY <2>3, <2>4 DEF Answered
  <2>6. intents' = Told(intents, c, s)
    BY <2>1 DEF Certain, Told
  <2>7. PICK n, J : n = intents[c].polls /\ J = WithAnswer(intents, c, "uncertain", n)
    OBVIOUS
  <2>8. FullOK(plan, next, step + 1, J, W, F, seen, d, claims, phase)
    BY <1>1, <2>2, <2>7
  <2>9. plan[c[1]][c[2]].op = "place" => TrueOf(W, c, s)
    BY <1>1, <2>1
  <2>10. phase # "dead" /\ n \in PollsSet
    BY <1>1, <2>7
  <2>11. FullOK(plan, next, step + 1, Told(intents, c, s), W, F, seen,
                Acknowledged(BoundTo(plan, W, d, c, s), c), claims, phase)
    BY <1>1, <2>1, <2>7, <2>8, <2>9, <2>10, HeardIs
  <2> QED
    BY <2>5, <2>6, <2>11
<1> QED
  BY <1>2, <1>3

(* An order arrives, and its answer is still unknown. *)
LEMMA ArrivesHere ==
  ASSUME OrdersInv, Routed, step \in DOMAIN plan[next], NEW c, c = <<next, step>>, Write(c).op = "place",
         NEW size \in 0 .. Write(c).size,
         venue' = [venue EXCEPT ![c] =
                      [state |-> IF size = Write(c).size THEN "filled" ELSE "resting",
                       buy |-> Write(c).buy, left |-> Write(c).size - size, done |-> size]],
         execs' = IF size = 0 THEN execs ELSE Append(execs, Execution(c, Write(c).buy, size)),
         NEW n \in PollsSet
  PROVE  /\ FullOK(plan, next, step + 1, WithAnswer(intents, c, "uncertain", n), venue', execs',
                   seen, Intent(book, c), claims, phase)
         /\ venue'[c].state \in {"filled", "resting"}
<1>1. /\ c \in Writes /\ Write(c) \in Requests /\ Write(c) = plan[c[1]][c[2]] /\ intents \in IntentSet
      /\ ~intents[c].gaveUp /\ venue[c].state = "none"
      /\ FullOK(plan, next, step + 1, WithAnswer(intents, c, "uncertain", n), venue, execs,
                seen, Intent(book, c), claims, phase)
  BY WriteIs
<1>2. PICK r : r = Write(c)
  OBVIOUS
<1>3. r.buy \in BOOLEAN /\ r.size \in Nat \ {0} /\ size \in 0 .. r.size
  BY <1>1, <1>2 DEF Requests
<1>4. PICK x : x = [state |-> IF size = r.size THEN "filled" ELSE "resting",
                    buy |-> r.buy, left |-> r.size - size, done |-> size]
  OBVIOUS
<1>5. size \in Nat /\ r.size - size \in Nat
  BY <1>3
<1>6. x \in VenueRec /\ x.state \in {"filled", "resting"} /\ (x.state = "filled" => x.left = 0) /\ x.done = size
  BY <1>3, <1>4, <1>5 DEF VenueRec
<1>7. PICK W, F : W = venue' /\ F = execs'
  OBVIOUS
<1>8. W = WithVenue(venue, c, x)
  BY <1>2, <1>4, <1>7 DEF WithVenue
<1>9. PICK t, J : t = "uncertain" /\ J = WithAnswer(intents, c, t, n)
  OBVIOUS
<1>10. J[c].status = "uncertain" /\ ~J[c].gaveUp
  <2>1. t \in Statuses
    BY <1>9 DEF Statuses
  <2>2. J[c].status = t /\ J[c].gaveUp = intents[c].gaveUp
    BY <1>1, <1>9, <2>1, OneAnswer
  <2> QED
    BY <1>1, <1>9, <2>2
<1>11. \/ F = execs /\ x.done = 0
       \/ \E e \in FillSet : /\ e.order = c /\ Later(execs, e) /\ F = Append(execs, e) /\ x.done = e.size
                            /\ Priced(e)
  <2>1. CASE size = 0
    BY <1>6, <1>7, <2>1
  <2>2. CASE size # 0
    <3>1. PICK e : e = Execution(c, r.buy, size)
      OBVIOUS
    <3>2. e \in FillSet /\ e.order = c /\ e.size = size /\ Later(execs, e) /\ Priced(e)
      <4>1. c \in OrderIds /\ r.buy \in Sides /\ size \in SizeSet
        BY <1>1, <1>3, <1>5, <2>2, WritesAre DEF Sides, SizeSet
      <4> QED
        BY <3>1, <4>1, ExecutionIs
    <3>3. F = Append(execs, e)
      BY <1>2, <1>7, <2>2, <3>1
    <3> QED
      BY <1>6, <3>2, <3>3
  <2> QED
    BY <2>1, <2>2
<1>12. FullOK(plan, next, step + 1, J, venue, execs, seen, Intent(book, c), claims, phase)
  BY <1>1, <1>9
<1>13. PICK d : d = Intent(book, c)
  OBVIOUS
<1>14. plan[c[1]][c[2]].op = "place"
  BY <1>1
<1>17. OrderIn(execs, Closing) = {}
  BY BeforeClosing DEF OrdersInv
<1>15. FullOK(plan, next, step + 1, J, W, F, seen, d, claims, phase)
  BY <1>1, <1>6, <1>8, <1>10, <1>11, <1>12, <1>13, <1>14, <1>17, ArrivesIs
<1>16. W[c] = x
  <2>1. venue \in VenueSet
    BY <1>1 DEF FullOK, CoreOK, VenueOK
  <2> QED
    BY <1>1, <1>6, <1>8, <2>1, OneVenue
<1> QED
  BY <1>6, <1>7, <1>9, <1>13, <1>15, <1>16

(* Placing keeps the invariant. *)
LEMMA PlaceStays ==
  ASSUME OrdersInv, Place
  PROVE  FullOK(plan, next, step + 1, intents', venue', execs', seen, book', claims, phase)
<1>1. PICK c : c = <<next, step>>
  OBVIOUS
<1>2. Routed /\ step \in DOMAIN plan[next] /\ Write(c).op = "place"
  BY <1>1 DEF Place, Write
<1>3. /\ venue[c].state = "none"
      /\ \A n \in PollsSet : FullOK(plan, next, step + 1, WithAnswer(intents, c, "uncertain", n), venue, execs,
                                    seen, Intent(book, c), claims, phase)
  BY <1>1, <1>2, WriteIs
<1>4. PICK W, F : W = venue' /\ F = execs'
  OBVIOUS
<1>5. CASE /\ UNCHANGED world
           /\ Certain(c, "rejected") \/ (Write(c).loses /\ Unanswered(c, 2))
  <2>1. W = venue /\ F = execs
    BY <1>4, <1>5 DEF world
  <2>2. PICK s : s = "rejected"
    OBVIOUS
  <2>3. s \in Answers /\ TrueOf(W, c, s)
    BY <1>3, <2>1, <2>2 DEF Answers, TrueOf
  <2>4. \/ Unanswered(c, 2)
        \/ \E a \in Answers : Certain(c, a) /\ (Write(c).op = "place" => TrueOf(W, c, a))
    BY <1>5, <2>2, <2>3
  <2>5. FullOK(plan, next, step + 1, intents', W, F, seen, book', claims, phase)
    BY <1>1, <1>2, <1>3, <1>4, <2>1, <2>4, AnsweredIs
  <2> QED
    BY <1>4, <2>5
<1>6. CASE /\ \E size \in 0 .. Write(c).size :
               /\ venue' = [venue EXCEPT ![c] =
                      [state |-> IF size = Write(c).size THEN "filled" ELSE "resting",
                       buy |-> Write(c).buy, left |-> Write(c).size - size, done |-> size]]
               /\ execs' = IF size = 0 THEN execs
                           ELSE Append(execs, Execution(c, Write(c).buy, size))
           /\ Certain(c, venue'[c].state) \/ (Write(c).loses /\ Unanswered(c, 2))
  <2>1. PICK size \in 0 .. Write(c).size :
               /\ venue' = [venue EXCEPT ![c] =
                      [state |-> IF size = Write(c).size THEN "filled" ELSE "resting",
                       buy |-> Write(c).buy, left |-> Write(c).size - size, done |-> size]]
               /\ execs' = IF size = 0 THEN execs
                           ELSE Append(execs, Execution(c, Write(c).buy, size))
    BY <1>6
  <2>2. \A n \in PollsSet :
           /\ FullOK(plan, next, step + 1, WithAnswer(intents, c, "uncertain", n), venue', execs',
                     seen, Intent(book, c), claims, phase)
           /\ venue'[c].state \in {"filled", "resting"}
    BY <1>1, <1>2, <2>1, ArrivesHere
  <2>3. PICK s : s = W[c].state
    OBVIOUS
  <2>4. 0 \in PollsSet
    BY DEF PollsSet
  <2>5. s \in {"filled", "resting"}
    BY <1>4, <2>2, <2>3, <2>4
  <2>6. s \in Answers /\ TrueOf(W, c, s)
    BY <2>3, <2>5 DEF Answers, TrueOf
  <2>7. \/ Unanswered(c, 2)
        \/ \E a \in Answers : Certain(c, a) /\ (Write(c).op = "place" => TrueOf(W, c, a))
    BY <1>4, <1>6, <2>3, <2>6
  <2>8. \A n \in PollsSet :
           FullOK(plan, next, step + 1, WithAnswer(intents, c, "uncertain", n), W, F,
                  seen, Intent(book, c), claims, phase)
    BY <1>4, <2>2
  <2>9. FullOK(plan, next, step + 1, intents', W, F, seen, book', claims, phase)
    BY <1>1, <1>2, <1>4, <2>7, <2>8, AnsweredIs
  <2> QED
    BY <1>4, <2>9
<1> QED
  BY <1>1, <1>5, <1>6 DEF Place

WithCancel(V, d) == [V EXCEPT ![d].state = IF @ = "resting" THEN "cancelled" ELSE @, ![d].left = 0]

(* What the venue's cancel does. *)
LEMMA CancelledHere ==
  ASSUME NEW V \in VenueSet, NEW d \in Writes, NEW W, W = WithCancel(V, d)
  PROVE  W \in VenueSet /\ \A e \in Writes : W[e] = V[e] \/ CancelledFrom(V[e], W[e])
<1>1. PICK v : v = V[d]
  OBVIOUS
<1>2. v \in VenueRec
  BY <1>1, VenueTypes
<1>3. PICK s : s = IF v.state = "resting" THEN "cancelled" ELSE v.state
  OBVIOUS
<1>4. PICK x : x = [v EXCEPT !.state = s, !.left = 0]
  OBVIOUS
<1>5. x \in VenueRec /\ x.done = v.done /\ x.left = 0 /\ x.state = s
  BY <1>2, <1>3, <1>4 DEF VenueRec
<1>6. W = WithVenue(V, d, x)
  BY <1>1, <1>3, <1>4 DEF WithVenue, WithCancel, VenueSet
<1>7. W \in VenueSet /\ W[d] = x /\ \A e \in Writes : e # d => W[e] = V[e]
  BY <1>5, <1>6, OneVenue
<1>8. CancelledFrom(V[d], W[d])
  BY <1>1, <1>3, <1>5, <1>7 DEF CancelledFrom
<1> QED
  BY <1>7, <1>8

(* Cancelling keeps the invariant. *)
LEMMA CancelStays ==
  ASSUME OrdersInv, Cancel
  PROVE  FullOK(plan, next, step + 1, intents', venue', execs', seen, book', claims, phase)
<1>1. PICK c : c = <<next, step>>
  OBVIOUS
<1>2. Routed /\ step \in DOMAIN plan[next] /\ Write(c).op # "place"
  BY <1>1 DEF Cancel, Write
<1>3. \A n \in PollsSet : FullOK(plan, next, step + 1, WithAnswer(intents, c, "uncertain", n), venue, execs,
                                 seen, Intent(book, c), claims, phase)
  BY <1>1, <1>2, WriteIs
<1>4. PICK W, F : W = venue' /\ F = execs'
  OBVIOUS
<1>5. CASE ~Named(Write(c).target)
  <2>1. W = venue /\ F = execs /\ intents' = intents /\ book' = book
    BY <1>1, <1>4, <1>5 DEF Cancel, world
  <2>2. FullOK(plan, next, step, intents, venue, execs, seen, book, claims, phase) /\ step \in Nat \ {0}
    BY <1>2 DEF OrdersInv, FullOK, CoreOK, FiledOK, Routed
  <2>3. FullOK(plan, next, step + 1, intents, venue, execs, seen, book, claims, phase)
    BY <2>2, StepsOn
  <2> QED
    BY <1>4, <2>1, <2>3
<1>6. CASE UNCHANGED world /\ Write(c).loses /\ Unanswered(c, 2)
  <2>1. W = venue /\ F = execs
    BY <1>4, <1>6 DEF world
  <2>2. FullOK(plan, next, step + 1, intents', W, F, seen, book', claims, phase)
    BY <1>1, <1>2, <1>3, <1>4, <1>6, <2>1, AnsweredIs
  <2> QED
    BY <1>4, <2>2
<1>7. CASE Cancels(c) /\ Named(Write(c).target)
  <2>1. PICK d : d = Write(c).target
    OBVIOUS
  <2>2. d \in Writes
    BY <1>7, <2>1 DEF Named
  <2>3. W = WithCancel(venue, d) /\ F = execs
    BY <1>4, <1>7, <2>1 DEF Cancels, WithCancel
  <2>4. venue \in VenueSet
    BY DEF OrdersInv, FullOK, CoreOK, VenueOK
  <2>5. W \in VenueSet /\ \A e \in Writes : W[e] = venue[e] \/ CancelledFrom(venue[e], W[e])
    BY <2>2, <2>3, <2>4, CancelledHere
  <2>6. ASSUME NEW n \in PollsSet
        PROVE  FullOK(plan, next, step + 1, WithAnswer(intents, c, "uncertain", n), W, F,
                      seen, Intent(book, c), claims, phase)
    <3>1. PICK J, a : J = WithAnswer(intents, c, "uncertain", n) /\ a = Intent(book, c)
      OBVIOUS
    <3>2. FullOK(plan, next, step + 1, J, venue, execs, seen, a, claims, phase)
      BY <1>3, <3>1
    <3>3. FullOK(plan, next, step + 1, J, W, execs, seen, a, claims, phase)
      BY <2>5, <3>2, CancelsIs
    <3> QED
      BY <2>3, <3>1, <3>3
  <2>7. PICK s : s = IF venue[d].state = "resting" THEN "cancelled" ELSE "rejected"
    OBVIOUS
  <2>8. s \in Answers
    BY <2>7 DEF Answers
  <2>9. Certain(c, s) \/ Unanswered(c, 2)
    BY <1>7, <2>1, <2>7 DEF Cancels
  <2>10. \/ Unanswered(c, 2)
         \/ \E a \in Answers : Certain(c, a) /\ (Write(c).op = "place" => TrueOf(W, c, a))
    BY <1>2, <2>8, <2>9
  <2>11. FullOK(plan, next, step + 1, intents', W, F, seen, book', claims, phase)
    BY <1>1, <1>2, <1>4, <2>6, <2>10, AnsweredIs
  <2> QED
    BY <1>4, <2>11
<1> QED
  BY <1>1, <1>5, <1>6, <1>7 DEF Cancel

-----------------------------------------------------------------------------
(* An uncertain intent is asked again, or given up.                                           *)
LEMMA ToldOnce ==
  ASSUME NEW I \in IntentSet, NEW c \in Writes, NEW s, NEW n, n = I[c].polls
  PROVE  Told(I, c, s) = WithAnswer(I, c, s, n)
  BY DEF Told, WithAnswer, IntentSet

(* Reconciling keeps the invariant. *)
LEMMA ReconcileStays ==
  ASSUME OrdersInv, Reconcile
  PROVE  FullOK(plan, next, step, intents', venue, execs, seen, book', claims, phase)
<1>1. phase = "reconcile" /\ UNCHANGED world
  BY DEF Reconcile
<1>2. FullOK(plan, next, step, intents, venue, execs, seen, book, claims, phase)
  BY DEF OrdersInv
<1>3. PICK c \in Due : IF intents[c].polls >= MaxPolls THEN GiveUp(c)
                       ELSE \/ Lookup(c) # "none" /\ Certain(c, Lookup(c))
                            \/ Unanswered(c, 1)
  BY DEF Reconcile
<1>4. c \in Writes /\ intents[c].status = "uncertain" /\ ~intents[c].gaveUp
  BY DEF Due, Uncertain
<1>5. venue' = venue /\ venue \in VenueSet /\ intents \in IntentSet /\ step \in Nat
  BY <1>1, <1>2 DEF world, FullOK, CoreOK, VenueOK, FiledOK
<1>6. CASE GiveUp(c)
  <2>1. PICK J : J = intents'
    OBVIOUS
  <2>2. J = WithGivenUp(intents, c) /\ book' = ReleaseUnresolved(book, c)
    BY <1>6, <2>1 DEF GiveUp, WithGivenUp
  <2>3. FullOK(plan, next, step, J, venue, execs, seen, ReleaseUnresolved(book, c), claims, phase)
    BY <1>1, <1>2, <1>4, <2>2, GivesUpIs
  <2> QED
    BY <2>1, <2>2, <2>3
<1>7. CASE Unanswered(c, 1)
  <2>1. PICK J, n : J = intents' /\ n = intents[c].polls + 1
    OBVIOUS
  <2>2. n \in PollsSet
    BY <1>4, <1>5, <2>1 DEF IntentSet, PollsSet
  <2>3. J = WithAnswer(intents, c, "uncertain", n) /\ book' = book
    BY <1>4, <1>5, <1>7, <2>1 DEF Unanswered, WithAnswer, IntentSet
  <2>4. FullOK(plan, next, step, J, venue, execs, seen, book, claims, phase)
    BY <1>2, <1>4, <1>5, <2>2, <2>3, PollsAgain
  <2> QED
    BY <2>1, <2>3, <2>4
<1>8. CASE Lookup(c) # "none" /\ Certain(c, Lookup(c))
  <2>1. PICK s : s = Lookup(c)
    OBVIOUS
  <2>2. Write(c) = plan[c[1]][c[2]] /\ Write(c) \in Requests
    <3>1. plan[c[1]][c[2]] \in Requests
      BY <1>2, <1>4 DEF FullOK, CoreOK, FiledOK, IntentOK
    <3> QED
      BY <3>1 DEF Write
  <2>3. s \in Answers /\ (plan[c[1]][c[2]].op = "place" => TrueOf(venue, c, s))
    <3>1. CASE Write(c).op = "place"
      <4>1. s = venue[c].state /\ s # "none" /\ venue[c].state \in {"none", "resting", "filled", "cancelled"}
        BY <1>4, <1>5, <1>8, <2>1, <3>1, VenueTypes DEF Lookup
      <4> QED
        BY <4>1 DEF Answers, TrueOf
    <3>2. CASE Write(c).op # "place"
      <4>1. s \in {"cancelled", "rejected"}
        BY <1>8, <2>1, <3>2 DEF Lookup
      <4> QED
        BY <2>2, <3>2, <4>1 DEF Answers
    <3> QED
      BY <3>1, <3>2
  <2>4. book' = Answered(book, c, s) /\ intents' = Told(intents, c, s)
    BY <1>4, <1>8, <2>1 DEF Certain, Told
  <2>5. Bound(book, c, s) = BoundTo(plan, venue, book, c, s)
    BY <1>5 DEF Bound, BoundTo, Write
  <2>6. book' = Acknowledged(BoundTo(plan, venue, book, c, s), c)
    BY <2>4, <2>5 DEF Answered
  <2>7. PICK J, n : J = intents' /\ n = intents[c].polls
    OBVIOUS
  <2>8. n \in PollsSet
    BY <1>4, <1>5, <2>7 DEF IntentSet, PollsSet
  <2>9. J = WithAnswer(intents, c, s, n)
    BY <1>4, <1>5, <2>4, <2>7, ToldOnce
  <2>10. FullOK(plan, next, step, J, venue, execs, seen, Acknowledged(BoundTo(plan, venue, book, c, s), c), claims, phase)
    BY <1>1, <1>2, <1>4, <2>3, <2>8, <2>9, AnswerIs
  <2> QED
    BY <2>6, <2>7, <2>10
<1> QED
  BY <1>3, <1>6, <1>7, <1>8

-----------------------------------------------------------------------------
(* The world's clock, its price and its position are numbers.                                 *)
LEMMA WorldIs ==
  ASSUME OrdersInv
  PROVE  /\ now \in Int /\ Clock \in Int /\ Path[now] \in Int
         /\ Position(DOMAIN execs) \in Int
<1>1. now \in 0 .. MaxTime /\ execs \in Seq(FillSet)
  BY DEF OrdersInv, FullOK, CoreOK, VenueOK
<1>2. MaxTime \in Nat /\ Path[now] \in Nat \ {0}
  BY <1>1, OrdersAssumption
<1>3. IsFiniteSet(DOMAIN execs) /\ \A i \in DOMAIN execs : execs[i] \in FillSet
  BY <1>1, FiniteDomain
<1>4. PICK m : m = [i \in DOMAIN execs |-> Sign(execs[i].buy) * execs[i].size]
  OBVIOUS
<1>5. ASSUME NEW i \in DOMAIN execs PROVE m[i] \in Int
  <2>1. execs[i].size \in Int /\ Sign(execs[i].buy) \in Int
    BY <1>3 DEF FillSet, Sign
  <2> QED
    BY <1>4, <2>1, TimesInt
<1>6. Total(m, DOMAIN execs) \in Int
  BY <1>3, <1>5, TotalInt
<1>7. Position(DOMAIN execs) \in Int
  BY <1>4, <1>6 DEF Position
<1> QED
  BY <1>1, <1>2, <1>7 DEF Clock, Grain

(* An execution keeps the invariant. *)
LEMMA ExecuteStays ==
  ASSUME OrdersInv, Execute
  PROVE  FullOK(plan, next, step, intents, venue', execs', seen, book, claims, phase)
<1>0. PICK c \in Writes : \E size \in 1 .. venue[c].left :
        /\ venue[c].state = "resting"
        /\ venue' = [venue EXCEPT ![c].left = @ - size, ![c].done = @ + size,
                                  ![c].state = IF size = venue[c].left THEN "filled" ELSE @]
        /\ execs' = Append(execs, Execution(c, venue[c].buy, size))
  BY DEF Execute
<1>1. PICK size \in 1 .. venue[c].left :
        /\ venue[c].state = "resting"
        /\ venue' = [venue EXCEPT ![c].left = @ - size, ![c].done = @ + size,
                                  ![c].state = IF size = venue[c].left THEN "filled" ELSE @]
        /\ execs' = Append(execs, Execution(c, venue[c].buy, size))
  BY <1>0
<1>2. FullOK(plan, next, step, intents, venue, execs, seen, book, claims, phase) /\ venue \in VenueSet
  BY DEF OrdersInv, FullOK, CoreOK, VenueOK
<1>3. PICK v : v = venue[c]
  OBVIOUS
<1>4. v \in VenueRec /\ v.left \in Nat /\ v.done \in Nat /\ v.state = "resting"
  BY <1>1, <1>2, <1>3, VenueTypes
<1>5. PICK s : s = IF size = v.left THEN "filled" ELSE v.state
  OBVIOUS
<1>6. PICK x : x = [v EXCEPT !.left = @ - size, !.done = @ + size, !.state = s]
  OBVIOUS
<1>7. size \in Nat \ {0} /\ size <= v.left
  BY <1>1, <1>3, <1>4
<1>8. /\ x \in VenueRec /\ x.done = v.done + size /\ x.left = v.left - size
      /\ x.state = IF x.left = 0 THEN "filled" ELSE "resting"
  <2>1. x.done = v.done + size /\ x.left = v.left - size /\ x.state = s
    BY <1>4, <1>6 DEF VenueRec
  <2>2. v.left - size \in Nat /\ v.done + size \in Nat /\ (size = v.left <=> v.left - size = 0)
    BY <1>4, <1>7
  <2>3. s = IF x.left = 0 THEN "filled" ELSE "resting"
    BY <1>4, <1>5, <2>1, <2>2
  <2>4. x \in VenueRec
    BY <1>4, <1>6, <2>2, <2>3 DEF VenueRec
  <2> QED
    BY <2>1, <2>3, <2>4
<1>9. PICK W, F : W = venue' /\ F = execs'
  OBVIOUS
<1>10. W = WithVenue(venue, c, x)
  BY <1>1, <1>2, <1>3, <1>5, <1>6, <1>9 DEF WithVenue, VenueSet
<1>11. PICK e : e = Execution(c, v.buy, size)
  OBVIOUS
<1>12. e \in FillSet /\ e.order = c /\ e.size = size /\ Later(execs, e) /\ Priced(e)
  <2>1. c \in OrderIds /\ v.buy \in Sides /\ size \in SizeSet
    BY <1>4, <1>7, WritesAre DEF Sides, SizeSet, VenueRec
  <2> QED
    BY <1>11, <2>1, ExecutionIs
<1>13. F = Append(execs, e)
  BY <1>1, <1>3, <1>9, <1>11
<1>15. OrderIn(execs, Closing) = {}
  BY <1>1, BeforeClosing DEF OrdersInv, QuietOK
<1>14. FullOK(plan, next, step, intents, W, F, seen, book, claims, phase)
  BY <1>2, <1>3, <1>4, <1>7, <1>8, <1>10, <1>12, <1>13, <1>15, ExecutesIs
<1> QED
  BY <1>9, <1>14

(* Routing starts a return, and keeps the invariant. *)
LEMMA RouteStays ==
  ASSUME OrdersInv, Route
  PROVE  FullOK(plan, next, 1, intents, venue, execs, seen, book', claims, phase) /\ phase = "idle" /\ next \in DOMAIN plan
<1>1. phase = "idle" /\ ~Routed /\ next \in DOMAIN plan /\ book' = [book EXCEPT !.table = Start(@, next, Clock)]
  BY DEF Route
<1>2. FullOK(plan, next, step, intents, venue, execs, seen, book, claims, phase) /\ step \in Nat /\ plan \in Plans
  BY DEF OrdersInv, FullOK, CoreOK, FiledOK
<1>3. step = 0
  BY <1>1, <1>2 DEF Routed
<1>4. next \in Returns
  BY <1>1, <1>2, PlanIs
<1>5. PICK at, a : at = Clock /\ a = [book EXCEPT !.table = Start(@, next, at)]
  OBVIOUS
<1>6. at \in Int
  BY <1>5, WorldIs
<1>7. FullOK(plan, next, 1, intents, venue, execs, seen, a, claims, "idle")
  BY <1>1, <1>2, <1>3, <1>4, <1>5, <1>6, StartsIs
<1> QED
  BY <1>1, <1>5, <1>7

(* The end of routing finishes the return, and keeps the invariant. *)
LEMMA EndRoutingStays ==
  ASSUME OrdersInv, EndRouting
  PROVE  FullOK(plan, next + 1, 0, intents, venue, execs, seen, book', claims, "settle")
<1>1. Routed /\ book' = [book EXCEPT !.table = Finish(@, next)]
  BY DEF EndRouting
<1>2. FullOK(plan, next, step, intents, venue, execs, seen, book, claims, phase) /\ step \in Nat /\ plan \in Plans
      /\ phase = "idle" /\ next \in DOMAIN plan
  BY <1>1 DEF OrdersInv, FullOK, CoreOK, FiledOK
<1>3. step \in Nat \ {0}
  BY <1>1, <1>2 DEF Routed
<1>4. next \in Returns
  BY <1>2, PlanIs
<1>5. PICK a : a = [book EXCEPT !.table = Finish(@, next)]
  OBVIOUS
<1>6. FullOK(plan, next + 1, 0, intents, venue, execs, seen, a, claims, "settle")
  BY <1>2, <1>3, <1>4, <1>5, FinishesIs
<1> QED
  BY <1>1, <1>5, <1>6

(* A tick keeps the invariant. *)
LEMMA TickStays ==
  ASSUME OrdersInv, Tick
  PROVE  FullOK(plan, next, step, intents, venue, execs, seen, book, claims, "reconcile")
<1>1. phase = "idle" /\ FullOK(plan, next, step, intents, venue, execs, seen, book, claims, phase)
  BY DEF OrdersInv, Tick
<1>2. PICK pf : pf = "reconcile"
  OBVIOUS
<1>3. FullOK(plan, next, step, intents, venue, execs, seen, book, claims, pf)
  BY <1>1, <1>2, PhaseMoves
<1> QED
  BY <1>2, <1>3

(* Confirming keeps the invariant. *)
LEMMA ConfirmStays ==
  ASSUME OrdersInv, ConfirmTerminal
  PROVE  FullOK(plan, next, step, intents, venue, execs, seen, book', claims, "poll")
<1>1. phase = "reconcile" /\ FullOK(plan, next, step, intents, venue, execs, seen, book, claims, phase)
  BY DEF OrdersInv, ConfirmTerminal
<1>2. PICK over : over = {c \in Writes : /\ book.table.orders[c].owner # Nobody
                                         /\ book.table.orders[c].remaining = 0
                                         /\ book.table.orders[c].confirmed = Unconfirmed
                                         /\ Terminal(c)}
  OBVIOUS
<1>3. PICK read \in {{}, over} : book' = [book EXCEPT !.table = ConfirmAll(@, read, venue)]
  BY <1>2 DEF ConfirmTerminal
<1>4. read \in SUBSET Writes
  BY <1>2, <1>3
<1>5. \A c \in read : book.table.orders[c].owner # Nobody /\ venue[c].state \in {"filled", "cancelled"}
  BY <1>2, <1>3 DEF Terminal
<1>6. PICK a, pf : a = WithConfirmed(book, read, venue) /\ pf = "poll"
  OBVIOUS
<1>7. FullOK(plan, next, step, intents, venue, execs, seen, a, claims, phase)
  BY <1>1, <1>4, <1>5, <1>6, ConfirmsIs
<1>8. FullOK(plan, next, step, intents, venue, execs, seen, a, claims, pf)
  BY <1>1, <1>6, <1>7, PhaseMoves
<1>9. book' = a
  BY <1>3, <1>6 DEF WithConfirmed
<1> QED
  BY <1>6, <1>8, <1>9

(* A read, of a book that holds what the book held.                                           *)
LEMMA ReadStays ==
  ASSUME OrdersInv, phase # "dead", NEW returned \in SUBSET (DOMAIN execs \ seen), Read(returned)
  PROVE  FullOK(plan, next, step, intents, venue, execs, seen', book', claims, phase)
<1>1. FullOK(plan, next, step, intents, venue, execs, seen, book, claims, phase)
  BY DEF OrdersInv
<1>2. PICK new : new = returned \ {i \in returned : AwaitsIdentity(i)}
  OBVIOUS
<1>3. PICK b : b = IF phase = "poll" THEN ObserveMid(book, Clock, Path[now]) ELSE book
  OBVIOUS
<1>4. PICK at, px : at = Clock /\ px = Path[now]
  OBVIOUS
<1>5. at \in Int /\ px \in Int
  BY <1>4, WorldIs
<1>6. FullOK(plan, next, step, intents, venue, execs, seen, ObserveMid(book, at, px), claims, phase)
  BY <1>1, <1>5, MarksIs
<1>7. FullOK(plan, next, step, intents, venue, execs, seen, b, claims, phase)
  BY <1>1, <1>3, <1>4, <1>6
<1>8. new \in SUBSET DOMAIN execs /\ new \cap seen = {}
  BY <1>2
<1>9. FullOK(plan, next, step, intents, venue, execs, seen \cup new, ObserveEach(b, execs, new), claims, phase)
  BY <1>7, <1>8, ReadIs
<1>10. seen' = seen \cup new /\ book' = ObserveEach(b, execs, new)
  BY <1>2, <1>3 DEF Read
<1> QED
  BY <1>9, <1>10

(* The poll keeps the invariant. *)
LEMMA PollStays ==
  ASSUME OrdersInv, Poll
  PROVE  FullOK(plan, next, step, intents, venue, execs, seen', book', claims, "settle")
<1>1. phase = "poll"
  BY DEF Poll
<1>2. PICK returned \in SUBSET (DOMAIN execs \ seen) : Read(returned)
  BY DEF Poll
<1>3. FullOK(plan, next, step, intents, venue, execs, seen', book', claims, phase)
  BY <1>1, <1>2, ReadStays
<1>4. PICK pf, T, a : pf = "settle" /\ T = seen' /\ a = book'
  OBVIOUS
<1>5. FullOK(plan, next, step, intents, venue, execs, T, a, claims, phase)
  BY <1>3, <1>4
<1>6. FullOK(plan, next, step, intents, venue, execs, T, a, claims, pf)
  BY <1>1, <1>4, <1>5, PhaseMoves
<1> QED
  BY <1>4, <1>6

(* The wind-down's reads keep the invariant. *)
LEMMA ReadWindDownStays ==
  ASSUME OrdersInv, ReadWindDown
  PROVE  FullOK(plan, next, step, intents, venue, execs, seen', book', claims, phase)
<1>1. phase = "flat" /\ FullOK(plan, next, step, intents, venue, execs, seen, book, claims, phase)
  BY DEF OrdersInv, ReadWindDown
<1>2. CASE UNCHANGED <<cursor, book>>
  BY <1>1, <1>2 DEF cursor
<1>3. CASE \E returned \in SUBSET (DOMAIN execs \ seen) : Read(returned)
  <2>1. PICK returned \in SUBSET (DOMAIN execs \ seen) : Read(returned)
    BY <1>3
  <2> QED
    BY <1>1, <2>1, ReadStays
<1> QED
  BY <1>2, <1>3 DEF ReadWindDown

(* Settling, of the state as it is. *)
LEMMA SettledIs ==
  ASSUME OrdersInv, phase # "dead", NEW a, a = SettleDue(book),
         NEW D, D = [h \in Returns |-> claims[h] + Credited(book, h)]
  PROVE  FullOK(plan, next, step, intents, venue, execs, seen, a, D, phase)
<1>1. FullOK(plan, next, step, intents, venue, execs, seen, book, claims, phase)
  BY DEF OrdersInv
<1>2. CreditPaid(book, claims, D)
  BY DEF CreditPaid
<1> QED
  BY <1>1, <1>2, SettlesIs

(* The settlement keeps the invariant. *)
LEMMA SettleStays ==
  ASSUME OrdersInv, Settle
  PROVE  FullOK(plan, next, step, intents, venue, execs, seen, book', claims', "idle")
<1>1. phase = "settle" /\ book' = SettleDue(book)
      /\ claims' = [h \in Returns |-> claims[h] + Credited(book, h)]
  BY DEF Settle
<1>2. PICK a, D, pf : a = SettleDue(book) /\ D = [h \in Returns |-> claims[h] + Credited(book, h)] /\ pf = "idle"
  OBVIOUS
<1>3. FullOK(plan, next, step, intents, venue, execs, seen, a, D, phase)
  BY <1>1, <1>2, SettledIs
<1>4. FullOK(plan, next, step, intents, venue, execs, seen, a, D, pf)
  BY <1>1, <1>2, <1>3, PhaseMoves
<1> QED
  BY <1>1, <1>2, <1>4

(* The release pass keeps the invariant. *)
LEMMA ReleaseStays ==
  ASSUME OrdersInv, ReleaseSettled
  PROVE  FullOK(plan, next, step, intents, venue, execs, seen, book', claims, phase)
<1>1. phase = "idle" /\ FullOK(plan, next, step, intents, venue, execs, seen, book, claims, phase)
  BY DEF OrdersInv, ReleaseSettled
<1>2. PICK h \in Returns : Releasable(book, h) /\ book' = [book EXCEPT !.table = Release(@, h)]
  BY DEF ReleaseSettled
<1>3. PICK a : a = [book EXCEPT !.table = Release(@, h)]
  OBVIOUS
<1>4. FullOK(plan, next, step, intents, venue, execs, seen, a, claims, phase)
  BY <1>1, <1>2, <1>3, ReleasesIs
<1> QED
  BY <1>2, <1>3, <1>4

(* The wind-down's settlement keeps the invariant. *)
LEMMA SettleWindDownStays ==
  ASSUME OrdersInv, SettleWindDown
  PROVE  FullOK(plan, next, step, intents, venue, execs, seen, book', claims', "dead")
<1>1. phase = "flat" /\ FullOK(plan, next, step, intents, venue, execs, seen, book, claims, phase)
  BY DEF OrdersInv, SettleWindDown
<1>2. PICK l : l = SettleLate(book, TRUE)
  OBVIOUS
<1>3. PICK a, D : a = SettleLate(l, FALSE)
        /\ D = [h \in Returns |-> claims[h] + LateOf(book, h, TRUE) + LateOf(l, h, FALSE)]
  OBVIOUS
<1>4. FullOK(plan, next, step, intents, venue, execs, seen, a, D, "dead")
  BY <1>1, <1>2, <1>3, EndsIs
<1>5. book' = a /\ claims' = D
  BY <1>2, <1>3 DEF SettleWindDown
<1> QED
  BY <1>4, <1>5

-----------------------------------------------------------------------------
(* The kill: what rests is cancelled, and the closing order executes at once.                 *)
Resting(V) == [c \in Writes |-> IF V[c].state = "resting"
                                THEN [V[c] EXCEPT !.state = "cancelled", !.left = 0] ELSE V[c]]

(* Everything that rests is cancelled, the rest is left alone. *)
LEMMA FlattensIs ==
  ASSUME NEW V \in VenueSet, NEW W, W = Resting(V)
  PROVE  /\ W \in VenueSet /\ \A d \in Writes : W[d] = V[d] \/ CancelledFrom(V[d], W[d])
         /\ \A d \in Writes : W[d].state # "resting"
<1>1. ASSUME NEW d \in Writes
      PROVE  W[d] \in VenueRec /\ (W[d] = V[d] \/ CancelledFrom(V[d], W[d])) /\ W[d].state # "resting"
  <2>1. PICK v : v = V[d]
    OBVIOUS
  <2>2. v \in VenueRec
    BY <2>1, VenueTypes
  <2>3. W[d] = IF v.state = "resting" THEN [v EXCEPT !.state = "cancelled", !.left = 0] ELSE v
    BY <2>1 DEF Resting
  <2>4. CASE v.state = "resting"
    <3>1. PICK x : x = [v EXCEPT !.state = "cancelled", !.left = 0]
      OBVIOUS
    <3>2. x \in VenueRec /\ x.done = v.done /\ x.left = 0 /\ x.state = "cancelled"
      BY <2>2, <3>1 DEF VenueRec
    <3> QED
      BY <2>1, <2>3, <2>4, <3>1, <3>2 DEF CancelledFrom
  <2>5. CASE v.state # "resting"
    BY <2>1, <2>2, <2>3, <2>5
  <2> QED
    BY <2>4, <2>5
<1>2. W = [c \in Writes |-> W[c]]
  BY DEF Resting
<1>3. W \in [Writes -> VenueRec]
  BY <1>1, <1>2
<1> QED
  BY <1>1, <1>3 DEF VenueSet, VenueRec

(* The closing order is bound to the kernel's account, for all it executes.                   *)
ClosingBound(b, size, a) ==
    /\ a \in BookSet /\ a.table.accounts = b.table.accounts
    /\ a.table.orders[Closing].owner = WindDown /\ a.table.orders[Closing].ordered = size

WithClosing(b, size) == [b EXCEPT !.table = Bind(@, Closing, WindDown, size)]

(* Binding it leaves every other order's terms. *)
LEMMA ClosingLeaves ==
  ASSUME NEW b \in BookSet, b.table.orders[Closing].owner = Nobody, b.table.orders[Closing].executed = 0,
         NEW size \in Int, NEW a, a = WithClosing(b, size)
  PROVE  BindLeaves(b, Closing, a) /\ ClosingBound(b, size, a)
<1>1. PICK c, h, n : c = Closing /\ h = WindDown /\ n = size
  OBVIOUS
<1>2. c \in OrderIds /\ h \in Binders /\ n \in Int
  BY <1>1, WritesAre DEF Binders
<1>3. b.table.orders[c].owner = Nobody /\ b.table.orders[c].executed = 0
  BY <1>1
<1>4. PICK d : d = WithBinding(b, c, h, n)
  OBVIOUS
<1>5. /\ BindLeaves(b, c, d)
      /\ d.table.orders[c].owner = h /\ d.table.orders[c].ordered = n
      /\ d.table.orders[c].confirmed = Unconfirmed
  BY <1>2, <1>3, <1>4, BindIs
<1>6. d = a
  BY <1>1, <1>4 DEF WithClosing, WithBinding
<1> QED
  BY <1>1, <1>5, <1>6 DEF ClosingBound, BindLeaves, LooksAlike

(* The invariant survives the binding of the closing order. *)
LEMMA ClosingBinds ==
  ASSUME NEW P, NEW nx, NEW st, NEW I, NEW V, NEW E, NEW S, NEW b, NEW C,
         FullOK(P, nx, st, I, V, E, S, b, C, "idle"), NEW size \in SizeSet,
         NEW a, a = WithClosing(b, size)
  PROVE  /\ FullOK(P, nx, st, I, V, E, S, a, C, "flat")
         /\ ClosingBound(b, size, a)
<1>1. /\ b \in BookSet /\ BookOK(E, S, b) /\ FiledOK(P, nx, st, I, V) /\ BoundOK(P, I, V, E, b, "idle")
      /\ PaidOK(nx, st, I, V, b, C, "idle") /\ OverOK(E, b)
  BY DEF FullOK, CoreOK, BookOK
<1>2. b.table.orders[Closing].owner = Nobody /\ OrderIn(E, Closing) = {}
  BY <1>1 DEF BoundOK, ClosingOK
<1>3. b.table.orders[Closing].executed = 0 /\ Closing \in OrderIds
  BY <1>1, <1>2, WritesAre DEF BookOK
<1>4. size \in Int /\ size \in Nat
  BY DEF SizeSet
<1>5. BindLeaves(b, Closing, a) /\ ClosingBound(b, size, a)
  BY <1>1, <1>2, <1>3, <1>4, ClosingLeaves
<1>6. a.table.orders[Closing].owner = WindDown /\ a.table.orders[Closing].ordered = size
  BY <1>5 DEF ClosingBound
<1>7. /\ LooksAlike(b, a) /\ a.pending = b.pending /\ a.unresolved = b.unresolved
      /\ a.table.accounts = b.table.accounts /\ a.filled = b.filled /\ a \in BookSet
      /\ \A d \in OrderIds : d # Closing => SameTerms(b.table.orders[d], a.table.orders[d])
  BY <1>5 DEF BindLeaves, LooksAlike
<1>8. BoundOK(P, I, V, E, a, "flat")
  <2>1. ASSUME NEW d \in Writes PROVE OrderOK(P, I, V, a, d)
    <3>1. OrderOK(P, I, V, b, d)
      BY <1>1 DEF BoundOK
    <3>2. SameTerms(b.table.orders[d], a.table.orders[d])
      BY <1>7, WritesAre
    <3> QED
      BY <3>1, <3>2 DEF OrderOK, SameTerms
  <2>2. Total(SizesIn(E), OrderIn(E, Closing)) = 0
    BY <1>2, TotalNone
  <2>3. 0 <= size
    BY <1>4
  <2>4. Total(SizesIn(E), OrderIn(E, Closing)) <= a.table.orders[Closing].ordered
    BY <1>6, <2>2, <2>3
  <2>5. ClosingOK(E, a, "flat")
    BY <1>2, <1>6, <2>4 DEF ClosingOK
  <2> QED
    BY <2>1, <2>5 DEF BoundOK
<1>9. PaidOK(nx, st, I, V, a, C, "flat")
  <2> SUFFICES ASSUME NEW h \in Returns PROVE AccountOK(nx, st, I, V, C, "flat", a.table.accounts[h], h)
    BY DEF PaidOK
  <2>1. AccountOK(nx, st, I, V, C, "idle", a.table.accounts[h], h)
    BY <1>1, <1>7 DEF PaidOK
  <2> QED
    BY <2>1 DEF AccountOK
<1>10. OverOK(E, a)
  BY <1>1, <1>7 DEF OverOK
<1>11. HoldersOpen(b, a)
  BY <1>7 DEF HoldersOpen, AccountOpen, Open
<1>12. FullOK(P, nx, st, I, V, E, S, a, C, "flat")
  BY <1>1, <1>7, <1>8, <1>9, <1>10, <1>11, BookMoves
<1> QED
  BY <1>5, <1>12

(* It executes.                                                                               *)
LEMMA ClosingExecutes ==
  ASSUME NEW P, NEW nx, NEW st, NEW I, NEW V, NEW E, NEW S, NEW b, NEW C,
         FullOK(P, nx, st, I, V, E, S, b, C, "idle"), NEW size \in SizeSet,
         NEW a, a = WithClosing(b, size),
         NEW e \in FillSet, e.order = Closing, e.size = size, Later(E, e), Priced(e),
         Sign(e.buy) * e.size = 0 - Total(SignedIn(E), DOMAIN E), NEW F, F = Append(E, e)
  PROVE  FullOK(P, nx, st, I, V, F, S, a, C, "flat")
<1>1. FullOK(P, nx, st, I, V, E, S, a, C, "flat") /\ ClosingBound(b, size, a)
  BY ClosingBinds
<1>2. VenueOK(V, E) /\ FiledOK(P, nx, st, I, V) /\ BoundOK(P, I, V, E, a, "flat") /\ BoundOK(P, I, V, E, b, "idle")
  BY <1>1 DEF FullOK, CoreOK
<1>3. E \in Seq(FillSet) /\ (\A i, j \in DOMAIN E : i < j => E[i].at < E[j].at) /\ V \in VenueSet
  BY <1>2 DEF VenueOK
<1>4. F \in Seq(FillSet) /\ \A i, j \in DOMAIN F : i < j => F[i].at < F[j].at
  BY <1>3, InOrderMore
<1>5. CountsMore(E, e, F)
  BY <1>3, GrowsBy
<1>6. Total(SizesIn(E), OrderIn(E, Closing)) = 0
  <2>1. OrderIn(E, Closing) = {}
    BY <1>2 DEF BoundOK, ClosingOK
  <2> QED
    BY <2>1, TotalNone
<1>7. VenueOK(V, F)
  <2>1. ASSUME NEW c \in Writes
        PROVE  /\ V[c].done = Total(SizesIn(F), OrderIn(F, c))
               /\ V[c].state # "resting" => V[c].left = 0
               /\ V[c].state = "none" => V[c].done = 0
    <3>1. c # e.order
      BY WritesAre
    <3>2. Total(SizesIn(F), OrderIn(F, c)) = Total(SizesIn(E), OrderIn(E, c)) + 0
      BY <1>5, <3>1 DEF CountsMore
    <3>3. V[c].done = Total(SizesIn(E), OrderIn(E, c)) /\ (V[c].state # "resting" => V[c].left = 0)
          /\ (V[c].state = "none" => V[c].done = 0)
      BY <1>2 DEF VenueOK
    <3>4. V[c].done \in Nat
      BY <1>3, VenueTypes
    <3> QED
      BY <3>2, <3>3, <3>4
  <2> QED
    BY <1>3, <1>4, <2>1 DEF VenueOK
<1>8. BoundOK(P, I, V, F, a, "flat")
  <2>1. Total(SizesIn(F), OrderIn(F, Closing)) = 0 + size
    BY <1>5, <1>6 DEF CountsMore
  <2>2. size \in Nat
    BY DEF SizeSet
  <2>3. a.table.orders[Closing].owner = WindDown /\ a.table.orders[Closing].ordered = size
    BY <1>1 DEF ClosingBound
  <2>4. WindDown # Nobody
    BY Accounts
  <2>5. Total(SizesIn(F), OrderIn(F, Closing)) <= a.table.orders[Closing].ordered
    BY <2>1, <2>2, <2>3
  <2>6. ClosingOK(F, a, "flat")
    BY <2>3, <2>4, <2>5 DEF ClosingOK
  <2> QED
    BY <1>2, <2>6 DEF BoundOK
<1>9. Grows(E, F, a)
  <2>1. e.order[1] \notin Returns
    BY WritesAre
  <2>2. OrderIn(E, Closing) = {}
    BY <1>2 DEF BoundOK, ClosingOK
  <2>3. EndsFlat(F)
    BY <1>3, <2>2, ClosesFlat
  <2> QED
    BY <2>1, <2>3 DEF Grows
<1>10. \A d \in Writes : IntentOK(P, nx, st, I, V, d)
  BY <1>2 DEF FiledOK
<1> QED
  BY <1>1, <1>7, <1>8, <1>9, <1>10, VenueMoves

(* The kill keeps the invariant. *)
LEMMA KillStays ==
  ASSUME OrdersInv, Kill
  PROVE  /\ FullOK(plan, next, step, intents, venue', execs', seen, book', claims', "flat")
         /\ QuietOK("flat", venue')
<1>1. PICK net : net = Position(DOMAIN execs)
  OBVIOUS
<1>2. PICK settled, D : settled = SettleDue(book) /\ D = [h \in Returns |-> claims[h] + Credited(book, h)]
  OBVIOUS
<1>3. PICK e : e = Execution(Closing, net < 0, Abs(net))
  OBVIOUS
<1>4. PICK W, F, a : W = venue' /\ F = execs' /\ a = book'
  OBVIOUS
<1>5. /\ phase = "idle" /\ W = Resting(venue)
      /\ F = IF net = 0 THEN execs ELSE Append(execs, e)
      /\ a = IF net = 0 THEN settled ELSE [settled EXCEPT !.table = Bind(@, Closing, WindDown, Abs(net))]
      /\ claims' = D
  BY <1>1, <1>2, <1>3, <1>4 DEF Kill, Resting
<1>6. FullOK(plan, next, step, intents, venue, execs, seen, settled, D, phase)
  BY <1>2, <1>5, SettledIs
<1>7. venue \in VenueSet
  BY DEF OrdersInv, FullOK, CoreOK, VenueOK
<1>8. W \in VenueSet /\ \A d \in Writes : W[d] = venue[d] \/ CancelledFrom(venue[d], W[d])
  BY <1>5, <1>7, FlattensIs
<1>9. FullOK(plan, next, step, intents, W, execs, seen, settled, D, phase)
  BY <1>6, <1>8, CancelsIs
<1>12. QuietOK("flat", venue')
  BY <1>4, <1>5, <1>7, FlattensIs DEF QuietOK
<1>10. CASE net = 0
  <2>1. PICK pf : pf = "flat"
    OBVIOUS
  <2>2. FullOK(plan, next, step, intents, W, execs, seen, settled, D, pf)
    BY <1>5, <1>9, <2>1, PhaseMoves
  <2> QED
    BY <1>4, <1>5, <1>10, <1>12, <2>1, <2>2
<1>11. CASE net # 0
  <2>1. PICK size, buy : size = Abs(net) /\ buy = (net < 0)
    OBVIOUS
  <2>2. net \in Int
    BY <1>1, WorldIs
  <2>3. size \in SizeSet /\ buy \in Sides
    BY <1>11, <2>1, <2>2 DEF SizeSet, Sides, Abs
  <2>4. e = Execution(Closing, buy, size) /\ Closing \in OrderIds
    BY <1>3, <2>1, WritesAre
  <2>5. /\ e \in FillSet /\ e.order = Closing /\ e.size = size /\ Later(execs, e)
        /\ e.buy = buy /\ Priced(e)
    BY <2>3, <2>4, ExecutionIs
  <2>6. FullOK(plan, next, step, intents, W, execs, seen, settled, D, "idle")
    BY <1>5, <1>9
  <2>7. F = Append(execs, e) /\ a = WithClosing(settled, size)
    BY <1>5, <1>11, <2>1 DEF WithClosing
  <2>9. Sign(e.buy) * e.size = 0 - Total(SignedIn(execs), DOMAIN execs)
    <3>1. net = Total(SignedIn(execs), DOMAIN execs)
      BY <1>1 DEF Position, SignedIn
    <3>2. Sign(buy) * size = 0 - net
      <4>1. CASE net < 0
        <5>1. Sign(buy) = 1 /\ size = 0 - net
          BY <2>1, <4>1 DEF Sign, Abs
        <5> QED
          BY <2>2, <5>1
      <4>2. CASE ~(net < 0)
        <5>1. Sign(buy) = 0 - 1 /\ size = net
          BY <2>1, <4>2 DEF Sign, Abs
        <5> QED
          BY <2>2, <5>1
      <4> QED
        BY <4>1, <4>2
    <3> QED
      BY <2>5, <3>1, <3>2
  <2>8. FullOK(plan, next, step, intents, W, F, seen, a, D, "flat")
    BY <2>3, <2>5, <2>6, <2>7, <2>9, ClosingExecutes
  <2> QED
    BY <1>4, <1>5, <1>12, <2>8
<1> QED
  BY <1>10, <1>11

-----------------------------------------------------------------------------
(* At the start nothing has happened.                                                         *)
LEMMA EmptyBookIs ==
  EmptyBook \in BookSet
<1>1. NoAccount \in AccountSet
  BY DEF NoAccount, AccountSet, NoPayoff, PayoffSet
<1>2. NoOrder \in OrderSet
  BY Accounts DEF NoOrder, OrderSet, Unconfirmed
<1>3. EmptyTable \in TableSet
  BY <1>1, <1>2 DEF EmptyTable, TableSet
<1>4. NoMark \in MarkSet /\ Never \in Int
  BY DEF NoMark, MarkSet, Never
<1>5. [h \in Returns |-> <<>>] \in [Returns -> Seq(EntrySet)]
  OBVIOUS
<1>6. [h \in Returns |-> NoMark] \in [Returns -> MarkSet]
  BY <1>4
<1>7. PICK t, g, m : t = EmptyTable /\ g = [h \in Returns |-> <<>>] /\ m = [h \in Returns |-> NoMark]
  OBVIOUS
<1>8. EmptyBook = [table |-> t, pending |-> {}, unresolved |-> {}, deferred |-> <<>>, history |-> g,
                   filled |-> <<>>, refused |-> {}, latest |-> Never, tainted |-> 0, reordered |-> {}, marks |-> m]
  BY <1>7 DEF EmptyBook
<1> QED
  BY <1>3, <1>4, <1>5, <1>6, <1>7, <1>8 DEF BookSet

(* An empty book holds no money. *)
LEMMA MoneyStarts ==
  ASSUME NEW E, DOMAIN E = {}, NEW b \in BookSet, b.filled = <<>>, b.table.lots = <<>>,
         \A h \in Returns : b.table.accounts[h] = NoAccount, NoAccount.realized = 0
  PROVE  MoneyOK(E, b)
<1>1. AppliedIn(E, b) = {} /\ Cardinality({}) = 0 /\ Len(b.filled) = 0 /\ DOMAIN b.filled = {}
      /\ DOMAIN b.table.lots = {}
  BY FS_EmptySet DEF AppliedIn
<1>2. Net(b.table.lots) = 0 /\ Cost(b.table.lots) = 0 /\ Spent(b.filled) = 0 /\ Total(SignedIn(E), {}) = 0
  BY <1>1, TotalNone DEF Net, Cost, Spent
<1>3. b.table.accounts \in [Returns -> AccountSet]
  BY DEF BookSet, TableSet
<1>4. \A h \in Returns : RealizedIn(b.table.accounts)[h] = 0
  BY DEF RealizedIn
<1>5. Realized(b.table.accounts) = 0
  <2>1. PICK f : f = RealizedIn(b.table.accounts)
    OBVIOUS
  <2>2. Total(f, Returns) = 0
    BY <1>4, <2>1, FewReturns, TotalIs, SumZero
  <2> QED
    BY <2>1, <2>2 DEF Realized
<1> QED
  BY <1>1, <1>2, <1>5 DEF MoneyOK, FeesOK, EndsFlat, OneSided, Held

(* The initial state is as the invariant says. *)
LEMMA StartsFull ==
  ASSUME NEW P, NEW I, I = [c \in Writes |-> NoIntent], NEW V, V = [c \in Writes |-> NotPlaced],
         NEW C, C = [h \in Returns |-> 0]
  PROVE  FullOK(P, 1, 0, I, V, <<>>, {}, EmptyBook, C, "idle")
<1>1. PICK b, E, S : b = EmptyBook /\ E = <<>> /\ S = {}
  OBVIOUS
<1>2. /\ b \in BookSet /\ b.pending = {} /\ b.unresolved = {} /\ b.deferred = <<>> /\ b.filled = <<>>
      /\ b.table = EmptyTable
  <2>1. EmptyBook \in BookSet
    BY EmptyBookIs
  <2>2. EmptyBook.pending = {} /\ EmptyBook.unresolved = {} /\ EmptyBook.deferred = <<>> /\ EmptyBook.filled = <<>>
        /\ EmptyBook.table = EmptyTable
    BY DEF EmptyBook
  <2> QED
    BY <1>1, <2>1, <2>2
<1>3. /\ b.table.lots = <<>>
      /\ \A h \in Returns : b.table.accounts[h] = NoAccount
      /\ \A c \in OrderIds : b.table.orders[c] = NoOrder
  BY <1>2 DEF EmptyTable
<1>4. DOMAIN E = {} /\ E \in Seq(FillSet)
  BY <1>1
<1>5. \A c : OrderIn(E, c) = {}
  BY <1>4 DEF OrderIn
<1>6. \A g : ~IsIn(g, E)
  BY <1>1, InNone
<1>7. \A f : Total(f, {}) = 0
  BY TotalNone
<1>8. /\ NoOrder.owner = Nobody /\ NoOrder.executed = 0 /\ NoOrder.confirmed = Unconfirmed
  BY DEF NoOrder
<1>9. /\ NoAccount.state = "none" /\ ~NoAccount.finished /\ ~NoAccount.payoff.fixed
      /\ NoAccount.late = 0 /\ NoAccount.realized = 0
  BY DEF NoAccount, NoPayoff
<1>10. \A c \in Writes : I[c].status = "none" /\ ~I[c].gaveUp /\ V[c].state = "none" /\ V[c].left = 0 /\ V[c].done = 0
  BY DEF NoIntent, NotPlaced
<1>11. VenueOK(V, E)
  <2>1. NotPlaced \in VenueRec
    BY DEF NotPlaced, VenueRec
  <2>2. V \in VenueSet
    BY <2>1 DEF VenueSet, VenueRec
  <2>3. \A c : Total(SizesIn(E), OrderIn(E, c)) = 0
    BY <1>5, <1>7
  <2> QED
    BY <1>4, <1>10, <2>2, <2>3 DEF VenueOK
<1>12. FiledOK(P, 1, 0, I, V)
  <2>1. I \in IntentSet
    <3>1. NoIntent \in [status : Statuses, polls : Nat, gaveUp : BOOLEAN]
      BY DEF NoIntent, Statuses
    <3> QED
      BY <3>1 DEF IntentSet
  <2>2. ASSUME NEW c \in Writes PROVE IntentOK(P, 1, 0, I, V, c)
    BY <1>10 DEF IntentOK, PlacedIn
  <2> QED
    BY <2>1, <2>2 DEF FiledOK
<1>13. BookOK(E, S, b)
  <2>1. Owners(b.table.lots) = {}
    BY <1>1, <1>3, <1>4 DEF Owners
  <2>2. ASSUME NEW c \in OrderIds
        PROVE  b.table.orders[c].executed = Total(SizesIn(E), OrderIn(E, c) \cap AppliedIn(E, b))
    <3>1. OrderIn(E, c) \cap AppliedIn(E, b) = {}
      BY <1>5
    <3> QED
      BY <1>3, <1>7, <1>8, <3>1
  <2>3. \A g : ~IsIn(g, b.filled)
    BY <1>1, <1>2, <1>6
  <2>4. MoneyOK(E, b)
    BY <1>1, <1>2, <1>3, <1>4, <1>9, MoneyStarts
  <2> QED
    BY <1>2, <1>3, <1>8, <2>1, <2>2, <2>3, <2>4 DEF BookOK
<1>14. HoldOK(I, b)
  BY <1>2, <1>10 DEF HoldOK, Hung, GivenUp
<1>15. BoundOK(P, I, V, E, b, "idle")
  <2>1. ASSUME NEW c \in Writes PROVE OrderOK(P, I, V, b, c)
    <3>1. b.table.orders[c] = NoOrder
      BY <1>3, WritesAre
    <3> QED
      BY <1>8, <1>10, <3>1 DEF OrderOK, NamedIn, PlacedIn
  <2>2. ClosingOK(E, b, "idle")
    BY <1>3, <1>5, <1>8, WritesAre DEF ClosingOK
  <2> QED
    BY <2>1, <2>2 DEF BoundOK
<1>16. PaidOK(1, 0, I, V, b, C, "idle")
  <2> SUFFICES ASSUME NEW h \in Returns PROVE AccountOK(1, 0, I, V, C, "idle", b.table.accounts[h], h)
    BY DEF PaidOK
  <2>1. b.table.accounts[h] = NoAccount /\ C[h] = 0
    BY <1>3
  <2>2. ~Begun(1, 0, h)
    BY Accounts, LotsAssumption DEF Begun
  <2> QED
    BY <1>9, <2>1, <2>2 DEF AccountOK
<1>17. OverOK(E, b)
  BY <1>3, <1>9 DEF OverOK
<1>18. CoreOK(P, 1, 0, I, V, E, S, b, C, "idle")
  BY <1>1, <1>11, <1>12, <1>13, <1>14, <1>15, <1>16, <1>17 DEF CoreOK
<1>19. KeptOK(E, S, b) /\ FoundOK(E, S, I, b)
  <2>1. DOMAIN b.deferred = {}
    BY <1>2
  <2> QED
    BY <1>1, <2>1 DEF KeptOK, FoundOK, Distinct
<1> QED
  BY <1>1, <1>2, <1>18, <1>19 DEF FullOK

(* The invariant holds at the start. *)
LEMMA OrdersInit ==
  ASSUME Init
  PROVE  OrdersInv
<1>1. MaxTime \in Nat
  BY OrdersAssumption
<1>2. FullOK(plan, 1, 0, intents, venue, <<>>, {}, EmptyBook, claims, "idle")
  BY StartsFull DEF Init
<1>3. FullOK(plan, next, step, intents, venue, execs, seen, book, claims, phase)
  BY <1>2 DEF Init
<1> QED
  BY <1>1, <1>3 DEF Init, OrdersInv, Routed, QuietOK

(* Once the position is closed out, nothing rests at the venue. *)
LEMMA QuietStays ==
  ASSUME OrdersInv, [Next]_vars
  PROVE  QuietOK(phase', venue')
<1>1. QuietOK(phase, venue)
  BY DEF OrdersInv
<1>2. CASE UNCHANGED vars
  BY <1>1, <1>2 DEF vars, world
<1>3. CASE Execute
  BY <1>1, <1>3 DEF Execute, QuietOK
<1>4. CASE Place \/ Cancel
  BY <1>4 DEF Place, Cancel, OrdersInv, QuietOK
<1>5. CASE Route \/ ReleaseSettled \/ ReadWindDown
  BY <1>1, <1>5 DEF Route, ReleaseSettled, ReadWindDown, world
<1>6. CASE EndRouting \/ Tick \/ ConfirmTerminal \/ Poll \/ Settle
  BY <1>6 DEF EndRouting, Tick, ConfirmTerminal, Poll, Settle, QuietOK
<1>7. CASE Reconcile
  BY <1>7 DEF Reconcile, QuietOK
<1>8. CASE Kill
  BY <1>8, KillStays DEF Kill
<1>9. CASE SettleWindDown
  BY <1>1, <1>9 DEF SettleWindDown, QuietOK, world
<1> QED
  BY <1>2, <1>3, <1>4, <1>5, <1>6, <1>7, <1>8, <1>9 DEF Next

(* Every step keeps the invariant. *)
LEMMA OrdersStay ==
  ASSUME OrdersInv, [Next]_vars
  PROVE  OrdersInv'
<1>1. PICK P, nx, st, t, ph, I, V, E, S, b, C :
        /\ P = plan' /\ nx = next' /\ st = step' /\ t = now' /\ ph = phase' /\ I = intents' /\ V = venue'
        /\ E = execs' /\ S = seen' /\ b = book' /\ C = claims'
  OBVIOUS
<1>2. SUFFICES /\ P \in Plans /\ t \in 0 .. MaxTime
               /\ ph \in {"idle", "reconcile", "poll", "settle", "flat", "dead"}
               /\ st > 0 => nx \in DOMAIN P /\ ph = "idle"
               /\ FullOK(P, nx, st, I, V, E, S, b, C, ph)
  BY <1>1, QuietStays DEF OrdersInv, Routed
<1>3. /\ plan \in Plans /\ now \in 0 .. MaxTime
      /\ phase \in {"idle", "reconcile", "poll", "settle", "flat", "dead"}
      /\ step > 0 => next \in DOMAIN plan /\ phase = "idle"
      /\ FullOK(plan, next, step, intents, venue, execs, seen, book, claims, phase)
  BY DEF OrdersInv, Routed
<1>4. CASE UNCHANGED vars
  BY <1>1, <1>3, <1>4 DEF vars, world, cursor
<1>5. CASE Execute
  BY <1>1, <1>3, <1>5, ExecuteStays DEF Execute, cursor
<1>6. CASE Route
  BY <1>1, <1>3, <1>6, RouteStays DEF Route, world, cursor
<1>7. CASE Place
  <2>1. phase = "idle" /\ next \in DOMAIN plan
    BY <1>3, <1>7 DEF Place, Routed
  <2> QED
    BY <1>1, <1>3, <1>7, <2>1, PlaceStays DEF Place, cursor
<1>8. CASE Cancel
  <2>1. phase = "idle" /\ next \in DOMAIN plan
    BY <1>3, <1>8 DEF Cancel, Routed
  <2> QED
    BY <1>1, <1>3, <1>8, <2>1, CancelStays DEF Cancel, cursor
<1>9. CASE EndRouting
  BY <1>1, <1>3, <1>9, EndRoutingStays DEF EndRouting, world, cursor
<1>10. CASE Tick
  <2>1. step = 0 \/ ~(step > 0)
    BY <1>10 DEF Tick, Routed
  <2>2. MaxTime \in Nat
    BY OrdersAssumption
  <2>3. t \in 0 .. MaxTime
    BY <1>1, <1>3, <1>10, <2>2 DEF Tick
  <2>4. ~(st > 0)
    BY <1>1, <1>10 DEF Tick, Routed
  <2> QED
    BY <1>1, <1>3, <1>10, <2>3, <2>4, TickStays DEF Tick, world, cursor
<1>11. CASE Reconcile
  <2>1. ~(step > 0)
    BY <1>3, <1>11 DEF Reconcile
  <2> QED
    BY <1>1, <1>3, <1>11, <2>1, ReconcileStays DEF Reconcile, world, cursor
<1>12. CASE ConfirmTerminal
  <2>1. ~(step > 0)
    BY <1>3, <1>12 DEF ConfirmTerminal
  <2> QED
    BY <1>1, <1>3, <1>12, <2>1, ConfirmStays DEF ConfirmTerminal, world, cursor
<1>13. CASE Poll
  <2>1. ~(step > 0)
    BY <1>3, <1>13 DEF Poll
  <2> QED
    BY <1>1, <1>3, <1>13, <2>1, PollStays DEF Poll, world
<1>14. CASE Settle
  <2>1. ~(step > 0)
    BY <1>3, <1>14 DEF Settle
  <2> QED
    BY <1>1, <1>3, <1>14, <2>1, SettleStays DEF Settle, world, cursor
<1>15. CASE ReleaseSettled
  BY <1>1, <1>3, <1>15, ReleaseStays DEF ReleaseSettled, world, cursor
<1>16. CASE Kill
  <2>1. ~(step > 0)
    BY <1>16 DEF Kill, Routed
  <2> QED
    BY <1>1, <1>3, <1>16, <2>1, KillStays DEF Kill, cursor
<1>17. CASE ReadWindDown
  <2>1. ~(step > 0)
    BY <1>3, <1>17 DEF ReadWindDown
  <2> QED
    BY <1>1, <1>3, <1>17, <2>1, ReadWindDownStays DEF ReadWindDown, world
<1>18. CASE SettleWindDown
  <2>1. ~(step > 0)
    BY <1>3, <1>18 DEF SettleWindDown
  <2> QED
    BY <1>1, <1>3, <1>18, <2>1, SettleWindDownStays DEF SettleWindDown, world, cursor
<1> QED
  BY <1>4, <1>5, <1>6, <1>7, <1>8, <1>9, <1>10, <1>11, <1>12, <1>13, <1>14, <1>15, <1>16, <1>17, <1>18 DEF Next

-----------------------------------------------------------------------------

(* The invariant holds of every reachable state. *)
LEMMA OrdersAlways ==
  Spec => []OrdersInv
<1>1. Init => OrdersInv
  BY OrdersInit
<1>2. OrdersInv /\ [Next]_vars => OrdersInv'
  BY OrdersStay
<1> QED
  BY <1>1, <1>2, PTL DEF Spec

(* No execution the fill cursor returned is lost unannounced: it is applied, held back while an
   answer is unknown, or refused because its order was given up, and then no part of the order
   is in the book and its return's outcome is fixed only as censored
   (ReturnConsequences.observe, `_lift`, `_release`, `resolve`; FillCursor.poll). *)
THEOREM OrdersLoseNothingSilently ==
  Spec => []NothingLostSilently
<1>1. OrdersInv => NothingLostSilently
  <2> SUFFICES ASSUME OrdersInv, NEW i \in seen
               PROVE  \/ IsIn(execs[i], book.filled)
                      \/ IsIn(execs[i], book.deferred) /\ book.pending # {}
                      \/ execs[i] \in book.refused /\ Abandoned(execs[i].order)
    BY DEF NothingLostSilently
  <2>1. FoundOK(execs, seen, intents, book) /\ (book.pending = {} => book.deferred = <<>>)
    BY DEF OrdersInv, FullOK
  <2>2. \/ IsIn(execs[i], book.filled) \/ IsIn(execs[i], book.deferred)
        \/ (execs[i] \in book.refused /\ execs[i].order \in GivenUp(intents))
    BY <2>1 DEF FoundOK
  <2>3. IsIn(execs[i], book.deferred) => book.pending # {}
    BY <2>1, InNone
  <2>4. ASSUME NEW c \in GivenUp(intents) PROVE Abandoned(c)
    <3>1. c \in Writes /\ c[1] \in Returns /\ intents[c].gaveUp
      BY WritesAre DEF GivenUp
    <3>2. /\ IntentOK(plan, next, step, intents, venue, c) /\ OrderOK(plan, intents, venue, book, c)
          /\ AccountOK(next, step, intents, venue, claims, phase, book.table.accounts[c[1]], c[1])
      BY <3>1 DEF OrdersInv, FullOK, CoreOK, FiledOK, BoundOK, PaidOK
    <3>3. book.table.orders[c].owner = Nobody
      BY <3>1, <3>2 DEF IntentOK, OrderOK
    <3>4. book.table.accounts[c[1]].payoff.fixed => book.table.accounts[c[1]].payoff.censored
      BY <3>1, <3>2 DEF AccountOK
    <3> QED
      BY <3>1, <3>3, <3>4 DEF Abandoned
  <2> QED
    BY <2>2, <2>3, <2>4
<1> QED
  BY <1>1, OrdersAlways, PTL

(* A released return is over: every execution of its orders, also one not yet read, is in the
   book (LotTable.closed, ReturnConsequences.releasable). *)
THEOREM ReleasedAreOver ==
  Spec => []ReleasedIsOver
<1>1. OrdersInv => ReleasedIsOver
  BY DEF OrdersInv, FullOK, CoreOK, OverOK, ReleasedIsOver
<1> QED
  BY <1>1, OrdersAlways, PTL

(* A return's owner is booked what the return realised exactly once, by the time it leaves the
   book or the world is dead (`_credit_consequence`, `_settle_late`,
   `_settle_realized_at_termination`). *)
THEOREM OwnersPaidOnce ==
  Spec => []PaidOnce
<1>1. OrdersInv => PaidOnce
  <2> SUFFICES ASSUME OrdersInv, NEW h \in Returns,
                      phase = "dead" \/ book.table.accounts[h].state = "released"
               PROVE  claims[h] = Floor(book.table.accounts[h].realized)
    BY DEF PaidOnce
  <2>1. AccountOK(next, step, intents, venue, claims, phase, book.table.accounts[h], h)
    BY DEF OrdersInv, FullOK, CoreOK, PaidOK
  <2> QED
    BY <2>1 DEF AccountOK
<1> QED
  BY <1>1, OrdersAlways, PTL

-----------------------------------------------------------------------------
(* The counters of the world stay within their bounds, and no unasked  *)
(* intent was polled; what the cursor withholds is not yet returned.   *)
PollsOK(I) == \A c \in Writes : /\ I[c].polls <= MaxPolls
                                /\ I[c].status = "none" => I[c].polls = 0
ShapeOK ==
    /\ next \in 1 .. Len(plan) + 1 /\ reads \in 0 .. Rounds
    /\ PollsOK(intents)
    /\ waiting \subseteq DOMAIN execs \ seen

(* A certain answer polls no more.                                     *)
LEMMA CertainPolls ==
  ASSUME intents \in IntentSet, PollsOK(intents), NEW c \in Writes, NEW s, Certain(c, s),
         s # "none" \/ intents[c].polls = 0
  PROVE  PollsOK(intents')
<1>1. PICK r, x : r = intents[c] /\ x = [r EXCEPT !.status = s]
  OBVIOUS
<1>2. r \in [status : Statuses, polls : Nat, gaveUp : BOOLEAN]
  BY <1>1 DEF IntentSet
<1>3. x.status = s /\ x.polls = r.polls
  BY <1>1, <1>2
<1>4. intents' = [intents EXCEPT ![c] = x]
  BY <1>1 DEF Certain
<1>5. intents'[c] = x /\ \A d \in Writes : d # c => intents'[d] = intents[d]
  BY <1>4 DEF IntentSet
<1> QED
  BY <1>1, <1>3, <1>5 DEF PollsOK

(* An unheard poll is counted.                                         *)
LEMMA UnansweredPolls ==
  ASSUME intents \in IntentSet, PollsOK(intents), NEW c \in Writes, NEW k \in Nat, Unanswered(c, k),
         intents[c].polls + k <= MaxPolls
  PROVE  PollsOK(intents')
<1>1. PICK r, x : r = intents[c] /\ x = [r EXCEPT !.status = "uncertain", !.polls = @ + k]
  OBVIOUS
<1>2. r \in [status : Statuses, polls : Nat, gaveUp : BOOLEAN]
  BY <1>1 DEF IntentSet
<1>3. x.status = "uncertain" /\ x.polls = r.polls + k
  BY <1>1, <1>2
<1>4. intents' = [intents EXCEPT ![c] = x]
  BY <1>1 DEF Unanswered
<1>5. intents'[c] = x /\ \A d \in Writes : d # c => intents'[d] = intents[d]
  BY <1>4 DEF IntentSet
<1> QED
  BY <1>1, <1>3, <1>5 DEF PollsOK

(* The intents after each step that touches them.                      *)
LEMMA PollsStay ==
  ASSUME OrdersInv, PollsOK(intents), [Next]_vars
  PROVE  PollsOK(intents')
<1>1. intents \in IntentSet /\ MaxPolls \in Nat \ {0, 1}
  BY OrdersAssumption DEF OrdersInv, FullOK, CoreOK, FiledOK
<1>2. CASE UNCHANGED intents
  BY <1>2
<1>3. CASE Place \/ Cancel
  <2>1. PICK c : c = <<next, step>>
    OBVIOUS
  <2>2. Routed /\ step \in DOMAIN plan[next]
    BY <1>3 DEF Place, Cancel
  <2>3. c \in Writes /\ intents[c].status = "none"
    BY <2>1, <2>2, WriteIs
  <2>4. intents[c].polls = 0 /\ intents[c].polls + 2 <= MaxPolls
    BY <1>1, <2>3 DEF PollsOK
  <2>5. UNCHANGED intents \/ Unanswered(c, 2) \/ \E s : Certain(c, s)
    <3>1. CASE Place
      <4>1. \/ Certain(c, venue'[c].state) \/ Unanswered(c, 2)
            \/ Certain(c, "rejected")
        BY <2>1, <3>1 DEF Place
      <4> QED
        BY <4>1
    <3>2. CASE Cancel
      <4>1. Cancels(c) \/ Unanswered(c, 2) \/ UNCHANGED intents
        BY <2>1, <3>2 DEF Cancel
      <4>2. Cancels(c) => \/ Unanswered(c, 2)
                          \/ Certain(c, IF venue[Write(c).target].state = "resting" THEN "cancelled" ELSE "rejected")
        BY DEF Cancels
      <4> QED
        BY <4>1, <4>2
    <3> QED
      BY <1>3, <3>1, <3>2
  <2> QED
    BY <1>1, <2>3, <2>4, <2>5, CertainPolls, UnansweredPolls
<1>4. CASE Reconcile
  <2>1. PICK c \in Due : IF intents[c].polls >= MaxPolls THEN GiveUp(c)
                         ELSE \/ Lookup(c) # "none" /\ Certain(c, Lookup(c))
                              \/ Unanswered(c, 1)
    BY <1>4 DEF Reconcile
  <2>2. c \in Writes /\ intents[c].polls \in Nat
    BY <1>1 DEF Due, IntentSet
  <2>3. CASE GiveUp(c)
    <3>1. PICK J : J = intents'
      OBVIOUS
    <3>2. J = WithGivenUp(intents, c)
      BY <2>3, <3>1 DEF GiveUp, WithGivenUp
    <3>3. \A d \in Writes : J[d].polls = intents[d].polls /\ J[d].status = intents[d].status
      BY <1>1, <2>2, <3>2 DEF WithGivenUp, IntentSet
    <3> QED
      BY <3>1, <3>3 DEF PollsOK
  <2>4. CASE ~(intents[c].polls >= MaxPolls) /\ Unanswered(c, 1)
    <3>1. intents[c].polls + 1 <= MaxPolls
      BY <1>1, <2>2, <2>4
    <3> QED
      BY <1>1, <2>2, <2>4, <3>1, UnansweredPolls
  <2>5. CASE Lookup(c) # "none" /\ Certain(c, Lookup(c))
    BY <1>1, <2>2, <2>5, CertainPolls
  <2> QED
    BY <2>1, <2>3, <2>4, <2>5
<1> QED
  BY <1>2, <1>3, <1>4 DEF Next, vars, Execute, Route, EndRouting, Tick, ConfirmTerminal, Poll, Settle,
     ReleaseSettled, Kill, ReadWindDown, SettleWindDown

(* The executions stay where they are.                                 *)
LEMMA ExecsStay ==
  ASSUME OrdersInv, [Next]_vars
  PROVE  DOMAIN execs \subseteq DOMAIN execs'
<1>1. execs \in Seq(FillSet)
  BY DEF OrdersInv, FullOK, CoreOK, VenueOK
<1>2. ASSUME NEW c \in OrderIds, NEW buy \in Sides, NEW size \in SizeSet
      PROVE  DOMAIN execs \subseteq DOMAIN Append(execs, Execution(c, buy, size))
  <2>1. PICK e : e = Execution(c, buy, size)
    OBVIOUS
  <2>2. e \in FillSet
    BY <2>1, ExecutionIs
  <2> QED
    BY <1>1, <2>1, <2>2, AppendIs
<1>3. CASE UNCHANGED execs
  BY <1>3
<1>4. CASE Execute
  <2>1. PICK c \in Writes : \E size \in 1 .. venue[c].left : execs' = Append(execs, Execution(c, venue[c].buy, size))
    BY <1>4 DEF Execute
  <2>2. PICK size \in 1 .. venue[c].left : execs' = Append(execs, Execution(c, venue[c].buy, size))
    BY <2>1
  <2>3. venue[c] \in VenueRec /\ venue[c].left \in Nat
    BY VenueTypes DEF OrdersInv, FullOK, CoreOK, VenueOK
  <2>4. c \in OrderIds /\ venue[c].buy \in Sides /\ size \in SizeSet
    BY <2>3, WritesAre DEF Sides, SizeSet, VenueRec
  <2> QED
    BY <1>2, <2>2, <2>4
<1>5. CASE Place
  <2>1. PICK c : c = <<next, step>>
    OBVIOUS
  <2>2. Routed /\ step \in DOMAIN plan[next] /\ plan[next][step].op = "place"
    BY <1>5 DEF Place
  <2>3. c \in Writes /\ Write(c) \in Requests /\ Write(c).op = "place"
    BY <2>1, <2>2, WriteIs
  <2>4. Write(c).buy \in Sides /\ Write(c).size \in Nat
    BY <2>3 DEF Requests, Sides
  <2>5. UNCHANGED execs \/ \E size \in 0 .. Write(c).size :
           execs' = IF size = 0 THEN execs ELSE Append(execs, Execution(c, Write(c).buy, size))
    BY <1>5, <2>1 DEF Place, world
  <2>6. ASSUME NEW size \in 0 .. Write(c).size,
               execs' = IF size = 0 THEN execs ELSE Append(execs, Execution(c, Write(c).buy, size))
        PROVE  DOMAIN execs \subseteq DOMAIN execs'
    <3>1. CASE size = 0
      BY <2>6, <3>1
    <3>2. CASE size # 0
      <4>1. size \in SizeSet /\ c \in OrderIds
        BY <2>3, <2>4, <3>2, WritesAre DEF SizeSet
      <4> QED
        BY <1>2, <2>4, <2>6, <3>2, <4>1
    <3> QED
      BY <3>1, <3>2
  <2> QED
    BY <2>5, <2>6
<1>6. CASE Kill
  <2>1. PICK net : net = Position(DOMAIN execs)
    OBVIOUS
  <2>2. execs' = IF net = 0 THEN execs ELSE Append(execs, Execution(Closing, net < 0, Abs(net)))
    BY <1>6, <2>1 DEF Kill
  <2>3. net \in Int
    BY <2>1, WorldIs
  <2>4. net # 0 => Abs(net) \in SizeSet /\ (net < 0) \in Sides
    BY <2>3 DEF Abs, SizeSet, Sides
  <2> QED
    BY <1>2, <2>2, <2>4, WritesAre
<1>7. CASE Cancel
  BY <1>3, <1>7 DEF Cancel, Cancels, world
<1> QED
  BY <1>3, <1>4, <1>5, <1>6, <1>7 DEF Next, vars, world, Route, EndRouting, Tick, Reconcile, ConfirmTerminal, Poll,
     Settle, ReleaseSettled, ReadWindDown, SettleWindDown

(* A read withholds what it does not return.                           *)
LEMMA WithholdsIs ==
  ASSUME waiting \subseteq DOMAIN execs \ seen, NEW returned \in SUBSET (DOMAIN execs \ seen), Read(returned)
  PROVE  waiting' \subseteq DOMAIN execs \ seen'
  BY DEF Read

(* Every step keeps them so.                                           *)
LEMMA ShapeStays ==
  ASSUME OrdersInv, ShapeOK, [Next]_vars
  PROVE  ShapeOK'
<1>1. PollsOK(intents')
  BY PollsStay DEF ShapeOK
<1>2. waiting' \subseteq DOMAIN execs' \ seen'
  <2>1. DOMAIN execs \subseteq DOMAIN execs' /\ waiting \subseteq DOMAIN execs \ seen
    BY ExecsStay DEF ShapeOK
  <2>2. CASE UNCHANGED <<seen, waiting>>
    BY <2>1, <2>2
  <2>3. CASE \E returned \in SUBSET (DOMAIN execs \ seen) : Read(returned)
    BY <2>1, <2>3, WithholdsIs
  <2> QED
    BY <2>2, <2>3 DEF Next, vars, cursor, Execute, Place, Cancel, Route, EndRouting, Tick, Reconcile, ConfirmTerminal,
       Poll, Settle, ReleaseSettled, Kill, ReadWindDown, SettleWindDown
<1>3. next' \in 1 .. Len(plan') + 1
  <2>1. plan' = plan
    BY DEF Next, vars, Execute, Place, Cancel, Route, EndRouting, Tick, Reconcile, ConfirmTerminal,
       Poll, Settle, ReleaseSettled, Kill, ReadWindDown, SettleWindDown
  <2>2. DOMAIN plan = 1 .. Len(plan) /\ Len(plan) \in Nat
    BY OrdersAssumption, FiniteDomain DEF OrdersInv
  <2>3. CASE EndRouting
    <3>1. next \in DOMAIN plan /\ next' = next + 1
      BY <2>3 DEF EndRouting, OrdersInv
    <3> QED
      BY <2>1, <2>2, <3>1
  <2>4. CASE next' = next
    BY <2>1, <2>4 DEF ShapeOK
  <2> QED
    BY <2>3, <2>4 DEF Next, vars, Execute, Place, Cancel, Route, Tick, Reconcile, ConfirmTerminal,
       Poll, Settle, ReleaseSettled, Kill, ReadWindDown, SettleWindDown
<1>4. reads' \in 0 .. Rounds
  <2>1. reads \in 0 .. Rounds /\ Rounds \in Nat
    BY OrdersAssumption DEF ShapeOK
  <2>2. CASE ReadWindDown
    <3>1. reads < Rounds /\ reads' = reads + 1
      BY <2>2 DEF ReadWindDown
    <3> QED
      BY <2>1, <3>1
  <2>3. CASE reads' = reads
    BY <2>1, <2>3
  <2> QED
    BY <2>2, <2>3 DEF Next, vars, Execute, Place, Cancel, Route, EndRouting, Tick, Reconcile, ConfirmTerminal,
       Poll, Settle, ReleaseSettled, Kill, SettleWindDown
<1> QED
  BY <1>1, <1>2, <1>3, <1>4 DEF ShapeOK

(* They are so at the start.                                           *)
LEMMA ShapeStarts ==
  ASSUME Init
  PROVE  ShapeOK
<1>1. Rounds \in Nat /\ MaxPolls \in Nat /\ plan \in Seq(Seq(Requests))
  BY OrdersAssumption DEF Init
<1>2. Len(plan) \in Nat
  BY <1>1, FiniteDomain
<1>3. PollsOK(intents)
  BY <1>1 DEF Init, PollsOK, NoIntent
<1> QED
  BY <1>1, <1>2, <1>3 DEF Init, ShapeOK

(* They are always so.                                                 *)
LEMMA ShapeAlways ==
  Spec => []ShapeOK
<1>1. Init => ShapeOK
  BY ShapeStarts
<1>2. OrdersInv /\ ShapeOK /\ [Next]_vars => ShapeOK'
  BY ShapeStays
<1> QED
  BY <1>1, <1>2, OrdersAlways, PTL DEF Spec

(* The state is well formed.                                           *)
LEMMA WellFormed ==
  ASSUME OrdersInv, ShapeOK
  PROVE  OrdersTypeOK
<1>1. /\ phase \in {"idle", "reconcile", "poll", "settle", "flat", "dead"} /\ now \in 0 .. MaxTime
      /\ intents \in IntentSet /\ seen \subseteq DOMAIN execs /\ book \in BookSet /\ book.pending = Hung(intents)
      /\ OneSided(book.table.lots)
  BY DEF OrdersInv, FullOK, CoreOK, FiledOK, HoldOK, BookOK, MoneyOK
<1>2. intents \in [Writes -> [status : Statuses, polls : 0 .. MaxPolls, gaveUp : BOOLEAN]]
  <2>1. ASSUME NEW c \in Writes PROVE intents[c] \in [status : Statuses, polls : 0 .. MaxPolls, gaveUp : BOOLEAN]
    <3>1. PICK r : r = intents[c]
      OBVIOUS
    <3>2. r \in [status : Statuses, polls : Nat, gaveUp : BOOLEAN]
      BY <1>1, <3>1 DEF IntentSet
    <3>3. r.polls \in 0 .. MaxPolls
      BY <3>1, <3>2, OrdersAssumption DEF ShapeOK, PollsOK
    <3> QED
      BY <3>1, <3>2, <3>3
  <2> QED
    BY <1>1, <2>1 DEF IntentSet
<1>3. book.pending = {c \in Writes : Uncertain(c) /\ ~intents[c].gaveUp}
  BY <1>1 DEF Hung, Uncertain
<1>4. ASSUME NEW i \in DOMAIN book.table.lots, NEW j \in DOMAIN book.table.lots
      PROVE  /\ book.table.lots[i].size > 0 /\ book.table.lots[i].owner \in Returns
             /\ book.table.lots[i].buy = book.table.lots[j].buy
  <2>1. book.table.lots \in Seq(LotSet)
    BY <1>1 DEF BookSet, TableSet
  <2>2. book.table.lots[i] \in LotSet
    BY <2>1, FiniteDomain
  <2>3. book.table.lots[i].size \in Nat \ {0} /\ book.table.lots[i].owner \in Returns
    BY <2>2 DEF LotSet
  <2>4. book.table.lots[i].buy = book.table.lots[j].buy
    BY <1>1 DEF OneSided
  <2> QED
    BY <2>3, <2>4
<1> QED
  BY <1>1, <1>2, <1>3, <1>4 DEF OrdersTypeOK, ShapeOK

(* Every micro-USD of P&L is credited once: whatever the plans, the prices and the fee, what the
   returns realised and what their open lots cost add up to what the applied fills moved, the
   wind-down's fill included when it flattens everything before it (LotTable.fill); and the state
   is well formed. *)
THEOREM OrdersCreditOnce ==
  Spec => []CreditedOnce
<1>1. OrdersInv /\ ShapeOK => CreditedOnce
  <2> SUFFICES ASSUME OrdersInv, ShapeOK, Flattens
               PROVE  Total([h \in Returns |-> book.table.accounts[h].realized], Returns)
                        = Total([i \in DOMAIN book.table.lots |-> Basis(book.table.lots[i])],
                                DOMAIN book.table.lots)
                          - Total([i \in DOMAIN book.filled |-> Paid(book.filled[i])], DOMAIN book.filled)
    BY WellFormed DEF CreditedOnce
  <2>1. MoneyOK(execs, book) /\ book \in BookSet
    BY DEF OrdersInv, FullOK, CoreOK, BookOK
  <2>2. Held(book.table) = 0 - Spent(book.filled)
    BY <2>1 DEF MoneyOK, ClosesLast, Flattens
  <2>3. /\ Realized(book.table.accounts) \in Int /\ Cost(book.table.lots) \in Int /\ Spent(book.filled) \in Int
    <3>1. /\ book.table.accounts \in [Returns -> AccountSet] /\ book.table.lots \in Seq(LotSet)
          /\ book.filled \in Seq(FillSet)
      BY <2>1 DEF BookSet, TableSet
    <3>2. IsFiniteSet(DOMAIN book.filled) /\ \A i \in DOMAIN book.filled : PaysIn(book.filled)[i] \in Int
      BY <3>1, FiniteDomain, TermsAreInt DEF PaysIn
    <3>3. Spent(book.filled) \in Int
      BY <3>2, TotalInt DEF Spent
    <3> QED
      BY <3>1, <3>3, RealizedIs, CountsAre
  <2>4. Realized(book.table.accounts) = Cost(book.table.lots) - Spent(book.filled)
    BY <2>2, <2>3 DEF Held
  <2> QED
    BY <2>4 DEF Realized, RealizedIn, Cost, CostsIn, Spent, PaysIn
<1> QED
  BY <1>1, OrdersAlways, ShapeAlways, PTL
=================================================================================
