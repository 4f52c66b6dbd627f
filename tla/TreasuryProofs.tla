--------------------------- MODULE TreasuryProofs ---------------------------
(***************************************************************************)
(* What holds of the treasury for every tranche, cap, fee and number of    *)
(* transfers, authorizations and windows.                                  *)
(*                                                                         *)
(* The books are the transfer in hand, the strands and the parked actions, *)
(* with the money they hold, against what the outside knows of each: V is  *)
(* a record of that, so that the facts about the operators of a call are   *)
(* stated once and used for the state before, within and after it.         *)
(***************************************************************************)
EXTENDS Treasury, Sums

Legs == {"idle", "sent", "hidden", "shown", "void"}
Kinds == {"none", "to_venice", "exit", "forwarded"}
AuthStates == {"none", "blank", "live", "dead", "settled", "shown"}
Outcomes == {"open", "confirmed", "failed"}

Worlds == [leg : [Ids -> Legs], rows : [Ids -> SUBSET Ids],
           auth : [Auths -> [owner : 0 .. MaxTransfers, is : AuthStates, late : BOOLEAN]],
           outcome : [Ids -> Outcomes], kind : [Ids -> Kinds],
           next : 0 .. MaxTransfers, authorized : 0 .. TotalCap]

Now == [leg |-> leg, rows |-> rows, auth |-> auth, outcome |-> outcome, kind |-> kind,
        next |-> nextId, authorized |-> authorized]

Gone(V, i) == V.leg[i] \in {"hidden", "shown"}
Used(V) == {m \in Auths : V.auth[m].is # "none"}
Owned(V, i) == {m \in Used(V) : V.auth[m].owner = i}
Alive(V, m) == \/ V.auth[m].is = "live"
               \/ V.auth[m].is \in {"settled", "shown"} /\ ~V.auth[m].late
Converts(e) == e.dir = "to_venice"
Named(V, e, i) == V.kind[i] = "to_venice" /\ e.id \in V.rows[i]

(* What is true of every open transfer, in hand, stranded or parked: its      *)
(* principal moved with its first leg, its authorizations are the superseded  *)
(* ones, none of which can still debit in time, and the one it refers to, and *)
(* no other conversion executed while its own nonce window was open.          *)
Sane(e, V) ==
    /\ e \in Transfers /\ e.id <= V.next
    /\ V.outcome[e.id] = "open"
    /\ e.moved <=> e.step = 2
    /\ Converts(e) <=> V.kind[e.id] = "to_venice"
    /\ e.step = 1 => e.ref = [of |-> "venue", n |-> 0]
    /\ e.step = 1 \/ ~Converts(e) => e.auths = 0 /\ e.old = {} /\ e.ref.n = 0
    /\ Converts(e) /\ e.step = 2 =>
          /\ Gone(V, e.id)
          /\ e.ref = NoRef \/ (e.ref.of = "auth" /\ e.ref.n # 0)
    /\ Owned(V, e.id) = e.old \cup ({e.ref.n} \ {0})
    /\ e.auths <= Cardinality(Used(V))
    /\ \A m \in e.old : ~Alive(V, m)
    /\ Converts(e) => \A i \in Ids : Named(V, e, i) => i = e.id
    /\ Converts(e) /\ e.auths = 0 => V.authorized + Tranche <= TotalCap

Stranded(e, V) == Sane(e, V) /\ e.moved /\ e.fee = 0 /\ (e.ref.n # 0 => ~Alive(V, e.ref.n))
Parked(e, V) == Sane(e, V) /\ e.step = 1

Elems(q) == {q[i] : i \in 1 .. Len(q)}
Rest(q, p) == Elems(q) \cup Elems(p)
Distinct(q) == \A i, j \in 1 .. Len(q) : q[i].id = q[j].id => i = j

(* The transfers that left the slot: at most one of them is a conversion.     *)
Shelf(q, p, V) ==
    /\ q \in Seq(Transfers) /\ p \in Seq(Transfers)
    /\ Distinct(q) /\ Distinct(p)
    /\ \A e \in Elems(q), f \in Elems(p) : e.id # f.id
    /\ \A e \in Elems(q) : Stranded(e, V)
    /\ \A e \in Elems(p) : Parked(e, V)
    /\ \A e, f \in Rest(q, p) : Converts(e) /\ Converts(f) => e = f

(* What is true of every transfer ever asked for.                             *)
World(V) ==
    /\ V \in Worlds
    /\ \A i \in Ids : V.rows[i] \subseteq 1 .. V.next
    /\ \A i \in Ids : i > V.next =>
          V.leg[i] = "idle" /\ V.outcome[i] = "open" /\ V.rows[i] = {}
    /\ \A i \in Ids : V.outcome[i] = "failed" => V.leg[i] = "void"
    /\ \A i \in Ids : V.kind[i] = "to_venice" /\ V.outcome[i] = "confirmed" =>
          Gone(V, i) /\ \E m \in Owned(V, i) : V.auth[m].is = "shown"
    /\ \A m \in Used(V) : V.auth[m].owner \in 1 .. V.next /\ Gone(V, V.auth[m].owner)
    /\ \A m, l \in Used(V) :
          V.auth[m].owner = V.auth[l].owner /\ Alive(V, m) /\ Alive(V, l) => m = l

Beside(s, q, p) == \A e \in Rest(q, p) : e.id # s.id /\ ~(Converts(e) /\ Converts(s))
Fees == [e \in Transfers |-> Tranche + e.fee]
Held(q, p) == SumOver(Fees, Rest(q, p))
Names(q, p) == {e.id : e \in Rest(q, p)}
Covered(I, V) == \A i \in 1 .. V.next : V.outcome[i] = "open" => i \in I

(* The books with nothing in hand, and with s in hand.                        *)
Bare(a, q, p, b, V) ==
    /\ a \in Int /\ b \in Int /\ World(V) /\ Shelf(q, p, V)
    /\ a + Held(q, p) = b
    /\ Covered(Names(q, p), V)

Hand(s, a, q, p, b, V) ==
    /\ a \in Int /\ b \in Int /\ World(V) /\ Shelf(q, p, V) /\ Sane(s, V) /\ Beside(s, q, p)
    /\ a + Tranche + s.fee + Held(q, p) = b
    /\ Covered(Names(q, p) \cup {s.id}, V)

(* Between two calls a transfer in the slot was sent, or waits with a         *)
(* reference to prepare for which it was never authorized before.             *)
AtRest(s) == /\ s.step = 1 => ~s.first
             /\ Converts(s) /\ s.ref = NoRef => s.old = {}

Books(s, a, q, p, b, V) ==
    \/ s = Idle /\ Bare(a, q, p, b, V)
    \/ s \in Transfers /\ Hand(s, a, q, p, b, V) /\ AtRest(s)

Bounds ==
    /\ lapsed \subseteq 1 .. nextId /\ window \in 0 .. MaxWindow
    /\ spent \in 0 .. WindowCap /\ forwardSpent \in 0 .. ForwardCap

TreasuryInv == Bounds /\ Books(slot, avail, stranded, parked, book, Now)

-------------------------------------------------------------------------------
(* The shelf.                                                                 *)

LEMMA TransferFields ==
    ASSUME NEW e \in Transfers
    PROVE  /\ e.id \in Ids /\ e.id \in Int /\ e.id >= 1 /\ e.dir \in Direction /\ e.step \in {1, 2}
           /\ e.ref.n \in 0 .. MaxAuths /\ e.first \in BOOLEAN /\ e.moved \in BOOLEAN
           /\ e.forward \in BOOLEAN /\ e.fees \in 0 .. FeeCeil /\ e.stall \in -1 .. Wait
           /\ e.old \subseteq Auths /\ e.auths \in 0 .. MaxAuths /\ e.win \in 0 .. MaxWindow
           /\ e.fee \in 0 .. FeeCeil /\ e.stuck \in BOOLEAN
           /\ e.fee \in Int /\ e.fees \in Int /\ e.fee >= 0 /\ e # Idle
  BY TreasuryAssumption DEF Transfers, Ids, Idle, Direction

LEMMA Fees_ ==
    ASSUME NEW e \in Transfers
    PROVE  Fees[e] = Tranche + e.fee /\ Fees[e] \in Int
  BY TransferFields, TreasuryAssumption DEF Fees

LEMMA ShelfSet ==
    ASSUME NEW q \in Seq(Transfers), NEW p \in Seq(Transfers)
    PROVE  /\ Elems(q) \subseteq Transfers /\ Elems(p) \subseteq Transfers
           /\ Rest(q, p) \subseteq Transfers /\ IsFiniteSet(Rest(q, p))
           /\ \A x \in Rest(q, p) : Fees[x] \in Int
           /\ Held(q, p) \in Int
<1>1. Elems(q) \subseteq Transfers /\ Elems(p) \subseteq Transfers
  BY DEF Elems
<1>2. ASSUME NEW r \in Seq(Transfers) PROVE IsFiniteSet(Elems(r))
  <2>1. Len(r) \in Nat /\ r \in [1 .. Len(r) -> Elems(r)]
    BY DEF Elems
  <2>2. r \in Surjection(1 .. Len(r), Elems(r))
    BY <2>1 DEF Surjection, Elems
  <2> QED
    BY <2>1, <2>2, FS_Interval, FS_Surjection DEF ExistsSurjection
<1>3. IsFiniteSet(Rest(q, p)) /\ Rest(q, p) \subseteq Transfers
  BY <1>1, <1>2, FS_Union DEF Rest
<1>4. \A x \in Rest(q, p) : Fees[x] \in Int
  BY <1>3, Fees_
<1> QED
  BY <1>1, <1>3, <1>4, SumIsInt DEF Held

(* A strand goes to the end of its queue, and the oldest leaves it.           *)
LEMMA ElemsAppend ==
    ASSUME NEW q \in Seq(Transfers), NEW s \in Transfers
    PROVE  Elems(Append(q, s)) = Elems(q) \cup {s} /\ Append(q, s) \in Seq(Transfers)
<1> DEFINE r == Append(q, s)
<1>1. /\ r \in Seq(Transfers) /\ Len(r) = Len(q) + 1 /\ Len(q) \in Nat
      /\ r[Len(q) + 1] = s /\ \A i \in 1 .. Len(q) : r[i] = q[i]
  OBVIOUS
<1> HIDE DEF r
<1>2. Elems(r) \subseteq Elems(q) \cup {s}
  BY <1>1 DEF Elems
<1>3. Elems(q) \cup {s} \subseteq Elems(r)
  BY <1>1 DEF Elems
<1> QED
  BY <1>1, <1>2, <1>3 DEF r

LEMMA ElemsTail ==
    ASSUME NEW q \in Seq(Transfers), q # <<>>, Distinct(q)
    PROVE  /\ Elems(Tail(q)) = Elems(q) \ {Head(q)} /\ Head(q) \in Elems(q)
           /\ Tail(q) \in Seq(Transfers) /\ Distinct(Tail(q))
<1> DEFINE r == Tail(q)
<1>1. /\ r \in Seq(Transfers) /\ Len(r) = Len(q) - 1 /\ Len(q) \in Nat /\ Len(q) >= 1
      /\ Head(q) = q[1] /\ \A i \in 1 .. Len(r) : r[i] = q[i + 1]
  OBVIOUS
<1> HIDE DEF r
<1>2. \A i, j \in 1 .. Len(q) : q[i] = q[j] => i = j
  BY DEF Distinct
<1>3. Elems(r) \subseteq Elems(q) \ {Head(q)}
  BY <1>1, <1>2 DEF Elems
<1>4. \A x \in Elems(q) \ {Head(q)} : x \in Elems(r)
  <2> SUFFICES ASSUME NEW i \in 1 .. Len(q), i # 1 PROVE q[i] \in Elems(r)
    BY <1>1 DEF Elems
  <2>1. i - 1 \in 1 .. Len(r) /\ r[i - 1] = q[i]
    BY <1>1
  <2> QED
    BY <2>1 DEF Elems
<1>5. Distinct(r)
  <2> SUFFICES ASSUME NEW i \in 1 .. Len(r), NEW j \in 1 .. Len(r), r[i].id = r[j].id PROVE i = j
    BY DEF Distinct
  <2>1. i + 1 \in 1 .. Len(q) /\ j + 1 \in 1 .. Len(q) /\ r[i] = q[i + 1] /\ r[j] = q[j + 1]
    BY <1>1
  <2>2. i + 1 = j + 1
    BY <2>1 DEF Distinct
  <2> QED
    BY <1>1, <2>2
<1>6. Head(q) \in Elems(q)
  BY <1>1 DEF Elems
<1> QED
  BY <1>1, <1>3, <1>4, <1>5, <1>6 DEF r

(* Any parked action may be taken out again.                                  *)
Without(p, i) == [j \in 1 .. Len(p) - 1 |-> p[IF j < i THEN j ELSE j + 1]]

LEMMA ElemsWithout ==
    ASSUME NEW p \in Seq(Transfers), NEW i \in 1 .. Len(p), Distinct(p)
    PROVE  /\ Elems(Without(p, i)) = Elems(p) \ {p[i]}
           /\ Without(p, i) \in Seq(Transfers) /\ Distinct(Without(p, i))
<1> DEFINE r == Without(p, i)
           At(j) == IF j < i THEN j ELSE j + 1
<1>1. Len(p) \in Nat /\ Len(p) - 1 \in Nat
  OBVIOUS
<1>2. \A j \in 1 .. Len(p) - 1 : At(j) \in 1 .. Len(p) /\ At(j) # i
  BY <1>1
<1>3. r = [j \in 1 .. Len(p) - 1 |-> p[At(j)]]
  BY DEF Without
<1>4. r \in [1 .. Len(p) - 1 -> Transfers]
  BY <1>2, <1>3
<1>5. r \in Seq(Transfers) /\ Len(r) = Len(p) - 1
  BY <1>1, <1>4
<1>6. \A j \in 1 .. Len(r) : r[j] = p[At(j)] /\ At(j) \in 1 .. Len(p) /\ At(j) # i
  BY <1>2, <1>3, <1>5
<1> HIDE DEF r
<1>7. \A j, k \in 1 .. Len(p) : p[j] = p[k] => j = k
  BY DEF Distinct
<1>8. Elems(r) \subseteq Elems(p) \ {p[i]}
  <2> SUFFICES ASSUME NEW j \in 1 .. Len(r) PROVE r[j] \in Elems(p) \ {p[i]}
    BY DEF Elems
  <2>1. PICK k \in 1 .. Len(p) : r[j] = p[k] /\ k # i
    BY <1>6
  <2> QED
    BY <1>7, <2>1 DEF Elems
<1>9. \A x \in Elems(p) \ {p[i]} : x \in Elems(r)
  <2> SUFFICES ASSUME NEW k \in 1 .. Len(p), k # i PROVE p[k] \in Elems(r)
    BY DEF Elems
  <2>1. CASE k < i
    <3>1. k \in 1 .. Len(r) /\ At(k) = k
      BY <1>1, <1>5, <2>1
    <3> QED
      BY <1>6, <3>1 DEF Elems
  <2>2. CASE k > i
    <3>1. k - 1 \in 1 .. Len(r) /\ At(k - 1) = k
      BY <1>1, <1>5, <2>2
    <3> QED
      BY <1>6, <3>1 DEF Elems
  <2> QED
    BY <1>1, <2>1, <2>2
<1>10. Distinct(r)
  <2> SUFFICES ASSUME NEW j \in 1 .. Len(r), NEW k \in 1 .. Len(r), r[j].id = r[k].id PROVE j = k
    BY DEF Distinct
  <2>1. At(j) = At(k)
    BY <1>6 DEF Distinct
  <2> QED
    BY <1>5, <1>1, <2>1
<1> QED
  BY <1>5, <1>8, <1>9, <1>10 DEF r

-------------------------------------------------------------------------------
(* What a change of the world leaves true of a transfer it is not about.      *)

Untouched(e, V, W) ==
    /\ W.outcome[e.id] = V.outcome[e.id] /\ W.kind[e.id] = V.kind[e.id] /\ V.next <= W.next
    /\ Gone(V, e.id) => Gone(W, e.id)
    /\ Owned(W, e.id) = Owned(V, e.id) /\ Cardinality(Used(V)) <= Cardinality(Used(W))
    /\ \A m \in Owned(V, e.id) : Alive(W, m) => Alive(V, m)
    /\ Converts(e) => /\ W.authorized = V.authorized
                      /\ \A i \in Ids : Named(W, e, i) => i = e.id \/ Named(V, e, i)

LEMMA WorldFields ==
    ASSUME NEW V \in Worlds
    PROVE  /\ V.leg \in [Ids -> Legs] /\ V.rows \in [Ids -> SUBSET Ids]
           /\ V.auth \in [Auths -> [owner : 0 .. MaxTransfers, is : AuthStates, late : BOOLEAN]]
           /\ V.outcome \in [Ids -> Outcomes] /\ V.kind \in [Ids -> Kinds]
           /\ V.next \in 0 .. MaxTransfers /\ V.next \in Int
           /\ V.authorized \in 0 .. TotalCap /\ V.authorized \in Int
           /\ \A m \in Auths : /\ V.auth[m].owner \in 0 .. MaxTransfers
                               /\ V.auth[m].is \in AuthStates /\ V.auth[m].late \in BOOLEAN
  BY TreasuryAssumption DEF Worlds

LEMMA UsedFinite ==
    ASSUME NEW V
    PROVE  /\ Used(V) \subseteq Auths /\ IsFiniteSet(Used(V)) /\ Cardinality(Used(V)) \in Nat
           /\ Cardinality(Used(V)) <= MaxAuths
<1>1. IsFiniteSet(Auths) /\ Cardinality(Auths) = MaxAuths
  BY FS_Interval, TreasuryAssumption DEF Auths
<1>2. Used(V) \subseteq Auths
  BY DEF Used
<1>3. IsFiniteSet(Used(V)) /\ Cardinality(Used(V)) <= MaxAuths
  BY <1>1, <1>2, FS_Subset
<1> QED
  BY <1>2, <1>3, FS_CardinalityType

LEMMA SaneKept ==
    ASSUME NEW e, NEW V, NEW W, World(V), World(W), Sane(e, V), Untouched(e, V, W)
    PROVE  Sane(e, W)
<1>1. e \in Transfers /\ e.id \in Int /\ V.next \in Int /\ W.next \in Int /\ e.auths \in Int
  BY TransferFields, WorldFields DEF Sane, World
<1>2. Cardinality(Used(V)) \in Int /\ Cardinality(Used(W)) \in Int
  BY UsedFinite
<1>3. e.id <= W.next /\ e.auths <= Cardinality(Used(W))
  BY <1>1, <1>2 DEF Sane, Untouched
<1>4. \A m \in e.old : ~Alive(W, m)
  BY DEF Sane, Untouched
<1>5. Converts(e) => \A i \in Ids : Named(W, e, i) => i = e.id
  BY DEF Sane, Untouched
<1> QED
  BY <1>1, <1>3, <1>4, <1>5 DEF Sane, Untouched

LEMMA ShelfKept ==
    ASSUME NEW q, NEW p, NEW V, NEW W, World(V), World(W), Shelf(q, p, V),
           \A e \in Rest(q, p) : Untouched(e, V, W)
    PROVE  Shelf(q, p, W)
<1>1. ASSUME NEW e \in Elems(q) PROVE Stranded(e, W)
  <2>1. Sane(e, V) /\ Untouched(e, V, W) /\ e \in Transfers
    BY DEF Shelf, Stranded, Rest, Sane
  <2>2. e.ref.n # 0 => e.ref.n \in Owned(V, e.id)
    BY <2>1, TransferFields DEF Sane
  <2>3. e.ref.n # 0 => ~Alive(W, e.ref.n)
    BY <2>1, <2>2 DEF Shelf, Stranded, Untouched
  <2> QED
    BY <2>1, <2>3, SaneKept DEF Shelf, Stranded
<1>2. ASSUME NEW e \in Elems(p) PROVE Parked(e, W)
  BY SaneKept DEF Shelf, Parked, Rest
<1> QED
  BY <1>1, <1>2 DEF Shelf

(* Nothing in hand: the world moves on under the shelf.                       *)
LEMMA BareKept ==
    ASSUME NEW a, NEW q, NEW p, NEW b, NEW V, NEW W, Bare(a, q, p, b, V), World(W),
           \A e \in Rest(q, p) : Untouched(e, V, W),
           W.next = V.next, W.outcome = V.outcome
    PROVE  Bare(a, q, p, b, W)
  BY ShelfKept DEF Bare, Covered

(* The transfer in hand becomes t, and what it held goes where it says.       *)
LEMMA HandMoves ==
    ASSUME NEW s, NEW t, NEW a, NEW c, NEW q, NEW p, NEW b, NEW d, NEW V, NEW W,
           Hand(s, a, q, p, b, V), World(W), Sane(t, W), t.id = s.id, t.dir = s.dir,
           c \in Int, d \in Int, c + t.fee - d = a + s.fee - b,
           \A e \in Rest(q, p) : Untouched(e, V, W),
           W.next = V.next, W.outcome = V.outcome
    PROVE  Hand(t, c, q, p, d, W)
<1>1. Shelf(q, p, W)
  BY ShelfKept DEF Hand
<1>2. s.fee \in Int /\ t.fee \in Int /\ Held(q, p) \in Int /\ Tranche \in Int
      /\ a \in Int /\ b \in Int
  BY TransferFields, ShelfSet, TreasuryAssumption DEF Hand, Sane, Shelf
<1>3. c + Tranche + t.fee + Held(q, p) = d
  <2>1. a + Tranche + s.fee + Held(q, p) = b
    BY DEF Hand
  <2>2. PICK k \in Int : k = Tranche + Held(q, p)
    BY <1>2
  <2>3. a + s.fee + k = b
    BY <1>2, <2>1, <2>2
  <2>4. PICK y, z \in Int : y = a + s.fee /\ z = c + t.fee
    BY <1>2
  <2>5. y + k = b /\ z - d = y - b
    BY <1>2, <2>3, <2>4
  <2>6. z + k = d
    BY <1>2, <2>5
  <2> QED
    BY <1>2, <2>2, <2>4, <2>6
<1>4. Beside(t, q, p)
  BY DEF Hand, Beside, Converts
<1> QED
  BY <1>1, <1>3, <1>4 DEF Hand, Covered

-------------------------------------------------------------------------------
(* Into the hand and out of it.                                               *)

LEMMA RestMoves ==
    ASSUME NEW q \in Seq(Transfers), NEW p \in Seq(Transfers), NEW s \in Transfers
    PROVE  /\ s \notin Rest(q, p) =>
                SumOver(Fees, Rest(q, p) \cup {s}) = Held(q, p) + Tranche + s.fee
           /\ s \in Rest(q, p) =>
                SumOver(Fees, Rest(q, p) \ {s}) = Held(q, p) - Tranche - s.fee
<1> DEFINE R == Rest(q, p)
<1>1. IsFiniteSet(R) /\ \A x \in R : Fees[x] \in Int
  BY ShelfSet
<1>2. Fees[s] = Tranche + s.fee /\ Fees[s] \in Int /\ Held(q, p) \in Int /\ Tranche \in Int
      /\ s.fee \in Int
  BY Fees_, ShelfSet, TransferFields, TreasuryAssumption
<1>3. ASSUME s \notin R PROVE SumOver(Fees, R \cup {s}) = Held(q, p) + Tranche + s.fee
  <2> DEFINE S == R \cup {s}
  <2>1. IsFiniteSet(S) /\ (\A x \in S : Fees[x] \in Int) /\ R \in SUBSET S /\ s \in S
    BY <1>1, <1>2, FS_AddElement
  <2>2. SumOver(Fees, R \cup {s}) = SumOver(Fees, R) + Fees[s]
    BY <1>3, <2>1, SumAdd
  <2> QED
    BY <1>2, <2>2 DEF Held
<1>4. ASSUME s \in R PROVE SumOver(Fees, R \ {s}) = Held(q, p) - Tranche - s.fee
  <2>1. SumOver(Fees, R \ {s}) = SumOver(Fees, R) - Fees[s]
    BY <1>1, <1>4, SumRemove
  <2> QED
    BY <1>2, <2>1 DEF Held
<1> QED
  BY <1>3, <1>4

(* A recoverable strand leaves the slot.                                      *)
LEMMA HandStrands ==
    ASSUME NEW s, NEW a, NEW q, NEW p, NEW b, NEW V, Hand(s, a, q, p, b, V), Stranded(s, V)
    PROVE  Bare(a, Append(q, s), p, b, V)
<1> DEFINE r == Append(q, s)
<1>1. q \in Seq(Transfers) /\ p \in Seq(Transfers) /\ s \in Transfers
  BY DEF Hand, Shelf, Sane
<1>2. /\ Elems(r) = Elems(q) \cup {s} /\ Rest(r, p) = Rest(q, p) \cup {s}
      /\ r \in Seq(Transfers)
  BY <1>1, ElemsAppend DEF Rest
<1>3. s \notin Rest(q, p)
  BY DEF Hand, Beside
<1>4. Distinct(r)
  <2>1. /\ Len(r) = Len(q) + 1 /\ Len(q) \in Nat
        /\ r[Len(q) + 1] = s /\ \A i \in 1 .. Len(q) : r[i] = q[i]
    BY <1>1
  <2>2. \A i \in 1 .. Len(q) : q[i].id # s.id
    BY DEF Hand, Beside, Rest, Elems
  <2> HIDE DEF r
  <2>3. Distinct(q)
    BY DEF Hand, Shelf
  <2> QED
    BY <2>1, <2>2, <2>3 DEF Distinct
<1>5. Shelf(r, p, V)
  <2> HIDE DEF r
  <2>1. \A e \in Elems(p) : e.id # s.id
    BY DEF Hand, Beside, Rest
  <2>2. \A e, f \in Rest(r, p) : Converts(e) /\ Converts(f) => e = f
    BY <1>2 DEF Hand, Beside, Shelf
  <2> QED
    BY <1>1, <1>2, <1>4, <2>1, <2>2 DEF Hand, Shelf
<1>6. Names(r, p) = Names(q, p) \cup {s.id}
  BY <1>2 DEF Names
<1>7. a + Held(r, p) = b
  <2>1. Held(r, p) = Held(q, p) + Tranche + s.fee
    BY <1>1, <1>2, <1>3, RestMoves DEF Held
  <2>2. Held(q, p) \in Int /\ s.fee \in Int /\ Tranche \in Int /\ a \in Int
    BY <1>1, ShelfSet, TransferFields, TreasuryAssumption DEF Hand
  <2> QED
    BY <2>1, <2>2 DEF Hand
<1> QED
  BY <1>5, <1>6, <1>7 DEF Hand, Bare

(* An action whose window passed leaves the slot.                             *)
LEMMA HandParks ==
    ASSUME NEW s, NEW a, NEW q, NEW p, NEW b, NEW V, Hand(s, a, q, p, b, V), s.step = 1
    PROVE  Bare(a, q, Append(p, s), b, V)
<1> DEFINE r == Append(p, s)
<1>1. q \in Seq(Transfers) /\ p \in Seq(Transfers) /\ s \in Transfers
  BY DEF Hand, Shelf, Sane
<1>2. /\ Elems(r) = Elems(p) \cup {s} /\ Rest(q, r) = Rest(q, p) \cup {s}
      /\ r \in Seq(Transfers)
  BY <1>1, ElemsAppend DEF Rest
<1>3. s \notin Rest(q, p)
  BY DEF Hand, Beside
<1>4. Distinct(r)
  <2>1. /\ Len(r) = Len(p) + 1 /\ Len(p) \in Nat
        /\ r[Len(p) + 1] = s /\ \A i \in 1 .. Len(p) : r[i] = p[i]
    BY <1>1
  <2>2. \A i \in 1 .. Len(p) : p[i].id # s.id
    BY DEF Hand, Beside, Rest, Elems
  <2> HIDE DEF r
  <2>3. Distinct(p)
    BY DEF Hand, Shelf
  <2> QED
    BY <2>1, <2>2, <2>3 DEF Distinct
<1>5. Shelf(q, r, V)
  <2> HIDE DEF r
  <2>1. \A e \in Elems(q) : e.id # s.id
    BY DEF Hand, Beside, Rest
  <2>2. \A e, f \in Rest(q, r) : Converts(e) /\ Converts(f) => e = f
    BY <1>2 DEF Hand, Beside, Shelf
  <2>3. Parked(s, V)
    BY DEF Parked, Hand
  <2> QED
    BY <1>1, <1>2, <1>4, <2>1, <2>2, <2>3 DEF Hand, Shelf
<1>6. Names(q, r) = Names(q, p) \cup {s.id}
  BY <1>2 DEF Names
<1>7. a + Held(q, r) = b
  <2>1. Held(q, r) = Held(q, p) + Tranche + s.fee
    BY <1>1, <1>2, <1>3, RestMoves DEF Held
  <2>2. Held(q, p) \in Int /\ s.fee \in Int /\ Tranche \in Int /\ a \in Int
    BY <1>1, ShelfSet, TransferFields, TreasuryAssumption DEF Hand
  <2> QED
    BY <2>1, <2>2 DEF Hand
<1> QED
  BY <1>5, <1>6, <1>7 DEF Hand, Bare

(* A transfer is over: its holds go back to the wallet.                       *)
LEMMA HandCloses ==
    ASSUME NEW s, NEW a, NEW q, NEW p, NEW b, NEW c, NEW d, NEW V, NEW W,
           Hand(s, a, q, p, b, V), World(W), W.next = V.next,
           \A e \in Rest(q, p) : Untouched(e, V, W),
           W.outcome[s.id] # "open", \A i \in Ids : i # s.id => W.outcome[i] = V.outcome[i],
           c \in Int, d \in Int, c - d = a + Tranche + s.fee - b
    PROVE  Bare(c, q, p, d, W)
<1>1. Shelf(q, p, W)
  BY ShelfKept DEF Hand
<1>2. s.fee \in Int /\ Held(q, p) \in Int /\ Tranche \in Int /\ a \in Int /\ b \in Int
  BY TransferFields, ShelfSet, TreasuryAssumption DEF Hand, Sane, Shelf
<1>3. c + Held(q, p) = d
  <2>1. a + Tranche + s.fee + Held(q, p) = b
    BY DEF Hand
  <2>2. PICK h \in Int : h = Held(q, p)
    BY <1>2
  <2>3. PICK z \in Int : z = a + Tranche + s.fee
    BY <1>2
  <2>4. z + h = b
    BY <2>1, <2>2, <2>3
  <2>5. c - d = z - b
    BY <1>2, <2>3
  <2>6. z \in Int /\ h \in Int /\ b \in Int /\ c \in Int /\ d \in Int
    BY <1>2
  <2>7. c + h = d
    BY <2>4, <2>5, <2>6
  <2> QED
    BY <2>2, <2>7
<1>4. Covered(Names(q, p), W)
  <2> SUFFICES ASSUME NEW i \in 1 .. W.next, W.outcome[i] = "open" PROVE i \in Names(q, p)
    BY DEF Covered
  <2>1. V.next \in 0 .. MaxTransfers
    BY WorldFields DEF Hand, World
  <2>2. i \in Ids /\ i # s.id
    BY <2>1, TreasuryAssumption DEF Ids
  <2> QED
    BY <2>2 DEF Hand, Covered
<1> QED
  BY <1>1, <1>3, <1>4 DEF Bare

(* The oldest strand comes back into the hand.                                *)
LEMMA HandRecovers ==
    ASSUME NEW a, NEW q, NEW p, NEW b, NEW V, Bare(a, q, p, b, V), q # <<>>
    PROVE  Hand(Head(q), a, Tail(q), p, b, V) /\ Stranded(Head(q), V)
<1> DEFINE s == Head(q)
           r == Tail(q)
<1>1. q \in Seq(Transfers) /\ p \in Seq(Transfers) /\ Distinct(q)
  BY DEF Bare, Shelf
<1>2. Elems(r) = Elems(q) \ {s} /\ s \in Elems(q) /\ r \in Seq(Transfers) /\ Distinct(r)
  BY <1>1, ElemsTail
<1> HIDE DEF s, r
<1>3. s \in Transfers /\ Stranded(s, V) /\ s \in Rest(q, p)
  BY <1>1, <1>2, ShelfSet DEF Bare, Shelf, Rest
<1>4. s \notin Elems(p)
  BY <1>2 DEF Bare, Shelf
<1>5. Rest(r, p) = Rest(q, p) \ {s}
  BY <1>2, <1>4 DEF Rest
<1>6. Shelf(r, p, V)
  BY <1>1, <1>2, <1>5 DEF Bare, Shelf
<1>7. \A e \in Elems(q) : e.id = s.id => e = s
  BY <1>2 DEF Bare, Shelf, Elems, Distinct
<1>8. Beside(s, r, p)
  <2> SUFFICES ASSUME NEW e \in Rest(r, p) PROVE e.id # s.id /\ ~(Converts(e) /\ Converts(s))
    BY DEF Beside
  <2>1. e \in Rest(q, p) /\ e # s
    BY <1>5
  <2>2. e.id # s.id
    BY <1>2, <1>7, <2>1 DEF Rest, Bare, Shelf
  <2> QED
    BY <1>3, <2>1, <2>2 DEF Bare, Shelf
<1>9. a + Tranche + s.fee + Held(r, p) = b
  <2>1. Held(r, p) = Held(q, p) - Tranche - s.fee
    BY <1>1, <1>3, <1>5, RestMoves DEF Held
  <2>2. Held(q, p) \in Int /\ s.fee \in Int /\ Tranche \in Int /\ a \in Int
    BY <1>1, <1>3, ShelfSet, TransferFields, TreasuryAssumption DEF Bare
  <2> QED
    BY <2>1, <2>2 DEF Bare
<1>10. Names(r, p) \cup {s.id} = Names(q, p)
  BY <1>3, <1>5 DEF Names
<1>11. Hand(s, a, r, p, b, V)
  BY <1>3, <1>6, <1>8, <1>9, <1>10 DEF Hand, Bare, Stranded
<1> QED
  BY <1>3, <1>11 DEF s, r

(* A parked action comes back into the hand.                                  *)
LEMMA HandUnparks ==
    ASSUME NEW a, NEW q, NEW p, NEW b, NEW V, Bare(a, q, p, b, V), NEW i \in 1 .. Len(p)
    PROVE  Hand(p[i], a, q, Without(p, i), b, V) /\ p[i].step = 1
<1> DEFINE s == p[i]
           r == Without(p, i)
<1>1. q \in Seq(Transfers) /\ p \in Seq(Transfers) /\ Distinct(p)
  BY DEF Bare, Shelf
<1>2. Elems(r) = Elems(p) \ {s} /\ s \in Elems(p) /\ r \in Seq(Transfers) /\ Distinct(r)
  BY <1>1, ElemsWithout DEF Elems
<1>7. \A e \in Elems(p) : e.id = s.id => e = s
  BY <1>1 DEF Elems, Distinct
<1> HIDE DEF s, r
<1>3. s \in Transfers /\ Parked(s, V) /\ s \in Rest(q, p)
  BY <1>1, <1>2, ShelfSet DEF Bare, Shelf, Rest
<1>4. s \notin Elems(q)
  BY <1>2 DEF Bare, Shelf
<1>5. Rest(q, r) = Rest(q, p) \ {s}
  BY <1>2, <1>4 DEF Rest
<1>6. Shelf(q, r, V)
  BY <1>1, <1>2, <1>5 DEF Bare, Shelf
<1>8. Beside(s, q, r)
  <2> SUFFICES ASSUME NEW e \in Rest(q, r) PROVE e.id # s.id /\ ~(Converts(e) /\ Converts(s))
    BY DEF Beside
  <2>1. e \in Rest(q, p) /\ e # s
    BY <1>5
  <2>2. e.id # s.id
    BY <1>2, <1>7, <2>1 DEF Rest, Bare, Shelf
  <2> QED
    BY <1>3, <2>1, <2>2 DEF Bare, Shelf
<1>9. a + Tranche + s.fee + Held(q, r) = b
  <2>1. Held(q, r) = Held(q, p) - Tranche - s.fee
    BY <1>1, <1>3, <1>5, RestMoves DEF Held
  <2>2. Held(q, p) \in Int /\ s.fee \in Int /\ Tranche \in Int /\ a \in Int
    BY <1>1, <1>3, ShelfSet, TransferFields, TreasuryAssumption DEF Bare
  <2> QED
    BY <2>1, <2>2 DEF Bare
<1>10. Names(q, r) \cup {s.id} = Names(q, p)
  BY <1>3, <1>5 DEF Names
<1>11. Hand(s, a, q, r, b, V)
  BY <1>3, <1>6, <1>8, <1>9, <1>10 DEF Hand, Bare, Parked
<1> QED
  BY <1>3, <1>11 DEF s, r, Parked

-------------------------------------------------------------------------------
(* How the world changes.                                                     *)

(* The venue: leg i becomes l, with the rows r its execution may be taken for. *)
LegBecomes(V, i, l, r) ==
    [leg |-> [V.leg EXCEPT ![i] = l], rows |-> [V.rows EXCEPT ![i] = r], auth |-> V.auth,
     outcome |-> V.outcome, kind |-> V.kind, next |-> V.next, authorized |-> V.authorized]

LEMMA WorldLeg ==
    ASSUME NEW V, World(V), NEW i \in Ids, i <= V.next, NEW l \in Legs,
           NEW r \in SUBSET (1 .. V.next), V.outcome[i] # "failed",
           (Gone(V, i) => l \in {"hidden", "shown"}) \/ (V.outcome[i] = "open" /\ Owned(V, i) = {})
    PROVE  LET W == LegBecomes(V, i, l, r)
           IN  /\ World(W) /\ W.next = V.next /\ W.outcome = V.outcome /\ W.kind = V.kind
               /\ W.leg[i] = l /\ Used(W) = Used(V) /\ \A j : Owned(W, j) = Owned(V, j)
               /\ \A m : Alive(W, m) <=> Alive(V, m)
               /\ W.authorized = V.authorized
               /\ \A e : /\ e.id \in Ids
                         /\ e.id # i \/ (Gone(V, i) => l \in {"hidden", "shown"})
                         /\ Converts(e) /\ V.kind[i] = "to_venice" => e.id = i \/ r = V.rows[i]
                         => Untouched(e, V, W)
<1> DEFINE W == LegBecomes(V, i, l, r)
<1>1. /\ W.leg = [V.leg EXCEPT ![i] = l] /\ W.rows = [V.rows EXCEPT ![i] = r] /\ W.auth = V.auth
      /\ W.outcome = V.outcome /\ W.kind = V.kind /\ W.next = V.next
      /\ W.authorized = V.authorized
  BY DEF LegBecomes
<1>2. /\ V \in Worlds /\ V.next \in 0 .. MaxTransfers /\ V.next \in Int
      /\ 1 .. V.next \subseteq Ids /\ i \in 1 .. V.next
  BY WorldFields, TreasuryAssumption DEF World, Ids
<1>3. /\ V.leg \in [Ids -> Legs] /\ V.rows \in [Ids -> SUBSET Ids]
      /\ W.leg \in [Ids -> Legs] /\ W.rows \in [Ids -> SUBSET Ids]
      /\ W.leg[i] = l /\ \A j \in Ids : j # i => W.leg[j] = V.leg[j]
      /\ W.rows[i] = r /\ \A j \in Ids : j # i => W.rows[j] = V.rows[j]
  BY <1>1, <1>2, WorldFields
<1>4. W \in Worlds
  BY <1>1, <1>2, <1>3 DEF Worlds, LegBecomes
<1> HIDE DEF W
<1>5. Used(W) = Used(V) /\ (\A j : Owned(W, j) = Owned(V, j)) /\ \A m : Alive(W, m) <=> Alive(V, m)
  BY <1>1 DEF Used, Owned, Alive
<1>6. \A j \in Ids : j # i => (Gone(W, j) <=> Gone(V, j))
  BY <1>3 DEF Gone
<1>7. (Gone(V, i) => Gone(W, i)) \/ (V.outcome[i] = "open" /\ Owned(V, i) = {})
  BY <1>3 DEF Gone
<1>8. \A m \in Used(W) : W.auth[m].owner \in 1 .. W.next /\ Gone(W, W.auth[m].owner)
  <2> SUFFICES ASSUME NEW m \in Used(V)
               PROVE  V.auth[m].owner \in 1 .. V.next /\ Gone(W, V.auth[m].owner)
    BY <1>1, <1>5
  <2>1. V.auth[m].owner \in 1 .. V.next /\ Gone(V, V.auth[m].owner) /\ V.auth[m].owner \in Ids
    BY <1>2 DEF World
  <2>2. V.auth[m].owner = i => Owned(V, i) # {}
    BY DEF Owned
  <2> QED
    BY <1>6, <1>7, <2>1, <2>2
<1>9. \A j \in Ids : W.kind[j] = "to_venice" /\ W.outcome[j] = "confirmed" =>
          Gone(W, j) /\ \E m \in Owned(W, j) : W.auth[m].is = "shown"
  BY <1>1, <1>5, <1>6, <1>7 DEF World
<1>10. \A j \in Ids : W.outcome[j] = "failed" => W.leg[j] = "void"
  BY <1>1, <1>3 DEF World
<1>11. \A j \in Ids : /\ W.rows[j] \subseteq 1 .. W.next
                      /\ j > W.next => W.leg[j] = "idle" /\ W.outcome[j] = "open" /\ W.rows[j] = {}
  <2> SUFFICES ASSUME NEW j \in Ids
               PROVE  /\ W.rows[j] \subseteq 1 .. W.next
                      /\ j > W.next => W.leg[j] = "idle" /\ W.outcome[j] = "open" /\ W.rows[j] = {}
    OBVIOUS
  <2>1. CASE j = i
    <3>1. W.rows[j] = r /\ ~(j > W.next)
      BY <1>1, <1>2, <1>3, <2>1
    <3> QED
      BY <1>1, <3>1
  <2>2. CASE j # i
    BY <1>1, <1>3, <2>2 DEF World
  <2> QED
    BY <2>1, <2>2
<1>12. \A m, k \in Used(W) :
          W.auth[m].owner = W.auth[k].owner /\ Alive(W, m) /\ Alive(W, k) => m = k
  BY <1>1, <1>5 DEF World
<1>13. World(W)
  BY <1>4, <1>8, <1>9, <1>10, <1>11, <1>12 DEF World
<1>14. ASSUME NEW e, e.id \in Ids, e.id # i \/ (Gone(V, i) => l \in {"hidden", "shown"}),
              Converts(e) /\ V.kind[i] = "to_venice" => e.id = i \/ r = V.rows[i]
       PROVE  Untouched(e, V, W)
  <2>1. Gone(V, e.id) => Gone(W, e.id)
    BY <1>3, <1>6, <1>14 DEF Gone
  <2>2. Converts(e) => \A j \in Ids : Named(W, e, j) => j = e.id \/ Named(V, e, j)
    BY <1>1, <1>3, <1>14 DEF Named
  <2> QED
    BY <1>1, <1>2, <1>5, <2>1, <2>2, UsedFinite DEF Untouched
<1> QED
  BY <1>1, <1>3, <1>5, <1>13, <1>14 DEF W

(* An authorization becomes another: signed, debited, shown or expired.       *)
AuthBecomes(V, n, A, d) ==
    [leg |-> V.leg, rows |-> V.rows, auth |-> [V.auth EXCEPT ![n] = A],
     outcome |-> V.outcome, kind |-> V.kind, next |-> V.next, authorized |-> V.authorized + d]

AuthRecords == [owner : 0 .. MaxTransfers, is : AuthStates, late : BOOLEAN]

LEMMA WorldAuth ==
    ASSUME NEW V, World(V), NEW n \in Auths, NEW A \in AuthRecords, NEW d \in Nat,
           V.authorized + d <= TotalCap
    PROVE  LET W == AuthBecomes(V, n, A, d)
           IN  /\ W \in Worlds /\ W.leg = V.leg /\ W.rows = V.rows /\ W.outcome = V.outcome
               /\ W.kind = V.kind /\ W.next = V.next /\ W.authorized = V.authorized + d
               /\ W.auth[n] = A /\ \A m \in Auths : m # n => W.auth[m] = V.auth[m]
               /\ \A i : Gone(W, i) <=> Gone(V, i)
               /\ \A m \in Auths : m # n => (Alive(W, m) <=> Alive(V, m))
               /\ \A e, i : Named(W, e, i) <=> Named(V, e, i)
<1> DEFINE W == AuthBecomes(V, n, A, d)
<1>1. /\ W.leg = V.leg /\ W.rows = V.rows /\ W.auth = [V.auth EXCEPT ![n] = A]
      /\ W.outcome = V.outcome /\ W.kind = V.kind /\ W.next = V.next
      /\ W.authorized = V.authorized + d
  BY DEF AuthBecomes
<1>2. V \in Worlds
  BY DEF World
<1>3. /\ W.auth \in [Auths -> AuthRecords] /\ W.auth[n] = A
      /\ \A m \in Auths : m # n => W.auth[m] = V.auth[m]
  BY <1>1, <1>2, WorldFields DEF AuthRecords
<1>4. V.authorized + d \in 0 .. TotalCap
  BY <1>2, WorldFields, TreasuryAssumption
<1>5. W \in Worlds
  BY <1>1, <1>2, <1>3, <1>4, WorldFields DEF Worlds, AuthBecomes, AuthRecords
<1> HIDE DEF W
<1>6. \A i : Gone(W, i) <=> Gone(V, i)
  BY <1>1 DEF Gone
<1>7. \A m \in Auths : m # n => (Alive(W, m) <=> Alive(V, m))
  BY <1>3 DEF Alive
<1>8. \A e, i : Named(W, e, i) <=> Named(V, e, i)
  BY <1>1 DEF Named
<1> QED
  BY <1>1, <1>3, <1>5, <1>6, <1>7, <1>8 DEF W

(* A fresh authorization of a conversion that has left the venue and has no   *)
(* other that could still be debited in time.                                 *)
LEMMA WorldSigns ==
    ASSUME NEW V, World(V), NEW n \in Auths, V.auth[n].is = "none", NEW i \in Ids, i <= V.next,
           Gone(V, i), NEW A \in AuthRecords, A.owner = i, A.is # "none",
           \A m \in Owned(V, i) : ~Alive(V, m),
           V.authorized + Tranche <= TotalCap
    PROVE  LET W == AuthBecomes(V, n, A, Tranche)
           IN  /\ World(W) /\ W.next = V.next /\ W.outcome = V.outcome /\ W.kind = V.kind
               /\ W.authorized = V.authorized + Tranche
               /\ Gone(W, i) /\ Owned(W, i) = Owned(V, i) \cup {n}
               /\ Cardinality(Used(W)) = Cardinality(Used(V)) + 1
               /\ \A m \in Owned(V, i) : ~Alive(W, m)
               /\ \A e, j : Named(W, e, j) <=> Named(V, e, j)
               /\ \A e : e.id # i /\ ~Converts(e) => Untouched(e, V, W)
<1> DEFINE W == AuthBecomes(V, n, A, Tranche)
<1>1. /\ W \in Worlds /\ W.leg = V.leg /\ W.rows = V.rows /\ W.outcome = V.outcome
      /\ W.kind = V.kind /\ W.next = V.next /\ W.authorized = V.authorized + Tranche
      /\ W.auth[n] = A /\ \A m \in Auths : m # n => W.auth[m] = V.auth[m]
      /\ \A j : Gone(W, j) <=> Gone(V, j)
      /\ \A m \in Auths : m # n => (Alive(W, m) <=> Alive(V, m))
      /\ \A e, j : Named(W, e, j) <=> Named(V, e, j)
  BY WorldAuth, TreasuryAssumption
<1> HIDE DEF W
<1>2. Used(W) = Used(V) \cup {n} /\ n \notin Used(V)
  BY <1>1 DEF Used
<1>3. \A j : Owned(W, j) = IF j = i THEN Owned(V, j) \cup {n} ELSE Owned(V, j)
  BY <1>1, <1>2, UsedFinite DEF Owned
<1>4. Cardinality(Used(W)) = Cardinality(Used(V)) + 1
  BY <1>2, UsedFinite, FS_AddElement
<1>5. \A m \in Used(W) : W.auth[m].owner \in 1 .. W.next /\ Gone(W, W.auth[m].owner)
  <2>1. i \in 1 .. V.next
    BY WorldFields, TreasuryAssumption DEF Ids, World
  <2>2. \A m \in Used(V) : V.auth[m].owner \in 1 .. V.next /\ Gone(V, V.auth[m].owner)
    BY DEF World
  <2>3. \A m \in Used(V) : W.auth[m] = V.auth[m]
    BY <1>1, <1>2, UsedFinite
  <2> QED
    BY <1>1, <1>2, <2>1, <2>2, <2>3
<1>6. \A m, k \in Used(W) :
          W.auth[m].owner = W.auth[k].owner /\ Alive(W, m) /\ Alive(W, k) => m = k
  <2> SUFFICES ASSUME NEW m \in Used(W), NEW k \in Used(W),
                      W.auth[m].owner = W.auth[k].owner, Alive(W, m), Alive(W, k), m # k
               PROVE  FALSE
    OBVIOUS
  <2>1. ASSUME NEW x \in Used(V), W.auth[x].owner = i, Alive(W, x) PROVE FALSE
    <3>1. x \in Auths /\ x # n
      BY <1>2, UsedFinite
    <3>2. x \in Owned(V, i) /\ Alive(V, x)
      BY <1>1, <2>1, <3>1 DEF Owned
    <3> QED
      BY <3>2
  <2>2. CASE m = n
    BY <1>1, <1>2, <2>1, <2>2
  <2>3. CASE k = n
    BY <1>1, <1>2, <2>1, <2>3
  <2>4. CASE m # n /\ k # n
    <3>1. m \in Used(V) /\ k \in Used(V) /\ m \in Auths /\ k \in Auths
      BY <1>2, <2>4, UsedFinite
    <3> QED
      BY <1>1, <2>4, <3>1 DEF World
  <2> QED
    BY <2>2, <2>3, <2>4
<1>7. \A j \in Ids : W.kind[j] = "to_venice" /\ W.outcome[j] = "confirmed" =>
          Gone(W, j) /\ \E m \in Owned(W, j) : W.auth[m].is = "shown"
  <2> SUFFICES ASSUME NEW j \in Ids, V.kind[j] = "to_venice", V.outcome[j] = "confirmed"
               PROVE  Gone(W, j) /\ \E m \in Owned(W, j) : W.auth[m].is = "shown"
    BY <1>1
  <2>1. PICK m \in Owned(V, j) : V.auth[m].is = "shown"
    BY DEF World
  <2>2. m \in Auths /\ m # n
    BY <1>2, UsedFinite DEF Owned
  <2> QED
    BY <1>1, <1>3, <2>1, <2>2 DEF World
<1>8. World(W)
  BY <1>1, <1>5, <1>6, <1>7 DEF World
<1>9. \A m \in Owned(V, i) : ~Alive(W, m)
  BY <1>1, <1>2, UsedFinite DEF Owned
<1>10. ASSUME NEW e, e.id # i, ~Converts(e) PROVE Untouched(e, V, W)
  <2>1. \A m \in Owned(V, e.id) : m \in Auths /\ m # n
    BY <1>2, UsedFinite DEF Owned
  <2>2. V.next \in Int /\ Cardinality(Used(V)) \in Int
    BY UsedFinite, WorldFields DEF World
  <2>3. V.next <= W.next /\ Cardinality(Used(V)) <= Cardinality(Used(W))
    BY <1>1, <1>4, <2>2
  <2> QED
    BY <1>1, <1>3, <1>10, <2>1, <2>3 DEF Untouched
<1> QED
  BY <1>1, <1>3, <1>4, <1>8, <1>9, <1>10 DEF W

(* What the chain does with an authorization that exists.                     *)
LEMMA WorldBecomes ==
    ASSUME NEW V, World(V), NEW n \in Auths, V.auth[n].is # "none", NEW A \in AuthRecords,
           A.owner = V.auth[n].owner, A.is # "none", V.auth[n].is = "shown" => A.is = "shown",
           A.is = "live" \/ (A.is \in {"settled", "shown"} /\ ~A.late) => Alive(V, n)
    PROVE  LET W == AuthBecomes(V, n, A, 0)
           IN  /\ World(W) /\ W.next = V.next /\ W.outcome = V.outcome
               /\ \A e : Untouched(e, V, W)
<1> DEFINE W == AuthBecomes(V, n, A, 0)
<1>0. 0 \in Nat /\ V.authorized + 0 <= TotalCap /\ V.authorized + 0 = V.authorized
  BY WorldFields, TreasuryAssumption DEF World
<1>1. /\ W \in Worlds /\ W.leg = V.leg /\ W.rows = V.rows /\ W.outcome = V.outcome
      /\ W.kind = V.kind /\ W.next = V.next /\ W.authorized = V.authorized
      /\ W.auth[n] = A /\ \A m \in Auths : m # n => W.auth[m] = V.auth[m]
      /\ \A j : Gone(W, j) <=> Gone(V, j)
      /\ \A m \in Auths : m # n => (Alive(W, m) <=> Alive(V, m))
      /\ \A e, j : Named(W, e, j) <=> Named(V, e, j)
  BY <1>0, WorldAuth
<1> HIDE DEF W
<1>2. Used(W) = Used(V)
  BY <1>1 DEF Used
<1>3. \A m \in Auths : W.auth[m].owner = V.auth[m].owner /\ (Alive(W, m) => Alive(V, m))
  BY <1>1 DEF Alive
<1>4. \A j : Owned(W, j) = Owned(V, j)
  BY <1>2, <1>3, UsedFinite DEF Owned
<1>5. \A m \in Auths : V.auth[m].is = "shown" => W.auth[m].is = "shown"
  BY <1>1
<1>6. /\ \A m \in Used(W) : W.auth[m].owner \in 1 .. W.next /\ Gone(W, W.auth[m].owner)
      /\ \A m, k \in Used(W) :
            W.auth[m].owner = W.auth[k].owner /\ Alive(W, m) /\ Alive(W, k) => m = k
  BY <1>1, <1>2, <1>3, UsedFinite DEF World
<1>7. \A j \in Ids : W.kind[j] = "to_venice" /\ W.outcome[j] = "confirmed" =>
          Gone(W, j) /\ \E m \in Owned(W, j) : W.auth[m].is = "shown"
  <2> SUFFICES ASSUME NEW j \in Ids, V.kind[j] = "to_venice", V.outcome[j] = "confirmed"
               PROVE  Gone(W, j) /\ \E m \in Owned(W, j) : W.auth[m].is = "shown"
    BY <1>1
  <2>1. PICK m \in Owned(V, j) : V.auth[m].is = "shown"
    BY DEF World
  <2> QED
    BY <1>1, <1>4, <1>5, <2>1, UsedFinite DEF World, Owned
<1>8. World(W)
  BY <1>1, <1>6, <1>7 DEF World
<1>9. ASSUME NEW e PROVE Untouched(e, V, W)
  <2>1. \A m \in Owned(V, e.id) : m \in Auths
    BY UsedFinite DEF Owned
  <2>2. V.next <= W.next /\ Cardinality(Used(V)) <= Cardinality(Used(W))
    BY <1>1, <1>2, UsedFinite, WorldFields DEF World
  <2> QED
    BY <1>1, <1>3, <1>4, <2>1, <2>2 DEF Untouched
<1> QED
  BY <1>1, <1>8, <1>9 DEF W

(* A transfer is over.                                                        *)
OutcomeBecomes(V, i, o) ==
    [leg |-> V.leg, rows |-> V.rows, auth |-> V.auth, outcome |-> [V.outcome EXCEPT ![i] = o],
     kind |-> V.kind, next |-> V.next, authorized |-> V.authorized]

LEMMA WorldCloses ==
    ASSUME NEW V, World(V), NEW i \in Ids, i <= V.next, NEW o \in {"confirmed", "failed"},
           o = "failed" => V.leg[i] = "void",
           o = "confirmed" /\ V.kind[i] = "to_venice" =>
               Gone(V, i) /\ \E m \in Owned(V, i) : V.auth[m].is = "shown"
    PROVE  LET W == OutcomeBecomes(V, i, o)
           IN  /\ World(W) /\ W.next = V.next /\ W.outcome[i] # "open"
               /\ \A j \in Ids : j # i => W.outcome[j] = V.outcome[j]
               /\ \A e : e.id # i /\ e.id \in Ids => Untouched(e, V, W)
<1> DEFINE W == OutcomeBecomes(V, i, o)
<1>1. /\ W.leg = V.leg /\ W.rows = V.rows /\ W.auth = V.auth
      /\ W.outcome = [V.outcome EXCEPT ![i] = o]
      /\ W.kind = V.kind /\ W.next = V.next /\ W.authorized = V.authorized
  BY DEF OutcomeBecomes
<1>2. V \in Worlds /\ V.next \in Int /\ i \in Int
  BY WorldFields DEF World, Ids
<1>3. /\ W.outcome \in [Ids -> Outcomes] /\ W.outcome[i] = o
      /\ \A j \in Ids : j # i => W.outcome[j] = V.outcome[j]
  BY <1>1, <1>2, WorldFields DEF Outcomes
<1>4. W \in Worlds
  BY <1>1, <1>2, <1>3, WorldFields DEF Worlds, OutcomeBecomes
<1> HIDE DEF W
<1>5. /\ \A j : Gone(W, j) <=> Gone(V, j)
      /\ Used(W) = Used(V) /\ (\A j : Owned(W, j) = Owned(V, j))
      /\ (\A m : Alive(W, m) <=> Alive(V, m)) /\ \A e, j : Named(W, e, j) <=> Named(V, e, j)
  BY <1>1 DEF Gone, Used, Owned, Alive, Named
<1>6. \A j \in Ids : j > W.next => W.leg[j] = "idle" /\ W.outcome[j] = "open" /\ W.rows[j] = {}
  BY <1>1, <1>2, <1>3 DEF World
<1>7. \A j \in Ids : W.outcome[j] = "failed" => W.leg[j] = "void"
  BY <1>1, <1>3 DEF World
<1>8. \A j \in Ids : W.kind[j] = "to_venice" /\ W.outcome[j] = "confirmed" =>
          Gone(W, j) /\ \E m \in Owned(W, j) : W.auth[m].is = "shown"
  BY <1>1, <1>3, <1>5 DEF World
<1>9. World(W)
  BY <1>1, <1>4, <1>5, <1>6, <1>7, <1>8 DEF World
<1>10. ASSUME NEW e, e.id # i, e.id \in Ids PROVE Untouched(e, V, W)
  BY <1>1, <1>2, <1>3, <1>5, <1>10, UsedFinite DEF Untouched
<1> QED
  BY <1>1, <1>3, <1>9, <1>10 DEF W

-------------------------------------------------------------------------------
(* The calls.  Call is the world a call works on: what was asked is written   *)
(* down, and nothing has gone out yet.                                        *)

Call == [leg |-> leg, rows |-> rows, auth |-> auth, outcome |-> outcome, kind |-> kind',
         next |-> nextId', authorized |-> authorized]

BooksNext(p, b) == Books(slot', avail', stranded', p, b, Now')

(* Fields that no clause of Sane is about may change.                         *)
LEMMA SaneAlike ==
    ASSUME NEW s, NEW t \in Transfers, NEW V, Sane(s, V), t.id = s.id, t.dir = s.dir,
           t.step = s.step, t.moved = s.moved, t.ref = s.ref, t.old = s.old, t.auths = s.auths
    PROVE  Sane(t, V)
  BY DEF Sane, Converts, Named

LEMMA HandTyped ==
    ASSUME NEW s, NEW a, NEW q, NEW p, NEW b, NEW V, Hand(s, a, q, p, b, V)
    PROVE  /\ World(V) /\ V \in Worlds /\ s \in Transfers /\ s.id \in Ids /\ s.id <= V.next
           /\ V.outcome[s.id] = "open" /\ Sane(s, V) /\ a \in Int /\ b \in Int
           /\ \A e \in Rest(q, p) : e \in Transfers /\ e.id \in Ids /\ e.id # s.id
                                    /\ (Converts(s) => ~Converts(e))
<1>1. q \in Seq(Transfers) /\ p \in Seq(Transfers)
  BY DEF Hand, Shelf
<1>2. s \in Transfers /\ World(V) /\ V \in Worlds
  BY DEF Hand, Sane, World
<1>3. \A e \in Rest(q, p) : e \in Transfers /\ e.id \in Ids
  BY <1>1, ShelfSet, TransferFields
<1> QED
  BY <1>2, <1>3, TransferFields DEF Hand, Sane, Beside

(* The transfer in hand changes and the world does not.                       *)
LEMMA HandReshapes ==
    ASSUME NEW s, NEW t, NEW a, NEW c, NEW q, NEW p, NEW b, NEW d, NEW V,
           Hand(s, a, q, p, b, V), Sane(t, V), t.id = s.id, t.dir = s.dir,
           c \in Int, d \in Int, c + t.fee - d = a + s.fee - b
    PROVE  Hand(t, c, q, p, d, V)
<1>1. World(V) /\ V.next \in Int
  BY HandTyped, WorldFields
<1>2. \A e : Untouched(e, V, V)
  BY <1>1, UsedFinite DEF Untouched
<1> QED
  BY <1>1, <1>2, HandMoves

LEMMA KeepBooks ==
    ASSUME NEW t, NEW a, NEW q, NEW p, NEW b, Keep(t, a, q), Hand(t, a, q, p, b, Now'), AtRest(t)
    PROVE  BooksNext(p, b)
<1>1. slot' = t /\ avail' = a /\ stranded' = q
  BY DEF Keep
<1> QED
  BY <1>1, HandTyped DEF BooksNext, Books

(* A transfer whose principal has moved becomes a strand.                     *)
LEMMA FailBooks ==
    ASSUME NEW s, NEW a, NEW q, NEW p, NEW b, Hand(s, a, q, p, b, Now'), Fail(s, a, q), s.moved,
           s.ref.n # 0 => ~Alive(Now', s.ref.n)
    PROVE  BooksNext(p, b)
<1> DEFINE V == Now'
<1>0. PICK W : W = V
  OBVIOUS
<1>1. Hand(s, a, q, p, b, W) /\ (s.ref.n # 0 => ~Alive(W, s.ref.n))
  BY <1>0
<1>2. s \in Transfers /\ a \in Int /\ b \in Int /\ Sane(s, W) /\ s.fee \in Int
  BY <1>1, HandTyped, TransferFields
<1>9. 0 \in 0 .. FeeCeil /\ -1 \in -1 .. Wait
  BY TreasuryAssumption
<1>3. avail' = a + s.fee
  BY DEF Fail
<1>4. CASE Recoverable(s)
  <2> DEFINE t == [s EXCEPT !.fee = 0, !.stall = -1]
  <2>1. slot' = Idle /\ stranded' = Append(q, t)
    BY <1>4 DEF Fail
  <2>2. t \in Transfers /\ t.id = s.id /\ t.dir = s.dir /\ t.step = s.step /\ t.moved = s.moved
        /\ t.ref = s.ref /\ t.old = s.old /\ t.auths = s.auths /\ t.fee = 0
    BY <1>2, <1>9 DEF Transfers
  <2> HIDE DEF t
  <2>3. Sane(t, W)
    BY <1>2, <2>2, SaneAlike
  <2>4. a + s.fee \in Int /\ a + s.fee + t.fee - b = a + s.fee - b
    BY <1>2, <2>2
  <2>5. Hand(t, a + s.fee, q, p, b, W)
    BY <1>1, <1>2, <2>2, <2>3, <2>4, HandReshapes
  <2>6. Stranded(t, W)
    BY <1>1, <2>2, <2>3 DEF Stranded
  <2>7. Bare(a + s.fee, Append(q, t), p, b, W)
    BY <2>5, <2>6, HandStrands
  <2> QED
    BY <1>0, <1>3, <2>1, <2>7 DEF BooksNext, Books
<1>5. CASE ~Recoverable(s)
  <2> DEFINE t == [s EXCEPT !.fee = 0, !.stall = -1, !.stuck = TRUE]
  <2>1. slot' = t /\ stranded' = q
    BY <1>5 DEF Fail
  <2>2. t \in Transfers /\ t.id = s.id /\ t.dir = s.dir /\ t.step = s.step /\ t.moved = s.moved
        /\ t.ref = s.ref /\ t.old = s.old /\ t.auths = s.auths /\ t.fee = 0
    BY <1>2, <1>9 DEF Transfers
  <2> HIDE DEF t
  <2>3. Sane(t, W)
    BY <1>2, <2>2, SaneAlike
  <2>4. a + s.fee \in Int /\ a + s.fee + t.fee - b = a + s.fee - b
    BY <1>2, <2>2
  <2>5. Hand(t, a + s.fee, q, p, b, W)
    BY <1>1, <1>2, <2>2, <2>3, <2>4, HandReshapes
  <2>6. ~Converts(t) /\ t.step # 1
    BY <1>2, <1>5, <2>2 DEF Recoverable, Shadowed, Converts, Sane
  <2>7. AtRest(t)
    BY <2>6 DEF AtRest
  <2> QED
    BY <1>0, <1>3, <2>1, <2>2, <2>5, <2>7 DEF BooksNext, Books
<1> QED
  BY <1>4, <1>5

LEMMA SentFields ==
    ASSUME NEW s \in Transfers
    PROVE  LET t == Sent(s)
           IN  /\ t \in Transfers /\ t.id = s.id /\ t.dir = s.dir /\ t.step = s.step
               /\ t.moved = s.moved /\ t.ref = s.ref /\ t.old = s.old /\ t.auths = s.auths
               /\ t.fee = s.fee /\ t.first = FALSE
  BY DEF Sent, Transfers

(* The venue's leg goes out: accepted, unanswered, or rejected outright.      *)
LEMMA SendLegBooks ==
    ASSUME NEW s, NEW a, NEW q, NEW p, NEW b, Hand(s, a, q, p, b, Call), s.step = 1,
           SendLeg(s, a, q), UNCHANGED authorized
    PROVE  BooksNext(p, b)
<1>0. PICK V : V = Call
  OBVIOUS
<1>1. Hand(s, a, q, p, b, V)
  BY <1>0
<1>2. /\ World(V) /\ V \in Worlds /\ s \in Transfers /\ s.id \in Ids /\ s.id <= V.next
      /\ V.outcome[s.id] = "open" /\ Sane(s, V) /\ a \in Int /\ b \in Int
      /\ \A e \in Rest(q, p) : e \in Transfers /\ e.id \in Ids /\ e.id # s.id
                               /\ (Converts(s) => ~Converts(e))
  BY <1>1, HandTyped
<1>3. /\ V.leg = leg /\ V.rows = rows /\ V.auth = auth /\ V.outcome = outcome /\ V.kind = kind'
      /\ V.next = nextId' /\ V.authorized = authorized
  BY <1>0 DEF Call
<1>4. /\ leg \in [Ids -> Legs] /\ rows \in [Ids -> SUBSET Ids] /\ V.next \in Int
      /\ V.outcome[s.id] # "failed" /\ Owned(V, s.id) = {} /\ rows[s.id] \in SUBSET (1 .. V.next)
  <2>1. Owned(V, s.id) = {}
    BY <1>2 DEF Sane
  <2>2. rows[s.id] \subseteq 1 .. V.next
    BY <1>2, <1>3 DEF World
  <2> QED
    BY <1>2, <1>3, <2>1, <2>2, WorldFields
<1>5. ASSUME NEW l \in Legs, NEW r \in SUBSET (1 .. V.next), NEW W, W = LegBecomes(V, s.id, l, r)
      PROVE  /\ World(W) /\ W.leg[s.id] = l /\ W.next = V.next /\ W.kind = V.kind
             /\ Hand(s, a, q, p, b, W)
  <2>1. /\ World(W) /\ W.next = V.next /\ W.outcome = V.outcome /\ W.kind = V.kind
        /\ W.leg[s.id] = l /\ Used(W) = Used(V) /\ \A j : Owned(W, j) = Owned(V, j)
        /\ \A m : Alive(W, m) <=> Alive(V, m)
        /\ W.authorized = V.authorized
        /\ \A e : /\ e.id \in Ids
                  /\ e.id # s.id \/ (Gone(V, s.id) => l \in {"hidden", "shown"})
                  /\ Converts(e) /\ V.kind[s.id] = "to_venice" => e.id = s.id \/ r = V.rows[s.id]
                  => Untouched(e, V, W)
    BY <1>2, <1>4, <1>5, WorldLeg
  <2>2. \A e \in Rest(q, p) : Untouched(e, V, W)
    BY <1>2, <2>1 DEF Sane
  <2>3. Converts(s) => \A i \in Ids : Named(W, s, i) => i = s.id
    <3> SUFFICES ASSUME Converts(s), NEW i \in Ids, Named(W, s, i), i # s.id PROVE FALSE
      OBVIOUS
    <3>1. W.rows[i] = V.rows[i] /\ W.kind = V.kind
      BY <1>3, <1>4, <1>5, <2>1 DEF LegBecomes
    <3> QED
      BY <1>2, <3>1 DEF Sane, Named
  <2>4. Sane(s, W)
    BY <1>2, <2>1, <2>3 DEF Sane
  <2>5. a + s.fee - b = a + s.fee - b
    OBVIOUS
  <2>6. Hand(s, a, q, p, b, W)
    BY <1>1, <1>2, <2>1, <2>2, <2>4, <2>5, HandMoves
  <2> QED
    BY <2>1, <2>6
<1> DEFINE t == Sent(s)
<1>6. /\ t \in Transfers /\ t.id = s.id /\ t.dir = s.dir /\ t.step = s.step
      /\ t.moved = s.moved /\ t.ref = s.ref /\ t.old = s.old /\ t.auths = s.auths
      /\ t.fee = s.fee /\ t.first = FALSE
  BY <1>2, SentFields
<1> HIDE DEF t
<1>7. ASSUME NEW W, Hand(s, a, q, p, b, W), W = Now', Keep(t, a, q) PROVE BooksNext(p, b)
  <2>1. Sane(t, W)
    BY <1>6, <1>7, SaneAlike, HandTyped
  <2>2. a + t.fee - b = a + s.fee - b
    BY <1>6
  <2>3. Hand(t, a, q, p, b, W)
    BY <1>2, <1>6, <1>7, <2>1, <2>2, HandReshapes
  <2>4. AtRest(t)
    BY <1>2, <1>6 DEF AtRest, Sane
  <2> QED
    BY <1>7, <2>3, <2>4, KeepBooks
<1>8. CASE /\ leg' = [leg EXCEPT ![s.id] = "hidden"]
           /\ rows' = [rows EXCEPT ![s.id] = (1 .. nextId') \ lapsed]
           /\ Keep(Sent(s), a, q)
  <2>1. PICK W : W = LegBecomes(V, s.id, "hidden", (1 .. nextId') \ lapsed)
    OBVIOUS
  <2>2. "hidden" \in Legs /\ (1 .. nextId') \ lapsed \in SUBSET (1 .. V.next)
    BY <1>3 DEF Legs
  <2>3. Hand(s, a, q, p, b, W)
    BY <1>5, <2>1, <2>2
  <2>4. W = Now'
    BY <1>3, <1>8, <2>1 DEF LegBecomes, Now, SendLeg, Keep
  <2> QED
    BY <1>7, <1>8, <2>3, <2>4 DEF t
<1>9. CASE /\ leg' = [leg EXCEPT ![s.id] = IF @ = "idle" THEN "sent" ELSE @]
           /\ UNCHANGED rows /\ Keep(Sent(s), a, q)
  <2> DEFINE l == IF leg[s.id] = "idle" THEN "sent" ELSE leg[s.id]
  <2>1. PICK W : W = LegBecomes(V, s.id, l, rows[s.id])
    OBVIOUS
  <2>2. l \in Legs /\ rows' = [rows EXCEPT ![s.id] = rows[s.id]] /\ leg' = [leg EXCEPT ![s.id] = l]
    BY <1>2, <1>4, <1>9 DEF Legs
  <2> HIDE DEF l
  <2>3. Hand(s, a, q, p, b, W)
    BY <1>4, <1>5, <2>1, <2>2
  <2>4. W = Now'
    BY <1>3, <1>9, <2>1, <2>2 DEF LegBecomes, Now, SendLeg, Keep
  <2> QED
    BY <1>7, <1>9, <2>3, <2>4 DEF t
<1>10. CASE leg' = [leg EXCEPT ![s.id] = "void"] /\ UNCHANGED rows /\ Fail(s, a, q)
  <2>1. PICK W : W = LegBecomes(V, s.id, "void", rows[s.id])
    OBVIOUS
  <2>2. "void" \in Legs /\ rows' = [rows EXCEPT ![s.id] = rows[s.id]]
    BY <1>2, <1>4, <1>10 DEF Legs
  <2>3. Hand(s, a, q, p, b, W) /\ World(W) /\ W.leg[s.id] = "void" /\ W.next = V.next
    BY <1>4, <1>5, <2>1, <2>2
  <2>4. ~s.moved
    BY <1>2, TransferFields DEF Sane
  <2>5. /\ slot' = Idle /\ avail' = a + Tranche + s.fee /\ stranded' = q
        /\ outcome' = [outcome EXCEPT ![s.id] = "failed"]
    BY <1>10, <2>4 DEF Fail
  <2>6. PICK X : X = OutcomeBecomes(W, s.id, "failed")
    OBVIOUS
  <2>7. /\ World(X) /\ X.next = W.next /\ X.outcome[s.id] # "open"
        /\ \A j \in Ids : j # s.id => X.outcome[j] = W.outcome[j]
        /\ \A e : e.id # s.id /\ e.id \in Ids => Untouched(e, W, X)
    BY <1>2, <2>3, <2>6, WorldCloses
  <2>8. X = Now'
    BY <1>3, <1>10, <2>1, <2>2, <2>5, <2>6 DEF LegBecomes, OutcomeBecomes, Now, SendLeg
  <2>9. a + Tranche + s.fee \in Int
    BY <1>2, TransferFields, TreasuryAssumption
  <2>10. a + Tranche + s.fee - b = a + Tranche + s.fee - b
    OBVIOUS
  <2>11. \A e \in Rest(q, p) : Untouched(e, W, X)
    BY <1>2, <2>7
  <2>12. (a + Tranche + s.fee) - b = a + Tranche + s.fee - b
    BY <1>2, TransferFields, TreasuryAssumption
  <2>13. Bare(a + Tranche + s.fee, q, p, b, X)
    BY <1>2, <2>3, <2>7, <2>9, <2>11, <2>12, HandCloses
  <2> QED
    BY <2>5, <2>8, <2>13 DEF BooksNext, Books
<1> QED
  BY <1>8, <1>9, <1>10 DEF SendLeg

-------------------------------------------------------------------------------
(* Preparing the second step.                                                 *)

(* A step that waits to be prepared has never been authorized.                *)
Waiting(s) == s.step = 2 /\ s.ref = NoRef /\ (Converts(s) => s.old = {})

LEMMA NowFields ==
    /\ Now.leg = leg /\ Now.rows = rows /\ Now.auth = auth /\ Now.outcome = outcome
    /\ Now.kind = kind /\ Now.next = nextId /\ Now.authorized = authorized
    /\ UNCHANGED <<leg, rows, auth, outcome, kind, nextId, authorized>> => Now' = Now
    /\ UNCHANGED <<kind, nextId>> => Call = Now
  BY DEF Now, Call

LEMMA PrepareFailsBooks ==
    ASSUME NEW s, NEW a, NEW q, NEW p, NEW b, Hand(s, a, q, p, b, Now), UNCHANGED <<kind, nextId>>,
           Waiting(s), PrepareFails(s, a, q)
    PROVE  BooksNext(p, b)
<1>0. PICK V : V = Now
  OBVIOUS
<1>1. Hand(s, a, q, p, b, V)
  BY <1>0
<1>2. World(V) /\ s \in Transfers /\ Sane(s, V) /\ a \in Int /\ b \in Int
  BY <1>1, HandTyped
<1> DEFINE w == Stalled(s)
<1>3. /\ w \in Transfers /\ w.id = s.id /\ w.dir = s.dir /\ w.step = s.step
      /\ w.moved = s.moved /\ w.ref = s.ref /\ w.old = s.old /\ w.auths = s.auths
      /\ w.fee = s.fee
  <2>1. 0 \in -1 .. Wait
    BY TreasuryAssumption
  <2> QED
    BY <1>2, <2>1 DEF Stalled, Transfers
<1>4. IF WaitExceeded(w) THEN Fail(w, a, q) ELSE Keep(w, a, q)
  BY DEF PrepareFails
<1> HIDE DEF w
<1>5. Sane(w, V)
  BY <1>2, <1>3, SaneAlike
<1>6. a + w.fee - b = a + s.fee - b
  BY <1>3
<1>7. Hand(w, a, q, p, b, V)
  BY <1>1, <1>2, <1>3, <1>5, <1>6, HandReshapes
<1>8. CASE WaitExceeded(w)
  <2>1. w.moved
    BY <1>8 DEF WaitExceeded, Recoverable, Forwarded, Shadowed
  <2>2. Fail(w, a, q) /\ UNCHANGED outcome
    BY <1>4, <1>8, <2>1 DEF Fail
  <2>3. Now' = V
    BY <1>0, <2>2, NowFields DEF PrepareFails
  <2>4. w.ref.n = 0
    BY <1>3 DEF Waiting, NoRef
  <2> QED
    BY <1>7, <2>1, <2>2, <2>3, <2>4, FailBooks
<1>9. CASE ~WaitExceeded(w)
  <2>1. Keep(w, a, q)
    BY <1>4, <1>9
  <2>2. Now' = V
    BY <1>0, <2>1, NowFields DEF PrepareFails, Keep
  <2>3. AtRest(w)
    BY <1>3 DEF AtRest, Waiting, Converts
  <2> QED
    BY <1>7, <2>1, <2>2, <2>3, KeepBooks
<1> QED
  BY <1>8, <1>9

LEMMA FreshFound ==
    ASSUME \E n \in Auths : auth[n].is = "none"
    PROVE  FreshAuth \in Auths /\ auth[FreshAuth].is = "none"
<1> DEFINE T == {n \in Auths : auth[n].is = "none"}
<1>1. T \in SUBSET Nat /\ T # {}
  BY TreasuryAssumption DEF Auths
<1>2. PICK n \in T : \A m \in T : n <= m
  BY <1>1, LeastElement
<1>3. n \in Auths /\ auth[n].is = "none" /\ n \in Int
  BY <1>2, TreasuryAssumption DEF Auths
<1>4. ASSUME NEW m \in 1 .. n - 1 PROVE auth[m].is # "none"
  <2>1. m \in Auths /\ ~(n <= m)
    BY <1>3, TreasuryAssumption DEF Auths
  <2> QED
    BY <1>2, <2>1
<1> QED
  BY <1>3, <1>4 DEF FreshAuth

LEMMA MoreAuths ==
    ASSUME NEW s, NEW V, Sane(s, V), NEW W, Cardinality(Used(W)) = Cardinality(Used(V)) + 1
    PROVE  s.auths + 1 <= Cardinality(Used(W)) /\ s.auths + 1 \in 0 .. MaxAuths /\ s.auths + 1 # 0
<1>1. s.auths \in 0 .. MaxAuths /\ s.auths <= Cardinality(Used(V))
  BY TransferFields DEF Sane
<1> QED
  BY <1>1, UsedFinite, TreasuryAssumption

(* A conversion is authorized: for the first time, or again after a strand    *)
(* none of whose authorizations can still be debited in time.                 *)
LEMMA TopUpBooks ==
    ASSUME NEW s, NEW a, NEW q, NEW p, NEW b, Hand(s, a, q, p, b, Now), UNCHANGED <<kind, nextId>>,
           s.step = 2, s.ref = NoRef, Converts(s), window \in 0 .. MaxWindow,
           PrepareTopUp(s, a, q)
    PROVE  BooksNext(p, b)
<1>0. PICK V : V = Now
  OBVIOUS
<1>1. Hand(s, a, q, p, b, V)
  BY <1>0
<1>2. /\ World(V) /\ V \in Worlds /\ s \in Transfers /\ s.id \in Ids /\ s.id <= V.next
      /\ V.outcome[s.id] = "open" /\ Sane(s, V) /\ a \in Int /\ b \in Int
      /\ \A e \in Rest(q, p) : e \in Transfers /\ e.id \in Ids /\ e.id # s.id
                               /\ (Converts(s) => ~Converts(e))
  BY <1>1, HandTyped
<1>3. /\ V.leg = leg /\ V.rows = rows /\ V.auth = auth /\ V.outcome = outcome /\ V.kind = kind
      /\ V.next = nextId /\ V.authorized = authorized
  BY <1>0, NowFields
<1>4. PICK n : n = FreshAuth
  OBVIOUS
<1>5. n \in Auths /\ auth[n].is = "none" /\ n # 0 /\ n \in 0 .. MaxAuths
  <2>1. n \in Auths /\ auth[n].is = "none"
    BY <1>4, FreshFound DEF PrepareTopUp
  <2> QED
    BY <2>1, TreasuryAssumption DEF Auths
<1> DEFINE u == [Settled(s) EXCEPT !.ref = [of |-> "auth", n |-> n], !.auths = @ + 1, !.win = window]
           ledger == [auth EXCEPT ![n] = [owner |-> s.id, is |-> "blank", late |-> FALSE]]
           t == Sent(u)
<1>6. /\ SendTopUp(u, a, q, ledger) /\ authorized' = authorized + Tranche
      /\ authorized + Tranche <= TotalCap
  <2>1. authorized + Tranche <= TotalCap
    BY <1>2, <1>3, WorldFields, TreasuryAssumption DEF PrepareTopUp, TopUpRefused
  <2> QED
    BY <1>4, <2>1 DEF PrepareTopUp
<1>7. u.ref.n = n
  BY <1>2 DEF Settled, Transfers
<1>8. \E A \in AuthRecords : A.owner = s.id /\ A.is # "none" /\ auth' = [auth EXCEPT ![n] = A]
  <2>1. auth \in [Auths -> AuthRecords]
    BY <1>2, <1>3, WorldFields DEF AuthRecords
  <2>2. PICK r : r = [owner |-> s.id, is |-> "blank", late |-> FALSE]
    OBVIOUS
  <2>3. r \in AuthRecords /\ r.owner = s.id /\ r.is # "none"
    <3>1. s.id \in 0 .. MaxTransfers
      BY <1>2, TreasuryAssumption DEF Ids
    <3> QED
      BY <2>2, <3>1 DEF AuthRecords, AuthStates
  <2>4. ledger = [auth EXCEPT ![n] = r]
    BY <2>2
  <2> HIDE DEF ledger, u
  <2>5. CASE auth' = ledger
    BY <2>3, <2>4, <2>5
  <2>6. CASE auth' = [ledger EXCEPT ![u.ref.n].is = "live"]
    <3>1. PICK A : A = [r EXCEPT !.is = "live"]
      OBVIOUS
    <3>2. A \in AuthRecords /\ A.owner = s.id /\ A.is # "none"
      BY <2>3, <3>1 DEF AuthRecords, AuthStates
    <3>3. ledger[n] = r
      BY <1>5, <2>1, <2>4
    <3>4. auth' = [ledger EXCEPT ![n] = [r EXCEPT !.is = "live"]]
      BY <1>7, <2>6, <3>3
    <3>5. auth' = [auth EXCEPT ![n] = A]
      BY <1>5, <2>1, <2>4, <3>1, <3>4
    <3> QED
      BY <3>2, <3>5
  <2> QED
    BY <1>6, <2>5, <2>6 DEF SendTopUp
<1>10. PICK A \in AuthRecords :
          A.owner = s.id /\ A.is # "none" /\ auth' = [auth EXCEPT ![n] = A]
  BY <1>8
<1>9. /\ Keep(t, a, q) /\ UNCHANGED <<leg, rows, selfTx>>
  BY <1>6 DEF SendTopUp
<1>11. PICK W : W = AuthBecomes(V, n, A, Tranche)
  OBVIOUS
<1>12. W = Now'
  BY <1>3, <1>6, <1>9, <1>10, <1>11 DEF AuthBecomes, Now, Keep
<1>13. Gone(V, s.id) /\ Owned(V, s.id) = s.old /\ \A m \in s.old : ~Alive(V, m)
  BY <1>2 DEF Sane, NoRef
<1>14. /\ World(W) /\ W.next = V.next /\ W.outcome = V.outcome /\ W.kind = V.kind
       /\ W.authorized = V.authorized + Tranche
       /\ Gone(W, s.id) /\ Owned(W, s.id) = Owned(V, s.id) \cup {n}
       /\ Cardinality(Used(W)) = Cardinality(Used(V)) + 1
       /\ \A m \in Owned(V, s.id) : ~Alive(W, m)
       /\ \A e, j : Named(W, e, j) <=> Named(V, e, j)
       /\ \A e : e.id # s.id /\ ~Converts(e) => Untouched(e, V, W)
  BY <1>2, <1>3, <1>5, <1>6, <1>10, <1>11, <1>13, WorldSigns
<1>15. /\ s.auths + 1 <= Cardinality(Used(W)) /\ s.auths + 1 \in 0 .. MaxAuths /\ s.auths + 1 # 0
  BY <1>2, <1>14, MoreAuths
<1>16. /\ u \in Transfers /\ u.id = s.id /\ u.dir = s.dir /\ u.step = s.step
       /\ u.moved = s.moved /\ u.ref = [of |-> "auth", n |-> n] /\ u.old = s.old
       /\ u.auths = s.auths + 1 /\ u.fee = s.fee
  <2>1. Settled(s) \in Transfers /\ Settled(s) = [s EXCEPT !.stall = -1]
    <3>1. -1 \in -1 .. Wait
      BY TreasuryAssumption
    <3> QED
      BY <1>2, <3>1 DEF Settled, Transfers
  <2>2. [of |-> "auth", n |-> n] \in [of : {"none", "venue", "auth", "forwarded", "self"}, n : 0 .. MaxAuths]
    BY <1>5
  <2>3. Settled(s).auths = s.auths
    BY <1>2 DEF Settled, Transfers
  <2> QED
    BY <1>2, <1>15, <2>1, <2>2, <2>3 DEF Transfers
<1> HIDE DEF u
<1>17. /\ t \in Transfers /\ t.id = s.id /\ t.dir = s.dir /\ t.step = s.step
       /\ t.moved = s.moved /\ t.ref = [of |-> "auth", n |-> n] /\ t.old = s.old
       /\ t.auths = s.auths + 1 /\ t.fee = s.fee
  BY <1>16, SentFields
<1> HIDE DEF t
<1>18. Sane(t, W)
  <2>1. t.ref.n = n /\ t.ref.of = "auth" /\ t.step = 2
    BY <1>17
  <2>2. Owned(W, t.id) = t.old \cup ({t.ref.n} \ {0})
    BY <1>5, <1>13, <1>14, <1>17, <2>1
  <2>3. Converts(t) => \A i \in Ids : Named(W, t, i) => i = t.id
    BY <1>2, <1>14, <1>17 DEF Sane, Named, Converts
  <2>4. \A m \in t.old : ~Alive(W, m)
    BY <1>13, <1>14, <1>17
  <2>5. t.id <= W.next /\ W.outcome[t.id] = "open" /\ (t.moved <=> t.step = 2)
        /\ (Converts(t) <=> W.kind[t.id] = "to_venice") /\ Gone(W, t.id)
    BY <1>2, <1>14, <1>17 DEF Sane, Converts
  <2>6. t.auths <= Cardinality(Used(W)) /\ t.auths # 0
    BY <1>15, <1>17
  <2>7. Converts(t)
    BY <1>17 DEF Converts
  <2> QED
    BY <1>5, <1>17, <2>1, <2>2, <2>3, <2>4, <2>5, <2>6, <2>7 DEF Sane
<1>19. \A e \in Rest(q, p) : Untouched(e, V, W)
  BY <1>2, <1>14
<1>20. a + t.fee - b = a + s.fee - b
  BY <1>17
<1>21. Hand(t, a, q, p, b, W)
  BY <1>1, <1>2, <1>14, <1>17, <1>18, <1>19, <1>20, HandMoves
<1>22. AtRest(t)
  BY <1>17 DEF AtRest, NoRef
<1> QED
  BY <1>9, <1>12, <1>21, <1>22, KeepBooks

(* The reserve mints, or waits for money to pay the mint's fee.               *)
LEMMA SendMintBooks ==
    ASSUME NEW s, NEW a, NEW q, NEW p, NEW b, Hand(s, a, q, p, b, Now), UNCHANGED <<kind, nextId>>,
           s.step = 2, ~Converts(s), SendMint(s, a, q), UNCHANGED authorized
    PROVE  BooksNext(p, b)
<1>0. PICK V : V = Now
  OBVIOUS
<1>1. Hand(s, a, q, p, b, V)
  BY <1>0
<1>2. World(V) /\ s \in Transfers /\ Sane(s, V) /\ a \in Int /\ b \in Int
  BY <1>1, HandTyped
<1>3. Keep(Sent(s), a, q) /\ Now' = V
  BY <1>0, NowFields DEF SendMint, Keep
<1>4. PICK t : t = Sent(s)
  OBVIOUS
<1>5. /\ t \in Transfers /\ t.id = s.id /\ t.dir = s.dir /\ t.step = s.step
      /\ t.moved = s.moved /\ t.ref = s.ref /\ t.old = s.old /\ t.auths = s.auths
      /\ t.fee = s.fee
  BY <1>2, <1>4, SentFields
<1>6. Sane(t, V) /\ a + t.fee - b = a + s.fee - b
  BY <1>2, <1>5, SaneAlike
<1>7. Hand(t, a, q, p, b, V)
  BY <1>1, <1>2, <1>5, <1>6, HandReshapes
<1>8. AtRest(t)
  BY <1>5 DEF AtRest, Converts
<1> QED
  BY <1>3, <1>4, <1>7, <1>8, KeepBooks

LEMMA PrepareMintBooks ==
    ASSUME NEW s, NEW a, NEW q, NEW p, NEW b, Hand(s, a, q, p, b, Now), UNCHANGED <<kind, nextId>>,
           s.step = 2, ~Converts(s), PrepareMint(s, a, q)
    PROVE  BooksNext(p, b)
<1>0. PICK V : V = Now
  OBVIOUS
<1>1. Hand(s, a, q, p, b, V)
  BY <1>0
<1>2. World(V) /\ s \in Transfers /\ Sane(s, V) /\ a \in Int /\ b \in Int
  BY <1>1, HandTyped
<1>3. CASE Keep(s, a, q) /\ UNCHANGED <<leg, rows, auth, selfTx>>
  <2>1. Now' = V
    BY <1>0, <1>3, NowFields DEF Keep, PrepareMint
  <2>2. AtRest(s)
    BY DEF AtRest
  <2> QED
    BY <1>1, <1>3, <2>1, <2>2, KeepBooks
<1>4. ASSUME NEW of \in {"forwarded", "self"},
             SendMint([Settled(s) EXCEPT !.ref = [of |-> of, n |-> 0]], a, q)
      PROVE  BooksNext(p, b)
  <2>1. PICK t : t = [Settled(s) EXCEPT !.ref = [of |-> of, n |-> 0]]
    OBVIOUS
  <2>2. /\ t \in Transfers /\ t.id = s.id /\ t.dir = s.dir /\ t.step = s.step
        /\ t.moved = s.moved /\ t.ref.n = 0 /\ t.old = s.old /\ t.auths = s.auths
        /\ t.fee = s.fee
    <3>1. -1 \in -1 .. Wait /\ 0 \in 0 .. MaxAuths
      BY TreasuryAssumption
    <3>2. /\ Settled(s) \in Transfers /\ Settled(s).id = s.id /\ Settled(s).dir = s.dir
          /\ Settled(s).step = s.step /\ Settled(s).moved = s.moved /\ Settled(s).old = s.old
          /\ Settled(s).auths = s.auths /\ Settled(s).fee = s.fee
      BY <1>2, <3>1 DEF Settled, Transfers
    <3>3. [of |-> of, n |-> 0] \in [of : {"none", "venue", "auth", "forwarded", "self"}, n : 0 .. MaxAuths]
      BY <3>1
    <3> QED
      BY <2>1, <3>2, <3>3 DEF Transfers
  <2>3. Sane(t, V)
    BY <1>2, <2>2 DEF Sane, Converts
  <2>4. a + t.fee - b = a + s.fee - b
    BY <2>2
  <2>5. Hand(t, a, q, p, b, V)
    BY <1>1, <1>2, <2>2, <2>3, <2>4, HandReshapes
  <2>6. t.step = 2 /\ ~Converts(t) /\ SendMint(t, a, q) /\ UNCHANGED authorized
    BY <1>4, <2>1, <2>2 DEF Converts, PrepareMint
  <2> QED
    BY <1>0, <2>5, <2>6, SendMintBooks
<1> QED
  BY <1>3, <1>4 DEF PrepareMint

LEMMA PrepareNextBooks ==
    ASSUME NEW s, NEW a, NEW q, NEW p, NEW b, Hand(s, a, q, p, b, Now), UNCHANGED <<kind, nextId>>,
           Waiting(s), window \in 0 .. MaxWindow, PrepareNext(s, a, q)
    PROVE  BooksNext(p, b)
<1>1. CASE PrepareFails(s, a, q)
  BY <1>1, PrepareFailsBooks
<1>2. CASE Step(s) = "venice_top_up" /\ PrepareTopUp(s, a, q)
  <2>1. Converts(s)
    BY <1>2 DEF Step, Converts, Waiting
  <2> QED
    BY <1>2, <2>1, TopUpBooks DEF Waiting
<1>3. CASE Step(s) = "mint_base" /\ PrepareMint(s, a, q)
  <2>1. ~Converts(s)
    BY <1>3 DEF Step, Converts, Waiting
  <2> QED
    BY <1>3, <2>1, PrepareMintBooks DEF Waiting
<1> QED
  BY <1>1, <1>2, <1>3 DEF PrepareNext

-------------------------------------------------------------------------------
(* What a poll shows is the transfer's own: a row that names no nonce can     *)
(* only be that of the one conversion whose window was open, and a debit is   *)
(* of an authorization that the transfer owns.                                *)
LEMMA PollFacts ==
    ASSUME NEW s, World(Now), Sane(s, Now), NEW o \in Poll(s) \ {Unread, Nothing}
    PROVE  /\ o.is \in {"confirmed", "failed"} /\ o.fee \in Nat /\ o.paid \in Nat
           /\ o.is = "failed" => s.step = 2 /\ ~Converts(s)
           /\ Converts(s) /\ s.step = 1 => Gone(Now, s.id)
           /\ Converts(s) /\ s.step = 2 => \E m \in Owned(Now, s.id) : auth[m].is = "shown"
<1>1. s \in Transfers /\ s.id \in Ids /\ s.dir \in Direction /\ s.step \in {1, 2}
  BY TransferFields DEF Sane
<1>2. \A fee, paid : /\ Confirmed(fee, paid).is = "confirmed" /\ Confirmed(fee, paid).fee = fee
                     /\ Confirmed(fee, paid).paid = paid
                     /\ Refused(fee, paid).is = "failed" /\ Refused(fee, paid).fee = fee
                     /\ Refused(fee, paid).paid = paid
  BY DEF Confirmed, Refused
<1>3. FeeCeil \in Nat /\ 0 .. FeeCeil + 1 \subseteq Nat /\ 0 .. FeeCeil \subseteq Nat /\ 0 \in Nat
  BY TreasuryAssumption
<1>4. CASE Step(s) = "shadow_send"
  <2>1. s.step = 1 /\ Converts(s)
    BY <1>1, <1>4 DEF Step, Converts
  <2>2. Cardinality(Matches(s)) = 1 /\ o = Confirmed(0, 0)
    BY <1>4 DEF Poll
  <2>3. PICK i \in Matches(s) : TRUE
    BY <2>2, FS_EmptySet
  <2>4. i \in Ids /\ leg[i] = "shown" /\ Named(Now, s, i)
    BY <2>3, NowFields DEF Matches, Named
  <2>5. i = s.id
    BY <2>1, <2>4 DEF Sane
  <2>6. Gone(Now, s.id)
    BY <2>4, <2>5, NowFields DEF Gone
  <2> QED
    BY <1>2, <1>3, <2>1, <2>2, <2>6
<1>5. CASE Step(s) = "venice_top_up"
  <2>1. s.step = 2 /\ Converts(s)
    BY <1>1, <1>5 DEF Step, Converts
  <2>2. Debited(s) /\ o = Confirmed(0, 0)
    BY <1>5 DEF Poll
  <2>3. \E m \in Owned(Now, s.id) : auth[m].is = "shown"
    BY <2>2 DEF Debited, Sane
  <2> QED
    BY <1>2, <1>3, <2>1, <2>2, <2>3
<1>6. CASE Step(s) = "withdraw_burn"
  <2>1. s.step = 1 /\ ~Converts(s)
    BY <1>1, <1>6 DEF Step, Converts
  <2>2. \E fee \in 0 .. FeeCeil + 1, paid \in 0 .. FeeCeil : o = Confirmed(fee, paid)
    BY <1>6 DEF Poll
  <2> QED
    BY <1>2, <1>3, <2>1, <2>2
<1>7. CASE Step(s) = "mint_base"
  <2>1. s.step = 2 /\ ~Converts(s)
    BY <1>1, <1>7 DEF Step, Converts
  <2>2. \E fee \in 0 .. FeeCeil : o = Confirmed(fee, fee) \/ o = Refused(fee, 0)
    BY <1>7 DEF Poll
  <2> QED
    BY <1>2, <1>3, <2>1, <2>2
<1> QED
  BY <1>1, <1>4, <1>5, <1>6, <1>7 DEF Step, Direction

LEMMA LeastIs ==
    ASSUME NEW x \in Nat, NEW y \in Nat
    PROVE  Least(x, y) \in 0 .. x
  BY DEF Least

(* The fee hold is remade out of what is left of the ceiling.                 *)
LEMMA ReservedFields ==
    ASSUME NEW s \in Transfers, NEW a \in Int
    PROVE  LET t == ReservedFees(s, a)
           IN  /\ t \in Transfers /\ t.id = s.id /\ t.dir = s.dir /\ t.step = s.step
               /\ t.moved = s.moved /\ t.ref = s.ref /\ t.old = s.old /\ t.auths = s.auths
<1>1. FeesRemaining(s) \in Nat /\ FeesRemaining(s) <= FeeCeil
  BY TransferFields, TreasuryAssumption DEF FeesRemaining
<1>2. (IF a > 0 THEN a ELSE 0) \in Nat
  OBVIOUS
<1>3. Affordable(s, a) \in 0 .. FeesRemaining(s)
  BY <1>1, <1>2, LeastIs DEF Affordable
<1>4. Affordable(s, a) \in 0 .. FeeCeil
  BY <1>1, <1>3, TreasuryAssumption
<1> QED
  BY <1>4 DEF ReservedFees, Transfers

LEMMA BookedFields ==
    ASSUME NEW s \in Transfers, NEW o, NEW a \in Int, o.fee \in Nat, o.paid \in Nat,
           ~Unbookable(s, o)
    PROVE  LET t == Booked(s, o, a)
           IN  /\ t \in Transfers /\ t.id = s.id /\ t.dir = s.dir /\ t.step = s.step
               /\ t.ref = s.ref /\ t.old = s.old /\ t.auths = s.auths
               /\ t.moved = (s.moved \/ (o.is = "confirmed" /\ s.step = 1))
               /\ AvailAfter(s, o, a) \in Int
               /\ AvailAfter(s, o, a) + t.fee = a + s.fee - o.paid
<1> DEFINE u == [Settled(s) EXCEPT !.fees = @ + o.fee,
                                   !.moved = @ \/ (o.is = "confirmed" /\ s.step = 1)]
           c == a + s.fee - o.paid
<1>1. /\ s.fees \in Int /\ s.fees >= 0 /\ s.fee \in Int /\ s.moved \in BOOLEAN
      /\ FeeCeil \in Int
  BY TransferFields, TreasuryAssumption
<1>2. o.fee <= FeeCeil - s.fees /\ o.paid <= o.fee
  BY <1>1 DEF Unbookable
<1>3. s.fees + o.fee \in 0 .. FeeCeil
  BY <1>1, <1>2
<1>4. /\ Settled(s) \in Transfers /\ Settled(s).id = s.id /\ Settled(s).dir = s.dir
      /\ Settled(s).step = s.step /\ Settled(s).ref = s.ref /\ Settled(s).old = s.old
      /\ Settled(s).auths = s.auths /\ Settled(s).fee = s.fee /\ Settled(s).fees = s.fees
      /\ Settled(s).moved = s.moved
  <2>1. -1 \in -1 .. Wait
    BY TreasuryAssumption
  <2> QED
    BY <2>1 DEF Settled, Transfers
<1>5. /\ u \in Transfers /\ u.id = s.id /\ u.dir = s.dir /\ u.step = s.step
      /\ u.ref = s.ref /\ u.old = s.old /\ u.auths = s.auths /\ u.fee = s.fee
      /\ u.moved = (s.moved \/ (o.is = "confirmed" /\ s.step = 1))
  <2> PICK r : r = Settled(s)
    OBVIOUS
  <2>1. (s.moved \/ (o.is = "confirmed" /\ s.step = 1)) \in BOOLEAN
    OBVIOUS
  <2>2. u = [r EXCEPT !.fees = s.fees + o.fee,
                      !.moved = s.moved \/ (o.is = "confirmed" /\ s.step = 1)]
    BY <1>4
  <2> HIDE DEF u
  <2>3. r \in Transfers
    BY <1>4
  <2>4. u \in Transfers
    BY <1>3, <2>1, <2>2, <2>3 DEF Transfers
  <2>5. /\ u.id = r.id /\ u.dir = r.dir /\ u.step = r.step
        /\ u.ref = r.ref /\ u.old = r.old /\ u.auths = r.auths /\ u.fee = r.fee
        /\ u.moved = (s.moved \/ (o.is = "confirmed" /\ s.step = 1))
    BY <2>2, <2>3 DEF Transfers
  <2> QED
    BY <1>4, <2>4, <2>5
<1>6. c \in Int
  BY <1>1
<1>7. Booked(s, o, a) = IF o.fee = 0 THEN u ELSE ReservedFees(u, c)
  BY DEF Booked
<1> HIDE DEF u, c
<1>8. CASE o.fee = 0
  <2>1. o.paid = 0 /\ Booked(s, o, a) = u /\ AvailAfter(s, o, a) = a
    BY <1>2, <1>7, <1>8 DEF AvailAfter
  <2> QED
    BY <1>1, <1>5, <2>1
<1>9. CASE o.fee # 0
  <2>1. PICK t : t = Booked(s, o, a)
    OBVIOUS
  <2>2. t = ReservedFees(u, c)
    BY <1>7, <1>9, <2>1
  <2>3. /\ t \in Transfers /\ t.id = s.id /\ t.dir = s.dir /\ t.step = s.step
        /\ t.ref = s.ref /\ t.old = s.old /\ t.auths = s.auths
        /\ t.moved = (s.moved \/ (o.is = "confirmed" /\ s.step = 1))
    BY <1>5, <1>6, <2>2, ReservedFields
  <2>5. t.fee \in Int
    BY <2>3, TransferFields
  <2>4. AvailAfter(s, o, a) = c - t.fee
    BY <1>1, <1>9, <2>1, <2>5 DEF AvailAfter, c
  <2>6. AvailAfter(s, o, a) \in Int /\ AvailAfter(s, o, a) + t.fee = c
    BY <1>6, <2>4, <2>5
  <2> QED
    BY <2>1, <2>3, <2>6 DEF c
<1> QED
  BY <1>8, <1>9

(* Evidence is booked, and the transfer fails, ends or goes on.               *)
LEMMA ReconcileBooks ==
    ASSUME NEW s, NEW a, NEW q, NEW p, Hand(s, a, q, p, book, Now), UNCHANGED <<kind, nextId>>,
           window \in 0 .. MaxWindow, NEW o \in Poll(s) \ {Unread, Nothing}, Reconcile(s, o, a, q)
    PROVE  BooksNext(p, book')
<1>0. PICK V : V = Now
  OBVIOUS
<1>1. Hand(s, a, q, p, book, V)
  BY <1>0
<1>2. /\ World(V) /\ s \in Transfers /\ s.id \in Ids /\ s.id <= V.next /\ Sane(s, V)
      /\ a \in Int /\ book \in Int /\ s.step \in {1, 2} /\ s.fee \in Int
      /\ \A e \in Rest(q, p) : e \in Transfers /\ e.id \in Ids /\ e.id # s.id
  BY <1>1, HandTyped, TransferFields
<1>3. /\ o.is \in {"confirmed", "failed"} /\ o.fee \in Nat /\ o.paid \in Nat
      /\ o.is = "failed" => s.step = 2 /\ ~Converts(s)
      /\ Converts(s) /\ s.step = 1 => Gone(V, s.id)
      /\ Converts(s) /\ s.step = 2 => \E m \in Owned(V, s.id) : auth[m].is = "shown"
  BY <1>0, <1>2, PollFacts
<1>4. PICK t : t = Booked(s, o, a)
  OBVIOUS
<1>5. PICK c : c = AvailAfter(s, o, a)
  OBVIOUS
<1>6. /\ t \in Transfers /\ t.id = s.id /\ t.dir = s.dir /\ t.step = s.step
      /\ t.ref = s.ref /\ t.old = s.old /\ t.auths = s.auths /\ t.fee \in Int
      /\ t.moved = (s.moved \/ (o.is = "confirmed" /\ s.step = 1))
      /\ c \in Int /\ c + t.fee = a + s.fee - o.paid
  BY <1>2, <1>3, <1>4, <1>5, BookedFields, TransferFields DEF Reconcile
<1>7. book' = book - o.paid + Credit(s, o) /\ Tranche \in Int /\ book - o.paid \in Int
  BY <1>2, <1>3, TreasuryAssumption DEF Reconcile
<1>8. c + t.fee - (book - o.paid) = a + s.fee - book
  BY <1>2, <1>3, <1>6
<1>9. s.step = 2 => Sane(t, V) /\ Hand(t, c, q, p, book - o.paid, V)
  <2> SUFFICES ASSUME s.step = 2 PROVE Sane(t, V) /\ Hand(t, c, q, p, book - o.paid, V)
    OBVIOUS
  <2>1. s.moved = TRUE /\ t.moved = s.moved
    BY <1>2, <1>6, TransferFields DEF Sane
  <2>2. Sane(t, V)
    BY <1>2, <1>6, <2>1, SaneAlike
  <2> QED
    BY <1>1, <1>2, <1>6, <1>7, <1>8, <2>2, HandReshapes
<1>10. CASE /\ o.is = "failed" /\ Fail(t, c, q)
            /\ UNCHANGED <<authorized, spent, auth, leg, rows>>
  <2>1. s.step = 2 /\ ~Converts(s) /\ t.moved /\ t.ref.n = 0
    BY <1>2, <1>3, <1>6, <1>10 DEF Sane
  <2>2. Credit(s, o) = 0 /\ book' = book - o.paid
    BY <1>2, <1>3, <1>7, <1>10 DEF Credit
  <2>3. Now' = V
    BY <1>0, <1>10, <2>1, NowFields DEF Fail
  <2> QED
    BY <1>9, <1>10, <2>1, <2>2, <2>3, FailBooks
<1>11. CASE /\ o.is = "confirmed" /\ s.step = 2 /\ Confirm(t, c, q)
            /\ UNCHANGED <<authorized, spent, auth, leg, rows, selfTx>>
  <2>1. PICK W : W = OutcomeBecomes(V, s.id, "confirmed")
    OBVIOUS
  <2>2. V.kind[s.id] = "to_venice" =>
            Gone(V, s.id) /\ \E m \in Owned(V, s.id) : V.auth[m].is = "shown"
    BY <1>0, <1>2, <1>3, <1>11, NowFields DEF Sane
  <2>3. /\ World(W) /\ W.next = V.next /\ W.outcome[s.id] # "open"
        /\ \A j \in Ids : j # s.id => W.outcome[j] = V.outcome[j]
        /\ \A e : e.id # s.id /\ e.id \in Ids => Untouched(e, V, W)
    BY <1>2, <2>1, <2>2, WorldCloses
  <2>4. PICK k \in Int : k = IF s.dir = "to_venice" THEN Tranche ELSE 0
    BY <1>7
  <2>5. Credit(s, o) = k /\ slot' = Idle /\ stranded' = q /\ avail' = c + k + Tranche + t.fee
        /\ outcome' = [outcome EXCEPT ![s.id] = "confirmed"]
    BY <1>6, <1>11, <2>4 DEF Credit, Confirm
  <2>6. W = Now'
    BY <1>0, <1>11, <2>1, <2>5, NowFields DEF OutcomeBecomes, Now
  <2>7. book' \in Int /\ avail' \in Int
        /\ avail' - book' = (c + Tranche + t.fee) - (book - o.paid)
    <3>1. PICK d \in Int : d = book - o.paid
      BY <1>7
    <3>2. book' = d + k
      BY <1>7, <2>5, <3>1
    <3> QED
      BY <1>6, <1>7, <2>5, <3>1, <3>2
  <2>8. (c + Tranche + t.fee) - (book - o.paid) = c + Tranche + t.fee - (book - o.paid)
    BY <1>6, <1>7
  <2>9. \A e \in Rest(q, p) : Untouched(e, V, W)
    BY <1>2, <2>3
  <2>10. Hand(t, c, q, p, book - o.paid, V) /\ t.id = s.id
    BY <1>6, <1>9, <1>11
  <2>11. avail' - book' = c + Tranche + t.fee - (book - o.paid)
    BY <2>7, <2>8
  <2>12. Bare(avail', q, p, book', W)
    <3>1. PICK n, m : n = avail' /\ m = book'
      OBVIOUS
    <3>2. n \in Int /\ m \in Int /\ n - m = c + Tranche + t.fee - (book - o.paid)
      BY <2>7, <2>11, <3>1
    <3>3. W.outcome[t.id] # "open" /\ \A j \in Ids : j # t.id => W.outcome[j] = V.outcome[j]
      BY <2>3, <2>10
    <3>4. Bare(n, q, p, m, W)
      BY <2>3, <2>9, <2>10, <3>2, <3>3, HandCloses
    <3> QED
      BY <3>1, <3>4
  <2> QED
    BY <2>5, <2>6, <2>12 DEF BooksNext, Books
<1>12. CASE /\ o.is = "confirmed" /\ s.step = 1
            /\ PrepareNext([t EXCEPT !.step = 2, !.ref = NoRef, !.first = TRUE], c, q)
  <2>1. PICK u : u = [t EXCEPT !.step = 2, !.ref = NoRef, !.first = TRUE]
    OBVIOUS
  <2>2. /\ u \in Transfers /\ u.id = s.id /\ u.dir = s.dir /\ u.step = 2 /\ u.ref = NoRef
        /\ u.moved = TRUE /\ u.old = s.old /\ u.auths = s.auths /\ u.fee = t.fee
    <3>1. NoRef \in [of : {"none", "venue", "auth", "forwarded", "self"}, n : 0 .. MaxAuths]
      BY TreasuryAssumption DEF NoRef
    <3>2. t.moved = TRUE
      BY <1>6, <1>12
    <3> QED
      BY <1>6, <2>1, <3>1, <3>2 DEF Transfers
  <2>3. s.auths = 0 /\ s.old = {} /\ Owned(V, s.id) = {}
    BY <1>2, <1>12 DEF Sane
  <2>4. Sane(u, V)
    <3>1. Owned(V, u.id) = u.old \cup ({u.ref.n} \ {0})
      BY <2>2, <2>3 DEF NoRef
    <3>2. Converts(u) => Gone(V, u.id)
      BY <1>3, <1>12, <2>2 DEF Converts
    <3>3. Converts(u) => \A i \in Ids : Named(V, u, i) => i = u.id
      BY <1>2, <2>2 DEF Sane, Converts, Named
    <3>4. u.ref.n = 0
      BY <2>2 DEF NoRef
    <3> QED
      BY <1>2, <2>2, <2>3, <3>1, <3>2, <3>3, <3>4 DEF Sane, Converts
  <2>5. Credit(s, o) = 0 /\ book' = book - o.paid
    BY <1>2, <1>3, <1>7, <1>12 DEF Credit
  <2>6. c + u.fee - (book - o.paid) = a + s.fee - book
    BY <1>8, <2>2
  <2>7. Hand(u, c, q, p, book - o.paid, V)
    BY <1>1, <1>2, <1>6, <1>7, <2>2, <2>4, <2>6, HandReshapes
  <2>8. Waiting(u)
    BY <2>2, <2>3 DEF Waiting
  <2> QED
    BY <1>0, <1>12, <2>1, <2>5, <2>7, <2>8, PrepareNextBooks
<1> QED
  BY <1>4, <1>5, <1>10, <1>11, <1>12 DEF Reconcile

-------------------------------------------------------------------------------
(* The treasury's steps.                                                      *)

LEMMA HandOrBare ==
    ASSUME Books(slot, avail, stranded, parked, book, Now)
    PROVE  /\ slot = Idle => Bare(avail, stranded, parked, book, Now)
           /\ slot # Idle => /\ slot \in Transfers /\ AtRest(slot)
                             /\ Hand(slot, avail, stranded, parked, book, Now)
           /\ World(Now) /\ avail \in Int /\ book \in Int
           /\ nextId \in 0 .. MaxTransfers /\ nextId \in Int
           /\ authorized \in 0 .. TotalCap /\ authorized \in Int
<1>1. \A s \in Transfers : s # Idle
  BY TransferFields
<1>2. World(Now) /\ avail \in Int /\ book \in Int
  BY HandTyped DEF Books, Bare
<1> QED
  BY <1>1, <1>2, NowFields, WorldFields DEF Books, World

(* What was asked is written down before anything goes out.                   *)
LEMMA NewBooks ==
    ASSUME Bare(avail, stranded, parked, book, Now), nextId < MaxTransfers, nextId' = nextId + 1,
           NEW k \in Kinds, kind' = [kind EXCEPT ![nextId'] = k],
           NEW dir \in Direction, NEW forward \in BOOLEAN, NEW fee \in 0 .. FeeCeil,
           window \in 0 .. MaxWindow, dir = "to_venice" <=> k = "to_venice",
           dir = "to_venice" => /\ authorized + Tranche <= TotalCap
                                /\ \A e \in Rest(stranded, parked) : ~Converts(e),
           NEW a, a = avail - Tranche - fee
    PROVE  /\ Hand(Fresh(nextId', dir, forward, fee), a, stranded, parked, book, Call)
           /\ Fresh(nextId', dir, forward, fee).step = 1
<1>0. PICK V, W, t : V = Now /\ W = Call /\ t = Fresh(nextId', dir, forward, fee)
  OBVIOUS
<1>1. World(V) /\ V \in Worlds /\ Shelf(stranded, parked, V) /\ avail \in Int /\ book \in Int
      /\ stranded \in Seq(Transfers) /\ parked \in Seq(Transfers)
  BY <1>0 DEF Bare, World, Shelf
<1>2. /\ V.leg = leg /\ V.rows = rows /\ V.auth = auth /\ V.outcome = outcome /\ V.kind = kind
      /\ V.next = nextId /\ V.authorized = authorized
  BY <1>0, NowFields
<1>3. /\ W.leg = leg /\ W.rows = rows /\ W.auth = auth /\ W.outcome = outcome
      /\ W.kind = kind' /\ W.next = nextId' /\ W.authorized = authorized
  BY <1>0 DEF Call
<1>4. /\ nextId \in Int /\ nextId >= 0 /\ nextId' \in Ids /\ nextId' \in 0 .. MaxTransfers
      /\ nextId' > nextId
  BY <1>1, <1>2, WorldFields, TreasuryAssumption, SMTT(20) DEF Ids
<1>5. kind' \in [Ids -> Kinds] /\ kind'[nextId'] = k
      /\ \A i \in Ids : i # nextId' => kind'[i] = kind[i]
  BY <1>1, <1>2, <1>4, WorldFields
<1>6. W \in Worlds
  BY <1>0, <1>1, <1>2, <1>4, <1>5, WorldFields DEF Worlds, Call
<1>7. /\ Used(W) = Used(V) /\ (\A i : Owned(W, i) = Owned(V, i)) /\ (\A i : Gone(W, i) <=> Gone(V, i))
      /\ \A m : Alive(W, m) <=> Alive(V, m)
  BY <1>2, <1>3 DEF Used, Owned, Gone, Alive
<1>8. outcome[nextId'] = "open" /\ leg[nextId'] = "idle" /\ rows[nextId'] = {}
      /\ Owned(V, nextId') = {}
  <2>1. \A m \in Used(V) : V.auth[m].owner # nextId'
    BY <1>1, <1>2, <1>4 DEF World
  <2> QED
    BY <1>1, <1>2, <1>4, <2>1 DEF World, Owned
<1>9. World(W)
  <2>1. \A i \in Ids : /\ W.rows[i] \subseteq 1 .. W.next
                       /\ i > W.next => W.leg[i] = "idle" /\ W.outcome[i] = "open" /\ W.rows[i] = {}
    <3> SUFFICES ASSUME NEW i \in Ids
                 PROVE  /\ rows[i] \subseteq 1 .. nextId'
                        /\ i > nextId' => leg[i] = "idle" /\ outcome[i] = "open" /\ rows[i] = {}
      BY <1>3
    <3>1. rows[i] \subseteq 1 .. nextId
      BY <1>1, <1>2 DEF World
    <3>2. 1 .. nextId \subseteq 1 .. nextId'
      BY <1>4
    <3>3. i > nextId' => i > nextId
      BY <1>4 DEF Ids
    <3> QED
      BY <1>1, <1>2, <3>1, <3>2, <3>3 DEF World
  <2>2. \A i \in Ids : W.kind[i] = "to_venice" /\ W.outcome[i] = "confirmed" =>
            Gone(W, i) /\ \E m \in Owned(W, i) : W.auth[m].is = "shown"
    BY <1>1, <1>2, <1>3, <1>5, <1>7, <1>8 DEF World
  <2>3. \A m \in Used(W) : W.auth[m].owner \in 1 .. W.next /\ Gone(W, W.auth[m].owner)
    <3> SUFFICES ASSUME NEW m \in Used(V)
                 PROVE  auth[m].owner \in 1 .. nextId' /\ Gone(V, auth[m].owner)
      BY <1>3, <1>7
    <3>1. auth[m].owner \in 1 .. nextId /\ Gone(V, auth[m].owner)
      BY <1>1, <1>2 DEF World
    <3> QED
      BY <1>4, <3>1
  <2> QED
    BY <1>1, <1>2, <1>3, <1>6, <1>7, <2>1, <2>2, <2>3 DEF World
<1>10. \A e \in Rest(stranded, parked) :
          e \in Transfers /\ Sane(e, V) /\ e.id \in Ids /\ e.id # nextId' /\ Untouched(e, V, W)
  <2> SUFFICES ASSUME NEW e \in Rest(stranded, parked)
               PROVE  e \in Transfers /\ Sane(e, V) /\ e.id \in Ids /\ e.id # nextId' /\ Untouched(e, V, W)
    OBVIOUS
  <2>1. e \in Transfers /\ Sane(e, V) /\ e.id \in Ids /\ e.id \in Int
    BY <1>1, ShelfSet, TransferFields DEF Shelf, Rest, Stranded, Parked
  <2>2. e.id # nextId'
    BY <1>2, <1>4, <2>1 DEF Sane
  <2>3. \A i \in Ids : Named(W, e, i) => Named(V, e, i)
    BY <1>2, <1>3, <1>5, <1>8 DEF Named
  <2>4. V.next <= W.next
    BY <1>2, <1>3, <1>4
  <2> QED
    BY <1>2, <1>3, <1>5, <1>7, <2>1, <2>2, <2>3, <2>4, UsedFinite DEF Untouched
<1>11. Shelf(stranded, parked, W)
  BY <1>1, <1>9, <1>10, ShelfKept
<1>12. /\ t.id = nextId' /\ t.dir = dir /\ t.step = 1 /\ t.moved = FALSE /\ t.old = {} /\ t.auths = 0
       /\ t.fee = fee /\ t.ref = [of |-> "venue", n |-> 0]
  BY <1>0 DEF Fresh
<1>13. t \in Transfers
  <2>1. /\ 0 \in 0 .. FeeCeil /\ -1 \in -1 .. Wait /\ 0 \in 0 .. MaxAuths
    BY TreasuryAssumption
  <2>2. [of |-> "venue", n |-> 0] \in [of : {"none", "venue", "auth", "forwarded", "self"}, n : 0 .. MaxAuths]
    BY <2>1
  <2> QED
    BY <1>0, <1>4, <2>1, <2>2 DEF Fresh, Transfers, Direction
<1>14. Sane(t, W)
  <2>1. Converts(t) <=> W.kind[t.id] = "to_venice"
    BY <1>3, <1>5, <1>12 DEF Converts
  <2>2. Owned(W, t.id) = t.old \cup ({t.ref.n} \ {0})
    BY <1>7, <1>8, <1>12
  <2>3. t.auths <= Cardinality(Used(W))
    BY <1>12, UsedFinite
  <2>4. \A i \in Ids : ~Named(W, t, i)
    <3> SUFFICES ASSUME NEW i \in Ids PROVE nextId' \notin rows[i]
      BY <1>3, <1>12 DEF Named
    <3>1. rows[i] \subseteq 1 .. nextId
      BY <1>1, <1>2 DEF World
    <3> QED
      BY <1>4, <3>1
  <2>5. Converts(t) => W.authorized + Tranche <= TotalCap
    BY <1>3, <1>12 DEF Converts
  <2>6. t.id <= W.next /\ W.outcome[t.id] = "open"
    BY <1>3, <1>4, <1>8, <1>12
  <2> QED
    BY <1>12, <1>13, <2>1, <2>2, <2>3, <2>4, <2>5, <2>6 DEF Sane
<1>15. Beside(t, stranded, parked)
  BY <1>10, <1>12 DEF Beside, Converts
<1>16. a \in Int /\ a + Tranche + t.fee + Held(stranded, parked) = book
  <2>1. Held(stranded, parked) \in Int /\ fee \in Int /\ Tranche \in Int
    BY <1>1, ShelfSet, TreasuryAssumption
  <2>2. avail + Held(stranded, parked) = book
    BY DEF Bare
  <2> QED
    BY <1>1, <1>12, <2>1, <2>2
<1>17. Covered(Names(stranded, parked) \cup {t.id}, W)
  <2> SUFFICES ASSUME NEW i \in 1 .. nextId', outcome[i] = "open", i # nextId'
               PROVE  i \in Names(stranded, parked)
    BY <1>3, <1>12 DEF Covered
  <2>1. i \in 1 .. nextId
    BY <1>4
  <2> QED
    BY <1>0, <1>2, <2>1 DEF Bare, Covered
<1> QED
  BY <1>0, <1>1, <1>9, <1>11, <1>12, <1>14, <1>15, <1>16, <1>17 DEF Hand

LEMMA OwedIsNat ==
    ASSUME stranded \in Seq(Transfers), parked \in Seq(Transfers)
    PROVE  Owed \in Nat
<1>1. /\ IsFiniteSet({i \in 1 .. Len(stranded) : stranded[i].dir = "to_venice"})
      /\ IsFiniteSet({i \in 1 .. Len(parked) : parked[i].dir = "to_venice"})
  <2>1. Len(stranded) \in Int /\ Len(parked) \in Int /\ 1 \in Int
    OBVIOUS
  <2>2. IsFiniteSet(1 .. Len(stranded)) /\ IsFiniteSet(1 .. Len(parked))
    BY <2>1, FS_Interval
  <2> QED
    BY <2>2, FS_Subset
<1> QED
  BY <1>1, FS_CardinalityType DEF Owed

LEMMA ToVeniceBooks ==
    ASSUME TreasuryInv, ToVenice
    PROVE  TreasuryInv'
<1>1. slot = Idle /\ Bare(avail, stranded, parked, book, Now) /\ authorized \in Int /\ nextId \in Int
      /\ avail \in Int
  BY HandOrBare DEF TreasuryInv, ToVenice, Blocking
<1>2. stranded \in Seq(Transfers) /\ parked \in Seq(Transfers)
  BY <1>1 DEF Bare, Shelf
<1>3. authorized + Tranche <= TotalCap
  <2>1. Owed \in Nat /\ Tranche \in Nat /\ TotalCap \in Int
    BY <1>2, OwedIsNat, TreasuryAssumption
  <2>2. \A x, y \in Nat : x * y \in Nat
    OBVIOUS
  <2>3. Tranche * Owed \in Nat
    BY <2>1, <2>2
  <2>4. PICK n \in Nat : n = Tranche * Owed
    BY <2>3
  <2>5. ~(authorized + n + Tranche > TotalCap)
    BY <2>4 DEF ToVenice, TotalExhausted
  <2> QED
    BY <1>1, <2>1, <2>5
<1>4. \A e \in Rest(stranded, parked) : ~Converts(e)
  <2>1. \A e \in Elems(stranded) : e.moved /\ ~Shadowed(e)
    BY <1>1 DEF Bare, Shelf, Stranded, ToVenice, StrandedConversion, Elems
  <2>2. \A e \in Elems(parked) : e.dir # "to_venice"
    BY DEF ToVenice, UnresolvedShadow, Elems
  <2> QED
    BY <2>1, <2>2 DEF Rest, Converts, Shadowed
<1>5. PICK s : s = Fresh(nextId', "to_venice", FALSE, 0)
  OBVIOUS
<1>6. Hand(s, avail - Tranche, stranded, parked, book, Call) /\ s.step = 1
  <2>1. "to_venice" \in Direction /\ "to_venice" \in Kinds /\ 0 \in 0 .. FeeCeil
    BY TreasuryAssumption DEF Direction, Kinds
  <2>2. avail - Tranche = avail - Tranche - 0
    BY <1>1, TreasuryAssumption
  <2>3. /\ nextId < MaxTransfers /\ nextId' = nextId + 1
        /\ kind' = [kind EXCEPT ![nextId'] = "to_venice"] /\ window \in 0 .. MaxWindow
    BY DEF ToVenice, TreasuryInv, Bounds
  <2> QED
    BY <1>1, <1>3, <1>4, <1>5, <2>1, <2>2, <2>3, NewBooks
<1>7. SendLeg(s, avail - Tranche, stranded) /\ UNCHANGED authorized
  BY <1>5 DEF ToVenice
<1>8. BooksNext(parked, book)
  BY <1>6, <1>7, SendLegBooks
<1>9. Bounds'
  <2>1. spent' \in 0 .. WindowCap
    BY TreasuryAssumption DEF TreasuryInv, Bounds, ToVenice
  <2>2. lapsed \subseteq 1 .. nextId'
    BY <1>1 DEF TreasuryInv, Bounds, ToVenice
  <2> QED
    BY <2>1, <2>2 DEF TreasuryInv, Bounds, ToVenice
<1> QED
  BY <1>8, <1>9 DEF TreasuryInv, BooksNext, ToVenice

LEMMA ToReserveBooks ==
    ASSUME TreasuryInv, NEW forward \in BOOLEAN, ToReserve(forward)
    PROVE  TreasuryInv'
<1>1. slot = Idle /\ Bare(avail, stranded, parked, book, Now) /\ nextId \in Int /\ avail \in Int
  BY HandOrBare DEF TreasuryInv, ToReserve, Blocking
<1>2. PICK k : k = IF forward THEN "forwarded" ELSE "exit"
  OBVIOUS
<1>3. PICK s : s = Fresh(nextId', "to_reserve", forward, FeeCeil)
  OBVIOUS
<1>4. Hand(s, avail - Tranche - FeeCeil, stranded, parked, book, Call) /\ s.step = 1
  <2>1. "to_reserve" \in Direction /\ k \in Kinds /\ k # "to_venice" /\ FeeCeil \in 0 .. FeeCeil
    BY <1>2, TreasuryAssumption DEF Direction, Kinds
  <2>2. /\ nextId < MaxTransfers /\ nextId' = nextId + 1
        /\ kind' = [kind EXCEPT ![nextId'] = k] /\ window \in 0 .. MaxWindow
    BY <1>2 DEF ToReserve, TreasuryInv, Bounds
  <2> QED
    BY <1>1, <1>3, <2>1, <2>2, NewBooks
<1>5. SendLeg(s, avail - Tranche - FeeCeil, stranded) /\ UNCHANGED authorized
  BY <1>3 DEF ToReserve
<1>6. BooksNext(parked, book)
  BY <1>4, <1>5, SendLegBooks
<1>7. Bounds'
  <2>1. forwardSpent' \in 0 .. ForwardCap
    BY TreasuryAssumption DEF TreasuryInv, Bounds, ToReserve
  <2>2. lapsed \subseteq 1 .. nextId'
    BY <1>1 DEF TreasuryInv, Bounds, ToReserve
  <2> QED
    BY <2>1, <2>2 DEF TreasuryInv, Bounds, ToReserve
<1> QED
  BY <1>6, <1>7 DEF TreasuryInv, BooksNext, ToReserve

LEMMA UnparkBooks ==
    ASSUME TreasuryInv, Unpark
    PROVE  Books(slot, avail, stranded, parked, book, Now)'
<1>1. Bare(avail, stranded, parked, book, Now) /\ window \in 0 .. MaxWindow
  <2>1. slot = Idle
    BY DEF Unpark, Blocking
  <2>2. Books(slot, avail, stranded, parked, book, Now) /\ window \in 0 .. MaxWindow
    BY DEF TreasuryInv, Bounds
  <2> QED
    BY <2>1, <2>2, HandOrBare
<1>2. PICK i \in 1 .. Len(parked) : \E o \in Poll(parked[i]) \ {Unread, Nothing} :
         /\ Reconcile(parked[i], o, avail, stranded)
         /\ parked' = Without(parked, i)
  BY DEF Unpark, Without
<1>7. PICK o \in Poll(parked[i]) \ {Unread, Nothing} :
         /\ Reconcile(parked[i], o, avail, stranded)
         /\ parked' = Without(parked, i)
  BY <1>2
<1>3. Hand(parked[i], avail, stranded, Without(parked, i), book, Now)
  BY <1>1, HandUnparks
<1>4. UNCHANGED <<kind, nextId>>
  BY DEF Unpark, TickFrame
<1>5. PICK s, p : s = parked[i] /\ p = Without(parked, i)
  OBVIOUS
<1>6. BooksNext(p, book')
  BY <1>1, <1>7, <1>3, <1>4, <1>5, ReconcileBooks
<1> QED
  BY <1>7, <1>5, <1>6 DEF BooksNext

LEMMA Greatest ==
    ASSUME NEW T \in SUBSET Auths, T # {}
    PROVE  \E n \in T : \A m \in T : m <= n
<1> DEFINE D == {k \in Nat : \E n \in T : k = MaxAuths - n}
<1>1. \A n \in T : n \in Int /\ MaxAuths - n \in Nat
  BY TreasuryAssumption DEF Auths
<1>2. D \in SUBSET Nat /\ D # {}
  BY <1>1
<1>3. PICK k \in D : \A j \in D : k <= j
  BY <1>2, LeastElement
<1>4. PICK n \in T : k = MaxAuths - n
  BY <1>3
<1>5. ASSUME NEW m \in T PROVE m <= n
  <2>1. MaxAuths - m \in D
    BY <1>1
  <2>2. MaxAuths - n <= MaxAuths - m
    BY <1>3, <1>4, <2>1
  <2> QED
    BY <1>1, <1>4, <2>2, TreasuryAssumption
<1> QED
  BY <1>4, <1>5

(* A recovered strand supersedes every authorization it owns.                 *)
LEMMA SupersededFields ==
    ASSUME NEW V, NEW z, Sane(z, V), z.step = 2
    PROVE  LET s == [Superseded(z) EXCEPT !.first = TRUE]
           IN  /\ s \in Transfers /\ s.id = z.id /\ s.dir = z.dir /\ s.step = z.step
               /\ s.moved = z.moved /\ s.ref = NoRef /\ s.auths = z.auths
               /\ s.old = Owned(V, z.id) /\ s.fee = z.fee
<1>1. z \in Transfers /\ z.ref.n \in 0 .. MaxAuths /\ z.old \subseteq Auths
  BY TransferFields DEF Sane
<1>2. PICK s : s = [Superseded(z) EXCEPT !.first = TRUE]
  OBVIOUS
<1>3. PICK r : r = Superseded(z)
  OBVIOUS
<1>4. NoRef \in [of : {"none", "venue", "auth", "forwarded", "self"}, n : 0 .. MaxAuths]
  BY TreasuryAssumption DEF NoRef
<1>5. /\ r \in Transfers /\ r.id = z.id /\ r.dir = z.dir /\ r.step = z.step /\ r.moved = z.moved
      /\ r.ref = NoRef /\ r.auths = z.auths /\ r.old = Owned(V, z.id) /\ r.fee = z.fee
  <2>1. CASE z.dir = "to_venice" /\ z.ref # NoRef
    <3>1. z.ref.n \in Auths /\ z.ref.n # 0
      BY <1>1, <2>1, TreasuryAssumption DEF Sane, Converts, Auths
    <3>2. Owned(V, z.id) = z.old \cup {z.ref.n} /\ z.old \cup {z.ref.n} \subseteq Auths
      BY <1>1, <3>1 DEF Sane
    <3>3. r = [z EXCEPT !.old = z.old \cup {z.ref.n}, !.ref = NoRef]
      BY <1>3, <2>1 DEF Superseded
    <3> QED
      BY <1>1, <1>4, <3>2, <3>3 DEF Transfers
  <2>2. CASE ~(z.dir = "to_venice" /\ z.ref # NoRef)
    <3>1. z.ref.n = 0
      BY <1>1, <2>2 DEF Sane, Converts, NoRef
    <3>2. Owned(V, z.id) = z.old
      BY <1>1, <3>1 DEF Sane
    <3>3. r = [z EXCEPT !.ref = NoRef]
      BY <1>3, <2>2 DEF Superseded
    <3> QED
      BY <1>1, <1>4, <3>2, <3>3 DEF Transfers
  <2> QED
    BY <2>1, <2>2
<1>6. /\ s \in Transfers /\ s.id = z.id /\ s.dir = z.dir /\ s.step = z.step /\ s.moved = z.moved
      /\ s.ref = NoRef /\ s.auths = z.auths /\ s.old = Owned(V, z.id) /\ s.fee = z.fee
  BY <1>2, <1>3, <1>5 DEF Transfers
<1> QED
  BY <1>2, <1>6

LEMMA RecoverBooks ==
    ASSUME TreasuryInv, Recover
    PROVE  Books(slot, avail, stranded, parked, book, Now)'
<1>0. PICK V, z, q : V = Now /\ z = Head(stranded) /\ q = Tail(stranded)
  OBVIOUS
<1>1. Hand(z, avail, q, parked, book, V) /\ Stranded(z, V) /\ window \in 0 .. MaxWindow
  <2>1. Bare(avail, stranded, parked, book, Now) /\ stranded # <<>>
    BY HandOrBare DEF TreasuryInv, Recover, Blocking
  <2> QED
    BY <1>0, <2>1, HandRecovers DEF TreasuryInv, Bounds
<1>2. World(V) /\ z \in Transfers /\ Sane(z, V) /\ avail \in Int /\ book \in Int /\ z.fee = 0
      /\ z.moved /\ z.step = 2 /\ z.ref.n \in 0 .. MaxAuths /\ z.old \subseteq Auths
      /\ z.dir \in Direction
  BY <1>1, HandTyped, TransferFields DEF Stranded, Sane
<1>3. PICK s : s = [Superseded(z) EXCEPT !.first = TRUE]
  OBVIOUS
<1>4. PICK b : b = ReservedFees(s, avail)
  OBVIOUS
<1>5. /\ s \in Transfers /\ s.id = z.id /\ s.dir = z.dir /\ s.step = z.step /\ s.moved = z.moved
      /\ s.ref = NoRef /\ s.auths = z.auths /\ s.old = Owned(V, z.id) /\ s.fee = z.fee
  BY <1>2, <1>3, SupersededFields
<1>6. /\ b \in Transfers /\ b.id = s.id /\ b.dir = s.dir /\ b.step = s.step
      /\ b.moved = s.moved /\ b.ref = s.ref /\ b.old = s.old /\ b.auths = s.auths
      /\ b.fee \in Int
  BY <1>2, <1>4, <1>5, ReservedFields, TransferFields, ZenonT(40)
<1>7. \A m \in Owned(V, z.id) : ~Alive(V, m)
  BY <1>1, <1>2 DEF Sane, Stranded
<1>8. Sane(b, V)
  <2>1. b.ref.n = 0 /\ b.ref = NoRef /\ b.step = 2
    BY <1>2, <1>5, <1>6 DEF NoRef
  <2>2. Owned(V, b.id) = b.old \cup ({b.ref.n} \ {0})
    BY <1>5, <1>6, <2>1
  <2>3. Converts(b) => Gone(V, b.id) /\ \A i \in Ids : Named(V, b, i) => i = b.id
    BY <1>2, <1>5, <1>6 DEF Sane, Converts, Named
  <2>4. ~Converts(b) => b.old = {}
    BY <1>2, <1>5, <1>6 DEF Sane, Converts
  <2> QED
    BY <1>2, <1>5, <1>6, <1>7, <2>1, <2>2, <2>3, <2>4 DEF Sane, Converts
<1>9. PICK a : a = avail - b.fee
  OBVIOUS
<1>10. Hand(b, a, q, parked, book, V)
  <2>1. a \in Int /\ a + b.fee - book = avail + z.fee - book /\ b.id = z.id /\ b.dir = z.dir
    BY <1>2, <1>5, <1>6, <1>9
  <2> QED
    BY <1>1, <1>2, <1>8, <2>1, HandReshapes
<1>11. UNCHANGED <<kind, nextId, parked, book, leg, rows>> \/ UNCHANGED <<kind, nextId, parked, book>>
  BY DEF Recover, TickFrame
<1>12. CASE /\ Landed(s) /\ UNCHANGED <<authorized, spent, auth, leg, rows, selfTx>>
            /\ Keep([b EXCEPT !.ref = [of |-> "auth", n |-> CHOOSE n \in s.old :
                             \A m \in s.old : m <= n]], a, q)
            /\ TickFrame
  <2>1. PICK n : n = CHOOSE l \in s.old : \A m \in s.old : m <= l
    OBVIOUS
  <2>2. s.old # {} /\ Converts(s)
    BY <1>5, <1>12 DEF Landed, Debited, NoRef, Converts
  <2>3. n \in s.old /\ n \in Auths /\ n # 0 /\ n \in 0 .. MaxAuths
    <3>1. s.old \in SUBSET Auths
      BY <1>5, TransferFields
    <3>2. \E k \in s.old : \A m \in s.old : m <= k
      BY <2>2, <3>1, Greatest
    <3>3. n \in s.old /\ n \in Auths
      BY <2>1, <3>1, <3>2
    <3> QED
      BY <3>3, TreasuryAssumption DEF Auths
  <2>4. PICK t : t = [b EXCEPT !.ref = [of |-> "auth", n |-> n]]
    OBVIOUS
  <2>5. /\ t \in Transfers /\ t.id = b.id /\ t.dir = b.dir /\ t.step = b.step /\ t.moved = b.moved
        /\ t.ref = [of |-> "auth", n |-> n] /\ t.old = b.old /\ t.auths = b.auths /\ t.fee = b.fee
    <3>1. [of |-> "auth", n |-> n] \in [of : {"none", "venue", "auth", "forwarded", "self"}, n : 0 .. MaxAuths]
      BY <2>3
    <3> QED
      BY <1>6, <2>4, <3>1 DEF Transfers
  <2>6. Sane(t, V)
    <3>1. t.ref.n = n /\ t.ref.of = "auth"
      BY <2>5
    <3>2. Owned(V, t.id) = t.old \cup ({t.ref.n} \ {0})
      BY <1>5, <1>6, <2>3, <2>5, <3>1
    <3>3. t.step = 2 /\ Converts(t)
      BY <1>2, <1>5, <1>6, <2>2, <2>5 DEF Converts
    <3> QED
      BY <1>8, <2>3, <2>5, <3>1, <3>2, <3>3 DEF Sane, Converts, Named
  <2>7. Hand(t, a, q, parked, book, V)
    <3>1. a \in Int /\ a + t.fee - book = a + b.fee - book
      BY <1>2, <1>6, <1>9, <2>5
    <3> QED
      BY <1>2, <1>10, <2>5, <2>6, <3>1, HandReshapes
  <2>8. Keep(t, a, q) /\ Now' = V
    BY <1>0, <1>12, <2>1, <2>4, NowFields DEF Keep, TickFrame
  <2>9. AtRest(t)
    BY <1>2, <1>5, <1>6, <2>5 DEF AtRest, NoRef
  <2>10. BooksNext(parked, book)
    BY <2>7, <2>8, <2>9, KeepBooks
  <2> QED
    BY <1>11, <2>10 DEF BooksNext
<1>13. CASE Step(s) = "venice_top_up" /\ PrepareTopUp(b, a, q)
  <2>1. b.step = 2 /\ b.ref = NoRef /\ Converts(b)
    BY <1>2, <1>5, <1>6, <1>13 DEF Step, Converts
  <2>2. BooksNext(parked, book)
    BY <1>0, <1>1, <1>10, <1>11, <1>13, <2>1, TopUpBooks
  <2> QED
    BY <1>11, <2>2 DEF BooksNext
<1>14. CASE Step(s) = "mint_base" /\ PrepareMint(b, a, q)
  <2>1. b.step = 2 /\ ~Converts(b)
    BY <1>2, <1>5, <1>6, <1>14 DEF Step, Converts
  <2>2. BooksNext(parked, book)
    BY <1>0, <1>10, <1>11, <1>14, <2>1, PrepareMintBooks
  <2> QED
    BY <1>11, <2>2 DEF BooksNext
<1> QED
  BY <1>0, <1>3, <1>4, <1>9, <1>12, <1>13, <1>14 DEF Recover

LEMMA PrepareBooks ==
    ASSUME TreasuryInv, Prepare
    PROVE  Books(slot, avail, stranded, parked, book, Now)'
<1>0. PICK V : V = Now
  OBVIOUS
<1>1. /\ Hand(slot, avail, stranded, parked, book, V) /\ AtRest(slot) /\ slot.ref = NoRef
      /\ window \in 0 .. MaxWindow
  <2>1. slot # Idle /\ slot.ref = NoRef
    BY DEF Prepare, Submitted
  <2> QED
    BY <1>0, <2>1, HandOrBare DEF TreasuryInv, Bounds
<1>2. World(V) /\ slot \in Transfers /\ Sane(slot, V) /\ avail \in Int /\ book \in Int
      /\ slot.fee \in Int
  BY <1>1, HandTyped, TransferFields
<1>3. PICK s : s = IF avail > 0 /\ slot.fee < FeesRemaining(slot)
                   THEN ReservedFees(slot, avail + slot.fee) ELSE slot
  OBVIOUS
<1>4. PICK a : a = avail + slot.fee - s.fee
  OBVIOUS
<1>5. /\ s \in Transfers /\ s.id = slot.id /\ s.dir = slot.dir /\ s.step = slot.step
      /\ s.moved = slot.moved /\ s.ref = slot.ref /\ s.old = slot.old /\ s.auths = slot.auths
      /\ s.fee \in Int
  <2>1. avail + slot.fee \in Int
    BY <1>2
  <2> QED
    BY <1>2, <1>3, <2>1, ReservedFields, TransferFields, ZenonT(40)
<1>6. PICK t : t = Aged(s)
  OBVIOUS
<1>7. PrepareNext(t, a, stranded) /\ UNCHANGED <<parked, book>> /\ UNCHANGED <<kind, nextId>>
  BY <1>3, <1>4, <1>6 DEF Prepare, TickFrame
<1>8. /\ t \in Transfers /\ t.id = slot.id /\ t.dir = slot.dir /\ t.step = slot.step
      /\ t.moved = slot.moved /\ t.ref = slot.ref /\ t.old = slot.old /\ t.auths = slot.auths
      /\ t.fee = s.fee
  <2>1. (IF s.stall = -1 THEN s.stall ELSE Least(s.stall + 1, Wait)) \in -1 .. Wait
    BY <1>5, TransferFields, TreasuryAssumption DEF Least
  <2> QED
    BY <1>5, <1>6, <2>1 DEF Aged, Transfers
<1>9. Sane(t, V)
  BY <1>2, <1>8, SaneAlike
<1>10. Hand(t, a, stranded, parked, book, V)
  <2>1. a \in Int /\ a + t.fee - book = avail + slot.fee - book
    BY <1>2, <1>4, <1>5, <1>8
  <2> QED
    BY <1>1, <1>2, <1>8, <1>9, <2>1, HandReshapes
<1>11. Waiting(t)
  <2>1. slot.step = 2
    BY <1>1, <1>2, TransferFields DEF Sane, NoRef
  <2> QED
    BY <1>1, <1>8, <2>1 DEF Waiting, AtRest, Converts
<1>12. BooksNext(parked, book)
  BY <1>0, <1>1, <1>7, <1>10, <1>11, PrepareNextBooks
<1> QED
  BY <1>7, <1>12 DEF BooksNext

LEMMA PolledHand ==
    ASSUME TreasuryInv, Polls
    PROVE  /\ Hand(slot, avail, stranded, parked, book, Now) /\ AtRest(slot)
           /\ window \in 0 .. MaxWindow /\ World(Now) /\ slot \in Transfers /\ Sane(slot, Now)
           /\ avail \in Int /\ book \in Int /\ slot.step \in {1, 2} /\ slot.dir \in Direction
<1>1. slot # Idle
  BY DEF Polls, Submitted
<1>2. Hand(slot, avail, stranded, parked, book, Now) /\ AtRest(slot)
  BY <1>1, HandOrBare DEF TreasuryInv
<1> QED
  BY <1>2, HandTyped, TransferFields DEF TreasuryInv, Bounds

LEMMA AdvanceBooks ==
    ASSUME TreasuryInv, Advance
    PROVE  Books(slot, avail, stranded, parked, book, Now)'
<1>1. PICK o \in Poll(slot) \ {Unread, Nothing} : Reconcile(slot, o, avail, stranded)
  BY DEF Advance
<1>2. UNCHANGED <<kind, nextId>> /\ UNCHANGED parked
  BY DEF Advance, TickFrame
<1>3. Hand(slot, avail, stranded, parked, book, Now) /\ window \in 0 .. MaxWindow
  BY PolledHand DEF Advance
<1>4. PICK s, a, q, p : s = slot /\ a = avail /\ q = stranded /\ p = parked
  OBVIOUS
<1>5. BooksNext(p, book')
  BY <1>1, <1>2, <1>3, <1>4, ReconcileBooks
<1> QED
  BY <1>2, <1>4, <1>5 DEF BooksNext

LEMMA SettledFields ==
    ASSUME NEW s \in Transfers
    PROVE  LET t == Settled(s)
           IN  /\ t \in Transfers /\ t.id = s.id /\ t.dir = s.dir /\ t.step = s.step
               /\ t.moved = s.moved /\ t.ref = s.ref /\ t.old = s.old /\ t.auths = s.auths
               /\ t.fee = s.fee
<1>1. -1 \in -1 .. Wait
  BY TreasuryAssumption
<1> QED
  BY <1>1 DEF Settled, Transfers

(* The transfer in the slot, with its wait over.                              *)
LEMMA SettledHand ==
    ASSUME TreasuryInv, Polls
    PROVE  LET t == Settled(slot)
           IN  /\ Hand(t, avail, stranded, parked, book, Now) /\ Sane(t, Now)
               /\ t.step = slot.step /\ t.moved = slot.moved /\ t.ref = slot.ref
<1>0. PICK V, t : V = Now /\ t = Settled(slot)
  OBVIOUS
<1>1. Hand(slot, avail, stranded, parked, book, V) /\ slot \in Transfers /\ Sane(slot, V)
      /\ avail \in Int /\ book \in Int
  BY <1>0, PolledHand
<1>2. /\ t \in Transfers /\ t.id = slot.id /\ t.dir = slot.dir /\ t.step = slot.step
      /\ t.moved = slot.moved /\ t.ref = slot.ref /\ t.old = slot.old /\ t.auths = slot.auths
      /\ t.fee = slot.fee
  BY <1>0, <1>1, SettledFields
<1>3. Sane(t, V) /\ avail + t.fee - book = avail + slot.fee - book
  BY <1>1, <1>2, SaneAlike
<1>4. Hand(t, avail, stranded, parked, book, V)
  BY <1>1, <1>2, <1>3, HandReshapes
<1> QED
  BY <1>0, <1>2, <1>3, <1>4

LEMMA ExpireBooks ==
    ASSUME TreasuryInv, ExpireTopUp
    PROVE  Books(slot, avail, stranded, parked, book, Now)'
<1>1. Polls /\ Step(slot) = "venice_top_up" /\ auth[slot.ref.n].is \in {"dead", "blank"}
      /\ Fail(Settled(slot), avail, stranded)
      /\ UNCHANGED <<parked, authorized, spent, book, auth, leg, selfTx>> /\ TickFrame
  BY DEF ExpireTopUp, CleanPoll
<1>2. PICK t : t = Settled(slot)
  OBVIOUS
<1>3. Hand(t, avail, stranded, parked, book, Now) /\ t.moved /\ t.ref = slot.ref
  <2>1. slot.step = 2 /\ slot.moved
    BY <1>1, PolledHand, TransferFields DEF Step, Sane
  <2> QED
    BY <1>1, <1>2, <2>1, SettledHand
<1>4. Fail(t, avail, stranded) /\ UNCHANGED outcome
  BY <1>1, <1>2, <1>3 DEF Fail
<1>5. Now' = Now
  BY <1>1, <1>4, NowFields DEF TickFrame
<1>6. ~Alive(Now, t.ref.n)
  BY <1>1, <1>3, NowFields DEF Alive
<1>7. PICK a, q, p, b, V : a = avail /\ q = stranded /\ p = parked /\ b = book /\ V = Now
  OBVIOUS
<1>8. BooksNext(p, b)
  BY <1>3, <1>4, <1>5, <1>6, <1>7, FailBooks
<1> QED
  BY <1>1, <1>7, <1>8 DEF BooksNext

LEMMA ParkBooks ==
    ASSUME TreasuryInv, Park
    PROVE  Books(slot, avail, stranded, parked, book, Now)'
<1>1. Polls /\ slot.step = 1
  BY DEF Park, CleanPoll, VenueLeg
<1>2. Hand(Settled(slot), avail, stranded, parked, book, Now) /\ Settled(slot).step = 1
  BY <1>1, SettledHand
<1>3. Bare(avail, stranded, Append(parked, Settled(slot)), book, Now)
  BY <1>2, HandParks
<1>4. /\ parked' = Append(parked, Settled(slot)) /\ slot' = Idle
      /\ UNCHANGED <<stranded, avail, authorized, outcome, book, auth, leg>> /\ TickFrame
  BY DEF Park
<1>5. Now' = Now
  BY <1>4, NowFields DEF TickFrame
<1> QED
  BY <1>3, <1>4, <1>5 DEF Books

LEMMA RetryBooks ==
    ASSUME TreasuryInv, Retry
    PROVE  Books(slot, avail, stranded, parked, book, Now)'
<1>1. /\ Polls /\ Step(slot) # "venice_top_up"
      /\ UNCHANGED <<parked, authorized, book, kind, nextId>>
      /\ \/ slot.step = 1 /\ SendLeg(slot, avail, stranded)
         \/ slot.step # 1 /\ SendMint(slot, avail, stranded)
  BY DEF Retry, VenueLeg
<1>2. /\ Hand(slot, avail, stranded, parked, book, Now) /\ slot.step \in {1, 2}
      /\ slot.dir \in Direction
  BY <1>1, PolledHand
<1>3. PICK s, a, q, p, b : s = slot /\ a = avail /\ q = stranded /\ p = parked /\ b = book
  OBVIOUS
<1>4. Call = Now
  BY <1>1, NowFields
<1>5. CASE slot.step = 1 /\ SendLeg(slot, avail, stranded)
  <2>1. Hand(s, a, q, p, b, Call) /\ s.step = 1 /\ SendLeg(s, a, q) /\ UNCHANGED authorized
    BY <1>1, <1>2, <1>3, <1>4, <1>5
  <2>2. BooksNext(p, b)
    BY <2>1, SendLegBooks
  <2> QED
    BY <1>1, <1>3, <2>2 DEF BooksNext
<1>6. CASE slot.step # 1 /\ SendMint(slot, avail, stranded)
  <2>1. s.step = 2 /\ ~Converts(s)
    BY <1>1, <1>2, <1>3, <1>6 DEF Step, Converts
  <2>2. Hand(s, a, q, p, b, Now) /\ SendMint(s, a, q) /\ UNCHANGED authorized
        /\ UNCHANGED <<kind, nextId>>
    BY <1>1, <1>2, <1>3, <1>6
  <2>3. BooksNext(p, b)
    BY <2>1, <2>2, SendMintBooks
  <2> QED
    BY <1>1, <1>3, <2>3 DEF BooksNext
<1> QED
  BY <1>1, <1>5, <1>6

(* A tick spends nothing of a window but the Venice tranche it checked.       *)
LEMMA TopUpBounds ==
    ASSUME NEW s, NEW a, NEW q, Bounds, PrepareTopUp(s, a, q)
    PROVE  spent' \in 0 .. WindowCap
  BY TreasuryAssumption DEF Bounds, PrepareTopUp, TopUpRefused

LEMMA PrepareNextBounds ==
    ASSUME NEW s, NEW a, NEW q, Bounds, PrepareNext(s, a, q)
    PROVE  spent' \in 0 .. WindowCap
<1>1. CASE PrepareFails(s, a, q)
  BY <1>1 DEF PrepareFails, Bounds
<1>2. CASE PrepareTopUp(s, a, q)
  BY <1>2, TopUpBounds
<1>3. CASE PrepareMint(s, a, q)
  BY <1>3 DEF PrepareMint, Bounds
<1> QED
  BY <1>1, <1>2, <1>3 DEF PrepareNext

LEMMA ReconcileBounds ==
    ASSUME NEW s, NEW o, NEW a, NEW q, Bounds, Reconcile(s, o, a, q)
    PROVE  spent' \in 0 .. WindowCap
<1>1. CASE UNCHANGED <<authorized, spent, auth, leg, rows>>
  BY <1>1 DEF Bounds
<1>2. CASE PrepareNext([Booked(s, o, a) EXCEPT !.step = 2, !.ref = NoRef, !.first = TRUE],
                       AvailAfter(s, o, a), q)
  BY <1>2, PrepareNextBounds
<1> QED
  BY <1>1, <1>2 DEF Reconcile

LEMMA TickBounds ==
    ASSUME Bounds, Tick
    PROVE  Bounds'
<1>1. UNCHANGED <<nextId, forwardSpent, window, lapsed>>
  BY DEF Tick, Unpark, Recover, Prepare, Advance, ExpireTopUp, Park, Retry, TickFrame
<1>2. spent' \in 0 .. WindowCap
  <2>1. CASE Unpark
    BY <2>1, ReconcileBounds DEF Unpark
  <2>2. CASE Recover
    <3>1. CASE UNCHANGED <<authorized, spent, auth, leg, rows, selfTx>>
      BY <3>1 DEF Bounds
    <3>2. CASE \E s, a, q : PrepareTopUp(s, a, q)
      BY <3>2, TopUpBounds
    <3>3. CASE \E s, a, q : PrepareMint(s, a, q)
      BY <3>3 DEF PrepareMint, Bounds
    <3> QED
      BY <2>2, <3>1, <3>2, <3>3 DEF Recover
  <2>3. CASE Prepare
    BY <2>3, PrepareNextBounds DEF Prepare
  <2>4. CASE Advance
    BY <2>4, ReconcileBounds DEF Advance
  <2>5. CASE ExpireTopUp \/ Park \/ Retry
    BY <2>5 DEF ExpireTopUp, Park, Retry, Bounds
  <2> QED
    BY <2>1, <2>2, <2>3, <2>4, <2>5 DEF Tick
<1> QED
  BY <1>1, <1>2 DEF Bounds

LEMMA TickKeeps ==
    ASSUME TreasuryInv, Tick
    PROVE  TreasuryInv'
<1>1. Books(slot, avail, stranded, parked, book, Now)'
  BY UnparkBooks, RecoverBooks, PrepareBooks, AdvanceBooks, ExpireBooks, ParkBooks, RetryBooks DEF Tick
<1>2. Bounds'
  BY TickBounds DEF TreasuryInv
<1> QED
  BY <1>1, <1>2 DEF TreasuryInv

-------------------------------------------------------------------------------
(* The environment, and the whole.                                            *)

LEMMA InitBooks == Init => TreasuryInv
<1> SUFFICES ASSUME Init PROVE TreasuryInv
  OBVIOUS
<1>0. PICK V : V = Now
  OBVIOUS
<1>1. /\ V.leg = [i \in Ids |-> "idle"] /\ V.rows = [i \in Ids |-> {}]
      /\ V.auth = [n \in Auths |-> [owner |-> 0, is |-> "none", late |-> FALSE]]
      /\ V.outcome = [i \in Ids |-> "open"] /\ V.kind = [i \in Ids |-> "none"]
      /\ V.next = 0 /\ V.authorized = 0
  BY <1>0, NowFields DEF Init
<1>2. V \in Worlds
  <2>1. 0 \in 0 .. MaxTransfers /\ 0 \in 0 .. TotalCap
    BY TreasuryAssumption
  <2>2. V.leg \in [Ids -> Legs] /\ V.rows \in [Ids -> SUBSET Ids]
    BY <1>1 DEF Legs
  <2>3. V.outcome \in [Ids -> Outcomes] /\ V.kind \in [Ids -> Kinds]
    BY <1>1 DEF Outcomes, Kinds
  <2>4. V.auth \in [Auths -> [owner : 0 .. MaxTransfers, is : AuthStates, late : BOOLEAN]]
    BY <1>1, <2>1 DEF AuthStates
  <2>5. V.next \in 0 .. MaxTransfers /\ V.authorized \in 0 .. TotalCap
    BY <1>1, <2>1
  <2> QED
    BY <1>0, <2>2, <2>3, <2>4, <2>5 DEF Worlds, Now
<1>3. Used(V) = {}
  BY <1>1 DEF Used
<1>4. World(V)
  BY <1>1, <1>2, <1>3 DEF World
<1>5. Elems(<<>>) = {} /\ Rest(<<>>, <<>>) = {} /\ <<>> \in Seq(Transfers)
  BY DEF Elems, Rest
<1>6. Shelf(<<>>, <<>>, V)
  BY <1>5 DEF Shelf, Distinct
<1>7. Initial \in Int /\ Initial + Held(<<>>, <<>>) = Initial
  <2>1. SumOver(Fees, {}) = 0
    BY SumEmpty
  <2>2. Held(<<>>, <<>>) = 0
    BY <1>5, <2>1 DEF Held
  <2> QED
    BY <2>2, TreasuryAssumption
<1>8. Covered(Names(<<>>, <<>>), V)
  BY <1>1 DEF Covered
<1>9. Bare(Initial, <<>>, <<>>, Initial, V)
  BY <1>4, <1>6, <1>7, <1>8 DEF Bare
<1>10. Bounds
  BY TreasuryAssumption DEF Init, Bounds
<1> QED
  BY <1>0, <1>9, <1>10 DEF Init, TreasuryInv, Books

(* Every open transfer has its one place in the books.                        *)
LEMMA EntriesFacts ==
    ASSUME TreasuryInv
    PROVE  /\ Entries = Rest(stranded, parked) \cup ({slot} \ {Idle})
           /\ stranded \in Seq(Transfers) /\ parked \in Seq(Transfers)
           /\ slot \in Transfers \cup {Idle}
           /\ \A e \in Entries : /\ e \in Transfers /\ Sane(e, Now) /\ e.id \in Ids
                                 /\ e.id \in 1 .. nextId
           /\ \A e, f \in Entries : e.id = f.id => e = f
           /\ \A e, f \in Entries : Converts(e) /\ Converts(f) => e = f
           /\ \A i \in 1 .. nextId : outcome[i] = "open" => \E e \in Entries : e.id = i
           /\ IsFiniteSet(Entries) /\ avail + SumOver(Fees, Entries) = book
<1>0. PICK V, R : V = Now /\ R = Rest(stranded, parked)
  OBVIOUS
<1>1. Entries = R \cup ({slot} \ {Idle})
  BY <1>0 DEF Entries, Rest, Elems
<1>2. /\ slot = Idle => Bare(avail, stranded, parked, book, V)
      /\ slot # Idle => slot \in Transfers /\ Hand(slot, avail, stranded, parked, book, V)
      /\ World(V) /\ nextId \in Int /\ V.next = nextId /\ V.outcome = outcome
      /\ avail \in Int /\ book \in Int
  BY <1>0, HandOrBare, NowFields DEF TreasuryInv
<1>3. Shelf(stranded, parked, V) /\ stranded \in Seq(Transfers) /\ parked \in Seq(Transfers)
  BY <1>2 DEF Bare, Hand, Shelf
<1>4. \A e \in Entries : Sane(e, V)
  BY <1>0, <1>1, <1>2, <1>3 DEF Hand, Shelf, Rest, Stranded, Parked
<1>5. \A e \in Entries : e \in Transfers /\ e.id \in Ids /\ e.id \in 1 .. nextId
  <2> SUFFICES ASSUME NEW e \in Entries
               PROVE  e \in Transfers /\ e.id \in Ids /\ e.id \in 1 .. nextId
    OBVIOUS
  <2>1. e \in Transfers /\ e.id <= nextId
    BY <1>2, <1>4 DEF Sane
  <2> QED
    BY <1>2, <2>1, TransferFields
<1>6. \A e, f \in R : (e.id = f.id => e = f) /\ (Converts(e) /\ Converts(f) => e = f)
  <2>1. \A e, f \in Elems(stranded) : e.id = f.id => e = f
    BY <1>3 DEF Shelf, Distinct, Elems
  <2>2. \A e, f \in Elems(parked) : e.id = f.id => e = f
    BY <1>3 DEF Shelf, Distinct, Elems
  <2>3. \A e \in Elems(stranded), f \in Elems(parked) : e.id # f.id
    BY <1>3 DEF Shelf
  <2>4. \A e, f \in R : e.id = f.id => e = f
    BY <1>0, <2>1, <2>2, <2>3 DEF Rest
  <2> QED
    BY <1>0, <1>3, <2>4 DEF Shelf
<1>7. slot # Idle => \A e \in R : e.id # slot.id /\ ~(Converts(e) /\ Converts(slot))
  BY <1>0, <1>2 DEF Hand, Beside
<1>8. \A e, f \in Entries : (e.id = f.id => e = f) /\ (Converts(e) /\ Converts(f) => e = f)
  BY <1>1, <1>6, <1>7
<1>9. \A i \in 1 .. nextId : outcome[i] = "open" => \E e \in Entries : e.id = i
  <2> SUFFICES ASSUME NEW i \in 1 .. nextId, outcome[i] = "open"
               PROVE  \E e \in Entries : e.id = i
    OBVIOUS
  <2>1. CASE slot = Idle
    BY <1>0, <1>1, <1>2, <2>1 DEF Bare, Covered, Names
  <2>2. CASE slot # Idle
    BY <1>0, <1>1, <1>2, <2>2 DEF Hand, Covered, Names
  <2> QED
    BY <2>1, <2>2
<1>10. IsFiniteSet(Entries) /\ avail + SumOver(Fees, Entries) = book
  <2>1. IsFiniteSet(R) /\ Held(stranded, parked) = SumOver(Fees, R) /\ Held(stranded, parked) \in Int
    BY <1>0, <1>3, ShelfSet DEF Held
  <2>2. CASE slot = Idle
    <3>1. Entries = R
      BY <1>0, <1>1, <1>3, <2>2, ShelfSet, TransferFields
    <3> QED
      BY <1>2, <2>1, <2>2, <3>1 DEF Bare
  <2>3. CASE slot # Idle
    <3>1. Entries = R \cup {slot} /\ slot \in Transfers /\ slot \notin R
      BY <1>1, <1>2, <1>7, <2>3
    <3>2. SumOver(Fees, Entries) = Held(stranded, parked) + Tranche + slot.fee
      BY <1>0, <1>3, <3>1, RestMoves
    <3>3. avail + Tranche + slot.fee + Held(stranded, parked) = book
      BY <1>2, <2>3 DEF Hand
    <3>4. Tranche \in Int /\ slot.fee \in Int
      BY <3>1, TransferFields, TreasuryAssumption
    <3> QED
      BY <1>2, <2>1, <3>1, <3>2, <3>3, <3>4, FS_AddElement
  <2> QED
    BY <2>2, <2>3
<1> QED
  BY <1>0, <1>1, <1>2, <1>3, <1>4, <1>5, <1>8, <1>9, <1>10

(* The world moves on, and touches no open transfer.                          *)
LEMMA EnvBooks ==
    ASSUME TreasuryInv, Env, World(Now'), \A e \in Entries : Untouched(e, Now, Now')
    PROVE  Books(slot, avail, stranded, parked, book, Now)'
<1>0. PICK V, W, s, a, q, p, b : /\ V = Now /\ W = Now' /\ s = slot /\ a = avail /\ q = stranded
                                 /\ p = parked /\ b = book
  OBVIOUS
<1>1. UNCHANGED <<slot, avail, stranded, parked, book>> /\ W.next = V.next /\ W.outcome = V.outcome
  BY <1>0, NowFields DEF Env, treasury, history, Now
<1>2. World(W) /\ \A e \in Rest(q, p) \cup ({s} \ {Idle}) : Untouched(e, V, W)
  BY <1>0, EntriesFacts
<1>3. CASE s = Idle
  <2>1. Bare(a, q, p, b, V)
    BY <1>0, <1>3, HandOrBare DEF TreasuryInv
  <2>2. Bare(a, q, p, b, W)
    BY <1>1, <1>2, <2>1, BareKept
  <2> QED
    BY <1>0, <1>1, <1>3, <2>2 DEF Books
<1>4. CASE s # Idle
  <2>1. Hand(s, a, q, p, b, V) /\ AtRest(s) /\ s \in Transfers
    BY <1>0, <1>4, HandOrBare DEF TreasuryInv
  <2>2. World(V) /\ Sane(s, V) /\ a \in Int /\ b \in Int
    BY <2>1, HandTyped
  <2>3. Sane(s, W)
    BY <1>2, <1>4, <2>2, SaneKept
  <2>4. Hand(s, a, q, p, b, W)
    BY <1>1, <1>2, <2>1, <2>2, <2>3, HandMoves
  <2> QED
    BY <1>0, <1>1, <2>1, <2>4 DEF Books
<1> QED
  BY <1>3, <1>4

(* An action still on its way belongs to an open transfer, and only a         *)
(* conversion's own row can be taken for it.                                  *)
LEMMA ExecutesKeeps ==
    ASSUME TreasuryInv, NEW i \in Ids, Executes(i)
    PROVE  World(Now') /\ \A e \in Entries : Untouched(e, Now, Now')
<1>0. PICK V, W, r : V = Now /\ W = Now' /\ r = (1 .. nextId) \ lapsed
  OBVIOUS
<1>1. /\ World(V) /\ V \in Worlds /\ V.leg[i] = "sent" /\ V.next = nextId
      /\ V.outcome = outcome /\ nextId \in Int /\ V.leg = leg /\ V.rows = rows
  BY <1>0, HandOrBare, NowFields DEF TreasuryInv, Executes, World
<1>2. W = LegBecomes(V, i, "hidden", r)
  BY <1>0, <1>1, NowFields DEF Executes, Env, treasury, history, LegBecomes, Now
<1>3. i <= nextId /\ i \in 1 .. nextId
  BY <1>1, TreasuryAssumption DEF World, Ids
<1>4. ~Gone(V, i) /\ V.outcome[i] # "failed"
  BY <1>1 DEF Gone, World
<1>5. V.kind[i] = "to_venice" => outcome[i] = "open"
  BY <1>1, <1>4, WorldFields DEF World, Outcomes
<1>6. \A e \in Entries : /\ e.id \in Ids
                         /\ Converts(e) /\ V.kind[i] = "to_venice" => e.id = i
  <2> SUFFICES ASSUME NEW e \in Entries, Converts(e), V.kind[i] = "to_venice"
               PROVE  e.id = i
    BY EntriesFacts
  <2>1. PICK f \in Entries : f.id = i
    BY <1>3, <1>5, EntriesFacts
  <2>2. Sane(f, V)
    BY <1>0, EntriesFacts
  <2>3. Converts(f)
    BY <2>1, <2>2 DEF Sane
  <2> QED
    BY <2>1, <2>3, EntriesFacts
<1>7. "hidden" \in Legs /\ r \in SUBSET (1 .. V.next)
  BY <1>0, <1>1 DEF Legs
<1> QED
  BY <1>0, <1>1, <1>2, <1>3, <1>4, <1>6, <1>7, WorldLeg

LEMMA ShowsKeeps ==
    ASSUME TreasuryInv, NEW i \in Ids, Shows(i)
    PROVE  World(Now') /\ \A e \in Entries : Untouched(e, Now, Now')
<1>0. PICK V, W, r : V = Now /\ W = Now' /\ r = V.rows[i]
  OBVIOUS
<1>1. /\ World(V) /\ V \in Worlds /\ V.leg[i] = "hidden" /\ V.next = nextId
      /\ nextId \in Int /\ V.leg = leg /\ V.rows = rows
  BY <1>0, HandOrBare, NowFields DEF TreasuryInv, Shows, World
<1>2. W = LegBecomes(V, i, "shown", r)
  <2>1. [V.rows EXCEPT ![i] = r] = V.rows
    BY <1>0, <1>1, WorldFields
  <2> QED
    BY <1>0, <1>1, <2>1, NowFields DEF Shows, Env, treasury, history, LegBecomes, Now
<1>3. i <= nextId
  BY <1>1, TreasuryAssumption DEF World, Ids
<1>4. V.outcome[i] # "failed"
  BY <1>1 DEF World
<1>5. "shown" \in Legs /\ r \in SUBSET (1 .. V.next)
  BY <1>0, <1>1 DEF Legs, World
<1>6. \A e \in Entries : e.id \in Ids
  BY EntriesFacts
<1> QED
  BY <1>0, <1>1, <1>2, <1>3, <1>4, <1>5, <1>6, WorldLeg

(* The chain decides an authorization that exists.                            *)
LEMMA BecomesKeeps ==
    ASSUME TreasuryInv, NEW n \in Auths, NEW is \in AuthStates, NEW late \in BOOLEAN,
           Becomes(n, is, late), auth[n].is # "none", is # "none",
           auth[n].is = "shown" => is = "shown",
           is = "live" \/ (is \in {"settled", "shown"} /\ ~late) => Alive(Now, n)
    PROVE  World(Now') /\ \A e \in Entries : Untouched(e, Now, Now')
<1>0. PICK V, W, A : V = Now /\ W = Now' /\ A = [[auth[n] EXCEPT !.is = is] EXCEPT !.late = late]
  OBVIOUS
<1>1. /\ World(V) /\ V \in Worlds /\ V.auth = auth /\ V.authorized = authorized
      /\ authorized \in Int
  BY <1>0, HandOrBare, NowFields DEF TreasuryInv, World
<1>2. auth \in [Auths -> AuthRecords]
  BY <1>1, WorldFields DEF AuthRecords
<1>3. A \in AuthRecords /\ A.owner = auth[n].owner /\ A.is = is /\ A.late = late
  BY <1>0, <1>2 DEF AuthRecords
<1>4. auth' = [auth EXCEPT ![n] = A]
  BY <1>0, <1>2 DEF Becomes
<1>5. W = AuthBecomes(V, n, A, 0)
  <2>1. authorized + 0 = authorized
    BY <1>1
  <2> QED
    BY <1>0, <1>1, <1>4, <2>1, NowFields DEF Becomes, Env, treasury, history, AuthBecomes, Now
<1> QED
  BY <1>0, <1>1, <1>3, <1>5, WorldBecomes, ZenonT(40)

LEMMA EnvKeeps ==
    ASSUME TreasuryInv, NEW i \in Ids,
           Executes(i) \/ Shows(i) \/ Lapses(i) \/ Delivers(i) \/ Mines(i)
    PROVE  TreasuryInv'
<1>1. Env
  BY DEF Executes, Shows, Lapses, Delivers, Mines
<1>2. Books(slot, avail, stranded, parked, book, Now)'
  <2>1. CASE Executes(i) \/ Shows(i)
    BY <1>1, <2>1, ExecutesKeeps, ShowsKeeps, EnvBooks
  <2>2. CASE Lapses(i) \/ Delivers(i) \/ Mines(i)
    <3>1. Now' = Now /\ UNCHANGED <<slot, avail, stranded, parked, book>>
      BY <1>1, <2>2, NowFields DEF Lapses, Delivers, Mines, Env, treasury, history
    <3> QED
      BY <3>1 DEF TreasuryInv, Books
  <2> QED
    BY <2>1, <2>2
<1>3. Bounds'
  <2>1. UNCHANGED lapsed \/ (lapsed' = lapsed \cup {i} /\ i \in 1 .. nextId)
    BY DEF Executes, Shows, Lapses, Delivers, Mines
  <2>2. lapsed \subseteq 1 .. nextId
    BY DEF TreasuryInv, Bounds
  <2> QED
    BY <1>1, <2>1, <2>2 DEF TreasuryInv, Bounds, Env, treasury
<1> QED
  BY <1>2, <1>3 DEF TreasuryInv

LEMMA ChainKeeps ==
    ASSUME TreasuryInv, NEW n \in Auths, Debits(n) \/ DebitsLate(n) \/ Finalizes(n) \/ Expires(n)
    PROVE  TreasuryInv'
<1>1. PICK is \in AuthStates, late \in BOOLEAN :
        /\ Becomes(n, is, late) /\ auth[n].is # "none" /\ is # "none"
        /\ auth[n].is = "shown" => is = "shown"
        /\ is = "live" \/ (is \in {"settled", "shown"} /\ ~late) => Alive(Now, n)
  <2>1. Now.auth = auth /\ auth[n].late \in BOOLEAN
    BY HandOrBare, NowFields, WorldFields DEF TreasuryInv, World
  <2>2. CASE Debits(n)
    BY <2>1, <2>2 DEF Debits, Alive, AuthStates
  <2>3. CASE DebitsLate(n)
    BY <2>1, <2>3 DEF DebitsLate, Alive, AuthStates
  <2>4. CASE Finalizes(n)
    BY <2>1, <2>4 DEF Finalizes, Alive, AuthStates
  <2>5. CASE Expires(n)
    BY <2>1, <2>5 DEF Expires, Alive, AuthStates
  <2> QED
    BY <2>2, <2>3, <2>4, <2>5
<1>2. Env /\ UNCHANGED lapsed
  BY <1>1 DEF Becomes
<1>3. Books(slot, avail, stranded, parked, book, Now)'
  BY <1>1, <1>2, BecomesKeeps, EnvBooks
<1>4. Bounds'
  BY <1>2 DEF TreasuryInv, Bounds, Env, treasury
<1> QED
  BY <1>3, <1>4 DEF TreasuryInv

LEMMA LosesKeeps ==
    ASSUME TreasuryInv, Loses
    PROVE  TreasuryInv'
<1>0. PICK V, s, q, p : V = Now /\ s = slot /\ q = stranded /\ p = parked
  OBVIOUS
<1>1. /\ s \in Transfers /\ Hand(s, avail, q, p, book, V) /\ AtRest(s)
  BY <1>0, HandOrBare DEF TreasuryInv, Loses, Blocking
<1>2. avail \in Int /\ book \in Int /\ s.fee \in Int /\ Sane(s, V)
  BY <1>1, HandTyped, TransferFields
<1>3. Hand(s, avail - 1, q, p, book - 1, V)
  <2>1. avail - 1 \in Int /\ book - 1 \in Int
    BY <1>2
  <2>2. (avail - 1) + s.fee - (book - 1) = avail + s.fee - book
    <3>1. PICK x, y, z \in Int : x = avail /\ y = s.fee /\ z = book
      BY <1>2
    <3>2. (x - 1) + y - (z - 1) = x + y - z
      OBVIOUS
    <3> QED
      BY <3>1, <3>2
  <2> QED
    BY <1>1, <1>2, <2>1, <2>2, HandReshapes
<1>4. Now' = V /\ slot' = s /\ avail' = avail - 1 /\ stranded' = q /\ parked' = p /\ book' = book - 1
  BY <1>0, NowFields DEF Loses, world
<1>5. Books(slot, avail, stranded, parked, book, Now)'
  BY <1>1, <1>3, <1>4 DEF Books
<1>6. Bounds'
  BY DEF TreasuryInv, Bounds, Loses, world
<1> QED
  BY <1>5, <1>6 DEF TreasuryInv

LEMMA WindowKeeps ==
    ASSUME TreasuryInv, OpenWindow
    PROVE  TreasuryInv'
<1>1. Now' = Now /\ UNCHANGED <<slot, avail, stranded, parked, book>>
  BY NowFields DEF OpenWindow, world, history
<1>2. Books(slot, avail, stranded, parked, book, Now)'
  BY <1>1 DEF TreasuryInv, Books
<1>3. Bounds'
  BY TreasuryAssumption DEF TreasuryInv, Bounds, OpenWindow, world
<1> QED
  BY <1>2, <1>3 DEF TreasuryInv

LEMMA TreasuryStep == TreasuryInv /\ [Next]_vars => TreasuryInv'
<1> SUFFICES ASSUME TreasuryInv, [Next]_vars PROVE TreasuryInv'
  OBVIOUS
<1>1. CASE ToVenice
  BY <1>1, ToVeniceBooks
<1>2. CASE \E f \in BOOLEAN : ToReserve(f)
  BY <1>2, ToReserveBooks
<1>3. CASE OpenWindow
  BY <1>3, WindowKeeps
<1>4. CASE Tick
  BY <1>4, TickKeeps
<1>5. CASE Environment
  BY <1>5, EnvKeeps, ChainKeeps, LosesKeeps DEF Environment
<1>6. CASE UNCHANGED vars
  <2>1. Now' = Now /\ UNCHANGED <<slot, avail, stranded, parked, book>>
    BY <1>6, NowFields DEF vars, treasury, world, history
  <2>2. Books(slot, avail, stranded, parked, book, Now)'
    BY <2>1 DEF TreasuryInv, Books
  <2>3. Bounds'
    BY <1>6 DEF TreasuryInv, Bounds, vars, treasury, world
  <2> QED
    BY <2>2, <2>3 DEF TreasuryInv
<1> QED
  BY <1>1, <1>2, <1>3, <1>4, <1>5, <1>6 DEF Next

(* The books, as an invariant of the treasury.                                *)
THEOREM TreasuryInvariant == Spec => []TreasuryInv
<1>1. Init => TreasuryInv
  BY InitBooks
<1>2. TreasuryInv /\ [Next]_vars => TreasuryInv'
  BY TreasuryStep
<1> QED
  BY <1>1, <1>2, PTL DEF Spec

-------------------------------------------------------------------------------
(* What the runs check.                                                       *)

LEMMA TypeHolds == TreasuryInv => TreasuryTypeOK
<1> SUFFICES ASSUME TreasuryInv PROVE TreasuryTypeOK
  OBVIOUS
<1>1. World(Now) /\ avail \in Int /\ book \in Int /\ nextId \in 0 .. MaxTransfers
  BY HandOrBare DEF TreasuryInv
<1>2. \A i \in Ids : leg[i] \in {"idle", "sent", "hidden", "shown", "void"}
  BY <1>1, NowFields, WorldFields DEF World, Legs
<1>3. lapsed \subseteq 1 .. nextId
  BY DEF TreasuryInv, Bounds
<1> QED
  BY <1>1, <1>2, <1>3, EntriesFacts DEF TreasuryTypeOK

LEMMA AccountedHolds == TreasuryInv => HoldsAccounted
<1> SUFFICES ASSUME TreasuryInv PROVE HoldsAccounted
  OBVIOUS
<1>1. IsFiniteSet(Entries) /\ avail + SumOver(Fees, Entries) = book /\ Entries \subseteq Transfers
  BY EntriesFacts
<1>2. \A e \in Entries : Fees[e] \in Int /\ HeldBy[e] = Fees[e]
  BY <1>1, Fees_ DEF HeldBy
<1>3. SumOver(HeldBy, Entries) = SumOver(Fees, Entries)
  BY <1>1, <1>2, SumSame
<1>4. avail + SumOver(HeldBy, Entries) = book
  BY <1>1, <1>3
<1> QED
  BY <1>4, TypeHolds DEF HoldsAccounted, SumOver

(* At most one open transfer answers to an id, and at most one is a conversion. *)
LEMMA AtMostOne ==
    ASSUME NEW S, NEW T \in SUBSET S, \A x, y \in T : x = y
    PROVE  Cardinality(T) \in {0, 1} /\ (T # {} => Cardinality(T) = 1)
<1>1. CASE T = {}
  BY <1>1, FS_EmptySet
<1>2. CASE T # {}
  <2>1. PICK x \in T : T = {x}
    BY <1>2
  <2> QED
    BY <1>2, <2>1, FS_Singleton
<1> QED
  BY <1>1, <1>2

LEMMA MovesHeldHolds == TreasuryInv => MoneyMovesHeld
<1> SUFFICES ASSUME TreasuryInv, NEW i \in 1 .. nextId, Executed(i) \/ Executable(i)
             PROVE  \/ outcome[i] = "confirmed"
                    \/ outcome[i] = "open" /\ Cardinality({e \in Entries : e.id = i}) = 1
  BY DEF MoneyMovesHeld
<1>1. World(Now) /\ i \in Ids
  BY HandOrBare, TreasuryAssumption DEF TreasuryInv, Ids
<1>2. outcome[i] \in Outcomes /\ (outcome[i] = "failed" => leg[i] = "void")
  BY <1>1, NowFields, WorldFields DEF World
<1>3. outcome[i] = "open" \/ outcome[i] = "confirmed"
  BY <1>2 DEF Executed, Executable, Outcomes
<1>4. CASE outcome[i] = "open"
  <2> DEFINE T == {e \in Entries : e.id = i}
  <2>1. T # {} /\ \A x, y \in T : x = y
    BY <1>4, EntriesFacts
  <2>2. T \in SUBSET Entries
    OBVIOUS
  <2> HIDE DEF T
  <2>3. Cardinality(T) = 1
    BY <2>1, <2>2, AtMostOne
  <2> QED
    BY <1>4, <2>3 DEF T
<1> QED
  BY <1>3, <1>4

LEMMA SpendBackedHolds == TreasuryInv => RealSpendBacked
<1> SUFFICES ASSUME TreasuryInv PROVE RealSpendBacked
  OBVIOUS
<1>1. World(Now)
  BY HandOrBare DEF TreasuryInv
<1>2. ASSUME NEW n \in Auths, auth[n].is # "none" PROVE Executed(auth[n].owner)
  <2>1. n \in Used(Now)
    BY <1>2, NowFields DEF Used
  <2> QED
    BY <1>1, <2>1, NowFields DEF World, Gone, Executed
<1>3. ASSUME NEW i \in Ids
      PROVE  Cardinality({n \in Auths : auth[n].owner = i /\ ~auth[n].late
                                         /\ auth[n].is \in {"settled", "shown"}}) <= 1
  <2> DEFINE T == {n \in Auths : auth[n].owner = i /\ ~auth[n].late
                                   /\ auth[n].is \in {"settled", "shown"}}
  <2>1. \A n \in T : n \in Used(Now) /\ Alive(Now, n) /\ Now.auth[n].owner = i
    BY NowFields DEF Used, Alive
  <2>2. \A n, m \in T : n = m
    BY <1>1, <2>1 DEF World
  <2>3. T \in SUBSET Auths
    OBVIOUS
  <2> HIDE DEF T
  <2>4. Cardinality(T) \in {0, 1}
    BY <2>2, <2>3, AtMostOne
  <2> QED
    BY <2>4 DEF T
<1>4. ASSUME NEW i \in Ids, kind[i] = "to_venice", outcome[i] = "confirmed"
      PROVE  \E n \in Auths : auth[n].owner = i /\ auth[n].is = "shown"
  <2>1. PICK m \in Owned(Now, i) : Now.auth[m].is = "shown"
    BY <1>1, <1>4, NowFields DEF World
  <2> QED
    BY <2>1, NowFields DEF Owned, Used
<1> QED
  BY <1>2, <1>3, <1>4 DEF RealSpendBacked

LEMMA BoundedHolds == TreasuryInv => VeniceBounded
<1> SUFFICES ASSUME TreasuryInv PROVE VeniceBounded
  OBVIOUS
<1>1. spent <= WindowCap /\ forwardSpent <= ForwardCap
  BY TreasuryAssumption DEF TreasuryInv, Bounds
<1>2. authorized \in 0 .. TotalCap /\ authorized \in Int /\ Tranche \in Int /\ TotalCap \in Int
  BY HandOrBare, TreasuryAssumption DEF TreasuryInv
<1> DEFINE T == {e \in Entries : e.dir = "to_venice" /\ e.auths = 0}
<1>3. (\A x, y \in T : x = y) /\ T \in SUBSET Entries
  BY EntriesFacts DEF Converts
<1>4. T # {} => authorized + Tranche <= TotalCap
  BY EntriesFacts, NowFields DEF Sane, Converts
<1> HIDE DEF T
<1>5. Cardinality(T) \in {0, 1} /\ (T # {} => Cardinality(T) = 1)
  BY <1>3, AtMostOne
<1>6. T = {} => Cardinality(T) = 0
  BY FS_EmptySet
<1>7. authorized + Tranche * Cardinality(T) <= TotalCap
  <2>1. CASE T = {}
    BY <1>2, <1>6, <2>1
  <2>2. CASE T # {}
    BY <1>2, <1>4, <1>5, <2>2
  <2> QED
    BY <2>1, <2>2
<1> QED
  BY <1>1, <1>7 DEF VeniceBounded, T

(* What is signed is the one authorization of the conversion at hand.         *)
LEMMA TopUpSigns ==
    ASSUME NEW s \in Transfers, NEW a, NEW q, PrepareTopUp(s, a, q), World(Now),
           NEW n \in Auths, auth[n].is = "none", auth'[n].is # "none"
    PROVE  auth'[n].owner = s.id
<1>1. PICK m \in Auths : m = FreshAuth
  BY FreshFound DEF PrepareTopUp
<1>2. auth \in [Auths -> AuthRecords]
  BY NowFields, WorldFields DEF World, AuthRecords
<1>3. PICK A : A = [owner |-> s.id, is |-> "blank", late |-> FALSE]
  OBVIOUS
<1>4. PICK g : g = [auth EXCEPT ![m] = A]
  OBVIOUS
<1>5. auth' = g \/ auth' = [g EXCEPT ![m].is = "live"]
  <2>1. PICK r : r = Settled(s)
    OBVIOUS
  <2>2. r \in Transfers
    BY <2>1, SettledFields
  <2>3. PICK t : t = [r EXCEPT !.ref = [of |-> "auth", n |-> m], !.auths = @ + 1, !.win = window]
    OBVIOUS
  <2>4. t.ref.n = m
    BY <2>2, <2>3 DEF Transfers
  <2>5. SendTopUp(t, a, q, g)
    BY <1>1, <1>3, <1>4, <2>1, <2>3 DEF PrepareTopUp
  <2> QED
    BY <2>4, <2>5 DEF SendTopUp
<1>6. \A k \in Auths : k # m => auth'[k] = auth[k]
  BY <1>2, <1>4, <1>5
<1>7. auth'[m].owner = s.id
  BY <1>2, <1>3, <1>4, <1>5
<1> QED
  BY <1>6, <1>7

(* A conversion none of whose authorizations is shown debited.                *)
Undebited(i) == \A m \in Owned(Now, i) : auth[m].is # "shown"

LEMMA PrepareNextSigns ==
    ASSUME NEW s \in Transfers, NEW a, NEW q, PrepareNext(s, a, q), World(Now),
           Converts(s) => Undebited(s.id),
           NEW n \in Auths, auth[n].is = "none", auth'[n].is # "none"
    PROVE  Undebited(auth'[n].owner)
<1>1. Step(s) = "venice_top_up" /\ PrepareTopUp(s, a, q)
  BY DEF PrepareNext, PrepareFails, PrepareMint, SendMint
<1>2. Converts(s)
  BY <1>1 DEF Step, Converts
<1> QED
  BY <1>1, <1>2, TopUpSigns

LEMMA ReconcileSigns ==
    ASSUME NEW s, NEW o, NEW a \in Int, NEW q, Reconcile(s, o, a, q), World(Now), Sane(s, Now),
           o \in Poll(s) \ {Unread, Nothing},
           NEW n \in Auths, auth[n].is = "none", auth'[n].is # "none"
    PROVE  Undebited(auth'[n].owner)
<1>1. s.step = 1 /\ ~Unbookable(s, o)
      /\ PrepareNext([Booked(s, o, a) EXCEPT !.step = 2, !.ref = NoRef, !.first = TRUE],
                     AvailAfter(s, o, a), q)
  BY DEF Reconcile
<1>2. PICK b : b = Booked(s, o, a)
  OBVIOUS
<1>3. b \in Transfers /\ b.id = s.id /\ b.dir = s.dir
  <2>1. s \in Transfers /\ o.fee \in Nat /\ o.paid \in Nat
    BY PollFacts DEF Sane
  <2> QED
    BY <1>1, <1>2, <2>1, BookedFields
<1>4. PICK t : t = [b EXCEPT !.step = 2, !.ref = NoRef, !.first = TRUE]
  OBVIOUS
<1>5. t \in Transfers /\ t.id = s.id
  <2>1. NoRef \in [of : {"none", "venue", "auth", "forwarded", "self"}, n : 0 .. MaxAuths]
    BY TreasuryAssumption DEF NoRef
  <2> QED
    BY <1>3, <1>4, <2>1 DEF Transfers
<1>6. Undebited(s.id)
  BY <1>1 DEF Sane, Undebited
<1> QED
  BY <1>1, <1>2, <1>4, <1>5, <1>6, PrepareNextSigns

LEMMA PrepareSigns ==
    ASSUME TreasuryInv, Prepare, NEW n \in Auths, auth[n].is = "none", auth'[n].is # "none"
    PROVE  Undebited(auth'[n].owner)
<1>1. slot \in Transfers /\ AtRest(slot) /\ slot.ref = NoRef /\ World(Now) /\ avail \in Int
      /\ Hand(slot, avail, stranded, parked, book, Now)
  BY HandOrBare DEF TreasuryInv, Prepare, Submitted
<1>2. PICK s : s = IF avail > 0 /\ slot.fee < FeesRemaining(slot)
                   THEN ReservedFees(slot, avail + slot.fee) ELSE slot
  OBVIOUS
<1>3. s \in Transfers /\ s.id = slot.id /\ s.dir = slot.dir /\ s.step = slot.step
  <2>1. avail + slot.fee \in Int
    BY <1>1, TransferFields
  <2> QED
    BY <1>1, <1>2, <2>1, ReservedFields
<1>4. PICK t : t = Aged(s)
  OBVIOUS
<1>5. t \in Transfers /\ t.id = slot.id /\ t.dir = slot.dir
  <2>1. (IF s.stall = -1 THEN s.stall ELSE Least(s.stall + 1, Wait)) \in -1 .. Wait
    BY <1>3, TransferFields, TreasuryAssumption DEF Least
  <2> QED
    BY <1>3, <1>4, <2>1 DEF Aged, Transfers
<1>6. Converts(t) => Undebited(t.id)
  <2>1. Sane(slot, Now)
    BY <1>1, HandTyped
  <2> QED
    BY <1>1, <1>5, <2>1 DEF Converts, AtRest, Sane, NoRef, Undebited
<1> QED
  BY <1>1, <1>2, <1>4, <1>5, <1>6, PrepareNextSigns DEF Prepare

LEMMA RecoverSigns ==
    ASSUME TreasuryInv, Recover, NEW n \in Auths, auth[n].is = "none", auth'[n].is # "none"
    PROVE  Undebited(auth'[n].owner)
<1>1. PICK z, q : z = Head(stranded) /\ q = Tail(stranded)
  OBVIOUS
<1>2. Bare(avail, stranded, parked, book, Now) /\ stranded # <<>>
  BY HandOrBare DEF TreasuryInv, Recover, Blocking
<1>3. Stranded(z, Now) /\ World(Now) /\ avail \in Int
  BY <1>1, <1>2, HandRecovers DEF Bare
<1>4. Sane(z, Now) /\ z.step = 2
  BY <1>3 DEF Stranded, Sane
<1>5. PICK s : s = [Superseded(z) EXCEPT !.first = TRUE]
  OBVIOUS
<1>6. s \in Transfers /\ s.old = Owned(Now, z.id) /\ s.id = z.id /\ s.ref = NoRef
  BY <1>4, <1>5, SupersededFields
<1>7. PICK b : b = ReservedFees(s, avail)
  OBVIOUS
<1>8. b \in Transfers /\ b.id = s.id
  BY <1>3, <1>6, <1>7, ReservedFields
<1>9. ~Landed(s) /\ Step(s) = "venice_top_up" /\ PrepareTopUp(b, avail - b.fee, q)
  BY <1>1, <1>5, <1>7 DEF Recover, PrepareMint, SendMint
<1>10. ~Debited(s)
  BY <1>6, <1>9, TransferFields DEF Landed, Step, Direction
<1>11. Undebited(z.id)
  BY <1>6, <1>10 DEF Debited, Undebited
<1> QED
  BY <1>3, <1>6, <1>8, <1>9, <1>11, TopUpSigns

LEMMA StepSigns ==
    ASSUME TreasuryInv, Next, NEW n \in Auths, auth[n].is = "none", auth'[n].is # "none"
    PROVE  Undebited(auth'[n].owner)
<1>1. World(Now) /\ avail \in Int
  BY HandOrBare DEF TreasuryInv
<1>2. \A f \in BOOLEAN : ~ToVenice /\ ~ToReserve(f)
  BY DEF ToVenice, ToReserve, SendLeg
<1>3. ~OpenWindow
  BY DEF OpenWindow, world
<1>4. ~Environment
  <2>1. \A k \in Auths : ~(Debits(k) \/ DebitsLate(k) \/ Finalizes(k) \/ Expires(k))
    BY <1>1, NowFields, WorldFields DEF World, Debits, DebitsLate, Finalizes, Expires, Becomes
  <2> QED
    BY <2>1 DEF Environment, Executes, Shows, Lapses, Delivers, Mines, Loses, world
<1>5. Tick
  BY <1>2, <1>3, <1>4 DEF Next
<1>6. CASE Unpark
  <2>1. PICK i \in 1 .. Len(parked) : \E o \in Poll(parked[i]) \ {Unread, Nothing} :
            Reconcile(parked[i], o, avail, stranded)
    BY <1>6 DEF Unpark
  <2>2. Sane(parked[i], Now)
    <3>1. Bare(avail, stranded, parked, book, Now)
      BY <1>6, HandOrBare DEF TreasuryInv, Unpark, Blocking
    <3> QED
      BY <3>1 DEF Bare, Shelf, Parked, Elems
  <2> QED
    BY <1>1, <2>1, <2>2, ReconcileSigns
<1>7. CASE Advance
  BY <1>1, <1>7, PolledHand, ReconcileSigns DEF Advance
<1>8. CASE ExpireTopUp \/ Park \/ Retry
  BY <1>8 DEF ExpireTopUp, Park, Retry, SendLeg, SendMint
<1> QED
  BY <1>5, <1>6, <1>7, <1>8, RecoverSigns, PrepareSigns DEF Tick

(* Every open transfer has one place in the books, its principal and fee hold *)
(* are whole numbers within their bounds, and what the venue and the chain    *)
(* know of it is of a known kind: transfer, tick and open_window keep it so.  *)
THEOREM TreasuryTypeCorrect == Spec => []TreasuryTypeOK
  BY TreasuryInvariant, TypeHolds, PTL

(* The wallet's available money and what every open transfer holds add up to  *)
(* all there is: _fail, _park, _unpark, _recover, reconcile and the fee holds *)
(* remade on the way lose no micro-dollar and count none twice.               *)
THEOREM HoldsAlwaysAccounted == Spec => []HoldsAccounted
  BY TreasuryInvariant, AccountedHolds, PTL

(* A venue action that executed, or still can, belongs to a transfer that is  *)
(* confirmed, or open in exactly one place with its principal held: a refusal *)
(* gives the principal back only when the venue refused the first send.       *)
THEOREM MoneyMovesOnlyHeld == Spec => []MoneyMovesHeld
  BY TreasuryInvariant, MovesHeldHolds, PTL

(* Real Base dollars are authorized only behind a shadow leg that left the    *)
(* venue, and no conversion is debited twice for authorizations settled       *)
(* before their finalized expiry, even when venue rows name no nonce.         *)
THEOREM RealSpendIsBacked == Spec => []RealSpendBacked
  BY TreasuryInvariant, SpendBackedHolds, PTL

(* The window's bounds and the absolute bound on Venice spend hold, a         *)
(* conversion whose first authorization is owed counted in, through every     *)
(* strand, recovery and lapse (_venice_total_exhausted).                      *)
THEOREM VeniceStaysBounded == Spec => []VeniceBounded
  BY TreasuryInvariant, BoundedHolds, PTL

(* Nothing is signed for a conversion one of whose authorizations is already  *)
(* shown debited: _recover supersedes and polls them all, and no other step   *)
(* signs for a conversion that owns one.                                      *)
THEOREM NeverSignsAgain == Spec => NoSecondAuthorization
<1> DEFINE Kept == \A n \in Auths : auth[n].is = "none" /\ auth'[n].is # "none" =>
                       ~\E m \in Auths : auth[m].owner = auth'[n].owner /\ auth[m].is = "shown"
<1>1. TreasuryInv /\ Next => Kept
  <2> SUFFICES ASSUME TreasuryInv, Next, NEW n \in Auths, auth[n].is = "none", auth'[n].is # "none",
                      NEW m \in Auths, auth[m].owner = auth'[n].owner, auth[m].is = "shown"
               PROVE  FALSE
    OBVIOUS
  <2>1. m \in Owned(Now, auth'[n].owner)
    BY NowFields DEF Owned, Used
  <2> QED
    BY <2>1, StepSigns DEF Undebited
<1>2. TreasuryInv /\ [Next]_vars => [Kept]_vars
  BY <1>1
<1> QED
  BY <1>2, TreasuryInvariant, PTL DEF Spec, NoSecondAuthorization
===============================================================================
