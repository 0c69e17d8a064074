--------------------------- MODULE Cp0OrderProofs ---------------------------
(***************************************************************************)
(* The order of the event queue: the code compares 32-bit counts that wrap *)
(* around, measured from a base that moves with cycle_count, and yet the   *)
(* queue stays in the order in which the events are really due.            *)
(*                                                                         *)
(* The timer is the one event that may be a lap away, so that the code may *)
(* take it for due a lap early, never late (Seen).  The invariant says     *)
(* that the queue is sorted by what the code sees, and that all of it is   *)
(* within one lap of a number that is at most one instruction ahead.       *)
(***************************************************************************)
EXTENDS Cp0Proofs

-----------------------------------------------------------------------------
(* What the code sees of the queue.                                         *)

\* The distance of an event as the code takes it, with the timer a lap early or not.
Seen(e, early) ==
    IF early /\ e.type = "COMPARE_INT" THEN e.left - Wrap ELSE e.left

Ordered(q, early) ==
    \A i, j \in 1 .. Len(q) : i < j => Seen(q[i], early) <= Seen(q[j], early)

\* Every event is seen within the lap that starts at b.
Within(q, early, b) ==
    \A i \in 1 .. Len(q) : b <= Seen(q[i], early) /\ Seen(q[i], early) <= b + Wrap - 1

\* No event is more than a lap and an instruction away.
Capped(q) == \A i \in 1 .. Len(q) : q[i].left <= Wrap - 1 + CountPerOp

Placed(q, early, b) == Ordered(q, early) /\ Within(q, early, b) /\ Capped(q)

\* How late the first event may become: an instruction less than half a lap.
Floor == CountPerOp + 1 - Half

OrderOK(q) ==
    \E early \in BOOLEAN : \E b \in Floor .. CountPerOp : Placed(q, early, b)

\* An instruction takes less than a quarter of a lap.
Brief == 2 * CountPerOp < Half

\* Brief, with the types that the arithmetic needs.
LEMMA BriefType ==
    ASSUME Brief
    PROVE  /\ CountPerOp \in Nat /\ CountPerOp >= 1 /\ Half \in Nat /\ Half >= 2
           /\ Wrap = 2 * Half /\ Floor \in Int /\ Floor <= 0 - CountPerOp
           /\ Floor > 0 - Half /\ 2 * CountPerOp < Half
  BY HalfType, CountPerOpAssumption DEF Brief, Floor

\* What is seen of an event is its distance up to whole laps.
LEMMA SeenType ==
    ASSUME NEW e \in Nodes, NEW early \in BOOLEAN
    PROVE  /\ Seen(e, early) \in Int /\ e.left \in Int /\ e.count \in Int
           /\ Mod(Seen(e, early)) = Mod(e.left)
           /\ Seen(e, early) <= e.left
           /\ e.type # "COMPARE_INT" => Seen(e, early) = e.left
<1>1. e.left \in Int /\ e.count \in Int /\ Wrap \in Int /\ Wrap > 0
  BY WrapAssumption DEF Nodes
<1>2. Mod(e.left + (-1) * Wrap) = Mod(e.left)
  BY <1>1, ModShift
<1>3. e.left + (-1) * Wrap = e.left - Wrap
  BY <1>1
<1> QED BY <1>1, <1>2, <1>3 DEF Seen

\* The nodes of a queue and what is seen of them.
LEMMA SeenIn ==
    ASSUME NEW q \in Seq(Nodes), NEW early \in BOOLEAN
    PROVE  /\ Len(q) \in Nat
           /\ \A i \in 1 .. Len(q) :
                 /\ q[i] \in Nodes /\ Seen(q[i], early) \in Int /\ q[i].left \in Int
                 /\ q[i].count \in Int
                 /\ Seen(q[i], early) <= q[i].left
                 /\ q[i].type # "COMPARE_INT" => Seen(q[i], early) = q[i].left
<1>1. Len(q) \in Nat /\ \A i \in 1 .. Len(q) : q[i] \in Nodes
  OBVIOUS
<1> QED BY <1>1, SeenType

\* Taking a node out keeps the order.
LEMMA RemovePlaced ==
    ASSUME NEW q \in Seq(Nodes), NEW p \in 1 .. Len(q), NEW u, Removed(u, q, p),
           NEW early \in BOOLEAN, NEW b \in Int, Placed(q, early, b)
    PROVE  Placed(u, early, b)
<1> DEFINE old(i) == IF i < p THEN i ELSE i + 1
<1>1. Len(q) \in Nat /\ u \in Seq(Nodes) /\ Len(u) = Len(q) - 1 /\ Len(u) \in Nat
  BY DEF Removed
<1>2. ASSUME NEW i \in 1 .. Len(u) PROVE old(i) \in 1 .. Len(q) /\ u[i] = q[old(i)]
  BY <1>1 DEF Removed
<1>3. ASSUME NEW i \in 1 .. Len(u), NEW j \in 1 .. Len(u), i < j PROVE old(i) < old(j)
  BY <1>1, <1>3
<1> HIDE DEF old
<1>4. Ordered(u, early)
  BY <1>2, <1>3 DEF Ordered, Placed
<1>5. Within(u, early, b) /\ Capped(u)
  BY <1>2 DEF Within, Capped, Placed
<1> QED BY <1>4, <1>5 DEF Placed

\* The lap may start anywhere up to the first event.
LEMMA Tighten ==
    ASSUME NEW q \in Seq(Nodes), NEW early \in BOOLEAN, NEW b \in Int, NEW c \in Int,
           Placed(q, early, b), b <= c, q # <<>> => c <= Seen(q[1], early)
    PROVE  Placed(q, early, c)
<1> SUFFICES ASSUME NEW i \in 1 .. Len(q)
             PROVE  c <= Seen(q[i], early) /\ Seen(q[i], early) <= c + Wrap - 1
  BY DEF Placed, Within
<1>1. /\ Len(q) \in Nat /\ 1 \in 1 .. Len(q) /\ q # <<>>
      /\ Seen(q[i], early) \in Int /\ Seen(q[1], early) \in Int
  BY SeenIn
<1>2. Seen(q[1], early) <= Seen(q[i], early)
  <2>1. CASE i = 1
    BY <1>1, <2>1
  <2>2. CASE i # 1
    <3>1. 1 < i
      BY <2>2
    <3> QED BY <1>1, <3>1 DEF Placed, Ordered
  <2> QED BY <2>1, <2>2
<1>3. Seen(q[i], early) <= b + Wrap - 1
  BY DEF Placed, Within
<1> QED BY <1>1, <1>2, <1>3, WrapAssumption

\* When every event comes nearer by d, so does the lap.
LEMMA ShiftPlaced ==
    ASSUME NEW q \in Seq(Nodes), NEW early \in BOOLEAN, NEW b \in Int, Placed(q, early, b),
           NEW d \in Nat, NEW u \in Seq(Nodes), Len(u) = Len(q),
           \A i \in 1 .. Len(q) : u[i].type = q[i].type /\ u[i].left = q[i].left - d,
           NEW c \in Int, c = b - d
    PROVE  Placed(u, early, c)
<1>1. ASSUME NEW i \in 1 .. Len(q)
      PROVE  /\ Seen(u[i], early) = Seen(q[i], early) - d
             /\ Seen(q[i], early) \in Int /\ q[i].left \in Int
  <2>1. q[i].left \in Int /\ Wrap \in Int /\ Seen(q[i], early) \in Int
    BY SeenIn, WrapAssumption
  <2>2. u[i].type = q[i].type /\ u[i].left = q[i].left - d
    OBVIOUS
  <2>3. (q[i].left - d) - Wrap = (q[i].left - Wrap) - d
    BY <2>1
  <2> QED BY <2>1, <2>2, <2>3 DEF Seen
<1>2. Ordered(u, early)
  <2> SUFFICES ASSUME NEW i \in 1 .. Len(q), NEW j \in 1 .. Len(q), i < j
               PROVE  Seen(u[i], early) <= Seen(u[j], early)
    BY DEF Ordered
  <2>1. Seen(q[i], early) <= Seen(q[j], early)
    BY DEF Placed, Ordered
  <2> QED BY <1>1, <2>1
<1>3. Within(u, early, c)
  <2> SUFFICES ASSUME NEW i \in 1 .. Len(q)
               PROVE  /\ c <= Seen(u[i], early)
                      /\ Seen(u[i], early) <= c + Wrap - 1
    BY DEF Within
  <2>1. b <= Seen(q[i], early) /\ Seen(q[i], early) <= b + Wrap - 1
    BY DEF Placed, Within
  <2> QED BY <1>1, <2>1, WrapAssumption
<1>4. Capped(u)
  <2> SUFFICES ASSUME NEW i \in 1 .. Len(q) PROVE u[i].left <= Wrap - 1 + CountPerOp
    BY DEF Capped
  <2>1. q[i].left <= Wrap - 1 + CountPerOp
    BY DEF Placed, Capped
  <2> QED BY <1>1, <2>1, WrapAssumption, CountPerOpAssumption
<1> QED BY <1>2, <1>3, <1>4 DEF Placed

\* A number within half a lap of 0 is recovered from its remainder.
LEMMA SignedSmall ==
    ASSUME NEW x \in -Half .. Half - 1
    PROVE  Signed(x) = x
<1>1. x \in Int /\ Half \in Int /\ Wrap = 2 * Half /\ Half >= 2
  BY HalfType
<1>2. CASE x >= 0
  <2>1. x \in 0 .. Wrap - 1
    BY <1>1, <1>2
  <2>2. Mod(x) = x
    BY <2>1, ModSmall
  <2> QED BY <1>1, <1>2, <2>2 DEF Signed
<1>3. CASE x < 0
  <2>1. x \in -Wrap .. -1
    BY <1>1, <1>3
  <2>2. Mod(x) = x + Wrap
    BY <2>1, ModSmall
  <2> QED BY <1>1, <1>3, <2>2 DEF Signed
<1> QED BY <1>1, <1>2, <1>3

\* An event other than the timer is queued.
Anchored(q) == \E i \in 1 .. Len(q) : q[i].type # "COMPARE_INT"

\* cycle_count is exactly how late the first event is seen.
LEMMA CycleNear ==
    ASSUME Brief, NEW s, QueueOK(s), Synced(s), NEW early \in BOOLEAN,
           NEW b \in Int, Placed(s.q, early, b), b >= Floor,
           \E i \in 1 .. Len(s.q) : Seen(s.q[i], early) <= Half
    PROVE  /\ Seen(s.q[1], early) \in Int /\ s.cycle = 0 - Seen(s.q[1], early)
           /\ b <= Seen(s.q[1], early) /\ Seen(s.q[1], early) <= Half
<1> DEFINE q == s.q
           x == Seen(q[1], early)
           y == s.count - q[1].count
<1>1. /\ q \in Seq(Nodes) /\ q # <<>> /\ s.count \in Int /\ s.cycle = Signed(y)
      /\ Matches(q, s.count) /\ Near(q)
  BY WrapAssumption DEF QueueOK, States, Synced
<1>2. /\ 1 \in 1 .. Len(q) /\ q[1] \in Nodes /\ x \in Int /\ q[1].count \in Int
      /\ q[1].left \in Int /\ Mod(x) = Mod(q[1].left) /\ Len(q) \in Nat
  <2>1. 1 \in 1 .. Len(q) /\ q[1] \in Nodes /\ Len(q) \in Nat
    BY <1>1
  <2> QED BY <2>1, SeenType
<1>3. b <= x
  BY <1>2 DEF Placed, Within
<1>4. x <= Half
  <2>1. PICK i \in 1 .. Len(q) : Seen(q[i], early) <= Half
    OBVIOUS
  <2>2. Seen(q[i], early) \in Int
    BY <1>1, SeenIn
  <2>3. x <= Seen(q[i], early)
    <3>1. CASE i = 1
      BY <1>2, <3>1
    <3>2. CASE i # 1
      <4>1. 1 < i
        BY <3>2
      <4> QED BY <1>2, <4>1 DEF Placed, Ordered
    <3> QED BY <3>1, <3>2
  <2> QED BY <1>2, <2>1, <2>2, <2>3, HalfType
<1>5. Mod(0 - x) = Mod(y) /\ y \in Int /\ 0 - x \in Int
  <2>1. Mod(x) = Mod(q[1].count - s.count)
    BY <1>1, <1>2 DEF Matches
  <2>2. PICK z \in Int : z = q[1].count - s.count
    BY <1>1, <1>2
  <2>3. Mod(x) = Mod(z) /\ x \in Int /\ 0 \in Int
    BY <1>2, <2>1, <2>2
  <2> HIDE DEF x
  <2>4. Mod(0 - x) = Mod(0 - z)
    BY <2>3, ModPlus
  <2>5. 0 - z = y /\ y \in Int
    BY <1>1, <1>2, <2>2
  <2> QED BY <2>3, <2>4, <2>5
<1> HIDE DEF x, y
<1>6. Signed(0 - x) = Signed(y)
  BY <1>5, SignedCongruent
<1>7. 0 - x \in -Half .. Half - 1
  <2>1. /\ x \in Int /\ b \in Int /\ b <= x /\ x <= Half /\ b >= Floor
        /\ Half \in Nat /\ Floor \in Int /\ Floor > 0 - Half
    BY <1>2, <1>3, <1>4, BriefType
  <2> QED BY ONLY <2>1
<1>8. Signed(0 - x) = 0 - x
  BY <1>7, SignedSmall
<1> QED BY <1>1, <1>2, <1>3, <1>4, <1>6, <1>8 DEF x

\* An event other than the timer is at most half a lap ahead.
LEMMA CycleSeen ==
    ASSUME Brief, NEW s, QueueOK(s), Synced(s), Anchored(s.q), NEW early \in BOOLEAN,
           NEW b \in Int, Placed(s.q, early, b), b >= Floor
    PROVE  /\ Seen(s.q[1], early) \in Int /\ s.cycle = 0 - Seen(s.q[1], early)
           /\ b <= Seen(s.q[1], early) /\ Seen(s.q[1], early) <= Half
<1>1. PICK i \in 1 .. Len(s.q) : s.q[i].type # "COMPARE_INT"
  BY DEF Anchored
<1>2. s.q \in Seq(Nodes) /\ Near(s.q)
  BY DEF QueueOK, States
<1>3. Seen(s.q[i], early) <= Half
  BY <1>1, <1>2, SeenIn DEF Near
<1> QED BY <1>3, CycleNear

-----------------------------------------------------------------------------
(* Adding an event.                                                         *)

\* The least element of a set.
LEMMA LeastIsLeast ==
    ASSUME NEW T, T \subseteq Nat, T # {}
    PROVE  Min(T) \in T /\ \A y \in T : Min(T) <= y
  BY LeastNumber DEF Min

\* The place of a new event: behind all that before_event does not put after it.
LEMMA InsertPosPlace ==
    ASSUME NEW s, s.q \in Seq(Nodes), NEW count
    PROVE  LET p == InsertPos(s, count)
           IN  /\ p \in 1 .. Len(s.q) + 1
               /\ \A i \in 1 .. Len(s.q) : i < p => ~BeforeEvent(s, count, s.q[i].count)
               /\ p <= Len(s.q) => BeforeEvent(s, count, s.q[p].count)
<1> DEFINE I == {i \in 1 .. Len(s.q) : BeforeEvent(s, count, s.q[i].count)}
<1>0. I \subseteq Nat /\ Len(s.q) \in Nat
  OBVIOUS
<1>1. I # {} => Min(I) \in I /\ \A y \in I : Min(I) <= y
  <2> HIDE DEF I
  <2> QED BY <1>0, LeastIsLeast
<1>2. I # {} => Min(I) \in 1 .. Len(s.q) /\ Min(I) # 0
  BY <1>1
<1>3. InsertPos(s, count) = IF I # {} THEN Min(I) ELSE Len(s.q) + 1
  BY <1>2 DEF InsertPos, SelectInSeq
<1>4. CASE I = {}
  <2>1. InsertPos(s, count) = Len(s.q) + 1
    BY <1>3, <1>4
  <2>2. \A i \in 1 .. Len(s.q) : ~BeforeEvent(s, count, s.q[i].count)
    BY <1>4
  <2> QED BY <1>0, <2>1, <2>2
<1>5. CASE I # {}
  <2>1. InsertPos(s, count) = Min(I) /\ Min(I) \in I /\ \A y \in I : Min(I) <= y
    BY <1>1, <1>3, <1>5
  <2>2. ASSUME NEW i \in 1 .. Len(s.q), i < Min(I)
        PROVE  ~BeforeEvent(s, count, s.q[i].count)
    <3>1. PICK m \in I : m = Min(I) /\ \A y \in I : m <= y
      BY <2>1
    <3>2. m \in Nat /\ i < m
      BY <1>0, <2>2, <3>1
    <3>3. i \notin I
      BY <3>1, <3>2
    <3> QED BY <3>3
  <2>3. Min(I) \in 1 .. Len(s.q) /\ BeforeEvent(s, count, s.q[Min(I)].count)
    BY <2>1
  <2> QED BY <1>0, <2>1, <2>2, <2>3
<1> QED BY <1>4, <1>5

\* Congruence, for a difference.
LEMMA ModMinus ==
    ASSUME NEW v \in Int, NEW d \in Int, NEW b \in Int, Mod(v) = Mod(d)
    PROVE  Mod(v - b) = Mod(d - b)
  BY ModPlus

\* Congruence, for a sum.
LEMMA ModAdd ==
    ASSUME NEW v \in Int, NEW d \in Int, NEW b \in Int, Mod(v) = Mod(d)
    PROVE  Mod(v + b) = Mod(d + b)
  BY ModPlus

\* before_event measures an event of the lap that starts at b, seen at v, as v - b,
\* when the base is b away from Count.
LEMMA Measure ==
    ASSUME NEW base \in Int, NEW c \in Int, NEW b \in Int, Mod(base) = Mod(c + b),
           NEW x \in Int, NEW v \in Int, Mod(v) = Mod(x - c),
           b <= v, v <= b + Wrap - 1
    PROVE  Mod(x - base) = v - b
<1>1. PICK y \in Int : y = c + b
  OBVIOUS
<1>2. Mod(x - base) = Mod(x - y)
  <2>1. Mod(base) = Mod(y)
    BY <1>1
  <2> QED BY <2>1, ModPlus
<1>3. PICK d \in Int : d = x - c
  OBVIOUS
<1>4. Mod(v - b) = Mod(d - b)
  <2>1. v \in Int /\ d \in Int /\ b \in Int /\ Mod(v) = Mod(d)
    BY <1>3
  <2> QED BY ONLY <2>1, ModMinus, ZenonT(30)
<1>5. x - y = d - b
  BY <1>1, <1>3
<1>6. v - b \in 0 .. Wrap - 1
  BY WrapAssumption
<1>7. Mod(v - b) = v - b
  BY <1>6, ModSmall
<1> QED BY <1>2, <1>4, <1>5, <1>7

\* An event of the lap goes between those that are seen before it, or with it, and
\* those that are seen after it.  c is the Count from which the distances are taken.
LEMMA InsertPlaced ==
    ASSUME NEW s, s.q \in Seq(Nodes), NEW c \in Int, Matches(s.q, c), Base(s) \in Int,
           NEW early \in BOOLEAN, NEW b \in Int, Placed(s.q, early, b),
           Mod(Base(s)) = Mod(c + b),
           NEW e \in Nodes, Mod(e.left) = Mod(e.count - c),
           e.left <= Wrap - 1 + CountPerOp,
           b <= Seen(e, early), Seen(e, early) <= b + Wrap - 1,
           NEW u, NEW p, p = InsertPos(s, e.count), InsertedAt(u, s.q, e, p)
    PROVE  /\ Placed(u, early, b)
           /\ \A i \in 1 .. Len(s.q) :
                 IF i < p THEN Seen(s.q[i], early) <= Seen(e, early)
                 ELSE Seen(e, early) < Seen(s.q[i], early)
<1> DEFINE q == s.q
           v == Seen(e, early)
<1>1. v \in Int /\ e.count \in Int /\ Mod(v) = Mod(e.count - c)
  BY SeenType
<1>2. Mod(e.count - Base(s)) = v - b
  <2> HIDE DEF v
  <2>1. PICK x \in Int : x = e.count
    BY <1>1
  <2>2. PICK y \in Int : y = Base(s)
    OBVIOUS
  <2>3. /\ y \in Int /\ c \in Int /\ b \in Int /\ Mod(y) = Mod(c + b) /\ x \in Int
        /\ v \in Int /\ Mod(v) = Mod(x - c) /\ b <= v /\ v <= b + Wrap - 1
    BY <1>1, <2>1, <2>2 DEF v
  <2>4. Mod(x - y) = v - b
    BY ONLY <2>3, Measure
  <2> QED BY <2>1, <2>2, <2>4
<1>3. ASSUME NEW i \in 1 .. Len(q)
      PROVE  /\ Mod(q[i].count - Base(s)) = Seen(q[i], early) - b
             /\ Seen(q[i], early) \in Int
  <2>1. q[i] \in Nodes
    OBVIOUS
  <2>2. PICK w \in Int : w = Seen(q[i], early)
    BY <2>1, SeenType
  <2>3. Mod(w) = Mod(q[i].count - c) /\ q[i].count \in Int
    BY <2>1, <2>2, SeenType DEF Matches
  <2>4. b <= w /\ w <= b + Wrap - 1
    BY <2>2 DEF Placed, Within
  <2>5. PICK x \in Int : x = q[i].count
    BY <2>3
  <2>6. PICK y \in Int : y = Base(s)
    OBVIOUS
  <2>7. /\ y \in Int /\ c \in Int /\ b \in Int /\ Mod(y) = Mod(c + b) /\ x \in Int
        /\ w \in Int /\ Mod(w) = Mod(x - c) /\ b <= w /\ w <= b + Wrap - 1
    BY <2>3, <2>4, <2>5, <2>6
  <2>8. Mod(x - y) = w - b
    BY ONLY <2>7, Measure
  <2> QED BY <2>2, <2>5, <2>6, <2>8
<1>4. ASSUME NEW i \in 1 .. Len(q)
      PROVE  BeforeEvent(s, e.count, q[i].count) <=> v < Seen(q[i], early)
  <2> HIDE DEF v
  <2>1. v - b < Seen(q[i], early) - b <=> v < Seen(q[i], early)
    BY <1>1, <1>3
  <2> QED BY <1>2, <1>3, <2>1 DEF BeforeEvent
<1>5. /\ p \in 1 .. Len(q) + 1 /\ Len(q) \in Nat
      /\ \A i \in 1 .. Len(q) : i < p => ~(v < Seen(q[i], early))
      /\ p <= Len(q) => v < Seen(q[p], early)
  <2>1. /\ p \in 1 .. Len(q) + 1 /\ Len(q) \in Nat
        /\ \A i \in 1 .. Len(q) : i < p => ~BeforeEvent(s, e.count, q[i].count)
        /\ p <= Len(q) => BeforeEvent(s, e.count, q[p].count)
    BY InsertPosPlace
  <2> HIDE DEF v
  <2>2. p <= Len(q) => p \in 1 .. Len(q)
    BY <2>1
  <2> QED BY <1>4, <2>1, <2>2
<1>6. ASSUME NEW i \in 1 .. Len(q)
      PROVE  IF i < p THEN Seen(q[i], early) <= v ELSE v < Seen(q[i], early)
  <2> HIDE DEF v
  <2>1. CASE i < p
    BY <1>1, <1>3, <1>5, <2>1
  <2>2. CASE ~(i < p)
    <3>1. p \in 1 .. Len(q) /\ v < Seen(q[p], early)
      BY <1>5, <2>2
    <3>2. CASE i = p
      BY <2>2, <3>1, <3>2
    <3>3. CASE i # p
      <4>1. p < i
        BY <1>5, <2>2, <3>3
      <4>2. Seen(q[p], early) <= Seen(q[i], early)
        BY <3>1, <4>1 DEF Placed, Ordered
      <4> QED BY <1>1, <1>3, <2>2, <3>1, <4>2
    <3> QED BY <3>2, <3>3
  <2> QED BY <2>1, <2>2
<1>7. /\ u \in Seq(Nodes) /\ Len(u) = Len(q) + 1 /\ p \in 1 .. Len(u)
      /\ \A i \in 1 .. Len(u) :
            u[i] = IF i < p THEN q[i] ELSE IF i = p THEN e ELSE q[i - 1]
  BY DEF InsertedAt
<1> HIDE DEF v
<1>8. Ordered(u, early)
  <2> SUFFICES ASSUME NEW i \in 1 .. Len(u), NEW j \in 1 .. Len(u), i < j
               PROVE  Seen(u[i], early) <= Seen(u[j], early)
    BY DEF Ordered
  <2>1. ASSUME NEW k \in 1 .. Len(q), NEW l \in 1 .. Len(q), k < l
        PROVE  Seen(q[k], early) <= Seen(q[l], early)
    BY <2>1 DEF Placed, Ordered
  <2>2. CASE j < p
    <3>1. i \in 1 .. Len(q) /\ j \in 1 .. Len(q) /\ u[i] = q[i] /\ u[j] = q[j]
      BY <1>5, <1>7, <2>2
    <3> QED BY <2>1, <3>1
  <2>3. CASE j = p
    <3>1. i \in 1 .. Len(q) /\ i < p /\ u[i] = q[i] /\ u[j] = e
      BY <1>5, <1>7, <2>3
    <3> QED BY <1>6, <3>1 DEF v
  <2>4. CASE j > p /\ i < p
    <3>1. i \in 1 .. Len(q) /\ j - 1 \in 1 .. Len(q) /\ i < j - 1
          /\ u[i] = q[i] /\ u[j] = q[j - 1]
      <4>1. i \in Nat /\ j \in Nat /\ ~(j < p) /\ j # p
        BY <1>5, <1>7, <2>4
      <4>2. u[i] = q[i] /\ u[j] = q[j - 1]
        BY <1>7, <2>4, <4>1
      <4> QED BY <1>5, <1>7, <2>4, <4>1, <4>2
    <3> QED BY <2>1, <3>1
  <2>5. CASE j > p /\ i = p
    <3>1. j - 1 \in 1 .. Len(q) /\ ~(j - 1 < p) /\ u[i] = e /\ u[j] = q[j - 1]
      BY <1>5, <1>7, <2>5
    <3>2. v < Seen(q[j - 1], early) /\ Seen(q[j - 1], early) \in Int
      BY <1>3, <1>6, <3>1
    <3> QED BY <1>1, <3>1, <3>2 DEF v
  <2>6. CASE j > p /\ i > p
    <3>1. i - 1 \in 1 .. Len(q) /\ j - 1 \in 1 .. Len(q) /\ i - 1 < j - 1
          /\ u[i] = q[i - 1] /\ u[j] = q[j - 1]
      <4>1. i \in Nat /\ j \in Nat /\ ~(j < p) /\ j # p /\ ~(i < p) /\ i # p
        BY <1>5, <1>7, <2>6
      <4>2. u[i] = q[i - 1] /\ u[j] = q[j - 1]
        BY <1>7, <4>1
      <4> QED BY <1>5, <1>7, <2>6, <4>1, <4>2
    <3> QED BY <2>1, <3>1
  <2> QED BY <1>5, <2>2, <2>3, <2>4, <2>5, <2>6
<1>9. ASSUME NEW i \in 1 .. Len(u)
      PROVE  u[i] = e \/ \E j \in 1 .. Len(q) : u[i] = q[j]
  <2>1. CASE i < p
    <3>1. i \in 1 .. Len(q) /\ u[i] = q[i]
      BY <1>5, <1>7, <2>1
    <3> QED BY <3>1
  <2>2. CASE i = p
    BY <1>7, <2>2
  <2>3. CASE i > p
    <3>1. i - 1 \in 1 .. Len(q) /\ u[i] = q[i - 1]
      BY <1>5, <1>7, <2>3
    <3> QED BY <3>1
  <2> QED BY <1>5, <2>1, <2>2, <2>3
<1>10. Within(u, early, b) /\ Capped(u)
  BY <1>9 DEF Within, Capped, Placed
<1> QED BY <1>6, <1>8, <1>10 DEF Placed, v

\* add_interrupt_event_count puts the node exactly at InsertPos.
LEMMA AddAt ==
    ASSUME NEW s \in States, Len(s.q) < Capacity,
           NEW type \in EventTypes, NEW count \in 0 .. Wrap - 1, NEW left \in Int
    PROVE  LET t == AddEventCount(s, type, count, left)
               e == Event(type, count, left)
           IN  /\ e \in Nodes /\ e.type = type /\ e.count = count /\ e.left = left
               /\ InsertedAt(t.q, s.q, e, InsertPos(s, count))
<1> DEFINE e == Event(type, count, left)
           p == InsertPos(s, count)
           u == InsertAt(s.q, p, e)
           v == [s EXCEPT !.q = u]
           t == AddEventCount(s, type, count, left)
<1>1. e \in Nodes /\ e.type = type /\ e.count = count /\ e.left = left
  BY DEF Event, Nodes
<1>2. s.q \in Seq(Nodes)
  BY DEF States
<1>3. p \in 1 .. Len(s.q) + 1
  BY <1>2, InsertPosRange
<1>4. ~(Len(s.q) >= Capacity)
  BY <1>2, CapacityAssumption
<1>5. t = Sync(v)
  BY <1>4 DEF AddEventCount
<1> HIDE DEF p, e, t
<1>6. InsertedAt(u, s.q, e, p)
  BY <1>1, <1>2, <1>3, InsertAtPlace
<1> HIDE DEF u
<1>7. u \in Seq(Nodes) /\ u # <<>>
  <2>1. u \in Seq(Nodes) /\ Len(u) = Len(s.q) + 1 /\ Len(s.q) \in Nat
    BY <1>2, <1>6 DEF InsertedAt
  <2> QED BY <2>1
<1>8. v \in States /\ v.q = u
  BY <1>7 DEF States
<1> HIDE DEF v
<1>9. t.q = u
  BY <1>5, <1>7, <1>8, SyncOK
<1> QED BY <1>1, <1>6, <1>9 DEF e, t, p

\* From where before_event measures: the first event if it is overdue, else Count.
Start(s) == IF s.cycle > 0 THEN 0 - s.cycle ELSE 0

\* The base, and how far back it may be.
LEMMA StartType ==
    ASSUME NEW s \in States
    PROVE  /\ Start(s) \in Int /\ Start(s) <= 0 /\ Start(s) > 0 - Half
           /\ s.count \in Int /\ Base(s) \in Int /\ Base(s) = s.count + Start(s)
<1>1. s.count \in Int /\ s.cycle \in Int /\ s.cycle < Half
  BY HalfType, WrapAssumption DEF States
<1> QED BY <1>1, HalfType DEF Start, Base

\* Adding an event of the lap that starts at the base, when there is a free node.
LEMMA AddWithin ==
    ASSUME NEW s, QueueOK(s), Len(s.q) < Capacity, NEW early \in BOOLEAN,
           Placed(s.q, early, Start(s)),
           NEW type \in EventTypes, NEW count \in 0 .. Wrap - 1, NEW left \in Int,
           Mod(left) = Mod(count - s.count), left <= Wrap - 1 + CountPerOp,
           Start(s) <= Seen(Event(type, count, left), early),
           Seen(Event(type, count, left), early) <= Start(s) + Wrap - 1
    PROVE  LET e == Event(type, count, left)
               t == AddEventCount(s, type, count, left)
               p == InsertPos(s, count)
           IN  /\ Placed(t.q, early, Start(s)) /\ InsertedAt(t.q, s.q, e, p)
               /\ e \in Nodes /\ e.type = type /\ e.count = count /\ e.left = left
               /\ \A i \in 1 .. Len(s.q) :
                     IF i < p THEN Seen(s.q[i], early) <= Seen(e, early)
                     ELSE Seen(e, early) < Seen(s.q[i], early)
<1> DEFINE e == Event(type, count, left)
           t == AddEventCount(s, type, count, left)
           u == t.q
           b == Start(s)
           p == InsertPos(s, count)
<1>1. s \in States /\ s.q \in Seq(Nodes) /\ Matches(s.q, s.count)
  BY DEF QueueOK, States
<1>2. b \in Int /\ s.count \in Int /\ Base(s) \in Int /\ Base(s) = s.count + b
  BY <1>1, StartType
<1>3. /\ e \in Nodes /\ e.type = type /\ e.count = count /\ e.left = left
      /\ InsertedAt(u, s.q, e, p)
  BY <1>1, AddAt
<1>4. b <= Seen(e, early) /\ Seen(e, early) <= b + Wrap - 1 /\ Placed(s.q, early, b)
  OBVIOUS
<1> HIDE DEF e, u, b, p
<1>5. /\ Mod(e.left) = Mod(e.count - s.count) /\ Mod(Base(s)) = Mod(s.count + b)
      /\ p = InsertPos(s, e.count) /\ e.left <= Wrap - 1 + CountPerOp
      /\ early \in BOOLEAN
  BY <1>2, <1>3 DEF p
<1>6. PICK c \in Int : c = s.count
  BY <1>2
<1>7. /\ s.q \in Seq(Nodes) /\ c \in Int /\ Matches(s.q, c) /\ Base(s) \in Int
      /\ early \in BOOLEAN /\ b \in Int /\ Placed(s.q, early, b)
      /\ Mod(Base(s)) = Mod(c + b)
      /\ e \in Nodes /\ Mod(e.left) = Mod(e.count - c)
      /\ e.left <= Wrap - 1 + CountPerOp
      /\ b <= Seen(e, early) /\ Seen(e, early) <= b + Wrap - 1
      /\ InsertedAt(u, s.q, e, p) /\ p = InsertPos(s, e.count)
  BY ONLY <1>1, <1>2, <1>3, <1>4, <1>5, <1>6
<1>8. /\ Placed(u, early, b)
      /\ \A i \in 1 .. Len(s.q) :
            IF i < p THEN Seen(s.q[i], early) <= Seen(e, early)
            ELSE Seen(e, early) < Seen(s.q[i], early)
  BY ONLY <1>7, InsertPlaced
<1> QED BY <1>3, <1>8 DEF e, u, b, p

\* An event of a device, the video interface or SPECIAL_INT: it is due between now and
\* half a lap ahead, so that it belongs to the lap that starts at the base.
LEMMA AddPlaced ==
    ASSUME NEW s, QueueOK(s), NEW early \in BOOLEAN, Placed(s.q, early, Start(s)),
           NEW type \in EventTypes \ {"COMPARE_INT"}, NEW count \in 0 .. Wrap - 1,
           NEW left \in 0 .. Half, Mod(left) = Mod(count - s.count)
    PROVE  Placed(AddEventCount(s, type, count, left).q, early, Start(s))
<1> DEFINE e == Event(type, count, left)
<1>1. s \in States /\ Len(s.q) \in Nat
  <2>1. s \in States /\ s.q \in Seq(Nodes)
    BY DEF QueueOK, States
  <2> QED BY <2>1
<1>2. Start(s) \in Int /\ Start(s) <= 0 /\ Start(s) > 0 - Half
  BY <1>1, StartType
<1>3. CASE Len(s.q) >= Capacity
  BY <1>3 DEF AddEventCount
<1>4. CASE Len(s.q) < Capacity
  <2>1. left \in Int /\ type \in EventTypes /\ left >= 0 /\ left <= Half
    BY HalfType
  <2>2. Seen(e, early) = left
    BY DEF Event, Seen
  <2>3. /\ Start(s) <= Seen(e, early) /\ Seen(e, early) <= Start(s) + Wrap - 1
        /\ left <= Wrap - 1 + CountPerOp
    BY <1>2, <2>1, <2>2, HalfType, CountPerOpAssumption
  <2> HIDE DEF e
  <2> QED BY <1>4, <2>1, <2>3, AddWithin DEF e
<1> QED BY <1>1, <1>3, <1>4, CapacityAssumption

\* Without the timer the queue looks the same either way.
LEMMA NoTimer ==
    ASSUME NEW q \in Seq(Nodes), ~Occurs(q, "COMPARE_INT"), NEW early \in BOOLEAN,
           NEW other \in BOOLEAN, NEW b \in Int, Placed(q, early, b)
    PROVE  Placed(q, other, b)
<1>1. \A i \in 1 .. Len(q) : Seen(q[i], early) = Seen(q[i], other)
  BY SeenIn DEF Occurs
<1> QED BY <1>1 DEF Placed, Ordered, Within

\* The lap of a queue without the timer may start anywhere between half a lap back and
\* the first event.
LEMMA NearPlaced ==
    ASSUME NEW q \in Seq(Nodes), Near(q), ~Occurs(q, "COMPARE_INT"),
           NEW early \in BOOLEAN, NEW other \in BOOLEAN, NEW b \in Int,
           Ordered(q, early), b > 0 - Half,
           \A i \in 1 .. Len(q) : b <= q[i].left
    PROVE  Placed(q, other, b)
<1>1. ASSUME NEW i \in 1 .. Len(q)
      PROVE  /\ Seen(q[i], early) = q[i].left /\ Seen(q[i], other) = q[i].left
             /\ q[i].left \in Int /\ q[i].left <= Half
  <2>1. q[i].type # "COMPARE_INT"
    BY DEF Occurs
  <2> QED BY <2>1, SeenIn DEF Near
<1>2. Ordered(q, other)
  BY <1>1 DEF Ordered
<1>3. Within(q, other, b)
  <2> SUFFICES ASSUME NEW i \in 1 .. Len(q)
               PROVE  b <= Seen(q[i], other) /\ Seen(q[i], other) <= b + Wrap - 1
    BY DEF Within
  <2> QED BY <1>1, HalfType
<1>4. Capped(q)
  <2> SUFFICES ASSUME NEW i \in 1 .. Len(q) PROVE q[i].left <= Wrap - 1 + CountPerOp
    BY DEF Capped
  <2> QED BY <1>1, HalfType, CountPerOpAssumption
<1> QED BY <1>2, <1>3, <1>4 DEF Placed

\* The four lines that arm the timer.  They measure from one instruction ahead, or from
\* the first event when that is nearer; in the lap that starts there the new timer may
\* be seen a whole lap early.
LEMMA AddComparePlaced ==
    ASSUME Brief, NEW s, QueueOK(s), ~Occurs(s.q, "COMPARE_INT"), Len(s.q) < Capacity,
           NEW compare \in 0 .. Wrap - 1, NEW early \in BOOLEAN, Ordered(s.q, early),
           \A i \in 1 .. Len(s.q) : 0 - s.cycle <= s.q[i].left,
           0 - s.cycle >= Floor
    PROVE  OrderOK(AddCompare(s, compare).q)
<1> DEFINE n == Mod(s.count + CountPerOp)
           k == Signed(s.cycle + CountPerOp)
           ahead == [s EXCEPT !.count = n, !.cycle = k]
           lap == Mod(compare - n) + CountPerOp
           e == Event("COMPARE_INT", compare, lap)
           added == AddEventCount(ahead, "COMPARE_INT", compare, lap)
           c == Signed(s.count - added.q[1].count)
           t == AddCompare(s, compare)
           b == IF 0 - s.cycle < CountPerOp THEN 0 - s.cycle ELSE CountPerOp
           p == InsertPos(ahead, compare)
           late == lap > b + Wrap - 1
<1>0. /\ CountPerOp \in Nat /\ CountPerOp >= 1 /\ Half \in Nat /\ Half >= 2
      /\ Wrap = 2 * Half /\ Floor \in Int /\ Floor <= 0 - CountPerOp
      /\ Floor > 0 - Half /\ 2 * CountPerOp < Half /\ Floor = CountPerOp + 1 - Half
  BY BriefType DEF Floor
<1>1. s \in States /\ s.q \in Seq(Nodes) /\ s.count \in 0 .. Wrap - 1
      /\ s.count \in Int /\ s.cycle \in Int /\ s.cycle >= 0 - Half /\ compare \in Int
      /\ Matches(s.q, s.count) /\ Near(s.q)
  BY <1>0 DEF QueueOK, States
<1>2. PICK m \in Int : m = s.count + CountPerOp
  <2>1. s.count \in Int /\ CountPerOp \in Int
    BY <1>0, <1>1
  <2>2. s.count + CountPerOp \in Int
    BY ONLY <2>1
  <2> QED BY <2>2
<1>3. n \in 0 .. Wrap - 1 /\ n \in Int /\ Mod(n) = Mod(m)
  <2>1. n \in 0 .. Wrap - 1 /\ Mod(n) = Mod(m)
    BY <1>2, ModRange, ModMod
  <2> QED BY <1>0, <2>1
<1>4. k = s.cycle + CountPerOp /\ k \in -Half .. Half - 1
  <2>1. s.cycle + CountPerOp \in -Half .. Half - 1
    BY <1>0, <1>1
  <2> QED BY <2>1, SignedSmall
<1> HIDE DEF n, k
<1>5. lap \in Int /\ CountPerOp <= lap /\ lap <= Wrap - 1 + CountPerOp
      /\ Mod(lap) = Mod(compare - s.count)
  <2>1. PICK x \in Int : x = compare - n
    BY <1>1, <1>3
  <2>2. PICK r \in 0 .. Wrap - 1 : r = Mod(x) /\ Mod(r) = Mod(x)
    BY ModRange, ModMod
  <2>3. lap = r + CountPerOp /\ r \in Int
    BY <1>0, <2>1, <2>2
  <2>4. Mod(r + CountPerOp) = Mod(x + CountPerOp)
    <3>1. r \in Int /\ CountPerOp \in Int /\ Mod(r) = Mod(x)
      BY <1>0, <2>2
    <3> QED BY <3>1, ModPlus
  <2>5. PICK y \in Int : y = compare + CountPerOp
    BY <1>0, <1>1
  <2>6. x + CountPerOp = y - n /\ y - m = compare - s.count
    BY <1>0, <1>1, <1>2, <1>3, <2>1, <2>5
  <2>7. Mod(y - n) = Mod(y - m)
    BY <1>3, ModPlus
  <2> QED BY <1>0, <2>2, <2>3, <2>4, <2>6, <2>7
<1> HIDE DEF lap
<1>6. ahead \in States /\ ahead.q = s.q /\ ahead.count = n /\ ahead.cycle = k
  BY <1>1, <1>3, <1>4 DEF States
<1>7. t.q = added.q
  <2>1. lap = Mod(compare - ahead.count) + CountPerOp
    BY <1>6 DEF lap
  <2>2. t = [added EXCEPT !.count = s.count, !.cycle = c]
    BY <2>1 DEF AddCompare, n, k
  <2>3. added \in States
    <3>1. "COMPARE_INT" \in EventTypes
      BY DEF EventTypes
    <3> QED BY <1>5, <1>6, <3>1, AddShape
  <2> HIDE DEF t, added
  <2> QED BY <2>2, <2>3 DEF States
<1>8. /\ e \in Nodes /\ e.type = "COMPARE_INT" /\ e.count = compare /\ e.left = lap
      /\ InsertedAt(added.q, s.q, e, p)
  <2>1. "COMPARE_INT" \in EventTypes
    BY DEF EventTypes
  <2> HIDE DEF ahead
  <2> QED BY <1>5, <1>6, <2>1, AddAt
<1>9. b \in Int /\ Floor <= b /\ b <= CountPerOp /\ b <= 0 - s.cycle
  BY <1>0, <1>1
<1>10. Base(ahead) \in Int /\ Mod(Base(ahead)) = Mod(s.count + b)
  <2>1. CASE 0 - s.cycle < CountPerOp
    <3>1. k > 0 /\ b = 0 - s.cycle
      BY <1>0, <1>1, <1>4, <2>1
    <3>2. Base(ahead) = n - k /\ k \in Int
      BY <1>0, <1>1, <1>4, <1>6, <3>1 DEF Base
    <3>3. Mod(n - k) = Mod(m - k)
      <4>1. n \in Int /\ m \in Int /\ k \in Int /\ Mod(n) = Mod(m)
        BY <1>3, <3>2
      <4> HIDE DEF b
      <4> QED BY ONLY <4>1, ModMinus, ZenonT(30)
    <3>4. m - k = s.count + b
      <4>1. /\ m = s.count + CountPerOp /\ k = s.cycle + CountPerOp /\ b = 0 - s.cycle
            /\ s.count \in Int /\ s.cycle \in Int /\ CountPerOp \in Int
        BY <1>0, <1>1, <1>2, <1>4, <3>1
      <4> HIDE DEF b
      <4> QED BY ONLY <4>1
    <3> QED BY <1>3, <3>2, <3>3, <3>4
  <2>2. CASE ~(0 - s.cycle < CountPerOp)
    <3>1. ~(k > 0) /\ b = CountPerOp
      BY <1>0, <1>1, <1>4, <2>2
    <3>2. Base(ahead) = n
      BY <1>6, <3>1 DEF Base
    <3> QED BY <1>2, <1>3, <3>1, <3>2
  <2> QED BY <2>1, <2>2
<1> HIDE DEF ahead, added, e, t
<1>11. late \in BOOLEAN /\ Placed(s.q, late, b)
  <2>1. \A i \in 1 .. Len(s.q) : b <= s.q[i].left
    <3> SUFFICES ASSUME NEW i \in 1 .. Len(s.q) PROVE b <= s.q[i].left
      OBVIOUS
    <3>1. s.q[i].left \in Int /\ 0 - s.cycle <= s.q[i].left
      BY <1>1, SeenIn
    <3> QED BY <1>1, <1>9, <3>1
  <2>2. b > 0 - Half /\ late \in BOOLEAN
    BY <1>0, <1>9
  <2> HIDE DEF late, b
  <2> QED BY <1>1, <1>9, <2>1, <2>2, NearPlaced
<1>12. b <= Seen(e, late) /\ Seen(e, late) <= b + Wrap - 1
  <2>1. Seen(e, late) = IF late THEN lap - Wrap ELSE lap
    BY <1>8 DEF Seen
  <2>2. late <=> lap > b + Wrap - 1
    OBVIOUS
  <2> HIDE DEF late, b
  <2> QED BY <1>0, <1>5, <1>9, <2>1, <2>2
<1> HIDE DEF late, b
<1>13. Placed(added.q, late, b)
  <2>1. p = InsertPos(ahead, e.count) /\ ahead.q \in Seq(Nodes) /\ Matches(ahead.q, s.count)
        /\ Placed(ahead.q, late, b) /\ Mod(e.left) = Mod(e.count - s.count)
        /\ InsertedAt(added.q, ahead.q, e, p) /\ e.left <= Wrap - 1 + CountPerOp
    BY <1>1, <1>5, <1>6, <1>8, <1>11
  <2> DEFINE u == added.q
  <2> HIDE DEF p, u
  <2>2. /\ s.count \in Int /\ Base(ahead) \in Int /\ Mod(Base(ahead)) = Mod(s.count + b)
        /\ late \in BOOLEAN /\ b \in Int /\ e \in Nodes
        /\ b <= Seen(e, late) /\ Seen(e, late) <= b + Wrap - 1
        /\ InsertedAt(u, ahead.q, e, p)
    BY <1>1, <1>8, <1>9, <1>10, <1>11, <1>12, <2>1 DEF u
  <2>3. Placed(u, late, b)
    BY ONLY <2>1, <2>2, InsertPlaced
  <2> QED BY <2>3 DEF u
<1>14. b \in Floor .. CountPerOp
  BY <1>0, <1>9
<1> QED BY <1>7, <1>11, <1>13, <1>14 DEF OrderOK, t

-----------------------------------------------------------------------------
(* CPU states.                                                              *)

\* Everything that is known of the queue of a state.
LEMMA QueueType ==
    ASSUME NEW s, QueueOK(s)
    PROVE  /\ s \in States /\ s.q \in Seq(Nodes) /\ Len(s.q) \in Nat /\ Len(s.q) <= Capacity
           /\ s.count \in 0 .. Wrap - 1 /\ s.count \in Int /\ s.cycle \in Int
           /\ Matches(s.q, s.count) /\ Near(s.q) /\ Singles(s.q)
<1>1. s \in States /\ s.q \in Seq(Nodes) /\ s.count \in 0 .. Wrap - 1
      /\ s.cycle \in -Half .. Half - 1
  BY DEF QueueOK, States
<1> QED BY <1>1, HalfType, WrapAssumption DEF QueueOK

\* Measured from the base, the queue of a state in which the first event is due, or in
\* which an instruction has just moved Count, is in order.
LEMMA StartPlaced ==
    ASSUME Brief, NEW s, QueueOK(s), Synced(s), Anchored(s.q), NEW early \in BOOLEAN,
           NEW b \in Int, Floor <= b, b <= 0, Placed(s.q, early, b)
    PROVE  /\ Placed(s.q, early, Start(s)) /\ Start(s) \in Int
           /\ b <= Start(s) /\ Start(s) <= 0
<1>1. s.q \in Seq(Nodes) /\ s \in States
  BY QueueType
<1>2. PICK x \in Int : /\ x = Seen(s.q[1], early) /\ s.cycle = 0 - x
                       /\ b <= x /\ x <= Half
  BY CycleSeen
<1>3. Start(s) = IF x < 0 THEN x ELSE 0
  BY <1>2 DEF Start
<1>4. Start(s) \in Int /\ b <= Start(s) /\ Start(s) <= 0 /\ Start(s) <= x
  BY <1>2, <1>3
<1>5. Placed(s.q, early, Start(s))
  BY <1>1, <1>2, <1>4, Tighten
<1> QED BY <1>4, <1>5

\* add_interrupt_event_count in such a state.
LEMMA AddOrder ==
    ASSUME Brief, NEW s, QueueOK(s), Synced(s), Anchored(s.q), NEW early \in BOOLEAN,
           NEW b \in Int, Floor <= b, b <= 0, Placed(s.q, early, b),
           NEW type \in EventTypes \ {"COMPARE_INT"}, NEW count \in 0 .. Wrap - 1,
           NEW left \in 0 .. Half, Mod(left) = Mod(count - s.count)
    PROVE  OrderOK(AddEventCount(s, type, count, left).q)
<1> DEFINE u == AddEventCount(s, type, count, left).q
<1>1. /\ Placed(s.q, early, Start(s)) /\ Start(s) \in Int
      /\ b <= Start(s) /\ Start(s) <= 0
  BY StartPlaced
<1>2. Placed(u, early, Start(s))
  BY <1>1, AddPlaced
<1>3. Start(s) \in Floor .. CountPerOp
  BY <1>1, BriefType
<1> HIDE DEF u
<1>4. OrderOK(u)
  BY <1>2, <1>3 DEF OrderOK
<1> QED BY <1>4 DEF u

\* remove_interrupt_event.
LEMMA RemoveFirstPlaced ==
    ASSUME NEW s, QueueOK(s), Timers(s.q), NEW early \in BOOLEAN, NEW b \in Int,
           Placed(s.q, early, b)
    PROVE  Placed(RemoveFirstEvent(s).q, early, b)
<1>1. s.q \in Seq(Nodes) /\ 1 \in 1 .. Len(s.q)
  <2>1. s.q \in Seq(Nodes) /\ Len(s.q) \in Nat
    BY QueueType
  <2> QED BY <2>1 DEF Timers, Occurs
<1>2. Removed(RemoveFirstEvent(s).q, s.q, 1)
  BY RemoveFirstOK
<1> QED BY <1>1, <1>2, RemovePlaced

\* remove_event takes one node out, and leaves cycle_count as it is.
LEMMA RemoveEventPlaced ==
    ASSUME NEW s, QueueOK(s), NEW type, NEW early \in BOOLEAN, NEW b \in Int,
           Placed(s.q, early, b)
    PROVE  LET t == RemoveEvent(s, type)
           IN  /\ Placed(t.q, early, b) /\ t.cycle = s.cycle
               /\ \A i \in 1 .. Len(t.q) : \E j \in 1 .. Len(s.q) : t.q[i] = s.q[j]
<1> DEFINE u == WithoutFirst(s.q, type)
           t == RemoveEvent(s, type)
<1>1. s \in States /\ s.q \in Seq(Nodes)
  BY QueueType
<1>2. IF \E i \in 1 .. Len(s.q) : s.q[i].type = type
      THEN \E p \in 1 .. Len(s.q) : s.q[p].type = type /\ Removed(u, s.q, p)
      ELSE u = s.q
  BY <1>1, FirstMatchRemoves
<1>3. t = [s EXCEPT !.q = u]
  BY DEF RemoveEvent, WithoutFirst
<1> HIDE DEF t, u
<1>4. t.q = u /\ t.cycle = s.cycle
  BY <1>1, <1>3 DEF States
<1>5. CASE \E i \in 1 .. Len(s.q) : s.q[i].type = type
  <2>1. PICK p \in 1 .. Len(s.q) : Removed(u, s.q, p)
    BY <1>2, <1>5
  <2>2. Placed(u, early, b)
    BY <1>1, <2>1, RemovePlaced
  <2>3. \A i \in 1 .. Len(u) : \E j \in 1 .. Len(s.q) : u[i] = s.q[j]
    BY <1>1, <2>1, RemovedFacts
  <2> QED BY <1>4, <2>2, <2>3 DEF t
<1>6. CASE ~\E i \in 1 .. Len(s.q) : s.q[i].type = type
  BY <1>2, <1>4, <1>6 DEF t
<1> QED BY <1>5, <1>6

\* Arming SPECIAL_INT.
LEMMA AddSpecialPlaced ==
    ASSUME NEW s, QueueOK(s), NEW early \in BOOLEAN, Placed(s.q, early, Start(s))
    PROVE  Placed(AddSpecial(s).q, early, Start(s))
<1> DEFINE c == IF s.count < Half THEN Half ELSE 0
           l == Half - (s.count % Half)
           u == AddEventCount(s, "SPECIAL_INT", c, l).q
<1>1. s \in States /\ s.count \in 0 .. Wrap - 1
  BY QueueType
<1>2. s.count % Half = IF s.count < Half THEN s.count ELSE s.count - Half
  BY <1>1, HalfType
<1>3. l = IF s.count < Half THEN Half - s.count ELSE Half - (s.count - Half)
  BY <1>2
<1>4. AddSpecial(s).q = u /\ "SPECIAL_INT" \in EventTypes \ {"COMPARE_INT"}
  BY DEF AddSpecial, EventTypes
<1> HIDE DEF l
<1>5. /\ c \in 0 .. Wrap - 1 /\ l \in 0 .. Half
      /\ l = c - s.count \/ l = c - s.count + 1 * Wrap
  BY <1>1, <1>3, HalfType
<1>6. Mod(l) = Mod(c - s.count)
  <2>1. c - s.count \in Int
    BY <1>1, <1>5, HalfType
  <2>2. Mod(c - s.count + 1 * Wrap) = Mod(c - s.count)
    BY <2>1, ModShift
  <2> QED BY <1>5, <2>2
<1> HIDE DEF c
<1>7. Placed(u, early, Start(s))
  BY <1>4, <1>5, <1>6, AddPlaced
<1> QED BY <1>4, <1>7

\* add_interrupt_event.
LEMMA AddEventOrder ==
    ASSUME Brief, NEW s, QueueOK(s), Synced(s), Anchored(s.q), NEW early \in BOOLEAN,
           NEW b \in Int, Floor <= b, b <= 0, Placed(s.q, early, b),
           NEW type \in EventTypes \ {"COMPARE_INT"}, NEW delay \in 0 .. Half
    PROVE  OrderOK(AddEvent(s, type, delay).q)
<1> DEFINE c == Mod(s.count + delay)
<1>1. s.count \in Int /\ delay \in Int
  BY QueueType, HalfType
<1>2. PICK m \in Int : m = s.count + delay
  BY <1>1
<1>3. c \in 0 .. Wrap - 1 /\ Mod(c) = Mod(m)
  BY <1>2, ModRange, ModMod
<1>4. c \in Int
  BY <1>3, WrapAssumption
<1>5. AddEvent(s, type, delay) = AddEventCount(s, type, c, delay)
  BY DEF AddEvent
<1> HIDE DEF c
<1>6. Mod(c - s.count) = Mod(m - s.count)
  BY <1>1, <1>3, <1>4, ModMinus
<1>7. m - s.count = delay
  BY <1>1, <1>2
<1>8. Mod(delay) = Mod(c - s.count)
  BY <1>6, <1>7
<1>9. OrderOK(AddEventCount(s, type, c, delay).q)
  BY <1>3, <1>8, AddOrder
<1> QED BY <1>5, <1>9

\* What raising an interrupt leaves alone.
Kept(t, s, slot) ==
    /\ t.q = s.q /\ t.resetJob = s.resetJob /\ t.vi = s.vi
    /\ ~slot => t.skip = s.skip
    /\ ~s.skip /\ t.skip => t.cycle = 0

\* exception_general, raise_maskable_interrupt and raise_rcp_interrupt do not touch
\* the queue.
LEMMA RaiseKeeps ==
    ASSUME NEW s \in States, NEW ip \in IPs, NEW raise \in BOOLEAN, NEW slot \in BOOLEAN
    PROVE  /\ Kept(ExceptionGeneral(s, slot), s, slot)
           /\ Kept(RaiseMaskable(s, ip, slot), s, slot)
           /\ Kept(RaiseRcp(s, raise, slot), s, slot)
<1>1. ASSUME NEW x \in States PROVE Kept(ExceptionGeneral(x, slot), x, slot)
  BY DEF ExceptionGeneral, Kept, States
<1>2. ASSUME NEW x \in States, NEW i \in IPs PROVE Kept(RaiseMaskable(x, i, slot), x, slot)
  <2> DEFINE c == x.cause \cup {i}
             r == [x EXCEPT !.cause = c]
  <2>1. c \in SUBSET IPs
    BY DEF States
  <2>2. RaiseMaskable(x, i, slot) = IF Unmasked(r) THEN ExceptionGeneral(r, slot) ELSE r
    BY DEF RaiseMaskable
  <2> HIDE DEF c
  <2>3. r \in States /\ r.q = x.q /\ r.resetJob = x.resetJob /\ r.vi = x.vi /\ r.skip = x.skip
        /\ r.cycle = x.cycle
    BY <2>1 DEF States
  <2> HIDE DEF r
  <2>4. Kept(ExceptionGeneral(r, slot), r, slot)
    BY <1>1, <2>3
  <2> QED BY <2>2, <2>3, <2>4 DEF Kept
<1>3. Kept(RaiseRcp(s, raise, slot), s, slot)
  <2> DEFINE r == [s EXCEPT !.rcp = TRUE]
  <2>1. r \in States /\ r.q = s.q /\ r.resetJob = s.resetJob /\ r.vi = s.vi /\ r.skip = s.skip
        /\ r.cycle = s.cycle
    BY DEF States
  <2>2. RaiseRcp(s, raise, slot)
            = IF raise \/ s.rcp THEN RaiseMaskable(r, "IP2", slot) ELSE s
    BY DEF RaiseRcp
  <2> HIDE DEF r
  <2>3. Kept(RaiseMaskable(r, "IP2", slot), r, slot)
    BY <1>2, <2>1 DEF IPs
  <2> QED BY <2>1, <2>2, <2>3 DEF Kept
<1> QED BY <1>1, <1>2, <1>3

\* An empty queue is in order.
LEMMA EmptyPlaced ==
    ASSUME NEW q, q = <<>>, NEW early \in BOOLEAN, NEW b \in Int
    PROVE  Placed(q, early, b)
  BY DEF Placed, Ordered, Within, Capped

\* init_interrupt, with Count in its lower half: the two timers.
LEMMA InitPlaced ==
    ASSUME Brief, NEW s \in States, s.count < Half, NEW early \in BOOLEAN, early = FALSE,
           NEW z \in Int, z = 0
    PROVE  Placed(InitInterrupt(s).q, early, z)
<1> DEFINE a == [s EXCEPT !.q = <<>>]
           l == Mod(Half - s.count)
           m == Mod(0 - s.count)
           b == AddEventCount(a, "SPECIAL_INT", Half, l)
           t == AddEventCount(b, "COMPARE_INT", 0, m)
           e == Event("SPECIAL_INT", Half, l)
           f == Event("COMPARE_INT", 0, m)
<1>0. /\ CountPerOp \in Nat /\ CountPerOp >= 1 /\ Half \in Nat /\ Half >= 2
      /\ Wrap = 2 * Half /\ Floor \in Int /\ Floor <= 0 - CountPerOp
  BY BriefType
<1>1. InitInterrupt(s) = t
  BY DEF InitInterrupt
<1>2. s.count \in 0 .. Wrap - 1 /\ s.count \in Int /\ Half - s.count \in 0 .. Wrap - 1
      /\ Half - s.count \in 0 .. Half /\ Half - s.count \in Int /\ 0 - s.count \in Int
      /\ Half \in 0 .. Wrap - 1 /\ 0 \in 0 .. Wrap - 1 /\ s.count >= 0
  BY HalfType DEF States
<1>3. l = Half - s.count
  BY <1>2, ModSmall
<1>4. m \in 0 .. Wrap - 1 /\ m \in Int /\ Mod(m) = Mod(0 - s.count)
  BY <1>2, ModRange, ModMod, WrapAssumption
<1>5. a \in States /\ a.q = <<>> /\ a.count = s.count
  <2> DEFINE none == <<>>
  <2>1. none \in Seq(Nodes)
    OBVIOUS
  <2> HIDE DEF none
  <2>2. a = [s EXCEPT !.q = none]
    BY DEF none
  <2> HIDE DEF a
  <2>3. a \in States /\ a.q = none /\ a.count = s.count
    BY <2>1, <2>2 DEF States
  <2> QED BY <2>3 DEF none
<1> HIDE DEF a, l, m
<1>6. QueueOK(a) /\ (\A type : ~Occurs(a.q, type)) /\ Len(a.q) = 0
  BY <1>5, CapacityAssumption DEF QueueOK, Armed, Matches, Near, Singles, Once, Occurs
<1>7. Start(a) \in Int /\ Start(a) <= 0 /\ Placed(a.q, early, Start(a))
  BY <1>5, StartType, EmptyPlaced
<1>8. /\ QueueOK(b) /\ b.count = s.count /\ Synced(b) /\ Len(b.q) = 1
      /\ InsertedAt(b.q, a.q, e, InsertPos(a, Half))
      /\ e \in Nodes /\ e.type = "SPECIAL_INT" /\ e.left = l
      /\ Placed(b.q, early, Start(a))
  <2>1. PICK h \in 0 .. Wrap - 1 : h = Half
    BY <1>2
  <2>2. "SPECIAL_INT" \in EventTypes \ {"COMPARE_INT"} /\ "SPECIAL_INT" \in EventTypes
        /\ 0 < Capacity
    BY CapacityAssumption DEF EventTypes
  <2>3. /\ l \in 0 .. Half /\ l \in Int /\ Mod(l) = Mod(h - a.count) /\ Len(a.q) < Capacity
        /\ l <= Half
    BY <1>0, <1>2, <1>3, <1>5, <1>6, <2>1, <2>2
  <2> DEFINE c == AddEventCount(a, "SPECIAL_INT", h, l)
             g == Event("SPECIAL_INT", h, l)
  <2> HIDE DEF b, t, e, f
  <2>4. QueueOK(c) /\ c.count = a.count /\ Synced(c) /\ Len(c.q) = Len(a.q) + 1
    <3>1. /\ h \in 0 .. Wrap - 1 /\ QueueOK(a) /\ "SPECIAL_INT" \in EventTypes /\ l \in Int
          /\ ("SPECIAL_INT" # "COMPARE_INT" => l <= Half)
          /\ ("SPECIAL_INT" # "CHECK_INT" => ~Occurs(a.q, "SPECIAL_INT"))
      BY <1>6, <2>2, <2>3
    <3>2. Mod(l) = Mod(h - a.count)
      BY <2>3
    <3>3. Len(a.q) < Capacity /\ Timely("SPECIAL_INT", h, a.compare)
      BY <2>1, <2>3 DEF Timely
    <3> QED BY ONLY <3>1, <3>2, <3>3, AddOK DEF c
  <2>5. Placed(c.q, early, Start(a))
    BY <1>6, <1>7, <2>2, <2>3, AddPlaced
  <2>6. /\ InsertedAt(c.q, a.q, g, InsertPos(a, h))
        /\ g \in Nodes /\ g.type = "SPECIAL_INT" /\ g.left = l
    BY <1>5, <2>2, <2>3, AddAt
  <2> HIDE DEF c, g
  <2>7. b = c /\ e = g
    BY <2>1 DEF b, c, e, g
  <2> QED BY <1>5, <1>6, <2>1, <2>4, <2>5, <2>6, <2>7
<1> HIDE DEF b, e
<1>9. b.q \in Seq(Nodes) /\ 1 \in 1 .. Len(b.q) /\ b.q[1] = e /\ b.q # <<>>
  <2>1. b.q \in Seq(Nodes) /\ 1 \in 1 .. Len(b.q)
    BY <1>8, QueueType
  <2>2. b.q[1] = e
    BY <1>8, <2>1 DEF InsertedAt
  <2> QED BY <2>1, <2>2
<1>10. Anchored(b.q) /\ ~Occurs(b.q, "COMPARE_INT")
  BY <1>8, <1>9 DEF Anchored, Occurs
<1>11. PICK x \in Int : x = Seen(b.q[1], early) /\ x = Half - s.count /\ x >= 0
  BY <1>0, <1>2, <1>3, <1>8, <1>9 DEF Seen
<1>12. Placed(b.q, early, z)
  <2>1. Start(a) <= z /\ z <= Seen(b.q[1], early)
    BY <1>7, <1>11
  <2> QED BY <1>7, <1>8, <1>9, <2>1, Tighten
<1>13. Start(b) = z
  <2>1. z >= Floor
    BY <1>0
  <2>2. b.cycle = 0 - x
    BY <1>8, <1>10, <1>11, <1>12, <2>1, CycleSeen
  <2> QED BY <1>11, <2>2 DEF Start
<1>14. Placed(t.q, early, z)
  <2>1. f.type = "COMPARE_INT" /\ f.left = m
    BY DEF Event
  <2>2. Seen(f, early) = m
    BY <2>1 DEF Seen
  <2> HIDE DEF f
  <2>3. Start(b) <= Seen(f, early) /\ Seen(f, early) <= Start(b) + Wrap - 1
        /\ m <= Wrap - 1 + CountPerOp /\ 1 < Capacity
    BY <1>0, <1>4, <1>13, <2>2, CapacityAssumption
  <2>4. /\ "COMPARE_INT" \in EventTypes /\ Len(b.q) < Capacity
        /\ Mod(m) = Mod(0 - b.count)
        /\ Placed(b.q, early, Start(b)) /\ 0 \in 0 .. Wrap - 1
    BY <1>2, <1>4, <1>8, <1>12, <1>13, <2>3 DEF EventTypes
  <2>5. QueueOK(b) /\ m \in Int /\ early \in BOOLEAN
    BY <1>4, <1>8
  <2>6. Placed(t.q, early, Start(b))
    BY ONLY <2>3, <2>4, <2>5, AddWithin DEF t, f
  <2> QED BY <1>13, <2>6
<1> QED BY <1>1, <1>14

\* vi->delay is written after init_interrupt.
Programmed(s) == [InitInterrupt(s) EXCEPT !.vi = ViDelay]

\* The CPU then.
LEMMA ProgrammedOK ==
    ASSUME Brief, NEW s \in States, s.count < Half, s.compare = 0
    PROVE  LET a == Programmed(s)
           IN  /\ QueueOK(a) /\ Synced(a) /\ Timers(a.q)
               /\ a.vi = ViDelay /\ a.resetJob = s.resetJob /\ a.skip = s.skip
               /\ a.q = InitInterrupt(s).q
               /\ \A type : Occurs(a.q, type) => type \in {"SPECIAL_INT", "COMPARE_INT"}
<1> DEFINE i == InitInterrupt(s)
           a == [i EXCEPT !.vi = ViDelay]
<1>1. /\ QueueOK(i) /\ SameRegisters(i, s) /\ Synced(i) /\ Timers(i.q)
      /\ \A type : Occurs(i.q, type) => type \in {"SPECIAL_INT", "COMPARE_INT"}
  BY InitInterruptOK
<1>2. Programmed(s) = a
  BY DEF Programmed
<1> HIDE DEF i
<1>3. i \in States
  BY <1>1 DEF QueueOK
<1>4. /\ a \in States /\ a.q = i.q /\ a.count = i.count /\ a.compare = i.compare
      /\ a.next = i.next /\ a.cycle = i.cycle /\ a.vi = ViDelay
      /\ a.resetJob = i.resetJob /\ a.skip = i.skip
  BY <1>3 DEF States
<1> HIDE DEF a
<1>5. QueueOK(a) /\ Synced(a)
  BY <1>1, <1>4, RegistersOK DEF Synced
<1> QED BY <1>1, <1>2, <1>4, <1>5 DEF SameRegisters, i

\* init_interrupt followed by the first video interrupt.
LEMMA FreshOrder ==
    ASSUME Brief, NEW s \in States, s.count < Half, s.compare = 0
    PROVE  LET t == AddEvent(Programmed(s), "VI_INT", ViDelay)
           IN  /\ OrderOK(t.q) /\ t.resetJob = s.resetJob /\ t.vi = ViDelay
               /\ t.skip = s.skip
<1> DEFINE a == Programmed(s)
           t == AddEvent(a, "VI_INT", ViDelay)
<1>1. /\ QueueOK(a) /\ Synced(a) /\ Timers(a.q)
      /\ a.vi = ViDelay /\ a.resetJob = s.resetJob /\ a.skip = s.skip
      /\ a.q = InitInterrupt(s).q
      /\ \A type : Occurs(a.q, type) => type \in {"SPECIAL_INT", "COMPARE_INT"}
  BY ProgrammedOK
<1>2. PICK early \in BOOLEAN : early = FALSE
  OBVIOUS
<1>3. PICK z \in Int : z = 0
  OBVIOUS
<1>4. Placed(a.q, early, z)
  BY <1>1, <1>2, <1>3, InitPlaced
<1> HIDE DEF a
<1>5. /\ "VI_INT" \in EventTypes \ {"COMPARE_INT", "SPECIAL_INT"} /\ ViDelay \in 0 .. Half
      /\ "VI_INT" \in EventTypes /\ ~Occurs(a.q, "VI_INT") /\ "VI_INT" # "COMPARE_INT"
      /\ "VI_INT" # "NMI_INT"
  BY <1>1, DelayAssumption, HalfType DEF EventTypes
<1>6. Anchored(a.q)
  BY <1>1 DEF Timers, Occurs, Anchored
<1>7. Floor <= z /\ z <= 0
  BY <1>3, BriefType
<1>8. OrderOK(t.q)
  BY <1>1, <1>4, <1>5, <1>6, <1>7, AddEventOrder
<1>9. SameRegisters(t, a)
  BY <1>1, <1>5, AddEventOK
<1> HIDE DEF t
<1> QED BY <1>1, <1>8, <1>9 DEF SameRegisters, a, t

-----------------------------------------------------------------------------
(* gen_interrupt.                                                           *)

\* The queue is in order, the video interrupt is in it, and no reset is asked for.
Arranged(s) == OrderOK(s.q) /\ Occurs(s.q, "VI_INT") /\ ~s.resetJob /\ s.vi = ViDelay

\* After an exception in a delay slot cycle_count calls for the jump it waits for.
SysOK(s) == Arranged(s) /\ (s.skip => s.cycle = 0)

\* The video interrupt is less than a frame late.
ViInTime(q) == \A i \in 1 .. Len(q) : q[i].type = "VI_INT" => q[i].left >= 0 - ViDelay

\* The first event is due, and is taken out.
LEMMA DoneOrder ==
    ASSUME Brief, NEW s, CpuOK(s), ~s.skip, s.cycle >= 0, Arranged(s)
    PROVE  LET d == RemoveFirstEvent(s)
           IN  /\ \E early \in BOOLEAN : \E b \in Int :
                     Floor <= b /\ b <= 0 /\ Placed(d.q, early, b)
               /\ QueueOK(d) /\ Synced(d) /\ Anchored(d.q) /\ Len(d.q) < Capacity
               /\ d.count = s.count /\ d.resetJob = s.resetJob /\ d.vi = s.vi
               /\ d.skip = s.skip /\ d.compare = s.compare
               /\ \A type : type # s.q[1].type => (Occurs(d.q, type) <=> Occurs(s.q, type))
               /\ s.q[1].type # "CHECK_INT" => ~Occurs(d.q, s.q[1].type)
<1> DEFINE d == RemoveFirstEvent(s)
<1>1. QueueOK(s) /\ Timers(s.q) /\ Synced(s) /\ Anchored(s.q)
  BY DEF CpuOK, Arranged, Anchored, Occurs
<1>2. PICK early \in BOOLEAN, b \in Floor .. CountPerOp : Placed(s.q, early, b)
  BY DEF Arranged, OrderOK
<1>3. b \in Int /\ Floor <= b
  BY BriefType
<1>4. b <= 0
  <2>1. PICK x \in Int : s.cycle = 0 - x /\ b <= x
    BY <1>1, <1>2, <1>3, CycleSeen
  <2> QED BY <1>3, <2>1
<1>5. Placed(d.q, early, b)
  BY <1>1, <1>2, <1>3, RemoveFirstPlaced
<1>6. /\ QueueOK(d) /\ Synced(d) /\ Len(d.q) < Capacity
      /\ d.count = s.count /\ SameRegisters(d, s)
      /\ \A type : type # s.q[1].type => (Occurs(d.q, type) <=> Occurs(s.q, type))
      /\ s.q[1].type # "CHECK_INT" => ~Occurs(d.q, s.q[1].type)
  BY <1>1, RemoveFirstOK
<1> HIDE DEF d
<1>7. Occurs(d.q, "VI_INT") \/ Occurs(d.q, "SPECIAL_INT")
  BY <1>1, <1>6 DEF Arranged, Timers
<1>8. Anchored(d.q)
  BY <1>7 DEF Occurs, Anchored
<1> QED BY <1>3, <1>4, <1>5, <1>6, <1>8 DEF SameRegisters, d

\* A handler that leaves the queue as d and raises an interrupt.
LEMMA RaisedOK ==
    ASSUME NEW d, OrderOK(d.q), Occurs(d.q, "VI_INT"), ~d.resetJob /\ d.vi = ViDelay, ~d.skip,
           NEW slot \in BOOLEAN, NEW t, Kept(t, d, slot)
    PROVE  SysOK(t) /\ (~slot => ~t.skip)
  BY DEF Kept, SysOK, Arranged

\* The new video interrupt is due a frame after this one was.
LEMMA ViOrder ==
    ASSUME Brief, NEW s, CpuOK(s), ~s.skip, s.cycle >= 0, Arranged(s), ViInTime(s.q),
           NEW h \in Responses, NEW slot \in BOOLEAN, s.q[1].type = "VI_INT"
    PROVE  LET t == ViHandler(s, h, slot)
           IN  SysOK(t) /\ (~slot => ~t.skip)
<1> DEFINE d == RemoveFirstEvent(s)
           c == Mod(s.q[1].count + ViDelay)
           l == s.q[1].left + ViDelay
           a == AddEventCount(d, "VI_INT", c, l)
<1>1. PICK early \in BOOLEAN, b \in Int : Floor <= b /\ b <= 0 /\ Placed(d.q, early, b)
  BY DoneOrder
<1>2. /\ QueueOK(d) /\ Synced(d) /\ Anchored(d.q) /\ Len(d.q) < Capacity
      /\ d.count = s.count /\ d.resetJob = s.resetJob /\ d.vi = s.vi /\ d.skip = s.skip
      /\ ~Occurs(d.q, "VI_INT")
  BY DoneOrder
<1>3. ViHandler(s, h, slot) = RaiseRcp(a, h.raise, slot) /\ h.raise \in BOOLEAN
  BY DEF ViHandler, Responses, Arranged
<1>4. QueueOK(s) /\ Synced(s) /\ s.q # <<>> /\ s \in States
  BY DEF CpuOK, Synced, QueueOK
<1>5. 1 \in 1 .. Len(s.q) /\ s.q[1] \in Nodes /\ s.count \in Int
      /\ s.q[1].count \in Int /\ s.q[1].left \in Int
  <2>1. s.q \in Seq(Nodes) /\ s.count \in Int
    BY <1>4, QueueType
  <2>2. 1 \in 1 .. Len(s.q) /\ s.q[1] \in Nodes
    BY <1>4, <2>1
  <2> QED BY <2>1, <2>2, WrapAssumption DEF Nodes
<1>6. s.q[1].left <= 0 /\ s.q[1].left >= 0 - ViDelay
  BY <1>4, <1>5, Due DEF ViInTime
<1>7. ViDelay \in Int /\ ViDelay <= Half /\ Half \in Int
  BY DelayAssumption, HalfType
<1>v. PICK v \in Int, w \in Int : v = s.q[1].left /\ w = s.q[1].count
  BY <1>5
<1>8. l \in 0 .. Half /\ l \in Int /\ l <= Half
  <2>1. l = v + ViDelay /\ v <= 0 /\ v >= 0 - ViDelay
    BY <1>6, <1>v
  <2> HIDE DEF l
  <2> QED BY <1>7, <2>1
<1>9. c \in 0 .. Wrap - 1 /\ Mod(l) = Mod(c - d.count)
  <2>1. PICK x \in Int : x = w + ViDelay
    BY <1>7
  <2>2. c = Mod(x) /\ c \in 0 .. Wrap - 1 /\ Mod(c) = Mod(x)
    BY <1>v, <2>1, ModRange, ModMod
  <2>3. c \in Int
    BY <2>2, WrapAssumption
  <2>4. Mod(v) = Mod(w - s.count)
    BY <1>4, <1>5, <1>v DEF QueueOK, Matches
  <2>5. PICK y \in Int : y = w - s.count
    BY <1>5
  <2>6. Mod(v + ViDelay) = Mod(y + ViDelay) /\ l = v + ViDelay
    <3>1. Mod(v) = Mod(y) /\ ViDelay \in Int /\ v \in Int /\ y \in Int
      BY <1>7, <2>4, <2>5
    <3>2. Mod(v + ViDelay) = Mod(y + ViDelay)
      BY ONLY <3>1, ModAdd, ZenonT(30)
    <3> QED BY <1>v, <3>2
  <2>7. y + ViDelay = x - s.count
    BY <1>5, <1>7, <2>1, <2>5
  <2> HIDE DEF c, l
  <2>8. Mod(c - s.count) = Mod(x - s.count)
    <3>1. PICK m \in Int : m = s.count
      BY <1>5
    <3>2. Mod(c) = Mod(x) /\ c \in Int /\ x \in Int /\ m \in Int
      BY <2>2, <2>3
    <3>3. Mod(c - m) = Mod(x - m)
      BY ONLY <3>2, ModMinus, ZenonT(30)
    <3> QED BY <3>1, <3>3
  <2> QED BY ONLY <1>2, <2>2, <2>6, <2>7, <2>8
<1>10. "VI_INT" \in EventTypes \ {"COMPARE_INT"} /\ "VI_INT" \in EventTypes
  BY DEF EventTypes
<1> HIDE DEF d, c, l
<1>11. OrderOK(a.q)
  BY <1>1, <1>2, <1>8, <1>9, <1>10, AddOrder
<1>12. QueueOK(a) /\ SameRegisters(a, d) /\ Occurs(a.q, "VI_INT")
  <2>1. ("VI_INT" # "COMPARE_INT" => l <= Half)
        /\ ("VI_INT" # "CHECK_INT" => ~Occurs(d.q, "VI_INT"))
    BY <1>2, <1>8
  <2>2. Timely("VI_INT", c, d.compare)
    BY DEF Timely
  <2> QED BY ONLY <1>2, <1>8, <1>9, <1>10, <2>1, <2>2, AddOK
<1> HIDE DEF a
<1>13. ~a.resetJob /\ a.vi = ViDelay /\ ~a.skip /\ a \in States
  BY <1>2, <1>12 DEF SameRegisters, SysOK, Arranged, QueueOK
<1>14. Kept(RaiseRcp(a, h.raise, slot), a, slot)
  <2>1. "IP2" \in IPs
    BY DEF IPs
  <2> QED BY <1>3, <1>13, <2>1, RaiseKeeps
<1> QED BY <1>3, <1>11, <1>12, <1>13, <1>14, RaisedOK

\* The handlers of the devices, which may schedule their event again.
LEMMA DeviceOrder ==
    ASSUME Brief, NEW s, CpuOK(s), ~s.skip, s.cycle >= 0, Arranged(s),
           NEW h \in Responses, NEW slot \in BOOLEAN, s.q[1].type \in DeviceEvents
    PROVE  LET t == DeviceHandler(s, s.q[1].type, h, slot)
           IN  SysOK(t) /\ (~slot => ~t.skip)
<1> DEFINE d == RemoveFirstEvent(s)
<1>0. PICK type \in EventTypes \ {"COMPARE_INT", "SPECIAL_INT"} :
          /\ type = s.q[1].type /\ type # "VI_INT" /\ type # "CHECK_INT"
          /\ type # "NMI_INT"
  BY DeviceAssumption DEF EventTypes
<1>1. PICK early \in BOOLEAN, b \in Int : Floor <= b /\ b <= 0 /\ Placed(d.q, early, b)
  BY DoneOrder
<1>2. /\ QueueOK(d) /\ Synced(d) /\ Anchored(d.q) /\ Len(d.q) < Capacity
      /\ d.resetJob = s.resetJob /\ d.vi = s.vi /\ d.skip = s.skip
      /\ \A other : other # s.q[1].type => (Occurs(d.q, other) <=> Occurs(s.q, other))
      /\ s.q[1].type # "CHECK_INT" => ~Occurs(d.q, s.q[1].type)
  BY DoneOrder
<1>3. ~Occurs(d.q, type) /\ Occurs(d.q, "VI_INT")
  BY <1>0, <1>2 DEF SysOK, Arranged
<1>4. h.raise \in BOOLEAN /\ h.again \in Delays \cup {0}
  BY DEF Responses
<1>5. h.again \in 0 .. Half
  <2>1. PICK x \in Delays \cup {0} : x = h.again
    BY <1>4
  <2>2. x \in 0 .. Half
    BY DelayAssumption, HalfType
  <2> QED BY <2>1, <2>2
<1> DEFINE m == AddEvent(d, type, h.again)
           a == IF h.again = 0 THEN d ELSE m
<1>6. DeviceHandler(s, s.q[1].type, h, slot) = RaiseRcp(a, h.raise, slot)
  BY <1>0 DEF DeviceHandler
<1> HIDE DEF d
<1>7. OrderOK(m.q)
  BY <1>1, <1>2, <1>5, AddEventOrder
<1>8. OrderOK(d.q)
  <2>1. b \in Floor .. CountPerOp
    BY <1>1, BriefType
  <2> QED BY <1>1, <2>1 DEF OrderOK
<1>9. /\ QueueOK(m) /\ SameRegisters(m, d)
      /\ \A other : Occurs(d.q, other) => Occurs(m.q, other)
  <2>1. /\ type \in EventTypes \ {"COMPARE_INT", "SPECIAL_INT"}
        /\ type = "NMI_INT" => Resets
    BY <1>0
  <2> QED BY ONLY <1>2, <1>3, <1>5, <2>1, AddEventOK
<1> HIDE DEF m
<1>10. /\ OrderOK(a.q) /\ Occurs(a.q, "VI_INT") /\ ~a.resetJob
       /\ a.vi = ViDelay /\ ~a.skip /\ a \in States
  <2>1. /\ OrderOK(m.q) /\ Occurs(m.q, "VI_INT") /\ ~m.resetJob
        /\ m.vi = ViDelay /\ ~m.skip /\ m \in States
    BY <1>2, <1>3, <1>7, <1>9 DEF SameRegisters, QueueOK, SysOK, Arranged
  <2>2. /\ OrderOK(d.q) /\ Occurs(d.q, "VI_INT") /\ ~d.resetJob
        /\ d.vi = ViDelay /\ ~d.skip /\ d \in States
    BY <1>2, <1>3, <1>8 DEF QueueOK, SysOK, Arranged
  <2> QED BY <2>1, <2>2
<1> HIDE DEF a
<1>11. Kept(RaiseRcp(a, h.raise, slot), a, slot)
  <2>1. "IP2" \in IPs
    BY DEF IPs
  <2> QED BY <1>4, <1>10, <2>1, RaiseKeeps
<1> QED BY <1>6, <1>10, <1>11, RaisedOK

\* SPECIAL_INT arms itself again.
LEMMA SpecialOrder ==
    ASSUME Brief, NEW s, CpuOK(s), ~s.skip, s.cycle >= 0, Arranged(s),
           s.q[1].type = "SPECIAL_INT"
    PROVE  SysOK(SpecialIntHandler(s)) /\ ~SpecialIntHandler(s).skip
<1> DEFINE d == RemoveFirstEvent(s)
           t == AddSpecial(d)
<1>1. PICK early \in BOOLEAN, b \in Int : Floor <= b /\ b <= 0 /\ Placed(d.q, early, b)
  BY DoneOrder
<1>2. /\ QueueOK(d) /\ Synced(d) /\ Anchored(d.q) /\ Len(d.q) < Capacity
      /\ d.resetJob = s.resetJob /\ d.vi = s.vi /\ d.skip = s.skip
      /\ ~Occurs(d.q, "SPECIAL_INT") /\ Occurs(d.q, "VI_INT")
  BY DoneOrder DEF SysOK, Arranged
<1>3. SpecialIntHandler(s) = t
  BY DEF SpecialIntHandler
<1> HIDE DEF d
<1>4. Placed(d.q, early, Start(d)) /\ Start(d) \in Int /\ b <= Start(d) /\ Start(d) <= 0
  BY <1>1, <1>2, StartPlaced
<1>5. Placed(t.q, early, Start(d))
  BY <1>2, <1>4, AddSpecialPlaced
<1>6. Start(d) \in Floor .. CountPerOp
  BY <1>1, <1>4, BriefType
<1>7. /\ SameRegisters(t, d)
      /\ \A type : Occurs(t.q, type) <=> (Occurs(d.q, type) \/ type = "SPECIAL_INT")
  BY <1>2, AddSpecialOK
<1> HIDE DEF t
<1>8. OrderOK(t.q)
  BY <1>5, <1>6 DEF OrderOK
<1> QED BY <1>2, <1>3, <1>7, <1>8 DEF SameRegisters, SysOK, Arranged

\* The timer is armed, with cycle_count up to date.
LEMMA TimerArmed ==
    ASSUME Brief, NEW d, QueueOK(d), Synced(d), Anchored(d.q), Len(d.q) < Capacity,
           ~Occurs(d.q, "COMPARE_INT"), NEW compare \in 0 .. Wrap - 1,
           NEW early \in BOOLEAN, NEW b \in Int, Floor <= b, Placed(d.q, early, b)
    PROVE  OrderOK(AddCompare(d, compare).q)
<1>1. PICK x \in Int : x = Seen(d.q[1], early) /\ d.cycle = 0 - x /\ b <= x
  BY CycleSeen
<1>2. d.q \in Seq(Nodes) /\ d.q # <<>> /\ Len(d.q) \in Nat
  BY QueueType DEF Synced
<1>3. ASSUME NEW i \in 1 .. Len(d.q) PROVE 0 - d.cycle <= d.q[i].left
  <2>1. d.q[i].left \in Int /\ Seen(d.q[i], early) = d.q[i].left
    BY <1>2, SeenIn DEF Occurs
  <2>2. x <= Seen(d.q[i], early)
    <3>1. CASE i = 1
      BY <1>1, <3>1
    <3>2. CASE i # 1
      <4>1. 1 < i /\ 1 \in 1 .. Len(d.q)
        BY <1>2, <3>2
      <4> QED BY <1>1, <4>1 DEF Placed, Ordered
    <3> QED BY <3>1, <3>2
  <2> QED BY <1>1, <2>1, <2>2
<1>4. 0 - d.cycle >= Floor /\ Ordered(d.q, early)
  BY <1>1, BriefType DEF Placed
<1> QED BY <1>3, <1>4, AddComparePlaced

\* The timer is armed again a lap later.
LEMMA CompareOrder ==
    ASSUME Brief, NEW s, CpuOK(s), ~s.skip, s.cycle >= 0, Arranged(s),
           NEW slot \in BOOLEAN, s.q[1].type = "COMPARE_INT"
    PROVE  LET t == CompareIntHandler(s, slot)
           IN  SysOK(t) /\ (~slot => ~t.skip)
<1> DEFINE d == RemoveFirstEvent(s)
           a == AddCompare(d, s.compare)
<1>1. PICK early \in BOOLEAN, b \in Int : Floor <= b /\ b <= 0 /\ Placed(d.q, early, b)
  BY DoneOrder
<1>2. /\ QueueOK(d) /\ Synced(d) /\ Anchored(d.q) /\ Len(d.q) < Capacity
      /\ d.resetJob = s.resetJob /\ d.vi = s.vi /\ d.skip = s.skip
      /\ d.compare = s.compare /\ ~Occurs(d.q, "COMPARE_INT") /\ Occurs(d.q, "VI_INT")
  BY DoneOrder DEF SysOK, Arranged
<1>3. CompareIntHandler(s, slot) = RaiseMaskable(a, "IP7", slot)
  BY DEF CompareIntHandler
<1>4. s.compare \in 0 .. Wrap - 1
  BY DEF CpuOK, QueueOK, States
<1> HIDE DEF d
<1>5. OrderOK(a.q)
  BY <1>1, <1>2, <1>4, TimerArmed
<1>6. /\ QueueOK(a) /\ SameRegisters(a, d)
      /\ \A type : Occurs(a.q, type) <=> (Occurs(d.q, type) \/ type = "COMPARE_INT")
  BY <1>2, <1>4, AddCompareOK
<1> HIDE DEF a
<1>7. ~a.resetJob /\ a.vi = ViDelay /\ ~a.skip /\ a \in States /\ Occurs(a.q, "VI_INT")
  BY <1>2, <1>6 DEF SameRegisters, SysOK, Arranged, QueueOK
<1>8. Kept(RaiseMaskable(a, "IP7", slot), a, slot)
  <2>1. "IP7" \in IPs /\ TRUE \in BOOLEAN
    BY DEF IPs
  <2> QED BY <1>7, <2>1, RaiseKeeps
<1> QED BY <1>3, <1>5, <1>7, <1>8, RaisedOK

\* CHECK_INT and HW2_INT are only taken out.
LEMMA PlainOrder ==
    ASSUME Brief, NEW s, CpuOK(s), ~s.skip, s.cycle >= 0, Arranged(s),
           NEW slot \in BOOLEAN, s.q[1].type # "VI_INT"
    PROVE  /\ SysOK(CheckIntHandler(s, slot)) /\ (~slot => ~CheckIntHandler(s, slot).skip)
           /\ SysOK(Hw2IntHandler(s, slot)) /\ (~slot => ~Hw2IntHandler(s, slot).skip)
<1> DEFINE d == RemoveFirstEvent(s)
<1>1. PICK early \in BOOLEAN, b \in Int : Floor <= b /\ b <= 0 /\ Placed(d.q, early, b)
  BY DoneOrder
<1>2. /\ QueueOK(d) /\ ~d.resetJob /\ d.vi = ViDelay /\ ~d.skip
      /\ Occurs(d.q, "VI_INT") /\ d \in States
  BY DoneOrder DEF SysOK, Arranged, QueueOK
<1>3. /\ CheckIntHandler(s, slot) = ExceptionGeneral(d, slot)
      /\ Hw2IntHandler(s, slot) = RaiseMaskable(d, "IP4", slot)
  BY DEF CheckIntHandler, Hw2IntHandler
<1> HIDE DEF d
<1>4. OrderOK(d.q)
  <2>1. b \in Floor .. CountPerOp
    BY <1>1, BriefType
  <2> QED BY <1>1, <2>1 DEF OrderOK
<1>5. Kept(ExceptionGeneral(d, slot), d, slot) /\ Kept(RaiseMaskable(d, "IP4", slot), d, slot)
  <2>1. "IP4" \in IPs /\ TRUE \in BOOLEAN
    BY DEF IPs
  <2> QED BY <1>2, <2>1, RaiseKeeps
<1> QED BY <1>2, <1>3, <1>4, <1>5, RaisedOK

\* The video interrupt finds a node after init_interrupt.
LEMMA FreshVi ==
    ASSUME Brief, Capacity > 2, NEW s \in States, s.count < Half, s.compare = 0
    PROVE  Occurs(AddEvent(Programmed(s), "VI_INT", ViDelay).q, "VI_INT")
<1> DEFINE a == Programmed(s)
<1>1. /\ QueueOK(a) /\ Timers(a.q)
      /\ \A type : Occurs(a.q, type) => type \in {"SPECIAL_INT", "COMPARE_INT"}
  BY ProgrammedOK
<1> HIDE DEF a
<1>2. Len(a.q) < Capacity
  <2>1. a.q \in Seq(Nodes) /\ Len(a.q) \in Nat /\ Singles(a.q)
    BY <1>1, QueueType
  <2>2. ASSUME Len(a.q) > 2 PROVE FALSE
    <3>1. 1 \in 1 .. Len(a.q) /\ 2 \in 1 .. Len(a.q) /\ 3 \in 1 .. Len(a.q)
      BY <2>1, <2>2
    <3>2. \A i \in 1 .. Len(a.q) : a.q[i].type \in {"SPECIAL_INT", "COMPARE_INT"}
      BY <1>1 DEF Occurs
    <3>3. Once(a.q, "SPECIAL_INT") /\ Once(a.q, "COMPARE_INT")
      BY <2>1 DEF Singles, EventTypes
    <3> QED BY <3>1, <3>2, <3>3 DEF Once
  <2> QED BY <2>1, <2>2, CapacityAssumption
<1>3. PICK c \in 0 .. Wrap - 1 : c = Mod(a.count + ViDelay) /\ Mod(ViDelay) = Mod(c - a.count)
  <2>1. a.count \in Int /\ ViDelay \in Int
    BY <1>1, QueueType, DelayAssumption, HalfType
  <2>2. PICK m \in Int : m = a.count + ViDelay
    BY <2>1
  <2>3. PICK c \in 0 .. Wrap - 1 : c = Mod(m) /\ Mod(c) = Mod(m)
    BY ModRange, ModMod
  <2>4. c \in Int
    BY WrapAssumption
  <2>5. Mod(c - a.count) = Mod(m - a.count)
    BY <2>1, <2>3, <2>4, ModMinus
  <2>6. m - a.count = ViDelay
    BY <2>1, <2>2
  <2> QED BY <2>2, <2>3, <2>5, <2>6
<1>4. /\ "VI_INT" \in EventTypes /\ ViDelay \in Int /\ ViDelay <= Half
      /\ ~Occurs(a.q, "VI_INT") /\ Timely("VI_INT", c, a.compare)
  BY <1>1, DelayAssumption, HalfType DEF EventTypes, Timely
<1>5. Occurs(AddEventCount(a, "VI_INT", c, ViDelay).q, "VI_INT")
  BY <1>1, <1>2, <1>3, <1>4, AddOK
<1> QED BY <1>3, <1>5 DEF AddEvent, a

\* gen_interrupt keeps the order, whatever event it handles.
LEMMA GenInterruptOrder ==
    ASSUME Brief, ~Resets, NEW s, CpuOK(s), s.cycle >= 0, Arranged(s), ViInTime(s.q),
           NEW slot \in BOOLEAN, NEW unsafe \in BOOLEAN, NEW h \in Responses
    PROVE  LET t == GenInterrupt(s, slot, unsafe, h)
           IN  SysOK(t) /\ (~slot => ~t.skip)
<1> DEFINE type == s.q[1].type
           g == GenInterrupt(s, slot, unsafe, h)
<1>0. ~s.resetJob /\ s.vi = ViDelay /\ s.skip \in BOOLEAN
  BY DEF Arranged, CpuOK, QueueOK, States
<1>1. CASE s.skip
  <2> DEFINE t == [s EXCEPT !.skip = FALSE]
  <2>1. g = Sync(t)
    BY <1>0, <1>1 DEF GenInterrupt
  <2>2. t \in States /\ t.q = s.q /\ t.resetJob = s.resetJob /\ t.vi = s.vi /\ ~t.skip
    BY DEF CpuOK, QueueOK, States
  <2>3. t.q # <<>>
    BY <2>2 DEF CpuOK, Timers, Occurs
  <2> HIDE DEF t
  <2>4. SameRegisters(Sync(t), t) /\ Sync(t).q = t.q
    BY <2>2, <2>3, SyncOK
  <2>5. g.q = s.q /\ ~g.skip /\ ~g.resetJob /\ g.vi = ViDelay
    BY <1>0, <2>1, <2>2, <2>4 DEF SameRegisters
  <2> HIDE DEF g
  <2>6. SysOK(g) /\ ~g.skip
    BY <2>5 DEF SysOK, Arranged
  <2> QED BY <2>6 DEF g
<1>2. CASE ~s.skip
  <2>1. g = CASE type = "VI_INT"      -> ViHandler(s, h, slot)
              [] type = "COMPARE_INT" -> CompareIntHandler(s, slot)
              [] type = "CHECK_INT"   -> CheckIntHandler(s, slot)
              [] type = "SPECIAL_INT" -> SpecialIntHandler(s)
              [] type = "HW2_INT"     -> Hw2IntHandler(s, slot)
              [] type = "NMI_INT"     -> NmiIntHandler(s, h)
              [] OTHER                -> DeviceHandler(s, type, h, slot)
    BY <1>0, <1>2 DEF GenInterrupt
  <2>2. type \in EventTypes /\ type # "NMI_INT"
    <3>1. s \in States /\ s.q # <<>> /\ Armed(s)
      BY <1>2 DEF CpuOK, QueueOK, Synced
    <3>2. s.q[1] \in Nodes /\ 1 \in 1 .. Len(s.q)
      BY <3>1, FirstNode DEF States
    <3> QED BY <3>1, <3>2 DEF Nodes, Armed, Timely
  <2> HIDE DEF g, type
  <2> SUFFICES SysOK(g) /\ (~slot => ~g.skip)
    BY DEF g
  <2>3. CASE type = "VI_INT"
    <3>1. g = ViHandler(s, h, slot)
      BY <2>1, <2>3
    <3> QED BY <1>2, <2>3, <3>1, ViOrder DEF type
  <2>4. CASE type = "COMPARE_INT"
    <3>1. g = CompareIntHandler(s, slot)
      BY <2>1, <2>4
    <3> QED BY <1>2, <2>4, <3>1, CompareOrder DEF type
  <2>5. CASE type = "CHECK_INT"
    <3>1. g = CheckIntHandler(s, slot)
      BY <2>1, <2>5
    <3> QED BY <1>2, <2>5, <3>1, PlainOrder DEF type
  <2>6. CASE type = "SPECIAL_INT"
    <3>1. g = SpecialIntHandler(s)
      BY <2>1, <2>6
    <3> QED BY <1>2, <2>6, <3>1, SpecialOrder DEF type
  <2>7. CASE type = "HW2_INT"
    <3>1. g = Hw2IntHandler(s, slot)
      BY <2>1, <2>7
    <3> QED BY <1>2, <2>7, <3>1, PlainOrder DEF type
  <2>8. CASE type \in DeviceEvents
    <3>1. type \notin {"VI_INT", "COMPARE_INT", "CHECK_INT", "SPECIAL_INT", "HW2_INT",
                       "NMI_INT"}
      BY <2>8, DeviceAssumption
    <3>2. g = DeviceHandler(s, type, h, slot)
      BY <2>1, <3>1
    <3> QED BY <1>2, <2>8, <3>2, DeviceOrder DEF type
  <2> QED BY <2>2, <2>3, <2>4, <2>5, <2>6, <2>7, <2>8 DEF EventTypes
<1> QED BY <1>0, <1>1, <1>2

\* The test of cycle_count and the call of gen_interrupt.
LEMMA GenIfDueOrder ==
    ASSUME Brief, ~Resets, NEW s, CpuOK(s), Arranged(s), ViInTime(s.q),
           s.skip => s.cycle >= 0,
           NEW slot \in BOOLEAN, NEW unsafe \in BOOLEAN, NEW h \in Responses
    PROVE  LET t == GenIfDue(s, slot, unsafe, h)
           IN  SysOK(t) /\ (~slot => ~t.skip)
<1>1. CASE s.cycle >= 0
  <2>1. GenIfDue(s, slot, unsafe, h) = GenInterrupt(s, slot, unsafe, h)
    BY <1>1 DEF GenIfDue
  <2> QED BY <1>1, <2>1, GenInterruptOrder
<1>2. CASE ~(s.cycle >= 0)
  <2>1. GenIfDue(s, slot, unsafe, h) = s
    BY <1>2 DEF GenIfDue
  <2> QED BY <1>2, <2>1 DEF SysOK
<1> QED BY <1>1, <1>2

-----------------------------------------------------------------------------
(* The passing of time.                                                     *)

\* What the theorems ask of the constants.  The video interface has been programmed; no
\* reset is asked for; the queue is not touched before the first instruction of a block
\* has updated Count, nor an interrupt signalled while an event is due; a block, a jump
\* and its delay slot at least, is shorter than half a lap of Count, and those two
\* instructions are shorter than a frame.
Setting ==
    /\ ViRunning /\ ~Resets /\ ~AtBoundary /\ ~SignalWhenDue
    /\ Capacity > 2 /\ MaxOps >= 2
    /\ (MaxOps + 1) * CountPerOp < Half
    /\ 2 * CountPerOp <= ViDelay

\* The longest block and one instruction more do not bring the first event half a lap
\* late, nor the video interrupt a frame.
Punctual ==
    /\ Signed(r4300.count - r4300.q[1].count) + (MaxOps + 1) * CountPerOp < Half
    /\ \A i \in 1 .. Len(r4300.q) :
          r4300.q[i].type = "VI_INT" => r4300.q[i].left - MaxOps * CountPerOp >= 0 - ViDelay

\* How long a block is.
LEMMA BlockLength ==
    ASSUME Setting, NEW n \in 0 .. MaxOps
    PROVE  \E most \in Nat, d \in Nat :
              /\ most = MaxOps * CountPerOp /\ most + CountPerOp = (MaxOps + 1) * CountPerOp
              /\ d = n * CountPerOp /\ d <= most /\ most + CountPerOp < Half
              /\ n > 0 => d >= CountPerOp
              /\ Brief
<1>1. CountPerOp \in Nat /\ CountPerOp >= 1 /\ MaxOps \in Nat /\ MaxOps >= 1 /\ n \in Nat
      /\ n <= MaxOps
  BY CountPerOpAssumption, BoundAssumption
<1>2. PICK most \in Nat, d \in Nat : most = MaxOps * CountPerOp /\ d = n * CountPerOp
  BY <1>1
<1>3. most + CountPerOp = (MaxOps + 1) * CountPerOp
  BY <1>1, <1>2
<1>4. d <= most
  <2>1. PICK r \in Nat : MaxOps = n + r
    BY <1>1
  <2>2. (n + r) * CountPerOp = n * CountPerOp + r * CountPerOp /\ r * CountPerOp \in Nat
    BY <1>1
  <2> QED BY <1>2, <2>1, <2>2
<1>5. n > 0 => d >= CountPerOp
  <2> SUFFICES ASSUME n > 0 PROVE d >= CountPerOp
    OBVIOUS
  <2>1. PICK r \in Nat : n = 1 + r
    BY <1>1
  <2>2. (1 + r) * CountPerOp = CountPerOp + r * CountPerOp /\ r * CountPerOp \in Nat
    BY <1>1
  <2> QED BY <1>1, <1>2, <2>1, <2>2
<1>6. most >= CountPerOp
  <2>1. PICK r \in Nat : MaxOps = 1 + r
    BY <1>1
  <2>2. (1 + r) * CountPerOp = CountPerOp + r * CountPerOp /\ r * CountPerOp \in Nat
    BY <1>1
  <2> QED BY <1>1, <1>2, <2>1, <2>2
<1>7. most + CountPerOp < Half
  BY <1>3 DEF Setting
<1>8. Brief
  BY <1>1, <1>6, <1>7, HalfType DEF Brief
<1> QED BY <1>2, <1>3, <1>4, <1>5, <1>7, <1>8

\* Every event comes nearer by d.
LEMMA AdvancedPlaced ==
    ASSUME NEW s, QueueOK(s), NEW d \in Nat, NEW early \in BOOLEAN, NEW b \in Int,
           Placed(s.q, early, b), NEW c \in Int, c = b - d, c > -Wrap
    PROVE  LET u == Advanced(s, d).q
           IN  /\ u \in Seq(Nodes) /\ Len(u) = Len(s.q) /\ Placed(u, early, c)
               /\ \A i \in 1 .. Len(s.q) :
                     u[i].type = s.q[i].type /\ u[i].left = s.q[i].left - d
<1> DEFINE q == s.q
           m == Mod(s.count + d)
           k == Signed(s.cycle + d)
           v == [i \in 1 .. Len(q) |-> [q[i] EXCEPT !.left = Nearer(@, d)]]
           t == Advanced(s, d)
           u == t.q
<1>1. s \in States /\ q \in Seq(Nodes) /\ Len(q) \in Nat
  BY QueueType
<1>2. t = [s EXCEPT !.count = m, !.cycle = k, !.q = v]
  BY DEF Advanced
<1>3. QueueOK(t)
  BY AdvancedOK
<1> HIDE DEF m, k, t
<1>4. u = v
  BY <1>1, <1>2 DEF States
<1>5. u \in Seq(Nodes)
  BY <1>3, QueueType
<1>6. /\ Len(u) = Len(q)
      /\ \A i \in 1 .. Len(q) : u[i].type = q[i].type /\ u[i].left = q[i].left - d
  <2>1. Len(u) = Len(q)
    BY <1>1, <1>4
  <2>2. ASSUME NEW i \in 1 .. Len(q) PROVE u[i].type = q[i].type /\ u[i].left = q[i].left - d
    <3>1. q[i] \in Nodes
      BY <1>1
    <3>2. u[i] = [q[i] EXCEPT !.left = Nearer(@, d)]
      BY <1>4
    <3>3. u[i].type = q[i].type /\ u[i].left = Nearer(q[i].left, d)
      BY <3>1, <3>2 DEF Nodes
    <3>4. q[i].left \in Int /\ b <= q[i].left
      <4>1. /\ Seen(q[i], early) \in Int /\ q[i].left \in Int
            /\ Seen(q[i], early) <= q[i].left
        BY <1>1, SeenIn
      <4>2. b <= Seen(q[i], early)
        BY DEF Placed, Within
      <4> QED BY <4>1, <4>2
    <3>5. q[i].left - d > -Wrap
      BY <3>4, WrapAssumption
    <3>6. PICK x \in Int : x = q[i].left /\ x - d > -Wrap
      BY <3>4, <3>5
    <3>7. Nearer(x, d) = x - d
      <4>1. d \in Int
        OBVIOUS
      <4> QED BY <3>6, <4>1, NearerOK
    <3> QED BY <3>3, <3>6, <3>7
  <2> QED BY <2>1, <2>2
<1> HIDE DEF u
<1>7. Placed(u, early, c)
  <2>1. Placed(q, early, b) /\ early \in BOOLEAN /\ b \in Int /\ d \in Nat
        /\ c \in Int /\ c = b - d
    OBVIOUS
  <2> HIDE DEF q
  <2>2. Len(u) = Len(q)
    BY <1>6
  <2>3. \A i \in 1 .. Len(q) : u[i].type = q[i].type /\ u[i].left = q[i].left - d
    BY <1>6
  <2>4. q \in Seq(Nodes)
    BY <1>1
  <2> QED BY ONLY <1>5, <2>1, <2>2, <2>3, <2>4, ShiftPlaced
<1> QED BY <1>5, <1>6, <1>7 DEF u, t

\* When an event is due in time, the lap of the queue starts so late that the longest
\* block leaves it within bounds.
LEMMA PunctualPlaced ==
    ASSUME Setting, Brief, CpuOK(r4300), SysOK(r4300), Punctual, NEW most \in Nat,
           most + CountPerOp = (MaxOps + 1) * CountPerOp
    PROVE  \E early \in BOOLEAN : \E c \in Int :
              /\ Placed(r4300.q, early, c) /\ c <= CountPerOp /\ c - most >= Floor
              /\ c <= Seen(r4300.q[1], early) /\ Seen(r4300.q[1], early) \in Int
              /\ Signed(r4300.count - r4300.q[1].count) = 0 - Seen(r4300.q[1], early)
              /\ Placed(r4300.q, early, Seen(r4300.q[1], early))
<1> DEFINE s == Sync(r4300)
<1>1. QueueOK(r4300) /\ r4300 \in States /\ r4300.q # <<>> /\ Anchored(r4300.q)
  BY DEF CpuOK, QueueOK, Timers, Occurs, SysOK, Arranged, Anchored
<1>2. /\ s \in States /\ Synced(s) /\ s.q = r4300.q /\ s.count = r4300.count
      /\ s.compare = r4300.compare
  BY <1>1, SyncOK DEF SameRegisters
<1> HIDE DEF s
<1>3. QueueOK(s) /\ Anchored(s.q)
  BY <1>1, <1>2, RegistersOK
<1>4. PICK early \in BOOLEAN, b \in Floor .. CountPerOp : Placed(r4300.q, early, b)
  BY DEF SysOK, Arranged, OrderOK
<1>5. b \in Int /\ Floor <= b /\ b <= CountPerOp
  BY BriefType
<1>6. PICK x \in Int : x = Seen(r4300.q[1], early) /\ s.cycle = 0 - x /\ b <= x
  BY <1>2, <1>3, <1>4, <1>5, CycleSeen
<1>7. Signed(r4300.count - r4300.q[1].count) = 0 - x
  BY <1>2, <1>6 DEF Synced
<1>8. 0 - x + (most + CountPerOp) < Half
  BY <1>7 DEF Punctual
<1>9. PICK c \in Int : c = IF x < CountPerOp THEN x ELSE CountPerOp
  BY <1>5, BriefType
<1>10. c <= x /\ c <= CountPerOp /\ b <= c
  BY <1>5, <1>6, <1>9, BriefType
<1>11. c - most >= Floor
  <2>1. Floor = CountPerOp + 1 - Half /\ most + CountPerOp < Half
    BY DEF Floor, Setting
  <2> QED BY <1>8, <1>9, <2>1, BriefType
<1>12. Placed(r4300.q, early, c) /\ Placed(r4300.q, early, x)
  <2>1. r4300.q \in Seq(Nodes)
    BY <1>1, QueueType
  <2> QED BY <1>4, <1>5, <1>6, <1>10, <2>1, Tighten
<1> QED BY <1>6, <1>7, <1>10, <1>11, <1>12

\* The CPU state when an instruction starts, n instructions later.
LEMMA NowPlaced ==
    ASSUME Setting, CpuOK(r4300), SysOK(r4300), Punctual, NEW n \in 0 .. MaxOps
    PROVE  \E early \in BOOLEAN : \E c \in Int, b \in Int, d \in Nat, most \in Nat :
              /\ d = n * CountPerOp /\ c <= CountPerOp /\ c - most >= Floor /\ b = c - d
              /\ d <= most /\ (n > 0 => d >= CountPerOp)
              /\ most = MaxOps * CountPerOp /\ most + CountPerOp < Half
              /\ Placed(Now(n).q, early, b) /\ Len(Now(n).q) = Len(r4300.q)
              /\ \A i \in 1 .. Len(r4300.q) :
                    /\ Now(n).q[i].type = r4300.q[i].type
                    /\ Now(n).q[i].left = r4300.q[i].left - d
              /\ \A i \in 1 .. Len(r4300.q) : r4300.q[i].type = "VI_INT"
                    => r4300.q[i].left - most >= 0 - ViDelay /\ r4300.q[i].left \in Int
              /\ Now(n).cycle = Signed(r4300.cycle + d)
              /\ Now(n).skip = r4300.skip /\ Now(n).resetJob = r4300.resetJob
              /\ Now(n).vi = r4300.vi
              /\ CpuOK(Now(n))
<1> DEFINE r == [r4300 EXCEPT !.took = FALSE]
           t == Now(n)
<1>1. PICK most \in Nat, d \in Nat :
        /\ most = MaxOps * CountPerOp /\ most + CountPerOp = (MaxOps + 1) * CountPerOp
        /\ d = n * CountPerOp /\ d <= most /\ most + CountPerOp < Half
        /\ n > 0 => d >= CountPerOp
        /\ Brief
  BY BlockLength
<1>2. PICK early \in BOOLEAN, c \in Int :
        Placed(r4300.q, early, c) /\ c <= CountPerOp /\ c - most >= Floor
  BY <1>1, PunctualPlaced
<1>3. /\ r \in States /\ r.q = r4300.q /\ r.count = r4300.count /\ r.skip = r4300.skip
      /\ r.cycle = r4300.cycle /\ r.resetJob = r4300.resetJob /\ r.vi = r4300.vi
      /\ r.compare = r4300.compare
  BY DEF CpuOK, QueueOK, States
<1>4. t = Advanced(r, d)
  BY <1>1 DEF Now, UpdateCount, Advanced
<1> HIDE DEF r, t
<1>5. QueueOK(r)
  BY <1>3, RegistersOK DEF CpuOK
<1>b. PICK b \in Int : b = c - d /\ b > -Wrap
  <2>1. /\ c - most >= Floor /\ d <= most /\ c \in Int /\ d \in Nat /\ most \in Nat
        /\ Floor \in Int /\ Floor > 0 - Half /\ Half \in Nat /\ Wrap = 2 * Half
    BY <1>1, <1>2, BriefType
  <2>2. c - d > -Wrap
    BY ONLY <2>1
  <2> QED BY <2>2
<1>6. /\ Placed(t.q, early, b) /\ Len(t.q) = Len(r.q)
      /\ \A i \in 1 .. Len(r.q) : t.q[i].type = r.q[i].type /\ t.q[i].left = r.q[i].left - d
  <2>1. Placed(r.q, early, c)
    BY <1>2, <1>3
  <2> QED BY <1>4, <1>5, <1>b, <2>1, AdvancedPlaced
<1>7. t.cycle = Signed(r.cycle + d) /\ t.skip = r.skip /\ t.resetJob = r.resetJob /\ t.vi = r.vi
  <2>1. r \in States
    BY <1>3
  <2> QED BY <1>4, <2>1 DEF Advanced, States
<1>8. CpuOK(t)
  <2>1. n \in Nat
    BY BoundAssumption
  <2> QED BY <2>1, NowOK DEF t
<1>9. ASSUME NEW i \in 1 .. Len(r4300.q), r4300.q[i].type = "VI_INT"
      PROVE  r4300.q[i].left - most >= 0 - ViDelay /\ r4300.q[i].left \in Int
  <2>1. r4300.q \in Seq(Nodes)
    BY QueueType DEF CpuOK
  <2>2. r4300.q[i].left \in Int
    BY <2>1, TRUE \in BOOLEAN, SeenIn
  <2> QED BY <1>1, <1>9, <2>2 DEF Punctual
<1>10. /\ \A i \in 1 .. Len(r4300.q) :
             t.q[i].type = r4300.q[i].type /\ t.q[i].left = r4300.q[i].left - d
       /\ t.cycle = Signed(r4300.cycle + d) /\ t.skip = r4300.skip
       /\ t.resetJob = r4300.resetJob /\ t.vi = r4300.vi /\ Len(t.q) = Len(r4300.q)
  BY <1>3, <1>6, <1>7
<1> QED BY <1>1, <1>2, <1>b, <1>6, <1>8, <1>9, <1>10 DEF t

\* In it the queue is in order, and measured from Count or before if n is not 0.
LEMMA NowOrder ==
    ASSUME Setting, CpuOK(r4300), SysOK(r4300), Punctual, NEW n \in 0 .. MaxOps
    PROVE  LET t == Now(n)
           IN  /\ Arranged(t) /\ ViInTime(t.q) /\ CpuOK(t) /\ t.skip = r4300.skip
               /\ t.skip => t.cycle >= 0
               /\ n > 0 => \E early \in BOOLEAN : \E b \in Int :
                              Floor <= b /\ b <= 0 /\ Placed(t.q, early, b)
<1> DEFINE t == Now(n)
<1>1. PICK early \in BOOLEAN, c \in Int, b \in Int, d \in Nat, most \in Nat :
         /\ d = n * CountPerOp /\ c <= CountPerOp /\ c - most >= Floor /\ b = c - d
         /\ d <= most /\ (n > 0 => d >= CountPerOp)
         /\ most = MaxOps * CountPerOp /\ most + CountPerOp < Half
         /\ Placed(t.q, early, b) /\ Len(t.q) = Len(r4300.q)
         /\ \A i \in 1 .. Len(r4300.q) :
               t.q[i].type = r4300.q[i].type /\ t.q[i].left = r4300.q[i].left - d
         /\ \A i \in 1 .. Len(r4300.q) : r4300.q[i].type = "VI_INT"
               => r4300.q[i].left - most >= 0 - ViDelay /\ r4300.q[i].left \in Int
         /\ t.cycle = Signed(r4300.cycle + d)
         /\ t.skip = r4300.skip /\ t.resetJob = r4300.resetJob /\ t.vi = r4300.vi
         /\ CpuOK(t)
  BY NowPlaced
<1> HIDE DEF t
<1>2. Brief
  BY BlockLength
<1>3. /\ c <= CountPerOp /\ c - most >= Floor /\ b = c - d /\ d <= most
      /\ n > 0 => d >= CountPerOp
      /\ c \in Int /\ b \in Int /\ d \in Nat /\ most \in Nat
  BY <1>1
<1>f. Floor \in Int /\ CountPerOp \in Nat
  BY <1>2, BriefType
<1>4. Floor <= b /\ b <= CountPerOp /\ (n > 0 => b <= 0) /\ b \in Floor .. CountPerOp
  <2>1. Floor <= b /\ b <= CountPerOp
    BY ONLY <1>3, <1>f
  <2>2. n > 0 => b <= 0
    BY ONLY <1>3, <1>f
  <2> QED BY <1>3, <1>f, <2>1, <2>2
<1>5. Occurs(t.q, "VI_INT")
  <2>1. PICK i \in 1 .. Len(r4300.q) : r4300.q[i].type = "VI_INT"
    BY DEF SysOK, Arranged, Occurs
  <2> QED BY <1>1, <2>1 DEF Occurs
<1>6. Arranged(t)
  BY <1>1, <1>3, <1>4, <1>5 DEF OrderOK, SysOK, Arranged
<1>7. ViInTime(t.q)
  <2> SUFFICES ASSUME NEW i \in 1 .. Len(r4300.q), r4300.q[i].type = "VI_INT"
               PROVE  t.q[i].left >= 0 - ViDelay
    BY <1>1 DEF ViInTime
  <2>1. PICK v \in Int : v = r4300.q[i].left /\ v - most >= 0 - ViDelay /\ t.q[i].left = v - d
    BY <1>1
  <2>2. PICK f \in Int : f = ViDelay
    BY DelayAssumption, HalfType
  <2>3. d <= most /\ d \in Nat /\ most \in Nat /\ v \in Int /\ f \in Int
        /\ v - most >= 0 - f
    BY <1>3, <2>1, <2>2
  <2>4. v - d >= 0 - f
    BY ONLY <2>3
  <2> QED BY <2>1, <2>2, <2>4
<1>8. t.skip => t.cycle >= 0
  <2> SUFFICES ASSUME r4300.skip PROVE t.cycle >= 0
    BY <1>1
  <2>1. r4300.cycle = 0
    BY DEF SysOK
  <2>2. d \in -Half .. Half - 1 /\ 0 + d = d
    <3>1. most + CountPerOp < Half /\ Half \in Nat
      BY <1>1, HalfType
    <3> QED BY ONLY <1>3, <1>f, <3>1
  <2>3. Signed(d) = d
    BY <2>2, SignedSmall
  <2> QED BY <1>1, <2>1, <2>2, <2>3
<1> QED BY <1>1, <1>3, <1>4, <1>6, <1>7, <1>8 DEF t

-----------------------------------------------------------------------------
(* r4300_check_interrupt.                                                   *)

\* A CHECK_INT, due now, has been put in front of the queue of s.
Fronted(t, s) ==
    /\ t.cycle = 0 /\ t.q \in Seq(Nodes) /\ Len(t.q) = Len(s.q) + 1
    /\ t.q[1].type = "CHECK_INT" /\ t.q[1].left = 0
    /\ \A i \in 1 .. Len(s.q) : t.q[i + 1] = s.q[i]

\* Either that, or the queue stays as it is.
LEMMA CheckCases ==
    ASSUME NEW s \in States, NEW ip \in IPs, NEW set \in BOOLEAN
    PROVE  LET t == CheckInterrupt(s, ip, set)
           IN  /\ t.skip = s.skip /\ t.resetJob = s.resetJob /\ t.vi = s.vi /\ t.count = s.count
               /\ (t.q = s.q /\ t.cycle = s.cycle) \/ Fronted(t, s)
<1> DEFINE m == IF set THEN s.cause \cup {ip} ELSE s.cause \ {ip}
           c == [s EXCEPT !.cause = m]
           e == Event("CHECK_INT", c.count, 0)
           u == <<e>> \o c.q
           t == CheckInterrupt(s, ip, set)
           f == [c EXCEPT !.q = u, !.next = c.count, !.cycle = 0]
<1>1. m \in SUBSET IPs
  BY DEF States
<1>2. t = IF ~Unmasked(c) \/ Len(c.q) >= Capacity THEN c ELSE f
  BY DEF CheckInterrupt
<1> HIDE DEF m
<1>3. /\ c \in States /\ c.q = s.q /\ c.cycle = s.cycle /\ c.count = s.count
      /\ c.skip = s.skip /\ c.resetJob = s.resetJob /\ c.vi = s.vi
  BY <1>1 DEF States
<1> HIDE DEF c, t
<1>4. CASE ~Unmasked(c) \/ Len(c.q) >= Capacity
  BY <1>2, <1>3, <1>4 DEF t
<1>5. CASE ~(~Unmasked(c) \/ Len(c.q) >= Capacity)
  <2>1. c.count \in 0 .. Wrap - 1 /\ c.q \in Seq(Nodes) /\ Len(c.q) \in Nat
    <3>1. c.count \in 0 .. Wrap - 1 /\ c.q \in Seq(Nodes)
      BY <1>3 DEF States
    <3> QED BY <3>1
  <2>2. e \in Nodes /\ e.type = "CHECK_INT" /\ e.left = 0
    BY <2>1 DEF Event, Nodes, EventTypes
  <2> HIDE DEF e
  <2>3. /\ u \in Seq(Nodes) /\ Len(u) = Len(c.q) + 1 /\ u[1] = e
        /\ \A i \in 1 .. Len(c.q) : u[i + 1] = c.q[i]
    BY <2>1, <2>2
  <2> HIDE DEF u
  <2>4. t = f /\ 0 \in -Half .. Half - 1
    BY <1>2, <1>5, HalfType
  <2>5. /\ t.q = u /\ t.cycle = 0 /\ t.skip = c.skip /\ t.resetJob = c.resetJob /\ t.vi = c.vi
        /\ t.count = c.count
    BY <1>3, <2>4 DEF States
  <2> QED BY <1>3, <2>2, <2>3, <2>5 DEF Fronted, t
<1> QED BY <1>4, <1>5

\* A CHECK_INT in front is taken out by the gen_interrupt that follows, and the queue is
\* what it was, d cycles later.
LEMMA FrontHandled ==
    ASSUME Brief, NEW a, CpuOK(a), ~a.skip, ~a.resetJob, a.vi = ViDelay,
           a.q[1].type = "CHECK_INT",
           NEW q \in Seq(Nodes), Len(a.q) = Len(q) + 1, NEW d \in Nat,
           \A i \in 1 .. Len(q) :
               a.q[i + 1].type = q[i].type /\ a.q[i + 1].left = q[i].left - d,
           NEW early \in BOOLEAN, NEW b \in Int, Placed(q, early, b), Occurs(q, "VI_INT"),
           NEW c \in Floor .. CountPerOp, c = b - d,
           NEW slot \in BOOLEAN, NEW unsafe \in BOOLEAN, NEW h \in Responses
    PROVE  SysOK(GenInterrupt(a, slot, unsafe, h))
<1> DEFINE done == RemoveFirstEvent(a)
           u == done.q
<1>1. GenInterrupt(a, slot, unsafe, h) = ExceptionGeneral(done, slot)
  BY DEF GenInterrupt, CheckIntHandler
<1>2. QueueOK(done) /\ SameRegisters(done, a) /\ Removed(u, a.q, 1)
  BY RemoveFirstOK DEF CpuOK
<1> HIDE DEF done
<1>3. u \in Seq(Nodes) /\ Len(q) \in Nat /\ Len(u) = Len(q)
  BY <1>2 DEF Removed
<1>4. ASSUME NEW i \in 1 .. Len(q) PROVE u[i].type = q[i].type /\ u[i].left = q[i].left - d
  <2>1. u[i] = a.q[i + 1]
    BY <1>2, <1>3 DEF Removed
  <2> QED BY <2>1
<1> HIDE DEF u
<1>5. Placed(u, early, c)
  <2>1. c \in Int
    BY BriefType
  <2> QED BY <1>3, <1>4, <2>1, ShiftPlaced
<1>6. Occurs(u, "VI_INT")
  <2>1. PICK i \in 1 .. Len(q) : q[i].type = "VI_INT"
    BY DEF Occurs
  <2> QED BY <1>3, <1>4, <2>1 DEF Occurs
<1>7. OrderOK(u)
  BY <1>5 DEF OrderOK
<1>8. ~done.resetJob /\ done.vi = ViDelay /\ ~done.skip /\ done \in States
  BY <1>2 DEF SameRegisters, QueueOK
<1>9. Kept(ExceptionGeneral(done, slot), done, slot)
  <2>1. "IP2" \in IPs /\ TRUE \in BOOLEAN
    BY DEF IPs
  <2> QED BY <1>8, <2>1, RaiseKeeps
<1> QED BY <1>1, <1>6, <1>7, <1>8, <1>9, RaisedOK DEF u

\* r4300_check_interrupt, d cycles, and the test for due events.
LEMMA CheckedOrder ==
    ASSUME Brief, ~Resets, NEW s, CpuOK(s), ~s.skip, ~s.resetJob, s.vi = ViDelay,
           Occurs(s.q, "VI_INT"),
           NEW c, CpuOK(c), (c.q = s.q /\ c.cycle = s.cycle) \/ Fronted(c, s),
           NEW a, CpuOK(a), ~a.skip, ~a.resetJob, a.vi = ViDelay, Len(a.q) = Len(c.q),
           NEW d \in Nat, d < Half, a.cycle = Signed(c.cycle + d),
           \A i \in 1 .. Len(c.q) : a.q[i].type = c.q[i].type /\ a.q[i].left = c.q[i].left - d,
           NEW early \in BOOLEAN, NEW b \in Int, Placed(s.q, early, b),
           NEW e \in Floor .. CountPerOp, e = b - d,
           \A i \in 1 .. Len(s.q) :
               s.q[i].type = "VI_INT" => s.q[i].left - d >= 0 - ViDelay,
           NEW slot \in BOOLEAN, NEW unsafe \in BOOLEAN, NEW h \in Responses
    PROVE  SysOK(GenIfDue(a, slot, unsafe, h))
<1>1. s.q \in Seq(Nodes) /\ c.q \in Seq(Nodes) /\ a.q \in Seq(Nodes) /\ Len(s.q) \in Nat
      /\ e \in Int
  BY QueueType, BriefType DEF CpuOK
<1>2. CASE c.q = s.q /\ c.cycle = s.cycle
  <2>1. \A i \in 1 .. Len(s.q) : a.q[i].type = s.q[i].type /\ a.q[i].left = s.q[i].left - d
    BY <1>2
  <2>2. Len(a.q) = Len(s.q)
    BY <1>2
  <2>3. Placed(a.q, early, e)
    BY <1>1, <2>1, <2>2, ShiftPlaced
  <2>4. Occurs(a.q, "VI_INT")
    BY <2>1, <2>2 DEF Occurs
  <2>5. Arranged(a)
    BY <2>3, <2>4 DEF Arranged, OrderOK
  <2>6. ViInTime(a.q)
    BY <2>1, <2>2 DEF ViInTime
  <2>7. /\ Brief /\ ~Resets /\ CpuOK(a) /\ Arranged(a) /\ ViInTime(a.q) /\ ~a.skip
        /\ slot \in BOOLEAN /\ unsafe \in BOOLEAN /\ h \in Responses
    BY <2>5, <2>6
  <2> QED BY ONLY <2>7, GenIfDueOrder
<1>3. CASE Fronted(c, s)
  <2>1. a.q[1].type = "CHECK_INT" /\ Len(a.q) = Len(s.q) + 1
    <3>1. c.q[1].type = "CHECK_INT" /\ Len(c.q) = Len(s.q) + 1
      BY <1>3 DEF Fronted
    <3>2. 1 \in 1 .. Len(c.q)
      BY <1>1, <3>1
    <3> QED BY <3>1, <3>2
  <2>2. ASSUME NEW i \in 1 .. Len(s.q)
        PROVE  a.q[i + 1].type = s.q[i].type /\ a.q[i + 1].left = s.q[i].left - d
    <3>1. i + 1 \in 1 .. Len(c.q) /\ c.q[i + 1] = s.q[i]
      BY <1>1, <1>3 DEF Fronted
    <3> QED BY <3>1
  <2>3. a.cycle >= 0
    <3>1. d \in -Half .. Half - 1 /\ 0 + d = d
      BY HalfType
    <3>2. a.cycle = Signed(d)
      BY <1>3, <3>1 DEF Fronted
    <3> QED BY <3>1, <3>2, SignedSmall
  <2>4. SysOK(GenInterrupt(a, slot, unsafe, h))
    BY <1>1, <2>1, <2>2, FrontHandled
  <2> QED BY <2>3, <2>4 DEF GenIfDue
<1> QED BY <1>2, <1>3

-----------------------------------------------------------------------------
(* The actions.                                                             *)

\* The CPU state of an operation that does not update Count.
LEMMA StillPlaced ==
    ASSUME Setting, CpuOK(r4300), SysOK(r4300), Punctual
    PROVE  \E early \in BOOLEAN : \E b \in Int, most \in Nat :
              /\ b <= CountPerOp /\ b - most >= Floor /\ most = MaxOps * CountPerOp
              /\ Placed(Now(0).q, early, b) /\ Len(Now(0).q) = Len(r4300.q)
              /\ \A i \in 1 .. Len(r4300.q) :
                    /\ Now(0).q[i].type = r4300.q[i].type
                    /\ r4300.q[i].type = "VI_INT"
                          => Now(0).q[i].left - most >= 0 - ViDelay /\ Now(0).q[i].left \in Int
              /\ Now(0).skip = r4300.skip /\ Now(0).resetJob = r4300.resetJob
              /\ Now(0).vi = r4300.vi
              /\ Now(0).cycle = r4300.cycle
              /\ CpuOK(Now(0)) /\ most + CountPerOp < Half
<1>o. PICK o \in 0 .. MaxOps : o = 0
  BY BoundAssumption
<1>p. PICK early \in BOOLEAN, b \in Int, z \in Int, d \in Nat, most \in Nat :
       /\ d = o * CountPerOp /\ b <= CountPerOp /\ b - most >= Floor /\ z = b - d
       /\ d <= most /\ (o > 0 => d >= CountPerOp)
       /\ most = MaxOps * CountPerOp /\ most + CountPerOp < Half
       /\ Placed(Now(o).q, early, z) /\ Len(Now(o).q) = Len(r4300.q)
       /\ \A i \in 1 .. Len(r4300.q) :
             /\ Now(o).q[i].type = r4300.q[i].type
             /\ Now(o).q[i].left = r4300.q[i].left - d
       /\ \A i \in 1 .. Len(r4300.q) : r4300.q[i].type = "VI_INT"
             => r4300.q[i].left - most >= 0 - ViDelay /\ r4300.q[i].left \in Int
       /\ Now(o).cycle = Signed(r4300.cycle + d)
       /\ Now(o).skip = r4300.skip /\ Now(o).resetJob = r4300.resetJob /\ Now(o).vi = r4300.vi
       /\ CpuOK(Now(o))
  BY NowPlaced
<1>1. /\ d = 0 * CountPerOp /\ b <= CountPerOp /\ b - most >= Floor /\ z = b - d
      /\ most = MaxOps * CountPerOp /\ most + CountPerOp < Half
      /\ Placed(Now(0).q, early, z) /\ Len(Now(0).q) = Len(r4300.q)
      /\ \A i \in 1 .. Len(r4300.q) :
            /\ Now(0).q[i].type = r4300.q[i].type
            /\ Now(0).q[i].left = r4300.q[i].left - d
      /\ \A i \in 1 .. Len(r4300.q) : r4300.q[i].type = "VI_INT"
            => r4300.q[i].left - most >= 0 - ViDelay /\ r4300.q[i].left \in Int
      /\ Now(0).cycle = Signed(r4300.cycle + d)
      /\ Now(0).skip = r4300.skip /\ Now(0).resetJob = r4300.resetJob /\ Now(0).vi = r4300.vi
      /\ CpuOK(Now(0))
  BY <1>o, <1>p
<1>2. d = 0 /\ z = b
  <2>1. CountPerOp \in Int
    BY CountPerOpAssumption, WrapAssumption
  <2>2. d = 0 * CountPerOp /\ z = b - d /\ b \in Int /\ z \in Int /\ d \in Nat
    BY <1>1
  <2>3. 0 * CountPerOp = 0
    BY ONLY <2>1
  <2> QED BY ONLY <2>2, <2>3
<1>3. ASSUME NEW i \in 1 .. Len(r4300.q), r4300.q[i].type = "VI_INT"
      PROVE  Now(0).q[i].left - most >= 0 - ViDelay /\ Now(0).q[i].left \in Int
  <2>1. PICK v \in Int : v = r4300.q[i].left /\ v - most >= 0 - ViDelay
    BY <1>1, <1>3
  <2>2. Now(0).q[i].left = v - d
    BY <1>1, <2>1
  <2>3. v - d = v
    BY <1>2
  <2> QED BY <2>1, <2>2, <2>3
<1>4. Now(0).cycle = r4300.cycle
  <2>1. r4300.cycle \in -Half .. Half - 1
    BY DEF CpuOK, QueueOK, States
  <2>2. r4300.cycle + d = r4300.cycle
    BY <1>2, <2>1, HalfType
  <2> QED BY <1>1, <2>1, <2>2, SignedSmall
<1> QED BY <1>1, <1>2, <1>3, <1>4

\* A write of MI_INTR_MASK_REG looks for interrupts before it updates Count.
LEMMA WriteMiOrder ==
    ASSUME Setting, CpuOK(r4300), SysOK(r4300), ~r4300.skip, Punctual,
           NEW n \in 0 .. MaxOps, NEW some \in BOOLEAN, NEW slot \in BOOLEAN,
           NEW h \in Responses
    PROVE  LET c == CheckInterrupt([Now(0) EXCEPT !.rcp = some], "IP2", some)
           IN  SysOK(GenIfDue(UpdateCount(c, n), slot, FALSE, h))
<1> DEFINE s == [Now(0) EXCEPT !.rcp = some]
           c == CheckInterrupt(s, "IP2", some)
<1>0. 0 \in 0 .. MaxOps /\ "IP2" \in IPs
  BY BoundAssumption DEF IPs
<1>1. PICK early \in BOOLEAN, b \in Int, most \in Nat :
         /\ b <= CountPerOp /\ b - most >= Floor /\ most = MaxOps * CountPerOp
         /\ Placed(Now(0).q, early, b) /\ Len(Now(0).q) = Len(r4300.q)
         /\ \A i \in 1 .. Len(r4300.q) :
               /\ Now(0).q[i].type = r4300.q[i].type
               /\ r4300.q[i].type = "VI_INT"
                     => Now(0).q[i].left - most >= 0 - ViDelay /\ Now(0).q[i].left \in Int
         /\ Now(0).skip = r4300.skip /\ Now(0).resetJob = r4300.resetJob /\ Now(0).vi = r4300.vi
         /\ Now(0).cycle = r4300.cycle
         /\ CpuOK(Now(0)) /\ most + CountPerOp < Half
  BY StillPlaced
<1>2. PICK d \in Nat : d = n * CountPerOp /\ d <= most /\ Brief
  BY <1>1, BlockLength
<1>3. /\ s \in States /\ s.q = Now(0).q /\ s.count = Now(0).count /\ s.skip = Now(0).skip
      /\ s.resetJob = Now(0).resetJob /\ s.vi = Now(0).vi /\ s.cycle = Now(0).cycle
      /\ s.next = Now(0).next /\ s.compare = Now(0).compare
      /\ s.ie = Now(0).ie /\ s.exl = Now(0).exl /\ s.erl = Now(0).erl /\ s.im = Now(0).im
      /\ s.cause = Now(0).cause
  BY <1>1 DEF CpuOK, QueueOK, States
<1>4. CpuOK(c)
  BY <1>1, RcpOK
<1> HIDE DEF s
<1>5. CpuOK(s)
  BY <1>1, <1>3, RegistersOK DEF CpuOK, Synced, NoneLost, Unmasked
<1>6. /\ c.skip = s.skip /\ c.resetJob = s.resetJob /\ c.vi = s.vi
      /\ (c.q = s.q /\ c.cycle = s.cycle) \/ Fronted(c, s)
  BY <1>0, <1>3, CheckCases
<1> HIDE DEF c
<1> DEFINE a == UpdateCount(c, n)
<1>7. a = Advanced(c, d)
  BY <1>2 DEF UpdateCount, Advanced
<1>8. CpuOK(a)
  <2>1. n \in Nat
    BY BoundAssumption
  <2> QED BY <1>4, <2>1, AdvanceOK
<1> HIDE DEF a
<1>9. a.cycle = Signed(c.cycle + d) /\ a.skip = c.skip /\ a.resetJob = c.resetJob /\ a.vi = c.vi
  <2>1. c \in States
    BY <1>4 DEF CpuOK, QueueOK
  <2> QED BY <1>7, <2>1 DEF Advanced, States
<1>e. PICK e \in Floor .. CountPerOp : e = b - d /\ e > -Wrap /\ 0 - d > -Wrap
  <2>1. Floor \in Int /\ CountPerOp \in Nat /\ b <= CountPerOp /\ b - most >= Floor
        /\ d <= most /\ b \in Int /\ d \in Nat /\ most \in Nat /\ Floor > 0 - Half
        /\ most + CountPerOp < Half /\ Half \in Nat /\ Wrap = 2 * Half
    BY <1>1, <1>2, BriefType
  <2>2. b - d \in Floor .. CountPerOp /\ b - d > -Wrap /\ 0 - d > -Wrap
    BY ONLY <2>1
  <2> QED BY <2>2
<1>f. ASSUME NEW i \in 1 .. Len(c.q) PROVE c.q[i].left \in Int /\ c.q[i].left - d > -Wrap
  <2>1. s.q \in Seq(Nodes) /\ Len(s.q) \in Nat /\ Wrap \in Int
    BY <1>5, QueueType, WrapAssumption DEF CpuOK
  <2>2. ASSUME NEW k \in 1 .. Len(s.q) PROVE s.q[k].left \in Int /\ s.q[k].left - d > -Wrap
    <3>1. /\ Seen(s.q[k], early) \in Int /\ s.q[k].left \in Int
          /\ Seen(s.q[k], early) <= s.q[k].left
      BY <2>1, SeenIn
    <3>2. b <= Seen(s.q[k], early)
      BY <1>1, <1>3 DEF Placed, Within
    <3>3. b - d > -Wrap /\ b \in Int /\ d \in Nat
      BY <1>1, <1>2, <1>e
    <3> QED BY <2>1, <3>1, <3>2, <3>3
  <2>3. CASE c.q = s.q
    BY <2>2, <2>3
  <2>4. CASE Fronted(c, s)
    <3>1. CASE i = 1
      <4>1. c.q[i].left = 0
        BY <2>4, <3>1 DEF Fronted
      <4> QED BY <1>e, <4>1
    <3>2. CASE i # 1
      <4>1. i - 1 \in 1 .. Len(s.q) /\ (i - 1) + 1 = i
        BY <2>1, <2>4, <3>2 DEF Fronted
      <4>2. c.q[i] = s.q[i - 1]
        BY <2>4, <4>1 DEF Fronted
      <4> QED BY <2>2, <4>1, <4>2
    <3> QED BY <3>1, <3>2
  <2> QED BY <1>6, <2>3, <2>4
<1>10. /\ Len(a.q) = Len(c.q)
       /\ \A i \in 1 .. Len(c.q) : a.q[i].type = c.q[i].type /\ a.q[i].left = c.q[i].left - d
  <2>1. c.q \in Seq(Nodes) /\ c \in States /\ Len(c.q) \in Nat
    BY <1>4, QueueType DEF CpuOK
  <2>2. a.q = [i \in 1 .. Len(c.q) |-> [c.q[i] EXCEPT !.left = Nearer(@, d)]]
    BY <1>7, <2>1 DEF Advanced, States
  <2>3. Len(a.q) = Len(c.q)
    BY <2>1, <2>2
  <2>4. ASSUME NEW i \in 1 .. Len(c.q)
        PROVE  a.q[i].type = c.q[i].type /\ a.q[i].left = c.q[i].left - d
    <3>1. a.q[i] = [c.q[i] EXCEPT !.left = Nearer(@, d)] /\ c.q[i] \in Nodes
      BY <2>1, <2>2
    <3>2. a.q[i].type = c.q[i].type /\ a.q[i].left = Nearer(c.q[i].left, d)
      BY <3>1 DEF Nodes
    <3>3. c.q[i].left \in Int /\ c.q[i].left - d > -Wrap /\ d \in Int
      BY <1>2, <1>f
    <3> QED BY <3>2, <3>3, NearerOK
  <2> QED BY <2>3, <2>4
<1>11. e \in Floor .. CountPerOp /\ e = b - d
  BY <1>e
<1>12. ASSUME NEW i \in 1 .. Len(s.q), s.q[i].type = "VI_INT"
       PROVE  s.q[i].left - d >= 0 - ViDelay
  <2>1. i \in 1 .. Len(r4300.q) /\ r4300.q[i].type = "VI_INT"
    BY <1>1, <1>3, <1>12
  <2>2. PICK v \in Int : v = s.q[i].left /\ v - most >= 0 - ViDelay
    BY <1>1, <1>3, <2>1
  <2>3. PICK f \in Int : f = ViDelay
    BY DelayAssumption, HalfType
  <2>4. d <= most /\ d \in Nat /\ most \in Nat /\ v \in Int /\ f \in Int
        /\ v - most >= 0 - f
    BY <1>2, <2>2, <2>3
  <2>5. v - d >= 0 - f
    BY ONLY <2>4
  <2> QED BY <2>2, <2>3, <2>5
<1>13. Occurs(s.q, "VI_INT")
  <2>1. PICK i \in 1 .. Len(r4300.q) : r4300.q[i].type = "VI_INT"
    BY DEF SysOK, Arranged, Occurs
  <2> QED BY <1>1, <1>3, <2>1 DEF Occurs
<1>14. /\ ~s.skip /\ ~s.resetJob /\ s.vi = ViDelay
       /\ ~a.skip /\ ~a.resetJob /\ a.vi = ViDelay
       /\ ~Resets /\ Placed(s.q, early, b) /\ FALSE \in BOOLEAN
  BY <1>1, <1>3, <1>6, <1>9 DEF SysOK, Arranged, Setting
<1>15. d < Half
  <2>1. most + CountPerOp < Half /\ Half \in Nat /\ CountPerOp \in Nat /\ d <= most
        /\ d \in Nat /\ most \in Nat
    BY <1>1, <1>2, BriefType
  <2> QED BY ONLY <2>1
<1>16. SysOK(GenIfDue(a, slot, FALSE, h))
  <2>1. /\ \A i \in 1 .. Len(s.q) :
              s.q[i].type = "VI_INT" => s.q[i].left - d >= 0 - ViDelay
        /\ early \in BOOLEAN /\ b \in Int /\ d \in Nat /\ slot \in BOOLEAN
        /\ h \in Responses
    BY <1>12
  <2> QED
    BY ONLY <1>2, <1>4, <1>5, <1>6, <1>8, <1>9, <1>10, <1>11, <1>13, <1>14, <1>15, <2>1,
            CheckedOrder
<1> QED BY <1>16 DEF a, c, s

\* MTC0 Status and ERET: the masks have changed, and the pending interrupts are looked at.
LEMMA MaskOrder ==
    ASSUME Setting, CpuOK(r4300), SysOK(r4300), ~r4300.skip, Punctual,
           NEW n \in 0 .. MaxOps, NEW s \in States, s.q = Now(n).q, s.count = Now(n).count,
           s.next = Now(n).next, s.cycle = Now(n).cycle, s.skip = Now(n).skip,
           s.resetJob = Now(n).resetJob, s.vi = Now(n).vi, s.compare = Now(n).compare,
           NEW slot \in BOOLEAN, NEW unsafe \in BOOLEAN, NEW h \in Responses
    PROVE  SysOK(GenIfDue(CheckInterrupt(s, "IP2", s.rcp), slot, unsafe, h))
<1> DEFINE c == CheckInterrupt(s, "IP2", s.rcp)
<1>0. "IP2" \in IPs /\ s.rcp \in BOOLEAN /\ Brief /\ ~Resets
  BY BlockLength DEF IPs, States, Setting
<1>1. Arranged(Now(n)) /\ ViInTime(Now(n).q) /\ CpuOK(Now(n)) /\ Now(n).skip = r4300.skip
  BY NowOrder
<1>2. CpuOK(c)
  BY <1>1, MaskedOK
<1>3. /\ c.skip = s.skip /\ c.resetJob = s.resetJob /\ c.vi = s.vi
      /\ (c.q = Now(n).q /\ c.cycle = Now(n).cycle) \/ Fronted(c, s)
  BY <1>0, CheckCases
<1>4. Fronted(c, s) => Fronted(c, Now(n))
  BY DEF Fronted
<1> HIDE DEF c
<1>5. PICK early \in BOOLEAN, b \in Floor .. CountPerOp : Placed(Now(n).q, early, b)
  BY <1>1 DEF Arranged, OrderOK
<1>6. PICK z \in Nat : z = 0
  OBVIOUS
<1>7. b \in Int /\ b = b - z /\ z < Half
  BY <1>0, <1>6, BriefType
<1>8. c.q \in Seq(Nodes) /\ c.cycle \in -Half .. Half - 1 /\ Now(n).q \in Seq(Nodes)
  BY <1>1, <1>2 DEF CpuOK, QueueOK, States
<1>9. c.cycle = Signed(c.cycle + z)
  <2>1. c.cycle + z = c.cycle
    BY <1>6, <1>8, HalfType
  <2> QED BY <1>8, <2>1, SignedSmall
<1>10. \A i \in 1 .. Len(c.q) : c.q[i].type = c.q[i].type /\ c.q[i].left = c.q[i].left - z
  <2> SUFFICES ASSUME NEW i \in 1 .. Len(c.q) PROVE c.q[i].left = c.q[i].left - z
    OBVIOUS
  <2>1. c.q[i] \in Nodes
    BY <1>8
  <2>2. PICK v \in Int : v = c.q[i].left
    BY <2>1 DEF Nodes
  <2>3. v - z = v
    BY <1>6
  <2> QED BY <2>2, <2>3
<1>11. \A i \in 1 .. Len(Now(n).q) :
          Now(n).q[i].type = "VI_INT" => Now(n).q[i].left - z >= 0 - ViDelay
  <2> SUFFICES ASSUME NEW i \in 1 .. Len(Now(n).q), Now(n).q[i].type = "VI_INT"
               PROVE  Now(n).q[i].left - z >= 0 - ViDelay
    OBVIOUS
  <2>0. Now(n).q[i] \in Nodes
    BY <1>8
  <2>a. Now(n).q[i].left >= 0 - ViDelay
    BY <1>1 DEF ViInTime
  <2>1. PICK v \in Int : v = Now(n).q[i].left /\ v >= 0 - ViDelay
    BY <2>0, <2>a DEF Nodes
  <2>2. v - z = v
    BY <1>6
  <2> QED BY <2>1, <2>2
<1>12. /\ ~Now(n).skip /\ ~Now(n).resetJob /\ Now(n).vi = ViDelay
       /\ ~c.skip /\ ~c.resetJob /\ c.vi = ViDelay
       /\ Occurs(Now(n).q, "VI_INT")
  BY <1>1, <1>3 DEF Arranged
<1>13. SysOK(GenIfDue(c, slot, unsafe, h))
  BY <1>0, <1>1, <1>2, <1>3, <1>4, <1>5, <1>7, <1>9, <1>10, <1>11, <1>12, CheckedOrder
<1> QED BY <1>13 DEF c

\* The first event is seen before all others.
LEMMA FirstSeen ==
    ASSUME NEW q \in Seq(Nodes), NEW early \in BOOLEAN, Ordered(q, early),
           NEW i \in 1 .. Len(q)
    PROVE  /\ Seen(q[1], early) <= Seen(q[i], early) /\ Seen(q[i], early) \in Int
           /\ Seen(q[1], early) \in Int
<1>1. 1 \in 1 .. Len(q) /\ Len(q) \in Nat
  OBVIOUS
<1>2. Seen(q[i], early) \in Int /\ Seen(q[1], early) \in Int
  BY <1>1, SeenIn
<1>3. CASE i = 1
  BY <1>2, <1>3
<1>4. CASE i # 1
  <2>1. 1 < i
    BY <1>4
  <2> QED BY <1>1, <1>2, <2>1 DEF Ordered
<1> QED BY <1>3, <1>4

\* A register write that schedules an event.
LEMMA ScheduleOrder ==
    ASSUME Setting, CpuOK(r4300), SysOK(r4300), ~r4300.skip, Punctual,
           NEW n \in 0 .. MaxOps, n > 0,
           NEW type \in EventTypes \ {"COMPARE_INT", "SPECIAL_INT"},
           type = "NMI_INT" => Resets, ~Occurs(r4300.q, type), NEW delay \in 0 .. Half
    PROVE  SysOK(AddEvent(Now(n), type, delay))
<1> DEFINE s == Now(n)
           t == AddEvent(s, type, delay)
<1>0. Brief /\ n \in Nat
  BY BlockLength, BoundAssumption
<1>1. Arranged(s) /\ CpuOK(s) /\ s.skip = r4300.skip
  BY NowOrder
<1>2. PICK early \in BOOLEAN, b \in Int : Floor <= b /\ b <= 0 /\ Placed(s.q, early, b)
  BY NowOrder
<1>3. ~Occurs(s.q, type)
  BY <1>0, NowOK
<1> HIDE DEF s
<1>4. QueueOK(s) /\ Synced(s) /\ Anchored(s.q)
  BY <1>1 DEF CpuOK, Arranged, Anchored, Occurs
<1>5. OrderOK(t.q)
  BY <1>0, <1>2, <1>4, AddEventOrder
<1>6. /\ type \in EventTypes \ {"COMPARE_INT", "SPECIAL_INT"} /\ delay \in 0 .. Half
      /\ type = "NMI_INT" => Resets
  OBVIOUS
<1>7. /\ SameRegisters(t, s)
      /\ \A other : Occurs(s.q, other) => Occurs(t.q, other)
  BY ONLY <1>3, <1>4, <1>6, AddEventOK
<1> HIDE DEF t
<1>8. SysOK(t)
  BY <1>1, <1>5, <1>7 DEF SysOK, Arranged, SameRegisters
<1> QED BY <1>8 DEF t, s

\* MTC0 Compare: remove_event leaves cycle_count as it was, and that is where the four
\* lines that arm the timer measure from.
LEMMA ComparedOrder ==
    ASSUME Brief, NEW s, CpuOK(s), ~s.skip, Arranged(s), NEW value \in 0 .. Wrap - 1
    PROVE  SysOK(Compared(s, value))
<1> DEFINE r == RemoveEvent(s, "COMPARE_INT")
           m == r.cause \ {"IP7"}
           w == [r EXCEPT !.compare = value, !.cause = m]
           t == AddCompare(w, value)
<1>1. QueueOK(s) /\ Timers(s.q) /\ Synced(s) /\ Anchored(s.q)
  BY DEF CpuOK, Arranged, Anchored, Occurs
<1>2. PICK early \in BOOLEAN, b \in Floor .. CountPerOp : Placed(s.q, early, b)
  BY DEF Arranged, OrderOK
<1>3. b \in Int /\ Floor <= b
  BY BriefType
<1>4. PICK x \in Int : x = Seen(s.q[1], early) /\ s.cycle = 0 - x /\ b <= x
  BY <1>1, <1>2, <1>3, CycleSeen
<1>5. "COMPARE_INT" \in EventTypes \ {"CHECK_INT"} /\ Occurs(s.q, "COMPARE_INT")
  BY <1>1 DEF EventTypes, Timers
<1>6. /\ QueueOK(r) /\ SameRegisters(r, s) /\ ~Occurs(r.q, "COMPARE_INT")
      /\ \A other : other # "COMPARE_INT" => (Occurs(r.q, other) <=> Occurs(s.q, other))
      /\ Len(r.q) = Len(s.q) - 1
  BY <1>1, <1>5, RemoveEventOK
<1>7. /\ Placed(r.q, early, b) /\ r.cycle = s.cycle
      /\ \A i \in 1 .. Len(r.q) : \E j \in 1 .. Len(s.q) : r.q[i] = s.q[j]
  <2>1. PICK k \in EventTypes : k = "COMPARE_INT"
    BY <1>5
  <2>2. r = RemoveEvent(s, k)
    BY <2>1
  <2>3. QueueOK(s) /\ early \in BOOLEAN /\ b \in Int /\ Placed(s.q, early, b)
    BY <1>1, <1>2, <1>3
  <2> DEFINE u == RemoveEvent(s, k)
  <2>4. /\ Placed(u.q, early, b) /\ u.cycle = s.cycle
        /\ \A i \in 1 .. Len(u.q) : \E j \in 1 .. Len(s.q) : u.q[i] = s.q[j]
    BY ONLY <2>3, RemoveEventPlaced
  <2> HIDE DEF r, u
  <2>5. r = u
    BY <2>2 DEF u
  <2> QED BY <2>4, <2>5
<1>8. Compared(s, value) = t
  BY DEF Compared
<1> HIDE DEF r
<1>9. Len(r.q) < Capacity /\ s.q \in Seq(Nodes) /\ r.q \in Seq(Nodes)
  BY <1>1, <1>6, QueueType, CapacityAssumption
<1>10. ASSUME NEW i \in 1 .. Len(r.q) PROVE 0 - r.cycle <= r.q[i].left
  <2>1. PICK j \in 1 .. Len(s.q) : r.q[i] = s.q[j]
    BY <1>7
  <2>2. Seen(s.q[1], early) <= Seen(s.q[j], early)
    BY <1>2, <1>9, FirstSeen DEF Placed
  <2>3. r.q[i].type # "COMPARE_INT"
    BY <1>6 DEF Occurs
  <2>4. PICK v \in Int : v = Seen(s.q[j], early) /\ v = r.q[i].left
    BY <1>9, <2>1, <2>3, SeenIn
  <2>5. x <= v /\ r.cycle = 0 - x
    BY <1>4, <1>7, <2>2, <2>4
  <2> QED BY <2>4, <2>5
<1>11. 0 - r.cycle >= Floor /\ Ordered(r.q, early)
  BY <1>3, <1>4, <1>7, BriefType DEF Placed
<1>12. m \in SUBSET IPs
  BY <1>6 DEF QueueOK, States
<1> HIDE DEF m
<1>13. /\ w \in States /\ w.q = r.q /\ w.count = r.count /\ w.compare = value
       /\ w.cycle = r.cycle /\ w.skip = r.skip /\ w.resetJob = r.resetJob /\ w.vi = r.vi
  BY <1>6, <1>12 DEF QueueOK, States
<1> HIDE DEF w
<1>14. QueueOK(w)
  <2>1. Armed(w)
    <3>1. ASSUME NEW i \in 1 .. Len(r.q) PROVE Timely(r.q[i].type, r.q[i].count, value)
      <4>1. Timely(r.q[i].type, r.q[i].count, r.compare) /\ r.q[i].type # "COMPARE_INT"
        BY <1>6 DEF QueueOK, Armed, Occurs
      <4> QED BY <4>1 DEF Timely
    <3> QED BY <1>13, <3>1 DEF Armed
  <2> QED BY <1>6, <1>13, <2>1 DEF QueueOK
<1>15. OrderOK(t.q)
  BY <1>6, <1>9, <1>10, <1>11, <1>13, <1>14, AddComparePlaced
<1>16. /\ SameRegisters(t, w)
       /\ \A type : Occurs(t.q, type) <=> (Occurs(w.q, type) \/ type = "COMPARE_INT")
  BY <1>6, <1>9, <1>13, <1>14, AddCompareOK
<1> HIDE DEF t
<1>17. Occurs(t.q, "VI_INT") /\ ~t.skip /\ ~t.resetJob /\ t.vi = ViDelay
  BY <1>6, <1>13, <1>16 DEF SameRegisters, Arranged
<1> QED BY <1>8, <1>15, <1>17 DEF SysOK, Arranged

\* The queue of a state d cycles later.
LEMMA LaterOrder ==
    ASSUME Brief, NEW s, CpuOK(s), Arranged(s), NEW d \in Nat, NEW t, t = Advanced(s, d),
           NEW early \in BOOLEAN, NEW b \in Int, Placed(s.q, early, b),
           NEW c \in Floor .. CountPerOp, c = b - d,
           \A i \in 1 .. Len(s.q) : s.q[i].type = "VI_INT" => s.q[i].left - d >= 0 - ViDelay
    PROVE  Arranged(t) /\ ViInTime(t.q) /\ t.skip = s.skip
<1>1. QueueOK(s) /\ c \in Int /\ c > -Wrap
  BY BriefType DEF CpuOK
<1>2. /\ Len(t.q) = Len(s.q) /\ Placed(t.q, early, c)
      /\ \A i \in 1 .. Len(s.q) : t.q[i].type = s.q[i].type /\ t.q[i].left = s.q[i].left - d
  BY <1>1, AdvancedPlaced
<1>3. SameRegisters(t, s) /\ \A type : Occurs(t.q, type) <=> Occurs(s.q, type)
  BY <1>1, AdvancedOK
<1>4. ViInTime(t.q)
  BY <1>2 DEF ViInTime
<1>5. OrderOK(t.q)
  BY <1>2 DEF OrderOK
<1> QED BY <1>3, <1>4, <1>5 DEF Arranged, SameRegisters

\* An idle loop jumps to the first event, and two instructions further.
LEMMA IdleOrder ==
    ASSUME Setting, CpuOK(r4300), SysOK(r4300), ~r4300.skip, Punctual, NEW h \in Responses
    PROVE  SysOK(GenIfDue(UpdateCount(SkipIdle(Now(0)), 2), FALSE, FALSE, h))
<1> DEFINE s == Now(0)
           t == SkipIdle(s)
           u == UpdateCount(t, 2)
<1>0. Brief /\ 0 \in 0 .. MaxOps /\ ~Resets /\ 2 * CountPerOp <= ViDelay
  BY BlockLength, BoundAssumption DEF Setting
<1>1. PICK early \in BOOLEAN, b \in Int, most \in Nat :
         /\ b <= CountPerOp /\ b - most >= Floor /\ most = MaxOps * CountPerOp
         /\ Placed(s.q, early, b) /\ Len(s.q) = Len(r4300.q)
         /\ \A i \in 1 .. Len(r4300.q) :
               /\ s.q[i].type = r4300.q[i].type
               /\ r4300.q[i].type = "VI_INT"
                     => s.q[i].left - most >= 0 - ViDelay /\ s.q[i].left \in Int
         /\ s.skip = r4300.skip /\ s.resetJob = r4300.resetJob /\ s.vi = r4300.vi
         /\ s.cycle = r4300.cycle
         /\ CpuOK(s) /\ most + CountPerOp < Half
  BY StillPlaced
<1>2. Arranged(s)
  BY <1>0, NowOrder
<1>3. CpuOK(t)
  BY <1>1, SkipIdleCpuOK
<1>4. CpuOK(u)
  BY <1>3, AdvanceOK
<1>a. PICK y \in Nat : y = 2 * CountPerOp
  BY CountPerOpAssumption
<1>5. u = Advanced(t, y)
  BY <1>a DEF UpdateCount, Advanced
<1>6. /\ CountPerOp \in Nat /\ y \in Nat /\ most \in Nat /\ y <= most
      /\ Floor \in Int /\ Floor <= 0 - y /\ ViDelay \in Int /\ y <= ViDelay
  <2>1. /\ MaxOps \in Nat /\ MaxOps >= 2 /\ CountPerOp \in Nat /\ Half \in Nat
        /\ ViDelay \in Int /\ most = MaxOps * CountPerOp /\ most \in Nat
        /\ most + CountPerOp < Half
    BY <1>0, <1>1, BoundAssumption, BriefType, DelayAssumption, HalfType DEF Setting
  <2>2. y <= most
    <3>1. PICK r \in Nat : MaxOps = 2 + r
      BY <2>1
    <3>2. (2 + r) * CountPerOp = 2 * CountPerOp + r * CountPerOp /\ r * CountPerOp \in Nat
      BY <2>1
    <3> QED BY <1>a, <2>1, <3>1, <3>2
  <2>3. Floor \in Int /\ Floor <= 0 - y
    BY <1>a, <2>1, <2>2 DEF Floor
  <2> QED BY <1>0, <1>a, <2>1, <2>2, <2>3
<1>7. ~s.skip /\ QueueOK(s) /\ Synced(s) /\ s \in States /\ s.q \in Seq(Nodes)
      /\ s.cycle \in Int /\ Anchored(s.q)
  BY <1>1, <1>2, QueueType DEF CpuOK, Arranged, Anchored, Occurs
<1> HIDE DEF s, u
<1>8. ASSUME s.cycle >= 0 PROVE Arranged(u) /\ ViInTime(u.q) /\ ~u.skip
  <2>1. t = s
    BY <1>8 DEF SkipIdle
  <2>2. PICK c \in Floor .. CountPerOp : c = b - y
    <3>1. b - y \in Floor .. CountPerOp
      <4>1. b <= CountPerOp /\ b - most >= Floor /\ b \in Int /\ most \in Nat
        BY <1>1
      <4> QED BY ONLY <1>6, <4>1
    <3> QED BY <3>1
  <2>3. ASSUME NEW i \in 1 .. Len(s.q), s.q[i].type = "VI_INT"
        PROVE  s.q[i].left - y >= 0 - ViDelay
    <3>1. PICK v \in Int : v = s.q[i].left /\ v - most >= 0 - ViDelay
      BY <1>1, <2>3
    <3>2. v \in Int /\ most \in Nat /\ v - most >= 0 - ViDelay
      BY <1>1, <3>1
    <3>3. v - y >= 0 - ViDelay
      BY ONLY <1>6, <3>2
    <3> QED BY <3>1, <3>3
  <2>4. Arranged(u) /\ ViInTime(u.q) /\ u.skip = s.skip
    BY <1>0, <1>1, <1>2, <1>5, <1>6, <2>1, <2>2, <2>3, LaterOrder
  <2> QED BY <1>7, <2>4
<1>9. ASSUME s.cycle < 0 PROVE Arranged(u) /\ ViInTime(u.q) /\ ~u.skip
  <2>1. PICK x \in Int : x = Seen(s.q[1], early) /\ s.cycle = 0 - x /\ b <= x
    <3>1. b \in Int /\ Placed(s.q, early, b) /\ early \in BOOLEAN /\ b >= Floor
      <4>1. b - most >= Floor /\ b \in Int /\ most \in Nat
        BY <1>1
      <4>2. b >= Floor
        BY ONLY <1>6, <4>1
      <4> QED BY <1>1, <4>2
    <3> QED BY <1>0, <1>7, <3>1, CycleSeen
  <2>2. x \in Nat /\ x > 0
    BY <1>9, <2>1
  <2>3. Placed(s.q, early, x)
    BY <1>1, <1>7, <2>1, Tighten
  <2>4. t = Advanced(s, x)
    <3>1. x = 0 - s.cycle
      BY <1>7, <2>1
    <3> QED BY <1>7, <1>9, <2>2, <3>1, SkipIdleAdvances
  <2> HIDE DEF t
  <2>5. PICK z \in Int : z = 0
    OBVIOUS
  <2>6. z = x - x /\ z \in Floor .. CountPerOp /\ z > -Wrap
    BY <1>6, <2>1, <2>5, WrapAssumption
  <2>7. /\ Len(t.q) = Len(s.q) /\ Placed(t.q, early, z)
        /\ \A i \in 1 .. Len(s.q) : t.q[i].type = s.q[i].type /\ t.q[i].left = s.q[i].left - x
    BY <1>7, <2>2, <2>3, <2>4, <2>6, AdvancedPlaced
  <2>8. ASSUME NEW i \in 1 .. Len(s.q), s.q[i].type = "VI_INT"
        PROVE  \E v \in Int : v = s.q[i].left /\ x <= v
    <3>1. Seen(s.q[i], early) = s.q[i].left /\ s.q[i].left \in Int
      BY <1>7, <2>8, SeenIn
    <3>2. x <= Seen(s.q[i], early)
      BY <1>7, <2>1, <2>3, FirstSeen DEF Placed
    <3> QED BY <3>1, <3>2
  <2>9. Arranged(t) /\ t.skip = s.skip
    <3>1. ASSUME NEW i \in 1 .. Len(s.q), s.q[i].type = "VI_INT"
          PROVE  s.q[i].left - x >= 0 - ViDelay
      <4>1. PICK v \in Int : v = s.q[i].left /\ x <= v
        BY <2>8, <3>1
      <4>2. v - x >= 0 - ViDelay
        BY ONLY <1>6, <2>1, <4>1
      <4> QED BY <4>1, <4>2
    <3> QED BY <1>0, <1>1, <1>2, <2>2, <2>3, <2>4, <2>6, <3>1, LaterOrder
  <2>10. ASSUME NEW i \in 1 .. Len(t.q), t.q[i].type = "VI_INT"
         PROVE  t.q[i].left - y >= 0 - ViDelay
    <3>1. i \in 1 .. Len(s.q) /\ s.q[i].type = "VI_INT"
      BY <2>7, <2>10
    <3>2. PICK v \in Int : v = s.q[i].left /\ x <= v
      BY <2>8, <3>1
    <3>3. t.q[i].left = v - x
      BY <2>7, <3>1, <3>2
    <3>4. v \in Int /\ x \in Int /\ x <= v /\ y \in Nat /\ ViDelay \in Int
          /\ y <= ViDelay
      BY <1>6, <3>2
    <3>5. (v - x) - y >= 0 - ViDelay
      BY ONLY <3>4
    <3> QED BY ONLY <3>3, <3>5
  <2>11. PICK c \in Floor .. CountPerOp : c = z - y
    <3>1. z - y \in Floor .. CountPerOp
      BY <1>6, <2>5
    <3> QED BY <3>1
  <2>12. Arranged(u) /\ ViInTime(u.q) /\ u.skip = t.skip
    BY <1>0, <1>3, <1>5, <1>6, <2>7, <2>9, <2>10, <2>11, LaterOrder
  <2> QED BY <1>7, <2>9, <2>12
<1>10. s.cycle >= 0 \/ s.cycle < 0
  BY <1>7
<1>11. Arranged(u) /\ ViInTime(u.q) /\ ~u.skip /\ FALSE \in BOOLEAN
  BY <1>8, <1>9, <1>10
<1>12. SysOK(GenIfDue(u, FALSE, FALSE, h))
  BY <1>0, <1>4, <1>11, GenIfDueOrder
<1> QED BY <1>12 DEF u, s

\* The timer is less than a lap behind every CHECK_INT: a game that has set Compare does
\* not leave an interrupt unmasked in the instruction that starts the lap.
Calm ==
    \A i, j \in 1 .. Len(r4300.q) :
        r4300.q[i].type = "CHECK_INT" /\ r4300.q[j].type = "COMPARE_INT"
            => r4300.q[j].left - r4300.q[i].left < Wrap

\* A CHECK_INT, due now, before events that are not due.
LEMMA FrontPlaced ==
    ASSUME Brief, NEW q \in Seq(Nodes), NEW early \in BOOLEAN, NEW x \in Int, x >= 0,
           Placed(q, early, x), Near(q), NEW u \in Seq(Nodes), Len(u) = Len(q) + 1,
           u[1].type = "CHECK_INT", u[1].left = 0,
           \A i \in 1 .. Len(q) : u[i + 1] = q[i],
           \A i \in 1 .. Len(q) : q[i].type = "COMPARE_INT" => q[i].left < Wrap
    PROVE  OrderOK(u)
<1>0. /\ Half \in Nat /\ Half >= 2 /\ Wrap = 2 * Half /\ CountPerOp \in Nat
      /\ Len(q) \in Nat /\ Floor \in Int /\ Floor <= 0
  BY BriefType
<1>1. ASSUME NEW i \in 1 .. Len(u)
      PROVE  \/ i = 1 /\ Seen(u[i], early) = 0 /\ u[i].left = 0
             \/ i - 1 \in 1 .. Len(q) /\ u[i] = q[i - 1]
  <2>1. CASE i = 1
    BY <2>1 DEF Seen
  <2>2. CASE i # 1
    <3>1. i - 1 \in 1 .. Len(q) /\ (i - 1) + 1 = i
      BY <1>0, <2>2
    <3> QED BY <3>1
  <2> QED BY <2>1, <2>2
<1>2. ASSUME NEW i \in 1 .. Len(q)
      PROVE  /\ Seen(q[i], early) \in Int /\ 0 <= Seen(q[i], early)
             /\ Seen(q[i], early) <= Wrap - 1 /\ q[i].left <= Wrap - 1 + CountPerOp
  <2>1. /\ Seen(q[i], early) \in Int /\ q[i].left \in Int
        /\ Seen(q[i], early) <= q[i].left
    BY SeenIn
  <2>2. x <= Seen(q[i], early) /\ q[i].left <= Wrap - 1 + CountPerOp
    BY DEF Placed, Within, Capped
  <2>3. q[i].left <= Wrap - 1
    <3>1. CASE q[i].type = "COMPARE_INT"
      BY <1>0, <2>1, <3>1
    <3>2. CASE q[i].type # "COMPARE_INT"
      <4>1. q[i].left <= Half
        BY <3>2 DEF Near
      <4> QED BY <1>0, <2>1, <4>1
    <3> QED BY <3>1, <3>2
  <2> QED BY <1>0, <2>1, <2>2, <2>3
<1>3. Ordered(u, early)
  <2> SUFFICES ASSUME NEW i \in 1 .. Len(u), NEW j \in 1 .. Len(u), i < j
               PROVE  Seen(u[i], early) <= Seen(u[j], early)
    BY DEF Ordered
  <2>1. j - 1 \in 1 .. Len(q) /\ u[j] = q[j - 1]
    BY <1>1
  <2>2. CASE i = 1
    BY <1>1, <1>2, <2>1, <2>2
  <2>3. CASE i # 1
    <3>1. i - 1 \in 1 .. Len(q) /\ u[i] = q[i - 1] /\ i - 1 < j - 1
      BY <1>1, <2>3
    <3> QED BY <2>1, <3>1 DEF Placed, Ordered
  <2> QED BY <2>2, <2>3
<1>4. PICK z \in Floor .. CountPerOp : z = 0
  BY <1>0
<1>5. Within(u, early, z) /\ Capped(u)
  <2> SUFFICES ASSUME NEW i \in 1 .. Len(u)
               PROVE  /\ 0 <= Seen(u[i], early) /\ Seen(u[i], early) <= 0 + Wrap - 1
                      /\ u[i].left <= Wrap - 1 + CountPerOp
    BY <1>4 DEF Within, Capped
  <2>1. CASE i = 1
    BY <1>0, <1>1, <2>1
  <2>2. CASE i # 1
    <3>1. i - 1 \in 1 .. Len(q) /\ u[i] = q[i - 1]
      BY <1>1, <2>2
    <3> QED BY <1>0, <1>2, <3>1
  <2> QED BY <2>1, <2>2
<1> QED BY <1>3, <1>4, <1>5 DEF OrderOK, Placed

\* An RCP interrupt that is signalled or cleared while no event is due.
LEMMA SignalOrder ==
    ASSUME Setting, CpuOK(r4300), SysOK(r4300), ~r4300.skip, r4300.cycle < 0, Punctual,
           NEW some \in BOOLEAN, NEW t,
           t = CheckInterrupt([Now(0) EXCEPT !.rcp = some], "IP2", some),
           \A i, j \in 1 .. Len(t.q) :
               t.q[i].type = "CHECK_INT" /\ t.q[j].type = "COMPARE_INT"
                   => t.q[j].left - t.q[i].left < Wrap
    PROVE  SysOK(t)
<1> DEFINE s == [Now(0) EXCEPT !.rcp = some]
<1>0. Brief /\ 0 \in 0 .. MaxOps /\ "IP2" \in IPs
  BY BlockLength, BoundAssumption DEF IPs
<1>1. Arranged(Now(0)) /\ CpuOK(Now(0)) /\ Now(0).skip = r4300.skip
  BY <1>0, NowOrder
<1>c. Now(0).cycle = r4300.cycle
  BY StillPlaced
<1>2. /\ s \in States /\ s.q = Now(0).q /\ s.skip = Now(0).skip
      /\ s.resetJob = Now(0).resetJob /\ s.vi = Now(0).vi /\ s.cycle = Now(0).cycle
  BY <1>1 DEF CpuOK, QueueOK, States
<1>3. t = CheckInterrupt(s, "IP2", some)
  OBVIOUS
<1> HIDE DEF s
<1>4. /\ t.skip = s.skip /\ t.resetJob = s.resetJob /\ t.vi = s.vi
      /\ (t.q = s.q /\ t.cycle = s.cycle) \/ Fronted(t, s)
  BY <1>0, <1>2, <1>3, CheckCases
<1>5. ~t.skip /\ ~t.resetJob /\ t.vi = ViDelay
  BY <1>1, <1>2, <1>4 DEF Arranged
<1>6. CASE t.q = s.q
  BY <1>1, <1>2, <1>5, <1>6 DEF SysOK, Arranged
<1>7. CASE Fronted(t, s)
  <2>1. QueueOK(Now(0)) /\ Synced(Now(0)) /\ Anchored(Now(0).q) /\ Near(Now(0).q)
        /\ Now(0).q \in Seq(Nodes) /\ Len(Now(0).q) \in Nat
    BY <1>1, QueueType DEF CpuOK, Arranged, Anchored, Occurs
  <2>2. PICK early \in BOOLEAN, b \in Floor .. CountPerOp : Placed(Now(0).q, early, b)
    BY <1>1 DEF Arranged, OrderOK
  <2>3. b \in Int /\ b >= Floor
    BY <1>0, BriefType
  <2>4. PICK x \in Int : x = Seen(Now(0).q[1], early) /\ Now(0).cycle = 0 - x /\ b <= x
    BY <1>0, <2>1, <2>2, <2>3, CycleSeen
  <2>5. x >= 0
    BY <1>c, <2>4
  <2>6. Placed(Now(0).q, early, x)
    BY <2>1, <2>2, <2>3, <2>4, Tighten
  <2>7. /\ t.q \in Seq(Nodes) /\ Len(t.q) = Len(Now(0).q) + 1
        /\ t.q[1].type = "CHECK_INT" /\ t.q[1].left = 0
        /\ \A i \in 1 .. Len(Now(0).q) : t.q[i + 1] = Now(0).q[i]
    BY <1>2, <1>7 DEF Fronted
  <2>8. ASSUME NEW i \in 1 .. Len(Now(0).q), Now(0).q[i].type = "COMPARE_INT"
        PROVE  Now(0).q[i].left < Wrap
    <3>1. 1 \in 1 .. Len(t.q) /\ i + 1 \in 1 .. Len(t.q)
      BY <2>1, <2>7
    <3>2. t.q[i + 1].left - t.q[1].left < Wrap
      BY <2>7, <2>8, <3>1
    <3>3. PICK v \in Int : v = Now(0).q[i].left
      BY <2>1, <2>2, SeenIn
    <3>4. v = t.q[i + 1].left /\ t.q[1].left = 0
      BY <2>7, <3>3
    <3>5. v - 0 < Wrap
      BY <3>2, <3>4
    <3>6. v < Wrap
      BY <3>5, WrapAssumption
    <3> QED BY <3>3, <3>6
  <2>9. OrderOK(t.q)
    BY <1>0, <2>1, <2>5, <2>6, <2>7, <2>8, FrontPlaced
  <2>10. Occurs(t.q, "VI_INT")
    <3>1. PICK i \in 1 .. Len(Now(0).q) : Now(0).q[i].type = "VI_INT"
      BY <1>1 DEF Arranged, Occurs
    <3>2. t.q[i + 1] = Now(0).q[i]
      BY <2>7, <3>1
    <3>3. Len(t.q) = Len(Now(0).q) + 1 /\ Len(Now(0).q) \in Nat
      BY <2>1, <2>7
    <3>4. i + 1 \in 1 .. Len(t.q)
      BY <3>1, <3>3
    <3> QED BY <3>1, <3>2, <3>4 DEF Occurs
  <2> QED BY <1>5, <2>9, <2>10 DEF SysOK, Arranged
<1> QED BY <1>4, <1>6, <1>7

\* MTC0 Count: the timers are armed from a cycle_count that remove_event left as it was.
LEMMA TranslateOrder ==
    ASSUME Brief, NEW s, CpuOK(s), ~s.skip, Arranged(s), NEW base \in 0 .. Wrap - 1
    PROVE  SysOK(TranslateEventQueue(s, base))
<1> DEFINE a == RemoveEvent(s, "COMPARE_INT")
           k == Untimed(s)
           t == TranslateEventQueue(s, base)
<1>1. QueueOK(s) /\ Timers(s.q) /\ Synced(s) /\ Anchored(s.q) /\ s.q \in Seq(Nodes)
  BY QueueType DEF CpuOK, Arranged, Anchored, Occurs
<1>2. PICK early \in BOOLEAN, b \in Floor .. CountPerOp : Placed(s.q, early, b)
  BY DEF Arranged, OrderOK
<1>3. b \in Int /\ Floor <= b
  BY BriefType
<1>4. PICK x \in Int : x = Seen(s.q[1], early) /\ s.cycle = 0 - x /\ b <= x
  BY <1>1, <1>2, <1>3, CycleSeen
<1>5. PICK c : t = AddCompare(AddSpecial(c), s.compare) /\ MovedBy(c, s, base)
  BY <1>1, MovedOK
<1>6. PICK one \in EventTypes \ {"CHECK_INT"}, two \in EventTypes :
         one = "COMPARE_INT" /\ two = "SPECIAL_INT"
  BY DEF EventTypes
<1>7. QueueOK(a)
  BY <1>1, <1>6, RemoveEventOK
<1>8. /\ Placed(a.q, early, b) /\ a.cycle = s.cycle
      /\ \A i \in 1 .. Len(a.q) : \E j \in 1 .. Len(s.q) : a.q[i] = s.q[j]
  <2> DEFINE w == RemoveEvent(s, one)
  <2>1. /\ Placed(w.q, early, b) /\ w.cycle = s.cycle
        /\ \A i \in 1 .. Len(w.q) : \E j \in 1 .. Len(s.q) : w.q[i] = s.q[j]
    BY <1>1, <1>2, <1>3, RemoveEventPlaced
  <2>2. a = w
    BY <1>6
  <2> HIDE DEF a, w
  <2> QED BY <2>1, <2>2
<1>9. /\ Placed(k.q, early, b) /\ k.cycle = a.cycle
      /\ \A i \in 1 .. Len(k.q) : \E j \in 1 .. Len(a.q) : k.q[i] = a.q[j]
  <2> DEFINE w == RemoveEvent(a, two)
  <2> HIDE DEF a
  <2>1. /\ Placed(w.q, early, b) /\ w.cycle = a.cycle
        /\ \A i \in 1 .. Len(w.q) : \E j \in 1 .. Len(a.q) : w.q[i] = a.q[j]
    BY <1>7, <1>3, <1>8, RemoveEventPlaced
  <2>2. k = w
    BY <1>6 DEF Untimed, a
  <2> HIDE DEF k, w
  <2> QED BY ONLY <2>1, <2>2
<1> HIDE DEF a, t
<1>10. ASSUME NEW i \in 1 .. Len(k.q) PROVE \E j \in 1 .. Len(s.q) : k.q[i] = s.q[j]
  <2>1. PICK j \in 1 .. Len(a.q) : k.q[i] = a.q[j]
    BY <1>9
  <2>2. PICK l \in 1 .. Len(s.q) : a.q[j] = s.q[l]
    BY <1>8
  <2>3. k.q[i] = s.q[l]
    BY ONLY <2>1, <2>2
  <2> QED BY <2>3
<1>11. /\ QueueOK(c) /\ SameRegisters(c, s) /\ c.cycle = k.cycle
       /\ k.q \in Seq(Nodes) /\ Len(c.q) = Len(k.q) /\ Len(c.q) = Len(s.q) - 2
       /\ \A i \in 1 .. Len(c.q) : c.q[i].type = k.q[i].type /\ c.q[i].left = k.q[i].left
       /\ ~Occurs(c.q, "COMPARE_INT") /\ ~Occurs(c.q, "SPECIAL_INT")
       /\ \A type : type # "COMPARE_INT" /\ type # "SPECIAL_INT"
                       => (Occurs(c.q, type) <=> Occurs(s.q, type))
  BY <1>5 DEF MovedBy
<1> HIDE DEF k
<1>12. c.cycle = 0 - x /\ c \in States /\ c.q \in Seq(Nodes) /\ Near(c.q)
  BY <1>4, <1>8, <1>9, <1>11, QueueType
<1>13. ASSUME NEW i \in 1 .. Len(c.q) PROVE x <= c.q[i].left
  <2>1. PICK j \in 1 .. Len(s.q) : k.q[i] = s.q[j]
    BY <1>10, <1>11
  <2>2. Seen(s.q[1], early) <= Seen(s.q[j], early)
    BY <1>1, <1>2, FirstSeen DEF Placed
  <2>3. c.q[i].type # "COMPARE_INT"
    BY <1>11 DEF Occurs
  <2>4. s.q[j].type # "COMPARE_INT" /\ c.q[i].left = s.q[j].left
    BY <1>11, <2>1, <2>3
  <2>5. Seen(s.q[j], early) = s.q[j].left
    BY <1>1, <2>4, SeenIn
  <2> QED BY <1>4, <2>2, <2>4, <2>5
<1>14. PICK z \in Int : /\ z = Start(c) /\ z <= 0 /\ z > 0 - Half /\ z >= Floor /\ z <= x
  <2>1. Start(c) \in Int /\ Start(c) <= 0 /\ Start(c) > 0 - Half
    BY <1>12, StartType
  <2>2. Start(c) = IF 0 - x > 0 THEN 0 - (0 - x) ELSE 0
    BY <1>12 DEF Start
  <2>3. Floor \in Int /\ Floor <= 0
    BY BriefType
  <2>4. Start(c) >= Floor /\ Start(c) <= x
    BY <1>3, <1>4, <2>2, <2>3
  <2> QED BY <2>1, <2>4
<1>15. Placed(c.q, early, z)
  <2>1. \A i \in 1 .. Len(c.q) : z <= c.q[i].left
    <3> SUFFICES ASSUME NEW i \in 1 .. Len(c.q) PROVE z <= c.q[i].left
      OBVIOUS
    <3>1. PICK v \in Int : v = c.q[i].left
      BY <1>12, <1>2, SeenIn
    <3>2. z <= x /\ x <= v
      BY <1>13, <1>14, <3>1
    <3>3. z <= v
      BY <3>2
    <3> QED BY <3>1, <3>3
  <2>2. Ordered(c.q, early)
    <3>1. \A i \in 1 .. Len(c.q) : Seen(c.q[i], early) = Seen(k.q[i], early)
      BY <1>11 DEF Seen
    <3> QED BY <1>9, <1>11, <3>1 DEF Placed, Ordered
  <2> QED BY <1>2, <1>11, <1>12, <1>14, <2>1, <2>2, NearPlaced
<1> DEFINE d == AddSpecial(c)
<1>16. Placed(d.q, early, z)
  <2>1. Placed(c.q, early, Start(c))
    BY <1>14, <1>15
  <2>2. Placed(d.q, early, Start(c))
    BY <1>11, <2>1, AddSpecialPlaced
  <2> HIDE DEF d
  <2> QED BY <1>14, <2>2
<1>17. Len(s.q) \in Nat /\ Len(s.q) <= Capacity /\ Capacity \in Nat
  BY <1>1, QueueType, CapacityAssumption
<1>18. /\ QueueOK(d) /\ SameRegisters(d, c) /\ Synced(d) /\ Len(d.q) = Len(c.q) + 1
       /\ \A type : Occurs(d.q, type) <=> (Occurs(c.q, type) \/ type = "SPECIAL_INT")
  <2>1. Len(c.q) < Capacity
    BY <1>11, <1>17
  <2> QED BY <1>11, <2>1, AddSpecialOK
<1> HIDE DEF d
<1>19. Len(d.q) < Capacity /\ ~Occurs(d.q, "COMPARE_INT") /\ Anchored(d.q)
  <2>1. Len(d.q) < Capacity
    BY <1>11, <1>17, <1>18
  <2>2. ~Occurs(d.q, "COMPARE_INT") /\ Occurs(d.q, "SPECIAL_INT")
    BY <1>11, <1>18
  <2> QED BY <2>1, <2>2 DEF Anchored, Occurs
<1>20. s.compare \in 0 .. Wrap - 1
  BY <1>1 DEF QueueOK, States
<1>21. OrderOK(AddCompare(d, s.compare).q)
  BY <1>14, <1>16, <1>18, <1>19, <1>20, TimerArmed
<1>22. OrderOK(t.q)
  BY <1>5, <1>21 DEF d
<1>23. SameRegisters(t, s) /\ \A type : Occurs(s.q, type) => Occurs(t.q, type)
  BY <1>1, TranslateOK DEF t
<1>24. SysOK(t)
  BY <1>22, <1>23 DEF SysOK, Arranged, SameRegisters
<1> QED BY <1>24 DEF t

-----------------------------------------------------------------------------
(* load_eventqueue_infos.                                                   *)

\* A new node leaves the order of the others.
LEMMA InsertedKeeps ==
    ASSUME NEW q \in Seq(Nodes), NEW e, NEW p, NEW u, InsertedAt(u, q, e, p)
    PROVE  /\ u[p] = e /\ p \in 1 .. Len(u)
           /\ \A k \in 1 .. Len(q) : \E i \in 1 .. Len(u) : u[i] = q[k]
           /\ \A k \in 1 .. Len(q) : k < p => Precedes(u, q[k], e)
           /\ \A f, g : Precedes(q, f, g) => Precedes(u, f, g)
<1> DEFINE new(k) == IF k < p THEN k ELSE k + 1
<1>1. /\ Len(q) \in Nat /\ Len(u) = Len(q) + 1 /\ p \in 1 .. Len(u) /\ u \in Seq(Nodes)
      /\ \A i \in 1 .. Len(u) :
            u[i] = IF i < p THEN q[i] ELSE IF i = p THEN e ELSE q[i - 1]
  BY DEF InsertedAt
<1>2. u[p] = e
  BY <1>1
<1>3. ASSUME NEW k \in 1 .. Len(q)
      PROVE  new(k) \in 1 .. Len(u) /\ u[new(k)] = q[k] /\ (k < p => new(k) < p)
  <2>1. CASE k < p
    BY <1>1, <2>1
  <2>2. CASE ~(k < p)
    <3>1. new(k) = k + 1 /\ k + 1 \in 1 .. Len(u) /\ ~(k + 1 < p) /\ k + 1 # p
          /\ (k + 1) - 1 = k
      BY <1>1, <2>2
    <3>2. u[k + 1] = q[(k + 1) - 1]
      BY <1>1, <3>1
    <3> QED BY <2>2, <3>1, <3>2
  <2> QED BY <2>1, <2>2
<1>4. ASSUME NEW k \in 1 .. Len(q), NEW l \in 1 .. Len(q), k < l PROVE new(k) < new(l)
  BY <1>1, <1>4
<1> HIDE DEF new
<1>5. ASSUME NEW k \in 1 .. Len(q), k < p PROVE Precedes(u, q[k], e)
  BY <1>1, <1>2, <1>3, <1>5 DEF Precedes
<1>6. ASSUME NEW f, NEW g, Precedes(q, f, g) PROVE Precedes(u, f, g)
  <2>1. PICK k \in 1 .. Len(q), l \in 1 .. Len(q) : k < l /\ q[k] = f /\ q[l] = g
    BY <1>6 DEF Precedes
  <2>2. new(k) < new(l) /\ new(k) \in 1 .. Len(u) /\ new(l) \in 1 .. Len(u)
        /\ u[new(k)] = f /\ u[new(l)] = g
    BY <1>3, <1>4, <2>1
  <2> QED BY <2>2 DEF Precedes
<1> QED BY <1>1, <1>2, <1>3, <1>5, <1>6

\* Taking a node out leaves the order of the others.
LEMMA RemovedKeeps ==
    ASSUME NEW q \in Seq(Nodes), NEW p \in 1 .. Len(q), NEW u, Removed(u, q, p)
    PROVE  /\ \A k \in 1 .. Len(q) : k # p => \E i \in 1 .. Len(u) : u[i] = q[k]
           /\ \A f, g : Precedes(q, f, g) /\ f.type # q[p].type /\ g.type # q[p].type
                           => Precedes(u, f, g)
<1> DEFINE new(k) == IF k < p THEN k ELSE k - 1
<1>1. /\ Len(q) \in Nat /\ Len(u) = Len(q) - 1 /\ u \in Seq(Nodes)
      /\ \A i \in 1 .. Len(u) : u[i] = IF i < p THEN q[i] ELSE q[i + 1]
  BY DEF Removed
<1>2. ASSUME NEW k \in 1 .. Len(q), k # p PROVE new(k) \in 1 .. Len(u) /\ u[new(k)] = q[k]
  <2>1. CASE k < p
    BY <1>1, <2>1
  <2>2. CASE ~(k < p)
    <3>1. new(k) = k - 1 /\ k - 1 \in 1 .. Len(u) /\ ~(k - 1 < p) /\ (k - 1) + 1 = k
      BY <1>1, <1>2, <2>2
    <3>2. u[k - 1] = q[(k - 1) + 1]
      BY <1>1, <3>1
    <3> QED BY <3>1, <3>2
  <2> QED BY <2>1, <2>2
<1>3. ASSUME NEW k \in 1 .. Len(q), NEW l \in 1 .. Len(q), k < l, k # p, l # p
      PROVE  new(k) < new(l)
  BY <1>1, <1>3
<1> HIDE DEF new
<1>4. ASSUME NEW f, NEW g, Precedes(q, f, g), f.type # q[p].type, g.type # q[p].type
      PROVE  Precedes(u, f, g)
  <2>1. PICK k \in 1 .. Len(q), l \in 1 .. Len(q) : k < l /\ q[k] = f /\ q[l] = g
    BY <1>4 DEF Precedes
  <2>2. k # p /\ l # p
    BY <1>4, <2>1
  <2>3. new(k) < new(l) /\ new(k) \in 1 .. Len(u) /\ new(l) \in 1 .. Len(u)
        /\ u[new(k)] = f /\ u[new(l)] = g
    BY <1>2, <1>3, <2>1, <2>2
  <2> QED BY <2>3 DEF Precedes
<1> QED BY <1>2, <1>4

\* The lap in which the load sees the saved events: it starts at the first event if that
\* is overdue, else at Count, from where the timer may be seen a lap early.
LoadLap(s, late, z) ==
    /\ z \in Int /\ z = Start(s) /\ Floor <= z /\ z <= 0
    /\ Within(s.q, late, z) /\ Capped(s.q)
    /\ Seen(s.q[1], late) <= Half
    /\ z < 0 => Seen(s.q[1], late) = z

\* There is such a lap.
LEMMA LoadWindow ==
    ASSUME Brief, NEW s, CpuOK(s), ~s.skip, Arranged(s)
    PROVE  \E early \in BOOLEAN, late \in BOOLEAN : \E z \in Int :
              Ordered(s.q, early) /\ LoadLap(s, late, z)
<1> DEFINE q == s.q
<1>0. /\ Half \in Nat /\ Half >= 2 /\ Wrap = 2 * Half /\ CountPerOp \in Nat
      /\ Floor \in Int /\ Floor <= 0 /\ 2 * CountPerOp < Half
  BY BriefType
<1>1. QueueOK(s) /\ Timers(q) /\ Synced(s) /\ Anchored(q) /\ q \in Seq(Nodes) /\ Near(q)
      /\ Len(q) \in Nat /\ Singles(q) /\ q # <<>>
  BY QueueType DEF CpuOK, Arranged, Anchored, Occurs, Synced
<1>2. PICK early \in BOOLEAN, b \in Floor .. CountPerOp : Placed(q, early, b)
  BY DEF Arranged, OrderOK
<1>3. b \in Int /\ Floor <= b /\ b <= CountPerOp
  BY <1>0
<1>4. PICK x \in Int : x = Seen(q[1], early) /\ s.cycle = 0 - x /\ b <= x /\ x <= Half
  BY <1>1, <1>2, <1>3, CycleSeen
<1>5. PICK z \in Int : z = IF x < 0 THEN x ELSE 0
  OBVIOUS
<1>6. z = Start(s) /\ Floor <= z /\ z <= 0 /\ z <= x
  <2>1. Start(s) = IF 0 - x > 0 THEN 0 - (0 - x) ELSE 0
    BY <1>4 DEF Start
  <2>2. z = Start(s)
    BY <1>5, <2>1
  <2> QED BY <1>0, <1>3, <1>4, <1>5, <2>2
<1>o. 1 \in 1 .. Len(q) /\ Ordered(q, early) /\ Capped(q)
  BY <1>1, <1>2 DEF Placed
<1> HIDE DEF q
<1>7. CASE b <= 0
  <2>1. b <= z
    BY <1>4, <1>5, <1>7
  <2>2. Placed(q, early, z)
    BY <1>1, <1>2, <1>3, <1>4, <1>6, <2>1, Tighten
  <2>3. LoadLap(s, early, z)
    BY <1>4, <1>5, <1>6, <1>o, <2>2 DEF LoadLap, Placed, q
  <2> QED BY <1>o, <2>3 DEF q
<1>8. CASE b > 0 /\ ~\E i \in 1 .. Len(q) : Seen(q[i], early) >= Wrap
  <2>1. z = 0
    BY <1>3, <1>4, <1>5, <1>8
  <2>2. Within(q, early, z)
    <3> SUFFICES ASSUME NEW i \in 1 .. Len(q)
                 PROVE  z <= Seen(q[i], early) /\ Seen(q[i], early) <= z + Wrap - 1
      BY DEF Within
    <3>1. Seen(q[i], early) \in Int
      BY <1>1, SeenIn
    <3>2. b <= Seen(q[i], early) /\ ~(Seen(q[i], early) >= Wrap)
      BY <1>2, <1>8 DEF Placed, Within
    <3> QED BY <1>0, <1>3, <1>8, <2>1, <3>1, <3>2
  <2>3. LoadLap(s, early, z)
    BY <1>4, <1>6, <1>o, <2>1, <2>2 DEF LoadLap, q
  <2> QED BY <1>o, <2>3 DEF q
<1>9. CASE b > 0 /\ \E i \in 1 .. Len(q) : Seen(q[i], early) >= Wrap
  <2>1. z = 0
    BY <1>3, <1>4, <1>5, <1>9
  <2>2. PICK i \in 1 .. Len(q) : Seen(q[i], early) >= Wrap
    BY <1>9
  <2>3. /\ Seen(q[i], early) \in Int /\ q[i].left \in Int /\ Seen(q[i], early) <= q[i].left
        /\ q[i].left <= Wrap - 1 + CountPerOp
    BY <1>1, <1>o, SeenIn DEF Capped
  <2>4. q[i].type = "COMPARE_INT"
    <3>1. ASSUME q[i].type # "COMPARE_INT" PROVE FALSE
      <4>1. q[i].left <= Half
        BY <1>1, <3>1 DEF Near
      <4> QED BY <1>0, <2>2, <2>3, <4>1
    <3> QED BY <3>1
  <2>5. ~early
    <3>1. ASSUME early PROVE FALSE
      <4>1. Seen(q[i], early) = q[i].left - Wrap
        BY <2>4, <3>1 DEF Seen
      <4> QED BY <1>0, <2>2, <2>3, <4>1
    <3> QED BY <3>1
  <2>6. PICK late \in BOOLEAN : late = TRUE
    OBVIOUS
  <2>7. ASSUME NEW j \in 1 .. Len(q)
        PROVE  /\ Seen(q[j], late) \in Int /\ 0 <= Seen(q[j], late)
               /\ Seen(q[j], late) <= Wrap - 1 /\ Seen(q[j], late) <= Seen(q[j], early)
    <3>1. /\ Seen(q[j], early) \in Int /\ q[j].left \in Int /\ Seen(q[j], late) \in Int
          /\ Seen(q[j], early) = q[j].left /\ Seen(q[j], late) <= q[j].left
      BY <1>1, <2>5, SeenIn DEF Seen
    <3>2. b <= Seen(q[j], early)
      BY <1>2 DEF Placed, Within
    <3>3. CASE q[j].type # "COMPARE_INT"
      <4>1. Seen(q[j], late) = q[j].left /\ q[j].left <= Half
        BY <1>1, <3>3, SeenIn DEF Near
      <4> QED BY <1>0, <1>3, <1>9, <3>1, <3>2, <4>1
    <3>4. CASE q[j].type = "COMPARE_INT"
      <4>1. "COMPARE_INT" \in EventTypes \ {"CHECK_INT"}
        BY DEF EventTypes
      <4>2. j = i
        BY <1>1, <2>4, <3>4, <4>1 DEF Singles, Once
      <4>3. Seen(q[j], late) = q[j].left - Wrap
        BY <2>6, <3>4 DEF Seen
      <4>4. q[j].left >= Wrap /\ q[j].left <= Wrap - 1 + CountPerOp
        BY <2>2, <2>3, <3>1, <4>2
      <4>5. PICK l \in Int : l = q[j].left
        BY <3>1
      <4>6. /\ Seen(q[j], late) = l - Wrap /\ Seen(q[j], early) = l
            /\ l >= Wrap /\ l <= Wrap - 1 + CountPerOp
        BY <3>1, <4>3, <4>4, <4>5
      <4> QED BY ONLY <1>0, <4>5, <4>6
    <3> QED BY <3>3, <3>4
  <2>8. Within(q, late, z)
    BY <1>0, <2>1, <2>7 DEF Within
  <2>9. Seen(q[1], late) <= Half
    BY <1>0, <1>4, <1>o, <2>7
  <2>10. LoadLap(s, late, z)
    BY <1>6, <1>o, <2>1, <2>8, <2>9 DEF LoadLap, q
  <2> QED BY <1>o, <2>10 DEF q
<1>10. b <= 0 \/ b > 0
  BY <1>3
<1> QED BY <1>7, <1>8, <1>9, <1>10

\* What the first n turns of the loop have done to the order.
LoadOrdered(s, y, n, late, z) ==
    /\ Placed(y.q, late, z) /\ Start(y) = z
    /\ \A i \in 1 .. n : \E k \in 1 .. Len(y.q) : y.q[k] = s.q[i]
    /\ \A i, j \in 1 .. n :
          i < j /\ s.q[i].type # "COMPARE_INT" /\ s.q[j].type # "COMPARE_INT"
              => Precedes(y.q, s.q[i], s.q[j])

\* cycle_count measures from the same event after every turn but the first.
LEMMA LoadStart ==
    ASSUME Brief, NEW s, QueueOK(s), s.q # <<>>, NEW late \in BOOLEAN, NEW z \in Int,
           LoadLap(s, late, z), NEW y, QueueOK(y), Synced(y), Placed(y.q, late, z),
           NEW k \in 1 .. Len(y.q), y.q[k] = s.q[1]
    PROVE  Start(y) = z
<1>1. z \in Int /\ Floor <= z /\ z <= 0 /\ Seen(s.q[1], late) <= Half
      /\ (z < 0 => Seen(s.q[1], late) = z)
  BY DEF LoadLap
<1>2. y.q \in Seq(Nodes)
  BY QueueType
<1>3. \E i \in 1 .. Len(y.q) : Seen(y.q[i], late) <= Half
  BY <1>1
<1>4. PICK x \in Int : x = Seen(y.q[1], late) /\ y.cycle = 0 - x /\ z <= x
  BY <1>1, <1>3, CycleNear
<1>5. x <= Seen(y.q[k], late) /\ Seen(y.q[k], late) \in Int
  BY <1>2, <1>4, FirstSeen DEF Placed
<1>6. Start(y) = IF 0 - x > 0 THEN 0 - (0 - x) ELSE 0
  BY <1>4 DEF Start
<1>7. CASE z < 0
  <2>1. x = z
    BY <1>1, <1>4, <1>5, <1>7
  <2> QED BY <1>6, <1>7, <2>1
<1>8. CASE z = 0
  BY <1>4, <1>6, <1>8
<1> QED BY <1>1, <1>7, <1>8

\* One turn.
LEMMA LoadTurn ==
    ASSUME Brief, NEW s, QueueOK(s), NEW early \in BOOLEAN, NEW late \in BOOLEAN,
           NEW z \in Int, Ordered(s.q, early), LoadLap(s, late, z),
           NEW n \in 1 .. Len(s.q), NEW m \in Nat, m = n - 1,
           NEW x, LoadedOK(s, x, m), LoadOrdered(s, x, m, late, z),
           NEW y, LoadedOK(s, y, n),
           y = AddEventCount(x, s.q[n].type, s.q[n].count, s.q[n].left)
    PROVE  LoadOrdered(s, y, n, late, z)
<1> DEFINE q == s.q
<1>1. q \in Seq(Nodes) /\ Len(q) \in Nat /\ Len(q) <= Capacity /\ Matches(q, s.count)
      /\ Capacity \in Nat
  BY QueueType, CapacityAssumption
<1>2. /\ QueueOK(x) /\ x.count = s.count /\ Len(x.q) = m /\ QueueOK(y) /\ Len(y.q) = n
      /\ x.q \in Seq(Nodes)
  BY QueueType DEF LoadedOK
<1>3. /\ Placed(x.q, late, z) /\ Start(x) = z
      /\ \A i \in 1 .. m : \E k \in 1 .. Len(x.q) : x.q[k] = q[i]
      /\ \A i, j \in 1 .. m :
            i < j /\ q[i].type # "COMPARE_INT" /\ q[j].type # "COMPARE_INT"
                => Precedes(x.q, q[i], q[j])
  BY DEF LoadOrdered
<1>4. Within(q, late, z) /\ Capped(q)
  BY DEF LoadLap
<1>5. n \in 1 .. Len(q) /\ Ordered(q, early) /\ n \in Nat /\ m < Capacity
  BY <1>1
<1> DEFINE e == q[n]
<1>6. e \in Nodes
  BY <1>1
<1>7. PICK type \in EventTypes, count \in 0 .. Wrap - 1, left \in Int :
         type = e.type /\ count = e.count /\ left = e.left
  BY <1>6 DEF Nodes
<1>8. y = AddEventCount(x, type, count, left)
  BY <1>7
<1>9. Event(type, count, left) = e
  BY <1>6, <1>7 DEF Event, Nodes
<1> HIDE DEF q
<1>10. /\ Mod(left) = Mod(count - x.count) /\ left <= Wrap - 1 + CountPerOp
       /\ z <= Seen(e, late) /\ Seen(e, late) <= z + Wrap - 1
  BY <1>1, <1>2, <1>4, <1>5, <1>7 DEF Matches, Within, Capped
<1> DEFINE p == InsertPos(x, count)
           w == AddEventCount(x, type, count, left)
<1> HIDE DEF e
<1>11. /\ Placed(w.q, late, Start(x)) /\ InsertedAt(w.q, x.q, e, p)
       /\ \A i \in 1 .. Len(x.q) :
             IF i < p THEN Seen(x.q[i], late) <= Seen(e, late)
             ELSE Seen(e, late) < Seen(x.q[i], late)
  <2> DEFINE f == Event(type, count, left)
  <2>1. /\ QueueOK(x) /\ Len(x.q) < Capacity /\ late \in BOOLEAN
        /\ Placed(x.q, late, Start(x))
        /\ type \in EventTypes /\ count \in 0 .. Wrap - 1 /\ left \in Int
        /\ Mod(left) = Mod(count - x.count) /\ left <= Wrap - 1 + CountPerOp
        /\ Start(x) <= Seen(f, late) /\ Seen(f, late) <= Start(x) + Wrap - 1
    BY <1>2, <1>3, <1>5, <1>9, <1>10
  <2>2. /\ Placed(w.q, late, Start(x)) /\ InsertedAt(w.q, x.q, f, p)
        /\ \A i \in 1 .. Len(x.q) :
              IF i < p THEN Seen(x.q[i], late) <= Seen(f, late)
              ELSE Seen(f, late) < Seen(x.q[i], late)
    BY ONLY <2>1, AddWithin
  <2> HIDE DEF f
  <2>3. f = e
    BY <1>9 DEF f
  <2> QED BY <2>2, <2>3
<1>12. Synced(w) /\ w = y
  <2>1. x \in States /\ Len(x.q) < Capacity
    BY <1>2, <1>5, QueueType
  <2>2. Synced(w)
    BY <2>1, AddShape
  <2> QED BY <1>8, <2>2
<1> HIDE DEF w, p
<1>13. Placed(y.q, late, z) /\ InsertedAt(y.q, x.q, e, p) /\ Synced(y)
  BY <1>3, <1>11, <1>12
<1>14. /\ y.q[p] = e /\ p \in 1 .. Len(y.q)
       /\ \A k \in 1 .. Len(x.q) : \E i \in 1 .. Len(y.q) : y.q[i] = x.q[k]
       /\ \A k \in 1 .. Len(x.q) : k < p => Precedes(y.q, x.q[k], e)
       /\ \A f, g : Precedes(x.q, f, g) => Precedes(y.q, f, g)
  BY <1>2, <1>13, InsertedKeeps
<1>15. ASSUME NEW i \in 1 .. n PROVE \E k \in 1 .. Len(y.q) : y.q[k] = q[i]
  <2>1. CASE i = n
    BY <1>14, <2>1 DEF e
  <2>2. CASE i # n
    <3>1. i \in 1 .. m
      BY <1>5, <2>2
    <3>2. PICK k \in 1 .. Len(x.q) : x.q[k] = q[i]
      BY <1>3, <3>1
    <3>3. PICK l \in 1 .. Len(y.q) : y.q[l] = x.q[k]
      BY <1>14, <3>2
    <3>4. y.q[l] = q[i]
      BY <3>2, <3>3
    <3> QED BY <3>3, <3>4
  <2> QED BY <2>1, <2>2
<1>16. Start(y) = z
  <2>1. 1 \in 1 .. n /\ q # <<>>
    <3>1. n \in Nat /\ n >= 1 /\ n <= Len(q)
      BY <1>1, <1>5
    <3> QED BY <1>1, <3>1
  <2>2. PICK k \in 1 .. Len(y.q) : y.q[k] = q[1]
    BY <1>15, <2>1
  <2>3. /\ QueueOK(s) /\ s.q # <<>> /\ LoadLap(s, late, z) /\ QueueOK(y) /\ Synced(y)
        /\ Placed(y.q, late, z) /\ k \in 1 .. Len(y.q) /\ y.q[k] = s.q[1]
        /\ Brief /\ late \in BOOLEAN /\ z \in Int
    BY <1>2, <1>13, <2>1, <2>2 DEF q
  <2> QED BY ONLY <2>3, LoadStart
<1>17. ASSUME NEW i \in 1 .. n, NEW j \in 1 .. n, i < j,
              q[i].type # "COMPARE_INT", q[j].type # "COMPARE_INT"
       PROVE  Precedes(y.q, q[i], q[j])
  <2>1. i \in 1 .. m
    BY <1>5, <1>17
  <2>2. CASE j # n
    <3>1. j \in 1 .. m
      BY <1>5, <2>2
    <3> QED BY <1>3, <1>14, <1>17, <2>1, <3>1
  <2>3. CASE j = n
    <3>1. PICK k \in 1 .. Len(x.q) : x.q[k] = q[i]
      BY <1>3, <2>1
    <3>2. i \in 1 .. Len(q) /\ j \in 1 .. Len(q) /\ e = q[j]
      BY <1>1, <1>5, <2>1, <2>3 DEF e
    <3>3. Seen(q[i], early) <= Seen(q[j], early)
      BY <1>5, <1>17, <3>2 DEF Ordered
    <3>4. /\ Seen(q[i], early) = q[i].left /\ Seen(q[j], early) = q[j].left
          /\ q[i].left \in Int /\ q[j].left \in Int
          /\ Seen(q[i], late) = q[i].left /\ Seen(q[j], late) = q[j].left
      BY <1>1, <1>17, <3>2, SeenIn
    <3>5. k < p
      <4>1. ASSUME ~(k < p) PROVE FALSE
        <5>1. Seen(e, late) < Seen(x.q[k], late)
          BY <1>11, <4>1
        <5>2. q[j].left < q[i].left /\ q[i].left <= q[j].left
          BY <3>1, <3>2, <3>3, <3>4, <5>1
        <5> QED BY <3>4, <5>2
      <4> QED BY <4>1
    <3> QED BY <1>14, <3>1, <3>2, <3>5
  <2> QED BY <2>2, <2>3
<1> QED BY <1>13, <1>15, <1>16, <1>17 DEF LoadOrdered, q

\* remove_event leaves the order of the events of other types.
LEMMA RemoveEventKeeps ==
    ASSUME NEW s, QueueOK(s), NEW type
    PROVE  LET t == RemoveEvent(s, type)
           IN  /\ \A k \in 1 .. Len(s.q) :
                     s.q[k].type # type => \E i \in 1 .. Len(t.q) : t.q[i] = s.q[k]
               /\ \A f, g : Precedes(s.q, f, g) /\ f.type # type /\ g.type # type
                               => Precedes(t.q, f, g)
<1> DEFINE u == WithoutFirst(s.q, type)
           t == RemoveEvent(s, type)
<1>1. s \in States /\ s.q \in Seq(Nodes)
  BY QueueType
<1>2. IF \E i \in 1 .. Len(s.q) : s.q[i].type = type
      THEN \E p \in 1 .. Len(s.q) : s.q[p].type = type /\ Removed(u, s.q, p)
      ELSE u = s.q
  BY <1>1, FirstMatchRemoves
<1>3. t = [s EXCEPT !.q = u]
  BY DEF RemoveEvent, WithoutFirst
<1> HIDE DEF t, u
<1>4. t.q = u
  BY <1>1, <1>3 DEF States
<1>5. CASE \E i \in 1 .. Len(s.q) : s.q[i].type = type
  <2>1. PICK p \in 1 .. Len(s.q) : s.q[p].type = type /\ Removed(u, s.q, p)
    BY <1>2, <1>5
  <2>2. /\ \A k \in 1 .. Len(s.q) : k # p => \E i \in 1 .. Len(u) : u[i] = s.q[k]
        /\ \A f, g : Precedes(s.q, f, g) /\ f.type # s.q[p].type /\ g.type # s.q[p].type
                        => Precedes(u, f, g)
    BY <1>1, <2>1, RemovedKeeps
  <2> QED BY <1>4, <2>1, <2>2 DEF t
<1>6. CASE ~\E i \in 1 .. Len(s.q) : s.q[i].type = type
  BY <1>2, <1>4, <1>6 DEF t
<1> QED BY <1>5, <1>6

\* So does arming SPECIAL_INT.
LEMMA AddSpecialKeeps ==
    ASSUME NEW s, QueueOK(s), Len(s.q) < Capacity
    PROVE  LET t == AddSpecial(s)
           IN  /\ \A k \in 1 .. Len(s.q) : \E i \in 1 .. Len(t.q) : t.q[i] = s.q[k]
               /\ \A f, g : Precedes(s.q, f, g) => Precedes(t.q, f, g)
<1>1. s \in States /\ s.count \in 0 .. Wrap - 1 /\ s.q \in Seq(Nodes)
  BY QueueType
<1>2. PICK type \in EventTypes, c \in 0 .. Wrap - 1, l \in Int :
         /\ type = "SPECIAL_INT" /\ c = (IF s.count < Half THEN Half ELSE 0)
         /\ l = Half - (s.count % Half)
  <2>1. "SPECIAL_INT" \in EventTypes /\ s.count \in Int
    BY <1>1, WrapAssumption DEF EventTypes
  <2>2. (IF s.count < Half THEN Half ELSE 0) \in 0 .. Wrap - 1
    BY HalfType
  <2>3. s.count % Half \in Int /\ Half \in Int
    BY <2>1, HalfType
  <2>4. Half - (s.count % Half) \in Int
    BY <2>3
  <2> QED BY <2>1, <2>2, <2>4
<1> DEFINE t == AddEventCount(s, type, c, l)
           e == Event(type, c, l)
           p == InsertPos(s, c)
<1>3. AddSpecial(s) = t
  BY <1>2 DEF AddSpecial
<1>4. InsertedAt(t.q, s.q, e, p)
  BY <1>1, AddAt
<1> HIDE DEF t, e, p
<1>5. /\ \A k \in 1 .. Len(s.q) : \E i \in 1 .. Len(t.q) : t.q[i] = s.q[k]
      /\ \A f, g : Precedes(s.q, f, g) => Precedes(t.q, f, g)
  BY <1>1, <1>4, InsertedKeeps
<1> QED BY <1>3, <1>5

\* The loop as a whole.
LEMMA LoadEnd ==
    ASSUME Brief, NEW s, QueueOK(s), s.q # <<>>, NEW early \in BOOLEAN,
           NEW late \in BOOLEAN, NEW z \in Int, Ordered(s.q, early), LoadLap(s, late, z)
    PROVE  \E y : /\ LoadedOK(s, y, Len(s.q)) /\ LoadOrdered(s, y, Len(s.q), late, z)
                  /\ LoadEventQueue(s, s.q) = AddSpecial(RemoveEvent(y, "SPECIAL_INT"))
<1> DEFINE N == Len(s.q)
<1>1. s \in States /\ s.q \in Seq(Nodes) /\ N \in Nat
  BY QueueType
<1>2. PICK g : /\ LoadedBy(s, g)
               /\ \A n \in 0 .. Len(s.q) : LoadedOK(s, g[n], n)
               /\ LoadEventQueue(s, s.q)
                     = AddSpecial(RemoveEvent(g[Len(s.q)], "SPECIAL_INT"))
  BY LoadLoop
<1>3. /\ g[0] = [s EXCEPT !.q = <<>>]
      /\ \A n \in 1 .. N :
            g[n] = AddEventCount(g[n - 1], s.q[n].type, s.q[n].count, s.q[n].left)
      /\ \A n \in 0 .. N : LoadedOK(s, g[n], n)
  BY <1>2 DEF LoadedBy
<1> HIDE DEF N
<1> DEFINE Good(n) == LoadOrdered(s, g[n], n, late, z)
<1>4. Good(0)
  <2> DEFINE x == g[0]
  <2>1. x.q = <<>> /\ x.cycle = s.cycle
    BY <1>1, <1>3 DEF States
  <2> HIDE DEF x
  <2>2. Placed(x.q, late, z) /\ Start(x) = z
    BY <2>1, EmptyPlaced DEF Start, LoadLap
  <2>3. LoadOrdered(s, x, 0, late, z)
    BY <2>2 DEF LoadOrdered
  <2> QED BY <2>3 DEF x
<1>5. ASSUME NEW n \in 1 .. N, Good(n - 1) PROVE Good(n)
  <2>1. PICK m \in Nat : m = n - 1 /\ m \in 0 .. N /\ n \in 0 .. N
    BY <1>1
  <2>2. PICK x, y : x = g[m] /\ y = g[n]
    OBVIOUS
  <2>3. /\ LoadedOK(s, x, m) /\ LoadedOK(s, y, n) /\ LoadOrdered(s, x, m, late, z)
        /\ y = AddEventCount(x, s.q[n].type, s.q[n].count, s.q[n].left)
        /\ n \in 1 .. Len(s.q)
    BY <1>3, <1>5, <2>1, <2>2 DEF N
  <2>4. LoadOrdered(s, y, n, late, z)
    BY <2>1, <2>3, LoadTurn
  <2> QED BY <2>2, <2>4
<1>6. Good(N)
  <2> SUFFICES ASSUME ~Good(N) PROVE FALSE
    OBVIOUS
  <2> DEFINE T == {n \in 0 .. N : ~Good(n)}
  <2> HIDE DEF Good
  <2>1. PICK x \in T : \A y \in T : x <= y
    <3>1. T \subseteq Nat /\ T # {}
      BY <1>1
    <3> HIDE DEF T
    <3> QED BY <3>1, LeastNumber
  <2>2. x # 0
    BY <1>4, <2>1
  <2>3. x \in 1 .. N /\ x - 1 \in 0 .. N /\ x - 1 \notin T
    BY <1>1, <2>1, <2>2
  <2>4. Good(x - 1)
    BY <2>3
  <2>5. Good(x)
    BY <1>5, <2>3, <2>4
  <2> QED BY <2>1, <2>5
<1>7. N \in 0 .. N
  BY <1>1
<1> QED BY <1>2, <1>3, <1>6, <1>7 DEF N

\* The events but SPECIAL_INT and COMPARE_INT come back, in their order.
Restored(t, s) ==
    /\ Len(t.q) = Len(s.q)
    /\ \A i \in 1 .. Len(s.q) : s.q[i].type # "SPECIAL_INT"
          => \E k \in 1 .. Len(t.q) : t.q[k] = s.q[i]
    /\ \A i, j \in 1 .. Len(s.q) :
          ( /\ i < j
            /\ s.q[i].type \notin {"SPECIAL_INT", "COMPARE_INT"}
            /\ s.q[j].type \notin {"SPECIAL_INT", "COMPARE_INT"} )
          => Precedes(t.q, s.q[i], s.q[j])

\* Loading the queue that was saved.
LEMMA LoadOrder ==
    ASSUME Brief, NEW s, CpuOK(s), ~s.skip, Arranged(s)
    PROVE  LET t == LoadEventQueue(s, s.q)
           IN  SysOK(t) /\ Restored(t, s)
<1> DEFINE N == Len(s.q)
           t == LoadEventQueue(s, s.q)
<1>1. QueueOK(s) /\ Timers(s.q) /\ s.q # <<>> /\ N \in Nat /\ N <= Capacity
  BY QueueType DEF CpuOK, Synced
<1>2. PICK early \in BOOLEAN, late \in BOOLEAN, z \in Int :
         Ordered(s.q, early) /\ LoadLap(s, late, z)
  BY LoadWindow
<1>3. PICK y : /\ LoadedOK(s, y, Len(s.q)) /\ LoadOrdered(s, y, Len(s.q), late, z)
               /\ LoadEventQueue(s, s.q) = AddSpecial(RemoveEvent(y, "SPECIAL_INT"))
  BY <1>1, <1>2, LoadEnd
<1>4. QueueOK(y) /\ Len(y.q) = N /\ Occurs(y.q, "SPECIAL_INT")
  BY <1>1, <1>3 DEF LoadedOK, Timers, Occurs
<1>5. PICK type \in EventTypes \ {"CHECK_INT"} : type = "SPECIAL_INT"
  BY DEF EventTypes
<1> DEFINE a == RemoveEvent(y, type)
<1>6. t = AddSpecial(a)
  BY <1>3, <1>5
<1>7. /\ Placed(y.q, late, z) /\ Start(y) = z
      /\ \A i \in 1 .. N : \E k \in 1 .. Len(y.q) : y.q[k] = s.q[i]
      /\ \A i, j \in 1 .. N :
            i < j /\ s.q[i].type # "COMPARE_INT" /\ s.q[j].type # "COMPARE_INT"
                => Precedes(y.q, s.q[i], s.q[j])
  BY <1>3 DEF LoadOrdered
<1> HIDE DEF N, t
<1>8. /\ QueueOK(a) /\ ~Occurs(a.q, type)
      /\ IF Occurs(y.q, type) THEN Len(a.q) = Len(y.q) - 1 ELSE a.q = y.q
  BY <1>4, RemoveEventOK
<1>9. Placed(a.q, late, z) /\ a.cycle = y.cycle
  BY <1>4, <1>7, RemoveEventPlaced
<1>10. /\ \A k \in 1 .. Len(y.q) :
             y.q[k].type # type => \E i \in 1 .. Len(a.q) : a.q[i] = y.q[k]
       /\ \A f, g : Precedes(y.q, f, g) /\ f.type # type /\ g.type # type
                       => Precedes(a.q, f, g)
  BY <1>4, RemoveEventKeeps
<1> HIDE DEF a
<1>11. Len(a.q) < Capacity /\ Start(a) = z /\ ~Occurs(a.q, "SPECIAL_INT")
       /\ Len(a.q) = N - 1
  <2>1. Capacity \in Nat /\ Len(a.q) = N - 1
    BY <1>4, <1>5, <1>8, CapacityAssumption
  <2> QED BY <1>1, <1>5, <1>7, <1>8, <1>9, <2>1 DEF Start
<1>12. Placed(t.q, late, z)
  <2>1. Placed(a.q, late, Start(a))
    BY <1>9, <1>11
  <2>2. Placed(AddSpecial(a).q, late, Start(a))
    BY <1>8, <2>1, AddSpecialPlaced
  <2> QED BY <1>6, <1>11, <2>2
<1>13. Len(t.q) = N
  <2>1. Len(t.q) = Len(a.q) + 1
    BY <1>6, <1>8, <1>11, AddSpecialOK
  <2> QED BY <1>1, <1>11, <2>1
<1>14. /\ \A k \in 1 .. Len(a.q) : \E i \in 1 .. Len(t.q) : t.q[i] = a.q[k]
       /\ \A f, g : Precedes(a.q, f, g) => Precedes(t.q, f, g)
  BY <1>6, <1>8, <1>11, AddSpecialKeeps
<1>15. ASSUME NEW i \in 1 .. N, s.q[i].type # "SPECIAL_INT"
       PROVE  \E k \in 1 .. Len(t.q) : t.q[k] = s.q[i]
  <2>1. PICK k \in 1 .. Len(y.q) : y.q[k] = s.q[i]
    BY <1>7
  <2>2. PICK l \in 1 .. Len(a.q) : a.q[l] = s.q[i]
    BY <1>5, <1>10, <1>15, <2>1
  <2> QED BY <1>14, <2>2
<1>16. ASSUME NEW i \in 1 .. N, NEW j \in 1 .. N, i < j,
              s.q[i].type \notin {"SPECIAL_INT", "COMPARE_INT"},
              s.q[j].type \notin {"SPECIAL_INT", "COMPARE_INT"}
       PROVE  Precedes(t.q, s.q[i], s.q[j])
  <2>1. Precedes(y.q, s.q[i], s.q[j])
    BY <1>7, <1>16
  <2> QED BY <1>5, <1>10, <1>14, <1>16, <2>1
<1>17. Restored(t, s)
  BY <1>13, <1>15, <1>16 DEF Restored, N
<1>18. OrderOK(t.q)
  <2>1. z \in Floor .. CountPerOp
    <3>1. z \in Int /\ Floor <= z /\ z <= 0
      BY <1>2 DEF LoadLap
    <3> QED BY <3>1, BriefType
  <2> QED BY <1>12, <2>1 DEF OrderOK
<1>19. SameRegisters(t, s) /\ \A k : Occurs(s.q, k) => Occurs(t.q, k)
  BY <1>1, LoadOK DEF t
<1>20. SysOK(t)
  BY <1>18, <1>19 DEF SysOK, Arranged, SameRegisters
<1> QED BY <1>17, <1>20 DEF t

-----------------------------------------------------------------------------
(* The invariant and the theorems.                                          *)

\* The program starts with the queue in order.
LEMMA InitOrder == ASSUME Setting, Init PROVE SysOK(r4300)
<1> DEFINE s == [count |-> PowerOnCount, compare |-> 0, cycle |-> 0, next |-> 0,
                 q |-> <<>>, ie |-> FALSE, exl |-> FALSE, erl |-> FALSE, im |-> {},
                 cause |-> {}, rcp |-> FALSE, vi |-> 0, skip |-> FALSE,
                 resetJob |-> FALSE, stop |-> FALSE, took |-> FALSE]
<1>1. /\ 0 \in 0 .. Wrap - 1 /\ 0 \in -Half .. Half - 1 /\ PowerOnCount < Half
      /\ PowerOnCount \in 0 .. Wrap - 1
  BY HalfType, PowerOnAssumption
<1>2. s \in States /\ s.count < Half /\ ~s.skip /\ ~s.resetJob /\ s.compare = 0
  BY <1>1 DEF States
<1>3. r4300 = AddEvent(Programmed(s), "VI_INT", ViDelay)
  BY DEF Init, Setting, PowerOn, Programmed
<1> HIDE DEF s
<1>4. Capacity > 2 /\ Brief
  <2>1. 0 \in 0 .. MaxOps
    BY BoundAssumption
  <2> QED BY <2>1, BlockLength DEF Setting
<1>5. /\ OrderOK(r4300.q) /\ r4300.resetJob = s.resetJob /\ r4300.vi = ViDelay
      /\ r4300.skip = s.skip
  BY <1>2, <1>3, <1>4, FreshOrder
<1>6. Occurs(r4300.q, "VI_INT")
  BY <1>2, <1>3, <1>4, FreshVi
<1> QED BY <1>2, <1>5, <1>6 DEF SysOK, Arranged

\* Every step keeps the order: one case for each action.
LEMMA NextOrder ==
    ASSUME Setting, Inv, SysOK(r4300), Punctual, Calm', [Next]_vars
    PROVE  SysOK(r4300')
<1>0. /\ CpuOK(r4300) /\ 0 \in 0 .. MaxOps /\ MaxOps \in Nat /\ ops \in 0 .. MaxOps
      /\ TRUE \in BOOLEAN /\ FALSE \in BOOLEAN /\ Arranged(r4300)
  BY BoundAssumption DEF Inv, SysOK
<1>b. Brief /\ ~Resets /\ ~AtBoundary /\ ~SignalWhenDue
  BY <1>0, BlockLength DEF Setting
<1>n. ASSUME NEW n \in 0 .. MaxOps
      PROVE  /\ Arranged(Now(n)) /\ ViInTime(Now(n).q) /\ CpuOK(Now(n))
             /\ Now(n).skip = r4300.skip /\ Now(n) \in States /\ n \in Nat
             /\ Now(n).skip => Now(n).cycle >= 0
  <2>1. /\ Arranged(Now(n)) /\ ViInTime(Now(n).q) /\ CpuOK(Now(n))
        /\ Now(n).skip = r4300.skip
        /\ Now(n).skip => Now(n).cycle >= 0
    BY <1>0, NowOrder
  <2> QED BY <1>0, <2>1 DEF CpuOK, QueueOK
<1>h. \A type : HasEvent(r4300, type) <=> Occurs(r4300.q, type)
  BY DEF HasEvent, Occurs
<1>1. ASSUME NEW n \in 0 .. MaxOps, NEW h \in Responses, EndBlock(n, h)
      PROVE  SysOK(r4300')
  BY <1>0, <1>b, <1>n, <1>1, GenIfDueOrder DEF EndBlock
<1>2. ASSUME NEW h \in Responses, IdleLoop(h) PROVE SysOK(r4300')
  BY <1>0, <1>2, IdleOrder DEF IdleLoop
<1>3. ASSUME NEW n \in 0 .. MaxOps, NEW type \in DeviceEvents, NEW delay \in Delays,
             Schedule(n, type, delay)
      PROVE  SysOK(r4300')
  <2>1. /\ type \in EventTypes \ {"COMPARE_INT", "SPECIAL_INT"} /\ delay \in 0 .. Half
        /\ type = "NMI_INT" => Resets
    BY DeviceAssumption, DelayAssumption, HalfType DEF EventTypes
  <2>2. ~Occurs(r4300.q, type) /\ ~r4300.skip /\ n > 0
    BY <1>b, <1>h, <1>3 DEF Schedule, InBlock
  <2>3. r4300' = AddEvent(Now(n), type, delay)
    BY <1>3 DEF Schedule
  <2> QED BY <1>0, <2>1, <2>2, <2>3, ScheduleOrder
<1>4. ASSUME NEW n \in 0 .. MaxOps, SetViVerticalInterrupt(n) PROVE FALSE
  BY <1>0, <1>h, <1>4 DEF SetViVerticalInterrupt, Arranged
<1>5. ASSUME NEW n \in 0 .. MaxOps, NEW step \in CompareSteps, Mtc0Compare(n, step)
      PROVE  SysOK(r4300')
  <2> DEFINE value == Mod(Now(n).count + step)
  <2>1. value \in 0 .. Wrap - 1
    <3>1. Now(n).count \in Int /\ step \in Int
      BY <1>n, WriteAssumption, WrapAssumption DEF States
    <3>2. Now(n).count + step \in Int
      BY <3>1
    <3> QED BY <3>2, ModRange
  <2>2. r4300' = Compared(Now(n), value) /\ ~r4300.skip
    BY <1>5 DEF Mtc0Compare, Compared, InBlock
  <2> HIDE DEF value
  <2> QED BY <1>b, <1>n, <2>1, <2>2, ComparedOrder
<1>6. ASSUME NEW n \in 0 .. MaxOps, NEW h \in Responses, NEW some \in BOOLEAN,
             NEW slot \in BOOLEAN, WriteMiIntrMask(n, some, slot, h)
      PROVE  SysOK(r4300')
  <2>1. ~r4300.skip
    BY <1>6 DEF WriteMiIntrMask, InBlock
  <2> QED BY <1>0, <1>6, <2>1, WriteMiOrder DEF WriteMiIntrMask
<1>7. ASSUME NEW n \in 0 .. MaxOps, NEW h \in Responses, NEW v \in StatusValues,
             NEW slot \in BOOLEAN, Mtc0Status(n, v, slot, h)
      PROVE  SysOK(r4300')
  <2> DEFINE now == Now(n)
             set == [now EXCEPT !.ie = v.ie, !.exl = v.exl, !.erl = v.erl, !.im = v.im]
  <2>1. r4300' = GenIfDue(CheckInterrupt(set, "IP2", set.rcp), slot, TRUE, h)
        /\ ~r4300.skip
    BY <1>7 DEF Mtc0Status, InBlock
  <2>2. v.ie \in BOOLEAN /\ v.exl \in BOOLEAN /\ v.erl \in BOOLEAN /\ v.im \in SUBSET IPs
        /\ now \in States
    BY <1>n, StatusAssumption
  <2> HIDE DEF now
  <2>3. /\ set \in States /\ set.q = now.q /\ set.count = now.count
        /\ set.next = now.next /\ set.cycle = now.cycle /\ set.skip = now.skip
        /\ set.resetJob = now.resetJob /\ set.vi = now.vi /\ set.compare = now.compare
    BY <2>2 DEF States
  <2> HIDE DEF set
  <2> QED BY <1>0, <2>1, <2>3, MaskOrder DEF now
<1>8. ASSUME NEW n \in 0 .. MaxOps, NEW h \in Responses, NEW value \in CountValues,
             Mtc0Count(n, value, h)
      PROVE  SysOK(r4300')
  <2> DEFINE g == GenIfDue(Now(n), FALSE, TRUE, h)
  <2>1. CpuOK(g) /\ value \in 0 .. Wrap - 1
    BY <1>0, <1>n, GenIfDueOK, WriteAssumption
  <2>2. SysOK(g) /\ ~g.skip
    BY <1>0, <1>b, <1>n, GenIfDueOrder
  <2>3. r4300' = TranslateEventQueue(g, value)
    BY <1>8 DEF Mtc0Count
  <2> HIDE DEF g
  <2> QED BY <1>b, <2>1, <2>2, <2>3, TranslateOrder DEF SysOK
<1>9. ASSUME NEW n \in 0 .. MaxOps, NEW h \in Responses, Eret(n, h) PROVE SysOK(r4300')
  <2> DEFINE now == Now(n)
             ret == IF now.erl THEN [now EXCEPT !.stop = TRUE]
                    ELSE [now EXCEPT !.exl = FALSE]
  <2>1. r4300' = GenIfDue(CheckInterrupt(ret, "IP2", ret.rcp), FALSE, FALSE, h)
        /\ ~r4300.skip
    BY <1>9 DEF Eret, InBlock
  <2>2. now \in States
    BY <1>n
  <2> HIDE DEF now
  <2>3. /\ ret \in States /\ ret.q = now.q /\ ret.count = now.count
        /\ ret.next = now.next /\ ret.cycle = now.cycle /\ ret.skip = now.skip
        /\ ret.resetJob = now.resetJob /\ ret.vi = now.vi /\ ret.compare = now.compare
    BY <2>2 DEF States
  <2> HIDE DEF ret
  <2> QED BY <1>0, <2>1, <2>3, MaskOrder DEF now
<1>10. ASSUME NEW n \in 0 .. MaxOps, NEW h \in Responses, LoadSaved(n, h)
       PROVE  SysOK(r4300')
  <2> DEFINE now == Now(n)
             saved == GenInterrupt(now, FALSE, FALSE, h)
  <2>1. now.cycle >= 0 /\ r4300' = LoadEventQueue(saved, saved.q)
    BY <1>10 DEF LoadSaved
  <2>2. CpuOK(now) /\ Arranged(now) /\ ViInTime(now.q)
    BY <1>n
  <2> HIDE DEF now
  <2>3. CpuOK(saved)
    BY <1>0, <2>1, <2>2, GenInterruptOK
  <2>4. SysOK(saved) /\ ~saved.skip
    BY <1>0, <1>b, <2>1, <2>2, GenInterruptOrder
  <2> HIDE DEF saved
  <2> QED BY <1>b, <2>1, <2>3, <2>4, LoadOrder DEF SysOK
<1>11. ASSUME NEW some \in BOOLEAN, SignalRcpInterrupt(some) \/ ClearRcpInterrupt(some)
       PROVE  SysOK(r4300')
  <2>1. /\ r4300' = CheckInterrupt([Now(0) EXCEPT !.rcp = some], "IP2", some)
        /\ ~r4300.skip /\ r4300.cycle < 0
    BY <1>b, <1>11 DEF SignalRcpInterrupt, ClearRcpInterrupt
  <2>2. \A i, j \in 1 .. Len(r4300'.q) :
           r4300'.q[i].type = "CHECK_INT" /\ r4300'.q[j].type = "COMPARE_INT"
               => r4300'.q[j].left - r4300'.q[i].left < Wrap
    BY DEF Calm
  <2> QED BY <1>0, <2>1, <2>2, SignalOrder
<1>w. ASSUME WriteViVSync PROVE FALSE
  <2>1. r4300.vi = ViDelay /\ r4300.vi = 0
    BY <1>0, <1>w DEF WriteViVSync, Arranged
  <2>2. ViDelay \in 1 .. Half - 1
    BY DelayAssumption
  <2> QED BY <2>1, <2>2
<1>12. ASSUME SoftResetDevice \/ HardResetDevice \/ StopDevice PROVE FALSE
  BY <1>b, <1>12 DEF SoftResetDevice, HardResetDevice, StopDevice
<1>13. ASSUME UNCHANGED vars PROVE SysOK(r4300')
  BY <1>13 DEF vars
<1> QED
  BY <1>1, <1>2, <1>3, <1>4, <1>5, <1>6, <1>7, <1>8, <1>9, <1>10, <1>11, <1>w, <1>12, <1>13
     DEF Next, Run, Answers

\* The queue is in order in every state of an execution that is punctual and calm.
LEMMA OrderInvariance ==
    ASSUME Setting
    PROVE  Spec /\ []Punctual /\ []Calm => [](Inv /\ SysOK(r4300))
<1>1. Init => SysOK(r4300)
  BY InitOrder
<1>2. Inv /\ SysOK(r4300) /\ Punctual /\ Calm' /\ [Next]_vars => SysOK(r4300)'
  BY NextOrder
<1> QED BY <1>1, <1>2, Invariance, PTL DEF Spec

\* While any event is due, cycle_count says so, for every size of the pool, of the lap
\* and of a block: insertion by wrapped counts, overdue events, idle loops, writes of
\* Count and Compare, loads and interrupts signalled between events never hide a due
\* event behind one that is not.
THEOREM DueTheorem ==
    ASSUME Setting
    PROVE  Spec /\ []Punctual /\ []Calm => []DueIsSeen
<1>1. Inv /\ SysOK(r4300) => DueIsSeen
  <2> SUFFICES ASSUME Inv, SysOK(r4300), NEW i \in 1 .. Len(r4300.q),
                      r4300.q[i].left <= 0
               PROVE  r4300.cycle >= 0
    BY DEF DueIsSeen
  <2>1. CpuOK(r4300) /\ Arranged(r4300) /\ (r4300.skip => r4300.cycle = 0)
    BY DEF Inv, SysOK
  <2>2. CASE r4300.skip
    BY <2>1, <2>2
  <2>3. CASE ~r4300.skip
    <3>0. Brief
      <4>1. 0 \in 0 .. MaxOps
        BY BoundAssumption
      <4> QED BY <4>1, BlockLength
    <3>1. /\ QueueOK(r4300) /\ Synced(r4300) /\ Anchored(r4300.q)
          /\ r4300.q \in Seq(Nodes)
      BY <2>1, <2>3, QueueType DEF CpuOK, Arranged, Anchored, Occurs
    <3>2. PICK early \in BOOLEAN, b \in Floor .. CountPerOp :
             Placed(r4300.q, early, b)
      BY <2>1 DEF Arranged, OrderOK
    <3>3. b \in Int /\ Floor <= b /\ b <= CountPerOp
      BY <3>0, BriefType
    <3>4. PICK x \in Int : x = Seen(r4300.q[1], early) /\ r4300.cycle = 0 - x
      BY <3>0, <3>1, <3>2, <3>3, CycleSeen
    <3>5. x <= Seen(r4300.q[i], early) /\ Seen(r4300.q[i], early) \in Int
      BY <3>1, <3>2, <3>4, FirstSeen DEF Placed
    <3>6. Seen(r4300.q[i], early) <= r4300.q[i].left /\ r4300.q[i].left \in Int
      BY <3>1, SeenIn
    <3> QED BY <3>4, <3>5, <3>6
  <2>4. r4300.skip \in BOOLEAN
    BY <2>1 DEF CpuOK, QueueOK, States
  <2> QED BY <2>2, <2>3, <2>4
<1> QED BY <1>1, OrderInvariance, PTL

\* Loading a state brings back every event that was saved, none lost and none twice, and
\* the events of the devices in the order in which they would have been handled,
\* although cycle_count is not part of the state.
THEOREM LoadTheorem ==
    ASSUME Setting
    PROVE  Spec /\ []Punctual /\ []Calm => []LoadRestoresQueue
<1>1. Inv /\ SysOK(r4300) => LoadRestoresQueue
  <2> SUFFICES ASSUME Inv, SysOK(r4300) PROVE LoadRestoresQueue
    OBVIOUS
  <2>1. CASE r4300.skip
    BY <2>1 DEF LoadRestoresQueue
  <2>2. CASE ~r4300.skip
    <3>1. CpuOK(r4300) /\ Arranged(r4300)
      BY DEF Inv, SysOK
    <3>2. Brief
      <4>1. 0 \in 0 .. MaxOps
        BY BoundAssumption
      <4> QED BY <4>1, BlockLength
    <3>3. PICK s : s = r4300
      OBVIOUS
    <3> DEFINE t == LoadEventQueue(s, s.q)
    <3>4. Restored(t, s)
      BY <2>2, <3>1, <3>2, <3>3, LoadOrder
    <3>5. t = LoadEventQueue(r4300, r4300.q)
      BY <3>3
    <3> HIDE DEF t
    <3> QED BY <3>3, <3>4, <3>5 DEF Restored, LoadRestoresQueue
  <2> QED BY <2>1, <2>2
<1> QED BY <1>1, OrderInvariance, PTL
=============================================================================
