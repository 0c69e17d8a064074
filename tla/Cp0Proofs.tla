----------------------------- MODULE Cp0Proofs -----------------------------
(***************************************************************************)
(* What Cp0Interrupts keeps for every width of Count, every pool of nodes  *)
(* and every set of devices.                                               *)
(*                                                                         *)
(* The invariant of a CPU state (CpuOK) says more than the properties do:  *)
(* the count of each node agrees with the true distance of its event, no   *)
(* event but the timer is more than half a lap away, no type but CHECK_INT *)
(* is queued twice, and both timers are queued (Timers) and for the right  *)
(* counts (Armed).  There is one lemma for each operator of EventQueue,    *)
(* each handler and each instruction.                                      *)
(***************************************************************************)
EXTENDS Cp0Interrupts, WellFoundedInduction, FiniteSetTheorems, TLAPS

-----------------------------------------------------------------------------
(* Numbers: induction, and arithmetic modulo Wrap.                          *)

\* Induction over the natural numbers, as the existence of a least counterexample.
LEMMA LeastNumber ==
    ASSUME NEW T, T \subseteq Nat, T # {}
    PROVE  \E x \in T : \A y \in T : x <= y
<1>1. PICK x \in T : \A y \in T : ~ (<<y, x>> \in OpToRel(<, Nat))
  BY NatLessThanWellFounded, WFMin
<1>2. \A y \in T : <<y, x>> \in Nat \X Nat
  OBVIOUS
<1>3. \A y \in T : ~(y < x)
  BY <1>1, <1>2 DEF OpToRel
<1> QED BY <1>3

\* Half is a whole number, and two halves make a lap of Count.
LEMMA HalfType == Half \in Nat /\ Half >= 2 /\ Wrap = 2 * Half
  BY WrapAssumption DEF Half

\* A uint32_t is in range.
LEMMA ModRange ==
    ASSUME NEW x \in Int
    PROVE  Mod(x) \in 0 .. Wrap - 1
  BY WrapAssumption DEF Mod

\* A number is a number of laps and what is left.
LEMMA ModQuotient ==
    ASSUME NEW x \in Int
    PROVE  \E k \in Int : x = k * Wrap + Mod(x)
<1>1. x = (x \div Wrap) * Wrap + (x % Wrap) /\ x \div Wrap \in Int
  BY WrapAssumption
<1> QED BY <1>1 DEF Mod

\* There is only one way to write it so.
LEMMA ModUnique ==
    ASSUME NEW x \in Int, NEW k \in Int, NEW r \in 0 .. Wrap - 1, x = k * Wrap + r
    PROVE  Mod(x) = r
<1>1. PICK j \in Int : x = j * Wrap + Mod(x)
  BY ModQuotient
<1>2. (k - j) * Wrap = Mod(x) - r
  <2>1. Mod(x) \in Int /\ r \in Int /\ Wrap \in Int
    BY ModRange, WrapAssumption
  <2>2. k * Wrap - j * Wrap = Mod(x) - r
    BY <1>1, <2>1
  <2> QED BY <2>1, <2>2
<1>3. k - j >= 1 => (k - j) * Wrap >= Wrap
  BY WrapAssumption
<1>4. k - j <= -1 => (k - j) * Wrap <= -Wrap
  BY WrapAssumption
<1>5. k = j
  BY <1>2, <1>3, <1>4, ModRange, WrapAssumption
<1> QED BY <1>1, <1>5, ModRange, WrapAssumption

\* Numbers that differ by a multiple of Wrap have the same remainder, and only they.
LEMMA ModShift ==
    ASSUME NEW x \in Int, NEW k \in Int
    PROVE  Mod(x + k * Wrap) = Mod(x)
<1>1. PICK j \in Int : x = j * Wrap + Mod(x)
  BY ModQuotient
<1>2. x + k * Wrap = (j + k) * Wrap + Mod(x)
  <2>1. Mod(x) \in Int /\ Wrap \in Int
    BY ModRange, WrapAssumption
  <2>2. (j + k) * Wrap = j * Wrap + k * Wrap
    BY <2>1
  <2> QED BY <1>1, <2>1, <2>2
<1>3. x + k * Wrap \in Int /\ j + k \in Int
  BY WrapAssumption
<1> QED BY <1>2, <1>3, ModRange, ModUnique

\* Numbers with the same remainder are whole laps apart.
LEMMA ModDifference ==
    ASSUME NEW x \in Int, NEW y \in Int, Mod(x) = Mod(y)
    PROVE  \E k \in Int : x = y + k * Wrap
<1>1. PICK i \in Int : x = i * Wrap + Mod(x)
  BY ModQuotient
<1>2. PICK j \in Int : y = j * Wrap + Mod(y)
  BY ModQuotient
<1>3. x = y + (i - j) * Wrap
  <2>1. PICK m \in Int : m = Mod(x) /\ m = Mod(y)
    BY ModRange, WrapAssumption
  <2>2. x = i * Wrap + m /\ y = j * Wrap + m /\ Wrap \in Int
    BY <1>1, <1>2, <2>1, WrapAssumption
  <2> QED BY <2>2
<1> QED BY <1>3

\* Congruence: sums and differences may be reduced at any point.
LEMMA ModPlus ==
    ASSUME NEW x \in Int, NEW y \in Int, NEW z \in Int, Mod(x) = Mod(y)
    PROVE  Mod(x + z) = Mod(y + z) /\ Mod(x - z) = Mod(y - z) /\ Mod(z - x) = Mod(z - y)
<1>1. PICK k \in Int : x = y + k * Wrap
  BY ModDifference
<1>2. /\ x + z = (y + z) + k * Wrap
      /\ x - z = (y - z) + k * Wrap
      /\ z - x = (z - y) + (-k) * Wrap
  BY <1>1, WrapAssumption
<1>3. y + z \in Int /\ y - z \in Int /\ z - y \in Int /\ -k \in Int
  OBVIOUS
<1> QED BY <1>2, <1>3, ModShift

\* Taking the remainder twice is taking it once.
LEMMA ModMod ==
    ASSUME NEW x \in Int
    PROVE  Mod(Mod(x)) = Mod(x)
<1>1. Mod(x) = 0 * Wrap + Mod(x)
  BY ModRange, WrapAssumption
<1> QED BY <1>1, ModRange, ModUnique

\* The remainder of the numbers within a lap of 0.
LEMMA ModSmall ==
    /\ \A x \in 0 .. Wrap - 1 : Mod(x) = x
    /\ \A x \in -Wrap .. -1 : Mod(x) = x + Wrap
<1>1. ASSUME NEW x \in 0 .. Wrap - 1 PROVE Mod(x) = x
  <2>1. x = 0 * Wrap + x /\ x \in Int /\ 0 \in Int
    BY WrapAssumption
  <2> QED BY <2>1, ModUnique, Zenon
<1>2. ASSUME NEW x \in -Wrap .. -1 PROVE Mod(x) = x + Wrap
  <2>1. x = (-1) * Wrap + (x + Wrap) /\ x + Wrap \in 0 .. Wrap - 1 /\ x \in Int
    BY WrapAssumption
  <2> QED BY <2>1, ModUnique
<1> QED BY <1>1, <1>2

\* An int32_t is in range and stands for the same remainder.
LEMMA SignedRange ==
    ASSUME NEW x \in Int
    PROVE  Signed(x) \in -Half .. Half - 1 /\ Mod(Signed(x)) = Mod(x)
<1>1. Mod(x) \in 0 .. Wrap - 1
  BY ModRange
<1>2. Signed(x) \in -Half .. Half - 1
  BY <1>1, HalfType DEF Signed
<1>3. CASE Mod(x) < Half
  <2>1. Signed(x) = Mod(x)
    BY <1>3 DEF Signed
  <2> QED BY <1>2, <2>1, ModMod
<1>4. CASE ~(Mod(x) < Half)
  <2>1. Mod(x) - Wrap \in -Wrap .. -1
    BY <1>1, WrapAssumption
  <2>2. Mod(Mod(x) - Wrap) = (Mod(x) - Wrap) + Wrap
    BY <2>1, ModSmall
  <2> QED BY <1>1, <1>2, <1>4, <2>2, WrapAssumption DEF Signed
<1> QED BY <1>2, <1>3, <1>4

\* Signed depends on the remainder only.
LEMMA SignedCongruent ==
    ASSUME NEW x \in Int, NEW y \in Int, Mod(x) = Mod(y)
    PROVE  Signed(x) = Signed(y)
  BY DEF Signed

-----------------------------------------------------------------------------
(* Queues: what adding and removing one node does.                          *)

Nodes == [type : EventTypes, count : 0 .. Wrap - 1, left : Int]

\* u is q with the node e added at place p, and at some place.
InsertedAt(u, q, e, p) ==
    /\ u \in Seq(Nodes)
    /\ Len(u) = Len(q) + 1
    /\ p \in 1 .. Len(u)
    /\ \A i \in 1 .. Len(u) :
          u[i] = IF i < p THEN q[i] ELSE IF i = p THEN e ELSE q[i - 1]

Inserted(u, q, e) == \E p \in 1 .. Len(u) : InsertedAt(u, q, e, p)

\* u is q without its node at place p.
Removed(u, q, p) ==
    /\ u \in Seq(Nodes)
    /\ Len(u) = Len(q) - 1
    /\ \A i \in 1 .. Len(u) : u[i] = IF i < p THEN q[i] ELSE q[i + 1]

\* SelectInSeq with a test finds a place that passes it, or says that there is none.
LEMMA LeastOfSet ==
    ASSUME NEW T, T \subseteq Nat, T # {}
    PROVE  Min(T) \in T
  BY LeastNumber DEF Min

\* A new event goes somewhere in the queue or behind it.
LEMMA InsertPosRange ==
    ASSUME NEW s, s.q \in Seq(Nodes), NEW count
    PROVE  InsertPos(s, count) \in 1 .. Len(s.q) + 1
<1> DEFINE I == {i \in 1 .. Len(s.q) : BeforeEvent(s, count, s.q[i].count)}
<1>0. I \subseteq Nat
  OBVIOUS
<1>1. I # {} => Min(I) \in I
  <2> HIDE DEF I
  <2> QED BY <1>0, LeastOfSet
<1>2. I # {} => Min(I) \in 1 .. Len(s.q) /\ Min(I) # 0
  BY <1>1
<1>3. InsertPos(s, count) = IF I # {} THEN Min(I) ELSE Len(s.q) + 1
  BY <1>2 DEF InsertPos, SelectInSeq
<1> QED BY <1>2, <1>3

\* The elements of a concatenation.
LEMMA Concatenation ==
    ASSUME NEW a \in Seq(Nodes), NEW b \in Seq(Nodes)
    PROVE  /\ a \o b \in Seq(Nodes)
           /\ Len(a \o b) = Len(a) + Len(b)
           /\ \A i \in 1 .. Len(a) + Len(b) :
                 (a \o b)[i] = IF i <= Len(a) THEN a[i] ELSE b[i - Len(a)]
  OBVIOUS

\* InsertAt adds one node, where it is told.
LEMMA InsertAtPlace ==
    ASSUME NEW q \in Seq(Nodes), NEW p \in 1 .. Len(q) + 1, NEW e \in Nodes
    PROVE  InsertedAt(InsertAt(q, p, e), q, e, p)
<1> DEFINE u == InsertAt(q, p, e)
           a == SubSeq(q, 1, p - 1)
           b == SubSeq(q, p, Len(q))
<1>a. a \in Seq(Nodes) /\ Len(a) = p - 1 /\ \A i \in 1 .. p - 1 : a[i] = q[i]
  OBVIOUS
<1>b. b \in Seq(Nodes) /\ Len(b) = Len(q) - p + 1
      /\ \A i \in 1 .. Len(q) - p + 1 : b[i] = q[p + i - 1]
  OBVIOUS
<1>u. u = (a \o <<e>>) \o b
  BY DEF InsertAt
<1> HIDE DEF a, b, u
<1>c. a \o <<e>> \in Seq(Nodes) /\ Len(a \o <<e>>) = p
      /\ \A i \in 1 .. p : (a \o <<e>>)[i] = IF i < p THEN q[i] ELSE e
  BY <1>a
<1> DEFINE c == a \o <<e>>
<1> HIDE DEF c
<1>d. c \in Seq(Nodes) /\ Len(c) = p /\ u = c \o b
      /\ \A i \in 1 .. p : c[i] = IF i < p THEN q[i] ELSE e
  BY <1>c, <1>u DEF c
<1>f. u \in Seq(Nodes) /\ Len(u) = Len(c) + Len(b)
      /\ \A i \in 1 .. Len(c) + Len(b) : u[i] = IF i <= Len(c) THEN c[i] ELSE b[i - Len(c)]
  BY <1>b, <1>d, Concatenation, Zenon
<1>1. u \in Seq(Nodes) /\ Len(u) = Len(q) + 1
  <2>1. Len(q) \in Nat
    OBVIOUS
  <2> QED BY <1>b, <1>d, <1>f, <2>1
<1>2. \A i \in 1 .. Len(u) :
         u[i] = IF i < p THEN q[i] ELSE IF i = p THEN e ELSE q[i - 1]
  <2>1. \A i \in 1 .. Len(u) : u[i] = IF i <= p THEN c[i] ELSE b[i - p]
    BY <1>d, <1>f, Zenon
  <2>2. ASSUME NEW i \in 1 .. Len(u), i > p
        PROVE  i - p \in 1 .. Len(q) - p + 1 /\ p + (i - p) - 1 = i - 1
    BY <1>1, <2>2
  <2>3. ASSUME NEW i \in 1 .. Len(u), i > p
        PROVE  u[i] = q[i - 1]
    BY <1>b, <2>1, <2>2, <2>3
  <2>4. ASSUME NEW i \in 1 .. Len(u), i <= p
        PROVE  u[i] = IF i < p THEN q[i] ELSE e
    BY <1>d, <2>1, <2>4
  <2> QED BY <2>3, <2>4
<1>3. p \in 1 .. Len(u)
  BY <1>1
<1> QED BY <1>1, <1>2, <1>3 DEF InsertedAt, u

\* InsertAt adds one node.
LEMMA InsertAtInserts ==
    ASSUME NEW q \in Seq(Nodes), NEW p \in 1 .. Len(q) + 1, NEW e \in Nodes
    PROVE  Inserted(InsertAt(q, p, e), q, e)
  BY InsertAtPlace DEF Inserted, InsertedAt

\* So does the concatenation with which r4300_check_interrupt puts a node in front.
LEMMA ConsInserts ==
    ASSUME NEW q \in Seq(Nodes), NEW e \in Nodes
    PROVE  Inserted(<<e>> \o q, q, e) /\ (<<e>> \o q)[1] = e
<1> DEFINE u == <<e>> \o q
<1>1. u \in Seq(Nodes) /\ Len(u) = Len(q) + 1
  OBVIOUS
<1>2. \A i \in 1 .. Len(u) :
         u[i] = IF i < 1 THEN q[i] ELSE IF i = 1 THEN e ELSE q[i - 1]
  OBVIOUS
<1>3. 1 \in 1 .. Len(u)
  BY <1>1
<1> QED BY <1>1, <1>2, <1>3 DEF Inserted, InsertedAt

\* RemoveAt takes one node out.
LEMMA RemoveAtRemoves ==
    ASSUME NEW q \in Seq(Nodes), NEW p \in 1 .. Len(q)
    PROVE  Removed(RemoveAt(q, p), q, p)
<1> DEFINE u == RemoveAt(q, p)
           a == SubSeq(q, 1, p - 1)
           b == SubSeq(q, p + 1, Len(q))
<1>a. a \in Seq(Nodes) /\ Len(a) = p - 1 /\ \A i \in 1 .. p - 1 : a[i] = q[i]
  OBVIOUS
<1>b. b \in Seq(Nodes) /\ Len(b) = Len(q) - p
      /\ \A i \in 1 .. Len(q) - p : b[i] = q[p + i]
  OBVIOUS
<1>u. u = a \o b
  BY DEF RemoveAt
<1> HIDE DEF a, b, u
<1>f. u \in Seq(Nodes) /\ Len(u) = Len(a) + Len(b)
      /\ \A i \in 1 .. Len(a) + Len(b) : u[i] = IF i <= Len(a) THEN a[i] ELSE b[i - Len(a)]
  BY <1>a, <1>b, <1>u, Concatenation, Zenon
<1>1. u \in Seq(Nodes) /\ Len(u) = Len(q) - 1
  <2>1. Len(q) \in Nat
    OBVIOUS
  <2> QED BY <1>a, <1>b, <1>f, <2>1
<1>2. \A i \in 1 .. Len(u) : u[i] = IF i < p THEN q[i] ELSE q[i + 1]
  <2>1. \A i \in 1 .. Len(u) : u[i] = IF i <= p - 1 THEN a[i] ELSE b[i - (p - 1)]
    BY <1>a, <1>f, Zenon
  <2>2. ASSUME NEW i \in 1 .. Len(u), i >= p
        PROVE  i - (p - 1) \in 1 .. Len(q) - p /\ p + (i - (p - 1)) = i + 1
    BY <1>1, <2>2
  <2>3. ASSUME NEW i \in 1 .. Len(u), i >= p
        PROVE  u[i] = q[i + 1]
    BY <1>b, <2>1, <2>2, <2>3
  <2>4. ASSUME NEW i \in 1 .. Len(u), i < p
        PROVE  u[i] = q[i]
    BY <1>a, <2>1, <2>4
  <2> QED BY <2>3, <2>4
<1> QED BY <1>1, <1>2 DEF Removed, u

\* Tail takes the first one out.
LEMMA TailRemoves ==
    ASSUME NEW q \in Seq(Nodes), q # <<>>
    PROVE  Removed(Tail(q), q, 1)
<1>1. Tail(q) \in Seq(Nodes) /\ Len(Tail(q)) = Len(q) - 1
  OBVIOUS
<1>2. \A i \in 1 .. Len(Tail(q)) : Tail(q)[i] = q[i + 1]
  OBVIOUS
<1> QED BY <1>1, <1>2 DEF Removed

WithoutFirst(q, type) == RemoveFirstMatch(q, LAMBDA e : e.type = type)

\* remove_event takes out one node of the type, if there is one.
LEMMA FirstMatchRemoves ==
    ASSUME NEW q \in Seq(Nodes), NEW type
    PROVE  LET u == WithoutFirst(q, type)
           IN  IF \E i \in 1 .. Len(q) : q[i].type = type
               THEN \E p \in 1 .. Len(q) : q[p].type = type /\ Removed(u, q, p)
               ELSE u = q
<1> DEFINE u == WithoutFirst(q, type)
           I == {i \in 1 .. Len(q) : q[i].type = type}
<1>1. CASE I # {}
  <2>0. I \subseteq Nat
    OBVIOUS
  <2>1. Min(I) \in I
    <3> HIDE DEF I
    <3> QED BY <1>1, <2>0, LeastOfSet
  <2>2. u = RemoveAt(q, Min(I))
    BY <1>1 DEF WithoutFirst, RemoveFirstMatch, SelectInSeq
  <2> QED BY <2>1, <2>2, RemoveAtRemoves
<1>2. CASE I = {}
  BY <1>2 DEF WithoutFirst, RemoveFirstMatch
<1> QED BY <1>1, <1>2

Occurs(q, type) == \E i \in 1 .. Len(q) : q[i].type = type
Once(q, type) ==
    \A i, j \in 1 .. Len(q) : q[i].type = type /\ q[j].type = type => i = j

\* The nodes of a queue with one more node.
LEMMA InsertedFacts ==
    ASSUME NEW q \in Seq(Nodes), NEW e \in Nodes, NEW u, Inserted(u, q, e)
    PROVE  /\ \A i \in 1 .. Len(u) : u[i] = e \/ \E j \in 1 .. Len(q) : u[i] = q[j]
           /\ \E i \in 1 .. Len(u) : u[i] = e
           /\ \A j \in 1 .. Len(q) : \E i \in 1 .. Len(u) : u[i] = q[j]
           /\ \A type : Once(q, type) /\ (type = e.type => ~Occurs(q, type))
                           => Once(u, type)
<1>0. u \in Seq(Nodes) /\ Len(u) = Len(q) + 1 /\ Len(q) \in Nat
  BY DEF Inserted, InsertedAt
<1>1. PICK p \in 1 .. Len(u) :
        \A i \in 1 .. Len(u) :
            u[i] = IF i < p THEN q[i] ELSE IF i = p THEN e ELSE q[i - 1]
  BY DEF Inserted, InsertedAt
<1> DEFINE old(i) == IF i < p THEN i ELSE i - 1
<1>2. ASSUME NEW i \in 1 .. Len(u), i # p
      PROVE  old(i) \in 1 .. Len(q) /\ u[i] = q[old(i)]
  <2>1. CASE i < p
    BY <1>0, <1>1, <2>1
  <2>2. CASE i > p
    <3>1. u[i] = q[i - 1] /\ old(i) = i - 1
      BY <1>1, <2>2
    <3> QED BY <1>0, <2>2, <3>1
  <2> QED BY <1>2, <2>1, <2>2
<1>3. ASSUME NEW j \in 1 .. Len(q) PROVE \E i \in 1 .. Len(u) : u[i] = q[j]
  <2>1. CASE j < p
    <3>1. j \in 1 .. Len(u) /\ j # p /\ old(j) = j
      BY <1>0, <2>1
    <3> QED BY <1>2, <3>1
  <2>2. CASE j >= p
    <3>1. j + 1 \in 1 .. Len(u) /\ j + 1 # p /\ old(j + 1) = j
      BY <1>0, <2>2
    <3> QED BY <1>2, <3>1
  <2> QED BY <2>1, <2>2
<1>4. ASSUME NEW type, Once(q, type), type = e.type => ~Occurs(q, type)
      PROVE  Once(u, type)
  <2> SUFFICES ASSUME NEW i \in 1 .. Len(u), NEW j \in 1 .. Len(u),
                      u[i].type = type, u[j].type = type
               PROVE  i = j
    BY DEF Once
  <2>1. CASE i # p /\ j # p
    <3>1. old(i) = old(j)
      BY <1>2, <1>4, <2>1 DEF Once
    <3> QED BY <1>0, <2>1, <3>1
  <2>2. ASSUME NEW k \in 1 .. Len(u), k # p, u[k].type = type, u[p].type = type
        PROVE  FALSE
    <3>1. type = e.type
      BY <1>1, <2>2
    <3> QED BY <1>2, <1>4, <2>2, <3>1 DEF Occurs
  <2> QED BY <2>1, <2>2
<1>5. u[p] = e
  BY <1>1
<1>6. \A i \in 1 .. Len(u) : u[i] = e \/ \E j \in 1 .. Len(q) : u[i] = q[j]
  <2> HIDE DEF old
  <2> QED BY <1>2, <1>5
<1> QED BY <1>3, <1>4, <1>5, <1>6

\* The nodes of a queue with one node less.
LEMMA RemovedFacts ==
    ASSUME NEW q \in Seq(Nodes), NEW p \in 1 .. Len(q), NEW u, Removed(u, q, p)
    PROVE  /\ \A i \in 1 .. Len(u) : \E j \in 1 .. Len(q) : u[i] = q[j]
           /\ \A j \in 1 .. Len(q) : j # p => \E i \in 1 .. Len(u) : u[i] = q[j]
           /\ \A type : Once(q, type) => Once(u, type)
           /\ Once(q, q[p].type) => ~Occurs(u, q[p].type)
<1>0. u \in Seq(Nodes) /\ Len(u) = Len(q) - 1 /\ Len(q) \in Nat
  BY DEF Removed
<1> DEFINE old(i) == IF i < p THEN i ELSE i + 1
<1>1. ASSUME NEW i \in 1 .. Len(u)
      PROVE  old(i) \in 1 .. Len(q) /\ u[i] = q[old(i)] /\ old(i) # p
  BY <1>0 DEF Removed
<1>2. ASSUME NEW j \in 1 .. Len(q), j # p PROVE \E i \in 1 .. Len(u) : u[i] = q[j]
  <2>1. CASE j < p
    <3>1. j \in 1 .. Len(u) /\ old(j) = j
      BY <1>0, <2>1
    <3> QED BY <1>1, <3>1
  <2>2. CASE j > p
    <3>1. j - 1 \in 1 .. Len(u) /\ old(j - 1) = j
      BY <1>0, <2>2
    <3> QED BY <1>1, <3>1
  <2> QED BY <1>2, <2>1, <2>2
<1>3. ASSUME NEW type, Once(q, type) PROVE Once(u, type)
  <2> SUFFICES ASSUME NEW i \in 1 .. Len(u), NEW j \in 1 .. Len(u),
                      u[i].type = type, u[j].type = type
               PROVE  i = j
    BY DEF Once
  <2>1. old(i) = old(j)
    BY <1>1, <1>3 DEF Once
  <2> QED BY <1>0, <2>1
<1>4. ASSUME Once(q, q[p].type), Occurs(u, q[p].type) PROVE FALSE
  <2>1. PICK i \in 1 .. Len(u) : u[i].type = q[p].type
    BY <1>4 DEF Occurs
  <2> QED BY <1>1, <1>4, <2>1 DEF Once
<1>5. \A i \in 1 .. Len(u) : \E j \in 1 .. Len(q) : u[i] = q[j]
  <2> HIDE DEF old
  <2> QED BY <1>1
<1> QED BY <1>2, <1>3, <1>4, <1>5

-----------------------------------------------------------------------------
(* CPU states and the invariant.                                            *)

States ==
    [count : 0 .. Wrap - 1, compare : 0 .. Wrap - 1, next : 0 .. Wrap - 1,
     cycle : -Half .. Half - 1, q : Seq(Nodes), ie : BOOLEAN, exl : BOOLEAN,
     erl : BOOLEAN, im : SUBSET IPs, cause : SUBSET IPs, rcp : BOOLEAN,
     vi : {0, ViDelay}, skip : BOOLEAN, resetJob : BOOLEAN, stop : BOOLEAN, took : BOOLEAN]

\* The registers that the operations on the queue leave alone.
SameRegisters(t, s) ==
    /\ t.compare = s.compare /\ t.ie = s.ie /\ t.exl = s.exl /\ t.erl = s.erl
    /\ t.im = s.im /\ t.cause = s.cause /\ t.rcp = s.rcp /\ t.skip = s.skip
    /\ t.vi = s.vi /\ t.resetJob = s.resetJob /\ t.stop = s.stop /\ t.took = s.took

\* What the code knows of an event, its count, agrees with when it is really due.
Matches(q, count) ==
    \A i \in 1 .. Len(q) : Mod(q[i].left) = Mod(q[i].count - count)

\* Every event but the timer is scheduled at most half a lap ahead.
Near(q) == \A i \in 1 .. Len(q) : q[i].type # "COMPARE_INT" => q[i].left <= Half

\* No event is queued twice but CHECK_INT.
Singles(q) == \A type \in EventTypes \ {"CHECK_INT"} : Once(q, type)

\* The guard is at a multiple of half a lap, the timer at Compare, or at 0 after a
\* soft reset, and only a soft reset schedules an NMI.
Timely(type, count, compare) ==
    /\ type = "SPECIAL_INT" => count \in {0, Half}
    /\ type = "COMPARE_INT" => count = compare \/ (Resets /\ count = 0)
    /\ type = "NMI_INT" => Resets

Armed(s) == \A i \in 1 .. Len(s.q) : Timely(s.q[i].type, s.q[i].count, s.compare)

QueueOK(s) ==
    /\ s \in States
    /\ Len(s.q) <= Capacity
    /\ Armed(s)
    /\ Matches(s.q, s.count)
    /\ Near(s.q)
    /\ Singles(s.q)

Timers(q) == Occurs(q, "SPECIAL_INT") /\ Occurs(q, "COMPARE_INT")

\* next_interrupt and cycle_count describe the first node.
Synced(s) ==
    /\ s.q # <<>>
    /\ s.next = s.q[1].count
    /\ s.cycle = Signed(s.count - s.q[1].count)

\* The pool has a node for every type of event, as the 16 of the code do.
Room == IsFiniteSet(EventTypes) /\ Capacity >= Cardinality(EventTypes)

\* A pending and unmasked interrupt has its CHECK_INT.
NoneLost(s) == Room => (Unmasked(s) => Occurs(s.q, "CHECK_INT"))

CpuOK(s) ==
    /\ QueueOK(s)
    /\ Timers(s.q)
    /\ ~s.skip => Synced(s)
    /\ NoneLost(s)

-----------------------------------------------------------------------------
(* The operators of EventQueue, one lemma each.                             *)

\* The first node of a queue that is not empty.
LEMMA FirstNode ==
    ASSUME NEW s \in States, s.q # <<>>
    PROVE  s.q[1] \in Nodes /\ s.q[1].count \in 0 .. Wrap - 1
<1>1. s.q \in Seq(Nodes)
  BY DEF States
<1>2. s.q[1] \in Nodes
  BY <1>1
<1> QED BY <1>2 DEF Nodes

\* Sync sets next_interrupt and cycle_count, and nothing else.
LEMMA SyncOK ==
    ASSUME NEW s \in States, s.q # <<>>
    PROVE  /\ Sync(s) \in States /\ Synced(Sync(s)) /\ SameRegisters(Sync(s), s)
           /\ Sync(s).q = s.q /\ Sync(s).count = s.count
<1>1. s.count \in Int /\ s.q[1].count \in 0 .. Wrap - 1
  BY FirstNode, WrapAssumption DEF States
<1>2. Signed(s.count - s.q[1].count) \in -Half .. Half - 1
  <2>1. s.count - s.q[1].count \in Int
    BY <1>1, WrapAssumption
  <2> QED BY <2>1, SignedRange, Zenon
<1>3. Sync(s) = [s EXCEPT !.next = s.q[1].count,
                          !.cycle = Signed(s.count - s.q[1].count)]
  BY DEF Sync
<1> DEFINE c == Signed(s.count - s.q[1].count)
           n == s.q[1].count
<1>4. c \in -Half .. Half - 1 /\ n \in 0 .. Wrap - 1
      /\ Sync(s) = [s EXCEPT !.next = n, !.cycle = c]
  BY <1>1, <1>2, <1>3
<1>5. Synced(Sync(s)) /\ Sync(s).q = s.q /\ Sync(s).count = s.count
  BY <1>3 DEF Synced, States
<1> HIDE DEF c, n
<1>6. Sync(s) \in States
  BY <1>4 DEF States
<1>7. SameRegisters(Sync(s), s)
  BY <1>4 DEF SameRegisters, States
<1> QED BY <1>5, <1>6, <1>7

\* Adding a node to a queue with a free place.
LEMMA AddShape ==
    ASSUME NEW s \in States, Len(s.q) < Capacity,
           NEW type \in EventTypes, NEW count \in 0 .. Wrap - 1, NEW left \in Int
    PROVE  LET t == AddEventCount(s, type, count, left)
           IN  /\ t \in States /\ Synced(t) /\ SameRegisters(t, s) /\ t.count = s.count
               /\ Event(type, count, left) \in Nodes
               /\ Inserted(t.q, s.q, Event(type, count, left))
<1> DEFINE e == Event(type, count, left)
           u == InsertAt(s.q, InsertPos(s, count), e)
           v == [s EXCEPT !.q = u]
           t == AddEventCount(s, type, count, left)
<1>1. e \in Nodes
  BY DEF Event, Nodes
<1>2. s.q \in Seq(Nodes)
  BY DEF States
<1>3. Inserted(u, s.q, e)
  BY <1>1, <1>2, InsertPosRange, InsertAtInserts
<1>4. ~(Len(s.q) >= Capacity)
  BY <1>2, CapacityAssumption
<1>5. t = Sync(v)
  BY <1>4 DEF AddEventCount
<1> HIDE DEF u, e, t
<1>6. u \in Seq(Nodes) /\ u # <<>>
  <2>1. u \in Seq(Nodes) /\ Len(u) = Len(s.q) + 1 /\ Len(s.q) \in Nat
    BY <1>2, <1>3 DEF Inserted, InsertedAt
  <2> QED BY <2>1
<1>7. v \in States /\ v.q = u /\ v.count = s.count /\ SameRegisters(v, s)
  BY <1>6 DEF States, SameRegisters
<1> HIDE DEF v
<1>8. t \in States /\ Synced(t) /\ SameRegisters(t, v) /\ t.q = v.q /\ t.count = v.count
  BY <1>5, <1>6, <1>7, SyncOK
<1>9. SameRegisters(t, s)
  BY <1>7, <1>8 DEF SameRegisters
<1> QED BY <1>1, <1>3, <1>7, <1>8, <1>9 DEF t, e

\* What a new node must satisfy.
LEMMA InsertedOK ==
    ASSUME NEW s, QueueOK(s), Len(s.q) < Capacity, NEW t \in States, t.count = s.count,
           t.compare = s.compare, NEW e \in Nodes, Inserted(t.q, s.q, e),
           Timely(e.type, e.count, s.compare),
           Mod(e.left) = Mod(e.count - s.count),
           e.type # "COMPARE_INT" => e.left <= Half,
           e.type # "CHECK_INT" => ~Occurs(s.q, e.type)
    PROVE  /\ QueueOK(t)
           /\ \A type : Occurs(t.q, type) <=> (Occurs(s.q, type) \/ type = e.type)
<1> DEFINE q == s.q
           u == t.q
<1>1. /\ q \in Seq(Nodes) /\ u \in Seq(Nodes) /\ Inserted(u, q, e)
      /\ Len(q) \in Nat /\ Len(u) = Len(q) + 1
  BY DEF QueueOK, States, Inserted, InsertedAt
<1>2. Matches(q, s.count) /\ Near(q) /\ Singles(q)
  BY DEF QueueOK
<1> HIDE DEF q, u
<1>3. /\ \A i \in 1 .. Len(u) : u[i] = e \/ \E j \in 1 .. Len(q) : u[i] = q[j]
      /\ \E i \in 1 .. Len(u) : u[i] = e
      /\ \A j \in 1 .. Len(q) : \E i \in 1 .. Len(u) : u[i] = q[j]
      /\ \A type : Once(q, type) /\ (type = e.type => ~Occurs(q, type))
                      => Once(u, type)
  BY <1>1, InsertedFacts
<1>4. Matches(u, s.count)
  BY <1>2, <1>3 DEF Matches
<1>5. Near(u)
  BY <1>2, <1>3 DEF Near
<1>6. Singles(u)
  BY <1>2, <1>3 DEF Singles, q
<1>a. Armed(t)
  <2>1. Armed(s)
    BY DEF QueueOK
  <2>2. \A i \in 1 .. Len(u) : Timely(u[i].type, u[i].count, s.compare)
    BY <1>3, <2>1 DEF Armed, q
  <2> QED BY <2>2 DEF Armed, u
<1>7. Len(u) <= Capacity
  BY <1>1, CapacityAssumption DEF q
<1>8. ASSUME NEW type PROVE Occurs(u, type) <=> (Occurs(q, type) \/ type = e.type)
  <2>1. ASSUME Occurs(u, type) PROVE Occurs(q, type) \/ type = e.type
    <3>1. PICK i \in 1 .. Len(u) : u[i].type = type
      BY <2>1 DEF Occurs
    <3>2. u[i] = e \/ \E j \in 1 .. Len(q) : u[i] = q[j]
      BY <1>3
    <3> QED BY <3>1, <3>2 DEF Occurs
  <2>2. ASSUME Occurs(q, type) PROVE Occurs(u, type)
    <3>1. PICK j \in 1 .. Len(q) : q[j].type = type
      BY <2>2 DEF Occurs
    <3>2. PICK i \in 1 .. Len(u) : u[i] = q[j]
      BY <1>3
    <3> QED BY <3>1, <3>2 DEF Occurs
  <2>3. ASSUME type = e.type PROVE Occurs(u, type)
    <3>1. PICK i \in 1 .. Len(u) : u[i] = e
      BY <1>3
    <3> QED BY <2>3, <3>1 DEF Occurs
  <2> QED BY <2>1, <2>2, <2>3
<1> QED BY <1>4, <1>5, <1>6, <1>a, <1>7, <1>8 DEF QueueOK, q, u

\* Taking a node out: the others stay, and its type is gone unless it is CHECK_INT.
LEMMA RemovedOK ==
    ASSUME NEW s, QueueOK(s), NEW t \in States, t.count = s.count, t.compare = s.compare,
           NEW p \in 1 .. Len(s.q), Removed(t.q, s.q, p)
    PROVE  /\ QueueOK(t) /\ Len(t.q) = Len(s.q) - 1 /\ Len(t.q) < Capacity
           /\ \A type : type # s.q[p].type => (Occurs(t.q, type) <=> Occurs(s.q, type))
           /\ s.q[p].type # "CHECK_INT" => ~Occurs(t.q, s.q[p].type)
<1> DEFINE q == s.q
           u == t.q
<1>1. /\ q \in Seq(Nodes) /\ u \in Seq(Nodes) /\ Removed(u, q, p) /\ p \in 1 .. Len(q)
      /\ Len(q) \in Nat /\ Len(u) = Len(q) - 1 /\ Len(q) <= Capacity
  <2>1. q \in Seq(Nodes) /\ Len(q) <= Capacity
    BY DEF QueueOK, States
  <2>2. Len(q) \in Nat
    BY <2>1
  <2> QED BY <2>1, <2>2 DEF Removed
<1>2. Matches(q, s.count) /\ Near(q) /\ Singles(q)
  BY DEF QueueOK
<1> HIDE DEF q, u
<1>3. /\ \A i \in 1 .. Len(u) : \E j \in 1 .. Len(q) : u[i] = q[j]
      /\ \A j \in 1 .. Len(q) : j # p => \E i \in 1 .. Len(u) : u[i] = q[j]
      /\ \A type : Once(q, type) => Once(u, type)
      /\ Once(q, q[p].type) => ~Occurs(u, q[p].type)
  BY <1>1, RemovedFacts
<1>4. Matches(u, s.count) /\ Near(u) /\ Singles(u)
  <2>1. Matches(u, s.count)
    BY <1>2, <1>3 DEF Matches
  <2>2. Near(u)
    BY <1>2, <1>3 DEF Near
  <2>3. Singles(u)
    BY <1>2, <1>3 DEF Singles
  <2> QED BY <2>1, <2>2, <2>3
<1>a. Armed(t)
  <2>1. Armed(s)
    BY DEF QueueOK
  <2>2. \A i \in 1 .. Len(u) : Timely(u[i].type, u[i].count, s.compare)
    BY <1>3, <2>1 DEF Armed, q
  <2> QED BY <2>2 DEF Armed, u
<1>5. Len(u) < Capacity
  BY <1>1, CapacityAssumption
<1>6. ASSUME NEW type, type # q[p].type PROVE Occurs(u, type) <=> Occurs(q, type)
  <2>1. ASSUME Occurs(u, type) PROVE Occurs(q, type)
    <3>1. PICK i \in 1 .. Len(u) : u[i].type = type
      BY <2>1 DEF Occurs
    <3>2. PICK j \in 1 .. Len(q) : u[i] = q[j]
      BY <1>3
    <3> QED BY <3>1, <3>2 DEF Occurs
  <2>2. ASSUME Occurs(q, type) PROVE Occurs(u, type)
    <3>1. PICK j \in 1 .. Len(q) : q[j].type = type
      BY <2>2 DEF Occurs
    <3>2. j # p
      BY <1>6, <3>1
    <3>3. PICK i \in 1 .. Len(u) : u[i] = q[j]
      BY <1>3, <3>2
    <3> QED BY <3>1, <3>3 DEF Occurs
  <2> QED BY <2>1, <2>2
<1>7. q[p].type \in EventTypes
  <2>1. q[p] \in Nodes
    BY <1>1
  <2> QED BY <2>1 DEF Nodes
<1>8. q[p].type # "CHECK_INT" => ~Occurs(u, q[p].type)
  BY <1>2, <1>3, <1>7 DEF Singles
<1> QED BY <1>1, <1>4, <1>a, <1>5, <1>6, <1>8, CapacityAssumption DEF QueueOK, q, u

\* add_interrupt_event_count, with or without a free node.
LEMMA AddOK ==
    ASSUME NEW s, QueueOK(s),
           NEW type \in EventTypes, NEW count \in 0 .. Wrap - 1, NEW left \in Int,
           Mod(left) = Mod(count - s.count), Timely(type, count, s.compare),
           type # "COMPARE_INT" => left <= Half,
           type # "CHECK_INT" => ~Occurs(s.q, type)
    PROVE  LET t == AddEventCount(s, type, count, left)
           IN  /\ QueueOK(t) /\ SameRegisters(t, s) /\ t.count = s.count
               /\ \A other : Occurs(s.q, other) => Occurs(t.q, other)
               /\ \A other : Occurs(t.q, other) => Occurs(s.q, other) \/ other = type
               /\ Synced(s) => Synced(t)
               /\ Len(s.q) < Capacity => /\ Synced(t) /\ Occurs(t.q, type)
                                        /\ Len(t.q) = Len(s.q) + 1
<1> DEFINE t == AddEventCount(s, type, count, left)
           e == Event(type, count, left)
<1>0. s \in States /\ Len(s.q) \in Nat /\ Capacity \in Nat
  BY CapacityAssumption DEF QueueOK, States
<1>1. CASE Len(s.q) < Capacity
  <2>1. /\ t \in States /\ Synced(t) /\ SameRegisters(t, s) /\ t.count = s.count
        /\ e \in Nodes /\ Inserted(t.q, s.q, e)
    BY <1>0, <1>1, AddShape
  <2>2. e.type = type /\ e.count = count /\ e.left = left
    BY DEF Event
  <2> HIDE DEF t, e
  <2>3. QueueOK(t) /\ \A other : Occurs(t.q, other) <=> (Occurs(s.q, other) \/ other = type)
    <3>1. t.compare = s.compare
      BY <2>1 DEF SameRegisters
    <3> QED BY <1>1, <2>1, <2>2, <3>1, InsertedOK
  <2>4. Len(t.q) = Len(s.q) + 1
    BY <2>1 DEF Inserted, InsertedAt
  <2> QED BY <2>1, <2>3, <2>4 DEF t
<1>2. CASE Len(s.q) >= Capacity
  <2>1. t = s
    BY <1>2 DEF AddEventCount
  <2> QED BY <1>0, <1>2, <2>1 DEF SameRegisters
<1> QED BY <1>0, <1>1, <1>2

\* remove_interrupt_event: with both timers queued one node is left at least.
LEMMA RemoveFirstOK ==
    ASSUME NEW s, QueueOK(s), Timers(s.q)
    PROVE  LET t == RemoveFirstEvent(s)
           IN  /\ QueueOK(t) /\ SameRegisters(t, s) /\ t.count = s.count
               /\ Synced(t) /\ Len(t.q) < Capacity /\ Removed(t.q, s.q, 1)
               /\ \A type : type # s.q[1].type => (Occurs(t.q, type) <=> Occurs(s.q, type))
               /\ s.q[1].type # "CHECK_INT" => ~Occurs(t.q, s.q[1].type)
<1> DEFINE u == Tail(s.q)
           v == [s EXCEPT !.q = u]
           t == RemoveFirstEvent(s)
<1>1. s \in States /\ s.q \in Seq(Nodes)
  BY DEF QueueOK, States
<1>2. PICK i \in 1 .. Len(s.q) : s.q[i].type = "SPECIAL_INT"
  BY DEF Timers, Occurs
<1>3. PICK j \in 1 .. Len(s.q) : s.q[j].type = "COMPARE_INT"
  BY DEF Timers, Occurs
<1>4. i # j
  BY <1>2, <1>3
<1>5. Len(s.q) >= 2 /\ Len(s.q) \in Nat
  BY <1>1, <1>4
<1>6. Removed(u, s.q, 1) /\ 1 \in 1 .. Len(s.q)
  BY <1>1, <1>5, TailRemoves
<1>7. u \in Seq(Nodes) /\ u # <<>>
  <2>1. u \in Seq(Nodes) /\ Len(u) >= 1
    BY <1>5, <1>6 DEF Removed
  <2> HIDE DEF u
  <2> QED BY <2>1
<1>8. t = Sync(v)
  BY DEF RemoveFirstEvent
<1> HIDE DEF t, u
<1>9. v \in States /\ v.q = u /\ v.count = s.count /\ SameRegisters(v, s)
  BY <1>1, <1>7 DEF States, SameRegisters
<1> HIDE DEF v
<1>10. t \in States /\ Synced(t) /\ SameRegisters(t, v) /\ t.q = v.q /\ t.count = v.count
  BY <1>7, <1>8, <1>9, SyncOK
<1>11. SameRegisters(t, s) /\ t.q = u /\ t.count = s.count
  BY <1>9, <1>10 DEF SameRegisters
<1>12. Removed(t.q, s.q, 1)
  BY <1>6, <1>11
<1>13. /\ QueueOK(t) /\ Len(t.q) < Capacity
       /\ \A type : type # s.q[1].type => (Occurs(t.q, type) <=> Occurs(s.q, type))
       /\ s.q[1].type # "CHECK_INT" => ~Occurs(t.q, s.q[1].type)
  <2>1. t.compare = s.compare
    BY <1>11 DEF SameRegisters
  <2> QED BY <1>6, <1>10, <1>11, <1>12, <2>1, RemovedOK
<1> QED BY <1>10, <1>11, <1>12, <1>13 DEF t

\* remove_event, which does not touch next_interrupt and cycle_count.
LEMMA RemoveEventOK ==
    ASSUME NEW s, QueueOK(s), NEW type \in EventTypes \ {"CHECK_INT"}
    PROVE  LET t == RemoveEvent(s, type)
           IN  /\ QueueOK(t) /\ SameRegisters(t, s) /\ t.count = s.count
               /\ ~Occurs(t.q, type)
               /\ \A other : other # type => (Occurs(t.q, other) <=> Occurs(s.q, other))
               /\ IF Occurs(s.q, type) THEN Len(t.q) = Len(s.q) - 1 ELSE t.q = s.q
<1> DEFINE u == WithoutFirst(s.q, type)
           t == RemoveEvent(s, type)
<1>1. s \in States /\ s.q \in Seq(Nodes)
  BY DEF QueueOK, States
<1>2. IF \E i \in 1 .. Len(s.q) : s.q[i].type = type
      THEN \E p \in 1 .. Len(s.q) : s.q[p].type = type /\ Removed(u, s.q, p)
      ELSE u = s.q
  BY <1>1, FirstMatchRemoves
<1>3. t = [s EXCEPT !.q = u]
  BY DEF RemoveEvent, WithoutFirst
<1> HIDE DEF t, u
<1>4. CASE Occurs(s.q, type)
  <2>1. PICK p \in 1 .. Len(s.q) : s.q[p].type = type /\ Removed(u, s.q, p)
    BY <1>2, <1>4 DEF Occurs
  <2>2. u \in Seq(Nodes)
    BY <2>1 DEF Removed
  <2>3. t \in States /\ t.q = u /\ t.count = s.count /\ SameRegisters(t, s)
    BY <1>1, <1>3, <2>2 DEF States, SameRegisters
  <2>4. /\ QueueOK(t) /\ Len(t.q) = Len(s.q) - 1
        /\ \A other : other # s.q[p].type => (Occurs(t.q, other) <=> Occurs(s.q, other))
        /\ s.q[p].type # "CHECK_INT" => ~Occurs(t.q, s.q[p].type)
    <3>1. t.compare = s.compare
      BY <2>3 DEF SameRegisters
    <3> QED BY <2>1, <2>3, <3>1, RemovedOK
  <2> QED BY <1>4, <2>1, <2>3, <2>4 DEF t
<1>5. CASE ~Occurs(s.q, type)
  <2>1. u = s.q
    BY <1>2, <1>5 DEF Occurs
  <2>2. t = s
    BY <1>1, <1>3, <2>1 DEF States
  <2> QED BY <1>5, <2>2 DEF SameRegisters, t
<1> QED BY <1>4, <1>5

\* Arming SPECIAL_INT: its distance is at most half a lap.
LEMMA AddSpecialOK ==
    ASSUME NEW s, QueueOK(s), ~Occurs(s.q, "SPECIAL_INT"), Len(s.q) < Capacity
    PROVE  LET t == AddSpecial(s)
           IN  /\ QueueOK(t) /\ SameRegisters(t, s) /\ t.count = s.count
               /\ Synced(t) /\ Len(t.q) = Len(s.q) + 1
               /\ \A type : Occurs(t.q, type) <=> (Occurs(s.q, type) \/ type = "SPECIAL_INT")
<1> DEFINE c == IF s.count < Half THEN Half ELSE 0
           l == Half - (s.count % Half)
           e == Event("SPECIAL_INT", c, l)
           t == AddSpecial(s)
<1>1. s \in States /\ s.count \in 0 .. Wrap - 1
  BY DEF QueueOK, States
<1>2. s.count % Half = IF s.count < Half THEN s.count ELSE s.count - Half
  BY <1>1, HalfType
<1>l. l = IF s.count < Half THEN Half - s.count ELSE Half - (s.count - Half)
  BY <1>2
<1>n. t = AddEventCount(s, "SPECIAL_INT", c, l) /\ "SPECIAL_INT" \in EventTypes
  BY DEF AddSpecial, EventTypes
<1> HIDE DEF l, t
<1>3. /\ c \in 0 .. Wrap - 1 /\ l \in Int /\ l <= Half
      /\ l = c - s.count \/ l = c - s.count + 1 * Wrap
  BY <1>1, <1>l, HalfType
<1>4. Mod(l) = Mod(c - s.count)
  <2>1. c - s.count \in Int
    BY <1>1, <1>3, HalfType
  <2>2. Mod(c - s.count + 1 * Wrap) = Mod(c - s.count)
    BY <2>1, ModShift
  <2> QED BY <1>3, <2>2
<1> HIDE DEF c
<1>6. /\ t \in States /\ Synced(t) /\ SameRegisters(t, s) /\ t.count = s.count
      /\ e \in Nodes /\ Inserted(t.q, s.q, e)
  BY <1>1, <1>3, <1>n, AddShape
<1>7. e.type = "SPECIAL_INT" /\ e.count = c /\ e.left = l
  BY DEF Event
<1> HIDE DEF e
<1>8. QueueOK(t) /\ \A type : Occurs(t.q, type) <=> (Occurs(s.q, type) \/ type = e.type)
  <2>1. /\ Mod(e.left) = Mod(e.count - s.count)
        /\ e.type # "COMPARE_INT" => e.left <= Half
        /\ e.type # "CHECK_INT" => ~Occurs(s.q, e.type)
    BY <1>3, <1>4, <1>7
  <2>2. Timely(e.type, e.count, s.compare) /\ t.compare = s.compare
    BY <1>6, <1>7 DEF Timely, SameRegisters, c
  <2> QED BY <1>6, <2>1, <2>2, InsertedOK, Zenon
<1> QED BY <1>6, <1>7, <1>8 DEF Inserted, InsertedAt, t

\* Arming the timer.  While Count is moved ahead the queue is only read through
\* before_event, so that the place may be any, and cycle_count is put right after it.
LEMMA AddCompareOK ==
    ASSUME NEW s, QueueOK(s), ~Occurs(s.q, "COMPARE_INT"), Len(s.q) < Capacity,
           NEW compare \in 0 .. Wrap - 1, compare = s.compare
    PROVE  LET t == AddCompare(s, compare)
           IN  /\ QueueOK(t) /\ SameRegisters(t, s) /\ t.count = s.count
               /\ Synced(t) /\ Len(t.q) = Len(s.q) + 1
               /\ \A type : Occurs(t.q, type) <=> (Occurs(s.q, type) \/ type = "COMPARE_INT")
<1> DEFINE n == Mod(s.count + CountPerOp)
           k == Signed(s.cycle + CountPerOp)
           ahead == [s EXCEPT !.count = n, !.cycle = k]
           lap == Mod(compare - n) + CountPerOp
           e == Event("COMPARE_INT", compare, lap)
           added == AddEventCount(ahead, "COMPARE_INT", compare, lap)
           c == Signed(s.count - added.q[1].count)
           t == AddCompare(s, compare)
<1>1. s \in States /\ s.count \in 0 .. Wrap - 1 /\ s.count \in Int /\ s.cycle \in Int
      /\ CountPerOp \in Int /\ compare \in Int
  BY WrapAssumption, HalfType, CountPerOpAssumption DEF QueueOK, States
<1>2. s.count + CountPerOp \in Int /\ s.cycle + CountPerOp \in Int
  BY <1>1
<1>3. n \in 0 .. Wrap - 1 /\ n \in Int /\ k \in -Half .. Half - 1
      /\ Mod(n) = Mod(s.count + CountPerOp)
  <2>1. n \in 0 .. Wrap - 1 /\ k \in -Half .. Half - 1 /\ Mod(n) = Mod(s.count + CountPerOp)
    BY <1>2, ModRange, SignedRange, ModMod
  <2> QED BY <2>1, WrapAssumption
<1>4. lap \in Int /\ Mod(lap) = Mod(compare - s.count)
  <2> DEFINE m == Mod(compare - n)
  <2> HIDE DEF n
  <2>1. compare - n \in Int /\ m \in 0 .. Wrap - 1 /\ Mod(m) = Mod(compare - n)
    <3>1. compare - n \in Int
      BY <1>1, <1>3
    <3> QED BY <3>1, ModRange, ModMod
  <2>2. m \in Int
    BY <2>1, WrapAssumption
  <2> HIDE DEF m
  <2>3. Mod(m + CountPerOp) = Mod((compare - n) + CountPerOp)
    <3>1. PICK x \in Int : x = compare - n
      BY <2>1
    <3>2. CountPerOp \in Int /\ Mod(m) = Mod(x)
      BY <1>1, <2>1, <3>1
    <3>3. Mod(m + CountPerOp) = Mod(x + CountPerOp)
      BY <2>2, <3>2, ModPlus
    <3> QED BY <3>1, <3>3
  <2>4. (compare - n) + CountPerOp = (compare + CountPerOp) - n
        /\ compare + CountPerOp \in Int
    BY <1>1, <1>3
  <2>5. Mod((compare + CountPerOp) - n)
            = Mod((compare + CountPerOp) - (s.count + CountPerOp))
    BY <1>2, <1>3, <2>4, ModPlus
  <2>6. (compare + CountPerOp) - (s.count + CountPerOp) = compare - s.count
    BY <1>1
  <2> QED BY <1>1, <2>2, <2>3, <2>4, <2>5, <2>6 DEF m
<1> HIDE DEF n, k, lap
<1>5. ahead \in States /\ ahead.q = s.q /\ SameRegisters(ahead, s)
  BY <1>1, <1>3 DEF States, SameRegisters
<1>6. ahead.count = n
  BY <1>1 DEF States
<1>7. t = [added EXCEPT !.count = s.count, !.cycle = c]
  <2>1. lap = Mod(compare - ahead.count) + CountPerOp
    BY <1>6 DEF lap
  <2> QED BY <2>1 DEF AddCompare, n, k
<1> HIDE DEF ahead, t
<1>8. /\ added \in States /\ Synced(added) /\ SameRegisters(added, ahead)
      /\ e \in Nodes /\ Inserted(added.q, s.q, e)
  <2>1. "COMPARE_INT" \in EventTypes
    BY DEF EventTypes
  <2> QED BY <1>4, <1>5, <2>1, AddShape
<1>9. e.type = "COMPARE_INT" /\ e.count = compare /\ e.left = lap
  BY DEF Event
<1> HIDE DEF added, e
<1>10. c \in -Half .. Half - 1
  <2>1. added.q[1].count \in 0 .. Wrap - 1
    BY <1>8, FirstNode DEF Synced
  <2>2. s.count - added.q[1].count \in Int
    BY <1>1, <2>1, WrapAssumption
  <2> QED BY <2>2, SignedRange
<1>11. t.cycle = c /\ t.count = s.count /\ t.q = added.q /\ t.next = added.next
  BY <1>7, <1>8 DEF States
<1>12. Synced(t)
  BY <1>8, <1>11 DEF Synced
<1> HIDE DEF c
<1>13. t \in States
  BY <1>1, <1>7, <1>8, <1>10 DEF States
<1>14. SameRegisters(t, s)
  BY <1>5, <1>7, <1>8 DEF SameRegisters, States
<1>15. Inserted(t.q, s.q, e)
  BY <1>8, <1>11
<1>16. QueueOK(t) /\ \A type : Occurs(t.q, type) <=> (Occurs(s.q, type) \/ type = e.type)
  <2>1. /\ Mod(e.left) = Mod(e.count - s.count)
        /\ e.type # "COMPARE_INT" => e.left <= Half
        /\ e.type # "CHECK_INT" => ~Occurs(s.q, e.type)
    BY <1>4, <1>9
  <2>2. Timely(e.type, e.count, s.compare) /\ t.compare = s.compare
    BY <1>9, <1>14 DEF Timely, SameRegisters
  <2> QED BY <1>8, <1>11, <1>13, <1>15, <2>1, <2>2, InsertedOK, Zenon
<1> QED BY <1>9, <1>11, <1>12, <1>14, <1>15, <1>16 DEF Inserted, InsertedAt, t

\* Nodes that keep their types and places.
LEMMA MappedOK ==
    ASSUME NEW s, QueueOK(s), NEW t \in States, Len(t.q) = Len(s.q),
           \A i \in 1 .. Len(s.q) : t.q[i].type = s.q[i].type,
           Matches(t.q, t.count), Near(t.q), Armed(t)
    PROVE  QueueOK(t) /\ \A type : Occurs(t.q, type) <=> Occurs(s.q, type)
<1>1. Singles(t.q)
  BY DEF Singles, Once, QueueOK
<1> QED BY <1>1 DEF QueueOK, Occurs

\* Count and cycle_count move on by d cycles.
Advanced(s, d) ==
    [s EXCEPT !.count = Mod(s.count + d), !.cycle = Signed(s.cycle + d),
              !.q = [i \in 1 .. Len(s.q) |-> [s.q[i] EXCEPT !.left = Nearer(@, d)]]]

\* The distance after d cycles is right modulo a lap, and exact unless the event is a
\* whole lap late.
LEMMA NearerOK ==
    ASSUME NEW x \in Int, NEW d \in Int
    PROVE  /\ Nearer(x, d) \in Int /\ Mod(Nearer(x, d)) = Mod(x - d)
           /\ x - d <= Half => Nearer(x, d) <= Half
           /\ x - d > -Wrap => Nearer(x, d) = x - d
<1>1. Wrap \in Int /\ Half \in Int /\ Half >= 0
  BY HalfType, WrapAssumption
<1>2. CASE x - d > -Wrap
  BY <1>2 DEF Nearer
<1>3. CASE ~(x - d > -Wrap)
  <2> DEFINE y == d - x
             m == Mod(y)
  <2>1. y \in Int /\ Nearer(x, d) = 0 - m
    BY <1>3, ModRange, WrapAssumption DEF Nearer, Mod
  <2>2. 0 - y = x - d
    OBVIOUS
  <2> HIDE DEF y
  <2>3. m \in 0 .. Wrap - 1 /\ Mod(m) = Mod(y)
    BY <2>1, ModRange, ModMod
  <2>4. m \in Int /\ m >= 0
    BY <1>1, <2>3
  <2> HIDE DEF m
  <2>5. Mod(0 - m) = Mod(0 - y)
    <3>1. m \in Int /\ y \in Int /\ 0 \in Int /\ Mod(m) = Mod(y)
      BY <2>1, <2>3, <2>4
    <3> QED BY ONLY <3>1, ModPlus, ZenonT(30)
  <2> QED BY <1>1, <1>3, <2>1, <2>2, <2>4, <2>5
<1> QED BY <1>2, <1>3

\* Every event comes nearer by d, and cycle_count follows.
LEMMA AdvancedOK ==
    ASSUME NEW s, QueueOK(s), NEW d \in Nat
    PROVE  LET t == Advanced(s, d)
           IN  /\ QueueOK(t) /\ SameRegisters(t, s)
               /\ Synced(s) => Synced(t)
               /\ \A type : Occurs(t.q, type) <=> Occurs(s.q, type)
<1> DEFINE q == s.q
           m == Mod(s.count + d)
           k == Signed(s.cycle + d)
           u == [i \in 1 .. Len(q) |-> [q[i] EXCEPT !.left = Nearer(@, d)]]
           t == Advanced(s, d)
<1>1. d \in Nat
  OBVIOUS
<1>2. t = [s EXCEPT !.count = m, !.cycle = k, !.q = u]
  BY DEF Advanced
<1>3. s \in States /\ q \in Seq(Nodes) /\ s.count \in Int /\ s.cycle \in Int
      /\ Matches(q, s.count) /\ Near(q)
  BY WrapAssumption, HalfType DEF QueueOK, States
<1> HIDE DEF t, q
<1>4. m \in 0 .. Wrap - 1 /\ m \in Int /\ Mod(m) = Mod(s.count + d)
      /\ k \in -Half .. Half - 1 /\ Mod(k) = Mod(s.cycle + d)
  <2>1. s.count + d \in Int /\ s.cycle + d \in Int
    BY <1>1, <1>3
  <2>2. m \in 0 .. Wrap - 1 /\ Mod(m) = Mod(s.count + d)
        /\ k \in -Half .. Half - 1 /\ Mod(k) = Mod(s.cycle + d)
    BY <2>1, ModRange, SignedRange, ModMod
  <2> QED BY <2>2, WrapAssumption
<1>5. ASSUME NEW i \in 1 .. Len(q)
      PROVE  /\ q[i] \in Nodes /\ q[i].left \in Int /\ q[i].count \in Int
             /\ [q[i] EXCEPT !.left = Nearer(@, d)] \in Nodes
             /\ u[i].left = Nearer(q[i].left, d) /\ u[i].count = q[i].count
             /\ u[i].type = q[i].type
             /\ Mod(u[i].left) = Mod(q[i].left - d)
             /\ q[i].left - d <= Half => u[i].left <= Half
  <2>1. q[i] \in Nodes
    BY <1>3
  <2>2. q[i].left \in Int /\ d \in Int
    BY <1>1, <2>1 DEF Nodes
  <2>3. /\ Nearer(q[i].left, d) \in Int /\ Mod(Nearer(q[i].left, d)) = Mod(q[i].left - d)
        /\ q[i].left - d <= Half => Nearer(q[i].left, d) <= Half
    BY <2>2, NearerOK
  <2> QED BY <2>1, <2>3, WrapAssumption DEF Nodes
<1>6. u \in Seq(Nodes) /\ Len(u) = Len(q)
  BY <1>3, <1>5
<1> HIDE DEF u
<1>7. Matches(u, m)
  <2> SUFFICES ASSUME NEW i \in 1 .. Len(q)
               PROVE  Mod(u[i].left) = Mod(u[i].count - m)
    BY <1>6 DEF Matches
  <2>1. q[i].left \in Int /\ q[i].count \in Int
    BY <1>5
  <2>2. Mod(q[i].left) = Mod(q[i].count - s.count)
    BY <1>3 DEF Matches
  <2>3. Mod(q[i].left - d) = Mod((q[i].count - s.count) - d)
    <3>1. d \in Int /\ \E x \in Int : x = q[i].count - s.count
      BY <1>1, <1>3, <2>1
    <3>2. PICK x \in Int : x = q[i].count - s.count
      BY <3>1
    <3>3. q[i].left \in Int /\ Mod(q[i].left) = Mod(x)
      BY <2>1, <2>2, <3>2
    <3>4. Mod(q[i].left - d) = Mod(x - d)
      BY <3>1, <3>3, ModPlus
    <3> QED BY <3>2, <3>4
  <2>4. (q[i].count - s.count) - d = q[i].count - (s.count + d) /\ s.count + d \in Int
    BY <1>1, <1>3, <2>1
  <2>5. Mod(q[i].count - (s.count + d)) = Mod(q[i].count - m)
    <3>1. PICK x \in Int : x = s.count + d
      BY <2>4
    <3>2. m \in Int /\ q[i].count \in Int /\ Mod(x) = Mod(m)
      BY <1>4, <2>1, <3>1
    <3>3. Mod(q[i].count - x) = Mod(q[i].count - m)
      BY <3>2, ModPlus
    <3> QED BY <3>1, <3>3
  <2> QED BY <1>5, <2>3, <2>4, <2>5
<1>8. Near(u)
  <2> SUFFICES ASSUME NEW i \in 1 .. Len(q), u[i].type # "COMPARE_INT"
               PROVE  u[i].left <= Half
    BY <1>6 DEF Near
  <2>1. q[i].left \in Int /\ q[i].type # "COMPARE_INT"
        /\ (q[i].left - d <= Half => u[i].left <= Half)
    BY <1>5
  <2>2. q[i].left <= Half
    BY <1>3, <2>1 DEF Near
  <2>3. q[i].left - d <= Half
    BY <1>1, <2>1, <2>2, HalfType
  <2> QED BY <2>1, <2>3
<1> HIDE DEF m, k
<1>9. t \in States /\ SameRegisters(t, s)
  BY <1>2, <1>3, <1>4, <1>6 DEF States, SameRegisters
<1>10. t.q = u /\ t.count = m /\ t.cycle = k /\ t.next = s.next
  BY <1>2, <1>3 DEF States
<1>a. Armed(t)
  <2>1. Armed(s) /\ t.compare = s.compare
    BY <1>9 DEF QueueOK, SameRegisters
  <2> QED BY <1>5, <1>6, <1>10, <2>1 DEF Armed, q
<1>11. QueueOK(t) /\ \A type : Occurs(t.q, type) <=> Occurs(s.q, type)
  BY <1>5, <1>6, <1>7, <1>8, <1>9, <1>10, <1>a, MappedOK DEF q
<1>12. ASSUME Synced(s) PROVE Synced(t)
  <2>1. q # <<>> /\ s.next = q[1].count /\ s.cycle = Signed(s.count - q[1].count)
    BY <1>12 DEF Synced, q
  <2>2. Len(q) >= 1 /\ 1 \in 1 .. Len(q) /\ u # <<>>
    BY <1>3, <1>6, <2>1
  <2>3. q[1].count \in Int /\ u[1].count = q[1].count
    BY <1>5, <2>2
  <2>4. s.count - q[1].count \in Int
    BY <1>3, <2>3
  <2>5. Mod(s.cycle) = Mod(s.count - q[1].count)
    BY <2>1, <2>4, SignedRange
  <2>6. Mod(s.cycle + d) = Mod((s.count - q[1].count) + d) /\ d \in Int
    BY <1>1, <1>3, <2>4, <2>5, ModPlus
  <2>7. (s.count - q[1].count) + d = (s.count + d) - q[1].count /\ s.count + d \in Int
    BY <1>1, <1>3, <2>3
  <2>8. Mod((s.count + d) - q[1].count) = Mod(m - q[1].count)
    BY <1>4, <2>3, <2>7, ModPlus
  <2>9. s.cycle + d \in Int /\ m - q[1].count \in Int
    BY <1>1, <1>3, <1>4, <2>3
  <2>10. Signed(s.cycle + d) = Signed(m - q[1].count)
    BY <2>6, <2>7, <2>8, <2>9, SignedCongruent
  <2> QED BY <1>10, <2>1, <2>2, <2>3, <2>10 DEF Synced, k
<1> QED BY <1>9, <1>11, <1>12 DEF t

\* cp0_update_count.
LEMMA UpdateCountOK ==
    ASSUME NEW s, QueueOK(s), NEW n \in Nat
    PROVE  LET t == UpdateCount(s, n)
           IN  /\ QueueOK(t) /\ SameRegisters(t, s)
               /\ Synced(s) => Synced(t)
               /\ \A type : Occurs(t.q, type) <=> Occurs(s.q, type)
<1>1. PICK d \in Nat : d = n * CountPerOp
  BY CountPerOpAssumption
<1>2. UpdateCount(s, n) = Advanced(s, d)
  BY <1>1 DEF UpdateCount, Advanced
<1> QED BY <1>2, AdvancedOK

\* An idle loop moves on by exactly what is missing to the first event.
LEMMA SkipIdleAdvances ==
    ASSUME NEW s, QueueOK(s), s.cycle < 0, NEW d \in Nat, d = 0 - s.cycle
    PROVE  SkipIdle(s) = Advanced(s, d)
<1>1. s \in States /\ s.cycle \in Int /\ s.count \in Int
  BY WrapAssumption, HalfType DEF QueueOK, States
<1>2. s.count - s.cycle = s.count + d /\ s.cycle + d = 0 /\ ~(s.cycle >= 0)
  BY <1>1
<1>3. Signed(0) = 0
  <2>1. 0 \in 0 .. Wrap - 1
    BY WrapAssumption
  <2> QED BY <2>1, ModSmall, HalfType DEF Signed
<1> QED BY <1>2, <1>3 DEF SkipIdle, Advanced

\* The queue of an idle loop.
LEMMA SkipIdleOK ==
    ASSUME NEW s, QueueOK(s), Synced(s)
    PROVE  LET t == SkipIdle(s)
           IN  /\ QueueOK(t) /\ SameRegisters(t, s) /\ Synced(t)
               /\ \A type : Occurs(t.q, type) <=> Occurs(s.q, type)
<1>1. s.cycle \in Int
  BY HalfType DEF QueueOK, States
<1>2. CASE s.cycle >= 0
  BY <1>2 DEF SkipIdle, SameRegisters
<1>3. CASE s.cycle < 0
  <2>1. PICK d \in Nat : d = 0 - s.cycle
    BY <1>1, <1>3
  <2>2. SkipIdle(s) = Advanced(s, d)
    BY <1>3, <2>1, SkipIdleAdvances
  <2> QED BY <2>2, AdvancedOK
<1> QED BY <1>1, <1>2, <1>3

\* translate_event_queue takes the two timers out with remove_event ...
Untimed(s) == RemoveEvent(RemoveEvent(s, "COMPARE_INT"), "SPECIAL_INT")

\* ... moves the other events, which keep their distances, ...
MovedBy(c, s, base) ==
    /\ QueueOK(c) /\ SameRegisters(c, s) /\ c.count = base
    /\ Len(c.q) = Len(s.q) - 2 /\ c.cycle = Untimed(s).cycle
    /\ Untimed(s).q \in Seq(Nodes) /\ Len(c.q) = Len(Untimed(s).q)
    /\ \A i \in 1 .. Len(c.q) : /\ c.q[i].type = Untimed(s).q[i].type
                                /\ c.q[i].left = Untimed(s).q[i].left
    /\ ~Occurs(c.q, "COMPARE_INT") /\ ~Occurs(c.q, "SPECIAL_INT")
    /\ \A type : type # "COMPARE_INT" /\ type # "SPECIAL_INT"
                    => (Occurs(c.q, type) <=> Occurs(s.q, type))

\* ... and arms the timers anew, for which there is room.
LEMMA MovedOK ==
    ASSUME NEW s, QueueOK(s), Timers(s.q), NEW base \in 0 .. Wrap - 1
    PROVE  \E c : /\ TranslateEventQueue(s, base) = AddCompare(AddSpecial(c), s.compare)
                  /\ MovedBy(c, s, base)
<1> DEFINE a == RemoveEvent(s, "COMPARE_INT")
           b == RemoveEvent(a, "SPECIAL_INT")
           q == b.q
           u == [i \in 1 .. Len(q) |-> [q[i] EXCEPT !.count = Mod(@ - s.count + base)]]
           c == [b EXCEPT !.q = u, !.count = base]
<1>1. /\ QueueOK(a) /\ SameRegisters(a, s) /\ a.count = s.count
      /\ ~Occurs(a.q, "COMPARE_INT") /\ Len(a.q) = Len(s.q) - 1
      /\ \A other : other # "COMPARE_INT" => (Occurs(a.q, other) <=> Occurs(s.q, other))
  <2>1. "COMPARE_INT" \in EventTypes \ {"CHECK_INT"}
    BY DEF EventTypes
  <2> QED BY <2>1, RemoveEventOK DEF Timers
<1>t. TranslateEventQueue(s, base) = AddCompare(AddSpecial(c), s.compare)
  BY DEF TranslateEventQueue
<1>k. Untimed(s) = b
  BY DEF Untimed
<1> HIDE DEF a
<1>2. /\ QueueOK(b) /\ SameRegisters(b, a) /\ b.count = a.count
      /\ ~Occurs(b.q, "SPECIAL_INT") /\ Len(b.q) = Len(a.q) - 1
      /\ \A other : other # "SPECIAL_INT" => (Occurs(b.q, other) <=> Occurs(a.q, other))
  <2>1. "SPECIAL_INT" \in EventTypes \ {"CHECK_INT"} /\ "SPECIAL_INT" # "COMPARE_INT"
    BY DEF EventTypes
  <2>2. Occurs(a.q, "SPECIAL_INT")
    BY <1>1, <2>1 DEF Timers
  <2> QED BY <1>1, <2>1, <2>2, RemoveEventOK
<1> HIDE DEF b, q
<1>3. /\ b \in States /\ q \in Seq(Nodes) /\ s.count \in Int /\ base \in Int
      /\ Matches(q, s.count) /\ Near(q)
  <2>1. b \in States /\ Matches(b.q, b.count) /\ Near(b.q) /\ s \in States
    BY <1>2 DEF QueueOK
  <2> QED BY <1>1, <1>2, <2>1, WrapAssumption DEF States, q
<1>4. ASSUME NEW i \in 1 .. Len(q)
      PROVE  /\ q[i] \in Nodes /\ q[i].left \in Int /\ q[i].count \in Int
             /\ q[i].count - s.count + base \in Int
             /\ Mod(q[i].count - s.count + base) \in 0 .. Wrap - 1
  <2>1. q[i] \in Nodes
    BY <1>3
  <2>2. q[i].left \in Int /\ q[i].count \in Int
    BY <2>1, WrapAssumption DEF Nodes
  <2>3. q[i].count - s.count + base \in Int
    BY <1>3, <2>2
  <2> QED BY <2>1, <2>2, <2>3, ModRange
<1>5. ASSUME NEW i \in 1 .. Len(q)
      PROVE  /\ [q[i] EXCEPT !.count = Mod(@ - s.count + base)] \in Nodes
             /\ u[i].left = q[i].left /\ u[i].count = Mod(q[i].count - s.count + base)
             /\ u[i].type = q[i].type
  BY <1>4 DEF Nodes
<1>6. u \in Seq(Nodes) /\ Len(u) = Len(q)
  BY <1>3, <1>5
<1> HIDE DEF u
<1>7. Matches(u, base)
  <2> SUFFICES ASSUME NEW i \in 1 .. Len(q)
               PROVE  Mod(u[i].left) = Mod(u[i].count - base)
    BY <1>6 DEF Matches
  <2> DEFINE x == q[i].count - s.count + base
  <2>1. x \in Int /\ Mod(x) \in Int /\ Mod(Mod(x)) = Mod(x)
    BY <1>4, ModMod, ModRange, WrapAssumption
  <2>2. Mod(Mod(x) - base) = Mod(x - base)
    BY <1>3, <2>1, ModPlus
  <2>3. x - base = q[i].count - s.count
    BY <1>3, <1>4
  <2>4. Mod(q[i].left) = Mod(q[i].count - s.count)
    BY <1>3 DEF Matches
  <2> QED BY <1>5, <2>2, <2>3, <2>4
<1>8. Near(u)
  BY <1>3, <1>5, <1>6 DEF Near
<1>9. c \in States /\ c.q = u /\ c.count = base /\ SameRegisters(c, b) /\ c.cycle = b.cycle
  BY <1>3, <1>6 DEF States, SameRegisters
<1> HIDE DEF c
<1>a. Armed(c)
  <2>1. Armed(b) /\ c.compare = b.compare /\ ~Occurs(q, "SPECIAL_INT")
        /\ ~Occurs(q, "COMPARE_INT")
    BY <1>1, <1>2, <1>9 DEF QueueOK, SameRegisters, q
  <2>2. ASSUME NEW i \in 1 .. Len(q)
        PROVE  Timely(u[i].type, u[i].count, b.compare)
    <3>1. Timely(q[i].type, q[i].count, b.compare)
      BY <2>1 DEF Armed, q
    <3>2. q[i].type # "SPECIAL_INT" /\ q[i].type # "COMPARE_INT"
      BY <2>1 DEF Occurs
    <3> QED BY <1>5, <3>1, <3>2 DEF Timely
  <2> QED BY <1>6, <1>9, <2>1, <2>2 DEF Armed
<1>10. QueueOK(c) /\ \A type : Occurs(c.q, type) <=> Occurs(b.q, type)
  BY <1>2, <1>5, <1>6, <1>7, <1>8, <1>9, <1>a, MappedOK DEF q
<1>11. Len(c.q) = Len(s.q) - 2 /\ Len(s.q) \in Nat /\ Len(s.q) <= Capacity
  <2>1. s \in States /\ Len(s.q) <= Capacity
    BY DEF QueueOK
  <2>2. Len(s.q) \in Nat
    BY <2>1 DEF States
  <2> QED BY <1>1, <1>2, <1>6, <1>9, <2>1, <2>2 DEF q
<1>12. SameRegisters(c, s)
  BY <1>1, <1>2, <1>9 DEF SameRegisters
<1>13. /\ ~Occurs(c.q, "COMPARE_INT") /\ ~Occurs(c.q, "SPECIAL_INT")
       /\ \A type : type # "COMPARE_INT" /\ type # "SPECIAL_INT"
                       => (Occurs(c.q, type) <=> Occurs(s.q, type))
  BY <1>1, <1>2, <1>10
<1>14. MovedBy(c, s, base)
  BY <1>k, <1>3, <1>5, <1>6, <1>9, <1>10, <1>11, <1>12, <1>13 DEF MovedBy, q
<1> QED BY <1>t, <1>14

\* translate_event_queue.
LEMMA TranslateOK ==
    ASSUME NEW s, QueueOK(s), Timers(s.q), NEW base \in 0 .. Wrap - 1
    PROVE  LET t == TranslateEventQueue(s, base)
           IN  /\ QueueOK(t) /\ SameRegisters(t, s) /\ t.count = base
               /\ Synced(t) /\ Timers(t.q)
               /\ \A type : Occurs(s.q, type) => Occurs(t.q, type)
<1>1. PICK c : /\ TranslateEventQueue(s, base) = AddCompare(AddSpecial(c), s.compare)
               /\ MovedBy(c, s, base)
  BY MovedOK
<1>2. /\ QueueOK(c) /\ SameRegisters(c, s) /\ c.count = base /\ Len(c.q) = Len(s.q) - 2
      /\ ~Occurs(c.q, "COMPARE_INT") /\ ~Occurs(c.q, "SPECIAL_INT")
      /\ \A type : type # "COMPARE_INT" /\ type # "SPECIAL_INT"
                      => (Occurs(c.q, type) <=> Occurs(s.q, type))
  BY <1>1 DEF MovedBy
<1> DEFINE d == AddSpecial(c)
           t == AddCompare(d, s.compare)
<1>3. Len(s.q) \in Nat /\ Len(s.q) <= Capacity
  BY DEF QueueOK, States
<1>4. /\ QueueOK(d) /\ SameRegisters(d, c) /\ d.count = c.count
      /\ Synced(d) /\ Len(d.q) = Len(c.q) + 1
      /\ \A type : Occurs(d.q, type) <=> (Occurs(c.q, type) \/ type = "SPECIAL_INT")
  <2>1. Len(c.q) < Capacity
    BY <1>2, <1>3, CapacityAssumption
  <2> QED BY <1>2, <2>1, AddSpecialOK
<1> HIDE DEF d
<1>5. /\ QueueOK(t) /\ SameRegisters(t, d) /\ t.count = d.count
      /\ Synced(t) /\ Len(t.q) = Len(d.q) + 1
      /\ \A type : Occurs(t.q, type) <=> (Occurs(d.q, type) \/ type = "COMPARE_INT")
  <2>1. Len(d.q) < Capacity
    BY <1>2, <1>3, <1>4, CapacityAssumption
  <2>2. ~Occurs(d.q, "COMPARE_INT")
    BY <1>2, <1>4
  <2>3. s.compare \in 0 .. Wrap - 1
    BY DEF QueueOK, States
  <2>4. s.compare = d.compare
    BY <1>2, <1>4 DEF SameRegisters
  <2> QED BY <1>4, <2>1, <2>2, <2>3, <2>4, AddCompareOK
<1> HIDE DEF t
<1>6. SameRegisters(t, s)
  BY <1>2, <1>4, <1>5 DEF SameRegisters
<1>7. Timers(t.q) /\ \A type : Occurs(s.q, type) => Occurs(t.q, type)
  BY <1>2, <1>4, <1>5 DEF Timers
<1> QED BY <1>1, <1>2, <1>4, <1>5, <1>6, <1>7 DEF t, d

\* init_interrupt, with Count in its lower half.
LEMMA InitInterruptOK ==
    ASSUME NEW s \in States, s.count < Half, Resets \/ s.compare = 0
    PROVE  LET t == InitInterrupt(s)
           IN  /\ QueueOK(t) /\ SameRegisters(t, s) /\ t.count = s.count
               /\ Synced(t) /\ Timers(t.q)
               /\ \A type : Occurs(t.q, type) => type \in {"SPECIAL_INT", "COMPARE_INT"}
<1> DEFINE a == [s EXCEPT !.q = <<>>]
           l == Mod(Half - s.count)
           m == Mod(0 - s.count)
           b == AddEventCount(a, "SPECIAL_INT", Half, l)
           t == AddEventCount(b, "COMPARE_INT", 0, m)
<1>1. InitInterrupt(s) = t
  BY DEF InitInterrupt
<1>2. s.count \in 0 .. Wrap - 1 /\ s.count \in Int /\ Half - s.count \in 0 .. Wrap - 1
      /\ Half - s.count <= Half /\ Half - s.count \in Int /\ 0 - s.count \in Int
      /\ Half \in 0 .. Wrap - 1 /\ 0 \in 0 .. Wrap - 1
  BY HalfType DEF States
<1>3. l = Half - s.count
  BY <1>2, ModSmall
<1>4. m \in 0 .. Wrap - 1 /\ m \in Int /\ Mod(m) = Mod(0 - s.count)
  BY <1>2, ModRange, ModMod, WrapAssumption
<1>5. a \in States /\ a.q = <<>> /\ a.count = s.count /\ SameRegisters(a, s)
  <2> DEFINE none == <<>>
  <2>1. none \in Seq(Nodes)
    OBVIOUS
  <2> HIDE DEF none
  <2>2. a = [s EXCEPT !.q = none]
    BY DEF none
  <2> HIDE DEF a
  <2>3. a \in States /\ a.q = none /\ a.count = s.count /\ SameRegisters(a, s)
    BY <2>1, <2>2 DEF States, SameRegisters
  <2> QED BY <2>3 DEF none
<1> HIDE DEF a, l, m
<1>6. QueueOK(a) /\ (\A type : ~Occurs(a.q, type)) /\ Len(a.q) = 0
  BY <1>5, CapacityAssumption DEF QueueOK, Armed, Matches, Near, Singles, Once, Occurs
<1>7. /\ QueueOK(b) /\ SameRegisters(b, a) /\ b.count = a.count
      /\ \A other : Occurs(b.q, other) => Occurs(a.q, other) \/ other = "SPECIAL_INT"
      /\ Occurs(b.q, "SPECIAL_INT") /\ Len(b.q) = 1
  <2>1. "SPECIAL_INT" \in EventTypes /\ 0 < Capacity
    BY CapacityAssumption DEF EventTypes
  <2>2. /\ l \in Int /\ Mod(l) = Mod(Half - a.count) /\ Len(a.q) < Capacity
        /\ "SPECIAL_INT" # "COMPARE_INT" => l <= Half
        /\ "SPECIAL_INT" # "CHECK_INT" => ~Occurs(a.q, "SPECIAL_INT")
    BY <1>2, <1>3, <1>5, <1>6, <2>1
  <2>3. PICK h \in 0 .. Wrap - 1 : h = Half
    BY <1>2
  <2>4. LET c == AddEventCount(a, "SPECIAL_INT", h, l)
        IN  /\ QueueOK(c) /\ SameRegisters(c, a) /\ c.count = a.count
            /\ \A other : Occurs(c.q, other) => Occurs(a.q, other) \/ other = "SPECIAL_INT"
            /\ Occurs(c.q, "SPECIAL_INT") /\ Len(c.q) = Len(a.q) + 1
    <3>1. Mod(l) = Mod(h - a.count)
      BY <2>2, <2>3
    <3> HIDE DEF b, t
    <3>2. Len(a.q) < Capacity
      BY <2>2
    <3>3. QueueOK(a) /\ "SPECIAL_INT" \in EventTypes /\ l \in Int
          /\ ("SPECIAL_INT" # "COMPARE_INT" => l <= Half)
          /\ ("SPECIAL_INT" # "CHECK_INT" => ~Occurs(a.q, "SPECIAL_INT"))
      BY <1>6, <2>1, <2>2
    <3>4. Timely("SPECIAL_INT", h, a.compare)
      BY <2>3 DEF Timely
    <3> QED BY ONLY <3>1, <3>2, <3>3, <3>4, AddOK
  <2> QED BY <1>6, <2>3, <2>4
<1> HIDE DEF b
<1>8. /\ QueueOK(t) /\ SameRegisters(t, b) /\ t.count = b.count
      /\ \A other : Occurs(b.q, other) => Occurs(t.q, other)
      /\ \A other : Occurs(t.q, other) => Occurs(b.q, other) \/ other = "COMPARE_INT"
      /\ Synced(t) /\ Occurs(t.q, "COMPARE_INT")
  <2>1. "COMPARE_INT" \in EventTypes /\ 1 < Capacity /\ ~Occurs(b.q, "COMPARE_INT")
    BY <1>6, <1>7, CapacityAssumption DEF EventTypes
  <2>2. m \in Int /\ Mod(m) = Mod(0 - b.count) /\ Len(b.q) < Capacity
    BY <1>4, <1>5, <1>7, <2>1
  <2>3. Timely("COMPARE_INT", 0, b.compare)
    <3>1. b.compare = s.compare
      BY <1>5, <1>7 DEF SameRegisters
    <3> QED BY <3>1 DEF Timely
  <2> QED BY <1>2, <1>7, <2>1, <2>2, <2>3, AddOK, Zenon
<1> HIDE DEF t
<1>9. SameRegisters(t, s)
  BY <1>5, <1>7, <1>8 DEF SameRegisters
<1> QED BY <1>1, <1>5, <1>6, <1>7, <1>8, <1>9 DEF Timers

\* load_eventqueue_infos on the queue of the same state adds the nodes one by one:
\* g[n] is the state after the first n.
LoadedBy(s, g) ==
    /\ g[0] = [s EXCEPT !.q = <<>>]
    /\ \A n \in 1 .. Len(s.q) :
          g[n] = AddEventCount(g[n - 1], s.q[n].type, s.q[n].count, s.q[n].left)

\* What the first n turns of the loop have done.
LoadedOK(s, x, n) ==
    /\ QueueOK(x) /\ SameRegisters(x, s) /\ x.count = s.count /\ Len(x.q) = n
    /\ \A type : Occurs(x.q, type) <=> \E i \in 1 .. n : s.q[i].type = type

\* This is an induction over their number: first that the recursion in
\* LoadEventQueue defines a function, then what the function computes.
LEMMA LoadLoop ==
    ASSUME NEW s, QueueOK(s)
    PROVE  \E g : /\ LoadedBy(s, g)
                  /\ \A n \in 0 .. Len(s.q) : LoadedOK(s, g[n], n)
                  /\ LoadEventQueue(s, s.q)
                        = AddSpecial(RemoveEvent(g[Len(s.q)], "SPECIAL_INT"))
<1> DEFINE q == s.q
           N == Len(q)
           empty == [s EXCEPT !.q = <<>>]
           Add(x, n) == AddEventCount(x, q[n].type, q[n].count, q[n].left)
           F(g, n) == IF n = 0 THEN empty ELSE Add(g[n - 1], n)
           Fits(g, m) == g = [n \in 0 .. m |-> F(g, n)]
           loaded == CHOOSE g : Fits(g, N)
<1>1. LoadEventQueue(s, s.q) = AddSpecial(RemoveEvent(loaded[N], "SPECIAL_INT"))
  BY DEF LoadEventQueue
<1>2. s \in States /\ q \in Seq(Nodes) /\ N \in Nat /\ N <= Capacity
      /\ Matches(q, s.count) /\ Near(q) /\ Singles(q)
  <2>1. s \in States /\ q \in Seq(Nodes)
    BY DEF QueueOK, States
  <2> QED BY <2>1 DEF QueueOK
<1>3. QueueOK(empty) /\ SameRegisters(empty, s) /\ empty.count = s.count
      /\ Len(empty.q) = 0 /\ \A type : ~Occurs(empty.q, type)
  <2> DEFINE none == <<>>
  <2>1. none \in Seq(Nodes)
    OBVIOUS
  <2> HIDE DEF none
  <2>2. empty = [s EXCEPT !.q = none]
    BY DEF none
  <2> HIDE DEF empty
  <2>3. empty \in States /\ empty.q = none /\ empty.count = s.count
        /\ SameRegisters(empty, s)
    BY <1>2, <2>1, <2>2 DEF States, SameRegisters
  <2> QED BY <2>3, CapacityAssumption
          DEF none, QueueOK, Armed, Matches, Near, Singles, Once, Occurs
<1> HIDE DEF empty, Add, q, N
<1>4. \E g : Fits(g, 0)
  <2>1. Fits([n \in 0 .. 0 |-> empty], 0)
    OBVIOUS
  <2> QED BY <2>1
<1>5. ASSUME NEW m \in Nat, NEW g, Fits(g, m)
      PROVE  \E h : Fits(h, m + 1)
  <2> DEFINE h == [n \in 0 .. m + 1 |-> IF n <= m THEN g[n] ELSE Add(g[m], m + 1)]
  <2>1. ASSUME NEW n \in 0 .. m + 1 PROVE h[n] = F(h, n)
    <3>1. CASE n = 0
      BY <1>5, <3>1
    <3>2. CASE n \in 1 .. m
      <4>1. h[n] = g[n] /\ h[n - 1] = g[n - 1]
        BY <3>2
      <4>2. g[n] = F(g, n)
        BY <1>5, <3>2
      <4> QED BY <3>2, <4>1, <4>2
    <3>3. CASE n = m + 1
      <4>1. h[n] = Add(g[m], m + 1) /\ h[n - 1] = g[m] /\ n # 0
        BY <3>3
      <4> QED BY <3>3, <4>1
    <3> QED BY <3>1, <3>2, <3>3
  <2>2. Fits(h, m + 1)
    BY <2>1
  <2> QED BY <2>2
<1>6. \A m \in Nat : \E g : Fits(g, m)
  <2> SUFFICES ASSUME NEW b \in Nat, ~\E g : Fits(g, b) PROVE FALSE
    OBVIOUS
  <2> DEFINE T == {m \in Nat : ~\E g : Fits(g, m)}
  <2> HIDE DEF Fits
  <2>1. PICK x \in T : \A y \in T : x <= y
    <3>1. T \subseteq Nat /\ T # {}
      OBVIOUS
    <3> HIDE DEF T
    <3> QED BY <3>1, LeastNumber
  <2>2. x # 0
    BY <1>4, <2>1
  <2>3. x - 1 \in Nat /\ x - 1 \notin T /\ (x - 1) + 1 = x
    BY <2>1, <2>2
  <2>4. \E g : Fits(g, x - 1)
    BY <2>3
  <2>5. \E h : Fits(h, (x - 1) + 1)
    BY <1>5, <2>3, <2>4
  <2> QED BY <2>1, <2>3, <2>5
<1>7. Fits(loaded, N)
  <2>1. \E g : Fits(g, N)
    BY <1>2, <1>6
  <2> HIDE DEF Fits
  <2> QED BY <2>1
<1>8. loaded[0] = empty /\ \A n \in 1 .. N : loaded[n] = Add(loaded[n - 1], n)
  <2>1. \A n \in 0 .. N : loaded[n] = F(loaded, n)
    <3> HIDE DEF F, loaded
    <3> QED BY <1>7
  <2> HIDE DEF loaded
  <2>2. 0 \in 0 .. N /\ \A n \in 1 .. N : n \in 0 .. N /\ n # 0
    BY <1>2
  <2> QED BY <2>1, <2>2
<1> DEFINE Good(n) == LoadedOK(s, loaded[n], n)
<1> HIDE DEF loaded
<1>9. Good(0)
  BY <1>3, <1>8 DEF LoadedOK
<1>10. ASSUME NEW n \in 1 .. N, Good(n - 1) PROVE Good(n)
  <2> DEFINE x == loaded[n - 1]
             y == loaded[n]
  <2>0. n \in Nat /\ n >= 1 /\ n <= N
    BY <1>2
  <2>1. q[n] \in Nodes
    BY <1>2 DEF N
  <2>2. q[n].type \in EventTypes /\ q[n].count \in 0 .. Wrap - 1 /\ q[n].left \in Int
    BY <2>1 DEF Nodes
  <2>3. Mod(q[n].left) = Mod(q[n].count - x.count)
    BY <1>2, <1>10 DEF Matches, N, LoadedOK
  <2>4. q[n].type # "COMPARE_INT" => q[n].left <= Half
    BY <1>2, <1>10 DEF Near, N
  <2>5. q[n].type # "CHECK_INT" => ~Occurs(x.q, q[n].type)
    <3>1. ASSUME q[n].type # "CHECK_INT", NEW i \in 1 .. n - 1, q[i].type = q[n].type
          PROVE  FALSE
      <4>1. Once(q, q[n].type)
        BY <1>2, <2>2, <3>1 DEF Singles
      <4>2. i \in 1 .. Len(q) /\ n \in 1 .. Len(q) /\ i # n
        BY <2>0 DEF N
      <4> QED BY <3>1, <4>1, <4>2 DEF Once
    <3> QED BY <1>10, <3>1 DEF LoadedOK, q
  <2>6. Len(x.q) < Capacity /\ Len(x.q) + 1 = n
    BY <1>2, <1>10, <2>0, CapacityAssumption DEF LoadedOK
  <2>7. y = AddEventCount(x, q[n].type, q[n].count, q[n].left)
    BY <1>8 DEF Add
  <2>8. QueueOK(x) /\ SameRegisters(x, s) /\ x.count = s.count
        /\ \A type : Occurs(x.q, type) <=> \E i \in 1 .. n - 1 : q[i].type = type
    BY <1>10 DEF LoadedOK, q
  <2> HIDE DEF x, y
  <2>9. /\ QueueOK(y) /\ SameRegisters(y, x) /\ y.count = x.count
        /\ \A other : Occurs(x.q, other) => Occurs(y.q, other)
        /\ \A other : Occurs(y.q, other) => Occurs(x.q, other) \/ other = q[n].type
        /\ Occurs(y.q, q[n].type) /\ Len(y.q) = Len(x.q) + 1
    <3>1. PICK type \in EventTypes, count \in 0 .. Wrap - 1, left \in Int :
            type = q[n].type /\ count = q[n].count /\ left = q[n].left
      BY <2>2
    <3>2. /\ Mod(left) = Mod(count - x.count)
          /\ type # "COMPARE_INT" => left <= Half
          /\ type # "CHECK_INT" => ~Occurs(x.q, type)
          /\ y = AddEventCount(x, type, count, left) /\ Len(x.q) < Capacity
      BY <2>3, <2>4, <2>5, <2>6, <2>7, <3>1
    <3>5. Timely(type, count, x.compare)
      <4>1. Armed(s) /\ x.compare = s.compare /\ n \in 1 .. Len(s.q)
        BY <2>8 DEF QueueOK, SameRegisters, N, q
      <4> QED BY <3>1, <4>1 DEF Armed, q
    <3>3. QueueOK(x)
      BY <2>8
    <3>4. /\ QueueOK(y) /\ SameRegisters(y, x) /\ y.count = x.count
          /\ \A other : Occurs(x.q, other) => Occurs(y.q, other)
          /\ \A other : Occurs(y.q, other) => Occurs(x.q, other) \/ other = type
          /\ Occurs(y.q, type) /\ Len(y.q) = Len(x.q) + 1
      <4> DEFINE w == AddEventCount(x, type, count, left)
      <4>1. /\ QueueOK(w) /\ SameRegisters(w, x) /\ w.count = x.count
            /\ \A other : Occurs(x.q, other) => Occurs(w.q, other)
            /\ \A other : Occurs(w.q, other) => Occurs(x.q, other) \/ other = type
            /\ Len(x.q) < Capacity => /\ Synced(w) /\ Occurs(w.q, type)
                                      /\ Len(w.q) = Len(x.q) + 1
        BY ONLY <3>2, <3>3, <3>5, AddOK
      <4> HIDE DEF w
      <4>2. y = w
        BY <3>2 DEF w
      <4> QED BY <3>2, <4>1, <4>2
    <3> QED BY <3>1, <3>4
  <2>10. SameRegisters(y, s)
    BY <2>8, <2>9 DEF SameRegisters
  <2>11. \A type : Occurs(y.q, type) <=> \E i \in 1 .. n : q[i].type = type
    <3>1. \A type : (\E i \in 1 .. n : q[i].type = type)
                       <=> ((\E i \in 1 .. n - 1 : q[i].type = type) \/ type = q[n].type)
      BY <2>0
    <3> QED BY <2>8, <2>9, <3>1
  <2> QED BY <2>6, <2>8, <2>9, <2>10, <2>11 DEF y, LoadedOK, q
<1>11. \A m \in 0 .. N : Good(m)
  <2> SUFFICES ASSUME NEW m \in 0 .. N, ~Good(m) PROVE FALSE
    OBVIOUS
  <2> DEFINE T == {n \in 0 .. N : ~Good(n)}
  <2> HIDE DEF Good
  <2>1. PICK x \in T : \A y \in T : x <= y
    <3>1. T \subseteq Nat /\ T # {}
      BY <1>2
    <3> HIDE DEF T
    <3> QED BY <3>1, LeastNumber
  <2>2. x # 0
    BY <1>9, <2>1
  <2>3. x \in 1 .. N /\ x - 1 \in 0 .. N /\ x - 1 \notin T
    BY <1>2, <2>1, <2>2
  <2>4. Good(x - 1)
    BY <2>3
  <2>5. Good(x)
    BY <1>10, <2>3, <2>4
  <2> QED BY <2>1, <2>5
<1>12. LoadedBy(s, loaded)
  BY <1>8 DEF LoadedBy, Add, q, N, empty
<1> QED BY <1>1, <1>11, <1>12 DEF N, q

\* load_eventqueue_infos on the queue of the same state.
LEMMA LoadOK ==
    ASSUME NEW s, QueueOK(s), Timers(s.q)
    PROVE  LET t == LoadEventQueue(s, s.q)
           IN  /\ QueueOK(t) /\ SameRegisters(t, s) /\ t.count = s.count
               /\ Synced(t) /\ Timers(t.q)
               /\ \A type : Occurs(s.q, type) => Occurs(t.q, type)
<1> DEFINE q == s.q
           N == Len(q)
<1>1. PICK loaded : /\ \A n \in 0 .. N : LoadedOK(s, loaded[n], n)
                    /\ LoadEventQueue(s, s.q)
                          = AddSpecial(RemoveEvent(loaded[N], "SPECIAL_INT"))
  BY LoadLoop
<1> DEFINE a == RemoveEvent(loaded[N], "SPECIAL_INT")
           t == AddSpecial(a)
<1>2. N \in Nat /\ N <= Capacity
  <2>1. q \in Seq(Nodes)
    BY DEF QueueOK, States
  <2> QED BY <2>1 DEF QueueOK
<1> HIDE DEF q, N, t
<1>11. LoadedOK(s, loaded[N], N)
  BY <1>1, <1>2
<1> DEFINE z == loaded[N]
<1>12. QueueOK(z) /\ SameRegisters(z, s) /\ z.count = s.count /\ Len(z.q) = N
       /\ \A type : Occurs(z.q, type) <=> Occurs(q, type)
  BY <1>11 DEF LoadedOK, Occurs, N, q
<1> HIDE DEF z
<1>13. /\ QueueOK(a) /\ SameRegisters(a, z) /\ a.count = z.count
       /\ ~Occurs(a.q, "SPECIAL_INT") /\ Len(a.q) = Len(z.q) - 1
       /\ \A other : other # "SPECIAL_INT" => (Occurs(a.q, other) <=> Occurs(z.q, other))
  <2>1. "SPECIAL_INT" \in EventTypes \ {"CHECK_INT"}
    BY DEF EventTypes
  <2>2. Occurs(z.q, "SPECIAL_INT")
    BY <1>12 DEF Timers, q
  <2>3. a = RemoveEvent(z, "SPECIAL_INT")
    BY DEF z
  <2> HIDE DEF a
  <2> QED BY ONLY <1>12, <2>1, <2>2, <2>3, RemoveEventOK
<1> HIDE DEF a
<1>14. /\ QueueOK(t) /\ SameRegisters(t, a) /\ t.count = a.count /\ Synced(t)
       /\ \A type : Occurs(t.q, type) <=> (Occurs(a.q, type) \/ type = "SPECIAL_INT")
  <2>1. Len(a.q) < Capacity
    BY <1>2, <1>12, <1>13, CapacityAssumption
  <2> QED BY <1>13, <2>1, AddSpecialOK DEF t
<1>15. SameRegisters(t, s)
  BY <1>12, <1>13, <1>14 DEF SameRegisters
<1>16. Timers(t.q) /\ \A type : Occurs(s.q, type) => Occurs(t.q, type)
  BY <1>12, <1>13, <1>14 DEF Timers, q
<1> QED BY <1>1, <1>12, <1>13, <1>14, <1>15, <1>16 DEF t, a

\* add_interrupt_event, for the devices.
LEMMA AddEventOK ==
    ASSUME NEW s, QueueOK(s), NEW type \in EventTypes \ {"COMPARE_INT", "SPECIAL_INT"},
           type = "NMI_INT" => Resets, ~Occurs(s.q, type), NEW delay \in 0 .. Half
    PROVE  LET t == AddEvent(s, type, delay)
           IN  /\ QueueOK(t) /\ SameRegisters(t, s) /\ t.count = s.count
               /\ \A other : Occurs(s.q, other) => Occurs(t.q, other)
               /\ \A other : Occurs(t.q, other) => Occurs(s.q, other) \/ other = type
               /\ Synced(s) => Synced(t)
<1> DEFINE c == Mod(s.count + delay)
<1>1. s.count \in Int /\ delay \in Int /\ delay <= Half
  BY WrapAssumption, HalfType DEF QueueOK, States
<1>2. s.count + delay \in Int
  BY <1>1
<1>3. c \in 0 .. Wrap - 1 /\ Mod(c) = Mod(s.count + delay)
  BY <1>2, ModRange, ModMod
<1>4. c \in Int
  BY <1>3, WrapAssumption
<1>5. AddEvent(s, type, delay) = AddEventCount(s, type, c, delay)
  BY DEF AddEvent
<1> HIDE DEF c
<1>6. Mod(c - s.count) = Mod((s.count + delay) - s.count)
  BY <1>1, <1>2, <1>3, <1>4, ModPlus
<1>7. (s.count + delay) - s.count = delay
  BY <1>1
<1>8. Mod(delay) = Mod(c - s.count)
  BY <1>6, <1>7
<1>9. type # "COMPARE_INT" => delay <= Half
  BY <1>1
<1>10. type # "CHECK_INT" => ~Occurs(s.q, type)
  OBVIOUS
<1> DEFINE t == AddEventCount(s, type, c, delay)
<1>11. /\ QueueOK(t) /\ SameRegisters(t, s) /\ t.count = s.count
       /\ \A other : Occurs(s.q, other) => Occurs(t.q, other)
       /\ \A other : Occurs(t.q, other) => Occurs(s.q, other) \/ other = type
       /\ Synced(s) => Synced(t)
  <2>1. Timely(type, c, s.compare)
    BY DEF Timely
  <2> QED BY <1>1, <1>3, <1>8, <1>9, <1>10, <2>1, AddOK
<1> HIDE DEF t
<1>12. AddEvent(s, type, delay) = t
  BY <1>5 DEF t
<1> QED BY <1>11, <1>12

-----------------------------------------------------------------------------
(* Raising and looking at interrupts.                                       *)

\* A full pool without CHECK_INT would hold more events than there are types.
LEMMA FullHasCheck ==
    ASSUME Room, NEW s, QueueOK(s), Len(s.q) >= Capacity
    PROVE  Occurs(s.q, "CHECK_INT")
<1> SUFFICES ASSUME ~Occurs(s.q, "CHECK_INT") PROVE FALSE
  OBVIOUS
<1> DEFINE q == s.q
           Others == EventTypes \ {"CHECK_INT"}
           f == [i \in 1 .. Len(q) |-> q[i].type]
<1>1. q \in Seq(Nodes) /\ Singles(q)
  BY DEF QueueOK, States
<1> HIDE DEF q
<1>2. ASSUME NEW i \in 1 .. Len(q) PROVE q[i].type \in Others
  <2>1. q[i] \in Nodes
    BY <1>1
  <2>2. q[i].type # "CHECK_INT"
    BY DEF Occurs, q
  <2> QED BY <2>1, <2>2 DEF Nodes
<1>3. \A i, j \in 1 .. Len(q) : q[i].type = q[j].type => i = j
  BY <1>1, <1>2 DEF Singles, Once
<1>4. f \in Injection(1 .. Len(q), Others)
  BY <1>2, <1>3 DEF Injection, IsInjective
<1>5. "CHECK_INT" \in EventTypes /\ IsFiniteSet(EventTypes)
  BY DEF EventTypes, Room
<1>6. IsFiniteSet(Others) /\ Cardinality(Others) = Cardinality(EventTypes) - 1
  BY <1>5, FS_RemoveElement
<1>7. Len(q) \in Nat /\ Cardinality(EventTypes) \in Nat
  BY <1>1, <1>5, FS_CardinalityType
<1>8. Cardinality(1 .. Len(q)) = Len(q)
  <2>1. Cardinality(1 .. Len(q)) = IF 1 > Len(q) THEN 0 ELSE Len(q) - 1 + 1
    <3>1. 1 \in Int /\ Len(q) \in Int
      BY <1>7
    <3> QED BY <3>1, FS_Interval, Zenon
  <2> QED BY <1>7, <2>1
<1>9. Len(q) <= Cardinality(Others)
  BY <1>4, <1>6, <1>8, FS_Injection
<1> QED BY <1>6, <1>7, <1>9, CapacityAssumption DEF Room, q

\* A state that differs from s in registers only.
LEMMA RegistersOK ==
    ASSUME NEW s, QueueOK(s), NEW t \in States, t.q = s.q, t.count = s.count,
           t.compare = s.compare
    PROVE  QueueOK(t)
  BY DEF QueueOK, Armed

\* exception_general disables interrupts.
LEMMA ExceptionOK ==
    ASSUME NEW s, QueueOK(s), Timers(s.q), ~s.skip => Synced(s), NEW slot \in BOOLEAN
    PROVE  CpuOK(ExceptionGeneral(s, slot))
<1> DEFINE t == ExceptionGeneral(s, slot)
<1>1. s \in States
  BY DEF QueueOK
<1>2. 0 \in 0 .. Wrap - 1 /\ 0 \in -Half .. Half - 1
  BY HalfType
<1>3. CASE ~slot
  <2>1. t = [s EXCEPT !.exl = TRUE, !.took = TRUE]
    BY <1>3 DEF ExceptionGeneral
  <2> HIDE DEF t
  <2>2. t \in States /\ t.q = s.q /\ t.count = s.count /\ t.exl /\ t.skip = s.skip
        /\ t.compare = s.compare
        /\ t.next = s.next /\ t.cycle = s.cycle
    BY <1>1, <2>1 DEF States
  <2>3. QueueOK(t)
    BY <2>2, RegistersOK
  <2> QED BY <2>2, <2>3 DEF CpuOK, NoneLost, Unmasked, Synced, t
<1>4. CASE slot
  <2>1. t = [[s EXCEPT !.exl = TRUE, !.took = TRUE]
                EXCEPT !.skip = TRUE, !.next = 0, !.cycle = 0]
    BY <1>4 DEF ExceptionGeneral
  <2> HIDE DEF t
  <2>2. t \in States /\ t.q = s.q /\ t.count = s.count /\ t.exl /\ t.skip
        /\ t.compare = s.compare
    BY <1>1, <1>2, <2>1 DEF States
  <2>3. QueueOK(t)
    BY <2>2, RegistersOK
  <2> QED BY <2>2, <2>3 DEF CpuOK, NoneLost, Unmasked, t
<1> QED BY <1>3, <1>4

\* raise_maskable_interrupt takes the exception at once when it may.
LEMMA RaiseMaskableOK ==
    ASSUME NEW s, QueueOK(s), Timers(s.q), ~s.skip => Synced(s), NEW ip \in IPs,
           NEW slot \in BOOLEAN
    PROVE  CpuOK(RaiseMaskable(s, ip, slot))
<1> DEFINE c == s.cause \cup {ip}
           r == [s EXCEPT !.cause = c]
<1>1. s \in States /\ c \in SUBSET IPs
  BY DEF QueueOK, States
<1>2. RaiseMaskable(s, ip, slot) = IF Unmasked(r) THEN ExceptionGeneral(r, slot) ELSE r
  BY DEF RaiseMaskable
<1> HIDE DEF c
<1>3. r \in States /\ r.q = s.q /\ r.count = s.count /\ r.skip = s.skip
      /\ r.compare = s.compare /\ r.next = s.next /\ r.cycle = s.cycle
  BY <1>1 DEF States
<1> HIDE DEF r
<1>4. QueueOK(r) /\ Timers(r.q) /\ (~r.skip => Synced(r))
  BY <1>3, RegistersOK DEF Synced
<1>5. ~Unmasked(r) => CpuOK(r)
  BY <1>4 DEF CpuOK, NoneLost
<1> QED BY <1>2, <1>4, <1>5, ExceptionOK

\* raise_rcp_interrupt, with or without the mask of MI.
LEMMA RaiseRcpOK ==
    ASSUME NEW s, CpuOK(s), NEW raise \in BOOLEAN, NEW slot \in BOOLEAN
    PROVE  CpuOK(RaiseRcp(s, raise, slot))
<1> DEFINE r == [s EXCEPT !.rcp = TRUE]
<1>1. s \in States
  BY DEF CpuOK, QueueOK
<1>2. r \in States /\ r.q = s.q /\ r.count = s.count /\ r.skip = s.skip
      /\ r.compare = s.compare /\ r.next = s.next /\ r.cycle = s.cycle
  BY <1>1 DEF States
<1>3. RaiseRcp(s, raise, slot) = IF raise \/ s.rcp THEN RaiseMaskable(r, "IP2", slot) ELSE s
  BY DEF RaiseRcp
<1> HIDE DEF r
<1>4. QueueOK(r) /\ Timers(r.q) /\ (~r.skip => Synced(r))
  BY <1>2, RegistersOK DEF Synced, CpuOK
<1>5. "IP2" \in IPs
  BY DEF IPs
<1> QED BY <1>3, <1>4, <1>5, RaiseMaskableOK

\* r4300_check_interrupt: after it a pending and unmasked interrupt has its CHECK_INT,
\* also when there was no node for a new one.
LEMMA CheckInterruptOK ==
    ASSUME NEW s, QueueOK(s), Timers(s.q), ~s.skip => Synced(s), NEW ip \in IPs,
           NEW set \in BOOLEAN
    PROVE  CpuOK(CheckInterrupt(s, ip, set))
<1> DEFINE m == IF set THEN s.cause \cup {ip} ELSE s.cause \ {ip}
           c == [s EXCEPT !.cause = m]
           e == Event("CHECK_INT", c.count, 0)
           u == <<e>> \o c.q
           t == [c EXCEPT !.q = u, !.next = c.count, !.cycle = 0]
<1>1. s \in States /\ m \in SUBSET IPs
  BY DEF QueueOK, States
<1>2. CheckInterrupt(s, ip, set) = IF ~Unmasked(c) \/ Len(c.q) >= Capacity THEN c ELSE t
  BY DEF CheckInterrupt
<1> HIDE DEF m
<1>3. c \in States /\ c.q = s.q /\ c.count = s.count /\ c.skip = s.skip
      /\ c.compare = s.compare /\ c.next = s.next /\ c.cycle = s.cycle
  BY <1>1 DEF States
<1> HIDE DEF c
<1>4. QueueOK(c) /\ Timers(c.q) /\ (~c.skip => Synced(c))
  BY <1>3, RegistersOK DEF Synced
<1>5. CASE ~Unmasked(c) \/ Len(c.q) >= Capacity
  BY <1>2, <1>4, <1>5, FullHasCheck DEF CpuOK, NoneLost
<1>6. CASE ~(~Unmasked(c) \/ Len(c.q) >= Capacity)
  <2>1. c.q \in Seq(Nodes) /\ c.count \in 0 .. Wrap - 1 /\ c.count \in Int
    BY <1>3, WrapAssumption DEF States
  <2>2. e \in Nodes /\ e.type = "CHECK_INT" /\ e.count = c.count /\ e.left = 0
    BY <2>1 DEF Event, Nodes, EventTypes
  <2> HIDE DEF e
  <2>3. Inserted(u, c.q, e) /\ u[1] = e /\ u \in Seq(Nodes) /\ u # <<>>
    <3>1. Inserted(u, c.q, e) /\ u[1] = e
      BY <2>1, <2>2, ConsInserts
    <3>2. Len(c.q) \in Nat
      BY <2>1
    <3> HIDE DEF u
    <3>3. u \in Seq(Nodes) /\ Len(u) = Len(c.q) + 1
      BY <3>1 DEF Inserted, InsertedAt
    <3> QED BY <3>1, <3>2, <3>3
  <2> HIDE DEF u
  <2>4. 0 \in -Half .. Half - 1 /\ 0 \in 0 .. Wrap - 1 /\ 0 <= Half /\ c.count - c.count = 0
    BY <2>1, HalfType
  <2>5. Mod(0) = 0 /\ Signed(0) = 0
    <3>1. Mod(0) = 0
      BY <2>4, ModSmall
    <3> QED BY <3>1, HalfType DEF Signed
  <2>6. t \in States /\ t.q = u /\ t.next = c.count /\ t.cycle = 0 /\ t.count = c.count
        /\ t.compare = c.compare
    BY <1>3, <2>1, <2>3, <2>4 DEF States
  <2> HIDE DEF t
  <2>7. QueueOK(t) /\ \A type : Occurs(t.q, type) <=> (Occurs(c.q, type) \/ type = e.type)
    <3>1. /\ Mod(e.left) = Mod(e.count - c.count)
          /\ e.type # "COMPARE_INT" => e.left <= Half
          /\ e.type # "CHECK_INT" => ~Occurs(c.q, e.type)
      BY <2>2, <2>4
    <3>2. Len(c.q) < Capacity
      BY <1>6, <2>1, CapacityAssumption
    <3>3. Inserted(t.q, c.q, e)
      BY <2>3, <2>6
    <3>4. Timely(e.type, e.count, c.compare)
      BY <2>2 DEF Timely
    <3> QED BY <1>4, <2>2, <2>6, <3>1, <3>2, <3>3, <3>4, InsertedOK, Zenon
  <2>8. Synced(t)
    BY <2>2, <2>3, <2>4, <2>5, <2>6 DEF Synced
  <2>9. Timers(t.q) /\ Occurs(t.q, "CHECK_INT")
    BY <1>4, <2>2, <2>7 DEF Timers
  <2> QED BY <1>2, <1>6, <2>7, <2>8, <2>9 DEF CpuOK, NoneLost
<1> QED BY <1>5, <1>6

-----------------------------------------------------------------------------
(* The handlers, and gen_interrupt.                                         *)

\* cycle_count does not lie: when it is not negative, the first event is due,
\* unless it is the timer, which may be a whole lap away.
LEMMA Due ==
    ASSUME NEW s, QueueOK(s), Synced(s), s.cycle >= 0, s.q[1].type # "COMPARE_INT"
    PROVE  s.q[1].left <= 0
<1> DEFINE e == s.q[1]
           x == s.count - e.count
<1>1. s \in States /\ s.q \in Seq(Nodes) /\ s.q # <<>> /\ s.cycle = Signed(x)
  BY DEF QueueOK, States, Synced
<1>2. 1 \in 1 .. Len(s.q) /\ e \in Nodes
  BY <1>1
<1>3. e.left <= Half /\ Mod(e.left) = Mod(e.count - s.count)
  BY <1>2 DEF QueueOK, Near, Matches
<1>4. e.left \in Int /\ e.count \in Int /\ s.count \in Int
  BY <1>1, <1>2, WrapAssumption DEF Nodes, States
<1> HIDE DEF e
<1>5. x \in Int /\ 0 - x = e.count - s.count /\ 0 \in Int
  BY <1>4
<1>6. PICK c \in -Half .. Half - 1 : c = Signed(x) /\ Mod(c) = Mod(x)
  BY <1>5, SignedRange
<1> HIDE DEF x
<1>7. c \in Int /\ 0 <= c /\ c < Half
  BY <1>1, <1>6, HalfType
<1>8. Mod(0 - c) = Mod(0 - x)
  BY <1>5, <1>6, <1>7, ModPlus
<1>9. PICK k \in Int : e.left = (0 - c) + k * Wrap
  <2>1. 0 - c \in Int /\ Mod(e.left) = Mod(0 - c)
    BY <1>3, <1>5, <1>7, <1>8
  <2> QED BY <1>4, <2>1, ModDifference
<1>10. k <= 0
  <2> SUFFICES ASSUME k >= 1 PROVE FALSE
    BY <1>9
  <2>1. k * Wrap >= Wrap
    BY HalfType
  <2> QED BY <1>3, <1>4, <1>7, <1>9, <2>1, HalfType
<1>11. k * Wrap <= 0
  BY <1>10, HalfType
<1> QED BY <1>4, <1>7, <1>9, <1>11, HalfType DEF e

\* A step that keeps the registers and CHECK_INT.
LEMMA KeptOK ==
    ASSUME NEW s, NoneLost(s), NEW t, QueueOK(t), Timers(t.q), ~t.skip => Synced(t),
           SameRegisters(t, s), Occurs(s.q, "CHECK_INT") => Occurs(t.q, "CHECK_INT")
    PROVE  CpuOK(t)
  BY DEF CpuOK, NoneLost, SameRegisters, Unmasked

\* The handlers of the devices, which may schedule their event again.
LEMMA DeviceHandlerOK ==
    ASSUME NEW s, CpuOK(s), NEW h \in Responses, NEW slot \in BOOLEAN,
           s.q[1].type \in DeviceEvents
    PROVE  CpuOK(DeviceHandler(s, s.q[1].type, h, slot))
<1> DEFINE type == s.q[1].type
           done == RemoveFirstEvent(s)
           more == AddEvent(done, type, h.again)
           t == IF h.again = 0 THEN done ELSE more
<1>1. /\ type \in EventTypes
      /\ type \notin {"VI_INT", "COMPARE_INT", "CHECK_INT", "SPECIAL_INT", "NMI_INT"}
  BY DeviceAssumption DEF EventTypes
<1>2. QueueOK(s) /\ Timers(s.q) /\ NoneLost(s)
  BY DEF CpuOK
<1>3. /\ QueueOK(done) /\ SameRegisters(done, s) /\ done.count = s.count /\ Synced(done)
      /\ \A other : other # type => (Occurs(done.q, other) <=> Occurs(s.q, other))
      /\ type # "CHECK_INT" => ~Occurs(done.q, type)
  BY <1>2, RemoveFirstOK
<1>4. DeviceHandler(s, type, h, slot) = RaiseRcp(t, h.raise, slot)
  BY DEF DeviceHandler
<1>5. h.raise \in BOOLEAN /\ (h.again = 0 \/ h.again \in Delays)
  BY DEF Responses
<1> HIDE DEF type, done
<1>6. CpuOK(done)
  <2>1. Timers(done.q) /\ (Occurs(s.q, "CHECK_INT") => Occurs(done.q, "CHECK_INT"))
    BY <1>1, <1>2, <1>3 DEF Timers
  <2> QED BY <1>2, <1>3, <2>1, KeptOK
<1>7. CASE h.again \in Delays
  <2>1. h.again \in 0 .. Half
    <3>1. PICK d \in 1 .. Half - 1 : d = h.again
      BY <1>7, DelayAssumption
    <3> QED BY <3>1, HalfType
  <2>2. /\ QueueOK(more) /\ SameRegisters(more, done)
        /\ \A other : Occurs(done.q, other) => Occurs(more.q, other)
        /\ Synced(done) => Synced(more)
    <3>1. type \in EventTypes \ {"COMPARE_INT", "SPECIAL_INT"} /\ type # "NMI_INT"
      BY <1>1
    <3> QED BY <1>1, <1>3, <2>1, <3>1, AddEventOK
  <2> HIDE DEF more
  <2>3. CpuOK(more)
    <3>1. Timers(more.q) /\ (Occurs(done.q, "CHECK_INT") => Occurs(more.q, "CHECK_INT"))
      BY <1>6, <2>2 DEF Timers, CpuOK
    <3>2. NoneLost(done)
      BY <1>6 DEF CpuOK
    <3> QED BY <1>3, <2>2, <3>1, <3>2, KeptOK
  <2>4. CpuOK(t)
    BY <1>6, <2>3
  <2> HIDE DEF t
  <2> QED BY <1>4, <1>5, <2>4, RaiseRcpOK DEF type
<1>8. CASE h.again = 0
  <2>1. CpuOK(t)
    BY <1>6, <1>8
  <2> HIDE DEF t
  <2> QED BY <1>4, <1>5, <2>1, RaiseRcpOK DEF type
<1> QED BY <1>5, <1>7, <1>8

\* The next video interrupt is due a frame after this one was, which is at most
\* half a lap away because this one is due.
LEMMA ViHandlerOK ==
    ASSUME NEW s, CpuOK(s), ~s.skip, s.cycle >= 0, NEW h \in Responses,
           NEW slot \in BOOLEAN, s.q[1].type = "VI_INT"
    PROVE  CpuOK(ViHandler(s, h, slot))
<1> DEFINE vi == s.q[1]
           done == RemoveFirstEvent(s)
           frame == s.vi
           c == Mod(vi.count + frame)
           l == vi.left + frame
           t == AddEventCount(done, "VI_INT", c, l)
<1>1. QueueOK(s) /\ Timers(s.q) /\ NoneLost(s) /\ Synced(s) /\ s \in States
  BY DEF CpuOK, QueueOK
<1>2. /\ QueueOK(done) /\ SameRegisters(done, s) /\ done.count = s.count /\ Synced(done)
      /\ \A other : other # vi.type => (Occurs(done.q, other) <=> Occurs(s.q, other))
      /\ vi.type # "CHECK_INT" => ~Occurs(done.q, vi.type)
  BY <1>1, RemoveFirstOK
<1>3. vi.left <= 0
  BY <1>1, Due
<1>4. /\ vi \in Nodes /\ vi.left \in Int /\ vi.count \in Int /\ s.count \in Int
      /\ Mod(vi.left) = Mod(vi.count - s.count)
  <2>1. s.q \in Seq(Nodes) /\ s.q # <<>>
    BY <1>1 DEF States, Synced
  <2>2. 1 \in 1 .. Len(s.q) /\ vi \in Nodes
    BY <2>1
  <2>3. Mod(vi.left) = Mod(vi.count - s.count)
    BY <1>1, <2>2 DEF QueueOK, Matches
  <2>4. vi.left \in Int /\ vi.count \in 0 .. Wrap - 1 /\ s.count \in 0 .. Wrap - 1
    BY <1>1, <2>2 DEF Nodes, States
  <2> QED BY <2>2, <2>3, <2>4, WrapAssumption
<1>5. ViHandler(s, h, slot) = RaiseRcp(t, h.raise, slot)
  BY DEF ViHandler
<1>6. vi.type = "VI_INT"
  OBVIOUS
<1> HIDE DEF vi, done
<1>7. frame \in Int /\ frame < Half /\ Half \in Int
  <2>1. frame \in {0, ViDelay}
    BY <1>1 DEF States
  <2> QED BY <2>1, DelayAssumption, HalfType
<1> HIDE DEF frame
<1>8. l \in Int /\ l <= Half
  BY <1>3, <1>4, <1>7
<1>9. c \in 0 .. Wrap - 1 /\ c \in Int /\ Mod(c) = Mod(vi.count + frame)
      /\ vi.count + frame \in Int
  <2>1. vi.count + frame \in Int
    BY <1>4, <1>7
  <2>2. c \in 0 .. Wrap - 1 /\ Mod(c) = Mod(vi.count + frame)
    BY <2>1, ModRange, ModMod
  <2> QED BY <2>1, <2>2, WrapAssumption
<1>10. Mod(l) = Mod(c - done.count)
  <2> DEFINE y == vi.count - s.count
  <2>1. y \in Int /\ Mod(vi.left) = Mod(y)
    BY <1>4
  <2> HIDE DEF y
  <2>2. Mod(l) = Mod(y + frame)
    BY <1>4, <1>7, <2>1, ModPlus
  <2>3. y + frame = (vi.count + frame) - s.count
    BY <1>4, <1>7 DEF y
  <2> HIDE DEF c
  <2>4. Mod(c - s.count) = Mod((vi.count + frame) - s.count)
    <3>1. PICK z \in Int : z = vi.count + frame
      BY <1>9
    <3>2. c \in Int /\ s.count \in Int /\ Mod(c) = Mod(z)
      BY <1>4, <1>9, <3>1
    <3>3. Mod(c - s.count) = Mod(z - s.count)
      BY <3>2, ModPlus
    <3> QED BY <3>1, <3>3
  <2> QED BY <1>2, <2>2, <2>3, <2>4
<1> HIDE DEF c, l
<1>11. /\ QueueOK(t) /\ SameRegisters(t, done)
       /\ \A other : Occurs(done.q, other) => Occurs(t.q, other)
       /\ Synced(done) => Synced(t)
  <2>1. "VI_INT" \in EventTypes /\ ~Occurs(done.q, "VI_INT")
    BY <1>2, <1>6 DEF EventTypes
  <2>2. Timely("VI_INT", c, done.compare)
    BY DEF Timely
  <2> QED BY <1>2, <1>8, <1>9, <1>10, <2>1, <2>2, AddOK
<1> HIDE DEF t
<1>12. CpuOK(t)
  <2>1. Timers(t.q) /\ (Occurs(s.q, "CHECK_INT") => Occurs(t.q, "CHECK_INT"))
    BY <1>1, <1>2, <1>6, <1>11 DEF Timers
  <2>2. SameRegisters(t, s)
    BY <1>2, <1>11 DEF SameRegisters
  <2> QED BY <1>1, <1>2, <1>11, <2>1, <2>2, KeptOK
<1>13. h.raise \in BOOLEAN
  BY DEF Responses
<1> QED BY <1>5, <1>12, <1>13, RaiseRcpOK

\* compare_int_handler arms the timer again on the node it has freed.
LEMMA CompareIntHandlerOK ==
    ASSUME NEW s, CpuOK(s), NEW slot \in BOOLEAN, s.q[1].type = "COMPARE_INT"
    PROVE  CpuOK(CompareIntHandler(s, slot))
<1> DEFINE done == RemoveFirstEvent(s)
           t == AddCompare(done, s.compare)
<1>1. QueueOK(s) /\ Timers(s.q) /\ s.compare \in 0 .. Wrap - 1
  BY DEF CpuOK, QueueOK, States
<1>2. /\ QueueOK(done) /\ Len(done.q) < Capacity /\ ~Occurs(done.q, "COMPARE_INT")
      /\ SameRegisters(done, s)
      /\ \A other : other # "COMPARE_INT" => (Occurs(done.q, other) <=> Occurs(s.q, other))
  BY <1>1, RemoveFirstOK
<1>3. CompareIntHandler(s, slot) = RaiseMaskable(t, "IP7", slot) /\ "IP7" \in IPs
  BY DEF CompareIntHandler, IPs
<1> HIDE DEF done
<1>4. /\ QueueOK(t) /\ Synced(t)
      /\ \A type : Occurs(t.q, type) <=> (Occurs(done.q, type) \/ type = "COMPARE_INT")
  <2>1. s.compare = done.compare
    BY <1>2 DEF SameRegisters
  <2> QED BY <1>1, <1>2, <2>1, AddCompareOK
<1> HIDE DEF t
<1>5. Timers(t.q)
  BY <1>1, <1>2, <1>4 DEF Timers
<1> QED BY <1>3, <1>4, <1>5, RaiseMaskableOK

\* check_int_handler takes the exception, so that nothing is unmasked after it.
LEMMA CheckIntHandlerOK ==
    ASSUME NEW s, CpuOK(s), NEW slot \in BOOLEAN, s.q[1].type = "CHECK_INT"
    PROVE  CpuOK(CheckIntHandler(s, slot))
<1> DEFINE done == RemoveFirstEvent(s)
<1>1. QueueOK(s) /\ Timers(s.q)
  BY DEF CpuOK
<1>2. /\ QueueOK(done) /\ Synced(done)
      /\ \A other : other # "CHECK_INT" => (Occurs(done.q, other) <=> Occurs(s.q, other))
  BY <1>1, RemoveFirstOK
<1>3. CheckIntHandler(s, slot) = ExceptionGeneral(done, slot)
  BY DEF CheckIntHandler
<1> HIDE DEF done
<1>4. Timers(done.q)
  BY <1>1, <1>2 DEF Timers
<1> QED BY <1>2, <1>3, <1>4, ExceptionOK

\* special_int_handler arms the guard again on the node it has freed.
LEMMA SpecialIntHandlerOK ==
    ASSUME NEW s, CpuOK(s), s.q[1].type = "SPECIAL_INT"
    PROVE  CpuOK(SpecialIntHandler(s))
<1> DEFINE done == RemoveFirstEvent(s)
           t == AddSpecial(done)
<1>1. QueueOK(s) /\ Timers(s.q) /\ NoneLost(s)
  BY DEF CpuOK
<1>2. /\ QueueOK(done) /\ Len(done.q) < Capacity /\ ~Occurs(done.q, "SPECIAL_INT")
      /\ SameRegisters(done, s)
      /\ \A other : other # "SPECIAL_INT" => (Occurs(done.q, other) <=> Occurs(s.q, other))
  BY <1>1, RemoveFirstOK
<1>3. SpecialIntHandler(s) = t
  BY DEF SpecialIntHandler
<1> HIDE DEF done
<1>4. /\ QueueOK(t) /\ Synced(t) /\ SameRegisters(t, done)
      /\ \A type : Occurs(t.q, type) <=> (Occurs(done.q, type) \/ type = "SPECIAL_INT")
  BY <1>2, AddSpecialOK
<1> HIDE DEF t
<1>5. Timers(t.q) /\ (Occurs(s.q, "CHECK_INT") => Occurs(t.q, "CHECK_INT"))
  BY <1>1, <1>2, <1>4 DEF Timers
<1>6. SameRegisters(t, s)
  BY <1>2, <1>4 DEF SameRegisters
<1> QED BY <1>1, <1>3, <1>4, <1>5, <1>6, KeptOK

\* hw2_int_handler.
LEMMA Hw2IntHandlerOK ==
    ASSUME NEW s, CpuOK(s), NEW slot \in BOOLEAN, s.q[1].type = "HW2_INT"
    PROVE  CpuOK(Hw2IntHandler(s, slot))
<1> DEFINE done == RemoveFirstEvent(s)
<1>1. QueueOK(s) /\ Timers(s.q)
  BY DEF CpuOK
<1>2. /\ QueueOK(done) /\ Synced(done)
      /\ \A other : other # "HW2_INT" => (Occurs(done.q, other) <=> Occurs(s.q, other))
  BY <1>1, RemoveFirstOK
<1>3. Hw2IntHandler(s, slot) = RaiseMaskable(done, "IP4", slot) /\ "IP4" \in IPs
  BY DEF Hw2IntHandler, IPs
<1> HIDE DEF done
<1>4. Timers(done.q)
  BY <1>1, <1>2 DEF Timers
<1> QED BY <1>2, <1>3, <1>4, RaiseMaskableOK

\* init_interrupt followed by a video interrupt, where nothing is pending or nothing
\* is enabled.
LEMMA FreshOK ==
    ASSUME NEW s \in States, s.count < Half, ~Unmasked(s), Resets \/ s.compare = 0,
           NEW delay \in {0, ViDelay}
    PROVE  /\ CpuOK(InitInterrupt(s))
           /\ CpuOK(AddEvent(InitInterrupt(s), "VI_INT", delay))
           /\ ~Occurs(InitInterrupt(s).q, "VI_INT")
<1> DEFINE t == InitInterrupt(s)
           v == AddEvent(t, "VI_INT", delay)
<1>1. /\ QueueOK(t) /\ SameRegisters(t, s) /\ Synced(t) /\ Timers(t.q)
      /\ \A type : Occurs(t.q, type) => type \in {"SPECIAL_INT", "COMPARE_INT"}
  BY InitInterruptOK
<1> HIDE DEF t
<1>2. ~Unmasked(t) /\ ~Occurs(t.q, "VI_INT")
  BY <1>1 DEF SameRegisters, Unmasked
<1>3. "VI_INT" \in EventTypes \ {"COMPARE_INT", "SPECIAL_INT"} /\ delay \in 0 .. Half
  BY DelayAssumption, HalfType DEF EventTypes
<1>4. /\ QueueOK(v) /\ SameRegisters(v, t) /\ (Synced(t) => Synced(v))
      /\ \A other : Occurs(t.q, other) => Occurs(v.q, other)
  BY <1>1, <1>2, <1>3, AddEventOK
<1> HIDE DEF v
<1>5. CpuOK(t)
  BY <1>1, <1>2 DEF CpuOK, NoneLost
<1>6. Timers(v.q) /\ ~Unmasked(v)
  BY <1>1, <1>2, <1>4 DEF Timers, SameRegisters, Unmasked
<1>7. CpuOK(v)
  BY <1>1, <1>4, <1>6 DEF CpuOK, NoneLost
<1> QED BY <1>2, <1>5, <1>7 DEF t, v

\* nmi_int_handler starts again from an empty queue, where nothing is pending, or the
\* boot code has disabled what is.
LEMMA NmiIntHandlerOK ==
    ASSUME NEW s, CpuOK(s), Resets, NEW h \in Responses
    PROVE  CpuOK(NmiIntHandler(s, h))
<1> DEFINE done == RemoveFirstEvent(s)
           r == [done EXCEPT !.erl = TRUE, !.cause = {}]
           b == BootromExecute(r, h.raise)
           t == [b EXCEPT !.count = 0]
           rcp == r.rcp /\ h.raise
           cause == IF rcp THEN {"IP2"} ELSE {}
           none == {}
           boot == [r EXCEPT !.ie = FALSE, !.exl = FALSE, !.erl = FALSE, !.im = none,
                             !.rcp = rcp, !.cause = cause]
<1>1. QueueOK(s) /\ Timers(s.q) /\ s.vi \in {0, ViDelay}
  BY DEF CpuOK, QueueOK, States
<1>2. done \in States
  BY <1>1, RemoveFirstOK DEF QueueOK
<1>3. NmiIntHandler(s, h) = AddEvent(InitInterrupt(t), "VI_INT", s.vi)
  BY DEF NmiIntHandler
<1> HIDE DEF done
<1>4. 0 \in 0 .. Wrap - 1 /\ 0 < Half
  BY HalfType
<1>5. r \in States /\ r.cause = {}
  BY <1>2 DEF States
<1>b. b = IF Hle THEN boot ELSE r
  BY DEF BootromExecute
<1> HIDE DEF r, b
<1>6. h.raise \in BOOLEAN
  BY DEF Responses
<1>7. rcp \in BOOLEAN /\ cause \in SUBSET IPs /\ none \in SUBSET IPs
  BY <1>5, <1>6 DEF States, IPs
<1> HIDE DEF rcp, cause, none
<1>8. b \in States /\ (~b.ie \/ b.cause = {})
  <2>1. CASE Hle
    BY <1>5, <1>7, <1>b, <2>1 DEF States
  <2>2. CASE ~Hle
    BY <1>5, <1>b, <2>2
  <2> QED BY <2>1, <2>2
<1>9. t \in States /\ t.count = 0 /\ (~t.ie \/ t.cause = {})
  BY <1>4, <1>8 DEF States
<1> HIDE DEF t
<1>10. ~Unmasked(t)
  BY <1>9 DEF Unmasked
<1> QED BY <1>1, <1>3, <1>4, <1>9, <1>10, FreshOK

\* poweron_device.
LEMMA PowerOnOK ==
    CpuOK(PowerOn) /\ ~Occurs(PowerOn.q, "VI_INT")
<1> DEFINE t == [count |-> PowerOnCount, compare |-> 0, cycle |-> 0, next |-> 0,
                 q |-> <<>>, ie |-> FALSE, exl |-> FALSE, erl |-> FALSE, im |-> {},
                 cause |-> {}, rcp |-> FALSE, vi |-> 0, skip |-> FALSE,
                 resetJob |-> FALSE, stop |-> FALSE, took |-> FALSE]
<1>1. PowerOn = InitInterrupt(t)
  BY DEF PowerOn
<1>2. /\ 0 \in 0 .. Wrap - 1 /\ 0 \in -Half .. Half - 1 /\ PowerOnCount < Half
      /\ PowerOnCount \in 0 .. Wrap - 1
  BY HalfType, PowerOnAssumption
<1>3. t \in States /\ t.count = PowerOnCount /\ t.compare = 0 /\ ~t.ie
  BY <1>2 DEF States
<1> HIDE DEF t
<1>4. ~Unmasked(t)
  BY <1>3 DEF Unmasked
<1> QED BY <1>1, <1>2, <1>3, <1>4, FreshOK

\* gen_interrupt, called only when cycle_count says so.
LEMMA GenInterruptOK ==
    ASSUME NEW s, CpuOK(s), s.cycle >= 0, NEW slot \in BOOLEAN, NEW unsafe \in BOOLEAN,
           NEW h \in Responses
    PROVE  CpuOK(GenInterrupt(s, slot, unsafe, h))
<1> DEFINE type == s.q[1].type
           g == GenInterrupt(s, slot, unsafe, h)
<1>1. CASE s.resetJob /\ ~unsafe
  <2>1. g = PowerOn
    BY <1>1 DEF GenInterrupt
  <2> QED BY <2>1, PowerOnOK
<1>2. CASE ~(s.resetJob /\ ~unsafe) /\ s.skip
  <2> DEFINE t == [s EXCEPT !.skip = FALSE]
  <2>1. g = Sync(t)
    BY <1>2 DEF GenInterrupt
  <2>2. /\ t \in States /\ t.q = s.q /\ t.count = s.count /\ t.compare = s.compare
        /\ t.ie = s.ie /\ t.exl = s.exl /\ t.erl = s.erl /\ t.im = s.im
        /\ t.cause = s.cause
    BY DEF CpuOK, QueueOK, States
  <2> HIDE DEF t
  <2>3. QueueOK(t) /\ Timers(t.q) /\ NoneLost(t)
    BY <2>2, RegistersOK DEF CpuOK, NoneLost, Unmasked
  <2>4. t.q # <<>>
    BY <2>3 DEF Timers, Occurs
  <2>5. /\ Sync(t) \in States /\ Synced(Sync(t)) /\ SameRegisters(Sync(t), t)
        /\ Sync(t).q = t.q /\ Sync(t).count = t.count
    BY <2>2, <2>4, SyncOK
  <2>6. QueueOK(Sync(t))
    <3>1. Sync(t).compare = t.compare
      BY <2>5 DEF SameRegisters
    <3> QED BY <2>3, <2>5, <3>1, RegistersOK
  <2> QED BY <2>1, <2>3, <2>5, <2>6, KeptOK
<1>3. CASE ~(s.resetJob /\ ~unsafe) /\ ~s.skip
  <2>1. g = CASE type = "VI_INT"      -> ViHandler(s, h, slot)
              [] type = "COMPARE_INT" -> CompareIntHandler(s, slot)
              [] type = "CHECK_INT"   -> CheckIntHandler(s, slot)
              [] type = "SPECIAL_INT" -> SpecialIntHandler(s)
              [] type = "HW2_INT"     -> Hw2IntHandler(s, slot)
              [] type = "NMI_INT"     -> NmiIntHandler(s, h)
              [] OTHER                -> DeviceHandler(s, type, h, slot)
    BY <1>3 DEF GenInterrupt
  <2>2. type \in EventTypes
    <3>1. s \in States /\ s.q # <<>>
      BY <1>3 DEF CpuOK, QueueOK, Synced
    <3>2. s.q[1] \in Nodes
      BY <3>1, FirstNode
    <3> QED BY <3>2 DEF Nodes
  <2> HIDE DEF g, type
  <2>3. CASE type = "VI_INT"
    <3>1. g = ViHandler(s, h, slot)
      BY <2>1, <2>3
    <3> QED BY <1>3, <2>3, <3>1, ViHandlerOK DEF type, g
  <2>4. CASE type = "COMPARE_INT"
    <3>1. g = CompareIntHandler(s, slot)
      BY <2>1, <2>4
    <3> QED BY <2>4, <3>1, CompareIntHandlerOK DEF type, g
  <2>5. CASE type = "CHECK_INT"
    <3>1. g = CheckIntHandler(s, slot)
      BY <2>1, <2>5
    <3> QED BY <2>5, <3>1, CheckIntHandlerOK DEF type, g
  <2>6. CASE type = "SPECIAL_INT"
    <3>1. g = SpecialIntHandler(s)
      BY <2>1, <2>6
    <3> QED BY <2>6, <3>1, SpecialIntHandlerOK DEF type, g
  <2>7. CASE type = "HW2_INT"
    <3>1. g = Hw2IntHandler(s, slot)
      BY <2>1, <2>7
    <3> QED BY <2>7, <3>1, Hw2IntHandlerOK DEF type, g
  <2>8. CASE type = "NMI_INT"
    <3>1. g = NmiIntHandler(s, h)
      BY <2>1, <2>8
    <3>2. Resets
      <4>1. s \in States /\ s.q # <<>> /\ Armed(s)
        BY <1>3 DEF CpuOK, QueueOK, Synced
      <4>2. 1 \in 1 .. Len(s.q)
        BY <4>1 DEF States
      <4> QED BY <2>8, <4>1, <4>2 DEF Armed, Timely, type
    <3> QED BY <3>1, <3>2, NmiIntHandlerOK DEF g
  <2>9. CASE type \in DeviceEvents
    <3>1. type \notin {"VI_INT", "COMPARE_INT", "CHECK_INT", "SPECIAL_INT", "HW2_INT",
                       "NMI_INT"}
      BY <2>9, DeviceAssumption
    <3>2. g = DeviceHandler(s, type, h, slot)
      BY <2>1, <3>1
    <3> QED BY <2>9, <3>2, DeviceHandlerOK DEF type, g
  <2> QED BY <2>2, <2>3, <2>4, <2>5, <2>6, <2>7, <2>8, <2>9 DEF EventTypes
<1> QED BY <1>1, <1>2, <1>3 DEF CpuOK, QueueOK, States

\* The test of cycle_count and the call of gen_interrupt.
LEMMA GenIfDueOK ==
    ASSUME NEW s, CpuOK(s), NEW slot \in BOOLEAN, NEW unsafe \in BOOLEAN,
           NEW h \in Responses
    PROVE  CpuOK(GenIfDue(s, slot, unsafe, h))
<1>1. CASE s.cycle >= 0
  BY <1>1, GenInterruptOK DEF GenIfDue
<1>2. CASE ~(s.cycle >= 0)
  BY <1>2 DEF GenIfDue
<1> QED BY <1>1, <1>2

-----------------------------------------------------------------------------
(* The actions.                                                             *)

\* The CPU state in which an instruction starts.
LEMMA NowOK ==
    ASSUME CpuOK(r4300), NEW n \in Nat
    PROVE  /\ CpuOK(Now(n)) /\ Now(n).skip = r4300.skip
           /\ \A type : Occurs(Now(n).q, type) <=> Occurs(r4300.q, type)
<1> DEFINE s == [r4300 EXCEPT !.took = FALSE]
           t == UpdateCount(s, n)
<1>1. /\ s \in States /\ s.q = r4300.q /\ s.count = r4300.count /\ s.skip = r4300.skip
      /\ s.compare = r4300.compare
      /\ s.next = r4300.next /\ s.cycle = r4300.cycle
      /\ s.ie = r4300.ie /\ s.exl = r4300.exl /\ s.erl = r4300.erl /\ s.im = r4300.im
      /\ s.cause = r4300.cause
  BY DEF CpuOK, QueueOK, States
<1>2. Now(n) = t
  BY DEF Now
<1> HIDE DEF s
<1>3. QueueOK(s) /\ Timers(s.q) /\ (~s.skip => Synced(s)) /\ NoneLost(s)
  BY <1>1, RegistersOK DEF CpuOK, Synced, NoneLost, Unmasked
<1>4. /\ QueueOK(t) /\ SameRegisters(t, s) /\ (Synced(s) => Synced(t))
      /\ \A type : Occurs(t.q, type) <=> Occurs(s.q, type)
  BY <1>3, UpdateCountOK
<1> HIDE DEF t
<1>5. Timers(t.q) /\ t.skip = s.skip
  BY <1>3, <1>4 DEF Timers, SameRegisters
<1>6. CpuOK(t)
  BY <1>3, <1>4, <1>5, KeptOK
<1> QED BY <1>1, <1>2, <1>4, <1>5, <1>6

\* A device schedules its event.
LEMMA ScheduleOK ==
    ASSUME NEW s, CpuOK(s), NEW type \in EventTypes \ {"COMPARE_INT", "SPECIAL_INT"},
           type = "NMI_INT" => Resets, ~Occurs(s.q, type), NEW delay \in 0 .. Half
    PROVE  /\ CpuOK(AddEvent(s, type, delay))
           /\ \A other : Occurs(AddEvent(s, type, delay).q, other)
                            => Occurs(s.q, other) \/ other = type
<1> DEFINE t == AddEvent(s, type, delay)
<1>1. QueueOK(s) /\ Timers(s.q) /\ NoneLost(s) /\ (~s.skip => Synced(s))
  BY DEF CpuOK
<1>2. /\ QueueOK(t) /\ SameRegisters(t, s) /\ (Synced(s) => Synced(t))
      /\ \A other : Occurs(s.q, other) => Occurs(t.q, other)
      /\ \A other : Occurs(t.q, other) => Occurs(s.q, other) \/ other = type
  BY <1>1, AddEventOK
<1> HIDE DEF t
<1>3. Timers(t.q) /\ t.skip = s.skip
  BY <1>1, <1>2 DEF Timers, SameRegisters
<1>4. CpuOK(t)
  BY <1>1, <1>2, <1>3, KeptOK
<1> QED BY <1>2, <1>4 DEF t

\* A write of MI_INTR_MASK_REG, or of MI_INTR_REG by a device.
LEMMA RcpOK ==
    ASSUME NEW s, CpuOK(s), NEW some \in BOOLEAN
    PROVE  CpuOK(CheckInterrupt([s EXCEPT !.rcp = some], "IP2", some))
<1> DEFINE t == [s EXCEPT !.rcp = some]
<1>1. /\ t \in States /\ t.q = s.q /\ t.count = s.count /\ t.skip = s.skip
      /\ t.compare = s.compare /\ t.next = s.next /\ t.cycle = s.cycle
  BY DEF CpuOK, QueueOK, States
<1> HIDE DEF t
<1>2. QueueOK(t) /\ Timers(t.q) /\ (~t.skip => Synced(t))
  BY <1>1, RegistersOK DEF CpuOK, Synced
<1>3. "IP2" \in IPs
  BY DEF IPs
<1>4. CpuOK(CheckInterrupt(t, "IP2", some))
  BY <1>2, <1>3, CheckInterruptOK
<1> QED BY <1>4 DEF t

\* Count moves on within an instruction.
LEMMA AdvanceOK ==
    ASSUME NEW s, CpuOK(s), NEW n \in Nat
    PROVE  CpuOK(UpdateCount(s, n))
<1> DEFINE t == UpdateCount(s, n)
<1>1. QueueOK(s) /\ Timers(s.q) /\ NoneLost(s) /\ (~s.skip => Synced(s))
  BY DEF CpuOK
<1>2. /\ QueueOK(t) /\ SameRegisters(t, s) /\ (Synced(s) => Synced(t))
      /\ \A type : Occurs(t.q, type) <=> Occurs(s.q, type)
  BY <1>1, UpdateCountOK
<1> HIDE DEF t
<1>3. Timers(t.q) /\ t.skip = s.skip
  BY <1>1, <1>2 DEF Timers, SameRegisters
<1>4. CpuOK(t)
  BY <1>1, <1>2, <1>3, KeptOK
<1> QED BY <1>4 DEF t

\* MTC0 to Count.
LEMMA Mtc0CountOK ==
    ASSUME NEW s, CpuOK(s), NEW value \in 0 .. Wrap - 1
    PROVE  CpuOK(TranslateEventQueue(s, value))
<1> DEFINE t == TranslateEventQueue(s, value)
<1>1. QueueOK(s) /\ Timers(s.q) /\ NoneLost(s)
  BY DEF CpuOK
<1>2. /\ QueueOK(t) /\ SameRegisters(t, s) /\ Synced(t) /\ Timers(t.q)
      /\ \A type : Occurs(s.q, type) => Occurs(t.q, type)
  BY <1>1, TranslateOK
<1> HIDE DEF t
<1>3. CpuOK(t)
  BY <1>1, <1>2, KeptOK
<1> QED BY <1>3 DEF t

\* A load right after a save.
LEMMA LoadSavedOK ==
    ASSUME NEW s, CpuOK(s)
    PROVE  CpuOK(LoadEventQueue(s, s.q))
<1> DEFINE t == LoadEventQueue(s, s.q)
<1>1. QueueOK(s) /\ Timers(s.q) /\ NoneLost(s)
  BY DEF CpuOK
<1>2. /\ QueueOK(t) /\ SameRegisters(t, s) /\ Synced(t) /\ Timers(t.q)
      /\ \A type : Occurs(s.q, type) => Occurs(t.q, type)
  BY <1>1, LoadOK
<1> HIDE DEF t
<1>3. CpuOK(t)
  BY <1>1, <1>2, KeptOK
<1> QED BY <1>3 DEF t

\* A write of VI_V_SYNC_REG.
LEMMA ViWrittenOK ==
    ASSUME NEW s, CpuOK(s)
    PROVE  /\ CpuOK([s EXCEPT !.vi = ViDelay])
           /\ [s EXCEPT !.vi = ViDelay].q = s.q
<1> DEFINE t == [s EXCEPT !.vi = ViDelay]
<1>1. s \in States
  BY DEF CpuOK, QueueOK
<1>2. /\ t \in States /\ t.q = s.q /\ t.count = s.count /\ t.compare = s.compare
      /\ t.next = s.next /\ t.cycle = s.cycle /\ t.skip = s.skip /\ t.ie = s.ie
      /\ t.exl = s.exl /\ t.erl = s.erl /\ t.im = s.im /\ t.cause = s.cause
  BY <1>1 DEF States
<1> HIDE DEF t
<1> QED BY <1>2, RegistersOK DEF CpuOK, Synced, NoneLost, Unmasked, t

\* MTC0 to Compare: the pending bit of the timer may be cleared, none is set.
Compared(s, value) ==
    AddCompare([RemoveEvent(s, "COMPARE_INT") EXCEPT
                   !.compare = value, !.cause = @ \ {"IP7"}], value)

\* The timer is taken out and armed again, and the masks stay.
LEMMA Mtc0CompareOK ==
    ASSUME NEW s, CpuOK(s), NEW value \in 0 .. Wrap - 1
    PROVE  CpuOK(Compared(s, value))
<1> DEFINE r == RemoveEvent(s, "COMPARE_INT")
           m == r.cause \ {"IP7"}
           w == [r EXCEPT !.compare = value, !.cause = m]
           t == AddCompare(w, value)
<1>1. QueueOK(s) /\ Timers(s.q) /\ NoneLost(s) /\ Len(s.q) <= Capacity /\ Len(s.q) \in Nat
  BY DEF CpuOK, QueueOK, States
<1>2. "COMPARE_INT" \in EventTypes \ {"CHECK_INT"} /\ Occurs(s.q, "COMPARE_INT")
  BY <1>1 DEF EventTypes, Timers
<1>3. /\ QueueOK(r) /\ SameRegisters(r, s) /\ ~Occurs(r.q, "COMPARE_INT")
      /\ \A other : other # "COMPARE_INT" => (Occurs(r.q, other) <=> Occurs(s.q, other))
      /\ Len(r.q) = Len(s.q) - 1
  BY <1>1, <1>2, RemoveEventOK
<1>4. Compared(s, value) = t
  BY DEF Compared
<1> HIDE DEF r
<1>5. Len(r.q) < Capacity
  BY <1>1, <1>3, CapacityAssumption
<1>6. m \subseteq r.cause /\ m \in SUBSET IPs
  BY <1>3 DEF QueueOK, States
<1> HIDE DEF m
<1>7. /\ w \in States /\ w.q = r.q /\ w.count = r.count /\ w.compare = value
      /\ w.ie = r.ie /\ w.exl = r.exl /\ w.erl = r.erl /\ w.im = r.im /\ w.cause = m
  BY <1>3, <1>6 DEF QueueOK, States
<1> HIDE DEF w
<1>8. QueueOK(w)
  <2>1. Armed(w)
    <3>1. ASSUME NEW i \in 1 .. Len(r.q) PROVE Timely(r.q[i].type, r.q[i].count, value)
      <4>1. Timely(r.q[i].type, r.q[i].count, r.compare) /\ r.q[i].type # "COMPARE_INT"
        BY <1>3 DEF QueueOK, Armed, Occurs
      <4> QED BY <4>1 DEF Timely
    <3> QED BY <1>7, <3>1 DEF Armed
  <2> QED BY <1>3, <1>7, <2>1 DEF QueueOK
<1>9. /\ QueueOK(t) /\ SameRegisters(t, w) /\ Synced(t)
      /\ \A type : Occurs(t.q, type) <=> (Occurs(w.q, type) \/ type = "COMPARE_INT")
  BY <1>3, <1>5, <1>7, <1>8, AddCompareOK
<1> HIDE DEF t
<1>10. Timers(t.q)
  BY <1>1, <1>3, <1>7, <1>9 DEF Timers
<1>11. Unmasked(t) => Unmasked(s)
  BY <1>3, <1>6, <1>7, <1>9 DEF Unmasked, SameRegisters
<1>12. Occurs(s.q, "CHECK_INT") => Occurs(t.q, "CHECK_INT")
  BY <1>3, <1>7, <1>9
<1> QED BY <1>1, <1>4, <1>9, <1>10, <1>11, <1>12 DEF CpuOK, NoneLost

\* MTC0 to Status and ERET: the registers that mask interrupts change, and
\* r4300_check_interrupt looks at the pending ones.
LEMMA MaskedOK ==
    ASSUME NEW s, CpuOK(s), NEW t \in States, t.q = s.q, t.count = s.count,
           t.compare = s.compare, t.next = s.next, t.cycle = s.cycle, t.skip = s.skip
    PROVE  CpuOK(CheckInterrupt(t, "IP2", t.rcp))
<1>1. QueueOK(t) /\ Timers(t.q) /\ (~t.skip => Synced(t))
  BY RegistersOK DEF CpuOK, Synced
<1>2. "IP2" \in IPs /\ t.rcp \in BOOLEAN
  BY DEF IPs, States
<1> QED BY <1>1, <1>2, CheckInterruptOK

\* An idle loop.
LEMMA SkipIdleCpuOK ==
    ASSUME NEW s, CpuOK(s), ~s.skip
    PROVE  CpuOK(SkipIdle(s))
<1> DEFINE t == SkipIdle(s)
<1>1. QueueOK(s) /\ Timers(s.q) /\ NoneLost(s) /\ Synced(s)
  BY DEF CpuOK
<1>2. /\ QueueOK(t) /\ SameRegisters(t, s) /\ Synced(t)
      /\ \A type : Occurs(t.q, type) <=> Occurs(s.q, type)
  BY <1>1, SkipIdleOK
<1> HIDE DEF t
<1>3. Timers(t.q)
  BY <1>1, <1>2 DEF Timers
<1>4. CpuOK(t)
  BY <1>1, <1>2, <1>3, KeptOK
<1> QED BY <1>4 DEF t

-----------------------------------------------------------------------------
(* The inductive invariant and the theorems.                                *)

Inv == CpuOK(r4300) /\ ops \in 0 .. MaxOps /\ first \in BOOLEAN

\* The states the program starts in.
LEMMA InitOK == Init => Inv
<1> SUFFICES ASSUME Init PROVE Inv
  OBVIOUS
<1>1. CpuOK(r4300)
  <2> DEFINE p == [PowerOn EXCEPT !.vi = ViDelay]
  <2>1. PowerOn \in States
    BY PowerOnOK DEF CpuOK, QueueOK
  <2>2. /\ p \in States /\ p.q = PowerOn.q /\ p.count = PowerOn.count
        /\ p.compare = PowerOn.compare /\ p.next = PowerOn.next /\ p.cycle = PowerOn.cycle
        /\ p.skip = PowerOn.skip /\ p.ie = PowerOn.ie /\ p.exl = PowerOn.exl
        /\ p.erl = PowerOn.erl /\ p.im = PowerOn.im /\ p.cause = PowerOn.cause
    BY <2>1 DEF States
  <2>3. r4300 = IF ViRunning THEN AddEvent(p, "VI_INT", ViDelay) ELSE PowerOn
    BY DEF Init
  <2> HIDE DEF p
  <2>4. CpuOK(p)
    BY <2>1, <2>2, PowerOnOK, RegistersOK DEF CpuOK, Synced, NoneLost, Unmasked
  <2>5. /\ "VI_INT" \in EventTypes \ {"COMPARE_INT", "SPECIAL_INT"}
        /\ ViDelay \in 0 .. Half /\ ~Occurs(p.q, "VI_INT")
    BY <2>2, PowerOnOK, DelayAssumption, HalfType DEF EventTypes
  <2>6. CpuOK(AddEvent(p, "VI_INT", ViDelay))
    BY <2>4, <2>5, ScheduleOK
  <2> QED BY <2>3, <2>6, PowerOnOK
<1> QED BY <1>1, BoundAssumption DEF Init, Inv

\* The counters of a step inside a block.
LEMMA CountsOK ==
    ASSUME Inv, NEW n \in 0 .. MaxOps, ops + n <= MaxOps, CpuOK(r4300'), Ran(n)
    PROVE  Inv'
<1>1. ops' \in 0 .. MaxOps
  BY BoundAssumption DEF Inv, Ran
<1>2. first' \in BOOLEAN
  BY DEF Ran, CpuOK, QueueOK, States
<1> QED BY <1>1, <1>2 DEF Inv

\* Every step keeps the invariant: one case for each action.
LEMMA NextOK == Inv /\ [Next]_vars => Inv'
<1> SUFFICES ASSUME Inv, [Next]_vars PROVE Inv'
  OBVIOUS
<1> USE DEF Inv
<1>0. /\ MaxOps \in Nat /\ CpuOK(r4300) /\ ops \in 0 .. MaxOps
      /\ 0 \in 0 .. MaxOps /\ TRUE \in BOOLEAN
  BY BoundAssumption
<1>n. ASSUME NEW n \in 0 .. MaxOps
      PROVE  /\ n \in Nat /\ CpuOK(Now(n)) /\ Now(n).skip = r4300.skip
             /\ \A type : Occurs(Now(n).q, type) <=> Occurs(r4300.q, type)
  BY <1>0, NowOK
<1>s. ASSUME NEW n \in 0 .. MaxOps PROVE Now(n) \in States
  BY <1>n DEF CpuOK, QueueOK
<1>h. \A type : HasEvent(r4300, type) <=> Occurs(r4300.q, type)
  BY DEF HasEvent, Occurs
<1>z. /\ CpuOK(Now(0)) /\ Now(0).skip = r4300.skip
      /\ \A type : Occurs(Now(0).q, type) <=> Occurs(r4300.q, type)
  BY <1>0, <1>n
<1>1. ASSUME NEW n \in 0 .. MaxOps, NEW h \in Responses, EndBlock(n, h) PROVE Inv'
  <2>1. CpuOK(r4300')
    BY <1>n, <1>1, GenIfDueOK DEF EndBlock
  <2> QED BY <1>0, <1>1, <2>1 DEF EndBlock
<1>2. ASSUME NEW h \in Responses, IdleLoop(h) PROVE Inv'
  <2>1. CpuOK(SkipIdle(Now(0)))
    BY <1>z, <1>2, SkipIdleCpuOK DEF IdleLoop
  <2>2. CpuOK(UpdateCount(SkipIdle(Now(0)), 2))
    BY <2>1, AdvanceOK
  <2>3. CpuOK(r4300')
    BY <1>2, <2>2, GenIfDueOK DEF IdleLoop
  <2> QED BY <1>0, <1>2, <2>3 DEF IdleLoop
<1>3. ASSUME NEW n \in 0 .. MaxOps, NEW type \in DeviceEvents, NEW delay \in Delays,
             Schedule(n, type, delay)
      PROVE  Inv'
  <2>1. /\ ~Occurs(Now(n).q, type) /\ type \in EventTypes \ {"COMPARE_INT", "SPECIAL_INT"}
        /\ type # "NMI_INT"
    BY <1>n, <1>h, <1>3, DeviceAssumption DEF Schedule, EventTypes
  <2>2. delay \in 0 .. Half
    BY DelayAssumption, HalfType
  <2>3. CpuOK(r4300')
    BY <1>n, <1>3, <2>1, <2>2, ScheduleOK DEF Schedule
  <2> QED BY <1>3, <2>3, CountsOK DEF Schedule, InBlock
<1>4. ASSUME NEW n \in 0 .. MaxOps, SetViVerticalInterrupt(n) PROVE Inv'
  <2> DEFINE p == [Now(n) EXCEPT !.vi = ViDelay]
  <2>1. p.q = Now(n).q /\ CpuOK(p)
    BY <1>n, ViWrittenOK
  <2>2. r4300' = AddEvent(p, "VI_INT", ViDelay)
    BY <1>4 DEF SetViVerticalInterrupt
  <2> HIDE DEF p
  <2>3. /\ ~Occurs(p.q, "VI_INT") /\ ViDelay \in 0 .. Half
        /\ "VI_INT" \in EventTypes \ {"COMPARE_INT", "SPECIAL_INT"}
    BY <1>n, <1>h, <1>4, <2>1, DelayAssumption, HalfType
       DEF SetViVerticalInterrupt, EventTypes
  <2>4. CpuOK(r4300')
    BY <2>1, <2>2, <2>3, ScheduleOK
  <2> QED BY <1>4, <2>4, CountsOK DEF SetViVerticalInterrupt, InBlock
<1>5. ASSUME NEW n \in 0 .. MaxOps, NEW step \in CompareSteps, Mtc0Compare(n, step)
      PROVE  Inv'
  <2> DEFINE value == Mod(Now(n).count + step)
  <2>1. value \in 0 .. Wrap - 1
    <3>1. Now(n).count \in Int /\ step \in Int
      BY <1>s, WriteAssumption, WrapAssumption DEF States
    <3>2. Now(n).count + step \in Int
      BY <3>1
    <3> QED BY <3>2, ModRange
  <2>2. r4300' = Compared(Now(n), value)
    BY <1>5 DEF Mtc0Compare, Compared
  <2> HIDE DEF value
  <2>3. CpuOK(r4300')
    BY <1>n, <2>1, <2>2, Mtc0CompareOK
  <2> QED BY <1>5, <2>3, CountsOK DEF Mtc0Compare, InBlock
<1>6. ASSUME NEW n \in 0 .. MaxOps, NEW h \in Responses, NEW some \in BOOLEAN,
             NEW slot \in BOOLEAN, WriteMiIntrMask(n, some, slot, h)
      PROVE  Inv'
  <2> DEFINE checked == CheckInterrupt([Now(0) EXCEPT !.rcp = some], "IP2", some)
  <2>1. CpuOK(checked)
    BY <1>z, RcpOK
  <2>2. r4300' = GenIfDue(UpdateCount(checked, n), slot, FALSE, h)
    BY <1>6 DEF WriteMiIntrMask
  <2> HIDE DEF checked
  <2>3. CpuOK(UpdateCount(checked, n))
    BY <1>n, <2>1, AdvanceOK
  <2>4. CpuOK(r4300')
    BY <2>2, <2>3, GenIfDueOK
  <2> QED BY <1>6, <2>4, CountsOK DEF WriteMiIntrMask, InBlock
<1>7. ASSUME NEW n \in 0 .. MaxOps, NEW h \in Responses, NEW v \in StatusValues,
             NEW slot \in BOOLEAN, Mtc0Status(n, v, slot, h)
      PROVE  Inv'
  <2> DEFINE now == Now(n)
             set == [now EXCEPT !.ie = v.ie, !.exl = v.exl, !.erl = v.erl, !.im = v.im]
  <2>1. r4300' = GenIfDue(CheckInterrupt(set, "IP2", set.rcp), slot, TRUE, h)
    BY <1>7 DEF Mtc0Status
  <2>2. now \in States /\ CpuOK(now)
    BY <1>n, <1>s
  <2>3. v.ie \in BOOLEAN /\ v.exl \in BOOLEAN /\ v.erl \in BOOLEAN /\ v.im \in SUBSET IPs
    BY StatusAssumption
  <2> HIDE DEF now
  <2>4. /\ set \in States /\ set.q = now.q /\ set.count = now.count
        /\ set.compare = now.compare /\ set.next = now.next
        /\ set.cycle = now.cycle /\ set.skip = now.skip
    BY <2>2, <2>3 DEF States
  <2> HIDE DEF set
  <2>5. CpuOK(CheckInterrupt(set, "IP2", set.rcp))
    BY <2>2, <2>4, MaskedOK
  <2>6. CpuOK(r4300')
    BY <2>1, <2>5, GenIfDueOK
  <2> QED BY <1>7, <2>6, CountsOK DEF Mtc0Status, InBlock
<1>8. ASSUME NEW n \in 0 .. MaxOps, NEW h \in Responses, NEW value \in CountValues,
             Mtc0Count(n, value, h)
      PROVE  Inv'
  <2>1. CpuOK(GenIfDue(Now(n), FALSE, TRUE, h)) /\ value \in 0 .. Wrap - 1
    BY <1>n, GenIfDueOK, WriteAssumption
  <2>2. CpuOK(r4300')
    BY <1>8, <2>1, Mtc0CountOK DEF Mtc0Count
  <2> QED BY <1>8, <2>2, CountsOK DEF Mtc0Count, InBlock
<1>9. ASSUME NEW n \in 0 .. MaxOps, NEW h \in Responses, Eret(n, h) PROVE Inv'
  <2> DEFINE now == Now(n)
             ret == IF now.erl THEN [now EXCEPT !.stop = TRUE]
                    ELSE [now EXCEPT !.exl = FALSE]
  <2>1. r4300' = GenIfDue(CheckInterrupt(ret, "IP2", ret.rcp), FALSE, FALSE, h)
    BY <1>9 DEF Eret
  <2>2. now \in States /\ CpuOK(now)
    BY <1>n, <1>s
  <2> HIDE DEF now
  <2>4. /\ ret \in States /\ ret.q = now.q /\ ret.count = now.count
        /\ ret.compare = now.compare /\ ret.next = now.next
        /\ ret.cycle = now.cycle /\ ret.skip = now.skip
    BY <2>2 DEF States
  <2> HIDE DEF ret
  <2>5. CpuOK(CheckInterrupt(ret, "IP2", ret.rcp))
    BY <2>2, <2>4, MaskedOK
  <2>6. CpuOK(r4300')
    BY <2>1, <2>5, GenIfDueOK
  <2> QED BY <1>0, <1>9, <2>6 DEF Eret
<1>10. ASSUME NEW n \in 0 .. MaxOps, NEW h \in Responses, LoadSaved(n, h) PROVE Inv'
  <2> DEFINE saved == GenInterrupt(Now(n), FALSE, FALSE, h)
  <2>1. CpuOK(saved)
    BY <1>n, <1>10, GenInterruptOK DEF LoadSaved
  <2>2. r4300' = LoadEventQueue(saved, saved.q)
    BY <1>10 DEF LoadSaved
  <2> HIDE DEF saved
  <2>3. CpuOK(r4300')
    BY <2>1, <2>2, LoadSavedOK
  <2> QED BY <1>0, <1>10, <2>3 DEF LoadSaved
<1>11. ASSUME NEW some \in BOOLEAN, SignalRcpInterrupt(some) \/ ClearRcpInterrupt(some)
       PROVE  Inv'
  <2>1. r4300' = CheckInterrupt([Now(0) EXCEPT !.rcp = some], "IP2", some)
        /\ UNCHANGED <<ops, first>>
    BY <1>11 DEF SignalRcpInterrupt, ClearRcpInterrupt
  <2>2. CpuOK(r4300')
    BY <1>z, <2>1, RcpOK
  <2> QED BY <2>1, <2>2
<1>12. ASSUME SoftResetDevice PROVE Inv'
  <2> DEFINE hw2 == AddEvent(Now(0), "HW2_INT", 0)
  <2>1. /\ "HW2_INT" \in EventTypes \ {"COMPARE_INT", "SPECIAL_INT"}
        /\ "NMI_INT" \in EventTypes \ {"COMPARE_INT", "SPECIAL_INT"}
        /\ 0 \in 0 .. Half /\ NmiDelay \in 0 .. Half
    BY DelayAssumption, HalfType DEF EventTypes
  <2>2. ~Occurs(Now(0).q, "HW2_INT") /\ ~Occurs(Now(0).q, "NMI_INT") /\ CpuOK(Now(0))
    BY <1>h, <1>z, <1>12 DEF SoftResetDevice
  <2>3. /\ CpuOK(hw2)
        /\ \A other : Occurs(hw2.q, other) => Occurs(Now(0).q, other) \/ other = "HW2_INT"
    BY <2>1, <2>2, ScheduleOK
  <2>4. r4300' = AddEvent(hw2, "NMI_INT", NmiDelay) /\ UNCHANGED <<ops, first>>
    BY <1>12 DEF SoftResetDevice
  <2> HIDE DEF hw2
  <2>5. ~Occurs(hw2.q, "NMI_INT")
    BY <2>2, <2>3
  <2>6. CpuOK(r4300')
    BY <1>12, <2>1, <2>3, <2>4, <2>5, ScheduleOK DEF SoftResetDevice
  <2> QED BY <2>4, <2>6
<1>13. ASSUME HardResetDevice \/ StopDevice PROVE Inv'
  <2> DEFINE now == Now(0)
  <2>1. now \in States /\ CpuOK(now)
    BY <1>0, <1>n, <1>s
  <2>2. (r4300' = [now EXCEPT !.resetJob = TRUE] \/ r4300' = [now EXCEPT !.stop = TRUE])
        /\ UNCHANGED <<ops, first>>
    BY <1>13 DEF HardResetDevice, StopDevice
  <2> HIDE DEF now
  <2>3. /\ r4300' \in States /\ r4300'.q = now.q /\ r4300'.count = now.count
        /\ r4300'.compare = now.compare /\ r4300'.next = now.next /\ r4300'.cycle = now.cycle
        /\ r4300'.skip = now.skip /\ r4300'.ie = now.ie /\ r4300'.exl = now.exl
        /\ r4300'.erl = now.erl /\ r4300'.im = now.im /\ r4300'.cause = now.cause
    BY <2>1, <2>2 DEF States
  <2>4. CpuOK(r4300')
    BY <2>1, <2>3, RegistersOK DEF CpuOK, Synced, NoneLost, Unmasked
  <2> QED BY <2>2, <2>4
<1>14. ASSUME UNCHANGED vars PROVE Inv'
  BY <1>14 DEF vars, CpuOK, QueueOK, Armed, NoneLost, Synced, Timers, Occurs, Singles, Once
<1>15. ASSUME WriteViVSync PROVE Inv'
  <2>1. CpuOK(r4300')
    BY <1>z, <1>15, ViWrittenOK DEF WriteViVSync
  <2> QED BY <1>15, <2>1 DEF WriteViVSync
<1> HIDE DEF Inv
<1> QED
  BY <1>1, <1>2, <1>3, <1>4, <1>5, <1>6, <1>7, <1>8, <1>9, <1>10, <1>11, <1>12, <1>13,
     <1>14, <1>15
     DEF Next, Run, Answers

\* The whole CPU state keeps the invariant.
LEMMA Invariance == Spec => []Inv
  BY InitOK, NextOK, PTL DEF Spec

\* The queue never outgrows the pool of nodes, and every register stays within its
\* width, whatever is scheduled, written, translated, loaded or reset.
THEOREM TypeTheorem == Spec => []TypeOK
<1>1. Inv => TypeOK
  <2> SUFFICES ASSUME Inv PROVE TypeOK
    OBVIOUS
  <2>1. r4300 \in States /\ Len(r4300.q) <= Capacity /\ ops \in 0 .. MaxOps
        /\ first \in BOOLEAN
    BY DEF Inv, CpuOK, QueueOK
  <2> QED BY <2>1 DEF TypeOK, States, Nodes
<1> QED BY <1>1, Invariance, PTL

\* SPECIAL_INT and COMPARE_INT are each queued exactly once and for the right Count, for
\* every size of the pool: the code that re-arms them always finds the node it has just
\* freed, and every path of it, a load among them, arms them for the Count they belong to.
THEOREM TimersTheorem == Spec => []TimersArmed
<1>1. Inv => TimersArmed
  <2> SUFFICES ASSUME Inv PROVE TimersArmed
    OBVIOUS
  <2>1. ASSUME NEW type \in {"SPECIAL_INT", "COMPARE_INT"}
        PROVE  Cardinality(Positions(type)) = 1
    <3>1. Occurs(r4300.q, type) /\ Once(r4300.q, type)
      BY DEF Inv, CpuOK, QueueOK, Timers, Singles, EventTypes
    <3>2. PICK i \in 1 .. Len(r4300.q) : r4300.q[i].type = type
      BY <3>1 DEF Occurs
    <3>3. Positions(type) = {i}
      BY <3>1, <3>2 DEF Positions, Once
    <3> QED BY <3>3, FS_Singleton
  <2>2. ASSUME NEW i \in Positions("SPECIAL_INT")
        PROVE  r4300.q[i].count \in {0, Half} /\ r4300.q[i].left <= Half
    BY DEF Inv, CpuOK, QueueOK, Armed, Timely, Near, Positions
  <2>3. ASSUME NEW i \in Positions("COMPARE_INT")
        PROVE  r4300.q[i].count = r4300.compare \/ (Resets /\ r4300.q[i].count = 0)
    BY DEF Inv, CpuOK, QueueOK, Armed, Timely, Positions
  <2> QED BY <2>1, <2>2, <2>3 DEF TimersArmed
<1> QED BY <1>1, Invariance, PTL

\* next_interrupt and cycle_count describe the first node whenever no exception of
\* a delay slot is outstanding.
THEOREM CycleTheorem == Spec => []CycleCountInSync
<1>1. Inv => CycleCountInSync
  BY DEF Inv, CpuOK, Synced, CycleCountInSync
<1> QED BY <1>1, Invariance, PTL

\* No event but the timer is handled before it is due, although the code compares
\* 32-bit counts that wrap around.
THEOREM EarlyTheorem == Spec => []NeverEarly
<1>1. Inv => NeverEarly
  <2> SUFFICES ASSUME Inv, r4300.cycle >= 0, ~r4300.skip,
                      r4300.q[1].type # "COMPARE_INT"
               PROVE  r4300.q[1].left <= 0
    BY DEF NeverEarly
  <2>1. QueueOK(r4300) /\ Synced(r4300)
    BY DEF Inv, CpuOK
  <2> QED BY <2>1, Due
<1> QED BY <1>1, Invariance, PTL

\* With a node for every type of event, an interrupt that is pending and unmasked is
\* never lost.  The code has 16 nodes and 15 types (interrupt.h, cp0.h).
THEOREM DeliveryTheorem ==
    ASSUME Room
    PROVE  Spec => []NoLostInterrupt
<1>1. Inv => NoLostInterrupt
  BY DEF Inv, CpuOK, NoneLost, NoLostInterrupt, HasEvent, Occurs
<1> QED BY <1>1, Invariance, PTL
=============================================================================
