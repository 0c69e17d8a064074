--------------------------- MODULE NetplayProofs ---------------------------
(***************************************************************************)
(* The safety properties of Netplay and its refinement of InputStream, for *)
(* every set of players, every even size of the counter and every buffer   *)
(* target: the client stays within half a turn of the counter of what the  *)
(* network may bring, so the counter tells the inputs apart.               *)
(***************************************************************************)
EXTENDS Netplay, TLAPS

Events == [count : 0 .. Wrap - 1, input : Nat]
Event(n) == [count |-> Modulo(n), input |-> n]

\* ListSound of one list, with the number g of the next input and the number d of inputs
\* that were decided.
ListOK(l, g, d) ==
    \A i \in 1 .. Len(l) :
        /\ l[i].input \in g .. d - 1
        /\ l[i].count = Modulo(l[i].input)
        /\ \A j \in 1 .. i - 1 : l[j].input # l[i].input

\* The server is never behind the client, nor further ahead than it may be, and the
\* input handed over last is the one before the next.
CountersInv ==
    \A p \in Players :
        /\ given[p] <= decided[p] /\ decided[p] <= given[p] + Ahead
        /\ last[p] = given[p] - 1

\* The emulation thread knows which player it reads for, and netplay_require_response
\* exists exactly while it waits; what the thread found stays true until it is joined.
ReadInv ==
    /\ main.at \in {"process", "wait", "join"} => main.p \in Players
    /\ thread # "none" <=> main.at \in {"wait", "join"}
    /\ thread = "ok" => Valid(main.p)

\* A fast-forward has begun only if resting is on.
SpeedInv == LimiterRestored /\ (canFF => resting)

NetInv == TypeOK /\ CountersInv /\ ListSound /\ ReadInv /\ SpeedInv

-----------------------------------------------------------------------------
(* Counters of Wrap values.                                                 *)

LEMMA WrapType == Wrap \in Nat /\ Wrap > 1
  BY NetplayAssumption

LEMMA HalfType ==
    /\ Half \in Nat /\ Wrap = 2 * Half /\ (Wrap - 1) \div 2 = Half - 1
    /\ Ahead \in Nat /\ Ahead <= Half /\ MaxAge \in Nat /\ MaxAge <= Half
<1>1. Half \in Nat
  BY NetplayAssumption DEF Half
<1>2. Wrap = 2 * Half /\ Ahead \in 1 .. Half /\ MaxAge \in 0 .. Half
  BY NetplayAssumption
<1> QED BY <1>1, <1>2

LEMMA ModuloType ==
    ASSUME NEW n \in Int
    PROVE  Modulo(n) \in 0 .. Wrap - 1
  BY WrapType DEF Modulo

\* Division with remainder: the quotient exists, and the remainder is unique.
LEMMA Quotient ==
    ASSUME NEW n \in Int
    PROVE  \E q \in Int : n = Wrap * q + Modulo(n)
<1>1. n \div Wrap \in Int /\ n = Wrap * (n \div Wrap) + (n % Wrap)
  BY WrapType
<1> QED BY <1>1 DEF Modulo

LEMMA Remainder ==
    ASSUME NEW n \in Int, NEW q \in Int, NEW r \in 0 .. Wrap - 1, n = Wrap * q + r
    PROVE  Modulo(n) = r
  BY WrapType DEF Modulo

\* The counter goes on: modulo 2^32, the next number comes after this one.
LEMMA ModuloNext ==
    ASSUME NEW n \in Int
    PROVE  Modulo(Modulo(n) + 1) = Modulo(n + 1)
<1>1. PICK q \in Int : n = Wrap * q + Modulo(n)
  BY Quotient
<1>2. Modulo(n) \in 0 .. Wrap - 1
  BY ModuloType
<1>3. CASE Modulo(n) + 1 < Wrap
  <2>1. Modulo(n) + 1 \in 0 .. Wrap - 1 /\ Modulo(n) + 1 \in Int
        /\ Modulo(n) + 1 = Wrap * 0 + (Modulo(n) + 1)
    BY <1>2, <1>3, WrapType
  <2>2. Modulo(Modulo(n) + 1) = Modulo(n) + 1
    BY <2>1, Remainder
  <2>3. n + 1 = Wrap * q + (Modulo(n) + 1)
    BY <1>1, <1>2, WrapType
  <2>4. Modulo(n + 1) = Modulo(n) + 1
    BY <2>1, <2>3, Remainder
  <2> QED BY <2>2, <2>4
<1>4. CASE Modulo(n) + 1 = Wrap
  <2>1. 0 \in 0 .. Wrap - 1 /\ Wrap \in Int /\ Wrap = Wrap * 1 + 0
    BY WrapType
  <2>2. Modulo(Wrap) = 0
    BY <2>1, Remainder, 1 \in Int, Zenon
  <2>3. n + 1 = Wrap * q + Wrap
    BY <1>1, <1>2, <1>4, WrapType
  <2>4. q + 1 \in Int /\ Wrap * (q + 1) = Wrap * q + Wrap
    BY WrapType
  <2>5. n + 1 = Wrap * (q + 1) + 0
    BY <2>3, <2>4, WrapType
  <2>6. Modulo(n + 1) = 0
    BY <2>1, <2>4, <2>5, n + 1 \in Int, Remainder, Zenon
  <2> QED BY <1>4, <2>2, <2>6
<1> QED BY <1>2, <1>3, <1>4, WrapType

\* Unsigned subtraction gives the distance of two numbers, forwards or one turn less
\* the distance backwards.
LEMMA ModuloMinus ==
    ASSUME NEW n \in Int, NEW g \in Int, - Wrap <= n - g, n - g < Wrap
    PROVE  Modulo(Modulo(n) - Modulo(g)) = IF n >= g THEN n - g ELSE n - g + Wrap
<1> DEFINE x == Modulo(n)
           y == Modulo(g)
<1>1. x \in Int /\ y \in Int
  BY ModuloType, WrapType
<1>2. PICK q \in Int : n = Wrap * q + x
  BY Quotient
<1>3. PICK k \in Int : g = Wrap * k + y
  BY Quotient
<1> HIDE DEF x, y
<1>4. x - y = Wrap * (k - q) + (n - g)
  BY <1>1, <1>2, <1>3, WrapType
<1>5. CASE n >= g
  <2>1. n - g \in 0 .. Wrap - 1 /\ x - y \in Int /\ k - q \in Int
    BY <1>1, <1>5, WrapType
  <2>2. Modulo(x - y) = n - g
    BY <1>4, <2>1, Remainder, Zenon
  <2> QED BY <1>5, <2>2 DEF x, y
<1>6. CASE n < g
  <2>1. Wrap * (k - q - 1) = Wrap * (k - q) - Wrap
    BY WrapType
  <2>2. x - y = Wrap * (k - q - 1) + (n - g + Wrap)
    BY <1>1, <1>4, <2>1, WrapType
  <2>3. n - g + Wrap \in 0 .. Wrap - 1 /\ x - y \in Int /\ k - q - 1 \in Int
    BY <1>1, <1>6, WrapType
  <2>4. Modulo(x - y) = n - g + Wrap
    BY <2>2, <2>3, Remainder, Zenon
  <2> QED BY <1>6, <2>4 DEF x, y
<1> QED BY <1>5, <1>6

\* Within one turn a number names one input.
LEMMA ModuloInjective ==
    ASSUME NEW a \in Int, NEW b \in Int, a <= b, b - a < Wrap, Modulo(a) = Modulo(b)
    PROVE  a = b
<1>1. Modulo(Modulo(b) - Modulo(a)) = b - a
  BY ModuloMinus, WrapType
<1>2. Modulo(b) - Modulo(a) = 0
  BY ModuloType, WrapType
<1>3. 0 \in 0 .. Wrap - 1 /\ 0 = Wrap * 0 + 0
  BY WrapType
<1>4. Modulo(0) = 0
  BY <1>3, Remainder
<1> QED BY <1>1, <1>2, <1>4

-----------------------------------------------------------------------------
(* The list of events.                                                      *)

\* The difference that netplay_process computes tells the inputs that are still to come
\* from those that lie behind.
LEMMA OutdatedLemma ==
    ASSUME NEW p \in Players, NEW n \in Int, NEW g \in Nat, count[p] = Modulo(g),
           n >= g - MaxAge, n < g + Ahead
    PROVE  Outdated(p, Modulo(n)) <=> n < g
<1>1. Modulo(Modulo(n) - count[p]) = IF n >= g THEN n - g ELSE n - g + Wrap
  BY HalfType, WrapType, ModuloMinus
<1> QED BY <1>1, HalfType, WrapType DEF Outdated

\* An event with a new number goes in front of the others.
LEMMA PrependLemma ==
    ASSUME NEW l \in Seq(Events), NEW g \in Nat, NEW d \in Nat, ListOK(l, g, d),
           NEW n \in g .. d - 1, \A i \in 1 .. Len(l) : l[i].count # Modulo(n)
    PROVE  /\ <<Event(n)>> \o l \in Seq(Events) /\ ListOK(<<Event(n)>> \o l, g, d)
           /\ \A i \in 1 .. Len(l) :
                 \E j \in 1 .. Len(<<Event(n)>> \o l) : (<<Event(n)>> \o l)[j] = l[i]
<1> DEFINE e == Event(n)
           k == <<e>> \o l
<1>1. e \in Events /\ e.count = Modulo(n) /\ e.input = n
  <2>1. n \in Nat /\ n \in Int
    OBVIOUS
  <2>2. Modulo(n) \in 0 .. Wrap - 1
    BY <2>1, ModuloType, Zenon
  <2> QED BY <2>1, <2>2 DEF Events, Event
<1> HIDE DEF e
<1>2. <<e>> \in Seq(Events) /\ Len(<<e>>) = 1 /\ <<e>>[1] = e
  BY <1>1
<1>3. k \in Seq(Events) /\ Len(k) = Len(l) + 1 /\ k[1] = e
      /\ \A i \in 1 .. Len(l) : k[i + 1] = l[i]
  BY <1>2
<1> HIDE DEF k
<1>4. \A i \in 2 .. Len(k) : i - 1 \in 1 .. Len(l) /\ k[i] = l[i - 1]
  BY <1>3
<1>5. \A i \in 1 .. Len(l) : l[i].input # n
  BY DEF ListOK
<1>6. ASSUME NEW i \in 1 .. Len(k)
      PROVE  /\ k[i].input \in g .. d - 1
             /\ k[i].count = Modulo(k[i].input)
             /\ \A j \in 1 .. i - 1 : k[j].input # k[i].input
  <2>1. CASE i = 1
    BY <1>1, <1>3, <2>1
  <2>2. CASE i # 1
    <3>1. i \in 2 .. Len(k) /\ i - 1 \in 1 .. Len(l) /\ k[i] = l[i - 1]
      BY <1>3, <1>4, <2>2
    <3>2. k[i].input \in g .. d - 1 /\ k[i].count = Modulo(k[i].input)
      BY <3>1 DEF ListOK
    <3>3. ASSUME NEW j \in 1 .. i - 1 PROVE k[j].input # k[i].input
      <4>1. CASE j = 1
        BY <1>1, <1>3, <1>5, <3>1, <4>1
      <4>2. CASE j # 1
        <5>1. j \in 2 .. Len(k) /\ k[j] = l[j - 1] /\ j - 1 \in 1 .. (i - 1) - 1
          BY <1>3, <1>4, <4>2
        <5> QED BY <3>1, <5>1 DEF ListOK
      <4> QED BY <4>1, <4>2
    <3> QED BY <3>2, <3>3
  <2> QED BY <2>1, <2>2
<1>7. ListOK(k, g, d)
  BY <1>6 DEF ListOK
<1>8. \A i \in 1 .. Len(l) : \E j \in 1 .. Len(k) : k[j] = l[i]
  BY <1>3
<1> QED BY <1>3, <1>7, <1>8 DEF k, e

\* Where the next event is on the list, the search finds it, and it holds the next input.
LEMMA FirstLemma ==
    ASSUME NEW p \in Players, NEW g \in Nat, NEW d \in Nat, d <= g + Ahead,
           list[p] \in Seq(Events), ListOK(list[p], g, d), count[p] = Modulo(g), Valid(p)
    PROVE  /\ First(p) \in 1 .. Len(list[p])
           /\ list[p][First(p)].input = g
           /\ g < d
<1>1. \A i \in 1 .. Len(list[p]) :
        list[p][i].count = count[p] => list[p][i].input = g /\ g < d
  <2> SUFFICES ASSUME NEW i \in 1 .. Len(list[p]), list[p][i].count = count[p]
               PROVE  list[p][i].input = g /\ g < d
    OBVIOUS
  <2>1. list[p][i].input \in g .. d - 1 /\ list[p][i].count = Modulo(list[p][i].input)
    BY DEF ListOK
  <2>2. list[p][i].input \in Int /\ g \in Int /\ g <= list[p][i].input
        /\ list[p][i].input - g < Wrap /\ Modulo(g) = Modulo(list[p][i].input)
    <3>1. ASSUME NEW n \in g .. d - 1
          PROVE  n \in Int /\ g <= n /\ n - g < Wrap
      BY <3>1, HalfType, WrapType
    <3>2. Modulo(g) = Modulo(list[p][i].input)
      BY <2>1
    <3>3. list[p][i].input \in Int /\ g <= list[p][i].input
          /\ list[p][i].input - g < Wrap
      BY ONLY <2>1, <3>1
    <3> QED BY <3>2, <3>3
  <2>3. list[p][i].input = g
    BY <2>2, ModuloInjective, Zenon
  <2> QED BY <2>1, <2>3
<1>2. PICK i \in 1 .. Len(list[p]) : list[p][i].count = count[p]
  BY DEF Valid, CheckValid
<1>3. \A j \in 1 .. i - 1 : list[p][j].count # count[p]
  <2> SUFFICES ASSUME NEW j \in 1 .. i - 1, list[p][j].count = count[p]
               PROVE  FALSE
    OBVIOUS
  <2>1. list[p][j].input = g /\ list[p][i].input = g
    BY <1>1, <1>2
  <2> QED BY <2>1 DEF ListOK
<1>4. First(p) \in 1 .. Len(list[p]) /\ list[p][First(p)].count = count[p]
  BY <1>2, <1>3 DEF First
<1> QED BY <1>1, <1>4

\* The list without the event that was used: the others are still to come.
LEMMA DeleteLemma ==
    ASSUME NEW l \in Seq(Events), NEW g \in Nat, NEW d \in Nat, ListOK(l, g, d),
           NEW k \in 1 .. Len(l), l[k].input = g
    PROVE  Delete(l, k) \in Seq(Events) /\ ListOK(Delete(l, k), g + 1, d)
<1> DEFINE w == Delete(l, k)
<1>1. w \in Seq(Events) /\ Len(w) = Len(l) - 1
  BY DEF Delete
<1>2. \A j \in 1 .. Len(w) : w[j] = IF j < k THEN l[j] ELSE l[j + 1]
  BY <1>1 DEF Delete
<1> HIDE DEF w
<1>3. \A i \in 1 .. Len(l) : i # k => l[i].input # g
  BY DEF ListOK
<1>4. ASSUME NEW i \in 1 .. Len(w)
      PROVE  /\ w[i].input \in g + 1 .. d - 1
             /\ w[i].count = Modulo(w[i].input)
             /\ \A j \in 1 .. i - 1 : w[j].input # w[i].input
  <2>1. PICK a \in 1 .. Len(l) : a # k /\ w[i] = l[a] /\ a = IF i < k THEN i ELSE i + 1
    BY <1>1, <1>2
  <2>2. l[a].input \in g .. d - 1 /\ l[a].input # g /\ l[a].count = Modulo(l[a].input)
    BY <1>3, <2>1 DEF ListOK
  <2>3. ASSUME NEW j \in 1 .. i - 1 PROVE w[j].input # w[i].input
    <3> DEFINE b == IF j < k THEN j ELSE j + 1
    <3>0. j \in 1 .. Len(w) /\ b \in 1 .. Len(l)
      BY <1>1
    <3>1. w[j] = l[b]
      BY <1>2, <3>0
    <3>2. b \in 1 .. a - 1
      BY <2>1, <3>0
    <3> HIDE DEF b
    <3> QED BY <2>1, <3>1, <3>2 DEF ListOK
  <2> QED BY <2>1, <2>2, <2>3
<1>5. ListOK(w, g + 1, d)
  BY <1>4 DEF ListOK
<1> QED BY <1>1, <1>5 DEF w

-----------------------------------------------------------------------------
(* The invariant.                                                           *)

LEMMA InitNet == Init => NetInv
<1> SUFFICES ASSUME Init PROVE NetInv
  OBVIOUS
<1>1. canFF \in BOOLEAN /\ limiter \in BOOLEAN /\ resting \in BOOLEAN
      /\ channel \in BOOLEAN /\ stop \in BOOLEAN
  BY Zenon DEF Init
<1>2. list \in [Players -> Seq([count : 0 .. Wrap - 1, input : Nat])]
  BY DEF Init
<1>3. TypeOK
  BY <1>1, <1>2, NetplayAssumption DEF Init, TypeOK, Idle, NoPlayer
<1>4. CountersInv
  <2>1. Ahead \in Nat
    BY HalfType
  <2> SUFFICES ASSUME NEW p \in Players
               PROVE  given[p] <= decided[p] /\ decided[p] <= given[p] + Ahead
                      /\ last[p] = given[p] - 1
    BY DEF CountersInv
  <2>2. given[p] = 0 /\ decided[p] = 0 /\ last[p] = -1
    BY DEF Init
  <2> QED BY <2>1, <2>2
<1>5. Modulo(0) = 0
  BY WrapType DEF Modulo
<1>6. ListSound
  <2> SUFFICES ASSUME NEW p \in Players
               PROVE  count[p] = Modulo(given[p]) /\ 1 .. Len(list[p]) = {}
    BY Zenon DEF ListSound
  <2>1. count[p] = 0 /\ given[p] = 0 /\ list[p] = <<>>
    BY DEF Init
  <2> QED BY <1>5, <2>1
<1>7. ReadInv /\ SpeedInv
  BY DEF Init, ReadInv, SpeedInv, LimiterRestored, Idle
<1> QED BY <1>3, <1>4, <1>6, <1>7 DEF NetInv

\* NetInv of the list of one player.
LEMMA OnePlayer ==
    ASSUME NetInv, NEW p \in Players
    PROVE  /\ given[p] \in Nat /\ decided[p] \in Nat /\ list[p] \in Seq(Events)
           /\ ListOK(list[p], given[p], decided[p]) /\ count[p] = Modulo(given[p])
           /\ given[p] <= decided[p] /\ decided[p] <= given[p] + Ahead
           /\ last[p] = given[p] - 1
<1>1. given[p] \in 0 .. MaxInputs /\ decided[p] \in 0 .. MaxInputs
      /\ list[p] \in Seq(Events)
  BY DEF NetInv, TypeOK, Events
<1> QED BY <1>1 DEF NetInv, ListSound, ListOK, CountersInv

\* Steps of the server, of the clock and of the threads that leave the lists alone.
LEMMA SameLists ==
    ASSUME NetInv, UNCHANGED <<count, list, given, last>>,
           \A p \in Players : decided'[p] \in decided[p] .. given[p] + Ahead
    PROVE  CountersInv' /\ ListSound'
<1>1. CountersInv'
  BY OnePlayer DEF CountersInv
<1>2. ASSUME NEW p \in Players
      PROVE  ListOK(list[p], given[p], decided'[p]) /\ count[p] = Modulo(given[p])
  BY OnePlayer DEF ListOK
<1>3. ListSound'
  BY <1>2 DEF ListSound, ListOK
<1> QED BY <1>1, <1>3

\* An event arrives: it is new, known already, or outdated.
LEMMA ProcessNet ==
    ASSUME NetInv, NEW p \in Players, NEW n \in InFlight(p), ProcessEvent(p, n)
    PROVE  NetInv'
<1> DEFINE c == Modulo(n)
           e == Event(n)
<1>1. n \in Int /\ 0 <= n /\ n < decided[p] /\ n >= given[p] - MaxAge
  BY OnePlayer, HalfType DEF InFlight
<1>2. UNCHANGED <<decided, count, lag, canFF, limiter, resting, channel, main, thread,
                  given, last, stop>>
  BY DEF ProcessEvent, speed
<1>3. CASE Outdated(p, c) \/ CheckValid(p, c)
  <2>1. list' = list
    BY <1>3 DEF ProcessEvent
  <2>2. TypeOK' /\ CountersInv' /\ SpeedInv'
    BY <1>2, <2>1 DEF NetInv, TypeOK, CountersInv, SpeedInv, LimiterRestored
  <2>3. ListSound'
    BY <1>2, <2>1 DEF NetInv, ListSound
  <2>4. ReadInv'
    BY <1>2, <2>1 DEF NetInv, ReadInv, Valid, CheckValid
  <2> QED BY <2>2, <2>3, <2>4 DEF NetInv
<1>4. CASE ~Outdated(p, c) /\ ~CheckValid(p, c)
  <2>1. list' = [list EXCEPT ![p] = <<e>> \o list[p]]
    BY <1>4 DEF ProcessEvent, Event
  <2>2. n \in given[p] .. decided[p] - 1
    <3>1. n < given[p] + Ahead
      BY <1>1, OnePlayer, HalfType
    <3>2. ~(n < given[p])
      BY <1>1, <1>4, <3>1, OnePlayer, OutdatedLemma
    <3> QED BY <1>1, <3>2, OnePlayer
  <2>3. \A i \in 1 .. Len(list[p]) : list[p][i].count # Modulo(n)
    BY <1>4 DEF CheckValid
  <2>4. /\ <<e>> \o list[p] \in Seq(Events)
        /\ ListOK(<<e>> \o list[p], given[p], decided[p])
        /\ \A i \in 1 .. Len(list[p]) :
              \E j \in 1 .. Len(<<e>> \o list[p]) : (<<e>> \o list[p])[j] = list[p][i]
    <3>1. given[p] \in Nat /\ decided[p] \in Nat /\ list[p] \in Seq(Events)
          /\ ListOK(list[p], given[p], decided[p])
      BY OnePlayer
    <3> QED BY <2>2, <2>3, <3>1, PrependLemma
  <2> HIDE DEF e, c
  <2>5. list' \in [Players -> Seq(Events)] /\ list'[p] = <<e>> \o list[p]
        /\ \A q \in Players \ {p} : list'[q] = list[q]
    BY <2>1, <2>4 DEF NetInv, TypeOK, Events
  <2>6. TypeOK'
    BY <1>2, <2>5 DEF NetInv, TypeOK, Events
  <2>7. ListSound'
    <3>1. ASSUME NEW q \in Players
          PROVE  ListOK(list'[q], given[q], decided[q]) /\ count[q] = Modulo(given[q])
      BY <2>4, <2>5, OnePlayer
    <3> QED BY <1>2, <3>1 DEF ListSound, ListOK
  <2>8. ASSUME NEW q \in Players, Valid(q) PROVE Valid(q)'
    <3>1. PICK i \in 1 .. Len(list[q]) : list[q][i].count = count[q]
      BY <2>8 DEF Valid, CheckValid
    <3>2. \E j \in 1 .. Len(list'[q]) : list'[q][j] = list[q][i]
      BY <2>4, <2>5
    <3> QED BY <1>2, <3>1, <3>2 DEF Valid, CheckValid
  <2>9. ReadInv'
    BY <1>2, <2>8 DEF NetInv, ReadInv
  <2> QED BY <1>2, <2>6, <2>7, <2>9 DEF NetInv, CountersInv, SpeedInv, LimiterRestored
<1> QED BY <1>3, <1>4

\* The event with the right number is used and deleted: it holds the next input of the
\* server, and what is left on the list is still to come.
LEMMA TakeNet ==
    ASSUME NetInv, NEW p \in Players, Valid(p), TakeEvent(p), UNCHANGED decided
    PROVE  /\ CountersInv' /\ ListSound'
           /\ list' \in [Players -> Seq(Events)] /\ count' \in [Players -> 0 .. Wrap - 1]
           /\ given[p] < decided[p]
           /\ given' = [given EXCEPT ![p] = @ + 1] /\ last' = [last EXCEPT ![p] = given[p]]
<1>1. given[p] \in Nat /\ decided[p] \in Nat /\ list[p] \in Seq(Events)
      /\ ListOK(list[p], given[p], decided[p]) /\ count[p] = Modulo(given[p])
      /\ decided[p] <= given[p] + Ahead
  BY OnePlayer
<1>2. First(p) \in 1 .. Len(list[p]) /\ list[p][First(p)].input = given[p]
      /\ given[p] < decided[p]
  BY <1>1, FirstLemma
<1>3. Delete(list[p], First(p)) \in Seq(Events)
      /\ ListOK(Delete(list[p], First(p)), given[p] + 1, decided[p])
  BY <1>1, <1>2, DeleteLemma
<1>4. list' = [list EXCEPT ![p] = Delete(list[p], First(p))]
      /\ given' = [given EXCEPT ![p] = @ + 1] /\ last' = [last EXCEPT ![p] = given[p]]
      /\ count' = [count EXCEPT ![p] = Modulo(count[p] + 1)]
  BY <1>2 DEF TakeEvent
<1>5. /\ list' \in [Players -> Seq(Events)] /\ list'[p] = Delete(list[p], First(p))
      /\ \A q \in Players \ {p} : list'[q] = list[q]
  BY <1>3, <1>4 DEF NetInv, TypeOK, Events
<1>6. /\ given'[p] = given[p] + 1 /\ last'[p] = given[p]
      /\ \A q \in Players \ {p} : given'[q] = given[q] /\ last'[q] = last[q]
  BY <1>4 DEF NetInv, TypeOK
<1>7. Modulo(count[p] + 1) = Modulo(given[p] + 1)
  BY <1>1, ModuloNext
<1>8. /\ count' \in [Players -> 0 .. Wrap - 1] /\ count'[p] = Modulo(given[p] + 1)
      /\ \A q \in Players \ {p} : count'[q] = count[q]
  <2>1. Modulo(given[p] + 1) \in 0 .. Wrap - 1
    <3>1. given[p] + 1 \in Int
      BY <1>1
    <3> QED BY <3>1, ModuloType, Zenon
  <2>2. count \in [Players -> 0 .. Wrap - 1]
    BY DEF NetInv, TypeOK
  <2>3. count' = [count EXCEPT ![p] = Modulo(given[p] + 1)]
    BY <1>4, <1>7
  <2> QED BY <2>1, <2>2, <2>3
<1>9. CountersInv'
  <2> SUFFICES ASSUME NEW q \in Players
               PROVE  /\ given'[q] <= decided[q] /\ decided[q] <= given'[q] + Ahead
                      /\ last'[q] = given'[q] - 1
    BY DEF CountersInv
  <2>1. CASE q = p
    BY <1>1, <1>2, <1>6, <2>1, HalfType
  <2>2. CASE q # p
    BY <1>6, <2>2, OnePlayer
  <2> QED BY <2>1, <2>2
<1>10. ASSUME NEW q \in Players
       PROVE  ListOK(list'[q], given'[q], decided[q]) /\ count'[q] = Modulo(given'[q])
  <2>1. CASE q = p
    BY <1>3, <1>5, <1>6, <1>8, <2>1
  <2>2. CASE q # p
    BY <1>5, <1>6, <1>8, <2>2, OnePlayer
  <2> QED BY <2>1, <2>2
<1>11. ListSound'
  BY <1>10 DEF ListSound, ListOK
<1> QED BY <1>2, <1>4, <1>5, <1>8, <1>9, <1>11

\* The steps of the emulation thread.
LEMMA MainNet ==
    ASSUME NetInv, MainStep
    PROVE  NetInv'
<1>1. UNCHANGED <<decided, lag, channel>>
  BY DEF MainStep, EnsureValid, LeaveWait, JoinThread
<1>2. main.p \in Players
  BY DEF MainStep, EnsureValid, LeaveWait, JoinThread, NetInv, ReadInv
<1>3. /\ CountersInv' /\ ListSound'
      /\ list' \in [Players -> Seq(Events)] /\ count' \in [Players -> 0 .. Wrap - 1]
      /\ given' \in [Players -> 0 .. MaxInputs] /\ last' \in [Players -> {-1} \cup Nat]
      /\ stop' \in BOOLEAN
  <2>1. CASE Valid(main.p) /\ TakeEvent(main.p)
    <3>1. CountersInv' /\ ListSound'
          /\ list' \in [Players -> Seq(Events)] /\ count' \in [Players -> 0 .. Wrap - 1]
          /\ given[main.p] < decided[main.p]
          /\ given' = [given EXCEPT ![main.p] = @ + 1]
          /\ last' = [last EXCEPT ![main.p] = given[main.p]]
      BY <1>1, <1>2, <2>1, TakeNet
    <3>2. given[main.p] + 1 \in 0 .. MaxInputs /\ given[main.p] \in Nat
      BY <1>2, <3>1, NetplayAssumption DEF NetInv, TypeOK
    <3>3. given' \in [Players -> 0 .. MaxInputs] /\ last' \in [Players -> {-1} \cup Nat]
      BY <1>2, <3>1, <3>2 DEF NetInv, TypeOK
    <3>4. stop' \in BOOLEAN
      BY <2>1 DEF TakeEvent, NetInv, TypeOK
    <3> QED BY <3>1, <3>3, <3>4
  <2>2. CASE UNCHANGED <<last, given, list, count>> /\ (stop' = TRUE \/ stop' = stop)
    <3>1. \A p \in Players : decided'[p] \in decided[p] .. given[p] + Ahead
      BY <1>1, OnePlayer, HalfType
    <3>2. stop' \in BOOLEAN
      BY <2>2, Zenon DEF NetInv, TypeOK
    <3> QED BY <2>2, <3>1, <3>2, SameLists DEF NetInv, TypeOK, Events
  <2> QED BY <2>1, <2>2 DEF MainStep, EnsureValid, LeaveWait, JoinThread, LoseConnection
<1>4. canFF' \in BOOLEAN /\ limiter' \in BOOLEAN /\ resting' \in BOOLEAN /\ SpeedInv'
  <2> canFF \in BOOLEAN /\ limiter \in BOOLEAN /\ resting \in BOOLEAN
      /\ (canFF \/ limiter = resting) /\ (canFF => resting)
    BY DEF NetInv, TypeOK, SpeedInv, LimiterRestored
  <2>1. CASE EnsureValid
    <3>0. resting' = (resting \/ canFF')
      BY <2>1 DEF EnsureValid
    <3>1. CASE lag[main.p] /\ Len(list[main.p]) > BufferTarget
      <4>1. canFF' = TRUE /\ limiter' = FALSE
        BY <2>1, <3>1, Zenon DEF EnsureValid, Speed, SetSpeedLimiter
      <4>2. resting' = TRUE
        BY <3>0, <4>1
      <4> QED BY <4>1, <4>2, Zenon DEF SpeedInv, LimiterRestored
    <3>2. CASE ~(lag[main.p] /\ Len(list[main.p]) > BufferTarget)
      <4>1. canFF' = FALSE /\ limiter' = (IF canFF THEN TRUE ELSE limiter)
        BY <2>1, <3>2, Zenon DEF EnsureValid, Speed, SetSpeedLimiter
      <4>2. resting' = resting
        BY <3>0, <4>1
      <4>3. limiter' = resting
        BY <4>1
      <4> QED BY <4>1, <4>2, <4>3, Zenon DEF SpeedInv, LimiterRestored
    <3> QED BY <3>1, <3>2
  <2>2. CASE LeaveWait \/ JoinThread
    BY <2>2 DEF LeaveWait, JoinThread, speed, NetInv, TypeOK, SpeedInv, LimiterRestored
  <2> QED BY <2>1, <2>2 DEF MainStep
<1>5. /\ main' \in [at : {"idle", "process", "wait", "join", "ended"},
                    p : Players \cup {NoPlayer}]
      /\ thread' \in {"none", "check", "ask", "ok", "lost"}
      /\ ReadInv'
  <2>1. CASE EnsureValid /\ main' = Idle /\ UNCHANGED thread
    <3>1. thread = "none"
      BY <2>1 DEF EnsureValid, NetInv, ReadInv
    <3> QED BY <2>1, <3>1 DEF Idle, ReadInv
  <2>2. CASE EnsureValid /\ main' = [main EXCEPT !.at = "wait"] /\ thread' = "check"
    BY <1>2, <2>2 DEF NetInv, TypeOK, ReadInv
  <2>3. CASE LeaveWait
    <3>1. main' = [main EXCEPT !.at = "join"] /\ main.at = "wait"
          /\ UNCHANGED <<count, list, thread>>
      BY <2>3 DEF LeaveWait
    <3> QED BY <1>2, <3>1 DEF NetInv, TypeOK, ReadInv, Valid, CheckValid
  <2>4. CASE JoinThread
    BY <2>4 DEF JoinThread, Idle, ReadInv
  <2> QED BY <2>1, <2>2, <2>3, <2>4 DEF MainStep, EnsureValid
<1>6. TypeOK'
  BY <1>1, <1>3, <1>4, <1>5 DEF NetInv, TypeOK, Events
<1> QED BY <1>3, <1>4, <1>5, <1>6 DEF NetInv

\* The steps of netplay_require_response.
LEMMA ThreadNet ==
    ASSUME NetInv, ThreadStep
    PROVE  NetInv'
<1>1. UNCHANGED <<decided, count, list, lag, canFF, limiter, resting, main, given, last, stop>>
  BY DEF ThreadStep, ThreadCheck, ThreadAsk, ThreadTimeout, speed
<1>2. /\ thread # "none" /\ thread' \in {"check", "ask", "ok", "lost"}
      /\ thread' = "ok" => Valid(main.p)
  BY DEF ThreadStep, ThreadCheck, ThreadAsk, ThreadTimeout
<1>3. channel' \in BOOLEAN
  <2>1. channel' = channel \/ channel' = FALSE
    BY DEF ThreadStep, ThreadCheck, ThreadAsk, ThreadTimeout
  <2> QED BY <2>1, Zenon DEF NetInv, TypeOK
<1>4. TypeOK' /\ CountersInv' /\ SpeedInv'
  BY <1>1, <1>2, <1>3 DEF NetInv, TypeOK, CountersInv, SpeedInv, LimiterRestored
<1>5. ListSound'
  BY <1>1 DEF NetInv, ListSound
<1>6. ReadInv'
  BY <1>1, <1>2 DEF NetInv, ReadInv, Valid, CheckValid
<1> QED BY <1>4, <1>5, <1>6 DEF NetInv

LEMMA NextNet == NetInv /\ [Next]_vars => NetInv'
<1> SUFFICES ASSUME NetInv, [Next]_vars PROVE NetInv'
  OBVIOUS
<1>1. ASSUME NEW p \in Players, ServerDecides(p) PROVE NetInv'
  <2>1. UNCHANGED <<count, list, lag, canFF, limiter, resting, channel, main, thread,
                    given, last, stop>>
    BY <1>1 DEF ServerDecides, speed
  <2>2. decided[p] < MaxInputs /\ decided[p] < given[p] + Ahead
        /\ decided' = [decided EXCEPT ![p] = @ + 1]
    BY <1>1 DEF ServerDecides
  <2>3. decided[p] + 1 \in 0 .. MaxInputs
    BY <2>2, OnePlayer, NetplayAssumption
  <2>4. decided' \in [Players -> 0 .. MaxInputs]
    BY <2>2, <2>3 DEF NetInv, TypeOK
  <2>5. \A q \in Players : decided'[q] \in decided[q] .. given[q] + Ahead
    <3> SUFFICES ASSUME NEW q \in Players
                 PROVE  decided'[q] \in decided[q] .. given[q] + Ahead
      OBVIOUS
    <3>1. Ahead \in Nat /\ given[q] \in Nat /\ decided[q] \in Nat
          /\ decided[q] <= given[q] + Ahead
      BY OnePlayer, HalfType
    <3>2. decided'[q] = IF q = p THEN decided[q] + 1 ELSE decided[q]
      BY <2>2 DEF NetInv, TypeOK
    <3> QED BY <2>2, <3>1, <3>2
  <2>6. CountersInv' /\ ListSound'
    BY <2>1, <2>5, SameLists
  <2>7. TypeOK' /\ SpeedInv'
    BY <2>1, <2>4 DEF NetInv, TypeOK, SpeedInv, LimiterRestored
  <2>8. ReadInv'
    BY <2>1 DEF NetInv, ReadInv, Valid, CheckValid
  <2> QED BY <2>6, <2>7, <2>8 DEF NetInv
<1>2. ASSUME NEW p \in Players, NEW n \in InFlight(p), ProcessEvent(p, n) PROVE NetInv'
  BY <1>2, ProcessNet
<1>3. ASSUME UNCHANGED <<decided, count, list, speed, channel, thread, given, last, stop>>,
             lag' \in [Players -> BOOLEAN],
             \/ main' = main
             \/ /\ main.at = "idle"
                /\ main' \in [at : {"process"}, p : Players] \cup
                             [at : {"ended"}, p : {NoPlayer}]
      PROVE  NetInv'
  <2>1. TypeOK' /\ CountersInv' /\ SpeedInv'
    BY <1>3 DEF NetInv, TypeOK, CountersInv, SpeedInv, LimiterRestored, speed
  <2>2. ListSound'
    BY <1>3 DEF NetInv, ListSound
  <2>3. ReadInv'
    BY <1>3 DEF NetInv, ReadInv, Valid, CheckValid
  <2> QED BY <2>1, <2>2, <2>3 DEF NetInv
<1>4. ASSUME NEW p \in Players, StartRead(p) PROVE NetInv'
  <2>1. main' \in [at : {"process"}, p : Players] /\ main.at = "idle"
        /\ UNCHANGED <<decided, count, list, speed, channel, thread, given, last, stop>>
        /\ lag' \in [Players -> BOOLEAN]
    BY <1>4 DEF StartRead, NetInv, TypeOK
  <2> QED BY <1>3, <2>1
<1>5. ASSUME NEW p \in Players, NEW behind \in BOOLEAN, ProcessLag(p, behind) PROVE NetInv'
  <2>1. lag' \in [Players -> BOOLEAN]
    BY <1>5 DEF ProcessLag, NetInv, TypeOK
  <2> QED BY <1>3, <1>5, <2>1 DEF ProcessLag
<1>6. CASE EndEmulation
  <2>1. main' \in [at : {"ended"}, p : {NoPlayer}] /\ lag' \in [Players -> BOOLEAN]
    BY <1>6 DEF EndEmulation, Idle, NetInv, TypeOK
  <2> QED BY <1>3, <1>6, <2>1 DEF EndEmulation
<1>8. ASSUME NEW on \in BOOLEAN, CoreStateSet(on) PROVE NetInv'
  <2>1. UNCHANGED <<decided, count, list, lag, canFF, resting, channel, main, thread, given,
                    last, stop>>
    BY <1>8 DEF CoreStateSet
  <2>2. limiter' \in BOOLEAN /\ (canFF \/ limiter' = limiter)
    BY <1>8 DEF CoreStateSet, SetSpeedLimiter, NetInv, TypeOK
  <2>3. TypeOK' /\ CountersInv' /\ SpeedInv'
    BY <2>1, <2>2 DEF NetInv, TypeOK, CountersInv, SpeedInv, LimiterRestored
  <2>4. ListSound'
    BY <2>1 DEF NetInv, ListSound
  <2>5. ReadInv'
    BY <2>1 DEF NetInv, ReadInv, Valid, CheckValid
  <2> QED BY <2>3, <2>4, <2>5 DEF NetInv
<1>7. CASE UNCHANGED vars
  <2>1. lag' \in [Players -> BOOLEAN]
    BY <1>7 DEF vars, NetInv, TypeOK
  <2> QED BY <1>3, <1>7, <2>1 DEF vars
<1> QED BY <1>1, <1>2, <1>4, <1>5, <1>6, <1>7, <1>8, MainNet, ThreadNet DEF Next

LEMMA NetInvariant == Spec => []NetInv
  BY InitNet, NextNet, PTL DEF Spec

-----------------------------------------------------------------------------
(* What the client promises.                                                *)

\* The variables have their types.
THEOREM TypeTheorem == Spec => []TypeOK
<1>1. NetInv => TypeOK
  BY DEF NetInv
<1> QED BY <1>1, NetInvariant, PTL

\* Whatever the network repeats, delays or reorders, the list of a player holds only
\* inputs that are still to come, each once and under the right number, across every
\* wrap-around of the counter.
THEOREM ListTheorem == Spec => []ListSound
<1>1. NetInv => ListSound
  BY DEF NetInv
<1> QED BY <1>1, NetInvariant, PTL

\* When netplay_require_response says that the event is there, the emulation thread finds
\* it, in a search that has no end test.
THEOREM TakeTheorem == Spec => []TakeFinds
<1>1. NetInv => TakeFinds
  BY DEF NetInv, ReadInv, TakeFinds
<1> QED BY <1>1, NetInvariant, PTL

\* A fast-forward leaves the speed limiter on, whatever the front-end set it to meanwhile;
\* before the first one it is as the session found it.
THEOREM LimiterTheorem == Spec => []LimiterRestored
<1>1. NetInv => LimiterRestored
  BY DEF NetInv, SpeedInv
<1> QED BY <1>1, NetInvariant, PTL

\* What the machine was given, as InputStream sees it.
GivenBar == [p \in Players |-> last[p] + 1]

\* Taking an event is Give of InputStream: the next input, which the server has decided.
LEMMA TakeIsGive ==
    ASSUME NetInv, NEW p \in Players, Valid(p), TakeEvent(p), UNCHANGED <<decided, channel>>
    PROVE  Stream!Give(p)
<1>1. given[p] < decided[p] /\ last' = [last EXCEPT ![p] = given[p]]
  BY TakeNet
<1>2. last[p] = given[p] - 1 /\ given[p] \in Nat
  BY OnePlayer
<1>3. GivenBar[p] < decided[p]
  BY <1>1, <1>2 DEF GivenBar
<1>4. GivenBar' = [GivenBar EXCEPT ![p] = @ + 1]
  <2>1. last'[p] + 1 = (last[p] + 1) + 1
    BY <1>1, <1>2 DEF NetInv, TypeOK
  <2>2. \A q \in Players \ {p} : last'[q] = last[q]
    BY <1>1 DEF NetInv, TypeOK
  <2> QED BY <2>1, <2>2 DEF GivenBar
<1> QED BY <1>3, <1>4 DEF Stream!Give, GivenBar

\* Every step of the client is a step of InputStream, or one that it does not see.
LEMMA StepSimulation == NetInv /\ [Next]_vars => [Stream!StreamNext]_(Stream!streamVars)
<1> SUFFICES ASSUME NetInv, [Next]_vars
             PROVE  Stream!StreamNext \/ UNCHANGED Stream!streamVars
  OBVIOUS
<1>1. CASE UNCHANGED <<decided, last, channel>>
  BY <1>1 DEF Stream!streamVars
<1>2. ASSUME NEW p \in Players, ServerDecides(p) PROVE Stream!StreamNext
  <2>1. Stream!Decide(p)
    BY <1>2 DEF ServerDecides, Stream!Decide
  <2> QED BY <2>1 DEF Stream!StreamNext
<1>3. CASE MainStep
  <2>1. UNCHANGED <<decided, channel>> /\ main.p \in Players
    BY <1>3 DEF MainStep, EnsureValid, LeaveWait, JoinThread, NetInv, ReadInv
  <2>2. CASE Valid(main.p) /\ TakeEvent(main.p)
    <3>1. PICK p \in Players : p = main.p
      BY <2>1
    <3>2. Valid(p) /\ TakeEvent(p)
      BY <2>2, <3>1
    <3>3. Stream!Give(p)
      BY <2>1, <3>2, TakeIsGive
    <3> QED BY <3>3 DEF Stream!StreamNext
  <2>3. CASE UNCHANGED last
    BY <1>1, <2>1, <2>3
  <2> QED
    BY <1>3, <2>2, <2>3 DEF MainStep, EnsureValid, LeaveWait, JoinThread, LoseConnection
<1>4. CASE ThreadStep
  <2>1. CASE ThreadTimeout
    <3>1. Stream!GiveUp
      BY <2>1 DEF ThreadTimeout, Stream!GiveUp
    <3> QED BY <3>1 DEF Stream!StreamNext
  <2>2. CASE ThreadCheck \/ ThreadAsk
    BY <1>1, <2>2 DEF ThreadCheck, ThreadAsk
  <2> QED BY <1>4, <2>1, <2>2 DEF ThreadStep
<1>5. ASSUME NEW p \in Players,
             StartRead(p) \/ (\E n \in InFlight(p) : ProcessEvent(p, n))
             \/ (\E behind \in BOOLEAN : ProcessLag(p, behind))
      PROVE  UNCHANGED <<decided, last, channel>>
  BY <1>5 DEF StartRead, ProcessEvent, ProcessLag
<1>6. ASSUME EndEmulation \/ (\E on \in BOOLEAN : CoreStateSet(on)) \/ UNCHANGED vars
      PROVE  UNCHANGED <<decided, last, channel>>
  BY <1>6 DEF EndEmulation, CoreStateSet, vars
<1> QED BY <1>1, <1>2, <1>3, <1>4, <1>5, <1>6 DEF Next

\* The client implements InputStream: every read gives the next input of the server, none
\* left out and none twice, until the connection is given up.
THEOREM StreamTheorem == Spec => InputsInOrder
<1>1. Init => Stream!StreamInit
  <2> SUFFICES ASSUME Init PROVE Stream!StreamInit
    OBVIOUS
  <2>1. [p \in Players |-> last[p] + 1] = [p \in Players |-> 0]
    BY DEF Init
  <2>2. decided = [p \in Players |-> 0] /\ (~channel) = FALSE
    BY DEF Init
  <2> QED BY <2>1, <2>2 DEF Stream!StreamInit
<1> QED
  BY <1>1, NetInvariant, StepSimulation, PTL DEF Spec, InputsInOrder, Stream!StreamSpec

=============================================================================
