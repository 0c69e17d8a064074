-------------------------- MODULE WorkqueueProofs --------------------------
(***************************************************************************)
(* NoLostWakeup and ShutdownDrains of Workqueue, and that it implements    *)
(* JobPool, for every finite set of threads and every set of work items.   *)
(***************************************************************************)
EXTENDS Workqueue, FiniteSetTheorems, TLAPS

\* A thread that leaves a list without duplicates leaves the others on it, in
\* a list without duplicates (list_del_init).
LEMMA WithoutLemma ==
    ASSUME NEW S, NEW s \in Seq(S), NEW t,
           \A i, j \in 1 .. Len(s) : s[i] = s[j] => i = j
    PROVE  /\ Without(s, t) \in Seq(S)
           /\ InSeq(Without(s, t)) = InSeq(s) \ {t}
           /\ \A i, j \in 1 .. Len(Without(s, t)) :
                 Without(s, t)[i] = Without(s, t)[j] => i = j
           /\ Without(s, t) # <<>> => s # <<>>
<1>1. CASE t \notin InSeq(s)
  BY <1>1 DEF Without, InSeq
<1>2. CASE t \in InSeq(s)
  <2> DEFINE k == CHOOSE i \in 1 .. Len(s) : s[i] = t
             w == [j \in 1 .. Len(s) - 1 |-> IF j < k THEN s[j] ELSE s[j + 1]]
  <2>1. k \in 1 .. Len(s) /\ s[k] = t
    BY <1>2 DEF InSeq
  <2>2. Without(s, t) = w
    BY <1>2 DEF Without
  <2> HIDE DEF k
  <2>3. w \in Seq(S) /\ Len(w) = Len(s) - 1
    BY <2>1
  <2>4. \A j \in 1 .. Len(w) : w[j] = IF j < k THEN s[j] ELSE s[j + 1]
    BY <2>1, <2>3
  <2> HIDE DEF w
  <2>5. \A i, j \in 1 .. Len(w) : w[i] = w[j] => i = j
    BY <2>1, <2>3, <2>4
  <2>6. \A u \in InSeq(w) : u \in InSeq(s) \ {t}
    BY <2>1, <2>3, <2>4 DEF InSeq
  <2>7. \A u \in InSeq(s) \ {t} : u \in InSeq(w)
    <3>1. SUFFICES ASSUME NEW i \in 1 .. Len(s), s[i] # t
                   PROVE  \E j \in 1 .. Len(w) : w[j] = s[i]
      BY DEF InSeq
    <3>2. CASE i < k
      BY <2>1, <2>3, <2>4, <3>2
    <3>3. CASE ~(i < k)
      <4>1. i > k
        BY <2>1, <3>1, <3>3
      <4>2. i - 1 \in 1 .. Len(w) /\ w[i - 1] = s[i]
        BY <2>1, <2>3, <2>4, <4>1
      <4> QED BY <4>2
    <3> QED BY <3>2, <3>3
  <2>8. s # <<>>
    BY <2>1
  <2> QED BY <2>2, <2>3, <2>5, <2>6, <2>7, <2>8
<1> QED BY <1>1, <1>2

\* The initial state: nobody sleeps.
LEMMA InitInv == Init => IndInv
<1> SUFFICES ASSUME Init PROVE IndInv
  OBVIOUS
<1> USE DEF Init
<1>1. TypeOK
  BY DEF TypeOK, Items
<1>2. SleepersListed
  BY DEF SleepersListed, InSeq
<1> QED BY <1>1, <1>2 DEF IndInv, EnoughAwake, BusyHasWork

\* The set of free threads is finite, so that its size can be compared.
LEMMA FreeFinite == IsFiniteSet(Free) /\ Cardinality(Free) \in Nat
<1>1. Free \subseteq Threads
  BY DEF Free
<1> QED BY <1>1, ThreadsAssumption, FS_Subset, FS_CardinalityType

\* The tail of a list without duplicates: its head is gone and nothing else.
LEMMA TailLemma ==
    ASSUME NEW S, NEW s \in Seq(S), s # <<>>,
           \A i, j \in 1 .. Len(s) : s[i] = s[j] => i = j
    PROVE  /\ Tail(s) \in Seq(S)
           /\ Head(s) \in S
           /\ Head(s) \in InSeq(s)
           /\ InSeq(Tail(s)) = InSeq(s) \ {Head(s)}
           /\ \A i, j \in 1 .. Len(Tail(s)) : Tail(s)[i] = Tail(s)[j] => i = j
<1>1. /\ Tail(s) \in Seq(S) /\ Len(Tail(s)) = Len(s) - 1 /\ Len(s) \in Nat
      /\ Head(s) = s[1] /\ 1 \in 1 .. Len(s)
      /\ \A i \in 1 .. Len(Tail(s)) : Tail(s)[i] = s[i + 1]
  OBVIOUS
<1>2. \A i, j \in 1 .. Len(Tail(s)) : Tail(s)[i] = Tail(s)[j] => i = j
  BY <1>1
<1>3. \A u \in InSeq(Tail(s)) : u \in InSeq(s) \ {Head(s)}
  BY <1>1 DEF InSeq
<1>4. \A u \in InSeq(s) \ {Head(s)} : u \in InSeq(Tail(s))
  <2>1. SUFFICES ASSUME NEW i \in 1 .. Len(s), s[i] # s[1]
                 PROVE  \E j \in 1 .. Len(Tail(s)) : Tail(s)[j] = s[i]
    BY <1>1 DEF InSeq
  <2>2. i - 1 \in 1 .. Len(Tail(s)) /\ Tail(s)[i - 1] = s[i]
    BY <1>1, <2>1
  <2> QED BY <2>2
<1>5. Head(s) \in S /\ Head(s) \in InSeq(s)
  BY <1>1 DEF InSeq
<1> QED BY <1>1, <1>2, <1>3, <1>4, <1>5

\* A thread that enters the list at its front.
LEMMA ConsLemma ==
    ASSUME NEW S, NEW s \in Seq(S), NEW t \in S, t \notin InSeq(s),
           \A i, j \in 1 .. Len(s) : s[i] = s[j] => i = j
    PROVE  /\ <<t>> \o s \in Seq(S)
           /\ InSeq(<<t>> \o s) = InSeq(s) \cup {t}
           /\ \A i, j \in 1 .. Len(<<t>> \o s) :
                 (<<t>> \o s)[i] = (<<t>> \o s)[j] => i = j
<1> DEFINE w == <<t>> \o s
<1>1. /\ w \in Seq(S) /\ Len(w) = Len(s) + 1 /\ Len(s) \in Nat
      /\ w[1] = t /\ \A i \in 1 .. Len(s) : w[i + 1] = s[i]
      /\ \A i \in 2 .. Len(w) : i - 1 \in 1 .. Len(s) /\ w[i] = s[i - 1]
  OBVIOUS
<1> HIDE DEF w
<1>2. \A i \in 1 .. Len(w) : i = 1 \/ (i \in 2 .. Len(w) /\ w[i] # t)
  BY <1>1 DEF InSeq
<1>3. ASSUME NEW i \in 1 .. Len(w), NEW j \in 1 .. Len(w), w[i] = w[j]
      PROVE  i = j
  <2>1. CASE i = 1 \/ j = 1
    BY <1>1, <1>2, <1>3, <2>1
  <2>2. CASE i \in 2 .. Len(w) /\ j \in 2 .. Len(w)
    <3>1. i - 1 \in 1 .. Len(s) /\ j - 1 \in 1 .. Len(s) /\ s[i - 1] = s[j - 1]
      BY <1>1, <1>3, <2>2
    <3>2. i - 1 = j - 1
      BY <3>1
    <3> QED BY <3>2, <2>2
  <2> QED BY <1>2, <2>1, <2>2
<1>4. \A u \in InSeq(w) : u \in InSeq(s) \cup {t}
  BY <1>1, <1>2 DEF InSeq
<1>5. \A u \in InSeq(s) \cup {t} : u \in InSeq(w)
  <2>1. t \in InSeq(w)
    BY <1>1 DEF InSeq
  <2>2. \A i \in 1 .. Len(s) : i + 1 \in 1 .. Len(w) /\ w[i + 1] = s[i]
    BY <1>1
  <2> QED BY <2>1, <2>2 DEF InSeq
<1> QED BY <1>1, <1>3, <1>4, <1>5 DEF w

\* The conclusion about queue_work: a sleeper that is woken leaves the list and
\* joins the free threads, which makes up for the item queued.
LEMMA QueueWorkLemma ==
    ASSUME IndInv, NEW item \in Items, QueueWork(item)
    PROVE  /\ workQueue' \in Seq(Items)
           /\ threadQueue' \in Seq(Threads)
           /\ pc' \in [Threads -> {"get", "waiting", "running", "done"}]
           /\ SleepersListed'
           /\ EnoughAwake'
           /\ \A t \in Threads : pc'[t] = "running" => pc[t] = "running"
<1> USE DEF IndInv, TypeOK
<1>1. workQueue' \in Seq(Items) /\ Len(workQueue') = Len(workQueue) + 1
  BY DEF QueueWork
<1>2. CASE threadQueue = <<>>
  <2>1. threadQueue' = threadQueue /\ pc' = pc
    BY <1>2 DEF QueueWork
  <2>2. SleepersListed'
    BY <2>1 DEF SleepersListed, InSeq
  <2> QED BY <1>1, <1>2, <2>1, <2>2 DEF EnoughAwake
<1>3. CASE threadQueue # <<>>
  <2> DEFINE h == Head(threadQueue)
  <2>1. /\ threadQueue' = Tail(threadQueue)
        /\ pc' = [pc EXCEPT ![h] = IF @ = "waiting" THEN "get" ELSE @]
    BY <1>3 DEF QueueWork
  <2>2. /\ Tail(threadQueue) \in Seq(Threads)
        /\ h \in Threads
        /\ h \in InSeq(threadQueue)
        /\ InSeq(Tail(threadQueue)) = InSeq(threadQueue) \ {h}
        /\ \A i, j \in 1 .. Len(Tail(threadQueue)) :
              Tail(threadQueue)[i] = Tail(threadQueue)[j] => i = j
    BY <1>3, TailLemma DEF SleepersListed
  <2> HIDE DEF h
  <2>3. InSeq(threadQueue)' = InSeq(threadQueue) \ {h}
    BY <2>1, <2>2 DEF InSeq
  <2>4. pc[h] \in {"waiting", "get"}
    BY <2>2 DEF SleepersListed
  <2>5. /\ pc'[h] = "get"
        /\ \A t \in Threads : t # h => pc'[t] = pc[t]
        /\ pc' \in [Threads -> {"get", "waiting", "running", "done"}]
    BY <2>1, <2>2, <2>4
  <2>6. SleepersListed'
    <3>1. \A t \in Threads : pc'[t] = "waiting" => t \in InSeq(threadQueue)'
      BY <2>3, <2>5 DEF SleepersListed
    <3>2. \A t \in InSeq(threadQueue)' : t \in Threads
      BY <2>1, <2>2 DEF InSeq
    <3>3. \A t \in InSeq(threadQueue)' : pc'[t] \in {"waiting", "get"}
      BY <2>3, <2>5, <3>2 DEF SleepersListed
    <3> QED BY <2>1, <2>2, <3>1, <3>3 DEF SleepersListed
  <2>7. Free' = Free \cup {h}
    BY <2>2, <2>3, <2>5 DEF Free
  <2>8. h \notin Free
    BY <2>2 DEF Free
  <2>9. Cardinality(Free') = Cardinality(Free) + 1
    BY <2>7, <2>8, FreeFinite, FS_AddElement
  <2>10. Len(workQueue) <= Cardinality(Free)
    BY <1>3 DEF EnoughAwake
  <2>11. Cardinality(Free)' = Cardinality(Free')
    OBVIOUS
  <2>12. EnoughAwake'
    BY <1>1, <2>9, <2>10, <2>11, FreeFinite DEF EnoughAwake
  <2> QED BY <1>1, <2>1, <2>2, <2>5, <2>6, <2>12
<1> QED BY <1>2, <1>3

\* A thread that takes the first item leaves both the list of sleepers and the
\* free threads.
LEMMA TakeLemma ==
    ASSUME IndInv, NEW t \in Threads, pc[t] = "get", workQueue # <<>>,
           NEW to \in {"running", "done"},
           threadQueue' = Unlist(t),
           workQueue' = Tail(workQueue),
           pc' = [pc EXCEPT ![t] = to]
    PROVE  /\ workQueue' \in Seq(Items)
           /\ threadQueue' \in Seq(Threads)
           /\ pc' \in [Threads -> {"get", "waiting", "running", "done"}]
           /\ SleepersListed'
           /\ EnoughAwake'
<1> USE DEF IndInv, TypeOK
<1>1. workQueue' \in Seq(Items) /\ Len(workQueue') = Len(workQueue) - 1
  OBVIOUS
<1>2. /\ threadQueue' \in Seq(Threads)
      /\ InSeq(threadQueue)' = InSeq(threadQueue) \ {t}
      /\ \A i, j \in 1 .. Len(threadQueue') :
            threadQueue'[i] = threadQueue'[j] => i = j
      /\ threadQueue' # <<>> => threadQueue # <<>>
  <2>1. /\ Without(threadQueue, t) \in Seq(Threads)
        /\ InSeq(Without(threadQueue, t)) = InSeq(threadQueue) \ {t}
        /\ \A i, j \in 1 .. Len(Without(threadQueue, t)) :
              Without(threadQueue, t)[i] = Without(threadQueue, t)[j] => i = j
        /\ Without(threadQueue, t) # <<>> => threadQueue # <<>>
    BY WithoutLemma DEF SleepersListed
  <2>2. InSeq(threadQueue)' = InSeq(threadQueue')
    BY DEF InSeq
  <2>3. threadQueue' = Without(threadQueue, t)
    BY DEF Unlist
  <2> QED BY <2>1, <2>2, <2>3
<1>3. /\ pc'[t] = to
      /\ \A u \in Threads : u # t => pc'[u] = pc[u]
      /\ pc' \in [Threads -> {"get", "waiting", "running", "done"}]
  OBVIOUS
<1>4. SleepersListed'
  <2>1. \A u \in InSeq(threadQueue) : u \in Threads
    BY DEF InSeq
  <2> QED BY <1>2, <1>3, <2>1 DEF SleepersListed
<1>5. Free' = Free \ {t}
  BY <1>2, <1>3 DEF Free
<1>6. EnoughAwake'
  <2>1. SUFFICES ASSUME threadQueue' # <<>>
                 PROVE  Len(workQueue') <= Cardinality(Free')
    BY DEF EnoughAwake
  <2>2. Len(workQueue) <= Cardinality(Free)
    BY <1>2, <2>1 DEF EnoughAwake
  <2>3. Cardinality(Free') >= Cardinality(Free) - 1
    <3>1. CASE t \in Free
      <4>1. Cardinality(Free \ {t}) = Cardinality(Free) - 1
        BY <3>1, FreeFinite, FS_RemoveElement
      <4> QED BY <1>5, <4>1, FreeFinite
    <3>2. CASE t \notin Free
      <4>1. Free' = Free
        BY <1>5, <3>2
      <4> QED BY <4>1, FreeFinite
    <3> QED BY <3>1, <3>2
  <2>4. Free' \subseteq Threads
    BY DEF Free
  <2>5. Cardinality(Free') \in Nat
    BY <2>4, ThreadsAssumption, FS_Subset, FS_CardinalityType
  <2> QED BY <1>1, <2>2, <2>3, <2>5, FreeFinite
<1> QED BY <1>1, <1>2, <1>3, <1>4, <1>6

\* Every step preserves the invariant, one case per action.
LEMMA StepInv == IndInv /\ [Next]_vars => IndInv'
<1> SUFFICES ASSUME IndInv, [Next]_vars PROVE IndInv'
  OBVIOUS
<1>1. ASSUME NEW w \in Works, Submit(w) PROVE IndInv'
  <2>1. w \in Items /\ QueueWork(w)
    BY <1>1 DEF Submit, Items
  <2>2. BusyHasWork'
    BY <1>1, <2>1, QueueWorkLemma DEF Submit, IndInv, BusyHasWork
  <2> QED BY <1>1, <2>1, <2>2, QueueWorkLemma DEF Submit, IndInv, TypeOK
<1>2. ASSUME NEW t \in Threads, TakeWork(t) PROVE IndInv'
  <2>1. Head(workQueue) \in Items
    BY <1>2 DEF TakeWork, IndInv, TypeOK
  <2>2. current' \in [Threads -> Items]
    BY <1>2, <2>1 DEF TakeWork, IndInv, TypeOK
  <2>3. /\ pc[t] = "get" /\ workQueue # <<>> /\ threadQueue' = Unlist(t)
        /\ workQueue' = Tail(workQueue) /\ pc' = [pc EXCEPT ![t] = "running"]
    BY <1>2 DEF TakeWork
  <2>4. /\ workQueue' \in Seq(Items)
        /\ threadQueue' \in Seq(Threads)
        /\ pc' \in [Threads -> {"get", "waiting", "running", "done"}]
        /\ SleepersListed'
        /\ EnoughAwake'
    BY <2>3, TakeLemma
  <2>5. BusyHasWork'
    BY <1>2, <2>1 DEF TakeWork, IndInv, TypeOK, BusyHasWork, Items
  <2> QED BY <1>2, <2>2, <2>4, <2>5 DEF TakeWork, IndInv, TypeOK
<1>3. ASSUME NEW t \in Threads, TakeDismissal(t) PROVE IndInv'
  <2>1. /\ pc[t] = "get" /\ workQueue # <<>> /\ threadQueue' = Unlist(t)
        /\ workQueue' = Tail(workQueue) /\ pc' = [pc EXCEPT ![t] = "done"]
    BY <1>3 DEF TakeDismissal
  <2>2. /\ workQueue' \in Seq(Items)
        /\ threadQueue' \in Seq(Threads)
        /\ pc' \in [Threads -> {"get", "waiting", "running", "done"}]
        /\ SleepersListed'
        /\ EnoughAwake'
    BY <2>1, TakeLemma
  <2>3. BusyHasWork'
    BY <1>3 DEF TakeDismissal, IndInv, TypeOK, BusyHasWork
  <2> QED BY <1>3, <2>2, <2>3 DEF TakeDismissal, IndInv, TypeOK
<1>4. ASSUME NEW t \in Threads, Sleep(t) PROVE IndInv'
  <2> USE DEF IndInv, TypeOK
  <2> DEFINE s == Without(threadQueue, t)
  <2>1. /\ s \in Seq(Threads)
        /\ InSeq(s) = InSeq(threadQueue) \ {t}
        /\ \A i, j \in 1 .. Len(s) : s[i] = s[j] => i = j
    BY WithoutLemma DEF SleepersListed
  <2>2. /\ threadQueue' = <<t>> \o s /\ workQueue' = workQueue /\ workQueue = <<>>
        /\ pc' = [pc EXCEPT ![t] = "waiting"]
    BY <1>4 DEF Sleep, Unlist
  <2> HIDE DEF s
  <2>3. t \notin InSeq(s)
    BY <2>1
  <2>4. /\ threadQueue' \in Seq(Threads)
        /\ InSeq(threadQueue') = InSeq(s) \cup {t}
        /\ \A i, j \in 1 .. Len(threadQueue') :
              threadQueue'[i] = threadQueue'[j] => i = j
    <3> HIDE DEF IndInv, TypeOK
    <3>1. /\ <<t>> \o s \in Seq(Threads)
          /\ InSeq(<<t>> \o s) = InSeq(s) \cup {t}
          /\ \A i, j \in 1 .. Len(<<t>> \o s) :
                (<<t>> \o s)[i] = (<<t>> \o s)[j] => i = j
      BY <2>1, <2>3, ConsLemma
    <3> QED BY <2>2, <3>1
  <2>5. InSeq(threadQueue)' = InSeq(threadQueue) \cup {t}
    BY <2>1, <2>4 DEF InSeq
  <2>6. /\ pc'[t] = "waiting"
        /\ \A u \in Threads : u # t => pc'[u] = pc[u]
        /\ pc' \in [Threads -> {"get", "waiting", "running", "done"}]
    BY <2>2
  <2>7. \A u \in InSeq(threadQueue) : u \in Threads
    BY DEF InSeq
  <2>8. SleepersListed'
    BY <2>4, <2>5, <2>6, <2>7 DEF SleepersListed
  <2>9. EnoughAwake'
    <3>1. Free' \subseteq Threads
      BY DEF Free
    <3>2. Cardinality(Free') \in Nat
      BY <3>1, ThreadsAssumption, FS_Subset, FS_CardinalityType
    <3> QED BY <2>2, <3>2 DEF EnoughAwake
  <2>10. BusyHasWork'
    BY <1>4, <2>6 DEF Sleep, BusyHasWork
  <2> QED BY <1>4, <2>4, <2>6, <2>8, <2>9, <2>10 DEF Sleep
<1>5. ASSUME NEW t \in Threads, WakeSpuriously(t) PROVE IndInv'
  <2> USE DEF IndInv, TypeOK
  <2>1. /\ threadQueue' = threadQueue /\ workQueue' = workQueue
        /\ pc[t] = "waiting" /\ pc' = [pc EXCEPT ![t] = "get"]
    BY <1>5 DEF WakeSpuriously
  <2>2. t \in InSeq(threadQueue)
    BY <2>1 DEF SleepersListed
  <2>3. InSeq(threadQueue)' = InSeq(threadQueue)
    BY <2>1 DEF InSeq
  <2>4. /\ pc'[t] = "get"
        /\ \A u \in Threads : u # t => pc'[u] = pc[u]
        /\ pc' \in [Threads -> {"get", "waiting", "running", "done"}]
    BY <2>1
  <2>5. \A u \in InSeq(threadQueue) : u \in Threads
    BY DEF InSeq
  <2>6. SleepersListed'
    BY <2>1, <2>3, <2>4, <2>5 DEF SleepersListed
  <2>7. Free' = Free
    BY <2>2, <2>3, <2>4 DEF Free
  <2>8. BusyHasWork'
    BY <1>5, <2>4 DEF WakeSpuriously, BusyHasWork
  <2> QED BY <1>5, <2>1, <2>4, <2>6, <2>7, <2>8 DEF WakeSpuriously, EnoughAwake
<1>6. ASSUME NEW t \in Threads, FinishWork(t) PROVE IndInv'
  <2> USE DEF IndInv, TypeOK
  <2>1. /\ threadQueue' = threadQueue /\ workQueue' = workQueue
        /\ pc[t] = "running" /\ pc' = [pc EXCEPT ![t] = "get"]
    BY <1>6 DEF FinishWork
  <2>2. t \notin InSeq(threadQueue)
    BY <2>1 DEF SleepersListed
  <2>3. InSeq(threadQueue)' = InSeq(threadQueue)
    BY <2>1 DEF InSeq
  <2>4. /\ pc'[t] = "get"
        /\ \A u \in Threads : u # t => pc'[u] = pc[u]
        /\ pc' \in [Threads -> {"get", "waiting", "running", "done"}]
    BY <2>1
  <2>5. \A u \in InSeq(threadQueue) : u \in Threads
    BY DEF InSeq
  <2>6. SleepersListed'
    BY <2>1, <2>3, <2>4, <2>5 DEF SleepersListed
  <2>7. Free' = Free \cup {t} /\ t \notin Free
    BY <2>1, <2>2, <2>3, <2>4 DEF Free
  <2>8. Cardinality(Free') = Cardinality(Free) + 1
    BY <2>7, FreeFinite, FS_AddElement
  <2>9. EnoughAwake'
    BY <2>1, <2>8, FreeFinite DEF EnoughAwake
  <2>10. current' \in [Threads -> Items] /\ ran' \in SUBSET Works
    BY <1>6 DEF FinishWork, Items, BusyHasWork
  <2>11. BusyHasWork'
    BY <1>6, <2>4 DEF FinishWork, BusyHasWork
  <2> QED BY <1>6, <2>1, <2>4, <2>6, <2>9, <2>10, <2>11 DEF FinishWork
<1>7. CASE QueueDismissal
  <2>1. Dismiss \in Items /\ QueueWork(Dismiss)
    BY <1>7 DEF QueueDismissal, Items
  <2>2. BusyHasWork'
    BY <1>7, <2>1, QueueWorkLemma DEF QueueDismissal, IndInv, BusyHasWork
  <2> QED BY <1>7, <2>1, <2>2, QueueWorkLemma DEF QueueDismissal, IndInv, TypeOK
<1>8. CASE Join
  BY <1>8 DEF Join, IndInv, TypeOK, SleepersListed, EnoughAwake, Free,
                 InSeq, BusyHasWork
<1>9. CASE UNCHANGED vars
  BY <1>9 DEF vars, IndInv, TypeOK, SleepersListed, EnoughAwake, Free,
                 InSeq, BusyHasWork
<1> QED BY <1>1, <1>2, <1>3, <1>4, <1>5, <1>6, <1>7, <1>8, <1>9
        DEF Next, Worker

\* The invariant holds of every behaviour of the work queue.
THEOREM AlwaysIndInv == Spec => []IndInv
<1> QED BY InitInv, StepInv, PTL DEF Spec

\* A worker sleeping in workqueue_get_work is on the list, so the list is not
\* empty, so some thread that is awake is on its way to the queue.
LEMMA IndInvSuffices == IndInv => NoLostWakeup
<1> SUFFICES ASSUME IndInv, workQueue # <<>>,
                    NEW t \in Threads, pc[t] = "waiting"
             PROVE  \E u \in Threads : pc[u] = "get"
  BY DEF NoLostWakeup
<1> USE DEF IndInv, TypeOK
<1>1. threadQueue # <<>>
  BY DEF SleepersListed, InSeq
<1>2. Len(workQueue) \in Nat /\ Len(workQueue) > 0
  OBVIOUS
<1>3. Cardinality(Free) > 0
  BY <1>1, <1>2, FreeFinite DEF EnoughAwake
<1>4. Free # {}
  BY <1>3, FS_EmptySet, FreeFinite
<1> QED BY <1>4 DEF Free

\* No wakeup is ever lost: with any number of workers and any work, no worker
\* sleeps in SDL_CondWait while work waits and every other worker is busy or
\* gone.
THEOREM WorkqueueNoLostWakeup == Spec => []NoLostWakeup
<1> QED BY AlwaysIndInv, IndInvSuffices, PTL
-----------------------------------------------------------------------------
\* Shutdown and the order of the queue.

Done == {t \in Threads : pc[t] = "done"}

\* The first k items of the queue are work and all others dismissals.
Split(k) == \A i \in 1 .. Len(workQueue) : i <= k <=> workQueue[i] # Dismiss

\* Every dismissal that was queued is in the queue or has ended a thread, and
\* no thread is gone while work is queued.
DismissalsCounted ==
    \E k \in 0 .. Len(workQueue) :
        /\ Split(k)
        /\ dismissals = (Len(workQueue) - k) + Cardinality(Done)
        /\ Done # {} => k = 0

PhaseInv ==
    /\ phase = "open" => dismissals = 0
    /\ phase \in {"joining", "down"} => dismissals = Cardinality(Threads)
    /\ phase = "down" => \A t \in Threads : pc[t] = "done"

\* Only a thread that runs work holds work.
IdleHoldsNone == \A t \in Threads : pc[t] # "running" => current[t] = Dismiss

\* No work is queued twice, run by two threads, or queued while it is run.
HeldOnce ==
    /\ \A i, j \in 1 .. Len(workQueue) :
          workQueue[i] = workQueue[j] /\ workQueue[i] # Dismiss => i = j
    /\ \A t \in Threads : current[t] # Dismiss =>
          \A i \in 1 .. Len(workQueue) : workQueue[i] # current[t]
    /\ \A t, u \in Threads : current[t] = current[u] /\ current[t] # Dismiss
          => t = u

DrainInv ==
    IndInv /\ DismissalsCounted /\ PhaseInv /\ IdleHoldsNone /\ HeldOnce

\* The dismissed threads are finitely many.
LEMMA DoneFinite ==
    /\ IsFiniteSet(Done) /\ Cardinality(Done) \in Nat
    /\ Cardinality(Threads) \in Nat
<1>1. Done \subseteq Threads
  BY DEF Done
<1> QED BY <1>1, ThreadsAssumption, FS_Subset, FS_CardinalityType

\* queue_work leaves the finished threads and the threads that run work alone.
LEMMA QueueWorkPc ==
    ASSUME IndInv, NEW item \in Items, QueueWork(item)
    PROVE  /\ Done' = Done
           /\ \A t \in Threads : (pc'[t] = "running") = (pc[t] = "running")
           /\ workQueue' = Append(workQueue, item)
<1>1. CASE threadQueue = <<>>
  BY <1>1 DEF QueueWork, Done
<1>2. CASE threadQueue # <<>>
  <2> DEFINE h == Head(threadQueue)
  <2>1. pc' = [pc EXCEPT ![h] = IF @ = "waiting" THEN "get" ELSE @]
    BY <1>2 DEF QueueWork
  <2>2. pc \in [Threads -> {"get", "waiting", "running", "done"}]
    BY DEF IndInv, TypeOK
  <2> HIDE DEF h
  <2>3. \A t \in Threads : pc'[t] = pc[t] \/ (pc[t] = "waiting" /\ pc'[t] = "get")
    BY <2>1, <2>2
  <2> QED BY <2>3 DEF Done, QueueWork
<1> QED BY <1>1, <1>2

\* Appending an item to a queue and taking the first one off.
LEMMA AppendFacts ==
    ASSUME NEW S, NEW s \in Seq(S), NEW e \in S
    PROVE  /\ Len(s) \in Nat /\ Len(Append(s, e)) = Len(s) + 1
           /\ \A i \in 1 .. Len(s) : Append(s, e)[i] = s[i]
           /\ Append(s, e)[Len(s) + 1] = e
  OBVIOUS

LEMMA TailFacts ==
    ASSUME NEW S, NEW s \in Seq(S), s # <<>>
    PROVE  /\ Len(s) \in Nat \ {0} /\ Len(Tail(s)) = Len(s) - 1
           /\ Head(s) = s[1]
           /\ \A i \in 1 .. Len(s) - 1 : Tail(s)[i] = s[i + 1]
  OBVIOUS

\* No thread is at work in the initial state and nothing is queued.
LEMMA InitDrain == Init => DrainInv
<1> SUFFICES ASSUME Init PROVE DrainInv
  OBVIOUS
<1>1. IndInv
  BY InitInv
<1>2. Done = {} /\ Len(workQueue) = 0 /\ dismissals = 0
  BY DEF Init, Done
<1>3. Cardinality(Done) = 0
  BY <1>2, FS_EmptySet
<1>4. DismissalsCounted
  BY <1>2, <1>3 DEF DismissalsCounted, Split
<1>5. PhaseInv /\ IdleHoldsNone
  BY DEF Init, PhaseInv, IdleHoldsNone
<1>6. HeldOnce
  BY <1>2 DEF Init, HeldOnce
<1> QED BY <1>1, <1>4, <1>5, <1>6 DEF DrainInv

\* queue_work before shutdown: no dismissal is queued yet, so that the work
\* joins work.
LEMMA SubmitDrain ==
    ASSUME DrainInv, NEW w \in Works, Submit(w)
    PROVE  DismissalsCounted' /\ PhaseInv' /\ IdleHoldsNone' /\ HeldOnce'
<1>1. /\ IndInv /\ w \in Items /\ w # Dismiss /\ QueueWork(w) /\ phase = "open"
      /\ dismissals = 0
      /\ UNCHANGED <<current, dismissals, phase, ran>>
  BY DismissAssumption DEF Submit, Items, DrainInv, PhaseInv
<1>2. /\ Done' = Done
      /\ \A t \in Threads : (pc'[t] = "running") = (pc[t] = "running")
      /\ workQueue' = Append(workQueue, w)
  BY <1>1, QueueWorkPc
<1>3. workQueue \in Seq(Items)
  BY <1>1 DEF IndInv, TypeOK
<1>4. /\ Len(workQueue) \in Nat /\ Len(workQueue') = Len(workQueue) + 1
      /\ \A i \in 1 .. Len(workQueue) : workQueue'[i] = workQueue[i]
      /\ workQueue'[Len(workQueue) + 1] = w
  BY <1>1, <1>2, <1>3, AppendFacts
<1>5. DismissalsCounted'
  <2>1. PICK k \in 0 .. Len(workQueue) :
                /\ Split(k)
                /\ dismissals = (Len(workQueue) - k) + Cardinality(Done)
    BY DEF DrainInv, DismissalsCounted
  <2>2. k = Len(workQueue) /\ Cardinality(Done) = 0
    BY <1>1, <1>4, <2>1, DoneFinite
  <2>3. Done = {}
    BY <2>2, DoneFinite, FS_EmptySet
  <2>4. Split(k + 1)'
    BY <1>1, <1>4, <2>1, <2>2 DEF Split
  <2>5. /\ k + 1 \in 0 .. Len(workQueue')
        /\ dismissals' = (Len(workQueue') - (k + 1)) + Cardinality(Done')
    BY <1>1, <1>2, <1>4, <2>2
  <2> QED BY <1>2, <2>3, <2>4, <2>5 DEF DismissalsCounted
<1>6. PhaseInv'
  BY <1>1 DEF PhaseInv
<1>7. IdleHoldsNone'
  BY <1>1, <1>2 DEF DrainInv, IdleHoldsNone
<1>8. HeldOnce'
  <2>1. \A i \in 1 .. Len(workQueue) : workQueue[i] # w
    BY DEF Submit, InSeq
  <2>2. \A t \in Threads : current[t] # w
    BY DEF Submit
  <2>3. \A i \in 1 .. Len(workQueue') :
           i \in 1 .. Len(workQueue) \/ i = Len(workQueue) + 1
    BY <1>4
  <2>4. \A i, j \in 1 .. Len(workQueue') :
           workQueue'[i] = workQueue'[j] /\ workQueue'[i] # Dismiss => i = j
    BY <1>4, <2>1, <2>3 DEF DrainInv, HeldOnce
  <2>5. \A t \in Threads : current[t] # Dismiss =>
           \A i \in 1 .. Len(workQueue') : workQueue'[i] # current[t]
    BY <1>4, <2>2, <2>3 DEF DrainInv, HeldOnce
  <2> QED BY <1>1, <2>4, <2>5 DEF DrainInv, HeldOnce
<1> QED BY <1>5, <1>6, <1>7, <1>8

\* workqueue_shutdown queues a dismissal behind everything else.
LEMMA DismissDrain ==
    ASSUME DrainInv, QueueDismissal
    PROVE  DismissalsCounted' /\ PhaseInv' /\ IdleHoldsNone' /\ HeldOnce'
<1>1. /\ IndInv /\ Dismiss \in Items /\ QueueWork(Dismiss)
      /\ dismissals' = dismissals + 1
      /\ phase' = IF dismissals' = Cardinality(Threads) THEN "joining"
                  ELSE "dismissing"
      /\ UNCHANGED <<current, ran>>
  BY DEF QueueDismissal, Items, DrainInv
<1>2. /\ Done' = Done
      /\ \A t \in Threads : (pc'[t] = "running") = (pc[t] = "running")
      /\ workQueue' = Append(workQueue, Dismiss)
  BY <1>1, QueueWorkPc
<1>3. workQueue \in Seq(Items)
  BY <1>1 DEF IndInv, TypeOK
<1>4. /\ Len(workQueue) \in Nat /\ Len(workQueue') = Len(workQueue) + 1
      /\ \A i \in 1 .. Len(workQueue) : workQueue'[i] = workQueue[i]
      /\ workQueue'[Len(workQueue) + 1] = Dismiss
  BY <1>1, <1>2, <1>3, AppendFacts
<1>5. DismissalsCounted'
  <2>1. PICK k \in 0 .. Len(workQueue) :
                /\ Split(k)
                /\ dismissals = (Len(workQueue) - k) + Cardinality(Done)
                /\ Done # {} => k = 0
    BY DEF DrainInv, DismissalsCounted
  <2>2. Split(k)'
    BY <1>4, <2>1 DEF Split
  <2>3. /\ k \in 0 .. Len(workQueue')
        /\ dismissals' = (Len(workQueue') - k) + Cardinality(Done')
    BY <1>1, <1>2, <1>4, <2>1, DoneFinite
  <2> QED BY <1>2, <2>1, <2>2, <2>3 DEF DismissalsCounted
<1>6. PhaseInv'
  BY <1>1 DEF PhaseInv
<1>7. IdleHoldsNone'
  BY <1>1, <1>2 DEF DrainInv, IdleHoldsNone
<1>8. HeldOnce'
  <2>1. \A i \in 1 .. Len(workQueue') :
           i \in 1 .. Len(workQueue) \/ workQueue'[i] = Dismiss
    BY <1>4
  <2>2. \A i, j \in 1 .. Len(workQueue') :
           workQueue'[i] = workQueue'[j] /\ workQueue'[i] # Dismiss => i = j
    BY <1>4, <2>1 DEF DrainInv, HeldOnce
  <2>3. \A t \in Threads : current[t] # Dismiss =>
           \A i \in 1 .. Len(workQueue') : workQueue'[i] # current[t]
    BY <1>4, <2>1 DEF DrainInv, HeldOnce
  <2> QED BY <1>1, <2>2, <2>3 DEF DrainInv, HeldOnce
<1> QED BY <1>5, <1>6, <1>7, <1>8

\* workqueue_get_work: there is work at the front, so no thread is gone yet.
LEMMA TakeWorkDrain ==
    ASSUME DrainInv, NEW t \in Threads, TakeWork(t)
    PROVE  DismissalsCounted' /\ PhaseInv' /\ IdleHoldsNone' /\ HeldOnce'
<1>1. /\ IndInv /\ pc[t] = "get" /\ workQueue # <<>> /\ Head(workQueue) # Dismiss
      /\ current' = [current EXCEPT ![t] = Head(workQueue)]
      /\ workQueue' = Tail(workQueue)
      /\ pc' = [pc EXCEPT ![t] = "running"]
      /\ UNCHANGED <<dismissals, phase, ran>>
  BY DEF TakeWork, DrainInv
<1>2. /\ workQueue \in Seq(Items) /\ current \in [Threads -> Items]
      /\ pc \in [Threads -> {"get", "waiting", "running", "done"}]
  BY <1>1 DEF IndInv, TypeOK
<1>3. /\ Len(workQueue) \in Nat \ {0} /\ Len(workQueue') = Len(workQueue) - 1
      /\ workQueue[1] # Dismiss
      /\ \A i \in 1 .. Len(workQueue') : workQueue'[i] = workQueue[i + 1]
      /\ current' = [current EXCEPT ![t] = workQueue[1]]
  BY <1>1, <1>2, TailFacts
<1>4. Done' = Done
  BY <1>1, <1>2 DEF Done
<1>5. DismissalsCounted'
  <2>1. PICK k \in 0 .. Len(workQueue) :
                /\ Split(k)
                /\ dismissals = (Len(workQueue) - k) + Cardinality(Done)
                /\ Done # {} => k = 0
    BY DEF DrainInv, DismissalsCounted
  <2>2. k >= 1
    BY <1>3, <2>1 DEF Split
  <2>3. Split(k - 1)'
    <3>1. \A i \in 1 .. Len(workQueue') :
             /\ i + 1 \in 1 .. Len(workQueue)
             /\ i <= k - 1 <=> i + 1 <= k
      BY <1>3, <2>1, <2>2
    <3> QED BY <1>3, <2>1, <3>1 DEF Split
  <2>4. /\ k - 1 \in 0 .. Len(workQueue')
        /\ dismissals' = (Len(workQueue') - (k - 1)) + Cardinality(Done')
    BY <1>1, <1>3, <1>4, <2>1, <2>2, DoneFinite
  <2> QED BY <1>4, <2>1, <2>2, <2>3, <2>4 DEF DismissalsCounted
<1>6. PhaseInv'
  BY <1>1, <1>2 DEF DrainInv, PhaseInv
<1>7. IdleHoldsNone'
  BY <1>1, <1>2 DEF DrainInv, IdleHoldsNone
<1>8. HeldOnce'
  <2>1. \A i \in 1 .. Len(workQueue') :
           i + 1 \in 1 .. Len(workQueue) /\ i + 1 # 1
    BY <1>3
  <2>2. ASSUME NEW i \in 1 .. Len(workQueue'), NEW j \in 1 .. Len(workQueue'),
               workQueue'[i] = workQueue'[j], workQueue'[i] # Dismiss
        PROVE  i = j
    <3>1. i + 1 = j + 1
      BY <1>3, <2>1, <2>2 DEF DrainInv, HeldOnce
    <3> QED BY <3>1
  <2>3. \A i \in 1 .. Len(workQueue') : workQueue'[i] # workQueue[1]
    BY <1>3, <2>1 DEF DrainInv, HeldOnce
  <2>4. \A u \in Threads : current[u] # workQueue[1]
    BY <1>3 DEF DrainInv, HeldOnce
  <2>5. \A u \in Threads : current'[u] = IF u = t THEN workQueue[1] ELSE current[u]
    BY <1>2, <1>3
  <2>6. \A u \in Threads : current'[u] # Dismiss =>
           \A i \in 1 .. Len(workQueue') : workQueue'[i] # current'[u]
    BY <1>3, <2>1, <2>3, <2>5 DEF DrainInv, HeldOnce
  <2>7. \A u, v \in Threads : current'[u] = current'[v] /\ current'[u] # Dismiss
           => u = v
    BY <2>4, <2>5 DEF DrainInv, HeldOnce
  <2> QED BY <2>2, <2>6, <2>7 DEF HeldOnce
<1> QED BY <1>5, <1>6, <1>7, <1>8

\* A dismissal at the front: only dismissals are left, one fewer than before,
\* and one more thread is gone.
LEMMA TakeDismissalDrain ==
    ASSUME DrainInv, NEW t \in Threads, TakeDismissal(t)
    PROVE  DismissalsCounted' /\ PhaseInv' /\ IdleHoldsNone' /\ HeldOnce'
<1>1. /\ IndInv /\ pc[t] = "get" /\ workQueue # <<>> /\ Head(workQueue) = Dismiss
      /\ workQueue' = Tail(workQueue)
      /\ pc' = [pc EXCEPT ![t] = "done"]
      /\ UNCHANGED <<current, dismissals, phase, ran>>
  BY DEF TakeDismissal, DrainInv
<1>2. /\ workQueue \in Seq(Items)
      /\ pc \in [Threads -> {"get", "waiting", "running", "done"}]
  BY <1>1 DEF IndInv, TypeOK
<1>3. /\ Len(workQueue) \in Nat \ {0} /\ Len(workQueue') = Len(workQueue) - 1
      /\ workQueue[1] = Dismiss
      /\ \A i \in 1 .. Len(workQueue') : workQueue'[i] = workQueue[i + 1]
  BY <1>1, <1>2, TailFacts
<1>4. Done' = Done \cup {t} /\ t \notin Done
  BY <1>1, <1>2 DEF Done
<1>5. Cardinality(Done') = Cardinality(Done) + 1
  BY <1>4, DoneFinite, FS_AddElement
<1>6. DismissalsCounted'
  <2>1. PICK k \in 0 .. Len(workQueue) :
                /\ Split(k)
                /\ dismissals = (Len(workQueue) - k) + Cardinality(Done)
    BY DEF DrainInv, DismissalsCounted
  <2>2. k = 0
    BY <1>3, <2>1 DEF Split
  <2>3. Split(0)'
    <3>1. \A i \in 1 .. Len(workQueue') : i + 1 \in 1 .. Len(workQueue)
      BY <1>3
    <3> QED BY <1>3, <2>1, <2>2, <3>1 DEF Split
  <2>4. /\ 0 \in 0 .. Len(workQueue')
        /\ dismissals' = (Len(workQueue') - 0) + Cardinality(Done')
    BY <1>1, <1>3, <1>5, <2>1, <2>2, DoneFinite
  <2> QED BY <2>3, <2>4 DEF DismissalsCounted
<1>7. PhaseInv'
  BY <1>1, <1>2 DEF DrainInv, PhaseInv
<1>8. IdleHoldsNone'
  BY <1>1, <1>2 DEF DrainInv, IdleHoldsNone
<1>9. HeldOnce'
  <2>1. \A i \in 1 .. Len(workQueue') : i + 1 \in 1 .. Len(workQueue)
    BY <1>3
  <2>2. ASSUME NEW i \in 1 .. Len(workQueue'), NEW j \in 1 .. Len(workQueue'),
               workQueue'[i] = workQueue'[j], workQueue'[i] # Dismiss
        PROVE  i = j
    <3>1. i + 1 = j + 1
      BY <1>3, <2>1, <2>2 DEF DrainInv, HeldOnce
    <3> QED BY <3>1
  <2>3. \A u \in Threads : current[u] # Dismiss =>
           \A i \in 1 .. Len(workQueue') : workQueue'[i] # current[u]
    BY <1>3, <2>1 DEF DrainInv, HeldOnce
  <2> QED BY <1>1, <2>2, <2>3 DEF DrainInv, HeldOnce
<1> QED BY <1>6, <1>7, <1>8, <1>9

\* A step that leaves the queue and shutdown alone, and ends no thread.
LEMMA QuietDrain ==
    ASSUME DrainInv,
           workQueue' = workQueue, dismissals' = dismissals, Done' = Done
    PROVE  DismissalsCounted'
<1>1. \A k : Split(k) => Split(k)'
  BY DEF Split
<1> QED BY <1>1 DEF DrainInv, DismissalsCounted

\* Every step preserves the invariant.
LEMMA StepDrain == DrainInv /\ [Next]_vars => DrainInv'
<1> SUFFICES ASSUME DrainInv, [Next]_vars PROVE DrainInv'
  OBVIOUS
<1>1. IndInv /\ IndInv'
  BY StepInv DEF DrainInv
<1> SUFFICES DismissalsCounted' /\ PhaseInv' /\ IdleHoldsNone' /\ HeldOnce'
  BY <1>1 DEF DrainInv
<1>2. pc \in [Threads -> {"get", "waiting", "running", "done"}]
      /\ current \in [Threads -> Items]
  BY <1>1 DEF IndInv, TypeOK
<1>3. ASSUME NEW t \in Threads, Sleep(t) \/ WakeSpuriously(t)
      PROVE  DismissalsCounted' /\ PhaseInv' /\ IdleHoldsNone' /\ HeldOnce'
  <2>1. /\ UNCHANGED <<workQueue, current, dismissals, phase>>
        /\ pc[t] \in {"get", "waiting"}
        /\ \E to \in {"get", "waiting"} : pc' = [pc EXCEPT ![t] = to]
    BY <1>3 DEF Sleep, WakeSpuriously
  <2>2. Done' = Done
    BY <1>2, <2>1 DEF Done
  <2>3. DismissalsCounted'
    BY <2>1, <2>2, QuietDrain
  <2>4. PhaseInv' /\ IdleHoldsNone'
    BY <1>2, <2>1 DEF DrainInv, PhaseInv, IdleHoldsNone
  <2> QED BY <2>1, <2>3, <2>4 DEF DrainInv, HeldOnce
<1>4. ASSUME NEW t \in Threads, FinishWork(t)
      PROVE  DismissalsCounted' /\ PhaseInv' /\ IdleHoldsNone' /\ HeldOnce'
  <2>1. /\ UNCHANGED <<workQueue, dismissals, phase>>
        /\ pc[t] = "running" /\ pc' = [pc EXCEPT ![t] = "get"]
        /\ current' = [current EXCEPT ![t] = Dismiss]
    BY <1>4 DEF FinishWork
  <2>2. Done' = Done
    BY <1>2, <2>1 DEF Done
  <2>3. DismissalsCounted'
    BY <2>1, <2>2, QuietDrain
  <2>4. PhaseInv' /\ IdleHoldsNone'
    BY <1>2, <2>1 DEF DrainInv, PhaseInv, IdleHoldsNone
  <2>5. \A u \in Threads : current'[u] = IF u = t THEN Dismiss ELSE current[u]
    BY <1>2, <2>1
  <2> QED BY <2>1, <2>3, <2>4, <2>5 DEF DrainInv, HeldOnce
<1>5. CASE Join
  <2>1. /\ UNCHANGED <<workQueue, pc, current, dismissals>>
        /\ phase = "joining" /\ phase' = "down"
        /\ \A t \in Threads : pc[t] = "done"
    BY <1>5 DEF Join
  <2>2. DismissalsCounted'
    BY <2>1, QuietDrain DEF Done
  <2> QED BY <2>1, <2>2 DEF DrainInv, PhaseInv, IdleHoldsNone, HeldOnce
<1>6. CASE UNCHANGED vars
  <2>1. UNCHANGED <<workQueue, pc, current, dismissals, phase>>
    BY <1>6 DEF vars
  <2>2. DismissalsCounted'
    BY <2>1, QuietDrain DEF Done
  <2> QED BY <2>1, <2>2 DEF DrainInv, PhaseInv, IdleHoldsNone, HeldOnce
<1> QED BY <1>3, <1>4, <1>5, <1>6, SubmitDrain, DismissDrain, TakeWorkDrain,
           TakeDismissalDrain
        DEF Next, Worker

\* The invariant holds of every behaviour of the work queue.
LEMMA AlwaysDrain == Spec => []DrainInv
<1> QED BY InitDrain, StepDrain, PTL DEF Spec

\* When every thread is gone all dismissals have been taken, so the queue, that
\* holds nothing else, is empty.
LEMMA AllGone ==
    ASSUME DrainInv, \A t \in Threads : pc[t] = "done",
           phase \in {"joining", "down"}
    PROVE  workQueue = <<>> /\ \A t \in Threads : current[t] = Dismiss
<1>1. Done = Threads
  BY DEF Done
<1>2. dismissals = Cardinality(Threads)
  BY DEF DrainInv, PhaseInv
<1>3. workQueue \in Seq(Items)
  BY DEF DrainInv, IndInv, TypeOK
<1>4. PICK k \in 0 .. Len(workQueue) :
              /\ dismissals = (Len(workQueue) - k) + Cardinality(Done)
              /\ Done # {} => k = 0
  BY DEF DrainInv, DismissalsCounted
<1>5. k = 0
  BY <1>1, <1>4, ThreadsAssumption
<1>6. Len(workQueue) \in Nat
  BY <1>3
<1>7. Len(workQueue) = 0
  BY <1>1, <1>2, <1>4, <1>5, <1>6, DoneFinite
<1>8. workQueue = <<>>
  BY <1>3, <1>7
<1> QED BY <1>8 DEF DrainInv, IdleHoldsNone

\* When workqueue_shutdown has returned, all work queued before it has been run
\* and no dismissal is left, for any number of workers and any work.
THEOREM WorkqueueDrains == Spec => []ShutdownDrains
<1>1. DrainInv => ShutdownDrains
  BY AllGone DEF ShutdownDrains, DrainInv, PhaseInv
<1> QED BY <1>1, AlwaysDrain, PTL

-----------------------------------------------------------------------------
\* Workqueue implements JobPool.

Pending == SubSeq(workQueue, 1, Cardinality(Undismissed))
Running == {current[t] : t \in {u \in Threads : pc[u] = "running"}}

\* The size of the undismissed part of a queue is where its work ends.
LEMMA SplitPending ==
    ASSUME workQueue \in Seq(Items), NEW k \in 0 .. Len(workQueue), Split(k)
    PROVE  Pending = SubSeq(workQueue, 1, k)
<1>1. Undismissed = 1 .. k
  BY DEF Undismissed, Split
<1>2. Cardinality(1 .. k) = k
  <2>1. k \in Int /\ k >= 0
    OBVIOUS
  <2> QED BY <2>1, FS_Interval
<1> QED BY <1>1, <1>2 DEF Pending

\* The same of the queue a step leaves.
LEMMA SplitPendingNext ==
    ASSUME workQueue' \in Seq(Items), NEW k \in 0 .. Len(workQueue'), Split(k)'
    PROVE  Pending' = SubSeq(workQueue', 1, k)
<1>1. Undismissed' = 1 .. k
  BY DEF Undismissed, Split
<1>2. Cardinality(1 .. k) = k
  <2>1. k \in Int /\ k >= 0
    OBVIOUS
  <2> QED BY <2>1, FS_Interval
<1> QED BY <1>1, <1>2 DEF Pending

\* Prefixes of a queue, when it grows at its end and shrinks at its front.
LEMMA PrefixFacts ==
    ASSUME NEW S, NEW s \in Seq(S), NEW k \in 0 .. Len(s)
    PROVE  /\ SubSeq(s, 1, k) \in Seq(S)
           /\ Len(SubSeq(s, 1, k)) = k
           /\ \A i \in 1 .. k : SubSeq(s, 1, k)[i] = s[i]
  OBVIOUS

LEMMA PrefixAppend ==
    ASSUME NEW S, NEW s \in Seq(S), NEW e \in S, NEW k \in 0 .. Len(s)
    PROVE  /\ SubSeq(Append(s, e), 1, k) = SubSeq(s, 1, k)
           /\ SubSeq(Append(s, e), 1, Len(s) + 1) = Append(s, e)
           /\ SubSeq(s, 1, Len(s)) = s
  OBVIOUS

LEMMA PrefixTail ==
    ASSUME NEW S, NEW s \in Seq(S), NEW k \in 1 .. Len(s)
    PROVE  /\ SubSeq(s, 1, k) # <<>>
           /\ Head(SubSeq(s, 1, k)) = s[1]
           /\ SubSeq(Tail(s), 1, k - 1) = Tail(SubSeq(s, 1, k))
  OBVIOUS

\* The work handed over and not started is a part of the queue.
LEMMA PendingQueued ==
    ASSUME DrainInv
    PROVE  Pool!InSeq(Pending) \subseteq InSeq(workQueue)
<1>1. workQueue \in Seq(Items)
  BY DEF DrainInv, IndInv, TypeOK
<1>2. PICK k \in 0 .. Len(workQueue) : Split(k)
  BY DEF DrainInv, DismissalsCounted
<1>3. Pending = SubSeq(workQueue, 1, k)
  BY <1>1, <1>2, SplitPending
<1>4. /\ Len(Pending) = k
      /\ \A i \in 1 .. k : Pending[i] = workQueue[i]
  BY <1>1, <1>3, PrefixFacts
<1>5. \A i \in 1 .. Len(Pending) :
         i \in 1 .. Len(workQueue) /\ Pending[i] = workQueue[i]
  BY <1>2, <1>4
<1> QED BY <1>5 DEF InSeq, Pool!InSeq

\* queue_work hands a job over.
LEMMA SubmitPool ==
    ASSUME DrainInv, DrainInv', NEW w \in Works, Submit(w)
    PROVE  Pool!HandOver(w)
<1>1. /\ IndInv /\ w \in Items /\ QueueWork(w) /\ phase = "open"
      /\ dismissals = 0 /\ w # Dismiss
      /\ w \notin InSeq(workQueue) \cup ran
      /\ \A t \in Threads : current[t] # w
      /\ UNCHANGED <<current, dismissals, phase, ran>>
  BY DismissAssumption DEF Submit, Items, DrainInv, PhaseInv
<1>2. /\ \A t \in Threads : (pc'[t] = "running") = (pc[t] = "running")
      /\ workQueue' = Append(workQueue, w)
  BY <1>1, QueueWorkPc
<1>3. workQueue \in Seq(Items) /\ workQueue' \in Seq(Items)
  BY DEF DrainInv, IndInv, TypeOK
<1>4. PICK k \in 0 .. Len(workQueue) :
              /\ Split(k)
              /\ dismissals = (Len(workQueue) - k) + Cardinality(Done)
  BY DEF DrainInv, DismissalsCounted
<1>5. k = Len(workQueue)
  BY <1>1, <1>3, <1>4, DoneFinite
<1>6. Pending = workQueue
  BY <1>3, <1>4, <1>5, SplitPending, PrefixAppend
<1>7. Pending' = workQueue'
  <2>1. PICK m \in 0 .. Len(workQueue') :
                /\ Split(m)'
                /\ dismissals' = (Len(workQueue') - m) + Cardinality(Done')
    BY DEF DrainInv, DismissalsCounted
  <2>2. Done' = Done
    BY <1>1, QueueWorkPc
  <2>3. m = Len(workQueue')
    BY <1>1, <1>3, <2>1, <2>2, DoneFinite
  <2>4. Pending' = SubSeq(workQueue', 1, m)
    BY <1>3, <2>1, SplitPendingNext
  <2> QED BY <1>3, <2>1, <2>3, <2>4, PrefixAppend
<1>8. Running' = Running
  BY <1>1, <1>2 DEF Running
<1>9. w \notin Pool!InSeq(Pending) \cup Running \cup ran
  BY <1>1, PendingQueued DEF Running
<1>10. Pending' = Append(Pending, w)
  BY <1>2, <1>6, <1>7
<1> QED BY <1>1, <1>8, <1>9, <1>10 DEF Pool!HandOver, Pending, Running

\* A worker that takes work off the queue starts the oldest job.
LEMMA TakeWorkPool ==
    ASSUME DrainInv, DrainInv', NEW t \in Threads, TakeWork(t)
    PROVE  Pool!Start
<1>1. /\ pc[t] = "get" /\ workQueue # <<>> /\ Head(workQueue) # Dismiss
      /\ current' = [current EXCEPT ![t] = Head(workQueue)]
      /\ workQueue' = Tail(workQueue)
      /\ pc' = [pc EXCEPT ![t] = "running"]
      /\ UNCHANGED <<dismissals, phase, ran>>
  BY DEF TakeWork
<1>2. /\ workQueue \in Seq(Items) /\ workQueue' \in Seq(Items)
      /\ current \in [Threads -> Items]
      /\ pc \in [Threads -> {"get", "waiting", "running", "done"}]
  BY DEF DrainInv, IndInv, TypeOK
<1>3. /\ Len(workQueue) \in Nat \ {0} /\ Len(workQueue') = Len(workQueue) - 1
      /\ Head(workQueue) = workQueue[1]
      /\ \A i \in 1 .. Len(workQueue') : workQueue'[i] = workQueue[i + 1]
  BY <1>1, <1>2, TailFacts
<1>4. PICK k \in 0 .. Len(workQueue) : Split(k)
  BY DEF DrainInv, DismissalsCounted
<1>5. k \in 1 .. Len(workQueue) /\ k - 1 \in 0 .. Len(workQueue')
  BY <1>1, <1>3, <1>4 DEF Split
<1>6. Split(k - 1)'
  <2>1. \A i \in 1 .. Len(workQueue') :
           /\ i + 1 \in 1 .. Len(workQueue)
           /\ i <= k - 1 <=> i + 1 <= k
    BY <1>3, <1>5
  <2> QED BY <1>3, <1>4, <2>1 DEF Split
<1>7. Pending = SubSeq(workQueue, 1, k) /\ Pending' = SubSeq(workQueue', 1, k - 1)
  BY <1>2, <1>4, <1>5, <1>6, SplitPending, SplitPendingNext
<1>8. /\ Pending # <<>> /\ Head(Pending) = Head(workQueue)
      /\ Pending' = Tail(Pending)
  BY <1>1, <1>2, <1>3, <1>5, <1>7, PrefixTail
<1>9. Running' = Running \cup {Head(workQueue)}
  <2>1. /\ \A u \in Threads : u # t => current'[u] = current[u] /\ pc'[u] = pc[u]
        /\ current'[t] = Head(workQueue) /\ pc'[t] = "running"
    BY <1>1, <1>2
  <2> QED BY <1>1, <2>1 DEF Running
<1> QED BY <1>1, <1>8, <1>9 DEF Pool!Start, Pending, Running

\* A worker whose work returns finishes a job that nobody else runs.
LEMMA FinishPool ==
    ASSUME DrainInv, NEW t \in Threads, FinishWork(t)
    PROVE  \E w \in Works : Pool!Finish(w)
<1>0. PICK w \in Works : w = current[t]
  BY DEF FinishWork, DrainInv, IndInv, BusyHasWork
<1>1. /\ pc[t] = "running" /\ w # Dismiss
      /\ UNCHANGED <<workQueue, phase>>
      /\ ran' = ran \cup {w}
      /\ current' = [current EXCEPT ![t] = Dismiss]
      /\ pc' = [pc EXCEPT ![t] = "get"]
  BY <1>0, DismissAssumption DEF FinishWork
<1>2. /\ current \in [Threads -> Items]
      /\ pc \in [Threads -> {"get", "waiting", "running", "done"}]
  BY DEF DrainInv, IndInv, TypeOK
<1>3. /\ \A u \in Threads : u # t => current'[u] = current[u] /\ pc'[u] = pc[u]
      /\ pc'[t] = "get"
  BY <1>1, <1>2
<1>4. \A u \in Threads : u # t => current[u] # w
  BY <1>0, <1>1 DEF DrainInv, HeldOnce
<1>5. w \in Running
  BY <1>0, <1>1 DEF Running
<1>6. Running' = Running \ {w}
  <2>1. \A x \in Running' : x \in Running \ {w}
    BY <1>3, <1>4 DEF Running
  <2>2. \A x \in Running \ {w} : x \in Running'
    <3>1. SUFFICES ASSUME NEW u \in Threads, pc[u] = "running", current[u] # w
                   PROVE  current[u] \in Running'
      BY DEF Running
    <3>2. u # t
      BY <1>0, <3>1
    <3> QED BY <1>3, <3>1, <3>2 DEF Running
  <2> QED BY <2>1, <2>2
<1>7. Pending' = Pending
  BY <1>1 DEF Pending, Undismissed
<1>8. Pool!Finish(w)
  BY <1>1, <1>5, <1>6, <1>7 DEF Pool!Finish, Pending, Running
<1> QED BY <1>8

\* workqueue_shutdown returns when nothing is pending and nothing runs.
LEMMA JoinPool ==
    ASSUME DrainInv, Join
    PROVE  Pool!Close
<1>1. /\ phase = "joining" /\ \A t \in Threads : pc[t] = "done"
      /\ phase' = "down" /\ UNCHANGED <<workQueue, pc, current, ran>>
  BY DEF Join
<1>2. workQueue = <<>>
  BY <1>1, AllGone
<1>3. Pending = <<>>
  <2>1. workQueue \in Seq(Items) /\ 0 \in 0 .. Len(workQueue) /\ Split(0)
    BY <1>2 DEF Split
  <2>2. Pending = SubSeq(workQueue, 1, 0)
    BY <2>1, SplitPending
  <2> QED BY <2>1, <2>2, PrefixFacts
<1>4. Running = {}
  BY <1>1 DEF Running
<1>5. Pending' = Pending /\ Running' = Running
  BY <1>1 DEF Pending, Undismissed, Running
<1> QED BY <1>1, <1>3, <1>4, <1>5 DEF Pool!Close, Pending, Running

\* A step that leaves the queue's work, the running work and shutdown alone.
LEMMA QuietPool ==
    ASSUME Pending' = Pending, Running' = Running, ran' = ran,
           (phase' = "down") = (phase = "down")
    PROVE  UNCHANGED Pool!poolVars
  BY DEF Pool!poolVars, Pending, Running

\* A dismissal queued or taken changes no work.
LEMMA DismissalPool ==
    ASSUME DrainInv, DrainInv',
           QueueDismissal \/ \E t \in Threads : TakeDismissal(t)
    PROVE  UNCHANGED Pool!poolVars
<1>1. workQueue \in Seq(Items) /\ workQueue' \in Seq(Items)
      /\ pc \in [Threads -> {"get", "waiting", "running", "done"}]
  BY DEF DrainInv, IndInv, TypeOK
<1>2. PICK k \in 0 .. Len(workQueue) : Split(k)
  BY DEF DrainInv, DismissalsCounted
<1>3. Pending = SubSeq(workQueue, 1, k)
  BY <1>1, <1>2, SplitPending
<1>4. CASE QueueDismissal
  <2>1. /\ Dismiss \in Items /\ QueueWork(Dismiss) /\ IndInv
        /\ UNCHANGED <<current, ran>>
        /\ phase \in {"open", "dismissing"} /\ phase' \in {"joining", "dismissing"}
    BY <1>4 DEF QueueDismissal, Items, DrainInv
  <2>2. /\ \A t \in Threads : (pc'[t] = "running") = (pc[t] = "running")
        /\ workQueue' = Append(workQueue, Dismiss)
    BY <2>1, QueueWorkPc
  <2>3. /\ Len(workQueue) \in Nat /\ Len(workQueue') = Len(workQueue) + 1
        /\ \A i \in 1 .. Len(workQueue) : workQueue'[i] = workQueue[i]
        /\ workQueue'[Len(workQueue) + 1] = Dismiss
    BY <1>1, <2>1, <2>2, AppendFacts
  <2>4. k \in 0 .. Len(workQueue') /\ Split(k)'
    BY <1>2, <2>3 DEF Split
  <2>5. Pending' = SubSeq(workQueue', 1, k)
    BY <1>1, <2>4, SplitPendingNext
  <2>6. Pending' = Pending
    BY <1>1, <1>3, <2>1, <2>2, <2>5, PrefixAppend
  <2>7. Running' = Running
    BY <2>1, <2>2 DEF Running
  <2> QED BY <2>1, <2>6, <2>7, QuietPool
<1>5. ASSUME NEW t \in Threads, TakeDismissal(t) PROVE UNCHANGED Pool!poolVars
  <2>1. /\ pc[t] = "get" /\ workQueue # <<>> /\ Head(workQueue) = Dismiss
        /\ workQueue' = Tail(workQueue)
        /\ pc' = [pc EXCEPT ![t] = "done"]
        /\ UNCHANGED <<current, phase, ran>>
    BY <1>5 DEF TakeDismissal
  <2>2. /\ Len(workQueue) \in Nat \ {0} /\ Len(workQueue') = Len(workQueue) - 1
        /\ workQueue[1] = Dismiss
        /\ \A i \in 1 .. Len(workQueue') : workQueue'[i] = workQueue[i + 1]
    BY <1>1, <2>1, TailFacts
  <2>3. k = 0
    BY <1>2, <2>2 DEF Split
  <2>4. 0 \in 0 .. Len(workQueue') /\ Split(0)'
    <3>1. \A i \in 1 .. Len(workQueue') : i + 1 \in 1 .. Len(workQueue)
      BY <2>2
    <3> QED BY <1>2, <2>2, <2>3, <3>1 DEF Split
  <2>5. Pending' = SubSeq(workQueue', 1, 0)
    BY <1>1, <2>4, SplitPendingNext
  <2>6. Pending' = Pending
    BY <1>1, <1>3, <2>3, <2>4, <2>5, PrefixFacts
  <2>7. \A u \in Threads : (pc'[u] = "running") = (pc[u] = "running")
    BY <1>1, <2>1
  <2>8. Running' = Running
    BY <2>1, <2>7 DEF Running
  <2> QED BY <2>1, <2>6, <2>8, QuietPool
<1> QED BY <1>4, <1>5

\* Every step of the work queue is a step of the pool or changes nothing of it.
LEMMA StepPool ==
    ASSUME DrainInv, DrainInv', [Next]_vars
    PROVE  [Pool!PoolNext]_(Pool!poolVars)
<1>1. ASSUME NEW t \in Threads, Sleep(t) \/ WakeSpuriously(t)
      PROVE  UNCHANGED Pool!poolVars
  <2>1. pc \in [Threads -> {"get", "waiting", "running", "done"}]
    BY DEF DrainInv, IndInv, TypeOK
  <2>2. /\ UNCHANGED <<workQueue, current, phase, ran>>
        /\ pc[t] \in {"get", "waiting"}
        /\ \E to \in {"get", "waiting"} : pc' = [pc EXCEPT ![t] = to]
    BY <1>1 DEF Sleep, WakeSpuriously
  <2>3. \A u \in Threads : (pc'[u] = "running") = (pc[u] = "running")
    BY <2>1, <2>2
  <2>4. Running' = Running
    BY <2>2, <2>3 DEF Running
  <2>5. Pending' = Pending
    BY <2>2 DEF Pending, Undismissed
  <2> QED BY <2>2, <2>4, <2>5, QuietPool
<1>2. CASE UNCHANGED vars
  <2>1. UNCHANGED <<workQueue, current, pc, phase, ran>>
    BY <1>2 DEF vars
  <2>2. Pending' = Pending /\ Running' = Running
    BY <2>1 DEF Pending, Undismissed, Running
  <2> QED BY <2>1, <2>2, QuietPool
<1>3. ASSUME NEW w \in Works, Submit(w) PROVE Pool!PoolNext
  BY <1>3, SubmitPool DEF Pool!PoolNext
<1>4. ASSUME NEW t \in Threads, TakeWork(t) PROVE Pool!PoolNext
  BY <1>4, TakeWorkPool DEF Pool!PoolNext
<1>5. ASSUME NEW t \in Threads, FinishWork(t) PROVE Pool!PoolNext
  BY <1>5, FinishPool DEF Pool!PoolNext
<1>6. CASE Join
  BY <1>6, JoinPool DEF Pool!PoolNext
<1>7. ASSUME QueueDismissal \/ \E t \in Threads : TakeDismissal(t)
      PROVE  UNCHANGED Pool!poolVars
  BY <1>7, DismissalPool
<1> QED BY <1>1, <1>2, <1>3, <1>4, <1>5, <1>6, <1>7 DEF Next, Worker

\* The work queue implements JobPool: jobs are started in the order in which
\* queue_work was called, each is run once, and workqueue_shutdown returns when
\* all have been run, for any number of workers and any work.
THEOREM WorkqueueImplementsPool == Spec => ImplementsPool
<1>1. Init => Pool!PoolInit
  <2> SUFFICES ASSUME Init PROVE Pool!PoolInit
    OBVIOUS
  <2>1. workQueue \in Seq(Items) /\ 0 \in 0 .. Len(workQueue) /\ Split(0)
    BY DEF Init, Split
  <2>2. Pending = SubSeq(workQueue, 1, 0)
    BY <2>1, SplitPending
  <2>3. Pending = <<>>
    BY <2>1, <2>2, PrefixFacts
  <2>4. Running = {} /\ ran = {} /\ phase # "down"
    BY DEF Init, Running
  <2> QED BY <2>3, <2>4 DEF Pool!PoolInit, Pending, Running
<1>2. DrainInv /\ DrainInv' /\ [Next]_vars => [Pool!PoolNext]_(Pool!poolVars)
  BY StepPool
<1> QED BY <1>1, <1>2, AlwaysDrain, PTL DEF Spec, ImplementsPool, Pool!PoolSpec
=============================================================================
