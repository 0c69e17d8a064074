----------------------------- MODULE Workqueue -----------------------------
(***************************************************************************)
(* src/main/workqueue.c: worker threads that take work from a shared list. *)
(* A worker that finds the list empty enters itself in thread_queue and    *)
(* sleeps on its own condition variable; queue_work wakes the worker at    *)
(* the front of thread_queue.  workqueue_shutdown queues one dismissal per *)
(* worker and joins the workers.                                           *)
(*                                                                         *)
(* One action is one critical section of workqueue_mgmt.lock.  A sleeping  *)
(* thread may also wake up without a signal, as SDL_CondWait permits.      *)
(***************************************************************************)
EXTENDS Naturals, Sequences, FiniteSets

CONSTANTS
    Threads, \* WORKQUEUE_THREADS of them
    Works,   \* the work items that may be queued, each at most once
    Dismiss  \* an item whose func is workqueue_dismiss

ASSUME ThreadsAssumption == IsFiniteSet(Threads) /\ Threads # {}
ASSUME DismissAssumption == Dismiss \notin Works

VARIABLES
    workQueue,   \* workqueue_mgmt.work_queue
    threadQueue, \* workqueue_mgmt.thread_queue, the sleeping threads
    pc,          \* where each worker is
    current,     \* the work each worker runs
    dismissals,  \* dismissals that workqueue_shutdown has queued
    phase,       \* where workqueue_shutdown is
    ran          \* work that has been run (history)

vars == <<workQueue, threadQueue, pc, current, dismissals, phase, ran>>

Items == Works \cup {Dismiss}

InSeq(s) == {s[i] : i \in 1 .. Len(s)}

Init ==
    /\ workQueue = <<>>
    /\ threadQueue = <<>>
    /\ pc = [t \in Threads |-> "get"]
    /\ current = [t \in Threads |-> Dismiss]
    /\ dismissals = 0
    /\ phase = "open"
    /\ ran = {}

-----------------------------------------------------------------------------
\* queue_work: append, and wake the first sleeping thread.  It leaves the list
\* of sleepers here, under the lock, so that it cannot be chosen twice.
\* QueueWork_NoDel wakes it without taking it off the list.
QueueWork_NoDel(item) ==
    /\ workQueue' = Append(workQueue, item)
    /\ IF threadQueue = <<>>
       THEN UNCHANGED <<threadQueue, pc>>
       ELSE /\ pc' = [pc EXCEPT ![Head(threadQueue)] =
                         IF @ = "waiting" THEN "get" ELSE @]
            /\ UNCHANGED threadQueue

\* QueueWork_Front uses list_add for list_add_tail.
QueueWork_Front(item) ==
    /\ workQueue' = <<item>> \o workQueue
    /\ IF threadQueue = <<>>
       THEN UNCHANGED <<threadQueue, pc>>
       ELSE /\ threadQueue' = Tail(threadQueue)
            /\ pc' = [pc EXCEPT ![Head(threadQueue)] =
                         IF @ = "waiting" THEN "get" ELSE @]

QueueWork(item) ==
    /\ workQueue' = Append(workQueue, item)
    /\ IF threadQueue = <<>>
       THEN UNCHANGED <<threadQueue, pc>>
       ELSE /\ threadQueue' = Tail(threadQueue)
            /\ pc' = [pc EXCEPT ![Head(threadQueue)] =
                         IF @ = "waiting" THEN "get" ELSE @]

Submit(w) ==
    /\ phase = "open"
    /\ w \notin InSeq(workQueue) \cup ran
    /\ \A t \in Threads : current[t] # w
    /\ QueueWork(w)
    /\ UNCHANGED <<current, dismissals, phase, ran>>

\* list_del_init(&thread->list): the thread leaves the list of sleepers if it
\* is on it.
Without(s, t) ==
    IF t \notin InSeq(s) THEN s
    ELSE LET i == CHOOSE i \in 1 .. Len(s) : s[i] = t
         IN  [j \in 1 .. Len(s) - 1 |-> IF j < i THEN s[j] ELSE s[j + 1]]

Unlist(t) == Without(threadQueue, t)

\* The first half of workqueue_get_work: there is work, and it is no dismissal.
\* The thread goes on to run it.
\* TakeWork_Listed leaves the thread on the list of sleepers.
TakeWork_Listed(t) ==
    /\ pc[t] = "get"
    /\ workQueue # <<>>
    /\ Head(workQueue) # Dismiss
    /\ current' = [current EXCEPT ![t] = Head(workQueue)]
    /\ workQueue' = Tail(workQueue)
    /\ pc' = [pc EXCEPT ![t] = "running"]
    /\ UNCHANGED <<threadQueue, dismissals, phase, ran>>

TakeWork(t) ==
    /\ pc[t] = "get"
    /\ workQueue # <<>>
    /\ Head(workQueue) # Dismiss
    /\ threadQueue' = Unlist(t)
    /\ current' = [current EXCEPT ![t] = Head(workQueue)]
    /\ workQueue' = Tail(workQueue)
    /\ pc' = [pc EXCEPT ![t] = "running"]
    /\ UNCHANGED <<dismissals, phase, ran>>

\* A dismissal ends the thread.
TakeDismissal(t) ==
    /\ pc[t] = "get"
    /\ workQueue # <<>>
    /\ Head(workQueue) = Dismiss
    /\ threadQueue' = Unlist(t)
    /\ workQueue' = Tail(workQueue)
    /\ pc' = [pc EXCEPT ![t] = "done"]
    /\ UNCHANGED <<current, dismissals, phase, ran>>

\* The other half: list_add puts the thread first, and SDL_CondWait gives up
\* the lock and sleeps in one step.
\* Sleep_Unlocked is a wait that does not recheck the queue under the lock.
Sleep_Unlocked(t) ==
    /\ pc[t] = "get"
    /\ threadQueue' = <<t>> \o Unlist(t)
    /\ pc' = [pc EXCEPT ![t] = "waiting"]
    /\ UNCHANGED <<workQueue, current, dismissals, phase, ran>>

Sleep(t) ==
    /\ pc[t] = "get"
    /\ workQueue = <<>>
    /\ threadQueue' = <<t>> \o Unlist(t)
    /\ pc' = [pc EXCEPT ![t] = "waiting"]
    /\ UNCHANGED <<workQueue, current, dismissals, phase, ran>>

\* SDL_CondWait returns without a signal; the thread stays listed until it
\* takes the lock again.
WakeSpuriously(t) ==
    /\ pc[t] = "waiting"
    /\ pc' = [pc EXCEPT ![t] = "get"]
    /\ UNCHANGED <<workQueue, threadQueue, current, dismissals, phase, ran>>

\* work->func(work) returns.
FinishWork(t) ==
    /\ pc[t] = "running"
    /\ ran' = ran \cup {current[t]}
    /\ current' = [current EXCEPT ![t] = Dismiss]
    /\ pc' = [pc EXCEPT ![t] = "get"]
    /\ UNCHANGED <<workQueue, threadQueue, dismissals, phase>>

-----------------------------------------------------------------------------
\* workqueue_shutdown: one dismissal per thread, then SDL_WaitThread for each.
\* QueueDismissal_One queues a single dismissal whatever the number of threads.
QueueDismissal_One ==
    /\ phase \in {"open", "dismissing"}
    /\ QueueWork(Dismiss)
    /\ dismissals' = dismissals + 1
    /\ phase' = "joining"
    /\ UNCHANGED <<current, ran>>

QueueDismissal ==
    /\ phase \in {"open", "dismissing"}
    /\ QueueWork(Dismiss)
    /\ dismissals' = dismissals + 1
    /\ phase' = IF dismissals' = Cardinality(Threads) THEN "joining"
                ELSE "dismissing"
    /\ UNCHANGED <<current, ran>>

\* Join_NoWait does not wait for the threads.
Join_NoWait ==
    /\ phase = "joining"
    /\ phase' = "down"
    /\ UNCHANGED <<workQueue, threadQueue, pc, current, dismissals, ran>>

Join ==
    /\ phase = "joining"
    /\ \A t \in Threads : pc[t] = "done"
    /\ phase' = "down"
    /\ UNCHANGED <<workQueue, threadQueue, pc, current, dismissals, ran>>

Worker(t) == TakeWork(t) \/ TakeDismissal(t) \/ Sleep(t) \/ FinishWork(t)

Next ==
    \/ \E w \in Works : Submit(w)
    \/ \E t \in Threads : Worker(t) \/ WakeSpuriously(t)
    \/ QueueDismissal
    \/ Join

Spec == Init /\ [][Next]_vars

\* The scheduler runs every worker that is not asleep, and shutdown, once
\* begun, goes on.
FairSpec ==
    /\ Spec
    /\ \A t \in Threads : WF_vars(Worker(t))
    /\ WF_vars(phase # "open" /\ QueueDismissal)
    /\ WF_vars(Join)

-----------------------------------------------------------------------------
\* The types of the variables.
TypeOK ==
    /\ workQueue \in Seq(Items)
    /\ threadQueue \in Seq(Threads)
    /\ pc \in [Threads -> {"get", "waiting", "running", "done"}]
    /\ current \in [Threads -> Items]
    /\ dismissals \in Nat
    /\ phase \in {"open", "dismissing", "joining", "down"}
    /\ ran \in SUBSET Works

\* Threads on their way to the queue that queue_work may no longer wake.
Free == {t \in Threads : pc[t] = "get" /\ t \notin InSeq(threadQueue)}

\* Every sleeping thread is on the list of sleepers, once.
SleepersListed ==
    /\ \A t \in Threads : pc[t] = "waiting" => t \in InSeq(threadQueue)
    /\ \A i, j \in 1 .. Len(threadQueue) :
          threadQueue[i] = threadQueue[j] => i = j
    /\ \A t \in InSeq(threadQueue) : pc[t] \in {"waiting", "get"}

\* While a thread sleeps, as many threads are awake and on their way to the
\* queue as there are items in it.
EnoughAwake == threadQueue # <<>> => Len(workQueue) <= Cardinality(Free)

\* A thread that runs work runs work that was submitted, never a dismissal.
BusyHasWork == \A t \in Threads : pc[t] = "running" => current[t] \in Works

\* Together they are inductive; NoLostWakeup follows from them.
IndInv == TypeOK /\ SleepersListed /\ EnoughAwake /\ BusyHasWork

\* No wakeup is lost: no worker sleeps while there is work, unless another one
\* is on its way to the queue.
NoLostWakeup ==
    (workQueue # <<>> /\ \E t \in Threads : pc[t] = "waiting")
        => \E t \in Threads : pc[t] = "get"

\* workqueue_shutdown returns only when all work queued before it has been run
\* and no dismissal is left over.
ShutdownDrains ==
    phase = "down" => workQueue = <<>> /\ \A t \in Threads : current[t] = Dismiss

\* Work that is queued is run in the end.
WorkIsRun == \A w \in Works : (w \in InSeq(workQueue)) ~> (w \in ran)

\* workqueue_shutdown returns.
ShutdownReturns == (phase # "open") ~> (phase = "down")

\* The positions of the queue before its first dismissal.
Undismissed ==
    {i \in 1 .. Len(workQueue) : \A j \in 1 .. i : workQueue[j] # Dismiss}

Pool == INSTANCE JobPool
            WITH pending <- SubSeq(workQueue, 1, Cardinality(Undismissed)),
                 running <- {current[t] : t \in {u \in Threads : pc[u] = "running"}},
                 closed  <- phase = "down"

\* The work queue implements the promise of JobPool.
ImplementsPool == Pool!PoolSpec
=============================================================================
