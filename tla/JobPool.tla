------------------------------ MODULE JobPool ------------------------------
(***************************************************************************)
(* What src/main/workqueue.h promises to its users: a job handed over with *)
(* queue_work is run once, jobs are started in the order in which they     *)
(* were handed over, and when workqueue_shutdown returns every job handed  *)
(* over before it has been run.                                            *)
(***************************************************************************)
EXTENDS Naturals, Sequences, FiniteSets

CONSTANT Works

VARIABLES
    pending, \* jobs handed over and not started, in order
    running, \* jobs some thread is running
    ran,     \* jobs that have been run
    closed   \* workqueue_shutdown has returned

poolVars == <<pending, running, ran, closed>>

InSeq(s) == {s[i] : i \in 1 .. Len(s)}

PoolInit == pending = <<>> /\ running = {} /\ ran = {} /\ closed = FALSE

HandOver(w) ==
    /\ ~closed
    /\ w \notin InSeq(pending) \cup running \cup ran
    /\ pending' = Append(pending, w)
    /\ UNCHANGED <<running, ran, closed>>

Start ==
    /\ pending # <<>>
    /\ running' = running \cup {Head(pending)}
    /\ pending' = Tail(pending)
    /\ UNCHANGED <<ran, closed>>

Finish(w) ==
    /\ w \in running
    /\ running' = running \ {w}
    /\ ran' = ran \cup {w}
    /\ UNCHANGED <<pending, closed>>

Close ==
    /\ pending = <<>> /\ running = {}
    /\ closed' = TRUE
    /\ UNCHANGED <<pending, running, ran>>

PoolNext == (\E w \in Works : HandOver(w) \/ Finish(w)) \/ Start \/ Close

PoolSpec == PoolInit /\ [][PoolNext]_poolVars
=============================================================================
