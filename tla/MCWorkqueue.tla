---------------------------- MODULE MCWorkqueue ----------------------------
(* Workqueue with small sets of threads and works, given in MCWorkqueue.cfg. *)
EXTENDS Workqueue
=============================================================================
