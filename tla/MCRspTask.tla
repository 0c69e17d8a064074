----------------------------- MODULE MCRspTask -----------------------------
(* Values of the constants of RspTask for TLC. *)
EXTENDS RspTask

W(halt, broke, intr, brk) == [halt |-> halt, broke |-> broke, intr |-> intr, brk |-> brk]

\* Start a task, with or without acknowledging the last one; a write of signal
\* bits only (a request to yield); the CPU raises the SP interrupt itself; the
\* writes that prepare a task.
MCWrites ==
    {W("clr", "clr", "keep", "set"), W("clr", "clr", "clr", "set"),
     W("keep", "keep", "keep", "keep"), W("keep", "keep", "set", "keep"),
     W("keep", "clr", "keep", "clr")}
=============================================================================
