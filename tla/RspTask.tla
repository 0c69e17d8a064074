------------------------------ MODULE RspTask ------------------------------
(***************************************************************************)
(* Tasks of the signal processor and interrupts of the display processor:  *)
(* src/device/rcp/rsp/rsp_core.c, src/device/rcp/rdp/rdp_core.c and the    *)
(* video interrupt of src/device/rcp/vi/vi_controller.c.                   *)
(*                                                                         *)
(* A write of SP_STATUS_REG that takes the RSP out of halt runs the whole  *)
(* task at once, in the RSP plugin; the program must believe that it takes *)
(* time, so do_SP_Task hides the HALT and BROKE bits and the interrupts    *)
(* that the plugin left, and an SP_INT event brings them back.  A plugin   *)
(* may return before the task has ended: the RSP is then locked, the task  *)
(* goes on at the next write of SP_STATUS_REG, and INTR_UNSAFE_RSP keeps   *)
(* save states and resets away, because a locked task is not saved.        *)
(* While the RDP is frozen its interrupt, and the screen updates that      *)
(* follow it, wait for the unfreeze.                                       *)
(*                                                                         *)
(* The signal bits, the single-step bit and the program counter decide     *)
(* nothing here and are left out, as is the time between events: they come *)
(* in any order.  The pool of events is taken to have room (a full pool is *)
(* the subject of EventQueue), and what MI_INTR_REG does to the CPU is the *)
(* subject of Cp0Interrupts.                                               *)
(***************************************************************************)
EXTENDS Integers, FiniteSets

CONSTANTS
    Writes,      \* values the program writes to SP_STATUS_REG
    MaxYields,   \* how often a plugin may return before a task ends
    MaxPending   \* bound on the DP_INT events that wait

\* What a write to SP_STATUS_REG asks for: halt, the SP interrupt and
\* INTR_BREAK are set, cleared or kept, and BROKE is cleared or kept.
Bit == {"set", "clr", "keep"}
WriteValues == [halt : Bit, broke : {"clr", "keep"}, intr : Bit, brk : Bit]

ASSUME RspTaskAssumption ==
    /\ Writes \subseteq WriteValues
    /\ MaxYields \in Nat /\ MaxPending \in Nat \ {0}

VARIABLES
    status,     \* SP_STATUS_REG: subset of {"halt", "broke", "intrBreak"}
    locked,     \* rsp_task_locked
    unsafe,     \* INTR_UNSAFE_RSP in interrupt_unsafe_state
    mi,         \* MI_INTR_REG: subset of {"SP", "DP"}
    pending,    \* how many SP_INT and DP_INT events wait
    frozen,     \* DPC_STATUS_FREEZE
    unfreeze,   \* do_on_unfreeze: subset of {"dp", "screen"}
    task,       \* what became of the last task (history)
    yields,     \* how often it yielded (history)
    dpOwed,     \* the RDP finished, and the program has not been told (history)
    screenOwed, \* a screen update was put off and not made yet (history)
    saved       \* the last save state

rspVars == <<status, locked, unsafe, task, yields>>
rdpVars == <<frozen, unfreeze, dpOwed, screenOwed>>
vars == <<status, locked, unsafe, mi, pending, frozen, unfreeze, task, yields,
          dpOwed, screenOwed, saved>>

Kinds == {"SP_INT", "DP_INT"}
NoSave == [status |-> {}]

\* "done": the plugin has finished it, the program does not know yet;
\* "yielded": the plugin has not finished; "stopped": nor will it, after a reset.
TaskStates == {"none", "yielded", "done", "stopped"}

Snapshots ==
    [status : SUBSET {"halt", "broke", "intrBreak"}, mi : SUBSET {"SP", "DP"},
     pending : [Kinds -> Nat], frozen : BOOLEAN, unfreeze : SUBSET {"dp", "screen"},
     task : TaskStates, yields : 0 .. MaxYields, dpOwed : BOOLEAN, screenOwed : BOOLEAN]

\* The types of the variables.
TypeOK ==
    /\ status \in SUBSET {"halt", "broke", "intrBreak"}
    /\ locked \in BOOLEAN /\ unsafe \in BOOLEAN /\ frozen \in BOOLEAN
    /\ mi \in SUBSET {"SP", "DP"}
    /\ pending \in [Kinds -> Nat]
    /\ unfreeze \in SUBSET {"dp", "screen"}
    /\ task \in TaskStates /\ yields \in 0 .. MaxYields
    /\ dpOwed \in BOOLEAN /\ screenOwed \in BOOLEAN
    /\ saved = NoSave \/ saved \in Snapshots

\* poweron_rsp, poweron_rdp.
PowerOn ==
    /\ status' = {"halt"} /\ locked' = FALSE /\ unsafe' = FALSE
    /\ mi' = {} /\ pending' = [k \in Kinds |-> 0]
    /\ frozen' = FALSE /\ unfreeze' = {}
    /\ task' = "none" /\ yields' = 0 /\ dpOwed' = FALSE /\ screenOwed' = FALSE

Init ==
    /\ status = {"halt"} /\ locked = FALSE /\ unsafe = FALSE
    /\ mi = {} /\ pending = [k \in Kinds |-> 0]
    /\ frozen = FALSE /\ unfreeze = {}
    /\ task = "none" /\ yields = 0 /\ dpOwed = FALSE /\ screenOwed = FALSE
    /\ saved = NoSave

-----------------------------------------------------------------------------
(* Tasks.                                                                   *)

Edit(set, bit, how) ==
    CASE how = "set" -> set \cup {bit}
      [] how = "clr" -> set \ {bit}
      [] how = "keep" -> set

\* doRspCycles of the plugin: it ends the task (HALT and BROKE, and the SP
\* interrupt if INTR_BREAK asks for it) or returns early; its microcode may raise
\* the SP interrupt and, for commands sent to the RDP, the DP interrupt.
Outcomes == [gfx : BOOLEAN, ends : BOOLEAN, sp : BOOLEAN, dp : BOOLEAN]

DoRspCycles(o, st) ==
    /\ ~o.ends => yields < MaxYields
    /\ (o.ends /\ "intrBreak" \in st) => o.sp

\* The end of do_SP_Task: SP_INT is scheduled for what the plugin raised, and for a
\* task that yielded.  SchedulesSpInt_Raised forgets the latter.
SchedulesSpInt_Raised(yielded, raised) == "SP" \in raised
SchedulesSpInt(yielded, raised) == yielded \/ "SP" \in raised

\* A DP interrupt of a frozen RDP is put off.  PutOff_Never drops it.
PutOff_Never(sync) == unfreeze
PutOff(sync) == IF sync /\ frozen THEN unfreeze \cup {"dp"} ELSE unfreeze

\* do_SP_Task, with st and m in SP_STATUS_REG and MI_INTR_REG: run the plugin, hide
\* the interrupts it raised, and lock the RSP if the task has not ended.
DoSpTask(st, m, o) ==
    LET after   == IF o.ends THEN st \cup {"halt", "broke"} ELSE st
        raised  == m \cup (IF o.sp THEN {"SP"} ELSE {}) \cup (IF o.dp THEN {"DP"} ELSE {})
        sync    == o.gfx /\ "DP" \in raised
        yielded == after \cap {"halt", "broke"} = {}
    IN  /\ DoRspCycles(o, st)
        /\ pending["SP_INT"] <= MaxPending
        /\ sync => pending["DP_INT"] < MaxPending
        /\ status' = after \ {"halt", "broke"}
        /\ locked' = yielded
        /\ unsafe' = yielded
        /\ mi' = (raised \ {"SP"}) \ (IF sync THEN {"DP"} ELSE {})
        /\ pending' = [pending EXCEPT
               !["SP_INT"] = IF SchedulesSpInt(yielded, raised) THEN @ + 1 ELSE @,
               !["DP_INT"] = IF sync /\ ~frozen THEN @ + 1 ELSE @]
        /\ unfreeze' = PutOff(sync)
        /\ task' = IF o.ends THEN "done" ELSE "yielded"
        /\ yields' = IF o.ends THEN 0 ELSE yields + 1
        /\ dpOwed' = (dpOwed \/ o.dp)
        /\ UNCHANGED <<frozen, screenOwed, saved>>

\* update_sp_status: when does a write run the RSP?  A locked task waits for its
\* SP_INT.  RunsTask_NoWait lets it run at once.
RunsTask_NoWait(w, st) ==
    /\ w.halt = "clr" \/ w.broke = "clr" \/ locked
    /\ "halt" \notin st

RunsTask(w, st) ==
    /\ ~(locked /\ pending["SP_INT"] > 0)
    /\ w.halt = "clr" \/ w.broke = "clr" \/ locked
    /\ "halt" \notin st

Edited(w) == Edit(Edit(Edit(status, "halt", w.halt), "broke", w.broke), "intrBreak", w.brk)

UpdateSpStatus(w) ==
    LET st == Edited(w)
        m  == Edit(mi, "SP", w.intr)
    IN  \/ RunsTask(w, st) /\ \E o \in Outcomes : DoSpTask(st, m, o)
        \/ /\ ~RunsTask(w, st)
           /\ status' = st /\ mi' = m
           /\ UNCHANGED <<locked, unsafe, task, yields, pending, rdpVars, saved>>

\* What a program that follows the manual does: it starts a task when it has seen
\* HALT, clearing HALT and BROKE and asking for the interrupt at the break, and
\* lets INTR_BREAK alone while the task runs.  It never halts a running task.
Contract(w) ==
    /\ w.halt # "set"
    /\ (w.halt = "clr" \/ w.broke = "clr" \/ w.brk = "clr") => "halt" \in status
    /\ w.halt = "clr" => w.broke = "clr" /\ w.brk = "set"

WriteSpStatus(w) == Contract(w) /\ UpdateSpStatus(w)

\* The program acknowledges the SP interrupt.
Ack == [halt |-> "keep", broke |-> "keep", intr |-> "clr", brk |-> "keep"]
AckSp == "SP" \in mi /\ UpdateSpStatus(Ack)

\* SP_INT: rsp_interrupt_event.  RspInterruptEvent_Halts forgets that the task may
\* be locked.
RspInterruptEvent_Halts ==
    /\ pending["SP_INT"] > 0
    /\ pending' = [pending EXCEPT !["SP_INT"] = @ - 1]
    /\ status' = status \cup {"halt", "broke"}
    /\ mi' = IF "intrBreak" \in status THEN mi \cup {"SP"} ELSE mi
    /\ task' = IF task = "done" THEN "none" ELSE task
    /\ UNCHANGED <<locked, unsafe, yields, rdpVars, saved>>

RspInterruptEvent ==
    /\ pending["SP_INT"] > 0
    /\ pending' = [pending EXCEPT !["SP_INT"] = @ - 1]
    /\ status' = IF locked THEN status ELSE status \cup {"halt", "broke"}
    /\ mi' = IF "intrBreak" \in status THEN mi \cup {"SP"} ELSE mi
    /\ task' = IF task = "done" THEN "none" ELSE task
    /\ UNCHANGED <<locked, unsafe, yields, rdpVars, saved>>

-----------------------------------------------------------------------------
(* The RDP and the screen.                                                  *)

\* DPC_END_REG: processRDPList, and the DP interrupt at once.
WriteDpcEnd ==
    /\ mi' = mi \cup {"DP"} /\ dpOwed' = TRUE
    /\ UNCHANGED <<rspVars, pending, frozen, unfreeze, screenOwed, saved>>

\* DP_INT: rdp_interrupt_event.
RdpInterruptEvent ==
    /\ pending["DP_INT"] > 0
    /\ pending' = [pending EXCEPT !["DP_INT"] = @ - 1]
    /\ mi' = mi \cup {"DP"}
    /\ UNCHANGED <<rspVars, rdpVars, saved>>

\* DPC_STATUS_REG: update_dpc_status with DPC_CLR_FREEZE, DPC_SET_FREEZE or both.
UpdateDpcStatus(clr, set) ==
    /\ clr \/ set
    /\ frozen' = (set \/ (frozen /\ ~clr))
    /\ mi' = IF clr /\ "dp" \in unfreeze THEN mi \cup {"DP"} ELSE mi
    /\ screenOwed' = (screenOwed /\ ~(clr /\ "screen" \in unfreeze))
    /\ unfreeze' = IF clr THEN {} ELSE unfreeze
    /\ UNCHANGED <<rspVars, pending, dpOwed, saved>>

\* VI_INT: vi_vertical_interrupt_event.  The screen shows a picture only once the
\* program has been told that it is complete.
ViVerticalInterruptEvent ==
    /\ IF "dp" \in unfreeze
       THEN unfreeze' = unfreeze \cup {"screen"} /\ screenOwed' = TRUE
       ELSE unfreeze' = unfreeze /\ screenOwed' = FALSE
    /\ UNCHANGED <<rspVars, mi, pending, frozen, dpOwed, saved>>

\* MI_INIT_MODE_REG: the program acknowledges the DP interrupt.
AckDp ==
    /\ "DP" \in mi
    /\ mi' = mi \ {"DP"} /\ dpOwed' = FALSE
    /\ UNCHANGED <<rspVars, pending, frozen, unfreeze, screenOwed, saved>>

-----------------------------------------------------------------------------
(* Resets and save states: gen_interrupt.                                   *)

\* Soft reset: the boot code halts the RSP and clears its interrupt, and
\* nmi_int_handler empties the event queue.  The lock is not touched.
Halt == [halt |-> "set", broke |-> "keep", intr |-> "clr", brk |-> "keep"]

NmiIntHandler ==
    /\ status' = Edited(Halt) /\ mi' = mi \ {"SP"}
    /\ pending' = [k \in Kinds |-> 0]
    /\ task' = IF task \in {"yielded", "stopped"} THEN "stopped" ELSE "none"
    /\ dpOwed' = (dpOwed /\ ("DP" \in mi \/ "dp" \in unfreeze))
    /\ yields' = 0
    /\ UNCHANGED <<locked, unsafe, frozen, unfreeze, screenOwed, saved>>

\* reset_hard_handler.
ResetHardHandler == ~unsafe /\ PowerOn /\ UNCHANGED saved

\* savestates_save_m64p.  rsp_task_locked is not in the file: MaySave sees to it
\* that there is no locked task.
MaySave_Always == TRUE
MaySave == ~unsafe

SavestatesSave ==
    /\ MaySave
    /\ saved' = [status |-> status, mi |-> mi, pending |-> pending, frozen |-> frozen,
                 unfreeze |-> unfreeze, task |-> task, yields |-> yields,
                 dpOwed |-> dpOwed, screenOwed |-> screenOwed]
    /\ UNCHANGED <<rspVars, rdpVars, mi, pending>>

\* savestates_load_m64p; what was owed is what was owed when the state was saved.
SavestatesLoad ==
    /\ ~unsafe /\ saved # NoSave
    /\ status' = saved.status /\ mi' = saved.mi /\ pending' = saved.pending
    /\ frozen' = saved.frozen /\ unfreeze' = saved.unfreeze
    /\ locked' = FALSE /\ unsafe' = FALSE
    /\ task' = saved.task /\ yields' = saved.yields
    /\ dpOwed' = saved.dpOwed /\ screenOwed' = saved.screenOwed
    /\ UNCHANGED saved

Next ==
    \/ \E w \in Writes : WriteSpStatus(w)
    \/ AckSp
    \/ RspInterruptEvent \/ RdpInterruptEvent \/ ViVerticalInterruptEvent
    \/ WriteDpcEnd \/ AckDp
    \/ \E clr, set \in BOOLEAN : UpdateDpcStatus(clr, set)
    \/ NmiIntHandler \/ ResetHardHandler
    \/ SavestatesSave \/ SavestatesLoad

Spec == Init /\ [][Next]_vars

\* Events come due, and the program acknowledges the SP interrupt.
FairSpec == Spec /\ WF_vars(RspInterruptEvent) /\ WF_vars(AckSp)

-----------------------------------------------------------------------------
(* Properties.                                                              *)

\* INTR_UNSAFE_RSP holds saves, loads and resets back exactly while the plugin has
\* an unfinished task, through resets, saves and loads: a state is never saved or
\* restored in the middle of a task, whose lock is not in the file.
LockTracksTask ==
    /\ locked <=> task \in {"yielded", "stopped"}
    /\ unsafe <=> locked

\* A task that the program waits for always has something coming that lets it go
\* on: its SP_INT, or for a yielded task the interrupt whose acknowledgement runs
\* it again.  Only one SP_INT waits at a time, so no task is completed by the event
\* of another.
TaskMakesProgress ==
    /\ "halt" \notin status =>
          pending["SP_INT"] > 0 \/ (task = "yielded" /\ "SP" \in mi)
    /\ pending["SP_INT"] <= 1

\* The program sees HALT only when no task is unfinished or unreported, so that it
\* never starts a task over another one; a soft reset stops a task for good.
HaltMeansDone == "halt" \in status => task \in {"none", "stopped"}

\* When the RDP has finished, the program has the DP interrupt, or will get it from
\* the DP_INT event or at the unfreeze, whatever happens in between; a soft reset
\* forgets the events.
DpNotLost ==
    dpOwed => \/ "DP" \in mi
              \/ pending["DP_INT"] > 0
              \/ "dp" \in unfreeze /\ frozen

\* A screen update that was put off is made at the unfreeze, and nothing is put off
\* unless the RDP is frozen.
ScreenNotLost ==
    /\ screenOwed => "screen" \in unfreeze
    /\ unfreeze # {} => frozen

\* Freezing the RDP delays its interrupt and the screen update, and loses neither.
FreezeLosesNothing == DpNotLost /\ ScreenNotLost

\* A task that was started comes to an end that the program sees, or a soft reset
\* halts it.
TaskCompletes == (task \in {"yielded", "done"}) ~> ("halt" \in status)
=============================================================================
