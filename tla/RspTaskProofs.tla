--------------------------- MODULE RspTaskProofs ---------------------------
(***************************************************************************)
(* The safety properties of RspTask, for every set of values that a        *)
(* program writes to SP_STATUS_REG (within the contract of the manual),    *)
(* however often a plugin returns early.                                   *)
(***************************************************************************)
EXTENDS RspTask, TLAPS

\* Where a task can be, told from SP_STATUS_REG, MI_INTR_REG, the number of SP_INT
\* events and the task: the RSP is halted and nothing is under way; or it is not, BROKE
\* is clear and INTR_BREAK set, and the event that ends or resumes the task is to come,
\* or the interrupt is up whose acknowledgement resumes it.
Settled(st, m, spInts, t) ==
    \/ "halt" \in st /\ t \in {"none", "stopped"} /\ spInts = 0
    \/ /\ "halt" \notin st /\ "broke" \notin st /\ "intrBreak" \in st
       /\ \/ t \in {"done", "yielded"} /\ spInts = 1
          \/ t = "yielded" /\ spInts = 0 /\ "SP" \in m

\* FreezeLosesNothing of the registers of a state.
Kept(m, dpInts, fr, un, dp, screen) ==
    /\ dp => "DP" \in m \/ dpInts > 0 \/ ("dp" \in un /\ fr)
    /\ screen => "screen" \in un
    /\ un # {} => fr

\* A save state was made without a locked task, and what holds of the state in memory
\* holds of it.
SavedOK ==
    saved # NoSave =>
        /\ saved \in Snapshots
        /\ saved.task \in {"none", "done"}
        /\ Settled(saved.status, saved.mi, saved.pending["SP_INT"], saved.task)
        /\ Kept(saved.mi, saved.pending["DP_INT"], saved.frozen, saved.unfreeze,
                saved.dpOwed, saved.screenOwed)

TaskInv ==
    /\ TypeOK
    /\ LockTracksTask
    /\ Settled(status, mi, pending["SP_INT"], task)
    /\ Kept(mi, pending["DP_INT"], frozen, unfreeze, dpOwed, screenOwed)
    /\ SavedOK

-----------------------------------------------------------------------------
(* Registers.                                                               *)

\* An edit of a register sets or clears one bit and leaves the others alone.
LEMMA EditLemma ==
    ASSUME NEW set, NEW bit, NEW how \in Bit
    PROVE  /\ bit \in Edit(set, bit, how) <=> (how = "set" \/ (how = "keep" /\ bit \in set))
           /\ \A b : b # bit => (b \in Edit(set, bit, how) <=> b \in set)
  BY DEF Edit, Bit

\* A write of SP_STATUS_REG that keeps to the contract, on a halted RSP and on a running
\* one.
LEMMA EditedLemma ==
    ASSUME NEW w \in WriteValues, TypeOK
    PROVE  /\ Edited(w) \in SUBSET {"halt", "broke", "intrBreak"}
           /\ "halt" \in Edited(w) <=>
                 (w.halt = "set" \/ (w.halt = "keep" /\ "halt" \in status))
           /\ "broke" \in Edited(w) <=> (w.broke = "keep" /\ "broke" \in status)
           /\ "intrBreak" \in Edited(w) <=>
                 (w.brk = "set" \/ (w.brk = "keep" /\ "intrBreak" \in status))
<1>1. w.halt \in Bit /\ w.broke \in {"clr", "keep"} /\ w.brk \in Bit
  BY DEF WriteValues
<1>2. w.broke \in Bit /\ w.broke # "set"
  BY <1>1 DEF Bit
<1> DEFINE a == Edit(status, "halt", w.halt)
           b == Edit(a, "broke", w.broke)
           c == Edit(b, "intrBreak", w.brk)
<1>3. /\ "halt" \in a <=> (w.halt = "set" \/ (w.halt = "keep" /\ "halt" \in status))
      /\ \A x : x # "halt" => (x \in a <=> x \in status)
  BY <1>1, EditLemma
<1>4. /\ "broke" \in b <=> (w.broke = "keep" /\ "broke" \in a)
      /\ \A x : x # "broke" => (x \in b <=> x \in a)
  <2> HIDE DEF a
  <2> QED BY <1>1, <1>2, EditLemma
<1>5. /\ "intrBreak" \in c <=> (w.brk = "set" \/ (w.brk = "keep" /\ "intrBreak" \in b))
      /\ \A x : x # "intrBreak" => (x \in c <=> x \in b)
  <2> HIDE DEF b
  <2> QED BY <1>1, EditLemma
<1>6. Edited(w) = c
  BY DEF Edited
<1> HIDE DEF a, b, c
<1> QED BY <1>3, <1>4, <1>5, <1>6 DEF TypeOK

\* What a write does to MI_INTR_REG.
LEMMA MiLemma ==
    ASSUME NEW how \in Bit, TypeOK
    PROVE  /\ Edit(mi, "SP", how) \in SUBSET {"SP", "DP"}
           /\ "DP" \in Edit(mi, "SP", how) <=> "DP" \in mi
           /\ "SP" \in Edit(mi, "SP", how) <=> (how = "set" \/ (how = "keep" /\ "SP" \in mi))
  BY EditLemma DEF TypeOK

-----------------------------------------------------------------------------
(* The invariant.                                                           *)

LEMMA InitTask == Init => TaskInv
<1> SUFFICES ASSUME Init PROVE TaskInv
  OBVIOUS
<1>1. TypeOK
  <2>1. locked \in BOOLEAN /\ unsafe \in BOOLEAN /\ frozen \in BOOLEAN
        /\ dpOwed \in BOOLEAN /\ screenOwed \in BOOLEAN
    BY Zenon DEF Init
  <2>2. yields \in 0 .. MaxYields /\ pending \in [Kinds -> Nat]
    BY RspTaskAssumption DEF Init
  <2> QED BY <2>1, <2>2 DEF Init, TypeOK, TaskStates
<1>2. SavedOK
  BY DEF Init, SavedOK
<1>3. LockTracksTask
  BY DEF Init, LockTracksTask
<1>4. Settled(status, mi, pending["SP_INT"], task)
      /\ Kept(mi, pending["DP_INT"], frozen, unfreeze, dpOwed, screenOwed)
  BY DEF Init, Settled, Kept, Kinds
<1> QED BY <1>1, <1>2, <1>3, <1>4 DEF TaskInv

\* do_SP_Task on a task that is started or resumed, with no SP_INT event waiting: it ends
\* or yields, and either way its event is on its way.
LEMMA DoSpTaskInv ==
    ASSUME TaskInv, NEW st \in SUBSET {"halt", "broke", "intrBreak"},
           NEW m \in SUBSET {"SP", "DP"}, NEW o \in Outcomes, DoSpTask(st, m, o),
           "halt" \notin st, "broke" \notin st, "intrBreak" \in st,
           "DP" \in m <=> "DP" \in mi, pending["SP_INT"] = 0
    PROVE  TaskInv'
<1> DEFINE after   == IF o.ends THEN st \cup {"halt", "broke"} ELSE st
           raised  == m \cup (IF o.sp THEN {"SP"} ELSE {}) \cup (IF o.dp THEN {"DP"} ELSE {})
           sync    == o.gfx /\ "DP" \in raised
           yielded == after \cap {"halt", "broke"} = {}
<1>1. /\ DoRspCycles(o, st)
      /\ status' = after \ {"halt", "broke"}
      /\ locked' = yielded
      /\ unsafe' = yielded
      /\ mi' = (raised \ {"SP"}) \ (IF sync THEN {"DP"} ELSE {})
      /\ pending' = [pending EXCEPT
               !["SP_INT"] = IF SchedulesSpInt(yielded, raised) THEN @ + 1 ELSE @,
               !["DP_INT"] = IF sync /\ ~frozen THEN @ + 1 ELSE @]
      /\ unfreeze' = PutOff(sync)
      /\ task' = IF o.ends THEN "done" ELSE "yielded"
      /\ yields' = IF o.ends THEN 0 ELSE yields + 1
      /\ dpOwed' = (dpOwed \/ o.dp)
      /\ frozen' = frozen /\ screenOwed' = screenOwed /\ saved' = saved
  BY DEF DoSpTask
<1>2. o.gfx \in BOOLEAN /\ o.ends \in BOOLEAN /\ o.sp \in BOOLEAN /\ o.dp \in BOOLEAN
  BY DEF Outcomes
<1>3. yielded <=> ~o.ends
  OBVIOUS
<1>4. yielded \in BOOLEAN /\ sync \in BOOLEAN /\ raised \in SUBSET {"SP", "DP"}
      /\ ("DP" \in raised <=> "DP" \in m \/ o.dp)
  OBVIOUS
<1>5. SchedulesSpInt(yielded, raised)
  BY <1>1, <1>3 DEF DoRspCycles, SchedulesSpInt
<1> HIDE DEF raised, sync, yielded
<1>6. pending \in [Kinds -> Nat]
  BY DEF TaskInv, TypeOK
<1>7. /\ pending' \in [Kinds -> Nat]
      /\ pending'["SP_INT"] = 1
      /\ pending'["DP_INT"] = (IF sync /\ ~frozen THEN pending["DP_INT"] + 1
                                                ELSE pending["DP_INT"])
  BY <1>1, <1>5, <1>6 DEF Kinds
<1>8. status' \in SUBSET {"halt", "broke", "intrBreak"} /\ "halt" \notin status'
      /\ "broke" \notin status' /\ "intrBreak" \in status'
  BY <1>1
<1>9. LockTracksTask' /\ task' \in {"done", "yielded"}
  BY <1>1, <1>3 DEF LockTracksTask
<1>10. Settled(status, mi, pending["SP_INT"], task)'
  BY <1>7, <1>8, <1>9 DEF Settled
<1>11. Kept(mi, pending["DP_INT"], frozen, unfreeze, dpOwed, screenOwed)'
  <2>1. unfreeze' = IF sync /\ frozen THEN unfreeze \cup {"dp"} ELSE unfreeze
    BY <1>1 DEF PutOff
  <2>2. Kept(mi, pending["DP_INT"], frozen, unfreeze, dpOwed, screenOwed)
    BY DEF TaskInv
  <2>3. "DP" \in mi' <=> ~sync /\ "DP" \in raised
    BY <1>1
  <2>4. pending["DP_INT"] \in Nat
    BY <1>6 DEF Kinds
  <2>5. (screenOwed' => "screen" \in unfreeze') /\ (unfreeze' # {} => frozen')
    BY <1>1, <2>1, <2>2 DEF Kept
  <2>6. dpOwed' => "DP" \in mi' \/ pending'["DP_INT"] > 0 \/ ("dp" \in unfreeze' /\ frozen')
    <3>1. CASE sync /\ frozen
      BY <1>1, <2>1, <3>1
    <3>2. CASE sync /\ ~frozen
      BY <1>7, <2>4, <3>2
    <3>3. CASE ~sync
      BY <1>1, <1>4, <1>7, <2>1, <2>2, <2>3, <3>3 DEF Kept
    <3> QED BY <3>1, <3>2, <3>3
  <2> QED BY <2>5, <2>6 DEF Kept
<1>12. SavedOK'
  BY <1>1 DEF TaskInv, SavedOK
<1>13. TypeOK'
  <2>1. mi' \in SUBSET {"SP", "DP"} /\ unfreeze' \in SUBSET {"dp", "screen"}
    BY <1>1, <1>4 DEF TaskInv, TypeOK, PutOff
  <2>2. yields' \in 0 .. MaxYields
    BY <1>1, <1>2, RspTaskAssumption DEF TaskInv, TypeOK, DoRspCycles
  <2>3. locked' \in BOOLEAN /\ unsafe' \in BOOLEAN /\ dpOwed' \in BOOLEAN
    BY <1>1, <1>4, Zenon
  <2> QED BY <1>1, <1>7, <1>8, <1>9, <2>1, <2>2, <2>3 DEF TaskInv, TypeOK, TaskStates
<1> QED BY <1>9, <1>10, <1>11, <1>12, <1>13 DEF TaskInv

\* A write of SP_STATUS_REG that keeps to the contract, or that leaves HALT, BROKE and
\* INTR_BREAK alone: it starts or resumes a task only when no SP_INT event waits.
LEMMA WriteInv ==
    ASSUME TaskInv, NEW w \in WriteValues, UpdateSpStatus(w),
           Contract(w) \/ w = Ack
    PROVE  TaskInv'
<1> DEFINE st == Edited(w)
           m  == Edit(mi, "SP", w.intr)
<1>1. TypeOK /\ Settled(status, mi, pending["SP_INT"], task) /\ LockTracksTask
  BY DEF TaskInv
<1>2. w.intr \in Bit /\ w.halt \in Bit /\ w.brk \in Bit /\ w.broke \in {"clr", "keep"}
  BY DEF WriteValues
<1>3. /\ w.halt # "set"
      /\ (w.halt = "clr" \/ w.broke = "clr" \/ w.brk = "clr") => "halt" \in status
      /\ w.halt = "clr" => w.broke = "clr" /\ w.brk = "set"
  BY DEF Contract, Ack
<1>4. /\ st \in SUBSET {"halt", "broke", "intrBreak"}
      /\ "halt" \in st <=> (w.halt = "keep" /\ "halt" \in status)
      /\ "broke" \in st <=> (w.broke = "keep" /\ "broke" \in status)
      /\ "intrBreak" \in st <=> (w.brk = "set" \/ (w.brk = "keep" /\ "intrBreak" \in status))
  BY <1>1, <1>3, EditedLemma
<1>5. /\ m \in SUBSET {"SP", "DP"}
      /\ "DP" \in m <=> "DP" \in mi
      /\ "SP" \in m <=> (w.intr = "set" \/ (w.intr = "keep" /\ "SP" \in mi))
  BY <1>1, <1>2, MiLemma
<1>6. "halt" \notin st => "broke" \notin st /\ "intrBreak" \in st
  BY <1>1, <1>2, <1>3, <1>4 DEF Settled, Bit
<1>7. UpdateSpStatus(w) <=>
         \/ RunsTask(w, st) /\ \E o \in Outcomes : DoSpTask(st, m, o)
         \/ /\ ~RunsTask(w, st)
            /\ status' = st /\ mi' = m
            /\ UNCHANGED <<locked, unsafe, task, yields, pending, rdpVars, saved>>
  BY DEF UpdateSpStatus
<1> HIDE DEF st, m
<1>8. CASE RunsTask(w, st) /\ \E o \in Outcomes : DoSpTask(st, m, o)
  <2>1. PICK o \in Outcomes : DoSpTask(st, m, o)
    BY <1>8
  <2>2. "halt" \notin st /\ ~(locked /\ pending["SP_INT"] > 0)
        /\ (w.halt = "clr" \/ w.broke = "clr" \/ locked)
    BY <1>8 DEF RunsTask
  <2>3. pending["SP_INT"] = 0
    BY <1>1, <1>3, <2>2 DEF Settled, LockTracksTask
  <2> QED BY <1>4, <1>5, <1>6, <2>1, <2>2, <2>3, DoSpTaskInv
<1>9. CASE /\ ~RunsTask(w, st)
           /\ status' = st /\ mi' = m
           /\ UNCHANGED <<locked, unsafe, task, yields, pending, rdpVars, saved>>
  <2>1. UNCHANGED <<frozen, unfreeze, dpOwed, screenOwed>>
    BY <1>9 DEF rdpVars
  <2>2. Settled(status', mi', pending["SP_INT"], task)
    <3>1. CASE "halt" \in status
      <4>1. "halt" \in st
        BY <1>1, <1>2, <1>3, <1>4, <1>9, <3>1 DEF RunsTask, Settled, Bit
      <4> QED BY <1>1, <1>9, <3>1, <4>1 DEF Settled
    <3>2. CASE "halt" \notin status
      <4>1. "halt" \notin st
        BY <1>4, <3>2
      <4>2. pending["SP_INT"] = 1 \/ ~locked
        BY <1>1, <1>9, <3>2, <4>1 DEF RunsTask, Settled
      <4>3. pending["SP_INT"] = 1 /\ task \in {"done", "yielded"}
        BY <1>1, <3>2, <4>2 DEF Settled, LockTracksTask
      <4> QED BY <1>6, <1>9, <4>1, <4>3 DEF Settled
    <3> QED BY <3>1, <3>2
  <2>3. Kept(mi, pending["DP_INT"], frozen, unfreeze, dpOwed, screenOwed)'
    BY <1>5, <1>9, <2>1 DEF TaskInv, Kept
  <2>4. TypeOK'
    BY <1>1, <1>4, <1>5, <1>9, <2>1 DEF TypeOK
  <2> QED BY <1>9, <2>2, <2>3, <2>4 DEF TaskInv, LockTracksTask, SavedOK
<1> QED BY <1>7, <1>8, <1>9

\* SP_INT ends the task, or raises the interrupt that lets a yielded one go on.
LEMMA SpIntInv == TaskInv /\ RspInterruptEvent => TaskInv'
<1> SUFFICES ASSUME TaskInv, RspInterruptEvent PROVE TaskInv'
  OBVIOUS
<1>1. /\ pending["SP_INT"] > 0 /\ pending' = [pending EXCEPT !["SP_INT"] = @ - 1]
      /\ status' = (IF locked THEN status ELSE status \cup {"halt", "broke"})
      /\ mi' = (IF "intrBreak" \in status THEN mi \cup {"SP"} ELSE mi)
      /\ task' = (IF task = "done" THEN "none" ELSE task)
      /\ UNCHANGED <<locked, unsafe, yields, frozen, unfreeze, dpOwed, screenOwed, saved>>
  BY DEF RspInterruptEvent, rdpVars
<1>2. TypeOK /\ Settled(status, mi, pending["SP_INT"], task) /\ LockTracksTask
  BY DEF TaskInv
<1>3. pending["SP_INT"] = 1 /\ task \in {"done", "yielded"} /\ "intrBreak" \in status
      /\ "halt" \notin status /\ "broke" \notin status
  BY <1>1, <1>2 DEF Settled
<1>4. pending' \in [Kinds -> Nat] /\ pending'["SP_INT"] = 0
      /\ pending'["DP_INT"] = pending["DP_INT"]
  BY <1>1, <1>2, <1>3 DEF TypeOK, Kinds
<1>5. Settled(status, mi, pending["SP_INT"], task)'
  BY <1>1, <1>2, <1>3, <1>4 DEF Settled, LockTracksTask
<1>6. Kept(mi, pending["DP_INT"], frozen, unfreeze, dpOwed, screenOwed)'
  BY <1>1, <1>4 DEF TaskInv, Kept
<1>7. LockTracksTask'
  BY <1>1, <1>2, <1>3 DEF LockTracksTask
<1>8. TypeOK'
  BY <1>1, <1>2, <1>3, <1>4 DEF TypeOK, TaskStates
<1> QED BY <1>1, <1>5, <1>6, <1>7, <1>8 DEF TaskInv, SavedOK

\* The RDP, the screen and the program's side of MI_INTR_REG: the task is not touched.
LEMMA RdpInv ==
    ASSUME TaskInv,
           RdpInterruptEvent \/ ViVerticalInterruptEvent \/ WriteDpcEnd \/ AckDp
           \/ \E clr, set \in BOOLEAN : UpdateDpcStatus(clr, set)
    PROVE  TaskInv'
<1>1. UNCHANGED <<status, locked, unsafe, task, yields, saved>>
  BY DEF RdpInterruptEvent, ViVerticalInterruptEvent, WriteDpcEnd, AckDp, UpdateDpcStatus,
         rspVars
<1>2. TypeOK /\ Kept(mi, pending["DP_INT"], frozen, unfreeze, dpOwed, screenOwed)
  BY DEF TaskInv
<1>3. /\ pending' \in [Kinds -> Nat] /\ pending'["SP_INT"] = pending["SP_INT"]
      /\ "SP" \in mi' <=> "SP" \in mi
      /\ TypeOK'
      /\ Kept(mi, pending["DP_INT"], frozen, unfreeze, dpOwed, screenOwed)'
  <2>1. CASE RdpInterruptEvent
    <3>1. pending' \in [Kinds -> Nat] /\ pending'["SP_INT"] = pending["SP_INT"]
      BY <1>2, <2>1 DEF RdpInterruptEvent, TypeOK, Kinds
    <3> QED BY <1>2, <2>1, <3>1 DEF RdpInterruptEvent, TypeOK, Kept, rspVars, rdpVars
  <2>2. CASE ViVerticalInterruptEvent
    <3>1. screenOwed' \in BOOLEAN
      BY <2>2, Zenon DEF ViVerticalInterruptEvent
    <3> QED BY <1>2, <2>2, <3>1 DEF ViVerticalInterruptEvent, TypeOK, Kept, rspVars
  <2>3. CASE WriteDpcEnd
    <3>1. dpOwed' \in BOOLEAN
      BY <2>3, Zenon DEF WriteDpcEnd
    <3> QED BY <1>2, <2>3, <3>1 DEF WriteDpcEnd, TypeOK, Kept, rspVars
  <2>4. CASE AckDp
    <3>1. dpOwed' \in BOOLEAN
      BY <2>4, Zenon DEF AckDp
    <3> QED BY <1>2, <2>4, <3>1 DEF AckDp, TypeOK, Kept, rspVars
  <2>5. ASSUME NEW clr \in BOOLEAN, NEW set \in BOOLEAN, UpdateDpcStatus(clr, set)
        PROVE  <1>3!:
    <3>1. screenOwed' \in BOOLEAN /\ frozen' \in BOOLEAN
      BY <1>2, <2>5, Zenon DEF UpdateDpcStatus, TypeOK
    <3> QED BY <1>2, <2>5, <3>1 DEF UpdateDpcStatus, TypeOK, Kept, rspVars
  <2> QED BY <2>1, <2>2, <2>3, <2>4, <2>5
<1>4. Settled(status, mi, pending["SP_INT"], task)'
  BY <1>1, <1>3 DEF TaskInv, Settled
<1> QED BY <1>1, <1>3, <1>4 DEF TaskInv, LockTracksTask, SavedOK

\* A soft reset halts the RSP and forgets the events; it leaves the lock of a task that
\* the plugin has not finished.
LEMMA NmiInv == TaskInv /\ NmiIntHandler => TaskInv'
<1> SUFFICES ASSUME TaskInv, NmiIntHandler PROVE TaskInv'
  OBVIOUS
<1>1. TypeOK /\ Halt \in WriteValues
  BY DEF TaskInv, Halt, WriteValues, Bit
<1>2. status' \in SUBSET {"halt", "broke", "intrBreak"} /\ "halt" \in status'
  BY <1>1, EditedLemma DEF NmiIntHandler, Halt
<1>3. pending' \in [Kinds -> Nat] /\ pending'["SP_INT"] = 0 /\ pending'["DP_INT"] = 0
  BY DEF NmiIntHandler, Kinds
<1>4. /\ mi' = mi \ {"SP"} /\ yields' = 0
      /\ task' = (IF task \in {"yielded", "stopped"} THEN "stopped" ELSE "none")
      /\ dpOwed' <=> (dpOwed /\ ("DP" \in mi \/ "dp" \in unfreeze))
      /\ UNCHANGED <<locked, unsafe, frozen, unfreeze, screenOwed, saved>>
  BY DEF NmiIntHandler
<1>5. dpOwed' \in BOOLEAN
  BY Zenon DEF NmiIntHandler, TaskInv, TypeOK
<1>6. TypeOK'
  BY <1>1, <1>2, <1>3, <1>4, <1>5, RspTaskAssumption DEF TypeOK, TaskStates
<1>7. LockTracksTask'
  BY <1>4 DEF TaskInv, LockTracksTask
<1>8. Settled(status, mi, pending["SP_INT"], task)'
  BY <1>2, <1>3, <1>4 DEF Settled
<1>9. Kept(mi, pending["DP_INT"], frozen, unfreeze, dpOwed, screenOwed)'
  BY <1>4 DEF TaskInv, Kept
<1> QED BY <1>4, <1>6, <1>7, <1>8, <1>9 DEF TaskInv, SavedOK

\* A hard reset powers the machine on again.
LEMMA ResetInv == TaskInv /\ ResetHardHandler => TaskInv'
<1> SUFFICES ASSUME TaskInv, ResetHardHandler PROVE TaskInv'
  OBVIOUS
<1> USE DEF ResetHardHandler, PowerOn
<1>1. locked' \in BOOLEAN /\ unsafe' \in BOOLEAN /\ frozen' \in BOOLEAN
      /\ dpOwed' \in BOOLEAN /\ screenOwed' \in BOOLEAN
  BY Zenon
<1>2. yields' \in 0 .. MaxYields /\ pending' \in [Kinds -> Nat]
  BY RspTaskAssumption
<1>3. TypeOK'
  BY <1>1, <1>2 DEF TaskInv, TypeOK, TaskStates
<1>4. LockTracksTask'
  BY DEF LockTracksTask
<1>5. Settled(status, mi, pending["SP_INT"], task)'
      /\ Kept(mi, pending["DP_INT"], frozen, unfreeze, dpOwed, screenOwed)'
  BY DEF Settled, Kept, Kinds
<1> QED BY <1>3, <1>4, <1>5 DEF TaskInv, SavedOK

\* A state is saved only without a locked task.
LEMMA SaveInv == TaskInv /\ SavestatesSave => TaskInv'
<1> SUFFICES ASSUME TaskInv, SavestatesSave PROVE TaskInv'
  OBVIOUS
<1> DEFINE s == [status |-> status, mi |-> mi, pending |-> pending, frozen |-> frozen,
                 unfreeze |-> unfreeze, task |-> task, yields |-> yields,
                 dpOwed |-> dpOwed, screenOwed |-> screenOwed]
<1>1. saved' = s /\ ~unsafe
      /\ UNCHANGED <<status, locked, unsafe, task, yields, frozen, unfreeze, dpOwed,
                     screenOwed, mi, pending>>
  BY DEF SavestatesSave, MaySave, rspVars, rdpVars
<1>2. s \in Snapshots
  BY DEF TaskInv, TypeOK, Snapshots
<1>3. s.task \in {"none", "done"}
  BY <1>1 DEF TaskInv, LockTracksTask, TypeOK, TaskStates
<1>4. Settled(s.status, s.mi, s.pending["SP_INT"], s.task)
      /\ Kept(s.mi, s.pending["DP_INT"], s.frozen, s.unfreeze, s.dpOwed, s.screenOwed)
  BY DEF TaskInv
<1> HIDE DEF s
<1>5. SavedOK'
  BY <1>1, <1>2, <1>3, <1>4 DEF SavedOK
<1>6. TypeOK'
  BY <1>1, <1>2 DEF TaskInv, TypeOK
<1> QED BY <1>1, <1>5, <1>6 DEF TaskInv, LockTracksTask

\* A load brings back a state without a locked task, and unlocks.
LEMMA LoadInv == TaskInv /\ SavestatesLoad => TaskInv'
<1> SUFFICES ASSUME TaskInv, SavestatesLoad PROVE TaskInv'
  OBVIOUS
<1>1. /\ saved \in Snapshots /\ saved.task \in {"none", "done"}
      /\ Settled(saved.status, saved.mi, saved.pending["SP_INT"], saved.task)
      /\ Kept(saved.mi, saved.pending["DP_INT"], saved.frozen, saved.unfreeze,
              saved.dpOwed, saved.screenOwed)
  BY DEF TaskInv, SavedOK, SavestatesLoad
<1>2. locked' \in BOOLEAN /\ unsafe' \in BOOLEAN
  BY Zenon DEF SavestatesLoad
<1>3. TypeOK'
  BY <1>1, <1>2 DEF SavestatesLoad, TypeOK, Snapshots
<1>4. LockTracksTask'
  BY <1>1 DEF SavestatesLoad, LockTracksTask
<1>5. Settled(status, mi, pending["SP_INT"], task)'
      /\ Kept(mi, pending["DP_INT"], frozen, unfreeze, dpOwed, screenOwed)'
  BY <1>1 DEF SavestatesLoad
<1> QED BY <1>3, <1>4, <1>5 DEF TaskInv, SavedOK, SavestatesLoad

LEMMA NextTask == TaskInv /\ [Next]_vars => TaskInv'
<1> SUFFICES ASSUME TaskInv, [Next]_vars PROVE TaskInv'
  OBVIOUS
<1>1. ASSUME NEW w \in Writes, WriteSpStatus(w) PROVE TaskInv'
  BY <1>1, WriteInv, RspTaskAssumption DEF WriteSpStatus
<1>2. CASE AckSp
  <2>1. Ack \in WriteValues
    BY DEF Ack, WriteValues, Bit
  <2> QED BY <1>2, <2>1, WriteInv DEF AckSp
<1>3. CASE UNCHANGED vars
  BY <1>3 DEF vars, TaskInv, TypeOK, LockTracksTask, Settled, Kept, SavedOK
<1> QED
  BY <1>1, <1>2, <1>3, SpIntInv, RdpInv, NmiInv, ResetInv, SaveInv, LoadInv DEF Next

LEMMA TaskInvariant == Spec => []TaskInv
  BY InitTask, NextTask, PTL DEF Spec

\* The variables have their types.
THEOREM TypeTheorem == Spec => []TypeOK
<1>1. TaskInv => TypeOK
  BY DEF TaskInv
<1> QED BY <1>1, TaskInvariant, PTL

\* INTR_UNSAFE_RSP holds saves, loads and resets back exactly while the plugin has an
\* unfinished task, through resets, saves and loads.
THEOREM LockTheorem == Spec => []LockTracksTask
<1>1. TaskInv => LockTracksTask
  BY DEF TaskInv
<1> QED BY <1>1, TaskInvariant, PTL

\* A task that the program waits for always has its SP_INT coming, or the interrupt up
\* whose acknowledgement resumes it, and never two SP_INT events wait.
THEOREM ProgressTheorem == Spec => []TaskMakesProgress
<1>1. TaskInv => TaskMakesProgress
  BY DEF TaskInv, Settled, TaskMakesProgress
<1> QED BY <1>1, TaskInvariant, PTL

\* The program sees HALT only when no task is unfinished or unreported.
THEOREM HaltTheorem == Spec => []HaltMeansDone
<1>1. TaskInv => HaltMeansDone
  BY DEF TaskInv, Settled, HaltMeansDone
<1> QED BY <1>1, TaskInvariant, PTL

\* Freezing the RDP delays its interrupt and the screen update, and loses neither,
\* whatever resets, saves and loads come in between.
THEOREM FreezeTheorem == Spec => []FreezeLosesNothing
<1>1. TaskInv => FreezeLosesNothing
  BY DEF TaskInv, Kept, FreezeLosesNothing, DpNotLost, ScreenNotLost
<1> QED BY <1>1, TaskInvariant, PTL

=============================================================================
