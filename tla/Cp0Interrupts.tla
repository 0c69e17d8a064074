--------------------------- MODULE Cp0Interrupts ---------------------------
(***************************************************************************)
(* How the emulated R4300 takes its interrupts: the handlers of            *)
(* src/device/r4300/interrupt.c, the CP0 instructions that schedule or     *)
(* mask them (mips_instructions.def), and the points of the interpreter    *)
(* at which gen_interrupt is called (the DECLARE_JUMP of pure_interp.c).   *)
(*                                                                         *)
(* The CPU runs blocks of instructions that end in a jump.  Inside a block *)
(* a register access may schedule a device event, signal or clear an RCP   *)
(* interrupt, or write a CP0 register; at its end, and in the few          *)
(* instructions that say so, cycle_count >= 0 calls gen_interrupt, which   *)
(* handles ONE event.  Two requests come from the front-end: soft reset    *)
(* and hard reset.                                                         *)
(***************************************************************************)
EXTENDS EventQueue, FiniteSets

CONSTANTS
    DeviceEvents,  \* events of the RCP devices: PI_INT, SI_INT, AI_INT, ...
    Delays,        \* the delays with which devices schedule them
    ViDelay,       \* vi->delay, one video frame, once VI_V_SYNC_REG is written
    NmiDelay,      \* the half second before the NMI of a soft reset
    PowerOnCount,  \* CP0_COUNT_REG at power on (0x5000)
    StatusValues,  \* what MTC0 Status writes: [ie, exl, erl, im]
    CompareSteps,  \* how far from Count MTC0 Compare sets the timer
    CountValues,   \* what MTC0 Count writes
    MaxOps,        \* bound: instructions in a block
    MaxLate,       \* bound: how late an event may be when a block goes on
    Hle,           \* is the boot ROM emulated at a high level, as by default?
    ViRunning,     \* has the game programmed the video interface already?
    AtBoundary,    \* may the very first instruction of a block touch the queue?
    SignalWhenDue, \* may an RCP interrupt be signalled while an event is due?
    Loads,         \* are states saved and loaded?
    Resets         \* are soft and hard resets requested?

ASSUME DelayAssumption == /\ Delays \subseteq 1 .. Half - 1
                          /\ ViDelay \in 1 .. Half - 1
                          /\ NmiDelay \in 1 .. Half - 1
ASSUME PowerOnAssumption == PowerOnCount \in 1 .. Half - 1
ASSUME WriteAssumption == /\ CompareSteps \subseteq 0 .. Wrap - 1
                          /\ CountValues \subseteq 0 .. Wrap - 1
ASSUME BoundAssumption == /\ MaxOps \in Nat \ {0} /\ MaxLate \in Nat
                          /\ ViRunning \in BOOLEAN /\ AtBoundary \in BOOLEAN
                          /\ SignalWhenDue \in BOOLEAN /\ Hle \in BOOLEAN
                          /\ Loads \in BOOLEAN /\ Resets \in BOOLEAN

\* The interrupt pending bits that the emulator sets: RCP, PIF (HW2) and timer.
IPs == {"IP2", "IP4", "IP7"}

ASSUME StatusAssumption ==
    StatusValues \subseteq [ie : BOOLEAN, exl : BOOLEAN, erl : BOOLEAN,
                            im : SUBSET IPs]
ASSUME DeviceAssumption ==
    DeviceEvents \cap {"VI_INT", "COMPARE_INT", "CHECK_INT", "SPECIAL_INT",
                       "HW2_INT", "NMI_INT"} = {}

VARIABLES
    r4300, \* the CPU: see TypeOK
    ops,   \* instructions run since the last jump
    first  \* no instruction has updated Count since the last jump or exception

vars == <<r4300, ops, first>>

EventTypes == DeviceEvents \cup {"VI_INT", "COMPARE_INT", "CHECK_INT",
                                 "SPECIAL_INT", "HW2_INT", "NMI_INT"}

-----------------------------------------------------------------------------
\* Interrupts are enabled, and some pending one is not masked.
Unmasked(s) == s.ie /\ ~s.exl /\ ~s.erl /\ s.im \cap s.cause # {}

\* exception_general.  In a branch delay slot exception_epilog makes the end of
\* the jump call gen_interrupt again, to go to the exception vector after all.
\* took is a history field: an exception has just been taken.
ExceptionGeneral(s, slot) ==
    LET entered == [s EXCEPT !.exl = TRUE, !.took = TRUE]
    IN  IF slot
        THEN [entered EXCEPT !.skip = TRUE, !.next = 0, !.cycle = 0]
        ELSE entered

\* raise_maskable_interrupt
RaiseMaskable(s, ip, slot) ==
    LET raised == [s EXCEPT !.cause = @ \cup {ip}]
    IN  IF Unmasked(raised) THEN ExceptionGeneral(raised, slot) ELSE raised

\* r4300_check_interrupt: an unmasked interrupt becomes a CHECK_INT event at the
\* front of the queue, due now, whatever else is due.
\* CheckInterrupt_NoCycle adds the node and forgets cycle_count.
CheckInterrupt_NoCycle(s, ip, set) ==
    LET c == [s EXCEPT !.cause = IF set THEN @ \cup {ip} ELSE @ \ {ip}]
    IN  IF ~Unmasked(c) \/ Len(c.q) >= Capacity
        THEN c
        ELSE [c EXCEPT !.q = <<Event("CHECK_INT", c.count, 0)>> \o c.q]

CheckInterrupt(s, ip, set) ==
    LET c == [s EXCEPT !.cause = IF set THEN @ \cup {ip} ELSE @ \ {ip}]
    IN  IF ~Unmasked(c) \/ Len(c.q) >= Capacity
        THEN c
        ELSE [c EXCEPT !.q = <<Event("CHECK_INT", c.count, 0)>> \o c.q,
                       !.next = c.count, !.cycle = 0]

-----------------------------------------------------------------------------
(* The handlers.  A device handler is given by what it asks of the CPU:    *)
(* h.again, the delay of the event it schedules next (0: none), and        *)
(* h.raise, whether MI_INTR_MASK_REG lets its interrupt through.           *)

Responses == [again : Delays \cup {0}, raise : BOOLEAN]

\* raise_rcp_interrupt; rcp stands for MI_INTR_REG & MI_INTR_MASK_REG != 0.
RaiseRcp(s, raise, slot) ==
    IF raise \/ s.rcp
    THEN RaiseMaskable([s EXCEPT !.rcp = TRUE], "IP2", slot)
    ELSE s

DeviceHandler(s, type, h, slot) ==
    LET done == RemoveFirstEvent(s)
    IN  RaiseRcp(IF h.again = 0 THEN done ELSE AddEvent(done, type, h.again),
                 h.raise, slot)

\* vi_vertical_interrupt_event: the next one is due a frame after this one was
\* due, not after it was handled.
ViHandler(s, h, slot) ==
    LET vi == s.q[1]
        again == AddEventCount(RemoveFirstEvent(s), "VI_INT",
                               Mod(vi.count + s.vi), vi.left + s.vi)
    IN  RaiseRcp(again, h.raise, slot)

\* The timer interrupt is raised but not armed again.
CompareIntHandler_Once(s, slot) ==
    RaiseMaskable(RemoveFirstEvent(s), "IP7", slot)

CompareIntHandler(s, slot) ==
    RaiseMaskable(AddCompare(RemoveFirstEvent(s), s.compare), "IP7", slot)

CheckIntHandler(s, slot) == ExceptionGeneral(RemoveFirstEvent(s), slot)

SpecialIntHandler(s) == AddSpecial(RemoveFirstEvent(s))

Hw2IntHandler(s, slot) == RaiseMaskable(RemoveFirstEvent(s), "IP4", slot)

\* pif_bootrom_hle_execute writes Status, stops RSP and PI and blanks the screen,
\* which clears their interrupts; raise says whether another one is left.  Without
\* it the boot ROM itself runs, with ERL set.
BootromExecute(s, raise) ==
    LET rcp == s.rcp /\ raise
    IN  IF Hle
        THEN [s EXCEPT !.ie = FALSE, !.exl = FALSE, !.erl = FALSE, !.im = {},
                       !.rcp = rcp, !.cause = IF rcp THEN {"IP2"} ELSE {}]
        ELSE s

\* nmi_int_handler: Count starts again at 0 and every event is dropped, but the
\* video interrupt, which is scheduled anew after vi->delay.
\* NmiIntHandler_Rearmed schedules the reset again.
NmiIntHandler_Rearmed(s, h) ==
    LET reset  == [RemoveFirstEvent(s) EXCEPT !.erl = TRUE, !.cause = {}]
        booted == [BootromExecute(reset, h.raise) EXCEPT !.count = 0]
        vi     == AddEvent(InitInterrupt(booted), "VI_INT", s.vi)
    IN  AddEvent(vi, "NMI_INT", NmiDelay)

NmiIntHandler(s, h) ==
    LET reset  == [RemoveFirstEvent(s) EXCEPT !.erl = TRUE, !.cause = {}]
        booted == [BootromExecute(reset, h.raise) EXCEPT !.count = 0]
    IN  AddEvent(InitInterrupt(booted), "VI_INT", s.vi)

\* poweron_device, as far as the CPU, MI and vi->delay go.
\* PowerOn_KeepsJob leaves reset_hard_job set.
PowerOn_KeepsJob ==
    InitInterrupt(
        [count |-> PowerOnCount, compare |-> 0, cycle |-> 0, next |-> 0,
         q |-> <<>>, ie |-> FALSE, exl |-> FALSE, erl |-> FALSE, im |-> {},
         cause |-> {}, rcp |-> FALSE, vi |-> 0, skip |-> FALSE, resetJob |-> TRUE,
         stop |-> FALSE, took |-> FALSE])

PowerOn ==
    InitInterrupt(
        [count |-> PowerOnCount, compare |-> 0, cycle |-> 0, next |-> 0,
         q |-> <<>>, ie |-> FALSE, exl |-> FALSE, erl |-> FALSE, im |-> {},
         cause |-> {}, rcp |-> FALSE, vi |-> 0, skip |-> FALSE, resetJob |-> FALSE,
         stop |-> FALSE, took |-> FALSE])

\* gen_interrupt.  unsafe stands for interrupt_unsafe_state, which holds back
\* resets (and savestates) while an instruction is half done.
GenInterrupt(s, slot, unsafe, h) ==
    LET type == s.q[1].type
    IN  CASE s.resetJob /\ ~unsafe -> PowerOn
          [] ~(s.resetJob /\ ~unsafe) /\ s.skip ->
                Sync([s EXCEPT !.skip = FALSE])
          [] OTHER ->
                CASE type = "VI_INT"      -> ViHandler(s, h, slot)
                  [] type = "COMPARE_INT" -> CompareIntHandler(s, slot)
                  [] type = "CHECK_INT"   -> CheckIntHandler(s, slot)
                  [] type = "SPECIAL_INT" -> SpecialIntHandler(s)
                  [] type = "HW2_INT"     -> Hw2IntHandler(s, slot)
                  [] type = "NMI_INT"     -> NmiIntHandler(s, h)
                  [] OTHER                -> DeviceHandler(s, type, h, slot)

\* The test that precedes every call of gen_interrupt.
GenIfDue(s, slot, unsafe, h) ==
    IF s.cycle >= 0 THEN GenInterrupt(s, slot, unsafe, h) ELSE s

-----------------------------------------------------------------------------
\* Power on, or the moment just after the game's first write of VI_V_SYNC_REG.
Init ==
    /\ r4300 = IF ViRunning THEN AddEvent([PowerOn EXCEPT !.vi = ViDelay], "VI_INT", ViDelay)
               ELSE PowerOn
    /\ ops = 0
    /\ first = TRUE

\* An instruction of the current block that updates Count, n instructions after
\* the last one that did.  Nothing follows an exception taken in a delay slot.
InBlock(n) ==
    /\ ~r4300.stop /\ ~r4300.skip
    /\ \A i \in 1 .. Len(r4300.q) : r4300.q[i].left >= -MaxLate
    /\ ops + n <= MaxOps
    /\ n > 0 \/ (first /\ AtBoundary)

Ran(n) == ops' = ops + n /\ first' = r4300'.took

\* The CPU state when that instruction starts.
Now(n) == UpdateCount([r4300 EXCEPT !.took = FALSE], n)

\* A register write starts a DMA or a task: cp0_update_count, then
\* add_interrupt_event.  The busy bits admit one event per device.
Schedule(n, type, delay) ==
    /\ InBlock(n)
    /\ ~HasEvent(r4300, type)
    /\ r4300' = AddEvent(Now(n), type, delay)
    /\ Ran(n)

\* A write of VI_V_SYNC_REG sets vi->delay, and set_vi_vertical_interrupt, which a
\* write of VI_V_INTR_REG calls too, schedules the first VI_INT ...
SetViVerticalInterrupt(n) ==
    /\ InBlock(n)
    /\ ~HasEvent(r4300, "VI_INT")
    /\ r4300' = AddEvent([Now(n) EXCEPT !.vi = ViDelay], "VI_INT", ViDelay)
    /\ Ran(n)

\* ... unless one is queued, or VI_V_INTR_REG is not below VI_V_SYNC_REG.
WriteViVSync ==
    /\ ~r4300.stop /\ ~r4300.skip
    /\ r4300.vi = 0
    /\ r4300' = [Now(0) EXCEPT !.vi = ViDelay]
    /\ UNCHANGED <<ops, first>>

\* signal_rcp_interrupt and clear_rcp_interrupt: rcp becomes some, the new
\* MI_INTR_REG & MI_INTR_MASK_REG != 0.  Count is not updated here.
SignalRcpInterrupt(some) ==
    /\ ~r4300.stop /\ ~r4300.skip
    /\ r4300.rcp => some
    /\ SignalWhenDue \/ r4300.cycle < 0
    /\ r4300' = CheckInterrupt([Now(0) EXCEPT !.rcp = some], "IP2", some)
    /\ UNCHANGED <<ops, first>>

ClearRcpInterrupt(some) ==
    /\ ~r4300.stop /\ ~r4300.skip
    /\ some => r4300.rcp
    /\ SignalWhenDue \/ r4300.cycle < 0
    /\ r4300' = CheckInterrupt([Now(0) EXCEPT !.rcp = some], "IP2", some)
    /\ UNCHANGED <<ops, first>>

\* write_mi_regs, MI_INTR_MASK_REG
WriteMiIntrMask(n, some, slot, h) ==
    /\ InBlock(n)
    /\ LET checked == CheckInterrupt([Now(0) EXCEPT !.rcp = some], "IP2", some)
       IN  r4300' = GenIfDue(UpdateCount(checked, n), slot, FALSE, h)
    /\ Ran(n)

\* MTC0 to Count.  (In a delay slot the exception taken here would be undone by
\* the queue translation that follows; compilers do not place it there.)
Mtc0Count(n, value, h) ==
    /\ InBlock(n)
    /\ r4300' = TranslateEventQueue(GenIfDue(Now(n), FALSE, TRUE, h), value)
    /\ Ran(n)

\* MTC0 to Compare acknowledges the timer interrupt.
\* Mtc0Compare_AddFirst arms the timer anew before it takes the old node out.
Mtc0Compare_AddFirst(n, step) ==
    /\ InBlock(n)
    /\ LET now   == Now(n)
           value == Mod(now.count + step)
       IN  r4300' = Sync([RemoveEvent(AddCompare(now, value), "COMPARE_INT") EXCEPT
                             !.compare = value, !.cause = @ \ {"IP7"}])
    /\ Ran(n)

Mtc0Compare(n, step) ==
    /\ InBlock(n)
    /\ LET now   == Now(n)
           value == Mod(now.count + step)
       IN  r4300' = AddCompare([RemoveEvent(now, "COMPARE_INT") EXCEPT
                                   !.compare = value, !.cause = @ \ {"IP7"}], value)
    /\ Ran(n)

\* MTC0 to Status masks or unmasks interrupts, and looks at the pending ones.
\* Mtc0Status_NoCheck does not look at the pending ones.
Mtc0Status_NoCheck(n, v, slot, h) ==
    /\ InBlock(n)
    /\ LET set == [Now(n) EXCEPT !.ie = v.ie, !.exl = v.exl, !.erl = v.erl,
                                 !.im = v.im]
       IN  r4300' = GenIfDue(set, slot, TRUE, h)
    /\ Ran(n)

Mtc0Status(n, v, slot, h) ==
    /\ InBlock(n)
    /\ LET set == [Now(n) EXCEPT !.ie = v.ie, !.exl = v.exl, !.erl = v.erl,
                                 !.im = v.im]
       IN  r4300' = GenIfDue(CheckInterrupt(set, "IP2", set.rcp),
                             slot, TRUE, h)
    /\ Ran(n)

\* ERET; with ERL set it stops the emulator.  Like a jump it looks for due
\* events, so the bound on a block starts again.
Eret(n, h) ==
    /\ InBlock(n)
    /\ ops' = 0 /\ first' = TRUE
    /\ LET now == Now(n)
           ret == IF now.erl THEN [now EXCEPT !.stop = TRUE]
                  ELSE [now EXCEPT !.exl = FALSE]
       IN  r4300' = GenIfDue(CheckInterrupt(ret, "IP2", ret.rcp),
                             FALSE, FALSE, h)

\* The end of a jump.
EndBlock(n, h) ==
    /\ ~r4300.stop
    /\ ops + n \in 1 .. MaxOps \/ (r4300.skip /\ n = 0)
    /\ ops' = 0 /\ first' = TRUE
    /\ r4300' = GenIfDue(Now(n), FALSE, FALSE, h)

\* An idle loop moves Count to the next event, then runs the jump and its delay slot.
SkipIdle(s) ==
    IF s.cycle >= 0 THEN s
    ELSE [s EXCEPT !.count = Mod(s.count - s.cycle), !.cycle = 0,
                   !.q = [i \in 1 .. Len(s.q) |->
                             [s.q[i] EXCEPT !.left = Nearer(@, 0 - s.cycle)]]]

IdleLoop(h) ==
    /\ ~r4300.stop /\ ~r4300.skip
    /\ ops' = 0 /\ first' = TRUE
    /\ r4300' = GenIfDue(UpdateCount(SkipIdle(Now(0)), 2), FALSE, FALSE, h)

\* A state is saved at the end of gen_interrupt and, at the start of a later
\* call, loaded.  A load replaces Count, the CP0 registers and the queue by what
\* the save wrote, whatever happened in between, so that the two are one step
\* here; cycle_count is not saved and next_interrupt is written twice.
LoadSaved(n, h) ==
    /\ Loads /\ ~r4300.stop /\ ~r4300.skip /\ ~r4300.resetJob
    /\ ops + n \in 1 .. MaxOps
    /\ LET now   == Now(n)
           saved == GenInterrupt(now, FALSE, FALSE, h)
       IN  /\ now.cycle >= 0
           /\ r4300' = LoadEventQueue(saved, saved.q)
    /\ ops' = 0 /\ first' = TRUE

\* soft_reset_device: HW2 now, NMI later.  One at a time is a bound.
SoftResetDevice ==
    /\ Resets /\ ~r4300.stop /\ ~HasEvent(r4300, "NMI_INT")
    /\ ~HasEvent(r4300, "HW2_INT")
    /\ r4300' = AddEvent(AddEvent(Now(0), "HW2_INT", 0), "NMI_INT", NmiDelay)
    /\ UNCHANGED <<ops, first>>

\* hard_reset_device leaves a flag for the next gen_interrupt.
HardResetDevice ==
    /\ Resets /\ ~r4300.stop /\ ~r4300.resetJob
    /\ r4300' = [Now(0) EXCEPT !.resetJob = TRUE]
    /\ UNCHANGED <<ops, first>>

\* stop_device: the interpreter loop ends.
StopDevice ==
    /\ Resets /\ ~r4300.stop
    /\ r4300' = [Now(0) EXCEPT !.stop = TRUE]
    /\ UNCHANGED <<ops, first>>

-----------------------------------------------------------------------------
\* The answers that make a difference to the handler of the first event.
Answers ==
    LET type == r4300.q[1].type
    IN  {h \in Responses : /\ type \notin DeviceEvents => h.again = 0
                           /\ type \notin DeviceEvents \cup {"VI_INT", "NMI_INT"}
                                  => ~h.raise}

Run == \E h \in Answers : \/ \E n \in 0 .. MaxOps : EndBlock(n, h)
                           \/ IdleLoop(h)

Next ==
    \/ Run
    \/ \E n \in 0 .. MaxOps :
          \/ \E type \in DeviceEvents, delay \in Delays : Schedule(n, type, delay)
          \/ SetViVerticalInterrupt(n)
          \/ \E step \in CompareSteps : Mtc0Compare(n, step)
          \/ \E h \in Answers :
                \/ \E some, slot \in BOOLEAN : WriteMiIntrMask(n, some, slot, h)
                \/ \E v \in StatusValues, slot \in BOOLEAN :
                      Mtc0Status(n, v, slot, h)
                \/ \E value \in CountValues : Mtc0Count(n, value, h)
                \/ Eret(n, h)
                \/ LoadSaved(n, h)
    \/ \E some \in BOOLEAN : SignalRcpInterrupt(some) \/ ClearRcpInterrupt(some)
    \/ WriteViVSync
    \/ SoftResetDevice
    \/ HardResetDevice
    \/ StopDevice

Spec == Init /\ [][Next]_vars

\* The interpreter never stops running blocks: the loop of run_pure_interpreter.
\* Run is enabled until the emulator stops, so this is weak fairness of Run.
FairSpec == Spec /\ ([]<><<Run>>_vars \/ <>r4300.stop)

-----------------------------------------------------------------------------
(* Properties *)

\* The types of the CPU state; left and took are history fields.
TypeOK ==
    /\ r4300.count \in 0 .. Wrap - 1
    /\ r4300.compare \in 0 .. Wrap - 1
    /\ r4300.next \in 0 .. Wrap - 1
    /\ r4300.cycle \in -Half .. Half - 1
    /\ r4300.q \in Seq([type : EventTypes, count : 0 .. Wrap - 1, left : Int])
    /\ Len(r4300.q) <= Capacity
    /\ r4300.vi \in {0, ViDelay}
    /\ r4300.im \in SUBSET IPs /\ r4300.cause \in SUBSET IPs
    /\ \A f \in {"ie", "exl", "erl", "rcp", "skip", "resetJob", "stop"} :
          r4300[f] \in BOOLEAN
    /\ r4300.took \in BOOLEAN
    /\ ops \in 0 .. MaxOps /\ first \in BOOLEAN

Positions(type) == {i \in 1 .. Len(r4300.q) : r4300.q[i].type = type}

\* Both timers are queued exactly once and for the right Count, whatever was scheduled,
\* dropped for want of a node, translated or reset.  SPECIAL_INT, the guard against the
\* wrap-around, is due at a multiple of half a lap and at most half a lap away; the timer
\* is due at Compare, but for the first time after nmi_int_handler, which arms it for 0
\* and leaves Compare as it is.
TimersArmed ==
    /\ \A type \in {"SPECIAL_INT", "COMPARE_INT"} : Cardinality(Positions(type)) = 1
    /\ \A i \in Positions("SPECIAL_INT") :
          r4300.q[i].count \in {0, Half} /\ r4300.q[i].left <= Half
    /\ \A i \in Positions("COMPARE_INT") :
          r4300.q[i].count = r4300.compare \/ (Resets /\ r4300.q[i].count = 0)

\* next_interrupt and cycle_count always describe the first event of the queue,
\* although remove_event and the timer code change one without the other.
CycleCountInSync ==
    ~r4300.skip =>
        /\ r4300.next = r4300.q[1].count
        /\ r4300.cycle = Signed(r4300.count - r4300.q[1].count)

\* An event other than the timer is never handled before it is due.
NeverEarly ==
    (r4300.cycle >= 0 /\ ~r4300.skip /\ r4300.q[1].type # "COMPARE_INT")
        => r4300.q[1].left <= 0

\* While any event is due, cycle_count says so.
DueIsSeen ==
    (\E i \in 1 .. Len(r4300.q) : r4300.q[i].left <= 0) => r4300.cycle >= 0

\* e is queued before f.
Precedes(q, e, f) == \E k, l \in 1 .. Len(q) : k < l /\ q[k] = e /\ q[l] = f

\* Loading a state brings back the events that were saved, none lost and none twice,
\* in the order in which they would have been handled, overdue ones and a wrapped
\* Count included: the queue is rebuilt with a cycle_count that was never saved.
LoadRestoresQueue ==
    (Loads /\ ops = 0 /\ ~r4300.skip) =>
        LET q == r4300.q
            u == LoadEventQueue(r4300, q).q
            devices == {i \in 1 .. Len(q) :
                           q[i].type \notin {"SPECIAL_INT", "COMPARE_INT"}}
        IN  /\ Len(u) = Len(q)
            /\ \A i \in devices : \E k \in 1 .. Len(u) : u[k] = q[i]
            /\ \A i, j \in devices : i < j => Precedes(u, q[i], q[j])

\* A timer armed while Count equals Compare waits a whole lap, behind every other event:
\* that is what Count is moved ahead by count_per_op for.  It is not so when the timer
\* fires at a Count at which another event is due as well.
TimerInOrder ==
    \A i \in Positions("COMPARE_INT") :
        (r4300.count = r4300.compare /\ r4300.q[i].left = Wrap) => i = Len(r4300.q)

\* An interrupt that is pending and unmasked has a CHECK_INT event queued: no
\* order of masking, unmasking, signalling and returning from handlers loses it.
NoLostInterrupt == Unmasked(r4300) => HasEvent(r4300, "CHECK_INT")

\* A hard reset asked for by the front-end is carried out: gen_interrupt is
\* reached again although nothing but the clock may be scheduled.
HardResetHappens == r4300.resetJob ~> (~r4300.resetJob \/ r4300.stop)

\* A soft reset ends: the NMI that soft_reset_device scheduled is delivered, or a hard
\* reset overtakes it, once the game has programmed the video interface.  Before that
\* vi->delay is 0, and after one soft reset VI_INT and COMPARE_INT may take turns at the
\* same count for ever, ahead of all other events.
SoftResetHappens == (HasEvent(r4300, "NMI_INT") /\ r4300.vi # 0)
                        ~> (~HasEvent(r4300, "NMI_INT") \/ r4300.stop)
=============================================================================
