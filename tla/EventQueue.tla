----------------------------- MODULE EventQueue -----------------------------
(***************************************************************************)
(* The queue of timed events of the emulated R4300                         *)
(* (src/device/r4300/interrupt.c): a linked list of [type, count] nodes    *)
(* taken from a fixed pool, kept in the order in which the events are due  *)
(* on the 32-bit CP0 Count register, which wraps around.                   *)
(*                                                                         *)
(* The operators below are functions from a CPU state s to a CPU state.    *)
(* They use these fields of s:                                             *)
(*   count   CP0_COUNT_REG, in 0 .. Wrap-1                                 *)
(*   cycle   cycle_count, the signed 32-bit value  Count - first->count    *)
(*   next    next_interrupt                                                *)
(*   q       the list, first node first                                    *)
(*                                                                         *)
(* A node of the model has one field more than a node of the code: left,   *)
(* the true number of cycles until the event is due, negative once it is   *)
(* overdue.  It is a history field: no operation reads it.  The code has   *)
(* only count, and cannot tell an event that is due now from one that is   *)
(* due in 2^32 cycles; left is what the properties compare it with.        *)
(***************************************************************************)
EXTENDS Integers, Sequences, SequencesExt

CONSTANTS
    Wrap,       \* 2^32 in the code: the number of values of CP0_COUNT_REG
    CountPerOp, \* cp0->count_per_op: cycles that one instruction takes
    Capacity    \* INTERRUPT_NODES_POOL_CAPACITY, 16 in the code

ASSUME WrapAssumption == Wrap \in Nat /\ Wrap > 2 /\ Wrap % 2 = 0
ASSUME CountPerOpAssumption == CountPerOp \in 1 .. Wrap - 1
ASSUME CapacityAssumption == Capacity \in Nat /\ Capacity >= 2

Half == Wrap \div 2

\* A result stored in a uint32_t, and one stored in an int32_t.
Mod(x) == x % Wrap
Signed(x) == IF Mod(x) < Half THEN Mod(x) ELSE Mod(x) - Wrap

Event(type, count, left) == [type |-> type, count |-> count, left |-> left]

-----------------------------------------------------------------------------
\* before_event: both counts are measured from the current Count, or from the
\* count of the first event when that one is already overdue.
\* Base_CountOnly measures from Count even then.
Base_CountOnly(s) == s.count

Base(s) == IF s.cycle > 0 THEN s.count - s.cycle ELSE s.count

BeforeEvent(s, evt1, evt2) == Mod(evt1 - Base(s)) < Mod(evt2 - Base(s))

\* The place of a new event: before the first event that is due after it.
InsertPos(s, count) ==
    LET later == SelectInSeq(s.q, LAMBDA e : BeforeEvent(s, count, e.count))
    IN  IF later = 0 THEN Len(s.q) + 1 ELSE later

\* next_interrupt and cycle_count as every change of the first node sets them.
Sync(s) ==
    IF s.q = <<>>
    THEN [s EXCEPT !.next = 0, !.cycle = 0]
    ELSE [s EXCEPT !.next = s.q[1].count,
                   !.cycle = Signed(s.count - s.q[1].count)]

\* add_interrupt_event_count: nothing but an error message when the pool is
\* empty.  It warns of, but accepts, a second event of the same type.
AddEventCount(s, type, count, left) ==
    IF Len(s.q) >= Capacity
    THEN s
    ELSE Sync([s EXCEPT !.q = InsertAt(s.q, InsertPos(s, count),
                                       Event(type, count, left))])

\* add_interrupt_event
AddEvent(s, type, delay) == AddEventCount(s, type, Mod(s.count + delay), delay)

\* remove_interrupt_event takes the first node; remove_event takes the first
\* node of a type, and leaves next_interrupt and cycle_count as they are.
RemoveFirstEvent(s) == Sync([s EXCEPT !.q = Tail(s.q)])

RemoveEvent(s, type) ==
    [s EXCEPT !.q = RemoveFirstMatch(s.q, LAMBDA e : e.type = type)]

\* get_event, as far as its users test it against NULL.
HasEvent(s, type) == \E i \in 1 .. Len(s.q) : s.q[i].type = type

-----------------------------------------------------------------------------
\* SPECIAL_INT is always re-armed at the next multiple of 2^31.
AddSpecial(s) ==
    AddEventCount(s, "SPECIAL_INT", IF s.count < Half THEN Half ELSE 0,
                  Half - (s.count % Half))

\* The four lines that arm the timer, with Count moved one instruction ahead
\* so that a Compare equal to Count is a whole lap away.
AddCompare(s, compare) ==
    LET ahead == [s EXCEPT !.count = Mod(s.count + CountPerOp),
                           !.cycle = Signed(s.cycle + CountPerOp)]
        lap   == Mod(compare - ahead.count) + CountPerOp
        added == AddEventCount(ahead, "COMPARE_INT", compare, lap)
    IN  [added EXCEPT !.count = s.count,
                      !.cycle = Signed(s.count - added.q[1].count)]

\* translate_event_queue (MTC0 to Count): SPECIAL_INT and COMPARE_INT are armed
\* anew, every other event keeps its distance from Count.
\* TranslateEventQueue_NoMove leaves the other events at their old counts.
TranslateEventQueue_NoMove(s, base) ==
    LET kept  == RemoveEvent(RemoveEvent(s, "COMPARE_INT"), "SPECIAL_INT")
        moved == [kept EXCEPT !.count = base]
    IN  AddCompare(AddSpecial(moved), s.compare)

TranslateEventQueue(s, base) ==
    LET kept  == RemoveEvent(RemoveEvent(s, "COMPARE_INT"), "SPECIAL_INT")
        moved == [kept EXCEPT
                     !.q = [i \in 1 .. Len(kept.q) |->
                               [kept.q[i] EXCEPT
                                   !.count = Mod(@ - s.count + base)]],
                     !.count = base]
    IN  AddCompare(AddSpecial(moved), s.compare)

\* init_interrupt
InitInterrupt(s) ==
    LET special == AddEventCount([s EXCEPT !.q = <<>>], "SPECIAL_INT", Half,
                                 Mod(Half - s.count))
    IN  AddEventCount(special, "COMPARE_INT", 0, Mod(0 - s.count))

\* load_eventqueue_infos: the saved nodes are added one by one, in their saved
\* order, to an empty queue; SPECIAL_INT is armed anew.
\* LoadEventQueue_NoClear adds them to the queue there is.
LoadEventQueue_NoClear(s, saved) ==
    LET add(t, e) == AddEventCount(t, e.type, e.count, e.left)
    IN  AddSpecial(RemoveEvent(FoldLeft(add, s, saved), "SPECIAL_INT"))

LoadEventQueue(s, saved) ==
    LET loaded[n \in 0 .. Len(saved)] ==
            IF n = 0 THEN [s EXCEPT !.q = <<>>]
            ELSE AddEventCount(loaded[n - 1], saved[n].type, saved[n].count,
                               saved[n].left)
    IN  AddSpecial(RemoveEvent(loaded[Len(saved)], "SPECIAL_INT"))

\* The true distance of an event when d cycles have passed.  An event that is late by
\* whole laps counts as late by the rest only, which keeps the history bounded.
Nearer(left, d) == IF left - d > -Wrap THEN left - d ELSE -((d - left) % Wrap)

\* cp0_update_count: n more instructions have run.
\* UpdateCount_NoWrap forgets that Count has 32 bits.
UpdateCount_NoWrap(s, n) ==
    LET cycles == n * CountPerOp
    IN  [s EXCEPT !.count = s.count + cycles,
                  !.cycle = Signed(s.cycle + cycles),
                  !.q = [i \in 1 .. Len(s.q) |->
                            [s.q[i] EXCEPT !.left = Nearer(@, cycles)]]]

UpdateCount(s, n) ==
    LET cycles == n * CountPerOp
    IN  [s EXCEPT !.count = Mod(s.count + cycles),
                  !.cycle = Signed(s.cycle + cycles),
                  !.q = [i \in 1 .. Len(s.q) |->
                            [s.q[i] EXCEPT !.left = Nearer(@, cycles)]]]
=============================================================================
