------------------------------- MODULE RcpDma -------------------------------
(***************************************************************************)
(* The DMA engines of the RCP (src/device/rcp): the parallel (PI), serial  *)
(* (SI) and audio (AI) interfaces and the DMA of the signal processor (SP).*)
(*                                                                         *)
(* A register write of the program starts a transfer, marks the engine     *)
(* busy and schedules an event; the handler of that event marks it idle    *)
(* again, or starts the transfer waiting in the FIFO.  A busy engine       *)
(* refuses work, so an engine whose event is lost is dead.                 *)
(*                                                                         *)
(* The queue of events is the bag of those that wait: when each is due     *)
(* depends on lengths and clocks, so they may come in any order (their     *)
(* order in time is the subject of EventQueue).  The interrupts that the   *)
(* handlers raise in MI and the program acknowledges are the subject of    *)
(* Cp0Interrupts.  The error and interrupt bits of the status registers    *)
(* are there for the program to read and decide nothing, and are left out; *)
(* bytes are abstracted to what is transferred once, twice or never.       *)
(***************************************************************************)
EXTENDS Integers, FiniteSets

CONSTANTS
    Lengths,     \* lengths of audio buffers, in units of 8 bytes
    PoolFree,    \* nodes of the event pool that other events leave free
    Hle,         \* the boot ROM is emulated at a high level (the default)
    MaxPending   \* bound on the events of one kind that may wait

ASSUME RcpDmaAssumption ==
    /\ Lengths \subseteq Nat
    /\ PoolFree \in Nat /\ MaxPending \in Nat \ {0}
    /\ Hle \in BOOLEAN

VARIABLES
    pi,        \* PI_STATUS_REG: subset of {"dma", "io"}
    si,        \* SI_STATUS_REG: likewise
    siDir,     \* dma_dir
    ai,        \* AI_STATUS_REG: subset of {"busy", "full"}
    fifo,      \* lengths of the two audio buffers
    lastRead,  \* last_read: what is left to play of fifo[0]
    sp,        \* SP_DMA_BUSY_REG and SP_DMA_FULL_REG, and their status bits
    pending,   \* how many events of each kind wait
    siOwed,    \* a read was accepted and its data are not in RDRAM (history)
    siCut,     \* a soft reset cut off the transfer that SI is busy with (history)
    aiLeft,    \* parts of the playing buffer not played yet (history)
    aiGlitch,  \* a part was played twice, or not at all (history)
    aiCut,     \* a soft reset cut off a buffer that was playing (history)
    spOwed,    \* SP transfers accepted and not made yet (history)
    spCut      \* a soft reset cut off the transfer that SP is busy with (history)

piVars == <<pi>>
siVars == <<si, siDir, siOwed, siCut>>
aiVars == <<ai, fifo, lastRead, aiLeft, aiGlitch, aiCut>>
spVars == <<sp, spOwed, spCut>>
vars == <<piVars, siVars, aiVars, spVars, pending>>

Kinds == {"PI_INT", "SI_INT", "AI_INT", "RSP_DMA_EVT"}

TypeOK ==
    /\ pi \subseteq {"dma", "io"} /\ si \subseteq {"dma", "io"}
    /\ siDir \in {"none", "read", "write"}
    /\ ai \subseteq {"busy", "full"} /\ ("full" \in ai => "busy" \in ai)
    /\ fifo \in [{0, 1} -> Lengths \cup {0}]
    /\ lastRead \in 0 .. fifo[0]
    /\ sp \subseteq {"busy", "full"} /\ ("full" \in sp => "busy" \in sp)
    /\ pending \in [Kinds -> 0 .. MaxPending]
    /\ siCut \in BOOLEAN /\ aiCut \in BOOLEAN /\ spCut \in BOOLEAN /\ aiGlitch \in BOOLEAN
    /\ siOwed \in {"no", "yes", "clashed"}
    /\ aiLeft \subseteq 0 .. fifo[0] - 1
    /\ spOwed \in Nat

Init ==
    /\ pi = {} /\ si = {} /\ siDir = "none"
    /\ ai = {} /\ fifo = [i \in {0, 1} |-> 0] /\ lastRead = 0
    /\ sp = {}
    /\ pending = [k \in Kinds |-> 0]
    /\ siOwed = "no" /\ siCut = FALSE
    /\ aiLeft = {} /\ aiGlitch = FALSE /\ aiCut = FALSE
    /\ spOwed = 0 /\ spCut = FALSE

-----------------------------------------------------------------------------
(* Events.                                                                  *)

Total(q) == q["PI_INT"] + q["SI_INT"] + q["AI_INT"] + q["RSP_DMA_EVT"]

\* add_interrupt_event: an event that finds no free node is dropped.
AddEvent(q, k) == IF Total(q) < PoolFree THEN [q EXCEPT ![k] = @ + 1] ELSE q

\* A program that goes on making events of one kind is bounded.
MayAdd(k) == pending[k] < MaxPending

Take(k) == [pending EXCEPT ![k] = @ - 1]

-----------------------------------------------------------------------------
(* PI.                                                                      *)

PiBusy == pi \cap {"dma", "io"} # {}

PiRefuse == PiBusy

\* PI_RD_LEN_REG, PI_WR_LEN_REG: dma_pi_read, dma_pi_write.  An address that no
\* handler serves is ignored.
DmaPi ==
    /\ \/ PiRefuse /\ UNCHANGED <<pi, pending>>
       \/ /\ ~PiRefuse /\ MayAdd("PI_INT")
          /\ pi' = pi \cup {"dma"}
          /\ pending' = AddEvent(pending, "PI_INT")
       \/ ~PiRefuse /\ UNCHANGED <<pi, pending>>
    /\ UNCHANGED <<siVars, aiVars, spVars>>

\* A write to the cartridge's ROM occupies the bus as a transfer does.
WriteCartRom ==
    /\ \/ PiRefuse /\ UNCHANGED <<pi, pending>>
       \/ /\ ~PiRefuse /\ MayAdd("PI_INT")
          /\ pi' = pi \cup {"io"}
          /\ pending' = AddEvent(pending, "PI_INT")
    /\ UNCHANGED <<siVars, aiVars, spVars>>

\* PI_STATUS_REG: a reset forgets the transfer, but not its event.
ResetPi ==
    /\ pi' = {}
    /\ UNCHANGED <<siVars, aiVars, spVars, pending>>

\* pi_end_of_dma_event.
PiEndOfDma == pi' = pi \ {"dma", "io"}

PiEvent ==
    /\ pending["PI_INT"] > 0
    /\ pending' = Take("PI_INT")
    /\ PiEndOfDma
    /\ UNCHANGED <<siVars, aiVars, spVars>>

-----------------------------------------------------------------------------
(* SI.                                                                      *)

SiRefuse_IoOnly == "io" \in si
SiRefuse == "dma" \in si

\* SI_PIF_ADDR_RD64B_REG and SI_PIF_ADDR_WR64B_REG: dma_si_read, dma_si_write.
\* A write copies RDRAM to the PIF at once and a read copies the PIF to RDRAM
\* when it ends.
DmaSi(dir) ==
    /\ \/ SiRefuse /\ UNCHANGED <<siVars, pending>>
       \/ /\ ~SiRefuse /\ MayAdd("SI_INT")
          /\ siDir' = dir
          /\ si' = si \cup {"dma"}
          /\ siOwed' = IF dir = "read" THEN "yes" ELSE siOwed
          /\ pending' = AddEvent(pending, "SI_INT")
          /\ UNCHANGED siCut
    /\ UNCHANGED <<piVars, aiVars, spVars>>

\* write_pif_mem: a word written to the PIF's RAM starts a transfer without
\* asking whether one is on its way.
WritePifMem ==
    /\ MayAdd("SI_INT")
    /\ siDir' = "write"
    /\ si' = si \cup {"dma", "io"}
    /\ siOwed' = IF siOwed = "yes" THEN "clashed" ELSE siOwed
    /\ pending' = AddEvent(pending, "SI_INT")
    /\ UNCHANGED <<piVars, siCut, aiVars, spVars>>

\* si_end_of_dma_event: the PIF executes its commands, or its RAM is copied.
SiEndOfDma ==
    /\ siDir' = "none"
    /\ siOwed' = IF siDir = "read" THEN "no" ELSE siOwed
    /\ si' = si \ {"dma", "io"}
    /\ siCut' = FALSE

SiEvent ==
    /\ pending["SI_INT"] > 0
    /\ pending' = Take("SI_INT")
    /\ SiEndOfDma
    /\ UNCHANGED <<piVars, aiVars, spVars>>

-----------------------------------------------------------------------------
(* AI.                                                                      *)

\* push_samples(dram + (length - from), from - to): the parts of the buffer in
\* between are played now.
Parts(from, to) == (fifo[0] - from) .. (fifo[0] - to - 1)

Push(from, to) ==
    /\ aiGlitch' = (aiGlitch \/ ~(Parts(from, to) \subseteq aiLeft))
    /\ aiLeft' = aiLeft \ Parts(from, to)

\* read_ai_regs(AI_LEN_REG): get_remaining_dma_length falls from the length to 0
\* as Count advances, and is 0 when no event waits.
ReadAiLen_KeepsLastRead(value) ==
    /\ pending["AI_INT"] = 0 => value = 0
    /\ Push(lastRead, value)
    /\ UNCHANGED <<piVars, siVars, ai, fifo, lastRead, aiCut, spVars, pending>>
ReadAiLen(value) ==
    /\ pending["AI_INT"] = 0 => value = 0
    /\ Push(lastRead, value)
    /\ lastRead' = value
    /\ UNCHANGED <<piVars, siVars, ai, fifo, aiCut, spVars, pending>>

\* do_dma.  Parts of the buffer before that were not played are lost.
DoAiDma(q, length, left, glitch) ==
    /\ lastRead' = length
    /\ pending' = AddEvent(q, "AI_INT")
    /\ aiLeft' = 0 .. length - 1
    /\ aiGlitch' = (glitch \/ left # {})

\* write_ai_regs(AI_LEN_REG): fifo_push.  With both places taken the second
\* buffer is replaced.
WriteAiLen_OverPlaying(length) ==
    /\ fifo' = [fifo EXCEPT ![0] = length]
    /\ \/ /\ "busy" \in ai
          /\ UNCHANGED <<ai, lastRead, pending, aiLeft, aiGlitch>>
       \/ /\ "busy" \notin ai /\ MayAdd("AI_INT")
          /\ ai' = {"busy"}
          /\ DoAiDma(pending, length, aiLeft, aiGlitch)
    /\ UNCHANGED <<piVars, siVars, aiCut, spVars>>
WriteAiLen(length) ==
    /\ \/ /\ "busy" \in ai
          /\ fifo' = [fifo EXCEPT ![1] = length]
          /\ ai' = ai \cup {"full"}
          /\ UNCHANGED <<lastRead, pending, aiLeft, aiGlitch>>
       \/ /\ "busy" \notin ai /\ MayAdd("AI_INT")
          /\ fifo' = [fifo EXCEPT ![0] = length]
          /\ ai' = {"busy"}
          /\ DoAiDma(pending, length, aiLeft, aiGlitch)
    /\ UNCHANGED <<piVars, siVars, aiCut, spVars>>

\* ai_end_of_dma_event: what is left is played, then fifo_pop.
AiEndOfDma_StaysFull ==
    LET rest == Parts(lastRead, 0)
        left == aiLeft \ rest
        glitch == aiGlitch \/ ~(rest \subseteq aiLeft) IN
    \/ /\ "full" \in ai
       /\ fifo' = [fifo EXCEPT ![0] = fifo[1]]
       /\ DoAiDma(Take("AI_INT"), fifo[1], left, glitch)
       /\ UNCHANGED ai
    \/ /\ "full" \notin ai
       /\ ai' = {} /\ lastRead' = 0
       /\ aiLeft' = left /\ aiGlitch' = glitch
       /\ pending' = Take("AI_INT")
       /\ UNCHANGED fifo
AiEndOfDma ==
    LET rest == Parts(lastRead, 0)
        left == aiLeft \ rest
        glitch == aiGlitch \/ ~(rest \subseteq aiLeft) IN
    \/ /\ "full" \in ai
       /\ fifo' = [fifo EXCEPT ![0] = fifo[1]]
       /\ ai' = ai \ {"full"}
       /\ DoAiDma(Take("AI_INT"), fifo[1], left, glitch)
    \/ /\ "full" \notin ai
       /\ ai' = {} /\ lastRead' = 0
       /\ aiLeft' = left /\ aiGlitch' = glitch
       /\ pending' = Take("AI_INT")
       /\ UNCHANGED fifo

AiEvent ==
    /\ pending["AI_INT"] > 0
    /\ AiEndOfDma
    /\ UNCHANGED <<piVars, siVars, aiCut, spVars>>

-----------------------------------------------------------------------------
(* The DMA of the SP.  do_sp_dma copies at once; only its end is an event.  *)

SpRefuse_Never == FALSE
SpRefuse == "full" \in sp

\* SP_RD_LEN_REG and SP_WR_LEN_REG: fifo_push.
DmaSp ==
    /\ \/ SpRefuse /\ UNCHANGED <<spVars, pending>>
       \/ /\ ~SpRefuse /\ "busy" \in sp
          /\ sp' = sp \cup {"full"}
          /\ spOwed' = spOwed + 1
          /\ UNCHANGED pending
       \/ /\ ~SpRefuse /\ "busy" \notin sp
          /\ MayAdd("RSP_DMA_EVT")
          /\ sp' = {"busy"}
          /\ pending' = AddEvent(pending, "RSP_DMA_EVT")
          /\ UNCHANGED spOwed
    /\ UNCHANGED <<piVars, siVars, aiVars, spCut>>

\* rsp_end_of_dma_event: fifo_pop.
SpEvent ==
    /\ pending["RSP_DMA_EVT"] > 0
    /\ \/ /\ "full" \in sp
          /\ sp' = {"busy"}
          /\ spOwed' = spOwed - 1
          /\ pending' = AddEvent(Take("RSP_DMA_EVT"), "RSP_DMA_EVT")
       \/ /\ "full" \notin sp
          /\ sp' = {}
          /\ pending' = Take("RSP_DMA_EVT")
          /\ UNCHANGED spOwed
    /\ UNCHANGED <<piVars, siVars, aiVars, spCut>>

-----------------------------------------------------------------------------
(* Resets.                                                                  *)

\* What a soft reset cuts off.
Cut ==
    /\ siCut' = ("dma" \in si)
    /\ aiCut' = (aiCut \/ "busy" \in ai)
    /\ spCut' = ("busy" \in sp)

\* nmi_int_handler: the boot ROM stops the PI and mutes the sound, init_interrupt
\* empties the queue and AI_STATUS_REG is cleared.  SI and SP are left as they are.
Nmi_KeepsAudio ==
    /\ pi' = IF Hle THEN {} ELSE pi
    /\ pending' = [k \in Kinds |-> 0]
    /\ Cut
    /\ UNCHANGED <<si, siDir, siOwed, ai, fifo, lastRead, aiLeft, aiGlitch, sp, spOwed>>
Nmi ==
    /\ pi' = IF Hle THEN {} ELSE pi
    /\ ai' = {}
    /\ pending' = [k \in Kinds |-> 0]
    /\ Cut
    /\ UNCHANGED <<si, siDir, siOwed, fifo, lastRead, aiLeft, aiGlitch, sp, spOwed>>

\* reset_hard_handler: poweron_pi, poweron_si, poweron_ai, poweron_rsp,
\* and init_interrupt.
HardReset ==
    /\ pi' = {} /\ si' = {} /\ siDir' = "none"
    /\ ai' = {} /\ fifo' = [i \in {0, 1} |-> 0] /\ lastRead' = 0
    /\ sp' = {}
    /\ pending' = [k \in Kinds |-> 0]
    /\ siOwed' = "no" /\ siCut' = FALSE
    /\ aiLeft' = {} /\ aiGlitch' = FALSE /\ aiCut' = FALSE
    /\ spOwed' = 0 /\ spCut' = FALSE

Next ==
    \/ DmaPi \/ WriteCartRom \/ ResetPi
    \/ \E dir \in {"read", "write"} : DmaSi(dir)
    \/ WritePifMem
    \/ \E value \in 0 .. lastRead : ReadAiLen(value)
    \/ \E length \in Lengths : WriteAiLen(length)
    \/ DmaSp
    \/ PiEvent \/ SiEvent \/ AiEvent \/ SpEvent
    \/ Nmi \/ HardReset

Spec == Init /\ [][Next]_vars

\* Count advances and gen_interrupt takes the events in the order in which they
\* are due, so none of them waits for ever.
Fairness == WF_vars(PiEvent) /\ WF_vars(SiEvent) /\ WF_vars(AiEvent) /\ WF_vars(SpEvent)
FairSpec == Spec /\ Fairness

-----------------------------------------------------------------------------
(* Properties.                                                              *)

\* A busy engine has its event in the queue, whatever the program writes and
\* even when it resets the PI in the middle of a transfer or writes to the PIF
\* over one.  The exception is a transfer of SI or SP that a soft reset cut off: SI goes
\* without its event until the program writes to the PIF's RAM and that transfer ends,
\* SP until a hard reset.
CompletionPending ==
    /\ PiBusy => pending["PI_INT"] > 0
    /\ "busy" \in ai => pending["AI_INT"] > 0
    /\ "dma" \in si => pending["SI_INT"] > 0 \/ siCut
    /\ "busy" \in sp => pending["RSP_DMA_EVT"] > 0 \/ spCut

\* The same without the exception: nmi_int_handler would have to wait, as the
\* boot ROM does, for the transfers on their way.
ResetFinishesTransfers ==
    /\ "dma" \in si => pending["SI_INT"] > 0
    /\ "busy" \in sp => pending["RSP_DMA_EVT"] > 0

\* A read that the SI accepted is still going to be copied to RDRAM, unless the
\* program wrote to the PIF over it or a soft reset cut it off: the registers record it,
\* no other transfer can start meanwhile, and the SI_INT whose handler copies is queued.
ReadNotForgotten ==
    siOwed = "yes" => /\ siDir = "read" /\ "dma" \in si
                      /\ pending["SI_INT"] > 0 \/ siCut

\* Every SP transfer that was accepted has been made or waits in the FIFO.
SpTransfersOnce == spOwed = IF "full" \in sp THEN 1 ELSE 0

\* Whatever reads of AI_LEN_REG split a buffer into pieces, every part of a
\* buffer whose playing began is played once, unless a soft reset cut a buffer off.
SamplesPlayedOnce == aiGlitch => aiCut

\* What is left to play is the end of the buffer, and an idle AI has nothing left.
AudioLeft ==
    /\ aiLeft = Parts(lastRead, 0)
    /\ "busy" \notin ai => lastRead = 0 \/ aiCut

\* The inductive invariant: the four properties above hold together.
RcpInv ==
    /\ TypeOK
    /\ CompletionPending
    /\ ReadNotForgotten
    /\ SpTransfersOnce
    /\ AudioLeft
    /\ SamplesPlayedOnce

\* No engine stays busy, and no FIFO full, for ever, unless a soft reset cut off what it
\* was doing.
DmaCompletes ==
    /\ PiBusy ~> ~PiBusy
    /\ "dma" \in si ~> "dma" \notin si \/ siCut
    /\ "full" \in ai ~> "full" \notin ai
    /\ "full" \in sp ~> "full" \notin sp \/ spCut

=============================================================================
