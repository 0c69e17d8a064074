---------------------------- MODULE RcpDmaProofs ----------------------------
(***************************************************************************)
(* The safety properties of RcpDma, for audio buffers of any lengths and   *)
(* any bound on waiting events, as long as the pool has room for them.     *)
(***************************************************************************)
EXTENDS RcpDma, TLAPS

\* A queue of at most MaxPending events of each kind, one kind below the bound,
\* finds a node for another event of that kind.
LEMMA AddEventLemma ==
    ASSUME PoolFree >= 4 * MaxPending,
           NEW q \in [Kinds -> 0 .. MaxPending], NEW k \in Kinds, q[k] < MaxPending
    PROVE  /\ AddEvent(q, k) = [q EXCEPT ![k] = @ + 1]
           /\ AddEvent(q, k) \in [Kinds -> 0 .. MaxPending]
<1>1. /\ q["PI_INT"] \in 0 .. MaxPending /\ q["SI_INT"] \in 0 .. MaxPending
      /\ q["AI_INT"] \in 0 .. MaxPending /\ q["RSP_DMA_EVT"] \in 0 .. MaxPending
  BY DEF Kinds
<1>2. Total(q) < PoolFree
  BY <1>1, RcpDmaAssumption DEF Total, Kinds
<1>3. AddEvent(q, k) = [q EXCEPT ![k] = q[k] + 1]
  BY <1>2 DEF AddEvent
<1>4. q[k] + 1 \in 0 .. MaxPending
  BY RcpDmaAssumption
<1> QED
  BY <1>3, <1>4

\* An event that is taken was there, and the others stay.
LEMMA TakeLemma ==
    ASSUME pending \in [Kinds -> 0 .. MaxPending], NEW k \in Kinds, pending[k] > 0
    PROVE  /\ Take(k) \in [Kinds -> 0 .. MaxPending]
           /\ Take(k)[k] < MaxPending
           /\ \A j \in Kinds \ {k} : Take(k)[j] = pending[j]
BY RcpDmaAssumption DEF Take

-----------------------------------------------------------------------------
(* RcpInv, engine by engine: an action of one engine leaves the parts of    *)
(* the others alone, as it leaves their events alone.                       *)

PiInv ==
    /\ pi \subseteq {"dma", "io"}
    /\ PiBusy => pending["PI_INT"] > 0

SiInv ==
    /\ si \subseteq {"dma", "io"}
    /\ siDir \in {"none", "read", "write"}
    /\ siOwed \in {"no", "yes", "clashed"} /\ siCut \in BOOLEAN
    /\ "dma" \in si => pending["SI_INT"] > 0 \/ siCut
    /\ ReadNotForgotten

AiInv ==
    /\ ai \subseteq {"busy", "full"} /\ ("full" \in ai => "busy" \in ai)
    /\ fifo \in [{0, 1} -> Lengths \cup {0}]
    /\ lastRead \in 0 .. fifo[0]
    /\ "busy" \in ai => pending["AI_INT"] > 0
    /\ AudioLeft
    /\ aiGlitch \in BOOLEAN /\ aiCut \in BOOLEAN
    /\ SamplesPlayedOnce

SpInv ==
    /\ sp \subseteq {"busy", "full"} /\ ("full" \in sp => "busy" \in sp)
    /\ spCut \in BOOLEAN
    /\ "busy" \in sp => pending["RSP_DMA_EVT"] > 0 \/ spCut
    /\ SpTransfersOnce

QueueInv == pending \in [Kinds -> 0 .. MaxPending]

EngineInv == PiInv /\ SiInv /\ AiInv /\ SpInv /\ QueueInv

\* The audio buffers have lengths.
LEMMA FifoNat == AiInv => fifo[0] \in Nat /\ fifo[1] \in Nat
<1>1. \A n \in Lengths \cup {0} : n \in Nat
  BY RcpDmaAssumption
<1>2. AiInv => fifo[0] \in Lengths \cup {0} /\ fifo[1] \in Lengths \cup {0}
  BY DEF AiInv
<1> QED
  BY <1>1, <1>2

\* The parts make up RcpInv.
LEMMA EngineInvSuffices == EngineInv => RcpInv
<1> SUFFICES ASSUME EngineInv PROVE RcpInv
  OBVIOUS
<1>1. aiLeft \subseteq 0 .. fifo[0] - 1
  <2>1. fifo[0] \in Nat /\ lastRead \in 0 .. fifo[0]
    BY FifoNat DEF EngineInv, AiInv
  <2>2. aiLeft = (fifo[0] - lastRead) .. (fifo[0] - 0 - 1)
    BY DEF EngineInv, AiInv, AudioLeft, Parts
  <2> QED
    BY <2>1, <2>2
<1>2. spOwed \in Nat
  BY DEF EngineInv, SpInv, SpTransfersOnce
<1> QED
  BY <1>1, <1>2
     DEF EngineInv, PiInv, SiInv, AiInv, SpInv, QueueInv, RcpInv, TypeOK, CompletionPending

\* The machine that was just switched on.
LEMMA InitInv == Init => EngineInv
<1> SUFFICES ASSUME Init PROVE EngineInv
  OBVIOUS
<1>1. 0 \in 0 .. MaxPending /\ fifo[0] = 0
  BY RcpDmaAssumption DEF Init
<1>2. QueueInv
  BY <1>1 DEF Init, QueueInv
<1>3. PiInv /\ SiInv /\ SpInv
  BY DEF Init, PiInv, PiBusy, SiInv, ReadNotForgotten, SpInv, SpTransfersOnce
<1>4. AiInv
  <2>1. fifo \in [{0, 1} -> Lengths \cup {0}] /\ lastRead \in 0 .. fifo[0]
    BY <1>1 DEF Init
  <2>2. AudioLeft
    BY <1>1 DEF Init, AudioLeft, Parts
  <2> QED
    BY <2>1, <2>2, Zenon DEF Init, AiInv, SamplesPlayedOnce
<1> QED
  BY <1>2, <1>3, <1>4 DEF EngineInv

\* What an engine's part of the invariant depends on.
LEMMA PiFrame ==
    PiInv /\ UNCHANGED piVars /\ pending'["PI_INT"] = pending["PI_INT"] => PiInv'
BY DEF PiInv, PiBusy, piVars

LEMMA SiFrame ==
    /\ SiInv /\ UNCHANGED siVars /\ pending'["SI_INT"] = pending["SI_INT"]
    => SiInv'
BY DEF SiInv, ReadNotForgotten, siVars

LEMMA AiFrame ==
    /\ AiInv /\ UNCHANGED aiVars /\ pending'["AI_INT"] = pending["AI_INT"]
    => AiInv'
BY DEF AiInv, AudioLeft, Parts, SamplesPlayedOnce, aiVars

LEMMA SpFrame ==
    /\ SpInv /\ UNCHANGED spVars /\ pending'["RSP_DMA_EVT"] = pending["RSP_DMA_EVT"]
    => SpInv'
BY DEF SpInv, SpTransfersOnce, spVars

-----------------------------------------------------------------------------
(* Steps.                                                                   *)

\* An action that schedules an event of its own kind leaves the others alone.
LEMMA ScheduleLemma ==
    ASSUME PoolFree >= 4 * MaxPending, QueueInv,
           NEW k \in Kinds, MayAdd(k), pending' = AddEvent(pending, k)
    PROVE  /\ pending' \in [Kinds -> 0 .. MaxPending]
           /\ pending'[k] > 0
           /\ \A j \in Kinds \ {k} : pending'[j] = pending[j]
<1>1. pending \in [Kinds -> 0 .. MaxPending] /\ pending[k] < MaxPending
  BY DEF QueueInv, MayAdd
<1>2. /\ pending' = [pending EXCEPT ![k] = @ + 1]
      /\ pending' \in [Kinds -> 0 .. MaxPending]
  BY <1>1, AddEventLemma
<1> QED
  BY <1>1, <1>2, RcpDmaAssumption

\* The same for the event of an engine that starts its next transfer when one
\* ends.
LEMMA RescheduleLemma ==
    ASSUME PoolFree >= 4 * MaxPending, QueueInv,
           NEW k \in Kinds, pending[k] > 0, pending' = AddEvent(Take(k), k)
    PROVE  /\ pending' \in [Kinds -> 0 .. MaxPending]
           /\ pending'[k] > 0
           /\ \A j \in Kinds \ {k} : pending'[j] = pending[j]
<1>1. /\ Take(k) \in [Kinds -> 0 .. MaxPending] /\ Take(k)[k] < MaxPending
      /\ \A j \in Kinds \ {k} : Take(k)[j] = pending[j]
  BY TakeLemma DEF QueueInv
<1>2. /\ pending' = [Take(k) EXCEPT ![k] = @ + 1]
      /\ pending' \in [Kinds -> 0 .. MaxPending]
  BY <1>1, AddEventLemma
<1> QED
  BY <1>1, <1>2, RcpDmaAssumption

\* Steps of the PI keep the invariant.
LEMMA PiSteps ==
    ASSUME PoolFree >= 4 * MaxPending, EngineInv,
           DmaPi \/ WriteCartRom \/ ResetPi \/ PiEvent
    PROVE  EngineInv'
<1>1. PiInv /\ SiInv /\ AiInv /\ SpInv /\ QueueInv
  BY DEF EngineInv
<1>2. UNCHANGED <<siVars, aiVars, spVars>>
  BY DEF DmaPi, WriteCartRom, ResetPi, PiEvent
<1>3. /\ pending' \in [Kinds -> 0 .. MaxPending]
      /\ \A j \in Kinds \ {"PI_INT"} : pending'[j] = pending[j]
      /\ PiInv'
  <2>1. CASE /\ MayAdd("PI_INT") /\ pending' = AddEvent(pending, "PI_INT")
             /\ pi' \subseteq {"dma", "io"}
    BY <1>1, <2>1, ScheduleLemma DEF PiInv, Kinds
  <2>2. CASE UNCHANGED <<pi, pending>>
    BY <1>1, <2>2, PiFrame DEF QueueInv, piVars
  <2>3. CASE ResetPi
    BY <1>1, <2>3 DEF ResetPi, QueueInv, PiInv, PiBusy
  <2>4. CASE PiEvent
    <3>1. pending["PI_INT"] > 0 /\ pending' = Take("PI_INT")
      BY <2>4 DEF PiEvent
    <3>2. PiInv'
      BY <1>1, <2>4 DEF PiEvent, PiEndOfDma, PiInv, PiBusy
    <3> QED
      BY <1>1, <3>1, <3>2, TakeLemma DEF QueueInv, Kinds
  <2> QED
    BY <1>1, <2>1, <2>2, <2>3, <2>4 DEF DmaPi, WriteCartRom, PiInv
<1>4. SiInv' /\ AiInv' /\ SpInv'
  BY <1>1, <1>2, <1>3, SiFrame, AiFrame, SpFrame DEF Kinds
<1> QED
  BY <1>1, <1>2, <1>3, <1>4 DEF EngineInv, QueueInv

\* Steps of the SI keep the invariant.
LEMMA SiSteps ==
    ASSUME PoolFree >= 4 * MaxPending, EngineInv,
           (\E dir \in {"read", "write"} : DmaSi(dir)) \/ WritePifMem \/ SiEvent
    PROVE  EngineInv'
<1>1. PiInv /\ SiInv /\ AiInv /\ SpInv /\ QueueInv
  BY DEF EngineInv
<1>2. UNCHANGED <<piVars, aiVars, spVars>>
  BY DEF DmaSi, WritePifMem, SiEvent
<1>3. /\ pending' \in [Kinds -> 0 .. MaxPending]
      /\ \A j \in Kinds \ {"SI_INT"} : pending'[j] = pending[j]
      /\ SiInv'
  <2>1. CASE \E dir \in {"read", "write"} : DmaSi(dir)
    <3>1. PICK dir \in {"read", "write"} : DmaSi(dir)
      BY <2>1
    <3>2. CASE SiRefuse
      BY <1>1, <1>2, <3>1, <3>2, SiFrame DEF DmaSi, QueueInv, siVars
    <3>3. CASE ~SiRefuse
      <4>1. /\ pending' \in [Kinds -> 0 .. MaxPending]
            /\ pending'["SI_INT"] > 0
            /\ \A j \in Kinds \ {"SI_INT"} : pending'[j] = pending[j]
        BY <1>1, <3>1, <3>3, ScheduleLemma DEF DmaSi, Kinds
      <4>2. SiInv'
        BY <1>1, <3>1, <3>3, <4>1 DEF DmaSi, SiInv, ReadNotForgotten, SiRefuse
      <4> QED
        BY <4>1, <4>2
    <3> QED
      BY <3>2, <3>3
  <2>2. CASE WritePifMem
    <3>1. /\ pending' \in [Kinds -> 0 .. MaxPending]
          /\ pending'["SI_INT"] > 0
          /\ \A j \in Kinds \ {"SI_INT"} : pending'[j] = pending[j]
      BY <1>1, <2>2, ScheduleLemma DEF WritePifMem, Kinds
    <3>2. SiInv'
      BY <1>1, <2>2, <3>1 DEF WritePifMem, SiInv, ReadNotForgotten
    <3> QED
      BY <3>1, <3>2
  <2>3. CASE SiEvent
    <3>1. pending["SI_INT"] > 0 /\ pending' = Take("SI_INT")
      BY <2>3 DEF SiEvent
    <3>2. SiInv'
      BY <1>1, <2>3 DEF SiEvent, SiEndOfDma, SiInv, ReadNotForgotten
    <3> QED
      BY <1>1, <3>1, <3>2, TakeLemma DEF QueueInv, Kinds
  <2> QED
    BY <2>1, <2>2, <2>3
<1>4. PiInv' /\ AiInv' /\ SpInv'
  BY <1>1, <1>2, <1>3, PiFrame, AiFrame, SpFrame DEF Kinds
<1> QED
  BY <1>1, <1>2, <1>3, <1>4 DEF EngineInv, QueueInv

\* Steps of the SP keep the invariant.
LEMMA SpSteps ==
    ASSUME PoolFree >= 4 * MaxPending, EngineInv, DmaSp \/ SpEvent
    PROVE  EngineInv'
<1>1. PiInv /\ SiInv /\ AiInv /\ SpInv /\ QueueInv
  BY DEF EngineInv
<1>2. UNCHANGED <<piVars, siVars, aiVars, spCut>>
  BY DEF DmaSp, SpEvent
<1>3. /\ pending' \in [Kinds -> 0 .. MaxPending]
      /\ \A j \in Kinds \ {"RSP_DMA_EVT"} : pending'[j] = pending[j]
      /\ SpInv'
  <2>1. CASE DmaSp /\ UNCHANGED <<spVars, pending>>
    BY <1>1, <1>2, <2>1, SpFrame DEF QueueInv
  <2>2. CASE DmaSp /\ ~SpRefuse /\ "busy" \in sp
    <3>1. pending' = pending /\ spCut' = spCut
      BY <1>2, <2>2 DEF DmaSp, SpRefuse
    <3>2. spOwed = 0 /\ spOwed' = spOwed + 1 /\ sp' = sp \cup {"full"}
      BY <1>1, <2>2 DEF DmaSp, SpRefuse, SpInv, SpTransfersOnce
    <3>3. SpInv'
      BY <1>1, <2>2, <3>1, <3>2 DEF SpInv, SpTransfersOnce
    <3> QED
      BY <1>1, <3>1, <3>3 DEF QueueInv
  <2>3. CASE DmaSp /\ ~SpRefuse /\ "busy" \notin sp
    <3>1. /\ pending' \in [Kinds -> 0 .. MaxPending]
          /\ pending'["RSP_DMA_EVT"] > 0
          /\ \A j \in Kinds \ {"RSP_DMA_EVT"} : pending'[j] = pending[j]
      BY <1>1, <2>3, ScheduleLemma DEF DmaSp, Kinds
    <3>2. SpInv'
      BY <1>1, <2>3, <3>1 DEF DmaSp, SpInv, SpTransfersOnce
    <3> QED
      BY <3>1, <3>2
  <2>4. CASE SpEvent /\ "full" \in sp
    <3>1. /\ pending' \in [Kinds -> 0 .. MaxPending]
          /\ pending'["RSP_DMA_EVT"] > 0
          /\ \A j \in Kinds \ {"RSP_DMA_EVT"} : pending'[j] = pending[j]
      BY <1>1, <2>4, RescheduleLemma DEF SpEvent, Kinds
    <3>2. SpInv'
      BY <1>1, <2>4, <3>1 DEF SpEvent, SpInv, SpTransfersOnce
    <3> QED
      BY <3>1, <3>2
  <2>5. CASE SpEvent /\ "full" \notin sp
    <3>1. pending["RSP_DMA_EVT"] > 0 /\ pending' = Take("RSP_DMA_EVT")
      BY <2>5 DEF SpEvent
    <3>2. SpInv'
      BY <1>1, <2>5 DEF SpEvent, SpInv, SpTransfersOnce
    <3> QED
      BY <1>1, <3>1, <3>2, TakeLemma DEF QueueInv, Kinds
  <2> QED
    BY <2>1, <2>2, <2>3, <2>4, <2>5 DEF DmaSp
<1>4. PiInv' /\ SiInv' /\ AiInv'
  BY <1>1, <1>2, <1>3, PiFrame, SiFrame, AiFrame DEF Kinds
<1> QED
  BY <1>1, <1>2, <1>3, <1>4 DEF EngineInv, QueueInv

\* Steps of the AI keep the invariant.
LEMMA AiSteps ==
    ASSUME PoolFree >= 4 * MaxPending, EngineInv,
           \/ \E value \in 0 .. lastRead : ReadAiLen(value)
           \/ \E length \in Lengths : WriteAiLen(length)
           \/ AiEvent
    PROVE  EngineInv'
<1>1. PiInv /\ SiInv /\ AiInv /\ SpInv /\ QueueInv
  BY DEF EngineInv
<1>2. UNCHANGED <<piVars, siVars, aiCut, spVars>>
  BY DEF ReadAiLen, WriteAiLen, AiEvent
<1>3. /\ fifo \in [{0, 1} -> Lengths \cup {0}]
      /\ fifo[0] \in Nat /\ fifo[1] \in Nat /\ lastRead \in 0 .. fifo[0]
      /\ aiLeft = (fifo[0] - lastRead) .. (fifo[0] - 1)
      /\ aiGlitch \in BOOLEAN /\ aiCut \in BOOLEAN
  BY <1>1, FifoNat DEF AiInv, AudioLeft, Parts, QueueInv
\* A buffer that starts to play after one that was played to its end.
<1>4. ASSUME NEW length \in Lengths \cup {0}, NEW q, NEW left, NEW glitch \in BOOLEAN,
             DoAiDma(q, length, left, glitch),
             glitch => aiCut, left = {} \/ aiCut,
             fifo' = [fifo EXCEPT ![0] = length], ai' = {"busy"},
             pending'["AI_INT"] > 0
      PROVE  AiInv'
  <2>1. fifo'[0] = length /\ fifo' \in [{0, 1} -> Lengths \cup {0}] /\ length \in Nat
    BY <1>3, <1>4, RcpDmaAssumption
  <2>2. lastRead' = length /\ aiLeft' = 0 .. length - 1
    BY <1>4 DEF DoAiDma
  <2>3. AudioLeft'
    BY <1>4, <2>1, <2>2 DEF AudioLeft, Parts
  <2>4. aiGlitch' \in BOOLEAN /\ (aiGlitch' => aiCut')
    BY <1>2, <1>4, Zenon DEF DoAiDma
  <2> QED
    <3>1. aiCut' \in BOOLEAN
      BY <1>2, <1>3, Zenon
    <3>2. SamplesPlayedOnce'
      BY <2>4, Zenon DEF SamplesPlayedOnce
    <3> QED
      BY <1>4, <2>1, <2>2, <2>3, <2>4, <3>1, <3>2 DEF AiInv
<1>5. /\ pending' \in [Kinds -> 0 .. MaxPending]
      /\ \A j \in Kinds \ {"AI_INT"} : pending'[j] = pending[j]
      /\ AiInv'
  <2>1. CASE \E value \in 0 .. lastRead : ReadAiLen(value)
    <3>1. PICK value \in 0 .. lastRead : ReadAiLen(value)
      BY <2>1
    <3>2. /\ pending' = pending /\ ai' = ai /\ fifo' = fifo /\ lastRead' = value
          /\ aiGlitch' = (aiGlitch \/ ~(Parts(lastRead, value) \subseteq aiLeft))
          /\ aiLeft' = aiLeft \ Parts(lastRead, value)
      BY <3>1 DEF ReadAiLen, Push
    <3>3. Parts(lastRead, value) = (fifo[0] - lastRead) .. (fifo[0] - value - 1)
      BY DEF Parts
    <3>4. Parts(lastRead, value) \subseteq aiLeft
      BY <1>3, <3>1, <3>3
    <3>5. aiGlitch' = aiGlitch
      BY <1>3, <3>2, <3>4
    <3>6. aiLeft' = (fifo[0] - value) .. (fifo[0] - 0 - 1)
      BY <1>3, <3>1, <3>2, <3>3
    <3>7. value \in 0 .. fifo'[0] /\ (lastRead = 0 => value = 0)
      BY <1>3, <3>1, <3>2
    <3>8. AudioLeft'
      BY <1>1, <1>2, <3>2, <3>6, <3>7 DEF AiInv, AudioLeft, Parts
    <3> QED
      BY <1>1, <1>2, <3>2, <3>5, <3>7, <3>8 DEF AiInv, SamplesPlayedOnce, QueueInv
  <2>2. CASE \E length \in Lengths : WriteAiLen(length)
    <3>1. PICK length \in Lengths : WriteAiLen(length)
      BY <2>2
    <3>2. CASE "busy" \in ai
      <4>1. /\ fifo' = [fifo EXCEPT ![1] = length] /\ ai' = ai \cup {"full"}
            /\ UNCHANGED <<lastRead, pending, aiLeft, aiGlitch>>
        BY <3>1, <3>2 DEF WriteAiLen
      <4>2. fifo' \in [{0, 1} -> Lengths \cup {0}] /\ fifo'[0] = fifo[0]
        BY <1>3, <4>1
      <4>3. AudioLeft'
        BY <1>1, <3>2, <4>1, <4>2 DEF AiInv, AudioLeft, Parts
      <4> QED
        BY <1>1, <1>2, <3>2, <4>1, <4>2, <4>3 DEF AiInv, SamplesPlayedOnce, QueueInv
    <3>3. CASE "busy" \notin ai
      <4>1. /\ MayAdd("AI_INT")
            /\ fifo' = [fifo EXCEPT ![0] = length] /\ ai' = {"busy"}
            /\ DoAiDma(pending, length, aiLeft, aiGlitch)
        BY <3>1, <3>3 DEF WriteAiLen
      <4>2. /\ pending' \in [Kinds -> 0 .. MaxPending]
            /\ pending'["AI_INT"] > 0
            /\ \A j \in Kinds \ {"AI_INT"} : pending'[j] = pending[j]
        BY <1>1, <4>1, ScheduleLemma DEF DoAiDma, Kinds
      <4>3. aiLeft = {} \/ aiCut
        BY <1>1, <1>3, <3>3 DEF AiInv, AudioLeft
      <4>4. aiGlitch => aiCut
        BY <1>1 DEF AiInv, SamplesPlayedOnce
      <4>5. aiGlitch \in BOOLEAN /\ length \in Lengths \cup {0}
        BY <1>3, <3>1
      <4>6. AiInv'
        BY <1>4, <4>1, <4>2, <4>3, <4>4, <4>5, Zenon
      <4> QED
        BY <4>2, <4>6
    <3> QED
      BY <3>2, <3>3
  <2>3. CASE AiEvent
    <3> DEFINE rest == Parts(lastRead, 0)
               left == aiLeft \ rest
               glitch == aiGlitch \/ ~(rest \subseteq aiLeft)
    <3>1. rest = aiLeft
      BY <1>1 DEF AiInv, AudioLeft
    <3>2. left = {} /\ glitch = aiGlitch
      BY <1>3, <3>1
    <3>3. pending["AI_INT"] > 0
      BY <2>3 DEF AiEvent
    <3>4. aiGlitch => aiCut
      BY <1>1 DEF AiInv, SamplesPlayedOnce
    <3>5. CASE "full" \in ai
      <4>1. /\ fifo' = [fifo EXCEPT ![0] = fifo[1]] /\ ai' = ai \ {"full"}
            /\ DoAiDma(Take("AI_INT"), fifo[1], left, glitch)
        BY <2>3, <3>5 DEF AiEvent, AiEndOfDma
      <4>2. /\ pending' \in [Kinds -> 0 .. MaxPending]
            /\ pending'["AI_INT"] > 0
            /\ \A j \in Kinds \ {"AI_INT"} : pending'[j] = pending[j]
        BY <1>1, <3>3, <4>1, RescheduleLemma DEF DoAiDma, Kinds
      <4>3. ai' = {"busy"} /\ fifo[1] \in Lengths \cup {0}
        BY <1>1, <1>3, <3>5, <4>1 DEF AiInv
      <4>4. DoAiDma(Take("AI_INT"), fifo[1], {}, aiGlitch)
        BY <3>2, <4>1
      <4>5. AiInv'
        BY <1>3, <1>4, <3>4, <4>1, <4>2, <4>3, <4>4, Zenon
      <4> QED
        BY <4>2, <4>5
    <3>6. CASE "full" \notin ai
      <4>1. /\ ai' = {} /\ lastRead' = 0 /\ aiLeft' = left /\ aiGlitch' = glitch
            /\ pending' = Take("AI_INT") /\ fifo' = fifo
        BY <2>3, <3>6 DEF AiEvent, AiEndOfDma
      <4>2. AudioLeft'
        BY <1>3, <3>2, <4>1 DEF AudioLeft, Parts
      <4>3. AiInv'
        <5>1. aiGlitch' = aiGlitch
          BY <3>2, <4>1
        <5>2. lastRead' \in 0 .. fifo'[0]
          BY <1>3, <4>1
        <5> QED
          BY <1>1, <1>2, <4>1, <4>2, <5>1, <5>2 DEF AiInv, SamplesPlayedOnce
      <4> QED
        BY <1>1, <3>3, <4>1, <4>3, TakeLemma DEF QueueInv, Kinds
    <3> QED
      BY <3>5, <3>6
  <2> QED
    BY <2>1, <2>2, <2>3
<1>6. PiInv' /\ SiInv' /\ SpInv'
  BY <1>1, <1>2, <1>5, PiFrame, SiFrame, SpFrame DEF Kinds
<1> QED
  BY <1>1, <1>2, <1>5, <1>6 DEF EngineInv, QueueInv

\* A soft reset empties the queue: PI and AI are idle then, and the others are
\* excused.
LEMMA NmiStep ==
    ASSUME EngineInv, Nmi, Hle
    PROVE  EngineInv'
<1>1. PiInv /\ SiInv /\ AiInv /\ SpInv /\ QueueInv
  BY DEF EngineInv
<1>2. /\ pi' = {} /\ ai' = {}
      /\ UNCHANGED <<si, siDir, siOwed, fifo, lastRead, aiLeft, aiGlitch, sp, spOwed>>
      /\ pending' = [k \in Kinds |-> 0]
  BY DEF Nmi
<1>6. /\ siCut' \in BOOLEAN /\ ("dma" \in si => siCut')
      /\ aiCut' \in BOOLEAN /\ (aiCut \/ "busy" \in ai => aiCut')
      /\ spCut' \in BOOLEAN /\ ("busy" \in sp => spCut')
  <2>1. siCut' = ("dma" \in si) /\ aiCut' = (aiCut \/ "busy" \in ai) /\ spCut' = ("busy" \in sp)
    BY DEF Nmi, Cut
  <2>3. /\ ("dma" \in si) \in BOOLEAN /\ ("busy" \in sp) \in BOOLEAN
        /\ (aiCut \/ "busy" \in ai) \in BOOLEAN
    OBVIOUS
  <2>4. siCut' \in BOOLEAN /\ aiCut' \in BOOLEAN /\ spCut' \in BOOLEAN
    BY <2>1, <2>3
  <2>5. ("dma" \in si => siCut') /\ ("busy" \in sp => spCut')
    BY <2>1
  <2>6. aiCut \/ "busy" \in ai => aiCut'
    BY <2>1
  <2> QED
    BY <2>4, <2>5, <2>6
<1>3. QueueInv'
  <2>1. 0 \in 0 .. MaxPending
    BY RcpDmaAssumption
  <2> QED
    BY <1>2, <2>1 DEF QueueInv
<1>4. PiInv' /\ SiInv' /\ SpInv'
  BY <1>1, <1>2, <1>6 DEF PiInv, PiBusy, SiInv, ReadNotForgotten, SpInv, SpTransfersOnce
<1>5. AiInv'
  BY <1>1, <1>2, <1>6 DEF AiInv, AudioLeft, Parts, SamplesPlayedOnce
<1> QED
  BY <1>3, <1>4, <1>5 DEF EngineInv

\* A hard reset is a power-on.
LEMMA HardResetStep ==
    ASSUME HardReset
    PROVE  EngineInv'
<1>1. 0 \in 0 .. MaxPending /\ fifo'[0] = 0
  BY RcpDmaAssumption DEF HardReset
<1>2. QueueInv'
  BY <1>1 DEF HardReset, QueueInv
<1>3. PiInv' /\ SiInv' /\ SpInv'
  BY DEF HardReset, PiInv, PiBusy, SiInv, ReadNotForgotten, SpInv, SpTransfersOnce
<1>4. AiInv'
  <2>1. fifo' \in [{0, 1} -> Lengths \cup {0}] /\ lastRead' \in 0 .. fifo'[0]
    BY <1>1 DEF HardReset
  <2>2. AudioLeft'
    BY <1>1 DEF HardReset, AudioLeft, Parts
  <2> QED
    BY <2>1, <2>2, Zenon DEF HardReset, AiInv, SamplesPlayedOnce
<1> QED
  BY <1>2, <1>3, <1>4 DEF EngineInv

\* Every step keeps the invariant.
LEMMA StepInv ==
    ASSUME PoolFree >= 4 * MaxPending, Hle, EngineInv, [Next]_vars
    PROVE  EngineInv'
<1>1. CASE Next
  BY <1>1, PiSteps, SiSteps, AiSteps, SpSteps, NmiStep, HardResetStep DEF Next
<1>2. CASE UNCHANGED vars
  <2>1. UNCHANGED <<piVars, siVars, aiVars, spVars, pending>>
    BY <1>2 DEF vars
  <2> QED
    BY <2>1, PiFrame, SiFrame, AiFrame, SpFrame DEF EngineInv, QueueInv
<1> QED
  BY <1>1, <1>2

\* With a pool that holds the events of the four engines and the boot ROM emulated
\* at a high level, the inductive invariant of the DMA engines always holds.
THEOREM AlwaysRcpInv ==
    ASSUME PoolFree >= 4 * MaxPending, Hle
    PROVE  Spec => []RcpInv
<1>1. Init => EngineInv
  BY InitInv
<1>2. EngineInv /\ [Next]_vars => EngineInv'
  BY StepInv
<1>3. EngineInv => RcpInv
  BY EngineInvSuffices
<1> QED
  BY <1>1, <1>2, <1>3, PTL DEF Spec

\* A busy engine always has its completion in the queue: whatever the program
\* writes to the registers, no engine can wait for an event that never comes,
\* except for a transfer of SI or SP that a soft reset cut off.
THEOREM CompletionAlwaysPending ==
    ASSUME PoolFree >= 4 * MaxPending, Hle
    PROVE  Spec => []CompletionPending
<1>1. RcpInv => CompletionPending
  BY DEF RcpInv
<1> QED
  BY <1>1, AlwaysRcpInv, PTL

\* Whatever the program reads from AI_LEN_REG and whenever it queues buffers, every
\* part of a buffer that began to play is played exactly once, unless a soft
\* reset cut off a buffer.
THEOREM AudioPlayedOnce ==
    ASSUME PoolFree >= 4 * MaxPending, Hle
    PROVE  Spec => []SamplesPlayedOnce
<1>1. RcpInv => SamplesPlayedOnce
  BY DEF RcpInv
<1> QED
  BY <1>1, AlwaysRcpInv, PTL

\* A read that the SI accepted is still going to be copied to RDRAM, unless the program
\* wrote to the PIF over it or a soft reset cut it off: the event that copies is queued.
THEOREM ReadsNotForgotten ==
    ASSUME PoolFree >= 4 * MaxPending, Hle
    PROVE  Spec => []ReadNotForgotten
<1>1. RcpInv => ReadNotForgotten
  BY DEF RcpInv
<1> QED
  BY <1>1, AlwaysRcpInv, PTL

\* Every SP transfer that was accepted has been made or waits in the FIFO, with a pool of
\* any size, where events may be dropped, and with either boot ROM.
THEOREM SpTransfersMadeOnce == Spec => []SpTransfersOnce
<1>1. Init => SpTransfersOnce
  BY DEF Init, SpTransfersOnce
<1>2. SpTransfersOnce /\ [Next]_vars => SpTransfersOnce'
  <2> SUFFICES ASSUME SpTransfersOnce, [Next]_vars PROVE SpTransfersOnce'
    OBVIOUS
  <2>1. CASE UNCHANGED <<sp, spOwed>>
    BY <2>1 DEF SpTransfersOnce
  <2>2. CASE DmaSp
    BY <2>1, <2>2 DEF DmaSp, SpRefuse, SpTransfersOnce, spVars
  <2>3. CASE SpEvent
    BY <2>3 DEF SpEvent, SpTransfersOnce
  <2>4. CASE HardReset
    BY <2>4 DEF HardReset, SpTransfersOnce
  <2>5. ASSUME \/ DmaPi \/ WriteCartRom \/ ResetPi \/ WritePifMem \/ PiEvent \/ SiEvent
               \/ AiEvent \/ Nmi \/ UNCHANGED vars
               \/ \E dir \in {"read", "write"} : DmaSi(dir)
               \/ \E value \in 0 .. lastRead : ReadAiLen(value)
               \/ \E length \in Lengths : WriteAiLen(length)
        PROVE  UNCHANGED <<sp, spOwed>>
    BY <2>5 DEF DmaPi, WriteCartRom, ResetPi, WritePifMem, PiEvent, SiEvent, AiEvent, Nmi,
                DmaSi, ReadAiLen, WriteAiLen, spVars, vars
  <2> QED BY <2>1, <2>2, <2>3, <2>4, <2>5 DEF Next
<1> QED BY <1>1, <1>2, PTL DEF Spec

=============================================================================
